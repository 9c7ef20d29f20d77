------------------------- MODULE WalletTablesProofs -------------------------
(***************************************************************************)
(* What a handler's open transaction holds at each of its locations, and    *)
(* what follows for the tables and the balance cache of WalletService: an   *)
(* acked reference is on record, a cached balance is one the wallet had, no *)
(* user and no name has two wallets.  All of it holds with any number of    *)
(* consumers and any cache stores.                                          *)
(***************************************************************************)
EXTENDS WalletServiceProofs

USE DEF Location

\* Between a transaction's first write and its commit.
WritingAt == {"depositFill", "depositUpdate", "transferCredit", "insertRows", "commit"}

\* NewRows as a function of the message m, the wallet s and the toWallet d.
RowsFor(m, s, d) ==
  LET row(type, copy, delta, key) ==
        [type |-> type, wallet |-> copy.id, before |-> copy.balance,
         after |-> copy.balance + delta, key |-> key]
  IN  IF m.type = "deposit" THEN
        <<row("deposit", s, m.amount, KeyOr(m.ref, FreshKey))>>
      ELSE IF m.type = "withdraw" THEN
        <<row("withdrawal", s, -m.amount, KeyOr(m.ref, FreshKey))>>
      ELSE
        <<row("transfer_out", s, -m.amount, IF m.ref = NoRef THEN NoKey ELSE m.ref),
          row("transfer_in", d, m.amount, KeyOr(m.ref, FreshKey))>>

\* A handler that is done with its updates has set wallet w's balance to b: a
\* transfer credits last, which decides when its two wallets are one.
SetsTo(m, s, d, w, b) ==
  \/ m.type = "deposit" /\ w = s.id /\ b = s.balance + m.amount
  \/ m.type = "withdraw" /\ w = s.id /\ b = s.balance - m.amount
  \/ m.type = "transfer" /\ w = d.id /\ b = d.balance + m.amount
  \/ m.type = "transfer" /\ w = s.id /\ w # d.id /\ b = s.balance - m.amount

\* What a handler at a location has written: p to wallets, r to transactions.
Wrote(at, m, s, d, p, r) ==
  /\ at \notin WritingAt => \A w \in WalletId : p[w] = None
  /\ at \in {"depositFill", "depositUpdate"} => \A w \in WalletId : p[w] # None => w = s.id
  /\ at = "transferCredit" =>
       \A w \in WalletId : p[w] # None => w = s.id /\ p[w].balance = s.balance - m.amount
  /\ at \in {"insertRows", "commit"} =>
       \A w \in WalletId : p[w] # None => SetsTo(m, s, d, w, p[w].balance)
  /\ at = "commit" => r = RowsFor(m, s, d)

Written == \A c \in Consumer : Wrote(pc[c], msg[c], src[c], dst[c], pend[c], rows[c])

\* ReturnedMeansRecorded is not inductive: the reference is recorded one await
\* before the handler returns.
OnLedger(book, key) == \E i \in DOMAIN book : book[i].key = key
OnRecord ==
  \A c \in Consumer :
    (pc[c] \in {"refresh", "returned"} /\ Truthy(msg[c].ref)) => OnLedger(ledger, msg[c].ref)

\* b is a balance that wallet w was opened with or that a row of it states.
Held(book, w, b) ==
  \/ b = 0
  \/ \E i \in DOMAIN book : book[i].wallet = w /\ book[i].after = b
  \/ Opening[w] # None /\ b = Opening[w].balance

\* A deposit row of wallet w states that it added amount to balance.
Deposited(book, w, balance, amount) ==
  \E i \in DOMAIN book :
    /\ book[i].wallet = w /\ book[i].type = "deposit"
    /\ book[i].before = balance /\ book[i].after = balance + amount

\* What CachedBalanceWasHeld says of an entry of wallet w.
Shown(book, w, e) ==
  \/ \E b : e = AsString(b) /\ Held(book, w, b)
  \/ \E balance \in Int, amount \in Int :
       e = AsNumber(balance, amount) /\ Deposited(book, w, balance, amount)

\* CachedBalanceWasHeld is not inductive: the balances that are on their way to
\* the cache were held too, in the table, in a request, in a deposit's locals.
BalancesHeld ==
  /\ \A w \in WalletId : wallets[w] # None => Held(ledger, w, wallets[w].balance)
  /\ \A s \in Store, w \in WalletId :
       balanceCache[<<s, w>>] # None => Shown(ledger, w, balanceCache[<<s, w>>])
  /\ \A r \in Reader : reading[r] # None => Held(ledger, reading[r].id, reading[r].balance)
  /\ \A c \in Consumer :
       (pc[c] = "refresh" /\ msg[c].type = "deposit")
         => Deposited(ledger, src[c].id, src[c].balance, msg[c].amount)

TInv == Written /\ OnRecord /\ BalancesHeld

----------------------------------------------------------------------------
\* The rows of a handler.

LEMMA NewRowsAreRowsFor ==
  ASSUME NEW c \in Consumer, msg[c] \in Message
  PROVE  NewRows(c) = RowsFor(msg[c], src[c], dst[c])
<1>1. msg[c].type \in {"deposit", "withdraw", "transfer"}
  BY MessageType
<1>2. CASE msg[c].type = "deposit"
  BY <1>2 DEF NewRows, RowsFor
<1>3. CASE msg[c].type = "withdraw"
  BY <1>3 DEF NewRows, RowsFor
<1>4. CASE msg[c].type = "transfer"
  BY <1>4 DEF NewRows, RowsFor
<1> QED BY <1>1, <1>2, <1>3, <1>4

LEMMA RowsForType ==
  ASSUME NEW m \in Message, NEW s \in Copy, NEW d, m.type = "transfer" => d \in Copy
  PROVE  RowsFor(m, s, d) \in Seq(Row)
<1> DEFINE row(type, copy, delta, key) ==
             [type |-> type, wallet |-> copy.id, before |-> copy.balance,
              after |-> copy.balance + delta, key |-> key]
           out == IF m.ref = NoRef THEN NoKey ELSE m.ref
<1>1. m.amount \in Int /\ m.ref \in Ref /\ m.type \in {"deposit", "withdraw", "transfer"}
  BY MessageType
<1>2. KeyOr(m.ref, FreshKey) \in Key /\ out \in Key
  BY <1>1, DataAssumption DEF KeyOr, Key, Truthy
<1>3. ASSUME NEW copy \in Copy, NEW delta \in Int, NEW key \in Key,
             NEW type \in {"deposit", "withdrawal", "transfer_out", "transfer_in"}
      PROVE  row(type, copy, delta, key) \in Row
  BY BoundsAssumption DEF Copy, Row
<1>4. RowsFor(m, s, d) =
        IF m.type = "deposit" THEN <<row("deposit", s, m.amount, KeyOr(m.ref, FreshKey))>>
        ELSE IF m.type = "withdraw" THEN
          <<row("withdrawal", s, -m.amount, KeyOr(m.ref, FreshKey))>>
        ELSE <<row("transfer_out", s, -m.amount, out),
               row("transfer_in", d, m.amount, KeyOr(m.ref, FreshKey))>>
  BY DEF RowsFor
<1> HIDE DEF row, out
<1>5. CASE m.type = "deposit"
  <2>1. row("deposit", s, m.amount, KeyOr(m.ref, FreshKey)) \in Row
    BY <1>1, <1>2, <1>3
  <2> QED BY <1>4, <1>5, <2>1
<1>6. CASE m.type = "withdraw"
  <2>1. row("withdrawal", s, -m.amount, KeyOr(m.ref, FreshKey)) \in Row
    BY <1>1, <1>2, <1>3
  <2> QED BY <1>4, <1>6, <2>1
<1>7. CASE m.type = "transfer"
  <2>1. /\ row("transfer_out", s, -m.amount, out) \in Row
        /\ row("transfer_in", d, m.amount, KeyOr(m.ref, FreshKey)) \in Row
    BY <1>1, <1>2, <1>3, <1>7
  <2> QED BY <1>4, <1>7, <2>1
<1> QED BY <1>1, <1>5, <1>6, <1>7

\* A balance that the handler sets is the one its rows state.
LEMMA RowsForState ==
  ASSUME NEW m \in Message, NEW s, NEW d, NEW w, NEW b, SetsTo(m, s, d, w, b)
  PROVE  \E i \in DOMAIN RowsFor(m, s, d) :
           RowsFor(m, s, d)[i].wallet = w /\ RowsFor(m, s, d)[i].after = b
<1>0. m.amount \in Int
  BY MessageType
<1>1. CASE m.type = "deposit"
  <2>1. 1 \in DOMAIN RowsFor(m, s, d)
    BY <1>1 DEF RowsFor
  <2> QED BY <1>1, <2>1 DEF RowsFor, SetsTo
<1>2. CASE m.type = "withdraw"
  <2>1. 1 \in DOMAIN RowsFor(m, s, d)
    BY <1>2 DEF RowsFor
  <2>2. s.balance - m.amount = s.balance + -m.amount
    BY <1>0
  <2> QED BY <1>2, <2>1, <2>2 DEF RowsFor, SetsTo
<1>3. CASE m.type = "transfer"
  <2>1. 1 \in DOMAIN RowsFor(m, s, d) /\ 2 \in DOMAIN RowsFor(m, s, d)
    BY <1>3 DEF RowsFor
  <2>2. s.balance - m.amount = s.balance + -m.amount
    BY <1>0
  <2> QED BY <1>3, <2>1, <2>2 DEF RowsFor, SetsTo
<1> QED BY <1>1, <1>2, <1>3, MessageType

\* The rows of a referenced request carry its reference.
LEMMA RowsForKey ==
  ASSUME NEW m \in Message, NEW s, NEW d, Truthy(m.ref)
  PROVE  m.ref \in KeysOf(RowsFor(m, s, d))
<1>0. m.ref # NoRef /\ KeyOr(m.ref, FreshKey) = m.ref
  BY DEF Truthy, KeyOr
<1>1. 1 \in DOMAIN RowsFor(m, s, d) /\ RowsFor(m, s, d)[1].key = m.ref
  BY <1>0, MessageType DEF RowsFor
<1> QED BY <1>1 DEF KeysOf

----------------------------------------------------------------------------
\* A step of one handler leaves the variables of the others alone.

Only(c) ==
  \A d \in Consumer \ {c} :
    /\ pc'[d] = pc[d] /\ msg'[d] = msg[d] /\ src'[d] = src[d] /\ dst'[d] = dst[d]
    /\ pend'[d] = pend[d] /\ rows'[d] = rows[d]

LEMMA OnlyKeepsWritten ==
  ASSUME Written, NEW c \in Consumer, Only(c),
         Wrote(pc'[c], msg'[c], src'[c], dst'[c], pend'[c], rows'[c])
  PROVE  Written'
<1> SUFFICES ASSUME NEW d \in Consumer
             PROVE  Wrote(pc'[d], msg'[d], src'[d], dst'[d], pend'[d], rows'[d])
  BY DEF Written
<1>1. CASE d # c
  <2>1. Wrote(pc[d], msg[d], src[d], dst[d], pend[d], rows[d])
    BY DEF Written
  <2> QED BY <1>1, <2>1 DEF Only
<1> QED BY <1>1

\* A step of a handler that leaves the tables, the balance cache and the
\* requests alone, and returns only with its reference on record.
LEMMA OwnStep ==
  ASSUME TInv, NEW c \in Consumer, Only(c),
         UNCHANGED <<wallets, ledger, balanceCache, reading>>,
         Wrote(pc'[c], msg'[c], src'[c], dst'[c], pend'[c], rows'[c]),
         pc'[c] # "refresh",
         pc'[c] = "returned" => (Truthy(msg'[c].ref) => OnLedger(ledger, msg'[c].ref))
  PROVE  TInv'
<1>1. Written'
  BY OnlyKeepsWritten DEF TInv
<1>2. OnRecord'
  BY DEF TInv, OnRecord, Only, Truthy
<1>3. BalancesHeld'
  BY DEF TInv, BalancesHeld, Only
<1> QED BY <1>1, <1>2, <1>3 DEF TInv

LEMMA RollbackWrote ==
  ASSUME IInv, NEW c \in Consumer, Rollback(c), NEW at, at \notin WritingAt,
         NEW m, NEW s, NEW d
  PROVE  /\ Wrote(at, m, s, d, pend'[c], rows'[c])
         /\ \A e \in Consumer \ {c} : pend'[e] = pend[e] /\ rows'[e] = rows[e]
<1>1. pend'[c] = NoPending /\ \A e \in Consumer \ {c} : pend'[e] = pend[e] /\ rows'[e] = rows[e]
  BY DEF Rollback, IInv, TypeOK
<1> QED BY <1>1 DEF Wrote, WritingAt, NoPending

LEMMA ThrowWritten ==
  ASSUME IInv, TInv, NEW c \in Consumer,
         \/ Throw(c)
         \/ AwaitFails(c)
         \/ SkipDuplicate(c)
  PROVE  TInv'
<1>1. /\ Rollback(c) /\ UNCHANGED <<wallets, ledger, balanceCache, reading, msg, src, dst>>
      /\ \/ pc' = [pc EXCEPT ![c] = "threw"]
         \/ pc' = [pc EXCEPT ![c] = "returned"] /\ OnLedger(ledger, msg[c].ref)
  BY DEF Throw, AwaitFails, CatchError, SkipDuplicate, Goto, Recorded, KeysOf,
         OnLedger, tables, caches, locals, api
<1>2. /\ pc'[c] \in {"threw", "returned"} /\ \A e \in Consumer \ {c} : pc'[e] = pc[e]
      /\ pc'[c] = "returned" => OnLedger(ledger, msg'[c].ref)
  BY <1>1 DEF IInv, TypeOK
<1>3. Only(c)
  BY <1>1, <1>2, RollbackWrote DEF Only, WritingAt
<1>4. Wrote(pc'[c], msg'[c], src'[c], dst'[c], pend'[c], rows'[c])
  BY <1>1, <1>2, RollbackWrote DEF WritingAt
<1> QED BY <1>1, <1>2, <1>3, <1>4, OwnStep

\* An await that writes nothing: Proceed, Load and FillWalletCache.
LEMMA AwaitWritten ==
  ASSUME IInv, TInv, NEW c \in Consumer, NEW at \in Location,
         pc' = [pc EXCEPT ![c] = at],
         UNCHANGED <<wallets, ledger, balanceCache, reading, msg, pend, rows>>,
         \A d \in Consumer \ {c} : src'[d] = src[d] /\ dst'[d] = dst[d],
         at \notin {"refresh", "returned"},
         \/ pc[c] \notin WritingAt /\ (at \notin WritingAt \/ at = "depositUpdate")
         \/ pc[c] = "depositFill" /\ at = "depositUpdate" /\ src' = src
  PROVE  TInv'
<1>1. pc'[c] = at /\ Only(c)
  BY DEF Only, IInv, TypeOK
<1>2. Wrote(pc[c], msg[c], src[c], dst[c], pend[c], rows[c])
  BY DEF TInv, Written
<1>3. Wrote(at, msg'[c], src'[c], dst'[c], pend'[c], rows'[c])
  BY <1>2 DEF Wrote, WritingAt
<1> QED BY <1>1, <1>3, OwnStep

LEMMA ProceedWritten ==
  ASSUME IInv, TInv, NEW c \in Consumer, NEW at \in Location, Proceed(c, at),
         at \notin WritingAt \cup {"refresh", "returned"}, pc[c] \notin WritingAt
  PROVE  TInv'
BY AwaitWritten DEF Proceed, Goto, tables, txns, caches, locals, api

LEMMA LoadWritten ==
  ASSUME IInv, TInv, NEW c \in Consumer, NEW at \in Location, NEW copy, Load(c, copy, at),
         at \notin (WritingAt \ {"depositUpdate"}) \cup {"refresh", "returned"},
         pc[c] \notin WritingAt
  PROVE  TInv'
BY AwaitWritten DEF Load, Goto, tables, txns, caches, api, IInv, TypeOK

LEMMA FillWritten ==
  ASSUME IInv, TInv, NEW c \in Consumer, NEW at, FillWalletCache(c, at),
         \/ pc[c] = "depositFill" /\ at = "depositUpdate"
         \/ pc[c] = "withdrawFill" /\ at = "withdrawKey"
  PROVE  TInv'
BY AwaitWritten DEF FillWalletCache, Goto, tables, txns, locals, api, WritingAt

LEMMA UpdateEffect ==
  ASSUME IInv, NEW c \in Consumer, NEW w \in WalletId, NEW b, NEW v \in Nat, NEW at,
         UpdateWallet(c, w, b, v, at)
  PROVE  /\ \A x \in WalletId : x # w => pend'[c][x] = pend[c][x]
         /\ pend'[c][w] # None => pend'[c][w].balance = b
         /\ Visible(c, w) # None => pend'[c][w] # None
         /\ \A d \in Consumer \ {c} : pend'[d] = pend[d]
<1>1. CASE Visible(c, w) = None
  BY <1>1 DEF UpdateWallet, Visible
<1>2. CASE Visible(c, w) # None
  <2>1. Visible(c, w) \in Wallet
    BY <1>2, VisibleType DEF IInv
  <2>2. /\ Revised(Visible(c, w), b, v) \in Wallet
        /\ Revised(Visible(c, w), b, v).balance = b
    BY <2>1, RevisedType, RevisedBalance DEF UpdateWallet
  <2>3. pend' = [pend EXCEPT ![c][w] = Revised(Visible(c, w), b, v)]
    BY <1>2 DEF UpdateWallet
  <2>4. None \notin Wallet
    BY DataAssumption
  <2> QED BY <2>2, <2>3, <2>4 DEF IInv, TypeOK
<1> QED BY <1>1, <1>2

LEMMA UpdateWritten ==
  ASSUME IInv, TInv, NEW c \in Consumer, NEW w \in WalletId, NEW b, NEW v \in Nat,
         NEW at \in {"transferCredit", "insertRows"}, UpdateWallet(c, w, b, v, at),
         (/\ \A x \in WalletId : x # w => pend'[c][x] = pend[c][x]
          /\ pend'[c][w] # None => pend'[c][w].balance = b)
           => Wrote(at, msg[c], src[c], dst[c], pend'[c], rows[c])
  PROVE  TInv'
<1>1. Wrote(at, msg[c], src[c], dst[c], pend'[c], rows[c])
  BY UpdateEffect
<1>2. /\ pc' = [pc EXCEPT ![c] = at]
      /\ UNCHANGED <<wallets, ledger, balanceCache, reading, msg, src, dst, rows>>
  BY DEF UpdateWallet, Goto, tables, caches, locals, api
<1>3. pc'[c] = at /\ \A d \in Consumer \ {c} : pc'[d] = pc[d]
  BY <1>2 DEF IInv, TypeOK
<1>4. Only(c)
  BY <1>2, <1>3, UpdateEffect DEF Only
<1> QED BY <1>1, <1>2, <1>3, <1>4, OwnStep

LEMMA UpdateBalanceWritten ==
  ASSUME IInv, TInv, NEW c \in Consumer, NEW w \in WalletId, NEW b,
         NEW at \in {"transferCredit", "insertRows"}, UpdateBalance(c, w, b, at),
         (/\ \A x \in WalletId : x # w => pend'[c][x] = pend[c][x]
          /\ pend'[c][w] # None => pend'[c][w].balance = b)
           => Wrote(at, msg[c], src[c], dst[c], pend'[c], rows[c])
  PROVE  TInv'
<1> DEFINE v == IF Visible(c, w) = None THEN 0 ELSE Visible(c, w).version
<1>1. v \in Nat
  BY VisibleType, BoundsAssumption DEF IInv, Wallet
<1>2. UpdateWallet(c, w, b, v, at)
  BY DEF UpdateBalance
<1> HIDE DEF v
<1> QED BY <1>1, <1>2, UpdateWritten

\* What a handler that is about to write relies on.
LEMMA WriterData ==
  ASSUME IInv, Written, NEW c \in Consumer,
         pc[c] \in {"depositUpdate", "withdrawUpdate", "transferDebit", "transferCredit",
                    "insertRows", "commit", "refresh"}
  PROVE  /\ msg[c] \in Message /\ msg[c].amount \in Nat \ {0}
         /\ src[c] \in Copy /\ src[c].id \in WalletId /\ src[c].version \in Nat
         /\ msg[c].type = "transfer" => dst[c] \in Copy /\ dst[c].id \in WalletId
         /\ pc[c] = "depositUpdate" => msg[c].type = "deposit"
         /\ pc[c] = "withdrawUpdate" => msg[c].type = "withdraw"
         /\ pc[c] \in {"transferDebit", "transferCredit"} => msg[c].type = "transfer"
         /\ Wrote(pc[c], msg[c], src[c], dst[c], pend[c], rows[c])
<1>1. Ready(pc[c], msg[c], src[c], dst[c])
  BY DEF IInv, Loaded
<1>2. /\ msg[c] \in Message /\ src[c] \in Copy
      /\ pc[c] \in {"transferDebit", "transferCredit"} => msg[c].type = "transfer"
      /\ msg[c].type = "transfer" => dst[c] \in Copy
      /\ pc[c] = "depositUpdate" => msg[c].type = "deposit"
      /\ pc[c] = "withdrawUpdate" => msg[c].type = "withdraw"
  BY <1>1 DEF Ready, DepositAt, WithdrawAt, TransferAt, TailAt
<1>3. ASSUME NEW copy \in Copy PROVE copy.id \in WalletId /\ copy.version \in Nat
  BY BoundsAssumption DEF Copy
<1>4. msg[c].amount \in Nat \ {0}
  BY <1>2, MessageType
<1> QED BY <1>2, <1>3, <1>4 DEF Written

----------------------------------------------------------------------------
\* The handlers up to their insert.

LEMMA DepositWritten ==
  ASSUME IInv, TInv, NEW c \in Consumer, Deposit(c)
  PROVE  TInv'
<1>1. CASE DepositCheckKey(c)
  BY <1>1, ThrowWritten, ProceedWritten DEF DepositCheckKey, WritingAt
<1>2. CASE DepositReadCache(c)
  BY <1>2, ProceedWritten, LoadWritten DEF DepositReadCache, WritingAt
<1>3. CASE DepositFindWallet(c)
  BY <1>3, ThrowWritten, ProceedWritten, LoadWritten DEF DepositFindWallet, WritingAt
<1>4. CASE DepositCreateWallet(c)
  <2>1. CASE Throw(c)
    BY <2>1, ThrowWritten
  <2>2. CASE ~Throw(c)
    <3>0. PICK w \in WalletId : \E row :
            /\ pend' = [pend EXCEPT ![c][w] = row]
            /\ src' = [src EXCEPT ![c] = CopyOf(w, row)]
      BY <1>4, <2>2 DEF DepositCreateWallet
    <3>1. PICK row :
            /\ pend' = [pend EXCEPT ![c][w] = row]
            /\ src' = [src EXCEPT ![c] = CopyOf(w, row)]
      BY <3>0
    <3>2. /\ pc' = [pc EXCEPT ![c] = "depositFill"] /\ pc[c] = "depositCreate"
          /\ UNCHANGED <<wallets, ledger, balanceCache, reading, rows, msg, dst>>
      BY <1>4, <2>2 DEF DepositCreateWallet, Goto, caches, api
    <3>3. /\ pc'[c] = "depositFill" /\ src'[c].id = w
          /\ \A x \in WalletId \ {w} : pend'[c][x] = pend[c][x]
      BY <3>1, <3>2 DEF IInv, TypeOK, CopyOf
    <3>4. Wrote("depositCreate", msg[c], src[c], dst[c], pend[c], rows[c])
      BY <3>2 DEF TInv, Written
    <3>5. Wrote(pc'[c], msg'[c], src'[c], dst'[c], pend'[c], rows'[c])
      BY <3>3, <3>4 DEF Wrote, WritingAt
    <3>6. Only(c)
      BY <3>1, <3>2 DEF Only, IInv, TypeOK
    <3> QED BY <3>2, <3>3, <3>5, <3>6, OwnStep
  <2> QED BY <2>1, <2>2
<1>5. CASE DepositFillCache(c)
  BY <1>5, FillWritten DEF DepositFillCache
<1>6. CASE DepositUpdate(c)
  <2> DEFINE b == src[c].balance + msg[c].amount
             v == NextVersion(src[c].version)
  <2>1. CASE Throw(c)
    BY <2>1, ThrowWritten
  <2>2. CASE UpdateWallet(c, src[c].id, b, v, "insertRows")
    <3>1. /\ src[c].id \in WalletId /\ src[c].version \in Nat /\ msg[c].type = "deposit"
          /\ Wrote("depositUpdate", msg[c], src[c], dst[c], pend[c], rows[c])
      BY <1>6, WriterData DEF DepositUpdate, TInv
    <3>2. v \in Nat
      BY <3>1 DEF NextVersion
    <3>3. (/\ \A x \in WalletId : x # src[c].id => pend'[c][x] = pend[c][x]
           /\ pend'[c][src[c].id] # None => pend'[c][src[c].id].balance = b)
            => Wrote("insertRows", msg[c], src[c], dst[c], pend'[c], rows[c])
      BY <3>1 DEF Wrote, SetsTo, WritingAt
    <3> HIDE DEF b, v
    <3> QED BY <2>2, <3>1, <3>2, <3>3, UpdateWritten
  <2> QED BY <1>6, <2>1, <2>2 DEF DepositUpdate
<1> QED BY <1>1, <1>2, <1>3, <1>4, <1>5, <1>6 DEF Deposit

LEMMA WithdrawWritten ==
  ASSUME IInv, TInv, NEW c \in Consumer, Withdraw(c)
  PROVE  TInv'
<1>1. CASE WithdrawReadCache(c)
  BY <1>1, ProceedWritten, LoadWritten DEF WithdrawReadCache, WritingAt
<1>2. CASE WithdrawFindWallet(c)
  BY <1>2, ThrowWritten, LoadWritten DEF WithdrawFindWallet, WritingAt
<1>3. CASE WithdrawFillCache(c)
  BY <1>3, FillWritten DEF WithdrawFillCache
<1>4. CASE WithdrawCheckKey(c)
  BY <1>4, ThrowWritten, ProceedWritten DEF WithdrawCheckKey, WritingAt
<1>5. CASE WithdrawUpdate(c)
  <2> DEFINE b == src[c].balance - msg[c].amount
  <2>1. /\ src[c].id \in WalletId /\ msg[c].type = "withdraw"
        /\ Wrote("withdrawUpdate", msg[c], src[c], dst[c], pend[c], rows[c])
    BY <1>5, WriterData DEF WithdrawUpdate, TInv
  <2>2. (/\ \A x \in WalletId : x # src[c].id => pend'[c][x] = pend[c][x]
         /\ pend'[c][src[c].id] # None => pend'[c][src[c].id].balance = b)
          => Wrote("insertRows", msg[c], src[c], dst[c], pend'[c], rows[c])
    BY <2>1 DEF Wrote, SetsTo, WritingAt
  <2>3. UpdateBalance(c, src[c].id, b, "insertRows")
    BY <1>5 DEF WithdrawUpdate
  <2> HIDE DEF b
  <2> QED BY <2>1, <2>2, <2>3, UpdateBalanceWritten
<1> QED BY <1>1, <1>2, <1>3, <1>4, <1>5 DEF Withdraw

LEMMA TransferWritten ==
  ASSUME IInv, TInv, NEW c \in Consumer, Transfer(c)
  PROVE  TInv'
<1>1. CASE TransferReadFrom(c)
  BY <1>1, LoadWritten DEF TransferReadFrom, WritingAt
<1>2. CASE TransferReadTo(c)
  <2>1. CASE Throw(c)
    BY <2>1, ThrowWritten
  <2>2. CASE ~Throw(c)
    <3>1. /\ pc' = [pc EXCEPT ![c] = "transferKey"] /\ pc[c] = "transferTo"
          /\ dst' = [dst EXCEPT ![c] = CopyOf(msg[c].to, Visible(c, msg[c].to))]
          /\ UNCHANGED <<wallets, ledger, balanceCache, reading, pend, rows, msg, src>>
      BY <1>2, <2>2 DEF TransferReadTo, Goto, tables, txns, caches, api
    <3>2. \A d \in Consumer \ {c} : src'[d] = src[d] /\ dst'[d] = dst[d]
      BY <3>1
    <3> QED BY <3>1, <3>2, AwaitWritten DEF WritingAt
  <2> QED BY <2>1, <2>2
<1>3. CASE TransferCheckKey(c)
  BY <1>3, ThrowWritten, ProceedWritten DEF TransferCheckKey, WritingAt
<1>4. CASE TransferDebit(c)
  <2> DEFINE b == src[c].balance - msg[c].amount
  <2>1. /\ src[c].id \in WalletId
        /\ Wrote("transferDebit", msg[c], src[c], dst[c], pend[c], rows[c])
    BY <1>4, WriterData DEF TransferDebit, TInv
  <2>2. (/\ \A x \in WalletId : x # src[c].id => pend'[c][x] = pend[c][x]
         /\ pend'[c][src[c].id] # None => pend'[c][src[c].id].balance = b)
          => Wrote("transferCredit", msg[c], src[c], dst[c], pend'[c], rows[c])
    BY <2>1 DEF Wrote, WritingAt
  <2>3. UpdateBalance(c, src[c].id, b, "transferCredit")
    BY <1>4 DEF TransferDebit
  <2> HIDE DEF b
  <2> QED BY <2>1, <2>2, <2>3, UpdateBalanceWritten
<1>5. CASE TransferCredit(c)
  <2>1. CASE Throw(c)
    BY <2>1, ThrowWritten
  <2>2. CASE UpdateBalance(c, dst[c].id, Credited(c), "insertRows")
    <3>1. /\ dst[c].id \in WalletId /\ msg[c].type = "transfer"
          /\ Wrote("transferCredit", msg[c], src[c], dst[c], pend[c], rows[c])
      BY <1>5, WriterData DEF TransferCredit, TInv
    <3>2. (/\ \A x \in WalletId : x # dst[c].id => pend'[c][x] = pend[c][x]
           /\ pend'[c][dst[c].id] # None => pend'[c][dst[c].id].balance = Credited(c))
            => Wrote("insertRows", msg[c], src[c], dst[c], pend'[c], rows[c])
      BY <3>1 DEF Wrote, SetsTo, Credited, WritingAt
    <3> QED BY <2>2, <3>1, <3>2, UpdateBalanceWritten
  <2> QED BY <1>5, <2>1, <2>2 DEF TransferCredit
<1> QED BY <1>1, <1>2, <1>3, <1>4, <1>5 DEF Transfer

----------------------------------------------------------------------------
\* The commit and what follows it.

LEMMA CommitRecords ==
  ASSUME IInv, Written, NEW c \in Consumer, Commit(c)
  PROVE  /\ rows[c] = RowsFor(msg[c], src[c], dst[c])
         /\ \A i \in DOMAIN ledger : i \in DOMAIN ledger' /\ ledger'[i] = ledger[i]
         /\ \A i \in DOMAIN rows[c] : \E j \in DOMAIN ledger' : ledger'[j] = rows[c][i]
<1>1. Wrote("commit", msg[c], src[c], dst[c], pend[c], rows[c])
  BY DEF Written, Commit
<1>2. ledger \in Seq(Row) /\ rows[c] \in Seq(Row) /\ ledger' = ledger \o rows[c]
  BY DEF IInv, TypeOK, Commit
<1>3. ASSUME NEW i \in DOMAIN rows[c]
      PROVE  Len(ledger) + i \in DOMAIN ledger' /\ ledger'[Len(ledger) + i] = rows[c][i]
  BY <1>2
<1>4. ASSUME NEW i \in DOMAIN ledger PROVE i \in DOMAIN ledger' /\ ledger'[i] = ledger[i]
  BY <1>2
<1> QED BY <1>1, <1>3, <1>4 DEF Wrote

LEMMA CommitWritten ==
  ASSUME IInv, TInv, NEW c \in Consumer, Commit(c)
  PROVE  TInv'
<1>1. /\ pc' = [pc EXCEPT ![c] = "refresh"] /\ pc[c] = "commit" /\ Rollback(c)
      /\ UNCHANGED <<balanceCache, reading, msg, src, dst>>
      /\ \A w \in WalletId : wallets'[w] = Visible(c, w)
  BY DEF Commit, Goto, caches, locals, api
<1>2. pc'[c] = "refresh" /\ \A d \in Consumer \ {c} : pc'[d] = pc[d]
  BY <1>1 DEF IInv, TypeOK
<1>3. /\ rows[c] = RowsFor(msg[c], src[c], dst[c])
      /\ \A i \in DOMAIN ledger : i \in DOMAIN ledger' /\ ledger'[i] = ledger[i]
      /\ \A i \in DOMAIN rows[c] : \E j \in DOMAIN ledger' : ledger'[j] = rows[c][i]
  BY CommitRecords DEF TInv
<1>4. msg[c] \in Message /\ Wrote("commit", msg[c], src[c], dst[c], pend[c], rows[c])
  BY <1>1, WriterData DEF TInv
<1>5. Written'
  <2>1. Only(c)
    BY <1>1, <1>2, RollbackWrote DEF Only, WritingAt
  <2>2. Wrote(pc'[c], msg'[c], src'[c], dst'[c], pend'[c], rows'[c])
    BY <1>1, <1>2, RollbackWrote DEF WritingAt
  <2> QED BY <2>1, <2>2, OnlyKeepsWritten DEF TInv
<1>6. ASSUME NEW k, OnLedger(ledger, k) \/ k \in KeysOf(rows[c])
      PROVE  OnLedger(ledger', k)
  BY <1>3, <1>6 DEF OnLedger, KeysOf
<1>7. OnRecord'
  <2> SUFFICES ASSUME NEW d \in Consumer, pc'[d] \in {"refresh", "returned"},
                      Truthy(msg[d].ref)
               PROVE  OnLedger(ledger', msg[d].ref)
    BY <1>1 DEF OnRecord, Truthy
  <2>1. CASE d = c
    BY <1>3, <1>4, <1>6, <2>1, RowsForKey
  <2>2. CASE d # c
    BY <1>2, <1>6, <2>2 DEF TInv, OnRecord
  <2> QED BY <2>1, <2>2
<1>8. ASSUME NEW w, NEW b, Held(ledger, w, b) \/ SetsTo(msg[c], src[c], dst[c], w, b)
      PROVE  Held(ledger', w, b)
  <2>1. CASE Held(ledger, w, b)
    BY <1>3, <2>1 DEF Held
  <2>2. CASE SetsTo(msg[c], src[c], dst[c], w, b)
    BY <1>3, <1>4, <2>2, RowsForState DEF Held
  <2> QED BY <1>8, <2>1, <2>2
<1>9. ASSUME NEW w, NEW e, Shown(ledger, w, e)
      PROVE  Shown(ledger', w, e)
  <2>1. ASSUME NEW x, NEW y, Deposited(ledger, w, x, y)
        PROVE  Deposited(ledger', w, x, y)
    BY <1>3, <2>1 DEF Deposited
  <2> QED BY <1>8, <1>9, <2>1 DEF Shown
<1>10. BalancesHeld'
  <2>1. ASSUME NEW w \in WalletId, wallets'[w] # None
        PROVE  Held(ledger', w, wallets'[w].balance)
    <3>1. CASE pend[c][w] # None
      <4>1. wallets'[w] = pend[c][w] /\ SetsTo(msg[c], src[c], dst[c], w, pend[c][w].balance)
        BY <1>1, <1>4, <3>1 DEF Wrote, Visible
      <4> QED BY <1>8, <4>1
    <3>2. CASE pend[c][w] = None
      <4>1. wallets'[w] = wallets[w] /\ Held(ledger, w, wallets[w].balance)
        BY <1>1, <2>1, <3>2 DEF Visible, TInv, BalancesHeld
      <4> QED BY <1>8, <4>1
    <3> QED BY <3>1, <3>2
  <2>2. ASSUME NEW s \in Store, NEW w \in WalletId, balanceCache[<<s, w>>] # None
        PROVE  Shown(ledger', w, balanceCache[<<s, w>>])
    BY <1>9, <2>2 DEF TInv, BalancesHeld
  <2>3. ASSUME NEW r \in Reader, reading[r] # None
        PROVE  Held(ledger', reading[r].id, reading[r].balance)
    BY <1>8, <2>3 DEF TInv, BalancesHeld
  <2>4. ASSUME NEW d \in Consumer, pc'[d] = "refresh", msg[d].type = "deposit"
        PROVE  Deposited(ledger', src[d].id, src[d].balance, msg[d].amount)
    <3>1. CASE d = c
      <4>1. /\ 1 \in DOMAIN rows[c] /\ rows[c][1].wallet = src[c].id
            /\ rows[c][1].type = "deposit" /\ rows[c][1].before = src[c].balance
            /\ rows[c][1].after = src[c].balance + msg[c].amount
        BY <1>3, <2>4, <3>1 DEF RowsFor
      <4> QED BY <1>3, <3>1, <4>1 DEF Deposited
    <3>2. CASE d # c
      BY <1>2, <1>3, <2>4, <3>2 DEF TInv, BalancesHeld, Deposited
    <3> QED BY <3>1, <3>2
  <2> QED BY <1>1, <2>1, <2>2, <2>3, <2>4 DEF BalancesHeld
<1> QED BY <1>5, <1>7, <1>10 DEF TInv

LEMMA LeaveWritten ==
  ASSUME IInv, TInv, NEW c \in Consumer, Leave(c), UNCHANGED <<tables, caches, api>>,
         \/ Rollback(c)
         \/ UNCHANGED txns /\ pc[c] \notin WritingAt
  PROVE  TInv'
<1>1. /\ pc'[c] = "idle" /\ UNCHANGED <<wallets, ledger, balanceCache, reading>>
      /\ \A d \in Consumer \ {c} : pc'[d] = pc[d] /\ msg'[d] = msg[d] /\ src'[d] = src[d]
                                   /\ dst'[d] = dst[d]
  BY DEF Leave, Goto, tables, caches, api, IInv, TypeOK
<1>2. Wrote("idle", msg'[c], src'[c], dst'[c], pend'[c], rows'[c]) /\ Only(c)
  <2>1. CASE Rollback(c)
    BY <1>1, <2>1, RollbackWrote DEF Only, WritingAt
  <2>2. CASE UNCHANGED txns /\ pc[c] \notin WritingAt
    <3>1. Wrote(pc[c], msg[c], src[c], dst[c], pend[c], rows[c])
      BY DEF TInv, Written
    <3> QED BY <1>1, <2>2, <3>1 DEF Only, Wrote, txns, WritingAt
  <2> QED BY <2>1, <2>2
<1> QED BY <1>1, <1>2, OwnStep

LEMMA FinishWritten ==
  ASSUME IInv, TInv, NEW c \in Consumer, Finish(c)
  PROVE  TInv'
<1>1. CASE InsertRows(c)
  <2>1. CASE Throw(c)
    BY <2>1, ThrowWritten
  <2>2. CASE ~Throw(c)
    <3>1. /\ rows' = [rows EXCEPT ![c] = NewRows(c)]
          /\ pc' = [pc EXCEPT ![c] = "commit"] /\ pc[c] = "insertRows"
          /\ UNCHANGED <<wallets, ledger, balanceCache, reading, pend, msg, src, dst>>
      BY <1>1, <2>2 DEF InsertRows, Goto, tables, caches, locals, api
    <3>2. /\ Wrote("insertRows", msg[c], src[c], dst[c], pend[c], rows[c])
          /\ NewRows(c) = RowsFor(msg[c], src[c], dst[c])
      BY <3>1, WriterData, NewRowsAreRowsFor DEF TInv
    <3>3. pc'[c] = "commit" /\ rows'[c] = RowsFor(msg[c], src[c], dst[c]) /\ Only(c)
      BY <3>1, <3>2 DEF Only, IInv, TypeOK
    <3>4. Wrote(pc'[c], msg'[c], src'[c], dst'[c], pend'[c], rows'[c])
      BY <3>1, <3>2, <3>3 DEF Wrote, WritingAt
    <3> QED BY <3>1, <3>3, <3>4, OwnStep
  <2> QED BY <2>1, <2>2
<1>2. CASE Commit(c)
  BY <1>2, CommitWritten
<1>3. CASE Refresh(c)
  <2> DEFINE source == BalanceKey(c, src[c].id)
             target == BalanceKey(c, dst[c].id)
  <2>1. /\ pc' = [pc EXCEPT ![c] = "returned"] /\ pc[c] = "refresh"
        /\ UNCHANGED <<wallets, ledger, reading, pend, rows, msg, src, dst>>
    BY <1>3 DEF Refresh, Goto, tables, txns, locals, api
  <2>2. /\ msg[c] \in Message /\ src[c].id \in WalletId
        /\ Wrote("refresh", msg[c], src[c], dst[c], pend[c], rows[c])
    BY <2>1, WriterData DEF TInv
  <2>3. pc'[c] = "returned" /\ Only(c)
    BY <2>1 DEF Only, IInv, TypeOK
  <2>4. Written'
    <3>1. Wrote(pc'[c], msg'[c], src'[c], dst'[c], pend'[c], rows'[c])
      BY <2>1, <2>2, <2>3 DEF Wrote, WritingAt
    <3> QED BY <2>3, <3>1, OnlyKeepsWritten DEF TInv
  <2>5. OnRecord'
    BY <2>1, <2>3 DEF TInv, OnRecord, Only, Truthy
  <2>6. ASSUME NEW s \in Store, NEW w \in WalletId, balanceCache'[<<s, w>>] # None
        PROVE  Shown(ledger, w, balanceCache'[<<s, w>>])
    <3>1. /\ balanceCache \in [Store \X WalletId -> CachedBalance \cup {None}]
          /\ <<s, w>> \in Store \X WalletId
      BY DEF IInv, TypeOK
    <3>2. balanceCache[<<s, w>>] # None => Shown(ledger, w, balanceCache[<<s, w>>])
      BY DEF TInv, BalancesHeld
    <3>3. CASE msg[c].type = "deposit"
      <4>1. balanceCache' = [balanceCache EXCEPT ![source] =
                               AsNumber(src[c].balance, msg[c].amount)]
        BY <1>3, <3>3 DEF Refresh, BalanceDeposited
      <4>2. Shown(ledger, src[c].id, AsNumber(src[c].balance, msg[c].amount))
        <5>1. Deposited(ledger, src[c].id, src[c].balance, msg[c].amount)
          BY <2>1, <3>3 DEF TInv, BalancesHeld
        <5>2. src[c].balance \in Int /\ msg[c].amount \in Int
          <6>1. src[c] \in Copy
            BY <2>1, WriterData DEF TInv
          <6>2. src[c].balance \in -MaxBalance..MaxBalance
            BY <6>1 DEF Copy
          <6>3. src[c].balance \in Int
            BY <6>2, BoundsAssumption
          <6> QED BY <2>2, <6>3, MessageType
        <5> QED BY <5>1, <5>2 DEF Shown
      <4>3. CASE <<s, w>> = source
        <5>1. w = src[c].id
          BY <4>3 DEF BalanceKey
        <5>2. balanceCache'[<<s, w>>] = AsNumber(src[c].balance, msg[c].amount)
          BY <3>1, <4>1, <4>3
        <5> QED BY <4>2, <5>1, <5>2
      <4>4. CASE <<s, w>> # source
        BY <2>6, <3>1, <3>2, <4>1, <4>4
      <4> QED BY <4>3, <4>4
    <3>4. CASE msg[c].type = "withdraw"
      <4>1. balanceCache' = [balanceCache EXCEPT ![source] = None]
        BY <1>3, <3>4 DEF Refresh
      <4> HIDE DEF source
      <4> QED BY <2>6, <3>1, <3>2, <4>1
    <3>5. CASE msg[c].type = "transfer"
      <4>1. balanceCache' = [balanceCache EXCEPT ![source] = None, ![target] = None]
        BY <1>3, <3>5 DEF Refresh
      <4> HIDE DEF source, target
      <4> QED BY <2>6, <3>1, <3>2, <4>1
    <3> QED BY <2>2, <3>3, <3>4, <3>5, MessageType
  <2>7. BalancesHeld'
    BY <2>1, <2>3, <2>6 DEF TInv, BalancesHeld, Only
  <2> QED BY <2>4, <2>5, <2>7 DEF TInv
<1>4. CASE Settle(c)
  BY <1>4, LeaveWritten DEF Settle, WritingAt
<1> QED BY <1>1, <1>2, <1>3, <1>4 DEF Finish

LEMMA FaultWritten ==
  ASSUME IInv, TInv, NEW c \in Consumer,
         DeadlockVictim(c) \/ AwaitFails(c) \/ Crash(c)
  PROVE  TInv'
BY ThrowWritten, LeaveWritten DEF DeadlockVictim, Crash

LEMMA DeliverWritten ==
  ASSUME IInv, TInv, NEW c \in Consumer, NEW m \in Message, Deliver(c, m)
  PROVE  TInv'
<1>1. PICK at \in {"depositKey", "withdrawCache", "transferFrom"} :
        pc' = [pc EXCEPT ![c] = at]
  BY MessageType DEF Deliver, Goto
<1>2. /\ msg' = [msg EXCEPT ![c] = m] /\ pc[c] = "idle"
      /\ UNCHANGED <<wallets, ledger, balanceCache, reading, pend, rows, src, dst>>
  BY DEF Deliver, tables, txns, caches, api
<1>3. pc'[c] = at /\ Only(c)
  BY <1>1, <1>2 DEF Only, IInv, TypeOK
<1>4. Wrote(pc[c], msg[c], src[c], dst[c], pend[c], rows[c])
  BY DEF TInv, Written
<1>5. Wrote(pc'[c], msg'[c], src'[c], dst'[c], pend'[c], rows'[c])
  BY <1>2, <1>3, <1>4 DEF Wrote, WritingAt
<1> QED BY <1>2, <1>3, <1>5, OwnStep

----------------------------------------------------------------------------
\* The requests and the cache's expiry.

\* A step that leaves the handlers and the transactions table alone.
LEMMA RequestStep ==
  ASSUME TInv, UNCHANGED <<ledger, txns, pc, locals>>,
         \A w \in WalletId : wallets'[w] # None => Held(ledger, w, wallets'[w].balance),
         \A s \in Store, w \in WalletId :
           balanceCache'[<<s, w>>] # None => Shown(ledger, w, balanceCache'[<<s, w>>]),
         \A r \in Reader :
           reading'[r] # None => Held(ledger, reading'[r].id, reading'[r].balance)
  PROVE  TInv'
<1>1. UNCHANGED <<ledger, pend, rows, pc, msg, src, dst>>
  BY DEF txns, locals
<1>2. Written'
  BY <1>1 DEF TInv, Written
<1>3. OnRecord'
  BY <1>1 DEF TInv, OnRecord, Truthy
<1>4. BalancesHeld'
  BY <1>1 DEF TInv, BalancesHeld
<1> QED BY <1>2, <1>3, <1>4 DEF TInv

LEMMA CreateWritten ==
  ASSUME IInv, TInv, NEW q \in CreateRequest, Create(q)
  PROVE  TInv'
<1>1. UNCHANGED <<ledger, txns, pc, locals, balanceCache, reading>>
  BY DEF Create, CreateCheck, CreateSave, CreateFillCache, tables, caches
<1>2. ASSUME NEW w \in WalletId, wallets'[w] # None
      PROVE  Held(ledger, w, wallets'[w].balance)
  <2>1. CASE wallets' = wallets
    BY <1>2, <2>1 DEF TInv, BalancesHeld
  <2>2. CASE wallets' # wallets
    <3>1. PICK v \in WalletId :
            wallets' = [wallets EXCEPT ![v] =
              [user |-> q.user, currency |-> CreateCurrency(q),
               name |-> CreateName(q), balance |-> 0, version |-> 0]]
      BY <2>2 DEF Create, CreateCheck, CreateSave, CreateFillCache, tables
    <3>2. CASE w = v
      BY <3>1, <3>2 DEF IInv, TypeOK, Held
    <3>3. CASE w # v
      BY <1>2, <3>1, <3>3 DEF TInv, BalancesHeld
    <3> QED BY <3>2, <3>3
  <2> QED BY <2>1, <2>2
<1> QED BY <1>1, <1>2, RequestStep DEF TInv, BalancesHeld

LEMMA ReadWritten ==
  ASSUME IInv, TInv, NEW r \in Reader, Read(r)
  PROVE  TInv'
<1>1. UNCHANGED <<wallets, ledger, txns, pc, locals>>
  BY DEF Read, ReadBalance, LookUpBalance, FillBalance, tables
<1>2. CASE \E w \in WalletId : ReadBalance(r, w)
  <2>1. PICK w \in WalletId : ReadBalance(r, w)
    BY <1>2
  <2>2. /\ reading' = [reading EXCEPT
             ![r] = [at |-> "lookup", id |-> w, balance |-> wallets[w].balance]]
        /\ wallets[w] # None /\ balanceCache' = balanceCache
    BY <2>1 DEF ReadBalance, caches
  <2>3. Held(ledger, w, wallets[w].balance)
    BY <2>2 DEF TInv, BalancesHeld
  <2>4. \A x \in Reader :
          reading'[x] # None => Held(ledger, reading'[x].id, reading'[x].balance)
    BY <2>2, <2>3 DEF TInv, BalancesHeld, IInv, TypeOK
  <2> QED BY <1>1, <2>2, <2>4, RequestStep DEF TInv, BalancesHeld
<1>3. CASE LookUpBalance(r)
  <2>1. balanceCache' = balanceCache /\ reading[r] # None
    BY <1>3 DEF LookUpBalance, caches
  <2>2. \A x \in Reader \ {r} : reading'[x] = reading[x]
    BY <1>3 DEF LookUpBalance, IInv, TypeOK
  <2>3. \/ reading'[r] = None
        \/ reading'[r] # None /\ reading'[r].id = reading[r].id
           /\ reading'[r].balance = reading[r].balance
    BY <1>3 DEF LookUpBalance, IInv, TypeOK
  <2>4. \A x \in Reader :
          reading'[x] # None => Held(ledger, reading'[x].id, reading'[x].balance)
    BY <2>1, <2>2, <2>3 DEF TInv, BalancesHeld
  <2> QED BY <1>1, <2>1, <2>4, RequestStep DEF TInv, BalancesHeld
<1>4. CASE FillBalance(r)
  <2>1. /\ reading[r] # None /\ reading' = [reading EXCEPT ![r] = None]
        /\ balanceCache' = [balanceCache EXCEPT
             ![<<StoreOf[r], reading[r].id>>] = AsString(reading[r].balance)]
    BY <1>4 DEF FillBalance, BalanceKey
  <2>2. Shown(ledger, reading[r].id, AsString(reading[r].balance))
    BY <2>1 DEF TInv, BalancesHeld, Shown
  <2>3. \A x \in Reader :
          reading'[x] # None => Held(ledger, reading'[x].id, reading'[x].balance)
    BY <2>1 DEF TInv, BalancesHeld, IInv, TypeOK
  <2>4. ASSUME NEW s \in Store, NEW w \in WalletId, balanceCache'[<<s, w>>] # None
        PROVE  Shown(ledger, w, balanceCache'[<<s, w>>])
    <3>1. balanceCache \in [Store \X WalletId -> CachedBalance \cup {None}] /\ <<s, w>> \in Store \X WalletId
      BY DEF IInv, TypeOK
    <3>2. CASE <<s, w>> = <<StoreOf[r], reading[r].id>>
      BY <2>1, <2>2, <3>1, <3>2
    <3>3. CASE <<s, w>> # <<StoreOf[r], reading[r].id>>
      <4>1. balanceCache'[<<s, w>>] = balanceCache[<<s, w>>]
        BY <2>1, <3>1, <3>3
      <4> QED BY <2>4, <4>1 DEF TInv, BalancesHeld
    <3> QED BY <3>2, <3>3
  <2> QED BY <1>1, <2>3, <2>4, RequestStep DEF TInv, BalancesHeld
<1> QED BY <1>2, <1>3, <1>4 DEF Read

LEMMA ExpireWritten ==
  ASSUME IInv, TInv, Expire
  PROVE  TInv'
<1>1. UNCHANGED <<wallets, ledger, txns, pc, locals, reading>>
  BY DEF Expire, ExpireWallet, ExpireBalance, tables, api
<1>2. \/ balanceCache' = balanceCache
      \/ \E k \in Store \X WalletId : balanceCache' = [balanceCache EXCEPT ![k] = None]
  BY DEF Expire, ExpireWallet, ExpireBalance
<1>3. ASSUME NEW s \in Store, NEW w \in WalletId, balanceCache'[<<s, w>>] # None
      PROVE  balanceCache'[<<s, w>>] = balanceCache[<<s, w>>]
  <2>1. balanceCache \in [Store \X WalletId -> CachedBalance \cup {None}] /\ <<s, w>> \in Store \X WalletId
    BY DEF IInv, TypeOK
  <2> QED BY <1>2, <1>3, <2>1
<1> QED BY <1>1, <1>3, RequestStep DEF TInv, BalancesHeld

LEMMA InitTables == Init => TInv
<1> SUFFICES ASSUME Init PROVE TInv
  OBVIOUS
<1>1. Written
  BY DEF Init, Written, Wrote, WritingAt, NoPending
<1>2. OnRecord
  BY DEF Init, OnRecord
<1>3. BalancesHeld
  BY DEF Init, BalancesHeld, Held
<1> QED BY <1>1, <1>2, <1>3 DEF TInv

LEMMA NextTables == IInv /\ TInv /\ [Next]_vars => TInv'
<1> SUFFICES ASSUME IInv, TInv, [Next]_vars PROVE TInv'
  OBVIOUS
<1>1. CASE UNCHANGED vars
  BY <1>1, RequestStep DEF TInv, BalancesHeld, vars, tables, caches, api
<1>2. ASSUME NEW c \in Consumer, Advance(c) PROVE TInv'
  BY <1>2, DepositWritten, WithdrawWritten, TransferWritten, FinishWritten, FaultWritten
     DEF Advance
<1> QED BY <1>1, <1>2, FaultWritten, DeliverWritten, CreateWritten, ReadWritten, ExpireWritten
        DEF Next

LEMMA TablesInv == Spec => [](IInv /\ TInv)
<1>1. Init => IInv /\ TInv
  BY InitInv, InitTables
<1>2. IInv /\ TInv /\ [Next]_vars => (IInv /\ TInv)'
  BY NextInv, NextTables
<1> QED BY <1>1, <1>2, PTL DEF Spec

\* No ack drops a referenced request: whatever the crashes, retries, failed
\* awaits and handlers running beside it, a handler returns only with its
\* reference in the transactions table.
THEOREM ReturnsAreRecorded == Spec => []ReturnedMeansRecorded
<1>1. TInv => ReturnedMeansRecorded
  BY DEF TInv, OnRecord, ReturnedMeansRecorded, Recorded, KeysOf, OnLedger
<1> QED BY <1>1, TablesInv, PTL

\* What the invariant shows is what the property asks for.
LEMMA ShownWereHeld == TInv => CachedBalanceWasHeld
<1>1. ASSUME NEW w \in WalletId, NEW b, Held(ledger, w, b) PROVE b \in HeldBalances(w)
  BY <1>1 DEF Held, HeldBalances, RowsOf
<1>2. ASSUME NEW w \in WalletId, NEW x \in Int, NEW y \in Int, Deposited(ledger, w, x, y)
      PROVE  AsNumber(x, y) \in DepositSums(w)
  <2>1. PICK i \in DOMAIN ledger :
          /\ ledger[i].wallet = w /\ ledger[i].type = "deposit"
          /\ ledger[i].before = x /\ ledger[i].after = x + y
    BY <1>2 DEF Deposited
  <2>2. (x + y) - x = y
    OBVIOUS
  <2>3. AsNumber(x, y) = AsNumber(ledger[i].before, ledger[i].after - ledger[i].before)
    BY <2>1, <2>2
  <2> QED BY <2>1, <2>3 DEF DepositSums, RowsOf
<1>3. ASSUME NEW w \in WalletId, NEW e, Shown(ledger, w, e)
      PROVE  e \in {AsString(b) : b \in HeldBalances(w)} \cup DepositSums(w)
  BY <1>1, <1>2, <1>3 DEF Shown
<1> QED BY <1>3 DEF TInv, BalancesHeld, CachedBalanceWasHeld

\* The balance cache never shows what the wallet's rows do not account for, whoever
\* fills it, from whatever stale copy, in one store or in many: a string is a
\* balance the wallet had, a number the sum of one of its deposit rows, with that
\* sum's rounding error (wallet.service.ts:201 and 427).
THEOREM CachedBalancesWereHeld == Spec => []CachedBalanceWasHeld
BY ShownWereHeld, TablesInv, PTL

----------------------------------------------------------------------------
\* One wallet per user and per name.

\* What a step does to the tables and to the open transactions' writes to the
\* wallets table: nothing or a rollback; a row updated; a row inserted, in a
\* transaction or by createWallet; a commit.
Quiet ==
  /\ UNCHANGED tables
  /\ \A d \in Consumer : pend'[d] = pend[d] \/ pend'[d] = NoPending

Updates(c, w, row) ==
  /\ UNCHANGED tables
  /\ ~Locked(c, w) /\ Visible(c, w) # None
  /\ row.user = Visible(c, w).user /\ row.name = Visible(c, w).name
  /\ pend' = [pend EXCEPT ![c][w] = row]

Inserts(c, w, row) ==
  /\ UNCHANGED <<wallets, ledger>>
  /\ w \notin usedIds /\ usedIds' = usedIds \cup {w}
  /\ ~WalletTaken(row.user, row.name)
  /\ ~WalletInFlight(Consumer \ {c}, row.user, row.name)
  /\ \A x \in WalletId : pend[c][x] = None
  /\ pend' = [pend EXCEPT ![c][w] = row]

Saves(w, row) ==
  /\ UNCHANGED <<ledger, pend>>
  /\ w \notin usedIds /\ usedIds' = usedIds \cup {w}
  /\ ~WalletTaken(row.user, row.name)
  /\ ~WalletInFlight(Consumer, row.user, row.name)
  /\ row.balance = 0 /\ wallets' = [wallets EXCEPT ![w] = row]

Shaped ==
  \/ Quiet
  \/ \E c \in Consumer, w \in WalletId, row \in Wallet : Updates(c, w, row) \/ Inserts(c, w, row)
  \/ \E w \in WalletId, row \in Wallet : Saves(w, row)
  \/ \E c \in Consumer : Commit(c)

LEMMA UpdateShape ==
  ASSUME IInv, NEW c \in Consumer, NEW w \in WalletId, NEW b, NEW v \in Nat, NEW at,
         UpdateWallet(c, w, b, v, at)
  PROVE  Shaped
<1>1. ~Locked(c, w) /\ UNCHANGED tables /\ Fits(b) /\ v <= MaxVersion
  BY DEF UpdateWallet
<1>2. CASE Visible(c, w) = None
  BY <1>1, <1>2 DEF UpdateWallet, Shaped, Quiet
<1>3. CASE Visible(c, w) # None
  <2> DEFINE row == Revised(Visible(c, w), b, v)
  <2>1. Visible(c, w) \in Wallet
    BY <1>3, VisibleType DEF IInv
  <2>2. row \in Wallet
    BY <1>1, <2>1, RevisedType
  <2>3. row.user = Visible(c, w).user /\ row.name = Visible(c, w).name
    BY <2>1 DEF Revised, Wallet
  <2>4. pend' = [pend EXCEPT ![c][w] = row]
    BY <1>3 DEF UpdateWallet
  <2> HIDE DEF row
  <2>5. Updates(c, w, row)
    BY <1>1, <1>3, <2>3, <2>4 DEF Updates
  <2> QED BY <2>2, <2>5 DEF Shaped
<1> QED BY <1>2, <1>3

LEMMA UpdateBalanceShape ==
  ASSUME IInv, NEW c \in Consumer, NEW w \in WalletId, NEW b, NEW at, UpdateBalance(c, w, b, at)
  PROVE  Shaped
<1> DEFINE v == IF Visible(c, w) = None THEN 0 ELSE Visible(c, w).version
<1>1. v \in Nat
  BY VisibleType, BoundsAssumption DEF IInv, Wallet
<1>2. UpdateWallet(c, w, b, v, at)
  BY DEF UpdateBalance
<1> HIDE DEF v
<1> QED BY <1>1, <1>2, UpdateShape

\* A step that writes to no wallet.
LEMMA QuietShape ==
  ASSUME IInv, UNCHANGED tables,
         \/ UNCHANGED pend
         \/ \E c \in Consumer : Rollback(c)
  PROVE  Shaped
BY DEF IInv, TypeOK, Rollback, Shaped, Quiet

LEMMA ThrowShape ==
  ASSUME IInv, NEW c \in Consumer,
         Throw(c) \/ SkipDuplicate(c) \/ AwaitFails(c) \/ Crash(c) \/ DeadlockVictim(c)
  PROVE  Shaped
BY QuietShape DEF Throw, SkipDuplicate, AwaitFails, Crash, DeadlockVictim, CatchError

LEMMA CreateWalletShape ==
  ASSUME IInv, TInv, NEW c \in Consumer, DepositCreateWallet(c)
  PROVE  Shaped
<1> DEFINE user == msg[c].user
           name == msg[c].currency
           currency == IF msg[c].currency = Unspecified THEN DefaultCurrency ELSE msg[c].currency
           row == [user |-> user, currency |-> currency, name |-> name,
                   balance |-> 0, version |-> 0]
<1>1. CASE Throw(c)
  BY <1>1, ThrowShape
<1>2. CASE ~Throw(c)
  <2>1. ~WalletInFlight(Consumer \ {c}, user, name) /\ ~WalletTaken(user, name)
    BY <1>2 DEF DepositCreateWallet
  <2>2. PICK w \in WalletId \ usedIds :
          usedIds' = usedIds \cup {w} /\ pend' = [pend EXCEPT ![c][w] = row]
    BY <1>2 DEF DepositCreateWallet
  <2>3. UNCHANGED <<wallets, ledger>> /\ pc[c] = "depositCreate"
    BY <1>2 DEF DepositCreateWallet
  <2>4. msg[c] \in Message
    BY <2>3 DEF IInv, Loaded, Ready
  <2>5. row \in Wallet /\ row.user = user /\ row.name = name
    BY <2>4, MessageType, DataAssumption, BoundsAssumption DEF Wallet
  <2>6. Wrote("depositCreate", msg[c], src[c], dst[c], pend[c], rows[c])
    BY <2>3 DEF TInv, Written
  <2>7. \A x \in WalletId : pend[c][x] = None
    BY <2>6 DEF Wrote, WritingAt
  <2> HIDE DEF row, user, name
  <2>8. Inserts(c, w, row)
    BY <2>1, <2>2, <2>3, <2>5, <2>7 DEF Inserts
  <2> QED BY <2>2, <2>5, <2>8 DEF Shaped
<1> QED BY <1>1, <1>2

LEMMA HandlerShape ==
  ASSUME IInv, TInv, NEW c \in Consumer, Deposit(c) \/ Withdraw(c) \/ Transfer(c) \/ Finish(c)
  PROVE  Shaped
<1>1. ASSUME NEW at, Proceed(c, at) \/ FillWalletCache(c, at) \/ \E copy : Load(c, copy, at)
      PROVE  Shaped
  BY <1>1, QuietShape DEF Proceed, FillWalletCache, Load, txns
<1>2. CASE Deposit(c)
  <2>1. CASE DepositCreateWallet(c)
    BY <2>1, CreateWalletShape
  <2>2. CASE DepositUpdate(c)
    <3>1. src[c].id \in WalletId /\ NextVersion(src[c].version) \in Nat
      BY <2>2, WriterData DEF DepositUpdate, NextVersion, TInv
    <3> QED BY <2>2, <3>1, ThrowShape, UpdateShape DEF DepositUpdate
  <2> QED BY <1>1, <1>2, <2>1, <2>2, ThrowShape
          DEF Deposit, DepositCheckKey, DepositReadCache, DepositFindWallet, DepositFillCache
<1>3. CASE Withdraw(c)
  <2>1. CASE WithdrawUpdate(c)
    <3>1. src[c].id \in WalletId
      BY <2>1, WriterData DEF WithdrawUpdate, TInv
    <3> QED BY <2>1, <3>1, UpdateBalanceShape DEF WithdrawUpdate
  <2> QED BY <1>1, <1>3, <2>1, ThrowShape
          DEF Withdraw, WithdrawReadCache, WithdrawFindWallet, WithdrawFillCache, WithdrawCheckKey
<1>4. CASE Transfer(c)
  <2>1. CASE TransferDebit(c)
    <3>1. src[c].id \in WalletId
      BY <2>1, WriterData DEF TransferDebit, TInv
    <3> QED BY <2>1, <3>1, UpdateBalanceShape DEF TransferDebit
  <2>2. CASE TransferCredit(c)
    <3>1. dst[c].id \in WalletId
      BY <2>2, WriterData DEF TransferCredit, TInv
    <3> QED BY <2>2, <3>1, ThrowShape, UpdateBalanceShape DEF TransferCredit
  <2>3. CASE TransferReadTo(c)
    BY <2>3, ThrowShape, QuietShape DEF TransferReadTo, txns
  <2> QED BY <1>1, <1>4, <2>1, <2>2, <2>3, ThrowShape
          DEF Transfer, TransferReadFrom, TransferCheckKey
<1>5. CASE Finish(c)
  <2>1. CASE InsertRows(c)
    BY <2>1, ThrowShape, QuietShape DEF InsertRows
  <2>2. CASE Commit(c)
    BY <2>2 DEF Shaped
  <2>3. CASE Refresh(c) \/ Settle(c)
    BY <2>3, QuietShape DEF Refresh, Settle, txns
  <2> QED BY <1>5, <2>1, <2>2, <2>3 DEF Finish
<1> QED BY <1>2, <1>3, <1>4, <1>5

LEMMA RequestShape ==
  ASSUME IInv,
         \/ \E q \in CreateRequest : Create(q)
         \/ \E r \in Reader : Read(r)
         \/ Expire
  PROVE  Shaped
<1>1. ASSUME NEW q \in CreateRequest, CreateSave(q) PROVE Shaped
  <2> DEFINE new == [user |-> q.user, currency |-> CreateCurrency(q),
                     name |-> CreateName(q), balance |-> 0, version |-> 0]
  <2>1. UNCHANGED <<ledger, pend>>
    BY <1>1 DEF CreateSave, tables, txns
  <2>2. CASE UNCHANGED tables
    BY <2>1, <2>2, QuietShape
  <2>3. CASE ~UNCHANGED tables
    <3>1. /\ ~WalletInFlight(Consumer, q.user, CreateName(q))
          /\ ~WalletTaken(q.user, CreateName(q))
          /\ \E w \in WalletId \ usedIds :
               usedIds' = usedIds \cup {w} /\ wallets' = [wallets EXCEPT ![w] = new]
      BY <1>1, <2>3 DEF CreateSave
    <3>2. /\ new \in Wallet /\ new.balance = 0
          /\ new.user = q.user /\ new.name = CreateName(q)
      BY DataAssumption, BoundsAssumption DEF Wallet, CreateCurrency, CreateName
    <3> HIDE DEF new
    <3>3. \E w \in WalletId : Saves(w, new)
      BY <2>1, <3>1, <3>2 DEF Saves
    <3> QED BY <3>2, <3>3 DEF Shaped
  <2> QED BY <2>2, <2>3
<1>2. ASSUME NEW q \in CreateRequest, CreateCheck(q) \/ CreateFillCache(q) PROVE Shaped
  BY <1>2, QuietShape DEF CreateCheck, CreateFillCache, txns
<1>3. ASSUME NEW r \in Reader, Read(r) PROVE Shaped
  BY <1>3, QuietShape DEF Read, ReadBalance, LookUpBalance, FillBalance, txns
<1>4. ASSUME Expire PROVE Shaped
  BY <1>4, QuietShape DEF Expire, ExpireWallet, ExpireBalance, txns
<1> QED BY <1>1, <1>2, <1>3, <1>4 DEF Create

LEMMA EveryStepShaped ==
  ASSUME IInv, TInv, [Next]_vars
  PROVE  Shaped
<1>1. CASE UNCHANGED vars
  BY <1>1, QuietShape DEF vars, txns
<1>2. ASSUME NEW c \in Consumer, Advance(c) \/ AwaitFails(c) \/ Crash(c) PROVE Shaped
  BY <1>2, HandlerShape, ThrowShape DEF Advance
<1>3. ASSUME NEW c \in Consumer, NEW m \in Message, Deliver(c, m) PROVE Shaped
  BY <1>3, QuietShape DEF Deliver, txns
<1> QED BY <1>1, <1>2, <1>3, RequestShape DEF Next

\* OneWalletPerUser is not inductive: it rests on every id being drawn once, on
\* row locks (an uncommitted version of a row has one writer, and keeps its user
\* and name) and on the unique columns (uncommitted new rows share no user and
\* no name with the committed ones or with each other).
Apart(r, s) == r.user # s.user /\ r.name # s.name
New(c, w) == wallets[w] = None /\ pend[c][w] # None

IdsUsed ==
  /\ \A w \in WalletId : wallets[w] # None => w \in usedIds
  /\ \A c \in Consumer, w \in WalletId : pend[c][w] # None => w \in usedIds
OneWriter ==
  \A c, d \in Consumer, w \in WalletId : (pend[c][w] # None /\ pend[d][w] # None) => c = d
OwnerKept ==
  \A c \in Consumer, w \in WalletId :
    (wallets[w] # None /\ pend[c][w] # None) =>
       pend[c][w].user = wallets[w].user /\ pend[c][w].name = wallets[w].name
NewApart ==
  /\ \A c \in Consumer, v, w \in WalletId :
       (New(c, w) /\ wallets[v] # None) => Apart(pend[c][w], wallets[v])
  /\ \A c, d \in Consumer, v, w \in WalletId :
       (New(c, w) /\ New(d, v) /\ v # w) => Apart(pend[c][w], pend[d][v])

Owners == OneWalletPerUser /\ IdsUsed /\ OneWriter /\ OwnerKept /\ NewApart

LEMMA QuietOwners ==
  ASSUME IInv, Owners, Quiet
  PROVE  Owners'
<1>1. UNCHANGED <<wallets, usedIds>>
      /\ \A d \in Consumer, w \in WalletId : pend'[d][w] # None => pend'[d][w] = pend[d][w]
  BY DEF Quiet, NoPending, tables
<1>2. OneWalletPerUser' /\ IdsUsed' /\ OneWriter' /\ OwnerKept'
  BY <1>1 DEF Owners, OneWalletPerUser, IdsUsed, OneWriter, OwnerKept
<1>3. NewApart'
  BY <1>1 DEF Owners, NewApart, New, Apart
<1> QED BY <1>2, <1>3 DEF Owners

LEMMA UpdateOwners ==
  ASSUME IInv, Owners, NEW c \in Consumer, NEW w \in WalletId, NEW row \in Wallet,
         Updates(c, w, row)
  PROVE  Owners'
<1>1. /\ UNCHANGED <<wallets, usedIds>> /\ row # None
      /\ pend'[c][w] = row
      /\ \A d \in Consumer, x \in WalletId : (d # c \/ x # w) => pend'[d][x] = pend[d][x]
  BY DataAssumption DEF Updates, tables, IInv, TypeOK
<1>2. \A d \in Consumer \ {c} : wallets[w] # None => pend[d][w] = None
  BY DEF Updates, Locked
<1>3. /\ wallets[w] # None => row.user = wallets[w].user /\ row.name = wallets[w].name
      /\ pend[c][w] # None => row.user = pend[c][w].user /\ row.name = pend[c][w].name
      /\ wallets[w] # None \/ pend[c][w] # None
  BY DEF Updates, Visible, Owners, OwnerKept
<1>4. OneWalletPerUser' /\ IdsUsed'
  BY <1>1, <1>3 DEF Owners, OneWalletPerUser, IdsUsed
<1>5. OneWriter'
  BY <1>1, <1>2, <1>3 DEF Owners, OneWriter
<1>6. OwnerKept'
  BY <1>1, <1>3 DEF Owners, OwnerKept
<1>7. NewApart'
  <2>1. ASSUME NEW d \in Consumer, NEW x \in WalletId, New(d, x)'
        PROVE  New(d, x) /\ pend'[d][x].user = pend[d][x].user /\ pend'[d][x].name = pend[d][x].name
    BY <1>1, <1>3, <2>1 DEF New
  <2>2. UNCHANGED wallets
    BY <1>1
  <2> QED BY <2>1, <2>2 DEF Owners, NewApart, Apart
<1> QED BY <1>4, <1>5, <1>6, <1>7 DEF Owners

LEMMA InsertOwners ==
  ASSUME IInv, Owners, NEW c \in Consumer, NEW w \in WalletId, NEW row \in Wallet,
         Inserts(c, w, row)
  PROVE  Owners'
<1>1. /\ UNCHANGED wallets /\ usedIds' = usedIds \cup {w} /\ row # None
      /\ pend'[c][w] = row
      /\ \A d \in Consumer, x \in WalletId : (d # c \/ x # w) => pend'[d][x] = pend[d][x]
  BY DataAssumption DEF Inserts, IInv, TypeOK
<1>2. wallets[w] = None /\ \A d \in Consumer : pend[d][w] = None
  BY DEF Inserts, Owners, IdsUsed
<1>3. \A v \in WalletId : wallets[v] # None => Apart(row, wallets[v])
  BY DEF Inserts, WalletTaken, Collides, Apart
<1>4. \A d \in Consumer, v \in WalletId : New(d, v) => Apart(row, pend[d][v])
  BY DEF Inserts, WalletInFlight, Collides, Apart, New
<1>5. OneWalletPerUser' /\ IdsUsed'
  BY <1>1 DEF Owners, OneWalletPerUser, IdsUsed
<1>6. OneWriter' /\ OwnerKept'
  BY <1>1, <1>2 DEF Owners, OneWriter, OwnerKept
<1>7. NewApart'
  <2>1. ASSUME NEW d \in Consumer, NEW x \in WalletId, New(d, x)'
        PROVE  \/ d = c /\ x = w /\ pend'[d][x] = row
               \/ New(d, x) /\ pend'[d][x] = pend[d][x] /\ x # w
    BY <1>1, <1>2, <2>1 DEF New
  <2>2. UNCHANGED wallets
    BY <1>1
  <2> QED BY <1>3, <1>4, <2>1, <2>2 DEF Owners, NewApart, Apart
<1> QED BY <1>5, <1>6, <1>7 DEF Owners

LEMMA SaveOwners ==
  ASSUME IInv, Owners, NEW w \in WalletId, NEW row \in Wallet, Saves(w, row)
  PROVE  Owners'
<1>1. /\ UNCHANGED pend /\ usedIds' = usedIds \cup {w}
      /\ wallets'[w] = row
      /\ \A x \in WalletId \ {w} : wallets'[x] = wallets[x]
  BY DEF Saves, IInv, TypeOK
<1>2. wallets[w] = None /\ \A d \in Consumer : pend[d][w] = None
  BY DEF Saves, Owners, IdsUsed
<1>3. \A v \in WalletId : wallets[v] # None => Apart(row, wallets[v])
  BY DEF Saves, WalletTaken, Collides, Apart
<1>4. \A d \in Consumer, v \in WalletId : New(d, v) => Apart(row, pend[d][v])
  BY DEF Saves, WalletInFlight, Collides, Apart, New
<1>5. OneWalletPerUser' /\ IdsUsed'
  BY <1>1, <1>3 DEF Owners, OneWalletPerUser, IdsUsed, Apart
<1>6. OneWriter' /\ OwnerKept'
  BY <1>1, <1>2 DEF Owners, OneWriter, OwnerKept
<1>7. NewApart'
  <2>1. ASSUME NEW d \in Consumer, NEW x \in WalletId, New(d, x)' PROVE New(d, x) /\ x # w
    BY <1>1, <1>2, <2>1 DEF New
  <2>2. UNCHANGED pend
    BY <1>1
  <2> QED BY <1>1, <1>4, <2>1, <2>2 DEF Owners, NewApart, Apart
<1> QED BY <1>5, <1>6, <1>7 DEF Owners

LEMMA CommitOwners ==
  ASSUME IInv, Owners, NEW c \in Consumer, Commit(c)
  PROVE  Owners'
<1>1. /\ UNCHANGED usedIds
      /\ \A w \in WalletId : wallets'[w] = IF pend[c][w] # None THEN pend[c][w] ELSE wallets[w]
      /\ \A w \in WalletId : pend'[c][w] = None
      /\ \A d \in Consumer \ {c} : pend'[d] = pend[d]
  BY DEF Commit, Rollback, Visible, NoPending, IInv, TypeOK
<1>2. ASSUME NEW w \in WalletId, wallets'[w] # None
      PROVE  \/ /\ wallets[w] # None
                /\ wallets'[w].user = wallets[w].user /\ wallets'[w].name = wallets[w].name
             \/ New(c, w) /\ wallets'[w] = pend[c][w]
  BY <1>1, <1>2 DEF Owners, OwnerKept, New
<1>3. OneWalletPerUser'
  BY <1>2 DEF Owners, OneWalletPerUser, NewApart, Apart
<1>4. IdsUsed'
  BY <1>1 DEF Owners, IdsUsed
<1>5. OneWriter'
  BY <1>1 DEF Owners, OneWriter
<1>6. OwnerKept'
  BY <1>1 DEF Owners, OwnerKept, OneWriter
<1>7. NewApart'
  <2>1. ASSUME NEW d \in Consumer, NEW x \in WalletId, New(d, x)'
        PROVE  d # c /\ New(d, x) /\ pend'[d][x] = pend[d][x] /\ pend[c][x] = None
    BY <1>1, <2>1 DEF New
  <2>2. ASSUME NEW d \in Consumer, NEW v \in WalletId, NEW x \in WalletId,
               New(d, x)', wallets'[v] # None
        PROVE  Apart(pend'[d][x], wallets'[v])
    <3>1. New(d, x) /\ pend'[d][x] = pend[d][x] /\ pend[c][x] = None
      BY <2>1, <2>2
    <3>2. CASE wallets[v] # None
      BY <1>2, <2>2, <3>1, <3>2 DEF Owners, NewApart, Apart, New
    <3>3. CASE New(c, v) /\ wallets'[v] = pend[c][v]
      <4>1. v # x
        BY <3>1, <3>3 DEF New
      <4> QED BY <3>1, <3>3, <4>1 DEF Owners, NewApart, Apart
    <3> QED BY <1>2, <2>2, <3>2, <3>3
  <2>3. ASSUME NEW d \in Consumer, NEW e \in Consumer, NEW v \in WalletId, NEW x \in WalletId,
               New(d, x)', New(e, v)', v # x
        PROVE  Apart(pend'[d][x], pend'[e][v])
    BY <2>1, <2>3 DEF Owners, NewApart, Apart
  <2> QED BY <2>2, <2>3 DEF NewApart, Apart
<1> QED BY <1>3, <1>4, <1>5, <1>6, <1>7 DEF Owners

LEMMA InitOwners == Init => Owners
<1> SUFFICES ASSUME Init PROVE Owners
  OBVIOUS
<1>1. /\ wallets = Opening /\ usedIds = {w \in WalletId : Opening[w] # None}
      /\ \A c \in Consumer, w \in WalletId : pend[c][w] = None
  BY DEF Init, NoPending
<1>2. OneWalletPerUser
  BY <1>1, OpeningAssumption DEF OneWalletPerUser
<1> QED BY <1>1, <1>2 DEF Owners, IdsUsed, OneWriter, OwnerKept, NewApart, New

LEMMA NextOwners == IInv /\ TInv /\ Owners /\ [Next]_vars => Owners'
<1> SUFFICES ASSUME IInv, TInv, Owners, [Next]_vars PROVE Owners'
  OBVIOUS
<1> QED BY EveryStepShaped, QuietOwners, UpdateOwners, InsertOwners, SaveOwners, CommitOwners
        DEF Shaped

LEMMA OwnersInv == Spec => []Owners
BY InitOwners, NextOwners, TablesInv, PTL DEF Spec

\* However deposits and creation requests interleave, no user and no name gets
\* two wallets: the unique columns hold against uncommitted rows too.
THEOREM WalletsAreUnique == Spec => []OneWalletPerUser
<1>1. Owners => OneWalletPerUser
  BY DEF Owners
<1> QED BY <1>1, OwnersInv, PTL

=============================================================================
