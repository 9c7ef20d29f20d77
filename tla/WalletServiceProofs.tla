------------------------ MODULE WalletServiceProofs ------------------------
(***************************************************************************)
(* The safety of WalletService that holds with any number of consumers, for *)
(* every set of requests and messages, every opening table and every bound: *)
(* it keeps its types, records an idempotency key once and lets no balance  *)
(* go below zero.                                                           *)
(*                                                                          *)
(* TypeOK is not inductive: a handler's update would be ill-typed if it ran *)
(* before its wallet was loaded.  Ready says what each location of a        *)
(* handler relies on, and Loaded that every handler has it.                 *)
(***************************************************************************)
EXTENDS WalletProperties, SequenceTheorems, TLAPS

DepositAt == {"depositKey", "depositCache", "depositFind", "depositCreate",
              "depositFill", "depositUpdate"}
WithdrawAt == {"withdrawCache", "withdrawFind", "withdrawFill", "withdrawKey", "withdrawUpdate"}
TransferAt == {"transferFrom", "transferTo", "transferKey", "transferDebit", "transferCredit"}
TailAt == {"insertRows", "commit", "refresh"}

\* What a handler at a location relies on: its message m, wallet s, toWallet d.
Ready(at, m, s, d) ==
  /\ at # "idle" => m \in Message
  /\ at \in DepositAt => m.type = "deposit"
  /\ at \in WithdrawAt => m.type = "withdraw"
  /\ at \in TransferAt => m.type = "transfer"
  /\ at \in TailAt \cup {"depositFill", "depositUpdate", "withdrawFill", "withdrawKey",
                         "withdrawUpdate", "transferKey", "transferDebit", "transferCredit"}
       => s \in Copy
  /\ at \in {"transferKey", "transferDebit", "transferCredit"} => d \in Copy
  /\ (at \in TailAt /\ m.type = "transfer") => d \in Copy

Loaded ==
  /\ \A c \in Consumer : Ready(pc[c], msg[c], src[c], dst[c])
  /\ \A q \in CreateRequest : creating[q].at = "fill" => creating[q].id \in WalletId

IInv == TypeOK /\ Loaded

USE DEF Location, DepositAt, WithdrawAt, TransferAt, TailAt

----------------------------------------------------------------------------
\* What the operators on rows return.

LEMMA VisibleType ==
  ASSUME TypeOK, NEW c \in Consumer, NEW w \in WalletId
  PROVE  Visible(c, w) \in Wallet \cup {None}
BY DEF TypeOK, Visible

LEMMA CopyOfType ==
  ASSUME NEW w \in WalletId, NEW row \in Wallet
  PROVE  CopyOf(w, row) \in Copy
BY DEF CopyOf, Wallet, Copy

LEMMA FoundType ==
  ASSUME TypeOK, NEW c \in Consumer, NEW user, NEW currency
  PROVE  Found(c, user, currency) \subseteq Copy
<1> SUFFICES ASSUME NEW w \in WalletId, Matches(Visible(c, w), user, currency)
             PROVE  CopyOf(w, Visible(c, w)) \in Copy
  BY DEF Found
<1> QED BY VisibleType, CopyOfType DEF Matches

LEMMA RevisedType ==
  ASSUME NEW row \in Wallet, NEW balance, NEW version \in Nat,
         Fits(balance), version <= MaxVersion
  PROVE  Revised(row, balance, version) \in Wallet
<1>1. balance \in -MaxBalance..MaxBalance /\ version \in 0..MaxVersion
  BY BoundsAssumption DEF Fits
<1> QED BY <1>1 DEF Revised, Wallet

LEMMA MessageType ==
  ASSUME NEW m \in Message
  PROVE  /\ m.type \in {"deposit", "withdraw", "transfer"}
         /\ m.user \in User /\ m.currency \in Currency
         /\ m.from \in WalletId /\ m.to \in WalletId
         /\ m.amount \in Nat \ {0} /\ m.ref \in Ref
BY DataAssumption DEF QueueMessage

LEMMA WalletKeyType ==
  ASSUME NEW c \in Consumer, msg[c] \in Message
  PROVE  WalletKey(c) \in Store \X User \X Currency
BY MessageType, DataAssumption DEF WalletKey

LEMMA NewRowsType ==
  ASSUME TypeOK, NEW c \in Consumer, Ready("insertRows", msg[c], src[c], dst[c])
  PROVE  NewRows(c) \in Seq(Row)
<1> DEFINE m == msg[c]
           out == IF m.ref = NoRef THEN NoKey ELSE m.ref
           row(type, copy, delta, key) ==
             [type |-> type, wallet |-> copy.id, before |-> copy.balance,
              after |-> copy.balance + delta, key |-> key]
<1>1. m \in Message /\ src[c] \in Copy /\ (m.type = "transfer" => dst[c] \in Copy)
  BY DEF Ready
<1>2. m.amount \in Int /\ m.ref \in Ref /\ m.type \in {"deposit", "withdraw", "transfer"}
  BY <1>1, MessageType
<1>3. KeyOr(m.ref, FreshKey) \in Key /\ out \in Key
  BY <1>2, DataAssumption DEF KeyOr, Key, Truthy
<1>4. ASSUME NEW copy \in Copy, NEW delta \in Int, NEW key \in Key,
             NEW type \in {"deposit", "withdrawal", "transfer_out", "transfer_in"}
      PROVE  row(type, copy, delta, key) \in Row
  BY BoundsAssumption DEF Copy, Row
<1> HIDE DEF row
<1>5. CASE m.type = "deposit"
  <2>1. NewRows(c) = <<row("deposit", src[c], m.amount, KeyOr(m.ref, FreshKey))>>
    BY <1>5 DEF NewRows, row
  <2>2. row("deposit", src[c], m.amount, KeyOr(m.ref, FreshKey)) \in Row
    BY <1>1, <1>2, <1>3, <1>4
  <2> QED BY <2>1, <2>2
<1>6. CASE m.type = "withdraw"
  <2>1. NewRows(c) = <<row("withdrawal", src[c], -m.amount, KeyOr(m.ref, FreshKey))>>
    BY <1>6 DEF NewRows, row
  <2>2. row("withdrawal", src[c], -m.amount, KeyOr(m.ref, FreshKey)) \in Row
    BY <1>1, <1>2, <1>3, <1>4
  <2> QED BY <2>1, <2>2
<1>7. CASE m.type = "transfer"
  <2>1. NewRows(c) = <<row("transfer_out", src[c], -m.amount, out),
                       row("transfer_in", dst[c], m.amount, KeyOr(m.ref, FreshKey))>>
    BY <1>7 DEF NewRows, row
  <2>2. row("transfer_out", src[c], -m.amount, out) \in Row
    BY <1>1, <1>2, <1>3, <1>4
  <2>3. row("transfer_in", dst[c], m.amount, KeyOr(m.ref, FreshKey)) \in Row
    BY <1>1, <1>2, <1>3, <1>4, <1>7
  <2> QED BY <2>1, <2>2, <2>3
<1> QED BY <1>2, <1>5, <1>6, <1>7

----------------------------------------------------------------------------
\* The steps that handlers share preserve the invariant.

LEMMA RollbackType ==
  ASSUME TypeOK, NEW c \in Consumer, Rollback(c)
  PROVE  /\ pend' \in [Consumer -> [WalletId -> Wallet \cup {None}]]
         /\ rows' \in [Consumer -> Seq(Row)]
<1>1. NoPending \in [WalletId -> Wallet \cup {None}] /\ <<>> \in Seq(Row)
  BY DEF NoPending
<1> QED BY <1>1 DEF TypeOK, Rollback

LEMMA ThrowInv ==
  ASSUME IInv, NEW c \in Consumer, Throw(c), pc[c] # "idle"
  PROVE  IInv'
<1>1. TypeOK'
  BY RollbackType DEF IInv, TypeOK, Throw, CatchError, Goto, tables, caches, locals, bounds, api
<1>2. Loaded'
  BY DEF IInv, TypeOK, Loaded, Ready, Throw, CatchError, Goto, locals, api
<1> QED BY <1>1, <1>2 DEF IInv

LEMMA SkipInv ==
  ASSUME IInv, NEW c \in Consumer, SkipDuplicate(c), pc[c] # "idle"
  PROVE  IInv'
<1>1. TypeOK'
  BY RollbackType DEF IInv, TypeOK, SkipDuplicate, Goto, tables, caches, locals, bounds, api
<1>2. Loaded'
  BY DEF IInv, TypeOK, Loaded, Ready, SkipDuplicate, Goto, locals, api
<1> QED BY <1>1, <1>2 DEF IInv

LEMMA ProceedInv ==
  ASSUME IInv, NEW c \in Consumer, NEW at \in Location, Proceed(c, at),
         Ready(at, msg[c], src[c], dst[c])
  PROVE  IInv'
<1>1. TypeOK'
  BY DEF IInv, TypeOK, Proceed, Goto, tables, txns, caches, locals, bounds, api
<1>2. Loaded'
  BY DEF IInv, TypeOK, Loaded, Proceed, Goto, locals, api
<1> QED BY <1>1, <1>2 DEF IInv

LEMMA LoadInv ==
  ASSUME IInv, NEW c \in Consumer, NEW at \in Location, NEW copy \in Copy \cup {None},
         Load(c, copy, at), Ready(at, msg[c], copy, dst[c])
  PROVE  IInv'
<1>1. TypeOK'
  BY DEF IInv, TypeOK, Load, Goto, tables, txns, caches, bounds, api
<1>2. Loaded'
  BY DEF IInv, TypeOK, Loaded, Load, Goto, api
<1> QED BY <1>1, <1>2 DEF IInv

LEMMA FillInv ==
  ASSUME IInv, NEW c \in Consumer, NEW at \in Location, FillWalletCache(c, at),
         src[c] \in Copy, Ready(at, msg[c], src[c], dst[c]), msg[c] \in Message
  PROVE  IInv'
<1>1. TypeOK'
  BY MessageType
     DEF IInv, TypeOK, FillWalletCache, Goto, tables, txns, locals, bounds, api
<1>2. Loaded'
  BY DEF IInv, TypeOK, Loaded, FillWalletCache, Goto, locals, api
<1> QED BY <1>1, <1>2 DEF IInv

LEMMA UpdateWalletInv ==
  ASSUME IInv, NEW c \in Consumer, NEW w \in WalletId, NEW balance, NEW version \in Nat,
         NEW at \in Location, UpdateWallet(c, w, balance, version, at),
         Ready(at, msg[c], src[c], dst[c])
  PROVE  IInv'
<1>1. pend' \in [Consumer -> [WalletId -> Wallet \cup {None}]]
  <2>1. CASE Visible(c, w) = None
    BY <2>1 DEF IInv, TypeOK, UpdateWallet
  <2>2. CASE Visible(c, w) # None
    <3>1. Visible(c, w) \in Wallet
      BY <2>2, VisibleType DEF IInv
    <3>2. Revised(Visible(c, w), balance, version) \in Wallet
      BY <3>1, RevisedType DEF UpdateWallet
    <3> QED BY <2>2, <3>2 DEF IInv, TypeOK, UpdateWallet
  <2> QED BY <2>1, <2>2
<1>2. TypeOK'
  BY <1>1 DEF IInv, TypeOK, UpdateWallet, Goto, tables, caches, locals, bounds, api
<1>3. Loaded'
  BY DEF IInv, TypeOK, Loaded, UpdateWallet, Goto, locals, api
<1> QED BY <1>2, <1>3 DEF IInv

LEMMA UpdateBalanceInv ==
  ASSUME IInv, NEW c \in Consumer, NEW w \in WalletId, NEW balance,
         NEW at \in Location, UpdateBalance(c, w, balance, at),
         Ready(at, msg[c], src[c], dst[c])
  PROVE  IInv'
<1> DEFINE version == IF Visible(c, w) = None THEN 0 ELSE Visible(c, w).version
<1>1. version \in Nat
  BY VisibleType, BoundsAssumption DEF IInv, Wallet
<1>2. UpdateWallet(c, w, balance, version, at)
  BY DEF UpdateBalance
<1> HIDE DEF version
<1> QED BY <1>1, <1>2, UpdateWalletInv

----------------------------------------------------------------------------
\* deposit

LEMMA DepositInv ==
  ASSUME IInv, NEW c \in Consumer, Deposit(c)
  PROVE  IInv'
<1>1. CASE DepositCheckKey(c)
  BY <1>1, SkipInv, ProceedInv DEF DepositCheckKey, Ready, IInv, Loaded
<1>2. CASE DepositReadCache(c)
  <2>1. msg[c] \in Message /\ CachedWallet(c) \in Copy \cup {None}
    BY <1>2, WalletKeyType DEF DepositReadCache, CachedWallet, IInv, TypeOK, Loaded, Ready
  <2>2. CASE CachedWallet(c) = None /\ Proceed(c, "depositFind")
    BY <1>2, <2>2, ProceedInv DEF DepositReadCache, Ready, IInv, Loaded
  <2>3. CASE CachedWallet(c) # None /\ Load(c, CachedWallet(c), "depositUpdate")
    BY <1>2, <2>1, <2>3, LoadInv DEF DepositReadCache, Ready, IInv, Loaded
  <2> QED BY <1>2, <2>2, <2>3 DEF DepositReadCache
<1>3. CASE DepositFindWallet(c)
  <2> DEFINE found == Found(c, msg[c].user, msg[c].currency)
  <2>1. CASE \E copy \in found : Load(c, copy, "depositUpdate")
    <3>1. PICK copy \in found : Load(c, copy, "depositUpdate")
      BY <2>1
    <3>2. copy \in Copy
      BY FoundType DEF IInv
    <3> QED BY <1>3, <3>1, <3>2, LoadInv DEF DepositFindWallet, Ready, IInv, Loaded
  <2>2. CASE Throw(c)
    BY <1>3, <2>2, ThrowInv DEF DepositFindWallet
  <2>3. CASE Proceed(c, "depositCreate")
    BY <1>3, <2>3, ProceedInv DEF DepositFindWallet, Ready, IInv, Loaded
  <2> QED BY <1>3, <2>1, <2>2, <2>3 DEF DepositFindWallet
<1>4. CASE DepositCreateWallet(c)
  <2> DEFINE user == msg[c].user
             currency == IF msg[c].currency = Unspecified THEN DefaultCurrency ELSE msg[c].currency
             row == [user |-> user, currency |-> currency, name |-> msg[c].currency,
                     balance |-> 0, version |-> 0]
  <2>1. CASE Throw(c)
    BY <1>4, <2>1, ThrowInv DEF DepositCreateWallet
  <2>2. CASE ~Throw(c)
    <3>1. /\ msg[c] \in Message /\ msg[c].type = "deposit"
          /\ msg[c].user \in User /\ msg[c].currency \in Currency
      BY <1>4, MessageType DEF DepositCreateWallet, IInv, Loaded, Ready
    <3>2. row \in Wallet
      BY <3>1, DataAssumption, BoundsAssumption DEF Wallet
    <3>3. PICK w \in WalletId \ usedIds :
            /\ usedIds' = usedIds \cup {w}
            /\ pend' = [pend EXCEPT ![c][w] = row]
            /\ src' = [src EXCEPT ![c] = CopyOf(w, row)]
      BY <1>4, <2>2 DEF DepositCreateWallet
    <3>4. CopyOf(w, row) \in Copy
      BY <3>2, CopyOfType
    <3>5. /\ pc' = [pc EXCEPT ![c] = "depositFill"]
          /\ UNCHANGED <<wallets, ledger, rows, caches, msg, dst, bounds, api>>
      BY <1>4, <2>2 DEF DepositCreateWallet, Goto
    <3> HIDE DEF row
    <3>6. TypeOK'
      BY <3>2, <3>3, <3>4, <3>5 DEF IInv, TypeOK, caches, bounds, api
    <3>7. Loaded'
      BY <3>1, <3>3, <3>4, <3>5 DEF IInv, TypeOK, Loaded, Ready, api
    <3> QED BY <3>6, <3>7 DEF IInv
  <2> QED BY <2>1, <2>2
<1>5. CASE DepositFillCache(c)
  BY <1>5, FillInv DEF DepositFillCache, Ready, IInv, Loaded
<1>6. CASE DepositUpdate(c)
  <2>1. /\ src[c] \in Copy /\ src[c].id \in WalletId
        /\ NextVersion(src[c].version) \in Nat
    BY <1>6, BoundsAssumption DEF DepositUpdate, IInv, Loaded, Ready, Copy, NextVersion
  <2>2. CASE Throw(c)
    BY <1>6, <2>2, ThrowInv DEF DepositUpdate
  <2>3. CASE UpdateWallet(c, src[c].id, src[c].balance + msg[c].amount,
                          NextVersion(src[c].version), "insertRows")
    BY <1>6, <2>1, <2>3, UpdateWalletInv DEF DepositUpdate, Ready, IInv, Loaded
  <2> QED BY <1>6, <2>2, <2>3 DEF DepositUpdate
<1> QED BY <1>1, <1>2, <1>3, <1>4, <1>5, <1>6 DEF Deposit

----------------------------------------------------------------------------
\* withdraw and transfer

LEMMA WithdrawInv ==
  ASSUME IInv, NEW c \in Consumer, Withdraw(c)
  PROVE  IInv'
<1>1. CASE WithdrawReadCache(c)
  <2>1. msg[c] \in Message /\ CachedWallet(c) \in Copy \cup {None}
    BY <1>1, WalletKeyType DEF WithdrawReadCache, CachedWallet, IInv, TypeOK, Loaded, Ready
  <2>2. CASE CachedWallet(c) = None /\ Proceed(c, "withdrawFind")
    BY <1>1, <2>2, ProceedInv DEF WithdrawReadCache, Ready, IInv, Loaded
  <2>3. CASE CachedWallet(c) # None /\ Load(c, CachedWallet(c), "withdrawKey")
    BY <1>1, <2>1, <2>3, LoadInv DEF WithdrawReadCache, Ready, IInv, Loaded
  <2> QED BY <1>1, <2>2, <2>3 DEF WithdrawReadCache
<1>2. CASE WithdrawFindWallet(c)
  <2> DEFINE found == Found(c, msg[c].user, msg[c].currency)
  <2>1. CASE \E copy \in found : Load(c, copy, "withdrawFill")
    <3>1. PICK copy \in found : Load(c, copy, "withdrawFill")
      BY <2>1
    <3>2. copy \in Copy
      BY FoundType DEF IInv
    <3> QED BY <1>2, <3>1, <3>2, LoadInv DEF WithdrawFindWallet, Ready, IInv, Loaded
  <2>2. CASE Throw(c)
    BY <1>2, <2>2, ThrowInv DEF WithdrawFindWallet
  <2> QED BY <1>2, <2>1, <2>2 DEF WithdrawFindWallet
<1>3. CASE WithdrawFillCache(c)
  BY <1>3, FillInv DEF WithdrawFillCache, Ready, IInv, Loaded
<1>4. CASE WithdrawCheckKey(c)
  BY <1>4, SkipInv, ThrowInv, ProceedInv DEF WithdrawCheckKey, Ready, IInv, Loaded
<1>5. CASE WithdrawUpdate(c)
  <2>1. src[c] \in Copy /\ src[c].id \in WalletId
    BY <1>5 DEF WithdrawUpdate, IInv, Loaded, Ready, Copy
  <2> QED BY <1>5, <2>1, UpdateBalanceInv DEF WithdrawUpdate, Ready, IInv, Loaded
<1> QED BY <1>1, <1>2, <1>3, <1>4, <1>5 DEF Withdraw

LEMMA TransferInv ==
  ASSUME IInv, NEW c \in Consumer, Transfer(c)
  PROVE  IInv'
<1>1. CASE TransferReadFrom(c)
  <2> DEFINE row == Visible(c, msg[c].from)
             copy == IF row = None THEN None ELSE CopyOf(msg[c].from, row)
  <2>1. msg[c] \in Message /\ msg[c].from \in WalletId /\ msg[c].type = "transfer"
    BY <1>1, MessageType DEF TransferReadFrom, IInv, Loaded, Ready
  <2>2. copy \in Copy \cup {None}
    BY <2>1, VisibleType, CopyOfType DEF IInv
  <2>3. Load(c, copy, "transferTo")
    BY <1>1 DEF TransferReadFrom
  <2> HIDE DEF copy
  <2> QED BY <2>1, <2>2, <2>3, LoadInv DEF Ready
<1>2. CASE TransferReadTo(c)
  <2> DEFINE row == Visible(c, msg[c].to)
  <2>1. CASE Throw(c)
    BY <1>2, <2>1, ThrowInv DEF TransferReadTo
  <2>2. CASE ~Throw(c)
    <3>1. /\ msg[c] \in Message /\ msg[c].to \in WalletId /\ msg[c].type = "transfer"
      BY <1>2, MessageType DEF TransferReadTo, IInv, Loaded, Ready
    <3>2. /\ src[c] # None /\ row # None
          /\ pc' = [pc EXCEPT ![c] = "transferKey"]
          /\ dst' = [dst EXCEPT ![c] = CopyOf(msg[c].to, row)]
          /\ UNCHANGED <<tables, txns, caches, msg, src, bounds, api>>
      BY <1>2, <2>2 DEF TransferReadTo, Goto
    <3>3. CopyOf(msg[c].to, row) \in Copy /\ src[c] \in Copy
      BY <3>1, <3>2, VisibleType, CopyOfType DEF IInv, TypeOK
    <3> HIDE DEF row
    <3>4. TypeOK'
      BY <3>2, <3>3 DEF IInv, TypeOK, tables, txns, caches, bounds, api
    <3>5. Loaded'
      BY <3>1, <3>2, <3>3 DEF IInv, TypeOK, Loaded, Ready, api
    <3> QED BY <3>4, <3>5 DEF IInv
  <2> QED BY <2>1, <2>2
<1>3. CASE TransferCheckKey(c)
  BY <1>3, SkipInv, ProceedInv DEF TransferCheckKey, Ready, IInv, Loaded
<1>4. CASE TransferDebit(c)
  <2>1. src[c] \in Copy /\ src[c].id \in WalletId
    BY <1>4 DEF TransferDebit, IInv, Loaded, Ready, Copy
  <2> QED BY <1>4, <2>1, UpdateBalanceInv DEF TransferDebit, Ready, IInv, Loaded
<1>5. CASE TransferCredit(c)
  <2>1. dst[c] \in Copy /\ dst[c].id \in WalletId
    BY <1>5 DEF TransferCredit, IInv, Loaded, Ready, Copy
  <2>2. CASE Throw(c)
    BY <1>5, <2>2, ThrowInv DEF TransferCredit
  <2>3. CASE UpdateBalance(c, dst[c].id, Credited(c), "insertRows")
    BY <1>5, <2>1, <2>3, UpdateBalanceInv DEF TransferCredit, Ready, IInv, Loaded
  <2> QED BY <1>5, <2>2, <2>3 DEF TransferCredit
<1> QED BY <1>1, <1>2, <1>3, <1>4, <1>5 DEF Transfer

----------------------------------------------------------------------------
\* The end of every handler, and its failures.

LEMMA LeaveInv ==
  ASSUME IInv, NEW c \in Consumer, Leave(c),
         UNCHANGED <<tables, caches, attempts, api>>,
         pend' \in [Consumer -> [WalletId -> Wallet \cup {None}]],
         rows' \in [Consumer -> Seq(Row)], faults' \in 0..MaxFaults
  PROVE  IInv'
<1>1. TypeOK'
  BY DEF IInv, TypeOK, Leave, Goto, tables, caches, api
<1>2. Loaded'
  BY DEF IInv, TypeOK, Loaded, Ready, Leave, Goto, api
<1> QED BY <1>1, <1>2 DEF IInv

LEMMA FinishInv ==
  ASSUME IInv, NEW c \in Consumer, Finish(c)
  PROVE  IInv'
<1>1. CASE InsertRows(c)
  <2>1. CASE Throw(c)
    BY <1>1, <2>1, ThrowInv DEF InsertRows
  <2>2. CASE ~Throw(c)
    <3>1. /\ rows' = [rows EXCEPT ![c] = NewRows(c)]
          /\ pc' = [pc EXCEPT ![c] = "commit"] /\ pc[c] = "insertRows"
          /\ UNCHANGED <<tables, pend, caches, locals, bounds, api>>
      BY <1>1, <2>2 DEF InsertRows, Goto
    <3>2. NewRows(c) \in Seq(Row)
      BY <3>1, NewRowsType DEF IInv, Loaded
    <3>3. TypeOK'
      BY <3>1, <3>2 DEF IInv, TypeOK, tables, caches, locals, bounds, api
    <3>4. Loaded'
      BY <3>1 DEF IInv, TypeOK, Loaded, Ready, locals, api
    <3> QED BY <3>3, <3>4 DEF IInv
  <2> QED BY <2>1, <2>2
<1>2. CASE Commit(c)
  <2>1. wallets' \in [WalletId -> Wallet \cup {None}]
    BY <1>2, VisibleType DEF Commit, IInv
  <2>2. ledger' \in Seq(Row)
    <3>1. ledger \in Seq(Row) /\ rows[c] \in Seq(Row)
      BY DEF IInv, TypeOK
    <3> QED BY <1>2, <3>1, ConcatProperties DEF Commit
  <2>3. /\ pend' \in [Consumer -> [WalletId -> Wallet \cup {None}]]
        /\ rows' \in [Consumer -> Seq(Row)]
    BY <1>2, RollbackType DEF Commit, IInv
  <2>4. /\ pc' = [pc EXCEPT ![c] = "refresh"] /\ pc[c] = "commit"
        /\ UNCHANGED <<usedIds, caches, locals, bounds, api>>
    BY <1>2 DEF Commit, Goto
  <2>5. TypeOK'
    BY <2>1, <2>2, <2>3, <2>4 DEF IInv, TypeOK, caches, locals, bounds, api
  <2>6. Loaded'
    BY <2>4 DEF IInv, TypeOK, Loaded, Ready, locals, api
  <2> QED BY <2>5, <2>6 DEF IInv
<1>3. CASE Refresh(c)
  <2>1. /\ msg[c] \in Message /\ src[c] \in Copy
        /\ msg[c].type = "transfer" => dst[c] \in Copy
        /\ msg[c].type \in {"deposit", "withdraw", "transfer"} /\ msg[c].amount \in Int
    BY <1>3, MessageType DEF Refresh, IInv, Loaded, Ready
  <2>2. balanceCache' \in [Store \X WalletId -> CachedBalance \cup {None}]
    <3> DEFINE source == BalanceKey(c, src[c].id)
               target == BalanceKey(c, dst[c].id)
    <3>1. BalanceDeposited(c) \in CachedBalance
      <4>1. src[c].balance + msg[c].amount \in Int
        BY <2>1, BoundsAssumption DEF Copy
      <4> QED BY <4>1 DEF BalanceDeposited, AsNumber, CachedBalance
    <3>2. balanceCache \in [Store \X WalletId -> CachedBalance \cup {None}]
      BY DEF IInv, TypeOK
    <3>3. CASE msg[c].type = "deposit"
      <4>1. balanceCache' = [balanceCache EXCEPT ![source] = BalanceDeposited(c)]
        BY <1>3, <3>3 DEF Refresh
      <4> HIDE DEF source
      <4> QED BY <3>1, <3>2, <4>1
    <3>4. CASE msg[c].type = "withdraw"
      <4>1. balanceCache' = [balanceCache EXCEPT ![source] = None]
        BY <1>3, <3>4 DEF Refresh
      <4> HIDE DEF source
      <4> QED BY <3>2, <4>1
    <3>5. CASE msg[c].type = "transfer"
      <4>1. balanceCache' = [balanceCache EXCEPT ![source] = None, ![target] = None]
        BY <1>3, <3>5 DEF Refresh
      <4> HIDE DEF source, target
      <4> QED BY <3>2, <4>1
    <3> QED BY <2>1, <3>3, <3>4, <3>5
  <2>3. /\ pc' = [pc EXCEPT ![c] = "returned"]
        /\ UNCHANGED <<tables, txns, walletCache, locals, bounds, api>>
    BY <1>3 DEF Refresh, Goto
  <2>4. TypeOK'
    BY <2>2, <2>3 DEF IInv, TypeOK, tables, txns, locals, bounds, api
  <2>5. Loaded'
    BY <2>1, <2>3 DEF IInv, TypeOK, Loaded, Ready, locals, api
  <2> QED BY <2>4, <2>5 DEF IInv
<1>4. CASE Settle(c)
  BY <1>4, LeaveInv DEF Settle, IInv, TypeOK, txns, bounds
<1> QED BY <1>1, <1>2, <1>3, <1>4 DEF Finish

LEMMA VictimInv ==
  ASSUME IInv, NEW c \in Consumer, DeadlockVictim(c)
  PROVE  IInv'
<1>1. \E d \in Consumer : WaitsFor(c, d)
  BY DEF DeadlockVictim
<1>2. pc[c] # "idle"
  BY <1>1 DEF WaitsFor
<1> QED BY <1>2, ThrowInv DEF DeadlockVictim

LEMMA FaultInv ==
  ASSUME IInv, NEW c \in Consumer, AwaitFails(c) \/ Crash(c)
  PROVE  IInv'
<1>1. Rollback(c) /\ faults' \in 0..MaxFaults
  BY BoundsAssumption DEF IInv, TypeOK, AwaitFails, CatchError, Crash
<1>2. /\ pend' \in [Consumer -> [WalletId -> Wallet \cup {None}]]
      /\ rows' \in [Consumer -> Seq(Row)]
  BY <1>1, RollbackType DEF IInv
<1>3. CASE AwaitFails(c)
  <2>1. TypeOK'
    BY <1>1, <1>2, <1>3 DEF IInv, TypeOK, AwaitFails, CatchError, Goto, tables, caches, locals, api
  <2>2. Loaded'
    BY <1>3 DEF IInv, TypeOK, Loaded, Ready, AwaitFails, CatchError, InHandler, Goto, locals, api
  <2> QED BY <2>1, <2>2 DEF IInv
<1>4. CASE Crash(c)
  BY <1>1, <1>2, <1>4, LeaveInv DEF Crash
<1> QED BY <1>3, <1>4

LEMMA DeliverInv ==
  ASSUME IInv, NEW c \in Consumer, NEW m \in Message, Deliver(c, m)
  PROVE  IInv'
<1> DEFINE first == CASE m.type = "deposit"  -> "depositKey"
                      [] m.type = "withdraw" -> "withdrawCache"
                      [] m.type = "transfer" -> "transferFrom"
<1>1. \/ m.type = "deposit" /\ first = "depositKey"
      \/ m.type = "withdraw" /\ first = "withdrawCache"
      \/ m.type = "transfer" /\ first = "transferFrom"
  BY MessageType
<1>2. pc' = [pc EXCEPT ![c] = first]
  BY DEF Deliver, Goto
<1> HIDE DEF first
<1>3. /\ attempts' = [attempts EXCEPT ![m] = attempts[m] + 1] /\ attempts[m] < MaxAttempts
      /\ msg' = [msg EXCEPT ![c] = m]
      /\ UNCHANGED <<tables, txns, caches, src, dst, faults, api>>
  BY DEF Deliver
<1>4. TypeOK'
  <2>1. attempts' \in [Message -> 0..MaxAttempts]
    BY <1>3, BoundsAssumption DEF IInv, TypeOK
  <2> QED BY <1>1, <1>2, <1>3, <2>1 DEF IInv, TypeOK, tables, txns, caches, api
<1>5. Loaded'
  BY <1>1, <1>2, <1>3 DEF IInv, TypeOK, Loaded, Ready, api
<1> QED BY <1>4, <1>5 DEF IInv

----------------------------------------------------------------------------
\* The requests the controller runs, and the cache's expiry.

LEMMA CreateInv ==
  ASSUME IInv, NEW q \in CreateRequest, Create(q)
  PROVE  IInv'
<1>1. /\ q.user \in User /\ CreateCurrency(q) \in Currency /\ CreateName(q) \in Name
  BY DataAssumption DEF CreateCurrency, CreateName
<1>2. CASE CreateCheck(q)
  <2>1. PICK at \in {"done", "save"} :
          creating' = [creating EXCEPT ![q] = [at |-> at, id |-> None]]
    BY <1>2 DEF CreateCheck, CreateGoto
  <2>2. UNCHANGED <<tables, txns, caches, pc, locals, bounds, reading>>
    BY <1>2 DEF CreateCheck
  <2>3. TypeOK'
    BY <2>1, <2>2 DEF IInv, TypeOK, tables, txns, caches, locals, bounds
  <2>4. Loaded'
    BY <2>1, <2>2 DEF IInv, TypeOK, Loaded, locals
  <2> QED BY <2>3, <2>4 DEF IInv
<1>3. CASE CreateSave(q)
  <2>1. CASE CreateGoto(q, "done", None) /\ UNCHANGED tables
    <3>1. TypeOK'
      BY <1>3, <2>1 DEF IInv, TypeOK, CreateSave, CreateGoto, tables, txns, caches, locals, bounds
    <3>2. Loaded'
      BY <1>3, <2>1 DEF IInv, TypeOK, Loaded, CreateSave, CreateGoto, locals
    <3> QED BY <3>1, <3>2 DEF IInv
  <2>2. CASE ~(CreateGoto(q, "done", None) /\ UNCHANGED tables)
    <3> DEFINE row == [user |-> q.user, currency |-> CreateCurrency(q),
                       name |-> CreateName(q), balance |-> 0, version |-> 0]
    <3>1. row \in Wallet
      BY <1>1, BoundsAssumption DEF Wallet
    <3>2. PICK w \in WalletId \ usedIds :
            /\ usedIds' = usedIds \cup {w}
            /\ wallets' = [wallets EXCEPT ![w] = row]
            /\ CreateGoto(q, "fill", w)
      BY <1>3, <2>2 DEF CreateSave
    <3>3. UNCHANGED <<ledger, txns, caches, pc, locals, bounds, reading>>
      BY <1>3, <2>2 DEF CreateSave
    <3> HIDE DEF row
    <3>4. TypeOK'
      BY <3>1, <3>2, <3>3 DEF IInv, TypeOK, CreateGoto, txns, caches, locals, bounds
    <3>5. Loaded'
      BY <3>2, <3>3 DEF IInv, TypeOK, Loaded, CreateGoto, locals
    <3> QED BY <3>4, <3>5 DEF IInv
  <2> QED BY <2>1, <2>2
<1>4. CASE CreateFillCache(q)
  <2>1. creating[q].id \in WalletId
    BY <1>4 DEF CreateFillCache, IInv, Loaded
  <2>2. [id |-> creating[q].id, balance |-> 0, version |-> 0] \in Copy
    BY <2>1, BoundsAssumption DEF Copy
  <2>3. walletCache' \in [Store \X User \X Currency -> Copy \cup {None}]
    BY <1>1, <1>4, <2>2 DEF CreateFillCache, IInv, TypeOK
  <2>4. TypeOK'
    BY <1>4, <2>1, <2>3 DEF IInv, TypeOK, CreateFillCache, CreateGoto, tables, txns, locals, bounds
  <2>5. Loaded'
    BY <1>4 DEF IInv, TypeOK, Loaded, CreateFillCache, CreateGoto, locals
  <2> QED BY <2>4, <2>5 DEF IInv
<1> QED BY <1>2, <1>3, <1>4 DEF Create

LEMMA ReadInv ==
  ASSUME IInv, NEW r \in Reader, Read(r)
  PROVE  IInv'
<1>1. Loaded'
  BY DEF IInv, Loaded, Read, ReadBalance, LookUpBalance, FillBalance, locals
<1>2. CASE \E w \in WalletId : ReadBalance(r, w)
  <2>1. PICK w \in WalletId : ReadBalance(r, w)
    BY <1>2
  <2>2. wallets[w].balance \in -MaxBalance..MaxBalance
    BY <2>1 DEF ReadBalance, IInv, TypeOK, Wallet
  <2>3. TypeOK'
    BY <2>1, <2>2 DEF IInv, TypeOK, ReadBalance, tables, txns, caches, locals, bounds
  <2> QED BY <1>1, <2>3 DEF IInv
<1>3. CASE LookUpBalance(r)
  <2> DEFINE Lookup == [at : {"lookup", "fill"}, id : WalletId,
                        balance : -MaxBalance..MaxBalance]
             filling == [reading[r] EXCEPT !.at = "fill"]
  <2>1. ASSUME NEW rec \in Lookup PROVE [rec EXCEPT !.at = "fill"] \in Lookup
    OBVIOUS
  <2>2. filling \in Lookup
    BY <1>3, <2>1 DEF LookUpBalance, IInv, TypeOK
  <2>3. \/ reading' = [reading EXCEPT ![r] = None]
        \/ reading' = [reading EXCEPT ![r] = filling]
    BY <1>3 DEF LookUpBalance
  <2> HIDE DEF filling
  <2>4. TypeOK'
    BY <1>3, <2>2, <2>3 DEF LookUpBalance, IInv, TypeOK, tables, txns, caches, locals, bounds
  <2> QED BY <1>1, <2>4 DEF IInv
<1>4. CASE FillBalance(r)
  <2>1. reading[r].balance \in Int /\ reading[r].id \in WalletId
    BY <1>4, BoundsAssumption DEF FillBalance, IInv, TypeOK
  <2>2. AsString(reading[r].balance) \in CachedBalance
    BY <2>1 DEF AsString, CachedBalance
  <2>3. TypeOK'
    <3> QED BY <1>4, <2>1, <2>2 DEF IInv, TypeOK, FillBalance, tables, txns, locals, bounds
  <2> QED BY <1>1, <2>3 DEF IInv
<1> QED BY <1>2, <1>3, <1>4 DEF Read

LEMMA ExpireInv ==
  ASSUME IInv, Expire
  PROVE  IInv'
<1>1. Loaded'
  BY DEF IInv, Loaded, Expire, ExpireWallet, ExpireBalance, locals, api
<1>2. TypeOK'
  BY DEF IInv, TypeOK, Expire, ExpireWallet, ExpireBalance, tables, txns, locals, bounds, api
<1> QED BY <1>1, <1>2 DEF IInv

----------------------------------------------------------------------------
LEMMA InitInv == Init => IInv
<1> SUFFICES ASSUME Init PROVE IInv
  OBVIOUS
<1>1. TypeOK
  BY BoundsAssumption, OpeningAssumption DEF Init, TypeOK, NoPending
<1>2. Loaded
  BY DEF Init, Loaded, Ready
<1> QED BY <1>1, <1>2 DEF IInv

LEMMA NextInv == IInv /\ [Next]_vars => IInv'
<1> SUFFICES ASSUME IInv, [Next]_vars PROVE IInv'
  OBVIOUS
<1>1. CASE UNCHANGED vars
  <2>1. TypeOK'
    BY <1>1 DEF IInv, TypeOK, vars, tables, txns, caches, locals, bounds, api
  <2>2. Loaded'
    BY <1>1 DEF IInv, Loaded, vars, locals, api
  <2> QED BY <2>1, <2>2 DEF IInv
<1>2. ASSUME NEW c \in Consumer, Advance(c) PROVE IInv'
  BY <1>2, DepositInv, WithdrawInv, TransferInv, FinishInv, VictimInv DEF Advance
<1> QED BY <1>1, <1>2, FaultInv, DeliverInv, CreateInv, ReadInv, ExpireInv DEF Next

\* Every table, cache entry, open transaction and handler variable keeps its
\* type, and no handler uses a wallet it has not loaded, with any number of
\* consumers and any interleaving of their awaits, failures and cache expiries.
THEOREM TypeCorrect == Spec => []TypeOK
<1>1. Spec => []IInv
  BY InitInv, NextInv, PTL DEF Spec
<1>2. IInv => TypeOK
  BY DEF IInv
<1> QED BY <1>1, <1>2, PTL

HIDE DEF DepositAt, WithdrawAt, TransferAt, TailAt

----------------------------------------------------------------------------
\* KeyUsedOnce is not inductive: the keys of open transactions matter too.  A
\* key in one of them is not recorded, and is in no other one.

PendingKeysNew ==
  \A c \in Consumer : \A i \in DOMAIN rows[c] :
    Unique(rows[c][i].key) => ~Recorded(rows[c][i].key)

PendingKeysDistinct ==
  \A c, d \in Consumer : \A i \in DOMAIN rows[c], j \in DOMAIN rows[d] :
    ((c # d \/ i # j) /\ Unique(rows[c][i].key)) => rows[c][i].key # rows[d][j].key

KeysInv == KeyUsedOnce /\ PendingKeysNew /\ PendingKeysDistinct

\* A step that records nothing, and only drops rows of open transactions.
RowsOnlyDropped ==
  ledger' = ledger /\ \A d \in Consumer : rows'[d] = rows[d] \/ rows'[d] = <<>>

LEMMA RowsOnlyDroppedKeys ==
  ASSUME KeysInv, RowsOnlyDropped
  PROVE  KeysInv'
<1>1. KeyUsedOnce'
  BY DEF KeysInv, KeyUsedOnce, RowsOnlyDropped, Unique
<1>2. PendingKeysNew'
  BY DEF KeysInv, PendingKeysNew, RowsOnlyDropped, Recorded, KeysOf, Unique
<1>3. PendingKeysDistinct'
  BY DEF KeysInv, PendingKeysDistinct, RowsOnlyDropped, Unique
<1> QED BY <1>1, <1>2, <1>3 DEF KeysInv

LEMMA RollbackDrops ==
  ASSUME IInv, NEW c \in Consumer, Rollback(c), ledger' = ledger
  PROVE  RowsOnlyDropped
BY DEF Rollback, RowsOnlyDropped, IInv, TypeOK

LEMMA InsertRowsKeys ==
  ASSUME IInv, KeysInv, NEW c \in Consumer, InsertRows(c)
  PROVE  KeysInv'
<1>1. CASE Throw(c)
  BY <1>1, RollbackDrops, RowsOnlyDroppedKeys DEF Throw, CatchError, tables
<1>2. CASE ~Throw(c)
  <2> DEFINE new == NewRows(c)
  <2>1. /\ rows' = [rows EXCEPT ![c] = new] /\ ledger' = ledger
        /\ ~KeyViolated(new)
        /\ \A k \in KeysOf(new) : ~KeyInFlight(c, k)
    BY <1>2 DEF InsertRows, tables
  <2> HIDE DEF new
  <2>2. rows'[c] = new /\ \A d \in Consumer \ {c} : rows'[d] = rows[d]
    BY <2>1 DEF IInv, TypeOK
  <2>3. ASSUME NEW i \in DOMAIN new, Unique(new[i].key)
        PROVE  /\ ~Recorded(new[i].key)
               /\ \A j \in DOMAIN new \ {i} : new[i].key # new[j].key
               /\ \A d \in Consumer \ {c} : \A j \in DOMAIN rows[d] : new[i].key # rows[d][j].key
    <3>1. new[i].key \in KeysOf(new)
      BY DEF KeysOf
    <3>2. ~KeyInFlight(c, new[i].key)
      BY <2>1, <3>1
    <3> QED BY <2>1, <2>3, <3>1, <3>2 DEF KeyViolated, KeyInFlight, KeysOf
  <2>4. KeyUsedOnce'
    BY <2>1 DEF KeysInv, KeyUsedOnce, Unique
  <2>5. PendingKeysNew'
    BY <2>1, <2>2, <2>3 DEF KeysInv, PendingKeysNew, Recorded, KeysOf, Unique
  <2>6. PendingKeysDistinct'
    <3> SUFFICES ASSUME NEW a \in Consumer, NEW b \in Consumer,
                        NEW i \in DOMAIN rows'[a], NEW j \in DOMAIN rows'[b],
                        a # b \/ i # j, Unique(rows'[a][i].key)
                 PROVE  rows'[a][i].key # rows'[b][j].key
      BY DEF PendingKeysDistinct, Unique
    <3>1. CASE a = c
      BY <2>2, <2>3, <3>1
    <3>2. CASE a # c /\ b = c
      BY <2>2, <2>3, <3>2
    <3>3. CASE a # c /\ b # c
      BY <2>2, <3>3 DEF KeysInv, PendingKeysDistinct
    <3> QED BY <3>1, <3>2, <3>3
  <2> QED BY <2>4, <2>5, <2>6 DEF KeysInv
<1> QED BY <1>1, <1>2

LEMMA CommitKeys ==
  ASSUME IInv, KeysInv, NEW c \in Consumer, Commit(c)
  PROVE  KeysInv'
<1>1. ledger \in Seq(Row) /\ rows[c] \in Seq(Row)
  BY DEF IInv, TypeOK
<1>2. ledger' = ledger \o rows[c]
  BY DEF Commit
<1>3. rows'[c] = <<>> /\ \A d \in Consumer \ {c} : rows'[d] = rows[d]
  BY DEF Commit, Rollback, IInv, TypeOK
<1>4. ASSUME NEW i \in DOMAIN ledger'
      PROVE  \/ i \in DOMAIN ledger /\ ledger'[i] = ledger[i]
             \/ /\ i \notin DOMAIN ledger /\ i - Len(ledger) \in DOMAIN rows[c]
                /\ ledger'[i] = rows[c][i - Len(ledger)]
  BY <1>1, <1>2
<1>5. KeyUsedOnce'
  <2> SUFFICES ASSUME NEW i \in DOMAIN ledger', NEW j \in DOMAIN ledger', i # j,
                      Unique(ledger'[i].key), ledger'[i].key = ledger'[j].key
               PROVE  FALSE
    BY DEF KeyUsedOnce, Unique
  <2>0. i \in Int /\ j \in Int /\ Len(ledger) \in Int
    BY <1>1, <1>2
  <2>1. CASE i \in DOMAIN ledger /\ j \in DOMAIN ledger
    BY <1>4, <2>1 DEF KeysInv, KeyUsedOnce
  <2>2. CASE i \in DOMAIN ledger /\ j \notin DOMAIN ledger
    <3>1. Recorded(rows[c][j - Len(ledger)].key) /\ j - Len(ledger) \in DOMAIN rows[c]
      BY <1>4, <2>2 DEF Recorded, KeysOf
    <3> QED BY <1>4, <2>2, <3>1 DEF KeysInv, PendingKeysNew
  <2>3. CASE i \notin DOMAIN ledger /\ j \in DOMAIN ledger
    <3>1. Recorded(rows[c][i - Len(ledger)].key) /\ i - Len(ledger) \in DOMAIN rows[c]
      BY <1>4, <2>3 DEF Recorded, KeysOf
    <3> QED BY <1>4, <2>3, <3>1 DEF KeysInv, PendingKeysNew
  <2>4. CASE i \notin DOMAIN ledger /\ j \notin DOMAIN ledger
    <3>1. i - Len(ledger) # j - Len(ledger)
      BY <2>0
    <3> QED BY <1>4, <2>4, <3>1 DEF KeysInv, PendingKeysDistinct
  <2> QED BY <2>1, <2>2, <2>3, <2>4
<1>6. PendingKeysNew'
  <2> SUFFICES ASSUME NEW d \in Consumer, NEW j \in DOMAIN rows'[d], Unique(rows'[d][j].key),
                      NEW i \in DOMAIN ledger', ledger'[i].key = rows'[d][j].key
               PROVE  FALSE
    BY DEF PendingKeysNew, Unique, Recorded, KeysOf
  <2>1. d # c /\ rows'[d] = rows[d]
    BY <1>3
  <2>2. CASE i \in DOMAIN ledger
    BY <1>4, <2>1, <2>2 DEF KeysInv, PendingKeysNew, Recorded, KeysOf
  <2>3. CASE i \notin DOMAIN ledger
    BY <1>4, <2>1, <2>3 DEF KeysInv, PendingKeysDistinct
  <2> QED BY <2>2, <2>3
<1>7. PendingKeysDistinct'
  BY <1>3 DEF KeysInv, PendingKeysDistinct, Unique
<1> QED BY <1>5, <1>6, <1>7 DEF KeysInv

\* Every other step only drops rows: handlers before their insert, failures,
\* requests and expiries.
LEMMA OtherStepsDrop ==
  ASSUME IInv, [Next]_vars, \A c \in Consumer : ~InsertRows(c) /\ ~Commit(c)
  PROVE  RowsOnlyDropped
<1>1. ASSUME UNCHANGED <<ledger, rows>> PROVE RowsOnlyDropped
  BY <1>1 DEF RowsOnlyDropped
<1>2. ASSUME NEW c \in Consumer, Throw(c) \/ SkipDuplicate(c) PROVE RowsOnlyDropped
  BY <1>2, RollbackDrops DEF Throw, CatchError, SkipDuplicate, tables
<1>3. ASSUME NEW c \in Consumer, NEW at, Proceed(c, at) \/ FillWalletCache(c, at)
      PROVE  RowsOnlyDropped
  BY <1>1, <1>3 DEF Proceed, FillWalletCache, tables, txns
<1>4. ASSUME NEW c \in Consumer, NEW copy, NEW at, Load(c, copy, at) PROVE RowsOnlyDropped
  BY <1>1, <1>4 DEF Load, tables, txns
<1>5. ASSUME NEW c \in Consumer, NEW w, NEW balance, NEW version, NEW at,
             UpdateWallet(c, w, balance, version, at)
      PROVE  RowsOnlyDropped
  BY <1>1, <1>5 DEF UpdateWallet, tables
<1>6. ASSUME NEW c \in Consumer, NEW w, NEW balance, NEW at, UpdateBalance(c, w, balance, at)
      PROVE  RowsOnlyDropped
  BY <1>5, <1>6 DEF UpdateBalance
<1>7. ASSUME NEW c \in Consumer, Deposit(c) PROVE RowsOnlyDropped
  <2>1. CASE DepositCreateWallet(c)
    BY <1>1, <1>2, <2>1 DEF DepositCreateWallet
  <2>2. CASE DepositFindWallet(c)
    BY <1>2, <1>3, <1>4, <2>2 DEF DepositFindWallet
  <2> QED BY <1>2, <1>3, <1>4, <1>5, <1>7, <2>1, <2>2
          DEF Deposit, DepositCheckKey, DepositReadCache, DepositFillCache, DepositUpdate
<1>8. ASSUME NEW c \in Consumer, Withdraw(c) PROVE RowsOnlyDropped
  BY <1>2, <1>3, <1>4, <1>6, <1>8
     DEF Withdraw, WithdrawReadCache, WithdrawFindWallet, WithdrawFillCache,
         WithdrawCheckKey, WithdrawUpdate
<1>9. ASSUME NEW c \in Consumer, Transfer(c) PROVE RowsOnlyDropped
  <2>1. CASE TransferReadTo(c)
    BY <1>1, <1>2, <2>1 DEF TransferReadTo, tables, txns
  <2> QED BY <1>2, <1>3, <1>4, <1>6, <1>9, <2>1
          DEF Transfer, TransferReadFrom, TransferCheckKey, TransferDebit, TransferCredit
<1>10. ASSUME NEW c \in Consumer,
              Settle(c) \/ Refresh(c) \/ DeadlockVictim(c) \/ AwaitFails(c) \/ Crash(c)
                \/ \E m \in Message : Deliver(c, m)
       PROVE  RowsOnlyDropped
  BY <1>1, <1>2, <1>10, RollbackDrops
     DEF Settle, Refresh, DeadlockVictim, AwaitFails, CatchError, Crash, Deliver, tables, txns
<1>11. ASSUME NEW q \in CreateRequest, Create(q) PROVE RowsOnlyDropped
  BY <1>1, <1>11 DEF Create, CreateCheck, CreateSave, CreateFillCache, tables, txns
<1>12. ASSUME NEW r \in Reader, Read(r) PROVE RowsOnlyDropped
  BY <1>1, <1>12 DEF Read, ReadBalance, LookUpBalance, FillBalance, tables, txns
<1>13. CASE Expire \/ UNCHANGED vars
  BY <1>1, <1>13 DEF Expire, ExpireWallet, ExpireBalance, vars, tables, txns
<1> QED BY <1>7, <1>8, <1>9, <1>10, <1>11, <1>12, <1>13 DEF Next, Advance, Finish

LEMMA InitKeys == Init => KeysInv
BY DEF Init, KeysInv, KeyUsedOnce, PendingKeysNew, PendingKeysDistinct

LEMMA NextKeys == IInv /\ KeysInv /\ [Next]_vars => KeysInv'
<1> SUFFICES ASSUME IInv, KeysInv, [Next]_vars PROVE KeysInv'
  OBVIOUS
<1> QED BY InsertRowsKeys, CommitKeys, OtherStepsDrop, RowsOnlyDroppedKeys

LEMMA KeysInvariant == Spec => []KeysInv
<1>1. Spec => []IInv
  BY InitInv, NextInv, PTL DEF Spec
<1> QED BY <1>1, InitKeys, NextKeys, PTL DEF Spec

\* A redelivered, retried or concurrently handled request with a reference is
\* recorded once at most, however many processes consume: the key check alone
\* does not give that, the unique column does.
THEOREM KeysUsedOnce == Spec => []KeyUsedOnce
<1>1. KeysInv => KeyUsedOnce
  BY DEF KeysInv
<1> QED BY <1>1, KeysInvariant, PTL

----------------------------------------------------------------------------
\* A balance is written from a copy, so copies must not be negative either, and
\* the funds check must still hold of the copy when it is used.

NotNegative(row) == row # None => row.balance >= 0

BalancesInv ==
  /\ \A w \in WalletId : NotNegative(wallets[w])
  /\ \A c \in Consumer : \A w \in WalletId : NotNegative(pend[c][w])
  /\ \A k \in Store \X User \X Currency : NotNegative(walletCache[k])
  /\ \A c \in Consumer : NotNegative(src[c]) /\ NotNegative(dst[c])
  /\ \A c \in Consumer :
       pc[c] \in {"withdrawUpdate", "transferKey", "transferDebit"}
         => src[c].balance >= msg[c].amount

Funded(at, m, s) ==
  at \in {"withdrawUpdate", "transferKey", "transferDebit"} => s.balance >= m.amount

LEMMA VisibleNotNegative ==
  ASSUME BalancesInv, NEW c \in Consumer, NEW w \in WalletId
  PROVE  NotNegative(Visible(c, w))
BY DEF BalancesInv, Visible, NotNegative

LEMMA CopyNotNegative ==
  ASSUME NEW row \in Wallet, NEW w \in WalletId, NotNegative(row), row # None
  PROVE  NotNegative(CopyOf(w, row))
BY DEF NotNegative, CopyOf

LEMMA RollbackBalances ==
  ASSUME IInv, BalancesInv, NEW c \in Consumer, Rollback(c)
  PROVE  \A d \in Consumer : \A w \in WalletId : NotNegative(pend'[d][w])
BY DEF Rollback, NoPending, BalancesInv, NotNegative, IInv, TypeOK

LEMMA ThrowBalances ==
  ASSUME IInv, BalancesInv, NEW c \in Consumer, Throw(c) \/ SkipDuplicate(c)
  PROVE  BalancesInv'
<1>1. /\ Rollback(c) /\ UNCHANGED <<tables, caches, locals>>
      /\ \E at \in {"threw", "returned"} : pc' = [pc EXCEPT ![c] = at]
  BY DEF Throw, CatchError, SkipDuplicate, Goto
<1> QED BY <1>1, RollbackBalances
        DEF BalancesInv, NotNegative, tables, caches, locals, IInv, TypeOK

LEMMA ProceedBalances ==
  ASSUME IInv, BalancesInv, NEW c \in Consumer, NEW at \in Location, Proceed(c, at),
         Funded(at, msg[c], src[c])
  PROVE  BalancesInv'
BY DEF BalancesInv, NotNegative, Funded, Proceed, Goto, tables, txns, caches, locals, IInv, TypeOK

LEMMA LoadBalances ==
  ASSUME IInv, BalancesInv, NEW c \in Consumer, NEW at \in Location,
         NEW copy \in Copy \cup {None}, Load(c, copy, at), NotNegative(copy),
         at \notin {"withdrawUpdate", "transferKey", "transferDebit"}
  PROVE  BalancesInv'
BY DEF BalancesInv, NotNegative, Load, Goto, tables, txns, caches, IInv, TypeOK

LEMMA FillBalances ==
  ASSUME IInv, BalancesInv, NEW c \in Consumer, NEW at \in Location, FillWalletCache(c, at),
         at \notin {"withdrawUpdate", "transferKey", "transferDebit"}
  PROVE  BalancesInv'
<1>1. ASSUME NEW k \in Store \X User \X Currency PROVE NotNegative(walletCache'[k])
  BY DEF BalancesInv, NotNegative, FillWalletCache, IInv, TypeOK
<1> QED BY <1>1
        DEF BalancesInv, NotNegative, FillWalletCache, Goto, tables, txns, locals, IInv, TypeOK

LEMMA RevisedBalance ==
  ASSUME NEW row \in Wallet, NEW balance, NEW version
  PROVE  Revised(row, balance, version).balance = balance
BY DEF Revised, Wallet

LEMMA UpdateBalances ==
  ASSUME IInv, BalancesInv, NEW c \in Consumer, NEW w \in WalletId, NEW balance \in Nat,
         NEW version \in Nat, NEW at \in Location, UpdateWallet(c, w, balance, version, at),
         at \in {"transferCredit", "insertRows"}
  PROVE  BalancesInv'
<1>1. ASSUME NEW d \in Consumer, NEW v \in WalletId PROVE NotNegative(pend'[d][v])
  <2>1. CASE Visible(c, w) = None
    BY <2>1 DEF UpdateWallet, BalancesInv
  <2>2. CASE Visible(c, w) # None
    <3>1. Visible(c, w) \in Wallet
      BY <2>2, VisibleType DEF IInv
    <3>2. NotNegative(Revised(Visible(c, w), balance, version))
      BY <3>1, RevisedBalance DEF NotNegative
    <3> QED BY <2>2, <3>2 DEF UpdateWallet, BalancesInv, IInv, TypeOK
  <2> QED BY <2>1, <2>2
<1> QED BY <1>1 DEF BalancesInv, NotNegative, UpdateWallet, Goto, tables, caches, locals, IInv, TypeOK

LEMMA UpdateBalanceBalances ==
  ASSUME IInv, BalancesInv, NEW c \in Consumer, NEW w \in WalletId, NEW balance \in Nat,
         NEW at \in {"transferCredit", "insertRows"}, UpdateBalance(c, w, balance, at)
  PROVE  BalancesInv'
<1> DEFINE version == IF Visible(c, w) = None THEN 0 ELSE Visible(c, w).version
<1>1. version \in Nat
  BY VisibleType, BoundsAssumption DEF IInv, Wallet
<1>2. UpdateWallet(c, w, balance, version, at)
  BY DEF UpdateBalance
<1> HIDE DEF version
<1> QED BY <1>1, <1>2, UpdateBalances

\* The message and the wallets of a handler that is past its loads.
LEMMA HandlerData ==
  ASSUME IInv, BalancesInv, NEW c \in Consumer, pc[c] # "idle"
  PROVE  /\ msg[c] \in Message /\ msg[c].amount \in Nat
         /\ msg[c].user \in User /\ msg[c].currency \in Currency
         /\ src[c] \in Copy => src[c].balance \in Nat /\ src[c].id \in WalletId
                               /\ NextVersion(src[c].version) \in Nat
         /\ dst[c] \in Copy => dst[c].balance \in Nat /\ dst[c].id \in WalletId
<1>1. msg[c] \in Message
  BY DEF IInv, Loaded, Ready
<1>2. NotNegative(src[c]) /\ NotNegative(dst[c])
  BY DEF BalancesInv
<1>3. None \notin Copy
  BY DataAssumption
<1>4. ASSUME NEW copy \in Copy, NotNegative(copy)
      PROVE  copy.balance \in Nat /\ copy.id \in WalletId /\ NextVersion(copy.version) \in Nat
  BY <1>3, <1>4, BoundsAssumption DEF Copy, NotNegative, NextVersion
<1> QED BY <1>1, <1>2, <1>4, MessageType

LEMMA FoundNotNegative ==
  ASSUME IInv, BalancesInv, NEW c \in Consumer, NEW user, NEW currency,
         NEW copy \in Found(c, user, currency)
  PROVE  copy \in Copy /\ NotNegative(copy)
<1>1. PICK w \in WalletId : Matches(Visible(c, w), user, currency)
                            /\ copy = CopyOf(w, Visible(c, w))
  BY DEF Found
<1> QED BY <1>1, VisibleType, VisibleNotNegative, CopyNotNegative, CopyOfType
        DEF Matches, IInv

LEMMA CachedNotNegative ==
  ASSUME IInv, BalancesInv, NEW c \in Consumer, pc[c] # "idle"
  PROVE  CachedWallet(c) \in Copy \cup {None} /\ NotNegative(CachedWallet(c))
<1>1. WalletKey(c) \in Store \X User \X Currency
  BY HandlerData, WalletKeyType
<1> QED BY <1>1 DEF CachedWallet, IInv, TypeOK, BalancesInv

LEMMA DepositBalances ==
  ASSUME IInv, BalancesInv, NEW c \in Consumer, Deposit(c)
  PROVE  BalancesInv'
<1>1. CASE DepositCheckKey(c)
  BY <1>1, ThrowBalances, ProceedBalances DEF DepositCheckKey, Funded
<1>2. CASE DepositReadCache(c)
  BY <1>2, CachedNotNegative, ProceedBalances, LoadBalances DEF DepositReadCache, Funded
<1>3. CASE DepositFindWallet(c)
  BY <1>3, FoundNotNegative, ThrowBalances, ProceedBalances, LoadBalances
     DEF DepositFindWallet, Funded
<1>4. CASE DepositCreateWallet(c)
  <2>1. CASE Throw(c)
    BY <2>1, ThrowBalances
  <2>2. CASE ~Throw(c)
    <3>1. PICK w \in WalletId, row \in Wallet :
            /\ row.balance = 0
            /\ pend' = [pend EXCEPT ![c][w] = row]
            /\ src' = [src EXCEPT ![c] = CopyOf(w, row)]
      <4> DEFINE new == [user |-> msg[c].user,
                         currency |-> IF msg[c].currency = Unspecified
                                      THEN DefaultCurrency ELSE msg[c].currency,
                         name |-> msg[c].currency, balance |-> 0, version |-> 0]
      <4>1. new \in Wallet /\ new.balance = 0
        BY <1>4, HandlerData, DataAssumption, BoundsAssumption DEF DepositCreateWallet, Wallet
      <4>2. \E w \in WalletId : /\ pend' = [pend EXCEPT ![c][w] = new]
                                /\ src' = [src EXCEPT ![c] = CopyOf(w, new)]
        BY <1>4, <2>2 DEF DepositCreateWallet
      <4> HIDE DEF new
      <4> QED BY <4>1, <4>2
    <3>2. NotNegative(row) /\ NotNegative(CopyOf(w, row))
      BY <3>1 DEF NotNegative, CopyOf
    <3>3. /\ pc' = [pc EXCEPT ![c] = "depositFill"]
          /\ UNCHANGED <<wallets, walletCache, msg, dst>>
      BY <1>4, <2>2 DEF DepositCreateWallet, Goto, caches
    <3> QED BY <3>1, <3>2, <3>3 DEF BalancesInv, NotNegative, IInv, TypeOK
  <2> QED BY <2>1, <2>2
<1>5. CASE DepositFillCache(c)
  BY <1>5, FillBalances DEF DepositFillCache
<1>6. CASE DepositUpdate(c)
  <2>1. src[c] \in Copy
    BY <1>6 DEF DepositUpdate, IInv, Loaded, Ready
  <2>2. src[c].balance + msg[c].amount \in Nat
    BY <1>6, <2>1, HandlerData DEF DepositUpdate
  <2> QED BY <1>6, <2>1, <2>2, HandlerData, ThrowBalances, UpdateBalances DEF DepositUpdate
<1> QED BY <1>1, <1>2, <1>3, <1>4, <1>5, <1>6 DEF Deposit

LEMMA WithdrawBalances ==
  ASSUME IInv, BalancesInv, NEW c \in Consumer, Withdraw(c)
  PROVE  BalancesInv'
<1>1. CASE WithdrawReadCache(c)
  BY <1>1, CachedNotNegative, ProceedBalances, LoadBalances DEF WithdrawReadCache, Funded
<1>2. CASE WithdrawFindWallet(c)
  BY <1>2, FoundNotNegative, ThrowBalances, LoadBalances DEF WithdrawFindWallet
<1>3. CASE WithdrawFillCache(c)
  BY <1>3, FillBalances DEF WithdrawFillCache
<1>4. CASE WithdrawCheckKey(c)
  BY <1>4, ThrowBalances, ProceedBalances DEF WithdrawCheckKey, Funded, Covers
<1>5. CASE WithdrawUpdate(c)
  <2>1. src[c] \in Copy /\ src[c].balance >= msg[c].amount
    BY <1>5 DEF WithdrawUpdate, IInv, Loaded, Ready, BalancesInv
  <2>2. src[c].balance - msg[c].amount \in Nat
    BY <1>5, <2>1, HandlerData DEF WithdrawUpdate
  <2> QED BY <1>5, <2>1, <2>2, HandlerData, UpdateBalanceBalances DEF WithdrawUpdate
<1> QED BY <1>1, <1>2, <1>3, <1>4, <1>5 DEF Withdraw

LEMMA TransferBalances ==
  ASSUME IInv, BalancesInv, NEW c \in Consumer, Transfer(c)
  PROVE  BalancesInv'
<1>1. CASE TransferReadFrom(c)
  <2> DEFINE row == Visible(c, msg[c].from)
             copy == IF row = None THEN None ELSE CopyOf(msg[c].from, row)
  <2>1. msg[c].from \in WalletId
    BY <1>1, HandlerData, MessageType DEF TransferReadFrom
  <2>2. copy \in Copy \cup {None} /\ NotNegative(copy)
    BY <2>1, VisibleType, VisibleNotNegative, CopyOfType, CopyNotNegative DEF IInv, NotNegative
  <2>3. Load(c, copy, "transferTo")
    BY <1>1 DEF TransferReadFrom
  <2> HIDE DEF copy
  <2> QED BY <2>2, <2>3, LoadBalances
<1>2. CASE TransferReadTo(c)
  <2> DEFINE row == Visible(c, msg[c].to)
  <2>1. CASE Throw(c)
    BY <2>1, ThrowBalances
  <2>2. CASE ~Throw(c)
    <3>1. msg[c].to \in WalletId
      BY <1>2, HandlerData, MessageType DEF TransferReadTo
    <3>2. /\ row # None /\ src[c].balance >= msg[c].amount
          /\ pc' = [pc EXCEPT ![c] = "transferKey"]
          /\ dst' = [dst EXCEPT ![c] = CopyOf(msg[c].to, row)]
          /\ UNCHANGED <<wallets, pend, walletCache, msg, src>>
      BY <1>2, <2>2 DEF TransferReadTo, Covers, Goto, tables, txns, caches
    <3>3. NotNegative(CopyOf(msg[c].to, row))
      BY <3>1, <3>2, VisibleType, VisibleNotNegative, CopyNotNegative DEF IInv
    <3> HIDE DEF row
    <3> QED BY <3>2, <3>3 DEF BalancesInv, NotNegative, IInv, TypeOK
  <2> QED BY <2>1, <2>2
<1>3. CASE TransferCheckKey(c)
  BY <1>3, ThrowBalances, ProceedBalances DEF TransferCheckKey, Funded, BalancesInv
<1>4. CASE TransferDebit(c)
  <2>1. src[c] \in Copy /\ src[c].balance >= msg[c].amount
    BY <1>4 DEF TransferDebit, IInv, Loaded, Ready, BalancesInv
  <2>2. src[c].balance - msg[c].amount \in Nat
    BY <1>4, <2>1, HandlerData DEF TransferDebit
  <2> QED BY <1>4, <2>1, <2>2, HandlerData, UpdateBalanceBalances DEF TransferDebit
<1>5. CASE TransferCredit(c)
  <2>1. dst[c] \in Copy
    BY <1>5 DEF TransferCredit, IInv, Loaded, Ready
  <2>2. Credited(c) \in Nat
    BY <1>5, <2>1, HandlerData DEF TransferCredit, Credited
  <2> QED BY <1>5, <2>1, <2>2, HandlerData, ThrowBalances, UpdateBalanceBalances DEF TransferCredit
<1> QED BY <1>1, <1>2, <1>3, <1>4, <1>5 DEF Transfer

LEMMA LeaveBalances ==
  ASSUME IInv, BalancesInv, NEW c \in Consumer, Leave(c), UNCHANGED <<tables, caches>>,
         UNCHANGED txns \/ Rollback(c)
  PROVE  BalancesInv'
<1>1. \A d \in Consumer : \A w \in WalletId : NotNegative(pend'[d][w])
  BY RollbackBalances DEF BalancesInv, NotNegative, txns
<1> QED BY <1>1 DEF BalancesInv, NotNegative, Leave, Goto, tables, caches, IInv, TypeOK

LEMMA FinishBalances ==
  ASSUME IInv, BalancesInv, NEW c \in Consumer, Finish(c)
  PROVE  BalancesInv'
<1>1. CASE InsertRows(c)
  <2>1. CASE Throw(c)
    BY <2>1, ThrowBalances
  <2>2. CASE ~Throw(c)
    <3>1. /\ pc' = [pc EXCEPT ![c] = "commit"]
          /\ UNCHANGED <<wallets, pend, walletCache, msg, src, dst>>
      BY <1>1, <2>2 DEF InsertRows, Goto, tables, caches, locals
    <3> QED BY <3>1 DEF BalancesInv, NotNegative, IInv, TypeOK
  <2> QED BY <2>1, <2>2
<1>2. CASE Commit(c)
  <2>1. \A w \in WalletId : NotNegative(wallets'[w])
    BY <1>2, VisibleNotNegative DEF Commit, NotNegative
  <2>2. \A d \in Consumer : \A w \in WalletId : NotNegative(pend'[d][w])
    BY <1>2, RollbackBalances DEF Commit
  <2>3. /\ pc' = [pc EXCEPT ![c] = "refresh"]
        /\ UNCHANGED <<walletCache, msg, src, dst>>
    BY <1>2 DEF Commit, Goto, caches, locals
  <2> QED BY <2>1, <2>2, <2>3 DEF BalancesInv, NotNegative, IInv, TypeOK
<1>3. CASE Refresh(c)
  <2>1. /\ pc' = [pc EXCEPT ![c] = "returned"]
        /\ UNCHANGED <<wallets, pend, walletCache, msg, src, dst>>
    BY <1>3 DEF Refresh, Goto, tables, txns, locals
  <2> QED BY <2>1 DEF BalancesInv, NotNegative, IInv, TypeOK
<1>4. CASE Settle(c)
  BY <1>4, LeaveBalances DEF Settle
<1> QED BY <1>1, <1>2, <1>3, <1>4 DEF Finish

LEMMA FaultBalances ==
  ASSUME IInv, BalancesInv, NEW c \in Consumer,
         DeadlockVictim(c) \/ AwaitFails(c) \/ Crash(c)
  PROVE  BalancesInv'
<1>1. CASE DeadlockVictim(c)
  BY <1>1, ThrowBalances DEF DeadlockVictim
<1>2. CASE AwaitFails(c)
  <2>1. /\ Rollback(c) /\ pc' = [pc EXCEPT ![c] = "threw"]
        /\ UNCHANGED <<wallets, walletCache, msg, src, dst>>
    BY <1>2 DEF AwaitFails, CatchError, Goto, tables, caches, locals
  <2> QED BY <2>1, RollbackBalances DEF BalancesInv, NotNegative, IInv, TypeOK
<1>3. CASE Crash(c)
  BY <1>3, LeaveBalances DEF Crash
<1> QED BY <1>1, <1>2, <1>3

LEMMA DeliverBalances ==
  ASSUME IInv, BalancesInv, NEW c \in Consumer, NEW m \in Message, Deliver(c, m)
  PROVE  BalancesInv'
<1>1. PICK at \in {"depositKey", "withdrawCache", "transferFrom"} :
        pc' = [pc EXCEPT ![c] = at]
  BY MessageType DEF Deliver, Goto
<1>2. /\ msg' = [msg EXCEPT ![c] = m]
      /\ UNCHANGED <<wallets, pend, walletCache, src, dst>>
  BY DEF Deliver, tables, txns, caches
<1> QED BY <1>1, <1>2 DEF BalancesInv, NotNegative, IInv, TypeOK

LEMMA RequestBalances ==
  ASSUME IInv, BalancesInv,
         \/ \E q \in CreateRequest : Create(q)
         \/ \E r \in Reader : Read(r)
         \/ Expire
  PROVE  BalancesInv'
<1>1. ASSUME UNCHANGED <<wallets, pend, walletCache, pc, msg, src, dst>> PROVE BalancesInv'
  BY <1>1 DEF BalancesInv, NotNegative
<1>2. ASSUME NEW q \in CreateRequest, CreateSave(q) PROVE BalancesInv'
  <2>1. \/ UNCHANGED wallets
        \/ \E w \in WalletId, row \in Wallet :
             wallets' = [wallets EXCEPT ![w] = row] /\ row.balance = 0
    <3> DEFINE new == [user |-> q.user, currency |-> CreateCurrency(q),
                       name |-> CreateName(q), balance |-> 0, version |-> 0]
    <3>1. new \in Wallet /\ new.balance = 0
      BY DataAssumption, BoundsAssumption DEF Wallet, CreateCurrency, CreateName
    <3>2. \/ UNCHANGED wallets
          \/ \E w \in WalletId : wallets' = [wallets EXCEPT ![w] = new]
      BY <1>2 DEF CreateSave, tables
    <3> HIDE DEF new
    <3> QED BY <3>1, <3>2
  <2>2. \A w \in WalletId : NotNegative(wallets'[w])
    BY <2>1 DEF BalancesInv, NotNegative, IInv, TypeOK
  <2>3. UNCHANGED <<pend, walletCache, pc, msg, src, dst>>
    BY <1>2 DEF CreateSave, txns, caches, locals
  <2> QED BY <2>2, <2>3 DEF BalancesInv, NotNegative
<1>3. ASSUME NEW q \in CreateRequest, CreateFillCache(q) PROVE BalancesInv'
  <2>1. \A k \in Store \X User \X Currency : NotNegative(walletCache'[k])
    BY <1>3 DEF CreateFillCache, BalancesInv, NotNegative, IInv, TypeOK
  <2> QED BY <1>3, <2>1
          DEF CreateFillCache, BalancesInv, NotNegative, tables, txns, locals
<1>4. ASSUME NEW q \in CreateRequest, CreateCheck(q) PROVE BalancesInv'
  BY <1>1, <1>4 DEF CreateCheck, tables, txns, caches, locals
<1>5. ASSUME NEW r \in Reader, Read(r) PROVE BalancesInv'
  BY <1>1, <1>5 DEF Read, ReadBalance, LookUpBalance, FillBalance, tables, txns, caches, locals
<1>6. ASSUME NEW k \in Store \X User \X Currency, ExpireWallet(k) PROVE BalancesInv'
  BY <1>6 DEF ExpireWallet, BalancesInv, NotNegative, tables, txns, locals, IInv, TypeOK
<1>7. ASSUME NEW k \in Store \X WalletId, ExpireBalance(k) PROVE BalancesInv'
  BY <1>1, <1>7 DEF ExpireBalance, tables, txns, locals
<1> QED BY <1>2, <1>3, <1>4, <1>5, <1>6, <1>7 DEF Create, Expire

LEMMA InitBalances == Init => BalancesInv
BY OpeningAssumption DEF Init, BalancesInv, NotNegative, NoPending

LEMMA NextBalances == IInv /\ BalancesInv /\ [Next]_vars => BalancesInv'
<1> SUFFICES ASSUME IInv, BalancesInv, [Next]_vars PROVE BalancesInv'
  OBVIOUS
<1>1. CASE UNCHANGED vars
  BY <1>1 DEF BalancesInv, NotNegative, vars, tables, txns, caches, locals
<1>2. ASSUME NEW c \in Consumer, Advance(c) PROVE BalancesInv'
  BY <1>2, DepositBalances, WithdrawBalances, TransferBalances, FinishBalances, FaultBalances
     DEF Advance
<1> QED BY <1>1, <1>2, FaultBalances, DeliverBalances, RequestBalances DEF Next

LEMMA BalancesInvariant == Spec => []BalancesInv
<1>1. Spec => []IInv
  BY InitInv, NextInv, PTL DEF Spec
<1> QED BY <1>1, InitBalances, NextBalances, PTL DEF Spec

\* No balance ever goes below zero, however many processes consume and however
\* stale the wallets they work from: each writes a value it has checked, so lost
\* updates can make a balance wrong but not negative.
THEOREM BalancesStayNonNegative == Spec => []BalanceNonNegative
<1>1. BalancesInv => BalanceNonNegative
  BY DEF BalancesInv, NotNegative, BalanceNonNegative
<1> QED BY <1>1, BalancesInvariant, PTL

=============================================================================
