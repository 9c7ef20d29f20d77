--------------------------- MODULE WalletService ---------------------------
(***************************************************************************)
(* WalletService of src/src/modules/wallet/wallet.service.ts: the deposit,  *)
(* withdraw and transfer handlers the queue consumers run, the wallet       *)
(* creation and the balance query the controller runs, the two tables they  *)
(* share (wallets, transactions) and the entries they cache                 *)
(* (wallet:user:currency and wallet:balance:id), in one Redis store or in a *)
(* store of each process.                                                   *)
(*                                                                          *)
(* A handler yields at every await, so every await is a step of its own.    *)
(* The database is PostgreSQL at its default isolation, READ COMMITTED: a   *)
(* statement sees the rows committed before it and its transaction's own    *)
(* writes, an UPDATE waits for the row's writer and a unique INSERT waits   *)
(* for the in-flight row it collides with.  Amounts are whole cents, the    *)
(* columns' decimal(15,2); a balance keeps its conversions where it is      *)
(* cached, the one place where a balance is not rounded or not a number.    *)
(* isActive is always TRUE here: no request the API accepts changes it.     *)
(***************************************************************************)
EXTENDS Integers, Sequences, FiniteSets

CONSTANTS
  Consumer,         \* handlers in flight: one per process, prefetch(1)
  CreateRequest,    \* POST /wallet/create requests: [user, currency, name]
  Reader,           \* concurrent GET /wallet/balance requests
  Store, StoreOf,   \* cache stores, and the one behind each actor's cacheManager
  User, Registered, \* user ids, and those with a row in the users table
  Currency,         \* currency codes, Unspecified for an absent field
  DefaultCurrency,  \* 'USD', the column's and the API's default
  Unspecified,
  Name,             \* wallet names; currency c stands for the automatic `${currency} Wallet`
  WalletId,         \* bound: the uuids a run may draw
  Ref, EmptyRef, NoRef, \* references: '' and absent among them
  Message,          \* the QueueMessage contents of the run
  Opening,          \* the wallets table when the run starts
  MaxAttempts,      \* bound: deliveries of one message
  MaxFaults,        \* bound: failed awaits and process crashes
  MaxBalance,       \* the largest value of a decimal(15,2) column
  MaxVersion,       \* the largest value of the bigint version column
  Drifting,         \* [balance, amount] in cents whose sum of doubles is not the double
                    \* nearest to it: 0.1 + 0.2 is 0.30000000000000004
  None

Wallet == [user : User, currency : Currency, name : Name,
           balance : -MaxBalance..MaxBalance, version : 0..MaxVersion]

\* What a handler or the cache keeps of a wallet row.
Copy == [id : WalletId, balance : -MaxBalance..MaxBalance, version : 0..MaxVersion]

\* What the cache keeps of a balance: the decimal string pg returns for the column,
\* or the double a deposit computed, unrounded.  cents is what the column makes of
\* either, and drift says that the double is off them.
CachedBalance == [form : {"string", "number"}, cents : Int, drift : BOOLEAN]
AsString(balance) == [form |-> "string", cents |-> balance, drift |-> FALSE]
AsNumber(balance, amount) ==
  [form |-> "number", cents |-> balance + amount, drift |-> <<balance, amount>> \in Drifting]

\* The keys of the rows that get a uuid and of those that store NULL.
FreshKey == "uuid"
NoKey == "null"
Key == (Ref \ {NoRef}) \cup {FreshKey, NoKey}

Row == [wallet : WalletId, before : Int, after : Int, key : Key,
        type : {"deposit", "withdrawal", "transfer_out", "transfer_in"}]

QueueMessage == [type : {"deposit", "withdraw", "transfer"}, id : Nat,
                 user : User, currency : Currency, from : WalletId,
                 to : WalletId, amount : Nat \ {0}, ref : Ref]

ASSUME BoundsAssumption ==
  MaxAttempts \in Nat /\ MaxFaults \in Nat /\ MaxBalance \in Nat /\ MaxVersion \in Nat
ASSUME DataAssumption ==
  /\ Registered \subseteq User
  /\ {DefaultCurrency, Unspecified} \subseteq Currency
  /\ Currency \subseteq Name
  /\ {EmptyRef, NoRef} \subseteq Ref /\ EmptyRef # NoRef
  /\ Ref \cap {FreshKey, NoKey} = {}
  /\ Message \subseteq QueueMessage
  /\ CreateRequest \subseteq [user : User, currency : Currency, name : Name \cup {None}]
  /\ Drifting \subseteq Int \X Nat
  /\ None \notin Wallet \cup Copy \cup CachedBalance \cup Message \cup Name \cup WalletId
  /\ None \notin -MaxBalance..MaxBalance
  /\ StoreOf \in [Consumer \cup CreateRequest \cup Reader -> Store]
ASSUME OpeningAssumption ==
  /\ Opening \in [WalletId -> Wallet \cup {None}]
  /\ \A w \in WalletId : Opening[w] # None => Opening[w].balance >= 0
  /\ \A v, w \in WalletId :
       (v # w /\ Opening[v] # None /\ Opening[w] # None) =>
          Opening[v].user # Opening[w].user /\ Opening[v].name # Opening[w].name

VARIABLES
  wallets,      \* committed wallets table
  ledger,       \* committed transactions table, in commit order
  usedIds,      \* wallet ids drawn so far, rolled back ones included
  pend,         \* [c][w]: the version of row w that c's open transaction wrote
  rows,         \* [c]: the transactions rows c's open transaction inserted
  walletCache,  \* [store, user, currency]: wallet:${userId}:${currency}
  balanceCache, \* [store, wallet]: wallet:balance:${walletId}
  pc, msg,      \* where a handler is, and the message it handles
  src, dst,     \* its local wallet (fromWallet) and toWallet
  attempts,     \* deliveries of each message
  faults,       \* awaits failed and processes crashed
  creating,     \* progress of each creation request
  reading       \* progress of each balance request

tables == <<wallets, ledger, usedIds>>
txns == <<pend, rows>>
caches == <<walletCache, balanceCache>>
locals == <<msg, src, dst>>
api == <<creating, reading>>
bounds == <<attempts, faults>>
vars == <<tables, txns, caches, pc, locals, bounds, api>>

Location ==
  {"idle", "depositKey", "depositCache", "depositFind", "depositCreate",
   "depositFill", "depositUpdate", "withdrawCache", "withdrawFind",
   "withdrawFill", "withdrawKey", "withdrawUpdate", "transferFrom",
   "transferTo", "transferKey", "transferDebit", "transferCredit",
   "insertRows", "commit", "refresh", "returned", "threw"}

NoPending == [w \in WalletId |-> None]

Init ==
  /\ wallets = Opening
  /\ ledger = <<>>
  /\ usedIds = {w \in WalletId : Opening[w] # None}
  /\ pend = [c \in Consumer |-> NoPending]
  /\ rows = [c \in Consumer |-> <<>>]
  /\ walletCache = [k \in Store \X User \X Currency |-> None]
  /\ balanceCache = [k \in Store \X WalletId |-> None]
  /\ pc = [c \in Consumer |-> "idle"]
  /\ msg = [c \in Consumer |-> None]
  /\ src = [c \in Consumer |-> None]
  /\ dst = [c \in Consumer |-> None]
  /\ attempts = [m \in Message |-> 0]
  /\ faults = 0
  /\ creating = [q \in CreateRequest |-> [at |-> "check", id |-> None]]
  /\ reading = [r \in Reader |-> None]

----------------------------------------------------------------------------
\* The database as a statement sees it.

CopyOf(w, row) == [id |-> w, balance |-> row.balance, version |-> row.version]

\* Row w as a statement of c's transaction sees it, None when it does not.
Visible(c, w) == IF pend[c][w] # None THEN pend[c][w] ELSE wallets[w]

\* findOne where { userId, currency }: TypeORM drops an undefined currency.
Matches(row, user, currency) ==
  row # None /\ row.user = user /\ (currency = Unspecified \/ row.currency = currency)

Found(c, user, currency) ==
  {CopyOf(w, Visible(c, w)) : w \in {v \in WalletId : Matches(Visible(c, v), user, currency)}}

\* A row that another open transaction has updated is locked until it ends.
Locked(c, w) == \E d \in Consumer \ {c} : wallets[w] # None /\ pend[d][w] # None

\* The unique columns of the wallets table, against committed and in-flight rows.
Collides(row, user, name) == row # None /\ (row.user = user \/ row.name = name)
\* Mutant: the userId column is not unique.
WalletNameTaken(user, name) == \E w \in WalletId : wallets[w] # None /\ wallets[w].name = name
WalletTaken(user, name) == \E w \in WalletId : Collides(wallets[w], user, name)
WalletInFlight(others, user, name) ==
  \E d \in others, w \in WalletId : wallets[w] = None /\ Collides(pend[d][w], user, name)

\* The unique, nullable idempotencyKey column of the transactions table.
Unique(key) == key \notin {FreshKey, NoKey}
KeysOf(s) == {s[i].key : i \in DOMAIN s}
Recorded(ref) == ref \in KeysOf(ledger)
Truthy(ref) == ref \notin {EmptyRef, NoRef}
KeyInFlight(c, k) == \E d \in Consumer \ {c} : Unique(k) /\ k \in KeysOf(rows[d])

\* Mutant: a column without its precision.
FitsAnyhow(balance) == balance \in Int

Fits(balance) == balance \in -MaxBalance..MaxBalance

\* wallet.version += 1 on the string pg returns for a bigint: "0" + 1 is "01",
\* "1" + 1 is "11": the new value is the old one with a digit 1 appended.
NextVersion(v) == 10 * v + 1

----------------------------------------------------------------------------
\* Steps every handler has.

Goto(c, location) == pc' = [pc EXCEPT ![c] = location]

\* Mutant: the transaction is neither rolled back nor released.
RollbackForgotten(c) == UNCHANGED txns
Rollback(c) ==
  /\ pend' = [pend EXCEPT ![c] = NoPending]
  /\ rows' = [rows EXCEPT ![c] = <<>>]

\* catch (error): roll back and throw it to the processor.
\* Mutant: the error is logged and not thrown.
SwallowError(c) == Goto(c, "returned") /\ Rollback(c)
CatchError(c) == Goto(c, "threw") /\ Rollback(c)

Throw(c) ==
  /\ CatchError(c)
  /\ UNCHANGED <<tables, caches, locals, bounds, api>>

\* A recorded reference: roll back and return, for the processor to ack.
SkipDuplicate(c) ==
  /\ Truthy(msg[c].ref) /\ Recorded(msg[c].ref)
  /\ Goto(c, "returned") /\ Rollback(c)
  /\ UNCHANGED <<tables, caches, locals, bounds, api>>

\* An await that only moves the handler on.
Proceed(c, location) ==
  /\ Goto(c, location)
  /\ UNCHANGED <<tables, txns, caches, locals, bounds, api>>

\* An await that returns a wallet into the handler's variable.
Load(c, copy, location) ==
  /\ Goto(c, location)
  /\ src' = [src EXCEPT ![c] = copy]
  /\ UNCHANGED <<tables, txns, caches, msg, dst, bounds, api>>

WalletKey(c) == <<StoreOf[c], msg[c].user, msg[c].currency>>
CachedWallet(c) == walletCache[WalletKey(c)]

\* cacheManager.set(`wallet:${userId}:${currency}`, wallet)
FillWalletCache(c, location) ==
  /\ Goto(c, location)
  /\ walletCache' = [walletCache EXCEPT ![WalletKey(c)] = src[c]]
  /\ UNCHANGED <<tables, txns, balanceCache, locals, bounds, api>>

\* The funds check.  Mutant: no check.
CoversAnyhow(copy, amount) == TRUE
Covers(copy, amount) == copy.balance >= amount

Revised(row, balance, version) == [row EXCEPT !.balance = balance, !.version = version]

\* Mutant: the update goes to the repository, outside the transaction.
UpdateOutside(c, w, balance, version, location) ==
  /\ ~Locked(c, w) /\ Fits(balance) /\ version <= MaxVersion
  /\ wallets' = IF wallets[w] = None THEN wallets
                ELSE [wallets EXCEPT ![w] = Revised(wallets[w], balance, version)]
  /\ Goto(c, location)
  /\ UNCHANGED <<ledger, usedIds, txns, caches, locals, bounds, api>>

\* Mutant: the balance is cached with the update, before the commit.
CacheOnUpdate(c, w, balance, version, location) ==
  /\ ~Locked(c, w) /\ Fits(balance) /\ version <= MaxVersion
  /\ pend' = IF Visible(c, w) = None THEN pend
             ELSE [pend EXCEPT ![c][w] = Revised(Visible(c, w), balance, version)]
  /\ balanceCache' = [balanceCache EXCEPT ![<<StoreOf[c], w>>] = AsNumber(balance, 0)]
  /\ Goto(c, location)
  /\ UNCHANGED <<tables, rows, walletCache, locals, bounds, api>>

\* manager.update(Wallet, id, { balance, version }): no row, no effect.
UpdateWallet(c, w, balance, version, location) ==
  /\ ~Locked(c, w)
  /\ Fits(balance) /\ version <= MaxVersion
  /\ pend' = IF Visible(c, w) = None THEN pend
             ELSE [pend EXCEPT ![c][w] = Revised(Visible(c, w), balance, version)]
  /\ Goto(c, location)
  /\ UNCHANGED <<tables, rows, caches, locals, bounds, api>>

\* update that leaves the version column alone.
UpdateBalance(c, w, balance, location) ==
  LET version == IF Visible(c, w) = None THEN 0 ELSE Visible(c, w).version
  IN  UpdateWallet(c, w, balance, version, location)

\* A delivery.  The broker delivers at least once: a message is delivered
\* again after a throw and after a connection loss, when the first handler may
\* still be running.
Deliver(c, m) ==
  /\ pc[c] = "idle" /\ attempts[m] < MaxAttempts
  /\ attempts' = [attempts EXCEPT ![m] = @ + 1]
  /\ msg' = [msg EXCEPT ![c] = m]
  /\ Goto(c, CASE m.type = "deposit"  -> "depositKey"
               [] m.type = "withdraw" -> "withdrawCache"
               [] m.type = "transfer" -> "transferFrom")
  /\ UNCHANGED <<tables, txns, caches, src, dst, faults, api>>

\* The handler is gone, and its variables with it.
Leave(c) ==
  /\ Goto(c, "idle")
  /\ msg' = [msg EXCEPT ![c] = None]
  /\ src' = [src EXCEPT ![c] = None]
  /\ dst' = [dst EXCEPT ![c] = None]

\* The processor takes the outcome and acks or retries.
Settle(c) ==
  /\ pc[c] \in {"returned", "threw"}
  /\ Leave(c)
  /\ UNCHANGED <<tables, txns, caches, bounds, api>>

----------------------------------------------------------------------------
\* deposit

\* The check reads committed rows only: it runs outside the transaction.
DepositCheckKey(c) ==
  /\ pc[c] = "depositKey"
  /\ \/ SkipDuplicate(c)
     \/ ~(Truthy(msg[c].ref) /\ Recorded(msg[c].ref)) /\ Proceed(c, "depositCache")

\* getOrCreateWallet, the cache first.
DepositReadCache(c) ==
  /\ pc[c] = "depositCache"
  /\ \/ CachedWallet(c) = None /\ Proceed(c, "depositFind")
     \/ CachedWallet(c) # None /\ Load(c, CachedWallet(c), "depositUpdate")

\* The database next.  A wallet found here is not cached.
DepositFindWallet(c) ==
  LET found == Found(c, msg[c].user, msg[c].currency) IN
  /\ pc[c] = "depositFind"
  /\ \/ \E copy \in found : Load(c, copy, "depositUpdate")
     \/ found = {} /\ msg[c].user \notin Registered /\ Throw(c)
     \/ found = {} /\ msg[c].user \in Registered /\ Proceed(c, "depositCreate")

\* A new wallet last, in the deposit's own transaction: it fails when the user
\* has a wallet of another currency or the automatic name is taken.
DepositCreateWallet(c) ==
  LET user == msg[c].user
      name == msg[c].currency
      currency == IF msg[c].currency = Unspecified THEN DefaultCurrency ELSE msg[c].currency
  IN
  /\ pc[c] = "depositCreate"
  /\ ~WalletInFlight(Consumer \ {c}, user, name)
  /\ \/ WalletTaken(user, name) /\ Throw(c)
     \/ /\ ~WalletTaken(user, name)
        /\ \E w \in WalletId \ usedIds :
             LET row == [user |-> user, currency |-> currency, name |-> name,
                         balance |-> 0, version |-> 0] IN
             /\ usedIds' = usedIds \cup {w}
             /\ pend' = [pend EXCEPT ![c][w] = row]
             /\ src' = [src EXCEPT ![c] = CopyOf(w, row)]
        /\ Goto(c, "depositFill")
        /\ UNCHANGED <<wallets, ledger, rows, caches, msg, dst, bounds, api>>

\* The new wallet is cached before the transaction that inserts it commits.
DepositFillCache(c) ==
  /\ pc[c] = "depositFill"
  /\ FillWalletCache(c, "depositUpdate")

DepositUpdate(c) ==
  LET balance == src[c].balance + msg[c].amount
      version == NextVersion(src[c].version)
  IN
  /\ pc[c] = "depositUpdate"
  /\ \/ UpdateWallet(c, src[c].id, balance, version, "insertRows")
     \/ (~Fits(balance) \/ version > MaxVersion) /\ Throw(c)

----------------------------------------------------------------------------
\* withdraw

\* getWallet, the cache first.
WithdrawReadCache(c) ==
  /\ pc[c] = "withdrawCache"
  /\ \/ CachedWallet(c) = None /\ Proceed(c, "withdrawFind")
     \/ CachedWallet(c) # None /\ Load(c, CachedWallet(c), "withdrawKey")

WithdrawFindWallet(c) ==
  LET found == Found(c, msg[c].user, msg[c].currency) IN
  /\ pc[c] = "withdrawFind"
  /\ \/ \E copy \in found : Load(c, copy, "withdrawFill")
     \/ found = {} /\ Throw(c)

WithdrawFillCache(c) ==
  /\ pc[c] = "withdrawFill"
  /\ FillWalletCache(c, "withdrawKey")

\* The key check and, without an await between, the funds check.
WithdrawCheckKey(c) ==
  /\ pc[c] = "withdrawKey"
  /\ \/ SkipDuplicate(c)
     \/ /\ ~(Truthy(msg[c].ref) /\ Recorded(msg[c].ref))
        /\ \/ ~Covers(src[c], msg[c].amount) /\ Throw(c)
           \/ Covers(src[c], msg[c].amount) /\ Proceed(c, "withdrawUpdate")

WithdrawUpdate(c) ==
  /\ pc[c] = "withdrawUpdate"
  /\ UpdateBalance(c, src[c].id, src[c].balance - msg[c].amount, "insertRows")

----------------------------------------------------------------------------
\* transfer

\* getWalletById never uses the cache.
TransferReadFrom(c) ==
  LET row == Visible(c, msg[c].from)
      copy == IF row = None THEN None ELSE CopyOf(msg[c].from, row)
  IN  pc[c] = "transferFrom" /\ Load(c, copy, "transferTo")

\* The second read, then both null checks and the funds check.
TransferReadTo(c) ==
  LET row == Visible(c, msg[c].to) IN
  /\ pc[c] = "transferTo"
  /\ \/ (src[c] = None \/ row = None) /\ Throw(c)
     \/ src[c] # None /\ row # None /\ ~Covers(src[c], msg[c].amount) /\ Throw(c)
     \/ /\ src[c] # None /\ row # None /\ Covers(src[c], msg[c].amount)
        /\ Goto(c, "transferKey")
        /\ dst' = [dst EXCEPT ![c] = CopyOf(msg[c].to, row)]
        /\ UNCHANGED <<tables, txns, caches, msg, src, bounds, api>>

TransferCheckKey(c) ==
  /\ pc[c] = "transferKey"
  /\ \/ SkipDuplicate(c)
     \/ ~(Truthy(msg[c].ref) /\ Recorded(msg[c].ref)) /\ Proceed(c, "transferDebit")

TransferDebit(c) ==
  /\ pc[c] = "transferDebit"
  /\ UpdateBalance(c, src[c].id, src[c].balance - msg[c].amount, "transferCredit")

\* Mutant: toNewBalance computed from fromWallet.
CreditedToSource(c) == src[c].balance + msg[c].amount
Credited(c) == dst[c].balance + msg[c].amount

TransferCredit(c) ==
  /\ pc[c] = "transferCredit"
  /\ \/ UpdateBalance(c, dst[c].id, Credited(c), "insertRows")
     \/ ~Fits(Credited(c)) /\ Throw(c)

----------------------------------------------------------------------------
\* Inserting the transactions rows, committing, and the cache afterwards.

KeyOr(ref, key) == IF Truthy(ref) THEN ref ELSE key

\* The rows a handler saves.  transfer gives both of its rows the reference:
\* the outgoing one with ??, which keeps '', the incoming one with ||.
NewRows(c) ==
  LET m == msg[c]
      row(type, copy, delta, key) ==
        [type |-> type, wallet |-> copy.id, before |-> copy.balance,
         after |-> copy.balance + delta, key |-> key]
  IN  CASE m.type = "deposit"  ->
             <<row("deposit", src[c], m.amount, KeyOr(m.ref, FreshKey))>>
        [] m.type = "withdraw" ->
             <<row("withdrawal", src[c], -m.amount, KeyOr(m.ref, FreshKey))>>
        [] m.type = "transfer" ->
             <<row("transfer_out", src[c], -m.amount, IF m.ref = NoRef THEN NoKey ELSE m.ref),
               row("transfer_in", dst[c], m.amount, KeyOr(m.ref, FreshKey))>>

\* The insert waits for an in-flight row with its key and then fails if that
\* row, or any committed one, or another row of the same insert has the key.
\* Mutant: the column is not unique.
KeyAccepted(s) == FALSE
KeyViolated(s) ==
  \/ \E k \in KeysOf(s) : Unique(k) /\ Recorded(k)
  \/ \E i, j \in DOMAIN s : i # j /\ Unique(s[i].key) /\ s[i].key = s[j].key

InsertRows(c) ==
  /\ pc[c] = "insertRows"
  /\ \A k \in KeysOf(NewRows(c)) : ~KeyInFlight(c, k)
  /\ \/ KeyViolated(NewRows(c)) /\ Throw(c)
     \/ /\ ~KeyViolated(NewRows(c))
        /\ rows' = [rows EXCEPT ![c] = NewRows(c)]
        /\ Goto(c, "commit")
        /\ UNCHANGED <<tables, pend, caches, locals, bounds, api>>

\* Mutant: a single row is saved.
CommitFirstRow(c) ==
  /\ pc[c] = "commit"
  /\ wallets' = [w \in WalletId |-> Visible(c, w)]
  /\ ledger' = Append(ledger, rows[c][1])
  /\ Rollback(c)
  /\ Goto(c, "refresh")
  /\ UNCHANGED <<usedIds, caches, locals, bounds, api>>

\* Commit, the handler's only effect on the tables.
Commit(c) ==
  /\ pc[c] = "commit"
  /\ wallets' = [w \in WalletId |-> Visible(c, w)]
  /\ ledger' = ledger \o rows[c]
  /\ Rollback(c)
  /\ Goto(c, "refresh")
  /\ UNCHANGED <<usedIds, caches, locals, bounds, api>>

\* deposit caches the new balance as it computed it, withdraw and transfer drop the
\* entries (transfer's two dels commute with every step that uses one entry).
BalanceDeposited(c) == AsNumber(src[c].balance, msg[c].amount)
BalanceKey(x, w) == <<StoreOf[x], w>>

Refresh(c) ==
  LET m == msg[c]
      source == BalanceKey(c, src[c].id)
  IN
  /\ pc[c] = "refresh"
  /\ Goto(c, "returned")
  /\ balanceCache' =
       CASE m.type = "deposit"  -> [balanceCache EXCEPT ![source] = BalanceDeposited(c)]
         [] m.type = "withdraw" -> [balanceCache EXCEPT ![source] = None]
         [] m.type = "transfer" -> [balanceCache EXCEPT ![source] = None,
                                                        ![BalanceKey(c, dst[c].id)] = None]
  /\ UNCHANGED <<tables, txns, walletCache, locals, bounds, api>>

----------------------------------------------------------------------------
\* What goes wrong under a handler.

InHandler(c) == pc[c] \notin {"idle", "returned", "threw"}

\* The lock c's next statement needs is held by d's open transaction.
WaitsFor(c, d) ==
  LET holds(w) == wallets[w] # None /\ pend[d][w] # None IN
  /\ c # d
  /\ \/ pc[c] \in {"depositUpdate", "withdrawUpdate", "transferDebit"} /\ holds(src[c].id)
     \/ pc[c] = "transferCredit" /\ holds(dst[c].id)
     \/ pc[c] = "depositCreate" /\ WalletInFlight({d}, msg[c].user, msg[c].currency)
     \/ pc[c] = "insertRows" /\ \E k \in KeysOf(NewRows(c)) : Unique(k) /\ k \in KeysOf(rows[d])

\* PostgreSQL aborts one transaction of a cycle of waiting ones.
DeadlockVictim(c) ==
  /\ \E D \in SUBSET Consumer :
       /\ c \in D
       /\ \A d \in D : (\E e \in D : WaitsFor(d, e)) /\ (\E e \in D : WaitsFor(e, d))
  /\ Throw(c)

\* Any await may reject: a lost database connection or a cache error.  After
\* the commit the handler still throws, its effects staying.
AwaitFails(c) ==
  /\ InHandler(c) /\ faults < MaxFaults
  /\ faults' = faults + 1
  /\ CatchError(c)
  /\ UNCHANGED <<tables, caches, locals, attempts, api>>

\* The process dies: the database drops its open transaction.
Crash(c) ==
  /\ pc[c] # "idle" /\ faults < MaxFaults
  /\ faults' = faults + 1
  /\ Leave(c) /\ Rollback(c)
  /\ UNCHANGED <<tables, caches, attempts, api>>

\* Cache entries live 300 seconds, or less when they die with their process.
ExpireWallet(k) ==
  /\ walletCache[k] # None
  /\ walletCache' = [walletCache EXCEPT ![k] = None]
  /\ UNCHANGED <<tables, txns, balanceCache, pc, locals, bounds, api>>

\* Mutant: the balance is cached without a time to live.
KeepBalance(k) == FALSE
ExpireBalance(k) ==
  /\ balanceCache[k] # None
  /\ balanceCache' = [balanceCache EXCEPT ![k] = None]
  /\ UNCHANGED <<tables, txns, walletCache, pc, locals, bounds, api>>

----------------------------------------------------------------------------
\* createWallet, called by the controller without a transaction.

CreateCurrency(q) == IF q.currency = Unspecified THEN DefaultCurrency ELSE q.currency
CreateName(q) == IF q.name = None THEN CreateCurrency(q) ELSE q.name
CreateGoto(q, location, id) ==
  creating' = [creating EXCEPT ![q] = [at |-> location, id |-> id]]

CreateCheck(q) ==
  LET exists == \E w \in WalletId : Matches(wallets[w], q.user, CreateCurrency(q)) IN
  /\ creating[q].at = "check"
  /\ \/ exists /\ CreateGoto(q, "done", None)
     \/ ~exists /\ CreateGoto(q, "save", None)
  /\ UNCHANGED <<tables, txns, caches, pc, locals, bounds, reading>>

\* The unique columns and the foreign key to users decide the insert.
CreateSave(q) ==
  LET refused == WalletTaken(q.user, CreateName(q)) \/ q.user \notin Registered IN
  /\ creating[q].at = "save"
  /\ ~WalletInFlight(Consumer, q.user, CreateName(q))
  /\ \/ refused /\ CreateGoto(q, "done", None) /\ UNCHANGED tables
     \/ /\ ~refused
        /\ \E w \in WalletId \ usedIds :
             /\ usedIds' = usedIds \cup {w}
             /\ wallets' = [wallets EXCEPT ![w] =
                  [user |-> q.user, currency |-> CreateCurrency(q),
                   name |-> CreateName(q), balance |-> 0, version |-> 0]]
             /\ CreateGoto(q, "fill", w)
        /\ UNCHANGED ledger
  /\ UNCHANGED <<txns, caches, pc, locals, bounds, reading>>

\* The row is cached as it was saved, whatever happened to it since.
CreateFillCache(q) ==
  /\ creating[q].at = "fill"
  /\ walletCache' = [walletCache EXCEPT ![<<StoreOf[q], q.user, CreateCurrency(q)>>] =
                       [id |-> creating[q].id, balance |-> 0, version |-> 0]]
  /\ CreateGoto(q, "done", creating[q].id)
  /\ UNCHANGED <<tables, txns, balanceCache, pc, locals, bounds, reading>>

----------------------------------------------------------------------------
\* getBalance: the row, then the cached balance, which is answered as it is, or the
\* fill with the row's string; only the answer of a fill is a Number of it.

ReadBalance(r, w) ==
  /\ reading[r] = None /\ wallets[w] # None
  /\ reading' = [reading EXCEPT ![r] = [at |-> "lookup", id |-> w, balance |-> wallets[w].balance]]
  /\ UNCHANGED <<tables, txns, caches, pc, locals, bounds, creating>>

LookUpBalance(r) ==
  /\ reading[r] # None /\ reading[r].at = "lookup"
  /\ LET cached == balanceCache[BalanceKey(r, reading[r].id)] IN
     \/ cached # None /\ reading' = [reading EXCEPT ![r] = None]
     \/ cached = None /\ reading' = [reading EXCEPT ![r].at = "fill"]
  /\ UNCHANGED <<tables, txns, caches, pc, locals, bounds, creating>>

FillBalance(r) ==
  /\ reading[r] # None /\ reading[r].at = "fill"
  /\ balanceCache' =
       [balanceCache EXCEPT ![BalanceKey(r, reading[r].id)] = AsString(reading[r].balance)]
  /\ reading' = [reading EXCEPT ![r] = None]
  /\ UNCHANGED <<tables, txns, walletCache, pc, locals, bounds, creating>>

----------------------------------------------------------------------------
Deposit(c) ==
  DepositCheckKey(c) \/ DepositReadCache(c) \/ DepositFindWallet(c)
    \/ DepositCreateWallet(c) \/ DepositFillCache(c) \/ DepositUpdate(c)
Withdraw(c) ==
  WithdrawReadCache(c) \/ WithdrawFindWallet(c) \/ WithdrawFillCache(c)
    \/ WithdrawCheckKey(c) \/ WithdrawUpdate(c)
Transfer(c) ==
  TransferReadFrom(c) \/ TransferReadTo(c) \/ TransferCheckKey(c)
    \/ TransferDebit(c) \/ TransferCredit(c)
Finish(c) == InsertRows(c) \/ Commit(c) \/ Refresh(c) \/ Settle(c)

\* The steps a running handler takes by itself, its deadlocks included.
Advance(c) == Deposit(c) \/ Withdraw(c) \/ Transfer(c) \/ Finish(c) \/ DeadlockVictim(c)
Create(q) == CreateCheck(q) \/ CreateSave(q) \/ CreateFillCache(q)
Read(r) == (\E w \in WalletId : ReadBalance(r, w)) \/ LookUpBalance(r) \/ FillBalance(r)
Expire == \/ \E k \in Store \X User \X Currency : ExpireWallet(k)
          \/ \E k \in Store \X WalletId : ExpireBalance(k)

Next ==
  \/ \E c \in Consumer : Advance(c) \/ AwaitFails(c) \/ Crash(c) \/ \E m \in Message : Deliver(c, m)
  \/ \E q \in CreateRequest : Create(q)
  \/ \E r \in Reader : Read(r)
  \/ Expire

Spec == Init /\ [][Next]_vars

\* Node schedules every pending continuation, the cache expires every entry, a
\* request in flight is answered.  Nothing makes a client send one.
Fairness ==
  /\ \A c \in Consumer : WF_vars(Advance(c))
  /\ \A r \in Reader : WF_vars(LookUpBalance(r)) /\ WF_vars(FillBalance(r))
  /\ \A k \in Store \X User \X Currency : WF_vars(ExpireWallet(k))
  /\ \A k \in Store \X WalletId : WF_vars(ExpireBalance(k))
FairSpec == Spec /\ Fairness

\* The broker delivers a message that is not settled, too.
DeliveringSpec ==
  FairSpec /\ \A m \in Message : WF_vars(\E c \in Consumer : Deliver(c, m))

=============================================================================
