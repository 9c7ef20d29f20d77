--------------------------- MODULE WalletBookProofs ---------------------------
(***************************************************************************)
(* WalletService implements AccountBook, and the statement of a wallet ends *)
(* with its balance, when no two consumers share a cache store: with one    *)
(* consumer, or with the store in its own process that the dependency       *)
(* versions of the lock file build.                                         *)
(*                                                                          *)
(* The hypothesis is needed.  A deposit caches the wallet it creates before *)
(* it commits it; a second consumer that takes it from a shared store       *)
(* updates a row it does not see, so its transactions row stands and its    *)
(* money never reaches the balance.                                         *)
(***************************************************************************)
EXTENDS WalletTablesProofs, WellFoundedInduction

USE DEF Location

SeparateStores == \A c, d \in Consumer : c # d => StoreOf[c] # StoreOf[d]

----------------------------------------------------------------------------
\* The wallets that a handler has copies of.

\* Id w is used, and is in the table or in no open transaction of D's.
SettledFor(D, w, table, used, writes) ==
  /\ w \in used
  /\ table[w] = None => \A d \in D : writes[d][w] = None

\* A wallet that a handler of c does not see now it will never see.
SettledIn(c, w, table, used, writes) == SettledFor(Consumer \ {c}, w, table, used, writes)

\* c's local wallets and those it may find in the cache are settled for it, and
\* createWallet caches a wallet that it has committed.
CopiesSettled ==
  /\ \A c \in Consumer :
       /\ src[c] # None => SettledIn(c, src[c].id, wallets, usedIds, pend)
       /\ dst[c] # None => SettledIn(c, dst[c].id, wallets, usedIds, pend)
  /\ \A c \in Consumer, k \in Store \X User \X Currency :
       (k[1] = StoreOf[c] /\ walletCache[k] # None)
         => SettledIn(c, walletCache[k].id, wallets, usedIds, pend)
  /\ \A q \in CreateRequest : creating[q].at = "fill" => wallets[creating[q].id] # None

LEMMA TableGrows ==
  ASSUME IInv, Shaped, NEW w \in WalletId, wallets[w] # None
  PROVE  wallets'[w] # None
<1>1. CASE Quiet \/ \E c \in Consumer, x \in WalletId, row \in Wallet :
                      Updates(c, x, row) \/ Inserts(c, x, row)
  BY <1>1 DEF Quiet, Updates, Inserts, tables
<1>2. ASSUME NEW x \in WalletId, NEW row \in Wallet, Saves(x, row) PROVE wallets'[w] # None
  BY <1>2, DataAssumption DEF Saves, IInv, TypeOK
<1>3. ASSUME NEW c \in Consumer, Commit(c) PROVE wallets'[w] # None
  BY <1>3 DEF Commit, Visible
<1> QED BY <1>1, <1>2, <1>3 DEF Shaped

LEMMA SettledForStays ==
  ASSUME IInv, Shaped, NEW D \in SUBSET Consumer, NEW w \in WalletId,
         SettledFor(D, w, wallets, usedIds, pend)
  PROVE  SettledFor(D, w, wallets', usedIds', pend')
<1>1. w \in usedIds /\ (wallets[w] = None => \A d \in D : pend[d][w] = None)
  BY DEF SettledFor
<1>2. w \in usedIds'
  BY <1>1 DEF Shaped, Quiet, Updates, Inserts, Saves, Commit, tables
<1>3. ASSUME wallets'[w] = None, NEW d \in D PROVE pend'[d][w] = None
  <2>1. wallets[w] = None /\ pend[d][w] = None
    BY <1>1, <1>3, TableGrows
  <2>2. CASE Quiet
    BY <2>1, <2>2 DEF Quiet, NoPending
  <2>3. ASSUME NEW e \in Consumer, NEW x \in WalletId, NEW row \in Wallet,
               Updates(e, x, row) \/ Inserts(e, x, row)
        PROVE  pend'[d][w] = None
    <3>1. e # d \/ x # w
      BY <1>1, <2>1, <2>3 DEF Updates, Inserts, Visible
    <3>2. pend' = [pend EXCEPT ![e][x] = row]
      BY <2>3 DEF Updates, Inserts
    <3> QED BY <2>1, <3>1, <3>2 DEF IInv, TypeOK
  <2>4. ASSUME NEW x \in WalletId, NEW row \in Wallet, Saves(x, row) PROVE pend'[d][w] = None
    BY <2>1, <2>4 DEF Saves
  <2>5. ASSUME NEW e \in Consumer, Commit(e) PROVE pend'[d][w] = None
    BY <2>1, <2>5 DEF Commit, Rollback, NoPending, IInv, TypeOK
  <2> QED BY <2>2, <2>3, <2>4, <2>5 DEF Shaped
<1> QED BY <1>2, <1>3 DEF SettledFor

LEMMA SettledStays ==
  ASSUME IInv, Shaped, NEW c \in Consumer, NEW w \in WalletId,
         SettledIn(c, w, wallets, usedIds, pend)
  PROVE  SettledIn(c, w, wallets', usedIds', pend')
BY SettledForStays DEF SettledIn

\* A wallet that a handler sees is settled for it.
LEMMA SeenSettled ==
  ASSUME Owners, NEW c \in Consumer, NEW w \in WalletId, Visible(c, w) # None
  PROVE  SettledIn(c, w, wallets, usedIds, pend)
BY DEF Owners, IdsUsed, OneWriter, Visible, SettledIn, SettledFor

\* A step keeps the copies settled when the ones it brings are.
LEMMA CopiesStep ==
  ASSUME IInv, Owners, CopiesSettled, Shaped,
         \A c \in Consumer :
           \/ src'[c] \in {src[c], None}
           \/ src'[c].id \in WalletId /\ SettledIn(c, src'[c].id, wallets', usedIds', pend'),
         \A c \in Consumer :
           \/ dst'[c] \in {dst[c], None}
           \/ dst'[c].id \in WalletId /\ SettledIn(c, dst'[c].id, wallets', usedIds', pend'),
         \A c \in Consumer, k \in Store \X User \X Currency :
           \/ k[1] # StoreOf[c] \/ walletCache'[k] \in {walletCache[k], None}
           \/ SettledIn(c, walletCache'[k].id, wallets', usedIds', pend'),
         \A q \in CreateRequest :
           \/ creating'[q].at # "fill" \/ creating'[q] = creating[q]
           \/ wallets'[creating'[q].id] # None
  PROVE  CopiesSettled'
<1>1. \A copy \in Copy : copy.id \in WalletId
  BY DEF Copy
<1>2. ASSUME NEW c \in Consumer
      PROVE  /\ src'[c] # None => SettledIn(c, src'[c].id, wallets', usedIds', pend')
             /\ dst'[c] # None => SettledIn(c, dst'[c].id, wallets', usedIds', pend')
  <2>1. src[c] \in Copy \cup {None} /\ dst[c] \in Copy \cup {None}
    BY DEF IInv, TypeOK
  <2>2. /\ src[c] # None => SettledIn(c, src[c].id, wallets, usedIds, pend)
        /\ dst[c] # None => SettledIn(c, dst[c].id, wallets, usedIds, pend)
    BY DEF CopiesSettled
  <2> QED BY <1>1, <2>1, <2>2, SettledStays
<1>3. ASSUME NEW c \in Consumer, NEW k \in Store \X User \X Currency,
             k[1] = StoreOf[c], walletCache'[k] # None
      PROVE  SettledIn(c, walletCache'[k].id, wallets', usedIds', pend')
  <2>1. walletCache[k] \in Copy \cup {None}
    BY DEF IInv, TypeOK
  <2>2. walletCache[k] # None => SettledIn(c, walletCache[k].id, wallets, usedIds, pend)
    BY <1>3 DEF CopiesSettled
  <2> QED BY <1>1, <1>3, <2>1, <2>2, SettledStays
<1>4. ASSUME NEW q \in CreateRequest, creating'[q].at = "fill"
      PROVE  wallets'[creating'[q].id] # None
  BY <1>4, TableGrows DEF CopiesSettled, IInv, Loaded
<1> QED BY <1>2, <1>3, <1>4 DEF CopiesSettled

\* A step that brings no copies.
LEMMA NoCopies ==
  ASSUME IInv, Owners, CopiesSettled, Shaped, UNCHANGED <<walletCache, creating>>,
         \A c \in Consumer : src'[c] \in {src[c], None} /\ dst'[c] \in {dst[c], None}
  PROVE  CopiesSettled'
BY CopiesStep

LEMMA LoadCopies ==
  ASSUME IInv, Owners, CopiesSettled, Shaped, NEW c \in Consumer, NEW copy, NEW at,
         Load(c, copy, at),
         copy # None => copy.id \in WalletId /\ SettledIn(c, copy.id, wallets, usedIds, pend)
  PROVE  CopiesSettled'
<1>1. /\ src' = [src EXCEPT ![c] = copy]
      /\ UNCHANGED <<dst, walletCache, creating>>
  BY DEF Load, caches, api
<1>2. src'[c] = copy /\ \A d \in Consumer \ {c} : src'[d] = src[d]
  BY <1>1 DEF IInv, TypeOK
<1>3. copy # None => SettledIn(c, copy.id, wallets', usedIds', pend')
  BY SettledStays
<1> QED BY <1>1, <1>2, <1>3, CopiesStep

LEMMA FoundSettled ==
  ASSUME IInv, Owners, NEW c \in Consumer, NEW user, NEW currency,
         NEW copy \in Found(c, user, currency)
  PROVE  copy.id \in WalletId /\ SettledIn(c, copy.id, wallets, usedIds, pend)
<1>1. PICK w \in WalletId : Visible(c, w) # None /\ copy = CopyOf(w, Visible(c, w))
  BY DEF Found, Matches
<1> QED BY <1>1, SeenSettled DEF CopyOf

LEMMA CachedSettled ==
  ASSUME IInv, CopiesSettled, NEW c \in Consumer, msg[c] \in Message, CachedWallet(c) # None
  PROVE  /\ CachedWallet(c).id \in WalletId
         /\ SettledIn(c, CachedWallet(c).id, wallets, usedIds, pend)
<1>1. WalletKey(c) \in Store \X User \X Currency /\ WalletKey(c)[1] = StoreOf[c]
  BY WalletKeyType DEF WalletKey
<1>2. CachedWallet(c) \in Copy
  BY <1>1 DEF CachedWallet, IInv, TypeOK
<1> QED BY <1>1, <1>2 DEF CachedWallet, CopiesSettled, Copy

\* Only the handler's own store gets its copy: the hypothesis of this module.
LEMMA FillCopies ==
  ASSUME SeparateStores, IInv, Owners, CopiesSettled, Shaped, NEW c \in Consumer, NEW at,
         FillWalletCache(c, at), msg[c] \in Message, src[c] \in Copy
  PROVE  CopiesSettled'
<1>1. /\ walletCache' = [walletCache EXCEPT ![WalletKey(c)] = src[c]]
      /\ UNCHANGED <<src, dst, creating>>
  BY DEF FillWalletCache, locals, api
<1>2. WalletKey(c)[1] = StoreOf[c] /\ src[c] # None /\ src[c].id \in WalletId
  BY DataAssumption DEF WalletKey, Copy
<1>3. SettledIn(c, src[c].id, wallets', usedIds', pend')
  BY <1>2, SettledStays DEF CopiesSettled
<1>4. ASSUME NEW d \in Consumer, NEW k \in Store \X User \X Currency, k[1] = StoreOf[d]
      PROVE  \/ walletCache'[k] = walletCache[k]
             \/ SettledIn(d, walletCache'[k].id, wallets', usedIds', pend')
  <2>1. CASE k = WalletKey(c)
    <3>1. d = c
      BY <1>2, <1>4, <2>1 DEF SeparateStores
    <3> QED BY <1>1, <1>3, <2>1, <3>1 DEF IInv, TypeOK
  <2>2. CASE k # WalletKey(c)
    BY <1>1, <2>2 DEF IInv, TypeOK
  <2> QED BY <2>1, <2>2
<1> QED BY <1>1, <1>4, CopiesStep

LEMMA QuietCopies ==
  ASSUME IInv, Owners, CopiesSettled, Shaped, NEW c \in Consumer,
         \/ Throw(c) \/ SkipDuplicate(c) \/ AwaitFails(c) \/ Crash(c) \/ DeadlockVictim(c)
         \/ \E at : Proceed(c, at)
         \/ \E w, b, v, at : UpdateWallet(c, w, b, v, at)
         \/ \E w, b, at : UpdateBalance(c, w, b, at)
         \/ Finish(c)
         \/ \E m \in Message : Deliver(c, m)
  PROVE  CopiesSettled'
<1>1. UNCHANGED <<walletCache, creating>>
  BY DEF Throw, SkipDuplicate, AwaitFails, Crash, DeadlockVictim, Proceed, UpdateBalance,
         UpdateWallet, Finish, InsertRows, Commit, Refresh, Settle, Deliver, caches, api
<1>2. \/ UNCHANGED <<src, dst>>
      \/ Leave(c)
  BY DEF Throw, SkipDuplicate, AwaitFails, Crash, DeadlockVictim, Proceed, UpdateBalance,
         UpdateWallet, Finish, InsertRows, Commit, Refresh, Settle, Deliver, locals
<1>3. \A d \in Consumer : src'[d] \in {src[d], None} /\ dst'[d] \in {dst[d], None}
  BY <1>2 DEF Leave, IInv, TypeOK
<1> QED BY <1>1, <1>3, NoCopies

LEMMA DepositCopies ==
  ASSUME SeparateStores, IInv, Owners, CopiesSettled, Shaped, NEW c \in Consumer, Deposit(c)
  PROVE  CopiesSettled'
<1>1. Ready(pc[c], msg[c], src[c], dst[c])
  BY DEF IInv, Loaded
<1>2. CASE DepositReadCache(c)
  <2>1. msg[c] \in Message
    BY <1>1, <1>2 DEF DepositReadCache, Ready
  <2> QED BY <1>2, <2>1, QuietCopies, CachedSettled, LoadCopies DEF DepositReadCache
<1>3. CASE DepositFindWallet(c)
  BY <1>3, QuietCopies, FoundSettled, LoadCopies DEF DepositFindWallet
<1>4. CASE DepositCreateWallet(c)
  <2>1. CASE Throw(c)
    BY <2>1, QuietCopies
  <2>2. CASE ~Throw(c)
    <3>0. PICK w \in WalletId \ usedIds : \E row :
            /\ usedIds' = usedIds \cup {w}
            /\ pend' = [pend EXCEPT ![c][w] = row]
            /\ src' = [src EXCEPT ![c] = CopyOf(w, row)]
      BY <1>4, <2>2 DEF DepositCreateWallet
    <3>1. PICK row :
            /\ usedIds' = usedIds \cup {w}
            /\ pend' = [pend EXCEPT ![c][w] = row]
            /\ src' = [src EXCEPT ![c] = CopyOf(w, row)]
      BY <3>0
    <3>2. UNCHANGED <<wallets, dst, walletCache, creating>>
      BY <1>4, <2>2 DEF DepositCreateWallet, caches, api
    <3>3. src'[c].id = w /\ \A d \in Consumer \ {c} : src'[d] = src[d]
      BY <3>1 DEF IInv, TypeOK, CopyOf
    <3>4. \A d \in Consumer \ {c} : pend'[d][w] = None
      BY <3>1 DEF Owners, IdsUsed
    <3>5. SettledIn(c, src'[c].id, wallets', usedIds', pend')
      BY <3>1, <3>3, <3>4 DEF SettledIn, SettledFor
    <3> QED BY <3>1, <3>2, <3>3, <3>5, CopiesStep
  <2> QED BY <2>1, <2>2
<1>5. CASE DepositFillCache(c)
  BY <1>1, <1>5, FillCopies DEF DepositFillCache, Ready, DepositAt
<1> QED BY <1>2, <1>3, <1>4, <1>5, QuietCopies DEF Deposit, DepositCheckKey, DepositUpdate

LEMMA WithdrawCopies ==
  ASSUME SeparateStores, IInv, Owners, CopiesSettled, Shaped, NEW c \in Consumer, Withdraw(c)
  PROVE  CopiesSettled'
<1>1. Ready(pc[c], msg[c], src[c], dst[c])
  BY DEF IInv, Loaded
<1>2. CASE WithdrawReadCache(c)
  <2>1. msg[c] \in Message
    BY <1>1, <1>2 DEF WithdrawReadCache, Ready
  <2> QED BY <1>2, <2>1, QuietCopies, CachedSettled, LoadCopies DEF WithdrawReadCache
<1>3. CASE WithdrawFindWallet(c)
  BY <1>3, QuietCopies, FoundSettled, LoadCopies DEF WithdrawFindWallet
<1>4. CASE WithdrawFillCache(c)
  BY <1>1, <1>4, FillCopies DEF WithdrawFillCache, Ready
<1> QED BY <1>2, <1>3, <1>4, QuietCopies DEF Withdraw, WithdrawCheckKey, WithdrawUpdate

LEMMA TransferCopies ==
  ASSUME IInv, Owners, CopiesSettled, Shaped, NEW c \in Consumer, Transfer(c)
  PROVE  CopiesSettled'
<1>1. msg[c] \in Message
  BY DEF Transfer, TransferReadFrom, TransferReadTo, TransferCheckKey, TransferDebit,
         TransferCredit, IInv, Loaded, Ready
<1>2. msg[c].from \in WalletId /\ msg[c].to \in WalletId
  BY <1>1, MessageType
<1>3. CASE TransferReadFrom(c)
  <2> DEFINE row == Visible(c, msg[c].from)
             copy == IF row = None THEN None ELSE CopyOf(msg[c].from, row)
  <2>1. copy # None => copy.id \in WalletId /\ SettledIn(c, copy.id, wallets, usedIds, pend)
    BY <1>2, SeenSettled DEF CopyOf
  <2>2. Load(c, copy, "transferTo")
    BY <1>3 DEF TransferReadFrom
  <2> HIDE DEF copy
  <2> QED BY <2>1, <2>2, LoadCopies
<1>4. CASE TransferReadTo(c)
  <2>1. CASE Throw(c)
    BY <2>1, QuietCopies
  <2>2. CASE ~Throw(c)
    <3>1. /\ dst' = [dst EXCEPT ![c] = CopyOf(msg[c].to, Visible(c, msg[c].to))]
          /\ Visible(c, msg[c].to) # None
          /\ UNCHANGED <<src, walletCache, creating>>
      BY <1>4, <2>2 DEF TransferReadTo, caches, api
    <3>2. dst'[c].id = msg[c].to /\ \A d \in Consumer \ {c} : dst'[d] = dst[d]
      BY <3>1 DEF IInv, TypeOK, CopyOf
    <3>3. SettledIn(c, msg[c].to, wallets', usedIds', pend')
      BY <1>2, <3>1, SeenSettled, SettledStays
    <3> QED BY <1>2, <3>1, <3>2, <3>3, CopiesStep
  <2> QED BY <2>1, <2>2
<1> QED BY <1>3, <1>4, QuietCopies DEF Transfer, TransferCheckKey, TransferDebit, TransferCredit

LEMMA CreateCopies ==
  ASSUME IInv, Owners, CopiesSettled, Shaped, NEW q \in CreateRequest, Create(q)
  PROVE  CopiesSettled'
<1>1. UNCHANGED <<src, dst>>
  BY DEF Create, CreateCheck, CreateSave, CreateFillCache, locals
<1>2. CASE CreateCheck(q)
  <2>1. walletCache' = walletCache
        /\ \E at \in {"done", "save"} : creating' = [creating EXCEPT ![q] = [at |-> at, id |-> None]]
    BY <1>2 DEF CreateCheck, CreateGoto, caches
  <2>2. \A p \in CreateRequest : creating'[p].at # "fill" \/ creating'[p] = creating[p]
    BY <2>1 DEF IInv, TypeOK
  <2> QED BY <1>1, <2>1, <2>2, CopiesStep
<1>3. CASE CreateSave(q)
  <2>1. walletCache' = walletCache
    BY <1>3 DEF CreateSave, caches
  <2>2. \/ creating' = [creating EXCEPT ![q] = [at |-> "done", id |-> None]]
        \/ \E w \in WalletId :
             /\ creating' = [creating EXCEPT ![q] = [at |-> "fill", id |-> w]]
             /\ wallets'[w] # None
    <3> DEFINE new == [user |-> q.user, currency |-> CreateCurrency(q),
                       name |-> CreateName(q), balance |-> 0, version |-> 0]
    <3>1. new \in Wallet
      BY DataAssumption, BoundsAssumption DEF Wallet, CreateCurrency, CreateName
    <3>2. \/ creating' = [creating EXCEPT ![q] = [at |-> "done", id |-> None]]
          \/ \E w \in WalletId :
               /\ creating' = [creating EXCEPT ![q] = [at |-> "fill", id |-> w]]
               /\ wallets' = [wallets EXCEPT ![w] = new]
      BY <1>3 DEF CreateSave, CreateGoto
    <3> HIDE DEF new
    <3> QED BY <3>1, <3>2, DataAssumption DEF IInv, TypeOK
  <2>3. \A p \in CreateRequest :
          creating'[p].at # "fill" \/ creating'[p] = creating[p] \/ wallets'[creating'[p].id] # None
    BY <2>2 DEF IInv, TypeOK
  <2> QED BY <1>1, <2>1, <2>3, CopiesStep
<1>4. CASE CreateFillCache(q)
  <2> DEFINE key == <<StoreOf[q], q.user, CreateCurrency(q)>>
             id == creating[q].id
  <2>1. /\ walletCache' = [walletCache EXCEPT ![key] = [id |-> id, balance |-> 0, version |-> 0]]
        /\ creating' = [creating EXCEPT ![q] = [at |-> "done", id |-> id]]
        /\ creating[q].at = "fill"
    BY <1>4 DEF CreateFillCache, CreateGoto
  <2>2. id \in WalletId /\ wallets[id] # None
    BY <2>1 DEF IInv, Loaded, CopiesSettled
  <2>3. ASSUME NEW c \in Consumer PROVE SettledIn(c, id, wallets', usedIds', pend')
    <3>1. SettledIn(c, id, wallets, usedIds, pend)
      BY <2>2 DEF SettledIn, SettledFor, Owners, IdsUsed
    <3> QED BY <2>2, <3>1, SettledStays
  <2>4. ASSUME NEW c \in Consumer, NEW k \in Store \X User \X Currency
        PROVE  \/ walletCache'[k] = walletCache[k]
               \/ SettledIn(c, walletCache'[k].id, wallets', usedIds', pend')
    <3>1. CASE k = key
      <4>1. walletCache'[k].id = id
        BY <2>1, <3>1 DEF IInv, TypeOK
      <4> QED BY <2>3, <4>1
    <3>2. CASE k # key
      BY <2>1, <3>2 DEF IInv, TypeOK
    <3> QED BY <3>1, <3>2
  <2>5. \A p \in CreateRequest : creating'[p].at # "fill" \/ creating'[p] = creating[p]
    BY <2>1 DEF IInv, TypeOK
  <2> QED BY <1>1, <2>4, <2>5, CopiesStep
<1> QED BY <1>2, <1>3, <1>4 DEF Create

LEMMA NextCopies ==
  ASSUME SeparateStores, IInv, TInv, Owners, CopiesSettled, [Next]_vars
  PROVE  CopiesSettled'
<1>0. Shaped
  BY EveryStepShaped
<1>1. CASE UNCHANGED vars
  BY <1>0, <1>1, NoCopies DEF vars, caches, locals, api
<1>2. ASSUME NEW c \in Consumer, Advance(c) PROVE CopiesSettled'
  BY <1>0, <1>2, DepositCopies, WithdrawCopies, TransferCopies, QuietCopies DEF Advance
<1>3. ASSUME NEW c \in Consumer, AwaitFails(c) \/ Crash(c) \/ \E m \in Message : Deliver(c, m)
      PROVE  CopiesSettled'
  BY <1>0, <1>3, QuietCopies
<1>4. ASSUME NEW r \in Reader, Read(r) PROVE CopiesSettled'
  BY <1>0, <1>4, NoCopies DEF Read, ReadBalance, LookUpBalance, FillBalance, caches, locals
<1>5. CASE Expire
  <2>1. UNCHANGED <<src, dst, creating>>
    BY <1>5 DEF Expire, ExpireWallet, ExpireBalance, locals, api
  <2>2. \A k \in Store \X User \X Currency : walletCache'[k] \in {walletCache[k], None}
    BY <1>5 DEF Expire, ExpireWallet, ExpireBalance, IInv, TypeOK
  <2> QED BY <1>0, <2>1, <2>2, CopiesStep
<1> QED BY <1>0, <1>1, <1>2, <1>3, <1>4, <1>5, CreateCopies DEF Next

----------------------------------------------------------------------------
\* What a handler's updates leave.

\* Balance b is written to row w, unless the transaction sees no such row.
Took(p, w, b, table) ==
  (p[w] # None \/ table[w] # None) => p[w] # None /\ p[w].balance = b

\* The updates before a location, and the funds check they rest on.
Applied(at, m, s, d, p, table) ==
  /\ at = "transferCredit" => Took(p, s.id, s.balance - m.amount, table)
  /\ at \in {"insertRows", "commit"} =>
       \A w \in WalletId, b \in Int : SetsTo(m, s, d, w, b) => Took(p, w, b, table)
  /\ (at \in {"transferCredit", "insertRows", "commit"} /\ m.type # "deposit")
       => s.balance >= m.amount

UpdatesApplied ==
  \A c \in Consumer : Applied(pc[c], msg[c], src[c], dst[c], pend[c], wallets)

\* The transactions rows of a rolled back wallet have no wallet, for good.
RowsSettled ==
  \A i \in DOMAIN ledger : SettledFor(Consumer, ledger[i].wallet, wallets, usedIds, pend)

\* Another's step leaves what a handler's updates left.
LEMMA TookStays ==
  ASSUME IInv, Shaped, NEW c \in Consumer, NEW w \in WalletId, NEW b,
         pend'[c] = pend[c], SettledIn(c, w, wallets, usedIds, pend),
         Took(pend[c], w, b, wallets)
  PROVE  Took(pend'[c], w, b, wallets')
<1>1. SUFFICES ASSUME pend[c][w] = None PROVE wallets'[w] = None
  BY DEF Took
<1>2. wallets[w] = None /\ w \in usedIds /\ \A d \in Consumer : pend[d][w] = None
  BY <1>1 DEF Took, SettledIn, SettledFor
<1>3. CASE Quiet \/ \E d \in Consumer, x \in WalletId, row \in Wallet :
                      Updates(d, x, row) \/ Inserts(d, x, row)
  BY <1>2, <1>3 DEF Quiet, Updates, Inserts, tables
<1>4. ASSUME NEW x \in WalletId, NEW row \in Wallet, Saves(x, row) PROVE wallets'[w] = None
  BY <1>2, <1>4 DEF Saves, IInv, TypeOK
<1>5. ASSUME NEW d \in Consumer, Commit(d) PROVE wallets'[w] = None
  BY <1>2, <1>5 DEF Commit, Visible
<1> QED BY <1>3, <1>4, <1>5 DEF Shaped

LEMMA AppliedStays ==
  ASSUME IInv, Written, CopiesSettled, Shaped, UpdatesApplied, NEW c \in Consumer,
         pc'[c] = pc[c], msg'[c] = msg[c], src'[c] = src[c], dst'[c] = dst[c],
         pend'[c] = pend[c]
  PROVE  Applied(pc'[c], msg'[c], src'[c], dst'[c], pend'[c], wallets')
<1>1. Applied(pc[c], msg[c], src[c], dst[c], pend[c], wallets)
  BY DEF UpdatesApplied
<1>2. CASE pc[c] \notin {"transferCredit", "insertRows", "commit"}
  BY <1>2 DEF Applied
<1>3. CASE pc[c] \in {"transferCredit", "insertRows", "commit"}
  <2>1. /\ src[c] \in Copy /\ src[c].id \in WalletId
        /\ msg[c].type = "transfer" => dst[c] \in Copy /\ dst[c].id \in WalletId
    BY <1>3, WriterData
  <2>2. /\ SettledIn(c, src[c].id, wallets, usedIds, pend)
        /\ msg[c].type = "transfer" => SettledIn(c, dst[c].id, wallets, usedIds, pend)
    BY <2>1, DataAssumption DEF CopiesSettled
  <2>3. pc[c] = "transferCredit" =>
          Took(pend'[c], src[c].id, src[c].balance - msg[c].amount, wallets')
    BY <1>1, <2>1, <2>2, TookStays DEF Applied
  <2>4. ASSUME pc[c] \in {"insertRows", "commit"}, NEW w \in WalletId, NEW b \in Int,
               SetsTo(msg[c], src[c], dst[c], w, b)
        PROVE  Took(pend'[c], w, b, wallets')
    <3>1. SettledIn(c, w, wallets, usedIds, pend)
      BY <2>2, <2>4 DEF SetsTo
    <3>2. Took(pend[c], w, b, wallets)
      BY <1>1, <2>4 DEF Applied
    <3> QED BY <3>1, <3>2, TookStays
  <2> QED BY <1>1, <2>3, <2>4 DEF Applied
<1> QED BY <1>2, <1>3

LEMMA AppliedStep ==
  ASSUME IInv, Written, CopiesSettled, Shaped, UpdatesApplied, NEW c \in Consumer, Only(c),
         Applied(pc'[c], msg'[c], src'[c], dst'[c], pend'[c], wallets')
  PROVE  UpdatesApplied'
<1> SUFFICES ASSUME NEW d \in Consumer
             PROVE  Applied(pc'[d], msg'[d], src'[d], dst'[d], pend'[d], wallets')
  BY DEF UpdatesApplied
<1>1. CASE d = c
  BY <1>1
<1>2. CASE d # c
  BY <1>2, AppliedStays DEF Only
<1> QED BY <1>1, <1>2

\* A step of c that leads to a location with no update before it.
LEMMA ElsewhereApplied ==
  ASSUME IInv, Written, CopiesSettled, Shaped, UpdatesApplied, NEW c \in Consumer, Only(c),
         pc'[c] \notin {"transferCredit", "insertRows", "commit"}
  PROVE  UpdatesApplied'
BY AppliedStep DEF Applied

LEMMA UpdateTook ==
  ASSUME IInv, NEW c \in Consumer, NEW w \in WalletId, NEW b, NEW v \in Nat, NEW at,
         UpdateWallet(c, w, b, v, at)
  PROVE  /\ Took(pend'[c], w, b, wallets')
         /\ \A x \in WalletId : x # w => pend'[c][x] = pend[c][x]
         /\ UNCHANGED <<wallets, msg, src, dst>> /\ pc'[c] = at /\ Only(c)
<1>1. /\ UNCHANGED <<wallets, msg, src, dst, rows>>
      /\ pc' = [pc EXCEPT ![c] = at]
  BY DEF UpdateWallet, Goto, tables, locals
<1>2. pc'[c] = at /\ Only(c)
  BY <1>1, UpdateEffect DEF Only, IInv, TypeOK
<1>3. Took(pend'[c], w, b, wallets')
  BY <1>1, UpdateEffect DEF Took, Visible
<1> QED BY <1>1, <1>2, <1>3, UpdateEffect

LEMMA UpdateBalanceTook ==
  ASSUME IInv, NEW c \in Consumer, NEW w \in WalletId, NEW b, NEW at,
         UpdateBalance(c, w, b, at)
  PROVE  /\ Took(pend'[c], w, b, wallets')
         /\ \A x \in WalletId : x # w => pend'[c][x] = pend[c][x]
         /\ UNCHANGED <<wallets, msg, src, dst>> /\ pc'[c] = at /\ Only(c)
<1> DEFINE v == IF Visible(c, w) = None THEN 0 ELSE Visible(c, w).version
<1>1. v \in Nat
  BY VisibleType, BoundsAssumption DEF IInv, Wallet
<1>2. UpdateWallet(c, w, b, v, at)
  BY DEF UpdateBalance
<1> HIDE DEF v
<1> QED BY <1>1, <1>2, UpdateTook

\* The steps that lead to a location with an update before it.
LEMMA UpdatesStep ==
  ASSUME IInv, Written, BalancesInv, CopiesSettled, Shaped, UpdatesApplied, NEW c \in Consumer,
         \/ pc[c] = "depositUpdate"
            /\ UpdateWallet(c, src[c].id, src[c].balance + msg[c].amount,
                            NextVersion(src[c].version), "insertRows")
         \/ WithdrawUpdate(c)
         \/ TransferDebit(c)
         \/ pc[c] = "transferCredit" /\ UpdateBalance(c, dst[c].id, Credited(c), "insertRows")
  PROVE  UpdatesApplied'
<1>1. CASE /\ pc[c] = "depositUpdate"
           /\ UpdateWallet(c, src[c].id, src[c].balance + msg[c].amount,
                           NextVersion(src[c].version), "insertRows")
  <2>1. src[c].id \in WalletId /\ NextVersion(src[c].version) \in Nat /\ msg[c].type = "deposit"
    BY <1>1, WriterData DEF NextVersion
  <2>2. /\ Took(pend'[c], src[c].id, src[c].balance + msg[c].amount, wallets')
        /\ UNCHANGED <<msg, src, dst>> /\ pc'[c] = "insertRows" /\ Only(c)
    BY <1>1, <2>1, UpdateTook
  <2>3. Applied(pc'[c], msg'[c], src'[c], dst'[c], pend'[c], wallets')
    BY <2>1, <2>2 DEF Applied, SetsTo
  <2> QED BY <2>2, <2>3, AppliedStep
<1>2. CASE WithdrawUpdate(c)
  <2>1. /\ src[c].id \in WalletId /\ msg[c].type = "withdraw"
        /\ src[c].balance >= msg[c].amount
    BY <1>2, WriterData DEF WithdrawUpdate, BalancesInv
  <2>2. /\ Took(pend'[c], src[c].id, src[c].balance - msg[c].amount, wallets')
        /\ UNCHANGED <<msg, src, dst>> /\ pc'[c] = "insertRows" /\ Only(c)
    BY <1>2, <2>1, UpdateBalanceTook DEF WithdrawUpdate
  <2>3. Applied(pc'[c], msg'[c], src'[c], dst'[c], pend'[c], wallets')
    BY <2>1, <2>2 DEF Applied, SetsTo
  <2> QED BY <2>2, <2>3, AppliedStep
<1>3. CASE TransferDebit(c)
  <2>1. /\ src[c].id \in WalletId /\ src[c].balance >= msg[c].amount
    BY <1>3, WriterData DEF TransferDebit, BalancesInv
  <2>2. /\ Took(pend'[c], src[c].id, src[c].balance - msg[c].amount, wallets')
        /\ UNCHANGED <<msg, src, dst>> /\ pc'[c] = "transferCredit" /\ Only(c)
    BY <1>3, <2>1, UpdateBalanceTook DEF TransferDebit
  <2>3. Applied(pc'[c], msg'[c], src'[c], dst'[c], pend'[c], wallets')
    BY <2>1, <2>2 DEF Applied
  <2> QED BY <2>2, <2>3, AppliedStep
<1>4. CASE pc[c] = "transferCredit" /\ UpdateBalance(c, dst[c].id, Credited(c), "insertRows")
  <2>1. /\ src[c].id \in WalletId /\ dst[c].id \in WalletId /\ msg[c].type = "transfer"
        /\ Applied("transferCredit", msg[c], src[c], dst[c], pend[c], wallets)
    BY <1>4, WriterData DEF UpdatesApplied
  <2>2. /\ Took(pend'[c], dst[c].id, dst[c].balance + msg[c].amount, wallets')
        /\ \A x \in WalletId : x # dst[c].id => pend'[c][x] = pend[c][x]
        /\ UNCHANGED <<wallets, msg, src, dst>> /\ pc'[c] = "insertRows" /\ Only(c)
    BY <1>4, <2>1, UpdateBalanceTook DEF Credited
  <2>3. src[c].id # dst[c].id =>
          Took(pend'[c], src[c].id, src[c].balance - msg[c].amount, wallets')
    BY <2>1, <2>2 DEF Applied, Took
  <2>4. Applied(pc'[c], msg'[c], src'[c], dst'[c], pend'[c], wallets')
    BY <2>1, <2>2, <2>3 DEF Applied, SetsTo
  <2> QED BY <2>2, <2>4, AppliedStep
<1> QED BY <1>1, <1>2, <1>3, <1>4

LEMMA NextApplied ==
  ASSUME IInv, TInv, Owners, BalancesInv, CopiesSettled, UpdatesApplied, [Next]_vars
  PROVE  UpdatesApplied'
<1>0. Shaped /\ Written
  BY EveryStepShaped DEF TInv
<1>1. ASSUME UNCHANGED <<pc, msg, src, dst, pend>> PROVE UpdatesApplied'
  <2>1. \A c \in Consumer : Applied(pc'[c], msg'[c], src'[c], dst'[c], pend'[c], wallets')
    BY <1>0, <1>1, AppliedStays
  <2> QED BY <2>1 DEF UpdatesApplied
<1>2. ASSUME NEW c \in Consumer, NEW at,
             at \notin {"transferCredit", "insertRows", "commit"},
             pc' = [pc EXCEPT ![c] = at],
             \A d \in Consumer \ {c} :
               /\ msg'[d] = msg[d] /\ src'[d] = src[d] /\ dst'[d] = dst[d]
               /\ pend'[d] = pend[d] /\ rows'[d] = rows[d]
      PROVE  UpdatesApplied'
  <2>1. Only(c) /\ pc'[c] = at
    BY <1>2 DEF Only, IInv, TypeOK
  <2> QED BY <1>0, <1>2, <2>1, ElsewhereApplied
<1>3. ASSUME NEW c \in Consumer,
             Throw(c) \/ SkipDuplicate(c) \/ AwaitFails(c) \/ Crash(c) \/ DeadlockVictim(c)
      PROVE  UpdatesApplied'
  <2>1. \/ pc' = [pc EXCEPT ![c] = "threw"]
        \/ pc' = [pc EXCEPT ![c] = "returned"]
        \/ pc' = [pc EXCEPT ![c] = "idle"]
    BY <1>3 DEF Throw, SkipDuplicate, AwaitFails, Crash, DeadlockVictim, CatchError, Leave, Goto
  <2>2. \A d \in Consumer \ {c} :
          /\ msg'[d] = msg[d] /\ src'[d] = src[d] /\ dst'[d] = dst[d]
          /\ pend'[d] = pend[d] /\ rows'[d] = rows[d]
    BY <1>3 DEF Throw, SkipDuplicate, AwaitFails, Crash, DeadlockVictim, CatchError, Leave,
                Rollback, locals, IInv, TypeOK
  <2> QED BY <1>2, <2>1, <2>2
<1>4. ASSUME NEW c \in Consumer, NEW at, at \notin {"transferCredit", "insertRows", "commit"},
             Proceed(c, at) \/ FillWalletCache(c, at) \/ \E copy : Load(c, copy, at)
      PROVE  UpdatesApplied'
  <2>1. /\ pc' = [pc EXCEPT ![c] = at] /\ UNCHANGED <<msg, dst, pend, rows>>
        /\ \A d \in Consumer \ {c} : src'[d] = src[d]
    BY <1>4 DEF Proceed, FillWalletCache, Load, Goto, txns, locals, IInv, TypeOK
  <2> QED BY <1>2, <1>4, <2>1
<1>5. ASSUME NEW c \in Consumer, Deposit(c) PROVE UpdatesApplied'
  <2>1. CASE DepositCreateWallet(c)
    <3>1. CASE Throw(c)
      BY <1>3, <3>1
    <3>2. CASE ~Throw(c)
      <4>1. /\ pc' = [pc EXCEPT ![c] = "depositFill"] /\ UNCHANGED <<msg, dst, rows>>
            /\ \A d \in Consumer \ {c} : src'[d] = src[d] /\ pend'[d] = pend[d]
        BY <2>1, <3>2 DEF DepositCreateWallet, Goto, IInv, TypeOK
      <4> QED BY <1>2, <4>1
    <3> QED BY <3>1, <3>2
  <2>2. CASE DepositUpdate(c)
    BY <1>0, <1>3, <2>2, UpdatesStep DEF DepositUpdate
  <2> QED BY <1>3, <1>4, <1>5, <2>1, <2>2
          DEF Deposit, DepositCheckKey, DepositReadCache, DepositFindWallet, DepositFillCache
<1>6. ASSUME NEW c \in Consumer, Withdraw(c) PROVE UpdatesApplied'
  <2>1. CASE WithdrawUpdate(c)
    BY <1>0, <2>1, UpdatesStep
  <2> QED BY <1>3, <1>4, <1>6, <2>1
          DEF Withdraw, WithdrawReadCache, WithdrawFindWallet, WithdrawFillCache, WithdrawCheckKey
<1>7. ASSUME NEW c \in Consumer, Transfer(c) PROVE UpdatesApplied'
  <2>1. CASE TransferDebit(c)
    BY <1>0, <2>1, UpdatesStep
  <2>2. CASE TransferCredit(c)
    BY <1>0, <1>3, <2>2, UpdatesStep DEF TransferCredit
  <2>3. CASE TransferReadTo(c)
    <3>1. CASE Throw(c)
      BY <1>3, <3>1
    <3>2. CASE ~Throw(c)
      <4>1. /\ pc' = [pc EXCEPT ![c] = "transferKey"] /\ UNCHANGED <<msg, src, pend, rows>>
            /\ \A d \in Consumer \ {c} : dst'[d] = dst[d]
        BY <2>3, <3>2 DEF TransferReadTo, Goto, txns, IInv, TypeOK
      <4> QED BY <1>2, <4>1
    <3> QED BY <3>1, <3>2
  <2> QED BY <1>3, <1>4, <1>7, <2>1, <2>2, <2>3 DEF Transfer, TransferReadFrom, TransferCheckKey
<1>8. ASSUME NEW c \in Consumer, Finish(c) PROVE UpdatesApplied'
  <2>1. CASE InsertRows(c)
    <3>1. CASE Throw(c)
      BY <1>3, <3>1
    <3>2. CASE ~Throw(c)
      <4>1. /\ pc' = [pc EXCEPT ![c] = "commit"] /\ pc[c] = "insertRows"
            /\ UNCHANGED <<wallets, msg, src, dst, pend>>
            /\ \A d \in Consumer \ {c} : rows'[d] = rows[d]
        BY <2>1, <3>2 DEF InsertRows, Goto, tables, locals, IInv, TypeOK
      <4>2. pc'[c] = "commit" /\ Only(c)
        BY <4>1 DEF Only, IInv, TypeOK
      <4>3. Applied("insertRows", msg[c], src[c], dst[c], pend[c], wallets)
        BY <4>1 DEF UpdatesApplied
      <4>4. Applied(pc'[c], msg'[c], src'[c], dst'[c], pend'[c], wallets')
        BY <4>1, <4>2, <4>3 DEF Applied
      <4> QED BY <1>0, <4>2, <4>4, AppliedStep
    <3> QED BY <3>1, <3>2
  <2>2. CASE Commit(c)
    <3>1. /\ pc' = [pc EXCEPT ![c] = "refresh"] /\ UNCHANGED <<msg, src, dst>>
          /\ \A d \in Consumer \ {c} : pend'[d] = pend[d] /\ rows'[d] = rows[d]
      BY <2>2 DEF Commit, Rollback, Goto, locals, IInv, TypeOK
    <3> QED BY <1>2, <3>1
  <2>3. CASE Refresh(c)
    <3>1. pc' = [pc EXCEPT ![c] = "returned"] /\ UNCHANGED <<msg, src, dst, pend, rows>>
      BY <2>3 DEF Refresh, Goto, txns, locals
    <3> QED BY <1>2, <3>1
  <2>4. CASE Settle(c)
    <3>1. /\ pc' = [pc EXCEPT ![c] = "idle"] /\ UNCHANGED <<pend, rows>>
          /\ \A d \in Consumer \ {c} : msg'[d] = msg[d] /\ src'[d] = src[d] /\ dst'[d] = dst[d]
      BY <2>4 DEF Settle, Leave, Goto, txns, IInv, TypeOK
    <3> QED BY <1>2, <3>1
  <2> QED BY <1>8, <2>1, <2>2, <2>3, <2>4 DEF Finish
<1>9. ASSUME NEW c \in Consumer, NEW m \in Message, Deliver(c, m) PROVE UpdatesApplied'
  <2>1. PICK at \in {"depositKey", "withdrawCache", "transferFrom"} :
          pc' = [pc EXCEPT ![c] = at]
    BY <1>9, MessageType DEF Deliver, Goto
  <2>2. /\ UNCHANGED <<src, dst, pend, rows>>
        /\ \A d \in Consumer \ {c} : msg'[d] = msg[d]
    BY <1>9 DEF Deliver, txns, IInv, TypeOK
  <2> QED BY <1>2, <2>1, <2>2
<1>10. CASE UNCHANGED vars
  BY <1>1, <1>10 DEF vars, txns, locals
<1>11. ASSUME NEW q \in CreateRequest, Create(q) PROVE UpdatesApplied'
  BY <1>1, <1>11 DEF Create, CreateCheck, CreateSave, CreateFillCache, txns, locals
<1>12. ASSUME NEW r \in Reader, Read(r) PROVE UpdatesApplied'
  BY <1>1, <1>12 DEF Read, ReadBalance, LookUpBalance, FillBalance, txns, locals
<1>13. CASE Expire
  BY <1>1, <1>13 DEF Expire, ExpireWallet, ExpireBalance, txns, locals
<1> QED BY <1>3, <1>5, <1>6, <1>7, <1>8, <1>9, <1>10, <1>11, <1>12, <1>13 DEF Next, Advance

----------------------------------------------------------------------------
\* The rows of a commit.

LEMMA RowsForWallets ==
  ASSUME NEW m \in Message, NEW s, NEW d, NEW i \in DOMAIN RowsFor(m, s, d)
  PROVE  \/ RowsFor(m, s, d)[i].wallet = s.id
         \/ m.type = "transfer" /\ RowsFor(m, s, d)[i].wallet = d.id
<1>1. CASE m.type = "deposit"
  BY <1>1 DEF RowsFor
<1>2. CASE m.type = "withdraw"
  BY <1>2 DEF RowsFor
<1>3. CASE m.type = "transfer"
  BY <1>3 DEF RowsFor
<1> QED BY <1>1, <1>2, <1>3, MessageType

\* The last row of a wallet states the balance that the handler set.
LEMMA LastRowSets ==
  ASSUME NEW m \in Message, NEW s, NEW d, s.balance \in Int,
         m.type = "transfer" => d.balance \in Int, NEW i \in DOMAIN RowsFor(m, s, d),
         \A j \in DOMAIN RowsFor(m, s, d) :
           RowsFor(m, s, d)[j].wallet = RowsFor(m, s, d)[i].wallet => j <= i
  PROVE  /\ RowsFor(m, s, d)[i].after \in Int
         /\ SetsTo(m, s, d, RowsFor(m, s, d)[i].wallet, RowsFor(m, s, d)[i].after)
<1>0. m.amount \in Int /\ s.balance + -m.amount = s.balance - m.amount
  BY MessageType
<1>1. CASE m.type = "deposit"
  <2>1. i = 1 /\ RowsFor(m, s, d)[1].wallet = s.id
        /\ RowsFor(m, s, d)[1].after = s.balance + m.amount
    BY <1>1 DEF RowsFor
  <2> QED BY <1>0, <1>1, <2>1 DEF SetsTo
<1>2. CASE m.type = "withdraw"
  <2>1. i = 1 /\ RowsFor(m, s, d)[1].wallet = s.id
        /\ RowsFor(m, s, d)[1].after = s.balance + -m.amount
    BY <1>2 DEF RowsFor
  <2> QED BY <1>0, <1>2, <2>1 DEF SetsTo
<1>3. CASE m.type = "transfer"
  <2>1. /\ i \in {1, 2} /\ DOMAIN RowsFor(m, s, d) = {1, 2}
        /\ RowsFor(m, s, d)[1].wallet = s.id /\ RowsFor(m, s, d)[2].wallet = d.id
        /\ RowsFor(m, s, d)[1].after = s.balance + -m.amount
        /\ RowsFor(m, s, d)[2].after = d.balance + m.amount
    BY <1>3 DEF RowsFor
  <2>2. CASE i = 1
    <3>1. d.id # s.id
      BY <2>1, <2>2
    <3> QED BY <1>0, <1>3, <2>1, <2>2, <3>1 DEF SetsTo
  <2>3. CASE i = 2
    BY <1>0, <1>3, <2>1, <2>3 DEF SetsTo
  <2> QED BY <2>1, <2>2, <2>3
<1> QED BY <1>1, <1>2, <1>3, MessageType

\* The rows are one posting of the book, and leave no balance below zero.
LEMMA RowsForPosting ==
  ASSUME NEW m \in Message, NEW s \in Copy, NEW d, m.type = "transfer" => d \in Copy,
         s.balance >= 0, m.type = "transfer" => d.balance >= 0,
         m.type # "deposit" => s.balance >= m.amount
  PROVE  /\ Len(RowsFor(m, s, d)) \in 1..2
         /\ Book!Posting(RowsFor(m, s, d))
         /\ \A i \in DOMAIN RowsFor(m, s, d) : RowsFor(m, s, d)[i].after >= 0
<1>1. m.amount \in Nat \ {0} /\ m.type \in {"deposit", "withdraw", "transfer"}
  BY MessageType
<1>2. s.balance \in Int /\ (m.type = "transfer" => d.balance \in Int)
  BY BoundsAssumption DEF Copy
<1>3. CASE m.type = "deposit"
  <2>1. /\ Len(RowsFor(m, s, d)) = 1 /\ DOMAIN RowsFor(m, s, d) = {1}
        /\ RowsFor(m, s, d)[1].type = "deposit"
        /\ RowsFor(m, s, d)[1].before = s.balance
        /\ RowsFor(m, s, d)[1].after = s.balance + m.amount
    BY <1>3 DEF RowsFor
  <2> QED BY <1>1, <1>2, <2>1 DEF Book!Posting, Book!Moved
<1>4. CASE m.type = "withdraw"
  <2>1. /\ Len(RowsFor(m, s, d)) = 1 /\ DOMAIN RowsFor(m, s, d) = {1}
        /\ RowsFor(m, s, d)[1].type = "withdrawal"
        /\ RowsFor(m, s, d)[1].before = s.balance
        /\ RowsFor(m, s, d)[1].after = s.balance + -m.amount
    BY <1>4 DEF RowsFor
  <2> QED BY <1>1, <1>2, <1>4, <2>1 DEF Book!Posting, Book!Moved
<1>5. CASE m.type = "transfer"
  <2>1. /\ Len(RowsFor(m, s, d)) = 2 /\ DOMAIN RowsFor(m, s, d) = {1, 2}
        /\ RowsFor(m, s, d)[1].type = "transfer_out"
        /\ RowsFor(m, s, d)[2].type = "transfer_in"
        /\ RowsFor(m, s, d)[1].before = s.balance
        /\ RowsFor(m, s, d)[1].after = s.balance + -m.amount
        /\ RowsFor(m, s, d)[2].before = d.balance
        /\ RowsFor(m, s, d)[2].after = d.balance + m.amount
    BY <1>5 DEF RowsFor
  <2> QED BY <1>1, <1>2, <1>5, <2>1 DEF Book!Posting, Book!Moved
<1> QED BY <1>1, <1>3, <1>4, <1>5

----------------------------------------------------------------------------
\* What a commit does to the tables, and other steps do not.

\* A set of indices has a last one.
LEMMA LastIndex ==
  ASSUME NEW n \in Nat, NEW S \in SUBSET (1..n), S # {}
  PROVE  \E i \in S : \A j \in S : j <= i
<1> DEFINE R == OpToRel(<, Nat)
           T == {n - i : i \in S}
<1>1. \A x, y \in Nat : <<x, y>> \in R <=> x < y
  BY DEF OpToRel
<1>2. IsWellFoundedOn(R, Nat)
  BY NatLessThanWellFounded
<1> HIDE DEF R
<1>3. T \subseteq Nat /\ T # {}
  <2>1. \A i \in S : n - i \in Nat
    OBVIOUS
  <2> QED BY <2>1
<1>4. (\A j \in S : n - j \in T) /\ (\A x \in T : \E i \in S : x = n - i)
  OBVIOUS
<1> HIDE DEF T
<1>5. PICK x \in T : \A y \in T : ~(<<y, x>> \in R)
  BY <1>2, <1>3, WFMin
<1>6. ASSUME NEW y \in T PROVE x <= y
  <2>1. x \in Nat /\ y \in Nat
    BY <1>3
  <2>2. ~(y < x)
    BY <1>1, <1>5, <2>1
  <2> QED BY <2>1, <2>2
<1>7. PICK i \in S : x = n - i
  BY <1>4
<1> QED BY <1>4, <1>6, <1>7

\* A wallet without a row in the commit keeps its balance; one with a row gets
\* the balance its last row states, unless it was rolled back long ago.
Decides(s, i, w) ==
  /\ i \in DOMAIN s /\ s[i].wallet = w
  /\ \A j \in DOMAIN s : s[j].wallet = w => j <= i

LEMMA CommitWallet ==
  ASSUME IInv, TInv, UpdatesApplied, NEW c \in Consumer, Commit(c), NEW w \in WalletId
  PROVE  \/ /\ \A i \in DOMAIN rows[c] : rows[c][i].wallet # w
            /\ wallets'[w] = wallets[w]
         \/ \E i \in DOMAIN rows[c] :
              /\ Decides(rows[c], i, w)
              /\ wallets'[w] # None => wallets'[w].balance = rows[c][i].after
<1>1. /\ pc[c] = "commit" /\ wallets'[w] = Visible(c, w)
      /\ rows[c] = RowsFor(msg[c], src[c], dst[c])
  BY CommitRecords DEF Commit, TInv
<1>2. /\ msg[c] \in Message /\ src[c] \in Copy /\ (msg[c].type = "transfer" => dst[c] \in Copy)
      /\ Wrote("commit", msg[c], src[c], dst[c], pend[c], rows[c])
      /\ Applied("commit", msg[c], src[c], dst[c], pend[c], wallets)
  BY <1>1, WriterData DEF TInv, UpdatesApplied
<1>3. src[c].balance \in Int /\ (msg[c].type = "transfer" => dst[c].balance \in Int)
  BY <1>2, BoundsAssumption DEF Copy
<1> DEFINE S == {i \in DOMAIN rows[c] : rows[c][i].wallet = w}
<1>4. CASE S = {}
  <2>1. \A i \in DOMAIN rows[c] : rows[c][i].wallet # w
    BY <1>4
  <2>2. pend[c][w] = None
    BY <1>1, <1>2, <2>1, RowsForState DEF Wrote
  <2> QED BY <1>1, <2>1, <2>2 DEF Visible
<1>5. CASE S # {}
  <2>1. rows[c] \in Seq(Row)
    BY DEF IInv, TypeOK
  <2>2. Len(rows[c]) \in Nat /\ DOMAIN rows[c] = 1..Len(rows[c])
    BY <2>1
  <2>3. PICK i \in S : \A j \in S : j <= i
    BY <1>5, <2>2, LastIndex
  <2>4. Decides(rows[c], i, w)
    BY <2>3 DEF Decides
  <2>5. SetsTo(msg[c], src[c], dst[c], w, rows[c][i].after) /\ rows[c][i].after \in Int
    BY <1>1, <1>2, <1>3, <2>4, LastRowSets DEF Decides
  <2>6. Took(pend[c], w, rows[c][i].after, wallets)
    BY <1>2, <2>5 DEF Applied
  <2>7. wallets'[w] # None => wallets'[w].balance = rows[c][i].after
    BY <1>1, <2>6 DEF Took, Visible
  <2> QED BY <2>4, <2>7
<1> QED BY <1>4, <1>5

LEMMA NextRowsSettled ==
  ASSUME IInv, TInv, Owners, CopiesSettled, RowsSettled, [Next]_vars
  PROVE  RowsSettled'
<1>0. Shaped
  BY EveryStepShaped
<1>1. \A i \in DOMAIN ledger : ledger[i].wallet \in WalletId
  <2>1. ledger \in Seq(Row)
    BY DEF IInv, TypeOK
  <2>2. \A i \in DOMAIN ledger : ledger[i] \in Row
    BY <2>1
  <2> QED BY <2>2 DEF Row
<1>2. \A i \in DOMAIN ledger :
        SettledFor(Consumer, ledger[i].wallet, wallets', usedIds', pend')
  BY <1>0, <1>1, SettledForStays DEF RowsSettled
<1>3. CASE ledger' = ledger
  BY <1>2, <1>3 DEF RowsSettled
<1>4. ASSUME NEW c \in Consumer, Commit(c) PROVE RowsSettled'
  <2>1. /\ rows[c] = RowsFor(msg[c], src[c], dst[c]) /\ msg[c] \in Message /\ src[c] \in Copy
        /\ msg[c].type = "transfer" => dst[c] \in Copy
    BY <1>4, CommitRecords, WriterData DEF Commit, TInv
  <2>2. ASSUME NEW i \in DOMAIN rows[c]
        PROVE  SettledFor(Consumer, rows[c][i].wallet, wallets', usedIds', pend')
    <3> DEFINE w == rows[c][i].wallet
    <3>1. w \in WalletId /\ SettledIn(c, w, wallets, usedIds, pend)
      BY <2>1, RowsForWallets, DataAssumption DEF CopiesSettled, Copy
    <3>2. /\ UNCHANGED usedIds /\ wallets'[w] = Visible(c, w)
          /\ pend'[c][w] = None /\ \A d \in Consumer \ {c} : pend'[d] = pend[d]
      BY <1>4, <3>1 DEF Commit, Rollback, NoPending, IInv, TypeOK
    <3> HIDE DEF w
    <3>3. SettledFor(Consumer, w, wallets', usedIds', pend')
      BY <3>1, <3>2 DEF SettledIn, SettledFor, Visible
    <3> QED BY <3>3 DEF w
  <2>3. ledger \in Seq(Row) /\ rows[c] \in Seq(Row) /\ ledger' = ledger \o rows[c]
    BY <1>4 DEF Commit, IInv, TypeOK
  <2>4. ASSUME NEW i \in DOMAIN ledger'
        PROVE  \/ i \in DOMAIN ledger /\ ledger'[i] = ledger[i]
               \/ \E j \in DOMAIN rows[c] : ledger'[i] = rows[c][j]
    <3>1. CASE i \in DOMAIN ledger
      BY <2>3, <3>1
    <3>2. CASE i \notin DOMAIN ledger
      <4>1. i - Len(ledger) \in DOMAIN rows[c] /\ ledger'[i] = rows[c][i - Len(ledger)]
        BY <2>3, <3>2
      <4> QED BY <4>1
    <3> QED BY <3>1, <3>2
  <2> QED BY <1>2, <2>2, <2>4 DEF RowsSettled
<1> QED BY <1>0, <1>3, <1>4 DEF Shaped, Quiet, Updates, Inserts, Saves, tables

\* The last row of a wallet states its balance.
LastRowsStand ==
  \A w \in WalletId, i \in DOMAIN ledger :
    (wallets[w] # None /\ Decides(ledger, i, w)) => wallets[w].balance = ledger[i].after

LEMMA NextLastRows ==
  ASSUME IInv, TInv, UpdatesApplied, RowsSettled, LastRowsStand, [Next]_vars
  PROVE  LastRowsStand'
<1>1. Shaped
  BY EveryStepShaped
<1>2. CASE Quiet \/ \E c \in Consumer, x \in WalletId, row \in Wallet :
                      Updates(c, x, row) \/ Inserts(c, x, row)
  <2>1. UNCHANGED <<wallets, ledger>>
    BY <1>2 DEF Quiet, Updates, Inserts, tables
  <2> QED BY <2>1 DEF LastRowsStand, Decides
<1>3. ASSUME NEW x \in WalletId, NEW row \in Wallet, Saves(x, row) PROVE LastRowsStand'
  <2>1. \A i \in DOMAIN ledger : ledger[i].wallet # x
    BY <1>3 DEF Saves, RowsSettled, SettledFor
  <2>2. UNCHANGED ledger /\ \A w \in WalletId \ {x} : wallets'[w] = wallets[w]
    BY <1>3 DEF Saves, IInv, TypeOK
  <2> QED BY <2>1, <2>2 DEF LastRowsStand, Decides
<1>4. ASSUME NEW c \in Consumer, Commit(c) PROVE LastRowsStand'
  <2>1. ledger \in Seq(Row) /\ rows[c] \in Seq(Row) /\ ledger' = ledger \o rows[c]
    BY <1>4 DEF Commit, IInv, TypeOK
  <2> DEFINE n == Len(ledger)
  <2>2. /\ \A i \in DOMAIN ledger : i \in DOMAIN ledger' /\ ledger'[i] = ledger[i] /\ i <= n
        /\ \A j \in DOMAIN rows[c] :
             j > 0 /\ n + j \in DOMAIN ledger' /\ ledger'[n + j] = rows[c][j]
        /\ \A i \in DOMAIN ledger' : i \in Nat /\ (i \in DOMAIN ledger \/ i - n \in DOMAIN rows[c])
        /\ n \in Nat /\ DOMAIN rows[c] \subseteq Nat
    BY <2>1
  <2> HIDE DEF n
  <2> SUFFICES ASSUME NEW w \in WalletId, NEW i \in DOMAIN ledger', wallets'[w] # None,
                      ledger'[i].wallet = w,
                      \A j \in DOMAIN ledger' : ledger'[j].wallet = w => j <= i
               PROVE  wallets'[w].balance = ledger'[i].after
    BY DEF LastRowsStand, Decides
  <2>3. CASE (\A j \in DOMAIN rows[c] : rows[c][j].wallet # w) /\ wallets'[w] = wallets[w]
    <3>1. i \in DOMAIN ledger
      <4>1. ASSUME i - n \in DOMAIN rows[c] PROVE FALSE
        <5>1. ledger'[n + (i - n)] = rows[c][i - n] /\ n + (i - n) = i
          BY <2>2, <4>1
        <5> QED BY <2>3, <4>1, <5>1
      <4> QED BY <2>2, <4>1
    <3>2. Decides(ledger, i, w)
      BY <2>2, <3>1 DEF Decides
    <3> QED BY <2>2, <2>3, <3>1, <3>2 DEF LastRowsStand
  <2>4. ASSUME NEW j \in DOMAIN rows[c], Decides(rows[c], j, w),
               wallets'[w] # None => wallets'[w].balance = rows[c][j].after
        PROVE  wallets'[w].balance = ledger'[i].after
    <3>1. n + j <= i /\ ledger'[n + j] = rows[c][j]
      BY <2>2, <2>4 DEF Decides
    <3>2. i - n \in DOMAIN rows[c] /\ n + (i - n) = i
      BY <2>2, <3>1
    <3>3. ledger'[i] = rows[c][i - n]
      BY <2>2, <3>2
    <3>4. i - n <= j
      BY <2>4, <3>2, <3>3 DEF Decides
    <3>5. i = n + j
      BY <2>2, <3>1, <3>4
    <3> QED BY <2>4, <3>1, <3>5
  <2> QED BY <1>4, <2>3, <2>4, CommitWallet
<1> QED BY <1>1, <1>2, <1>3, <1>4 DEF Shaped

----------------------------------------------------------------------------
\* The invariant of this module, and the two results it was made for.

BookInv == CopiesSettled /\ UpdatesApplied /\ RowsSettled /\ LastRowsStand

LEMMA InitBook == Init => BookInv
<1> SUFFICES ASSUME Init PROVE BookInv
  OBVIOUS
<1>1. CopiesSettled
  BY DEF Init, CopiesSettled
<1>2. UpdatesApplied
  BY DEF Init, UpdatesApplied, Applied
<1>3. RowsSettled /\ LastRowsStand
  BY DEF Init, RowsSettled, LastRowsStand
<1> QED BY <1>1, <1>2, <1>3 DEF BookInv

LEMMA NextBook ==
  ASSUME SeparateStores, IInv, TInv, Owners, BalancesInv, BookInv, [Next]_vars
  PROVE  BookInv'
BY NextCopies, NextApplied, NextRowsSettled, NextLastRows DEF BookInv

LEMMA BookInvariant ==
  ASSUME SeparateStores
  PROVE  Spec => []BookInv
<1>1. IInv /\ TInv /\ Owners /\ BalancesInv /\ BookInv /\ [Next]_vars => BookInv'
  BY NextBook
<1> QED BY <1>1, InitBook, TablesInv, OwnersInv, BalancesInvariant, PTL DEF Spec

LEMMA StatementsStand == IInv /\ BookInv => StatementMatchesBalance
<1> SUFFICES ASSUME IInv, BookInv, NEW w \in WalletId, wallets[w] # None, RowsOf(w) # {}
             PROVE  wallets[w].balance = ledger[LastRow(w)].after
  BY DEF StatementMatchesBalance
<1>1. ledger \in Seq(Row)
  BY DEF IInv, TypeOK
<1>2. Len(ledger) \in Nat /\ RowsOf(w) \subseteq 1..Len(ledger)
  BY <1>1 DEF RowsOf
<1>3. \E i \in RowsOf(w) : \A j \in RowsOf(w) : j <= i
  BY <1>2, LastIndex
<1>4. LastRow(w) \in RowsOf(w) /\ \A j \in RowsOf(w) : j <= LastRow(w)
  BY <1>3 DEF LastRow
<1>5. LastRow(w) \in DOMAIN ledger /\ Decides(ledger, LastRow(w), w)
  BY <1>4 DEF RowsOf, Decides
<1> QED BY <1>5 DEF BookInv, LastRowsStand

\* A wallet's balance is the one its last transactions row states, stale copies,
\* phantom wallets and rollbacks included, whatever number of consumers runs, if
\* none shares its cache with another.
THEOREM StatementsMatchBalances ==
  ASSUME SeparateStores
  PROVE  Spec => []StatementMatchesBalance
BY StatementsStand, BookInvariant, TablesInv, PTL

\* A commit is a posting of the book.
LEMMA CommitPosts ==
  ASSUME IInv, TInv, BalancesInv, BookInv, KeysInv', NEW c \in Consumer, Commit(c)
  PROVE  Book!Post
<1>0. ledger' = ledger \o rows[c] /\ ledger \in Seq(Row) /\ rows[c] \in Seq(Row)
  BY DEF Commit, IInv, TypeOK
<1>1. pc[c] = "commit" /\ rows[c] = RowsFor(msg[c], src[c], dst[c])
  BY CommitRecords DEF Commit, TInv
<1>2. /\ msg[c] \in Message /\ src[c] \in Copy /\ (msg[c].type = "transfer" => dst[c] \in Copy)
      /\ Applied("commit", msg[c], src[c], dst[c], pend[c], wallets)
  BY <1>1, WriterData DEF TInv, BookInv, UpdatesApplied
<1>3. /\ src[c].balance >= 0 /\ (msg[c].type = "transfer" => dst[c].balance >= 0)
      /\ msg[c].type # "deposit" => src[c].balance >= msg[c].amount
  BY <1>2, DataAssumption DEF BalancesInv, NotNegative, Applied
<1>4. /\ Len(rows[c]) \in 1..2 /\ Book!Posting(rows[c])
      /\ \A i \in DOMAIN rows[c] : rows[c][i].after >= 0
  BY <1>1, <1>2, <1>3, RowsForPosting
<1> DEFINE n == Len(rows[c])
<1>5. /\ Len(ledger') = Len(ledger) + n
      /\ SubSeq(ledger', 1, Len(ledger)) = ledger
      /\ SubSeq(ledger', Len(ledger) + 1, Len(ledger) + n) = rows[c]
  <2>1. Len(ledger') = Len(ledger) + n
    BY <1>0
  <2>2. SubSeq(ledger', 1, Len(ledger)) = ledger
    BY <1>0
  <2>3. SubSeq(ledger', Len(ledger) + 1, Len(ledger) + n) = rows[c]
    BY <1>0, <1>4
  <2> QED BY <2>1, <2>2, <2>3
<1>6. Book!KeysUnique(ledger')
  BY DEF KeysInv, KeyUsedOnce, Unique, Book!KeysUnique
<1>7. ASSUME NEW w \in WalletId
      PROVE  \/ /\ Balances(wallets)'[w] = Balances(wallets)[w]
                /\ Balances(wallets)[w] = None \/ Book!Deciding(rows[c], w) = {}
             \/ \E i \in Book!Deciding(rows[c], w) : Balances(wallets)'[w] = rows[c][i].after
  <2>1. /\ wallets'[w] = Visible(c, w)
        /\ Balances(wallets)[w] = IF wallets[w] = None THEN None ELSE wallets[w].balance
        /\ Balances(wallets)'[w] = IF wallets'[w] = None THEN None ELSE wallets'[w].balance
    BY DEF Commit, Balances
  <2>2. CASE (\A i \in DOMAIN rows[c] : rows[c][i].wallet # w) /\ wallets'[w] = wallets[w]
    BY <2>1, <2>2 DEF Book!Deciding
  <2>3. ASSUME NEW i \in DOMAIN rows[c], Decides(rows[c], i, w),
               wallets'[w] # None => wallets'[w].balance = rows[c][i].after
        PROVE  \/ Balances(wallets)'[w] = Balances(wallets)[w] /\ Balances(wallets)[w] = None
               \/ \E k \in Book!Deciding(rows[c], w) : Balances(wallets)'[w] = rows[c][k].after
    <3>1. i \in Book!Deciding(rows[c], w)
      BY <2>3 DEF Decides, Book!Deciding
    <3>2. wallets'[w] = None => wallets[w] = None
      BY <2>1 DEF Visible
    <3> QED BY <2>1, <2>3, <3>1, <3>2
  <2> QED BY <2>2, <2>3, CommitWallet DEF BookInv
<1> DEFINE es == SubSeq(ledger', Len(ledger) + 1, Len(ledger) + n)
<1>8. es = rows[c] /\ n \in 1..2
  BY <1>4, <1>5
<1> HIDE DEF n
<1>9. /\ Book!Posting(es) /\ \A i \in DOMAIN es : es[i].after >= 0
      /\ \A w \in WalletId :
           \/ /\ Balances(wallets)'[w] = Balances(wallets)[w]
              /\ Balances(wallets)[w] = None \/ Book!Deciding(es, w) = {}
           \/ \E i \in Book!Deciding(es, w) : Balances(wallets)'[w] = es[i].after
  <2> HIDE DEF es
  <2> QED BY <1>4, <1>7, <1>8
<1> QED BY <1>5, <1>6, <1>8, <1>9 DEF Book!Post

LEMMA StepIsBooked ==
  IInv /\ TInv /\ Owners /\ BalancesInv /\ BookInv /\ KeysInv' /\ [Next]_vars
    => [Book!Next]_<<Balances(wallets), ledger>>
<1> SUFFICES ASSUME IInv, TInv, Owners, BalancesInv, BookInv, KeysInv', [Next]_vars
             PROVE  [Book!Next]_<<Balances(wallets), ledger>>
  OBVIOUS
<1>1. Shaped
  BY EveryStepShaped
<1>2. CASE Quiet \/ \E c \in Consumer, x \in WalletId, row \in Wallet :
                      Updates(c, x, row) \/ Inserts(c, x, row)
  <2>1. UNCHANGED <<wallets, ledger>>
    BY <1>2 DEF Quiet, Updates, Inserts, tables
  <2> QED BY <2>1 DEF Balances
<1>3. ASSUME NEW x \in WalletId, NEW row \in Wallet, Saves(x, row) PROVE Book!Open(x)
  <2>1. /\ wallets[x] = None /\ row # None /\ row.balance = 0 /\ ledger' = ledger
        /\ wallets' = [wallets EXCEPT ![x] = row]
    BY <1>3, DataAssumption DEF Saves, Owners, IdsUsed
  <2>2. /\ wallets'[x] = row /\ \A w \in WalletId \ {x} : wallets'[w] = wallets[w]
    BY <2>1 DEF IInv, TypeOK
  <2>3. Balances(wallets)[x] = None
    BY <2>1 DEF Balances
  <2>4. Balances(wallets)' = [Balances(wallets) EXCEPT ![x] = 0]
    <3>1. wallets'[x] # None /\ wallets'[x].balance = 0
      BY <2>1, <2>2
    <3>2. \A w \in WalletId :
            (IF wallets'[w] = None THEN None ELSE wallets'[w].balance)
              = IF w = x THEN 0 ELSE IF wallets[w] = None THEN None ELSE wallets[w].balance
      BY <2>2, <3>1
    <3> QED BY <3>2 DEF Balances
  <2> QED BY <2>1, <2>3, <2>4 DEF Book!Open
<1>4. ASSUME NEW c \in Consumer, Commit(c) PROVE Book!Next
  BY <1>4, CommitPosts DEF Book!Next
<1> QED BY <1>1, <1>2, <1>3, <1>4 DEF Shaped, Book!Next

\* The service implements the account book: whatever handlers, creation
\* requests, faults and evictions do, a reader of the two tables sees wallets
\* opened empty and postings made whole, each balance the one its last row
\* states, no key twice and nothing below zero.
THEOREM BookImplemented ==
  ASSUME SeparateStores
  PROVE  Spec => ImplementsAccountBook
<1>1. Init => Book!Init
  BY DEF Init, Book!Init
<1> QED BY <1>1, StepIsBooked, BookInvariant, TablesInv, OwnersInv, BalancesInvariant,
           KeysInvariant, PTL DEF Spec, ImplementsAccountBook, Book!Spec

----------------------------------------------------------------------------
\* A single consumer, which is what one process runs: prefetch(1).  No other
\* handler commits between the reads of a transfer and its commit.

OneConsumer == \A c, d \in Consumer : c = d

Exact(copy, w, table) ==
  copy.id = w /\ table[w] # None /\ copy.balance = table[w].balance

FreshAt(at, m, s, d, table) ==
  /\ (at = "transferTo" /\ s # None) => Exact(s, m.from, table)
  /\ \/ at \in {"transferKey", "transferDebit", "transferCredit"}
     \/ at \in {"insertRows", "commit"} /\ m.type = "transfer"
     => Exact(s, m.from, table) /\ Exact(d, m.to, table)

TransfersFresh == \A c \in Consumer : FreshAt(pc[c], msg[c], src[c], dst[c], wallets)

LEMMA ExactStays ==
  ASSUME IInv, Owners, Shaped, \A c \in Consumer : ~Commit(c),
         NEW copy, NEW w \in WalletId, Exact(copy, w, wallets)
  PROVE  Exact(copy, w, wallets')
<1>1. wallets[w] # None
  BY DEF Exact
<1>2. wallets'[w] = wallets[w]
  <2>1. CASE Quiet \/ \E c \in Consumer, x \in WalletId, row \in Wallet :
                        Updates(c, x, row) \/ Inserts(c, x, row)
    BY <2>1 DEF Quiet, Updates, Inserts, tables
  <2>2. ASSUME NEW x \in WalletId, NEW row \in Wallet, Saves(x, row)
        PROVE  wallets'[w] = wallets[w]
    BY <1>1, <2>2 DEF Saves, Owners, IdsUsed, IInv, TypeOK
  <2> QED BY <2>1, <2>2 DEF Shaped
<1> QED BY <1>2 DEF Exact

\* The consumer moves from a location to another with the same copies.
LEMMA SameCopies ==
  ASSUME IInv, Owners, Shaped, \A c \in Consumer : ~Commit(c), OneConsumer,
         NEW c \in Consumer, TransfersFresh,
         msg'[c] = msg[c], src'[c] = src[c], dst'[c] = dst[c],
         \/ pc'[c] = pc[c]
         \/ pc'[c] \notin TransferAt \cup {"insertRows", "commit"}
         \/ pc'[c] = "insertRows" /\ pc[c] # "transferCredit" /\ msg[c].type # "transfer"
         \/ pc[c] = "transferKey" /\ pc'[c] = "transferDebit"
         \/ pc[c] = "transferDebit" /\ pc'[c] = "transferCredit"
         \/ pc[c] = "transferCredit" /\ pc'[c] = "insertRows"
         \/ pc[c] = "insertRows" /\ pc'[c] = "commit"
  PROVE  TransfersFresh'
<1>1. FreshAt(pc[c], msg[c], src[c], dst[c], wallets)
  BY DEF TransfersFresh
<1>2. CASE pc[c] = "idle" \/ msg[c] \notin Message
  BY <1>1, <1>2 DEF TransfersFresh, FreshAt, OneConsumer, IInv, Loaded, Ready, TransferAt
<1>3. CASE msg[c] \in Message
  <2>1. msg[c].from \in WalletId /\ msg[c].to \in WalletId
    BY <1>3, MessageType
  <2>2. \A copy : /\ Exact(copy, msg[c].from, wallets) => Exact(copy, msg[c].from, wallets')
                  /\ Exact(copy, msg[c].to, wallets) => Exact(copy, msg[c].to, wallets')
    BY <2>1, ExactStays
  <2>3. FreshAt(pc'[c], msg'[c], src'[c], dst'[c], wallets')
    BY <1>1, <2>2 DEF FreshAt, TransferAt
  <2> QED BY <2>3 DEF TransfersFresh, OneConsumer
<1> QED BY <1>2, <1>3

\* The consumer moves to a location that relies on no copy.
LEMMA NoTransfer ==
  ASSUME OneConsumer, NEW c \in Consumer,
         pc'[c] \notin {"transferTo", "transferKey", "transferDebit", "transferCredit",
                        "insertRows", "commit"}
  PROVE  TransfersFresh'
BY DEF TransfersFresh, FreshAt, OneConsumer

LEMMA TransferFresh ==
  ASSUME IInv, TInv, Owners, OneConsumer, NEW c \in Consumer, TransfersFresh, Transfer(c)
  PROVE  TransfersFresh'
<1>0. Shaped /\ \A d \in Consumer : ~Commit(d)
  <2>1. Shaped
    BY HandlerShape
  <2>2. pc[c] # "commit"
    BY DEF Transfer, TransferReadFrom, TransferReadTo, TransferCheckKey, TransferDebit,
           TransferCredit
  <2> QED BY <2>1, <2>2 DEF Commit, OneConsumer
<1>1. ASSUME Throw(c) \/ SkipDuplicate(c) PROVE TransfersFresh'
  <2>1. pc'[c] \in {"threw", "returned"}
    BY <1>1 DEF Throw, CatchError, SkipDuplicate, Goto, IInv, TypeOK
  <2> QED BY <2>1, NoTransfer
<1>2. /\ msg[c] \in Message /\ msg[c].from \in WalletId /\ msg[c].to \in WalletId
      /\ msg[c].type = "transfer"
  BY MessageType
     DEF Transfer, TransferReadFrom, TransferReadTo, TransferCheckKey, TransferDebit,
         TransferCredit, IInv, Loaded, Ready, TransferAt
<1>3. Wrote(pc[c], msg[c], src[c], dst[c], pend[c], rows[c])
  BY DEF TInv, Written
<1>4. CASE TransferReadFrom(c)
  <2> DEFINE row == Visible(c, msg[c].from)
             copy == IF row = None THEN None ELSE CopyOf(msg[c].from, row)
  <2>1. /\ src' = [src EXCEPT ![c] = copy] /\ pc' = [pc EXCEPT ![c] = "transferTo"]
        /\ UNCHANGED <<wallets, msg>>
    BY <1>4 DEF TransferReadFrom, Load, Goto, tables
  <2>2. row = wallets[msg[c].from]
    BY <1>2, <1>3, <1>4 DEF TransferReadFrom, Wrote, WritingAt, Visible
  <2>3. copy # None => Exact(copy, msg[c].from, wallets)
    BY <2>2 DEF CopyOf, Exact
  <2> HIDE DEF copy
  <2>4. pc'[c] = "transferTo" /\ src'[c] = copy
    BY <2>1 DEF IInv, TypeOK
  <2> QED BY <2>1, <2>3, <2>4 DEF TransfersFresh, FreshAt, OneConsumer
<1>5. CASE TransferReadTo(c) /\ ~Throw(c)
  <2>1. /\ dst' = [dst EXCEPT ![c] = CopyOf(msg[c].to, Visible(c, msg[c].to))]
        /\ pc' = [pc EXCEPT ![c] = "transferKey"] /\ pc[c] = "transferTo"
        /\ src[c] # None /\ Visible(c, msg[c].to) # None /\ UNCHANGED <<wallets, msg, src>>
    BY <1>5 DEF TransferReadTo, Goto, tables
  <2>2. Visible(c, msg[c].to) = wallets[msg[c].to]
    BY <1>2, <1>3, <2>1 DEF Wrote, WritingAt, Visible
  <2>3. Exact(CopyOf(msg[c].to, Visible(c, msg[c].to)), msg[c].to, wallets)
    BY <2>1, <2>2 DEF CopyOf, Exact
  <2>4. Exact(src[c], msg[c].from, wallets)
    BY <2>1 DEF TransfersFresh, FreshAt
  <2>5. pc'[c] = "transferKey" /\ dst'[c] = CopyOf(msg[c].to, Visible(c, msg[c].to))
    BY <2>1 DEF IInv, TypeOK
  <2> QED BY <2>1, <2>3, <2>4, <2>5 DEF TransfersFresh, FreshAt, OneConsumer
<1>6. CASE TransferCheckKey(c) /\ Proceed(c, "transferDebit")
  <2>1. /\ pc'[c] = "transferDebit" /\ pc[c] = "transferKey" /\ UNCHANGED <<msg, src, dst>>
    BY <1>6 DEF TransferCheckKey, Proceed, Goto, locals, IInv, TypeOK
  <2> QED BY <1>0, <2>1, SameCopies
<1>7. CASE TransferDebit(c)
  <2>1. /\ pc'[c] = "transferCredit" /\ pc[c] = "transferDebit" /\ UNCHANGED <<msg, src, dst>>
    BY <1>7 DEF TransferDebit, UpdateBalance, UpdateWallet, Goto, locals, IInv, TypeOK
  <2> QED BY <1>0, <2>1, SameCopies
<1>8. CASE TransferCredit(c) /\ UpdateBalance(c, dst[c].id, Credited(c), "insertRows")
  <2>1. /\ pc'[c] = "insertRows" /\ pc[c] = "transferCredit" /\ UNCHANGED <<msg, src, dst>>
    BY <1>8 DEF TransferCredit, UpdateBalance, UpdateWallet, Goto, locals, IInv, TypeOK
  <2> QED BY <1>0, <2>1, SameCopies
<1> QED BY <1>1, <1>4, <1>5, <1>6, <1>7, <1>8 DEF Transfer, TransferCheckKey, TransferCredit

LEMMA NextFresh ==
  ASSUME IInv, TInv, Owners, OneConsumer, TransfersFresh, [Next]_vars
  PROVE  TransfersFresh'
<1>0. Shaped
  BY EveryStepShaped
<1>1. ASSUME NEW c \in Consumer,
             \/ Throw(c) \/ SkipDuplicate(c) \/ AwaitFails(c) \/ Crash(c) \/ DeadlockVictim(c)
             \/ Refresh(c) \/ Settle(c) \/ Commit(c) \/ DepositCreateWallet(c)
      PROVE  TransfersFresh'
  <2>1. pc'[c] \in {"threw", "returned", "idle", "refresh", "depositFill"}
    BY <1>1 DEF Throw, SkipDuplicate, AwaitFails, Crash, DeadlockVictim, CatchError, Leave,
                Refresh, Settle, Commit, DepositCreateWallet, Goto, IInv, TypeOK
  <2> QED BY <2>1, NoTransfer
<1>2. ASSUME NEW c \in Consumer, NEW at \in DepositAt \cup WithdrawAt,
             Proceed(c, at) \/ FillWalletCache(c, at) \/ \E copy : Load(c, copy, at)
      PROVE  TransfersFresh'
  <2>1. pc'[c] = at
    BY <1>2 DEF Proceed, FillWalletCache, Load, Goto, IInv, TypeOK
  <2> QED BY <2>1, NoTransfer DEF DepositAt, WithdrawAt
<1>3. ASSUME NEW c \in Consumer, pc[c] \notin {"transferCredit", "commit"},
             msg[c].type # "transfer",
             \E w, b, v : UpdateWallet(c, w, b, v, "insertRows")
      PROVE  TransfersFresh'
  <2>1. pc'[c] = "insertRows" /\ UNCHANGED <<msg, src, dst>>
    BY <1>3 DEF UpdateWallet, Goto, locals, IInv, TypeOK
  <2>2. \A d \in Consumer : ~Commit(d)
    BY <1>3 DEF Commit, OneConsumer
  <2> QED BY <1>0, <1>3, <2>1, <2>2, SameCopies
<1>4. ASSUME NEW c \in Consumer, Deposit(c) PROVE TransfersFresh'
  <2>1. CASE DepositUpdate(c)
    <3>1. msg[c].type = "deposit" /\ pc[c] = "depositUpdate"
      BY <2>1, WriterData DEF DepositUpdate, TInv
    <3> QED BY <1>1, <1>3, <2>1, <3>1 DEF DepositUpdate
  <2> QED BY <1>1, <1>2, <1>4, <2>1
          DEF Deposit, DepositCheckKey, DepositReadCache, DepositFindWallet, DepositFillCache,
              DepositAt
<1>5. ASSUME NEW c \in Consumer, Withdraw(c) PROVE TransfersFresh'
  <2>1. CASE WithdrawUpdate(c)
    <3>1. msg[c].type = "withdraw" /\ pc[c] = "withdrawUpdate"
      BY <2>1, WriterData DEF WithdrawUpdate, TInv
    <3> QED BY <1>3, <2>1, <3>1 DEF WithdrawUpdate, UpdateBalance
  <2> QED BY <1>1, <1>2, <1>5, <2>1
          DEF Withdraw, WithdrawReadCache, WithdrawFindWallet, WithdrawFillCache,
              WithdrawCheckKey, WithdrawAt
<1>6. ASSUME NEW c \in Consumer, InsertRows(c), ~Throw(c) PROVE TransfersFresh'
  <2>1. pc[c] = "insertRows" /\ pc'[c] = "commit" /\ UNCHANGED <<msg, src, dst>>
    BY <1>6 DEF InsertRows, Goto, locals, IInv, TypeOK
  <2>2. \A d \in Consumer : ~Commit(d)
    BY <2>1 DEF Commit, OneConsumer
  <2> QED BY <1>0, <2>1, <2>2, SameCopies
<1>7. ASSUME NEW c \in Consumer, NEW m \in Message, Deliver(c, m) PROVE TransfersFresh'
  <2>1. pc'[c] \in {"depositKey", "withdrawCache", "transferFrom"}
    BY <1>7, MessageType DEF Deliver, Goto, IInv, TypeOK
  <2> QED BY <2>1, NoTransfer
<1>8. ASSUME UNCHANGED <<pc, msg, src, dst>>, \A c \in Consumer : ~Commit(c)
      PROVE  TransfersFresh'
  <2>1. ASSUME NEW c \in Consumer PROVE TransfersFresh'
    BY <1>0, <1>8, <2>1, SameCopies
  <2> QED BY <2>1 DEF TransfersFresh
<1>9. ASSUME UNCHANGED pc PROVE \A c \in Consumer : ~Commit(c)
  BY <1>9 DEF Commit, Goto, IInv, TypeOK
<1>10. CASE UNCHANGED vars
  BY <1>8, <1>9, <1>10 DEF vars, locals
<1>11. ASSUME NEW q \in CreateRequest, Create(q) PROVE TransfersFresh'
  BY <1>8, <1>9, <1>11 DEF Create, CreateCheck, CreateSave, CreateFillCache, locals
<1>12. ASSUME NEW r \in Reader, Read(r) PROVE TransfersFresh'
  BY <1>8, <1>9, <1>12 DEF Read, ReadBalance, LookUpBalance, FillBalance, locals
<1>13. CASE Expire
  BY <1>8, <1>9, <1>13 DEF Expire, ExpireWallet, ExpireBalance, locals
<1> QED BY <1>1, <1>4, <1>5, <1>6, <1>7, <1>10, <1>11, <1>12, <1>13, TransferFresh
        DEF Next, Advance, Finish

\* With a single consumer a committed transfer between two wallets takes its
\* amount from the one and adds it to the other, exactly: no money appears or is
\* lost, whatever faults and redeliveries there are.
THEOREM TransfersConserve ==
  ASSUME OneConsumer
  PROVE  Spec => TransferConserves
<1>1. SeparateStores
  BY DEF OneConsumer, SeparateStores
<1>2. Init => TransfersFresh
  BY DEF Init, TransfersFresh, FreshAt
<1>3. IInv /\ TInv /\ Owners /\ TransfersFresh /\ [Next]_vars => TransfersFresh'
  BY NextFresh
<1>4. ASSUME IInv, TInv, BookInv, TransfersFresh, NEW c \in Consumer, Commit(c),
             msg[c].type = "transfer", msg[c].from # msg[c].to
      PROVE  Moves(msg[c])
  <2> DEFINE m == msg[c]
  <2>1. /\ pc[c] = "commit" /\ m \in Message
        /\ Applied("commit", m, src[c], dst[c], pend[c], wallets)
        /\ src[c] \in Copy /\ dst[c] \in Copy
    BY <1>4, WriterData DEF Commit, TInv, BookInv, UpdatesApplied
  <2>2. m.from \in WalletId /\ m.to \in WalletId /\ m.amount \in Nat
    BY <2>1, MessageType
  <2>3. Exact(src[c], m.from, wallets) /\ Exact(dst[c], m.to, wallets)
    BY <1>4, <2>1 DEF TransfersFresh, FreshAt
  <2>4. src[c].balance \in Int /\ dst[c].balance \in Int
    BY <2>1, BoundsAssumption DEF Copy
  <2>5. /\ SetsTo(m, src[c], dst[c], m.to, dst[c].balance + m.amount)
        /\ SetsTo(m, src[c], dst[c], m.from, src[c].balance - m.amount)
    BY <1>4, <2>3 DEF SetsTo, Exact
  <2>6. /\ Took(pend[c], m.to, dst[c].balance + m.amount, wallets)
        /\ Took(pend[c], m.from, src[c].balance - m.amount, wallets)
    <3>1. dst[c].balance + m.amount \in Int /\ src[c].balance - m.amount \in Int
      BY <2>2, <2>4
    <3> QED BY <2>1, <2>2, <2>5, <3>1 DEF Applied
  <2>7. /\ wallets'[m.to].balance = dst[c].balance + m.amount
        /\ wallets'[m.from].balance = src[c].balance - m.amount
    BY <1>4, <2>2, <2>3, <2>6 DEF Commit, Visible, Took, Exact
  <2> QED BY <2>3, <2>7 DEF Moves, Exact
<1>5. IInv /\ TInv /\ BookInv /\ TransfersFresh =>
        [\A c \in Consumer :
           (Commit(c) /\ msg[c].type = "transfer" /\ msg[c].from # msg[c].to)
             => Moves(msg[c])]_vars
  BY <1>4
<1>6. Spec => []BookInv
  BY <1>1, BookInvariant
<1> QED BY <1>2, <1>3, <1>5, <1>6, TablesInv, OwnersInv, PTL DEF Spec, TransferConserves

=============================================================================
