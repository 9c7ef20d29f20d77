-------------------------- MODULE WalletProperties --------------------------
(***************************************************************************)
(* What the wallet service promises, stated over the tables, the caches and *)
(* the running handlers of WalletService.                                   *)
(***************************************************************************)
EXTENDS WalletService

\* Every table, cache entry and handler variable holds what its column or its
\* TypeScript type allows: the decimal and bigint columns never hold a value
\* out of range, an open transaction's writes included.  A cached balance is
\* declared get<number> and may be a string all the same (wallet.service.ts:414).
TypeOK ==
  /\ wallets \in [WalletId -> Wallet \cup {None}]
  /\ ledger \in Seq(Row)
  /\ usedIds \subseteq WalletId
  /\ pend \in [Consumer -> [WalletId -> Wallet \cup {None}]]
  /\ rows \in [Consumer -> Seq(Row)]
  /\ walletCache \in [Store \X User \X Currency -> Copy \cup {None}]
  /\ balanceCache \in [Store \X WalletId -> CachedBalance \cup {None}]
  /\ pc \in [Consumer -> Location]
  /\ msg \in [Consumer -> Message \cup {None}]
  /\ src \in [Consumer -> Copy \cup {None}]
  /\ dst \in [Consumer -> Copy \cup {None}]
  /\ attempts \in [Message -> 0..MaxAttempts]
  /\ faults \in 0..MaxFaults
  /\ creating \in [CreateRequest -> [at : {"check", "save", "fill", "done"},
                                     id : WalletId \cup {None}]]
  /\ reading \in [Reader -> [at : {"lookup", "fill"}, id : WalletId,
                             balance : -MaxBalance..MaxBalance] \cup {None}]

----------------------------------------------------------------------------
\* Safety, whatever the number of consumers.

\* No wallet's balance goes below zero, although withdraw and transfer check a
\* local, possibly stale copy of it and write an absolute value, with no
\* constraint on the column (wallet.service.ts:250 and 315).
BalanceNonNegative == \A w \in WalletId : wallets[w] # None => wallets[w].balance >= 0

\* An idempotency key buys one transactions row: redeliveries, retries after a
\* failed await and two handlers past the key check at once never record a
\* reference twice (wallet.service.ts:153, 236 and 323).
KeyUsedOnce ==
  \A i, j \in DOMAIN ledger :
    (i # j /\ Unique(ledger[i].key)) => ledger[i].key # ledger[j].key

\* No user and no name gets two wallets, although deposits and creation requests
\* look for one and insert one with awaits between, the deposit's insert staying
\* uncommitted for longer still (wallet.service.ts:91-109 and 473-493).
OneWalletPerUser ==
  \A v, w \in WalletId :
    (v # w /\ wallets[v] # None /\ wallets[w] # None) =>
       wallets[v].user # wallets[w].user /\ wallets[v].name # wallets[w].name

\* A handler that returns, so that the processor acks, has its reference on
\* record: an ack never drops a referenced request (wallet.service.ts:157 and
\* 199, transaction.processor.ts:59).
ReturnedMeansRecorded ==
  \A c \in Consumer :
    (pc[c] = "returned" /\ Truthy(msg[c].ref)) => Recorded(msg[c].ref)

\* The balance cache only shows what the statement of the wallet can account for: a
\* string is a balance its rows state or it was opened with, a number is the sum
\* one of its deposit rows states, off by no more than that sum's own rounding.  No
\* uncommitted and no made up value is cached, across fills by deposits and by
\* balance requests that read before a commit and fill after it
\* (wallet.service.ts:172, 201 and 427).
RowsOf(w) == {i \in DOMAIN ledger : ledger[i].wallet = w}
HeldBalances(w) ==
  {0} \cup {ledger[i].after : i \in RowsOf(w)}
      \cup {Opening[v].balance : v \in {u \in {w} : Opening[u] # None}}
DepositSums(w) ==
  {AsNumber(ledger[i].before, ledger[i].after - ledger[i].before) :
     i \in {j \in RowsOf(w) : ledger[j].type = "deposit"}}
CachedBalanceWasHeld ==
  \A s \in Store, w \in WalletId :
    balanceCache[<<s, w>>] # None =>
      balanceCache[<<s, w>>] \in {AsString(b) : b \in HeldBalances(w)} \cup DepositSums(w)

----------------------------------------------------------------------------
\* Safety between processes with caches of their own. In a store that two of them
\* share, the first deposit of a user caches the wallet it has not committed, the
\* other process's deposit takes it from there, its update matches no row, and
\* both commit: a row without its money (wallet.service.ts:494).

\* The tables are an account book: balances and rows change together and whole,
\* both rows of a transfer or neither, no key twice, no balance below zero.
\* Crashes, failed awaits, stale copies, phantom wallets and waiting inserts
\* stay invisible (wallet.service.ts:177-199, 256-276 and 336-379).
Balances(table) == [w \in WalletId |-> IF table[w] = None THEN None ELSE table[w].balance]
Book == INSTANCE AccountBook WITH
  Account <- WalletId, Start <- Balances(Opening), SharedKey <- {FreshKey, NoKey},
  balance <- Balances(wallets), book <- ledger
ImplementsAccountBook == Book!Spec

\* A wallet's balance is the balanceAfter of its last transactions row, with stale
\* cached wallets and lost updates, since a handler records the balance it writes
\* and holds the row's lock until it commits (wallet.service.ts:177-198).
LastRow(w) == CHOOSE i \in RowsOf(w) : \A j \in RowsOf(w) : j <= i
StatementMatchesBalance ==
  \A w \in WalletId :
    (wallets[w] # None /\ RowsOf(w) # {}) => wallets[w].balance = ledger[LastRow(w)].after

----------------------------------------------------------------------------
\* Safety with a single consumer.

\* A committed transfer between two wallets takes its amount from the one and
\* adds it to the other: wallet reads that bypass the cache make it exact
\* (wallet.service.ts:299-342).  Amounts are whole cents here: fractions of a cent,
\* which @Min(0.01) lets through (transfer.dto.ts:18-21), are rounded twice.
Moves(m) ==
  /\ wallets'[m.from].balance = wallets[m.from].balance - m.amount
  /\ wallets'[m.to].balance = wallets[m.to].balance + m.amount
TransferConserves ==
  [][\A c \in Consumer :
       (Commit(c) /\ msg[c].type = "transfer" /\ msg[c].from # msg[c].to) => Moves(msg[c])]_vars

----------------------------------------------------------------------------
\* Liveness.

\* A handler always ends, with two transfers locking each other's wallets and
\* inserts waiting for each other's keys, so the consumer's only unacked
\* message is always settled (transaction.processor.ts:29 and 45).
HandlersFinish == \A c \in Consumer : pc[c] # "idle" ~> pc[c] = "idle"

\* Once the messages have been handled the cached balance agrees with the table,
\* to the cent, for good: entries filled from a row read before a commit expire.
BalanceCacheSettles ==
  <>[](\A s \in Store, w \in WalletId :
         (wallets[w] # None /\ balanceCache[<<s, w>>] # None) =>
            balanceCache[<<s, w>>].cents = wallets[w].balance)

----------------------------------------------------------------------------
\* What the documentation says and the code does not do.

\* The rows of a wallet chain: each starts from the balance the previous one
\* left (README: "Database transactions ensure data consistency").
LedgerChains ==
  \A i, j \in DOMAIN ledger :
    (/\ ledger[i].wallet = ledger[j].wallet /\ i < j
     /\ \A k \in (i + 1)..(j - 1) : ledger[k].wallet # ledger[i].wallet)
      => ledger[j].before = ledger[i].after

\* Every transactions row is a row of some wallet (Transaction.wallet).
RowHasWallet == \A i \in DOMAIN ledger : wallets[ledger[i].wallet] # None

\* A transfer that is delivered until it is recorded is recorded, given the
\* funds (README, Transaction Flow 5 and 6).
TransferRecorded ==
  \A m \in Message :
    m.type = "transfer" => <>(\E i \in DOMAIN ledger : ledger[i].wallet = m.from)

=============================================================================
