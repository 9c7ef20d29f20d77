---------------------------- MODULE WalletSystem ----------------------------
(***************************************************************************)
(* TransactionProcessor (src/src/modules/queue/processors/                  *)
(* transaction.processor.ts) awaiting WalletService: TransactionQueue and   *)
(* WalletService in one system, a handler of the queue being a handler of   *)
(* the service, with the pool of database connections each process has and  *)
(* shares between its handler and the HTTP requests it serves.  What those  *)
(* requests do to the tables and caches is left to WalletService's own runs *)
(* and to Api and TransactionHistory; here they take connections and give   *)
(* them back.                                                               *)
(***************************************************************************)
EXTENDS WalletProperties

CONSTANTS
  MaxLosses, \* bound: connections lost and processes crashed
  PoolSize,  \* connections in a process's pool (pg: 10)
  Serving,   \* bound: processes that HTTP requests reach
  MaxLent    \* bound: connections that the requests of a process hold at once

VARIABLES
  queue, dlq, unacked, consuming, up, open, wire, handling, accepted,
  arrived, returns, throws, losses, \* TransactionQueue's
  pool,   \* [c]: free connections in the process's pool
  lent,   \* [c]: connections that HTTP requests hold for a statement
  leaked, \* [c]: connections nobody holds and nobody will release
  applied \* history, [m]: times a handler of m added its rows to the ledger

Q == INSTANCE TransactionQueue WITH Process <- Consumer

service == vars
queueing == <<queue, dlq, unacked, consuming, up, open, wire, handling, accepted,
              arrived, returns, throws, losses>>
connections == <<pool, lent, leaked>>
system == <<service, queueing, connections, applied>>

ASSUME SystemAssumption ==
  /\ PoolSize \in Nat \ {0} /\ MaxLosses \in Nat
  /\ Serving \subseteq Consumer /\ MaxLent \in Nat
  /\ None \notin Ref \cup [m : Message, retries : Nat]

SystemInit ==
  /\ Init /\ Q!Init
  /\ pool = [c \in Consumer |-> PoolSize]
  /\ lent = [c \in Consumer |-> 0]
  /\ leaked = [c \in Consumer |-> 0]
  /\ applied = [m \in Message |-> 0]

----------------------------------------------------------------------------
\* A delivered copy that no handler has a query runner for yet.
Awaited(c) == handling[c] # None /\ pc[c] = "idle"

\* createQueryRunner, connect and startTransaction.  connect waits for a free
\* connection, without a timeout.
Begin(c) ==
  /\ Awaited(c) /\ pool[c] > 0
  /\ pool' = [pool EXCEPT ![c] = @ - 1]
  /\ Deliver(c, handling[c].m)
  /\ UNCHANGED <<queueing, lent, leaked, applied>>

\* They run before the try: when connect fails there is nothing to release, when
\* startTransaction fails nobody releases the connection.
BeginFails(c) ==
  /\ Awaited(c) /\ faults < MaxFaults /\ attempts[handling[c].m] < MaxAttempts
  /\ faults' = faults + 1
  /\ attempts' = [attempts EXCEPT ![handling[c].m] = @ + 1]
  /\ msg' = [msg EXCEPT ![c] = handling[c].m]
  /\ Goto(c, "threw")
  /\ \/ UNCHANGED connections
     \/ /\ pool[c] > 0
        /\ pool' = [pool EXCEPT ![c] = @ - 1]
        /\ leaked' = [leaked EXCEPT ![c] = @ + 1]
        /\ UNCHANGED lent
  /\ UNCHANGED <<tables, txns, caches, src, dst, api, queueing, applied>>

\* The key checks go through the repository, on a second connection.
ChecksKey(c) ==
  pc[c] \in {"depositKey", "withdrawKey", "transferKey"} /\ Truthy(msg[c].ref)

\* The repositories of the HTTP requests (the JWT lookup, registration and login,
\* createWallet, getBalance, the history) take a connection of the same pool for
\* each statement or save.  The pool serves who waits in order: a request that
\* comes later does not overtake a handler that waits.
Waits(c) == Awaited(c) \/ ChecksKey(c)
Borrow(c) ==
  /\ c \in Serving /\ up[c] /\ lent[c] < MaxLent
  /\ pool[c] > (IF Waits(c) THEN 1 ELSE 0)
  /\ pool' = [pool EXCEPT ![c] = @ - 1]
  /\ lent' = [lent EXCEPT ![c] = @ + 1]
  /\ UNCHANGED <<service, queueing, leaked, applied>>

\* The statement has ended, also one that waited for a handler's row.
GiveBack(c) ==
  /\ lent[c] > 0
  /\ lent' = [lent EXCEPT ![c] = @ - 1]
  /\ pool' = [pool EXCEPT ![c] = @ + 1]
  /\ UNCHANGED <<service, queueing, leaked, applied>>

\* finally: the query runner's connection goes back.
\* Mutant: no finally.
KeptOpen(c) == pool
Released(c) == [pool EXCEPT ![c] = IF pc'[c] \in {"returned", "threw"} THEN @ + 1 ELSE @]

\* A step of the running handler.
Run(c) ==
  /\ InHandler(c)
  /\ ChecksKey(c) => pool[c] > 0
  /\ Advance(c) \/ AwaitFails(c)
  /\ pool' = Released(c)
  /\ applied' = [applied EXCEPT ![msg[c]] = IF ledger' = ledger THEN @ ELSE @ + 1]
  /\ UNCHANGED <<queueing, lent, leaked>>

\* A process that ends takes its pool with it.
PoolAfter(c) ==
  /\ pool' = IF up'[c] THEN pool ELSE [pool EXCEPT ![c] = PoolSize]
  /\ lent' = IF up'[c] THEN lent ELSE [lent EXCEPT ![c] = 0]
  /\ leaked' = IF up'[c] THEN leaked ELSE [leaked EXCEPT ![c] = 0]
  /\ UNCHANGED applied

\* processMessage has awaited the handler: ack, or retry.
Acknowledge(c) ==
  /\ pc[c] = "returned" /\ Q!HandlerReturns(c)
  /\ Settle(c) /\ PoolAfter(c)
Retry(c) ==
  /\ pc[c] = "threw" /\ Q!HandlerThrows(c)
  /\ Settle(c) /\ PoolAfter(c)

\* The process dies with its handler, wherever that is.
Die(c) ==
  /\ Q!Crash(c) /\ PoolAfter(c)
  /\ \/ pc[c] = "idle" /\ UNCHANGED service
     \/ Crash(c)

\* What only concerns the queue: start, publish, deliver, lose the connection.
Queueing(c) ==
  /\ \/ Q!Start(c) \/ Q!BrokerReceive(c) \/ Q!Deliver(c) \/ Q!ConnectionLost(c)
     \/ c \in Serving /\ \E m \in Message : Q!AddToQueue(c, m)
  /\ UNCHANGED <<service, connections, applied>>

SystemNext ==
  \/ \E c \in Consumer : Begin(c) \/ BeginFails(c) \/ Run(c) \/ Acknowledge(c)
                           \/ Retry(c) \/ Die(c) \/ Queueing(c)
                           \/ Borrow(c) \/ GiveBack(c)
  \/ Expire /\ UNCHANGED <<queueing, connections, applied>>

SystemSpec == SystemInit /\ [][SystemNext]_system

\* As in the two components, and weaker: of the broker reading from a process and
\* delivering to it, its handler's next step and its restart, one of one process is
\* taken when there is one.
Progress(c) ==
  \/ UNCHANGED faults /\ Run(c)
  \/ Begin(c) \/ Acknowledge(c) \/ Retry(c)
  \/ /\ Q!BrokerReceive(c) \/ Q!Deliver(c) \/ Q!Start(c)
     /\ UNCHANGED <<service, connections, applied>>
\* Every statement of a request ends: handlers, whose rows it may wait for, do.
SystemFairness ==
  /\ WF_system(\E c \in Consumer : Progress(c))
  /\ \A c \in Consumer : WF_system(GiveBack(c))
FairSystemSpec == SystemSpec /\ SystemFairness

----------------------------------------------------------------------------
\* Queue and service together apply a request at least once before its ack, and
\* a referenced one once, across retries, redeliveries while the first handler
\* runs, and two messages with one reference (wallet.service.ts:153 and 193,
\* transaction.processor.ts:57-66).
Delivery == INSTANCE AtLeastOnce WITH
  Request <- Message, NoKey <- None,
  KeyOf <- [m \in Message |-> IF Truthy(m.ref) THEN m.ref ELSE None],
  done <- returns, refused <- {m \in Message : Q!InSeq(m, dlq)}
ImplementsAtLeastOnce == Delivery!Spec

\* An unreferenced message is applied a second time only by a failure: once for
\* each await that fails after the commit, connection lost or process crashed
\* between the commit and the ack's arrival (wallet.service.ts:199-213,
\* transaction.processor.ts:59).  A crash of a running handler is both a loss and
\* a fault, so the bound allows it one application more than it can cause.
AppliedBounded == \A m \in Message : applied[m] <= 1 + losses + faults

\* A handler that waits for a connection, or for a second one for its key check,
\* finds one free or waits for one that a request will give back, until all but one
\* of its process's connections have leaked: however its handlers ended, it waits
\* for none that a handler, itself included, did not give back.  And it waits
\* without a row of its own written: no request that it waits for waits for its
\* transaction (wallet.service.ts:147-154, 215, 234, 289, 321 and 394).
ConnectionsSuffice ==
  \A c \in Consumer :
    Waits(c) => /\ pend[c] = NoPending
                /\ pool[c] + lent[c] > 0 \/ leaked[c] + 1 >= PoolSize

\* While one process keeps consuming, every message the broker has had is handled
\* or dead-lettered in the end, by handlers that fail, lock each other out, and
\* leak a connection: no failure short of an empty pool stops the queue
\* (wallet.service.ts:147-149, transaction.processor.ts:29).  Neither arrived nor
\* Settled is ever undone.
MessagesSettle ==
  (\E c \in Consumer : <>[]consuming[c]) => <>[](\A m \in arrived : Q!Settled(m))

=============================================================================
