---------------------------- MODULE SystemProofs ----------------------------
(***************************************************************************)
(* Queue and wallet service in one system.  The composition keeps what each *)
(* component was proved to keep, for any processes, messages, pool sizes    *)
(* and bounds; and then what only the two together give: the effects of a   *)
(* message are bounded by its failures, and the system implements           *)
(* AtLeastOnce.                                                             *)
(*                                                                          *)
(* Every step of the system is a step of the queue or leaves it alone, and  *)
(* a step of the service or BeginFails, which is a delivery and a failed    *)
(* await at once.                                                           *)
(***************************************************************************)
EXTENDS WalletSystem, WalletBookProofs, FiniteSetTheorems

QP == INSTANCE QueueProofs WITH Process <- Consumer

USE DEF Location

----------------------------------------------------------------------------
\* The queue's part.

\* QP's copies of TransactionQueue's definitions are Q's.
LEMMA SameSteps ==
  ASSUME NEW c \in Consumer
  PROVE  /\ Q!Start(c) <=> QP!Start(c)
         /\ Q!BrokerReceive(c) <=> QP!BrokerReceive(c)
         /\ Q!Deliver(c) <=> QP!Deliver(c)
         /\ Q!ConnectionLost(c) <=> QP!ConnectionLost(c)
         /\ Q!Crash(c) <=> QP!Crash(c)
         /\ \A m \in Message : Q!AddToQueue(c, m) <=> QP!AddToQueue(c, m)
<1>1. Q!Start(c) <=> QP!Start(c)
  BY DEF Q!Start, QP!Start, Q!counts, QP!counts
<1>2. Q!BrokerReceive(c) <=> QP!BrokerReceive(c)
  BY DEF Q!BrokerReceive, QP!BrokerReceive, Q!process, QP!process, Q!counts, QP!counts
<1>3. Q!Deliver(c) <=> QP!Deliver(c)
  BY DEF Q!Deliver, QP!Deliver, Q!counts, QP!counts
<1>4. Q!ConnectionLost(c) <=> QP!ConnectionLost(c)
  BY DEF Q!ConnectionLost, QP!ConnectionLost, Q!Disconnected, QP!Disconnected, Q!counts, QP!counts
<1>5. Q!Crash(c) <=> QP!Crash(c)
  BY DEF Q!Crash, QP!Crash, Q!Disconnected, QP!Disconnected, Q!counts, QP!counts
<1>6. ASSUME NEW m \in Message PROVE Q!AddToQueue(c, m) <=> QP!AddToQueue(c, m)
  BY DEF Q!AddToQueue, QP!AddToQueue, Q!Publish, QP!Publish, Q!broker, QP!broker,
         Q!process, QP!process, Q!counts, QP!counts
<1> QED BY <1>1, <1>2, <1>3, <1>4, <1>5, <1>6

LEMMA SameEnds ==
  ASSUME NEW c \in Consumer
  PROVE  /\ Q!HandlerReturns(c) <=> QP!HandlerReturns(c)
         /\ Q!HandlerThrows(c) <=> QP!HandlerThrows(c)
<1>1. Q!HandlerReturns(c) <=> QP!HandlerReturns(c)
  BY DEF Q!HandlerReturns, QP!HandlerReturns, Q!DieUnhandled, QP!DieUnhandled, Q!DoneFrames,
         QP!DoneFrames, Q!Ack, QP!Ack, Q!broker, QP!broker
<1>2. ASSUME NEW copy PROVE Q!RetryFrames(copy) = QP!RetryFrames(copy)
  BY DEF Q!RetryFrames, QP!RetryFrames, Q!Ack, QP!Ack, Q!Again, QP!Again, Q!MaxRetries,
         QP!MaxRetries, Q!Publish, QP!Publish, Q!DeadLetter, QP!DeadLetter
<1>3. Q!HandlerThrows(c) <=> QP!HandlerThrows(c)
  BY <1>2 DEF Q!HandlerThrows, QP!HandlerThrows, Q!DieUnhandled, QP!DieUnhandled, Q!broker, QP!broker
<1> QED BY <1>1, <1>3

LEMMA QueueInit == SystemInit => QP!Init
BY DEF SystemInit, Q!Init, QP!Init

LEMMA QueueStep == [SystemNext]_system => [QP!Next]_QP!vars
<1> SUFFICES ASSUME [SystemNext]_system PROVE [QP!Next]_QP!vars
  OBVIOUS
<1>1. CASE UNCHANGED queueing
  BY <1>1 DEF queueing, QP!vars
<1>2. ASSUME NEW c \in Consumer, Acknowledge(c) \/ Retry(c) \/ Die(c) \/ Queueing(c)
      PROVE  QP!Next \/ UNCHANGED queueing
  BY <1>2, SameSteps, SameEnds DEF Acknowledge, Retry, Die, Queueing, QP!Next
<1>3. ASSUME NEW c \in Consumer, Begin(c) \/ BeginFails(c) \/ Run(c) \/ Borrow(c) \/ GiveBack(c)
      PROVE  UNCHANGED queueing
  BY <1>3 DEF Begin, BeginFails, Run, Borrow, GiveBack
<1> QED BY <1>1, <1>2, <1>3 DEF SystemNext, system

LEMMA SystemQueue == SystemSpec => QP!Spec
BY QueueInit, QueueStep, PTL DEF SystemSpec, QP!Spec

LEMMA SystemQueueInv == SystemSpec => [](QP!QInv /\ QP!Counted)
<1>1. QP!Spec => []QP!QInv
  BY QP!QueueInvariant, SystemAssumption
<1>2. QP!Spec => []QP!Counted
  BY QP!CountedInvariant, SystemAssumption
<1> QED BY <1>1, <1>2, SystemQueue, PTL

----------------------------------------------------------------------------
\* The service's part.  Its invariants hold across BeginFails too, and an idle
\* handler's process awaits none or has not begun.

\* A handler's message is the one its process awaits it for.
Awaiting(at, h, m) == at # "idle" => h # None /\ h.m = m
HandlersAwaited == \A c \in Consumer : Awaiting(pc[c], handling[c], msg[c])

ServiceInv == IInv /\ KeysInv /\ BalancesInv /\ TInv /\ Owners

LEMMA AwaitedMessage ==
  ASSUME QP!QInv, NEW c \in Consumer, handling[c] # None
  PROVE  handling[c] \in QP!Copy /\ handling[c].m \in Message
BY DEF QP!QInv, QP!TypeOK, QP!Copy

\* Begin is a delivery, Run, Acknowledge and Retry are steps of the handler.
LEMMA ServiceStep ==
  ASSUME QP!QInv, [SystemNext]_system
  PROVE  [Next]_vars \/ \E c \in Consumer : BeginFails(c)
<1>1. ASSUME NEW c \in Consumer, Begin(c) PROVE Next
  BY <1>1, AwaitedMessage DEF Begin, Awaited, Next
<1>2. ASSUME NEW c \in Consumer, Run(c) PROVE Next
  BY <1>2 DEF Run, Next
<1>3. ASSUME NEW c \in Consumer, Acknowledge(c) \/ Retry(c) PROVE Next
  BY <1>3 DEF Acknowledge, Retry, Next, Advance, Finish
<1>4. ASSUME NEW c \in Consumer, Die(c) \/ Queueing(c) \/ Borrow(c) \/ GiveBack(c)
      PROVE  [Next]_vars
  BY <1>4 DEF Die, Queueing, Borrow, GiveBack, Next, service
<1> QED BY <1>1, <1>2, <1>3, <1>4 DEF SystemNext, system, service, Next

\* What a failed connect or startTransaction leaves alone.
LEMMA BeginFailsEffect ==
  ASSUME QP!QInv, IInv, NEW c \in Consumer, BeginFails(c)
  PROVE  /\ UNCHANGED <<tables, txns, caches, src, dst, api>>
         /\ pc[c] = "idle" /\ pc'[c] = "threw" /\ msg'[c] \in Message
         /\ msg'[c] = handling[c].m /\ handling[c] # None
         /\ \A d \in Consumer \ {c} : pc'[d] = pc[d] /\ msg'[d] = msg[d]
         /\ pc' \in [Consumer -> Location] /\ msg' \in [Consumer -> Message \cup {None}]
         /\ attempts' \in [Message -> 0..MaxAttempts] /\ faults' \in 0..MaxFaults
         /\ faults' = faults + 1
<1>1. pc[c] = "idle" /\ handling[c] # None /\ handling[c].m \in Message
  BY AwaitedMessage DEF BeginFails, Awaited
<1>2. pc' = [pc EXCEPT ![c] = "threw"] /\ msg' = [msg EXCEPT ![c] = handling[c].m]
  BY DEF BeginFails, Goto
<1>3. faults' \in 0..MaxFaults /\ faults' = faults + 1
  BY BoundsAssumption DEF BeginFails, IInv, TypeOK
<1>4. attempts' \in [Message -> 0..MaxAttempts]
  <2>1. attempts[handling[c].m] + 1 \in 0..MaxAttempts
    BY <1>1, BoundsAssumption DEF BeginFails, IInv, TypeOK
  <2> QED BY <1>1, <2>1 DEF BeginFails, IInv, TypeOK
<1> QED BY <1>1, <1>2, <1>3, <1>4 DEF BeginFails, IInv, TypeOK

LEMMA BeginFailsService ==
  ASSUME QP!QInv, ServiceInv, NEW c \in Consumer, BeginFails(c)
  PROVE  ServiceInv'
<1>0. /\ IInv /\ TInv /\ UNCHANGED <<tables, txns, caches, src, dst, api>>
      /\ pc[c] = "idle" /\ pc'[c] = "threw" /\ msg'[c] \in Message
      /\ \A d \in Consumer \ {c} : pc'[d] = pc[d] /\ msg'[d] = msg[d]
      /\ pc' \in [Consumer -> Location] /\ msg' \in [Consumer -> Message \cup {None}]
      /\ attempts' \in [Message -> 0..MaxAttempts] /\ faults' \in 0..MaxFaults
  BY BeginFailsEffect DEF ServiceInv
<1>1. IInv'
  <2>1. TypeOK'
    BY <1>0 DEF IInv, TypeOK, tables, txns, caches, api
  <2>2. Loaded'
    BY <1>0 DEF IInv, Loaded, Ready, DepositAt, WithdrawAt, TransferAt, TailAt, api
  <2> QED BY <2>1, <2>2 DEF IInv
<1>2. KeysInv'
  BY <1>0, RowsOnlyDroppedKeys DEF RowsOnlyDropped, ServiceInv, tables, txns
<1>3. BalancesInv'
  BY <1>0 DEF ServiceInv, BalancesInv, NotNegative, tables, txns, caches
<1>4. TInv'
  <2>1. Only(c)
    BY <1>0 DEF Only, txns
  <2>2. Wrote(pc[c], msg[c], src[c], dst[c], pend[c], rows[c])
    BY <1>0 DEF TInv, Written
  <2>3. Wrote(pc'[c], msg'[c], src'[c], dst'[c], pend'[c], rows'[c])
    BY <1>0, <2>2 DEF Wrote, WritingAt, txns
  <2> QED BY <1>0, <2>1, <2>3, OwnStep DEF tables, caches, api
<1>5. Owners'
  BY <1>0, QuietOwners DEF Quiet, ServiceInv, txns
<1> QED BY <1>1, <1>2, <1>3, <1>4, <1>5 DEF ServiceInv

LEMMA ServiceInit == SystemInit => ServiceInv
BY InitInv, InitKeys, InitBalances, InitTables, InitOwners DEF SystemInit, ServiceInv

LEMMA ServiceNext == QP!QInv /\ ServiceInv /\ [SystemNext]_system => ServiceInv'
<1> SUFFICES ASSUME QP!QInv, ServiceInv, [SystemNext]_system PROVE ServiceInv'
  OBVIOUS
<1>1. CASE [Next]_vars
  BY <1>1, NextInv, NextKeys, NextBalances, NextTables, NextOwners DEF ServiceInv
<1> QED BY <1>1, ServiceStep, BeginFailsService

LEMMA SystemService == SystemSpec => []ServiceInv
BY ServiceInit, ServiceNext, SystemQueueInv, PTL DEF SystemSpec

\* With the caches of the processes apart the service keeps its book, too.
LEMMA BookNext ==
  ASSUME SeparateStores
  PROVE  QP!QInv /\ ServiceInv /\ BookInv /\ [SystemNext]_system => BookInv'
<1> SUFFICES ASSUME QP!QInv, ServiceInv, BookInv, [SystemNext]_system PROVE BookInv'
  OBVIOUS
<1>1. CASE [Next]_vars
  BY <1>1, NextBook DEF ServiceInv
<1>2. ASSUME NEW c \in Consumer, BeginFails(c) PROVE BookInv'
  <2>1. /\ UNCHANGED <<tables, txns, caches, src, dst, api>> /\ pc'[c] = "threw"
        /\ \A d \in Consumer \ {c} : pc'[d] = pc[d] /\ msg'[d] = msg[d]
    BY <1>2, BeginFailsEffect DEF ServiceInv
  <2>2. CopiesSettled'
    BY <2>1 DEF BookInv, CopiesSettled, SettledIn, SettledFor, tables, txns, caches, api
  <2>3. UpdatesApplied'
    <3> SUFFICES ASSUME NEW d \in Consumer
                 PROVE  Applied(pc'[d], msg'[d], src'[d], dst'[d], pend'[d], wallets')
      BY DEF UpdatesApplied
    <3>1. Applied(pc[d], msg[d], src[d], dst[d], pend[d], wallets)
      BY DEF BookInv, UpdatesApplied
    <3>2. CASE d = c
      BY <2>1, <3>2 DEF Applied
    <3> QED BY <2>1, <3>1, <3>2 DEF tables, txns
  <2>4. RowsSettled' /\ LastRowsStand'
    BY <2>1 DEF BookInv, RowsSettled, SettledFor, LastRowsStand, Decides, tables, txns
  <2> QED BY <2>2, <2>3, <2>4 DEF BookInv
<1> QED BY <1>1, <1>2, ServiceStep

LEMMA SystemBook ==
  ASSUME SeparateStores
  PROVE  SystemSpec => []BookInv
<1>1. SystemInit => BookInv
  BY InitBook DEF SystemInit
<1> QED BY <1>1, BookNext, SystemQueueInv, SystemService, PTL DEF SystemSpec

LEMMA SystemStepIsBooked ==
  QP!QInv /\ ServiceInv /\ ServiceInv' /\ BookInv /\ [SystemNext]_system
    => [Book!Next]_<<Balances(wallets), ledger>>
<1> SUFFICES ASSUME QP!QInv, ServiceInv, ServiceInv', BookInv, [SystemNext]_system
             PROVE  [Book!Next]_<<Balances(wallets), ledger>>
  OBVIOUS
<1>1. CASE [Next]_vars
  BY <1>1, StepIsBooked DEF ServiceInv
<1>2. ASSUME NEW c \in Consumer, BeginFails(c) PROVE UNCHANGED <<Balances(wallets), ledger>>
  BY <1>2 DEF BeginFails, tables, Balances
<1> QED BY <1>1, <1>2, ServiceStep

----------------------------------------------------------------------------
\* What a step of a running handler does to its location and to the ledger.

RunsOn(c) ==
  /\ UNCHANGED <<ledger, faults>>
  /\ pc[c] # "refresh" /\ pc'[c] \notin {"idle", "refresh", "returned"}
Skips(c) ==
  /\ UNCHANGED <<ledger, faults>>
  /\ pc[c] # "refresh" /\ pc'[c] = "returned" /\ Truthy(msg[c].ref)
Refreshes(c) ==
  /\ UNCHANGED <<ledger, faults>>
  /\ pc[c] = "refresh" /\ pc'[c] = "returned"
Fails(c) ==
  /\ UNCHANGED ledger /\ faults' = faults + 1
  /\ pc'[c] = "threw"
OneOf(c) == RunsOn(c) \/ Skips(c) \/ Commit(c) \/ Refreshes(c) \/ Fails(c)

\* Each of them is of one handler and of its message.
OwnMove(c) == msg' = msg /\ \A d \in Consumer \ {c} : pc'[d] = pc[d]

LEMMA AwaitShape ==
  ASSUME IInv, NEW c \in Consumer, pc[c] # "refresh",
         \/ Throw(c)
         \/ SkipDuplicate(c)
         \/ \E at : at \notin {"idle", "refresh", "returned"}
              /\ \/ Proceed(c, at) \/ FillWalletCache(c, at) \/ \E copy : Load(c, copy, at)
                 \/ \E w, b, v : UpdateWallet(c, w, b, v, at)
                 \/ \E w, b : UpdateBalance(c, w, b, at)
  PROVE  OwnMove(c) /\ (RunsOn(c) \/ Skips(c))
<1>1. CASE Throw(c)
  BY <1>1 DEF Throw, CatchError, Goto, tables, locals, bounds, RunsOn, OwnMove, IInv, TypeOK
<1>2. CASE SkipDuplicate(c)
  BY <1>2 DEF SkipDuplicate, Goto, tables, locals, bounds, Skips, OwnMove, IInv, TypeOK
<1>3. ASSUME NEW at, at \notin {"idle", "refresh", "returned"}, Proceed(c, at) \/ FillWalletCache(c, at)
      PROVE  OwnMove(c) /\ RunsOn(c)
  BY <1>3 DEF Proceed, FillWalletCache, Goto, tables, locals, bounds, RunsOn, OwnMove, IInv, TypeOK
<1>4. ASSUME NEW at, at \notin {"idle", "refresh", "returned"}, NEW copy, Load(c, copy, at)
      PROVE  OwnMove(c) /\ RunsOn(c)
  BY <1>4 DEF Load, Goto, tables, bounds, RunsOn, OwnMove, IInv, TypeOK
<1>5. ASSUME NEW at, at \notin {"idle", "refresh", "returned"}, NEW w, NEW b, NEW v,
             UpdateWallet(c, w, b, v, at)
      PROVE  OwnMove(c) /\ RunsOn(c)
  BY <1>5 DEF UpdateWallet, Goto, tables, locals, bounds, RunsOn, OwnMove, IInv, TypeOK
<1>6. ASSUME NEW at, at \notin {"idle", "refresh", "returned"}, NEW w, NEW b, UpdateBalance(c, w, b, at)
      PROVE  OwnMove(c) /\ RunsOn(c)
  BY <1>5, <1>6 DEF UpdateBalance
<1> QED BY <1>1, <1>2, <1>3, <1>4, <1>5, <1>6

LEMMA HandlerShapes ==
  ASSUME IInv, NEW c \in Consumer, Deposit(c) \/ Withdraw(c) \/ Transfer(c)
  PROVE  OwnMove(c) /\ OneOf(c)
<1>1. CASE DepositCreateWallet(c) /\ ~Throw(c)
  BY <1>1 DEF DepositCreateWallet, Goto, caches, bounds, RunsOn, OneOf, OwnMove, IInv, TypeOK
<1>2. CASE DepositFindWallet(c)
  <2>1. pc[c] # "refresh"
    BY <1>2 DEF DepositFindWallet
  <2> QED BY <1>2, <2>1, AwaitShape DEF DepositFindWallet, OneOf
<1>3. CASE TransferReadTo(c) /\ ~Throw(c)
  BY <1>3 DEF TransferReadTo, Goto, tables, bounds, RunsOn, OneOf, OwnMove, IInv, TypeOK
<1>4. CASE Deposit(c) /\ ~DepositFindWallet(c) /\ ~(DepositCreateWallet(c) /\ ~Throw(c))
  BY <1>4, AwaitShape DEF Deposit, DepositCheckKey, DepositReadCache, DepositCreateWallet,
     DepositFillCache, DepositUpdate, OneOf
<1>5. CASE Withdraw(c)
  BY <1>5, AwaitShape DEF Withdraw, WithdrawReadCache, WithdrawFindWallet, WithdrawFillCache,
     WithdrawCheckKey, WithdrawUpdate, OneOf
<1>6. CASE Transfer(c) /\ ~(TransferReadTo(c) /\ ~Throw(c))
  BY <1>6, AwaitShape DEF Transfer, TransferReadFrom, TransferReadTo, TransferCheckKey,
     TransferDebit, TransferCredit, OneOf
<1> QED BY <1>1, <1>2, <1>3, <1>4, <1>5, <1>6

LEMMA RunShape ==
  ASSUME IInv, NEW c \in Consumer, InHandler(c), Advance(c) \/ AwaitFails(c)
  PROVE  OwnMove(c) /\ OneOf(c)
<1>1. CASE Deposit(c) \/ Withdraw(c) \/ Transfer(c)
  BY <1>1, HandlerShapes
<1>2. CASE InsertRows(c)
  <2>1. pc[c] # "refresh"
    BY <1>2 DEF InsertRows
  <2>2. CASE Throw(c)
    BY <2>1, <2>2, AwaitShape DEF OneOf
  <2>3. CASE ~Throw(c)
    BY <1>2, <2>1, <2>3 DEF InsertRows, Goto, tables, locals, bounds, RunsOn, OneOf, OwnMove, IInv, TypeOK
  <2> QED BY <2>2, <2>3
<1>3. CASE Commit(c)
  BY <1>3 DEF Commit, Goto, locals, OneOf, OwnMove, IInv, TypeOK
<1>4. CASE Refresh(c)
  BY <1>4 DEF Refresh, Goto, tables, locals, bounds, Refreshes, OneOf, OwnMove, IInv, TypeOK
<1>5. CASE DeadlockVictim(c)
  <2>1. Throw(c)
    BY <1>5 DEF DeadlockVictim
  <2>2. \E d : WaitsFor(c, d)
    BY <1>5 DEF DeadlockVictim
  <2>3. pc[c] # "refresh"
    BY <2>2 DEF WaitsFor
  <2> QED BY <2>1, <2>3, AwaitShape DEF OneOf
<1>6. CASE AwaitFails(c)
  BY <1>6 DEF AwaitFails, CatchError, Goto, tables, locals, Fails, OneOf, OwnMove, IInv, TypeOK
<1>7. ~Settle(c)
  BY DEF Settle, InHandler
<1> QED BY <1>1, <1>2, <1>3, <1>4, <1>5, <1>6, <1>7 DEF Advance, Finish

----------------------------------------------------------------------------
\* A handler that runs is awaited.

LEMMA InitAwaited == SystemInit => HandlersAwaited
BY DEF SystemInit, Init, HandlersAwaited, Awaiting

LEMMA NextAwaited ==
  QP!QInv /\ ServiceInv /\ HandlersAwaited /\ [SystemNext]_system => HandlersAwaited'
<1> SUFFICES ASSUME QP!QInv, ServiceInv, HandlersAwaited, [SystemNext]_system
             PROVE  HandlersAwaited'
  OBVIOUS
<1>0. IInv /\ pc \in [Consumer -> Location] /\ msg \in [Consumer -> Message \cup {None}]
      /\ handling \in [Consumer -> QP!Copy \cup {None}]
  BY DEF ServiceInv, IInv, TypeOK, QP!QInv, QP!TypeOK
<1>1. ASSUME NEW c \in Consumer, Begin(c) PROVE HandlersAwaited'
  BY <1>0, <1>1 DEF HandlersAwaited, Awaiting, Begin, Awaited, Deliver, Goto, queueing
<1>2. ASSUME NEW c \in Consumer, BeginFails(c) PROVE HandlersAwaited'
  BY <1>0, <1>2 DEF HandlersAwaited, Awaiting, BeginFails, Awaited, Goto, queueing
<1>3. ASSUME NEW c \in Consumer, Run(c) PROVE HandlersAwaited'
  <2>1. OwnMove(c) /\ pc[c] # "idle" /\ handling' = handling
    BY <1>0, <1>3, RunShape DEF Run, InHandler, queueing
  <2> QED BY <2>1 DEF HandlersAwaited, Awaiting, OwnMove
<1>4. ASSUME NEW c \in Consumer, Acknowledge(c) \/ Retry(c) PROVE HandlersAwaited'
  <2>1. /\ pc' = [pc EXCEPT ![c] = "idle"] /\ msg' = [msg EXCEPT ![c] = None]
        /\ handling' = [handling EXCEPT ![c] = None]
    BY <1>4 DEF Acknowledge, Retry, Settle, Leave, Goto, Q!HandlerReturns, Q!HandlerThrows
  <2> QED BY <1>0, <2>1 DEF HandlersAwaited, Awaiting
<1>5. ASSUME NEW c \in Consumer, Die(c) PROVE HandlersAwaited'
  <2>1. handling' = [handling EXCEPT ![c] = None]
    BY <1>5 DEF Die, Q!Crash
  <2>2. CASE pc[c] = "idle" /\ UNCHANGED service
    BY <1>0, <2>1, <2>2 DEF HandlersAwaited, Awaiting, service, vars, locals
  <2>3. CASE Crash(c)
    BY <1>0, <2>1, <2>3 DEF HandlersAwaited, Awaiting, Crash, Leave, Goto
  <2> QED BY <1>5, <2>2, <2>3 DEF Die
<1>6. ASSUME NEW c \in Consumer, Queueing(c) PROVE HandlersAwaited'
  <2>1. UNCHANGED <<pc, msg>>
    BY <1>6 DEF Queueing, service, vars, locals
  <2>2. CASE Q!Deliver(c)
    <3>1. handling[c] = None
      BY <2>2, SameSteps, AwaitedMessage, QP!CopiesAreNotNone, SystemAssumption
      DEF Q!Deliver, QP!QInv, QP!ChannelOK
    <3>2. pc[c] = "idle" /\ \A d \in Consumer \ {c} : handling'[d] = handling[d]
      BY <1>0, <2>2, <3>1 DEF HandlersAwaited, Awaiting, Q!Deliver
    <3> QED BY <2>1, <3>2 DEF HandlersAwaited, Awaiting
  <2>3. CASE ~Q!Deliver(c)
    <3>1. handling' = handling
      BY <1>6, <2>3 DEF Queueing, Q!Start, Q!BrokerReceive, Q!ConnectionLost, Q!AddToQueue, Q!process
    <3> QED BY <2>1, <3>1 DEF HandlersAwaited, Awaiting
  <2> QED BY <2>2, <2>3
<1>7. ASSUME UNCHANGED <<pc, msg, handling>> PROVE HandlersAwaited'
  BY <1>7 DEF HandlersAwaited, Awaiting
<1>10. ASSUME NEW c \in Consumer, Borrow(c) \/ GiveBack(c) PROVE HandlersAwaited'
  BY <1>7, <1>10 DEF Borrow, GiveBack, service, vars, locals, queueing
<1>8. ASSUME Expire, UNCHANGED queueing PROVE HandlersAwaited'
  BY <1>7, <1>8 DEF Expire, ExpireWallet, ExpireBalance, locals, queueing
<1>9. CASE UNCHANGED system
  BY <1>7, <1>9 DEF system, service, vars, locals, queueing
<1> QED BY <1>1, <1>2, <1>3, <1>4, <1>5, <1>6, <1>8, <1>9, <1>10 DEF SystemNext

----------------------------------------------------------------------------
\* How often a message is applied.  Its handlers that have committed and not been
\* settled: those at "refresh" and "returned", as functions p and g give the
\* locations and the messages.
Committed(p, g, m) == {c \in Consumer : p[c] \in {"refresh", "returned"} /\ g[c] = m}
Counts(m) == IsFiniteSet(Committed(pc, msg, m)) /\ applied[m] \in Nat

\* Every application is behind a return, under way, or paid for by a fault.
AtMost(m) == applied[m] <= returns[m] + Cardinality(Committed(pc, msg, m)) + faults

\* Every return of an unreferenced message, and every one under way, is behind an
\* application of its own: only a referenced one is skipped.
AtLeast(m) == ~Truthy(m.ref) => returns[m] + Cardinality(Committed(pc, msg, m)) <= applied[m]

Sums == \A m \in Message : Counts(m) /\ AtMost(m) /\ AtLeast(m)

\* A handler of c moves: the set gains c, loses it, or stays.
Gains(A, B) == IsFiniteSet(B) /\ Cardinality(A) \in Nat /\ Cardinality(B) = Cardinality(A) + 1

LEMMA CommittedMoves ==
  ASSUME NEW p, NEW g, NEW q, NEW h, NEW c \in Consumer, NEW m,
         \A d \in Consumer \ {c} : q[d] = p[d] /\ h[d] = g[d],
         IsFiniteSet(Committed(p, g, m))
  PROVE  /\ (c \in Committed(p, g, m) <=> c \in Committed(q, h, m))
              => Committed(q, h, m) = Committed(p, g, m)
         /\ (c \notin Committed(p, g, m) /\ c \in Committed(q, h, m))
              => Gains(Committed(p, g, m), Committed(q, h, m))
         /\ (c \in Committed(p, g, m) /\ c \notin Committed(q, h, m))
              => Gains(Committed(q, h, m), Committed(p, g, m)) /\ IsFiniteSet(Committed(q, h, m))
<1> DEFINE A == Committed(p, g, m)
           B == Committed(q, h, m)
<1>1. \A d \in Consumer \ {c} : d \in A <=> d \in B
  BY DEF Committed
<1>2. A \subseteq Consumer /\ B \subseteq Consumer
  BY DEF Committed
<1> HIDE DEF A, B
<1>3. ASSUME c \in A <=> c \in B PROVE B = A
  BY <1>1, <1>2, <1>3
<1>4. ASSUME c \notin A, c \in B PROVE Gains(A, B)
  <2>1. B = A \cup {c}
    BY <1>1, <1>2, <1>4
  <2> QED BY <1>4, <2>1, FS_AddElement, FS_CardinalityType DEF A, Gains
<1>5. ASSUME c \in A, c \notin B PROVE Gains(B, A) /\ IsFiniteSet(B)
  <2>1. B = A \ {c}
    BY <1>1, <1>2, <1>5
  <2>2. IsFiniteSet(A)
    BY DEF A
  <2>3. IsFiniteSet(B) /\ Cardinality(B) = Cardinality(A) - 1
    BY <1>5, <2>1, <2>2, FS_RemoveElement
  <2>4. Cardinality(A) \in Nat /\ Cardinality(B) \in Nat
    BY <2>2, <2>3, FS_CardinalityType
  <2> QED BY <2>2, <2>3, <2>4 DEF Gains
<1> QED BY <1>3, <1>4, <1>5 DEF A, B

LEMMA InitSums == SystemInit => Sums
<1> SUFFICES ASSUME SystemInit, NEW m \in Message PROVE Counts(m) /\ AtMost(m) /\ AtLeast(m)
  BY DEF Sums
<1>1. Committed(pc, msg, m) = {}
  BY DEF SystemInit, Init, Committed
<1>2. IsFiniteSet({}) /\ Cardinality({}) = 0
  BY FS_EmptySet
<1>3. applied[m] = 0 /\ returns[m] = 0 /\ faults = 0
  BY DEF SystemInit, Init, Q!Init
<1> QED BY <1>1, <1>2, <1>3 DEF Counts, AtMost, AtLeast

LEMMA SumsTyped ==
  ASSUME QP!QInv, ServiceInv, Sums, NEW m \in Message
  PROVE  /\ applied[m] \in Nat /\ returns[m] \in Nat /\ faults \in Nat
         /\ IsFiniteSet(Committed(pc, msg, m)) /\ Cardinality(Committed(pc, msg, m)) \in Nat
         /\ applied[m] <= returns[m] + Cardinality(Committed(pc, msg, m)) + faults
         /\ ~Truthy(m.ref) => returns[m] + Cardinality(Committed(pc, msg, m)) <= applied[m]
<1>1. returns[m] \in Nat /\ faults \in Nat
  BY BoundsAssumption DEF QP!QInv, QP!TypeOK, ServiceInv, IInv, TypeOK
<1> QED BY <1>1, FS_CardinalityType DEF Sums, Counts, AtMost, AtLeast

\* The sums of one message after a step, in numbers.
LEMMA SumsPrimed ==
  ASSUME NEW m
  PROVE  /\ Counts(m)' <=> IsFiniteSet(Committed(pc', msg', m)) /\ applied'[m] \in Nat
         /\ AtMost(m)' <=>
              applied'[m] <= returns'[m] + Cardinality(Committed(pc', msg', m)) + faults'
         /\ AtLeast(m)' <=>
              (~Truthy(m.ref) =>
                 returns'[m] + Cardinality(Committed(pc', msg', m)) <= applied'[m])
BY DEF Counts, AtMost, AtLeast, Committed, Truthy

\* A step that keeps m's counts, or only pays a fault.
LEMMA SumsKept ==
  ASSUME QP!QInv, ServiceInv, Sums, NEW m \in Message,
         Committed(pc', msg', m) = Committed(pc, msg, m),
         applied'[m] = applied[m], returns'[m] = returns[m], faults' \in {faults, faults + 1}
  PROVE  (Counts(m) /\ AtMost(m) /\ AtLeast(m))'
<1> DEFINE k == Cardinality(Committed(pc, msg, m))
<1>1. /\ applied[m] \in Nat /\ returns[m] \in Nat /\ faults \in Nat /\ k \in Nat
      /\ IsFiniteSet(Committed(pc, msg, m))
      /\ applied[m] <= returns[m] + k + faults
      /\ ~Truthy(m.ref) => returns[m] + k <= applied[m]
  BY SumsTyped
<1> HIDE DEF k
<1>2. applied[m] <= returns[m] + k + faults'
  BY <1>1
<1> QED BY <1>1, <1>2, SumsPrimed DEF k

\* A handler of m leaves: it is acked, or fails.
LEMMA SumsLeave ==
  ASSUME QP!QInv, ServiceInv, Sums, NEW m \in Message,
         Gains(Committed(pc', msg', m), Committed(pc, msg, m)),
         IsFiniteSet(Committed(pc', msg', m)), applied'[m] = applied[m],
         \/ returns'[m] = returns[m] + 1 /\ faults' = faults
         \/ returns'[m] = returns[m] /\ faults' = faults + 1
  PROVE  (Counts(m) /\ AtMost(m) /\ AtLeast(m))'
<1> DEFINE k == Cardinality(Committed(pc, msg, m))
           l == Cardinality(Committed(pc', msg', m))
<1>1. /\ applied[m] \in Nat /\ returns[m] \in Nat /\ faults \in Nat
      /\ applied[m] <= returns[m] + k + faults
      /\ ~Truthy(m.ref) => returns[m] + k <= applied[m]
  BY SumsTyped
<1>2. k = l + 1 /\ l \in Nat
  BY DEF Gains
<1> HIDE DEF k, l
<1>3. applied[m] <= returns'[m] + l + faults'
  BY <1>1, <1>2
<1>4. ~Truthy(m.ref) => returns'[m] + l <= applied[m]
  BY <1>1, <1>2
<1> QED BY <1>1, <1>3, <1>4, SumsPrimed DEF l

\* A handler of m commits, or finds the reference recorded.
LEMMA SumsEnter ==
  ASSUME QP!QInv, ServiceInv, Sums, NEW m \in Message,
         Gains(Committed(pc, msg, m), Committed(pc', msg', m)),
         returns'[m] = returns[m], faults' = faults,
         applied'[m] = applied[m] + 1 \/ (applied'[m] = applied[m] /\ Truthy(m.ref))
  PROVE  (Counts(m) /\ AtMost(m) /\ AtLeast(m))'
<1> DEFINE k == Cardinality(Committed(pc, msg, m))
           l == Cardinality(Committed(pc', msg', m))
<1>1. /\ applied[m] \in Nat /\ returns[m] \in Nat /\ faults \in Nat
      /\ applied[m] <= returns[m] + k + faults
      /\ ~Truthy(m.ref) => returns[m] + k <= applied[m]
  BY SumsTyped
<1>2. l = k + 1 /\ k \in Nat /\ IsFiniteSet(Committed(pc', msg', m))
  BY DEF Gains
<1> HIDE DEF k, l
<1>3. applied'[m] <= returns'[m] + l + faults' /\ applied'[m] \in Nat
  BY <1>1, <1>2
<1>4. ~Truthy(m.ref) => returns'[m] + l <= applied'[m]
  BY <1>1, <1>2
<1> QED BY <1>2, <1>3, <1>4, SumsPrimed DEF l

\* A commit adds rows to the ledger, and every other step leaves it alone.
LEMMA CommitAppends ==
  ASSUME ServiceInv, NEW c \in Consumer, Commit(c)
  PROVE  ledger' # ledger
<1>1. ledger \in Seq(Row) /\ rows[c] \in Seq(Row) /\ ledger' = ledger \o rows[c]
  BY DEF ServiceInv, IInv, TypeOK, Commit
<1>2. rows[c] = RowsFor(msg[c], src[c], dst[c])
  BY CommitRecords DEF ServiceInv, TInv
<1>3. Len(rows[c]) > 0
  BY <1>2 DEF RowsFor
<1>4. Len(ledger') # Len(ledger)
  BY <1>1, <1>3
<1> QED BY <1>4

LEMMA RunApplies ==
  ASSUME ServiceInv, applied \in [Message -> Nat], NEW c \in Consumer, Run(c)
  PROVE  /\ msg[c] \in Message /\ pc[c] \notin {"idle", "returned", "threw"}
         /\ OwnMove(c) /\ OneOf(c) /\ UNCHANGED <<returns, handling, accepted, dlq>>
         /\ Commit(c) => applied' = [applied EXCEPT ![msg[c]] = @ + 1]
         /\ ~Commit(c) => applied' = applied
<1>1. msg[c] \in Message /\ pc[c] \notin {"idle", "returned", "threw"}
  BY DEF Run, InHandler, ServiceInv, IInv, Loaded, Ready
<1>2. OwnMove(c) /\ OneOf(c)
  BY RunShape DEF Run, ServiceInv
<1>3. Commit(c) => ledger' # ledger
  BY CommitAppends
<1>4. ~Commit(c) => ledger' = ledger
  BY <1>2 DEF OneOf, RunsOn, Skips, Refreshes, Fails
<1>5. applied' = [applied EXCEPT ![msg[c]] = IF ledger' = ledger THEN @ ELSE @ + 1]
      /\ UNCHANGED <<returns, handling, accepted, dlq>>
  BY DEF Run, queueing
<1> QED BY <1>1, <1>2, <1>3, <1>4, <1>5

LEMMA RunSums ==
  ASSUME QP!QInv, ServiceInv, applied \in [Message -> Nat], Sums, NEW m \in Message,
         NEW c \in Consumer, Run(c)
  PROVE  (Counts(m) /\ AtMost(m) /\ AtLeast(m))'
<1>1. /\ msg[c] \in Message /\ pc[c] \notin {"idle", "returned", "threw"}
      /\ OwnMove(c) /\ OneOf(c) /\ returns' = returns
      /\ Commit(c) => applied' = [applied EXCEPT ![msg[c]] = @ + 1]
      /\ ~Commit(c) => applied' = applied
  BY RunApplies
<1>2. IsFiniteSet(Committed(pc, msg, m))
  BY DEF Sums, Counts
<1>3. \A d \in Consumer \ {c} : pc'[d] = pc[d] /\ msg'[d] = msg[d]
  BY <1>1 DEF OwnMove
<1>4. /\ c \in Committed(pc, msg, m) <=> (pc[c] = "refresh" /\ msg[c] = m)
      /\ c \in Committed(pc', msg', m) <=> (pc'[c] \in {"refresh", "returned"} /\ msg[c] = m)
  BY <1>1 DEF Committed, OwnMove
<1>5. CASE RunsOn(c)
  <2>1. Committed(pc', msg', m) = Committed(pc, msg, m)
    BY <1>2, <1>3, <1>4, <1>5, CommittedMoves DEF RunsOn
  <2>2. applied' = applied /\ faults' = faults
    BY <1>1, <1>5, CommitAppends DEF RunsOn
  <2> QED BY <1>1, <2>1, <2>2, SumsKept
<1>6. CASE Skips(c)
  <2>1. applied' = applied /\ faults' = faults
    BY <1>1, <1>6, CommitAppends DEF Skips
  <2>2. CASE msg[c] = m
    <3>1. Gains(Committed(pc, msg, m), Committed(pc', msg', m))
      BY <1>2, <1>3, <1>4, <1>6, <2>2, CommittedMoves DEF Skips
    <3> QED BY <1>1, <1>6, <2>1, <2>2, <3>1, SumsEnter DEF Skips
  <2>3. CASE msg[c] # m
    <3>1. Committed(pc', msg', m) = Committed(pc, msg, m)
      BY <1>2, <1>3, <1>4, <2>3, CommittedMoves
    <3> QED BY <1>1, <2>1, <3>1, SumsKept
  <2> QED BY <2>2, <2>3
<1>7. CASE Commit(c)
  <2>1. pc[c] = "commit" /\ pc'[c] = "refresh" /\ faults' = faults
    BY <1>7 DEF Commit, Goto, bounds, ServiceInv, IInv, TypeOK
  <2>2. CASE msg[c] = m
    <3>1. Gains(Committed(pc, msg, m), Committed(pc', msg', m))
      BY <1>2, <1>3, <1>4, <2>1, <2>2, CommittedMoves
    <3>2. applied'[m] = applied[m] + 1
      BY <1>1, <1>7, <2>2
    <3> QED BY <1>1, <2>1, <3>1, <3>2, SumsEnter
  <2>3. CASE msg[c] # m
    <3>1. Committed(pc', msg', m) = Committed(pc, msg, m)
      BY <1>2, <1>3, <1>4, <2>3, CommittedMoves
    <3>2. applied'[m] = applied[m]
      BY <1>1, <1>7, <2>3
    <3> QED BY <1>1, <2>1, <3>1, <3>2, SumsKept
  <2> QED BY <2>2, <2>3
<1>8. CASE Refreshes(c)
  <2>1. Committed(pc', msg', m) = Committed(pc, msg, m)
    BY <1>2, <1>3, <1>4, <1>8, CommittedMoves DEF Refreshes
  <2>2. applied' = applied /\ faults' = faults
    BY <1>1, <1>8, CommitAppends DEF Refreshes
  <2> QED BY <1>1, <2>1, <2>2, SumsKept
<1>9. CASE Fails(c)
  <2>1. applied' = applied /\ faults' = faults + 1
    BY <1>1, <1>9, CommitAppends DEF Fails
  <2>2. CASE c \in Committed(pc, msg, m)
    <3>1. /\ Gains(Committed(pc', msg', m), Committed(pc, msg, m))
          /\ IsFiniteSet(Committed(pc', msg', m))
      BY <1>2, <1>3, <1>4, <1>9, <2>2, CommittedMoves DEF Fails
    <3> QED BY <1>1, <2>1, <3>1, SumsLeave
  <2>3. CASE c \notin Committed(pc, msg, m)
    <3>1. Committed(pc', msg', m) = Committed(pc, msg, m)
      BY <1>2, <1>3, <1>4, <1>9, <2>3, CommittedMoves DEF Fails
    <3> QED BY <1>1, <2>1, <3>1, SumsKept
  <2> QED BY <2>2, <2>3
<1> QED BY <1>1, <1>5, <1>6, <1>7, <1>8, <1>9 DEF OneOf

AppliedTyped == applied \in [Message -> Nat]

LEMMA NextTypedApplied ==
  ASSUME ServiceInv, AppliedTyped, [SystemNext]_system
  PROVE  AppliedTyped'
<1>1. ASSUME NEW c \in Consumer, Run(c) PROVE AppliedTyped'
  BY <1>1, RunApplies DEF AppliedTyped
<1> QED BY <1>1 DEF AppliedTyped, SystemNext, system, Begin, BeginFails, Acknowledge, Retry,
                    Die, PoolAfter, Queueing, Borrow, GiveBack

\* The steps that end a handler, and the others outside one.
LEMMA AcknowledgeSums ==
  ASSUME QP!QInv, ServiceInv, HandlersAwaited, Sums, NEW m \in Message,
         NEW c \in Consumer, Acknowledge(c)
  PROVE  (Counts(m) /\ AtMost(m) /\ AtLeast(m))'
<1>1. /\ pc[c] = "returned" /\ pc'[c] = "idle" /\ faults' = faults /\ applied' = applied
      /\ \A d \in Consumer \ {c} : pc'[d] = pc[d] /\ msg'[d] = msg[d]
  BY DEF Acknowledge, Settle, Leave, Goto, bounds, PoolAfter, ServiceInv, IInv, TypeOK
<1>2. returns \in [Message -> Nat] /\ msg[c] \in Message /\ msg[c] = handling[c].m
  BY <1>1, AwaitedMessage DEF QP!QInv, QP!TypeOK, HandlersAwaited, Awaiting
<1>3. returns' = [returns EXCEPT ![msg[c]] = @ + 1]
  BY <1>2 DEF Acknowledge, Q!HandlerReturns
<1>4. IsFiniteSet(Committed(pc, msg, m))
  BY DEF Sums, Counts
<1>5. c \in Committed(pc, msg, m) <=> msg[c] = m
  BY <1>1 DEF Committed
<1>6. c \notin Committed(pc', msg', m)
  BY <1>1 DEF Committed
<1>7. CASE msg[c] = m
  <2>1. Gains(Committed(pc', msg', m), Committed(pc, msg, m)) /\ IsFiniteSet(Committed(pc', msg', m))
    BY <1>1, <1>4, <1>5, <1>6, <1>7, CommittedMoves
  <2>2. returns'[m] = returns[m] + 1
    BY <1>2, <1>3, <1>7
  <2> QED BY <1>1, <2>1, <2>2, SumsLeave
<1>8. CASE msg[c] # m
  <2>1. Committed(pc', msg', m) = Committed(pc, msg, m)
    BY <1>1, <1>4, <1>5, <1>6, <1>8, CommittedMoves
  <2>2. returns'[m] = returns[m]
    BY <1>2, <1>3, <1>8
  <2> QED BY <1>1, <2>1, <2>2, SumsKept
<1> QED BY <1>7, <1>8

LEMMA OtherSums ==
  ASSUME QP!QInv, ServiceInv, Sums, NEW m \in Message, NEW c \in Consumer,
         Begin(c) \/ BeginFails(c) \/ Retry(c) \/ Die(c)
  PROVE  (Counts(m) /\ AtMost(m) /\ AtLeast(m))'
<1>0. IsFiniteSet(Committed(pc, msg, m)) /\ IInv
  BY DEF Sums, Counts, ServiceInv
<1>1. CASE Begin(c)
  <2>1. handling[c].m \in Message
    BY <1>1, AwaitedMessage DEF Begin, Awaited
  <2>2. /\ pc[c] = "idle" /\ pc'[c] \in {"depositKey", "withdrawCache", "transferFrom"}
        /\ \A d \in Consumer \ {c} : pc'[d] = pc[d] /\ msg'[d] = msg[d]
    BY <1>0, <1>1, <2>1, MessageType DEF Begin, Deliver, Goto, IInv, TypeOK
  <2>3. Committed(pc', msg', m) = Committed(pc, msg, m)
    BY <1>0, <2>2, CommittedMoves DEF Committed
  <2>4. faults' = faults /\ returns' = returns /\ applied' = applied
    BY <1>1 DEF Begin, Deliver, queueing
  <2> QED BY <2>3, <2>4, SumsKept
<1>2. CASE BeginFails(c)
  <2>1. /\ pc[c] = "idle" /\ pc'[c] = "threw" /\ faults' = faults + 1
        /\ \A d \in Consumer \ {c} : pc'[d] = pc[d] /\ msg'[d] = msg[d]
    BY <1>0, <1>2, BeginFailsEffect
  <2>2. Committed(pc', msg', m) = Committed(pc, msg, m)
    BY <1>0, <2>1, CommittedMoves DEF Committed
  <2>3. returns' = returns /\ applied' = applied
    BY <1>2 DEF BeginFails, queueing
  <2> QED BY <2>1, <2>2, <2>3, SumsKept
<1>3. CASE Retry(c)
  <2>1. /\ pc[c] = "threw" /\ pc'[c] = "idle" /\ faults' = faults /\ applied' = applied
        /\ \A d \in Consumer \ {c} : pc'[d] = pc[d] /\ msg'[d] = msg[d]
    BY <1>0, <1>3 DEF Retry, Settle, Leave, Goto, bounds, PoolAfter, IInv, TypeOK
  <2>2. Committed(pc', msg', m) = Committed(pc, msg, m)
    BY <1>0, <2>1, CommittedMoves DEF Committed
  <2>3. returns' = returns
    BY <1>3 DEF Retry, Q!HandlerThrows
  <2> QED BY <2>1, <2>2, <2>3, SumsKept
<1>4. CASE Die(c)
  <2>1. returns' = returns /\ applied' = applied
    BY <1>4 DEF Die, Q!Crash, Q!counts, PoolAfter
  <2>2. CASE UNCHANGED service
    <3>1. pc' = pc /\ msg' = msg /\ faults' = faults
      BY <2>2 DEF service, vars, locals, bounds
    <3> QED BY <2>1, <3>1, SumsKept
  <2>3. CASE Crash(c)
    <3>1. /\ pc'[c] = "idle" /\ faults' = faults + 1
          /\ \A d \in Consumer \ {c} : pc'[d] = pc[d] /\ msg'[d] = msg[d]
      BY <1>0, <2>3 DEF Crash, Leave, Goto, IInv, TypeOK
    <3>2. c \notin Committed(pc', msg', m)
      BY <3>1 DEF Committed
    <3>3. CASE c \in Committed(pc, msg, m)
      <4>1. /\ Gains(Committed(pc', msg', m), Committed(pc, msg, m))
            /\ IsFiniteSet(Committed(pc', msg', m))
        BY <1>0, <3>1, <3>2, <3>3, CommittedMoves
      <4> QED BY <2>1, <3>1, <4>1, SumsLeave
    <3>4. CASE c \notin Committed(pc, msg, m)
      <4>1. Committed(pc', msg', m) = Committed(pc, msg, m)
        BY <1>0, <3>1, <3>2, <3>4, CommittedMoves
      <4> QED BY <2>1, <3>1, <4>1, SumsKept
    <3> QED BY <3>3, <3>4
  <2> QED BY <1>4, <2>2, <2>3 DEF Die
<1> QED BY <1>1, <1>2, <1>3, <1>4

LEMMA NextSums ==
  QP!QInv /\ ServiceInv /\ HandlersAwaited /\ AppliedTyped /\ Sums /\ [SystemNext]_system => Sums'
<1> SUFFICES ASSUME QP!QInv, ServiceInv, HandlersAwaited, AppliedTyped, Sums, [SystemNext]_system,
                    NEW m \in Message
             PROVE  (Counts(m) /\ AtMost(m) /\ AtLeast(m))'
  BY DEF Sums
<1>1. ASSUME NEW c \in Consumer, Run(c) PROVE (Counts(m) /\ AtMost(m) /\ AtLeast(m))'
  BY <1>1, RunSums DEF AppliedTyped
<1>2. ASSUME UNCHANGED <<pc, msg, faults, returns, applied>>
      PROVE  (Counts(m) /\ AtMost(m) /\ AtLeast(m))'
  BY <1>2, SumsKept
<1>3. ASSUME NEW c \in Consumer, Queueing(c) PROVE (Counts(m) /\ AtMost(m) /\ AtLeast(m))'
  <2>1. returns' = returns
    BY <1>3 DEF Queueing, Q!Start, Q!BrokerReceive, Q!Deliver, Q!ConnectionLost, Q!AddToQueue, Q!counts
  <2> QED BY <1>2, <1>3, <2>1 DEF Queueing, service, vars, locals, bounds
<1>4. ASSUME Expire, UNCHANGED <<queueing, connections, applied>>
      PROVE  (Counts(m) /\ AtMost(m) /\ AtLeast(m))'
  BY <1>2, <1>4 DEF Expire, ExpireWallet, ExpireBalance, locals, bounds, queueing
<1>5. CASE UNCHANGED system
  BY <1>2, <1>5 DEF system, service, vars, locals, bounds, queueing
<1>6. ASSUME NEW c \in Consumer, Borrow(c) \/ GiveBack(c)
      PROVE  (Counts(m) /\ AtMost(m) /\ AtLeast(m))'
  BY <1>2, <1>6 DEF Borrow, GiveBack, service, vars, locals, bounds, queueing
<1> QED BY <1>1, <1>3, <1>4, <1>5, <1>6, AcknowledgeSums, OtherSums DEF SystemNext

\* A step's invariant: what the system keeps, so far.
SInv == QP!QInv /\ QP!Counted /\ ServiceInv /\ HandlersAwaited /\ AppliedTyped /\ Sums

LEMMA SystemInvariant == SystemSpec => []SInv
<1>1. SystemInit => HandlersAwaited /\ AppliedTyped /\ Sums
  BY InitAwaited, InitSums DEF SystemInit, AppliedTyped
<1>2. QP!QInv /\ ServiceInv /\ HandlersAwaited /\ AppliedTyped /\ Sums /\ [SystemNext]_system
        => (HandlersAwaited /\ AppliedTyped /\ Sums)'
  BY NextAwaited, NextTypedApplied, NextSums
<1> QED BY <1>1, <1>2, SystemQueueInv, SystemService, PTL DEF SystemSpec, SInv

LEMMA SameCounting ==
  ASSUME NEW S
  PROVE  (QP!IsFiniteSet(S) <=> IsFiniteSet(S)) /\ QP!Cardinality(S) = Cardinality(S)
<1>1. QP!IsFiniteSet(S) <=> IsFiniteSet(S)
  BY DEF QP!IsFiniteSet, IsFiniteSet
<1>2. QP!Cardinality(S) = Cardinality(S)
  BY DEF QP!Cardinality, Cardinality
<1> QED BY <1>1, <1>2

\* A message's handlers that have committed are among those its copies have.
LEMMA CommittedAwaited ==
  ASSUME SInv, NEW m \in Message
  PROVE  Cardinality(Committed(pc, msg, m)) <= Cardinality(QP!HandlersOf(handling, m))
<1>1. IsFiniteSet(QP!HandlersOf(handling, m))
  BY SameCounting DEF SInv, QP!Counted, QP!OutcomesFinite
<1>2. ASSUME NEW c \in Committed(pc, msg, m) PROVE c \in QP!HandlersOf(handling, m)
  <2>1. c \in Consumer /\ handling[c] # None /\ handling[c].m = m
    BY DEF SInv, HandlersAwaited, Awaiting, Committed
  <2> QED BY <2>1, AwaitedMessage DEF SInv, QP!HandlersOf, QP!CopiesOf
<1> QED BY <1>1, <1>2, FS_Subset

\* A message is applied once, and once more for each lost connection, crash and
\* failed await at most: no interleaving of handlers, retries and redeliveries
\* adds an effect that no failure has paid for.
THEOREM EffectsAreBounded == SystemSpec => []AppliedBounded
<1>1. ASSUME SInv, NEW m \in Message PROVE applied[m] <= 1 + losses + faults
  <2> DEFINE k == Cardinality(Committed(pc, msg, m))
             h == QP!Cardinality(QP!HandlersOf(handling, m))
             q == QP!Cardinality(QP!Places(queue, QP!CopiesOf(m)))
             f == QP!Cardinality(QP!PlacesOn(wire, QP!SentFor(m)))
             d == QP!Cardinality(QP!Places(dlq, {m}))
  <2>1. /\ applied[m] \in Nat /\ returns[m] \in Nat /\ faults \in Nat /\ k \in Nat
        /\ applied[m] <= returns[m] + k + faults
    BY <1>1, SumsTyped DEF SInv
  <2>2. k <= h
    BY <1>1, CommittedAwaited, SameCounting
  <2>3. /\ QP!ToAccept(m) \in 0..1 /\ losses \in Nat /\ q \in Nat /\ f \in Nat /\ d \in Nat /\ h \in Nat
    BY <1>1, QP!CountsTyped, SystemAssumption DEF SInv, QP!QInv, QP!Counted
  <2>4. QP!ToAccept(m) + q + f + d + h + returns[m] <= 1 + losses
    BY <1>1 DEF SInv, QP!Counted, QP!Outcomes
  <2> HIDE DEF k, h, q, f, d
  <2> QED BY <2>1, <2>2, <2>3, <2>4
<1>2. SInv => AppliedBounded
  BY <1>1 DEF AppliedBounded
<1> QED BY <1>2, SystemInvariant, PTL

----------------------------------------------------------------------------
\* Referenced messages: the ledger has the reference of what was applied, and a
\* reference it has was applied.

Reference(k) == Truthy(k) /\ Unique(k)
AppliedRecorded == \A m \in Message : (applied[m] > 0 /\ Truthy(m.ref)) => OnLedger(ledger, m.ref)
RecordedApplied ==
  \A i \in DOMAIN ledger :
    Reference(ledger[i].key) => \E m \in Message : m.ref = ledger[i].key /\ applied[m] > 0
RefsInv == AppliedRecorded /\ RecordedApplied

LEMMA ReferencesUnique == ASSUME NEW m \in Message, Truthy(m.ref) PROVE Reference(m.ref)
<1>1. m.ref \in Ref
  BY MessageType
<1> QED BY <1>1, DataAssumption DEF Reference, Unique

\* A handler's rows have no reference but its message's.
LEMMA RowsForReference ==
  ASSUME NEW m \in Message, NEW s, NEW d, NEW i \in DOMAIN RowsFor(m, s, d),
         Reference(RowsFor(m, s, d)[i].key)
  PROVE  RowsFor(m, s, d)[i].key = m.ref
<1>1. m.type \in {"deposit", "withdraw", "transfer"}
  BY MessageType
<1>2. CASE m.type \in {"deposit", "withdraw"}
  BY <1>2 DEF RowsFor, Reference, Unique, KeyOr
<1>3. CASE m.type = "transfer"
  <2>1. i \in {1, 2}
    BY <1>3 DEF RowsFor
  <2>2. /\ RowsFor(m, s, d)[1].key = IF m.ref = NoRef THEN NoKey ELSE m.ref
        /\ RowsFor(m, s, d)[2].key = KeyOr(m.ref, FreshKey)
    BY <1>3 DEF RowsFor
  <2> QED BY <2>1, <2>2 DEF Reference, Unique, KeyOr
<1> QED BY <1>1, <1>2, <1>3

LEMMA CommitRefs ==
  ASSUME SInv, RefsInv, NEW c \in Consumer, Commit(c), msg[c] \in Message,
         applied' = [applied EXCEPT ![msg[c]] = @ + 1]
  PROVE  RefsInv'
<1>1. /\ rows[c] = RowsFor(msg[c], src[c], dst[c])
      /\ \A i \in DOMAIN ledger : i \in DOMAIN ledger' /\ ledger'[i] = ledger[i]
      /\ \A i \in DOMAIN rows[c] : \E j \in DOMAIN ledger' : ledger'[j] = rows[c][i]
  BY CommitRecords DEF SInv, ServiceInv, TInv
<1>2. applied \in [Message -> Nat] /\ applied' \in [Message -> Nat]
  BY DEF SInv, AppliedTyped
<1>3. /\ applied'[msg[c]] = applied[msg[c]] + 1
      /\ \A m \in Message \ {msg[c]} : applied'[m] = applied[m]
  BY <1>2
<1>4. \A m \in Message : applied[m] > 0 => applied'[m] > 0
  BY <1>2, <1>3
<1>5. applied'[msg[c]] > 0
  BY <1>2, <1>3
<1>6. ASSUME NEW m \in Message, applied'[m] > 0, Truthy(m.ref) PROVE OnLedger(ledger', m.ref)
  <2>1. CASE m = msg[c]
    <3>1. m.ref \in KeysOf(rows[c])
      BY <1>1, <1>6, <2>1, RowsForKey
    <3> QED BY <1>1, <3>1 DEF KeysOf, OnLedger
  <2>2. CASE m # msg[c]
    BY <1>1, <1>3, <1>6, <2>2 DEF RefsInv, AppliedRecorded, OnLedger
  <2> QED BY <2>1, <2>2
<1>7. ASSUME NEW i \in DOMAIN ledger', Reference(ledger'[i].key)
      PROVE  \E m \in Message : m.ref = ledger'[i].key /\ applied'[m] > 0
  <2>1. ledger \in Seq(Row) /\ rows[c] \in Seq(Row) /\ ledger' = ledger \o rows[c]
    BY DEF SInv, ServiceInv, IInv, TypeOK, Commit
  <2>2. CASE i \in DOMAIN ledger
    BY <1>1, <1>4, <1>7, <2>2 DEF RefsInv, RecordedApplied
  <2>3. CASE i \notin DOMAIN ledger
    <3>1. i - Len(ledger) \in DOMAIN rows[c] /\ ledger'[i] = rows[c][i - Len(ledger)]
      BY <2>1, <2>3
    <3>2. ledger'[i].key = msg[c].ref
      BY <1>1, <1>7, <3>1, RowsForReference
    <3> QED BY <1>5, <3>2
  <2> QED BY <2>2, <2>3
<1>8. AppliedRecorded'
  BY <1>6 DEF AppliedRecorded, Truthy
<1>9. RecordedApplied'
  BY <1>7 DEF RecordedApplied, Reference, Truthy, Unique
<1> QED BY <1>8, <1>9 DEF RefsInv

LEMMA NextRefs == SInv /\ RefsInv /\ [SystemNext]_system => RefsInv'
<1> SUFFICES ASSUME SInv, RefsInv, [SystemNext]_system PROVE RefsInv'
  OBVIOUS
<1>1. ASSUME UNCHANGED <<ledger, applied>> PROVE RefsInv'
  BY <1>1 DEF RefsInv, AppliedRecorded, RecordedApplied, OnLedger, Reference, Truthy, Unique
<1>2. ASSUME NEW c \in Consumer, Run(c) PROVE RefsInv'
  <2>1. CASE Commit(c)
    BY <1>2, <2>1, RunApplies, CommitRefs DEF SInv, AppliedTyped
  <2>2. CASE ~Commit(c)
    <3>1. applied' = applied /\ OneOf(c)
      BY <1>2, <2>2, RunApplies DEF SInv, AppliedTyped
    <3>2. ledger' = ledger
      BY <2>2, <3>1 DEF OneOf, RunsOn, Skips, Refreshes, Fails
    <3> QED BY <1>1, <3>1, <3>2
  <2> QED BY <2>1, <2>2
<1>3. ASSUME NEW c \in Consumer,
             \/ Begin(c) \/ BeginFails(c) \/ Acknowledge(c) \/ Retry(c)
             \/ Die(c) \/ Queueing(c) \/ Borrow(c) \/ GiveBack(c)
      PROVE  UNCHANGED <<ledger, applied>>
  BY <1>3 DEF Begin, Deliver, BeginFails, Acknowledge, Retry, Settle, Die, Crash, PoolAfter,
              Queueing, Borrow, GiveBack, service, vars, tables
<1>4. ASSUME Expire, UNCHANGED <<queueing, connections, applied>> PROVE UNCHANGED <<ledger, applied>>
  BY <1>4 DEF Expire, ExpireWallet, ExpireBalance, tables
<1>5. CASE UNCHANGED system
  BY <1>1, <1>5 DEF system, service, vars, tables
<1> QED BY <1>1, <1>2, <1>3, <1>4, <1>5 DEF SystemNext

LEMMA SystemRefs == SystemSpec => []RefsInv
<1>1. SystemInit => RefsInv
  BY DEF SystemInit, Init, RefsInv, AppliedRecorded, RecordedApplied
<1> QED BY <1>1, NextRefs, SystemInvariant, PTL DEF SystemSpec

----------------------------------------------------------------------------
\* The refinement of AtLeastOnce: what each step is there.

KeyFor == [m \in Message |-> IF Truthy(m.ref) THEN m.ref ELSE None]

LEMMA KeyForRef ==
  ASSUME NEW m \in Message
  PROVE  /\ KeyFor[m] # None <=> Truthy(m.ref)
         /\ Truthy(m.ref) => KeyFor[m] = m.ref
<1>1. m.ref \in Ref
  BY MessageType
<1> QED BY <1>1, SystemAssumption DEF KeyFor

\* A message on record is an effective request, and the other way round.
LEMMA EffectiveRecorded ==
  ASSUME RefsInv, NEW m \in Message, Truthy(m.ref)
  PROVE  Delivery!Effective(m) <=> OnLedger(ledger, m.ref)
<1>1. KeyFor[m] = m.ref /\ KeyFor[m] # None
  BY KeyForRef
<1>2. ASSUME Delivery!Effective(m) PROVE OnLedger(ledger, m.ref)
  <2>1. PICK n \in Message : (m = n \/ KeyFor[m] = KeyFor[n]) /\ applied[n] > 0
    BY <1>2 DEF Delivery!Effective, Delivery!Same, KeyFor
  <2>2. Truthy(n.ref) /\ n.ref = m.ref
    BY <1>1, <2>1, KeyForRef
  <2> QED BY <2>1, <2>2 DEF RefsInv, AppliedRecorded
<1>3. ASSUME OnLedger(ledger, m.ref) PROVE Delivery!Effective(m)
  <2>1. PICK i \in DOMAIN ledger : ledger[i].key = m.ref
    BY <1>3 DEF OnLedger
  <2>2. PICK n \in Message : n.ref = m.ref /\ applied[n] > 0
    BY <2>1, ReferencesUnique DEF RefsInv, RecordedApplied
  <2>3. KeyFor[n] = KeyFor[m]
    BY <2>2 DEF KeyFor
  <2> QED BY <1>1, <2>2, <2>3 DEF Delivery!Effective, Delivery!Same, KeyFor
<1> QED BY <1>2, <1>3

\* Only the steps of handlers and of the broker show.
Refused == {m \in Message : Q!InSeq(m, dlq)}

LEMMA AwaitedAccepted ==
  ASSUME SInv, NEW c \in Consumer, pc[c] # "idle"
  PROVE  msg[c] \in Message /\ msg[c] = handling[c].m /\ handling[c] # None /\ msg[c] \in accepted
<1>1. handling[c] # None /\ handling[c].m = msg[c]
  BY DEF SInv, HandlersAwaited, Awaiting
<1>2. handling[c].m \in accepted
  BY <1>1 DEF SInv, QP!QInv, QP!CountsEarned, QP!Earned
<1> QED BY <1>1, <1>2, AwaitedMessage DEF SInv

LEMMA CommitApplies ==
  ASSUME SInv, RefsInv, NEW c \in Consumer, Run(c), Commit(c)
  PROVE  Delivery!Apply(msg[c])
<1> DEFINE m == msg[c]
<1>1. /\ m \in Message /\ m \in accepted
      /\ applied' = [applied EXCEPT ![m] = @ + 1] /\ UNCHANGED <<returns, accepted, dlq>>
  BY RunApplies, AwaitedAccepted DEF SInv, AppliedTyped
<1>2. ASSUME Truthy(m.ref) PROVE ~Delivery!Effective(m)
  <2>1. rows[c] = RowsFor(m, src[c], dst[c])
    BY CommitRecords DEF SInv, ServiceInv, TInv
  <2>2. m.ref \in KeysOf(rows[c])
    BY <1>1, <1>2, <2>1, RowsForKey
  <2>3. ~Recorded(m.ref)
    BY <1>1, <1>2, <2>2, ReferencesUnique
    DEF SInv, ServiceInv, KeysInv, PendingKeysNew, KeysOf, Reference
  <2> QED BY <1>1, <1>2, <2>3, EffectiveRecorded DEF Recorded, KeysOf, OnLedger
<1>3. KeyFor[m] # None => ~Delivery!Effective(m)
  BY <1>1, <1>2, KeyForRef
<1> HIDE DEF m
<1> QED BY <1>1, <1>3 DEF Delivery!Apply, KeyFor, m

LEMMA AcknowledgeFinishes ==
  ASSUME SInv, RefsInv, NEW c \in Consumer, Acknowledge(c)
  PROVE  Delivery!Finish(msg[c])
<1> DEFINE m == msg[c]
<1>1. pc[c] = "returned" /\ m \in Message /\ m = handling[c].m
  BY AwaitedAccepted DEF Acknowledge
<1>2. returns' = [returns EXCEPT ![m] = @ + 1] /\ UNCHANGED <<accepted, applied, dlq>>
  BY <1>1 DEF Acknowledge, Q!HandlerReturns, Q!broker, PoolAfter
<1>3. ASSUME ~Truthy(m.ref) PROVE returns[m] < applied[m]
  <2> DEFINE k == Cardinality(Committed(pc, msg, m))
  <2>1. /\ applied[m] \in Nat /\ returns[m] \in Nat /\ k \in Nat
        /\ IsFiniteSet(Committed(pc, msg, m)) /\ returns[m] + k <= applied[m]
    BY <1>1, <1>3, SumsTyped DEF SInv
  <2>2. c \in Committed(pc, msg, m)
    BY <1>1 DEF Committed
  <2>3. k # 0
    BY <2>1, <2>2, FS_EmptySet
  <2> HIDE DEF k
  <2> QED BY <2>1, <2>3
<1>4. ASSUME Truthy(m.ref) PROVE Delivery!Effective(m)
  <2>1. OnLedger(ledger, m.ref)
    BY <1>1, <1>4 DEF SInv, ServiceInv, TInv, OnRecord
  <2> QED BY <1>1, <1>4, <2>1, EffectiveRecorded
<1>5. IF KeyFor[m] = None THEN returns[m] < applied[m] ELSE Delivery!Effective(m)
  BY <1>1, <1>3, <1>4, KeyForRef
<1> HIDE DEF m
<1> QED BY <1>2, <1>5 DEF Delivery!Finish, KeyFor, m

LEMMA ReceiveRefuses ==
  ASSUME SInv, NEW c \in Consumer, Q!BrokerReceive(c), UNCHANGED applied
  PROVE  \/ \E m \in Message : Delivery!Refuse(m)
         \/ UNCHANGED <<accepted, applied, returns, Refused>>
<1>0. UNCHANGED <<accepted, returns>> /\ QP!BrokerReceive(c) /\ wire[c] # <<>>
  BY SameSteps DEF Q!BrokerReceive, Q!counts
<1>1. CASE dlq' = dlq
  BY <1>0, <1>1 DEF Refused, Q!InSeq
<1>2. CASE dlq' # dlq
  <2> DEFINE f == Head(wire[c])
  <2>1. f.kind = "deadLetter" /\ dlq' = Append(dlq, f.m)
    BY <1>2 DEF Q!BrokerReceive
  <2>2. f \in QP!Frame /\ QP!FrameEarned(f, accepted, throws)
    <3>1. QP!FrameEarned(f, accepted, throws) /\ f = wire[c][1] /\ 1 \in DOMAIN wire[c]
      BY <1>0, QP!HeadEarned, SystemAssumption DEF SInv
    <3>2. wire[c] \in Seq(QP!Frame)
      BY DEF SInv, QP!QInv, QP!TypeOK
    <3> QED BY <3>1, <3>2
  <2>3. f.m \in Message /\ f.m \in accepted
    BY <2>2 DEF QP!Frame, QP!FrameEarned
  <2>4. dlq \in Seq(Message)
    BY DEF SInv, QP!QInv, QP!TypeOK
  <2>5. \A x : (\E i \in DOMAIN dlq' : dlq'[i] = x) <=> (\E i \in DOMAIN dlq : dlq[i] = x) \/ x = f.m
    BY <2>1, <2>3, <2>4, QP!InAppended, SystemAssumption DEF QP!InSeq
  <2>6. Refused' = Refused \cup {f.m}
    BY <2>3, <2>5 DEF Refused, Q!InSeq
  <2> HIDE DEF f
  <2> QED BY <1>0, <2>3, <2>6 DEF Delivery!Refuse, Refused
<1> QED BY <1>1, <1>2

LEMMA StepIsDelivery ==
  SInv /\ RefsInv /\ [SystemNext]_system
    => [Delivery!Next]_<<accepted, applied, returns, {m \in Message : Q!InSeq(m, dlq)}>>
<1> SUFFICES ASSUME SInv, RefsInv, [SystemNext]_system
             PROVE  Delivery!Next \/ UNCHANGED <<accepted, applied, returns, Refused>>
  BY DEF Refused
<1>1. ASSUME UNCHANGED <<accepted, applied, returns, dlq>>
      PROVE  UNCHANGED <<accepted, applied, returns, Refused>>
  BY <1>1 DEF Refused, Q!InSeq
<1>2. ASSUME NEW c \in Consumer, Run(c)
      PROVE  Delivery!Next \/ UNCHANGED <<accepted, applied, returns, Refused>>
  <2>1. CASE Commit(c)
    <3>1. msg[c] \in Message
      BY <1>2, RunApplies DEF SInv, AppliedTyped
    <3> QED BY <1>2, <2>1, <3>1, CommitApplies DEF Delivery!Next
  <2>2. CASE ~Commit(c)
    BY <1>1, <1>2, <2>2, RunApplies DEF SInv, AppliedTyped
  <2> QED BY <2>1, <2>2
<1>3. ASSUME NEW c \in Consumer, Acknowledge(c) PROVE Delivery!Next
  <2>1. msg[c] \in Message
    BY <1>3, AwaitedAccepted DEF Acknowledge
  <2> QED BY <1>3, <2>1, AcknowledgeFinishes DEF Delivery!Next
<1>4. ASSUME NEW c \in Consumer, Begin(c) \/ BeginFails(c) \/ Retry(c) \/ Die(c)
      PROVE  UNCHANGED <<accepted, applied, returns, dlq>>
  BY <1>4 DEF Begin, BeginFails, queueing, Retry, Q!HandlerThrows, Q!broker, Die, Q!Crash,
              Q!counts, PoolAfter
<1>5. ASSUME NEW c \in Consumer, Queueing(c)
      PROVE  Delivery!Next \/ UNCHANGED <<accepted, applied, returns, Refused>>
  <2>1. applied' = applied
    BY <1>5 DEF Queueing
  <2>2. CASE Q!BrokerReceive(c)
    BY <2>1, <2>2, ReceiveRefuses DEF Delivery!Next
  <2>3. ASSUME NEW m \in Message, Q!AddToQueue(c, m) PROVE Delivery!Accept(m)
    <3>1. accepted' = accepted \cup {m} /\ UNCHANGED <<applied, returns, dlq>>
      BY <2>1, <2>3 DEF Q!AddToQueue, Q!broker, Q!counts
    <3> QED BY <1>1, <3>1 DEF Delivery!Accept, Q!InSeq
  <2>4. ASSUME Q!Start(c) \/ Q!Deliver(c) \/ Q!ConnectionLost(c)
        PROVE  UNCHANGED <<accepted, applied, returns, dlq>>
    BY <2>1, <2>4 DEF Q!Start, Q!Deliver, Q!ConnectionLost, Q!counts
  <2> QED BY <1>1, <1>5, <2>2, <2>3, <2>4 DEF Queueing, Delivery!Next
<1>6. ASSUME UNCHANGED queueing, UNCHANGED applied PROVE UNCHANGED <<accepted, applied, returns, dlq>>
  BY <1>6 DEF queueing
<1>7. ASSUME NEW c \in Consumer, Borrow(c) \/ GiveBack(c)
      PROVE  UNCHANGED <<accepted, applied, returns, dlq>>
  BY <1>6, <1>7 DEF Borrow, GiveBack
<1> QED BY <1>1, <1>2, <1>3, <1>4, <1>5, <1>6, <1>7 DEF SystemNext, system

\* Queue and wallet service together apply a request at least once before they
\* finish it, and a referenced one once, whatever is lost, crashes, throws, is
\* retried or is delivered while its first handler still runs.
THEOREM AtLeastOnceImplemented == SystemSpec => ImplementsAtLeastOnce
<1>1. SystemInit => Delivery!Init
  BY DEF SystemInit, Q!Init, Q!InSeq, Delivery!Init
<1> QED BY <1>1, StepIsDelivery, SystemInvariant, SystemRefs, PTL
        DEF SystemSpec, ImplementsAtLeastOnce, Delivery!Spec

----------------------------------------------------------------------------
\* Every connection of a process is free, lent to an HTTP request, held by its
\* running handler, or leaked.
Accounted(at, free, away, lost) ==
  /\ at \in {"idle", "returned", "threw"} => free + away + lost = PoolSize
  /\ at \notin {"idle", "returned", "threw"} => free + away + lost + 1 = PoolSize
ConnectionsInv ==
  /\ pool \in [Consumer -> Nat] /\ lent \in [Consumer -> Nat] /\ leaked \in [Consumer -> Nat]
  /\ \A c \in Consumer : Accounted(pc[c], pool[c], lent[c], leaked[c])

LEMMA OneAccounted ==
  ASSUME ConnectionsInv, NEW c \in Consumer,
         NEW free \in Nat, NEW away \in Nat, NEW lost \in Nat,
         pool' = [pool EXCEPT ![c] = free], lent' = [lent EXCEPT ![c] = away],
         leaked' = [leaked EXCEPT ![c] = lost],
         \A d \in Consumer \ {c} : pc'[d] = pc[d],
         Accounted(pc'[c], free, away, lost)
  PROVE  ConnectionsInv'
<1>1. pool' \in [Consumer -> Nat] /\ lent' \in [Consumer -> Nat] /\ leaked' \in [Consumer -> Nat]
  BY DEF ConnectionsInv
<1>2. \A d \in Consumer : Accounted(pc'[d], pool'[d], lent'[d], leaked'[d])
  BY DEF ConnectionsInv
<1> QED BY <1>1, <1>2 DEF ConnectionsInv, Accounted

\* A step that leaves a handler outside its try, and its process up or ended.
LEMMA EndAccounted ==
  ASSUME ConnectionsInv, NEW c \in Consumer, PoolAfter(c),
         \A d \in Consumer \ {c} : pc'[d] = pc[d],
         pc'[c] = "idle", up'[c] => pc[c] \in {"idle", "returned", "threw"}
  PROVE  ConnectionsInv'
<1>0. PoolSize \in Nat
  BY SystemAssumption
<1>1. CASE up'[c]
  <2>1. /\ pool' = [pool EXCEPT ![c] = pool[c]] /\ lent' = [lent EXCEPT ![c] = lent[c]]
        /\ leaked' = [leaked EXCEPT ![c] = leaked[c]]
    BY <1>1 DEF PoolAfter, ConnectionsInv
  <2>2. /\ pool[c] \in Nat /\ lent[c] \in Nat /\ leaked[c] \in Nat
        /\ Accounted(pc'[c], pool[c], lent[c], leaked[c])
    BY <1>1 DEF ConnectionsInv, Accounted
  <2> QED BY <2>1, <2>2, OneAccounted
<1>2. CASE ~up'[c]
  <2>1. /\ pool' = [pool EXCEPT ![c] = PoolSize] /\ lent' = [lent EXCEPT ![c] = 0]
        /\ leaked' = [leaked EXCEPT ![c] = 0]
    BY <1>2 DEF PoolAfter
  <2>2. Accounted(pc'[c], PoolSize, 0, 0)
    BY <1>0 DEF Accounted
  <2> QED BY <1>0, <2>1, <2>2, OneAccounted
<1> QED BY <1>1, <1>2

LEMMA NextConnections == SInv /\ ConnectionsInv /\ [SystemNext]_system => ConnectionsInv'
<1> SUFFICES ASSUME SInv, ConnectionsInv, [SystemNext]_system PROVE ConnectionsInv'
  OBVIOUS
<1>0. /\ IInv /\ pc \in [Consumer -> Location] /\ up \in [Consumer -> BOOLEAN]
      /\ pool \in [Consumer -> Nat] /\ lent \in [Consumer -> Nat] /\ leaked \in [Consumer -> Nat]
  BY DEF SInv, ServiceInv, IInv, TypeOK, QP!QInv, QP!TypeOK, ConnectionsInv
<1>00. ASSUME NEW c \in Consumer PROVE Accounted(pc[c], pool[c], lent[c], leaked[c])
  BY DEF ConnectionsInv
<1>01. ASSUME NEW c \in Consumer PROVE pool[c] \in Nat /\ lent[c] \in Nat /\ leaked[c] \in Nat
  BY <1>0
<1>1. ASSUME NEW c \in Consumer, Begin(c) PROVE ConnectionsInv'
  <2>1. handling[c].m \in Message
    BY <1>1, AwaitedMessage DEF Begin, Awaited, SInv
  <2>2. /\ pc[c] = "idle" /\ pc'[c] \in {"depositKey", "withdrawCache", "transferFrom"}
        /\ \A d \in Consumer \ {c} : pc'[d] = pc[d]
    BY <1>0, <1>1, <2>1, MessageType DEF Begin, Deliver, Goto
  <2>3. /\ pool[c] > 0 /\ pool' = [pool EXCEPT ![c] = pool[c] - 1]
        /\ lent' = [lent EXCEPT ![c] = lent[c]] /\ leaked' = [leaked EXCEPT ![c] = leaked[c]]
    BY <1>0, <1>1 DEF Begin
  <2>4. pool[c] - 1 \in Nat
    BY <1>01, <2>3
  <2>5. Accounted(pc'[c], pool[c] - 1, lent[c], leaked[c])
    <3>1. pool[c] + lent[c] + leaked[c] = PoolSize
      BY <1>00, <2>2 DEF Accounted
    <3>2. pool[c] - 1 + lent[c] + leaked[c] + 1 = PoolSize
      BY <1>01, <3>1
    <3> QED BY <2>2, <3>2 DEF Accounted
  <2> QED BY <1>01, <2>2, <2>3, <2>4, <2>5, OneAccounted
<1>2. ASSUME NEW c \in Consumer, BeginFails(c) PROVE ConnectionsInv'
  <2>1. pc[c] = "idle" /\ pc'[c] = "threw" /\ \A d \in Consumer \ {c} : pc'[d] = pc[d]
    BY <1>0, <1>2, BeginFailsEffect DEF SInv
  <2>2. lent' = [lent EXCEPT ![c] = lent[c]]
    BY <1>0, <1>2 DEF BeginFails, connections
  <2>3. CASE UNCHANGED connections
    <3>1. pool' = [pool EXCEPT ![c] = pool[c]] /\ leaked' = [leaked EXCEPT ![c] = leaked[c]]
      BY <1>0, <2>3 DEF connections
    <3>2. Accounted(pc'[c], pool[c], lent[c], leaked[c])
      BY <1>00, <2>1 DEF Accounted
    <3> QED BY <1>01, <2>1, <2>2, <3>1, <3>2, OneAccounted
  <2>4. CASE pool[c] > 0 /\ pool' = [pool EXCEPT ![c] = pool[c] - 1]
             /\ leaked' = [leaked EXCEPT ![c] = leaked[c] + 1]
    <3>1. pool[c] - 1 \in Nat /\ leaked[c] + 1 \in Nat
      BY <1>01, <2>4
    <3>2. pool[c] + lent[c] + leaked[c] = PoolSize
      BY <1>00, <2>1 DEF Accounted
    <3>3. pool[c] - 1 + lent[c] + (leaked[c] + 1) = PoolSize
      BY <1>01, <3>2
    <3>4. Accounted(pc'[c], pool[c] - 1, lent[c], leaked[c] + 1)
      BY <2>1, <3>3 DEF Accounted
    <3> QED BY <1>01, <2>1, <2>2, <2>4, <3>1, <3>4, OneAccounted
  <2> QED BY <1>2, <2>3, <2>4 DEF BeginFails
<1>3. ASSUME NEW c \in Consumer, Run(c) PROVE ConnectionsInv'
  <2>1. /\ pc[c] \notin {"idle", "returned", "threw"} /\ OwnMove(c) /\ OneOf(c)
    BY <1>3, RunApplies DEF SInv, AppliedTyped
  <2>2. pc'[c] # "idle"
    BY <1>0, <2>1 DEF OneOf, RunsOn, Skips, Refreshes, Fails, Commit, Goto
  <2>3. pool[c] + lent[c] + leaked[c] + 1 = PoolSize
    BY <1>00, <2>1 DEF Accounted
  <2>4. lent' = [lent EXCEPT ![c] = lent[c]] /\ leaked' = [leaked EXCEPT ![c] = leaked[c]]
    BY <1>0, <1>3 DEF Run
  <2>5. CASE pc'[c] \in {"returned", "threw"}
    <3>1. pool' = [pool EXCEPT ![c] = pool[c] + 1] /\ pool[c] + 1 \in Nat
      BY <1>0, <1>3, <2>5 DEF Run, Released
    <3>2. pool[c] + 1 + lent[c] + leaked[c] = PoolSize
      BY <1>01, <2>3
    <3>3. Accounted(pc'[c], pool[c] + 1, lent[c], leaked[c])
      BY <2>5, <3>2 DEF Accounted
    <3> QED BY <1>01, <2>1, <2>4, <3>1, <3>3, OneAccounted DEF OwnMove
  <2>6. CASE pc'[c] \notin {"returned", "threw"}
    <3>1. pool' = [pool EXCEPT ![c] = pool[c]]
      BY <1>0, <1>3, <2>6 DEF Run, Released
    <3>2. Accounted(pc'[c], pool[c], lent[c], leaked[c])
      BY <2>2, <2>3, <2>6 DEF Accounted
    <3> QED BY <1>01, <2>1, <2>4, <3>1, <3>2, OneAccounted DEF OwnMove
  <2> QED BY <2>5, <2>6
<1>4. ASSUME NEW c \in Consumer, Acknowledge(c) \/ Retry(c) PROVE ConnectionsInv'
  <2>1. /\ pc[c] \in {"returned", "threw"} /\ pc'[c] = "idle" /\ PoolAfter(c)
        /\ \A d \in Consumer \ {c} : pc'[d] = pc[d]
    BY <1>0, <1>4 DEF Acknowledge, Retry, Settle, Leave, Goto
  <2> QED BY <2>1, EndAccounted
<1>5. ASSUME NEW c \in Consumer, Die(c) PROVE ConnectionsInv'
  <2>1. ~up'[c] /\ PoolAfter(c)
    BY <1>0, <1>5 DEF Die, Q!Crash
  <2>2. pc'[c] = "idle" /\ \A d \in Consumer \ {c} : pc'[d] = pc[d]
    BY <1>0, <1>5 DEF Die, Crash, Leave, Goto, service, vars
  <2> QED BY <2>1, <2>2, EndAccounted
<1>6. ASSUME UNCHANGED <<pc, pool, lent, leaked>> PROVE ConnectionsInv'
  BY <1>6 DEF ConnectionsInv, Accounted
<1>7. ASSUME NEW c \in Consumer, Queueing(c) PROVE ConnectionsInv'
  BY <1>6, <1>7 DEF Queueing, service, vars, connections
<1>8. ASSUME Expire, UNCHANGED connections PROVE ConnectionsInv'
  BY <1>6, <1>8 DEF Expire, ExpireWallet, ExpireBalance, connections
<1>9. CASE UNCHANGED system
  BY <1>6, <1>9 DEF system, service, vars, connections
<1>10. ASSUME NEW c \in Consumer, Borrow(c) PROVE ConnectionsInv'
  <2>1. /\ pool[c] > 0 /\ pool' = [pool EXCEPT ![c] = pool[c] - 1]
        /\ lent' = [lent EXCEPT ![c] = lent[c] + 1] /\ leaked' = [leaked EXCEPT ![c] = leaked[c]]
        /\ pc' = pc
    BY <1>0, <1>01, <1>10 DEF Borrow, service, vars
  <2>2. pool[c] - 1 \in Nat /\ lent[c] + 1 \in Nat
    BY <1>01, <2>1
  <2>3. pool[c] - 1 + (lent[c] + 1) + leaked[c] = pool[c] + lent[c] + leaked[c]
    BY <1>01
  <2>4. Accounted(pc'[c], pool[c] - 1, lent[c] + 1, leaked[c])
    BY <1>00, <2>1, <2>3 DEF Accounted
  <2> QED BY <1>01, <2>1, <2>2, <2>4, OneAccounted
<1>11. ASSUME NEW c \in Consumer, GiveBack(c) PROVE ConnectionsInv'
  <2>1. /\ lent[c] > 0 /\ pool' = [pool EXCEPT ![c] = pool[c] + 1]
        /\ lent' = [lent EXCEPT ![c] = lent[c] - 1] /\ leaked' = [leaked EXCEPT ![c] = leaked[c]]
        /\ pc' = pc
    BY <1>0, <1>11 DEF GiveBack, service, vars
  <2>2. pool[c] + 1 \in Nat /\ lent[c] - 1 \in Nat
    BY <1>01, <2>1
  <2>3. pool[c] + 1 + (lent[c] - 1) + leaked[c] = pool[c] + lent[c] + leaked[c]
    BY <1>01
  <2>4. Accounted(pc'[c], pool[c] + 1, lent[c] - 1, leaked[c])
    BY <1>00, <2>1, <2>3 DEF Accounted
  <2> QED BY <1>01, <2>1, <2>2, <2>4, OneAccounted
<1> QED BY <1>1, <1>2, <1>3, <1>4, <1>5, <1>7, <1>8, <1>9, <1>10, <1>11 DEF SystemNext

\* Handlers and requests share a pool, and whatever path a handler ends by, it gives
\* back what it took, unless it failed to begin: for any pool size and any number of
\* requests, a handler that has to wait for a connection waits for one that a
\* request holds, until the failed begins have leaked all but one; and while it
\* waits it holds no row of wallets for a request to wait for.
THEOREM ConnectionsAlwaysSuffice == SystemSpec => []ConnectionsSuffice
<1>1. SystemInit => ConnectionsInv
  BY SystemAssumption DEF SystemInit, Init, ConnectionsInv, Accounted
<1>2. SInv /\ ConnectionsInv => ConnectionsSuffice
  <2> SUFFICES ASSUME SInv, ConnectionsInv, NEW c \in Consumer, Waits(c)
               PROVE  pend[c] = NoPending /\ (pool[c] + lent[c] > 0 \/ leaked[c] + 1 >= PoolSize)
    BY DEF ConnectionsSuffice
  <2>1. /\ pool[c] \in Nat /\ lent[c] \in Nat /\ leaked[c] \in Nat
        /\ Accounted(pc[c], pool[c], lent[c], leaked[c])
    BY DEF ConnectionsInv
  <2>2. pc[c] \in {"idle", "depositKey", "withdrawKey", "transferKey"}
    BY DEF Waits, Awaited, ChecksKey
  <2>3. pend[c] = NoPending
    <3>1. \A w \in WalletId : pend[c][w] = None
      BY <2>2 DEF SInv, ServiceInv, TInv, Written, Wrote, WritingAt
    <3>2. pend[c] \in [WalletId -> Wallet \cup {None}]
      BY DEF SInv, ServiceInv, IInv, TypeOK
    <3> QED BY <3>1, <3>2 DEF NoPending
  <2>4. \/ pool[c] + lent[c] + leaked[c] = PoolSize
        \/ pool[c] + lent[c] + leaked[c] + 1 = PoolSize
    BY <2>1 DEF Accounted
  <2>5. pool[c] + lent[c] > 0 \/ leaked[c] + 1 >= PoolSize
    BY <2>1, <2>4
  <2> QED BY <2>3, <2>5
<1> QED BY <1>1, <1>2, NextConnections, SystemInvariant, PTL DEF SystemSpec

----------------------------------------------------------------------------
\* What the composition keeps of its parts.

\* In the system, too, the queue loses no message and dead-letters none early.
THEOREM SystemLosesNothing ==
  SystemSpec => [](Q!NoMessageLost /\ Q!DeadLettersEarned /\ Q!OutcomesBounded)
<1>1. QP!Spec => [](QP!NoMessageLost /\ QP!DeadLettersEarned /\ QP!OutcomesBounded)
  <2>1. QP!Spec => []QP!NoMessageLost
    BY QP!NothingIsLost, SystemAssumption
  <2>2. QP!Spec => []QP!DeadLettersEarned
    BY QP!DeadLettersAreEarned, SystemAssumption
  <2>3. QP!Spec => []QP!OutcomesBounded
    BY QP!OutcomesAreBounded, SystemAssumption
  <2> QED BY <2>1, <2>2, <2>3, PTL
<1>2. QP!NoMessageLost => Q!NoMessageLost
  BY DEF QP!NoMessageLost, Q!NoMessageLost, QP!Queued, Q!Queued, QP!AtConsumer, Q!AtConsumer,
         QP!Settled, Q!Settled, QP!InSeq, Q!InSeq
<1>3. QP!DeadLettersEarned => Q!DeadLettersEarned
  BY DEF QP!DeadLettersEarned, Q!DeadLettersEarned, QP!InSeq, Q!InSeq, QP!MaxRetries, Q!MaxRetries
<1>4. QP!OutcomesBounded => Q!OutcomesBounded
  <2>1. ASSUME NEW S PROVE QP!Cardinality(S) = Q!Cardinality(S)
    BY DEF QP!Cardinality, Q!Cardinality
  <2> QED BY <2>1 DEF QP!OutcomesBounded, Q!OutcomesBounded, QP!DeadLetters, Q!DeadLetters
<1> QED BY <1>1, <1>2, <1>3, <1>4, SystemQueue, PTL

\* In the system, too, where a transaction may fail to begin: the types of tables
\* and handlers, and what the service promises for any number of processes.
THEOREM SystemKeepsTables ==
  SystemSpec => [](/\ TypeOK /\ KeyUsedOnce /\ BalanceNonNegative /\ OneWalletPerUser
                   /\ ReturnedMeansRecorded /\ CachedBalanceWasHeld)
<1>1. ServiceInv => TypeOK /\ KeyUsedOnce /\ BalanceNonNegative /\ OneWalletPerUser
  BY DEF ServiceInv, IInv, KeysInv, BalancesInv, NotNegative, BalanceNonNegative, Owners
<1>2. ServiceInv => ReturnedMeansRecorded
  BY DEF ServiceInv, TInv, OnRecord, ReturnedMeansRecorded, Recorded, KeysOf, OnLedger
<1>3. ServiceInv => CachedBalanceWasHeld
  BY ShownWereHeld DEF ServiceInv
<1> QED BY <1>1, <1>2, <1>3, SystemService, PTL

\* And with a cache in each process the tables stay an account book whose last
\* rows state the balances, under the queue's retries and redeliveries.
THEOREM SystemKeepsBook ==
  ASSUME SeparateStores
  PROVE  SystemSpec => ImplementsAccountBook /\ []StatementMatchesBalance
<1>1. SystemInit => Book!Init
  BY DEF SystemInit, Init, Book!Init
<1>2. ServiceInv /\ BookInv => StatementMatchesBalance
  BY StatementsStand DEF ServiceInv
<1> QED BY <1>1, <1>2, SystemStepIsBooked, SystemBook, SystemQueueInv, SystemService, PTL
        DEF SystemSpec, ImplementsAccountBook, Book!Spec

=============================================================================
