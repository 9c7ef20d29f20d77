-------------------------- MODULE TransactionQueue --------------------------
(***************************************************************************)
(* QueueService (src/src/modules/queue/queue.service.ts) and                *)
(* TransactionProcessor (src/src/modules/queue/processors/                  *)
(* transaction.processor.ts): the RabbitMQ queue wallet-transactions, its   *)
(* dead-letter queue, and the processes that publish to and consume from    *)
(* them over one AMQP channel each.                                         *)
(*                                                                          *)
(* sendToQueue and ack only write a frame to the channel's socket: frames   *)
(* reach the broker later and in order, or never when the connection is     *)
(* lost first.  There are no publisher confirms.  A handler is one step     *)
(* here, which returns or throws; WalletService has its inside.             *)
(***************************************************************************)
EXTENDS Integers, Sequences, FiniteSets

CONSTANTS
  Process,    \* API processes, each a publisher and a consumer
  Message,    \* requests the API may accept
  MaxLosses,  \* bound: connections lost and processes crashed
  None

ASSUME QueueAssumption == MaxLosses \in Nat /\ None \notin [m : Message, retries : Nat]

\* private readonly maxRetries = 3
MaxRetries == 3

VARIABLES
  queue,      \* wallet-transactions: ready copies, oldest first
  dlq,        \* wallet-transactions-dlq
  unacked,    \* [p]: the copy the broker has delivered to p and not seen acked
  consuming,  \* [p]: the broker has a consumer of p
  up,         \* [p]: the process runs and serves requests
  open,       \* [p]: its channel is open
  wire,       \* [p]: frames written to the socket, not yet at the broker
  handling,   \* [p]: the copy processMessage is awaiting a handler for
  accepted,   \* messages whose request was answered with success
  arrived,    \* messages the broker has had
  returns,    \* [m]: handlers that returned
  throws,     \* [m]: handlers that threw
  losses      \* connections lost and processes crashed

broker == <<queue, dlq, unacked, consuming, arrived>>
process == <<up, open, handling>>
counts == <<returns, throws>>
vars == <<queue, dlq, unacked, consuming, up, open, wire, handling, accepted,
          arrived, returns, throws, losses>>

Copy == [m : Message, retries : 0..MaxRetries]
Publish(m, retries) == [kind |-> "publish", m |-> m, retries |-> retries]
DeadLetter(m) == [kind |-> "deadLetter", m |-> m, retries |-> 0]
Ack(m) == [kind |-> "ack", m |-> m, retries |-> 0]
Frame == [kind : {"publish", "deadLetter", "ack"}, m : Message, retries : 0..MaxRetries]

\* The queues are declared and no process has started.
Init ==
  /\ queue = <<>> /\ dlq = <<>>
  /\ unacked = [p \in Process |-> None]
  /\ consuming = [p \in Process |-> FALSE]
  /\ up = [p \in Process |-> FALSE]
  /\ open = [p \in Process |-> FALSE]
  /\ wire = [p \in Process |-> <<>>]
  /\ handling = [p \in Process |-> None]
  /\ accepted = {} /\ arrived = {}
  /\ returns = [m \in Message |-> 0] /\ throws = [m \in Message |-> 0]
  /\ losses = 0

----------------------------------------------------------------------------
\* onModuleInit: connect and declare the queues, or the application does not
\* start; then the processor, awaiting `ready`, sets prefetch and consumes.  They
\* reject when the channel or its connection has closed meanwhile, and the error
\* is swallowed: the process serves, never consumes, and cannot publish either.
Start(p) ==
  /\ ~up[p]
  /\ up' = [up EXCEPT ![p] = TRUE]
  /\ \/ /\ open' = [open EXCEPT ![p] = TRUE]
        /\ consuming' = [consuming EXCEPT ![p] = TRUE]
        /\ UNCHANGED losses
     \/ /\ losses < MaxLosses /\ losses' = losses + 1
        /\ UNCHANGED <<open, consuming>>
  /\ UNCHANGED <<queue, dlq, unacked, wire, handling, accepted, arrived, counts>>

\* addToQueue: a request is answered with success once its frame is written.
\* On a closed channel sendToQueue throws and the request fails.
AddToQueue(p, m) ==
  /\ up[p] /\ open[p] /\ m \notin accepted
  /\ wire' = [wire EXCEPT ![p] = Append(@, Publish(m, 0))]
  /\ accepted' = accepted \cup {m}
  /\ UNCHANGED <<broker, process, counts, losses>>

\* The broker takes p's next frame.
BrokerReceive(p) ==
  /\ wire[p] # <<>>
  /\ wire' = [wire EXCEPT ![p] = Tail(@)]
  /\ LET f == Head(wire[p]) IN
     \/ /\ f.kind = "publish"
        /\ queue' = Append(queue, [m |-> f.m, retries |-> f.retries])
        /\ arrived' = arrived \cup {f.m}
        /\ UNCHANGED <<dlq, unacked>>
     \/ /\ f.kind = "deadLetter"
        /\ dlq' = Append(dlq, f.m)
        /\ UNCHANGED <<queue, unacked, arrived>>
     \/ /\ f.kind = "ack"
        /\ unacked' = [unacked EXCEPT ![p] = None]
        /\ UNCHANGED <<queue, dlq, arrived>>
  /\ UNCHANGED <<consuming, process, accepted, counts, losses>>

\* prefetch(1): the broker delivers when p has acked everything.
Deliver(p) ==
  /\ consuming[p] /\ unacked[p] = None /\ queue # <<>>
  /\ unacked' = [unacked EXCEPT ![p] = Head(queue)]
  /\ handling' = [handling EXCEPT ![p] = Head(queue)]
  /\ queue' = Tail(queue)
  /\ UNCHANGED <<dlq, consuming, up, open, wire, accepted, arrived, counts, losses>>

\* The broker requeues what p had not acked at its old place.
Disconnected(p) ==
  /\ open' = [open EXCEPT ![p] = FALSE]
  /\ consuming' = [consuming EXCEPT ![p] = FALSE]
  /\ wire' = [wire EXCEPT ![p] = <<>>]
  /\ unacked' = [unacked EXCEPT ![p] = None]
  /\ queue' = IF unacked[p] = None THEN queue ELSE <<unacked[p]>> \o queue

\* ack and sendToQueue throw on a closed channel.  Called from the catch block
\* of processMessage, whose promise nobody awaits, that ends the process.
DieUnhandled(p) ==
  /\ ~open[p]
  /\ up' = [up EXCEPT ![p] = FALSE]
  /\ UNCHANGED <<wire, open>>

\* handleProcessingError: a new copy at the tail with one more retry, or a dead
\* letter, and then the ack of the old copy, on the same channel.
\* Mutants: one retry too many, one too few.
AgainOnceMore(copy) == IF copy.retries <= MaxRetries THEN Publish(copy.m, copy.retries + 1)
                                                     ELSE DeadLetter(copy.m)
AgainOnceLess(copy) == IF copy.retries + 1 < MaxRetries THEN Publish(copy.m, copy.retries + 1)
                                                        ELSE DeadLetter(copy.m)
Again(copy) ==
  IF copy.retries + 1 <= MaxRetries THEN Publish(copy.m, copy.retries + 1)
                                    ELSE DeadLetter(copy.m)

\* Mutant: what follows the ack throws, and the message is retried as well.
AckAndRetry(copy) == <<Ack(copy.m), Again(copy)>>
DoneFrames(copy) == <<Ack(copy.m)>>

\* processMessage when the handler returns.
HandlerReturns(p) ==
  /\ handling[p] # None
  /\ returns' = [returns EXCEPT ![handling[p].m] = @ + 1]
  /\ handling' = [handling EXCEPT ![p] = None]
  /\ \/ /\ open[p]
        /\ wire' = [wire EXCEPT ![p] = @ \o DoneFrames(handling[p])]
        /\ UNCHANGED <<up, open>>
     \/ DieUnhandled(p)
  /\ UNCHANGED <<broker, accepted, throws, losses>>

\* Mutants: the ack first, no ack.
AckFirst(copy) == <<Ack(copy.m), Again(copy)>>
NeverAck(copy) == <<Again(copy)>>
RetryFrames(copy) == <<Again(copy), Ack(copy.m)>>

HandlerThrows(p) ==
  /\ handling[p] # None
  /\ throws' = [throws EXCEPT ![handling[p].m] = @ + 1]
  /\ handling' = [handling EXCEPT ![p] = None]
  /\ \/ /\ open[p]
        /\ wire' = [wire EXCEPT ![p] = @ \o RetryFrames(handling[p])]
        /\ UNCHANGED <<up, open>>
     \/ DieUnhandled(p)
  /\ UNCHANGED <<broker, accepted, returns, losses>>

\* The connection closes: the service logs it, keeps the dead channel, and never
\* connects again; a running handler goes on.
ConnectionLost(p) ==
  /\ open[p] /\ losses < MaxLosses
  /\ losses' = losses + 1
  /\ Disconnected(p)
  /\ UNCHANGED <<dlq, up, handling, accepted, arrived, counts>>

Crash(p) ==
  /\ up[p] /\ losses < MaxLosses
  /\ losses' = losses + 1
  /\ Disconnected(p)
  /\ up' = [up EXCEPT ![p] = FALSE]
  /\ handling' = [handling EXCEPT ![p] = None]
  /\ UNCHANGED <<dlq, accepted, arrived, counts>>

Next ==
  \E p \in Process :
    \/ Start(p) \/ BrokerReceive(p) \/ Deliver(p)
    \/ HandlerReturns(p) \/ HandlerThrows(p)
    \/ ConnectionLost(p) \/ Crash(p)
    \/ \E m \in Message : AddToQueue(p, m)

Spec == Init /\ [][Next]_vars

\* The broker reads its sockets and delivers, handlers end (HandlersFinish of
\* the wallet service), a dead process is started again.
Fairness ==
  \A p \in Process :
    /\ WF_vars(Start(p)) /\ WF_vars(BrokerReceive(p)) /\ WF_vars(Deliver(p))
    /\ WF_vars(HandlerReturns(p) \/ HandlerThrows(p))
FairSpec == Spec /\ Fairness

----------------------------------------------------------------------------
\* Queues, frames and counters are what the AMQP calls make them.
TypeOK ==
  /\ queue \in Seq(Copy) /\ dlq \in Seq(Message)
  /\ unacked \in [Process -> Copy \cup {None}]
  /\ handling \in [Process -> Copy \cup {None}]
  /\ wire \in [Process -> Seq(Frame)]
  /\ {consuming, up, open} \subseteq [Process -> BOOLEAN]
  /\ accepted \subseteq Message /\ arrived \subseteq accepted
  /\ {returns, throws} \subseteq [Message -> Nat]
  /\ losses \in 0..MaxLosses

\* The broker never drops a message it has had: it is queued, at a consumer,
\* dead-lettered or handled, at every cut of a retry's two frames, every lost
\* connection and every crash (transaction.processor.ts:99-118).
InSeq(m, s) == \E i \in DOMAIN s : s[i] = m
Queued(m) == \E i \in DOMAIN queue : queue[i].m = m
AtConsumer(m) == \E p \in Process : unacked[p] # None /\ unacked[p].m = m
Settled(m) == returns[m] > 0 \/ InSeq(m, dlq)
NoMessageLost == \A m \in arrived : Queued(m) \/ AtConsumer(m) \/ Settled(m)

\* A message is dead-lettered after its fourth failed handler, never earlier,
\* although each copy carries its own count (transaction.processor.ts:92-94).
DeadLettersEarned == \A m \in Message : InSeq(m, dlq) => throws[m] > MaxRetries

\* A message is handled or dead-lettered once, and once more for every lost
\* connection at most: a retry replaces its copy (transaction.processor.ts:118).
DeadLetters(m) == Cardinality({i \in DOMAIN dlq : dlq[i] = m})
OutcomesBounded == \A m \in Message : returns[m] + DeadLetters(m) <= 1 + losses

\* A request answered with success is handled or dead-lettered (README: "Uses
\* RabbitMQ for reliable transaction processing").
AcceptedSettles == \A m \in Message : m \in accepted ~> Settled(m)

=============================================================================
