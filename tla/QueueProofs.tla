----------------------------- MODULE QueueProofs -----------------------------
(***************************************************************************)
(* The queue loses no message the broker has had, and dead-letters none     *)
(* before its fourth failed handler: for any processes and messages, any    *)
(* number of lost connections and crashes, and every cut of a retry's two   *)
(* frames.                                                                  *)
(***************************************************************************)
EXTENDS TransactionQueue, SequenceTheorems, FiniteSetTheorems, TLAPS

----------------------------------------------------------------------------
\* Sequences: what an append, a tail and a frame put in front do to the elements.
LEMMA Appended ==
  ASSUME NEW S, NEW s \in Seq(S), NEW e \in S
  PROVE  /\ Append(s, e) \in Seq(S)
         /\ DOMAIN Append(s, e) = 1..(Len(s) + 1)
         /\ DOMAIN s = 1..Len(s) /\ Len(s) \in Nat
         /\ \A i \in 1..Len(s) : Append(s, e)[i] = s[i]
         /\ Append(s, e)[Len(s) + 1] = e
  OBVIOUS

LEMMA PairAppended ==
  ASSUME NEW S, NEW s \in Seq(S), NEW e \in S, NEW f \in S
  PROVE  /\ s \o <<e, f>> \in Seq(S)
         /\ DOMAIN (s \o <<e, f>>) = 1..(Len(s) + 2)
         /\ DOMAIN s = 1..Len(s) /\ Len(s) \in Nat
         /\ \A i \in 1..Len(s) : (s \o <<e, f>>)[i] = s[i]
         /\ (s \o <<e, f>>)[Len(s) + 1] = e
         /\ (s \o <<e, f>>)[Len(s) + 2] = f
  OBVIOUS

LEMMA OneAppended ==
  ASSUME NEW S, NEW s \in Seq(S), NEW e \in S
  PROVE  /\ s \o <<e>> \in Seq(S)
         /\ DOMAIN (s \o <<e>>) = 1..(Len(s) + 1)
         /\ DOMAIN s = 1..Len(s) /\ Len(s) \in Nat
         /\ \A i \in 1..Len(s) : (s \o <<e>>)[i] = s[i]
         /\ (s \o <<e>>)[Len(s) + 1] = e
  OBVIOUS

LEMMA Prepended ==
  ASSUME NEW S, NEW s \in Seq(S), NEW e \in S
  PROVE  /\ <<e>> \o s \in Seq(S)
         /\ DOMAIN (<<e>> \o s) = 1..(Len(s) + 1)
         /\ DOMAIN s = 1..Len(s) /\ Len(s) \in Nat
         /\ (<<e>> \o s)[1] = e
         /\ \A i \in 1..Len(s) : (<<e>> \o s)[i + 1] = s[i]
  OBVIOUS

LEMMA Taken ==
  ASSUME NEW S, NEW s \in Seq(S), s # <<>>
  PROVE  /\ Tail(s) \in Seq(S)
         /\ Len(s) \in Nat \ {0}
         /\ DOMAIN s = 1..Len(s)
         /\ DOMAIN Tail(s) = 1..(Len(s) - 1)
         /\ \A i \in 1..(Len(s) - 1) : Tail(s)[i] = s[i + 1]
         /\ Head(s) = s[1] /\ Head(s) \in S
  OBVIOUS

\* The same for membership.
LEMMA InAppended ==
  ASSUME NEW S, NEW s \in Seq(S), NEW e \in S, NEW x
  PROVE  InSeq(x, Append(s, e)) <=> InSeq(x, s) \/ x = e
<1>1. ASSUME InSeq(x, Append(s, e)) PROVE InSeq(x, s) \/ x = e
  BY <1>1, Appended DEF InSeq
<1>2. ASSUME InSeq(x, s) PROVE InSeq(x, Append(s, e))
  BY <1>2, Appended DEF InSeq
<1>3. ASSUME x = e PROVE InSeq(x, Append(s, e))
  <2>1. Len(s) + 1 \in DOMAIN Append(s, e)
    BY Appended
  <2> QED
    BY <1>3, <2>1, Appended DEF InSeq
<1> QED
  BY <1>1, <1>2, <1>3

LEMMA InPrepended ==
  ASSUME NEW S, NEW s \in Seq(S), NEW e \in S, NEW x
  PROVE  InSeq(x, <<e>> \o s) <=> InSeq(x, s) \/ x = e
<1>1. ASSUME InSeq(x, <<e>> \o s) PROVE InSeq(x, s) \/ x = e
  <2>1. PICK i \in 1..(Len(s) + 1) : (<<e>> \o s)[i] = x
    BY <1>1, Prepended DEF InSeq
  <2>2. CASE i = 1
    BY <2>1, <2>2, Prepended
  <2>3. CASE i # 1
    <3>1. i - 1 \in 1..Len(s) /\ (i - 1) + 1 = i
      BY <2>3, Prepended
    <3>2. s[i - 1] = x
      BY <2>1, <3>1, Prepended
    <3> QED
      BY <3>1, <3>2, Prepended DEF InSeq
  <2> QED
    BY <2>2, <2>3
<1>2. ASSUME InSeq(x, s) PROVE InSeq(x, <<e>> \o s)
  <2>1. PICK i \in 1..Len(s) : s[i] = x
    BY <1>2, Prepended DEF InSeq
  <2>2. i + 1 \in 1..(Len(s) + 1)
    BY Prepended
  <2> QED
    BY <2>1, <2>2, Prepended DEF InSeq
<1>3. ASSUME x = e PROVE InSeq(x, <<e>> \o s)
  <2>1. 1 \in 1..(Len(s) + 1)
    BY Prepended
  <2> QED
    BY <1>3, <2>1, Prepended DEF InSeq
<1> QED
  BY <1>1, <1>2, <1>3

LEMMA InTaken ==
  ASSUME NEW S, NEW s \in Seq(S), s # <<>>, NEW x
  PROVE  InSeq(x, s) <=> InSeq(x, Tail(s)) \/ x = Head(s)
<1>1. ASSUME InSeq(x, s), x # Head(s) PROVE InSeq(x, Tail(s))
  <2>1. PICK i \in 1..Len(s) : s[i] = x
    BY <1>1, Taken DEF InSeq
  <2>2. i - 1 \in 1..(Len(s) - 1) /\ (i - 1) + 1 = i
    BY <1>1, <2>1, Taken
  <2>3. Tail(s)[i - 1] = x
    BY <2>1, <2>2, Taken
  <2> QED
    BY <2>2, <2>3, Taken DEF InSeq
<1>2. ASSUME InSeq(x, Tail(s)) PROVE InSeq(x, s)
  <2>1. PICK i \in 1..(Len(s) - 1) : Tail(s)[i] = x
    BY <1>2, Taken DEF InSeq
  <2>2. i + 1 \in 1..Len(s)
    BY Taken
  <2> QED
    BY <2>1, <2>2, Taken DEF InSeq
<1>3. ASSUME x = Head(s) PROVE InSeq(x, s)
  <2>1. 1 \in DOMAIN s
    BY Taken
  <2> QED
    BY <1>3, <2>1, Taken DEF InSeq
<1> QED
  BY <1>1, <1>2, <1>3

LEMMA NothingIn == \A x : ~InSeq(x, <<>>)
  BY DEF InSeq

----------------------------------------------------------------------------
\* A copy the broker has: queued, or delivered and not acked.
Held(c) == InSeq(c, queue) \/ \E p \in Process : unacked[p] = c

\* m is settled or the broker has a copy of it of at least k retries.
Kept(m, k) == Settled(m) \/ \E c \in Copy : Held(c) /\ c.m = m /\ c.retries >= k

\* A copy's retries are handlers that threw, a dead letter one more.
Earned(c, sent, thrown) == c.m \in sent /\ thrown[c.m] >= c.retries
FrameEarned(f, sent, thrown) ==
  /\ f.m \in sent
  /\ f.kind = "publish" => thrown[f.m] >= f.retries
  /\ f.kind = "deadLetter" => thrown[f.m] > MaxRetries
CountsEarned ==
  /\ \A c \in Copy : Held(c) => Earned(c, accepted, throws)
  /\ \A p \in Process : handling[p] # None => Earned(handling[p], accepted, throws)
  /\ \A p \in Process : \A i \in DOMAIN wire[p] : FrameEarned(wire[p][i], accepted, throws)

\* A closed channel has nothing under way, and the copy the broker waits for is
\* the one an open channel's handler has.
ChannelOK(p) ==
  /\ consuming[p] => open[p]
  /\ open[p] => up[p]
  /\ ~open[p] => wire[p] = <<>> /\ unacked[p] = None
  /\ ~up[p] => handling[p] = None
  /\ (open[p] /\ handling[p] # None) => unacked[p] = handling[p]

\* The frames of p that follow a handler, for the copy c: at most one ack, for c,
\* sent when what replaces c is ahead of it, with the broker, or not needed.
\* What replaces c has more retries, or two acks could cover for each other.
AckBacked(p, i) ==
  \E c \in Copy :
    /\ unacked[p] = c /\ handling[p] = None
    /\ \A j \in DOMAIN wire[p] : wire[p][j].kind = "ack" => j = i
    /\ Kept(c.m, c.retries + 1) \/ \E j \in 1..(i - 1) : wire[p][j] = Again(c)
Acks == \A p \in Process : \A i \in DOMAIN wire[p] : wire[p][i].kind = "ack" => AckBacked(p, i)

ArrivedKept == \A m \in arrived : Kept(m, 0)

QInv ==
  /\ TypeOK
  /\ CountsEarned
  /\ \A p \in Process : ChannelOK(p)
  /\ Acks
  /\ ArrivedKept
  /\ DeadLettersEarned

----------------------------------------------------------------------------
LEMMA CopiesAreNotNone == \A c \in Copy : c # None /\ c.m \in Message /\ c.retries \in 0..3
<1>1. \A c \in Copy : c \in [m : Message, retries : Nat]
  BY DEF Copy, MaxRetries
<1> QED
  BY <1>1, QueueAssumption DEF Copy, MaxRetries

LEMMA FramesTyped ==
  ASSUME NEW c \in Copy
  PROVE  /\ Ack(c.m) \in Frame /\ Again(c) \in Frame
         /\ Ack(c.m).kind = "ack" /\ Again(c).kind \in {"publish", "deadLetter"}
         /\ Ack(c.m).m = c.m /\ Again(c).m = c.m
         /\ Again(c).kind = "publish" => Again(c).retries = c.retries + 1
         /\ Again(c).kind = "deadLetter" => c.retries = MaxRetries
  BY CopiesAreNotNone DEF Ack, Again, Publish, DeadLetter, Frame, Copy, MaxRetries

LEMMA PublishTyped ==
  ASSUME NEW m \in Message
  PROVE  Publish(m, 0) \in Frame /\ Publish(m, 0).kind = "publish"
         /\ Publish(m, 0).m = m /\ Publish(m, 0).retries = 0
  BY DEF Publish, Frame, MaxRetries

LEMMA FrameParts ==
  ASSUME NEW f \in Frame
  PROVE  /\ f.kind \in {"publish", "deadLetter", "ack"} /\ f.m \in Message
         /\ [m |-> f.m, retries |-> f.retries] \in Copy
  BY DEF Frame, Copy

\* What p's broker frame does, one disjunct per kind.
TakePublish(p) ==
  LET f == Head(wire[p]) IN
  /\ f.kind = "publish"
  /\ queue' = Append(queue, [m |-> f.m, retries |-> f.retries])
  /\ arrived' = arrived \cup {f.m}
  /\ UNCHANGED <<dlq, unacked>>
TakeDeadLetter(p) ==
  LET f == Head(wire[p]) IN
  /\ f.kind = "deadLetter"
  /\ dlq' = Append(dlq, f.m)
  /\ UNCHANGED <<queue, unacked, arrived>>
TakeAck(p) ==
  LET f == Head(wire[p]) IN
  /\ f.kind = "ack"
  /\ unacked' = [unacked EXCEPT ![p] = None]
  /\ UNCHANGED <<queue, dlq, arrived>>
Took(p) ==
  /\ wire[p] # <<>>
  /\ wire' = [wire EXCEPT ![p] = Tail(@)]
  /\ UNCHANGED <<consuming, up, open, handling, accepted, returns, throws, losses>>

LEMMA ReceiveSplit ==
  ASSUME NEW p \in Process, BrokerReceive(p)
  PROVE  Took(p) /\ (TakePublish(p) \/ TakeDeadLetter(p) \/ TakeAck(p))
  BY DEF BrokerReceive, Took, TakePublish, TakeDeadLetter, TakeAck, process, counts

\* The wire of a process is the only one a step changes, and how.
LEMMA WireKept ==
  ASSUME TypeOK, NEW p \in Process, Took(p)
  PROVE  /\ wire'[p] = Tail(wire[p])
         /\ \A q \in Process : q # p => wire'[q] = wire[q]
         /\ wire' \in [Process -> Seq(Frame)]
         /\ Head(wire[p]) \in Frame
<1>1. wire[p] \in Seq(Frame) /\ wire[p] # <<>>
  BY DEF TypeOK, Took
<1>2. Tail(wire[p]) \in Seq(Frame) /\ Head(wire[p]) \in Frame
  BY <1>1, Taken
<1> QED
  BY <1>2 DEF TypeOK, Took

LEMMA InitHolds == Init => QInv
<1> SUFFICES ASSUME Init PROVE QInv
  OBVIOUS
<1>1. TypeOK
  BY QueueAssumption DEF Init, TypeOK
<1>2. CountsEarned /\ Acks /\ ArrivedKept /\ DeadLettersEarned
  BY CopiesAreNotNone, NothingIn
  DEF Init, CountsEarned, Held, Earned, Acks, ArrivedKept, DeadLettersEarned
<1>3. \A p \in Process : ChannelOK(p)
  BY DEF Init, ChannelOK
<1> QED
  BY <1>1, <1>2, <1>3 DEF QInv

LEMMA HeadEarned ==
  ASSUME QInv, NEW p \in Process, wire[p] # <<>>
  PROVE  FrameEarned(Head(wire[p]), accepted, throws) /\ Head(wire[p]) = wire[p][1] /\ 1 \in DOMAIN wire[p]
<1>1. wire[p] \in Seq(Frame)
  BY DEF QInv, TypeOK
<1>2. Head(wire[p]) = wire[p][1] /\ 1 \in DOMAIN wire[p]
  BY <1>1, Taken
<1> QED
  BY <1>2 DEF QInv, CountsEarned

\* What a lost connection leaves of the queue.
LEMMA QueueAfterLoss ==
  ASSUME TypeOK, NEW p \in Process, Disconnected(p)
  PROVE  /\ queue' \in Seq(Copy)
         /\ \A c \in Copy : InSeq(c, queue') <=> InSeq(c, queue) \/ c = unacked[p]
         /\ unacked'[p] = None /\ \A q \in Process : q # p => unacked'[q] = unacked[q]
<1>1. /\ unacked'[p] = None /\ \A q \in Process : q # p => unacked'[q] = unacked[q]
  BY DEF Disconnected, TypeOK
<1>2. CASE unacked[p] = None
  BY <1>1, <1>2, CopiesAreNotNone DEF Disconnected, TypeOK
<1>3. CASE unacked[p] # None
  <2>1. unacked[p] \in Copy /\ queue \in Seq(Copy) /\ queue' = <<unacked[p]>> \o queue
    BY <1>3 DEF TypeOK, Disconnected
  <2> QED
    BY <1>1, <2>1, Prepended, InPrepended
<1> QED
  BY <1>2, <1>3

LEMMA NextTyped ==
  ASSUME QInv, [Next]_vars
  PROVE  TypeOK'
<1> USE QueueAssumption
<1>0. TypeOK
  BY DEF QInv
<1>1. CASE UNCHANGED vars
  BY <1>0, <1>1 DEF TypeOK, vars
<1>2. ASSUME NEW p \in Process, Start(p)
      PROVE  TypeOK'
  <2>1. losses' \in 0..MaxLosses
    BY <1>0, <1>2 DEF TypeOK, Start
  <2>2. /\ consuming' \in [Process -> BOOLEAN] /\ up' \in [Process -> BOOLEAN]
        /\ open' \in [Process -> BOOLEAN]
    BY <1>0, <1>2 DEF TypeOK, Start
  <2> QED
    BY <1>0, <1>2, <2>1, <2>2 DEF TypeOK, Start, counts
<1>3. ASSUME NEW p \in Process, NEW m \in Message, AddToQueue(p, m)
      PROVE  TypeOK'
  <2>1. wire[p] \in Seq(Frame)
    BY <1>0 DEF TypeOK
  <2>2. Append(wire[p], Publish(m, 0)) \in Seq(Frame)
    BY <2>1, PublishTyped, Appended
  <2>3. wire' \in [Process -> Seq(Frame)]
    BY <1>0, <1>3, <2>2 DEF TypeOK, AddToQueue
  <2> QED
    BY <1>0, <1>3, <2>3 DEF TypeOK, AddToQueue, broker, process, counts
<1>4. ASSUME NEW p \in Process, BrokerReceive(p)
      PROVE  TypeOK'
  <2>1. Took(p) /\ (TakePublish(p) \/ TakeDeadLetter(p) \/ TakeAck(p))
    BY <1>4, ReceiveSplit
  <2>2. wire' \in [Process -> Seq(Frame)] /\ Head(wire[p]) \in Frame
    BY <1>0, <2>1, WireKept
  <2>3. Head(wire[p]).m \in accepted
    BY <2>1, HeadEarned DEF FrameEarned, Took
  <2>4. CASE TakePublish(p)
    <3>1. queue' \in Seq(Copy)
      BY <1>0, <2>2, <2>4, FrameParts, Appended DEF TypeOK, TakePublish
    <3> QED
      BY <1>0, <2>1, <2>2, <2>3, <2>4, <3>1 DEF TypeOK, TakePublish, Took
  <2>5. CASE TakeDeadLetter(p)
    <3>1. dlq' \in Seq(Message)
      BY <1>0, <2>2, <2>5, FrameParts, Appended DEF TypeOK, TakeDeadLetter
    <3> QED
      BY <1>0, <2>1, <2>2, <2>5, <3>1 DEF TypeOK, TakeDeadLetter, Took
  <2>6. CASE TakeAck(p)
    BY <1>0, <2>1, <2>2, <2>6 DEF TypeOK, TakeAck, Took
  <2> QED
    BY <2>1, <2>4, <2>5, <2>6
<1>5. ASSUME NEW p \in Process, Deliver(p)
      PROVE  TypeOK'
  <2>1. Head(queue) \in Copy /\ Tail(queue) \in Seq(Copy)
    BY <1>0, <1>5, Taken DEF TypeOK, Deliver
  <2> QED
    BY <1>0, <1>5, <2>1 DEF TypeOK, Deliver, counts
<1>6. ASSUME NEW p \in Process, HandlerReturns(p)
      PROVE  TypeOK'
  <2>1. handling[p] \in Copy /\ wire[p] \in Seq(Frame)
    BY <1>0, <1>6 DEF TypeOK, HandlerReturns
  <2>2. wire[p] \o DoneFrames(handling[p]) \in Seq(Frame)
    BY <2>1, FramesTyped, OneAppended DEF DoneFrames
  <2>3. wire' \in [Process -> Seq(Frame)] /\ up' \in [Process -> BOOLEAN] /\ open' = open
    BY <1>0, <1>6, <2>2 DEF TypeOK, HandlerReturns, DieUnhandled
  <2>4. returns' \in [Message -> Nat]
    BY <1>0, <1>6, <2>1, CopiesAreNotNone DEF TypeOK, HandlerReturns
  <2> QED
    BY <1>0, <1>6, <2>3, <2>4 DEF TypeOK, HandlerReturns, broker
<1>7. ASSUME NEW p \in Process, HandlerThrows(p)
      PROVE  TypeOK'
  <2>1. handling[p] \in Copy /\ wire[p] \in Seq(Frame)
    BY <1>0, <1>7 DEF TypeOK, HandlerThrows
  <2>2. wire[p] \o RetryFrames(handling[p]) \in Seq(Frame)
    BY <2>1, FramesTyped, PairAppended DEF RetryFrames
  <2>3. wire' \in [Process -> Seq(Frame)] /\ up' \in [Process -> BOOLEAN] /\ open' = open
    BY <1>0, <1>7, <2>2 DEF TypeOK, HandlerThrows, DieUnhandled
  <2>4. throws' \in [Message -> Nat]
    BY <1>0, <1>7, <2>1, CopiesAreNotNone DEF TypeOK, HandlerThrows
  <2> QED
    BY <1>0, <1>7, <2>3, <2>4 DEF TypeOK, HandlerThrows, broker
<1>8. ASSUME NEW p \in Process, ConnectionLost(p)
      PROVE  TypeOK'
  <2>1. queue' \in Seq(Copy)
    BY <1>0, <1>8, QueueAfterLoss DEF ConnectionLost
  <2> QED
    BY <1>0, <1>8, <2>1 DEF TypeOK, ConnectionLost, Disconnected, counts
<1>9. ASSUME NEW p \in Process, Crash(p)
      PROVE  TypeOK'
  <2>1. queue' \in Seq(Copy)
    BY <1>0, <1>9, QueueAfterLoss DEF Crash
  <2> QED
    BY <1>0, <1>9, <2>1 DEF TypeOK, Crash, Disconnected, counts
<1> QED
  BY <1>1, <1>2, <1>3, <1>4, <1>5, <1>6, <1>7, <1>8, <1>9 DEF Next

LEMMA NextChannels ==
  ASSUME QInv, [Next]_vars, NEW p \in Process
  PROVE  ChannelOK(p)'
<1>0. TypeOK /\ \A q \in Process : ChannelOK(q)
  BY DEF QInv
<1>1. CASE UNCHANGED vars
  BY <1>0, <1>1 DEF ChannelOK, vars
<1>2. ASSUME NEW q \in Process, Start(q)
      PROVE  ChannelOK(p)'
  BY <1>0, <1>2 DEF TypeOK, ChannelOK, Start
<1>3. ASSUME NEW q \in Process, NEW m \in Message, AddToQueue(q, m)
      PROVE  ChannelOK(p)'
  BY <1>0, <1>3 DEF TypeOK, ChannelOK, AddToQueue, broker, process
<1>4. ASSUME NEW q \in Process, BrokerReceive(q)
      PROVE  ChannelOK(p)'
  <2>1. Took(q) /\ (TakePublish(q) \/ TakeDeadLetter(q) \/ TakeAck(q))
    BY <1>4, ReceiveSplit
  <2>2. CASE p # q
    BY <1>0, <2>1, <2>2, WireKept
    DEF TypeOK, ChannelOK, Took, TakePublish, TakeDeadLetter, TakeAck
  <2>3. CASE p = q
    <3>1. open[p]
      BY <1>0, <2>1, <2>3 DEF ChannelOK, Took
    <3>2. Head(wire[p]).kind # "ack" => unacked' = unacked
      BY <2>1, <2>3 DEF TakePublish, TakeDeadLetter, TakeAck
    <3>3. Head(wire[p]).kind = "ack" => handling[p] = None
      BY <2>1, <2>3, HeadEarned DEF QInv, Acks, AckBacked, Took
    <3> QED
      BY <1>0, <2>1, <2>3, <3>1, <3>2, <3>3 DEF ChannelOK, Took
  <2> QED
    BY <2>2, <2>3
<1>5. ASSUME NEW q \in Process, Deliver(q)
      PROVE  ChannelOK(p)'
  BY <1>0, <1>5 DEF TypeOK, ChannelOK, Deliver
<1>6. ASSUME NEW q \in Process, HandlerReturns(q)
      PROVE  ChannelOK(p)'
  BY <1>0, <1>6 DEF TypeOK, ChannelOK, HandlerReturns, DieUnhandled, broker
<1>7. ASSUME NEW q \in Process, HandlerThrows(q)
      PROVE  ChannelOK(p)'
  BY <1>0, <1>7 DEF TypeOK, ChannelOK, HandlerThrows, DieUnhandled, broker
<1>8. ASSUME NEW q \in Process, ConnectionLost(q)
      PROVE  ChannelOK(p)'
  BY <1>0, <1>8 DEF TypeOK, ChannelOK, ConnectionLost, Disconnected
<1>9. ASSUME NEW q \in Process, Crash(q)
      PROVE  ChannelOK(p)'
  BY <1>0, <1>9 DEF TypeOK, ChannelOK, Crash, Disconnected
<1> QED
  BY <1>1, <1>2, <1>3, <1>4, <1>5, <1>6, <1>7, <1>8, <1>9 DEF Next

----------------------------------------------------------------------------
\* Counters and sets only grow.
LEMMA OnlyGrows ==
  ASSUME QInv, [Next]_vars
  PROVE  /\ accepted \subseteq accepted'
         /\ \A m \in Message : throws'[m] >= throws[m] /\ returns'[m] >= returns[m]
         /\ \A m \in Message : InSeq(m, dlq) => InSeq(m, dlq')
<1>0. TypeOK
  BY DEF QInv
<1>1. CASE UNCHANGED vars
  BY <1>0, <1>1 DEF TypeOK, vars
<1>2. ASSUME NEW p \in Process, BrokerReceive(p)
      PROVE  /\ UNCHANGED <<accepted, returns, throws>>
             /\ \A m \in Message : InSeq(m, dlq) => InSeq(m, dlq')
  <2>1. Took(p) /\ (TakePublish(p) \/ TakeDeadLetter(p) \/ TakeAck(p)) /\ Head(wire[p]) \in Frame
    BY <1>0, <1>2, ReceiveSplit, WireKept
  <2>2. CASE TakeDeadLetter(p)
    BY <1>0, <2>1, <2>2, FrameParts, InAppended DEF TypeOK, TakeDeadLetter, Took
  <2> QED
    BY <2>1, <2>2 DEF TakePublish, TakeAck, Took
<1>3. ASSUME NEW p \in Process, HandlerReturns(p)
      PROVE  /\ UNCHANGED <<accepted, throws, dlq>>
             /\ \A m \in Message : returns'[m] >= returns[m]
  BY <1>0, <1>3 DEF TypeOK, HandlerReturns, broker
<1>4. ASSUME NEW p \in Process, HandlerThrows(p)
      PROVE  /\ UNCHANGED <<accepted, returns, dlq>>
             /\ \A m \in Message : throws'[m] >= throws[m]
  BY <1>0, <1>4 DEF TypeOK, HandlerThrows, broker
<1>5. ASSUME NEW p \in Process,
             Start(p) \/ Deliver(p) \/ ConnectionLost(p) \/ Crash(p)
                      \/ \E m \in Message : AddToQueue(p, m)
      PROVE  UNCHANGED <<returns, throws, dlq>> /\ accepted \subseteq accepted'
  BY <1>5 DEF Start, Deliver, ConnectionLost, Crash, AddToQueue, broker, counts
<1>6. \A m \in Message : throws[m] >= throws[m] /\ returns[m] >= returns[m]
  BY <1>0 DEF TypeOK
<1>7. CASE Next
  <2>1. PICK p \in Process :
          \/ Start(p) \/ BrokerReceive(p) \/ Deliver(p) \/ HandlerReturns(p) \/ HandlerThrows(p)
          \/ ConnectionLost(p) \/ Crash(p) \/ \E m \in Message : AddToQueue(p, m)
    BY <1>7 DEF Next
  <2>2. CASE BrokerReceive(p)
    BY <1>2, <1>6, <2>2
  <2>3. CASE HandlerReturns(p)
    BY <1>3, <1>6, <2>3
  <2>4. CASE HandlerThrows(p)
    BY <1>4, <1>6, <2>4
  <2>5. CASE Start(p) \/ Deliver(p) \/ ConnectionLost(p) \/ Crash(p)
                      \/ \E m \in Message : AddToQueue(p, m)
    BY <1>5, <1>6, <2>5
  <2> QED
    BY <2>1, <2>2, <2>3, <2>4, <2>5
<1> QED
  BY <1>1, <1>7

LEMMA EarnedStays ==
  ASSUME QInv, [Next]_vars
  PROVE  /\ \A c \in Copy : Earned(c, accepted, throws) => Earned(c, accepted', throws')
         /\ \A f \in Frame : FrameEarned(f, accepted, throws) => FrameEarned(f, accepted', throws')
<1>1. TypeOK /\ TypeOK'
  BY NextTyped DEF QInv
<1>2. ASSUME NEW c \in Copy, Earned(c, accepted, throws) PROVE Earned(c, accepted', throws')
  <2>1. c.m \in Message /\ c.retries \in Nat
    BY CopiesAreNotNone
  <2>2. throws[c.m] \in Nat /\ throws'[c.m] \in Nat
    BY <1>1, <2>1 DEF TypeOK
  <2> QED
    BY <1>2, <2>1, <2>2, OnlyGrows DEF Earned
<1>3. ASSUME NEW f \in Frame, FrameEarned(f, accepted, throws) PROVE FrameEarned(f, accepted', throws')
  <2>1. f.m \in Message /\ f.retries \in Nat
    BY DEF Frame, MaxRetries
  <2>2. throws[f.m] \in Nat /\ throws'[f.m] \in Nat
    BY <1>1, <2>1 DEF TypeOK
  <2> QED
    BY <1>3, <2>1, <2>2, OnlyGrows DEF FrameEarned, MaxRetries
<1> QED
  BY <1>2, <1>3

\* A copy the broker comes to have was held or is published by the step.
LEMMA HeldBefore ==
  ASSUME QInv, [Next]_vars, NEW c \in Copy, Held(c)'
  PROVE  \/ Held(c)
         \/ \E p \in Process : TakePublish(p) /\ wire[p] # <<>> /\ c.m = Head(wire[p]).m
                               /\ c.retries = Head(wire[p]).retries
<1>0. TypeOK
  BY DEF QInv
<1>1. CASE UNCHANGED <<queue, unacked>>
  BY <1>1 DEF Held
<1>2. ASSUME NEW p \in Process, BrokerReceive(p), ~Held(c)
      PROVE  TakePublish(p) /\ wire[p] # <<>> /\ c.m = Head(wire[p]).m
             /\ c.retries = Head(wire[p]).retries
  <2>1. Took(p) /\ (TakePublish(p) \/ TakeDeadLetter(p) \/ TakeAck(p)) /\ Head(wire[p]) \in Frame
    BY <1>0, <1>2, ReceiveSplit, WireKept
  <2>2. CASE TakePublish(p)
    BY <1>0, <1>2, <2>1, <2>2, FrameParts, InAppended DEF TypeOK, TakePublish, Took, Held
  <2>3. CASE TakeDeadLetter(p)
    BY <1>2, <2>3 DEF TakeDeadLetter, Held
  <2>4. CASE TakeAck(p)
    BY <1>0, <1>2, <2>4, CopiesAreNotNone DEF TypeOK, TakeAck, Held
  <2> QED
    BY <2>1, <2>2, <2>3, <2>4
<1>3. ASSUME NEW p \in Process, Deliver(p)
      PROVE  Held(c)
  BY <1>0, <1>3, InTaken DEF TypeOK, Deliver, Held
<1>4. ASSUME NEW p \in Process, ConnectionLost(p) \/ Crash(p)
      PROVE  Held(c)
  <2>1. Disconnected(p)
    BY <1>4 DEF ConnectionLost, Crash
  <2> QED
    BY <1>0, <2>1, QueueAfterLoss, CopiesAreNotNone DEF Held
<1>5. ASSUME NEW p \in Process,
             Start(p) \/ HandlerReturns(p) \/ HandlerThrows(p)
                      \/ \E m \in Message : AddToQueue(p, m)
      PROVE  UNCHANGED <<queue, unacked>>
  BY <1>5 DEF Start, HandlerReturns, HandlerThrows, AddToQueue, broker
<1> QED
  BY <1>1, <1>2, <1>3, <1>4, <1>5 DEF Next, vars

\* Who writes to a wire, or reads from it.
LEMMA WireChanges ==
  ASSUME TypeOK, [Next]_vars, NEW p \in Process, wire'[p] # wire[p], wire'[p] # <<>>
  PROVE  BrokerReceive(p) \/ HandlerReturns(p) \/ HandlerThrows(p)
         \/ \E m \in Message : AddToQueue(p, m)
<1>1. PICK q \in Process :
        \/ Start(q) \/ BrokerReceive(q) \/ Deliver(q) \/ HandlerReturns(q) \/ HandlerThrows(q)
        \/ ConnectionLost(q) \/ Crash(q) \/ \E m \in Message : AddToQueue(q, m)
  BY DEF Next, vars
<1>2. ASSUME Start(q) \/ Deliver(q)
      PROVE  FALSE
  BY <1>2 DEF Start, Deliver
<1>3. ASSUME ConnectionLost(q) \/ Crash(q)
      PROVE  FALSE
  BY <1>3 DEF TypeOK, ConnectionLost, Crash, Disconnected
<1>4. ASSUME \/ BrokerReceive(q) \/ HandlerReturns(q) \/ HandlerThrows(q)
             \/ \E m \in Message : AddToQueue(q, m)
      PROVE  p = q
  <2>1. PICK w : wire' = [wire EXCEPT ![q] = w]
    BY <1>4 DEF BrokerReceive, HandlerReturns, HandlerThrows, AddToQueue, DieUnhandled, TypeOK
  <2> QED
    BY <2>1 DEF TypeOK
<1> QED
  BY <1>1, <1>2, <1>3, <1>4

LEMMA NextCounted ==
  ASSUME QInv, [Next]_vars
  PROVE  CountsEarned' /\ DeadLettersEarned'
<1>0. TypeOK /\ TypeOK' /\ CountsEarned /\ DeadLettersEarned
  BY NextTyped DEF QInv
<1>1. ASSUME NEW c \in Copy, Held(c)'
      PROVE  Earned(c, accepted', throws')
  <2>1. CASE Held(c)
    BY <1>0, <2>1, EarnedStays DEF CountsEarned
  <2>2. ASSUME NEW p \in Process, TakePublish(p), wire[p] # <<>>, c.m = Head(wire[p]).m,
               c.retries = Head(wire[p]).retries
        PROVE  Earned(c, accepted, throws)
    BY <2>2, HeadEarned DEF TakePublish, FrameEarned, Earned
  <2> QED
    BY <1>1, <2>1, <2>2, HeldBefore, EarnedStays
<1>2. ASSUME NEW p \in Process, handling'[p] # None
      PROVE  Earned(handling'[p], accepted', throws') 
  <2>1. CASE handling'[p] = handling[p]
    BY <1>0, <1>2, <2>1, EarnedStays DEF TypeOK, CountsEarned, Earned
  <2>2. CASE handling'[p] # handling[p]
    <3>1. handling'[p] \in Copy /\ Deliver(p)
      BY <1>0, <1>2, <2>2
      DEF TypeOK, Next, vars, Start, AddToQueue, BrokerReceive, Deliver, HandlerReturns,
          HandlerThrows, ConnectionLost, Crash, process
    <3>2. handling'[p] = Head(queue) /\ InSeq(Head(queue), queue)
      BY <1>0, <3>1, InTaken DEF TypeOK, Deliver
    <3> QED
      BY <1>0, <3>1, <3>2, EarnedStays DEF CountsEarned, Held, Earned
  <2> QED
    BY <2>1, <2>2
<1>3. ASSUME NEW p \in Process
      PROVE  \A i \in DOMAIN wire'[p] : FrameEarned(wire'[p][i], accepted', throws')
  <2>0. wire[p] \in Seq(Frame) /\ \A i \in DOMAIN wire[p] : FrameEarned(wire[p][i], accepted, throws)
    BY <1>0 DEF TypeOK, CountsEarned
  <2>1. \A i \in DOMAIN wire[p] : FrameEarned(wire[p][i], accepted', throws')
    BY <2>0, EarnedStays
  <2>2. CASE wire'[p] = wire[p]
    BY <2>1, <2>2
  <2>3. CASE wire'[p] = <<>>
    BY <2>3
  <2>4. ASSUME NEW m \in Message, AddToQueue(p, m)
        PROVE  \A i \in DOMAIN wire'[p] : FrameEarned(wire'[p][i], accepted', throws')
    <3>1. wire'[p] = Append(wire[p], Publish(m, 0)) /\ m \in accepted' /\ throws'[m] \in Nat
      BY <1>0, <2>4 DEF TypeOK, AddToQueue
    <3>2. FrameEarned(Publish(m, 0), accepted', throws')
      BY <3>1 DEF FrameEarned, Publish
    <3> QED
      BY <2>0, <2>1, <3>1, <3>2, Appended, PublishTyped
  <2>5. ASSUME BrokerReceive(p)
        PROVE  \A i \in DOMAIN wire'[p] : FrameEarned(wire'[p][i], accepted', throws')
    <3>1. wire'[p] = Tail(wire[p]) /\ wire[p] # <<>>
      BY <1>0, <2>5, ReceiveSplit, WireKept DEF Took
    <3> QED
      BY <2>0, <2>1, <3>1, Taken
  <2>6. ASSUME HandlerReturns(p), wire'[p] # wire[p]
        PROVE  \A i \in DOMAIN wire'[p] : FrameEarned(wire'[p][i], accepted', throws')
    <3>1. handling[p] \in Copy /\ wire'[p] = wire[p] \o <<Ack(handling[p].m)>>
      BY <1>0, <2>6 DEF TypeOK, HandlerReturns, DieUnhandled, DoneFrames
    <3>2. handling[p].m \in accepted'
      BY <1>0, <2>6, OnlyGrows DEF CountsEarned, Earned, HandlerReturns
    <3>3. FrameEarned(Ack(handling[p].m), accepted', throws')
      BY <3>2 DEF FrameEarned, Ack
    <3> QED
      BY <2>0, <2>1, <3>1, <3>3, OneAppended, FramesTyped
  <2>7. ASSUME HandlerThrows(p), wire'[p] # wire[p]
        PROVE  \A i \in DOMAIN wire'[p] : FrameEarned(wire'[p][i], accepted', throws')
    <3>1. handling[p] \in Copy
          /\ wire'[p] = wire[p] \o <<Again(handling[p]), Ack(handling[p].m)>>
      BY <1>0, <2>7 DEF TypeOK, HandlerThrows, DieUnhandled, RetryFrames
    <3>2. handling[p].m \in accepted' /\ throws[handling[p].m] >= handling[p].retries
      BY <1>0, <2>7, OnlyGrows DEF CountsEarned, Earned, HandlerThrows
    <3>3. throws'[handling[p].m] >= handling[p].retries + 1 /\ throws'[handling[p].m] \in Nat
      <4>1. handling[p].m \in Message /\ handling[p].retries \in Nat
        BY <3>1, CopiesAreNotNone
      <4>2. throws'[handling[p].m] = throws[handling[p].m] + 1 /\ throws[handling[p].m] \in Nat
        BY <1>0, <2>7, <4>1 DEF TypeOK, HandlerThrows
      <4> QED
        BY <3>2, <4>1, <4>2
    <3>4. FrameEarned(Ack(handling[p].m), accepted', throws')
      BY <3>2 DEF FrameEarned, Ack
    <3>5. FrameEarned(Again(handling[p]), accepted', throws')
      <4>1. handling[p].retries \in 0..3 /\ Again(handling[p]).m = handling[p].m
            /\ (Again(handling[p]).kind = "publish"
                   => Again(handling[p]).retries = handling[p].retries + 1)
            /\ (Again(handling[p]).kind = "deadLetter" => handling[p].retries = 3)
        BY <3>1, FramesTyped, CopiesAreNotNone DEF MaxRetries
      <4> QED
        BY <3>2, <3>3, <4>1 DEF FrameEarned, MaxRetries
    <3> QED
      BY <2>0, <2>1, <3>1, <3>4, <3>5, PairAppended, FramesTyped
  <2>8. ASSUME wire'[p] # wire[p], wire'[p] # <<>>
        PROVE  BrokerReceive(p) \/ HandlerReturns(p) \/ HandlerThrows(p)
               \/ \E m \in Message : AddToQueue(p, m)
    BY <1>0, <2>8, WireChanges
  <2> QED
    BY <2>2, <2>3, <2>4, <2>5, <2>6, <2>7, <2>8
<1>4. ASSUME NEW m \in Message, InSeq(m, dlq')
      PROVE  throws'[m] > MaxRetries
  <2>1. CASE InSeq(m, dlq)
    BY <1>0, <2>1, OnlyGrows DEF DeadLettersEarned, TypeOK, MaxRetries
  <2>2. CASE ~InSeq(m, dlq)
    <3>1. PICK p \in Process : BrokerReceive(p)
      BY <1>4, <2>2
      DEF Next, vars, Start, AddToQueue, Deliver, HandlerReturns, HandlerThrows,
          ConnectionLost, Crash, broker
    <3>2. Took(p) /\ TakeDeadLetter(p)
      BY <1>4, <2>2, <3>1, ReceiveSplit DEF TakePublish, TakeAck
    <3>3. m = Head(wire[p]).m
      BY <1>0, <1>4, <2>2, <3>2, WireKept, FrameParts, InAppended DEF TypeOK, TakeDeadLetter
    <3> QED
      BY <1>0, <3>2, <3>3, HeadEarned DEF FrameEarned, TakeDeadLetter, Took
  <2> QED
    BY <2>1, <2>2
<1> QED
  BY <1>1, <1>2, <1>3, <1>4 DEF CountsEarned, DeadLettersEarned

----------------------------------------------------------------------------
LEMMA SettledStays ==
  ASSUME QInv, [Next]_vars, NEW m \in Message, Settled(m)
  PROVE  Settled(m)'
<1>1. returns[m] \in Nat /\ returns'[m] \in Nat /\ returns'[m] >= returns[m]
  BY NextTyped, OnlyGrows DEF QInv, TypeOK
<1>2. InSeq(m, dlq) => InSeq(m, dlq')
  BY OnlyGrows
<1> QED
  BY <1>1, <1>2 DEF Settled

\* The broker gives a copy up only for an ack, which something backs.
LEMMA HeldStays ==
  ASSUME QInv, [Next]_vars, NEW c \in Copy, Held(c)
  PROVE  Held(c)' \/ Kept(c.m, c.retries)'
<1>0. TypeOK
  BY DEF QInv
<1>1. CASE UNCHANGED <<queue, unacked>>
  BY <1>1 DEF Held
<1>2. ASSUME NEW p \in Process, BrokerReceive(p)
      PROVE  Held(c)' \/ Kept(c.m, c.retries)'
  <2>1. Took(p) /\ (TakePublish(p) \/ TakeDeadLetter(p) \/ TakeAck(p)) /\ Head(wire[p]) \in Frame
    BY <1>0, <1>2, ReceiveSplit, WireKept
  <2>2. CASE TakePublish(p)
    BY <1>0, <2>1, <2>2, FrameParts, InAppended DEF TypeOK, TakePublish, Held
  <2>3. CASE TakeDeadLetter(p)
    BY <2>3 DEF TakeDeadLetter, Held
  <2>4. CASE TakeAck(p)
    <3>1. PICK b \in Copy : unacked[p] = b /\ Kept(b.m, b.retries + 1)
      <4>1. AckBacked(p, 1)
        BY <2>1, <2>4, HeadEarned DEF QInv, Acks, Took, TakeAck
      <4>2. ~\E j \in 1..(1 - 1) : TRUE
        OBVIOUS
      <4> QED
        BY <4>1, <4>2 DEF AckBacked
    <3>2. \A d \in Copy : Held(d) /\ d # b => Held(d)'
      BY <1>0, <2>4, <3>1 DEF TypeOK, TakeAck, Held
    <3>3. CASE c # b
      BY <3>2, <3>3
    <3>4. CASE c = b /\ Settled(b.m)
      BY <3>4, SettledStays, CopiesAreNotNone DEF Kept
    <3>5. ASSUME c = b, NEW d \in Copy, Held(d), d.m = b.m, d.retries >= b.retries + 1
          PROVE  Kept(c.m, c.retries)'
      <4>1. d # b /\ d.retries >= c.retries
        BY <3>5, CopiesAreNotNone
      <4>2. Held(d)'
        BY <3>2, <3>5, <4>1
      <4> QED
        BY <3>5, <4>1, <4>2 DEF Kept
    <3> QED
      BY <3>1, <3>3, <3>4, <3>5 DEF Kept
  <2> QED
    BY <2>1, <2>2, <2>3, <2>4
<1>3. ASSUME NEW p \in Process, Deliver(p)
      PROVE  Held(c)'
  <2>1. queue' = Tail(queue) /\ queue \in Seq(Copy) /\ queue # <<>> /\ unacked[p] = None
        /\ unacked' = [unacked EXCEPT ![p] = Head(queue)]
    BY <1>0, <1>3 DEF TypeOK, Deliver
  <2>2. CASE InSeq(c, queue)
    BY <1>0, <2>1, <2>2, InTaken DEF TypeOK, Held
  <2>3. ASSUME NEW q \in Process, unacked[q] = c
        PROVE  Held(c)'
    BY <1>0, <2>1, <2>3, CopiesAreNotNone DEF TypeOK, Held
  <2> QED
    BY <2>2, <2>3 DEF Held
<1>4. ASSUME NEW p \in Process, ConnectionLost(p) \/ Crash(p)
      PROVE  Held(c)'
  <2>1. Disconnected(p)
    BY <1>4 DEF ConnectionLost, Crash
  <2> QED
    BY <1>0, <2>1, QueueAfterLoss DEF Held
<1>5. ASSUME NEW p \in Process,
             Start(p) \/ HandlerReturns(p) \/ HandlerThrows(p)
                      \/ \E m \in Message : AddToQueue(p, m)
      PROVE  UNCHANGED <<queue, unacked>>
  BY <1>5 DEF Start, HandlerReturns, HandlerThrows, AddToQueue, broker
<1> QED
  BY <1>1, <1>2, <1>3, <1>4, <1>5 DEF Next, vars

LEMMA KeptStays ==
  ASSUME QInv, [Next]_vars, NEW m \in Message, NEW k \in Nat, Kept(m, k)
  PROVE  Kept(m, k)'
<1>1. CASE Settled(m)
  BY <1>1, SettledStays DEF Kept
<1>2. ASSUME NEW c \in Copy, Held(c), c.m = m, c.retries >= k
      PROVE  Kept(m, k)'
  <2>1. CASE Held(c)'
    BY <1>2, <2>1 DEF Kept
  <2>2. CASE Kept(c.m, c.retries)'
    <3>1. CASE Settled(m)'
      BY <3>1 DEF Kept
    <3>2. ASSUME NEW d \in Copy, Held(d)', d.m = m, d.retries >= c.retries
          PROVE  Kept(m, k)'
      <4>1. d.retries >= k
        BY <1>2, <3>2, CopiesAreNotNone
      <4> QED
        BY <3>2, <4>1 DEF Kept
    <3> QED
      BY <1>2, <2>2, <3>1, <3>2 DEF Kept
  <2> QED
    BY <1>2, <2>1, <2>2, HeldStays
<1> QED
  BY <1>1, <1>2 DEF Kept

----------------------------------------------------------------------------
\* What backs an ack goes on backing it.
LEMMA BackingStays ==
  ASSUME QInv, [Next]_vars, NEW c \in Copy, Kept(c.m, c.retries + 1)
  PROVE  Kept(c.m, c.retries + 1)'
<1>1. c.m \in Message /\ c.retries + 1 \in Nat
  BY CopiesAreNotNone
<1> QED
  BY <1>1, KeptStays

\* Who changes the copy a process holds while it has frames on the wire.
LEMMA UnackedKept ==
  ASSUME QInv, [Next]_vars, NEW p \in Process, NEW i \in DOMAIN wire[p],
         wire[p][i].kind = "ack", wire'[p] # <<>>, ~(BrokerReceive(p) /\ i = 1)
  PROVE  unacked'[p] = unacked[p] /\ handling'[p] = None
<1>0. TypeOK /\ AckBacked(p, i)
  BY DEF QInv, Acks
<1>1. handling[p] = None /\ unacked[p] # None
  BY <1>0, CopiesAreNotNone DEF AckBacked
<1>2. CASE UNCHANGED vars
  BY <1>1, <1>2 DEF vars
<1>3. ASSUME NEW q \in Process, BrokerReceive(q)
      PROVE  unacked'[p] = unacked[p] /\ handling'[p] = None
  <2>1. Took(q) /\ (TakePublish(q) \/ TakeDeadLetter(q) \/ TakeAck(q))
    BY <1>3, ReceiveSplit
  <2>2. CASE ~TakeAck(q) \/ q # p
    BY <1>0, <1>1, <2>1, <2>2
    DEF TypeOK, Took, TakePublish, TakeDeadLetter, TakeAck
  <2>3. CASE TakeAck(q) /\ q = p
    <3>1. wire[p][1].kind = "ack" /\ 1 \in DOMAIN wire[p]
      BY <2>1, <2>3, HeadEarned DEF TakeAck, Took
    <3> QED
      BY <1>0, <1>3, <2>3, <3>1 DEF AckBacked
  <2> QED
    BY <2>1, <2>2, <2>3
<1>4. ASSUME NEW q \in Process, Deliver(q)
      PROVE  unacked'[p] = unacked[p] /\ handling'[p] = None
  BY <1>0, <1>1, <1>4 DEF TypeOK, Deliver
<1>5. ASSUME NEW q \in Process, HandlerReturns(q) \/ HandlerThrows(q)
      PROVE  unacked'[p] = unacked[p] /\ handling'[p] = None
  BY <1>0, <1>1, <1>5 DEF TypeOK, HandlerReturns, HandlerThrows, broker
<1>6. ASSUME NEW q \in Process, ConnectionLost(q) \/ Crash(q)
      PROVE  unacked'[p] = unacked[p] /\ handling'[p] = None
  <2>1. Disconnected(q)
    BY <1>6 DEF ConnectionLost, Crash
  <2>2. q # p
    BY <1>0, <2>1 DEF TypeOK, Disconnected
  <2> QED
    BY <1>0, <1>1, <1>6, <2>2 DEF TypeOK, ConnectionLost, Crash, Disconnected
<1>7. ASSUME NEW q \in Process, Start(q) \/ \E m \in Message : AddToQueue(q, m)
      PROVE  unacked'[p] = unacked[p] /\ handling'[p] = None
  BY <1>1, <1>7 DEF Start, AddToQueue, broker, process
<1> QED
  BY <1>2, <1>3, <1>4, <1>5, <1>6, <1>7 DEF Next

LEMMA NextAcks ==
  ASSUME QInv, [Next]_vars
  PROVE  Acks'
<1> SUFFICES ASSUME NEW p \in Process, NEW i \in DOMAIN wire'[p], wire'[p][i].kind = "ack"
             PROVE  AckBacked(p, i)'
  BY DEF Acks
<1>0. /\ TypeOK /\ wire[p] \in Seq(Frame) /\ DOMAIN wire[p] = 1..Len(wire[p])
      /\ Len(wire[p]) \in Nat /\ wire'[p] # <<>>
  BY DEF QInv, TypeOK
<1>1. ASSUME i \in DOMAIN wire[p], wire[p][i].kind = "ack", ~(BrokerReceive(p) /\ i = 1)
      PROVE  \E c \in Copy : /\ unacked'[p] = c /\ handling'[p] = None
                             /\ \A j \in DOMAIN wire[p] : wire[p][j].kind = "ack" => j = i
                             /\ \/ Kept(c.m, c.retries + 1)'
                                \/ \E j \in 1..(i - 1) : wire[p][j] = Again(c)
  <2>1. AckBacked(p, i)
    BY <1>1 DEF QInv, Acks
  <2>2. PICK c \in Copy :
          /\ unacked[p] = c
          /\ \A j \in DOMAIN wire[p] : wire[p][j].kind = "ack" => j = i
          /\ Kept(c.m, c.retries + 1) \/ \E j \in 1..(i - 1) : wire[p][j] = Again(c)
    BY <2>1 DEF AckBacked
  <2>3. unacked'[p] = c /\ handling'[p] = None
    BY <1>0, <1>1, <2>2, UnackedKept
  <2> QED
    BY <2>2, <2>3, BackingStays
<1>2. CASE wire'[p] = wire[p]
  <2>1. ~BrokerReceive(p)
    BY <1>0, <1>2, Taken DEF BrokerReceive, TypeOK
  <2> QED
    BY <1>1, <1>2, <2>1 DEF AckBacked
<1>3. ASSUME NEW m \in Message, AddToQueue(p, m)
      PROVE  AckBacked(p, i)'
  <2>1. wire'[p] = Append(wire[p], Publish(m, 0))
    BY <1>0, <1>3 DEF TypeOK, AddToQueue
  <2>2. /\ DOMAIN wire'[p] = 1..(Len(wire[p]) + 1)
        /\ \A j \in 1..Len(wire[p]) : wire'[p][j] = wire[p][j]
        /\ wire'[p][Len(wire[p]) + 1].kind # "ack"
    BY <1>0, <2>1, Appended, PublishTyped
  <2>3. i \in 1..Len(wire[p]) /\ wire[p][i].kind = "ack" /\ ~BrokerReceive(p)
    <3>1. i \in 1..Len(wire[p])
      BY <1>0, <2>2
    <3>2. accepted' # accepted
      BY <1>3 DEF AddToQueue
    <3> QED
      BY <2>2, <3>1, <3>2 DEF BrokerReceive
  <2>4. PICK c \in Copy : /\ unacked'[p] = c /\ handling'[p] = None
                          /\ \A j \in DOMAIN wire[p] : wire[p][j].kind = "ack" => j = i
                          /\ \/ Kept(c.m, c.retries + 1)'
                             \/ \E j \in 1..(i - 1) : wire[p][j] = Again(c)
    BY <1>0, <1>1, <2>3
  <2>5. \A j \in DOMAIN wire'[p] : wire'[p][j].kind = "ack" => j = i
    BY <1>0, <2>2, <2>4
  <2>6. \A j \in 1..(i - 1) : wire'[p][j] = wire[p][j]
    BY <1>0, <2>2, <2>3
  <2> QED
    BY <2>4, <2>5, <2>6 DEF AckBacked
<1>4. ASSUME BrokerReceive(p)
      PROVE  AckBacked(p, i)'
  <2>1. /\ Took(p) /\ (TakePublish(p) \/ TakeDeadLetter(p) \/ TakeAck(p))
        /\ Head(wire[p]) \in Frame /\ wire'[p] = Tail(wire[p])
    BY <1>0, <1>4, ReceiveSplit, WireKept
  <2>2. /\ DOMAIN wire'[p] = 1..(Len(wire[p]) - 1)
        /\ \A j \in 1..(Len(wire[p]) - 1) : wire'[p][j] = wire[p][j + 1]
        /\ Head(wire[p]) = wire[p][1]
    BY <1>0, <2>1, Taken DEF Took
  <2>3. i + 1 \in DOMAIN wire[p] /\ wire[p][i + 1].kind = "ack" /\ i + 1 # 1 /\ i \in Nat
    BY <1>0, <2>2
  <2>4. /\ AckBacked(p, i + 1)
        /\ unacked'[p] = unacked[p] /\ handling'[p] = None
    BY <1>0, <2>3, UnackedKept DEF QInv, Acks
  <2>5. PICK c \in Copy :
          /\ unacked'[p] = c
          /\ \A j \in DOMAIN wire[p] : wire[p][j].kind = "ack" => j = i + 1
          /\ Kept(c.m, c.retries + 1) \/ \E j \in 1..((i + 1) - 1) : wire[p][j] = Again(c)
    BY <2>4 DEF AckBacked
  <2>6. \A j \in DOMAIN wire'[p] : wire'[p][j].kind = "ack" => j = i
    <3> SUFFICES ASSUME NEW j \in DOMAIN wire'[p], wire'[p][j].kind = "ack"
                 PROVE  j = i
      OBVIOUS
    <3>1. j + 1 \in DOMAIN wire[p] /\ wire[p][j + 1].kind = "ack" /\ j \in Nat
      BY <1>0, <2>2
    <3> QED
      BY <2>3, <2>5, <3>1
  <2>7. CASE Kept(c.m, c.retries + 1)
    BY <2>4, <2>5, <2>6, <2>7, BackingStays DEF AckBacked
  <2>8. ASSUME NEW j \in 1..((i + 1) - 1), wire[p][j] = Again(c), j # 1
        PROVE  AckBacked(p, i)'
    <3>1. j - 1 \in 1..(i - 1) /\ (j - 1) + 1 = j /\ j - 1 \in 1..(Len(wire[p]) - 1)
      BY <1>0, <2>3, <2>8
    <3>2. wire'[p][j - 1] = Again(c)
      BY <2>2, <2>8, <3>1
    <3> QED
      BY <2>4, <2>5, <2>6, <3>1, <3>2 DEF AckBacked
  <2>9. ASSUME wire[p][1] = Again(c)
        PROVE  AckBacked(p, i)'
    <3>1. CASE TakePublish(p)
      <4>1. /\ queue' = Append(queue, [m |-> c.m, retries |-> c.retries + 1])
            /\ [m |-> c.m, retries |-> c.retries + 1] \in Copy
        BY <2>1, <2>2, <2>9, <3>1, FramesTyped, FrameParts DEF TakePublish
      <4>2. InSeq([m |-> c.m, retries |-> c.retries + 1], queue')
        BY <1>0, <4>1, InAppended DEF TypeOK
      <4>3. Kept(c.m, c.retries + 1)'
        BY <4>1, <4>2, CopiesAreNotNone DEF Kept, Held
      <4> QED
        BY <2>4, <2>5, <2>6, <4>3 DEF AckBacked
    <3>2. CASE TakeDeadLetter(p)
      <4>1. InSeq(c.m, dlq')
        BY <1>0, <2>2, <2>9, <3>2, FramesTyped, CopiesAreNotNone, InAppended
        DEF TypeOK, TakeDeadLetter
      <4>2. Kept(c.m, c.retries + 1)'
        BY <4>1 DEF Kept, Settled
      <4> QED
        BY <2>4, <2>5, <2>6, <4>2 DEF AckBacked
    <3>3. CASE TakeAck(p)
      BY <2>2, <2>9, <3>3, FramesTyped DEF TakeAck
    <3> QED
      BY <2>1, <3>1, <3>2, <3>3
  <2> QED
    BY <2>5, <2>7, <2>8, <2>9
<1>5. ASSUME HandlerReturns(p) \/ HandlerThrows(p), wire'[p] # wire[p]
      PROVE  AckBacked(p, i)'
  <2>1. PICK c \in Copy : handling[p] = c /\ handling'[p] = None /\ open[p] /\ unacked' = unacked
    BY <1>0, <1>5 DEF TypeOK, HandlerReturns, HandlerThrows, DieUnhandled, broker
  <2>2. unacked'[p] = c
    BY <2>1, CopiesAreNotNone DEF QInv, ChannelOK
  <2>3. \A j \in DOMAIN wire[p] : wire[p][j].kind # "ack"
    BY <2>1, CopiesAreNotNone DEF QInv, Acks, AckBacked
  <2>4. CASE HandlerReturns(p)
    <3>1. wire'[p] = wire[p] \o <<Ack(c.m)>>
      BY <1>0, <1>5, <2>1, <2>4 DEF TypeOK, HandlerReturns, DieUnhandled, DoneFrames
    <3>2. \A j \in DOMAIN wire'[p] : wire'[p][j].kind = "ack" => j = Len(wire[p]) + 1
      BY <1>0, <2>3, <3>1, OneAppended, FramesTyped
    <3>3. \A j \in DOMAIN wire'[p] : wire'[p][j].kind = "ack" => j = i
      BY <3>2
    <3>4. Settled(c.m)'
      <4>1. c.m \in Message /\ returns[c.m] \in Nat /\ returns'[c.m] = returns[c.m] + 1
        BY <1>0, <2>1, <2>4, CopiesAreNotNone DEF TypeOK, HandlerReturns
      <4> QED
        BY <4>1 DEF Settled
    <3>5. Kept(c.m, c.retries + 1)'
      BY <3>4 DEF Kept
    <3> QED
      BY <2>1, <2>2, <3>3, <3>5 DEF AckBacked
  <2>5. CASE HandlerThrows(p)
    <3>1. wire'[p] = wire[p] \o <<Again(c), Ack(c.m)>>
      BY <1>0, <1>5, <2>1, <2>5 DEF TypeOK, HandlerThrows, DieUnhandled, RetryFrames
    <3>2. \A j \in DOMAIN wire'[p] : wire'[p][j].kind = "ack" => j = Len(wire[p]) + 2
      <4>1. /\ DOMAIN wire'[p] = 1..(Len(wire[p]) + 2)
            /\ \A j \in 1..Len(wire[p]) : wire'[p][j] = wire[p][j]
            /\ wire'[p][Len(wire[p]) + 1] = Again(c)
        BY <1>0, <3>1, PairAppended, FramesTyped
      <4>2. Again(c).kind # "ack"
        BY FramesTyped
      <4> SUFFICES ASSUME NEW j \in DOMAIN wire'[p], wire'[p][j].kind = "ack"
                   PROVE  j = Len(wire[p]) + 2
        OBVIOUS
      <4>3. j # Len(wire[p]) + 1
        BY <4>1, <4>2
      <4>4. j \notin 1..Len(wire[p])
        BY <1>0, <2>3, <4>1
      <4> QED
        BY <1>0, <4>1, <4>3, <4>4
    <3>3. i = Len(wire[p]) + 2 /\ \A j \in DOMAIN wire'[p] : wire'[p][j].kind = "ack" => j = i
      BY <3>2
    <3>4. Len(wire[p]) + 1 \in 1..(i - 1) /\ wire'[p][Len(wire[p]) + 1] = Again(c)
      BY <1>0, <3>1, <3>3, PairAppended, FramesTyped
    <3> QED
      BY <2>1, <2>2, <3>3, <3>4 DEF AckBacked
  <2> QED
    BY <1>5, <2>4, <2>5
<1> QED
  BY <1>0, <1>2, <1>3, <1>4, <1>5, WireChanges

LEMMA NextArrived ==
  ASSUME QInv, [Next]_vars
  PROVE  ArrivedKept'
<1>0. TypeOK
  BY DEF QInv
<1> SUFFICES ASSUME NEW m \in arrived' PROVE Kept(m, 0)'
  BY DEF ArrivedKept
<1>1. CASE m \in arrived
  <2>1. m \in Message /\ Kept(m, 0)
    BY <1>1 DEF QInv, TypeOK, ArrivedKept
  <2> QED
    BY <2>1, KeptStays
<1>2. CASE m \notin arrived
  <2>1. PICK p \in Process : BrokerReceive(p)
    BY <1>2
    DEF Next, vars, Start, AddToQueue, Deliver, HandlerReturns, HandlerThrows,
        ConnectionLost, Crash, broker
  <2>2. Took(p) /\ TakePublish(p) /\ Head(wire[p]) \in Frame
    BY <1>0, <1>2, <2>1, ReceiveSplit, WireKept DEF TakeDeadLetter, TakeAck
  <2> DEFINE c == [m |-> Head(wire[p]).m, retries |-> Head(wire[p]).retries]
  <2>3. c \in Copy /\ c.m = m /\ c.retries >= 0
    BY <1>2, <2>2, FrameParts, CopiesAreNotNone DEF TakePublish
  <2>4. InSeq(c, queue')
    BY <1>0, <2>2, <2>3, InAppended DEF TypeOK, TakePublish
  <2> QED
    BY <2>3, <2>4 DEF Kept, Held
<1> QED
  BY <1>1, <1>2

LEMMA QueueInvariant == Spec => []QInv
<1>1. QInv /\ [Next]_vars => QInv'
  BY NextTyped, NextCounted, NextChannels, NextAcks, NextArrived DEF QInv
<1> QED
  BY <1>1, InitHolds, PTL DEF Spec

\* Queues, frames and counters are what the AMQP calls make them: what is on the
\* wire was accepted, and no copy carries more than maxRetries.
THEOREM QueueTyped == Spec => []TypeOK
BY QueueInvariant, PTL DEF QInv

\* The broker never drops a message it has had: it is queued, at a consumer,
\* handled or dead-lettered, whatever connection is lost between a retry's two
\* frames (transaction.processor.ts:99-118).
THEOREM NothingIsLost == Spec => []NoMessageLost
<1>1. QInv => NoMessageLost
  BY CopiesAreNotNone
  DEF QInv, TypeOK, ArrivedKept, Kept, Held, InSeq, NoMessageLost, Queued, AtConsumer
<1> QED
  BY <1>1, QueueInvariant, PTL

\* A message is dead-lettered after more than maxRetries failed handlers, however
\* many copies of it and processes there are (transaction.processor.ts:92-94).
THEOREM DeadLettersAreEarned == Spec => []DeadLettersEarned
BY QueueInvariant, PTL DEF QInv

----------------------------------------------------------------------------
\* The outcomes a message has had and may still have: of the copies of it, those
\* that wait to be accepted, are queued, are on a wire, are dead-lettered, or have
\* a handler, and the handlers that returned.  A step moves one, or ends one; only
\* a lost connection makes a second one of one, as it gives the broker the copy
\* back whose handler goes on or whose retry it has.

\* The places of a sequence, and of the wires, that hold an element of V.
Places(s, V) == {i \in DOMAIN s : s[i] \in V}
PlacesOn(w, V) == {x \in Process \X Nat : x[2] \in Places(w[x[1]], V)}

\* B has one element more than A if e is in V, and as many if it is not.
Grows(A, B, e, V) ==
  /\ IsFiniteSet(A) /\ IsFiniteSet(B)
  /\ Cardinality(A) \in Nat /\ Cardinality(B) \in Nat
  /\ e \in V => Cardinality(B) = Cardinality(A) + 1
  /\ e \notin V => Cardinality(B) = Cardinality(A)

LEMMA PlacesFinite ==
  ASSUME NEW S, NEW s \in Seq(S), NEW V
  PROVE  IsFiniteSet(Places(s, V)) /\ Cardinality(Places(s, V)) \in Nat
<1>1. DOMAIN s = 1..Len(s) /\ Len(s) \in Nat
  OBVIOUS
<1>2. IsFiniteSet(1..Len(s))
  BY <1>1, FS_Interval
<1>3. Places(s, V) \in SUBSET (1..Len(s))
  BY <1>1 DEF Places
<1>4. IsFiniteSet(Places(s, V))
  BY <1>2, <1>3, FS_Subset
<1> QED
  BY <1>4, FS_CardinalityType

LEMMA PlacesAppended ==
  ASSUME NEW S, NEW s \in Seq(S), NEW e \in S, NEW V
  PROVE  Grows(Places(s, V), Places(Append(s, e), V), e, V)
<1>1. /\ DOMAIN Append(s, e) = 1..(Len(s) + 1) /\ DOMAIN s = 1..Len(s) /\ Len(s) \in Nat
      /\ \A i \in 1..Len(s) : Append(s, e)[i] = s[i]
      /\ Append(s, e)[Len(s) + 1] = e
  BY Appended
<1>2. Len(s) + 1 \notin Places(s, V)
  BY <1>1 DEF Places
<1>3. IsFiniteSet(Places(s, V)) /\ Cardinality(Places(s, V)) \in Nat
  BY PlacesFinite
<1>4. CASE e \in V
  <2>1. Places(Append(s, e), V) = Places(s, V) \cup {Len(s) + 1}
    BY <1>1, <1>4 DEF Places
  <2> QED
    <3>1. /\ IsFiniteSet(Places(s, V) \cup {Len(s) + 1})
          /\ Cardinality(Places(s, V) \cup {Len(s) + 1}) = Cardinality(Places(s, V)) + 1
      BY <1>2, <1>3, FS_AddElement
    <3> QED
      BY <1>3, <1>4, <2>1, <3>1 DEF Grows
<1>5. CASE e \notin V
  <2>1. Places(Append(s, e), V) = Places(s, V)
    BY <1>1, <1>5 DEF Places
  <2> QED
    BY <1>3, <1>5, <2>1 DEF Grows
<1> QED
  BY <1>4, <1>5

LEMMA PlacesTaken ==
  ASSUME NEW S, NEW s \in Seq(S), s # <<>>, NEW V
  PROVE  Grows(Places(Tail(s), V), Places(s, V), Head(s), V)
<1>1. /\ Len(s) \in Nat \ {0} /\ DOMAIN s = 1..Len(s) /\ DOMAIN Tail(s) = 1..(Len(s) - 1)
      /\ \A i \in 1..(Len(s) - 1) : Tail(s)[i] = s[i + 1]
      /\ Head(s) = s[1] /\ Tail(s) \in Seq(S)
  BY Taken
<1> DEFINE rest == Places(s, V) \ {1}
           move == [i \in Places(Tail(s), V) |-> i + 1]
<1>2. IsFiniteSet(Places(Tail(s), V)) /\ Cardinality(Places(Tail(s), V)) \in Nat
  BY <1>1, PlacesFinite
<1>3. move \in Bijection(Places(Tail(s), V), rest)
  <2>1. \A i \in Places(Tail(s), V) : i \in Nat /\ i + 1 \in rest
    BY <1>1 DEF Places
  <2>2. \A j \in rest : j - 1 \in Places(Tail(s), V) /\ move[j - 1] = j
    BY <1>1 DEF Places
  <2>3. \A i, j \in Places(Tail(s), V) : move[i] = move[j] => i = j
    BY <2>1
  <2> QED
    BY <2>1, <2>2, <2>3 DEF Bijection, Injection, Surjection, IsInjective
<1>4. Cardinality(rest) = Cardinality(Places(Tail(s), V))
  BY <1>2, <1>3, FS_Bijection DEF ExistsBijection
<1>5. IsFiniteSet(Places(s, V)) /\ Cardinality(Places(s, V)) \in Nat
  BY PlacesFinite
<1>6. 1 \in Places(s, V) <=> Head(s) \in V
  BY <1>1 DEF Places
<1>7. Cardinality(rest) = IF 1 \in Places(s, V) THEN Cardinality(Places(s, V)) - 1
                                                ELSE Cardinality(Places(s, V))
  BY <1>5, FS_RemoveElement
<1> HIDE DEF rest
<1> QED
  BY <1>2, <1>4, <1>5, <1>6, <1>7 DEF Grows

LEMMA PlacesPrepended ==
  ASSUME NEW S, NEW s \in Seq(S), NEW e \in S, NEW V
  PROVE  Grows(Places(s, V), Places(<<e>> \o s, V), e, V)
<1> DEFINE t == <<e>> \o s
<1>1. t \in Seq(S) /\ t # <<>> /\ Head(t) = e /\ Tail(t) = s
  OBVIOUS
<1> HIDE DEF t
<1>2. Grows(Places(Tail(t), V), Places(t, V), Head(t), V)
  BY <1>1, PlacesTaken
<1> QED
  BY <1>1, <1>2 DEF t

\* One wire changes, w to v: an element is written to it, its first one is taken,
\* or it is dropped.
LEMMA WireWritten ==
  ASSUME NEW w \in [Process -> Seq(Frame)], NEW v \in [Process -> Seq(Frame)],
         NEW p \in Process, NEW e \in Frame, NEW V, IsFiniteSet(PlacesOn(w, V)),
         v[p] = Append(w[p], e), \A q \in Process : q # p => v[q] = w[q]
  PROVE  Grows(PlacesOn(w, V), PlacesOn(v, V), e, V)
<1>1. /\ w[p] \in Seq(Frame) /\ Len(w[p]) \in Nat
      /\ DOMAIN v[p] = 1..(Len(w[p]) + 1) /\ DOMAIN w[p] = 1..Len(w[p])
      /\ \A i \in 1..Len(w[p]) : v[p][i] = w[p][i]
      /\ v[p][Len(w[p]) + 1] = e
  BY Appended
<1> DEFINE last == <<p, Len(w[p]) + 1>>
<1>2. last \notin PlacesOn(w, V) /\ Cardinality(PlacesOn(w, V)) \in Nat
  BY <1>1, FS_CardinalityType DEF PlacesOn, Places
<1>3. CASE e \in V
  <2>1. ASSUME NEW x \in Process \X Nat
        PROVE  x \in PlacesOn(v, V) <=> x \in PlacesOn(w, V) \/ x = last
    <3>1. CASE x[1] # p
      BY <3>1 DEF PlacesOn
    <3>2. CASE x[1] = p
      <4>1. x = last <=> x[2] = Len(w[p]) + 1
        BY <3>2
      <4>2. x[2] \in Places(v[p], V) <=> x[2] \in Places(w[p], V) \/ x[2] = Len(w[p]) + 1
        BY <1>1, <1>3 DEF Places
      <4> QED
        BY <3>2, <4>1, <4>2 DEF PlacesOn
    <3> QED
      BY <3>1, <3>2
  <2>2. last \in Process \X Nat
    BY <1>1
  <2>3. PlacesOn(v, V) = PlacesOn(w, V) \cup {last}
    BY <2>1, <2>2 DEF PlacesOn
  <2>4. Cardinality(PlacesOn(w, V) \cup {last}) = Cardinality(PlacesOn(w, V)) + 1
    BY <1>2, FS_AddElement
  <2>5. IsFiniteSet(PlacesOn(w, V) \cup {last})
    BY FS_AddElement
  <2> QED
    BY <1>2, <1>3, <2>3, <2>4, <2>5 DEF Grows
<1>4. CASE e \notin V
  <2>1. ASSUME NEW x \in Process \X Nat
        PROVE  x \in PlacesOn(v, V) <=> x \in PlacesOn(w, V)
    <3>1. CASE x[1] # p
      BY <3>1 DEF PlacesOn
    <3>2. CASE x[1] = p
      BY <1>1, <1>4, <3>2 DEF PlacesOn, Places
    <3> QED
      BY <3>1, <3>2
  <2>2. PlacesOn(v, V) = PlacesOn(w, V)
    BY <2>1 DEF PlacesOn
  <2> QED
    BY <1>2, <1>4, <2>2 DEF Grows
<1> QED
  BY <1>3, <1>4

LEMMA WireTaken ==
  ASSUME NEW w \in [Process -> Seq(Frame)], NEW v \in [Process -> Seq(Frame)],
         NEW p \in Process, NEW V, IsFiniteSet(PlacesOn(w, V)), w[p] # <<>>,
         v[p] = Tail(w[p]), \A q \in Process : q # p => v[q] = w[q]
  PROVE  Grows(PlacesOn(v, V), PlacesOn(w, V), Head(w[p]), V)
<1>1. /\ Len(w[p]) \in Nat \ {0} /\ DOMAIN w[p] = 1..Len(w[p])
      /\ DOMAIN v[p] = 1..(Len(w[p]) - 1)
      /\ \A i \in 1..(Len(w[p]) - 1) : v[p][i] = w[p][i + 1]
      /\ Head(w[p]) = w[p][1]
  BY Taken
<1> DEFINE rest == PlacesOn(w, V) \ {<<p, 1>>}
           move == [x \in rest |-> IF x[1] = p THEN <<p, x[2] - 1>> ELSE x]
<1>2. IsFiniteSet(rest) /\ Cardinality(PlacesOn(w, V)) \in Nat
  BY FS_RemoveElement, FS_CardinalityType
<1>3. move \in Bijection(rest, PlacesOn(v, V))
  <2>1. ASSUME NEW x \in rest
        PROVE  /\ x \in Process \X Nat
               /\ x[1] = p => x[2] - 1 \in Places(v[p], V) /\ x[2] \in Nat \ {0, 1}
               /\ x[1] # p => x \in PlacesOn(v, V)
    <3>1. x \in Process \X Nat /\ x[2] \in Places(w[x[1]], V) /\ x # <<p, 1>>
      BY DEF PlacesOn
    <3>2. x[1] = p => x[2] # 1
      BY <3>1
    <3>3. ASSUME x[1] = p
          PROVE  x[2] - 1 \in Places(v[p], V) /\ x[2] \in Nat \ {0, 1}
      BY <1>1, <3>1, <3>2, <3>3 DEF Places
    <3>4. ASSUME x[1] # p PROVE x \in PlacesOn(v, V)
      BY <3>1, <3>4 DEF PlacesOn
    <3> QED
      BY <3>1, <3>3, <3>4
  <2>2. ASSUME NEW x \in rest
        PROVE  move[x] \in PlacesOn(v, V)
    <3>1. CASE x[1] = p
      <4>1. move[x] = <<p, x[2] - 1>> /\ x[2] - 1 \in Nat /\ x[2] - 1 \in Places(v[p], V)
        BY <2>1, <3>1
      <4> QED
        BY <4>1 DEF PlacesOn
    <3>2. CASE x[1] # p
      <4>1. move[x] = x
        BY <3>2
      <4> QED
        BY <2>1, <3>2, <4>1
    <3> QED
      BY <3>1, <3>2
  <2>3. ASSUME NEW x \in rest, NEW y \in rest, move[x] = move[y]
        PROVE  x = y
    <3>1. /\ x \in Process \X Nat /\ y \in Process \X Nat
          /\ move[x] = (IF x[1] = p THEN <<p, x[2] - 1>> ELSE x)
          /\ move[y] = (IF y[1] = p THEN <<p, y[2] - 1>> ELSE y)
      BY <2>1
    <3>2. x[1] = y[1]
      BY <2>3, <3>1
    <3>3. CASE x[1] = p
      <4>1. x[2] - 1 = y[2] - 1
        BY <2>3, <3>1, <3>2, <3>3
      <4>2. x[2] = y[2]
        BY <3>1, <4>1
      <4>3. x = <<x[1], x[2]>> /\ y = <<y[1], y[2]>>
        BY <3>1
      <4> QED
        BY <3>2, <4>2, <4>3
    <3>4. CASE x[1] # p
      BY <2>3, <3>1, <3>2, <3>4
    <3> QED
      BY <3>3, <3>4
  <2>4. ASSUME NEW y \in PlacesOn(v, V)
        PROVE  \E x \in rest : move[x] = y
    <3>1. y \in Process \X Nat /\ y[2] \in Places(v[y[1]], V)
      BY DEF PlacesOn
    <3>2. CASE y[1] = p
      <4>1. y[2] + 1 \in Places(w[p], V) /\ y[2] + 1 \in Nat \ {0, 1}
        BY <1>1, <3>1, <3>2 DEF Places
      <4>2. <<p, y[2] + 1>> \in rest
        BY <4>1 DEF PlacesOn
      <4>3. PICK x \in rest : x[1] = p /\ x[2] = y[2] + 1
        BY <4>2
      <4>4. move[x] = <<p, x[2] - 1>>
        BY <4>3
      <4>5. x[2] - 1 = y[2] /\ y = <<p, y[2]>>
        BY <3>1, <3>2, <4>3
      <4> QED
        BY <4>4, <4>5
    <3>3. CASE y[1] # p
      BY <3>1, <3>3 DEF PlacesOn
    <3> QED
      BY <3>2, <3>3
  <2> QED
    BY <2>2, <2>3, <2>4 DEF Bijection, Injection, Surjection, IsInjective
<1>4. IsFiniteSet(PlacesOn(v, V)) /\ Cardinality(PlacesOn(v, V)) = Cardinality(rest)
  BY <1>2, <1>3, FS_Bijection DEF ExistsBijection
<1>5. <<p, 1>> \in PlacesOn(w, V) <=> Head(w[p]) \in V
  BY <1>1 DEF PlacesOn, Places
<1>6. Cardinality(rest) = IF <<p, 1>> \in PlacesOn(w, V) THEN Cardinality(PlacesOn(w, V)) - 1
                                                        ELSE Cardinality(PlacesOn(w, V))
  BY FS_RemoveElement
<1>7. Cardinality(PlacesOn(v, V)) \in Nat
  BY <1>4, FS_CardinalityType
<1> HIDE DEF rest
<1> QED
  BY <1>2, <1>4, <1>5, <1>6, <1>7 DEF Grows

LEMMA WireDropped ==
  ASSUME NEW w, NEW v, NEW p \in Process, NEW V, IsFiniteSet(PlacesOn(w, V)),
         v[p] = <<>>, \A q \in Process : q # p => v[q] = w[q]
  PROVE  /\ IsFiniteSet(PlacesOn(v, V))
         /\ Cardinality(PlacesOn(v, V)) <= Cardinality(PlacesOn(w, V))
<1>1. PlacesOn(v, V) \in SUBSET PlacesOn(w, V)
  BY DEF PlacesOn, Places
<1> QED
  BY <1>1, FS_Subset

\* The counts of a message m, and their sum.
CopiesOf(m) == {c \in Copy : c.m = m}
SentFor(m) == {f \in Frame : f.m = m /\ f.kind # "ack"}
HandlersOf(h, m) == {p \in Process : h[p] \in CopiesOf(m)}
ToAccept(m) == IF m \in accepted THEN 0 ELSE 1
Outcomes(m) ==
  ToAccept(m) + Cardinality(Places(queue, CopiesOf(m)))
    + Cardinality(PlacesOn(wire, SentFor(m))) + Cardinality(Places(dlq, {m}))
    + Cardinality(HandlersOf(handling, m)) + returns[m]
OutcomesFinite(m) == IsFiniteSet(PlacesOn(wire, SentFor(m))) /\ IsFiniteSet(HandlersOf(handling, m))
Counted == \A m \in Message : OutcomesFinite(m) /\ Outcomes(m) <= 1 + losses

\* Each of them is a number.
LEMMA CountsTyped ==
  ASSUME TypeOK, NEW m \in Message, OutcomesFinite(m)
  PROVE  /\ ToAccept(m) \in 0..1 /\ returns[m] \in Nat /\ losses \in Nat
         /\ Cardinality(Places(queue, CopiesOf(m))) \in Nat
         /\ Cardinality(PlacesOn(wire, SentFor(m))) \in Nat
         /\ Cardinality(Places(dlq, {m})) \in Nat
         /\ Cardinality(HandlersOf(handling, m)) \in Nat
<1>1. queue \in Seq(Copy) /\ dlq \in Seq(Message) /\ returns[m] \in Nat /\ losses \in Nat
  BY QueueAssumption DEF TypeOK
<1> QED
  BY <1>1, PlacesFinite, FS_CardinalityType DEF OutcomesFinite, ToAccept

LEMMA HandlerStarts ==
  ASSUME NEW h, NEW g, NEW p \in Process, NEW m \in Message, IsFiniteSet(HandlersOf(h, m)),
         h[p] = None, g[p] \in Copy, \A q \in Process : q # p => g[q] = h[q]
  PROVE  Grows(HandlersOf(h, m), HandlersOf(g, m), g[p], CopiesOf(m))
<1>1. p \notin HandlersOf(h, m) /\ Cardinality(HandlersOf(h, m)) \in Nat
  BY CopiesAreNotNone, FS_CardinalityType DEF HandlersOf, CopiesOf
<1>2. CASE g[p] \in CopiesOf(m)
  <2>1. HandlersOf(g, m) = HandlersOf(h, m) \cup {p}
    BY <1>2 DEF HandlersOf
  <2> QED
    BY <1>1, <1>2, <2>1, FS_AddElement DEF Grows
<1>3. CASE g[p] \notin CopiesOf(m)
  <2>1. HandlersOf(g, m) = HandlersOf(h, m)
    BY <1>1, <1>3 DEF HandlersOf
  <2> QED
    BY <1>1, <1>3, <2>1 DEF Grows
<1> QED
  BY <1>2, <1>3

LEMMA HandlerEnds ==
  ASSUME NEW h, NEW g, NEW p \in Process, NEW m \in Message, IsFiniteSet(HandlersOf(h, m)),
         h[p] \in Copy, g[p] = None, \A q \in Process : q # p => g[q] = h[q]
  PROVE  Grows(HandlersOf(g, m), HandlersOf(h, m), h[p], CopiesOf(m))
<1>1. IsFiniteSet(HandlersOf(g, m))
  <2>1. HandlersOf(g, m) \in SUBSET HandlersOf(h, m)
    BY CopiesAreNotNone DEF HandlersOf, CopiesOf
  <2> QED
    BY <2>1, FS_Subset
<1> QED
  BY <1>1, HandlerStarts

LEMMA InitCounted == Init => Counted
<1> SUFFICES ASSUME Init, NEW m \in Message PROVE OutcomesFinite(m) /\ Outcomes(m) <= 1 + losses
  BY DEF Counted
<1>1. /\ Places(queue, CopiesOf(m)) = {} /\ Places(dlq, {m}) = {}
      /\ PlacesOn(wire, SentFor(m)) = {} /\ HandlersOf(handling, m) = {}
  BY CopiesAreNotNone DEF Init, Places, PlacesOn, HandlersOf, CopiesOf
<1>2. IsFiniteSet({}) /\ Cardinality({}) = 0
  BY FS_EmptySet
<1>3. ToAccept(m) = 1 /\ returns[m] = 0 /\ losses = 0
  BY DEF Init, ToAccept
<1> QED
  BY <1>1, <1>2, <1>3 DEF OutcomesFinite, Outcomes

\* A frame written by p, and one taken from it.
LEMMA FrameWritten ==
  ASSUME TypeOK, NEW p \in Process, NEW m \in Message, OutcomesFinite(m), NEW f \in Frame,
         wire' = [wire EXCEPT ![p] = Append(@, f)]
  PROVE  Grows(PlacesOn(wire, SentFor(m)), PlacesOn(wire', SentFor(m)), f, SentFor(m))
<1>1. wire \in [Process -> Seq(Frame)] /\ wire[p] \in Seq(Frame) /\ Append(wire[p], f) \in Seq(Frame)
  BY Appended DEF TypeOK
<1>2. /\ wire' \in [Process -> Seq(Frame)] /\ wire'[p] = Append(wire[p], f)
      /\ \A q \in Process : q # p => wire'[q] = wire[q]
  BY <1>1
<1>3. IsFiniteSet(PlacesOn(wire, SentFor(m)))
  BY DEF OutcomesFinite
<1> QED
  BY <1>1, <1>2, <1>3, WireWritten

LEMMA FrameTaken ==
  ASSUME TypeOK, NEW p \in Process, NEW m \in Message, OutcomesFinite(m), Took(p)
  PROVE  Grows(PlacesOn(wire', SentFor(m)), PlacesOn(wire, SentFor(m)), Head(wire[p]), SentFor(m))
<1>1. /\ wire \in [Process -> Seq(Frame)] /\ wire' \in [Process -> Seq(Frame)]
      /\ wire[p] # <<>> /\ wire'[p] = Tail(wire[p])
      /\ \A q \in Process : q # p => wire'[q] = wire[q]
  BY WireKept DEF TypeOK, Took
<1>2. IsFiniteSet(PlacesOn(wire, SentFor(m)))
  BY DEF OutcomesFinite
<1> QED
  BY <1>1, <1>2, WireTaken

\* A message's counts after a step.
LEMMA CountsPrimed ==
  ASSUME NEW m
  PROVE  /\ OutcomesFinite(m)' <=> /\ IsFiniteSet(PlacesOn(wire', SentFor(m)))
                                   /\ IsFiniteSet(HandlersOf(handling', m))
         /\ Outcomes(m)' =
              ToAccept(m)' + Cardinality(Places(queue', CopiesOf(m)))
                + Cardinality(PlacesOn(wire', SentFor(m))) + Cardinality(Places(dlq', {m}))
                + Cardinality(HandlersOf(handling', m)) + returns'[m]
BY DEF OutcomesFinite, Outcomes, Places, PlacesOn, HandlersOf, CopiesOf, SentFor, Copy, Frame

\* Unless a connection is lost, the counts change and their sum does not grow; a
\* loss adds one at most.
LEMMA NextBounded ==
  ASSUME QInv, [Next]_vars, NEW m \in Message, OutcomesFinite(m)
  PROVE  OutcomesFinite(m)' /\ Outcomes(m)' - losses' <= Outcomes(m) - losses
<1> DEFINE inQueue(s) == Cardinality(Places(s, CopiesOf(m)))
           onWire(w) == Cardinality(PlacesOn(w, SentFor(m)))
           dead(s) == Cardinality(Places(s, {m}))
           handled(h) == Cardinality(HandlersOf(h, m))
<1>0. /\ TypeOK /\ IsFiniteSet(PlacesOn(wire, SentFor(m))) /\ IsFiniteSet(HandlersOf(handling, m))
      /\ ToAccept(m) \in 0..1 /\ returns[m] \in Nat /\ losses \in Nat
      /\ inQueue(queue) \in Nat /\ onWire(wire) \in Nat /\ dead(dlq) \in Nat
      /\ handled(handling) \in Nat
      /\ Outcomes(m) = ToAccept(m) + inQueue(queue) + onWire(wire) + dead(dlq)
                         + handled(handling) + returns[m]
  BY CountsTyped DEF QInv, OutcomesFinite, Outcomes
<1>00. /\ OutcomesFinite(m)' <=> /\ IsFiniteSet(PlacesOn(wire', SentFor(m)))
                                 /\ IsFiniteSet(HandlersOf(handling', m))
       /\ Outcomes(m)' = ToAccept(m)' + inQueue(queue') + onWire(wire') + dead(dlq')
                           + handled(handling') + returns'[m]
  BY CountsPrimed
<1> HIDE DEF inQueue, onWire, dead, handled
<1>n. /\ ToAccept(m) \in Nat /\ inQueue(queue) \in Nat /\ onWire(wire) \in Nat
      /\ dead(dlq) \in Nat /\ handled(handling) \in Nat /\ returns[m] \in Nat
      /\ Outcomes(m) = ToAccept(m) + inQueue(queue) + onWire(wire) + dead(dlq)
                         + handled(handling) + returns[m]
  BY <1>0
<1>1. CASE UNCHANGED vars
  <2>1. ToAccept(m)' = ToAccept(m)
    BY <1>1 DEF ToAccept, vars
  <2> QED
    BY <1>0, <1>00, <1>1, <2>1 DEF vars
<1>2. ASSUME NEW p \in Process, Start(p)
      PROVE  OutcomesFinite(m)' /\ Outcomes(m)' - losses' <= Outcomes(m) - losses
  <2>1. ToAccept(m)' = ToAccept(m) /\ losses' \in {losses, losses + 1}
        /\ UNCHANGED <<queue, wire, dlq, handling, returns>>
    BY <1>2 DEF ToAccept, Start, counts
  <2> QED
    BY <1>0, <1>00, <2>1
<1>3. ASSUME NEW p \in Process, NEW n \in Message, AddToQueue(p, n)
      PROVE  OutcomesFinite(m)' /\ Outcomes(m)' - losses' <= Outcomes(m) - losses
  <2>1. ToAccept(m) = ToAccept(m)' + (IF n = m THEN 1 ELSE 0)
    BY <1>3 DEF ToAccept, AddToQueue
  <2>2. /\ IsFiniteSet(PlacesOn(wire', SentFor(m)))
        /\ onWire(wire') = onWire(wire) + (IF n = m THEN 1 ELSE 0)
    <3>1. /\ Publish(n, 0) \in Frame
          /\ Publish(n, 0) \in SentFor(m) <=> n = m
          /\ wire' = [wire EXCEPT ![p] = Append(@, Publish(n, 0))]
      BY <1>3, PublishTyped DEF AddToQueue, SentFor
    <3>2. Grows(PlacesOn(wire, SentFor(m)), PlacesOn(wire', SentFor(m)), Publish(n, 0), SentFor(m))
      BY <1>0, <3>1, FrameWritten
    <3> QED
      BY <3>1, <3>2 DEF Grows, onWire
  <2>3. UNCHANGED <<queue, dlq, handling, returns, losses>>
    BY <1>3 DEF AddToQueue, broker, process, counts
  <2>4. ToAccept(m)' \in 0..1
    BY DEF ToAccept
  <2> QED
    BY <1>0, <1>00, <2>1, <2>2, <2>3, <2>4
<1>4. ASSUME NEW p \in Process, BrokerReceive(p)
      PROVE  OutcomesFinite(m)' /\ Outcomes(m)' - losses' <= Outcomes(m) - losses
  <2> DEFINE f == Head(wire[p])
             one == IF f.m = m THEN 1 ELSE 0
  <2>1. Took(p) /\ (TakePublish(p) \/ TakeDeadLetter(p) \/ TakeAck(p))
    BY <1>4, ReceiveSplit
  <2>2. /\ IsFiniteSet(PlacesOn(wire', SentFor(m)))
        /\ onWire(wire) = onWire(wire') + (IF f.kind # "ack" THEN one ELSE 0)
    <3>1. Grows(PlacesOn(wire', SentFor(m)), PlacesOn(wire, SentFor(m)), f, SentFor(m))
      BY <1>0, <2>1, FrameTaken
    <3>2. f \in SentFor(m) <=> f.m = m /\ f.kind # "ack"
      BY <1>0, <2>1, WireKept DEF SentFor
    <3> QED
      BY <3>1, <3>2 DEF Grows, onWire
  <2>3. /\ ToAccept(m)' = ToAccept(m) /\ UNCHANGED <<handling, returns, losses>>
        /\ f \in Frame /\ queue \in Seq(Copy) /\ dlq \in Seq(Message)
    BY <1>0, <2>1, WireKept DEF ToAccept, Took, TypeOK
  <2>4. one \in 0..1 /\ onWire(wire') \in Nat
    BY <2>2, FS_CardinalityType DEF onWire
  <2>5. CASE TakePublish(p)
    <3>1. [m |-> f.m, retries |-> f.retries] \in CopiesOf(m) <=> f.m = m
      BY <2>3, FrameParts DEF CopiesOf
    <3>2. inQueue(queue') = inQueue(queue) + one
      <4>1. [m |-> f.m, retries |-> f.retries] \in Copy
        BY <2>3, FrameParts
      <4>2. Grows(Places(queue, CopiesOf(m)), Places(queue', CopiesOf(m)),
                  [m |-> f.m, retries |-> f.retries], CopiesOf(m))
        BY <2>3, <2>5, <4>1, PlacesAppended DEF TakePublish
      <4> QED
        BY <3>1, <4>2 DEF Grows, inQueue
    <3>3. f.kind # "ack" /\ UNCHANGED dlq
      BY <2>5 DEF TakePublish
    <3>4. OutcomesFinite(m)'
      BY <1>0, <1>00, <2>2, <2>3
    <3>5. onWire(wire) = onWire(wire') + one
      BY <2>2, <3>3
    <3>6. Outcomes(m)' = ToAccept(m) + (inQueue(queue) + one) + onWire(wire') + dead(dlq)
                           + handled(handling) + returns[m]
      BY <1>00, <2>3, <3>2, <3>3
    <3> HIDE DEF one
    <3>7. Outcomes(m)' = Outcomes(m) /\ Outcomes(m) \in Nat
      BY <1>n, <2>4, <3>5, <3>6
    <3> QED
      BY <1>0, <2>3, <3>4, <3>7
  <2>6. CASE TakeDeadLetter(p)
    <3>1. dead(dlq') = dead(dlq) + one
      <4>1. f.m \in Message
        BY <2>3, FrameParts
      <4>2. Grows(Places(dlq, {m}), Places(dlq', {m}), f.m, {m})
        BY <2>3, <2>6, <4>1, PlacesAppended DEF TakeDeadLetter
      <4> QED
        BY <4>2 DEF Grows, dead
    <3>2. f.kind # "ack" /\ UNCHANGED queue
      BY <2>6 DEF TakeDeadLetter
    <3>3. OutcomesFinite(m)'
      BY <1>0, <1>00, <2>2, <2>3
    <3>4. onWire(wire) = onWire(wire') + one
      BY <2>2, <3>2
    <3>5. Outcomes(m)' = ToAccept(m) + inQueue(queue) + onWire(wire') + (dead(dlq) + one)
                           + handled(handling) + returns[m]
      BY <1>00, <2>3, <3>1, <3>2
    <3> HIDE DEF one
    <3>6. Outcomes(m)' = Outcomes(m) /\ Outcomes(m) \in Nat
      BY <1>n, <2>4, <3>4, <3>5
    <3> QED
      BY <1>0, <2>3, <3>3, <3>6
  <2>7. CASE TakeAck(p)
    <3>1. f.kind = "ack" /\ UNCHANGED <<queue, dlq>>
      BY <2>7 DEF TakeAck
    <3>2. OutcomesFinite(m)'
      BY <1>0, <1>00, <2>2, <2>3
    <3>3. onWire(wire') = onWire(wire)
      BY <2>2, <2>4, <3>1
    <3>4. Outcomes(m)' = Outcomes(m)
      BY <1>0, <1>00, <2>3, <3>1, <3>3
    <3> QED
      BY <1>0, <2>3, <3>2, <3>4
  <2> QED
    BY <2>1, <2>5, <2>6, <2>7
<1>5. ASSUME NEW p \in Process, Deliver(p)
      PROVE  OutcomesFinite(m)' /\ Outcomes(m)' - losses' <= Outcomes(m) - losses
  <2> DEFINE one == IF Head(queue).m = m THEN 1 ELSE 0
  <2>1. /\ queue \in Seq(Copy) /\ queue # <<>> /\ Head(queue) \in Copy /\ queue' = Tail(queue)
        /\ handling'[p] = Head(queue) /\ \A q \in Process : q # p => handling'[q] = handling[q]
        /\ UNCHANGED <<wire, dlq, returns, losses>> /\ ToAccept(m)' = ToAccept(m)
    BY <1>0, <1>5, Taken DEF TypeOK, Deliver, counts, ToAccept
  <2>2. handling[p] = None
    BY <1>5, CopiesAreNotNone DEF QInv, TypeOK, ChannelOK, Deliver
  <2>3. Head(queue) \in CopiesOf(m) <=> Head(queue).m = m
    BY <2>1 DEF CopiesOf
  <2>4. inQueue(queue) = inQueue(queue') + one
    <3>1. Grows(Places(queue', CopiesOf(m)), Places(queue, CopiesOf(m)), Head(queue), CopiesOf(m))
      BY <2>1, PlacesTaken
    <3> QED
      BY <2>3, <3>1 DEF Grows, inQueue
  <2>5. IsFiniteSet(HandlersOf(handling', m)) /\ handled(handling') = handled(handling) + one
    <3>1. Grows(HandlersOf(handling, m), HandlersOf(handling', m), handling'[p], CopiesOf(m))
      BY <1>0, <2>1, <2>2, HandlerStarts
    <3> QED
      BY <2>1, <2>3, <3>1 DEF Grows, handled
  <2>6. one \in 0..1 /\ inQueue(queue') \in Nat
    <3>1. queue' \in Seq(Copy)
      BY <2>1
    <3> QED
      BY <3>1, PlacesFinite DEF inQueue
  <2>7. OutcomesFinite(m)'
    BY <1>0, <1>00, <2>1, <2>5
  <2>8. Outcomes(m)' = ToAccept(m) + inQueue(queue') + onWire(wire) + dead(dlq)
                         + (handled(handling) + one) + returns[m]
    BY <1>00, <2>1, <2>5
  <2> HIDE DEF one
  <2>9. Outcomes(m)' = Outcomes(m) /\ Outcomes(m) \in Nat
    BY <1>n, <2>4, <2>6, <2>8
  <2> QED
    BY <1>0, <2>1, <2>7, <2>9
<1>6. ASSUME NEW p \in Process, HandlerReturns(p) \/ HandlerThrows(p)
      PROVE  OutcomesFinite(m)' /\ Outcomes(m)' - losses' <= Outcomes(m) - losses
  <2> DEFINE c == handling[p]
             one == IF c.m = m THEN 1 ELSE 0
  <2>1. /\ c \in Copy /\ c.m \in Message /\ wire \in [Process -> Seq(Frame)] /\ wire[p] \in Seq(Frame)
        /\ handling'[p] = None /\ \A q \in Process : q # p => handling'[q] = handling[q]
        /\ UNCHANGED <<queue, dlq, losses>> /\ ToAccept(m)' = ToAccept(m)
    BY <1>0, <1>6, CopiesAreNotNone DEF TypeOK, HandlerReturns, HandlerThrows, broker, ToAccept
  <2>2. /\ IsFiniteSet(HandlersOf(handling', m))
        /\ handled(handling) = handled(handling') + one
    <3>1. Grows(HandlersOf(handling', m), HandlersOf(handling, m), c, CopiesOf(m))
      BY <1>0, <2>1, HandlerEnds
    <3>2. c \in CopiesOf(m) <=> c.m = m
      BY <2>1 DEF CopiesOf
    <3> HIDE DEF c
    <3> QED
      BY <3>1, <3>2 DEF Grows, handled
  <2>3. one \in 0..1 /\ handled(handling') \in Nat
    BY <2>2, FS_CardinalityType DEF handled
  <2>4. CASE HandlerReturns(p)
    <3>1. returns'[m] = returns[m] + one
      BY <1>0, <2>1, <2>4 DEF TypeOK, HandlerReturns
    <3>2. IsFiniteSet(PlacesOn(wire', SentFor(m))) /\ onWire(wire') = onWire(wire)
      <4>1. CASE wire' = wire
        BY <1>0, <4>1
      <4>2. CASE wire' = [wire EXCEPT ![p] = @ \o <<Ack(c.m)>>]
        <5>1. wire' = [wire EXCEPT ![p] = Append(@, Ack(c.m))]
          <6>1. wire[p] \o <<Ack(c.m)>> = Append(wire[p], Ack(c.m))
            BY <2>1, FramesTyped
          <6> QED
            BY <4>2, <6>1
        <5>2. Ack(c.m) \in Frame /\ Ack(c.m) \notin SentFor(m)
          BY <2>1, FramesTyped DEF SentFor
        <5>3. Grows(PlacesOn(wire, SentFor(m)), PlacesOn(wire', SentFor(m)), Ack(c.m), SentFor(m))
          BY <1>0, <5>1, <5>2, FrameWritten
        <5> QED
          BY <5>2, <5>3 DEF Grows, onWire
      <4> QED
        BY <2>4, <4>1, <4>2 DEF HandlerReturns, DieUnhandled, DoneFrames
    <3>3. OutcomesFinite(m)'
      BY <1>00, <2>2, <3>2
    <3>4. Outcomes(m)' = ToAccept(m) + inQueue(queue) + onWire(wire) + dead(dlq)
                           + handled(handling') + (returns[m] + one)
      BY <1>00, <2>1, <3>1, <3>2
    <3>5. handled(handling) = handled(handling') + one
      BY <2>2
    <3> HIDE DEF one
    <3>6. Outcomes(m)' = Outcomes(m) /\ Outcomes(m) \in Nat
      BY <1>n, <2>3, <3>4, <3>5
    <3> QED
      BY <1>0, <2>1, <3>3, <3>6
  <2>5. CASE HandlerThrows(p)
    <3>1. returns' = returns
      BY <2>5 DEF HandlerThrows
    <3>2. IsFiniteSet(PlacesOn(wire', SentFor(m))) /\ onWire(wire') \in {onWire(wire), onWire(wire) + one}
      <4>1. CASE wire' = wire
        BY <1>0, <4>1
      <4>2. CASE wire' = [wire EXCEPT ![p] = @ \o <<Again(c), Ack(c.m)>>]
        <5> DEFINE mid == [wire EXCEPT ![p] = Append(@, Again(c))]
        <5>1. /\ Again(c) \in Frame /\ Again(c).kind # "ack" /\ Again(c).m = c.m
              /\ Ack(c.m) \in Frame /\ Ack(c.m).kind = "ack"
          BY <2>1, FramesTyped
        <5>2. /\ Again(c) \in SentFor(m) <=> c.m = m
              /\ Ack(c.m) \notin SentFor(m)
          BY <5>1 DEF SentFor
        <5>3. /\ mid \in [Process -> Seq(Frame)] /\ mid[p] = Append(wire[p], Again(c))
              /\ \A q \in Process : q # p => mid[q] = wire[q]
          BY <2>1, <5>1, Appended
        <5>4. IsFiniteSet(PlacesOn(mid, SentFor(m))) /\ onWire(mid) = onWire(wire) + one
          <6>1. Grows(PlacesOn(wire, SentFor(m)), PlacesOn(mid, SentFor(m)), Again(c), SentFor(m))
            <7> HIDE DEF mid
            <7> QED
              BY <1>0, <2>1, <5>1, <5>3, WireWritten
          <6> QED
            BY <5>2, <6>1 DEF Grows, onWire
        <5>5. wire[p] \o <<Again(c), Ack(c.m)>> = Append(Append(wire[p], Again(c)), Ack(c.m))
          BY <2>1, <5>1
        <5>6. /\ wire' \in [Process -> Seq(Frame)] /\ wire'[p] = Append(mid[p], Ack(c.m))
              /\ \A q \in Process : q # p => wire'[q] = mid[q]
          <6>1. Append(mid[p], Ack(c.m)) \in Seq(Frame)
            BY <5>1, <5>3, Appended
          <6> QED
            BY <2>1, <4>2, <5>3, <5>5, <6>1
        <5>7. IsFiniteSet(PlacesOn(wire', SentFor(m))) /\ onWire(wire') = onWire(mid)
          <6> HIDE DEF mid
          <6>1. Grows(PlacesOn(mid, SentFor(m)), PlacesOn(wire', SentFor(m)), Ack(c.m), SentFor(m))
            BY <5>1, <5>3, <5>4, <5>6, WireWritten
          <6> QED
            BY <5>2, <6>1 DEF Grows, onWire
        <5>8. onWire(mid) \in Nat
          BY <5>4, FS_CardinalityType DEF onWire
        <5> HIDE DEF mid, one
        <5> QED
          BY <5>4, <5>7, <5>8
      <4> QED
        BY <2>5, <4>1, <4>2 DEF HandlerThrows, DieUnhandled, RetryFrames
    <3>3. OutcomesFinite(m)'
      BY <1>00, <2>2, <3>2
    <3>4. Outcomes(m)' = ToAccept(m) + inQueue(queue) + onWire(wire') + dead(dlq)
                           + handled(handling') + returns[m]
      BY <1>00, <2>1, <3>1
    <3>5. handled(handling) = handled(handling') + one
      BY <2>2
    <3>6. onWire(wire') \in {onWire(wire), onWire(wire) + one}
      BY <3>2
    <3> HIDE DEF one
    <3>7. Outcomes(m)' <= Outcomes(m) /\ Outcomes(m)' \in Nat /\ Outcomes(m) \in Nat
      BY <1>n, <2>3, <3>4, <3>5, <3>6
    <3> QED
      BY <1>0, <2>1, <3>3, <3>7
  <2> QED
    BY <1>6, <2>4, <2>5
<1>7. ASSUME NEW p \in Process, ConnectionLost(p) \/ Crash(p)
      PROVE  OutcomesFinite(m)' /\ Outcomes(m)' - losses' <= Outcomes(m) - losses
  <2>1. /\ Disconnected(p) /\ losses' = losses + 1 /\ UNCHANGED <<dlq, returns>>
        /\ ToAccept(m)' = ToAccept(m) /\ wire'[p] = <<>>
        /\ \A q \in Process : q # p => wire'[q] = wire[q]
    BY <1>0, <1>7 DEF TypeOK, ConnectionLost, Crash, Disconnected, counts, ToAccept
  <2>2. IsFiniteSet(PlacesOn(wire', SentFor(m))) /\ onWire(wire') <= onWire(wire)
    BY <1>0, <2>1, WireDropped DEF onWire
  <2>3. onWire(wire') \in Nat
    BY <2>2, FS_CardinalityType DEF onWire
  <2>4. inQueue(queue') \in {inQueue(queue), inQueue(queue) + 1}
    <3>1. CASE unacked[p] = None
      BY <2>1, <3>1 DEF Disconnected
    <3>2. CASE unacked[p] # None
      <4>1. unacked[p] \in Copy /\ queue \in Seq(Copy) /\ queue' = <<unacked[p]>> \o queue
        BY <1>0, <2>1, <3>2 DEF TypeOK, Disconnected
      <4> QED
        <5>1. Grows(Places(queue, CopiesOf(m)), Places(queue', CopiesOf(m)), unacked[p], CopiesOf(m))
          BY <4>1, PlacesPrepended
        <5> QED
          BY <5>1 DEF Grows, inQueue
    <3> QED
      BY <3>1, <3>2
  <2>5. HandlersOf(handling', m) \in SUBSET HandlersOf(handling, m)
    BY <1>0, <1>7, CopiesAreNotNone DEF TypeOK, ConnectionLost, Crash, HandlersOf, CopiesOf
  <2>6. IsFiniteSet(HandlersOf(handling', m)) /\ handled(handling') <= handled(handling)
        /\ handled(handling') \in Nat
    BY <1>0, <2>5, FS_Subset, FS_CardinalityType DEF handled
  <2> QED
    <3>1. OutcomesFinite(m)'
      BY <1>00, <2>2, <2>6
    <3>2. Outcomes(m)' = ToAccept(m) + inQueue(queue') + onWire(wire') + dead(dlq)
                           + handled(handling') + returns[m]
      BY <1>00, <2>1
    <3>3. /\ onWire(wire') <= onWire(wire) /\ onWire(wire') \in Nat
          /\ handled(handling') <= handled(handling) /\ handled(handling') \in Nat
      BY <2>2, <2>3, <2>6
    <3>4. Outcomes(m)' <= Outcomes(m) + 1 /\ Outcomes(m)' \in Nat /\ Outcomes(m) \in Nat
      BY <1>n, <2>4, <3>2, <3>3
    <3> QED
      BY <1>0, <2>1, <3>1, <3>4
<1> QED
  BY <1>1, <1>2, <1>3, <1>4, <1>5, <1>6, <1>7 DEF Next

LEMMA CountedInvariant == Spec => []Counted
<1>1. QInv /\ Counted /\ [Next]_vars => Counted'
  <2> SUFFICES ASSUME QInv, Counted, [Next]_vars, NEW m \in Message
               PROVE  OutcomesFinite(m)' /\ Outcomes(m)' <= 1 + losses'
    BY DEF Counted
  <2>1. OutcomesFinite(m) /\ Outcomes(m) <= 1 + losses
    BY DEF Counted
  <2>2. OutcomesFinite(m)' /\ Outcomes(m)' - losses' <= Outcomes(m) - losses
    BY <2>1, NextBounded
  <2>3. TypeOK /\ TypeOK'
    BY NextTyped DEF QInv
  <2>4. losses \in Nat /\ losses' \in Nat
    BY <2>3, QueueAssumption DEF TypeOK
  <2>5. Outcomes(m) \in Nat
    BY <2>1, <2>3, CountsTyped DEF Outcomes
  <2>6. Outcomes(m)' \in Nat
    <3>1. \A q \in Seq(Copy) : Cardinality(Places(q, CopiesOf(m))) \in Nat
      BY PlacesFinite
    <3>2. \A d \in Seq(Message) : Cardinality(Places(d, {m})) \in Nat
      BY PlacesFinite
    <3>3. /\ Cardinality(PlacesOn(wire', SentFor(m))) \in Nat
          /\ Cardinality(HandlersOf(handling', m)) \in Nat
      BY <2>2, CountsPrimed, FS_CardinalityType
    <3>4. ToAccept(m)' \in Nat /\ queue' \in Seq(Copy) /\ dlq' \in Seq(Message) /\ returns'[m] \in Nat
      BY <2>3 DEF TypeOK, ToAccept
    <3> QED
      BY <3>1, <3>2, <3>3, <3>4, CountsPrimed
  <2> QED
    BY <2>1, <2>2, <2>4, <2>5, <2>6
<1> QED
  BY <1>1, InitCounted, QueueInvariant, PTL DEF Spec

\* A message is handled or dead-lettered once, and once more for every lost
\* connection at most, for any number of processes and messages: a retry replaces
\* its copy, and only a requeue gives the broker one back
\* (transaction.processor.ts:118).
THEOREM OutcomesAreBounded == Spec => []OutcomesBounded
<1>1. TypeOK /\ Counted => OutcomesBounded
  <2> SUFFICES ASSUME TypeOK, Counted, NEW m \in Message
               PROVE  returns[m] + DeadLetters(m) <= 1 + losses
    BY DEF OutcomesBounded
  <2>1. OutcomesFinite(m) /\ Outcomes(m) <= 1 + losses
    BY DEF Counted
  <2>2. DeadLetters(m) = Cardinality(Places(dlq, {m}))
    <3>1. {i \in DOMAIN dlq : dlq[i] = m} = Places(dlq, {m})
      BY DEF Places
    <3> QED
      BY <3>1 DEF DeadLetters
  <2> QED
    BY <2>1, <2>2, CountsTyped DEF Outcomes
<1> QED
  BY <1>1, QueueTyped, CountedInvariant, PTL

=============================================================================
