---------------------------- MODULE AtLeastOnce ----------------------------
(***************************************************************************)
(* What the queue and the wallet service promise together of a request: it  *)
(* is finished only after its effect is recorded, and a request with a key  *)
(* has its effect once however often it is sent.  A request may be refused. *)
(***************************************************************************)
EXTENDS Naturals

CONSTANTS
  Request,
  KeyOf,   \* [request]: its idempotency key, NoKey when it has none
  NoKey

VARIABLES
  accepted,  \* requests answered with success
  applied,   \* [request]: effects recorded
  done,      \* [request]: times it was finished
  refused    \* requests given up

Init ==
  /\ accepted = {} /\ refused = {}
  /\ applied = [m \in Request |-> 0] /\ done = [m \in Request |-> 0]

\* Requests with one key are one request, sent several times.
Same(m, n) == m = n \/ (KeyOf[m] # NoKey /\ KeyOf[m] = KeyOf[n])
Effective(m) == \E n \in Request : Same(m, n) /\ applied[n] > 0

Accept(m) ==
  /\ accepted' = accepted \cup {m}
  /\ UNCHANGED <<applied, done, refused>>

\* A keyed request is applied once, the others once per delivery.
Apply(m) ==
  /\ m \in accepted
  /\ KeyOf[m] # NoKey => ~Effective(m)
  /\ applied' = [applied EXCEPT ![m] = @ + 1]
  /\ UNCHANGED <<accepted, done, refused>>

\* Every finish of an unkeyed request has an effect of its own behind it.
Finish(m) ==
  /\ IF KeyOf[m] = NoKey THEN done[m] < applied[m] ELSE Effective(m)
  /\ done' = [done EXCEPT ![m] = @ + 1]
  /\ UNCHANGED <<accepted, applied, refused>>

Refuse(m) ==
  /\ m \in accepted
  /\ refused' = refused \cup {m}
  /\ UNCHANGED <<accepted, applied, done>>

Next == \E m \in Request : Accept(m) \/ Apply(m) \/ Finish(m) \/ Refuse(m)

Spec == Init /\ [][Next]_<<accepted, applied, done, refused>>

=============================================================================
