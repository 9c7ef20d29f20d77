-------------------------- MODULE RateLimiterProofs --------------------------
(***************************************************************************)
(* The bound of the rate limiter for every limit, window and set of         *)
(* addresses.  The middleware's list is smaller than the history WindowBound *)
(* speaks of, so the invariant says what it may have forgotten: only times   *)
(* that are out of the window for good, as the clock never runs back.       *)
(***************************************************************************)
EXTENDS RateLimiter, FiniteSetTheorems, TLAPS

\* The times of one address and the places its list keeps.
Ordered(times) == \A i, j \in 1..Len(times) : i <= j => times[i] <= times[j]
Past(times, time) == \A i \in 1..Len(times) : times[i] <= time
Forgotten(times, kept, time) == \A i \in (1..Len(times)) \ kept : time - times[i] >= Window
Spread(times) == \A i, j \in 1..Len(times) : j = i + Limit => times[j] - times[i] >= Window

Sound(times, kept, time) ==
  /\ kept \subseteq 1..Len(times)
  /\ Ordered(times) /\ Past(times, time)
  /\ Forgotten(times, kept, time) /\ Spread(times)

\* What filtering the list leaves.
Recent(times, kept, time) == {i \in kept : time - times[i] < Window}

LimiterTypeOK ==
  /\ now \in Nat
  /\ admitted \in [Process -> [Address -> Seq(Nat)]]
  /\ requests \in [Process -> [Address -> SUBSET Nat]]

LimiterInv ==
  /\ LimiterTypeOK
  /\ \A p \in Process, a \in Address : Sound(admitted[p][a], requests[p][a], now)

----------------------------------------------------------------------------
\* The list is full when the request Limit places back is still in the window:
\* everything after it is in the window too, and none of it is forgotten.
LEMMA FullWindow ==
  ASSUME NEW times \in Seq(Nat), NEW kept, NEW time \in Nat,
         Sound(times, kept, time),
         NEW i \in 1..Len(times),
         Len(times) + 1 = i + Limit,
         time - times[i] < Window
  PROVE  Cardinality(Recent(times, kept, time)) >= Limit
<1>1. Limit \in Nat /\ Window \in Nat /\ Len(times) \in Nat
  BY LimiterAssumption
<1>2. \A k \in 1..Len(times) : times[k] \in Nat
  OBVIOUS
<1>3. i..Len(times) \subseteq Recent(times, kept, time)
  <2> SUFFICES ASSUME NEW k \in i..Len(times) PROVE k \in Recent(times, kept, time)
    OBVIOUS
  <2>1. k \in 1..Len(times) /\ i <= k
    BY <1>1
  <2>2. times[i] <= times[k]
    BY <2>1 DEF Sound, Ordered
  <2>3. time - times[k] < Window
    BY <1>1, <1>2, <2>1, <2>2
  <2>4. k \in kept
    BY <1>1, <1>2, <2>1, <2>3 DEF Sound, Forgotten
  <2> QED
    BY <2>3, <2>4 DEF Recent
<1>4. IsFiniteSet(Recent(times, kept, time))
  <2>1. Recent(times, kept, time) \subseteq 1..Len(times)
    BY DEF Sound, Recent
  <2>2. IsFiniteSet(1..Len(times))
    BY <1>1, FS_Interval
  <2> QED
    BY <2>1, <2>2, FS_Subset
<1>5. Cardinality(i..Len(times)) = Limit
  <2>1. i \in Int /\ Len(times) \in Int /\ i <= Len(times)
    BY <1>1
  <2>2. Cardinality(i..Len(times)) = Len(times) - i + 1
    BY <2>1, FS_Interval
  <2>3. Len(times) - i + 1 = Limit
    BY <1>1, <2>1
  <2> QED
    BY <2>2, <2>3
<1>6. Cardinality(i..Len(times)) <= Cardinality(Recent(times, kept, time))
  BY <1>3, <1>4, FS_Subset
<1>7. Cardinality(Recent(times, kept, time)) \in Nat
  BY <1>4, FS_CardinalityType
<1> QED
  BY <1>1, <1>5, <1>6, <1>7

\* A request that is let through leaves its address's history sound.
LEMMA AdmitSound ==
  ASSUME NEW times \in Seq(Nat), NEW kept, NEW time \in Nat,
         Sound(times, kept, time),
         ~(Cardinality(Recent(times, kept, time)) >= Limit)
  PROVE  Sound(Append(times, time), Recent(times, kept, time) \cup {Len(times) + 1}, time)
<1> DEFINE longer == Append(times, time)
           n == Len(times) + 1
<1>1. Limit \in Nat \ {0} /\ Window \in Nat \ {0} /\ Len(times) \in Nat
  BY LimiterAssumption
<1>2. /\ Len(longer) = n /\ longer[n] = time
      /\ \A k \in 1..Len(times) : times[k] \in Nat /\ longer[k] = times[k]
  OBVIOUS
<1> HIDE DEF longer
<1>3. Recent(times, kept, time) \cup {n} \subseteq 1..n
  <2>1. Recent(times, kept, time) \subseteq 1..Len(times)
    BY DEF Sound, Recent
  <2>2. n \in 1..n /\ \A k \in 1..Len(times) : k \in 1..n
    BY <1>1
  <2> QED
    BY <2>1, <2>2
<1>4. Ordered(longer)
  <2> SUFFICES ASSUME NEW i \in 1..n, NEW j \in 1..n, i <= j
               PROVE  longer[i] <= longer[j]
    BY <1>2 DEF Ordered
  <2>1. CASE j = n
    BY <1>1, <1>2, <2>1 DEF Sound, Past
  <2>2. CASE j # n
    <3>1. i \in 1..Len(times) /\ j \in 1..Len(times)
      BY <1>1, <2>2
    <3> QED
      BY <1>2, <3>1 DEF Sound, Ordered
  <2> QED
    BY <2>1, <2>2
<1>5. Past(longer, time)
  BY <1>1, <1>2 DEF Sound, Past
<1>6. Forgotten(longer, Recent(times, kept, time) \cup {n}, time)
  <2> SUFFICES ASSUME NEW i \in 1..n, i \notin Recent(times, kept, time), i # n
               PROVE  time - times[i] >= Window
    BY <1>1, <1>2 DEF Forgotten
  <2>1. i \in 1..Len(times) /\ times[i] \in Nat
    BY <1>1, <1>2
  <2>2. CASE i \in kept
    BY <1>1, <2>1, <2>2 DEF Recent
  <2>3. CASE i \notin kept
    BY <2>1, <2>3 DEF Sound, Forgotten
  <2> QED
    BY <2>2, <2>3
<1>7. Spread(longer)
  <2> SUFFICES ASSUME NEW i \in 1..n, NEW j \in 1..n, j = i + Limit
               PROVE  longer[j] - longer[i] >= Window
    BY <1>2 DEF Spread
  <2>1. i \in 1..Len(times) /\ times[i] \in Nat /\ longer[i] = times[i]
    BY <1>1, <1>2
  <2>2. CASE j = n
    <3>1. ~(time - times[i] < Window)
      <4>1. Len(times) + 1 = i + Limit
        BY <2>2
      <4> QED
        BY <2>1, <4>1, FullWindow
    <3>2. time - times[i] >= Window
      BY <1>1, <2>1, <3>1
    <3>3. longer[j] = time
      BY <1>2, <2>2
    <3> QED
      BY <2>1, <3>2, <3>3
  <2>3. CASE j # n
    <3>1. j \in 1..Len(times)
      BY <1>1, <2>3
    <3>2. longer[j] = times[j]
      BY <1>2, <3>1
    <3> QED
      BY <2>1, <3>1, <3>2 DEF Sound, Spread
  <2> QED
    BY <2>2, <2>3
<1>8. Len(longer) = n
  BY <1>2
<1> HIDE DEF n
<1>9. Sound(longer, Recent(times, kept, time) \cup {n}, time)
  BY <1>3, <1>4, <1>5, <1>6, <1>7, <1>8 DEF Sound
<1> QED
  BY <1>9 DEF longer, n

----------------------------------------------------------------------------
LEMMA LimiterInitInv == LimiterInit => LimiterInv
<1> SUFFICES ASSUME LimiterInit PROVE LimiterInv
  OBVIOUS
<1>1. LimiterTypeOK
  BY DEF LimiterInit, LimiterTypeOK
<1>2. ASSUME NEW p \in Process, NEW a \in Address
      PROVE  admitted[p][a] = <<>> /\ requests[p][a] = {}
  BY DEF LimiterInit
<1>3. Sound(<<>>, {}, now)
  BY DEF Sound, Ordered, Past, Forgotten, Spread
<1> QED
  BY <1>1, <1>2, <1>3 DEF LimiterInv

LEMMA LimiterStep == LimiterInv /\ [LimiterNext]_limiter => LimiterInv'
<1> SUFFICES ASSUME LimiterInv, [LimiterNext]_limiter PROVE LimiterInv'
  OBVIOUS
<1> USE DEF LimiterInv
<1>1. CASE UNCHANGED limiter
  BY <1>1 DEF limiter, LimiterTypeOK
<1>2. CASE Tick
  <2>1. now \in Nat /\ now' \in Nat /\ now <= now' /\ admitted' = admitted /\ requests' = requests
    BY <1>2, LimiterAssumption DEF Tick, LimiterTypeOK
  <2>2. ASSUME NEW p \in Process, NEW a \in Address
        PROVE  Sound(admitted[p][a], requests[p][a], now')
    <3>1. admitted[p][a] \in Seq(Nat) /\ Window \in Nat
      BY LimiterAssumption DEF LimiterTypeOK
    <3> DEFINE times == admitted[p][a]
               kept == requests[p][a]
    <3>2. \A i \in 1..Len(times) : times[i] \in Nat
      BY <3>1
    <3>3. Sound(times, kept, now)
      OBVIOUS
    <3> HIDE DEF times, kept, LimiterInv
    <3>4. Past(times, now')
      <4> SUFFICES ASSUME NEW i \in 1..Len(times) PROVE times[i] <= now'
        BY DEF Past
      <4>1. times[i] \in Nat /\ times[i] <= now
        BY <3>2, <3>3 DEF Sound, Past
      <4> QED
        BY <2>1, <4>1
    <3>5. Forgotten(times, kept, now')
      <4> SUFFICES ASSUME NEW i \in (1..Len(times)) \ kept PROVE now' - times[i] >= Window
        BY DEF Forgotten
      <4>1. times[i] \in Nat /\ now - times[i] >= Window
        BY <3>2, <3>3 DEF Sound, Forgotten
      <4> QED
        BY <2>1, <3>1, <4>1
    <3>6. Sound(times, kept, now')
      BY <3>3, <3>4, <3>5 DEF Sound
    <3> QED
      BY <3>6 DEF times, kept
  <2> QED
    BY <2>1, <2>2 DEF LimiterTypeOK
<1>3. ASSUME NEW p \in Process, NEW a \in Address, Admit(p, a) PROVE LimiterInv'
  <2> DEFINE kept == Timestamps(p, a) \cup {Len(admitted[p][a]) + 1}
             longer == Append(admitted[p][a], now)
  <2>1. longer \in Seq(Nat) /\ kept \in SUBSET Nat /\ now' = now /\ now \in Nat
    BY <1>3 DEF Admit, LimiterTypeOK, Timestamps
  <2>2. Sound(longer, kept, now)
    <3>1. Timestamps(p, a) = Recent(admitted[p][a], requests[p][a], now)
      BY DEF Timestamps, Recent
    <3>2. ~(Cardinality(Recent(admitted[p][a], requests[p][a], now)) >= Limit)
      BY <1>3, <3>1 DEF Admit, Full
    <3>3. admitted[p][a] \in Seq(Nat) /\ Sound(admitted[p][a], requests[p][a], now)
      BY DEF LimiterTypeOK
    <3> HIDE DEF LimiterInv
    <3> QED
      BY <2>1, <3>1, <3>2, <3>3, AdmitSound
  <2>3. /\ admitted' = [admitted EXCEPT ![p] = [admitted[p] EXCEPT ![a] = longer]]
        /\ requests' = [requests EXCEPT ![p] = [requests[p] EXCEPT ![a] = kept]]
    BY <1>3 DEF Admit
  <2> HIDE DEF kept, longer
  <2>4. LimiterTypeOK'
    BY <2>1, <2>3 DEF LimiterTypeOK
  <2>5. ASSUME NEW q \in Process, NEW b \in Address
        PROVE  Sound(admitted'[q][b], requests'[q][b], now')
    <3>1. CASE q = p /\ b = a
      BY <2>1, <2>2, <2>3, <3>1 DEF LimiterTypeOK
    <3>2. CASE ~(q = p /\ b = a)
      BY <2>1, <2>3, <3>2 DEF LimiterTypeOK
    <3> QED
      BY <3>1, <3>2
  <2> QED
    BY <2>4, <2>5
<1>4. ASSUME NEW p \in Process, NEW a \in Address, Refuse(p, a) PROVE LimiterInv'
  BY <1>1, <1>4 DEF Refuse
<1> QED
  BY <1>1, <1>2, <1>3, <1>4 DEF LimiterNext

----------------------------------------------------------------------------
LEMMA LimiterBounds == LimiterInv => WindowBound
<1> SUFFICES ASSUME LimiterInv, NEW p \in Process, NEW a \in Address,
                    NEW i \in DOMAIN admitted[p][a], NEW j \in DOMAIN admitted[p][a],
                    j = i + Limit
             PROVE  admitted[p][a][j] - admitted[p][a][i] >= Window
  BY DEF WindowBound
<1>1. admitted[p][a] \in Seq(Nat) /\ Spread(admitted[p][a])
  BY DEF LimiterInv, LimiterTypeOK, Sound
<1>2. DOMAIN admitted[p][a] = 1..Len(admitted[p][a])
  BY <1>1
<1> QED
  BY <1>1, <1>2 DEF Spread

\* No address gets more than Limit requests through a process within a window,
\* for every limit, window, length of the run and number of addresses: what
\* use() drops from its list can never count again.
THEOREM WindowsBounded == LimiterSpec => []WindowBound
BY LimiterBounds, LimiterInitInv, LimiterStep, PTL DEF LimiterSpec

=============================================================================
