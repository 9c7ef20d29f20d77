---------------------------- MODULE HistoryProofs ----------------------------
(***************************************************************************)
(* What a client is shown of the transactions table was the table at some   *)
(* moment, its total covers the page it comes with, and a lookup by id      *)
(* finds what was committed before it: for any queries, readers and         *)
(* commits, through caches nothing invalidates.  All three rest on a        *)
(* table that only grows, in the order of the commits.                      *)
(***************************************************************************)
EXTENDS TransactionHistory, SequenceTheorems, FiniteSetTheorems, TLAPS

Row == UNION {RowsOf[h] : h \in Handler}

\* A request while it is answered.
RequestType ==
  [q : Query, at : {"rows", "count", "fill", "answered"}, rows : Seq(Row), total : Nat,
   since : Nat]

----------------------------------------------------------------------------
\* Skip and the slice it starts, of a listing with at least one row to show.
LEMMA SkipTyped ==
  ASSUME NEW q \in Query
  PROVE  Skip(q) \in Nat /\ q.limit \in Nat \ {0} /\ (q.kind = "id" => Skip(q) = 0)
<1>1. q.page \in Nat \ {0} /\ q.limit \in Nat \ {0} /\ (q.kind = "id" => q.page = 1)
  BY HistoryAssumption
<1>2. \A a, b \in Nat : a * b \in Nat /\ 0 * b = 0
  OBVIOUS
<1>3. q.page - 1 \in Nat /\ (q.kind = "id" => q.page - 1 = 0)
  BY <1>1
<1> QED
  BY <1>1, <1>2, <1>3 DEF Skip

LEMMA SliceBounds ==
  ASSUME NEW q \in Query, NEW S, NEW s \in Seq(S)
  PROVE  /\ Slice(q, s) \in Seq(S)
         /\ Slice(q, s) # <<>> => Skip(q) + Len(Slice(q, s)) <= Len(s)
         /\ (Skip(q) = 0 /\ s # <<>>) => Slice(q, s) # <<>>
<1> DEFINE end == IF Skip(q) + q.limit < Len(s) THEN Skip(q) + q.limit ELSE Len(s)
<1>1. /\ Skip(q) \in Nat /\ q.limit \in Nat \ {0} /\ Len(s) \in Nat
      /\ end \in Nat /\ end <= Len(s)
  BY SkipTyped
<1>2. Slice(q, s) = SubSeq(s, Skip(q) + 1, end)
  BY DEF Slice
<1>3. CASE end < Skip(q) + 1
  <2>1. SubSeq(s, Skip(q) + 1, end) = <<>>
    BY <1>1, <1>3
  <2>2. Skip(q) = 0 => Len(s) = 0
    BY <1>1, <1>3
  <2>3. <<>> \in Seq(S) /\ (Len(s) = 0 => s = <<>>)
    OBVIOUS
  <2> QED
    BY <1>2, <2>1, <2>2, <2>3
<1>4. CASE end >= Skip(q) + 1
  <2>1. \A i \in (Skip(q) + 1)..end : s[i] \in S
    BY <1>1
  <2>2. /\ SubSeq(s, Skip(q) + 1, end) \in Seq(S)
        /\ Len(SubSeq(s, Skip(q) + 1, end)) = end - Skip(q)
    BY <1>1, <1>4, <2>1
  <2>3. SubSeq(s, Skip(q) + 1, end) # <<>>
    <3>1. Len(SubSeq(s, Skip(q) + 1, end)) # 0
      BY <1>1, <1>4, <2>2
    <3>2. \A t : Len(t) # 0 => t # <<>>
      OBVIOUS
    <3> QED
      BY <3>1, <3>2
  <2> QED
    BY <1>1, <1>2, <2>2, <2>3
<1> QED
  BY <1>1, <1>3, <1>4

----------------------------------------------------------------------------
\* The rows of a query after n commits: finitely many, of the table, and no fewer
\* after more commits.
LEMMA WhereIs ==
  ASSUME commits \in Seq(Handler), NEW q, NEW n \in 0..Len(commits)
  PROVE  /\ IsFiniteSet(Where(q, n)) /\ Where(q, n) \subseteq Row
         /\ \A k \in 0..n : Where(q, k) \subseteq Where(q, n)
<1> DEFINE Rows(k) == {RowsOf[commits[i]] : i \in 1..k}
           f == [i \in 1..n |-> RowsOf[commits[i]]]
<1>1. \A i \in 1..n : commits[i] \in Handler
  OBVIOUS
<1>2. IsFiniteSet(Rows(n))
  <2>1. f \in Surjection(1..n, Rows(n))
    BY DEF Surjection
  <2>2. IsFiniteSet(1..n)
    BY FS_Interval
  <2> QED
    BY <2>1, <2>2, FS_Surjection
<1>3. \A R \in Rows(n) : IsFiniteSet(R) /\ R \subseteq Row
  BY <1>1, HistoryAssumption DEF Row
<1>4. IsFiniteSet(UNION Rows(n)) /\ UNION Rows(n) \subseteq Row
  BY <1>2, <1>3, FS_UNION
<1>5. Where(q, n) \subseteq UNION Rows(n)
  BY DEF Where
<1>6. IsFiniteSet(Where(q, n))
  BY <1>4, <1>5, FS_Subset
<1>7. ASSUME NEW k \in 0..n PROVE Where(q, k) \subseteq Where(q, n)
  <2>1. 1..k \subseteq 1..n
    OBVIOUS
  <2> QED
    BY <2>1 DEF Where
<1> QED
  BY <1>4, <1>5, <1>6, <1>7

\* A listing has every row of its query once; a slice of it stays within its end.
LEMMA SlicesAre ==
  ASSUME commits \in Seq(Handler), NEW q \in Query, NEW n \in 0..Len(commits),
         NEW rows \in Slices(q, n)
  PROVE  /\ rows \in Seq(Row)
         /\ rows # <<>> => Skip(q) + Len(rows) <= Cardinality(Where(q, n))
         /\ (q.kind = "id" /\ Where(q, n) # {}) => rows # <<>>
<1>1. IsFiniteSet(Where(q, n)) /\ Where(q, n) \subseteq Row
  BY WhereIs
<1>2. Cardinality(Where(q, n)) \in Nat
  BY <1>1, FS_CardinalityType
<1>3. PICK s \in [1..Cardinality(Where(q, n)) -> Where(q, n)] : rows = Slice(q, s)
  BY DEF Slices, Listings
<1>4. s \in Seq(Row) /\ Len(s) = Cardinality(Where(q, n))
  BY <1>1, <1>2, <1>3
<1>5. Where(q, n) # {} => s # <<>>
  <2>1. Where(q, n) # {} => Cardinality(Where(q, n)) # 0
    BY <1>1, FS_EmptySet
  <2> QED
    BY <1>4, <2>1
<1> QED
  BY <1>3, <1>4, <1>5, SkipTyped, SliceBounds

\* What was listed after n commits stays so: later commits only add rows.
LEMMA SlicesStay ==
  ASSUME commits \in Seq(Handler), began' = began,
         commits' = commits \/ \E h \in Handler : commits' = Append(commits, h),
         NEW q, NEW n \in 0..Len(commits)
  PROVE  /\ Where(q, n)' = Where(q, n) /\ Slices(q, n)' = Slices(q, n)
         /\ n \in 0..Len(commits') /\ commits' \in Seq(Handler)
<1>1. /\ \A i \in 1..n : commits'[i] = commits[i]
      /\ n \in 0..Len(commits') /\ commits' \in Seq(Handler)
  OBVIOUS
<1>2. {RowsOf[commits'[i]] : i \in 1..n} = {RowsOf[commits[i]] : i \in 1..n}
  BY <1>1
<1>3. Where(q, n)' = Where(q, n)
  BY <1>2 DEF Where
<1>4. ASSUME NEW row PROVE Age(row)' = Age(row)
  BY DEF Age
<1>5. ASSUME NEW rows PROVE Listings(rows)' = Listings(rows)
  BY <1>4 DEF Listings
<1>6. Slices(q, n)' = Slices(q, n)
  BY <1>3, <1>5 DEF Slices, Listings, Age
<1> QED
  BY <1>1, <1>3, <1>6

----------------------------------------------------------------------------
\* What a total is worth beside a page's rows.
Covers(q, rows, total) ==
  (q.kind = "page" /\ rows # <<>>) => total >= Skip(q) + Len(rows)

\* A request of query q that has its rows, listed after the n-th commit: after
\* its own beginning, unless a cached row answered it.
Listed(r, q, n, rows) ==
  /\ reading[r].rows = rows
  /\ reading[r].at = "count" => q.kind = "page"
  /\ q.kind = "id" => /\ n >= reading[r].since \/ rows # <<>>
                      /\ reading[r].at = "fill" => rows # <<>>
  /\ reading[r].at \in {"fill", "answered"} => Covers(q, rows, reading[r].total)

ReadingTrue(r) ==
  reading[r] # None =>
    \E q \in Query :
      /\ reading[r].q = q /\ reading[r].since <= Len(commits)
      /\ reading[r].at # "rows" =>
           \E n \in 0..Len(commits) : \E rows \in Slices(q, n) : Listed(r, q, n, rows)

\* An entry is as true as the reading it was filled from, and one of an id has a row.
CacheTrue(q) ==
  cache[q] # None =>
    /\ cache[q].total \in Nat
    /\ \E n \in 0..Len(commits) : \E rows \in Slices(q, n) :
         /\ cache[q].rows = rows
         /\ q.kind = "id" => rows # <<>>
         /\ Covers(q, rows, cache[q].total)

HTyped ==
  /\ commits \in Seq(Handler)
  /\ reading \in [Reader -> RequestType \cup {None}]
  /\ DOMAIN cache = Query
HInv ==
  /\ HTyped
  /\ \A r \in Reader : ReadingTrue(r)
  /\ \A q \in Query : CacheTrue(q)

LEMMA HistoryInit == Init => HInv
  BY DEF Init, HInv, HTyped, ReadingTrue, CacheTrue

\* The steps that read or fill leave the table alone.
LEMMA TableKept ==
  ASSUME HTyped, UNCHANGED <<began, commits>>
  PROVE  \A q : \A n \in 0..Len(commits) : Slices(q, n)' = Slices(q, n)
  BY SlicesStay DEF HTyped

\* A reading that no step touches stays true.
LEMMA ReadingStays ==
  ASSUME HTyped, began' = began,
         commits' = commits \/ \E h \in Handler : commits' = Append(commits, h),
         NEW r \in Reader, ReadingTrue(r), reading'[r] = reading[r]
  PROVE  ReadingTrue(r)'
<1> SUFFICES ASSUME reading[r] # None
             PROVE  ReadingTrue(r)'
  BY DEF ReadingTrue
<1>1. PICK q \in Query :
        /\ reading[r].q = q /\ reading[r].since <= Len(commits)
        /\ reading[r].at # "rows" =>
             \E n \in 0..Len(commits) : \E rows \in Slices(q, n) : Listed(r, q, n, rows)
  BY DEF ReadingTrue
<1>2. reading[r].since \in Nat
  BY DEF HTyped, RequestType
<1>3. Len(commits) \in Nat /\ Len(commits') \in Nat /\ Len(commits) <= Len(commits')
  BY DEF HTyped
<1>4. reading'[r].since <= Len(commits')
  BY <1>1, <1>2, <1>3
<1>5. ASSUME NEW n \in 0..Len(commits), NEW rows \in Slices(q, n), Listed(r, q, n, rows)
      PROVE  n \in 0..Len(commits') /\ rows \in Slices(q, n)' /\ Listed(r, q, n, rows)'
  BY <1>5, SlicesStay DEF HTyped, Listed
<1> QED
  BY <1>1, <1>4, <1>5 DEF ReadingTrue

LEMMA CacheStays ==
  ASSUME HTyped, began' = began,
         commits' = commits \/ \E h \in Handler : commits' = Append(commits, h),
         NEW q \in Query, CacheTrue(q), cache'[q] = cache[q]
  PROVE  CacheTrue(q)'
<1>1. ASSUME NEW n \in 0..Len(commits), NEW rows \in Slices(q, n)
      PROVE  n \in 0..Len(commits') /\ rows \in Slices(q, n)'
  BY SlicesStay DEF HTyped
<1> QED
  BY <1>1 DEF CacheTrue

----------------------------------------------------------------------------
\* A request that begins: it is answered from the cache or goes on to read.
LEMMA LookUpTrue ==
  ASSUME HInv, NEW r \in Reader, NEW q \in Asks[r], LookUp(r, q)
  PROVE  ReadingTrue(r)' /\ HTyped'
<1>0. q \in Query /\ Len(commits) \in Nat /\ Key(q) = q
  BY HistoryAssumption DEF HInv, HTyped, Key
<1> DEFINE since == IF q.kind = "id" THEN Len(commits) ELSE 0
<1>1. since \in Nat /\ since <= Len(commits)
  BY <1>0
<1>2. CASE cache[q] # None
  <2>0. PICK n \in 0..Len(commits) : \E rows \in Slices(q, n) :
          /\ cache[q].rows = rows /\ cache[q].total \in Nat
          /\ q.kind = "id" => rows # <<>>
          /\ Covers(q, rows, cache[q].total)
    BY <1>0, <1>2 DEF HInv, CacheTrue
  <2>1. PICK rows \in Slices(q, n) :
          /\ cache[q].rows = rows /\ cache[q].total \in Nat
          /\ q.kind = "id" => rows # <<>>
          /\ Covers(q, rows, cache[q].total)
    BY <2>0
  <2> DEFINE g == [q |-> q, at |-> "answered", rows |-> rows, total |-> cache[q].total,
                   since |-> since]
  <2>2. reading' = [reading EXCEPT ![r] = g]
    BY <1>0, <1>2, <2>1 DEF LookUp, Request
  <2>3. g \in RequestType
    BY <1>0, <1>1, <2>1, SlicesAre DEF HInv, HTyped, RequestType
  <2>4. reading'[r] = g /\ HTyped'
    BY <2>2, <2>3 DEF HInv, HTyped, LookUp
  <2>5. rows \in Slices(q, n)' /\ commits' = commits
    BY TableKept DEF HInv, LookUp
  <2> HIDE DEF since
  <2>6. Listed(r, q, n, rows)'
    BY <2>1, <2>4 DEF Listed
  <2> QED
    BY <1>0, <1>1, <2>4, <2>5, <2>6 DEF ReadingTrue
<1>3. CASE cache[q] = None
  <2> DEFINE g == [q |-> q, at |-> "rows", rows |-> <<>>, total |-> 0, since |-> since]
  <2>1. reading' = [reading EXCEPT ![r] = g]
    BY <1>0, <1>3 DEF LookUp, Request
  <2>2. g \in RequestType
    BY <1>0, <1>1 DEF RequestType
  <2>3. reading'[r] = g /\ HTyped' /\ commits' = commits
    BY <2>1, <2>2 DEF HInv, HTyped, LookUp
  <2> QED
    BY <1>0, <1>1, <2>3 DEF ReadingTrue
<1> QED
  BY <1>2, <1>3

\* The rows are those of the moment their statement runs, and an id's empty
\* result goes to the client but not to the cache (transaction.service.ts:94-98).
LEMMA ReadRowsTrue ==
  ASSUME HInv, NEW r \in Reader, ReadRows(r)
  PROVE  ReadingTrue(r)' /\ HTyped'
<1>0. /\ reading[r] # None /\ reading[r] \in RequestType
      /\ ReadingTrue(r) /\ commits \in Seq(Handler) /\ UNCHANGED <<began, commits, cache>>
  BY DEF HInv, HTyped, ReadRows, At
<1>1. PICK q \in Query : reading[r].q = q /\ reading[r].since <= Len(commits)
  BY <1>0 DEF ReadingTrue
<1> DEFINE next(rows) == CASE q.kind = "page"       -> "count"
                           [] ~Cacheable(q, rows) -> "answered"
                           [] OTHER               -> "fill"
<1>2. PICK rows \in Slices(q, Len(commits)) :
        reading' = [reading EXCEPT ![r].rows = rows, ![r].at = next(rows)]
  BY <1>1 DEF ReadRows
<1>3. /\ next(rows) \in {"count", "answered", "fill"}
      /\ q.kind = "page" <=> next(rows) = "count"
      /\ next(rows) = "fill" => Cacheable(q, rows)
  BY DEF Cacheable
<1> HIDE DEF next
<1>4. Len(commits) \in 0..Len(commits) /\ reading[r].since \in Nat
  BY <1>0 DEF RequestType
<1>5. rows \in Seq(Row)
  BY <1>0, <1>4, SlicesAre
<1>6. /\ reading'[r] \in RequestType
      /\ reading'[r].q = q /\ reading'[r].rows = rows /\ reading'[r].at = next(rows)
      /\ reading'[r].since = reading[r].since /\ reading' \in [Reader -> RequestType \cup {None}]
  BY <1>0, <1>1, <1>2, <1>3, <1>5 DEF HInv, HTyped, RequestType
<1>7. rows \in Slices(q, Len(commits))' /\ Len(commits') = Len(commits)
  BY <1>0, <1>4, SlicesStay
<1>8. Listed(r, q, Len(commits), rows)'
  BY <1>0, <1>1, <1>3, <1>6 DEF Listed, Cacheable, Covers
<1> QED
  BY <1>0, <1>1, <1>4, <1>6, <1>7, <1>8 DEF ReadingTrue, HTyped, HInv

\* The count, later than the rows, covers them: the table only grew, or it is the
\* rows' own end (transaction.service.ts:44-51).
LEMMA CountCovers ==
  ASSUME HInv, NEW r \in Reader, At(r, "count"), NEW total \in Total(r)
  PROVE  total \in Nat /\ Covers(reading[r].q, reading[r].rows, total)
<1>0. commits \in Seq(Handler) /\ Len(commits) \in 0..Len(commits) /\ Len(commits) \in Nat
  BY DEF HInv, HTyped
<1>1. PICK q \in Query :
        /\ reading[r].q = q
        /\ \E n \in 0..Len(commits) : \E rows \in Slices(q, n) : Listed(r, q, n, rows)
  BY DEF HInv, ReadingTrue, At
<1>2. PICK n \in 0..Len(commits) : reading[r].rows \in Slices(q, n)
  BY <1>1 DEF Listed
<1>3. /\ reading[r].rows \in Seq(Row)
      /\ reading[r].rows # <<>> =>
           Skip(q) + Len(reading[r].rows) <= Cardinality(Where(q, n))
  BY <1>0, <1>2, SlicesAre
<1>4. /\ Cardinality(Where(q, n)) \in Nat /\ Cardinality(Where(q, Len(commits))) \in Nat
      /\ Cardinality(Where(q, n)) <= Cardinality(Where(q, Len(commits)))
  <2>1. IsFiniteSet(Where(q, n)) /\ IsFiniteSet(Where(q, Len(commits)))
        /\ Where(q, n) \subseteq Where(q, Len(commits))
    BY <1>0, WhereIs
  <2> QED
    BY <2>1, FS_Subset, FS_CardinalityType
<1>5. Skip(q) \in Nat /\ Len(reading[r].rows) \in Nat
  BY <1>3, SkipTyped
<1>6. CASE total = Cardinality(Where(q, Len(commits)))
  BY <1>1, <1>3, <1>4, <1>5, <1>6 DEF Covers
<1>7. CASE total = Skip(q) + Len(reading[r].rows)
  BY <1>1, <1>5, <1>7 DEF Covers
<1> QED
  BY <1>1, <1>6, <1>7 DEF Total

LEMMA CountRowsTrue ==
  ASSUME HInv, NEW r \in Reader, CountRows(r)
  PROVE  ReadingTrue(r)' /\ HTyped'
<1>0. /\ reading[r] # None /\ reading[r] \in RequestType /\ reading[r].at = "count"
      /\ ReadingTrue(r) /\ commits \in Seq(Handler) /\ UNCHANGED <<began, commits, cache>>
  BY DEF HInv, HTyped, CountRows, At
<1>1. PICK q \in Query :
        /\ reading[r].q = q /\ reading[r].since <= Len(commits)
        /\ \E n \in 0..Len(commits) : \E rows \in Slices(q, n) : Listed(r, q, n, rows)
  BY <1>0 DEF ReadingTrue
<1>2. PICK n \in 0..Len(commits) : \E rows \in Slices(q, n) : Listed(r, q, n, rows)
  BY <1>1
<1>3. PICK rows \in Slices(q, n) : Listed(r, q, n, rows)
  BY <1>2
<1>4. PICK total \in Total(r) :
        reading' = [reading EXCEPT ![r].total = total, ![r].at = "fill"]
  BY DEF CountRows
<1>5. total \in Nat /\ Covers(q, rows, total)
  BY <1>0, <1>1, <1>3, CountCovers DEF Listed, At
<1>6. /\ reading'[r].q = q /\ reading'[r].rows = rows /\ reading'[r].at = "fill"
      /\ reading'[r].total = total /\ reading'[r].since = reading[r].since
      /\ reading' \in [Reader -> RequestType \cup {None}]
  BY <1>0, <1>1, <1>3, <1>4, <1>5 DEF HInv, HTyped, RequestType, Listed
<1>7. q.kind = "page"
  BY <1>0, <1>3 DEF Listed
<1>8. rows \in Slices(q, n)'
  BY <1>0, TableKept DEF HInv
<1>9. Listed(r, q, n, rows)'
  BY <1>5, <1>6, <1>7 DEF Listed
<1> QED
  BY <1>0, <1>1, <1>6, <1>8, <1>9 DEF ReadingTrue, HTyped, HInv

\* A fill caches what was read, however much was committed since.
LEMMA FillTrue ==
  ASSUME HInv, NEW r \in Reader, Fill(r)
  PROVE  ReadingTrue(r)' /\ HTyped' /\ \A q \in Query : CacheTrue(q)'
<1>0. /\ reading[r] # None /\ reading[r] \in RequestType /\ reading[r].at = "fill"
      /\ ReadingTrue(r) /\ commits \in Seq(Handler) /\ UNCHANGED <<began, commits>>
  BY DEF HInv, HTyped, Fill, At
<1>1. PICK q \in Query :
        /\ reading[r].q = q /\ reading[r].since <= Len(commits)
        /\ \E n \in 0..Len(commits) : \E rows \in Slices(q, n) : Listed(r, q, n, rows)
  BY <1>0 DEF ReadingTrue
<1>2. PICK n \in 0..Len(commits) : \E rows \in Slices(q, n) : Listed(r, q, n, rows)
  BY <1>1
<1>3. PICK rows \in Slices(q, n) : Listed(r, q, n, rows)
  BY <1>2
<1>4. /\ reading' = [reading EXCEPT ![r].at = "answered"]
      /\ cache' = [cache EXCEPT ![q] = [rows |-> reading[r].rows, total |-> reading[r].total]]
  BY <1>1 DEF Fill, Key
<1>5. /\ reading'[r].q = q /\ reading'[r].rows = rows /\ reading'[r].at = "answered"
      /\ reading'[r].total = reading[r].total /\ reading'[r].since = reading[r].since
      /\ reading' \in [Reader -> RequestType \cup {None}]
  BY <1>0, <1>1, <1>3, <1>4 DEF HInv, HTyped, RequestType, Listed
<1>6. rows \in Slices(q, n)'
  BY <1>0, TableKept DEF HInv
<1>7. Listed(r, q, n, rows)'
  BY <1>0, <1>3, <1>5 DEF Listed
<1>8. ReadingTrue(r)' /\ HTyped'
  BY <1>0, <1>1, <1>4, <1>5, <1>6, <1>7 DEF ReadingTrue, HTyped, HInv
<1>9. ASSUME NEW k \in Query PROVE CacheTrue(k)'
  <2>1. CASE k # q
    <3>1. cache'[k] = cache[k] /\ CacheTrue(k) /\ HTyped
      BY <1>4, <2>1 DEF HInv, HTyped
    <3> QED
      BY <1>0, <3>1, CacheStays
  <2>2. CASE k = q
    <3>1. cache'[q].rows = rows /\ cache'[q].total = reading[r].total
      BY <1>3, <1>4 DEF HInv, HTyped, Listed
    <3>2. /\ reading[r].total \in Nat /\ Covers(q, rows, reading[r].total)
          /\ q.kind = "id" => rows # <<>>
      BY <1>0, <1>3 DEF Listed, RequestType
    <3> QED
      BY <1>0, <1>6, <2>2, <3>1, <3>2 DEF CacheTrue
  <2> QED
    BY <2>1, <2>2
<1> QED
  BY <1>8, <1>9

LEMMA HistoryNext ==
  ASSUME HInv, [Next]_vars
  PROVE  HInv'
<1>0. HTyped /\ commits \in Seq(Handler) /\ Len(commits) \in Nat
  BY DEF HInv, HTyped
<1>1. CASE UNCHANGED vars
  BY <1>0, <1>1, ReadingStays, CacheStays DEF HInv, HTyped, vars
<1>2. ASSUME NEW h \in Handler, Commit(h) PROVE HInv'
  <2>1. UNCHANGED <<began, cache, reading>> /\ commits' = Append(commits, h)
    BY <1>2 DEF Commit
  <2>2. HTyped'
    BY <1>0, <2>1 DEF HTyped
  <2> QED
    BY <1>0, <2>1, <2>2, ReadingStays, CacheStays DEF HInv
\* A step of one reader that leaves the cache.
<1>3. ASSUME NEW r \in Reader, ReadingTrue(r)', HTyped', UNCHANGED <<began, commits, cache>>,
             \A s \in Reader : s # r => reading'[s] = reading[s]
      PROVE  HInv'
  <2>1. \A s \in Reader : s # r => ReadingTrue(s)'
    BY <1>0, <1>3, ReadingStays DEF HInv
  <2>2. \A q \in Query : CacheTrue(q)'
    BY <1>0, <1>3, CacheStays DEF HInv
  <2> QED
    BY <1>3, <2>1, <2>2 DEF HInv
<1>4. ASSUME NEW r \in Reader, NEW q \in Asks[r], LookUp(r, q) PROVE HInv'
  <2>1. UNCHANGED <<began, commits, cache>> /\ \A s \in Reader : s # r => reading'[s] = reading[s]
    BY <1>0, <1>4 DEF LookUp, HTyped
  <2> QED
    BY <1>3, <1>4, <2>1, LookUpTrue
<1>5. ASSUME NEW r \in Reader, ReadRows(r) PROVE HInv'
  <2>1. UNCHANGED <<began, commits, cache>> /\ \A s \in Reader : s # r => reading'[s] = reading[s]
    BY <1>0, <1>5 DEF ReadRows, HTyped
  <2> QED
    BY <1>3, <1>5, <2>1, ReadRowsTrue
<1>6. ASSUME NEW r \in Reader, CountRows(r) PROVE HInv'
  <2>1. UNCHANGED <<began, commits, cache>> /\ \A s \in Reader : s # r => reading'[s] = reading[s]
    BY <1>0, <1>6 DEF CountRows, HTyped
  <2> QED
    BY <1>3, <1>6, <2>1, CountRowsTrue
<1>7. ASSUME NEW r \in Reader, Fill(r) PROVE HInv'
  <2>1. UNCHANGED <<began, commits>> /\ \A s \in Reader : s # r => reading'[s] = reading[s]
    BY <1>0, <1>7 DEF Fill, HTyped
  <2>2. \A s \in Reader : s # r => ReadingTrue(s)'
    BY <1>0, <2>1, ReadingStays DEF HInv
  <2> QED
    BY <1>7, <2>2, FillTrue DEF HInv
<1>8. ASSUME NEW r \in Reader, Leave(r) PROVE HInv'
  <2>1. /\ UNCHANGED <<began, commits, cache>> /\ reading'[r] = None /\ HTyped'
        /\ \A s \in Reader : s # r => reading'[s] = reading[s]
    BY <1>0, <1>8 DEF Leave, HTyped
  <2> QED
    BY <1>3, <2>1 DEF ReadingTrue
<1>9. ASSUME NEW q \in Query, Expire(q) PROVE HInv'
  <2>1. /\ UNCHANGED <<began, commits, reading>> /\ cache'[q] = None /\ HTyped'
        /\ \A k \in Query : k # q => cache'[k] = cache[k]
    BY <1>0, <1>9 DEF Expire, HTyped
  <2>2. \A r \in Reader : ReadingTrue(r)'
    BY <1>0, <2>1, ReadingStays DEF HInv
  <2>3. \A k \in Query : CacheTrue(k)'
    BY <1>0, <2>1, CacheStays DEF HInv, CacheTrue
  <2> QED
    BY <2>1, <2>2, <2>3 DEF HInv
<1> QED
  BY <1>1, <1>2, <1>4, <1>5, <1>6, <1>7, <1>8, <1>9 DEF Next

LEMMA HistoryInvariant == Spec => []HInv
BY HistoryInit, HistoryNext, PTL DEF Spec

----------------------------------------------------------------------------
\* An answer, however old its cache entry, is the page its query names of the
\* table as it was at some moment (transaction.service.ts:32-51,
\* wallet.service.ts:444-453).
THEOREM AnswersWereTrue == Spec => []AnswerWasTrue
<1>1. HInv => AnswerWasTrue
  BY DEF HInv, AnswerWasTrue, ReadingTrue, Listed, Shown, At
<1> QED
  BY <1>1, HistoryInvariant, PTL

\* A page never shows rows its total does not count, although rows are committed
\* between the two statements that read them (transaction.service.ts:44).
THEOREM TotalsCoverPages == Spec => []TotalCoversPage
<1>1. HInv => TotalCoversPage
  BY DEF HInv, TotalCoversPage, ReadingTrue, Listed, Covers, Shown, At
<1> QED
  BY <1>1, HistoryInvariant, PTL

\* A lookup by id that begins after the row's commit finds it, whatever the
\* lookups before it cached (transaction.service.ts:94).
THEOREM CommittedIsAlwaysFound == Spec => []CommittedIsFound
<1>1. HInv => CommittedIsFound
  <2> SUFFICES ASSUME HInv, NEW r \in Reader, Shown(r), reading[r].q.kind = "id",
                      Where(reading[r].q, reading[r].since) # {}
               PROVE  reading[r].rows # <<>>
    BY DEF CommittedIsFound
  <2>1. reading[r] \in RequestType /\ reading[r].since \in Nat /\ commits \in Seq(Handler)
    BY DEF HInv, HTyped, RequestType, Shown, At
  <2>2. PICK q \in Query :
          /\ reading[r].q = q /\ reading[r].since <= Len(commits)
          /\ \E n \in 0..Len(commits) : \E rows \in Slices(q, n) : Listed(r, q, n, rows)
    BY DEF HInv, ReadingTrue, Shown, At
  <2>3. PICK n \in 0..Len(commits) :
          /\ reading[r].rows \in Slices(q, n)
          /\ n >= reading[r].since \/ reading[r].rows # <<>>
    BY <2>2 DEF Listed
  <2>4. CASE n >= reading[r].since
    <3>1. reading[r].since \in 0..n
      BY <2>1, <2>4
    <3>2. Where(q, n) # {}
      BY <2>1, <2>2, <3>1, WhereIs
    <3> QED
      BY <2>1, <2>2, <2>3, <3>2, SlicesAre
  <2> QED
    BY <2>3, <2>4
<1> QED
  BY <1>1, HistoryInvariant, PTL

=============================================================================
