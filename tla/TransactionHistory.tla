-------------------------- MODULE TransactionHistory --------------------------
(***************************************************************************)
(* The three reads of the transactions table, each behind a cache nothing   *)
(* invalidates: TransactionService.getTransactionHistory (pages of a        *)
(* wallet) and getTransactionById (src/src/modules/transaction/             *)
(* transaction.service.ts), WalletService.getTransactionHistory (a user's   *)
(* latest rows).  Every await of a read is a step: the cached result, the   *)
(* rows, their count, the fill.  The handlers that write the rows are       *)
(* WalletService's; here they commit, in an order of their own: createdAt is *)
(* PostgreSQL's now(), the start of the transaction.                         *)
(***************************************************************************)
EXTENDS Integers, Sequences, FiniteSets

CONSTANTS
  Handler,  \* bound: transactions of a run that commit
  RowsOf,   \* [handler]: the rows it inserts, records with wallet and user
  Query,    \* [kind, of, page, limit]: kind is page, recent or id
  Reader,   \* requests in flight
  Asks,     \* bound: [reader]: the queries it makes
  None

\* Transactions insert finitely many rows; the DTO has @Min(1) on page and limit,
\* and a lookup by id is for one row.
ASSUME HistoryAssumption ==
  /\ Asks \in [Reader -> SUBSET Query]
  /\ \A h \in Handler : IsFiniteSet(RowsOf[h])
  /\ \A q \in Query : /\ q.page \in Nat \ {0} /\ q.limit \in Nat \ {0}
                      /\ q.kind = "id" => q.page = 1

VARIABLES
  began,    \* handlers in the order their transactions start, drawn for the run
  commits,  \* handlers in the order they committed
  cache,    \* [query]: the result under its key
  reading   \* [reader]: its request: [q, at, since, rows, total]

vars == <<began, commits, cache, reading>>

Init ==
  /\ began \in [1..Cardinality(Handler) -> Handler]
  /\ \A i, j \in DOMAIN began : i # j => began[i] # began[j]
  /\ commits = <<>>
  /\ cache = [q \in Query |-> None]
  /\ reading = [r \in Reader |-> None]

----------------------------------------------------------------------------
Commit(h) ==
  /\ \A i \in DOMAIN commits : commits[i] # h
  /\ commits' = Append(commits, h)
  /\ UNCHANGED <<began, cache, reading>>

\* The rows of a query after the first n commits.
Chosen(q, row) == CASE q.kind = "page"   -> row.wallet = q.of
                    [] q.kind = "recent" -> row.user = q.of
                    [] q.kind = "id"     -> row.id = q.of
Where(q, n) == {row \in UNION {RowsOf[commits[i]] : i \in 1..n} : Chosen(q, row)}

\* createdAt: two rows of one transaction have the same.
Age(row) == CHOOSE i \in DOMAIN began : row \in RowsOf[began[i]]

\* order: { createdAt: 'DESC' }, the database breaking ties as it likes.
Listings(rows) ==
  {s \in [1..Cardinality(rows) -> rows] :
     \A i, j \in DOMAIN s : i < j => s[i] # s[j] /\ Age(s[i]) >= Age(s[j])}

\* skip and take.
Skip(q) == (q.page - 1) * q.limit
Slice(q, s) ==
  LET end == IF Skip(q) + q.limit < Len(s) THEN Skip(q) + q.limit ELSE Len(s)
  IN  SubSeq(s, Skip(q) + 1, end)
Slices(q, n) == {Slice(q, s) : s \in Listings(Where(q, n))}

----------------------------------------------------------------------------
\* The key has every field of the query.  Mutant: the page is left out.
KeyOfWallet(q) == CHOOSE k \in Query : k = [q EXCEPT !.page = 1]
Key(q) == q

\* A request, and how much was committed when it began (of interest for an id).
Request(q, place, rows, total) ==
  [q |-> q, at |-> place, rows |-> rows, total |-> total,
   since |-> IF q.kind = "id" THEN Len(commits) ELSE 0]

\* cacheManager.get: what it finds is the answer.
LookUp(r, q) ==
  /\ reading[r] = None
  /\ LET cached == cache[Key(q)] IN
     \/ /\ cached # None
        /\ reading' = [reading EXCEPT ![r] = Request(q, "answered", cached.rows, cached.total)]
     \/ /\ cached = None
        /\ reading' = [reading EXCEPT ![r] = Request(q, "rows", <<>>, 0)]
  /\ UNCHANGED <<began, commits, cache>>

At(r, place) == reading[r] # None /\ reading[r].at = place

\* A row that is not there is not cached; an empty page is.  Mutant: it is.
CacheNothing(q, rows) == TRUE
Cacheable(q, rows) == q.kind = "id" => rows # <<>>

\* The statement that reads the rows.
ReadRows(r) ==
  LET q == reading[r].q IN
  /\ At(r, "rows")
  /\ \E rows \in Slices(q, Len(commits)) :
       reading' = [reading EXCEPT ![r].rows = rows,
                     ![r].at = CASE q.kind = "page"      -> "count"
                                 [] ~Cacheable(q, rows) -> "answered"
                                 [] OTHER               -> "fill"]
  /\ UNCHANGED <<began, commits, cache>>

\* findAndCount: the count is a statement of its own after the rows, or the end
\* of the rows when they do not fill the page.  Mutant: the page is counted.
TotalOfPage(r) == {Len(reading[r].rows)}
Total(r) ==
  LET q == reading[r].q
      length == Len(reading[r].rows)
  IN  {Cardinality(Where(q, Len(commits)))}
        \cup {n \in {Skip(q) + length} : length < q.limit /\ (length > 0 \/ Skip(q) = 0)}

CountRows(r) ==
  /\ At(r, "count")
  /\ \E n \in Total(r) : reading' = [reading EXCEPT ![r].total = n, ![r].at = "fill"]
  /\ UNCHANGED <<began, commits, cache>>

\* cacheManager.set, whatever was committed since the rows were read.
Fill(r) ==
  /\ At(r, "fill")
  /\ cache' = [cache EXCEPT ![Key(reading[r].q)] =
                 [rows |-> reading[r].rows, total |-> reading[r].total]]
  /\ reading' = [reading EXCEPT ![r].at = "answered"]
  /\ UNCHANGED <<began, commits>>

\* The answer is sent, or an await has failed.
Leave(r) ==
  /\ reading[r] # None
  /\ reading' = [reading EXCEPT ![r] = None]
  /\ UNCHANGED <<began, commits, cache>>

\* ttl of two or five minutes.  Mutant: without one.
KeepForever(q) == FALSE
Expire(q) ==
  /\ cache[q] # None
  /\ cache' = [cache EXCEPT ![q] = None]
  /\ UNCHANGED <<began, commits, reading>>

Next ==
  \/ \E h \in Handler : Commit(h)
  \/ \E r \in Reader : ReadRows(r) \/ CountRows(r) \/ Fill(r) \/ Leave(r)
                         \/ \E q \in Asks[r] : LookUp(r, q)
  \/ \E q \in Query : Expire(q)

\* Reads end and entries expire; nothing makes a client read or write.
Fairness ==
  /\ \A r \in Reader : WF_vars(Leave(r))
  /\ \A q \in Query : WF_vars(Expire(q))
Spec == Init /\ [][Next]_vars /\ Fairness

----------------------------------------------------------------------------
Shown(r) == At(r, "answered")

\* An answer, however old its cache entry, is the page its query names of the
\* table as it was at some moment: rows of one page, one order and one moment
\* (transaction.service.ts:32-51, wallet.service.ts:444-453).
AnswerWasTrue ==
  \A r \in Reader : Shown(r) =>
    \E n \in 0..Len(commits) : reading[r].rows \in Slices(reading[r].q, n)

\* A page never shows rows its total does not count, although the two come from
\* two statements with commits between them (transaction.service.ts:44).
TotalCoversPage ==
  \A r \in Reader :
    (Shown(r) /\ reading[r].q.kind = "page" /\ reading[r].rows # <<>>) =>
       reading[r].total >= Skip(reading[r].q) + Len(reading[r].rows)

\* A lookup by id that begins after the row's commit finds it: an earlier lookup
\* that did not leaves nothing behind, whenever it answers
\* (transaction.service.ts:94).
CommittedIsFound ==
  \A r \in Reader :
    (Shown(r) /\ reading[r].q.kind = "id" /\ Where(reading[r].q, reading[r].since) # {}) =>
       reading[r].rows # <<>>

\* Once the rows stop coming, what is cached is what the table holds, for good:
\* pages that readers computed before the last commit and filled in after newer
\* ones expire (transaction.service.ts:78, wallet.service.ts:455).
HistorySettles ==
  <>[](\A q \in Query : cache[q] # None =>
         /\ cache[q].rows \in Slices(q, Len(commits))
         /\ q.kind = "page" => cache[q].total = Cardinality(Where(q, Len(commits))))

=============================================================================
