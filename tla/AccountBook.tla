---------------------------- MODULE AccountBook ----------------------------
(***************************************************************************)
(* What the wallets and transactions tables promise to whoever reads them:  *)
(* balances, and a book to which postings are appended whole.  No handlers, *)
(* caches, locks or failures: WalletService implements this module.         *)
(***************************************************************************)
EXTENDS Integers, Sequences

CONSTANTS
  Account,   \* wallets
  Start,     \* the balances to begin with
  SharedKey, \* the keys that any number of entries may have
  None       \* no such account

VARIABLES
  balance,  \* [account]: its balance, None before it is opened
  book      \* the entries posted so far

Init == balance = Start /\ book = <<>>

\* Entries are records [wallet, before, after, key, type].
Moved(e) == e.after - e.before

\* A deposit or a withdrawal is one entry, a transfer the two sides of one amount.
Posting(es) ==
  \/ Len(es) = 1 /\ es[1].type = "deposit" /\ Moved(es[1]) > 0
  \/ Len(es) = 1 /\ es[1].type = "withdrawal" /\ Moved(es[1]) < 0
  \/ /\ Len(es) = 2
     /\ es[1].type = "transfer_out" /\ es[2].type = "transfer_in"
     /\ Moved(es[2]) > 0 /\ Moved(es[1]) = -Moved(es[2])

\* The entry that decides account a's balance: its last one.
Deciding(es, a) ==
  {i \in DOMAIN es : es[i].wallet = a /\ \A j \in DOMAIN es : es[j].wallet = a => j <= i}

KeysUnique(s) ==
  \A i, j \in DOMAIN s : (i # j /\ s[i].key \notin SharedKey) => s[i].key # s[j].key

\* An account is opened empty.
Open(a) ==
  /\ balance[a] = None
  /\ balance' = [balance EXCEPT ![a] = 0]
  /\ UNCHANGED book

\* A posting: its entries and the balances they state, in one step.  It may open
\* the account it pays into; an entry of an account nobody opens changes nothing.
Post ==
  \E n \in 1..2 :
    LET es == SubSeq(book', Len(book) + 1, Len(book) + n) IN
    /\ Len(book') = Len(book) + n /\ SubSeq(book', 1, Len(book)) = book
    /\ Posting(es) /\ KeysUnique(book')
    /\ \A i \in DOMAIN es : es[i].after >= 0
    /\ \A a \in Account :
         \/ balance'[a] = balance[a] /\ (balance[a] = None \/ Deciding(es, a) = {})
         \/ \E i \in Deciding(es, a) : balance'[a] = es[i].after

Next == Post \/ \E a \in Account : Open(a)

Spec == Init /\ [][Next]_<<balance, book>>

=============================================================================
