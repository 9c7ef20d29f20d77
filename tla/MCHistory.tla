------------------------------ MODULE MCHistory ------------------------------
(***************************************************************************)
(* Instances of TransactionHistory for TLC: Alice's wallet, a deposit and a *)
(* transfer from the wallet to itself, whose two rows have one createdAt.   *)
(***************************************************************************)
EXTENDS TransactionHistory

Entry(id) == [id |-> id, wallet |-> "w1", user |-> "alice"]
DepositAndTransfer == [h \in {"deposit", "transfer"} |->
  IF h = "deposit" THEN {Entry(1)} ELSE {Entry(2), Entry(3)}]
MCHandler == DOMAIN DepositAndTransfer

Page(page, limit) == [kind |-> "page", of |-> "w1", page |-> page, limit |-> limit]
Pages == {Page(1, 2), Page(2, 2)}
\* One row stands for the fifty the controller asks for.
Recent == [kind |-> "recent", of |-> "alice", page |-> 1, limit |-> 1]
ById == [kind |-> "id", of |-> 1, page |-> 1, limit |-> 1]
MCQuery == Pages \cup {Recent, ById}

CONSTANTS g1, g2
MCAsks == [r \in Reader |-> IF r = g1 THEN Pages ELSE {Page(1, 2), Recent, ById}]

=============================================================================
