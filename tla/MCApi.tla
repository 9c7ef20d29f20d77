-------------------------------- MODULE MCApi --------------------------------
(***************************************************************************)
(* Instances of Api for TLC.                                                *)
(***************************************************************************)
EXTENDS Api, TLC

CONSTANTS a1, a2

Password == {"short", "long1", "long2"}
\* Passwords that agree in their first 72 bytes have one hash.
MCHashOf == [w \in Password |-> IF w = "short" THEN "short" ELSE "long"]

Sent(client, kind, address, password, auth) ==
  [client |-> client, kind |-> kind, address |-> address, email |-> "alice",
   password |-> password, wellFormed |-> TRUE, auth |-> auth, currency |-> "USD", amount |-> 1]

\* Alice registers twice at once, with different passwords, and logs in.
Register == Sent(1, "register", a1, "long1", None)
CreateUser == Sent(2, "createUser", a2, "short", None)
LogIns == {Sent(3, "login", a1, password, None) : password \in {"long2", "short"}}

\* One request more: with the token of her registration, or ill-formed.
Wallet(kind, currency) == [Sent(4, kind, a1, "long1", Register) EXCEPT !.currency = currency]
\* The pipe lets EUR through and the DTO of a withdrawal refuses it.
OtherRequests ==
  {Wallet("deposit", Absent), Wallet("withdraw", "NGN"), Wallet("withdraw", "EUR"),
   Wallet("transfer", "usd"), Wallet("create", "NGN"),
   [Wallet("deposit", "USD") EXCEPT !.amount = 0],
   [Sent(4, "createUser", a1, "short", None) EXCEPT !.wellFormed = FALSE]}

MCRequest == {Register, CreateUser} \cup LogIns \cup OtherRequests

\* The uuids are interchangeable.
Symmetry == Permutations(UserId)

=============================================================================
