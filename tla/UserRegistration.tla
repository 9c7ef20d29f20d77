-------------------------- MODULE UserRegistration --------------------------
(***************************************************************************)
(* UserService, AuthService and the passport strategies (src/src/modules/   *)
(* user, src/src/modules/auth) over the users table: registration with and  *)
(* without a token, login, and the check of a token.  Every await of a      *)
(* request is a step; hashing has no effect of its own and belongs to the   *)
(* save.  Rows are never deleted or changed, and the JWT secret never is.   *)
(***************************************************************************)
EXTENDS Integers, FiniteSets

CONSTANTS
  Request,   \* requests of a run: [client, kind, email, password, wellFormed, auth, ...]
  UserId,    \* bound: the uuids a run may draw
  HashOf,    \* [password]: the bytes bcrypt takes of it, its first 72
  MaxFaults, \* bound: database errors
  None

ASSUME RegistrationAssumption ==
  \A q \in Request : [email |-> q.email, hash |-> HashOf[q.password]] # None

VARIABLES
  users,   \* [id]: committed row of the users table, None where there is none
  at,      \* [request]: where its handler is
  answer,  \* [request]: status of the response, None before it
  token,   \* [request]: the access token in the response
  faults   \* database errors so far

registration == <<users, at, answer, token, faults>>

RegistrationInit ==
  /\ users = [u \in UserId |-> None]
  /\ at = [q \in Request |-> "new"]
  /\ answer = [q \in Request |-> None]
  /\ token = [q \in Request |-> None]
  /\ faults = 0

----------------------------------------------------------------------------
Goto(q, place) ==
  at' = [at EXCEPT ![q] = place] /\ UNCHANGED <<users, answer, token, faults>>

Respond(q, status, access) ==
  /\ at' = [at EXCEPT ![q] = "done"]
  /\ answer' = [answer EXCEPT ![q] = status]
  /\ token' = [token EXCEPT ![q] = access]
Answer(q, status) == Respond(q, status, None) /\ UNCHANGED <<users, faults>>

\* findOne({ where: { email } }).
WithEmail(email) == {u \in UserId : users[u] # None /\ users[u].email = email}

\* jwtService.sign({ sub: user.id, email: user.email }).
Token(u, email) == [sub |-> u, email |-> email]

\* AuthService.register signs a token, POST /users does not.
TokenFor(q, u) == IF q.kind = "register" THEN Token(u, q.email) ELSE None

\* The ValidationPipe runs after the guards.
Validate(q) ==
  /\ at[q] = "pipes"
  /\ \/ ~q.wellFormed /\ Answer(q, 400)
     \/ q.wellFormed /\ Goto(q, IF q.kind = "login" THEN "login" ELSE "create")

\* create: the e-mail must be free when it looks.
CreateCheck(q) ==
  /\ at[q] = "create"
  /\ \/ WithEmail(q.email) # {} /\ Answer(q, 409)
     \/ WithEmail(q.email) = {} /\ Goto(q, "save")

\* The unique column decides the insert.  Mutant: the column is not unique.
EmailAccepted(email) == FALSE
EmailTaken(email) == WithEmail(email) # {}

Insert(q, u) ==
  /\ ~EmailTaken(q.email) /\ users[u] = None
  /\ users' = [users EXCEPT ![u] = [email |-> q.email, hash |-> HashOf[q.password]]]

\* The unique column's error is no HttpException: it answers 500.
CreateSave(q) ==
  /\ at[q] = "save"
  /\ \/ EmailTaken(q.email) /\ Answer(q, 500)
     \/ \E u \in UserId : Insert(q, u) /\ Respond(q, 201, TokenFor(q, u)) /\ UNCHANGED faults

\* validateUser: the row findOne returns, then bcrypt.compare.
\* Mutant: no compare.
KnownUser(q, u) == TRUE
ValidUser(q, u) == users[u].hash = HashOf[q.password]
Rejected(q) ==
  WithEmail(q.email) = {} \/ \E u \in WithEmail(q.email) : ~ValidUser(q, u)

\* LocalAuthGuard validates first, AuthService.login a second time; rows never
\* change, so what the guard accepted is accepted again.
LoginGuard(q) ==
  /\ at[q] = "loginGuard"
  /\ \/ Rejected(q) /\ Answer(q, 401)
     \/ (\E u \in WithEmail(q.email) : ValidUser(q, u)) /\ Goto(q, "pipes")
Login(q) ==
  /\ at[q] = "login"
  /\ \E u \in WithEmail(q.email) : ValidUser(q, u) /\ Respond(q, 201, Token(u, q.email))
  /\ UNCHANGED <<users, faults>>

\* JwtAuthGuard: no token or an expired one, or findById of its subject.
Bearer(q) == IF q.auth = None THEN None ELSE token[q.auth]
JwtGuard(q) ==
  /\ at[q] = "jwtGuard"
  /\ \/ Answer(q, 401)
     \/ Bearer(q) # None /\ users[Bearer(q).sub] # None /\ Goto(q, "handler")

\* A database error answers 500.  An insert may have committed when its
\* connection fails.
DatabaseFails(q) ==
  /\ at[q] \in {"create", "save", "loginGuard", "login", "jwtGuard"} /\ faults < MaxFaults
  /\ faults' = faults + 1
  /\ Respond(q, 500, None)
  /\ \/ UNCHANGED users
     \/ at[q] = "save" /\ \E u \in UserId : Insert(q, u)

RegistrationStep(q) ==
  \/ Validate(q) \/ CreateCheck(q) \/ CreateSave(q) \/ LoginGuard(q) \/ Login(q)
  \/ JwtGuard(q) \/ DatabaseFails(q)

----------------------------------------------------------------------------
\* An e-mail has one row, although registrations look for it and insert it with
\* a lookup and a hash between (user.service.ts:21-37).
OneUserPerEmail ==
  \A u, v \in UserId :
    (u # v /\ users[u] # None /\ users[v] # None) => users[u].email # users[v].email

Registers(q) == q.kind \in {"register", "createUser"}

\* Of several registrations with one e-mail, once the ones that passed the
\* validation are answered, exactly one was told it succeeded: the lookup and
\* the unique column never refuse them all (user.service.ts:21-37).
ExactlyOneRegisters ==
  \A q \in Request :
    LET rivals == {r \in Request : Registers(r) /\ r.email = q.email} IN
    (/\ faults = 0 /\ \A r \in rivals : at[r] \in {"new", "done"}
     /\ \E r \in rivals : answer[r] \notin {None, 400})
      => Cardinality({r \in rivals : answer[r] = 201}) = 1

\* A client told that its registration succeeded can log in with its password
\* from then on: a rival that hashed another password meanwhile never becomes
\* the e-mail's owner (user.service.ts:37 and 59).
RegisteredCanLogIn ==
  [][\A q, r \in Request :
       (/\ Registers(q) /\ answer[q] = 201 /\ r.kind = "login" /\ answer[r] = None
        /\ r.email = q.email /\ r.password = q.password) => answer'[r] # 401]_registration

\* A token names the row whose e-mail and password its client sent, also when
\* the row was registered between the two validations or its insert was
\* reported as failed (auth.service.ts:16-26).
TokenNamesItsOwner ==
  \A q \in Request :
    token[q] # None => LET row == users[token[q].sub] IN
                       /\ row # None /\ row.email = q.email /\ token[q].email = q.email
                       /\ row.hash = HashOf[q.password]

=============================================================================
