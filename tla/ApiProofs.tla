------------------------------ MODULE ApiProofs ------------------------------
(***************************************************************************)
(* The rate limiter, the users table and the queued messages of the API, for *)
(* every set of requests, processes and uuids and any number of database    *)
(* errors and lost channels.  What is proved of rows and tokens rests on     *)
(* what a step may do to the users table: add a row whose e-mail is free,   *)
(* and nothing else; the rest on an answer being given once.                 *)
(***************************************************************************)
EXTENDS Api, RateLimiterProofs

\* Whether a row is the one a client with q's e-mail and password owns.
Owns(q, row) == row # None /\ row.email = q.email /\ row.hash = HashOf[q.password]

\* TokenNamesItsOwner, with the uuid a token names among those drawn.
TokensKnown ==
  \A q \in Request : token[q] # None =>
    token[q].sub \in UserId /\ token[q].email = q.email /\ Owns(q, users[token[q].sub])

RInv ==
  /\ DOMAIN users = UserId
  /\ DOMAIN token = Request
  /\ OneUserPerEmail
  /\ TokensKnown

\* What a step does to the two: rows stay, a new row's e-mail was free, and a
\* token that is given names its client's row.
RowsStep ==
  \/ users' = users
  \/ \E q \in Request, u \in UserId : Insert(q, u)
TokenStep ==
  \/ token' = token
  \/ \E q \in Request : \E access :
       /\ token' = [token EXCEPT ![q] = access]
       /\ access # None => /\ access.sub \in UserId /\ access.email = q.email
                           /\ Owns(q, users'[access.sub])

\* A row that a registration inserts is its client's (user.service.ts:36-37).
LEMMA InsertedIsOwned ==
  ASSUME RInv, NEW q \in Request, NEW u \in UserId, Insert(q, u)
  PROVE  Owns(q, users'[u])
BY RegistrationAssumption DEF RInv, Insert, Owns

\* An insert keeps the rows there were and the e-mails apart.
LEMMA RowsKept ==
  ASSUME RInv, RowsStep
  PROVE  /\ DOMAIN users' = UserId
         /\ OneUserPerEmail'
         /\ \A v \in UserId : users[v] # None => users'[v] = users[v]
<1>1. CASE users' = users
  BY <1>1 DEF RInv, OneUserPerEmail
<1>2. ASSUME NEW q \in Request, NEW u \in UserId, Insert(q, u)
      PROVE  /\ DOMAIN users' = UserId
             /\ OneUserPerEmail'
             /\ \A v \in UserId : users[v] # None => users'[v] = users[v]
  <2>1. /\ users[u] = None
        /\ users'[u].email = q.email
        /\ DOMAIN users' = UserId
        /\ \A v \in UserId : v # u => users'[v] = users[v]
    BY <1>2 DEF RInv, Insert
  <2>2. \A v \in UserId : users[v] # None => users[v].email # q.email
    BY <1>2 DEF Insert, EmailTaken, WithEmail
  <2>3. OneUserPerEmail'
    BY <2>1, <2>2 DEF RInv, OneUserPerEmail
  <2> QED BY <2>1, <2>3
<1> QED BY <1>1, <1>2 DEF RowsStep

\* The two kinds of step keep the invariant.
LEMMA Preserved ==
  ASSUME RInv, RowsStep, TokenStep
  PROVE  RInv'
<1>1. /\ DOMAIN users' = UserId
      /\ OneUserPerEmail'
      /\ \A v \in UserId : users[v] # None => users'[v] = users[v]
  BY RowsKept
<1>2. \A r \in Request : token[r] # None =>
        /\ token[r].sub \in UserId /\ token[r].email = r.email
        /\ Owns(r, users'[token[r].sub])
  BY <1>1 DEF RInv, TokensKnown, Owns
<1>3. CASE token' = token
  BY <1>1, <1>2, <1>3 DEF RInv, TokensKnown
<1>4. ASSUME NEW q \in Request, NEW access, token' = [token EXCEPT ![q] = access],
             access # None => /\ access.sub \in UserId /\ access.email = q.email
                              /\ Owns(q, users'[access.sub])
      PROVE  RInv'
  <2>1. DOMAIN token' = Request
    BY <1>4 DEF RInv
  <2>2. ASSUME NEW r \in Request, token'[r] # None
        PROVE  /\ token'[r].sub \in UserId /\ token'[r].email = r.email
               /\ Owns(r, users'[token'[r].sub])
    <3>1. CASE r = q
      <4>1. token'[r] = access
        BY <1>4, <3>1 DEF RInv
      <4> QED BY <1>4, <2>2, <3>1, <4>1
    <3>2. CASE r # q
      <4>1. token'[r] = token[r]
        BY <1>4, <3>2 DEF RInv
      <4> QED BY <1>2, <2>2, <4>1
    <3> QED BY <3>1, <3>2
  <2>3. TokensKnown'
    BY <2>2 DEF TokensKnown, Owns
  <2> QED BY <1>1, <2>1, <2>3 DEF RInv
<1> QED BY <1>3, <1>4 DEF TokenStep

\* Answering without a token, and going on, leave rows alone.
LEMMA AnswerStep ==
  ASSUME NEW q \in Request, NEW status, Answer(q, status)
  PROVE  RowsStep /\ TokenStep
BY DEF Answer, Respond, RowsStep, TokenStep

LEMMA GotoStep ==
  ASSUME NEW q, NEW place, Goto(q, place)
  PROVE  RowsStep /\ TokenStep
BY DEF Goto, RowsStep, TokenStep

\* Each step of a registration, a login or a guard is of those two kinds.
LEMMA RegistrationSteps ==
  ASSUME RInv, NEW q \in Request, RegistrationStep(q)
  PROVE  RowsStep /\ TokenStep
<1>1. CASE Validate(q)
  BY <1>1, AnswerStep, GotoStep DEF Validate
<1>2. CASE CreateCheck(q)
  BY <1>2, AnswerStep, GotoStep DEF CreateCheck
<1>3. CASE CreateSave(q)
  <2>1. CASE Answer(q, 500)
    BY <2>1, AnswerStep
  <2>2. ASSUME NEW u \in UserId, Insert(q, u), Respond(q, 201, TokenFor(q, u))
        PROVE  RowsStep /\ TokenStep
    <3>1. RowsStep
      BY <2>2 DEF RowsStep
    <3>2. Owns(q, users'[u])
      BY <2>2, InsertedIsOwned
    <3>3. token' = [token EXCEPT ![q] = TokenFor(q, u)]
      BY <2>2 DEF Respond
    <3>4. TokenFor(q, u) # None =>
            TokenFor(q, u).sub = u /\ TokenFor(q, u).email = q.email
      BY DEF TokenFor, Token
    <3>5. TokenStep
      BY <2>2, <3>2, <3>3, <3>4 DEF TokenStep
    <3> QED BY <3>1, <3>5
  <2> QED BY <1>3, <2>1, <2>2 DEF CreateSave
<1>4. CASE LoginGuard(q)
  BY <1>4, AnswerStep, GotoStep DEF LoginGuard
<1>5. CASE Login(q)
  <2>1. PICK u \in WithEmail(q.email) :
          ValidUser(q, u) /\ Respond(q, 201, Token(u, q.email))
    BY <1>5 DEF Login
  <2>2. users' = users
    BY <1>5 DEF Login
  <2>3. u \in UserId /\ Owns(q, users'[u])
    BY <2>1, <2>2 DEF WithEmail, ValidUser, Owns
  <2>4. Token(u, q.email).sub = u /\ Token(u, q.email).email = q.email
    BY DEF Token
  <2>5. token' = [token EXCEPT ![q] = Token(u, q.email)]
    BY <2>1 DEF Respond
  <2>6. TokenStep
    BY <2>3, <2>4, <2>5 DEF TokenStep
  <2> QED BY <2>2, <2>6 DEF RowsStep
<1>6. CASE JwtGuard(q)
  BY <1>6, AnswerStep, GotoStep DEF JwtGuard
<1>7. CASE DatabaseFails(q)
  BY <1>7 DEF DatabaseFails, Respond, RowsStep, TokenStep
<1> QED BY <1>1, <1>2, <1>3, <1>4, <1>5, <1>6, <1>7 DEF RegistrationStep

\* No other step of the API touches either.
LEMMA ApiSteps ==
  ASSUME RInv, [ApiNext]_api
  PROVE  RowsStep /\ TokenStep
<1>1. CASE UNCHANGED api
  BY <1>1 DEF api, registration, RowsStep, TokenStep
<1>2. ASSUME NEW q \in Request, Authenticate(q)
      PROVE  RowsStep /\ TokenStep
  BY <1>2, RegistrationSteps DEF Authenticate
<1>3. ASSUME NEW q \in Request, Handle(q)
      PROVE  RowsStep /\ TokenStep
  BY <1>3, AnswerStep DEF Handle
<1>4. ASSUME NEW q \in Request, NEW p \in Process, Arrive(q, p)
      PROVE  RowsStep /\ TokenStep
  BY <1>4, AnswerStep, GotoStep DEF Arrive
<1>5. ASSUME NEW p \in Process, ChannelCloses(p)
      PROVE  RowsStep /\ TokenStep
  BY <1>5 DEF ChannelCloses, registration, RowsStep, TokenStep
<1>6. CASE Tick /\ UNCHANGED <<registration, delivery>>
  BY <1>6 DEF registration, RowsStep, TokenStep
<1> QED BY <1>1, <1>2, <1>3, <1>4, <1>5, <1>6 DEF ApiNext

LEMMA Invariant == ApiSpec => []RInv
<1>1. ApiInit => RInv
  BY DEF ApiInit, RegistrationInit, RInv, OneUserPerEmail, TokensKnown
<1>2. RInv /\ [ApiNext]_api => RInv'
  BY ApiSteps, Preserved
<1> QED BY <1>1, <1>2, PTL DEF ApiSpec

\* The table never has two rows of one e-mail, however many registrations look
\* for it before any of them inserts it (user.service.ts:21-37).
THEOREM EmailsAreUnique == ApiSpec => []OneUserPerEmail
<1>1. RInv => OneUserPerEmail
  BY DEF RInv
<1> QED BY <1>1, Invariant, PTL

\* A token, from a registration or a login, names the row whose e-mail and
\* password its client sent (auth.service.ts:15-39).
THEOREM TokensNameTheirOwners == ApiSpec => []TokenNamesItsOwner
<1>1. RInv => TokenNamesItsOwner
  BY DEF RInv, TokensKnown, Owns, TokenNamesItsOwner
<1> QED BY <1>1, Invariant, PTL

----------------------------------------------------------------------------
\* The steps of the API are steps of its limiter, so the bound on a window is the
\* API's too.
LEMMA LimiterOfApi == ApiSpec => []LimiterInv
<1>1. ApiInit => LimiterInv
  BY LimiterInitInv DEF ApiInit
<1>2. ASSUME [ApiNext]_api PROVE [LimiterNext]_limiter
  <2>1. ASSUME NEW q \in Request, NEW p \in Process, Arrive(q, p)
        PROVE  LimiterNext
    BY <2>1, ApiAssumption DEF Arrive, LimiterNext
  <2>2. ASSUME NEW q \in Request, Authenticate(q) \/ Handle(q)
        PROVE  UNCHANGED limiter
    BY <2>2 DEF Authenticate, Handle
  <2>3. ASSUME NEW p \in Process, ChannelCloses(p)
        PROVE  UNCHANGED limiter
    BY <2>3 DEF ChannelCloses
  <2> QED
    BY <1>2, <2>1, <2>2, <2>3 DEF ApiNext, LimiterNext, api
<1>3. LimiterInv /\ [ApiNext]_api => LimiterInv'
  BY <1>2, LimiterStep
<1> QED
  BY <1>1, <1>3, PTL DEF ApiSpec

----------------------------------------------------------------------------
\* Places a handler may reach.
Place == {"new", "pipes", "create", "save", "loginGuard", "login", "jwtGuard", "handler", "done"}
UserKind == {"register", "createUser", "login"}
Allowed(q, place) ==
  /\ place \in {"jwtGuard", "handler"} => q.kind \notin UserKind
  /\ place \in {"loginGuard", "login"} => q.kind = "login"
  /\ place \in {"create", "save"} => Registers(q)
  /\ place = "pipes" => q.kind \in UserKind

\* A request is answered once, and has nothing to show before.
Unanswered(q) == at[q] # "done" => answer[q] = None /\ token[q] = None

\* Of two registrations with one e-mail one succeeds; without errors of the
\* database every row has its registration and every other answer has its row.
Succeeded(q) == Registers(q) /\ answer[q] = 201
RegisteredOwn == \A q \in Request : Succeeded(q) => \E u \in UserId : Owns(q, users[u])
OneSucceeds ==
  \A q, r \in Request : (Succeeded(q) /\ Succeeded(r) /\ q.email = r.email) => q = r
RowsRegistered ==
  faults = 0 => \A u \in UserId : users[u] # None =>
                  \E q \in Request : Succeeded(q) /\ q.email = users[u].email
AnswersHaveRows ==
  faults = 0 => \A q \in Request :
    (Registers(q) /\ answer[q] \notin {None, 400}) => \E u \in UserId : users[u] # None
                                                        /\ users[u].email = q.email

AInv ==
  /\ RInv
  /\ faults \in Nat
  /\ at \in [Request -> Place] /\ DOMAIN answer = Request
  /\ \A q \in Request :
       /\ Allowed(q, at[q]) /\ Unanswered(q)
       /\ token[q] # None => answer[q] = 201
       /\ at[q] = "handler" => q.auth # None /\ token[q.auth] # None
  /\ RegisteredOwn /\ OneSucceeds /\ RowsRegistered /\ AnswersHaveRows

\* The shapes of a step: a request goes on, or is answered, or none does.
Goes(q, place) ==
  /\ Goto(q, place)
  /\ place # "done" /\ place \in Place /\ Allowed(q, place)
  /\ place = "handler" => q.auth # None /\ token[q.auth] # None
Answers(q, status, access) ==
  /\ Respond(q, status, access)
  /\ access # None => status = 201
  /\ faults' \in Nat /\ (faults' = 0 => faults = 0)
  /\ \/ users' = users /\ ~(Registers(q) /\ status = 201)
     \/ \E u \in UserId : Insert(q, u) /\ (faults' = 0 => Registers(q) /\ status = 201)
  /\ (Registers(q) /\ faults' = 0 /\ status # 400) =>
        WithEmail(q.email) # {} \/ \E u \in UserId : Insert(q, u)
  /\ (status = 401 /\ q.kind \in UserKind) => Rejected(q)
Shaped ==
  \/ UNCHANGED registration
  \/ \E q \in Request : /\ at[q] # "done"
                        /\ \/ \E place : Goes(q, place)
                           \/ \E status, access : Answers(q, status, access)

\* An answer without a token, a row or an error.
LEMMA PlainAnswer ==
  ASSUME AInv, NEW q \in Request, NEW status, Answer(q, status), status # 201,
         Registers(q) => status = 400 \/ WithEmail(q.email) # {},
         (status = 401 /\ q.kind \in UserKind) => Rejected(q)
  PROVE  Answers(q, status, None)
  BY DEF Answer, Answers, AInv

LEMMA StepShaped ==
  ASSUME AInv, NEW q \in Request, RegistrationStep(q)
  PROVE  at[q] # "done" /\ ((\E place : Goes(q, place)) \/ \E status, access : Answers(q, status, access))
<1>0. Allowed(q, at[q]) /\ faults \in Nat /\ RInv /\ q.auth \in Request \cup {None}
  BY ApiAssumption DEF AInv
<1>1. CASE Validate(q)
  <2>1. CASE Answer(q, 400)
    BY <1>1, <2>1, PlainAnswer DEF Validate
  <2>2. CASE Goto(q, IF q.kind = "login" THEN "login" ELSE "create")
    <3>1. Goes(q, IF q.kind = "login" THEN "login" ELSE "create")
      BY <1>0, <1>1, <2>2 DEF Validate, Goes, Allowed, UserKind, Registers, Place
    <3> QED
      BY <1>1, <3>1 DEF Validate
  <2> QED
    BY <1>1, <2>1, <2>2 DEF Validate
<1>2. CASE CreateCheck(q)
  <2>1. CASE WithEmail(q.email) # {} /\ Answer(q, 409)
    BY <1>2, <2>1, PlainAnswer DEF CreateCheck
  <2>2. CASE Goto(q, "save")
    <3>1. Goes(q, "save")
      BY <1>0, <1>2, <2>2 DEF CreateCheck, Goes, Allowed, Place
    <3> QED
      BY <1>2, <3>1 DEF CreateCheck
  <2> QED
    BY <1>2, <2>1, <2>2 DEF CreateCheck
<1>3. CASE CreateSave(q)
  <2>1. CASE EmailTaken(q.email) /\ Answer(q, 500)
    BY <1>3, <2>1, PlainAnswer DEF CreateSave, EmailTaken
  <2>2. ASSUME NEW u \in UserId, Insert(q, u), Respond(q, 201, TokenFor(q, u)), UNCHANGED faults
        PROVE  Answers(q, 201, TokenFor(q, u))
    <3>1. Registers(q)
      BY <1>0, <1>3 DEF CreateSave, Allowed
    <3> QED
      BY <1>0, <2>2, <3>1 DEF Answers
  <2> QED
    BY <1>3, <2>1, <2>2 DEF CreateSave
<1>4. CASE LoginGuard(q)
  <2>0. q.kind = "login" /\ ~Registers(q)
    BY <1>0, <1>4 DEF LoginGuard, Allowed, Registers
  <2>1. CASE Rejected(q) /\ Answer(q, 401)
    BY <1>4, <2>0, <2>1, PlainAnswer DEF LoginGuard
  <2>2. CASE Goto(q, "pipes")
    <3>1. Goes(q, "pipes")
      BY <2>0, <2>2 DEF Goes, Allowed, UserKind, Place
    <3> QED
      BY <1>4, <3>1 DEF LoginGuard
  <2> QED
    BY <1>4, <2>1, <2>2 DEF LoginGuard
<1>5. CASE Login(q)
  <2>0. ~Registers(q)
    BY <1>0, <1>5 DEF Login, Allowed, Registers
  <2>1. PICK u \in WithEmail(q.email) :
          Respond(q, 201, Token(u, q.email)) /\ UNCHANGED <<users, faults>>
    BY <1>5 DEF Login
  <2>2. Answers(q, 201, Token(u, q.email))
    BY <1>0, <2>0, <2>1 DEF Answers
  <2> QED
    BY <1>5, <2>2 DEF Login
<1>6. CASE JwtGuard(q)
  <2>0. q.kind \notin UserKind /\ ~Registers(q)
    BY <1>0, <1>6 DEF JwtGuard, Allowed, Registers, UserKind
  <2>1. CASE Answer(q, 401)
    BY <1>6, <2>0, <2>1, PlainAnswer DEF JwtGuard
  <2>2. CASE Bearer(q) # None /\ Goto(q, "handler")
    <3>1. Goes(q, "handler")
      BY <2>0, <2>2 DEF Goes, Allowed, Bearer, UserKind, Place
    <3> QED
      BY <1>6, <3>1 DEF JwtGuard
  <2> QED
    BY <1>6, <2>1, <2>2 DEF JwtGuard
<1>7. CASE DatabaseFails(q)
  <2>1. faults' \in Nat /\ faults' # 0 /\ Respond(q, 500, None)
    BY <1>0, <1>7 DEF DatabaseFails
  <2>2. Answers(q, 500, None)
    BY <1>7, <2>1 DEF Answers, DatabaseFails
  <2> QED
    BY <1>7, <2>2 DEF DatabaseFails
<1> QED
  BY <1>1, <1>2, <1>3, <1>4, <1>5, <1>6, <1>7 DEF RegistrationStep

LEMMA ApiStepShaped ==
  ASSUME AInv, [ApiNext]_api
  PROVE  Shaped
<1>1. CASE UNCHANGED api
  BY <1>1 DEF api, Shaped
<1>2. ASSUME NEW q \in Request, Authenticate(q)
      PROVE  Shaped
  BY <1>2, StepShaped DEF Authenticate, Shaped
<1>3. ASSUME NEW q \in Request, Handle(q)
      PROVE  Shaped
  <2>0. at[q] = "handler" /\ ~Registers(q) /\ q.kind \notin UserKind
    BY <1>3 DEF Handle, AInv, Allowed, Registers, UserKind
  <2>1. PICK status : Answer(q, status)
    BY <1>3 DEF Handle
  <2>2. Respond(q, status, None) /\ UNCHANGED <<users, faults>>
    BY <2>1 DEF Answer
  <2>3. Answers(q, status, None)
    BY <2>0, <2>2 DEF Answers, AInv
  <2> QED
    BY <2>0, <2>3 DEF Shaped
<1>4. ASSUME NEW q \in Request, NEW p \in Process, Arrive(q, p)
      PROVE  Shaped
  <2>0. at[q] # "done"
    BY <1>4 DEF Arrive
  <2>1. CASE Answer(q, 400)
    BY <2>0, <2>1, PlainAnswer DEF Shaped
  <2>2. CASE Goto(q, Entry(q))
    <3>1. Goes(q, Entry(q))
      <4>1. CASE q.kind \in {"register", "createUser"}
        <5>1. Entry(q) = "pipes"
          BY <4>1 DEF Entry
        <5> QED
          BY <2>2, <4>1, <5>1 DEF Goes, Allowed, UserKind, Place
      <4>2. CASE q.kind = "login"
        <5>1. Entry(q) = "loginGuard"
          BY <4>2 DEF Entry
        <5> QED
          BY <2>2, <4>2, <5>1 DEF Goes, Allowed, UserKind, Place
      <4>3. CASE q.kind \notin UserKind
        <5>1. Entry(q) = "jwtGuard"
          BY <4>3 DEF Entry, UserKind
        <5> QED
          BY <2>2, <4>3, <5>1 DEF Goes, Allowed, UserKind, Place
      <4> QED
        BY <4>1, <4>2, <4>3 DEF UserKind
    <3> QED
      BY <2>0, <3>1 DEF Shaped
  <2> QED
    BY <1>4, <2>1, <2>2 DEF Arrive
<1>5. ASSUME NEW p \in Process, ChannelCloses(p)
      PROVE  Shaped
  BY <1>5 DEF ChannelCloses, Shaped
<1>6. CASE Tick /\ UNCHANGED <<registration, delivery>>
  BY <1>6 DEF Shaped
<1> QED
  BY <1>1, <1>2, <1>3, <1>4, <1>5, <1>6 DEF ApiNext

----------------------------------------------------------------------------
\* What a step of q does to every request and every row.
LEMMA AnsweredStays ==
  ASSUME AInv, Shaped, NEW r \in Request, at[r] = "done"
  PROVE  at'[r] = "done" /\ answer'[r] = answer[r] /\ token'[r] = token[r]
  BY DEF AInv, RInv, Shaped, registration, Goes, Goto, Answers, Respond

LEMMA RowsStay ==
  ASSUME AInv, [ApiNext]_api, NEW u \in UserId, users[u] # None
  PROVE  users'[u] = users[u]
  BY ApiSteps, RowsKept DEF AInv

LEMMA OwnersStay ==
  ASSUME AInv, [ApiNext]_api, NEW q \in Request, NEW u \in UserId, Owns(q, users[u])
  PROVE  Owns(q, users'[u])
  BY RowsStay DEF Owns

LEMMA TokensStay ==
  ASSUME AInv, Shaped, NEW r \in Request, token[r] # None
  PROVE  token'[r] = token[r] /\ answer'[r] = answer[r]
  BY AnsweredStays DEF AInv, Unanswered

LEMMA RequestsKeep ==
  ASSUME AInv, [ApiNext]_api
  PROVE  /\ faults' \in Nat /\ (faults' = 0 => faults = 0)
         /\ at' \in [Request -> Place] /\ DOMAIN answer' = Request
         /\ \A r \in Request :
              /\ Allowed(r, at'[r]) /\ Unanswered(r)'
              /\ token'[r] # None => answer'[r] = 201
              /\ at'[r] = "handler" => r.auth # None /\ token'[r.auth] # None
<1>0. Shaped
  BY ApiStepShaped
<1>1. CASE UNCHANGED registration
  BY <1>1 DEF AInv, registration, Unanswered
<1>2. ASSUME NEW q \in Request, NEW place, at[q] # "done", Goes(q, place)
      PROVE  /\ faults' \in Nat /\ (faults' = 0 => faults = 0)
             /\ at' \in [Request -> Place] /\ DOMAIN answer' = Request
             /\ \A r \in Request :
                  /\ Allowed(r, at'[r]) /\ Unanswered(r)'
                  /\ token'[r] # None => answer'[r] = 201
                  /\ at'[r] = "handler" => r.auth # None /\ token'[r.auth] # None
  <2>1. /\ at' = [at EXCEPT ![q] = place] /\ UNCHANGED <<answer, token, faults>>
        /\ place \in Place /\ place # "done" /\ Allowed(q, place)
        /\ place = "handler" => q.auth # None /\ token[q.auth] # None
    BY <1>2 DEF Goes, Goto
  <2>2. at' \in [Request -> Place] /\ at'[q] = place
        /\ \A r \in Request : r # q => at'[r] = at[r]
    BY <2>1 DEF AInv
  <2> QED
    BY <1>2, <2>1, <2>2 DEF AInv, Unanswered
<1>3. ASSUME NEW q \in Request, NEW status, NEW access, at[q] # "done", Answers(q, status, access)
      PROVE  /\ faults' \in Nat /\ (faults' = 0 => faults = 0)
             /\ at' \in [Request -> Place] /\ DOMAIN answer' = Request
             /\ \A r \in Request :
                  /\ Allowed(r, at'[r]) /\ Unanswered(r)'
                  /\ token'[r] # None => answer'[r] = 201
                  /\ at'[r] = "handler" => r.auth # None /\ token'[r.auth] # None
  <2>1. /\ at' = [at EXCEPT ![q] = "done"] /\ answer' = [answer EXCEPT ![q] = status]
        /\ token' = [token EXCEPT ![q] = access] /\ (access # None => status = 201)
        /\ faults' \in Nat /\ (faults' = 0 => faults = 0)
    BY <1>3 DEF Answers, Respond
  <2>2. /\ at' \in [Request -> Place] /\ DOMAIN answer' = Request
        /\ at'[q] = "done" /\ answer'[q] = status /\ token'[q] = access
        /\ \A r \in Request :
             r # q => at'[r] = at[r] /\ answer'[r] = answer[r] /\ token'[r] = token[r]
    BY <2>1 DEF AInv, RInv, Place
  <2>3. \A r \in Request : Allowed(r, at'[r])
    BY <2>2 DEF AInv, Allowed
  <2>4. \A r \in Request : Unanswered(r)' /\ (token'[r] # None => answer'[r] = 201)
    BY <2>1, <2>2 DEF AInv, Unanswered
  <2>5. ASSUME NEW r \in Request, at'[r] = "handler"
        PROVE  r.auth # None /\ token'[r.auth] # None
    <3>1. r.auth # None /\ token[r.auth] # None /\ r.auth \in Request
      BY <2>2, <2>5, ApiAssumption DEF AInv
    <3> QED
      BY <1>0, <3>1, TokensStay
  <2> QED
    BY <2>1, <2>2, <2>3, <2>4, <2>5
<1> QED
  BY <1>0, <1>1, <1>2, <1>3 DEF Shaped

\* A registration that succeeds inserts its row, and no rival's success is behind
\* it: that one's row would have its e-mail (user.service.ts:36-37).
LEMMA SuccessStep ==
  ASSUME AInv, [ApiNext]_api
  PROVE  /\ \A r \in Request : Succeeded(r) => Succeeded(r)'
         /\ \/ /\ \A r \in Request : Succeeded(r)' => Succeeded(r)
               /\ faults' = 0 => users' = users
            \/ \E q \in Request, u \in UserId :
                 /\ Insert(q, u) /\ Succeeded(q)'
                 /\ \A r \in Request : Succeeded(r)' => Succeeded(r) \/ r = q
<1>0. Shaped
  BY ApiStepShaped
<1>1. ASSUME NEW r \in Request, Succeeded(r) PROVE Succeeded(r)'
  <2>1. at[r] = "done"
    BY <1>1, ApiAssumption DEF AInv, Unanswered, Succeeded
  <2> QED
    BY <1>0, <1>1, <2>1, AnsweredStays DEF Succeeded
<1>2. CASE UNCHANGED registration
  BY <1>1, <1>2 DEF registration, Succeeded
<1>3. ASSUME NEW q \in Request, NEW place, Goes(q, place)
      PROVE  UNCHANGED <<users, answer>>
  BY <1>3 DEF Goes, Goto
<1>4. ASSUME NEW q \in Request, NEW status, NEW access, Answers(q, status, access)
      PROVE  \/ /\ \A r \in Request : Succeeded(r)' => Succeeded(r)
                /\ faults' = 0 => users' = users
             \/ \E u \in UserId :
                 /\ Insert(q, u) /\ Succeeded(q)'
                 /\ \A r \in Request : Succeeded(r)' => Succeeded(r) \/ r = q
  <2>1. /\ answer'[q] = status
        /\ \A r \in Request : r # q => answer'[r] = answer[r]
    BY <1>4 DEF Answers, Respond, AInv
  <2>2. \A r \in Request : Succeeded(r)' => Succeeded(r) \/ (r = q /\ status = 201)
    BY <2>1 DEF Succeeded
  <2>3. CASE users' = users /\ ~(Registers(q) /\ status = 201)
    BY <2>2, <2>3 DEF Succeeded
  <2>4. ASSUME NEW u \in UserId, Insert(q, u), faults' = 0 => Registers(q) /\ status = 201
        PROVE  \/ /\ \A r \in Request : Succeeded(r)' => Succeeded(r)
                  /\ faults' = 0 => users' = users
               \/ /\ Insert(q, u) /\ Succeeded(q)'
                  /\ \A r \in Request : Succeeded(r)' => Succeeded(r) \/ r = q
    BY <2>1, <2>2, <2>4 DEF Succeeded
  <2> QED
    BY <1>4, <2>3, <2>4 DEF Answers
<1> QED
  BY <1>0, <1>1, <1>2, <1>3, <1>4 DEF Shaped, Succeeded

LEMMA SuccessesKeep ==
  ASSUME AInv, [ApiNext]_api
  PROVE  RegisteredOwn' /\ OneSucceeds' /\ RowsRegistered'
<1>0. /\ RegisteredOwn /\ OneSucceeds /\ RowsRegistered
      /\ faults' = 0 => faults = 0
  BY RequestsKeep DEF AInv
<1>1. \A r \in Request : Succeeded(r) => Succeeded(r)'
  BY SuccessStep
<1>2. ASSUME NEW r \in Request, Succeeded(r)
      PROVE  \E u \in UserId : Owns(r, users'[u])
  BY <1>0, <1>2, OwnersStay DEF RegisteredOwn
<1>3. CASE /\ \A r \in Request : Succeeded(r)' => Succeeded(r)
           /\ faults' = 0 => users' = users
  <2>1. RegisteredOwn'
    BY <1>2, <1>3 DEF RegisteredOwn, Owns
  <2>2. OneSucceeds'
    BY <1>0, <1>3 DEF OneSucceeds
  <2>3. RowsRegistered'
    BY <1>0, <1>1, <1>3 DEF RowsRegistered
  <2> QED
    BY <2>1, <2>2, <2>3
<1>4. ASSUME NEW q \in Request, NEW u \in UserId, Insert(q, u), Succeeded(q)',
             \A r \in Request : Succeeded(r)' => Succeeded(r) \/ r = q
      PROVE  RegisteredOwn' /\ OneSucceeds' /\ RowsRegistered'
  <2>1. Owns(q, users'[u]) /\ users'[u].email = q.email
    BY <1>4, InsertedIsOwned DEF AInv, Owns
  <2>2. RegisteredOwn'
    BY <1>2, <1>4, <2>1 DEF RegisteredOwn, Owns
  <2>3. \A r \in Request : Succeeded(r) => r.email # q.email
    BY <1>0, <1>4 DEF RegisteredOwn, Insert, EmailTaken, WithEmail, Owns
  <2>4. OneSucceeds'
    BY <1>0, <1>4, <2>3 DEF OneSucceeds
  <2>5. RowsRegistered'
    <3> SUFFICES ASSUME faults' = 0, NEW v \in UserId, users'[v] # None
                 PROVE  \E r \in Request : Succeeded(r)' /\ r.email = users'[v].email
      BY DEF RowsRegistered
    <3>1. CASE v = u
      BY <1>4, <2>1, <3>1
    <3>2. CASE v # u
      <4>1. users'[v] = users[v]
        BY <1>4, <3>2 DEF Insert, AInv, RInv
      <4>2. PICK r \in Request : Succeeded(r) /\ r.email = users[v].email
        BY <1>0, <4>1 DEF RowsRegistered
      <4> QED
        BY <1>1, <4>1, <4>2
    <3> QED
      BY <3>1, <3>2
  <2> QED
    BY <2>2, <2>4, <2>5
<1> QED
  BY <1>3, <1>4, SuccessStep

\* Without errors of the database a registration that was not told of success
\* was told so because of a row that is there (user.service.ts:21-37).
LEMMA AnswersHaveRowsKeeps ==
  ASSUME AInv, [ApiNext]_api
  PROVE  AnswersHaveRows'
<1> SUFFICES ASSUME faults' = 0, NEW r \in Request, Registers(r), answer'[r] \notin {None, 400}
             PROVE  \E u \in UserId : users'[u] # None /\ users'[u].email = r.email
  BY DEF AnswersHaveRows
<1>0. Shaped /\ faults = 0
  BY ApiStepShaped, RequestsKeep
<1>1. CASE answer'[r] = answer[r]
  <2>1. PICK u \in UserId : users[u] # None /\ users[u].email = r.email
    BY <1>0, <1>1 DEF AInv, AnswersHaveRows
  <2> QED
    BY <2>1, RowsStay
<1>2. CASE answer'[r] # answer[r]
  <2>1. PICK status, access : Answers(r, status, access)
    BY <1>0, <1>2 DEF Shaped, registration, Goes, Goto, Answers, Respond, AInv
  <2>2. answer'[r] = status
    BY <2>1 DEF Answers, Respond, AInv
  <2>3. CASE WithEmail(r.email) # {}
    <3>1. PICK u \in UserId : users[u] # None /\ users[u].email = r.email
      BY <2>3 DEF WithEmail
    <3> QED
      BY <3>1, RowsStay
  <2>4. ASSUME NEW u \in UserId, Insert(r, u)
        PROVE  users'[u] # None /\ users'[u].email = r.email
    BY <2>4, InsertedIsOwned DEF AInv, Owns
  <2> QED
    BY <2>1, <2>2, <2>3, <2>4 DEF Answers
<1> QED
  BY <1>1, <1>2

LEMMA AnswersInvariant == ApiSpec => []AInv
<1>1. ApiInit => AInv
  <2> SUFFICES ASSUME ApiInit PROVE AInv
    OBVIOUS
  <2>1. RInv
    BY DEF ApiInit, RegistrationInit, RInv, OneUserPerEmail, TokensKnown
  <2>2. /\ \A q \in Request : answer[q] = None /\ token[q] = None /\ at[q] = "new"
        /\ \A u \in UserId : users[u] = None
        /\ at \in [Request -> Place] /\ DOMAIN answer = Request /\ faults = 0
    BY DEF ApiInit, RegistrationInit, Place
  <2>3. RegisteredOwn /\ OneSucceeds /\ RowsRegistered /\ AnswersHaveRows
    BY <2>2, ApiAssumption
    DEF RegisteredOwn, OneSucceeds, RowsRegistered, AnswersHaveRows, Succeeded
  <2> QED
    BY <2>1, <2>2, <2>3 DEF AInv, Allowed, Unanswered
<1>2. AInv /\ [ApiNext]_api => AInv'
  <2> SUFFICES ASSUME AInv, [ApiNext]_api PROVE AInv'
    OBVIOUS
  <2>1. RInv'
    BY ApiSteps, Preserved DEF AInv
  <2> QED
    BY <2>1, RequestsKeep, SuccessesKeep, AnswersHaveRowsKeeps DEF AInv, Allowed, Registers
<1> QED
  BY <1>1, <1>2, PTL DEF ApiSpec

----------------------------------------------------------------------------
\* Of registrations with one e-mail exactly one is told it succeeded, when the
\* database has no errors: the lookup and the unique column never refuse them all
\* (user.service.ts:21-37).
THEOREM OneRegistrationSucceeds == ApiSpec => []ExactlyOneRegisters
<1>1. AInv => ExactlyOneRegisters
  <2> SUFFICES ASSUME AInv, NEW q \in Request, faults = 0,
                      NEW r \in Request, Registers(r), r.email = q.email,
                      answer[r] \notin {None, 400}
               PROVE  Cardinality({t \in {s \in Request : Registers(s) /\ s.email = q.email} :
                                     answer[t] = 201}) = 1
    BY DEF ExactlyOneRegisters
  <2>1. PICK w \in Request : Succeeded(w) /\ w.email = q.email
    BY DEF AInv, AnswersHaveRows, RowsRegistered
  <2>2. {t \in {s \in Request : Registers(s) /\ s.email = q.email} : answer[t] = 201} = {w}
    BY <2>1 DEF AInv, OneSucceeds, Succeeded
  <2>3. Cardinality({w}) = 1
    BY FS_Singleton
  <2> QED
    BY <2>2, <2>3, Zenon
<1> QED
  BY <1>1, AnswersInvariant, PTL

\* A client told that its registration succeeded is never refused a login with
\* its password, whatever a rival hashed meanwhile (user.service.ts:37 and 59).
THEOREM RegisteredAlwaysLogIn == ApiSpec => RegisteredCanLogIn
<1>1. ASSUME AInv, [ApiNext]_api
      PROVE  [\A q, r \in Request :
                (/\ Registers(q) /\ answer[q] = 201 /\ r.kind = "login" /\ answer[r] = None
                 /\ r.email = q.email /\ r.password = q.password)
                   => answer'[r] # 401]_registration
  <2> SUFFICES ASSUME NEW q \in Request, NEW r \in Request, Succeeded(q), r.kind = "login",
                      answer[r] = None, r.email = q.email, r.password = q.password,
                      answer'[r] = 401
               PROVE  FALSE
    BY DEF Succeeded
  <2>1. answer'[r] # answer[r]
    BY ApiAssumption
  <2>2. PICK status, access : Answers(r, status, access)
    BY <1>1, <2>1, ApiStepShaped DEF Shaped, registration, Goes, Goto, Answers, Respond, AInv
  <2>3. Rejected(r)
    BY <1>1, <2>2 DEF Answers, Respond, AInv, UserKind
  <2>4. PICK u \in UserId : Owns(q, users[u])
    BY <1>1 DEF AInv, RegisteredOwn
  <2>5. WithEmail(r.email) = {u}
    BY <1>1, <2>4 DEF AInv, RInv, OneUserPerEmail, WithEmail, Owns
  <2>6. ValidUser(r, u)
    BY <2>4 DEF Owns, ValidUser
  <2> QED
    BY <2>3, <2>5, <2>6 DEF Rejected
<1> QED
  BY <1>1, AnswersInvariant, PTL DEF ApiSpec, RegisteredCanLogIn

----------------------------------------------------------------------------
\* A queued message with the request it is of.
FieldsOK(q, currency) ==
  /\ q.kind \in {"deposit", "withdraw", "transfer"} /\ q.wellFormed /\ q.amount > 0
  /\ q.kind = "deposit" => currency \in WalletCurrency \cup {Absent}
  /\ q.kind = "withdraw" => currency \in WalletCurrency \cap supportedCurrencies
  /\ q.kind = "transfer" => currency \in supportedCurrencies
Backed(m) ==
  LET q == m.request IN
  /\ q \in Request /\ FieldsOK(q, m.currency)
  /\ q.auth # None /\ answer[q.auth] = 201 /\ token[q.auth] # None
QueuedBacked == \A m \in queued : Backed(m)

\* What the DTO and the pipe let through to the queue (deposit.dto.ts:12-24,
\* currency-validation.pipe.ts:5).
LEMMA ValidIsWellFormed ==
  ASSUME NEW q \in Request, q.kind \notin UserKind, Valid(q), q.kind # "create"
  PROVE  FieldsOK(q, CurrencyQueued(q))
<1>0. q.kind \in {"deposit", "withdraw", "transfer"} /\ DtoAccepts(q) /\ q.wellFormed
  BY ApiAssumption DEF Valid, DtoAccepts, UserKind
<1>1. CASE q.kind = "deposit"
  <2>1. DepositDto(q)
    BY <1>0, <1>1 DEF DtoAccepts
  <2> QED
    BY <1>0, <1>1, <2>1 DEF DepositDto, CurrencyQueued, FieldsOK
<1>2. CASE q.kind = "withdraw"
  <2>1. WithdrawDto(q) /\ PipeAccepts(q.currency)
    BY <1>0, <1>2 DEF DtoAccepts, Valid
  <2>2. CurrencyQueued(q) = UpperCase(q.currency)
    BY <1>2 DEF CurrencyQueued
  <2>3. q.currency # "usd"
    BY <2>1, ApiAssumption DEF WithdrawDto, WalletCurrency
  <2>4. CurrencyQueued(q) \in WalletCurrency \cap supportedCurrencies
    <3>1. CurrencyQueued(q) = q.currency
      BY <2>2, <2>3 DEF UpperCase
    <3>2. q.currency \in supportedCurrencies /\ q.currency # Absent
      BY <2>1, <2>3, ApiAssumption DEF PipeAccepts, UpperCase, supportedCurrencies
    <3> QED
      BY <2>1, <3>1, <3>2 DEF WithdrawDto
  <2> QED
    BY <1>0, <1>2, <2>1, <2>4 DEF WithdrawDto, FieldsOK
<1>3. CASE q.kind = "transfer"
  <2>1. TransferDto(q) /\ PipeAccepts(q.currency)
    BY <1>0, <1>3 DEF DtoAccepts, Valid
  <2> QED
    BY <1>0, <1>3, <2>1 DEF TransferDto, CurrencyQueued, PipeAccepts, FieldsOK
<1> QED
  BY <1>0, <1>1, <1>2, <1>3

\* A message on the queue is of a kind, with an amount and in a currency that the
\* DTO and the pipe of its route let through, and was sent with the token of a
\* client that registered or logged in (deposit.dto.ts:12-24,
\* currency-validation.pipe.ts:5, jwt.strategy.ts:21).
THEOREM QueuedMessagesWellFormed == ApiSpec => []QueuedWellFormed
<1>1. ApiInit => QueuedBacked
  BY DEF ApiInit, QueuedBacked
<1>2. ASSUME AInv, QueuedBacked, [ApiNext]_api
      PROVE  QueuedBacked'
  <2>1. ASSUME NEW m, Backed(m)
        PROVE  Backed(m)'
    <3>1. m.request.auth \in Request
      BY <2>1, ApiAssumption DEF Backed
    <3>2. token'[m.request.auth] = token[m.request.auth]
          /\ answer'[m.request.auth] = answer[m.request.auth]
      BY <1>2, <2>1, <3>1, ApiStepShaped, TokensStay DEF Backed
    <3> QED
      BY <2>1, <3>2 DEF Backed
  <2>2. CASE queued' = queued
    BY <1>2, <2>1, <2>2 DEF QueuedBacked
  <2>3. ASSUME NEW q \in Request, Handle(q)
        PROVE  QueuedBacked'
    <3>1. CASE queued' = queued
      BY <2>2, <3>1
    <3>2. CASE /\ Valid(q) /\ q.kind # "create"
               /\ queued' = queued \cup {[request |-> q, currency |-> CurrencyQueued(q)]}
      <4>1. at[q] = "handler"
        BY <2>3 DEF Handle
      <4>2. /\ q.kind \notin UserKind /\ q.auth # None /\ token[q.auth] # None
            /\ q.auth \in Request /\ answer[q.auth] = 201
        BY <1>2, <4>1, ApiAssumption DEF AInv, Allowed
      <4>3. Backed([request |-> q, currency |-> CurrencyQueued(q)])
        BY <3>2, <4>2, ValidIsWellFormed DEF Backed
      <4> QED
        BY <1>2, <2>1, <3>2, <4>3 DEF QueuedBacked
    <3> QED
      BY <2>3, <3>1, <3>2 DEF Handle
  <2> QED
    BY <1>2, <2>2, <2>3 DEF ApiNext, Authenticate, Arrive, ChannelCloses, api, delivery
<1>3. QueuedBacked => QueuedWellFormed
  BY DEF QueuedBacked, QueuedWellFormed, Backed, FieldsOK
<1> QED
  BY <1>1, <1>2, <1>3, AnswersInvariant, PTL DEF ApiSpec

\* A window of the API's limiter admits no more than Limit requests of an address
\* (rate-limit.middleware.ts:28-35).
THEOREM WindowsOfApiBounded == ApiSpec => []WindowBound
BY LimiterOfApi, LimiterBounds, PTL

\* The requests that refuse one are in the window it is refused in: those the
\* middleware counts are among those it let through (rate-limit.middleware.ts:28-31).
THEOREM RefusalsAreEarned == ApiSpec => RefusalsEarned
<1> DEFINE Within(p, a) == {i \in DOMAIN admitted[p][a] : now - admitted[p][a][i] < Window}
           Earned == \A q \in Request :
             (at[q] = "new" /\ answer'[q] = 400) =>
                LET times == admitted[via'[q]][q.address]
                IN  Cardinality({i \in DOMAIN times : now - times[i] < Window}) >= Limit
<1>1. ASSUME LimiterInv, NEW p \in Process, NEW a \in Address, Full(p, a)
      PROVE  Cardinality(Within(p, a)) >= Limit
  <2>1. /\ admitted[p][a] \in Seq(Nat) /\ requests[p][a] \subseteq 1..Len(admitted[p][a])
        /\ Limit \in Nat
    BY <1>1, LimiterAssumption DEF LimiterInv, LimiterTypeOK, Sound
  <2>2. Timestamps(p, a) \subseteq Within(p, a) /\ Within(p, a) \subseteq 1..Len(admitted[p][a])
    BY <2>1 DEF Timestamps
  <2>3. IsFiniteSet(1..Len(admitted[p][a]))
    BY <2>1, FS_Interval
  <2>4. IsFiniteSet(Within(p, a))
    BY <2>2, <2>3, FS_Subset
  <2>5. /\ Cardinality(Timestamps(p, a)) <= Cardinality(Within(p, a))
        /\ Cardinality(Timestamps(p, a)) \in Nat /\ Cardinality(Within(p, a)) \in Nat
    BY <2>2, <2>4, FS_Subset, FS_CardinalityType
  <2> QED
    BY <1>1, <2>1, <2>5 DEF Full
<1>2. ASSUME LimiterInv, AInv, DOMAIN via = Request, [ApiNext]_api
      PROVE  Earned
  <2> SUFFICES ASSUME NEW q \in Request, at[q] = "new", answer'[q] = 400
               PROVE  Cardinality(Within(via'[q], q.address)) >= Limit
    OBVIOUS
  <2>1. answer'[q] # answer[q]
    BY <1>2, ApiAssumption DEF AInv, Unanswered
  <2>2. PICK p \in Process : Arrive(q, p) /\ Answer(q, 400)
    <3>1. ASSUME NEW r \in Request, Authenticate(r) \/ Handle(r)
          PROVE  at[r] # "new"
      BY <3>1 DEF Authenticate, Handle, RegistrationStep, Validate, CreateCheck, CreateSave,
                  LoginGuard, Login, JwtGuard, DatabaseFails
    <3>2. ASSUME NEW r \in Request, r # q, Authenticate(r) \/ Handle(r)
          PROVE  answer'[q] = answer[q]
      BY <1>2, <3>2
      DEF AInv, Authenticate, Handle, RegistrationStep, Validate, CreateCheck, CreateSave,
          LoginGuard, Login, JwtGuard, DatabaseFails, Goto, Answer, Respond
    <3>3. ASSUME NEW r \in Request, NEW p \in Process, Arrive(r, p)
          PROVE  r = q /\ Answer(q, 400)
      BY <1>2, <2>1, <3>3 DEF AInv, Arrive, Goto, Answer, Respond
    <3>4. ASSUME \/ UNCHANGED api
                 \/ \E p \in Process : ChannelCloses(p)
                 \/ Tick /\ UNCHANGED <<registration, delivery>>
          PROVE  answer'[q] = answer[q]
      BY <3>4 DEF api, registration, ChannelCloses
    <3>5. \/ \E r \in Request : Authenticate(r) \/ Handle(r)
          \/ \E r \in Request, p \in Process : Arrive(r, p)
      BY <1>2, <2>1, <3>4 DEF ApiNext
    <3>6. ~\E r \in Request : Authenticate(r) \/ Handle(r)
      BY <2>1, <3>1, <3>2
    <3> QED
      BY <3>3, <3>5, <3>6
  <2>3. via'[q] = p
    BY <1>2, <2>2 DEF Arrive
  <2>5. Full(p, q.address)
    <3>2. ~Goto(q, Entry(q))
      BY <1>2, <2>1 DEF Goto
    <3> QED
      BY <2>2, <3>2 DEF Arrive, Refuse
  <2> QED
    BY <1>1, <1>2, <2>3, <2>5, ApiAssumption
<1>3. ApiSpec => [](DOMAIN via = Request)
  <2>1. ApiInit => DOMAIN via = Request
    BY DEF ApiInit
  <2>2. DOMAIN via = Request /\ [ApiNext]_api => (DOMAIN via = Request)'
    BY DEF ApiNext, Authenticate, Handle, Arrive, ChannelCloses, api, delivery
  <2> QED
    BY <2>1, <2>2, PTL DEF ApiSpec
<1> QED
  BY <1>2, <1>3, AnswersInvariant, LimiterOfApi, PTL DEF ApiSpec, RefusalsEarned

=============================================================================
