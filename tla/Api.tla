--------------------------------- MODULE Api ---------------------------------
(***************************************************************************)
(* A request on its way through the API processes: RateLimitMiddleware on   *)
(* every route (app.module.ts), the passport guards, the ValidationPipe of  *)
(* main.ts with the DTOs of src/src/modules/wallet/dto and the              *)
(* CurrencyValidationPipe, and the handlers of WalletController that put a   *)
(* message on the queue.  What happens to it there is WalletSystem's; wallet *)
(* creation goes on in WalletService, reading routes in TransactionHistory.  *)
(***************************************************************************)
EXTENDS RateLimiter, UserRegistration

CONSTANTS
  MaxLosses,  \* bound: connections to the broker lost
  Absent      \* a currency the client left out

\* Every request has a sender, a route and perhaps another's token; what stands
\* for no answer and for no currency is neither.
ASSUME ApiAssumption ==
  /\ \A q \in Request :
       /\ q.address \in Address /\ q.auth \in Request \cup {None}
       /\ q.kind \in {"register", "createUser", "login", "create", "update", "deposit",
                      "withdraw", "transfer"}
  /\ None \notin {201, 400, 401}
  /\ Absent \notin {"USD", "EUR", "GBP", "NGN", "usd"}

VARIABLES
  via,     \* [request]: the process it was sent to
  open,    \* [p]: the process's channel to the broker is open
  queued   \* messages written to the broker: [request, currency]

delivery == <<via, open, queued>>
api == <<limiter, registration, delivery>>

ApiInit ==
  /\ LimiterInit /\ RegistrationInit
  /\ via = [q \in Request |-> None]
  /\ open = [p \in Process |-> TRUE]
  /\ queued = {}

----------------------------------------------------------------------------
\* Where a request goes when the middleware lets it through.
Entry(q) == CASE q.kind \in {"register", "createUser"} -> "pipes"
              [] q.kind = "login" -> "loginGuard"
              [] OTHER -> "jwtGuard"

\* The exception of the limiter is a BadRequestException: 400.  Bound: a client
\* sends one of its requests.
Arrive(q, p) ==
  /\ \A r \in Request : r.client = q.client => at[r] = "new"
  /\ via' = [via EXCEPT ![q] = p]
  /\ \/ Admit(p, q.address) /\ Goto(q, Entry(q))
     \/ Refuse(p, q.address) /\ Answer(q, 400)
  /\ UNCHANGED <<open, queued>>

Authenticate(q) == RegistrationStep(q) /\ UNCHANGED <<limiter, delivery>>

----------------------------------------------------------------------------
\* @IsIn: exact and optional; a transfer's currency is any string.
WalletCurrency == {"USD", "CAD", "NGN"}
CreateWalletDto(q) == q.currency \in WalletCurrency \cup {Absent}
UpdateWalletDto(q) == q.currency \in WalletCurrency \cup {Absent}
DepositDto(q) == q.currency \in WalletCurrency \cup {Absent} /\ q.amount > 0
WithdrawDto(q) == q.currency \in WalletCurrency \cup {Absent} /\ q.amount > 0
TransferDto(q) == q.currency # Absent /\ q.amount > 0
DtoAccepts(q) ==
  /\ q.wellFormed
  /\ CASE q.kind = "create"   -> CreateWalletDto(q)
       [] q.kind = "update"   -> UpdateWalletDto(q)
       [] q.kind = "deposit"  -> DepositDto(q)
       [] q.kind = "withdraw" -> WithdrawDto(q)
       [] q.kind = "transfer" -> TransferDto(q)

\* The pipe of withdrawals and transfers: in any case, required, another list.
supportedCurrencies == {"USD", "EUR", "GBP", "NGN"}
UpperCase(currency) == IF currency = "usd" THEN "USD" ELSE currency
PipeAccepts(currency) == UpperCase(currency) \in supportedCurrencies

\* update hands its whole body to the pipe, which takes strings only.
\* Mutant: the pipe alone.
PipeOnly(q) == PipeAccepts(q.currency)
Valid(q) ==
  /\ DtoAccepts(q) /\ q.kind # "update"
  /\ q.kind \in {"withdraw", "transfer"} => PipeAccepts(q.currency)

CurrencyQueued(q) == IF q.kind = "deposit" THEN q.currency ELSE UpperCase(q.currency)

\* queueDeposit, queueWithdraw, queueTransfer: sendToQueue on a closed channel
\* throws.  createWallet answers as its lookup and its insert decide.
Handle(q) ==
  /\ at[q] = "handler"
  /\ \/ ~Valid(q) /\ Answer(q, 400) /\ UNCHANGED queued
     \/ /\ Valid(q) /\ q.kind = "create" /\ UNCHANGED queued
        /\ \E status \in {201, 400, 500} : Answer(q, status)
     \/ /\ Valid(q) /\ q.kind # "create" /\ open[via[q]]
        /\ queued' = queued \cup {[request |-> q, currency |-> CurrencyQueued(q)]}
        /\ Answer(q, 202)
     \/ Valid(q) /\ q.kind # "create" /\ ~open[via[q]] /\ Answer(q, 500) /\ UNCHANGED queued
  /\ UNCHANGED <<limiter, via, open>>

ChannelCloses(p) ==
  /\ open[p] /\ Cardinality({s \in Process : ~open[s]}) < MaxLosses
  /\ open' = [open EXCEPT ![p] = FALSE]
  /\ UNCHANGED <<limiter, registration, via, queued>>

ApiNext ==
  \/ \E q \in Request : Authenticate(q) \/ Handle(q) \/ \E p \in Process : Arrive(q, p)
  \/ \E p \in Process : ChannelCloses(p)
  \/ Tick /\ UNCHANGED <<registration, delivery>>

ApiSpec == ApiInit /\ [][ApiNext]_api

----------------------------------------------------------------------------
\* A request is refused by the limiter only while its process has let Limit
\* requests of the address through in the running window: what was refused, or
\* let through earlier, never counts (rate-limit.middleware.ts:28-31).
RefusalsEarned ==
  [][\A q \in Request :
       (at[q] = "new" /\ answer'[q] = 400) =>
          LET times == admitted[via'[q]][q.address]
          IN  Cardinality({i \in DOMAIN times : now - times[i] < Window}) >= Limit]_api

\* A message on the queue is a deposit, a withdrawal or a transfer whose fields
\* the DTO of its route admits, in a currency on the lists of that route: the
\* DTO's for a deposit, the pipe's for a transfer, both for a withdrawal.  It was
\* sent with the token of a client that registered or logged in before
\* (deposit.dto.ts:12-24, wallet.controller.ts:97 and 118,
\* currency-validation.pipe.ts:5, jwt.strategy.ts:21).
QueuedWellFormed ==
  \A m \in queued :
    LET q == m.request IN
    /\ q.kind \in {"deposit", "withdraw", "transfer"} /\ q.wellFormed /\ q.amount > 0
    /\ q.kind = "deposit" => m.currency \in WalletCurrency \cup {Absent}
    /\ q.kind = "withdraw" => m.currency \in WalletCurrency \cap supportedCurrencies
    /\ q.kind = "transfer" => m.currency \in supportedCurrencies
    /\ q.auth # None /\ answer[q.auth] = 201 /\ token[q.auth] # None

=============================================================================
