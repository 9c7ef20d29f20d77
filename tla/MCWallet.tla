------------------------------ MODULE MCWallet ------------------------------
(***************************************************************************)
(* Instances of WalletService for TLC.  The numbers are small stand-ins:    *)
(* MaxBalance and MaxVersion are reached within a run.                      *)
(***************************************************************************)
EXTENDS WalletProperties

CONSTANTS alice, bob, carol, w1, w2, w3, r1, r2, s1

MCUser == {alice, bob, carol}
MCRegistered == {alice, bob}
MCCurrency == {"USD", "NGN", "undefined"}
MCName == MCCurrency \cup {"savings", "cash"}
MCWalletId == {w1, w2, w3}
MCRef == {r1, r2, "", "none"}
NoRequests == {}

\* One cache for every actor: a single process, or a shared Redis store.
OneStore == {s1}
SharedStore == [x \in Consumer \cup CreateRequest \cup Reader |-> s1]
\* A cache in the memory of each consuming process.
StorePerProcess == Consumer
OwnStore == [c \in Consumer |-> c]

Account(user, name, balance) ==
  [user |-> user, currency |-> "USD", name |-> name, balance |-> balance, version |-> 0]

Request(type, id, user, currency, from, to, amount, ref) ==
  [type |-> type, id |-> id, user |-> user, currency |-> currency,
   from |-> from, to |-> to, amount |-> amount, ref |-> ref]
DepositOf(id, user, currency, amount, ref) ==
  Request("deposit", id, user, currency, w1, w1, amount, ref)
WithdrawalOf(id, user, amount, ref) ==
  Request("withdraw", id, user, "USD", w1, w1, amount, ref)
TransferOf(id, from, to, amount, ref) ==
  Request("transfer", id, alice, "USD", from, to, amount, ref)

\* Adding one cent to two drifts, and to one: stand-ins for 0.1 + 0.2.
MCDrifting == {<<2, 1>>, <<1, 1>>}

\* Alice's wallet exists, Bob's does not.
OneWallet == [w \in MCWalletId |-> IF w = w1 THEN Account(alice, "savings", 2) ELSE None]
\* Both have one.
TwoWallets == [w \in MCWalletId |-> CASE w = w1 -> Account(alice, "savings", 2)
                                      [] w = w2 -> Account(bob, "cash", 1)
                                      [] OTHER -> None]

\* A referenced deposit, a withdrawal and a transfer that share a wallet, and a
\* deposit by Carol, who has no row in the users table.
SharedWallet ==
  {DepositOf(1, alice, "USD", 1, r1), WithdrawalOf(2, alice, 1, "none"),
   TransferOf(3, w1, w2, 1, "none"), TransferOf(4, w2, w2, 1, ""),
   DepositOf(5, carol, "USD", 1, "none")}

\* A user without a wallet: a deposit that creates one, and a
\* withdrawal.
NewWallets == {DepositOf(1, bob, "undefined", 1, r1), WithdrawalOf(2, bob, 1, "none")}
BobCreates == {[user |-> bob, currency |-> "undefined", name |-> None]}

\* Transfers that lock each other's wallet, one reference used by two messages.
OppositeTransfers ==
  {TransferOf(1, w1, w2, 1, ""), TransferOf(2, w2, w1, 2, "none"),
   DepositOf(3, bob, "USD", 1, r1), DepositOf(4, alice, "USD", 1, r1)}

\* Two withdrawals, and two transfers, by requests without a reference.
TwoWithdrawals == {WithdrawalOf(1, alice, 1, "none"), WithdrawalOf(2, alice, 1, "none")}
TwoTransfers == {TransferOf(1, w1, w2, 1, "none"), TransferOf(2, w1, w2, 1, "none")}

\* Bob's first deposit, which creates his wallet.
FirstDeposit == {DepositOf(1, bob, "USD", 1, "none")}

\* A referenced transfer that Alice's balance covers.
ReferencedTransfer == {TransferOf(1, w1, w2, 1, r1)}

=============================================================================
