------------------------------ MODULE MCSystem ------------------------------
(***************************************************************************)
(* Instances of WalletSystem for TLC, with MCWallet's users and wallets.    *)
(***************************************************************************)
EXTENDS WalletSystem, MCWallet

\* A transfer without a reference and a deposit with one.
TransferAndDeposit == {TransferOf(1, w1, w2, 1, "none"), DepositOf(2, alice, "USD", 1, r1)}

=============================================================================
