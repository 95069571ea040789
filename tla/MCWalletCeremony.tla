-------------------------- MODULE MCWalletCeremony --------------------------
(* Small instances of WalletCeremony for TLC. *)
EXTENDS WalletCeremony
=============================================================================
