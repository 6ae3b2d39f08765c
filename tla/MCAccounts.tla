----------------------------- MODULE MCAccounts -----------------------------
(***************************************************************************)
(* Instances of Accounts: two accounts with logins and work beside one     *)
(* administering request (MCAccounts.cfg), and beside none but another     *)
(* administering request (MCAccountsRace.cfg).                             *)
(***************************************************************************)
EXTENDS Accounts

=============================================================================
