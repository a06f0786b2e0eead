------------------------------- MODULE MCAccounts -------------------------------
(***************************************************************************)
(* Two names, two passwords, two runs of register_admin.                   *)
(***************************************************************************)
EXTENDS Accounts
=============================================================================
