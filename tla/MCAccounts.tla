------------------------------- MODULE MCAccounts -------------------------------
(* Instances of Accounts: a practice page and a recruiter page. *)
EXTENDS Accounts
=============================================================================
