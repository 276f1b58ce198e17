----------------------------- MODULE MCOrgRoles ------------------------------
(***************************************************************************)
(* TLC instance of OrgRoles.  Orgs, requests and the users without a plan  *)
(* of their own are interchangeable.                                       *)
(***************************************************************************)
EXTENDS OrgRoles, TLC

Interchangeable ==
    Permutations(Orgs) \cup Permutations(Requests) \cup Permutations(Users \ Paying)
=============================================================================
