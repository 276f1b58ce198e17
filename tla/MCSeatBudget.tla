---------------------------- MODULE MCSeatBudget -----------------------------
(***************************************************************************)
(* TLC instances of SeatBudget: the subscription states Stripe reports, and*)
(* the symmetry of invitees, invitations and requests.                     *)
(***************************************************************************)
EXTENDS SeatBudget, TLC

Seats(limit) == [active |-> TRUE, limit |-> limit]

\* The limit moves, the subscription stays active.
ActiveReports == {Seats(1), Seats(3)}

Interchangeable ==
    Permutations(People \ {Owner}) \cup Permutations(Invitations) \cup Permutations(Requests)
=============================================================================
