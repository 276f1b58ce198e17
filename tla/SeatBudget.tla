------------------------------ MODULE SeatBudget -----------------------------
(***************************************************************************)
(* Seats of one org: invitations, members and the limit on the org's team  *)
(* subscription (apps/orgs/views.py, apps/orgs/services.py, the seat branch*)
(* of PATCH /billing/subscriptions/me/).                                   *)
(*                                                                         *)
(* Creating and accepting an invitation lock the row of the active team    *)
(* subscription, count, and write in one transaction; the row lock is what *)
(* keeps two of them apart.  Everything before the transaction (is the     *)
(* invitation pending, is the email free) is read without a lock, and so   *)
(* is the status that cancel, decline and expiry overwrite.  A write of the*)
(* subscription row waits for the lock.                                    *)
(***************************************************************************)
EXTENDS Naturals, FiniteSets

CONSTANTS People, Owner, Invitations, Requests,
          Limit,          \* seats bought at checkout
          SeatRequests,   \* seat_limit values billing members ask for
          Reports         \* subscription states that Stripe's webhooks carry

ASSUME SeatAssumption ==
    /\ IsFiniteSet(People) /\ IsFiniteSet(Invitations)
    /\ Owner \in People
    /\ Limit \in Nat \ {0}
    /\ SeatRequests \subseteq Nat \ {0}
    /\ Reports \subseteq [active : BOOLEAN, limit : Nat]

VARIABLES registered,   \* emails with an account
          members,      \* those that are members of the org
          inv,          \* invitation rows
          overdue,      \* invitations past expires_at
          sub,          \* the team subscription row
          req           \* requests under way

vars == <<registered, members, inv, overdue, sub, req>>
rows == <<registered, members, inv, overdue, sub>>

NoOne == "no one"
Absent == [status |-> "absent", email |-> NoOne]
Closed == {"expired", "cancelled", "declined"}
Idle == [op |-> "idle"]

PendingRequests ==
    {Idle}
    \cup [op : {"invite"}, email : People]
    \cup [op : {"inviting"}, email : People, locked : BOOLEAN]
    \cup [op : {"accept"}, inv : Invitations]
    \cup [op : {"accepting"}, inv : Invitations, locked : BOOLEAN]
    \cup [op : {"close"}, inv : Invitations, to : Closed]
    \cup [op : {"reseat"}, limit : SeatRequests, changed : BOOLEAN]

TypeOK ==
    /\ registered \subseteq People
    /\ members \subseteq registered
    /\ inv \in [Invitations ->
                   {Absent} \cup [status : {"pending", "accepted"} \cup Closed, email : People]]
    /\ overdue \subseteq Invitations
    /\ sub \in [active : BOOLEAN, limit : Nat]
    /\ req \in [Requests -> PendingRequests]

Init ==
    /\ registered = {Owner} /\ members = {Owner}
    /\ inv = [i \in Invitations |-> Absent]
    /\ overdue = {}
    /\ sub = [active |-> TRUE, limit |-> Limit]
    /\ req = [r \in Requests |-> Idle]

Remember(r, what) == req' = [req EXCEPT ![r] = what]
Finish(r) == Remember(r, Idle)

----------------------------------------------------------------------------
Pending == {i \in Invitations : inv[i].status = "pending"}
PendingFor(e) == \E i \in Pending : inv[i].email = e

\* r's transaction holds the row lock of the subscription.
Locks(r) == req[r].op \in {"inviting", "accepting"} /\ req[r].locked

\* Mutant of RowFree: SELECT without FOR UPDATE.
RowNeverLocked == TRUE

RowFree == \A r \in Requests : ~Locks(r)

\* lock_active_team_sub, then the caller's count of the seats it would fill:
\* without an active subscription there is no row to lock and nothing to
\* check.
SeatsAvailable(filled, locked) ==
    IF sub.active THEN RowFree /\ filled <= sub.limit /\ locked
                  ELSE ~locked

SeatLimitReached(filled) == sub.active /\ RowFree /\ filled > sub.limit

----------------------------------------------------------------------------
(* POST /orgs/{org_id}/invitations/                                        *)

\* Bound: a request only starts while an invitation row is left for it.
RowsLeft ==
    Cardinality({r \in Requests : req[r].op \in {"invite", "inviting"}})
        < Cardinality({i \in Invitations : inv[i] = Absent})

CheckInvite(r, e) ==
    /\ req[r] = Idle
    /\ RowsLeft
    /\ e \notin registered
    /\ ~PendingFor(e)
    /\ Remember(r, [op |-> "invite", email |-> e])
    /\ UNCHANGED rows

\* _validate_seat_limit counts members and pending invitations.
CountForInvite(r) ==
    LET filled == Cardinality(members) + Cardinality(Pending) + 1
    IN  /\ req[r].op = "invite"
        /\ \/ \E locked \in BOOLEAN :
                /\ SeatsAvailable(filled, locked)
                /\ Remember(r, [op |-> "inviting", email |-> req[r].email, locked |-> locked])
           \/ SeatLimitReached(filled) /\ Finish(r)
        /\ UNCHANGED rows

\* Mutant of CreateInvitation: the partial unique index is missing.
CreateInvitationRegardless(r, i) ==
    /\ req[r].op = "inviting"
    /\ inv[i] = Absent
    /\ Finish(r)
    /\ inv' = [inv EXCEPT ![i] = [status |-> "pending", email |-> req[r].email]]
    /\ UNCHANGED <<registered, members, overdue, sub>>

\* The INSERT, refused by idx_invitations_org_email_pending if the email has
\* a pending invitation by now.
CreateInvitation(r, i) ==
    LET e == req[r].email
    IN  /\ req[r].op = "inviting"
        /\ inv[i] = Absent
        /\ Finish(r)
        /\ inv' = IF PendingFor(e) THEN inv
                  ELSE [inv EXCEPT ![i] = [status |-> "pending", email |-> e]]
        /\ UNCHANGED <<registered, members, overdue, sub>>

----------------------------------------------------------------------------
(* POST /invitations/{token}/accept/                                       *)

CheckAccept(r, i) ==
    /\ req[r] = Idle
    /\ i \in Pending \ overdue
    /\ inv[i].email \notin registered
    /\ Remember(r, [op |-> "accept", inv |-> i])
    /\ UNCHANGED rows

\* accept_invitation counts the members and the one about to join.
CountForAccept(r) ==
    LET filled == Cardinality(members) + 1
    IN  /\ req[r].op = "accept"
        /\ \/ \E locked \in BOOLEAN :
                /\ SeatsAvailable(filled, locked)
                /\ Remember(r, [op |-> "accepting", inv |-> req[r].inv, locked |-> locked])
           \/ SeatLimitReached(filled) /\ Finish(r)
        /\ UNCHANGED rows

\* Account, membership and status in one transaction, which the unique email
\* of the account rolls back; the status is written whatever it is by now.
AcceptInvitation(r) ==
    LET i == req[r].inv
    IN  /\ req[r].op = "accepting"
        /\ Finish(r)
        /\ IF inv[i].email \in registered
           THEN UNCHANGED <<registered, members, inv>>
           ELSE /\ registered' = registered \cup {inv[i].email}
                /\ members' = members \cup {inv[i].email}
                /\ inv' = [inv EXCEPT ![i].status = "accepted"]
        /\ UNCHANGED <<overdue, sub>>

----------------------------------------------------------------------------
(* A pending invitation is closed: an admin cancels it, the invitee, who   *)
(* has registered by other means, declines it, or accepting it too late    *)
(* marks it expired.  Each reads the row, and writes the status later.     *)

CheckClose(r, i, to) ==
    /\ req[r] = Idle
    /\ i \in Pending
    /\ to = "declined" => inv[i].email \in registered
    /\ to = "expired" => i \in overdue
    /\ Remember(r, [op |-> "close", inv |-> i, to |-> to])
    /\ UNCHANGED rows

CloseInvitation(r) ==
    /\ req[r].op = "close"
    /\ Finish(r)
    /\ inv' = [inv EXCEPT ![req[r].inv].status = req[r].to]
    /\ UNCHANGED <<registered, members, overdue, sub>>

Lapse(i) ==
    /\ inv[i] # Absent /\ i \notin overdue
    /\ overdue' = overdue \cup {i}
    /\ UNCHANGED <<registered, members, inv, sub, req>>

----------------------------------------------------------------------------
(* The accounts and the subscription around them.                          *)

\* Someone registers on their own.
Register(e) ==
    /\ e \notin registered
    /\ registered' = registered \cup {e}
    /\ UNCHANGED <<members, inv, overdue, sub, req>>

\* Mutant of RemoveMember: the account goes, the membership stays.
RemoveAccountOnly(e) ==
    /\ e \in members \ {Owner}
    /\ registered' = registered \ {e}
    /\ UNCHANGED <<members, inv, overdue, sub, req>>

\* Removal of a member, or erasure by the member: the account goes too.
RemoveMember(e) ==
    /\ e \in members \ {Owner}
    /\ members' = members \ {e}
    /\ registered' = registered \ {e}
    /\ UNCHANGED <<inv, overdue, sub, req>>

\* PATCH /subscriptions/me/ with seat_limit: the head-count is compared
\* before Stripe is called ...
CheckReseat(r, n) ==
    /\ req[r] = Idle
    /\ sub.active
    /\ n >= Cardinality(members)
    /\ Remember(r, [op |-> "reseat", limit |-> n, changed |-> sub.limit # n])
    /\ UNCHANGED rows

\* ... and update_seat_count then writes the whole row back as it was read,
\* with the new limit.
UpdateSeatCount(r) ==
    /\ req[r].op = "reseat"
    /\ Finish(r)
    /\ IF req[r].changed
       THEN RowFree /\ sub' = [active |-> TRUE, limit |-> req[r].limit]
       ELSE UNCHANGED sub
    /\ UNCHANGED <<registered, members, inv, overdue>>

\* customer.subscription.updated: status and quantity as Stripe reports them,
\* whatever the head-count.
SyncSubscription(state) ==
    /\ RowFree
    /\ sub' = state
    /\ UNCHANGED <<registered, members, inv, overdue, req>>

----------------------------------------------------------------------------
Handlers(r) ==
    \/ \E e \in People : CheckInvite(r, e)
    \/ CountForInvite(r)
    \/ \E i \in Invitations :
        \/ CreateInvitation(r, i)
        \/ CheckAccept(r, i)
        \/ \E to \in Closed : CheckClose(r, i, to)
    \/ CountForAccept(r)
    \/ AcceptInvitation(r)
    \/ CloseInvitation(r)
    \/ \E n \in SeatRequests : CheckReseat(r, n)
    \/ UpdateSeatCount(r)

Next ==
    \/ \E r \in Requests : Handlers(r)
    \/ \E i \in Invitations : Lapse(i)
    \/ \E e \in People : Register(e) \/ RemoveMember(e)
    \/ \E state \in Reports : SyncSubscription(state)

Spec == Init /\ [][Next]_vars

----------------------------------------------------------------------------
\* No email has two pending invitations to the org, although the check for
\* one is made before the transaction that inserts (orgs/spec.md: "SHALL
\* reject a second pending invitation to the same email in the same org").
OnePendingPerEmail ==
    \A i, j \in Pending : inv[i].email = inv[j].email => i = j

\* As long as the subscription stays active, nobody joins a full org: parallel
\* accepts, invites and seat changes serialise on the subscription's row
\* (orgs/spec.md: "the check SHALL hold under concurrency so parallel invites
\* or accepts cannot overrun the cap").
JoinsFitSeats ==
    [][~(members' \subseteq members) => Cardinality(members') <= sub.limit]_vars

\* Members and pending invitations together stay within the seats
\* (orgs/spec.md: "Seat-consuming operations ... SHALL be checked against
\* seatLimit counting both current members and pending invitations").
SeatBudgetHolds ==
    sub.active => Cardinality(members) + Cardinality(Pending) <= sub.limit
=============================================================================
