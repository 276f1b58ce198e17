------------------------------ MODULE OrgRoles -------------------------------
(***************************************************************************)
(* Who belongs to which org and with which role: the member, ownership and *)
(* deletion endpoints of apps/orgs/views.py over apps/orgs/services.py and *)
(* the constraints of apps/orgs/models.py, plus account erasure, which     *)
(* ends in the same tables.                                                *)
(*                                                                         *)
(* No request runs in one transaction.  Each handler reads the memberships *)
(* it needs, checks them, and writes later, by primary key, without looking*)
(* at the rows again; a request is therefore two steps (erasure four), and *)
(* what it remembers between them is what it decided to write.  An UPDATE  *)
(* that finds no row, or breaks a constraint, ends the request with an     *)
(* error and rolls its transaction back.                                   *)
(***************************************************************************)
EXTENDS Naturals, FiniteSets

CONSTANTS Users, Orgs, Requests,
          Ops,        \* kinds of request considered
          Paying      \* users with an active personal subscription

ASSUME RolesAssumption == IsFiniteSet(Users) /\ Paying \subseteq Users

VARIABLES user,       \* User rows: absent, active, or hard-deleted
          org,        \* Org rows: absent, live, or deleted
          creator,    \* Org.created_by
          role,       \* OrgMember.role, "none" when there is no row
          billing,    \* OrgMember.is_billing
          req         \* requests under way

vars == <<user, org, creator, role, billing, req>>

Nobody == "nobody"
Roles == {"member", "admin", "owner"}
Assignable == {"member", "admin"}
Idle == [op |-> "idle"]

Rank(r) == CASE r = "owner" -> 3 [] r = "admin" -> 2 [] r = "member" -> 1 [] OTHER -> 0

PendingWrites ==
    {Idle}
    \cup [op : {"transfer"}, org : Orgs, caller : Users, target : Users]
    \cup [op : {"patch"}, org : Orgs, target : Users,
          role : Assignable \cup {"keep"}, billing : {"on", "off", "keep"}]
    \cup [op : {"remove"}, target : Users]
    \cup [op : {"delete"}, org : Orgs]
    \cup [op : {"erase"}, stage : {"orgs", "memberships", "user"}, target : Users]

TypeOK ==
    /\ user \in [Users -> {"absent", "active", "deleted"}]
    /\ org \in [Orgs -> {"absent", "live", "deleted"}]
    /\ creator \in [Orgs -> Users \cup {Nobody}]
    /\ role \in [Orgs -> [Users -> Roles \cup {"none"}]]
    /\ billing \in [Orgs -> [Users -> BOOLEAN]]
    /\ req \in [Requests -> PendingWrites]

Init ==
    /\ user = [u \in Users |-> "absent"]
    /\ org = [o \in Orgs |-> "absent"]
    /\ creator = [o \in Orgs |-> Nobody]
    /\ role = [o \in Orgs |-> [u \in Users |-> "none"]]
    /\ billing = [o \in Orgs |-> [u \in Users |-> FALSE]]
    /\ req = [r \in Requests |-> Idle]

rows == <<user, org, creator, role, billing>>

----------------------------------------------------------------------------
(* Constraints and cascades of the tables.                                 *)

Member(o, u) == role[o][u] # "none"

\* Mutant of OwnsElsewhere: the partial unique index is missing.
OwnsElsewhereUnchecked(u, o) == FALSE

OwnsElsewhere(u, o) == \E p \in Orgs \ {o} : role[p][u] = "owner"

\* Mutant of Cascade: deleting a user leaves its memberships behind.
CascadeKeepingMemberships(O, U) ==
    /\ user' = [u \in Users |-> IF u \in U THEN "deleted" ELSE user[u]]
    /\ org' = [o \in Orgs |-> IF o \in O THEN "deleted" ELSE org[o]]
    /\ creator' = [o \in Orgs |-> IF o \in O \/ creator[o] \in U
                                  THEN Nobody ELSE creator[o]]
    /\ role' = [o \in Orgs |-> [u \in Users |->
                   IF o \in O THEN "none" ELSE role[o][u]]]
    /\ billing' = [o \in Orgs |-> [u \in Users |-> billing[o][u] /\ o \notin O]]

\* Deleting the orgs O and the users U: memberships of either go with them,
\* and created_by of a deleted user is set to NULL.
Cascade(O, U) ==
    /\ user' = [u \in Users |-> IF u \in U THEN "deleted" ELSE user[u]]
    /\ org' = [o \in Orgs |-> IF o \in O THEN "deleted" ELSE org[o]]
    /\ creator' = [o \in Orgs |-> IF o \in O \/ creator[o] \in U
                                  THEN Nobody ELSE creator[o]]
    /\ role' = [o \in Orgs |-> [u \in Users |->
                   IF o \in O \/ u \in U THEN "none" ELSE role[o][u]]]
    /\ billing' = [o \in Orgs |-> [u \in Users |->
                   billing[o][u] /\ ~(o \in O \/ u \in U)]]

\* Members of the orgs O who belong nowhere else and are not among the payers
\* of a plan of their own are deleted with the orgs.
Dependents(O, payers) ==
    {u \in Users \ payers : /\ \E o \in O : Member(o, u)
                            /\ \A p \in Orgs \ O : ~Member(p, u)}

\* Mutant of Finish: the request ends in a state no handler knows.
FinishHalfway(r) == req' = [req EXCEPT ![r].op = "done"]

Finish(r) == req' = [req EXCEPT ![r] = Idle]
Remember(r, write) == req' = [req EXCEPT ![r] = write]

----------------------------------------------------------------------------
(* Accounts and orgs come into being.                                      *)

\* A user registers.
SignUp(u) ==
    /\ user[u] = "absent"
    /\ user' = [user EXCEPT ![u] = "active"]
    /\ UNCHANGED <<org, creator, role, billing, req>>

\* Team checkout: org, owner membership and created_by in one transaction,
\* refused by uniq_org_owner_per_user if the user owns an org already.
CreateOrgWithOwner(o, u) ==
    /\ org[o] = "absent" /\ user[u] = "active"
    /\ ~OwnsElsewhere(u, o)
    /\ org' = [org EXCEPT ![o] = "live"]
    /\ creator' = [creator EXCEPT ![o] = u]
    /\ role' = [role EXCEPT ![o][u] = "owner"]
    /\ billing' = [billing EXCEPT ![o][u] = TRUE]
    /\ UNCHANGED <<user, req>>

\* An accepted invitation creates the account and the membership.
AcceptInvitation(o, u, as) ==
    /\ org[o] = "live" /\ user[u] = "absent"
    /\ user' = [user EXCEPT ![u] = "active"]
    /\ role' = [role EXCEPT ![o][u] = as]
    /\ UNCHANGED <<org, creator, billing, req>>

----------------------------------------------------------------------------
(* POST .../owner-transfers/                                               *)

CheckTransfer(r, o, c, t) ==
    /\ "transfer" \in Ops /\ req[r] = Idle
    /\ role[o][c] = "owner"
    /\ role[o][t] = "admin"
    /\ Remember(r, [op |-> "transfer", org |-> o, caller |-> c, target |-> t])
    /\ UNCHANGED rows

\* Mutant of TransferOwner: the former owner is not demoted.
TransferOwnerKeepingOld(r) ==
    LET w == req[r]
    IN  /\ w.op = "transfer"
        /\ Finish(r)
        /\ role' = [role EXCEPT ![w.org][w.target] = "owner"]
        /\ billing' = [billing EXCEPT ![w.org][w.target] = TRUE]
        /\ UNCHANGED <<user, org, creator>>

\* Both rows are written as decided, whatever they say by now.
TransferOwner(r) ==
    LET w == req[r]
    IN  /\ w.op = "transfer"
        /\ Finish(r)
        /\ IF /\ Member(w.org, w.target) /\ Member(w.org, w.caller)
              /\ ~OwnsElsewhere(w.target, w.org)
           THEN /\ role' = [role EXCEPT ![w.org][w.target] = "owner",
                                        ![w.org][w.caller] = "admin"]
                /\ billing' = [billing EXCEPT ![w.org][w.target] = TRUE,
                                              ![w.org][w.caller] = FALSE]
           ELSE UNCHANGED <<role, billing>>
        /\ UNCHANGED <<user, org, creator>>

----------------------------------------------------------------------------
(* PATCH and DELETE .../members/{user_id}/                                 *)

CanManage(o, c, t) ==
    /\ role[o][c] \in {"admin", "owner"}
    /\ Member(o, t)
    /\ Rank(role[o][t]) < Rank(role[o][c])

CheckPatch(r, o, c, t, newRole, newBilling) ==
    /\ "patch" \in Ops /\ req[r] = Idle
    /\ CanManage(o, c, t)
    /\ newRole # "keep" \/ newBilling # "keep"
    /\ newRole # "keep" => Rank(newRole) < Rank(role[o][c])
    /\ Remember(r, [op |-> "patch", org |-> o, target |-> t,
                    role |-> newRole, billing |-> newBilling])
    /\ UNCHANGED rows

\* Mutant of PatchMember: ck_org_owner_must_be_billing is missing.
PatchMemberUnconstrained(r) ==
    LET w == req[r]
        newRole == IF w.role = "keep" THEN role[w.org][w.target] ELSE w.role
    IN  /\ w.op = "patch"
        /\ Finish(r)
        /\ IF Member(w.org, w.target)
           THEN /\ role' = [role EXCEPT ![w.org][w.target] = newRole]
                /\ billing' = [billing EXCEPT ![w.org][w.target] = w.billing = "on"]
           ELSE UNCHANGED <<role, billing>>
        /\ UNCHANGED <<user, org, creator>>

\* The UPDATE of the fields given; ck_org_owner_must_be_billing refuses to
\* take the flag from a row that is an owner's by now.
PatchMember(r) ==
    LET w == req[r]
        newRole == IF w.role = "keep" THEN role[w.org][w.target] ELSE w.role
        newBilling == \/ w.billing = "on"
                      \/ w.billing = "keep" /\ billing[w.org][w.target]
    IN  /\ w.op = "patch"
        /\ Finish(r)
        /\ IF Member(w.org, w.target) /\ (newRole = "owner" => newBilling)
           THEN /\ role' = [role EXCEPT ![w.org][w.target] = newRole]
                /\ billing' = [billing EXCEPT ![w.org][w.target] = newBilling]
           ELSE UNCHANGED <<role, billing>>
        /\ UNCHANGED <<user, org, creator>>

CheckRemove(r, o, c, t) ==
    /\ "remove" \in Ops /\ req[r] = Idle
    /\ CanManage(o, c, t)
    /\ Remember(r, [op |-> "remove", target |-> t])
    /\ UNCHANGED rows

\* target_user.delete(): the account goes, with its memberships everywhere.
RemoveMember(r) ==
    /\ req[r].op = "remove"
    /\ Finish(r)
    /\ Cascade({}, {req[r].target})

----------------------------------------------------------------------------
(* DELETE /orgs/{org_id}/ and DELETE /account/                             *)

CheckDelete(r, o, c) ==
    /\ "delete" \in Ops /\ req[r] = Idle
    /\ role[o][c] = "owner"
    /\ Remember(r, [op |-> "delete", org |-> o])
    /\ UNCHANGED rows

DeleteOrg(r) ==
    /\ req[r].op = "delete"
    /\ Finish(r)
    /\ Cascade({req[r].org}, Dependents({req[r].org}, Paying))

\* The owner's team subscription ended at Stripe: the same cascade, run by a
\* Celery task that asks no one.
DeleteOrgOnCancel(o) ==
    /\ "delete" \in Ops
    /\ org[o] = "live"
    /\ Cascade({o}, Dependents({o}, Paying))
    /\ UNCHANGED req

CheckErase(r, u) ==
    /\ "erase" \in Ops /\ req[r] = Idle
    /\ user[u] = "active"
    /\ Remember(r, [op |-> "erase", stage |-> "orgs", target |-> u])
    /\ UNCHANGED rows

\* delete_orgs_created_by_user: the orgs whose created_by is the caller, in
\* one transaction.  The caller's own subscription was cancelled and its
\* customer row deleted first, so the caller no longer counts as paying.
EraseOrgs(r) ==
    LET created == {o \in Orgs : creator[o] = req[r].target}
    IN  /\ req[r].op = "erase" /\ req[r].stage = "orgs"
        /\ req' = [req EXCEPT ![r].stage = "memberships"]
        /\ Cascade(created, Dependents(created, Paying \ {req[r].target}))

EraseMemberships(r) ==
    LET u == req[r].target
    IN  /\ req[r].op = "erase" /\ req[r].stage = "memberships"
        /\ req' = [req EXCEPT ![r].stage = "user"]
        /\ role' = [o \in Orgs |-> [role[o] EXCEPT ![u] = "none"]]
        /\ billing' = [o \in Orgs |-> [billing[o] EXCEPT ![u] = FALSE]]
        /\ UNCHANGED <<user, org, creator>>

EraseUser(r) ==
    /\ req[r].op = "erase" /\ req[r].stage = "user"
    /\ Finish(r)
    /\ Cascade({}, {req[r].target})

----------------------------------------------------------------------------
Arrivals ==
    \/ \E u \in Users : SignUp(u)
    \/ \E o \in Orgs, u \in Users :
        \/ CreateOrgWithOwner(o, u)
        \/ \E as \in Assignable : AcceptInvitation(o, u, as)

Checks(r) ==
    \/ \E o \in Orgs, c, t \in Users :
        \/ CheckTransfer(r, o, c, t)
        \/ CheckRemove(r, o, c, t)
        \/ \E newRole \in Assignable \cup {"keep"}, newBilling \in {"on", "off", "keep"} :
              CheckPatch(r, o, c, t, newRole, newBilling)
    \/ \E o \in Orgs, c \in Users : CheckDelete(r, o, c)
    \/ \E u \in Users : CheckErase(r, u)

Writes(r) ==
    \/ TransferOwner(r) \/ PatchMember(r) \/ RemoveMember(r) \/ DeleteOrg(r)
    \/ EraseOrgs(r) \/ EraseMemberships(r) \/ EraseUser(r)

Next ==
    \/ Arrivals
    \/ \E r \in Requests : Checks(r) \/ Writes(r)
    \/ \E o \in Orgs : DeleteOrgOnCancel(o)

Spec == Init /\ [][Next]_vars

----------------------------------------------------------------------------
OwnersOf(o) == {u \in Users : role[o][u] = "owner"}

\* However transfers, role changes and checkouts interleave, an owner always
\* holds billing authority (orgs/spec.md: "The owner of an org SHALL always
\* have is_billing=True") ...
OwnersAreBilling ==
    \A o \in Orgs, u \in Users : role[o][u] = "owner" => billing[o][u]

\* ... and no user owns two orgs ("a user SHALL own at most one org").
OneOrgPerOwner ==
    \A u \in Users, o, p \in Orgs :
        role[o][u] = "owner" /\ role[p][u] = "owner" => o = p

\* A membership outlives neither its org nor its account, although requests
\* write rows that they read before another request deleted them.
MembershipsAreRooted ==
    \A o \in Orgs, u \in Users :
        Member(o, u) => org[o] = "live" /\ user[u] = "active"

\* The rows a request decided on still say what they said: a transfer's two
\* members are owner and admin, and the row a PATCH, a removal or an erasure
\* is aimed at is no owner's.
DecisionStands(w) ==
    /\ w.op = "transfer" => /\ role[w.org][w.caller] = "owner"
                            /\ role[w.org][w.target] = "admin"
    /\ w.op = "patch" => role[w.org][w.target] # "owner"
    /\ w.op \in {"remove", "erase"} => \A p \in Orgs : role[p][w.target] # "owner"

OneOwner(o) == Cardinality(OwnersOf(o)) = 1

\* Whatever else runs, an org begins with one owner and keeps exactly one
\* through every write whose decision still stands: no checkout, transfer,
\* role change, removal, erasure or cascade of another org's deletion does
\* more to ownership than its handler checked.
StandingDecisionsKeepOneOwner ==
    [][(\A r \in Requests : req'[r] # req[r] => DecisionStands(req[r]))
       => \A o \in Orgs : org'[o] = "live" /\ (org[o] = "absent" \/ OneOwner(o))
                             => OneOwner(o)']_vars

\* Every org has exactly one owner (orgs/spec.md: "Each org SHALL have
\* exactly one owner ... even under concurrent attempts").
ExactlyOneOwner ==
    \A o \in Orgs : org[o] = "live" => OneOwner(o)

\* Erasing an account takes the org the caller owns along (account/spec.md:
\* "When the caller owns an organization, the owned organization SHALL be
\* deleted as part of erasure"; users/views.py: "If owner: delete owned orgs").
ErasureTakesOwnedOrg ==
    [][\A r \in Requests, o \in Orgs :
         /\ req[r].op = "erase" /\ req[r].stage = "orgs"
         /\ req'[r] # req[r]
         /\ role[o][req[r].target] = "owner"
         => org'[o] = "deleted"]_vars
=============================================================================
