--------------------------- MODULE OrgRolesProofs ----------------------------
(***************************************************************************)
(* Memberships and roles, for any number of users, orgs and concurrent     *)
(* requests.  The four invariants of OrgRoles are inductive together: an   *)
(* owner row can only be made where the partial unique index lets it, and a*)
(* row that a request read is written only where it still exists.  The     *)
(* action property follows from them.                                      *)
(*                                                                         *)
(* Every write is first described cell by cell (the *Facts lemmas), so that*)
(* the invariants are argued about one membership at a time.               *)
(***************************************************************************)
EXTENDS OrgRoles, FiniteSetTheorems, TLAPS

\* The inductive invariant.
RolesInv ==
    /\ TypeOK
    /\ OwnersAreBilling
    /\ OneOrgPerOwner
    /\ MembershipsAreRooted

----------------------------------------------------------------------------
(* What a request remembers.                                               *)

\* A pending write carries the fields of its kind.
LEMMA PendingWriteFields ==
    ASSUME NEW w \in PendingWrites
    PROVE  /\ w.op = "transfer" => w.org \in Orgs /\ w.caller \in Users /\ w.target \in Users
           /\ w.op = "patch" => /\ w.org \in Orgs /\ w.target \in Users
                                /\ w.role \in {"member", "admin", "keep"}
                                /\ w.billing \in {"on", "off", "keep"}
           /\ w.op = "remove" => w.target \in Users
           /\ w.op = "delete" => w.org \in Orgs
           /\ w.op = "erase" => w.target \in Users
           /\ w.op # "idle" => w # Idle
BY DEF PendingWrites, Idle, Assignable

\* Starting and ending a request keep req well typed.
LEMMA RememberType ==
    ASSUME NEW r \in Requests, NEW w \in PendingWrites,
           req \in [Requests -> PendingWrites], Remember(r, w)
    PROVE  /\ req' \in [Requests -> PendingWrites]
           /\ req'[r] = w
           /\ \A s \in Requests : s # r => req'[s] = req[s]
BY DEF Remember

LEMMA FinishType ==
    ASSUME NEW r \in Requests, req \in [Requests -> PendingWrites], Finish(r)
    PROVE  req' \in [Requests -> PendingWrites] /\ req'[r] = Idle
<1>1. Idle \in PendingWrites
  BY DEF PendingWrites
<1> QED
  BY <1>1 DEF Finish

\* Erasure moves to its next stage.
LEMMA StageType ==
    ASSUME NEW r \in Requests, req \in [Requests -> PendingWrites],
           req[r].op = "erase",
           NEW stage \in {"memberships", "user"},
           req[r].stage # stage,
           req' = [req EXCEPT ![r].stage = stage]
    PROVE  req' \in [Requests -> PendingWrites] /\ req'[r] # req[r]
<1>1. req[r] \in [op : {"erase"}, stage : {"orgs", "memberships", "user"}, target : Users]
  BY DEF PendingWrites, Idle
<1>2. [req[r] EXCEPT !.stage = stage]
         \in [op : {"erase"}, stage : {"orgs", "memberships", "user"}, target : Users]
  BY <1>1
<1>3. [req[r] EXCEPT !.stage = stage] \in PendingWrites
  BY <1>2 DEF PendingWrites
<1>4. [req[r] EXCEPT !.stage = stage].stage = stage
  BY <1>1
<1>5. req'[r] = [req[r] EXCEPT !.stage = stage]
  OBVIOUS
<1> QED
  BY <1>3, <1>4, <1>5

----------------------------------------------------------------------------
(* Writes, cell by cell.                                                   *)

\* Overwriting one cell of a table.
LEMMA CellWrite ==
    ASSUME NEW S, NEW f \in [Orgs -> [Users -> S]],
           NEW o \in Orgs, NEW u \in Users, NEW v \in S
    PROVE  /\ [f EXCEPT ![o][u] = v] \in [Orgs -> [Users -> S]]
           /\ \A p \in Orgs, q \in Users :
                [f EXCEPT ![o][u] = v][p][q] = IF p = o /\ q = u THEN v ELSE f[p][q]
OBVIOUS

\* What a cascade leaves: the rows well typed ...
LEMMA CascadeTypes ==
    ASSUME TypeOK, NEW O \in SUBSET Orgs, NEW U \in SUBSET Users, Cascade(O, U)
    PROVE  /\ user' \in [Users -> {"absent", "active", "deleted"}]
           /\ org' \in [Orgs -> {"absent", "live", "deleted"}]
           /\ creator' \in [Orgs -> Users \cup {Nobody}]
           /\ role' \in [Orgs -> [Users -> Roles \cup {"none"}]]
           /\ billing' \in [Orgs -> [Users -> BOOLEAN]]
<1>1. user' \in [Users -> {"absent", "active", "deleted"}]
  BY DEF TypeOK, Cascade
<1>2. org' \in [Orgs -> {"absent", "live", "deleted"}]
  BY DEF TypeOK, Cascade
<1>3. creator' \in [Orgs -> Users \cup {Nobody}]
  BY DEF TypeOK, Cascade
<1>4. role' \in [Orgs -> [Users -> Roles \cup {"none"}]]
  BY DEF TypeOK, Cascade
<1>5. billing' \in [Orgs -> [Users -> BOOLEAN]]
  BY Zenon DEF TypeOK, Cascade
<1> QED
  BY <1>1, <1>2, <1>3, <1>4, <1>5

\* ... the orgs O deleted, the other rows as they were, ...
LEMMA CascadeRows ==
    ASSUME TypeOK, NEW O \in SUBSET Orgs, NEW U \in SUBSET Users, Cascade(O, U)
    PROVE  /\ \A u \in Users : u \notin U => user'[u] = user[u]
           /\ \A o \in Orgs : o \notin O => org'[o] = org[o]
           /\ \A o \in Orgs : o \in O => org'[o] = "deleted"
BY DEF Cascade

\* ... and of the memberships those outside O and U.
LEMMA CascadeCells ==
    ASSUME TypeOK, NEW O \in SUBSET Orgs, NEW U \in SUBSET Users, Cascade(O, U),
           NEW o \in Orgs, NEW u \in Users
    PROVE  /\ o \in O \/ u \in U => role'[o][u] = "none"
           /\ ~(o \in O \/ u \in U) =>
                  role'[o][u] = role[o][u] /\ billing'[o][u] = billing[o][u]
<1>1. /\ o \in O \/ u \in U => role'[o][u] = "none"
      /\ ~(o \in O \/ u \in U) => role'[o][u] = role[o][u]
  BY DEF Cascade
<1>2. ASSUME ~(o \in O \/ u \in U)
      PROVE  billing'[o][u] = billing[o][u]
  <2>1. billing'[o][u] = (billing[o][u] /\ ~(o \in O \/ u \in U))
    BY DEF Cascade
  <2>2. billing[o][u] \in BOOLEAN
    BY DEF TypeOK
  <2> QED
    BY <2>1, <2>2, <1>2
<1> QED
  BY <1>1, <1>2

\* Dependents are users, and members of none of the orgs that stay.
LEMMA DependentsFacts ==
    ASSUME NEW O \in SUBSET Orgs, NEW payers
    PROVE  /\ Dependents(O, payers) \in SUBSET Users
           /\ \A p \in Orgs, u \in Dependents(O, payers) :
                 p \notin O => role[p][u] = "none"
BY DEF Dependents, Member

----------------------------------------------------------------------------
(* The inductive step, one lemma per kind of write.                        *)

\* A step that touches neither memberships nor the rows they hang on.
LEMMA RowsUntouched ==
    ASSUME RolesInv, UNCHANGED rows, req' \in [Requests -> PendingWrites]
    PROVE  RolesInv'
<1> USE DEF rows
<1>1. TypeOK'
  BY DEF RolesInv, TypeOK
<1>2. OwnersAreBilling' /\ OneOrgPerOwner'
  BY DEF RolesInv, OwnersAreBilling, OneOrgPerOwner
<1>3. MembershipsAreRooted'
  BY DEF RolesInv, MembershipsAreRooted, Member
<1> QED
  BY <1>1, <1>2, <1>3 DEF RolesInv

\* A cascade only takes memberships away, with the rows they hang on.
LEMMA CascadeKeeps ==
    ASSUME RolesInv, NEW O \in SUBSET Orgs, NEW U \in SUBSET Users, Cascade(O, U),
           req' \in [Requests -> PendingWrites]
    PROVE  RolesInv'
<1>1. TypeOK
  BY DEF RolesInv
<1>2. TypeOK'
  BY <1>1, CascadeTypes DEF TypeOK
<1>3. ASSUME NEW o \in Orgs, NEW u \in Users, role'[o][u] # "none"
      PROVE  /\ o \notin O /\ u \notin U
             /\ role'[o][u] = role[o][u] /\ billing'[o][u] = billing[o][u]
             /\ org'[o] = org[o] /\ user'[u] = user[u]
  <2>1. o \notin O /\ u \notin U
    BY <1>1, <1>3, CascadeCells
  <2>2. role'[o][u] = role[o][u] /\ billing'[o][u] = billing[o][u]
    BY <1>1, <2>1, CascadeCells
  <2>3. org'[o] = org[o] /\ user'[u] = user[u]
    BY <1>1, <2>1, CascadeRows
  <2> QED
    BY <2>1, <2>2, <2>3
<1>4. OwnersAreBilling'
  BY <1>3 DEF RolesInv, OwnersAreBilling
<1>5. OneOrgPerOwner'
  BY <1>3 DEF RolesInv, OneOrgPerOwner
<1>6. MembershipsAreRooted'
  BY <1>3 DEF RolesInv, MembershipsAreRooted, Member
<1> QED
  BY <1>2, <1>4, <1>5, <1>6 DEF RolesInv

LEMMA SignUpKeeps ==
    ASSUME RolesInv, NEW u \in Users, SignUp(u)
    PROVE  RolesInv'
<1>1. TypeOK'
  BY DEF RolesInv, TypeOK, SignUp
<1>2. OwnersAreBilling' /\ OneOrgPerOwner'
  BY DEF RolesInv, OwnersAreBilling, OneOrgPerOwner, SignUp
<1>3. \A v \in Users : user[v] = "active" => user'[v] = "active"
  BY DEF RolesInv, TypeOK, SignUp
<1>4. MembershipsAreRooted'
  BY <1>3 DEF RolesInv, MembershipsAreRooted, Member, SignUp
<1> QED
  BY <1>1, <1>2, <1>4 DEF RolesInv

\* A new org has no members yet, and its owner owns no other.
LEMMA CreateOrgKeeps ==
    ASSUME RolesInv, NEW o \in Orgs, NEW u \in Users, CreateOrgWithOwner(o, u)
    PROVE  RolesInv'
<1>0. /\ role \in [Orgs -> [Users -> Roles \cup {"none"}]]
      /\ billing \in [Orgs -> [Users -> BOOLEAN]]
      /\ "owner" \in Roles \cup {"none"}
  BY DEF RolesInv, TypeOK, Roles
<1>1. /\ role' \in [Orgs -> [Users -> Roles \cup {"none"}]]
      /\ \A p \in Orgs, q \in Users :
            role'[p][q] = IF p = o /\ q = u THEN "owner" ELSE role[p][q]
  BY <1>0, CellWrite DEF CreateOrgWithOwner
<1>2. /\ billing' \in [Orgs -> [Users -> BOOLEAN]]
      /\ \A p \in Orgs, q \in Users :
            billing'[p][q] = IF p = o /\ q = u THEN TRUE ELSE billing[p][q]
  BY <1>0 DEF CreateOrgWithOwner
<1>3. /\ org' \in [Orgs -> {"absent", "live", "deleted"}]
      /\ org'[o] = "live" /\ \A p \in Orgs : p # o => org'[p] = org[p]
      /\ creator' \in [Orgs -> Users \cup {Nobody}]
  BY DEF RolesInv, TypeOK, CreateOrgWithOwner
<1>4. TypeOK'
  BY <1>1, <1>2, <1>3 DEF RolesInv, TypeOK, CreateOrgWithOwner
<1>5. OwnersAreBilling'
  BY <1>1, <1>2 DEF RolesInv, OwnersAreBilling
<1>6. \A p \in Orgs : p # o => role[p][u] # "owner"
  BY DEF CreateOrgWithOwner, OwnsElsewhere
<1>7. OneOrgPerOwner'
  BY <1>1, <1>6 DEF RolesInv, OneOrgPerOwner
<1>8. MembershipsAreRooted'
  BY <1>1, <1>3 DEF RolesInv, MembershipsAreRooted, Member, CreateOrgWithOwner
<1> QED
  BY <1>4, <1>5, <1>7, <1>8 DEF RolesInv

\* Whoever accepts had no account, hence no membership anywhere.
LEMMA AcceptKeeps ==
    ASSUME RolesInv, NEW o \in Orgs, NEW u \in Users, NEW as \in Assignable,
           AcceptInvitation(o, u, as)
    PROVE  RolesInv'
<1>0. /\ role \in [Orgs -> [Users -> Roles \cup {"none"}]]
      /\ as \in Roles \cup {"none"} /\ as # "owner"
  BY DEF RolesInv, TypeOK, Roles, Assignable
<1>1. /\ role' \in [Orgs -> [Users -> Roles \cup {"none"}]]
      /\ \A p \in Orgs, q \in Users :
            role'[p][q] = IF p = o /\ q = u THEN as ELSE role[p][q]
  BY <1>0 DEF AcceptInvitation
<1>2. /\ user' \in [Users -> {"absent", "active", "deleted"}]
      /\ user'[u] = "active" /\ \A q \in Users : q # u => user'[q] = user[q]
  BY DEF RolesInv, TypeOK, AcceptInvitation
<1>3. TypeOK'
  BY <1>1, <1>2 DEF RolesInv, TypeOK, AcceptInvitation
<1>4. OwnersAreBilling'
  BY <1>0, <1>1 DEF RolesInv, OwnersAreBilling, AcceptInvitation
<1>5. \A p \in Orgs, q \in Users : role'[p][q] = "owner" => role[p][q] = "owner"
  BY <1>0, <1>1
<1>6. OneOrgPerOwner'
  BY <1>5 DEF RolesInv, OneOrgPerOwner
<1>7. ASSUME NEW p \in Orgs, NEW q \in Users, role'[p][q] # "none"
      PROVE  org'[p] = "live" /\ user'[q] = "active"
  <2>1. CASE p = o /\ q = u
    BY <1>2, <2>1 DEF AcceptInvitation
  <2>2. CASE ~(p = o /\ q = u)
    <3>1. role[p][q] # "none"
      BY <1>1, <1>7, <2>2
    <3>2. org[p] = "live" /\ user[q] = "active"
      BY <3>1 DEF RolesInv, MembershipsAreRooted, Member
    <3> QED
      BY <1>2, <3>2 DEF AcceptInvitation
  <2> QED
    BY <2>1, <2>2
<1>8. MembershipsAreRooted'
  BY <1>7 DEF MembershipsAreRooted, Member
<1> QED
  BY <1>3, <1>4, <1>6, <1>8 DEF RolesInv

\* The two cells a transfer writes, if it writes at all.
LEMMA TransferFacts ==
    ASSUME RolesInv, NEW r \in Requests, TransferOwner(r)
    PROVE  LET w == req[r]
           IN  /\ w.op = "transfer" /\ Finish(r)
               /\ w.org \in Orgs /\ w.caller \in Users /\ w.target \in Users
               /\ role' \in [Orgs -> [Users -> Roles \cup {"none"}]]
               /\ billing' \in [Orgs -> [Users -> BOOLEAN]]
               /\ UNCHANGED <<user, org, creator>>
               /\ \/ UNCHANGED <<role, billing>>
                  \/ /\ role[w.org][w.target] # "none" /\ role[w.org][w.caller] # "none"
                     /\ ~OwnsElsewhere(w.target, w.org)
                     /\ \A p \in Orgs, q \in Users :
                          /\ role'[p][q] = IF p = w.org /\ q = w.caller THEN "admin"
                                           ELSE IF p = w.org /\ q = w.target THEN "owner"
                                           ELSE role[p][q]
                          /\ billing'[p][q] = IF p = w.org /\ q = w.caller THEN FALSE
                                              ELSE IF p = w.org /\ q = w.target THEN TRUE
                                              ELSE billing[p][q]
<1> DEFINE w == req[r]
<1>1. w.op = "transfer" /\ Finish(r) /\ UNCHANGED <<user, org, creator>>
  BY DEF TransferOwner
<1>2. w.org \in Orgs /\ w.caller \in Users /\ w.target \in Users
  BY <1>1, PendingWriteFields DEF RolesInv, TypeOK
<1>3. /\ role \in [Orgs -> [Users -> Roles \cup {"none"}]]
      /\ billing \in [Orgs -> [Users -> BOOLEAN]]
      /\ "owner" \in Roles \cup {"none"} /\ "admin" \in Roles \cup {"none"}
      /\ TRUE \in BOOLEAN /\ FALSE \in BOOLEAN
  BY DEF RolesInv, TypeOK, Roles
<1>4. CASE UNCHANGED <<role, billing>>
  BY <1>1, <1>2, <1>3, <1>4
<1>5. CASE /\ Member(w.org, w.target) /\ Member(w.org, w.caller)
           /\ ~OwnsElsewhere(w.target, w.org)
           /\ role' = [role EXCEPT ![w.org][w.target] = "owner",
                                   ![w.org][w.caller] = "admin"]
           /\ billing' = [billing EXCEPT ![w.org][w.target] = TRUE,
                                         ![w.org][w.caller] = FALSE]
  <2> HIDE DEF w
  <2>1. /\ role' \in [Orgs -> [Users -> Roles \cup {"none"}]]
        /\ \A p \in Orgs, q \in Users :
             role'[p][q] = IF p = w.org /\ q = w.caller THEN "admin"
                           ELSE IF p = w.org /\ q = w.target THEN "owner"
                           ELSE role[p][q]
    BY <1>2, <1>3, <1>5
  <2>2. /\ billing' \in [Orgs -> [Users -> BOOLEAN]]
        /\ \A p \in Orgs, q \in Users :
             billing'[p][q] = IF p = w.org /\ q = w.caller THEN FALSE
                              ELSE IF p = w.org /\ q = w.target THEN TRUE
                              ELSE billing[p][q]
    BY <1>2, <1>3, <1>5
  <2>3. role[w.org][w.target] # "none" /\ role[w.org][w.caller] # "none"
    BY <1>5 DEF Member
  <2> USE DEF w
  <2> QED
    BY <1>1, <1>2, <1>5, <2>1, <2>2, <2>3
<1> QED
  BY <1>4, <1>5 DEF TransferOwner

LEMMA TransferKeeps ==
    ASSUME RolesInv, NEW r \in Requests, TransferOwner(r)
    PROVE  RolesInv'
<1> DEFINE w == req[r]
<1>1. req' \in [Requests -> PendingWrites]
  BY TransferFacts, FinishType DEF RolesInv, TypeOK
<1>2. TypeOK'
  BY <1>1, TransferFacts DEF RolesInv, TypeOK
<1>3. CASE UNCHANGED <<role, billing>>
  BY <1>1, <1>3, TransferFacts, RowsUntouched DEF rows
<1>4. CASE /\ role[w.org][w.target] # "none" /\ role[w.org][w.caller] # "none"
           /\ ~OwnsElsewhere(w.target, w.org)
           /\ \A p \in Orgs, q \in Users :
                /\ role'[p][q] = IF p = w.org /\ q = w.caller THEN "admin"
                                 ELSE IF p = w.org /\ q = w.target THEN "owner"
                                 ELSE role[p][q]
                /\ billing'[p][q] = IF p = w.org /\ q = w.caller THEN FALSE
                                    ELSE IF p = w.org /\ q = w.target THEN TRUE
                                    ELSE billing[p][q]
  <2>1. w.org \in Orgs /\ w.caller \in Users /\ w.target \in Users
        /\ user' = user /\ org' = org
    BY TransferFacts
  <2> HIDE DEF w
  <2>2. ASSUME NEW p \in Orgs, NEW q \in Users, role'[p][q] = "owner"
        PROVE  /\ billing'[p][q]
               /\ role[p][q] = "owner" \/ (p = w.org /\ q = w.target)
    <3>1. ~(p = w.org /\ q = w.caller)
      BY <1>4, <2>2
    <3>2. CASE p = w.org /\ q = w.target
      BY <1>4, <3>1, <3>2
    <3>3. CASE ~(p = w.org /\ q = w.target)
      <4>1. role'[p][q] = role[p][q] /\ billing'[p][q] = billing[p][q]
        BY <1>4, <3>1, <3>3
      <4> QED
        BY <2>2, <4>1 DEF RolesInv, OwnersAreBilling
    <3> QED
      BY <3>2, <3>3
  <2>3. \A p \in Orgs : p # w.org => role[p][w.target] # "owner"
    BY <1>4 DEF OwnsElsewhere
  <2>4. OneOrgPerOwner'
    BY <2>2, <2>3 DEF RolesInv, OneOrgPerOwner
  <2>5. \A p \in Orgs, q \in Users : role'[p][q] # "none" => role[p][q] # "none"
    <3> SUFFICES ASSUME NEW p \in Orgs, NEW q \in Users, role'[p][q] # "none"
                 PROVE  role[p][q] # "none"
      OBVIOUS
    <3>1. CASE p = w.org /\ q = w.target
      BY <1>4, <3>1
    <3>2. CASE p = w.org /\ q = w.caller
      BY <1>4, <3>2
    <3>3. CASE ~(p = w.org /\ q = w.target) /\ ~(p = w.org /\ q = w.caller)
      BY <1>4, <3>3
    <3> QED
      BY <3>1, <3>2, <3>3
  <2>6. MembershipsAreRooted'
    BY <2>1, <2>5 DEF RolesInv, MembershipsAreRooted, Member
  <2>7. OwnersAreBilling'
    BY <2>2 DEF OwnersAreBilling
  <2> QED
    BY <1>2, <2>4, <2>6, <2>7 DEF RolesInv
<1> QED
  BY <1>3, <1>4, TransferFacts

\* The cell a PATCH writes: an owner row stays one only with its flag.
LEMMA PatchFacts ==
    ASSUME RolesInv, NEW r \in Requests, PatchMember(r)
    PROVE  LET w == req[r]
           IN  /\ w.op = "patch" /\ Finish(r)
               /\ w.org \in Orgs /\ w.target \in Users
               /\ role' \in [Orgs -> [Users -> Roles \cup {"none"}]]
               /\ billing' \in [Orgs -> [Users -> BOOLEAN]]
               /\ UNCHANGED <<user, org, creator>>
               /\ \/ UNCHANGED <<role, billing>>
                  \/ /\ role[w.org][w.target] # "none"
                     /\ role'[w.org][w.target] = "owner" =>
                          role[w.org][w.target] = "owner" /\ billing'[w.org][w.target]
                     /\ w.role = "keep" => role'[w.org][w.target] = role[w.org][w.target]
                     /\ w.role # "keep" => role'[w.org][w.target] # "owner"
                     /\ \A p \in Orgs, q \in Users : ~(p = w.org /\ q = w.target) =>
                          role'[p][q] = role[p][q] /\ billing'[p][q] = billing[p][q]
<1> DEFINE w == req[r]
           newRole == IF w.role = "keep" THEN role[w.org][w.target] ELSE w.role
           newBilling == \/ w.billing = "on"
                         \/ w.billing = "keep" /\ billing[w.org][w.target]
<1>1. w.op = "patch" /\ Finish(r) /\ UNCHANGED <<user, org, creator>>
  BY DEF PatchMember
<1>2. w.org \in Orgs /\ w.target \in Users /\ w.role \in {"member", "admin", "keep"}
  BY <1>1, PendingWriteFields DEF RolesInv, TypeOK
<1>3. /\ role \in [Orgs -> [Users -> Roles \cup {"none"}]]
      /\ billing \in [Orgs -> [Users -> BOOLEAN]]
  BY DEF RolesInv, TypeOK
<1>4. newRole \in Roles \cup {"none"} /\ newBilling \in BOOLEAN
  BY <1>2, <1>3 DEF Roles
<1>5. CASE UNCHANGED <<role, billing>>
  BY <1>1, <1>2, <1>3, <1>5
<1>6. CASE /\ Member(w.org, w.target) /\ (newRole = "owner" => newBilling)
           /\ role' = [role EXCEPT ![w.org][w.target] = newRole]
           /\ billing' = [billing EXCEPT ![w.org][w.target] = newBilling]
  <2>0. /\ w.role = "keep" => newRole = role[w.org][w.target]
        /\ w.role # "keep" => newRole # "owner"
    BY <1>2
  <2> HIDE DEF newBilling, newRole, w
  <2>1. /\ role' \in [Orgs -> [Users -> Roles \cup {"none"}]]
        /\ \A p \in Orgs, q \in Users :
             role'[p][q] = IF p = w.org /\ q = w.target THEN newRole ELSE role[p][q]
    BY <1>2, <1>3, <1>4, <1>6, CellWrite
  <2>2. /\ billing' \in [Orgs -> [Users -> BOOLEAN]]
        /\ \A p \in Orgs, q \in Users :
             billing'[p][q] = IF p = w.org /\ q = w.target THEN newBilling ELSE billing[p][q]
    BY <1>2, <1>3, <1>4, <1>6, CellWrite
  <2>3. role[w.org][w.target] # "none"
    BY <1>6 DEF Member
  <2>4. role'[w.org][w.target] = newRole /\ billing'[w.org][w.target] = newBilling
    BY <1>2, <2>1, <2>2
  <2>5. role'[w.org][w.target] = "owner" =>
          role[w.org][w.target] = "owner" /\ billing'[w.org][w.target]
    BY <1>6, <2>0, <2>4
  <2>6. \A p \in Orgs, q \in Users : ~(p = w.org /\ q = w.target) =>
          role'[p][q] = role[p][q] /\ billing'[p][q] = billing[p][q]
    BY <2>1, <2>2
  <2>7. /\ w.role = "keep" => role'[w.org][w.target] = role[w.org][w.target]
        /\ w.role # "keep" => role'[w.org][w.target] # "owner"
    BY <2>0, <2>4
  <2> USE DEF w
  <2> QED
    BY <1>1, <1>2, <2>1, <2>2, <2>3, <2>5, <2>6, <2>7
<1> QED
  BY <1>5, <1>6 DEF PatchMember

LEMMA PatchKeeps ==
    ASSUME RolesInv, NEW r \in Requests, PatchMember(r)
    PROVE  RolesInv'
<1> DEFINE w == req[r]
<1>1. req' \in [Requests -> PendingWrites]
  BY PatchFacts, FinishType DEF RolesInv, TypeOK
<1>2. TypeOK'
  BY <1>1, PatchFacts DEF RolesInv, TypeOK
<1>3. CASE UNCHANGED <<role, billing>>
  BY <1>1, <1>3, PatchFacts, RowsUntouched DEF rows
<1>4. CASE ~UNCHANGED <<role, billing>>
  <2>1. /\ w.org \in Orgs /\ w.target \in Users
        /\ user' = user /\ org' = org
        /\ role[w.org][w.target] # "none"
        /\ role'[w.org][w.target] = "owner" =>
             role[w.org][w.target] = "owner" /\ billing'[w.org][w.target]
        /\ \A p \in Orgs, q \in Users : ~(p = w.org /\ q = w.target) =>
             role'[p][q] = role[p][q] /\ billing'[p][q] = billing[p][q]
    BY <1>4, PatchFacts
  <2> HIDE DEF w
  <2>2. OwnersAreBilling'
    BY <2>1 DEF RolesInv, OwnersAreBilling
  <2>3. \A p \in Orgs, q \in Users : role'[p][q] = "owner" => role[p][q] = "owner"
    BY <2>1
  <2>4. OneOrgPerOwner'
    BY <2>3 DEF RolesInv, OneOrgPerOwner
  <2>5. MembershipsAreRooted'
    BY <2>1 DEF RolesInv, MembershipsAreRooted, Member
  <2> QED
    BY <1>2, <2>2, <2>4, <2>5 DEF RolesInv
<1> QED
  BY <1>3, <1>4

\* The cells that erasure clears: every one of the target's.
LEMMA EraseMembershipsFacts ==
    ASSUME RolesInv, NEW r \in Requests, EraseMemberships(r)
    PROVE  /\ req[r].target \in Users
           /\ req' \in [Requests -> PendingWrites] /\ req'[r] # req[r]
           /\ role' \in [Orgs -> [Users -> Roles \cup {"none"}]]
           /\ billing' \in [Orgs -> [Users -> BOOLEAN]]
           /\ \A o \in Orgs, u \in Users :
                /\ u = req[r].target => role'[o][u] = "none"
                /\ u # req[r].target =>
                     role'[o][u] = role[o][u] /\ billing'[o][u] = billing[o][u]
<1>1. PICK t : t = req[r].target
  OBVIOUS
<1>2. t \in Users
  BY <1>1, PendingWriteFields DEF RolesInv, TypeOK, EraseMemberships
<1>3. req' \in [Requests -> PendingWrites] /\ req'[r] # req[r]
  BY StageType DEF RolesInv, TypeOK, EraseMemberships
<1>4. /\ role' = [o \in Orgs |-> [role[o] EXCEPT ![t] = "none"]]
      /\ billing' = [o \in Orgs |-> [billing[o] EXCEPT ![t] = FALSE]]
  BY <1>1 DEF EraseMemberships
<1>5. /\ role \in [Orgs -> [Users -> Roles \cup {"none"}]]
      /\ billing \in [Orgs -> [Users -> BOOLEAN]]
  BY DEF RolesInv, TypeOK
<1>6. /\ role' \in [Orgs -> [Users -> Roles \cup {"none"}]]
      /\ billing' \in [Orgs -> [Users -> BOOLEAN]]
  BY <1>2, <1>4, <1>5
<1>7. \A o \in Orgs, u \in Users :
        /\ u = t => role'[o][u] = "none"
        /\ u # t => role'[o][u] = role[o][u] /\ billing'[o][u] = billing[o][u]
  BY <1>2, <1>4, <1>5
<1> QED
  BY <1>1, <1>2, <1>3, <1>6, <1>7

LEMMA EraseMembershipsKeeps ==
    ASSUME RolesInv, NEW r \in Requests, EraseMemberships(r)
    PROVE  RolesInv'
<1>1. /\ req' \in [Requests -> PendingWrites]
      /\ role' \in [Orgs -> [Users -> Roles \cup {"none"}]]
      /\ billing' \in [Orgs -> [Users -> BOOLEAN]]
      /\ user' = user /\ org' = org /\ creator' = creator
  BY EraseMembershipsFacts DEF EraseMemberships
<1>2. \A o \in Orgs, u \in Users :
        role'[o][u] # "none" =>
            role'[o][u] = role[o][u] /\ billing'[o][u] = billing[o][u]
  BY EraseMembershipsFacts
<1>3. TypeOK'
  BY <1>1 DEF RolesInv, TypeOK
<1>4. OwnersAreBilling'
  BY <1>2 DEF RolesInv, OwnersAreBilling
<1>5. OneOrgPerOwner'
  BY <1>2 DEF RolesInv, OneOrgPerOwner
<1>6. MembershipsAreRooted'
  BY <1>1, <1>2 DEF RolesInv, MembershipsAreRooted, Member
<1> QED
  BY <1>3, <1>4, <1>5, <1>6 DEF RolesInv

\* Every check only remembers what it is going to write.
LEMMA ChecksFacts ==
    ASSUME RolesInv, NEW r \in Requests, Checks(r)
    PROVE  UNCHANGED rows /\ req' \in [Requests -> PendingWrites]
<1>0. req \in [Requests -> PendingWrites]
  BY DEF RolesInv, TypeOK
<1>1. CASE \E o \in Orgs, c, t \in Users : CheckTransfer(r, o, c, t)
  <2>1. PICK o \in Orgs, c \in Users, t \in Users : CheckTransfer(r, o, c, t)
    BY <1>1
  <2>2. [op |-> "transfer", org |-> o, caller |-> c, target |-> t] \in PendingWrites
    BY DEF PendingWrites
  <2> QED
    BY <1>0, <2>1, <2>2, RememberType DEF CheckTransfer
<1>2. CASE \E o \in Orgs, c, t \in Users : CheckRemove(r, o, c, t)
  <2>1. PICK o \in Orgs, c \in Users, t \in Users : CheckRemove(r, o, c, t)
    BY <1>2
  <2>2. [op |-> "remove", target |-> t] \in PendingWrites
    BY DEF PendingWrites
  <2> QED
    BY <1>0, <2>1, <2>2, RememberType DEF CheckRemove
<1>3. CASE \E o \in Orgs, c, t \in Users :
             \E newRole \in Assignable \cup {"keep"}, newBilling \in {"on", "off", "keep"} :
                CheckPatch(r, o, c, t, newRole, newBilling)
  <2>1. PICK o \in Orgs, c \in Users, t \in Users,
             newRole \in Assignable \cup {"keep"}, newBilling \in {"on", "off", "keep"} :
                CheckPatch(r, o, c, t, newRole, newBilling)
    BY <1>3
  <2>2. [op |-> "patch", org |-> o, target |-> t, role |-> newRole, billing |-> newBilling]
          \in PendingWrites
    BY DEF PendingWrites
  <2> QED
    BY <1>0, <2>1, <2>2, RememberType DEF CheckPatch
<1>4. CASE \E o \in Orgs, c \in Users : CheckDelete(r, o, c)
  <2>1. PICK o \in Orgs, c \in Users : CheckDelete(r, o, c)
    BY <1>4
  <2>2. [op |-> "delete", org |-> o] \in PendingWrites
    BY DEF PendingWrites
  <2> QED
    BY <1>0, <2>1, <2>2, RememberType DEF CheckDelete
<1>5. CASE \E u \in Users : CheckErase(r, u)
  <2>1. PICK u \in Users : CheckErase(r, u)
    BY <1>5
  <2>2. [op |-> "erase", stage |-> "orgs", target |-> u] \in PendingWrites
    BY DEF PendingWrites
  <2> QED
    BY <1>0, <2>1, <2>2, RememberType DEF CheckErase
<1> QED
  BY <1>1, <1>2, <1>3, <1>4, <1>5 DEF Checks

\* The writes that end in a cascade, with the orgs and users each takes.
LEMMA CascadingFacts ==
    ASSUME RolesInv, NEW r \in Requests,
           RemoveMember(r) \/ DeleteOrg(r) \/ EraseOrgs(r) \/ EraseUser(r)
    PROVE  /\ req' \in [Requests -> PendingWrites] /\ req'[r] # req[r]
           /\ \E O \in SUBSET Orgs, U \in SUBSET Users :
                /\ Cascade(O, U)
                /\ \/ /\ O = {} /\ U = {req[r].target}
                      /\ req[r].op \in {"remove", "erase"}
                   \/ \E payers : U = Dependents(O, payers)
<1>0. req \in [Requests -> PendingWrites] /\ req[r] \in PendingWrites
  BY DEF RolesInv, TypeOK
<1>1. CASE RemoveMember(r) \/ EraseUser(r)
  <2>1. req[r].op \in {"remove", "erase"} /\ Finish(r) /\ Cascade({}, {req[r].target})
    BY <1>1 DEF RemoveMember, EraseUser
  <2>2. req[r].target \in Users /\ req[r] # Idle
    BY <1>0, <2>1, PendingWriteFields
  <2>3. {req[r].target} \in SUBSET Users /\ {} \in SUBSET Orgs
    BY <2>2
  <2>4. req' \in [Requests -> PendingWrites] /\ req'[r] # req[r]
    BY <1>0, <2>1, <2>2, FinishType
  <2> QED
    BY <2>1, <2>3, <2>4
<1>2. CASE DeleteOrg(r)
  <2>1. /\ req[r].op = "delete" /\ Finish(r)
        /\ Cascade({req[r].org}, Dependents({req[r].org}, Paying))
    BY <1>2 DEF DeleteOrg
  <2>2. req[r].org \in Orgs /\ req[r] # Idle
    BY <1>0, <2>1, PendingWriteFields
  <2>3. {req[r].org} \in SUBSET Orgs
    BY <2>2
  <2>4. Dependents({req[r].org}, Paying) \in SUBSET Users
    BY <2>3, DependentsFacts
  <2>5. req' \in [Requests -> PendingWrites] /\ req'[r] # req[r]
    BY <1>0, <2>1, <2>2, FinishType
  <2> QED
    BY <2>1, <2>3, <2>4, <2>5
<1>3. CASE EraseOrgs(r)
  <2>1. PICK created : created = {o \in Orgs : creator[o] = req[r].target}
    OBVIOUS
  <2>2. Cascade(created, Dependents(created, Paying \ {req[r].target}))
    BY <1>3, <2>1 DEF EraseOrgs
  <2>3. created \in SUBSET Orgs
    BY <2>1
  <2>4. Dependents(created, Paying \ {req[r].target}) \in SUBSET Users
    BY <2>3, DependentsFacts
  <2>5. req' \in [Requests -> PendingWrites] /\ req'[r] # req[r]
    BY <1>0, <1>3, StageType DEF EraseOrgs
  <2> QED
    BY <2>2, <2>3, <2>4, <2>5
<1> QED
  BY <1>1, <1>2, <1>3

\* The inductive invariant holds at the start ...
LEMMA RolesInitially == Init => RolesInv
<1> SUFFICES ASSUME Init PROVE RolesInv
  OBVIOUS
<1>1. TypeOK
  BY DEF Init, TypeOK, PendingWrites
<1>2. \A o \in Orgs, u \in Users : role[o][u] = "none"
  BY DEF Init
<1> QED
  BY <1>1, <1>2 DEF RolesInv, OwnersAreBilling, OneOrgPerOwner, MembershipsAreRooted, Member

\* ... and through every step.
LEMMA RolesStep == RolesInv /\ [Next]_vars => RolesInv'
<1> SUFFICES ASSUME RolesInv, [Next]_vars PROVE RolesInv'
  OBVIOUS
<1>1. CASE UNCHANGED vars
  BY <1>1, RowsUntouched DEF vars, rows, RolesInv, TypeOK
<1>2. CASE Arrivals
  BY <1>2, SignUpKeeps, CreateOrgKeeps, AcceptKeeps DEF Arrivals
<1>3. ASSUME NEW r \in Requests, Checks(r) PROVE RolesInv'
  BY <1>3, ChecksFacts, RowsUntouched
<1>4. ASSUME NEW r \in Requests, Writes(r) PROVE RolesInv'
  <2>1. CASE TransferOwner(r) \/ PatchMember(r) \/ EraseMemberships(r)
    BY <2>1, TransferKeeps, PatchKeeps, EraseMembershipsKeeps
  <2>2. CASE RemoveMember(r) \/ DeleteOrg(r) \/ EraseOrgs(r) \/ EraseUser(r)
    <3>1. PICK O \in SUBSET Orgs, U \in SUBSET Users : Cascade(O, U)
      BY <2>2, CascadingFacts
    <3>2. req' \in [Requests -> PendingWrites]
      BY <2>2, CascadingFacts
    <3> QED
      BY <3>1, <3>2, CascadeKeeps
  <2> QED
    BY <1>4, <2>1, <2>2 DEF Writes
<1>5. ASSUME NEW o \in Orgs, DeleteOrgOnCancel(o) PROVE RolesInv'
  <2>1. Cascade({o}, Dependents({o}, Paying)) /\ req' = req
    BY <1>5 DEF DeleteOrgOnCancel
  <2>2. {o} \in SUBSET Orgs
    OBVIOUS
  <2>3. Dependents({o}, Paying) \in SUBSET Users
    BY <2>2, DependentsFacts
  <2>4. req' \in [Requests -> PendingWrites]
    BY <2>1 DEF RolesInv, TypeOK
  <2> QED
    BY <2>1, <2>2, <2>3, <2>4, CascadeKeeps
<1> QED
  BY <1>1, <1>2, <1>3, <1>4, <1>5 DEF Next

LEMMA RolesInvariant == Spec => []RolesInv
BY RolesInitially, RolesStep, PTL DEF Spec

\* Rows and remembered writes keep their types.
THEOREM RolesTypeCorrect == Spec => []TypeOK
<1>1. RolesInv => TypeOK
  BY DEF RolesInv
<1> QED
  BY <1>1, RolesInvariant, PTL

\* However transfers, role changes, checkouts, removals and erasures of any
\* number of users interleave, an owner's row carries the billing flag.
THEOREM OwnersAreBillingCorrect == Spec => []OwnersAreBilling
<1>1. RolesInv => OwnersAreBilling
  BY DEF RolesInv
<1> QED
  BY <1>1, RolesInvariant, PTL

\* No user owns two orgs: the writes that make an owner go through the
\* partial unique index, although they were decided on older rows.
THEOREM OneOrgPerOwnerCorrect == Spec => []OneOrgPerOwner
<1>1. RolesInv => OneOrgPerOwner
  BY DEF RolesInv
<1> QED
  BY <1>1, RolesInvariant, PTL

\* No membership survives its org or its account, and no late write brings
\* one back.
THEOREM MembershipsAreRootedCorrect == Spec => []MembershipsAreRooted
<1>1. RolesInv => MembershipsAreRooted
  BY DEF RolesInv
<1> QED
  BY <1>1, RolesInvariant, PTL

----------------------------------------------------------------------------
(* Ownership, step by step.                                                *)

\* Having one owner, as a statement about rows.
LEMMA OneOwnerIsOneRow ==
    ASSUME NEW o \in Orgs
    PROVE  OneOwner(o) <=> \E u \in Users : \A v \in Users : role[o][v] = "owner" <=> v = u
<1>1. IsFiniteSet(OwnersOf(o))
  <2>1. OwnersOf(o) \subseteq Users
    BY DEF OwnersOf
  <2> QED
    BY <2>1, RolesAssumption, FS_Subset
<1>2. OneOwner(o) <=> \E u : OwnersOf(o) = {u}
  BY <1>1, FS_Singleton DEF OneOwner
<1>3. ASSUME NEW u, OwnersOf(o) = {u}
      PROVE  u \in Users /\ \A v \in Users : role[o][v] = "owner" <=> v = u
  BY <1>3 DEF OwnersOf
<1>4. ASSUME NEW u \in Users, \A v \in Users : role[o][v] = "owner" <=> v = u
      PROVE  OwnersOf(o) = {u}
  BY <1>4 DEF OwnersOf
<1> QED
  BY <1>2, <1>3, <1>4

\* The same of the state after a step.
LEMMA OneOwnerIsOneRowNext ==
    ASSUME NEW o \in Orgs
    PROVE  OneOwner(o)' <=> \E u \in Users : \A v \in Users : role'[o][v] = "owner" <=> v = u
<1>1. IsFiniteSet(OwnersOf(o)')
  <2>1. OwnersOf(o)' \subseteq Users
    BY DEF OwnersOf
  <2> QED
    BY <2>1, RolesAssumption, FS_Subset
<1>2. OneOwner(o)' <=> \E u : OwnersOf(o)' = {u}
  BY <1>1, FS_Singleton DEF OneOwner
<1>3. ASSUME NEW u, OwnersOf(o)' = {u}
      PROVE  u \in Users /\ \A v \in Users : role'[o][v] = "owner" <=> v = u
  BY <1>3 DEF OwnersOf
<1>4. ASSUME NEW u \in Users, \A v \in Users : role'[o][v] = "owner" <=> v = u
      PROVE  OwnersOf(o)' = {u}
  BY <1>4 DEF OwnersOf
<1> QED
  BY <1>2, <1>3, <1>4

\* The org o is left with one owner if it had one or is new.
KeepsOneOwner(o) ==
    org'[o] = "live" /\ (org[o] = "absent" \/ OneOwner(o)) => OneOwner(o)'

\* An org whose owner rows and whose own row stay as they are.
LEMMA OwnersUntouched ==
    ASSUME NEW o \in Orgs,
           org'[o] = org[o],
           \A u \in Users : role'[o][u] = "owner" <=> role[o][u] = "owner"
    PROVE  KeepsOneOwner(o)
<1>1. OneOwner(o) => OneOwner(o)'
  BY OneOwnerIsOneRow, OneOwnerIsOneRowNext
<1> QED
  BY <1>1 DEF KeepsOneOwner

\* An org that is deleted has no owner to keep.
LEMMA DeletedOrgOwesNothing ==
    ASSUME NEW o \in Orgs, org'[o] = "deleted"
    PROVE  KeepsOneOwner(o)
BY DEF KeepsOneOwner

\* A cascade leaves the owner rows of the orgs that stay alone when the users
\* it takes own none of them.
LEMMA CascadeKeepsOwners ==
    ASSUME RolesInv, NEW O \in SUBSET Orgs, NEW U \in SUBSET Users, Cascade(O, U),
           \A p \in Orgs, u \in U : p \notin O => role[p][u] # "owner"
    PROVE  \A o \in Orgs : KeepsOneOwner(o)
<1> SUFFICES ASSUME NEW o \in Orgs PROVE KeepsOneOwner(o)
  OBVIOUS
<1>0. TypeOK
  BY DEF RolesInv
<1>1. CASE o \in O
  BY <1>0, <1>1, CascadeRows, DeletedOrgOwesNothing
<1>2. CASE o \notin O
  <2>1. org'[o] = org[o]
    BY <1>0, <1>2, CascadeRows
  <2>2. ASSUME NEW u \in Users PROVE role'[o][u] = "owner" <=> role[o][u] = "owner"
    <3>1. CASE u \in U
      <4>1. role'[o][u] = "none"
        BY <1>0, <3>1, CascadeCells
      <4> QED
        BY <1>2, <3>1, <4>1
    <3>2. CASE u \notin U
      BY <1>0, <1>2, <3>2, CascadeCells
    <3> QED
      BY <3>1, <3>2
  <2> QED
    BY <2>1, <2>2, OwnersUntouched
<1> QED
  BY <1>1, <1>2

\* Dependents own nothing outside the orgs that go.
LEMMA DeletionKeepsOwners ==
    ASSUME RolesInv, NEW O \in SUBSET Orgs, NEW payers, Cascade(O, Dependents(O, payers))
    PROVE  \A o \in Orgs : KeepsOneOwner(o)
<1>1. /\ Dependents(O, payers) \in SUBSET Users
      /\ \A p \in Orgs, u \in Dependents(O, payers) : p \notin O => role[p][u] = "none"
  BY DependentsFacts
<1>2. \A p \in Orgs, u \in Dependents(O, payers) : p \notin O => role[p][u] # "owner"
  BY <1>1
<1> QED
  BY <1>1, <1>2, CascadeKeepsOwners

LEMMA ArrivalsKeepOwners ==
    ASSUME RolesInv, Arrivals
    PROVE  \A o \in Orgs : KeepsOneOwner(o)
<1>0. /\ role \in [Orgs -> [Users -> Roles \cup {"none"}]]
      /\ org \in [Orgs -> {"absent", "live", "deleted"}]
  BY DEF RolesInv, TypeOK
<1>1. ASSUME NEW u \in Users, SignUp(u) PROVE \A o \in Orgs : KeepsOneOwner(o)
  BY <1>1, OwnersUntouched DEF SignUp
<1>2. ASSUME NEW o \in Orgs, NEW u \in Users, CreateOrgWithOwner(o, u),
             NEW p \in Orgs
      PROVE  KeepsOneOwner(p)
  <2>1. \A q \in Users : role'[p][q] = IF p = o /\ q = u THEN "owner" ELSE role[p][q]
    BY <1>0, <1>2 DEF CreateOrgWithOwner
  <2>2. CASE p = o
    <3>1. \A q \in Users : role[o][q] = "none"
      BY <1>2 DEF CreateOrgWithOwner, RolesInv, MembershipsAreRooted, Member
    <3>2. \A q \in Users : role'[o][q] = "owner" <=> q = u
      BY <2>1, <2>2, <3>1
    <3> QED
      BY <2>2, <3>2, OneOwnerIsOneRowNext DEF KeepsOneOwner
  <2>3. CASE p # o
    <3>1. org'[p] = org[p]
      BY <1>0, <1>2, <2>3 DEF CreateOrgWithOwner
    <3> QED
      BY <2>1, <2>3, <3>1, OwnersUntouched
  <2> QED
    BY <2>2, <2>3
<1>3. ASSUME NEW o \in Orgs, NEW u \in Users, NEW as \in Assignable,
             AcceptInvitation(o, u, as), NEW p \in Orgs
      PROVE  KeepsOneOwner(p)
  <2>1. \A q \in Users : role'[p][q] = IF p = o /\ q = u THEN as ELSE role[p][q]
    BY <1>0, <1>3 DEF AcceptInvitation
  <2>2. role[o][u] = "none"
    BY <1>3 DEF AcceptInvitation, RolesInv, MembershipsAreRooted, Member
  <2>3. as # "owner"
    BY DEF Assignable
  <2>4. \A q \in Users : role'[p][q] = "owner" <=> role[p][q] = "owner"
    BY <2>1, <2>2, <2>3
  <2> QED
    BY <1>3, <2>4, OwnersUntouched DEF AcceptInvitation
<1> QED
  BY <1>1, <1>2, <1>3 DEF Arrivals

\* The one owner hands over to the one admin the transfer named.
LEMMA TransferKeepsOwners ==
    ASSUME RolesInv, NEW r \in Requests, TransferOwner(r), DecisionStands(req[r])
    PROVE  \A o \in Orgs : KeepsOneOwner(o)
<1> SUFFICES ASSUME NEW o \in Orgs PROVE KeepsOneOwner(o)
  OBVIOUS
<1> DEFINE w == req[r]
<1>1. /\ w.op = "transfer"
      /\ w.org \in Orgs /\ w.caller \in Users /\ w.target \in Users
      /\ org' = org
  BY TransferFacts
<1>2. role[w.org][w.caller] = "owner" /\ role[w.org][w.target] = "admin"
  BY <1>1 DEF DecisionStands
<1>3. CASE UNCHANGED <<role, billing>>
  BY <1>1, <1>3, OwnersUntouched
<1>4. CASE /\ role[w.org][w.target] # "none" /\ role[w.org][w.caller] # "none"
           /\ ~OwnsElsewhere(w.target, w.org)
           /\ \A p \in Orgs, q \in Users :
                /\ role'[p][q] = IF p = w.org /\ q = w.caller THEN "admin"
                                 ELSE IF p = w.org /\ q = w.target THEN "owner"
                                 ELSE role[p][q]
                /\ billing'[p][q] = IF p = w.org /\ q = w.caller THEN FALSE
                                    ELSE IF p = w.org /\ q = w.target THEN TRUE
                                    ELSE billing[p][q]
  <2> HIDE DEF w
  <2>1. CASE o # w.org
    BY <1>1, <1>4, <2>1, OwnersUntouched
  <2>2. CASE o = w.org
    <3>1. \A q \in Users : role'[o][q] = IF q = w.caller THEN "admin"
                                         ELSE IF q = w.target THEN "owner" ELSE role[o][q]
      BY <1>4, <2>2
    <3>2. ASSUME OneOwner(o) PROVE OneOwner(o)'
      <4>1. PICK u \in Users : \A v \in Users : role[o][v] = "owner" <=> v = u
        BY <3>2, OneOwnerIsOneRow
      <4>2. u = w.caller /\ w.target # w.caller
        BY <1>1, <1>2, <2>2, <4>1
      <4>3. \A v \in Users : role'[o][v] = "owner" <=> v = w.target
        BY <1>1, <3>1, <4>1, <4>2
      <4> QED
        BY <1>1, <4>3, OneOwnerIsOneRowNext
    <3> QED
      BY <1>1, <3>2 DEF KeepsOneOwner
  <2> QED
    BY <2>1, <2>2
<1> QED
  BY <1>3, <1>4, TransferFacts

\* A role change aimed at a row that is no owner's makes no owner.
LEMMA PatchKeepsOwners ==
    ASSUME RolesInv, NEW r \in Requests, PatchMember(r), DecisionStands(req[r])
    PROVE  \A o \in Orgs : KeepsOneOwner(o)
<1> SUFFICES ASSUME NEW o \in Orgs PROVE KeepsOneOwner(o)
  OBVIOUS
<1> DEFINE w == req[r]
<1>1. w.op = "patch" /\ w.org \in Orgs /\ w.target \in Users /\ org' = org
  BY PatchFacts
<1>2. role[w.org][w.target] # "owner"
  BY <1>1 DEF DecisionStands
<1>3. CASE UNCHANGED <<role, billing>>
  BY <1>1, <1>3, OwnersUntouched
<1>4. CASE ~UNCHANGED <<role, billing>>
  <2>1. /\ role'[w.org][w.target] = "owner" => role[w.org][w.target] = "owner"
        /\ \A p \in Orgs, q \in Users : ~(p = w.org /\ q = w.target) =>
              role'[p][q] = role[p][q]
    BY <1>4, PatchFacts
  <2> HIDE DEF w
  <2>2. \A u \in Users : role'[o][u] = "owner" <=> role[o][u] = "owner"
    BY <1>1, <1>2, <2>1
  <2> QED
    BY <1>1, <2>2, OwnersUntouched
<1> QED
  BY <1>3, <1>4

\* Memberships of someone who owns nothing go without touching ownership.
LEMMA EraseMembershipsKeepsOwners ==
    ASSUME RolesInv, NEW r \in Requests, EraseMemberships(r), DecisionStands(req[r])
    PROVE  \A o \in Orgs : KeepsOneOwner(o)
<1> SUFFICES ASSUME NEW o \in Orgs PROVE KeepsOneOwner(o)
  OBVIOUS
<1>1. role[o][req[r].target] # "owner" /\ org' = org
  BY DEF EraseMemberships, DecisionStands
<1>2. \A u \in Users : /\ u = req[r].target => role'[o][u] = "none"
                       /\ u # req[r].target => role'[o][u] = role[o][u]
  BY EraseMembershipsFacts
<1>3. \A u \in Users : role'[o][u] = "owner" <=> role[o][u] = "owner"
  BY <1>1, <1>2
<1> QED
  BY <1>1, <1>3, OwnersUntouched

\* The writes of a request change the request, so its decision counts.
LEMMA WritesKeepOwners ==
    ASSUME RolesInv, NEW r \in Requests, Writes(r),
           req'[r] # req[r] => DecisionStands(req[r])
    PROVE  \A o \in Orgs : KeepsOneOwner(o)
<1>0. req \in [Requests -> PendingWrites] /\ req[r] \in PendingWrites
  BY DEF RolesInv, TypeOK
<1>1. CASE TransferOwner(r)
  <2>1. req[r].op = "transfer" /\ Finish(r)
    BY <1>1 DEF TransferOwner
  <2>2. req'[r] # req[r]
    BY <1>0, <2>1, FinishType, PendingWriteFields
  <2> QED
    BY <1>1, <2>2, TransferKeepsOwners
<1>2. CASE PatchMember(r)
  <2>1. req[r].op = "patch" /\ Finish(r)
    BY <1>2 DEF PatchMember
  <2>2. req'[r] # req[r]
    BY <1>0, <2>1, FinishType, PendingWriteFields
  <2> QED
    BY <1>2, <2>2, PatchKeepsOwners
<1>3. CASE EraseMemberships(r)
  BY <1>3, EraseMembershipsFacts, EraseMembershipsKeepsOwners
<1>4. CASE RemoveMember(r) \/ DeleteOrg(r) \/ EraseOrgs(r) \/ EraseUser(r)
  <2>1. DecisionStands(req[r])
    BY <1>4, CascadingFacts
  <2>2. PICK O \in SUBSET Orgs, U \in SUBSET Users :
          /\ Cascade(O, U)
          /\ \/ /\ O = {} /\ U = {req[r].target}
                /\ req[r].op \in {"remove", "erase"}
             \/ \E payers : U = Dependents(O, payers)
    BY <1>4, CascadingFacts
  <2>3. CASE U = {req[r].target} /\ req[r].op \in {"remove", "erase"}
    <3>1. \A p \in Orgs, u \in U : role[p][u] # "owner"
      BY <2>1, <2>3 DEF DecisionStands
    <3> QED
      BY <2>2, <3>1, CascadeKeepsOwners
  <2>4. CASE \E payers : U = Dependents(O, payers)
    BY <2>2, <2>4, DeletionKeepsOwners
  <2> QED
    BY <2>2, <2>3, <2>4
<1> QED
  BY <1>1, <1>2, <1>3, <1>4 DEF Writes

\* One step of the action property.
LEMMA OwnersStep ==
    RolesInv /\ [Next]_vars =>
       [(\A r \in Requests : req'[r] # req[r] => DecisionStands(req[r]))
          => \A o \in Orgs : org'[o] = "live" /\ (org[o] = "absent" \/ OneOwner(o))
                                => OneOwner(o)']_vars
<1> SUFFICES ASSUME RolesInv, Next,
                    \A r \in Requests : req'[r] # req[r] => DecisionStands(req[r])
             PROVE  \A o \in Orgs : KeepsOneOwner(o)
  BY DEF KeepsOneOwner
<1>1. CASE Arrivals
  BY <1>1, ArrivalsKeepOwners
<1>2. ASSUME NEW r \in Requests, Checks(r) PROVE \A o \in Orgs : KeepsOneOwner(o)
  <2>1. role' = role /\ org' = org
    BY <1>2, ChecksFacts DEF rows
  <2> QED
    BY <2>1, OwnersUntouched
<1>3. ASSUME NEW r \in Requests, Writes(r) PROVE \A o \in Orgs : KeepsOneOwner(o)
  BY <1>3, WritesKeepOwners
<1>4. ASSUME NEW o \in Orgs, DeleteOrgOnCancel(o) PROVE \A p \in Orgs : KeepsOneOwner(p)
  <2>1. {o} \in SUBSET Orgs /\ Cascade({o}, Dependents({o}, Paying))
    BY <1>4 DEF DeleteOrgOnCancel
  <2> QED
    BY <2>1, DeletionKeepsOwners
<1> QED
  BY <1>1, <1>2, <1>3, <1>4 DEF Next

\* An org begins with one owner and keeps exactly one through every write
\* whose decision still stands: the only way to lose or double an owner is a
\* request that writes on rows changed since it read them.
THEOREM StandingDecisionsCorrect == Spec => StandingDecisionsKeepOneOwner
BY RolesInvariant, OwnersStep, PTL DEF Spec, StandingDecisionsKeepOneOwner
=============================================================================
