-------------------------- MODULE SeatBudgetProofs ---------------------------
(***************************************************************************)
(* Invitations and seats, for any number of people, invitations and        *)
(* requests.  The first part needs no lock: the rows stay well typed and   *)
(* the partial unique index alone keeps pending invitations apart.  The    *)
(* second part is about the lock: as long as every report of Stripe leaves *)
(* the subscription active, each transaction that fills a seat holds the   *)
(* row, so what it counted is still true when it writes.                   *)
(***************************************************************************)
EXTENDS SeatBudget, FiniteSetTheorems, TLAPS

InvRows == [status : {"pending", "accepted"} \cup Closed, email : People]

\* A request that is to write an invitation has one to write.
AimedAtRows ==
    \A r \in Requests :
        req[r].op \in {"accept", "accepting", "close"} => inv[req[r].inv] # Absent

RowsInv ==
    /\ TypeOK
    /\ AimedAtRows
    /\ OnePendingPerEmail

----------------------------------------------------------------------------
(* Requests and invitation rows.                                           *)

\* A pending request carries the fields of its kind.
LEMMA PendingRequestFields ==
    ASSUME NEW w \in PendingRequests
    PROVE  /\ w.op \in {"invite", "inviting"} => w.email \in People
           /\ w.op \in {"accept", "accepting", "close"} => w.inv \in Invitations
           /\ w.op \in {"inviting", "accepting"} => w.locked \in BOOLEAN
           /\ w.op = "close" => w.to \in Closed
           /\ w.op = "reseat" => w.limit \in SeatRequests /\ w.changed \in BOOLEAN
BY DEF PendingRequests, Idle

LEMMA IdleIsPendingRequest ==
    /\ Idle \in PendingRequests
    /\ Idle.op = "idle"
BY DEF PendingRequests, Idle

\* One request changes and the others stay.
LEMMA RememberFacts ==
    ASSUME req \in [Requests -> PendingRequests],
           NEW r \in Requests, NEW w \in PendingRequests, Remember(r, w)
    PROVE  /\ req' \in [Requests -> PendingRequests]
           /\ req'[r] = w
           /\ \A s \in Requests : s # r => req'[s] = req[s]
BY DEF Remember

LEMMA FinishFacts ==
    ASSUME req \in [Requests -> PendingRequests], NEW r \in Requests, Finish(r)
    PROVE  /\ req' \in [Requests -> PendingRequests]
           /\ req'[r].op = "idle"
           /\ \A s \in Requests : s # r => req'[s] = req[s]
<1>1. Remember(r, Idle)
  BY DEF Finish
<1> QED
  BY <1>1, IdleIsPendingRequest, RememberFacts

\* Rows that are not absent are real rows.
LEMMA RowsAreReal ==
    ASSUME TypeOK, NEW i \in Invitations
    PROVE  /\ inv[i] = Absent \/ inv[i] \in InvRows
           /\ inv[i] \in InvRows => inv[i] # Absent
           /\ inv[i].status = "pending" => inv[i] \in InvRows
           /\ inv[i] # Absent => inv[i].email \in People
BY DEF TypeOK, InvRows, Absent, Closed

\* The invitation table only ever gains rows, and a row that was pending
\* before keeps its email.
RowsPersist ==
    \A i \in Invitations : inv[i] # Absent => inv'[i] # Absent

\* Closing or accepting an invitation writes its status and nothing else.
LEMMA StatusWrite ==
    ASSUME TypeOK, NEW i \in Invitations, inv[i] # Absent,
           NEW st \in {"accepted"} \cup Closed,
           inv' = [inv EXCEPT ![i].status = st]
    PROVE  /\ inv' \in [Invitations -> {Absent} \cup InvRows]
           /\ RowsPersist
           /\ \A j \in Invitations : inv'[j].status = "pending" => inv'[j] = inv[j]
<1>1. inv[i] \in InvRows
  BY RowsAreReal
<1>2. PICK row : row = [inv[i] EXCEPT !.status = st]
  OBVIOUS
<1>3. row \in InvRows /\ row.status = st
  BY <1>1, <1>2 DEF InvRows
<1>4. row # Absent /\ row.status # "pending"
  BY <1>3 DEF Absent, Closed
<1>5. inv' = [inv EXCEPT ![i] = row] /\ inv \in [Invitations -> {Absent} \cup InvRows]
  BY <1>2 DEF TypeOK, InvRows
<1>6. inv'[i] = row /\ \A j \in Invitations : j # i => inv'[j] = inv[j]
  BY <1>5
<1> QED
  BY <1>3, <1>4, <1>5, <1>6 DEF RowsPersist

----------------------------------------------------------------------------
(* The part of the invariant that needs no lock.                           *)

\* Pending invitations that are all old ones stay apart.
LEMMA OldPendingStayApart ==
    ASSUME OnePendingPerEmail,
           \A j \in Invitations : inv'[j].status = "pending" => inv'[j] = inv[j]
    PROVE  OnePendingPerEmail'
<1> SUFFICES ASSUME NEW i \in Invitations, NEW j \in Invitations,
                    inv'[i].status = "pending", inv'[j].status = "pending",
                    inv'[i].email = inv'[j].email
             PROVE  i = j
  BY DEF OnePendingPerEmail, Pending
<1>1. inv'[i] = inv[i] /\ inv'[j] = inv[j]
  OBVIOUS
<1> QED
  BY <1>1 DEF OnePendingPerEmail, Pending

\* The requests other than r still aim at rows, and r does if it must.
LEMMA AimsPersist ==
    ASSUME RowsInv, RowsPersist, NEW r \in Requests,
           \A s \in Requests : s # r => req'[s] = req[s],
           req'[r].op \in {"accept", "accepting", "close"} => inv'[req'[r].inv] # Absent
    PROVE  AimedAtRows'
<1> SUFFICES ASSUME NEW s \in Requests, req'[s].op \in {"accept", "accepting", "close"}
             PROVE  inv'[req'[s].inv] # Absent
  BY DEF AimedAtRows
<1>1. CASE s = r
  BY <1>1
<1>2. CASE s # r
  <2>1. req'[s] = req[s]
    BY <1>2
  <2>2. req[s] \in PendingRequests /\ req[s].op \in {"accept", "accepting", "close"}
    BY <2>1 DEF RowsInv, TypeOK
  <2>3. req[s].inv \in Invitations
    BY <2>2, PendingRequestFields
  <2>4. inv[req[s].inv] # Absent
    BY <2>2 DEF RowsInv, AimedAtRows
  <2> QED
    BY <2>1, <2>3, <2>4 DEF RowsPersist
<1> QED
  BY <1>1, <1>2

\* A request that only remembers something.
LEMMA RememberingKeepsRows ==
    ASSUME RowsInv, NEW r \in Requests, NEW w \in PendingRequests,
           Remember(r, w), UNCHANGED rows,
           w.op \in {"accept", "accepting", "close"} => inv[w.inv] # Absent
    PROVE  RowsInv'
<1>0. TypeOK /\ req \in [Requests -> PendingRequests]
  BY DEF RowsInv, TypeOK
<1>1. /\ req' \in [Requests -> PendingRequests]
      /\ req'[r] = w /\ \A s \in Requests : s # r => req'[s] = req[s]
  BY <1>0, RememberFacts
<1>2. TypeOK'
  BY <1>1 DEF RowsInv, TypeOK, rows
<1>3. RowsPersist
  BY DEF RowsPersist, rows
<1>4. AimedAtRows'
  <2>1. req'[r].op \in {"accept", "accepting", "close"} => inv'[req'[r].inv] # Absent
    BY <1>1 DEF rows
  <2> QED
    BY <1>1, <1>3, <2>1, AimsPersist
<1>5. OnePendingPerEmail'
  BY OldPendingStayApart DEF RowsInv, rows
<1> QED
  BY <1>2, <1>4, <1>5 DEF RowsInv

\* A request that gives up.
LEMMA FinishingKeepsRows ==
    ASSUME RowsInv, NEW r \in Requests, Finish(r), UNCHANGED rows
    PROVE  RowsInv'
BY RememberingKeepsRows, IdleIsPendingRequest DEF Finish

\* A request that ends by writing rows.
LEMMA WritingKeepsRows ==
    ASSUME RowsInv, NEW r \in Requests, Finish(r),
           registered' \subseteq People, members' \subseteq registered',
           inv' \in [Invitations -> {Absent} \cup InvRows],
           overdue' \subseteq Invitations,
           sub' \in [active : BOOLEAN, limit : Nat],
           RowsPersist, OnePendingPerEmail'
    PROVE  RowsInv'
<1>0. req \in [Requests -> PendingRequests]
  BY DEF RowsInv, TypeOK
<1>1. /\ req' \in [Requests -> PendingRequests]
      /\ req'[r].op = "idle" /\ \A s \in Requests : s # r => req'[s] = req[s]
  BY <1>0, FinishFacts
<1>2. TypeOK'
  BY <1>1 DEF TypeOK, InvRows
<1>3. AimedAtRows'
  BY <1>1, AimsPersist
<1> QED
  BY <1>2, <1>3 DEF RowsInv

LEMMA CreateInvitationKeepsRows ==
    ASSUME RowsInv, NEW r \in Requests, NEW i \in Invitations, CreateInvitation(r, i)
    PROVE  RowsInv'
<1>0. /\ TypeOK /\ OnePendingPerEmail
      /\ inv \in [Invitations -> {Absent} \cup InvRows]
      /\ req[r] \in PendingRequests
  BY DEF RowsInv, TypeOK, InvRows
<1>1. PICK e : e = req[r].email
  OBVIOUS
<1>2. e \in People
  BY <1>0, <1>1, PendingRequestFields DEF CreateInvitation
<1>3. CASE inv' = inv
  <2>1. RowsPersist /\ OnePendingPerEmail'
    BY <1>0, <1>3, OldPendingStayApart DEF RowsPersist
  <2> QED
    BY <1>0, <1>3, <2>1, WritingKeepsRows DEF CreateInvitation, TypeOK
<1>4. CASE ~PendingFor(e) /\ inv' = [inv EXCEPT ![i] = [status |-> "pending", email |-> e]]
  <2>1. PICK row : row = [status |-> "pending", email |-> e]
    OBVIOUS
  <2>2. row \in InvRows /\ row.status = "pending" /\ row.email = e /\ row # Absent
    BY <1>2, <2>1 DEF InvRows, Absent
  <2>3. inv' = [inv EXCEPT ![i] = row]
    BY <1>4, <2>1
  <2>4. /\ inv' \in [Invitations -> {Absent} \cup InvRows]
        /\ inv'[i] = row
        /\ \A j \in Invitations : j # i => inv'[j] = inv[j]
    BY <1>0, <2>2, <2>3
  <2>5. RowsPersist
    BY <2>2, <2>4 DEF RowsPersist
  <2>6. \A j \in Invitations : inv[j].status = "pending" => inv[j].email # e
    BY <1>4 DEF PendingFor, Pending
  <2>7. OnePendingPerEmail'
    <3> SUFFICES ASSUME NEW j \in Invitations, NEW k \in Invitations,
                        inv'[j].status = "pending", inv'[k].status = "pending",
                        inv'[j].email = inv'[k].email
                 PROVE  j = k
      BY DEF OnePendingPerEmail, Pending
    <3>1. CASE j = i
      BY <2>2, <2>4, <2>6, <3>1
    <3>2. CASE k = i
      BY <2>2, <2>4, <2>6, <3>2
    <3>3. CASE j # i /\ k # i
      BY <1>0, <2>4, <3>3 DEF OnePendingPerEmail, Pending
    <3> QED
      BY <3>1, <3>2, <3>3
  <2> QED
    BY <1>0, <2>4, <2>5, <2>7, WritingKeepsRows DEF CreateInvitation, TypeOK
<1> QED
  BY <1>1, <1>3, <1>4 DEF CreateInvitation

\* What an accept writes: at most the one account and membership.
LEMMA AcceptFacts ==
    ASSUME RowsInv, NEW r \in Requests, AcceptInvitation(r)
    PROVE  /\ req[r].op = "accepting" /\ Finish(r)
           /\ overdue' = overdue /\ sub' = sub
           /\ inv' \in [Invitations -> {Absent} \cup InvRows]
           /\ RowsPersist
           /\ \A j \in Invitations : inv'[j].status = "pending" => inv'[j] = inv[j]
           /\ registered' \subseteq People
           /\ \E e : \/ registered' = registered /\ members' = members
                     \/ registered' = registered \cup {e} /\ members' = members \cup {e}
<1>1. req[r].op = "accepting" /\ Finish(r) /\ overdue' = overdue /\ sub' = sub
  BY DEF AcceptInvitation
<1>2. TypeOK /\ req[r] \in PendingRequests
  BY DEF RowsInv, TypeOK
<1>3. PICK i : i = req[r].inv
  OBVIOUS
<1>4. i \in Invitations
  BY <1>1, <1>2, <1>3, PendingRequestFields
<1>5. inv[i] # Absent
  BY <1>1, <1>3 DEF RowsInv, AimedAtRows
<1>6. inv[i].email \in People
  BY <1>2, <1>4, <1>5, RowsAreReal
<1>7. CASE UNCHANGED <<registered, members, inv>>
  BY <1>1, <1>2, <1>7 DEF TypeOK, InvRows, RowsPersist
<1>8. CASE /\ registered' = registered \cup {inv[i].email}
           /\ members' = members \cup {inv[i].email}
           /\ inv' = [inv EXCEPT ![i].status = "accepted"]
  <2>1. /\ inv' \in [Invitations -> {Absent} \cup InvRows]
        /\ RowsPersist
        /\ \A j \in Invitations : inv'[j].status = "pending" => inv'[j] = inv[j]
    BY <1>2, <1>4, <1>5, <1>8, StatusWrite
  <2>2. registered' \subseteq People
    BY <1>2, <1>6, <1>8 DEF TypeOK
  <2> QED
    BY <1>1, <1>8, <2>1, <2>2
<1> QED
  BY <1>3, <1>7, <1>8 DEF AcceptInvitation

LEMMA AcceptKeepsRows ==
    ASSUME RowsInv, NEW r \in Requests, AcceptInvitation(r)
    PROVE  RowsInv'
<1>1. TypeOK /\ OnePendingPerEmail
  BY DEF RowsInv
<1>2. OnePendingPerEmail'
  BY <1>1, AcceptFacts, OldPendingStayApart
<1>3. members' \subseteq registered'
  BY <1>1, AcceptFacts DEF TypeOK
<1>4. overdue' \subseteq Invitations /\ sub' \in [active : BOOLEAN, limit : Nat]
  BY <1>1, AcceptFacts DEF TypeOK
<1> QED
  BY <1>2, <1>3, <1>4, AcceptFacts, WritingKeepsRows

LEMMA CloseKeepsRows ==
    ASSUME RowsInv, NEW r \in Requests, CloseInvitation(r)
    PROVE  RowsInv'
<1>1. TypeOK /\ OnePendingPerEmail /\ req[r] \in PendingRequests /\ req[r].op = "close"
  BY DEF RowsInv, TypeOK, CloseInvitation
<1>2. PICK i, to : i = req[r].inv /\ to = req[r].to
  OBVIOUS
<1>3. i \in Invitations /\ to \in Closed
  BY <1>1, <1>2, PendingRequestFields
<1>4. inv[i] # Absent
  BY <1>1, <1>2 DEF RowsInv, AimedAtRows
<1>5. inv' = [inv EXCEPT ![i].status = to]
  BY <1>2 DEF CloseInvitation
<1>6. /\ inv' \in [Invitations -> {Absent} \cup InvRows]
      /\ RowsPersist
      /\ \A j \in Invitations : inv'[j].status = "pending" => inv'[j] = inv[j]
  BY <1>1, <1>3, <1>4, <1>5, StatusWrite
<1>7. OnePendingPerEmail'
  BY <1>1, <1>6, OldPendingStayApart
<1> QED
  BY <1>1, <1>6, <1>7, WritingKeepsRows DEF CloseInvitation, TypeOK

\* What the checks and counts of a request remember; they write no row.
Looking(r) ==
    \/ \E e \in People : CheckInvite(r, e)
    \/ CountForInvite(r)
    \/ \E i \in Invitations :
        \/ CheckAccept(r, i)
        \/ \E to \in Closed : CheckClose(r, i, to)
    \/ CountForAccept(r)
    \/ \E n \in SeatRequests : CheckReseat(r, n)

\* A look remembers a request that aims at a row, if at any; it goes on to
\* fill a seat only from a count that found one.
LEMMA LookingFacts ==
    ASSUME RowsInv, NEW r \in Requests, Looking(r)
    PROVE  /\ UNCHANGED rows
           /\ \E w \in PendingRequests :
                /\ Remember(r, w)
                /\ w.op \in {"accept", "accepting", "close"} => inv[w.inv] # Absent
                /\ w.op = "inviting" =>
                     SeatsAvailable(Cardinality(members) + Cardinality(Pending) + 1, w.locked)
                /\ w.op = "accepting" => SeatsAvailable(Cardinality(members) + 1, w.locked)
<1>0. TypeOK /\ req[r] \in PendingRequests
  BY DEF RowsInv, TypeOK
<1>1. ASSUME NEW e \in People, CheckInvite(r, e)
      PROVE  /\ UNCHANGED rows
             /\ \E w \in PendingRequests : Remember(r, w) /\ w.op = "invite"
  <2>1. PICK w : w = [op |-> "invite", email |-> e]
    OBVIOUS
  <2>2. w \in PendingRequests /\ w.op = "invite"
    BY <2>1 DEF PendingRequests
  <2> QED
    BY <1>1, <2>1, <2>2 DEF CheckInvite
<1>2. ASSUME NEW i \in Invitations, CheckAccept(r, i)
      PROVE  /\ UNCHANGED rows
             /\ \E w \in PendingRequests :
                   Remember(r, w) /\ w.op = "accept" /\ inv[w.inv] # Absent
  <2>1. PICK w : w = [op |-> "accept", inv |-> i]
    OBVIOUS
  <2>2. w \in PendingRequests /\ w.op = "accept" /\ w.inv = i
    BY <2>1 DEF PendingRequests
  <2>3. inv[i] # Absent
    BY <1>0, <1>2, RowsAreReal DEF CheckAccept, Pending
  <2> QED
    BY <1>2, <2>1, <2>2, <2>3 DEF CheckAccept
<1>3. ASSUME NEW i \in Invitations, NEW to \in Closed, CheckClose(r, i, to)
      PROVE  /\ UNCHANGED rows
             /\ \E w \in PendingRequests :
                   Remember(r, w) /\ w.op = "close" /\ inv[w.inv] # Absent
  <2>1. PICK w : w = [op |-> "close", inv |-> i, to |-> to]
    OBVIOUS
  <2>2. w \in PendingRequests /\ w.op = "close" /\ w.inv = i
    BY <2>1 DEF PendingRequests
  <2>3. inv[i] # Absent
    BY <1>0, <1>3, RowsAreReal DEF CheckClose, Pending
  <2> QED
    BY <1>3, <2>1, <2>2, <2>3 DEF CheckClose
<1>4. ASSUME NEW n \in SeatRequests, CheckReseat(r, n)
      PROVE  /\ UNCHANGED rows
             /\ \E w \in PendingRequests : Remember(r, w) /\ w.op = "reseat"
  <2>1. PICK w : w = [op |-> "reseat", limit |-> n, changed |-> sub.limit # n]
    OBVIOUS
  <2>2. w \in PendingRequests /\ w.op = "reseat"
    BY <2>1 DEF PendingRequests
  <2> QED
    BY <1>4, <2>1, <2>2 DEF CheckReseat
<1>5. ASSUME Finish(r), UNCHANGED rows
      PROVE  /\ UNCHANGED rows
             /\ \E w \in PendingRequests : Remember(r, w) /\ w.op = "idle"
  BY <1>5, IdleIsPendingRequest DEF Finish
<1>6. ASSUME CountForInvite(r), NEW locked \in BOOLEAN,
             SeatsAvailable(Cardinality(members) + Cardinality(Pending) + 1, locked),
             Remember(r, [op |-> "inviting", email |-> req[r].email, locked |-> locked])
      PROVE  \E w \in PendingRequests :
                /\ Remember(r, w) /\ w.op = "inviting"
                /\ SeatsAvailable(Cardinality(members) + Cardinality(Pending) + 1, w.locked)
  <2>0. req[r].email \in People
    BY <1>0, <1>6, PendingRequestFields DEF CountForInvite
  <2>1. PICK w : w = [op |-> "inviting", email |-> req[r].email, locked |-> locked]
    OBVIOUS
  <2>2. w \in PendingRequests /\ w.op = "inviting" /\ w.locked = locked
    BY <2>0, <2>1 DEF PendingRequests
  <2> QED
    BY <1>6, <2>1, <2>2
<1>7. ASSUME CountForAccept(r), NEW locked \in BOOLEAN,
             SeatsAvailable(Cardinality(members) + 1, locked),
             Remember(r, [op |-> "accepting", inv |-> req[r].inv, locked |-> locked])
      PROVE  \E w \in PendingRequests :
                /\ Remember(r, w) /\ w.op = "accepting"
                /\ inv[w.inv] # Absent
                /\ SeatsAvailable(Cardinality(members) + 1, w.locked)
  <2>0. req[r].inv \in Invitations /\ inv[req[r].inv] # Absent
    BY <1>0, <1>7, PendingRequestFields DEF CountForAccept, RowsInv, AimedAtRows
  <2>1. PICK w : w = [op |-> "accepting", inv |-> req[r].inv, locked |-> locked]
    OBVIOUS
  <2>2. w \in PendingRequests /\ w.op = "accepting" /\ w.locked = locked /\ w.inv = req[r].inv
    BY <2>0, <2>1 DEF PendingRequests
  <2> QED
    BY <1>7, <2>0, <2>1, <2>2
<1>8. CASE CountForInvite(r)
  BY <1>5, <1>6, <1>8 DEF CountForInvite
<1>9. CASE CountForAccept(r)
  BY <1>5, <1>7, <1>9 DEF CountForAccept
<1> QED
  BY <1>1, <1>2, <1>3, <1>4, <1>8, <1>9 DEF Looking

\* A handler's step looks or writes.
LEMMA HandlersSplit ==
    ASSUME NEW r \in Requests, Handlers(r)
    PROVE  \/ Looking(r)
           \/ \E i \in Invitations : CreateInvitation(r, i)
           \/ AcceptInvitation(r)
           \/ CloseInvitation(r)
           \/ UpdateSeatCount(r)
BY DEF Handlers, Looking

\* Writing the subscription row, by a seat change or as Stripe reports it.
LEMMA ReseatFacts ==
    ASSUME RowsInv, NEW r \in Requests, UpdateSeatCount(r)
    PROVE  /\ Finish(r) /\ UNCHANGED <<registered, members, inv, overdue>>
           /\ sub' \in [active : BOOLEAN, limit : Nat]
           /\ sub' = sub \/ (RowFree /\ sub'.active)
<1>1. req[r] \in PendingRequests /\ req[r].op = "reseat"
  BY DEF RowsInv, TypeOK, UpdateSeatCount
<1>2. PICK n : n = req[r].limit
  OBVIOUS
<1>3. n \in Nat
  BY <1>1, <1>2, PendingRequestFields, SeatAssumption
<1>4. sub' = sub \/ (RowFree /\ sub' = [active |-> TRUE, limit |-> n])
  BY <1>2 DEF UpdateSeatCount
<1>5. sub \in [active : BOOLEAN, limit : Nat]
  BY DEF RowsInv, TypeOK
<1>6. CASE sub' = sub
  BY <1>5, <1>6 DEF UpdateSeatCount
<1>7. CASE RowFree /\ sub' = [active |-> TRUE, limit |-> n]
  <2>1. sub' \in [active : BOOLEAN, limit : Nat] /\ sub'.active
    BY <1>3, <1>7
  <2> QED
    BY <1>7, <2>1 DEF UpdateSeatCount
<1> QED
  BY <1>4, <1>6, <1>7

\* Steps that change accounts, deadlines or the subscription only.
LEMMA SurroundingsKeepRows ==
    ASSUME RowsInv, req' = req, inv' = inv,
           registered' \subseteq People, members' \subseteq registered',
           overdue' \subseteq Invitations, sub' \in [active : BOOLEAN, limit : Nat]
    PROVE  RowsInv'
<1>1. TypeOK'
  BY DEF RowsInv, TypeOK
<1>2. AimedAtRows'
  BY DEF RowsInv, AimedAtRows
<1>3. OnePendingPerEmail'
  BY OldPendingStayApart DEF RowsInv
<1> QED
  BY <1>1, <1>2, <1>3 DEF RowsInv

LEMMA RowsInitially == Init => RowsInv
<1> SUFFICES ASSUME Init PROVE RowsInv
  OBVIOUS
<1>1. TypeOK
  BY SeatAssumption, IdleIsPendingRequest DEF Init, TypeOK
<1>2. AimedAtRows
  BY IdleIsPendingRequest DEF Init, AimedAtRows
<1>3. \A i \in Invitations : inv[i].status # "pending"
  BY DEF Init, Absent
<1>4. OnePendingPerEmail
  BY <1>3 DEF OnePendingPerEmail, Pending
<1> QED
  BY <1>1, <1>2, <1>4 DEF RowsInv

LEMMA RowsStep == RowsInv /\ [Next]_vars => RowsInv'
<1> SUFFICES ASSUME RowsInv, [Next]_vars PROVE RowsInv'
  OBVIOUS
<1>0. TypeOK
  BY DEF RowsInv
<1>1. CASE UNCHANGED vars
  BY <1>0, <1>1, SurroundingsKeepRows DEF vars, TypeOK
<1>2. ASSUME NEW r \in Requests, Handlers(r) PROVE RowsInv'
  <2>1. CASE Looking(r)
    BY <2>1, LookingFacts, RememberingKeepsRows
  <2>2. CASE \E i \in Invitations : CreateInvitation(r, i)
    BY <2>2, CreateInvitationKeepsRows
  <2>3. CASE AcceptInvitation(r) \/ CloseInvitation(r)
    BY <2>3, AcceptKeepsRows, CloseKeepsRows
  <2>4. CASE UpdateSeatCount(r)
    <3>1. /\ Finish(r) /\ inv' = inv /\ registered' = registered
          /\ members' = members /\ overdue' = overdue
          /\ sub' \in [active : BOOLEAN, limit : Nat]
      BY <2>4, ReseatFacts
    <3>2. RowsPersist /\ OnePendingPerEmail'
      BY <3>1, OldPendingStayApart DEF RowsInv, RowsPersist
    <3> QED
      BY <1>0, <3>1, <3>2, WritingKeepsRows DEF TypeOK, InvRows
  <2> QED
    BY <1>2, <2>1, <2>2, <2>3, <2>4, HandlersSplit
<1>3. ASSUME NEW i \in Invitations, Lapse(i) PROVE RowsInv'
  BY <1>0, <1>3, SurroundingsKeepRows DEF Lapse, TypeOK
<1>4. ASSUME NEW e \in People, Register(e) \/ RemoveMember(e) PROVE RowsInv'
  BY <1>0, <1>4, SurroundingsKeepRows DEF Register, RemoveMember, TypeOK
<1>5. ASSUME NEW state \in Reports, SyncSubscription(state) PROVE RowsInv'
  BY <1>0, <1>5, SurroundingsKeepRows, SeatAssumption DEF SyncSubscription, TypeOK
<1> QED
  BY <1>1, <1>2, <1>3, <1>4, <1>5 DEF Next

LEMMA RowsInvariant == Spec => []RowsInv
BY RowsInitially, RowsStep, PTL DEF Spec

\* Rows and requests keep their types: accepting, closing and the late writes
\* of either always find the row they read.
THEOREM SeatTypeCorrect == Spec => []TypeOK
<1>1. RowsInv => TypeOK
  BY DEF RowsInv
<1> QED
  BY <1>1, RowsInvariant, PTL

\* Two requests for one email can both pass the check, but never both insert:
\* at most one invitation per email is pending, also when an active
\* subscription comes and goes and no lock is held.
THEOREM OnePendingPerEmailCorrect == Spec => []OnePendingPerEmail
<1>1. RowsInv => OnePendingPerEmail
  BY DEF RowsInv
<1> QED
  BY <1>1, RowsInvariant, PTL

----------------------------------------------------------------------------
(* The lock.                                                               *)

\* Every state Stripe reports is an active one: the limit may move, but the
\* subscription neither lapses nor ends while the org fills its seats.
StaysActive == \A state \in Reports : state.active

\* r has counted and is about to fill a seat.
Filling(r) == req[r].op \in {"inviting", "accepting"}

\* Whoever fills a seat holds the row, so at most one does ...
FillersLock == \A r \in Requests : Filling(r) => req[r].locked
OneFiller == \A r, s \in Requests : Filling(r) /\ Filling(s) => r = s

\* ... and the count an accept was let through on is still good.
CountHolds ==
    \A r \in Requests : req[r].op = "accepting" => Cardinality(members) + 1 <= sub.limit

SeatInv ==
    /\ RowsInv
    /\ sub.active
    /\ FillersLock
    /\ OneFiller
    /\ CountHolds

\* The members are finitely many, and fewer of them count for less.
LEMMA MembersAreFinite ==
    ASSUME RowsInv
    PROVE  IsFiniteSet(members) /\ Cardinality(members) \in Nat
<1>1. members \subseteq People
  BY DEF RowsInv, TypeOK
<1>2. IsFiniteSet(members)
  BY <1>1, SeatAssumption, FS_Subset
<1> QED
  BY <1>2, FS_CardinalityType

\* A free row means that no one is filling a seat.
LEMMA FreeRowMeansNoFiller ==
    ASSUME SeatInv, RowFree
    PROVE  \A r \in Requests : ~Filling(r)
BY DEF SeatInv, FillersLock, RowFree, Locks, Filling

\* Steps that start no seat and leave the count no worse: each request stays
\* or stops filling, the members do not grow and the limit does not move.
LEMMA NothingFilled ==
    ASSUME SeatInv, RowsInv', sub' = sub,
           members' \subseteq members,
           \A r \in Requests : req'[r] = req[r] \/ ~Filling(r)'
    PROVE  SeatInv'
<1>1. \A r \in Requests : Filling(r)' => req'[r] = req[r] /\ Filling(r)
  BY DEF Filling
<1>2. FillersLock'
  BY <1>1 DEF SeatInv, FillersLock
<1>3. OneFiller'
  BY <1>1 DEF SeatInv, OneFiller
<1>4. IsFiniteSet(members) /\ Cardinality(members) \in Nat
  BY MembersAreFinite DEF SeatInv
<1>5. Cardinality(members') <= Cardinality(members) /\ Cardinality(members') \in Nat
  BY <1>4, FS_Subset, FS_CardinalityType
<1>6. sub.limit \in Nat
  BY DEF SeatInv, RowsInv, TypeOK
<1>7. CountHolds'
  <2> SUFFICES ASSUME NEW r \in Requests, req'[r].op = "accepting"
               PROVE  Cardinality(members') + 1 <= sub.limit
    BY DEF CountHolds
  <2>1. req[r].op = "accepting"
    BY <1>1 DEF Filling
  <2>2. Cardinality(members) + 1 <= sub.limit
    BY <2>1 DEF SeatInv, CountHolds
  <2> QED
    BY <1>4, <1>5, <1>6, <2>2
<1> QED
  BY <1>2, <1>3, <1>7 DEF SeatInv

\* With nobody filling a seat afterwards, any active subscription will do.
LEMMA NobodyFills ==
    ASSUME RowsInv', sub'.active, \A r \in Requests : ~Filling(r)'
    PROVE  SeatInv'
BY DEF SeatInv, FillersLock, OneFiller, CountHolds, Filling

\* A look that starts to fill a seat found the row free and the seat left.
LEMMA LookingKeepsSeats ==
    ASSUME SeatInv, NEW r \in Requests, Looking(r)
    PROVE  SeatInv'
<1>0. RowsInv /\ req \in [Requests -> PendingRequests]
  BY DEF SeatInv, RowsInv, TypeOK
<1>1. PICK w \in PendingRequests :
        /\ Remember(r, w)
        /\ w.op \in {"accept", "accepting", "close"} => inv[w.inv] # Absent
        /\ w.op = "inviting" =>
             SeatsAvailable(Cardinality(members) + Cardinality(Pending) + 1, w.locked)
        /\ w.op = "accepting" => SeatsAvailable(Cardinality(members) + 1, w.locked)
  BY <1>0, LookingFacts
<1>2. UNCHANGED rows
  BY <1>0, LookingFacts
<1>3. RowsInv'
  BY <1>0, <1>1, <1>2, RememberingKeepsRows
<1>4. req'[r] = w /\ \A s \in Requests : s # r => req'[s] = req[s]
  BY <1>0, <1>1, RememberFacts
<1>5. sub' = sub /\ members' = members /\ sub.active
  BY <1>2 DEF rows, SeatInv
<1>6. CASE w.op \notin {"inviting", "accepting"}
  <2>1. \A s \in Requests : req'[s] = req[s] \/ ~Filling(s)'
    BY <1>4, <1>6 DEF Filling
  <2> QED
    BY <1>3, <1>5, <2>1, NothingFilled
<1>7. CASE w.op \in {"inviting", "accepting"}
  <2>1. RowFree /\ w.locked
    BY <1>1, <1>5, <1>7 DEF SeatsAvailable
  <2>2. \A s \in Requests : ~Filling(s)
    BY <2>1, FreeRowMeansNoFiller
  <2>3. \A s \in Requests : s # r => ~Filling(s)'
    BY <1>4, <2>2 DEF Filling
  <2>4. FillersLock'
    BY <1>4, <2>1, <2>3 DEF FillersLock
  <2>5. OneFiller'
    BY <2>3 DEF OneFiller
  <2>6. w.op = "accepting" => Cardinality(members) + 1 <= sub.limit
    BY <1>1, <1>5 DEF SeatsAvailable
  <2>7. CountHolds'
    BY <1>4, <1>5, <2>3, <2>6 DEF CountHolds, Filling
  <2> QED
    BY <1>3, <1>5, <2>4, <2>5, <2>7 DEF SeatInv
<1> QED
  BY <1>6, <1>7

\* A request that ends fills no seat any more.
LEMMA FinishStopsFilling ==
    ASSUME SeatInv, NEW r \in Requests, Finish(r)
    PROVE  \A s \in Requests : req'[s] = req[s] \/ ~Filling(s)'
<1>1. req \in [Requests -> PendingRequests]
  BY DEF SeatInv, RowsInv, TypeOK
<1> QED
  BY <1>1, FinishFacts DEF Filling

\* An accept fits the seats and leaves nobody filling one.
LEMMA AcceptFillsOneSeat ==
    ASSUME SeatInv, NEW r \in Requests, AcceptInvitation(r)
    PROVE  Cardinality(members') <= sub.limit /\ SeatInv'
<1>0. RowsInv /\ req \in [Requests -> PendingRequests]
  BY DEF SeatInv, RowsInv, TypeOK
<1>1. req[r].op = "accepting" /\ Finish(r) /\ sub' = sub
  BY <1>0, AcceptFacts
<1>2. PICK e : members' = members \/ members' = members \cup {e}
  BY <1>0, AcceptFacts
<1>3. IsFiniteSet(members) /\ Cardinality(members) \in Nat
  BY <1>0, MembersAreFinite
<1>4. Cardinality(members') \in Nat /\ Cardinality(members') <= Cardinality(members) + 1
  <2>1. CASE members' = members
    BY <1>3, <2>1
  <2>2. CASE members' = members \cup {e}
    <3>1. Cardinality(members \cup {e}) =
            IF e \in members THEN Cardinality(members) ELSE Cardinality(members) + 1
      BY <1>3, FS_AddElement
    <3> QED
      BY <1>3, <2>2, <3>1
  <2> QED
    BY <1>2, <2>1, <2>2
<1>5. Cardinality(members) + 1 <= sub.limit /\ sub.limit \in Nat
  BY <1>1 DEF SeatInv, CountHolds, RowsInv, TypeOK
<1>6. Cardinality(members') <= sub.limit
  BY <1>3, <1>4, <1>5
<1>7. \A s \in Requests : ~Filling(s)'
  <2>1. req'[r].op = "idle" /\ \A s \in Requests : s # r => req'[s] = req[s]
    BY <1>0, <1>1, FinishFacts
  <2>2. \A s \in Requests : s # r => ~Filling(s)
    BY <1>1 DEF SeatInv, OneFiller, Filling
  <2> QED
    BY <2>1, <2>2 DEF Filling
<1>8. RowsInv'
  BY <1>0, AcceptKeepsRows
<1>9. sub'.active
  BY <1>1 DEF SeatInv
<1> QED
  BY <1>6, <1>7, <1>8, <1>9, NobodyFills

LEMMA SeatsInitially == Init => SeatInv
<1> SUFFICES ASSUME Init PROVE SeatInv
  OBVIOUS
<1>1. RowsInv
  BY RowsInitially
<1>2. sub.active
  BY DEF Init
<1>3. \A r \in Requests : req[r].op = "idle"
  BY IdleIsPendingRequest DEF Init
<1> QED
  BY <1>1, <1>2, <1>3 DEF SeatInv, FillersLock, OneFiller, CountHolds, Filling

\* Every step keeps the lock's promise, and only an accept brings members in.
LEMMA SeatsStep ==
    ASSUME StaysActive, SeatInv, [Next]_vars
    PROVE  /\ SeatInv'
           /\ ~(members' \subseteq members) => Cardinality(members') <= sub.limit
<1>0. RowsInv /\ RowsInv'
  BY RowsStep DEF SeatInv
<1>1. CASE UNCHANGED vars
  BY <1>0, <1>1, NothingFilled DEF vars
<1>2. ASSUME NEW r \in Requests, Handlers(r)
      PROVE  /\ SeatInv'
             /\ ~(members' \subseteq members) => Cardinality(members') <= sub.limit
  <2>1. CASE Looking(r)
    <3>1. members' = members
      BY <1>0, <2>1, LookingFacts DEF rows
    <3> QED
      BY <2>1, <3>1, LookingKeepsSeats
  <2>2. CASE AcceptInvitation(r)
    BY <2>2, AcceptFillsOneSeat
  <2>3. CASE CloseInvitation(r) \/ \E i \in Invitations : CreateInvitation(r, i)
    <3>1. Finish(r) /\ sub' = sub /\ members' = members
      BY <2>3 DEF CloseInvitation, CreateInvitation
    <3>2. \A s \in Requests : req'[s] = req[s] \/ ~Filling(s)'
      BY <3>1, FinishStopsFilling
    <3> QED
      BY <1>0, <3>1, <3>2, NothingFilled
  <2>4. CASE UpdateSeatCount(r)
    <3>1. Finish(r) /\ members' = members /\ (sub' = sub \/ (RowFree /\ sub'.active))
      BY <1>0, <2>4, ReseatFacts
    <3>2. \A s \in Requests : req'[s] = req[s] \/ ~Filling(s)'
      BY <3>1, FinishStopsFilling
    <3>3. CASE sub' = sub
      BY <1>0, <3>1, <3>2, <3>3, NothingFilled
    <3>4. CASE RowFree /\ sub'.active
      <4>1. \A s \in Requests : ~Filling(s)
        BY <3>4, FreeRowMeansNoFiller
      <4>2. \A s \in Requests : ~Filling(s)'
        BY <3>2, <4>1 DEF Filling
      <4> QED
        BY <1>0, <3>1, <3>4, <4>2, NobodyFills
    <3> QED
      BY <3>1, <3>3, <3>4
  <2> QED
    BY <1>2, <2>1, <2>2, <2>3, <2>4, HandlersSplit
<1>3. ASSUME NEW i \in Invitations, Lapse(i)
      PROVE  SeatInv' /\ members' = members
  BY <1>0, <1>3, NothingFilled DEF Lapse
<1>4. ASSUME NEW e \in People, Register(e) \/ RemoveMember(e)
      PROVE  SeatInv' /\ members' \subseteq members
  <2>1. members' \subseteq members /\ sub' = sub /\ req' = req
    BY <1>4 DEF Register, RemoveMember
  <2> QED
    BY <1>0, <2>1, NothingFilled
<1>5. ASSUME NEW state \in Reports, SyncSubscription(state)
      PROVE  SeatInv' /\ members' = members
  <2>1. RowFree /\ sub' = state /\ members' = members /\ req' = req
    BY <1>5 DEF SyncSubscription
  <2>2. sub'.active
    BY <2>1 DEF StaysActive
  <2>3. \A s \in Requests : ~Filling(s)'
    BY <2>1, FreeRowMeansNoFiller DEF Filling
  <2> QED
    BY <1>0, <2>1, <2>2, <2>3, NobodyFills
<1>6. CASE Next
  BY <1>2, <1>3, <1>4, <1>5, <1>6 DEF Next
<1> QED
  BY <1>1, <1>6 DEF vars

\* As long as the subscription stays active, nobody joins a full org, however
\* many accepts, invites, removals and seat changes run at once: the count is
\* made under the row lock and every writer of the limit waits for it.
THEOREM JoinsFitSeatsCorrect ==
    ASSUME StaysActive
    PROVE  Spec => JoinsFitSeats
<1>1. SeatInv /\ [Next]_vars => SeatInv'
  BY SeatsStep
<1>2. SeatInv /\ [Next]_vars =>
         [~(members' \subseteq members) => Cardinality(members') <= sub.limit]_vars
  BY SeatsStep
<1> QED
  BY <1>1, <1>2, SeatsInitially, PTL DEF Spec, JoinsFitSeats
=============================================================================
