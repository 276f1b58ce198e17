-------------------------- MODULE StorefrontProofs ---------------------------
(***************************************************************************)
(* Theorems about Storefront and the Catalogue under it, for any owners,   *)
(* markets, releases, quotes, parties, requests and bounds.                *)
(***************************************************************************)
EXTENDS Storefront, CatalogueProofs, FiniteSetTheorems

Phases == {"idle", "customer", "create", "save", "session", "open", "paid", "mirrored",
           "granted", "rejected", "refused", "done"}
Kinds == {"none", "personal", "team", "credits", "portal"}

\* Customers are numbered in the order in which Stripe creates them.
SalesType ==
    /\ customers \in Nat
    /\ customer \in [Parties -> Nat] /\ \A p \in Parties : customer[p] <= customers
    /\ DOMAIN req = Requests
    /\ \A r \in Requests :
           /\ req[r] \in [at : Phases, kind : Kinds, party : Parties \cup {NoOrg},
                          price : Nat, customer : Nat]
           /\ req[r].customer <= customers
           /\ req[r].at \notin {"idle"} => req[r].party \in Parties
           /\ req[r].kind = "team" => req[r].at \notin {"customer", "save"}

\* The only request of its party that is about to give it a customer.
Alone(r) == /\ customer[req[r].party] = 0
            /\ \A q \in Creating(req[r].party) : q = r

\* What the requests of a party whose requests did not overlap know of it.
Sole ==
    \A r \in Requests :
        req[r].kind # "team" /\ req[r].party \notin overlapped =>
            /\ req[r].at \in {"create", "save"} => Alone(r)
            /\ req[r].at = "save" => req[r].customer # 0
            /\ req[r].at \in {"session", "open", "paid"} =>
                   customer[req[r].party] = req[r].customer /\ req[r].customer # 0

----------------------------------------------------------------------------
RequestType == [at : Phases, kind : Kinds, party : Parties \cup {NoOrg}, price : Nat,
                customer : Nat]

\* A new state of one request, and how the invariants about requests follow.
LEMMA RequestUpdate ==
    ASSUME SalesType, NEW r \in Requests, NEW x \in RequestType, req' = [req EXCEPT ![r] = x],
           customers' \in Nat, customers <= customers',
           customer' \in [Parties -> Nat], \A p \in Parties : customer'[p] <= customers',
           x.customer <= customers', x.at # "idle" => x.party \in Parties,
           x.kind = "team" => x.at \notin {"customer", "save"}
    PROVE  SalesType' /\ req'[r] = x /\ \A q \in Requests \ {r} : req'[q] = req[q]
PROOF
<1>1. req'[r] = x /\ \A q \in Requests \ {r} : req'[q] = req[q]
  BY DEF SalesType
<1> QED
  BY <1>1 DEF SalesType, RequestType

\* Where a request goes when nothing but its phase changes.
LEMMA GotoType ==
    ASSUME SalesType, NEW r \in Requests, NEW at \in Phases \ {"idle", "customer", "save"},
           Goto(r, at), req[r].at # "idle",
           customers' = customers, customer' \in [Parties -> Nat],
           \A p \in Parties : customer'[p] <= customers
    PROVE  /\ SalesType' /\ \A q \in Requests \ {r} : req'[q] = req[q]
           /\ req'[r].at = at /\ req'[r].kind = req[r].kind /\ req'[r].party = req[r].party
           /\ req'[r].customer = req[r].customer
PROOF
<1> DEFINE x == [req[r] EXCEPT !.at = at]
<1>1. req[r] \in RequestType /\ req[r].customer <= customers /\ req[r].party \in Parties
  BY DEF SalesType, RequestType
<1>2. req' = [req EXCEPT ![r] = x]
  BY DEF Goto
<1>3. /\ x \in RequestType /\ x.at = at /\ x.kind = req[r].kind /\ x.party = req[r].party
      /\ x.customer = req[r].customer
  BY <1>1 DEF RequestType
<1> HIDE DEF x
<1>4. customers \in Nat /\ customers' \in Nat /\ customers <= customers'
  BY DEF SalesType
<1>5. SalesType' /\ req'[r] = x /\ \A q \in Requests \ {r} : req'[q] = req[q]
  BY <1>1, <1>2, <1>3, <1>4, RequestUpdate
<1> QED
  BY <1>3, <1>5

SalesInv == SalesType /\ TeamsGetTheirOwnCustomer /\ Sole

\* A request that only moves on to its session, or further, or is given up.
LEMMA GotoStep ==
    ASSUME SalesInv, NEW r \in Requests,
           NEW at \in Phases \ {"idle", "customer", "create", "save", "session"},
           Goto(r, at), req[r].at # "idle", UNCHANGED <<customer, customers, overlapped>>,
           at \in {"open", "paid"} => req[r].at \in {"session", "open"}
    PROVE  SalesInv'
PROOF
<1>1. customer' \in [Parties -> Nat] /\ \A p \in Parties : customer'[p] <= customers
  BY DEF SalesInv, SalesType
<1>2. /\ SalesType' /\ \A q \in Requests \ {r} : req'[q] = req[q]
      /\ req'[r].at = at /\ req'[r].kind = req[r].kind /\ req'[r].party = req[r].party
      /\ req'[r].customer = req[r].customer
  BY <1>1, GotoType DEF SalesInv
<1>3. TeamsGetTheirOwnCustomer'
  <2>1. \A q \in Requests : req'[q].kind = req[q].kind /\ req'[q].customer = req[q].customer
    BY <1>2
  <2> QED
    BY <2>1 DEF SalesInv, TeamsGetTheirOwnCustomer
<1>4. Sole'
  <2>1. \A p : Creating(p)' \subseteq Creating(p)
    BY <1>2 DEF Creating
  <2>2. ASSUME NEW q \in Requests, req'[q].kind # "team", req'[q].party \notin overlapped'
        PROVE  /\ req'[q].at \in {"create", "save"} => Alone(q)'
               /\ req'[q].at = "save" => req'[q].customer # 0
               /\ req'[q].at \in {"session", "open", "paid"} =>
                      customer'[req'[q].party] = req'[q].customer /\ req'[q].customer # 0
    BY <1>2, <2>1, <2>2 DEF SalesInv, Sole, Alone
  <2> QED
    BY <2>2 DEF Sole
<1> QED
  BY <1>2, <1>3, <1>4 DEF SalesInv

LEMMA SoldType ==
    ASSUME TypeInv, NEW o \in Owners, NEW visit \in Visits
    PROVE  Sold(o, visit) \in Slots /\ row[Sold(o, visit)].id \in Nat
PROOF
<1>1. USD \in Markets /\ BillingCurrencies \subseteq Markets
  BY CatalogueAssumption DEF Markets, BillingCurrencies
<1>2. visit[2] \in BillingCurrencies \cup {USD}
  BY DEF Visits, BillingCurrency
<1>3. <<o, USD>> \in Slots /\ <<o, visit[2]>> \in Slots
      /\ (visit[1] \in Countries => <<o, visit[1]>> \in Slots)
  BY <1>1, <1>2 DEF Slots, Markets
<1>4. Sold(o, visit) \in Slots
  BY <1>3 DEF Sold, NationalPrice
<1> QED
  BY <1>4 DEF TypeInv, RowType

\* A request starts without a customer and overlaps with none.
LEMMA StartStep ==
    ASSUME SalesInv, NEW r \in Requests, NEW x \in RequestType, req' = [req EXCEPT ![r] = x],
           UNCHANGED <<customer, customers, overlapped>>, req[r].at = "idle",
           x.customer = 0, x.party \in Parties,
           \/ x.at = "customer" /\ x.kind # "team"
           \/ x.at = "create" /\ x.kind = "team"
    PROVE  SalesInv'
PROOF
<1>1. /\ SalesType /\ customers' \in Nat /\ customers <= customers' /\ 0 <= customers'
      /\ customer' \in [Parties -> Nat] /\ \A p \in Parties : customer'[p] <= customers'
  BY DEF SalesInv, SalesType
<1>2. SalesType' /\ req'[r] = x /\ \A q \in Requests \ {r} : req'[q] = req[q]
  BY <1>1, RequestUpdate
<1>3. TeamsGetTheirOwnCustomer'
  BY <1>2 DEF SalesInv, TeamsGetTheirOwnCustomer
<1>4. Sole'
  <2>1. \A p : Creating(p)' \subseteq Creating(p)
    BY <1>2 DEF Creating
  <2>2. ASSUME NEW q \in Requests, req'[q].kind # "team", req'[q].party \notin overlapped'
        PROVE  /\ req'[q].at \in {"create", "save"} => Alone(q)'
               /\ req'[q].at = "save" => req'[q].customer # 0
               /\ req'[q].at \in {"session", "open", "paid"} =>
                      customer'[req'[q].party] = req'[q].customer /\ req'[q].customer # 0
    BY <1>2, <2>1, <2>2 DEF SalesInv, Sole, Alone
  <2> QED
    BY <2>2 DEF Sole
<1> QED
  BY <1>2, <1>3, <1>4 DEF SalesInv

LEMMA AskStep ==
    ASSUME TypeInv, SalesInv, NEW r \in Requests, Ask(r)
    PROVE  SalesInv'
PROOF
<1>1. req[r].at = "idle" /\ UNCHANGED <<customer, customers, overlapped>>
  BY DEF Ask
<1>2. PICK u \in Users :
          \/ \E o \in Owners, visit \in Visits :
                 \/ AskPersonal(r, u, o, visit) \/ AskTeam(r, u, o, visit)
                 \/ \E party \in Parties : AskCredits(r, u, o, party, visit)
          \/ \E party \in Parties : AskPortal(r, u, party)
  BY DEF Ask
<1>3. u \in Parties
  BY DEF Parties
<1>4. ASSUME NEW o \in Owners, NEW visit \in Visits, NEW at \in {"customer", "create"},
             NEW kind \in Kinds, NEW party \in Parties
      PROVE  LET x == Request(at, kind, party, o, visit)
             IN  /\ x \in RequestType /\ x.at = at /\ x.kind = kind /\ x.party = party
                 /\ x.customer = 0
  <2>1. row[Sold(o, visit)].id \in Nat
    BY SoldType
  <2> QED
    BY <2>1 DEF Request, RequestType, Phases
<1>5. ASSUME NEW o \in Owners, NEW visit \in Visits, AskPersonal(r, u, o, visit)
      PROVE  SalesInv'
  <2> DEFINE x == Request("customer", "personal", u, o, visit)
  <2>1. x \in RequestType /\ x.at = "customer" /\ x.kind = "personal" /\ x.party = u /\ x.customer = 0
    BY <1>3, <1>4 DEF Kinds
  <2>2. req' = [req EXCEPT ![r] = x]
    BY <1>5 DEF AskPersonal
  <2> HIDE DEF x
  <2> QED
    BY <1>1, <1>3, <2>1, <2>2, StartStep
<1>6. ASSUME NEW o \in Owners, NEW visit \in Visits, AskTeam(r, u, o, visit)
      PROVE  SalesInv'
  <2> DEFINE x == Request("create", "team", u, o, visit)
  <2>1. x \in RequestType /\ x.at = "create" /\ x.kind = "team" /\ x.party = u /\ x.customer = 0
    BY <1>3, <1>4 DEF Kinds
  <2>2. req' = [req EXCEPT ![r] = x]
    BY <1>6 DEF AskTeam
  <2> HIDE DEF x
  <2> QED
    BY <1>1, <1>3, <2>1, <2>2, StartStep
<1>7. ASSUME NEW o \in Owners, NEW visit \in Visits, NEW party \in Parties,
             AskCredits(r, u, o, party, visit)
      PROVE  SalesInv'
  <2> DEFINE x == Request("customer", "credits", party, o, visit)
  <2>1. /\ x \in RequestType /\ x.at = "customer" /\ x.kind = "credits" /\ x.party = party
        /\ x.customer = 0
    BY <1>4 DEF Kinds
  <2>2. req' = [req EXCEPT ![r] = x]
    BY <1>7 DEF AskCredits
  <2> HIDE DEF x
  <2> QED
    BY <1>1, <2>1, <2>2, StartStep
<1>8. ASSUME NEW party \in Parties, AskPortal(r, u, party)
      PROVE  SalesInv'
  <2> DEFINE x == [NoRequest EXCEPT !.at = "customer", !.kind = "portal", !.party = party]
  <2>1. NoRequest \in RequestType /\ NoRequest.customer = 0
    BY DEF NoRequest, RequestType, Phases, Kinds
  <2>2. /\ x \in RequestType /\ x.at = "customer" /\ x.kind = "portal" /\ x.party = party
        /\ x.customer = 0
    BY <2>1 DEF RequestType, Phases, Kinds
  <2>3. req' = [req EXCEPT ![r] = x]
    BY <1>8 DEF AskPortal
  <2> HIDE DEF x
  <2> QED
    BY <1>1, <2>2, <2>3, StartStep
<1> QED
  BY <1>2, <1>5, <1>6, <1>7, <1>8

LEMMA ReadStep ==
    ASSUME SalesInv, NEW r \in Requests, ReadCustomer(r)
    PROVE  SalesInv'
PROOF
<1>0. PICK p : p = req[r].party
  OBVIOUS
<1> DEFINE missing == customer[p] = 0
           at == IF ~missing THEN "session"
                 ELSE IF req[r].kind = "portal" /\ p \in Orgs THEN "refused" ELSE "create"
           x == [req[r] EXCEPT !.customer = customer[p], !.at = at]
<1>1. /\ req[r].at = "customer" /\ UNCHANGED <<customer, customers>>
      /\ req' = [req EXCEPT ![r].customer = customer[p], ![r].at = at]
      /\ overlapped' = IF missing /\ Creating(p) # {} THEN overlapped \cup {p} ELSE overlapped
  BY <1>0 DEF ReadCustomer
<1>2. req[r] \in RequestType /\ p \in Parties /\ req[r].kind # "team" /\ SalesType
      /\ DOMAIN req = Requests
  BY <1>0, <1>1 DEF SalesInv, SalesType, RequestType
<1>3. /\ customers' \in Nat /\ customers <= customers' /\ customer[p] \in Nat
      /\ customer[p] <= customers'
      /\ customer' \in [Parties -> Nat] /\ \A t \in Parties : customer'[t] <= customers'
  BY <1>1, <1>2 DEF SalesType
<1>4. at \in {"session", "refused", "create"} /\ (at = "session" <=> ~missing)
  OBVIOUS
<1> HIDE DEF at
<1>5. /\ x \in RequestType /\ x.at = at /\ x.customer = customer[p]
      /\ x.kind = req[r].kind /\ x.party = req[r].party
  BY <1>2, <1>3, <1>4 DEF RequestType, Phases
<1>6. req' = [req EXCEPT ![r] = x]
  BY <1>1
<1> HIDE DEF x, missing
<1>7. SalesType' /\ req'[r] = x /\ \A q \in Requests \ {r} : req'[q] = req[q]
  BY <1>2, <1>3, <1>4, <1>5, <1>6, RequestUpdate, <1>0
<1>8. TeamsGetTheirOwnCustomer'
  BY <1>1, <1>2, <1>5, <1>7 DEF SalesInv, TeamsGetTheirOwnCustomer
<1>9. Sole'
  <2>1. overlapped \subseteq overlapped'
    BY <1>1
  <2>2. /\ \A t : t # p \/ ~missing => Creating(t)' \subseteq Creating(t)
        /\ Creating(p)' \subseteq Creating(p) \cup {r}
    BY <1>0, <1>4, <1>5, <1>7 DEF Creating
  <2>3. ASSUME NEW q \in Requests, req'[q].kind # "team", req'[q].party \notin overlapped'
        PROVE  /\ req'[q].at \in {"create", "save"} => Alone(q)'
               /\ req'[q].at = "save" => req'[q].customer # 0
               /\ req'[q].at \in {"session", "open", "paid"} =>
                      customer'[req'[q].party] = req'[q].customer /\ req'[q].customer # 0
    <3>1. CASE q = r
      <4>1. p \notin overlapped' /\ req'[q].party = p
        BY <1>0, <1>5, <1>7, <2>3, <3>1
      <4>2. missing => Creating(p) = {}
        BY <1>1, <4>1
      <4>3. missing => Alone(q)'
        BY <1>1, <2>2, <3>1, <4>1, <4>2 DEF Alone, missing
      <4> QED
        BY <1>1, <1>4, <1>5, <1>7, <3>1, <4>1, <4>3 DEF missing
    <3>2. CASE q # r
      <4>1. req'[q] = req[q] /\ req[q].party \notin overlapped
        BY <1>7, <2>1, <2>3, <3>2
      <4>2. PICK t : t = req[q].party
        OBVIOUS
      <4>3. req[q].at \in {"create", "save"} => Creating(t)' \subseteq Creating(t)
        <5>1. CASE t # p
          BY <2>2, <5>1
        <5>2. CASE t = p /\ req[q].at \in {"create", "save"}
          <6>1. q \in Creating(p)
            BY <2>3, <4>1, <4>2, <5>2 DEF Creating
          <6>2. ~missing
            <7>1. p \notin overlapped' /\ Creating(p) # {}
              BY <2>3, <4>1, <4>2, <5>2, <6>1
            <7>2. overlapped' = IF missing /\ Creating(p) # {} THEN overlapped \cup {p}
                                ELSE overlapped
              BY <1>1
            <7> QED
              BY <7>1, <7>2 DEF missing
          <6> QED
            BY <2>2, <6>2 DEF missing
        <5> QED
          BY <5>1, <5>2
      <4> QED
        BY <1>1, <2>3, <4>1, <4>2, <4>3 DEF SalesInv, Sole, Alone
    <3> QED
      BY <3>1, <3>2
  <2> QED
    BY <2>3 DEF Sole
<1> QED
  BY <1>7, <1>8, <1>9 DEF SalesInv

LEMMA CreateStep ==
    ASSUME SalesInv, NEW r \in Requests, CreateCustomer(r)
    PROVE  SalesInv'
PROOF
<1>0. PICK n \in Nat \ {0} : customers \in Nat /\ n = customers + 1
  BY DEF SalesInv, SalesType
<1> DEFINE at == IF req[r].kind = "team" THEN "session" ELSE "save"
           x == [req[r] EXCEPT !.customer = n, !.at = at]
<1>1. /\ req[r].at = "create" /\ customers' = n
      /\ customer' = customer /\ overlapped' = overlapped
  BY <1>0 DEF CreateCustomer
<1>2. req[r] \in RequestType /\ req[r].party \in Parties /\ SalesType /\ DOMAIN req = Requests
      /\ customers \in Nat
  BY <1>1 DEF SalesInv, SalesType, RequestType
<1>3. /\ customers' \in Nat /\ customers <= customers' /\ n <= customers'
      /\ customer' \in [Parties -> Nat] /\ \A t \in Parties : customer'[t] <= customers'
      /\ \A t \in Parties : customer'[t] # n
  BY <1>0, <1>1, <1>2 DEF SalesType
<1>4. at \in {"session", "save"} /\ (at = "session" <=> req[r].kind = "team")
  OBVIOUS
<1> HIDE DEF at
<1>5. /\ x \in RequestType /\ x.at = at /\ x.customer = n
      /\ x.kind = req[r].kind /\ x.party = req[r].party
  BY <1>2, <1>3, <1>4 DEF RequestType, Phases
<1>6. req' = [req EXCEPT ![r] = x]
  BY <1>0 DEF CreateCustomer, at
<1> HIDE DEF x
<1>7. SalesType' /\ req'[r] = x /\ \A q \in Requests \ {r} : req'[q] = req[q]
  BY <1>2, <1>3, <1>4, <1>5, <1>6, RequestUpdate
<1>8. TeamsGetTheirOwnCustomer'
  <2>1. \A q \in Requests : req[q].customer # n
    BY <1>0, <1>2 DEF SalesType
  <2>2. req'[r].customer = n /\ req'[r].kind = req[r].kind
    BY <1>5, <1>7
  <2>3. ASSUME NEW q \in Requests, req'[q].kind = "team", req'[q].customer # 0
        PROVE  /\ \A p \in Parties : customer'[p] # req'[q].customer
               /\ \A o \in Requests \ {q} : req'[o].customer # req'[q].customer
    <3>1. CASE q = r
      BY <1>3, <1>7, <2>1, <2>2, <3>1
    <3>2. CASE q # r
      BY <1>1, <1>7, <2>1, <2>2, <2>3, <3>2 DEF SalesInv, TeamsGetTheirOwnCustomer
    <3> QED
      BY <3>1, <3>2
  <2> QED
    BY <2>3 DEF TeamsGetTheirOwnCustomer
<1>9. Sole'
  <2>1. \A t : Creating(t)' \subseteq Creating(t)
    BY <1>1, <1>4, <1>5, <1>7 DEF Creating
  <2>2. n # 0
    BY <1>0
  <2>3. ASSUME NEW q \in Requests, req'[q].kind # "team", req'[q].party \notin overlapped'
        PROVE  /\ req'[q].at \in {"create", "save"} => Alone(q)'
               /\ req'[q].at = "save" => req'[q].customer # 0
               /\ req'[q].at \in {"session", "open", "paid"} =>
                      customer'[req'[q].party] = req'[q].customer /\ req'[q].customer # 0
    <3>1. PICK t : t = req[q].party
      OBVIOUS
    <3>2. req'[q].party = t /\ req'[q].kind = req[q].kind
      BY <1>5, <1>7, <3>1
    <3>3. req[q].at \in {"create", "save"} => Alone(q)'
      BY <1>1, <2>1, <2>3, <3>1, <3>2 DEF SalesInv, Sole, Alone
    <3>4. CASE q = r
      BY <1>1, <1>4, <1>5, <1>7, <2>2, <2>3, <3>3, <3>4
    <3>5. CASE q # r
      BY <1>1, <1>7, <2>3, <3>3, <3>5 DEF SalesInv, Sole
    <3> QED
      BY <3>4, <3>5
  <2> QED
    BY <2>3 DEF Sole
<1> QED
  BY <1>7, <1>8, <1>9 DEF SalesInv

LEMMA SaveStep ==
    ASSUME SalesInv, NEW r \in Requests, SaveCustomer(r)
    PROVE  SalesInv'
PROOF
<1> DEFINE p == req[r].party
<1>1. /\ req[r].at = "save" /\ Goto(r, "session") /\ UNCHANGED <<customers, overlapped>>
      /\ customer' = [customer EXCEPT ![p] = req[r].customer]
  BY DEF SaveCustomer
<1>2. /\ p \in Parties /\ SalesType /\ req[r].kind # "team" /\ req[r].customer \in Nat
      /\ req[r].customer <= customers /\ customer \in [Parties -> Nat]
      /\ \A t \in Parties : customer[t] <= customers
  BY <1>1 DEF SalesInv, SalesType
<1> HIDE DEF p
<1>3. /\ customer' \in [Parties -> Nat] /\ customer'[p] = req[r].customer
      /\ \A t \in Parties : t # p => customer'[t] = customer[t]
  BY <1>1, <1>2
<1>4. \A t \in Parties : customer'[t] <= customers
  BY <1>2, <1>3
<1>5. /\ SalesType' /\ \A q \in Requests \ {r} : req'[q] = req[q]
      /\ req'[r].at = "session" /\ req'[r].kind = req[r].kind /\ req'[r].party = p
      /\ req'[r].customer = req[r].customer
  BY <1>1, <1>2, <1>3, <1>4, GotoType DEF Phases, p
<1>6. TeamsGetTheirOwnCustomer'
  <2>1. \A q \in Requests : req'[q].kind = req[q].kind /\ req'[q].customer = req[q].customer
    BY <1>5
  <2> QED
    BY <1>2, <1>3, <2>1 DEF SalesInv, TeamsGetTheirOwnCustomer
<1>7. Sole'
  <2>1. \A t : Creating(t)' \subseteq Creating(t) \ {r}
    BY <1>5 DEF Creating
  <2>2. ASSUME NEW q \in Requests, req'[q].kind # "team", req'[q].party \notin overlapped'
        PROVE  /\ req'[q].at \in {"create", "save"} => Alone(q)'
               /\ req'[q].at = "save" => req'[q].customer # 0
               /\ req'[q].at \in {"session", "open", "paid"} =>
                      customer'[req'[q].party] = req'[q].customer /\ req'[q].customer # 0
    <3>1. CASE q = r
      BY <1>1, <1>2, <1>3, <1>5, <2>2, <3>1 DEF SalesInv, Sole, p
    <3>2. CASE q # r
      <4>1. req'[q] = req[q] /\ req[q].party \notin overlapped
        BY <1>1, <1>5, <2>2, <3>2
      <4>2. CASE req[q].party = p
        <5>1. Alone(r) /\ r \in Creating(p)
          BY <1>1, <1>2, <4>1, <4>2 DEF SalesInv, Sole, Creating, p
        <5>2. q \notin Creating(p) /\ customer[p] = 0
          BY <3>2, <5>1 DEF Alone, p
        <5>3. req[q].at \notin {"create", "save", "session", "open", "paid"}
          BY <2>2, <4>1, <4>2, <5>2 DEF SalesInv, Sole, Creating
        <5> QED
          BY <4>1, <5>3
      <4>3. CASE req[q].party # p
        <5>1. req[q].at # "idle" => req[q].party \in Parties
          BY DEF SalesInv, SalesType
        <5>2. req[q].at # "idle" => customer'[req[q].party] = customer[req[q].party]
          BY <1>3, <4>3, <5>1
        <5> QED
          BY <2>1, <2>2, <4>1, <5>2 DEF SalesInv, Sole, Alone
      <4> QED
        BY <4>2, <4>3
    <3> QED
      BY <3>1, <3>2
  <2> QED
    BY <2>2 DEF Sole
<1> QED
  BY <1>5, <1>6, <1>7 DEF SalesInv

----------------------------------------------------------------------------
(* What requests name: prices that Stripe has minted, parties that exist.  *)

Priced(id) == id # 0 => id \in DOMAIN stripe
RefsInv == overlapped \subseteq Parties /\ \A r \in Requests : Priced(req[r].price)

LEMMA SoldIsPriced ==
    ASSUME TypeInv, NameInv, NEW o \in Owners, NEW visit \in Visits
    PROVE  Priced(row[Sold(o, visit)].id)
BY SoldType DEF NameInv, Named, Priced

\* Stripe keeps every price.
LEMMA PricesStay ==
    ASSUME TypeInv, StageInv, NameInv, CatalogueNext
    PROVE  DOMAIN stripe \subseteq DOMAIN stripe'
PROOF
<1>1. ASSUME NEW d \in Deploys, NEW s, Upsert(d, s)
      PROVE  DOMAIN stripe \subseteq DOMAIN stripe'
  BY <1>1 DEF Upsert
<1>2. ASSUME NEW d \in Deploys, Mint(d)
      PROVE  DOMAIN stripe \subseteq DOMAIN stripe'
  BY <1>2, MintDetail
<1>3. ASSUME NEW d \in Deploys, Deploy(d), ~Mint(d), ~\E s : Upsert(d, s)
      PROVE  stripe' = stripe
  BY <1>3 DEF Deploy, Seed, FeedDown, Fetch, NextPass, Take, TakeBooted, Stamp, Finish, Die
<1>4. ASSUME (\E p \in Deploys \cup Beats : Sweep(p)) \/ Edit
      PROVE  stripe' = stripe
  BY <1>4 DEF Sweep, SweepRead, SweepCommit, Edit, OpenForm, SaveForm, Switch
<1> QED
  BY <1>1, <1>2, <1>3, <1>4 DEF CatalogueNext

LEMMA RefsStep ==
    ASSUME TypeInv, NameInv, SalesType, RefsInv, NEW r \in Requests, Sell(r)
    PROVE  RefsInv'
PROOF
<1>1. stripe' = stripe
  BY DEF Sell, Ask, ReadCustomer, CreateCustomer, SaveCustomer, OpenSession, RequestDies, Pay,
         Webhook, catalogueVars
<1>2. req[r] \in RequestType /\ DOMAIN req = Requests
  BY DEF SalesType, RequestType
<1>3. overlapped' \subseteq Parties
  <2>1. CASE ReadCustomer(r)
    <3>1. req[r].party \in Parties
      BY <2>1 DEF ReadCustomer, SalesType
    <3> QED
      BY <2>1, <3>1 DEF ReadCustomer, RefsInv
  <2>2. CASE ~ReadCustomer(r)
    BY <2>2 DEF Sell, Ask, CreateCustomer, SaveCustomer, OpenSession, RequestDies, Pay, Webhook,
                RefsInv
  <2> QED
    BY <2>1, <2>2
<1>4. ASSUME NEW x, req' = [req EXCEPT ![r] = x], Priced(x.price)
      PROVE  \A q \in Requests : Priced(req'[q].price)
  BY <1>2, <1>4 DEF RefsInv
<1>5. CASE Ask(r)
  <2>1. ASSUME NEW u \in Users, NEW o \in Owners, NEW visit \in Visits, NEW at, NEW kind, NEW party,
               req' = [req EXCEPT ![r] = Request(at, kind, party, o, visit)]
        PROVE  \A q \in Requests : Priced(req'[q].price)
    <3>1. Request(at, kind, party, o, visit).price = row[Sold(o, visit)].id
      BY DEF Request
    <3> QED
      BY <1>4, <2>1, <3>1, SoldIsPriced
  <2>2. ASSUME NEW u \in Users, NEW party \in Parties, AskPortal(r, u, party)
        PROVE  \A q \in Requests : Priced(req'[q].price)
    <3> DEFINE x == [NoRequest EXCEPT !.at = "customer", !.kind = "portal", !.party = party]
    <3>1. x.price = 0 /\ req' = [req EXCEPT ![r] = x]
      BY <2>2 DEF AskPortal, NoRequest
    <3> HIDE DEF x
    <3> QED
      BY <1>4, <3>1 DEF Priced
  <2>3. \A q \in Requests : Priced(req'[q].price)
    BY <1>5, <2>1, <2>2 DEF Ask, AskPersonal, AskTeam, AskCredits
  <2> QED
    BY <1>1, <1>3, <2>3 DEF RefsInv, Priced
<1>6. CASE ~Ask(r)
  <2>1. ASSUME NEW at, Goto(r, at)
        PROVE  \A q \in Requests : req'[q].price = req[q].price
    BY <1>2, <2>1 DEF Goto, RequestType
  <2>2. ASSUME NEW at, NEW c, req' = [req EXCEPT ![r].customer = c, ![r].at = at]
        PROVE  \A q \in Requests : req'[q].price = req[q].price
    BY <1>2, <2>2 DEF RequestType
  <2>3. \A q \in Requests : req'[q].price = req[q].price
    <3>1. CASE ReadCustomer(r)
      BY <2>2, <3>1 DEF ReadCustomer
    <3>2. CASE CreateCustomer(r)
      BY <2>2, <3>2 DEF CreateCustomer
    <3>3. CASE SaveCustomer(r)
      BY <2>1, <3>3 DEF SaveCustomer
    <3>4. CASE OpenSession(r)
      BY <2>1, <3>4 DEF OpenSession
    <3>5. CASE RequestDies(r)
      BY <2>1, <3>5 DEF RequestDies
    <3>6. CASE Pay(r)
      BY <2>1, <3>6 DEF Pay
    <3>7. CASE Webhook(r)
      BY <2>1, <3>7 DEF Webhook
    <3> QED
      BY <1>6, <3>1, <3>2, <3>3, <3>4, <3>5, <3>6, <3>7 DEF Sell
  <2> QED
    BY <1>1, <1>3, <2>3 DEF RefsInv, Priced
<1> QED
  BY <1>5, <1>6

----------------------------------------------------------------------------
(* What visitors are shown after an undisturbed deployment.                *)

LEMMA SettledIsHonest ==
    ASSUME RowsInv, SettledOK, NEW o \in Owners, NEW visit \in Visits, OnSale(o),
           LookupKey(Sold(o, visit)) \notin torn
    PROVE  Honest(o, visit)
PROOF
<1>1. visit[2] \in BillingCurrencies /\ USD \in BillingCurrencies
  BY CatalogueAssumption DEF Visits, BillingCurrency
<1>2. BillingCurrencies \subseteq {USD} \cup Currencies /\ BillingCurrencies \cap Countries = {}
  BY CatalogueAssumption DEF BillingCurrencies
<1>3. ASSUME NEW m \in BillingCurrencies \cup Countries, row[<<o, m>>] # NoRow,
             LookupKey(<<o, m>>) \notin torn
      PROVE  LET s == <<o, m>>
                 id == row[s].id
             IN  /\ row[s].amount \in Nat /\ id # 0 /\ stripe[id].live
                 /\ stripe[id].amount = Asked(s) /\ stripe[id].currency = CurrencyIn(s)
  <2>1. <<o, m>> \in Slots /\ <<o, m>>[1] = o /\ <<o, m>>[2] = m
    BY <1>2 DEF Slots, Markets
  <2>2. row[<<o, m>>].amount \in Nat
    BY <1>3, <2>1 DEF RowsInv
  <2> QED
    BY <1>3, <2>1, <2>2 DEF SettledOK, OnSale, Fits, PriceMatches
<1>4. CASE NationalPrice(o, visit[1])
  <2>1. PICK s : s = <<o, visit[1]>>
    OBVIOUS
  <2>2. visit[1] \in Countries /\ row[s].id # 0 /\ row[s] # NoRow /\ s[2] = visit[1]
        /\ s \in National
    BY <1>4, <2>1 DEF NationalPrice, Minted, NoRow, National
  <2>3. Displayed(o, visit) = s /\ Sold(o, visit) = s /\ BilledIn(o, visit) = CurrencyIn(s)
    BY <1>4, <2>1 DEF Displayed, Sold, BilledIn
  <2>4. /\ row[s].amount \in Nat /\ stripe[row[s].id].live
        /\ stripe[row[s].id].amount = Asked(s) /\ stripe[row[s].id].currency = CurrencyIn(s)
    BY <1>3, <2>1, <2>2, <2>3
  <2>5. Asked(s) = DeriveBase(row[s].amount, VatRate[s[2]])
    BY <2>2 DEF Asked
  <2>6. Distance(WithTax(Asked(s), VatRate[s[2]]), row[s].amount) <= 1
    <3>1. PICK sticker \in Nat : sticker = row[s].amount
      BY <2>4
    <3>2. PICK vat \in 0..1000 : vat = VatRate[s[2]]
      BY <2>2, VatType
    <3>3. Distance(WithTax(DeriveBase(sticker, vat), vat), sticker) <= 1
      BY Zenon, BaseIsNearest
    <3> QED
      BY <2>5, <3>1, <3>2, <3>3
  <2> QED
    BY <2>2, <2>3, <2>4, <2>6 DEF Honest
<1>5. CASE ~NationalPrice(o, visit[1]) /\ row[<<o, visit[2]>>] # NoRow
  <2>1. PICK s : s = <<o, visit[2]>>
    OBVIOUS
  <2>2. s \notin National /\ s[2] = visit[2] /\ s[2] \notin Countries
    BY <1>1, <1>2, <2>1 DEF National
  <2>3. Displayed(o, visit) = s /\ BilledIn(o, visit) = CurrencyIn(s)
    BY <1>5, <2>1, <2>2 DEF Displayed, BilledIn, CurrencyIn
  <2>4. Sold(o, visit) = s
    <3>1. CASE Minted(s)
      BY <1>5, <2>1, <3>1 DEF Sold
    <3>2. CASE ~Minted(s)
      <4>1. s \in Slots /\ s[1] = o
        BY <1>1, <1>2, <2>1 DEF Slots, Markets
      <4> QED
        BY <1>1, <1>5, <2>1, <2>2, <3>2, <4>1 DEF SettledOK, OnSale, Minted
    <3> QED
      BY <3>1, <3>2
  <2>5. /\ row[s].id # 0 /\ stripe[row[s].id].live
        /\ stripe[row[s].id].amount = Asked(s) /\ stripe[row[s].id].currency = CurrencyIn(s)
    BY <1>1, <1>3, <1>5, <2>1, <2>4
  <2>6. Asked(s) = row[s].amount
    BY <2>2 DEF Asked
  <2> QED
    BY <2>2, <2>3, <2>4, <2>5, <2>6 DEF Honest
<1>6. CASE ~NationalPrice(o, visit[1]) /\ row[<<o, visit[2]>>] = NoRow
  <2>1. PICK s : s = <<o, USD>>
    OBVIOUS
  <2>2. s \notin National /\ row[s] # NoRow
    BY <1>1, <1>2, <2>1 DEF National, OnSale
  <2>3. Displayed(o, visit) = s /\ Sold(o, visit) = s
    BY <1>6, <2>1 DEF Displayed, Sold, Minted, NoRow
  <2>4. /\ row[s].id # 0 /\ stripe[row[s].id].live
        /\ stripe[row[s].id].amount = Asked(s) /\ stripe[row[s].id].currency = CurrencyIn(s)
    BY <1>1, <1>3, <2>1, <2>2, <2>3
  <2>5. Asked(s) = row[s].amount
    BY <2>2 DEF Asked
  <2> QED
    BY <1>6, <2>2, <2>3, <2>4, <2>5 DEF Honest
<1> QED
  BY <1>4, <1>5, <1>6

----------------------------------------------------------------------------
(* The invariant of the composition, and the theorems.                     *)

Inv == CatInv /\ SalesInv /\ RefsInv

LEMMA SalesStart == SalesInit => SalesInv /\ RefsInv
PROOF
<1> SUFFICES ASSUME SalesInit PROVE SalesInv /\ RefsInv
  OBVIOUS
<1>1. customers \in Nat
  BY StorefrontAssumption, FS_CardinalityType DEF SalesInit
<1>2. customer \in [Parties -> 0..customers]
  BY DEF SalesInit
<1>3. \A r \in Requests : req[r] = NoRequest
  BY DEF SalesInit
<1>4. /\ NoRequest \in RequestType /\ NoRequest.customer = 0 /\ NoRequest.at = "idle"
      /\ NoRequest.kind = "none" /\ NoRequest.price = 0
  BY DEF NoRequest, RequestType, Phases, Kinds
<1>5. SalesType
  <2>1. DOMAIN req = Requests
    BY DEF SalesInit
  <2> QED
    BY <1>1, <1>2, <1>3, <1>4, <2>1 DEF SalesType, RequestType
<1>6. TeamsGetTheirOwnCustomer /\ Sole
  BY <1>3, <1>4 DEF TeamsGetTheirOwnCustomer, Sole
<1>7. RefsInv
  BY <1>3, <1>4 DEF SalesInit, RefsInv, Priced
<1> QED
  BY <1>5, <1>6, <1>7 DEF SalesInv

LEMMA SellStep ==
    ASSUME Inv, NEW r \in Requests, Sell(r)
    PROVE  Inv'
PROOF
<1>1. SalesInv /\ CatInv /\ TypeInv
  BY DEF Inv, CatInv, Base
<1>2. CatInv'
  <2>1. CASE Ask(r)
    <3>1. left' \in BudgetType
      BY <1>1, <2>1, SpendType DEF Ask
    <3> QED
      BY <1>1, <2>1, <3>1, CatFrame DEF Ask
  <2>2. CASE ~Ask(r)
    <3>1. UNCHANGED catalogueVars
      BY <2>2 DEF Sell, ReadCustomer, CreateCustomer, SaveCustomer, OpenSession, RequestDies,
                  Pay, Webhook
    <3>2. left' \in BudgetType
          /\ UNCHANGED <<row, active, stripe, holder, job, sweep, form, history>>
      BY <1>1, <3>1 DEF catalogueVars, TypeInv
    <3> QED
      BY <1>1, <3>2, CatFrame
  <2> QED
    BY <2>1, <2>2
<1>3. RefsInv'
  BY RefsStep DEF Inv, CatInv, Base, SalesInv
<1>4. CASE OpenSession(r) \/ RequestDies(r) \/ Pay(r) \/ Webhook(r)
  <2>1. PICK at \in Phases \ {"idle", "customer", "create", "save", "session"} :
            /\ Goto(r, at)
            /\ at \in {"open", "paid"} => req[r].at \in {"session", "open"}
    BY <1>4 DEF OpenSession, RequestDies, Pay, Webhook, Phases
  <2>2. req[r].at # "idle" /\ UNCHANGED <<customer, customers, overlapped>>
    BY <1>4 DEF OpenSession, RequestDies, Pay, Webhook
  <2> QED
    BY <1>1, <1>2, <1>3, <2>1, <2>2, GotoStep DEF Inv
<1>5. CASE Ask(r) \/ ReadCustomer(r) \/ CreateCustomer(r) \/ SaveCustomer(r)
  BY <1>1, <1>2, <1>3, <1>5, AskStep, ReadStep, CreateStep, SaveStep DEF Inv
<1> QED
  BY <1>4, <1>5 DEF Sell

LEMMA InvStep == Inv /\ [Next]_vars => Inv'
PROOF
<1> SUFFICES ASSUME Inv, [Next]_vars PROVE Inv'
  OBVIOUS
<1>1. CASE CatalogueNext /\ UNCHANGED salesVars
  <2>1. CatInv'
    BY <1>1, CatStep DEF Inv
  <2>2. SalesInv'
    BY <1>1 DEF Inv, SalesInv, SalesType, TeamsGetTheirOwnCustomer, Sole, Alone, Creating,
                salesVars
  <2>3. RefsInv'
    <3>1. DOMAIN stripe \subseteq DOMAIN stripe'
      BY <1>1, PricesStay DEF Inv, CatInv, Base
    <3> QED
      BY <1>1, <3>1 DEF Inv, RefsInv, Priced, salesVars
  <2> QED
    BY <2>1, <2>2, <2>3 DEF Inv
<1>2. CASE \E r \in Requests : Sell(r)
  BY <1>2, SellStep
<1>3. CASE UNCHANGED vars
  <2>1. CatInv'
    <3>1. left' \in BudgetType
          /\ UNCHANGED <<row, active, stripe, holder, job, sweep, form, history>>
      BY <1>3 DEF Inv, CatInv, Base, TypeInv, vars, catalogueVars
    <3> QED
      BY <3>1, CatFrame DEF Inv
  <2>2. SalesInv'
    BY <1>3 DEF Inv, SalesInv, SalesType, TeamsGetTheirOwnCustomer, Sole, Alone, Creating,
                vars, salesVars
  <2>3. RefsInv'
    BY <1>3 DEF Inv, RefsInv, Priced, vars, catalogueVars, salesVars
  <2> QED
    BY <2>1, <2>2, <2>3 DEF Inv
<1> QED
  BY <1>1, <1>2, <1>3 DEF Next

LEMMA InvHolds == Spec => []Inv
PROOF
<1>1. StorefrontInit => Inv
  BY CatInit, SalesStart DEF Inv, StorefrontInit
<1> QED
  BY <1>1, InvStep, PTL DEF Spec

\* Every row, price, deployment, sweep, form and request keeps its type: amounts
\* that go into a row or to Stripe are never negative, what a deployment works on
\* is in its batch, and a request never names a price that Stripe has not minted
\* or a customer it has not created.
THEOREM StorefrontTypes == Spec => []StorefrontTypeOK
PROOF
<1>1. Inv => StorefrontTypeOK
  <2> SUFFICES ASSUME Inv PROVE StorefrontTypeOK
    OBVIOUS
  <2>1. CatalogueTypeOK
    BY TypesFollow DEF Inv, CatInv, Base
  <2>2. customers \in Nat /\ customer \in [Parties -> 0..customers]
    BY DEF Inv, SalesInv, SalesType
  <2>3. stripe \in Seq(PriceType)
    BY DEF Inv, CatInv, Base, TypeInv
  <2>4. ASSUME NEW r \in Requests
        PROVE  /\ req[r].at \in Phases
               /\ req[r].price \in 0..Len(stripe) /\ req[r].customer \in 0..customers
    <3>1. /\ req[r].at \in Phases /\ req[r].customer \in Nat /\ req[r].customer <= customers
          /\ Priced(req[r].price)
      BY DEF Inv, SalesInv, SalesType, RefsInv
    <3> QED
      BY <2>2, <2>3, <3>1 DEF Priced
  <2> QED
    BY <2>1, <2>2, <2>4 DEF StorefrontTypeOK, Phases, Inv, RefsInv
<1> QED
  BY <1>1, InvHolds, PTL

\* When a deployment has run from seed_catalog to the end of sync_stripe_catalog
\* with no other writer, every visitor is shown what checkout will charge,
\* whatever happened to rows and prices before; save for a key that an earlier
\* deployment left between archive and mint.
THEOREM UndisturbedDeploysHeal == Spec => []CleanDeployHeals
PROOF
<1>1. Inv => CleanDeployHeals
  BY SettledIsHonest DEF Inv, CatInv, Base, CalmInv, CleanDeployHeals
<1> QED
  BY <1>1, InvHolds, PTL

\* No two price rows ever name one Stripe price, however many deployments,
\* sweeps and admins interleave and wherever deployments die: an id gets into a
\* row only from a price minted under that row's lookup key (_upsert_price).
THEOREM RowsNameTheirOwnPrice == Spec => []OneRowPerPrice
PROOF
<1>1. Inv => OneRowPerPrice
  BY NamesAreUnique DEF Inv, CatInv, Base
<1> QED
  BY <1>1, InvHolds, PTL

\* What Stripe holds under a lookup key can be sold, unless a deployment is
\* between archive and mint, or died there (sync_stripe_catalog).
THEOREM HeldPricesCanBeSold == Spec => []HoldersAreLive
PROOF
<1>1. Inv => HoldersAreLive
  BY DEF Inv, CatInv, Base
<1> QED
  BY <1>1, InvHolds, PTL

\* No seed and no FX sweep moves a curated sticker, but for sweeps that were
\* about to write it when it was curated.
THEOREM CuratedStickersSurvive == Spec => CuratedSurvives
PROOF
<1>1. Inv /\ [Next]_vars =>
          [\A s \in Slots :
               row[s].curated /\ row'[s].amount # row[s].amount =>
                   form.slot = s \/ s \in exposed]_catalogueVars
  <2> SUFFICES ASSUME Inv, [Next]_vars, NEW s \in Slots,
                      row[s].curated, row'[s].amount # row[s].amount
               PROVE  form.slot = s \/ s \in exposed
    OBVIOUS
  <2>1. CASE CatalogueNext
    BY <2>1, CuratedMove DEF Inv, CatInv, Base
  <2>2. CASE ~CatalogueNext
    <3>1. row' = row
      BY <2>2 DEF Next, Sell, Ask, ReadCustomer, CreateCustomer, SaveCustomer, OpenSession,
                  RequestDies, Pay, Webhook, vars, catalogueVars
    <3> QED
      BY <3>1
  <2> QED
    BY <2>1, <2>2
<1> QED
  BY <1>1, InvHolds, PTL DEF Spec, CuratedSurvives

\* A team checkout is always on a Stripe customer that nobody else has
\* (create_team_stripe_customer), whatever requests run beside it.
THEOREM TeamsAreApart == Spec => []TeamsGetTheirOwnCustomer
PROOF
<1>1. Inv => TeamsGetTheirOwnCustomer
  BY DEF Inv, SalesInv
<1> QED
  BY <1>1, InvHolds, PTL

\* What a party buys is on the customer its row names, unless two of its
\* requests created one at the same time (get_or_create_customer).
THEOREM PurchasesStayTogether == Spec => []PartiesKeepTheirCustomer
PROOF
<1>1. Inv => PartiesKeepTheirCustomer
  BY DEF Inv, SalesInv, Sole, PartiesKeepTheirCustomer
<1> QED
  BY <1>1, InvHolds, PTL
=============================================================================
