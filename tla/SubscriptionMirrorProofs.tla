---------------------- MODULE SubscriptionMirrorProofs -----------------------
(***************************************************************************)
(* The mirror of a subscription, for any plans, seats, workers, requests   *)
(* and bounds: with every overlap and order of events a customer gets its  *)
(* row, and without either the row comes to say what Stripe says.          *)
(***************************************************************************)
EXTENDS SubscriptionMirror, TLAPS

Events == [kind : Kinds, sub : Subs]
RealRows == [live : BOOLEAN, plan : Plans, seats : Seats, cancel : BOOLEAN,
             pending : Plans \cup {NoPlan}]

\* What workers and requests may be doing, and what they then know.
WorkerStages == {"idle", "sync", "deleted", "pending", "cleared", "checkout", "retrieved"}
RequestStages == {"idle", "cancel", "cancel_modify", "resume", "mirror", "seats",
                  "seats_save", "release", "cleared", "plan", "plan_apply", "plan_modify",
                  "delete", "erase", "erase_rows", "remove"}
NeedRow == {"deleted", "pending", "cleared", "cancel", "cancel_modify", "resume", "mirror",
            "seats", "seats_save", "release", "plan", "plan_apply", "plan_modify"}

Sane(j) ==
    /\ j \in Jobs
    /\ j.stage \in NeedRow => j.seen # NoRow
    /\ j.stage \in {"seats", "seats_save", "plan_apply", "plan_modify"} => j.seats \in Seats
    /\ j.stage \in {"plan", "plan_apply", "plan_modify"} => j.plan \in Plans

JobsAreSane ==
    /\ job \in [Actors -> Jobs]
    /\ \A a \in Actors : Sane(job[a])
    /\ \A w \in Workers : job[w].stage \in WorkerStages
    /\ \A r \in Requests : job[r].stage \in RequestStages

\* The checkout event of a team is at one place at a time, and each customer
\* after the first has cost a failed attempt.
CheckoutsWaiting == {i \in DOMAIN queue : queue[i].kind = "checkout"}
AtCheckout == {w \in Workers : job[w].stage = "checkout"}
OneCheckout ==
    /\ \A i, k \in CheckoutsWaiting : i = k
    /\ \A v, w \in AtCheckout : v = w
    /\ CheckoutsWaiting = {} \/ AtCheckout = {}
    /\ CheckoutsWaiting # {} => team /\ customers <= faults
    /\ AtCheckout # {} => team
    /\ customers <= 1 + faults

\* A customer without a row has one coming, unless its checkout was given up:
\* its event waits, or a worker has it in hand and will find that its read
\* still holds.
Bringing(w) ==
    \/ job[w].stage \in {"checkout", "retrieved"}
    \/ job[w].stage = "sync" /\ job[w].owner = customer /\ job[w].seen = NoRow
RowComes ==
    customer # 0 /\ row = NoRow =>
        \/ \E i \in DOMAIN queue : queue[i].kind = IF team THEN "checkout" ELSE "sync"
        \/ \E w \in Workers : Bringing(w)
        \/ dropped

MirrorInv ==
    /\ MirrorTypeOK
    /\ JobsAreSane
    /\ OneCheckout
    /\ RowComes

----------------------------------------------------------------------------
(* Records.                                                                *)

LEMMA Start0Type == Start0 \in Subs
<1>1. (CHOOSE p \in Plans : \A q \in Plans : q <= p) \in Plans
  BY MirrorAssumption
<1>2. (CHOOSE n \in Seats : \A m \in Seats : n <= m) \in Seats
  BY MirrorAssumption
<1> QED
  BY <1>1, <1>2 DEF Start0, Subs

LEMMA SubFields ==
    ASSUME NEW s \in Subs
    PROVE  /\ s.live \in BOOLEAN /\ s.plan \in Plans /\ s.seats \in Seats
           /\ s.cancel \in BOOLEAN /\ s.sched \in Plans \cup {NoPlan}
BY DEF Subs

\* NoRow is no real row, and every field of a row has its type.
LEMMA RowFacts ==
    /\ NoRow \notin RealRows
    /\ \A x \in Rows : x = NoRow \/ x \in RealRows
    /\ \A x \in RealRows : x \in Rows
    /\ \A x \in Rows : x.pending \in Plans \cup {NoPlan} /\ x.live \in BOOLEAN
    /\ NoRow.pending = NoPlan /\ NoRow.live = FALSE
    /\ NoRow \in Rows
<1>1. NoRow.plan = 0 /\ NoRow.pending = NoPlan /\ NoRow.live = FALSE
  BY DEF NoRow, NoPlan
<1>2. \A x \in RealRows : /\ x.plan \in Plans
                          /\ x.pending \in Plans \cup {NoPlan} /\ x.live \in BOOLEAN
  BY DEF RealRows
<1>3. 0 \notin Plans
  BY MirrorAssumption
<1>4. Rows = {NoRow} \cup RealRows
  BY DEF Rows, RealRows
<1> QED
  BY <1>1, <1>2, <1>3, <1>4

\* What a sync makes of any row is a real row.
LEMMA SyncedRowType ==
    ASSUME NEW s \in Subs, NEW x \in Rows
    PROVE  SyncedRow(s, x) \in RealRows
<1>1. x.pending \in Plans \cup {NoPlan}
  BY RowFacts
<1> QED
  BY <1>1, SubFields DEF SyncedRow, RealRows

\* Whatever is saved over a real row is a real row.
LEMMA NewRowType ==
    ASSUME NEW j, Sane(j),
           j.stage \in {"sync", "deleted", "pending", "cleared", "mirror", "seats_save"}
    PROVE  NewRow(j) \in RealRows
<1>1. j.sub \in Subs /\ j.seen \in Rows
  BY DEF Sane, Jobs
<1>2. CASE j.stage = "sync"
  BY <1>1, <1>2, SyncedRowType DEF NewRow
<1>3. CASE j.stage \in {"deleted", "pending", "cleared", "mirror", "seats_save"}
  <2>1. j.seen \in RealRows
    BY <1>1, <1>3, RowFacts DEF Sane, NeedRow
  <2>2. /\ j.sub.sched \in Plans \cup {NoPlan} /\ j.sub.live \in BOOLEAN
        /\ j.sub.cancel \in BOOLEAN
    BY <1>1, SubFields
  <2>3. CASE j.stage = "deleted"
    BY <2>1, <2>3 DEF NewRow, RealRows
  <2>4. CASE j.stage = "pending"
    BY <2>1, <2>2, <2>4 DEF NewRow, RealRows
  <2>5. CASE j.stage = "cleared"
    BY <2>1, <2>5 DEF NewRow, RealRows
  <2>6. CASE j.stage = "mirror"
    BY <2>1, <2>2, <2>6 DEF NewRow, RealRows
  <2>7. CASE j.stage = "seats_save"
    <3>1. j.seats \in Seats
      BY <2>7 DEF Sane
    <3> QED
      BY <2>1, <2>7, <3>1 DEF NewRow, RealRows
  <2> QED
    BY <1>3, <2>3, <2>4, <2>5, <2>6, <2>7
<1> QED
  BY <1>2, <1>3

LEMMA IdleIsSane == Sane(Idle) /\ Idle.stage = "idle" /\ Idle \in Jobs
<1>1. Idle \in Jobs /\ Idle.stage = "idle"
  BY Start0Type, RowFacts DEF Idle, Jobs, Stages
<1> QED
  BY <1>1 DEF Sane, NeedRow

----------------------------------------------------------------------------
(* The queue.                                                              *)

\* Events are added behind the ones that wait.
QueueGrows ==
    /\ queue' \in Seq(Events)
    /\ \A i \in DOMAIN queue : i \in DOMAIN queue' /\ queue'[i] = queue[i]
    /\ \A i \in DOMAIN queue' : i \in DOMAIN queue \/ queue'[i].kind # "checkout"

LEMMA UnchangedQueueGrows ==
    ASSUME queue \in Seq(Events), queue' = queue
    PROVE  QueueGrows
BY DEF QueueGrows

\* Stripe emits subscription and schedule events only.
LEMMA EmitFacts ==
    ASSUME queue \in Seq(Events), NEW sub \in Subs,
           NEW kinds \in Seq(Kinds \ {"checkout"}), Emit(sub, kinds)
    PROVE  stripe' = sub /\ QueueGrows
<1> DEFINE new == [i \in DOMAIN kinds |-> Event(kinds[i], sub)]
<1>1. Len(kinds) \in Nat /\ DOMAIN kinds = 1..Len(kinds)
  OBVIOUS
<1>2. \A i \in DOMAIN kinds : new[i] \in Events /\ new[i].kind # "checkout"
  BY DEF Events, Event
<1>3. new \in Seq(Events) /\ Len(new) = Len(kinds)
  BY <1>1, <1>2
<1>4. queue' = queue \o new /\ stripe' = sub
  BY DEF Emit
<1> HIDE DEF new
<1>5. queue' \in Seq(Events)
  BY <1>3, <1>4
<1>6. \A i \in DOMAIN queue : i \in DOMAIN queue' /\ queue'[i] = queue[i]
  BY <1>3, <1>4
<1>7. ASSUME NEW i \in DOMAIN queue', i \notin DOMAIN queue
      PROVE  queue'[i].kind # "checkout"
  <2>1. i - Len(queue) \in 1..Len(new) /\ queue'[i] = new[i - Len(queue)]
    BY <1>3, <1>4, <1>7
  <2> QED
    BY <1>1, <1>2, <1>3, <2>1
<1> QED
  BY <1>4, <1>5, <1>6, <1>7 DEF QueueGrows

\* The calls to Stripe, in terms of the above.
LEMMA KindsOfCalls ==
    /\ <<>> \in Seq(Kinds \ {"checkout"})
    /\ <<"sync">> \in Seq(Kinds \ {"checkout"})
    /\ <<"deleted">> \in Seq(Kinds \ {"checkout"})
    /\ <<"pending", "sync">> \in Seq(Kinds \ {"checkout"})
    /\ <<"cleared", "sync">> \in Seq(Kinds \ {"checkout"})
    /\ <<"cleared", "deleted">> \in Seq(Kinds \ {"checkout"})
    /\ <<"sync", "cleared">> \in Seq(Kinds \ {"checkout"})
BY DEF Kinds

LEMMA ModifyFacts ==
    ASSUME queue \in Seq(Events), NEW sub \in Subs, Modify(sub) \/ Schedule(sub)
    PROVE  stripe' = sub /\ stripe' \in Subs /\ QueueGrows
BY EmitFacts, KindsOfCalls DEF Modify, Schedule

LEMMA ReleaseFacts ==
    ASSUME queue \in Seq(Events), stripe \in Subs, ReleaseSchedule
    PROVE  stripe' = Unscheduled /\ stripe' \in Subs /\ QueueGrows
<1>1. Unscheduled \in Subs
  BY DEF Unscheduled, Subs
<1> QED
  BY <1>1, EmitFacts, KindsOfCalls DEF ReleaseSchedule

LEMMA TerminateFacts ==
    ASSUME queue \in Seq(Events), stripe \in Subs, Terminate
    PROVE  /\ stripe' = [stripe EXCEPT !.live = FALSE, !.sched = NoPlan]
           /\ stripe' \in Subs /\ QueueGrows
<1>1. [stripe EXCEPT !.live = FALSE, !.sched = NoPlan] \in Subs
  BY DEF Subs
<1> QED
  BY <1>1, EmitFacts, KindsOfCalls DEF Terminate

LEMMA BehindConcatenation ==
    ASSUME NEW S, NEW s \in Seq(S), NEW t \in Seq(S), NEW k \in Nat,
           k > Len(s), k <= Len(s) + Len(t)
    PROVE  (s \o t)[k] = t[k - Len(s)]
OBVIOUS

\* Taking an event out leaves the others, in order.
LEMMA RemoveAtFacts ==
    ASSUME NEW q \in Seq(Events), NEW i \in DOMAIN q
    PROVE  /\ RemoveAt(q, i) \in Seq(Events)
           /\ Len(RemoveAt(q, i)) = Len(q) - 1
           /\ \A k \in 1..(Len(q) - 1) :
                RemoveAt(q, i)[k] = IF k < i THEN q[k] ELSE q[k + 1]
<1>1. i \in 1..Len(q) /\ Len(q) \in Nat
  OBVIOUS
<1> DEFINE before == SubSeq(q, 1, i - 1)
           after == SubSeq(q, i + 1, Len(q))
<1>2. before \in Seq(Events) /\ Len(before) = i - 1 /\ \A k \in 1..(i - 1) : before[k] = q[k]
  BY <1>1
<1>3. /\ after \in Seq(Events) /\ Len(after) = Len(q) - i
      /\ \A k \in 1..(Len(q) - i) : after[k] = q[i + k]
  BY <1>1
<1>4. RemoveAt(q, i) = before \o after
  BY DEF RemoveAt
<1> HIDE DEF before, after
<1>5. RemoveAt(q, i) \in Seq(Events) /\ Len(RemoveAt(q, i)) = Len(q) - 1
  BY <1>1, <1>2, <1>3, <1>4
<1>6. ASSUME NEW k \in 1..(Len(q) - 1)
      PROVE  RemoveAt(q, i)[k] = IF k < i THEN q[k] ELSE q[k + 1]
  <2>1. CASE k < i
    BY <1>1, <1>2, <1>3, <1>4, <2>1
  <2>2. CASE ~(k < i)
    <3>0. k \in Nat /\ k > Len(before) /\ k <= Len(before) + Len(after)
      BY <1>1, <1>2, <1>3, <2>2
    <3>1. (before \o after)[k] = after[k - Len(before)]
      BY <1>2, <1>3, <3>0, BehindConcatenation
    <3>3. Len(before) = i - 1
      BY <1>2
    <3>2. k - (i - 1) \in 1..(Len(q) - i) /\ i + (k - (i - 1)) = k + 1
      BY <1>1, <2>2
    <3> QED
      BY <1>3, <1>4, <2>2, <3>1, <3>2, <3>3
  <2> QED
    BY <2>1, <2>2
<1> QED
  BY <1>5, <1>6

----------------------------------------------------------------------------
(* Jobs.                                                                   *)

\* One actor moves on, to something its kind of actor does.
LEMMA GotoFacts ==
    ASSUME JobsAreSane, NEW a \in Actors, NEW j, Sane(j), Goto(a, j),
           a \in Workers => j.stage \in WorkerStages,
           a \in Requests => j.stage \in RequestStages
    PROVE  /\ JobsAreSane'
           /\ job'[a] = j
           /\ \A b \in Actors : b # a => job'[b] = job[b]
<1>1. j \in Jobs
  BY DEF Sane
<1>2. job' \in [Actors -> Jobs]
  BY <1>1 DEF Goto, JobsAreSane
<1>3. job'[a] = j /\ \A b \in Actors : b # a => job'[b] = job[b]
  BY DEF Goto, JobsAreSane
<1>4. \A b \in Actors : Sane(job'[b])
  BY <1>3 DEF JobsAreSane
<1>5. (\A b \in Actors : Sane(job[b]))'
  BY <1>2, <1>3, <1>4 DEF JobsAreSane, Sane
<1>6. Workers \subseteq Actors /\ Requests \subseteq Actors
  BY DEF Actors
<1>7. /\ \A w \in Workers : job'[w].stage \in WorkerStages
      /\ \A r \in Requests : job'[r].stage \in RequestStages
  BY <1>3, <1>6 DEF JobsAreSane
<1> QED
  BY <1>2, <1>3, <1>5, <1>7 DEF JobsAreSane

LEMMA ActorFacts ==
    /\ Workers \subseteq Actors /\ Requests \subseteq Actors
    /\ \A w \in Workers : w \notin Requests
BY MirrorAssumption DEF Actors

\* A request moves on: no worker notices.
LEMMA RequestMoves ==
    ASSUME JobsAreSane, NEW r \in Requests, NEW j, Sane(j), Goto(r, j),
           j.stage \in RequestStages
    PROVE  JobsAreSane' /\ \A w \in Workers : job'[w] = job[w]
BY ActorFacts, GotoFacts

LEMMA RequestFinishes ==
    ASSUME JobsAreSane, NEW r \in Requests, Finish(r)
    PROVE  JobsAreSane' /\ \A w \in Workers : job'[w] = job[w]
<1>1. Goto(r, Idle) /\ "idle" \in RequestStages
  BY DEF Finish, RequestStages
<1> QED
  BY <1>1, IdleIsSane, RequestMoves

\* The next stage of a request that knows what that stage needs.
LEMMA RequestSteps ==
    ASSUME JobsAreSane, NEW r \in Requests, NEW stage \in RequestStages, Step(r, stage),
           stage \in NeedRow => job[r].seen # NoRow,
           stage \in {"seats", "seats_save", "plan_apply", "plan_modify"} =>
              job[r].seats \in Seats,
           stage \in {"plan", "plan_apply", "plan_modify"} => job[r].plan \in Plans
    PROVE  JobsAreSane' /\ \A w \in Workers : job'[w] = job[w]
<1>1. PICK j : j = [job[r] EXCEPT !.stage = stage]
  OBVIOUS
<1>2. job[r] \in Jobs
  BY ActorFacts DEF JobsAreSane
<1>3. stage \in Stages
  BY DEF RequestStages, Stages
<1>4. /\ j \in Jobs /\ j.stage = stage /\ j.seen = job[r].seen
      /\ j.seats = job[r].seats /\ j.plan = job[r].plan
  BY <1>1, <1>2, <1>3 DEF Jobs
<1>5. Sane(j)
  BY <1>4 DEF Sane
<1>6. Goto(r, j)
  BY <1>1 DEF Step
<1> QED
  BY <1>4, <1>5, <1>6, RequestMoves

----------------------------------------------------------------------------
(* Steps of Stripe and of requests that touch no row.                      *)

BoundsOK ==
    /\ cancelling' \in {"none", "queued", "failed"}
    /\ changes' \in 0..MaxChanges
    /\ faults' \in 0..MaxFaults /\ faults <= faults'
    /\ retries' \in 0..MaxRetries
    /\ stale' \subseteq Actors /\ overlapped' \in BOOLEAN /\ reordered' \in BOOLEAN
    /\ dropped' \in BOOLEAN /\ (dropped => dropped')

LEMMA TypeFacts ==
    ASSUME MirrorInv
    PROVE  /\ stripe \in Subs /\ queue \in Seq(Events) /\ row \in Rows
           /\ customers \in Nat /\ customer \in Nat /\ customer \in {0, customers}
           /\ changes \in Nat /\ faults \in Nat /\ job \in [Actors -> Jobs]
           /\ JobsAreSane
BY MirrorAssumption DEF MirrorInv, MirrorTypeOK, Events

LEMMA RowsKept ==
    ASSUME MirrorInv, stripe' \in Subs, QueueGrows, UNCHANGED <<team, db>>, BoundsOK,
           JobsAreSane', \A w \in Workers : job'[w] = job[w]
    PROVE  MirrorInv'
<1>0. /\ customer' = customer /\ customers' = customers /\ row' = row
      /\ deletions' = deletions /\ team' = team
  BY DEF db
<1>1. MirrorTypeOK'
  <2>1. queue' \in Seq([kind : Kinds, sub : Subs])
    BY DEF QueueGrows, Events
  <2> QED
    BY <1>0, <2>1 DEF MirrorInv, MirrorTypeOK, BoundsOK, JobsAreSane
<1>2. CheckoutsWaiting' = CheckoutsWaiting
  BY DEF QueueGrows, CheckoutsWaiting
<1>3. AtCheckout' = AtCheckout
  BY DEF AtCheckout
<1>4. OneCheckout'
  <2>1. customers \in Nat /\ faults \in Nat /\ faults' \in Nat /\ faults <= faults'
    BY TypeFacts DEF BoundsOK
  <2> QED
    BY <1>0, <1>2, <1>3, <2>1 DEF MirrorInv, OneCheckout
<1>5. RowComes'
  <2> SUFFICES ASSUME customer # 0, row = NoRow, ~dropped
               PROVE  \/ \E i \in DOMAIN queue' :
                            queue'[i].kind = IF team THEN "checkout" ELSE "sync"
                      \/ \E w \in Workers : Bringing(w)'
    BY <1>0 DEF RowComes, BoundsOK
  <2>1. CASE \E i \in DOMAIN queue : queue[i].kind = IF team THEN "checkout" ELSE "sync"
    BY <2>1 DEF QueueGrows
  <2>2. CASE \E w \in Workers : Bringing(w)
    BY <1>0, <2>2 DEF Bringing
  <2> QED
    BY <2>1, <2>2 DEF MirrorInv, RowComes
<1> QED
  BY <1>1, <1>4, <1>5 DEF MirrorInv

\* Frame conditions under which BoundsOK is plain.
LEMMA BoundsKept ==
    ASSUME MirrorInv, UNCHANGED <<cancelling, bounds, history, reordered>>
    PROVE  BoundsOK
BY TypeFacts DEF MirrorInv, MirrorTypeOK, BoundsOK, bounds, history

LEMMA ChangeBounds ==
    ASSUME MirrorInv, Change, UNCHANGED <<cancelling, faults, retries, overlapped, dropped, reordered>>,
           stale' \subseteq stale
    PROVE  BoundsOK
<1>1. changes' \in 0..MaxChanges
  BY TypeFacts, MirrorAssumption DEF Change
<1> QED
  BY <1>1, TypeFacts DEF MirrorInv, MirrorTypeOK, BoundsOK

\* Stripe moves by itself.
LEMMA StripeKeeps ==
    ASSUME MirrorInv, Portal \/ Lapse \/ PeriodEnd
    PROVE  MirrorInv'
<1>1. /\ stripe \in Subs /\ queue \in Seq(Events) /\ JobsAreSane
  BY TypeFacts
<1>2. UNCHANGED <<team, db>> /\ job' = job /\ BoundsOK
  <2>1. UNCHANGED <<team, db, job, cancelling, faults, retries, history, reordered>> /\ Change
    BY DEF Portal, Lapse, PeriodEnd
  <2> QED
    BY <2>1, ChangeBounds DEF history
<1>3. JobsAreSane'
  BY <1>1, <1>2 DEF JobsAreSane, Sane
<1>4. CASE Portal
  <2>1. PICK sub \in {[stripe EXCEPT !.cancel = ~@]}
                  \cup {[stripe EXCEPT !.plan = p] : p \in Plans \ {stripe.plan}}
                  \cup {[stripe EXCEPT !.seats = n] : n \in Seats \ {stripe.seats}} :
           Modify(sub)
    BY <1>4 DEF Portal
  <2>2. sub \in Subs
    BY <1>1 DEF Subs
  <2>3. stripe' \in Subs /\ QueueGrows
    BY <1>1, <2>1, <2>2, ModifyFacts
  <2> QED
    BY <1>2, <1>3, <2>3, RowsKept
<1>5. CASE Terminate
  <2>1. stripe' \in Subs /\ QueueGrows
    BY <1>1, <1>5, TerminateFacts
  <2> QED
    BY <1>2, <1>3, <2>1, RowsKept
<1>6. CASE /\ stripe.sched # NoPlan
           /\ Emit([Unscheduled EXCEPT !.plan = stripe.sched], <<"sync", "cleared">>)
  <2>1. [Unscheduled EXCEPT !.plan = stripe.sched] \in Subs
    BY <1>1, <1>6 DEF Unscheduled, Subs
  <2>2. stripe' \in Subs /\ QueueGrows
    BY <1>1, <1>6, <2>1, EmitFacts, KindsOfCalls
  <2> QED
    BY <1>2, <1>3, <2>2, RowsKept
<1> QED
  BY <1>4, <1>5, <1>6 DEF Lapse, PeriodEnd

----------------------------------------------------------------------------
(* Requests.                                                               *)

\* What a request knows at each of its stages.
LEMMA RequestFacts ==
    ASSUME MirrorInv, NEW r \in Requests
    PROVE  /\ job[r] \in Jobs /\ job[r].stage \in RequestStages
           /\ job[r].sub \in Subs /\ job[r].owner \in Nat /\ job[r].seen \in Rows
           /\ job[r].plan \in Plans \cup {NoPlan} /\ job[r].seats \in Seats \cup {0}
           /\ job[r].stage \in NeedRow => job[r].seen # NoRow
           /\ job[r].stage \in {"seats", "seats_save", "plan_apply", "plan_modify"} =>
                 job[r].seats \in Seats
           /\ job[r].stage \in {"plan", "plan_apply", "plan_modify"} => job[r].plan \in Plans
<1>1. Sane(job[r]) /\ job[r].stage \in RequestStages
  BY TypeFacts, ActorFacts DEF JobsAreSane
<1> QED
  BY <1>1 DEF Sane, Jobs

LEMMA StartKeeps ==
    ASSUME MirrorInv, NEW r \in Requests, NEW ask \in Asks,
           StartRequest(r, ask[1], ask[2], ask[3])
    PROVE  MirrorInv'
<1>1. PICK op, p, n : op = ask[1] /\ p = ask[2] /\ n = ask[3]
  OBVIOUS
<1>2. /\ op \in {"cancel", "resume", "release", "delete", "erase", "remove", "plan",
                 "seats"}
      /\ p \in Plans \cup {NoPlan} /\ n \in Seats \cup {0}
      /\ op = "plan" => p \in Plans
      /\ op = "seats" => n \in Seats
  BY <1>1 DEF Asks
<1>3. StartRequest(r, op, p, n)
  BY <1>1
<1>4. op \notin {"delete", "erase", "remove"} => row # NoRow
  BY <1>3, RowFacts DEF StartRequest
<1>5. PICK j : j = [Idle EXCEPT !.stage = op, !.seen = row, !.owner = customer,
                                !.plan = p, !.seats = n]
  OBVIOUS
<1>6. op \in Stages /\ op \in RequestStages
  BY <1>2 DEF Stages, RequestStages
<1>7. /\ j \in Jobs /\ j.stage = op /\ j.seen = row /\ j.plan = p /\ j.seats = n
  BY <1>2, <1>5, <1>6, IdleIsSane, TypeFacts DEF Jobs
<1>8. Sane(j)
  BY <1>2, <1>4, <1>7 DEF Sane, NeedRow
<1>9. JobsAreSane' /\ \A w \in Workers : job'[w] = job[w]
  BY <1>3, <1>5, <1>6, <1>7, <1>8, RequestMoves, TypeFacts DEF StartRequest
<1>10. BoundsOK
  BY <1>3, ChangeBounds DEF StartRequest
<1>11. QueueGrows /\ stripe' \in Subs
  BY <1>3, UnchangedQueueGrows, TypeFacts DEF StartRequest
<1> QED
  BY <1>3, <1>9, <1>10, <1>11, RowsKept DEF StartRequest

\* A request that has Stripe do something, or nothing, and touches no row.
RequestOnly(r) ==
    \/ CancelRelease(r) \/ SetCancel(r) \/ SetSeats(r) \/ ReleasePending(r)
    \/ RetrieveForPlan(r) \/ ScheduleDowngrade(r) \/ ReleaseForPlan(r)
    \/ ModifyPlan(r) \/ EraseAtStripe(r) \/ RequestFails(r)

\* What it makes of the subscription at Stripe is one.
LEMMA RequestAtStripe ==
    ASSUME MirrorInv, NEW r \in Requests, RequestOnly(r)
    PROVE  stripe' \in Subs /\ QueueGrows
<1>0. stripe \in Subs /\ queue \in Seq(Events)
  BY TypeFacts
<1>1. ASSUME UNCHANGED <<stripe, queue>> PROVE stripe' \in Subs /\ QueueGrows
  BY <1>0, <1>1, UnchangedQueueGrows
<1>2. CASE CancelRelease(r) \/ ReleasePending(r) \/ ReleaseForPlan(r)
  BY <1>0, <1>1, <1>2, ReleaseFacts DEF CancelRelease, ReleasePending, ReleaseForPlan
<1>3. CASE EraseAtStripe(r)
  BY <1>0, <1>1, <1>3, TerminateFacts DEF EraseAtStripe
<1>4. CASE SetCancel(r)
  <2>1. PICK sub : sub = [stripe EXCEPT !.cancel = job[r].stage = "cancel_modify"]
    OBVIOUS
  <2>2. sub \in Subs
    BY <1>0, <2>1 DEF Subs
  <2>3. Modify(sub)
    BY <1>4, <2>1 DEF SetCancel
  <2> QED
    BY <1>0, <2>2, <2>3, ModifyFacts
<1>5. CASE SetSeats(r)
  <2>1. job[r].seats \in Seats
    BY <1>5, RequestFacts DEF SetSeats
  <2>2. [stripe EXCEPT !.seats = job[r].seats] \in Subs
    BY <1>0, <2>1 DEF Subs
  <2> QED
    BY <1>0, <1>5, <2>2, ModifyFacts DEF SetSeats
<1>6. CASE ScheduleDowngrade(r)
  <2>1. job[r].seats \in Seats /\ job[r].plan \in Plans /\ job[r].sub.plan \in Plans
    BY <1>6, RequestFacts, SubFields DEF ScheduleDowngrade
  <2>2. [stripe EXCEPT !.plan = job[r].sub.plan, !.seats = job[r].seats,
                       !.sched = job[r].plan] \in Subs
    BY <1>0, <2>1 DEF Subs
  <2> QED
    BY <1>0, <1>6, <2>2, ModifyFacts DEF ScheduleDowngrade
<1>7. CASE ModifyPlan(r)
  <2>1. job[r].seats \in Seats /\ job[r].plan \in Plans
    BY <1>7, RequestFacts DEF ModifyPlan
  <2>2. [stripe EXCEPT !.plan = job[r].plan, !.seats = job[r].seats] \in Subs
    BY <1>0, <2>1 DEF Subs
  <2> QED
    BY <1>0, <1>7, <2>2, ModifyFacts DEF ModifyPlan
<1>8. CASE RetrieveForPlan(r) \/ RequestFails(r)
  BY <1>1, <1>8 DEF RetrieveForPlan, RequestFails
<1> QED
  BY <1>2, <1>3, <1>4, <1>5, <1>6, <1>7, <1>8 DEF RequestOnly

\* And it goes on knowing what its stage needs.
LEMMA RequestGoesOn ==
    ASSUME MirrorInv, NEW r \in Requests, RequestOnly(r)
    PROVE  JobsAreSane' /\ \A w \in Workers : job'[w] = job[w]
<1>0. JobsAreSane /\ stripe \in Subs
  BY TypeFacts
<1>1. ASSUME Finish(r) PROVE JobsAreSane' /\ \A w \in Workers : job'[w] = job[w]
  BY <1>0, <1>1, RequestFinishes
<1>2. CASE CancelRelease(r)
  <2>1. job[r].seen # NoRow
    BY <1>2, RequestFacts DEF CancelRelease, NeedRow
  <2>2. Step(r, "cancel_modify") /\ "cancel_modify" \in RequestStages
    BY <1>2 DEF CancelRelease, RequestStages
  <2> QED
    BY <1>0, <2>1, <2>2, RequestSteps
<1>3. CASE SetCancel(r)
  <2>1. PICK sub : sub = [stripe EXCEPT !.cancel = job[r].stage = "cancel_modify"]
    OBVIOUS
  <2>2. sub \in Subs
    BY <1>0, <2>1 DEF Subs
  <2>3. PICK j : j = [job[r] EXCEPT !.stage = "mirror", !.sub = sub]
    OBVIOUS
  <2>4. Goto(r, j) /\ job[r].seen # NoRow /\ job[r] \in Jobs
    BY <1>3, <2>1, <2>3, RequestFacts DEF SetCancel, NeedRow
  <2>5. j \in Jobs /\ j.stage = "mirror" /\ j.seen = job[r].seen
    BY <2>2, <2>3, <2>4 DEF Jobs, Stages
  <2>6. Sane(j) /\ j.stage \in RequestStages
    BY <2>4, <2>5 DEF Sane, RequestStages
  <2> QED
    BY <1>0, <2>4, <2>6, RequestMoves
<1>4. CASE SetSeats(r)
  <2>1. job[r].seats \in Seats /\ job[r].seen # NoRow
    BY <1>4, RequestFacts DEF SetSeats, NeedRow
  <2>2. CASE Step(r, "seats_save")
    BY <1>0, <2>1, <2>2, RequestSteps, "seats_save" \in RequestStages DEF RequestStages
  <2> QED
    BY <1>1, <1>4, <2>2 DEF SetSeats
<1>5. CASE ReleasePending(r)
  <2>1. job[r].seen # NoRow
    BY <1>5, RequestFacts DEF ReleasePending, NeedRow
  <2>2. CASE Step(r, "cleared")
    BY <1>0, <2>1, <2>2, RequestSteps, "cleared" \in RequestStages DEF RequestStages
  <2> QED
    BY <1>1, <1>5, <2>2 DEF ReleasePending
<1>6. CASE RetrieveForPlan(r)
  <2>1. PICK n : n = IF job[r].seats = 0 THEN stripe.seats ELSE job[r].seats
    OBVIOUS
  <2>2. n \in Seats
    BY <1>0, <2>1, RequestFacts, SubFields
  <2>3. PICK j : j = [job[r] EXCEPT !.stage = "plan_apply", !.sub = stripe, !.seats = n]
    OBVIOUS
  <2>4. /\ Goto(r, j) /\ job[r].seen # NoRow /\ job[r] \in Jobs /\ job[r].plan \in Plans
    BY <1>6, <2>1, <2>3, RequestFacts DEF RetrieveForPlan, NeedRow
  <2>5. /\ j \in Jobs /\ j.stage = "plan_apply" /\ j.seen = job[r].seen
        /\ j.seats = n /\ j.plan = job[r].plan
    BY <1>0, <2>2, <2>3, <2>4 DEF Jobs, Stages
  <2>6. Sane(j) /\ j.stage \in RequestStages
    BY <2>2, <2>4, <2>5 DEF Sane, RequestStages
  <2> QED
    BY <1>0, <2>4, <2>6, RequestMoves
<1>7. CASE ReleaseForPlan(r)
  <2>1. job[r].seen # NoRow /\ job[r].seats \in Seats /\ job[r].plan \in Plans
    BY <1>7, RequestFacts DEF ReleaseForPlan, NeedRow
  <2>2. Step(r, "plan_modify") /\ "plan_modify" \in RequestStages
    BY <1>7 DEF ReleaseForPlan, RequestStages
  <2> QED
    BY <1>0, <2>1, <2>2, RequestSteps
<1>8. CASE EraseAtStripe(r)
  <2>1. Step(r, "erase_rows") /\ "erase_rows" \in RequestStages /\ "erase_rows" \notin NeedRow
    BY <1>8 DEF EraseAtStripe, RequestStages, NeedRow
  <2> QED
    BY <1>0, <2>1, RequestSteps
<1>9. CASE ScheduleDowngrade(r) \/ ModifyPlan(r) \/ RequestFails(r)
  BY <1>1, <1>9 DEF ScheduleDowngrade, ModifyPlan, RequestFails
<1> QED
  BY <1>2, <1>3, <1>4, <1>5, <1>6, <1>7, <1>8, <1>9 DEF RequestOnly

LEMMA RequestKeeps ==
    ASSUME MirrorInv, NEW r \in Requests, RequestOnly(r)
    PROVE  MirrorInv'
<1>1. UNCHANGED <<team, db, cancelling, bounds, history, reordered>>
  BY DEF RequestOnly, CancelRelease, SetCancel, SetSeats, ReleasePending, RetrieveForPlan,
         ScheduleDowngrade, ReleaseForPlan, ModifyPlan, EraseAtStripe, RequestFails
<1>2. BoundsOK /\ UNCHANGED <<team, db>>
  BY <1>1, BoundsKept
<1> QED
  BY <1>2, RequestAtStripe, RequestGoesOn, RowsKept

----------------------------------------------------------------------------
(* The customer goes, and its row with it.                                 *)

LEMMA MoreFaults ==
    ASSUME NEW c \in Nat, NEW f \in Nat, NEW g \in Nat, f <= g, c <= 1 + f
    PROVE  c <= 1 + g
OBVIOUS

LEMMA CustomerGone ==
    ASSUME MirrorInv, UNCHANGED <<stripe, queue, team, customers>>,
           \/ UNCHANGED <<row, customer>>
           \/ row' = NoRow /\ customer' = 0,
           deletions' \subseteq deletions, BoundsOK,
           JobsAreSane', \A w \in Workers : job'[w] = job[w]
    PROVE  MirrorInv'
<1>1. MirrorTypeOK'
  <2>1. row' \in Rows /\ customer' \in {0, customers}
    BY TypeFacts, RowFacts
  <2> QED
    BY <2>1 DEF MirrorInv, MirrorTypeOK, BoundsOK, JobsAreSane
<1>2. OneCheckout'
  <2>1. CheckoutsWaiting' = CheckoutsWaiting /\ AtCheckout' = AtCheckout
    BY DEF CheckoutsWaiting, AtCheckout
  <2>2. customers \in Nat /\ faults \in Nat /\ faults' \in Nat /\ faults <= faults'
    BY TypeFacts DEF BoundsOK
  <2>3. customers' = customers /\ team' = team
    OBVIOUS
  <2>4. OneCheckout
    BY DEF MirrorInv
  <2>5. /\ \A i, k \in CheckoutsWaiting' : i = k
        /\ \A v, w \in AtCheckout' : v = w
        /\ CheckoutsWaiting' = {} \/ AtCheckout' = {}
        /\ AtCheckout' # {} => team'
    BY <2>1, <2>3, <2>4 DEF OneCheckout
  <2>6. CheckoutsWaiting' # {} => team'
    BY <2>1, <2>3, <2>4 DEF OneCheckout
  <2>7. CheckoutsWaiting # {} => customers <= faults
    BY <2>4 DEF OneCheckout
  <2>8. customers <= 1 + faults
    BY <2>4 DEF OneCheckout
  <2>9. CheckoutsWaiting' # {} => customers' <= faults'
    BY <2>1, <2>2, <2>3, <2>7
  <2>10. customers' <= 1 + faults'
    <3>1. customers <= 1 + faults'
      BY Zenon, <2>2, <2>8, MoreFaults
    <3> QED
      BY Zenon, <2>3, <3>1
  <2> QED
    BY <2>5, <2>6, <2>9, <2>10 DEF OneCheckout
<1>3. RowComes'
  <2>1. CASE customer' = 0
    BY <2>1 DEF RowComes
  <2>2. CASE UNCHANGED <<row, customer>>
    BY <2>2 DEF MirrorInv, RowComes, Bringing, BoundsOK
  <2> QED
    BY <2>1, <2>2
<1> QED
  BY <1>1, <1>2, <1>3 DEF MirrorInv

\* Marking what others have read as old keeps the history well typed.
LEMMA WroteFacts ==
    ASSUME MirrorInv, NEW a \in Actors, Wrote(a) \/ KeptRow(a)
    PROVE  stale' \subseteq Actors /\ overlapped' \in BOOLEAN
BY DEF MirrorInv, MirrorTypeOK, Wrote, KeptRow, Busy

LEMMA DeletionKeeps ==
    ASSUME MirrorInv, NEW r \in Requests, DeleteOrg(r) \/ EraseRows(r) \/ RemoveMember(r)
    PROVE  MirrorInv'
<1>1. /\ UNCHANGED <<stripe, queue, team, customers, deletions, bounds, reordered>>
      /\ Finish(r)
      /\ Wrote(r) \/ KeptRow(r)
      /\ UNCHANGED <<row, customer>> \/ (row' = NoRow /\ customer' = 0)
      /\ cancelling' \in {"none", "queued", "failed"}
      /\ dropped' = dropped \/ dropped' = TRUE
  BY DEF DeleteOrg, EraseRows, RemoveMember, KeptRow, MirrorInv, MirrorTypeOK
<1>2. JobsAreSane' /\ \A w \in Workers : job'[w] = job[w]
  BY <1>1, RequestFinishes, TypeFacts
<1>3. stale' \subseteq Actors /\ overlapped' \in BOOLEAN
  BY <1>1, WroteFacts, ActorFacts
<1>4. dropped' \in BOOLEAN /\ (dropped => dropped') /\ reordered' \in BOOLEAN
  <2>1. dropped \in BOOLEAN /\ reordered \in BOOLEAN
    BY DEF MirrorInv, MirrorTypeOK
  <2>2. dropped' = dropped \/ dropped' = TRUE
    BY <1>1
  <2>3. reordered' = reordered
    BY <1>1
  <2>4. CASE dropped' = dropped
    BY <2>1, <2>3, <2>4
  <2>5. CASE dropped' = TRUE
    BY <2>1, <2>3, <2>5
  <2> QED
    BY <2>2, <2>4, <2>5
<1>5. changes' = changes /\ faults' = faults /\ retries' = retries
  BY <1>1 DEF bounds
<1>6. /\ changes' \in 0..MaxChanges /\ faults' \in 0..MaxFaults /\ faults <= faults'
      /\ retries' \in 0..MaxRetries
  BY <1>5, TypeFacts DEF MirrorInv, MirrorTypeOK
<1>7. BoundsOK
  BY <1>1, <1>3, <1>4, <1>6 DEF BoundsOK
<1> QED
  BY <1>1, <1>2, <1>7, CustomerGone

LEMMA TasksKeep ==
    ASSUME MirrorInv,
           \/ \E c \in deletions : DeleteCanceledOrg(c)
           \/ CancelStripeSub \/ CancelStripeSubFails
    PROVE  MirrorInv'
<1>0. JobsAreSane /\ stripe \in Subs /\ queue \in Seq(Events)
  BY TypeFacts
<1>1. job' = job
  BY DEF DeleteCanceledOrg, CancelStripeSub, CancelStripeSubFails
<1>2. JobsAreSane' /\ \A w \in Workers : job'[w] = job[w]
  BY <1>0, <1>1 DEF JobsAreSane, Sane
<1>3. ASSUME NEW c \in deletions, DeleteCanceledOrg(c) PROVE MirrorInv'
  <2>1. /\ UNCHANGED <<stripe, queue, team, customers>>
        /\ UNCHANGED <<cancelling, bounds, overlapped, dropped, reordered>>
        /\ UNCHANGED <<row, customer>> \/ (row' = NoRow /\ customer' = 0)
        /\ deletions' \subseteq deletions
        /\ stale' \subseteq stale \cup Busy
    BY <1>3 DEF DeleteCanceledOrg
  <2>2. BoundsOK
    BY <2>1, TypeFacts DEF BoundsOK, bounds, MirrorInv, MirrorTypeOK, Busy
  <2> QED
    BY <1>2, <2>1, <2>2, CustomerGone
<1>4. CASE CancelStripeSub
  <2>1. BoundsOK /\ UNCHANGED <<team, db>>
    BY <1>4, TypeFacts DEF CancelStripeSub, BoundsOK, bounds, history, MirrorInv, MirrorTypeOK
  <2>2. stripe' \in Subs /\ QueueGrows
    BY <1>0, <1>4, TerminateFacts, UnchangedQueueGrows DEF CancelStripeSub
  <2> QED
    BY <1>2, <2>1, <2>2, RowsKept
<1>5. CASE CancelStripeSubFails
  <2>0. faults' \in 0..MaxFaults /\ faults <= faults'
    BY <1>5, TypeFacts, MirrorAssumption DEF CancelStripeSubFails
  <2>1. BoundsOK /\ UNCHANGED <<team, db>>
    BY <1>5, <2>0, TypeFacts
       DEF CancelStripeSubFails, BoundsOK, history, MirrorInv, MirrorTypeOK
  <2>2. stripe' \in Subs /\ QueueGrows
    BY <1>0, <1>5, UnchangedQueueGrows DEF CancelStripeSubFails
  <2> QED
    BY <1>2, <2>1, <2>2, RowsKept
<1> QED
  BY <1>3, <1>4, <1>5

----------------------------------------------------------------------------
(* Saving a row.                                                           *)

\* Whatever a writer has read, what it saves is a row, and a save that goes
\* through leaves one.
LEMMA SaveFacts ==
    ASSUME MirrorInv, NEW a \in Actors, Save(a)
    PROVE  /\ job[a].stage \in {"sync", "deleted", "pending", "cleared", "mirror", "seats_save"}
           /\ row' \in Rows
           /\ Savable(a) => row' \in RealRows
           /\ ~Savable(a) => row' = row
           /\ JobsAreSane'
           /\ job'[a] = Idle /\ \A b \in Actors : b # a => job'[b] = job[b]
<1>1. job[a].stage \in {"sync", "deleted", "pending", "cleared", "mirror", "seats_save"}
      /\ Finish(a)
  BY DEF Save
<1>2. Sane(job[a]) /\ row \in Rows /\ JobsAreSane
  BY TypeFacts DEF JobsAreSane
<1>3. NewRow(job[a]) \in RealRows
  BY <1>1, <1>2, NewRowType
<1>4. /\ Savable(a) => row' = NewRow(job[a])
      /\ ~Savable(a) => row' = row
  BY DEF Save
<1>5. Goto(a, Idle) /\ "idle" \in WorkerStages /\ "idle" \in RequestStages
  BY <1>1 DEF Finish, WorkerStages, RequestStages
<1>6. /\ JobsAreSane'
      /\ job'[a] = Idle /\ \A b \in Actors : b # a => job'[b] = job[b]
  BY <1>2, <1>5, IdleIsSane, GotoFacts
<1> QED
  BY <1>1, <1>2, <1>3, <1>4, <1>6, RowFacts

LEMMA SaveKeeps ==
    ASSUME MirrorInv, NEW a \in Actors, Save(a)
    PROVE  MirrorInv'
<1>0. UNCHANGED <<stripe, queue, team, customer, customers, cancelling, bounds, dropped,
                  reordered>>
  BY DEF Save
<1>1. MirrorTypeOK'
  <2>1. deletions' \subseteq 1..customers
    <3>1. CASE deletions' = deletions
      BY <3>1 DEF MirrorInv, MirrorTypeOK
    <3>2. CASE Savable(a) /\ deletions' = deletions \cup {job[a].owner}
      <4>1. job[a].owner = customers /\ customers # 0 /\ customers \in Nat
        BY <3>2, TypeFacts DEF Savable
      <4>2. job[a].owner \in 1..customers
        BY <4>1
      <4> QED
        BY <3>2, <4>2 DEF MirrorInv, MirrorTypeOK
    <3> QED
      BY <3>1, <3>2 DEF Save
  <2>2. stale' \subseteq Actors /\ overlapped' \in BOOLEAN
    BY WroteFacts DEF Save
  <2>3. row' \in Rows /\ job' \in [Actors -> Jobs]
    BY SaveFacts DEF JobsAreSane
  <2> QED
    BY <1>0, <2>1, <2>2, <2>3 DEF MirrorInv, MirrorTypeOK, bounds
<1>2. AtCheckout' = AtCheckout
  <2>1. job[a].stage # "checkout" /\ job'[a].stage # "checkout"
    BY SaveFacts, IdleIsSane
  <2>2. \A w \in Workers : job'[w].stage = "checkout" <=> job[w].stage = "checkout"
    BY <2>1, SaveFacts, ActorFacts
  <2> QED
    BY <2>2 DEF AtCheckout
<1>3. OneCheckout'
  <2>1. CheckoutsWaiting' = CheckoutsWaiting
    BY <1>0 DEF CheckoutsWaiting
  <2>2. team' = team /\ customers' = customers /\ faults' = faults
    BY <1>0 DEF bounds
  <2> QED
    BY <1>2, <2>1, <2>2 DEF MirrorInv, OneCheckout
<1>4. RowComes'
  <2> SUFFICES ASSUME customer # 0, row' = NoRow, ~dropped
               PROVE  \/ \E i \in DOMAIN queue :
                            queue[i].kind = IF team THEN "checkout" ELSE "sync"
                      \/ \E w \in Workers : Bringing(w)'
    BY <1>0 DEF RowComes
  <2>1. ~Savable(a) /\ row = NoRow
    BY SaveFacts, RowFacts
  <2>2. CASE \E i \in DOMAIN queue : queue[i].kind = IF team THEN "checkout" ELSE "sync"
    BY <2>2
  <2>3. ASSUME NEW w \in Workers, Bringing(w) PROVE Bringing(w)'
    <3>1. w # a
      BY <2>1, <2>3, SaveFacts DEF Bringing, Savable
    <3>2. job'[w] = job[w] /\ customer' = customer
      BY <1>0, <3>1, SaveFacts, ActorFacts
    <3> QED
      BY <2>3, <3>2 DEF Bringing
  <2> QED
    BY <2>1, <2>2, <2>3 DEF MirrorInv, RowComes
<1> QED
  BY <1>1, <1>3, <1>4, SaveFacts DEF MirrorInv

----------------------------------------------------------------------------
(* Webhook handlers.                                                       *)

LEMMA WorkerFacts ==
    ASSUME MirrorInv, NEW w \in Workers
    PROVE  /\ w \in Actors /\ w \notin Requests
           /\ job[w] \in Jobs /\ Sane(job[w]) /\ job[w].stage \in WorkerStages
           /\ job[w].sub \in Subs /\ job[w].seen \in Rows /\ job[w].owner \in Nat
<1>1. w \in Actors /\ w \notin Requests
  BY ActorFacts
<1>2. job[w] \in Jobs /\ Sane(job[w]) /\ job[w].stage \in WorkerStages
  BY <1>1, TypeFacts DEF JobsAreSane
<1> QED
  BY <1>1, <1>2 DEF Jobs

\* Where the event at m is once the one at i has been taken out.
Shift(m, i) == IF m < i THEN m ELSE m - 1

LEMMA ShiftFacts ==
    ASSUME queue \in Seq(Events), NEW i \in DOMAIN queue, queue' = RemoveAt(queue, i)
    PROVE  /\ queue' \in Seq(Events)
           /\ \A m \in DOMAIN queue : m # i =>
                 Shift(m, i) \in DOMAIN queue' /\ queue'[Shift(m, i)] = queue[m]
           /\ \A k \in DOMAIN queue' :
                 \E m \in DOMAIN queue : m # i /\ k = Shift(m, i) /\ queue'[k] = queue[m]
<1>1. /\ queue' \in Seq(Events) /\ Len(queue') = Len(queue) - 1
      /\ \A k \in 1..(Len(queue) - 1) :
            queue'[k] = IF k < i THEN queue[k] ELSE queue[k + 1]
  BY RemoveAtFacts
<1>2. Len(queue) \in Nat /\ DOMAIN queue = 1..Len(queue) /\ i \in 1..Len(queue)
  OBVIOUS
<1>3. DOMAIN queue' = 1..(Len(queue) - 1)
  BY <1>1
<1>4. ASSUME NEW m \in DOMAIN queue, m # i
      PROVE  Shift(m, i) \in DOMAIN queue' /\ queue'[Shift(m, i)] = queue[m]
  <2>1. CASE m < i
    BY <1>1, <1>2, <1>3, <2>1 DEF Shift
  <2>2. CASE m > i
    <3>1. m - 1 \in 1..(Len(queue) - 1) /\ ~(m - 1 < i) /\ (m - 1) + 1 = m
      BY <1>2, <2>2
    <3>2. queue'[m - 1] = queue[m]
      BY <1>1, <3>1
    <3>3. Shift(m, i) = m - 1
      BY <1>2, <2>2 DEF Shift
    <3> QED
      BY <1>3, <3>1, <3>2, <3>3
  <2> QED
    BY <1>2, <1>4, <2>1, <2>2
<1>5. ASSUME NEW k \in DOMAIN queue'
      PROVE  \E m \in DOMAIN queue : m # i /\ k = Shift(m, i) /\ queue'[k] = queue[m]
  <2>1. CASE k < i
    <3>1. k \in DOMAIN queue /\ k # i /\ k = Shift(k, i) /\ queue'[k] = queue[k]
      BY <1>1, <1>2, <1>3, <2>1 DEF Shift
    <3> QED
      BY <3>1
  <2>2. CASE ~(k < i)
    <3>1. /\ k + 1 \in DOMAIN queue /\ k + 1 # i /\ k = Shift(k + 1, i)
          /\ queue'[k] = queue[k + 1]
      BY <1>1, <1>2, <1>3, <2>2 DEF Shift
    <3> QED
      BY <3>1
  <2> QED
    BY <2>1, <2>2
<1> QED
  BY <1>1, <1>4, <1>5

\* A worker that reads an event remembers what that event's save needs.
LEMMA TakenIsSane ==
    ASSUME MirrorInv, NEW e \in Events, e.kind # "checkout", ~Ignored(e),
           NEW j, j = [Idle EXCEPT !.stage = e.kind, !.seen = row, !.owner = customer,
                                   !.sub = e.sub]
    PROVE  /\ Sane(j) /\ j.stage \in WorkerStages /\ j.stage # "checkout"
           /\ j.stage = e.kind /\ j.seen = row /\ j.owner = customer /\ j.sub = e.sub
<1>1. e.kind \in {"sync", "deleted", "pending", "cleared"} /\ e.sub \in Subs
  BY DEF Events, Kinds
<1>2. row \in Rows /\ customer \in Nat /\ Idle \in Jobs
  BY TypeFacts, IdleIsSane
<1>3. e.kind \in Stages /\ e.kind \in WorkerStages
  BY <1>1 DEF Stages, WorkerStages
<1>4. j \in Jobs /\ j.stage = e.kind /\ j.seen = row /\ j.owner = customer /\ j.sub = e.sub
  BY <1>1, <1>2, <1>3 DEF Jobs
<1>5. e.kind \in {"deleted", "pending", "cleared"} => row # NoRow
  BY RowFacts DEF Ignored
<1>6. j.stage \in NeedRow => j.seen # NoRow
  BY <1>1, <1>4, <1>5 DEF NeedRow
<1>7. Sane(j)
  BY <1>1, <1>4, <1>6 DEF Sane
<1> QED
  BY <1>1, <1>3, <1>4, <1>7

LEMMA TakeEventKeeps ==
    ASSUME MirrorInv, NEW w \in Workers, NEW i \in DOMAIN queue, TakeEvent(w, i)
    PROVE  MirrorInv'
<1>0. /\ UNCHANGED <<stripe, team, db, cancelling, bounds, dropped>>
      /\ job[w].stage = "idle" /\ queue[i].kind # "checkout" /\ queue' = RemoveAt(queue, i)
  BY DEF TakeEvent
<1>1. queue \in Seq(Events) /\ queue[i] \in Events /\ JobsAreSane
  BY TypeFacts
<1>2. /\ queue' \in Seq(Events)
      /\ \A m \in DOMAIN queue : m # i =>
            Shift(m, i) \in DOMAIN queue' /\ queue'[Shift(m, i)] = queue[m]
      /\ \A k \in DOMAIN queue' :
            \E m \in DOMAIN queue : m # i /\ k = Shift(m, i) /\ queue'[k] = queue[m]
  BY <1>0, <1>1, ShiftFacts
<1>3. /\ JobsAreSane'
      /\ \A b \in Actors : b # w => job'[b] = job[b]
      /\ job'[w].stage # "checkout"
      /\ ~Ignored(queue[i]) =>
            job'[w].stage = queue[i].kind /\ job'[w].seen = row /\ job'[w].owner = customer
  <2>1. CASE Ignored(queue[i])
    <3>1. job' = job
      BY <2>1 DEF TakeEvent
    <3> QED
      BY <1>0, <1>1, <2>1, <3>1 DEF JobsAreSane, Sane
  <2>2. CASE ~Ignored(queue[i])
    <3>1. PICK j : j = [Idle EXCEPT !.stage = queue[i].kind, !.seen = row,
                                    !.owner = customer, !.sub = queue[i].sub]
      OBVIOUS
    <3>2. /\ Sane(j) /\ j.stage \in WorkerStages /\ j.stage # "checkout"
          /\ j.stage = queue[i].kind /\ j.seen = row /\ j.owner = customer
      BY <1>0, <1>1, <2>2, <3>1, TakenIsSane
    <3>3. Goto(w, j)
      BY <2>2, <3>1 DEF TakeEvent
    <3> QED
      BY <1>1, <3>2, <3>3, WorkerFacts, GotoFacts
  <2> QED
    BY <2>1, <2>2
<1>4. MirrorTypeOK'
  <2>1. /\ stale' \subseteq Actors /\ overlapped' \in BOOLEAN /\ reordered' \in BOOLEAN
    BY DEF TakeEvent, MirrorInv, MirrorTypeOK
  <2>2. queue' \in Seq([kind : Kinds, sub : Subs])
    BY <1>2 DEF Events
  <2> QED
    BY <1>0, <1>3, <2>1, <2>2 DEF MirrorInv, MirrorTypeOK, db, bounds, JobsAreSane
<1>5. AtCheckout' = AtCheckout
  <2>1. \A v \in Workers : job'[v].stage = "checkout" <=> job[v].stage = "checkout"
    BY <1>0, <1>3, ActorFacts
  <2> QED
    BY <2>1 DEF AtCheckout
<1>6. \A k \in CheckoutsWaiting' : \E m \in CheckoutsWaiting : k = Shift(m, i)
  BY <1>2 DEF CheckoutsWaiting
<1>7. OneCheckout'
  <2>0. team' = team /\ customers' = customers /\ faults' = faults /\ OneCheckout
    BY <1>0 DEF db, bounds, MirrorInv
  <2>1. \A k, l \in CheckoutsWaiting' : k = l
    BY <1>6, <2>0 DEF OneCheckout
  <2>2. CheckoutsWaiting' # {} => CheckoutsWaiting # {}
    BY <1>6
  <2> QED
    BY <1>5, <2>0, <2>1, <2>2 DEF OneCheckout
<1>8. RowComes'
  <2>0. customer' = customer /\ row' = row /\ team' = team
    BY <1>0 DEF db
  <2> SUFFICES ASSUME customer # 0, row = NoRow, ~dropped
               PROVE  \/ \E k \in DOMAIN queue' :
                            queue'[k].kind = IF team THEN "checkout" ELSE "sync"
                      \/ \E v \in Workers : Bringing(v)'
    BY <1>0, <2>0 DEF RowComes
  <2>1. ASSUME NEW v \in Workers, Bringing(v) PROVE Bringing(v)'
    <3>1. v # w
      BY <1>0, <2>1 DEF Bringing
    <3> QED
      BY <1>3, <2>0, <2>1, <3>1, ActorFacts DEF Bringing
  <2>2. ASSUME NEW m \in DOMAIN queue, queue[m].kind = IF team THEN "checkout" ELSE "sync"
        PROVE  \/ \E k \in DOMAIN queue' :
                     queue'[k].kind = IF team THEN "checkout" ELSE "sync"
               \/ Bringing(w)'
    <3>1. CASE m # i
      BY <1>2, <2>2, <3>1
    <3>2. CASE m = i
      <4>1. queue[i].kind = "sync"
        BY <1>0, <2>2, <3>2
      <4>2. ~Ignored(queue[i])
        BY <4>1 DEF Ignored
      <4> QED
        BY <1>3, <2>0, <4>1, <4>2 DEF Bringing
    <3> QED
      BY <3>1, <3>2
  <2> QED
    BY <2>1, <2>2 DEF MirrorInv, RowComes
<1> QED
  BY <1>3, <1>4, <1>7, <1>8 DEF MirrorInv

LEMMA TakeCheckoutKeeps ==
    ASSUME MirrorInv, NEW w \in Workers, NEW i \in DOMAIN queue, TakeCheckout(w, i)
    PROVE  MirrorInv'
<1>0. /\ UNCHANGED <<stripe, team, row, deletions, cancelling, bounds, overlapped, dropped>>
      /\ job[w].stage = "idle" /\ queue[i].kind = "checkout" /\ queue' = RemoveAt(queue, i)
      /\ faults' = faults
  BY DEF TakeCheckout, bounds
<1>1. queue \in Seq(Events) /\ JobsAreSane /\ customers \in Nat /\ faults \in Nat
  BY TypeFacts
<1>2. OneCheckout /\ i \in CheckoutsWaiting
  BY <1>0 DEF MirrorInv, CheckoutsWaiting
<1>3. AtCheckout = {} /\ team
  BY <1>2 DEF OneCheckout
<1>4. customers <= faults
  BY <1>2 DEF OneCheckout
<1>5. PICK j : j = [Idle EXCEPT !.stage = "checkout"]
  OBVIOUS
<1>6. Sane(j) /\ j.stage = "checkout" /\ j.stage \in WorkerStages
  <2>1. j \in Jobs /\ j.stage = "checkout"
    BY <1>5, IdleIsSane DEF Jobs, Stages
  <2> QED
    BY <2>1 DEF Sane, NeedRow, WorkerStages
<1>7. JobsAreSane' /\ job'[w] = j /\ \A b \in Actors : b # w => job'[b] = job[b]
  <2>1. Goto(w, j)
    BY <1>5 DEF TakeCheckout
  <2> QED
    BY <1>1, <1>6, <2>1, WorkerFacts, GotoFacts
<1>8. customers' \in Nat /\ customers <= customers' /\ customers' <= 1 + faults
      /\ customer' = customers'
  BY <1>1, <1>4 DEF TakeCheckout
<1>9. /\ queue' \in Seq(Events)
      /\ \A k \in DOMAIN queue' :
            \E m \in DOMAIN queue : m # i /\ k = Shift(m, i) /\ queue'[k] = queue[m]
  BY <1>0, <1>1, ShiftFacts
<1>10. CheckoutsWaiting' = {}
  <2>1. \A m \in CheckoutsWaiting : m = i
    BY <1>2 DEF OneCheckout
  <2> QED
    BY <1>9, <2>1 DEF CheckoutsWaiting
<1>11. AtCheckout' = {w}
  <2>1. \A v \in Workers : v # w => job'[v].stage # "checkout"
    BY <1>3, <1>7, ActorFacts DEF AtCheckout
  <2> QED
    BY <1>6, <1>7, <2>1 DEF AtCheckout
<1>12. MirrorTypeOK'
  <2>1. /\ stale' \subseteq Actors /\ reordered' \in BOOLEAN
    BY DEF TakeCheckout, MirrorInv, MirrorTypeOK
  <2>2. queue' \in Seq([kind : Kinds, sub : Subs])
    BY <1>9 DEF Events
  <2>3. faults <= MaxFaults /\ MaxFaults \in Nat /\ deletions \subseteq 1..customers
    BY MirrorAssumption DEF MirrorInv, MirrorTypeOK
  <2>4. customers' \in 0..(1 + MaxFaults) /\ customer' \in {0, customers'}
    BY <1>1, <1>8, <2>3
  <2>5. deletions' \subseteq 1..customers'
    BY <1>0, <1>1, <1>8, <2>3
  <2> QED
    BY <1>0, <1>7, <2>1, <2>2, <2>4, <2>5 DEF MirrorInv, MirrorTypeOK, bounds, JobsAreSane
<1>13. OneCheckout'
  <2>1. team' = team
    BY <1>0
  <2>2. customers' <= 1 + faults'
    BY <1>0, <1>8
  <2> QED
    BY <1>3, <1>10, <1>11, <2>1, <2>2 DEF OneCheckout
<1>14. RowComes'
  <2>1. Bringing(w)'
    BY <1>6, <1>7 DEF Bringing
  <2> QED
    BY <2>1 DEF RowComes
<1> QED
  BY <1>7, <1>12, <1>13, <1>14 DEF MirrorInv

\* A checkout whose buyer has gone is dropped.
LEMMA NobodyKeeps ==
    ASSUME MirrorInv, NEW w \in Workers, NEW i \in DOMAIN queue, CheckoutForNobody(w, i)
    PROVE  MirrorInv'
<1>0. /\ UNCHANGED <<stripe, team, db, job, cancelling, bounds, stale, overlapped>>
      /\ queue' = RemoveAt(queue, i) /\ dropped' = TRUE
  BY DEF CheckoutForNobody
<1>1. queue \in Seq(Events) /\ JobsAreSane
  BY TypeFacts
<1>2. /\ queue' \in Seq(Events)
      /\ \A k \in DOMAIN queue' :
            \E m \in DOMAIN queue : m # i /\ k = Shift(m, i) /\ queue'[k] = queue[m]
  BY <1>0, <1>1, ShiftFacts
<1>3. MirrorTypeOK'
  <2>1. reordered' \in BOOLEAN
    BY DEF CheckoutForNobody, MirrorInv, MirrorTypeOK
  <2>2. queue' \in Seq([kind : Kinds, sub : Subs])
    BY <1>2 DEF Events
  <2> QED
    BY <1>0, <2>1, <2>2 DEF MirrorInv, MirrorTypeOK, db, bounds
<1>4. OneCheckout'
  <2>0. team' = team /\ customers' = customers /\ faults' = faults /\ OneCheckout
    BY <1>0 DEF db, bounds, MirrorInv
  <2>1. \A k \in CheckoutsWaiting' : \E m \in CheckoutsWaiting : k = Shift(m, i)
    BY <1>2 DEF CheckoutsWaiting
  <2>2. \A k, l \in CheckoutsWaiting' : k = l
    BY <2>0, <2>1 DEF OneCheckout
  <2>3. CheckoutsWaiting' # {} => CheckoutsWaiting # {}
    BY <2>1
  <2>4. AtCheckout' = AtCheckout
    BY <1>0 DEF AtCheckout
  <2> QED
    BY <2>0, <2>2, <2>3, <2>4 DEF OneCheckout
<1>5. RowComes'
  BY <1>0 DEF RowComes, db
<1>6. JobsAreSane'
  BY <1>0, <1>1 DEF JobsAreSane, Sane
<1> QED
  BY <1>3, <1>4, <1>5, <1>6 DEF MirrorInv

\* The team's subscription is fetched, and then the row is read.
LEMMA CheckoutGoesOn ==
    ASSUME MirrorInv, NEW w \in Workers, RetrieveSub(w) \/ ReadForCheckout(w)
    PROVE  /\ JobsAreSane' /\ \A b \in Actors : b # w => job'[b] = job[b]
           /\ job'[w].stage # "checkout"
           /\ customer # 0 /\ row = NoRow => Bringing(w)'
           /\ dropped' \in BOOLEAN /\ (dropped => dropped')
<1>0. JobsAreSane /\ stripe \in Subs /\ row \in Rows /\ customer \in Nat
  BY TypeFacts
<1>1. CASE RetrieveSub(w)
  <2>1. PICK j : j = [job[w] EXCEPT !.stage = "retrieved", !.sub = stripe]
    OBVIOUS
  <2>2. j \in Jobs /\ j.stage = "retrieved"
    BY <1>0, <2>1, WorkerFacts DEF Jobs, Stages
  <2>3. Sane(j) /\ j.stage \in WorkerStages
    BY <2>2 DEF Sane, NeedRow, WorkerStages
  <2>4. Goto(w, j) /\ dropped' = dropped
    BY <1>1, <2>1 DEF RetrieveSub, history
  <2>5. JobsAreSane' /\ job'[w] = j /\ \A b \in Actors : b # w => job'[b] = job[b]
    BY <1>0, <2>3, <2>4, WorkerFacts, GotoFacts
  <2>6. dropped' \in BOOLEAN /\ (dropped => dropped')
    BY <2>4 DEF MirrorInv, MirrorTypeOK
  <2> QED
    BY <2>2, <2>5, <2>6 DEF Bringing
<1>2. CASE ReadForCheckout(w) /\ customer = 0
  <2>1. Goto(w, Idle) /\ dropped' = TRUE /\ "idle" \in WorkerStages
    BY <1>2 DEF ReadForCheckout, Finish, WorkerStages
  <2>2. JobsAreSane' /\ job'[w] = Idle /\ \A b \in Actors : b # w => job'[b] = job[b]
    BY <1>0, <2>1, IdleIsSane, WorkerFacts, GotoFacts
  <2> QED
    BY <1>2, <2>1, <2>2, IdleIsSane
<1>3. CASE ReadForCheckout(w) /\ customer # 0
  <2>1. PICK j : j = [job[w] EXCEPT !.stage = "sync", !.seen = row, !.owner = customer]
    OBVIOUS
  <2>2. j \in Jobs /\ j.stage = "sync" /\ j.seen = row /\ j.owner = customer
    BY <1>0, <2>1, WorkerFacts DEF Jobs, Stages
  <2>3. Sane(j) /\ j.stage \in WorkerStages
    BY <2>2 DEF Sane, NeedRow, WorkerStages
  <2>4. Goto(w, j) /\ dropped' = dropped /\ customer' = customer
    BY <1>3, <2>1 DEF ReadForCheckout, db
  <2>5. JobsAreSane' /\ job'[w] = j /\ \A b \in Actors : b # w => job'[b] = job[b]
    BY <1>0, <2>3, <2>4, WorkerFacts, GotoFacts
  <2>6. dropped' \in BOOLEAN /\ (dropped => dropped')
    BY <2>4 DEF MirrorInv, MirrorTypeOK
  <2> QED
    BY <2>2, <2>4, <2>5, <2>6 DEF Bringing
<1> QED
  BY <1>1, <1>2, <1>3

LEMMA CheckoutKeeps ==
    ASSUME MirrorInv, NEW w \in Workers, RetrieveSub(w) \/ ReadForCheckout(w)
    PROVE  MirrorInv'
<1>0. /\ UNCHANGED <<stripe, queue, team, db, cancelling, bounds, stale, overlapped, reordered>>
      /\ faults' = faults /\ customers' = customers /\ customer' = customer /\ row' = row
  BY DEF RetrieveSub, ReadForCheckout, history, db, bounds
<1>1. MirrorTypeOK'
  BY <1>0, CheckoutGoesOn DEF MirrorInv, MirrorTypeOK, db, bounds, JobsAreSane
<1>2. AtCheckout' \subseteq AtCheckout
  BY CheckoutGoesOn, ActorFacts DEF AtCheckout
<1>3. OneCheckout'
  <2>1. OneCheckout /\ CheckoutsWaiting' = CheckoutsWaiting
    BY <1>0 DEF CheckoutsWaiting, MirrorInv
  <2>2. /\ \A u, v \in AtCheckout' : u = v
        /\ CheckoutsWaiting' = {} \/ AtCheckout' = {}
        /\ AtCheckout' # {} => team'
    BY <1>0, <1>2, <2>1 DEF OneCheckout
  <2>3. /\ \A i, k \in CheckoutsWaiting' : i = k
        /\ CheckoutsWaiting' # {} => team' /\ customers' <= faults'
        /\ customers' <= 1 + faults'
    BY <1>0, <2>1 DEF OneCheckout
  <2> QED
    BY <2>2, <2>3 DEF OneCheckout
<1>4. RowComes'
  <2>1. ASSUME NEW v \in Workers, v # w, Bringing(v) PROVE Bringing(v)'
    BY <1>0, <2>1, CheckoutGoesOn, ActorFacts DEF Bringing
  <2>2. customer # 0 /\ row = NoRow => Bringing(w)'
    BY CheckoutGoesOn
  <2>3. dropped => dropped'
    BY CheckoutGoesOn
  <2> QED
    BY <1>0, <2>1, <2>2, <2>3 DEF MirrorInv, RowComes
<1> QED
  BY <1>1, <1>3, <1>4, CheckoutGoesOn DEF MirrorInv

\* A failed fetch puts the checkout back, at the price of a fault.
LEMMA RetryKeeps ==
    ASSUME MirrorInv, NEW w \in Workers, RetryCheckout(w)
    PROVE  MirrorInv'
<1>0. /\ UNCHANGED <<stripe, team, db, cancelling, changes, history, reordered>>
      /\ customers' = customers /\ customer' = customer /\ row' = row
      /\ w \in AtCheckout /\ OneCheckout
  BY DEF RetryCheckout, db, AtCheckout, MirrorInv
<1>1. JobsAreSane /\ queue \in Seq(Events) /\ faults \in Nat /\ customers \in Nat
  BY TypeFacts
<1>2. team /\ CheckoutsWaiting = {} /\ \A v \in AtCheckout : v = w
  BY <1>0 DEF OneCheckout
<1>3. PICK e : e = Event("checkout", Start0)
  OBVIOUS
<1>4. e \in Events /\ e.kind = "checkout"
  BY <1>3, Start0Type DEF Event, Events, Kinds
<1>5. queue' = Append(queue, e)
  BY <1>3 DEF RetryCheckout
<1>6. /\ queue' \in Seq(Events) /\ DOMAIN queue' = 1..(Len(queue) + 1)
      /\ queue'[Len(queue) + 1] = e /\ Len(queue) \in Nat
      /\ \A k \in 1..Len(queue) : queue'[k] = queue[k]
  BY <1>1, <1>4, <1>5
<1>7. CheckoutsWaiting' = {Len(queue) + 1}
  <2>1. \A k \in 1..Len(queue) : queue[k].kind # "checkout"
    BY <1>1, <1>2 DEF CheckoutsWaiting
  <2>2. \A k \in DOMAIN queue' : queue'[k].kind = "checkout" <=> k = Len(queue) + 1
    BY <1>4, <1>6, <2>1
  <2>3. Len(queue) + 1 \in DOMAIN queue'
    BY <1>6
  <2> QED
    BY <2>2, <2>3 DEF CheckoutsWaiting
<1>8. JobsAreSane' /\ job'[w] = Idle /\ \A b \in Actors : b # w => job'[b] = job[b]
  <2>1. Goto(w, Idle) /\ "idle" \in WorkerStages
    BY DEF RetryCheckout, Finish, WorkerStages
  <2> QED
    BY <1>1, <2>1, IdleIsSane, WorkerFacts, GotoFacts
<1>9. AtCheckout' = {}
  BY <1>2, <1>8, IdleIsSane, ActorFacts DEF AtCheckout
<1>10. faults' = faults + 1 /\ faults' \in 0..MaxFaults /\ retries' \in 0..MaxRetries
  BY <1>1, MirrorAssumption DEF RetryCheckout, MirrorInv, MirrorTypeOK
<1>11. MirrorTypeOK'
  <2>1. queue' \in Seq([kind : Kinds, sub : Subs])
    BY <1>6 DEF Events
  <2> QED
    BY <1>0, <1>8, <1>10, <2>1 DEF MirrorInv, MirrorTypeOK, db, history, JobsAreSane
<1>12. OneCheckout'
  <2>1. customers <= 1 + faults
    BY <1>0 DEF OneCheckout
  <2>2. customers' <= faults' /\ customers' <= 1 + faults'
    BY <1>0, <1>1, <1>10, <2>1
  <2>3. team'
    BY <1>0, <1>2
  <2> QED
    BY <1>7, <1>9, <2>2, <2>3 DEF OneCheckout
<1>13. RowComes'
  <2>1. team' /\ Len(queue) + 1 \in DOMAIN queue' /\ queue'[Len(queue) + 1].kind = "checkout"
    BY <1>0, <1>2, <1>4, <1>6
  <2> QED
    BY <2>1 DEF RowComes
<1> QED
  BY <1>8, <1>11, <1>12, <1>13 DEF MirrorInv

\* After the last retry the checkout is gone, and whatever it has made stays.
LEMMA GiveUpKeeps ==
    ASSUME MirrorInv, NEW w \in Workers, GiveUpCheckout(w)
    PROVE  MirrorInv'
<1>0. /\ UNCHANGED <<stripe, queue, team, db, cancelling, changes, retries, stale, overlapped,
                     reordered>>
      /\ customers' = customers /\ dropped' = TRUE /\ OneCheckout
  BY DEF GiveUpCheckout, db, MirrorInv
<1>1. JobsAreSane /\ faults \in Nat /\ customers \in Nat
  BY TypeFacts
<1>2. JobsAreSane' /\ job'[w] = Idle /\ \A b \in Actors : b # w => job'[b] = job[b]
  <2>1. Goto(w, Idle) /\ "idle" \in WorkerStages
    BY DEF GiveUpCheckout, Finish, WorkerStages
  <2> QED
    BY <1>1, <2>1, IdleIsSane, WorkerFacts, GotoFacts
<1>3. AtCheckout' \subseteq AtCheckout
  BY <1>2, IdleIsSane, ActorFacts DEF AtCheckout
<1>4. faults' = faults + 1 /\ faults' \in 0..MaxFaults
  BY <1>1, MirrorAssumption DEF GiveUpCheckout
<1>5. MirrorTypeOK'
  BY <1>0, <1>2, <1>4 DEF MirrorInv, MirrorTypeOK, db, JobsAreSane
<1>6. OneCheckout'
  <2>1. CheckoutsWaiting' = CheckoutsWaiting
    BY <1>0 DEF CheckoutsWaiting
  <2>2. /\ \A u, v \in AtCheckout' : u = v
        /\ CheckoutsWaiting' = {} \/ AtCheckout' = {}
        /\ AtCheckout' # {} => team'
        /\ \A i, k \in CheckoutsWaiting' : i = k
        /\ CheckoutsWaiting' # {} => team'
    BY <1>0, <1>3, <2>1 DEF OneCheckout
  <2>3. (CheckoutsWaiting # {} => customers <= faults) /\ customers <= 1 + faults
    BY <1>0 DEF OneCheckout
  <2>4. (CheckoutsWaiting' # {} => customers' <= faults') /\ customers' <= 1 + faults'
    BY <1>0, <1>1, <1>4, <2>1, <2>3
  <2> QED
    BY <2>2, <2>4 DEF OneCheckout
<1>7. RowComes'
  BY <1>0 DEF RowComes
<1> QED
  BY <1>2, <1>5, <1>6, <1>7 DEF MirrorInv

----------------------------------------------------------------------------
LEMMA MirrorInitially == Init => MirrorInv
<1> SUFFICES ASSUME Init PROVE MirrorInv
  OBVIOUS
<1>0. Start0 \in Subs /\ Idle \in Jobs /\ Sane(Idle) /\ Idle.stage = "idle"
  BY Start0Type, IdleIsSane
<1>1. PICK c, s : c = Event("checkout", Start0) /\ s = Event("sync", Start0)
  OBVIOUS
<1>2. c \in Events /\ s \in Events /\ c.kind = "checkout" /\ s.kind = "sync"
  BY <1>0, <1>1 DEF Event, Events, Kinds
<1>3. /\ team => queue \in {<<c, s>>, <<s, c>>}
      /\ ~team => queue = <<s>>
      /\ team => customers = 0
      /\ ~team => customers = 1
  BY <1>1 DEF Init
<1>4. queue \in Seq(Events) /\ customers \in {0, 1}
  <2>1. <<c, s>> \in Seq(Events) /\ <<s, c>> \in Seq(Events) /\ <<s>> \in Seq(Events)
    BY <1>2
  <2>2. CASE team
    BY <1>3, <2>1, <2>2
  <2>3. CASE ~team
    BY <1>3, <2>1, <2>3
  <2> QED
    BY <2>2, <2>3
<1>5. job = [a \in Actors |-> Idle]
  BY DEF Init
<1>6. JobsAreSane
  BY <1>0, <1>5, ActorFacts DEF JobsAreSane, WorkerStages, RequestStages
<1>7. MirrorTypeOK
  <2>1. queue \in Seq([kind : Kinds, sub : Subs])
    BY <1>4 DEF Events
  <2>2. customers \in 0..(1 + MaxFaults) /\ customer = customers
    BY <1>4, MirrorAssumption DEF Init
  <2>3. changes \in 0..MaxChanges /\ faults \in 0..MaxFaults /\ retries \in 0..MaxRetries
    BY MirrorAssumption DEF Init
  <2> QED
    BY <1>0, <1>6, <2>1, <2>2, <2>3, RowFacts DEF Init, MirrorTypeOK, JobsAreSane
<1>8. AtCheckout = {}
  BY <1>0, <1>5, ActorFacts DEF AtCheckout
<1>9. OneCheckout
  <2>1. CASE team
    <3>1. customers = 0 /\ faults = 0
      BY <1>3, <2>1 DEF Init
    <3>2. \A i, k \in CheckoutsWaiting : i = k
      <4>1. CASE queue = <<c, s>>
        <5>1. DOMAIN queue = {1, 2} /\ queue[2] = s
          BY <4>1
        <5>2. \A i \in CheckoutsWaiting : i = 1
          BY <1>2, <5>1 DEF CheckoutsWaiting
        <5> QED
          BY <5>2
      <4>2. CASE queue = <<s, c>>
        <5>1. DOMAIN queue = {1, 2} /\ queue[1] = s
          BY <4>2
        <5>2. \A i \in CheckoutsWaiting : i = 2
          BY <1>2, <5>1 DEF CheckoutsWaiting
        <5> QED
          BY <5>2
      <4> QED
        BY <1>3, <2>1, <4>1, <4>2
    <3>3. customers <= faults /\ customers <= 1 + faults
      BY <3>1
    <3> QED
      BY <1>8, <2>1, <3>2, <3>3 DEF OneCheckout
  <2>2. CASE ~team
    <3>1. customers <= 1 + faults
      BY <1>3, <2>2 DEF Init
    <3>2. DOMAIN queue = {1} /\ queue[1] = s
      BY <1>3, <2>2
    <3>3. CheckoutsWaiting = {}
      BY <1>2, <3>2 DEF CheckoutsWaiting
    <3> QED
      BY <1>8, <3>1, <3>3 DEF OneCheckout
  <2> QED
    BY <2>1, <2>2
<1>10. RowComes
  <2>1. CASE team
    <3>1. customer = 0
      BY <1>3, <2>1 DEF Init
    <3> QED
      BY <3>1 DEF RowComes
  <2>2. CASE ~team
    <3>1. 1 \in DOMAIN queue /\ queue[1].kind = "sync"
      BY <1>2, <1>3, <2>2
    <3> QED
      BY <2>2, <3>1 DEF RowComes
  <2> QED
    BY <2>1, <2>2
<1> QED
  BY <1>6, <1>7, <1>9, <1>10 DEF MirrorInv

LEMMA MirrorStep == MirrorInv /\ [Next]_vars => MirrorInv'
<1> SUFFICES ASSUME MirrorInv, [Next]_vars PROVE MirrorInv'
  OBVIOUS
<1>1. CASE UNCHANGED vars
  <2>1. /\ UNCHANGED <<stripe, queue, team, db, job, cancelling, bounds, history, reordered>>
    BY <1>1 DEF vars
  <2>2. BoundsOK
    BY <2>1, BoundsKept
  <2>3. JobsAreSane' /\ \A w \in Workers : job'[w] = job[w]
    BY <2>1, TypeFacts DEF JobsAreSane, Sane
  <2>4. QueueGrows /\ stripe' \in Subs
    BY <2>1, UnchangedQueueGrows, TypeFacts
  <2> QED
    BY <2>1, <2>2, <2>3, <2>4, RowsKept
<1>2. CASE Portal \/ Lapse \/ PeriodEnd
  BY <1>2, StripeKeeps
<1>3. ASSUME NEW w \in Workers, Handle(w) PROVE MirrorInv'
  BY <1>3, TakeEventKeeps, TakeCheckoutKeeps, NobodyKeeps, CheckoutKeeps, RetryKeeps,
     GiveUpKeeps DEF Handle
<1>4. ASSUME NEW r \in Requests, Serve(r) PROVE MirrorInv'
  <2>1. \/ \E ask \in Asks : StartRequest(r, ask[1], ask[2], ask[3])
        \/ RequestOnly(r)
        \/ DeleteOrg(r) \/ EraseRows(r) \/ RemoveMember(r)
    BY <1>4 DEF Serve, RequestOnly
  <2> QED
    BY <2>1, StartKeeps, RequestKeeps, DeletionKeeps
<1>5. ASSUME NEW a \in Actors, Save(a) PROVE MirrorInv'
  BY <1>5, SaveKeeps
<1>6. CASE \/ \E c \in deletions : DeleteCanceledOrg(c)
           \/ CancelStripeSub \/ CancelStripeSubFails
  BY <1>6, TasksKeep
<1> QED
  BY <1>1, <1>2, <1>3, <1>4, <1>5, <1>6 DEF Next

LEMMA MirrorInvariant == Spec => []MirrorInv
BY MirrorInitially, MirrorStep, PTL DEF Spec

\* Whatever overlaps and whatever order the events come in, the rows, the jobs
\* and the subscription keep their types: no save puts a field on a row that
\* is not there, and there are never more customers than checkouts tried.
THEOREM MirrorTypeCorrect == Spec => []MirrorTypeOK
<1>1. MirrorInv => MirrorTypeOK
  BY DEF MirrorInv
<1> QED
  BY <1>1, MirrorInvariant, PTL

\* A customer never stands without a row and without somebody bringing it: in
\* every order of the two events of a checkout, with every overlap of workers,
\* requests, deletions and retries - until the checkout has used up max_retries
\* or lost its buyer.
THEOREM CheckoutPersistsRowCorrect == Spec => []CheckoutPersistsRow
<1>1. MirrorInv => CheckoutPersistsRow
  BY DEF MirrorInv, RowComes, CheckoutPersistsRow, Bringing
<1> QED
  BY <1>1, MirrorInvariant, PTL

----------------------------------------------------------------------------
(* Convergence.  A worker with an event in hand is bound to save; if        *)
(* another's save has outdated its read, or two have one in hand, overlap  *)
(* cannot be avoided any more.                                             *)

MainKinds == {"sync", "deleted"}
PendKinds == {"pending", "cleared"}
MainStages == {"retrieved", "sync", "deleted"}
HotStages == MainStages \cup PendKinds
HotWorkers == {w \in Workers : job[w].stage \in HotStages}
Doomed == \E w \in HotWorkers : w \in stale \/ \E v \in HotWorkers : v # w
Calm == ~overlapped /\ ~reordered /\ ~dropped /\ ~Doomed

\* A row has its customer, unspoilt readers know both, and the org that a
\* request deletes is a team's.
Unread == {"idle", "checkout", "retrieved"}
Knows(a) == job[a].seen = row /\ job[a].owner = customer /\ customer # 0
ReadsHold ==
    /\ row # NoRow => customer # 0
    /\ \A a \in Actors : job[a].stage \notin Unread /\ a \notin stale => Knows(a)
    /\ \A r \in Requests : job[r].stage = "delete" => team

\* While the subscription runs, nobody says that it has ended.
Running(x) == x = NoRow \/ x.live
NobodySaysEnded ==
    stripe.live =>
        /\ \A i \in DOMAIN queue : queue[i].sub.live /\ queue[i].kind # "deleted"
        /\ \A a \in Actors : /\ job[a].sub.live /\ Running(job[a].seen)
                             /\ job[a].stage \notin {"deleted", "erase_rows"}
        /\ Running(row) /\ deletions = {}

\* Until the first customer has a row there is no schedule and no request that
\* could make one.
Harmless == {"idle", "delete", "erase", "erase_rows", "remove"}
NoScheduleBeforeRow ==
    customers <= 1 /\ customer = customers /\ row = NoRow =>
        /\ stripe.sched = NoPlan
        /\ \A i \in DOMAIN queue : queue[i].kind # "pending"
        /\ \A r \in Requests : job[r].stage \in Harmless

\* The last event of a kind that waits tells how things stand.
IsLast(K, i) ==
    queue[i].kind \in K /\ \A k \in DOMAIN queue : k > i => queue[k].kind \notin K
Waits(K) == \E i \in DOMAIN queue : queue[i].kind \in K
LastEventsTell ==
    ~reordered => \A i \in DOMAIN queue :
        /\ IsLast(MainKinds, i) => queue[i].sub = stripe
        /\ IsLast(PendKinds, i) => /\ queue[i].sub.sched = stripe.sched
                                   /\ queue[i].kind = "pending" <=> stripe.sched # NoPlan

\* The state of the subscription is waiting as an event, in a worker's hand,
\* on the row, or to be fetched by the checkout.
InHand(S) == \E w \in Workers : job[w].stage \in S
RowAgrees ==
    /\ row # NoRow /\ row.live = stripe.live
    /\ stripe.live => /\ row.plan = stripe.plan /\ row.seats = stripe.seats
                      /\ row.cancel = stripe.cancel
CheckoutComing == CheckoutsWaiting # {} \/ AtCheckout # {}
WorkersHaveMain == \A w \in Workers : job[w].stage \in MainStages => job[w].sub = stripe
RequestsHaveMain ==
    \A r \in Requests : r \notin stale =>
        /\ job[r].stage = "mirror" => job[r].sub = stripe
        /\ job[r].stage = "seats_save" => job[r].seats = stripe.seats
MainArrives ==
    Calm =>
        /\ Waits(MainKinds) \/ WorkersHaveMain
        /\ Waits(MainKinds) \/ InHand(MainStages) \/ RequestsHaveMain
        /\ \/ customer = 0 \/ Waits(MainKinds) \/ InHand(MainStages) \/ RowAgrees
           \/ row = NoRow /\ CheckoutComing

\* So is the pending change, for the first customer.
WorkersHavePending ==
    \A w \in Workers :
        /\ job[w].stage = "pending" => job[w].sub.sched = stripe.sched
        /\ job[w].stage = "cleared" => stripe.sched = NoPlan
RequestsHavePending ==
    \A r \in Requests : r \notin stale /\ job[r].stage = "cleared" => stripe.sched = NoPlan
FirstCustomer == customers <= 1 /\ customer = customers
PendingArrives ==
    Calm =>
        /\ Waits(PendKinds) \/ WorkersHavePending
        /\ Waits(PendKinds) \/ InHand(PendKinds) \/ RequestsHavePending
        /\ \/ ~FirstCustomer \/ Waits(PendKinds) \/ InHand(PendKinds)
           \/ row.pending = stripe.sched

\* A deleted customer's subscription is ended, about to be, or comes back with
\* its checkout.
DeletionReachesStripe ==
    Calm /\ customers # 0 /\ customer = 0 =>
        \/ ~stripe.live \/ cancelling \in {"queued", "failed"}
        \/ CheckoutComing \/ InHand({"retrieved"})

ConvergeInv ==
    /\ MirrorInv
    /\ ReadsHold /\ NobodySaysEnded /\ NoScheduleBeforeRow /\ LastEventsTell
    /\ MainArrives /\ PendingArrives /\ DeletionReachesStripe

LEMMA JobFacts ==
    ASSUME MirrorInv, NEW a \in Actors
    PROVE  /\ job[a] \in Jobs /\ Sane(job[a])
           /\ job[a].sub \in Subs /\ job[a].seen \in Rows
           /\ job[a].sub.live \in BOOLEAN /\ job[a].seen.live \in BOOLEAN
<1>1. job[a] \in Jobs /\ Sane(job[a])
  BY TypeFacts DEF JobsAreSane
<1>2. job[a].sub \in Subs /\ job[a].seen \in Rows
  BY <1>1 DEF Jobs
<1> QED
  BY <1>1, <1>2, RowFacts, SubFields

\* What is quiet has not been doomed, and the invariant says what it is for.
LEMMA ConvergeInvMeaning ==
    ASSUME ConvergeInv
    PROVE  MirrorConverges /\ DeletedOwnersStopPaying
<1>1. ASSUME Quiet, Orderly PROVE Calm /\ \A a \in Actors : job[a].stage = "idle"
  <2>1. \A a \in Actors : job[a].stage = "idle"
    BY <1>1 DEF Quiet, Busy
  <2>2. HotWorkers = {}
    BY <2>1, ActorFacts DEF HotWorkers, HotStages, MainStages, PendKinds
  <2> QED
    BY <1>1, <2>1, <2>2 DEF Orderly, Calm, Doomed
<1>2. ASSUME Quiet, Orderly
      PROVE  /\ \A K : ~Waits(K)
             /\ ~CheckoutComing
             /\ ~InHand(MainStages) /\ ~InHand(PendKinds) /\ ~InHand({"retrieved"})
  <2>1. DOMAIN queue = {}
    BY <1>2 DEF Quiet
  <2>2. \A w \in Workers : job[w].stage = "idle"
    BY <1>1, <1>2, ActorFacts
  <2> QED
    BY <2>1, <2>2 DEF Waits, CheckoutComing, CheckoutsWaiting, AtCheckout, InHand,
                      MainStages, PendKinds
<1>3. MirrorConverges
  <2> SUFFICES ASSUME Quiet, Orderly, customer # 0
               PROVE  RowAgrees /\ (customers = 1 => row.pending = stripe.sched)
    BY DEF MirrorConverges, RowAgrees
  <2>1. RowAgrees
    BY <1>1, <1>2 DEF ConvergeInv, MainArrives
  <2>2. customers = 1 => FirstCustomer
    BY TypeFacts DEF FirstCustomer, ConvergeInv
  <2> QED
    BY <1>1, <1>2, <2>1, <2>2 DEF ConvergeInv, PendingArrives
<1>4. DeletedOwnersStopPaying
  BY <1>1, <1>2 DEF DeletedOwnersStopPaying, ConvergeInv, DeletionReachesStripe, Quiet
<1> QED
  BY <1>3, <1>4

----------------------------------------------------------------------------
(* What calls to Stripe do to the subscription and to the queue.           *)

New == {i \in DOMAIN queue' : i \notin DOMAIN queue}

\* The subscription has changed, its events say so, and it has not come back
\* to life.
Reported ==
    /\ QueueGrows /\ stripe' \in Subs
    /\ \A i \in New : \A k \in DOMAIN queue : i > k
    /\ \A i \in New :
          /\ queue'[i].sub = stripe'
          /\ queue'[i].kind = "deleted" => ~stripe'.live
          /\ queue'[i].kind \in PendKinds =>
                (queue'[i].kind = "pending" <=> stripe'.sched # NoPlan)
    /\ \E i \in New : queue'[i].kind \in MainKinds
    /\ stripe'.sched # stripe.sched => \E i \in New : queue'[i].kind \in PendKinds
    /\ stripe'.live => stripe.live
StripeMoves == UNCHANGED <<stripe, queue>> \/ Reported

\* The events of one call, and where they are.
LEMMA EmitNews ==
    ASSUME queue \in Seq(Events), NEW sub \in Subs,
           NEW kinds \in Seq(Kinds \ {"checkout"}), Emit(sub, kinds)
    PROVE  /\ stripe' = sub /\ QueueGrows
           /\ \A i \in New : \A k \in DOMAIN queue : i > k
           /\ \A i \in New : \E k \in DOMAIN kinds : queue'[i] = Event(kinds[k], sub)
           /\ \A k \in DOMAIN kinds : \E i \in New : queue'[i] = Event(kinds[k], sub)
<1> DEFINE new == [i \in DOMAIN kinds |-> Event(kinds[i], sub)]
<1>1. Len(kinds) \in Nat /\ DOMAIN kinds = 1..Len(kinds)
  OBVIOUS
<1>2. \A i \in DOMAIN kinds : new[i] \in Events /\ new[i] = Event(kinds[i], sub)
  BY DEF Events, Event
<1>3. new \in Seq(Events) /\ Len(new) = Len(kinds)
  BY <1>1, <1>2
<1>4. queue' = queue \o new /\ stripe' = sub
  BY DEF Emit
<1> HIDE DEF new
<1>5. QueueGrows
  BY EmitFacts
<1>6. /\ Len(queue) \in Nat /\ DOMAIN queue = 1..Len(queue)
      /\ DOMAIN queue' = 1..(Len(queue) + Len(kinds))
  <2>1. Len(queue) \in Nat /\ DOMAIN queue = 1..Len(queue)
    OBVIOUS
  <2>2. queue \o new \in Seq(Events) /\ Len(queue \o new) = Len(queue) + Len(new)
    BY <1>3
  <2>3. DOMAIN (queue \o new) = 1..Len(queue \o new)
    BY <2>2
  <2> QED
    BY <1>3, <1>4, <2>1, <2>2, <2>3
<1>7. \A i \in New : i \in Nat /\ i > Len(queue) /\ i <= Len(queue) + Len(kinds)
  BY <1>1, <1>6 DEF New
<1>8. \A i \in New : \A k \in DOMAIN queue : i > k
  BY <1>6, <1>7
<1>9. ASSUME NEW i \in New
      PROVE  \E k \in DOMAIN kinds : queue'[i] = Event(kinds[k], sub)
  <2>1. i \in Nat /\ i > Len(queue) /\ i <= Len(queue) + Len(new)
    BY <1>3, <1>7
  <2>2. (queue \o new)[i] = new[i - Len(queue)]
    BY <1>3, <2>1, BehindConcatenation
  <2>3. i - Len(queue) \in DOMAIN kinds
    BY <1>1, <1>3, <1>6, <2>1
  <2> QED
    BY <1>2, <1>4, <2>2, <2>3
<1>10. ASSUME NEW k \in DOMAIN kinds
       PROVE  \E i \in New : queue'[i] = Event(kinds[k], sub)
  <2>1. PICK i : i = Len(queue) + k
    OBVIOUS
  <2>2. k \in 1..Len(kinds)
    BY <1>1
  <2>3. i \in Nat /\ i > Len(queue) /\ i <= Len(queue) + Len(new) /\ i - Len(queue) = k
    BY <1>1, <1>3, <1>6, <2>1, <2>2
  <2>4. (queue \o new)[i] = new[k]
    BY <1>3, <2>3, BehindConcatenation
  <2>5. i \in New
    BY <1>3, <1>6, <2>3 DEF New
  <2> QED
    BY <1>2, <1>4, <2>4, <2>5
<1> QED
  BY <1>4, <1>5, <1>8, <1>9, <1>10

LEMMA EventFields ==
    ASSUME NEW kind, NEW sub
    PROVE  Event(kind, sub).kind = kind /\ Event(kind, sub).sub = sub
BY DEF Event

\* A call that emits what it has changed.
LEMMA ReportedFacts ==
    ASSUME queue \in Seq(Events), stripe \in Subs, NEW sub \in Subs,
           NEW kinds \in Seq(Kinds \ {"checkout"}), Emit(sub, kinds),
           sub.live => stripe.live,
           \E k \in DOMAIN kinds : kinds[k] \in MainKinds,
           \A k \in DOMAIN kinds : kinds[k] = "deleted" => ~sub.live,
           \A k \in DOMAIN kinds : kinds[k] = "pending" => sub.sched # NoPlan,
           \A k \in DOMAIN kinds : kinds[k] = "cleared" => sub.sched = NoPlan,
           sub.sched # stripe.sched => \E k \in DOMAIN kinds : kinds[k] \in PendKinds
    PROVE  Reported
<1>1. /\ stripe' = sub /\ QueueGrows
      /\ \A i \in New : \A k \in DOMAIN queue : i > k
      /\ \A i \in New : \E k \in DOMAIN kinds : queue'[i] = Event(kinds[k], sub)
      /\ \A k \in DOMAIN kinds : \E i \in New : queue'[i] = Event(kinds[k], sub)
  BY EmitNews
<1>2. ASSUME NEW i \in New
      PROVE  /\ queue'[i].sub = stripe'
             /\ queue'[i].kind = "deleted" => ~stripe'.live
             /\ queue'[i].kind \in PendKinds =>
                   (queue'[i].kind = "pending" <=> stripe'.sched # NoPlan)
  <2>1. PICK k \in DOMAIN kinds : queue'[i] = Event(kinds[k], sub)
    BY <1>1
  <2>2. queue'[i].kind = kinds[k] /\ queue'[i].sub = sub
    BY <2>1, EventFields
  <2> QED
    BY <1>1, <2>2 DEF PendKinds
<1>3. ASSUME NEW K, \E k \in DOMAIN kinds : kinds[k] \in K
      PROVE  \E i \in New : queue'[i].kind \in K
  BY <1>1, <1>3, EventFields
<1>4. \E i \in New : queue'[i].kind \in MainKinds
  BY <1>3
<1>5. stripe'.sched # stripe.sched => \E i \in New : queue'[i].kind \in PendKinds
  BY <1>1, <1>3
<1> QED
  BY <1>1, <1>2, <1>4, <1>5 DEF Reported

\* Nothing is emitted, and nothing has changed.
LEMMA NothingEmitted ==
    ASSUME queue \in Seq(Events), NEW sub, sub = stripe, Emit(sub, <<>>)
    PROVE  UNCHANGED <<stripe, queue>>
<1>1. queue' = queue \o [i \in DOMAIN <<>> |-> Event(<<>>[i], sub)] /\ stripe' = sub
  BY DEF Emit
<1>2. [i \in DOMAIN <<>> |-> Event(<<>>[i], sub)] = <<>>
  OBVIOUS
<1> QED
  BY <1>1, <1>2

\* Each call, then.
LEMMA ModifyMoves ==
    ASSUME queue \in Seq(Events), stripe \in Subs, NEW sub \in Subs, Modify(sub),
           sub.live = stripe.live, sub.sched = stripe.sched
    PROVE  StripeMoves /\ stripe' = sub
<1>0. stripe' = sub
  BY DEF Modify, Emit
<1>1. CASE sub = stripe
  <2>1. Emit(sub, <<>>)
    BY <1>1 DEF Modify
  <2> QED
    BY <1>0, <1>1, <2>1, NothingEmitted DEF StripeMoves
<1>2. CASE sub # stripe
  <2>1. PICK kinds : kinds = <<"sync">>
    OBVIOUS
  <2>2. /\ DOMAIN kinds = {1} /\ kinds[1] = "sync" /\ kinds \in Seq(Kinds \ {"checkout"})
    BY <2>1, KindsOfCalls
  <2>3. Emit(sub, kinds)
    BY <1>2, <2>1 DEF Modify
  <2> QED
    BY <1>0, <2>2, <2>3, ReportedFacts DEF StripeMoves, MainKinds
<1> QED
  BY <1>1, <1>2

LEMMA ScheduleMoves ==
    ASSUME queue \in Seq(Events), stripe \in Subs, NEW sub \in Subs, Schedule(sub),
           sub.live = stripe.live, sub.sched # NoPlan
    PROVE  StripeMoves /\ stripe' = sub
<1>0. stripe' = sub
  BY DEF Schedule, Emit
<1>1. CASE sub = stripe
  <2>1. Emit(sub, <<>>)
    BY <1>1 DEF Schedule
  <2> QED
    BY <1>0, <1>1, <2>1, NothingEmitted DEF StripeMoves
<1>2. CASE sub # stripe
  <2>1. PICK kinds : kinds = <<"pending", "sync">>
    OBVIOUS
  <2>2. /\ DOMAIN kinds = {1, 2} /\ kinds[1] = "pending" /\ kinds[2] = "sync"
        /\ kinds \in Seq(Kinds \ {"checkout"})
    BY <2>1, KindsOfCalls
  <2>3. Emit(sub, kinds)
    BY <1>2, <2>1 DEF Schedule
  <2> QED
    BY <1>0, <2>2, <2>3, ReportedFacts DEF StripeMoves, MainKinds, PendKinds
<1> QED
  BY <1>1, <1>2

LEMMA ReleaseMoves ==
    ASSUME queue \in Seq(Events), stripe \in Subs, ReleaseSchedule
    PROVE  /\ Reported /\ stripe' = Unscheduled
           /\ stripe'.sched = NoPlan /\ stripe'.live = stripe.live
<1>0. PICK sub : sub = Unscheduled
  OBVIOUS
<1>1. sub \in Subs /\ sub.live = stripe.live /\ sub.sched = NoPlan
  BY <1>0 DEF Unscheduled, Subs
<1>2. PICK kinds : kinds = <<"cleared", "sync">>
  OBVIOUS
<1>3. /\ DOMAIN kinds = {1, 2} /\ kinds[1] = "cleared" /\ kinds[2] = "sync"
      /\ kinds \in Seq(Kinds \ {"checkout"})
  BY <1>2, KindsOfCalls
<1>4. Emit(sub, kinds)
  BY <1>0, <1>2 DEF ReleaseSchedule
<1>5. stripe' = sub
  BY <1>4 DEF Emit
<1>6. Reported
  BY <1>1, <1>3, <1>4, ReportedFacts DEF MainKinds, PendKinds
<1> QED
  BY <1>0, <1>1, <1>5, <1>6

LEMMA TerminateMoves ==
    ASSUME queue \in Seq(Events), stripe \in Subs, Terminate
    PROVE  Reported /\ ~stripe'.live /\ stripe'.sched = NoPlan
<1>0. PICK sub : sub = [stripe EXCEPT !.live = FALSE, !.sched = NoPlan]
  OBVIOUS
<1>1. sub \in Subs /\ ~sub.live /\ sub.sched = NoPlan
  BY <1>0 DEF Subs
<1>2. PICK kinds : kinds = IF stripe.sched = NoPlan THEN <<"deleted">>
                           ELSE <<"cleared", "deleted">>
  OBVIOUS
<1>3. Emit(sub, kinds)
  BY <1>0, <1>2 DEF Terminate
<1>4. stripe' = sub
  BY <1>3 DEF Emit
<1>5. CASE stripe.sched = NoPlan
  <2>1. /\ DOMAIN kinds = {1} /\ kinds[1] = "deleted" /\ kinds \in Seq(Kinds \ {"checkout"})
    BY <1>2, <1>5, KindsOfCalls
  <2> QED
    BY <1>1, <1>3, <1>4, <1>5, <2>1, ReportedFacts DEF MainKinds, PendKinds
<1>6. CASE stripe.sched # NoPlan
  <2>1. /\ DOMAIN kinds = {1, 2} /\ kinds[1] = "cleared" /\ kinds[2] = "deleted"
        /\ kinds \in Seq(Kinds \ {"checkout"})
    BY <1>2, <1>6, KindsOfCalls
  <2> QED
    BY <1>1, <1>3, <1>4, <1>6, <2>1, ReportedFacts DEF MainKinds, PendKinds
<1> QED
  BY <1>5, <1>6

LEMMA PhaseMoves ==
    ASSUME queue \in Seq(Events), stripe \in Subs, stripe.sched # NoPlan,
           Emit([Unscheduled EXCEPT !.plan = stripe.sched], <<"sync", "cleared">>)
    PROVE  Reported /\ stripe'.sched = NoPlan
<1>0. PICK sub : sub = [Unscheduled EXCEPT !.plan = stripe.sched]
  OBVIOUS
<1>1. sub \in Subs /\ sub.live = stripe.live /\ sub.sched = NoPlan
  BY <1>0 DEF Unscheduled, Subs
<1>2. PICK kinds : kinds = <<"sync", "cleared">>
  OBVIOUS
<1>3. /\ DOMAIN kinds = {1, 2} /\ kinds[1] = "sync" /\ kinds[2] = "cleared"
      /\ kinds \in Seq(Kinds \ {"checkout"})
  BY <1>2, KindsOfCalls
<1>4. Emit(sub, kinds)
  BY <1>0, <1>2
<1>5. stripe' = sub
  BY <1>4 DEF Emit
<1>6. Reported
  BY <1>1, <1>3, <1>4, ReportedFacts DEF MainKinds, PendKinds
<1> QED
  BY <1>1, <1>5, <1>6

----------------------------------------------------------------------------
(* Steps that leave the row, the customer and the workers alone: what       *)
(* happens at Stripe, by itself or within a request, and vain deletions.   *)

\* r is through, or goes on with what it has read and what Stripe now says.
GoesOn(r) ==
    \/ job'[r] = Idle
    \/ /\ job[r].stage \notin Unread
       /\ job'[r].seen = job[r].seen /\ job'[r].owner = job[r].owner
       /\ job'[r].sub \in {job[r].sub, stripe'}
       /\ job'[r].stage = "mirror" => job'[r].sub = stripe'
       /\ job'[r].stage = "seats_save" => job'[r].seats = stripe'.seats
       /\ job'[r].stage = "cleared" => stripe'.sched = NoPlan
       /\ job'[r].stage = "erase_rows" => ~stripe'.live
       /\ job[r].stage \in Harmless => job'[r].stage = "erase_rows"
       /\ job'[r].stage # "delete"

Aside ==
    /\ StripeMoves
    /\ \/ stripe'.sched \in {NoPlan, stripe.sched}
       \/ \E r \in Requests : job[r].stage = "plan_apply"
    /\ UNCHANGED <<team, customer, customers, row, overlapped, dropped, reordered>>
    /\ deletions' \subseteq deletions
    /\ stale' \subseteq stale
    /\ \A a \in stale : a \in stale' \/ (a \in Requests /\ job'[a] = Idle)
    /\ cancelling' = cancelling \/ ~stripe'.live \/ cancelling' \in {"queued", "failed"}
    /\ \A w \in Workers : job'[w] = job[w]
    /\ \A r \in Requests : job'[r] = job[r] \/ GoesOn(r)

LEMMA OwnStepsAside ==
    ASSUME MirrorInv,
           \/ Portal \/ Lapse \/ PeriodEnd \/ CancelStripeSub \/ CancelStripeSubFails
           \/ UNCHANGED vars
    PROVE  Aside
<1>0. stripe \in Subs /\ queue \in Seq(Events)
  BY TypeFacts
<1>1. UNCHANGED <<team, customer, customers, row, deletions, stale, overlapped, dropped,
                  reordered>>
      /\ job' = job
  BY DEF Portal, Lapse, PeriodEnd, CancelStripeSub, CancelStripeSubFails, vars, db, history
<1>2. ASSUME StripeMoves, stripe'.sched \in {NoPlan, stripe.sched},
             cancelling' = cancelling \/ ~stripe'.live \/ cancelling' = "failed"
      PROVE  Aside
  BY <1>1, <1>2 DEF Aside
<1>3. CASE Portal
  <2>1. PICK sub \in {[stripe EXCEPT !.cancel = ~@]}
                  \cup {[stripe EXCEPT !.plan = p] : p \in Plans \ {stripe.plan}}
                  \cup {[stripe EXCEPT !.seats = n] : n \in Seats \ {stripe.seats}} :
           Modify(sub)
    BY <1>3 DEF Portal
  <2>2. sub \in Subs /\ sub.live = stripe.live /\ sub.sched = stripe.sched
    BY <1>0 DEF Subs
  <2>3. StripeMoves /\ stripe' = sub
    BY <1>0, <2>1, <2>2, ModifyMoves
  <2>4. cancelling' = cancelling
    BY <1>3 DEF Portal
  <2> QED
    BY <1>2, <2>2, <2>3, <2>4
<1>4. CASE Terminate /\ cancelling' = cancelling
  BY <1>0, <1>2, <1>4, TerminateMoves DEF StripeMoves
<1>5. CASE PeriodEnd
  <2>1. cancelling' = cancelling
    BY <1>5 DEF PeriodEnd
  <2>2. CASE /\ stripe.sched # NoPlan
             /\ Emit([Unscheduled EXCEPT !.plan = stripe.sched], <<"sync", "cleared">>)
    BY <1>0, <1>2, <2>1, <2>2, PhaseMoves DEF StripeMoves
  <2> QED
    BY <1>4, <1>5, <2>1, <2>2 DEF PeriodEnd
<1>6. CASE CancelStripeSub
  <2>1. CASE stripe.live
    BY <1>0, <1>2, <1>6, <2>1, TerminateMoves DEF StripeMoves, CancelStripeSub
  <2>2. CASE ~stripe.live
    BY <1>2, <1>6, <2>2 DEF StripeMoves, CancelStripeSub
  <2> QED
    BY <2>1, <2>2
<1>7. CASE CancelStripeSubFails \/ UNCHANGED vars
  BY <1>2, <1>7 DEF CancelStripeSubFails, vars, StripeMoves
<1>8. Lapse => Terminate /\ cancelling' = cancelling
  BY DEF Lapse
<1> QED
  BY <1>3, <1>4, <1>5, <1>6, <1>7, <1>8

\* A request's job after one of its steps.
LEMMA StepFacts ==
    ASSUME MirrorInv, NEW r \in Requests, NEW stage, Step(r, stage)
    PROVE  /\ job'[r].stage = stage /\ job'[r].seen = job[r].seen
           /\ job'[r].owner = job[r].owner /\ job'[r].sub = job[r].sub
           /\ job'[r].seats = job[r].seats
           /\ \A b \in Actors : b # r => job'[b] = job[b]
<1>1. job \in [Actors -> Jobs] /\ r \in Actors
  BY TypeFacts, ActorFacts
<1>2. job' = [job EXCEPT ![r] = [job[r] EXCEPT !.stage = stage]]
  BY DEF Step, Goto
<1>3. job'[r] = [job[r] EXCEPT !.stage = stage] /\ job[r] \in Jobs
  BY <1>1, <1>2
<1>4. \A b \in Actors : b # r => job'[b] = job[b]
  BY <1>1, <1>2
<1> QED
  BY <1>3, <1>4 DEF Jobs

LEMMA FinishFacts ==
    ASSUME MirrorInv, NEW a \in Actors, Finish(a)
    PROVE  job'[a] = Idle /\ \A b \in Actors : b # a => job'[b] = job[b]
<1>1. job \in [Actors -> Jobs]
  BY TypeFacts
<1> QED
  BY <1>1 DEF Finish, Goto

LEMMA RequestStepsAside ==
    ASSUME MirrorInv, NEW r \in Requests, RequestOnly(r)
    PROVE  Aside
<1>0. stripe \in Subs /\ queue \in Seq(Events) /\ job[r] \in Jobs /\ r \in Actors
  BY TypeFacts, RequestFacts, ActorFacts
<1>1. UNCHANGED <<team, customer, customers, row, deletions, cancelling, stale, overlapped, dropped,
                  reordered>>
  BY DEF db, history, RequestOnly, CancelRelease, SetCancel, SetSeats, ReleasePending,
         RetrieveForPlan, ScheduleDowngrade, ReleaseForPlan, ModifyPlan, EraseAtStripe,
         RequestFails
<1>2. ASSUME StripeMoves, GoesOn(r), \A b \in Actors : b # r => job'[b] = job[b],
             stripe'.sched \in {NoPlan, stripe.sched} \/ job[r].stage = "plan_apply"
      PROVE  Aside
  BY <1>1, <1>2, ActorFacts DEF Aside
<1>3. ASSUME StripeMoves, Finish(r),
             stripe'.sched \in {NoPlan, stripe.sched} \/ job[r].stage = "plan_apply"
      PROVE  Aside
  BY <1>0, <1>2, <1>3, FinishFacts DEF GoesOn
<1>4. ASSUME UNCHANGED <<stripe, queue>>
      PROVE  StripeMoves /\ stripe'.sched \in {NoPlan, stripe.sched}
  BY <1>4 DEF StripeMoves
<1>5. ASSUME ReleaseSchedule
      PROVE  /\ StripeMoves /\ stripe'.sched \in {NoPlan, stripe.sched}
             /\ stripe'.sched = NoPlan
  BY <1>0, <1>5, ReleaseMoves DEF StripeMoves
<1>6. CASE CancelRelease(r)
  <2>1. StripeMoves /\ stripe'.sched \in {NoPlan, stripe.sched}
    BY <1>4, <1>5, <1>6 DEF CancelRelease
  <2>2. Step(r, "cancel_modify") /\ job[r].stage = "cancel"
    BY <1>6 DEF CancelRelease
  <2> QED
    BY <1>2, <2>1, <2>2, StepFacts DEF GoesOn, Unread, Harmless
<1>7. CASE SetCancel(r)
  <2>1. PICK sub : sub = [stripe EXCEPT !.cancel = job[r].stage = "cancel_modify"]
    OBVIOUS
  <2>2. sub \in Subs /\ sub.live = stripe.live /\ sub.sched = stripe.sched
    BY <1>0, <2>1 DEF Subs
  <2>3. Modify(sub) /\ Goto(r, [job[r] EXCEPT !.stage = "mirror", !.sub = sub])
        /\ job[r].stage \in {"cancel_modify", "resume"}
    BY <1>7, <2>1 DEF SetCancel
  <2>4. StripeMoves /\ stripe' = sub
    BY <1>0, <2>2, <2>3, ModifyMoves
  <2>5. job'[r] = [job[r] EXCEPT !.stage = "mirror", !.sub = sub]
        /\ \A b \in Actors : b # r => job'[b] = job[b]
    BY <1>0, <2>3, TypeFacts DEF Goto
  <2>6. /\ job'[r].stage = "mirror" /\ job'[r].seen = job[r].seen
        /\ job'[r].owner = job[r].owner /\ job'[r].sub = sub
    BY <1>0, <2>5 DEF Jobs
  <2>7. GoesOn(r)
    BY <2>3, <2>4, <2>6 DEF GoesOn, Unread, Harmless
  <2> QED
    BY <1>2, <2>2, <2>4, <2>5, <2>7
<1>8. CASE SetSeats(r)
  <2>1. PICK sub : sub = [stripe EXCEPT !.seats = job[r].seats]
    OBVIOUS
  <2>2. job[r].seats \in Seats /\ job[r].stage = "seats"
    BY <1>8, RequestFacts DEF SetSeats
  <2>3. /\ sub \in Subs /\ sub.live = stripe.live /\ sub.sched = stripe.sched
        /\ sub.seats = job[r].seats
    BY <1>0, <2>1, <2>2 DEF Subs
  <2>4. StripeMoves /\ stripe' = sub
    BY <1>0, <1>8, <2>1, <2>3, ModifyMoves DEF SetSeats
  <2>5. CASE Step(r, "seats_save")
    BY <1>2, <2>2, <2>3, <2>4, <2>5, StepFacts DEF GoesOn, Unread, Harmless
  <2> QED
    BY <1>3, <1>8, <2>3, <2>4, <2>5 DEF SetSeats
<1>9. CASE ReleasePending(r)
  <2>1. StripeMoves /\ stripe'.sched \in {NoPlan, stripe.sched} /\ stripe'.sched = NoPlan
    BY <1>4, <1>5, <1>9 DEF ReleasePending
  <2>2. CASE Step(r, "cleared")
    <3>1. job[r].stage = "release"
      BY <1>9 DEF ReleasePending
    <3> QED
      BY <1>2, <2>1, <2>2, <3>1, StepFacts DEF GoesOn, Unread, Harmless
  <2> QED
    BY <1>3, <1>9, <2>1, <2>2 DEF ReleasePending
<1>10. CASE RetrieveForPlan(r)
  <2>1. PICK n : n = IF job[r].seats = 0 THEN stripe.seats ELSE job[r].seats
    OBVIOUS
  <2>2. /\ Goto(r, [job[r] EXCEPT !.stage = "plan_apply", !.sub = stripe, !.seats = n])
        /\ job[r].stage = "plan" /\ UNCHANGED <<stripe, queue>>
    BY <1>10, <2>1 DEF RetrieveForPlan
  <2>3. job'[r] = [job[r] EXCEPT !.stage = "plan_apply", !.sub = stripe, !.seats = n]
        /\ \A b \in Actors : b # r => job'[b] = job[b]
    BY <1>0, <2>2, TypeFacts DEF Goto
  <2>4. /\ job'[r].stage = "plan_apply" /\ job'[r].seen = job[r].seen
        /\ job'[r].owner = job[r].owner /\ job'[r].sub = stripe
    BY <1>0, <2>3 DEF Jobs
  <2>5. GoesOn(r)
    BY <2>2, <2>4 DEF GoesOn, Unread, Harmless
  <2> QED
    BY <1>2, <1>4, <2>2, <2>3, <2>5
<1>11. CASE ScheduleDowngrade(r)
  <2>1. PICK sub : sub = [stripe EXCEPT !.plan = job[r].sub.plan, !.seats = job[r].seats,
                                        !.sched = job[r].plan]
    OBVIOUS
  <2>2. /\ job[r].seats \in Seats /\ job[r].plan \in Plans /\ job[r].sub.plan \in Plans
        /\ job[r].stage = "plan_apply"
    BY <1>11, RequestFacts, SubFields DEF ScheduleDowngrade
  <2>3. sub \in Subs /\ sub.live = stripe.live /\ sub.sched = job[r].plan
    BY <1>0, <2>1, <2>2 DEF Subs
  <2>4. sub.sched # NoPlan
    BY <2>2, <2>3, MirrorAssumption DEF NoPlan
  <2>5. StripeMoves
    BY <1>0, <1>11, <2>1, <2>3, <2>4, ScheduleMoves DEF ScheduleDowngrade
  <2> QED
    BY <1>3, <1>11, <2>2, <2>5 DEF ScheduleDowngrade
<1>12. CASE ReleaseForPlan(r)
  <2>1. StripeMoves /\ stripe'.sched \in {NoPlan, stripe.sched}
    BY <1>5, <1>12 DEF ReleaseForPlan
  <2>2. Step(r, "plan_modify") /\ job[r].stage = "plan_apply"
    BY <1>12 DEF ReleaseForPlan
  <2> QED
    BY <1>2, <2>1, <2>2, StepFacts DEF GoesOn, Unread, Harmless
<1>13. CASE ModifyPlan(r)
  <2>1. PICK sub : sub = [stripe EXCEPT !.plan = job[r].plan, !.seats = job[r].seats]
    OBVIOUS
  <2>2. job[r].seats \in Seats /\ job[r].plan \in Plans
    BY <1>13, RequestFacts DEF ModifyPlan
  <2>3. sub \in Subs /\ sub.live = stripe.live /\ sub.sched = stripe.sched
    BY <1>0, <2>1, <2>2 DEF Subs
  <2>4. StripeMoves /\ stripe' = sub
    BY <1>0, <1>13, <2>1, <2>3, ModifyMoves DEF ModifyPlan
  <2> QED
    BY <1>3, <1>13, <2>3, <2>4 DEF ModifyPlan
<1>14. CASE EraseAtStripe(r)
  <2>1. StripeMoves /\ stripe'.sched \in {NoPlan, stripe.sched} /\ ~stripe'.live
    BY <1>0, <1>4, <1>14, TerminateMoves DEF EraseAtStripe, StripeMoves
  <2>2. Step(r, "erase_rows") /\ job[r].stage = "erase"
    BY <1>14 DEF EraseAtStripe
  <2> QED
    BY <1>2, <2>1, <2>2, StepFacts DEF GoesOn, Unread
<1>15. CASE RequestFails(r)
  BY <1>3, <1>4, <1>15 DEF RequestFails
<1> QED
  BY <1>6, <1>7, <1>8, <1>9, <1>10, <1>11, <1>12, <1>13, <1>14, <1>15 DEF RequestOnly

\* A step at Stripe leaves the workers and the history alone.
LEMMA AsideFrame ==
    ASSUME MirrorInv, Aside
    PROVE  /\ row' = row /\ customer' = customer /\ customers' = customers
           /\ deletions' \subseteq deletions /\ team' = team
           /\ \A a \in Actors : a \notin stale' => a \notin stale \/ job'[a].stage = "idle"
           /\ reordered' = reordered /\ overlapped' = overlapped /\ dropped' = dropped
           /\ Calm' = Calm /\ \A S : InHand(S)' = InHand(S)
           /\ CheckoutComing' = CheckoutComing
           /\ QueueGrows
           /\ \A w \in Workers : job'[w] = job[w]
           /\ stripe'.live => stripe.live
<1>1. /\ row' = row /\ customer' = customer /\ customers' = customers
      /\ deletions' \subseteq deletions /\ team' = team
      /\ \A a \in Actors : a \notin stale' => a \notin stale \/ job'[a].stage = "idle"
      /\ reordered' = reordered /\ overlapped' = overlapped /\ dropped' = dropped
      /\ \A w \in Workers : job'[w] = job[w]
  BY IdleIsSane DEF Aside
<1>2. HotWorkers' = HotWorkers /\ AtCheckout' = AtCheckout
  BY <1>1 DEF HotWorkers, AtCheckout
<1>3. Calm' = Calm
  <2>1. \A w \in Workers : w \in stale' <=> w \in stale
    BY ActorFacts DEF Aside
  <2>2. Doomed' = Doomed
    BY <1>2, <2>1 DEF Doomed, HotWorkers
  <2> QED
    BY <1>1, <2>2 DEF Calm
<1>4. \A S : InHand(S)' = InHand(S)
  BY <1>1 DEF InHand
<1>5. QueueGrows /\ (stripe'.live => stripe.live)
  BY UnchangedQueueGrows, TypeFacts DEF Aside, StripeMoves, Reported
<1>6. CheckoutsWaiting' = CheckoutsWaiting
  BY <1>5 DEF CheckoutsWaiting, QueueGrows
<1> QED
  BY <1>1, <1>2, <1>3, <1>4, <1>5, <1>6 DEF CheckoutComing

LEMMA AsideReads ==
    ASSUME MirrorInv, ReadsHold, Aside
    PROVE  ReadsHold'
<1>1. row' = row /\ customer' = customer /\ team' = team
  BY AsideFrame
<1>2. ASSUME NEW a \in Actors, job'[a].stage \notin Unread, a \notin stale'
      PROVE  Knows(a)'
  <2>0. a \notin stale
    BY <1>2, AsideFrame DEF Unread
  <2>1. CASE job'[a] = job[a]
    BY <1>1, <1>2, <2>0, <2>1 DEF ReadsHold, Knows
  <2>2. CASE GoesOn(a)
    <3>1. job'[a] # Idle
      BY <1>2, IdleIsSane DEF Unread
    <3> QED
      BY <1>1, <1>2, <2>0, <2>2, <3>1 DEF GoesOn, ReadsHold, Knows
  <2> QED
    BY <2>1, <2>2 DEF Aside, Actors
<1>3. ASSUME NEW r \in Requests, job'[r].stage = "delete" PROVE job[r].stage = "delete"
  BY <1>3, IdleIsSane DEF Aside, GoesOn
<1> QED
  BY <1>1, <1>2, <1>3 DEF ReadsHold

LEMMA AsideAlive ==
    ASSUME MirrorInv, MirrorInv', NobodySaysEnded, Aside
    PROVE  NobodySaysEnded'
<1> SUFFICES ASSUME stripe'.live PROVE NobodySaysEnded'
  BY DEF NobodySaysEnded
<1>1. /\ stripe.live /\ row' = row /\ deletions' \subseteq deletions /\ QueueGrows
      /\ stripe' \in Subs
  BY AsideFrame, TypeFacts DEF Aside, StripeMoves, Reported
<1>2. ASSUME NEW i \in DOMAIN queue' PROVE queue'[i].sub.live /\ queue'[i].kind # "deleted"
  <2>1. CASE i \in DOMAIN queue
    BY <1>1, <2>1 DEF NobodySaysEnded, QueueGrows
  <2>2. CASE i \notin DOMAIN queue
    <3>1. Reported /\ i \in New
      BY <2>2 DEF Aside, StripeMoves, New
    <3> QED
      BY <3>1 DEF Reported
  <2> QED
    BY <2>1, <2>2
<1>3. ASSUME NEW a \in Actors
      PROVE  /\ job'[a].sub.live /\ Running(job'[a].seen)
             /\ job'[a].stage \notin {"deleted", "erase_rows"}
  <2>1. CASE job'[a] = job[a]
    BY <1>1, <2>1 DEF NobodySaysEnded
  <2>2. CASE job'[a] = Idle
    <3>1. Idle.sub.live /\ Idle.seen = NoRow /\ Idle.stage = "idle"
      BY DEF Idle, Start0
    <3> QED
      BY <2>2, <3>1 DEF Running
  <2>3. CASE GoesOn(a) /\ job'[a] # Idle /\ a \in Requests
    <3>1. job'[a].sub.live /\ Running(job'[a].seen)
      BY <1>1, <2>3 DEF GoesOn, NobodySaysEnded
    <3>2. job'[a].stage # "erase_rows"
      BY <2>3 DEF GoesOn
    <3>3. job'[a].stage # "deleted"
      <4>1. job'[a].stage \in RequestStages
        BY <2>3 DEF MirrorInv, JobsAreSane
      <4> QED
        BY <4>1 DEF RequestStages
    <3> QED
      BY <3>1, <3>2, <3>3
  <2> QED
    BY <2>1, <2>2, <2>3 DEF Aside, Actors
<1> QED
  BY <1>1, <1>2, <1>3 DEF NobodySaysEnded

LEMMA AsideSchedule ==
    ASSUME MirrorInv, NoScheduleBeforeRow, Aside
    PROVE  NoScheduleBeforeRow'
<1>1. row' = row /\ customer' = customer /\ customers' = customers /\ QueueGrows
  BY AsideFrame
<1> SUFFICES ASSUME customers <= 1, customer = customers, row = NoRow
             PROVE  /\ stripe'.sched = NoPlan
                    /\ \A i \in DOMAIN queue' : queue'[i].kind # "pending"
                    /\ \A r \in Requests : job'[r].stage \in Harmless
  BY <1>1 DEF NoScheduleBeforeRow
<1>2. /\ stripe.sched = NoPlan
      /\ \A i \in DOMAIN queue : queue[i].kind # "pending"
      /\ \A r \in Requests : job[r].stage \in Harmless
  BY DEF NoScheduleBeforeRow
<1>3. stripe'.sched = NoPlan
  BY <1>2 DEF Aside, Harmless
<1>4. ASSUME NEW i \in DOMAIN queue' PROVE queue'[i].kind # "pending"
  <2>1. CASE i \in DOMAIN queue
    BY <1>1, <1>2, <2>1 DEF QueueGrows
  <2>2. CASE i \notin DOMAIN queue
    <3>1. Reported /\ i \in New
      BY <2>2 DEF Aside, StripeMoves, New
    <3> QED
      BY <1>3, <3>1 DEF Reported, PendKinds
  <2> QED
    BY <2>1, <2>2
<1>5. \A r \in Requests : job'[r].stage \in Harmless
  BY <1>2, IdleIsSane DEF Aside, GoesOn, Harmless
<1> QED
  BY <1>3, <1>4, <1>5

LEMMA AsideLast ==
    ASSUME MirrorInv, LastEventsTell, Aside
    PROVE  LastEventsTell'
<1>1. reordered' = reordered
  BY AsideFrame
<1>2. CASE UNCHANGED <<stripe, queue>>
  BY <1>1, <1>2 DEF LastEventsTell, IsLast
<1>3. CASE Reported
  <2> SUFFICES ASSUME ~reordered, NEW i \in DOMAIN queue'
               PROVE  /\ IsLast(MainKinds, i)' => queue'[i].sub = stripe'
                      /\ IsLast(PendKinds, i)' =>
                            /\ queue'[i].sub.sched = stripe'.sched
                            /\ queue'[i].kind = "pending" <=> stripe'.sched # NoPlan
    BY <1>1 DEF LastEventsTell
  <2>1. CASE i \in New
    BY <1>3, <2>1 DEF Reported, IsLast
  <2>2. CASE i \notin New
    <3>1. i \in DOMAIN queue /\ queue'[i] = queue[i]
      BY <1>3, <2>2 DEF New, Reported, QueueGrows
    <3>2. \A k \in New : k \in DOMAIN queue' /\ k > i
      BY <1>3, <3>1 DEF New, Reported
    <3>3. ~IsLast(MainKinds, i)'
      BY <1>3, <3>2 DEF Reported, IsLast
    <3>4. ASSUME IsLast(PendKinds, i)'
          PROVE  /\ queue'[i].sub.sched = stripe'.sched
                 /\ queue'[i].kind = "pending" <=> stripe'.sched # NoPlan
      <4>1. stripe'.sched = stripe.sched
        BY <1>3, <3>2, <3>4 DEF Reported, IsLast
      <4>2. \A k \in DOMAIN queue : k \in DOMAIN queue' /\ queue'[k] = queue[k]
        BY <1>3 DEF Reported, QueueGrows
      <4>3. IsLast(PendKinds, i)
        BY <3>1, <3>4, <4>2 DEF IsLast
      <4> QED
        BY <3>1, <4>1, <4>3 DEF LastEventsTell
    <3> QED
      BY <3>3, <3>4
  <2> QED
    BY <2>1, <2>2
<1> QED
  BY <1>2, <1>3 DEF Aside, StripeMoves

\* What waits goes on waiting, and every change waits.
LEMMA AsideWaits ==
    ASSUME MirrorInv, Aside
    PROVE  /\ \A K : Waits(K) => Waits(K)'
           /\ Waits(MainKinds)' \/ UNCHANGED <<stripe, queue>>
           /\ Waits(PendKinds)' \/ stripe'.sched = stripe.sched
<1>1. QueueGrows
  BY AsideFrame
<1>2. \A K : Waits(K) => Waits(K)'
  BY <1>1 DEF Waits, QueueGrows
<1>3. Reported => Waits(MainKinds)' /\ (Waits(PendKinds)' \/ stripe'.sched = stripe.sched)
  BY DEF Reported, Waits, New
<1> QED
  BY <1>2, <1>3 DEF Aside, StripeMoves

LEMMA AsideMain ==
    ASSUME MirrorInv, MainArrives, Aside
    PROVE  MainArrives'
<1> SUFFICES ASSUME Calm', ~Waits(MainKinds)'
             PROVE  /\ WorkersHaveMain'
                    /\ InHand(MainStages)' \/ RequestsHaveMain'
                    /\ \/ customer' = 0 \/ InHand(MainStages)' \/ RowAgrees'
                       \/ row' = NoRow /\ CheckoutComing'
  BY DEF MainArrives
<1>1. /\ row' = row /\ customer' = customer /\ Calm
      /\ InHand(MainStages)' = InHand(MainStages) /\ CheckoutComing' = CheckoutComing
      /\ \A w \in Workers : job'[w] = job[w]
  BY AsideFrame
<1>2. stripe' = stripe /\ ~Waits(MainKinds)
  BY AsideWaits
<1>3. WorkersHaveMain'
  BY <1>1, <1>2 DEF MainArrives, WorkersHaveMain
<1>4. RequestsHaveMain => RequestsHaveMain'
  <2> SUFFICES ASSUME RequestsHaveMain, NEW r \in Requests, r \notin stale'
               PROVE  /\ job'[r].stage = "mirror" => job'[r].sub = stripe'
                      /\ job'[r].stage = "seats_save" => job'[r].seats = stripe'.seats
    BY <1>1 DEF RequestsHaveMain
  <2>1. CASE job'[r] = job[r]
    BY <1>2, <2>1, AsideFrame, ActorFacts DEF RequestsHaveMain
  <2>2. CASE GoesOn(r)
    BY <2>2, IdleIsSane DEF GoesOn
  <2> QED
    BY <2>1, <2>2 DEF Aside
<1>5. RowAgrees' = RowAgrees
  BY <1>1, <1>2 DEF RowAgrees
<1> QED
  BY <1>1, <1>2, <1>3, <1>4, <1>5 DEF MainArrives

LEMMA AsidePending ==
    ASSUME MirrorInv, PendingArrives, Aside
    PROVE  PendingArrives'
<1> SUFFICES ASSUME Calm', ~Waits(PendKinds)'
             PROVE  /\ WorkersHavePending'
                    /\ InHand(PendKinds)' \/ RequestsHavePending'
                    /\ \/ ~FirstCustomer' \/ InHand(PendKinds)'
                       \/ row'.pending = stripe'.sched
  BY DEF PendingArrives
<1>1. /\ row' = row /\ customer' = customer /\ customers' = customers
      /\ Calm
      /\ InHand(PendKinds)' = InHand(PendKinds)
      /\ \A w \in Workers : job'[w] = job[w]
  BY AsideFrame
<1>2. stripe'.sched = stripe.sched /\ ~Waits(PendKinds)
  BY AsideWaits
<1>3. WorkersHavePending'
  BY <1>1, <1>2 DEF PendingArrives, WorkersHavePending
<1>4. RequestsHavePending => RequestsHavePending'
  <2> SUFFICES ASSUME RequestsHavePending, NEW r \in Requests, r \notin stale',
                      job'[r].stage = "cleared"
               PROVE  stripe'.sched = NoPlan
    BY <1>1 DEF RequestsHavePending
  <2>1. CASE job'[r] = job[r]
    BY <1>2, <2>1, AsideFrame, ActorFacts DEF RequestsHavePending
  <2>2. CASE GoesOn(r)
    BY <2>2, IdleIsSane DEF GoesOn
  <2> QED
    BY <2>1, <2>2 DEF Aside
<1>5. FirstCustomer' = FirstCustomer
  BY <1>1 DEF FirstCustomer
<1> QED
  BY <1>1, <1>2, <1>3, <1>4, <1>5 DEF PendingArrives

LEMMA AsideDeletion ==
    ASSUME MirrorInv, DeletionReachesStripe, Aside
    PROVE  DeletionReachesStripe'
<1>1. /\ customer' = customer /\ customers' = customers /\ Calm' = Calm
      /\ InHand({"retrieved"})' = InHand({"retrieved"}) /\ CheckoutComing' = CheckoutComing
      /\ stripe'.live => stripe.live
  BY AsideFrame
<1>2. cancelling' = cancelling \/ ~stripe'.live \/ cancelling' \in {"queued", "failed"}
  BY DEF Aside
<1> QED
  BY <1>1, <1>2 DEF DeletionReachesStripe

LEMMA AsideConverges ==
    ASSUME ConvergeInv, MirrorInv', Aside
    PROVE  ConvergeInv'
<1>1. ReadsHold' /\ NobodySaysEnded' /\ NoScheduleBeforeRow' /\ LastEventsTell'
  BY AsideReads, AsideAlive, AsideSchedule, AsideLast DEF ConvergeInv
<1>2. MainArrives' /\ PendingArrives' /\ DeletionReachesStripe'
  BY AsideMain, AsidePending, AsideDeletion DEF ConvergeInv
<1> QED
  BY <1>1, <1>2 DEF ConvergeInv

----------------------------------------------------------------------------
(* A request begins: it reads the row.                                     *)

LEMMA StartFacts ==
    ASSUME MirrorInv, NEW r \in Requests, NEW ask \in Asks,
           StartRequest(r, ask[1], ask[2], ask[3])
    PROVE  /\ job'[r].seen = row /\ job'[r].owner = customer /\ customer # 0
           /\ job'[r].sub = Start0
           /\ job'[r].stage \in {"cancel", "resume", "release", "delete", "erase",
                                 "remove", "plan", "seats"}
           /\ job'[r].stage \notin {"delete", "erase", "remove"} => row.live
           /\ \A b \in Actors : b # r => job'[b] = job[b]
           /\ stale' = stale \ {r}
           /\ UNCHANGED <<stripe, queue, team, db, cancelling, overlapped, dropped, reordered>>
           /\ job'[r].stage = "delete" => team
<1>1. PICK op, p, n : op = ask[1] /\ p = ask[2] /\ n = ask[3]
  OBVIOUS
<1>2. op \in {"cancel", "resume", "release", "delete", "erase", "remove", "plan", "seats"}
  BY <1>1 DEF Asks
<1>3. StartRequest(r, op, p, n)
  BY <1>1
<1>4. job \in [Actors -> Jobs] /\ r \in Actors
  BY TypeFacts, ActorFacts
<1>5. job' = [job EXCEPT ![r] = [Idle EXCEPT !.stage = op, !.seen = row, !.owner = customer,
                                            !.plan = p, !.seats = n]]
  BY <1>3 DEF StartRequest, Goto
<1>6. job'[r] = [Idle EXCEPT !.stage = op, !.seen = row, !.owner = customer,
                             !.plan = p, !.seats = n]
  BY <1>4, <1>5
<1>7. \A b \in Actors : b # r => job'[b] = job[b]
  BY <1>4, <1>5
<1>8. /\ job'[r].seen = row /\ job'[r].owner = customer /\ job'[r].sub = Start0
      /\ job'[r].stage = op
  BY <1>6 DEF Idle
<1> QED
  BY <1>2, <1>3, <1>7, <1>8 DEF StartRequest

LEMMA StartConverges ==
    ASSUME ConvergeInv, MirrorInv', NEW r \in Requests, NEW ask \in Asks,
           StartRequest(r, ask[1], ask[2], ask[3])
    PROVE  ConvergeInv'
<1>0. MirrorInv /\ Workers \subseteq Actors /\ Requests \subseteq Actors /\ r \notin Workers
  BY ActorFacts DEF ConvergeInv
<1>1. /\ job'[r].seen = row /\ job'[r].owner = customer /\ customer # 0
      /\ job'[r].sub = Start0
      /\ job'[r].stage \in {"cancel", "resume", "release", "delete", "erase", "remove",
                            "plan", "seats"}
      /\ job'[r].stage \notin {"delete", "erase", "remove"} => row.live
      /\ \A b \in Actors : b # r => job'[b] = job[b]
      /\ stale' = stale \ {r}
      /\ UNCHANGED <<stripe, queue, team, db, cancelling, overlapped, dropped, reordered>>
      /\ job'[r].stage = "delete" => team
  BY <1>0, StartFacts
<1>2. /\ row' = row /\ customer' = customer /\ customers' = customers
      /\ deletions' = deletions
  BY <1>1 DEF db
<1>3. \A w \in Workers : job'[w] = job[w]
  BY <1>0, <1>1
<1>4. /\ \A S : InHand(S)' = InHand(S)
      /\ HotWorkers' = HotWorkers /\ AtCheckout' = AtCheckout
      /\ \A K : Waits(K)' = Waits(K)
  BY <1>1, <1>3 DEF InHand, HotWorkers, AtCheckout, Waits
<1>5. Calm' = Calm /\ CheckoutComing' = CheckoutComing
  <2>1. Doomed' = Doomed
    BY <1>0, <1>1, <1>4 DEF Doomed, HotWorkers
  <2> QED
    BY <1>1, <1>4, <2>1 DEF Calm, CheckoutComing, CheckoutsWaiting
<1>6. ReadsHold'
  <2>1. ASSUME NEW a \in Actors, job'[a].stage \notin Unread, a \notin stale'
        PROVE  Knows(a)'
    <3>1. CASE a = r
      BY <1>1, <1>2, <3>1 DEF Knows
    <3>2. CASE a # r
      BY <1>1, <1>2, <2>1, <3>2 DEF Knows, ReadsHold, ConvergeInv
    <3> QED
      BY <3>1, <3>2
  <2>2. \A q \in Requests : job'[q].stage = "delete" => team'
    BY <1>0, <1>1 DEF ReadsHold, ConvergeInv
  <2> QED
    BY <1>2, <2>1, <2>2 DEF ReadsHold, ConvergeInv
<1>7. NobodySaysEnded'
  <2> SUFFICES ASSUME stripe.live PROVE NobodySaysEnded'
    BY <1>1 DEF NobodySaysEnded
  <2>1. /\ \A i \in DOMAIN queue : queue[i].sub.live /\ queue[i].kind # "deleted"
        /\ \A a \in Actors : /\ job[a].sub.live /\ Running(job[a].seen)
                             /\ job[a].stage \notin {"deleted", "erase_rows"}
        /\ Running(row) /\ deletions = {}
    BY DEF NobodySaysEnded, ConvergeInv
  <2>2. Start0.live
    BY DEF Start0
  <2>3. \A a \in Actors : /\ job'[a].sub.live /\ Running(job'[a].seen)
                          /\ job'[a].stage \notin {"deleted", "erase_rows"}
    BY <1>1, <2>1, <2>2
  <2> QED
    BY <1>1, <1>2, <2>1, <2>3 DEF NobodySaysEnded
<1>8. NoScheduleBeforeRow'
  <2> SUFFICES ASSUME customers <= 1, customer = customers, row = NoRow
               PROVE  /\ stripe.sched = NoPlan
                      /\ \A i \in DOMAIN queue : queue[i].kind # "pending"
                      /\ \A q \in Requests : job'[q].stage \in Harmless
    BY <1>1, <1>2 DEF NoScheduleBeforeRow
  <2>1. job'[r].stage \in Harmless
    BY <1>1, RowFacts DEF Harmless
  <2> QED
    BY <1>0, <1>1, <2>1 DEF NoScheduleBeforeRow, ConvergeInv
<1>9. LastEventsTell'
  BY <1>1 DEF LastEventsTell, IsLast, ConvergeInv
<1>10. MainArrives'
  <2>1. WorkersHaveMain' = WorkersHaveMain /\ RowAgrees' = RowAgrees
    BY <1>1, <1>2, <1>3 DEF WorkersHaveMain, RowAgrees
  <2>2. RequestsHaveMain => RequestsHaveMain'
    BY <1>0, <1>1 DEF RequestsHaveMain
  <2> QED
    BY <1>2, <1>4, <1>5, <2>1, <2>2 DEF MainArrives, ConvergeInv
<1>11. PendingArrives'
  <2>1. WorkersHavePending' = WorkersHavePending /\ FirstCustomer' = FirstCustomer
    BY <1>1, <1>2, <1>3 DEF WorkersHavePending, FirstCustomer
  <2>2. RequestsHavePending => RequestsHavePending'
    BY <1>0, <1>1 DEF RequestsHavePending
  <2>3. row'.pending = row.pending /\ stripe'.sched = stripe.sched
    BY <1>1, <1>2
  <2> QED
    BY <1>4, <1>5, <2>1, <2>2, <2>3 DEF PendingArrives, ConvergeInv
<1>12. DeletionReachesStripe'
  BY <1>1, <1>2, <1>4, <1>5 DEF DeletionReachesStripe, ConvergeInv
<1> QED
  BY <1>6, <1>7, <1>8, <1>9, <1>10, <1>11, <1>12 DEF ConvergeInv

----------------------------------------------------------------------------
(* A save.                                                                 *)

LEMMA NewRowFields ==
    ASSUME NEW j, Sane(j),
           j.stage \in {"sync", "deleted", "pending", "cleared", "mirror", "seats_save"}
    PROVE  /\ j.stage = "sync" =>
                /\ NewRow(j).live = j.sub.live /\ NewRow(j).plan = j.sub.plan
                /\ NewRow(j).seats = j.sub.seats /\ NewRow(j).cancel = j.sub.cancel
           /\ j.stage = "deleted" => NewRow(j).live = FALSE
           /\ j.stage \in {"pending", "cleared", "seats_save"} =>
                NewRow(j).live = j.seen.live /\ NewRow(j).cancel = j.seen.cancel
           /\ j.stage = "mirror" =>
                NewRow(j).live = j.sub.live /\ NewRow(j).cancel = j.sub.cancel
           /\ j.stage \in {"pending", "cleared", "mirror", "seats_save"} =>
                NewRow(j).plan = j.seen.plan
           /\ j.stage \in {"pending", "cleared", "mirror"} => NewRow(j).seats = j.seen.seats
           /\ j.stage = "seats_save" => NewRow(j).seats = j.seats
           /\ j.stage = "pending" => NewRow(j).pending = j.sub.sched
           /\ j.stage = "cleared" => NewRow(j).pending = NoPlan
           /\ j.stage \notin {"pending", "cleared"} => NewRow(j).pending = j.seen.pending
<1>0. j.seen \in Rows
  BY DEF Sane, Jobs
<1>1. CASE j.stage = "sync"
  BY <1>1 DEF NewRow, SyncedRow
<1>2. CASE j.stage # "sync"
  <2>1. j.seen \in RealRows
    BY <1>0, <1>2, RowFacts DEF Sane, NeedRow
  <2>2. CASE j.stage = "deleted"
    BY <2>1, <2>2 DEF NewRow, RealRows
  <2>3. CASE j.stage = "pending"
    BY <2>1, <2>3 DEF NewRow, RealRows
  <2>4. CASE j.stage = "cleared"
    BY <2>1, <2>4 DEF NewRow, RealRows
  <2>5. CASE j.stage = "mirror"
    BY <2>1, <2>5 DEF NewRow, RealRows
  <2>6. CASE j.stage = "seats_save"
    BY <2>1, <2>6 DEF NewRow, RealRows
  <2> QED
    BY <1>2, <2>2, <2>3, <2>4, <2>5, <2>6
<1> QED
  BY <1>1, <1>2

SaveStages == {"sync", "deleted", "pending", "cleared", "mirror", "seats_save"}

LEMMA SaveFrame ==
    ASSUME MirrorInv, NEW a \in Actors, Save(a)
    PROVE  /\ UNCHANGED <<stripe, queue, team, customer, customers, cancelling, dropped, reordered>>
           /\ job[a].stage \in SaveStages /\ Sane(job[a])
           /\ job'[a] = Idle /\ \A b \in Actors : b # a => job'[b] = job[b]
           /\ stale' = (stale \cup Busy) \ {a}
           /\ overlapped' = (overlapped \/ a \in stale)
           /\ row' = IF Savable(a) THEN NewRow(job[a]) ELSE row
           /\ Savable(a) => row' \in RealRows
           /\ \A b \in Actors : job'[b].stage # "idle" => b \in stale'
<1>1. /\ UNCHANGED <<stripe, queue, team, customer, customers, cancelling, dropped, reordered>>
      /\ stale' = (stale \cup Busy) \ {a}
      /\ overlapped' = (overlapped \/ a \in stale)
      /\ row' = IF Savable(a) THEN NewRow(job[a]) ELSE row
  BY DEF Save, Wrote
<1>2. /\ job[a].stage \in SaveStages /\ Sane(job[a])
      /\ job'[a] = Idle /\ \A b \in Actors : b # a => job'[b] = job[b]
      /\ Savable(a) => row' \in RealRows
  BY SaveFacts, JobFacts DEF SaveStages
<1>3. ASSUME NEW b \in Actors, job'[b].stage # "idle" PROVE b \in stale'
  <2>1. b # a
    BY <1>2, <1>3, IdleIsSane
  <2> QED
    BY <1>1, <1>2, <1>3, <2>1 DEF Busy
<1> QED
  BY <1>1, <1>2, <1>3

\* If no overlap comes of it, the writer had read what it replaces, and no
\* other worker has an event in hand.
LEMMA SaveCalm ==
    ASSUME MirrorInv, ReadsHold, NEW a \in Actors, Save(a), Calm'
    PROVE  /\ Calm /\ a \notin stale /\ Knows(a) /\ Savable(a)
           /\ row' = NewRow(job[a]) /\ row' \in RealRows
           /\ \A w \in Workers : job'[w].stage \notin HotStages
           /\ \A w \in Workers : w # a => job[w].stage \notin HotStages
           /\ \A r \in Requests : job'[r].stage # "idle" => r \in stale'
<1>1. /\ UNCHANGED <<stripe, queue, team, customer, customers, cancelling, dropped, reordered>>
      /\ job[a].stage \in SaveStages
      /\ job'[a] = Idle /\ \A b \in Actors : b # a => job'[b] = job[b]
      /\ overlapped' = (overlapped \/ a \in stale)
      /\ row' = IF Savable(a) THEN NewRow(job[a]) ELSE row
      /\ Savable(a) => row' \in RealRows
      /\ \A b \in Actors : job'[b].stage # "idle" => b \in stale'
  BY SaveFrame
<1>2. ~overlapped /\ ~reordered /\ ~dropped /\ a \notin stale
  BY <1>1 DEF Calm
<1>3. Knows(a) /\ Savable(a)
  BY <1>1, <1>2 DEF ReadsHold, Knows, Savable, Unread, SaveStages
<1>4. \A w \in Workers : job'[w].stage \notin HotStages
  BY <1>1, ActorFacts DEF Calm, Doomed, HotWorkers, HotStages, MainStages, PendKinds
<1>5. \A w \in Workers : w # a => job[w].stage \notin HotStages
  BY <1>1, <1>4, ActorFacts
<1>6. ~Doomed
  BY <1>2, <1>5 DEF Doomed, HotWorkers
<1> QED
  BY <1>1, <1>2, <1>3, <1>4, <1>5, <1>6, ActorFacts DEF Calm

LEMMA SaveMain ==
    ASSUME MirrorInv, ReadsHold, NobodySaysEnded, MainArrives, NEW a \in Actors, Save(a)
    PROVE  MainArrives'
<1> SUFFICES ASSUME Calm', ~Waits(MainKinds)'
             PROVE  WorkersHaveMain' /\ RequestsHaveMain' /\ RowAgrees'
  BY DEF MainArrives
<1>1. /\ Calm /\ a \notin stale /\ Knows(a) /\ Savable(a)
      /\ row' = NewRow(job[a]) /\ row' \in RealRows
      /\ \A w \in Workers : job'[w].stage \notin HotStages
      /\ \A w \in Workers : w # a => job[w].stage \notin HotStages
      /\ \A r \in Requests : job'[r].stage # "idle" => r \in stale'
  BY SaveCalm
<1>2. /\ stripe' = stripe /\ queue' = queue /\ job[a].stage \in SaveStages /\ Sane(job[a])
  BY SaveFrame
<1>3. WorkersHaveMain' /\ RequestsHaveMain'
  BY <1>1 DEF WorkersHaveMain, RequestsHaveMain, HotStages
<1>4. ~Waits(MainKinds) /\ row' # NoRow
  BY <1>1, <1>2, RowFacts DEF Waits
<1>5. WorkersHaveMain
  BY <1>1, <1>4 DEF MainArrives
<1>6. job[a].stage \in {"sync", "deleted"} => a \in Workers
  BY TypeFacts DEF JobsAreSane, Actors, RequestStages
<1>7. CASE job[a].stage = "sync"
  <2>1. job[a].sub = stripe
    BY <1>5, <1>6, <1>7 DEF WorkersHaveMain, MainStages
  <2> QED
    BY <1>1, <1>2, <1>3, <1>4, <1>7, <2>1, NewRowFields DEF RowAgrees, SaveStages
<1>8. CASE job[a].stage = "deleted"
  <2>1. ~stripe.live /\ stripe.live \in BOOLEAN
    BY <1>8, TypeFacts, SubFields DEF NobodySaysEnded
  <2>2. row'.live = FALSE
    BY <1>1, <1>2, <1>8, NewRowFields DEF SaveStages
  <2> QED
    BY <1>2, <1>3, <1>4, <2>1, <2>2 DEF RowAgrees
<1>9. CASE job[a].stage \in {"pending", "cleared", "mirror", "seats_save"}
  <2>1. job[a].seen # NoRow /\ job[a].seen = row
    BY <1>1, <1>2, <1>9 DEF Sane, NeedRow, Knows
  <2>2. ~InHand(MainStages)
    BY <1>1, <1>9 DEF InHand, MainStages, HotStages
  <2>3. RequestsHaveMain /\ RowAgrees
    BY <1>1, <1>4, <2>1, <2>2 DEF MainArrives, Knows
  <2>4. job[a].stage \in {"mirror", "seats_save"} => a \in Requests
    BY TypeFacts DEF JobsAreSane, Actors, WorkerStages
  <2>5. CASE job[a].stage \in {"pending", "cleared"}
    BY <1>1, <1>2, <1>3, <1>4, <2>1, <2>3, <2>5, NewRowFields DEF RowAgrees, SaveStages
  <2>6. CASE job[a].stage = "mirror"
    <3>1. job[a].sub = stripe
      BY <1>1, <2>3, <2>4, <2>6 DEF RequestsHaveMain
    <3> QED
      BY <1>1, <1>2, <1>3, <1>4, <2>1, <2>3, <2>6, <3>1, NewRowFields
         DEF RowAgrees, SaveStages
  <2>7. CASE job[a].stage = "seats_save"
    <3>1. job[a].seats = stripe.seats
      BY <1>1, <2>3, <2>4, <2>7 DEF RequestsHaveMain
    <3> QED
      BY <1>1, <1>2, <1>3, <1>4, <2>1, <2>3, <2>7, <3>1, NewRowFields
         DEF RowAgrees, SaveStages
  <2> QED
    BY <1>9, <2>5, <2>6, <2>7
<1> QED
  BY <1>2, <1>7, <1>8, <1>9 DEF SaveStages

LEMMA SavePending ==
    ASSUME MirrorInv, ReadsHold, PendingArrives, NEW a \in Actors, Save(a)
    PROVE  PendingArrives'
<1> SUFFICES ASSUME Calm', ~Waits(PendKinds)'
             PROVE  /\ WorkersHavePending' /\ RequestsHavePending'
                    /\ FirstCustomer' => row'.pending = stripe'.sched
  BY DEF PendingArrives
<1>1. /\ Calm /\ a \notin stale /\ Knows(a) /\ Savable(a)
      /\ row' = NewRow(job[a])
      /\ \A w \in Workers : job'[w].stage \notin HotStages
      /\ \A w \in Workers : w # a => job[w].stage \notin HotStages
      /\ \A r \in Requests : job'[r].stage # "idle" => r \in stale'
  BY SaveCalm
<1>2. /\ stripe' = stripe /\ queue' = queue /\ customer' = customer
      /\ customers' = customers /\ job[a].stage \in SaveStages /\ Sane(job[a])
  BY SaveFrame
<1>3. WorkersHavePending' /\ RequestsHavePending'
  BY <1>1 DEF WorkersHavePending, RequestsHavePending, HotStages, PendKinds
<1>4. ~Waits(PendKinds) /\ FirstCustomer' = FirstCustomer
  BY <1>2 DEF Waits, FirstCustomer
<1>5. WorkersHavePending
  BY <1>1, <1>4 DEF PendingArrives
<1>6. CASE job[a].stage = "pending"
  <2>1. a \in Workers
    BY <1>6, TypeFacts DEF JobsAreSane, Actors, RequestStages
  <2>2. job[a].sub.sched = stripe.sched
    BY <1>5, <1>6, <2>1 DEF WorkersHavePending
  <2> QED
    BY <1>1, <1>2, <1>3, <1>6, <2>2, NewRowFields DEF SaveStages
<1>7. CASE job[a].stage = "cleared"
  <2>1. CASE a \in Workers
    BY <1>1, <1>2, <1>3, <1>5, <1>7, <2>1, NewRowFields DEF SaveStages, WorkersHavePending
  <2>2. CASE a \in Requests
    <3>1. ~InHand(PendKinds)
      BY <1>1, <2>2, ActorFacts DEF InHand, HotStages
    <3>2. RequestsHavePending
      BY <1>1, <1>4, <3>1 DEF PendingArrives
    <3> QED
      BY <1>1, <1>2, <1>3, <1>7, <2>2, <3>2, NewRowFields DEF SaveStages, RequestsHavePending
  <2> QED
    BY <2>1, <2>2 DEF Actors
<1>8. CASE job[a].stage \notin PendKinds
  <2>1. ~InHand(PendKinds)
    BY <1>1, <1>8 DEF InHand, HotStages
  <2>2. FirstCustomer => row.pending = stripe.sched
    BY <1>1, <1>4, <2>1 DEF PendingArrives
  <2>3. row'.pending = row.pending
    BY <1>1, <1>2, <1>8, NewRowFields DEF SaveStages, PendKinds, Knows
  <2> QED
    BY <1>2, <1>3, <1>4, <2>2, <2>3
<1> QED
  BY <1>6, <1>7, <1>8 DEF PendKinds

LEMMA SaveConverges ==
    ASSUME ConvergeInv, MirrorInv', NEW a \in Actors, Save(a)
    PROVE  ConvergeInv'
<1>0. MirrorInv
  BY DEF ConvergeInv
<1>1. /\ UNCHANGED <<stripe, queue, team, customer, customers, cancelling, dropped, reordered>>
      /\ job[a].stage \in SaveStages /\ Sane(job[a])
      /\ job'[a] = Idle /\ \A b \in Actors : b # a => job'[b] = job[b]
      /\ row' = IF Savable(a) THEN NewRow(job[a]) ELSE row
      /\ Savable(a) => row' \in RealRows
      /\ \A b \in Actors : job'[b].stage # "idle" => b \in stale'
  BY <1>0, SaveFrame
<1>2. ReadsHold'
  <2>1. row' # NoRow => customer' # 0
    BY <1>1 DEF ConvergeInv, ReadsHold, Savable
  <2>2. \A r \in Requests : job'[r].stage = "delete" => team'
    BY <1>1, IdleIsSane, ActorFacts DEF ConvergeInv, ReadsHold
  <2> QED
    BY <1>1, <2>1, <2>2 DEF ReadsHold, Unread
<1>3. NobodySaysEnded'
  <2> SUFFICES ASSUME stripe.live PROVE NobodySaysEnded'
    BY <1>1 DEF NobodySaysEnded
  <2>1. /\ \A i \in DOMAIN queue : queue[i].sub.live /\ queue[i].kind # "deleted"
        /\ \A b \in Actors : /\ job[b].sub.live /\ Running(job[b].seen)
                             /\ job[b].stage \notin {"deleted", "erase_rows"}
        /\ Running(row) /\ deletions = {}
    BY DEF NobodySaysEnded, ConvergeInv
  <2>2. Idle.sub.live /\ Idle.seen = NoRow /\ Idle.stage = "idle"
    BY DEF Idle, Start0
  <2>3. \A b \in Actors : /\ job'[b].sub.live /\ Running(job'[b].seen)
                          /\ job'[b].stage \notin {"deleted", "erase_rows"}
    BY <1>1, <2>1, <2>2 DEF Running
  <2>4. deletions' = {}
    BY <2>1 DEF Save
  <2>5. Running(row')
    <3>1. CASE ~Savable(a)
      BY <1>1, <2>1, <3>1
    <3>2. CASE Savable(a)
      <4>1. job[a].stage # "sync" => job[a].seen.live
        BY <1>1, <2>1 DEF Sane, NeedRow, SaveStages, Running
      <4>2. NewRow(job[a]).live
        BY <1>1, <2>1, <4>1, NewRowFields DEF SaveStages
      <4> QED
        BY <1>1, <3>2, <4>2 DEF Running
    <3> QED
      BY <3>1, <3>2
  <2> QED
    BY <1>1, <2>1, <2>3, <2>4, <2>5 DEF NobodySaysEnded
<1>4. NoScheduleBeforeRow'
  <2> SUFFICES ASSUME customers <= 1, customer = customers, row' = NoRow
               PROVE  /\ stripe.sched = NoPlan
                      /\ \A i \in DOMAIN queue : queue[i].kind # "pending"
                      /\ \A q \in Requests : job'[q].stage \in Harmless
    BY <1>1 DEF NoScheduleBeforeRow
  <2>1. row = NoRow
    BY <1>1, RowFacts
  <2>2. /\ stripe.sched = NoPlan
        /\ \A i \in DOMAIN queue : queue[i].kind # "pending"
        /\ \A q \in Requests : job[q].stage \in Harmless
    BY <2>1 DEF NoScheduleBeforeRow, ConvergeInv
  <2> QED
    BY <1>1, <2>2, IdleIsSane, ActorFacts DEF Harmless
<1>5. LastEventsTell'
  BY <1>1 DEF LastEventsTell, IsLast, ConvergeInv
<1>6. MainArrives' /\ PendingArrives'
  BY <1>0, SaveMain, SavePending DEF ConvergeInv
<1>7. DeletionReachesStripe'
  <2>1. Calm' => customer' # 0
    BY <1>0, <1>1, SaveCalm DEF Knows, ConvergeInv
  <2> QED
    BY <2>1 DEF DeletionReachesStripe
<1> QED
  BY <1>2, <1>3, <1>4, <1>5, <1>6, <1>7 DEF ConvergeInv

----------------------------------------------------------------------------
(* The customer is deleted, and its row with it.                           *)

\* Deletions that find another customer, or none, change nothing.
LEMMA VainDeletionsAside ==
    ASSUME MirrorInv,
           \/ \E r \in Requests : DeleteOrg(r) /\ job[r].owner # customer
           \/ \E c \in deletions : DeleteCanceledOrg(c) /\ c # customer
    PROVE  Aside
<1>1. ASSUME NEW r \in Requests, DeleteOrg(r), job[r].owner # customer PROVE Aside
  <2>1. /\ UNCHANGED <<stripe, queue, team, customer, customers, row, deletions, overlapped,
                       dropped, reordered>>
        /\ stale' = stale \ {r} /\ Finish(r)
        /\ cancelling' = cancelling \/ cancelling' = "queued"
    BY <1>1 DEF DeleteOrg, KeptRow
  <2>2. job'[r] = Idle /\ \A b \in Actors : b # r => job'[b] = job[b]
    BY <2>1, FinishFacts, ActorFacts
  <2> QED
    BY <2>1, <2>2, ActorFacts DEF Aside, StripeMoves, GoesOn
<1>2. ASSUME NEW c \in deletions, DeleteCanceledOrg(c), c # customer PROVE Aside
  BY <1>2 DEF DeleteCanceledOrg, bounds, Aside, StripeMoves
<1> QED
  BY <1>1, <1>2

CustomerDeleted ==
    /\ UNCHANGED <<stripe, queue, team, customers, reordered>>
    /\ row' = NoRow /\ customer' = 0 /\ deletions' \subseteq deletions
    /\ \A w \in Workers : job'[w] = job[w]
    /\ \A r \in Requests : job'[r] \in {job[r], Idle}
    /\ \A a \in Actors : job'[a].stage # "idle" => a \in stale'
    /\ \A w \in Workers : w \in stale => w \in stale'
    /\ overlapped => overlapped'
    /\ dropped => dropped'
    /\ cancelling' = cancelling \/ cancelling' = "queued"

\* Nobody who was at work can go on undisturbed.
LEMMA DeletedCalm ==
    ASSUME MirrorInv, CustomerDeleted, Calm'
    PROVE  /\ Calm
           /\ \A w \in Workers : job[w].stage \notin HotStages /\ job'[w] = job[w]
           /\ \A r \in Requests : r \notin stale' => job'[r].stage = "idle"
<1>1. \A w \in Workers : job'[w].stage \notin HotStages
  <2> SUFFICES ASSUME NEW w \in Workers, job'[w].stage \in HotStages PROVE FALSE
    OBVIOUS
  <2>1. job'[w].stage # "idle" /\ w \in Actors
    BY ActorFacts DEF HotStages, MainStages, PendKinds
  <2>2. w \in stale' /\ w \in HotWorkers'
    BY <2>1 DEF CustomerDeleted, HotWorkers
  <2> QED
    BY <2>2 DEF Calm, Doomed
<1>2. \A w \in Workers : job[w].stage \notin HotStages /\ job'[w] = job[w]
  BY <1>1 DEF CustomerDeleted
<1>3. Calm
  BY <1>2 DEF Calm, CustomerDeleted, Doomed, HotWorkers
<1> QED
  BY <1>2, <1>3, ActorFacts DEF CustomerDeleted

LEMMA DeletedConverges ==
    ASSUME ConvergeInv, MirrorInv', CustomerDeleted,
           Calm' /\ customer # 0 =>
              ~stripe.live \/ cancelling' = "queued" \/ CheckoutComing \/ InHand({"retrieved"})
    PROVE  ConvergeInv'
<1>0. MirrorInv /\ Workers \subseteq Actors /\ Requests \subseteq Actors
  BY ActorFacts DEF ConvergeInv
<1>1. /\ stripe' = stripe /\ queue' = queue /\ team' = team /\ customers' = customers
      /\ reordered' = reordered /\ row' = NoRow /\ customer' = 0
      /\ \A a \in Actors : job'[a] \in {job[a], Idle}
      /\ \A K : Waits(K)' = Waits(K)
  BY DEF CustomerDeleted, Actors, Waits
<1>2. ReadsHold'
  <2>1. \A a \in Actors : job'[a].stage \in Unread \/ a \in stale'
    BY DEF CustomerDeleted, Unread
  <2>2. \A r \in Requests : job'[r].stage = "delete" => team'
    BY <1>0, <1>1, IdleIsSane DEF ConvergeInv, ReadsHold
  <2> QED
    BY <1>1, <2>1, <2>2 DEF ReadsHold
<1>3. NobodySaysEnded'
  <2> SUFFICES ASSUME stripe.live PROVE NobodySaysEnded'
    BY <1>1 DEF NobodySaysEnded
  <2>1. /\ \A i \in DOMAIN queue : queue[i].sub.live /\ queue[i].kind # "deleted"
        /\ \A b \in Actors : /\ job[b].sub.live /\ Running(job[b].seen)
                             /\ job[b].stage \notin {"deleted", "erase_rows"}
        /\ deletions = {}
    BY DEF NobodySaysEnded, ConvergeInv
  <2>2. Idle.sub.live /\ Idle.seen = NoRow /\ Idle.stage = "idle"
    BY DEF Idle, Start0
  <2>3. \A b \in Actors : /\ job'[b].sub.live /\ Running(job'[b].seen)
                          /\ job'[b].stage \notin {"deleted", "erase_rows"}
    BY <1>1, <2>1, <2>2 DEF Running
  <2>4. deletions' = {} /\ Running(row')
    BY <1>1, <2>1 DEF CustomerDeleted, Running
  <2> QED
    BY <1>1, <2>1, <2>3, <2>4 DEF NobodySaysEnded
<1>4. NoScheduleBeforeRow'
  <2> SUFFICES ASSUME customers <= 1, 0 = customers
               PROVE  /\ stripe.sched = NoPlan
                      /\ \A i \in DOMAIN queue : queue[i].kind # "pending"
                      /\ \A q \in Requests : job'[q].stage \in Harmless
    BY <1>1 DEF NoScheduleBeforeRow
  <2>1. customer = customers
    BY <1>0, TypeFacts
  <2>2. row = NoRow
    BY <2>1 DEF ConvergeInv, ReadsHold
  <2>3. /\ stripe.sched = NoPlan
        /\ \A i \in DOMAIN queue : queue[i].kind # "pending"
        /\ \A q \in Requests : job[q].stage \in Harmless
    BY <2>1, <2>2 DEF ConvergeInv, NoScheduleBeforeRow
  <2> QED
    BY <1>0, <1>1, <2>3, IdleIsSane DEF Harmless
<1>5. LastEventsTell'
  BY <1>1 DEF LastEventsTell, IsLast, ConvergeInv
<1>6. MainArrives'
  <2> SUFFICES ASSUME Calm' PROVE WorkersHaveMain' /\ RequestsHaveMain'
    BY <1>1 DEF MainArrives
  <2> QED
    BY <1>0, DeletedCalm DEF WorkersHaveMain, RequestsHaveMain, HotStages
<1>7. PendingArrives'
  <2>1. FirstCustomer' => row'.pending = stripe'.sched
    BY <1>1, <1>4, RowFacts DEF NoScheduleBeforeRow, FirstCustomer
  <2> SUFFICES ASSUME Calm' PROVE WorkersHavePending' /\ RequestsHavePending'
    BY <2>1 DEF PendingArrives
  <2> QED
    BY <1>0, DeletedCalm DEF WorkersHavePending, RequestsHavePending, HotStages, PendKinds
<1>8. DeletionReachesStripe'
  <2> SUFFICES ASSUME Calm', customers # 0
               PROVE  \/ ~stripe.live \/ cancelling' \in {"queued", "failed"}
                      \/ CheckoutComing' \/ InHand({"retrieved"})'
    BY <1>1 DEF DeletionReachesStripe
  <2>1. Calm /\ \A w \in Workers : job'[w] = job[w]
    BY <1>0, DeletedCalm
  <2>2. CheckoutComing' = CheckoutComing /\ InHand({"retrieved"})' = InHand({"retrieved"})
    BY <1>1, <2>1 DEF CheckoutComing, CheckoutsWaiting, AtCheckout, InHand
  <2>3. CASE customer = 0
    <3>1. \/ ~stripe.live \/ cancelling \in {"queued", "failed"}
          \/ CheckoutComing \/ InHand({"retrieved"})
      BY <2>1, <2>3 DEF ConvergeInv, DeletionReachesStripe
    <3> QED
      BY <2>2, <3>1 DEF CustomerDeleted
  <2>4. CASE customer # 0
    BY <2>2, <2>4
  <2> QED
    BY <2>3, <2>4
<1> QED
  BY <1>2, <1>3, <1>4, <1>5, <1>6, <1>7, <1>8 DEF ConvergeInv

LEMMA DeletionConverges ==
    ASSUME ConvergeInv, MirrorInv',
           \/ \E r \in Requests : DeleteOrg(r) \/ EraseRows(r) \/ RemoveMember(r)
           \/ \E c \in deletions : DeleteCanceledOrg(c)
    PROVE  ConvergeInv'
<1>0. MirrorInv
  BY DEF ConvergeInv
<1>1. CASE \/ \E r \in Requests : DeleteOrg(r) /\ job[r].owner # customer
           \/ \E c \in deletions : DeleteCanceledOrg(c) /\ c # customer
  BY <1>0, <1>1, VainDeletionsAside, AsideConverges
<1>2. ASSUME NEW r \in Requests,
             (DeleteOrg(r) /\ job[r].owner = customer) \/ EraseRows(r) \/ RemoveMember(r)
      PROVE  ConvergeInv'
  <2>1. /\ UNCHANGED <<stripe, queue, team, customers, deletions, reordered>>
        /\ row' = NoRow /\ customer' = 0 /\ Wrote(r) /\ Finish(r)
        /\ cancelling' = cancelling \/ cancelling' = "queued"
        /\ dropped => dropped'
    BY <1>2 DEF DeleteOrg, EraseRows, RemoveMember
  <2>2. job'[r] = Idle /\ \A b \in Actors : b # r => job'[b] = job[b]
    BY <1>0, <2>1, FinishFacts, ActorFacts
  <2>3. /\ stale' = (stale \cup Busy) \ {r}
        /\ overlapped' = (overlapped \/ r \in stale)
    BY <2>1 DEF Wrote
  <2>4. \A a \in Actors : job'[a].stage # "idle" => a \in stale'
    BY <2>2, <2>3, IdleIsSane DEF Busy
  <2>5. CustomerDeleted
    BY <2>1, <2>2, <2>3, <2>4, ActorFacts DEF CustomerDeleted
  <2>6. ASSUME Calm', customer # 0
        PROVE  \/ ~stripe.live \/ cancelling' = "queued"
               \/ CheckoutComing \/ InHand({"retrieved"})
    <3>1. CASE EraseRows(r)
      BY <3>1, ActorFacts DEF EraseRows, ConvergeInv, NobodySaysEnded
    <3>2. CASE DeleteOrg(r)
      <4>1. r \notin stale /\ job[r].stage = "delete" /\ team
        BY <2>3, <2>6, <3>2 DEF Calm, DeleteOrg, ConvergeInv, ReadsHold
      <4>2. job[r].seen = row
        BY <4>1, ActorFacts DEF ConvergeInv, ReadsHold, Knows, Unread
      <4>3. CASE row = NoRow
        <5>1. \/ \E i \in DOMAIN queue : queue[i].kind = "checkout"
              \/ \E w \in Workers : Bringing(w)
          BY <1>0, <2>1, <2>6, <4>1, <4>3 DEF MirrorInv, RowComes, Calm
        <5>2. ASSUME NEW w \in Workers, Bringing(w)
              PROVE  job[w].stage \in {"checkout", "retrieved"}
          <6>1. job[w].stage \notin HotStages
            BY <1>0, <2>5, <2>6, DeletedCalm
          <6> QED
            BY <5>2, <6>1 DEF Bringing, HotStages, MainStages
        <5> QED
          BY <5>1, <5>2 DEF CheckoutComing, CheckoutsWaiting, AtCheckout, InHand
      <4>4. CASE row # NoRow /\ row.live
        BY <3>2, <4>2, <4>4 DEF DeleteOrg
      <4>5. CASE row # NoRow /\ ~row.live
        BY <4>5 DEF ConvergeInv, NobodySaysEnded, Running
      <4> QED
        BY <4>3, <4>4, <4>5
    <3>3. CASE RemoveMember(r)
      BY <2>6, <3>3 DEF RemoveMember, Calm
    <3> QED
      BY <1>2, <3>1, <3>2, <3>3
  <2> QED
    BY <2>5, <2>6, DeletedConverges
<1>3. ASSUME NEW c \in deletions, DeleteCanceledOrg(c), c = customer
      PROVE  ConvergeInv'
  <2>1. /\ UNCHANGED <<stripe, queue, team, customers, job, cancelling, overlapped, dropped,
                       reordered>>
        /\ row' = NoRow /\ customer' = 0 /\ deletions' \subseteq deletions
        /\ stale' = stale \cup Busy
    BY <1>3 DEF DeleteCanceledOrg
  <2>2. CustomerDeleted
    BY <2>1 DEF CustomerDeleted, Busy
  <2>3. ~stripe.live
    BY DEF ConvergeInv, NobodySaysEnded
  <2> QED
    BY <2>2, <2>3, DeletedConverges
<1> QED
  BY <1>1, <1>2, <1>3

----------------------------------------------------------------------------
(* A worker takes an event.                                                *)

Takes(i) ==
    /\ queue' = RemoveAt(queue, i)
    /\ reordered' = (reordered \/ i # 1)

\* What is left was there before.
LEMMA LeftWasThere ==
    ASSUME MirrorInv, NEW i \in DOMAIN queue, Takes(i)
    PROVE  /\ \A k \in DOMAIN queue' : \E m \in DOMAIN queue : m # i /\ queue'[k] = queue[m]
           /\ \A m \in DOMAIN queue : m # i => \E k \in DOMAIN queue' : queue'[k] = queue[m]
           /\ \A K : Waits(K)' => Waits(K)
           /\ \A K : Waits(K) /\ queue[i].kind \notin K => Waits(K)'
<1>1. queue \in Seq(Events) /\ queue' = RemoveAt(queue, i)
  BY TypeFacts DEF Takes
<1>2. /\ \A k \in DOMAIN queue' : \E m \in DOMAIN queue : m # i /\ queue'[k] = queue[m]
      /\ \A m \in DOMAIN queue : m # i => \E k \in DOMAIN queue' : queue'[k] = queue[m]
  BY <1>1, ShiftFacts
<1> QED
  BY <1>2 DEF Waits

\* Taken in order, it was the first.
LEMMA HeadFacts ==
    ASSUME MirrorInv, NEW i \in DOMAIN queue, Takes(i), ~reordered'
    PROVE  /\ i = 1 /\ ~reordered /\ DOMAIN queue \subseteq Nat
           /\ \A m \in DOMAIN queue : m # 1 => m > 1 /\ m - 1 \in DOMAIN queue'
                                               /\ queue'[m - 1] = queue[m]
           /\ \A k \in DOMAIN queue' : /\ k \in Nat /\ k + 1 \in DOMAIN queue
                                       /\ queue'[k] = queue[k + 1]
<1>1. queue \in Seq(Events) /\ queue' = RemoveAt(queue, i) /\ i = 1 /\ ~reordered
  BY TypeFacts DEF Takes
<1>2. Len(queue) \in Nat /\ DOMAIN queue = 1..Len(queue)
  BY <1>1
<1>3. /\ queue' \in Seq(Events) /\ Len(queue') = Len(queue) - 1
      /\ \A k \in 1..(Len(queue) - 1) : queue'[k] = IF k < 1 THEN queue[k] ELSE queue[k + 1]
  BY <1>1, RemoveAtFacts
<1>4. DOMAIN queue' = 1..(Len(queue) - 1)
  BY <1>3
<1>5. \A k \in DOMAIN queue' : /\ k \in Nat /\ k + 1 \in DOMAIN queue
                               /\ queue'[k] = queue[k + 1]
  BY <1>2, <1>3, <1>4
<1>6. ASSUME NEW m \in DOMAIN queue, m # 1
      PROVE  m > 1 /\ m - 1 \in DOMAIN queue' /\ queue'[m - 1] = queue[m]
  <2>1. m > 1 /\ m - 1 \in 1..(Len(queue) - 1) /\ (m - 1) + 1 = m
    BY <1>2, <1>6
  <2> QED
    BY <1>4, <1>5, <2>1
<1> QED
  BY <1>1, <1>2, <1>5, <1>6

\* The last of a kind stays the last of its kind, and goes when none is left.
LEMMA LastStays ==
    ASSUME MirrorInv, NEW i \in DOMAIN queue, Takes(i), ~reordered'
    PROVE  /\ \A K : \A k \in DOMAIN queue' : IsLast(K, k)' => IsLast(K, k + 1)
           /\ \A K : Waits(K) /\ ~Waits(K)' => IsLast(K, i)
<1>0. /\ i = 1 /\ ~reordered /\ DOMAIN queue \subseteq Nat
      /\ \A m \in DOMAIN queue : m # 1 => m > 1 /\ m - 1 \in DOMAIN queue'
                                          /\ queue'[m - 1] = queue[m]
      /\ \A k \in DOMAIN queue' : /\ k \in Nat /\ k + 1 \in DOMAIN queue
                                  /\ queue'[k] = queue[k + 1]
  BY HeadFacts
<1>1. ASSUME NEW K, NEW k \in DOMAIN queue', IsLast(K, k)' PROVE IsLast(K, k + 1)
  <2>1. /\ queue'[k].kind \in K
        /\ \A l \in DOMAIN queue' : l > k => queue'[l].kind \notin K
    BY <1>1 DEF IsLast
  <2>2. ASSUME NEW m \in DOMAIN queue, m > k + 1 PROVE queue[m].kind \notin K
    <3>1. m \in Nat /\ k \in Nat
      BY <1>0
    <3>2. m # 1 /\ m - 1 > k
      BY <2>2, <3>1
    <3> QED
      BY <1>0, <2>1, <3>2
  <2> QED
    BY <1>0, <2>1, <2>2 DEF IsLast
<1>2. ASSUME NEW K, Waits(K), ~Waits(K)' PROVE IsLast(K, i)
  <2>1. queue[i].kind \in K
    BY <1>2, LeftWasThere
  <2>2. \A m \in DOMAIN queue : m # 1 => queue[m].kind \notin K
    BY <1>0, <1>2 DEF Waits
  <2>3. \A m \in DOMAIN queue : m > i => m # 1
    BY <1>0
  <2> QED
    BY <2>1, <2>2, <2>3 DEF IsLast
<1> QED
  BY <1>1, <1>2

LEMMA TakingTells ==
    ASSUME MirrorInv, LastEventsTell, NEW i \in DOMAIN queue, Takes(i), stripe' = stripe
    PROVE  LastEventsTell'
<1> SUFFICES ASSUME ~reordered', NEW k \in DOMAIN queue'
             PROVE  /\ IsLast(MainKinds, k)' => queue'[k].sub = stripe
                    /\ IsLast(PendKinds, k)' =>
                          /\ queue'[k].sub.sched = stripe.sched
                          /\ queue'[k].kind = "pending" <=> stripe.sched # NoPlan
  BY DEF LastEventsTell
<1>1. k + 1 \in DOMAIN queue /\ queue'[k] = queue[k + 1] /\ ~reordered
  BY HeadFacts
<1>2. \A K : IsLast(K, k)' => IsLast(K, k + 1)
  BY LastStays
<1> QED
  BY <1>1, <1>2 DEF LastEventsTell

LEMMA TakeFrame ==
    ASSUME MirrorInv, ReadsHold, NEW w \in Workers, NEW i \in DOMAIN queue, TakeEvent(w, i)
    PROVE  /\ Takes(i) /\ stripe' = stripe /\ team' = team /\ cancelling' = cancelling
           /\ row' = row /\ customer' = customer /\ customers' = customers
           /\ deletions' = deletions /\ stale' = stale \ {w}
           /\ overlapped' = (overlapped \/ (Ignored(queue[i]) /\ Busy # {})) /\ dropped' = dropped
           /\ job[w].stage = "idle" /\ w \in Actors
           /\ \A b \in Actors : b # w => job'[b] = job[b]
           /\ queue[i].kind \in MainKinds \cup PendKinds
           /\ Ignored(queue[i]) => job' = job
           /\ ~Ignored(queue[i]) =>
                 /\ job'[w].stage = queue[i].kind /\ job'[w].sub = queue[i].sub
                 /\ job'[w].seen = row /\ job'[w].owner = customer /\ customer # 0
<1>0. job \in [Actors -> Jobs] /\ w \in Actors /\ queue[i] \in Events
  BY TypeFacts, ActorFacts
<1>1. /\ Takes(i) /\ stripe' = stripe /\ team' = team /\ cancelling' = cancelling
      /\ row' = row /\ customer' = customer /\ customers' = customers
      /\ deletions' = deletions /\ stale' = stale \ {w}
      /\ overlapped' = (overlapped \/ (Ignored(queue[i]) /\ Busy # {})) /\ dropped' = dropped
      /\ job[w].stage = "idle" /\ queue[i].kind # "checkout"
  BY DEF TakeEvent, Takes, db
<1>2. queue[i].kind \in MainKinds \cup PendKinds
  BY <1>0, <1>1 DEF Events, Kinds, MainKinds, PendKinds
<1>3. CASE Ignored(queue[i])
  BY <1>0, <1>1, <1>2, <1>3 DEF TakeEvent
<1>4. CASE ~Ignored(queue[i])
  <2>1. PICK j : j = [Idle EXCEPT !.stage = queue[i].kind, !.seen = row,
                                  !.owner = customer, !.sub = queue[i].sub]
    OBVIOUS
  <2>2. /\ j.stage = queue[i].kind /\ j.seen = row /\ j.owner = customer
        /\ j.sub = queue[i].sub
    BY <1>0, <1>1, <1>4, <2>1, TakenIsSane
  <2>3. job' = [job EXCEPT ![w] = j]
    BY <1>4, <2>1 DEF TakeEvent, Goto
  <2>4. job'[w] = j /\ \A b \in Actors : b # w => job'[b] = job[b]
    BY <1>0, <2>3
  <2>5. customer # 0
    <3>1. CASE queue[i].kind = "sync"
      BY <1>4, <3>1 DEF Ignored
    <3>2. CASE queue[i].kind # "sync"
      BY <1>2, <1>4, <3>2, RowFacts DEF Ignored, ReadsHold, MainKinds, PendKinds
    <3> QED
      BY <3>1, <3>2
  <2> QED
    BY <1>0, <1>1, <1>2, <1>4, <2>2, <2>4, <2>5
<1> QED
  BY <1>3, <1>4

LEMMA TakeCalm ==
    ASSUME MirrorInv, ReadsHold, NEW w \in Workers, NEW i \in DOMAIN queue, TakeEvent(w, i),
           Calm'
    PROVE  /\ Calm /\ ~reordered'
           /\ Ignored(queue[i]) => \A a \in Actors : job[a].stage = "idle" /\ job'[a] = job[a]
           /\ ~Ignored(queue[i]) =>
                 \A v \in Workers : v # w => job'[v].stage \notin HotStages
<1>1. /\ Takes(i) /\ stale' = stale \ {w}
      /\ overlapped' = (overlapped \/ (Ignored(queue[i]) /\ Busy # {})) /\ dropped' = dropped
      /\ job[w].stage = "idle" /\ w \in Actors
      /\ \A b \in Actors : b # w => job'[b] = job[b]
      /\ queue[i].kind \in MainKinds \cup PendKinds
      /\ Ignored(queue[i]) => job' = job
      /\ ~Ignored(queue[i]) => job'[w].stage = queue[i].kind
  BY TakeFrame
<1>2. ~reordered' /\ ~reordered /\ ~overlapped /\ ~dropped
  BY <1>1 DEF Calm, Takes
<1>3. ~Doomed
  <2>1. w \notin HotWorkers
    BY <1>1 DEF HotWorkers, HotStages, MainStages, PendKinds
  <2>2. HotWorkers \subseteq HotWorkers'
    BY <1>1, <2>1, ActorFacts DEF HotWorkers
  <2> QED
    BY <1>1, <2>1, <2>2 DEF Calm, Doomed
<1>4. Ignored(queue[i]) => \A a \in Actors : job[a].stage = "idle" /\ job'[a] = job[a]
  BY <1>1 DEF Calm, Busy
<1>5. ASSUME ~Ignored(queue[i]), NEW v \in Workers, v # w PROVE job'[v].stage \notin HotStages
  <2>1. w \in HotWorkers'
    BY <1>1, <1>5 DEF HotWorkers, HotStages, MainStages, MainKinds
  <2> QED
    BY <1>5, <2>1 DEF Calm, Doomed, HotWorkers
<1> QED
  BY <1>2, <1>3, <1>4, <1>5 DEF Calm

\* The rest of the checkout is not touched.
LEMMA TakeKeepsCheckout ==
    ASSUME MirrorInv, ReadsHold, NEW w \in Workers, NEW i \in DOMAIN queue, TakeEvent(w, i)
    PROVE  /\ CheckoutComing => CheckoutComing'
           /\ \A S : "idle" \notin S /\ InHand(S) => InHand(S)'
<1>1. /\ Takes(i) /\ job[w].stage = "idle"
      /\ \A b \in Actors : b # w => job'[b] = job[b]
      /\ queue[i].kind \in MainKinds \cup PendKinds
  BY TakeFrame
<1>2. ASSUME NEW S, "idle" \notin S, InHand(S) PROVE InHand(S)'
  <2>1. PICK v \in Workers : job[v].stage \in S
    BY <1>2 DEF InHand
  <2>2. v # w
    BY <1>1, <1>2, <2>1
  <2> QED
    BY <1>1, <2>1, <2>2, ActorFacts DEF InHand
<1>3. CheckoutsWaiting # {} => CheckoutsWaiting' # {}
  <2>1. Waits({"checkout"}) => Waits({"checkout"})'
    BY <1>1, LeftWasThere DEF MainKinds, PendKinds
  <2> QED
    BY <2>1 DEF Waits, CheckoutsWaiting
<1>4. AtCheckout # {} => AtCheckout' # {}
  <2>1. InHand({"checkout"}) => InHand({"checkout"})'
    BY <1>2
  <2> QED
    BY <2>1 DEF InHand, AtCheckout
<1> QED
  BY <1>2, <1>3, <1>4 DEF CheckoutComing

LEMMA TakeMain ==
    ASSUME ConvergeInv, NEW w \in Workers, NEW i \in DOMAIN queue, TakeEvent(w, i)
    PROVE  MainArrives'
<1> SUFFICES ASSUME Calm', ~Waits(MainKinds)'
             PROVE  /\ WorkersHaveMain'
                    /\ InHand(MainStages)' \/ RequestsHaveMain'
                    /\ \/ customer' = 0 \/ InHand(MainStages)' \/ RowAgrees'
                       \/ row' = NoRow /\ CheckoutComing'
  BY DEF MainArrives
<1>0. MirrorInv /\ ReadsHold
  BY DEF ConvergeInv
<1>1. /\ Takes(i) /\ stripe' = stripe /\ team' = team
      /\ row' = row /\ customer' = customer /\ stale' = stale \ {w}
      /\ job[w].stage = "idle" /\ w \in Actors
      /\ \A b \in Actors : b # w => job'[b] = job[b]
      /\ queue[i].kind \in MainKinds \cup PendKinds
      /\ Ignored(queue[i]) => job' = job
      /\ ~Ignored(queue[i]) =>
            job'[w].stage = queue[i].kind /\ job'[w].sub = queue[i].sub
  BY <1>0, TakeFrame
<1>2. /\ Calm /\ ~reordered'
      /\ Ignored(queue[i]) => \A a \in Actors : job[a].stage = "idle" /\ job'[a] = job[a]
      /\ ~Ignored(queue[i]) => \A v \in Workers : v # w => job'[v].stage \notin HotStages
  BY <1>0, TakeCalm
<1>3. queue[i].kind \in MainKinds => IsLast(MainKinds, i)
  BY <1>0, <1>1, <1>2, LastStays DEF Waits
<1>4. queue[i].kind \in MainKinds => queue[i].sub = stripe
  <2>1. ~reordered
    BY <1>2 DEF Calm
  <2> QED
    BY <1>3, <2>1 DEF ConvergeInv, LastEventsTell
<1>5. queue[i].kind \notin MainKinds => ~Waits(MainKinds)
  BY <1>0, <1>1, LeftWasThere
<1>6. CheckoutComing => CheckoutComing'
  BY <1>0, TakeKeepsCheckout
<1>7. CASE Ignored(queue[i])
  <2>1. WorkersHaveMain' /\ RequestsHaveMain'
    BY <1>2, <1>7, ActorFacts DEF WorkersHaveMain, RequestsHaveMain, MainStages
  <2>2. CASE queue[i].kind \notin MainKinds
    <3>1. ~InHand(MainStages)
      BY <1>2, <1>7, ActorFacts DEF InHand, MainStages
    <3>2. customer = 0 \/ RowAgrees \/ (row = NoRow /\ CheckoutComing)
      BY <1>2, <1>5, <2>2, <3>1 DEF ConvergeInv, MainArrives
    <3>3. RowAgrees => RowAgrees'
      BY <1>1 DEF RowAgrees
    <3> QED
      BY <1>1, <1>6, <2>1, <3>2, <3>3
  <2>3. CASE queue[i].kind = "sync"
    BY <1>1, <1>7, <2>1, <2>3 DEF Ignored
  <2>4. CASE queue[i].kind = "deleted" /\ customer # 0
    <3>1. row = NoRow
      BY <1>7, <2>4 DEF Ignored
    <3>2. \A v \in Workers : ~Bringing(v)
      BY <1>2, <1>7, ActorFacts DEF Bringing
    <3>3. \E m \in DOMAIN queue : queue[m].kind = IF team THEN "checkout" ELSE "sync"
      BY <1>0, <1>2, <2>4, <3>1, <3>2 DEF MirrorInv, RowComes, Calm
    <3>4. CASE team
      BY <1>1, <1>6, <2>1, <3>1, <3>3, <3>4 DEF CheckoutComing, CheckoutsWaiting
    <3>5. CASE ~team
      <4>1. PICK m \in DOMAIN queue : queue[m].kind = "sync"
        BY <3>3, <3>5
      <4>2. m # i
        BY <2>4, <4>1
      <4>3. Waits(MainKinds)'
        BY <1>0, <1>1, <4>1, <4>2, LeftWasThere DEF Waits, MainKinds
      <4> QED
        BY <4>3
    <3> QED
      BY <3>4, <3>5
  <2> QED
    BY <1>1, <2>1, <2>2, <2>3, <2>4 DEF MainKinds
<1>8. CASE ~Ignored(queue[i]) /\ queue[i].kind \in MainKinds
  <2>1. InHand(MainStages)'
    BY <1>1, <1>8 DEF InHand, MainStages, MainKinds
  <2>2. WorkersHaveMain'
    BY <1>1, <1>2, <1>4, <1>8 DEF WorkersHaveMain, HotStages
  <2> QED
    BY <2>1, <2>2
<1>9. CASE ~Ignored(queue[i]) /\ queue[i].kind \notin MainKinds
  <2>1. job'[w].stage \notin MainStages /\ job'[w].stage \in PendKinds
    BY <1>1, <1>9 DEF MainStages, PendKinds
  <2>2. WorkersHaveMain'
    BY <1>2, <1>9, <2>1 DEF WorkersHaveMain, HotStages
  <2>3. InHand(MainStages) => InHand(MainStages)'
    BY <1>0, TakeKeepsCheckout DEF MainStages
  <2>4. RequestsHaveMain => RequestsHaveMain'
    BY <1>1, ActorFacts DEF RequestsHaveMain
  <2>5. RowAgrees => RowAgrees'
    BY <1>1 DEF RowAgrees
  <2> QED
    BY <1>1, <1>2, <1>5, <1>6, <1>9, <2>2, <2>3, <2>4, <2>5 DEF ConvergeInv, MainArrives
<1> QED
  BY <1>7, <1>8, <1>9

LEMMA TakePending ==
    ASSUME ConvergeInv, NEW w \in Workers, NEW i \in DOMAIN queue, TakeEvent(w, i)
    PROVE  PendingArrives'
<1> SUFFICES ASSUME Calm', ~Waits(PendKinds)'
             PROVE  /\ WorkersHavePending'
                    /\ InHand(PendKinds)' \/ RequestsHavePending'
                    /\ ~FirstCustomer' \/ InHand(PendKinds)' \/ row'.pending = stripe'.sched
  BY DEF PendingArrives
<1>0. MirrorInv /\ ReadsHold
  BY DEF ConvergeInv
<1>1. /\ Takes(i) /\ stripe' = stripe
      /\ row' = row /\ customer' = customer /\ customers' = customers /\ stale' = stale \ {w}
      /\ job[w].stage = "idle" /\ w \in Actors
      /\ \A b \in Actors : b # w => job'[b] = job[b]
      /\ queue[i].kind \in MainKinds \cup PendKinds
      /\ Ignored(queue[i]) => job' = job
      /\ ~Ignored(queue[i]) =>
            job'[w].stage = queue[i].kind /\ job'[w].sub = queue[i].sub
  BY <1>0, TakeFrame
<1>2. /\ Calm /\ ~reordered'
      /\ Ignored(queue[i]) => \A a \in Actors : job[a].stage = "idle" /\ job'[a] = job[a]
      /\ ~Ignored(queue[i]) => \A v \in Workers : v # w => job'[v].stage \notin HotStages
  BY <1>0, TakeCalm
<1>3. queue[i].kind \in PendKinds => IsLast(PendKinds, i)
  BY <1>0, <1>1, <1>2, LastStays DEF Waits
<1>4. queue[i].kind \in PendKinds => /\ queue[i].sub.sched = stripe.sched
                                     /\ queue[i].kind = "pending" <=> stripe.sched # NoPlan
  <2>1. ~reordered
    BY <1>2 DEF Calm
  <2> QED
    BY <1>3, <2>1 DEF ConvergeInv, LastEventsTell
<1>5. queue[i].kind \notin PendKinds => ~Waits(PendKinds)
  BY <1>0, <1>1, LeftWasThere
<1>6. FirstCustomer' = FirstCustomer
  BY <1>1 DEF FirstCustomer
<1>7. CASE Ignored(queue[i])
  <2>1. WorkersHavePending' /\ RequestsHavePending'
    BY <1>2, <1>7, ActorFacts DEF WorkersHavePending, RequestsHavePending
  <2>2. CASE queue[i].kind \notin PendKinds
    <3>1. ~InHand(PendKinds)
      BY <1>2, <1>7, ActorFacts DEF InHand, PendKinds
    <3>2. FirstCustomer => row.pending = stripe.sched
      BY <1>2, <1>5, <2>2, <3>1 DEF ConvergeInv, PendingArrives
    <3> QED
      BY <1>1, <1>6, <2>1, <3>2
  <2>3. CASE queue[i].kind = "pending" /\ FirstCustomer
    <3>1. queue[i].sub.sched = stripe.sched /\ stripe.sched # NoPlan
      BY <1>4, <2>3 DEF PendKinds
    <3>2. row # NoRow
      BY <2>3, <3>1 DEF ConvergeInv, NoScheduleBeforeRow, FirstCustomer
    <3> QED
      BY <1>1, <1>7, <2>1, <2>3, <3>1, <3>2 DEF Ignored
  <2>4. CASE queue[i].kind = "cleared"
    <3>1. row.pending = NoPlan
      BY <1>7, <2>4 DEF Ignored
    <3> QED
      BY <1>1, <1>4, <2>1, <2>4, <3>1 DEF PendKinds
  <2> QED
    BY <1>6, <2>1, <2>2, <2>3, <2>4 DEF PendKinds
<1>8. CASE ~Ignored(queue[i]) /\ queue[i].kind \in PendKinds
  <2>1. InHand(PendKinds)'
    BY <1>1, <1>8 DEF InHand
  <2>2. WorkersHavePending'
    BY <1>1, <1>2, <1>4, <1>8 DEF WorkersHavePending, HotStages, PendKinds
  <2> QED
    BY <2>1, <2>2
<1>9. CASE ~Ignored(queue[i]) /\ queue[i].kind \notin PendKinds
  <2>1. job'[w].stage \notin PendKinds
    BY <1>1, <1>9
  <2>2. WorkersHavePending'
    BY <1>2, <1>9, <2>1 DEF WorkersHavePending, HotStages, PendKinds
  <2>3. InHand(PendKinds) => InHand(PendKinds)'
    BY <1>0, TakeKeepsCheckout DEF PendKinds
  <2>4. RequestsHavePending => RequestsHavePending'
    BY <1>1, ActorFacts DEF RequestsHavePending
  <2> QED
    BY <1>1, <1>2, <1>5, <1>6, <1>9, <2>2, <2>3, <2>4 DEF ConvergeInv, PendingArrives
<1> QED
  BY <1>7, <1>8, <1>9

LEMMA TakeConverges ==
    ASSUME ConvergeInv, MirrorInv', NEW w \in Workers, NEW i \in DOMAIN queue, TakeEvent(w, i)
    PROVE  ConvergeInv'
<1>0. MirrorInv /\ ReadsHold /\ Workers \subseteq Actors /\ Requests \subseteq Actors
  BY ActorFacts DEF ConvergeInv
<1>1. /\ Takes(i) /\ stripe' = stripe /\ team' = team /\ cancelling' = cancelling
      /\ row' = row /\ customer' = customer /\ customers' = customers
      /\ deletions' = deletions /\ stale' = stale \ {w}
      /\ job[w].stage = "idle" /\ w \in Actors /\ w \notin Requests
      /\ \A b \in Actors : b # w => job'[b] = job[b]
      /\ Ignored(queue[i]) => job' = job
      /\ ~Ignored(queue[i]) =>
            /\ job'[w].stage = queue[i].kind /\ job'[w].sub = queue[i].sub
            /\ job'[w].seen = row /\ job'[w].owner = customer /\ customer # 0
      /\ queue[i].kind \in MainKinds \cup PendKinds
  BY <1>0, TakeFrame, ActorFacts
<1>2. \A k \in DOMAIN queue' : \E m \in DOMAIN queue : queue'[k] = queue[m]
  BY <1>0, <1>1, LeftWasThere
<1>3. \A r \in Requests : job'[r] = job[r]
  BY <1>0, <1>1
<1>4. ReadsHold'
  <2>1. ASSUME NEW a \in Actors, job'[a].stage \notin Unread, a \notin stale'
        PROVE  Knows(a)'
    <3>1. CASE a = w
      BY <1>1, <2>1, <3>1 DEF Knows, Unread
    <3>2. CASE a # w
      BY <1>0, <1>1, <2>1, <3>2 DEF Knows, ReadsHold
    <3> QED
      BY <3>1, <3>2
  <2> QED
    BY <1>0, <1>1, <1>3, <2>1 DEF ReadsHold
<1>5. NobodySaysEnded'
  <2> SUFFICES ASSUME stripe.live PROVE NobodySaysEnded'
    BY <1>1 DEF NobodySaysEnded
  <2>1. /\ \A m \in DOMAIN queue : queue[m].sub.live /\ queue[m].kind # "deleted"
        /\ \A a \in Actors : /\ job[a].sub.live /\ Running(job[a].seen)
                             /\ job[a].stage \notin {"deleted", "erase_rows"}
        /\ Running(row) /\ deletions = {}
    BY DEF NobodySaysEnded, ConvergeInv
  <2>2. /\ job'[w].sub.live /\ Running(job'[w].seen)
        /\ job'[w].stage \notin {"deleted", "erase_rows"}
    BY <1>1, <2>1 DEF MainKinds, PendKinds
  <2>3. \A a \in Actors : /\ job'[a].sub.live /\ Running(job'[a].seen)
                          /\ job'[a].stage \notin {"deleted", "erase_rows"}
    BY <1>1, <2>1, <2>2
  <2> QED
    BY <1>1, <1>2, <2>1, <2>3 DEF NobodySaysEnded
<1>6. NoScheduleBeforeRow'
  BY <1>1, <1>2, <1>3 DEF NoScheduleBeforeRow, ConvergeInv
<1>7. LastEventsTell'
  BY <1>0, <1>1, TakingTells DEF ConvergeInv
<1>8. MainArrives' /\ PendingArrives'
  BY TakeMain, TakePending
<1>9. DeletionReachesStripe'
  <2> SUFFICES ASSUME Calm', customers # 0, customer = 0
               PROVE  \/ ~stripe.live \/ cancelling \in {"queued", "failed"}
                      \/ CheckoutComing' \/ InHand({"retrieved"})'
    BY <1>1 DEF DeletionReachesStripe
  <2>1. Calm
    BY <1>0, TakeCalm
  <2>2. \/ ~stripe.live \/ cancelling \in {"queued", "failed"}
        \/ CheckoutComing \/ InHand({"retrieved"})
    BY <2>1 DEF ConvergeInv, DeletionReachesStripe
  <2>3. InHand({"retrieved"}) => InHand({"retrieved"})'
    BY <1>0, TakeKeepsCheckout
  <2> QED
    BY <1>0, <2>2, <2>3, TakeKeepsCheckout
<1> QED
  BY <1>4, <1>5, <1>6, <1>7, <1>8, <1>9 DEF ConvergeInv

----------------------------------------------------------------------------
(* The steps of the team checkout.                                         *)

CheckoutMoves(w) ==
    /\ UNCHANGED <<stripe, team, row, deletions, cancelling>>
    /\ \/ customer' = customer /\ customers' = customers
       \/ customer = 0 /\ customers' = customers + 1 /\ customer' = customers'
    /\ \A b \in Actors : b # w => job'[b] = job[b]
    /\ job[w].stage \in Unread /\ job'[w].stage \in Unread \cup {"sync"}
    /\ job'[w].seen \in {row, job[w].seen, NoRow}
    /\ job'[w].sub \in {stripe, job[w].sub, Start0}
    /\ job'[w].stage = "sync" => Knows(w)'
    /\ stale' \in {stale, stale \ {w}}
    /\ \A k \in DOMAIN queue' :
          \/ queue'[k].kind = "checkout" /\ queue'[k].sub.live
          \/ \E m \in DOMAIN queue : queue'[k] = queue[m]
    /\ \A m \in DOMAIN queue : queue[m].kind # "checkout" =>
          \E k \in DOMAIN queue' : queue'[k] = queue[m]
    /\ overlapped => overlapped'
    /\ reordered => reordered'
    /\ dropped => dropped'
    /\ ~dropped' =>
          /\ job[w].stage = "retrieved" =>
                /\ job'[w].stage \in MainStages /\ job'[w].sub = job[w].sub
                /\ stale' = stale
          /\ job[w].stage # "retrieved" /\ job'[w].stage \in MainStages =>
                job'[w].sub = stripe
          /\ CheckoutComing' \/ job'[w].stage \in {"retrieved", "sync"}

LEMMA CheckoutCalm ==
    ASSUME NEW w \in Workers, CheckoutMoves(w), Calm'
    PROVE  /\ Calm /\ ~dropped'
           /\ \A S \in {MainStages, PendKinds} : InHand(S) => InHand(S)'
           /\ \A K \in {MainKinds, PendKinds} : Waits(K)' = Waits(K)
           /\ \A r \in Requests : job'[r] = job[r] /\ (r \in stale' <=> r \in stale)
<1>0. w \in Actors /\ w \notin Requests /\ Workers \subseteq Actors /\ Requests \subseteq Actors
  BY ActorFacts
<1>1. ~dropped' /\ ~dropped /\ ~overlapped /\ ~reordered /\ ~Doomed'
  BY DEF Calm, CheckoutMoves
<1>2. /\ job[w].stage \in Unread
      /\ job[w].stage = "retrieved" => job'[w].stage \in MainStages /\ stale' = stale
      /\ \A b \in Actors : b # w => job'[b] = job[b]
      /\ stale' \in {stale, stale \ {w}}
  BY <1>1 DEF CheckoutMoves
<1>3. HotWorkers \subseteq HotWorkers'
  BY <1>0, <1>2 DEF HotWorkers, HotStages, MainStages, PendKinds, Unread
<1>4. \A v \in HotWorkers : v \in stale => v \in stale'
  BY <1>0, <1>2 DEF HotWorkers, HotStages, MainStages, PendKinds, Unread
<1>5. ~Doomed
  BY <1>1, <1>3, <1>4 DEF Doomed
<1>6. InHand(MainStages) => InHand(MainStages)'
  BY <1>0, <1>2 DEF InHand, MainStages, Unread
<1>7. InHand(PendKinds) => InHand(PendKinds)'
  BY <1>0, <1>2 DEF InHand, PendKinds, Unread
<1>8. ASSUME NEW K \in {MainKinds, PendKinds} PROVE Waits(K)' = Waits(K)
  <2>1. "checkout" \notin K
    BY DEF MainKinds, PendKinds
  <2>2. \A k \in DOMAIN queue' : queue'[k].kind \in K =>
           \E m \in DOMAIN queue : queue'[k] = queue[m]
    BY <2>1 DEF CheckoutMoves
  <2>3. \A m \in DOMAIN queue : queue[m].kind \in K =>
           \E k \in DOMAIN queue' : queue'[k] = queue[m]
    BY <2>1 DEF CheckoutMoves
  <2> QED
    BY <2>2, <2>3 DEF Waits
<1>9. \A r \in Requests : job'[r] = job[r] /\ (r \in stale' <=> r \in stale)
  BY <1>0, <1>2
<1> QED
  BY <1>1, <1>5, <1>6, <1>7, <1>8, <1>9 DEF Calm

LEMMA CheckoutStepConverges ==
    ASSUME ConvergeInv, MirrorInv', NEW w \in Workers, CheckoutMoves(w), LastEventsTell'
    PROVE  ConvergeInv'
<1>0. /\ MirrorInv /\ ReadsHold /\ w \in Actors /\ w \notin Requests
      /\ Workers \subseteq Actors /\ Requests \subseteq Actors
  BY ActorFacts DEF ConvergeInv
<1>1. /\ stripe' = stripe /\ team' = team /\ row' = row /\ deletions' = deletions
      /\ cancelling' = cancelling
      /\ \A b \in Actors : b # w => job'[b] = job[b]
      /\ job[w].stage \in Unread /\ job'[w].stage \in Unread \cup {"sync"}
      /\ stale' \in {stale, stale \ {w}}
      /\ \A r \in Requests : job'[r] = job[r]
  BY <1>0 DEF CheckoutMoves
<1>2. customer # 0 => customer' = customer /\ customers' = customers
  BY DEF CheckoutMoves
<1>3. ReadsHold'
  <2>1. row' # NoRow => customer' # 0
    BY <1>0, <1>1, <1>2 DEF ReadsHold
  <2>2. ASSUME NEW a \in Actors, job'[a].stage \notin Unread, a \notin stale'
        PROVE  Knows(a)'
    <3>1. CASE a = w
      BY <1>1, <2>2, <3>1 DEF CheckoutMoves, Unread
    <3>2. CASE a # w
      <4>1. Knows(a)
        BY <1>0, <1>1, <2>2, <3>2 DEF ReadsHold
      <4> QED
        BY <1>1, <1>2, <3>2, <4>1 DEF Knows
    <3> QED
      BY <3>1, <3>2
  <2> QED
    BY <1>0, <1>1, <2>1, <2>2 DEF ReadsHold
<1>4. NobodySaysEnded'
  <2> SUFFICES ASSUME stripe.live PROVE NobodySaysEnded'
    BY <1>1 DEF NobodySaysEnded
  <2>1. /\ \A m \in DOMAIN queue : queue[m].sub.live /\ queue[m].kind # "deleted"
        /\ \A a \in Actors : /\ job[a].sub.live /\ Running(job[a].seen)
                             /\ job[a].stage \notin {"deleted", "erase_rows"}
        /\ Running(row) /\ deletions = {}
    BY DEF NobodySaysEnded, ConvergeInv
  <2>2. Start0.live /\ Running(NoRow)
    BY DEF Start0, Running
  <2>3. /\ job'[w].sub.live /\ Running(job'[w].seen)
        /\ job'[w].stage \notin {"deleted", "erase_rows"}
    <3>1. job'[w].sub \in {stripe, job[w].sub, Start0} /\ job'[w].seen \in {row, job[w].seen, NoRow}
      BY DEF CheckoutMoves
    <3> QED
      BY <1>0, <1>1, <2>1, <2>2, <3>1 DEF Unread
  <2>4. \A a \in Actors : /\ job'[a].sub.live /\ Running(job'[a].seen)
                          /\ job'[a].stage \notin {"deleted", "erase_rows"}
    BY <1>1, <2>1, <2>3
  <2>5. \A k \in DOMAIN queue' : queue'[k].sub.live /\ queue'[k].kind # "deleted"
    BY <2>1 DEF CheckoutMoves
  <2> QED
    BY <1>1, <2>1, <2>4, <2>5 DEF NobodySaysEnded
<1>5. FirstCustomer' => FirstCustomer
  <2>1. customers \in Nat /\ customers' \in Nat
    BY <1>0, TypeFacts DEF MirrorInv, MirrorTypeOK
  <2> QED
    BY <2>1 DEF FirstCustomer, CheckoutMoves
<1>6. NoScheduleBeforeRow'
  <2> SUFFICES ASSUME FirstCustomer', row = NoRow
               PROVE  /\ stripe.sched = NoPlan
                      /\ \A k \in DOMAIN queue' : queue'[k].kind # "pending"
                      /\ \A r \in Requests : job[r].stage \in Harmless
    BY <1>1 DEF NoScheduleBeforeRow, FirstCustomer
  <2>1. /\ stripe.sched = NoPlan
        /\ \A m \in DOMAIN queue : queue[m].kind # "pending"
        /\ \A r \in Requests : job[r].stage \in Harmless
    BY <1>5 DEF ConvergeInv, NoScheduleBeforeRow, FirstCustomer
  <2> QED
    BY <2>1 DEF CheckoutMoves
<1>7. ASSUME Calm'
      PROVE  /\ Calm /\ ~dropped'
             /\ InHand(MainStages) => InHand(MainStages)'
             /\ InHand(PendKinds) => InHand(PendKinds)'
             /\ Waits(MainKinds)' = Waits(MainKinds) /\ Waits(PendKinds)' = Waits(PendKinds)
             /\ \A r \in Requests : r \in stale' <=> r \in stale
  BY <1>7, CheckoutCalm
<1>8. ASSUME Calm' PROVE CheckoutComing' \/ InHand(MainStages)'
  <2>1. CheckoutComing' \/ job'[w].stage \in {"retrieved", "sync"}
    BY <1>7, <1>8 DEF CheckoutMoves
  <2> QED
    BY <2>1 DEF InHand, MainStages
<1>9. MainArrives'
  <2> SUFFICES ASSUME Calm', ~Waits(MainKinds)'
               PROVE  /\ WorkersHaveMain'
                      /\ InHand(MainStages)' \/ RequestsHaveMain'
                      /\ InHand(MainStages)' \/ RowAgrees' \/ (row' = NoRow /\ CheckoutComing')
    BY DEF MainArrives
  <2>1. Calm /\ ~Waits(MainKinds) /\ ~dropped'
    BY <1>7
  <2>2. WorkersHaveMain
    BY <2>1 DEF ConvergeInv, MainArrives
  <2>3. job'[w].stage \in MainStages => job'[w].sub = stripe
    <3>1. job[w].stage = "retrieved" => job[w].sub = stripe
      BY <2>2 DEF WorkersHaveMain, MainStages
    <3> QED
      BY <2>1, <3>1 DEF CheckoutMoves
  <2>4. WorkersHaveMain'
    BY <1>0, <1>1, <2>2, <2>3 DEF WorkersHaveMain
  <2>5. InHand(MainStages) \/ RequestsHaveMain
    BY <2>1 DEF ConvergeInv, MainArrives
  <2>6. RequestsHaveMain => RequestsHaveMain'
    BY <1>1, <1>7 DEF RequestsHaveMain
  <2>7. CASE row = NoRow
    BY <1>1, <1>7, <1>8, <2>4, <2>5, <2>6, <2>7
  <2>8. CASE row # NoRow
    <3>1. customer # 0
      BY <1>0, <2>8 DEF ReadsHold
    <3>2. InHand(MainStages) \/ RowAgrees
      BY <2>1, <2>8, <3>1 DEF ConvergeInv, MainArrives
    <3>3. RowAgrees => RowAgrees'
      BY <1>1 DEF RowAgrees
    <3> QED
      BY <1>7, <2>4, <2>5, <2>6, <3>2, <3>3
  <2> QED
    BY <2>7, <2>8
<1>10. PendingArrives'
  <2> SUFFICES ASSUME Calm' PROVE PendingArrives'
    BY DEF PendingArrives
  <2>1. WorkersHavePending => WorkersHavePending'
    BY <1>0, <1>1 DEF WorkersHavePending, Unread
  <2>2. RequestsHavePending => RequestsHavePending'
    BY <1>1, <1>7 DEF RequestsHavePending
  <2>3. row'.pending = row.pending /\ stripe'.sched = stripe.sched
    BY <1>1
  <2> QED
    BY <1>5, <1>7, <2>1, <2>2, <2>3 DEF ConvergeInv, PendingArrives
<1>11. DeletionReachesStripe'
  <2> SUFFICES ASSUME Calm', customer' = 0
               PROVE  CheckoutComing' \/ InHand({"retrieved"})'
    BY DEF DeletionReachesStripe
  <2>1. job'[w].stage # "sync"
    BY DEF CheckoutMoves, Knows
  <2>2. CheckoutComing' \/ job'[w].stage = "retrieved"
    BY <1>7, <2>1 DEF CheckoutMoves
  <2> QED
    BY <2>2 DEF InHand
<1> QED
  BY <1>3, <1>4, <1>6, <1>9, <1>10, <1>11 DEF ConvergeInv

\* Taking the checkout, for somebody or for nobody.
LEMMA TakeCheckoutMoves ==
    ASSUME ConvergeInv, NEW w \in Workers, NEW i \in DOMAIN queue,
           TakeCheckout(w, i) \/ CheckoutForNobody(w, i)
    PROVE  CheckoutMoves(w) /\ LastEventsTell'
<1>0. /\ MirrorInv /\ w \in Actors /\ job \in [Actors -> Jobs]
      /\ customer \in Nat /\ customers \in Nat /\ customer \in {0, customers}
  BY ActorFacts, TypeFacts DEF ConvergeInv
<1>1. /\ Takes(i) /\ stripe' = stripe /\ team' = team /\ row' = row
      /\ deletions' = deletions /\ cancelling' = cancelling
      /\ job[w].stage = "idle" /\ queue[i].kind = "checkout"
      /\ stale' \in {stale, stale \ {w}}
      /\ overlapped' = overlapped /\ (dropped' = dropped \/ dropped' = TRUE)
      /\ reordered' = (reordered \/ i # 1)
  <2>1. CASE TakeCheckout(w, i)
    BY <2>1 DEF TakeCheckout, Takes
  <2>2. CASE CheckoutForNobody(w, i)
    BY <2>2 DEF CheckoutForNobody, Takes, db
  <2> QED
    BY <2>1, <2>2
<1>2. LastEventsTell'
  BY <1>0, <1>1, TakingTells DEF ConvergeInv
<1>3. /\ \A k \in DOMAIN queue' : \E m \in DOMAIN queue : queue'[k] = queue[m]
      /\ \A m \in DOMAIN queue : queue[m].kind # "checkout" =>
            \E k \in DOMAIN queue' : queue'[k] = queue[m]
  BY <1>0, <1>1, LeftWasThere
<1>4. CASE TakeCheckout(w, i)
  <2>1. PICK j : j = [Idle EXCEPT !.stage = "checkout"]
    OBVIOUS
  <2>2. j.stage = "checkout" /\ j.seen = NoRow /\ j.sub = Start0
    BY <2>1 DEF Idle
  <2>3. job' = [job EXCEPT ![w] = j]
    BY <1>4, <2>1 DEF TakeCheckout, Goto
  <2>4. job'[w] = j /\ \A b \in Actors : b # w => job'[b] = job[b]
    BY <1>0, <2>3
  <2>5. CheckoutComing'
    BY <2>2, <2>4 DEF CheckoutComing, AtCheckout
  <2>6. \/ customer' = customer /\ customers' = customers
        \/ customer = 0 /\ customers' = customers + 1 /\ customer' = customers'
    BY <1>0, <1>4 DEF TakeCheckout
  <2>7. (overlapped => overlapped') /\ (reordered => reordered') /\ (dropped => dropped')
    BY <1>4 DEF TakeCheckout
  <2>8. UNCHANGED <<stripe, team, row, deletions, cancelling>>
    BY <1>4 DEF TakeCheckout
  <2> QED
    BY <1>1, <1>2, <1>3, <2>2, <2>4, <2>5, <2>6, <2>7, <2>8
       DEF CheckoutMoves, Unread, MainStages
<1>5. CASE CheckoutForNobody(w, i)
  <2>1. job' = job /\ customer' = customer /\ customers' = customers /\ dropped' = TRUE
    BY <1>5 DEF CheckoutForNobody, db
  <2> QED
    BY <1>1, <1>2, <1>3, <2>1 DEF CheckoutMoves, Unread
<1> QED
  BY <1>4, <1>5

\* Fetching the subscription and reading the row.
LEMMA FetchMoves ==
    ASSUME ConvergeInv, NEW w \in Workers, RetrieveSub(w) \/ ReadForCheckout(w)
    PROVE  CheckoutMoves(w) /\ LastEventsTell'
<1>0. MirrorInv /\ w \in Actors /\ job \in [Actors -> Jobs] /\ job[w] \in Jobs
  BY ActorFacts, TypeFacts DEF ConvergeInv
<1>1. /\ stripe' = stripe /\ queue' = queue /\ team' = team /\ row' = row
      /\ deletions' = deletions /\ cancelling' = cancelling /\ customer' = customer
      /\ customers' = customers /\ stale' = stale /\ reordered' = reordered
      /\ overlapped' = overlapped /\ (dropped => dropped')
  BY DEF RetrieveSub, ReadForCheckout, db, history
<1>2. LastEventsTell'
  BY <1>1 DEF LastEventsTell, IsLast, ConvergeInv
<1>3. CASE RetrieveSub(w)
  <2>1. PICK j : j = [job[w] EXCEPT !.stage = "retrieved", !.sub = stripe]
    OBVIOUS
  <2>2. j.stage = "retrieved" /\ j.seen = job[w].seen /\ j.sub = stripe
    BY <1>0, <2>1 DEF Jobs
  <2>3. job' = [job EXCEPT ![w] = j] /\ job[w].stage = "checkout"
    BY <1>3, <2>1 DEF RetrieveSub, Goto
  <2>4. job'[w] = j /\ \A b \in Actors : b # w => job'[b] = job[b]
    BY <1>0, <2>3
  <2> QED
    BY <1>1, <1>2, <2>2, <2>3, <2>4 DEF CheckoutMoves, Unread
<1>4. CASE ReadForCheckout(w) /\ customer = 0
  <2>1. job' = [job EXCEPT ![w] = Idle] /\ dropped' = TRUE /\ job[w].stage = "retrieved"
    BY <1>4 DEF ReadForCheckout, Finish, Goto
  <2>2. job'[w] = Idle /\ \A b \in Actors : b # w => job'[b] = job[b]
    BY <1>0, <2>1
  <2>3. Idle.stage = "idle" /\ Idle.seen = NoRow /\ Idle.sub = Start0
    BY DEF Idle
  <2> QED
    BY <1>1, <1>2, <2>1, <2>2, <2>3 DEF CheckoutMoves, Unread
<1>5. CASE ReadForCheckout(w) /\ customer # 0
  <2>1. PICK j : j = [job[w] EXCEPT !.stage = "sync", !.seen = row, !.owner = customer]
    OBVIOUS
  <2>2. j.stage = "sync" /\ j.seen = row /\ j.owner = customer /\ j.sub = job[w].sub
    BY <1>0, <2>1 DEF Jobs
  <2>3. job' = [job EXCEPT ![w] = j] /\ job[w].stage = "retrieved"
    BY <1>5, <2>1 DEF ReadForCheckout, Goto
  <2>4. job'[w] = j /\ \A b \in Actors : b # w => job'[b] = job[b]
    BY <1>0, <2>3
  <2>5. Knows(w)'
    BY <1>1, <1>5, <2>2, <2>4 DEF Knows
  <2> QED
    BY <1>1, <1>2, <2>2, <2>3, <2>4, <2>5 DEF CheckoutMoves, Unread, MainStages
<1> QED
  BY <1>3, <1>4, <1>5

\* Putting the checkout back.
LEMMA RetryMoves ==
    ASSUME ConvergeInv, NEW w \in Workers, RetryCheckout(w)
    PROVE  CheckoutMoves(w) /\ LastEventsTell'
<1>0. /\ MirrorInv /\ w \in Actors /\ job \in [Actors -> Jobs] /\ queue \in Seq(Events)
      /\ Len(queue) \in Nat /\ DOMAIN queue = 1..Len(queue)
  BY ActorFacts, TypeFacts DEF ConvergeInv
<1>1. /\ stripe' = stripe /\ team' = team /\ row' = row
      /\ deletions' = deletions /\ cancelling' = cancelling /\ customer' = customer
      /\ customers' = customers /\ stale' = stale /\ reordered' = reordered
      /\ overlapped' = overlapped /\ dropped' = dropped /\ job[w].stage = "checkout"
  BY DEF RetryCheckout, db, history
<1>2. PICK e : e = Event("checkout", Start0)
  OBVIOUS
<1>3. e \in Events /\ e.kind = "checkout" /\ e.sub.live
  <2>1. e.kind = "checkout" /\ e.sub = Start0 /\ Start0.live
    BY <1>2 DEF Event, Start0
  <2> QED
    BY <1>2, <2>1, Start0Type DEF Event, Events, Kinds
<1>4. queue' = Append(queue, e)
  BY <1>2 DEF RetryCheckout
<1>5. /\ DOMAIN queue' = 1..(Len(queue) + 1) /\ queue'[Len(queue) + 1] = e
      /\ \A k \in 1..Len(queue) : queue'[k] = queue[k]
  BY <1>0, <1>3, <1>4
<1>6. /\ \A k \in DOMAIN queue' : k \in DOMAIN queue \/ queue'[k] = e
      /\ \A m \in DOMAIN queue : m \in DOMAIN queue' /\ queue'[m] = queue[m]
  BY <1>0, <1>5
<1>7. job'[w] = Idle /\ \A b \in Actors : b # w => job'[b] = job[b]
  BY <1>0 DEF RetryCheckout, Finish, Goto
<1>8. Idle.stage = "idle" /\ Idle.seen = NoRow /\ Idle.sub = Start0
  BY DEF Idle
<1>9. CheckoutComing'
  <2>1. Len(queue) + 1 \in DOMAIN queue'
    BY <1>0, <1>5
  <2> QED
    BY <1>3, <1>5, <2>1 DEF CheckoutComing, CheckoutsWaiting
<1>10. LastEventsTell'
  <2> SUFFICES ASSUME ~reordered, NEW k \in DOMAIN queue'
               PROVE  /\ IsLast(MainKinds, k)' => queue'[k].sub = stripe
                      /\ IsLast(PendKinds, k)' =>
                            /\ queue'[k].sub.sched = stripe.sched
                            /\ queue'[k].kind = "pending" <=> stripe.sched # NoPlan
    BY <1>1 DEF LastEventsTell
  <2>1. ASSUME NEW K \in {MainKinds, PendKinds}, IsLast(K, k)'
        PROVE  k \in DOMAIN queue /\ queue'[k] = queue[k] /\ IsLast(K, k)
    <3>1. k \in DOMAIN queue
      BY <1>3, <1>6, <2>1 DEF IsLast, MainKinds, PendKinds
    <3> QED
      BY <1>6, <2>1, <3>1 DEF IsLast
  <2> QED
    BY <2>1 DEF ConvergeInv, LastEventsTell
<1>11. CheckoutMoves(w)
  <2>1. \A k \in DOMAIN queue' :
           \/ queue'[k].kind = "checkout" /\ queue'[k].sub.live
           \/ \E m \in DOMAIN queue : queue'[k] = queue[m]
    BY <1>3, <1>6
  <2>2. \A m \in DOMAIN queue : \E k \in DOMAIN queue' : queue'[k] = queue[m]
    BY <1>6
  <2> QED
    BY <1>1, <1>7, <1>8, <1>9, <2>1, <2>2 DEF CheckoutMoves, Unread, MainStages
<1> QED
  BY <1>10, <1>11

\* Giving it up.
LEMMA GiveUpMoves ==
    ASSUME ConvergeInv, NEW w \in Workers, GiveUpCheckout(w)
    PROVE  CheckoutMoves(w) /\ LastEventsTell'
<1>0. MirrorInv /\ w \in Actors /\ job \in [Actors -> Jobs]
  BY ActorFacts, TypeFacts DEF ConvergeInv
<1>1. /\ stripe' = stripe /\ queue' = queue /\ team' = team /\ row' = row
      /\ deletions' = deletions /\ cancelling' = cancelling /\ customer' = customer
      /\ customers' = customers /\ stale' = stale /\ reordered' = reordered
      /\ overlapped' = overlapped /\ dropped' = TRUE /\ job[w].stage = "checkout"
  BY DEF GiveUpCheckout, db
<1>2. LastEventsTell'
  BY <1>1 DEF LastEventsTell, IsLast, ConvergeInv
<1>3. job'[w] = Idle /\ \A b \in Actors : b # w => job'[b] = job[b]
  BY <1>0 DEF GiveUpCheckout, Finish, Goto
<1>4. Idle.stage = "idle" /\ Idle.seen = NoRow /\ Idle.sub = Start0
  BY DEF Idle
<1> QED
  BY <1>1, <1>2, <1>3, <1>4 DEF CheckoutMoves, Unread

----------------------------------------------------------------------------
LEMMA ConvergeInitially == Init => ConvergeInv
<1> SUFFICES ASSUME Init PROVE ConvergeInv
  OBVIOUS
<1>0. MirrorInv
  BY MirrorInitially
<1>1. PICK c, s : c = Event("checkout", Start0) /\ s = Event("sync", Start0)
  OBVIOUS
<1>2. /\ c.kind = "checkout" /\ s.kind = "sync" /\ c.sub = Start0 /\ s.sub = Start0
      /\ Start0.live /\ Start0.sched = NoPlan
  BY <1>1 DEF Event, Start0
<1>3. queue = <<c, s>> \/ queue = <<s, c>> \/ queue = <<s>>
  BY <1>1 DEF Init
<1>4. /\ \A i \in DOMAIN queue : queue[i] \in {c, s}
      /\ \E i \in DOMAIN queue : queue[i] = s
  <2>1. CASE queue = <<c, s>>
    <3>1. DOMAIN queue = {1, 2} /\ queue[1] = c /\ queue[2] = s
      BY <2>1
    <3> QED
      BY <3>1
  <2>2. CASE queue = <<s, c>>
    <3>1. DOMAIN queue = {1, 2} /\ queue[1] = s /\ queue[2] = c
      BY <2>2
    <3> QED
      BY <3>1
  <2>3. CASE queue = <<s>>
    <3>1. DOMAIN queue = {1} /\ queue[1] = s
      BY <2>3
    <3> QED
      BY <3>1
  <2> QED
    BY <1>3, <2>1, <2>2, <2>3
<1>5. /\ \A i \in DOMAIN queue : /\ queue[i].sub = Start0
                                 /\ queue[i].kind \in {"checkout", "sync"}
      /\ Waits(MainKinds)
  BY <1>2, <1>4 DEF Waits, MainKinds
<1>6. /\ stripe = Start0 /\ row = NoRow /\ customer = customers /\ deletions = {}
      /\ job = [a \in Actors |-> Idle]
  BY DEF Init
<1>7. Idle.stage = "idle" /\ Idle.seen = NoRow /\ Idle.sub = Start0
  BY DEF Idle
<1>8. /\ \A a \in Actors : job[a] = Idle
      /\ Workers \subseteq Actors /\ Requests \subseteq Actors
  BY <1>6, ActorFacts
<1>9. ReadsHold
  BY <1>6, <1>7, <1>8 DEF ReadsHold, Unread
<1>10. NobodySaysEnded
  BY <1>2, <1>5, <1>6, <1>7, <1>8 DEF NobodySaysEnded, Running
<1>11. NoScheduleBeforeRow
  BY <1>2, <1>5, <1>6, <1>7, <1>8 DEF NoScheduleBeforeRow, Harmless
<1>12. LastEventsTell
  BY <1>5, <1>6 DEF LastEventsTell, IsLast, PendKinds
<1>13. MainArrives
  BY <1>5 DEF MainArrives
<1>14. PendingArrives
  <2>1. WorkersHavePending /\ RequestsHavePending
    BY <1>7, <1>8 DEF WorkersHavePending, RequestsHavePending
  <2>2. row.pending = stripe.sched
    BY <1>2, <1>6, RowFacts
  <2> QED
    BY <2>1, <2>2 DEF PendingArrives
<1>15. DeletionReachesStripe
  BY <1>6 DEF DeletionReachesStripe
<1> QED
  BY <1>0, <1>9, <1>10, <1>11, <1>12, <1>13, <1>14, <1>15 DEF ConvergeInv

LEMMA ConvergeStep == ConvergeInv /\ [Next]_vars => ConvergeInv'
<1> SUFFICES ASSUME ConvergeInv, [Next]_vars PROVE ConvergeInv'
  OBVIOUS
<1>0. MirrorInv /\ MirrorInv'
  BY MirrorStep DEF ConvergeInv
<1>1. CASE \/ UNCHANGED vars \/ Portal \/ Lapse \/ PeriodEnd
           \/ CancelStripeSub \/ CancelStripeSubFails
  BY <1>0, <1>1, OwnStepsAside, AsideConverges
<1>2. ASSUME NEW w \in Workers, Handle(w) PROVE ConvergeInv'
  <2>1. ASSUME NEW i \in DOMAIN queue, TakeEvent(w, i) PROVE ConvergeInv'
    BY <1>0, <2>1, TakeConverges
  <2>2. ASSUME NEW i \in DOMAIN queue, TakeCheckout(w, i) \/ CheckoutForNobody(w, i)
        PROVE  ConvergeInv'
    BY <1>0, <2>2, TakeCheckoutMoves, CheckoutStepConverges
  <2>3. CASE RetrieveSub(w) \/ ReadForCheckout(w)
    BY <1>0, <2>3, FetchMoves, CheckoutStepConverges
  <2>4. CASE RetryCheckout(w)
    BY <1>0, <2>4, RetryMoves, CheckoutStepConverges
  <2>5. CASE GiveUpCheckout(w)
    BY <1>0, <2>5, GiveUpMoves, CheckoutStepConverges
  <2> QED
    BY <1>2, <2>1, <2>2, <2>3, <2>4, <2>5 DEF Handle
<1>3. ASSUME NEW r \in Requests, Serve(r) PROVE ConvergeInv'
  <2>1. \/ \E ask \in Asks : StartRequest(r, ask[1], ask[2], ask[3])
        \/ RequestOnly(r)
        \/ DeleteOrg(r) \/ EraseRows(r) \/ RemoveMember(r)
    BY <1>3 DEF Serve, RequestOnly
  <2>2. CASE RequestOnly(r)
    BY <1>0, <2>2, RequestStepsAside, AsideConverges
  <2>3. CASE DeleteOrg(r) \/ EraseRows(r) \/ RemoveMember(r)
    BY <1>0, <2>3, DeletionConverges
  <2>4. ASSUME NEW ask \in Asks, StartRequest(r, ask[1], ask[2], ask[3]) PROVE ConvergeInv'
    BY <1>0, <2>4, StartConverges
  <2> QED
    BY <2>1, <2>2, <2>3, <2>4
<1>4. ASSUME NEW a \in Actors, Save(a) PROVE ConvergeInv'
  BY <1>0, <1>4, SaveConverges
<1>5. CASE \E c \in deletions : DeleteCanceledOrg(c)
  BY <1>0, <1>5, DeletionConverges
<1> QED
  BY <1>1, <1>2, <1>3, <1>4, <1>5 DEF Next

LEMMA ConvergeInvariant == Spec => []ConvergeInv
BY ConvergeInitially, ConvergeStep, PTL DEF Spec

\* The mirror converges, for any number of workers, requests, plans, seats,
\* changes, failed calls and retries: when all is quiet, neither were events
\* reordered nor saves overlapped and the checkout was not given up, the row
\* shows the state of the subscription at Stripe, and the first customer's row
\* its pending change as well.
THEOREM MirrorConvergesCorrect == Spec => []MirrorConverges
<1>1. ConvergeInv => MirrorConverges
  BY ConvergeInvMeaning
<1> QED
  BY <1>1, ConvergeInvariant, PTL

\* A subscription never outlives the customer its owner has deleted, once all
\* is quiet and if nothing was reordered, overlapped or given up, unless the
\* cancelling task failed; an account that others delete is not claimed.
THEOREM DeletedOwnersStopPayingCorrect == Spec => []DeletedOwnersStopPaying
<1>1. ConvergeInv => DeletedOwnersStopPaying
  BY ConvergeInvMeaning
<1> QED
  BY <1>1, ConvergeInvariant, PTL
=============================================================================
