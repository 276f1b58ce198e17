------------------------- MODULE SubscriptionMirror --------------------------
(***************************************************************************)
(* The local copy of one Stripe subscription.  Stripe's own state changes  *)
(* through the customer portal, through the subscription endpoints of      *)
(* apps/billing/views.py and at the end of the billing period; each change *)
(* emits events that carry the state it produced.  The handlers of         *)
(* saasmint_core/services/webhooks.py read the Subscription row and save   *)
(* all of it back; so do the endpoints, for the fields they have changed   *)
(* at Stripe, and the team checkout, which also creates the customer the   *)
(* row hangs from; deleting the org or the account removes both.  No       *)
(* writer locks the row between its read and its save.  (The admin site    *)
(* can edit and delete the row by hand, Stripe or no Stripe; it stays out, *)
(* since any property of the row ends there.)                              *)
(*                                                                         *)
(* Stripe is external.  It emits no event for a call that changes nothing, *)
(* and it refuses to modify a subscription that a schedule owns            *)
(* (services/billing.py says so).  Events may be handled in any order,     *)
(* which is also what a transient failure and its retry amount to; the     *)
(* once-only delivery of each, and the death of a worker, are              *)
(* WebhookPipeline's business.  Only the checkout's retries are counted,   *)
(* since its handler leaves something behind when they run out.  A plan is *)
(* known by the amount of its price, and the price is one that the webhook *)
(* knows (Storefront shows what becomes of the others); the dates of a     *)
(* period stay out.                                                        *)
(***************************************************************************)
EXTENDS Naturals, Sequences, SequencesExt

CONSTANTS Workers,      \* Celery workers
          Requests,     \* requests to the subscription endpoints
          Ops,          \* kinds of request considered
          Plans,        \* plans, as the amounts of their prices
          Seats,        \* seat counts
          MaxChanges,   \* bound on changes started in a behaviour
          MaxRetries,   \* max_retries of process_stripe_webhook
          MaxFaults     \* bound on failed calls to Stripe by tasks

ASSUME MirrorAssumption ==
    /\ Plans \subseteq Nat \ {0} /\ \E p \in Plans : \A q \in Plans : q <= p
    /\ Seats \subseteq Nat \ {0} /\ \E n \in Seats : \A m \in Seats : n <= m
    /\ Workers \cap Requests = {}
    /\ MaxChanges \in Nat /\ MaxFaults \in Nat /\ MaxRetries \in Nat

VARIABLES stripe,      \* the subscription at Stripe
          queue,       \* events emitted and not yet taken by a worker
          team,        \* a team subscription, whose customer belongs to an org
          customer,    \* the StripeCustomer row: its number, 0 when there is none
          customers,   \* how many StripeCustomer rows there have been
          row,         \* the Subscription row
          job,         \* what each worker and request is doing
          deletions,   \* delete_org_on_subscription_cancel_task, by customer
          cancelling,  \* cancel_stripe_subs_task: none, queued, or failed for good
          changes, faults,
          retries,     \* how often the checkout's task has been retried
          stale,       \* history: whose last read of the row has been overwritten
          overlapped,  \* history: one of those has gone on to save, or an event was
                       \* ignored for what the row said before a save
          dropped,     \* history: a checkout was given up, or an account deleted
                       \* without a word to Stripe
          reordered    \* history: an event has overtaken another

db == <<customer, customers, row, deletions>>
history == <<stale, overlapped, dropped>>
bounds == <<changes, faults, retries>>
vars == <<stripe, queue, team, db, job, cancelling, bounds, history, reordered>>

NoPlan == 0
NoRow == [live |-> FALSE, plan |-> NoPlan, seats |-> 0, cancel |-> FALSE, pending |-> NoPlan]
Actors == Workers \cup Requests

\* cancel is "cancel_at is set"; sched is the plan a schedule will switch to.
Subs == [live : BOOLEAN, plan : Plans, seats : Seats, cancel : BOOLEAN,
         sched : Plans \cup {NoPlan}]
Rows == {NoRow} \cup [live : BOOLEAN, plan : Plans, seats : Seats, cancel : BOOLEAN,
                      pending : Plans \cup {NoPlan}]
Kinds == {"checkout", "sync", "deleted", "pending", "cleared"}
Stages == {"idle", "sync", "deleted", "pending", "cleared", "checkout", "retrieved",
           "cancel", "cancel_modify", "resume", "mirror", "seats", "seats_save",
           "release", "plan", "plan_apply", "plan_modify", "delete",
           "erase", "erase_rows", "remove"}

\* seen is the row as read, owner its customer, sub what Stripe said, and
\* plan and seats what the request asks for.
Jobs == [stage : Stages, seen : Rows, owner : Nat, sub : Subs,
         plan : Plans \cup {NoPlan}, seats : Seats \cup {0}]

Start0 == [live |-> TRUE, plan |-> CHOOSE p \in Plans : \A q \in Plans : q <= p,
           seats |-> CHOOSE n \in Seats : \A m \in Seats : n <= m,
           cancel |-> FALSE, sched |-> NoPlan]
Idle == [stage |-> "idle", seen |-> NoRow, owner |-> 0, sub |-> Start0,
         plan |-> NoPlan, seats |-> 0]
Event(kind, sub) == [kind |-> kind, sub |-> sub]

MirrorTypeOK ==
    /\ stripe \in Subs
    /\ queue \in Seq([kind : Kinds, sub : Subs])
    /\ team \in BOOLEAN
    /\ customers \in 0..(1 + MaxFaults) /\ customer \in {0, customers}
    /\ row \in Rows
    /\ job \in [Actors -> Jobs]
    /\ deletions \subseteq 1..customers
    /\ cancelling \in {"none", "queued", "failed"}
    /\ changes \in 0..MaxChanges /\ faults \in 0..MaxFaults /\ retries \in 0..MaxRetries
    /\ stale \subseteq Actors
    /\ overlapped \in BOOLEAN /\ dropped \in BOOLEAN /\ reordered \in BOOLEAN

\* A personal customer exists before the checkout; a team's is created by the
\* checkout event, which comes before or after the subscription's own.
Init ==
    /\ stripe = Start0
    /\ team \in BOOLEAN
    /\ customers = IF team THEN 0 ELSE 1
    /\ customer = customers
    /\ queue \in IF team THEN {<<Event("checkout", Start0), Event("sync", Start0)>>,
                               <<Event("sync", Start0), Event("checkout", Start0)>>}
                 ELSE {<<Event("sync", Start0)>>}
    /\ row = NoRow
    /\ job = [a \in Actors |-> Idle]
    /\ deletions = {} /\ cancelling = "none"
    /\ changes = 0 /\ faults = 0 /\ retries = 0
    /\ stale = {} /\ overlapped = FALSE /\ dropped = FALSE /\ reordered = FALSE

----------------------------------------------------------------------------
(* Stripe.                                                                 *)

Emit(sub, kinds) ==
    /\ stripe' = sub
    /\ queue' = queue \o [i \in DOMAIN kinds |-> Event(kinds[i], sub)]

\* Subscription.modify, refused while a schedule owns the subscription.
Modifiable == stripe.live /\ stripe.sched = NoPlan
Modify(sub) == Emit(sub, IF sub = stripe THEN <<>> ELSE <<"sync">>)

\* SubscriptionSchedule.modify, .release, and Subscription.cancel.
Schedule(sub) == Emit(sub, IF sub = stripe THEN <<>> ELSE <<"pending", "sync">>)
Unscheduled == [stripe EXCEPT !.sched = NoPlan]
ReleaseSchedule == Emit(Unscheduled, <<"cleared", "sync">>)
Terminate == Emit([stripe EXCEPT !.live = FALSE, !.sched = NoPlan],
                  IF stripe.sched = NoPlan THEN <<"deleted">> ELSE <<"cleared", "deleted">>)

Change == changes < MaxChanges /\ changes' = changes + 1

\* The customer changes one thing in the portal.
Portal ==
    /\ Change /\ Modifiable
    /\ \E sub \in {[stripe EXCEPT !.cancel = ~@]}
                  \cup {[stripe EXCEPT !.plan = p] : p \in Plans \ {stripe.plan}}
                  \cup {[stripe EXCEPT !.seats = n] : n \in Seats \ {stripe.seats}} :
           Modify(sub)
    /\ UNCHANGED <<team, db, job, cancelling, faults, retries, history, reordered>>

\* Payment retries run out, or the subscription is ended from the dashboard.
Lapse ==
    /\ Change /\ stripe.live
    /\ Terminate
    /\ UNCHANGED <<team, db, job, cancelling, faults, retries, history, reordered>>

\* The period ends: a set cancel_at ends the subscription, else a schedule
\* moves on to its second phase and lets go.
PeriodEnd ==
    /\ Change /\ stripe.live
    /\ \/ stripe.cancel /\ Terminate
       \/ /\ ~stripe.cancel /\ stripe.sched # NoPlan
          /\ Emit([Unscheduled EXCEPT !.plan = stripe.sched], <<"sync", "cleared">>)
    /\ UNCHANGED <<team, db, job, cancelling, faults, retries, history, reordered>>

----------------------------------------------------------------------------
(* Reading and saving the row.                                             *)

Goto(a, j) == job' = [job EXCEPT ![a] = j]
Step(a, stage) == Goto(a, [job[a] EXCEPT !.stage = stage])
Finish(a) == Goto(a, Idle)
Busy == {a \in Actors : job[a].stage # "idle"}

\* a has written (or removed) the row: what the others have read is old, and
\* if what a had read was old too, two writers have overlapped.
Wrote(a) ==
    /\ stale' = (stale \cup Busy) \ {a}
    /\ overlapped' = (overlapped \/ a \in stale)
KeptRow(a) == row' = row /\ stale' = stale \ {a} /\ UNCHANGED overlapped

\* DjangoSubscriptionRepository.save: update_or_create by id with every column.
\* It inserts when the row has gone or never was, which the foreign key refuses
\* without the customer, and the unique stripe_id refuses if another writer has
\* inserted first.
Savable(a) == /\ customer # 0 /\ job[a].owner = customer
              /\ (row = NoRow) = (job[a].seen = NoRow)

\* Mutant of SyncedRow: the sync wipes the pending change.
SyncedRowWiping(sub, existing) ==
    [live |-> sub.live, plan |-> sub.plan, seats |-> sub.seats,
     cancel |-> sub.cancel, pending |-> NoPlan]

\* _build_subscription_row: everything from Stripe but the pending change.
SyncedRow(sub, existing) ==
    [live |-> sub.live, plan |-> sub.plan, seats |-> sub.seats,
     cancel |-> sub.cancel, pending |-> existing.pending]

\* What each writer makes of the row it has read.
NewRow(j) ==
    IF j.stage = "sync" THEN SyncedRow(j.sub, j.seen)
    ELSE IF j.stage = "deleted" THEN [j.seen EXCEPT !.live = FALSE]
    ELSE IF j.stage = "pending" THEN [j.seen EXCEPT !.pending = j.sub.sched]
    ELSE IF j.stage = "cleared" THEN [j.seen EXCEPT !.pending = NoPlan]
    ELSE IF j.stage = "mirror" THEN [j.seen EXCEPT !.live = j.sub.live, !.cancel = j.sub.cancel]
    ELSE [j.seen EXCEPT !.seats = j.seats]  \* seats_save

Save(a) ==
    /\ job[a].stage \in {"sync", "deleted", "pending", "cleared", "mirror", "seats_save"}
    /\ row' = IF Savable(a) THEN NewRow(job[a]) ELSE row
    /\ Wrote(a)
    \* A team's subscription has ended: the org's deletion is queued.
    /\ deletions' = IF job[a].stage = "deleted" /\ team /\ Savable(a)
                    THEN deletions \cup {job[a].owner} ELSE deletions
    /\ Finish(a)
    /\ UNCHANGED <<stripe, queue, team, customer, customers, cancelling, bounds, dropped,
                   reordered>>

----------------------------------------------------------------------------
(* Webhook handlers.                                                       *)

\* The early returns, and the WebhookDataError of a sync without customer.
Ignored(e) ==
    \/ e.kind = "sync" /\ customer = 0
    \/ e.kind \in {"deleted", "pending"} /\ row = NoRow
    \/ e.kind = "pending" /\ (e.sub.sched = NoPlan \/ row.pending = e.sub.sched)
    \/ e.kind = "cleared" /\ row.pending = NoPlan

\* A worker takes an event and reads the customer and the row.
TakeEvent(w, i) ==
    /\ job[w].stage = "idle"
    /\ i \in DOMAIN queue /\ queue[i].kind # "checkout"
    /\ queue' = RemoveAt(queue, i)
    /\ reordered' = (reordered \/ i # 1)
    /\ IF Ignored(queue[i]) THEN job' = job
       ELSE Goto(w, [Idle EXCEPT !.stage = queue[i].kind, !.seen = row,
                                 !.owner = customer, !.sub = queue[i].sub])
    /\ stale' = stale \ {w}
    /\ overlapped' = (overlapped \/ (Ignored(queue[i]) /\ Busy # {}))
    /\ UNCHANGED <<stripe, team, db, cancelling, bounds, dropped>>

\* on_team_checkout_completed: _create_org_with_owner commits the org and its
\* customer, unless an earlier attempt has.
TakeCheckout(w, i) ==
    /\ job[w].stage = "idle"
    /\ i \in DOMAIN queue /\ queue[i].kind = "checkout"
    /\ queue' = RemoveAt(queue, i)
    /\ reordered' = (reordered \/ i # 1)
    /\ customers' = IF customer = 0 THEN customers + 1 ELSE customers
    /\ customer' = customers'
    /\ Goto(w, [Idle EXCEPT !.stage = "checkout"])
    /\ stale' = stale \ {w}
    /\ UNCHANGED <<stripe, team, row, deletions, cancelling, bounds, overlapped, dropped>>

\* The buyer's account has gone, whether or not an earlier attempt has made the
\* org: User.objects.aget raises, and that is not retried.
CheckoutForNobody(w, i) ==
    /\ job[w].stage = "idle"
    /\ i \in DOMAIN queue /\ queue[i].kind = "checkout"
    /\ queue' = RemoveAt(queue, i)
    /\ reordered' = (reordered \/ i # 1)
    /\ dropped' = TRUE
    /\ UNCHANGED <<stripe, team, db, job, cancelling, bounds, stale, overlapped>>

\* Mutant of RetrieveSub: the handler leaves the row to the sync event.
RetrieveNothing(w) ==
    /\ job[w].stage = "checkout"
    /\ Finish(w)
    /\ UNCHANGED <<stripe, queue, team, db, cancelling, bounds, history, reordered>>

\* _persist_team_subscription: Subscription.retrieve, then the read of a sync.
RetrieveSub(w) ==
    /\ job[w].stage = "checkout"
    /\ Goto(w, [job[w] EXCEPT !.stage = "retrieved", !.sub = stripe])
    /\ UNCHANGED <<stripe, queue, team, db, cancelling, bounds, history, reordered>>

ReadForCheckout(w) ==
    /\ job[w].stage = "retrieved"
    /\ IF customer = 0 THEN Finish(w) /\ dropped' = TRUE
       ELSE /\ Goto(w, [job[w] EXCEPT !.stage = "sync", !.seen = row, !.owner = customer])
            /\ UNCHANGED dropped
    /\ UNCHANGED <<stripe, queue, team, db, cancelling, bounds, stale, overlapped, reordered>>

\* Subscription.retrieve raises StripeError: the task is retried later,
RetryCheckout(w) ==
    /\ job[w].stage = "checkout"
    /\ faults < MaxFaults /\ faults' = faults + 1
    /\ retries < MaxRetries /\ retries' = retries + 1
    /\ queue' = Append(queue, Event("checkout", Start0))
    /\ Finish(w)
    /\ UNCHANGED <<stripe, team, db, cancelling, changes, history, reordered>>

\* until self.retry raises instead: the org and its customer stay as they are.
GiveUpCheckout(w) ==
    /\ job[w].stage = "checkout"
    /\ faults < MaxFaults /\ faults' = faults + 1
    /\ retries = MaxRetries
    /\ dropped' = TRUE
    /\ Finish(w)
    /\ UNCHANGED <<stripe, queue, team, db, cancelling, changes, retries, stale, overlapped,
                   reordered>>

----------------------------------------------------------------------------
(* The subscription endpoints: PATCH and DELETE .../me/, DELETE            *)
(* .../me/scheduled-change/, and DELETE of the org, of the account or of   *)
(* a member.                                                               *)

\* What a request may ask for: in a PATCH the cancel toggle goes before a plan
\* change, with or without seats, and that before seats alone.
Asks == {<<op, NoPlan, 0>> : op \in {"cancel", "resume", "release", "delete", "erase",
                                       "remove"}}
        \cup {<<"plan", p, n>> : p \in Plans, n \in Seats \cup {0}}
        \cup {<<"seats", NoPlan, n>> : n \in Seats}

\* get_active_for_customer: only an active subscription can be acted on.  An
\* org, or a user's account, can be deleted without one.
StartRequest(r, op, p, n) ==
    /\ job[r].stage = "idle" /\ Change
    /\ customer # 0
    /\ op = "delete" => team
    /\ op \in {"erase", "remove"} => ~team
    /\ op \notin {"delete", "erase", "remove"} => row.live
    /\ Goto(r, [Idle EXCEPT !.stage = op, !.seen = row, !.owner = customer,
                            !.plan = p, !.seats = n])
    /\ stale' = stale \ {r}
    /\ UNCHANGED <<stripe, queue, team, db, cancelling, faults, retries, overlapped, dropped,
                   reordered>>

\* cancel_subscription: a schedule stands in the way, and is released first,
\* but looked for only if the row shows a pending change.
CancelRelease(r) ==
    /\ job[r].stage = "cancel"
    /\ IF job[r].seen.pending # NoPlan /\ stripe.sched # NoPlan
       THEN ReleaseSchedule ELSE UNCHANGED <<stripe, queue>>
    /\ Step(r, "cancel_modify")
    /\ UNCHANGED <<team, db, cancelling, bounds, history, reordered>>

\* modify(cancel_at) of cancel_subscription and resume_subscription.
SetCancel(r) ==
    /\ job[r].stage \in {"cancel_modify", "resume"} /\ Modifiable
    /\ LET sub == [stripe EXCEPT !.cancel = job[r].stage = "cancel_modify"] IN
       /\ Modify(sub)
       /\ Goto(r, [job[r] EXCEPT !.stage = "mirror", !.sub = sub])
    /\ UNCHANGED <<team, db, cancelling, bounds, history, reordered>>

\* update_seat_count: the row is saved only if it showed another count.
SetSeats(r) ==
    /\ job[r].stage = "seats" /\ Modifiable
    /\ Modify([stripe EXCEPT !.seats = job[r].seats])
    /\ IF job[r].seen.seats # job[r].seats THEN Step(r, "seats_save") ELSE Finish(r)
    /\ UNCHANGED <<team, db, cancelling, bounds, history, reordered>>

\* release_pending_schedule_for_customer
ReleasePending(r) ==
    /\ job[r].stage = "release"
    /\ IF stripe.sched # NoPlan THEN ReleaseSchedule ELSE UNCHANGED <<stripe, queue>>
    /\ IF job[r].seen.pending # NoPlan THEN Step(r, "cleared") ELSE Finish(r)
    /\ UNCHANGED <<team, db, cancelling, bounds, history, reordered>>

\* Mutant of RetrieveForPlan: the seat count is not carried forward.
RetrieveForPlanOnly(r) ==
    /\ job[r].stage = "plan"
    /\ Goto(r, [job[r] EXCEPT !.stage = "plan_apply", !.sub = stripe])
    /\ UNCHANGED <<stripe, queue, team, db, cancelling, bounds, history, reordered>>

\* change_plan: reads the subscription at Stripe.  A seat count that was not
\* asked for (0) is the one read.
RetrieveForPlan(r) ==
    /\ job[r].stage = "plan"
    /\ Goto(r, [job[r] EXCEPT !.stage = "plan_apply", !.sub = stripe,
                              !.seats = IF @ = 0 THEN stripe.seats ELSE @])
    /\ UNCHANGED <<stripe, queue, team, db, cancelling, bounds, history, reordered>>

\* A cheaper plan waits for the end of the period: the schedule found is
\* modified, or a new one made (create and modify taken together).
ScheduleDowngrade(r) ==
    /\ job[r].stage = "plan_apply" /\ job[r].plan < job[r].sub.plan
    /\ stripe.live /\ (stripe.sched = NoPlan) = (job[r].sub.sched = NoPlan)
    /\ Schedule([stripe EXCEPT !.plan = job[r].sub.plan, !.seats = job[r].seats,
                               !.sched = job[r].plan])
    /\ Finish(r)
    /\ UNCHANGED <<team, db, cancelling, bounds, history, reordered>>

\* Any other plan applies at once, after the schedule found is released.
ReleaseForPlan(r) ==
    /\ job[r].stage = "plan_apply" /\ job[r].plan >= job[r].sub.plan
    /\ job[r].sub.sched # NoPlan
    /\ stripe.sched # NoPlan /\ ReleaseSchedule
    /\ Step(r, "plan_modify")
    /\ UNCHANGED <<team, db, cancelling, bounds, history, reordered>>

ModifyPlan(r) ==
    /\ \/ job[r].stage = "plan_modify"
       \/ /\ job[r].stage = "plan_apply" /\ job[r].plan >= job[r].sub.plan
          /\ job[r].sub.sched = NoPlan
    /\ Modifiable
    /\ Modify([stripe EXCEPT !.plan = job[r].plan, !.seats = job[r].seats])
    /\ Finish(r)
    /\ UNCHANGED <<team, db, cancelling, bounds, history, reordered>>

\* Mutant of DeleteOrg: the subscription is looked up after the cascade.
DeleteOrgFirst(r) ==
    /\ job[r].stage = "delete"
    /\ IF job[r].owner = customer THEN row' = NoRow /\ customer' = 0 /\ Wrote(r)
       ELSE KeptRow(r) /\ UNCHANGED customer
    /\ Finish(r)
    /\ UNCHANGED <<stripe, queue, team, customers, deletions, cancelling, bounds, dropped,
                   reordered>>

\* delete_org: the cascade takes the customer and the row along; cancelling at
\* Stripe is left to a task, for the subscription read beforehand.
DeleteOrg(r) ==
    /\ job[r].stage = "delete"
    /\ IF job[r].owner = customer THEN row' = NoRow /\ customer' = 0 /\ Wrote(r)
       ELSE KeptRow(r) /\ UNCHANGED customer
    /\ cancelling' = IF job[r].seen.live THEN "queued" ELSE cancelling
    /\ Finish(r)
    /\ UNCHANGED <<stripe, queue, team, customers, deletions, bounds, dropped, reordered>>

\* delete_account: Subscription.cancel and Customer.delete end whatever runs at
\* Stripe, and only then are the customer and its row deleted here.
EraseAtStripe(r) ==
    /\ job[r].stage = "erase"
    /\ IF stripe.live THEN Terminate ELSE UNCHANGED <<stripe, queue>>
    /\ Step(r, "erase_rows")
    /\ UNCHANGED <<team, db, cancelling, bounds, history, reordered>>

EraseRows(r) ==
    /\ job[r].stage = "erase_rows"
    /\ row' = NoRow /\ customer' = 0 /\ Wrote(r)
    /\ Finish(r)
    /\ UNCHANGED <<stripe, queue, team, customers, deletions, cancelling, bounds, dropped,
                   reordered>>

\* An admin removes the user from an org, which deletes the account, and the
\* cascade its own customer and row: nothing is cancelled at Stripe.  (An org's
\* deletion does the same to the members it takes along, of whom it spares the
\* ones whose row is live.)
RemoveMember(r) ==
    /\ job[r].stage = "remove"
    /\ row' = NoRow /\ customer' = 0 /\ Wrote(r)
    /\ dropped' = TRUE
    /\ Finish(r)
    /\ UNCHANGED <<stripe, queue, team, customers, deletions, cancelling, bounds, reordered>>

\* A call to Stripe fails or is refused, or the request dies on the way: what
\* Stripe has accepted so far stays, nothing is saved.
RequestFails(r) ==
    /\ job[r].stage # "idle"
    /\ Finish(r)
    /\ UNCHANGED <<stripe, queue, team, db, cancelling, bounds, history, reordered>>

----------------------------------------------------------------------------
(* Tasks.                                                                  *)

\* delete_org_on_subscription_cancel_task; an org that has gone is a no-op.
DeleteCanceledOrg(c) ==
    /\ c \in deletions
    /\ deletions' = deletions \ {c}
    /\ IF c = customer THEN row' = NoRow /\ customer' = 0 /\ stale' = stale \cup Busy
       ELSE UNCHANGED <<row, customer, stale>>
    /\ UNCHANGED <<stripe, queue, team, customers, job, cancelling, bounds, overlapped,
                   dropped, reordered>>

\* cancel_stripe_subs_task swallows "already cancelled".
CancelStripeSub ==
    /\ cancelling = "queued" /\ cancelling' = "none"
    /\ IF stripe.live THEN Terminate ELSE UNCHANGED <<stripe, queue>>
    /\ UNCHANGED <<team, db, job, bounds, history, reordered>>

\* Any other error is raised to Celery, which does not retry this task.
CancelStripeSubFails ==
    /\ cancelling = "queued" /\ cancelling' = "failed"
    /\ faults < MaxFaults /\ faults' = faults + 1
    /\ UNCHANGED <<stripe, queue, team, db, job, changes, retries, history, reordered>>

----------------------------------------------------------------------------
Handle(w) == \/ \E i \in DOMAIN queue :
                   TakeEvent(w, i) \/ TakeCheckout(w, i) \/ CheckoutForNobody(w, i)
             \/ RetrieveSub(w) \/ ReadForCheckout(w) \/ RetryCheckout(w)
             \/ GiveUpCheckout(w)

Serve(r) == \/ \E ask \in Asks : ask[1] \in Ops /\ StartRequest(r, ask[1], ask[2], ask[3])
            \/ CancelRelease(r) \/ SetCancel(r) \/ SetSeats(r) \/ ReleasePending(r)
            \/ RetrieveForPlan(r) \/ ScheduleDowngrade(r) \/ ReleaseForPlan(r)
            \/ ModifyPlan(r) \/ DeleteOrg(r) \/ EraseAtStripe(r) \/ EraseRows(r)
            \/ RemoveMember(r) \/ RequestFails(r)

Next == \/ Portal \/ Lapse \/ PeriodEnd
        \/ \E w \in Workers : Handle(w)
        \/ \E r \in Requests : Serve(r)
        \/ \E a \in Actors : Save(a)
        \/ \E c \in deletions : DeleteCanceledOrg(c)
        \/ CancelStripeSub \/ CancelStripeSubFails

Spec == Init /\ [][Next]_vars

----------------------------------------------------------------------------
Quiet == queue = <<>> /\ Busy = {} /\ deletions = {} /\ cancelling # "queued"
Orderly == ~overlapped /\ ~reordered /\ ~dropped

\* "Subscription is a pure Stripe mirror": once every event and request has
\* been dealt with, the row says what Stripe says, whatever mixture of portal,
\* endpoints and period ends got there, requests that died half-way included -
\* provided no event overtook another, nobody acted on a row read before
\* another writer's save and the checkout was not given up.  Nothing in the
\* code enforces the first two.  The pending change is claimed for the first
\* customer only: when a retried checkout makes an org that was deleted
\* meanwhile anew, its row starts without the change, whose event went by while
\* there was no row.
MirrorConverges ==
    Quiet /\ Orderly /\ customer # 0 =>
        /\ row # NoRow
        /\ row.live = stripe.live /\ (customers = 1 => row.pending = stripe.sched)
        /\ stripe.live => /\ row.plan = stripe.plan /\ row.seats = stripe.seats
                          /\ row.cancel = stripe.cancel

\* A team that has checked out gets its row even if Stripe delivers
\* customer.subscription.created first and it is dropped for want of the
\* customer, and even if the checkout itself is retried: in any order and with
\* any overlap ("closes that race", apps/orgs/services.py).  The exceptions are
\* a checkout whose max_retries are spent and one whose buyer has gone.
CheckoutPersistsRow ==
    customer # 0 /\ row = NoRow =>
        \/ \E i \in DOMAIN queue : queue[i].kind = IF team THEN "checkout" ELSE "sync"
        \/ \E w \in Workers : job[w].stage \in {"checkout", "retrieved", "sync"}
        \/ dropped

\* An owner who deletes the org or the account stops paying: once the customer
\* is deleted and no work is left, the subscription has ended at Stripe, unless
\* the one attempt of cancel_stripe_subs_task failed.  It is not so when others
\* delete the account (RemoveMember), when the org goes without its checkout
\* having stored the row (CheckoutForNobody, ReadForCheckout, GiveUpCheckout),
\* and after an overlap or a reordering: nothing is cancelled then.
DeletedOwnersStopPaying ==
    Quiet /\ Orderly /\ customers # 0 /\ customer = 0 => ~stripe.live \/ cancelling = "failed"
=============================================================================
