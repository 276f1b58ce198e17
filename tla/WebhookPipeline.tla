--------------------------- MODULE WebhookPipeline ---------------------------
(***************************************************************************)
(* How a Stripe event gets from the webhook endpoint to its handler:       *)
(* stripe_webhook (apps/billing/webhook.py) stores it once and enqueues a  *)
(* Celery task after the commit; process_stripe_webhook                    *)
(* (apps/billing/tasks.py) and process_stored_event                        *)
(* (saasmint_core/services/webhooks.py) run the handler, record the        *)
(* outcome on the StripeEvent row and retry transient errors.              *)
(*                                                                         *)
(* Stripe delivers an event again until it gets a 2xx answer, and may      *)
(* deliver it again after that.  Requests that fail the size, signature or *)
(* shape checks change nothing and are left out.  Celery acknowledges a    *)
(* message before running it (the default), so a task whose worker dies is *)
(* gone.  What the handler itself does is the business of the module that  *)
(* composes this one; here it ends with one of four outcomes.              *)
(***************************************************************************)
EXTENDS Naturals

CONSTANTS Events,        \* Stripe event ids
          LiveEvents,    \* those whose livemode matches the configured key
          Requests,      \* web workers, each serving one delivery at a time
          Tasks,         \* Celery task ids
          MaxRetries,    \* max_retries of process_stripe_webhook
          MaxFaults      \* bound on infrastructure faults in a behaviour

NoEvent == "none"

ASSUME PipelineAssumption ==
    /\ NoEvent \notin Events
    /\ LiveEvents \subseteq Events
    /\ MaxRetries \in Nat
    /\ MaxFaults \in Nat

VARIABLES row,       \* StripeEvent rows: stored, processed_at set, error set
          req,       \* the event whose row a web worker has just committed
          task,      \* Celery tasks: stage, event, number of retries
          acked,     \* events Stripe has had a 2xx answer for
          faults,    \* infrastructure faults so far
          faulted    \* events that a fault has hit

pipeVars == <<row, req, task, acked, faults, faulted>>

Failures == {"data_error", "transient", "unexpected"}
Outcomes == {"ok"} \cup Failures
Running == {"dispatching", "retrying"} \cup Outcomes
Live == {"queued"} \cup Running

PipelineTypeOK ==
    /\ row \in [Events -> [stored : BOOLEAN, processed : BOOLEAN, error : BOOLEAN]]
    /\ req \in [Requests -> Events \cup {NoEvent}]
    /\ task \in [Tasks -> [stage : {"unused", "ended"} \cup Live,
                           event : Events \cup {NoEvent},
                           retries : 0..MaxRetries]]
    /\ acked \subseteq Events
    /\ faults \in 0..MaxFaults
    /\ faulted \subseteq Events

PipelineInit ==
    /\ row = [e \in Events |-> [stored |-> FALSE, processed |-> FALSE, error |-> FALSE]]
    /\ req = [r \in Requests |-> NoEvent]
    /\ task = [t \in Tasks |-> [stage |-> "unused", event |-> NoEvent, retries |-> 0]]
    /\ acked = {}
    /\ faults = 0
    /\ faulted = {}

\* A fault of the broker, the database or a worker hits event e.
Fault(e) ==
    /\ faults < MaxFaults
    /\ faults' = faults + 1
    /\ faulted' = faulted \cup {e}

NoFault == UNCHANGED <<faults, faulted>>

Goto(t, stage) == task' = [task EXCEPT ![t].stage = stage]

----------------------------------------------------------------------------
(* The endpoint.                                                           *)

\* livemode does not match the key: answered 202 and dropped.
DropMismatched(e) ==
    /\ e \in Events \ LiveEvents
    /\ acked' = acked \cup {e}
    /\ UNCHANGED <<row, req, task>> /\ NoFault

\* Mutant of StoreEvent: an existing row is not taken for a duplicate.
StoreEventAgain(r, e) ==
    /\ req[r] = NoEvent
    /\ e \in LiveEvents
    /\ row' = [row EXCEPT ![e].stored = TRUE]
    /\ req' = [req EXCEPT ![r] = e]
    /\ UNCHANGED <<task, acked>> /\ NoFault

\* get_or_create inserts the row; the unique index on stripe_id lets only one
\* of several concurrent deliveries get here.
StoreEvent(r, e) ==
    /\ req[r] = NoEvent
    /\ e \in LiveEvents
    /\ ~row[e].stored
    /\ row' = [row EXCEPT ![e].stored = TRUE]
    /\ req' = [req EXCEPT ![r] = e]
    /\ UNCHANGED <<task, acked>> /\ NoFault

\* The row exists: "Skipping duplicate", answered 202.
SkipDuplicate(e) ==
    /\ e \in LiveEvents
    /\ row[e].stored
    /\ acked' = acked \cup {e}
    /\ UNCHANGED <<row, req, task>> /\ NoFault

\* Mutant of Enqueue: answered 202 without enqueueing.
EnqueueNothing(r) ==
    /\ req[r] # NoEvent
    /\ req' = [req EXCEPT ![r] = NoEvent]
    /\ acked' = acked \cup {req[r]}
    /\ UNCHANGED <<row, task>> /\ NoFault

\* on_commit: process_stripe_webhook.delay, then the 202.
Enqueue(r) ==
    /\ req[r] # NoEvent
    /\ \E t \in Tasks :
        /\ task[t].stage = "unused"
        /\ task' = [task EXCEPT ![t].stage = "queued", ![t].event = req[r]]
    /\ req' = [req EXCEPT ![r] = NoEvent]
    /\ acked' = acked \cup {req[r]}
    /\ UNCHANGED row /\ NoFault

\* The broker refuses the message, or the web worker dies after its commit:
\* the row stays, Stripe sees an error.
EnqueueFails(r) ==
    /\ req[r] # NoEvent
    /\ Fault(req[r])
    /\ req' = [req EXCEPT ![r] = NoEvent]
    /\ UNCHANGED <<row, task, acked>>

----------------------------------------------------------------------------
(* The task.                                                               *)

\* Mutant of StartTask: the event is marked without running its handler.
StartTaskWithoutHandler(t) ==
    /\ task[t].stage = "queued"
    /\ Goto(t, "ok")
    /\ UNCHANGED <<row, req, acked>> /\ NoFault

\* A worker takes the message and loads the row.
StartTask(t) ==
    /\ task[t].stage = "queued"
    /\ Goto(t, "dispatching")
    /\ UNCHANGED <<row, req, acked>> /\ NoFault

\* Loading the row fails; that is outside the try, so nothing is retried.
StartFails(t) ==
    /\ task[t].stage = "queued"
    /\ Fault(task[t].event)
    /\ Goto(t, "ended")
    /\ UNCHANGED <<row, req, acked>>

\* The handler returns or raises.
Dispatched(t, outcome) ==
    /\ task[t].stage = "dispatching"
    /\ Goto(t, outcome)
    /\ UNCHANGED <<row, req, acked>> /\ NoFault

\* The database fails under the handler, which raises OperationalError.
HandlerInterrupted(t) ==
    /\ task[t].stage = "dispatching"
    /\ Fault(task[t].event)
    /\ Goto(t, "transient")
    /\ UNCHANGED <<row, req, acked>>

\* Mutant of MarkProcessed: an earlier error stays on the row.
MarkProcessedKeepingError(t) ==
    /\ task[t].stage = "ok"
    /\ row' = [row EXCEPT ![task[t].event].processed = TRUE]
    /\ Goto(t, "ended")
    /\ UNCHANGED <<req, acked>> /\ NoFault

\* mark_processed sets processed_at and clears error; mark_failed sets error and
\* leaves processed_at alone.
AsProcessed(e) == [row EXCEPT ![e].processed = TRUE, ![e].error = FALSE]
AsFailed(e) == [row EXCEPT ![e].error = TRUE]

MarkProcessed(t) ==
    /\ task[t].stage = "ok"
    /\ row' = AsProcessed(task[t].event)
    /\ Goto(t, "ended")
    /\ UNCHANGED <<req, acked>> /\ NoFault

\* mark_processed raises OperationalError, and the row is written or not: the
\* UPDATE may have been committed and its acknowledgement lost.  It is inside
\* the try, so the catch-all goes on to record a failure of an event whose
\* handler has succeeded, and the task to try it again.
MarkProcessedFails(t) ==
    /\ task[t].stage = "ok"
    /\ Fault(task[t].event)
    /\ row' \in {row, AsProcessed(task[t].event)}
    /\ Goto(t, "transient")
    /\ UNCHANGED <<req, acked>>

\* Mutant of MarkFailed: only transient errors are recorded.
MarkFailedIfTransient(t) ==
    /\ task[t].stage \in Failures
    /\ row' = [row EXCEPT ![task[t].event].error = @ \/ task[t].stage = "transient"]
    /\ Goto(t, IF task[t].stage = "transient" THEN "retrying" ELSE "ended")
    /\ UNCHANGED <<req, acked>> /\ NoFault

\* Only a transient error goes on to a retry.
MarkFailed(t) ==
    /\ task[t].stage \in Failures
    /\ row' = AsFailed(task[t].event)
    /\ Goto(t, IF task[t].stage = "transient" THEN "retrying" ELSE "ended")
    /\ UNCHANGED <<req, acked>> /\ NoFault

\* mark_failed raises OperationalError itself, with the row written or not.  That
\* error replaces the one being handled, so the task retries whatever the
\* handler had raised.
MarkFailedFails(t) ==
    /\ task[t].stage \in Failures
    /\ Fault(task[t].event)
    /\ row' \in {row, AsFailed(task[t].event)}
    /\ Goto(t, "retrying")
    /\ UNCHANGED <<req, acked>>

\* Mutant of Retry: one retry too many.
RetryOnceMore(t) ==
    /\ task[t].stage = "retrying"
    /\ task' = IF task[t].retries <= MaxRetries
               THEN [task EXCEPT ![t].stage = "queued", ![t].retries = @ + 1]
               ELSE [task EXCEPT ![t].stage = "ended"]
    /\ UNCHANGED <<row, req, acked>> /\ NoFault

\* Mutant of Retry: retries are not counted.
RetryUncounted(t) ==
    /\ task[t].stage = "retrying"
    /\ Goto(t, "queued")
    /\ UNCHANGED <<row, req, acked>> /\ NoFault

\* self.retry: publishes the task again, or raises once the budget is spent.
Retry(t) ==
    /\ task[t].stage = "retrying"
    /\ task' = IF task[t].retries < MaxRetries
               THEN [task EXCEPT ![t].stage = "queued", ![t].retries = @ + 1]
               ELSE [task EXCEPT ![t].stage = "ended"]
    /\ UNCHANGED <<row, req, acked>> /\ NoFault

\* The worker dies, or publishing the retry fails.  The message was
\* acknowledged when it was taken, so the task does not come back.
LoseTask(t) ==
    /\ task[t].stage \in Running
    /\ Fault(task[t].event)
    /\ Goto(t, "ended")
    /\ UNCHANGED <<row, req, acked>>

----------------------------------------------------------------------------
Deliver(e) == DropMismatched(e) \/ SkipDuplicate(e) \/ \E r \in Requests : StoreEvent(r, e)

\* The steps that do not involve the handler.
Endpoint == \/ \E e \in Events : Deliver(e)
            \/ \E r \in Requests : Enqueue(r) \/ EnqueueFails(r)

Settle(t) == MarkProcessed(t) \/ MarkProcessedFails(t) \/ MarkFailed(t)
             \/ MarkFailedFails(t) \/ Retry(t)

PipelineNext ==
    \/ Endpoint
    \/ \E t \in Tasks : \/ StartTask(t) \/ StartFails(t)
                        \/ \E o \in Outcomes : Dispatched(t, o)
                        \/ HandlerInterrupted(t)
                        \/ Settle(t) \/ LoseTask(t)

PipelineSpec == PipelineInit /\ [][PipelineNext]_pipeVars

\* Stripe keeps delivering what was not acknowledged; web workers finish
\* their requests and Celery workers their tasks.  Faults are never owed.
PipelineFairness ==
    /\ \A e \in Events : WF_pipeVars(e \notin acked /\ Deliver(e))
    /\ \A r \in Requests : WF_pipeVars(Enqueue(r))
    /\ \A t \in Tasks : WF_pipeVars(\/ StartTask(t)
                                    \/ \E o \in Outcomes : Dispatched(t, o)
                                    \/ MarkProcessed(t) \/ MarkFailed(t) \/ Retry(t))

PipelineFairSpec == PipelineSpec /\ PipelineFairness

----------------------------------------------------------------------------
TaskOf(e) == {t \in Tasks : task[t].event = e /\ task[t].stage \in Live}
InFlight(e) == TaskOf(e) # {} \/ \E r \in Requests : req[r] = e

\* The stored row is the only licence to run the handler: however often and
\* however concurrently Stripe delivers an event, and however often its task
\* is retried, no two tasks for it are ever alive together, and none beside
\* a request that is still to enqueue it.
OneTaskPerEvent ==
    \A e \in Events :
        /\ \A t, u \in TaskOf(e) : t = u
        /\ \A r \in Requests : req[r] = e =>
              TaskOf(e) = {} /\ \A q \in Requests : req[q] = e => q = r

\* A row that says processed is final: nothing of the event is still to run,
\* and no failure marks it any more.  mark_failed does not look at
\* processed_at, so that only the absence of a second task protects the row,
\* and a fault can undo it: where the acknowledgement of mark_processed is
\* lost, the same task marks the row failed and runs the handler again.
ProcessedIsFinal ==
    \A e \in Events \ faulted : row[e].processed => ~row[e].error /\ ~InFlight(e)

\* A stored row with neither processed_at nor error is one still under way,
\* unless the broker, the database or a worker failed on it (webhooks.py:
\* otherwise it is "indistinguishable from a fresh row and invisible to
\* monitoring").
FreshRowsAreInFlight ==
    \A e \in Events :
        row[e].stored /\ ~row[e].processed /\ ~row[e].error
            => InFlight(e) \/ e \in faulted

\* Every live event is eventually settled, one way or the other, when no
\* fault occurs: redelivery gets it stored, and the retries run out.
EventsSettle ==
    \A e \in LiveEvents :
        <>[](~InFlight(e) /\ (row[e].processed \/ row[e].error \/ e \in faulted))
=============================================================================
