-------------------------- MODULE CreditFulfilment ---------------------------
(***************************************************************************)
(* A paid Checkout session on its way to credits: the webhook pipeline     *)
(* with the handler of product checkouts                                   *)
(* (_on_product_checkout_completed in saasmint_core/services/webhooks.py)  *)
(* in its place.  Every event is a checkout.session.completed of mode      *)
(* "payment", and the process a Celery task runs in the credit ledger      *)
(* carries the task's id.                                                  *)
(***************************************************************************)
EXTENDS WebhookPipeline, CreditLedger

CONSTANTS SessionOf,      \* the Checkout session an event is about
          Complete        \* sessions whose metadata name product and buyer

ASSUME FulfilmentAssumption ==
    /\ Procs = Tasks
    /\ SessionOf \in [Events -> Sessions]
    /\ Complete \subseteq Sessions

vars == <<row, req, task, acked, faults, faulted,
          owners, ledger, balance, pc, sess, read>>

TypeOK == PipelineTypeOK /\ LedgerTypeOK

Init == PipelineInit /\ LedgerInit

\* Mutants of OutcomeOf: the result is passed on as it is, a duplicate is
\* reported as a failure.
OutcomeUntranslated(result) == result
OutcomeDuplicateFails(result) ==
    IF result \in {"failed", "duplicate"} THEN "unexpected" ELSE "ok"

\* What a returned call of the ledger means to process_stored_event.
OutcomeOf(result) == IF result = "failed" THEN "unexpected" ELSE "ok"

\* A session without the metadata ends the handler before the callback.
IgnoreIncomplete(t) ==
    /\ task[t].stage = "dispatching"
    /\ SessionOf[task[t].event] \notin Complete
    /\ Dispatched(t, "ok")
    /\ UNCHANGED ledgerVars

CallLedger(t) ==
    /\ task[t].stage = "dispatching"
    /\ SessionOf[task[t].event] \in Complete
    /\ Begin(t, SessionOf[task[t].event])
    /\ UNCHANGED pipeVars

LedgerStep(t) ==
    /\ Lookup(t) \/ Insert(t) \/ Lock(t) \/ Save(t)
    /\ UNCHANGED pipeVars

LedgerReturns(t) ==
    /\ Dispatched(t, OutcomeOf(pc[t]))
    /\ Return(t)

\* The database connection fails inside the callback: OperationalError, and the
\* transaction is rolled back, or committed with its acknowledgement lost.
LedgerInterrupted(t) ==
    /\ HandlerInterrupted(t)
    /\ Abort(t)

\* A worker dies, in the callback or outside it.
WorkerDies(t) ==
    /\ LoseTask(t)
    /\ IF pc[t] = "idle" THEN UNCHANGED ledgerVars ELSE Abort(t)

Handle(t) == IgnoreIncomplete(t) \/ CallLedger(t) \/ LedgerStep(t) \/ LedgerReturns(t)

Next ==
    \/ Endpoint /\ UNCHANGED ledgerVars
    \/ \E t \in Tasks :
        \/ (StartTask(t) \/ StartFails(t) \/ Settle(t)) /\ UNCHANGED ledgerVars
        \/ Handle(t)
        \/ LedgerInterrupted(t)
        \/ WorkerDies(t)
    \/ \E o \in Owners : DeleteOwner(o) /\ UNCHANGED pipeVars

Spec == Init /\ [][Next]_vars

\* As in WebhookPipeline and CreditLedger: Stripe redelivers, workers finish
\* what they started, lock queues are served; faults and erasure are not owed.
FairSpec ==
    /\ Spec
    /\ \A e \in Events : WF_vars(e \notin acked /\ Deliver(e) /\ UNCHANGED ledgerVars)
    /\ \A r \in Requests : WF_vars(Enqueue(r) /\ UNCHANGED ledgerVars)
    /\ \A t \in Tasks :
        /\ WF_vars(StartTask(t) /\ UNCHANGED ledgerVars)
        /\ WF_vars((MarkProcessed(t) \/ MarkFailed(t) \/ Retry(t)) /\ UNCHANGED ledgerVars)
        /\ SF_vars(Handle(t))

----------------------------------------------------------------------------
\* However events, retries and workers interleave, a session is granted at
\* most once and in one step (billing/spec.md: "redelivery of the same
\* session does not double-grant").
GrantsOnce == Promise!Spec

\* A row marked processed has really been fulfilled: its session is in the
\* ledger, unless the owner is gone or there was nothing to grant.
ProcessedIsFulfilled ==
    \A e \in Events : row[e].processed =>
        LET s == SessionOf[e]
        IN  \/ s \in ledger
            \/ s \notin Complete \/ CreditsOf[s] = 0 \/ OwnerOf[s] \notin owners

\* A row marked failed, on which no fault fell, was not credited: whoever
\* follows up the error can refund or grant by hand without paying twice.
FailedIsNotGranted ==
    \A e \in Events \ faulted : row[e].error => SessionOf[e] \notin ledger

\* A session that can be granted: it names product and buyer, and the buyer's
\* purchases together fit the balance column.
Grantable(s) ==
    /\ s \in Complete /\ CreditsOf[s] > 0
    /\ MapThenSumSet(LAMBDA x : CreditsOf[x], {x \in Sessions : OwnerOf[x] = OwnerOf[s]})
           <= MaxBalance

\* A completed checkout is granted in the end, provided the owner stays and no
\* fault of broker, database or worker falls on its event.
UndisturbedCheckoutsAreGranted ==
    \A e \in LiveEvents :
        LET s == SessionOf[e]
        IN  Grantable(s) => <>(s \in ledger \/ OwnerOf[s] \notin owners \/ e \in faulted)
=============================================================================
