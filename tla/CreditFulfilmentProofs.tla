----------------------- MODULE CreditFulfilmentProofs ------------------------
(***************************************************************************)
(* Proofs about the webhook pipeline and the fulfilment of product         *)
(* checkouts it carries, for any number of events, web workers, tasks,     *)
(* retries and faults.  WebhookPipeline is proved first, on its own; the   *)
(* composition is then shown to implement both WebhookPipeline and         *)
(* CreditLedger, which gives it their theorems, and what relates the two   *)
(* (ProcessedIsFulfilled, FailedIsNotGranted) is proved on top.            *)
(***************************************************************************)
EXTENDS CreditFulfilment, CreditLedgerProofs

Stages == {"unused", "ended"} \cup Live
TaskType == [stage : Stages, event : Events \cup {NoEvent}, retries : 0..MaxRetries]
RowType == [stored : BOOLEAN, processed : BOOLEAN, error : BOOLEAN]

IsLive(t) == task[t].stage \in Live

\* The event of a live task is stored, and processed only if a fault has hidden
\* that from its task; one a request is still to enqueue is not processed.
LiveIsOpen ==
    /\ \A t \in Tasks : IsLive(t) =>
           /\ task[t].event \in Events
           /\ row[task[t].event].stored
           /\ row[task[t].event].processed => task[t].event \in faulted
    /\ \A r \in Requests : req[r] # NoEvent =>
           row[req[r]].stored /\ ~row[req[r]].processed

\* Outcomes are on stored rows only, and both of them only after a fault.
RowsAreSane ==
    \A e \in Events :
        /\ row[e].processed \/ row[e].error => row[e].stored
        /\ row[e].processed /\ row[e].error => e \in faulted

\* OneTaskPerEvent, said of pairs.
LiveIsUnique ==
    /\ \A t, u \in Tasks :
           IsLive(t) /\ IsLive(u) /\ task[t].event = task[u].event => t = u
    /\ \A r, q \in Requests : req[r] # NoEvent /\ req[r] = req[q] => r = q
    /\ \A t \in Tasks : \A r \in Requests : IsLive(t) => req[r] # task[t].event

\* A task is about to retry only after its failure was recorded or lost to a
\* fault: should the retries be spent, the row does not look fresh.
RetriesAreMarked ==
    \A t \in Tasks : task[t].stage = "retrying" =>
        row[task[t].event].error \/ task[t].event \in faulted

\* The inductive invariant of the pipeline.
PipeInv ==
    /\ PipelineTypeOK
    /\ LiveIsOpen
    /\ RowsAreSane
    /\ LiveIsUnique
    /\ RetriesAreMarked
    /\ FreshRowsAreInFlight

LEMMA LiveStages ==
    /\ "unused" \notin Live /\ "ended" \notin Live
    /\ {"queued", "dispatching", "retrying"} \subseteq Live
    /\ Outcomes \subseteq Live /\ Failures \subseteq Outcomes /\ Running \subseteq Live
    /\ "ok" \in Outcomes /\ "transient" \in Failures /\ "retrying" \notin Outcomes
  BY DEF Live, Running, Outcomes, Failures

\* What is alive is what TaskOf and InFlight count.
LEMMA InFlightMeaning ==
    ASSUME NEW e
    PROVE  InFlight(e) <=> \/ \E t \in Tasks : task[t].event = e /\ IsLive(t)
                           \/ \E r \in Requests : req[r] = e
  BY DEF InFlight, TaskOf, IsLive

\* The inductive invariant gives the three the run checks.
LEMMA PipeInvMeaning ==
    PipeInv => OneTaskPerEvent /\ ProcessedIsFinal /\ FreshRowsAreInFlight
<1> SUFFICES ASSUME PipeInv
             PROVE  OneTaskPerEvent /\ ProcessedIsFinal /\ FreshRowsAreInFlight
  OBVIOUS
<1> USE PipelineAssumption
<1>1. OneTaskPerEvent
  BY DEF PipeInv, OneTaskPerEvent, TaskOf, LiveIsUnique, IsLive
<1>2. ProcessedIsFinal
  BY InFlightMeaning DEF PipeInv, ProcessedIsFinal, LiveIsOpen, RowsAreSane
<1> QED
  BY <1>1, <1>2 DEF PipeInv

\* A step of one task that leaves rows and requests alone: what ends it, or
\* sends it to a retry, is already visible.
LEMMA TaskMoves ==
    ASSUME PipeInv, NEW t \in Tasks, IsLive(t),
           task' \in [Tasks -> TaskType], row' = row, req' = req,
           \A u \in Tasks \ {t} : task'[u] = task[u],
           task'[t].event = task[t].event,
           IsLive(t)' \/ task'[t].stage = "ended",
           task'[t].stage \in {"ended", "retrying"} =>
               row[task[t].event].error \/ task[t].event \in faulted',
           faulted \subseteq faulted', faulted' \subseteq Events,
           acked' \subseteq Events, faults' \in 0..MaxFaults
    PROVE  PipeInv'
<1>1. PipelineTypeOK'
  BY DEF PipeInv, PipelineTypeOK, TaskType, Stages
<1>2. \A u \in Tasks : /\ task'[u].event = task[u].event
                       /\ IsLive(u)' => IsLive(u)
  BY DEF IsLive
<1>3. LiveIsOpen'
  BY <1>2 DEF PipeInv, LiveIsOpen
<1>4. RowsAreSane'
  BY DEF PipeInv, RowsAreSane
<1>5. LiveIsUnique'
  BY <1>2 DEF PipeInv, LiveIsUnique
<1>6. RetriesAreMarked'
  BY <1>2 DEF PipeInv, RetriesAreMarked
<1>7. FreshRowsAreInFlight'
  <2> SUFFICES ASSUME NEW e \in Events,
                      row[e].stored, ~row[e].processed, ~row[e].error,
                      e \notin faulted'
               PROVE  \/ \E u \in Tasks : task'[u].event = e /\ IsLive(u)'
                      \/ \E r \in Requests : req'[r] = e
    BY DEF FreshRowsAreInFlight, InFlight, TaskOf, IsLive
  <2>1. \/ \E u \in Tasks : task[u].event = e /\ IsLive(u)
        \/ \E r \in Requests : req[r] = e
    BY InFlightMeaning DEF PipeInv, FreshRowsAreInFlight
  <2>2. ASSUME NEW u \in Tasks, task[u].event = e, IsLive(u)
        PROVE  task'[u].event = e /\ IsLive(u)'
    BY <1>2, <2>2 DEF IsLive
  <2> QED
    BY <2>1, <2>2
<1> QED
  BY <1>1, <1>3, <1>4, <1>5, <1>6, <1>7 DEF PipeInv

\* What Goto does to the tasks.
LEMMA GotoFacts ==
    ASSUME PipelineTypeOK, NEW t \in Tasks, NEW s \in Stages, Goto(t, s)
    PROVE  /\ task' \in [Tasks -> TaskType]
           /\ task'[t].stage = s /\ task'[t].event = task[t].event
           /\ \A u \in Tasks \ {t} : task'[u] = task[u]
<1>1. task \in [Tasks -> TaskType]
  BY DEF PipelineTypeOK, TaskType, Stages
<1>2. task' = [task EXCEPT ![t] = [task[t] EXCEPT !.stage = s]]
  BY DEF Goto
<1>3. /\ [task[t] EXCEPT !.stage = s] \in TaskType
      /\ [task[t] EXCEPT !.stage = s].stage = s
      /\ [task[t] EXCEPT !.stage = s].event = task[t].event
  BY <1>1 DEF TaskType
<1> QED
  BY <1>1, <1>2, <1>3

\* A fault is counted and remembered.
LEMMA FaultFacts ==
    ASSUME PipelineTypeOK, NEW e \in Events, Fault(e)
    PROVE  /\ e \in faulted' /\ faulted \subseteq faulted' /\ faulted' \subseteq Events
           /\ faults' \in 0..MaxFaults
  BY PipelineAssumption DEF PipelineTypeOK, Fault

\* Steps of the endpoint.
LEMMA EndpointKeeps == PipeInv /\ Endpoint => PipeInv'
<1> SUFFICES ASSUME PipeInv, Endpoint PROVE PipeInv'
  OBVIOUS
<1> USE PipelineAssumption
<1>0. PipelineTypeOK
  BY DEF PipeInv
<1>1. ASSUME NEW e \in Events, DropMismatched(e) \/ SkipDuplicate(e)
      PROVE  PipeInv'
  <2>1. /\ row' = row /\ req' = req /\ task' = task
        /\ acked' \subseteq Events /\ faults' = faults /\ faulted' = faulted
    BY <1>0, <1>1 DEF DropMismatched, SkipDuplicate, NoFault, PipelineTypeOK
  <2> QED
    BY <2>1 DEF PipeInv, PipelineTypeOK, LiveIsOpen, RowsAreSane, LiveIsUnique, IsLive,
                RetriesAreMarked, FreshRowsAreInFlight, InFlight, TaskOf
<1>2. ASSUME NEW e \in Events, NEW r \in Requests, StoreEvent(r, e)
      PROVE  PipeInv'
  <2>1. /\ req[r] = NoEvent /\ ~row[e].stored
        /\ req' = [req EXCEPT ![r] = e]
        /\ task' = task /\ acked' = acked /\ faults' = faults /\ faulted' = faulted
    BY <1>2 DEF StoreEvent, NoFault
  <2>2. row \in [Events -> RowType]
    BY <1>0 DEF PipelineTypeOK, RowType
  <2>3. /\ row' \in [Events -> RowType]
        /\ row'[e].stored
        /\ row'[e].processed = row[e].processed /\ row'[e].error = row[e].error
        /\ \A f \in Events \ {e} : row'[f] = row[f]
    <3>1. row' = [row EXCEPT ![e] = [row[e] EXCEPT !.stored = TRUE]]
      BY <1>2 DEF StoreEvent
    <3>2. /\ [row[e] EXCEPT !.stored = TRUE] \in RowType
          /\ [row[e] EXCEPT !.stored = TRUE].stored
          /\ [row[e] EXCEPT !.stored = TRUE].processed = row[e].processed
          /\ [row[e] EXCEPT !.stored = TRUE].error = row[e].error
      BY <2>2 DEF RowType
    <3> QED
      BY <2>2, <3>1, <3>2
  <2>4. ~row[e].processed /\ ~row[e].error
    BY <2>1 DEF PipeInv, RowsAreSane
  <2>5. /\ \A t \in Tasks : IsLive(t) => task[t].event # e
        /\ \A q \in Requests : req[q] # e
    BY <2>1 DEF PipeInv, LiveIsOpen
  <2>6. req' \in [Requests -> Events \cup {NoEvent}]
    BY <1>0, <2>1 DEF PipelineTypeOK
  <2>7. \A t \in Tasks : IsLive(t)' <=> IsLive(t)
    BY <2>1 DEF IsLive
  <2>8. PipelineTypeOK'
    BY <1>0, <2>1, <2>3, <2>6 DEF PipelineTypeOK, RowType
  <2>9. req'[r] = e /\ \A q \in Requests \ {r} : req'[q] = req[q]
    BY <1>0, <2>1 DEF PipelineTypeOK
  <2>10. LiveIsOpen'
    <3>1. ASSUME NEW t \in Tasks, IsLive(t)'
          PROVE  /\ task'[t].event \in Events
                 /\ row'[task'[t].event].stored
                 /\ row'[task'[t].event].processed => task'[t].event \in faulted'
      BY <2>1, <2>3, <2>5, <2>7, <3>1 DEF PipeInv, LiveIsOpen
    <3>2. ASSUME NEW q \in Requests, req'[q] # NoEvent
          PROVE  row'[req'[q]].stored /\ ~row'[req'[q]].processed
      <4>1. CASE q = r
        BY <2>3, <2>4, <2>9, <4>1
      <4>2. CASE q # r
        <5>1. req'[q] = req[q] /\ req[q] \in Events /\ req[q] # e
          BY <1>0, <2>5, <2>9, <3>2, <4>2 DEF PipelineTypeOK
        <5>2. row[req[q]].stored /\ ~row[req[q]].processed
          BY <3>2, <5>1 DEF PipeInv, LiveIsOpen
        <5> QED
          BY <2>3, <5>1, <5>2
      <4> QED
        BY <4>1, <4>2
    <3> QED
      BY <3>1, <3>2 DEF LiveIsOpen
  <2>11. RowsAreSane'
    BY <2>1, <2>3, <2>4 DEF PipeInv, RowsAreSane
  <2>12. LiveIsUnique'
    BY <2>1, <2>5, <2>7, <2>9 DEF PipeInv, LiveIsUnique
  <2>13. RetriesAreMarked'
    <3> SUFFICES ASSUME NEW t \in Tasks, task[t].stage = "retrying"
                 PROVE  row'[task[t].event].error \/ task[t].event \in faulted
      BY <2>1 DEF RetriesAreMarked
    <3>1. task[t].event \in Events \ {e}
      BY <2>5, LiveStages DEF PipeInv, LiveIsOpen, IsLive
    <3> QED
      BY <2>3, <3>1 DEF PipeInv, RetriesAreMarked
  <2>14. FreshRowsAreInFlight'
    <3> SUFFICES ASSUME NEW f \in Events,
                        row'[f].stored, ~row'[f].processed, ~row'[f].error
                 PROVE  \/ \E u \in Tasks : task'[u].event = f /\ IsLive(u)'
                        \/ \E q \in Requests : req'[q] = f
                        \/ f \in faulted'
      BY DEF FreshRowsAreInFlight, InFlight, TaskOf, IsLive
    <3>1. CASE f = e
      BY <2>9, <3>1
    <3>2. CASE f # e
      <4>1. row[f].stored /\ ~row[f].processed /\ ~row[f].error
        BY <2>3, <3>2
      <4>2. \/ \E u \in Tasks : task[u].event = f /\ IsLive(u)
            \/ \E q \in Requests : req[q] = f
            \/ f \in faulted
        BY <4>1, InFlightMeaning DEF PipeInv, FreshRowsAreInFlight
      <4>3. \A q \in Requests : req[q] = f => q # r
        BY <2>1
      <4> QED
        BY <2>1, <2>7, <2>9, <4>2, <4>3
    <3> QED
      BY <3>1, <3>2
  <2> QED
    BY <2>8, <2>10, <2>11, <2>12, <2>13, <2>14 DEF PipeInv
<1>3. ASSUME NEW r \in Requests, Enqueue(r) \/ EnqueueFails(r)
      PROVE  PipeInv'
  <2> DEFINE e == req[r]
  <2>1. /\ e \in Events /\ row[e].stored /\ ~row[e].processed
        /\ req' = [req EXCEPT ![r] = NoEvent] /\ row' = row
    BY <1>0, <1>3 DEF PipeInv, PipelineTypeOK, LiveIsOpen, Enqueue, EnqueueFails
  <2>2. /\ req' \in [Requests -> Events \cup {NoEvent}]
        /\ req'[r] = NoEvent /\ \A q \in Requests \ {r} : req'[q] = req[q]
    BY <1>0, <2>1 DEF PipelineTypeOK
  <2>3. /\ \A t \in Tasks : IsLive(t) => task[t].event # e
        /\ \A q \in Requests \ {r} : req[q] # e
    BY <2>1 DEF PipeInv, LiveIsUnique
  <2> HIDE DEF e
  <2>4. CASE Enqueue(r)
    <3>1. PICK t \in Tasks :
              /\ task[t].stage = "unused"
              /\ task' = [task EXCEPT ![t].stage = "queued", ![t].event = e]
      BY <2>4 DEF Enqueue, e
    <3>2. task \in [Tasks -> TaskType]
      BY <1>0 DEF PipelineTypeOK, TaskType, Stages
    <3>3. "queued" \in Stages
      BY LiveStages DEF Stages
    <3>4. /\ task' \in [Tasks -> TaskType]
          /\ task'[t].stage = "queued" /\ task'[t].event = e
          /\ \A u \in Tasks \ {t} : task'[u] = task[u]
      BY <2>1, <3>1, <3>2, <3>3 DEF TaskType
    <3>5. /\ ~IsLive(t) /\ IsLive(t)'
          /\ \A u \in Tasks \ {t} : IsLive(u)' <=> IsLive(u)
      BY <3>1, <3>4, LiveStages DEF IsLive
    <3>6. acked' \subseteq Events /\ faults' = faults /\ faulted' = faulted
      BY <1>0, <2>1, <2>4 DEF Enqueue, NoFault, PipelineTypeOK, e
    <3>7. PipelineTypeOK'
      BY <1>0, <2>1, <2>2, <3>4, <3>6 DEF PipelineTypeOK, TaskType, Stages
    <3>8. LiveIsOpen'
      BY <2>1, <2>2, <3>4, <3>5, <3>6 DEF PipeInv, LiveIsOpen
    <3>9. RowsAreSane'
      BY <2>1, <3>6 DEF PipeInv, RowsAreSane
    <3>10. LiveIsUnique'
      <4>1. \A u, v \in Tasks :
                IsLive(u)' /\ IsLive(v)' /\ task'[u].event = task'[v].event => u = v
        BY <2>3, <3>4, <3>5 DEF PipeInv, LiveIsUnique
      <4>2. \A q, p \in Requests : req'[q] # NoEvent /\ req'[q] = req'[p] => q = p
        BY <2>2 DEF PipeInv, LiveIsUnique
      <4>3. ASSUME NEW u \in Tasks, NEW q \in Requests, IsLive(u)'
            PROVE  req'[q] # task'[u].event
        <5>1. task'[u].event \in Events
          BY <3>8, <4>3 DEF LiveIsOpen
        <5> QED
          BY <2>2, <2>3, <3>4, <3>5, <4>3, <5>1 DEF PipeInv, LiveIsUnique
      <4> QED
        BY <4>1, <4>2, <4>3 DEF LiveIsUnique
    <3>11. RetriesAreMarked'
      BY <2>1, <3>4, <3>6 DEF PipeInv, RetriesAreMarked
    <3>12. FreshRowsAreInFlight'
      <4> SUFFICES ASSUME NEW f \in Events,
                          row[f].stored, ~row[f].processed, ~row[f].error
                   PROVE  \/ \E u \in Tasks : task'[u].event = f /\ IsLive(u)'
                          \/ \E q \in Requests : req'[q] = f
                          \/ f \in faulted'
        BY <2>1 DEF FreshRowsAreInFlight, InFlight, TaskOf, IsLive
      <4>1. \/ \E u \in Tasks : task[u].event = f /\ IsLive(u)
            \/ \E q \in Requests : req[q] = f
            \/ f \in faulted
        BY InFlightMeaning DEF PipeInv, FreshRowsAreInFlight
      <4>2. CASE f = e
        BY <3>4, <3>5, <4>2
      <4>3. CASE f # e
        <5>1. \A q \in Requests : req[q] = f => q # r
          BY <4>3 DEF e
        <5> QED
          BY <2>2, <3>4, <3>5, <3>6, <4>1, <5>1
      <4> QED
        BY <4>2, <4>3
    <3> QED
      BY <3>7, <3>8, <3>9, <3>10, <3>11, <3>12 DEF PipeInv
  <2>5. CASE EnqueueFails(r)
    <3>1. /\ task' = task /\ acked' = acked /\ Fault(e)
      BY <2>5 DEF EnqueueFails, e
    <3>2. /\ e \in faulted' /\ faulted \subseteq faulted' /\ faulted' \subseteq Events
          /\ faults' \in 0..MaxFaults
      BY <1>0, <2>1, <3>1, FaultFacts
    <3>3. \A u \in Tasks : IsLive(u)' <=> IsLive(u)
      BY <3>1 DEF IsLive
    <3>4. PipelineTypeOK'
      BY <1>0, <2>1, <2>2, <3>1, <3>2 DEF PipelineTypeOK
    <3>5. LiveIsOpen' /\ RowsAreSane' /\ LiveIsUnique'
      BY <2>1, <2>2, <3>1, <3>2, <3>3 DEF PipeInv, LiveIsOpen, RowsAreSane, LiveIsUnique
    <3>6. RetriesAreMarked'
      BY <2>1, <3>1, <3>2 DEF PipeInv, RetriesAreMarked
    <3>7. FreshRowsAreInFlight'
      <4> SUFFICES ASSUME NEW f \in Events,
                          row[f].stored, ~row[f].processed, ~row[f].error
                   PROVE  \/ \E u \in Tasks : task'[u].event = f /\ IsLive(u)'
                          \/ \E q \in Requests : req'[q] = f
                          \/ f \in faulted'
        BY <2>1 DEF FreshRowsAreInFlight, InFlight, TaskOf, IsLive
      <4>1. \/ \E u \in Tasks : task[u].event = f /\ IsLive(u)
            \/ \E q \in Requests : req[q] = f
            \/ f \in faulted
        BY InFlightMeaning DEF PipeInv, FreshRowsAreInFlight
      <4>2. CASE f = e
        BY <3>2, <4>2
      <4>3. CASE f # e
        <5>1. \A q \in Requests : req[q] = f => q # r
          BY <4>3 DEF e
        <5> QED
          BY <2>2, <3>1, <3>2, <3>3, <4>1, <5>1
      <4> QED
        BY <4>2, <4>3
    <3> QED
      BY <3>4, <3>5, <3>6, <3>7 DEF PipeInv
  <2> QED
    BY <1>3, <2>4, <2>5
<1> QED
  BY <1>1, <1>2, <1>3 DEF Endpoint, Deliver

\* mark_processed and mark_failed: the row of the task's event gets an
\* outcome, or is left to a fault, and nothing else has a stake in that row.
LEMMA RowMarked ==
    ASSUME PipeInv, NEW t \in Tasks, IsLive(t),
           task' \in [Tasks -> TaskType], req' = req,
           \A u \in Tasks \ {t} : task'[u] = task[u],
           task'[t].event = task[t].event,
           row' \in [Events -> RowType],
           \A e \in Events \ {task[t].event} : row'[e] = row[e],
           row'[task[t].event].stored,
           \/ task[t].event \in faulted'
           \/ /\ row'[task[t].event].processed /\ ~row'[task[t].event].error
              /\ task'[t].stage = "ended"
           \/ /\ ~row'[task[t].event].processed /\ row'[task[t].event].error
              /\ task'[t].stage \in {"ended", "retrying"},
           faulted \subseteq faulted', faulted' \subseteq Events,
           acked' = acked, faults' \in 0..MaxFaults
    PROVE  PipeInv'
<1> DEFINE e == task[t].event
<1>0. e \in Events
  BY DEF PipeInv, LiveIsOpen
<1>1. PipelineTypeOK'
  BY DEF PipeInv, PipelineTypeOK, TaskType, Stages, RowType
<1>2. /\ \A u \in Tasks : /\ task'[u].event = task[u].event
                          /\ IsLive(u)' => IsLive(u)
                          /\ u # t /\ IsLive(u) => task[u].event # e
      /\ IsLive(t)' /\ row'[e].processed => e \in faulted'
      /\ \A r \in Requests : req[r] # e
  BY LiveStages DEF PipeInv, LiveIsUnique, IsLive
<1> HIDE DEF e
<1>3. LiveIsOpen'
  <2>1. ASSUME NEW u \in Tasks, IsLive(u)'
        PROVE  /\ task[u].event \in Events
               /\ row'[task[u].event].stored
               /\ row'[task[u].event].processed => task[u].event \in faulted'
    <3>1. CASE u = t
      BY <1>0, <1>2, <2>1, <3>1 DEF e
    <3>2. CASE u # t
      <4>1. /\ task[u].event \in Events
            /\ row[task[u].event].stored
            /\ row[task[u].event].processed => task[u].event \in faulted
            /\ task[u].event # e
        BY <1>2, <2>1, <3>2 DEF PipeInv, LiveIsOpen
      <4> QED
        BY <4>1 DEF e
    <3> QED
      BY <3>1, <3>2
  <2>2. ASSUME NEW r \in Requests, req[r] # NoEvent
        PROVE  row'[req[r]].stored /\ ~row'[req[r]].processed
    <3>1. req[r] \in Events /\ req[r] # e
      BY <1>2, <2>2 DEF PipeInv, PipelineTypeOK
    <3>2. row[req[r]].stored /\ ~row[req[r]].processed
      BY <2>2 DEF PipeInv, LiveIsOpen
    <3> QED
      BY <3>1, <3>2 DEF e
  <2> QED
    BY <1>2, <2>1, <2>2 DEF LiveIsOpen
<1>4. RowsAreSane'
  <2> SUFFICES ASSUME NEW f \in Events
               PROVE  /\ row'[f].processed \/ row'[f].error => row'[f].stored
                      /\ row'[f].processed /\ row'[f].error => f \in faulted'
    BY DEF RowsAreSane
  <2>1. CASE f = e
    BY <2>1 DEF e
  <2>2. CASE f # e
    BY <2>2 DEF e, PipeInv, RowsAreSane
  <2> QED
    BY <2>1, <2>2
<1>5. LiveIsUnique'
  BY <1>2 DEF PipeInv, LiveIsUnique
<1>6. RetriesAreMarked'
  <2> SUFFICES ASSUME NEW u \in Tasks, task'[u].stage = "retrying"
               PROVE  row'[task[u].event].error \/ task[u].event \in faulted'
    BY <1>2 DEF RetriesAreMarked
  <2>1. CASE u = t
    BY <2>1
  <2>2. CASE u # t
    <3>1. task[u].stage = "retrying" /\ IsLive(u)
      BY <2>2, LiveStages DEF IsLive
    <3>2. task[u].event \in Events /\ task[u].event # e
      BY <1>2, <2>2, <3>1 DEF PipeInv, LiveIsOpen
    <3> QED
      BY <3>1, <3>2 DEF e, PipeInv, RetriesAreMarked
  <2> QED
    BY <2>1, <2>2
<1>7. FreshRowsAreInFlight'
  <2> SUFFICES ASSUME NEW f \in Events,
                      row'[f].stored, ~row'[f].processed, ~row'[f].error,
                      f \notin faulted'
               PROVE  \/ \E u \in Tasks : task'[u].event = f /\ IsLive(u)'
                      \/ \E q \in Requests : req'[q] = f
    BY DEF FreshRowsAreInFlight, InFlight, TaskOf, IsLive
  <2>1. f # e
    BY DEF e
  <2>2. row[f].stored /\ ~row[f].processed /\ ~row[f].error
    BY <2>1 DEF e
  <2>3. \/ \E u \in Tasks : task[u].event = f /\ IsLive(u)
        \/ \E q \in Requests : req[q] = f
        \/ f \in faulted
    BY <2>2, InFlightMeaning DEF PipeInv, FreshRowsAreInFlight
  <2>4. ASSUME NEW u \in Tasks, task[u].event = f, IsLive(u)
        PROVE  task'[u].event = f /\ IsLive(u)'
    <3>1. u # t
      BY <2>1, <2>4 DEF e
    <3> QED
      BY <2>4, <3>1 DEF IsLive
  <2> QED
    BY <2>3, <2>4
<1> QED
  BY <1>1, <1>3, <1>4, <1>5, <1>6, <1>7 DEF PipeInv

\* Steps of a task, with any of the handler's outcomes.
LEMMA TaskKeeps ==
    ASSUME PipeInv, NEW t \in Tasks,
           \/ StartTask(t) \/ StartFails(t)
           \/ \E o \in Outcomes : Dispatched(t, o)
           \/ HandlerInterrupted(t) \/ Settle(t) \/ LoseTask(t)
    PROVE  PipeInv'
<1>0. PipelineTypeOK /\ Live \subseteq Stages /\ "ended" \in Stages
  BY DEF PipeInv, Stages
<1>1. task[t].stage \in Live => IsLive(t) /\ task[t].event \in Events
  BY DEF PipeInv, LiveIsOpen, IsLive
\* The stage the step goes to, when rows and faults stay as they are.
<1>2. ASSUME IsLive(t), NEW s \in Stages, Goto(t, s), NoFault,
             s \in Live \/ s = "ended",
             s \in {"ended", "retrying"} =>
                 row[task[t].event].error \/ task[t].event \in faulted,
             UNCHANGED <<row, req, acked>>
      PROVE  PipeInv'
  <2>1. faulted' = faulted /\ faults' = faults /\ row' = row /\ req' = req /\ acked' = acked
    BY <1>2 DEF NoFault
  <2>2. /\ task' \in [Tasks -> TaskType]
        /\ task'[t].stage = s /\ task'[t].event = task[t].event
        /\ \A u \in Tasks \ {t} : task'[u] = task[u]
    BY <1>0, <1>2, GotoFacts
  <2>3. IsLive(t)' \/ task'[t].stage = "ended"
    BY <1>2, <2>2 DEF IsLive
  <2>4. faulted' \subseteq Events /\ acked' \subseteq Events /\ faults' \in 0..MaxFaults
    BY <1>0, <2>1 DEF PipelineTypeOK
  <2> QED
    BY <1>2, <2>1, <2>2, <2>3, <2>4, TaskMoves
\* The same with a fault on the task's event.
<1>3. ASSUME IsLive(t), NEW s \in Stages, Goto(t, s), Fault(task[t].event),
             s \in Live \/ s = "ended",
             UNCHANGED <<row, req, acked>>
      PROVE  PipeInv'
  <2>1. row' = row /\ req' = req /\ acked' = acked
    BY <1>3
  <2>2. /\ task' \in [Tasks -> TaskType]
        /\ task'[t].stage = s /\ task'[t].event = task[t].event
        /\ \A u \in Tasks \ {t} : task'[u] = task[u]
    BY <1>0, <1>3, GotoFacts
  <2>3. IsLive(t)' \/ task'[t].stage = "ended"
    BY <1>3, <2>2 DEF IsLive
  <2>4. task[t].event \in Events
    BY <1>1, <1>3 DEF IsLive
  <2>5. /\ task[t].event \in faulted'
        /\ faulted \subseteq faulted' /\ faulted' \subseteq Events
        /\ faults' \in 0..MaxFaults /\ acked' \subseteq Events
    BY <1>0, <1>3, <2>1, <2>4, FaultFacts DEF PipelineTypeOK
  <2> QED
    BY <1>3, <2>1, <2>2, <2>3, <2>5, TaskMoves
\* The same with the row written before the connection was lost.
<1>14. ASSUME IsLive(t), NEW s \in Stages, Goto(t, s), Fault(task[t].event),
             row' \in {AsProcessed(task[t].event), AsFailed(task[t].event)},
             UNCHANGED <<req, acked>>
      PROVE  PipeInv'
  <2> DEFINE e == task[t].event
  <2>1. e \in Events /\ row[e].stored /\ req' = req /\ acked' = acked
    BY <1>14 DEF PipeInv, LiveIsOpen
  <2>2. /\ task' \in [Tasks -> TaskType]
        /\ task'[t].stage = s /\ task'[t].event = e
        /\ \A u \in Tasks \ {t} : task'[u] = task[u]
    BY <1>0, <1>14, GotoFacts
  <2>3. /\ e \in faulted' /\ faulted \subseteq faulted' /\ faulted' \subseteq Events
        /\ faults' \in 0..MaxFaults
    BY <1>0, <1>14, <2>1, FaultFacts
  <2>4. row \in [Events -> RowType]
    BY <1>0 DEF PipelineTypeOK, RowType
  <2>5. row' \in {AsProcessed(e), AsFailed(e)}
    BY <1>14
  <2> HIDE DEF e
  <2>6. /\ row' \in [Events -> RowType] /\ row'[e].stored
        /\ \A f \in Events \ {e} : row'[f] = row[f]
    <3>1. CASE row' = AsProcessed(e)
      BY <2>1, <2>4, <3>1 DEF RowType, AsProcessed
    <3>2. CASE row' = AsFailed(e)
      BY <2>1, <2>4, <3>2 DEF RowType, AsFailed
    <3> QED
      BY <2>5, <3>1, <3>2
  <2> QED
    BY <1>14, <2>1, <2>2, <2>3, <2>6, RowMarked DEF e
<1>4. CASE StartTask(t)
  <2>1. IsLive(t) /\ "dispatching" \in Live /\ Goto(t, "dispatching") /\ NoFault
        /\ UNCHANGED <<row, req, acked>>
    BY <1>1, <1>4, LiveStages DEF StartTask
  <2> QED
    BY <1>0, <1>2, <2>1
<1>5. CASE StartFails(t)
  <2>1. IsLive(t) /\ Goto(t, "ended") /\ Fault(task[t].event) /\ UNCHANGED <<row, req, acked>>
    BY <1>1, <1>5, LiveStages DEF StartFails
  <2> QED
    BY <1>0, <1>3, <2>1
<1>6. ASSUME NEW o \in Outcomes, Dispatched(t, o)
      PROVE  PipeInv'
  <2>1. IsLive(t) /\ o \in Live /\ o \notin {"ended", "retrying"} /\ Goto(t, o) /\ NoFault
        /\ UNCHANGED <<row, req, acked>>
    BY <1>1, <1>6, LiveStages DEF Dispatched, Outcomes, Failures
  <2> QED
    BY <1>0, <1>2, <2>1
<1>7. CASE HandlerInterrupted(t)
  <2>1. IsLive(t) /\ "transient" \in Live /\ Goto(t, "transient") /\ Fault(task[t].event)
        /\ UNCHANGED <<row, req, acked>>
    BY <1>1, <1>7, LiveStages DEF HandlerInterrupted
  <2> QED
    BY <1>0, <1>3, <2>1
<1>8. CASE MarkProcessedFails(t)
  <2>1. IsLive(t) /\ "transient" \in Live /\ Goto(t, "transient") /\ Fault(task[t].event)
        /\ row' \in {row, AsProcessed(task[t].event)} /\ UNCHANGED <<req, acked>>
    BY <1>1, <1>8, LiveStages DEF MarkProcessedFails
  <2>2. CASE row' = row
    BY <1>0, <1>3, <2>1, <2>2
  <2>3. CASE row' = AsProcessed(task[t].event)
    BY <1>0, <1>14, <2>1, <2>3
  <2> QED
    BY <2>1, <2>2, <2>3
<1>9. CASE MarkFailedFails(t)
  <2>1. IsLive(t) /\ "retrying" \in Live /\ Goto(t, "retrying") /\ Fault(task[t].event)
        /\ row' \in {row, AsFailed(task[t].event)} /\ UNCHANGED <<req, acked>>
    BY <1>1, <1>9, LiveStages DEF MarkFailedFails
  <2>2. CASE row' = row
    BY <1>0, <1>3, <2>1, <2>2
  <2>3. CASE row' = AsFailed(task[t].event)
    BY <1>0, <1>14, <2>1, <2>3
  <2> QED
    BY <2>1, <2>2, <2>3
<1>10. CASE LoseTask(t)
  <2>1. IsLive(t) /\ Goto(t, "ended") /\ Fault(task[t].event) /\ UNCHANGED <<row, req, acked>>
    BY <1>1, <1>10, LiveStages DEF LoseTask
  <2> QED
    BY <1>0, <1>3, <2>1
<1>11. CASE Retry(t)
  <2>1. /\ IsLive(t) /\ NoFault /\ UNCHANGED <<row, req, acked>>
        /\ row[task[t].event].error \/ task[t].event \in faulted
    BY <1>1, <1>11, LiveStages DEF Retry, PipeInv, RetriesAreMarked
  <2>2. CASE task[t].retries < MaxRetries
    <3>1. task' = [task EXCEPT ![t].stage = "queued", ![t].retries = task[t].retries + 1]
      BY <1>11, <2>2 DEF Retry
    <3>2. task \in [Tasks -> TaskType] /\ "queued" \in Stages
      BY <1>0, LiveStages DEF PipelineTypeOK, TaskType, Stages
    <3>3. task[t].retries + 1 \in 0..MaxRetries
      BY <2>2, <3>2, PipelineAssumption DEF TaskType
    <3>4. /\ task' \in [Tasks -> TaskType]
          /\ task'[t].stage = "queued" /\ task'[t].event = task[t].event
          /\ \A u \in Tasks \ {t} : task'[u] = task[u]
      BY <3>1, <3>2, <3>3 DEF TaskType
    <3>5. IsLive(t)'
      BY <3>4, LiveStages DEF IsLive
    <3>6. /\ faulted' = faulted /\ faults' = faults /\ row' = row /\ req' = req
          /\ faulted' \subseteq Events /\ acked' \subseteq Events /\ faults' \in 0..MaxFaults
      BY <1>0, <2>1 DEF NoFault, PipelineTypeOK
    <3> QED
      BY <2>1, <3>4, <3>5, <3>6, TaskMoves
  <2>3. CASE ~(task[t].retries < MaxRetries)
    <3>1. Goto(t, "ended")
      BY <1>11, <2>3 DEF Retry, Goto
    <3> QED
      BY <1>0, <1>2, <2>1, <3>1
  <2> QED
    BY <2>2, <2>3
<1>12. CASE MarkProcessed(t)
  <2> DEFINE e == task[t].event
  <2>1. /\ IsLive(t) /\ e \in Events /\ row[e].stored
        /\ Goto(t, "ended") /\ NoFault /\ req' = req /\ acked' = acked
        /\ row' = [row EXCEPT ![e].processed = TRUE, ![e].error = FALSE]
    BY <1>1, <1>12, LiveStages DEF MarkProcessed, AsProcessed, PipeInv, LiveIsOpen
  <2>2. /\ task' \in [Tasks -> TaskType]
        /\ task'[t].stage = "ended" /\ task'[t].event = e
        /\ \A u \in Tasks \ {t} : task'[u] = task[u]
    BY <1>0, <2>1, GotoFacts
  <2>3. row \in [Events -> RowType]
    BY <1>0 DEF PipelineTypeOK, RowType
  <2> HIDE DEF e
  <2>4. /\ row' \in [Events -> RowType]
        /\ row'[e].stored /\ row'[e].processed /\ ~row'[e].error
        /\ \A f \in Events \ {e} : row'[f] = row[f]
    BY <2>1, <2>3 DEF RowType
  <2>5. faulted' = faulted /\ faulted \subseteq Events /\ faults' \in 0..MaxFaults
    BY <1>0, <2>1 DEF NoFault, PipelineTypeOK
  <2> QED
    BY <2>1, <2>2, <2>4, <2>5, RowMarked DEF e
<1>13. CASE MarkFailed(t)
  <2> DEFINE e == task[t].event
             s == IF task[t].stage = "transient" THEN "retrying" ELSE "ended"
  <2>1. /\ IsLive(t) /\ e \in Events /\ row[e].stored /\ (row[e].processed => e \in faulted)
        /\ Goto(t, s) /\ NoFault /\ req' = req /\ acked' = acked
        /\ row' = [row EXCEPT ![e].error = TRUE]
    BY <1>1, <1>13, LiveStages DEF MarkFailed, AsFailed, PipeInv, LiveIsOpen
  <2>2. s \in Stages /\ s \in {"ended", "retrying"}
    BY <1>0, LiveStages
  <2> HIDE DEF s
  <2>3. /\ task' \in [Tasks -> TaskType]
        /\ task'[t].stage = s /\ task'[t].event = e
        /\ \A u \in Tasks \ {t} : task'[u] = task[u]
    BY <1>0, <2>1, <2>2, GotoFacts
  <2>4. row \in [Events -> RowType]
    BY <1>0 DEF PipelineTypeOK, RowType
  <2> HIDE DEF e
  <2>5. /\ row' \in [Events -> RowType]
        /\ row'[e].stored /\ (row'[e].processed => e \in faulted) /\ row'[e].error
        /\ \A f \in Events \ {e} : row'[f] = row[f]
    BY <2>1, <2>4 DEF RowType
  <2>6. faulted' = faulted /\ faulted \subseteq Events /\ faults' \in 0..MaxFaults
    BY <1>0, <2>1 DEF NoFault, PipelineTypeOK
  <2> QED
    BY <2>1, <2>2, <2>3, <2>5, <2>6, RowMarked DEF e
<1> QED
  BY <1>4, <1>5, <1>6, <1>7, <1>8, <1>9, <1>10, <1>11, <1>12, <1>13 DEF Settle

LEMMA PipeInvInit == PipelineInit => PipeInv
<1> SUFFICES ASSUME PipelineInit PROVE PipeInv
  OBVIOUS
<1> USE PipelineAssumption DEF PipelineInit
<1>1. PipelineTypeOK
  BY DEF PipelineTypeOK
<1>2. /\ \A t \in Tasks : ~IsLive(t) /\ task[t].stage # "retrying"
      /\ \A r \in Requests : req[r] = NoEvent
      /\ \A e \in Events : ~row[e].stored /\ ~row[e].processed /\ ~row[e].error
  BY LiveStages DEF IsLive
<1> QED
  BY <1>1, <1>2 DEF PipeInv, LiveIsOpen, RowsAreSane, LiveIsUnique, RetriesAreMarked,
                    FreshRowsAreInFlight

LEMMA PipeInvStep == PipeInv /\ [PipelineNext]_pipeVars => PipeInv'
<1> SUFFICES ASSUME PipeInv, [PipelineNext]_pipeVars PROVE PipeInv'
  OBVIOUS
<1>1. CASE Endpoint
  BY <1>1, EndpointKeeps
<1>2. ASSUME NEW t \in Tasks,
             \/ StartTask(t) \/ StartFails(t)
             \/ \E o \in Outcomes : Dispatched(t, o)
             \/ HandlerInterrupted(t) \/ Settle(t) \/ LoseTask(t)
      PROVE  PipeInv'
  BY <1>2, TaskKeeps
<1>3. CASE UNCHANGED pipeVars
  BY <1>3 DEF pipeVars, PipeInv, PipelineTypeOK, LiveIsOpen, RowsAreSane, LiveIsUnique,
              IsLive, RetriesAreMarked, FreshRowsAreInFlight, InFlight, TaskOf
<1> QED
  BY <1>1, <1>2, <1>3 DEF PipelineNext

LEMMA PipeInvHolds == PipelineSpec => []PipeInv
  BY PipeInvInit, PipeInvStep, PTL DEF PipelineSpec

\* Every variable of the pipeline keeps its type; in particular no task is
\* retried more often than max_retries allows.
THEOREM PipelineTypeCorrect == PipelineSpec => []PipelineTypeOK
<1>1. PipeInv => PipelineTypeOK
  BY DEF PipeInv
<1> QED
  BY <1>1, PipeInvHolds, PTL

\* However often and concurrently Stripe delivers an event, at most one task
\* for it is alive, and none beside a request that is still to enqueue it.
THEOREM OneTaskPerEventCorrect == PipelineSpec => []OneTaskPerEvent
  BY PipeInvMeaning, PipeInvHolds, PTL

\* A row with processed_at set is final, unless a fault has hit its event: no
\* error, nothing left to run.
THEOREM ProcessedIsFinalCorrect == PipelineSpec => []ProcessedIsFinal
  BY PipeInvMeaning, PipeInvHolds, PTL

\* A stored row without outcome is in flight unless a fault fell on it.
THEOREM FreshRowsAreInFlightCorrect == PipelineSpec => []FreshRowsAreInFlight
  BY PipeInvMeaning, PipeInvHolds, PTL

----------------------------------------------------------------------------
(* The composition implements the pipeline and the ledger.                 *)

\* Every step of the fulfilment is a step of the pipeline or invisible to it.
LEMMA FulfilmentStepsPipeline == [Next]_vars => [PipelineNext]_pipeVars
<1> SUFFICES ASSUME [Next]_vars PROVE [PipelineNext]_pipeVars
  OBVIOUS
<1>1. CASE Endpoint
  BY <1>1 DEF PipelineNext
<1>2. ASSUME NEW t \in Tasks, StartTask(t) \/ StartFails(t) \/ Settle(t)
      PROVE  [PipelineNext]_pipeVars
  BY <1>2 DEF PipelineNext
<1>3. ASSUME NEW t \in Tasks, NEW o \in Outcomes, Dispatched(t, o)
      PROVE  [PipelineNext]_pipeVars
  BY <1>3 DEF PipelineNext
<1>4. ASSUME NEW t \in Tasks, HandlerInterrupted(t) \/ LoseTask(t)
      PROVE  [PipelineNext]_pipeVars
  BY <1>4 DEF PipelineNext
<1>5. "ok" \in Outcomes /\ \A x : OutcomeOf(x) \in Outcomes
  BY DEF OutcomeOf, Outcomes, Failures
<1>6. ASSUME NEW t \in Tasks, Handle(t) \/ LedgerInterrupted(t) \/ WorkerDies(t)
      PROVE  [PipelineNext]_pipeVars
  BY <1>3, <1>4, <1>5, <1>6
     DEF Handle, IgnoreIncomplete, CallLedger, LedgerStep, LedgerReturns,
         LedgerInterrupted, WorkerDies
<1>7. CASE UNCHANGED vars
  BY <1>7 DEF vars, pipeVars
<1> QED
  BY <1>1, <1>2, <1>6, <1>7 DEF Next

\* Every step of the fulfilment is a step of the ledger or invisible to it:
\* a task that runs its handler is about a real event, hence a real session.
LEMMA FulfilmentStepsLedger ==
    PipeInv /\ [Next]_vars => [LedgerNext]_ledgerVars
<1> SUFFICES ASSUME PipeInv, [Next]_vars PROVE [LedgerNext]_ledgerVars
  OBVIOUS
<1> USE FulfilmentAssumption
<1>1. ASSUME NEW t \in Tasks, CallLedger(t)
      PROVE  [LedgerNext]_ledgerVars
  <2>1. task[t].event \in Events
    BY <1>1, LiveStages DEF CallLedger, PipeInv, LiveIsOpen, IsLive
  <2> QED
    BY <1>1, <2>1 DEF CallLedger, LedgerNext
<1>2. ASSUME NEW t \in Tasks, LedgerStep(t) \/ LedgerReturns(t)
      PROVE  [LedgerNext]_ledgerVars
  BY <1>2 DEF LedgerStep, LedgerReturns, LedgerNext, Step
<1>3. ASSUME NEW t \in Tasks, LedgerInterrupted(t) \/ WorkerDies(t)
      PROVE  [LedgerNext]_ledgerVars
  BY <1>3 DEF LedgerInterrupted, WorkerDies, LedgerNext
<1>4. ASSUME NEW o \in Owners, DeleteOwner(o)
      PROVE  [LedgerNext]_ledgerVars
  BY <1>4 DEF LedgerNext
<1>5. CASE UNCHANGED vars
  BY <1>5 DEF vars, ledgerVars
<1>6. CASE \E t \in Tasks : IgnoreIncomplete(t)
  BY <1>6 DEF IgnoreIncomplete
<1> QED
  BY <1>1, <1>2, <1>3, <1>4, <1>5, <1>6 DEF Next, Handle

\* The fulfilment of product checkouts implements the webhook pipeline, for
\* which the handler is a black box with four outcomes.
THEOREM FulfilmentImplementsPipeline == Spec => PipelineSpec
<1>1. Init => PipelineInit
  BY DEF Init
<1> QED
  BY <1>1, FulfilmentStepsPipeline, PTL DEF Spec, PipelineSpec

\* ... and the credit ledger, whose processes are the Celery tasks.
THEOREM FulfilmentImplementsLedger == Spec => LedgerSpec
<1>1. Init => LedgerInit
  BY DEF Init
<1> QED
  BY <1>1, FulfilmentImplementsPipeline, PipeInvHolds, FulfilmentStepsLedger, PTL
     DEF Spec, LedgerSpec

\* Every variable of the composition keeps its type.
THEOREM FulfilmentTypeCorrect == Spec => []TypeOK
<1>1. PipelineTypeOK /\ LedgerTypeOK => TypeOK
  BY DEF TypeOK
<1> QED
  BY <1>1, FulfilmentImplementsPipeline, FulfilmentImplementsLedger,
     PipelineTypeCorrect, LedgerTypeCorrect, PTL

\* However events, retries and workers interleave, a session is granted at
\* most once and in one step.
THEOREM GrantsOnceCorrect == Spec => GrantsOnce
  BY FulfilmentImplementsLedger, LedgerImplementsPromise, PTL
     DEF GrantsOnce, ImplementsPromise

----------------------------------------------------------------------------
(* What a row of the pipeline says about the ledger.                       *)

\* Nothing is owed for the session any more.
Fulfilled(s) ==
    s \in ledger \/ s \notin Complete \/ CreditsOf[s] = 0 \/ OwnerOf[s] \notin owners

\* The session is not granted and never will be: the owner is gone, or the
\* balance, which only grows while the owner stays, has no room for it.
Barred(s) ==
    /\ s \notin ledger
    /\ \/ OwnerOf[s] \notin owners
       \/ balance[OwnerOf[s]] + CreditsOf[s] > MaxBalance

\* What holds of task t: the ledger works on the task's session while the
\* handler runs, and a result or outcome means what it says.
TaskMeaning(t) ==
    LET s == SessionOf[task[t].event]
    IN  /\ pc[t] # "idle" =>
              task[t].stage = "dispatching" /\ sess[t] = s /\ s \in Complete
        /\ pc[t] \in {"granted", "duplicate", "skipped"} => Fulfilled(s)
        /\ pc[t] = "failed" => Barred(s)
        /\ task[t].stage = "ok" => Fulfilled(s)
        /\ task[t].stage = "unexpected" => Barred(s)
        /\ task[t].stage \in {"transient", "data_error"} => task[t].event \in faulted

\* What holds of row e.
RowMeaning(e) ==
    /\ row[e].processed => Fulfilled(SessionOf[e])
    /\ row[e].error => e \in faulted \/ Barred(SessionOf[e])

MeaningInv ==
    /\ \A t \in Tasks : TaskMeaning(t)
    /\ \A e \in Events : RowMeaning(e)

\* Being fulfilled and being barred are for ever, by what CreditPromise allows.
LEMMA VerdictsStand ==
    ASSUME LedgerTypeOK, [Promise!Next]_Promise!vars, NEW s \in Sessions
    PROVE  /\ Fulfilled(s) => Fulfilled(s)'
           /\ Barred(s) => Barred(s)'
<1> USE LedgerAssumption DEF LedgerTypeOK, Fulfilled, Barred
<1>1. ASSUME NEW x \in Sessions, Promise!Grant(x)
      PROVE  /\ Fulfilled(s) => Fulfilled(s)'
             /\ Barred(s) => Barred(s)'
  <2>1. /\ x \notin ledger /\ OwnerOf[x] \in owners /\ CreditsOf[x] > 0
        /\ balance[OwnerOf[x]] + CreditsOf[x] <= MaxBalance
        /\ ledger' = ledger \cup {x} /\ owners' = owners
        /\ balance' = [balance EXCEPT ![OwnerOf[x]] = balance[OwnerOf[x]] + CreditsOf[x]]
    BY <1>1 DEF Promise!Grant
  <2>2. /\ \A o \in Owners : balance[o] \in Nat /\ balance'[o] \in Nat /\ balance'[o] >= balance[o]
        /\ OwnerOf[s] \in Owners /\ CreditsOf[s] \in Nat
    BY <2>1
  <2>3. Fulfilled(s) => Fulfilled(s)'
    BY <2>1
  <2>4. ASSUME Barred(s)
        PROVE  Barred(s)'
    <3>1. s # x
      BY <2>1, <2>4
    <3> QED
      BY <2>1, <2>2, <2>4, <3>1
  <2> QED
    BY <2>3, <2>4
<1>2. ASSUME NEW o \in Owners, Promise!Forget(o)
      PROVE  /\ Fulfilled(s) => Fulfilled(s)'
             /\ Barred(s) => Barred(s)'
  <2>1. /\ owners' = owners \ {o} /\ ledger' = {x \in ledger : OwnerOf[x] # o}
        /\ balance' = [balance EXCEPT ![o] = 0]
    BY <1>2 DEF Promise!Forget
  <2> QED
    BY <2>1
<1>3. CASE UNCHANGED Promise!vars
  BY <1>3 DEF Promise!vars
<1> QED
  BY <1>1, <1>2, <1>3 DEF Promise!Next

\* A session of a live task, or of any event, is a session.
LEMMA SessionOfLive ==
    ASSUME PipeInv
    PROVE  /\ \A e \in Events : SessionOf[e] \in Sessions
           /\ \A t \in Tasks : IsLive(t) => SessionOf[task[t].event] \in Sessions
  BY FulfilmentAssumption DEF PipeInv, LiveIsOpen

\* A task that does not move keeps its meaning.
LEMMA TaskKept ==
    ASSUME PipeInv, LedgerTypeOK, [Promise!Next]_Promise!vars, faulted \subseteq faulted',
           NEW t \in Tasks, TaskMeaning(t),
           task'[t] = task[t], pc'[t] = pc[t], sess'[t] = sess[t]
    PROVE  TaskMeaning(t)'
<1>0. PICK s : s = SessionOf[task[t].event]
  OBVIOUS
<1>1. SessionOf[task'[t].event] = s
  BY <1>0
<1>2. task[t].stage \in {"dispatching", "ok", "unexpected"} => s \in Sessions
  BY <1>0, SessionOfLive, LiveStages DEF IsLive, Outcomes, Failures
<1>3. s \in Sessions => /\ Fulfilled(s) => Fulfilled(s)'
                        /\ Barred(s) => Barred(s)'
  BY VerdictsStand
<1>4. /\ pc[t] # "idle" => task[t].stage = "dispatching" /\ sess[t] = s /\ s \in Complete
      /\ pc[t] \in {"granted", "duplicate", "skipped"} => Fulfilled(s)
      /\ pc[t] = "failed" => Barred(s)
      /\ task[t].stage = "ok" => Fulfilled(s)
      /\ task[t].stage = "unexpected" => Barred(s)
      /\ task[t].stage \in {"transient", "data_error"} => task[t].event \in faulted
  BY <1>0 DEF TaskMeaning
<1>5. /\ pc'[t] # "idle" => task'[t].stage = "dispatching" /\ sess'[t] = s /\ s \in Complete
      /\ pc'[t] \in {"granted", "duplicate", "skipped"} => Fulfilled(s)'
      /\ pc'[t] = "failed" => Barred(s)'
      /\ task'[t].stage = "ok" => Fulfilled(s)'
      /\ task'[t].stage = "unexpected" => Barred(s)'
      /\ task'[t].stage \in {"transient", "data_error"} => task'[t].event \in faulted'
  BY <1>2, <1>3, <1>4
<1> QED
  BY <1>1, <1>5 DEF TaskMeaning, Fulfilled, Barred

\* A row whose outcome does not change keeps its meaning.
LEMMA RowKept ==
    ASSUME PipeInv, LedgerTypeOK, [Promise!Next]_Promise!vars, faulted \subseteq faulted',
           NEW e \in Events, RowMeaning(e),
           row'[e].processed => row[e].processed, row'[e].error => row[e].error
    PROVE  RowMeaning(e)'
<1>0. PICK s \in Sessions : s = SessionOf[e]
  BY SessionOfLive
<1>1. /\ Fulfilled(s) => Fulfilled(s)'
      /\ Barred(s) => Barred(s)'
  BY VerdictsStand
<1>2. /\ row[e].processed => Fulfilled(s)
      /\ row[e].error => e \in faulted \/ Barred(s)
  BY <1>0 DEF RowMeaning
<1>3. /\ row'[e].processed => Fulfilled(s)'
      /\ row'[e].error => e \in faulted' \/ Barred(s)'
  BY <1>1, <1>2
<1> QED
  BY <1>0, <1>3 DEF RowMeaning, Fulfilled, Barred

\* A task outside the callback and without an outcome means nothing yet.
LEMMA IdleTask ==
    ASSUME NEW t \in Tasks, pc'[t] = "idle",
           task'[t].stage \in {"unused", "queued", "dispatching", "retrying", "ended"}
    PROVE  TaskMeaning(t)'
  BY DEF TaskMeaning

\* The state before a step, with everything known of it and of the step.
Before ==
    /\ PipeInv /\ LedgerTypeOK /\ LocksProtectGrants /\ MeaningInv
    /\ [Promise!Next]_Promise!vars

\* One task moves, no row changes its outcome.
LEMMA OneTaskMoves ==
    ASSUME Before, faulted \subseteq faulted', NEW t \in Tasks, TaskMeaning(t)',
           \A u \in Tasks \ {t} : task'[u] = task[u] /\ pc'[u] = pc[u] /\ sess'[u] = sess[u],
           \A e \in Events : /\ row'[e].processed => row[e].processed
                             /\ row'[e].error => row[e].error
    PROVE  MeaningInv'
<1>1. \A u \in Tasks \ {t} : TaskMeaning(u)'
  BY TaskKept DEF Before, MeaningInv
<1>2. \A e \in Events : RowMeaning(e)'
  BY RowKept DEF Before, MeaningInv
<1> QED
  BY <1>1, <1>2 DEF MeaningInv

\* No task moves, no row changes its outcome.
LEMMA NoTaskMoves ==
    ASSUME Before, faulted \subseteq faulted',
           \A u \in Tasks : task'[u] = task[u] /\ pc'[u] = pc[u] /\ sess'[u] = sess[u],
           \A e \in Events : /\ row'[e].processed => row[e].processed
                             /\ row'[e].error => row[e].error
    PROVE  MeaningInv'
<1>1. \A u \in Tasks : TaskMeaning(u)'
  BY TaskKept DEF Before, MeaningInv
<1>2. \A e \in Events : RowMeaning(e)'
  BY RowKept DEF Before, MeaningInv
<1> QED
  BY <1>1, <1>2 DEF MeaningInv

\* What TaskMeaning says before a step, of a session with a name of its own.
LEMMA MeaningOf ==
    ASSUME MeaningInv, NEW t \in Tasks
    PROVE  \E s : /\ s = SessionOf[task[t].event]
                  /\ pc[t] # "idle" =>
                         task[t].stage = "dispatching" /\ sess[t] = s /\ s \in Complete
                  /\ pc[t] \in {"granted", "duplicate", "skipped"} => Fulfilled(s)
                  /\ pc[t] = "failed" => Barred(s)
                  /\ task[t].stage = "ok" => Fulfilled(s)
                  /\ task[t].stage = "unexpected" => Barred(s)
                  /\ task[t].stage \in {"transient", "data_error"} => task[t].event \in faulted
  BY DEF MeaningInv, TaskMeaning

\* The steps of the endpoint, where no handler is involved.
LEMMA EndpointMeaning ==
    ASSUME Before, Endpoint, UNCHANGED ledgerVars
    PROVE  MeaningInv'
<1> USE PipelineAssumption
<1>0. PipeInv /\ PipelineTypeOK /\ row \in [Events -> RowType]
  BY DEF Before, PipeInv, PipelineTypeOK, RowType
<1>1. pc' = pc /\ sess' = sess
  BY DEF ledgerVars
<1>2. ASSUME NEW e \in Events, DropMismatched(e) \/ SkipDuplicate(e)
      PROVE  MeaningInv'
  <2>1. row' = row /\ task' = task /\ faulted' = faulted
    BY <1>2 DEF DropMismatched, SkipDuplicate, NoFault
  <2> QED
    BY <1>1, <2>1, NoTaskMoves
<1>3. ASSUME NEW e \in Events, NEW r \in Requests, StoreEvent(r, e)
      PROVE  MeaningInv'
  <2>1. /\ task' = task /\ faulted' = faulted
        /\ row' = [row EXCEPT ![e].stored = TRUE]
    BY <1>3 DEF StoreEvent, NoFault
  <2>2. \A f \in Events : /\ row'[f].processed => row[f].processed
                          /\ row'[f].error => row[f].error
    BY <1>0, <2>1 DEF RowType
  <2> QED
    BY <1>1, <2>1, <2>2, NoTaskMoves
<1>4. ASSUME NEW r \in Requests, EnqueueFails(r)
      PROVE  MeaningInv'
  <2>1. row' = row /\ task' = task /\ faulted \subseteq faulted'
    BY <1>4 DEF EnqueueFails, Fault
  <2> QED
    BY <1>1, <2>1, NoTaskMoves
<1>5. ASSUME NEW r \in Requests, Enqueue(r)
      PROVE  MeaningInv'
  <2>1. row' = row /\ faulted' = faulted
    BY <1>5 DEF Enqueue, NoFault
  <2>2. PICK t \in Tasks :
            /\ task[t].stage = "unused"
            /\ task' = [task EXCEPT ![t].stage = "queued", ![t].event = req[r]]
    BY <1>5 DEF Enqueue
  <2>3. task \in [Tasks -> TaskType]
    BY <1>0 DEF PipelineTypeOK, TaskType, Stages
  <2>4. task'[t].stage = "queued" /\ \A u \in Tasks \ {t} : task'[u] = task[u]
    BY <2>2, <2>3 DEF TaskType
  <2>5. pc'[t] = "idle"
    BY <1>1, <2>2, MeaningOf DEF Before
  <2>6. TaskMeaning(t)'
    BY <2>4, <2>5, IdleTask
  <2> QED
    BY <1>1, <2>1, <2>4, <2>6, OneTaskMoves
<1> QED
  BY <1>2, <1>3, <1>4, <1>5 DEF Endpoint, Deliver

\* Starting a task and settling its outcome, outside the callback.
LEMMA SettleMeaning ==
    ASSUME Before, NEW t \in Tasks, StartTask(t) \/ StartFails(t) \/ Settle(t),
           UNCHANGED ledgerVars
    PROVE  MeaningInv'
<1> USE PipelineAssumption
<1>0. PipeInv /\ PipelineTypeOK /\ row \in [Events -> RowType]
  BY DEF Before, PipeInv, PipelineTypeOK, RowType
<1>1. pc' = pc /\ sess' = sess
  BY DEF ledgerVars
<1>2. PICK s : /\ s = SessionOf[task[t].event]
               /\ pc[t] # "idle" => task[t].stage = "dispatching"
               /\ task[t].stage = "ok" => Fulfilled(s)
               /\ task[t].stage = "unexpected" => Barred(s)
               /\ task[t].stage \in {"transient", "data_error"} => task[t].event \in faulted
  BY MeaningOf DEF Before
<1>3. ASSUME task[t].stage # "dispatching",
             NEW g \in Stages, Goto(t, g), g \in {"dispatching", "retrying", "ended"},
             row' = row, faulted \subseteq faulted'
      PROVE  MeaningInv'
  <2>1. task'[t].stage = g /\ \A u \in Tasks \ {t} : task'[u] = task[u]
    BY <1>0, <1>3, GotoFacts
  <2>2. TaskMeaning(t)'
    BY <1>1, <1>2, <1>3, <2>1, IdleTask
  <2> QED
    BY <1>1, <1>3, <2>1, <2>2, OneTaskMoves
<1>4. {"dispatching", "retrying", "ended", "transient"} \subseteq Stages
  BY LiveStages DEF Stages
<1>5. CASE StartTask(t)
  BY <1>3, <1>4, <1>5 DEF StartTask, NoFault
<1>6. CASE StartFails(t)
  BY <1>3, <1>4, <1>6 DEF StartFails, Fault
<1>8. CASE Retry(t)
  <2>1. /\ task[t].stage = "retrying" /\ row' = row /\ faulted' = faulted
    BY <1>8 DEF Retry, NoFault
  <2>2. task \in [Tasks -> TaskType]
    BY <1>0 DEF PipelineTypeOK, TaskType, Stages
  <2>3. /\ task'[t].stage \in {"queued", "ended"}
        /\ \A u \in Tasks \ {t} : task'[u] = task[u]
    BY <1>8, <2>2 DEF Retry, TaskType
  <2>4. TaskMeaning(t)'
    BY <1>1, <1>2, <2>1, <2>3, IdleTask
  <2> QED
    BY <1>1, <2>1, <2>3, <2>4, OneTaskMoves
\* Those that write the row, or try to: the outcome of the task is what the row
\* says, if it says anything new.
<1>10. ASSUME MarkProcessed(t) \/ MarkFailed(t) \/ MarkProcessedFails(t) \/ MarkFailedFails(t)
       PROVE  MeaningInv'
  <2>1. PICK e : e = task[t].event
    OBVIOUS
  <2>2. PICK g \in Stages : /\ g \in {"retrying", "ended", "transient"} /\ Goto(t, g)
                            /\ g = "transient" => e \in faulted'
    BY <1>4, <1>10, <2>1 DEF MarkProcessed, MarkFailed, MarkProcessedFails, MarkFailedFails, Fault
  <2>3. /\ task[t].stage \in {"ok"} \cup Failures /\ faulted \subseteq faulted'
    BY <1>10 DEF MarkProcessed, MarkFailed, MarkProcessedFails, MarkFailedFails, Fault, NoFault
  <2>4. /\ task'[t].stage = g /\ task'[t].event = e
        /\ \A u \in Tasks \ {t} : task'[u] = task[u]
    BY <1>0, <2>1, <2>2, GotoFacts
  <2>5. TaskMeaning(t)'
    <3>1. pc'[t] = "idle"
      BY <1>1, <1>2, <2>3 DEF Failures
    <3> QED
      BY <2>2, <2>4, <3>1 DEF TaskMeaning
  <2>6. e \in Events /\ s \in Sessions /\ s = SessionOf[e]
    BY <1>0, <1>2, <2>1, <2>3, LiveStages, SessionOfLive DEF PipeInv, LiveIsOpen, IsLive
  <2>7. /\ Fulfilled(s) => Fulfilled(s)'
        /\ Barred(s) => Barred(s)'
    BY <2>6, VerdictsStand DEF Before
  <2>8. \/ row' = [row EXCEPT ![e].processed = TRUE, ![e].error = FALSE] /\ task[t].stage = "ok"
        \/ row' = [row EXCEPT ![e].error = TRUE] /\ task[t].stage \in Failures
        \/ row' = row
    BY <1>10, <2>1 DEF MarkProcessed, MarkFailed, MarkProcessedFails, MarkFailedFails, AsProcessed,
         AsFailed
  <2>9. /\ \A f \in Events \ {e} : row'[f] = row[f]
        /\ row'[e].processed => row[e].processed \/ task[t].stage = "ok"
        /\ row'[e].error => row[e].error \/ task[t].stage \in Failures
    BY <1>0, <2>6, <2>8 DEF RowType
  <2>10. /\ row[e].processed => Fulfilled(s)
         /\ row[e].error => e \in faulted \/ Barred(s)
    BY <2>6 DEF Before, MeaningInv, RowMeaning
  <2>11. /\ row'[e].processed => Fulfilled(s)'
         /\ row'[e].error => e \in faulted' \/ Barred(s)'
    BY <1>2, <2>1, <2>3, <2>7, <2>9, <2>10 DEF Failures
  <2>12. RowMeaning(e)'
    BY <2>6, <2>11 DEF RowMeaning, Fulfilled, Barred
  <2>13. \A f \in Events \ {e} : RowMeaning(f)'
    BY <2>3, <2>9, RowKept DEF Before, MeaningInv
  <2>14. \A u \in Tasks \ {t} : TaskMeaning(u)'
    BY <1>1, <2>3, <2>4, TaskKept DEF Before, MeaningInv
  <2> QED
    BY <2>5, <2>12, <2>13, <2>14 DEF MeaningInv
<1> QED
  BY <1>5, <1>6, <1>8, <1>10 DEF Settle

\* The handler's steps: entering the callback, its statements, its result.
LEMMA HandleMeaning ==
    ASSUME Before, NEW t \in Tasks,
           Handle(t) \/ LedgerInterrupted(t) \/ WorkerDies(t)
    PROVE  MeaningInv'
<1> USE FulfilmentAssumption, LedgerAssumption
<1>0. /\ PipeInv /\ PipelineTypeOK /\ LedgerTypeOK /\ LocksProtectGrants
  BY DEF Before, PipeInv
<1>1. PICK s : /\ s = SessionOf[task[t].event]
               /\ pc[t] # "idle" =>
                      task[t].stage = "dispatching" /\ sess[t] = s /\ s \in Complete
               /\ pc[t] \in {"granted", "duplicate", "skipped"} => Fulfilled(s)
               /\ pc[t] = "failed" => Barred(s)
  BY MeaningOf DEF Before
<1>2. task[t].stage = "dispatching" => s \in Sessions
  BY <1>0, <1>1, SessionOfLive, LiveStages DEF IsLive
<1>3. s \in Sessions => /\ Fulfilled(s) => Fulfilled(s)'
                        /\ Barred(s) => Barred(s)'
  BY <1>0, VerdictsStand DEF Before
<1>4. {"ok", "unexpected", "transient", "ended"} \subseteq Stages
  BY LiveStages DEF Stages, Outcomes, Failures
<1>5. CASE IgnoreIncomplete(t)
  <2>1. /\ task[t].stage = "dispatching" /\ s \notin Complete /\ pc[t] = "idle"
        /\ Goto(t, "ok") /\ row' = row /\ faulted' = faulted /\ pc' = pc /\ sess' = sess
    BY <1>1, <1>5 DEF IgnoreIncomplete, Dispatched, NoFault, ledgerVars
  <2>2. /\ task'[t].stage = "ok" /\ task'[t].event = task[t].event
        /\ \A u \in Tasks \ {t} : task'[u] = task[u]
    BY <1>0, <1>4, <2>1, GotoFacts
  <2>3. TaskMeaning(t)'
    BY <1>1, <2>1, <2>2 DEF TaskMeaning, Fulfilled
  <2> QED
    BY <2>1, <2>2, <2>3, OneTaskMoves
<1>6. CASE CallLedger(t)
  <2>1. /\ task[t].stage = "dispatching" /\ s \in Complete
        /\ pc' = [pc EXCEPT ![t] = "lookup"] /\ sess' = [sess EXCEPT ![t] = s]
        /\ task' = task /\ row' = row /\ faulted' = faulted
    BY <1>1, <1>6 DEF CallLedger, Begin, pipeVars
  <2>2. /\ pc'[t] = "lookup" /\ sess'[t] = s
        /\ \A u \in Tasks \ {t} : pc'[u] = pc[u] /\ sess'[u] = sess[u]
    BY <1>0, <2>1 DEF LedgerTypeOK
  <2>3. TaskMeaning(t)'
    BY <1>1, <2>1, <2>2 DEF TaskMeaning
  <2> QED
    BY <2>1, <2>2, <2>3, OneTaskMoves
\* The statements of the transaction: the result a statement ends with.
<1>7. ASSUME pc[t] # "idle", UNCHANGED pipeVars, sess' = sess,
             NEW l, pc' = [pc EXCEPT ![t] = l],
             l \in {"granted", "duplicate", "skipped"} => Fulfilled(s)',
             l = "failed" => Barred(s)'
      PROVE  MeaningInv'
  <2>1. task' = task /\ row' = row /\ faulted' = faulted
    BY <1>7 DEF pipeVars
  <2>2. pc'[t] = l /\ \A u \in Tasks \ {t} : pc'[u] = pc[u]
    BY <1>0, <1>7 DEF LedgerTypeOK
  <2>3. TaskMeaning(t)'
    BY <1>1, <1>7, <2>1, <2>2 DEF TaskMeaning, Fulfilled, Barred
  <2> QED
    BY <1>7, <2>1, <2>2, <2>3, OneTaskMoves
<1>8. CASE Lookup(t) /\ UNCHANGED pipeVars
  <2>1. /\ pc[t] # "idle" /\ sess[t] = s /\ s \in Sessions /\ sess' = sess
        /\ owners' = owners /\ ledger' = ledger
    BY <1>1, <1>2, <1>8 DEF Lookup, dbVars
  <2>2. CASE CreditsOf[s] > 0 /\ OwnerOf[s] \in owners
    BY <1>7, <1>8, <2>1, <2>2 DEF Lookup
  <2>3. CASE ~(CreditsOf[s] > 0 /\ OwnerOf[s] \in owners)
    <3>1. Fulfilled(s)'
      BY <2>1, <2>3 DEF Fulfilled
    <3>2. pc' = [pc EXCEPT ![t] = "skipped"]
      BY <1>8, <2>1, <2>3 DEF Lookup
    <3> QED
      BY <1>7, <1>8, <2>1, <3>1, <3>2
  <2> QED
    BY <2>2, <2>3
<1>9. CASE Insert(t) /\ UNCHANGED pipeVars
  <2>1. /\ pc[t] # "idle" /\ sess[t] = s /\ sess' = sess /\ ledger' = ledger
    BY <1>1, <1>9 DEF Insert, dbVars
  <2>2. CASE s \in ledger
    <3>1. Fulfilled(s)'
      BY <2>1, <2>2 DEF Fulfilled
    <3>2. pc' = [pc EXCEPT ![t] = "duplicate"]
      BY <1>9, <2>1, <2>2 DEF Insert
    <3> QED
      BY <1>7, <1>9, <2>1, <3>1, <3>2
  <2>3. CASE s \notin ledger
    BY <1>7, <1>9, <2>1, <2>3 DEF Insert
  <2> QED
    BY <2>2, <2>3
<1>10. CASE Lock(t) /\ UNCHANGED pipeVars
  BY <1>7, <1>10 DEF Lock
<1>11. CASE Save(t) /\ UNCHANGED pipeVars
  <2>1. pc[t] = "save" /\ sess[t] = s /\ s \in Sessions /\ sess' = sess /\ owners' = owners
    BY <1>1, <1>2, <1>11 DEF Save
  <2>2. s \notin ledger /\ read[t] = balance[OwnerOf[s]]
    BY <1>0, <2>1 DEF LocksProtectGrants
  <2>3. CASE /\ ledger' = ledger \cup {s}
             /\ pc' = [pc EXCEPT ![t] = "granted"]
    BY <1>7, <1>11, <2>1, <2>3 DEF Fulfilled
  <2>4. CASE /\ OwnerOf[s] \notin owners \/ read[t] + CreditsOf[s] > MaxBalance
             /\ pc' = [pc EXCEPT ![t] = "failed"]
             /\ UNCHANGED <<ledger, balance>>
    <3>1. Barred(s)'
      BY <2>1, <2>2, <2>4 DEF Barred
    <3> QED
      BY <1>7, <1>11, <2>1, <2>4, <3>1
  <2> QED
    BY <1>11, <2>1, <2>3, <2>4 DEF Save
<1>12. CASE LedgerReturns(t)
  <2>1. /\ pc[t] \in Returned /\ task[t].stage = "dispatching"
        /\ pc' = [pc EXCEPT ![t] = "idle"] /\ sess' = sess
        /\ Goto(t, OutcomeOf(pc[t])) /\ row' = row /\ faulted' = faulted
    BY <1>12 DEF LedgerReturns, Return, Dispatched, NoFault
  <2>2. PICK o \in {"ok", "unexpected"} :
            /\ o = OutcomeOf(pc[t])
            /\ o = "ok" => Fulfilled(s)
            /\ o = "unexpected" => Barred(s)
    BY <1>1, <2>1 DEF OutcomeOf, Returned
  <2>3. /\ task'[t].stage = o /\ task'[t].event = task[t].event
        /\ \A u \in Tasks \ {t} : task'[u] = task[u]
    BY <1>0, <1>4, <2>1, <2>2, GotoFacts
  <2>4. pc'[t] = "idle" /\ \A u \in Tasks \ {t} : pc'[u] = pc[u]
    BY <1>0, <2>1 DEF LedgerTypeOK
  <2>5. /\ o = "ok" => Fulfilled(s)'
        /\ o = "unexpected" => Barred(s)'
    BY <1>2, <1>3, <2>1, <2>2
  <2>6. TaskMeaning(t)'
    BY <1>1, <2>2, <2>3, <2>4, <2>5 DEF TaskMeaning, Fulfilled, Barred
  <2> QED
    BY <2>1, <2>3, <2>4, <2>6, OneTaskMoves
<1>13. CASE LedgerInterrupted(t)
  <2>1. /\ pc' = [pc EXCEPT ![t] = "idle"] /\ sess' = sess
        /\ Goto(t, "transient") /\ row' = row /\ faulted' = faulted \cup {task[t].event}
    BY <1>13 DEF LedgerInterrupted, HandlerInterrupted, Fault, Abort
  <2>2. /\ task'[t].stage = "transient" /\ task'[t].event = task[t].event
        /\ \A u \in Tasks \ {t} : task'[u] = task[u]
    BY <1>0, <1>4, <2>1, GotoFacts
  <2>3. pc'[t] = "idle" /\ \A u \in Tasks \ {t} : pc'[u] = pc[u]
    BY <1>0, <2>1 DEF LedgerTypeOK
  <2>4. TaskMeaning(t)'
    BY <2>1, <2>2, <2>3 DEF TaskMeaning
  <2> QED
    BY <2>1, <2>2, <2>3, <2>4, OneTaskMoves
<1>14. CASE WorkerDies(t)
  <2>1. /\ Goto(t, "ended") /\ row' = row /\ faulted \subseteq faulted' /\ sess' = sess
        /\ (pc' = pc /\ pc[t] = "idle") \/ pc' = [pc EXCEPT ![t] = "idle"]
    BY <1>14 DEF WorkerDies, LoseTask, Fault, Abort, ledgerVars
  <2>2. task'[t].stage = "ended" /\ \A u \in Tasks \ {t} : task'[u] = task[u]
    BY <1>0, <1>4, <2>1, GotoFacts
  <2>3. pc'[t] = "idle" /\ \A u \in Tasks \ {t} : pc'[u] = pc[u]
    BY <1>0, <2>1 DEF LedgerTypeOK
  <2>4. TaskMeaning(t)'
    BY <2>2, <2>3, IdleTask
  <2> QED
    BY <2>1, <2>2, <2>3, <2>4, OneTaskMoves
<1> QED
  BY <1>5, <1>6, <1>8, <1>9, <1>10, <1>11, <1>12, <1>13, <1>14 DEF Handle, LedgerStep

LEMMA MeaningInvStep ==
    /\ PipeInv /\ LedgerTypeOK /\ LocksProtectGrants /\ MeaningInv
    /\ [Next]_vars
    => MeaningInv'
<1> SUFFICES ASSUME PipeInv, LedgerTypeOK, LocksProtectGrants, MeaningInv, [Next]_vars
             PROVE  MeaningInv'
  OBVIOUS
<1>1. Before
  BY FulfilmentStepsLedger, LedgerStepsArePromised DEF Before
<1>2. CASE Endpoint /\ UNCHANGED ledgerVars
  BY <1>1, <1>2, EndpointMeaning
<1>3. ASSUME NEW t \in Tasks, StartTask(t) \/ StartFails(t) \/ Settle(t), UNCHANGED ledgerVars
      PROVE  MeaningInv'
  BY <1>1, <1>3, SettleMeaning
<1>4. ASSUME NEW t \in Tasks, Handle(t) \/ LedgerInterrupted(t) \/ WorkerDies(t)
      PROVE  MeaningInv'
  BY <1>1, <1>4, HandleMeaning
<1>5. ASSUME NEW o \in Owners, DeleteOwner(o), UNCHANGED pipeVars
      PROVE  MeaningInv'
  <2>1. task' = task /\ row' = row /\ faulted' = faulted /\ pc' = pc /\ sess' = sess
    BY <1>5 DEF DeleteOwner, procVars, pipeVars
  <2> QED
    BY <1>1, <2>1, NoTaskMoves
<1>6. CASE UNCHANGED vars
  <2>1. task' = task /\ row' = row /\ faulted' = faulted /\ pc' = pc /\ sess' = sess
    BY <1>6 DEF vars
  <2> QED
    BY <1>1, <2>1, NoTaskMoves
<1> QED
  BY <1>2, <1>3, <1>4, <1>5, <1>6 DEF Next

LEMMA MeaningInvHolds == Spec => []MeaningInv
<1>1. Init => MeaningInv
  BY FulfilmentAssumption
     DEF Init, PipelineInit, LedgerInit, MeaningInv, TaskMeaning, RowMeaning
<1> QED
  BY <1>1, MeaningInvStep, FulfilmentImplementsPipeline, PipeInvHolds,
     FulfilmentImplementsLedger, LedgerTypeCorrect, LocksProtectGrantsCorrect, PTL DEF Spec

\* A StripeEvent row marked processed has really been fulfilled, whatever
\* retries, duplicates, crashes and erasures happened on the way.
THEOREM ProcessedIsFulfilledCorrect == Spec => []ProcessedIsFulfilled
<1>1. MeaningInv => ProcessedIsFulfilled
  BY DEF MeaningInv, RowMeaning, Fulfilled, ProcessedIsFulfilled
<1> QED
  BY <1>1, MeaningInvHolds, PTL

\* A row marked failed, on which no fault fell, was not credited and never
\* will be, not even by another event about the same session.
THEOREM FailedIsNotGrantedCorrect == Spec => []FailedIsNotGranted
<1>1. MeaningInv => FailedIsNotGranted
  BY DEF MeaningInv, RowMeaning, Barred, FailedIsNotGranted
<1> QED
  BY <1>1, MeaningInvHolds, PTL
=============================================================================
