------------------------ MODULE RecommendationStream ------------------------
(***************************************************************************)
(* api/recommendations.py: POST /api/v1/recommendations/stream.  The       *)
(* endpoint runs the workflow of Recommendations as a task, waits for its  *)
(* first stage or early failure, and then a generator drains the queue to  *)
(* the client, one await per event.  The client may be slow or leave.      *)
(***************************************************************************)
EXTENDS Recommendations

VARIABLES
  gen,         \* the endpoint: waiting for a first stage, streaming, closing
  buffered,    \* at most one stage taken out of the queue
  events,      \* what the client was sent: stages, then a terminal event
  skipped,     \* stages left out after the run had ended
  response,    \* the status line: a stream, or the reason of an HTTP error
  gone         \* the client has disconnected

stream == <<gen, buffered, events, skipped, response, gone>>
vars == <<input, world, run, cancel, stages, end, stream>>

StageNames == { "accepted", "readiness", "epicure", "retrieval", "evidence",
                "provider_request", "provider_turn", "validation",
                "revision_check" }

Stage(s) == Outcome("stage", s)
IsTerminal(e) == e.status # "stage"

CancelsNothing(reason) == UNCHANGED cancel
\* _cancel: the first reason given stays.
Cancels(reason) ==
  cancel' = IF task = Running /\ cancel = "none" THEN reason ELSE cancel

-----------------------------------------------------------------------------

FirstStage ==
  /\ gen = "first" /\ queue # << >>
  /\ buffered' = <<Head(queue)>> /\ queue' = Tail(queue)
  /\ gen' = "streaming" /\ response' = "stream"
  /\ UNCHANGED <<input, world, run, cancel, pending, emitted, end, events,
                 skipped, gone>>

\* Refused before its first stage: the HTTP error of the JSON endpoint.
EarlyFailure ==
  /\ gen = "first" /\ queue = << >> /\ task.status = "error"
  /\ gen' = "closed" /\ response' = task.reason
  /\ UNCHANGED <<input, world, run, cancel, stages, end, buffered, events,
                 skipped, gone>>

\* The next stage, out of the buffer or the queue.
Pending == buffered \o queue

TakesNext ==
  IF buffered # << >> THEN buffered' = << >> /\ UNCHANGED queue
  ELSE queue' = Tail(queue) /\ UNCHANGED buffered

StageBudgetLate == Len(events) < limit
StageBudgetLeft == Len(events) < limit - 1

SendStage ==
  /\ gen = "streaming" /\ Pending # << >> /\ StageBudgetLeft
  /\ events' = Append(events, Stage(Head(Pending)))
  /\ TakesNext
  /\ UNCHANGED <<input, world, run, cancel, pending, emitted, end, gen,
                 skipped, response, gone>>

\* The last place is kept for the terminal event.
SkipStage ==
  /\ gen = "streaming" /\ Pending # << >> /\ ~StageBudgetLeft
  /\ task # Running
  /\ skipped' = Append(skipped, Head(Pending))
  /\ TakesNext
  /\ UNCHANGED <<input, world, run, cancel, pending, emitted, end, gen,
                 events, response, gone>>

EventLimit ==
  /\ gen = "streaming" /\ Pending # << >> /\ ~StageBudgetLeft
  /\ task = Running
  /\ Cancels("stream_event_limit_exceeded")
  /\ events' = Append(events, Error("stream_event_limit_exceeded"))
  /\ TakesNext
  /\ gen' = "closing"
  /\ UNCHANGED <<input, world, run, pending, emitted, end, skipped, response, gone>>

\* One terminal event once the workflow ended; none if it was cancelled.
Terminal ==
  /\ gen = "streaming" /\ Pending = << >> /\ task # Running
  /\ events' = IF task.status = "cancelled" THEN events ELSE Append(events, task)
  /\ gen' = "closing"
  /\ UNCHANGED <<input, world, run, cancel, stages, end, buffered, skipped,
                 response, gone>>

\* The clock is read only here, between events.
DurationBound ==
  /\ gen = "streaming" /\ Pending = << >> /\ task = Running
  /\ Cancels("stream_duration_exceeded")
  /\ events' = Append(events, Error("stream_duration_exceeded"))
  /\ gen' = "closing"
  /\ UNCHANGED <<input, world, run, stages, end, buffered, skipped, response, gone>>

\* The getter of a wait takes a stage and keeps it even if the wait timed out.
GetterTakes ==
  /\ gen = "streaming" /\ buffered = << >> /\ queue # << >>
  /\ buffered' = <<Head(queue)>> /\ queue' = Tail(queue)
  /\ UNCHANGED <<input, world, run, cancel, pending, emitted, end, gen, events,
                 skipped, response, gone>>

ClientLeaves ==
  /\ ~gone /\ gen # "closed"
  /\ gone' = TRUE
  /\ UNCHANGED <<input, world, run, cancel, stages, end, gen, buffered, events,
                 skipped, response>>

\* Noticed by polling, or by the server closing the generator.
Disconnected ==
  /\ gone /\ gen \in {"first", "streaming"}
  /\ \E reason \in {"client_disconnect", "stream_closed"} : Cancels(reason)
  /\ gen' = "closing"
  /\ UNCHANGED <<input, world, run, stages, end, buffered, events, skipped,
                 response, gone>>

\* The finally clause of the generator.
Closed ==
  /\ gen = "closing"
  /\ Cancels("stream_closed")
  /\ gen' = "closed"
  /\ UNCHANGED <<input, world, run, stages, end, buffered, events, skipped,
                 response, gone>>

StreamStep ==
  \/ FirstStage \/ EarlyFailure \/ SendStage \/ SkipStage \/ EventLimit
  \/ Terminal \/ GetterTakes \/ Disconnected \/ Closed

Init ==
  /\ RunInit
  /\ gen = "first" /\ buffered = << >> /\ events = << >> /\ skipped = << >>
  /\ response = "none" /\ gone = FALSE

Next ==
  \/ RunStep /\ UNCHANGED stream
  \/ StreamStep
  \/ OthersAct /\ UNCHANGED stream
  \/ DurationBound
  \/ ClientLeaves

Spec == Init /\ [][Next]_vars

\* Every await of the workflow returns: its threads and the provider's
\* client have timeouts of their own.  The client reads or leaves.
FairSpec ==
  /\ Spec
  /\ WF_vars(RunStep /\ UNCHANGED stream)
  /\ WF_vars(StreamStep)

-----------------------------------------------------------------------------
(* Properties.                                                             *)

Reasons ==
  { "generation_disabled", "malformed", "corpus_unavailable", "unknown_group",
    "stale_revision", "turn_limit", "budget_exceeded", "invalid_tool",
    "validation_rejected", "schema_failure", "provider_timeout",
    "provider_rate_limit", "provider_unavailable", "provider_auth",
    "provider_bad_request", "provider_not_found", "provider_request_error",
    "truncated", "content_filter", "provider_refusal", "internal_error" }

Bounds == {"stream_event_limit_exceeded", "stream_duration_exceeded"}
Cancellations == Bounds \cup {"client_disconnect", "stream_closed"}

\* What a run may end with by itself, or by being cancelled.
Outcomes ==
  {Insufficient, Clarified, Recommended} \cup { Error(r) : r \in Reasons }
    \cup { Outcome("cancelled", c) : c \in Cancellations }

LedgerEntries ==
  [ status   : {"failed", "completed", "cancelled"},
    attempts : 0 .. MaxRetries + 1,
    sent     : {"yes", "no", "unknown"},
    usage    : BOOLEAN,
    served   : BOOLEAN ]

Events ==
  { Stage(s) : s \in StageNames } \cup Outcomes \cup { Error(b) : b \in Bounds }

\* The type of every variable; a turn makes at most MaxRetries + 1 attempts
\* and a run at most two turns; the queue never holds more than it may.
TypeOK ==
  /\ toolMode \in BOOLEAN /\ limit \in QueueSizes
  /\ grp \in {"current", "edited", "superseded", "gone"}
  /\ doc \in [Recipes -> Contents] /\ changes \in 0 .. MaxChanges
  /\ pc \in { "entry", "epicure", "search", "fetch", "turn1", "dispatch",
              "refetch", "turn2", "repeated", "validate", "check", "done" }
  /\ local \in Locals /\ call \in Call
  /\ ledger \in Seq(LedgerEntries) /\ Len(ledger) <= IF toolMode THEN 2 ELSE 1
  /\ queue \in Seq(StageNames) /\ Len(queue) <= limit
  /\ pending \in Seq(StageNames) /\ emitted \in Seq(StageNames)
  /\ task \in Outcomes \cup {Running} /\ ending \in Outcomes \cup {Running}
  /\ telemetry \in Seq(Outcomes) /\ cancel \in Cancellations \cup {"none"}
  /\ gen \in {"first", "streaming", "closing", "closed"} /\ gone \in BOOLEAN
  /\ buffered \in Seq(StageNames) /\ Len(buffered) <= 1
  /\ skipped \in Seq(StageNames) /\ events \in Seq(Events)
  /\ response \in Reasons \cup {"none", "stream"}

\* The stages among the events of the client, at their places.
Sent == [ i \in { j \in DOMAIN events : ~IsTerminal(events[j]) } |-> events[i] ]

\* What the client saw.  Stages reach it in the order the workflow emitted
\* them and without a gap, the ones left out after its end being the last;
\* no more events than the limit; a terminal event only in the last place,
\* and, if the client stayed and the run was not cancelled, always there:
\* what the run ended with, or the limit of the stream that cancelled it.
StreamContract ==
  /\ Len(events) <= limit
  /\ \A i \in DOMAIN events : IsTerminal(events[i]) => i = Len(events)
  /\ \A i \in DOMAIN Sent : i <= Len(emitted) /\ Sent[i] = Stage(emitted[i])
  /\ [i \in DOMAIN Sent |-> Sent[i].reason] \o skipped \o buffered \o queue
       = emitted \/ gen \in {"closing", "closed"}
  /\ (gen = "closed" /\ response = "stream" /\ ~gone) =>
       LET last == events[Len(events)]
       IN \/ last = task
          \/ /\ last.status = "error"
             /\ task = Running \/ task.status = "cancelled"
             /\ cancel = last.reason

\* One telemetry event per run, of the outcome the run really had, cancelled
\* runs with the first reason they were cancelled for; and the ledger it is
\* computed from has one entry for each provider request that was announced,
\* however the run ended.
TelemetryTruthful ==
  task # Running =>
    /\ telemetry = <<task>>
    /\ task.status = "cancelled" => task.reason = cancel
    /\ call = NoCall
    /\ Cardinality({ i \in DOMAIN emitted : emitted[i] = "provider_request" })
         = Len(ledger)

\* A recommendation is published only for the current group at the revisions
\* the client named, and for a candidate that was offered to the model with
\* complete content and no known violation; in tool mode the stored document
\* was read a second time and was still that content.  A queue as long as
\* the stages of a run is needed for the first part: with a shorter one the
\* run can wait between its last look at the revisions and the result.
RecommendationCurrent ==
  [][ (task = Running /\ task' = Recommended) =>
        /\ limit >= Cardinality(StageNames) + 2 => grp = "current"
        /\ local.pick \in local.kept
        /\ local.evid[local.pick] \in {"good", "good2"}
        /\ Len(ledger) = IF toolMode THEN 2 ELSE 1
    ]_vars

\* Every request gets its answer and leaves no task behind.
StreamEnds == <>(gen = "closed" /\ task # Running)

\* Totals leave out the turns whose request is known not to have been sent
\* (_ledger_summary): none of them was served by the provider.  The code does
\* not keep to it, and no run checks it: a response the SDK could not validate
\* counts as not sent (SentByShape), and an error tells only of the last of
\* several attempts.
ServedTurnsCounted ==
  \A i \in DOMAIN ledger : ledger[i].served => i \in Counted
=============================================================================
