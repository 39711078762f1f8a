--------------------------- MODULE Recommendations ---------------------------
(***************************************************************************)
(* recommendations/service.py: one run of recommend_for_group.  Between    *)
(* its awaits the request it works for may be answered, replanned or       *)
(* evicted (grp), the stored recipes may change (doc), and the task may be *)
(* cancelled.  Stages go to a bounded queue and block while it is full.    *)
(***************************************************************************)
EXTENDS LlmClient, Sequences, FiniteSets

CONSTANTS
  Recipes, NoRecipe,
  QueueSizes,      \* rec_stream_max_events of the instances checked
  Corpora,         \* the contents the stored recipes may have at first
  Failures,        \* the exceptions of the SDK that occur
  MaxChanges       \* bound: changes of the group and the recipes during the run

ASSUME RecommendationsAssumption ==
  /\ NoRecipe \notin Recipes
  /\ QueueSizes \subseteq Nat \ {0, 1}
  /\ Corpora \subseteq [Recipes -> {"good", "incomplete", "violates"}]
  /\ Failures \subseteq SdkErrors
  /\ MaxChanges \in Nat

VARIABLES
  toolMode, limit, \* parameters of the run: tool_mode, max_events
  grp,             \* the clarification group, seen from the revisions asked for
  doc, changes,    \* the stored recipes
  pc,              \* where the run waits
  local,           \* its local variables, see Locals
  call, ledger,    \* the open provider call; the closed turns
  task,            \* what became of the run
  cancel,          \* the message it was cancelled with
  telemetry,       \* recommendation_completed events
  queue, pending,  \* the stage queue; stages the run waits to put
  ending,          \* the outcome that follows those stages
  emitted          \* every stage ever put

input == <<toolMode, limit>>
world == <<grp, doc, changes>>
stages == <<queue, pending, emitted>>
run == <<pc, local, call, ledger>>
end == <<task, telemetry, ending>>

Contents == {"good", "good2", "incomplete", "violates", "none"}

Outcome(status, reason) == [status |-> status, reason |-> reason]
Running == Outcome("running", "none")
Error(reason) == Outcome("error", reason)
Insufficient == Outcome("result", "insufficient_evidence")
Clarified == Outcome("result", "clarification")
Recommended == Outcome("result", "recommendation")

\* The reason of each failure of the provider.
ReasonOf(error) ==
  CASE error = "Timeout"       -> "provider_timeout"
    [] error = "RateLimit"     -> "provider_rate_limit"
    [] error = "Unavailable"   -> "provider_unavailable"
    [] error = "Auth"          -> "provider_auth"
    [] error = "BadRequest"    -> "provider_bad_request"
    [] error = "NotFound"      -> "provider_not_found"
    [] error = "Request"       -> "provider_request_error"
    [] error = "Incomplete"    -> "truncated"
    [] error = "ContentFilter" -> "content_filter"
    [] error = "Schema"        -> "schema_failure"
    [] error = "Refusal"       -> "provider_refusal"
    [] error = "Internal"      -> "internal_error"

Locals ==
  [ rows : SUBSET Recipes,             \* search results still to be fetched
    evid : [Recipes -> Contents],      \* the candidates, as fetched
    kept : SUBSET Recipes,             \* the candidates offered to the model
    pick : Recipes \cup {NoRecipe} ]   \* the snapshot of tool mode, the selection

NoLocals == [ rows |-> {}, evid |-> [r \in Recipes |-> "none"],
              kept |-> {}, pick |-> NoRecipe ]

-----------------------------------------------------------------------------
(* Stages, outcomes and telemetry.                                         *)

\* Puts what fits; the run waits with the rest.
Emits(new) ==
  LET room == limit - Len(queue)
      n == IF Len(new) < room THEN Len(new) ELSE room
  IN /\ queue' = queue \o SubSeq(new, 1, n)
     /\ emitted' = emitted \o SubSeq(new, 1, n)
     /\ pending' = SubSeq(new, n + 1, Len(new))

\* The event is emitted where the run fails and again where it is caught;
\* only the first one counts.
ReportAgain(events, o) == Append(events, o)
Report(events, o) == IF events = << >> THEN Append(events, o) ELSE events

Ends(o) ==
  /\ task' = o
  /\ telemetry' = Report(Report(telemetry, o), o)

\* The run emits its last stages and ends, at once if they fit.
Closes(new, o) ==
  /\ Emits(new)
  /\ pc' = "done"
  /\ IF pending' = << >>
     THEN local' = NoLocals /\ Ends(o) /\ UNCHANGED ending
     ELSE ending' = o /\ UNCHANGED <<local, task, telemetry>>

Goes(new, next, loc) ==
  /\ Emits(new)
  /\ pc' = next /\ local' = loc
  /\ UNCHANGED end

Runs(at) == pc = at /\ pending = << >> /\ task = Running /\ cancel = "none"

\* A slot of the queue became free.
Put ==
  /\ pending # << >> /\ cancel = "none" /\ Len(queue) < limit
  /\ IF ending = Running THEN Goes(pending, pc, local) ELSE Closes(pending, ending)
  /\ UNCHANGED <<input, world, call, ledger, cancel>>

-----------------------------------------------------------------------------
(* From the entry checks to the evidence.                                  *)

\* Disabled, a bad limit or dataset, no engine; then the group.
EntryRejected ==
  /\ Runs("entry")
  /\ \/ \E reason \in {"generation_disabled", "malformed", "corpus_unavailable"} :
          Closes(<< >>, Error(reason))
     \/ grp = "gone" /\ Closes(<< >>, Error("unknown_group"))
     \/ grp \in {"edited", "superseded"} /\ Closes(<< >>, Error("stale_revision"))
  /\ UNCHANGED <<input, world, call, ledger, cancel>>

\* Readiness; a simple technique, or no adapter, skips Epicure without a wait.
Accept ==
  /\ Runs("entry") /\ grp = "current"
  /\ \/ Closes(<<"accepted", "readiness">>, Clarified)
     \/ Goes(<<"accepted", "readiness">>, "epicure", local)
     \/ Goes(<<"accepted", "readiness", "epicure">>, "search", local)
  /\ UNCHANGED <<input, world, call, ledger, cancel>>

\* Epicure answers or fails, the run goes on; without a dish or pantry there
\* is nothing to search for.
Epicure ==
  /\ Runs("epicure")
  /\ \/ Goes(<<"epicure">>, "search", local)
     \/ Closes(<<"epicure", "retrieval">>, Insufficient)
  /\ UNCHANGED <<input, world, call, ledger, cancel>>

Search ==
  /\ Runs("search")
  /\ \/ Closes(<< >>, Error("corpus_unavailable"))
     \/ Closes(<<"retrieval">>, Insufficient)
     \/ \E rows \in (SUBSET Recipes) \ {{}} :
          Goes(<< >>, "fetch", [local EXCEPT !.rows = rows])
  /\ UNCHANGED <<input, world, call, ledger, cancel>>

Recommendable(ev) == { r \in Recipes : ev[r] \in {"good", "good2"} }
Retrieved(ev) == { r \in Recipes : ev[r] # "none" }
Eligible(ev) == { r \in Retrieved(ev) : ev[r] # "violates" }

\* Whole candidates are kept or dropped until the request fits its budgets.
FitSerialized(candidates) == SUBSET candidates

\* Tool mode needs two turns, one tool call and room for the metadata.
ToolModeRefused(candidates) ==
  /\ toolMode /\ candidates # {}
  /\ \E reason \in {"turn_limit", "budget_exceeded"} :
       Closes(<<"retrieval", "evidence">>, Error(reason))

Assess(ev) ==
  \/ /\ Retrieved(ev) = {}
     /\ Closes(<<"retrieval">>, Insufficient)
     /\ UNCHANGED call
  \/ /\ Retrieved(ev) # {}
     /\ Closes(<<"retrieval", "evidence">>, Insufficient)  \* none, or none fits
     /\ UNCHANGED call
  \/ /\ ToolModeRefused(Recommendable(ev) \cap Eligible(ev))
     /\ UNCHANGED call
  \/ /\ \E kept \in FitSerialized(Recommendable(ev) \cap Eligible(ev)) \ {{}} :
          Goes(<<"retrieval", "evidence", "provider_request">>, "turn1",
               [local EXCEPT !.rows = {}, !.evid = ev, !.kept = kept])
     /\ call' = NewCall

\* One exact fetch at a time, in ranked order; failures and missing documents
\* are skipped.
Fetch ==
  /\ Runs("fetch")
  /\ LET r == CHOOSE x \in local.rows : TRUE
         rows == local.rows \ {r}
     IN \E reached \in BOOLEAN :
          LET ev == [local.evid EXCEPT ![r] = IF reached THEN doc[r] ELSE "none"]
          IN IF rows = {} THEN Assess(ev)
             ELSE /\ Goes(<< >>, "fetch",
                          [local EXCEPT !.rows = rows, !.evid = ev])
                  /\ UNCHANGED call
  /\ UNCHANGED <<input, world, ledger, cancel>>

-----------------------------------------------------------------------------
(* Provider turns and the ledger.                                          *)

Turns == {"turn1", "turn2"}

Entry(status, c, sent) ==
  [ status |-> status, attempts |-> c.attempts, sent |-> sent,
    usage |-> c.usage, served |-> c.served ]

SentFlag(c) == IF c.sent THEN "yes" ELSE "no"

FailedEntry(c) == Entry("failed", c, SentFlag(c))
CompletedEntry(c) == Entry("completed", c, "yes")
CancelledEntry(c) == Entry("cancelled", c, "unknown")

\* _ledger_summary: the turns whose usage the totals have to know.
Counted == { i \in DOMAIN ledger : ledger[i].sent # "no" }

\* A call that fails for good closes its turn and the run.
CallFailed(c) ==
  /\ call' = NoCall
  /\ ledger' = Append(ledger, FailedEntry(c))
  /\ Closes(<< >>, Error(ReasonOf(c.error)))

AttemptFails ==
  /\ \E turn \in Turns : Runs(turn)
  /\ call.phase = "sending"
  /\ \E e \in Failures : \E served \in ServedBy(e) :
       LET c == AttemptFailed(call, e, served)
       IN IF c.phase = "failed" THEN CallFailed(c)
          ELSE call' = c /\ Goes(<< >>, pc, local) /\ UNCHANGED ledger
  /\ UNCHANGED <<input, world, cancel>>

Retry ==
  /\ \E turn \in Turns : Runs(turn)
  /\ call.phase = "sleeping"
  /\ call' = Retried(call)
  /\ UNCHANGED <<input, world, pc, local, ledger, cancel, stages, end>>

CallRefused ==
  /\ \E turn \in Turns : Runs(turn)
  /\ call = NewCall
  /\ CallFailed(Refused(call))
  /\ UNCHANGED <<input, world, cancel>>

\* The first turn of tool mode forces a call and asks for no structure.
NextPc(r) ==
  IF pc = "turn1" /\ toolMode THEN "dispatch"
  ELSE IF r = "calls" THEN "repeated" ELSE "validate"

Possible(r) ==
  CASE r = "parsed" -> ~(pc = "turn1" /\ toolMode)
    [] r = "calls"  -> toolMode
    [] OTHER        -> TRUE

Answer ==
  /\ \E turn \in Turns : Runs(turn)
  /\ call.phase = "sending"
  /\ \E r \in { x \in Responses : Possible(x) }, counted \in BOOLEAN :
       LET c == Answered(call, r, counted)
       IN IF c.phase = "failed" THEN CallFailed(c)
          ELSE /\ call' = NoCall
               /\ ledger' = Append(ledger, CompletedEntry(c))
               /\ Goes(<<"provider_turn">>, NextPc(r), local)
  /\ UNCHANGED <<input, world, cancel>>

-----------------------------------------------------------------------------
(* Tool mode between its turns, and the selection.                         *)

\* The continuation carries the whole document and has to fit as well.
SecondTurn ==
  \/ Closes(<< >>, Error("budget_exceeded")) /\ UNCHANGED call
  \/ call' = NewCall /\ Goes(<<"provider_request">>, "turn2", local)

\* One get_recipe call with a call id, its continuation item and a label of
\* the offered metadata.
Dispatch ==
  /\ Runs("dispatch")
  /\ \/ \E reason \in {"invalid_tool", "validation_rejected"} :
          Closes(<< >>, Error(reason))
     \/ \E r \in local.kept :
          Goes(<< >>, "refetch", [local EXCEPT !.pick = r])
  /\ UNCHANGED <<input, world, call, ledger, cancel>>

\* The document is fetched again and must be the evidence built before.
Refetch ==
  /\ Runs("refetch")
  /\ \/ Closes(<< >>, Error("corpus_unavailable")) /\ UNCHANGED call
     \/ /\ doc[local.pick] # local.evid[local.pick]
        /\ Closes(<< >>, Error("validation_rejected"))
        /\ UNCHANGED call
     \/ /\ doc[local.pick] = local.evid[local.pick]
        /\ SecondTurn
  /\ UNCHANGED <<input, world, ledger, cancel>>

Repeated ==
  /\ Runs("repeated")
  /\ Closes(<< >>, Error("turn_limit"))
  /\ UNCHANGED <<input, world, call, ledger, cancel>>

\* The set a selection is validated against.
Offered == IF toolMode THEN {local.pick} ELSE local.kept

\* A proposal names a recipe by label or identity; "sound" stands for its
\* schema, references, step order and strings.
ValidSelection(r, sound) ==
  /\ r \in Offered
  /\ r \in Recommendable(local.evid)
  /\ sound
  /\ r \in Eligible(local.evid)

Validate ==
  /\ Runs("validate")
  /\ \E r \in Recipes \cup {NoRecipe}, sound \in BOOLEAN :
       IF ValidSelection(r, sound)
       THEN Goes(<<"validation">>, "check", [local EXCEPT !.pick = r])
       ELSE Closes(<< >>, Error(IF sound THEN "validation_rejected"
                                ELSE "schema_failure"))
  /\ UNCHANGED <<input, world, call, ledger, cancel>>

\* The revisions and the current group are read again before publication.
CurrentIfFound == grp # "gone"
Current == grp = "current"

Publish ==
  /\ Runs("check")
  /\ \/ Current /\ Closes(<<"revision_check">>, Recommended)
     \/ grp = "gone" /\ Closes(<< >>, Error("unknown_group"))
     \/ ~Current /\ grp # "gone" /\ Closes(<< >>, Error("stale_revision"))
  /\ UNCHANGED <<input, world, call, ledger, cancel>>

-----------------------------------------------------------------------------
(* Cancellation, and what others do meanwhile.                             *)

\* Whether a request that was under way reaches the provider is unknown.
Cancelled ==
  /\ cancel # "none" /\ task = Running
  /\ \E served \in BOOLEAN :
       LET c == [call EXCEPT !.served = @ \/ (served /\ call.phase = "sending")]
       IN ledger' = IF pc \in Turns /\ pending = << >>
                    THEN Append(ledger, CancelledEntry(c)) ELSE ledger
  /\ call' = NoCall
  /\ pc' = "done" /\ local' = NoLocals /\ pending' = << >> /\ UNCHANGED <<queue, emitted, ending>>
  /\ Ends(Outcome("cancelled", cancel))
  /\ UNCHANGED <<input, world, cancel>>

\* An answer, a replan, an eviction; a stored recipe rewritten or deleted.
OthersAct ==
  /\ task = Running
  /\ changes < MaxChanges /\ changes' = changes + 1
  /\ \/ /\ grp = "current" /\ grp' \in {"edited", "superseded", "gone"}
        /\ UNCHANGED doc
     \/ /\ \E r \in Recipes : \E v \in {"good2", "none"} \ {doc[r]} :
             doc' = [doc EXCEPT ![r] = v]
        /\ UNCHANGED grp
  /\ UNCHANGED <<input, run, cancel, stages, end>>

RunInit ==
  /\ toolMode \in BOOLEAN /\ limit \in QueueSizes
  /\ grp \in {"current", "edited", "superseded", "gone"}
  /\ doc \in Corpora /\ changes = 0
  /\ pc = "entry" /\ local = NoLocals /\ call = NoCall /\ ledger = << >>
  /\ task = Running /\ cancel = "none" /\ telemetry = << >> /\ ending = Running
  /\ queue = << >> /\ pending = << >> /\ emitted = << >>

\* What the run does by itself, and what it waits for.
RunStep ==
  \/ Put \/ EntryRejected \/ Accept \/ Epicure \/ Search \/ Fetch
  \/ AttemptFails \/ Retry \/ CallRefused \/ Answer
  \/ Dispatch \/ Refetch \/ Repeated \/ Validate \/ Publish \/ Cancelled
=============================================================================
