------------------------------ MODULE AgentLoop ------------------------------
(***************************************************************************)
(* agent/loop.py: the bounded agent loop over one session, with the        *)
(* stream, answer and select handlers of api/agent.py that share its row.  *)
(* A run keeps its own copy of the row and commits every turn by           *)
(* compare-and-set on the revision; SessionStore shows that such a commit  *)
(* is one atomic step.  The model's answers, token use and the wall clock  *)
(* are not the program's to choose: they are nondeterministic.             *)
(***************************************************************************)
EXTENDS SessionPhases, Integers, Sequences, FiniteSets, SequencesExt

CONSTANTS
  Runs,          \* agent runs on the session, one stream request each
  Dishes, NoDish,
  Questions,
  Tools,         \* tools with their arguments: one identical call each
  PlanWithheld,  \* the tools of _PLAN_PHASE_WITHHELD
  BadCall,       \* a call with bad arguments, or of a tool never offered
  MoveTos,       \* phases the model asks for in move_to
  MaxSteps, MaxTools,   \* steps_remaining, tool_calls_remaining at create
  MaxBatch,      \* bound: calls in one provider turn
  MaxActs        \* bound: user requests other than agent runs

ASSUME LoopAssumption ==
  /\ MaxSteps \in Nat \ {0}
  /\ MaxTools \in Nat
  /\ MaxBatch \in Nat /\ MaxActs \in Nat
  /\ PlanWithheld \subseteq Tools
  /\ BadCall \notin Tools
  /\ NoDish \notin Dishes
  /\ MoveTos \subseteq Phases

MaxConsecutiveErrors == 3
MaxIdenticalCalls == 3

\* Phases where a technique or web answer keeps the phase.
DishPhases == { "select", "plan", "cook", "plate" }

VARIABLES
  row,      \* the session row
  run,      \* the local state of each run
  ran,      \* tool calls that ran, in all runs
  lost,     \* those of them no commit ever charged
  asked,    \* questions a run reported as asked
  acts      \* user requests so far

vars == <<row, run, ran, lost, asked, acts>>

Rows == [ revision : Nat, phase : Phases, steps : 0 .. MaxSteps,
          tools : 0 .. MaxTools, options : SUBSET Dishes,
          dish : Dishes \cup {NoDish}, plan : Dishes \cup {NoDish},
          questions : SUBSET Questions, answered : SUBSET Questions ]

FirstRow == [ revision |-> 1, phase |-> DefaultPhase, steps |-> MaxSteps,
              tools |-> MaxTools, options |-> {}, dish |-> NoDish,
              plan |-> NoDish, questions |-> {}, answered |-> {} ]

Reasons == { "none", "agent_sufficient_evidence", "agent_needs_user_input",
             "agent_max_steps", "agent_tool_budget_exhausted",
             "agent_token_budget_exhausted", "agent_wall_clock_exceeded",
             "agent_no_progress", "agent_validation_failed",
             "stale_revision", "malformed", "provider_error", "interrupted" }

Calls == Tools \cup {BadCall}

\* fingerprints: how often a call was made, and whether all its results
\* were the same.
Fingerprints == [Tools -> [count : Nat, same : BOOLEAN]]

\* Calls of a batch, by their places in it.
CallSets == UNION { [at -> Tools] : at \in SUBSET (1 .. MaxBatch) }

RunStates == [ pc      : {"idle", "opened", "top", "turn", "tools", "done"},
               rev     : Nat,       \* revision the run works from
               st      : Rows,      \* its copy of the row
               errs    : Nat,       \* consecutive_errors
               retried : BOOLEAN,   \* the one validation retry is used
               stall   : BOOLEAN,   \* stall_recovery_tool is set
               excess  : BOOLEAN,   \* budget_recovery_excess is set
               wrap    : {"unused", "next", "now", "used"},
               withheld: SUBSET Tools,        \* wrap_up_withheld
               final   : BOOLEAN,   \* this turn is sent without tools
               sized   : BOOLEAN,   \* a turn completed: its size is known
               prints  : Fingerprints,
               calls   : CallSets,            \* calls of the turn that run
               over    : BOOLEAN,   \* the batch exceeded the budget
               finishing : Nat,     \* those sent to recover
               reason  : Reasons ]

\* One type invariant for the loop.
TypeOK ==
  /\ row \in Rows
  /\ run \in [Runs -> RunStates]
  /\ ran \in Nat /\ lost \in Nat
  /\ asked \subseteq Questions
  /\ acts \in 0 .. MaxActs

-----------------------------------------------------------------------------
(* Helpers.                                                                *)

NoPrints == [t \in Tools |-> [count |-> 0, same |-> TRUE]]

IdleRun == [ pc |-> "idle", rev |-> 0, st |-> FirstRow, errs |-> 0,
             retried |-> FALSE, stall |-> FALSE, excess |-> FALSE,
             wrap |-> "unused", withheld |-> {}, final |-> FALSE,
             sized |-> FALSE, prints |-> NoPrints, calls |-> << >>,
             over |-> FALSE, finishing |-> 0, reason |-> "none" ]

Clamp(n) == IF n < 0 THEN 0 ELSE n

\* Variant: the last writer wins.
CommitUnchecked(r, new) == row' = [new EXCEPT !.revision = row.revision + 1]

\* store.mutate with the run's revision: the function works on the row as
\* it is, and only if nobody changed it since the run last saw it.
Commit(r, new) ==
  /\ row.revision = run[r].rev
  /\ row' = [new EXCEPT !.revision = row.revision + 1]

\* Every committed turn costs a step.
Charged(tools) == [row EXCEPT !.steps = Clamp(@ - 1), !.tools = Clamp(@ - tools)]

\* Variant: the run keeps the copy it had.
OnwardUnrefreshed(r) ==
  [run[r] EXCEPT !.pc = "top", !.rev = row'.revision,
                 !.sized = TRUE, !.calls = << >>, !.over = FALSE]

\* The run as it goes on from the row just committed.
Onward(r) == [run[r] EXCEPT !.pc = "top", !.rev = row'.revision, !.st = row',
                            !.sized = TRUE, !.calls = << >>, !.over = FALSE]

\* The end of a run; its locals go, its turns and its recovery are kept.
Ended(r, reason) ==
  [IdleRun EXCEPT !.pc = "done", !.reason = reason,
                  !.stall = run[r].stall, !.excess = run[r].excess,
                  !.finishing = run[r].finishing]

\* Calls of the turn that ran.
Made(r) == Cardinality(DOMAIN run[r].calls)

Becomes(r, state) == run' = [run EXCEPT ![r] = state]

Stop(r, reason) ==
  /\ Becomes(r, Ended(r, reason))
  /\ UNCHANGED <<row, ran, lost, asked, acts>>

\* Variant: the limit itself is reported.
BudgetReasonPlain(r, reason) == reason

\* budget_stop: a limit that prevents a finishing turn reports what the
\* turn was to recover from.
BudgetReason(r, reason) ==
  CASE run[r].excess -> "agent_tool_budget_exhausted"
    [] run[r].stall /\ ~run[r].excess -> "agent_no_progress"
    [] OTHER -> reason

TooManyErrors(n) == n >= MaxConsecutiveErrors

-----------------------------------------------------------------------------
(* Start of a run.                                                         *)

\* The stream handler: read the row, check expected_revision (if given),
\* append the user's message and create the task.
OpenStream(r, pinned) ==
  /\ run[r].pc = "idle"
  /\ Becomes(r, [run[r] EXCEPT !.pc = "opened",
                               !.rev = IF pinned THEN row.revision ELSE 0])
  /\ UNCHANGED <<row, ran, lost, asked, acts>>

\* The task reads the row again and checks expected_revision again.
RunStart(r) ==
  /\ run[r].pc = "opened"
  /\ run[r].rev \in {0, row.revision}
  /\ Becomes(r, [run[r] EXCEPT !.pc = "top", !.rev = row.revision, !.st = row])
  /\ UNCHANGED <<row, ran, lost, asked, acts>>

RunStartStale(r) ==
  /\ run[r].pc = "opened"
  /\ run[r].rev \notin {0, row.revision}
  /\ Stop(r, "stale_revision")

(***************************************************************************)
(* Top of the loop: the stop checks, then the shape of the turn.           *)
(***************************************************************************)
Finishing(r) == run[r].stall \/ run[r].excess

MustBeFinal(r) ==
  run[r].st.steps <= 1 \/ run[r].st.tools <= 0 \/ run[r].stall

\* Variant: off by one.
StepsStopLate(r) ==
  /\ run[r].pc = "top"
  /\ run[r].st.steps < 0
  /\ Stop(r, BudgetReason(r, "agent_max_steps"))

StepsStop(r) ==
  /\ run[r].pc = "top"
  /\ run[r].st.steps <= 0
  /\ Stop(r, BudgetReason(r, "agent_max_steps"))

\* The wall clock, then the token ceilings.
LimitStop(r, limit) ==
  /\ run[r].pc = "top"
  /\ run[r].st.steps > 0
  /\ Stop(r, BudgetReason(r, limit))

\* The turn goes to the provider.  Token growth may make it final once a
\* turn's size is known; wrap_up is decided before that.
SendTurn(r, growth) ==
  /\ run[r].pc = "top"
  /\ run[r].st.steps > 0
  /\ growth => run[r].sized
  /\ Becomes(r, [run[r] EXCEPT
       !.pc = "turn",
       !.final = MustBeFinal(r) \/ growth,
       !.wrap = IF @ = "next" /\ ~MustBeFinal(r) THEN "now"
                ELSE IF @ = "unused" THEN "unused" ELSE "used",
       !.finishing = IF Finishing(r) THEN @ + 1 ELSE @ ])
  /\ UNCHANGED <<row, ran, lost, asked, acts>>

Offered(r) ==
  { t \in Tools :
      /\ ~run[r].final
      /\ run[r].st.phase = "select" /\ run[r].st.plan = NoDish => t \notin PlanWithheld
      /\ run[r].wrap = "now" => t \notin run[r].withheld }

-----------------------------------------------------------------------------
(* Turns that end the run without a commit.                                *)

InTurn(r) == run[r].pc = "turn"

TurnTimeout(r) == InTurn(r) /\ Stop(r, "agent_wall_clock_exceeded")

\* The response was cut at the turn's output cap.
Truncated(r) == InTurn(r) /\ Stop(r, "agent_token_budget_exhausted")

\* A provider error that is not worth a retry.
ProviderFatal(r) == InTurn(r) /\ Stop(r, "provider_error")

\* An ask_user directive without a question.
AskWithoutQuestion(r) == InTurn(r) /\ Stop(r, "malformed")

\* Any other turn commits; somebody else changed the row since the run's
\* last commit, so the run ends there.  Calls that ran stay uncharged.
Conflict(r) ==
  /\ run[r].pc \in {"turn", "tools"}
  /\ row.revision # run[r].rev
  /\ Becomes(r, Ended(r, "stale_revision"))
  /\ lost' = lost + Made(r)
  /\ UNCHANGED <<row, ran, asked, acts>>

\* The client went away and the task was cancelled, or the store failed.
Interrupted(r) ==
  /\ run[r].pc \in {"opened", "top", "turn", "tools"}
  /\ Becomes(r, Ended(r, "interrupted"))
  /\ lost' = lost + Made(r)
  /\ UNCHANGED <<row, ran, asked, acts>>

-----------------------------------------------------------------------------
(* Turns that cost a step and go on, or stop after too many failures.      *)

\* _decrement_step: a turn without calls or directive, or a provider error
\* worth a retry (which reports no size).
FailedTurn(r, sized) ==
  /\ InTurn(r)
  /\ Commit(r, Charged(0))
  /\ Becomes(r, IF TooManyErrors(run[r].errs + 1)
                  THEN Ended(r, "agent_no_progress")
                  ELSE [Onward(r) EXCEPT !.errs = @ + 1,
                                         !.sized = sized \/ run[r].sized])
  /\ UNCHANGED <<ran, lost, asked, acts>>

EmptyTurn(r) == FailedTurn(r, TRUE)

ProviderRetryable(r) == FailedTurn(r, FALSE)

(***************************************************************************)
(* Calls: those with good arguments of offered tools run, as many as the   *)
(* run's copy of the budget affords; the others are answered inline.       *)
(***************************************************************************)
\* Variant: the calls run unchecked.
ToolCallsUnparsed(r, batch) ==
  /\ InTurn(r)
  /\ Len(batch) <= run[r].st.tools
  /\ Becomes(r, [run[r] EXCEPT !.pc = "tools", !.calls = batch, !.over = FALSE])
  /\ ran' = ran + Len(batch)
  /\ UNCHANGED <<row, lost, asked, acts>>

ToolCalls(r, batch) ==
  LET runnable   == { i \in DOMAIN batch : batch[i] \in Offered(r) }
      affordable == IF Cardinality(runnable) < run[r].st.tools
                    THEN Cardinality(runnable) ELSE run[r].st.tools
  IN /\ InTurn(r)
     /\ \E first \in SUBSET runnable :
          /\ Cardinality(first) = affordable
          /\ \A i \in first, j \in runnable : j < i => j \in first
          /\ Becomes(r, [run[r] EXCEPT
                            !.pc = "tools",
                            !.calls = [i \in first |-> batch[i]],
                            !.over = Cardinality(runnable) > affordable])
     /\ ran' = ran + affordable
     /\ UNCHANGED <<row, lost, asked, acts>>

\* How often call i of the batch was made before it.
Before(r, i) ==
  run[r].prints[run[r].calls[i]].count
    + Cardinality({ j \in DOMAIN run[r].calls :
                      j < i /\ run[r].calls[j] = run[r].calls[i] })

\* Call i was made before and gave nothing its fingerprint has not seen
\* (a pointer to evidence already shown counts as that).
Repeats(r, new, i) == Before(r, i) >= 1 /\ i \notin new

\* All results of call i's fingerprint, up to it, are the same.
SameThrough(r, new, i) ==
  /\ run[r].prints[run[r].calls[i]].same
  /\ \A j \in DOMAIN run[r].calls :
       j <= i /\ run[r].calls[j] = run[r].calls[i] /\ Before(r, j) >= 1
         => j \notin new

Stalled(r, new) ==
  \E i \in DOMAIN run[r].calls :
    Before(r, i) + 1 >= MaxIdenticalCalls /\ SameThrough(r, new, i)

PrintsAfter(r, new) ==
  [ t \in Tools |->
      LET at == { i \in DOMAIN run[r].calls : run[r].calls[i] = t }
      IN [ count |-> run[r].prints[t].count + Cardinality(at),
           same  |-> /\ run[r].prints[t].same
                     /\ \A i \in at : SameThrough(r, new, i) ] ]

\* A batch of nothing but repeats withholds its tools once.
WrapsUp(r, new) ==
  /\ run[r].calls # << >>
  /\ \A i \in DOMAIN run[r].calls : Repeats(r, new, i)
  /\ run[r].wrap = "unused"

\* Where a committed step leads, in the order of the checks after it.
AfterTools(r, new, errs) ==
  LET on == [Onward(r) EXCEPT
               !.errs = errs,
               !.prints = PrintsAfter(r, new),
               !.wrap = IF WrapsUp(r, new) THEN "next" ELSE @,
               !.withheld = IF WrapsUp(r, new) THEN ToSet(run[r].calls) ELSE @]
  IN CASE Stalled(r, new) /\ Finishing(r) -> Ended(r, "agent_no_progress")
       [] ~(Stalled(r, new) /\ Finishing(r)) /\ Finishing(r) ->
            Ended(r, BudgetReason(r, "none"))
       [] ~Finishing(r) /\ run[r].over -> [on EXCEPT !.excess = TRUE]
       [] ~Finishing(r) /\ ~run[r].over /\ Stalled(r, new) ->
            [on EXCEPT !.stall = TRUE]
       [] OTHER -> IF TooManyErrors(errs) THEN Ended(r, "agent_no_progress")
                                          ELSE on

\* The results are in: one commit charges the step and the calls that ran.
\* ok: some result is good; new: calls whose result is new information.
ToolsDone(r, ok, new) ==
  /\ run[r].pc = "tools"
  /\ ok => run[r].calls # << >>
  /\ new \subseteq DOMAIN run[r].calls
  /\ Commit(r, Charged(Made(r)))
  /\ Becomes(r, AfterTools(r, new, IF ok THEN 0 ELSE run[r].errs + 1))
  /\ UNCHANGED <<ran, lost, asked, acts>>

(***************************************************************************)
(* _validation_feedback: a rejected directive costs a step.  It is fed     *)
(* back once in a run, and never on a final turn.  checked: whether the    *)
(* caller compares the failures with their limit.                          *)
(***************************************************************************)
Rejected(r, checked, wrap) ==
  /\ InTurn(r)
  /\ Commit(r, Charged(0))
  /\ Becomes(r,
       CASE run[r].final ->
              Ended(r, IF run[r].stall THEN "agent_no_progress"
                       ELSE IF run[r].st.tools <= 0
                            THEN "agent_tool_budget_exhausted"
                            ELSE "agent_max_steps")
         [] ~run[r].final /\ run[r].retried -> Ended(r, "agent_validation_failed")
         [] OTHER ->
              IF checked /\ TooManyErrors(run[r].errs + 1)
              THEN Ended(r, "agent_no_progress")
              ELSE [Onward(r) EXCEPT !.errs = @ + 1, !.retried = TRUE,
                                     !.wrap = wrap])
  /\ UNCHANGED <<ran, lost, asked, acts>>

MalformedDirective(r) == Rejected(r, FALSE, run[r].wrap)

\* The asked-for move, or the default one, is not allowed.
AskRejected(r) ==
  /\ \E p \in MoveTos \cup {"clarify"} : ~CanTransition(run[r].st.phase, p)
  /\ Rejected(r, TRUE, run[r].wrap)

\* No single result, options before the plan, an illegal move, or any of
\* the validators.  A rejected wrap-up answer keeps its tools withheld.
FinishRejected(r) ==
  Rejected(r, TRUE, IF run[r].wrap = "now" THEN "next" ELSE run[r].wrap)

-----------------------------------------------------------------------------
(* Turns that end the run well.                                            *)

\* _handle_ask: the question joins the unresolved ones.
Ask(r, q, target) ==
  /\ InTurn(r)
  /\ CanTransition(run[r].st.phase, target)
  /\ Commit(r, [Charged(0) EXCEPT !.questions = @ \cup {q}, !.phase = target])
  /\ asked' = asked \cup {q}
  /\ Becomes(r, Ended(r, "agent_needs_user_input"))
  /\ UNCHANGED <<ran, lost, acts>>

\* What every accepted finish does; change is the row it leaves.
Finish(r, target, change) ==
  /\ InTurn(r)
  /\ CanTransition(run[r].st.phase, target)
  /\ Commit(r, [change EXCEPT !.phase = target])
  /\ Becomes(r, Ended(r, "agent_sufficient_evidence"))
  /\ UNCHANGED <<ran, lost, asked, acts>>

\* Options replace the suggestions.  With a dish selected they are for a
\* different dish, and only after a plan.
NewDish(r) == run[r].st.dish # NoDish /\ run[r].st.plan # NoDish

\* Variant: the new options leave the old dish behind.
FinishOptionsKeepDish(r, options, target) ==
  /\ run[r].st.dish # NoDish => NewDish(r)
  /\ Finish(r, target, [Charged(0) EXCEPT !.options = options])

FinishOptions(r, options, target) ==
  /\ run[r].st.dish # NoDish => NewDish(r)
  /\ Finish(r, target,
            [Charged(0) EXCEPT !.options = options,
                               !.dish = IF NewDish(r) THEN NoDish ELSE @,
                               !.plan = IF NewDish(r) THEN NoDish ELSE @])

\* validate_plan: the plan is for the selected dish.
FinishPlan(r, target) ==
  /\ run[r].st.dish # NoDish
  /\ Finish(r, target, [Charged(0) EXCEPT !.plan = run[r].st.dish])

\* A technique or web answer changes nothing else modelled here.
FinishAnswer(r, target) == Finish(r, target, Charged(0))

\* Where a finish goes when the model names no phase.
PlanTarget == "plan"
AnswerTarget(r) ==
  IF run[r].st.phase \in DishPhases THEN run[r].st.phase ELSE "recommend"

-----------------------------------------------------------------------------
(* The user's requests, each with the revision the user last saw; one that *)
(* is stale changes nothing.                                               *)

Acts == acts < MaxActs /\ acts' = acts + 1

\* record_answer: the question must be unresolved.
Answer(q) ==
  /\ Acts
  /\ q \in row.questions
  /\ row' = [row EXCEPT !.revision = @ + 1, !.questions = @ \ {q},
                         !.answered = @ \cup {q}]
  /\ UNCHANGED <<run, ran, lost, asked>>

\* record_select: the dish must be an offered option.
Select(d) ==
  /\ Acts
  /\ d \in row.options
  /\ CanTransition(row.phase, "select")
  /\ row' = [row EXCEPT !.revision = @ + 1, !.dish = d, !.phase = "select"]
  /\ UNCHANGED <<run, ran, lost, asked>>

\* set_permission: to the loop, a new revision.
SetPermission ==
  /\ Acts
  /\ row' = [row EXCEPT !.revision = @ + 1]
  /\ UNCHANGED <<run, ran, lost, asked>>

\* Every run has ended and the user is done.
Rest ==
  /\ acts = MaxActs
  /\ \A r \in Runs : run[r].pc = "done"
  /\ UNCHANGED vars

-----------------------------------------------------------------------------

Init ==
  /\ row = FirstRow
  /\ run = [r \in Runs |-> IdleRun]
  /\ ran = 0 /\ lost = 0
  /\ asked = {}
  /\ acts = 0

Batches == UNION { [1 .. n -> Calls] : n \in 1 .. MaxBatch }

FinishingTurn(r) ==
  \/ \E q \in Questions, p \in MoveTos \cup {"clarify"} : Ask(r, q, p)
  \/ \E o \in (SUBSET Dishes) \ {{}}, p \in MoveTos \cup {"recommend"} :
        FinishOptions(r, o, p)
  \/ \E p \in MoveTos \cup {PlanTarget} : FinishPlan(r, p)
  \/ \E p \in MoveTos \cup {AnswerTarget(r)} : FinishAnswer(r, p)

\* What the loop itself does; the provider's turn ends by its timeout at
\* the latest, and so does every tool call.
Proceed(r) ==
  \/ RunStart(r) \/ RunStartStale(r)
  \/ StepsStop(r)
  \/ \E limit \in {"agent_wall_clock_exceeded", "agent_token_budget_exhausted"} :
        LimitStop(r, limit)
  \/ \E growth \in BOOLEAN : SendTurn(r, growth)
  \/ TurnTimeout(r) \/ Truncated(r) \/ ProviderFatal(r) \/ AskWithoutQuestion(r)
  \/ Conflict(r)
  \/ EmptyTurn(r) \/ ProviderRetryable(r)
  \/ \E batch \in Batches : ToolCalls(r, batch)
  \/ \E ok \in BOOLEAN, new \in SUBSET (1 .. MaxBatch) : ToolsDone(r, ok, new)
  \/ MalformedDirective(r) \/ AskRejected(r) \/ FinishRejected(r)
  \/ FinishingTurn(r)

User ==
  \/ \E q \in Questions : Answer(q)
  \/ \E d \in Dishes : Select(d)
  \/ SetPermission

Next ==
  \/ \E r \in Runs : \/ \E pinned \in BOOLEAN : OpenStream(r, pinned)
                     \/ Proceed(r)
                     \/ Interrupted(r)
  \/ User
  \/ Rest

Spec == Init /\ [][Next]_vars

\* The server keeps running its tasks; nothing is assumed of the user or
\* of which answers the provider gives.
FairSpec == Spec /\ \A r \in Runs : WF_vars(Proceed(r))

-----------------------------------------------------------------------------
(* What the loop must guarantee.                                           *)

Working(r) == run[r].pc \in {"top", "turn", "tools"}

\* The compare-and-set protects the run's copy, not only the row: as long
\* as the revision is the run's, every decision taken from the copy
\* (budgets, phase, dish, plan) is a decision about the row.
CachedStateIsRow ==
  \A r \in Runs :
    Working(r) /\ run[r].rev = row.revision => run[r].st = row

Unsettled == SumFunctionOnSet([r \in Runs |-> Made(r)], Runs)

\* No run and no answer overwrites a question another one stored: each
\* question a client was told of is unresolved or answered.
QuestionsKept == asked = row.questions \cup row.answered

\* Every tool call that ran is charged to the session, is still to be
\* charged by the run that made it, or was made by a run that lost its
\* commit: the clamp at zero never hides one.  And no question is lost.
RowAccountsForRuns ==
  /\ ran = (MaxTools - row.tools) + Unsettled + lost
  /\ QuestionsKept

\* A run that was to recover never reports a step budget or a used-up
\* retry: its end names what it was to recover from, or how its finishing
\* turn went.  Empty turns and provider errors repeat the finishing turn,
\* but no more often than failures are tolerated anywhere in the loop.
RecoveryReported ==
  \A r \in Runs :
    /\ run[r].finishing <= MaxConsecutiveErrors
    /\ Finishing(r) => run[r].reason \notin { "agent_max_steps",
                                              "agent_validation_failed" }
    /\ run[r].stall => run[r].reason # "agent_tool_budget_exhausted"

\* The selected dish is one of the options last offered, though options
\* are replaced by runs and the dish is picked by users, and a plan never
\* outlives the selection of a dish.
DishWasOffered ==
  /\ row.dish \in row.options \cup {NoDish}
  /\ row.plan # NoDish => row.dish # NoDish

\* Every run that was started ends.
RunEnds == \A r \in Runs : run[r].pc = "opened" ~> run[r].pc = "done"

-----------------------------------------------------------------------------
(* What the documentation says and the loop does not do.                   *)

\* docs/agent.md: "Once a dish is selected, a finish must be the cooking
\* plan for it: options are rejected"; before its plan it is not given up.
SelectedDishGetsItsPlan ==
  [][row.dish # NoDish /\ row'.dish = NoDish => row.plan = row.dish]_vars
=============================================================================
