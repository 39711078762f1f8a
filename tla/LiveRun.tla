------------------------------- MODULE LiveRun -------------------------------
(***************************************************************************)
(* evals/phase3_agent/live_run.py: the runner of the paid evaluation.  An  *)
(* invocation takes what the history of its pool has left of the ceiling,  *)
(* drives the agent loop through scenarios and attempts, reserves every    *)
(* model turn, query embedding and web search before it is sent, settles   *)
(* it afterwards, and writes its entries to the history at its very end.   *)
(*                                                                         *)
(* The agent is free: it sends turns, calls tools side by side and ends    *)
(* with any outcome.  Grades, reports and the database snapshots are left  *)
(* out; the history of the pool is also the one its searches are counted   *)
(* in (phase5 and phase7), and a call whose bill is not reported was       *)
(* within its reservation.                                                 *)
(***************************************************************************)
EXTENDS SpendLedger, Sequences

CONSTANTS
  Tools,          \* the calls of a batch
  Turn,           \* the caller that is the model turn
  Scenarios,      \* what may be selected: sequences of scenarios
  Ceilings,       \* --ceiling-usd
  Limits,         \* --max-campaign-searches
  NoLimit,        \* ... when it is not given
  PoolCap,        \* cap_usd of the pool
  CampaignCap,    \* paid searches of all runs of the pool
  MaxPerSession,  \* --search-max-per-live-session
  MaxAttempts,    \* attempts at a scenario
  Cost,           \* what a call of each kind reserves
  FirstTurn,      \* what must be left for preflight to pass
  MaxTurns,       \* bound: model turns of one run of the agent
  MaxRuns,        \* bound: invocations
  MaxOverruns     \* bound: calls that cost more than they reserved

Outcomes == {"question", "options", "plan", "answer", "no_progress", "wall_clock"}

ASSUME LiveAssumption ==
  /\ Callers = Tools \cup {Turn} /\ Turn \notin Tools /\ IsFiniteSet(Tools)
  /\ Scenarios \subseteq Seq(
       [search : BOOLEAN, answers : Nat, expects : Outcomes,
        flow : SUBSET {"resume", "select", "plan", "followup"}]) \ {<<>>}
  /\ Ceilings \subseteq Nat /\ NoLimit \in Limits /\ Limits \ {NoLimit} \subseteq Nat /\ NoLimit \notin Nat
  /\ {PoolCap, CampaignCap, MaxPerSession, FirstTurn} \subseteq Nat
  /\ {MaxTurns, MaxRuns, MaxOverruns} \subseteq Nat
  /\ MaxAttempts \in Nat \ {0}
  /\ Cost \in [CallKinds -> Nat \ {0}]

VARIABLES
  history,   \* spend-history.json
  ledger,    \* the ledger of this invocation
  run,       \* what the invocation is doing
  paid       \* what the provider was really sent and has charged

vars == <<history, ledger, run, paid>>

\* run_stop, or why an attempt ended without one.
Stops == {"none", "contact-operator", "budget", "search-estimate-exceeded",
          "provider-auth", "runner-error", "first-search", "consecutive-failures"}

\* What an invocation may run.
Selected == UNION {{p[i] : i \in DOMAIN p} : p \in Scenarios}

Runs ==
  [ pc         : {"off", "attempt", "agent", "turn", "decide", "batch", "unwind",
                  "judge", "report", "finish"},
    plan       : Seq(Selected),
    attempt    : 0..MaxAttempts,
    stage      : {"recommend", "plan", "followup"},
    answers    : Nat,
    last       : Outcomes \cup {"none"},
    stop       : Stops,
    streak     : 0..2,
    turns      : 0..MaxTurns,
    kind       : [Callers -> CallKinds \cup {"none"}],
    at         : [Callers -> {"idle", "begun", "claimed", "sent"}],
    claimed    : Nat,       \* search slots of the session
    searched   : BOOLEAN,   \* a session of the scenario claimed one
    first      : BOOLEAN,   \* --stop-after-first-search
    prior      : Nat,       \* SearchRunLimits
    dispatched : Nat,
    limit      : Limits ]

Quiet == [c \in Callers |-> "idle"]
NoKind == [c \in Callers |-> "none"]

Off == [ pc |-> "off", plan |-> <<>>, attempt |-> 0, stage |-> "recommend",
         answers |-> 0, last |-> "none", stop |-> "none", streak |-> 0, turns |-> 0,
         kind |-> NoKind, at |-> Quiet, claimed |-> 0, searched |-> FALSE, first |-> FALSE,
         prior |-> 0, dispatched |-> 0, limit |-> NoLimit ]

\* now: charges of this invocation; past: of those in the history; over:
\* the part of them nobody reserved; the same for searches.
Truth == [ now : Nat, past : Nat, over : Nat, overruns : Nat,
           searches : Nat, searched : Nat, runs : 0..MaxRuns ]

TypeOK ==
  /\ history \in Histories
  /\ ledger \in Ledgers
  /\ run \in Runs
  /\ paid \in Truth

Init ==
  /\ history = NoHistory
  /\ ledger = NewLedger(0)
  /\ run = Off
  /\ paid = [now |-> 0, past |-> 0, over |-> 0, overruns |-> 0,
             searches |-> 0, searched |-> 0, runs |-> 0]

Scenario == Head(run.plan)
UsesSearch(plan) == \E i \in DOMAIN plan : plan[i].search
At(pc) == run.pc = pc
Goes(pc) == run' = [run EXCEPT !.pc = pc]

\* The attempt is over, with a stop of the run or without.
Over(r, stop) ==
  [r EXCEPT !.pc = "judge", !.stop = stop, !.at = Quiet, !.kind = NoKind]

Fails(stop) == run' = [Over(run, stop) EXCEPT !.last = "none"]

\* The provider charges u for a call of caller c.
Charged(p, c, u) ==
  LET excess == IF u > ledger.open[c] THEN u - ledger.open[c] ELSE 0
  IN [p EXCEPT !.now = @ + u, !.over = @ + excess,
               !.overruns = IF excess > 0 THEN @ + 1 ELSE @]

\* Bound: a bill is a unit off at most, and a few times above.
Charges(c) == (ledger.open[c] - 1)..(ledger.open[c] + (IF paid.overruns < MaxOverruns THEN 1 ELSE 0))

\* A call that was lost is billed or not.
Lost(c) == {0, ledger.open[c]}

-----------------------------------------------------------------------------
(* The invocation.                                                         *)

\* What --max-campaign-searches allows, or b without it.
LimitOr(limit, b) == IF limit = NoLimit THEN b ELSE limit

\* preflight about searches: the campaign has not used its cap up, what this
\* run may add fits, and no estimate was exceeded without acknowledgement.
SearchesAllowed(plan, limit) ==
  UsesSearch(plan) => /\ ~history.exceeded
                      /\ history.searches < CampaignCap
                      /\ history.searches + LimitOr(limit, 0) <= CampaignCap

\* ... and about money.
Preflight(ceiling, plan, limit) ==
  /\ ceiling <= PoolCap
  /\ SearchesAllowed(plan, limit)
  /\ ~history.breach
  /\ ceiling - history.spent >= FirstTurn

\* Mutant of RunCeiling: every invocation gets the ceiling anew.
RunCeilingWhole(ceiling) == ceiling

\* This run may only spend what the recorded runs left.
RunCeiling(ceiling) == ceiling - history.spent

\* _run_all up to the first scenario.  The two options about searches mean
\* nothing without any.
Begin(ceiling, plan, limit, first) ==
  /\ At("off") /\ paid.runs < MaxRuns
  /\ UsesSearch(plan) \/ (~first /\ limit = NoLimit)
  /\ Preflight(ceiling, plan, limit)
  /\ ledger' = NewLedger(RunCeiling(ceiling))
  /\ run' = [Off EXCEPT !.pc = "attempt", !.plan = plan, !.first = first,
                        !.prior = history.searches, !.limit = limit]
  /\ paid' = [paid EXCEPT !.runs = @ + 1]
  /\ UNCHANGED history

\* An owner acknowledges what the history records; preflight passes again.
Acknowledge ==
  /\ At("off") /\ (history.breach \/ history.exceeded)
  /\ history' = [history EXCEPT !.breach = FALSE, !.exceeded = FALSE]
  /\ UNCHANGED <<ledger, run, paid>>

\* A fresh session for each attempt; the set-up may fail before it.
StartAttempt ==
  /\ At("attempt")
  /\ \/ run' = [run EXCEPT !.pc = "agent", !.attempt = @ + 1, !.stage = "recommend",
                           !.answers = Scenario.answers, !.turns = 0, !.claimed = 0]
     \/ Fails("runner-error")
  /\ UNCHANGED <<history, ledger, paid>>

-----------------------------------------------------------------------------
(* LedgerModelProvider.                                                    *)

\* A refused reservation ends the run of the agent as a budget stop.
SendTurn ==
  /\ At("agent") /\ run.turns < MaxTurns
  /\ IF Affordable(ledger, Cost["chat"])
     THEN /\ ledger' = Reserved(ledger, Turn, Cost["chat"])
          /\ run' = [run EXCEPT !.pc = "turn", !.turns = @ + 1,
                                !.at[Turn] = "sent", !.kind[Turn] = "chat"]
     ELSE Fails("budget") /\ UNCHANGED ledger
  /\ UNCHANGED <<history, paid>>

\* The turn comes back with its usage; more than was reserved is a breach,
\* which the loop passes on.
TurnReturns(u) ==
  /\ At("turn") /\ u \in Charges(Turn)
  /\ ledger' = Reconciled(ledger, Turn, "chat", u)
  /\ paid' = Charged(paid, Turn, u)
  /\ IF u > ledger.open[Turn]
     THEN Fails("contact-operator")
     ELSE run' = [run EXCEPT !.pc = "decide", !.at[Turn] = "idle", !.kind[Turn] = "none"]
  /\ UNCHANGED history

\* It fails, is cancelled by the wall clock or reports no usage: what was
\* sent may have been billed.
TurnLost(u) ==
  /\ At("turn") /\ u \in Lost(Turn)
  /\ ledger' = Kept(ledger, Turn, "chat")
  /\ paid' = Charged(paid, Turn, u)
  /\ \/ \E pc \in {"agent", "decide"} :
          run' = [run EXCEPT !.pc = pc, !.at[Turn] = "idle", !.kind[Turn] = "none"]
     \/ \E stop \in {"none", "provider-auth"} : Fails(stop)
     \/ run' = [Over(run, "none") EXCEPT !.last = "wall_clock"]
  /\ UNCHANGED history

\* It was never sent.
TurnUnsent ==
  /\ At("turn")
  /\ ledger' = Released(ledger, Turn)
  /\ \/ run' = [run EXCEPT !.pc = "agent", !.at[Turn] = "idle", !.kind[Turn] = "none"]
     \/ Fails("none")
  /\ UNCHANGED <<history, paid>>

-----------------------------------------------------------------------------
(* The tools of a batch: the query embedding of a search tool              *)
(* (LedgerEmbedProvider) and search_web (LedgeredSearchProvider).          *)

CallTools(kind) ==
  /\ At("decide")
  /\ \E t \in Tools : kind[t] # "none"
  /\ ~Scenario.search => \A t \in Tools : kind[t] # "search"
  /\ run' = [run EXCEPT !.pc = "batch",
       !.kind = [c \in Callers |-> IF c \in Tools THEN kind[c] ELSE "none"],
       !.at = [c \in Callers |-> IF c \in Tools /\ kind[c] # "none" THEN "begun" ELSE "idle"]]
  /\ UNCHANGED <<history, ledger, paid>>

\* Mutant of Busy: a cancelled tool does not settle what it has sent.
BusyInBatch(t, at, kind) == run.pc = "batch" /\ run.at[t] = at /\ run.kind[t] = kind

\* A tool runs in its batch, and after another one has raised for as long
\* as nobody has cancelled it.
Busy(t, at, kind) == run.pc \in {"batch", "unwind"} /\ run.at[t] = at /\ run.kind[t] = kind

ToolDone(t) == run' = [run EXCEPT !.at[t] = "idle", !.kind[t] = "none"]

\* A runner_stop exception passes run_tool and leaves the gather.
Raises(t, stop) ==
  run' = [run EXCEPT !.at[t] = "idle", !.kind[t] = "none", !.pc = "unwind",
                     !.stop = IF run.pc = "batch" THEN stop ELSE @]

\* The search tools answer any exception of the embedding with a tool
\* result, a refused reservation too.
SendEmbed(t) ==
  /\ Busy(t, "begun", "embedding")
  /\ IF Affordable(ledger, Cost["embedding"])
     THEN /\ ledger' = Reserved(ledger, t, Cost["embedding"])
          /\ run' = [run EXCEPT !.at[t] = "sent"]
     ELSE ToolDone(t) /\ UNCHANGED ledger
  /\ UNCHANGED <<history, paid>>

\* ... and a breach.
EmbedReturns(t, u) ==
  /\ Busy(t, "sent", "embedding") /\ u \in Charges(t)
  /\ ledger' = Reconciled(ledger, t, "embedding", u)
  /\ paid' = Charged(paid, t, u)
  /\ ToolDone(t)
  /\ UNCHANGED history

\* search_web claims a slot of the session.
ClaimSlot(t) ==
  /\ Busy(t, "begun", "search")
  /\ IF run.claimed < MaxPerSession
     THEN run' = [run EXCEPT !.at[t] = "claimed", !.claimed = @ + 1, !.searched = TRUE]
     ELSE ToolDone(t)
  /\ UNCHANGED <<history, ledger, paid>>

\* check_and_claim.
MayDispatch ==
  /\ run.dispatched < LimitOr(run.limit, CampaignCap)
  /\ run.prior + run.dispatched < CampaignCap

\* It counts the dispatch and reserves the estimate, without an await.  A
\* refusal is not an AgentLoopError, so the runner takes it for a crash.
SendSearch(t) ==
  /\ Busy(t, "claimed", "search")
  /\ \/ ~MayDispatch /\ ToolDone(t) /\ UNCHANGED <<ledger, paid>>
     \/ /\ MayDispatch
        /\ IF Affordable(ledger, Cost["search"])
           THEN /\ ledger' = Reserved(ledger, t, Cost["search"])
                /\ paid' = [paid EXCEPT !.searches = @ + 1]
                /\ run' = [run EXCEPT !.at[t] = "sent", !.dispatched = @ + 1]
           ELSE /\ run' = [run EXCEPT !.at[t] = "idle", !.kind[t] = "none", !.pc = "unwind",
                                      !.dispatched = @ + 1,
                                      !.stop = IF run.pc = "batch" THEN "runner-error" ELSE @]
                /\ UNCHANGED <<ledger, paid>>
  /\ UNCHANGED history

\* Mutant of SearchReturns: it becomes a tool result, as an embedding does.
SearchReturnsAnswered(t, u) ==
  /\ Busy(t, "sent", "search") /\ u \in Charges(t)
  /\ ledger' = Reconciled(ledger, t, "search", u)
  /\ paid' = Charged(paid, t, u)
  /\ ToolDone(t)
  /\ UNCHANGED history

\* A search above its estimate stops the campaign.
SearchReturns(t, u) ==
  /\ Busy(t, "sent", "search") /\ u \in Charges(t)
  /\ ledger' = Reconciled(ledger, t, "search", u)
  /\ paid' = Charged(paid, t, u)
  /\ IF u > ledger.open[t] THEN Raises(t, "search-estimate-exceeded") ELSE ToolDone(t)
  /\ UNCHANGED history

\* Either call fails, times out or comes back without usage.
CallLost(t, u) ==
  /\ \E kind \in {"embedding", "search"} : Busy(t, "sent", kind)
  /\ u \in Lost(t)
  /\ ledger' = Kept(ledger, t, run.kind[t])
  /\ paid' = Charged(paid, t, u)
  /\ ToolDone(t)
  /\ UNCHANGED history

BatchEnds ==
  /\ At("batch") /\ run.at = Quiet
  /\ run' = [run EXCEPT !.pc = "agent"]
  /\ UNCHANGED <<history, ledger, paid>>

\* The event loop of the run is closed: the other tools are cancelled, and
\* what they had sent is kept (CallLost), before the runner goes on.
Unwound ==
  /\ At("unwind") /\ \A t \in Tools : run.at[t] # "sent"
  /\ Fails(run.stop)
  /\ UNCHANGED <<history, ledger, paid>>

-----------------------------------------------------------------------------
(* run_scenario_live: what follows a run of the agent.                     *)

\* The agent goes on after a turn: it answers with feedback.
Feedback ==
  /\ At("decide")
  /\ Goes("agent")
  /\ UNCHANGED <<history, ledger, paid>>

\* A further run of the agent in the same session.
Again(stage, answers) ==
  run' = [run EXCEPT !.pc = "agent", !.stage = stage, !.answers = answers, !.turns = 0]

Flow(step) == step \in Scenario.flow

\* The pending question is answered, a dish selected, a follow-up asked; a
\* store that refuses it ends the run.
AgentEnds(outcome) ==
  /\ At("decide") \/ (At("agent") /\ run.turns = MaxTurns)
  /\ CASE run.stage = "recommend" /\ outcome = "question" /\ Flow("resume") /\ run.answers > 0 ->
            Again("recommend", run.answers - 1) \/ Fails("runner-error")
       [] run.stage = "recommend" /\ outcome = "options" /\ Flow("select") ->
            \/ IF Flow("plan") THEN Again("plan", run.answers)
                               ELSE run' = [Over(run, "none") EXCEPT !.last = outcome]
            \/ Fails("runner-error")
       [] run.stage = "plan" /\ outcome = "plan" /\ Flow("followup") ->
            Again("followup", run.answers) \/ Fails("runner-error")
       [] OTHER -> run' = [Over(run, "none") EXCEPT !.last = outcome]
  /\ UNCHANGED <<history, ledger, paid>>

\* Mutant of Judge: only the expected outcome ends the attempts.
JudgeUncounted ==
  /\ At("judge")
  /\ Goes(IF run.stop = "none" /\ run.last # Scenario.expects THEN "attempt" ELSE "report")
  /\ UNCHANGED <<history, ledger, paid>>

\* Another attempt, unless the run stops or the outcome was the expected one.
Judge ==
  /\ At("judge")
  /\ Goes(IF /\ run.stop = "none" /\ run.last # Scenario.expects
             /\ run.attempt < MaxAttempts
          THEN "attempt" ELSE "report")
  /\ UNCHANGED <<history, ledger, paid>>

-----------------------------------------------------------------------------
(* _run_all.                                                               *)

NextStreak == IF run.last = "no_progress" THEN run.streak + 1 ELSE 0

\* The next scenario, or the end: after a stop, after the first search when
\* that was asked for, after two failures in a row, after the last one.
Report ==
  /\ At("report")
  /\ LET stop == CASE run.stop # "none" -> run.stop
                   [] run.stop = "none" /\ run.first /\ run.searched -> "first-search"
                   [] run.stop = "none" /\ ~(run.first /\ run.searched) /\ NextStreak = 2 ->
                        "consecutive-failures"
                   [] OTHER -> "none"
         rest == Tail(run.plan)
     IN run' = [run EXCEPT !.pc = IF stop # "none" \/ rest = <<>> THEN "finish" ELSE "attempt",
                           !.plan = rest, !.stop = stop, !.streak = NextStreak,
                           !.attempt = 0, !.last = "none", !.searched = FALSE]
  /\ UNCHANGED <<history, ledger, paid>>

\* sweep_reserved over what is still open, then the history is written.
Finish ==
  /\ At("finish")
  /\ history' = Appended(history, ledger)
  /\ ledger' = NewLedger(0)
  /\ run' = Off
  /\ paid' = [paid EXCEPT !.past = @ + paid.now, !.now = 0,
                          !.searched = @ + paid.searches, !.searches = 0]

\* The process is killed, or the snapshot before the history fails: what
\* it has spent is in no file.
Cut ==
  /\ ~At("off")
  /\ UNCHANGED history
  /\ ledger' = NewLedger(0)
  /\ run' = Off
  /\ paid' = [paid EXCEPT !.now = 0, !.searches = 0]

ToolStep(t) ==
  \/ SendEmbed(t) \/ ClaimSlot(t) \/ SendSearch(t)
  \/ \E u \in Charges(t) : EmbedReturns(t, u) \/ SearchReturns(t, u)
  \/ \E u \in Lost(t) : CallLost(t, u)

AgentStep ==
  \/ SendTurn \/ TurnUnsent \/ Feedback \/ BatchEnds \/ Unwound
  \/ \E u \in Charges(Turn) : TurnReturns(u)
  \/ \E u \in Lost(Turn) : TurnLost(u)
  \/ \E kind \in [Tools -> {"none", "embedding", "search"}] : CallTools(kind)
  \/ \E outcome \in Outcomes : AgentEnds(outcome)

RunnerStep == StartAttempt \/ Judge \/ Report \/ Finish

OwnerStep ==
  \/ \E ceiling \in Ceilings, plan \in Scenarios, limit \in Limits, first \in BOOLEAN :
       Begin(ceiling, plan, limit, first)
  \/ Acknowledge

\* Nobody has to start another one.
Rest == At("off") /\ UNCHANGED vars

Next == OwnerStep \/ RunnerStep \/ AgentStep \/ (\E t \in Tools : ToolStep(t)) \/ Cut \/ Rest

Spec == Init /\ [][Next]_vars

\* The event loop keeps running its tasks, the provider answers or a
\* timeout does.
FairSpec ==
  /\ Spec
  /\ WF_vars(RunnerStep) /\ WF_vars(AgentStep)
  /\ \A t \in Tools : WF_vars(ToolStep(t))

-----------------------------------------------------------------------------
(* What the ledger must guarantee.                                         *)

\* No unit of a run's ceiling is lost or counted twice, whichever way its
\* calls end; what the history will count is what was spent; between two
\* attempts nothing is open, so that the sweep is only a backstop.
LedgerBalances ==
  /\ ledger.remaining + ledger.spent + OpenTotal(ledger) = ledger.ceiling
  /\ ledger.settled = ledger.spent
  /\ run.pc \in {"judge", "report", "finish"} => OpenTotal(ledger) = 0

\* Whatever is answered, lost, cancelled or billed above its reservation,
\* the ledger and the history never say less than the provider charged, and
\* all runs together stay under the cap of the pool but for what calls cost
\* beyond their reservations and for runs whose history was never written.
\* The searches sent to the provider, in all recorded runs together, in this
\* run and in a batch, stay within their limits, although tools ask for
\* them side by side.
WithinCaps ==
  /\ paid.now <= ledger.spent + OpenTotal(ledger)
  /\ paid.past <= history.spent
  /\ paid.past + paid.now <= PoolCap + paid.over
  /\ paid.searched + paid.searches <= CampaignCap
  /\ paid.searches <= LimitOr(run.limit, CampaignCap)
  /\ Cardinality({t \in Tools : run.at[t] = "sent" /\ run.kind[t] = "search"}) <= MaxPerSession

Sends(c) == ledger.open[c] = 0 /\ ledger'.open[c] > 0

\* Nothing is sent while the history records a breach nobody acknowledged,
\* nor in a run that has come to a stop; only tools of the batch in which a
\* search exceeded its estimate may still send what they were about to.
StopHolds ==
  [][ \A c \in Callers : Sends(c) =>
        /\ ~history.breach
        /\ run.stop # "none" \/ ledger.exceeded => At("unwind") ]_vars

\* Every invocation comes to its end, and what it spent to the history,
\* unless it is cut off.
RunsEnd == []<>At("off")
=============================================================================
