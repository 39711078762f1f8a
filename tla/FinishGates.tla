---------------------------- MODULE FinishGates ----------------------------
(***************************************************************************)
(* The evidence behind a finish: what runs find out with their tools, what *)
(* the users of a session say and pick meanwhile, and the gates a finish   *)
(* passes before it is committed (agent/loop.py, agent/validate.py,        *)
(* tools/registry.py, tools/search_tools.py).                              *)
(*                                                                         *)
(* A run copies the row when it starts and when it commits, keeps what it  *)
(* learns in memory, and reads the rest back from the session's events.    *)
(* Everybody else may change the row or add events in between: the user's  *)
(* requests run in threads of their own, and other runs of the session     *)
(* have their own copies.  The budgets and the stops of the loop are       *)
(* AgentLoop's, as are finishes that name another phase to move to; here   *)
(* a run just ends.                                                        *)
(***************************************************************************)
EXTENDS FinishRules, SessionPhases

CONSTANTS
  Runs,          \* places for runs of the session's streams
  Proposals,     \* the finishes the model may write
  Calls,         \* the tools its runs may call
  Spoken,        \* the messages the user may write
  Hits,          \* what a search may return
  Sessions,      \* diets and answers a session may be created with
  MaxMessages, MaxStarts, MaxActs, MaxLost, MaxCalls      \* bounds of the model

ASSUME InputsAssumption ==
  /\ Proposals \subseteq Finishes /\ Hits \subseteq SUBSET Recipes
  /\ Spoken \subseteq Messages
  /\ Sessions \subseteq [diets : SUBSET Diets, answers : SUBSET Answers]

ASSUME CountsAssumption ==
  {MaxMessages, MaxStarts, MaxActs, MaxLost, MaxCalls} \subseteq Nat

VARIABLES
  row,      \* the session's row
  log,      \* what the session's events say
  run,      \* the runs
  starts, acts, lost, made    \* counted for the bounds

vars == <<row, log, run, starts, acts, lost, made>>

Plans == [ dish : Recipes \cup {NoDish}, steps : {"none", "source", "model_adaptation"} ]
NoPlan == [ dish |-> NoDish, steps |-> "none" ]

Rows == [ phase : Phases, diets : SUBSET Diets,
          answers : SUBSET Answers, questions : SUBSET Topics,
          offered : SUBSET Recipes, dish : Recipes \cup {NoDish}, plan : Plans,
          epicure : BOOLEAN,                   \* epicure_outcome is set
          skip : SkipReasons \cup {"none"} ]   \* epicure_skip_reason

Logs == [ messages : Seq(Messages), retrieved : SUBSET Recipes,
          full : SUBSET Recipes, covered : [Recipes -> SUBSET Nat],
          pairing : BOOLEAN, unconfigured : BOOLEAN, web : BOOLEAN ]

\* What a finish, once checked, is going to store.
Checked == [ kind : {"none", "options", "plan", "answer", "web"},
             options : SUBSET Recipes, plan : Plans, phase : Phases,
             evidence : BOOLEAN, skip : SkipReasons \cup {"none"},
             restricted : BOOLEAN ]            \* a restriction had been mentioned

RunStates == [ pc : {"idle", "turn", "tools", "checked"},
               st : Rows,                      \* its copy of the row
               stale : BOOLEAN,                \* the row's revision is another one
               chunks : BOOLEAN,               \* a food-safety chunk came back
               epi : BOOLEAN,                  \* run_epicure_ok
               finish : Checked,
               since : [Recipes -> SUBSET Nat] ]  \* read by anybody since it started

TypeOK ==
  /\ row \in Rows /\ log \in Logs
  /\ run \in [Runs -> RunStates]
  /\ starts \in Nat /\ acts \in Nat /\ lost \in Nat /\ made \in Nat

-----------------------------------------------------------------------------
Nothing == [d \in Recipes |-> {}]

NoFinish == [ kind |-> "none", options |-> {}, plan |-> NoPlan, phase |-> DefaultPhase,
              evidence |-> FALSE, skip |-> "none", restricted |-> FALSE ]

FirstRow(diets, answers) ==
  [ phase |-> DefaultPhase, diets |-> diets,
    answers |-> answers, questions |-> {}, offered |-> {}, dish |-> NoDish,
    plan |-> NoPlan, epicure |-> FALSE, skip |-> "none" ]

EmptyLog == [ messages |-> << >>, retrieved |-> {}, full |-> {}, covered |-> Nothing,
              pairing |-> FALSE, unconfigured |-> FALSE, web |-> FALSE ]

IdleRun == [ pc |-> "idle", st |-> FirstRow({}, {}), stale |-> FALSE,
             chunks |-> FALSE, epi |-> FALSE, finish |-> NoFinish, since |-> Nothing ]

Becomes(r, state) == run' = [run EXCEPT ![r] = state]

\* The user's text is appended before the run starts.
UserMessage(m) ==
  /\ Len(log.messages) < MaxMessages
  /\ log' = [log EXCEPT !.messages = Append(@, m)]
  /\ UNCHANGED <<row, run, starts, acts, lost, made>>

\* Variant: all events of the session count as read.
RunStartUnmarked(r) ==
  /\ run[r].pc = "idle" /\ starts < MaxStarts
  /\ Becomes(r, [IdleRun EXCEPT !.pc = "turn", !.st = row])
  /\ starts' = starts + 1
  /\ UNCHANGED <<row, log, acts, lost, made>>

\* agent_run_started: what was read before it no longer counts as read.
RunStart(r) ==
  /\ run[r].pc = "idle" /\ starts < MaxStarts
  /\ Becomes(r, [IdleRun EXCEPT !.pc = "turn", !.st = row])
  /\ log' = [log EXCEPT !.covered = Nothing]
  /\ starts' = starts + 1
  /\ UNCHANGED <<row, acts, lost, made>>

\* Any stop, error or disconnect.
RunEnds(r) ==
  /\ run[r].pc # "idle"
  /\ Becomes(r, IdleRun)
  /\ UNCHANGED <<row, log, starts, acts, lost, made>>

-----------------------------------------------------------------------------
(* Tools.  Each call appends its own event, which may fail without a word, *)
(* while the run remembers the result; the step is committed afterwards.   *)

\* With a dish selected and no plan, nothing is searched or paired.
PlanOnly(r) == run[r].st.phase = "select" /\ run[r].st.plan = NoPlan

InBatch(r) ==
  /\ run[r].pc \in {"turn", "tools"}
  /\ made < MaxCalls /\ made' = made + 1

Called(r) == [run[r] EXCEPT !.pc = "tools"]

Recorded(new) ==
  \/ log' = new /\ UNCHANGED lost
  \/ log' = log /\ lost < MaxLost /\ lost' = lost + 1

SearchRecipes(r, found) ==
  /\ InBatch(r) /\ ~PlanOnly(r)
  /\ Becomes(r, Called(r))
  /\ Recorded([log EXCEPT !.retrieved = @ \cup found])
  /\ UNCHANGED <<row, starts, acts>>

\* A full document, or the pointer to an earlier one: the event is the
\* same.  A ranged read returns its slice whole; directions the summary
\* shows whole are not kept, no gate asks for them.
GetRecipe(r, d, part) ==
  /\ InBatch(r)
  /\ run' = [q \in Runs |->
               LET next == IF q = r THEN Called(r) ELSE run[q] IN
               IF next.pc = "idle" THEN next
                 ELSE [next EXCEPT !.since[d] = @ \cup (part \cap Omitted(d))]]
  /\ LET read == part \cap Omitted(d) IN
       Recorded([log EXCEPT !.retrieved = @ \cup {d}, !.full = @ \cup {d},
                   !.covered = [log.covered EXCEPT ![d] = log.covered[d] \cup read]])
  /\ UNCHANGED <<row, starts, acts>>

SearchTechniques(r) ==
  /\ InBatch(r)
  /\ Becomes(r, [Called(r) EXCEPT !.chunks = TRUE])
  /\ UNCHANGED <<row, log, starts, acts, lost>>

\* One service answers all four pairing tools, or is not configured.
FindPairings(r, ok) ==
  /\ InBatch(r) /\ ~PlanOnly(r) /\ EpicureEnabled
  /\ Becomes(r, [Called(r) EXCEPT !.epi = @ \/ ok])
  /\ Recorded([log EXCEPT !.pairing = @ \/ ok, !.unconfigured = @ \/ ~ok])
  /\ UNCHANGED <<row, starts, acts>>

\* SearchWeb's events, here only whether a URL is on record.
WebSearch(r) ==
  /\ InBatch(r)
  /\ Becomes(r, Called(r))
  /\ Recorded([log EXCEPT !.web = TRUE])
  /\ UNCHANGED <<row, starts, acts>>

-----------------------------------------------------------------------------
(* Commits of a run: on the row as it is, if nobody changed it meanwhile.  *)
(* The revision is only ever compared with the row's: a run is stale once  *)
(* somebody else has written the row.                                      *)

Outdated(q) == [run[q] EXCEPT !.stale = run[q].pc # "idle"]

\* Variant: the last writer wins.
CommitUnchecked(r, change, next) ==
  /\ row' = change
  /\ run' = [q \in Runs |-> IF q = r THEN next ELSE Outdated(q)]

Commit(r, change, next) ==
  /\ ~run[r].stale
  /\ row' = change
  /\ run' = [q \in Runs |-> IF q = r THEN next ELSE Outdated(q)]

Onward(r) == [run[r] EXCEPT !.pc = "turn", !.st = row]

StepCommit(r) ==
  /\ run[r].pc = "tools"
  /\ Commit(r, row, Onward(r))
  /\ UNCHANGED <<log, starts, acts, lost, made>>

\* _handle_ask: the question and its event are one transaction.
Ask(r, topic) ==
  /\ run[r].pc = "turn" /\ CanTransition(run[r].st.phase, "clarify")
  /\ Commit(r, [row EXCEPT !.questions = @ \cup {topic}, !.phase = "clarify"], IdleRun)
  /\ UNCHANGED <<log, starts, acts, lost, made>>

\* Where each kind of finish moves the session.
Target(r, kind) ==
  CASE kind = "options" -> "recommend"
    [] kind = "plan"    -> "plan"
    [] OTHER -> IF run[r].st.phase \in {"select", "plan", "cook", "plate"}
                  THEN run[r].st.phase ELSE "recommend"

Accepted(r, f) ==
  /\ CanTransition(run[r].st.phase, Target(r, f.kind))
  /\ CASE f.kind = "options" -> OptionsAccepted(log, run[r].epi, run[r].st, f)
       [] f.kind = "plan"    -> PlanAccepted(log, run[r].chunks, run[r].st, f)
       [] f.kind = "answer"  -> AnswerAccepted(log, run[r].epi, run[r].st, f)
       [] OTHER              -> WebAccepted(log, f)

\* _validation_feedback: the step is charged, and the model may try again.
Rejected(r) ==
  /\ run[r].pc = "turn"
  /\ ~ \A f \in Proposals : Accepted(r, f)
  /\ Commit(r, row, Onward(r)) \/ Commit(r, row, IdleRun)
  /\ UNCHANGED <<log, starts, acts, lost, made>>

\* What an accepted finish is going to store.
Outcome(r, f) ==
  [ kind |-> f.kind,
    options |-> IF f.kind = "options" THEN Survivors(log, run[r].st, f) ELSE {},
    plan |-> IF f.kind = "plan"
               THEN [dish |-> f.dish, steps |-> StepsSource(f)] ELSE NoPlan,
    phase |-> Target(r, f.kind),
    evidence |-> EpicureEvidence(log, run[r].epi, run[r].st),
    skip |-> IF f.kind \in {"options", "answer"} THEN EffectiveSkip(log, f.skip) ELSE "none",
    restricted |-> \E m \in Texts(log.messages) : MentionsRestriction(m) ]

\* _handle_finish, up to its commit: the run's copy and the events.
Check(r, f) ==
  /\ Accepted(r, f)
  /\ Becomes(r, [run[r] EXCEPT !.pc = "checked", !.finish = Outcome(r, f)])
  /\ UNCHANGED <<row, log, starts, acts, lost, made>>

\* The function of the commit.  New options after a plan give up its dish.
Finished(f) ==
  CASE f.kind = "options" ->
         [row EXCEPT !.offered = f.options, !.phase = f.phase,
                     !.dish = NoDish,
                     !.plan = IF row.dish = NoDish THEN @ ELSE NoPlan,
                     !.epicure = f.evidence, !.skip = f.skip]
    [] f.kind = "plan" -> [row EXCEPT !.plan = f.plan, !.phase = f.phase]
    [] f.kind = "answer" ->
         [row EXCEPT !.phase = f.phase, !.epicure = @ \/ f.evidence, !.skip = f.skip]
    [] OTHER -> [row EXCEPT !.phase = f.phase]

Finish(r) ==
  /\ run[r].pc = "checked"
  /\ Commit(r, Finished(run[r].finish), IdleRun)
  /\ UNCHANGED <<log, starts, acts, lost, made>>

-----------------------------------------------------------------------------
(* The user, each time with the revision just seen.                        *)

Acts == acts < MaxActs /\ acts' = acts + 1

UserWrites(change) == row' = change /\ run' = [q \in Runs |-> Outdated(q)]

\* record_answer: the question is dropped and its answer kept.
Answer(topic, names) ==
  /\ Acts
  /\ topic \in row.questions
  /\ UserWrites([row EXCEPT !.questions = @ \ {topic},
                             !.answers = @ \cup {[to |-> topic, names |-> names]}])
  /\ UNCHANGED <<log, starts, lost, made>>

\* record_select: one of the options offered last.
Select(d) ==
  /\ Acts
  /\ d \in row.offered /\ CanTransition(row.phase, "select")
  /\ UserWrites([row EXCEPT !.dish = d, !.phase = "select"])
  /\ UNCHANGED <<log, starts, lost, made>>

-----------------------------------------------------------------------------
Init ==
  /\ row \in { FirstRow(s.diets, s.answers) : s \in Sessions }
  /\ log = EmptyLog
  /\ run = [r \in Runs |-> IdleRun]
  /\ starts = 0 /\ acts = 0 /\ lost = 0 /\ made = 0

Tool(r) ==
  \/ "search_recipes" \in Calls[r] /\ \E found \in Hits : SearchRecipes(r, found)
  \/ /\ "get_recipe" \in Calls[r]
     /\ \E d \in Recipes : \E part \in Readable(d) \cup {{}} : GetRecipe(r, d, part)
  \/ "search_techniques" \in Calls[r] /\ SearchTechniques(r)
  \/ "find_pairings" \in Calls[r] /\ \E ok \in BOOLEAN : FindPairings(r, ok)
  \/ "search_web" \in Calls[r] /\ WebSearch(r)

Run(r) ==
  \/ RunStart(r) \/ Tool(r) \/ StepCommit(r)
  \/ \E topic \in Topics : Ask(r, topic)
  \/ Rejected(r)
  \/ run[r].pc = "turn" /\ \E f \in Proposals : Check(r, f)
  \/ Finish(r) \/ RunEnds(r)

User ==
  \/ \E m \in Spoken : UserMessage(m)
  \/ \E topic \in Topics, names \in SUBSET (Diets \cup Allergens) : Answer(topic, names)
  \/ \E d \in Recipes : Select(d)

Next == User \/ \E r \in Runs : Run(r)

Spec == Init /\ [][Next]_vars

-----------------------------------------------------------------------------
Commits(r, kind) ==
  /\ run[r].pc = "checked" /\ run[r].finish.kind = kind
  /\ run'[r].pc = "idle" /\ row' # row

\* Whatever was answered, selected or offered by others between the copy a
\* run works from and its commit: the options it stores were returned by a
\* tool in this session, break no diet of the row they are stored in, and
\* no allergen named in an answer that row holds, unless the answer was to
\* another question and nobody had mentioned a restriction.
OptionsRespectRow ==
  [][ \A r \in Runs : Commits(r, "options") =>
        \A d \in row'.offered :
          /\ d \in log.retrieved
          /\ Breaks[d] \cap row.diets = {}
          /\ \A a \in row.answers :
               a.to # "dish" \/ run[r].finish.restricted =>
                 Breaks[d] \cap a.names \cap Allergens = {} ]_vars

\* A plan is stored for the dish that is selected then, after a tool
\* returned its document in this session; one that claims the source's
\* steps comes after every direction the summary cuts was returned whole
\* since that run started; a raw dish after the run found a safety chunk.
PlanOnEvidence ==
  [][ \A r \in Runs : Commits(r, "plan") =>
        LET plan == row'.plan IN
        /\ plan.dish = row.dish /\ plan.dish \in log.full
        /\ plan.steps = "source" => Omitted(plan.dish) \subseteq run[r].since[plan.dish]
        /\ plan.dish \in Raw => run[r].chunks ]_vars
=============================================================================
