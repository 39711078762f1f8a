---------------------------- MODULE FinishProofs ----------------------------
(***************************************************************************)
(* What is committed as options or as a plan holds for the row it lands    *)
(* in, for every set of runs, recipes and proposals and every bound.  A    *)
(* checked finish was right about the run's copy and the events of then;   *)
(* events only ever add to what is retrieved and read, and a commit needs  *)
(* the copy to be the row.                                                 *)
(***************************************************************************)
EXTENDS FinishGates, PlanQuantities, TLAPS

-----------------------------------------------------------------------------
(* The inductive invariant.                                                *)

\* A run whose row nobody else has written holds that row.
CopyCurrent == \A r \in Runs : run[r].pc # "idle" /\ ~run[r].stale => run[r].st = row

\* What the events of the latest run say was read, every living run knows.
CoveredSince ==
  \A r \in Runs : run[r].pc # "idle" =>
    \A d \in Recipes : log.covered[d] \subseteq run[r].since[d]

OptionsHold(f, st, l) ==
  f.kind = "options" =>
    \A d \in f.options :
      /\ d \in l.retrieved
      /\ Breaks[d] \cap st.diets = {}
      /\ \A a \in st.answers :
           a.to # "dish" \/ f.restricted => Breaks[d] \cap a.names \cap Allergens = {}

PlanHolds(s, l) ==
  LET plan == s.finish.plan IN
  s.finish.kind = "plan" =>
    /\ plan.dish = s.st.dish /\ plan.dish \in Recipes /\ plan.dish \in l.full
    /\ plan.steps = "source" => Omitted(plan.dish) \subseteq s.since[plan.dish]
    /\ plan.dish \in Raw => s.chunks

FinishHolds(s, l) ==
  s.pc = "checked" => OptionsHold(s.finish, s.st, l) /\ PlanHolds(s, l)

CheckedHolds == \A r \in Runs : FinishHolds(run[r], log)

IndInv == TypeOK /\ CopyCurrent /\ CoveredSince /\ CheckedHolds

-----------------------------------------------------------------------------
(* Helpers.                                                                *)

LEMMA OmittedAreNumbers ==
  ASSUME NEW d \in Recipes  PROVE  Omitted(d) \subseteq Nat
BY RecipesAssumption DEF Omitted, Directions

LEMMA NamedInAnswers ==
  ASSUME NEW answers, NEW a \in answers
  PROVE  a.names \cap Allergens \subseteq AllergensNamed(answers)
<1>1. SUFFICES ASSUME NEW x \in a.names \cap Allergens
               PROVE  x \in UNION { b.names : b \in answers }
  BY DEF AllergensNamed
<1>2. a.names \in { b.names : b \in answers }
  OBVIOUS
<1> QED
  BY <1>2

\* What the gates of an options finish say of the options that survive.
LEMMA SurvivorsHold ==
  ASSUME NEW l, NEW st, NEW f, NEW d \in Survivors(l, st, f)
  PROVE  /\ d \in l.retrieved
         /\ Breaks[d] \cap st.diets = {}
         /\ \A a \in st.answers :
              \/ a.to # "dish"
              \/ \E m \in Texts(l.messages) : MentionsRestriction(m)
              => Breaks[d] \cap a.names \cap Allergens = {}
<1>1. d \in l.retrieved /\ Breaks[d] \cap Avoided(l.messages, st.diets, st.answers) = {}
  BY DEF Survivors, ValidOption, Sourced, Violated
<1>2. Breaks[d] \cap st.diets = {}
  BY <1>1 DEF Avoided
<1>3. ASSUME NEW a \in st.answers,
             a.to # "dish" \/ \E m \in Texts(l.messages) : MentionsRestriction(m)
      PROVE  Breaks[d] \cap a.names \cap Allergens = {}
  <2>1. a \in AllergyAnswers(l.messages, st.answers)
    BY <1>3 DEF AllergyAnswers
  <2>2. a.names \cap Allergens \subseteq AllergensNamed(AllergyAnswers(l.messages, st.answers))
    BY <2>1, NamedInAnswers
  <2> QED
    BY <1>1, <2>2 DEF Avoided
<1> QED
  BY <1>1, <1>2, <1>3

\* What the gates of a plan say of it.
LEMMA PlanAcceptedHolds ==
  ASSUME NEW l, NEW chunks, NEW st, NEW f \in PlanFinishes,
         PlanAccepted(l, chunks, st, f)
  PROVE  /\ f.dish = st.dish /\ f.dish \in Recipes /\ f.dish \in l.full
         /\ StepsSource(f) = "source" => Omitted(f.dish) \subseteq l.covered[f.dish]
         /\ f.dish \in Raw => chunks
<1>1. f.dish \in Recipes
  BY DEF PlanFinishes
<1>2. ASSUME StepsSource(f) = "source"  PROVE  Omitted(f.dish) \subseteq l.covered[f.dish]
  BY <1>2 DEF PlanAccepted, DirectionsRead
<1> QED
  BY <1>1, <1>2 DEF PlanAccepted, PlanStands, PlanEvidenced, RefsReturned

\* The kinds of finishes do not overlap.
LEMMA KindsOfFinishes ==
  ASSUME NEW f \in Finishes
  PROVE  /\ f.kind \in {"options", "plan", "answer", "web"}
         /\ f.kind = "options" => f \in OptionFinishes
         /\ f.kind = "plan" => f \in PlanFinishes
         /\ f.kind = "answer" => f \in AnswerFinishes
<1>1. f \in OptionFinishes => f.kind = "options"
  BY DEF OptionFinishes
<1>2. f \in PlanFinishes => f.kind = "plan"
  BY DEF PlanFinishes
<1>3. f \in AnswerFinishes => f.kind = "answer"
  BY DEF AnswerFinishes
<1>4. f \in WebFinishes => f.kind = "web"
  BY DEF WebFinishes
<1> QED
  BY <1>1, <1>2, <1>3, <1>4 DEF Finishes

-----------------------------------------------------------------------------
(* Types.                                                                  *)

LEMMA RunTyped ==
  ASSUME TypeOK, NEW r \in Runs
  PROVE  /\ run[r] \in RunStates
         /\ run[r].st \in Rows /\ run[r].finish \in Checked
         /\ run[r].since \in [Recipes -> SUBSET Nat]
BY DEF TypeOK, RunStates

LEMMA FirstRowTyped ==
  ASSUME NEW diets \in SUBSET Diets, NEW answers \in SUBSET Answers
  PROVE  FirstRow(diets, answers) \in Rows
BY DEF FirstRow, Rows, Phases, DefaultPhase, NoPlan, Plans, SkipReasons

LEMMA IdleRunTyped == IdleRun \in RunStates
<1>1. FirstRow({}, {}) \in Rows
  BY FirstRowTyped
<1>2. NoFinish \in Checked
  BY DEF NoFinish, Checked, NoPlan, Plans, Phases, DefaultPhase, SkipReasons
<1>3. Nothing \in [Recipes -> SUBSET Nat]
  BY DEF Nothing
<1> QED
  BY <1>1, <1>2, <1>3 DEF IdleRun, RunStates

LEMMA TargetTyped ==
  ASSUME TypeOK, NEW r \in Runs, NEW kind
  PROVE  Target(r, kind) \in Phases
BY DEF Target, Phases

LEMMA OutcomeTyped ==
  ASSUME TypeOK, NEW r \in Runs, NEW f \in Finishes
  PROVE  Outcome(r, f) \in Checked
<1> DEFINE o == Outcome(r, f)
<1>1. o.kind \in {"none", "options", "plan", "answer", "web"}
  BY KindsOfFinishes DEF Outcome
<1>2. o.options \subseteq Recipes
  <2>1. f.kind = "options" => Survivors(log, run[r].st, f) \subseteq Recipes
    BY KindsOfFinishes DEF Survivors, OptionFinishes
  <2> QED
    BY <2>1 DEF Outcome
<1>3. o.plan \in Plans
  <2>1. CASE f.kind = "plan"
    <3>1. f.dish \in Recipes
      BY <2>1, KindsOfFinishes DEF PlanFinishes
    <3> QED
      BY <2>1, <3>1 DEF Outcome, Plans, StepsSource
  <2>2. CASE f.kind # "plan"
    BY <2>2 DEF Outcome, Plans, NoPlan
  <2> QED
    BY <2>1, <2>2
<1>4. o.phase \in Phases
  BY TargetTyped DEF Outcome
<1>5. o.evidence \in BOOLEAN
  <2>1. run[r].epi \in BOOLEAN /\ run[r].st.epicure \in BOOLEAN /\ log.pairing \in BOOLEAN
    BY RunTyped DEF RunStates, Rows, TypeOK, Logs
  <2> QED
    BY <2>1 DEF Outcome, EpicureEvidence
<1>6. o.skip \in SkipReasons \cup {"none"}
  <2>1. f.kind \in {"options", "answer"} => f.skip \in SkipReasons \cup {"none"}
    BY KindsOfFinishes DEF OptionFinishes, AnswerFinishes
  <2> QED
    BY <2>1 DEF Outcome, EffectiveSkip, SkipReasons
<1>7. o.restricted \in BOOLEAN
  BY DEF Outcome
<1>8. o = [ kind |-> o.kind, options |-> o.options, plan |-> o.plan, phase |-> o.phase,
            evidence |-> o.evidence, skip |-> o.skip, restricted |-> o.restricted ]
  BY DEF Outcome
<1> QED
  BY <1>1, <1>2, <1>3, <1>4, <1>5, <1>6, <1>7, <1>8 DEF Checked

-----------------------------------------------------------------------------
(* Steps that leave the row alone.                                         *)

Grows(l, k) == l.retrieved \subseteq k.retrieved /\ l.full \subseteq k.full

\* A run goes on as before: the same copy, and a checked finish as it was.
GoesOn(q) ==
  /\ run'[q].pc # "idle" =>
       /\ run[q].pc # "idle"
       /\ run'[q].st = run[q].st /\ run'[q].stale = run[q].stale
  /\ run'[q].pc = "checked" =>
       /\ run[q].pc = "checked" /\ run'[q].finish = run[q].finish
       /\ run'[q].chunks = run[q].chunks
       /\ \A d \in Recipes : run[q].since[d] \subseteq run'[q].since[d]

LEMMA HoldsOn ==
  ASSUME NEW s, NEW t, NEW l, NEW k, FinishHolds(s, l), Grows(l, k),
         s.pc = "checked", t.finish = s.finish, t.st = s.st, t.chunks = s.chunks,
         \A d \in Recipes : s.since[d] \subseteq t.since[d]
  PROVE  FinishHolds(t, k)
<1>1. OptionsHold(t.finish, t.st, k)
  BY DEF FinishHolds, OptionsHold, Grows
<1>2. PlanHolds(t, k)
  <2> DEFINE plan == s.finish.plan
  <2>1. ASSUME s.finish.kind = "plan"
        PROVE  /\ plan.dish = s.st.dish /\ plan.dish \in Recipes /\ plan.dish \in l.full
               /\ plan.steps = "source" => Omitted(plan.dish) \subseteq s.since[plan.dish]
               /\ plan.dish \in Raw => s.chunks
    BY <2>1 DEF FinishHolds, PlanHolds
  <2>2. ASSUME s.finish.kind = "plan"
        PROVE  s.since[plan.dish] \subseteq t.since[plan.dish]
    BY <2>1, <2>2
  <2> QED
    BY <2>1, <2>2 DEF PlanHolds, Grows
<1> QED
  BY <1>1, <1>2 DEF FinishHolds

LEMMA RowKept ==
  ASSUME IndInv, TypeOK', row' = row, Grows(log, log'),
         \A q \in Runs : GoesOn(q), CoveredSince'
  PROVE  IndInv'
<1>1. CopyCurrent'
  BY DEF IndInv, CopyCurrent, GoesOn
<1>2. CheckedHolds'
  <2>1. SUFFICES ASSUME NEW q \in Runs, run'[q].pc = "checked"
                 PROVE  FinishHolds(run'[q], log')
    BY DEF CheckedHolds, FinishHolds
  <2>2. GoesOn(q) /\ FinishHolds(run[q], log)
    BY DEF IndInv, CheckedHolds
  <2>3. /\ run[q].pc = "checked" /\ run'[q].finish = run[q].finish
        /\ run'[q].st = run[q].st /\ run'[q].chunks = run[q].chunks
        /\ \A d \in Recipes : run[q].since[d] \subseteq run'[q].since[d]
    BY <2>1, <2>2 DEF GoesOn
  <2> QED
    BY <2>2, <2>3, HoldsOn
<1> QED
  BY <1>1, <1>2 DEF IndInv

LEMMA UserMessageKeeps ==
  ASSUME IndInv, NEW m \in Spoken, UserMessage(m)  PROVE  IndInv'
<1>1. log' = [log EXCEPT !.messages = Append(@, m)] /\ run' = run /\ row' = row
  BY DEF UserMessage
<1>2. log \in Logs /\ m \in Messages
  BY InputsAssumption DEF IndInv, TypeOK
<1>3. log' \in Logs
  <2>1. log.messages \in Seq(Messages)
    BY <1>2 DEF Logs
  <2>2. Append(log.messages, m) \in Seq(Messages)
    BY <2>1, <1>2
  <2> QED
    BY <1>1, <1>2, <2>2 DEF Logs
<1>4. /\ log'.retrieved = log.retrieved /\ log'.full = log.full
      /\ log'.covered = log.covered
  BY <1>1, <1>2 DEF Logs
<1>5. TypeOK'
  BY <1>3 DEF IndInv, TypeOK, UserMessage
<1>6. CoveredSince'
  BY <1>1, <1>4 DEF IndInv, CoveredSince
<1>7. \A q \in Runs : GoesOn(q)
  BY <1>1 DEF GoesOn
<1> QED
  BY <1>1, <1>4, <1>5, <1>6, <1>7, RowKept DEF Grows

LEMMA RunEndsKeeps ==
  ASSUME IndInv, NEW r \in Runs, RunEnds(r)  PROVE  IndInv'
<1>1. /\ run' = [run EXCEPT ![r] = IdleRun] /\ IdleRun.pc = "idle"
      /\ row' = row /\ log' = log
  BY DEF RunEnds, Becomes, IdleRun
<1>2. run \in [Runs -> RunStates]
  BY DEF IndInv, TypeOK
<1>3. TypeOK'
  BY <1>1, <1>2, IdleRunTyped DEF IndInv, TypeOK, RunEnds
<1>4. CoveredSince'
  BY <1>1, <1>2 DEF IndInv, CoveredSince
<1>5. \A q \in Runs : GoesOn(q)
  BY <1>1, <1>2 DEF GoesOn
<1> QED
  BY <1>1, <1>3, <1>4, <1>5, RowKept DEF Grows

LEMMA RunStartKeeps ==
  ASSUME IndInv, NEW r \in Runs, RunStart(r)  PROVE  IndInv'
<1> DEFINE fresh == [IdleRun EXCEPT !.pc = "turn", !.st = row]
<1>1. /\ run' = [run EXCEPT ![r] = fresh] /\ row' = row
      /\ log' = [log EXCEPT !.covered = Nothing]
  BY DEF RunStart, Becomes
<1>2. run \in [Runs -> RunStates] /\ log \in Logs /\ row \in Rows
  BY DEF IndInv, TypeOK
<1>3. /\ fresh \in RunStates /\ fresh.pc = "turn" /\ fresh.st = row
  BY <1>2, IdleRunTyped DEF IdleRun, RunStates
<1>4. /\ log' \in Logs /\ log'.covered = Nothing
      /\ log'.retrieved = log.retrieved /\ log'.full = log.full
  BY <1>1, <1>2 DEF Logs, Nothing
<1>5. /\ run'[r] = fresh
      /\ \A q \in Runs \ {r} : run'[q] = run[q]
  BY <1>1, <1>2
<1>6. TypeOK'
  BY <1>1, <1>2, <1>3, <1>4 DEF IndInv, TypeOK, RunStart
<1>7. CoveredSince'
  BY <1>4 DEF CoveredSince, Nothing
<1>8. CopyCurrent'
  BY <1>1, <1>3, <1>5 DEF IndInv, CopyCurrent
<1>9. CheckedHolds'
  <2>1. ASSUME NEW q \in Runs \ {r}, run[q].pc = "checked"  PROVE FinishHolds(run'[q], log')
    <3>1. FinishHolds(run[q], log)
      BY DEF IndInv, CheckedHolds
    <3> QED
      BY <2>1, <3>1, <1>4, <1>5, HoldsOn DEF Grows
  <2>2. \A q \in Runs : run'[q].pc # "checked" => FinishHolds(run'[q], log')
    BY DEF FinishHolds
  <2> QED
    BY <2>1, <2>2, <1>3, <1>5 DEF CheckedHolds
<1> QED
  BY <1>6, <1>7, <1>8, <1>9 DEF IndInv

-----------------------------------------------------------------------------
(* Tools.                                                                  *)

CountersTyped == starts \in Nat /\ acts \in Nat /\ lost \in Nat /\ made \in Nat

\* A call that reads no directions.
LEMMA CallKeeps ==
  ASSUME IndInv, NEW r \in Runs, run[r].pc \in {"turn", "tools"},
         NEW t \in RunStates, t.pc = "tools", t.st = run[r].st,
         t.stale = run[r].stale, t.since = run[r].since,
         run' = [run EXCEPT ![r] = t], row' = row,
         log' \in Logs, Grows(log, log'), log'.covered = log.covered, CountersTyped'
  PROVE  IndInv'
<1>1. run \in [Runs -> RunStates]
  BY DEF IndInv, TypeOK
<1>2. run'[r] = t /\ \A q \in Runs \ {r} : run'[q] = run[q]
  BY <1>1
<1>3. TypeOK'
  BY <1>1 DEF IndInv, TypeOK, CountersTyped
<1>4. CoveredSince'
  BY <1>2 DEF IndInv, CoveredSince
<1>5. \A q \in Runs : GoesOn(q)
  BY <1>2 DEF GoesOn
<1> QED
  BY <1>3, <1>4, <1>5, RowKept

LEMMA CallCounted ==
  ASSUME IndInv, NEW r \in Runs, InBatch(r), NEW new, Recorded(new),
         acts' = acts, starts' = starts
  PROVE  CountersTyped' /\ (log' = new \/ log' = log) /\ run[r].pc \in {"turn", "tools"}
BY DEF IndInv, TypeOK, InBatch, Recorded, CountersTyped

LEMMA SearchRecipesKeeps ==
  ASSUME IndInv, NEW r \in Runs, NEW found \in Hits, SearchRecipes(r, found)
  PROVE  IndInv'
<1> DEFINE new == [log EXCEPT !.retrieved = @ \cup found]
           t == Called(r)
<1>1. /\ InBatch(r) /\ run' = [run EXCEPT ![r] = t] /\ Recorded(new) /\ row' = row
      /\ acts' = acts /\ starts' = starts
  BY DEF SearchRecipes, Becomes
<1>2. CountersTyped' /\ (log' = new \/ log' = log) /\ run[r].pc \in {"turn", "tools"}
  BY <1>1, CallCounted
<1>3. log \in Logs /\ found \subseteq Recipes /\ run[r] \in RunStates
  BY InputsAssumption DEF IndInv, TypeOK
<1>4. log' \in Logs /\ Grows(log, log') /\ log'.covered = log.covered
  BY <1>2, <1>3 DEF Logs, Grows
<1>5. /\ t \in RunStates /\ t.pc = "tools" /\ t.st = run[r].st
      /\ t.stale = run[r].stale /\ t.since = run[r].since
  BY <1>3 DEF Called, RunStates
<1> QED
  BY <1>1, <1>2, <1>4, <1>5, CallKeeps

LEMMA SearchTechniquesKeeps ==
  ASSUME IndInv, NEW r \in Runs, SearchTechniques(r)
  PROVE  IndInv'
<1> DEFINE t == [Called(r) EXCEPT !.chunks = TRUE]
<1>1. /\ run[r].pc \in {"turn", "tools"} /\ run' = [run EXCEPT ![r] = t]
      /\ row' = row /\ log' = log /\ CountersTyped'
  BY DEF SearchTechniques, Becomes, InBatch, IndInv, TypeOK, CountersTyped
<1>2. log \in Logs /\ run[r] \in RunStates
  BY DEF IndInv, TypeOK
<1>3. /\ t \in RunStates /\ t.pc = "tools" /\ t.st = run[r].st
      /\ t.stale = run[r].stale /\ t.since = run[r].since
  BY <1>2 DEF Called, RunStates
<1> QED
  BY <1>1, <1>2, <1>3, CallKeeps DEF Grows

LEMMA FindPairingsKeeps ==
  ASSUME IndInv, NEW r \in Runs, NEW ok \in BOOLEAN, FindPairings(r, ok)
  PROVE  IndInv'
<1> DEFINE new == [log EXCEPT !.pairing = @ \/ ok, !.unconfigured = @ \/ ~ok]
           t == [Called(r) EXCEPT !.epi = @ \/ ok]
<1>1. /\ InBatch(r) /\ run' = [run EXCEPT ![r] = t] /\ Recorded(new) /\ row' = row
      /\ acts' = acts /\ starts' = starts
  BY DEF FindPairings, Becomes
<1>2. CountersTyped' /\ (log' = new \/ log' = log) /\ run[r].pc \in {"turn", "tools"}
  BY <1>1, CallCounted
<1>3. log \in Logs /\ run[r] \in RunStates
  BY DEF IndInv, TypeOK
<1>4. log' \in Logs /\ Grows(log, log') /\ log'.covered = log.covered
  BY <1>2, <1>3 DEF Logs, Grows
<1>5. /\ t \in RunStates /\ t.pc = "tools" /\ t.st = run[r].st
      /\ t.stale = run[r].stale /\ t.since = run[r].since
  BY <1>3 DEF Called, RunStates
<1> QED
  BY <1>1, <1>2, <1>4, <1>5, CallKeeps

LEMMA WebSearchKeeps ==
  ASSUME IndInv, NEW r \in Runs, WebSearch(r)
  PROVE  IndInv'
<1> DEFINE new == [log EXCEPT !.web = TRUE]
           t == Called(r)
<1>1. /\ InBatch(r) /\ run' = [run EXCEPT ![r] = t] /\ Recorded(new) /\ row' = row
      /\ acts' = acts /\ starts' = starts
  BY DEF WebSearch, Becomes
<1>2. CountersTyped' /\ (log' = new \/ log' = log) /\ run[r].pc \in {"turn", "tools"}
  BY <1>1, CallCounted
<1>3. log \in Logs /\ run[r] \in RunStates
  BY DEF IndInv, TypeOK
<1>4. log' \in Logs /\ Grows(log, log') /\ log'.covered = log.covered
  BY <1>2, <1>3 DEF Logs, Grows
<1>5. /\ t \in RunStates /\ t.pc = "tools" /\ t.st = run[r].st
      /\ t.stale = run[r].stale /\ t.since = run[r].since
  BY <1>3 DEF Called, RunStates
<1> QED
  BY <1>1, <1>2, <1>4, <1>5, CallKeeps

\* A read counts for every living run: the events do not say whose it was.
LEMMA GetRecipeKeeps ==
  ASSUME IndInv, NEW r \in Runs, NEW d \in Recipes, NEW part, GetRecipe(r, d, part)
  PROVE  IndInv'
<1> DEFINE seen == part \cap Omitted(d)
           covered == [log.covered EXCEPT ![d] = log.covered[d] \cup seen]
           new == [log EXCEPT !.retrieved = @ \cup {d}, !.full = @ \cup {d},
                              !.covered = covered]
           next(q) == IF q = r THEN Called(r) ELSE run[q]
           after(q) == IF next(q).pc = "idle" THEN next(q)
                         ELSE [next(q) EXCEPT !.since[d] = @ \cup seen]
<1>1. /\ InBatch(r) /\ Recorded(new) /\ row' = row
      /\ acts' = acts /\ starts' = starts
      /\ \A q \in Runs : run'[q] = after(q)
      /\ run' = [q \in Runs |-> after(q)]
  BY DEF GetRecipe
<1>2. CountersTyped' /\ (log' = new \/ log' = log) /\ run[r].pc \in {"turn", "tools"}
  BY <1>1, CallCounted
<1>3. log \in Logs /\ \A q \in Runs : run[q] \in RunStates
  BY DEF IndInv, TypeOK
<1>4. seen \subseteq Nat
  BY OmittedAreNumbers
<1>5. /\ new \in Logs /\ Grows(log, new) /\ new.covered = covered
  <2>1. covered \in [Recipes -> SUBSET Nat]
    BY <1>3, <1>4 DEF Logs
  <2> HIDE DEF covered
  <2> QED
    BY <1>3, <2>1 DEF Logs, Grows
<1>6. /\ log' \in Logs /\ Grows(log, log')
      /\ \A e \in Recipes :
           log'.covered[e] \subseteq IF e = d THEN log.covered[e] \cup seen ELSE log.covered[e]
  <2> HIDE DEF new
  <2>1. log.covered \in [Recipes -> SUBSET Nat]
    BY <1>3 DEF Logs
  <2>2. CASE log' = new
    BY <1>5, <2>1, <2>2
  <2>3. CASE log' = log
    BY <1>3, <2>1, <2>3 DEF Grows
  <2> QED
    BY <1>2, <2>2, <2>3
<1>7. ASSUME NEW q \in Runs
      PROVE  /\ next(q) \in RunStates /\ next(q).st = run[q].st
             /\ next(q).stale = run[q].stale /\ next(q).since = run[q].since
             /\ next(q).chunks = run[q].chunks /\ next(q).finish = run[q].finish
             /\ next(q).pc = "checked" => run[q].pc = "checked"
             /\ next(q).pc # "idle" => run[q].pc # "idle"
  BY <1>2, <1>3 DEF Called, RunStates
<1>8. ASSUME NEW q \in Runs
      PROVE  /\ after(q) \in RunStates /\ after(q).st = run[q].st
             /\ after(q).stale = run[q].stale
             /\ after(q).chunks = run[q].chunks /\ after(q).finish = run[q].finish
             /\ after(q).pc = next(q).pc
             /\ \A e \in Recipes : run[q].since[e] \subseteq after(q).since[e]
             /\ after(q).pc # "idle" => seen \subseteq after(q).since[d]
  BY <1>3, <1>4, <1>7 DEF RunStates
<1>9. TypeOK'
  BY <1>1, <1>2, <1>6, <1>8 DEF IndInv, TypeOK, CountersTyped
<1>10. CoveredSince'
  BY <1>1, <1>6, <1>7, <1>8 DEF IndInv, CoveredSince
<1>11. \A q \in Runs : GoesOn(q)
  BY <1>1, <1>7, <1>8 DEF GoesOn
<1> QED
  BY <1>1, <1>6, <1>9, <1>10, <1>11, RowKept

-----------------------------------------------------------------------------
(* Writes of the row.                                                      *)

\* The writer holds the new row or is done, every other run is outdated.
LEMMA RowWritten ==
  ASSUME IndInv, row' \in Rows, log' = log, CountersTyped',
         NEW W \in SUBSET Runs, NEW next,
         run' = [q \in Runs |-> IF q \in W THEN next ELSE Outdated(q)],
         W # {} => /\ next \in RunStates /\ next.pc \in {"idle", "turn"}
                   /\ next.pc # "idle" => next.st = row',
         next.pc # "idle" => \A q \in W : run[q].pc # "idle" /\ next.since = run[q].since
  PROVE  IndInv'
<1>1. \A q \in Runs : run[q] \in RunStates
  BY DEF IndInv, TypeOK
<1>2. ASSUME NEW q \in Runs \ W
      PROVE  /\ run'[q] = Outdated(q) /\ Outdated(q) \in RunStates
             /\ run'[q].pc = run[q].pc /\ run'[q].st = run[q].st
             /\ run'[q].finish = run[q].finish /\ run'[q].chunks = run[q].chunks
             /\ run'[q].since = run[q].since
             /\ run'[q].pc # "idle" => run'[q].stale
  BY <1>1 DEF Outdated, RunStates
<1>3. \A q \in W : run'[q] = next
  OBVIOUS
<1>4. TypeOK'
  <2>1. run' \in [Runs -> RunStates]
    BY <1>2
  <2> QED
    BY <2>1 DEF IndInv, TypeOK, CountersTyped
<1>5. CopyCurrent'
  BY <1>2, <1>3 DEF CopyCurrent
<1>6. CoveredSince'
  BY <1>2, <1>3 DEF IndInv, CoveredSince
<1>7. CheckedHolds'
  <2>1. ASSUME NEW q \in Runs \ W  PROVE  FinishHolds(run'[q], log')
    <3>1. FinishHolds(run[q], log)
      BY DEF IndInv, CheckedHolds
    <3>2. CASE run[q].pc = "checked"
      BY <3>1, <3>2, <1>2, HoldsOn DEF Grows
    <3>3. CASE run[q].pc # "checked"
      BY <3>3, <1>2 DEF FinishHolds
    <3> QED
      BY <3>2, <3>3
  <2>2. \A q \in W : FinishHolds(run'[q], log')
    BY <1>3 DEF FinishHolds
  <2> QED
    BY <2>1, <2>2 DEF CheckedHolds
<1> QED
  BY <1>4, <1>5, <1>6, <1>7 DEF IndInv

LEMMA CommitWrites ==
  ASSUME IndInv, NEW r \in Runs, NEW change \in Rows, NEW next \in RunStates,
         Commit(r, change, next), log' = log, CountersTyped',
         next.pc \in {"idle", "turn"},
         next.pc # "idle" =>
           next.st = change /\ run[r].pc # "idle" /\ next.since = run[r].since
  PROVE  IndInv'
<1> DEFINE W == {r}
<1>1. row' = change /\ run' = [q \in Runs |-> IF q \in W THEN next ELSE Outdated(q)]
  BY DEF Commit
<1> QED
  BY <1>1, RowWritten

LEMMA OnwardTyped ==
  ASSUME IndInv, NEW r \in Runs, run[r].pc # "idle"
  PROVE  /\ Onward(r) \in RunStates /\ Onward(r).pc = "turn" /\ Onward(r).st = row
         /\ Onward(r).since = run[r].since
BY DEF IndInv, TypeOK, Onward, RunStates

LEMMA StepCommitKeeps ==
  ASSUME IndInv, NEW r \in Runs, StepCommit(r)  PROVE  IndInv'
<1>1. run[r].pc # "idle" /\ row \in Rows /\ log' = log /\ CountersTyped'
  BY DEF StepCommit, IndInv, TypeOK, CountersTyped
<1>2. Commit(r, row, Onward(r))
  BY DEF StepCommit
<1> QED
  BY <1>1, <1>2, OnwardTyped, CommitWrites

LEMMA RejectedKeeps ==
  ASSUME IndInv, NEW r \in Runs, Rejected(r)  PROVE  IndInv'
<1>1. run[r].pc # "idle" /\ row \in Rows /\ log' = log /\ CountersTyped'
  BY DEF Rejected, IndInv, TypeOK, CountersTyped
<1>2. CASE Commit(r, row, Onward(r))
  BY <1>1, <1>2, OnwardTyped, CommitWrites
<1>3. CASE Commit(r, row, IdleRun)
  <2>1. IdleRun.pc = "idle"
    BY DEF IdleRun
  <2> QED
    BY <1>1, <1>3, <2>1, IdleRunTyped, CommitWrites
<1> QED
  BY <1>2, <1>3 DEF Rejected

LEMMA AskKeeps ==
  ASSUME IndInv, NEW r \in Runs, NEW topic \in Topics, Ask(r, topic)  PROVE  IndInv'
<1> DEFINE change == [row EXCEPT !.questions = @ \cup {topic}, !.phase = "clarify"]
<1>1. log' = log /\ CountersTyped' /\ row \in Rows /\ Commit(r, change, IdleRun)
  BY DEF Ask, IndInv, TypeOK, CountersTyped
<1>2. change \in Rows
  BY <1>1 DEF Rows, Phases
<1>3. IdleRun.pc = "idle"
  BY DEF IdleRun
<1> QED
  BY <1>1, <1>2, <1>3, IdleRunTyped, CommitWrites

LEMMA FinishedTyped ==
  ASSUME IndInv, NEW f \in Checked  PROVE  Finished(f) \in Rows
<1>1. row \in Rows /\ NoPlan \in Plans
  BY DEF IndInv, TypeOK, NoPlan, Plans
<1>2. /\ f.options \subseteq Recipes /\ f.plan \in Plans /\ f.phase \in Phases
      /\ f.evidence \in BOOLEAN /\ f.skip \in SkipReasons \cup {"none"}
  BY DEF Checked
<1> HIDE DEF NoPlan
<1>3. CASE f.kind = "options"
  BY <1>1, <1>2, <1>3 DEF Finished, Rows
<1>4. CASE f.kind = "plan"
  BY <1>1, <1>2, <1>4 DEF Finished, Rows
<1>5. CASE f.kind = "answer"
  BY <1>1, <1>2, <1>5 DEF Finished, Rows
<1>6. CASE f.kind \notin {"options", "plan", "answer"}
  BY <1>1, <1>2, <1>6 DEF Finished, Rows
<1> QED
  BY <1>3, <1>4, <1>5, <1>6

LEMMA FinishKeeps ==
  ASSUME IndInv, NEW r \in Runs, Finish(r)  PROVE  IndInv'
<1>1. log' = log /\ CountersTyped' /\ Commit(r, Finished(run[r].finish), IdleRun)
  BY DEF Finish, IndInv, TypeOK, CountersTyped
<1>2. run[r].finish \in Checked
  BY RunTyped DEF IndInv
<1>3. Finished(run[r].finish) \in Rows
  BY <1>2, FinishedTyped
<1>4. IdleRun.pc = "idle"
  BY DEF IdleRun
<1> QED
  BY <1>1, <1>3, <1>4, IdleRunTyped, CommitWrites

LEMMA UserWritesKeeps ==
  ASSUME IndInv, NEW change \in Rows, UserWrites(change), log' = log, CountersTyped'
  PROVE  IndInv'
<1>1. row' \in Rows /\ run' = [q \in Runs |-> IF q \in {} THEN IdleRun ELSE Outdated(q)]
  BY DEF UserWrites
<1>2. {} \in SUBSET Runs /\ {} = {} /\ IdleRun.pc = "idle"
  BY DEF IdleRun
<1> QED
  BY <1>1, <1>2, RowWritten

LEMMA AnswerKeeps ==
  ASSUME IndInv, NEW topic \in Topics, NEW names \in SUBSET (Diets \cup Allergens),
         Answer(topic, names)
  PROVE  IndInv'
<1> DEFINE change == [row EXCEPT !.questions = @ \ {topic},
                        !.answers = @ \cup {[to |-> topic, names |-> names]}]
<1>1. log' = log /\ CountersTyped' /\ row \in Rows /\ UserWrites(change)
  BY DEF Answer, Acts, IndInv, TypeOK, CountersTyped
<1>2. [to |-> topic, names |-> names] \in Answers
  BY DEF Answers
<1>3. change \in Rows
  BY <1>1, <1>2 DEF Rows
<1> QED
  BY <1>1, <1>3, UserWritesKeeps

LEMMA SelectKeeps ==
  ASSUME IndInv, NEW d \in Recipes, Select(d)  PROVE  IndInv'
<1> DEFINE change == [row EXCEPT !.dish = d, !.phase = "select"]
<1>1. log' = log /\ CountersTyped' /\ row \in Rows /\ UserWrites(change)
  BY DEF Select, Acts, IndInv, TypeOK, CountersTyped
<1>2. change \in Rows
  BY <1>1 DEF Rows, Phases
<1> QED
  BY <1>1, <1>2, UserWritesKeeps

\* The gates are passed on the run's copy and the events of this moment.
LEMMA CheckKeeps ==
  ASSUME IndInv, NEW r \in Runs, NEW f \in Proposals, run[r].pc = "turn", Check(r, f)
  PROVE  IndInv'
<1> DEFINE o == Outcome(r, f)
           t == [run[r] EXCEPT !.pc = "checked", !.finish = o]
<1>1. run' = [run EXCEPT ![r] = t] /\ row' = row /\ log' = log /\ Accepted(r, f)
  BY DEF Check, Becomes
<1>2. /\ f \in Finishes /\ run \in [Runs -> RunStates]
      /\ run[r] \in RunStates /\ o \in Checked
  BY InputsAssumption, OutcomeTyped DEF IndInv, TypeOK
<1> HIDE DEF o
<1>3. /\ t \in RunStates /\ t.pc = "checked" /\ t.finish = o /\ t.st = run[r].st
      /\ t.stale = run[r].stale /\ t.since = run[r].since /\ t.chunks = run[r].chunks
  BY <1>2 DEF RunStates
<1>4. run'[r] = t /\ \A q \in Runs \ {r} : run'[q] = run[q]
  BY <1>1, <1>2
<1> HIDE DEF t
<1>5. TypeOK'
  BY <1>1, <1>2, <1>3 DEF IndInv, TypeOK, Check
<1>6. CopyCurrent' /\ CoveredSince'
  BY <1>1, <1>3, <1>4 DEF IndInv, CopyCurrent, CoveredSince
<1>7. OptionsHold(o, t.st, log)
  <2>1. SUFFICES ASSUME o.kind = "options", NEW d \in o.options
                 PROVE  /\ d \in log.retrieved
                        /\ Breaks[d] \cap run[r].st.diets = {}
                        /\ \A a \in run[r].st.answers :
                             a.to # "dish" \/ o.restricted =>
                               Breaks[d] \cap a.names \cap Allergens = {}
    BY <1>3 DEF OptionsHold
  <2>2. d \in Survivors(log, run[r].st, f)
    BY <2>1 DEF o, Outcome
  <2>3. o.restricted => \E m \in Texts(log.messages) : MentionsRestriction(m)
    BY DEF o, Outcome
  <2> QED
    BY <2>2, <2>3, SurvivorsHold
<1>8. PlanHolds(t, log)
  <2>1. SUFFICES ASSUME o.kind = "plan"
                 PROVE  /\ o.plan.dish = run[r].st.dish /\ o.plan.dish \in Recipes
                        /\ o.plan.dish \in log.full
                        /\ o.plan.steps = "source" =>
                             Omitted(o.plan.dish) \subseteq run[r].since[o.plan.dish]
                        /\ o.plan.dish \in Raw => run[r].chunks
    BY <1>3 DEF PlanHolds
  <2>2. f.kind = "plan" /\ o.plan.dish = f.dish /\ o.plan.steps = StepsSource(f)
    BY <2>1 DEF o, Outcome
  <2>3. PlanAccepted(log, run[r].chunks, run[r].st, f)
    BY <1>1, <2>2 DEF Accepted
  <2>4. f \in PlanFinishes
    BY <1>2, <2>2, KindsOfFinishes
  <2>5. /\ f.dish = run[r].st.dish /\ f.dish \in Recipes /\ f.dish \in log.full
        /\ StepsSource(f) = "source" => Omitted(f.dish) \subseteq log.covered[f.dish]
        /\ f.dish \in Raw => run[r].chunks
    BY <2>3, <2>4, PlanAcceptedHolds
  <2>6. log.covered[f.dish] \subseteq run[r].since[f.dish]
    BY <2>5 DEF IndInv, CoveredSince
  <2> QED
    BY <2>2, <2>5, <2>6
<1>9. CheckedHolds'
  <2>1. FinishHolds(run'[r], log')
    BY <1>1, <1>3, <1>4, <1>7, <1>8 DEF FinishHolds
  <2> QED
    BY <2>1, <1>1, <1>4 DEF IndInv, CheckedHolds
<1> QED
  BY <1>5, <1>6, <1>9 DEF IndInv

-----------------------------------------------------------------------------
(* Theorems.                                                               *)

LEMMA InitHolds == Init => IndInv
<1> SUFFICES ASSUME Init  PROVE IndInv
  OBVIOUS
<1>1. row \in Rows
  BY InputsAssumption, FirstRowTyped DEF Init
<1>2. EmptyLog \in Logs
  <2>1. << >> \in Seq(Messages)
    OBVIOUS
  <2> QED
    BY <2>1 DEF EmptyLog, Logs, Nothing
<1>3. \A r \in Runs : run[r] = IdleRun /\ run[r].pc = "idle"
  BY DEF Init, IdleRun
<1>4. TypeOK
  BY <1>1, <1>2, IdleRunTyped DEF Init, TypeOK
<1> QED
  BY <1>3, <1>4 DEF IndInv, CopyCurrent, CoveredSince, CheckedHolds, FinishHolds

LEMMA StepKeeps == IndInv /\ [Next]_vars => IndInv'
<1> SUFFICES ASSUME IndInv, [Next]_vars  PROVE IndInv'
  OBVIOUS
<1>1. CASE \E m \in Spoken : UserMessage(m)
  BY <1>1, UserMessageKeeps
<1>2. CASE \E topic \in Topics, names \in SUBSET (Diets \cup Allergens) : Answer(topic, names)
  BY <1>2, AnswerKeeps
<1>3. CASE \E d \in Recipes : Select(d)
  BY <1>3, SelectKeeps
<1>4. ASSUME NEW r \in Runs, Run(r)  PROVE IndInv'
  <2>1. CASE RunStart(r)
    BY <2>1, RunStartKeeps
  <2>2. CASE Tool(r)
    BY <2>2, SearchRecipesKeeps, GetRecipeKeeps, SearchTechniquesKeeps, FindPairingsKeeps,
       WebSearchKeeps DEF Tool
  <2>3. CASE StepCommit(r)
    BY <2>3, StepCommitKeeps
  <2>4. CASE \E topic \in Topics : Ask(r, topic)
    BY <2>4, AskKeeps
  <2>5. CASE Rejected(r)
    BY <2>5, RejectedKeeps
  <2>6. CASE run[r].pc = "turn" /\ \E f \in Proposals : Check(r, f)
    BY <2>6, CheckKeeps
  <2>7. CASE Finish(r)
    BY <2>7, FinishKeeps
  <2>8. CASE RunEnds(r)
    BY <2>8, RunEndsKeeps
  <2> QED
    BY <1>4, <2>1, <2>2, <2>3, <2>4, <2>5, <2>6, <2>7, <2>8 DEF Run
<1>5. CASE UNCHANGED vars
  BY <1>5 DEF vars, IndInv, TypeOK, CopyCurrent, CoveredSince, CheckedHolds, FinishHolds,
     OptionsHold, PlanHolds
<1> QED
  BY <1>1, <1>2, <1>3, <1>4, <1>5 DEF Next, User

\* Every state is well typed, a run nobody has written past holds the row,
\* and a checked finish holds for the copy it was checked against.
THEOREM Invariance == Spec => []IndInv
BY InitHolds, StepKeeps, PTL DEF Spec

THEOREM TypeCorrect == Spec => []TypeOK
<1>1. IndInv => TypeOK
  BY DEF IndInv
<1> QED
  BY <1>1, Invariance, PTL

\* Only the commit of a checked finish writes the row and ends the run.
LEMMA CommitsAreFinishes ==
  ASSUME IndInv, Next, NEW r \in Runs, NEW kind, Commits(r, kind)
  PROVE  Finish(r) /\ ~run[r].stale /\ run[r].st = row
         /\ row' = Finished(run[r].finish) /\ FinishHolds(run[r], log)
<1>1. run \in [Runs -> RunStates] /\ run[r].pc = "checked" /\ run'[r].pc = "idle" /\ row' # row
  BY DEF Commits, IndInv, TypeOK
<1>2. Finish(r)
  <2>1. ASSUME NEW q \in Runs, q # r, NEW change, NEW next, Commit(q, change, next)
        PROVE  FALSE
    <3>1. run'[r] = Outdated(r)
      BY <2>1 DEF Commit
    <3> QED
      BY <1>1, <3>1 DEF Outdated, RunStates
  <2>2. ASSUME NEW change, UserWrites(change)  PROVE FALSE
    <3>1. run'[r] = Outdated(r)
      BY <2>2 DEF UserWrites
    <3> QED
      BY <1>1, <3>1 DEF Outdated, RunStates
  <2>3. ~User
    BY <1>1, <2>2 DEF User, UserMessage, Answer, Select
  <2>4. PICK q \in Runs : Run(q)
    BY <2>3 DEF Next
  <2>5. ~Tool(q) /\ ~RunStart(q) /\ ~RunEnds(q) /\ ~ \E f \in Proposals : Check(q, f)
    BY <1>1 DEF Tool, SearchRecipes, GetRecipe, SearchTechniques, FindPairings, WebSearch,
       RunStart, RunEnds, Check
  <2>6. q = r
    BY <2>1, <2>4, <2>5 DEF Run, StepCommit, Ask, Rejected, Finish
  <2> QED
    BY <1>1, <2>4, <2>5, <2>6 DEF Run, StepCommit, Ask, Rejected
<1>3. ~run[r].stale /\ row' = Finished(run[r].finish)
  BY <1>2 DEF Finish, Commit
<1> QED
  BY <1>1, <1>2, <1>3 DEF IndInv, CopyCurrent, CheckedHolds

\* Options that are stored hold for the row they are stored in: retrieved in
\* this session, within its diets, free of the allergens its answers name.
THEOREM StoredOptionsHold == Spec => OptionsRespectRow
<1>1. ASSUME IndInv, [Next]_vars, NEW r \in Runs, Commits(r, "options"), NEW d \in row'.offered
      PROVE  /\ d \in log.retrieved
             /\ Breaks[d] \cap row.diets = {}
             /\ \A a \in row.answers :
                  a.to # "dish" \/ run[r].finish.restricted =>
                    Breaks[d] \cap a.names \cap Allergens = {}
  <2>1. Next /\ run[r].finish.kind = "options" /\ run[r].pc = "checked" /\ row \in Rows
    BY <1>1 DEF Commits, vars, IndInv, TypeOK
  <2>2. /\ run[r].st = row /\ row' = Finished(run[r].finish)
        /\ FinishHolds(run[r], log)
    BY <1>1, <2>1, CommitsAreFinishes
  <2>3. row'.offered = run[r].finish.options
    BY <2>1, <2>2 DEF Finished, Rows
  <2> QED
    BY <1>1, <2>1, <2>2, <2>3 DEF FinishHolds, OptionsHold
<1>2. IndInv /\ [Next]_vars =>
        [\A r \in Runs : Commits(r, "options") =>
           \A d \in row'.offered :
             /\ d \in log.retrieved
             /\ Breaks[d] \cap row.diets = {}
             /\ \A a \in row.answers :
                  a.to # "dish" \/ run[r].finish.restricted =>
                    Breaks[d] \cap a.names \cap Allergens = {}]_vars
  BY <1>1
<1> QED
  BY <1>2, Invariance, PTL DEF Spec, OptionsRespectRow

\* A stored plan is of the selected dish and rests on what was read: its
\* document, all of its directions if it claims to follow them, a safety
\* chunk if it is raw.
THEOREM StoredPlansHold == Spec => PlanOnEvidence
<1>1. ASSUME IndInv, [Next]_vars, NEW r \in Runs, Commits(r, "plan")
      PROVE  LET plan == row'.plan IN
             /\ plan.dish = row.dish /\ plan.dish \in log.full
             /\ plan.steps = "source" => Omitted(plan.dish) \subseteq run[r].since[plan.dish]
             /\ plan.dish \in Raw => run[r].chunks
  <2>1. Next /\ run[r].finish.kind = "plan" /\ run[r].pc = "checked" /\ row \in Rows
    BY <1>1 DEF Commits, vars, IndInv, TypeOK
  <2>2. /\ run[r].st = row /\ row' = Finished(run[r].finish)
        /\ FinishHolds(run[r], log)
    BY <1>1, <2>1, CommitsAreFinishes
  <2>3. row'.plan = run[r].finish.plan
    BY <2>1, <2>2 DEF Finished, Rows
  <2> QED
    BY <2>1, <2>2, <2>3 DEF FinishHolds, PlanHolds
<1>2. IndInv /\ [Next]_vars =>
        [\A r \in Runs : Commits(r, "plan") =>
           LET plan == row'.plan IN
           /\ plan.dish = row.dish /\ plan.dish \in log.full
           /\ plan.steps = "source" => Omitted(plan.dish) \subseteq run[r].since[plan.dish]
           /\ plan.dish \in Raw => run[r].chunks]_vars
  BY <1>1
<1> QED
  BY <1>2, Invariance, PTL DEF Spec, PlanOnEvidence

-----------------------------------------------------------------------------
(* Amounts in the text of a plan.                                          *)

\* However amounts are attributed: one that stands is stated by an ingredient
\* of the source or by the direction that is cited.
LEMMA StandingIsStated ==
  ASSUME NEW doc, NEW text, NEW cited, NEW k, NEW last, Stands(doc, text, cited, k, last)
  PROVE  \/ \E g : Measure(Amounts(text)[k]) \in Stated(doc, g)
         \/ cited # Nobody /\ Measure(Amounts(text)[k]) \in Measures(cited)
<1> DEFINE n == Amounts(text)[k]
           groups == Attributed(doc, text, k, last)
<1>1. CASE Measure(n) \in UnionStated(doc, text)
  BY <1>1 DEF UnionStated
<1>2. CASE Stating(doc, groups, n) # {}
  BY <1>2 DEF Stating
<1>3. CASE cited # Nobody /\ groups = {} /\ Measure(n) \in Measures(cited)
  BY <1>3
<1>4. ASSUME cited # Nobody, NEW g \in groups, DirectionSupports(doc, cited, n, g)
      PROVE  Measure(n) \in Measures(cited)
  BY <1>4 DEF DirectionSupports, Measures
<1> QED  BY <1>1, <1>2, <1>3, <1>4 DEF Stands

\* A plan that passes plan_prose_quantity_errors says no mass and no volume,
\* in its mise en place, its steps or its plating, that the source does not
\* say too: for an ingredient, or in the direction the step cites.  Steps
\* that repeat the direction they cite are not looked at.
THEOREM AmountsAreStated ==
  ASSUME NEW plan, NEW doc, PlanProseQuantityErrors(plan, doc) = {},
         NEW c \in CheckedTexts(doc, plan), NEW k \in DOMAIN Amounts(c.text)
  PROVE  \/ \E g : Measure(Amounts(c.text)[k]) \in Stated(doc, g)
         \/ c.cited # Nobody /\ Measure(Amounts(c.text)[k]) \in Measures(c.cited)
<1> DEFINE bad(x) == { i \in DOMAIN Amounts(x.text) :
                         ~Stands(doc, x.text, x.cited, i, LastGroup(doc, x.text)[i - 1]) }
           report(x) == { [text |-> x.text, amount |-> i, complaint |-> Complaint(doc, x.text, i)] :
                            i \in bad(x) }
<1>1. PlanProseQuantityErrors(plan, doc) = UNION { report(x) : x \in CheckedTexts(doc, plan) }
  BY DEF PlanProseQuantityErrors
<1>2. report(c) = {}
  <2> HIDE DEF report
  <2> QED  BY <1>1
<1>3. bad(c) = {}
  <2> HIDE DEF bad
  <2> QED  BY <1>2
<1>4. Stands(doc, c.text, c.cited, k, LastGroup(doc, c.text)[k - 1])  BY <1>3
<1> QED  BY <1>4, StandingIsStated
=============================================================================
