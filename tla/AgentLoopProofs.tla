--------------------------- MODULE AgentLoopProofs ---------------------------
(***************************************************************************)
(* What the bounded agent loop guarantees for any number of runs, tools    *)
(* and requests, whatever the provider answers.                            *)
(***************************************************************************)
EXTENDS AgentLoop, TurnHistory, FoldLemmas

-----------------------------------------------------------------------------
(* The inductive invariant: what the run record s is to the row rw.        *)

AtWork(s) == s.pc \in {"top", "turn", "tools"}

Recovers(s) == s.stall \/ s.excess

\* Finishing turns are repeated by failures only.
FinishingCounted(s) ==
  /\ s.finishing <= MaxConsecutiveErrors
  /\ ~Recovers(s) => s.finishing = 0
  /\ s.pc \in {"idle", "opened"} => s.finishing = 0
  /\ s.pc = "top" /\ s.finishing # 0 =>
       s.finishing <= s.errs /\ s.errs < MaxConsecutiveErrors
  /\ s.pc \in {"turn", "tools"} /\ Recovers(s) /\ s.finishing # 1 =>
       s.finishing <= s.errs + 1 /\ s.errs < MaxConsecutiveErrors

\* A recovering run has one cause, and its turns have no tools.
RecoversOnce(s) ==
  /\ ~(s.stall /\ s.excess)
  /\ s.pc \in {"idle", "opened"} => ~Recovers(s)
  /\ AtWork(s) /\ s.excess => s.st.tools = 0
  /\ s.pc = "turn" /\ Recovers(s) => s.final

\* Reasons name a recovery, and only an end has one.
ReasonHolds(s) ==
  /\ s.pc # "done" => s.reason = "none"
  /\ Recovers(s) => s.reason \notin {"agent_max_steps", "agent_validation_failed"}
  /\ s.stall => s.reason # "agent_tool_budget_exhausted"

\* The copy is the row as of the run's revision.
CopyHolds(s, rw) ==
  AtWork(s) => s.rev <= rw.revision /\ (s.rev = rw.revision => s.st = rw)

\* The calls of a batch are paid from the budget; one cut short uses it up.
BatchHolds(s) ==
  /\ s.pc # "tools" => s.calls = << >>
  /\ s.pc = "tools" => /\ Cardinality(DOMAIN s.calls) <= s.st.tools
                       /\ s.over => Cardinality(DOMAIN s.calls) = s.st.tools

RunHolds(s, rw) ==
  /\ FinishingCounted(s) /\ RecoversOnce(s) /\ ReasonHolds(s)
  /\ CopyHolds(s, rw) /\ BatchHolds(s)

IndInv ==
  /\ TypeOK
  /\ \A r \in Runs : RunHolds(run[r], row)
  /\ DishWasOffered
  /\ QuestionsKept

-----------------------------------------------------------------------------
(* Types.                                                                  *)

LEMMA FirstRowTyped == FirstRow \in Rows
  BY LoopAssumption DEF FirstRow, Rows, DefaultPhase, Phases

LEMMA EmptyCalls == << >> \in CallSets
<1>1. << >> \in [{} -> Tools]  OBVIOUS
<1>2. {} \in SUBSET (1 .. MaxBatch)  OBVIOUS
<1> QED  BY <1>1, <1>2 DEF CallSets

LEMMA IdleRunTyped == IdleRun \in RunStates
  BY FirstRowTyped, EmptyCalls
     DEF IdleRun, RunStates, NoPrints, Fingerprints, Reasons

\* The calls of a turn are finitely many.
LEMMA CallsFinite ==
  ASSUME NEW c \in CallSets
  PROVE  /\ DOMAIN c \subseteq 1 .. MaxBatch
         /\ \A i \in DOMAIN c : c[i] \in Tools
         /\ \A at \in SUBSET DOMAIN c : IsFiniteSet(at) /\ Cardinality(at) \in Nat
<1>1. DOMAIN c \subseteq 1 .. MaxBatch /\ \A i \in DOMAIN c : c[i] \in Tools
  BY DEF CallSets
<1>2. IsFiniteSet(1 .. MaxBatch)
  BY FS_Interval, LoopAssumption
<1>3. \A at \in SUBSET DOMAIN c : IsFiniteSet(at)
  BY <1>1, <1>2, FS_Subset
<1> QED  BY <1>1, <1>3, FS_CardinalityType

LEMMA EndedTyped ==
  ASSUME NEW r \in Runs, run[r] \in RunStates, NEW reason \in Reasons
  PROVE  /\ Ended(r, reason) \in RunStates
         /\ Ended(r, reason).pc = "done"
         /\ Ended(r, reason).reason = reason
         /\ Ended(r, reason).stall = run[r].stall
         /\ Ended(r, reason).excess = run[r].excess
         /\ Ended(r, reason).finishing = run[r].finishing
         /\ Ended(r, reason).calls = << >>
<1>1. IdleRun \in RunStates  BY IdleRunTyped
<1>2. run[r].stall \in BOOLEAN /\ run[r].excess \in BOOLEAN /\ run[r].finishing \in Nat
  BY DEF RunStates
<1>3. Ended(r, reason) = [IdleRun EXCEPT !.pc = "done", !.reason = reason,
                  !.stall = run[r].stall, !.excess = run[r].excess,
                  !.finishing = run[r].finishing]
  BY DEF Ended
<1>4. Ended(r, reason) \in RunStates
  BY <1>1, <1>2, <1>3 DEF RunStates
<1>5. IdleRun.calls = << >>  BY DEF IdleRun
<1> QED  BY <1>1, <1>3, <1>4, <1>5 DEF RunStates

LEMMA ChargedTyped ==
  ASSUME row \in Rows, NEW n \in Nat
  PROVE  /\ Charged(n) \in Rows
         /\ Charged(n).revision = row.revision
         /\ Charged(n).tools = IF row.tools - n < 0 THEN 0 ELSE row.tools - n
         /\ Charged(n).steps <= row.steps
         /\ Charged(n).options = row.options /\ Charged(n).phase = row.phase
         /\ Charged(n).dish = row.dish /\ Charged(n).plan = row.plan
         /\ Charged(n).questions = row.questions /\ Charged(n).answered = row.answered
<1>1. Clamp(row.steps - 1) \in 0 .. MaxSteps /\ Clamp(row.steps - 1) <= row.steps
  BY LoopAssumption DEF Clamp, Rows
<1>2. Clamp(row.tools - n) \in 0 .. MaxTools
  BY LoopAssumption DEF Clamp, Rows
<1> QED  BY <1>1, <1>2 DEF Charged, Rows, Clamp

-----------------------------------------------------------------------------
(* Steps of one run.                                                       *)

\* A run that ends is well if its reason is.
LEMMA EndedHolds ==
  ASSUME NEW r \in Runs, run[r] \in RunStates, RunHolds(run[r], row),
         NEW reason \in Reasons, NEW rw,
         Finishing(r) => reason \notin {"agent_max_steps", "agent_validation_failed"},
         run[r].stall => reason # "agent_tool_budget_exhausted"
  PROVE  RunHolds(Ended(r, reason), rw) /\ Ended(r, reason) \in RunStates
<1>1. /\ Ended(r, reason) \in RunStates
      /\ Ended(r, reason).pc = "done"
      /\ Ended(r, reason).reason = reason
      /\ Ended(r, reason).stall = run[r].stall
      /\ Ended(r, reason).excess = run[r].excess
      /\ Ended(r, reason).finishing = run[r].finishing
      /\ Ended(r, reason).calls = << >>
  BY EndedTyped
<1> QED
  BY <1>1 DEF RunHolds, FinishingCounted, RecoversOnce, ReasonHolds, CopyHolds,
              BatchHolds, AtWork, Recovers, Finishing

\* What happens to one run is all that happens to the runs, and the row
\* only moves on.
LEMMA OneRunMoves ==
  ASSUME IndInv, NEW r \in Runs, NEW s \in RunStates, Becomes(r, s),
         row' \in Rows, row' = row \/ row'.revision = row.revision + 1,
         RunHolds(s, row')
  PROVE  /\ run' \in [Runs -> RunStates]
         /\ \A q \in Runs : RunHolds(run'[q], row')
<1>1. run \in [Runs -> RunStates] /\ row \in Rows
  BY DEF IndInv, TypeOK
<1>2. run' \in [Runs -> RunStates]
  BY <1>1 DEF Becomes
<1>3. ASSUME NEW q \in Runs PROVE RunHolds(run'[q], row')
  <2>1. CASE q = r
    BY <1>1, <2>1 DEF Becomes
  <2>2. CASE q # r
    <3>1. run'[q] = run[q] /\ run[q] \in RunStates /\ RunHolds(run[q], row)
      BY <1>1, <2>2 DEF Becomes, IndInv
    <3>2. run[q].rev \in Nat /\ row.revision \in Nat /\ row'.revision \in Nat
      BY <1>1, <3>1 DEF RunStates, Rows
    <3>3. CopyHolds(run[q], row')
      BY <3>1, <3>2 DEF RunHolds, CopyHolds
    <3> QED  BY <3>1, <3>3 DEF RunHolds
  <2> QED  BY <2>1, <2>2
<1> QED  BY <1>2, <1>3

\* The rest of the state.
LEMMA Closes ==
  ASSUME run' \in [Runs -> RunStates],
         \A q \in Runs : RunHolds(run'[q], row'),
         row' \in Rows, ran' \in Nat, lost' \in Nat, asked' \subseteq Questions,
         acts' \in 0 .. MaxActs, DishWasOffered', QuestionsKept'
  PROVE  IndInv'
BY DEF IndInv, TypeOK

LEMMA StopKeeps ==
  ASSUME IndInv, NEW r \in Runs, NEW reason \in Reasons, Stop(r, reason),
         Finishing(r) => reason \notin {"agent_max_steps", "agent_validation_failed"},
         run[r].stall => reason # "agent_tool_budget_exhausted"
  PROVE  IndInv'
<1>1. run[r] \in RunStates /\ RunHolds(run[r], row) /\ row \in Rows
  BY DEF IndInv, TypeOK
<1>2. UNCHANGED <<row, ran, lost, asked, acts>> /\ Becomes(r, Ended(r, reason))
  BY DEF Stop
<1>3. RunHolds(Ended(r, reason), row') /\ Ended(r, reason) \in RunStates
  BY <1>1, EndedHolds
<1>4. run' \in [Runs -> RunStates] /\ \A q \in Runs : RunHolds(run'[q], row')
  BY <1>1, <1>2, <1>3, OneRunMoves
<1>5. DishWasOffered' /\ QuestionsKept'
  BY <1>2 DEF IndInv, DishWasOffered, QuestionsKept
<1> QED  BY <1>1, <1>2, <1>4, <1>5, Closes DEF IndInv, TypeOK

\* A reason of the loop's own is never one of a recovery's.
LEMMA BudgetReasonHolds ==
  ASSUME NEW r \in Runs, run[r] \in RunStates, RunHolds(run[r], row),
         NEW reason \in Reasons
  PROVE  /\ BudgetReason(r, reason) \in Reasons
         /\ Finishing(r) => BudgetReason(r, reason)
                               \notin {"agent_max_steps", "agent_validation_failed"}
         /\ run[r].stall => BudgetReason(r, reason) # "agent_tool_budget_exhausted"
<1>1. ~(run[r].stall /\ run[r].excess) /\ run[r].stall \in BOOLEAN /\ run[r].excess \in BOOLEAN
  BY DEF RunHolds, RecoversOnce, RunStates
<1>2. CASE run[r].excess
  BY <1>1, <1>2 DEF BudgetReason, Reasons
<1>3. CASE ~run[r].excess /\ run[r].stall
  BY <1>3 DEF BudgetReason, Reasons
<1>4. CASE ~run[r].excess /\ ~run[r].stall
  BY <1>4 DEF BudgetReason, Finishing
<1> QED  BY <1>2, <1>3, <1>4

-----------------------------------------------------------------------------
(* Commits.                                                                *)

\* The compare-and-set: the run's copy is the row it writes.
LEMMA CommitMoves ==
  ASSUME IndInv, NEW r \in Runs, AtWork(run[r]), NEW new \in Rows, Commit(r, new)
  PROVE  /\ run[r].st = row
         /\ row' \in Rows
         /\ row'.revision = row.revision + 1
         /\ row'.steps = new.steps /\ row'.tools = new.tools
         /\ row'.options = new.options /\ row'.dish = new.dish /\ row'.plan = new.plan
         /\ row'.questions = new.questions /\ row'.answered = new.answered
<1>1. row \in Rows /\ RunHolds(run[r], row)
  BY DEF IndInv, TypeOK
<1>2. run[r].st = row
  BY <1>1 DEF Commit, RunHolds, CopyHolds
<1> QED  BY <1>1, <1>2 DEF Commit, Rows

\* A commit that only charges the session.
LEMMA ChargeKeeps ==
  ASSUME IndInv, NEW r \in Runs, AtWork(run[r]), NEW n \in Nat, Commit(r, Charged(n)),
         NEW s \in RunStates, Becomes(r, s), RunHolds(s, row'),
         UNCHANGED <<ran, lost, asked, acts>>
  PROVE  IndInv'
<1>1. row \in Rows
  BY DEF IndInv, TypeOK
<1>2. Charged(n) \in Rows /\ Charged(n).options = row.options /\ Charged(n).dish = row.dish
      /\ Charged(n).plan = row.plan /\ Charged(n).questions = row.questions
      /\ Charged(n).answered = row.answered
  BY <1>1, ChargedTyped
<1>3. /\ row' \in Rows /\ row'.revision = row.revision + 1
      /\ row'.options = row.options /\ row'.dish = row.dish /\ row'.plan = row.plan
      /\ row'.questions = row.questions /\ row'.answered = row.answered
  BY <1>2, CommitMoves
<1>4. run' \in [Runs -> RunStates] /\ \A q \in Runs : RunHolds(run'[q], row')
  BY <1>3, OneRunMoves
<1>5. DishWasOffered' /\ QuestionsKept'
  BY <1>3 DEF IndInv, DishWasOffered, QuestionsKept
<1> QED  BY <1>3, <1>4, <1>5, Closes DEF IndInv, TypeOK

\* The row as it is written, and the run as it goes on.
LEMMA OnwardTyped ==
  ASSUME NEW r \in Runs, run[r] \in RunStates, row' \in Rows
  PROVE  /\ Onward(r) \in RunStates
         /\ Onward(r).pc = "top" /\ Onward(r).rev = row'.revision /\ Onward(r).st = row'
         /\ Onward(r).errs = run[r].errs /\ Onward(r).stall = run[r].stall
         /\ Onward(r).excess = run[r].excess /\ Onward(r).wrap = run[r].wrap
         /\ Onward(r).withheld = run[r].withheld /\ Onward(r).prints = run[r].prints
         /\ Onward(r).finishing = run[r].finishing /\ Onward(r).reason = run[r].reason
         /\ Onward(r).sized /\ Onward(r).calls = << >>
  BY EmptyCalls DEF Onward, RunStates, Rows

\* Going on after a failure of a turn: a finishing turn may be repeated.
LEMMA FailedTurnKeeps ==
  ASSUME IndInv, NEW r \in Runs, NEW sized \in BOOLEAN, FailedTurn(r, sized)
  PROVE  IndInv'
<1>1. row \in Rows /\ run[r] \in RunStates /\ RunHolds(run[r], row)
  BY DEF IndInv, TypeOK
<1>2. run[r].pc = "turn" /\ AtWork(run[r]) /\ Commit(r, Charged(0))
      /\ UNCHANGED <<ran, lost, asked, acts>>
  BY DEF FailedTurn, InTurn, AtWork
<1>3. Charged(0) \in Rows /\ (row.tools = 0 => Charged(0).tools = 0)
  BY <1>1, ChargedTyped DEF Rows
<1>4. run[r].st = row /\ row' \in Rows /\ row'.tools = Charged(0).tools
  BY <1>2, <1>3, CommitMoves
<1>5. CASE TooManyErrors(run[r].errs + 1)
  <2>1. Becomes(r, Ended(r, "agent_no_progress"))
    BY <1>5 DEF FailedTurn
  <2>2. "agent_no_progress" \in Reasons
    BY DEF Reasons
  <2>3. RunHolds(Ended(r, "agent_no_progress"), row') /\ Ended(r, "agent_no_progress") \in RunStates
    BY <1>1, <2>2, EndedHolds
  <2> QED  BY <1>2, <2>1, <2>3, ChargeKeeps
<1>6. CASE ~TooManyErrors(run[r].errs + 1)
  <2> DEFINE s == [Onward(r) EXCEPT !.errs = @ + 1, !.sized = sized \/ run[r].sized]
  <2>1. Becomes(r, s)
    BY <1>6 DEF FailedTurn
  <2>2. s \in RunStates
    <3>1. Onward(r) \in RunStates
      BY <1>1, <1>4, OnwardTyped
    <3>2. (sized \/ run[r].sized) \in BOOLEAN /\ Onward(r).errs + 1 \in Nat
      BY <3>1 DEF RunStates
    <3> QED  BY <3>1, <3>2 DEF RunStates
  <2>3. /\ s.pc = "top" /\ s.rev = row'.revision /\ s.st = row' /\ s.errs = run[r].errs + 1
        /\ s.stall = run[r].stall /\ s.excess = run[r].excess
        /\ s.finishing = run[r].finishing /\ s.reason = run[r].reason /\ s.calls = << >>
    BY <1>1, <1>4, OnwardTyped DEF RunStates
  <2>4. run[r].errs \in Nat /\ run[r].finishing \in Nat /\ row'.revision \in Nat
    BY <1>1, <1>4 DEF RunStates, Rows
  <2>5. run[r].errs + 1 < MaxConsecutiveErrors
    BY <1>6, <2>4 DEF TooManyErrors, MaxConsecutiveErrors
  <2>6. FinishingCounted(s)
    BY <1>1, <1>2, <2>3, <2>4, <2>5
       DEF RunHolds, FinishingCounted, Recovers, MaxConsecutiveErrors
  <2>7. RecoversOnce(s) /\ ReasonHolds(s) /\ CopyHolds(s, row') /\ BatchHolds(s)
    BY <1>1, <1>2, <1>3, <1>4, <2>3, <2>4
       DEF RunHolds, RecoversOnce, ReasonHolds, CopyHolds, BatchHolds, AtWork, Recovers
  <2>8. RunHolds(s, row')
    BY <2>6, <2>7 DEF RunHolds
  <2> HIDE DEF s
  <2> QED  BY <1>2, <2>1, <2>2, <2>8, ChargeKeeps
<1> QED  BY <1>5, <1>6

\* The run goes on from the top, with other locals; what the invariant
\* looks at is as it was, or a recovery that just began.
LEMMA GoesOn ==
  ASSUME NEW r \in Runs, run[r] \in RunStates, RunHolds(run[r], row), row' \in Rows,
         run[r].pc \in {"turn", "tools"}, ~Finishing(r),
         NEW s \in RunStates, s.pc = "top", s.rev = row'.revision, s.st = row',
         s.calls = << >>, s.finishing = run[r].finishing, s.reason = run[r].reason,
         ~(s.stall /\ s.excess), s.excess => row'.tools = 0
  PROVE  RunHolds(s, row')
<1>1. run[r].finishing = 0 /\ run[r].reason = "none"
  BY DEF RunHolds, FinishingCounted, ReasonHolds, Finishing, Recovers
<1>2. row'.revision \in Nat  BY DEF Rows
<1> QED
  BY <1>1, <1>2 DEF RunHolds, FinishingCounted, RecoversOnce, ReasonHolds, CopyHolds,
                    BatchHolds, AtWork, Recovers, MaxConsecutiveErrors

\* A rejected directive.
LEMMA RejectedKeeps ==
  ASSUME IndInv, NEW r \in Runs, NEW checked \in BOOLEAN,
         NEW wrap \in {"unused", "next", "now", "used"}, Rejected(r, checked, wrap)
  PROVE  IndInv'
<1>1. row \in Rows /\ run[r] \in RunStates /\ RunHolds(run[r], row)
  BY DEF IndInv, TypeOK
<1>2. run[r].pc = "turn" /\ AtWork(run[r]) /\ Commit(r, Charged(0))
      /\ UNCHANGED <<ran, lost, asked, acts>>
  BY DEF Rejected, InTurn, AtWork
<1>3. Charged(0) \in Rows
  BY <1>1, ChargedTyped
<1>4. run[r].st = row /\ row' \in Rows
  BY <1>2, <1>3, CommitMoves
<1>5. ASSUME NEW reason \in Reasons, Becomes(r, Ended(r, reason)),
             Finishing(r) => reason \notin {"agent_max_steps", "agent_validation_failed"},
             run[r].stall => reason # "agent_tool_budget_exhausted"
      PROVE  IndInv'
  <2>1. RunHolds(Ended(r, reason), row') /\ Ended(r, reason) \in RunStates
    BY <1>1, <1>5, EndedHolds
  <2> QED  BY <1>2, <1>5, <2>1, ChargeKeeps
<1>6. {"agent_no_progress", "agent_tool_budget_exhausted", "agent_max_steps",
       "agent_validation_failed"} \subseteq Reasons
  BY DEF Reasons
<1>7. CASE run[r].final
  <2>1. Becomes(r, Ended(r, IF run[r].stall THEN "agent_no_progress"
                            ELSE IF run[r].st.tools <= 0
                                 THEN "agent_tool_budget_exhausted"
                                 ELSE "agent_max_steps"))
    BY <1>7 DEF Rejected
  <2>2. CASE run[r].stall
    BY <1>5, <1>6, <2>1, <2>2
  <2>3. CASE ~run[r].stall /\ run[r].st.tools <= 0
    BY <1>5, <1>6, <2>1, <2>3
  <2>4. CASE ~run[r].stall /\ ~(run[r].st.tools <= 0)
    <3>1. ~Finishing(r)
      BY <1>1, <1>2, <2>4 DEF RunHolds, RecoversOnce, Finishing, Rows
    <3> QED  BY <1>5, <1>6, <2>1, <2>4, <3>1
  <2> QED  BY <2>2, <2>3, <2>4
<1>8. CASE ~run[r].final
  <2>1. ~Finishing(r) /\ ~run[r].stall /\ ~run[r].excess
    BY <1>1, <1>2, <1>8 DEF RunHolds, RecoversOnce, Recovers, Finishing
  <2>2. CASE run[r].retried
    <3>1. Becomes(r, Ended(r, "agent_validation_failed"))
      BY <1>8, <2>2 DEF Rejected
    <3> QED  BY <1>5, <1>6, <2>1, <3>1
  <2>3. CASE ~run[r].retried /\ checked /\ TooManyErrors(run[r].errs + 1)
    <3>1. Becomes(r, Ended(r, "agent_no_progress"))
      BY <1>8, <2>3 DEF Rejected
    <3> QED  BY <1>5, <1>6, <2>1, <3>1
  <2>4. CASE ~run[r].retried /\ ~(checked /\ TooManyErrors(run[r].errs + 1))
    <3> DEFINE s == [Onward(r) EXCEPT !.errs = @ + 1, !.retried = TRUE, !.wrap = wrap]
    <3>1. Becomes(r, s)
      BY <1>8, <2>4 DEF Rejected
    <3>2. Onward(r) \in RunStates /\ Onward(r).errs + 1 \in Nat
      BY <1>1, <1>4, OnwardTyped DEF RunStates
    <3>3. s \in RunStates
      BY <3>2 DEF RunStates
    <3>4. /\ s.pc = "top" /\ s.rev = row'.revision /\ s.st = row'
          /\ s.stall = run[r].stall /\ s.excess = run[r].excess
          /\ s.finishing = run[r].finishing /\ s.reason = run[r].reason /\ s.calls = << >>
      BY <1>1, <1>4, OnwardTyped DEF RunStates
    <3> HIDE DEF s
    <3>5. RunHolds(s, row')
      BY <1>1, <1>2, <1>4, <2>1, <3>3, <3>4, GoesOn
    <3> QED  BY <1>2, <3>1, <3>3, <3>5, ChargeKeeps
  <2> QED  BY <2>2, <2>3, <2>4
<1> QED  BY <1>7, <1>8

-----------------------------------------------------------------------------
(* The tools.                                                              *)

\* A batch: what runs is finite, and a batch cut short uses the budget up.
LEMMA ToolCallsKeeps ==
  ASSUME IndInv, NEW r \in Runs, NEW batch \in Batches, ToolCalls(r, batch)
  PROVE  IndInv'
<1> DEFINE runnable == { i \in DOMAIN batch : batch[i] \in Offered(r) }
           affordable == IF Cardinality(runnable) < run[r].st.tools
                         THEN Cardinality(runnable) ELSE run[r].st.tools
<1>1. row \in Rows /\ run[r] \in RunStates /\ RunHolds(run[r], row)
  BY DEF IndInv, TypeOK
<1>2. PICK first \in SUBSET runnable :
        /\ Cardinality(first) = affordable
        /\ Becomes(r, [run[r] EXCEPT
                            !.pc = "tools",
                            !.calls = [i \in first |-> batch[i]],
                            !.over = Cardinality(runnable) > affordable])
  BY DEF ToolCalls
<1>3. run[r].pc = "turn" /\ ran' = ran + affordable /\ UNCHANGED <<row, lost, asked, acts>>
  BY DEF ToolCalls, InTurn
<1> DEFINE c == [i \in first |-> batch[i]]
           s == [run[r] EXCEPT !.pc = "tools", !.calls = c,
                               !.over = Cardinality(runnable) > affordable]
<1>4. DOMAIN batch \subseteq 1 .. MaxBatch
  BY LoopAssumption DEF Batches
<1>5. IsFiniteSet(runnable) /\ Cardinality(runnable) \in Nat
  <2>1. IsFiniteSet(1 .. MaxBatch) /\ runnable \subseteq 1 .. MaxBatch
    BY <1>4, FS_Interval, LoopAssumption
  <2> QED  BY <2>1, FS_Subset, FS_CardinalityType
<1>6. c \in CallSets /\ DOMAIN c = first
  <2>1. first \in SUBSET (1 .. MaxBatch)
    BY <1>4
  <2>2. \A i \in first : batch[i] \in Tools
    BY DEF Offered
  <2> QED  BY <2>1, <2>2 DEF CallSets
<1>7. run[r].st.tools \in Nat /\ affordable \in Nat
  BY <1>1, <1>5 DEF RunStates, Rows
<1>8. (Cardinality(runnable) > affordable) \in BOOLEAN /\ affordable <= run[r].st.tools
      /\ (Cardinality(runnable) > affordable => affordable = run[r].st.tools)
  BY <1>5, <1>7
<1> HIDE DEF c, runnable, affordable
<1>9. /\ s \in RunStates
      /\ s.pc = "tools" /\ s.rev = run[r].rev /\ s.st = run[r].st /\ s.errs = run[r].errs
      /\ s.stall = run[r].stall /\ s.excess = run[r].excess
      /\ s.finishing = run[r].finishing /\ s.reason = run[r].reason
      /\ s.calls = c /\ (s.over => affordable = run[r].st.tools)
  BY <1>1, <1>6, <1>8 DEF RunStates
<1>10. Becomes(r, s)
  BY <1>2 DEF c
<1> HIDE DEF s
<1>11. RunHolds(s, row)
  BY <1>1, <1>2, <1>3, <1>6, <1>8, <1>9
     DEF RunHolds, FinishingCounted, RecoversOnce, ReasonHolds, CopyHolds,
         BatchHolds, AtWork, Recovers
<1>12. run' \in [Runs -> RunStates] /\ \A q \in Runs : RunHolds(run'[q], row')
  BY <1>1, <1>3, <1>9, <1>10, <1>11, OneRunMoves
<1>13. DishWasOffered' /\ QuestionsKept'
  BY <1>3 DEF IndInv, DishWasOffered, QuestionsKept
<1>14. ran' \in Nat
  BY <1>3, <1>7 DEF IndInv, TypeOK
<1> QED  BY <1>1, <1>3, <1>12, <1>13, <1>14, Closes DEF IndInv, TypeOK

LEMMA MadeTyped ==
  ASSUME NEW r \in Runs, run[r] \in RunStates
  PROVE  Made(r) \in Nat
<1>1. run[r].calls \in CallSets  BY DEF RunStates
<1> QED  BY <1>1, CallsFinite DEF Made

LEMMA PrintsTyped ==
  ASSUME NEW r \in Runs, run[r] \in RunStates, NEW new
  PROVE  PrintsAfter(r, new) \in Fingerprints
<1>1. run[r].calls \in CallSets /\ run[r].prints \in Fingerprints
  BY DEF RunStates
<1>2. ASSUME NEW t \in Tools
      PROVE  LET at == { i \in DOMAIN run[r].calls : run[r].calls[i] = t }
             IN run[r].prints[t].count + Cardinality(at) \in Nat
  <2>1. { i \in DOMAIN run[r].calls : run[r].calls[i] = t } \in SUBSET DOMAIN run[r].calls
    OBVIOUS
  <2>2. Cardinality({ i \in DOMAIN run[r].calls : run[r].calls[i] = t }) \in Nat
    BY <1>1, <2>1, CallsFinite
  <2>3. run[r].prints[t].count \in Nat
    BY <1>1 DEF Fingerprints
  <2> QED  BY <2>2, <2>3
<1>3. \A t \in Tools : run[r].prints[t].same \in BOOLEAN
  BY <1>1 DEF Fingerprints
<1> QED  BY <1>2, <1>3 DEF PrintsAfter, Fingerprints

\* The results of a batch: the end of a recovery, its beginning, or the
\* next turn.
LEMMA ToolsDoneKeeps ==
  ASSUME IndInv, NEW r \in Runs, NEW ok \in BOOLEAN, NEW new, ToolsDone(r, ok, new)
  PROVE  IndInv'
<1> DEFINE errs == IF ok THEN 0 ELSE run[r].errs + 1
           on == [Onward(r) EXCEPT
               !.errs = errs,
               !.prints = PrintsAfter(r, new),
               !.wrap = IF WrapsUp(r, new) THEN "next" ELSE @,
               !.withheld = IF WrapsUp(r, new) THEN ToSet(run[r].calls) ELSE @]
<1>1. row \in Rows /\ run[r] \in RunStates /\ RunHolds(run[r], row)
  BY DEF IndInv, TypeOK
<1>2. run[r].pc = "tools" /\ AtWork(run[r]) /\ Commit(r, Charged(Made(r)))
      /\ Becomes(r, AfterTools(r, new, errs)) /\ UNCHANGED <<ran, lost, asked, acts>>
  BY DEF ToolsDone, AtWork
<1>3. Made(r) \in Nat /\ Charged(Made(r)) \in Rows
  BY <1>1, MadeTyped, ChargedTyped
<1>4. run[r].st = row /\ row' \in Rows /\ row'.tools = Charged(Made(r)).tools
  BY <1>2, <1>3, CommitMoves
<1>5. run[r].over => row'.tools = 0
  <2>1. run[r].over => Made(r) = row.tools
    BY <1>1, <1>2, <1>4 DEF RunHolds, BatchHolds, Made
  <2>2. row.tools \in Nat
    BY <1>1 DEF Rows
  <2> QED  BY <1>1, <1>3, <1>4, <2>1, <2>2, ChargedTyped
<1>6. /\ on \in RunStates /\ on.pc = "top" /\ on.rev = row'.revision /\ on.st = row'
      /\ on.calls = << >> /\ on.stall = run[r].stall /\ on.excess = run[r].excess
      /\ on.finishing = run[r].finishing /\ on.reason = run[r].reason
  <2>1. /\ Onward(r) \in RunStates
        /\ Onward(r).pc = "top" /\ Onward(r).rev = row'.revision /\ Onward(r).st = row'
        /\ Onward(r).stall = run[r].stall /\ Onward(r).excess = run[r].excess
        /\ Onward(r).finishing = run[r].finishing /\ Onward(r).reason = run[r].reason
        /\ Onward(r).calls = << >>
    BY <1>1, <1>4, OnwardTyped
  <2>2. errs \in Nat
    BY <1>1 DEF RunStates
  <2>3. PrintsAfter(r, new) \in Fingerprints
    BY <1>1, PrintsTyped
  <2>4. ToSet(run[r].calls) \in SUBSET Tools
    <3>1. run[r].calls \in CallSets  BY <1>1 DEF RunStates
    <3> QED  BY <3>1, CallsFinite DEF ToSet
  <2>5. (IF WrapsUp(r, new) THEN "next" ELSE Onward(r).wrap) \in {"unused", "next", "now", "used"}
        /\ (IF WrapsUp(r, new) THEN ToSet(run[r].calls) ELSE Onward(r).withheld) \in SUBSET Tools
    BY <2>1, <2>4 DEF RunStates
  <2> HIDE DEF errs
  <2> QED  BY <2>1, <2>2, <2>3, <2>5 DEF RunStates
<1> HIDE DEF on, errs
<1>7. AfterTools(r, new, errs) =
        CASE Stalled(r, new) /\ Finishing(r) -> Ended(r, "agent_no_progress")
          [] ~(Stalled(r, new) /\ Finishing(r)) /\ Finishing(r) ->
               Ended(r, BudgetReason(r, "none"))
          [] ~Finishing(r) /\ run[r].over -> [on EXCEPT !.excess = TRUE]
          [] ~Finishing(r) /\ ~run[r].over /\ Stalled(r, new) ->
               [on EXCEPT !.stall = TRUE]
          [] OTHER -> IF TooManyErrors(errs) THEN Ended(r, "agent_no_progress")
                                             ELSE on
  BY DEF AfterTools, on
<1>8. ASSUME NEW reason \in Reasons, Becomes(r, Ended(r, reason)),
             Finishing(r) => reason \notin {"agent_max_steps", "agent_validation_failed"},
             run[r].stall => reason # "agent_tool_budget_exhausted"
      PROVE  IndInv'
  <2>1. RunHolds(Ended(r, reason), row') /\ Ended(r, reason) \in RunStates
    BY <1>1, <1>8, EndedHolds
  <2> QED  BY <1>2, <1>3, <1>8, <2>1, ChargeKeeps
<1>9. ASSUME NEW s \in RunStates, Becomes(r, s), ~Finishing(r),
             s.pc = "top", s.rev = row'.revision, s.st = row',
             s.calls = << >>, s.finishing = run[r].finishing, s.reason = run[r].reason,
             ~(s.stall /\ s.excess), s.excess => row'.tools = 0
      PROVE  IndInv'
  <2>1. RunHolds(s, row')
    BY <1>1, <1>2, <1>4, <1>9, GoesOn
  <2> QED  BY <1>2, <1>3, <1>9, <2>1, ChargeKeeps
<1>10. {"agent_no_progress", "none"} \subseteq Reasons
  BY DEF Reasons
<1>11. CASE Finishing(r) /\ Stalled(r, new)
  <2>1. Becomes(r, Ended(r, "agent_no_progress"))
    BY <1>2, <1>7, <1>11
  <2> QED  BY <1>8, <1>10, <2>1
<1>12. CASE Finishing(r) /\ ~Stalled(r, new)
  <2>1. Becomes(r, Ended(r, BudgetReason(r, "none")))
    BY <1>2, <1>7, <1>12
  <2>2. /\ BudgetReason(r, "none") \in Reasons
        /\ Finishing(r) => BudgetReason(r, "none")
                               \notin {"agent_max_steps", "agent_validation_failed"}
        /\ run[r].stall => BudgetReason(r, "none") # "agent_tool_budget_exhausted"
    BY <1>1, <1>10, BudgetReasonHolds
  <2> QED  BY <1>8, <2>1, <2>2
<1>13. CASE ~Finishing(r) /\ run[r].over
  <2> DEFINE s == [on EXCEPT !.excess = TRUE]
  <2>1. Becomes(r, s)
    BY <1>2, <1>7, <1>13
  <2>2. /\ s \in RunStates /\ s.pc = "top" /\ s.rev = row'.revision /\ s.st = row'
        /\ s.calls = << >> /\ s.finishing = run[r].finishing /\ s.reason = run[r].reason
        /\ s.stall = run[r].stall
    BY <1>6 DEF RunStates
  <2>3. ~run[r].stall
    BY <1>13 DEF Finishing
  <2> HIDE DEF s
  <2> QED  BY <1>5, <1>9, <1>13, <2>1, <2>2, <2>3
<1>14. CASE ~Finishing(r) /\ ~run[r].over /\ Stalled(r, new)
  <2> DEFINE s == [on EXCEPT !.stall = TRUE]
  <2>1. Becomes(r, s)
    BY <1>2, <1>7, <1>14
  <2>2. /\ s \in RunStates /\ s.pc = "top" /\ s.rev = row'.revision /\ s.st = row'
        /\ s.calls = << >> /\ s.finishing = run[r].finishing /\ s.reason = run[r].reason
        /\ s.excess = run[r].excess
    BY <1>6 DEF RunStates
  <2>3. ~run[r].excess
    BY <1>14 DEF Finishing
  <2> HIDE DEF s
  <2> QED  BY <1>9, <1>14, <2>1, <2>2, <2>3
<1>15. CASE ~Finishing(r) /\ ~run[r].over /\ ~Stalled(r, new)
  <2>1. Becomes(r, IF TooManyErrors(errs) THEN Ended(r, "agent_no_progress") ELSE on)
    BY <1>2, <1>7, <1>15
  <2>2. CASE TooManyErrors(errs)
    BY <1>8, <1>10, <2>1, <2>2
  <2>3. CASE ~TooManyErrors(errs)
    <3>1. ~on.stall /\ ~on.excess
      BY <1>6, <1>15 DEF Finishing
    <3> QED  BY <1>6, <1>9, <1>15, <2>1, <2>3, <3>1
  <2> QED  BY <2>2, <2>3
<1> QED  BY <1>11, <1>12, <1>13, <1>14, <1>15

-----------------------------------------------------------------------------
(* The end of a run with its calls lost, and its beginning.                *)

LEMMA LosesKeeps ==
  ASSUME IndInv, NEW r \in Runs, NEW reason \in {"stale_revision", "interrupted"},
         Becomes(r, Ended(r, reason)), lost' = lost + Made(r),
         UNCHANGED <<row, ran, asked, acts>>
  PROVE  IndInv'
<1>1. row \in Rows /\ run[r] \in RunStates /\ RunHolds(run[r], row)
  BY DEF IndInv, TypeOK
<1>2. reason \in Reasons
  BY DEF Reasons
<1>3. RunHolds(Ended(r, reason), row') /\ Ended(r, reason) \in RunStates
  BY <1>1, <1>2, EndedHolds
<1>4. run' \in [Runs -> RunStates] /\ \A q \in Runs : RunHolds(run'[q], row')
  BY <1>1, <1>3, OneRunMoves
<1>5. DishWasOffered' /\ QuestionsKept' /\ lost' \in Nat
  BY <1>1, MadeTyped DEF IndInv, DishWasOffered, QuestionsKept, TypeOK
<1> QED  BY <1>1, <1>4, <1>5, Closes DEF IndInv, TypeOK

LEMMA OpenStreamKeeps ==
  ASSUME IndInv, NEW r \in Runs, NEW pinned \in BOOLEAN, OpenStream(r, pinned)
  PROVE  IndInv'
<1> DEFINE s == [run[r] EXCEPT !.pc = "opened", !.rev = IF pinned THEN row.revision ELSE 0]
<1>1. row \in Rows /\ run[r] \in RunStates /\ RunHolds(run[r], row)
  BY DEF IndInv, TypeOK
<1>2. run[r].pc = "idle" /\ Becomes(r, s) /\ UNCHANGED <<row, ran, lost, asked, acts>>
  BY DEF OpenStream
<1>3. (IF pinned THEN row.revision ELSE 0) \in Nat
  BY <1>1 DEF Rows
<1>4. s \in RunStates /\ s.pc = "opened" /\ s.calls = run[r].calls /\ s.stall = run[r].stall
      /\ s.excess = run[r].excess /\ s.finishing = run[r].finishing /\ s.reason = run[r].reason
  BY <1>1, <1>3 DEF RunStates
<1> HIDE DEF s
<1>5. RunHolds(s, row')
  BY <1>1, <1>2, <1>4
     DEF RunHolds, FinishingCounted, RecoversOnce, ReasonHolds, CopyHolds,
         BatchHolds, AtWork, Recovers
<1>6. run' \in [Runs -> RunStates] /\ \A q \in Runs : RunHolds(run'[q], row')
  BY <1>1, <1>2, <1>4, <1>5, OneRunMoves
<1>7. DishWasOffered' /\ QuestionsKept'
  BY <1>2 DEF IndInv, DishWasOffered, QuestionsKept
<1> QED  BY <1>1, <1>2, <1>6, <1>7, Closes DEF IndInv, TypeOK

LEMMA RunStartKeeps ==
  ASSUME IndInv, NEW r \in Runs, RunStart(r)
  PROVE  IndInv'
<1> DEFINE s == [run[r] EXCEPT !.pc = "top", !.rev = row.revision, !.st = row]
<1>1. row \in Rows /\ run[r] \in RunStates /\ RunHolds(run[r], row)
  BY DEF IndInv, TypeOK
<1>2. run[r].pc = "opened" /\ Becomes(r, s) /\ UNCHANGED <<row, ran, lost, asked, acts>>
  BY DEF RunStart
<1>3. row.revision \in Nat
  BY <1>1 DEF Rows
<1>4. s \in RunStates /\ s.pc = "top" /\ s.calls = run[r].calls /\ s.stall = run[r].stall
      /\ s.excess = run[r].excess /\ s.finishing = run[r].finishing /\ s.reason = run[r].reason
      /\ s.rev = row.revision /\ s.st = row
  BY <1>1, <1>3 DEF RunStates
<1> HIDE DEF s
<1>5. run[r].finishing = 0
  BY <1>1, <1>2 DEF RunHolds, FinishingCounted
<1>6. ~run[r].excess /\ ~run[r].stall
  BY <1>1, <1>2 DEF RunHolds, RecoversOnce, Recovers
<1>7. RunHolds(s, row')
  BY <1>1, <1>2, <1>3, <1>4, <1>5, <1>6
     DEF RunHolds, FinishingCounted, RecoversOnce, ReasonHolds, CopyHolds,
         BatchHolds, AtWork, Recovers
<1>8. run' \in [Runs -> RunStates] /\ \A q \in Runs : RunHolds(run'[q], row')
  BY <1>1, <1>2, <1>4, <1>7, OneRunMoves
<1>9. DishWasOffered' /\ QuestionsKept'
  BY <1>2 DEF IndInv, DishWasOffered, QuestionsKept
<1> QED  BY <1>1, <1>2, <1>8, <1>9, Closes DEF IndInv, TypeOK

\* A turn that is to recover goes without tools.
LEMMA SendTurnKeeps ==
  ASSUME IndInv, NEW r \in Runs, NEW growth \in BOOLEAN, SendTurn(r, growth)
  PROVE  IndInv'
<1> DEFINE wrap == IF run[r].wrap = "next" /\ ~MustBeFinal(r) THEN "now"
                   ELSE IF run[r].wrap = "unused" THEN "unused" ELSE "used"
           s == [run[r] EXCEPT
                   !.pc = "turn", !.final = MustBeFinal(r) \/ growth,
                   !.wrap = wrap,
                   !.finishing = IF Finishing(r) THEN @ + 1 ELSE @ ]
<1>1. row \in Rows /\ run[r] \in RunStates /\ RunHolds(run[r], row)
  BY DEF IndInv, TypeOK
<1>2. run[r].pc = "top" /\ Becomes(r, s) /\ UNCHANGED <<row, ran, lost, asked, acts>>
  BY DEF SendTurn
<1>3. wrap \in {"unused", "next", "now", "used"} /\ run[r].finishing \in Nat /\ run[r].errs \in Nat
  BY <1>1 DEF RunStates
<1> HIDE DEF wrap
<1>4. (MustBeFinal(r) \/ growth) \in BOOLEAN
  BY DEF MustBeFinal
<1>5. (IF Finishing(r) THEN run[r].finishing + 1 ELSE run[r].finishing) \in Nat
  BY <1>3
<1>6. /\ s \in RunStates /\ s.pc = "turn" /\ s.calls = run[r].calls /\ s.stall = run[r].stall
      /\ s.excess = run[r].excess /\ s.reason = run[r].reason
      /\ s.rev = run[r].rev /\ s.st = run[r].st /\ s.errs = run[r].errs
      /\ s.finishing = IF Finishing(r) THEN run[r].finishing + 1 ELSE run[r].finishing
      /\ s.final = (MustBeFinal(r) \/ growth)
  BY <1>1, <1>3, <1>4, <1>5 DEF RunStates
<1> HIDE DEF s
<1>7. Finishing(r) => s.final
  <2>1. run[r].excess => run[r].st.tools = 0
    BY <1>1, <1>2 DEF RunHolds, RecoversOnce, AtWork
  <2>2. Finishing(r) => MustBeFinal(r)
    BY <2>1 DEF MustBeFinal, Finishing
  <2> QED  BY <1>6, <2>2
<1>8. FinishingCounted(s)
  BY <1>1, <1>2, <1>3, <1>6
     DEF RunHolds, FinishingCounted, Recovers, Finishing, MaxConsecutiveErrors
<1>9. RunHolds(s, row')
  BY <1>1, <1>2, <1>6, <1>7, <1>8
     DEF RunHolds, RecoversOnce, ReasonHolds, CopyHolds,
         BatchHolds, AtWork, Recovers, Finishing
<1>10. run' \in [Runs -> RunStates] /\ \A q \in Runs : RunHolds(run'[q], row')
  BY <1>1, <1>2, <1>6, <1>9, OneRunMoves
<1>11. DishWasOffered' /\ QuestionsKept'
  BY <1>2 DEF IndInv, DishWasOffered, QuestionsKept
<1> QED  BY <1>1, <1>2, <1>10, <1>11, Closes DEF IndInv, TypeOK

-----------------------------------------------------------------------------
(* Turns that end the run well, and the user.                              *)

\* A commit that ends the run: the row it leaves is for the caller to judge.
LEMMA EndCommits ==
  ASSUME IndInv, NEW r \in Runs, run[r].pc = "turn", NEW new \in Rows, Commit(r, new),
         NEW reason \in {"agent_needs_user_input", "agent_sufficient_evidence"},
         Becomes(r, Ended(r, reason)), UNCHANGED <<ran, lost, acts>>,
         asked' \subseteq Questions, DishWasOffered', QuestionsKept'
  PROVE  IndInv'
<1>1. row \in Rows /\ run[r] \in RunStates /\ RunHolds(run[r], row) /\ AtWork(run[r])
  BY DEF IndInv, TypeOK, AtWork
<1>2. row' \in Rows /\ row'.revision = row.revision + 1
  BY <1>1, CommitMoves
<1>3. reason \in Reasons
  BY DEF Reasons
<1>4. RunHolds(Ended(r, reason), row') /\ Ended(r, reason) \in RunStates
  BY <1>1, <1>3, EndedHolds
<1>5. run' \in [Runs -> RunStates] /\ \A q \in Runs : RunHolds(run'[q], row')
  BY <1>2, <1>4, OneRunMoves
<1> QED  BY <1>2, <1>5, Closes DEF IndInv, TypeOK

LEMMA AskKeeps ==
  ASSUME IndInv, NEW r \in Runs, NEW q \in Questions, NEW target \in Phases, Ask(r, q, target)
  PROVE  IndInv'
<1> DEFINE new == [Charged(0) EXCEPT !.questions = @ \cup {q}, !.phase = target]
<1>1. row \in Rows /\ asked \subseteq Questions
  BY DEF IndInv, TypeOK
<1>2. run[r].pc = "turn" /\ AtWork(run[r]) /\ Commit(r, new) /\ asked' = asked \cup {q}
      /\ Becomes(r, Ended(r, "agent_needs_user_input")) /\ UNCHANGED <<ran, lost, acts>>
  BY DEF Ask, InTurn, AtWork
<1>3. /\ new \in Rows /\ new.options = row.options /\ new.dish = row.dish /\ new.plan = row.plan
      /\ new.questions = row.questions \cup {q} /\ new.answered = row.answered
  BY <1>1, ChargedTyped DEF Rows
<1> HIDE DEF new
<1>4. DishWasOffered' /\ QuestionsKept'
  BY <1>2, <1>3, CommitMoves DEF IndInv, DishWasOffered, QuestionsKept
<1>5. asked' \subseteq Questions
  BY <1>1, <1>2
<1> QED  BY <1>2, <1>3, <1>4, <1>5, EndCommits

\* A finish leaves a dish that was offered, and its plan or none.
LEMMA FinishKeeps ==
  ASSUME IndInv, NEW r \in Runs, NEW target \in Phases, NEW change \in Rows,
         Finish(r, target, change),
         change.questions = row.questions, change.answered = row.answered,
         run[r].st = row =>
           /\ change.dish \in change.options \cup {NoDish}
           /\ change.plan # NoDish => change.dish # NoDish
  PROVE  IndInv'
<1> DEFINE new == [change EXCEPT !.phase = target]
<1>1. run[r].pc = "turn" /\ AtWork(run[r]) /\ Commit(r, new)
      /\ Becomes(r, Ended(r, "agent_sufficient_evidence")) /\ UNCHANGED <<ran, lost, asked, acts>>
  BY DEF Finish, InTurn, AtWork
<1>2. /\ new \in Rows /\ new.options = change.options /\ new.dish = change.dish
      /\ new.plan = change.plan
      /\ new.questions = row.questions /\ new.answered = row.answered
  BY DEF Rows
<1> HIDE DEF new
<1>3. DishWasOffered' /\ QuestionsKept'
  BY <1>1, <1>2, CommitMoves DEF IndInv, DishWasOffered, QuestionsKept
<1>4. asked' \subseteq Questions
  BY <1>1 DEF IndInv, TypeOK
<1> QED  BY <1>1, <1>2, <1>3, <1>4, EndCommits

LEMMA FinishingTurnKeeps ==
  ASSUME IndInv, NEW r \in Runs, FinishingTurn(r)
  PROVE  IndInv'
<1>1. row \in Rows /\ run[r] \in RunStates /\ DishWasOffered
  BY DEF IndInv, TypeOK
<1>2. /\ Charged(0) \in Rows
      /\ Charged(0).options = row.options /\ Charged(0).dish = row.dish
      /\ Charged(0).plan = row.plan
      /\ Charged(0).questions = row.questions /\ Charged(0).answered = row.answered
  BY <1>1, ChargedTyped
<1>3. /\ {"clarify", "recommend", PlanTarget, AnswerTarget(r)} \subseteq Phases
      /\ MoveTos \subseteq Phases
  <2>1. run[r].st.phase \in Phases
    BY <1>1 DEF RunStates, Rows
  <2>2. AnswerTarget(r) \in Phases
    BY <2>1 DEF AnswerTarget, Phases
  <2> QED  BY <2>2, LoopAssumption DEF Phases, PlanTarget
<1>4. ASSUME NEW q \in Questions, NEW p \in MoveTos \cup {"clarify"}, Ask(r, q, p)
      PROVE  IndInv'
  BY <1>3, <1>4, AskKeeps
<1>5. ASSUME NEW o \in (SUBSET Dishes) \ {{}}, NEW p \in MoveTos \cup {"recommend"},
             FinishOptions(r, o, p)
      PROVE  IndInv'
  <2> DEFINE change == [Charged(0) EXCEPT !.options = o,
                                          !.dish = IF NewDish(r) THEN NoDish ELSE @,
                                          !.plan = IF NewDish(r) THEN NoDish ELSE @]
  <2>1. Finish(r, p, change) /\ (run[r].st.dish # NoDish => NewDish(r))
    BY <1>5 DEF FinishOptions
  <2>2. /\ change \in Rows /\ change.options = o
        /\ change.dish = (IF NewDish(r) THEN NoDish ELSE row.dish)
        /\ change.plan = (IF NewDish(r) THEN NoDish ELSE row.plan)
        /\ change.questions = row.questions /\ change.answered = row.answered
    BY <1>2 DEF Rows
  <2> HIDE DEF change
  <2>3. run[r].st = row => /\ change.dish \in change.options \cup {NoDish}
                           /\ change.plan # NoDish => change.dish # NoDish
    BY <1>1, <2>1, <2>2 DEF DishWasOffered
  <2> QED  BY <1>3, <2>1, <2>2, <2>3, FinishKeeps
<1>6. ASSUME NEW p \in MoveTos \cup {PlanTarget}, FinishPlan(r, p)
      PROVE  IndInv'
  <2> DEFINE change == [Charged(0) EXCEPT !.plan = run[r].st.dish]
  <2>1. Finish(r, p, change) /\ run[r].st.dish # NoDish
    BY <1>6 DEF FinishPlan
  <2>2. run[r].st.dish \in Dishes \cup {NoDish}
    BY <1>1 DEF RunStates, Rows
  <2>3. /\ change \in Rows /\ change.options = row.options /\ change.dish = row.dish
        /\ change.plan = run[r].st.dish
        /\ change.questions = row.questions /\ change.answered = row.answered
    BY <1>2, <2>2 DEF Rows
  <2> HIDE DEF change
  <2>4. run[r].st = row => /\ change.dish \in change.options \cup {NoDish}
                           /\ change.plan # NoDish => change.dish # NoDish
    BY <1>1, <2>1, <2>3 DEF DishWasOffered
  <2> QED  BY <1>3, <2>1, <2>3, <2>4, FinishKeeps
<1>7. ASSUME NEW p \in MoveTos \cup {AnswerTarget(r)}, FinishAnswer(r, p)
      PROVE  IndInv'
  <2>1. Finish(r, p, Charged(0))
    BY <1>7 DEF FinishAnswer
  <2> QED  BY <1>1, <1>2, <1>3, <2>1, FinishKeeps DEF DishWasOffered
<1> QED  BY <1>4, <1>5, <1>6, <1>7 DEF FinishingTurn

\* The user writes the row; runs only find it changed.
LEMMA UserKeeps ==
  ASSUME IndInv, User
  PROVE  IndInv'
<1>1. row \in Rows /\ run \in [Runs -> RunStates] /\ DishWasOffered /\ QuestionsKept
      /\ acts \in 0 .. MaxActs /\ row.revision \in Nat
  BY DEF IndInv, TypeOK, Rows
<1>2. acts' \in 0 .. MaxActs /\ UNCHANGED <<run, ran, lost, asked>>
  <2>1. Acts => acts' \in 0 .. MaxActs
    BY <1>1, LoopAssumption DEF Acts
  <2>2. User => Acts /\ UNCHANGED <<run, ran, lost, asked>>
    BY DEF User, Answer, Select, SetPermission
  <2> QED  BY <2>1, <2>2
<1>3. row' \in Rows /\ row'.revision = row.revision + 1 /\ DishWasOffered' /\ QuestionsKept'
  <2>1. ASSUME NEW q \in Questions, Answer(q)
        PROVE  row' \in Rows /\ row'.revision = row.revision + 1 /\ DishWasOffered' /\ QuestionsKept'
    <3>1. /\ row' = [row EXCEPT !.revision = @ + 1, !.questions = @ \ {q},
                                !.answered = @ \cup {q}]
          /\ q \in row.questions /\ asked' = asked
      BY <2>1 DEF Answer
    <3>2. row' \in Rows /\ row'.revision = row.revision + 1 /\ row'.options = row.options
          /\ row'.dish = row.dish /\ row'.plan = row.plan
          /\ row'.questions = row.questions \ {q} /\ row'.answered = row.answered \cup {q}
      <4>1. /\ row.revision + 1 \in Nat /\ row.questions \ {q} \in SUBSET Questions
            /\ row.answered \cup {q} \in SUBSET Questions
        BY <1>1 DEF Rows
      <4> QED  BY <1>1, <3>1, <4>1 DEF Rows
    <3> QED  BY <1>1, <3>1, <3>2 DEF DishWasOffered, QuestionsKept
  <2>2. ASSUME NEW d \in Dishes, Select(d)
        PROVE  row' \in Rows /\ row'.revision = row.revision + 1 /\ DishWasOffered' /\ QuestionsKept'
    <3>1. /\ row' = [row EXCEPT !.revision = @ + 1, !.dish = d, !.phase = "select"]
          /\ d \in row.options /\ asked' = asked
      BY <2>2 DEF Select
    <3>2. row' \in Rows /\ row'.revision = row.revision + 1 /\ row'.options = row.options
          /\ row'.dish = d /\ row'.plan = row.plan
          /\ row'.questions = row.questions /\ row'.answered = row.answered
      <4>1. row.revision + 1 \in Nat /\ d \in Dishes \cup {NoDish} /\ "select" \in Phases
        BY <1>1 DEF Phases
      <4> QED  BY <1>1, <3>1, <4>1 DEF Rows
    <3>3. d # NoDish
      BY LoopAssumption
    <3> QED  BY <1>1, <3>1, <3>2, <3>3 DEF DishWasOffered, QuestionsKept
  <2>3. ASSUME SetPermission
        PROVE  row' \in Rows /\ row'.revision = row.revision + 1 /\ DishWasOffered' /\ QuestionsKept'
    <3>1. row' = [row EXCEPT !.revision = @ + 1] /\ asked' = asked
      BY <2>3 DEF SetPermission
    <3>2. row' \in Rows /\ row'.revision = row.revision + 1 /\ row'.options = row.options
          /\ row'.dish = row.dish /\ row'.plan = row.plan
          /\ row'.questions = row.questions /\ row'.answered = row.answered
      BY <1>1, <3>1 DEF Rows
    <3> QED  BY <1>1, <3>1, <3>2 DEF DishWasOffered, QuestionsKept
  <2> QED  BY <2>1, <2>2, <2>3 DEF User
<1>4. ASSUME NEW q \in Runs PROVE RunHolds(run'[q], row')
  <2>1. run'[q] = run[q] /\ run[q] \in RunStates /\ RunHolds(run[q], row)
    BY <1>1, <1>2 DEF IndInv
  <2>2. run[q].rev \in Nat
    BY <2>1 DEF RunStates
  <2>3. CopyHolds(run[q], row')
    BY <1>1, <1>3, <2>1, <2>2 DEF RunHolds, CopyHolds
  <2> QED  BY <2>1, <2>3 DEF RunHolds
<1>5. run' \in [Runs -> RunStates] /\ ran' \in Nat /\ lost' \in Nat /\ asked' \subseteq Questions
  BY <1>2 DEF IndInv, TypeOK
<1> QED  BY <1>2, <1>3, <1>4, <1>5, Closes

-----------------------------------------------------------------------------
(* The invariant holds, and what follows from it.                          *)

LEMMA InitHolds == Init => IndInv
<1> SUFFICES ASSUME Init PROVE IndInv
  OBVIOUS
<1>1. row \in Rows /\ IdleRun \in RunStates /\ row = FirstRow
      /\ run = [r \in Runs |-> IdleRun] /\ ran = 0 /\ lost = 0 /\ asked = {} /\ acts = 0
  BY FirstRowTyped, IdleRunTyped DEF Init
<1>2. TypeOK
  BY <1>1, LoopAssumption DEF TypeOK
<1>3. \A r \in Runs : RunHolds(run[r], row)
  BY <1>1 DEF RunHolds, FinishingCounted, RecoversOnce, ReasonHolds, CopyHolds,
              BatchHolds, AtWork, Recovers, IdleRun, MaxConsecutiveErrors
<1>4. DishWasOffered /\ QuestionsKept
  BY <1>1 DEF FirstRow, DishWasOffered, QuestionsKept
<1> QED  BY <1>2, <1>3, <1>4 DEF IndInv

\* What the loop itself does, one step per action.
LEMMA ProceedKeeps ==
  ASSUME IndInv, NEW r \in Runs, Proceed(r)
  PROVE  IndInv'
<1>1. run[r] \in RunStates /\ RunHolds(run[r], row)
  BY DEF IndInv, TypeOK
<1>2. /\ run[r].wrap \in {"unused", "next", "now", "used"}
      /\ run[r].pc = "opened" => ~Finishing(r) /\ ~run[r].stall
  BY <1>1 DEF RunStates, RunHolds, RecoversOnce, Recovers, Finishing
<1>3. ASSUME RunStart(r) PROVE IndInv'
  BY <1>3, RunStartKeeps
<1>4. ASSUME RunStartStale(r) PROVE IndInv'
  BY <1>4, StopKeeps DEF RunStartStale, Reasons
<1>5. ASSUME NEW reason \in Reasons, Stop(r, BudgetReason(r, reason)) PROVE IndInv'
  BY <1>1, <1>5, BudgetReasonHolds, StopKeeps
<1>6. ASSUME StepsStop(r) PROVE IndInv'
  BY <1>5, <1>6 DEF StepsStop, Reasons
<1>7. ASSUME NEW limit \in {"agent_wall_clock_exceeded", "agent_token_budget_exhausted"},
             LimitStop(r, limit)
      PROVE  IndInv'
  BY <1>5, <1>7 DEF LimitStop, Reasons
<1>8. ASSUME NEW growth \in BOOLEAN, SendTurn(r, growth) PROVE IndInv'
  BY <1>8, SendTurnKeeps
<1>9. ASSUME TurnTimeout(r) \/ ProviderFatal(r) \/ AskWithoutQuestion(r) PROVE IndInv'
  BY <1>9, StopKeeps DEF TurnTimeout, ProviderFatal, AskWithoutQuestion, Reasons
<1>11. ASSUME Conflict(r) PROVE IndInv'
  BY <1>11, LosesKeeps DEF Conflict
<1>12. ASSUME EmptyTurn(r) \/ ProviderRetryable(r) PROVE IndInv'
  BY <1>12, FailedTurnKeeps DEF EmptyTurn, ProviderRetryable
<1>13. ASSUME NEW batch \in Batches, ToolCalls(r, batch) PROVE IndInv'
  BY <1>13, ToolCallsKeeps
<1>14. ASSUME NEW ok \in BOOLEAN, NEW new \in SUBSET (1 .. MaxBatch), ToolsDone(r, ok, new)
       PROVE  IndInv'
  BY <1>14, ToolsDoneKeeps
<1>15. ASSUME MalformedDirective(r) \/ AskRejected(r) \/ FinishRejected(r) PROVE IndInv'
  BY <1>2, <1>15, RejectedKeeps DEF MalformedDirective, AskRejected, FinishRejected
<1>16. ASSUME FinishingTurn(r) PROVE IndInv'
  BY <1>16, FinishingTurnKeeps
<1>10. ASSUME Truncated(r) PROVE IndInv'
  BY <1>10, StopKeeps DEF Truncated, Reasons
<1> QED  BY <1>3, <1>4, <1>6, <1>7, <1>8, <1>9, <1>10, <1>11, <1>12, <1>13, <1>14,
            <1>15, <1>16 DEF Proceed

LEMMA StepKeeps == IndInv /\ [Next]_vars => IndInv'
<1> SUFFICES ASSUME IndInv, [Next]_vars PROVE IndInv'
  OBVIOUS
<1>1. ASSUME NEW r \in Runs, NEW pinned \in BOOLEAN, OpenStream(r, pinned) PROVE IndInv'
  BY <1>1, OpenStreamKeeps
<1>2. ASSUME NEW r \in Runs, Proceed(r) PROVE IndInv'
  BY <1>2, ProceedKeeps
<1>3. ASSUME NEW r \in Runs, Interrupted(r) PROVE IndInv'
  BY <1>3, LosesKeeps DEF Interrupted
<1>4. ASSUME User PROVE IndInv'
  BY <1>4, UserKeeps
<1>5. ASSUME UNCHANGED vars PROVE IndInv'
  BY <1>5 DEF IndInv, TypeOK, DishWasOffered, QuestionsKept, vars
<1> QED  BY <1>1, <1>2, <1>3, <1>4, <1>5 DEF Next, Rest

\* The loop, the requests of the user and a lost commit keep the invariant
\* (agent/loop.py, _run_agent).
THEOREM Invariance == Spec => []IndInv
<1> QED  BY InitHolds, StepKeeps, PTL DEF Spec

\* The types of the session row and of every run (agent/loop.py).
THEOREM TypeCorrect == Spec => []TypeOK
<1>1. IndInv => TypeOK  BY DEF IndInv
<1> QED  BY <1>1, Invariance, PTL

\* The compare-and-set of session_store.mutate protects the copy a run
\* decides from: while the revision is the run's, its budgets, phase, dish and
\* plan are the row's, however many runs and requests share the session.
THEOREM CopiesAreTheRow == Spec => []CachedStateIsRow
<1>1. IndInv => CachedStateIsRow
  BY DEF IndInv, RunHolds, CopyHolds, AtWork, Working, CachedStateIsRow
<1> QED  BY <1>1, Invariance, PTL

\* The dish of the session is one of the options last offered and a plan has
\* its dish (_handle_finish and record_select), whoever wrote last.
THEOREM DishesWereOffered == Spec => []DishWasOffered
<1>1. IndInv => DishWasOffered  BY DEF IndInv
<1> QED  BY <1>1, Invariance, PTL

\* Every end of a run that was to recover reports the recovery (budget_stop and
\* _validation_feedback), after at most three finishing turns.
THEOREM RecoveriesAreReported == Spec => []RecoveryReported
<1>1. IndInv => RecoveryReported
  BY DEF IndInv, RunHolds, FinishingCounted, ReasonHolds, Recovers, Finishing,
         RecoveryReported
<1> QED  BY <1>1, Invariance, PTL

-----------------------------------------------------------------------------
(* The tool calls of all runs, and who pays for them.                      *)

CallsPaid == ran = (MaxTools - row.tools) + Unsettled + lost

\* Only one run's part of the sum changes in a step.
LEMMA OneRunPays ==
  ASSUME IsFiniteSet(Runs), IndInv, IndInv', NEW r \in Runs,
         \A q \in Runs \ {r} : run'[q] = run[q]
  PROVE  /\ Unsettled' = Unsettled - Made(r) + Made(r)'
         /\ Unsettled \in Int /\ Unsettled' \in Int
         /\ Made(r) \in Nat /\ Made(r)' \in Nat
<1> DEFINE f == [q \in Runs |-> Made(q)]
           g == [q \in Runs |-> Made(q)']
<1>1. \A q \in Runs : run[q] \in RunStates /\ run'[q] \in RunStates
  BY DEF IndInv, TypeOK
<1>2. \A q \in Runs : Made(q) \in Nat /\ Made(q)' \in Nat
  <2> TAKE q \in Runs
  <2>1. run[q].calls \in CallSets /\ run'[q].calls \in CallSets
    BY <1>1 DEF RunStates
  <2> QED  BY <2>1, CallsFinite DEF Made
<1>3. \A q \in Runs \ {r} : Made(q)' = Made(q)
  BY DEF Made
<1>4. f[r] = Made(r) /\ g[r] = Made(r)'
      /\ (\A q \in Runs : f[q] \in Int /\ g[q] \in Int)
      /\ (\A q \in Runs \ {r} : g[q] = f[q])
  BY <1>2, <1>3
<1>5. Unsettled = SumFunctionOnSet(f, Runs) /\ Unsettled' = SumFunctionOnSet(g, Runs)
  BY DEF Unsettled
<1> HIDE DEF f, g
<1> QED  BY <1>2, <1>4, <1>5, SumChange

\* A step of one run keeps the balance if what it ran, charged and lost does.
LEMMA PaysKeeps ==
  ASSUME IsFiniteSet(Runs), IndInv, IndInv', CallsPaid, NEW r \in Runs, NEW s, Becomes(r, s),
         ran' - ran = (row.tools - row'.tools) + (Made(r)' - Made(r)) + (lost' - lost)
  PROVE  CallsPaid'
<1>1. \A q \in Runs \ {r} : run'[q] = run[q]
  BY DEF Becomes, IndInv, TypeOK
<1>2. /\ Unsettled' = Unsettled - Made(r) + Made(r)'
      /\ Unsettled \in Int /\ Unsettled' \in Int
      /\ Made(r) \in Nat /\ Made(r)' \in Nat
  BY <1>1, OneRunPays
<1>3. /\ ran \in Nat /\ ran' \in Nat /\ lost \in Nat /\ lost' \in Nat /\ MaxTools \in Nat
      /\ row.tools \in Nat /\ row'.tools \in Nat
  BY LoopAssumption DEF IndInv, TypeOK, Rows
<1> QED  BY <1>2, <1>3 DEF CallsPaid

LEMMA NothingMade ==
  ASSUME IndInv, NEW r \in Runs, run[r].pc # "tools"
  PROVE  Made(r) = 0
<1>1. run[r].calls = << >>
  BY DEF IndInv, RunHolds, BatchHolds
<1>2. DOMAIN << >> = {}  OBVIOUS
<1> QED  BY <1>1, <1>2, FS_EmptySet DEF Made

\* Most steps run, charge and lose no call.
LEMMA QuietKeeps ==
  ASSUME IsFiniteSet(Runs), IndInv, IndInv', CallsPaid, NEW r \in Runs, NEW s, Becomes(r, s),
         run[r].pc # "tools", s.pc # "tools", row'.tools = row.tools, UNCHANGED <<ran, lost>>
  PROVE  CallsPaid'
<1>1. run'[r].pc # "tools"
  BY DEF Becomes, IndInv, TypeOK
<1>2. Made(r) = 0
  BY NothingMade
<1>3. run'[r].calls = << >>
  BY <1>1 DEF IndInv, RunHolds, BatchHolds
<1>4. Made(r)' = 0
  <2>1. DOMAIN << >> = {}  OBVIOUS
  <2> QED  BY <1>3, <2>1, FS_EmptySet DEF Made
<1>5. ran \in Nat /\ lost \in Nat /\ row.tools \in Nat
  BY DEF IndInv, TypeOK, Rows
<1> QED  BY <1>2, <1>4, <1>5, PaysKeeps

\* Places a run is left at.
LEMMA Places ==
  ASSUME IndInv, NEW r \in Runs
  PROVE  /\ \A reason : Ended(r, reason).pc = "done" /\ Ended(r, reason).calls = << >>
         /\ Onward(r).pc = "top" /\ Onward(r).calls = << >>
         /\ DOMAIN Onward(r) = DOMAIN run[r]
<1>1. run[r] \in RunStates  BY DEF IndInv, TypeOK
<1> QED  BY <1>1 DEF Ended, IdleRun, Onward, RunStates

\* A commit that charges a step and no call.
LEMMA StepChargeOnly ==
  ASSUME IndInv
  PROVE  Charged(0).tools = row.tools
<1>1. row \in Rows /\ row.tools \in Nat  BY DEF IndInv, TypeOK, Rows
<1> QED  BY <1>1, ChargedTyped

LEMMA FailurePays ==
  ASSUME IsFiniteSet(Runs), IndInv, IndInv', CallsPaid, NEW r \in Runs, NEW s, Becomes(r, s),
         run[r].pc = "turn", Commit(r, Charged(0)), s.pc \in {"top", "done"},
         UNCHANGED <<ran, lost>>
  PROVE  CallsPaid'
<1>1. row \in Rows /\ AtWork(run[r])
  BY DEF IndInv, TypeOK, AtWork
<1>2. Charged(0) \in Rows
  BY <1>1, ChargedTyped
<1>3. row'.tools = row.tools
  BY <1>1, <1>2, StepChargeOnly, CommitMoves
<1> QED  BY <1>3, QuietKeeps

LEMMA EndPays ==
  ASSUME IsFiniteSet(Runs), IndInv, IndInv', CallsPaid, NEW r \in Runs, NEW new \in Rows,
         run[r].pc = "turn", Commit(r, new), new.tools = row.tools,
         NEW reason, Becomes(r, Ended(r, reason)), UNCHANGED <<ran, lost>>
  PROVE  CallsPaid'
<1>1. AtWork(run[r])
  BY DEF AtWork
<1>2. row'.tools = row.tools
  BY <1>1, CommitMoves
<1> QED  BY <1>2, Places, QuietKeeps

LEMMA FinishingTurnPays ==
  ASSUME IsFiniteSet(Runs), IndInv, IndInv', CallsPaid, NEW r \in Runs, FinishingTurn(r)
  PROVE  CallsPaid'
<1>1. row \in Rows /\ run[r] \in RunStates /\ row.tools \in Nat
  BY DEF IndInv, TypeOK, Rows
<1>2. Charged(0) \in Rows /\ Charged(0).tools = row.tools
  BY <1>1, ChargedTyped
<1>3. {"clarify", "recommend", PlanTarget, AnswerTarget(r)} \cup MoveTos \subseteq Phases
  <2>1. run[r].st.phase \in Phases
    BY <1>1 DEF RunStates, Rows
  <2>2. AnswerTarget(r) \in Phases
    BY <2>1 DEF AnswerTarget, Phases
  <2> QED  BY <2>2, LoopAssumption DEF Phases, PlanTarget
<1>4. ASSUME NEW change \in Rows, change.tools = row.tools, NEW p \in Phases, Finish(r, p, change)
      PROVE  CallsPaid'
  <2>1. [change EXCEPT !.phase = p] \in Rows /\ [change EXCEPT !.phase = p].tools = row.tools
    BY <1>4 DEF Rows
  <2> QED  BY <1>4, <2>1, EndPays DEF Finish, InTurn
<1>5. ASSUME NEW q \in Questions, NEW p \in MoveTos \cup {"clarify"}, Ask(r, q, p)
      PROVE  CallsPaid'
  <2>1. [Charged(0) EXCEPT !.questions = @ \cup {q}, !.phase = p] \in Rows
        /\ [Charged(0) EXCEPT !.questions = @ \cup {q}, !.phase = p].tools = row.tools
    BY <1>2, <1>3 DEF Rows
  <2> QED  BY <1>5, <2>1, EndPays DEF Ask, InTurn
<1>6. ASSUME NEW o \in (SUBSET Dishes) \ {{}}, NEW p \in MoveTos \cup {"recommend"},
             FinishOptions(r, o, p)
      PROVE  CallsPaid'
  <2> DEFINE change == [Charged(0) EXCEPT !.options = o,
                                          !.dish = IF NewDish(r) THEN NoDish ELSE @,
                                          !.plan = IF NewDish(r) THEN NoDish ELSE @]
  <2>1. Finish(r, p, change)
    BY <1>6 DEF FinishOptions
  <2>2. change \in Rows /\ change.tools = row.tools
    BY <1>2 DEF Rows
  <2> HIDE DEF change
  <2> QED  BY <1>3, <1>4, <2>1, <2>2
<1>7. ASSUME NEW p \in MoveTos \cup {PlanTarget}, FinishPlan(r, p)
      PROVE  CallsPaid'
  <2> DEFINE change == [Charged(0) EXCEPT !.plan = run[r].st.dish]
  <2>1. Finish(r, p, change)
    BY <1>7 DEF FinishPlan
  <2>2. run[r].st.dish \in Dishes \cup {NoDish}
    BY <1>1 DEF RunStates, Rows
  <2>3. change \in Rows /\ change.tools = row.tools
    BY <1>2, <2>2 DEF Rows
  <2> HIDE DEF change
  <2> QED  BY <1>3, <1>4, <2>1, <2>3
<1>8. ASSUME NEW p \in MoveTos \cup {AnswerTarget(r)}, FinishAnswer(r, p)
      PROVE  CallsPaid'
  BY <1>2, <1>3, <1>4, <1>8 DEF FinishAnswer
<1> QED  BY <1>5, <1>6, <1>7, <1>8 DEF FinishingTurn

LEMMA ToolsPay ==
  ASSUME IsFiniteSet(Runs), IndInv, IndInv', CallsPaid, NEW r \in Runs,
         \/ \E batch \in Batches : ToolCalls(r, batch)
         \/ \E ok \in BOOLEAN, new \in SUBSET (1 .. MaxBatch) : ToolsDone(r, ok, new)
  PROVE  CallsPaid'
<1>1. /\ row \in Rows /\ row' \in Rows /\ run[r] \in RunStates /\ RunHolds(run[r], row)
      /\ run' \in [Runs -> RunStates] /\ run \in [Runs -> RunStates]
      /\ ran \in Nat /\ lost \in Nat /\ row.tools \in Nat
  BY DEF IndInv, TypeOK, Rows
<1>2. ASSUME NEW batch \in Batches, ToolCalls(r, batch) PROVE CallsPaid'
  <2> DEFINE runnable == { i \in DOMAIN batch : batch[i] \in Offered(r) }
             affordable == IF Cardinality(runnable) < run[r].st.tools
                           THEN Cardinality(runnable) ELSE run[r].st.tools
  <2>1. PICK first \in SUBSET runnable :
          /\ Cardinality(first) = affordable
          /\ Becomes(r, [run[r] EXCEPT
                              !.pc = "tools",
                              !.calls = [i \in first |-> batch[i]],
                              !.over = Cardinality(runnable) > affordable])
    BY <1>2 DEF ToolCalls
  <2>2. run[r].pc = "turn" /\ ran' = ran + affordable /\ UNCHANGED <<row, lost>>
    BY <1>2 DEF ToolCalls, InTurn
  <2> HIDE DEF runnable, affordable
  <2>3. run'[r].calls = [i \in first |-> batch[i]]
    BY <1>1, <2>1 DEF Becomes, RunStates
  <2>4. Made(r)' = affordable
    BY <2>1, <2>3 DEF Made
  <2>5. Made(r) = 0
    BY <2>2, NothingMade
  <2>6. affordable \in Nat
    <3>1. run'[r] \in RunStates
      BY <1>1
    <3>2. run'[r].calls \in CallSets
      BY <3>1 DEF RunStates
    <3> QED  BY <2>4, <3>2, CallsFinite DEF Made
  <2>7. ran' - ran = (row.tools - row'.tools) + (Made(r)' - Made(r)) + (lost' - lost)
    BY <1>1, <2>2, <2>4, <2>5, <2>6
  <2> QED  BY <2>1, <2>7, PaysKeeps
<1>3. ASSUME NEW ok \in BOOLEAN, NEW new \in SUBSET (1 .. MaxBatch), ToolsDone(r, ok, new)
      PROVE  CallsPaid'
  <2>1. /\ run[r].pc = "tools" /\ AtWork(run[r]) /\ Commit(r, Charged(Made(r)))
        /\ Becomes(r, AfterTools(r, new, IF ok THEN 0 ELSE run[r].errs + 1))
        /\ UNCHANGED <<ran, lost>>
    BY <1>3 DEF ToolsDone, AtWork
  <2>2. Made(r) \in Nat /\ Charged(Made(r)) \in Rows
    BY <1>1, MadeTyped, ChargedTyped
  <2>3. run[r].st = row /\ row'.tools = Charged(Made(r)).tools
    BY <2>1, <2>2, CommitMoves
  <2>4. Made(r) <= row.tools
    BY <1>1, <2>1, <2>3 DEF RunHolds, BatchHolds, Made
  <2>5. row'.tools = row.tools - Made(r)
    BY <1>1, <2>2, <2>3, <2>4, ChargedTyped
  <2>6. AfterTools(r, new, IF ok THEN 0 ELSE run[r].errs + 1).calls = << >>
    BY <1>1, Places DEF AfterTools, RunStates
  <2>7. Made(r)' = 0
    <3>1. run'[r].calls = << >>
      BY <1>1, <2>1, <2>6 DEF Becomes
    <3>2. DOMAIN << >> = {}  OBVIOUS
    <3> QED  BY <3>1, <3>2, FS_EmptySet DEF Made
  <2>8. ran' - ran = (row.tools - row'.tools) + (Made(r)' - Made(r)) + (lost' - lost)
    BY <1>1, <2>1, <2>2, <2>5, <2>7
  <2> QED  BY <2>1, <2>8, PaysKeeps
<1> QED  BY <1>2, <1>3

LEMMA LosesPays ==
  ASSUME IsFiniteSet(Runs), IndInv, IndInv', CallsPaid, NEW r \in Runs, NEW reason,
         Becomes(r, Ended(r, reason)), lost' = lost + Made(r), UNCHANGED <<row, ran>>
  PROVE  CallsPaid'
<1>1. /\ run[r] \in RunStates /\ run \in [Runs -> RunStates]
      /\ ran \in Nat /\ lost \in Nat /\ row.tools \in Nat
  BY DEF IndInv, TypeOK, Rows
<1>2. Made(r) \in Nat
  BY <1>1, MadeTyped
<1>3. Made(r)' = 0
  <2>1. run'[r].calls = << >>
    BY <1>1, Places DEF Becomes
  <2>2. DOMAIN << >> = {}  OBVIOUS
  <2> QED  BY <2>1, <2>2, FS_EmptySet DEF Made
<1> QED  BY <1>1, <1>2, <1>3, PaysKeeps

LEMMA StepPays ==
  ASSUME IsFiniteSet(Runs), IndInv, IndInv', CallsPaid, [Next]_vars
  PROVE  CallsPaid'
<1>1. ASSUME NEW r \in Runs, NEW reason, Stop(r, reason), run[r].pc # "tools" PROVE CallsPaid'
  BY <1>1, Places, QuietKeeps DEF Stop
<1>2. ASSUME NEW r \in Runs, NEW s, Becomes(r, s), s.pc # "tools", run[r].pc # "tools",
             UNCHANGED <<row, ran, lost>>
      PROVE  CallsPaid'
  BY <1>2, QuietKeeps
<1>3. \A r \in Runs : run[r] \in RunStates /\ DOMAIN Onward(r) = DOMAIN run[r]
  BY Places DEF IndInv, TypeOK
<1>4. ASSUME NEW r \in Runs, NEW pinned \in BOOLEAN, OpenStream(r, pinned) PROVE CallsPaid'
  <2>1. [run[r] EXCEPT !.pc = "opened", !.rev = IF pinned THEN row.revision ELSE 0].pc # "tools"
    BY <1>3 DEF RunStates
  <2> QED  BY <1>2, <1>4, <2>1 DEF OpenStream
<1>5. ASSUME NEW r \in Runs, Proceed(r) PROVE CallsPaid'
  <2>1. ASSUME RunStart(r) PROVE CallsPaid'
    <3>1. [run[r] EXCEPT !.pc = "top", !.rev = row.revision, !.st = row].pc # "tools"
      BY <1>3 DEF RunStates
    <3> QED  BY <1>2, <2>1, <3>1 DEF RunStart
  <2>2. ASSUME RunStartStale(r) \/ StepsStop(r)
               \/ (\E limit \in {"agent_wall_clock_exceeded", "agent_token_budget_exhausted"} :
                     LimitStop(r, limit))
               \/ TurnTimeout(r) \/ Truncated(r) \/ ProviderFatal(r) \/ AskWithoutQuestion(r)
        PROVE  CallsPaid'
    BY <1>1, <2>2 DEF RunStartStale, StepsStop, LimitStop, TurnTimeout, Truncated,
                      ProviderFatal, AskWithoutQuestion, InTurn
  <2>3. ASSUME NEW growth \in BOOLEAN, SendTurn(r, growth) PROVE CallsPaid'
    <3> DEFINE s == [run[r] EXCEPT
           !.pc = "turn",
           !.final = MustBeFinal(r) \/ growth,
           !.wrap = IF @ = "next" /\ ~MustBeFinal(r) THEN "now"
                    ELSE IF @ = "unused" THEN "unused" ELSE "used",
           !.finishing = IF Finishing(r) THEN @ + 1 ELSE @ ]
    <3>1. s.pc # "tools"
      BY <1>3 DEF RunStates
    <3>2. Becomes(r, s) /\ run[r].pc = "top" /\ UNCHANGED <<row, ran, lost>>
      BY <2>3 DEF SendTurn
    <3> HIDE DEF s
    <3> QED  BY <1>2, <3>1, <3>2
  <2>4. ASSUME Conflict(r) PROVE CallsPaid'
    BY <2>4, LosesPays DEF Conflict
  <2>5. ASSUME EmptyTurn(r) \/ ProviderRetryable(r) PROVE CallsPaid'
    <3>1. PICK sized \in BOOLEAN : FailedTurn(r, sized)
      BY <2>5 DEF EmptyTurn, ProviderRetryable
    <3>2. [Onward(r) EXCEPT !.errs = @ + 1, !.sized = sized \/ run[r].sized].pc = "top"
      BY <1>3, Places DEF RunStates
    <3>3. Ended(r, "agent_no_progress").pc = "done"
      BY Places
    <3> QED  BY <3>1, <3>2, <3>3, FailurePays DEF FailedTurn, InTurn
  <2>6. ASSUME MalformedDirective(r) \/ AskRejected(r) \/ FinishRejected(r) PROVE CallsPaid'
    <3>1. PICK checked, wrap : Rejected(r, checked, wrap)
      BY <2>6 DEF MalformedDirective, AskRejected, FinishRejected
    <3>2. [Onward(r) EXCEPT !.errs = @ + 1, !.retried = TRUE, !.wrap = wrap].pc = "top"
      BY <1>3, Places DEF RunStates
    <3>3. \A reason : Ended(r, reason).pc = "done"
      BY Places
    <3>4. /\ run[r].pc = "turn" /\ Commit(r, Charged(0)) /\ UNCHANGED <<ran, lost>>
          /\ \/ \E reason : Becomes(r, Ended(r, reason))
             \/ Becomes(r, [Onward(r) EXCEPT !.errs = @ + 1, !.retried = TRUE, !.wrap = wrap])
      BY <3>1 DEF Rejected, InTurn
    <3> QED  BY <3>2, <3>3, <3>4, FailurePays
  <2>7. ASSUME FinishingTurn(r) PROVE CallsPaid'
    BY <2>7, FinishingTurnPays
  <2> QED  BY <1>5, <2>1, <2>2, <2>3, <2>4, <2>5, <2>6, <2>7, ToolsPay DEF Proceed
<1>6. ASSUME NEW r \in Runs, Interrupted(r) PROVE CallsPaid'
  BY <1>6, LosesPays DEF Interrupted
<1>7. ASSUME User PROVE CallsPaid'
  <2>1. UNCHANGED <<run, ran, lost>> /\ row'.tools = row.tools
    <3>1. row \in Rows  BY DEF IndInv, TypeOK
    <3> QED  BY <1>7, <3>1 DEF User, Answer, Select, SetPermission, Rows
  <2> QED  BY <2>1 DEF CallsPaid, Unsettled, Made
<1>8. ASSUME UNCHANGED vars PROVE CallsPaid'
  BY <1>8 DEF vars, CallsPaid, Unsettled, Made
<1> QED  BY <1>4, <1>5, <1>6, <1>7, <1>8 DEF Next, Rest

\* Every tool call that ran is charged to the session, about to be, or lost with
\* the run that made it, and no question is lost (_apply_step_commit charges the
\* calls of a turn with the turn; the compare-and-set may refuse it).  The runs
\* of a session are finitely many at any time.
THEOREM RowAccounts ==
  ASSUME IsFiniteSet(Runs)
  PROVE  Spec => []RowAccountsForRuns
<1>1. Init => CallsPaid
  <2> SUFFICES ASSUME Init PROVE CallsPaid
    OBVIOUS
  <2>1. run = [r \in Runs |-> IdleRun] /\ row.tools = MaxTools /\ ran = 0 /\ lost = 0
    BY DEF Init, FirstRow
  <2>2. \A r \in Runs : Made(r) = 0
    <3>1. DOMAIN << >> = {}  OBVIOUS
    <3> QED  BY <2>1, <3>1, FS_EmptySet DEF Made, IdleRun
  <2>3. Unsettled = 0
    BY <2>2, SumOfZeros DEF Unsettled
  <2> QED  BY <2>1, <2>3, LoopAssumption DEF CallsPaid
<1>2. IndInv /\ IndInv' /\ CallsPaid /\ [Next]_vars => CallsPaid'
  BY StepPays
<1>3. IndInv /\ CallsPaid => RowAccountsForRuns
  BY DEF IndInv, CallsPaid, RowAccountsForRuns
<1> QED  BY <1>1, <1>2, <1>3, Invariance, PTL DEF Spec

-----------------------------------------------------------------------------
(* The history of a run can always be sent: what the loop appends and what *)
(* the cut drops never part a call from its output.                        *)

Items == [type : ItemTypes, id : STRING \cup {NoId}, size : Nat, recipe : STRING \cup {NoRecipe}]

\* PairingViolations, item by item.
Matched(h) ==
  \A k \in DOMAIN h :
    IsCall(h[k]) \/ IsOutput(h[k]) =>
      /\ h[k].id # NoId
      /\ \E i, j \in DOMAIN h : /\ CallsOf(h, h[k].id) = {i}
                                /\ OutputsOf(h, h[k].id) = {j}

\* Nothing is in violation exactly when every item has its counterpart.
LEMMA NoViolations ==
  ASSUME NEW h \in Seq(Items)
  PROVE  PairingViolations(h) = {} <=> Matched(h)
<1>1. ASSUME PairingViolations(h) = {} PROVE Matched(h)
  <2> SUFFICES ASSUME NEW k \in DOMAIN h, IsCall(h[k]) \/ IsOutput(h[k])
               PROVE  /\ h[k].id # NoId
                      /\ \E i, j \in DOMAIN h : /\ CallsOf(h, h[k].id) = {i}
                                                /\ OutputsOf(h, h[k].id) = {j}
    BY DEF Matched
  <2>1. h[k].id \in { h[i].id : i \in { j \in DOMAIN h : IsCall(h[j]) \/ IsOutput(h[j]) } }
    OBVIOUS
  <2>2. h[k].id \notin PairingViolations(h)
    BY <1>1
  <2>3. ~ (\/ h[k].id = NoId
           \/ ~ \E i \in DOMAIN h : CallsOf(h, h[k].id) = {i}
           \/ ~ \E j \in DOMAIN h : OutputsOf(h, h[k].id) = {j})
    BY <2>1, <2>2 DEF PairingViolations
  <2> QED BY <2>3
<1>2. ASSUME Matched(h) PROVE PairingViolations(h) = {}
  BY <1>2 DEF Matched, PairingViolations
<1> QED BY <1>1, <1>2

\* The items of a cut are the items of the history from there on.
LEMMA CutItems ==
  ASSUME NEW h \in Seq(Items), NEW s \in DOMAIN h
  PROVE  LET g == SubSeq(h, s, Len(h))
         IN /\ g \in Seq(Items)
            /\ Len(g) = Len(h) - s + 1
            /\ \A k \in DOMAIN g : k + s - 1 \in DOMAIN h /\ g[k] = h[k + s - 1]
            /\ \A i \in DOMAIN h : i >= s => i - s + 1 \in DOMAIN g /\ g[i - s + 1] = h[i]
OBVIOUS

\* A cut between two groups (loop.py, _cap_history) keeps calls and outputs
\* together: whatever the sizes, the limits and the calls, a history that
\* could be sent can be sent after it, and can be cut again.
THEOREM CutKeepsPairs ==
  ASSUME NEW h \in Seq(Items), Paired(h), TurnsWhole(h),
         NEW s \in GroupStarts(h)
  PROVE  /\ Paired(SubSeq(h, s, Len(h)))
         /\ TurnsWhole(SubSeq(h, s, Len(h)))
<1> DEFINE g == SubSeq(h, s, Len(h))
<1>0. s \in DOMAIN h /\ DOMAIN h = 1 .. Len(h) /\ Len(h) \in Nat
  BY DEF GroupStarts
<1>1. /\ g \in Seq(Items)
      /\ Len(g) = Len(h) - s + 1
      /\ \A k \in DOMAIN g : k + s - 1 \in DOMAIN h /\ g[k] = h[k + s - 1]
      /\ \A i \in DOMAIN h : i >= s => i - s + 1 \in DOMAIN g /\ g[i - s + 1] = h[i]
  BY <1>0, CutItems
<1>2. DOMAIN g = 1 .. Len(g)
  BY <1>1
<1> HIDE DEF g
<1>3. Matched(h)
  BY NoViolations DEF Paired
<1>4. \A i, j \in DOMAIN h : IsCall(h[i]) /\ IsOutput(h[j]) /\ h[i].id = h[j].id => i < j
  BY DEF Paired
<1>5. \A i, j \in DOMAIN h :
        IsCall(h[i]) /\ IsOutput(h[j]) /\ h[i].id = h[j].id => ~(i < s /\ s <= j)
  BY DEF TurnsWhole
<1>6. Matched(g)
  <2> SUFFICES ASSUME NEW k \in DOMAIN g, IsCall(g[k]) \/ IsOutput(g[k])
               PROVE  /\ g[k].id # NoId
                      /\ \E i, j \in DOMAIN g : /\ CallsOf(g, g[k].id) = {i}
                                                /\ OutputsOf(g, g[k].id) = {j}
    BY DEF Matched
  <2> DEFINE x == g[k].id
             K == k + s - 1
  <2>1. K \in DOMAIN h /\ g[k] = h[K] /\ K >= s
    BY <1>0, <1>1, <1>2
  <2>2. PICK i, j \in DOMAIN h : CallsOf(h, x) = {i} /\ OutputsOf(h, x) = {j}
    BY <1>3, <2>1 DEF Matched
  <2>3. x # NoId
    BY <1>3, <2>1 DEF Matched
  <2>4. IsCall(h[i]) /\ IsOutput(h[j]) /\ h[i].id = x /\ h[j].id = x
    BY <2>2 DEF CallsOf, OutputsOf
  <2>5. i >= s /\ j >= s
    <3>1. K = i \/ K = j
      BY <2>1, <2>2 DEF CallsOf, OutputsOf
    <3>2. i < j /\ ~(i < s /\ s <= j)
      BY <1>4, <1>5, <2>4
    <3> QED BY <3>1, <3>2, <2>1, <1>0
  <2>6. CallsOf(g, x) = {i - s + 1}
    <3>1. i - s + 1 \in CallsOf(g, x)
      BY <1>1, <2>4, <2>5 DEF CallsOf
    <3>2. \A a \in CallsOf(g, x) : a = i - s + 1
      <4> TAKE a \in CallsOf(g, x)
      <4>1. a \in DOMAIN g /\ a + s - 1 \in CallsOf(h, x)
        BY <1>1 DEF CallsOf
      <4> QED BY <4>1, <2>2, <1>0, <1>2
    <3> QED BY <3>1, <3>2
  <2>7. OutputsOf(g, x) = {j - s + 1}
    <3>1. j - s + 1 \in OutputsOf(g, x)
      BY <1>1, <2>4, <2>5 DEF OutputsOf
    <3>2. \A a \in OutputsOf(g, x) : a = j - s + 1
      <4> TAKE a \in OutputsOf(g, x)
      <4>1. a \in DOMAIN g /\ a + s - 1 \in OutputsOf(h, x)
        BY <1>1 DEF OutputsOf
      <4> QED BY <4>1, <2>2, <1>0, <1>2
    <3> QED BY <3>1, <3>2
  <2>8. i - s + 1 \in DOMAIN g /\ j - s + 1 \in DOMAIN g
    BY <1>1, <2>5
  <2> QED BY <2>3, <2>6, <2>7, <2>8
<1>7. \A i, j \in DOMAIN g : IsCall(g[i]) /\ IsOutput(g[j]) /\ g[i].id = g[j].id => i < j
  <2> TAKE i, j \in DOMAIN g
  <2> HAVE IsCall(g[i]) /\ IsOutput(g[j]) /\ g[i].id = g[j].id
  <2>1. i + s - 1 < j + s - 1
    BY <1>1, <1>4
  <2> QED BY <2>1, <1>0, <1>2
<1>8. TurnsWhole(g)
  <2> SUFFICES ASSUME NEW i \in DOMAIN g, NEW j \in DOMAIN g,
                      IsCall(g[i]), IsOutput(g[j]), g[i].id = g[j].id,
                      NEW t \in GroupStarts(g), i < t, t <= j
               PROVE  FALSE
    BY DEF TurnsWhole
  <2>1. t > 1 /\ t \in DOMAIN g /\ t - 1 \in DOMAIN g /\ Opens(g, t)
    BY <1>1, <1>2 DEF GroupStarts, Opens
  <2>2. (t - 1) + s - 1 = (t + s - 1) - 1
    BY <1>0, <1>2, <2>1
  <2>3. t + s - 1 \in GroupStarts(h)
    <3>1. g[t] = h[t + s - 1] /\ g[t - 1] = h[(t + s - 1) - 1] /\ t + s - 1 \in DOMAIN h
      BY <1>1, <2>1, <2>2
    <3>2. t + s - 1 > 1
      BY <1>0, <1>2, <2>1
    <3>3. Opens(h, t + s - 1)
      BY <2>1, <3>1, <3>2 DEF Opens
    <3> QED BY <3>1, <3>3 DEF GroupStarts
  <2>4. ~(i + s - 1 < t + s - 1 /\ t + s - 1 <= j + s - 1)
    BY <1>1, <2>3 DEF TurnsWhole
  <2> QED BY <2>4, <1>0, <1>2, <2>1
<1>9. Paired(g)
  BY <1>1, <1>6, <1>7, NoViolations DEF Paired
<1> QED BY <1>8, <1>9 DEF g

\* out says which output answers which call of the turn.
NewTurn(h, chain, outputs, out) ==
  /\ out \in [{ i \in DOMAIN chain : IsCall(chain[i]) } -> DOMAIN outputs]
  /\ \A i \in DOMAIN chain : ~IsOutput(chain[i])
  /\ \A j \in DOMAIN outputs : IsOutput(outputs[j]) /\ \E i \in DOMAIN out : out[i] = j
  /\ \A i, k \in DOMAIN out : chain[i].id = chain[k].id => i = k
  /\ \A i, k \in DOMAIN out : out[i] = out[k] => i = k
  /\ \A i \in DOMAIN out :
       /\ outputs[out[i]].id = chain[i].id
       /\ chain[i].id # NoId
       /\ \A k \in DOMAIN h : h[k].id # chain[i].id

\* A turn of the provider with its outputs (loop.py, _run_agent) keeps a
\* history sendable if the provider gives its calls names of their own;
\* with a name used twice the loop refuses to send it.
THEOREM TurnKeepsPairs ==
  ASSUME NEW h \in Seq(Items), Paired(h), TurnsWhole(h),
         NEW chain \in Seq(Items), NEW outputs \in Seq(Items),
         NEW out, NewTurn(h, chain, outputs, out)
  PROVE  /\ Paired(WithTurn(h, chain, outputs))
         /\ TurnsWhole(WithTurn(h, chain, outputs))
<1> DEFINE g == WithTurn(h, chain, outputs)
           m == Len(h)
           n == Len(h) + Len(chain)
<1>1. /\ g \in Seq(Items)
      /\ Len(g) = n + Len(outputs) /\ DOMAIN g = 1 .. Len(g)
      /\ m \in Nat /\ n \in Nat /\ m <= n /\ Len(g) \in Nat
      /\ DOMAIN h = 1 .. m /\ DOMAIN chain = 1 .. (n - m)
      /\ DOMAIN outputs = 1 .. (Len(g) - n)
      /\ \A i \in 1 .. m : g[i] = h[i]
      /\ \A i \in m + 1 .. n : i - m \in DOMAIN chain /\ g[i] = chain[i - m]
      /\ \A i \in n + 1 .. Len(g) : i - n \in DOMAIN outputs /\ g[i] = outputs[i - n]
  BY DEF WithTurn
<1> HIDE DEF g, m, n
<1>a. /\ DOMAIN out = { i \in DOMAIN chain : IsCall(chain[i]) }
      /\ \A i \in DOMAIN out : out[i] \in DOMAIN outputs
      /\ \A i \in DOMAIN chain : ~IsOutput(chain[i])
  BY DEF NewTurn
<1>b. \A j \in DOMAIN outputs : IsOutput(outputs[j]) /\ \E i \in DOMAIN out : out[i] = j
  BY DEF NewTurn
<1>c. \A i, k \in DOMAIN out : chain[i].id = chain[k].id => i = k
  BY DEF NewTurn
<1>d. \A i \in DOMAIN out : /\ outputs[out[i]].id = chain[i].id
                            /\ chain[i].id # NoId
  BY DEF NewTurn
<1>e. \A i \in DOMAIN out, k \in DOMAIN h : h[k].id # chain[i].id
  BY DEF NewTurn
<1>2. Matched(h)
  BY NoViolations DEF Paired
\* The two kinds of pairs: those of h, and those of the new turn.
<1>3. ASSUME NEW k \in 1 .. m, IsCall(g[k]) \/ IsOutput(g[k])
      PROVE  /\ g[k].id # NoId
             /\ \E i, j \in 1 .. m : /\ i < j
                                     /\ CallsOf(g, g[k].id) = {i}
                                     /\ OutputsOf(g, g[k].id) = {j}
  <2> DEFINE x == g[k].id
  <2>1. k \in DOMAIN h /\ g[k] = h[k]
    BY <1>1
  <2>2. PICK i, j \in DOMAIN h : CallsOf(h, x) = {i} /\ OutputsOf(h, x) = {j}
    BY <1>2, <1>3, <2>1 DEF Matched
  <2>3. x # NoId
    BY <1>2, <1>3, <2>1 DEF Matched
  <2>4. i < j
    BY <2>2 DEF Paired, CallsOf, OutputsOf
  <2>5. \A a \in DOMAIN g : (IsCall(g[a]) \/ IsOutput(g[a])) /\ g[a].id = x => a \in 1 .. m
    <3> SUFFICES ASSUME NEW a \in DOMAIN g, IsCall(g[a]) \/ IsOutput(g[a]), g[a].id = x,
                        a \notin 1 .. m
                 PROVE  FALSE
      OBVIOUS
    <3>1. CASE a \in m + 1 .. n
      <4>1. a - m \in DOMAIN chain /\ g[a] = chain[a - m]
        BY <1>1, <3>1
      <4>2. a - m \in DOMAIN out
        BY <4>1, <1>a
      <4> QED BY <4>1, <4>2, <2>1, <1>e
    <3>2. CASE a \in n + 1 .. Len(g)
      <4>1. a - n \in DOMAIN outputs /\ g[a] = outputs[a - n]
        BY <1>1, <3>2
      <4>2. PICK i1 \in DOMAIN out : out[i1] = a - n
        BY <4>1, <1>b
      <4> QED BY <4>1, <4>2, <2>1, <1>d, <1>e
    <3> QED BY <1>1, <3>1, <3>2
  <2>6. CallsOf(g, x) = CallsOf(h, x) /\ OutputsOf(g, x) = OutputsOf(h, x)
    BY <1>1, <2>5 DEF CallsOf, OutputsOf
  <2>7. CallsOf(g, x) = {i} /\ OutputsOf(g, x) = {j} /\ i \in 1 .. m /\ j \in 1 .. m
    BY <1>1, <2>2, <2>6
  <2> QED BY <2>3, <2>4, <2>7
<1>4. ASSUME NEW i \in DOMAIN out
      PROVE  /\ CallsOf(g, chain[i].id) = {i + m}
             /\ OutputsOf(g, chain[i].id) = {out[i] + n}
             /\ i + m \in m + 1 .. n /\ out[i] + n \in n + 1 .. Len(g)
  <2> DEFINE x == chain[i].id
  <2>1. i \in DOMAIN chain /\ i + m \in m + 1 .. n /\ g[i + m] = chain[i] /\ IsCall(chain[i])
    <3>1. i \in DOMAIN chain /\ IsCall(chain[i])
      BY <1>a
    <3>2. i + m \in m + 1 .. n /\ (i + m) - m = i
      BY <1>1, <3>1
    <3> QED BY <1>1, <3>1, <3>2
  <2>2. out[i] \in DOMAIN outputs /\ out[i] + n \in n + 1 .. Len(g)
        /\ g[out[i] + n] = outputs[out[i]]
    <3>1. out[i] \in DOMAIN outputs
      BY <1>a
    <3>2. out[i] + n \in n + 1 .. Len(g) /\ (out[i] + n) - n = out[i]
      BY <1>1, <3>1
    <3> QED BY <1>1, <3>1, <3>2
  <2>3. ASSUME NEW a \in CallsOf(g, x) PROVE a = i + m
    <3>1. a \in DOMAIN g /\ IsCall(g[a]) /\ g[a].id = x
      BY DEF CallsOf
    <3>2. a \notin 1 .. m
      BY <1>1, <1>e, <3>1
    <3>3. a \notin n + 1 .. Len(g)
      BY <1>1, <1>b, <3>1 DEF IsCall, IsOutput
    <3>4. a \in m + 1 .. n
      BY <1>1, <3>1, <3>2, <3>3
    <3>5. a - m \in DOMAIN out /\ chain[a - m].id = x
      BY <1>1, <1>a, <3>1, <3>4
    <3>6. a - m = i
      BY <3>5, <1>c
    <3> QED BY <3>6, <3>4, <1>1
  <2>4. ASSUME NEW a \in OutputsOf(g, x) PROVE a = out[i] + n
    <3>1. a \in DOMAIN g /\ IsOutput(g[a]) /\ g[a].id = x
      BY DEF OutputsOf
    <3>2. a \notin 1 .. m
      BY <1>1, <1>e, <3>1
    <3>3. a \notin m + 1 .. n
      BY <1>1, <1>a, <3>1
    <3>4. a \in n + 1 .. Len(g)
      BY <1>1, <3>1, <3>2, <3>3
    <3>5. a - n \in DOMAIN outputs /\ g[a] = outputs[a - n]
      BY <1>1, <3>4
    <3>6. PICK k \in DOMAIN out : out[k] = a - n
      BY <3>5, <1>b
    <3>7. k = i
      BY <3>1, <3>5, <3>6, <1>c, <1>d
    <3> QED BY <3>6, <3>7, <3>4, <1>1
  <2>5. i + m \in CallsOf(g, x)
    BY <1>1, <2>1 DEF CallsOf
  <2>6. out[i] + n \in OutputsOf(g, x)
    <3>1. IsOutput(g[out[i] + n]) /\ g[out[i] + n].id = x
      BY <1>b, <1>d, <2>2
    <3> QED BY <1>1, <2>2, <3>1 DEF OutputsOf
  <2> QED BY <2>1, <2>2, <2>3, <2>4, <2>5, <2>6
\* Every item that is a call or an output is of one of the two kinds.
<1>5. ASSUME NEW k \in DOMAIN g, IsCall(g[k]) \/ IsOutput(g[k]), k \notin 1 .. m
      PROVE  \E i \in DOMAIN out : g[k].id = chain[i].id
  <2>1. CASE k \in m + 1 .. n
    <3>1. k - m \in DOMAIN out /\ g[k] = chain[k - m]
      BY <1>1, <1>5, <1>a, <2>1
    <3> QED BY <3>1
  <2>2. CASE k \in n + 1 .. Len(g)
    <3>1. k - n \in DOMAIN outputs /\ g[k] = outputs[k - n]
      BY <1>1, <2>2
    <3>2. PICK i \in DOMAIN out : out[i] = k - n
      BY <3>1, <1>b
    <3> QED BY <3>1, <3>2, <1>d
  <2> QED BY <1>1, <1>5, <2>1, <2>2
<1>6. Matched(g)
  <2> SUFFICES ASSUME NEW k \in DOMAIN g, IsCall(g[k]) \/ IsOutput(g[k])
               PROVE  /\ g[k].id # NoId
                      /\ \E i, j \in DOMAIN g : /\ CallsOf(g, g[k].id) = {i}
                                                /\ OutputsOf(g, g[k].id) = {j}
    BY DEF Matched
  <2>1. CASE k \in 1 .. m
    <3>1. k \in 1 .. m /\ (IsCall(g[k]) \/ IsOutput(g[k]))
      BY <2>1
    <3>2. PICK i, j \in 1 .. m : CallsOf(g, g[k].id) = {i} /\ OutputsOf(g, g[k].id) = {j}
      BY <1>3, <3>1
    <3>3. i \in DOMAIN g /\ j \in DOMAIN g
      BY <1>1, <3>2
    <3> QED BY <1>3, <3>1, <3>2, <3>3
  <2>2. CASE k \notin 1 .. m
    <3>1. PICK i \in DOMAIN out : g[k].id = chain[i].id
      BY <1>5, <2>2
    <3>2. i + m \in DOMAIN g /\ out[i] + n \in DOMAIN g
      BY <1>1, <1>4
    <3> QED BY <1>4, <1>d, <3>1, <3>2
  <2> QED BY <2>1, <2>2
\* A pair, and where it stands.
<1>7. ASSUME NEW i \in DOMAIN g, NEW j \in DOMAIN g,
             IsCall(g[i]), IsOutput(g[j]), g[i].id = g[j].id
      PROVE  (i \in 1 .. m /\ j \in 1 .. m /\ i < j) \/ (i > m /\ i <= n /\ j > n)
  <2>0. i \in CallsOf(g, g[i].id) /\ j \in OutputsOf(g, g[i].id)
    BY <1>7 DEF CallsOf, OutputsOf
  <2>1. CASE i \in 1 .. m
    <3>1. PICK a, b \in 1 .. m : /\ a < b
                                /\ CallsOf(g, g[i].id) = {a}
                                /\ OutputsOf(g, g[i].id) = {b}
      BY <1>3, <1>7, <2>1
    <3>2. i = a /\ j = b
      BY <2>0, <3>1
    <3> QED BY <3>1, <3>2
  <2>2. CASE i \notin 1 .. m
    <3>1. PICK k \in DOMAIN out : g[i].id = chain[k].id
      BY <1>5, <1>7, <2>2
    <3>2. i = k + m /\ j = out[k] + n
      BY <1>4, <2>0, <3>1
    <3> QED BY <1>1, <1>4, <3>1, <3>2
  <2> QED BY <2>1, <2>2
<1>8. TurnsWhole(g)
  <2> SUFFICES ASSUME NEW i \in DOMAIN g, NEW j \in DOMAIN g,
                      IsCall(g[i]), IsOutput(g[j]), g[i].id = g[j].id,
                      NEW t \in GroupStarts(g), i < t, t <= j
               PROVE  FALSE
    BY DEF TurnsWhole
  <2>1. /\ t > 1 /\ t \in DOMAIN g /\ t - 1 \in DOMAIN g
        /\ IsOutput(g[t - 1]) /\ g[t].type \in {"function_call", "reasoning"}
    BY <1>1 DEF GroupStarts, Opens
  <2>2. CASE i \in 1 .. m /\ j \in 1 .. m
    <3>1. t \in 1 .. m /\ t - 1 \in 1 .. m /\ i \in DOMAIN h /\ j \in DOMAIN h
      BY <1>1, <2>1, <2>2
    <3>2. t \in GroupStarts(h)
      BY <1>1, <2>1, <3>1 DEF GroupStarts, Opens
    <3>3. g[i] = h[i] /\ g[j] = h[j]
      BY <1>1, <2>2
    <3> QED BY <3>1, <3>2, <3>3 DEF TurnsWhole
  <2>3. CASE i > m /\ i <= n /\ j > n
    <3>1. CASE t > n
      <4>1. t \in n + 1 .. Len(g)
        BY <1>1, <2>1, <3>1
      <4> QED BY <1>1, <1>b, <2>1, <4>1 DEF IsOutput
    <3>2. CASE t <= n
      <4>1. t - 1 \in m + 1 .. n
        BY <1>1, <2>1, <2>3, <3>2
      <4> QED BY <1>1, <1>a, <2>1, <4>1
    <3> QED BY <1>1, <2>1, <3>1, <3>2
  <2> QED BY <1>7, <2>2, <2>3
<1>9. Paired(g)
  <2>1. \A i, j \in DOMAIN g :
          IsCall(g[i]) /\ IsOutput(g[j]) /\ g[i].id = g[j].id => i < j
    BY <1>1, <1>7
  <2> QED BY <1>1, <1>6, <2>1, NoViolations DEF Paired
<1> QED BY <1>8, <1>9 DEF g

\* A note to the model after a rejected directive (loop.py, _run_agent)
\* changes nothing about the pairs.
THEOREM NoteKeepsPairs ==
  ASSUME NEW h \in Seq(Items), Paired(h), TurnsWhole(h), NEW size \in Nat
  PROVE  Paired(WithNote(h, size)) /\ TurnsWhole(WithNote(h, size))
<1> DEFINE g == WithNote(h, size)
           m == Len(h)
<1>1. /\ g \in Seq(Items) /\ DOMAIN g = 1 .. m + 1 /\ m \in Nat /\ DOMAIN h = 1 .. m
      /\ \A i \in 1 .. m : g[i] = h[i]
      /\ g[m + 1].type = "user"
  BY DEF WithNote, Items, ItemTypes
<1> HIDE DEF g, m
<1>2. \A i \in DOMAIN g : IsCall(g[i]) \/ IsOutput(g[i]) => i \in 1 .. m
  BY <1>1 DEF IsCall, IsOutput
<1>3. \A x : CallsOf(g, x) = CallsOf(h, x) /\ OutputsOf(g, x) = OutputsOf(h, x)
  BY <1>1, <1>2 DEF CallsOf, OutputsOf
<1>4. Matched(h)
  BY NoViolations DEF Paired
<1>5. Matched(g)
  <2> SUFFICES ASSUME NEW k \in DOMAIN g, IsCall(g[k]) \/ IsOutput(g[k])
               PROVE  /\ g[k].id # NoId
                      /\ \E i, j \in DOMAIN g : /\ CallsOf(g, g[k].id) = {i}
                                                /\ OutputsOf(g, g[k].id) = {j}
    BY DEF Matched
  <2>1. k \in DOMAIN h /\ g[k] = h[k]
    BY <1>1, <1>2
  <2>2. PICK i, j \in DOMAIN h : /\ CallsOf(h, h[k].id) = {i}
                                 /\ OutputsOf(h, h[k].id) = {j}
    BY <1>4, <2>1 DEF Matched
  <2>3. h[k].id # NoId
    BY <1>4, <2>1 DEF Matched
  <2>4. i \in DOMAIN g /\ j \in DOMAIN g
    BY <1>1
  <2> QED BY <1>3, <2>1, <2>2, <2>3, <2>4
<1>6. \A i, j \in DOMAIN g : IsCall(g[i]) /\ IsOutput(g[j]) /\ g[i].id = g[j].id => i < j
  BY <1>1, <1>2 DEF Paired
<1>7. TurnsWhole(g)
  <2> SUFFICES ASSUME NEW i \in DOMAIN g, NEW j \in DOMAIN g,
                      IsCall(g[i]), IsOutput(g[j]), g[i].id = g[j].id,
                      NEW t \in GroupStarts(g), i < t, t <= j
               PROVE  FALSE
    BY DEF TurnsWhole
  <2>1. i \in 1 .. m /\ j \in 1 .. m /\ t \in 1 .. m /\ t - 1 \in 1 .. m
    BY <1>1, <1>2 DEF GroupStarts
  <2>2. t \in GroupStarts(h)
    BY <1>1, <2>1 DEF GroupStarts, Opens
  <2> QED BY <1>1, <2>1, <2>2 DEF TurnsWhole
<1>8. Paired(g)
  BY <1>1, <1>5, <1>6, NoViolations DEF Paired
<1> QED BY <1>7, <1>8 DEF g

\* The token test of a turn (loop.py, token_growth_final_turn): a turn that
\* went with its tools, and cost no more than was estimated and allowed,
\* leaves room for a next turn up to twice the size of the one before it.
THEOREM GrowthLeavesRoom ==
  ASSUME NEW inCeiling \in Int, NEW usedIn \in Int, NEW estIn \in Int,
         NEW outCeiling \in Int, NEW usedOut \in Int, NEW cap \in Int,
         NEW lastIn \in Nat, NEW lastOut \in Nat, NEW billedIn \in Nat, NEW billedOut \in Nat,
         ~TokenGrowthFinal(inCeiling, usedIn, estIn, outCeiling, usedOut, cap, lastIn, lastOut),
         billedIn <= estIn, billedOut <= cap,
         NEW next \in Nat, NEW minUseful \in Nat,
         next < 2 * lastIn, minUseful <= 2 * lastOut
  PROVE  TokensLeft(inCeiling, usedIn + billedIn, next, outCeiling, usedOut + billedOut, minUseful)
BY DEF TokenGrowthFinal, TokensLeft, NoTurn

=============================================================================
