---------------------------- MODULE BatchScheduler ----------------------------
(***************************************************************************)
(* recipes/llm_sched.py: the rolling window of paid batches.  A worker     *)
(* runs step() under an exclusive lock on sched-state.json: it reads the   *)
(* state, reconciles and collects the jobs in flight, finalizes and        *)
(* reviews what was collected, merges reviewed retries, submits new work   *)
(* while slots and budget allow, and writes the state at the very end.     *)
(* What it does to the run directories and at the provider on the way      *)
(* (module BatchRunner) lasts; what it remembers is lost if it is cut off. *)
(*                                                                         *)
(* A job is named by its run directory here; the code names it by the last *)
(* component of the path.  The state file is written whole or not at all.  *)
(***************************************************************************)
EXTENDS BatchRunner, Functions, SequenceFilter

CONSTANTS
  Workers,      \* processes that run step()
  NoWorker,
  Seed,         \* the queue a scope starts with
  MaxInFlight,  \* MAX_IN_FLIGHT: slots
  Ceilings,     \* what state["ceiling"] may be set to, in requests
  Loaded,       \* the runs somebody loads by hand
  Faults,       \* what may go wrong
  MaxFaults     \* bound: how often something goes wrong in a behaviour

FaultKinds == { "upload", "create", "answer",      \* cmd_submit
                "query", "collect", "lag",         \* the provider's API
                "finalize", "review", "merge",     \* local work
                "flag", "version",                 \* findings, a new release
                "crash",                           \* the worker is cut off
                "crash_unsaved" }                  \* ... also after it paid

ASSUME SchedulerAssumption ==
  /\ NoWorker \notin Workers
  /\ Seed \in Seq(Fresh)
  /\ MaxInFlight \in Nat \ {0}
  /\ Ceilings \subseteq Nat /\ Ceilings # {}
  /\ Loaded \subseteq Runs
  /\ Faults \subseteq FaultKinds
  /\ MaxFaults \in Nat

VARIABLES
  disk,     \* sched-state.json
  lock,     \* the worker that holds the file lock
  work,     \* what each worker is doing
  faults    \* faults so far

vars == <<runnerVars, disk, lock, work, faults>>

StopReasons == { "version-change", "failure-rate", "integrity",
                 "budget-exhausted" }

\* A job takes a slot from its submission on.  batch_id "absent" is what
\* reconcile_submission hands back when no batch was found.
Jobs == [ batch_id  : {"none", "real", "absent"},
          ambiguous : BOOLEAN,
          status    : {"prepared", "submitted"} \cup (Statuses \ {"none"}),
          reserved  : Nat,
          stages    : SUBSET {"collected", "finalized", "reviewed", "reconciled"},
          passed    : BOOLEAN,     \* of its review
          retried   : BOOLEAN ]    \* retry_prepared is set

NoJob == [ batch_id |-> "none", ambiguous |-> FALSE, status |-> "prepared",
           reserved |-> 0, stages |-> {}, passed |-> FALSE, retried |-> FALSE ]

States == [ jobs      : [Runs -> Jobs],
            queue     : Seq(Runs),
            stop      : StopReasons \cup {"none"},
            completed : Nat,
            ceiling   : Ceilings ]

NewState(ceiling) == [ jobs |-> [r \in Runs |-> NoJob], queue |-> Seed,
                       stop |-> "none", completed |-> 0, ceiling |-> ceiling ]

Blank == NewState(CHOOSE c \in Ceilings : TRUE)

\* A worker inside step(): its copy of the state, the jobs its loop has yet
\* to visit and the run it is about to submit.
Idle == [pc |-> "idle", st |-> Blank, todo |-> {}, run |-> NoRun]

Steps == [ pc   : {"idle", "poll", "review", "merge", "submit", "write"},
           st   : States,
           todo : SUBSET Runs,
           run  : Runs \cup {NoRun} ]

TypeOK ==
  /\ RunnerTypeOK
  /\ disk \in States
  /\ lock \in Workers \cup {NoWorker}
  /\ work \in [Workers -> Steps]
  /\ faults \in 0..MaxFaults

Init ==
  /\ RunnerInit
  /\ disk \in {NewState(c) : c \in Ceilings}
  /\ lock = NoWorker
  /\ work = [w \in Workers |-> Idle]
  /\ faults = 0

-----------------------------------------------------------------------------
(* Reading a state.                                                        *)

IsRetry(r) == dir[r].parent # NoRun

Open(job) == job.batch_id # "none" \/ job.ambiguous

\* Mutant of Holds: an ambiguous submission takes no slot.
HoldsConfirmed(job) == job.batch_id # "none" /\ "reviewed" \notin job.stages

\* A slot is held from the submission to the review.
Holds(job) == Open(job) /\ "reviewed" \notin job.stages
Occupied(st) == {r \in Runs : Holds(st.jobs[r])}

\* reserved_total counts what is not reviewed; budget_ok adds the proposal.
ReservedTotal(st) ==
  SumFunctionOnSet([r \in Runs |-> IF "reviewed" \in st.jobs[r].stages
                                   THEN 0 ELSE st.jobs[r].reserved], Runs)

\* Mutant of BudgetOk: what is under way is forgotten.
BudgetSpentOnly(st, max) == st.completed + max <= st.ceiling

BudgetOk(st, max) == st.completed + ReservedTotal(st) + max <= st.ceiling

SetStop(st, reason) == IF st.stop = "none" THEN [st EXCEPT !.stop = reason] ELSE st

\* No fresh run is released while the work of an earlier batch is open.
PriorBatchOpen(st) ==
  \/ \E r \in Runs :
       /\ Open(st.jobs[r])
       /\ IF "reviewed" \in st.jobs[r].stages
          THEN \/ ~st.jobs[r].passed
               \/ IsRetry(r) /\ "reconciled" \notin st.jobs[r].stages
          ELSE st.jobs[r].ambiguous \/ st.jobs[r].status = "ended"
  \/ \E i \in DOMAIN st.queue : IsRetry(st.queue[i])

\* The fresh runs that passed their review and have had no retry yet.
Retriable(st) == {r \in Runs : /\ ~IsRetry(r)
                               /\ "reviewed" \in st.jobs[r].stages
                               /\ st.jobs[r].passed
                               /\ ~st.jobs[r].retried}

QueuedWork(st) ==
  /\ st.queue # <<>>
  /\ ~IsRetry(Head(st.queue)) => ~PriorBatchOpen(st)

\* Mutant of MayRefill: the stop is not looked at.
MayRefillStopped(st) == Cardinality(Occupied(st)) < MaxInFlight

MayRefill(st) == st.stop = "none" /\ Cardinality(Occupied(st)) < MaxInFlight

\* Mutant of ScopeComplete: retries need not be merged.
ScopeCompleteReviewed(st) ==
  /\ st.queue = <<>>
  /\ Retriable(st) = {}
  /\ \A r \in Runs : Open(st.jobs[r]) =>
       ~st.jobs[r].ambiguous /\ "reviewed" \in st.jobs[r].stages

\* pending_items is empty.
ScopeComplete(st) ==
  /\ st.queue = <<>>
  /\ Retriable(st) = {}
  /\ \A r \in Runs : Open(st.jobs[r]) =>
       /\ ~st.jobs[r].ambiguous
       /\ {"collected", "finalized", "reviewed"} \subseteq st.jobs[r].stages
       /\ IsRetry(r) => "reconciled" \in st.jobs[r].stages

-----------------------------------------------------------------------------
(* Steps of a worker.                                                      *)

Fault(kind) == kind \in Faults /\ faults < MaxFaults /\ faults' = faults + 1
NoFault == UNCHANGED faults

\* It must happen, or a fault makes it happen.
Because(must, kind) == (must /\ NoFault) \/ Fault(kind)

\* The worker goes on at pc with state st, the loop over todo and a run.
Goes(w, pc, st, todo, run) ==
  work' = [work EXCEPT ![w] = [pc |-> pc, st |-> st, todo |-> todo, run |-> run]]

At(w, pc) == lock = w /\ work[w].pc = pc

\* One visit of a loop: run r is done, and its job is now this.
Visited(w, r, job) ==
  work' = [work EXCEPT ![w].st.jobs[r] = job, ![w].todo = @ \ {r}]

Job(w, r) == work[w].st.jobs[r]

\* An exception that leaves step(), or the end of the process: the lock is
\* released and the copy of the state is gone.
Lost(w) ==
  /\ lock' = NoWorker
  /\ work' = [work EXCEPT ![w] = Idle]
  /\ UNCHANGED disk

\* locked_state and the check of the frozen versions.
Begin(w) ==
  /\ lock = NoWorker
  /\ lock' = w
  /\ \/ NoFault /\ Goes(w, "poll", disk, Occupied(disk), NoRun)
     \/ Fault("version") /\ Goes(w, "write", SetStop(disk, "version-change"), {}, NoRun)
  /\ UNCHANGED <<runnerVars, disk>>

\* An ambiguous submission: cmd_status --reconcile looks for a batch of the
\* uploaded file.  It has no answer for the scheduler when the manifest has
\* a batch id already, and raises when no attempt was recorded.
Reconcile(w, r) ==
  /\ At(w, "poll") /\ r \in work[w].todo
  /\ Job(w, r).ambiguous /\ Job(w, r).batch_id = "none"
  /\ \/ /\ dir[r].batch
        /\ NoFault
        /\ dir' = Queried(r)
        /\ Visited(w, r, Job(w, r))
     \/ /\ ~dir[r].batch
        /\ Because(dir[r].attempt = "none", "query")
        /\ UNCHANGED dir
        /\ Visited(w, r, Job(w, r))
     \/ /\ ~dir[r].batch /\ dir[r].attempt # "none" /\ Sent(r)
        /\ NoFault
        /\ dir' = Confirmed(r)
        /\ Visited(w, r, [Job(w, r) EXCEPT !.batch_id = "real", !.ambiguous = FALSE])
     \/ /\ ~dir[r].batch /\ dir[r].attempt # "none"
        /\ Because(~Sent(r), "lag")
        /\ dir' = MarkedAbsent(r)
        /\ Visited(w, r, [Job(w, r) EXCEPT !.batch_id = "absent", !.ambiguous = FALSE])
  /\ UNCHANGED <<server, recipes, held, disk, lock>>

Collectable(w, r) ==
  server[r].status = "ended" /\ "collected" \notin Job(w, r).stages

Accounted(w, r) == [Job(w, r) EXCEPT !.status = server[r].status,
                                     !.stages = @ \cup {"collected"},
                                     !.reserved = 0]

\* A job with a batch id: its status is asked for, and what has ended is
\* collected and accounted.  A query that raises holds the slot.
Poll(w, r) ==
  /\ At(w, "poll") /\ r \in work[w].todo
  /\ Job(w, r).batch_id # "none"
  /\ \/ /\ Because(~dir[r].batch, "query")
        /\ UNCHANGED dir
        /\ Visited(w, r, Job(w, r))
     \/ /\ dir[r].batch /\ ~Collectable(w, r)
        /\ NoFault
        /\ dir' = Queried(r)
        /\ Visited(w, r, [Job(w, r) EXCEPT !.status = server[r].status])
     \/ /\ dir[r].batch /\ Collectable(w, r)
        /\ NoFault
        /\ dir' = Collected(r)
        /\ Goes(w, "poll",
                [work[w].st EXCEPT !.jobs[r] = Accounted(w, r),
                                   !.completed = @ + ActualCost(r)],
                work[w].todo \ {r}, NoRun)
  /\ UNCHANGED <<server, recipes, held, disk, lock>>

\* The collection raises: nothing catches it, the step is lost.
CollectFails(w, r) ==
  /\ At(w, "poll") /\ r \in work[w].todo
  /\ Job(w, r).batch_id # "none"
  /\ dir[r].batch /\ Collectable(w, r)
  /\ Fault("collect")
  /\ dir' = Queried(r)
  /\ Lost(w)
  /\ UNCHANGED <<server, recipes, held>>

LoopEnds(w, from, to, todo) ==
  /\ At(w, from) /\ work[w].todo = {}
  /\ Goes(w, to, work[w].st, todo, NoRun)
  /\ NoFault
  /\ UNCHANGED <<runnerVars, disk, lock>>

PollEnds(w) ==
  LoopEnds(w, "poll", "review",
           {r \in Runs : /\ "collected" \in Job(w, r).stages
                         /\ "reviewed" \notin Job(w, r).stages})

\* rejection_breach over the first attempts of a fresh run.
FirstAttempts(r) == {s \in dir[r].asks : dir[r].recs[s].attempts = 1}
Breach(r) ==
  LET rejected == {s \in FirstAttempts(r) : dir[r].recs[s].verdict = "rejected_validation"}
  IN 100 * Cardinality(rejected) > 33 * Cardinality(FirstAttempts(r))

\* cmd_finalize, unless an earlier step already did it.
Finalize(w, r) ==
  IF "finalized" \in Job(w, r).stages THEN UNCHANGED dir ELSE dir' = Finalized(r)

FinalizeFails(w, r) ==
  /\ At(w, "review") /\ r \in work[w].todo
  /\ "finalized" \notin Job(w, r).stages
  /\ Fault("finalize")
  /\ Visited(w, r, Job(w, r))
  /\ UNCHANGED <<runnerVars, disk, lock>>

ReviewFails(w, r) ==
  /\ At(w, "review") /\ r \in work[w].todo
  /\ Finalize(w, r)
  /\ Fault("review")
  /\ Visited(w, r, [Job(w, r) EXCEPT !.stages = @ \cup {"finalized"}])
  /\ UNCHANGED <<server, recipes, held, disk, lock>>

\* review_job on the files as finalize left them.  What the screens of the
\* ready rows find is a fault ("flag"); every finding stops the scope, the
\* first reason stays.
Review(w, r) ==
  /\ At(w, "review") /\ r \in work[w].todo
  /\ Finalize(w, r)
  /\ LET breach == ~IsRetry(r) /\ Breach(r)'
         judged(flagged) ==
           [Job(w, r) EXCEPT !.stages = @ \cup {"finalized", "reviewed"},
                             !.passed = ~(breach \/ flagged)]
         st(flagged) ==
           LET seen == [work[w].st EXCEPT !.jobs[r] = judged(flagged)]
               flags == IF flagged THEN SetStop(seen, "integrity") ELSE seen
           IN IF breach THEN SetStop(flags, "failure-rate") ELSE flags
     IN \E flagged \in BOOLEAN :
          /\ IF flagged THEN Fault("flag") ELSE NoFault
          /\ Goes(w, "review", st(flagged), work[w].todo \ {r}, NoRun)
  /\ UNCHANGED <<server, recipes, held, disk, lock>>

\* Reviewed retries not yet merged, those of this step and of earlier ones.
ReviewEnds(w) ==
  LoopEnds(w, "review", "merge",
           {r \in Runs : /\ IsRetry(r)
                         /\ "reviewed" \in Job(w, r).stages
                         /\ "reconciled" \notin Job(w, r).stages})

\* cmd_reconcile into the parent; one that was marked before is skipped.
Merge(w, r) ==
  /\ At(w, "merge") /\ r \in work[w].todo
  /\ Mergeable(r)
  /\ IF r \in dir[dir[r].parent].merged THEN UNCHANGED dir ELSE dir' = Merged(r, Merges)
  /\ NoFault
  /\ Visited(w, r, [Job(w, r) EXCEPT !.stages = @ \cup {"reconciled"}])
  /\ UNCHANGED <<server, recipes, held, disk, lock>>

\* It raises: at once, or after its first k writes.  A later step tries again.
MergeFails(w, r) ==
  /\ At(w, "merge") /\ r \in work[w].todo
  /\ Because(~Mergeable(r), "merge")
  /\ IF Mergeable(r) /\ r \notin dir[dir[r].parent].merged
     THEN \E k \in 0..Merges : dir' = Merged(r, k)
     ELSE UNCHANGED dir
  /\ Visited(w, r, Job(w, r))
  /\ UNCHANGED <<server, recipes, held, disk, lock>>

\* With the loops behind it, the worker refills its slots.
AtRefill(w) == At(w, "merge") /\ work[w].todo = {}

\* Run r is next: the reservation for its full output cap, max, must fit
\* under the ceiling.
Reserve(w, st, r, max) ==
  IF BudgetOk(st, max)
  THEN Goes(w, "submit", st, {}, r)
  ELSE Goes(w, "write", SetStop(st, "budget-exhausted"), {}, NoRun)

\* The head of the queue.
Take(w) ==
  LET r == Head(work[w].st.queue) IN
  /\ AtRefill(w)
  /\ MayRefill(work[w].st) /\ QueuedWork(work[w].st)
  /\ Reserve(w, work[w].st, r, MaxCost(r))
  /\ NoFault
  /\ UNCHANGED <<runnerVars, disk, lock>>

\* A retry directory is named after the time: a name not used before.
NewNames == {c \in Retries : dir[c].stage = "none"}
NewName == CHOOSE c \in NewNames : TRUE

\* With an empty queue, the retry of a passed parent: cmd_retry writes a run
\* of whatever is eligible, which may be nothing.
PrepareRetry(w, p) ==
  /\ AtRefill(w)
  /\ MayRefill(work[w].st) /\ work[w].st.queue = <<>>
  /\ p \in Retriable(work[w].st)
  /\ dir[p].stage = "finalized"
  /\ NewNames # {}
  /\ dir' = RetryPrepared(p, NewName)
  /\ Reserve(w, [work[w].st EXCEPT !.jobs[p].retried = TRUE], NewName,
             Cardinality(Eligible(p)))
  /\ NoFault
  /\ UNCHANGED <<server, recipes, held, disk, lock>>

\* cmd_retry refuses: the parent counts as having nothing eligible.
RetryRefused(w, p) ==
  /\ AtRefill(w)
  /\ MayRefill(work[w].st) /\ work[w].st.queue = <<>>
  /\ p \in Retriable(work[w].st)
  /\ dir[p].stage # "finalized"
  /\ Goes(w, "write", [work[w].st EXCEPT !.jobs[p].retried = TRUE], {}, NoRun)
  /\ NoFault
  /\ UNCHANGED <<runnerVars, disk, lock>>

RefillEnds(w) ==
  /\ AtRefill(w)
  /\ ~( /\ MayRefill(work[w].st)
        /\ IF work[w].st.queue = <<>> THEN Retriable(work[w].st) # {}
                                      ELSE QueuedWork(work[w].st) )
  /\ Goes(w, "write", work[w].st, {}, NoRun)
  /\ NoFault
  /\ UNCHANGED <<runnerVars, disk, lock>>

\* The state with a job for r, out of the queue.
WithJob(st, r, job) ==
  [st EXCEPT !.jobs[r] = job, !.queue = Only(@, Runs \ {r})]

\* cmd_submit came back with a batch id.
Submitted(w) ==
  LET r == work[w].run IN
  /\ At(w, "submit")
  /\ ~SubmitRefused(r)
  /\ NoFault
  /\ dir' = Confirmed(r)
  /\ server' = Created(r)
  /\ Goes(w, "merge",
          WithJob(work[w].st, r, [NoJob EXCEPT !.batch_id = "real",
                                               !.status = "submitted",
                                               !.reserved = MaxCost(r)]),
          {}, NoRun)
  /\ UNCHANGED <<recipes, held, disk, lock>>

\* cmd_submit raised: it refused, the upload failed, the batch was not
\* created, or it was and the answer was lost.  A job that is there already
\* keeps its other fields.
Ambiguous(w) ==
  LET r == work[w].run IN
  /\ At(w, "submit")
  /\ \/ /\ Because(SubmitRefused(r), "upload")
        /\ UNCHANGED <<dir, server>>
     \/ /\ ~SubmitRefused(r) /\ Fault("create")
        /\ dir' = AttemptMade(r)
        /\ UNCHANGED server
     \/ /\ ~SubmitRefused(r) /\ Fault("answer")
        /\ dir' = AttemptMade(r)
        /\ server' = Created(r)
  /\ Goes(w, "write",
          WithJob(work[w].st, r, [Job(w, r) EXCEPT !.ambiguous = TRUE,
                                                   !.reserved = MaxCost(r)]),
          {}, NoRun)
  /\ UNCHANGED <<recipes, held, disk, lock>>

\* The end of the with block: the state is written, the lock released.
Write(w) ==
  /\ At(w, "write")
  /\ disk' = work[w].st
  /\ lock' = NoWorker
  /\ work' = [work EXCEPT ![w] = Idle]
  /\ NoFault
  /\ UNCHANGED runnerVars

\* Jobs the state file does not know of yet.
Unsaved(w) == {r \in Runs : Open(Job(w, r)) /\ ~Open(disk.jobs[r])}

\* The worker is cut off anywhere before the write.
Crash(w) ==
  /\ lock = w
  /\ Fault(IF Unsaved(w) = {} THEN "crash" ELSE "crash_unsaved")
  /\ Lost(w)
  /\ UNCHANGED runnerVars

WorkerStep(w) ==
  \/ Begin(w)
  \/ \E r \in Runs : \/ Reconcile(w, r) \/ Poll(w, r) \/ CollectFails(w, r)
                     \/ FinalizeFails(w, r) \/ ReviewFails(w, r) \/ Review(w, r)
                     \/ Merge(w, r) \/ MergeFails(w, r)
  \/ PollEnds(w) \/ ReviewEnds(w)
  \/ Take(w) \/ RefillEnds(w)
  \/ \E p \in Fresh : PrepareRetry(w, p) \/ RetryRefused(w, p)
  \/ Submitted(w) \/ Ambiguous(w)
  \/ Write(w)

ProviderStep(r) == BatchEnds(r) /\ UNCHANGED <<disk, lock, work, faults>>
LoadStep(r) == Load(r) /\ UNCHANGED <<disk, lock, work, faults>>

Next ==
  \/ \E w \in Workers : WorkerStep(w) \/ Crash(w)
  \/ \E r \in Runs : ProviderStep(r)
  \/ \E r \in Loaded : LoadStep(r)

Spec == Init /\ [][Next]_vars

\* Somebody keeps running step(), and the provider ends what it has begun.
FairSpec ==
  /\ Spec
  /\ \A w \in Workers : WF_vars(WorkerStep(w))
  /\ \A r \in Runs : WF_vars(ProviderStep(r))

-----------------------------------------------------------------------------
(* What the scheduler must guarantee.                                      *)

\* The state the lock protects, as it will be if nothing more goes wrong.
Current == IF lock = NoWorker \/ work[lock].pc = "idle" THEN disk ELSE work[lock].st

\* At most MaxInFlight batches are under way or wait for their review at the
\* provider: every batch that is there, also after an ambiguous submission,
\* a failed query, a lost step or the turn of another worker, has a job that
\* holds one of the slots.
Unreviewed == {r \in Runs : Sent(r) /\ "reviewed" \notin Current.jobs[r].stages}
SlotsAtProvider ==
  /\ Unreviewed \subseteq Occupied(Current)
  /\ Cardinality(Occupied(Current)) <= MaxInFlight

\* What is paid for stays bounded.  The provider's charges, and what it may
\* still charge for batches under way, are under the ceiling: the spend on
\* record and the reservations together cover every batch, also ambiguous
\* ones and those of a lost step.  And a record is sent at most RetryLimit
\* times, over all the fresh and retry batches that ever carry it.
Charge(r) == CASE server[r].status = "none" -> 0
               [] server[r].status = "in_progress" -> MaxCost(r)
               [] OTHER -> ActualCost(r)

PaidWorkBounded ==
  /\ SumFunctionOnSet([r \in Runs |-> Charge(r)], Runs) <= disk.ceiling
  /\ \A s \in Source : Cardinality({r \in Runs : Sent(r) /\ s \in dir[r].asks}) <= RetryLimit

\* Records and ready rows of a run agree once no retry of it is half merged,
\* and at no time is there a ready row of a record that is not ready.  So no
\* source is a recipe and a held rejection at once, whichever of the run
\* directories are loaded, and when.
RowsAgree ==
  /\ \A p \in Fresh : HasRows(p) =>
       /\ dir[p].ready \subseteq InState(p, "ready_to_load")
       /\ \/ dir[p].ready = InState(p, "ready_to_load")
          \/ \E c \in Retries : dir[c].parent = p /\ HasRows(c) /\ c \notin dir[p].merged
  /\ recipes \cap held = {}

\* A complete scope has nothing left anywhere: every batch at the provider
\* is reviewed, every retry is merged, and every record that still waits
\* has no attempt left, or belongs to a run whose review raised at first:
\* the status query of the next step wrote "submitted" over "finalized", so
\* cmd_retry refuses it and its records are given up without a word.
CompleteMeansDone ==
  lock = NoWorker /\ disk.stop = "none" /\ ScopeComplete(disk) =>
    \A r \in Runs : Sent(r) =>
      /\ "reviewed" \in disk.jobs[r].stages
      /\ IsRetry(r) => r \in dir[dir[r].parent].merged
      /\ ~IsRetry(r) => Eligible(r) = {} \/ dir[r].stage = "submitted"

\* A scope with a failed review sends nothing more.
NothingSentPastFailedReview ==
  [][ \A r \in Runs : ~Sent(r) /\ Sent(r)' =>
        \A q \in Runs : "reviewed" \in Current.jobs[q].stages => Current.jobs[q].passed ]_vars

\* Every batch that reaches the provider is collected and reviewed in the
\* end: the scope comes to rest with nothing paid for and left lying.
BatchesReviewed ==
  <>[](\A r \in Runs : Sent(r) => "reviewed" \in disk.jobs[r].stages)
=============================================================================
