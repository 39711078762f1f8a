----------------------------- MODULE BatchProofs -----------------------------
(***************************************************************************)
(* The batch pipeline, for any number of workers, runs, records, slots and *)
(* faults.                                                                 *)
(***************************************************************************)
EXTENDS BatchScheduler, ResponseRules, FoldLemmas

\* The turn that is being taken: the worker that holds the lock, or nobody,
\* and then what counts is on disk.
Turn == IF lock = NoWorker
        THEN [pc |-> "idle", st |-> disk, todo |-> {}, run |-> NoRun]
        ELSE work[lock]

\* Who does not hold the lock does nothing, who holds it is inside step().
LockHeld == \A w \in Workers : work[w].pc = "idle" <=> lock # w

\* A run is submitted once one is chosen, only retries are merged, and a
\* directory knows of a batch only if the provider does.
Shape ==
  /\ Turn.pc = "submit" => Turn.run \in Runs
  /\ Turn.pc = "merge" => \A r \in Turn.todo : dir[r].parent \in Runs
  /\ \A r \in Runs : dir[r].batch => Sent(r)

TypeInv == TypeOK /\ LockHeld /\ Shape

-----------------------------------------------------------------------------
(* The pieces the actions are made of.                                     *)

LEMMA GoesMoves ==
  ASSUME TypeOK, NEW w \in Workers, NEW pc, NEW st, NEW todo, NEW run,
         Goes(w, pc, st, todo, run)
  PROVE  /\ work'[w] = [pc |-> pc, st |-> st, todo |-> todo, run |-> run]
         /\ \A v \in Workers \ {w} : work'[v] = work[v]
         /\ [pc |-> pc, st |-> st, todo |-> todo, run |-> run] \in Steps
              => work' \in [Workers -> Steps]
<1>1. work \in [Workers -> Steps]
  BY DEF TypeOK
<1> DEFINE step == [pc |-> pc, st |-> st, todo |-> todo, run |-> run]
<1>2. work' = [work EXCEPT ![w] = step]
  BY DEF Goes
<1> HIDE DEF step
<1>3. work'[w] = step /\ \A v \in Workers \ {w} : work'[v] = work[v]
  BY <1>1, <1>2
<1>4. step \in Steps => work' \in [Workers -> Steps]
  BY <1>1, <1>2
<1> QED  BY <1>3, <1>4 DEF step

LEMMA VisitedMoves ==
  ASSUME TypeOK, NEW w \in Workers, NEW r \in Runs, NEW job \in Jobs, Visited(w, r, job)
  PROVE  /\ work' \in [Workers -> Steps]
         /\ \A v \in Workers \ {w} : work'[v] = work[v]
         /\ work'[w].pc = work[w].pc /\ work'[w].run = work[w].run
         /\ work'[w].todo = work[w].todo \ {r}
         /\ work'[w].st = [work[w].st EXCEPT !.jobs[r] = job]
<1>1. work \in [Workers -> Steps] /\ work[w] \in Steps
  BY DEF TypeOK
<1> DEFINE st == [work[w].st EXCEPT !.jobs[r] = job]
           step == [work[w] EXCEPT !.st = st, !.todo = @ \ {r}]
<1>2. work' = [work EXCEPT ![w] = step]
  BY <1>1 DEF Visited, Steps
<1>3. st \in States
  <2>1. work[w].st \in States
    BY <1>1 DEF Steps
  <2>2. [work[w].st.jobs EXCEPT ![r] = job] \in [Runs -> Jobs]
    BY <2>1 DEF States
  <2> QED  BY <2>1, <2>2 DEF States
<1> HIDE DEF st
<1>4. /\ step \in Steps /\ step.pc = work[w].pc /\ step.run = work[w].run
      /\ step.todo = work[w].todo \ {r} /\ step.st = st
  BY <1>1, <1>3 DEF Steps
<1> HIDE DEF step
<1>5. work' \in [Workers -> Steps] /\ work'[w] = step
      /\ \A v \in Workers \ {w} : work'[v] = work[v]
  BY <1>1, <1>2, <1>4
<1> QED  BY <1>4, <1>5 DEF st

LEMMA LostMoves ==
  ASSUME TypeOK, NEW w \in Workers, Lost(w)
  PROVE  /\ work'[w] = Idle /\ lock' = NoWorker /\ disk' = disk
         /\ \A v \in Workers \ {w} : work'[v] = work[v]
BY DEF TypeOK, Lost


LEMMA Sets ==
  /\ Workers # {} => NoWorker \notin Workers
  /\ NoRun \notin Runs
  /\ MaxFaults \in Nat /\ RetryLimit \in Nat /\ MaxInFlight \in Nat \ {0}
  /\ Seed \in Seq(Runs)
<1>1. Fresh \subseteq Runs
  BY DEF Runs
<1>2. Seed \in Seq(Fresh)
  BY SchedulerAssumption
<1>3. Seed \in Seq(Runs)
  BY <1>1, <1>2
<1> QED  BY <1>3, SchedulerAssumption, RunnerAssumption

LEMMA NoJobTyped == NoJob \in Jobs
BY DEF NoJob, Jobs

LEMMA NewStateTyped ==
  ASSUME NEW c \in Ceilings
  PROVE  NewState(c) \in States
<1>1. [r \in Runs |-> NoJob] \in [Runs -> Jobs]
  BY NoJobTyped
<1> QED  BY <1>1, Sets DEF NewState, States

LEMMA IdleTyped == Idle \in Steps
<1>1. Ceilings # {}
  BY SchedulerAssumption
<1>2. Blank \in States
  BY <1>1, NewStateTyped DEF Blank
<1> QED  BY <1>2 DEF Idle, Steps

\* set_stop keeps the first reason.
LEMMA SetStopMoves ==
  ASSUME NEW st \in States, NEW reason \in StopReasons
  PROVE  /\ SetStop(st, reason) \in States
         /\ SetStop(st, reason).stop # "none"
         /\ st.stop # "none" => SetStop(st, reason) = st
         /\ SetStop(st, reason).jobs = st.jobs /\ SetStop(st, reason).queue = st.queue
         /\ SetStop(st, reason).completed = st.completed
         /\ SetStop(st, reason).ceiling = st.ceiling
BY DEF SetStop, States, StopReasons

\* What a job's submission does to the state.
LEMMA WithJobMoves ==
  ASSUME NEW st \in States, NEW r \in Runs, NEW job \in Jobs
  PROVE  /\ WithJob(st, r, job) \in States
         /\ WithJob(st, r, job).jobs = [st.jobs EXCEPT ![r] = job]
         /\ \A q : Contains(WithJob(st, r, job).queue, q) <=> Contains(st.queue, q) /\ q \in Runs \ {r}
         /\ WithJob(st, r, job).stop = st.stop
         /\ WithJob(st, r, job).completed = st.completed
         /\ WithJob(st, r, job).ceiling = st.ceiling
<1>1. st.queue \in Seq(Runs) /\ st.jobs \in [Runs -> Jobs]
  BY DEF States
<1> DEFINE rest == Only(st.queue, Runs \ {r})
<1>2. rest \in Seq(Runs) /\ \A q : Contains(rest, q) <=> Contains(st.queue, q) /\ q \in Runs \ {r}
  BY <1>1, OnlyKeeps
<1>3. WithJob(st, r, job) = [st EXCEPT !.jobs = [st.jobs EXCEPT ![r] = job], !.queue = rest]
  BY DEF WithJob
<1> HIDE DEF rest
<1>4. [st.jobs EXCEPT ![r] = job] \in [Runs -> Jobs]
  BY <1>1
<1> QED  BY <1>2, <1>3, <1>4 DEF States

LEMMA CostTyped ==
  ASSUME TypeOK, NEW r \in Runs
  PROVE  /\ IsFiniteSet(dir[r].asks)
         /\ MaxCost(r) \in Nat /\ ActualCost(r) \in Nat /\ ActualCost(r) <= MaxCost(r)
         /\ \A p \in Runs : Cardinality(Eligible(p)) \in Nat
<1>1. \A q \in Runs : dir[q].asks \in SUBSET Source
  BY DEF TypeOK, RunnerTypeOK, Dirs
<1>2. \A q \in Runs : IsFiniteSet(dir[q].asks) /\ Cardinality(dir[q].asks) \in Nat
  BY <1>1, RunnerAssumption, FS_Subset, FS_CardinalityType
<1> DEFINE paid == {s \in dir[r].asks : server[r].out[s] # "request_error"}
<1>3. paid \subseteq dir[r].asks
  OBVIOUS
<1>4. Cardinality(paid) \in Nat /\ Cardinality(paid) <= Cardinality(dir[r].asks)
  <2> HIDE DEF paid
  <2> QED  BY <1>2, <1>3, FS_Subset, FS_CardinalityType
<1>5. \A p \in Runs : Cardinality(Eligible(p)) \in Nat
  <2> TAKE p \in Runs
  <2>1. Eligible(p) \subseteq dir[p].asks
    BY DEF Eligible
  <2> QED  BY <1>2, <2>1, FS_Subset, FS_CardinalityType
<1> QED  BY <1>2, <1>4, <1>5 DEF MaxCost, ActualCost

-----------------------------------------------------------------------------
(* The commands.                                                           *)

\* Only what run r knows of its batch changes.
Calm(r) ==
  /\ \A q \in Runs \ {r} : dir'[q] = dir[q]
  /\ dir'[r].parent = dir[r].parent /\ dir'[r].asks = dir[r].asks
  /\ dir'[r].recs = dir[r].recs /\ dir'[r].ready = dir[r].ready
  /\ dir'[r].merged = dir[r].merged

LEMMA NoChangeIsCalm ==
  ASSUME UNCHANGED dir, NEW r \in Runs
  PROVE  Calm(r)
BY DEF Calm

LEMMA AttemptMoves ==
  ASSUME TypeOK, NEW r \in Runs, dir' = AttemptMade(r) \/ dir' = MarkedAbsent(r)
  PROVE  /\ dir' \in [Runs -> Dirs]
         /\ Calm(r)
         /\ dir'[r].batch = dir[r].batch /\ dir'[r].stage = dir[r].stage
<1>1. dir \in [Runs -> Dirs] /\ dir[r] \in Dirs
  BY DEF TypeOK, RunnerTypeOK
<1>2. PICK a \in {"unknown", "absent"} : dir' = [dir EXCEPT ![r] = [dir[r] EXCEPT !.attempt = a]]
  BY DEF AttemptMade, MarkedAbsent
<1> DEFINE d == [dir[r] EXCEPT !.attempt = a]
<1>3. /\ d \in Dirs /\ d.parent = dir[r].parent /\ d.asks = dir[r].asks /\ d.recs = dir[r].recs
      /\ d.ready = dir[r].ready /\ d.merged = dir[r].merged
      /\ d.batch = dir[r].batch /\ d.stage = dir[r].stage
  BY <1>1 DEF Dirs
<1> HIDE DEF d
<1>4. dir' \in [Runs -> Dirs] /\ dir'[r] = d /\ \A q \in Runs \ {r} : dir'[q] = dir[q]
  BY <1>1, <1>2, <1>3 DEF d
<1> QED  BY <1>3, <1>4 DEF Calm

LEMMA StageMoves ==
  ASSUME TypeOK, NEW r \in Runs, NEW stage \in {"submitted", "collected"},
         dir' = [dir EXCEPT ![r].stage = stage]
  PROVE  /\ dir' \in [Runs -> Dirs]
         /\ Calm(r)
         /\ dir'[r].batch = dir[r].batch /\ dir'[r].stage = stage
<1>1. dir \in [Runs -> Dirs] /\ dir[r] \in Dirs
  BY DEF TypeOK, RunnerTypeOK
<1> DEFINE d == [dir[r] EXCEPT !.stage = stage]
<1>3. /\ d \in Dirs /\ d.parent = dir[r].parent /\ d.asks = dir[r].asks /\ d.recs = dir[r].recs
      /\ d.ready = dir[r].ready /\ d.merged = dir[r].merged
      /\ d.batch = dir[r].batch /\ d.stage = stage
  BY <1>1 DEF Dirs, Stages
<1>2. dir' = [dir EXCEPT ![r] = d]
  OBVIOUS
<1> HIDE DEF d
<1>4. dir' \in [Runs -> Dirs] /\ dir'[r] = d /\ \A q \in Runs \ {r} : dir'[q] = dir[q]
  BY <1>1, <1>2, <1>3
<1> QED  BY <1>3, <1>4 DEF Calm

LEMMA ConfirmedMoves ==
  ASSUME TypeOK, NEW r \in Runs, dir' = Confirmed(r)
  PROVE  /\ dir' \in [Runs -> Dirs]
         /\ Calm(r)
         /\ dir'[r].stage = "submitted"
<1>1. dir \in [Runs -> Dirs] /\ dir[r] \in Dirs
  BY DEF TypeOK, RunnerTypeOK
<1> DEFINE d == [dir[r] EXCEPT !.attempt = "confirmed", !.batch = TRUE, !.stage = "submitted"]
<1>3. /\ d \in Dirs /\ d.parent = dir[r].parent /\ d.asks = dir[r].asks /\ d.recs = dir[r].recs
      /\ d.ready = dir[r].ready /\ d.merged = dir[r].merged
      /\ d.stage = "submitted"
  BY <1>1 DEF Dirs, Stages
<1>2. dir' = [dir EXCEPT ![r] = d]
  BY <1>1 DEF Confirmed, Dirs
<1> HIDE DEF d
<1>4. dir' \in [Runs -> Dirs] /\ dir'[r] = d /\ \A q \in Runs \ {r} : dir'[q] = dir[q]
  BY <1>1, <1>2, <1>3
<1> QED  BY <1>3, <1>4 DEF Calm

\* The verdicts of a batch, written into the records of its run.
LEMMA FinalizedMoves ==
  ASSUME TypeOK, NEW r \in Runs, dir' = Finalized(r)
  PROVE  /\ dir' \in [Runs -> Dirs]
         /\ \A q \in Runs \ {r} : dir'[q] = dir[q]
         /\ dir'[r].parent = dir[r].parent /\ dir'[r].asks = dir[r].asks
         /\ dir'[r].batch = dir[r].batch /\ dir'[r].stage = "finalized"
         /\ \A s \in dir[r].asks :
              /\ dir'[r].recs[s].state = StateAfter(server[r].out[s], dir[r].recs[s].attempts)
              /\ dir'[r].recs[s].verdict = server[r].out[s]
              /\ dir'[r].recs[s].attempts = dir[r].recs[s].attempts
         /\ dir'[r].ready = {s \in dir[r].asks : server[r].out[s] = "accepted"}
         /\ dir'[r].merged = {}
<1>1. dir \in [Runs -> Dirs] /\ dir[r] \in Dirs
  BY DEF TypeOK, RunnerTypeOK
<1>2. /\ dir[r].recs \in [Source -> Records] /\ dir[r].asks \in SUBSET Source
      /\ server[r].out \in [Source -> Verdicts \cup {"none"}]
  BY DEF TypeOK, RunnerTypeOK, Dirs, Batches
<1> DEFINE recs == [s \in Source |->
                      IF s \in dir[r].asks
                      THEN [state    |-> StateAfter(server[r].out[s], dir[r].recs[s].attempts),
                            verdict  |-> server[r].out[s],
                            attempts |-> dir[r].recs[s].attempts]
                      ELSE dir[r].recs[s]]
           ready == {s \in dir[r].asks : server[r].out[s] = "accepted"}
           d == [dir[r] EXCEPT !.stage = "finalized", !.recs = recs, !.ready = ready,
                               !.merged = {}]
<1>3. dir' = [dir EXCEPT ![r] = d]
  BY DEF Finalized
<1>4. recs \in [Source -> Records]
  <2>1. \A s \in Source : dir[r].recs[s] \in Records
    BY <1>2
  <2>2. \A s \in Source : StateAfter(server[r].out[s], dir[r].recs[s].attempts) \in RecordStates
    BY DEF StateAfter, RecordStates
  <2> QED  BY <1>2, <2>1, <2>2 DEF Records
<1>5. /\ \A s \in dir[r].asks :
          /\ recs[s].state = StateAfter(server[r].out[s], dir[r].recs[s].attempts)
          /\ recs[s].verdict = server[r].out[s]
          /\ recs[s].attempts = dir[r].recs[s].attempts
      /\ ready \in SUBSET Source
  BY <1>2
<1> HIDE DEF recs
<1>6. /\ d \in Dirs
      /\ d.parent = dir[r].parent /\ d.asks = dir[r].asks /\ d.batch = dir[r].batch
      /\ d.stage = "finalized" /\ d.recs = recs /\ d.ready = ready /\ d.merged = {}
  <2> HIDE DEF ready
  <2> QED  BY <1>1, <1>4, <1>5 DEF Dirs, Stages
<1> HIDE DEF d, ready
<1>7. dir' \in [Runs -> Dirs] /\ dir'[r] = d /\ \A q \in Runs \ {r} : dir'[q] = dir[q]
  BY <1>1, <1>3, <1>6
<1> QED  BY <1>5, <1>6, <1>7 DEF ready

\* A retry asks for what waits in its parent, one attempt later.
LEMMA RetryMoves ==
  ASSUME TypeOK, NEW p \in Runs, NEW c \in Runs, dir' = RetryPrepared(p, c)
  PROVE  /\ dir' \in [Runs -> Dirs]
         /\ \A q \in Runs \ {c} : dir'[q] = dir[q]
         /\ dir'[c].parent = p /\ dir'[c].asks = Eligible(p)
         /\ dir'[c].batch = FALSE /\ dir'[c].stage = "prepared"
         /\ \A s \in Eligible(p) :
              /\ dir'[c].recs[s].state = "awaiting_llm"
              /\ dir'[c].recs[s].verdict = "none"
              /\ dir'[c].recs[s].attempts = dir[p].recs[s].attempts + 1
         /\ dir'[c].ready = {} /\ dir'[c].merged = {}
<1>1. dir \in [Runs -> Dirs] /\ dir[p] \in Dirs
  BY DEF TypeOK, RunnerTypeOK
<1>2. dir[p].recs \in [Source -> Records] /\ dir[p].asks \in SUBSET Source
  BY <1>1 DEF Dirs
<1>3. Eligible(p) \in SUBSET Source
  BY <1>2 DEF Eligible
<1> DEFINE recs == [s \in Source |->
                      IF s \in Eligible(p)
                      THEN [state |-> "awaiting_llm", verdict |-> "none",
                            attempts |-> dir[p].recs[s].attempts + 1]
                      ELSE NoRecord]
           d == Prepared(p, Eligible(p), [s \in Source |-> dir[p].recs[s].attempts + 1])
<1>4. dir' = [dir EXCEPT ![c] = d]
  BY DEF RetryPrepared
<1>5. recs \in [Source -> Records]
  <2>1. \A s \in Source : dir[p].recs[s].attempts + 1 \in Nat
    BY <1>2 DEF Records
  <2> QED  BY <2>1 DEF Records, RecordStates, NoRecord
<1>6. d = [ stage |-> "prepared", parent |-> p, asks |-> Eligible(p), attempt |-> "none",
            batch |-> FALSE, recs |-> recs, ready |-> {}, merged |-> {} ]
  <2>1. \A s \in Source : [t \in Source |-> dir[p].recs[t].attempts + 1][s]
                            = dir[p].recs[s].attempts + 1
    OBVIOUS
  <2> QED  BY <2>1 DEF Prepared
<1>7. \A s \in Eligible(p) :
        /\ recs[s].state = "awaiting_llm" /\ recs[s].verdict = "none"
        /\ recs[s].attempts = dir[p].recs[s].attempts + 1
  BY <1>3
<1> HIDE DEF recs, d
<1>8. /\ d \in Dirs
      /\ d.parent = p /\ d.asks = Eligible(p) /\ d.batch = FALSE /\ d.stage = "prepared"
      /\ d.recs = recs /\ d.ready = {} /\ d.merged = {}
  BY <1>3, <1>5, <1>6 DEF Dirs, Stages
<1>9. dir' \in [Runs -> Dirs] /\ dir'[c] = d /\ \A q \in Runs \ {c} : dir'[q] = dir[q]
  BY <1>1, <1>4, <1>8
<1> QED  BY <1>7, <1>8, <1>9

\* The first k writes of a merge into the parent.
LEMMA MergedMoves ==
  ASSUME TypeOK, NEW c \in Runs, NEW p \in Runs, p = dir[c].parent, NEW k \in 0 .. Merges,
         dir' = Merged(c, k)
  PROVE  /\ dir' \in [Runs -> Dirs]
         /\ \A q \in Runs \ {p} : dir'[q] = dir[q]
         /\ dir'[p].parent = dir[p].parent /\ dir'[p].asks = dir[p].asks
         /\ dir'[p].batch = dir[p].batch /\ dir'[p].stage = dir[p].stage
         /\ \A s \in Source :
              IF k < 1 \/ s \notin dir[c].asks THEN dir'[p].recs[s] = dir[p].recs[s]
              ELSE /\ dir'[p].recs[s].state = dir[c].recs[s].state
                   /\ dir'[p].recs[s].verdict = dir[c].recs[s].verdict
                   /\ dir'[p].recs[s].attempts >= dir[c].recs[s].attempts
                   /\ dir'[p].recs[s].attempts >= dir[p].recs[s].attempts
                   /\ dir'[p].recs[s].attempts
                        \in {dir[c].recs[s].attempts, dir[p].recs[s].attempts}
         /\ dir'[p].ready = IF k < 2 THEN dir[p].ready ELSE dir[p].ready \cup dir[c].ready
         /\ dir'[p].merged = IF k < 3 THEN dir[p].merged ELSE dir[p].merged \cup {c}
<1>1. dir \in [Runs -> Dirs] /\ dir[p] \in Dirs /\ dir[c] \in Dirs
  BY DEF TypeOK, RunnerTypeOK
<1>2. /\ dir[p].recs \in [Source -> Records] /\ dir[c].recs \in [Source -> Records]
      /\ dir[p].ready \in SUBSET Source /\ dir[c].ready \in SUBSET Source
      /\ dir[p].merged \in SUBSET Runs
  BY <1>1 DEF Dirs
<1> DEFINE later(a, b) == IF a > b THEN a ELSE b
           rec(s) == [dir[c].recs[s] EXCEPT !.attempts = later(@, dir[p].recs[s].attempts)]
           recs == IF k < 1 THEN dir[p].recs
                   ELSE [s \in Source |-> IF s \in dir[c].asks THEN rec(s) ELSE dir[p].recs[s]]
           ready == IF k < 2 THEN dir[p].ready ELSE dir[p].ready \cup dir[c].ready
           merged == IF k < 3 THEN dir[p].merged ELSE dir[p].merged \cup {c}
           d == [dir[p] EXCEPT !.recs = recs, !.ready = ready, !.merged = merged]
<1>3. \A s \in Source :
        /\ rec(s) \in Records
        /\ rec(s).state = dir[c].recs[s].state /\ rec(s).verdict = dir[c].recs[s].verdict
        /\ rec(s).attempts >= dir[c].recs[s].attempts
        /\ rec(s).attempts >= dir[p].recs[s].attempts
        /\ rec(s).attempts \in {dir[c].recs[s].attempts, dir[p].recs[s].attempts}
  <2> TAKE s \in Source
  <2>1. dir[c].recs[s] \in Records /\ dir[p].recs[s] \in Records
    BY <1>2
  <2> QED  BY <2>1 DEF Records
<1>4. dir' = [dir EXCEPT ![p] = d]
  <2>1. dir' = [dir EXCEPT ![p] = [@ EXCEPT !.recs = recs, !.ready = ready, !.merged = merged]]
    BY <1>1 DEF Merged, Dirs
  <2> QED  BY <2>1
<1> HIDE DEF rec
<1>5. /\ recs \in [Source -> Records] /\ ready \in SUBSET Source /\ merged \in SUBSET Runs
      /\ \A s \in Source : recs[s] = IF k < 1 \/ s \notin dir[c].asks THEN dir[p].recs[s]
                                     ELSE rec(s)
  BY <1>2, <1>3
<1> HIDE DEF recs, ready, merged
<1>6. /\ d \in Dirs
      /\ d.parent = dir[p].parent /\ d.asks = dir[p].asks /\ d.batch = dir[p].batch
      /\ d.stage = dir[p].stage /\ d.recs = recs /\ d.ready = ready /\ d.merged = merged
  BY <1>1, <1>5 DEF Dirs
<1> HIDE DEF d
<1>7. dir' \in [Runs -> Dirs] /\ dir'[p] = d /\ \A q \in Runs \ {p} : dir'[q] = dir[q]
  BY <1>1, <1>4, <1>6
<1> QED  BY <1>3, <1>5, <1>6, <1>7 DEF ready, merged

\* The records of a merge, as what they say of the state.
LEMMA MergedStates ==
  ASSUME TypeOK, NEW c \in Runs, dir[c].parent \in Runs, NEW k \in 0 .. Merges,
         dir' = Merged(c, k)
  PROVE  LET p == dir[c].parent
         IN  /\ \A q \in Runs \ {p} : dir'[q] = dir[q]
             /\ dir'[p].asks = dir[p].asks
             /\ \A s \in Source :
                  \/ dir'[p].recs[s] = dir[p].recs[s]
                  \/ s \in dir[c].asks /\ dir'[p].recs[s].state = dir[c].recs[s].state
<1> DEFINE p == dir[c].parent
<1>1. /\ dir' \in [Runs -> Dirs]
      /\ \A q \in Runs \ {p} : dir'[q] = dir[q]
      /\ dir'[p].parent = dir[p].parent /\ dir'[p].asks = dir[p].asks
      /\ dir'[p].batch = dir[p].batch /\ dir'[p].stage = dir[p].stage
      /\ \A s \in Source :
           IF k < 1 \/ s \notin dir[c].asks THEN dir'[p].recs[s] = dir[p].recs[s]
           ELSE /\ dir'[p].recs[s].state = dir[c].recs[s].state
                /\ dir'[p].recs[s].verdict = dir[c].recs[s].verdict
                /\ dir'[p].recs[s].attempts >= dir[c].recs[s].attempts
                /\ dir'[p].recs[s].attempts >= dir[p].recs[s].attempts
                /\ dir'[p].recs[s].attempts
                     \in {dir[c].recs[s].attempts, dir[p].recs[s].attempts}
      /\ dir'[p].ready = IF k < 2 THEN dir[p].ready ELSE dir[p].ready \cup dir[c].ready
      /\ dir'[p].merged = IF k < 3 THEN dir[p].merged ELSE dir[p].merged \cup {c}
  BY MergedMoves
<1> HIDE DEF p
<1>2. p = dir[c].parent
  BY DEF p
<1> QED  BY <1>1, <1>2

LEMMA CreatedMoves ==
  ASSUME TypeOK, NEW r \in Runs, server' = Created(r)
  PROVE  /\ server' \in [Runs -> Batches]
         /\ \A q \in Runs \ {r} : server'[q] = server[q]
         /\ server'[r].status = "in_progress" /\ server'[r].out = server[r].out
<1>1. server \in [Runs -> Batches] /\ server[r] \in Batches
  BY DEF TypeOK, RunnerTypeOK
<1>2. [server[r] EXCEPT !.status = "in_progress"] \in Batches
  BY <1>1 DEF Batches, Statuses
<1> QED  BY <1>1, <1>2 DEF Created, Batches

-----------------------------------------------------------------------------
(* What each action does to the turn.                                      *)

\* One visit of a loop.
Visits(pc, r) ==
  /\ Turn.pc = pc /\ Turn'.pc = pc
  /\ r \in Turn.todo /\ Turn'.todo = Turn.todo \ {r}
  /\ \A q \in Runs \ {r} : Turn'.st.jobs[q] = Turn.st.jobs[q]
  /\ Turn'.st.queue = Turn.st.queue /\ Turn'.st.ceiling = Turn.st.ceiling
  /\ UNCHANGED <<server, disk>>

LEMMA TurnTyped ==
  ASSUME TypeInv
  PROVE  /\ Turn \in Steps /\ Turn.st \in States /\ Turn.todo \in SUBSET Runs
         /\ Turn.st.jobs \in [Runs -> Jobs]
         /\ Current = Turn.st
         /\ lock # NoWorker => lock \in Workers /\ Turn = work[lock] /\ Turn.pc # "idle"
         /\ lock = NoWorker => Turn.st = disk /\ Turn.pc = "idle"
         /\ disk \in States /\ disk.jobs \in [Runs -> Jobs]
<1>1. /\ lock \in Workers \cup {NoWorker} /\ work \in [Workers -> Steps] /\ disk \in States
      /\ NoWorker \notin Workers /\ \A w \in Workers : work[w].pc = "idle" <=> lock # w
  BY SchedulerAssumption DEF TypeInv, TypeOK, LockHeld
<1>2. Turn \in Steps
  BY <1>1 DEF Turn, Steps
<1>3. Current = Turn.st
  BY <1>1 DEF Turn, Current
<1>4. Turn.st \in States /\ Turn.todo \in SUBSET Runs
  BY <1>2 DEF Steps
<1> QED  BY <1>1, <1>2, <1>3, <1>4 DEF Turn, States

LEMMA AtTurn ==
  ASSUME TypeInv, NEW w \in Workers, lock = w
  PROVE  Turn = work[w] /\ w # NoWorker
BY SchedulerAssumption DEF Turn

LEMMA FaultsTyped ==
  ASSUME TypeOK, NEW kind, NoFault \/ Fault(kind)
  PROVE  faults' \in 0 .. MaxFaults
<1>1. faults \in 0 .. MaxFaults /\ MaxFaults \in Nat
  BY SchedulerAssumption DEF TypeOK
<1> QED  BY <1>1 DEF NoFault, Fault

\* A step of the worker that holds the lock, and keeps it.
LEMMA TurnMoves ==
  ASSUME TypeInv, NEW w \in Workers, lock = w, lock' = w, NEW step \in Steps,
         work' \in [Workers -> Steps], work'[w] = step,
         \A v \in Workers \ {w} : work'[v] = work[v],
         step.pc # "idle", step.pc = "submit" => step.run \in Runs,
         step.pc = "merge" => \A r \in step.todo : dir'[r].parent \in Runs,
         dir' \in [Runs -> Dirs], server' \in [Runs -> Batches],
         \A q \in Runs : dir'[q].batch => Sent(q)',
         recipes' = recipes, held' = held, disk' = disk, faults' \in 0 .. MaxFaults
  PROVE  TypeInv' /\ Turn' = step
<1>1. w # NoWorker
  BY AtTurn
<1>2. Turn' = step
  BY <1>1 DEF Turn
<1>3. LockHeld'
  BY <1>1 DEF LockHeld, TypeInv
<1>4. TypeOK'
  BY DEF TypeInv, TypeOK, RunnerTypeOK
<1>5. Shape'
  <2>1. Turn'.pc = "submit" => Turn'.run \in Runs
    BY <1>2
  <2>2. Turn'.pc = "merge" => \A r \in Turn'.todo : dir'[r].parent \in Runs
    BY <1>2
  <2> QED  BY <2>1, <2>2 DEF Shape
<1> QED  BY <1>2, <1>3, <1>4, <1>5 DEF TypeInv

LEMMA VisitMoves ==
  ASSUME TypeInv, NEW pc \in {"poll", "review", "merge"},
         NEW w \in Workers, At(w, pc), NEW r \in work[w].todo,
         NEW job \in Jobs, Visited(w, r, job),
         dir' \in [Runs -> Dirs], \A q \in Runs : dir'[q].batch => Sent(q),
         \A q \in Runs : dir'[q].parent = dir[q].parent,
         faults' \in 0 .. MaxFaults,
         UNCHANGED <<server, recipes, held, disk, lock>>
  PROVE  /\ TypeInv' /\ Visits(pc, r)
         /\ r \in Runs /\ Job(w, r) = Turn.st.jobs[r] /\ Turn.st.jobs[r] \in Jobs
         /\ Turn'.st.jobs[r] = job
         /\ Turn'.st.stop = Turn.st.stop /\ Turn'.st.completed = Turn.st.completed
<1>1. /\ TypeOK /\ lock = w /\ lock' = w /\ work[w].pc = pc /\ work[w] \in Steps
      /\ work[w].todo \in SUBSET Runs /\ work[w].st \in States
      /\ work[w].st.jobs \in [Runs -> Jobs]
  BY DEF At, TypeInv, TypeOK, Steps, States
<1>2. /\ r \in Runs /\ Turn = work[w] /\ Job(w, r) = Turn.st.jobs[r] /\ Turn.st.jobs[r] \in Jobs
  BY <1>1, AtTurn DEF Job
<1>3. /\ work' \in [Workers -> Steps]
      /\ \A v \in Workers \ {w} : work'[v] = work[v]
      /\ work'[w].pc = work[w].pc
      /\ work'[w].todo = work[w].todo \ {r}
      /\ work'[w].st = [work[w].st EXCEPT !.jobs[r] = job]
  BY <1>1, <1>2, VisitedMoves
<1>4. server \in [Runs -> Batches] /\ (\A q \in Runs : Sent(q)' <=> Sent(q))
  BY <1>1 DEF TypeOK, RunnerTypeOK, Sent
<1>5. work'[w] \in Steps /\ work'[w].pc # "idle" /\ work'[w].pc # "submit"
  BY <1>1, <1>3
<1>6. TypeInv' /\ Turn' = work'[w]
  <2>1. work'[w].pc = "merge" => \A q \in work'[w].todo : dir'[q].parent \in Runs
    BY <1>1, <1>2, <1>3 DEF TypeInv, Shape
  <2> QED  BY <1>1, <1>3, <1>4, <1>5, <2>1, TurnMoves
<1>7. /\ Turn'.st.jobs = [Turn.st.jobs EXCEPT ![r] = job]
      /\ Turn'.st.queue = Turn.st.queue /\ Turn'.st.ceiling = Turn.st.ceiling
      /\ Turn'.st.stop = Turn.st.stop /\ Turn'.st.completed = Turn.st.completed
  BY <1>1, <1>2, <1>3, <1>6 DEF States
<1> QED  BY <1>1, <1>2, <1>3, <1>6, <1>7 DEF Visits

Keeps(job, new) ==
  /\ new.reserved = job.reserved /\ new.stages = job.stages
  /\ new.passed = job.passed /\ new.retried = job.retried

\* Reconciliation finds out whether an ambiguous submission has a batch.
LEMMA ReconcileMove ==
  ASSUME TypeInv, NEW w \in Workers, NEW r \in Runs, Reconcile(w, r)
  PROVE  /\ TypeInv' /\ Visits("poll", r) /\ Calm(r)
         /\ dir'[r].stage \in {dir[r].stage, "submitted"}
         /\ Turn'.st.stop = Turn.st.stop /\ Turn'.st.completed = Turn.st.completed
         /\ Turn.st.jobs[r].ambiguous /\ Open(Turn'.st.jobs[r])
         /\ Keeps(Turn.st.jobs[r], Turn'.st.jobs[r])
<1>1. /\ TypeOK /\ At(w, "poll") /\ r \in work[w].todo /\ Job(w, r).ambiguous
      /\ UNCHANGED <<server, recipes, held, disk, lock>>
      /\ dir \in [Runs -> Dirs] /\ \A q \in Runs : dir[q].batch => Sent(q)
      /\ Job(w, r) \in Jobs
  BY TurnTyped, AtTurn DEF Reconcile, TypeInv, TypeOK, RunnerTypeOK, Shape, At, Job
<1> DEFINE Done(job) ==
             /\ Visited(w, r, job) /\ job \in Jobs /\ Open(job) /\ Keeps(Job(w, r), job)
             /\ dir' \in [Runs -> Dirs] /\ \A q \in Runs : dir'[q].batch => Sent(q)
             /\ faults' \in 0 .. MaxFaults
             /\ Calm(r) /\ dir'[r].stage \in {dir[r].stage, "submitted"}
<1>2. \E job \in Jobs : Done(job)
  <2>1. CASE /\ NoFault /\ dir' = Queried(r) /\ Visited(w, r, Job(w, r))
    <3>1. /\ dir' \in [Runs -> Dirs] /\ Calm(r) /\ dir'[r].batch = dir[r].batch
          /\ dir'[r].stage = "submitted"
      BY <1>1, <2>1, StageMoves DEF Queried
    <3>2. faults' \in 0 .. MaxFaults
      BY <1>1, <2>1, FaultsTyped
    <3>3. Done(Job(w, r))
      BY <1>1, <2>1, <3>1, <3>2 DEF Calm, Keeps, Open
    <3> QED  BY <1>1, <3>3
  <2>2. CASE /\ Because(dir[r].attempt = "none", "query") /\ UNCHANGED dir
             /\ Visited(w, r, Job(w, r))
    <3>1. faults' \in 0 .. MaxFaults
      BY <1>1, <2>2, FaultsTyped DEF Because
    <3>2. Done(Job(w, r))
      BY <1>1, <2>2, <3>1, NoChangeIsCalm DEF Keeps, Open
    <3> QED  BY <1>1, <3>2
  <2>3. CASE /\ Sent(r) /\ NoFault /\ dir' = Confirmed(r)
             /\ Visited(w, r, [Job(w, r) EXCEPT !.batch_id = "real", !.ambiguous = FALSE])
    <3> DEFINE job == [Job(w, r) EXCEPT !.batch_id = "real", !.ambiguous = FALSE]
    <3>1. job \in Jobs /\ Open(job) /\ Keeps(Job(w, r), job)
      BY <1>1 DEF Jobs, Open, Keeps
    <3>2. dir' \in [Runs -> Dirs] /\ Calm(r) /\ dir'[r].stage = "submitted"
      BY <1>1, <2>3, ConfirmedMoves
    <3>3. faults' \in 0 .. MaxFaults
      BY <1>1, <2>3, FaultsTyped
    <3>4. \A q \in Runs : dir'[q].batch => Sent(q)
      BY <1>1, <2>3, <3>2 DEF Calm
    <3>5. Done(job)
      BY <2>3, <3>1, <3>2, <3>3, <3>4
    <3> QED  BY <3>1, <3>5
  <2>4. CASE /\ Because(~Sent(r), "lag") /\ dir' = MarkedAbsent(r)
             /\ Visited(w, r, [Job(w, r) EXCEPT !.batch_id = "absent", !.ambiguous = FALSE])
    <3> DEFINE job == [Job(w, r) EXCEPT !.batch_id = "absent", !.ambiguous = FALSE]
    <3>1. job \in Jobs /\ Open(job) /\ Keeps(Job(w, r), job)
      BY <1>1 DEF Jobs, Open, Keeps
    <3>2. /\ dir' \in [Runs -> Dirs] /\ Calm(r) /\ dir'[r].batch = dir[r].batch
          /\ dir'[r].stage = dir[r].stage
      BY <1>1, <2>4, AttemptMoves
    <3>3. faults' \in 0 .. MaxFaults
      BY <1>1, <2>4, FaultsTyped DEF Because
    <3>4. \A q \in Runs : dir'[q].batch => Sent(q)
      BY <1>1, <3>2 DEF Calm
    <3>5. Done(job)
      BY <2>4, <3>1, <3>2, <3>3, <3>4
    <3> QED  BY <3>1, <3>5
  <2> QED  BY <2>1, <2>2, <2>3, <2>4 DEF Reconcile
<1>3. PICK job \in Jobs : Done(job)
  BY <1>2
<1>4. /\ TypeInv' /\ Visits("poll", r) /\ Job(w, r) = Turn.st.jobs[r] /\ Turn'.st.jobs[r] = job
      /\ Turn'.st.stop = Turn.st.stop /\ Turn'.st.completed = Turn.st.completed
  <2>1. \A q \in Runs : dir'[q].parent = dir[q].parent
    BY <1>3 DEF Calm
  <2> QED  BY <1>1, <1>3, <2>1, VisitMoves
<1> QED  BY <1>1, <1>3, <1>4

\* A batch that has ended is collected and accounted.
Accounts(r) ==
  /\ "collected" \notin Turn.st.jobs[r].stages /\ server[r].status = "ended"
  /\ Turn'.st.jobs[r].stages = Turn.st.jobs[r].stages \cup {"collected"}
  /\ Turn'.st.jobs[r].reserved = 0
  /\ Turn'.st.completed = Turn.st.completed + ActualCost(r)

LEMMA PollMove ==
  ASSUME TypeInv, NEW w \in Workers, NEW r \in Runs, Poll(w, r)
  PROVE  /\ TypeInv' /\ Visits("poll", r) /\ Calm(r)
         /\ dir'[r].stage \in {dir[r].stage, "submitted", "collected"}
         /\ Turn'.st.stop = Turn.st.stop
         /\ Turn.st.jobs[r].batch_id # "none"
         /\ Turn'.st.jobs[r].batch_id = Turn.st.jobs[r].batch_id
         /\ Turn'.st.jobs[r].ambiguous = Turn.st.jobs[r].ambiguous
         /\ Turn'.st.jobs[r].passed = Turn.st.jobs[r].passed
         /\ Turn'.st.jobs[r].retried = Turn.st.jobs[r].retried
         /\ \/ /\ Keeps(Turn.st.jobs[r], Turn'.st.jobs[r])
               /\ Turn'.st.completed = Turn.st.completed
               /\ dir'[r].stage \in {dir[r].stage, "submitted"}
            \/ Accounts(r)
<1>1. /\ TypeOK /\ At(w, "poll") /\ r \in work[w].todo /\ Job(w, r).batch_id # "none"
      /\ UNCHANGED <<server, recipes, held, disk, lock>> /\ lock = w
      /\ dir \in [Runs -> Dirs] /\ server \in [Runs -> Batches]
      /\ (\A q \in Runs : dir[q].batch => Sent(q))
      /\ Job(w, r) \in Jobs /\ Turn = work[w]
  BY TurnTyped, AtTurn DEF Poll, TypeInv, TypeOK, RunnerTypeOK, Shape, At, Job
<1>2. CASE /\ Because(~dir[r].batch, "query") /\ UNCHANGED dir /\ Visited(w, r, Job(w, r))
  <2>1. faults' \in 0 .. MaxFaults
    BY <1>1, <1>2, FaultsTyped DEF Because
  <2>2. \A q \in Runs : (dir'[q].batch => Sent(q)) /\ dir'[q].parent = dir[q].parent
    BY <1>1, <1>2
  <2>3. /\ TypeInv' /\ Visits("poll", r) /\ Job(w, r) = Turn.st.jobs[r]
        /\ Turn'.st.jobs[r] = Job(w, r)
        /\ Turn'.st.stop = Turn.st.stop /\ Turn'.st.completed = Turn.st.completed
    BY <1>1, <1>2, <2>1, <2>2, VisitMoves
  <2> QED  BY <1>1, <1>2, <2>3, NoChangeIsCalm DEF Keeps
<1>3. CASE /\ dir[r].batch /\ NoFault /\ dir' = Queried(r)
           /\ Visited(w, r, [Job(w, r) EXCEPT !.status = server[r].status])
  <2> DEFINE job == [Job(w, r) EXCEPT !.status = server[r].status]
  <2>1. server[r].status \in Statuses \ {"none"}
    BY <1>1, <1>3 DEF Sent, Batches
  <2>2. /\ job \in Jobs /\ job.batch_id = Job(w, r).batch_id /\ job.ambiguous = Job(w, r).ambiguous
        /\ Keeps(Job(w, r), job)
    BY <1>1, <2>1 DEF Jobs, Keeps
  <2>3. /\ dir' \in [Runs -> Dirs] /\ Calm(r) /\ dir'[r].batch = dir[r].batch
        /\ dir'[r].stage = "submitted"
    BY <1>1, <1>3, StageMoves DEF Queried
  <2>4. faults' \in 0 .. MaxFaults
    BY <1>1, <1>3, FaultsTyped
  <2>5. \A q \in Runs : (dir'[q].batch => Sent(q)) /\ dir'[q].parent = dir[q].parent
    BY <1>1, <2>3 DEF Calm
  <2> HIDE DEF job
  <2>6. /\ TypeInv' /\ Visits("poll", r) /\ Job(w, r) = Turn.st.jobs[r]
        /\ Turn'.st.jobs[r] = job
        /\ Turn'.st.stop = Turn.st.stop /\ Turn'.st.completed = Turn.st.completed
    BY <1>1, <1>3, <2>2, <2>3, <2>4, <2>5, VisitMoves DEF job
  <2> QED  BY <1>1, <2>2, <2>3, <2>6 DEF Keeps
<1>4. CASE /\ dir[r].batch /\ Collectable(w, r) /\ NoFault /\ dir' = Collected(r)
           /\ Goes(w, "poll",
                   [work[w].st EXCEPT !.jobs[r] = Accounted(w, r),
                                      !.completed = @ + ActualCost(r)],
                   work[w].todo \ {r}, NoRun)
  <2> DEFINE job == Accounted(w, r)
             st == [work[w].st EXCEPT !.jobs = [work[w].st.jobs EXCEPT ![r] = job],
                                      !.completed = @ + ActualCost(r)]
             step == [pc |-> "poll", st |-> st, todo |-> work[w].todo \ {r}, run |-> NoRun]
  <2>1. server[r].status \in Statuses \ {"none"} /\ server[r].status = "ended"
        /\ "collected" \notin Job(w, r).stages
    BY <1>1, <1>4 DEF Sent, Batches, Collectable
  <2>2. /\ job \in Jobs /\ job.batch_id = Job(w, r).batch_id /\ job.ambiguous = Job(w, r).ambiguous
        /\ job.passed = Job(w, r).passed /\ job.retried = Job(w, r).retried
        /\ job.stages = Job(w, r).stages \cup {"collected"} /\ job.reserved = 0
    BY <1>1, <2>1 DEF Jobs, Accounted
  <2>3. /\ dir' \in [Runs -> Dirs] /\ Calm(r) /\ dir'[r].batch = dir[r].batch
        /\ dir'[r].stage = "collected"
    BY <1>1, <1>4, StageMoves DEF Collected
  <2>4. faults' \in 0 .. MaxFaults
    BY <1>1, <1>4, FaultsTyped
  <2>5. \A q \in Runs : (dir'[q].batch => Sent(q)) /\ dir'[q].parent = dir[q].parent
    BY <1>1, <2>3 DEF Calm
  <2>6. work \in [Workers -> Steps] /\ work[w] \in Steps /\ work[w].st \in States
        /\ work[w].st.jobs \in [Runs -> Jobs] /\ Job(w, r) = work[w].st.jobs[r]
    BY <1>1 DEF TypeOK, Steps, States, Job
  <2>7. Goes(w, "poll", st, work[w].todo \ {r}, NoRun)
    <3>1. [work[w].st EXCEPT !.jobs[r] = job, !.completed = @ + ActualCost(r)] = st
      <4> HIDE DEF job
      <4> QED  BY <2>6 DEF States
    <3>2. Goes(w, "poll", [work[w].st EXCEPT !.jobs[r] = job, !.completed = @ + ActualCost(r)],
               work[w].todo \ {r}, NoRun)
      BY <1>4
    <3> HIDE DEF job, st
    <3> QED  BY <3>1, <3>2
  <2> HIDE DEF job
  <2>8. /\ st \in States /\ st.jobs = [work[w].st.jobs EXCEPT ![r] = job]
        /\ st.queue = work[w].st.queue /\ st.stop = work[w].st.stop
        /\ st.ceiling = work[w].st.ceiling
        /\ st.completed = work[w].st.completed + ActualCost(r)
    <3>1. ActualCost(r) \in Nat
      BY <1>1, CostTyped
    <3>2. [work[w].st.jobs EXCEPT ![r] = job] \in [Runs -> Jobs]
      BY <2>2, <2>6
    <3>3. work[w].st.completed + ActualCost(r) \in Nat
      BY <2>6, <3>1 DEF States
    <3> DEFINE old == work[w].st
               jobs == [old.jobs EXCEPT ![r] = job]
               completed == old.completed + ActualCost(r)
    <3>4. old \in States /\ jobs \in [Runs -> Jobs] /\ completed \in Nat
      BY <2>6, <3>2, <3>3
    <3>5. st = [old EXCEPT !.jobs = jobs, !.completed = completed]
      OBVIOUS
    <3> HIDE DEF old, jobs, completed, st
    <3>6. /\ [old EXCEPT !.jobs = jobs, !.completed = completed] \in States
          /\ [old EXCEPT !.jobs = jobs, !.completed = completed].jobs = jobs
          /\ [old EXCEPT !.jobs = jobs, !.completed = completed].completed = completed
          /\ [old EXCEPT !.jobs = jobs, !.completed = completed].queue = old.queue
          /\ [old EXCEPT !.jobs = jobs, !.completed = completed].stop = old.stop
          /\ [old EXCEPT !.jobs = jobs, !.completed = completed].ceiling = old.ceiling
      BY <3>4 DEF States
    <3>7. /\ st \in States /\ st.jobs = jobs /\ st.queue = old.queue /\ st.stop = old.stop
          /\ st.ceiling = old.ceiling /\ st.completed = completed
      BY <3>5, <3>6
    <3> QED  BY <3>7 DEF old, jobs, completed
  <2> HIDE DEF st
  <2>9. /\ step \in Steps /\ step.pc = "poll" /\ step.st = st
        /\ step.todo = work[w].todo \ {r}
    BY <2>6, <2>8 DEF Steps
  <2>10. /\ work' \in [Workers -> Steps] /\ work'[w] = step
         /\ \A v \in Workers \ {w} : work'[v] = work[v]
    <3> DEFINE todo == work[w].todo \ {r}
    <3>1. Goes(w, "poll", st, todo, NoRun)
      BY <2>7
    <3> HIDE DEF todo
    <3>2. /\ work'[w] = [pc |-> "poll", st |-> st, todo |-> todo, run |-> NoRun]
          /\ \A v \in Workers \ {w} : work'[v] = work[v]
          /\ [pc |-> "poll", st |-> st, todo |-> todo, run |-> NoRun] \in Steps
               => work' \in [Workers -> Steps]
      BY <1>1, <3>1, GoesMoves
    <3> QED  BY <2>9, <3>2 DEF todo
  <2> HIDE DEF step
  <2>11. work[w].pc = "poll"
    BY <1>1 DEF At
  <2>12. \A q \in Runs : Sent(q)' <=> Sent(q)
    BY <1>1 DEF Sent
  <2>13. TypeInv' /\ Turn' = step
    <3>1. step.pc # "idle" /\ step.pc # "submit" /\ step.pc # "merge"
      BY <2>9, <2>11
    <3>2. lock' = w /\ server' \in [Runs -> Batches] /\ recipes' = recipes /\ held' = held
          /\ disk' = disk /\ \A q \in Runs : dir'[q].batch => Sent(q)'
      BY <1>1, <2>5, <2>12
    <3> QED  BY <1>1, <2>3, <2>4, <2>9, <2>10, <3>1, <3>2, TurnMoves
  <2>14. /\ Turn'.st.jobs[r] = job /\ \A q \in Runs \ {r} : Turn'.st.jobs[q] = Turn.st.jobs[q]
    BY <1>1, <2>6, <2>8, <2>9, <2>13
  <2>15. Visits("poll", r)
    BY <1>1, <2>8, <2>9, <2>11, <2>13, <2>14 DEF Visits
  <2>16. Accounts(r)
    BY <1>1, <2>1, <2>2, <2>6, <2>8, <2>9, <2>13, <2>14 DEF Accounts
  <2> QED  BY <1>1, <2>2, <2>3, <2>6, <2>8, <2>9, <2>13, <2>14, <2>15, <2>16
<1> QED  BY <1>2, <1>3, <1>4 DEF Poll

\* A step that is lost: what is on disk counts.
Loses ==
  /\ Turn.pc # "idle" /\ UNCHANGED <<server, disk>>
  /\ Turn' = [pc |-> "idle", st |-> disk, todo |-> {}, run |-> NoRun]

LEMMA LostTurn ==
  ASSUME TypeInv, NEW w \in Workers, lock = w, Lost(w),
         dir' \in [Runs -> Dirs], \A q \in Runs : dir'[q].batch => Sent(q),
         UNCHANGED <<server, recipes, held>>, faults' \in 0 .. MaxFaults
  PROVE  TypeInv' /\ Loses
<1>1. /\ TypeOK /\ LockHeld /\ work \in [Workers -> Steps] /\ server \in [Runs -> Batches]
      /\ w # NoWorker /\ Turn = work[w] /\ NoWorker \notin Workers
  BY AtTurn, SchedulerAssumption DEF TypeInv, TypeOK, RunnerTypeOK
<1>2. /\ work'[w] = Idle /\ lock' = NoWorker /\ disk' = disk
      /\ \A v \in Workers \ {w} : work'[v] = work[v]
  BY <1>1, LostMoves
<1>3. work' \in [Workers -> Steps]
  BY <1>1, IdleTyped DEF Lost
<1>4. Turn' = [pc |-> "idle", st |-> disk, todo |-> {}, run |-> NoRun] /\ Turn.pc # "idle"
  BY <1>1, <1>2 DEF Turn, LockHeld
<1>5. LockHeld'
  BY <1>1, <1>2 DEF LockHeld, Idle
<1>6. Shape'
  <2>1. \A q \in Runs : Sent(q)' <=> Sent(q)
    BY DEF Sent
  <2>2. Turn'.pc = "idle"
    BY <1>4
  <2> QED  BY <2>1, <2>2 DEF Shape
<1>7. TypeOK'
  BY <1>1, <1>2, <1>3 DEF TypeOK, RunnerTypeOK
<1> QED  BY <1>2, <1>4, <1>5, <1>6, <1>7 DEF TypeInv, Loses

LEMMA CollectFailsMove ==
  ASSUME TypeInv, NEW w \in Workers, NEW r \in Runs, CollectFails(w, r)
  PROVE  /\ TypeInv' /\ Loses /\ Calm(r) /\ Turn.pc = "poll" /\ r \in Turn.todo
         /\ dir'[r].stage = "submitted" /\ Open(Turn.st.jobs[r])
         /\ "collected" \notin Turn.st.jobs[r].stages
<1>0. Open(Job(w, r)) /\ "collected" \notin Job(w, r).stages
  BY DEF CollectFails, Open, Collectable
<1>1. /\ TypeOK /\ lock = w /\ work[w].pc = "poll" /\ r \in work[w].todo /\ Turn = work[w]
      /\ Fault("collect") /\ dir' = Queried(r) /\ Lost(w)
      /\ UNCHANGED <<server, recipes, held>>
      /\ \A q \in Runs : dir[q].batch => Sent(q)
  BY AtTurn DEF CollectFails, At, TypeInv, Shape
<1>2. /\ dir' \in [Runs -> Dirs] /\ Calm(r) /\ dir'[r].batch = dir[r].batch
      /\ dir'[r].stage = "submitted"
  BY <1>1, StageMoves DEF Queried
<1>3. \A q \in Runs : dir'[q].batch => Sent(q)
  BY <1>1, <1>2 DEF Calm
<1>4. faults' \in 0 .. MaxFaults
  BY <1>1, FaultsTyped
<1>5. TypeInv' /\ Loses
  BY <1>1, <1>2, <1>3, <1>4, LostTurn
<1> QED  BY <1>0, <1>1, <1>2, <1>5 DEF Job

LEMMA GoesTurn ==
  ASSUME TypeInv, NEW w \in Workers, lock = w, lock' = w,
         NEW pc \in {"poll", "review", "merge", "submit", "write"}, NEW st \in States,
         NEW todo \in SUBSET Runs, NEW run \in Runs \cup {NoRun},
         Goes(w, pc, st, todo, run),
         pc = "submit" => run \in Runs,
         pc = "merge" => \A r \in todo : dir'[r].parent \in Runs,
         dir' \in [Runs -> Dirs], server' \in [Runs -> Batches],
         \A q \in Runs : dir'[q].batch => Sent(q)',
         UNCHANGED <<recipes, held, disk>>, faults' \in 0 .. MaxFaults
  PROVE  TypeInv' /\ Turn' = [pc |-> pc, st |-> st, todo |-> todo, run |-> run]
<1> DEFINE step == [pc |-> pc, st |-> st, todo |-> todo, run |-> run]
<1>1. step \in Steps
  BY DEF Steps
<1>2. /\ work'[w] = [pc |-> pc, st |-> st, todo |-> todo, run |-> run]
      /\ \A v \in Workers \ {w} : work'[v] = work[v]
      /\ [pc |-> pc, st |-> st, todo |-> todo, run |-> run] \in Steps
           => work' \in [Workers -> Steps]
  BY GoesMoves DEF TypeInv
<1>3. step.pc = pc /\ step.run = run /\ step.todo = todo
  OBVIOUS
<1> HIDE DEF step
<1>4. TypeInv' /\ Turn' = step
  BY <1>1, <1>2, <1>3, TurnMoves DEF step
<1> QED  BY <1>4 DEF step

LEMMA FinalizeFailsMove ==
  ASSUME TypeInv, NEW w \in Workers, NEW r \in Runs, FinalizeFails(w, r)
  PROVE  /\ TypeInv' /\ Visits("review", r) /\ UNCHANGED dir
         /\ Turn'.st.stop = Turn.st.stop /\ Turn'.st.completed = Turn.st.completed
         /\ Turn'.st.jobs[r] = Turn.st.jobs[r]
<1>1. /\ TypeOK /\ At(w, "review") /\ r \in work[w].todo /\ Fault("finalize")
      /\ Visited(w, r, Job(w, r)) /\ UNCHANGED <<dir, server, recipes, held, disk, lock>>
      /\ Job(w, r) \in Jobs /\ dir \in [Runs -> Dirs]
      /\ \A q \in Runs : dir[q].batch => Sent(q)
  BY TurnTyped, AtTurn
  DEF FinalizeFails, TypeInv, TypeOK, RunnerTypeOK, Shape, At, Job, runnerVars
<1>2. faults' \in 0 .. MaxFaults
  BY <1>1, FaultsTyped
<1>3. dir' \in [Runs -> Dirs] /\ \A q \in Runs : (dir'[q].batch => Sent(q)) /\ dir'[q].parent = dir[q].parent
  BY <1>1
<1> QED  BY <1>1, <1>2, <1>3, VisitMoves

\* finalize runs once: not when an earlier step recorded it.
Files(r) ==
  IF "finalized" \in Turn.st.jobs[r].stages THEN UNCHANGED dir ELSE dir' = Finalized(r)

LEMMA FilesMoves ==
  ASSUME TypeInv, NEW r \in Runs, Files(r)
  PROVE  /\ dir' \in [Runs -> Dirs]
         /\ \A q \in Runs : (dir'[q].batch => Sent(q)) /\ dir'[q].parent = dir[q].parent
<1>1. TypeOK /\ dir \in [Runs -> Dirs] /\ \A q \in Runs : dir[q].batch => Sent(q)
  BY DEF TypeInv, TypeOK, RunnerTypeOK, Shape
<1>2. CASE UNCHANGED dir
  BY <1>1, <1>2
<1>3. CASE dir' = Finalized(r)
  <2>1. /\ dir' \in [Runs -> Dirs] /\ \A q \in Runs \ {r} : dir'[q] = dir[q]
        /\ dir'[r].parent = dir[r].parent /\ dir'[r].batch = dir[r].batch
    BY <1>1, <1>3, FinalizedMoves
  <2> QED  BY <1>1, <2>1
<1> QED  BY <1>2, <1>3 DEF Files

LEMMA ReviewFailsMove ==
  ASSUME TypeInv, NEW w \in Workers, NEW r \in Runs, ReviewFails(w, r)
  PROVE  /\ TypeInv' /\ Visits("review", r) /\ Files(r)
         /\ Turn'.st.stop = Turn.st.stop /\ Turn'.st.completed = Turn.st.completed
         /\ Turn'.st.jobs[r]
              = [Turn.st.jobs[r] EXCEPT !.stages = Turn.st.jobs[r].stages \cup {"finalized"}]
<1>1. /\ TypeOK /\ At(w, "review") /\ r \in work[w].todo /\ Fault("review") /\ Finalize(w, r)
      /\ Visited(w, r, [Job(w, r) EXCEPT !.stages = Job(w, r).stages \cup {"finalized"}])
      /\ UNCHANGED <<server, recipes, held, disk, lock>>
      /\ Job(w, r) \in Jobs /\ Job(w, r) = Turn.st.jobs[r]
  BY TurnTyped, AtTurn DEF ReviewFails, TypeInv, At, Job
<1> DEFINE job == [Job(w, r) EXCEPT !.stages = Job(w, r).stages \cup {"finalized"}]
<1>2. job \in Jobs
  BY <1>1 DEF Jobs
<1>3. Files(r)
  BY <1>1 DEF Finalize, Files
<1>4. faults' \in 0 .. MaxFaults
  BY <1>1, FaultsTyped
<1>5. /\ dir' \in [Runs -> Dirs]
      /\ \A q \in Runs : (dir'[q].batch => Sent(q)) /\ dir'[q].parent = dir[q].parent
  BY <1>3, FilesMoves
<1>6. Visited(w, r, job)
  BY <1>1
<1> HIDE DEF job
<1>7. /\ TypeInv' /\ Visits("review", r) /\ Turn'.st.jobs[r] = job
      /\ Turn'.st.stop = Turn.st.stop /\ Turn'.st.completed = Turn.st.completed
  BY <1>1, <1>2, <1>4, <1>5, <1>6, VisitMoves
<1> QED  BY <1>1, <1>3, <1>7 DEF job

\* The review of a run; what fails it stops the scope.
Judges(r) ==
  LET job == Turn.st.jobs[r]
      new == Turn'.st.jobs[r]
  IN  /\ new.stages = job.stages \cup {"finalized", "reviewed"}
      /\ new.batch_id = job.batch_id /\ new.ambiguous = job.ambiguous
      /\ new.reserved = job.reserved /\ new.retried = job.retried
      /\ Turn'.st.stop = "none" => Turn.st.stop = "none" /\ new.passed

LEMMA ReviewMove ==
  ASSUME TypeInv, NEW w \in Workers, NEW r \in Runs, Review(w, r)
  PROVE  /\ TypeInv' /\ Visits("review", r) /\ Files(r) /\ Judges(r)
         /\ Turn'.st.completed = Turn.st.completed
<1>1. /\ TypeOK /\ lock = w /\ lock' = w /\ work[w].pc = "review" /\ r \in work[w].todo
      /\ Finalize(w, r) /\ UNCHANGED <<server, recipes, held, disk>>
      /\ Turn = work[w] /\ Turn.st \in States /\ Turn.st.jobs \in [Runs -> Jobs]
      /\ Turn.todo \in SUBSET Runs /\ server \in [Runs -> Batches]
  BY TurnTyped, AtTurn DEF Review, TypeInv, TypeOK, RunnerTypeOK, At
<1> DEFINE st == work[w].st
           breach == ~IsRetry(r) /\ Breach(r)'
           judged(flagged) == [Job(w, r) EXCEPT !.stages = @ \cup {"finalized", "reviewed"},
                                                !.passed = ~(breach \/ flagged)]
           seen(flagged) == [st EXCEPT !.jobs[r] = judged(flagged)]
           flags(flagged) == IF flagged THEN SetStop(seen(flagged), "integrity")
                             ELSE seen(flagged)
           new(flagged) == IF breach THEN SetStop(flags(flagged), "failure-rate")
                           ELSE flags(flagged)
<1>2. PICK flagged \in BOOLEAN :
        /\ IF flagged THEN Fault("flag") ELSE NoFault
        /\ Goes(w, "review", new(flagged), work[w].todo \ {r}, NoRun)
  BY DEF Review
<1>3. Job(w, r) = Turn.st.jobs[r] /\ Job(w, r) \in Jobs
  BY <1>1 DEF Job
<1> DEFINE job == judged(flagged)
<1>4. /\ job \in Jobs
      /\ job.stages = Job(w, r).stages \cup {"finalized", "reviewed"}
      /\ job.batch_id = Job(w, r).batch_id /\ job.ambiguous = Job(w, r).ambiguous
      /\ job.reserved = Job(w, r).reserved /\ job.retried = Job(w, r).retried
      /\ breach \/ flagged \/ job.passed
  <2> DEFINE ok == ~(breach \/ flagged)
  <2>1. ok \in BOOLEAN /\ (breach \/ flagged \/ ok)
    OBVIOUS
  <2>2. job = [Job(w, r) EXCEPT !.stages = Job(w, r).stages \cup {"finalized", "reviewed"},
                                !.passed = ok]
    OBVIOUS
  <2> HIDE DEF ok, job, breach
  <2>3. /\ job \in Jobs
        /\ job.stages = Job(w, r).stages \cup {"finalized", "reviewed"}
        /\ job.batch_id = Job(w, r).batch_id /\ job.ambiguous = Job(w, r).ambiguous
        /\ job.reserved = Job(w, r).reserved /\ job.retried = Job(w, r).retried
        /\ job.passed = ok
    BY <1>3, <2>1, <2>2 DEF Jobs
  <2>4. breach \/ flagged \/ job.passed
    BY <2>1, <2>3
  <2> QED  BY <2>3, <2>4
<1>5. seen(flagged) = [st EXCEPT !.jobs = [st.jobs EXCEPT ![r] = job]]
  <2> HIDE DEF job
  <2>1. [st EXCEPT !.jobs[r] = job] = [st EXCEPT !.jobs = [st.jobs EXCEPT ![r] = job]]
    BY <1>1 DEF States
  <2> QED  BY <2>1 DEF job
<1> DEFINE before == seen(flagged)
           middle == flags(flagged)
           after == new(flagged)
<1>6. /\ before \in States /\ before.jobs = [st.jobs EXCEPT ![r] = job]
      /\ before.queue = st.queue /\ before.stop = st.stop
      /\ before.completed = st.completed /\ before.ceiling = st.ceiling
  <2> HIDE DEF job, before
  <2>1. [st.jobs EXCEPT ![r] = job] \in [Runs -> Jobs]
    BY <1>1, <1>4
  <2>2. before = [st EXCEPT !.jobs = [st.jobs EXCEPT ![r] = job]]
    BY <1>5 DEF before
  <2> QED  BY <1>1, <2>1, <2>2 DEF States
<1>7. /\ middle \in States /\ middle.jobs = before.jobs /\ middle.queue = before.queue
      /\ middle.completed = before.completed /\ middle.ceiling = before.ceiling
      /\ middle.stop = "none" => before.stop = "none" /\ ~flagged
  <2>1. middle = IF flagged THEN SetStop(before, "integrity") ELSE before
    OBVIOUS
  <2> HIDE DEF before, middle
  <2>2. "integrity" \in StopReasons
    BY DEF StopReasons
  <2> QED  BY <1>6, <2>1, <2>2, SetStopMoves
<1>8. /\ after \in States /\ after.jobs = middle.jobs /\ after.queue = middle.queue
      /\ after.completed = middle.completed /\ after.ceiling = middle.ceiling
      /\ after.stop = "none" => middle.stop = "none" /\ ~breach
  <2>1. after = IF breach THEN SetStop(middle, "failure-rate") ELSE middle
    OBVIOUS
  <2> HIDE DEF middle, after, breach
  <2>2. "failure-rate" \in StopReasons
    BY DEF StopReasons
  <2> QED  BY <1>7, <2>1, <2>2, SetStopMoves
<1>9. Goes(w, "review", after, work[w].todo \ {r}, NoRun)
  BY <1>2
<1> HIDE DEF breach, judged, seen, flags, new, job, before, middle, after
<1>10. Files(r)
  BY <1>1, <1>3 DEF Finalize, Files
<1>11. /\ dir' \in [Runs -> Dirs]
       /\ \A q \in Runs : dir'[q].batch => Sent(q)'
       /\ faults' \in 0 .. MaxFaults
  <2>1. \A q \in Runs : Sent(q)' <=> Sent(q)
    BY <1>1 DEF Sent
  <2>2. faults' \in 0 .. MaxFaults
    BY <1>1, <1>2, FaultsTyped
  <2> QED  BY <1>10, <2>1, <2>2, FilesMoves
<1> DEFINE todo == work[w].todo \ {r}
<1>12. TypeInv' /\ Turn' = [pc |-> "review", st |-> after, todo |-> todo, run |-> NoRun]
  <2>1. todo \in SUBSET Runs /\ Goes(w, "review", after, todo, NoRun)
    BY <1>1, <1>9
  <2>2. server' \in [Runs -> Batches] /\ UNCHANGED <<recipes, held, disk>>
    BY <1>1
  <2> HIDE DEF todo
  <2> QED  BY <1>1, <1>8, <1>11, <2>1, <2>2, GoesTurn
<1>13. /\ Turn'.st = after /\ Turn'.pc = "review" /\ Turn'.todo = Turn.todo \ {r}
       /\ Turn'.st.jobs[r] = job
       /\ \A q \in Runs \ {r} : Turn'.st.jobs[q] = Turn.st.jobs[q]
  BY <1>1, <1>6, <1>7, <1>8, <1>12
<1>14. Visits("review", r)
  BY <1>1, <1>6, <1>7, <1>8, <1>13 DEF Visits
<1>15. Judges(r)
  BY <1>1, <1>3, <1>4, <1>6, <1>7, <1>8, <1>13 DEF Judges
<1> QED  BY <1>1, <1>6, <1>7, <1>8, <1>10, <1>12, <1>13, <1>14, <1>15

\* The first k writes of the merge of r into its parent.
MergeWrites(r, k) ==
  /\ dir[r].stage = "finalized" /\ dir[r].parent \in Runs
  /\ r \notin dir[dir[r].parent].merged
  /\ dir' = Merged(r, k)

LEMMA MergeWritesMoves ==
  ASSUME TypeInv, NEW r \in Runs, NEW k \in 0 .. Merges, UNCHANGED dir \/ MergeWrites(r, k)
  PROVE  /\ dir' \in [Runs -> Dirs]
         /\ \A q \in Runs : (dir'[q].batch => Sent(q)) /\ dir'[q].parent = dir[q].parent
<1>1. TypeOK /\ dir \in [Runs -> Dirs] /\ \A q \in Runs : dir[q].batch => Sent(q)
  BY DEF TypeInv, TypeOK, RunnerTypeOK, Shape
<1>2. CASE UNCHANGED dir
  BY <1>1, <1>2
<1>3. CASE MergeWrites(r, k)
  <2> DEFINE p == dir[r].parent
  <2>1. p \in Runs /\ p = dir[r].parent /\ dir' = Merged(r, k)
    BY <1>3 DEF MergeWrites
  <2> HIDE DEF p
  <2>2. /\ dir' \in [Runs -> Dirs] /\ \A q \in Runs \ {p} : dir'[q] = dir[q]
        /\ dir'[p].parent = dir[p].parent /\ dir'[p].batch = dir[p].batch
    BY <1>1, <2>1, MergedMoves
  <2> QED  BY <1>1, <2>1, <2>2
<1> QED  BY <1>2, <1>3

LEMMA MergeMove ==
  ASSUME TypeInv, NEW w \in Workers, NEW r \in Runs, Merge(w, r)
  PROVE  /\ TypeInv' /\ Visits("merge", r)
         /\ dir[r].stage = "finalized" /\ dir[r].parent \in Runs
         /\ IF r \in dir[dir[r].parent].merged THEN UNCHANGED dir ELSE MergeWrites(r, Merges)
         /\ Turn'.st.stop = Turn.st.stop /\ Turn'.st.completed = Turn.st.completed
         /\ Turn'.st.jobs[r]
              = [Turn.st.jobs[r] EXCEPT !.stages = Turn.st.jobs[r].stages \cup {"reconciled"}]
<1>1. /\ TypeOK /\ At(w, "merge") /\ r \in work[w].todo /\ NoFault /\ dir[r].stage = "finalized"
      /\ Visited(w, r, [Job(w, r) EXCEPT !.stages = Job(w, r).stages \cup {"reconciled"}])
      /\ UNCHANGED <<server, recipes, held, disk, lock>>
      /\ IF r \in dir[dir[r].parent].merged THEN UNCHANGED dir ELSE dir' = Merged(r, Merges)
      /\ Job(w, r) \in Jobs /\ Job(w, r) = Turn.st.jobs[r]
      /\ dir[r].parent \in Runs
  BY TurnTyped, AtTurn DEF Merge, Mergeable, TypeInv, Shape, At, Job
<1> DEFINE job == [Job(w, r) EXCEPT !.stages = Job(w, r).stages \cup {"reconciled"}]
<1>2. job \in Jobs
  BY <1>1 DEF Jobs
<1>3. IF r \in dir[dir[r].parent].merged THEN UNCHANGED dir ELSE MergeWrites(r, Merges)
  BY <1>1 DEF MergeWrites
<1>4. faults' \in 0 .. MaxFaults
  BY <1>1, FaultsTyped
<1>5. /\ dir' \in [Runs -> Dirs]
      /\ \A q \in Runs : (dir'[q].batch => Sent(q)) /\ dir'[q].parent = dir[q].parent
  <2>1. Merges \in 0 .. Merges
    BY DEF Merges
  <2> QED  BY <1>3, <2>1, MergeWritesMoves
<1>6. Visited(w, r, job)
  BY <1>1
<1> HIDE DEF job
<1>7. /\ TypeInv' /\ Visits("merge", r) /\ Turn'.st.jobs[r] = job
      /\ Turn'.st.stop = Turn.st.stop /\ Turn'.st.completed = Turn.st.completed
  BY <1>1, <1>2, <1>4, <1>5, <1>6, VisitMoves
<1> QED  BY <1>1, <1>3, <1>7 DEF job

LEMMA MergeFailsMove ==
  ASSUME TypeInv, NEW w \in Workers, NEW r \in Runs, MergeFails(w, r)
  PROVE  /\ TypeInv' /\ Visits("merge", r)
         /\ UNCHANGED dir \/ \E k \in 0 .. Merges : MergeWrites(r, k)
         /\ Turn'.st.stop = Turn.st.stop /\ Turn'.st.completed = Turn.st.completed
         /\ Turn'.st.jobs[r] = Turn.st.jobs[r]
<1>1. /\ TypeOK /\ At(w, "merge") /\ r \in work[w].todo
      /\ (NoFault \/ Fault("merge"))
      /\ Visited(w, r, Job(w, r))
      /\ UNCHANGED <<server, recipes, held, disk, lock>>
      /\ Job(w, r) \in Jobs /\ Job(w, r) = Turn.st.jobs[r]
      /\ dir[r].parent \in Runs
  BY TurnTyped, AtTurn DEF MergeFails, Because, TypeInv, Shape, At, Job
<1>2. UNCHANGED dir \/ \E k \in 0 .. Merges : MergeWrites(r, k)
  BY <1>1 DEF MergeFails, MergeWrites, Mergeable
<1>3. faults' \in 0 .. MaxFaults
  BY <1>1, FaultsTyped
<1>4. /\ dir' \in [Runs -> Dirs]
      /\ \A q \in Runs : (dir'[q].batch => Sent(q)) /\ dir'[q].parent = dir[q].parent
  <2>1. 0 \in 0 .. Merges
    BY DEF Merges
  <2>2. PICK k \in 0 .. Merges : UNCHANGED dir \/ MergeWrites(r, k)
    BY <1>2, <2>1
  <2> QED  BY <2>2, MergeWritesMoves
<1>5. /\ TypeInv' /\ Visits("merge", r) /\ Turn'.st.jobs[r] = Job(w, r)
      /\ Turn'.st.stop = Turn.st.stop /\ Turn'.st.completed = Turn.st.completed
  BY <1>1, <1>3, <1>4, VisitMoves
<1> QED  BY <1>1, <1>2, <1>5

\* What the turn has left to do changes, and nothing else.
Turns(from, pc, st, todo, run) ==
  /\ Turn.pc = from /\ Turn' = [pc |-> pc, st |-> st, todo |-> todo, run |-> run]
  /\ UNCHANGED <<dir, server, disk>>

LEMMA PlainTurn ==
  ASSUME TypeInv, NEW w \in Workers, lock = w, lock' = w, NEW from, work[w].pc = from,
         NEW pc \in {"poll", "review", "merge", "submit", "write"}, NEW st \in States,
         NEW todo \in SUBSET Runs, NEW run \in Runs \cup {NoRun},
         Goes(w, pc, st, todo, run),
         pc = "submit" => run \in Runs,
         pc = "merge" => \A r \in todo : dir[r].parent \in Runs,
         UNCHANGED <<dir, server, recipes, held, disk>>, NoFault
  PROVE  TypeInv' /\ Turns(from, pc, st, todo, run)
<1>1. /\ TypeOK /\ dir \in [Runs -> Dirs] /\ server \in [Runs -> Batches]
      /\ \A q \in Runs : dir[q].batch => Sent(q)
  BY DEF TypeInv, TypeOK, RunnerTypeOK, Shape
<1>2. faults' \in 0 .. MaxFaults
  BY <1>1, FaultsTyped
<1>3. /\ dir' \in [Runs -> Dirs] /\ server' \in [Runs -> Batches]
      /\ \A q \in Runs : dir'[q].batch => Sent(q)'
      /\ pc = "merge" => \A r \in todo : dir'[r].parent \in Runs
  BY <1>1 DEF Sent
<1>4. TypeInv' /\ Turn' = [pc |-> pc, st |-> st, todo |-> todo, run |-> run]
  BY <1>2, <1>3, GoesTurn
<1>5. Turn = work[w]
  BY AtTurn
<1> QED  BY <1>4, <1>5 DEF Turns

LEMMA PollEndsMove ==
  ASSUME TypeInv, NEW w \in Workers, PollEnds(w)
  PROVE  /\ TypeInv' /\ Turn.todo = {}
         /\ Turns("poll", "review", Turn.st,
                  {r \in Runs : /\ "collected" \in Turn.st.jobs[r].stages
                                /\ "reviewed" \notin Turn.st.jobs[r].stages}, NoRun)
<1> DEFINE todo == {r \in Runs : /\ "collected" \in Job(w, r).stages
                                 /\ "reviewed" \notin Job(w, r).stages}
<1>1. /\ lock = w /\ lock' = w /\ work[w].pc = "poll" /\ work[w].todo = {} /\ Turn = work[w]
      /\ Goes(w, "review", work[w].st, todo, NoRun) /\ NoFault
      /\ UNCHANGED <<dir, server, recipes, held, disk>>
      /\ work[w].st \in States
  BY TurnTyped, AtTurn DEF PollEnds, LoopEnds, At, runnerVars
<1>2. todo = {r \in Runs : /\ "collected" \in Turn.st.jobs[r].stages
                           /\ "reviewed" \notin Turn.st.jobs[r].stages}
  BY <1>1 DEF Job
<1>3. todo \in SUBSET Runs
  OBVIOUS
<1> HIDE DEF todo
<1>4. TypeInv' /\ Turns("poll", "review", work[w].st, todo, NoRun)
  BY <1>1, <1>3, PlainTurn
<1> QED  BY <1>1, <1>2, <1>4

LEMMA ReviewEndsMove ==
  ASSUME TypeInv, NEW w \in Workers, ReviewEnds(w)
  PROVE  /\ TypeInv' /\ Turn.todo = {}
         /\ Turns("review", "merge", Turn.st,
                  {r \in Runs : /\ IsRetry(r)
                                /\ "reviewed" \in Turn.st.jobs[r].stages
                                /\ "reconciled" \notin Turn.st.jobs[r].stages}, NoRun)
<1> DEFINE todo == {r \in Runs : /\ IsRetry(r)
                                 /\ "reviewed" \in Job(w, r).stages
                                 /\ "reconciled" \notin Job(w, r).stages}
<1>1. /\ lock = w /\ lock' = w /\ work[w].pc = "review" /\ work[w].todo = {} /\ Turn = work[w]
      /\ Goes(w, "merge", work[w].st, todo, NoRun) /\ NoFault
      /\ UNCHANGED <<dir, server, recipes, held, disk>>
      /\ work[w].st \in States
  BY TurnTyped, AtTurn DEF ReviewEnds, LoopEnds, At, runnerVars
<1>2. todo = {r \in Runs : /\ IsRetry(r)
                           /\ "reviewed" \in Turn.st.jobs[r].stages
                           /\ "reconciled" \notin Turn.st.jobs[r].stages}
  BY <1>1 DEF Job
<1>3. todo \in SUBSET Runs /\ \A r \in todo : dir[r].parent \in Runs
  BY DEF IsRetry, TypeInv, TypeOK, RunnerTypeOK, Dirs
<1> HIDE DEF todo
<1>4. TypeInv' /\ Turns("review", "merge", work[w].st, todo, NoRun)
  BY <1>1, <1>3, PlainTurn
<1> QED  BY <1>1, <1>2, <1>4

LEMMA RetriedMoves ==
  ASSUME NEW st \in States, NEW p \in Runs
  PROVE  /\ [st EXCEPT !.jobs[p].retried = TRUE] \in States
         /\ [st EXCEPT !.jobs[p].retried = TRUE].jobs
              = [st.jobs EXCEPT ![p] = [st.jobs[p] EXCEPT !.retried = TRUE]]
         /\ [st EXCEPT !.jobs[p].retried = TRUE].queue = st.queue
         /\ [st EXCEPT !.jobs[p].retried = TRUE].stop = st.stop
         /\ [st EXCEPT !.jobs[p].retried = TRUE].completed = st.completed
         /\ [st EXCEPT !.jobs[p].retried = TRUE].ceiling = st.ceiling
<1>1. st.jobs \in [Runs -> Jobs] /\ st.jobs[p] \in Jobs
  BY DEF States
<1> DEFINE job == [st.jobs[p] EXCEPT !.retried = TRUE]
           jobs == [st.jobs EXCEPT ![p] = job]
<1>2. job \in Jobs
  BY <1>1 DEF Jobs
<1>3. [st EXCEPT !.jobs[p].retried = TRUE] = [st EXCEPT !.jobs = jobs]
  BY <1>1 DEF States, Jobs
<1> HIDE DEF job
<1>4. jobs \in [Runs -> Jobs]
  BY <1>1, <1>2
<1> HIDE DEF jobs
<1>5. /\ [st EXCEPT !.jobs = jobs] \in States /\ [st EXCEPT !.jobs = jobs].jobs = jobs
      /\ [st EXCEPT !.jobs = jobs].queue = st.queue /\ [st EXCEPT !.jobs = jobs].stop = st.stop
      /\ [st EXCEPT !.jobs = jobs].completed = st.completed
      /\ [st EXCEPT !.jobs = jobs].ceiling = st.ceiling
  BY <1>4 DEF States
<1> QED  BY <1>3, <1>5 DEF jobs, job

LEMMA BeginMove ==
  ASSUME TypeInv, NEW w \in Workers, Begin(w)
  PROVE  /\ TypeInv'
         /\ \/ Turns("idle", "poll", disk, Occupied(disk), NoRun)
            \/ Turns("idle", "write", SetStop(disk, "version-change"), {}, NoRun)
<1>1. /\ TypeOK /\ lock = NoWorker /\ lock' = w /\ UNCHANGED <<dir, server, recipes, held, disk>>
      /\ dir \in [Runs -> Dirs] /\ server \in [Runs -> Batches]
      /\ (\A q \in Runs : dir[q].batch => Sent(q))
      /\ Turn.pc = "idle" /\ disk \in States
      /\ NoWorker \notin Workers /\ \A v \in Workers : work[v].pc = "idle"
  BY SchedulerAssumption
  DEF Begin, TypeInv, TypeOK, RunnerTypeOK, Shape, LockHeld, Turn, runnerVars
<1> DEFINE stopped == SetStop(disk, "version-change")
<1>2. PICK pc \in {"poll", "write"}, st \in States, todo \in SUBSET Runs :
        /\ Goes(w, pc, st, todo, NoRun) /\ faults' \in 0 .. MaxFaults
        /\ \/ pc = "poll" /\ st = disk /\ todo = Occupied(disk)
           \/ pc = "write" /\ st = stopped /\ todo = {}
  <2>1. CASE NoFault /\ Goes(w, "poll", disk, Occupied(disk), NoRun)
    <3>1. faults' \in 0 .. MaxFaults /\ Occupied(disk) \in SUBSET Runs
      BY <1>1, <2>1, FaultsTyped DEF Occupied
    <3> QED  BY <1>1, <2>1, <3>1
  <2>2. CASE Fault("version") /\ Goes(w, "write", SetStop(disk, "version-change"), {}, NoRun)
    <3>1. faults' \in 0 .. MaxFaults
      BY <1>1, <2>2, FaultsTyped
    <3>2. stopped \in States
      <4>1. "version-change" \in StopReasons
        BY DEF StopReasons
      <4> QED  BY <1>1, <4>1, SetStopMoves
    <3> QED  BY <2>2, <3>1, <3>2
  <2> QED  BY <2>1, <2>2 DEF Begin
<1> HIDE DEF stopped
<1> DEFINE step == [pc |-> pc, st |-> st, todo |-> todo, run |-> NoRun]
<1>3. step \in Steps /\ step.pc = pc
  BY DEF Steps
<1>4. /\ work'[w] = step /\ \A v \in Workers \ {w} : work'[v] = work[v]
      /\ work' \in [Workers -> Steps]
  BY <1>1, <1>2, <1>3, GoesMoves
<1> HIDE DEF step
<1>5. Turn' = step
  BY <1>1, <1>4 DEF Turn
<1>6. TypeInv'
  <2>1. TypeOK'
    BY <1>1, <1>2, <1>4 DEF TypeOK, RunnerTypeOK
  <2>2. LockHeld'
    BY <1>1, <1>2, <1>3, <1>4 DEF LockHeld
  <2>3. Shape'
    <3>1. Turn'.pc # "submit" /\ Turn'.pc # "merge"
      BY <1>2, <1>3, <1>5
    <3>2. \A q \in Runs : Sent(q)' <=> Sent(q)
      BY <1>1 DEF Sent
    <3> QED  BY <1>1, <3>1, <3>2 DEF Shape
  <2> QED  BY <2>1, <2>2, <2>3 DEF TypeInv
<1> QED  BY <1>1, <1>2, <1>5, <1>6 DEF Turns, step, stopped

RefillTurn == Turn.pc = "merge" /\ Turn.todo = {}

LEMMA AtRefillTurn ==
  ASSUME TypeInv, NEW w \in Workers, AtRefill(w)
  PROVE  /\ lock = w /\ work[w].pc = "merge" /\ Turn = work[w] /\ RefillTurn
         /\ Turn.st \in States /\ TypeOK
         /\ Turn.st.queue \in Seq(Runs)
BY AtTurn, TurnTyped DEF AtRefill, At, RefillTurn, TypeInv, States

LEMMA RefillEndsMove ==
  ASSUME TypeInv, NEW w \in Workers, RefillEnds(w)
  PROVE  TypeInv' /\ RefillTurn /\ Turns("merge", "write", Turn.st, {}, NoRun)
<1>1. /\ AtRefill(w) /\ Goes(w, "write", work[w].st, {}, NoRun) /\ NoFault
      /\ UNCHANGED <<dir, server, recipes, held, disk>> /\ lock' = lock
  BY DEF RefillEnds, runnerVars
<1>2. lock = w /\ work[w].pc = "merge" /\ Turn = work[w] /\ RefillTurn /\ Turn.st \in States
  BY <1>1, AtRefillTurn
<1>3. TypeInv' /\ Turns("merge", "write", work[w].st, {}, NoRun)
  BY <1>1, <1>2, PlainTurn
<1> QED  BY <1>2, <1>3

\* A run is chosen and its budget reserved, or the scope stops.
Chooses(st, r, max) ==
  \/ BudgetOk(st, max) /\ Turn' = [pc |-> "submit", st |-> st, todo |-> {}, run |-> r]
  \/ Turn' = [pc |-> "write", st |-> SetStop(st, "budget-exhausted"), todo |-> {}, run |-> NoRun]

LEMMA ReserveTurn ==
  ASSUME TypeInv, NEW w \in Workers, lock = w, lock' = w, NEW st \in States, NEW r \in Runs,
         NEW max, Reserve(w, st, r, max), dir' \in [Runs -> Dirs],
         \A q \in Runs : dir'[q].batch => Sent(q),
         UNCHANGED <<server, recipes, held, disk>>, NoFault
  PROVE  TypeInv' /\ Chooses(st, r, max)
<1>1. server' \in [Runs -> Batches] /\ \A q \in Runs : dir'[q].batch => Sent(q)'
  BY DEF TypeInv, TypeOK, RunnerTypeOK, Sent
<1>2. faults' \in 0 .. MaxFaults
  BY FaultsTyped DEF TypeInv
<1>3. CASE BudgetOk(st, max)
  <2>1. Goes(w, "submit", st, {}, r)
    BY <1>3 DEF Reserve
  <2>2. TypeInv' /\ Turn' = [pc |-> "submit", st |-> st, todo |-> {}, run |-> r]
    BY <1>1, <1>2, <2>1, GoesTurn
  <2> QED  BY <1>3, <2>2 DEF Chooses
<1>4. CASE ~ BudgetOk(st, max)
  <2> DEFINE new == SetStop(st, "budget-exhausted")
  <2>1. Goes(w, "write", new, {}, NoRun)
    BY <1>4 DEF Reserve
  <2>2. new \in States
    <3>1. "budget-exhausted" \in StopReasons
      BY DEF StopReasons
    <3> QED  BY <3>1, SetStopMoves
  <2> HIDE DEF new
  <2>3. TypeInv' /\ Turn' = [pc |-> "write", st |-> new, todo |-> {}, run |-> NoRun]
    BY <1>1, <1>2, <2>1, <2>2, GoesTurn
  <2> QED  BY <2>3 DEF Chooses, new
<1> QED  BY <1>3, <1>4

LEMMA TakeMove ==
  ASSUME TypeInv, NEW w \in Workers, Take(w)
  PROVE  /\ TypeInv' /\ RefillTurn /\ MayRefill(Turn.st) /\ UNCHANGED <<dir, server, disk>>
         /\ \E r \in Runs : Contains(Turn.st.queue, r) /\ Chooses(Turn.st, r, MaxCost(r))
<1> DEFINE r == Head(work[w].st.queue)
<1>1. /\ AtRefill(w) /\ MayRefill(work[w].st) /\ QueuedWork(work[w].st) /\ NoFault
      /\ Reserve(w, work[w].st, r, MaxCost(r))
      /\ UNCHANGED <<dir, server, recipes, held, disk>> /\ lock' = lock
  BY DEF Take, runnerVars
<1>2. /\ lock = w /\ Turn = work[w] /\ RefillTurn /\ Turn.st \in States
      /\ work[w].st.queue \in Seq(Runs) /\ dir \in [Runs -> Dirs]
      /\ \A q \in Runs : dir[q].batch => Sent(q)
  BY <1>1, AtRefillTurn DEF TypeInv, TypeOK, RunnerTypeOK, Shape
<1>3. r \in Runs /\ Contains(work[w].st.queue, r)
  <2> DEFINE queue == work[w].st.queue
  <2>1. queue \in Seq(Runs) /\ queue # << >>
    BY <1>1, <1>2 DEF QueuedWork
  <2> HIDE DEF queue
  <2>2. Head(queue) = queue[1] /\ 1 \in 1 .. Len(queue) /\ queue[1] \in Runs
    BY <2>1
  <2> QED  BY <2>2 DEF Contains, queue
<1>4. dir' \in [Runs -> Dirs] /\ \A q \in Runs : dir'[q].batch => Sent(q)
  BY <1>1, <1>2
<1> HIDE DEF r
<1>5. TypeInv' /\ Chooses(work[w].st, r, MaxCost(r))
  <2> DEFINE max == MaxCost(r)
  <2>1. Reserve(w, work[w].st, r, max)
    BY <1>1
  <2> HIDE DEF max
  <2>2. TypeInv' /\ Chooses(work[w].st, r, max)
    BY <1>1, <1>2, <1>3, <1>4, <2>1, ReserveTurn
  <2> QED  BY <2>2 DEF max
<1> QED  BY <1>1, <1>2, <1>3, <1>5

LEMMA RetryRefusedMove ==
  ASSUME TypeInv, NEW w \in Workers, NEW p \in Fresh, RetryRefused(w, p)
  PROVE  /\ TypeInv' /\ RefillTurn /\ p \in Retriable(Turn.st) /\ dir[p].stage # "finalized"
         /\ Turns("merge", "write", [Turn.st EXCEPT !.jobs[p].retried = TRUE], {}, NoRun)
<1> DEFINE new == [work[w].st EXCEPT !.jobs[p].retried = TRUE]
<1>1. /\ AtRefill(w) /\ p \in Retriable(work[w].st) /\ dir[p].stage # "finalized"
      /\ Goes(w, "write", new, {}, NoRun) /\ NoFault
      /\ UNCHANGED <<dir, server, recipes, held, disk>> /\ lock' = lock
  BY DEF RetryRefused, runnerVars
<1>2. lock = w /\ work[w].pc = "merge" /\ Turn = work[w] /\ RefillTurn /\ Turn.st \in States
  BY <1>1, AtRefillTurn
<1>3. new \in States
  BY <1>2, RetriedMoves DEF Runs
<1> HIDE DEF new
<1>4. TypeInv' /\ Turns("merge", "write", new, {}, NoRun)
  BY <1>1, <1>2, <1>3, PlainTurn
<1> QED  BY <1>1, <1>2, <1>4 DEF new

LEMMA PrepareRetryMove ==
  ASSUME TypeInv, NEW w \in Workers, NEW p \in Fresh, PrepareRetry(w, p)
  PROVE  /\ TypeInv' /\ RefillTurn /\ p \in Retriable(Turn.st) /\ dir[p].stage = "finalized"
         /\ MayRefill(Turn.st) /\ Turn.st.queue = << >> /\ UNCHANGED <<server, disk>>
         /\ \E c \in Retries :
              /\ dir[c].stage = "none" /\ dir' = RetryPrepared(p, c)
              /\ Chooses([Turn.st EXCEPT !.jobs[p].retried = TRUE], c, Cardinality(Eligible(p)))
<1> DEFINE st == [work[w].st EXCEPT !.jobs[p].retried = TRUE]
           c == NewName
           max == Cardinality(Eligible(p))
<1>1. /\ AtRefill(w) /\ p \in Retriable(work[w].st) /\ dir[p].stage = "finalized" /\ NoFault
      /\ MayRefill(work[w].st) /\ work[w].st.queue = << >> /\ NewNames # {}
      /\ dir' = RetryPrepared(p, c) /\ Reserve(w, st, c, max)
      /\ UNCHANGED <<server, recipes, held, disk>> /\ lock' = lock
  BY DEF PrepareRetry
<1>2. /\ lock = w /\ Turn = work[w] /\ RefillTurn /\ Turn.st \in States /\ TypeOK
      /\ \A q \in Runs : dir[q].batch => Sent(q)
  BY <1>1, AtRefillTurn DEF TypeInv, Shape
<1>3. p \in Runs /\ c \in Runs /\ c \in Retries /\ dir[c].stage = "none"
  <2>1. c \in NewNames
    BY <1>1 DEF NewName
  <2> QED  BY <2>1 DEF NewNames, Runs
<1>4. st \in States
  BY <1>2, <1>3, RetriedMoves
<1> HIDE DEF c, st, max
<1>5. dir' \in [Runs -> Dirs] /\ \A q \in Runs : dir'[q].batch => Sent(q)
  <2>1. dir' \in [Runs -> Dirs] /\ dir'[c].batch = FALSE /\ \A q \in Runs \ {c} : dir'[q] = dir[q]
    <3>1. TypeOK /\ p \in Runs /\ c \in Runs /\ dir' = RetryPrepared(p, c)
      BY <1>1, <1>2, <1>3
    <3> QED  BY <3>1, RetryMoves
  <2> QED  BY <1>2, <2>1
<1>6. TypeInv' /\ Chooses(st, c, max)
  BY <1>1, <1>2, <1>3, <1>4, <1>5, ReserveTurn
<1> QED  BY <1>1, <1>2, <1>3, <1>6 DEF st, max

\* A run is sent, or it is not known whether it was.
Submits(r) ==
  /\ Turn.pc = "submit" /\ Turn.run = r /\ r \in Runs
  /\ Calm(r) /\ dir'[r].stage \in {dir[r].stage, "submitted"}
  /\ UNCHANGED server \/ server' = Created(r)
  /\ UNCHANGED disk
  /\ \E job \in Jobs, pc \in {"merge", "write"} :
       /\ Open(job) /\ job.reserved = MaxCost(r)
       /\ \/ job.stages = {} /\ job.retried = FALSE
          \/ /\ job.stages = Turn.st.jobs[r].stages /\ job.passed = Turn.st.jobs[r].passed
             /\ job.retried = Turn.st.jobs[r].retried
       /\ Turn' = [pc |-> pc, st |-> WithJob(Turn.st, r, job), todo |-> {}, run |-> NoRun]

LEMMA SubmittedMove ==
  ASSUME TypeInv, NEW w \in Workers, Submitted(w)
  PROVE  TypeInv' /\ Submits(Turn.run)
<1> DEFINE r == work[w].run
           job == [NoJob EXCEPT !.batch_id = "real", !.status = "submitted",
                                !.reserved = MaxCost(r)]
           st == WithJob(work[w].st, r, job)
<1>1. /\ lock = w /\ lock' = w /\ work[w].pc = "submit" /\ NoFault
      /\ dir' = Confirmed(r) /\ server' = Created(r) /\ Goes(w, "merge", st, {}, NoRun)
      /\ UNCHANGED <<recipes, held, disk>>
  BY DEF Submitted, At
<1>2. /\ Turn = work[w] /\ TypeOK /\ r \in Runs /\ work[w].st \in States /\ MaxCost(r) \in Nat
      /\ \A q \in Runs : dir[q].batch => Sent(q)
  BY <1>1, AtTurn, TurnTyped, CostTyped DEF TypeInv, Shape
<1>3. /\ job \in Jobs /\ Open(job) /\ job.reserved = MaxCost(r) /\ job.stages = {}
      /\ job.retried = FALSE
  BY <1>2 DEF NoJob, Jobs, Open
<1>4. st \in States
  <2> HIDE DEF job
  <2> QED  BY <1>2, <1>3, WithJobMoves
<1> HIDE DEF r, st, job
<1>5. dir' \in [Runs -> Dirs] /\ Calm(r) /\ dir'[r].stage = "submitted"
  BY <1>1, <1>2, ConfirmedMoves
<1>6. /\ server' \in [Runs -> Batches] /\ \A q \in Runs \ {r} : server'[q] = server[q]
      /\ server'[r].status = "in_progress"
  BY <1>1, <1>2, CreatedMoves
<1>7. \A q \in Runs : dir'[q].batch => Sent(q)'
  BY <1>2, <1>5, <1>6 DEF Calm, Sent
<1>8. faults' \in 0 .. MaxFaults
  BY <1>1, <1>2, FaultsTyped
<1>9. TypeInv' /\ Turn' = [pc |-> "merge", st |-> st, todo |-> {}, run |-> NoRun]
  BY <1>1, <1>4, <1>5, <1>6, <1>7, <1>8, GoesTurn
<1>10. Turn.run = r /\ Turn.pc = "submit"
  BY <1>1, <1>2 DEF r
<1>11. Turn' = [pc |-> "merge", st |-> WithJob(Turn.st, r, job), todo |-> {}, run |-> NoRun]
  BY <1>2, <1>9 DEF st
<1>12. Submits(r)
  BY <1>1, <1>2, <1>3, <1>5, <1>10, <1>11 DEF Submits
<1> QED  BY <1>9, <1>10, <1>12

LEMMA AmbiguousMove ==
  ASSUME TypeInv, NEW w \in Workers, Ambiguous(w)
  PROVE  TypeInv' /\ Submits(Turn.run)
<1> DEFINE r == work[w].run
           job == [Job(w, r) EXCEPT !.ambiguous = TRUE, !.reserved = MaxCost(r)]
           st == WithJob(work[w].st, r, job)
<1>1. /\ lock = w /\ lock' = w /\ work[w].pc = "submit"
      /\ Goes(w, "write", st, {}, NoRun) /\ UNCHANGED <<recipes, held, disk>>
      /\ \/ Because(SubmitRefused(r), "upload") /\ UNCHANGED <<dir, server>>
         \/ Fault("create") /\ dir' = AttemptMade(r) /\ UNCHANGED server
         \/ Fault("answer") /\ dir' = AttemptMade(r) /\ server' = Created(r)
  BY DEF Ambiguous, At
<1>2. /\ Turn = work[w] /\ TypeOK /\ r \in Runs /\ work[w].st \in States /\ MaxCost(r) \in Nat
      /\ (\A q \in Runs : dir[q].batch => Sent(q)) /\ dir \in [Runs -> Dirs]
      /\ server \in [Runs -> Batches]
      /\ Job(w, r) = Turn.st.jobs[r] /\ Job(w, r) \in Jobs
  BY <1>1, AtTurn, TurnTyped, CostTyped DEF TypeInv, Shape, Job, TypeOK, RunnerTypeOK
<1>3. /\ job \in Jobs /\ Open(job) /\ job.reserved = MaxCost(r)
      /\ job.stages = Job(w, r).stages /\ job.passed = Job(w, r).passed
      /\ job.retried = Job(w, r).retried
  BY <1>2 DEF Jobs, Open
<1>4. st \in States
  <2> HIDE DEF job
  <2> QED  BY <1>2, <1>3, WithJobMoves
<1> HIDE DEF r, st, job
<1>5. dir' \in [Runs -> Dirs] /\ Calm(r) /\ dir'[r].stage = dir[r].stage
      /\ dir'[r].batch = dir[r].batch
  <2>1. CASE UNCHANGED dir
    BY <1>2, <2>1, NoChangeIsCalm
  <2>2. CASE dir' = AttemptMade(r)
    BY <1>2, <2>2, AttemptMoves
  <2> QED  BY <1>1, <2>1, <2>2
<1>6. UNCHANGED server \/ server' = Created(r)
  BY <1>1
<1>7. server' \in [Runs -> Batches] /\ \A q \in Runs : Sent(q) => Sent(q)'
  <2>1. CASE UNCHANGED server
    BY <1>2, <2>1 DEF Sent
  <2>2. CASE server' = Created(r)
    <3>1. /\ server' \in [Runs -> Batches] /\ \A q \in Runs \ {r} : server'[q] = server[q]
          /\ server'[r].status = "in_progress"
      BY <1>2, <2>2, CreatedMoves
    <3> QED  BY <3>1 DEF Sent
  <2> QED  BY <1>6, <2>1, <2>2
<1>8. \A q \in Runs : dir'[q].batch => Sent(q)'
  BY <1>2, <1>5, <1>7 DEF Calm
<1>9. faults' \in 0 .. MaxFaults
  BY <1>1, <1>2, FaultsTyped DEF Because
<1>10. TypeInv' /\ Turn' = [pc |-> "write", st |-> st, todo |-> {}, run |-> NoRun]
  BY <1>1, <1>4, <1>5, <1>7, <1>8, <1>9, GoesTurn
<1>11. Turn.run = r /\ Turn.pc = "submit"
  BY <1>1, <1>2 DEF r
<1>12. Turn' = [pc |-> "write", st |-> WithJob(Turn.st, r, job), todo |-> {}, run |-> NoRun]
  BY <1>2, <1>10 DEF st
<1>13. Submits(r)
  BY <1>1, <1>2, <1>3, <1>5, <1>6, <1>11, <1>12 DEF Submits
<1> QED  BY <1>10, <1>11, <1>13

\* The end of step(): its state is on disk.
Writes ==
  /\ Turn.pc = "write" /\ UNCHANGED <<dir, server>>
  /\ disk' = Turn.st
  /\ Turn' = [pc |-> "idle", st |-> Turn.st, todo |-> {}, run |-> NoRun]

LEMMA WriteMove ==
  ASSUME TypeInv, NEW w \in Workers, Write(w)
  PROVE  TypeInv' /\ Writes
<1>1. /\ TypeOK /\ LockHeld /\ work \in [Workers -> Steps] /\ server \in [Runs -> Batches]
      /\ lock = w /\ work[w].pc = "write" /\ Turn = work[w] /\ Turn.st \in States
      /\ disk' = work[w].st /\ lock' = NoWorker /\ work' = [work EXCEPT ![w] = Idle] /\ NoFault
      /\ UNCHANGED <<dir, server, recipes, held>> /\ NoWorker \notin Workers
      /\ \A q \in Runs : dir[q].batch => Sent(q)
  BY AtTurn, TurnTyped, SchedulerAssumption
  DEF Write, At, TypeInv, TypeOK, RunnerTypeOK, Shape, runnerVars
<1>2. /\ work'[w] = Idle /\ \A v \in Workers \ {w} : work'[v] = work[v]
      /\ work' \in [Workers -> Steps]
  BY <1>1, IdleTyped
<1>3. Turn' = [pc |-> "idle", st |-> Turn.st, todo |-> {}, run |-> NoRun]
  BY <1>1 DEF Turn
<1>4. LockHeld'
  BY <1>1, <1>2 DEF LockHeld, Idle
<1>5. Shape'
  <2>1. \A q \in Runs : Sent(q)' <=> Sent(q)
    BY <1>1 DEF Sent
  <2>2. Turn'.pc = "idle"
    BY <1>3
  <2> QED  BY <1>1, <2>1, <2>2 DEF Shape
<1>6. TypeOK'
  <2>1. faults' \in 0 .. MaxFaults
    BY <1>1, FaultsTyped
  <2> QED  BY <1>1, <1>2, <2>1 DEF TypeOK, RunnerTypeOK
<1> QED  BY <1>1, <1>3, <1>4, <1>5, <1>6 DEF TypeInv, Writes

\* A worker that is cut off: unless that may also happen after it paid,
\* everything it has sent is known on disk.
Cuts ==
  /\ Loses /\ UNCHANGED dir
  /\ "crash_unsaved" \notin Faults =>
       \A r \in Runs : Open(Turn.st.jobs[r]) => Open(disk.jobs[r])

LEMMA CrashMove ==
  ASSUME TypeInv, NEW w \in Workers, Crash(w)
  PROVE  TypeInv' /\ Cuts
<1>1. /\ TypeOK /\ lock = w /\ Lost(w) /\ UNCHANGED <<dir, server, recipes, held>>
      /\ Fault(IF Unsaved(w) = {} THEN "crash" ELSE "crash_unsaved")
      /\ dir \in [Runs -> Dirs] /\ (\A q \in Runs : dir[q].batch => Sent(q))
      /\ Turn = work[w]
  BY AtTurn DEF Crash, TypeInv, TypeOK, RunnerTypeOK, Shape, runnerVars
<1>2. faults' \in 0 .. MaxFaults
  BY <1>1, FaultsTyped
<1>3. TypeInv' /\ Loses
  BY <1>1, <1>2, LostTurn
<1>4. "crash_unsaved" \notin Faults => \A r \in Runs : Open(Turn.st.jobs[r]) => Open(disk.jobs[r])
  BY <1>1 DEF Fault, Unsaved, Job
<1> QED  BY <1>1, <1>3, <1>4 DEF Cuts

Idles == Turn' = Turn /\ UNCHANGED <<dir, disk>>

LEMMA BatchEndsMove ==
  ASSUME TypeInv, NEW r \in Runs, ProviderStep(r)
  PROVE  /\ TypeInv' /\ Idles
         /\ server[r].status = "in_progress" /\ server'[r].status = "ended"
         /\ \A q \in Runs \ {r} : server'[q] = server[q]
         /\ \A s \in dir[r].asks : server'[r].out[s] # "none"
<1>1. /\ TypeOK /\ server[r].status = "in_progress"
      /\ UNCHANGED <<dir, recipes, held, disk, lock, work, faults>>
      /\ server \in [Runs -> Batches] /\ dir \in [Runs -> Dirs] /\ dir[r].asks \in SUBSET Source
  BY DEF ProviderStep, BatchEnds, TypeInv, TypeOK, RunnerTypeOK, Dirs
<1>2. PICK out \in [dir[r].asks -> Verdicts] :
        server' = [server EXCEPT ![r] =
          [status |-> "ended",
           out |-> [s \in Source |-> IF s \in dir[r].asks THEN out[s] ELSE "none"]]]
  BY DEF ProviderStep, BatchEnds
<1> DEFINE all == [s \in Source |-> IF s \in dir[r].asks THEN out[s] ELSE "none"]
           batch == [status |-> "ended", out |-> all]
<1>3. all \in [Source -> Verdicts \cup {"none"}] /\ \A s \in dir[r].asks : all[s] # "none"
  <2>1. \A s \in dir[r].asks : out[s] \in Verdicts /\ s \in Source
    BY <1>1
  <2> QED  BY <2>1 DEF Verdicts
<1> HIDE DEF all
<1>4. batch \in Batches /\ batch.status = "ended" /\ batch.out = all
  BY <1>3 DEF Batches, Statuses
<1>5. server' = [server EXCEPT ![r] = batch]
  BY <1>2 DEF all
<1> HIDE DEF batch
<1>6. /\ server' \in [Runs -> Batches] /\ server'[r] = batch
      /\ \A q \in Runs \ {r} : server'[q] = server[q]
  BY <1>1, <1>4, <1>5
<1>7. Turn' = Turn
  BY <1>1 DEF Turn
<1>8. TypeInv'
  <2>1. TypeOK'
    BY <1>1, <1>6 DEF TypeOK, RunnerTypeOK
  <2>2. LockHeld'
    BY <1>1 DEF LockHeld, TypeInv
  <2>3. \A q \in Runs : Sent(q) => Sent(q)'
    BY <1>4, <1>6 DEF Sent
  <2>4. Shape'
    BY <1>1, <1>7, <2>3 DEF Shape, TypeInv
  <2> QED  BY <2>1, <2>2, <2>4 DEF TypeInv
<1> QED  BY <1>1, <1>3, <1>4, <1>6, <1>7, <1>8 DEF Idles

LEMMA LoadMove ==
  ASSUME TypeInv, NEW r \in Runs, LoadStep(r)
  PROVE  TypeInv' /\ Idles /\ UNCHANGED server
<1>1. /\ TypeOK /\ UNCHANGED <<dir, server, disk, lock, work, faults>>
      /\ recipes' = recipes \cup dir[r].ready /\ held' = held \cup InState(r, "unresolved")
      /\ dir[r].ready \in SUBSET Source /\ dir[r].asks \in SUBSET Source
  BY DEF LoadStep, Load, TypeInv, TypeOK, RunnerTypeOK, Dirs
<1>2. InState(r, "unresolved") \in SUBSET Source
  BY <1>1 DEF InState
<1>3. recipes' \subseteq Source /\ held' \subseteq Source
  BY <1>1, <1>2 DEF TypeOK, RunnerTypeOK
<1>4. Turn' = Turn
  BY <1>1 DEF Turn
<1>5. TypeOK'
  BY <1>1, <1>3 DEF TypeOK, RunnerTypeOK
<1>6. LockHeld'
  BY <1>1 DEF LockHeld, TypeInv
<1>7. Shape'
  BY <1>1, <1>4 DEF Shape, TypeInv, Sent
<1> QED  BY <1>1, <1>4, <1>5, <1>6, <1>7 DEF TypeInv, Idles

LEMMA NothingMoves ==
  ASSUME TypeInv, UNCHANGED vars
  PROVE  TypeInv' /\ Idles /\ UNCHANGED server
<1>1. UNCHANGED <<dir, server, recipes, held, disk, lock, work, faults>>
  BY DEF vars, runnerVars
<1>2. Turn' = Turn
  BY <1>1 DEF Turn
<1>3. TypeOK' /\ LockHeld'
  BY <1>1 DEF TypeInv, TypeOK, RunnerTypeOK, LockHeld
<1>4. Shape'
  BY <1>1, <1>2 DEF Shape, TypeInv, Sent
<1> QED  BY <1>1, <1>2, <1>3, <1>4 DEF TypeInv, Idles


-----------------------------------------------------------------------------
(* What a step may do.                                                     *)

Reconciles(r) ==
  /\ Visits("poll", r) /\ Calm(r)
  /\ dir'[r].stage \in {dir[r].stage, "submitted"}
  /\ Turn'.st.stop = Turn.st.stop /\ Turn'.st.completed = Turn.st.completed
  /\ Turn.st.jobs[r].ambiguous /\ Open(Turn'.st.jobs[r])
  /\ Keeps(Turn.st.jobs[r], Turn'.st.jobs[r])

Polls(r) ==
  /\ Visits("poll", r) /\ Calm(r)
  /\ dir'[r].stage \in {dir[r].stage, "submitted", "collected"}
  /\ Turn'.st.stop = Turn.st.stop
  /\ Turn.st.jobs[r].batch_id # "none"
  /\ Turn'.st.jobs[r].batch_id = Turn.st.jobs[r].batch_id
  /\ Turn'.st.jobs[r].ambiguous = Turn.st.jobs[r].ambiguous
  /\ Turn'.st.jobs[r].passed = Turn.st.jobs[r].passed
  /\ Turn'.st.jobs[r].retried = Turn.st.jobs[r].retried
  /\ \/ /\ Keeps(Turn.st.jobs[r], Turn'.st.jobs[r])
        /\ Turn'.st.completed = Turn.st.completed
        /\ dir'[r].stage \in {dir[r].stage, "submitted"}
     \/ Accounts(r)

LosesCollection(r) ==
  /\ Loses /\ Calm(r) /\ Turn.pc = "poll" /\ r \in Turn.todo
  /\ dir'[r].stage = "submitted" /\ Open(Turn.st.jobs[r])
  /\ "collected" \notin Turn.st.jobs[r].stages

\* A visit of the review loop that comes to no judgement.
Passes(r) ==
  /\ Visits("review", r)
  /\ Turn'.st.stop = Turn.st.stop /\ Turn'.st.completed = Turn.st.completed
  /\ \/ UNCHANGED dir /\ Turn'.st.jobs[r] = Turn.st.jobs[r]
     \/ /\ Files(r)
        /\ Turn'.st.jobs[r]
             = [Turn.st.jobs[r] EXCEPT !.stages = Turn.st.jobs[r].stages \cup {"finalized"}]

Reviews(r) ==
  /\ Visits("review", r) /\ Files(r) /\ Judges(r)
  /\ Turn'.st.completed = Turn.st.completed

MergesAll(r) ==
  /\ Visits("merge", r)
  /\ dir[r].stage = "finalized" /\ dir[r].parent \in Runs
  /\ IF r \in dir[dir[r].parent].merged THEN UNCHANGED dir ELSE MergeWrites(r, Merges)
  /\ Turn'.st.stop = Turn.st.stop /\ Turn'.st.completed = Turn.st.completed
  /\ Turn'.st.jobs[r]
       = [Turn.st.jobs[r] EXCEPT !.stages = Turn.st.jobs[r].stages \cup {"reconciled"}]

MergesSome(r) ==
  /\ Visits("merge", r)
  /\ UNCHANGED dir \/ \E k \in 0 .. Merges : MergeWrites(r, k)
  /\ Turn'.st.stop = Turn.st.stop /\ Turn'.st.completed = Turn.st.completed
  /\ Turn'.st.jobs[r] = Turn.st.jobs[r]

EndsPoll ==
  /\ Turn.todo = {}
  /\ Turns("poll", "review", Turn.st,
           {r \in Runs : /\ "collected" \in Turn.st.jobs[r].stages
                         /\ "reviewed" \notin Turn.st.jobs[r].stages}, NoRun)

EndsReview ==
  /\ Turn.todo = {}
  /\ Turns("review", "merge", Turn.st,
           {r \in Runs : /\ IsRetry(r)
                         /\ "reviewed" \in Turn.st.jobs[r].stages
                         /\ "reconciled" \notin Turn.st.jobs[r].stages}, NoRun)

Begins ==
  \/ Turns("idle", "poll", disk, Occupied(disk), NoRun)
  \/ Turns("idle", "write", SetStop(disk, "version-change"), {}, NoRun)

EndsRefill == RefillTurn /\ Turns("merge", "write", Turn.st, {}, NoRun)

Takes(r) ==
  /\ RefillTurn /\ MayRefill(Turn.st) /\ UNCHANGED <<dir, server, disk>>
  /\ Contains(Turn.st.queue, r) /\ Chooses(Turn.st, r, MaxCost(r))

Refuses(p) ==
  /\ RefillTurn /\ p \in Retriable(Turn.st) /\ dir[p].stage # "finalized"
  /\ Turns("merge", "write", [Turn.st EXCEPT !.jobs[p].retried = TRUE], {}, NoRun)

Prepares(p, c) ==
  /\ RefillTurn /\ p \in Retriable(Turn.st) /\ dir[p].stage = "finalized"
  /\ MayRefill(Turn.st) /\ Turn.st.queue = << >> /\ UNCHANGED <<server, disk>>
  /\ dir[c].stage = "none" /\ dir' = RetryPrepared(p, c)
  /\ Chooses([Turn.st EXCEPT !.jobs[p].retried = TRUE], c, Cardinality(Eligible(p)))

Ends(r) ==
  /\ Idles
  /\ server[r].status = "in_progress" /\ server'[r].status = "ended"
  /\ \A q \in Runs \ {r} : server'[q] = server[q]
  /\ \A s \in dir[r].asks : server'[r].out[s] # "none"

\* The provider, the load and everybody else leave the turn as it is.
Rests == Idles /\ UNCHANGED server

Moves ==
  \/ \E r \in Runs : \/ Reconciles(r) \/ Polls(r) \/ LosesCollection(r)
                     \/ Passes(r) \/ Reviews(r) \/ MergesAll(r) \/ MergesSome(r)
                     \/ Takes(r) \/ Submits(r) \/ Ends(r)
  \/ EndsPoll \/ EndsReview \/ Begins \/ EndsRefill
  \/ \E p \in Fresh : Refuses(p) \/ \E c \in Retries : Prepares(p, c)
  \/ Writes \/ Cuts \/ Rests

LEMMA StepMoves ==
  ASSUME TypeInv, [Next]_vars
  PROVE  TypeInv' /\ Moves
<1>1. ASSUME NEW w \in Workers, WorkerStep(w)
      PROVE  TypeInv' /\ Moves
  <2>1. CASE Begin(w)
    <3>1. TypeInv' /\ Begins
      BY <2>1, BeginMove DEF Begins
    <3> QED  BY <3>1 DEF Moves
  <2>2. ASSUME NEW r \in Runs, Reconcile(w, r)
        PROVE  TypeInv' /\ Moves
    <3>1. TypeInv' /\ Reconciles(r)
      BY <2>2, ReconcileMove DEF Reconciles
    <3> QED  BY <3>1 DEF Moves
  <2>3. ASSUME NEW r \in Runs, Poll(w, r)
        PROVE  TypeInv' /\ Moves
    <3>1. TypeInv' /\ Polls(r)
      BY <2>3, PollMove DEF Polls
    <3> QED  BY <3>1 DEF Moves
  <2>4. ASSUME NEW r \in Runs, CollectFails(w, r)
        PROVE  TypeInv' /\ Moves
    <3>1. TypeInv' /\ LosesCollection(r)
      BY <2>4, CollectFailsMove DEF LosesCollection
    <3> QED  BY <3>1 DEF Moves
  <2>5. ASSUME NEW r \in Runs, FinalizeFails(w, r) \/ ReviewFails(w, r)
        PROVE  TypeInv' /\ Moves
    <3>1. TypeInv' /\ Passes(r)
      BY <2>5, FinalizeFailsMove, ReviewFailsMove DEF Passes
    <3> QED  BY <3>1 DEF Moves
  <2>6. ASSUME NEW r \in Runs, Review(w, r)
        PROVE  TypeInv' /\ Moves
    <3>1. TypeInv' /\ Reviews(r)
      BY <2>6, ReviewMove DEF Reviews
    <3> QED  BY <3>1 DEF Moves
  <2>7. ASSUME NEW r \in Runs, Merge(w, r)
        PROVE  TypeInv' /\ Moves
    <3>1. TypeInv' /\ MergesAll(r)
      BY <2>7, MergeMove DEF MergesAll
    <3> QED  BY <3>1 DEF Moves
  <2>8. ASSUME NEW r \in Runs, MergeFails(w, r)
        PROVE  TypeInv' /\ Moves
    <3>1. TypeInv' /\ MergesSome(r)
      BY <2>8, MergeFailsMove DEF MergesSome
    <3> QED  BY <3>1 DEF Moves
  <2>9. CASE PollEnds(w)
    <3>1. TypeInv' /\ EndsPoll
      BY <2>9, PollEndsMove DEF EndsPoll
    <3> QED  BY <3>1 DEF Moves
  <2>10. CASE ReviewEnds(w)
    <3>1. TypeInv' /\ EndsReview
      BY <2>10, ReviewEndsMove DEF EndsReview
    <3> QED  BY <3>1 DEF Moves
  <2>11. CASE Take(w)
    <3>1. TypeInv' /\ \E r \in Runs : Takes(r)
      BY <2>11, TakeMove DEF Takes
    <3> QED  BY <3>1 DEF Moves
  <2>12. CASE RefillEnds(w)
    <3>1. TypeInv' /\ EndsRefill
      BY <2>12, RefillEndsMove DEF EndsRefill
    <3> QED  BY <3>1 DEF Moves
  <2>13. ASSUME NEW p \in Fresh, PrepareRetry(w, p)
         PROVE  TypeInv' /\ Moves
    <3>1. TypeInv' /\ \E c \in Retries : Prepares(p, c)
      BY <2>13, PrepareRetryMove DEF Prepares
    <3> QED  BY <3>1 DEF Moves
  <2>14. ASSUME NEW p \in Fresh, RetryRefused(w, p)
         PROVE  TypeInv' /\ Moves
    <3>1. TypeInv' /\ Refuses(p)
      BY <2>14, RetryRefusedMove DEF Refuses
    <3> QED  BY <3>1 DEF Moves
  <2>15. CASE Submitted(w) \/ Ambiguous(w)
    <3>1. TypeInv' /\ Submits(Turn.run)
      BY <2>15, SubmittedMove, AmbiguousMove
    <3>2. Turn.run \in Runs
      BY <3>1 DEF Submits
    <3> QED  BY <3>1, <3>2 DEF Moves
  <2>16. CASE Write(w)
    BY <2>16, WriteMove DEF Moves
  <2> QED  BY <1>1, <2>1, <2>2, <2>3, <2>4, <2>5, <2>6, <2>7, <2>8, <2>9, <2>10, <2>11,
              <2>12, <2>13, <2>14, <2>15, <2>16 DEF WorkerStep
<1>2. ASSUME NEW w \in Workers, Crash(w)
      PROVE  TypeInv' /\ Moves
  BY <1>2, CrashMove DEF Moves
<1>3. ASSUME NEW r \in Runs, ProviderStep(r)
      PROVE  TypeInv' /\ Moves
  <2>1. TypeInv' /\ Ends(r)
    BY <1>3, BatchEndsMove DEF Ends
  <2> QED  BY <2>1 DEF Moves
<1>4. ASSUME NEW r \in Loaded, LoadStep(r)
      PROVE  TypeInv' /\ Moves
  <2>1. r \in Runs
    BY SchedulerAssumption
  <2> QED  BY <1>4, <2>1, LoadMove DEF Moves, Rests
<1>5. CASE UNCHANGED vars
  BY <1>5, NothingMoves DEF Moves, Rests
<1> QED  BY <1>1, <1>2, <1>3, <1>4, <1>5 DEF Next

LEMMA StartsTyped ==
  ASSUME Init
  PROVE  TypeInv /\ Turn.pc = "idle" /\ Turn.st = disk /\ Turn.todo = {}
<1>1. PICK c \in Ceilings : disk = NewState(c)
  BY DEF Init
<1>2. disk \in States
  BY <1>1, NewStateTyped
<1>3. work \in [Workers -> Steps] /\ \A w \in Workers : work[w].pc = "idle"
  BY IdleTyped DEF Init, Idle
<1>4. RunnerTypeOK
  <2>1. Fresh \subseteq Runs /\ SourcesOf \in [Fresh -> SUBSET Source]
    BY RunnerAssumption DEF Runs
  <2>2. NoRecord \in Records
    BY DEF NoRecord, Records, RecordStates
  <2>3. ASSUME NEW asks \in SUBSET Source, NEW n \in Nat, NEW stage \in Stages
        PROVE  [Prepared(NoRun, asks, [s \in Source |-> n]) EXCEPT !.stage = stage] \in Dirs
               /\ Prepared(NoRun, asks, [s \in Source |-> n]) \in Dirs
    <3> DEFINE recs == [s \in Source |->
                          IF s \in asks
                          THEN [state |-> "awaiting_llm", verdict |-> "none", attempts |-> n]
                          ELSE NoRecord]
    <3>1. recs \in [Source -> Records]
      BY <2>2 DEF Records, RecordStates
    <3>2. Prepared(NoRun, asks, [s \in Source |-> n])
            = [ stage |-> "prepared", parent |-> NoRun, asks |-> asks, attempt |-> "none",
                batch |-> FALSE, recs |-> recs, ready |-> {}, merged |-> {} ]
      <4>1. \A s \in Source : [t \in Source |-> n][s] = n
        OBVIOUS
      <4> QED  BY <4>1 DEF Prepared
    <3> HIDE DEF recs
    <3> DEFINE d == Prepared(NoRun, asks, [s \in Source |-> n])
    <3> HIDE DEF d
    <3>3. d \in Dirs
      <4>1. [ stage |-> "prepared", parent |-> NoRun, asks |-> asks, attempt |-> "none",
              batch |-> FALSE, recs |-> recs, ready |-> {}, merged |-> {} ] \in Dirs
        BY <3>1 DEF Dirs, Stages
      <4> QED  BY <3>2, <4>1 DEF d
    <3>4. [d EXCEPT !.stage = stage] \in Dirs
      BY <3>3 DEF Dirs
    <3> QED  BY <3>3, <3>4 DEF d
  <2>4. NoDir \in Dirs
    BY <2>3 DEF NoDir, Stages
  <2>5. \A r \in Fresh : Prepared(NoRun, SourcesOf[r], [s \in Source |-> 1]) \in Dirs
    BY <2>1, <2>3 DEF Stages
  <2>6. dir \in [Runs -> Dirs]
    BY <2>4, <2>5 DEF Init, RunnerInit
  <2>7. server \in [Runs -> Batches]
    BY DEF Init, RunnerInit, NoBatch, Batches, Statuses
  <2> QED  BY <2>6, <2>7 DEF RunnerTypeOK, Init, RunnerInit
<1>5. TypeOK
  BY <1>2, <1>3, <1>4, Sets DEF TypeOK, Init
<1>6. LockHeld
  <2>1. \A w \in Workers : w # NoWorker
    BY Sets
  <2> QED  BY <1>3, <2>1 DEF LockHeld, Init
<1>7. Turn = [pc |-> "idle", st |-> disk, todo |-> {}, run |-> NoRun]
  BY DEF Turn, Init
<1>8. \A r \in Runs : ~ dir[r].batch
  BY DEF Init, RunnerInit, NoDir, Prepared
<1>9. Shape
  BY <1>7, <1>8 DEF Shape
<1> QED  BY <1>5, <1>6, <1>7, <1>9 DEF TypeInv

\* The pipeline keeps its types.
THEOREM TypeCorrect == Spec => []TypeOK
<1>1. Init => TypeInv
  BY StartsTyped
<1>2. TypeInv /\ [Next]_vars => TypeInv'
  BY StepMoves
<1>3. TypeInv => TypeOK
  BY DEF TypeInv
<1> QED  BY <1>1, <1>2, <1>3, PTL DEF Spec

-----------------------------------------------------------------------------
(* Nothing is sent past a failed review.                                   *)

ReviewsPassed(st) ==
  st.stop = "none" => \A r \in Runs : "reviewed" \in st.jobs[r].stages => st.jobs[r].passed

\* In a scope that was not stopped every review passed, on disk and in the
\* turn; and a submission is only prepared in such a scope.
StopInv ==
  /\ ReviewsPassed(disk) /\ ReviewsPassed(Turn.st)
  /\ Turn.pc = "submit" => Turn.st.stop = "none"

\* The job of one run changes, and its review with it.
LEMMA PassedVisit ==
  ASSUME TypeInv, NEW pc, NEW r \in Runs, Visits(pc, r), StopInv, pc # "submit",
         Turn'.st.stop = "none" => Turn.st.stop = "none",
         \/ "reviewed" \in Turn'.st.jobs[r].stages =>
              "reviewed" \in Turn.st.jobs[r].stages /\ Turn'.st.jobs[r].passed = Turn.st.jobs[r].passed
         \/ Turn'.st.stop = "none" => Turn'.st.jobs[r].passed
  PROVE  StopInv'
<1>1. ReviewsPassed(disk)'
  BY DEF StopInv, Visits, ReviewsPassed
<1>2. ReviewsPassed(Turn.st)'
  BY DEF StopInv, Visits, ReviewsPassed
<1>3. Turn'.pc # "submit"
  BY DEF Visits
<1> QED  BY <1>1, <1>2, <1>3 DEF StopInv

LEMMA ChoosesMoves ==
  ASSUME NEW st \in States, NEW r \in Runs, NEW max, Chooses(st, r, max)
  PROVE  /\ Turn'.st.jobs = st.jobs /\ Turn'.st.queue = st.queue
         /\ Turn'.st.completed = st.completed /\ Turn'.st.ceiling = st.ceiling
         /\ Turn'.st.stop = "none" => st.stop = "none"
         /\ Turn'.todo = {}
         /\ \/ Turn'.pc = "submit" /\ Turn'.st = st /\ Turn'.run = r /\ BudgetOk(st, max)
            \/ Turn'.pc = "write" /\ Turn'.run = NoRun /\ Turn'.st.stop # "none"
<1>1. "budget-exhausted" \in StopReasons
  BY DEF StopReasons
<1> DEFINE halted == SetStop(st, "budget-exhausted")
<1>2. /\ halted.jobs = st.jobs /\ halted.queue = st.queue
      /\ halted.completed = st.completed /\ halted.ceiling = st.ceiling
      /\ halted.stop # "none"
  BY <1>1, SetStopMoves
<1> HIDE DEF halted
<1> QED  BY <1>2 DEF Chooses, halted

LEMMA PassedStep ==
  ASSUME TypeInv, StopInv, Moves
  PROVE  StopInv'
<1>0. /\ Turn.st \in States /\ Turn.st.jobs \in [Runs -> Jobs]
      /\ disk \in States /\ disk.jobs \in [Runs -> Jobs] /\ Fresh \subseteq Runs /\ Retries \subseteq Runs
  BY TurnTyped DEF Runs
<1>1. ASSUME NEW r \in Runs, Reconciles(r) \/ Polls(r)
      PROVE  StopInv'
  <2>1. /\ Visits("poll", r) /\ Turn'.st.stop = Turn.st.stop
        /\ "reviewed" \in Turn'.st.jobs[r].stages =>
              "reviewed" \in Turn.st.jobs[r].stages /\ Turn'.st.jobs[r].passed = Turn.st.jobs[r].passed
    BY <1>1 DEF Reconciles, Polls, Keeps, Accounts
  <2> QED  BY <2>1, PassedVisit
<1>2. ASSUME NEW r \in Runs, Passes(r)
      PROVE  StopInv'
  <2>1. Turn.st.jobs[r] \in Jobs
    BY <1>0
  <2>2. /\ Visits("review", r) /\ Turn'.st.stop = Turn.st.stop
        /\ "reviewed" \in Turn'.st.jobs[r].stages =>
              "reviewed" \in Turn.st.jobs[r].stages /\ Turn'.st.jobs[r].passed = Turn.st.jobs[r].passed
    BY <1>2, <2>1 DEF Passes, Jobs
  <2> QED  BY <2>2, PassedVisit
<1>3. ASSUME NEW r \in Runs, Reviews(r)
      PROVE  StopInv'
  <2>1. /\ Visits("review", r)
        /\ Turn'.st.stop = "none" => Turn.st.stop = "none" /\ Turn'.st.jobs[r].passed
    BY <1>3 DEF Reviews, Judges
  <2> QED  BY <2>1, PassedVisit
<1>4. ASSUME NEW r \in Runs, MergesAll(r) \/ MergesSome(r)
      PROVE  StopInv'
  <2>1. Turn.st.jobs[r] \in Jobs
    BY <1>0
  <2>2. /\ Visits("merge", r) /\ Turn'.st.stop = Turn.st.stop
        /\ "reviewed" \in Turn'.st.jobs[r].stages =>
              "reviewed" \in Turn.st.jobs[r].stages /\ Turn'.st.jobs[r].passed = Turn.st.jobs[r].passed
    BY <1>4, <2>1 DEF MergesAll, MergesSome, Jobs
  <2> QED  BY <2>2, PassedVisit
<1>5. CASE Cuts \/ \E r \in Runs : LosesCollection(r)
  <2>1. disk' = disk /\ Turn'.st = disk /\ Turn'.pc = "idle"
    BY <1>5 DEF Cuts, LosesCollection, Loses
  <2> QED  BY <2>1 DEF StopInv, ReviewsPassed
<1>6. CASE EndsPoll \/ EndsReview \/ EndsRefill
  <2>1. disk' = disk /\ Turn'.st = Turn.st /\ Turn'.pc # "submit"
    BY <1>6 DEF EndsPoll, EndsReview, EndsRefill, Turns
  <2> QED  BY <2>1 DEF StopInv, ReviewsPassed
<1>7. CASE Begins
  <2>1. "version-change" \in StopReasons
    BY DEF StopReasons
  <2>2. SetStop(disk, "version-change").stop # "none"
    BY <1>0, <2>1, SetStopMoves
  <2>3. disk' = disk /\ Turn'.pc # "submit" /\ (Turn'.st = disk \/ Turn'.st.stop # "none")
    BY <1>7, <2>2 DEF Begins, Turns
  <2> QED  BY <2>3 DEF StopInv, ReviewsPassed
<1>8. ASSUME NEW st \in States, NEW r \in Runs, NEW max, Chooses(st, r, max), disk' = disk,
             st.stop = Turn.st.stop, MayRefill(Turn.st),
             \A q \in Runs : st.jobs[q].stages = Turn.st.jobs[q].stages
                             /\ st.jobs[q].passed = Turn.st.jobs[q].passed
      PROVE  StopInv'
  <2>1. Turn'.st.jobs = st.jobs /\ (Turn'.st.stop = "none" => st.stop = "none")
    BY <1>8, ChoosesMoves
  <2>2. Turn'.pc = "submit" => Turn'.st.stop = "none"
    BY <1>8, ChoosesMoves DEF MayRefill
  <2>3. ReviewsPassed(Turn.st)'
    BY <1>8, <2>1 DEF StopInv, ReviewsPassed
  <2>4. ReviewsPassed(disk)'
    BY <1>8 DEF StopInv, ReviewsPassed
  <2> QED  BY <2>2, <2>3, <2>4 DEF StopInv
<1>9. ASSUME NEW r \in Runs, Takes(r)
      PROVE  StopInv'
  <2>1. MayRefill(Turn.st) /\ disk' = disk /\ Chooses(Turn.st, r, MaxCost(r))
    BY <1>9 DEF Takes
  <2> QED  BY <1>0, <1>8, <2>1
<1>10. ASSUME NEW p \in Fresh
       PROVE  LET st == [Turn.st EXCEPT !.jobs[p].retried = TRUE]
              IN  /\ st \in States /\ st.stop = Turn.st.stop
                  /\ \A q \in Runs : st.jobs[q].stages = Turn.st.jobs[q].stages
                                     /\ st.jobs[q].passed = Turn.st.jobs[q].passed
  <2> DEFINE st == [Turn.st EXCEPT !.jobs[p].retried = TRUE]
             job == [Turn.st.jobs[p] EXCEPT !.retried = TRUE]
  <2>0. p \in Runs
    BY <1>0
  <2>1. st \in States /\ st.stop = Turn.st.stop /\ st.jobs = [Turn.st.jobs EXCEPT ![p] = job]
    BY <1>0, <2>0, RetriedMoves
  <2>2. Turn.st.jobs[p] \in Jobs
    BY <1>0, <2>0
  <2>3. job.stages = Turn.st.jobs[p].stages /\ job.passed = Turn.st.jobs[p].passed
    BY <2>2 DEF Jobs
  <2> HIDE DEF st, job
  <2>4. \A q \in Runs : st.jobs[q].stages = Turn.st.jobs[q].stages
                        /\ st.jobs[q].passed = Turn.st.jobs[q].passed
    BY <1>0, <2>1, <2>3
  <2> QED  BY <2>1, <2>4 DEF st
<1>11. ASSUME NEW p \in Fresh, Refuses(p)
       PROVE  StopInv'
  <2> DEFINE st == [Turn.st EXCEPT !.jobs[p].retried = TRUE]
  <2>1. /\ st.stop = Turn.st.stop
        /\ \A q \in Runs : st.jobs[q].stages = Turn.st.jobs[q].stages
                           /\ st.jobs[q].passed = Turn.st.jobs[q].passed
    BY <1>10
  <2>2. Turn'.st = st /\ Turn'.pc = "write" /\ disk' = disk
    BY <1>11 DEF Refuses, Turns
  <2> HIDE DEF st
  <2> QED  BY <2>1, <2>2 DEF StopInv, ReviewsPassed
<1>12. ASSUME NEW p \in Fresh, NEW c \in Retries, Prepares(p, c)
       PROVE  StopInv'
  <2> DEFINE st == [Turn.st EXCEPT !.jobs[p].retried = TRUE]
             max == Cardinality(Eligible(p))
  <2>1. /\ st \in States /\ st.stop = Turn.st.stop
        /\ \A q \in Runs : st.jobs[q].stages = Turn.st.jobs[q].stages
                           /\ st.jobs[q].passed = Turn.st.jobs[q].passed
    BY <1>10
  <2>2. Chooses(st, c, max) /\ disk' = disk /\ MayRefill(Turn.st) /\ c \in Runs
    BY <1>0, <1>12 DEF Prepares
  <2> HIDE DEF st, max
  <2> QED  BY <1>8, <2>1, <2>2
<1>13. ASSUME NEW r \in Runs, Submits(r)
       PROVE  StopInv'
  <2>1. PICK job \in Jobs :
          /\ \/ job.stages = {}
             \/ job.stages = Turn.st.jobs[r].stages /\ job.passed = Turn.st.jobs[r].passed
          /\ Turn'.st = WithJob(Turn.st, r, job) /\ Turn'.pc # "submit"
    BY <1>13 DEF Submits
  <2>2. Turn'.st.jobs = [Turn.st.jobs EXCEPT ![r] = job] /\ Turn'.st.stop = Turn.st.stop
    BY <1>0, <2>1, WithJobMoves
  <2>3. disk' = disk
    BY <1>13 DEF Submits
  <2>4. ReviewsPassed(Turn.st)'
    <3>1. Turn'.st.jobs[r] = job /\ \A q \in Runs \ {r} : Turn'.st.jobs[q] = Turn.st.jobs[q]
      BY <1>0, <2>2
    <3> QED  BY <2>1, <2>2, <3>1 DEF StopInv, ReviewsPassed
  <2> QED  BY <2>1, <2>3, <2>4 DEF StopInv, ReviewsPassed
<1>14. CASE Writes
  <2>1. disk' = Turn.st /\ Turn'.st = Turn.st /\ Turn'.pc = "idle"
    BY <1>14 DEF Writes
  <2> QED  BY <2>1 DEF StopInv, ReviewsPassed
<1>15. CASE Rests \/ \E r \in Runs : Ends(r)
  <2>1. disk' = disk /\ Turn' = Turn
    BY <1>15 DEF Rests, Ends, Idles
  <2> QED  BY <2>1 DEF StopInv, ReviewsPassed
<1> QED  BY <1>1, <1>2, <1>3, <1>4, <1>5, <1>6, <1>7, <1>9, <1>11, <1>12, <1>13, <1>14, <1>15
         DEF Moves

\* A batch is created by a submission.
LEMMA OnlySubmissionsSend ==
  ASSUME TypeInv, Moves, NEW r \in Runs, ~ Sent(r), Sent(r)'
  PROVE  Turn.pc = "submit" /\ Turn.run = r
<1>1. server' # server
  BY DEF Sent
<1>2. CASE \E q \in Runs : Ends(q)
  <2>1. PICK q \in Runs : Ends(q)
    BY <1>2
  <2> QED  BY <2>1 DEF Ends, Sent
<1>3. CASE \E q \in Runs : Submits(q)
  <2>1. PICK q \in Runs : Submits(q)
    BY <1>3
  <2>2. server' = Created(q) /\ Turn.pc = "submit" /\ Turn.run = q
    BY <1>1, <2>1 DEF Submits
  <2>3. \A v \in Runs \ {q} : server'[v] = server[v]
    BY <2>2, CreatedMoves DEF TypeInv
  <2> QED  BY <2>2, <2>3 DEF Sent
<1> QED  BY <1>1, <1>2, <1>3
         DEF Moves, Reconciles, Polls, LosesCollection, Loses, Passes, Reviews, MergesAll,
             MergesSome, Visits, EndsPoll, EndsReview, Begins, EndsRefill, Turns, Takes,
             Refuses, Prepares, Writes, Cuts, Rests

\* A batch is only ever created when every review so far has passed: a
\* finding stops the scope before the next submission.
THEOREM FailedReviewsStop == Spec => NothingSentPastFailedReview
<1>1. Init => TypeInv /\ StopInv
  <2> SUFFICES ASSUME Init PROVE TypeInv /\ StopInv
    OBVIOUS
  <2>1. TypeInv /\ Turn.pc = "idle" /\ Turn.st = disk
    BY StartsTyped
  <2>2. \A r \in Runs : disk.jobs[r].stages = {}
    BY DEF Init, NewState, NoJob
  <2> QED  BY <2>1, <2>2 DEF StopInv, ReviewsPassed
<1>2. TypeInv /\ StopInv /\ [Next]_vars => TypeInv' /\ StopInv'
  BY StepMoves, PassedStep
<1>3. TypeInv /\ StopInv /\ [Next]_vars =>
        [\A r \in Runs : ~Sent(r) /\ Sent(r)' =>
           \A q \in Runs : "reviewed" \in Current.jobs[q].stages => Current.jobs[q].passed]_vars
  <2> SUFFICES ASSUME TypeInv, StopInv, [Next]_vars, NEW r \in Runs, ~ Sent(r), Sent(r)',
                      NEW q \in Runs, "reviewed" \in Current.jobs[q].stages
               PROVE  Current.jobs[q].passed
    OBVIOUS
  <2>1. Moves
    BY StepMoves
  <2>2. Turn.pc = "submit"
    BY <2>1, OnlySubmissionsSend
  <2>3. Current = Turn.st
    BY TurnTyped
  <2> QED  BY <2>2, <2>3 DEF StopInv, ReviewsPassed
<1> QED  BY <1>1, <1>2, <1>3, PTL DEF Spec, NothingSentPastFailedReview

-----------------------------------------------------------------------------
(* Slots.  What the provider was sent has an open job in the turn, and, as *)
(* no crash loses a job that was just paid for, also on disk once the turn *)
(* is back in its loops.                                                   *)

Looping == Turn.pc \in {"poll", "review"} \/ (Turn.pc = "merge" /\ Turn.todo # {})

WithinSlots(st) == IsFiniteSet(Occupied(st)) /\ Cardinality(Occupied(st)) <= MaxInFlight

SlotInv ==
  /\ \A r \in Runs : Sent(r) => Open(Turn.st.jobs[r])
  /\ \A r \in Runs : Open(disk.jobs[r]) => Open(Turn.st.jobs[r])
  /\ Looping => \A r \in Runs : Open(Turn.st.jobs[r]) => Open(disk.jobs[r])
  /\ WithinSlots(disk) /\ WithinSlots(Turn.st)
  /\ Turn.pc = "submit" => Cardinality(Occupied(Turn.st)) < MaxInFlight

LEMMA FewerSlots ==
  ASSUME NEW st, NEW new, WithinSlots(st), Occupied(new) \subseteq Occupied(st)
  PROVE  WithinSlots(new) /\ Cardinality(Occupied(new)) <= Cardinality(Occupied(st))
<1>1. IsFiniteSet(Occupied(new)) /\ Cardinality(Occupied(new)) <= Cardinality(Occupied(st))
  BY FS_Subset DEF WithinSlots
<1>2. Cardinality(Occupied(new)) \in Nat /\ Cardinality(Occupied(st)) \in Nat
  BY <1>1, FS_CardinalityType DEF WithinSlots
<1> QED  BY <1>1, <1>2, Sets DEF WithinSlots

\* The turn goes on with the same open jobs.
LEMMA SlotsKept ==
  ASSUME TypeInv, SlotInv, disk' = disk, \A r \in Runs : Sent(r)' => Sent(r),
         \A r \in Runs : Open(Turn'.st.jobs[r]) <=> Open(Turn.st.jobs[r]),
         Occupied(Turn'.st) \subseteq Occupied(Turn.st),
         Looping' => Looping \/ Turn.st = disk,
         Turn'.pc = "submit" =>
           Turn.pc = "submit" \/ Cardinality(Occupied(Turn.st)) < MaxInFlight
  PROVE  SlotInv'
<1>1. WithinSlots(Turn'.st) /\ Cardinality(Occupied(Turn'.st)) <= Cardinality(Occupied(Turn.st))
  BY FewerSlots DEF SlotInv
<1>2. Cardinality(Occupied(Turn'.st)) \in Nat /\ Cardinality(Occupied(Turn.st)) \in Nat
  BY <1>1, FS_CardinalityType DEF SlotInv, WithinSlots
<1>3. Turn'.pc = "submit" => Cardinality(Occupied(Turn'.st)) < MaxInFlight
  BY <1>1, <1>2, Sets DEF SlotInv
<1>4. \A r \in Runs : (Sent(r)' => Open(Turn'.st.jobs[r]))
                      /\ (Open(disk'.jobs[r]) => Open(Turn'.st.jobs[r]))
  BY DEF SlotInv
<1>5. Looping' => \A r \in Runs : Open(Turn'.st.jobs[r]) => Open(disk'.jobs[r])
  BY DEF SlotInv
<1>6. WithinSlots(disk')
  BY DEF SlotInv
<1>7. (Cardinality(Occupied(Turn.st)))' = Cardinality(Occupied(Turn'.st))
      /\ WithinSlots(Turn.st)' = WithinSlots(Turn'.st) /\ WithinSlots(disk)' = WithinSlots(disk')
      /\ \A r \in Runs : Open(Turn.st.jobs[r])' = Open(Turn'.st.jobs[r])
                         /\ Open(disk.jobs[r])' = Open(disk'.jobs[r])
  BY DEF WithinSlots, Occupied, Holds, Open
<1> QED  BY <1>1, <1>3, <1>4, <1>5, <1>6, <1>7 DEF SlotInv

LEMMA SlotsVisit ==
  ASSUME TypeInv, SlotInv, NEW pc \in {"poll", "review", "merge"}, NEW r \in Runs, Visits(pc, r),
         Open(Turn'.st.jobs[r]) <=> Open(Turn.st.jobs[r]),
         Turn.st.jobs[r].stages \subseteq Turn'.st.jobs[r].stages
  PROVE  SlotInv'
<1>1. \A q \in Runs : Open(Turn'.st.jobs[q]) <=> Open(Turn.st.jobs[q])
  BY DEF Visits
<1>2. Occupied(Turn'.st) \subseteq Occupied(Turn.st)
  BY <1>1 DEF Visits, Occupied, Holds
<1>3. Looping' => Looping
  BY DEF Looping, Visits
<1>4. disk' = disk /\ Turn'.pc # "submit" /\ \A q \in Runs : Sent(q)' = Sent(q)
  BY DEF Visits, Sent
<1> QED  BY <1>1, <1>2, <1>3, <1>4, SlotsKept

\* cmd_retry is remembered in the job of the parent, and nothing else.
LEMMA RetriedKeeps ==
  ASSUME TypeInv, NEW p \in Fresh
  PROVE  LET st == [Turn.st EXCEPT !.jobs[p].retried = TRUE]
         IN  /\ st \in States /\ st.stop = Turn.st.stop /\ st.queue = Turn.st.queue
             /\ st.completed = Turn.st.completed /\ st.ceiling = Turn.st.ceiling
             /\ \A q \in Runs \ {p} : st.jobs[q] = Turn.st.jobs[q]
             /\ st.jobs[p] = [Turn.st.jobs[p] EXCEPT !.retried = TRUE]
             /\ \A q \in Runs : /\ st.jobs[q].stages = Turn.st.jobs[q].stages
                                /\ st.jobs[q].passed = Turn.st.jobs[q].passed
                                /\ st.jobs[q].reserved = Turn.st.jobs[q].reserved
                                /\ Open(st.jobs[q]) <=> Open(Turn.st.jobs[q])
<1> DEFINE st == [Turn.st EXCEPT !.jobs[p].retried = TRUE]
           job == [Turn.st.jobs[p] EXCEPT !.retried = TRUE]
<1>0. p \in Runs /\ Turn.st \in States /\ Turn.st.jobs \in [Runs -> Jobs]
  BY TurnTyped DEF Runs
<1>1. /\ st \in States /\ st.stop = Turn.st.stop /\ st.queue = Turn.st.queue
      /\ st.completed = Turn.st.completed /\ st.ceiling = Turn.st.ceiling
      /\ st.jobs = [Turn.st.jobs EXCEPT ![p] = job]
  BY <1>0, RetriedMoves
<1>2. Turn.st.jobs[p] \in Jobs
  BY <1>0
<1>3. /\ job.stages = Turn.st.jobs[p].stages /\ job.passed = Turn.st.jobs[p].passed
      /\ job.reserved = Turn.st.jobs[p].reserved
      /\ job.batch_id = Turn.st.jobs[p].batch_id /\ job.ambiguous = Turn.st.jobs[p].ambiguous
  BY <1>2 DEF Jobs
<1> HIDE DEF st, job
<1>4. st.jobs[p] = job /\ \A q \in Runs \ {p} : st.jobs[q] = Turn.st.jobs[q]
  BY <1>0, <1>1
<1>5. \A q \in Runs : /\ st.jobs[q].stages = Turn.st.jobs[q].stages
                      /\ st.jobs[q].passed = Turn.st.jobs[q].passed
                      /\ st.jobs[q].reserved = Turn.st.jobs[q].reserved
                      /\ Open(st.jobs[q]) <=> Open(Turn.st.jobs[q])
  BY <1>3, <1>4 DEF Open
<1> QED  BY <1>1, <1>4, <1>5 DEF st, job

LEMMA SlotStep ==
  ASSUME TypeInv, SlotInv, "crash_unsaved" \notin Faults, Moves
  PROVE  SlotInv'
<1>0. /\ Turn.st \in States /\ Turn.st.jobs \in [Runs -> Jobs]
      /\ disk \in States /\ disk.jobs \in [Runs -> Jobs] /\ Fresh \subseteq Runs /\ Retries \subseteq Runs
  BY TurnTyped DEF Runs
<1>1. ASSUME NEW r \in Runs, Reconciles(r) \/ Polls(r)
      PROVE  SlotInv'
  <2>1. Visits("poll", r) /\ (Open(Turn'.st.jobs[r]) <=> Open(Turn.st.jobs[r]))
    BY <1>1 DEF Reconciles, Polls, Open
  <2>2. Turn.st.jobs[r].stages \subseteq Turn'.st.jobs[r].stages
    BY <1>1 DEF Reconciles, Polls, Keeps, Accounts
  <2> QED  BY <2>1, <2>2, SlotsVisit
<1>2. ASSUME NEW r \in Runs, Passes(r) \/ Reviews(r) \/ MergesAll(r) \/ MergesSome(r)
      PROVE  SlotInv'
  <2>1. PICK pc \in {"review", "merge"} : Visits(pc, r)
    BY <1>2 DEF Passes, Reviews, MergesAll, MergesSome
  <2>2. Turn.st.jobs[r] \in Jobs
    BY <1>0
  <2>3. Open(Turn'.st.jobs[r]) <=> Open(Turn.st.jobs[r])
    BY <1>2, <2>2 DEF Passes, Reviews, Judges, MergesAll, MergesSome, Open, Jobs
  <2>4. Turn.st.jobs[r].stages \subseteq Turn'.st.jobs[r].stages
    BY <1>2, <2>2 DEF Passes, Reviews, Judges, MergesAll, MergesSome, Jobs
  <2> QED  BY <2>1, <2>3, <2>4, SlotsVisit
<1>3. CASE Cuts \/ \E r \in Runs : LosesCollection(r)
  <2>1. disk' = disk /\ Turn'.st = disk /\ Turn'.pc = "idle" /\ server' = server
    BY <1>3 DEF Cuts, LosesCollection, Loses
  <2>2. \A r \in Runs : Open(Turn.st.jobs[r]) => Open(disk.jobs[r])
    BY <1>3 DEF Cuts, LosesCollection, SlotInv, Looping
  <2> QED  BY <2>1, <2>2 DEF SlotInv, Looping, Sent
<1>4. CASE EndsPoll \/ EndsReview \/ EndsRefill
  <2>1. disk' = disk /\ Turn'.st = Turn.st /\ Turn'.pc # "submit" /\ server' = server
    BY <1>4 DEF EndsPoll, EndsReview, EndsRefill, Turns
  <2>2. Looping' => Looping
    BY <1>4 DEF EndsPoll, EndsReview, EndsRefill, Turns, Looping
  <2> QED  BY <2>1, <2>2, SlotsKept DEF Sent
<1>5. CASE Begins
  <2>1. "version-change" \in StopReasons
    BY DEF StopReasons
  <2>2. SetStop(disk, "version-change").jobs = disk.jobs
    BY <1>0, <2>1, SetStopMoves
  <2>3. Turn.pc = "idle" /\ disk' = disk /\ Turn'.pc # "submit" /\ Turn'.st.jobs = disk.jobs
        /\ server' = server
    BY <1>5, <2>2 DEF Begins, Turns
  <2>4. Turn.st = disk
    BY <2>3, TurnTyped
  <2>5. Occupied(Turn'.st) \subseteq Occupied(Turn.st)
    BY <2>3, <2>4 DEF Occupied
  <2> QED  BY <2>3, <2>4, <2>5, SlotsKept DEF Sent
<1>6. ASSUME NEW st \in States, NEW r \in Runs, NEW max, Chooses(st, r, max), disk' = disk,
             server' = server, MayRefill(Turn.st),
             \A q \in Runs : st.jobs[q].stages = Turn.st.jobs[q].stages
                             /\ (Open(st.jobs[q]) <=> Open(Turn.st.jobs[q]))
      PROVE  SlotInv'
  <2>1. Turn'.st.jobs = st.jobs /\ Turn'.pc \in {"submit", "write"}
    BY <1>6, ChoosesMoves
  <2>2. Occupied(Turn'.st) \subseteq Occupied(Turn.st)
    BY <1>6, <2>1 DEF Occupied, Holds
  <2>3. Cardinality(Occupied(Turn.st)) < MaxInFlight /\ ~ Looping'
    BY <1>6, <2>1 DEF MayRefill, Looping
  <2>4. \A q \in Runs : (Open(Turn'.st.jobs[q]) <=> Open(Turn.st.jobs[q])) /\ Sent(q)' = Sent(q)
    BY <1>6, <2>1 DEF Sent
  <2> QED  BY <1>6, <2>2, <2>3, <2>4, SlotsKept
<1>7. ASSUME NEW r \in Runs, Takes(r)
      PROVE  SlotInv'
  <2>1. MayRefill(Turn.st) /\ disk' = disk /\ server' = server /\ Chooses(Turn.st, r, MaxCost(r))
    BY <1>7 DEF Takes
  <2> QED  BY <1>0, <1>6, <2>1
<1>8. ASSUME NEW p \in Fresh, Refuses(p)
      PROVE  SlotInv'
  <2> DEFINE st == [Turn.st EXCEPT !.jobs[p].retried = TRUE]
  <2>1. \A q \in Runs : st.jobs[q].stages = Turn.st.jobs[q].stages
                        /\ (Open(st.jobs[q]) <=> Open(Turn.st.jobs[q]))
    BY RetriedKeeps
  <2>2. Turn'.st = st /\ Turn'.pc = "write" /\ disk' = disk /\ server' = server
    BY <1>8 DEF Refuses, Turns
  <2> HIDE DEF st
  <2>3. Occupied(Turn'.st) \subseteq Occupied(Turn.st)
    BY <2>1, <2>2 DEF Occupied, Holds
  <2> QED  BY <2>1, <2>2, <2>3, SlotsKept DEF Sent, Looping
<1>9. ASSUME NEW p \in Fresh, NEW c \in Retries, Prepares(p, c)
      PROVE  SlotInv'
  <2> DEFINE st == [Turn.st EXCEPT !.jobs[p].retried = TRUE]
             max == Cardinality(Eligible(p))
  <2>1. /\ st \in States
        /\ \A q \in Runs : st.jobs[q].stages = Turn.st.jobs[q].stages
                           /\ (Open(st.jobs[q]) <=> Open(Turn.st.jobs[q]))
    BY RetriedKeeps
  <2>2. Chooses(st, c, max) /\ disk' = disk /\ server' = server /\ MayRefill(Turn.st) /\ c \in Runs
    BY <1>0, <1>9 DEF Prepares
  <2> HIDE DEF st, max
  <2> QED  BY <1>6, <2>1, <2>2
<1>10. ASSUME NEW r \in Runs, Submits(r)
       PROVE  SlotInv'
  <2>1. PICK job \in Jobs :
          /\ Open(job) /\ Turn'.st = WithJob(Turn.st, r, job) /\ Turn'.pc \in {"merge", "write"}
          /\ Turn'.todo = {}
    BY <1>10 DEF Submits
  <2>2. Turn'.st.jobs = [Turn.st.jobs EXCEPT ![r] = job]
    BY <1>0, <2>1, WithJobMoves
  <2>3. Turn'.st.jobs[r] = job /\ \A q \in Runs \ {r} : Turn'.st.jobs[q] = Turn.st.jobs[q]
    BY <1>0, <2>2
  <2>4. /\ disk' = disk /\ Turn.pc = "submit" /\ ~ Looping'
        /\ \A q \in Runs \ {r} : Sent(q)' = Sent(q)
    <3>1. disk' = disk /\ Turn.pc = "submit" /\ (UNCHANGED server \/ server' = Created(r))
      BY <1>10 DEF Submits
    <3>2. \A q \in Runs \ {r} : server'[q] = server[q]
      BY <3>1, CreatedMoves DEF TypeInv
    <3> QED  BY <2>1, <3>1, <3>2 DEF Sent, Looping
  <2>5. Occupied(Turn'.st) \subseteq Occupied(Turn.st) \cup {r}
    BY <2>3 DEF Occupied
  <2>6. WithinSlots(Turn'.st)
    <3> DEFINE old == Occupied(Turn.st)
    <3>1. IsFiniteSet(old) /\ Cardinality(old) < MaxInFlight
      BY <2>4 DEF SlotInv, WithinSlots
    <3> HIDE DEF old
    <3>2. IsFiniteSet(old \cup {r}) /\ Cardinality(old \cup {r}) \in Nat
          /\ Cardinality(old) \in Nat /\ Cardinality(old \cup {r}) <= Cardinality(old) + 1
      <4>1. IsFiniteSet(old \cup {r})
            /\ Cardinality(old \cup {r}) \in {Cardinality(old), Cardinality(old) + 1}
        BY <3>1, FS_AddElement
      <4>2. Cardinality(old) \in Nat
        BY <3>1, FS_CardinalityType
      <4> QED  BY <4>1, <4>2
    <3>3. IsFiniteSet(Occupied(Turn'.st)) /\ Cardinality(Occupied(Turn'.st)) <= Cardinality(old \cup {r})
      BY <2>5, <3>2, FS_Subset DEF old
    <3>4. Cardinality(Occupied(Turn'.st)) \in Nat
      BY <3>3, FS_CardinalityType
    <3> QED  BY <3>1, <3>2, <3>3, <3>4, Sets DEF WithinSlots
  <2>7. \A q \in Runs : (Sent(q)' => Open(Turn'.st.jobs[q]))
                        /\ (Open(disk'.jobs[q]) => Open(Turn'.st.jobs[q]))
    BY <2>1, <2>3, <2>4 DEF SlotInv
  <2>8. WithinSlots(disk') /\ Turn'.pc # "submit"
    BY <2>1, <2>4 DEF SlotInv
  <2>9. WithinSlots(Turn.st)' = WithinSlots(Turn'.st) /\ WithinSlots(disk)' = WithinSlots(disk')
        /\ \A q \in Runs : Open(Turn.st.jobs[q])' = Open(Turn'.st.jobs[q])
                           /\ Open(disk.jobs[q])' = Open(disk'.jobs[q])
    BY DEF WithinSlots, Occupied, Holds, Open
  <2> QED  BY <2>4, <2>6, <2>7, <2>8, <2>9 DEF SlotInv
<1>11. CASE Writes
  <2>1. disk' = Turn.st /\ Turn'.st = Turn.st /\ Turn'.pc = "idle" /\ server' = server
    BY <1>11 DEF Writes
  <2> QED  BY <2>1 DEF SlotInv, Looping, Sent
<1>12. CASE Rests \/ \E r \in Runs : Ends(r)
  <2>1. disk' = disk /\ Turn' = Turn
    BY <1>12 DEF Rests, Ends, Idles
  <2>2. \A r \in Runs : Sent(r)' => Sent(r)
    BY <1>12 DEF Rests, Ends, Idles, Sent
  <2> QED  BY <2>1, <2>2, SlotsKept DEF Looping
<1> QED  BY <1>1, <1>2, <1>3, <1>4, <1>5, <1>7, <1>8, <1>9, <1>10, <1>11, <1>12 DEF Moves

LEMMA SlotStart ==
  ASSUME Init
  PROVE  SlotInv
<1>1. TypeInv /\ Turn.pc = "idle" /\ Turn.st = disk
  BY StartsTyped
<1>2. \A r \in Runs : ~ Open(disk.jobs[r]) /\ ~ Sent(r)
  BY DEF Init, NewState, NoJob, Open, RunnerInit, NoBatch, Sent
<1>3. Occupied(disk) = {}
  BY <1>2 DEF Occupied, Holds
<1>4. WithinSlots(disk)
  BY <1>3, FS_EmptySet, Sets DEF WithinSlots
<1> QED  BY <1>1, <1>2, <1>4 DEF SlotInv

\* Every batch at the provider has a job that holds a slot until it is
\* reviewed, and there are never more than MAX_IN_FLIGHT of them: whatever
\* fails, as long as no worker is cut off between a submission and the write
\* of the state.
THEOREM SlotsCoverProvider ==
  ASSUME "crash_unsaved" \notin Faults
  PROVE  Spec => []SlotsAtProvider
<1>1. Init => TypeInv /\ SlotInv
  BY StartsTyped, SlotStart
<1>2. TypeInv /\ SlotInv /\ [Next]_vars => TypeInv' /\ SlotInv'
  BY StepMoves, SlotStep
<1>3. TypeInv /\ SlotInv => SlotsAtProvider
  <2> SUFFICES ASSUME TypeInv, SlotInv PROVE SlotsAtProvider
    OBVIOUS
  <2>1. Current = Turn.st
    BY TurnTyped
  <2>2. Unreviewed \subseteq Occupied(Current)
    BY <2>1 DEF SlotInv, Unreviewed, Occupied, Holds
  <2> QED  BY <2>1, <2>2 DEF SlotInv, WithinSlots, SlotsAtProvider
<1> QED  BY <1>1, <1>2, <1>3, PTL DEF Spec

-----------------------------------------------------------------------------
(* Money.  A state is balanced against what the runs cost and what the     *)
(* provider has done: both only grow.                                      *)

World == [ cost   |-> [r \in Runs |-> MaxCost(r)],
           charge |-> [r \in Runs |-> ActualCost(r)],
           ended  |-> {r \in Runs : server[r].status = "ended"},
           known  |-> {r \in Runs : dir[r].stage # "none"} ]

Worlds == { v \in [ cost : [Runs -> Nat], charge : [Runs -> Nat],
                    ended : SUBSET Runs, known : SUBSET Runs ] :
              \A r \in Runs : v.charge[r] <= v.cost[r] }

Grows(v, u) ==
  /\ v.known \subseteq u.known /\ v.ended \subseteq u.ended
  /\ \A r \in v.known : u.cost[r] = v.cost[r]
  /\ \A r \in v.known \cap v.ended : u.charge[r] = v.charge[r]

\* What is collected is accounted, what is not is reserved in full, and a
\* job that was never submitted says nothing.
JobOk(r, job, v) ==
  /\ "collected" \in job.stages => r \in v.ended /\ job.reserved = 0 /\ Open(job)
  /\ "reviewed" \in job.stages => "collected" \in job.stages
  /\ Open(job) /\ "collected" \notin job.stages => job.reserved = v.cost[r]
  /\ ~ Open(job) \/ r \notin v.known => job = NoJob

Paid(st, v) == [r \in Runs |-> IF "collected" \in st.jobs[r].stages THEN v.charge[r] ELSE 0]
Reserved(st) == [r \in Runs |-> IF "reviewed" \in st.jobs[r].stages THEN 0
                                ELSE st.jobs[r].reserved]

Books(st, v) ==
  /\ \A r \in Runs : JobOk(r, st.jobs[r], v)
  /\ \A q : Contains(st.queue, q) => q \in Fresh /\ st.jobs[q] = NoJob
  /\ st.completed = SumFunctionOnSet(Paid(st, v), Runs)
  /\ st.completed + SumFunctionOnSet(Reserved(st), Runs) <= st.ceiling

\* The review loop visits what was collected, the merge loop what was
\* reviewed; a run is only submitted when no copy of the state knows it.
MoneyInv ==
  /\ Turn.st.ceiling = disk.ceiling
  /\ Books(disk, World) /\ Books(Turn.st, World)
  /\ Turn.pc = "review" => \A r \in Turn.todo : "collected" \in Turn.st.jobs[r].stages
  /\ Turn.pc = "merge" => \A r \in Turn.todo : "reviewed" \in Turn.st.jobs[r].stages
  /\ Turn.pc = "submit" => /\ Turn.st.jobs[Turn.run] = NoJob
                           /\ Turn.run \in World.known
                           /\ BudgetOk(Turn.st, World.cost[Turn.run])
  /\ Fresh \subseteq World.known

LEMMA WorldTyped ==
  ASSUME TypeOK
  PROVE  World \in Worlds
<1>1. \A r \in Runs : MaxCost(r) \in Nat /\ ActualCost(r) \in Nat /\ ActualCost(r) <= MaxCost(r)
  BY CostTyped
<1> DEFINE cost == [r \in Runs |-> MaxCost(r)]
           charge == [r \in Runs |-> ActualCost(r)]
<1>2. cost \in [Runs -> Nat] /\ charge \in [Runs -> Nat] /\ \A r \in Runs : charge[r] <= cost[r]
  BY <1>1
<1>3. World = [cost |-> cost, charge |-> charge,
               ended |-> {r \in Runs : server[r].status = "ended"},
               known |-> {r \in Runs : dir[r].stage # "none"}]
  BY DEF World
<1> HIDE DEF cost, charge
<1> QED  BY <1>2, <1>3 DEF Worlds

LEMMA BalanceTyped ==
  ASSUME NEW v \in Worlds, NEW st \in States
  PROVE  /\ \A r \in Runs : Paid(st, v)[r] \in Int /\ Reserved(st)[r] \in Int
         /\ \A r \in Runs : st.jobs[r] \in Jobs
<1>1. st.jobs \in [Runs -> Jobs]
  BY DEF States
<1>2. \A r \in Runs : st.jobs[r] \in Jobs
  BY <1>1
<1>3. \A r \in Runs : st.jobs[r].reserved \in Int
  BY <1>2 DEF Jobs
<1>4. \A r \in Runs : v.charge[r] \in Int
  BY DEF Worlds
<1> QED  BY <1>2, <1>3, <1>4 DEF Paid, Reserved

LEMMA BooksGrow ==
  ASSUME NEW v \in Worlds, NEW u \in Worlds, Grows(v, u), NEW st \in States, Books(st, v)
  PROVE  Books(st, u)
<1>1. \A r \in Runs : JobOk(r, st.jobs[r], v)
  BY DEF Books
<1>2. ASSUME NEW r \in Runs
      PROVE  /\ JobOk(r, st.jobs[r], u)
             /\ "collected" \in st.jobs[r].stages => u.charge[r] = v.charge[r]
  <2>1. CASE r \in v.known
    BY <1>1, <2>1 DEF JobOk, Grows
  <2>2. CASE r \notin v.known
    <3>1. st.jobs[r] = NoJob
      BY <1>1, <2>2 DEF JobOk
    <3> QED  BY <3>1 DEF JobOk, NoJob, Open
  <2> QED  BY <2>1, <2>2
<1>3. Paid(st, u) = Paid(st, v)
  BY <1>2 DEF Paid
<1> QED  BY <1>2, <1>3 DEF Books

\* A change of a job that leaves the money alone.
LEMMA BooksVisit ==
  ASSUME NEW v \in Worlds, NEW st \in States, NEW new \in States, Books(st, v),
         NEW r \in Runs, \A q \in Runs \ {r} : new.jobs[q] = st.jobs[q],
         new.queue = st.queue, new.completed = st.completed, new.ceiling = st.ceiling,
         Open(st.jobs[r]), Open(new.jobs[r]), new.jobs[r].reserved = st.jobs[r].reserved,
         "collected" \in new.jobs[r].stages <=> "collected" \in st.jobs[r].stages,
         "reviewed" \in new.jobs[r].stages => "collected" \in new.jobs[r].stages
  PROVE  Books(new, v)
<1>1. \A q \in Runs : JobOk(q, st.jobs[q], v)
  BY DEF Books
<1>2. r \in v.known
  BY <1>1 DEF JobOk, NoJob, Open
<1>3. \A q \in Runs : JobOk(q, new.jobs[q], v)
  BY <1>1, <1>2 DEF JobOk
<1>4. Paid(new, v) = Paid(st, v)
  BY DEF Paid
<1>5. Reserved(new) = Reserved(st)
  BY <1>1 DEF Reserved, JobOk
<1>6. \A q : Contains(new.queue, q) => q \in Fresh /\ new.jobs[q] = NoJob
  <2>1. st.jobs[r] # NoJob
    BY DEF NoJob, Open
  <2> QED  BY <2>1 DEF Books, Runs
<1> QED  BY <1>3, <1>4, <1>5, <1>6 DEF Books

\* The reservation is released for what the collection shows was spent.
LEMMA BooksAccount ==
  ASSUME IsFiniteSet(Runs), NEW v \in Worlds, NEW st \in States, NEW new \in States, Books(st, v),
         NEW r \in Runs, \A q \in Runs \ {r} : new.jobs[q] = st.jobs[q],
         new.queue = st.queue, new.ceiling = st.ceiling,
         Open(st.jobs[r]), Open(new.jobs[r]), r \in v.ended,
         "collected" \notin st.jobs[r].stages,
         new.jobs[r].stages = st.jobs[r].stages \cup {"collected"},
         new.jobs[r].reserved = 0,
         new.completed = st.completed + v.charge[r]
  PROVE  Books(new, v)
<1>1. \A q \in Runs : JobOk(q, st.jobs[q], v)
  BY DEF Books
<1>2. r \in v.known
  BY <1>1 DEF JobOk, NoJob, Open
<1>3. \A q \in Runs : JobOk(q, new.jobs[q], v)
  BY <1>1, <1>2 DEF JobOk
<1>4. /\ \A q \in Runs : Paid(st, v)[q] \in Int /\ Paid(new, v)[q] \in Int
      /\ \A q \in Runs : Reserved(st)[q] \in Int /\ Reserved(new)[q] \in Int
  BY BalanceTyped
<1>5. /\ \A q \in Runs \ {r} : Paid(new, v)[q] = Paid(st, v)[q]
      /\ \A q \in Runs \ {r} : Reserved(new)[q] = Reserved(st)[q]
      /\ Paid(st, v)[r] = 0 /\ Paid(new, v)[r] = v.charge[r]
      /\ Reserved(st)[r] = v.cost[r] /\ Reserved(new)[r] = 0
  BY <1>1 DEF Paid, Reserved, JobOk
<1> DEFINE P(s) == SumFunctionOnSet(Paid(s, v), Runs)
           R(s) == SumFunctionOnSet(Reserved(s), Runs)
<1>6. P(new) = P(st) - Paid(st, v)[r] + Paid(new, v)[r] /\ P(st) \in Int /\ P(new) \in Int
  BY <1>4, <1>5, SumChange
<1>7. R(new) = R(st) - Reserved(st)[r] + Reserved(new)[r] /\ R(st) \in Int /\ R(new) \in Int
  BY <1>4, <1>5, SumChange
<1>8. st.completed = P(st) /\ st.completed + R(st) <= st.ceiling
  BY DEF Books
<1>9. st.completed \in Nat /\ st.ceiling \in Nat
  BY SchedulerAssumption DEF States
<1>10. v.charge[r] \in Nat /\ v.cost[r] \in Nat /\ v.charge[r] <= v.cost[r]
  BY DEF Worlds
<1>11. \A q : Contains(new.queue, q) => q \in Fresh /\ new.jobs[q] = NoJob
  <2>1. st.jobs[r] # NoJob
    BY DEF NoJob, Open
  <2> QED  BY <2>1 DEF Books, Runs
<1> HIDE DEF P, R
<1>12. new.completed = P(new)
  BY <1>5, <1>6, <1>8, <1>9, <1>10
<1>13. new.completed + R(new) <= new.ceiling
  BY <1>5, <1>6, <1>7, <1>8, <1>9, <1>10
<1> QED  BY <1>3, <1>11, <1>12, <1>13 DEF Books, P, R

\* A submission reserves what the budget has left room for.
LEMMA BooksSubmit ==
  ASSUME IsFiniteSet(Runs), NEW v \in Worlds, NEW st \in States, NEW new \in States, Books(st, v),
         NEW r \in Runs, \A q \in Runs \ {r} : new.jobs[q] = st.jobs[q],
         \A q : Contains(new.queue, q) => Contains(st.queue, q) /\ q # r,
         new.completed = st.completed, new.ceiling = st.ceiling,
         st.jobs[r] = NoJob, Open(new.jobs[r]), r \in v.known, new.jobs[r].stages = {},
         new.jobs[r].reserved = v.cost[r], BudgetOk(st, v.cost[r])
  PROVE  Books(new, v)
<1>1. \A q \in Runs : JobOk(q, st.jobs[q], v)
  BY DEF Books
<1>3. \A q \in Runs : JobOk(q, new.jobs[q], v)
  BY <1>1 DEF JobOk
<1>4. \A q \in Runs : Reserved(st)[q] \in Int /\ Reserved(new)[q] \in Int
  BY BalanceTyped
<1>5. /\ Paid(new, v) = Paid(st, v)
      /\ \A q \in Runs \ {r} : Reserved(new)[q] = Reserved(st)[q]
      /\ Reserved(st)[r] = 0 /\ Reserved(new)[r] = v.cost[r]
  BY DEF Paid, Reserved, NoJob
<1> DEFINE R(s) == SumFunctionOnSet(Reserved(s), Runs)
<1>7. R(new) = R(st) - Reserved(st)[r] + Reserved(new)[r] /\ R(st) \in Int /\ R(new) \in Int
  BY <1>4, <1>5, SumChange
<1>8. st.completed + R(st) + v.cost[r] <= st.ceiling
  BY DEF BudgetOk, ReservedTotal, Reserved
<1>9. st.completed \in Nat /\ st.ceiling \in Nat
  BY SchedulerAssumption DEF States
<1>10. v.cost[r] \in Nat
  BY DEF Worlds
<1>11. \A q : Contains(new.queue, q) => q \in Fresh /\ new.jobs[q] = NoJob
  BY DEF Books, Runs
<1> HIDE DEF R
<1>13. new.completed + R(new) <= new.ceiling
  BY <1>5, <1>7, <1>8, <1>9, <1>10
<1>14. new.completed = SumFunctionOnSet(Paid(new, v), Runs)
  BY <1>5 DEF Books
<1> QED  BY <1>3, <1>11, <1>13, <1>14 DEF Books, R

LEMMA NextTyped ==
  TypeInv' => /\ Turn'.st \in States /\ Turn'.st.jobs \in [Runs -> Jobs]
              /\ World' \in Worlds /\ disk' \in States /\ dir' \in [Runs -> Dirs]
<1>1. TypeInv => /\ Turn.st \in States /\ Turn.st.jobs \in [Runs -> Jobs]
                 /\ World \in Worlds /\ disk \in States /\ dir \in [Runs -> Dirs]
  BY TurnTyped, WorldTyped DEF TypeInv, TypeOK, RunnerTypeOK
<1>2. TypeInv' => (/\ Turn.st \in States /\ Turn.st.jobs \in [Runs -> Jobs]
                   /\ World \in Worlds /\ disk \in States /\ dir \in [Runs -> Dirs])'
  BY <1>1, PTL
<1> QED  BY <1>2

\* Which commands touch the files, and when.
DirMoves ==
  \/ UNCHANGED dir
  \/ \E q \in Runs : /\ Calm(q) /\ dir'[q].stage \in {dir[q].stage, "submitted", "collected"}
                     /\ Open(Turn.st.jobs[q]) \/ (Turn.pc = "submit" /\ Turn.run = q)
                     /\ \/ "collected" \notin Turn.st.jobs[q].stages
                        \/ dir'[q].stage \in {dir[q].stage, "submitted"}
  \/ \E q \in Runs : /\ dir' = Finalized(q) /\ Visits("review", q)
                     /\ "finalized" \notin Turn.st.jobs[q].stages
                     /\ "finalized" \in Turn'.st.jobs[q].stages
  \/ \E q \in Runs, k \in 0 .. Merges : MergeWrites(q, k) /\ Visits("merge", q)
  \/ \E p \in Fresh, c \in Retries : Prepares(p, c)

LEMMA StepDirMoves ==
  ASSUME TypeInv, Moves
  PROVE  DirMoves
<1>1. ASSUME NEW q \in Runs, Reconciles(q) \/ Polls(q) \/ LosesCollection(q) \/ Submits(q)
      PROVE  DirMoves
  <2>1. Calm(q) /\ dir'[q].stage \in {dir[q].stage, "submitted", "collected"}
    BY <1>1 DEF Reconciles, Polls, LosesCollection, Submits
  <2>2. Open(Turn.st.jobs[q]) \/ (Turn.pc = "submit" /\ Turn.run = q)
    BY <1>1 DEF Reconciles, Polls, LosesCollection, Submits, Open
  <2>3. "collected" \notin Turn.st.jobs[q].stages \/ dir'[q].stage \in {dir[q].stage, "submitted"}
    BY <1>1 DEF Reconciles, Polls, Accounts, LosesCollection, Submits
  <2> QED  BY <2>1, <2>2, <2>3 DEF DirMoves
<1>2. ASSUME NEW q \in Runs, Passes(q) \/ Reviews(q)
      PROVE  DirMoves
  <2>1. Turn.st.jobs[q] \in Jobs
    BY TurnTyped
  <2>2. UNCHANGED dir \/ (Files(q) /\ Visits("review", q) /\ "finalized" \in Turn'.st.jobs[q].stages)
    BY <1>2, <2>1 DEF Passes, Reviews, Judges, Jobs
  <2> QED  BY <2>2 DEF DirMoves, Files
<1>3. ASSUME NEW q \in Runs, MergesAll(q) \/ MergesSome(q)
      PROVE  DirMoves
  <2>1. 3 \in 0 .. Merges /\ Merges = 3
    BY DEF Merges
  <2>2. UNCHANGED dir \/ ((\E k \in 0 .. Merges : MergeWrites(q, k)) /\ Visits("merge", q))
    BY <1>3, <2>1 DEF MergesAll, MergesSome
  <2> QED  BY <2>2 DEF DirMoves
<1>4. ASSUME NEW q \in Runs, Takes(q) \/ Ends(q)
      PROVE  UNCHANGED dir
  BY <1>4 DEF Takes, Ends, Idles
<1>5. CASE EndsPoll \/ EndsReview \/ Begins \/ EndsRefill \/ Writes \/ Cuts \/ Rests
  <2>1. UNCHANGED dir
    BY <1>5 DEF EndsPoll, EndsReview, Begins, EndsRefill, Writes, Cuts, Rests, Turns, Idles
  <2> QED  BY <2>1 DEF DirMoves
<1>6. ASSUME NEW p \in Fresh, Refuses(p)
      PROVE  UNCHANGED dir
  BY <1>6 DEF Refuses, Turns
<1> QED  BY <1>1, <1>2, <1>3, <1>4, <1>5, <1>6 DEF Moves, DirMoves

\* The directory of a retry is written, and no other.
LEMMA PreparesMoves ==
  ASSUME TypeInv, NEW p \in Fresh, NEW c \in Retries, Prepares(p, c)
  PROVE  /\ p \in Runs /\ c \in Runs /\ p # c
         /\ \A q \in Runs \ {c} : dir'[q] = dir[q]
         /\ dir[c].stage = "none" /\ dir'[c].stage = "prepared"
         /\ dir'[c].parent = p /\ dir'[c].asks = Eligible(p)
         /\ \A s \in Eligible(p) :
              /\ dir'[c].recs[s].state = "awaiting_llm"
              /\ dir'[c].recs[s].verdict = "none"
              /\ dir'[c].recs[s].attempts = dir[p].recs[s].attempts + 1
         /\ dir'[c].ready = {} /\ dir'[c].merged = {}
<1>1. p \in Runs /\ c \in Runs /\ p # c
  BY RunnerAssumption DEF Runs
<1>2. TypeOK /\ dir' = RetryPrepared(p, c)
  BY DEF TypeInv, Prepares
<1>3. dir[c].stage = "none"
  BY DEF Prepares
<1>4. /\ dir' \in [Runs -> Dirs]
      /\ \A q \in Runs \ {c} : dir'[q] = dir[q]
      /\ dir'[c].parent = p /\ dir'[c].asks = Eligible(p)
      /\ dir'[c].batch = FALSE /\ dir'[c].stage = "prepared"
      /\ \A s \in Eligible(p) :
           /\ dir'[c].recs[s].state = "awaiting_llm"
           /\ dir'[c].recs[s].verdict = "none"
           /\ dir'[c].recs[s].attempts = dir[p].recs[s].attempts + 1
      /\ dir'[c].ready = {} /\ dir'[c].merged = {}
  <2>1. p \in Runs /\ c \in Runs
    BY <1>1
  <2> QED  BY <1>2, <2>1, RetryMoves
<1> QED  BY <1>1, <1>3, <1>4

\* What a run asks for is settled when its directory is written.
LEMMA DirectoriesStay ==
  ASSUME TypeInv, Moves, NEW r \in Runs, dir[r].stage # "none"
  PROVE  dir'[r].stage # "none" /\ dir'[r].asks = dir[r].asks /\ dir'[r].parent = dir[r].parent
<1>0. Fresh \subseteq Runs /\ Retries \subseteq Runs
  BY DEF Runs
<1> DEFINE Stays == /\ dir'[r].stage # "none" /\ dir'[r].asks = dir[r].asks
                    /\ dir'[r].parent = dir[r].parent
<1>1. ASSUME NEW q \in Runs, Calm(q), dir'[q].stage \in {dir[q].stage, "submitted", "collected"}
      PROVE  Stays
  BY <1>1 DEF Calm
<1>2. ASSUME NEW q \in Runs, dir' = Finalized(q)
      PROVE  Stays
  <2>1. /\ \A v \in Runs \ {q} : dir'[v] = dir[v]
        /\ dir'[q].asks = dir[q].asks /\ dir'[q].stage = "finalized"
        /\ dir'[q].parent = dir[q].parent
    BY <1>2, FinalizedMoves DEF TypeInv
  <2> QED  BY <2>1
<1>3. ASSUME NEW q \in Runs, NEW k \in 0 .. Merges, MergeWrites(q, k)
      PROVE  Stays
  <2> DEFINE p == dir[q].parent
  <2>1. p \in Runs /\ dir' = Merged(q, k)
    BY <1>3 DEF MergeWrites
  <2>2. /\ \A v \in Runs \ {p} : dir'[v] = dir[v]
        /\ dir'[p].asks = dir[p].asks /\ dir'[p].stage = dir[p].stage
        /\ dir'[p].parent = dir[p].parent
    BY <2>1, MergedMoves DEF TypeInv
  <2> QED  BY <2>2
<1>4. ASSUME NEW p \in Fresh, NEW c \in Retries, Prepares(p, c)
      PROVE  Stays
  <2>1. dir[c].stage = "none" /\ \A v \in Runs \ {c} : dir'[v] = dir[v]
    BY <1>4, PreparesMoves
  <2> QED  BY <2>1
<1>5. CASE UNCHANGED dir
  BY <1>5
<1>6. \/ UNCHANGED dir
      \/ \E q \in Runs : Calm(q) /\ dir'[q].stage \in {dir[q].stage, "submitted", "collected"}
      \/ \E q \in Runs : dir' = Finalized(q)
      \/ \E q \in Runs, k \in 0 .. Merges : MergeWrites(q, k)
      \/ \E p \in Fresh, c \in Retries : Prepares(p, c)
  BY StepDirMoves DEF DirMoves
<1> QED  BY <1>1, <1>2, <1>3, <1>4, <1>5, <1>6

\* What is submitted was never sent.
LEMMA SubmissionsAreNew ==
  ASSUME TypeInv, SlotInv, MoneyInv, Turn.pc = "submit"
  PROVE  /\ Turn.run \in Runs /\ ~ Sent(Turn.run)
         /\ Turn.st.jobs[Turn.run] = NoJob /\ disk.jobs[Turn.run] = NoJob
<1>1. Turn.run \in Runs
  BY DEF TypeInv, Shape
<1>2. Turn.st.jobs[Turn.run] = NoJob /\ ~ Open(NoJob)
  BY DEF MoneyInv, NoJob, Open
<1>3. ~ Sent(Turn.run) /\ ~ Open(disk.jobs[Turn.run])
  BY <1>1, <1>2 DEF SlotInv
<1>4. disk.jobs[Turn.run] = NoJob
  BY <1>1, <1>3 DEF MoneyInv, Books, JobOk
<1> QED  BY <1>1, <1>2, <1>3, <1>4

\* What a batch came to stays.
LEMMA BatchesStay ==
  ASSUME TypeInv, SlotInv, MoneyInv, Moves, NEW r \in Runs, server[r].status = "ended"
  PROVE  server'[r] = server[r]
<1>1. CASE \E q \in Runs : Ends(q)
  <2>1. PICK q \in Runs : Ends(q)
    BY <1>1
  <2> QED  BY <2>1 DEF Ends
<1>2. CASE \E q \in Runs : Submits(q)
  <2>1. PICK q \in Runs : Submits(q)
    BY <1>2
  <2>2. Turn.pc = "submit" /\ Turn.run = q /\ (UNCHANGED server \/ server' = Created(q))
    BY <2>1 DEF Submits
  <2>3. ~ Sent(q)
    BY <2>2, SubmissionsAreNew
  <2>4. server' = Created(q) => \A v \in Runs \ {q} : server'[v] = server[v]
    BY CreatedMoves DEF TypeInv
  <2> QED  BY <2>2, <2>3, <2>4 DEF Sent
<1> QED  BY <1>1, <1>2
         DEF Moves, Reconciles, Polls, LosesCollection, Loses, Passes, Reviews, MergesAll,
             MergesSome, Visits, EndsPoll, EndsReview, Begins, EndsRefill, Turns, Takes,
             Refuses, Prepares, Writes, Cuts, Rests

LEMMA WorldGrows ==
  ASSUME TypeInv, SlotInv, MoneyInv, Moves
  PROVE  Grows(World, World')
<1>1. \A r \in Runs : dir[r].stage # "none" =>
        /\ dir'[r].stage # "none" /\ dir'[r].asks = dir[r].asks
  BY DirectoriesStay
<1>2. \A r \in Runs : server[r].status = "ended" => server'[r] = server[r]
  BY BatchesStay
<1>3. World.known \subseteq World'.known /\ World.ended \subseteq World'.ended
  BY <1>1, <1>2 DEF World
<1>4. ASSUME NEW r \in World.known
      PROVE  World'.cost[r] = World.cost[r]
  BY <1>1, <1>4 DEF World, MaxCost
<1>5. ASSUME NEW r \in World.known \cap World.ended
      PROVE  World'.charge[r] = World.charge[r]
  BY <1>1, <1>2, <1>5 DEF World, ActualCost
<1> QED  BY <1>3, <1>4, <1>5 DEF Grows

LEMMA BooksSame ==
  ASSUME NEW v, NEW st, NEW new, Books(st, v), new.jobs = st.jobs, new.queue = st.queue,
         new.completed = st.completed, new.ceiling = st.ceiling
  PROVE  Books(new, v)
BY DEF Books, Paid, Reserved

\* The books of the turn after a visit, when they already account for it.
LEMMA MoneyVisit ==
  ASSUME TypeInv, TypeInv', MoneyInv, NEW pc \in {"poll", "review", "merge"}, NEW r \in Runs,
         Visits(pc, r), Grows(World, World'), Books(Turn'.st, World'),
         pc # "poll" => Turn.st.jobs[r].stages \subseteq Turn'.st.jobs[r].stages
  PROVE  MoneyInv'
<1>1. World \in Worlds /\ World' \in Worlds /\ disk \in States
  BY TurnTyped, WorldTyped, NextTyped DEF TypeInv
<1>2. disk' = disk /\ Turn'.st.ceiling = Turn.st.ceiling /\ Turn'.pc = pc /\ Turn.pc = pc
      /\ Turn'.todo = Turn.todo \ {r} /\ \A q \in Runs \ {r} : Turn'.st.jobs[q] = Turn.st.jobs[q]
  BY DEF Visits
<1>3. Books(disk, World')
  BY <1>1, BooksGrow DEF MoneyInv
<1>4. Fresh \subseteq World'.known
  BY DEF MoneyInv, Grows
<1>5. Turn.todo \subseteq Runs
  BY TurnTyped
<1>6. /\ Turn'.pc = "review" => \A q \in Turn'.todo : "collected" \in Turn'.st.jobs[q].stages
      /\ Turn'.pc = "merge" => \A q \in Turn'.todo : "reviewed" \in Turn'.st.jobs[q].stages
  BY <1>2, <1>5 DEF MoneyInv
<1> QED  BY <1>2, <1>3, <1>4, <1>6 DEF MoneyInv

\* The books of the turn after it left its loops.
LEMMA MoneyTurn ==
  ASSUME TypeInv, TypeInv', MoneyInv, Grows(World, World'), disk' = disk,
         Turn'.st.ceiling = disk.ceiling, Books(Turn'.st, World'),
         Turn'.pc \in {"review", "merge"} => Turn'.todo = {},
         Turn'.pc = "submit" => /\ Turn'.st.jobs[Turn'.run] = NoJob
                                /\ Turn'.run \in World'.known
                                /\ BudgetOk(Turn'.st, World'.cost[Turn'.run])
  PROVE  MoneyInv'
<1>1. World \in Worlds /\ World' \in Worlds /\ disk \in States
  BY TurnTyped, WorldTyped, NextTyped DEF TypeInv
<1>2. Books(disk', World')
  BY <1>1, BooksGrow DEF MoneyInv
<1>3. Fresh \subseteq World'.known
  BY DEF MoneyInv, Grows
<1> QED  BY <1>2, <1>3 DEF MoneyInv

LEMMA MoneyStep ==
  ASSUME IsFiniteSet(Runs), TypeInv, TypeInv', SlotInv, MoneyInv, Moves
  PROVE  MoneyInv'
<1>0. /\ Turn.st \in States /\ Turn.st.jobs \in [Runs -> Jobs] /\ Turn'.st \in States
      /\ disk \in States /\ Fresh \subseteq Runs /\ Retries \subseteq Runs
      /\ World \in Worlds /\ World' \in Worlds
  BY TurnTyped, WorldTyped, NextTyped DEF Runs, TypeInv
<1>1. Grows(World, World')
  BY WorldGrows
<1>2. Books(Turn.st, World') /\ Books(disk, World')
  BY <1>0, <1>1, BooksGrow DEF MoneyInv
<1>3. \A r \in Runs : JobOk(r, Turn.st.jobs[r], World)
  BY DEF MoneyInv, Books
<1>4. ASSUME NEW r \in Runs, Reconciles(r) \/ (Polls(r) /\ ~ Accounts(r))
      PROVE  MoneyInv'
  <2>1. /\ Visits("poll", r) /\ Keeps(Turn.st.jobs[r], Turn'.st.jobs[r])
        /\ Open(Turn.st.jobs[r]) /\ Open(Turn'.st.jobs[r])
        /\ Turn'.st.completed = Turn.st.completed
    BY <1>4 DEF Reconciles, Polls, Open
  <2>2. "reviewed" \in Turn'.st.jobs[r].stages => "collected" \in Turn'.st.jobs[r].stages
    BY <1>3, <2>1 DEF Keeps, JobOk
  <2>3. Books(Turn'.st, World')
    <3>1. /\ \A q \in Runs \ {r} : Turn'.st.jobs[q] = Turn.st.jobs[q]
          /\ Turn'.st.queue = Turn.st.queue /\ Turn'.st.ceiling = Turn.st.ceiling
          /\ Turn'.st.jobs[r].reserved = Turn.st.jobs[r].reserved
          /\ "collected" \in Turn'.st.jobs[r].stages <=> "collected" \in Turn.st.jobs[r].stages
      BY <2>1 DEF Visits, Keeps
    <3> QED  BY <1>0, <1>2, <2>1, <2>2, <3>1, BooksVisit
  <2> QED  BY <1>1, <2>1, <2>3, MoneyVisit
<1>5. ASSUME NEW r \in Runs, Polls(r), Accounts(r)
      PROVE  MoneyInv'
  <2>1. /\ Visits("poll", r) /\ Open(Turn.st.jobs[r]) /\ Open(Turn'.st.jobs[r])
    BY <1>5 DEF Polls, Open
  <2>2. r \in World.known /\ r \in World.ended
    BY <1>3, <1>5, <2>1 DEF JobOk, NoJob, Open, Accounts, World
  <2>3. r \in World'.ended /\ World'.charge[r] = ActualCost(r)
    BY <1>1, <2>2 DEF Grows, World
  <2>4. Books(Turn'.st, World')
    <3>1. /\ \A q \in Runs \ {r} : Turn'.st.jobs[q] = Turn.st.jobs[q]
          /\ Turn'.st.queue = Turn.st.queue /\ Turn'.st.ceiling = Turn.st.ceiling
          /\ "collected" \notin Turn.st.jobs[r].stages
          /\ Turn'.st.jobs[r].stages = Turn.st.jobs[r].stages \cup {"collected"}
          /\ Turn'.st.jobs[r].reserved = 0
          /\ Turn'.st.completed = Turn.st.completed + World'.charge[r]
      BY <1>5, <2>1, <2>3 DEF Visits, Accounts
    <3> QED  BY <1>0, <1>2, <2>1, <2>3, <3>1, BooksAccount
  <2> QED  BY <1>1, <2>1, <2>4, MoneyVisit
<1>6. ASSUME NEW r \in Runs, Passes(r) \/ Reviews(r) \/ MergesAll(r) \/ MergesSome(r)
      PROVE  MoneyInv'
  <2>1. PICK pc \in {"review", "merge"} : Visits(pc, r)
    BY <1>6 DEF Passes, Reviews, MergesAll, MergesSome
  <2>2. Turn.st.jobs[r] \in Jobs
    BY <1>0
  <2>3. /\ Turn'.st.completed = Turn.st.completed
        /\ Turn'.st.jobs[r].batch_id = Turn.st.jobs[r].batch_id
        /\ Turn'.st.jobs[r].ambiguous = Turn.st.jobs[r].ambiguous
        /\ Turn'.st.jobs[r].reserved = Turn.st.jobs[r].reserved
        /\ Turn.st.jobs[r].stages \subseteq Turn'.st.jobs[r].stages
        /\ "collected" \in Turn'.st.jobs[r].stages => "collected" \in Turn.st.jobs[r].stages
    BY <1>6, <2>2 DEF Passes, Reviews, Judges, MergesAll, MergesSome, Jobs
  <2>4. "collected" \in Turn.st.jobs[r].stages
    BY <1>3, <2>1 DEF MoneyInv, Visits, JobOk
  <2>5. Open(Turn.st.jobs[r]) /\ Open(Turn'.st.jobs[r])
    BY <1>3, <2>3, <2>4 DEF JobOk, Open
  <2>6. Books(Turn'.st, World')
    <3>1. /\ \A q \in Runs \ {r} : Turn'.st.jobs[q] = Turn.st.jobs[q]
          /\ Turn'.st.queue = Turn.st.queue /\ Turn'.st.ceiling = Turn.st.ceiling
          /\ "collected" \in Turn'.st.jobs[r].stages <=> "collected" \in Turn.st.jobs[r].stages
          /\ "reviewed" \in Turn'.st.jobs[r].stages => "collected" \in Turn'.st.jobs[r].stages
      BY <2>1, <2>3, <2>4 DEF Visits
    <3> QED  BY <1>0, <1>2, <2>3, <2>5, <3>1, BooksVisit
  <2> QED  BY <1>1, <2>1, <2>3, <2>6, MoneyVisit
<1>7. CASE Cuts \/ \E r \in Runs : LosesCollection(r)
  <2>1. disk' = disk /\ Turn'.st = disk /\ Turn'.pc = "idle"
    BY <1>7 DEF Cuts, LosesCollection, Loses
  <2> QED  BY <1>1, <1>2, <2>1, MoneyTurn
<1>8. CASE EndsPoll \/ EndsReview \/ EndsRefill
  <2>1. disk' = disk /\ Turn'.st = Turn.st /\ Turn'.pc # "submit"
    BY <1>8 DEF EndsPoll, EndsReview, EndsRefill, Turns
  <2>2. /\ Turn'.pc = "review" => \A q \in Turn'.todo : "collected" \in Turn'.st.jobs[q].stages
        /\ Turn'.pc = "merge" => \A q \in Turn'.todo : "reviewed" \in Turn'.st.jobs[q].stages
    BY <1>8 DEF EndsPoll, EndsReview, EndsRefill, Turns
  <2>3. Fresh \subseteq World'.known
    BY <1>1 DEF MoneyInv, Grows
  <2> QED  BY <1>2, <2>1, <2>2, <2>3 DEF MoneyInv
<1>9. CASE Begins
  <2>1. "version-change" \in StopReasons
    BY DEF StopReasons
  <2> DEFINE halted == SetStop(disk, "version-change")
  <2>2. /\ halted.jobs = disk.jobs /\ halted.queue = disk.queue
        /\ halted.completed = disk.completed /\ halted.ceiling = disk.ceiling
    BY <1>0, <2>1, SetStopMoves
  <2> HIDE DEF halted
  <2>3. /\ disk' = disk /\ Turn'.pc \in {"poll", "write"}
        /\ Turn'.st.jobs = disk.jobs /\ Turn'.st.queue = disk.queue
        /\ Turn'.st.completed = disk.completed /\ Turn'.st.ceiling = disk.ceiling
    BY <1>9, <2>2 DEF Begins, Turns, halted
  <2>4. Books(Turn'.st, World')
    BY <1>2, <2>3, BooksSame
  <2> QED  BY <1>1, <2>3, <2>4, MoneyTurn
<1>10. ASSUME NEW st \in States, NEW r \in Runs, NEW max, Chooses(st, r, max), disk' = disk,
              Books(st, World'), st.ceiling = disk.ceiling,
              st.jobs[r] = NoJob, r \in World'.known, max = World'.cost[r]
       PROVE  MoneyInv'
  <2>1. /\ Turn'.st.jobs = st.jobs /\ Turn'.st.queue = st.queue
        /\ Turn'.st.completed = st.completed /\ Turn'.st.ceiling = st.ceiling
        /\ Turn'.todo = {}
        /\ Turn'.pc = "submit" => Turn'.st = st /\ Turn'.run = r /\ BudgetOk(st, max)
    BY <1>10, ChoosesMoves
  <2>2. Books(Turn'.st, World')
    BY <1>10, <2>1, BooksSame
  <2>3. Turn'.pc = "submit" => /\ Turn'.st.jobs[Turn'.run] = NoJob
                               /\ Turn'.run \in World'.known
                               /\ BudgetOk(Turn'.st, World'.cost[Turn'.run])
    BY <1>10, <2>1
  <2> QED  BY <1>1, <1>10, <2>1, <2>2, <2>3, MoneyTurn
<1>11. ASSUME NEW r \in Runs, Takes(r)
       PROVE  MoneyInv'
  <2>1. Contains(Turn.st.queue, r) /\ disk' = disk /\ dir' = dir /\ Chooses(Turn.st, r, MaxCost(r))
    BY <1>11 DEF Takes
  <2>2. Turn.st.jobs[r] = NoJob /\ r \in World.known
    BY <2>1 DEF MoneyInv, Books
  <2>3. r \in World'.known /\ MaxCost(r) = World'.cost[r]
    BY <1>1, <2>2 DEF Grows, World
  <2> QED  BY <1>0, <1>2, <1>10, <2>1, <2>2, <2>3 DEF MoneyInv
<1>12. ASSUME NEW p \in Fresh, p \in Retriable(Turn.st)
       PROVE  LET st == [Turn.st EXCEPT !.jobs[p].retried = TRUE]
              IN  st \in States /\ Books(st, World') /\ st.ceiling = Turn.st.ceiling
                  /\ \A q \in Runs \ {p} : st.jobs[q] = Turn.st.jobs[q]
  <2> DEFINE st == [Turn.st EXCEPT !.jobs[p].retried = TRUE]
  <2>1. p \in Runs /\ "collected" \in Turn.st.jobs[p].stages /\ Open(Turn.st.jobs[p])
    BY <1>0, <1>3, <1>12 DEF Retriable, JobOk
  <2>2. /\ st \in States /\ st.queue = Turn.st.queue
        /\ st.completed = Turn.st.completed /\ st.ceiling = Turn.st.ceiling
        /\ \A q \in Runs \ {p} : st.jobs[q] = Turn.st.jobs[q]
        /\ \A q \in Runs : /\ st.jobs[q].stages = Turn.st.jobs[q].stages
                           /\ st.jobs[q].reserved = Turn.st.jobs[q].reserved
                           /\ Open(st.jobs[q]) <=> Open(Turn.st.jobs[q])
    BY RetriedKeeps
  <2> HIDE DEF st
  <2>3. /\ Open(st.jobs[p]) /\ st.jobs[p].reserved = Turn.st.jobs[p].reserved
        /\ "collected" \in st.jobs[p].stages <=> "collected" \in Turn.st.jobs[p].stages
        /\ "reviewed" \in st.jobs[p].stages => "collected" \in st.jobs[p].stages
    BY <2>1, <2>2
  <2>4. Books(st, World')
    BY <1>0, <1>2, <2>1, <2>2, <2>3, BooksVisit
  <2> QED  BY <2>2, <2>4 DEF st
<1>13. ASSUME NEW p \in Fresh, Refuses(p)
       PROVE  MoneyInv'
  <2> DEFINE st == [Turn.st EXCEPT !.jobs[p].retried = TRUE]
  <2>1. st \in States /\ Books(st, World') /\ st.ceiling = Turn.st.ceiling
    BY <1>12, <1>13 DEF Refuses
  <2>2. Turn'.st = st /\ Turn'.pc = "write" /\ disk' = disk
    BY <1>13 DEF Refuses, Turns
  <2> HIDE DEF st
  <2> QED  BY <1>1, <2>1, <2>2, MoneyTurn DEF MoneyInv
<1>14. ASSUME NEW p \in Fresh, NEW c \in Retries, Prepares(p, c)
       PROVE  MoneyInv'
  <2> DEFINE st == [Turn.st EXCEPT !.jobs[p].retried = TRUE]
             max == Cardinality(Eligible(p))
  <2>1. /\ p \in Retriable(Turn.st) /\ dir[c].stage = "none" /\ dir' = RetryPrepared(p, c)
        /\ Chooses(st, c, max) /\ disk' = disk /\ c \in Runs /\ p \in Runs
    BY <1>0, <1>14 DEF Prepares
  <2>2. /\ st \in States /\ Books(st, World') /\ st.ceiling = Turn.st.ceiling
        /\ \A q \in Runs \ {p} : st.jobs[q] = Turn.st.jobs[q]
    BY <1>12, <2>1
  <2> HIDE DEF st
  <2>3. c # p /\ Turn.st.jobs[c] = NoJob
    BY <1>3, <2>1, RunnerAssumption DEF JobOk, World
  <2>4. dir'[c].stage = "prepared" /\ dir'[c].asks = Eligible(p)
    BY <1>14, PreparesMoves
  <2>5. c \in World'.known /\ max = World'.cost[c]
    BY <2>1, <2>4 DEF World, MaxCost
  <2>6. st.jobs[c] = NoJob /\ st.ceiling = disk.ceiling
    BY <2>1, <2>2, <2>3 DEF MoneyInv
  <2> HIDE DEF max
  <2> QED  BY <1>10, <2>1, <2>2, <2>5, <2>6
<1>15. ASSUME NEW r \in Runs, Submits(r)
       PROVE  MoneyInv'
  <2>1. PICK job \in Jobs :
          /\ Open(job) /\ job.reserved = MaxCost(r)
          /\ job.stages = {} \/ job.stages = Turn.st.jobs[r].stages
          /\ Turn'.st = WithJob(Turn.st, r, job) /\ Turn'.pc \in {"merge", "write"}
          /\ Turn'.todo = {}
    BY <1>15 DEF Submits
  <2>2. Turn.pc = "submit" /\ Turn.run = r /\ disk' = disk
    BY <1>15 DEF Submits
  <2>3. /\ Turn.st.jobs[r] = NoJob /\ r \in World.known /\ BudgetOk(Turn.st, World.cost[r])
    BY <2>2 DEF MoneyInv
  <2>4. r \in World'.known /\ World'.cost[r] = World.cost[r] /\ World.cost[r] = MaxCost(r)
    BY <1>1, <2>3 DEF Grows, World
  <2>5. /\ Turn'.st.jobs = [Turn.st.jobs EXCEPT ![r] = job]
        /\ \A q : Contains(Turn'.st.queue, q) => Contains(Turn.st.queue, q) /\ q # r
        /\ Turn'.st.completed = Turn.st.completed /\ Turn'.st.ceiling = Turn.st.ceiling
    <3> DEFINE new == WithJob(Turn.st, r, job)
    <3>1. /\ new.jobs = [Turn.st.jobs EXCEPT ![r] = job]
          /\ \A q : Contains(new.queue, q) <=> Contains(Turn.st.queue, q) /\ q \in Runs \ {r}
          /\ new.completed = Turn.st.completed /\ new.ceiling = Turn.st.ceiling
      BY <1>0, WithJobMoves
    <3>2. Turn'.st = new
      BY <2>1
    <3> HIDE DEF new
    <3> QED  BY <3>1, <3>2
  <2>6. /\ \A q \in Runs \ {r} : Turn'.st.jobs[q] = Turn.st.jobs[q]
        /\ Open(Turn'.st.jobs[r]) /\ Turn'.st.jobs[r].stages = {}
        /\ Turn'.st.jobs[r].reserved = World'.cost[r] /\ BudgetOk(Turn.st, World'.cost[r])
    <3>1. Turn'.st.jobs[r] = job /\ \A q \in Runs \ {r} : Turn'.st.jobs[q] = Turn.st.jobs[q]
      BY <1>0, <2>5
    <3>2. job.stages = {}
      BY <2>1, <2>3 DEF NoJob
    <3> QED  BY <2>1, <2>3, <2>4, <3>1, <3>2
  <2>7. Books(Turn'.st, World')
    BY <1>0, <1>2, <2>3, <2>4, <2>5, <2>6, BooksSubmit
  <2> QED  BY <1>1, <2>1, <2>2, <2>5, <2>7, MoneyTurn DEF MoneyInv
<1>16. CASE Writes
  <2>1. disk' = Turn.st /\ Turn'.st = Turn.st /\ Turn'.pc = "idle"
    BY <1>16 DEF Writes
  <2>2. Fresh \subseteq World'.known
    BY <1>1 DEF MoneyInv, Grows
  <2> QED  BY <1>2, <2>1, <2>2 DEF MoneyInv
<1>17. CASE Rests \/ \E r \in Runs : Ends(r)
  <2>1. disk' = disk /\ Turn' = Turn
    BY <1>17 DEF Rests, Ends, Idles
  <2>2. Fresh \subseteq World'.known
    BY <1>1 DEF MoneyInv, Grows
  <2>3. Turn.pc = "submit" => Turn.run \in World'.known /\ World'.cost[Turn.run] = World.cost[Turn.run]
    BY <1>1 DEF MoneyInv, Grows
  <2> QED  BY <1>2, <2>1, <2>2, <2>3 DEF MoneyInv
<1> QED  BY <1>4, <1>5, <1>6, <1>7, <1>8, <1>9, <1>11, <1>13, <1>14, <1>15, <1>16, <1>17
         DEF Moves

LEMMA MoneyStart ==
  ASSUME IsFiniteSet(Runs), Init
  PROVE  MoneyInv
<1>1. TypeInv /\ Turn.pc = "idle" /\ Turn.st = disk
  BY StartsTyped
<1>2. PICK c \in Ceilings : disk = NewState(c)
  BY DEF Init
<1>3. /\ disk.jobs = [r \in Runs |-> NoJob] /\ disk.queue = Seed /\ disk.completed = 0
      /\ disk.ceiling \in Nat
  BY <1>2, SchedulerAssumption DEF NewState
<1>4. \A r \in Runs : disk.jobs[r] = NoJob /\ JobOk(r, NoJob, World)
  BY <1>3 DEF JobOk, NoJob, Open
<1>5. \A q : Contains(disk.queue, q) => q \in Fresh /\ disk.jobs[q] = NoJob
  BY <1>3, <1>4, SchedulerAssumption DEF Contains, Runs
<1>6. \A r \in Runs : Paid(disk, World)[r] = 0 /\ Reserved(disk)[r] = 0
  BY <1>4 DEF Paid, Reserved, NoJob
<1>7. SumFunctionOnSet(Paid(disk, World), Runs) = 0 /\ SumFunctionOnSet(Reserved(disk), Runs) = 0
  BY <1>6, SumOfZeros
<1>8. Books(disk, World)
  BY <1>3, <1>4, <1>5, <1>7 DEF Books
<1>9. Fresh \subseteq World.known
  BY DEF World, Init, RunnerInit, Prepared, Runs
<1> QED  BY <1>1, <1>8, <1>9 DEF MoneyInv

\* What the provider charges or may still charge is spent or reserved.
LEMMA ChargesCovered ==
  ASSUME IsFiniteSet(Runs), TypeInv, SlotInv, MoneyInv
  PROVE  SumFunctionOnSet([r \in Runs |-> Charge(r)], Runs) <= disk.ceiling
<1> DEFINE charges == [r \in Runs |-> Charge(r)]
           paid == Paid(Turn.st, World)
           reserved == Reserved(Turn.st)
<1>0. Turn.st \in States /\ World \in Worlds
  BY TurnTyped, WorldTyped DEF TypeInv
<1>1. \A r \in Runs : paid[r] \in Int /\ reserved[r] \in Int
  BY <1>0, BalanceTyped
<1>2. ASSUME NEW r \in Runs
      PROVE  charges[r] \in Int /\ charges[r] <= paid[r] + reserved[r]
  <2>1. MaxCost(r) \in Nat /\ ActualCost(r) \in Nat /\ ActualCost(r) <= MaxCost(r)
    BY CostTyped DEF TypeInv
  <2>2. charges[r] \in {0, MaxCost(r), ActualCost(r)} /\ (~ Sent(r) => charges[r] = 0)
    BY DEF Charge, Sent
  <2>3. JobOk(r, Turn.st.jobs[r], World)
    BY DEF MoneyInv, Books
  <2>4. Turn.st.jobs[r].reserved \in Nat
    BY <1>0, BalanceTyped DEF Jobs
  <2>5. CASE "collected" \in Turn.st.jobs[r].stages
    <3>1. charges[r] = ActualCost(r)
      BY <2>3, <2>5 DEF JobOk, World, Charge
    <3>2. paid[r] = ActualCost(r) /\ reserved[r] = 0
      BY <2>3, <2>5 DEF Paid, Reserved, World, JobOk
    <3> QED  BY <2>1, <3>1, <3>2
  <2>6. CASE "collected" \notin Turn.st.jobs[r].stages
    <3>1. paid[r] = 0 /\ reserved[r] = Turn.st.jobs[r].reserved
      BY <2>3, <2>6 DEF Paid, Reserved, JobOk
    <3>2. Sent(r) => reserved[r] = MaxCost(r)
      BY <2>3, <2>6, <3>1 DEF SlotInv, JobOk, World
    <3> HIDE DEF charges, paid, reserved
    <3> QED  BY <2>1, <2>2, <2>4, <3>1, <3>2
  <2> QED  BY <2>5, <2>6
<1> DEFINE C == SumFunctionOnSet(charges, Runs)
           P == SumFunctionOnSet(paid, Runs)
           R == SumFunctionOnSet(reserved, Runs)
<1>3. C <= P + R
  <2> HIDE DEF charges, paid, reserved
  <2> QED  BY <1>1, <1>2, SumBelow
<1>4. C \in Int /\ P \in Int /\ R \in Int
  <2> HIDE DEF charges, paid, reserved
  <2> QED  BY <1>1, <1>2, SumTyped
<1>5. Turn.st.completed = P /\ Turn.st.completed + R <= disk.ceiling
  BY DEF MoneyInv, Books
<1>6. disk.ceiling \in Nat
  BY TurnTyped, SchedulerAssumption DEF States
<1> HIDE DEF C, P, R
<1>7. C <= disk.ceiling
  BY <1>3, <1>4, <1>5, <1>6
<1> QED  BY <1>7 DEF C

-----------------------------------------------------------------------------
(* Families: a fresh run, and the one retry of it that is ever sent.       *)

Parents == [r \in Runs |-> dir[r].parent]

\* The parent of a retry that is under way is marked, and has no other.
Marked(st, parent) == \A c \in Retries : Open(st.jobs[c]) => st.jobs[parent[c]].retried
Single(st, parent) ==
  \A c, d \in Retries :
    Open(st.jobs[c]) /\ Open(st.jobs[d]) /\ parent[c] = parent[d] => c = d

\* A retry asks for a part of what its parent asks for, if it may; it is
\* only sent once the parent is marked, and a parent is marked once.
FamilyInv ==
  /\ \A p \in Fresh : /\ dir[p].parent = NoRun /\ dir[p].asks = SourcesOf[p]
                      /\ dir[p].stage # "none"
                      /\ \A s \in dir[p].asks : dir[p].recs[s].attempts >= 1
  /\ \A c \in Retries : dir[c].stage # "none" =>
       /\ dir[c].parent \in Fresh /\ dir[c].asks \subseteq dir[dir[c].parent].asks
       /\ dir[c].asks # {} => RetryLimit >= 2
  /\ Marked(disk, Parents) /\ Marked(Turn.st, Parents) /\ Single(Turn.st, Parents)
  /\ Turn.pc = "submit" /\ Turn.run \in Retries =>
       /\ Turn.st.jobs[Parents[Turn.run]].retried
       /\ \A d \in Retries : Open(Turn.st.jobs[d]) => Parents[d] # Parents[Turn.run]

\* Only cmd_retry writes a new directory.
LEMMA DirectoriesNew ==
  ASSUME TypeInv, MoneyInv, Moves, NEW r \in Runs, dir[r].stage = "none", dir'[r].stage # "none"
  PROVE  r \in Retries /\ \E p \in Fresh : Prepares(p, r)
<1>0. Fresh \subseteq Runs /\ Retries \subseteq Runs
  BY DEF Runs
<1>1. r \notin World.known /\ Turn.st.jobs[r] = NoJob
  BY DEF World, MoneyInv, Books, JobOk
<1>2. ~ Open(Turn.st.jobs[r]) /\ ~ (Turn.pc = "submit" /\ Turn.run = r)
  BY <1>1 DEF NoJob, Open, MoneyInv
<1>3. ASSUME NEW q \in Runs, Calm(q), Open(Turn.st.jobs[q]) \/ (Turn.pc = "submit" /\ Turn.run = q)
      PROVE  FALSE
  BY <1>2, <1>3 DEF Calm
<1>4. ASSUME NEW q \in Runs, dir' = Finalized(q), Visits("review", q)
      PROVE  FALSE
  <2>1. "collected" \in Turn.st.jobs[q].stages
    BY <1>4 DEF MoneyInv, Visits
  <2>2. q # r
    BY <1>1, <2>1 DEF NoJob
  <2>3. \A v \in Runs \ {q} : dir'[v] = dir[v]
    BY <1>4, FinalizedMoves DEF TypeInv
  <2> QED  BY <2>2, <2>3
<1>5. ASSUME NEW q \in Runs, NEW k \in 0 .. Merges, MergeWrites(q, k)
      PROVE  FALSE
  <2> DEFINE p == dir[q].parent
  <2>1. p \in Runs /\ dir' = Merged(q, k)
    BY <1>5 DEF MergeWrites
  <2>2. /\ \A v \in Runs \ {p} : dir'[v] = dir[v]
        /\ dir'[p].stage = dir[p].stage
    BY <2>1, MergedMoves DEF TypeInv
  <2> QED  BY <2>2
<1>6. ASSUME NEW p \in Fresh, NEW c \in Retries, Prepares(p, c)
      PROVE  c = r
  <2>1. \A v \in Runs \ {c} : dir'[v] = dir[v]
    BY <1>6, PreparesMoves
  <2> QED  BY <2>1
<1>7. DirMoves
  BY StepDirMoves
<1> QED  BY <1>3, <1>4, <1>5, <1>6, <1>7 DEF DirMoves

\* An attempt that was made is not taken back.
LEMMA AttemptsStay ==
  ASSUME TypeInv, MoneyInv, Moves, NEW r \in Fresh, NEW s \in dir[r].asks,
         dir[r].recs[s].attempts >= 1
  PROVE  dir'[r].recs[s].attempts >= 1
<1>0. Fresh \subseteq Runs /\ Retries \subseteq Runs /\ r \in Runs
  BY DEF Runs
<1>1. s \in Source /\ \A q \in Runs : dir[q].recs[s].attempts \in Nat
  <2>1. \A q \in Runs : dir[q].asks \in SUBSET Source /\ dir[q].recs \in [Source -> Records]
    BY DEF TypeInv, TypeOK, RunnerTypeOK, Dirs
  <2>2. s \in Source /\ \A q \in Runs : dir[q].recs[s] \in Records
    BY <1>0, <2>1
  <2> QED  BY <2>2 DEF Records
<1>3. ASSUME NEW q \in Runs, Calm(q)
      PROVE  dir'[r].recs = dir[r].recs
  BY <1>0, <1>3 DEF Calm
<1>4. ASSUME NEW q \in Runs, dir' = Finalized(q)
      PROVE  dir'[r].recs[s].attempts = dir[r].recs[s].attempts
  <2>1. /\ \A v \in Runs \ {q} : dir'[v] = dir[v]
        /\ \A t \in dir[q].asks : dir'[q].recs[t].attempts = dir[q].recs[t].attempts
    BY <1>4, FinalizedMoves DEF TypeInv
  <2> QED  BY <1>0, <2>1
<1>5. ASSUME NEW q \in Runs, NEW k \in 0 .. Merges, MergeWrites(q, k)
      PROVE  dir'[r].recs[s].attempts >= 1
  <2> DEFINE p == dir[q].parent
  <2>1. p \in Runs /\ dir' = Merged(q, k)
    BY <1>5 DEF MergeWrites
  <2>2. /\ \A v \in Runs \ {p} : dir'[v] = dir[v]
        /\ \A t \in Source :
              IF k < 1 \/ t \notin dir[q].asks THEN dir'[p].recs[t] = dir[p].recs[t]
              ELSE /\ dir'[p].recs[t].attempts >= dir[p].recs[t].attempts
                   /\ dir'[p].recs[t].attempts
                        \in {dir[q].recs[t].attempts, dir[p].recs[t].attempts}
    BY <2>1, MergedMoves DEF TypeInv
  <2> HIDE DEF p
  <2>3. CASE r # p
    BY <1>0, <2>2, <2>3
  <2>4. CASE r = p
    <3>1. dir'[p].recs[s].attempts >= dir[p].recs[s].attempts
          /\ dir'[p].recs[s].attempts \in Nat /\ dir[p].recs[s].attempts \in Nat
      BY <1>1, <2>1, <2>2
    <3> QED  BY <2>4, <3>1
  <2> QED  BY <2>3, <2>4
<1>6. ASSUME NEW p \in Fresh, NEW c \in Retries, Prepares(p, c)
      PROVE  dir'[r] = dir[r]
  <2>1. \A v \in Runs \ {c} : dir'[v] = dir[v]
    BY <1>6, PreparesMoves
  <2> QED  BY <1>0, <2>1, RunnerAssumption
<1>7. DirMoves
  BY StepDirMoves
<1> QED  BY <1>3, <1>4, <1>5, <1>6, <1>7 DEF DirMoves

\* The first half of the family: the directories.
LEMMA FamilyFiles ==
  ASSUME TypeInv, TypeInv', MoneyInv, FamilyInv, Moves
  PROVE  /\ \A p \in Fresh : /\ dir'[p].parent = NoRun /\ dir'[p].asks = SourcesOf[p]
                             /\ dir'[p].stage # "none"
                             /\ \A s \in dir'[p].asks : dir'[p].recs[s].attempts >= 1
         /\ \A c \in Retries : dir'[c].stage # "none" =>
              /\ dir'[c].parent \in Fresh /\ dir'[c].asks \subseteq dir'[dir'[c].parent].asks
              /\ dir'[c].asks # {} => RetryLimit >= 2
<1>0. Fresh \subseteq Runs /\ Retries \subseteq Runs
  BY DEF Runs
<1>1. ASSUME NEW p \in Fresh
      PROVE  /\ dir'[p].parent = NoRun /\ dir'[p].asks = SourcesOf[p] /\ dir'[p].stage # "none"
             /\ dir'[p].asks = dir[p].asks
             /\ \A s \in dir'[p].asks : dir'[p].recs[s].attempts >= 1
  <2>1. p \in Runs /\ dir[p].stage # "none" /\ dir[p].parent = NoRun /\ dir[p].asks = SourcesOf[p]
        /\ \A s \in dir[p].asks : dir[p].recs[s].attempts >= 1
    BY <1>0 DEF FamilyInv
  <2>2. dir'[p].stage # "none" /\ dir'[p].asks = dir[p].asks /\ dir'[p].parent = dir[p].parent
    BY <2>1, DirectoriesStay
  <2>3. \A s \in dir[p].asks : dir'[p].recs[s].attempts >= 1
    BY <2>1, AttemptsStay
  <2> QED  BY <2>1, <2>2, <2>3
<1>2. ASSUME NEW c \in Retries, dir'[c].stage # "none"
      PROVE  /\ dir'[c].parent \in Fresh /\ dir'[c].asks \subseteq dir'[dir'[c].parent].asks
             /\ dir'[c].asks # {} => RetryLimit >= 2
  <2>1. CASE dir[c].stage # "none"
    <3>1. dir'[c].asks = dir[c].asks /\ dir'[c].parent = dir[c].parent
      BY <1>0, <2>1, DirectoriesStay
    <3> QED  BY <1>1, <2>1, <3>1 DEF FamilyInv
  <2>2. CASE dir[c].stage = "none"
    <3>1. PICK p \in Fresh : Prepares(p, c)
      BY <1>0, <1>2, <2>2, DirectoriesNew
    <3>2. p \in Runs
      BY <1>0
    <3>3. dir'[c].parent = p /\ dir'[c].asks = Eligible(p)
      BY <3>1, PreparesMoves
    <3>4. Eligible(p) \subseteq dir[p].asks /\ dir'[p].asks = dir[p].asks
      BY <1>1 DEF Eligible
    <3>5. Eligible(p) # {} => RetryLimit >= 2
      <4> SUFFICES ASSUME NEW s \in Eligible(p) PROVE RetryLimit >= 2
        OBVIOUS
      <4>1. s \in dir[p].asks /\ dir[p].recs[s].attempts < RetryLimit
        BY DEF Eligible
      <4>2. dir[p].recs[s].attempts >= 1
        BY <4>1 DEF FamilyInv
      <4>3. dir[p].recs[s].attempts \in Nat
        <5>1. dir[p].asks \in SUBSET Source /\ dir[p].recs \in [Source -> Records]
          BY <3>2 DEF TypeInv, TypeOK, RunnerTypeOK, Dirs
        <5>2. dir[p].recs[s] \in Records
          BY <4>1, <5>1
        <5> QED  BY <5>2 DEF Records
      <4> QED  BY <4>1, <4>2, <4>3, Sets
    <3> QED  BY <3>3, <3>4, <3>5
  <2> QED  BY <2>1, <2>2
<1> QED  BY <1>1, <1>2

Follows(new, old) ==
  /\ \A c \in Retries : Open(new.jobs[c]) => Open(old.jobs[c])
  /\ \A p \in Fresh : old.jobs[p].retried => new.jobs[p].retried

\* A job stands for a directory that was written, and so does a submission.
LEMMA ParentsStay ==
  ASSUME TypeInv, TypeInv', MoneyInv, FamilyInv, Moves, NEW c \in Retries,
         \/ Open(Turn.st.jobs[c]) \/ Open(disk.jobs[c])
         \/ Turn.pc = "submit" /\ Turn.run = c
  PROVE  Parents'[c] = Parents[c] /\ Parents[c] \in Fresh
<1>0. Fresh \subseteq Runs /\ c \in Runs
  BY DEF Runs
<1>1. c \in World.known
  BY <1>0 DEF MoneyInv, Books, JobOk, NoJob, Open
<1>2. dir[c].stage # "none"
  BY <1>1 DEF World
<1>3. dir'[c].parent = dir[c].parent
  BY <1>0, <1>2, DirectoriesStay
<1> QED  BY <1>0, <1>2, <1>3 DEF Parents, FamilyInv

LEMMA SingleOnDisk ==
  ASSUME SlotInv, FamilyInv
  PROVE  Single(disk, Parents)
<1>1. \A c \in Retries : Open(disk.jobs[c]) => Open(Turn.st.jobs[c])
  BY DEF SlotInv, Runs
<1> QED  BY <1>1 DEF FamilyInv, Single

\* A step that submits nothing new, of the turn or of the copy on disk.
LEMMA FamilyKept ==
  ASSUME TypeInv, TypeInv', SlotInv, MoneyInv, FamilyInv, Moves,
         Follows(Turn'.st, Turn.st) \/ Follows(Turn'.st, disk),
         disk' \in {disk, Turn.st},
         Turn'.pc = "submit" /\ Turn'.run \in Retries =>
           /\ Turn'.st.jobs[Parents'[Turn'.run]].retried
           /\ \A d \in Retries : Open(Turn'.st.jobs[d]) => Parents'[d] # Parents'[Turn'.run]
  PROVE  FamilyInv'
<1>1. Single(disk, Parents) /\ Single(Turn.st, Parents)
      /\ Marked(disk, Parents) /\ Marked(Turn.st, Parents)
  BY SingleOnDisk DEF FamilyInv
<1>2. \A c \in Retries : Open(Turn.st.jobs[c]) \/ Open(disk.jobs[c]) =>
        Parents'[c] = Parents[c] /\ Parents[c] \in Fresh
  BY ParentsStay
<1>5. Marked(Turn'.st, Parents') /\ Single(Turn'.st, Parents')
  <2>1. CASE Follows(Turn'.st, Turn.st)
    BY <1>1, <1>2, <2>1 DEF Follows, Marked, Single
  <2>2. CASE Follows(Turn'.st, disk)
    BY <1>1, <1>2, <2>2 DEF Follows, Marked, Single
  <2> QED  BY <2>1, <2>2
<1>6. Marked(disk', Parents')
  <2>1. \A c \in Retries : Open(disk'.jobs[c]) => Parents'[c] = Parents[c]
    BY <1>2
  <2> QED  BY <1>1, <2>1 DEF Marked
<1>7. /\ Marked(disk, Parents)' = Marked(disk', Parents')
      /\ Marked(Turn.st, Parents)' = Marked(Turn'.st, Parents')
      /\ Single(Turn.st, Parents)' = Single(Turn'.st, Parents')
      /\ \A d \in Retries : Open(Turn.st.jobs[d])' = Open(Turn'.st.jobs[d])
  BY DEF Marked, Single, Open
<1> QED  BY <1>5, <1>6, <1>7, FamilyFiles DEF FamilyInv

LEMMA FamilyStep ==
  ASSUME TypeInv, TypeInv', SlotInv, MoneyInv, FamilyInv, Moves
  PROVE  FamilyInv'
<1>0. /\ Turn.st \in States /\ Turn.st.jobs \in [Runs -> Jobs]
      /\ disk \in States /\ disk.jobs \in [Runs -> Jobs] /\ Fresh \subseteq Runs /\ Retries \subseteq Runs
  BY TurnTyped DEF Runs, TypeInv, TypeOK, States
<1>1. ASSUME NEW r \in Runs,
             Reconciles(r) \/ Polls(r) \/ Passes(r) \/ Reviews(r) \/ MergesAll(r) \/ MergesSome(r)
      PROVE  FamilyInv'
  <2>1. PICK pc \in {"poll", "review", "merge"} : Visits(pc, r)
    BY <1>1 DEF Reconciles, Polls, Passes, Reviews, MergesAll, MergesSome
  <2>2. Turn.st.jobs[r] \in Jobs
    BY <1>0
  <2>3. Open(Turn'.st.jobs[r]) => Open(Turn.st.jobs[r])
    BY <1>1, <2>2 DEF Reconciles, Polls, Passes, Reviews, Judges, MergesAll, MergesSome, Open, Jobs
  <2>4. Turn'.st.jobs[r].retried = Turn.st.jobs[r].retried
    BY <1>1, <2>2 DEF Reconciles, Keeps, Polls, Passes, Reviews, Judges, MergesAll, MergesSome, Jobs
  <2>5. Turn'.pc # "submit" /\ disk' = disk /\ \A q \in Runs \ {r} : Turn'.st.jobs[q] = Turn.st.jobs[q]
    BY <2>1 DEF Visits
  <2>6. Follows(Turn'.st, Turn.st)
    BY <1>0, <2>3, <2>4, <2>5 DEF Follows
  <2> QED  BY <2>5, <2>6, FamilyKept
<1>2. ASSUME NEW r \in Runs, LosesCollection(r)
      PROVE  FamilyInv'
  <2>1. disk' = disk /\ Turn'.st = disk /\ Turn'.pc = "idle"
    BY <1>2 DEF LosesCollection, Loses
  <2>9. Follows(Turn'.st, Turn.st) \/ Follows(Turn'.st, disk)
    BY <2>1 DEF Follows
  <2> QED  BY <2>1, <2>9, FamilyKept
<1>3. CASE Cuts
  <2>1. disk' = disk /\ Turn'.st = disk /\ Turn'.pc = "idle"
    BY <1>3 DEF Cuts, Loses
  <2>9. Follows(Turn'.st, Turn.st) \/ Follows(Turn'.st, disk)
    BY <2>1 DEF Follows
  <2> QED  BY <2>1, <2>9, FamilyKept
<1>4. CASE EndsPoll \/ EndsReview \/ EndsRefill
  <2>1. disk' = disk /\ Turn'.st = Turn.st /\ Turn'.pc # "submit"
    BY <1>4 DEF EndsPoll, EndsReview, EndsRefill, Turns
  <2>9. Follows(Turn'.st, Turn.st) \/ Follows(Turn'.st, disk)
    BY <2>1 DEF Follows
  <2> QED  BY <2>1, <2>9, FamilyKept
<1>5. CASE Begins
  <2>0. "version-change" \in StopReasons
    BY DEF StopReasons
  <2>2. SetStop(disk, "version-change").jobs = disk.jobs
    BY <1>0, <2>0, SetStopMoves
  <2>1. disk' = disk /\ Turn'.st.jobs = disk.jobs /\ Turn'.pc # "submit"
    BY <1>5, <2>2 DEF Begins, Turns
  <2>9. Follows(Turn'.st, Turn.st) \/ Follows(Turn'.st, disk)
    BY <2>1 DEF Follows
  <2> QED  BY <2>1, <2>9, FamilyKept
<1>6. CASE Writes
  <2>1. disk' = Turn.st /\ Turn'.st = Turn.st /\ Turn'.pc = "idle"
    BY <1>6 DEF Writes
  <2>9. Follows(Turn'.st, Turn.st) \/ Follows(Turn'.st, disk)
    BY <2>1 DEF Follows
  <2> QED  BY <2>1, <2>9, FamilyKept
<1>7. CASE Rests \/ \E r \in Runs : Ends(r)
  <2>1. disk' = disk /\ Turn' = Turn
    BY <1>7 DEF Rests, Ends, Idles
  <2>2. ASSUME Turn.pc = "submit", Turn.run \in Retries
        PROVE  /\ Turn.st.jobs[Parents'[Turn.run]].retried
               /\ \A d \in Retries : Open(Turn.st.jobs[d]) => Parents'[d] # Parents'[Turn.run]
    <3>1. Parents'[Turn.run] = Parents[Turn.run]
          /\ \A d \in Retries : Open(Turn.st.jobs[d]) => Parents'[d] = Parents[d]
      BY <2>2, ParentsStay
    <3> QED  BY <2>2, <3>1 DEF FamilyInv
  <2>9. Follows(Turn'.st, Turn.st)
    BY <2>1 DEF Follows
  <2> QED  BY <2>1, <2>2, <2>9, FamilyKept
<1>8. ASSUME NEW r \in Runs, Takes(r)
      PROVE  FamilyInv'
  <2>0. Chooses(Turn.st, r, MaxCost(r)) /\ disk' = disk
    BY <1>8 DEF Takes
  <2>4. Turn'.st.jobs = Turn.st.jobs
    BY <1>0, <2>0, ChoosesMoves
  <2>1. Turn'.st.jobs = Turn.st.jobs /\ Turn'.run \in {r, NoRun} /\ disk' = disk
    BY <2>0, <2>4 DEF Chooses
  <2>2. r \in Fresh
    BY <1>8 DEF Takes, MoneyInv, Books
  <2>3. Turn'.run \notin Retries
    BY <1>0, <2>1, <2>2, RunnerAssumption
  <2>9. Follows(Turn'.st, Turn.st)
    BY <2>1 DEF Follows
  <2> QED  BY <2>1, <2>3, <2>9, FamilyKept
<1>9. ASSUME NEW p \in Fresh, Refuses(p) \/ \E c \in Retries : Prepares(p, c)
      PROVE  FamilyInv'
  <2> DEFINE st == [Turn.st EXCEPT !.jobs[p].retried = TRUE]
  <2>1. /\ st \in States /\ st.jobs[p] = [Turn.st.jobs[p] EXCEPT !.retried = TRUE]
        /\ \A q \in Runs \ {p} : st.jobs[q] = Turn.st.jobs[q]
    <3> HIDE DEF st
    <3>1. TypeInv /\ p \in Fresh
      OBVIOUS
    <3> QED  BY <3>1, RetriedKeeps DEF st
  <2>2. Turn.st.jobs[p] \in Jobs
    BY <1>0
  <2>3. st.jobs[p].retried /\ \A q \in Retries : st.jobs[q] = Turn.st.jobs[q]
    <3>1. [Turn.st.jobs[p] EXCEPT !.retried = TRUE].retried
      BY <2>2 DEF Jobs
    <3> QED  BY <1>0, <2>1, <3>1, RunnerAssumption
  <2>4. Refuses(p) => /\ Turn'.st = st /\ Turn'.pc # "submit" /\ disk' = disk
    BY DEF Refuses, Turns
  <2> HIDE DEF st
  <2>5. ASSUME NEW c \in Retries, Prepares(p, c)
        PROVE  disk' = disk /\ Turn'.st.jobs = st.jobs /\ Turn'.run \in {c, NoRun}
    <3>1. Chooses(st, c, Cardinality(Eligible(p))) /\ disk' = disk
      BY <2>5 DEF Prepares, st
    <3>2. Turn'.st.jobs = st.jobs
      <4>1. c \in Runs
        BY <1>0
      <4> QED  BY <2>1, <3>1, <4>1, ChoosesMoves
    <3>3. Turn'.run \in {c, NoRun}
      BY <3>1 DEF Chooses
    <3> QED  BY <3>1, <3>2, <3>3
  <2>6. Turn'.st.jobs = st.jobs /\ disk' = disk
    BY <1>9, <2>4, <2>5
  <2>7. ASSUME Turn'.pc = "submit", Turn'.run \in Retries
        PROVE  /\ st.jobs[Parents'[Turn'.run]].retried
               /\ \A d \in Retries : Open(st.jobs[d]) => Parents'[d] # Parents'[Turn'.run]
    <3>0. PICK c \in Retries : Prepares(p, c)
      BY <1>9, <2>4, <2>7
    <3>1. Prepares(p, c) /\ Turn'.run = c
      BY <1>0, <2>5, <2>7, <3>0, RunnerAssumption
    <3>2. Parents'[c] = p
      BY <1>0, <3>1, PreparesMoves DEF Parents
    <3>3. ~ Turn.st.jobs[p].retried
      BY <3>1 DEF Prepares, Retriable
    <3>4. ASSUME NEW d \in Retries, Open(Turn.st.jobs[d])
          PROVE  Parents'[d] # p
      <4>1. Parents'[d] = Parents[d]
        BY <3>4, ParentsStay
      <4>2. Turn.st.jobs[Parents[d]].retried
        BY <3>4 DEF FamilyInv, Marked
      <4> QED  BY <3>3, <4>1, <4>2
    <3> QED  BY <2>3, <3>1, <3>2, <3>4
  <2>8. Follows(Turn'.st, Turn.st)
    BY <1>0, <2>1, <2>3, <2>6 DEF Follows
  <2>9. Turn'.pc = "submit" /\ Turn'.run \in Retries =>
          /\ Turn'.st.jobs[Parents'[Turn'.run]].retried
          /\ \A d \in Retries : Open(Turn'.st.jobs[d]) => Parents'[d] # Parents'[Turn'.run]
    BY <2>6, <2>7
  <2> QED  BY <2>6, <2>8, <2>9, FamilyKept
<1>10. ASSUME NEW r \in Runs, Submits(r)
       PROVE  FamilyInv'
  <2>1. PICK job \in Jobs :
          /\ job.retried = FALSE \/ job.retried = Turn.st.jobs[r].retried
          /\ Turn'.st = WithJob(Turn.st, r, job) /\ Turn'.pc \in {"merge", "write"}
    BY <1>10 DEF Submits
  <2>2. Turn.pc = "submit" /\ Turn.run = r /\ disk' = disk
    BY <1>10 DEF Submits
  <2>3. Turn'.st.jobs = [Turn.st.jobs EXCEPT ![r] = job]
    <3> DEFINE new == WithJob(Turn.st, r, job)
    <3>1. new.jobs = [Turn.st.jobs EXCEPT ![r] = job]
      BY <1>0, WithJobMoves
    <3>2. Turn'.st = new
      BY <2>1
    <3> HIDE DEF new
    <3> QED  BY <3>1, <3>2
  <2>4. Turn'.st.jobs[r] = job /\ \A q \in Runs \ {r} : Turn'.st.jobs[q] = Turn.st.jobs[q]
    BY <1>0, <2>3
  <2>5. Turn.st.jobs[r] = NoJob /\ ~ Turn.st.jobs[r].retried /\ ~ Turn'.st.jobs[r].retried
    BY <2>1, <2>2, <2>4 DEF MoneyInv, NoJob
  <2>6. CASE r \in Fresh
    <3>1. Follows(Turn'.st, Turn.st)
      BY <1>0, <2>4, <2>5, <2>6, RunnerAssumption DEF Follows
    <3> QED  BY <2>1, <2>2, <3>1, FamilyKept
  <2>7. CASE r \in Retries
    <3>1. /\ Parents'[r] = Parents[r] /\ Parents[r] \in Fresh
          /\ \A c \in Retries : Open(Turn.st.jobs[c]) =>
                Parents'[c] = Parents[c] /\ Parents[c] \in Fresh
      BY <2>2, <2>7, ParentsStay
    <3>2. /\ Marked(Turn.st, Parents) /\ Single(Turn.st, Parents)
          /\ Turn.st.jobs[Parents[r]].retried
          /\ \A d \in Retries : Open(Turn.st.jobs[d]) => Parents[d] # Parents[r]
      BY <2>2, <2>7 DEF FamilyInv
    <3>3. \A p \in Fresh : Turn'.st.jobs[p] = Turn.st.jobs[p]
      BY <1>0, <2>4, <2>7, RunnerAssumption
    <3>4. \A c \in Retries : Open(Turn'.st.jobs[c]) => c = r \/ Open(Turn.st.jobs[c])
      BY <1>0, <2>4
    <3>5. Marked(Turn'.st, Parents')
      BY <3>1, <3>2, <3>3, <3>4 DEF Marked
    <3>6. Single(Turn'.st, Parents')
      BY <3>1, <3>2, <3>4 DEF Single
    <3>7. Marked(disk', Parents')
      <4>1. \A c \in Retries : Open(disk.jobs[c]) => Parents'[c] = Parents[c]
        BY ParentsStay
      <4> QED  BY <2>2, <4>1 DEF Marked, FamilyInv
    <3>8. /\ Marked(disk, Parents)' = Marked(disk', Parents')
          /\ Marked(Turn.st, Parents)' = Marked(Turn'.st, Parents')
          /\ Single(Turn.st, Parents)' = Single(Turn'.st, Parents')
      BY DEF Marked, Single, Open
    <3> QED  BY <2>1, <3>5, <3>6, <3>7, <3>8, FamilyFiles DEF FamilyInv
  <2> QED  BY <2>6, <2>7 DEF Runs
<1> QED  BY <1>1, <1>2, <1>3, <1>4, <1>5, <1>6, <1>7, <1>8, <1>9, <1>10 DEF Moves

LEMMA FamilyStart ==
  ASSUME Init
  PROVE  FamilyInv
<1>1. Turn.pc = "idle" /\ Turn.st = disk
  BY StartsTyped
<1>2. PICK c \in Ceilings : disk = NewState(c)
  BY DEF Init
<1>3. \A r \in Runs : disk.jobs[r] = NoJob /\ ~ Open(disk.jobs[r])
  BY <1>2 DEF NewState, NoJob, Open
<1>4. Marked(disk, Parents) /\ Single(disk, Parents)
  BY <1>3 DEF Marked, Single, Runs
<1>5. ASSUME NEW p \in Fresh
      PROVE  /\ dir[p].parent = NoRun /\ dir[p].asks = SourcesOf[p] /\ dir[p].stage # "none"
             /\ \A s \in dir[p].asks : dir[p].recs[s].attempts >= 1
  <2>1. dir[p] = Prepared(NoRun, SourcesOf[p], [s \in Source |-> 1])
    BY DEF Init, RunnerInit, Runs
  <2>2. SourcesOf[p] \subseteq Source
    BY RunnerAssumption
  <2>3. \A s \in SourcesOf[p] : dir[p].recs[s].attempts = 1
    BY <2>1, <2>2 DEF Prepared
  <2> QED  BY <2>1, <2>3 DEF Prepared
<1>6. \A r \in Retries : dir[r].stage = "none"
  BY RunnerAssumption DEF Init, RunnerInit, Runs, NoDir, Prepared
<1> QED  BY <1>1, <1>4, <1>5, <1>6 DEF FamilyInv

\* The provider sees a record in its fresh run, and in one retry if a second
\* attempt is allowed.
LEMMA SentTwice ==
  ASSUME TypeInv, SlotInv, MoneyInv, FamilyInv, NEW s \in Source,
         \A p, q \in Fresh : p # q => SourcesOf[p] \cap SourcesOf[q] = {}
  PROVE  Cardinality({r \in Runs : Sent(r) /\ s \in dir[r].asks}) <= RetryLimit
<1> DEFINE carriers == {r \in Runs : Sent(r) /\ s \in dir[r].asks}
<1>1. ASSUME NEW c \in Retries, c \in carriers
      PROVE  /\ Parents[c] \in Fresh /\ s \in SourcesOf[Parents[c]]
             /\ RetryLimit >= 2 /\ Open(Turn.st.jobs[c])
  <2>1. c \in Runs /\ Open(Turn.st.jobs[c])
    BY <1>1 DEF SlotInv, Runs
  <2>2. c \in World.known
    BY <2>1 DEF MoneyInv, Books, JobOk, NoJob, Open
  <2>3. dir[c].stage # "none" /\ Parents[c] = dir[c].parent
    BY <2>1, <2>2 DEF World, Parents
  <2> QED  BY <1>1, <2>1, <2>3 DEF FamilyInv
<1>2. \A p \in Fresh : p \in carriers => s \in SourcesOf[p]
  BY DEF FamilyInv
<1>3. \A p, q \in Fresh : s \in SourcesOf[p] /\ s \in SourcesOf[q] => p = q
  OBVIOUS
<1>4. \A c, d \in Retries : c \in carriers /\ d \in carriers => c = d
  BY <1>1, <1>3 DEF FamilyInv, Single
<1>5. RetryLimit \in Nat /\ RetryLimit >= 1
  BY RunnerAssumption
<1>6. carriers \subseteq Fresh \cup Retries
  BY DEF Runs
<1> HIDE DEF carriers
<1>7. CASE carriers \cap Retries = {}
  <2>1. \E p : carriers \subseteq {p}
    BY <1>2, <1>3, <1>6, <1>7
  <2>2. PICK p : carriers \subseteq {p}
    BY <2>1
  <2>3. IsFiniteSet({p}) /\ Cardinality({p}) = 1
    BY FS_Singleton
  <2>4. IsFiniteSet(carriers) /\ Cardinality(carriers) <= 1
    BY <2>2, <2>3, FS_Subset
  <2>5. Cardinality(carriers) \in Nat
    BY <2>4, FS_CardinalityType
  <2> QED  BY <1>5, <2>4, <2>5 DEF carriers
<1>8. CASE carriers \cap Retries # {}
  <2>1. PICK c \in Retries : c \in carriers
    BY <1>8
  <2>2. RetryLimit >= 2
    BY <1>1, <2>1
  <2>3. carriers \subseteq {Parents[c], c}
    BY <1>1, <1>2, <1>3, <1>4, <1>6, <2>1
  <2>4. IsFiniteSet({c}) /\ Cardinality({c}) = 1
    BY FS_Singleton
  <2>5. IsFiniteSet({c} \cup {Parents[c]}) /\ Cardinality({c} \cup {Parents[c]}) \in {1, 2}
    <3>1. IsFiniteSet({c} \cup {Parents[c]})
          /\ Cardinality({c} \cup {Parents[c]}) \in {Cardinality({c}), Cardinality({c}) + 1}
      BY <2>4, FS_AddElement
    <3> QED  BY <2>4, <3>1
  <2>6. IsFiniteSet(carriers) /\ Cardinality(carriers) <= Cardinality({c} \cup {Parents[c]})
    <3>1. carriers \subseteq {c} \cup {Parents[c]}
      BY <2>3
    <3> QED  BY <2>5, <3>1, FS_Subset
  <2>7. Cardinality(carriers) \in Nat
    BY <2>6, FS_CardinalityType
  <2> QED  BY <1>5, <2>2, <2>5, <2>6, <2>7 DEF carriers
<1> QED  BY <1>7, <1>8

\* What the batch pipeline needs of the faults it meets: that no worker is
\* cut off between a submission and the write of the state, and with it
\* everything that keeps the slots, the money and the families straight.
PaidInv == TypeInv /\ SlotInv /\ MoneyInv /\ FamilyInv

LEMMA PaidAlways ==
  ASSUME "crash_unsaved" \notin Faults, IsFiniteSet(Runs)
  PROVE  Spec => []PaidInv
<1>1. Init => PaidInv
  BY StartsTyped, SlotStart, MoneyStart, FamilyStart DEF PaidInv
<1>2. PaidInv /\ [Next]_vars => PaidInv'
  <2> SUFFICES ASSUME PaidInv, [Next]_vars
               PROVE  PaidInv'
    OBVIOUS
  <2>1. TypeInv' /\ Moves
    BY StepMoves DEF PaidInv
  <2>2. SlotInv'
    BY <2>1, SlotStep DEF PaidInv
  <2>3. MoneyInv'
    BY <2>1, MoneyStep DEF PaidInv
  <2>4. FamilyInv'
    BY <2>1, FamilyStep DEF PaidInv
  <2> QED  BY <2>1, <2>2, <2>3, <2>4 DEF PaidInv
<1> QED  BY <1>1, <1>2, PTL DEF Spec

\* What is paid for stays bounded: the charges are under the ceiling, and no
\* record is sent more often than the retry limit allows.  The fresh runs
\* share no record; a worker cut off after it paid and before the state was
\* written is excluded, since the code then loses the job.
THEOREM PaidWorkCovered ==
  ASSUME "crash_unsaved" \notin Faults, IsFiniteSet(Runs),
         \A p, q \in Fresh : p # q => SourcesOf[p] \cap SourcesOf[q] = {}
  PROVE  Spec => []PaidWorkBounded
<1>1. PaidInv => PaidWorkBounded
  <2> SUFFICES ASSUME PaidInv
               PROVE  PaidWorkBounded
    OBVIOUS
  <2>1. SumFunctionOnSet([r \in Runs |-> Charge(r)], Runs) <= disk.ceiling
    BY ChargesCovered DEF PaidInv
  <2>2. \A s \in Source : Cardinality({r \in Runs : Sent(r) /\ s \in dir[r].asks}) <= RetryLimit
    BY SentTwice DEF PaidInv
  <2> QED  BY <2>1, <2>2 DEF PaidWorkBounded
<1>2. Spec => []PaidInv
  BY PaidAlways
<1> QED  BY <1>1, <1>2, PTL

-----------------------------------------------------------------------------
(* Records and ready rows: what the files say of the answers.              *)

\* The attempt the requests of a run are at.
Tries(r) == IF r \in Fresh THEN 1 ELSE 2

\* The files d of a run and its batch b: one record is filed as it was
\* answered, all of them are, or none is yet.
FiledAs(d, b, tries, s) ==
  /\ d.recs[s].state = StateAfter(b.out[s], tries) /\ d.recs[s].verdict = b.out[s]
  /\ d.recs[s].attempts = tries
  /\ s \in d.ready <=> b.out[s] = "accepted"
Filed(d, b, tries) == b.status = "ended" /\ \A s \in d.asks : FiledAs(d, b, tries, s)
Unfiled(d, tries) ==
  /\ d.ready = {}
  /\ \A s \in d.asks : /\ d.recs[s].state = "awaiting_llm" /\ d.recs[s].verdict = "none"
                       /\ d.recs[s].attempts = tries

\* A record of the parent is as the retry's batch b answered it; its ready
\* row is not there before the record says so.
MergedAs(d, b, s) ==
  /\ d.recs[s].state = StateAfter(b.out[s], 2) /\ d.recs[s].verdict = b.out[s]
  /\ s \in d.ready => b.out[s] = "accepted"

\* A parent (d, b) and its retry c (e, a): what is not asked again stays, what
\* is asked again is merged or not, and once c is marked all of it is.
Agree(d, b, e, a, c) ==
  /\ \A s \in d.asks \ e.asks : FiledAs(d, b, 1, s)
  /\ \A s \in e.asks : FiledAs(d, b, 1, s) \/ (Filed(e, a, 2) /\ MergedAs(d, a, s))
  /\ c \in d.merged =>
       /\ Filed(e, a, 2)
       /\ \A s \in e.asks : MergedAs(d, a, s) /\ (a.out[s] = "accepted" => s \in d.ready)

\* What a retry asks for still waits after the parent's batch b.
Waited(e, b) == b.status = "ended" /\ \A s \in e.asks : StateAfter(b.out[s], 1) = "awaiting_llm"

\* The runs a retry of which was submitted, and the runs whose files hold
\* the answers.
Touched == {p \in Fresh : \E c \in Retries : Open(Turn.st.jobs[c]) /\ Parents[c] = p}
Settled == {r \in Runs : r \in Touched \/ Filed(dir[r], server[r], Tries(r))}

StagesOk(st, done) ==
  \A r \in Runs : /\ st.jobs[r].retried => "reviewed" \in st.jobs[r].stages
                  /\ "reviewed" \in st.jobs[r].stages => "finalized" \in st.jobs[r].stages
                  /\ "finalized" \in st.jobs[r].stages => r \in done

RowInv ==
  /\ \A r \in Runs : server[r].status = "ended" => \A s \in dir[r].asks : server[r].out[s] # "none"
  /\ \A r \in Runs : dir[r].ready \subseteq dir[r].asks
  /\ \A r \in Runs : \/ r \in Touched \/ Unfiled(dir[r], Tries(r))
                     \/ Filed(dir[r], server[r], Tries(r))
  /\ \A c \in Retries : dir[c].stage # "none" => Waited(dir[c], server[dir[c].parent])
  /\ \A p \in Fresh, c \in Retries : c \in dir[p].merged => Open(Turn.st.jobs[c])
  /\ \A c \in Retries : Open(Turn.st.jobs[c]) =>
       Agree(dir[dir[c].parent], server[dir[c].parent], dir[c], server[c], c)
  /\ StagesOk(disk, Settled) /\ StagesOk(Turn.st, Settled)

\* A row that was loaded was accepted once, one that is held never can be.
LoadInv ==
  /\ \A s \in recipes : \E r \in Runs :
       s \in dir[r].asks /\ server[r].status = "ended" /\ server[r].out[s] = "accepted"
  /\ \A s \in held : \E r \in Runs :
       /\ s \in dir[r].asks /\ server[r].status = "ended"
       /\ StateAfter(server[r].out[s], Tries(r)) = "unresolved"

LEMMA OpensStay ==
  ASSUME TypeInv, SlotInv, "crash_unsaved" \notin Faults, Moves, NEW r \in Runs
  PROVE  /\ Open(Turn.st.jobs[r]) => Open(Turn'.st.jobs[r])
         /\ Open(Turn'.st.jobs[r]) => Open(Turn.st.jobs[r]) \/ Submits(r)
<1>0. /\ Turn.st \in States /\ Turn.st.jobs \in [Runs -> Jobs]
      /\ disk \in States /\ Fresh \subseteq Runs /\ Retries \subseteq Runs
  BY TurnTyped DEF Runs, TypeInv, TypeOK
<1> DEFINE Same == Open(Turn'.st.jobs[r]) <=> Open(Turn.st.jobs[r])
<1>1. ASSUME NEW q \in Runs,
             Reconciles(q) \/ Polls(q) \/ Passes(q) \/ Reviews(q) \/ MergesAll(q) \/ MergesSome(q)
      PROVE  Same
  <2>1. PICK pc \in {"poll", "review", "merge"} : Visits(pc, q)
    BY <1>1 DEF Reconciles, Polls, Passes, Reviews, MergesAll, MergesSome
  <2>2. Turn.st.jobs[q] \in Jobs
    BY <1>0
  <2>3. Open(Turn'.st.jobs[q]) <=> Open(Turn.st.jobs[q])
    BY <1>1, <2>2 DEF Reconciles, Polls, Passes, Reviews, Judges, MergesAll, MergesSome, Open, Jobs
  <2> QED  BY <2>1, <2>3 DEF Visits
<1>2. CASE Cuts \/ \E q \in Runs : LosesCollection(q)
  <2>1. Turn'.st = disk
    BY <1>2 DEF Cuts, LosesCollection, Loses
  <2>2. Open(Turn.st.jobs[r]) <=> Open(disk.jobs[r])
    BY <1>2 DEF Cuts, LosesCollection, SlotInv, Looping
  <2> QED  BY <2>1, <2>2
<1>3. CASE EndsPoll \/ EndsReview \/ EndsRefill \/ Writes \/ Rests \/ \E q \in Runs : Ends(q)
  <2>1. Turn'.st = Turn.st
    BY <1>3 DEF EndsPoll, EndsReview, EndsRefill, Turns, Writes, Rests, Ends, Idles
  <2> QED  BY <2>1
<1>4. CASE Begins
  <2>1. "version-change" \in StopReasons
    BY DEF StopReasons
  <2>2. SetStop(disk, "version-change").jobs = disk.jobs
    BY <1>0, <2>1, SetStopMoves
  <2>3. Turn.pc = "idle" /\ Turn'.st.jobs = disk.jobs
    BY <1>4, <2>2 DEF Begins, Turns
  <2> QED  BY <2>3, TurnTyped
<1>5. ASSUME NEW q \in Runs, Takes(q)
      PROVE  Same
  <2>1. Chooses(Turn.st, q, MaxCost(q))
    BY <1>5 DEF Takes
  <2>2. Turn'.st.jobs = Turn.st.jobs
    BY <1>0, <2>1, ChoosesMoves
  <2> QED  BY <2>2
<1>6. ASSUME NEW p \in Fresh, Refuses(p) \/ \E c \in Retries : Prepares(p, c)
      PROVE  Same
  <2> DEFINE st == [Turn.st EXCEPT !.jobs[p].retried = TRUE]
  <2>1. st \in States /\ (Open(st.jobs[r]) <=> Open(Turn.st.jobs[r]))
    BY RetriedKeeps
  <2>2. Refuses(p) => Turn'.st = st
    BY DEF Refuses, Turns
  <2>3. ASSUME NEW c \in Retries, Prepares(p, c)
        PROVE  Chooses(st, c, Cardinality(Eligible(p))) /\ c \in Runs
    BY <1>0, <2>3 DEF Prepares
  <2> HIDE DEF st
  <2>4. ASSUME NEW c \in Retries, Prepares(p, c)
        PROVE  Turn'.st.jobs = st.jobs
    BY <2>1, <2>3, <2>4, ChoosesMoves
  <2> QED  BY <1>6, <2>1, <2>2, <2>4
<1>7. ASSUME NEW q \in Runs, Submits(q)
      PROVE  Same \/ (Submits(r) /\ Open(Turn'.st.jobs[r]))
  <2>1. PICK job \in Jobs : Open(job) /\ Turn'.st = WithJob(Turn.st, q, job)
    BY <1>7 DEF Submits
  <2>2. Turn'.st.jobs = [Turn.st.jobs EXCEPT ![q] = job]
    BY <1>0, <2>1, WithJobMoves
  <2> QED  BY <1>0, <1>7, <2>1, <2>2
<1>8. Same \/ (Submits(r) /\ Open(Turn'.st.jobs[r]))
  BY <1>1, <1>2, <1>3, <1>4, <1>5, <1>6, <1>7 DEF Moves
<1> QED  BY <1>8

LEMMA TouchedStays ==
  ASSUME TypeInv, TypeInv', SlotInv, MoneyInv, FamilyInv, "crash_unsaved" \notin Faults, Moves
  PROVE  Touched \subseteq Touched'
<1> SUFFICES ASSUME NEW p \in Touched
             PROVE  p \in Touched'
  OBVIOUS
<1>1. PICK c \in Retries : Open(Turn.st.jobs[c]) /\ Parents[c] = p
  BY DEF Touched
<1>2. c \in Runs /\ p \in Fresh
  BY DEF Runs, Touched
<1>3. Open(Turn'.st.jobs[c])
  BY <1>1, <1>2, OpensStay
<1>4. Parents'[c] = p
  BY <1>1, ParentsStay
<1>5. Open(Turn.st.jobs[c])' = Open(Turn'.st.jobs[c])
  BY DEF Open
<1> QED  BY <1>1, <1>2, <1>3, <1>4, <1>5 DEF Touched

\* The batch of a run that the provider has ended is known to the turn, and
\* so is its directory.
LEMMA EndedIsKnown ==
  ASSUME SlotInv, MoneyInv, NEW r \in Runs, server[r].status = "ended" \/ Open(Turn.st.jobs[r])
  PROVE  Open(Turn.st.jobs[r]) /\ dir[r].stage # "none"
<1>1. Open(Turn.st.jobs[r])
  BY DEF SlotInv, Sent
<1>2. r \in World.known
  BY <1>1 DEF MoneyInv, Books, JobOk, NoJob, Open
<1> QED  BY <1>1, <1>2 DEF World

\* A run is finalized before any retry of it is under way.
LEMMA FinalizedInTime ==
  ASSUME PaidInv, RowInv, NEW q \in Runs, Visits("review", q),
         "finalized" \notin Turn.st.jobs[q].stages
  PROVE  q \notin Touched /\ server[q].status = "ended"
<1>1. server[q].status = "ended"
  <2>1. "collected" \in Turn.st.jobs[q].stages
    BY DEF Visits, PaidInv, MoneyInv
  <2>2. JobOk(q, Turn.st.jobs[q], World)
    BY DEF PaidInv, MoneyInv, Books
  <2> QED  BY <2>1, <2>2 DEF JobOk, World
<1>2. ~ Turn.st.jobs[q].retried
  BY DEF RowInv, StagesOk
<1>3. q \notin Touched
  BY <1>2 DEF Touched, PaidInv, FamilyInv, Marked
<1> QED  BY <1>1, <1>3

SameRows(d, e) == /\ e.asks = d.asks /\ e.parent = d.parent /\ e.recs = d.recs
                  /\ e.ready = d.ready /\ e.merged = d.merged

\* What a step may do to records and ready rows.
FinalizesRun(q) ==
  /\ dir' = Finalized(q) /\ Visits("review", q) /\ q \notin Touched /\ server[q].status = "ended"
  /\ "finalized" \notin Turn.st.jobs[q].stages
MergesRetry(c, k) ==
  /\ MergeWrites(c, k) /\ Open(Turn.st.jobs[c]) /\ Filed(dir[c], server[c], 2)
  /\ UNCHANGED server

LEMMA RowsMove ==
  ASSUME PaidInv, RowInv, Moves
  PROVE  \/ \A r \in Runs : SameRows(dir[r], dir'[r])
         \/ \E q \in Runs : FinalizesRun(q)
         \/ \E c \in Retries, k \in 0 .. Merges : MergesRetry(c, k)
         \/ \E p \in Fresh, c \in Retries : Prepares(p, c)
<1>1. ASSUME NEW q \in Runs, Calm(q)
      PROVE  \A r \in Runs : SameRows(dir[r], dir'[r])
  BY <1>1 DEF Calm, SameRows
<1>2. ASSUME NEW q \in Runs, dir' = Finalized(q), Visits("review", q),
             "finalized" \notin Turn.st.jobs[q].stages
      PROVE  FinalizesRun(q)
  BY <1>2, FinalizedInTime DEF FinalizesRun
<1>3. ASSUME NEW q \in Runs, NEW k \in 0 .. Merges, MergeWrites(q, k), Visits("merge", q)
      PROVE  q \in Retries /\ MergesRetry(q, k)
  <2>1. "reviewed" \in Turn.st.jobs[q].stages
    BY <1>3 DEF Visits, PaidInv, MoneyInv
  <2>2. JobOk(q, Turn.st.jobs[q], World)
    BY DEF PaidInv, MoneyInv, Books
  <2>3. Open(Turn.st.jobs[q])
    BY <2>1, <2>2 DEF JobOk
  <2>4. q \in Settled
    BY <2>1 DEF RowInv, StagesOk
  <2>5. q \in Retries
    <3>1. q \in Fresh => dir[q].parent = NoRun
      BY DEF PaidInv, FamilyInv
    <3>2. dir[q].parent \in Runs
      BY <1>3 DEF MergeWrites
    <3> QED  BY <3>1, <3>2, RunnerAssumption DEF Runs
  <2>6. q \notin Touched /\ Tries(q) = 2
    BY <2>5, RunnerAssumption DEF Touched, Tries
  <2>7. Filed(dir[q], server[q], 2)
    BY <2>4, <2>6 DEF Settled
  <2> QED  BY <1>3, <2>3, <2>5, <2>7 DEF MergesRetry, Visits
<1>4. CASE UNCHANGED dir
  BY <1>4 DEF SameRows
<1>5. DirMoves
  BY StepDirMoves DEF PaidInv
<1> QED  BY <1>1, <1>2, <1>3, <1>4, <1>5 DEF DirMoves

LEMMA FinalizeSettles ==
  ASSUME TypeOK, NEW q \in Runs, dir' = Finalized(q), UNCHANGED server,
         server[q].status = "ended",
         Unfiled(dir[q], Tries(q)) \/ Filed(dir[q], server[q], Tries(q))
  PROVE  Filed(dir'[q], server'[q], Tries(q))
<1>1. /\ dir'[q].asks = dir[q].asks
      /\ \A s \in dir[q].asks :
           /\ dir'[q].recs[s].state = StateAfter(server[q].out[s], dir[q].recs[s].attempts)
           /\ dir'[q].recs[s].verdict = server[q].out[s]
           /\ dir'[q].recs[s].attempts = dir[q].recs[s].attempts
      /\ dir'[q].ready = {s \in dir[q].asks : server[q].out[s] = "accepted"}
  BY FinalizedMoves
<1>2. \A s \in dir[q].asks : dir[q].recs[s].attempts = Tries(q)
  BY DEF Unfiled, Filed, FiledAs
<1> QED  BY <1>1, <1>2 DEF Filed, FiledAs

\* What is settled stays settled.
LEMMA SettledStays ==
  ASSUME PaidInv, PaidInv', RowInv, "crash_unsaved" \notin Faults, Moves
  PROVE  /\ Settled \subseteq Settled'
         /\ \A q \in Runs : FinalizesRun(q) => q \in Settled'
<1>0. Touched \subseteq Touched' /\ TypeOK
  BY TouchedStays DEF PaidInv, TypeInv
<1>1. ASSUME NEW q \in Runs, FinalizesRun(q)
      PROVE  Filed(dir'[q], server'[q], Tries(q))
  <2>1. /\ dir' = Finalized(q) /\ UNCHANGED server /\ server[q].status = "ended"
        /\ Unfiled(dir[q], Tries(q)) \/ Filed(dir[q], server[q], Tries(q))
    BY <1>1 DEF FinalizesRun, Visits, RowInv
  <2> QED  BY <1>0, <2>1, FinalizeSettles
<1>2. ASSUME NEW r \in Runs, r \notin Touched', r \notin Touched, Filed(dir[r], server[r], Tries(r))
      PROVE  Filed(dir'[r], server'[r], Tries(r))
  <2>1. server[r].status = "ended" /\ server'[r] = server[r] /\ dir[r].stage # "none"
    BY <1>2, BatchesStay, EndedIsKnown DEF Filed, PaidInv
  <2>2. CASE SameRows(dir[r], dir'[r])
    BY <1>2, <2>1, <2>2 DEF SameRows, Filed, FiledAs
  <2>3. ASSUME NEW q \in Runs, FinalizesRun(q)
        PROVE  Filed(dir'[r], server'[r], Tries(r))
    <3>1. \A v \in Runs \ {q} : dir'[v] = dir[v]
      BY <1>0, <2>3, FinalizedMoves DEF FinalizesRun
    <3> QED  BY <1>1, <1>2, <2>1, <2>3, <3>1
  <2>4. ASSUME NEW c \in Retries, NEW k \in 0 .. Merges, MergesRetry(c, k)
        PROVE  dir'[r] = dir[r]
    <3> DEFINE p == dir[c].parent
    <3>1. p \in Runs /\ c \in Runs /\ dir' = Merged(c, k) /\ Open(Turn.st.jobs[c])
      BY <2>4 DEF MergesRetry, MergeWrites, Runs
    <3>2. \A v \in Runs \ {p} : dir'[v] = dir[v]
      BY <1>0, <3>1, MergedMoves
    <3>3. dir[c].stage # "none"
      BY <3>1, EndedIsKnown DEF PaidInv
    <3>4. p \in Touched
      BY <3>1, <3>3 DEF Touched, Parents, PaidInv, FamilyInv
    <3> QED  BY <1>2, <3>2, <3>4
  <2>5. ASSUME NEW p \in Fresh, NEW c \in Retries, Prepares(p, c)
        PROVE  dir'[r] = dir[r]
    <3>1. (\A v \in Runs \ {c} : dir'[v] = dir[v]) /\ dir[c].stage = "none"
      BY <2>5, PreparesMoves DEF PaidInv
    <3> QED  BY <2>1, <3>1
  <2> QED  BY <1>2, <2>1, <2>2, <2>3, <2>4, <2>5, RowsMove
<1>3. \A r \in Runs : r \in Settled' <=> r \in Touched' \/ Filed(dir'[r], server'[r], Tries(r))
  BY DEF Settled
<1> QED  BY <1>0, <1>1, <1>2, <1>3 DEF Settled

LEMMA AnswersStay ==
  ASSUME PaidInv, RowInv, Moves, NEW r \in Runs, server'[r].status = "ended",
         NEW s \in dir'[r].asks
  PROVE  server'[r].out[s] # "none"
<1>1. CASE server[r].status = "ended"
  <2>1. server'[r] = server[r] /\ dir'[r].asks = dir[r].asks
    BY <1>1, BatchesStay, EndedIsKnown, DirectoriesStay DEF PaidInv
  <2> QED  BY <1>1, <2>1 DEF RowInv
<1>2. CASE server[r].status # "ended"
  <2>1. ASSUME NEW q \in Runs, Submits(q)
        PROVE  FALSE
    <3>1. TypeOK /\ (UNCHANGED server \/ server' = Created(q))
      BY <2>1 DEF Submits, PaidInv, TypeInv
    <3>2. server' = Created(q) =>
            server'[q].status = "in_progress" /\ \A v \in Runs \ {q} : server'[v] = server[v]
      BY <3>1, CreatedMoves
    <3> QED  BY <1>2, <3>1, <3>2
  <2>2. UNCHANGED server \/ \E q \in Runs : Ends(q)
    BY <2>1 DEF Moves, Reconciles, Polls, LosesCollection, Loses, Passes, Reviews, MergesAll,
             MergesSome, Visits, EndsPoll, EndsReview, Begins, EndsRefill, Turns, Takes,
             Refuses, Prepares, Writes, Cuts, Rests
  <2>3. Ends(r)
    BY <1>2, <2>2 DEF Ends
  <2> QED  BY <2>3 DEF Ends, Idles
<1> QED  BY <1>1, <1>2

\* Every file is unfiled, filed or has a retry under way.
LEMMA FilesStay ==
  ASSUME PaidInv, PaidInv', RowInv, "crash_unsaved" \notin Faults, Moves, NEW r \in Runs
  PROVE  /\ dir'[r].ready \subseteq dir'[r].asks
         /\ r \in Touched' \/ Unfiled(dir'[r], Tries(r)) \/ Filed(dir'[r], server'[r], Tries(r))
<1>0. TypeOK /\ Touched \subseteq Touched'
  BY TouchedStays DEF PaidInv, TypeInv
<1>1. /\ dir[r].ready \subseteq dir[r].asks
      /\ r \in Touched \/ Unfiled(dir[r], Tries(r)) \/ r \in Settled
  BY DEF RowInv, Settled
<1>2. r \in Settled => r \in Touched' \/ Filed(dir'[r], server'[r], Tries(r))
  <2>1. r \in Settled' => r \in Touched' \/ Filed(dir'[r], server'[r], Tries(r))
    BY DEF Settled
  <2> QED  BY <2>1, SettledStays
<1>3. CASE SameRows(dir[r], dir'[r])
  <2>1. dir'[r].ready \subseteq dir'[r].asks
    BY <1>1, <1>3 DEF SameRows
  <2>2. Unfiled(dir[r], Tries(r)) => Unfiled(dir'[r], Tries(r))
    BY <1>3 DEF SameRows, Unfiled
  <2> QED  BY <1>0, <1>1, <1>2, <2>1, <2>2
<1>4. CASE dir'[r] = dir[r]
  BY <1>3, <1>4 DEF SameRows
<1>5. ASSUME NEW q \in Runs, FinalizesRun(q)
      PROVE  /\ dir'[r].ready \subseteq dir'[r].asks
             /\ r \in Touched' \/ Unfiled(dir'[r], Tries(r)) \/ Filed(dir'[r], server'[r], Tries(r))
  <2>1. /\ \A v \in Runs \ {q} : dir'[v] = dir[v]
        /\ dir'[q].asks = dir[q].asks /\ dir'[q].ready \subseteq dir[q].asks
    BY <1>0, <1>5, FinalizedMoves DEF FinalizesRun
  <2>2. q \in Touched' \/ Filed(dir'[q], server'[q], Tries(q))
    <3>1. q \in Settled'
      BY <1>5, SettledStays
    <3> QED  BY <3>1 DEF Settled
  <2> QED  BY <1>4, <2>1, <2>2
<1>6. ASSUME NEW c \in Retries, NEW k \in 0 .. Merges, MergesRetry(c, k)
      PROVE  /\ dir'[r].ready \subseteq dir'[r].asks
             /\ r \in Touched' \/ dir'[r] = dir[r]
  <2> DEFINE p == dir[c].parent
  <2>1. p \in Runs /\ c \in Runs /\ dir' = Merged(c, k) /\ Open(Turn.st.jobs[c])
    BY <1>6 DEF MergesRetry, MergeWrites, Runs
  <2>2. /\ \A v \in Runs \ {p} : dir'[v] = dir[v]
        /\ dir'[p].asks = dir[p].asks
        /\ dir'[p].ready = IF k < 2 THEN dir[p].ready ELSE dir[p].ready \cup dir[c].ready
    BY <1>0, <2>1, MergedMoves
  <2>3. dir[c].stage # "none"
    BY <2>1, EndedIsKnown DEF PaidInv
  <2>4. p \in Touched /\ dir[c].asks \subseteq dir[p].asks
    BY <2>1, <2>3 DEF Touched, Parents, PaidInv, FamilyInv
  <2>5. dir[c].ready \subseteq dir[c].asks /\ dir[p].ready \subseteq dir[p].asks
    BY <2>1 DEF RowInv
  <2> HIDE DEF p
  <2> QED  BY <1>0, <1>1, <2>2, <2>4, <2>5
<1>7. ASSUME NEW p \in Fresh, NEW c \in Retries, Prepares(p, c)
      PROVE  /\ dir'[r].ready \subseteq dir'[r].asks
             /\ dir'[r] = dir[r] \/ Unfiled(dir'[r], Tries(r))
  <2>1. /\ \A q \in Runs \ {c} : dir'[q] = dir[q]
        /\ dir'[c].asks = Eligible(p) /\ dir'[c].ready = {} /\ p \in Runs
        /\ \A s \in Eligible(p) :
             /\ dir'[c].recs[s].state = "awaiting_llm"
             /\ dir'[c].recs[s].verdict = "none"
             /\ dir'[c].recs[s].attempts = dir[p].recs[s].attempts + 1
    BY <1>7, PreparesMoves DEF PaidInv
  <2>2. p \notin Touched
    <3>1. ~ Turn.st.jobs[p].retried
      BY <1>7 DEF Prepares, Retriable
    <3> QED  BY <3>1 DEF Touched, PaidInv, FamilyInv, Marked
  <2>3. \A s \in dir[p].asks : dir[p].recs[s].attempts = 1
    <3>1. Unfiled(dir[p], 1) \/ Filed(dir[p], server[p], 1)
      BY <2>1, <2>2 DEF RowInv, Tries
    <3> QED  BY <3>1 DEF Unfiled, Filed, FiledAs
  <2>4. \A s \in Eligible(p) : dir'[c].recs[s].attempts = 2
    BY <2>1, <2>3 DEF Eligible
  <2>5. Tries(c) = 2
    BY RunnerAssumption DEF Tries
  <2>6. Unfiled(dir'[c], Tries(c))
    BY <2>1, <2>4, <2>5 DEF Unfiled
  <2> QED  BY <1>1, <2>1, <2>6
<1> QED  BY <1>3, <1>4, <1>5, <1>6, <1>7, RowsMove

LEMMA WaitsStay ==
  ASSUME PaidInv, RowInv, Moves, NEW c \in Retries, dir'[c].stage # "none"
  PROVE  Waited(dir'[c], server'[dir'[c].parent])
<1>0. c \in Runs /\ Fresh \subseteq Runs
  BY DEF Runs
<1>1. CASE dir[c].stage # "none"
  <2>1. dir'[c].asks = dir[c].asks /\ dir'[c].parent = dir[c].parent
    BY <1>0, <1>1, DirectoriesStay DEF PaidInv
  <2>2. dir[c].parent \in Runs /\ Waited(dir[c], server[dir[c].parent])
    BY <1>0, <1>1 DEF RowInv, PaidInv, FamilyInv
  <2>3. server'[dir[c].parent] = server[dir[c].parent]
    BY <2>2, BatchesStay DEF Waited, PaidInv
  <2> QED  BY <2>1, <2>2, <2>3 DEF Waited
<1>2. CASE dir[c].stage = "none"
  <2>1. PICK p \in Fresh : Prepares(p, c)
    BY <1>0, <1>2, DirectoriesNew DEF PaidInv
  <2>2. dir'[c].parent = p /\ dir'[c].asks = Eligible(p)
    BY <2>1, PreparesMoves DEF PaidInv
  <2>3. p \in Retriable(Turn.st) /\ server' = server
    BY <2>1 DEF Prepares
  <2>4. p \notin Touched
    BY <2>3 DEF Retriable, Touched, PaidInv, FamilyInv, Marked
  <2>5. p \in Settled
    BY <2>3 DEF Retriable, RowInv, StagesOk
  <2>6. Filed(dir[p], server[p], 1)
    BY <2>4, <2>5 DEF Settled, Tries
  <2>7. \A s \in Eligible(p) : StateAfter(server[p].out[s], 1) = "awaiting_llm"
    BY <2>6 DEF Eligible, Filed, FiledAs
  <2> QED  BY <2>2, <2>3, <2>6, <2>7 DEF Waited, Filed
<1> QED  BY <1>1, <1>2

LEMMA MarksStay ==
  ASSUME PaidInv, RowInv, "crash_unsaved" \notin Faults, Moves,
         NEW p \in Fresh, NEW c \in Retries, c \in dir'[p].merged
  PROVE  Open(Turn'.st.jobs[c])
<1>0. c \in Runs /\ p \in Runs /\ TypeOK
  BY DEF Runs, PaidInv, TypeInv
<1>1. c \in dir[p].merged \/ Open(Turn.st.jobs[c])
  <2>1. CASE SameRows(dir[p], dir'[p])
    BY <2>1 DEF SameRows
  <2>2. ASSUME NEW q \in Runs, FinalizesRun(q)
        PROVE  c \in dir[p].merged
    <3>1. (\A v \in Runs \ {q} : dir'[v] = dir[v]) /\ dir'[q].merged = {}
      BY <1>0, <2>2, FinalizedMoves DEF FinalizesRun
    <3> QED  BY <1>0, <3>1
  <2>3. ASSUME NEW d \in Retries, NEW k \in 0 .. Merges, MergesRetry(d, k)
        PROVE  c \in dir[p].merged \/ Open(Turn.st.jobs[c])
    <3> DEFINE q == dir[d].parent
    <3>1. q \in Runs /\ d \in Runs /\ dir' = Merged(d, k) /\ Open(Turn.st.jobs[d])
      BY <2>3 DEF MergesRetry, MergeWrites, Runs
    <3>2. /\ \A v \in Runs \ {q} : dir'[v] = dir[v]
          /\ dir'[q].merged = IF k < 3 THEN dir[q].merged ELSE dir[q].merged \cup {d}
      BY <1>0, <3>1, MergedMoves
    <3> HIDE DEF q
    <3> QED  BY <1>0, <3>1, <3>2
  <2>4. ASSUME NEW q \in Fresh, NEW d \in Retries, Prepares(q, d)
        PROVE  c \in dir[p].merged
    <3>1. \A v \in Runs \ {d} : dir'[v] = dir[v]
      BY <2>4, PreparesMoves DEF PaidInv
    <3> QED  BY <1>0, <3>1, RunnerAssumption
  <2> QED  BY <1>0, <2>1, <2>2, <2>3, <2>4, RowsMove
<1>2. Open(Turn.st.jobs[c])
  BY <1>1 DEF RowInv
<1> QED  BY <1>0, <1>2, OpensStay DEF PaidInv

\* Only an accepted answer is ready, and it is nothing else.
LEMMA StatesApart ==
  ASSUME NEW v, NEW n
  PROVE  /\ StateAfter(v, n) = "ready_to_load" <=> v = "accepted"
         /\ StateAfter(v, n) \in {"ready_to_load", "unresolved", "awaiting_llm"}
<1>1. CASE v = "accepted"
  BY <1>1 DEF StateAfter
<1>2. CASE v # "accepted"
  <2>1. CASE v = "settled"
    BY <1>2, <2>1 DEF StateAfter
  <2>2. CASE v # "settled" /\ n < RetryLimit
    BY <1>2, <2>2 DEF StateAfter
  <2>3. CASE v # "settled" /\ ~ (n < RetryLimit)
    BY <1>2, <2>3 DEF StateAfter
  <2> QED  BY <1>2, <2>1, <2>2, <2>3
<1> QED  BY <1>1, <1>2

LEMMA AgreeKept ==
  ASSUME NEW d, NEW b, NEW e, NEW a, NEW c, Agree(d, b, e, a, c),
         NEW d2, NEW e2, NEW a2, SameRows(d, d2), SameRows(e, e2),
         a.status = "ended" => a2 = a
  PROVE  Agree(d2, b, e2, a2, c)
<1>1. Filed(e, a, 2) => a2 = a /\ Filed(e2, a2, 2)
  BY DEF Filed, FiledAs, SameRows
<1> QED  BY <1>1 DEF Agree, FiledAs, MergedAs, SameRows

\* The retry is finalized.
LEMMA AgreeFiled ==
  ASSUME NEW d, NEW b, NEW e, NEW a, NEW c, Agree(d, b, e, a, c),
         NEW e2, e2.asks = e.asks, Filed(e2, a, 2)
  PROVE  Agree(d, b, e2, a, c)
BY DEF Agree

\* The retry is submitted: its parent is as it was finalized.
LEMMA AgreeFirst ==
  ASSUME NEW d, NEW b, NEW e, NEW a, NEW c, Filed(d, b, 1), c \notin d.merged,
         e.asks \subseteq d.asks
  PROVE  Agree(d, b, e, a, c)
BY DEF Agree, Filed

\* The first k writes of a merge.
LEMMA AgreeMerged ==
  ASSUME NEW d, NEW b, NEW e, NEW a, NEW c, Agree(d, b, e, a, c), NEW k \in 0 .. 3,
         Filed(e, a, 2), Waited(e, b), e.ready \subseteq e.asks, e.asks \subseteq Source,
         d.asks \subseteq Source, NEW f, f.asks = d.asks,
         \A s \in Source :
              IF k < 1 \/ s \notin e.asks THEN f.recs[s] = d.recs[s]
              ELSE /\ f.recs[s].state = e.recs[s].state
                   /\ f.recs[s].verdict = e.recs[s].verdict,
         f.ready = IF k < 2 THEN d.ready ELSE d.ready \cup e.ready,
         f.merged = IF k < 3 THEN d.merged ELSE d.merged \cup {c}
  PROVE  Agree(f, b, e, a, c)
<1>1. \A s \in f.asks \ e.asks : FiledAs(f, b, 1, s)
  <2> SUFFICES ASSUME NEW s \in d.asks \ e.asks PROVE FiledAs(f, b, 1, s)
    OBVIOUS
  <2>1. f.recs[s] = d.recs[s] /\ (s \in f.ready <=> s \in d.ready)
    OBVIOUS
  <2> QED  BY <2>1 DEF Agree, FiledAs
<1>2. \A s \in e.asks : s \in d.ready => a.out[s] = "accepted"
  <2> SUFFICES ASSUME NEW s \in e.asks, s \in d.ready PROVE a.out[s] = "accepted"
    OBVIOUS
  <2>1. FiledAs(d, b, 1, s) \/ MergedAs(d, a, s)
    BY DEF Agree
  <2>2. b.out[s] # "accepted"
    <3>1. StateAfter(b.out[s], 1) = "awaiting_llm"
      BY DEF Waited
    <3> QED  BY <3>1, StatesApart
  <2> QED  BY <2>1, <2>2 DEF FiledAs, MergedAs
<1>3. \A s \in e.asks : s \in f.ready => a.out[s] = "accepted"
  BY <1>2 DEF Filed, FiledAs
<1>4. k >= 1 => \A s \in e.asks : MergedAs(f, a, s)
  BY <1>3 DEF Filed, FiledAs, MergedAs
<1>5. CASE k = 0
  <2>1. \A s \in e.asks : f.recs[s] = d.recs[s]
    BY <1>5
  <2>2. f.ready = d.ready /\ f.merged = d.merged
    BY <1>5
  <2> QED  BY <1>1, <2>1, <2>2 DEF Agree, FiledAs, MergedAs
<1>6. CASE k >= 1
  <2>1. c \in f.merged => \A s \in e.asks : a.out[s] = "accepted" => s \in f.ready
    <3>1. CASE k = 3
      BY <3>1 DEF Filed, FiledAs
    <3>2. CASE k < 3
      BY <3>2 DEF Agree
    <3> QED  BY <3>1, <3>2
  <2> QED  BY <1>1, <1>4, <1>6, <2>1 DEF Agree
<1> QED  BY <1>5, <1>6

LEMMA AgreeStays ==
  ASSUME PaidInv, PaidInv', RowInv, "crash_unsaved" \notin Faults, Moves,
         NEW c \in Retries, Open(Turn'.st.jobs[c])
  PROVE  Agree(dir'[dir'[c].parent], server'[dir'[c].parent], dir'[c], server'[c], c)
<1> DEFINE p == dir[c].parent
<1>0. c \in Runs /\ TypeOK /\ c \notin Fresh
  BY RunnerAssumption DEF Runs, PaidInv, TypeInv
<1>1. CASE Open(Turn.st.jobs[c])
  <2>1. /\ dir[c].stage # "none" /\ p \in Fresh /\ p \in Runs
        /\ dir[c].asks \subseteq dir[p].asks /\ p \in Touched
    <3>1. dir[c].stage # "none"
      BY <1>0, <1>1, EndedIsKnown DEF PaidInv
    <3> QED  BY <1>0, <1>1, <3>1 DEF PaidInv, FamilyInv, Touched, Parents, Runs
  <2>2. dir'[c].parent = p /\ dir'[c].asks = dir[c].asks
    BY <1>0, <2>1, DirectoriesStay DEF PaidInv
  <2>3. Agree(dir[p], server[p], dir[c], server[c], c) /\ Waited(dir[c], server[p])
    BY <1>1, <2>1 DEF RowInv
  <2>4. server'[p] = server[p] /\ (server[c].status = "ended" => server'[c] = server[c])
    BY <1>0, <2>1, <2>3, BatchesStay DEF Waited, PaidInv
  <2> HIDE DEF p
  <2>5. CASE SameRows(dir[p], dir'[p]) /\ SameRows(dir[c], dir'[c])
    BY <2>2, <2>3, <2>4, <2>5, AgreeKept
  <2>6. CASE dir'[p] = dir[p] /\ dir'[c] = dir[c]
    BY <2>5, <2>6 DEF SameRows
  <2>7. ASSUME NEW q \in Runs, FinalizesRun(q)
        PROVE  Agree(dir'[dir'[c].parent], server'[dir'[c].parent], dir'[c], server'[c], c)
    <3>1. q # p /\ \A v \in Runs \ {q} : dir'[v] = dir[v]
      BY <1>0, <2>1, <2>7, FinalizedMoves DEF FinalizesRun
    <3>2. CASE q = c
      <4>1. /\ dir' = Finalized(q) /\ UNCHANGED server /\ server[q].status = "ended"
            /\ Unfiled(dir[q], Tries(q)) \/ Filed(dir[q], server[q], Tries(q))
        BY <2>7 DEF FinalizesRun, Visits, RowInv
      <4>2. Filed(dir'[q], server'[q], Tries(q))
        BY <1>0, <4>1, FinalizeSettles
      <4>3. Filed(dir'[c], server[c], 2)
        BY <1>0, <3>2, <4>1, <4>2 DEF Tries
      <4>4. Agree(dir[p], server[p], dir'[c], server[c], c)
        BY <2>2, <2>3, <4>3, AgreeFiled
      <4> QED  BY <2>1, <2>2, <3>1, <4>1, <4>4
    <3>3. CASE q # c
      BY <1>0, <2>1, <2>6, <3>1, <3>3
    <3> QED  BY <3>2, <3>3
  <2>8. ASSUME NEW d \in Retries, NEW k \in 0 .. Merges, MergesRetry(d, k)
        PROVE  Agree(dir'[dir'[c].parent], server'[dir'[c].parent], dir'[c], server'[c], c)
    <3> DEFINE q == dir[d].parent
    <3>1. q \in Runs /\ d \in Runs /\ dir' = Merged(d, k) /\ Open(Turn.st.jobs[d])
      BY <2>8 DEF MergesRetry, MergeWrites, Runs
    <3>2. /\ \A v \in Runs \ {q} : dir'[v] = dir[v]
          /\ dir'[q].asks = dir[q].asks
          /\ \A s \in Source :
              IF k < 1 \/ s \notin dir[d].asks THEN dir'[q].recs[s] = dir[q].recs[s]
              ELSE /\ dir'[q].recs[s].state = dir[d].recs[s].state
                   /\ dir'[q].recs[s].verdict = dir[d].recs[s].verdict
          /\ dir'[q].ready = IF k < 2 THEN dir[q].ready ELSE dir[q].ready \cup dir[d].ready
          /\ dir'[q].merged = IF k < 3 THEN dir[q].merged ELSE dir[q].merged \cup {d}
      <4>1. /\ dir' \in [Runs -> Dirs]
            /\ \A v \in Runs \ {q} : dir'[v] = dir[v]
            /\ dir'[q].parent = dir[q].parent /\ dir'[q].asks = dir[q].asks
            /\ dir'[q].batch = dir[q].batch /\ dir'[q].stage = dir[q].stage
            /\ \A s \in Source :
                IF k < 1 \/ s \notin dir[d].asks THEN dir'[q].recs[s] = dir[q].recs[s]
                ELSE /\ dir'[q].recs[s].state = dir[d].recs[s].state
                     /\ dir'[q].recs[s].verdict = dir[d].recs[s].verdict
                     /\ dir'[q].recs[s].attempts >= dir[d].recs[s].attempts
                     /\ dir'[q].recs[s].attempts >= dir[q].recs[s].attempts
                     /\ dir'[q].recs[s].attempts
                          \in {dir[d].recs[s].attempts, dir[q].recs[s].attempts}
            /\ dir'[q].ready = IF k < 2 THEN dir[q].ready ELSE dir[q].ready \cup dir[d].ready
            /\ dir'[q].merged = IF k < 3 THEN dir[q].merged ELSE dir[q].merged \cup {d}
        BY <1>0, <3>1, MergedMoves
      <4> HIDE DEF q
      <4> QED  BY <4>1
    <3>3. q \in Fresh
      <4>1. dir[d].stage # "none"
        BY <3>1, EndedIsKnown DEF PaidInv
      <4> QED  BY <4>1 DEF PaidInv, FamilyInv
    <3>4. q = p => d = c
      BY <1>0, <1>1, <3>1 DEF p, PaidInv, FamilyInv, Single, Parents
    <3> HIDE DEF q
    <3>5. CASE q # p
      <4>1. dir'[p] = dir[p] /\ dir'[c] = dir[c]
        BY <1>0, <2>1, <3>2, <3>3, <3>5
      <4> QED  BY <2>6, <4>1
    <3>6. CASE q = p
      <4>1. d = c /\ dir'[c] = dir[c] /\ server' = server /\ Filed(dir[c], server[c], 2)
        BY <1>0, <2>8, <3>2, <3>3, <3>4, <3>6 DEF MergesRetry
      <4>2. k \in 0 .. 3
        BY DEF Merges
      <4>3. dir[c].ready \subseteq dir[c].asks /\ dir[c].asks \subseteq Source /\ dir[p].asks \subseteq Source
        BY <1>0, <2>1 DEF RowInv, TypeOK, RunnerTypeOK, Dirs
      <4>4. /\ dir'[p].asks = dir[p].asks
            /\ \A s \in Source :
                IF k < 1 \/ s \notin dir[c].asks THEN dir'[p].recs[s] = dir[p].recs[s]
                ELSE /\ dir'[p].recs[s].state = dir[c].recs[s].state
                     /\ dir'[p].recs[s].verdict = dir[c].recs[s].verdict
            /\ dir'[p].ready = IF k < 2 THEN dir[p].ready ELSE dir[p].ready \cup dir[c].ready
            /\ dir'[p].merged = IF k < 3 THEN dir[p].merged ELSE dir[p].merged \cup {c}
        BY <3>2, <3>6, <4>1
      <4>5. Agree(dir'[p], server[p], dir[c], server[c], c)
        BY <2>3, <4>1, <4>2, <4>3, <4>4, AgreeMerged
      <4> QED  BY <2>2, <4>1, <4>5
    <3> QED  BY <3>5, <3>6
  <2>9. ASSUME NEW q \in Fresh, NEW d \in Retries, Prepares(q, d)
        PROVE  dir'[p] = dir[p] /\ dir'[c] = dir[c]
    <3>1. (\A v \in Runs \ {d} : dir'[v] = dir[v]) /\ dir[d].stage = "none"
      BY <2>9, PreparesMoves DEF PaidInv
    <3> QED  BY <1>0, <2>1, <3>1, RunnerAssumption
  <2> QED  BY <1>0, <2>1, <2>5, <2>6, <2>7, <2>8, <2>9, RowsMove
<1>2. CASE ~ Open(Turn.st.jobs[c])
  <2>1. Submits(c)
    BY <1>0, <1>2, OpensStay DEF PaidInv
  <2>2. Turn.pc = "submit" /\ Turn.run = c /\ Calm(c)
    BY <2>1 DEF Submits
  <2>3. dir[c].stage # "none"
    BY <1>0, <2>2 DEF PaidInv, MoneyInv, World
  <2>4. p \in Fresh /\ p \in Runs /\ dir[c].asks \subseteq dir[p].asks /\ Parents[c] = p
    BY <1>0, <2>3 DEF PaidInv, FamilyInv, Parents, Runs
  <2>5. p \notin Touched /\ Turn.st.jobs[p].retried
    BY <2>2, <2>4 DEF Touched, PaidInv, FamilyInv
  <2>6. Filed(dir[p], server[p], 1)
    <3>1. p \in Settled
      BY <2>4, <2>5 DEF RowInv, StagesOk
    <3> QED  BY <2>4, <2>5, <3>1 DEF Settled, Tries
  <2>7. c \notin dir[p].merged
    BY <1>2, <2>4 DEF RowInv
  <2>8. server'[p] = server[p]
    BY <2>4, <2>6, BatchesStay DEF Filed, PaidInv
  <2>9. /\ dir'[c].parent = p /\ dir'[c].asks = dir[c].asks
        /\ dir'[p].asks = dir[p].asks /\ dir'[p].recs = dir[p].recs
        /\ dir'[p].ready = dir[p].ready /\ dir'[p].merged = dir[p].merged
    BY <1>0, <2>2, <2>4 DEF Calm
  <2> HIDE DEF p
  <2>10. Filed(dir'[p], server'[p], 1) /\ c \notin dir'[p].merged /\ dir'[c].asks \subseteq dir'[p].asks
    BY <2>4, <2>6, <2>7, <2>8, <2>9 DEF Filed, FiledAs
  <2>11. Agree(dir'[p], server'[p], dir'[c], server'[c], c)
    BY <2>10, AgreeFirst
  <2> QED  BY <2>9, <2>11
<1> QED  BY <1>1, <1>2

LEMMA StagesGrow ==
  ASSUME NEW st, NEW done, NEW more, StagesOk(st, done), done \subseteq more
  PROVE  StagesOk(st, more)
BY DEF StagesOk

LEMMA StagesVisit ==
  ASSUME NEW st, NEW new, NEW done, StagesOk(st, done), NEW r \in Runs,
         \A q \in Runs \ {r} : new.jobs[q] = st.jobs[q],
         new.jobs[r].retried => "reviewed" \in new.jobs[r].stages,
         "reviewed" \in new.jobs[r].stages => "finalized" \in new.jobs[r].stages,
         "finalized" \in new.jobs[r].stages => r \in done
  PROVE  StagesOk(new, done)
BY DEF StagesOk

LEMMA StagesStay ==
  ASSUME PaidInv, PaidInv', RowInv, "crash_unsaved" \notin Faults, Moves
  PROVE  StagesOk(disk', Settled') /\ StagesOk(Turn'.st, Settled')
<1>0. /\ Turn.st \in States /\ Turn.st.jobs \in [Runs -> Jobs]
      /\ disk \in States /\ Fresh \subseteq Runs /\ Retries \subseteq Runs
  BY TurnTyped DEF Runs, PaidInv, TypeInv, TypeOK
<1>1. StagesOk(disk, Settled') /\ StagesOk(Turn.st, Settled')
  <2>1. Settled \subseteq Settled' /\ StagesOk(disk, Settled) /\ StagesOk(Turn.st, Settled)
    BY SettledStays DEF RowInv
  <2> QED  BY <2>1, StagesGrow
<1>2. ASSUME disk' = disk \/ disk' = Turn.st,
             Turn'.st.jobs = Turn.st.jobs \/ Turn'.st.jobs = disk.jobs
      PROVE  StagesOk(disk', Settled') /\ StagesOk(Turn'.st, Settled')
  BY <1>1, <1>2 DEF StagesOk
<1>3. ASSUME NEW r \in Runs, disk' = disk,
             \A q \in Runs \ {r} : Turn'.st.jobs[q] = Turn.st.jobs[q],
             Turn'.st.jobs[r].retried => "reviewed" \in Turn'.st.jobs[r].stages,
             "reviewed" \in Turn'.st.jobs[r].stages => "finalized" \in Turn'.st.jobs[r].stages,
             "finalized" \in Turn'.st.jobs[r].stages => r \in Settled'
      PROVE  StagesOk(disk', Settled') /\ StagesOk(Turn'.st, Settled')
  BY <1>1, <1>3, StagesVisit
<1>4. ASSUME NEW r \in Runs
      PROVE  /\ Turn.st.jobs[r].retried => "reviewed" \in Turn.st.jobs[r].stages
             /\ "reviewed" \in Turn.st.jobs[r].stages => "finalized" \in Turn.st.jobs[r].stages
             /\ "finalized" \in Turn.st.jobs[r].stages => r \in Settled'
             /\ Turn.st.jobs[r] \in Jobs
  BY <1>0, <1>1 DEF StagesOk
<1>5. ASSUME NEW r \in Runs, Files(r), Visits("review", r)
      PROVE  r \in Settled'
  <2>1. "finalized" \notin Turn.st.jobs[r].stages => FinalizesRun(r)
    BY <1>5, FinalizedInTime DEF Files, FinalizesRun
  <2> QED  BY <1>4, <2>1, SettledStays
<1>6. ASSUME NEW r \in Runs,
             Reconciles(r) \/ Polls(r) \/ MergesAll(r) \/ MergesSome(r)
      PROVE  StagesOk(disk', Settled') /\ StagesOk(Turn'.st, Settled')
  <2>1. PICK pc \in {"poll", "review", "merge"} : Visits(pc, r)
    BY <1>6 DEF Reconciles, Polls, MergesAll, MergesSome
  <2>2. disk' = disk /\ \A q \in Runs \ {r} : Turn'.st.jobs[q] = Turn.st.jobs[q]
    BY <2>1 DEF Visits
  <2>3. /\ Turn'.st.jobs[r].retried = Turn.st.jobs[r].retried
        /\ "reviewed" \in Turn'.st.jobs[r].stages <=> "reviewed" \in Turn.st.jobs[r].stages
        /\ "finalized" \in Turn'.st.jobs[r].stages <=> "finalized" \in Turn.st.jobs[r].stages
    BY <1>4, <1>6 DEF Reconciles, Keeps, Polls, Accounts, MergesAll, MergesSome, Jobs
  <2> QED  BY <1>3, <1>4, <2>2, <2>3
<1>7. ASSUME NEW r \in Runs, Passes(r) \/ Reviews(r)
      PROVE  StagesOk(disk', Settled') /\ StagesOk(Turn'.st, Settled')
  <2>1. Visits("review", r)
    BY <1>7 DEF Passes, Reviews
  <2>2. disk' = disk /\ \A q \in Runs \ {r} : Turn'.st.jobs[q] = Turn.st.jobs[q]
    BY <2>1 DEF Visits
  <2>3. /\ Turn'.st.jobs[r].retried = Turn.st.jobs[r].retried
        /\ \/ Turn'.st.jobs[r].stages = Turn.st.jobs[r].stages
           \/ Files(r) /\ Turn'.st.jobs[r].stages = Turn.st.jobs[r].stages \cup {"finalized"}
           \/ Files(r) /\ Turn'.st.jobs[r].stages = Turn.st.jobs[r].stages \cup {"finalized", "reviewed"}
    BY <1>4, <1>7 DEF Passes, Reviews, Judges, Jobs
  <2> QED  BY <1>3, <1>4, <1>5, <2>1, <2>2, <2>3
<1>8. CASE \/ EndsPoll \/ EndsReview \/ EndsRefill \/ Writes \/ Cuts \/ Rests
           \/ \E r \in Runs : Ends(r) \/ LosesCollection(r)
  <2>1. (disk' = disk \/ disk' = Turn.st) /\ (Turn'.st = Turn.st \/ Turn'.st = disk)
    BY <1>8 DEF EndsPoll, EndsReview, EndsRefill, Turns, Writes, Cuts, LosesCollection, Loses,
                Rests, Ends, Idles
  <2> QED  BY <1>2, <2>1
<1>9. CASE Begins
  <2>1. "version-change" \in StopReasons
    BY DEF StopReasons
  <2>2. SetStop(disk, "version-change").jobs = disk.jobs
    BY <1>0, <2>1, SetStopMoves
  <2>3. disk' = disk /\ Turn'.st.jobs = disk.jobs
    BY <1>9, <2>2 DEF Begins, Turns
  <2> QED  BY <1>2, <2>3
<1>10. ASSUME NEW r \in Runs, Takes(r)
       PROVE  StagesOk(disk', Settled') /\ StagesOk(Turn'.st, Settled')
  <2>1. Chooses(Turn.st, r, MaxCost(r)) /\ disk' = disk
    BY <1>10 DEF Takes
  <2>2. Turn'.st.jobs = Turn.st.jobs
    BY <1>0, <2>1, ChoosesMoves
  <2> QED  BY <1>2, <2>1, <2>2
<1>11. ASSUME NEW p \in Fresh, Refuses(p) \/ \E c \in Retries : Prepares(p, c)
       PROVE  StagesOk(disk', Settled') /\ StagesOk(Turn'.st, Settled')
  <2> DEFINE st == [Turn.st EXCEPT !.jobs[p].retried = TRUE]
  <2>0. TypeInv
    BY DEF PaidInv
  <2>1. /\ st \in States /\ \A q \in Runs \ {p} : st.jobs[q] = Turn.st.jobs[q]
        /\ \A q \in Runs : st.jobs[q].stages = Turn.st.jobs[q].stages
    BY <2>0, RetriedKeeps
  <2>2. Refuses(p) => Turn'.st = st /\ disk' = disk
    BY DEF Refuses, Turns
  <2>3. ASSUME NEW c \in Retries, Prepares(p, c)
        PROVE  Chooses(st, c, Cardinality(Eligible(p))) /\ disk' = disk /\ c \in Runs
    BY <1>0, <2>3 DEF Prepares
  <2> HIDE DEF st
  <2>4. ASSUME NEW c \in Retries, Prepares(p, c)
        PROVE  Turn'.st.jobs = st.jobs
    BY <2>1, <2>3, <2>4, ChoosesMoves
  <2>5. Turn'.st.jobs = st.jobs /\ disk' = disk
    BY <1>11, <2>2, <2>3, <2>4
  <2>6. p \in Retriable(Turn.st)
    BY <1>11 DEF Refuses, Prepares
  <2>7. p \in Runs /\ "reviewed" \in Turn.st.jobs[p].stages
    BY <2>6 DEF Retriable
  <2> QED  BY <1>3, <1>4, <2>1, <2>5, <2>7
<1>12. ASSUME NEW r \in Runs, Submits(r)
       PROVE  StagesOk(disk', Settled') /\ StagesOk(Turn'.st, Settled')
  <2>1. PICK job \in Jobs :
          /\ \/ job.stages = {} /\ job.retried = FALSE
             \/ job.stages = Turn.st.jobs[r].stages /\ job.retried = Turn.st.jobs[r].retried
          /\ Turn'.st = WithJob(Turn.st, r, job)
    BY <1>12 DEF Submits
  <2>2. Turn'.st.jobs = [Turn.st.jobs EXCEPT ![r] = job]
    BY <1>0, <2>1, WithJobMoves
  <2>3. Turn'.st.jobs[r] = job /\ \A q \in Runs \ {r} : Turn'.st.jobs[q] = Turn.st.jobs[q]
    BY <1>0, <2>2
  <2>4. disk' = disk
    BY <1>12 DEF Submits
  <2> QED  BY <1>3, <1>4, <2>1, <2>3, <2>4
<1> QED  BY <1>6, <1>7, <1>8, <1>9, <1>10, <1>11, <1>12 DEF Moves

LEMMA RowStep ==
  ASSUME PaidInv, PaidInv', RowInv, "crash_unsaved" \notin Faults, Moves
  PROVE  RowInv'
<1>1. \A r \in Runs : server'[r].status = "ended" => \A s \in dir'[r].asks : server'[r].out[s] # "none"
  BY AnswersStay
<1>2. \A r \in Runs :
        /\ dir'[r].ready \subseteq dir'[r].asks
        /\ r \in Touched' \/ Unfiled(dir'[r], Tries(r)) \/ Filed(dir'[r], server'[r], Tries(r))
  BY FilesStay
<1>3. \A c \in Retries : dir'[c].stage # "none" => Waited(dir'[c], server'[dir'[c].parent])
  BY WaitsStay
<1>4. \A p \in Fresh, c \in Retries : c \in dir'[p].merged => Open(Turn'.st.jobs[c])
  BY MarksStay
<1>5. \A c \in Retries : Open(Turn'.st.jobs[c]) =>
        Agree(dir'[dir'[c].parent], server'[dir'[c].parent], dir'[c], server'[c], c)
  BY AgreeStays
<1>6. StagesOk(disk', Settled') /\ StagesOk(Turn'.st, Settled')
  BY StagesStay
<1>7. /\ \A c \in Retries : Open(Turn.st.jobs[c])' = Open(Turn'.st.jobs[c])
      /\ StagesOk(disk, Settled)' = StagesOk(disk', Settled')
      /\ StagesOk(Turn.st, Settled)' = StagesOk(Turn'.st, Settled')
  BY DEF Open, StagesOk
<1> QED  BY <1>1, <1>2, <1>3, <1>4, <1>5, <1>6, <1>7 DEF RowInv

LEMMA RowStart ==
  ASSUME Init
  PROVE  RowInv /\ LoadInv
<1>1. Turn.st = disk
  BY StartsTyped
<1>2. PICK c \in Ceilings : disk = NewState(c)
  BY DEF Init
<1>3. \A r \in Runs : disk.jobs[r] = NoJob /\ ~ Open(disk.jobs[r]) /\ ~ NoJob.retried /\ NoJob.stages = {}
  BY <1>2 DEF NewState, NoJob, Open
<1>4. StagesOk(disk, Settled)
  BY <1>3 DEF StagesOk
<1>5. \A r \in Runs : server[r].status = "none"
  BY DEF Init, RunnerInit, NoBatch
<1>6. ASSUME NEW p \in Fresh
      PROVE  dir[p].ready = {} /\ dir[p].merged = {} /\ Unfiled(dir[p], 1)
  <2>1. dir[p] = Prepared(NoRun, SourcesOf[p], [s \in Source |-> 1])
    BY DEF Init, RunnerInit, Runs
  <2>2. SourcesOf[p] \subseteq Source
    BY RunnerAssumption
  <2>3. \A s \in SourcesOf[p] :
          dir[p].recs[s] = [state |-> "awaiting_llm", verdict |-> "none", attempts |-> 1]
    BY <2>1, <2>2 DEF Prepared
  <2>4. dir[p].asks = SourcesOf[p] /\ dir[p].ready = {} /\ dir[p].merged = {}
    BY <2>1 DEF Prepared
  <2> QED  BY <2>3, <2>4 DEF Unfiled
<1>7. ASSUME NEW r \in Retries
      PROVE  dir[r].stage = "none" /\ dir[r].ready = {} /\ Unfiled(dir[r], 2)
  <2>1. dir[r] = NoDir
    BY RunnerAssumption DEF Init, RunnerInit, Runs
  <2> QED  BY <2>1 DEF NoDir, Prepared, Unfiled
<1>8. \A r \in Runs : dir[r].ready \subseteq dir[r].asks /\ Unfiled(dir[r], Tries(r))
  BY <1>6, <1>7, RunnerAssumption DEF Runs, Tries
<1>9. RowInv
  BY <1>1, <1>3, <1>4, <1>5, <1>6, <1>7, <1>8 DEF RowInv, Runs
<1>10. LoadInv
  BY DEF Init, RunnerInit, LoadInv
<1> QED  BY <1>9, <1>10

-----------------------------------------------------------------------------
(* The load.                                                               *)

\* A ready row was accepted once, an unresolved record is settled for good:
\* in the run itself, or in the retry that is merged into it.
LEMMA RowsHaveAnswers ==
  ASSUME PaidInv, RowInv, NEW r \in Runs, NEW s \in dir[r].asks
  PROVE  /\ s \in dir[r].ready => \E q \in Runs :
              s \in dir[q].asks /\ server[q].status = "ended" /\ server[q].out[s] = "accepted"
         /\ dir[r].recs[s].state = "unresolved" => \E q \in Runs :
              /\ s \in dir[q].asks /\ server[q].status = "ended"
              /\ StateAfter(server[q].out[s], Tries(q)) = "unresolved"
<1>1. CASE Unfiled(dir[r], Tries(r))
  BY <1>1 DEF Unfiled
<1>2. CASE Filed(dir[r], server[r], Tries(r))
  BY <1>2 DEF Filed, FiledAs
<1>3. CASE r \in Touched
  <2>1. PICK c \in Retries : Open(Turn.st.jobs[c]) /\ Parents[c] = r
    BY <1>3 DEF Touched
  <2>2. c \in Runs /\ dir[c].parent = r /\ Tries(r) = 1 /\ Tries(c) = 2
    BY <1>3, <2>1, RunnerAssumption DEF Parents, Runs, Touched, Tries
  <2>3. dir[c].stage # "none"
    BY <2>1, <2>2, EndedIsKnown DEF PaidInv
  <2>4. Agree(dir[r], server[r], dir[c], server[c], c) /\ server[r].status = "ended"
    BY <2>1, <2>2, <2>3 DEF RowInv, Waited
  <2>5. FiledAs(dir[r], server[r], 1, s)
        \/ (s \in dir[c].asks /\ Filed(dir[c], server[c], 2) /\ MergedAs(dir[r], server[c], s))
    BY <2>4 DEF Agree
  <2>6. CASE FiledAs(dir[r], server[r], 1, s)
    BY <2>2, <2>4, <2>6 DEF FiledAs
  <2>7. CASE s \in dir[c].asks /\ Filed(dir[c], server[c], 2) /\ MergedAs(dir[r], server[c], s)
    BY <2>2, <2>7 DEF Filed, MergedAs
  <2> QED  BY <2>5, <2>6, <2>7
<1> QED  BY <1>1, <1>2, <1>3 DEF RowInv

LEMMA OnlyLoadsWriteRows ==
  ASSUME [Next]_vars
  PROVE  UNCHANGED <<recipes, held>> \/ \E r \in Runs : Load(r)
<1>1. ASSUME NEW w \in Workers, WorkerStep(w) \/ Crash(w)
      PROVE  UNCHANGED <<recipes, held>>
  <2>1. ASSUME NEW r \in Runs, \/ Reconcile(w, r) \/ Poll(w, r) \/ CollectFails(w, r)
                               \/ FinalizeFails(w, r) \/ ReviewFails(w, r) \/ Review(w, r)
                               \/ Merge(w, r) \/ MergeFails(w, r)
        PROVE  UNCHANGED <<recipes, held>>
    BY <2>1 DEF Reconcile, Poll, CollectFails, FinalizeFails, ReviewFails, Review, Merge,
                MergeFails, runnerVars
  <2>2. ASSUME NEW p \in Fresh, PrepareRetry(w, p) \/ RetryRefused(w, p)
        PROVE  UNCHANGED <<recipes, held>>
    BY <2>2 DEF PrepareRetry, RetryRefused, runnerVars
  <2>3. CASE \/ Begin(w) \/ PollEnds(w) \/ ReviewEnds(w) \/ Take(w) \/ RefillEnds(w)
             \/ Submitted(w) \/ Ambiguous(w) \/ Write(w) \/ Crash(w)
    BY <2>3 DEF Begin, PollEnds, ReviewEnds, LoopEnds, Take, RefillEnds, Submitted, Ambiguous,
                Write, Crash, runnerVars
  <2> QED  BY <1>1, <2>1, <2>2, <2>3 DEF WorkerStep
<1>2. ASSUME NEW r \in Runs, ProviderStep(r)
      PROVE  UNCHANGED <<recipes, held>>
  BY <1>2 DEF ProviderStep, BatchEnds
<1>3. ASSUME NEW r \in Loaded, LoadStep(r)
      PROVE  r \in Runs /\ Load(r)
  BY <1>3, SchedulerAssumption DEF LoadStep
<1>4. CASE UNCHANGED vars
  BY <1>4 DEF vars, runnerVars
<1> QED  BY <1>1, <1>2, <1>3, <1>4 DEF Next

LEMMA LoadsStay ==
  ASSUME PaidInv, RowInv, LoadInv, Moves, [Next]_vars
  PROVE  LoadInv'
<1>1. ASSUME NEW r \in Runs, server[r].status = "ended"
      PROVE  server'[r] = server[r] /\ dir'[r].asks = dir[r].asks
  BY <1>1, BatchesStay, EndedIsKnown, DirectoriesStay DEF PaidInv
<1>2. \A s : s \in recipes' => \E r \in Runs :
        s \in dir[r].asks /\ server[r].status = "ended" /\ server[r].out[s] = "accepted"
  <2>1. CASE UNCHANGED <<recipes, held>>
    BY <2>1 DEF LoadInv
  <2>2. ASSUME NEW q \in Runs, Load(q)
        PROVE  \A s : s \in recipes' => \E r \in Runs :
                 s \in dir[r].asks /\ server[r].status = "ended" /\ server[r].out[s] = "accepted"
    <3>1. recipes' = recipes \cup dir[q].ready
      BY <2>2 DEF Load
    <3>2. dir[q].ready \subseteq dir[q].asks
      BY DEF RowInv
    <3> QED  BY <3>1, <3>2, RowsHaveAnswers DEF LoadInv
  <2> QED  BY <2>1, <2>2, OnlyLoadsWriteRows
<1>3. \A s : s \in held' => \E r \in Runs :
        /\ s \in dir[r].asks /\ server[r].status = "ended"
        /\ StateAfter(server[r].out[s], Tries(r)) = "unresolved"
  <2>1. CASE UNCHANGED <<recipes, held>>
    BY <2>1 DEF LoadInv
  <2>2. ASSUME NEW q \in Runs, Load(q)
        PROVE  \A s : s \in held' => \E r \in Runs :
                 /\ s \in dir[r].asks /\ server[r].status = "ended"
                 /\ StateAfter(server[r].out[s], Tries(r)) = "unresolved"
    <3>1. held' = held \cup InState(q, "unresolved")
      BY <2>2 DEF Load
    <3>2. \A s \in InState(q, "unresolved") :
            s \in dir[q].asks /\ dir[q].recs[s].state = "unresolved"
      BY DEF InState
    <3> QED  BY <3>1, <3>2, RowsHaveAnswers DEF LoadInv
  <2> QED  BY <2>1, <2>2, OnlyLoadsWriteRows
<1>4. \A s \in recipes' : \E r \in Runs :
        s \in dir'[r].asks /\ server'[r].status = "ended" /\ server'[r].out[s] = "accepted"
  BY <1>1, <1>2
<1>5. \A s \in held' : \E r \in Runs :
        /\ s \in dir'[r].asks /\ server'[r].status = "ended"
        /\ StateAfter(server'[r].out[s], Tries(r)) = "unresolved"
  BY <1>1, <1>3
<1> QED  BY <1>4, <1>5 DEF LoadInv

\* A record is not accepted in one run and given up in another.
LEMMA OneOutcome ==
  ASSUME PaidInv, RowInv, \A p, q \in Fresh : p # q => SourcesOf[p] \cap SourcesOf[q] = {},
         NEW s, NEW q \in Runs, NEW r \in Runs, s \in dir[q].asks, s \in dir[r].asks,
         server[q].status = "ended", server[q].out[s] = "accepted",
         server[r].status = "ended", StateAfter(server[r].out[s], Tries(r)) = "unresolved"
  PROVE  FALSE
<1>1. ASSUME NEW c \in Retries, server[c].status = "ended", s \in dir[c].asks
      PROVE  /\ Parents[c] \in Fresh /\ s \in SourcesOf[Parents[c]] /\ Open(Turn.st.jobs[c])
             /\ StateAfter(server[Parents[c]].out[s], 1) = "awaiting_llm"
  <2>1. c \in Runs /\ dir[c].stage # "none" /\ Open(Turn.st.jobs[c]) /\ Parents[c] = dir[c].parent
    BY <1>1, EndedIsKnown DEF PaidInv, Runs, Parents
  <2> QED  BY <1>1, <2>1 DEF RowInv, Waited, PaidInv, FamilyInv
<1>2. \A p \in Fresh : s \in dir[p].asks => s \in SourcesOf[p]
  BY DEF PaidInv, FamilyInv
<1>3. \A p, v \in Fresh : s \in SourcesOf[p] /\ s \in SourcesOf[v] => p = v
  OBVIOUS
<1>4. StateAfter(server[r].out[s], Tries(r)) # "ready_to_load" /\ server[r].out[s] # "accepted"
  BY StatesApart
<1>5. CASE q \in Fresh /\ r \in Fresh
  BY <1>2, <1>3, <1>4, <1>5
<1>6. CASE q \in Fresh /\ r \in Retries
  <2>1. q = Parents[r] /\ StateAfter(server[q].out[s], 1) = "awaiting_llm"
    BY <1>1, <1>2, <1>3, <1>6
  <2> QED  BY <2>1, StatesApart
<1>7. CASE q \in Retries /\ r \in Fresh
  <2>1. r = Parents[q] /\ StateAfter(server[r].out[s], 1) = "awaiting_llm" /\ Tries(r) = 1
    BY <1>1, <1>2, <1>3, <1>7 DEF Tries
  <2> QED  BY <2>1
<1>8. CASE q \in Retries /\ r \in Retries
  <2>1. Parents[q] = Parents[r] /\ Open(Turn.st.jobs[q]) /\ Open(Turn.st.jobs[r])
    BY <1>1, <1>3, <1>8
  <2>2. q = r
    BY <1>8, <2>1 DEF PaidInv, FamilyInv, Single
  <2> QED  BY <1>4, <2>2
<1> QED  BY <1>5, <1>6, <1>7, <1>8 DEF Runs

\* What the files of a fresh run say of its records and its ready rows.
LEMMA RowsTell ==
  ASSUME PaidInv, RowInv, NEW p \in Fresh, HasRows(p)
  PROVE  /\ dir[p].ready \subseteq InState(p, "ready_to_load")
         /\ \/ dir[p].ready = InState(p, "ready_to_load")
            \/ \E c \in Retries : dir[c].parent = p /\ HasRows(c) /\ c \notin dir[p].merged
<1>0. p \in Runs /\ Tries(p) = 1 /\ dir[p].ready \subseteq dir[p].asks
      /\ InState(p, "ready_to_load") = {s \in dir[p].asks : dir[p].recs[s].state = "ready_to_load"}
  BY DEF Runs, Tries, RowInv, InState
<1>1. ~ Unfiled(dir[p], 1)
  BY DEF HasRows, Unfiled
<1>2. ASSUME NEW s \in dir[p].asks, FiledAs(dir[p], server[p], 1, s)
      PROVE  s \in dir[p].ready <=> dir[p].recs[s].state = "ready_to_load"
  BY <1>2, StatesApart DEF FiledAs
<1>3. CASE p \notin Touched
  <2>1. Filed(dir[p], server[p], 1)
    BY <1>0, <1>1, <1>3 DEF RowInv
  <2> QED  BY <1>0, <1>2, <2>1 DEF Filed
<1>4. CASE p \in Touched
  <2>1. PICK c \in Retries : Open(Turn.st.jobs[c]) /\ Parents[c] = p
    BY <1>4 DEF Touched
  <2>2. c \in Runs /\ dir[c].parent = p
    BY <2>1 DEF Parents, Runs
  <2>3. Agree(dir[p], server[p], dir[c], server[c], c)
    BY <2>1, <2>2 DEF RowInv
  <2>4. dir[c].asks \subseteq dir[p].asks
    BY <2>1, <2>2, EndedIsKnown DEF PaidInv, FamilyInv
  <2>5. ASSUME NEW s \in dir[p].asks, MergedAs(dir[p], server[c], s)
        PROVE  /\ s \in dir[p].ready => dir[p].recs[s].state = "ready_to_load"
               /\ dir[p].recs[s].state = "ready_to_load" => server[c].out[s] = "accepted"
    BY <2>5, StatesApart DEF MergedAs
  <2>6. dir[p].ready \subseteq InState(p, "ready_to_load")
    BY <1>0, <1>2, <2>3, <2>5 DEF Agree
  <2>7. CASE c \in dir[p].merged
    <3>1. \A s \in dir[p].asks : dir[p].recs[s].state = "ready_to_load" => s \in dir[p].ready
      BY <1>2, <2>3, <2>5, <2>7 DEF Agree
    <3> QED  BY <1>0, <2>6, <3>1
  <2>8. CASE c \notin dir[p].merged
    <3>1. CASE \A s \in dir[c].asks : FiledAs(dir[p], server[p], 1, s)
      <4>1. \A s \in dir[p].asks : FiledAs(dir[p], server[p], 1, s)
        BY <2>3, <3>1 DEF Agree
      <4> QED  BY <1>0, <1>2, <4>1
    <3>2. CASE ~ \A s \in dir[c].asks : FiledAs(dir[p], server[p], 1, s)
      <4>1. Filed(dir[c], server[c], 2) /\ dir[c].asks # {}
        BY <2>3, <3>2 DEF Agree
      <4>2. HasRows(c)
        BY <2>2, <4>1 DEF HasRows, Filed, FiledAs, RowInv
      <4> QED  BY <2>2, <2>6, <2>8, <4>2
    <3> QED  BY <3>1, <3>2
  <2> QED  BY <2>7, <2>8
<1> QED  BY <1>3, <1>4

\* Records and ready rows agree, for every run that was finalized and once no
\* retry of it is half merged, and no source is a recipe and a held rejection
\* at once.  The hypotheses are those of PaidWorkCovered.
THEOREM RowsAlwaysAgree ==
  ASSUME "crash_unsaved" \notin Faults, IsFiniteSet(Runs),
         \A p, q \in Fresh : p # q => SourcesOf[p] \cap SourcesOf[q] = {}
  PROVE  Spec => []RowsAgree
<1> DEFINE Inv == PaidInv /\ RowInv /\ LoadInv
<1>1. Init => Inv
  BY StartsTyped, SlotStart, MoneyStart, FamilyStart, RowStart DEF PaidInv
<1>2. Inv /\ PaidInv' /\ [Next]_vars => Inv'
  <2> SUFFICES ASSUME PaidInv, RowInv, LoadInv, PaidInv', [Next]_vars
               PROVE  Inv'
    OBVIOUS
  <2>1. Moves
    BY StepMoves DEF PaidInv
  <2>2. RowInv'
    BY <2>1, RowStep
  <2>3. LoadInv'
    BY <2>1, LoadsStay
  <2> QED  BY <2>2, <2>3
<1>3. Inv => RowsAgree
  <2> SUFFICES ASSUME PaidInv, RowInv, LoadInv
               PROVE  RowsAgree
    OBVIOUS
  <2>1. recipes \cap held = {}
    <3> SUFFICES ASSUME NEW s \in recipes, s \in held
                 PROVE  FALSE
      OBVIOUS
    <3>1. PICK q \in Runs :
            s \in dir[q].asks /\ server[q].status = "ended" /\ server[q].out[s] = "accepted"
      BY DEF LoadInv
    <3>2. PICK r \in Runs :
            /\ s \in dir[r].asks /\ server[r].status = "ended"
            /\ StateAfter(server[r].out[s], Tries(r)) = "unresolved"
      BY DEF LoadInv
    <3> QED  BY <3>1, <3>2, OneOutcome
  <2> QED  BY <2>1, RowsTell DEF RowsAgree
<1>4. Spec => []PaidInv
  BY PaidAlways
<1> QED  BY <1>1, <1>2, <1>3, <1>4, PTL DEF Spec

-----------------------------------------------------------------------------
(* A complete scope: nothing is left anywhere.                             *)

\* Run p has no record to ask again, or cannot be asked; retry c asks for
\* whatever waits in p.
Settles(p) == dir[p].stage = "submitted" \/ Eligible(p) = {}
Tends(p, c) == dir[c].parent = p /\ Eligible(p) \subseteq dir[c].asks

\* A job is finalized after it was collected, and merged after its review.
InOrder(st) ==
  \A r \in Runs : /\ "finalized" \in st.jobs[r].stages => "collected" \in st.jobs[r].stages
                  /\ "reconciled" \in st.jobs[r].stages => "reviewed" \in st.jobs[r].stages

\* A job on disk is at most as far as in the turn; a run that is finalized
\* stays so in its files, a retry that is reconciled is merged, and a parent
\* that was retried has a retry of all that waits, unless the scope stopped.
DoneInv ==
  /\ InOrder(disk) /\ InOrder(Turn.st)
  /\ \A r \in Runs : disk.jobs[r].stages \subseteq Turn.st.jobs[r].stages
  /\ \A r \in Runs : "finalized" \in Turn.st.jobs[r].stages =>
       dir[r].stage \in {"finalized", "submitted"}
  /\ \A c \in Retries : "reconciled" \in Turn.st.jobs[c].stages =>
       c \in dir[dir[c].parent].merged
  /\ disk.stop = "none" => \A p \in Fresh : disk.jobs[p].retried =>
       Settles(p) \/ \E c \in Retries : Tends(p, c) /\ Open(disk.jobs[c])
  /\ Turn.st.stop = "none" => \A p \in Fresh : Turn.st.jobs[p].retried =>
       \/ Settles(p)
       \/ \E c \in Retries : /\ Tends(p, c)
                             /\ \/ Open(Turn.st.jobs[c])
                                \/ Turn.pc = "submit" /\ Turn.run = c

\* The turn takes over a copy of the jobs, and what it knew of the stop; or
\* the disk takes over the turn.
Carries ==
  \/ disk' = disk /\ Turn' = Turn
  \/ /\ disk' = disk /\ Turn.pc # "submit" /\ Turn'.st.jobs = Turn.st.jobs
     /\ Turn'.st.stop = "none" => Turn.st.stop = "none"
  \/ /\ disk' = disk /\ Turn'.st.jobs = disk.jobs
     /\ Turn'.st.stop = "none" => disk.stop = "none"
  \/ disk' = Turn.st /\ Turn'.st = Turn.st /\ Turn.pc # "submit"

\* One job of the turn goes a stage further or is submitted.
Advances(r) ==
  LET old == Turn.st.jobs[r].stages
      new == Turn'.st.jobs[r].stages
  IN  /\ disk' = disk /\ \A q \in Runs \ {r} : Turn'.st.jobs[q] = Turn.st.jobs[q]
      /\ Turn'.st.jobs[r].retried = Turn.st.jobs[r].retried
      /\ Turn'.st.stop = "none" => Turn.st.stop = "none"
      /\ Turn.pc = "submit" => Turn.run = r /\ Open(Turn'.st.jobs[r])
      /\ \/ new = old
         \/ new = old \cup {"collected"}
         \/ /\ Files(r) /\ Visits("review", r)
            /\ new \in {old \cup {"finalized"}, old \cup {"finalized", "reviewed"}}
         \/ new = old \cup {"reconciled"} /\ MergesAll(r)

\* The retry of a parent is remembered, and what comes of it.
Remembers(p) ==
  /\ disk' = disk /\ \A q \in Runs \ {p} : Turn'.st.jobs[q] = Turn.st.jobs[q]
  /\ Turn'.st.jobs[p].stages = Turn.st.jobs[p].stages
  /\ Turn'.st.stop = "none" => Turn.st.stop = "none"
  /\ p \in Retriable(Turn.st) /\ Turn.pc # "submit"
  /\ \/ Refuses(p)
     \/ \E c \in Retries : /\ Prepares(p, c)
                           /\ Turn'.st.stop = "none" => Turn'.pc = "submit" /\ Turn'.run = c

LEMMA JobsMove ==
  ASSUME PaidInv, Moves
  PROVE  Carries \/ (\E r \in Runs : Advances(r)) \/ \E p \in Fresh : Remembers(p)
<1>0. /\ Turn.st \in States /\ Turn.st.jobs \in [Runs -> Jobs] /\ TypeInv
      /\ disk \in States /\ Fresh \subseteq Runs /\ Retries \subseteq Runs
  BY TurnTyped DEF Runs, PaidInv, TypeInv, TypeOK
<1>1. ASSUME NEW r \in Runs, Reconciles(r) \/ Polls(r) \/ MergesAll(r) \/ MergesSome(r)
      PROVE  Advances(r)
  <2>1. PICK pc \in {"poll", "merge"} : Visits(pc, r)
    BY <1>1 DEF Reconciles, Polls, MergesAll, MergesSome
  <2>2. /\ disk' = disk /\ Turn.pc # "submit"
        /\ \A q \in Runs \ {r} : Turn'.st.jobs[q] = Turn.st.jobs[q]
    BY <2>1 DEF Visits
  <2>3. Turn.st.jobs[r] \in Jobs
    BY <1>0
  <2>4. /\ Turn'.st.jobs[r].retried = Turn.st.jobs[r].retried /\ Turn'.st.stop = Turn.st.stop
        /\ \/ Turn'.st.jobs[r].stages = Turn.st.jobs[r].stages
           \/ Turn'.st.jobs[r].stages = Turn.st.jobs[r].stages \cup {"collected"}
           \/ /\ Turn'.st.jobs[r].stages = Turn.st.jobs[r].stages \cup {"reconciled"}
              /\ MergesAll(r)
    <3>1. CASE Reconciles(r) \/ Polls(r)
      BY <3>1 DEF Reconciles, Keeps, Polls, Accounts
    <3>2. CASE MergesAll(r)
      BY <2>3, <3>2 DEF MergesAll, Jobs
    <3>3. CASE MergesSome(r)
      BY <3>3 DEF MergesSome
    <3> QED  BY <1>1, <3>1, <3>2, <3>3
  <2> QED  BY <2>2, <2>4 DEF Advances
<1>2. ASSUME NEW r \in Runs, Passes(r) \/ Reviews(r)
      PROVE  Advances(r)
  <2>1. Visits("review", r)
    BY <1>2 DEF Passes, Reviews
  <2>2. /\ disk' = disk /\ Turn.pc # "submit"
        /\ \A q \in Runs \ {r} : Turn'.st.jobs[q] = Turn.st.jobs[q]
    BY <2>1 DEF Visits
  <2>3. Turn.st.jobs[r] \in Jobs
    BY <1>0
  <2>4. /\ Turn'.st.jobs[r].retried = Turn.st.jobs[r].retried
        /\ Turn'.st.stop = "none" => Turn.st.stop = "none"
        /\ \/ Turn'.st.jobs[r].stages = Turn.st.jobs[r].stages
           \/ Files(r) /\ Turn'.st.jobs[r].stages = Turn.st.jobs[r].stages \cup {"finalized"}
           \/ Files(r) /\ Turn'.st.jobs[r].stages = Turn.st.jobs[r].stages \cup {"finalized", "reviewed"}
    BY <1>2, <2>3 DEF Passes, Reviews, Judges, Jobs
  <2> QED  BY <2>1, <2>2, <2>4 DEF Advances
<1>3. CASE EndsPoll \/ EndsReview \/ EndsRefill
  <2>1. disk' = disk /\ Turn'.st = Turn.st /\ Turn.pc # "submit"
    BY <1>3 DEF EndsPoll, EndsReview, EndsRefill, Turns
  <2> QED  BY <2>1 DEF Carries
<1>4. CASE Writes
  <2>1. disk' = Turn.st /\ Turn'.st = Turn.st /\ Turn.pc # "submit"
    BY <1>4 DEF Writes
  <2> QED  BY <2>1 DEF Carries
<1>5. CASE Cuts \/ \E r \in Runs : LosesCollection(r)
  <2>1. disk' = disk /\ Turn'.st = disk
    BY <1>5 DEF Cuts, LosesCollection, Loses
  <2> QED  BY <2>1 DEF Carries
<1>6. CASE Rests \/ \E r \in Runs : Ends(r)
  <2>1. disk' = disk /\ Turn' = Turn
    BY <1>6 DEF Rests, Ends, Idles
  <2> QED  BY <2>1 DEF Carries
<1>7. CASE Begins
  <2>1. "version-change" \in StopReasons
    BY DEF StopReasons
  <2>2. /\ SetStop(disk, "version-change").jobs = disk.jobs
        /\ SetStop(disk, "version-change").stop # "none"
    BY <1>0, <2>1, SetStopMoves
  <2>3. /\ disk' = disk /\ Turn'.st.jobs = disk.jobs
        /\ Turn'.st.stop = "none" => disk.stop = "none"
    BY <1>7, <2>2 DEF Begins, Turns
  <2> QED  BY <2>3 DEF Carries
<1>8. ASSUME NEW r \in Runs, Takes(r)
      PROVE  Carries
  <2>1. Chooses(Turn.st, r, MaxCost(r)) /\ disk' = disk /\ Turn.pc # "submit"
    BY <1>8 DEF Takes, RefillTurn
  <2>2. Turn'.st.jobs = Turn.st.jobs /\ (Turn'.st.stop = "none" => Turn.st.stop = "none")
    BY <1>0, <2>1, ChoosesMoves
  <2> QED  BY <2>1, <2>2 DEF Carries
<1>9. ASSUME NEW p \in Fresh, Refuses(p) \/ \E c \in Retries : Prepares(p, c)
      PROVE  Remembers(p)
  <2> DEFINE st == [Turn.st EXCEPT !.jobs[p].retried = TRUE]
  <2>1. /\ st \in States /\ st.stop = Turn.st.stop
        /\ \A q \in Runs \ {p} : st.jobs[q] = Turn.st.jobs[q]
        /\ \A q \in Runs : st.jobs[q].stages = Turn.st.jobs[q].stages
    BY <1>0, RetriedKeeps
  <2>2. p \in Runs /\ p \in Retriable(Turn.st) /\ Turn.pc # "submit"
    BY <1>0, <1>9 DEF Refuses, Prepares, RefillTurn
  <2>3. CASE Refuses(p)
    <3>1. Turn'.st = st /\ disk' = disk
      BY <2>3 DEF Refuses, Turns
    <3> HIDE DEF st
    <3> QED  BY <2>1, <2>2, <2>3, <3>1 DEF Remembers
  <2>4. ASSUME NEW c \in Retries, Prepares(p, c)
        PROVE  Remembers(p)
    <3>1. Chooses(st, c, Cardinality(Eligible(p))) /\ disk' = disk /\ c \in Runs
      BY <1>0, <2>4 DEF Prepares
    <3> HIDE DEF st
    <3>2. /\ Turn'.st.jobs = st.jobs /\ (Turn'.st.stop = "none" => st.stop = "none")
          /\ Turn'.st.stop = "none" => Turn'.pc = "submit" /\ Turn'.run = c
      BY <2>1, <3>1, ChoosesMoves
    <3> QED  BY <2>1, <2>2, <2>4, <3>1, <3>2 DEF Remembers
  <2> QED  BY <1>9, <2>3, <2>4
<1>10. ASSUME NEW r \in Runs, Submits(r)
       PROVE  Advances(r)
  <2>1. PICK job \in Jobs :
          /\ Open(job) /\ Turn.run = r
          /\ \/ job.stages = {} /\ job.retried = FALSE
             \/ job.stages = Turn.st.jobs[r].stages /\ job.retried = Turn.st.jobs[r].retried
          /\ Turn'.st = WithJob(Turn.st, r, job)
    BY <1>10 DEF Submits
  <2>2. Turn'.st.jobs = [Turn.st.jobs EXCEPT ![r] = job] /\ Turn'.st.stop = Turn.st.stop
    BY <1>0, <2>1, WithJobMoves
  <2>3. Turn'.st.jobs[r] = job /\ \A q \in Runs \ {r} : Turn'.st.jobs[q] = Turn.st.jobs[q]
    BY <1>0, <2>2
  <2>4. Turn.st.jobs[r].stages = {} /\ Turn.st.jobs[r].retried = FALSE
    BY <1>10, SubmissionsAreNew DEF Submits, PaidInv, NoJob
  <2>5. disk' = disk
    BY <1>10 DEF Submits
  <2> QED  BY <1>10, <2>1, <2>2, <2>3, <2>4, <2>5 DEF Advances
<1> QED  BY <1>1, <1>2, <1>3, <1>4, <1>5, <1>6, <1>7, <1>8, <1>9, <1>10 DEF Moves

\* The second attempt is the last one.
LEMMA LastAttempt ==
  ASSUME RetryLimit <= 2, NEW v
  PROVE  StateAfter(v, 2) # "awaiting_llm"
<1>1. RetryLimit \in Nat /\ ~ (2 < RetryLimit)
  BY Sets
<1>2. CASE v \in {"accepted", "settled"}
  BY <1>2 DEF StateAfter
<1>3. CASE v \notin {"accepted", "settled"}
  BY <1>1, <1>3 DEF StateAfter
<1> QED  BY <1>2, <1>3

\* A run that was finalized is only ever marked as submitted again.
LEMMA FinalStays ==
  ASSUME PaidInv, DoneInv, Moves, NEW r \in Runs, "finalized" \in Turn.st.jobs[r].stages
  PROVE  dir'[r].stage \in {dir[r].stage, "submitted"}
<1>1. "collected" \in Turn.st.jobs[r].stages /\ dir[r].stage \in {"finalized", "submitted"}
  BY DEF DoneInv, InOrder
<1>2. ASSUME NEW q \in Runs, Calm(q),
             \/ "collected" \notin Turn.st.jobs[q].stages
             \/ dir'[q].stage \in {dir[q].stage, "submitted"}
      PROVE  dir'[r].stage \in {dir[r].stage, "submitted"}
  BY <1>1, <1>2 DEF Calm
<1>3. ASSUME NEW q \in Runs, dir' = Finalized(q), "finalized" \notin Turn.st.jobs[q].stages
      PROVE  dir'[r] = dir[r]
  <2>1. \A v \in Runs \ {q} : dir'[v] = dir[v]
    BY <1>3, FinalizedMoves DEF PaidInv, TypeInv
  <2> QED  BY <1>3, <2>1
<1>4. ASSUME NEW q \in Runs, NEW k \in 0 .. Merges, MergeWrites(q, k)
      PROVE  dir'[r].stage = dir[r].stage
  <2> DEFINE p == dir[q].parent
  <2>1. p \in Runs /\ dir' = Merged(q, k)
    BY <1>4 DEF MergeWrites
  <2>2. /\ \A v \in Runs \ {p} : dir'[v] = dir[v]
        /\ dir'[p].stage = dir[p].stage
    BY <2>1, MergedMoves DEF PaidInv, TypeInv
  <2> QED  BY <2>2
<1>5. ASSUME NEW p \in Fresh, NEW c \in Retries, Prepares(p, c)
      PROVE  dir'[r] = dir[r]
  <2>1. dir[c].stage = "none" /\ \A q \in Runs \ {c} : dir'[q] = dir[q]
    BY <1>5, PreparesMoves DEF PaidInv
  <2> QED  BY <1>1, <2>1
<1>6. DirMoves
  BY StepDirMoves DEF PaidInv
<1> QED  BY <1>2, <1>3, <1>4, <1>5, <1>6 DEF DirMoves

\* What waits in a run that was finalized only grows less.
LEMMA WaitsShrink ==
  ASSUME PaidInv, RowInv, RetryLimit <= 2, Moves,
         NEW p \in Fresh, "finalized" \in Turn.st.jobs[p].stages
  PROVE  Eligible(p)' \subseteq Eligible(p)
<1>0. p \in Runs /\ p \notin Retries /\ TypeOK
  BY RunnerAssumption DEF Runs, PaidInv, TypeInv
<1>1. CASE SameRows(dir[p], dir'[p])
  BY <1>1 DEF SameRows, Eligible
<1>2. ASSUME NEW q \in Runs, FinalizesRun(q)
      PROVE  SameRows(dir[p], dir'[p])
  <2>1. \A v \in Runs \ {q} : dir'[v] = dir[v]
    BY <1>0, <1>2, FinalizedMoves DEF FinalizesRun
  <2>2. p # q
    BY <1>2 DEF FinalizesRun
  <2> QED  BY <1>0, <2>1, <2>2 DEF SameRows
<1>3. ASSUME NEW c \in Retries, NEW k \in 0 .. Merges, MergesRetry(c, k)
      PROVE  Eligible(p)' \subseteq Eligible(p)
  <2> DEFINE q == dir[c].parent
  <2>1. /\ q \in Runs /\ c \in Runs /\ q = dir[c].parent /\ dir' = Merged(c, k)
        /\ Filed(dir[c], server[c], 2)
    BY <1>3 DEF MergesRetry, MergeWrites, Runs
  <2>2. /\ \A v \in Runs \ {q} : dir'[v] = dir[v]
        /\ dir'[q].asks = dir[q].asks
        /\ \A s \in Source :
             \/ dir'[q].recs[s] = dir[q].recs[s]
             \/ s \in dir[c].asks /\ dir'[q].recs[s].state = dir[c].recs[s].state
    BY <1>0, <2>1, MergedStates
  <2> HIDE DEF q
  <2>3. \A s \in dir[c].asks : dir[c].recs[s].state # "awaiting_llm"
    BY <2>1, LastAttempt DEF Filed, FiledAs
  <2>4. dir[q].asks \subseteq Source
    BY <1>0, <2>1 DEF TypeOK, RunnerTypeOK, Dirs
  <2>5. CASE p # q
    BY <1>0, <2>2, <2>5 DEF Eligible
  <2>6. CASE p = q
    <3>1. \A s \in dir[p].asks :
            dir'[p].recs[s].state = "awaiting_llm" => dir'[p].recs[s] = dir[p].recs[s]
      BY <2>2, <2>3, <2>4, <2>6
    <3> QED  BY <2>2, <2>6, <3>1 DEF Eligible
  <2> QED  BY <2>5, <2>6
<1>4. ASSUME NEW q \in Fresh, NEW c \in Retries, Prepares(q, c)
      PROVE  SameRows(dir[p], dir'[p])
  <2>1. \A v \in Runs \ {c} : dir'[v] = dir[v]
    BY <1>4, PreparesMoves DEF PaidInv
  <2> QED  BY <1>0, <2>1 DEF SameRows
<1> QED  BY <1>0, <1>1, <1>2, <1>3, <1>4, RowsMove

\* A retry that is merged stays merged.
LEMMA MergedStays ==
  ASSUME PaidInv, RowInv, Moves, NEW c \in Retries, Open(Turn.st.jobs[c]),
         c \in dir[dir[c].parent].merged
  PROVE  c \in dir'[dir'[c].parent].merged
<1> DEFINE p == dir[c].parent
<1>0. c \in Runs /\ TypeOK /\ dir[c].stage # "none"
  BY EndedIsKnown DEF Runs, PaidInv, TypeInv
<1>1. p \in Fresh /\ p \in Runs /\ p \notin Retries /\ p \in Touched
  BY <1>0, RunnerAssumption DEF PaidInv, FamilyInv, Runs, Touched, Parents
<1>2. dir'[c].parent = p
  BY <1>0, DirectoriesStay DEF PaidInv
<1> HIDE DEF p
<1>3. c \in dir[p].merged
  BY DEF p
<1>4. CASE SameRows(dir[p], dir'[p])
  BY <1>2, <1>3, <1>4 DEF SameRows
<1>5. ASSUME NEW q \in Runs, FinalizesRun(q)
      PROVE  c \in dir'[p].merged
  <2>1. \A v \in Runs \ {q} : dir'[v] = dir[v]
    BY <1>0, <1>5, FinalizedMoves DEF FinalizesRun
  <2> QED  BY <1>1, <1>3, <1>5, <2>1 DEF FinalizesRun
<1>6. ASSUME NEW d \in Retries, NEW k \in 0 .. Merges, MergesRetry(d, k)
      PROVE  c \in dir'[p].merged
  <2> DEFINE q == dir[d].parent
  <2>1. q \in Runs /\ d \in Runs /\ dir' = Merged(d, k)
    BY <1>6 DEF MergesRetry, MergeWrites, Runs
  <2>2. /\ \A v \in Runs \ {q} : dir'[v] = dir[v]
        /\ dir'[q].merged = IF k < 3 THEN dir[q].merged ELSE dir[q].merged \cup {d}
    BY <1>0, <2>1, MergedMoves
  <2> HIDE DEF q
  <2> QED  BY <1>1, <1>3, <2>2
<1>7. ASSUME NEW q \in Fresh, NEW d \in Retries, Prepares(q, d)
      PROVE  c \in dir'[p].merged
  <2>1. \A v \in Runs \ {d} : dir'[v] = dir[v]
    BY <1>7, PreparesMoves DEF PaidInv
  <2> QED  BY <1>1, <1>3, <2>1
<1> QED  BY <1>1, <1>2, <1>4, <1>5, <1>6, <1>7, RowsMove

\* What a retried parent has coming to it stays with it.
LEMMA TendsStay ==
  ASSUME PaidInv, RowInv, DoneInv, RetryLimit <= 2, Moves,
         NEW p \in Fresh, "reviewed" \in Turn.st.jobs[p].stages
  PROVE  /\ Settles(p) => Settles(p)'
         /\ \A c \in Retries : dir[c].stage # "none" /\ Tends(p, c) => Tends(p, c)'
<1>1. p \in Runs /\ "finalized" \in Turn.st.jobs[p].stages
  BY DEF Runs, RowInv, StagesOk
<1>2. dir[p].stage = "submitted" => dir'[p].stage = "submitted"
  BY <1>1, FinalStays
<1>3. Eligible(p)' \subseteq Eligible(p)
  BY <1>1, WaitsShrink
<1>4. Settles(p) => Settles(p)'
  BY <1>2, <1>3 DEF Settles
<1>5. ASSUME NEW c \in Retries, dir[c].stage # "none", Tends(p, c)
      PROVE  Tends(p, c)'
  <2>1. dir'[c].asks = dir[c].asks /\ dir'[c].parent = dir[c].parent
    BY <1>5, DirectoriesStay DEF Runs, PaidInv
  <2> QED  BY <1>3, <1>5, <2>1 DEF Tends
<1> QED  BY <1>4, <1>5

LEMMA OrderStays ==
  ASSUME PaidInv, DoneInv, Moves
  PROVE  /\ InOrder(disk') /\ InOrder(Turn'.st)
         /\ \A r \in Runs : disk'.jobs[r].stages \subseteq Turn'.st.jobs[r].stages
<1>1. /\ InOrder(disk) /\ InOrder(Turn.st)
      /\ \A r \in Runs : disk.jobs[r].stages \subseteq Turn.st.jobs[r].stages
  BY DEF DoneInv
<1>2. CASE Carries
  BY <1>1, <1>2 DEF Carries, InOrder
<1>3. ASSUME NEW r \in Runs, Advances(r)
      PROVE  /\ InOrder(disk') /\ InOrder(Turn'.st)
             /\ \A q \in Runs : disk'.jobs[q].stages \subseteq Turn'.st.jobs[q].stages
  <2> DEFINE old == Turn.st.jobs[r].stages
             new == Turn'.st.jobs[r].stages
  <2>1. disk' = disk /\ \A q \in Runs \ {r} : Turn'.st.jobs[q] = Turn.st.jobs[q]
    BY <1>3 DEF Advances
  <2>2. /\ old \subseteq new
        /\ "finalized" \in new \ old => "collected" \in old
        /\ "reconciled" \in new \ old => "reviewed" \in old
    <3>1. CASE new = old \/ new = old \cup {"collected"}
      BY <3>1
    <3>2. CASE Visits("review", r) /\ new \in {old \cup {"finalized"}, old \cup {"finalized", "reviewed"}}
      <4>1. "collected" \in old
        BY <3>2 DEF Visits, PaidInv, MoneyInv
      <4> QED  BY <3>2, <4>1
    <3>3. CASE new = old \cup {"reconciled"} /\ MergesAll(r)
      <4>1. "reviewed" \in old
        BY <3>3 DEF MergesAll, Visits, PaidInv, MoneyInv
      <4> QED  BY <3>3, <4>1
    <3> QED  BY <1>3, <3>1, <3>2, <3>3 DEF Advances
  <2>3. /\ "finalized" \in new => "collected" \in new
        /\ "reconciled" \in new => "reviewed" \in new
    BY <1>1, <2>2 DEF InOrder
  <2> QED  BY <1>1, <2>1, <2>2, <2>3 DEF InOrder
<1>4. ASSUME NEW p \in Fresh, Remembers(p)
      PROVE  \A q \in Runs : Turn'.st.jobs[q].stages = Turn.st.jobs[q].stages /\ disk' = disk
  BY <1>4 DEF Remembers
<1>5. (\E p \in Fresh : Remembers(p)) =>
        /\ InOrder(disk') /\ InOrder(Turn'.st)
        /\ \A q \in Runs : disk'.jobs[q].stages \subseteq Turn'.st.jobs[q].stages
  <2> SUFFICES ASSUME NEW p \in Fresh, Remembers(p)
               PROVE  /\ InOrder(disk') /\ InOrder(Turn'.st)
                      /\ \A q \in Runs : disk'.jobs[q].stages \subseteq Turn'.st.jobs[q].stages
    OBVIOUS
  <2>1. disk' = disk
    BY DEF Remembers
  <2> QED  BY <1>1, <1>4, <2>1 DEF InOrder
<1> QED  BY <1>2, <1>3, <1>5, JobsMove

\* A stage the turn has come to is one it had before, one that was on disk,
\* or one of this step.
LEMMA StagesCome ==
  ASSUME PaidInv, DoneInv, Moves, NEW r \in Runs, NEW stage \in {"finalized", "reconciled"},
         stage \in Turn'.st.jobs[r].stages
  PROVE  \/ stage \in Turn.st.jobs[r].stages
         \/ stage = "finalized" /\ dir' = Finalized(r)
         \/ stage = "reconciled" /\ MergesAll(r)
<1>1. disk.jobs[r].stages \subseteq Turn.st.jobs[r].stages
  BY DEF DoneInv
<1>2. CASE Carries
  BY <1>1, <1>2 DEF Carries
<1>3. ASSUME NEW q \in Runs, Advances(q)
      PROVE  \/ stage \in Turn.st.jobs[r].stages
             \/ stage = "finalized" /\ dir' = Finalized(r)
             \/ stage = "reconciled" /\ MergesAll(r)
  <2>1. CASE q # r
    BY <1>3, <2>1 DEF Advances
  <2>2. CASE q = r
    <3>1. Files(r) /\ "finalized" \notin Turn.st.jobs[r].stages => dir' = Finalized(r)
      BY DEF Files
    <3> QED  BY <1>3, <2>2, <3>1 DEF Advances
  <2> QED  BY <2>1, <2>2
<1>4. ASSUME NEW p \in Fresh, Remembers(p)
      PROVE  stage \in Turn.st.jobs[r].stages
  BY <1>4 DEF Remembers
<1> QED  BY <1>2, <1>3, <1>4, JobsMove

LEMMA FinalStep ==
  ASSUME PaidInv, DoneInv, Moves, NEW r \in Runs, "finalized" \in Turn'.st.jobs[r].stages
  PROVE  dir'[r].stage \in {"finalized", "submitted"}
<1>1. CASE "finalized" \in Turn.st.jobs[r].stages
  BY <1>1, FinalStays DEF DoneInv
<1>2. CASE dir' = Finalized(r)
  BY <1>2, FinalizedMoves DEF PaidInv, TypeInv
<1> QED  BY <1>1, <1>2, StagesCome

LEMMA ReconciledStep ==
  ASSUME PaidInv, RowInv, DoneInv, Moves,
         NEW c \in Retries, "reconciled" \in Turn'.st.jobs[c].stages
  PROVE  c \in dir'[dir'[c].parent].merged
<1>0. c \in Runs /\ TypeOK
  BY DEF Runs, PaidInv, TypeInv
<1>1. CASE "reconciled" \in Turn.st.jobs[c].stages
  <2>1. "reviewed" \in Turn.st.jobs[c].stages /\ c \in dir[dir[c].parent].merged
    BY <1>0, <1>1 DEF DoneInv, InOrder
  <2>2. JobOk(c, Turn.st.jobs[c], World)
    BY <1>0 DEF PaidInv, MoneyInv, Books
  <2>3. Open(Turn.st.jobs[c])
    BY <2>1, <2>2 DEF JobOk
  <2> QED  BY <2>1, <2>3, MergedStays
<1>2. CASE MergesAll(c)
  <2>1. CASE c \in dir[dir[c].parent].merged
    BY <1>2, <2>1 DEF MergesAll
  <2>2. CASE c \notin dir[dir[c].parent].merged
    <3> DEFINE p == dir[c].parent
    <3>1. p \in Runs /\ p = dir[c].parent /\ dir' = Merged(c, 3) /\ 3 \in 0 .. Merges
      BY <1>2, <2>2 DEF MergesAll, MergeWrites, Merges
    <3> HIDE DEF p
    <3>2. /\ \A q \in Runs \ {p} : dir'[q] = dir[q]
          /\ dir'[p].parent = dir[p].parent
          /\ dir'[p].merged = IF 3 < 3 THEN dir[p].merged ELSE dir[p].merged \cup {c}
      BY <1>0, <3>1, MergedMoves
    <3>3. dir'[c].parent = p
      BY <1>0, <3>1, <3>2
    <3> QED  BY <3>2, <3>3
  <2> QED  BY <2>1, <2>2
<1> QED  BY <1>0, <1>1, <1>2, StagesCome

\* The retry of a parent is written: it asks for all that waits.
LEMMA PreparesTends ==
  ASSUME PaidInv, NEW p \in Fresh, NEW c \in Retries, Prepares(p, c)
  PROVE  Tends(p, c)'
<1>1. /\ p \in Runs /\ p # c /\ \A q \in Runs \ {c} : dir'[q] = dir[q]
      /\ dir'[c].parent = p /\ dir'[c].asks = Eligible(p)
  BY PreparesMoves DEF PaidInv
<1>2. Eligible(p)' = Eligible(p)
  BY <1>1 DEF Eligible
<1> QED  BY <1>1, <1>2 DEF Tends

\* A parent of which the turn or the disk knew that it was retried.
LEMMA TendedStay ==
  ASSUME PaidInv, RowInv, DoneInv, RetryLimit <= 2, "crash_unsaved" \notin Faults, Moves,
         NEW p \in Fresh
  PROVE  /\ Turn.st.stop = "none" /\ Turn.st.jobs[p].retried =>
              \/ Settles(p)'
              \/ \E c \in Retries : /\ Tends(p, c)'
                                    /\ \/ Open(Turn.st.jobs[c]) /\ Open(Turn'.st.jobs[c])
                                       \/ Turn.pc = "submit" /\ Turn.run = c
         /\ disk.stop = "none" /\ disk.jobs[p].retried =>
              Settles(p)' \/ \E c \in Retries : Tends(p, c)' /\ Open(disk.jobs[c])
<1>0. Fresh \subseteq Runs /\ Retries \subseteq Runs
  BY DEF Runs
<1>1. /\ Turn.st.jobs[p].retried => "reviewed" \in Turn.st.jobs[p].stages
      /\ disk.jobs[p].retried => "reviewed" \in Turn.st.jobs[p].stages
  BY <1>0 DEF RowInv, StagesOk, DoneInv
<1>2. "reviewed" \in Turn.st.jobs[p].stages =>
        /\ Settles(p) => Settles(p)'
        /\ \A c \in Retries : dir[c].stage # "none" /\ Tends(p, c) => Tends(p, c)'
  BY TendsStay
<1>3. ASSUME NEW c \in Retries, Open(Turn.st.jobs[c])
      PROVE  dir[c].stage # "none" /\ Open(Turn'.st.jobs[c])
  BY <1>0, <1>3, EndedIsKnown, OpensStay DEF PaidInv
<1>4. ASSUME NEW c \in Retries, Open(disk.jobs[c])
      PROVE  dir[c].stage # "none"
  BY <1>0, <1>3, <1>4 DEF PaidInv, SlotInv
<1>5. ASSUME NEW c \in Retries, Turn.pc = "submit", Turn.run = c
      PROVE  dir[c].stage # "none"
  BY <1>0, <1>5 DEF PaidInv, MoneyInv, World
<1>6. ASSUME Turn.st.stop = "none", Turn.st.jobs[p].retried
      PROVE  \/ Settles(p)'
             \/ \E c \in Retries : /\ Tends(p, c)'
                                   /\ \/ Open(Turn.st.jobs[c]) /\ Open(Turn'.st.jobs[c])
                                      \/ Turn.pc = "submit" /\ Turn.run = c
  <2>1. \/ Settles(p)
        \/ \E c \in Retries : /\ Tends(p, c)
                              /\ Open(Turn.st.jobs[c]) \/ (Turn.pc = "submit" /\ Turn.run = c)
    BY <1>6 DEF DoneInv
  <2>2. CASE Settles(p)
    BY <1>1, <1>2, <1>6, <2>2
  <2>3. ASSUME NEW c \in Retries, Tends(p, c),
               Open(Turn.st.jobs[c]) \/ (Turn.pc = "submit" /\ Turn.run = c)
        PROVE  /\ Tends(p, c)'
               /\ \/ Open(Turn.st.jobs[c]) /\ Open(Turn'.st.jobs[c])
                  \/ Turn.pc = "submit" /\ Turn.run = c
    BY <1>1, <1>2, <1>3, <1>5, <1>6, <2>3
  <2> QED  BY <2>1, <2>2, <2>3
<1>7. ASSUME disk.stop = "none", disk.jobs[p].retried
      PROVE  Settles(p)' \/ \E c \in Retries : Tends(p, c)' /\ Open(disk.jobs[c])
  <2>1. Settles(p) \/ \E c \in Retries : Tends(p, c) /\ Open(disk.jobs[c])
    BY <1>7 DEF DoneInv
  <2>2. CASE Settles(p)
    BY <1>1, <1>2, <1>7, <2>2
  <2>3. ASSUME NEW c \in Retries, Tends(p, c), Open(disk.jobs[c])
        PROVE  Tends(p, c)'
    BY <1>1, <1>2, <1>4, <1>7, <2>3
  <2> QED  BY <2>1, <2>2, <2>3
<1> QED  BY <1>6, <1>7

LEMMA TendedStep ==
  ASSUME PaidInv, RowInv, DoneInv, RetryLimit <= 2, "crash_unsaved" \notin Faults, Moves,
         NEW p \in Fresh
  PROVE  /\ disk'.stop = "none" /\ disk'.jobs[p].retried =>
              Settles(p)' \/ \E c \in Retries : Tends(p, c)' /\ Open(disk'.jobs[c])
         /\ Turn'.st.stop = "none" /\ Turn'.st.jobs[p].retried =>
              \/ Settles(p)'
              \/ \E c \in Retries : /\ Tends(p, c)'
                                    /\ \/ Open(Turn'.st.jobs[c])
                                       \/ Turn'.pc = "submit" /\ Turn'.run = c
<1> DEFINE OnDisk == disk'.stop = "none" /\ disk'.jobs[p].retried =>
                       Settles(p)' \/ \E c \in Retries : Tends(p, c)' /\ Open(disk'.jobs[c])
           InTurn == Turn'.st.stop = "none" /\ Turn'.st.jobs[p].retried =>
                       \/ Settles(p)'
                       \/ \E c \in Retries : /\ Tends(p, c)'
                                             /\ \/ Open(Turn'.st.jobs[c])
                                                \/ Turn'.pc = "submit" /\ Turn'.run = c
<1>0. p \in Runs /\ Retries \subseteq Runs
  BY DEF Runs
<1>1. /\ Turn.st.stop = "none" /\ Turn.st.jobs[p].retried =>
           \/ Settles(p)'
           \/ \E c \in Retries : /\ Tends(p, c)'
                                 /\ \/ Open(Turn.st.jobs[c]) /\ Open(Turn'.st.jobs[c])
                                    \/ Turn.pc = "submit" /\ Turn.run = c
      /\ disk.stop = "none" /\ disk.jobs[p].retried =>
           Settles(p)' \/ \E c \in Retries : Tends(p, c)' /\ Open(disk.jobs[c])
  BY TendedStay
<1>2. disk' = disk => OnDisk
  BY <1>1
<1>3. CASE Carries
  <2>1. CASE disk' = disk /\ Turn' = Turn
    BY <1>1, <1>2, <2>1
  <2>2. CASE /\ disk' = disk /\ Turn.pc # "submit" /\ Turn'.st.jobs = Turn.st.jobs
             /\ Turn'.st.stop = "none" => Turn.st.stop = "none"
    BY <1>1, <1>2, <2>2
  <2>3. CASE /\ disk' = disk /\ Turn'.st.jobs = disk.jobs
             /\ Turn'.st.stop = "none" => disk.stop = "none"
    BY <1>1, <1>2, <2>3
  <2>4. CASE disk' = Turn.st /\ Turn'.st = Turn.st /\ Turn.pc # "submit"
    BY <1>1, <2>4
  <2> QED  BY <1>3, <2>1, <2>2, <2>3, <2>4 DEF Carries
<1>4. ASSUME NEW r \in Runs, Advances(r)
      PROVE  OnDisk /\ InTurn
  <2>1. /\ disk' = disk /\ \A q \in Runs \ {r} : Turn'.st.jobs[q] = Turn.st.jobs[q]
        /\ Turn'.st.jobs[r].retried = Turn.st.jobs[r].retried
        /\ Turn'.st.stop = "none" => Turn.st.stop = "none"
        /\ Turn.pc = "submit" => Turn.run = r /\ Open(Turn'.st.jobs[r])
    BY <1>4 DEF Advances
  <2>2. Turn'.st.jobs[p].retried = Turn.st.jobs[p].retried
    BY <1>0, <2>1
  <2> QED  BY <1>1, <1>2, <2>1, <2>2
<1>5. ASSUME NEW q \in Fresh, Remembers(q)
      PROVE  OnDisk /\ InTurn
  <2>1. /\ disk' = disk /\ \A v \in Runs \ {q} : Turn'.st.jobs[v] = Turn.st.jobs[v]
        /\ Turn'.st.stop = "none" => Turn.st.stop = "none"
        /\ Turn.pc # "submit"
    BY <1>5 DEF Remembers
  <2>2. CASE p # q
    BY <1>0, <1>1, <1>2, <2>1, <2>2
  <2>3. CASE p = q /\ Refuses(q)
    <3>1. UNCHANGED dir /\ dir[p].stage # "finalized" /\ "reviewed" \in Turn.st.jobs[p].stages
      BY <2>3 DEF Refuses, Turns, Retriable
    <3>2. dir[p].stage = "submitted"
      BY <1>0, <3>1 DEF DoneInv, RowInv, StagesOk
    <3>3. Settles(p)'
      BY <3>1, <3>2 DEF Settles
    <3> QED  BY <1>2, <2>1, <3>3
  <2>4. ASSUME p = q, NEW c \in Retries, Prepares(q, c),
               Turn'.st.stop = "none" => Turn'.pc = "submit" /\ Turn'.run = c
        PROVE  InTurn
    <3>1. Tends(p, c)'
      BY <2>4, PreparesTends
    <3> QED  BY <2>4, <3>1
  <2> QED  BY <1>2, <1>5, <2>1, <2>2, <2>3, <2>4 DEF Remembers
<1> QED  BY <1>3, <1>4, <1>5, JobsMove

LEMMA DoneStep ==
  ASSUME PaidInv, RowInv, DoneInv, RetryLimit <= 2, "crash_unsaved" \notin Faults, Moves
  PROVE  DoneInv'
<1>1. /\ InOrder(disk') /\ InOrder(Turn'.st)
      /\ \A r \in Runs : disk'.jobs[r].stages \subseteq Turn'.st.jobs[r].stages
  BY OrderStays
<1>2. \A r \in Runs : "finalized" \in Turn'.st.jobs[r].stages =>
        dir'[r].stage \in {"finalized", "submitted"}
  BY FinalStep
<1>3. \A c \in Retries : "reconciled" \in Turn'.st.jobs[c].stages =>
        c \in dir'[dir'[c].parent].merged
  BY ReconciledStep
<1>4. \A p \in Fresh :
        /\ disk'.stop = "none" /\ disk'.jobs[p].retried =>
             Settles(p)' \/ \E c \in Retries : Tends(p, c)' /\ Open(disk'.jobs[c])
        /\ Turn'.st.stop = "none" /\ Turn'.st.jobs[p].retried =>
             \/ Settles(p)'
             \/ \E c \in Retries : /\ Tends(p, c)'
                                   /\ \/ Open(Turn'.st.jobs[c])
                                      \/ Turn'.pc = "submit" /\ Turn'.run = c
  BY TendedStep
<1>5. /\ InOrder(disk)' = InOrder(disk') /\ InOrder(Turn.st)' = InOrder(Turn'.st)
      /\ \A c \in Retries : /\ Open(Turn.st.jobs[c])' = Open(Turn'.st.jobs[c])
                            /\ Open(disk.jobs[c])' = Open(disk'.jobs[c])
  BY DEF InOrder, Open
<1> QED  BY <1>1, <1>2, <1>3, <1>4, <1>5 DEF DoneInv

LEMMA DoneStart ==
  ASSUME Init
  PROVE  DoneInv
<1>1. Turn.st = disk
  BY StartsTyped
<1>2. PICK c \in Ceilings : disk = NewState(c)
  BY DEF Init
<1>3. \A r \in Runs : disk.jobs[r] = NoJob /\ ~ NoJob.retried /\ NoJob.stages = {}
  BY <1>2 DEF NewState, NoJob
<1> QED  BY <1>1, <1>3 DEF DoneInv, InOrder, Runs

\* What a complete scope that was not stopped means for each batch.
LEMMA CompleteTells ==
  ASSUME PaidInv, RowInv, StopInv, DoneInv, RetryLimit <= 2
  PROVE  CompleteMeansDone
<1> SUFFICES ASSUME lock = NoWorker, disk.stop = "none", ScopeComplete(disk),
                    NEW r \in Runs, Sent(r)
             PROVE  /\ "reviewed" \in disk.jobs[r].stages
                    /\ IsRetry(r) => r \in dir[dir[r].parent].merged
                    /\ ~IsRetry(r) => Eligible(r) = {} \/ dir[r].stage = "submitted"
  BY DEF CompleteMeansDone
<1>1. Turn.st = disk /\ TypeOK
  BY TurnTyped DEF PaidInv, TypeInv
<1>2. ASSUME NEW q \in Runs, Open(disk.jobs[q])
      PROVE  /\ "reviewed" \in disk.jobs[q].stages
             /\ q \in Retries => q \in dir[dir[q].parent].merged
  <2>1. /\ "reviewed" \in disk.jobs[q].stages
        /\ IsRetry(q) => "reconciled" \in disk.jobs[q].stages
    BY <1>2 DEF ScopeComplete
  <2>2. q \in Retries => dir[q].stage # "none"
    BY <1>1, <1>2, EndedIsKnown DEF PaidInv
  <2>3. q \in Retries => IsRetry(q)
    BY <2>2, RunnerAssumption DEF PaidInv, FamilyInv, IsRetry, Runs
  <2> QED  BY <1>1, <2>1, <2>3 DEF DoneInv
<1>3. Open(disk.jobs[r])
  BY <1>1 DEF PaidInv, SlotInv
<1>4. IsRetry(r) => r \in Retries
  BY DEF IsRetry, PaidInv, FamilyInv, Runs
<1>5. ASSUME ~ IsRetry(r)
      PROVE  Settles(r)
  <2>1. r \in Fresh
    <3>1. r \in Retries => dir[r].stage # "none"
      BY <1>1, <1>3, EndedIsKnown DEF PaidInv
    <3> QED  BY <1>5, <3>1, RunnerAssumption DEF PaidInv, FamilyInv, IsRetry, Runs
  <2>2. disk.jobs[r].passed
    BY <1>2, <1>3 DEF StopInv, ReviewsPassed
  <2>3. disk.jobs[r].retried
    BY <1>2, <1>3, <1>5, <2>2 DEF ScopeComplete, Retriable
  <2>4. CASE \E c \in Retries : Tends(r, c) /\ Open(disk.jobs[c])
    <3>1. PICK c \in Retries : Tends(r, c) /\ Open(disk.jobs[c])
      BY <2>4
    <3>2. c \in Runs /\ dir[c].parent = r /\ Eligible(r) \subseteq dir[c].asks
      BY <3>1 DEF Tends, Runs
    <3>3. c \in dir[r].merged
      BY <1>2, <3>1, <3>2
    <3>4. Agree(dir[r], server[r], dir[c], server[c], c)
      BY <1>1, <3>1, <3>2 DEF RowInv
    <3>5. \A s \in Eligible(r) : dir[r].recs[s].state = StateAfter(server[c].out[s], 2)
      BY <3>2, <3>3, <3>4 DEF Agree, MergedAs
    <3>6. Eligible(r) = {}
      BY <3>5, LastAttempt DEF Eligible
    <3> QED  BY <3>6 DEF Settles
  <2> QED  BY <2>1, <2>3, <2>4 DEF DoneInv
<1> QED  BY <1>2, <1>3, <1>4, <1>5 DEF Settles

\* A complete scope has nothing left anywhere: every batch is reviewed, every
\* retry is merged, and what still waits has no attempt left, or belongs to a
\* run that cmd_retry refused.  The retry limit is at most 2, its default:
\* the scheduler asks a parent again once, however many attempts are left.
THEOREM CompleteScopesAreDone ==
  ASSUME "crash_unsaved" \notin Faults, IsFiniteSet(Runs), RetryLimit <= 2
  PROVE  Spec => []CompleteMeansDone
<1> DEFINE Inv == PaidInv /\ RowInv /\ StopInv /\ DoneInv
<1>1. Init => Inv
  <2> SUFFICES ASSUME Init
               PROVE  Inv
    OBVIOUS
  <2>1. PaidInv /\ RowInv /\ DoneInv
    BY StartsTyped, SlotStart, MoneyStart, FamilyStart, RowStart, DoneStart DEF PaidInv
  <2>2. Turn.pc = "idle" /\ Turn.st = disk
    BY StartsTyped
  <2>3. \A r \in Runs : disk.jobs[r].stages = {}
    BY DEF Init, NewState, NoJob
  <2> QED  BY <2>1, <2>2, <2>3 DEF StopInv, ReviewsPassed
<1>2. Inv /\ PaidInv' /\ [Next]_vars => Inv'
  <2> SUFFICES ASSUME PaidInv, RowInv, StopInv, DoneInv, PaidInv', [Next]_vars
               PROVE  Inv'
    OBVIOUS
  <2>1. Moves
    BY StepMoves DEF PaidInv
  <2>2. RowInv'
    BY <2>1, RowStep
  <2>3. StopInv'
    BY <2>1, PassedStep DEF PaidInv
  <2>4. DoneInv'
    BY <2>1, DoneStep
  <2> QED  BY <2>2, <2>3, <2>4
<1>3. Inv => CompleteMeansDone
  BY CompleteTells
<1>4. Spec => []PaidInv
  BY PaidAlways
<1> QED  BY <1>1, <1>2, <1>3, <1>4, PTL DEF Spec

(***************************************************************************)
(* What the pipeline of one answer guarantees, for every source, answer    *)
(* and result of the parser.                                               *)
(***************************************************************************)

AnswerStatuses == {"resolved", "partially_resolved", "unresolved", "not_a_recipe"}

\* The better a verdict, the more of the answer is used.
Rank(result) ==
  CASE result.verdict = "accepted" -> 3
    [] result.verdict = "accepted_partial" -> 2
    [] result.verdict = "not_a_recipe" -> 1
    [] OTHER -> 0

\* An answer used in any way names the source, the hash and the versions it
\* was asked about, and has no fatal or major problem.
LEMMA LoadedIsClean ==
  ASSUME NEW src, NEW ask, NEW base, NEW resp,
         ValidateResponse(src, ask, base, resp).load
  PROVE  /\ resp # Bad
         /\ ValidateResponse(src, ask, base, resp).verdict \in {"accepted", "accepted_partial"}
         /\ Problems(src, ask, base, resp) \cap (Fatal \cup Major) = {}
         /\ ValidateResponse(src, ask, base, resp).verdict = "accepted" =>
              Problems(src, ask, base, resp) \cap Gaps = {}
BY DEF ValidateResponse, Verdict, Result

LEMMA CleanIdentity ==
  ASSUME NEW src, NEW ask, NEW base, NEW resp,
         Problems(src, ask, base, resp) \cap Fatal = {}
  PROVE  resp.sameId /\ resp.sameHash /\ resp.sameVersions
<1>1. IdentityProblems(resp) \cap Fatal = {}
  BY DEF Problems
<1> QED BY <1>1 DEF IdentityProblems, When, Fatal

LEMMA CleanCoverage ==
  ASSUME NEW src, NEW ask, NEW base, NEW resp,
         Problems(src, ask, base, resp) \cap Gaps = {}
  PROVE  /\ Required(ask) \subseteq Covered(resp.ingredients)
         /\ ~base.hasSteps => ask.steps \subseteq Covered(resp.steps) \cup resp.unclassified
<1>1. CoverageProblems(ask, base, resp) \cap Gaps = {}
  BY DEF Problems
<1>2. "ingredient_coverage_gap" \in Gaps /\ "instruction_coverage_gap" \in Gaps
  BY DEF Gaps
<1>3. /\ "ingredient_coverage_gap" \notin CoverageProblems(ask, base, resp)
      /\ "instruction_coverage_gap" \notin CoverageProblems(ask, base, resp)
  BY <1>1, <1>2
<1> QED BY <1>3 DEF CoverageProblems, When

\* A row that is ready to load (llm_batch.py, cmd_finalize) comes from an
\* answer about this very source under the present versions, and a quantity
\* it is declared to know is in the text it stands for, whether the model or
\* the parser put it there: the number occurs, the unit is evidenced, and
\* nobody called it uncertain.
THEOREM ReadyQuantitiesHold ==
  ASSUME NEW src \in Sources, NEW ask, NEW det, NEW resp, NEW retries \in BOOLEAN,
         NEW verdict,
         verdict = ValidateResponse(src, ask, Baseline(det), resp).verdict,
         RecordState(src, ask, det, resp, retries) = "ready_to_load"
  PROVE  LET merged == MergeResponse(ask, resp, det, verdict) IN
         /\ resp.sameId /\ resp.sameHash /\ resp.sameVersions
         /\ merged.capabilities.quantities =>
              \A g \in merged.ingredients :
                \/ g.qualitative
                \/ /\ g.amount \in src.numbers[g.text]
                   /\ g.unit = "count" \/ g.unit \in src.units[g.text]
                   /\ ~g.uncertain
<1> DEFINE result == ValidateResponse(src, ask, Baseline(det), resp)
           merged == MergeResponse(ask, resp, det, verdict)
<1>1. result.load /\ IsLoadable(src, merged)
  BY DEF RecordState
<1>2. resp.sameId /\ resp.sameHash /\ resp.sameVersions
  <2>1. Problems(src, ask, Baseline(det), resp) \cap (Fatal \cup Major) = {}
    BY <1>1, LoadedIsClean
  <2> QED BY <2>1, CleanIdentity
<1>3. ASSUME merged.capabilities.quantities, NEW g \in merged.ingredients, ~g.qualitative
      PROVE  /\ g.amount \in src.numbers[g.text]
             /\ g.unit = "count" \/ g.unit \in src.units[g.text]
             /\ ~g.uncertain
  <2>1. QuantitiesKnown(merged.ingredients, verdict)
    BY <1>3 DEF MergeResponse, Capabilities
  <2>2. g.amount # None /\ ~g.uncertain /\ g.unit # None
    BY <1>3, <2>1 DEF QuantitiesKnown
  <2>3. Supported(src, g)
    BY <1>1, <1>3 DEF IsLoadable
  <2> QED BY <2>2, <2>3 DEF Supported
<1> QED BY <1>2, <1>3

\* The merge (merge_response) loses no line: every occurrence of the parser
\* is still represented, and one on a line nobody asked about is untouched,
\* whatever the answer says of that line.
THEOREM NoLineLost ==
  ASSUME NEW ask, NEW resp, NEW det, NEW verdict, NEW occ \in det.occurrences
  PROVE  LET merged == MergeResponse(ask, resp, det, verdict) IN
         /\ \E g \in merged.ingredients : g.line = occ.line
         /\ ask.requested # None /\ occ.line \notin ask.requested =>
              KeptItem(occ) \in merged.ingredients
<1> DEFINE merged == MergeResponse(ask, resp, det, verdict)
<1>1. merged.ingredients = MergedIngredients(ask, resp, det)
  BY DEF MergeResponse
<1>2. CASE \A i \in InScope(ask, resp) : resp.ingredients[i].line # occ.line
  <2>1. KeptItem(occ) \in MergedIngredients(ask, resp, det)
    BY <1>2 DEF MergedIngredients
  <2>2. KeptItem(occ).line = occ.line
    BY DEF KeptItem
  <2> QED BY <1>1, <2>1, <2>2
<1>3. CASE \E i \in InScope(ask, resp) : resp.ingredients[i].line = occ.line
  <2>1. PICK i \in InScope(ask, resp) : resp.ingredients[i].line = occ.line
    BY <1>3
  <2>2. MergedItem(ask, resp, det, i) \in merged.ingredients
    BY <1>1, <2>1 DEF MergedIngredients
  <2>3. MergedItem(ask, resp, det, i).line = occ.line
    BY <2>1 DEF MergedItem
  <2>4. ~(ask.requested # None /\ occ.line \notin ask.requested)
    BY <2>1 DEF InScope
  <2> QED BY <2>2, <2>3, <2>4
<1> QED BY <1>2, <1>3

\* A clean verdict means that every line asked about comes from the model's
\* interpretation of it, and, where the parser had no steps, that every step
\* line was interpreted or given up by name.
THEOREM AcceptedIsComplete ==
  ASSUME NEW src, NEW ask, NEW det, NEW resp,
         ValidateResponse(src, ask, Baseline(det), resp).load,
         ValidateResponse(src, ask, Baseline(det), resp).verdict = "accepted"
  PROVE  /\ \A line \in Required(ask) :
              \E g \in MergeResponse(ask, resp, det, "accepted").ingredients :
                g.line = line /\ g.origin = "llm"
         /\ ~det.hasSteps => ask.steps \subseteq Covered(resp.steps) \cup resp.unclassified
<1>1. Problems(src, ask, Baseline(det), resp) \cap Gaps = {}
  BY LoadedIsClean
<1>2. /\ Required(ask) \subseteq Covered(resp.ingredients)
      /\ ~Baseline(det).hasSteps => ask.steps \subseteq Covered(resp.steps) \cup resp.unclassified
  BY <1>1, CleanCoverage
<1>3. Baseline(det).hasSteps = det.hasSteps
  BY DEF Baseline
<1>4. ASSUME NEW line \in Required(ask)
      PROVE  \E g \in MergeResponse(ask, resp, det, "accepted").ingredients :
               g.line = line /\ g.origin = "llm"
  <2>1. PICK i \in DOMAIN resp.ingredients : resp.ingredients[i].line = line
    BY <1>2 DEF Covered
  <2>2. i \in InScope(ask, resp)
    BY <2>1 DEF InScope, Required
  <2>3. MergedItem(ask, resp, det, i) \in MergeResponse(ask, resp, det, "accepted").ingredients
    BY <2>2 DEF MergeResponse, MergedIngredients
  <2>4. /\ MergedItem(ask, resp, det, i).line = line
        /\ MergedItem(ask, resp, det, i).origin = "llm"
    BY <2>1 DEF MergedItem
  <2> QED BY <2>3, <2>4
<1> QED BY <1>2, <1>3, <1>4

\* An answer to a request that asks for no line changes no ingredient, so a
\* record sent for lines the parser dropped keeps exactly what it had.
THEOREM NothingAskedNothingAdded ==
  ASSUME NEW ask, NEW resp, NEW det, NEW verdict, ask.requested = {}, {} # None
  PROVE  MergeResponse(ask, resp, det, verdict).ingredients
           = { KeptItem(occ) : occ \in det.occurrences }
<1>1. InScope(ask, resp) = {}
  BY DEF InScope
<1>2. { o \in det.occurrences :
          \A i \in InScope(ask, resp) : resp.ingredients[i].line # o.line } = det.occurrences
  BY <1>1
<1>3. { MergedItem(ask, resp, det, i) : i \in InScope(ask, resp) } = {}
  BY <1>1
<1>4. MergedIngredients(ask, resp, det) = { KeptItem(occ) : occ \in det.occurrences }
  BY <1>2, <1>3 DEF MergedIngredients
<1> QED BY <1>4 DEF MergeResponse

\* A parsed record of one recipe that is sent to the model (route_record) asks
\* for a line or a block, unless all that was noticed is that the parser lost
\* lines or contradicts itself: such a request is paid for and asks nothing.
THEOREM PaidRequestsAsk ==
  ASSUME NEW rec \in SourceRecords, NEW durations \in BOOLEAN,
         rec.parse = "ok", ~rec.multi, rec.notesOnly => ~rec.steps,
         RouteRecord(rec, durations).route = "needs_llm"
  PROVE  \/ Asks(Brief(rec, RouteRecord(rec, durations)))
         \/ RouteRecord(rec, durations).reasons
              \cap {"omitted_source_lines", "unclassified_source_lines", "capability_conflict"} # {}
<1> DEFINE routed == RouteRecord(rec, durations)
           reasons == Reasons(rec, durations)
<1>1. routed = RouteParsed(rec, durations)
  BY DEF RouteRecord, Routed
<1>2. routed = Routed("needs_llm", reasons) /\ (rec.asked # {} \/ ~(reasons \subseteq LineSigns))
  BY <1>1 DEF RouteParsed, Routed
<1>3. routed.reasons = reasons /\ routed.audit = FALSE
  BY <1>2 DEF Routed
<1>4. Brief(rec, routed).requested = rec.asked
  BY <1>3 DEF Brief, RequestedLines
<1>5. CASE rec.asked # {}
  BY <1>4, <1>5 DEF Asks
<1>6. CASE rec.asked = {}
  <2>1. PICK sign \in reasons : sign \notin LineSigns
    BY <1>2, <1>6
  <2>2. sign \in { "omitted_source_lines", "unclassified_source_lines", "instructions_only_notes",
                   "capability_conflict", "durations_unstructured", "servings_unstructured" }
    BY <2>1, <1>6 DEF Reasons, Ambiguities, When, LineSigns, Issues, SourceRecords
  <2>3. sign = "instructions_only_notes" => rec.notesOnly
    BY <2>1 DEF Reasons, Ambiguities, When, Issues, SourceRecords
  <2>4. sign = "servings_unstructured" => ~rec.servings /\ rec.servingsSaid
    BY <2>1 DEF Reasons, Ambiguities, When, Issues, SourceRecords
  <2>5. sign \in {"instructions_only_notes", "durations_unstructured", "servings_unstructured"} =>
          MissingBlocks(rec, routed.reasons) # {}
    BY <1>3, <2>1, <2>3, <2>4 DEF MissingBlocks, When
  <2>6. Brief(rec, routed).missing = MissingBlocks(rec, routed.reasons)
    BY DEF Brief
  <2> QED BY <1>3, <2>1, <2>2, <2>5, <2>6 DEF Asks
<1> QED BY <1>5, <1>6

\* When several ingredients were read from one glued line, none of them takes
\* the amount or the unit the parser had found there.
THEOREM SharedLineInheritsNothing ==
  ASSUME NEW ask, NEW resp, NEW det,
         NEW i \in InScope(ask, resp), NEW j \in InScope(ask, resp), i # j,
         resp.ingredients[i].line = resp.ingredients[j].line
  PROVE  /\ MergedItem(ask, resp, det, i).amount = resp.ingredients[i].value
         /\ MergedItem(ask, resp, det, i).unit
              \in {resp.ingredients[i].unit, resp.ingredients[i].word}
<1>1. Prior(ask, resp, det, i) = {}
  BY DEF Prior
<1>2. OnlyOf({ occ.unit : occ \in {} }) = None
  BY DEF OnlyOf
<1>3. OnlyOf({ occ.amount : occ \in { o \in {} : ~NeedsInterpretation(o) } }) = None
  BY DEF OnlyOf
<1> QED BY <1>1, <1>2, <1>3 DEF MergedItem, MergedAmount, MergedUnit

\* The ladder of verdicts is monotone: a further problem never makes more of
\* an answer usable, and never turns a final rejection into a paid retry.
THEOREM MoreProblemsNeverHelp ==
  ASSUME NEW few, NEW many, few \subseteq many, NEW status \in AnswerStatuses,
         NEW uncertain \in BOOLEAN, NEW oneLine \in BOOLEAN
  PROVE  /\ Rank(Verdict(many, status, uncertain, oneLine))
              <= Rank(Verdict(few, status, uncertain, oneLine))
         /\ Verdict(many, status, uncertain, oneLine).load =>
              Verdict(few, status, uncertain, oneLine).load
         /\ few \cap Fatal # {} => ~Verdict(many, status, uncertain, oneLine).retry
<1>1. few \cap Fatal # {} => many \cap Fatal # {}
  OBVIOUS
<1>2. few \cap Major # {} => many \cap Major # {}
  OBVIOUS
<1>3. few \cap Gaps # {} => many \cap Gaps # {}
  OBVIOUS
<1> DEFINE Clean(problems) ==
             IF status = "not_a_recipe" THEN Result("not_a_recipe", FALSE, FALSE)
             ELSE IF oneLine THEN Result("accepted_partial", FALSE, FALSE)
             ELSE IF problems \cap Gaps # {} \/ uncertain \/ status # "resolved"
                  THEN Result("accepted_partial", FALSE, TRUE)
                  ELSE Result("accepted", FALSE, TRUE)
<1>4. ASSUME NEW problems
      PROVE  /\ problems \cap Fatal # {} =>
                  Verdict(problems, status, uncertain, oneLine)
                    = Result("rejected_validation", FALSE, FALSE)
             /\ problems \cap Fatal = {} /\ problems \cap Major # {} =>
                  Verdict(problems, status, uncertain, oneLine)
                    = Result("rejected_validation", TRUE, FALSE)
             /\ problems \cap Fatal = {} /\ problems \cap Major = {} =>
                  Verdict(problems, status, uncertain, oneLine) = Clean(problems)
  <2>1. problems \cap Fatal = {} /\ problems \cap Major = {} =>
          problems \cap (Fatal \cup Major) = {}
    OBVIOUS
  <2>2. problems \cap (Fatal \cup Major) = {} =>
          problems \cap Fatal = {} /\ problems \cap Major = {}
    OBVIOUS
  <2> QED BY <2>1, <2>2 DEF Verdict
<1>6. 0 <= Rank(Verdict(few, status, uncertain, oneLine))
  BY DEF Rank
<1>7. CASE many \cap Fatal # {}
  <2>1. Verdict(many, status, uncertain, oneLine) = Result("rejected_validation", FALSE, FALSE)
    BY <1>4, <1>7
  <2>2. Rank(Result("rejected_validation", FALSE, FALSE)) = 0
    BY DEF Rank, Result
  <2>3. ~Result("rejected_validation", FALSE, FALSE).load /\ ~Result("rejected_validation", FALSE, FALSE).retry
    BY DEF Result
  <2> HIDE DEF Clean
  <2> QED BY <2>1, <2>2, <2>3, <1>6
<1>8. CASE many \cap Fatal = {} /\ many \cap Major # {}
  <2>1. Verdict(many, status, uncertain, oneLine) = Result("rejected_validation", TRUE, FALSE)
    BY <1>4, <1>8
  <2>2. Rank(Result("rejected_validation", TRUE, FALSE)) = 0
    BY DEF Rank, Result
  <2>3. ~Result("rejected_validation", TRUE, FALSE).load
    BY DEF Result
  <2> HIDE DEF Clean
  <2> QED BY <2>1, <2>2, <2>3, <1>1, <1>6, <1>8
<1>9. CASE many \cap Fatal = {} /\ many \cap Major = {}
  <2>1. /\ Verdict(many, status, uncertain, oneLine) = Clean(many)
        /\ Verdict(few, status, uncertain, oneLine) = Clean(few)
    BY <1>1, <1>2, <1>4, <1>9
  <2>2. Rank(Clean(many)) <= Rank(Clean(few))
    BY <1>3 DEF Rank, Result
  <2>3. Clean(many).load => Clean(few).load
    BY DEF Result
  <2> QED BY <1>1, <1>9, <2>1, <2>2, <2>3
<1> QED BY <1>7, <1>8, <1>9

=============================================================================
