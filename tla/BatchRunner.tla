----------------------------- MODULE BatchRunner -----------------------------
(***************************************************************************)
(* recipes/llm_batch.py: the run directories of the batch runner, the      *)
(* batch provider they are sent to, and the rows the load writes.  A run   *)
(* directory is a handful of files that outlive every process; a command   *)
(* replaces them one after the other, so a command that is cut short       *)
(* leaves the effects of its first writes.                                 *)
(*                                                                         *)
(* Left out: records that need no model (they are ready when the run is    *)
(* finalized), segments, the cache of merged interpretations (it repeats   *)
(* the verdict of a stored response) and the token totals of the reports.  *)
(* A request costs one unit when the provider answers it, so the cost of a *)
(* batch never exceeds the reservation made for its output cap.            *)
(***************************************************************************)
EXTENDS Integers, Sequences, FiniteSets

CONSTANTS
  Fresh,       \* run directories cmd_prepare has written
  Retries,     \* names of the directories cmd_retry may write
  Source,      \* source records, by id
  SourcesOf,   \* the records each fresh run asks the model about
  NoRun,
  RetryLimit,  \* settings.llm_retry_limit: most attempts at a record
  Answers      \* the verdicts answers may come to

Runs == Fresh \cup Retries

VARIABLES
  dir,         \* the files of each run directory
  server,      \* what the provider knows of the batch of each run
  recipes,     \* source ids with a row in the recipes table
  held         \* source ids with a row in recipe_quarantine

runnerVars == <<dir, server, recipes, held>>

Stages == { "none", "prepared", "submitted", "collected", "finalized" }

\* A failed, expired or cancelled batch is an ended one with fewer answers:
\* the scheduler collects it with force.
Statuses == { "none", "in_progress", "ended" }

\* What comes back for a request: a usable interpretation, one the validator
\* rejects, one that settles the record for good (not a recipe, merged
\* evidence unusable), or no answer (failed, expired or missing request).
Verdicts == { "accepted", "rejected_validation", "settled", "request_error" }
RecordStates == { "none", "awaiting_llm", "unresolved", "ready_to_load" }

ASSUME RunnerAssumption ==
  /\ Fresh \cap Retries = {}
  /\ NoRun \notin Runs
  /\ IsFiniteSet(Source)
  /\ SourcesOf \in [Fresh -> SUBSET Source]
  /\ RetryLimit \in Nat \ {0}
  /\ Answers \subseteq Verdicts /\ Answers # {}

Records == [ state    : RecordStates,
             verdict  : Verdicts \cup {"none"},
             attempts : Nat ]

\* manifest.json, mapping.json, records.jsonl, ready_to_load.jsonl and the
\* reconciled_retries of validation-report.json.
Dirs == [ stage   : Stages,
          parent  : Runs \cup {NoRun},
          asks    : SUBSET Source,          \* the requests of the run
          attempt : {"none", "unknown", "confirmed", "absent"},
          batch   : BOOLEAN,                \* the manifest has a batch id
          recs    : [Source -> Records],
          ready   : SUBSET Source,
          merged  : SUBSET Runs ]

\* A batch and, once it has ended, what its output says of each record.
Batches == [ status : Statuses, out : [Source -> Verdicts \cup {"none"}] ]

RunnerTypeOK ==
  /\ dir \in [Runs -> Dirs]
  /\ server \in [Runs -> Batches]
  /\ recipes \subseteq Source
  /\ held \subseteq Source

NoRecord == [state |-> "none", verdict |-> "none", attempts |-> 0]

\* The directory of a run about to be sent: `tries` is the attempt each of
\* its records is at.
Prepared(parent, asks, tries) ==
  [ stage   |-> "prepared",
    parent  |-> parent,
    asks    |-> asks,
    attempt |-> "none",
    batch   |-> FALSE,
    recs    |-> [s \in Source |->
                   IF s \in asks
                   THEN [state |-> "awaiting_llm", verdict |-> "none", attempts |-> tries[s]]
                   ELSE NoRecord],
    ready   |-> {},
    merged  |-> {} ]

NoDir == [Prepared(NoRun, {}, [s \in Source |-> 0]) EXCEPT !.stage = "none"]

NoBatch == [status |-> "none", out |-> [s \in Source |-> "none"]]

RunnerInit ==
  /\ dir = [r \in Runs |-> IF r \in Fresh
                           THEN Prepared(NoRun, SourcesOf[r], [s \in Source |-> 1])
                           ELSE NoDir]
  /\ server = [r \in Runs |-> NoBatch]
  /\ recipes = {}
  /\ held = {}

-----------------------------------------------------------------------------
(* The provider.                                                           *)

Sent(r) == server[r].status # "none"

Created(r) == [server EXCEPT ![r].status = "in_progress"]

\* A batch ends on its own.
BatchEnds(r) ==
  /\ server[r].status = "in_progress"
  /\ \E out \in [dir[r].asks -> Verdicts] :
       server' = [server EXCEPT ![r] =
         [status |-> "ended",
          out |-> [s \in Source |-> IF s \in dir[r].asks THEN out[s] ELSE "none"]]]
  /\ UNCHANGED <<dir, recipes, held>>

\* cap_based_max and the usage of the collected results, in requests.
MaxCost(r) == Cardinality(dir[r].asks)
ActualCost(r) == Cardinality({s \in dir[r].asks : server[r].out[s] # "request_error"})

-----------------------------------------------------------------------------
(* The commands, as what they leave in the directory of a run.             *)

\* cmd_submit refuses a run without requests, one that already has a batch
\* and one whose last attempt is of unknown outcome.
SubmitRefused(r) ==
  \/ dir[r].asks = {}
  \/ dir[r].batch
  \/ dir[r].attempt = "unknown"

\* The attempt is on disk before the batch is created.
AttemptMade(r) == [dir EXCEPT ![r].attempt = "unknown"]

\* The batch id and the new stage are written together.
Confirmed(r) == [dir EXCEPT ![r].attempt = "confirmed",
                            ![r].batch = TRUE,
                            ![r].stage = "submitted"]

\* cmd_status writes the stage whatever it was.
Queried(r) == [dir EXCEPT ![r].stage = "submitted"]

MarkedAbsent(r) == [dir EXCEPT ![r].attempt = "absent"]

Collected(r) == [dir EXCEPT ![r].stage = "collected"]

\* Mutant of StateAfter: a record without an attempt left stays as received.
StateAfterReceived(verdict, attempts) ==
  CASE verdict = "accepted" -> "ready_to_load"
    [] verdict = "settled" -> "unresolved"
    [] verdict \notin {"accepted", "settled"} /\ attempts < RetryLimit -> "awaiting_llm"
    [] OTHER -> "llm_received"

\* The state a verdict leaves a record in: a rejection or a failed request
\* waits for another attempt while the retry budget has one.
StateAfter(verdict, attempts) ==
  CASE verdict = "accepted" -> "ready_to_load"
    [] verdict = "settled" -> "unresolved"
    [] verdict \notin {"accepted", "settled"} /\ attempts < RetryLimit -> "awaiting_llm"
    [] OTHER -> "unresolved"

\* cmd_finalize: attempts are those latched in records.jsonl, and the report
\* it writes has forgotten which retries were reconciled.
Finalized(r) ==
  LET d == dir[r] IN
  [dir EXCEPT ![r] = [d EXCEPT
     !.stage = "finalized",
     !.recs = [s \in Source |->
        IF s \in d.asks
        THEN [state    |-> StateAfter(server[r].out[s], d.recs[s].attempts),
              verdict  |-> server[r].out[s],
              attempts |-> d.recs[s].attempts]
        ELSE d.recs[s]],
     !.ready = {s \in d.asks : server[r].out[s] = "accepted"},
     !.merged = {}]]

\* cmd_retry: the records that wait and have an attempt left.
Eligible(p) ==
  {s \in dir[p].asks : /\ dir[p].recs[s].state = "awaiting_llm"
                       /\ dir[p].recs[s].attempts < RetryLimit}

RetryPrepared(p, c) ==
  [dir EXCEPT ![c] =
     Prepared(p, Eligible(p), [s \in Source |-> dir[p].recs[s].attempts + 1])]

\* cmd_reconcile refuses a retry that is not finalized.
Mergeable(c) == dir[c].stage = "finalized"

\* The parent's files after the first k of the writes of cmd_reconcile:
\* records, ready rows, and the report that marks the retry as reconciled.
Merges == 3

\* Mutant of Merged: the retry is marked before its ready rows are written.
MergedMarkedEarly(c, k) ==
  LET p == dir[c].parent IN
  [dir EXCEPT
     ![p].recs = IF k < 1 THEN @
                 ELSE [s \in Source |-> IF s \in dir[c].asks THEN dir[c].recs[s] ELSE @[s]],
     ![p].merged = IF k < 2 THEN @ ELSE @ \cup {c},
     ![p].ready = IF k < 3 THEN @ ELSE @ \cup dir[c].ready]

Merged(c, k) ==
  LET p == dir[c].parent
      later(a, b) == IF a > b THEN a ELSE b
  IN [dir EXCEPT
     ![p].recs = IF k < 1 THEN @
                 ELSE [s \in Source |->
                   IF s \in dir[c].asks
                   THEN [dir[c].recs[s] EXCEPT
                           !.attempts = later(@, dir[p].recs[s].attempts)]
                   ELSE @[s]],
     ![p].ready = IF k < 2 THEN @ ELSE @ \cup dir[c].ready,
     ![p].merged = IF k < 3 THEN @ ELSE @ \cup {c}]

-----------------------------------------------------------------------------
(* The load, run by hand on a run that was finalized.                      *)

\* records.jsonl and ready_to_load.jsonl are there: the run was finalized,
\* whatever its stage says now.
HasRows(r) ==
  /\ dir[r].asks # {}
  /\ \A s \in dir[r].asks : dir[r].recs[s].verdict # "none"

InState(r, state) == {s \in dir[r].asks : dir[r].recs[s].state = state}

\* cmd_load, with --partial where records are still pending: the ready rows
\* are upserted and the unresolved records held, in one transaction.
Load(r) ==
  /\ HasRows(r)
  /\ recipes' = recipes \cup dir[r].ready
  /\ held' = held \cup InState(r, "unresolved")
  /\ UNCHANGED <<dir, server>>
=============================================================================
