---------------------------- MODULE SessionStore ----------------------------
(***************************************************************************)
(* services/session_store.py: the compare-and-set session store, at the    *)
(* grain of its database transactions.  Any number of clients (request     *)
(* handlers, agent runs, parallel tool calls, on any number of server      *)
(* processes) work on the same rows.  A mutate reads a snapshot without a  *)
(* lock, computes the new row outside any transaction and hands it to      *)
(* update, which locks the row (SELECT .. FOR UPDATE) and checks again.    *)
(* What a transaction writes becomes visible at its commit; a client that  *)
(* fails or is cancelled before the commit leaves nothing behind.          *)
(***************************************************************************)
EXTENDS SessionPhases, Integers, Sequences, FiniteSets

CONSTANTS
  Sessions, Keys, Answers, MaxSlots, NoRow,   \* as in SessionLedger
  Clients,     \* concurrent users of the store
  NoClient,    \* nobody: the holder of a free row lock
  FnPhases,    \* the phases the callers' functions ask for
  AnswerCap,   \* most confirmed answers a session may hold (200 in the code)
  MaxOps       \* bound: operations started in a behaviour

ASSUME StoreAssumption ==
  /\ Sessions # {}
  /\ MaxSlots \in Nat
  /\ AnswerCap \in Nat
  /\ MaxOps \in Nat
  /\ FnPhases \subseteq Phases
  /\ NoClient \notin Clients

VARIABLES
  row,         \* committed rows of the sessions table
  log,         \* committed rows of session_events, by seq
  lock,        \* holder of the row lock of each session
  tx,          \* what each client is doing
  ops          \* operations started so far

vars == <<row, log, lock, tx, ops>>

Ledger == INSTANCE SessionLedger
  WITH Sessions <- Sessions, Keys <- Keys, Answers <- Answers,
       MaxSlots <- MaxSlots, NoRow <- NoRow, row <- row, log <- log

\* A missing row is no row.
ASSUME RowAssumption == NoRow \notin Ledger!Rows

Kinds == { "state_updated", "permission_updated", "appended",
           "search_slot_claimed", "read" }

Pcs == { "idle", "computed", "locked", "insert", "read", "replied" }

\* A row without the type of its columns: what a client may hold.
MaybeRow == Ledger!Rows \cup {NoRow}

Transactions == [ pc   : Pcs,
                  s    : Sessions,
                  kind : Kinds,
                  snap : MaybeRow,   \* the row as read
                  new  : MaybeRow,   \* the row to write
                  seq  : Nat ]       \* sequence number to insert at

\* One type invariant for the store.
TypeOK ==
  /\ row \in [Sessions -> MaybeRow]
  /\ log \in [Sessions -> Seq(Ledger!Events)]
  /\ lock \in [Sessions -> Clients \cup {NoClient}]
  /\ tx \in [Clients -> Transactions]
  /\ ops \in 0 .. MaxOps

-----------------------------------------------------------------------------
(* Helpers.                                                                *)

\* A client that is in no operation (the other fields are then unused).
IdleTx == [ pc |-> "idle", s |-> CHOOSE s \in Sessions : TRUE, kind |-> "read",
            snap |-> NoRow, new |-> NoRow, seq |-> 0 ]

Idle(c) == tx' = [tx EXCEPT ![c] = IdleTx]

StartOp == ops < MaxOps /\ ops' = ops + 1

Created(s) == row[s] # NoRow

\* Variant: a plain SELECT, which waits for nobody.
AcquireWithoutWaiting(c, s) == lock' = [lock EXCEPT ![s] = c]

\* The row lock taken by SELECT .. FOR UPDATE: one holder, others wait.
Acquire(c, s) == lock[s] = NoClient /\ lock' = [lock EXCEPT ![s] = c]

\* Commit and rollback both give the locks of the transaction back.
Release(c) == lock' = [s \in Sessions |-> IF lock[s] = c THEN NoClient ELSE lock[s]]

\* Events a transaction of client c inserts at its commit.
Inserted(c) ==
  CASE tx[c].kind = "permission_updated" ->
         << Ledger!Event("permission_updated", tx[c].new.allowed) >>
    [] tx[c].kind = "search_slot_claimed" ->
         << Ledger!Event("search_slot_claimed", FALSE),
            Ledger!Event("search_requested", FALSE) >>
    [] OTHER -> << Ledger!Event(tx[c].kind, FALSE) >>

-----------------------------------------------------------------------------
(* create: the row and event 1 in one transaction on a fresh id.           *)

\* Variant: a first phase outside the vocabulary.
CreateUnknownPhase(s, answers, allowed) ==
  /\ StartOp
  /\ row[s] = NoRow
  /\ row' = [row EXCEPT ![s] = [ revision |-> 1, phase |-> "new",
                                 answers |-> answers, allowed |-> allowed ]]
  /\ log' = [log EXCEPT ![s] = << Ledger!Event("created", allowed) >>]
  /\ UNCHANGED <<lock, tx>>

Create(s, answers, allowed) ==
  /\ StartOp
  /\ row[s] = NoRow
  /\ Cardinality(DOMAIN answers) <= AnswerCap
  /\ row' = [row EXCEPT ![s] = [ revision |-> 1, phase |-> DefaultPhase,
                                 answers |-> answers, allowed |-> allowed ]]
  /\ log' = [log EXCEPT ![s] = << Ledger!Event("created", allowed) >>]
  /\ UNCHANGED <<lock, tx>>

(***************************************************************************)
(* mutate: snapshot without a lock, then fn on a copy.  A caller whose     *)
(* expected revision is not the snapshot's gets a stale error at once and  *)
(* changes nothing, so only matching callers take a step.                  *)
(***************************************************************************)
Computes(c, s, kind, new) ==
  /\ StartOp
  /\ tx[c].pc = "idle"
  /\ Created(s)
  /\ tx' = [tx EXCEPT ![c] = [ pc |-> "computed", s |-> s, kind |-> kind,
                               snap |-> row[s], new |-> new, seq |-> 0 ]]
  /\ UNCHANGED <<row, log, lock>>

\* Any caller but set_permission: fn may move the phase and hand over any
\* answers; it never touches the permission.
Mutate(c, s, phase, answers) ==
  Computes(c, s, "state_updated",
           [row[s] EXCEPT !.phase = phase, !.answers = answers])

SetPermission(c, s, allowed) ==
  Computes(c, s, "permission_updated", [row[s] EXCEPT !.allowed = allowed])

(***************************************************************************)
(* update: lock the row, then check the revision, the phase move and the   *)
(* answer cap against the locked row.                                      *)
(***************************************************************************)
\* Variant: the function's answers replace the stored ones.
MergedByReplacing(c) == tx[c].new.answers

Merged(c) ==
  MergeConfirmedAnswers(row[tx[c].s].answers, tx[c].new.answers)

\* Variant: the revision is not compared under the lock.
AdmissibleAnyRevision(c) ==
  /\ CanTransition(row[tx[c].s].phase, tx[c].new.phase)
  /\ Cardinality(DOMAIN Merged(c)) <= AnswerCap

Admissible(c) ==
  /\ row[tx[c].s].revision = tx[c].snap.revision
  /\ CanTransition(row[tx[c].s].phase, tx[c].new.phase)
  /\ Cardinality(DOMAIN Merged(c)) <= AnswerCap

UpdateLock(c) ==
  /\ tx[c].pc = "computed"
  /\ Acquire(c, tx[c].s)
  /\ Admissible(c)
  /\ tx' = [tx EXCEPT ![c].pc = "locked",
                      ![c].new.answers = Merged(c),
                      ![c].new.revision = tx[c].snap.revision + 1]
  /\ UNCHANGED <<row, log, ops>>

\* Stale revision, illegal phase move or too many answers: the transaction
\* rolls back and the caller gets the error.
UpdateRejected(c) ==
  /\ tx[c].pc = "computed"
  /\ lock[tx[c].s] = NoClient
  /\ ~Admissible(c)
  /\ Idle(c)
  /\ UNCHANGED <<row, log, lock, ops>>

(***************************************************************************)
(* append_event and claim_search_slot: lock the row first.  A denied or    *)
(* exhausted claim appends nothing and is not a step.                      *)
(***************************************************************************)
AppendLock(c, s) ==
  /\ StartOp
  /\ tx[c].pc = "idle"
  /\ Created(s)
  /\ Acquire(c, s)
  /\ tx' = [tx EXCEPT ![c].pc = "locked", ![c].s = s, ![c].kind = "appended"]
  /\ UNCHANGED <<row, log>>

\* Variants: one slot too many; the permission is not read under the lock.
ClaimLockUnasked(c, s) ==
  /\ StartOp
  /\ tx[c].pc = "idle"
  /\ Created(s)
  /\ Acquire(c, s)
  /\ Ledger!SlotsUsed(log[s]) < MaxSlots
  /\ tx' = [tx EXCEPT ![c].pc = "locked", ![c].s = s,
                      ![c].kind = "search_slot_claimed"]
  /\ UNCHANGED <<row, log>>

ClaimLock(c, s) ==
  /\ StartOp
  /\ tx[c].pc = "idle"
  /\ Created(s)
  /\ Acquire(c, s)
  /\ row[s].allowed
  /\ Ledger!SlotsUsed(log[s]) < MaxSlots
  /\ tx' = [tx EXCEPT ![c].pc = "locked", ![c].s = s,
                      ![c].kind = "search_slot_claimed"]
  /\ UNCHANGED <<row, log>>

(***************************************************************************)
(* Inside the transaction: SELECT MAX(seq) + 1, then the inserts and the   *)
(* commit.  UNIQUE (session_id, seq) rejects a number already taken.       *)
(***************************************************************************)
NextSeq(c) ==
  /\ tx[c].pc = "locked"
  /\ tx' = [tx EXCEPT ![c].pc = "insert", ![c].seq = Len(log[tx[c].s]) + 1]
  /\ UNCHANGED <<row, log, lock, ops>>

SeqIsFree(c) == tx[c].seq > Len(log[tx[c].s])

\* Variant: a commit that keeps its row lock.
CommitKeepsLock(c) ==
  /\ tx[c].pc = "insert"
  /\ SeqIsFree(c)
  /\ row' = IF tx[c].new = NoRow THEN row
                                 ELSE [row EXCEPT ![tx[c].s] = tx[c].new]
  /\ log' = [log EXCEPT ![tx[c].s] = @ \o Inserted(c)]
  /\ Idle(c)
  /\ UNCHANGED <<lock, ops>>

Commit(c) ==
  /\ tx[c].pc = "insert"
  /\ SeqIsFree(c)
  /\ row' = IF tx[c].new = NoRow THEN row
                                 ELSE [row EXCEPT ![tx[c].s] = tx[c].new]
  /\ log' = [log EXCEPT ![tx[c].s] = @ \o Inserted(c)]
  /\ Release(c)
  /\ Idle(c)
  /\ UNCHANGED ops

\* A database error, a crash or a cancelled request before the commit.
Abort(c) ==
  /\ tx[c].pc \in {"computed", "locked", "insert"}
  /\ Release(c)
  /\ Idle(c)
  /\ UNCHANGED <<row, log, ops>>

(***************************************************************************)
(* GET /sessions/{id}: the row, then the events, on two connections.       *)
(***************************************************************************)
ReadState(c, s) ==
  /\ StartOp
  /\ tx[c].pc = "idle"
  /\ Created(s)
  /\ tx' = [tx EXCEPT ![c].pc = "read", ![c].s = s, ![c].kind = "read",
                      ![c].snap = row[s]]
  /\ UNCHANGED <<row, log, lock>>

\* Variant: a page that leaves out the newest event.
ReadEventsPage(c) ==
  /\ tx[c].pc = "read"
  /\ tx' = [tx EXCEPT ![c].pc = "replied", ![c].seq = Len(log[tx[c].s]) - 1]
  /\ UNCHANGED <<row, log, lock, ops>>

ReadEvents(c) ==
  /\ tx[c].pc = "read"
  /\ tx' = [tx EXCEPT ![c].pc = "replied", ![c].seq = Len(log[tx[c].s])]
  /\ UNCHANGED <<row, log, lock, ops>>

Reply(c) ==
  /\ tx[c].pc = "replied"
  /\ Idle(c)
  /\ UNCHANGED <<row, log, lock, ops>>

\* The bound is reached and every client is done: the model rests.
Rest ==
  /\ ops = MaxOps
  /\ \A c \in Clients : tx[c].pc = "idle"
  /\ UNCHANGED vars

-----------------------------------------------------------------------------

Init ==
  /\ row = [s \in Sessions |-> NoRow]
  /\ log = [s \in Sessions |-> << >>]
  /\ lock = [s \in Sessions |-> NoClient]
  /\ tx = [c \in Clients |-> IdleTx]
  /\ ops = 0

\* The steps a client takes on its own once it has begun an operation.
Proceed(c) ==
  \/ UpdateLock(c) \/ UpdateRejected(c)
  \/ NextSeq(c) \/ Commit(c)
  \/ ReadEvents(c) \/ Reply(c)

Begin(c) ==
  \E s \in Sessions :
    \/ \E p \in FnPhases, as \in Ledger!AnswerMaps : Mutate(c, s, p, as)
    \/ \E b \in BOOLEAN : SetPermission(c, s, b)
    \/ AppendLock(c, s)
    \/ ClaimLock(c, s)
    \/ ReadState(c, s)

Next ==
  \/ \E s \in Sessions, as \in Ledger!AnswerMaps, b \in BOOLEAN : Create(s, as, b)
  \/ \E c \in Clients : Begin(c) \/ Proceed(c) \/ Abort(c)
  \/ Rest

Spec == Init /\ [][Next]_vars

\* A begun operation is carried on: the database answers and the row locks
\* are handed to the waiting transactions.
FairSpec == Spec /\ \A c \in Clients : WF_vars(Proceed(c))

-----------------------------------------------------------------------------
(* What the store must guarantee.                                          *)

\* One same-revision writer wins: while a client is between the lock and
\* the commit of an update, the row it is about to replace is exactly the
\* one its function was computed from, though the snapshot was read
\* without a lock and only the revision numbers are compared.
SnapshotIsCurrent ==
  \A c \in Clients :
    tx[c].pc \in {"locked", "insert"} /\ tx[c].new # NoRow
      => tx[c].snap = row[tx[c].s]

\* MAX(seq) + 1 read inside a transaction is still free at its insert, so
\* the events of parallel tool calls, slot claims and updates never hit
\* UNIQUE (session_id, seq) and leave no gap.
SeqNeverCollides ==
  \A c \in Clients :
    tx[c].pc = "insert" => tx[c].seq = Len(log[tx[c].s]) + 1

StateEventsIn(l, n) == { q \in 1 .. n : l[q].type \in Ledger!StateEvents }

PermissionEvents == { "created", "permission_updated" }

\* The permission recorded last before event q of l was "allowed".
PermittedAt(l, q) ==
  \E p \in 1 .. q - 1 :
    /\ l[p].type \in PermissionEvents
    /\ l[p].allowed
    /\ \A r \in p + 1 .. q - 1 : l[r].type \notin PermissionEvents

\* Read back from the log alone: no interleaving of claims overruns the
\* search slots of a session, and every slot was claimed while the
\* permission was on, so that a toggle-off that committed first blocks it.
ClaimsAllowed ==
  \A s \in Sessions :
    /\ Ledger!SlotsUsed(log[s]) <= MaxSlots
    /\ \A q \in DOMAIN log[s] :
         log[s][q].type = "search_slot_claimed" => PermittedAt(log[s], q)

\* A session response may carry events newer than its row, never a row
\* newer than its events: each change the body shows is in the log it
\* carries.
ReadNotBehind ==
  \A c \in Clients :
    tx[c].pc = "replied" =>
      tx[c].snap.revision
        <= 1 + Cardinality(StateEventsIn(log[tx[c].s], tx[c].seq))

\* Every transaction, however interleaved, is one atomic step of the ledger.
RefinesLedger == Ledger!LedgerSpec

\* No row lock is lost: every operation a client begins comes to its end.
OperationsEnd ==
  \A c \in Clients : tx[c].pc # "idle" ~> tx[c].pc = "idle"
=============================================================================
