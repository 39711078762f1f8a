------------------------- MODULE SessionStoreProofs -------------------------
(***************************************************************************)
(* Theorems about SessionStore for every set of sessions, clients, keys    *)
(* and answers, and every bound.                                           *)
(***************************************************************************)
EXTENDS SessionStore, FiniteSetTheorems, TLAPS

Updating == { "computed", "locked", "insert" }
Holding == { "locked", "insert" }

-----------------------------------------------------------------------------
(* The inductive invariant: TypeOK, what a client in each place has in     *)
(* hand, the lock discipline, and how old an unlocked snapshot may be.     *)

\* A client at work is at work on a row that exists; one with a row to
\* write got there through an update, one without through an append.
InHand(c) ==
  /\ tx[c].pc # "idle" => row[tx[c].s] \in Ledger!Rows
  /\ tx[c].pc = "idle" => tx[c].new = NoRow
  /\ tx[c].pc = "computed" =>
       /\ tx[c].snap \in Ledger!Rows
       /\ tx[c].new \in Ledger!Rows
       /\ tx[c].kind \in Ledger!StateEvents
  /\ tx[c].pc \in Holding /\ tx[c].new = NoRow =>
       tx[c].kind \in {"appended", "search_slot_claimed"}
  /\ tx[c].pc \in Holding /\ tx[c].new # NoRow =>
       /\ tx[c].snap \in Ledger!Rows
       /\ tx[c].new \in Ledger!Rows
       /\ tx[c].new.revision = tx[c].snap.revision + 1
       /\ tx[c].kind \in Ledger!StateEvents

WorkInHand == \A c \in Clients : InHand(c)

\* Between its lock and its commit a client holds the lock of its row.
LocksHeld ==
  \A c \in Clients : tx[c].pc \in Holding => lock[tx[c].s] = c

\* A snapshot is never newer than the row, and one of the same revision is
\* the row: what makes comparing revisions enough.
SnapshotsAge ==
  \A c \in Clients :
    tx[c].pc = "computed" =>
      /\ tx[c].snap.revision <= row[tx[c].s].revision
      /\ tx[c].snap.revision = row[tx[c].s].revision => tx[c].snap = row[tx[c].s]

IndInv ==
  /\ TypeOK
  /\ WorkInHand
  /\ LocksHeld
  /\ SnapshotsAge
  /\ SnapshotIsCurrent
  /\ SeqNeverCollides

-----------------------------------------------------------------------------
(* Lemmas about the helpers.                                               *)

\* Merging two answer maps gives an answer map.
LEMMA MergeType ==
  ASSUME NEW a \in Ledger!AnswerMaps, NEW b \in Ledger!AnswerMaps
  PROVE  MergeConfirmedAnswers(a, b) \in Ledger!AnswerMaps
<1>1. PICK ka \in SUBSET Keys : a \in [ka -> Answers]
  BY DEF Ledger!AnswerMaps
<1>2. PICK kb \in SUBSET Keys : b \in [kb -> Answers]
  BY DEF Ledger!AnswerMaps
<1>3. DOMAIN a = ka /\ DOMAIN b = kb
  BY <1>1, <1>2
<1>4. MergeConfirmedAnswers(a, b) \in [ka \cup kb -> Answers]
  BY <1>1, <1>2, <1>3 DEF MergeConfirmedAnswers
<1>5. ka \cup kb \in SUBSET Keys
  OBVIOUS
<1> QED
  BY <1>4, <1>5 DEF Ledger!AnswerMaps

\* An idle client's record is a transaction record.
LEMMA IdleTxType == IdleTx \in Transactions
  BY StoreAssumption DEF IdleTx, Transactions, MaybeRow, Pcs, Kinds

\* Short sequences, stated for any set.
LEMMA ShortSeqs ==
  ASSUME NEW S, NEW a \in S, NEW b \in S
  PROVE  /\ << a >> \in Seq(S) /\ << a >> # << >> /\ Len(<< a >>) = 1
         /\ << a, b >> \in Seq(S) /\ << a, b >> # << >> /\ Len(<< a, b >>) = 2
  OBVIOUS

\* What a commit inserts is one event, or two of a claimed slot.
LEMMA InsertedType ==
  ASSUME NEW c \in Clients, tx[c] \in Transactions,
         tx[c].kind # "read",
         tx[c].kind = "permission_updated" => tx[c].new \in Ledger!Rows
  PROVE  Inserted(c) \in Seq(Ledger!Events) /\ Inserted(c) # << >>
<1>1. CASE tx[c].kind = "permission_updated"
  <2>1. tx[c].new.allowed \in BOOLEAN
    BY <1>1 DEF Ledger!Rows
  <2>2. Ledger!Event("permission_updated", tx[c].new.allowed) \in Ledger!Events
    BY <2>1 DEF Ledger!Event, Ledger!Events, Ledger!EventTypes
  <2>3. Inserted(c) = << Ledger!Event("permission_updated", tx[c].new.allowed) >>
    BY <1>1 DEF Inserted
  <2> QED
    BY <2>2, <2>3, ShortSeqs
<1>2. CASE tx[c].kind = "search_slot_claimed"
  <2>1. /\ Ledger!Event("search_slot_claimed", FALSE) \in Ledger!Events
        /\ Ledger!Event("search_requested", FALSE) \in Ledger!Events
    BY DEF Ledger!Event, Ledger!Events, Ledger!EventTypes
  <2>2. Inserted(c) = << Ledger!Event("search_slot_claimed", FALSE),
                         Ledger!Event("search_requested", FALSE) >>
    BY <1>2 DEF Inserted
  <2> QED
    BY <2>1, <2>2, ShortSeqs
<1>3. CASE tx[c].kind \in {"state_updated", "appended"}
  <2>1. Ledger!Event(tx[c].kind, FALSE) \in Ledger!Events
    BY <1>3 DEF Ledger!Event, Ledger!Events, Ledger!EventTypes
  <2>2. Inserted(c) = << Ledger!Event(tx[c].kind, FALSE) >>
    BY <1>3 DEF Inserted
  <2> QED
    BY <2>1, <2>2, ShortSeqs
<1> QED
  BY <1>1, <1>2, <1>3 DEF Transactions, Kinds

-----------------------------------------------------------------------------
(* The invariant holds initially and is kept by every step.                *)

LEMMA InitInv == Init => IndInv
<1> SUFFICES ASSUME Init PROVE IndInv
  OBVIOUS
<1> USE DEF Init
<1>1. TypeOK
  BY IdleTxType, StoreAssumption DEF TypeOK, MaybeRow
<1>2. \A c \in Clients : tx[c].pc = "idle" /\ tx[c].new = NoRow
  BY DEF IdleTx
<1> QED
  BY <1>1, <1>2 DEF IndInv, WorkInHand, InHand, LocksHeld, SnapshotsAge,
                    SnapshotIsCurrent, SeqNeverCollides, Holding

LEMMA CreateInv ==
  ASSUME IndInv, NEW s \in Sessions, NEW as \in Ledger!AnswerMaps,
         NEW b \in BOOLEAN, Create(s, as, b)
  PROVE  IndInv'
<1> DEFINE new == [ revision |-> 1, phase |-> DefaultPhase,
                    answers |-> as, allowed |-> b ]
<1>1. new \in Ledger!Rows
  <2>1. 1 \in Nat \ {0} /\ DefaultPhase \in Ledger!Phases
    BY DEF DefaultPhase, Ledger!Phases
  <2> QED
    BY <2>1 DEF Ledger!Rows
<1>2. row[s] = NoRow /\ row' = [row EXCEPT ![s] = new]
  BY DEF Create
<1>3. << Ledger!Event("created", b) >> \in Seq(Ledger!Events)
  <2>1. Ledger!Event("created", b) \in Ledger!Events
    BY DEF Ledger!Event, Ledger!Events, Ledger!EventTypes
  <2> QED
    BY <2>1, ShortSeqs
<1>4. UNCHANGED <<lock, tx>>
  BY DEF Create
<1>5. TypeOK'
  <2>1. ops' \in 0 .. MaxOps
    BY StoreAssumption DEF IndInv, TypeOK, Create, StartOp
  <2>2. row' \in [Sessions -> MaybeRow]
    BY <1>1, <1>2 DEF IndInv, TypeOK, MaybeRow
  <2>3. log' \in [Sessions -> Seq(Ledger!Events)]
    BY <1>3 DEF IndInv, TypeOK, Create
  <2> QED
    BY <1>4, <2>1, <2>2, <2>3 DEF IndInv, TypeOK
<1>6. \A c \in Clients : tx[c].pc # "idle" => tx[c].s # s
  BY <1>2, RowAssumption DEF IndInv, WorkInHand, InHand
<1>7. \A t \in Sessions : t # s => row'[t] = row[t] /\ log'[t] = log[t]
  BY DEF Create, IndInv, TypeOK
<1>8. \A c \in Clients : tx[c].s \in Sessions
  BY DEF IndInv, TypeOK, Transactions
<1>9. \A c \in Clients :
        tx[c].pc # "idle" => /\ row'[tx[c].s] = row[tx[c].s]
                             /\ log'[tx[c].s] = log[tx[c].s]
  BY <1>6, <1>7, <1>8
<1> QED
  BY <1>4, <1>5, <1>9
     DEF IndInv, WorkInHand, InHand, LocksHeld, SnapshotsAge,
         SnapshotIsCurrent, SeqNeverCollides, Holding

\* What a mutate computes is a row, whatever its function asks for.
LEMMA ComputesInv ==
  ASSUME IndInv, NEW c \in Clients, NEW s \in Sessions,
         NEW kind \in Ledger!StateEvents, NEW new,
         row[s] \in Ledger!Rows => new \in Ledger!Rows,
         Computes(c, s, kind, new)
  PROVE  IndInv'
<1>1. row[s] \in Ledger!Rows /\ new \in Ledger!Rows
  BY DEF IndInv, TypeOK, MaybeRow, Computes, Created
<1> DEFINE mine == [ pc |-> "computed", s |-> s, kind |-> kind,
                     snap |-> row[s], new |-> new, seq |-> 0 ]
<1>2. tx' = [tx EXCEPT ![c] = mine]
  BY DEF Computes
<1>3. mine \in Transactions
  BY <1>1 DEF Transactions, Pcs, Kinds, MaybeRow, Ledger!StateEvents
<1>4. UNCHANGED <<row, log, lock>> /\ ops' \in 0 .. MaxOps
  BY StoreAssumption DEF Computes, StartOp, IndInv, TypeOK
<1>5. TypeOK'
  BY <1>2, <1>3, <1>4 DEF IndInv, TypeOK
<1>6. tx'[c] = mine /\ \A d \in Clients \ {c} : tx'[d] = tx[d]
  BY <1>2 DEF IndInv, TypeOK
<1>7. row[s].revision \in Nat
  BY <1>1 DEF Ledger!Rows
<1>8. WorkInHand'
  <2> SUFFICES ASSUME NEW d \in Clients PROVE InHand(d)'
    BY DEF WorkInHand
  <2>1. CASE d = c
    BY <2>1, <1>1, <1>4, <1>6 DEF InHand, Holding
  <2>2. CASE d # c
    BY <2>2, <1>4, <1>6 DEF IndInv, WorkInHand, InHand
  <2> QED
    BY <2>1, <2>2
<1>9. LocksHeld' /\ SnapshotIsCurrent' /\ SeqNeverCollides'
  BY <1>4, <1>6 DEF IndInv, LocksHeld, SnapshotIsCurrent, SeqNeverCollides, Holding
<1>10. SnapshotsAge'
  BY <1>4, <1>6, <1>7 DEF IndInv, SnapshotsAge
<1> QED
  BY <1>5, <1>8, <1>9, <1>10 DEF IndInv

LEMMA MutateInv ==
  ASSUME IndInv, NEW c \in Clients, NEW s \in Sessions, NEW p \in FnPhases,
         NEW as \in Ledger!AnswerMaps, Mutate(c, s, p, as)
  PROVE  IndInv'
<1>1. row[s] \in Ledger!Rows
        => [row[s] EXCEPT !.phase = p, !.answers = as] \in Ledger!Rows
  BY StoreAssumption DEF Ledger!Rows, Phases, Ledger!Phases
<1>2. "state_updated" \in Ledger!StateEvents
  BY DEF Ledger!StateEvents
<1> QED
  BY <1>1, <1>2, ComputesInv DEF Mutate

LEMMA SetPermissionInv ==
  ASSUME IndInv, NEW c \in Clients, NEW s \in Sessions, NEW b \in BOOLEAN,
         SetPermission(c, s, b)
  PROVE  IndInv'
<1>1. row[s] \in Ledger!Rows => [row[s] EXCEPT !.allowed = b] \in Ledger!Rows
  BY DEF Ledger!Rows
<1>2. "permission_updated" \in Ledger!StateEvents
  BY DEF Ledger!StateEvents
<1> QED
  BY <1>1, <1>2, ComputesInv DEF SetPermission

(***************************************************************************)
(* The lock: only the client it is given to moves, and nobody else is      *)
(* between a lock and a commit on that session.                            *)
(***************************************************************************)
LEMMA OthersElsewhere ==
  ASSUME IndInv, NEW c \in Clients, NEW s \in Sessions, Acquire(c, s)
  PROVE  \A d \in Clients : tx[d].pc \in Holding => tx[d].s # s /\ lock'[tx[d].s] = d
<1> SUFFICES ASSUME NEW d \in Clients, tx[d].pc \in Holding
             PROVE  tx[d].s # s /\ lock'[tx[d].s] = d
  OBVIOUS
<1>1. lock[tx[d].s] = d /\ tx[d].s \in Sessions
  BY DEF IndInv, LocksHeld, TypeOK, Transactions
<1>2. d # NoClient
  BY StoreAssumption
<1> QED
  BY <1>1, <1>2 DEF Acquire, IndInv, TypeOK

\* A revision that is still the row's makes the snapshot the row.
LEMMA UpdateLockInv ==
  ASSUME IndInv, NEW c \in Clients, UpdateLock(c)
  PROVE  IndInv'
<1> DEFINE s == tx[c].s
           mine == [tx[c] EXCEPT !.pc = "locked", !.new.answers = Merged(c),
                                 !.new.revision = tx[c].snap.revision + 1]
<1>1. /\ tx[c] \in Transactions /\ s \in Sessions /\ tx[c].pc = "computed"
      /\ tx[c].snap \in Ledger!Rows /\ tx[c].new \in Ledger!Rows
      /\ row[s] \in Ledger!Rows /\ tx[c].kind \in Ledger!StateEvents
  BY DEF UpdateLock, IndInv, TypeOK, Transactions, WorkInHand, InHand
<1>2. tx[c].snap = row[s]
  BY <1>1 DEF UpdateLock, Admissible, IndInv, SnapshotsAge
<1>3. Merged(c) \in Ledger!AnswerMaps
  BY <1>1, MergeType DEF Merged, Ledger!Rows
<1>4. tx' = [tx EXCEPT ![c] = mine] /\ UNCHANGED <<row, log, ops>>
  BY DEF UpdateLock
<1>5. mine.new = [tx[c].new EXCEPT !.answers = Merged(c),
                                   !.revision = tx[c].snap.revision + 1]
  BY <1>1 DEF Transactions
<1>6. mine.new \in Ledger!Rows /\ mine.new.revision = tx[c].snap.revision + 1
  <2>1. tx[c].snap.revision + 1 \in Nat \ {0}
    BY <1>1 DEF Ledger!Rows
  <2> DEFINE n == tx[c].snap.revision + 1
             a == Merged(c)
             r == tx[c].new
  <2>2. mine.new = [r EXCEPT !.answers = a, !.revision = n]
    BY <1>5
  <2>3. n \in Nat \ {0} /\ a \in Ledger!AnswerMaps /\ r \in Ledger!Rows
    BY <2>1, <1>1, <1>3
  <2> HIDE DEF n, a, r, mine
  <2>4. mine.new \in Ledger!Rows /\ mine.new.revision = n
    BY <2>2, <2>3 DEF Ledger!Rows
  <2> USE DEF n
  <2> QED
    BY <2>4
<1>7. mine \in Transactions
  BY <1>1, <1>6 DEF Transactions, Pcs, MaybeRow
<1>8. lock' = [lock EXCEPT ![s] = c]
  BY DEF UpdateLock, Acquire
<1>9. TypeOK'
  BY <1>1, <1>4, <1>7, <1>8 DEF IndInv, TypeOK
<1>10. /\ tx'[c] = mine /\ mine.pc = "locked" /\ mine.s = s
       /\ mine.snap = tx[c].snap /\ mine.kind = tx[c].kind
       /\ \A d \in Clients \ {c} : tx'[d] = tx[d]
  BY <1>1, <1>4 DEF IndInv, TypeOK, Transactions
<1>11. \A d \in Clients : tx[d].pc \in Holding => lock'[tx[d].s] = d
  BY <1>1, OthersElsewhere DEF UpdateLock
<1>12. lock'[s] = c
  BY <1>1, <1>8 DEF IndInv, TypeOK
<1>13. WorkInHand'
  <2> SUFFICES ASSUME NEW d \in Clients PROVE InHand(d)'
    BY DEF WorkInHand
  <2>1. CASE d = c
    BY <2>1, <1>1, <1>4, <1>6, <1>10, RowAssumption DEF InHand, Holding
  <2>2. CASE d # c
    BY <2>2, <1>4, <1>10 DEF IndInv, WorkInHand, InHand
  <2> QED
    BY <2>1, <2>2
<1>14. LocksHeld'
  BY <1>10, <1>11, <1>12 DEF LocksHeld
<1>15. SnapshotIsCurrent'
  BY <1>2, <1>4, <1>10 DEF IndInv, SnapshotIsCurrent
<1>16. SnapshotsAge' /\ SeqNeverCollides'
  BY <1>4, <1>10 DEF IndInv, SnapshotsAge, SeqNeverCollides
<1> QED
  BY <1>9, <1>13, <1>14, <1>15, <1>16 DEF IndInv

\* A client that gives up, or whose transaction rolls back, is idle again
\* and gives its locks back; nothing committed changes.
LEMMA GivesUpInv ==
  ASSUME IndInv, NEW c \in Clients, Idle(c), UNCHANGED <<row, log, ops>>,
         lock' = lock \/ Release(c)
  PROVE  IndInv'
<1>1. tx'[c] = IdleTx /\ \A d \in Clients \ {c} : tx'[d] = tx[d]
  BY DEF Idle, IndInv, TypeOK
<1>2. IdleTx.pc = "idle" /\ IdleTx.new = NoRow
  BY DEF IdleTx
<1>3. lock' \in [Sessions -> Clients \cup {NoClient}]
  BY DEF Release, IndInv, TypeOK
<1>4. TypeOK'
  BY <1>3, IdleTxType DEF Idle, IndInv, TypeOK
<1>5. ASSUME NEW d \in Clients, d # c, tx[d].pc \in Holding
      PROVE  lock'[tx[d].s] = d
  <2>1. lock[tx[d].s] = d /\ tx[d].s \in Sessions
    BY <1>5 DEF IndInv, LocksHeld, TypeOK, Transactions
  <2> QED
    BY <1>5, <2>1 DEF Release
<1>6. WorkInHand'
  <2> SUFFICES ASSUME NEW d \in Clients PROVE InHand(d)'
    BY DEF WorkInHand
  <2>1. CASE d = c
    BY <2>1, <1>1, <1>2 DEF InHand, Holding
  <2>2. CASE d # c
    BY <2>2, <1>1 DEF IndInv, WorkInHand, InHand
  <2> QED
    BY <2>1, <2>2
<1>7. LocksHeld'
  BY <1>1, <1>2, <1>5 DEF LocksHeld, Holding
<1>8. SnapshotsAge' /\ SnapshotIsCurrent' /\ SeqNeverCollides'
  BY <1>1, <1>2 DEF IndInv, SnapshotsAge, SnapshotIsCurrent, SeqNeverCollides
<1> QED
  BY <1>4, <1>6, <1>7, <1>8 DEF IndInv

\* append_event and claim_search_slot take the lock with no row to write.
LEMMA TakesLockInv ==
  ASSUME IndInv, NEW c \in Clients, NEW s \in Sessions,
         NEW kind \in {"appended", "search_slot_claimed"},
         StartOp, tx[c].pc = "idle", Created(s), Acquire(c, s),
         tx' = [tx EXCEPT ![c].pc = "locked", ![c].s = s, ![c].kind = kind],
         UNCHANGED <<row, log>>
  PROVE  IndInv'
<1>1. tx[c] \in Transactions /\ tx[c].new = NoRow
  BY DEF IndInv, TypeOK, WorkInHand, InHand
<1>2. row[s] \in Ledger!Rows
  BY DEF IndInv, TypeOK, MaybeRow, Created
<1>3. /\ tx'[c] \in Transactions
      /\ tx'[c].pc = "locked" /\ tx'[c].s = s /\ tx'[c].kind = kind
      /\ tx'[c].new = NoRow
  BY <1>1 DEF IndInv, TypeOK, Transactions, Pcs, Kinds
<1>4. \A d \in Clients \ {c} : tx'[d] = tx[d]
  BY DEF IndInv, TypeOK
<1>5. ops' \in 0 .. MaxOps
  BY StoreAssumption DEF StartOp, IndInv, TypeOK
<1>6. lock' \in [Sessions -> Clients \cup {NoClient}] /\ lock'[s] = c
  BY DEF Acquire, IndInv, TypeOK
<1>7. TypeOK'
  <2>1. tx' \in [Clients -> Transactions]
    BY <1>3, <1>4 DEF IndInv, TypeOK
  <2> QED
    BY <2>1, <1>5, <1>6 DEF IndInv, TypeOK
<1>8. WorkInHand'
  <2> SUFFICES ASSUME NEW d \in Clients PROVE InHand(d)'
    BY DEF WorkInHand
  <2>1. CASE d = c
    BY <2>1, <1>2, <1>3 DEF InHand, Holding
  <2>2. CASE d # c
    BY <2>2, <1>4 DEF IndInv, WorkInHand, InHand
  <2> QED
    BY <2>1, <2>2
<1>9. \A d \in Clients : tx[d].pc \in Holding => lock'[tx[d].s] = d
  BY OthersElsewhere
<1>10. LocksHeld'
  <2> SUFFICES ASSUME NEW d \in Clients, tx'[d].pc \in Holding
               PROVE  lock'[tx'[d].s] = d
    BY DEF LocksHeld
  <2>1. CASE d = c
    BY <2>1, <1>3, <1>6
  <2>2. CASE d # c
    <3>1. tx'[d] = tx[d]
      BY <2>2, <1>4
    <3> QED
      BY <3>1, <1>9
  <2> QED
    BY <2>1, <2>2
<1>11. SnapshotsAge'
  BY <1>3, <1>4 DEF IndInv, SnapshotsAge
<1>12. SnapshotIsCurrent'
  <2> SUFFICES ASSUME NEW d \in Clients, tx'[d].pc \in Holding, tx'[d].new # NoRow
               PROVE  tx'[d].snap = row'[tx'[d].s]
    BY DEF SnapshotIsCurrent, Holding
  <2>1. d # c
    BY <1>3
  <2>2. tx'[d] = tx[d]
    BY <2>1, <1>4
  <2> QED
    BY <2>2 DEF IndInv, SnapshotIsCurrent, Holding
<1>13. SeqNeverCollides'
  BY <1>3, <1>4 DEF IndInv, SeqNeverCollides
<1> QED
  BY <1>7, <1>8, <1>10, <1>11, <1>12, <1>13 DEF IndInv

\* MAX(seq) + 1 is the number of events and one.
LEMMA NextSeqInv ==
  ASSUME IndInv, NEW c \in Clients, NextSeq(c)
  PROVE  IndInv'
<1> DEFINE n == Len(log[tx[c].s]) + 1
<1>1. tx[c] \in Transactions /\ tx[c].s \in Sessions /\ tx[c].pc = "locked"
  BY DEF NextSeq, IndInv, TypeOK, Transactions
<1>2. n \in Nat
  BY <1>1 DEF IndInv, TypeOK
<1>3. tx' = [tx EXCEPT ![c].pc = "insert", ![c].seq = n]
      /\ UNCHANGED <<row, log, lock, ops>>
  BY DEF NextSeq
<1>4. /\ tx'[c] \in Transactions
      /\ tx'[c].pc = "insert" /\ tx'[c].seq = n
      /\ tx'[c].s = tx[c].s /\ tx'[c].new = tx[c].new
      /\ tx'[c].snap = tx[c].snap /\ tx'[c].kind = tx[c].kind
  <2> HIDE DEF n
  <2> QED
    BY <1>1, <1>2, <1>3 DEF IndInv, TypeOK, Transactions, Pcs
<1>5. \A d \in Clients \ {c} : tx'[d] = tx[d]
  BY <1>3 DEF IndInv, TypeOK
<1>6. TypeOK'
  <2>1. tx' \in [Clients -> Transactions]
    BY <1>3, <1>4, <1>5 DEF IndInv, TypeOK
  <2> QED
    BY <2>1, <1>3 DEF IndInv, TypeOK
<1>7. WorkInHand'
  <2> SUFFICES ASSUME NEW d \in Clients PROVE InHand(d)'
    BY DEF WorkInHand
  <2>1. CASE d = c
    BY <2>1, <1>1, <1>3, <1>4 DEF IndInv, WorkInHand, InHand, Holding
  <2>2. CASE d # c
    BY <2>2, <1>3, <1>5 DEF IndInv, WorkInHand, InHand
  <2> QED
    BY <2>1, <2>2
<1>8. LocksHeld'
  BY <1>1, <1>3, <1>4, <1>5 DEF IndInv, LocksHeld, Holding
<1>9. SnapshotsAge'
  BY <1>3, <1>4, <1>5 DEF IndInv, SnapshotsAge
<1>10. SnapshotIsCurrent'
  <2> SUFFICES ASSUME NEW d \in Clients, tx'[d].pc \in Holding, tx'[d].new # NoRow
               PROVE  tx'[d].snap = row'[tx'[d].s]
    BY DEF SnapshotIsCurrent, Holding
  <2>1. CASE d = c
    BY <2>1, <1>1, <1>3, <1>4 DEF IndInv, SnapshotIsCurrent
  <2>2. CASE d # c
    BY <2>2, <1>3, <1>5 DEF IndInv, SnapshotIsCurrent, Holding
  <2> QED
    BY <2>1, <2>2
<1>11. SeqNeverCollides'
  BY <1>3, <1>4, <1>5 DEF IndInv, SeqNeverCollides
<1> QED
  BY <1>6, <1>7, <1>8, <1>9, <1>10, <1>11 DEF IndInv

\* The holder's commit: it replaces the row its snapshot was, one revision
\* on, and nobody else is between a lock and a commit on that session.
LEMMA CommitInv ==
  ASSUME IndInv, NEW c \in Clients, Commit(c)
  PROVE  IndInv'
<1> DEFINE s == tx[c].s
<1>1. /\ tx[c] \in Transactions /\ s \in Sessions /\ tx[c].pc = "insert"
      /\ tx[c].pc \in Holding /\ lock[s] = c /\ row[s] \in Ledger!Rows
      /\ tx[c].new \in MaybeRow
  BY DEF Commit, Holding, IndInv, TypeOK, Transactions, LocksHeld, WorkInHand, InHand
<1>2. /\ tx[c].new = NoRow => tx[c].kind \in {"appended", "search_slot_claimed"}
      /\ tx[c].new # NoRow => /\ tx[c].new \in Ledger!Rows
                              /\ tx[c].kind \in Ledger!StateEvents
                              /\ tx[c].new.revision = row[s].revision + 1
  BY <1>1 DEF IndInv, WorkInHand, InHand, SnapshotIsCurrent
<1>3. Inserted(c) \in Seq(Ledger!Events)
  BY <1>1, <1>2, InsertedType DEF Ledger!StateEvents
<1>4. row' = IF tx[c].new = NoRow THEN row ELSE [row EXCEPT ![s] = tx[c].new]
  BY DEF Commit
<1>5. log' = [log EXCEPT ![s] = @ \o Inserted(c)]
  BY DEF Commit
<1>6. /\ row' \in [Sessions -> MaybeRow]
      /\ row'[s] \in Ledger!Rows
      /\ row'[s] # row[s] => row'[s].revision = row[s].revision + 1
      /\ \A t \in Sessions \ {s} : row'[t] = row[t]
  BY <1>1, <1>2, <1>4 DEF IndInv, TypeOK
<1>7. /\ log' \in [Sessions -> Seq(Ledger!Events)]
      /\ \A t \in Sessions \ {s} : log'[t] = log[t]
  <2>1. log[s] \o Inserted(c) \in Seq(Ledger!Events)
    BY <1>1, <1>3 DEF IndInv, TypeOK
  <2> QED
    BY <2>1, <1>5 DEF IndInv, TypeOK
<1>8. /\ tx'[c] = IdleTx /\ tx'[c].pc = "idle" /\ tx'[c].new = NoRow
      /\ \A d \in Clients \ {c} : tx'[d] = tx[d]
  BY DEF Commit, Idle, IdleTx, IndInv, TypeOK
<1>9. \A d \in Clients : tx[d].s \in Sessions
  BY DEF IndInv, TypeOK, Transactions
<1>10. \A d \in Clients \ {c} : tx[d].pc \in Holding => tx[d].s # s
  BY <1>1 DEF IndInv, LocksHeld
<1>11. row[s].revision \in Nat
  BY <1>1 DEF Ledger!Rows
<1>12. TypeOK'
  <2>1. lock' \in [Sessions -> Clients \cup {NoClient}]
    BY DEF Commit, Release, IndInv, TypeOK
  <2>2. tx' \in [Clients -> Transactions]
    BY IdleTxType DEF Commit, Idle, IndInv, TypeOK
  <2>3. UNCHANGED ops
    BY DEF Commit
  <2> QED
    BY <1>6, <1>7, <2>1, <2>2, <2>3 DEF IndInv, TypeOK
<1>13. WorkInHand'
  <2> SUFFICES ASSUME NEW d \in Clients PROVE InHand(d)'
    BY DEF WorkInHand
  <2>1. CASE d = c
    BY <2>1, <1>8 DEF InHand, Holding
  <2>2. CASE d # c
    <3>1. tx'[d] = tx[d] /\ InHand(d)
      BY <2>2, <1>8 DEF IndInv, WorkInHand
    <3>2. row[tx[d].s] \in Ledger!Rows => row'[tx[d].s] \in Ledger!Rows
      BY <1>6, <1>9
    <3> QED
      BY <3>1, <3>2 DEF InHand
  <2> QED
    BY <2>1, <2>2
<1>14. LocksHeld'
  <2> SUFFICES ASSUME NEW d \in Clients, tx'[d].pc \in Holding
               PROVE  lock'[tx'[d].s] = d
    BY DEF LocksHeld
  <2>1. d # c
    BY <1>8 DEF Holding
  <2>2. tx'[d] = tx[d]
    BY <2>1, <1>8
  <2>3. lock[tx[d].s] = d
    BY <2>2 DEF IndInv, LocksHeld
  <2> QED
    BY <1>9, <2>1, <2>2, <2>3 DEF Commit, Release
<1>15. SnapshotsAge'
  <2> SUFFICES ASSUME NEW d \in Clients, tx'[d].pc = "computed"
               PROVE  LET t == tx'[d].s IN
                      /\ tx'[d].snap.revision <= row'[t].revision
                      /\ tx'[d].snap.revision = row'[t].revision
                           => tx'[d].snap = row'[t]
    BY DEF SnapshotsAge
  <2>1. d # c
    BY <1>8
  <2>2. tx'[d] = tx[d]
    BY <2>1, <1>8
  <2>3. /\ tx[d].snap.revision <= row[tx[d].s].revision
        /\ tx[d].snap.revision = row[tx[d].s].revision => tx[d].snap = row[tx[d].s]
    BY <2>2 DEF IndInv, SnapshotsAge
  <2>4. tx[d].snap.revision \in Nat
    <3>1. tx[d].snap \in Ledger!Rows
      BY <2>2 DEF IndInv, WorkInHand, InHand
    <3> QED
      BY <3>1 DEF Ledger!Rows
  <2>5. CASE tx[d].s = s /\ row'[s] # row[s]
    BY <1>6, <1>11, <2>2, <2>3, <2>4, <2>5
  <2>6. CASE tx[d].s # s \/ row'[s] = row[s]
    <3>1. row'[tx[d].s] = row[tx[d].s]
      BY <1>6, <1>9, <2>6
    <3> QED
      BY <2>2, <2>3, <3>1
  <2> QED
    BY <2>5, <2>6
<1>16. ASSUME NEW d \in Clients, tx'[d].pc \in Holding
       PROVE  /\ tx'[d] = tx[d]
              /\ row'[tx[d].s] = row[tx[d].s]
              /\ log'[tx[d].s] = log[tx[d].s]
  <2>1. d # c
    BY <1>16, <1>8 DEF Holding
  <2>2. tx'[d] = tx[d]
    BY <2>1, <1>8
  <2>3. tx[d].s \in Sessions \ {s}
    BY <1>9, <1>10, <1>16, <2>1, <2>2
  <2> QED
    BY <1>6, <1>7, <2>2, <2>3
<1>17. SnapshotIsCurrent' /\ SeqNeverCollides'
  BY <1>16 DEF Holding, IndInv, SnapshotIsCurrent, SeqNeverCollides
<1> QED
  BY <1>12, <1>13, <1>14, <1>15, <1>17 DEF IndInv

\* A read takes no lock and has no row to write.
LEMMA ReadInv ==
  ASSUME IndInv, NEW c \in Clients, UNCHANGED <<row, log, lock>>,
         ops' \in 0 .. MaxOps,
         tx'[c] \in Transactions, tx' = [tx EXCEPT ![c] = tx'[c]],
         tx'[c].pc \in {"read", "replied"},
         row[tx'[c].s] \in Ledger!Rows
  PROVE  IndInv'
<1>1. \A d \in Clients \ {c} : tx'[d] = tx[d]
  BY DEF IndInv, TypeOK
<1>2. TypeOK'
  <2>1. tx' \in [Clients -> Transactions]
    BY <1>1 DEF IndInv, TypeOK
  <2> QED
    BY <2>1 DEF IndInv, TypeOK
<1>3. WorkInHand'
  <2> SUFFICES ASSUME NEW d \in Clients PROVE InHand(d)'
    BY DEF WorkInHand
  <2>1. CASE d = c
    BY <2>1 DEF InHand, Holding
  <2>2. CASE d # c
    BY <2>2, <1>1 DEF IndInv, WorkInHand, InHand
  <2> QED
    BY <2>1, <2>2
<1>4. LocksHeld' /\ SnapshotsAge' /\ SeqNeverCollides'
  BY <1>1 DEF IndInv, LocksHeld, SnapshotsAge, SeqNeverCollides, Holding
<1>5. SnapshotIsCurrent'
  <2> SUFFICES ASSUME NEW d \in Clients, tx'[d].pc \in Holding, tx'[d].new # NoRow
               PROVE  tx'[d].snap = row'[tx'[d].s]
    BY DEF SnapshotIsCurrent, Holding
  <2>1. tx'[d] = tx[d]
    BY <1>1 DEF Holding
  <2> QED
    BY <2>1 DEF IndInv, SnapshotIsCurrent, Holding
<1> QED
  BY <1>2, <1>3, <1>4, <1>5 DEF IndInv

LEMMA ReadStateInv ==
  ASSUME IndInv, NEW c \in Clients, NEW s \in Sessions, ReadState(c, s)
  PROVE  IndInv'
<1>1. row[s] \in Ledger!Rows /\ tx[c] \in Transactions
  BY DEF ReadState, Created, IndInv, TypeOK, MaybeRow
<1>2. tx'[c] = [tx[c] EXCEPT !.pc = "read", !.s = s, !.kind = "read", !.snap = row[s]]
  BY DEF ReadState, IndInv, TypeOK
<1>3. tx'[c] \in Transactions /\ tx'[c].pc = "read" /\ tx'[c].s = s
  BY <1>1, <1>2 DEF Transactions, Pcs, Kinds, MaybeRow
<1>4. tx' = [tx EXCEPT ![c] = tx'[c]]
  BY <1>2 DEF ReadState, IndInv, TypeOK
<1>5. ops' \in 0 .. MaxOps
  BY StoreAssumption DEF ReadState, StartOp, IndInv, TypeOK
<1>6. UNCHANGED <<row, log, lock>>
  BY DEF ReadState
<1> QED
  BY <1>1, <1>3, <1>4, <1>5, <1>6, ReadInv

LEMMA ReadEventsInv ==
  ASSUME IndInv, NEW c \in Clients, ReadEvents(c)
  PROVE  IndInv'
<1> DEFINE n == Len(log[tx[c].s])
<1>1. tx[c] \in Transactions /\ tx[c].s \in Sessions
  BY DEF IndInv, TypeOK, Transactions
<1>2. row[tx[c].s] \in Ledger!Rows
  BY DEF ReadEvents, IndInv, WorkInHand, InHand
<1>3. n \in Nat
  BY <1>1 DEF IndInv, TypeOK
<1>4. tx'[c] = [tx[c] EXCEPT !.pc = "replied", !.seq = n]
  BY DEF ReadEvents, IndInv, TypeOK
<1>5. tx' = [tx EXCEPT ![c] = tx'[c]]
  BY <1>4 DEF ReadEvents, IndInv, TypeOK
<1>6. tx'[c] \in Transactions /\ tx'[c].pc = "replied" /\ tx'[c].s = tx[c].s
  <2> HIDE DEF n
  <2> QED
    BY <1>1, <1>3, <1>4 DEF Transactions, Pcs
<1>7. UNCHANGED <<row, log, lock>> /\ ops' \in 0 .. MaxOps
  BY DEF ReadEvents, IndInv, TypeOK
<1> QED
  BY <1>2, <1>5, <1>6, <1>7, ReadInv

LEMMA NextInv == IndInv /\ [Next]_vars => IndInv'
<1> SUFFICES ASSUME IndInv, [Next]_vars PROVE IndInv'
  OBVIOUS
<1>1. CASE UNCHANGED vars
  BY <1>1 DEF vars, IndInv, TypeOK, WorkInHand, InHand, LocksHeld, SnapshotsAge,
              SnapshotIsCurrent, SeqNeverCollides
<1>2. ASSUME NEW s \in Sessions, NEW as \in Ledger!AnswerMaps, NEW b \in BOOLEAN,
             Create(s, as, b)
      PROVE  IndInv'
  BY <1>2, CreateInv
<1>3. ASSUME NEW c \in Clients, Begin(c)
      PROVE  IndInv'
  <2> PICK s \in Sessions :
        \/ \E p \in FnPhases, as \in Ledger!AnswerMaps : Mutate(c, s, p, as)
        \/ \E b \in BOOLEAN : SetPermission(c, s, b)
        \/ AppendLock(c, s)
        \/ ClaimLock(c, s)
        \/ ReadState(c, s)
    BY <1>3 DEF Begin
  <2>1. CASE \E p \in FnPhases, as \in Ledger!AnswerMaps : Mutate(c, s, p, as)
    BY <2>1, MutateInv
  <2>2. CASE \E b \in BOOLEAN : SetPermission(c, s, b)
    BY <2>2, SetPermissionInv
  <2>3. CASE AppendLock(c, s)
    BY <2>3, TakesLockInv DEF AppendLock
  <2>4. CASE ClaimLock(c, s)
    BY <2>4, TakesLockInv DEF ClaimLock
  <2>5. CASE ReadState(c, s)
    BY <2>5, ReadStateInv
  <2> QED
    BY <2>1, <2>2, <2>3, <2>4, <2>5
<1>4. ASSUME NEW c \in Clients, Proceed(c)
      PROVE  IndInv'
  <2>1. CASE UpdateLock(c)
    BY <2>1, UpdateLockInv
  <2>2. CASE UpdateRejected(c)
    BY <2>2, GivesUpInv DEF UpdateRejected
  <2>3. CASE NextSeq(c)
    BY <2>3, NextSeqInv
  <2>4. CASE Commit(c)
    BY <2>4, CommitInv
  <2>5. CASE ReadEvents(c)
    BY <2>5, ReadEventsInv
  <2>6. CASE Reply(c)
    BY <2>6, GivesUpInv DEF Reply
  <2> QED
    BY <1>4, <2>1, <2>2, <2>3, <2>4, <2>5, <2>6 DEF Proceed
<1>5. ASSUME NEW c \in Clients, Abort(c)
      PROVE  IndInv'
  BY <1>5, GivesUpInv DEF Abort
<1>6. CASE Rest
  BY <1>1, <1>6 DEF Rest
<1> QED
  BY <1>1, <1>2, <1>3, <1>4, <1>5, <1>6 DEF Next

LEMMA Inductive == Spec => []IndInv
  BY InitInv, NextInv, PTL DEF Spec

-----------------------------------------------------------------------------
(* The theorems.                                                           *)

\* Rows, logs, locks and transactions keep their types: an update never
\* stores a phase, an answer map or a revision that is none.
THEOREM TypeCorrect == Spec => []TypeOK
<1>1. IndInv => TypeOK
  BY DEF IndInv
<1> QED
  BY <1>1, Inductive, PTL

\* One same-revision writer wins: update replaces exactly the row its
\* function was computed from, for any number of clients and sessions.
THEOREM CompareAndSet == Spec => []SnapshotIsCurrent
<1>1. IndInv => SnapshotIsCurrent
  BY DEF IndInv
<1> QED
  BY <1>1, Inductive, PTL

\* MAX(seq) + 1 is still free at the insert, for any number of concurrent
\* appends, claims and updates: UNIQUE (session_id, seq) is never hit.
THEOREM SequenceNumbersFree == Spec => []SeqNeverCollides
<1>1. IndInv => SeqNeverCollides
  BY DEF IndInv
<1> QED
  BY <1>1, Inductive, PTL

-----------------------------------------------------------------------------
(* The store implements its ledger: each transaction, however interleaved  *)
(* with the others, is one atomic step on the row and the log of its       *)
(* session.  What the log says of permissions, slots and revisions then    *)
(* follows from the ledger's steps alone.                                  *)

-----------------------------------------------------------------------------
(* What a client has in hand, relative to the row it started from.         *)

\* A function changes the permission or the rest of the row, never both.
OneConcern(c) ==
  /\ tx[c].kind = "state_updated" => tx[c].new.allowed = tx[c].snap.allowed
  /\ tx[c].kind = "permission_updated" =>
       /\ tx[c].new.phase = tx[c].snap.phase
       /\ tx[c].new.answers = tx[c].snap.answers

\* The row to write is a legal successor of the snapshot.
Successor(c) ==
  /\ OneConcern(c)
  /\ CanTransition(tx[c].snap.phase, tx[c].new.phase)
  /\ DOMAIN tx[c].snap.answers \subseteq DOMAIN tx[c].new.answers

\* A claim keeps, until its commit, the permission and the free slot it saw.
SlotStillFree(c) ==
  row[tx[c].s].allowed /\ Ledger!SlotsUsed(log[tx[c].s]) < MaxSlots

Sound(c) ==
  /\ tx[c].pc = "computed" => OneConcern(c)
  /\ tx[c].pc \in Holding /\ tx[c].new # NoRow => Successor(c)
  /\ tx[c].pc \in Holding /\ tx[c].new = NoRow
       /\ tx[c].kind = "search_slot_claimed" => SlotStillFree(c)

WorkIsSound == \A c \in Clients : Sound(c)

\* A session that does not exist has no events.
NoRowNoLog == \A s \in Sessions : row[s] = NoRow => log[s] = << >>

StepInv == IndInv /\ WorkIsSound /\ NoRowNoLog

-----------------------------------------------------------------------------
(* Helpers.                                                                *)

LEMMA MergeKeeps ==
  ASSUME NEW a \in Ledger!AnswerMaps, NEW b \in Ledger!AnswerMaps
  PROVE  /\ DOMAIN a \subseteq DOMAIN MergeConfirmedAnswers(a, b)
         /\ MergeConfirmedAnswers(a, a) = a
<1>1. DOMAIN MergeConfirmedAnswers(a, b) = DOMAIN a \cup DOMAIN b
  BY DEF MergeConfirmedAnswers
<1>2. PICK ka \in SUBSET Keys : a \in [ka -> Answers]
  BY DEF Ledger!AnswerMaps
<1>3. MergeConfirmedAnswers(a, a) = [k \in DOMAIN a |-> a[k]]
  BY DEF MergeConfirmedAnswers
<1>4. [k \in DOMAIN a |-> a[k]] = a
  BY <1>2
<1> QED
  BY <1>1, <1>3, <1>4

\* The two instances of the table of phase moves are one.
LEMMA SameMoves ==
  ASSUME NEW from, NEW to
  PROVE  CanTransition(from, to) <=> Ledger!CanTransition(from, to)
BY DEF CanTransition, AllowedTransitions,
       Ledger!CanTransition, Ledger!AllowedTransitions

\* What a client between lock and commit relies on stays while others move.
LEMMA OthersKeepSession ==
  ASSUME IndInv, NEW c \in Clients, NEW d \in Clients, c # d,
         tx[d].pc \in Holding, Commit(c)
  PROVE  row'[tx[d].s] = row[tx[d].s] /\ log'[tx[d].s] = log[tx[d].s]
<1>1. /\ tx[c].s \in Sessions /\ tx[d].s \in Sessions
      /\ lock[tx[c].s] = c /\ lock[tx[d].s] = d
  BY DEF Commit, Holding, IndInv, LocksHeld, TypeOK, Transactions
<1>2. tx[c].s # tx[d].s
  BY <1>1
<1> QED
  BY <1>1, <1>2 DEF Commit, IndInv, TypeOK

-----------------------------------------------------------------------------
(* The strengthening is kept by every step.                                *)

\* A client whose transaction and session stay is as sound as before.
LEMMA SoundStays ==
  ASSUME NEW d \in Clients, Sound(d), tx'[d] = tx[d],
         tx[d].pc \in Holding =>
           row'[tx[d].s] = row[tx[d].s] /\ log'[tx[d].s] = log[tx[d].s]
  PROVE  Sound(d)'
BY DEF Sound, OneConcern, Successor, SlotStillFree

\* Nor does it matter what a client outside an update has in hand.
LEMMA SoundElsewhere ==
  ASSUME NEW c \in Clients, tx'[c].pc \notin Updating
  PROVE  Sound(c)'
BY DEF Sound, Updating, Holding

LEMMA InitSound == Init => WorkIsSound /\ NoRowNoLog
<1> SUFFICES ASSUME Init PROVE WorkIsSound /\ NoRowNoLog
  OBVIOUS
<1>1. \A c \in Clients : tx[c].pc = "idle"
  BY DEF Init, IdleTx
<1> QED
  BY <1>1 DEF Init, WorkIsSound, Sound, Holding, NoRowNoLog

LEMMA CreateSound ==
  ASSUME StepInv, NEW s \in Sessions, NEW as \in Ledger!AnswerMaps,
         NEW b \in BOOLEAN, Create(s, as, b)
  PROVE  WorkIsSound'
<1> SUFFICES ASSUME NEW d \in Clients PROVE Sound(d)'
  BY DEF WorkIsSound
<1>1. Sound(d) /\ tx'[d] = tx[d]
  BY DEF StepInv, WorkIsSound, Create
<1>2. ASSUME tx[d].pc \in Holding
      PROVE  row'[tx[d].s] = row[tx[d].s] /\ log'[tx[d].s] = log[tx[d].s]
  <2>1. tx[d].s \in Sessions /\ row[tx[d].s] \in Ledger!Rows
    BY <1>2 DEF StepInv, IndInv, TypeOK, Transactions, WorkInHand, InHand, Holding
  <2>2. tx[d].s # s
    BY <2>1, RowAssumption DEF Create
  <2> QED
    BY <2>1, <2>2 DEF Create, StepInv, IndInv, TypeOK
<1> QED
  BY <1>1, <1>2, SoundStays

\* A step of c that changes neither row nor log leaves the others sound.
LEMMA OthersSound ==
  ASSUME StepInv, NEW c \in Clients, UNCHANGED <<row, log>>,
         \A d \in Clients \ {c} : tx'[d] = tx[d],
         Sound(c)'
  PROVE  WorkIsSound'
<1> SUFFICES ASSUME NEW d \in Clients, d # c PROVE Sound(d)'
  BY DEF WorkIsSound
<1>1. Sound(d) /\ tx'[d] = tx[d]
  BY DEF StepInv, WorkIsSound
<1> QED
  BY <1>1, SoundStays

LEMMA MutateSound ==
  ASSUME StepInv, NEW c \in Clients, NEW s \in Sessions, NEW p \in FnPhases,
         NEW as \in Ledger!AnswerMaps, Mutate(c, s, p, as)
  PROVE  WorkIsSound'
<1> DEFINE new == [row[s] EXCEPT !.phase = p, !.answers = as]
<1>1. row[s] \in Ledger!Rows
  BY DEF StepInv, IndInv, TypeOK, MaybeRow, Mutate, Computes, Created
<1>2. new.allowed = row[s].allowed
  BY <1>1 DEF Ledger!Rows
<1>3. /\ tx'[c].pc = "computed" /\ tx'[c].kind = "state_updated"
      /\ tx'[c].snap = row[s] /\ tx'[c].new = new
      /\ \A d \in Clients \ {c} : tx'[d] = tx[d]
      /\ UNCHANGED <<row, log>>
  BY DEF StepInv, IndInv, TypeOK, Mutate, Computes
<1>4. Sound(c)'
  BY <1>2, <1>3 DEF Sound, OneConcern, Holding
<1> QED
  BY <1>3, <1>4, OthersSound

LEMMA SetPermissionSound ==
  ASSUME StepInv, NEW c \in Clients, NEW s \in Sessions, NEW b \in BOOLEAN,
         SetPermission(c, s, b)
  PROVE  WorkIsSound'
<1> DEFINE new == [row[s] EXCEPT !.allowed = b]
<1>1. row[s] \in Ledger!Rows
  BY DEF StepInv, IndInv, TypeOK, MaybeRow, SetPermission, Computes, Created
<1>2. new.phase = row[s].phase /\ new.answers = row[s].answers
  BY <1>1 DEF Ledger!Rows
<1>3. /\ tx'[c].pc = "computed" /\ tx'[c].kind = "permission_updated"
      /\ tx'[c].snap = row[s] /\ tx'[c].new = new
      /\ \A d \in Clients \ {c} : tx'[d] = tx[d]
      /\ UNCHANGED <<row, log>>
  BY DEF StepInv, IndInv, TypeOK, SetPermission, Computes
<1>4. Sound(c)'
  BY <1>2, <1>3 DEF Sound, OneConcern, Holding
<1> QED
  BY <1>3, <1>4, OthersSound

\* Under the lock the merge keeps every stored answer, and is no change at
\* all when the answers are the row's own.
LEMMA UpdateLockSound ==
  ASSUME StepInv, NEW c \in Clients, UpdateLock(c)
  PROVE  WorkIsSound'
<1> DEFINE s == tx[c].s
           old == tx[c]
<1>1. /\ old \in Transactions /\ s \in Sessions /\ old.pc = "computed"
      /\ old.snap \in Ledger!Rows /\ old.new \in Ledger!Rows
      /\ row[s] \in Ledger!Rows /\ OneConcern(c)
  BY DEF UpdateLock, StepInv, IndInv, TypeOK, Transactions, WorkInHand, InHand,
         WorkIsSound, Sound
<1>2. old.snap = row[s] /\ CanTransition(row[s].phase, old.new.phase)
  BY <1>1 DEF UpdateLock, Admissible, StepInv, IndInv, SnapshotsAge
<1>3. /\ row[s].answers \in Ledger!AnswerMaps /\ old.new.answers \in Ledger!AnswerMaps
  BY <1>1 DEF Ledger!Rows
<1>4. /\ DOMAIN row[s].answers \subseteq DOMAIN Merged(c)
      /\ old.new.answers = row[s].answers => Merged(c) = row[s].answers
  BY <1>3, MergeKeeps DEF Merged
<1>5. /\ \A d \in Clients \ {c} : tx'[d] = tx[d]
      /\ tx'[c] = [old EXCEPT !.pc = "locked", !.new.answers = Merged(c),
                              !.new.revision = old.snap.revision + 1]
      /\ UNCHANGED <<row, log>>
  BY DEF UpdateLock, StepInv, IndInv, TypeOK
<1> DEFINE n == old.snap.revision + 1
           a == Merged(c)
<1>6. /\ tx'[c].pc = "locked" /\ tx'[c].kind = old.kind /\ tx'[c].snap = old.snap
      /\ tx'[c].new = [old.new EXCEPT !.answers = a, !.revision = n]
  <2> HIDE DEF n, a
  <2>1. tx'[c] = [old EXCEPT !.pc = "locked",
                    !.new = [old.new EXCEPT !.answers = a, !.revision = n]]
    BY <1>1, <1>5 DEF Transactions, n, a
  <2> QED
    BY <1>1, <2>1 DEF Transactions
<1>7. /\ tx'[c].new.phase = old.new.phase /\ tx'[c].new.allowed = old.new.allowed
      /\ tx'[c].new.answers = Merged(c)
  <2> HIDE DEF n
  <2> QED
    BY <1>1, <1>6 DEF Ledger!Rows
<1>8. tx'[c].new # NoRow
  <2>1. old.snap.revision \in Nat
    BY <1>1 DEF Ledger!Rows
  <2>2. InHand(c)' /\ tx'[c].new \in MaybeRow
    BY UpdateLockInv DEF StepInv, IndInv, WorkInHand, TypeOK, Transactions
  <2>3. tx'[c].new \in Ledger!Rows
    <3>1. n \in Nat \ {0} /\ a \in Ledger!AnswerMaps
      BY <2>1, <1>3, MergeType DEF Merged
    <3> DEFINE r == old.new
    <3>2. r \in Ledger!Rows
      BY <1>1
    <3> HIDE DEF n, a, r
    <3>3. [r EXCEPT !.answers = a, !.revision = n] \in Ledger!Rows
      BY <3>1, <3>2 DEF Ledger!Rows
    <3> QED
      BY <3>3, <1>6 DEF r
  <2> QED
    BY <2>3, RowAssumption
<1>9. OneConcern(c)'
  BY <1>1, <1>2, <1>4, <1>6, <1>7 DEF OneConcern
<1>10. CanTransition(tx'[c].snap.phase, tx'[c].new.phase)
  BY <1>2, <1>6, <1>7
<1>11. Successor(c)'
  BY <1>2, <1>4, <1>6, <1>7, <1>9, <1>10 DEF Successor
<1>12. Sound(c)'
  BY <1>6, <1>8, <1>11 DEF Sound
<1> QED
  BY <1>5, <1>12, OthersSound

LEMMA AppendLockSound ==
  ASSUME StepInv, NEW c \in Clients, NEW s \in Sessions, AppendLock(c, s)
  PROVE  WorkIsSound'
<1>1. /\ tx'[c] = [tx[c] EXCEPT !.pc = "locked", !.s = s, !.kind = "appended"]
      /\ \A d \in Clients \ {c} : tx'[d] = tx[d]
      /\ UNCHANGED <<row, log>>
  BY DEF AppendLock, StepInv, IndInv, TypeOK
<1>2. tx[c] \in Transactions /\ tx[c].new = NoRow
  BY DEF AppendLock, StepInv, IndInv, TypeOK, WorkInHand, InHand
<1>3. tx'[c].pc = "locked" /\ tx'[c].kind = "appended" /\ tx'[c].new = NoRow
  BY <1>1, <1>2 DEF Transactions
<1>4. Sound(c)'
  BY <1>3 DEF Sound
<1> QED
  BY <1>1, <1>4, OthersSound

LEMMA ClaimLockSound ==
  ASSUME StepInv, NEW c \in Clients, NEW s \in Sessions, ClaimLock(c, s)
  PROVE  WorkIsSound'
<1>1. /\ tx'[c] = [tx[c] EXCEPT !.pc = "locked", !.s = s,
                                !.kind = "search_slot_claimed"]
      /\ \A d \in Clients \ {c} : tx'[d] = tx[d]
      /\ UNCHANGED <<row, log>>
  BY DEF ClaimLock, StepInv, IndInv, TypeOK
<1>2. tx[c] \in Transactions /\ tx[c].new = NoRow
  BY DEF ClaimLock, StepInv, IndInv, TypeOK, WorkInHand, InHand
<1>3. tx'[c].pc = "locked" /\ tx'[c].s = s /\ tx'[c].new = NoRow
  BY <1>1, <1>2 DEF Transactions
<1>4. row'[s].allowed /\ Ledger!SlotsUsed(log'[s]) < MaxSlots
  BY <1>1 DEF ClaimLock
<1>5. SlotStillFree(c)'
  BY <1>3, <1>4 DEF SlotStillFree
<1>6. Sound(c)'
  BY <1>3, <1>5 DEF Sound
<1> QED
  BY <1>1, <1>6, OthersSound

LEMMA NextSeqSound ==
  ASSUME StepInv, NEW c \in Clients, NextSeq(c)
  PROVE  WorkIsSound'
<1> DEFINE n == Len(log[tx[c].s]) + 1
<1>1. /\ tx'[c] = [tx[c] EXCEPT !.pc = "insert", !.seq = n]
      /\ \A d \in Clients \ {c} : tx'[d] = tx[d]
      /\ UNCHANGED <<row, log>>
  BY DEF NextSeq, StepInv, IndInv, TypeOK
<1>2. tx[c] \in Transactions /\ tx[c].pc = "locked" /\ Sound(c)
  BY DEF NextSeq, StepInv, IndInv, TypeOK, WorkIsSound
<1>3. /\ tx'[c].pc = "insert" /\ tx'[c].s = tx[c].s /\ tx'[c].kind = tx[c].kind
      /\ tx'[c].snap = tx[c].snap /\ tx'[c].new = tx[c].new
  <2> HIDE DEF n
  <2> QED
    BY <1>1, <1>2 DEF Transactions
<1>4. Sound(c)'
  BY <1>1, <1>2, <1>3 DEF Sound, Holding, Successor, OneConcern, SlotStillFree
<1> QED
  BY <1>1, <1>4, OthersSound

\* A client that is idle again, or reads, has nothing in hand.
LEMMA LeavesSound ==
  ASSUME StepInv, NEW c \in Clients, UNCHANGED <<row, log>>,
         \A d \in Clients \ {c} : tx'[d] = tx[d],
         tx'[c].pc \notin Updating
  PROVE  WorkIsSound'
BY SoundElsewhere, OthersSound

\* The commit of one client moves no session another one has locked.
LEMMA CommitSound ==
  ASSUME StepInv, NEW c \in Clients, Commit(c)
  PROVE  WorkIsSound'
<1> SUFFICES ASSUME NEW d \in Clients PROVE Sound(d)'
  BY DEF WorkIsSound
<1>1. CASE d = c
  <2>1. tx'[c].pc = "idle"
    BY DEF Commit, Idle, IdleTx, StepInv, IndInv, TypeOK
  <2> QED
    BY <1>1, <2>1, SoundElsewhere DEF Updating
<1>2. CASE d # c
  <2>1. tx'[d] = tx[d] /\ Sound(d)
    BY <1>2 DEF Commit, Idle, StepInv, IndInv, TypeOK, WorkIsSound
  <2>2. tx[d].pc \in Holding =>
          row'[tx[d].s] = row[tx[d].s] /\ log'[tx[d].s] = log[tx[d].s]
    BY <1>2, OthersKeepSession DEF StepInv
  <2> QED
    BY <2>1, <2>2, SoundStays
<1> QED
  BY <1>1, <1>2

LEMMA ClientSound ==
  ASSUME StepInv, NEW c \in Clients, Begin(c) \/ Proceed(c) \/ Abort(c)
  PROVE  WorkIsSound'
<1>1. CASE Begin(c)
  <2> PICK s \in Sessions :
        \/ \E p \in FnPhases, as \in Ledger!AnswerMaps : Mutate(c, s, p, as)
        \/ \E b \in BOOLEAN : SetPermission(c, s, b)
        \/ AppendLock(c, s)
        \/ ClaimLock(c, s)
        \/ ReadState(c, s)
    BY <1>1 DEF Begin
  <2>1. CASE \E p \in FnPhases, as \in Ledger!AnswerMaps : Mutate(c, s, p, as)
    BY <2>1, MutateSound
  <2>2. CASE \E b \in BOOLEAN : SetPermission(c, s, b)
    BY <2>2, SetPermissionSound
  <2>3. CASE AppendLock(c, s)
    BY <2>3, AppendLockSound
  <2>4. CASE ClaimLock(c, s)
    BY <2>4, ClaimLockSound
  <2>5. CASE ReadState(c, s)
    <3>1. /\ tx'[c] = [tx[c] EXCEPT !.pc = "read", !.s = s, !.kind = "read",
                                    !.snap = row[s]]
          /\ \A d \in Clients \ {c} : tx'[d] = tx[d]
          /\ UNCHANGED <<row, log>> /\ tx[c] \in Transactions
      BY <2>5 DEF ReadState, StepInv, IndInv, TypeOK
    <3>2. tx'[c].pc = "read"
      BY <3>1 DEF Transactions
    <3> QED
      BY <3>1, <3>2, LeavesSound DEF Updating
  <2> QED
    BY <2>1, <2>2, <2>3, <2>4, <2>5
<1>2. CASE Idle(c) /\ UNCHANGED <<row, log>>
  <2>1. tx'[c].pc = "idle" /\ \A d \in Clients \ {c} : tx'[d] = tx[d]
    BY <1>2 DEF Idle, IdleTx, StepInv, IndInv, TypeOK
  <2> QED
    BY <1>2, <2>1, LeavesSound DEF Updating
<1>3. CASE ReadEvents(c)
  <2> DEFINE n == Len(log[tx[c].s])
  <2>1. /\ tx'[c] = [tx[c] EXCEPT !.pc = "replied", !.seq = n]
        /\ \A d \in Clients \ {c} : tx'[d] = tx[d]
        /\ UNCHANGED <<row, log>> /\ tx[c] \in Transactions
    BY <1>3 DEF ReadEvents, StepInv, IndInv, TypeOK
  <2>2. tx'[c].pc = "replied"
    <3> HIDE DEF n
    <3> QED
      BY <2>1 DEF Transactions
  <2> QED
    BY <2>1, <2>2, LeavesSound DEF Updating
<1> QED
  BY <1>1, <1>2, <1>3, UpdateLockSound, NextSeqSound, CommitSound
     DEF Proceed, Abort, UpdateRejected, Reply

\* Only a create and a commit move the row and the log.
LEMMA WhoWrites ==
  ASSUME [Next]_vars
  PROVE  \/ UNCHANGED <<row, log>>
         \/ \E s \in Sessions, as \in Ledger!AnswerMaps, b \in BOOLEAN : Create(s, as, b)
         \/ \E c \in Clients : Commit(c)
<1>1. CASE UNCHANGED vars
  BY <1>1 DEF vars
<1>2. ASSUME NEW c \in Clients, Begin(c)
      PROVE  UNCHANGED <<row, log>>
  <2>1. ASSUME NEW s \in Sessions, NEW p, NEW as, Mutate(c, s, p, as)
        PROVE  UNCHANGED <<row, log>>
    BY <2>1 DEF Mutate, Computes
  <2>2. ASSUME NEW s \in Sessions, NEW b, SetPermission(c, s, b)
        PROVE  UNCHANGED <<row, log>>
    BY <2>2 DEF SetPermission, Computes
  <2>3. ASSUME NEW s \in Sessions, AppendLock(c, s) \/ ClaimLock(c, s) \/ ReadState(c, s)
        PROVE  UNCHANGED <<row, log>>
    BY <2>3 DEF AppendLock, ClaimLock, ReadState
  <2> QED
    BY <1>2, <2>1, <2>2, <2>3 DEF Begin
<1>3. ASSUME NEW c \in Clients, Proceed(c) \/ Abort(c), ~Commit(c)
      PROVE  UNCHANGED <<row, log>>
  BY <1>3 DEF Proceed, Abort, UpdateLock, UpdateRejected, NextSeq, ReadEvents, Reply
<1> QED
  BY <1>1, <1>2, <1>3 DEF Next, Rest

LEMMA NoRowNoLogKept ==
  ASSUME StepInv, [Next]_vars
  PROVE  NoRowNoLog'
<1>1. CASE UNCHANGED <<row, log>>
  BY <1>1 DEF StepInv, NoRowNoLog
<1>2. ASSUME NEW s \in Sessions, NEW as \in Ledger!AnswerMaps, NEW b \in BOOLEAN,
             Create(s, as, b)
      PROVE  NoRowNoLog'
  <2> DEFINE new == [ revision |-> 1, phase |-> DefaultPhase,
                      answers |-> as, allowed |-> b ]
  <2>1. new \in Ledger!Rows
    <3>1. 1 \in Nat \ {0} /\ DefaultPhase \in Ledger!Phases
      BY DEF DefaultPhase, Ledger!Phases
    <3> QED
      BY <3>1 DEF Ledger!Rows
  <2>2. row' = [row EXCEPT ![s] = new]
    BY <1>2 DEF Create
  <2> HIDE DEF new
  <2> QED
    BY <1>2, <2>1, <2>2, RowAssumption DEF Create, StepInv, IndInv, TypeOK, NoRowNoLog
<1>3. ASSUME NEW c \in Clients, Commit(c)
      PROVE  NoRowNoLog'
  <2>1. tx[c].s \in Sessions /\ row[tx[c].s] \in Ledger!Rows
    BY <1>3 DEF Commit, StepInv, IndInv, TypeOK, Transactions, WorkInHand, InHand
  <2>2. row'[tx[c].s] # NoRow
    <3>1. row[tx[c].s] # NoRow
      BY <2>1, RowAssumption
    <3> QED
      BY <1>3, <2>1, <3>1 DEF Commit, StepInv, IndInv, TypeOK
  <2>3. \A t \in Sessions \ {tx[c].s} : row'[t] = row[t] /\ log'[t] = log[t]
    BY <1>3 DEF Commit, StepInv, IndInv, TypeOK
  <2> QED
    BY <2>2, <2>3 DEF StepInv, NoRowNoLog
<1> QED
  BY <1>1, <1>2, <1>3, WhoWrites

LEMMA StepInvKept == StepInv /\ [Next]_vars => StepInv'
<1> SUFFICES ASSUME StepInv, [Next]_vars PROVE StepInv'
  OBVIOUS
<1>1. IndInv'
  BY NextInv DEF StepInv
<1>2. ASSUME UNCHANGED vars PROVE WorkIsSound'
  <2> SUFFICES ASSUME NEW d \in Clients PROVE Sound(d)'
    BY DEF WorkIsSound
  <2> QED
    BY <1>2, SoundStays DEF vars, StepInv, WorkIsSound
<1>3. WorkIsSound'
  BY <1>2, CreateSound, ClientSound DEF Next, Rest, StepInv
<1> QED
  BY <1>1, <1>3, NoRowNoLogKept DEF StepInv

-----------------------------------------------------------------------------
(* Every step is a step of the ledger, or moves neither row nor log.       *)

LEMMA CreateRefines ==
  ASSUME StepInv, NEW s \in Sessions, NEW as \in Ledger!AnswerMaps,
         NEW b \in BOOLEAN, Create(s, as, b)
  PROVE  Ledger!LedgerCreate(s)
<1> DEFINE new == [ revision |-> 1, phase |-> DefaultPhase,
                    answers |-> as, allowed |-> b ]
<1>1. new \in Ledger!Rows
  <2>1. 1 \in Nat \ {0} /\ DefaultPhase \in Ledger!Phases
    BY DEF DefaultPhase, Ledger!Phases
  <2> QED
    BY <2>1 DEF Ledger!Rows
<1>2. row[s] = NoRow /\ log[s] = << >>
  BY DEF Create, StepInv, NoRowNoLog
<1>3. row'[s] = new /\ row' = [row EXCEPT ![s] = row'[s]]
  BY DEF Create, StepInv, IndInv, TypeOK
<1>4. /\ row'[s].revision = 1 /\ row'[s].allowed = b
      /\ row'[s].phase = Ledger!DefaultPhase
  BY <1>3 DEF DefaultPhase, Ledger!DefaultPhase
<1>5. << Ledger!Event("created", b) >> = log[s] \o << Ledger!Event("created", b) >>
  <2>1. << Ledger!Event("created", b) >> \in Seq(Ledger!Events)
    <3>1. Ledger!Event("created", b) \in Ledger!Events
      BY DEF Ledger!Event, Ledger!Events, Ledger!EventTypes
    <3> QED
      BY <3>1
  <2> QED
    BY <1>2, <2>1
<1>6. Ledger!Logged(s, << Ledger!Event("created", row'[s].allowed) >>)
  BY <1>4, <1>5 DEF Create, Ledger!Logged
<1> QED
  BY <1>1, <1>2, <1>3, <1>4, <1>6 DEF Ledger!LedgerCreate, Ledger!RowChanges

LEMMA CommitRefines ==
  ASSUME StepInv, NEW c \in Clients, Commit(c)
  PROVE  \/ Ledger!LedgerUpdate(tx[c].s)
         \/ Ledger!LedgerAppend(tx[c].s)
         \/ Ledger!LedgerClaim(tx[c].s)
<1> DEFINE s == tx[c].s
<1>1. /\ tx[c] \in Transactions /\ s \in Sessions /\ tx[c].pc = "insert"
      /\ tx[c].pc \in Holding /\ row[s] \in Ledger!Rows /\ row[s] # NoRow
      /\ Sound(c) /\ InHand(c)
  BY RowAssumption DEF Commit, Holding, StepInv, IndInv, TypeOK, Transactions,
     WorkInHand, InHand, WorkIsSound
<1>2. Ledger!Logged(s, Inserted(c))
  BY DEF Commit, Ledger!Logged
<1>3. CASE tx[c].new # NoRow
  <2>1. /\ tx[c].snap = row[s] /\ tx[c].new \in Ledger!Rows
        /\ tx[c].new.revision = row[s].revision + 1
        /\ tx[c].kind \in {"permission_updated", "state_updated"}
    BY <1>1, <1>3 DEF StepInv, IndInv, SnapshotIsCurrent, InHand, Ledger!StateEvents
  <2>2. Successor(c)
    BY <1>1, <1>3 DEF Sound
  <2>3. row'[s] = tx[c].new /\ row' = [row EXCEPT ![s] = row'[s]]
    BY <1>1, <1>3 DEF Commit, StepInv, IndInv, TypeOK
  <2>4. /\ Ledger!RowChanges(s)
        /\ row'[s].revision = row[s].revision + 1
        /\ Ledger!CanTransition(row[s].phase, row'[s].phase)
        /\ DOMAIN row[s].answers \subseteq DOMAIN row'[s].answers
    BY <2>1, <2>2, <2>3, SameMoves DEF Successor, Ledger!RowChanges
  <2>5. CASE tx[c].kind = "state_updated"
    <3>1. Inserted(c) = << Ledger!Event("state_updated", FALSE) >>
      BY <2>5 DEF Inserted
    <3>2. row'[s].allowed = row[s].allowed
      BY <2>1, <2>2, <2>3, <2>5 DEF Successor, OneConcern
    <3> QED
      BY <1>1, <1>2, <2>4, <3>1, <3>2 DEF Ledger!LedgerUpdate
  <2>6. CASE tx[c].kind = "permission_updated"
    <3>1. Inserted(c) = << Ledger!Event("permission_updated", row'[s].allowed) >>
      BY <2>3, <2>6 DEF Inserted
    <3>2. row'[s].phase = row[s].phase /\ row'[s].answers = row[s].answers
      BY <2>1, <2>2, <2>3, <2>6 DEF Successor, OneConcern
    <3> QED
      BY <1>1, <1>2, <2>4, <3>1, <3>2 DEF Ledger!LedgerUpdate
  <2> QED
    BY <2>1, <2>5, <2>6
<1>4. CASE tx[c].new = NoRow
  <2>1. UNCHANGED row
    BY <1>4 DEF Commit
  <2>2. CASE tx[c].kind = "appended"
    <3>1. Inserted(c) = << Ledger!Event("appended", FALSE) >>
      BY <2>2 DEF Inserted
    <3> QED
      BY <1>1, <1>2, <2>1, <3>1 DEF Ledger!LedgerAppend
  <2>3. CASE tx[c].kind = "search_slot_claimed"
    <3>1. Inserted(c) = << Ledger!Event("search_slot_claimed", FALSE),
                           Ledger!Event("search_requested", FALSE) >>
      BY <2>3 DEF Inserted
    <3>2. row[s].allowed /\ Ledger!SlotsUsed(log[s]) < MaxSlots
      BY <1>1, <1>4, <2>3 DEF Sound, SlotStillFree
    <3> QED
      BY <1>1, <1>2, <2>1, <3>1, <3>2 DEF Ledger!LedgerClaim
  <2> QED
    BY <1>1, <1>4, <2>2, <2>3 DEF InHand
<1> QED
  BY <1>3, <1>4

LEMMA StepRefines ==
  ASSUME StepInv, [Next]_vars
  PROVE  [Ledger!LedgerNext]_(Ledger!ledgerVars)
<1>1. CASE UNCHANGED <<row, log>>
  BY <1>1 DEF Ledger!ledgerVars
<1>2. ASSUME NEW s \in Sessions, NEW as \in Ledger!AnswerMaps, NEW b \in BOOLEAN,
             Create(s, as, b)
      PROVE  Ledger!LedgerNext
  BY <1>2, CreateRefines DEF Ledger!LedgerNext
<1>3. ASSUME NEW c \in Clients, Commit(c)
      PROVE  Ledger!LedgerNext
  <2>1. tx[c].s \in Sessions
    BY DEF StepInv, IndInv, TypeOK, Transactions
  <2> QED
    BY <1>3, <2>1, CommitRefines DEF Ledger!LedgerNext
<1> QED
  BY <1>1, <1>2, <1>3, WhoWrites

-----------------------------------------------------------------------------

LEMMA SoundAlways == Spec => []StepInv
<1>1. Init => StepInv
  BY InitInv, InitSound DEF StepInv
<1> QED
  BY <1>1, StepInvKept, PTL DEF Spec

\* The store implements the ledger: an operation on a session, whatever
\* the other clients do and wherever one fails, takes effect in one step.
THEOREM StoreRefinesLedger == Spec => RefinesLedger
<1>1. Init => Ledger!LedgerInit
  BY DEF Init, Ledger!LedgerInit
<1> QED
  BY <1>1, StepRefines, SoundAlways, PTL DEF Spec, RefinesLedger, Ledger!LedgerSpec

-----------------------------------------------------------------------------
(* Facts about logs that grow.                                             *)

\* Events of the types T among the first n of the log l.
CountIn(l, n, T) == Cardinality({ q \in 1 .. n : l[q].type \in T })

Agree(l, m, n) == \A q \in 1 .. n : m[q] = l[q]

LEMMA CountSame ==
  ASSUME NEW l, NEW m, NEW n \in Nat, NEW T, Agree(l, m, n)
  PROVE  CountIn(m, n, T) = CountIn(l, n, T)
<1>1. { q \in 1 .. n : m[q].type \in T } = { q \in 1 .. n : l[q].type \in T }
  BY DEF Agree
<1> QED
  BY <1>1 DEF CountIn

LEMMA CountNext ==
  ASSUME NEW l, NEW n \in Nat, NEW T
  PROVE  /\ CountIn(l, n, T) \in Nat
         /\ CountIn(l, n + 1, T) =
              IF l[n + 1].type \in T THEN CountIn(l, n, T) + 1 ELSE CountIn(l, n, T)
<1> DEFINE here == { q \in 1 .. n : l[q].type \in T }
           there == { q \in 1 .. n + 1 : l[q].type \in T }
<1>1. IsFiniteSet(here)
  <2>1. IsFiniteSet(1 .. n)
    BY FS_Interval
  <2> QED
    BY <2>1, FS_Subset
<1>2. Cardinality(here) \in Nat
  BY <1>1, FS_CardinalityType
<1>3. n + 1 \notin here
  OBVIOUS
<1>4. CASE l[n + 1].type \in T
  <2>1. there = here \cup {n + 1}
    BY <1>4
  <2>2. Cardinality(here \cup {n + 1}) = Cardinality(here) + 1
    BY <1>1, <1>3, FS_AddElement
  <2> QED
    BY <1>2, <1>4, <2>1, <2>2 DEF CountIn
<1>5. CASE l[n + 1].type \notin T
  <2>1. there = here
    BY <1>5
  <2> QED
    BY <1>2, <1>5, <2>1 DEF CountIn
<1> QED
  BY <1>4, <1>5

LEMMA CountNone ==
  ASSUME NEW l, NEW T
  PROVE  CountIn(l, 0, T) = 0
<1>1. { q \in 1 .. 0 : l[q].type \in T } = {}
  OBVIOUS
<1> QED
  BY <1>1, FS_EmptySet DEF CountIn

\* An event is added at the end, the others stay.
LEMMA Extended ==
  ASSUME NEW l \in Seq(Ledger!Events), NEW a \in Ledger!Events, NEW m,
         m = l \o << a >>
  PROVE  /\ m \in Seq(Ledger!Events) /\ Len(l) \in Nat /\ Len(m) = Len(l) + 1
         /\ m[Len(l) + 1] = a
         /\ Agree(l, m, Len(l))
<1>1. << a >> \in Seq(Ledger!Events)
  OBVIOUS
<1>2. \A q \in 1 .. Len(l) : m[q] = l[q]
  BY <1>1
<1> QED
  BY <1>1, <1>2 DEF Agree

LEMMA TwoAsOne ==
  ASSUME NEW l \in Seq(Ledger!Events), NEW a \in Ledger!Events, NEW b \in Ledger!Events
  PROVE  l \o << a, b >> = (l \o << a >>) \o << b >>
<1> DEFINE m == l \o << a, b >>
           k == (l \o << a >>) \o << b >>
<1>1. << a >> \in Seq(Ledger!Events) /\ << b >> \in Seq(Ledger!Events)
      /\ << a, b >> \in Seq(Ledger!Events)
  OBVIOUS
<1>2. m \in Seq(Ledger!Events) /\ k \in Seq(Ledger!Events) /\ Len(m) = Len(k)
  BY <1>1
<1>3. \A q \in 1 .. Len(m) : m[q] = k[q]
  BY <1>1
<1> HIDE DEF m, k
<1>4. m = k
  BY <1>2, <1>3
<1> QED
  BY <1>4 DEF m, k

LEMMA PermittedSame ==
  ASSUME NEW l, NEW m, NEW n \in Nat, Agree(l, m, n),
         NEW q \in 1 .. n + 1
  PROVE  PermittedAt(m, q) <=> PermittedAt(l, q)
BY DEF Agree, PermittedAt

\* An event that is none of the permission's leaves it as it was.
LEMMA PermittedOn ==
  ASSUME NEW l, NEW n \in Nat, PermittedAt(l, n + 1),
         l[n + 1].type \notin PermissionEvents
  PROVE  PermittedAt(l, n + 2)
<1> PICK p \in 1 .. n : /\ l[p].type \in PermissionEvents
                        /\ l[p].allowed
                        /\ \A r \in p + 1 .. n : l[r].type \notin PermissionEvents
  BY DEF PermittedAt
<1>1. \A r \in p + 1 .. n + 1 : l[r].type \notin PermissionEvents
  OBVIOUS
<1> QED
  BY <1>1 DEF PermittedAt

LEMMA PermittedBy ==
  ASSUME NEW l, NEW n \in Nat, l[n + 1].type \in PermissionEvents, l[n + 1].allowed
  PROVE  PermittedAt(l, n + 2)
BY DEF PermittedAt

-----------------------------------------------------------------------------
(* What the steps of the ledger keep true of a row and its log.            *)

Claimed == {"search_slot_claimed"}

ClaimsHeld(l) ==
  /\ CountIn(l, Len(l), Claimed) <= MaxSlots
  /\ \A q \in 1 .. Len(l) : l[q].type \in Claimed => PermittedAt(l, q)

\* The row shows what its log recorded: a permission that is on was turned
\* on last, and the revision counts the changes.
RowShows(r, l) ==
  /\ r.allowed => PermittedAt(l, Len(l) + 1)
  /\ r.revision = 1 + CountIn(l, Len(l), Ledger!StateEvents)

LedgerOK(s) == ClaimsHeld(log[s]) /\ (Created(s) => RowShows(row[s], log[s]))

LedgerInv == \A s \in Sessions : LedgerOK(s)

\* SlotsUsed counts the claims of a log.
LEMMA SlotsAreClaims ==
  ASSUME NEW l \in Seq(Ledger!Events)
  PROVE  Ledger!SlotsUsed(l) = CountIn(l, Len(l), Claimed)
<1>1. DOMAIN l = 1 .. Len(l)
  OBVIOUS
<1>2. { q \in DOMAIN l : l[q].type = "search_slot_claimed" }
        = { q \in 1 .. Len(l) : l[q].type \in Claimed }
  BY <1>1 DEF Claimed
<1> QED
  BY <1>2 DEF Ledger!SlotsUsed, CountIn, Ledger!Cardinality, Cardinality,
              Ledger!IsFiniteSet, IsFiniteSet

\* One event more; a claim only while permitted and with a slot left.
LEMMA OneEventMore ==
  ASSUME NEW l \in Seq(Ledger!Events), NEW a \in Ledger!Events, NEW m,
         m = l \o << a >>, ClaimsHeld(l),
         a.type \in Claimed => /\ PermittedAt(l, Len(l) + 1)
                               /\ CountIn(l, Len(l), Claimed) < MaxSlots
  PROVE  /\ ClaimsHeld(m)
         /\ a.type \notin PermissionEvents /\ PermittedAt(l, Len(l) + 1)
              => PermittedAt(m, Len(m) + 1)
         /\ a.type \in PermissionEvents /\ a.allowed => PermittedAt(m, Len(m) + 1)
         /\ a.type \in Ledger!StateEvents =>
              CountIn(m, Len(m), Ledger!StateEvents)
                = CountIn(l, Len(l), Ledger!StateEvents) + 1
         /\ a.type \notin Ledger!StateEvents =>
              CountIn(m, Len(m), Ledger!StateEvents)
                = CountIn(l, Len(l), Ledger!StateEvents)
<1> DEFINE n == Len(l)
<1>1. n \in Nat /\ Len(m) = n + 1 /\ m[n + 1] = a /\ Agree(l, m, n)
  BY Extended
<1>2. \A q \in 1 .. n + 1 : PermittedAt(m, q) <=> PermittedAt(l, q)
  BY <1>1, PermittedSame
<1>3. \A q \in 1 .. n : m[q] = l[q]
  BY <1>1 DEF Agree
<1> HIDE DEF n
<1>4. \A T : /\ CountIn(l, n, T) \in Nat
             /\ CountIn(m, n + 1, T) =
                  IF a.type \in T THEN CountIn(l, n, T) + 1 ELSE CountIn(l, n, T)
  <2> SUFFICES ASSUME NEW T
               PROVE  /\ CountIn(l, n, T) \in Nat
                      /\ CountIn(m, n + 1, T) =
                           IF a.type \in T THEN CountIn(l, n, T) + 1
                                           ELSE CountIn(l, n, T)
    OBVIOUS
  <2>1. CountIn(m, n, T) = CountIn(l, n, T)
    BY <1>1, CountSame
  <2>2. /\ CountIn(m, n, T) \in Nat
        /\ CountIn(m, n + 1, T) =
             IF m[n + 1].type \in T THEN CountIn(m, n, T) + 1 ELSE CountIn(m, n, T)
    BY <1>1, CountNext
  <2> QED
    BY <1>1, <2>1, <2>2
<1>5. ClaimsHeld(m)
  <2>1. CountIn(m, Len(m), Claimed) <= MaxSlots
    BY <1>1, <1>4, StoreAssumption DEF ClaimsHeld, n
  <2>2. \A q \in 1 .. Len(m) : m[q].type \in Claimed => PermittedAt(m, q)
    BY <1>1, <1>2, <1>3 DEF ClaimsHeld, n
  <2> QED
    BY <2>1, <2>2 DEF ClaimsHeld
<1>6. (n + 1) + 1 = n + 2
  BY <1>1
<1>7. ASSUME a.type \notin PermissionEvents, PermittedAt(l, n + 1)
      PROVE  PermittedAt(m, Len(m) + 1)
  <2>1. PermittedAt(m, n + 1)
    BY <1>1, <1>2, <1>7
  <2> QED
    BY <1>1, <1>6, <1>7, <2>1, PermittedOn
<1>8. ASSUME a.type \in PermissionEvents, a.allowed
      PROVE  PermittedAt(m, Len(m) + 1)
  BY <1>1, <1>6, <1>8, PermittedBy
<1>9. /\ a.type \in Ledger!StateEvents =>
           CountIn(m, Len(m), Ledger!StateEvents)
             = CountIn(l, n, Ledger!StateEvents) + 1
      /\ a.type \notin Ledger!StateEvents =>
           CountIn(m, Len(m), Ledger!StateEvents)
             = CountIn(l, n, Ledger!StateEvents)
  BY <1>1, <1>4
<1> QED
  BY <1>5, <1>7, <1>8, <1>9 DEF n

LEMMA CreateKeepsLedger ==
  ASSUME StepInv, LedgerInv, NEW s \in Sessions, Ledger!LedgerCreate(s)
  PROVE  LedgerOK(s)'
<1> DEFINE e == Ledger!Event("created", row'[s].allowed)
           l == << >>
<1>1. /\ row'[s] \in Ledger!Rows /\ row'[s].revision = 1
      /\ log[s] = l /\ log'[s] = l \o << e >>
  BY DEF Ledger!LedgerCreate, Ledger!RowChanges, Ledger!Logged, StepInv,
         NoRowNoLog, IndInv, TypeOK
<1>2. e \in Ledger!Events /\ e.type = "created" /\ e.allowed = row'[s].allowed
  BY <1>1 DEF Ledger!Event, Ledger!Events, Ledger!EventTypes, Ledger!Rows
<1>3. l \in Seq(Ledger!Events) /\ Len(l) = 0
  OBVIOUS
<1>4. ClaimsHeld(l)
  BY <1>1 DEF LedgerInv, LedgerOK
<1>5. CountIn(l, Len(l), Ledger!StateEvents) = 0
  BY <1>3, CountNone
<1>6. e.type \notin Claimed /\ e.type \in PermissionEvents
       /\ e.type \notin Ledger!StateEvents
  BY <1>2 DEF Claimed, PermissionEvents, Ledger!StateEvents
<1> HIDE DEF e, l
<1>7. /\ ClaimsHeld(log'[s])
      /\ e.allowed => PermittedAt(log'[s], Len(log'[s]) + 1)
      /\ CountIn(log'[s], Len(log'[s]), Ledger!StateEvents) = 0
  BY <1>1, <1>2, <1>3, <1>4, <1>5, <1>6, OneEventMore
<1> QED
  BY <1>1, <1>2, <1>7 DEF LedgerOK, RowShows

LEMMA UpdateKeepsLedger ==
  ASSUME StepInv, LedgerInv, NEW s \in Sessions, Ledger!LedgerUpdate(s)
  PROVE  LedgerOK(s)'
<1> DEFINE l == log[s]
           m == log'[s]
<1>1. /\ row[s] \in Ledger!Rows /\ row'[s] \in Ledger!Rows
      /\ row'[s].revision = row[s].revision + 1
      /\ l \in Seq(Ledger!Events) /\ log \in [Sessions -> Seq(Ledger!Events)]
  BY DEF Ledger!LedgerUpdate, Ledger!RowChanges, StepInv, IndInv, TypeOK, MaybeRow
<1>2. ClaimsHeld(l) /\ RowShows(row[s], l)
  BY <1>1, RowAssumption DEF LedgerInv, LedgerOK, Created
<1>3. PICK e \in Ledger!Events :
        /\ m = l \o << e >>
        /\ \/ e.type = "state_updated" /\ row'[s].allowed = row[s].allowed
           \/ e.type = "permission_updated" /\ e.allowed = row'[s].allowed
  <2>1. /\ Ledger!Event("state_updated", FALSE) \in Ledger!Events
        /\ Ledger!Event("permission_updated", row'[s].allowed) \in Ledger!Events
    BY <1>1 DEF Ledger!Event, Ledger!Events, Ledger!EventTypes, Ledger!Rows
  <2> QED
    BY <1>1, <2>1 DEF Ledger!LedgerUpdate, Ledger!Logged, Ledger!Event
<1> HIDE DEF l, m
<1>4. e.type \notin Claimed /\ e.type \in Ledger!StateEvents
  BY <1>3 DEF Claimed, Ledger!StateEvents
<1>5. /\ ClaimsHeld(m)
      /\ e.type \notin PermissionEvents /\ PermittedAt(l, Len(l) + 1)
           => PermittedAt(m, Len(m) + 1)
      /\ e.type \in PermissionEvents /\ e.allowed => PermittedAt(m, Len(m) + 1)
      /\ CountIn(m, Len(m), Ledger!StateEvents)
           = CountIn(l, Len(l), Ledger!StateEvents) + 1
  BY <1>1, <1>2, <1>3, <1>4, OneEventMore DEF l
<1>6. row'[s].allowed => PermittedAt(m, Len(m) + 1)
  BY <1>2, <1>3, <1>5 DEF PermissionEvents, RowShows
<1>7. Len(l) \in Nat
  BY <1>1 DEF l
<1>8. CountIn(l, Len(l), Ledger!StateEvents) \in Nat
  BY <1>7, CountNext
<1>9. row'[s].revision = 1 + CountIn(m, Len(m), Ledger!StateEvents)
  BY <1>1, <1>2, <1>5, <1>8 DEF RowShows
<1> QED
  BY <1>5, <1>6, <1>9 DEF LedgerOK, RowShows, m

LEMMA AppendKeepsLedger ==
  ASSUME StepInv, LedgerInv, NEW s \in Sessions, Ledger!LedgerAppend(s)
  PROVE  LedgerOK(s)'
<1> DEFINE l == log[s]
           m == log'[s]
           e == Ledger!Event("appended", FALSE)
<1>1. /\ l \in Seq(Ledger!Events) /\ m = l \o << e >> /\ row'[s] = row[s]
      /\ row[s] # NoRow
  BY DEF Ledger!LedgerAppend, Ledger!Logged, StepInv, IndInv, TypeOK
<1>2. e \in Ledger!Events /\ e.type = "appended"
  BY DEF Ledger!Event, Ledger!Events, Ledger!EventTypes
<1>3. ClaimsHeld(l) /\ RowShows(row[s], l)
  BY <1>1 DEF LedgerInv, LedgerOK, Created
<1>4. Len(l) \in Nat
  BY <1>1
<1> HIDE DEF l, m, e
<1>5. CountIn(l, Len(l), Ledger!StateEvents) \in Nat
  BY <1>4, CountNext
<1>6. /\ e.type \notin Claimed /\ e.type \notin PermissionEvents
      /\ e.type \notin Ledger!StateEvents
  BY <1>2 DEF Claimed, PermissionEvents, Ledger!StateEvents
<1>7. /\ ClaimsHeld(m)
      /\ PermittedAt(l, Len(l) + 1) => PermittedAt(m, Len(m) + 1)
      /\ CountIn(m, Len(m), Ledger!StateEvents)
           = CountIn(l, Len(l), Ledger!StateEvents)
  BY <1>1, <1>2, <1>3, <1>5, <1>6, OneEventMore
<1> QED
  BY <1>1, <1>3, <1>7 DEF LedgerOK, RowShows, m

LEMMA ClaimKeepsLedger ==
  ASSUME StepInv, LedgerInv, NEW s \in Sessions, Ledger!LedgerClaim(s)
  PROVE  LedgerOK(s)'
<1> DEFINE l == log[s]
           m == log'[s]
           a == Ledger!Event("search_slot_claimed", FALSE)
           b == Ledger!Event("search_requested", FALSE)
           k == l \o << a >>
<1>1. /\ l \in Seq(Ledger!Events) /\ m = l \o << a, b >> /\ row'[s] = row[s]
      /\ row[s] # NoRow /\ row[s].allowed /\ Ledger!SlotsUsed(l) < MaxSlots
  BY DEF Ledger!LedgerClaim, Ledger!Logged, StepInv, IndInv, TypeOK
<1>2. /\ a \in Ledger!Events /\ a.type = "search_slot_claimed"
      /\ b \in Ledger!Events /\ b.type = "search_requested"
  BY DEF Ledger!Event, Ledger!Events, Ledger!EventTypes
<1>3. ClaimsHeld(l) /\ RowShows(row[s], l)
  BY <1>1 DEF LedgerInv, LedgerOK, Created
<1>4. CountIn(l, Len(l), Claimed) < MaxSlots
  BY <1>1, SlotsAreClaims
<1>5. Len(l) \in Nat
  BY <1>1
<1> HIDE DEF l, m, a, b
<1>6. k \in Seq(Ledger!Events)
  BY <1>1, <1>2, Extended
<1>7. m = k \o << b >>
  BY <1>1, <1>2, TwoAsOne
<1> HIDE DEF k
<1>8. CountIn(l, Len(l), Ledger!StateEvents) \in Nat
  BY <1>5, CountNext
<1>9. k = l \o << a >>
  BY DEF k
<1>10. /\ a.type \notin PermissionEvents /\ a.type \notin Ledger!StateEvents
       /\ b.type \notin PermissionEvents /\ b.type \notin Ledger!StateEvents
       /\ b.type \notin Claimed
  BY <1>2 DEF Claimed, PermissionEvents, Ledger!StateEvents
<1>11. PermittedAt(l, Len(l) + 1)
  BY <1>1, <1>3 DEF RowShows
<1>12. /\ ClaimsHeld(k)
       /\ PermittedAt(k, Len(k) + 1)
       /\ CountIn(k, Len(k), Ledger!StateEvents)
            = CountIn(l, Len(l), Ledger!StateEvents)
  BY <1>1, <1>2, <1>3, <1>4, <1>8, <1>9, <1>10, <1>11, OneEventMore
<1>13. /\ ClaimsHeld(m)
       /\ PermittedAt(m, Len(m) + 1)
       /\ CountIn(m, Len(m), Ledger!StateEvents)
            = CountIn(l, Len(l), Ledger!StateEvents)
  BY <1>2, <1>6, <1>7, <1>8, <1>12, <1>10, OneEventMore
<1> QED
  BY <1>1, <1>3, <1>13 DEF LedgerOK, RowShows, m

LEMMA LedgerStepKeeps ==
  ASSUME StepInv, LedgerInv, [Ledger!LedgerNext]_(Ledger!ledgerVars)
  PROVE  LedgerInv'
<1> SUFFICES ASSUME NEW t \in Sessions PROVE LedgerOK(t)'
  BY DEF LedgerInv
<1>1. ASSUME row'[t] = row[t], log'[t] = log[t]
      PROVE  LedgerOK(t)'
  BY <1>1 DEF LedgerInv, LedgerOK, Created
<1>2. CASE UNCHANGED Ledger!ledgerVars
  BY <1>1, <1>2 DEF Ledger!ledgerVars
<1>3. ASSUME NEW s \in Sessions,
             \/ Ledger!LedgerCreate(s) \/ Ledger!LedgerUpdate(s)
             \/ Ledger!LedgerAppend(s) \/ Ledger!LedgerClaim(s)
      PROVE  LedgerOK(t)'
  <2>1. CASE t = s
    BY <1>3, <2>1, CreateKeepsLedger, UpdateKeepsLedger, AppendKeepsLedger,
       ClaimKeepsLedger
  <2>2. CASE t # s
    <3>1. row'[t] = row[t]
      BY <1>3, <2>2 DEF Ledger!LedgerCreate, Ledger!LedgerUpdate,
         Ledger!LedgerAppend, Ledger!LedgerClaim, Ledger!RowChanges,
         StepInv, IndInv, TypeOK
    <3>2. log'[t] = log[t]
      BY <1>3, <2>2 DEF Ledger!LedgerCreate, Ledger!LedgerUpdate,
         Ledger!LedgerAppend, Ledger!LedgerClaim, Ledger!Logged,
         StepInv, IndInv, TypeOK
    <3> QED
      BY <3>1, <3>2, <1>1
  <2> QED
    BY <2>1, <2>2
<1> QED
  BY <1>2, <1>3 DEF Ledger!LedgerNext

LEMMA InitLedger == Init => LedgerInv
<1> SUFFICES ASSUME Init, NEW s \in Sessions PROVE LedgerOK(s)
  BY DEF LedgerInv
<1>1. log[s] = << >> /\ ~Created(s) /\ Len(<< >>) = 0
  BY DEF Init, Created
<1>2. CountIn(<< >>, 0, Claimed) = 0
  BY CountNone
<1> QED
  BY <1>1, <1>2, StoreAssumption DEF LedgerOK, ClaimsHeld

LEMMA LedgerAlways == Spec => []LedgerInv
BY InitLedger, StepRefines, LedgerStepKeeps, SoundAlways, PTL DEF Spec

\* No interleaving of claims overruns the search slots of a session, and
\* every slot in a log was claimed while the permission recorded last was
\* on: a toggle-off that commits first blocks the claim, for any number of
\* clients.
THEOREM EveryClaimAllowed == Spec => []ClaimsAllowed
<1>1. TypeOK /\ LedgerInv => ClaimsAllowed
  <2> SUFFICES ASSUME TypeOK, LedgerInv, NEW s \in Sessions
               PROVE  /\ Ledger!SlotsUsed(log[s]) <= MaxSlots
                      /\ \A q \in DOMAIN log[s] :
                           log[s][q].type = "search_slot_claimed"
                             => PermittedAt(log[s], q)
    BY DEF ClaimsAllowed
  <2>1. log[s] \in Seq(Ledger!Events) /\ ClaimsHeld(log[s])
    BY DEF TypeOK, LedgerInv, LedgerOK
  <2>2. DOMAIN log[s] = 1 .. Len(log[s])
    BY <2>1
  <2> QED
    BY <2>1, <2>2, SlotsAreClaims DEF ClaimsHeld, Claimed
<1> QED
  BY <1>1, TypeCorrect, LedgerAlways, PTL

-----------------------------------------------------------------------------
(* A reply shows no change its events do not.                              *)

\* A reader's row was committed before the events it goes on to read.
ReaderBehind(c) ==
  /\ tx[c].pc \in {"read", "replied"} => tx[c].snap \in Ledger!Rows
  /\ tx[c].pc = "read" => tx[c].snap.revision <= row[tx[c].s].revision
  /\ tx[c].pc = "replied" =>
       /\ tx[c].seq <= Len(log[tx[c].s])
       /\ tx[c].snap.revision
            <= 1 + CountIn(log[tx[c].s], tx[c].seq, Ledger!StateEvents)

ReadersBehind == \A c \in Clients : ReaderBehind(c)

\* Revisions and logs only grow.
LEMMA Grows ==
  ASSUME StepInv, [Ledger!LedgerNext]_(Ledger!ledgerVars), NEW t \in Sessions
  PROVE  /\ Len(log[t]) \in Nat /\ Len(log'[t]) \in Nat
         /\ Len(log[t]) <= Len(log'[t]) /\ Agree(log[t], log'[t], Len(log[t]))
         /\ row[t] \in Ledger!Rows =>
              row'[t] \in Ledger!Rows /\ row[t].revision <= row'[t].revision
<1> DEFINE l == log[t]
           m == log'[t]
<1>1. l \in Seq(Ledger!Events) /\ row[t] \in MaybeRow
  BY DEF StepInv, IndInv, TypeOK
<1>2. ASSUME m = l PROVE Agree(l, m, Len(l)) /\ Len(m) = Len(l)
  BY <1>2 DEF Agree
<1>3. ASSUME NEW a \in Ledger!Events, m = l \o << a >>
      PROVE  Agree(l, m, Len(l)) /\ Len(m) = Len(l) + 1
  BY <1>1, <1>3, Extended
<1>4. ASSUME NEW a \in Ledger!Events, NEW b \in Ledger!Events, m = l \o << a, b >>
      PROVE  Agree(l, m, Len(l)) /\ Len(m) = Len(l) + 2
  <2>1. << a, b >> \in Seq(Ledger!Events) /\ Len(<< a, b >>) = 2
    OBVIOUS
  <2>2. \A q \in 1 .. Len(l) : m[q] = l[q]
    BY <1>1, <1>4, <2>1
  <2> QED
    BY <1>1, <1>4, <2>1, <2>2 DEF Agree
<1>5. /\ Ledger!Event("state_updated", FALSE) \in Ledger!Events
      /\ Ledger!Event("appended", FALSE) \in Ledger!Events
      /\ Ledger!Event("search_slot_claimed", FALSE) \in Ledger!Events
      /\ Ledger!Event("search_requested", FALSE) \in Ledger!Events
      /\ \A b \in BOOLEAN : /\ Ledger!Event("created", b) \in Ledger!Events
                            /\ Ledger!Event("permission_updated", b) \in Ledger!Events
  BY DEF Ledger!Event, Ledger!Events, Ledger!EventTypes
<1>6. row[t] \in Ledger!Rows => row[t].revision \in Nat
  BY DEF Ledger!Rows
<1>7. \/ m = l
      \/ \E a \in Ledger!Events : m = l \o << a >>
      \/ \E a, b \in Ledger!Events : m = l \o << a, b >>
  <2>1. CASE UNCHANGED Ledger!ledgerVars
    BY <2>1 DEF Ledger!ledgerVars
  <2>2. ASSUME NEW s \in Sessions, NEW es, Ledger!Logged(s, es)
        PROVE  m = l \/ m = l \o es
    BY <2>2 DEF Ledger!Logged, StepInv, IndInv, TypeOK
  <2>3. ASSUME NEW s \in Sessions, Ledger!RowChanges(s) PROVE row'[s].allowed \in BOOLEAN
    BY <2>3 DEF Ledger!RowChanges, Ledger!Rows
  <2>4. ASSUME NEW s \in Sessions, Ledger!LedgerCreate(s)
        PROVE  m = l \/ \E a \in Ledger!Events : m = l \o << a >>
    BY <2>2, <2>3, <2>4, <1>5 DEF Ledger!LedgerCreate
  <2>5. ASSUME NEW s \in Sessions, Ledger!LedgerUpdate(s)
        PROVE  m = l \/ \E a \in Ledger!Events : m = l \o << a >>
    BY <2>2, <2>3, <2>5, <1>5 DEF Ledger!LedgerUpdate
  <2>6. ASSUME NEW s \in Sessions, Ledger!LedgerAppend(s)
        PROVE  m = l \/ \E a \in Ledger!Events : m = l \o << a >>
    BY <2>2, <2>6, <1>5 DEF Ledger!LedgerAppend
  <2>7. ASSUME NEW s \in Sessions, Ledger!LedgerClaim(s)
        PROVE  m = l \/ \E a, b \in Ledger!Events : m = l \o << a, b >>
    BY <2>2, <2>7, <1>5 DEF Ledger!LedgerClaim
  <2> QED
    BY <2>1, <2>4, <2>5, <2>6, <2>7 DEF Ledger!LedgerNext
<1>8. row[t] \in Ledger!Rows =>
        row'[t] \in Ledger!Rows /\ row[t].revision <= row'[t].revision
  <2>1. ASSUME row[t] \in Ledger!Rows, NEW s \in Sessions,
               \/ Ledger!LedgerCreate(s) \/ Ledger!LedgerUpdate(s)
               \/ Ledger!LedgerAppend(s) \/ Ledger!LedgerClaim(s)
        PROVE  row'[t] \in Ledger!Rows /\ row[t].revision <= row'[t].revision
    BY <1>6, <2>1, RowAssumption
       DEF Ledger!LedgerCreate, Ledger!LedgerUpdate, Ledger!LedgerAppend,
           Ledger!LedgerClaim, Ledger!RowChanges, StepInv, IndInv, TypeOK
  <2>2. CASE UNCHANGED Ledger!ledgerVars
    BY <1>6, <2>2 DEF Ledger!ledgerVars
  <2> QED
    BY <2>1, <2>2 DEF Ledger!LedgerNext
<1>9. Len(l) \in Nat
  BY <1>1
<1>10. Agree(l, m, Len(l)) /\ Len(m) \in Nat /\ Len(l) <= Len(m)
  <2> HIDE DEF l, m
  <2>1. CASE m = l
    BY <1>2, <1>9, <2>1
  <2>2. CASE \E a \in Ledger!Events : m = l \o << a >>
    <3>1. Agree(l, m, Len(l)) /\ Len(m) = Len(l) + 1
      BY <1>3, <2>2
    <3> QED
      BY <1>9, <3>1
  <2>3. CASE \E a, b \in Ledger!Events : m = l \o << a, b >>
    <3>1. Agree(l, m, Len(l)) /\ Len(m) = Len(l) + 2
      BY <1>4, <2>3
    <3> QED
      BY <1>9, <3>1
  <2> QED
    BY <1>7, <2>1, <2>2, <2>3
<1> QED
  BY <1>8, <1>9, <1>10

\* A reader whose transaction stays is as far behind as before.
LEMMA ReaderStays ==
  ASSUME StepInv, [Ledger!LedgerNext]_(Ledger!ledgerVars),
         NEW d \in Clients, ReaderBehind(d), tx'[d] = tx[d]
  PROVE  ReaderBehind(d)'
<1> DEFINE t == tx[d].s
           l == log[t]
           m == log'[t]
<1>1. t \in Sessions /\ tx[d].seq \in Nat
  BY DEF StepInv, IndInv, TypeOK, Transactions
<1>2. /\ Len(l) \in Nat /\ Len(m) \in Nat
      /\ Len(l) <= Len(m) /\ Agree(l, m, Len(l))
      /\ row[t] \in Ledger!Rows =>
           row'[t] \in Ledger!Rows /\ row[t].revision <= row'[t].revision
  BY <1>1, Grows
<1>3. CASE tx[d].pc = "read"
  <2>1. row[t] \in Ledger!Rows /\ tx[d].snap \in Ledger!Rows
    BY <1>3 DEF StepInv, IndInv, WorkInHand, InHand, ReaderBehind
  <2>2. /\ tx[d].snap.revision \in Nat /\ row[t].revision \in Nat
        /\ row'[t].revision \in Nat
    BY <1>2, <2>1 DEF Ledger!Rows
  <2>3. tx[d].snap.revision <= row[t].revision
    BY <1>3 DEF ReaderBehind
  <2>4. tx[d].snap.revision <= row'[t].revision
    BY <1>2, <2>1, <2>2, <2>3
  <2> QED
    BY <1>3, <2>1, <2>4 DEF ReaderBehind
<1>4. CASE tx[d].pc = "replied"
  <2>1. /\ tx[d].seq <= Len(l)
        /\ tx[d].snap.revision <= 1 + CountIn(l, tx[d].seq, Ledger!StateEvents)
        /\ tx[d].snap \in Ledger!Rows
    BY <1>4 DEF ReaderBehind
  <2>2. Agree(l, m, tx[d].seq)
    BY <1>1, <1>2, <2>1 DEF Agree
  <2>3. CountIn(m, tx[d].seq, Ledger!StateEvents)
          = CountIn(l, tx[d].seq, Ledger!StateEvents)
    BY <1>1, <2>2, CountSame
  <2>4. tx[d].seq <= Len(m)
    BY <1>1, <1>2, <2>1
  <2> QED
    BY <1>4, <2>1, <2>3, <2>4 DEF ReaderBehind
<1> QED
  BY <1>3, <1>4 DEF ReaderBehind

LEMMA ReadersKept ==
  ASSUME StepInv, LedgerInv, ReadersBehind, [Next]_vars
  PROVE  ReadersBehind'
<1>1. [Ledger!LedgerNext]_(Ledger!ledgerVars)
  BY StepRefines
<1>2. ASSUME NEW c \in Clients, \A d \in Clients \ {c} : tx'[d] = tx[d],
             tx'[c] = tx[c] \/ tx'[c].pc \notin {"read", "replied"}
                \/ ReaderBehind(c)'
      PROVE  ReadersBehind'
  <2> SUFFICES ASSUME NEW d \in Clients PROVE ReaderBehind(d)'
    BY DEF ReadersBehind
  <2>1. CASE tx'[d] = tx[d]
    BY <1>1, <2>1, ReaderStays DEF ReadersBehind
  <2>2. CASE d = c /\ tx'[c].pc \notin {"read", "replied"}
    BY <2>2 DEF ReaderBehind
  <2> QED
    BY <1>2, <2>1, <2>2
<1>3. ASSUME UNCHANGED tx PROVE ReadersBehind'
  BY <1>1, <1>3, ReaderStays DEF ReadersBehind
<1>4. ASSUME NEW c \in Clients, Idle(c) PROVE ReadersBehind'
  BY <1>2, <1>4 DEF Idle, IdleTx, StepInv, IndInv, TypeOK
<1>5. ASSUME NEW c \in Clients, NEW s \in Sessions,
             \/ \E kind, new : Computes(c, s, kind, new)
             \/ AppendLock(c, s) \/ ClaimLock(c, s) \/ UpdateLock(c) \/ NextSeq(c)
      PROVE  ReadersBehind'
  <2>1. tx[c] \in Transactions
    BY DEF StepInv, IndInv, TypeOK
  <2>2. \A d \in Clients \ {c} : tx'[d] = tx[d]
    BY <1>5 DEF Computes, AppendLock, ClaimLock, UpdateLock, NextSeq,
       StepInv, IndInv, TypeOK
  <2>3. tx'[c].pc \in Updating
    <3>1. ASSUME NEW kind, NEW new, Computes(c, s, kind, new)
          PROVE  tx'[c].pc = "computed"
      BY <3>1 DEF Computes, StepInv, IndInv, TypeOK
    <3>2. AppendLock(c, s) \/ ClaimLock(c, s) => tx'[c].pc = "locked"
      BY <2>1 DEF AppendLock, ClaimLock, Transactions, StepInv, IndInv, TypeOK
    <3>3. UpdateLock(c) => tx'[c].pc = "locked"
      BY <2>1 DEF UpdateLock, Transactions, StepInv, IndInv, TypeOK
    <3>4. NextSeq(c) => tx'[c].pc = "insert"
      BY <2>1 DEF NextSeq, Transactions, StepInv, IndInv, TypeOK
    <3> QED
      BY <1>5, <3>1, <3>2, <3>3, <3>4 DEF Updating
  <2> QED
    BY <1>2, <2>2, <2>3 DEF Updating
<1>6. ASSUME NEW c \in Clients, NEW s \in Sessions, ReadState(c, s)
      PROVE  ReadersBehind'
  <2>1. row[s] \in Ledger!Rows /\ tx[c] \in Transactions /\ row'[s] = row[s]
    BY <1>6 DEF ReadState, Created, StepInv, IndInv, TypeOK, MaybeRow
  <2>2. /\ tx'[c] = [tx[c] EXCEPT !.pc = "read", !.s = s, !.kind = "read",
                                  !.snap = row[s]]
        /\ \A d \in Clients \ {c} : tx'[d] = tx[d]
    BY <1>6 DEF ReadState, StepInv, IndInv, TypeOK
  <2>3. tx'[c].pc = "read" /\ tx'[c].s = s /\ tx'[c].snap = row[s]
    BY <2>1, <2>2 DEF Transactions
  <2>4. row[s].revision \in Nat
    BY <2>1 DEF Ledger!Rows
  <2>5. ReaderBehind(c)'
    BY <2>1, <2>3, <2>4 DEF ReaderBehind
  <2> QED
    BY <1>2, <2>2, <2>5
<1>7. ASSUME NEW c \in Clients, ReadEvents(c)
      PROVE  ReadersBehind'
  <2> DEFINE t == tx[c].s
             n == Len(log[t])
  <2>1. /\ tx[c] \in Transactions /\ t \in Sessions /\ tx[c].pc = "read"
        /\ log'[t] = log[t] /\ row[t] \in Ledger!Rows
        /\ tx[c].snap \in Ledger!Rows /\ tx[c].snap.revision <= row[t].revision
    BY <1>7 DEF ReadEvents, StepInv, IndInv, TypeOK, Transactions, WorkInHand,
       InHand, ReadersBehind, ReaderBehind
  <2>2. n \in Nat /\ log[t] \in Seq(Ledger!Events)
    BY <2>1 DEF StepInv, IndInv, TypeOK
  <2>3. /\ tx'[c] = [tx[c] EXCEPT !.pc = "replied", !.seq = n]
        /\ \A d \in Clients \ {c} : tx'[d] = tx[d]
    BY <1>7 DEF ReadEvents, StepInv, IndInv, TypeOK
  <2>4. /\ tx'[c].pc = "replied" /\ tx'[c].s = t /\ tx'[c].snap = tx[c].snap
        /\ tx'[c].seq = n
    <3> HIDE DEF n
    <3> QED
      BY <2>1, <2>3 DEF Transactions
  <2>5. row[t].revision = 1 + CountIn(log[t], n, Ledger!StateEvents)
    BY <2>1, RowAssumption DEF LedgerInv, LedgerOK, RowShows, Created
  <2>6. tx'[c].snap.revision <= 1 + CountIn(log[t], n, Ledger!StateEvents)
    BY <2>1, <2>4, <2>5
  <2>7. ReaderBehind(c)'
    BY <2>1, <2>2, <2>4, <2>6 DEF ReaderBehind
  <2> QED
    BY <1>2, <2>3, <2>7
<1>8. ASSUME NEW c \in Clients, Begin(c) PROVE ReadersBehind'
  <2> PICK s \in Sessions :
        \/ \E p \in FnPhases, as \in Ledger!AnswerMaps : Mutate(c, s, p, as)
        \/ \E b \in BOOLEAN : SetPermission(c, s, b)
        \/ AppendLock(c, s)
        \/ ClaimLock(c, s)
        \/ ReadState(c, s)
    BY <1>8 DEF Begin
  <2> QED
    BY <1>5, <1>6 DEF Mutate, SetPermission
<1>9. ASSUME NEW c \in Clients, Proceed(c) PROVE ReadersBehind'
  BY <1>4, <1>5, <1>7, <1>9, StoreAssumption
     DEF Proceed, UpdateRejected, Commit, Reply
<1>10. ASSUME NEW c \in Clients, Abort(c) PROVE ReadersBehind'
  BY <1>4, <1>10 DEF Abort
<1> QED
  BY <1>3, <1>8, <1>9, <1>10 DEF Next, Create, Rest, vars

\* A session response may carry events newer than its row, never a row
\* newer than its events: a reader that uses two connections still sees
\* every change its row shows in the log it carries.
THEOREM RepliesNotBehind == Spec => []ReadNotBehind
<1>1. Init => ReadersBehind
  BY DEF Init, IdleTx, ReadersBehind, ReaderBehind
<1>2. StepInv /\ ReadersBehind => ReadNotBehind
  <2> SUFFICES ASSUME StepInv, ReadersBehind, NEW c \in Clients, tx[c].pc = "replied"
               PROVE  tx[c].snap.revision
                        <= 1 + Cardinality(StateEventsIn(log[tx[c].s], tx[c].seq))
    BY DEF ReadNotBehind
  <2>1. StateEventsIn(log[tx[c].s], tx[c].seq)
          = { q \in 1 .. tx[c].seq : log[tx[c].s][q].type \in Ledger!StateEvents }
    BY DEF StateEventsIn
  <2> QED
    BY <2>1 DEF ReadersBehind, ReaderBehind, CountIn
<1>3. StepInv /\ LedgerInv /\ ReadersBehind /\ [Next]_vars => ReadersBehind'
  BY ReadersKept
<1> QED
  BY <1>1, <1>2, <1>3, SoundAlways, LedgerAlways, PTL DEF Spec
=============================================================================
