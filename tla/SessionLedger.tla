--------------------------- MODULE SessionLedger ---------------------------
(***************************************************************************)
(* What the session store promises: every operation on a session is one    *)
(* atomic step on its row and its event log.  An update replaces exactly   *)
(* the revision it was computed from, keeps every confirmed answer and     *)
(* logs one event; an append adds one event and leaves the row alone; a    *)
(* claimed search slot adds two adjacent events, and only while permission *)
(* is on and slots remain.  SessionStore implements this module.           *)
(***************************************************************************)
EXTENDS SessionPhases, Integers, Sequences, FiniteSets

CONSTANTS
  Sessions,   \* session ids
  Keys,       \* keys of confirmed answers (question ids)
  Answers,    \* what a question can be answered with
  MaxSlots,   \* search slots a session may claim
  NoRow       \* stands for a session that does not exist yet

VARIABLES
  row,        \* the sessions table
  log         \* the session_events table: the events of a session by seq

ledgerVars == <<row, log>>

AnswerMaps == UNION { [ks -> Answers] : ks \in SUBSET Keys }

\* The columns the properties tell apart.
Rows == [ revision : Nat \ {0},
          phase    : Phases,
          answers  : AnswerMaps,
          allowed  : BOOLEAN ]

EventTypes == { "created", "permission_updated", "state_updated",
                "appended", "search_slot_claimed", "search_requested" }

\* An event; "allowed" is the permission a permission event records.
Events == [ type : EventTypes, allowed : BOOLEAN ]

\* The events written together with a change of the row.
StateEvents == { "permission_updated", "state_updated" }

Event(type, allowed) == [ type |-> type, allowed |-> allowed ]

\* Number of slots claimed in the log l.
SlotsUsed(l) ==
  Cardinality({ q \in DOMAIN l : l[q].type = "search_slot_claimed" })

-----------------------------------------------------------------------------

LedgerInit ==
  /\ row = [s \in Sessions |-> NoRow]
  /\ log = [s \in Sessions |-> << >>]

\* The row of s becomes a row of type Rows; the other rows stay.
RowChanges(s) ==
  /\ row'[s] \in Rows
  /\ row' = [row EXCEPT ![s] = row'[s]]

Logged(s, es) == log' = [log EXCEPT ![s] = @ \o es]

LedgerCreate(s) ==
  /\ row[s] = NoRow
  /\ RowChanges(s)
  /\ row'[s].revision = 1
  /\ row'[s].phase = DefaultPhase
  /\ Logged(s, << Event("created", row'[s].allowed) >>)

LedgerUpdate(s) ==
  /\ row[s] # NoRow
  /\ RowChanges(s)
  /\ row'[s].revision = row[s].revision + 1
  /\ CanTransition(row[s].phase, row'[s].phase)
  /\ DOMAIN row[s].answers \subseteq DOMAIN row'[s].answers
  /\ \/ /\ row'[s].allowed = row[s].allowed
        /\ Logged(s, << Event("state_updated", FALSE) >>)
     \/ /\ row'[s].phase = row[s].phase
        /\ row'[s].answers = row[s].answers
        /\ Logged(s, << Event("permission_updated", row'[s].allowed) >>)

LedgerAppend(s) ==
  /\ row[s] # NoRow
  /\ Logged(s, << Event("appended", FALSE) >>)
  /\ UNCHANGED row

LedgerClaim(s) ==
  /\ row[s] # NoRow
  /\ row[s].allowed
  /\ SlotsUsed(log[s]) < MaxSlots
  /\ Logged(s, << Event("search_slot_claimed", FALSE),
                  Event("search_requested", FALSE) >>)
  /\ UNCHANGED row

LedgerNext ==
  \E s \in Sessions :
    LedgerCreate(s) \/ LedgerUpdate(s) \/ LedgerAppend(s) \/ LedgerClaim(s)

LedgerSpec == LedgerInit /\ [][LedgerNext]_ledgerVars
=============================================================================
