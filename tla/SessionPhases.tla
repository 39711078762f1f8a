--------------------------- MODULE SessionPhases ---------------------------
(***************************************************************************)
(* The cooking phases of a session, the moves allowed between them and the *)
(* merge of confirmed answers (domain/sessions.py).  Pure definitions,     *)
(* shared by the store and by the agent loop.                              *)
(***************************************************************************)

\* The moves allowed out of each phase, as data.
AllowedTransitions ==
  [ discover  |-> {"clarify", "research", "recommend"},
    clarify   |-> {"research", "recommend", "discover"},
    research  |-> {"recommend", "clarify"},
    recommend |-> {"select", "plan", "clarify"},
    select    |-> {"plan", "recommend"},
    plan      |-> {"cook", "select", "recommend"},
    cook      |-> {"plate", "plan"},
    plate     |-> {} ]

Phases == { "discover", "clarify", "research", "recommend",
            "select", "plan", "cook", "plate" }

DefaultPhase == "discover"

\* Staying in a phase is always a legal move.
CanTransition(from, to) ==
  from = to \/ to \in AllowedTransitions[from]

(***************************************************************************)
(* Confirmed answers are a function from question keys to answers, the     *)
(* order of the list left out.  Every stored answer survives; an incoming  *)
(* one with the same key replaces it.  (Only a create may store a key      *)
(* twice: api/sessions.py hands its list over unmerged.  Here the function *)
(* holds the answer that counts.)                                          *)
(***************************************************************************)
MergeConfirmedAnswers(stored, incoming) ==
  [ k \in DOMAIN stored \cup DOMAIN incoming |->
      IF k \in DOMAIN incoming THEN incoming[k] ELSE stored[k] ]
=============================================================================
