----------------------------- MODULE SpendLedger -----------------------------
(***************************************************************************)
(* evals/phase3_agent/live_run.py: the ledger of one live run and the      *)
(* history file of its budget pool.  Money is a small number of units.  An *)
(* entry of the ledger is looked up by its label, which is unique among    *)
(* the open ones: here it is named by the caller that opened it.  Of the   *)
(* settled entries the totals are kept that anything reads again.          *)
(***************************************************************************)
EXTENDS Integers, FiniteSets, Functions

CONSTANTS
  Callers    \* who may have a call open: the model turn and the tools

CallKinds == {"chat", "embedding", "search"}

\* settled: the recorded_entry_usd of the settled entries together;
\* searches: those of them that count_search_dispatches counts.
Ledgers == [ ceiling   : Nat,
             remaining : Int,
             spent     : Nat,
             open      : [Callers -> Nat],
             settled   : Nat,
             searches  : Nat,
             breach    : BOOLEAN,    \* an entry is a reservation_breach
             exceeded  : BOOLEAN ]   \* ... or search_estimate_exceeded

NewLedger(ceiling) ==
  [ ceiling |-> ceiling, remaining |-> ceiling, spent |-> 0, open |-> [c \in Callers |-> 0],
    settled |-> 0, searches |-> 0, breach |-> FALSE, exceeded |-> FALSE ]

OpenTotal(l) == SumFunctionOnSet(l.open, Callers)

\* reserve and reserve_search refuse what does not fit.
Affordable(l, cost) == cost <= l.remaining

Reserved(l, c, cost) ==
  [l EXCEPT !.remaining = @ - cost, !.open[c] = cost]

\* An entry is settled at an amount, which the history will count.
Settled(l, c, kind, used) ==
  [l EXCEPT !.open[c] = 0,
            !.spent = @ + used,
            !.settled = @ + used,
            !.searches = IF kind = "search" THEN @ + 1 ELSE @]

\* keep, and what sweep_reserved does to one entry: the reservation is
\* spent, nothing flows back.
Kept(l, c, kind) == Settled(l, c, kind, l.open[c])

\* Mutant of Reconciled: the whole reservation flows back.
ReconciledFreely(l, c, kind, used) ==
  [Settled(l, c, kind, used) EXCEPT !.remaining = @ + l.open[c]]

\* reconcile and reconcile_search with reported usage, record_breach too:
\* the rest of the reservation flows back, or the excess is taken.
Reconciled(l, c, kind, used) ==
  [Settled(l, c, kind, used) EXCEPT
     !.remaining = @ + l.open[c] - used,
     !.breach = @ \/ (kind # "search" /\ used > l.open[c]),
     !.exceeded = @ \/ (kind = "search" /\ used > l.open[c])]

\* Nothing was sent: the reservation flows back and counts for nothing.
Released(l, c) == [l EXCEPT !.remaining = @ + l.open[c], !.open[c] = 0]

-----------------------------------------------------------------------------
(* The history of the pool: recorded_spend_total, count_campaign_searches  *)
(* and the unacknowledged breaches of the runs it lists.                   *)

Histories == [ spent : Nat, searches : Nat, breach : BOOLEAN, exceeded : BOOLEAN ]

NoHistory == [spent |-> 0, searches |-> 0, breach |-> FALSE, exceeded |-> FALSE]

\* append_spend_history.
Appended(h, l) ==
  [ spent |-> h.spent + l.settled,
    searches |-> h.searches + l.searches,
    breach |-> h.breach \/ l.breach,
    exceeded |-> h.exceeded \/ l.exceeded ]
=============================================================================
