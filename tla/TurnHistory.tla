---------------------------- MODULE TurnHistory -----------------------------
(***************************************************************************)
(* What one turn of the agent is sent: the tool history of the run, cut to *)
(* its newest whole turns, the recipes the model can still read in it, the *)
(* tools on offer, and the shape of the turn when the tokens run out       *)
(* (agent/loop.py).  Pure operators; AgentLoop has the turns themselves.   *)
(*                                                                         *)
(* An item of the history is [type, id, size, recipe]: size stands for its *)
(* length as JSON, recipe for the full recipe an output carries (NoRecipe  *)
(* for any other output, a short pointer included).                        *)
(***************************************************************************)
EXTENDS Integers, Sequences, FiniteSets, FiniteSetsExt

CONSTANTS
  HistoryKeep,         \* items kept whatever their size
  HistoryMaxItems,     \* items kept while they are small
  HistoryCharBudget,   \* how small
  NoRecipe, NoId

ASSUME HistoryAssumption ==
  /\ HistoryKeep \in Nat /\ HistoryMaxItems \in Nat /\ HistoryCharBudget \in Nat

ItemTypes == {"reasoning", "message", "function_call", "function_call_output", "user"}

IsCall(item)   == item.type = "function_call"
IsOutput(item) == item.type = "function_call_output"

-----------------------------------------------------------------------------
(* Turns of a history, and its newest ones.                                *)

\* A group begins where a call or its reasoning follows an output.
Opens(h, i) ==
  /\ i > 1
  /\ IsOutput(h[i - 1])
  /\ h[i].type \in {"function_call", "reasoning"}

GroupStarts(h) == { i \in DOMAIN h : i = 1 \/ Opens(h, i) }

ItemsFrom(h, s) == Len(h) - s + 1

SizeFrom(h, s) == MapThenSumSet(LAMBDA i : h[i].size, s .. Len(h))

\* The group at s may stay in front of the newer ones.  The newest stays
\* whatever it takes.
FitsFrom(h, s) ==
  \/ \A t \in GroupStarts(h) : t <= s
  \/ ItemsFrom(h, s) <= HistoryKeep
  \/ ItemsFrom(h, s) <= HistoryMaxItems /\ SizeFrom(h, s) <= HistoryCharBudget

\* From s on, every group fits.
AllFitFrom(h, s) == \A t \in GroupStarts(h) : t >= s => FitsFrom(h, t)

KeptFrom(h) ==
  CHOOSE s \in GroupStarts(h) :
    /\ AllFitFrom(h, s)
    /\ \A u \in GroupStarts(h) : AllFitFrom(h, u) => s <= u

CapHistory(h) ==
  IF Len(h) <= HistoryKeep THEN h ELSE SubSeq(h, KeptFrom(h), Len(h))

-----------------------------------------------------------------------------
(* What the loop appends.                                                  *)

\* The items of a turn with calls (as the provider returned them), then one
\* output for each call, in the order of the calls.
WithTurn(h, chain, outputs) == h \o chain \o outputs

\* A note to the model after a rejected directive.
WithNote(h, size) ==
  Append(h, [type |-> "user", id |-> NoId, size |-> size, recipe |-> NoRecipe])

-----------------------------------------------------------------------------
(* What is read from it before a turn is sent.                             *)

\* get_recipe answers a pointer for these (search_tools), a full recipe
\* for any other.
VisibleFullRecipes(h) ==
  { h[i].recipe : i \in { j \in DOMAIN h : IsOutput(h[j]) } } \ {NoRecipe}

CallsOf(h, id)   == { i \in DOMAIN h : IsCall(h[i]) /\ h[i].id = id }
OutputsOf(h, id) == { i \in DOMAIN h : IsOutput(h[i]) /\ h[i].id = id }

\* A history that violates the pairing is not sent at all.
PairingViolations(h) ==
  { id \in { h[i].id : i \in { j \in DOMAIN h : IsCall(h[j]) \/ IsOutput(h[j]) } } :
      \/ id = NoId
      \/ ~ \E i \in DOMAIN h : CallsOf(h, id) = {i}
      \/ ~ \E j \in DOMAIN h : OutputsOf(h, id) = {j} }

\* Tools on offer: not excluded earlier in the session, the web only with
\* the permission, the pairing tools only with their backend.
OfferedTools(tools, pairingTools, excluded, webAllowed, epicure) ==
  { t \in tools : /\ t \notin excluded
                  /\ t = "search_web" => webAllowed
                  /\ t \in pairingTools => epicure }

-----------------------------------------------------------------------------
(* Tokens.  A ceiling, what was used of it, an estimate of this turn, and  *)
(* the size of the last one (NoTurn before there is one).                  *)
NoTurn == -1

TokensLeft(inCeiling, usedIn, estIn, outCeiling, usedOut, minUseful) ==
  /\ usedIn + estIn < inCeiling
  /\ outCeiling - usedOut >= minUseful

TurnCap(configured, outCeiling, usedOut) ==
  IF configured <= outCeiling - usedOut THEN configured ELSE outCeiling - usedOut

\* The turn goes without tools if what is left after it does not cover two
\* more like the last one.
TokenGrowthFinal(inCeiling, usedIn, estIn, outCeiling, usedOut, turnCap, lastIn, lastOut) ==
  \/ lastIn # NoTurn /\ inCeiling - usedIn - estIn < 2 * lastIn
  \/ lastOut # NoTurn /\ outCeiling - usedOut - turnCap < 2 * lastOut

-----------------------------------------------------------------------------
(* Properties of the cut.                                                  *)

\* Every call has its one output after it, and every output its call.
Paired(h) ==
  /\ PairingViolations(h) = {}
  /\ \A i, j \in DOMAIN h :
       IsCall(h[i]) /\ IsOutput(h[j]) /\ h[i].id = h[j].id => i < j

\* No group begins between a call and its output.
TurnsWhole(h) ==
  \A i, j \in DOMAIN h :
    IsCall(h[i]) /\ IsOutput(h[j]) /\ h[i].id = h[j].id =>
      \A s \in GroupStarts(h) : ~(i < s /\ s <= j)
=============================================================================
