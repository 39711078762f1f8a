---------------------------- MODULE MCAgentLoop ----------------------------
(* Instances of AgentLoop for TLC.  Runs are interchangeable.  What the    *)
(* turns of a run are sent is checked here on every history of up to three *)
(* turns of a few shapes, against the loop as it is written.               *)
EXTENDS AgentLoop, TurnHistory

RunSymmetry == Permutations(Runs)

-----------------------------------------------------------------------------
Shapes == [calls : 0 .. 2, size : {1, 4}, note : BOOLEAN] \ [calls : {0}, size : {1, 4}, note : {FALSE}]

Item(type, id, size, recipe) == [type |-> type, id |-> id, size |-> size, recipe |-> recipe]

\* Turn k: reasoning, its calls, their outputs, and a note if it was rejected.
TurnItems(k, shape) ==
  LET calls   == [ c \in 1 .. shape.calls |-> Item("function_call", <<k, c>>, 1, NoRecipe) ]
      outputs == [ c \in 1 .. shape.calls |->
                     Item("function_call_output", <<k, c>>, shape.size,
                          IF shape.size = 4 THEN <<k, c>> ELSE NoRecipe) ]
      turn    == WithTurn(<< >>,
                          IF shape.calls = 0 THEN << >>
                          ELSE <<Item("reasoning", NoId, 1, NoRecipe)>> \o calls,
                          outputs)
  IN IF shape.note THEN WithNote(turn, 1) ELSE turn

RECURSIVE HistoryOf(_, _)
HistoryOf(k, shapes) ==
  IF shapes = << >> THEN << >>
  ELSE TurnItems(k, Head(shapes)) \o HistoryOf(k + 1, Tail(shapes))

Histories == { HistoryOf(1, shapes) : shapes \in UNION { [1 .. n -> Shapes] : n \in 0 .. 3 } }

\* _cap_history as it is written: from the newest group on, while it fits.
RECURSIVE KeptLoop(_, _, _)
KeptLoop(h, starts, kept) ==
  IF starts = {} THEN kept
  ELSE LET s == CHOOSE t \in starts : \A u \in starts : u <= t
       IN IF /\ kept # 0
             /\ Len(h) - s + 1 > HistoryKeep
             /\ \/ Len(h) - s + 1 > HistoryMaxItems
                \/ SizeFrom(h, s) > HistoryCharBudget
          THEN kept
          ELSE KeptLoop(h, starts \ {s}, s)

\* What is kept is what the loop keeps, and the newest turn with it.
ASSUME CapIsTheLoop ==
  \A h \in Histories :
    /\ Len(h) > HistoryKeep => KeptFrom(h) = KeptLoop(h, GroupStarts(h), 0)
    /\ Len(h) > 0 => CapHistory(h)[Len(CapHistory(h))] = h[Len(h)]
    /\ CapHistory(CapHistory(h)) = CapHistory(h)

\* It can be sent, and is small unless one turn alone is not.
ASSUME CapIsSendable ==
  \A h \in Histories :
    LET g == CapHistory(h)
    IN /\ Paired(h) /\ TurnsWhole(h)
       /\ Paired(g) /\ TurnsWhole(g)
       /\ Len(g) <= HistoryMaxItems \/ Cardinality(GroupStarts(g)) = 1
       /\ VisibleFullRecipes(g) \subseteq VisibleFullRecipes(h)
=============================================================================
