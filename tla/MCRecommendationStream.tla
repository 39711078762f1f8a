---------------------- MODULE MCRecommendationStream ----------------------
(***************************************************************************)
(* Instances of RecommendationStream for TLC: a good recipe beside one that *)
(* is good or in violation of a hard constraint.  The rules of *)
(* SelectionRules that recurse over a list, which no theorem reaches, are  *)
(* compared with their definitions on small lists, and the rules on words  *)
(* with those of the propositions.                                         *)
(***************************************************************************)
EXTENDS RecommendationStream, SelectionRules

CONSTANTS r1, r2, milk, chicken, egg, coconut_milk, vegan, keto

TwoRecipes ==
  { d \in [{r1, r2} -> {"good", "violates"}] : d[r1] = "good" }

OneList == [d \in {vegan} |-> {milk, chicken, egg}]

-----------------------------------------------------------------------------

Lists(S, n) == UNION { [1 .. k -> S] : k \in 0 .. n }
SizeOf(sizes, list) ==
  LET sum[n \in 0 .. Len(list)] == IF n = 0 THEN 0 ELSE sum[n - 1] + sizes[list[n]]
  IN sum[Len(list)]

\* prompts.fit_serialized keeps the ranked order, shows nothing that does not
\* fit, and leaves a source out only if there was no room for it beside the
\* better ones, or the whole would have been too long (total grows with it).
ASSUME FittingIsGreedy ==
  \A sizes \in Lists(1 .. 3, 4), room \in 0 .. 6, cap \in 0 .. 8 :
    LET total == [n \in 1 .. 4 |-> 2 * n]
        shown == FitSerially(sizes, room, total, cap)
        best  == Greedy(sizes, room)
        before(i) == SelectSeq(best, LAMBDA k : k < i)
    IN /\ InOrder(shown) /\ SizeOf(sizes, best) <= room
       /\ shown = SubSeq(best, 1, Len(shown))
       /\ Len(shown) < Len(best) => 2 * (Len(shown) + 1) > cap
       /\ shown # << >> => 2 * Len(shown) <= cap
       /\ \A i \in DOMAIN sizes :
            (i \notin { best[k] : k \in DOMAIN best }) <=>
              SizeOf(sizes, before(i)) + sizes[i] > room

\* Usage of several turns is known only if that of every turn is.
ASSUME UsageNeverInvented ==
  \A tokens \in Lists((0 .. 2) \cup {None}, 3) :
    (UsageTotal(tokens) = None) <=> (\E i \in DOMAIN tokens : tokens[i] = None)

\* An adapter that fails for one ingredient is reported as failing, and only a
\* consultation that failed nowhere counts as one (epicure.consult).
ASSUME PairingsAreComplete ==
  \A answers \in Lists([status : {"known", "unknown", "disabled", "failed"},
                         names : {{}, {"basil"}}], 3) :
    Consultation(TRUE, answers) \in {"consulted", "unmapped"} <=>
      (answers # << >> /\ Failing(answers) = {})

\* A listed milk is no coconut milk, in either rule on words.
ASSUME CompoundsStayApart ==
  LET coconut == [words |-> {milk}, phrases |-> {coconut_milk}]
      plain == [words |-> {milk}, phrases |-> {}]
  IN /\ ~MatchesListed(coconut, plain) /\ MatchesListed(plain, plain)
     /\ ~Contradicts(vegan, coconut) /\ Contradicts(vegan, plain)
     /\ ~Contradicts(keto, plain)

\* A client is told to try again only where another attempt can succeed: not
\* with a request that already met a hard constraint, and not with one whose
\* state has moved on.
ASSUME RetriesAreWorthIt ==
  /\ Retries \cap Changes = {} /\ "stale_revision" \notin Retries \cup Changes
  /\ NextAction("validation_rejected", "hard_constraint_violation") = "change_request"
  /\ \A p \in {"unknown_identity", "bad_reference", "step_coverage", "incomplete_source"} :
       NextAction("validation_rejected", p) = "retry"
=============================================================================
