--------------------------- MODULE MCFinishGates ---------------------------
(* An instance of FinishGates: a long clean recipe with raw meat and a     *)
(* short one with nuts and meat stock.  A summary shows one direction.     *)
(* And the rules of PlanQuantities on short lines about butter and sugar.  *)
EXTENDS FinishGates, PlanQuantities, TLC

CONSTANTS roast, satay, nuts, vegan, r1, r2
CONSTANTS butter, buttermilk, sugar, milk, soft, of_, oil, salt, prep, cup, ml, box

MCRecipes == {roast, satay}
MCHits == {MCRecipes}
MCBreaks == (roast :> {}) @@ (satay :> {nuts, vegan})
MCUnsure == (roast :> {vegan}) @@ (satay :> {})
MCRaw == {satay}
MCLength == (roast :> 2) @@ (satay :> 0)
MCLong == (roast :> {}) @@ (satay :> {})

\* One run does what a session needs, another one reads along.
MCCalls ==
  (r1 :> {"search_recipes", "get_recipe", "search_techniques", "find_pairings"})
  @@ (r2 :> {"get_recipe", "search_web"})

\* Good and bad finishes of every kind.
MCProposals ==
  { f \in OptionFinishes : f.honors /\ f.lines /\ f.note \in {"plain", "free"}
                           /\ f.measured \in {{}, f.options} }
  \cup { f \in PlanFinishes : f.admits = ~f.verbatim /\ Cardinality(f.unread) <= 1
                               /\ f.note # "unsupported" }
  \cup { f \in AnswerFinishes : f.lines /\ f.note = "plain" }
  \cup { f \in WebFinishes : f.listed }

\* A new session, and one with a diet and an answer.
MCSessions ==
  { [diets |-> {}, answers |-> {}],
    [diets |-> {vegan}, answers |-> {[to |-> "unrecorded", names |-> {nuts}]}] }

-----------------------------------------------------------------------------
(* Lines of plans.                                                         *)

MCAlike == { <<w, w>> : w \in {butter, buttermilk, sugar, milk, soft, of_, oil, salt, prep, box} }
MCGlued == {<<buttermilk, butter>>}
MCRemainder == <<buttermilk, butter>> :> milk

\* A line out of words, amounts <<value, unit>> and marks, ten places each.
LineOf(items, line) ==
  LET at(i) == 10 * i
      is(kind) == { i \in DOMAIN items : items[i][1] = kind }
      nth(S, k) == CHOOSE i \in S : Cardinality({ j \in S : j < i }) = k - 1
      ordered(S) == [k \in 1 .. Cardinality(S) |-> nth(S, k)]
      ws == ordered(is("word"))
      ns == ordered(is("amount"))
  IN [ line |-> line,
       words |-> [k \in DOMAIN ws |->
                   [word |-> items[ws[k]][2], start |-> at(ws[k]), end |-> at(ws[k]) + 9]],
       numbers |-> [k \in DOMAIN ns |->
                     [ value |-> items[ns[k]][2], unit |-> items[ns[k]][3], hyphen |-> FALSE,
                       next |-> {}, start |-> at(ns[k]), end |-> at(ns[k]) + 9 ]],
       marks |-> { [char |-> items[i][2], at |-> at(i)] : i \in is("mark") } ]

W(w) == <<"word", w>>
A(value, unit) == <<"amount", value, unit>>
Mk(c) == <<"mark", c>>

Entry(key, names, value, line) ==
  [ key |-> key, variants |-> names, structured |-> {<<value, cup>>}, prose |-> {},
    original |-> line ]

Cake(direction) ==
  [ entries |-> { Entry(butter, {<<butter>>}, 1, "butter line"),
                  Entry(sugar, {<<sugar>>}, 2, "sugar line") },
    directions |-> <<direction>> ]

NoText == LineOf(<< >>, "nothing")
StepsOf(texts, cites) ==
  [mise |-> {}, steps |-> texts, sources |-> cites, plating |-> {}]
Sound(items, doc) == PlanProseQuantityErrors(StepsOf(<<LineOf(items, "a step")>>, << >>), doc) = {}

\* An amount moved from one ingredient to another is found, whether the
\* amounts stand before or after the names and whatever separates them.
ASSUME SwapsAreFound ==
  \A a, b \in 1 .. 3 :
    LET right == a = 1 /\ b = 2 IN
    /\ Sound(<<A(a, cup), W(butter), Mk(","), A(b, cup), W(sugar)>>, Cake(NoText)) <=> right
    /\ Sound(<<A(a, cup), W(butter), A(b, cup), W(sugar)>>, Cake(NoText)) <=> right
    /\ Sound(<<W(butter), Mk(","), A(a, cup), Mk(","), W(sugar), Mk(","), A(b, cup)>>,
             Cake(NoText)) <=> right
    /\ Sound(<<W(butter), A(a, cup), W(sugar), A(b, cup)>>, Cake(NoText)) <=> right

\* One amount beside two names is of the nearer one; with a word of
\* preparation between it and the name after it, of that one.
ASSUME LeadsItsIngredient ==
  \A a \in 1 .. 3 :
    /\ Sound(<<W(sugar), Mk(","), A(a, cup), W(soft), W(butter)>>, Cake(NoText)) <=> a = 1
    /\ Sound(<<W(sugar), A(a, cup), W(oil), W(butter)>>, Cake(NoText)) <=> a = 2

\* The second amount of a parenthesis is of the same ingredient, so another
\* ingredient's amount in it is found.
ASSUME ParenthesisStaysWithIt ==
  \A b \in 1 .. 3 :
    Sound(<<A(1, cup), Mk("("), A(b, cup), Mk(")"), W(butter), W(sugar)>>, Cake(NoText))
      <=> b = 1

\* Buttermilk is butter only for a source that lists milk.
ASSUME BoundWordsStayApart ==
  LET milky == [Cake(NoText) EXCEPT !.entries = @ \cup {Entry(milk, {<<milk>>}, 3, "milk line")}]
  IN /\ ~Sound(<<A(1, cup), W(buttermilk)>>, Cake(NoText))
     /\ Sound(<<A(1, cup), W(buttermilk)>>, milky)

\* "of", a box or a word of preparation that two names share is no mention of
\* an ingredient, so an amount is never given to one by such a word.
ASSUME BareWordsNameNothing ==
  LET doc == [ entries |-> { Entry(butter, {<<prep, butter>>}, 1, "butter line"),
                             Entry(salt, {<<box, milk, of_, salt>>}, 2, "salt line") },
               directions |-> <<NoText>> ]
  IN /\ \A a \in 1 .. 3 :
          /\ Sound(<<A(a, cup), W(prep), W(salt)>>, doc) <=> a = 2
          /\ Sound(<<A(a, cup), W(prep)>>, doc) <=> a = 1
     /\ \A w \in {of_, box, oil} : ~Sound(<<A(2, cup), W(w)>>, doc)

\* An amount no ingredient stands by is accepted only out of the direction the
\* step cites, and an ingredient's only if that direction gives it to it.
ASSUME CitationsAreExact ==
  LET says(w) == LineOf(<<A(3, cup), W(w)>>, "a direction")
      step(w) == LineOf(<<A(3, cup), W(w)>>, "a step")
      sound(w, v, cites) ==
        PlanProseQuantityErrors(StepsOf(<<step(w)>>, cites), Cake(says(v))) = {}
  IN /\ sound(oil, oil, <<1>>) /\ ~sound(oil, oil, << >>) /\ ~sound(oil, oil, <<2>>)
     /\ sound(butter, butter, <<1>>) /\ ~sound(butter, sugar, <<1>>)

\* A line of the source passes as it stands.
ASSUME SourceLinesPass ==
  \A a \in 1 .. 3 :
    LET line == LineOf(<<A(a, cup), W(sugar)>>, "butter line")
    IN PlanProseQuantityErrors(StepsOf(<<line>>, << >>), Cake(NoText)) = {} <=> a = 1
=============================================================================
