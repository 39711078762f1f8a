---------------------------- MODULE PlanQuantities ----------------------------
(***************************************************************************)
(* agent/plan_quantities.py: every mass or volume in the text of a plan is *)
(* attributed to an ingredient of the source, which must state it.         *)
(*                                                                         *)
(* A text is [line, words, numbers, marks]: its normal form, its words and *)
(* its numbers with a unit, each from where to where in the text, and its  *)
(* punctuation.  A document is [entries, directions], an entry [key,       *)
(* variants, structured, prose, original]: the key it is grouped by, its   *)
(* names as words, its amounts by field and by text, its own line.         *)
(***************************************************************************)
EXTENDS Integers, Sequences, FiniteSets

CONSTANTS
  MeasureUnits,     \* PROSE_MEASURE_UNITS: masses and volumes
  EquipmentWords,   \* EQUIPMENT_WORDS, singular and plural
  FunctionWords, ContainerWords, NumberWords,
  DescriptorWords, PrepWords,
  Alike,            \* pairs of words that differ in their plural at most
  Glued,            \* pairs of long words one of which begins with the other
  Remainder,        \* what the longer word of such a pair adds
  Nobody            \* no ingredient, no direction

ASSUME QuantitiesAssumption == PrepWords \subseteq DescriptorWords

-----------------------------------------------------------------------------
(* Amounts of a text.                                                      *)

\* "a 12-cup muffin tin" is no amount of an ingredient: [hyphen] is set for a
\* number joined to its unit, and [next] is the pair of words after it.
EquipmentSize(n) == n.hyphen /\ n.next \cap EquipmentWords # {}

IsAmount(n) == n.unit \in MeasureUnits /\ ~EquipmentSize(n)
Amounts(text) == SelectSeq(text.numbers, IsAmount)

Measure(n) == <<n.value, n.unit>>
Measures(text) == { Measure(n) : n \in { Amounts(text)[k] : k \in DOMAIN Amounts(text) } }

\* Inside one pair of parentheses.
Parenthetical(text, n) ==
  LET at(c) == { m.at : m \in { x \in text.marks : x.char = c } }
      before == { p \in at("(") : p < n.start }
      after  == { p \in at(")") : p >= n.end }
  IN /\ before # {} /\ after # {}
     /\ \E o \in before, c \in after :
          /\ \A p \in before : p <= o
          /\ \A p \in after : p >= c
          /\ ~\E p \in at(")") : o < p /\ p < n.start
          /\ ~\E p \in at("(") : n.end <= p /\ p < c

-----------------------------------------------------------------------------
(* What the source states.                                                 *)

Groups(doc) == { e.key : e \in doc.entries }
Members(doc, g) == { e \in doc.entries : e.key = g }
Variants(doc, g) == UNION { e.variants : e \in Members(doc, g) }
Stated(doc, g) ==
  UNION { e.structured \cup UNION { Measures(t) : t \in e.prose } : e \in Members(doc, g) }

\* The ingredients whose own line a text repeats.
DirectGroups(doc, text) == { e.key : e \in { x \in doc.entries : x.original = text.line } }

-----------------------------------------------------------------------------
(* Mentions: runs of words of a text that are a run of an ingredient's     *)
(* name.  Words of an amount are not available.                            *)

NamesNothing == FunctionWords \cup ContainerWords \cup NumberWords

AllTokens(doc) ==
  UNION { UNION { { v[i] : i \in DOMAIN v } : v \in Variants(doc, g) } : g \in Groups(doc) }

\* "buttersoftened" is butter; "buttermilk" is only where milk is listed too.
TokensMatch(w, v, all) ==
  \/ <<w, v>> \in Alike
  \/ /\ <<w, v>> \in Glued
     /\ \/ Remainder[<<w, v>>] \in PrepWords
        \/ \E t \in all : <<Remainder[<<w, v>>], t>> \in Alike

Blocked(text, i) ==
  \E k \in DOMAIN Amounts(text) :
    /\ text.words[i].start < Amounts(text)[k].end
    /\ text.words[i].end > Amounts(text)[k].start

MatchesFor(text, v, i, j, n, all) ==
  \A k \in 0 .. n - 1 :
    /\ i + k \in DOMAIN text.words /\ j + k \in DOMAIN v /\ ~Blocked(text, i + k)
    /\ TokensMatch(text.words[i + k].word, v[j + k], all)

\* The last word of a name that says what it is of.
HeadOf(v) ==
  LET says == { i \in DOMAIN v : v[i] \notin DescriptorWords \cup NamesNothing }
  IN IF says = {} THEN Len(v) ELSE CHOOSE i \in says : \A j \in says : j <= i

Mention(text, g, v, i, j, n) ==
  [ group |-> g, start |-> text.words[i].start, end |-> text.words[i + n - 1].end,
    length |-> n,
    exact |-> \A k \in 0 .. n - 1 : <<text.words[i + k].word, v[j + k]>> \in Alike,
    descriptive |-> /\ HeadOf(v) \notin j .. j + n - 1
                    /\ \A k \in 0 .. n - 1 : text.words[i + k].word \in DescriptorWords ]

AllMentions(text, doc) ==
  UNION { UNION { { Mention(text, g, v, r[1], r[2], r[3]) :
      r \in { x \in (DOMAIN text.words) \X (DOMAIN v) \X (1 .. Len(v)) :
                /\ text.words[x[1]].word \notin NamesNothing
                /\ v[x[2]] \notin NamesNothing
                /\ MatchesFor(text, v, x[1], x[2], x[3], AllTokens(doc))
                /\ ~MatchesFor(text, v, x[1], x[2], x[3] + 1, AllTokens(doc)) } }
    : v \in Variants(doc, g) } : g \in Groups(doc) }

\* A mere "chopped" counts only if no other ingredient is named.
Mentions(text, doc) ==
  LET telling == { m \in AllMentions(text, doc) : ~m.descriptive }
  IN IF telling = {} THEN AllMentions(text, doc) ELSE telling

-----------------------------------------------------------------------------
(* Attribution of an amount n.                                             *)

Distance(n, m) ==
  IF n.end <= m.start THEN m.start - n.end
  ELSE IF m.end <= n.start THEN n.start - m.end ELSE 0

\* Nearer, then longer, then exact.
AtLeastAsNear(n, m, o) ==
  \/ Distance(n, m) < Distance(n, o)
  \/ Distance(n, m) = Distance(n, o) /\ m.length > o.length
  \/ /\ Distance(n, m) = Distance(n, o) /\ m.length = o.length
     /\ o.exact => m.exact

Nearest(n, mentions) ==
  LET outside == { m \in mentions : ~(n.start <= m.start /\ m.end <= n.end) }
  IN { m.group : m \in { x \in outside : \A o \in outside : AtLeastAsNear(n, x, o) } }

\* ", 3 tbsp softened butter": the amount leads the ingredient after it.
Forward(text, n, mentions) ==
  LET after  == { m \in mentions : m.start >= n.end }
      before == { m \in mentions : m.start < n.end /\ m.end <= n.start }
      first  == { m \in after : \A o \in after : m.start <= o.start }
      leads(m) ==
        /\ \E x \in text.marks :
             x.char \in {",", ";"} /\ x.at < n.start /\ (\A b \in before : x.at >= b.end)
        /\ ~\E x \in text.marks : n.end <= x.at /\ x.at < m.start
        /\ \A i \in DOMAIN text.words :
             n.end <= text.words[i].start /\ text.words[i].end <= m.start =>
               text.words[i].word \in DescriptorWords \cup FunctionWords
  IN IF before # {} /\ Cardinality({ m.group : m \in first }) = 1 /\ (\A m \in first : leads(m))
     THEN { m.group : m \in first } ELSE {}

\* As many ingredients as amounts, each named first in another place.
EarliestOf(g, mentions) ==
  LET starts == { m.start : m \in { x \in mentions : x.group = g } }
  IN CHOOSE s \in starts : \A o \in starts : s <= o

InOrderOfNames(text, k, mentions) ==
  LET named == { m.group : m \in mentions }
      place(g) == Cardinality({ h \in named : EarliestOf(h, mentions) < EarliestOf(g, mentions) })
  IN IF /\ Len(Amounts(text)) = Cardinality(named) /\ Cardinality(named) > 1
        /\ Cardinality({ EarliestOf(g, mentions) : g \in named }) = Cardinality(named)
     THEN { g \in named : place(g) = k - 1 } ELSE {}

\* The ingredients the kth amount may be of; last is that of the one before.
Attributed(doc, text, k, last) ==
  LET n == Amounts(text)[k]
      mentions == Mentions(text, doc)
      direct == DirectGroups(doc, text)
  IN IF Cardinality(direct) = 1 THEN direct
     ELSE IF Parenthetical(text, n) /\ last # Nobody THEN {last}
     ELSE IF InOrderOfNames(text, k, mentions) # {} THEN InOrderOfNames(text, k, mentions)
     ELSE IF Forward(text, n, mentions) # {} THEN Forward(text, n, mentions)
     ELSE Nearest(n, mentions)

-----------------------------------------------------------------------------
(* The check.                                                              *)

\* A line that lists several ingredients: what any of them states.
UnionStated(doc, text) ==
  IF Cardinality(DirectGroups(doc, text)) > 1
  THEN UNION { Stated(doc, g) : g \in DirectGroups(doc, text) } ELSE {}

Stating(doc, groups, n) == { g \in groups : Measure(n) \in Stated(doc, g) }

DirectionSupports(doc, direction, n, g) ==
  \E k \in DOMAIN Amounts(direction) :
    /\ Measure(Amounts(direction)[k]) = Measure(n)
    /\ Nearest(Amounts(direction)[k], Mentions(direction, doc)) = {g}

\* cited: the direction a step cites, or Nobody.
Stands(doc, text, cited, k, last) ==
  LET n == Amounts(text)[k]
      groups == Attributed(doc, text, k, last)
  IN \/ Measure(n) \in UnionStated(doc, text)
     \/ Stating(doc, groups, n) # {}
     \/ /\ cited # Nobody
        /\ \/ groups = {} /\ Measure(n) \in Measures(cited)
           \/ \E g \in groups : groups = {g} /\ DirectionSupports(doc, cited, n, g)

\* The ingredient of the kth amount, for a parenthesis after it.
LastGroup(doc, text) ==
  LET of[k \in 0 .. Len(Amounts(text))] ==
        IF k = 0 THEN Nobody
        ELSE LET n == Amounts(text)[k]
                 groups == Attributed(doc, text, k, of[k - 1])
                 certain == IF Cardinality(groups) = 1 THEN groups ELSE Stating(doc, groups, n)
             IN IF Measure(n) \notin UnionStated(doc, text) /\ Cardinality(certain) = 1
                THEN CHOOSE g \in certain : TRUE ELSE Nobody
  IN of

CitedBy(doc, plan, i) ==
  IF i \in DOMAIN plan.sources /\ plan.sources[i] \in DOMAIN doc.directions
  THEN doc.directions[plan.sources[i]] ELSE Nobody

\* Every text of the plan with what it cites; a step that copies the direction
\* it cites is not looked at.
CheckedTexts(doc, plan) ==
  { [text |-> t, cited |-> Nobody] : t \in plan.mise \cup plan.plating }
  \cup { [text |-> plan.steps[i], cited |-> CitedBy(doc, plan, i)] :
           i \in { x \in DOMAIN plan.steps :
                     CitedBy(doc, plan, x) # Nobody =>
                       CitedBy(doc, plan, x).line # plan.steps[x].line } }

\* What a rejected amount is reported as.
Complaint(doc, text, k) ==
  LET groups == Attributed(doc, text, k, LastGroup(doc, text)[k - 1])
  IN CASE Cardinality(groups) > 1 -> "ambiguous"
       [] groups = {} -> "no such ingredient"
       [] \E g \in groups : groups = {g} /\ Stated(doc, g) # {} -> "other amount"
       [] OTHER -> "no amount stated"

PlanProseQuantityErrors(plan, doc) ==
  UNION { { [text |-> c.text, amount |-> k, complaint |-> Complaint(doc, c.text, k)] :
              k \in { x \in DOMAIN Amounts(c.text) :
                        ~Stands(doc, c.text, c.cited, x, LastGroup(doc, c.text)[x - 1]) } }
          : c \in CheckedTexts(doc, plan) }
=============================================================================
