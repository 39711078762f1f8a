---------------------------- MODULE ResponseRules ----------------------------
(***************************************************************************)
(* What becomes of one answer of the model in the batch pipeline: it is    *)
(* validated against the numbered source it cites, merged into what the    *)
(* parser already knew, and loaded or kept back (recipes/llm_validate.py,  *)
(* source_scope.py, quality.py and cmd_finalize of llm_batch.py).          *)
(*                                                                         *)
(* A line is its number.  What its text says is given by the source: the   *)
(* numbers and the units it evidences, and whether it is an ambiguous      *)
(* scrape.  An excerpt or a name is the verdict of its comparison.         *)
(***************************************************************************)
EXTENDS SourceRouting

CONSTANTS
  Texts,    \* numbers of texts: lines of sources, fragments of the parser
  Units,    \* canonical units, of which "count" and "container" are two
  None,     \* no value
  Bad       \* a value that is no positive number, a unit of no vocabulary

ASSUME ResponseAssumption ==
  /\ Texts \subseteq Nat
  /\ {"count", "container"} \subseteq Units
  /\ None \notin Int \cup Units /\ Bad \notin Int \cup Units /\ None # Bad

-----------------------------------------------------------------------------
(* The source: its lines, and what each of them supports.                  *)

Sources == [ lines : SUBSET Texts,            \* those the model was shown
             numbers : [Texts -> SUBSET Nat],
             units : [Texts -> SUBSET Units],
             glued : SUBSET Texts,            \* ambiguous_gram_glue
             servings : SUBSET (Nat \X Nat),  \* spans of servings statements
             yields : SUBSET Nat ]            \* explicit finished-item counts

AmountEvidenced(src, line, numbers) ==
  line \in src.lines /\ numbers \subseteq src.numbers[line]

UnitEvidenced(src, line, unit) ==
  line \in src.lines /\ unit \in src.units[line]

ServingsFit(src, n) == \E span \in src.servings : span[1] <= n /\ n <= span[2]

-----------------------------------------------------------------------------
(* The problems of one answer.                                             *)

\* check_evidence.
EvidenceProblems(src, part) ==
  IF part.refs = {} \/ part.quoted = "nothing"
  THEN {"missing_evidence"}
  ELSE When(~(part.refs \subseteq src.lines), "evidence_unknown_line")
       \cup When(part.quoted = "elsewhere", "fabricated_evidence")

\* An amount text: the numbers in it, and whether it is just one of them.
Unparsed(item) == item.value = None /\ item.numbers # {}

AmountProblems(item) ==
  When(Unparsed(item) /\ (item.range \/ item.uncertain), "quantity_uncertain")
  \cup When(Unparsed(item) /\ ~item.range /\ ~item.uncertain, "quantity_unresolved")
  \cup When(item.value # None /\ item.exact /\ item.numbers # {item.value},
            "amount_inconsistent")

\* An amount that is no number ends the checks of its item.
UnitProblems(src, item) ==
  When(item.unit = Bad, "unsupported_unit")
  \cup When(item.unit = "container" /\ ~UnitEvidenced(src, item.line, "container"),
            "unsupported_unit")
  \cup When(item.unit \in Units \ {"count", "container"}
              /\ ~UnitEvidenced(src, item.line, item.unit), "unit_unsupported_by_line")

TextProblems(src, item) ==
  When(item.measured, "name_contains_measure")
  \cup When(item.value # None /\ item.numbers # {}
              /\ ~AmountEvidenced(src, item.line, item.numbers),
            "amount_unsupported_by_line")
  \cup When(item.invents, "invented_alternative")

ItemProblems(src, item) ==
  When(item.line \notin src.lines, "evidence_unknown_line")
  \cup EvidenceProblems(src, item)
  \cup (IF item.value = Bad THEN {"nonfinite_amount"}
        ELSE AmountProblems(item) \cup UnitProblems(src, item) \cup TextProblems(src, item))

StepProblems(src, step) ==
  When(step.line \notin src.lines, "evidence_unknown_line")
  \cup EvidenceProblems(src, step)
  \cup When(step.line \in src.lines /\ ~step.verbatim, "step_paraphrase")

HeadingProblems(src, heading) ==
  When(heading.line \notin src.lines, "evidence_unknown_line")
  \cup EvidenceProblems(src, heading)

Covered(parts) == { parts[i].line : i \in DOMAIN parts }

\* The answer is about the source, the hash and the versions asked for.
IdentityProblems(resp) ==
  When(~resp.sameId, "identity_mismatch")
  \cup When(~resp.sameHash, "stale_source")
  \cup When(~resp.sameVersions, "stale_configuration")

PartProblems(src, resp) ==
  UNION ({ ItemProblems(src, resp.ingredients[i]) : i \in DOMAIN resp.ingredients }
         \cup { StepProblems(src, resp.steps[i]) : i \in DOMAIN resp.steps }
         \cup { HeadingProblems(src, resp.headings[i]) : i \in DOMAIN resp.headings })

OrderProblems(src, resp) ==
  When(\E i, j \in DOMAIN resp.steps :
         /\ i < j /\ resp.steps[j].line < resp.steps[i].line
         /\ {resp.steps[i].line, resp.steps[j].line} \subseteq src.lines,
       "instruction_order_violation")
  \cup When(~(resp.unclassified \subseteq src.lines), "evidence_unknown_line")

\* The lines whose interpretation was asked for: those of the request, all
\* ingredient lines if it named none.
Required(ask) == IF ask.requested = None THEN ask.ingredients ELSE ask.requested

\* Lines the parser did not settle must come back, or be given up by name.
CoverageProblems(ask, base, resp) ==
  When(~(Required(ask) \subseteq Covered(resp.ingredients)), "ingredient_coverage_gap")
  \cup When(~base.hasSteps /\ resp.steps = << >> /\ resp.status # "not_a_recipe",
            "steps_unresolved")
  \cup When(~base.hasSteps
              /\ ~(ask.steps \subseteq Covered(resp.steps) \cup resp.unclassified),
            "instruction_coverage_gap")
  \cup When(~base.hasGroups
              /\ ~(ask.headings \subseteq Covered(resp.headings) \cup resp.unclassified),
            "heading_coverage_gap")
  \cup When(~(ask.prose \subseteq Covered(resp.ingredients) \cup Covered(resp.steps)
                \cup Covered(resp.headings) \cup resp.unclassified \cup resp.told),
            "prose_coverage_gap")

\* Claims about the whole recipe.
ClaimProblems(src, base, resp) ==
  When(base.servings # None /\ resp.servings # None /\ resp.servings # base.servings,
       "deterministic_conflict")
  \cup When(base.yield # None /\ resp.yield # None /\ resp.yield # base.yield,
            "deterministic_conflict")
  \cup When(resp.servings # None /\ src.servings = {}, "invented_servings")
  \cup When(resp.servings # None /\ src.servings # {} /\ ~ServingsFit(src, resp.servings),
            "servings_mismatch")
  \cup When(resp.servings # None /\ resp.servings <= 0, "nonpositive_amount")
  \cup When(resp.yield # None /\ src.yields = {}, "invented_batch_yield")
  \cup When(resp.yield # None /\ src.yields # {} /\ resp.yield \notin src.yields,
            "batch_yield_mismatch")

OtherProblems(src, resp) ==
  When(~resp.tempsKnown, "unsupported_temperature")
  \cup When(resp.url, "invented_url")
  \cup When(resp.status = "not_a_recipe" /\ resp.boundary = None, "missing_boundary")
  \cup When(resp.boundary # None /\ resp.boundary \notin src.lines, "evidence_unknown_line")

EmptyProblem(ask, base, resp) ==
  When(/\ resp.status = "resolved"
       /\ resp.ingredients = << >> /\ resp.steps = << >> /\ resp.headings = << >>
       /\ ~(ask.requested = {} /\ base.parsed),
       "empty_extraction")

Problems(src, ask, base, resp) ==
  IdentityProblems(resp) \cup PartProblems(src, resp) \cup OrderProblems(src, resp)
  \cup CoverageProblems(ask, base, resp) \cup ClaimProblems(src, base, resp)
  \cup OtherProblems(src, resp) \cup EmptyProblem(ask, base, resp)

-----------------------------------------------------------------------------
(* The verdict.                                                            *)

Fatal == { "identity_mismatch", "stale_source", "stale_configuration",
           "fabricated_evidence", "invented_servings", "invented_batch_yield",
           "invented_url" }

Major == { "schema_invalid", "nonfinite_amount", "nonpositive_amount",
           "amount_inconsistent", "amount_unsupported_by_line",
           "unit_unsupported_by_line", "unsupported_unit",
           "unsupported_temperature", "invented_alternative",
           "missing_evidence", "evidence_unknown_line", "servings_mismatch",
           "batch_yield_mismatch", "missing_boundary",
           "instruction_order_violation", "name_contains_measure",
           "deterministic_conflict", "step_paraphrase", "empty_extraction" }

Gaps == { "ingredient_coverage_gap", "instruction_coverage_gap",
          "heading_coverage_gap", "steps_unresolved", "quantity_unresolved",
          "quantity_uncertain" }

HonestlyUncertain(resp) ==
  \/ \E i \in DOMAIN resp.ingredients : resp.ingredients[i].uncertain
  \/ \E i \in DOMAIN resp.steps : resp.steps[i].uncertain

Result(verdict, retry, load) == [verdict |-> verdict, retry |-> retry, load |-> load]

\* The ladder, from the problems found.
Verdict(problems, status, uncertain, oneLine) ==
  CASE problems \cap Fatal # {} -> Result("rejected_validation", FALSE, FALSE)
    [] problems \cap Fatal = {} /\ problems \cap Major # {} ->
         Result("rejected_validation", TRUE, FALSE)
    [] problems \cap (Fatal \cup Major) = {} /\ status = "not_a_recipe" ->
         Result("not_a_recipe", FALSE, FALSE)
    [] problems \cap (Fatal \cup Major) = {} /\ status # "not_a_recipe" /\ oneLine ->
         Result("accepted_partial", FALSE, FALSE)
    [] OTHER ->
         IF problems \cap Gaps # {} \/ uncertain \/ status # "resolved"
         THEN Result("accepted_partial", FALSE, TRUE)
         ELSE Result("accepted", FALSE, TRUE)

\* An answer that is no ExtractionResponse at all may be asked for again.
ValidateResponse(src, ask, base, resp) ==
  IF resp = Bad
  THEN Result("rejected_validation", TRUE, FALSE)
  ELSE Verdict(Problems(src, ask, base, resp), resp.status, HonestlyUncertain(resp),
               ~base.parsed /\ Cardinality(src.lines) = 1)

-----------------------------------------------------------------------------
(* The merge.                                                              *)

\* An occurrence the parser could not settle.
NeedsInterpretation(occ) ==
  (occ.amount = None /\ ~occ.qualitative) \/ occ.unclear

\* What cmd_finalize tells the validator of the parser's result.  It hands
\* over the count of the batch yield under a name the validator does not
\* read, so to the validator no yield is ever settled.
Baseline(det) ==
  [ parsed |-> det.parsed, servings |-> det.servings, yield |-> None,
    hasSteps |-> det.hasSteps, hasGroups |-> det.hasGroups ]

\* Interpretations of lines nobody asked about are dropped.
InScope(ask, resp) ==
  { i \in DOMAIN resp.ingredients :
      ask.requested = None \/ resp.ingredients[i].line \in ask.requested }

\* The parser's occurrence of the line, if just one item interprets it.
Prior(ask, resp, det, i) ==
  { occ \in det.occurrences :
      /\ occ.line = resp.ingredients[i].line
      /\ \A j \in InScope(ask, resp) : resp.ingredients[j].line = occ.line => j = i }

OnlyOf(values) == IF values = {} THEN None ELSE CHOOSE v \in values : TRUE

\* The model's value first; a settled amount or unit is never erased.
MergedAmount(item, prior) ==
  IF item.value # None THEN item.value
  ELSE OnlyOf({ occ.amount : occ \in { o \in prior : ~NeedsInterpretation(o) } })

MergedUnit(item, prior) ==
  LET settled == OnlyOf({ occ.unit : occ \in prior }) IN
  IF item.unit \in Units THEN item.unit
  ELSE IF settled # None THEN settled ELSE item.word

MergedItem(ask, resp, det, i) ==
  LET item == resp.ingredients[i] IN
  [ line |-> item.line, text |-> item.line,
    amount |-> MergedAmount(item, Prior(ask, resp, det, i)),
    unit |-> MergedUnit(item, Prior(ask, resp, det, i)),
    qualitative |-> item.qualitative, uncertain |-> item.uncertain,
    numbered |-> item.numbered, origin |-> "llm" ]

KeptItem(occ) ==
  [ line |-> occ.line, text |-> occ.text, amount |-> occ.amount, unit |-> occ.unit,
    qualitative |-> occ.qualitative, uncertain |-> FALSE,
    numbered |-> occ.numbered, origin |-> "deterministic" ]

\* Line by line: what the model interprets replaces the parser's occurrence.
MergedIngredients(ask, resp, det) ==
  { MergedItem(ask, resp, det, i) : i \in InScope(ask, resp) }
  \cup { KeptItem(occ) : occ \in
           { o \in det.occurrences :
               \A i \in InScope(ask, resp) : resp.ingredients[i].line # o.line } }

\* Amounts and units may be relied on: the verdict is clean and every
\* ingredient has both, or needs none.
QuantitiesKnown(ingredients, verdict) ==
  /\ verdict = "accepted"
  /\ ingredients # {}
  /\ \A g \in ingredients :
       /\ ~g.numbered
       /\ g.qualitative \/ (g.amount # None /\ ~g.uncertain)
       /\ g.amount # None => g.qualitative \/ (g.unit # None /\ ~g.uncertain)

\* capabilities_for, of a merged recipe: anything but a clean verdict and
\* clean names is a structural issue.
Capabilities(ingredients, hasSteps, servings, hasDurations, verdict) ==
  LET searchable == ingredients # {} /\ hasSteps
      known      == QuantitiesKnown(ingredients, verdict)
      issue      == verdict # "accepted" \/ \E g \in ingredients : g.numbered
      complete   == searchable /\ servings # None /\ hasDurations /\ ~issue /\ known
  IN [ searchable |-> searchable, quantities |-> searchable /\ known,
       complete |-> complete, scalable |-> complete ]

\* A settled field is the parser's, any other the model's.
MergeResponse(ask, resp, det, verdict) ==
  LET ingredients == MergedIngredients(ask, resp, det)
      hasSteps    == det.hasSteps \/ resp.steps # << >>
      servings    == IF det.servings # None THEN det.servings ELSE resp.servings
      durations   == det.hasDurations \/ resp.hasDurations
  IN [ ingredients |-> ingredients, hasSteps |-> hasSteps, servings |-> servings,
       yield |-> IF det.yield # None THEN det.yield ELSE resp.yield,
       titled |-> det.titled \/ resp.titled,
       headings |-> det.headings \cup resp.named,
       capabilities |-> Capabilities(ingredients, hasSteps, servings, durations, verdict) ]

-----------------------------------------------------------------------------
(* Before it is loaded.                                                    *)

\* merged_ingredient_problems: what either origin put into a row is looked
\* up in the line it stands for.
Supported(src, g) ==
  /\ g.text # None
  /\ g.text \notin src.glued
  /\ g.unit # None => g.unit = "count" \/ g.unit \in src.units[g.text]
  /\ g.amount # None => g.amount \in src.numbers[g.text]

IsLoadable(src, merged) ==
  /\ merged.titled
  /\ merged.ingredients # {} \/ merged.hasSteps
  /\ \A g \in merged.ingredients : Supported(src, g)

\* What cmd_finalize leaves of an answered record; retries: whether its
\* attempts are below the limit.
RecordState(src, ask, det, resp, retries) ==
  LET result == ValidateResponse(src, ask, Baseline(det), resp)
      ready  == /\ result.load
                /\ IsLoadable(src, MergeResponse(ask, resp, det, result.verdict))
  IN IF ready THEN "ready_to_load"
     ELSE IF result.retry /\ retries THEN "awaiting_llm" ELSE "unresolved"
=============================================================================
