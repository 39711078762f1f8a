---------------------------- MODULE SourceRouting ----------------------------
(***************************************************************************)
(* Which source records go to the model, with what request, and which are  *)
(* taken as parsed or put aside (recipes/routing.py, source_scope.py, and  *)
(* cmd_prepare of llm_batch.py).  Pure operators: a record is what the     *)
(* parser and the tests on its text found out about it.                    *)
(***************************************************************************)
EXTENDS Integers, Sequences, FiniteSets

Routes == {"deterministic_accept", "needs_llm", "quarantine"}

\* The parser's own warnings that routing looks at.
Issues == {"name_contains_measure", "omitted_source_lines", "quantity_unknown"}

\* lines: the numbered lines of its text; multi: several ingredient sections;
\* long: enough text for the model to segment; asked: traced lines that need
\* interpretation; traced: lines of all occurrences that could be traced.
SourceRecords ==
  [ lines : SUBSET Nat, multi : BOOLEAN, long : BOOLEAN,
    parse : {"ok", "summary_layout_missing_title", "failed"},
    issues : SUBSET Issues, glued : BOOLEAN, dropped : BOOLEAN,
    notesOnly : BOOLEAN, conflict : BOOLEAN, looseDurations : BOOLEAN,
    untraceable : BOOLEAN, asked : SUBSET Nat, traced : SUBSET Nat,
    servings : BOOLEAN, servingsSaid : BOOLEAN, steps : BOOLEAN ]

When(condition, code) == IF condition THEN {code} ELSE {}

Routed(route, reasons) == [route |-> route, reasons |-> reasons, audit |-> FALSE]

-----------------------------------------------------------------------------
(* One record.                                                             *)

\* Signs that clean-looking output may be wrong.
Ambiguities(rec, durations) ==
  rec.issues
  \cup When(rec.glued, "ambiguous_glued_token")
  \cup When(rec.dropped, "unclassified_source_lines")
  \cup When(rec.notesOnly, "instructions_only_notes")
  \cup When(rec.conflict, "capability_conflict")
  \cup When(durations /\ rec.looseDurations, "durations_unstructured")

Reasons(rec, durations) ==
  LET signs == Ambiguities(rec, durations) IN
  signs
  \cup When(rec.asked # {} /\ signs = {}, "ambiguous_ingredient")
  \cup When(~rec.servings /\ rec.servingsSaid, "servings_unstructured")

\* Signs that some line can be asked about; any other sign is structural.
LineSigns == {"name_contains_measure", "quantity_unknown", "ambiguous_glued_token"}

\* A parsed record of one recipe.
RouteParsed(rec, durations) ==
  LET reasons == Reasons(rec, durations) IN
  IF rec.untraceable THEN Routed("quarantine", {"ingredient_source_alignment_failed"})
  ELSE IF reasons = {} THEN Routed("deterministic_accept", {})
  ELSE IF rec.asked = {} /\ reasons \subseteq LineSigns
       THEN Routed("deterministic_accept", {"no_recoverable_targets"})
       ELSE Routed("needs_llm", reasons)

\* One that was not parsed: text enough to segment, or none to speak of.
RouteUnparsed(rec) ==
  IF rec.parse = "summary_layout_missing_title"
  THEN Routed("quarantine", {"summary_layout_missing_title"})
  ELSE IF rec.long THEN Routed("needs_llm", {"section_boundary_failed"})
       ELSE Routed("quarantine", {"parse_failed"})

RouteRecord(rec, durations) ==
  IF Cardinality(rec.lines) <= 1 THEN Routed("quarantine", {"single_line_requires_spans"})
  ELSE IF rec.multi THEN Routed("needs_llm", {"multi_recipe_split"})
  ELSE IF rec.parse = "ok" THEN RouteParsed(rec, durations) ELSE RouteUnparsed(rec)

-----------------------------------------------------------------------------
(* A sample of records, some of those that passed sent all the same.       *)

\* round(passed * rate), to the even neighbour, at least one; the rate in
\* percent.
SampleSize(passed, rate) ==
  LET exact == passed * rate
      down  == exact \div 100
      rest  == exact % 100
      near  == IF rest > 50 \/ (rest = 50 /\ down % 2 = 1) THEN down + 1 ELSE down
      some  == IF near < 1 THEN 1 ELSE near
  IN IF passed < some THEN passed ELSE some

Passed(routed) == { s \in DOMAIN routed : routed[s].route = "deterministic_accept" }

\* Which of them is up to the seed.
AuditSamples(routed, rate) ==
  IF rate = 0 \/ Passed(routed) = {} THEN {{}}
  ELSE { chosen \in SUBSET Passed(routed) :
           Cardinality(chosen) = SampleSize(Cardinality(Passed(routed)), rate) }

WithAudit(routed, chosen) ==
  [ s \in DOMAIN routed |->
      IF s \in chosen
      THEN [route |-> "needs_llm", reasons |-> {"audit_sample"}, audit |-> TRUE]
      ELSE routed[s] ]

RoutePilot(records, durations, rate) ==
  LET routed == [ s \in DOMAIN records |-> RouteRecord(records[s], durations) ]
  IN { WithAudit(routed, chosen) : chosen \in AuditSamples(routed, rate) }

-----------------------------------------------------------------------------
(* The request for one that goes to the model.                             *)

\* Lines the model is asked to interpret: all of an unparsed record, all
\* occurrences of an audited one, otherwise those that need it.
RequestedLines(rec, audit) ==
  CASE rec.parse # "ok" -> rec.lines
    [] rec.parse = "ok" /\ audit -> rec.traced
    [] OTHER -> rec.asked

\* Blocks it is asked for.
MissingBlocks(rec, reasons) ==
  IF rec.parse # "ok"
  THEN {"title", "ingredients", "headings", "steps", "servings", "notes"}
  ELSE When(~rec.steps, "steps")
       \cup When(~rec.servings /\ rec.servingsSaid, "servings")
       \cup When("durations_unstructured" \in reasons, "durations")

\* Text too long for one request is cut, and each piece is asked for alone;
\* pieces: how many of the maximum size the text fills.
Segments(lines, pieces) ==
  IF pieces = 0 THEN <<lines>>
  ELSE LET half == Len(lines) \div (pieces + 1)
           per  == IF half < 1 THEN 1 ELSE half
           many == (Len(lines) + per - 1) \div per
       IN [ i \in 1 .. many |->
              SubSeq(lines, (i - 1) * per + 1, IF i * per < Len(lines) THEN i * per
                                                                     ELSE Len(lines)) ]

Brief(rec, routed) ==
  [ requested |-> RequestedLines(rec, routed.audit),
    missing |-> MissingBlocks(rec, routed.reasons), audit |-> routed.audit,
    abstains |-> rec.parse # "ok" /\ Cardinality(rec.lines) = 1 ]

\* Whether a request asks for anything at all.
Asks(brief) == brief.requested # {} \/ brief.missing # {}
=============================================================================
