---------------------------- MODULE SelectionRules ----------------------------
(***************************************************************************)
(* The rules one recommendation is made by: what a stored source is good   *)
(* for, which sources the model is shown, which of its selections and      *)
(* propositions stand, and what a client is told to do when none does      *)
(* (recommendations/evidence.py, policy.py, propositions.py, epicure.py,   *)
(* prompts.py and the checks of service.py).                               *)
(*                                                                         *)
(* A name or title is the set of its words, up to plural, and the curated  *)
(* phrases (known compounds, free-from qualifiers) found in it.  A number  *)
(* the source has not, or has as something else than a number, is None.    *)
(***************************************************************************)
EXTENDS Integers, Sequences, FiniteSets

CONSTANTS
  Words, Phrases, None,
  Diets,         \* diets with a list of prohibited words
  Restrictions,  \* what users write as a dietary constraint, Diets among it
  Prohibited     \* the list of each of Diets

ASSUME SelectionAssumption ==
  /\ Diets \subseteq Restrictions
  /\ Prohibited \in [Diets -> SUBSET Words]
  /\ None \notin Int \cup [words : SUBSET Words, phrases : SUBSET Phrases]

Texts == [words : SUBSET Words, phrases : SUBSET Phrases]

\* strict_number.
Strict(value, least) == IF value \in Int /\ value >= least THEN value ELSE None

-----------------------------------------------------------------------------
(* Evidence: what can be read of a stored document.                        *)

\* An ingredient without a readable name, or a step without text, is None.
Entries == [name : Texts, optional : BOOLEAN, amount : Int \cup {None}]

Documents ==
  [ title : Texts, ingredients : Seq(Entries \cup {None}) \cup {None},
    steps : Seq(Texts \cup {None}) \cup {None},
    servings : Int \cup {None}, total : Int \cup {None},
    defects : SUBSET {"error", "warning"} ]

Readable(section) ==
  IF section = None THEN {} ELSE { i \in DOMAIN section : section[i] # None }

Present(section) == section # None /\ section # << >>

Whole(section) == Present(section) /\ Readable(section) = DOMAIN section

\* Shown to the model and published only if nothing of it was lost.
IsRecommendable(d) ==
  Whole(d.ingredients) /\ Whole(d.steps) /\ "error" \notin d.defects

Servings(d) == Strict(d.servings, 1)

DurationStatus(total) ==
  IF Strict(total, 1) # None THEN "reported_positive"
  ELSE IF total = 0 THEN "reported_zero_unverified" ELSE "missing"

SatisfiesCeiling(total, ceiling) ==
  /\ DurationStatus(total) = "reported_positive"
  /\ ceiling > 0 /\ total <= ceiling

\* render_recipe: what the source does not state stays unknown.
Rendered(d) ==
  [ ingredients |->
      [ i \in Readable(d.ingredients) |->
          [ name |-> d.ingredients[i].name, optional |-> d.ingredients[i].optional,
            amount |-> Strict(d.ingredients[i].amount, 0) ] ],
    steps |-> [ i \in Readable(d.steps) |-> d.steps[i] ], servings |-> Servings(d) ]

-----------------------------------------------------------------------------
(* Policy: verdicts on the constraints of the request.                     *)

\* A prohibited word in a name that neither qualifies it nor is a known
\* compound; everything else is left open.
Contradicts(diet, name) ==
  diet \in Diets /\ name.phrases = {} /\ name.words \cap Prohibited[diet] # {}

DietVerdict(diet, d) ==
  IF \E i \in Readable(d.ingredients) : Contradicts(diet, d.ingredients[i].name)
  THEN "violated" ELSE "unresolved"

TimeVerdict(total, ceiling) ==
  CASE SatisfiesCeiling(total, ceiling) -> "supported"
    [] ~SatisfiesCeiling(total, ceiling) /\ DurationStatus(total) = "reported_positive" ->
         "violated"
    [] OTHER -> "unresolved"

\* Constraints neither the search nor a source says anything about.
Unenforced == {"cuisine", "preferences", "equipment", "substitution_choice"}

\* request: [dish, pantry, ceiling, portions, diets, status].
Assessments(d, request) ==
  { [constraint |-> <<"dietary", diet>>, verdict |-> DietVerdict(diet, d)] :
      diet \in request.diets }
  \cup { [constraint |-> <<"time_limit">>, verdict |-> TimeVerdict(d.total, request.ceiling)] :
           once \in { x \in {TRUE} : request.ceiling # None } }
  \cup { [constraint |-> <<c>>, verdict |-> "not_applicable"] : c \in Unenforced }

HardVerdicts(d, request) == { DietVerdict(diet, d) : diet \in request.diets }
HardViolation(d, request) == "violated" \in HardVerdicts(d, request)
UnresolvedHard(d, request) == "unresolved" \in HardVerdicts(d, request)

Admitted(d, request) == ~HardViolation(d, request) /\ ~UnresolvedHard(d, request)

-----------------------------------------------------------------------------
(* What the model is shown.                                                *)

\* In ranked order, every block that still fits; sizes[i] is that of the ith.
\* Blocks that fit together may still be too much with their header: total(n)
\* measures the request with the first n of them, the last are dropped first.
Greedy(sizes, room) ==
  LET fit[n \in 0 .. Len(sizes)] ==
        IF n = 0 THEN [kept |-> << >>, used |-> 0]
        ELSE IF fit[n - 1].used + sizes[n] > room THEN fit[n - 1]
        ELSE [kept |-> Append(fit[n - 1].kept, n), used |-> fit[n - 1].used + sizes[n]]
  IN fit[Len(sizes)].kept

FitSerially(sizes, room, total, limit) ==
  LET kept == Greedy(sizes, room)
      fits == { n \in 1 .. Len(kept) : total[n] <= limit }
  IN IF fits = {} THEN << >>
     ELSE SubSeq(kept, 1, CHOOSE n \in fits : \A m \in fits : m <= n)

\* Why there is nothing to show, in the order it is found out.
InsufficientReason(query, failed, found, request, kept) ==
  CASE ~query -> "no_candidates"
    [] query /\ found = {} -> IF failed THEN "source_fetch_unavailable" ELSE "no_candidates"
    [] query /\ found # {} /\ (\A d \in found : ~Admitted(d, request)) ->
         "hard_constraint_unresolved"
    [] query /\ (\E d \in found : Admitted(d, request))
         /\ (\A d \in found : ~(Admitted(d, request) /\ IsRecommendable(d))) ->
         "incomplete_source_only"
    [] query /\ (\E d \in found : Admitted(d, request) /\ IsRecommendable(d)) /\ kept = {} ->
         "evidence_budget_exceeded"
    [] OTHER -> "none"

\* Pointers for a client that gets no recipe.
DiscoveryReason(d) ==
  IF "error" \in d.defects THEN "blocking source defect"
  ELSE IF ~IsRecommendable(d) THEN "structurally incomplete source"
  ELSE "constraint-unverified"

Discovery(found, request) ==
  { [source |-> d, why |-> DiscoveryReason(d)] :
      d \in { x \in found : ~HardViolation(x, request) } }

-----------------------------------------------------------------------------
(* The selection.                                                          *)

CoversAll(refs, indices) ==
  /\ indices # {}
  /\ Len(refs) = Cardinality(indices)
  /\ { refs[i] : i \in DOMAIN refs } = indices

InOrder(refs) == \A i, j \in DOMAIN refs : i < j => refs[i] < refs[j]

\* _proposal_from_parsed and _validate_selection: the first check that fails;
\* offered: the sources shown, by label.
SelectionProblem(proposal, offered, request) ==
  IF proposal.label \notin DOMAIN offered THEN "unknown_identity"
  ELSE LET d == offered[proposal.label] IN
       IF ~proposal.schema THEN "schema_failure"
       ELSE IF ~IsRecommendable(d) THEN "incomplete_source"
       ELSE IF ~CoversAll(proposal.ingredients, Readable(d.ingredients)) THEN "bad_reference"
       ELSE IF ~(CoversAll(proposal.steps, Readable(d.steps)) /\ InOrder(proposal.steps))
            THEN "step_coverage"
       ELSE IF proposal.overrides THEN "prompt_injection_detected"
       ELSE IF ~Admitted(d, request) THEN "hard_constraint_violation" ELSE "none"

\* _parse_tool_arguments: a label, or the identity of one of those offered.
ArgumentForms == {"label", "identity", "malformed"}

\* _dispatch_tool_call: the one call of the first turn of tool mode.
DispatchProblem(calls, ceiling, offered, snapshots, fetched) ==
  IF Len(calls) # 1 THEN "invalid_tool_call"
  ELSE LET call == calls[1] IN
       IF call.name # "get_recipe" \/ ~call.identified \/ ~call.continued
          \/ call.form = "malformed"
       THEN "invalid_tool_call"
       ELSE IF call.label \notin DOMAIN offered THEN "unknown_identity"
       ELSE IF ceiling < 1 THEN "turn_limit_exceeded"
       ELSE IF fetched = "failed" THEN "corpus_unavailable"
       ELSE IF fetched = "missing" THEN "unknown_identity"
       ELSE IF fetched # snapshots[call.label] THEN "evidence_changed" ELSE "none"

-----------------------------------------------------------------------------
(* Propositions: what may be said of the selection, and asked of the user. *)

ReasonTypes == { "dish_named_in_title", "uses_listed_ingredients",
                 "reported_time_within_limit", "stated_yield_matches_portions" }

\* The field of the request a question is about.
QuestionField == [ desired_portions |-> "portions", time_available |-> "time_minutes",
                   dietary_restrictions |-> "dietary_constraints",
                   available_ingredients |-> "ingredients" ]

AllWordsIn(needle, name) == needle.words # {} /\ needle.words \subseteq name.words

MatchesListed(name, item) == AllWordsIn(item, name) /\ name.phrases \subseteq item.phrases

ListedProblem(refs, d, request) ==
  IF request.pantry = {} THEN "request_ingredients_missing"
  ELSE IF refs = << >> THEN "references_required"
  ELSE IF Cardinality({ refs[i] : i \in DOMAIN refs }) # Len(refs) THEN "reference_duplicate"
  ELSE IF \A i \in DOMAIN refs :
            /\ refs[i] \in Readable(d.ingredients)
            /\ \E item \in request.pantry : MatchesListed(d.ingredients[refs[i]].name, item)
       THEN "none"
  ELSE LET bad == CHOOSE i \in DOMAIN refs :
             /\ \/ refs[i] \notin Readable(d.ingredients)
                \/ \A item \in request.pantry :
                     ~MatchesListed(d.ingredients[refs[i]].name, item)
             /\ \A j \in 1 .. i - 1 :
                  /\ refs[j] \in Readable(d.ingredients)
                  /\ \E item \in request.pantry :
                       MatchesListed(d.ingredients[refs[j]].name, item)
       IN IF refs[bad] \notin Readable(d.ingredients) THEN "reference_not_in_source"
          ELSE "reference_not_listed_ingredient"

TitleProblem(d, request) ==
  IF request.dish = None THEN "request_dish_missing"
  ELSE IF ~AllWordsIn(request.dish, d.title) THEN "title_lacks_dish_words" ELSE "none"

TimeProblem(d, request) ==
  IF request.ceiling = None THEN "request_time_limit_missing"
  ELSE IF DurationStatus(d.total) # "reported_positive" THEN "source_time_unknown"
  ELSE IF ~SatisfiesCeiling(d.total, request.ceiling) THEN "source_time_exceeds_limit"
       ELSE "none"

YieldProblem(d, request) ==
  IF request.portions = None THEN "request_portions_missing"
  ELSE IF Servings(d) = None THEN "source_yield_unknown"
  ELSE IF Servings(d) # request.portions THEN "source_yield_differs" ELSE "none"

ReasonProblem(reason, d, request) ==
  IF reason.type # "uses_listed_ingredients" /\ reason.refs # << >>
  THEN "references_not_permitted"
  ELSE CASE reason.type = "dish_named_in_title" -> TitleProblem(d, request)
         [] reason.type = "uses_listed_ingredients" -> ListedProblem(reason.refs, d, request)
         [] reason.type = "reported_time_within_limit" -> TimeProblem(d, request)
         [] reason.type = "stated_yield_matches_portions" -> YieldProblem(d, request)

\* Only what was never answered is asked; the yield of the source is the only
\* thing portions can be compared with.
QuestionProblem(question, d, request) ==
  IF request.status[QuestionField[question.type]] # "unknown" THEN "request_field_not_missing"
  ELSE IF question.type = "desired_portions" /\ Servings(d) = None
       THEN "source_yield_unknown" ELSE "none"

\* A second one of a type is refused even if the first was refused as well.
Repeats(list, i) == \E j \in 1 .. i - 1 : list[j].type = list[i].type

AcceptedReasons(reasons, d, request) ==
  { i \in DOMAIN reasons :
      ~Repeats(reasons, i) /\ ReasonProblem(reasons[i], d, request) = "none" }

AcceptedQuestions(questions, d, request) ==
  { i \in DOMAIN questions :
      ~Repeats(questions, i) /\ QuestionProblem(questions[i], d, request) = "none" }

\* Those not accepted are reported by position, type and code alone.
RejectedReasons(reasons, d, request) ==
  { [index |-> i, code |-> IF Repeats(reasons, i) THEN "duplicate_proposition"
                           ELSE ReasonProblem(reasons[i], d, request)] :
      i \in DOMAIN reasons \ AcceptedReasons(reasons, d, request) }

RejectedQuestions(questions, d, request) ==
  { [index |-> i, code |-> IF Repeats(questions, i) THEN "duplicate_proposition"
                           ELSE QuestionProblem(questions[i], d, request)] :
      i \in DOMAIN questions \ AcceptedQuestions(questions, d, request) }

-----------------------------------------------------------------------------
(* Epicure, usage, and the remedy of a failure.                            *)

\* Pairings for each ingredient of the pantry in turn; answers[i] is what
\* the query for the ith gives, [status, names].
Failing(answers) ==
  { i \in DOMAIN answers : answers[i].status \in {"disabled", "failed"} }

Suggested(answers) ==
  UNION { answers[i].names : i \in { j \in DOMAIN answers : answers[j].status = "known" } }

Consultation(enabled, answers) ==
  IF ~enabled THEN "disabled"
  ELSE IF answers = << >> THEN "insufficient_ingredient_context"
  ELSE IF Failing(answers) # {}
       THEN IF answers[CHOOSE i \in Failing(answers) :
                         \A j \in Failing(answers) : i <= j].status = "disabled"
            THEN "disabled" ELSE "unavailable"
  ELSE IF Suggested(answers) = {} /\ (\E i \in DOMAIN answers : answers[i].status = "unknown")
       THEN "unmapped" ELSE "consulted"

EpicureOutcome(simple, configured, enabled, answers) ==
  IF simple THEN "simple_technique_skip"
  ELSE IF ~configured THEN "disabled" ELSE Consultation(enabled, answers)

Degraded(outcome) == outcome \in {"disabled", "unavailable"}

\* A suggestion is a note on what the source has already, or put off.
UsedSuggestions(suggestions, d) ==
  { s \in suggestions : \E i \in Readable(d.ingredients) : d.ingredients[i].name = s }

\* Tokens of all turns: unknown as soon as one turn does not know.
UsageTotal(tokens) ==
  LET sum[n \in 0 .. Len(tokens)] ==
        IF n = 0 THEN 0
        ELSE IF sum[n - 1] = None \/ tokens[n] = None THEN None ELSE sum[n - 1] + tokens[n]
  IN sum[Len(tokens)]

Retries ==
  { "schema_failure", "validation_rejected", "truncated_incomplete_response",
    "empty_response", "turn_limit_exceeded", "invalid_tool_call",
    "provider_unavailable", "provider_rate_limited", "provider_timeout",
    "corpus_unavailable", "stream_duration_exceeded", "session_unavailable",
    "tool_timeout", "tool_unavailable", "search_not_performed",
    "agent_wall_clock_exceeded", "history_pairing_error" }

Changes ==
  { "provider_refusal", "provider_content_filter", "input_budget_exceeded",
    "unknown_group", "unknown_session", "invalid_phase_transition", "malformed",
    "tool_invalid_arguments", "tool_permission_denied", "scale_missing_servings",
    "convert_unsupported_unit", "search_budget_exhausted", "search_unverified",
    "agent_max_steps", "agent_tool_budget_exhausted",
    "agent_token_budget_exhausted", "agent_no_progress",
    "agent_validation_failed", "unknown_question", "unknown_option" }

\* Nothing the server does not know is worth another paid call.
NextAction(reason, problem) ==
  IF reason = "validation_rejected" /\ problem = "hard_constraint_violation"
  THEN "change_request"
  ELSE CASE reason \in Retries -> "retry"
         [] reason \in Changes -> "change_request"
         [] reason = "stale_revision" -> "refetch_and_retry"
         [] OTHER -> "contact_operator"
=============================================================================
