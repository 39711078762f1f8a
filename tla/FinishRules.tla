---------------------------- MODULE FinishRules ----------------------------
(***************************************************************************)
(* What a finish of the agent has to satisfy (agent/validate.py and the    *)
(* gates of _handle_finish in agent/loop.py), over recipes, messages and   *)
(* answers reduced to what the gates tell apart: which diets and allergens *)
(* a recipe breaks, which of its directions the summary cuts, whether a    *)
(* text mentions a restriction, names one or asks for a pairing.           *)
(***************************************************************************)
EXTENDS Integers, Sequences, FiniteSets

CONSTANTS
  Recipes,            \* (dataset_id, source_id) pairs
  NoDish,
  Diets, Allergens,   \* checked dietary values, mapped allergens
  Breaks,             \* what a recipe's ingredient lines violate
  Unsure,             \* what they leave unverified
  SaysFree,           \* recipes that call themselves allergen-free
  Raw,                \* recipes with raw meat, fish or eggs
  Length, Long,       \* how many directions, and which are over 600 characters
  DirectionsShown,    \* directions in a summary (12)
  MaxDirectionsRange, \* directions of one ranged read (12)
  MessageKeep,        \* USER_MESSAGE_KEEP (5)
  EpicureEnabled      \* whether the pairing service is configured

ASSUME RecipesAssumption ==
  /\ NoDish \notin Recipes
  /\ Breaks \in [Recipes -> SUBSET (Diets \cup Allergens)]
  /\ Unsure \in [Recipes -> SUBSET (Diets \cup Allergens)]
  /\ Raw \subseteq Recipes /\ SaysFree \subseteq Recipes
  /\ Length \in [Recipes -> Nat] /\ Long \in [Recipes -> SUBSET Nat]

ASSUME BoundsAssumption ==
  /\ DirectionsShown \in Nat \ {0} /\ MaxDirectionsRange \in Nat \ {0}
  /\ MessageKeep \in Nat \ {0} /\ EpicureEnabled \in BOOLEAN

(***************************************************************************)
(* Directions: what a summary shows whole, what it omits, ranged reads.    *)
(***************************************************************************)
Directions(d) == 0 .. Length[d] - 1

\* omitted_direction_indices.
Omitted(d) == { i \in Directions(d) : i >= DirectionsShown \/ i \in Long[d] }

\* A ranged get_recipe inside the recipe and no longer than the limit.
Slices(d) ==
  { from .. to - 1 : from \in Directions(d), to \in 1 .. Length[d] }

Readable(d) == { s \in Slices(d) : s # {} /\ Cardinality(s) <= MaxDirectionsRange }

(***************************************************************************)
(* User messages and answers.                                              *)
(***************************************************************************)
Messages == { "plain",     \* nothing of the following
              "unnamed",   \* an allergy or restriction, not which one
              "named",     \* an allergy or diet by name
              "pairing" }  \* asks for a pairing

\* To which question an answer was given; one handed over at creation has
\* no recorded question.
Topics == { "avoid", "dish" }
Answers == [ to : Topics \cup {"unrecorded"}, names : SUBSET (Diets \cup Allergens) ]

MentionsRestriction(m) == m \in { "unnamed", "named" }

\* user_messages_from_events: the last few.
Recent(ms) ==
  SubSeq(ms, IF Len(ms) > MessageKeep THEN Len(ms) - MessageKeep + 1 ELSE 1, Len(ms))

Texts(ms) == { ms[i] : i \in DOMAIN ms }

\* A restriction is mentioned and neither a text, a dietary constraint nor
\* any answer names one.
UnnamedRestriction(ms, diets, answers) ==
  /\ \E m \in Texts(ms) : MentionsRestriction(m)
  /\ "named" \notin Texts(ms)
  /\ diets = {}
  /\ \A a \in answers : a.names = {}

\* allergy_answer_texts: all answers once a message mentions a
\* restriction, otherwise those to a question about what to avoid and
\* those whose question is not on record.
AllergyAnswers(ms, answers) ==
  IF \E m \in Texts(ms) : MentionsRestriction(m)
    THEN answers
    ELSE { a \in answers : a.to # "dish" }

\* allergens_named_in_answers: a diet named in an answer is no constraint.
AllergensNamed(answers) == (UNION { a.names : a \in answers }) \cap Allergens

\* The diets and allergens an option is checked against.
Avoided(ms, diets, answers) ==
  diets \cup AllergensNamed(AllergyAnswers(ms, answers))

\* pairing_cue_in, on the latest message.
PairingCue(ms) == ms # << >> /\ ms[Len(ms)] = "pairing"

(***************************************************************************)
(* Epicure: consulted, skipped for an allowed reason, or degraded.  log is *)
(* what the session's events say, epi what the run itself remembers, row   *)
(* the run's copy.                                                         *)
(***************************************************************************)
SkipReasons == { "simple_technique_question", "epicure_not_configured" }

EpicureEvidence(log, epi, row) == epi \/ row.epicure \/ log.pairing

PairingExcluded(log) == ~EpicureEnabled \/ log.unconfigured

EffectiveSkip(log, skip) ==
  IF skip = "none" /\ PairingExcluded(log) THEN "epicure_not_configured" ELSE skip

SkipAllowed(log, skip) ==
  CASE skip = "simple_technique_question" -> ~PairingCue(log.messages)
    [] skip = "epicure_not_configured"    -> PairingExcluded(log)
    [] OTHER                              -> TRUE

Consulted(log, epi, row, skip) ==
  EpicureEvidence(log, epi, row) /\ EffectiveSkip(log, skip) = "none"

\* Returned pairings that can be named call for lines that evaluate them.
LinesSuffice(log, epi, f) == (epi \/ log.pairing) => f.lines

(***************************************************************************)
(* Options.                                                                *)
(***************************************************************************)
\* What the note and the other texts of a finish claim: nothing to check,
\* a quantity, time, temperature or pairing the evidence does not hold,
\* that options are verified or allergen-free, that steps are the source's.
Notes == { "plain", "unsupported", "verified", "free", "faithful" }

OptionFinishes ==
  [ kind : {"options"}, options : (SUBSET Recipes) \ {{}}, measured : SUBSET Recipes,
    honors : BOOLEAN, skip : SkipReasons \cup {"none"}, lines : BOOLEAN,
    note : Notes \ {"faithful"} ]

\* check_dietary_option and check_allergen_option: a listed term drops the
\* option, an ambiguous one only marks it.
Violated(d, avoided) == Breaks[d] \cap avoided
Unverified(d, avoided) == Unsure[d] \cap avoided

\* validate_one_option: retrieved in this session, with quantities only
\* from a full document.
Sourced(log, f, d) ==
  /\ d \in log.retrieved
  /\ d \in f.measured => d \in log.full

ValidOption(log, row, f, d) ==
  /\ Sourced(log, f, d)
  /\ Violated(d, Avoided(log.messages, row.diets, row.answers)) = {}

\* The survivors; the others are dropped and reported.
Survivors(log, row, f) == { d \in f.options : ValidOption(log, row, f, d) }

\* A note must not call options verified that are not ...
VerifiedClaimHolds(f, avoided) ==
  f.note = "verified" => \A d \in f.options : Unverified(d, avoided) = {}

\* ... nor free of an allergen that was checked, unless a source says so.
FreeClaimHolds(f, avoided, survivors) ==
  f.note = "free" /\ avoided \cap Allergens # {} => survivors \cap SaysFree # {}

\* Times, temperatures and pairings it names are in the evidence.
Grounded(f) == f.note # "unsupported"

NoteGrounded(log, row, f) ==
  LET avoided == Avoided(log.messages, row.diets, row.answers) IN
  /\ Grounded(f)
  /\ VerifiedClaimHolds(f, avoided)
  /\ FreeClaimHolds(f, avoided, Survivors(log, row, f))

\* Skipped for an allowed reason, or consulted with its pairings evaluated.
EpicureGate(log, epi, row, f) ==
  /\ EffectiveSkip(log, f.skip) = "none" => EpicureEvidence(log, epi, row)
  /\ SkipAllowed(log, EffectiveSkip(log, f.skip))
  /\ Consulted(log, epi, row, f.skip) => LinesSuffice(log, epi, f)

OptionsAccepted(log, epi, row, f) ==
  /\ row.dish # NoDish => row.plan.dish # NoDish
  /\ f.honors
  /\ EpicureGate(log, epi, row, f)
  /\ ~UnnamedRestriction(Recent(log.messages), row.diets, row.answers)
  /\ Cardinality(f.options) <= 4
  /\ Survivors(log, row, f) # {}
  /\ Cardinality(f.options) = 1 => Consulted(log, epi, row, f.skip)
  /\ NoteGrounded(log, row, f)

(***************************************************************************)
(* Plans, technique answers and web answers.                               *)
(***************************************************************************)
PlanFinishes ==
  [ kind : {"plan"}, dish : Recipes, verbatim : BOOLEAN, admits : BOOLEAN,
    unread : SUBSET UNION { 0 .. Length[d] : d \in Recipes }, safety : BOOLEAN,
    note : Notes \ {"verified", "free"} ]

\* _plan_attribution: every step is in its direction's own words and every
\* direction is cited; a recipe without directions has no source steps.
StepsSource(f) ==
  IF f.verbatim /\ Length[f.dish] > 0 THEN "source" ELSE "model_adaptation"

\* unread_directions_listed: counting from zero or from one.
NamedUnread(f, unread) == unread \subseteq f.unread \/ { i + 1 : i \in unread } \subseteq f.unread

\* validate_omitted_directions: read, or named as unread in a plan that is
\* not the source's.
DirectionsRead(covered, f) ==
  LET unread == Omitted(f.dish) \ covered[f.dish] IN
  unread = {} \/ (StepsSource(f) = "model_adaptation" /\ NamedUnread(f, unread))

\* validate_plan.
PlanStands(log, row, f) ==
  row.dish # NoDish /\ f.dish = row.dish /\ f.dish \in log.full /\ Grounded(f)

\* check_plan_evidence: raw food calls for a safety chunk.
PlanEvidenced(f) ==
  /\ StepsSource(f) = "model_adaptation" /\ Length[f.dish] = 0 => f.admits
  /\ f.dish \in Raw => f.safety

\* validate_technique_refs: only chunks returned in this run.
RefsReturned(chunks, f) == f.safety => chunks

\* plan_fidelity_errors.
FidelityClaimed(f) == f.note = "faithful" => StepsSource(f) = "source"

PlanAccepted(log, chunks, row, f) ==
  /\ PlanStands(log, row, f)
  /\ RefsReturned(chunks, f)
  /\ PlanEvidenced(f)
  /\ DirectionsRead(log.covered, f)
  /\ FidelityClaimed(f)

AnswerFinishes ==
  [ kind : {"answer"}, skip : SkipReasons \cup {"none"}, lines : BOOLEAN,
    note : {"plain", "unsupported"} ]

AnswerAccepted(log, epi, row, f) ==
  /\ Grounded(f)
  /\ \/ /\ f.skip = "simple_technique_question"
        /\ SkipAllowed(log, f.skip)
     \/ /\ Consulted(log, epi, row, f.skip)
        /\ LinesSuffice(log, epi, f)

WebFinishes == [ kind : {"web"}, listed : BOOLEAN, procedural : BOOLEAN ]

WebAccepted(log, f) == log.web /\ f.listed /\ ~f.procedural

Finishes == OptionFinishes \cup PlanFinishes \cup AnswerFinishes \cup WebFinishes
=============================================================================
