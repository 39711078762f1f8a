------------------------- MODULE ClarificationRules -------------------------
(***************************************************************************)
(* The deterministic rules of clarification: which questions are open,     *)
(* what an answer does to the state of a request, and how a plan made by   *)
(* the rules is merged with the proposal of a model.  Operators only; the  *)
(* module Clarification runs them inside the handlers of the API.          *)
(*                                                                         *)
(* A value is one of the few classes the rules tell apart ("veg" against   *)
(* "meat", "scaling" against any other task); "empty" is a missing value.  *)
(* A question is identified by its kind, its target and the number the     *)
(* server gives to the questions of one proposal (0 for a rule question);  *)
(* kind and target together are its semantic key.                          *)
(***************************************************************************)
EXTENDS Naturals, Sequences, FiniteSets, SequencesExt, SequenceFilter

Targets == {"dish", "ingredients", "portions", "time_minutes", "cuisine", "preferences",
            "dietary_constraints", "equipment", "substitution_choice", "task_scope"}
Values == {"empty", "set", "meat", "veg", "scaling"}
FieldStatus == {"unknown", "provided", "no_preference", "skipped", "conflicting"}
Explicit == FieldStatus \ {"unknown"}
Outcomes == {"needs_clarification", "ready_for_retrieval", "blocked"}
Codes == {"conflicting", "dish_skipped", "portions_skipped"}
BlockedCodes == {"dish_skipped", "portions_skipped"}

Kinds == {"conflict", "dish_direction", "portions", "dietary_screen", "dietary_detail",
          "available_ingredients", "task_scope", "time_limit", "cuisine", "equipment",
          "preferences", "confirm", "llm"}
QuestionIds == [kind : Kinds, target : Targets, seq : Nat]
Replied == Values \cup {"skip", "no_preference", "none", "keep", "change"}
Records == [question : QuestionIds, status : {"answered", "skipped", "invalidated"},
            selected : Replied]
Gates == [target : Targets, proposed : Values, question : QuestionIds,
          status : {"pending", "resolved"}]
States == [value : [Targets -> Values], status : [Targets -> FieldStatus],
           answers : Seq(Records), skipped : SUBSET QuestionIds,
           invalidated : SUBSET QuestionIds, confirmations : Seq(Gates),
           blockers : SUBSET Codes, outcome : Outcomes, ready : BOOLEAN, replans : Nat]

Rule(kind, target) == [kind |-> kind, target |-> target, seq |-> 0]
Conflict  == Rule("conflict", "dietary_constraints")
Dish      == Rule("dish_direction", "dish")
Portions  == Rule("portions", "portions")
Screen    == Rule("dietary_screen", "dietary_constraints")
Detail    == Rule("dietary_detail", "dietary_constraints")

(***************************************************************************)
(* A new request: every field the client gave is provided, the others are  *)
(* unknown.                                                                *)
(***************************************************************************)
InitState(given) ==
    [value |-> given,
     status |-> [t \in Targets |-> IF given[t] = "empty" THEN "unknown" ELSE "provided"],
     answers |-> <<>>, skipped |-> {}, invalidated |-> {}, confirmations |-> <<>>,
     blockers |-> {}, outcome |-> "needs_clarification", ready |-> FALSE, replans |-> 0]

IsScaling(st) == st.value["task_scope"] = "scaling"
IsConflicting(st) == \E t \in Targets : st.status[t] = "conflicting"

(***************************************************************************)
(* The readiness gate: a dish or ingredients, no conflict, and portions    *)
(* when the task is scaling.                                               *)
(***************************************************************************)
RetrievalReady(st) ==
    /\ ~ IsConflicting(st)
    /\ \/ st.value["dish"] # "empty"
       \/ st.value["ingredients"] # "empty"
    /\ IsScaling(st) => st.value["portions"] # "empty"

Blockers(st) ==
    {c \in Codes :
       \/ c = "conflicting" /\ IsConflicting(st)
       \/ /\ c = "dish_skipped"
          /\ st.status["dish"] = "skipped" /\ Dish \in st.skipped
          /\ st.value["ingredients"] = "empty"
       \/ /\ c = "portions_skipped"
          /\ IsScaling(st)
          /\ st.status["portions"] = "skipped" /\ Portions \in st.skipped}

(***************************************************************************)
(* The gate as the retrieval service evaluates it: from the fields and     *)
(* from the blockers the state carries.                                    *)
(***************************************************************************)
EvaluateReadiness(st) ==
    CASE IsConflicting(st) -> "conflicting"
      [] ~ IsConflicting(st) /\ st.blockers \cap BlockedCodes # {} -> "blocked"
      [] OTHER -> IF RetrievalReady(st) THEN "ready" ELSE "needs_clarification"

-----------------------------------------------------------------------------
(***************************************************************************)
(* The latest answer to the dietary screen decides whether the detail      *)
(* question applies; no answer to the screen means it does not.            *)
(***************************************************************************)
Answered(st) == SelectSeq(st.answers, LAMBDA a : a.status = "answered")
AnsweredIds(st) == {Answered(st)[i].question : i \in DOMAIN Answered(st)}
ScreenAnswers(st) == SelectSeq(Answered(st), LAMBDA a : a.question = Screen)

DependencySatisfied(q, st) ==
    q = Detail =>
        /\ ScreenAnswers(st) # <<>>
        /\ Last(ScreenAnswers(st)).selected \in {"veg", "set"}

PendingQuestions(questions, st) ==
    Only(questions, {q \in ToSet(questions) :
        /\ q \notin AnsweredIds(st) \cup st.invalidated \cup st.skipped
        /\ DependencySatisfied(q, st)})

(***************************************************************************)
(* The catalog in the order of presentation: required questions first,     *)
(* then by priority.  Portions are required, and come early, for scaling.  *)
(***************************************************************************)
Catalog(st) ==
    LET portions(early) == IF IsScaling(st) = early THEN <<Portions>> ELSE <<>>
    IN  (IF IsConflicting(st) THEN <<Conflict>> ELSE <<>>)
        \o <<Dish>> \o portions(TRUE)
        \o <<Rule("available_ingredients", "ingredients")>>
        \o (IF st.status["task_scope"] = "unknown" THEN <<Rule("task_scope", "task_scope")>>
            ELSE <<>>)
        \o <<Rule("time_limit", "time_minutes"), Screen, Detail, Rule("cuisine", "cuisine")>>
        \o portions(FALSE)
        \o <<Rule("equipment", "equipment"), Rule("preferences", "preferences")>>

Required(q, st) == q.kind \in {"conflict", "dish_direction"} \/ (q = Portions /\ IsScaling(st))

Suppress(questions, st) ==
    LET keys == {<<q.kind, q.target>> : q \in AnsweredIds(st)}
    IN  Only(questions, {q \in ToSet(questions) :
            /\ q \notin st.skipped
            /\ <<q.kind, q.target>> \notin keys
            /\ \/ st.status[q.target] \notin {"provided", "no_preference"}
               \/ q.kind = "conflict"})

Critical == {"conflict", "dish_direction", "available_ingredients", "portions", "task_scope",
             "time_limit", "dietary_screen"}

Take(questions, n) == SubSeq(questions, 1, IF Len(questions) < n THEN Len(questions) ELSE n)

(***************************************************************************)
(* The plan of the rules: nothing to ask when the request is ready, else   *)
(* the questions a search depends on before the rest of the questionnaire. *)
(***************************************************************************)
RuleQuestions(st, max) ==
    LET open == Suppress(Catalog(st), st)
        of(kinds) == Only(open, {q \in ToSet(open) : q.kind \in kinds})
        critical == of(Critical)
        tail == Only(open, ToSet(open) \ ToSet(critical))
    IN  IF RetrievalReady(st) /\ Blockers(st) = {}
        THEN Take(of({"conflict"}), max)
        ELSE IF Blockers(st) \cap BlockedCodes # {} \/ RetrievalReady(st)
        THEN Take(open, max)
        ELSE Take(critical \o tail, max)

RuleOutcome(st) ==
    IF RetrievalReady(st) /\ Blockers(st) = {} THEN "ready_for_retrieval"
    ELSE IF Blockers(st) \cap BlockedCodes # {} THEN "blocked"
    ELSE "needs_clarification"

-----------------------------------------------------------------------------
(***************************************************************************)
(* Answers.  A payload answers one question with a value, skips it, or     *)
(* says "no preference"; a confirmation is answered with "keep" or         *)
(* "change".  Only a confirmation that is still pending can be answered.   *)
(***************************************************************************)
\* Variant: the status of the answer record is written to the field.
SetAnsweredValue(st, target, v) ==
    [st EXCEPT !.value[target] = v, !.status[target] = "answered"]

SetTypedValue(st, target, v) ==
    [st EXCEPT !.value[target] = v, !.status[target] = "provided"]

PendingFor(st, q) ==
    {i \in DOMAIN st.confirmations : st.confirmations[i].question = q
                                     /\ st.confirmations[i].status = "pending"}

Answerable(st, p) ==
    p.question.kind = "confirm" =>
        /\ PendingFor(st, p.question) # {}
        /\ p.answer \in {"skip", "keep", "change"}

\* A batch is applied as a whole or not at all.  A question may be answered
\* twice in it, a confirmation until it is kept or changed.
Applicable(st, batch) ==
    \A i \in DOMAIN batch :
        /\ Answerable(st, batch[i])
        /\ \A j \in DOMAIN batch :
              (/\ i < j /\ batch[i].question = batch[j].question
               /\ batch[i].question.kind = "confirm") => batch[i].answer = "skip"

ApplyConfirmation(st, p) ==
    LET i == CHOOSE j \in PendingFor(st, p.question) :
                 \A k \in PendingFor(st, p.question) : j <= k
        c == st.confirmations[i]
        resolved == [st EXCEPT !.confirmations[i].status = "resolved"]
    IN  CASE p.answer = "skip"   -> [st EXCEPT !.skipped = @ \cup {p.question}]
          [] p.answer = "keep"   -> resolved
          [] p.answer = "change" -> SetTypedValue(resolved, c.target, c.proposed)

\* The option "none" of the dietary screen means no preference.
ApplyField(st, p) ==
    LET t == p.question.target
    IN  CASE p.answer = "skip" ->
               [st EXCEPT !.skipped = @ \cup {p.question},
                          !.status[t] = IF st.value[t] = "empty" THEN "skipped" ELSE @]
          [] p.answer \in {"no_preference", "none"} ->
               [st EXCEPT !.value[t] = "empty", !.status[t] = "no_preference"]
          [] OTHER -> SetTypedValue(st, t, p.answer)

ApplyOne(st, p) ==
    LET applied == IF p.question.kind = "confirm" THEN ApplyConfirmation(st, p)
                                                  ELSE ApplyField(st, p)
        record == [question |-> p.question,
                   status |-> IF p.answer = "skip" THEN "skipped" ELSE "answered",
                   selected |-> p.answer]
    IN  [applied EXCEPT !.answers = Append(@, record)]

(***************************************************************************)
(* An answered detail question whose screen no longer asks for it is       *)
(* invalidated, in place; it needs an answered screen to be judged.        *)
(***************************************************************************)
InvalidateDependents(st) ==
    IF ScreenAnswers(st) = <<>> \/ DependencySatisfied(Detail, st) \/ Detail \notin AnsweredIds(st)
    THEN st
    ELSE [st EXCEPT
            !.answers = [i \in DOMAIN @ |->
                           IF @[i].question = Detail /\ @[i].status = "answered"
                           THEN [@[i] EXCEPT !.status = "invalidated"] ELSE @[i]],
            !.invalidated = @ \cup {Detail}]

DetectConflicts(st) ==
    IF /\ st.value["dietary_constraints"] = "veg"
       /\ "meat" \in {st.value["ingredients"], st.value["preferences"]}
    THEN [st EXCEPT !.status["dietary_constraints"] = "conflicting"]
    ELSE st

RecomputeOutcome(st) ==
    LET blocked == ~ IsConflicting(st) /\ st.blockers \cap BlockedCodes # {}
        ready == ~ blocked /\ RetrievalReady(st)
    IN  [st EXCEPT !.ready = ready,
                   !.outcome = IF blocked THEN "blocked"
                               ELSE IF ready THEN "ready_for_retrieval"
                               ELSE "needs_clarification"]

ApplyAnswers(st, batch) ==
    LET applied == FoldLeft(ApplyOne, st, batch)
        checked == DetectConflicts(InvalidateDependents(applied))
    IN  RecomputeOutcome([checked EXCEPT !.blockers = Blockers(checked)])

-----------------------------------------------------------------------------
(***************************************************************************)
(* A proposal of the model: state updates, each with a value and whether a *)
(* quote of the user message supports it, and at most one question.  An    *)
(* explicit field is never changed: the proposed value waits for the user  *)
(* in a confirmation, one per field.                                       *)
(***************************************************************************)
Confirm(target, n) == [kind |-> "confirm", target |-> target, seq |-> n]

ApplyUpdate(acc, u) ==
    LET st == acc.st
        q == Confirm(u.target, Len(acc.confirms) + 1)
        waiting == \E i \in DOMAIN st.confirmations :
                      /\ st.confirmations[i].target = u.target
                      /\ st.confirmations[i].status = "pending"
        gate == [target |-> u.target, proposed |-> u.value, question |-> q, status |-> "pending"]
    IN  IF st.status[u.target] \in Explicit
        THEN IF waiting THEN acc
             ELSE [st |-> [st EXCEPT !.confirmations = Append(@, gate)],
                   confirms |-> Append(acc.confirms, q)]
        ELSE IF u.grounded THEN [acc EXCEPT !.st = SetTypedValue(st, u.target, u.value)]
        ELSE acc

Accepted(st, asks) ==
    LET answered == {q.target : q \in AnsweredIds(st)}
        open == {t \in asks : st.status[t] \notin {"provided", "no_preference"}} \ answered
    IN  {[kind |-> "llm", target |-> t, seq |-> 1] : t \in open}

(***************************************************************************)
(* The outcome a plan stores.  The blockers are those the rules found      *)
(* before the proposal; a ready state keeps the blockers it carried.       *)
(***************************************************************************)
ApplyOutcome(st, outcome, blockers) ==
    LET merged == blockers \cup {c \in {"conflicting"} : IsConflicting(st)}
        carried == IF merged # {} THEN merged ELSE st.blockers
    IN  CASE IsConflicting(st) ->
               [st EXCEPT !.outcome = "needs_clarification", !.ready = FALSE,
                          !.blockers = carried]
          [] ~ IsConflicting(st) /\ merged \cap BlockedCodes # {} ->
               [st EXCEPT !.outcome = "blocked", !.ready = FALSE, !.blockers = merged]
          [] OTHER ->
               IF RetrievalReady(st)
               THEN [st EXCEPT !.outcome = "ready_for_retrieval", !.ready = TRUE]
               ELSE [st EXCEPT !.outcome = outcome, !.ready = FALSE, !.blockers = carried]

(***************************************************************************)
(* One plan.  A reply without updates and questions that is not ok stands  *)
(* for every rule-only exit: no provider, a failure, a malformed reply.    *)
(***************************************************************************)
PlanGroup(state, max, reply) ==
    LET st == IF state.blockers = {} THEN [state EXCEPT !.blockers = Blockers(state)] ELSE state
        rules == RuleQuestions(state, max)
        acc == FoldLeft(ApplyUpdate, [st |-> st, confirms |-> <<>>], reply.updates)
        required == {q \in ToSet(rules) : Required(q, state)}
        merged == Only(rules, required) \o acc.confirms
                  \o SetToSeq(Accepted(acc.st, reply.asks))
                  \o Only(rules, ToSet(rules) \ required)
        outcome == IF acc.st.ready \/ RetrievalReady(acc.st)
                   THEN "ready_for_retrieval" ELSE RuleOutcome(state)
    IN  IF reply.ok
        THEN [st |-> ApplyOutcome(acc.st, outcome, Blockers(state)),
              questions |-> Take(merged, max)]
        ELSE [st |-> ApplyOutcome(st, RuleOutcome(state), Blockers(state)),
              questions |-> rules]
=============================================================================
