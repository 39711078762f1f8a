------------------------------ MODULE PaidCases ------------------------------
(***************************************************************************)
(* scripts/recommendations_live/runner.py: a list of cases, each a paid    *)
(* call of the recommendation endpoint, run one after the other under a    *)
(* ceiling.  What became of each is kept in a state file that is rewritten *)
(* at every step, so that a later invocation goes on where one stopped or  *)
(* was killed.  Money is counted in units of a token's price.              *)
(***************************************************************************)
EXTENDS Integers, Sequences

CONSTANTS
  Count,                \* number of cases
  ToolCases,            \* those in tool mode
  MaxCaseTurns, Attempts,   \* rec_max_provider_turns, llm_rec_max_retries + 1
  CapBound,             \* 4 * llm_rec_max_input_chars
  SchemaMargin,         \* bytes of the tool's schema, and 256
  MaxOutput,            \* llm_rec_max_output_tokens
  PriceIn, PriceOut,
  Bytes,                \* what a dry run may measure
  CaseCeilings,             \* --ceiling-usd of the invocations
  Answers,              \* what the endpoint may answer
  Unknown               \* usage the provider did not report

VARIABLES
  file,       \* the state file: what each case has recorded
  torn,       \* it was killed in the middle of a write
  pc, at,     \* where the process is; the case it is at
  args,       \* --ceiling-usd, --retry-failed, --stop-on-failure
  spent, failures, stop,
  answer, record,   \* of the case under way
  fresh,      \* spent on calls of this invocation
  sent,       \* requests sent for each case, over all invocations
  limbo       \* cases whose process was killed while a request was under way

caseVars == <<file, torn, pc, at, args, spent, failures, stop, answer, record, fresh, sent, limbo>>
process == <<pc, at, args, spent, failures, stop, answer, record, fresh>>

Cases == 1 .. Count

-----------------------------------------------------------------------------
(* Reservation and bills.                                                  *)

\* The bytes of a turn's input, which bound its tokens.
TurnBounds(c, bytes) ==
  IF c \notin ToolCases THEN << IF bytes > 0 THEN bytes ELSE CapBound >>
  ELSE LET first == IF bytes > 0 THEN bytes + SchemaMargin ELSE CapBound
       IN IF MaxCaseTurns > 1 THEN << first, CapBound + MaxOutput >> ELSE << first >>

\* Every attempt of a turn.
Share(bound) == Attempts * (bound * PriceIn) + Attempts * (MaxOutput * PriceOut)
Reservation(bounds) ==
  Share(bounds[1]) + (IF Len(bounds) > 1 THEN Share(bounds[2]) ELSE 0)

\* _turn_bound_cost: the input once, the output for the attempts made.
BoundCost(bound, attempts) == bound * PriceIn + attempts * (MaxOutput * PriceOut)

Known(turn) == turn.input # Unknown /\ turn.output # Unknown

TurnBill(turns, i, bounds) ==
  IF i \notin DOMAIN turns THEN 0
  ELSE IF Known(turns[i]) THEN turns[i].input * PriceIn + turns[i].output * PriceOut
  ELSE BoundCost(bounds[i], turns[i].attempts)

\* No case has more than two turns.
BillOfTurns(turns, bounds) == TurnBill(turns, 1, bounds) + TurnBill(turns, 2, bounds)

Unbounded(turns, bounds) ==
  \E i \in DOMAIN turns : ~Known(turns[i]) /\ i \notin DOMAIN bounds

BillUsage(turns, bounds) ==
  IF turns = << >> \/ Unbounded(turns, bounds) THEN Reservation(bounds)
  ELSE BillOfTurns(turns, bounds)

\* turns: those before the one that failed, of which attempts were sent.
BillFailure(turns, attempts, bounds) ==
  IF Unbounded(turns, bounds) THEN Reservation(bounds)
  ELSE IF turns # << >> /\ attempts = 0 THEN BillOfTurns(turns, bounds)
  ELSE IF turns = << >> /\ attempts > 0 THEN Reservation(bounds)
  ELSE IF Len(turns) + 1 \notin DOMAIN bounds THEN Reservation(bounds)
  ELSE BillOfTurns(turns, bounds) + BoundCost(bounds[Len(turns) + 1], attempts)

-----------------------------------------------------------------------------
(* Answers of the endpoint and their grades.                               *)

Turns == [attempts : 0 .. Attempts, input : Nat \cup {Unknown}, output : Nat \cup {Unknown}]

Access == {"provider_auth", "provider_not_found"}
ReachedButUnbilled == Access \cup {"provider_rate_limited"}
Unbilled == ReachedButUnbilled \cup { "generation_disabled", "corpus_unavailable",
                                      "unknown_group", "stale", "malformed" }
Stopping == Access \cup {"provider_internal_error"}

CaseOutcomes == {"recommendation", "clarification", "insufficient_evidence"}

\* usage: a provider was called; meta: the error says what was sent;
\* faithful: the recipe is the stored one, as far as that was checked.
AnswerForms ==
  [ code : Nat, usage : BOOLEAN, turns : Seq(Turns), attempts : 0 .. Attempts,
    meta : BOOLEAN, sent : BOOLEAN, reason : STRING, outcome : STRING,
    gradable : BOOLEAN, unsupported : BOOLEAN, faithful : BOOLEAN, expected : BOOLEAN ]

\* Every token spans a byte at least, and a turn's output has its limit.
Fits(a, bounds) ==
  /\ Len(a.turns) <= Len(bounds)
  /\ \A i \in DOMAIN a.turns :
       Known(a.turns[i]) => a.turns[i].input <= bounds[i] /\ a.turns[i].output <= MaxOutput

Reached(a) == IF a.meta THEN a.sent ELSE a.reason \in ReachedButUnbilled

Paid(a) ==
  IF a.code = 200 THEN a.usage
  ELSE Reached(a) /\ a.reason \notin Unbilled /\ a.code \notin {404, 409, 422}

Bill(a, bounds) ==
  IF ~Paid(a) THEN 0
  ELSE IF a.code = 200 THEN BillUsage(a.turns, bounds)
  ELSE BillFailure(a.turns, a.attempts, bounds)

\* _grade_live_content.  If grading fails nothing of it is recorded.
Grades(a, bounds) ==
  IF a.gradable THEN [paid |-> Paid(a), spent |-> Bill(a, bounds)]
  ELSE [paid |-> FALSE, spent |-> 0]

-----------------------------------------------------------------------------

NoRecord == [status |-> "none", final |-> FALSE, paid |-> FALSE, spent |-> 0]
Entry(status, grades) ==
  [status |-> status, final |-> FALSE, paid |-> grades.paid, spent |-> grades.spent]
NoGrades == [paid |-> FALSE, spent |-> 0]

Bounds(c) == TurnBounds(c, file[c].dry)

CaseInit ==
  /\ file = [c \in Cases |-> [dry |-> 0, live |-> NoRecord]] /\ torn = FALSE
  /\ pc = "off" /\ at = 1 /\ spent = 0 /\ failures = 0 /\ stop = "none"
  /\ args \in [ceiling : CaseCeilings, retry : BOOLEAN, strict : BOOLEAN]
  /\ answer \in Answers /\ record = NoGrades
  /\ fresh = 0 /\ sent = [c \in Cases |-> 0] /\ limbo = {}

Saves(c, entry) == file' = [file EXCEPT ![c].live = entry]

\* A dry run measures the payload of a case and sends nothing.
Dry(c, bytes) ==
  /\ pc = "off" /\ ~torn
  /\ file' = [file EXCEPT ![c].dry = bytes]
  /\ UNCHANGED <<torn, process, sent, limbo>>

\* A state file that is not JSON stops an invocation before anything.
Start(given) ==
  /\ pc = "off" /\ ~torn /\ given.ceiling > 0
  /\ pc' = "loop" /\ at' = 1 /\ args' = given /\ spent' = 0 /\ failures' = 0
  /\ stop' = "none" /\ fresh' = 0
  /\ UNCHANGED <<file, torn, answer, record, sent, limbo>>

Live(c) == file[c].live

Ends(reason) == pc' = "off" /\ stop' = reason

\* Delivery is unknown: only a reviewer may clear it.
NeedsReview ==
  /\ pc = "loop" /\ at \in Cases
  /\ Live(at).status = "submitting" /\ ~Live(at).final
  /\ Ends("needs-review")
  /\ UNCHANGED <<file, torn, at, args, spent, failures, answer, record, fresh, sent, limbo>>

Recorded(c) == Live(c).final /\ (Live(c).paid \/ ~args.retry)

Skip ==
  /\ pc = "loop" /\ at \in Cases /\ Recorded(at)
  /\ spent' = spent + Live(at).spent /\ at' = at + 1
  /\ UNCHANGED <<file, torn, pc, args, failures, stop, answer, record, fresh, sent, limbo>>

Open(c) == ~Recorded(c) /\ ~(Live(c).status = "submitting" /\ ~Live(c).final)

Ceiling ==
  /\ pc = "loop" /\ at \in Cases /\ Open(at)
  /\ spent + Reservation(Bounds(at)) > args.ceiling
  /\ Ends("ceiling")
  /\ UNCHANGED <<file, torn, at, args, spent, failures, answer, record, fresh, sent, limbo>>

\* The clarification of the case is prepared first and may fail; then the file
\* is written before the request is sent.
SetupFails ==
  /\ pc = "loop" /\ at \in Cases /\ Open(at) /\ Ends("crashed")
  /\ UNCHANGED <<file, torn, at, args, spent, failures, answer, record, fresh, sent, limbo>>

Submit ==
  /\ pc = "loop" /\ at \in Cases /\ Open(at)
  /\ spent + Reservation(Bounds(at)) <= args.ceiling
  /\ Saves(at, Entry("submitting", NoGrades))
  /\ pc' = "sent" /\ sent' = [sent EXCEPT ![at] = @ + 1]
  /\ UNCHANGED <<torn, at, args, spent, failures, stop, answer, record, fresh, limbo>>

\* An exception instead of an answer is recorded and ends the run.
AnswerLost ==
  /\ pc = "sent" /\ Saves(at, Entry("submission-unknown", NoGrades))
  /\ Ends("crashed")
  /\ UNCHANGED <<torn, at, args, spent, failures, answer, record, fresh, sent, limbo>>

Answered ==
  /\ pc = "sent" /\ pc' = "received"
  /\ answer' \in {a \in Answers : Fits(a, Bounds(at))}
  /\ Saves(at, Entry("received", NoGrades))
  /\ UNCHANGED <<torn, at, args, spent, failures, stop, record, fresh, sent, limbo>>

Grade ==
  /\ pc = "received" /\ pc' = "graded"
  /\ record' = Grades(answer, Bounds(at))
  /\ Saves(at, Entry("received", record'))
  /\ UNCHANGED <<torn, at, args, spent, failures, stop, answer, fresh, sent, limbo>>

\* A paid case without an outcome; any other resets the count.
Failed == record.paid /\ (answer.code # 200 \/ answer.outcome \notin CaseOutcomes)
StopsRun == answer.code # 200 /\ answer.reason \in Stopping

\* Why the run ends after the case, in the order it is asked.
Reason(count) ==
  IF ~answer.gradable THEN "grading-error"
  ELSE IF answer.unsupported THEN "unsupported-claim"
  ELSE IF args.strict /\ ~answer.expected THEN "case-failed"
  ELSE IF ~answer.faithful THEN "fidelity-mismatch"
  ELSE IF ~Failed /\ StopsRun THEN "access-or-internal"
  ELSE IF count >= 3 THEN "consecutive-failures" ELSE "none"

FinishCase ==
  /\ pc = "graded"
  /\ spent' = spent + record.spent /\ fresh' = fresh + record.spent
  /\ Saves(at, [Entry("received", record) EXCEPT !.final = TRUE])
  /\ failures' = IF Failed THEN failures + 1 ELSE 0
  /\ stop' = Reason(failures')
  /\ pc' = IF stop' = "none" THEN "loop" ELSE "off"
  /\ at' = at + 1
  /\ UNCHANGED <<torn, args, answer, record, sent, limbo>>

Done ==
  /\ pc = "loop" /\ at \notin Cases /\ Ends("none")
  /\ UNCHANGED <<file, torn, at, args, spent, failures, answer, record, fresh, sent, limbo>>

\* Killed, maybe while the file is being written.
Kill(writing) ==
  /\ pc # "off" /\ Ends("killed")
  /\ torn' = writing
  /\ limbo' = IF pc = "sent" THEN limbo \cup {at} ELSE limbo
  /\ UNCHANGED <<file, at, args, spent, failures, answer, record, fresh, sent>>

CaseNext ==
  \/ \E c \in Cases, bytes \in Bytes : Dry(c, bytes)
  \/ \E given \in [ceiling : CaseCeilings, retry : BOOLEAN, strict : BOOLEAN] : Start(given)
  \/ NeedsReview \/ Skip \/ Ceiling \/ SetupFails \/ Submit \/ AnswerLost \/ Answered
  \/ Grade \/ FinishCase \/ Done
  \/ \E writing \in BOOLEAN : Kill(writing)

CaseSpec == CaseInit /\ [][CaseNext]_caseVars
=============================================================================
