-------------------------- MODULE MCBatchScheduler --------------------------
(* Instances of BatchScheduler for TLC: two fresh runs of one record each,   *)
(* queued in order.  The rules that decide what an answer becomes             *)
(* (ResponseRules) have no state; they are compared with what they promise    *)
(* for all small answers of a source of two lines.                            *)
EXTENDS BatchScheduler, ResponseRules, TLC

CONSTANTS f1, f2, s1, s2

TwoRuns == f1 :> {s1} @@ f2 :> {s2}

InOrder == <<f1, f2>>

-----------------------------------------------------------------------------
\* "1 g salt" and "2 eggs".
TwoLines == [ lines |-> {1, 2}, numbers |-> 1 :> {1} @@ 2 :> {2},
              units |-> 1 :> {"g"} @@ 2 :> {}, glued |-> {},
              servings |-> {}, yields |-> {} ]

Item(line, quoted, value, numbers, unit, uncertain) ==
  [ line |-> line, refs |-> {line}, quoted |-> quoted, value |-> value,
    numbers |-> numbers, exact |-> numbers # {}, range |-> FALSE,
    uncertain |-> uncertain, qualitative |-> FALSE, unit |-> unit, word |-> None,
    measured |-> FALSE, numbered |-> FALSE, invents |-> FALSE ]

Items == { Item(l, q, v, n, u, b) : l \in {1, 2}, q \in {"found", "elsewhere"},
           v \in {None, 1, 2}, n \in {{}, {1}}, u \in {None, "g", "count"}, b \in BOOLEAN }

Answer(items, status) ==
  [ sameId |-> TRUE, sameHash |-> TRUE, sameVersions |-> TRUE, status |-> status,
    ingredients |-> items, steps |-> << >>, headings |-> << >>, unclassified |-> {},
    told |-> {}, servings |-> None, yield |-> None, tempsKnown |-> TRUE, url |-> FALSE,
    boundary |-> None, titled |-> FALSE, hasDurations |-> TRUE, named |-> {} ]

Answer1 == { Answer(items, s) : items \in [1 .. 1 -> Items],
                                s \in {"resolved", "partially_resolved"} }
Answer2 == { Answer(<<i, j>>, "resolved") :
               i \in { k \in Items : k.quoted = "found" /\ k.line = 1 },
               j \in { k \in Items : k.quoted = "found" } }

Occurrence(line, amount) ==
  [ line |-> line, text |-> line, amount |-> amount, unit |-> "count",
    qualitative |-> FALSE, unclear |-> FALSE, numbered |-> FALSE ]

Parses == { [ parsed |-> TRUE, hasSteps |-> TRUE, hasGroups |-> TRUE, servings |-> 4,
              yield |-> None, titled |-> TRUE, hasDurations |-> TRUE, headings |-> {},
              occurrences |-> {Occurrence(1, a), Occurrence(2, b)} ] :
              a \in {None, 1}, b \in {None, 1, 2} }

Asked == { [ requested |-> r, ingredients |-> {1, 2}, steps |-> {}, headings |-> {},
             prose |-> {} ] : r \in {None, {1}, {1, 2}} }

\* A row that is loaded and declared scalable has every amount and unit from
\* the line it stands for (llm_validate.py, llm_batch.py).
ASSUME ScalableRowsHold ==
  \A ask \in Asked, det \in Parses, resp \in Answer1 \cup Answer2 :
    LET verdict == ValidateResponse(TwoLines, ask, Baseline(det), resp).verdict
        merged  == MergeResponse(ask, resp, det, verdict)
    IN RecordState(TwoLines, ask, det, resp, TRUE) = "ready_to_load"
         /\ merged.capabilities.scalable =>
         \A g \in merged.ingredients :
           g.amount \in TwoLines.numbers[g.text]
             /\ (g.unit = "count" \/ g.unit \in TwoLines.units[g.text])

\* It takes the look at the merged row: a value without an amount text, or
\* one the parser got wrong, passes the validator.
ASSUME ValidatorAloneIsNotEnough ==
  \E ask \in Asked, det \in Parses, resp \in Answer1 :
    /\ ValidateResponse(TwoLines, ask, Baseline(det), resp).verdict = "accepted"
    /\ RecordState(TwoLines, ask, det, resp, TRUE) = "unresolved"

\* Routing is total: whatever the parser found, a record has one of the three
\* routes, and no audit takes one out of quarantine (routing.py).
SmallRecords ==
  [ lines : {{1}, {1, 2}}, multi : BOOLEAN, long : BOOLEAN,
    parse : {"ok", "summary_layout_missing_title", "failed"},
    issues : SUBSET Issues, glued : {FALSE}, dropped : BOOLEAN,
    notesOnly : {FALSE}, conflict : {FALSE}, looseDurations : BOOLEAN,
    untraceable : BOOLEAN, asked : {{}, {1}}, traced : {{1, 2}},
    servings : {FALSE}, servingsSaid : BOOLEAN, steps : {TRUE} ]

ASSUME RoutingIsTotal ==
  \A rec \in SmallRecords, durations \in BOOLEAN :
    LET routed == RouteRecord(rec, durations) IN
    /\ routed.route \in Routes
    /\ routed.route # "deterministic_accept" => routed.reasons # {}
    /\ RoutePilot(<<rec>>, durations, 50)
         = { <<IF routed.route = "deterministic_accept"
               THEN [route |-> "needs_llm", reasons |-> {"audit_sample"}, audit |-> TRUE]
               ELSE routed>> }

\* Segments lose no line of the text (llm_batch.py, _segment).
ASSUME SegmentsCover ==
  \A n \in 1 .. 7, pieces \in 0 .. 8 :
    LET cut == Segments([i \in 1 .. n |-> i], pieces) IN
    /\ UNION { {cut[k][i] : i \in DOMAIN cut[k]} : k \in DOMAIN cut } = 1 .. n
    /\ \A k \in DOMAIN cut : cut[k] # << >>
=============================================================================
