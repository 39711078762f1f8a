---------------------------- MODULE PaidWorkProofs ----------------------------
(* Work that is paid for and may be cut off at any moment: what the runner *)
(* of paid cases never spends and never sends twice, what the embedding of *)
(* the corpus never passes over, what the searches of a session leave on   *)
(* record, and how the money and the searches of a live run add up.        *)
EXTENDS PaidCases, CorpusEmbedding, SearchWeb, LiveRun, FoldLemmas

\* The numbers of an invocation: counts, prices and limits.
Sane ==
  /\ Count \in Nat /\ MaxCaseTurns \in Nat \ {0} /\ Attempts \in Nat \ {0}
  /\ CapBound \in Nat /\ SchemaMargin \in Nat /\ MaxOutput \in Nat
  /\ PriceIn \in Nat /\ PriceOut \in Nat
  /\ Bytes \subseteq Nat /\ CaseCeilings \subseteq Nat
  /\ Answers \subseteq AnswerForms /\ Unknown \notin Nat

-----------------------------------------------------------------------------
(* Bills.                                                                  *)

LEMMA Scaled ==
  ASSUME NEW a \in Nat, NEW b \in Nat, NEW k \in Nat, a <= b
  PROVE  a * k \in Nat /\ b * k \in Nat /\ a * k <= b * k
<1>1. PICK d \in Nat : b = a + d
  <2>1. b - a \in Nat /\ b = a + (b - a)  OBVIOUS
  <2> QED  BY <2>1
<1>2. b * k = a * k + d * k  BY <1>1
<1>3. a * k \in Nat /\ d * k \in Nat  OBVIOUS
<1> QED  BY <1>2, <1>3

LEMMA BoundsShape ==
  ASSUME Sane, NEW c, NEW bytes \in Nat
  PROVE  LET bounds == TurnBounds(c, bytes) IN
         /\ bounds \in Seq(Nat) /\ Len(bounds) \in {1, 2} /\ bounds[1] \in Nat
         /\ Len(bounds) = 2 => bounds[2] \in Nat
  BY DEF Sane, TurnBounds

LEMMA ShareCovers ==
  ASSUME Sane, NEW limit \in Nat
  PROVE  /\ Share(limit) \in Nat
         /\ \A n \in 0 .. Attempts :
              BoundCost(limit, n) \in Nat /\ BoundCost(limit, n) <= Share(limit)
         /\ \A i, o \in Nat : i <= limit /\ o <= MaxOutput =>
              /\ i * PriceIn + o * PriceOut \in Nat
              /\ i * PriceIn + o * PriceOut <= Share(limit)
<1> DEFINE in == limit * PriceIn
           out == MaxOutput * PriceOut
<1>0. Attempts \in Nat /\ 1 <= Attempts /\ PriceIn \in Nat /\ PriceOut \in Nat /\ MaxOutput \in Nat
  BY DEF Sane
<1>1. in \in Nat /\ out \in Nat  BY <1>0
<1>2. Share(limit) = Attempts * in + Attempts * out  BY DEF Share
<1> HIDE DEF in, out
<1>3. 1 * in <= Attempts * in /\ 1 * out <= Attempts * out /\ Attempts * in \in Nat
      /\ Attempts * out \in Nat
  BY <1>0, <1>1, Scaled
<1>4. in <= Attempts * in /\ out <= Attempts * out  BY <1>1, <1>3
<1>5. ASSUME NEW n \in 0 .. Attempts
      PROVE  BoundCost(limit, n) \in Nat /\ BoundCost(limit, n) <= Share(limit)
  <2>1. n * out <= Attempts * out /\ n * out \in Nat  BY <1>0, <1>1, Scaled
  <2>2. BoundCost(limit, n) = in + n * out  BY DEF BoundCost, in, out
  <2> QED  BY <1>1, <1>2, <1>3, <1>4, <2>1, <2>2
<1>6. ASSUME NEW i \in Nat, NEW o \in Nat, i <= limit, o <= MaxOutput
      PROVE  /\ i * PriceIn + o * PriceOut \in Nat
             /\ i * PriceIn + o * PriceOut <= Share(limit)
  <2>1. i * PriceIn \in Nat /\ i * PriceIn <= in  BY <1>0, <1>6, Scaled DEF in
  <2>2. o * PriceOut \in Nat /\ o * PriceOut <= out  BY <1>0, <1>6, Scaled DEF out
  <2>3. i * PriceIn <= Attempts * in  BY <1>1, <1>3, <1>4, <2>1
  <2>4. o * PriceOut <= Attempts * out  BY <1>1, <1>3, <1>4, <2>2
  <2> QED  BY <1>2, <1>3, <2>1, <2>2, <2>3, <2>4
<1>7. Share(limit) \in Nat  BY <1>2, <1>3
<1> QED  BY <1>5, <1>6, <1>7

LEMMA TurnWithinShare ==
  ASSUME Sane, NEW a \in AnswerForms, NEW bounds \in Seq(Nat), Fits(a, bounds),
         NEW i \in DOMAIN bounds
  PROVE  /\ TurnBill(a.turns, i, bounds) \in Nat
         /\ TurnBill(a.turns, i, bounds) <= Share(bounds[i])
<1>0. bounds[i] \in Nat  OBVIOUS
<1>1. bounds[i] \in Nat /\ Share(bounds[i]) \in Nat  BY <1>0, ShareCovers
<1>2. CASE i \notin DOMAIN a.turns  BY <1>1, <1>2 DEF TurnBill
<1>3. CASE i \in DOMAIN a.turns
  <2>1. a.turns \in Seq(Turns)  BY DEF AnswerForms
  <2>2. a.turns[i] \in Turns  BY <1>3, <2>1
  <2>3. CASE Known(a.turns[i])
    <3>1. a.turns[i].input \in Nat /\ a.turns[i].output \in Nat
      BY <2>2, <2>3 DEF Turns, Known
    <3>2. a.turns[i].input <= bounds[i] /\ a.turns[i].output <= MaxOutput
      BY <1>3, <2>3 DEF Fits
    <3> QED  BY <1>1, <1>3, <2>3, <3>1, <3>2, ShareCovers DEF TurnBill
  <2>4. CASE ~Known(a.turns[i])
    <3>1. a.turns[i].attempts \in 0 .. Attempts  BY <2>2 DEF Turns
    <3> QED  BY <1>1, <1>3, <2>4, <3>1, ShareCovers DEF TurnBill
  <2> QED  BY <2>3, <2>4
<1> QED  BY <1>2, <1>3

\* Whatever is reported of a call, and whatever is missing in the report, it
\* is billed no more than was reserved before it was sent: the ceiling, which
\* is checked against the reservation, covers it (_bill_usage, _bill_failure,
\* reserve_for_case).
THEOREM BilledWithinReservation ==
  ASSUME Sane, NEW c, NEW bytes \in Nat, NEW a \in AnswerForms,
         Fits(a, TurnBounds(c, bytes))
  PROVE  LET bounds == TurnBounds(c, bytes) IN
         /\ Bill(a, bounds) \in Nat /\ Reservation(bounds) \in Nat
         /\ Bill(a, bounds) <= Reservation(bounds)
<1> DEFINE bounds == TurnBounds(c, bytes)
<1>1. /\ bounds \in Seq(Nat) /\ Len(bounds) \in {1, 2} /\ bounds[1] \in Nat
      /\ Len(bounds) = 2 => bounds[2] \in Nat
  BY BoundsShape
<1>2. Fits(a, bounds)  OBVIOUS
<1> HIDE DEF bounds
<1>3. a.turns \in Seq(Turns) /\ Len(a.turns) <= Len(bounds) /\ Len(a.turns) \in Nat
      /\ DOMAIN a.turns = 1 .. Len(a.turns) /\ DOMAIN bounds = 1 .. Len(bounds)
  BY <1>1, <1>2 DEF AnswerForms, Fits
<1>4. Share(bounds[1]) \in Nat  BY <1>1, ShareCovers
<1>5. Len(bounds) = 2 => Share(bounds[2]) \in Nat  BY <1>1, ShareCovers
<1>6. Reservation(bounds) \in Nat  BY <1>1, <1>4, <1>5 DEF Reservation
<1>7. TurnBill(a.turns, 1, bounds) \in Nat /\ TurnBill(a.turns, 1, bounds) <= Share(bounds[1])
  BY <1>1, <1>2, <1>3, TurnWithinShare
<1>8. Len(bounds) = 2 => /\ TurnBill(a.turns, 2, bounds) \in Nat
                         /\ TurnBill(a.turns, 2, bounds) <= Share(bounds[2])
  BY <1>1, <1>2, <1>3, TurnWithinShare
<1>9. Len(a.turns) < 2 => TurnBill(a.turns, 2, bounds) = 0  BY <1>3 DEF TurnBill
<1>10. a.turns = << >> => TurnBill(a.turns, 1, bounds) = 0  BY <1>3 DEF TurnBill
<1>11. BillOfTurns(a.turns, bounds) \in Nat /\ BillOfTurns(a.turns, bounds) <= Reservation(bounds)
  <2>1. CASE Len(bounds) = 1  BY <1>1, <1>3, <1>4, <1>7, <1>9, <2>1 DEF BillOfTurns, Reservation
  <2>2. CASE Len(bounds) = 2  BY <1>1, <1>4, <1>5, <1>7, <1>8, <2>2 DEF BillOfTurns, Reservation
  <2> QED  BY <1>1, <2>1, <2>2
<1>12. BillUsage(a.turns, bounds) \in Nat /\ BillUsage(a.turns, bounds) <= Reservation(bounds)
  BY <1>6, <1>11 DEF BillUsage
<1>13. a.attempts \in 0 .. Attempts  BY DEF AnswerForms
<1>14. /\ BillFailure(a.turns, a.attempts, bounds) \in Nat
       /\ BillFailure(a.turns, a.attempts, bounds) <= Reservation(bounds)
  <2>1. CASE Len(a.turns) + 1 \notin DOMAIN bounds
    BY <1>6, <1>11, <2>1 DEF BillFailure
  <2>2. CASE Len(a.turns) = 0 /\ Len(a.turns) + 1 \in DOMAIN bounds
    <3>1. BoundCost(bounds[1], a.attempts) \in Nat
          /\ BoundCost(bounds[1], a.attempts) <= Share(bounds[1])
      BY <1>1, <1>13, ShareCovers
    <3>2. Share(bounds[1]) <= Reservation(bounds)
      BY <1>1, <1>4, <1>5 DEF Reservation
    <3>3. a.turns = << >>  BY <1>3, <2>2
    <3>4. BillOfTurns(a.turns, bounds) = 0  BY <1>9, <1>10, <2>2, <3>3 DEF BillOfTurns
    <3>5. BillOfTurns(a.turns, bounds) + BoundCost(bounds[Len(a.turns) + 1], a.attempts)
            = BoundCost(bounds[1], a.attempts)
      BY <2>2, <3>1, <3>4
    <3> QED  BY <1>4, <1>6, <1>11, <3>1, <3>2, <3>5 DEF BillFailure
  <2>3. CASE Len(a.turns) = 1 /\ Len(a.turns) + 1 \in DOMAIN bounds
    <3>1. Len(bounds) = 2 /\ bounds[2] \in Nat  BY <1>1, <1>3, <2>3
    <3>2. BoundCost(bounds[2], a.attempts) \in Nat
          /\ BoundCost(bounds[2], a.attempts) <= Share(bounds[2])
      BY <1>13, <3>1, ShareCovers
    <3>3. BillOfTurns(a.turns, bounds) = TurnBill(a.turns, 1, bounds)
      BY <1>7, <1>9, <2>3 DEF BillOfTurns
    <3>4. Reservation(bounds) = Share(bounds[1]) + Share(bounds[2])
      BY <1>1, <3>1 DEF Reservation
    <3>5. BillOfTurns(a.turns, bounds) + BoundCost(bounds[Len(a.turns) + 1], a.attempts)
            = TurnBill(a.turns, 1, bounds) + BoundCost(bounds[2], a.attempts)
      BY <2>3, <3>3
    <3>6. /\ TurnBill(a.turns, 1, bounds) + BoundCost(bounds[2], a.attempts) \in Nat
          /\ TurnBill(a.turns, 1, bounds) + BoundCost(bounds[2], a.attempts)
               <= Reservation(bounds)
      BY <1>4, <1>5, <1>7, <3>1, <3>2, <3>4
    <3> QED  BY <1>6, <1>11, <3>5, <3>6 DEF BillFailure
  <2>4. \/ Len(a.turns) + 1 \notin DOMAIN bounds
        \/ Len(a.turns) = 0 \/ Len(a.turns) = 1
    <3> DEFINE t == Len(a.turns)  b == Len(bounds)
    <3>1. t \in Nat /\ t <= b /\ (b = 1 \/ b = 2) /\ DOMAIN bounds = 1 .. b  BY <1>1, <1>3
    <3> HIDE DEF t, b
    <3>2. t + 1 \notin 1 .. b \/ t = 0 \/ t = 1  BY <3>1
    <3> QED  BY <3>1, <3>2 DEF t
  <2> QED  BY <2>1, <2>2, <2>3, <2>4
<1>15. Bill(a, bounds) \in Nat /\ Bill(a, bounds) <= Reservation(bounds)
  BY <1>6, <1>12, <1>14 DEF Bill
<1> QED  BY <1>6, <1>15 DEF bounds
-----------------------------------------------------------------------------
(* Runs.                                                                   *)

Statuses == {"none", "submitting", "submission-unknown", "received"}
Entries == [status : Statuses, final : BOOLEAN, paid : BOOLEAN, spent : Nat]

Types ==
  /\ file \in [Cases -> [dry : Nat, live : Entries]]
  /\ pc \in {"off", "loop", "sent", "received", "graded"} /\ at \in Nat \ {0}
  /\ args \in [ceiling : Nat, retry : BOOLEAN, strict : BOOLEAN]
  /\ spent \in Nat /\ fresh \in Nat /\ fresh <= spent
  /\ answer \in AnswerForms /\ record \in [paid : BOOLEAN, spent : Nat]
  /\ sent \in [Cases -> Nat] /\ limbo \subseteq Cases

Unsettled(c) == Live(c).status = "submitting" /\ ~Live(c).final

\* A case is under way: its reservation is free, and nothing final is
\* recorded of it.
UnderWay ==
  pc \in {"sent", "received", "graded"} =>
    /\ at \in Cases /\ at \notin limbo /\ ~Live(at).final
    /\ spent + Reservation(Bounds(at)) <= args.ceiling
    /\ pc = "sent" => Live(at).status = "submitting"
    /\ pc = "received" => Fits(answer, Bounds(at))
    /\ pc = "graded" => record.spent <= Reservation(Bounds(at))

WithinCeiling == fresh <= args.ceiling
LimboKnown == \A c \in limbo : Unsettled(c)

IInv == Types /\ UnderWay /\ WithinCeiling /\ LimboKnown

LEMMA ReservationIsNat ==
  ASSUME Sane, Types, NEW c \in Cases
  PROVE  Reservation(Bounds(c)) \in Nat
<1>1. file[c].dry \in Nat  BY DEF Types
<1> DEFINE bounds == TurnBounds(c, file[c].dry)
<1>2. /\ Len(bounds) \in {1, 2} /\ bounds[1] \in Nat
      /\ Len(bounds) = 2 => bounds[2] \in Nat
  BY <1>1, BoundsShape
<1>3. Share(bounds[1]) \in Nat  BY <1>2, ShareCovers
<1>4. Len(bounds) = 2 => Share(bounds[2]) \in Nat  BY <1>2, ShareCovers
<1>5. Reservation(bounds) \in Nat
  <2> HIDE DEF bounds
  <2> QED  BY <1>2, <1>3, <1>4 DEF Reservation
<1> QED  BY <1>5 DEF Bounds

LEMMA InitInv == ASSUME Sane, CaseInit PROVE IInv
<1>1. Types
  <2>1. NoRecord \in Entries  BY DEF NoRecord, Entries, Statuses
  <2>2. args \in [ceiling : Nat, retry : BOOLEAN, strict : BOOLEAN]  BY DEF CaseInit, Sane
  <2>3. answer \in AnswerForms  BY DEF CaseInit, Sane
  <2>4. record \in [paid : BOOLEAN, spent : Nat]  BY DEF CaseInit, NoGrades
  <2> QED  BY <2>1, <2>2, <2>3, <2>4 DEF CaseInit, Types
<1>2. WithinCeiling  BY <1>1 DEF CaseInit, Types, WithinCeiling
<1> QED  BY <1>1, <1>2 DEF CaseInit, IInv, UnderWay, LimboKnown

\* What an entry of the file written for the case under way leaves alone.
LEMMA Saved ==
  ASSUME Types, at \in Cases, NEW entry \in Entries, Saves(at, entry)
  PROVE  /\ file' \in [Cases -> [dry : Nat, live : Entries]]
         /\ file'[at].live = entry
         /\ \A c \in Cases : file'[c].dry = file[c].dry
         /\ \A c \in Cases : c # at => file'[c].live = file[c].live
<1>1. file \in [Cases -> [dry : Nat, live : Entries]]  BY DEF Types
<1>2. file' = [file EXCEPT ![at] = [@ EXCEPT !.live = entry]]  BY DEF Saves
<1> QED  BY <1>1, <1>2

LEMMA NextInv == ASSUME Sane, IInv, [CaseNext]_caseVars PROVE IInv'
<1> USE DEF IInv
<1>1. ASSUME UNCHANGED caseVars PROVE IInv'
  BY <1>1 DEF caseVars, Types, UnderWay, WithinCeiling, LimboKnown, Unsettled, Live, Bounds
<1>2. ASSUME NEW c \in Cases, NEW bytes \in Bytes, Dry(c, bytes) PROVE IInv'
  <2>1. bytes \in Nat  BY DEF Sane
  <2>2. file' \in [Cases -> [dry : Nat, live : Entries]]
        /\ \A d \in Cases : file'[d].live = file[d].live
    BY <1>2, <2>1 DEF Dry, Types
  <2>3. Types'  BY <1>2, <2>2 DEF Dry, process, Types
  <2> QED  BY <1>2, <2>2, <2>3
    DEF Dry, process, Types, UnderWay, WithinCeiling, LimboKnown, Unsettled, Live
<1>3. ASSUME NEW given \in [ceiling : CaseCeilings, retry : BOOLEAN, strict : BOOLEAN], Start(given)
      PROVE  IInv'
  <2>1. given \in [ceiling : Nat, retry : BOOLEAN, strict : BOOLEAN]  BY DEF Sane
  <2> QED  BY <1>3, <2>1
    DEF Start, Types, UnderWay, WithinCeiling, LimboKnown, Unsettled, Live
<1>4. ASSUME NeedsReview \/ Ceiling \/ SetupFails \/ Done PROVE IInv'
  BY <1>4 DEF NeedsReview, Ceiling, SetupFails, Done, Ends, Types, UnderWay, WithinCeiling,
              LimboKnown, Unsettled, Live
<1>5. ASSUME Skip PROVE IInv'
  <2>1. Live(at).spent \in Nat  BY <1>5 DEF Skip, Types, Live, Entries
  <2> QED  BY <1>5, <2>1
    DEF Skip, Types, UnderWay, WithinCeiling, LimboKnown, Unsettled, Live
<1>6. ASSUME NEW writing \in BOOLEAN, Kill(writing) PROVE IInv'
  BY <1>6 DEF Kill, Ends, Types, UnderWay, WithinCeiling, LimboKnown, Unsettled, Live
<1>7. ASSUME Submit PROVE IInv'
  <2>1. Entry("submitting", NoGrades) \in Entries  BY DEF Entry, NoGrades, Entries, Statuses
  <2>2. at \in Cases /\ at \notin limbo
    BY <1>7 DEF Submit, Open, LimboKnown, Unsettled
  <2>3. /\ file' \in [Cases -> [dry : Nat, live : Entries]]
        /\ file'[at].live = Entry("submitting", NoGrades)
        /\ \A c \in Cases : file'[c].dry = file[c].dry
        /\ \A c \in Cases : c # at => file'[c].live = file[c].live
    BY <1>7, <2>1, <2>2, Saved DEF Submit
  <2>4. Types'
    <3>1. sent' \in [Cases -> Nat]  BY <1>7, <2>2 DEF Submit, Types
    <3> QED  BY <1>7, <2>3, <3>1 DEF Submit, Types
  <2>5. LimboKnown'
    BY <1>7, <2>2, <2>3 DEF Submit, Types, LimboKnown, Unsettled, Live
  <2>6. UnderWay'
    <3>1. file'[at].live.status = "submitting" /\ ~file'[at].live.final
      BY <2>3 DEF Entry
    <3>2. Bounds(at)' = Bounds(at)  BY <1>7, <2>2, <2>3 DEF Submit, Bounds
    <3> QED  BY <1>7, <2>2, <3>1, <3>2 DEF Submit, UnderWay, Live
  <2> QED  BY <1>7, <2>4, <2>5, <2>6 DEF Submit, WithinCeiling
<1>8. ASSUME AnswerLost PROVE IInv'
  <2>1. Entry("submission-unknown", NoGrades) \in Entries  BY DEF Entry, NoGrades, Entries, Statuses
  <2>2. at \in Cases /\ at \notin limbo  BY <1>8 DEF AnswerLost, UnderWay
  <2>3. /\ file' \in [Cases -> [dry : Nat, live : Entries]]
        /\ \A c \in Cases : c # at => file'[c].live = file[c].live
    BY <1>8, <2>1, <2>2, Saved DEF AnswerLost
  <2>4. Types'  BY <1>8, <2>3 DEF AnswerLost, Ends, Types
  <2>5. LimboKnown'
    BY <1>8, <2>2, <2>3 DEF AnswerLost, Types, LimboKnown, Unsettled, Live
  <2> QED  BY <1>8, <2>4, <2>5 DEF AnswerLost, Ends, UnderWay, WithinCeiling
<1>9. ASSUME Answered PROVE IInv'
  <2>1. Entry("received", NoGrades) \in Entries  BY DEF Entry, NoGrades, Entries, Statuses
  <2>2. at \in Cases /\ at \notin limbo  BY <1>9 DEF Answered, UnderWay
  <2>3. /\ file' \in [Cases -> [dry : Nat, live : Entries]]
        /\ file'[at].live = Entry("received", NoGrades)
        /\ \A c \in Cases : file'[c].dry = file[c].dry
        /\ \A c \in Cases : c # at => file'[c].live = file[c].live
    BY <1>9, <2>1, <2>2, Saved DEF Answered
  <2>4. Types'  BY <1>9, <2>3 DEF Answered, Types, Sane
  <2>5. LimboKnown'
    BY <1>9, <2>2, <2>3 DEF Answered, Types, LimboKnown, Unsettled, Live
  <2>6. UnderWay'
    <3>1. Bounds(at)' = Bounds(at)  BY <1>9, <2>2, <2>3 DEF Answered, Bounds
    <3>2. Fits(answer', Bounds(at))  BY <1>9 DEF Answered
    <3>3. Fits(answer, Bounds(at))'  BY <3>1, <3>2 DEF Fits
    <3>4. ~file'[at].live.final  BY <2>3 DEF Entry
    <3> QED  BY <1>9, <2>2, <3>1, <3>3, <3>4 DEF Answered, UnderWay, Live
  <2> QED  BY <1>9, <2>4, <2>5, <2>6 DEF Answered, WithinCeiling
<1>10. ASSUME Grade PROVE IInv'
  <2>0. at \in Cases /\ at \notin limbo /\ Fits(answer, Bounds(at)) /\ answer \in AnswerForms
    BY <1>10 DEF Grade, UnderWay, Types
  <2>1. Bill(answer, Bounds(at)) \in Nat /\ Bill(answer, Bounds(at)) <= Reservation(Bounds(at))
    <3>1. file[at].dry \in Nat  BY <2>0 DEF Types
    <3> QED  BY <2>0, <3>1, BilledWithinReservation DEF Bounds
  <2>2. record' \in [paid : BOOLEAN, spent : Nat] /\ record'.spent <= Reservation(Bounds(at))
    <3>1. Paid(answer) \in BOOLEAN  BY <2>0 DEF Paid, AnswerForms
    <3>2. Reservation(Bounds(at)) \in Nat  BY <2>0, ReservationIsNat
    <3>3. record' = Grades(answer, Bounds(at))  BY <1>10 DEF Grade
    <3> QED  BY <2>1, <3>1, <3>2, <3>3 DEF Grades
  <2>3. Entry("received", record') \in Entries  BY <2>2 DEF Entry, Entries, Statuses
  <2>4. /\ file' \in [Cases -> [dry : Nat, live : Entries]]
        /\ file'[at].live = Entry("received", record')
        /\ \A c \in Cases : file'[c].dry = file[c].dry
        /\ \A c \in Cases : c # at => file'[c].live = file[c].live
    BY <1>10, <2>0, <2>3, Saved DEF Grade
  <2>5. Types'  BY <1>10, <2>2, <2>4 DEF Grade, Types
  <2>6. LimboKnown'
    BY <1>10, <2>0, <2>4 DEF Grade, Types, LimboKnown, Unsettled, Live
  <2>7. UnderWay'
    <3>1. Bounds(at)' = Bounds(at)  BY <1>10, <2>0, <2>4 DEF Grade, Bounds
    <3>2. ~file'[at].live.final  BY <2>4 DEF Entry
    <3> QED  BY <1>10, <2>0, <2>2, <3>1, <3>2 DEF Grade, UnderWay, Live
  <2> QED  BY <1>10, <2>5, <2>6, <2>7 DEF Grade, WithinCeiling
<1>11. ASSUME FinishCase PROVE IInv'
  <2>0. at \in Cases /\ at \notin limbo /\ record.spent \in Nat
        /\ record \in [paid : BOOLEAN, spent : Nat]
    BY <1>11 DEF FinishCase, UnderWay, Types
  <2>1. [Entry("received", record) EXCEPT !.final = TRUE] \in Entries
    BY <2>0 DEF Entry, Entries, Statuses
  <2>2. /\ file' \in [Cases -> [dry : Nat, live : Entries]]
        /\ \A c \in Cases : c # at => file'[c].live = file[c].live
    BY <1>11, <2>0, <2>1, Saved DEF FinishCase
  <2>3. pc' \in {"loop", "off"}  BY <1>11 DEF FinishCase
  <2>4. Types'  BY <1>11, <2>0, <2>2, <2>3 DEF FinishCase, Types
  <2>5. LimboKnown'
    BY <1>11, <2>0, <2>2 DEF FinishCase, Types, LimboKnown, Unsettled, Live
  <2>6. WithinCeiling'
    <3>1. spent + record.spent <= args.ceiling
      BY <1>11, <2>0, ReservationIsNat DEF FinishCase, UnderWay, Types
    <3> QED  BY <1>11, <2>0, <3>1 DEF FinishCase, WithinCeiling, Types
  <2> QED  BY <2>3, <2>4, <2>5, <2>6 DEF UnderWay
<1> QED
  BY <1>1, <1>2, <1>3, <1>4, <1>5, <1>6, <1>7, <1>8, <1>9, <1>10, <1>11 DEF CaseNext

\* An invocation never spends more than its ceiling on its own calls, over
\* every order of retries, failures and kills (the check of _run_async
\* before a case is sent, with the bills of _grade_live_content).
THEOREM CeilingHolds == ASSUME Sane PROVE CaseSpec => [](fresh <= args.ceiling)
<1>1. CaseSpec => []IInv
  <2>1. CaseInit => IInv  BY InitInv
  <2>2. IInv /\ [CaseNext]_caseVars => IInv'  BY NextInv
  <2> QED  BY <2>1, <2>2, PTL DEF CaseSpec
<1>2. IInv => fresh <= args.ceiling  BY DEF IInv, WithinCeiling
<1> QED  BY <1>1, <1>2, PTL

LEMMA SendsOnlyTheOpen ==
  ASSUME IInv, [CaseNext]_caseVars, NEW c \in Cases, sent'[c] # sent[c]
  PROVE  Open(c) /\ c = at
<1>1. sent \in [Cases -> Nat]  BY DEF IInv, Types
<1>2. CASE Submit  BY <1>1, <1>2 DEF Submit
<1>3. CASE ~Submit
  <2>1. sent' = sent
    BY <1>3 DEF CaseNext, caseVars, process, Dry, Start, NeedsReview, Skip, Ceiling, SetupFails, AnswerLost,
                Answered, Grade, FinishCase, Done, Kill
  <2> QED  BY <2>1
<1> QED  BY <1>2, <1>3

\* A case whose request was under way when the process was killed is not
\* sent again by any later invocation, with or without --retry-failed
\* (the "submitting" mark is written before the request, and _run_async
\* refuses it).
THEOREM CrashedNeverRepeated ==
  ASSUME Sane
  PROVE  CaseSpec => [][\A c \in limbo : sent'[c] = sent[c]]_caseVars
<1>1. CaseSpec => []IInv
  <2>1. CaseInit => IInv  BY InitInv
  <2>2. IInv /\ [CaseNext]_caseVars => IInv'  BY NextInv
  <2> QED  BY <2>1, <2>2, PTL DEF CaseSpec
<1>2. IInv /\ [CaseNext]_caseVars => [\A c \in limbo : sent'[c] = sent[c]]_caseVars
  <2> SUFFICES ASSUME IInv, [CaseNext]_caseVars, NEW c \in limbo PROVE sent'[c] = sent[c]
    OBVIOUS
  <2>1. c \in Cases /\ Unsettled(c)  BY DEF IInv, Types, LimboKnown
  <2>2. ~Open(c)  BY <2>1 DEF Open, Unsettled
  <2> QED  BY <2>1, <2>2, SendsOnlyTheOpen
<1> QED  BY <1>1, <1>2, PTL DEF CaseSpec

\* A case that is recorded as paid and final is never sent again, and what
\* is recorded of it is never overwritten (_run_async, "already-recorded").
THEOREM PaidNeverRepeated ==
  ASSUME Sane
  PROVE  CaseSpec => [][\A c \in Cases : Live(c).final /\ Live(c).paid =>
                       sent'[c] = sent[c] /\ Live(c)' = Live(c)]_caseVars
<1>1. CaseSpec => []IInv
  <2>1. CaseInit => IInv  BY InitInv
  <2>2. IInv /\ [CaseNext]_caseVars => IInv'  BY NextInv
  <2> QED  BY <2>1, <2>2, PTL DEF CaseSpec
<1>2. IInv /\ [CaseNext]_caseVars =>
        [\A c \in Cases : Live(c).final /\ Live(c).paid =>
            sent'[c] = sent[c] /\ Live(c)' = Live(c)]_caseVars
  <2> SUFFICES ASSUME IInv, [CaseNext]_caseVars, NEW c \in Cases, Live(c).final, Live(c).paid
               PROVE  sent'[c] = sent[c] /\ file'[c].live = file[c].live
    BY DEF Live
  <2>1. ~Open(c)  BY DEF Open, Recorded
  <2>2. sent'[c] = sent[c]  BY <2>1, SendsOnlyTheOpen
  <2>3. file \in [Cases -> [dry : Nat, live : Entries]]  BY DEF IInv, Types
  <2>4. ASSUME NEW entry, at # c, Saves(at, entry) PROVE file'[c] = file[c]
    BY <2>3, <2>4 DEF Saves
  <2>5. CASE Submit
    BY <2>1, <2>4, <2>5 DEF Submit
  <2>6. CASE AnswerLost \/ Answered \/ Grade \/ FinishCase
    <3>1. at # c  BY <2>6 DEF AnswerLost, Answered, Grade, FinishCase, IInv, UnderWay
    <3> QED  BY <2>2, <2>4, <2>6, <3>1 DEF AnswerLost, Answered, Grade, FinishCase
  <2>7. ASSUME NEW d \in Cases, NEW bytes \in Bytes, Dry(d, bytes)
        PROVE  file'[c].live = file[c].live
    BY <2>3, <2>7 DEF Dry
  <2>8. CASE file' = file  BY <2>2, <2>8
  <2>9. \/ Submit \/ AnswerLost \/ Answered \/ Grade \/ FinishCase \/ file' = file
        \/ \E d \in Cases, bytes \in Bytes : Dry(d, bytes)
    BY DEF CaseNext, caseVars, Start, NeedsReview, Skip, Ceiling, SetupFails, Done, Kill
  <2> QED  BY <2>2, <2>5, <2>6, <2>7, <2>8, <2>9
<1> QED  BY <1>1, <1>2, PTL DEF CaseSpec

-----------------------------------------------------------------------------
(* The embedding of the corpus.                                            *)

\* One sweep at a time, and no item is given back an older text.
Undisturbed ==
  /\ \A v, w \in Sweepers : v = w
  /\ Versions \subseteq Int /\ None \notin Versions
  /\ ~MayRevert

Places == {"rest", "loaded", "claimed", "scanned", "planned", "embedded", "committed"}

SweepStates ==
  [at : Places, dir : Dirs \cup {None}, dry : BOOLEAN, mine : SweepLedgers,
   jobs : [Items -> Versions \cup {None}], again : SUBSET Items]

CorpusTypes ==
  /\ text \in [Items -> Versions \cup {None}]
  /\ newest \in [Items -> Versions]
  /\ stored \in [Items -> Versions \cup {None}]
  /\ ledgers \in [Dirs -> SweepLedgers \cup {None}]
  /\ sweep \in [Sweepers -> SweepStates]
  /\ \A w \in Sweepers : sweep[w].at # "rest" => sweep[w].dir \in Dirs

\* What is in the table is the newest; a vector belongs to a row.
RowsInOrder ==
  \A i \in Items : /\ text[i] \in {None, newest[i]}
                   /\ text[i] = None => stored[i] = None

\* What is recorded of an item is no newer than it, and right while it lasts.
Sound(e, new, now, vector) ==
  e # None => e <= new /\ (e = now => vector \in {None, e})

SoundEntries ==
  \A i \in Items :
    /\ \A d \in Dirs : ledgers[d] # None =>
         Sound(ledgers[d].entries[i], newest[i], text[i], stored[i])
    /\ \A w \in Sweepers : Sound(sweep[w].mine.entries[i], newest[i], text[i], stored[i])

\* What is under way was read after everything recorded.
JobsAreLater ==
  \A w \in Sweepers, i \in Items : sweep[w].jobs[i] # None =>
    /\ sweep[w].jobs[i] <= newest[i]
    /\ \A d \in Dirs : ledgers[d] # None /\ ledgers[d].entries[i] # None =>
         ledgers[d].entries[i] <= sweep[w].jobs[i]
    /\ sweep[w].mine.entries[i] # None => sweep[w].mine.entries[i] <= sweep[w].jobs[i]

CorpusInv == CorpusTypes /\ RowsInOrder /\ SoundEntries /\ JobsAreLater

\* A step of the corpus: texts grow, and a vector goes or its text stays or grows.
Grows ==
  /\ text' \in [Items -> Versions \cup {None}] /\ newest' \in [Items -> Versions]
  /\ stored' \in [Items -> Versions \cup {None}]
  /\ UNCHANGED <<ledgers, sweep>>
  /\ \A i \in Items :
       /\ newest'[i] >= newest[i] /\ text'[i] \in {None, newest'[i]}
       /\ text'[i] = None => stored'[i] = None
       /\ \/ stored'[i] = None
          \/ stored'[i] = stored[i] /\ text'[i] = text[i]
          \/ stored'[i] = stored[i] /\ text[i] # None /\ text'[i] > newest[i]

LEMMA VersionsAreNumbers ==
  ASSUME Undisturbed, NEW v \in Versions PROVE v \in Int /\ v # None
  BY DEF Undisturbed

LEMMA GrowsKeeps == ASSUME Undisturbed, CorpusInv, Grows PROVE CorpusInv'
<1>1. CorpusTypes'  BY DEF CorpusInv, CorpusTypes, SweepStates, Grows
<1>2. RowsInOrder'  BY DEF RowsInOrder, Grows
<1>3. ASSUME NEW e \in Versions \cup {None}, NEW i \in Items,
             Sound(e, newest[i], text[i], stored[i])
      PROVE  Sound(e, newest'[i], text'[i], stored'[i])
  <2>0. newest[i] \in Versions /\ newest'[i] \in Versions
    BY DEF CorpusInv, CorpusTypes, SweepStates, Grows
  <2>1. newest[i] \in Int /\ newest'[i] \in Int /\ newest[i] # None
    BY <2>0, VersionsAreNumbers
  <2>2. text[i] \in Versions \cup {None} /\ text'[i] \in Versions \cup {None}
    BY DEF CorpusInv, CorpusTypes, SweepStates, Grows
  <2> SUFFICES ASSUME e # None
               PROVE  e <= newest'[i] /\ (e = text'[i] => stored'[i] \in {None, e})
    BY DEF Sound
  <2>3. e \in Int  BY VersionsAreNumbers
  <2>4. e <= newest[i] /\ (e = text[i] => stored[i] \in {None, e})  BY <1>3 DEF Sound
  <2>5. newest'[i] >= newest[i]  BY DEF Grows
  <2>6. CASE stored'[i] = None  BY <2>1, <2>3, <2>4, <2>5, <2>6
  <2>7. CASE stored'[i] = stored[i] /\ text'[i] = text[i]
    BY <2>1, <2>3, <2>4, <2>5, <2>7
  <2>8. CASE text'[i] > newest[i]
    <3>1. e # text'[i]  BY <2>1, <2>3, <2>4, <2>8
    <3> QED  BY <2>1, <2>3, <2>4, <2>5, <3>1
  <2> QED  BY <2>6, <2>7, <2>8 DEF Grows
<1>4. SoundEntries'
  <2>1. ledgers' = ledgers /\ sweep' = sweep  BY DEF Grows
  <2>2. ASSUME NEW i \in Items, NEW d \in Dirs, ledgers[d] # None
        PROVE  Sound(ledgers[d].entries[i], newest'[i], text'[i], stored'[i])
    <3>1. ledgers[d].entries[i] \in Versions \cup {None}
      BY <2>2 DEF CorpusInv, CorpusTypes, SweepStates, SweepLedgers
    <3> QED  BY <1>3, <2>2, <3>1 DEF CorpusInv, SoundEntries
  <2>3. ASSUME NEW i \in Items, NEW w \in Sweepers
        PROVE  Sound(sweep[w].mine.entries[i], newest'[i], text'[i], stored'[i])
    <3>1. sweep[w].mine.entries[i] \in Versions \cup {None}
      BY DEF CorpusInv, CorpusTypes, SweepStates, SweepLedgers
    <3> QED  BY <1>3, <3>1 DEF CorpusInv, SoundEntries
  <2> QED  BY <2>1, <2>2, <2>3 DEF SoundEntries
<1>5. JobsAreLater'
  <2>1. ledgers' = ledgers /\ sweep' = sweep  BY DEF Grows
  <2>2. ASSUME NEW w \in Sweepers, NEW i \in Items, sweep[w].jobs[i] # None
        PROVE  sweep[w].jobs[i] <= newest'[i]
    <3>0. sweep[w].jobs[i] \in Versions /\ newest[i] \in Versions /\ newest'[i] \in Versions
      BY <2>2 DEF CorpusInv, CorpusTypes, SweepStates, Grows
    <3>1. sweep[w].jobs[i] \in Int  BY <3>0, VersionsAreNumbers
    <3>2. newest[i] \in Int /\ newest'[i] \in Int /\ newest'[i] >= newest[i]
      BY <3>0, VersionsAreNumbers DEF Grows
    <3>3. sweep[w].jobs[i] <= newest[i]  BY <2>2 DEF CorpusInv, JobsAreLater
    <3> QED  BY <3>1, <3>2, <3>3
  <2> QED  BY <2>1, <2>2 DEF CorpusInv, JobsAreLater
<1> QED  BY <1>1, <1>2, <1>4, <1>5 DEF CorpusInv

LEMMA CorpusGrows ==
  ASSUME Undisturbed, CorpusInv, Import \/ LoadDocument \/ \E r \in Recipes :
           CleanUp(r) \/ \E v \in Versions : Upsert(r, v)
  PROVE  Grows
<1> USE DEF Items
<1>0. /\ text \in [Items -> Versions \cup {None}] /\ newest \in [Items -> Versions]
      /\ stored \in [Items -> Versions \cup {None}]
      /\ \A i \in Items : newest[i] \in Int /\ newest[i] # None
  BY VersionsAreNumbers DEF CorpusInv, CorpusTypes, SweepStates
<1>1. ASSUME NEW set \in SUBSET Items, NEW given \in [set -> Versions \cup {None}],
             \A i \in set : given[i] \in Later(i) \cup {None}, Replace(set, given)
      PROVE  Grows
  <2>1. \A i \in Items : newest'[i] = IF i \in set THEN Newer(i, given[i]) ELSE newest[i]
    BY <1>1 DEF Replace
  <2>2. \A i \in set : given[i] \in Versions \cup {None}  BY <1>1
  <2>3. \A i \in set : Newer(i, given[i]) \in Versions /\ Newer(i, given[i]) >= newest[i]
                       /\ given[i] \in {None, Newer(i, given[i])}
    <3> SUFFICES ASSUME NEW i \in set
                 PROVE  /\ Newer(i, given[i]) \in Versions /\ Newer(i, given[i]) >= newest[i]
                        /\ given[i] \in {None, Newer(i, given[i])}
      OBVIOUS
    <3>1. i \in Items /\ newest[i] \in Versions  BY <1>0, <1>1
    <3>2. CASE given[i] = None  BY <1>0, <3>1, <3>2 DEF Newer
    <3>3. CASE given[i] # None
      <4>1. given[i] \in Versions /\ given[i] >= newest[i]
        BY <1>1, <2>2, <3>3 DEF Later, Undisturbed
      <4> QED  BY <1>0, <3>1, <3>3, <4>1, VersionsAreNumbers DEF Newer
    <3> QED  BY <3>2, <3>3
  <2>4. newest' \in [Items -> Versions] /\ text' \in [Items -> Versions \cup {None}]
        /\ stored' \in [Items -> Versions \cup {None}]
    BY <1>0, <1>1, <2>2, <2>3 DEF Replace
  <2>5. ASSUME NEW i \in Items
        PROVE  /\ newest'[i] >= newest[i] /\ text'[i] \in {None, newest'[i]}
               /\ text'[i] = None => stored'[i] = None
               /\ stored'[i] = None \/ (stored'[i] = stored[i] /\ text'[i] = text[i])
    <3>1. CASE i \in set
      <4>1. text'[i] = given[i] /\ stored'[i] = None /\ newest'[i] = Newer(i, given[i])
        BY <1>1, <2>1, <3>1 DEF Replace
      <4>2. /\ Newer(i, given[i]) >= newest[i]
            /\ given[i] \in {None, Newer(i, given[i])}
        BY <2>3, <3>1
      <4>3. newest'[i] >= newest[i]  BY <4>1, <4>2
      <4>4. text'[i] \in {None, newest'[i]}  BY <4>1, <4>2
      <4> QED  BY <4>1, <4>3, <4>4
    <3>2. CASE i \notin set
      <4>1. text'[i] = text[i] /\ stored'[i] = stored[i] /\ newest'[i] = newest[i]
        BY <1>1, <2>1, <3>2 DEF Replace
      <4> QED  BY <1>0, <4>1 DEF CorpusInv, RowsInOrder
    <3> QED  BY <3>1, <3>2
  <2> QED  BY <1>1, <2>4, <2>5 DEF Grows, Replace
<1>2. CASE Import  BY <1>1, <1>2 DEF Import
<1>3. CASE LoadDocument  BY <1>1, <1>3 DEF LoadDocument
<1>4. ASSUME NEW r \in Recipes, CleanUp(r) PROVE Grows
  BY <1>0, <1>4 DEF CleanUp, Grows, CorpusInv, RowsInOrder
<1>5. ASSUME NEW r \in Recipes, NEW v \in Versions, Upsert(r, v) PROVE Grows
  <2>1. v >= newest[r] /\ v # text[r] /\ v # None /\ v \in Int  BY <1>5, VersionsAreNumbers DEF Upsert, Later, Undisturbed
  <2>2. Newer(r, v) = v  BY <1>0, <2>1 DEF Newer
  <2>3. text[r] # None => v > newest[r]
    BY <1>0, <2>1 DEF CorpusInv, RowsInOrder
  <2>4. text[r] = None => stored[r] = None  BY DEF CorpusInv, RowsInOrder
  <2>5. \A i \in Items : /\ text'[i] = (IF i = r THEN v ELSE text[i])
                         /\ newest'[i] = (IF i = r THEN v ELSE newest[i])
                         /\ stored'[i] = stored[i]
    BY <1>0, <1>5, <2>2 DEF Upsert
  <2>6. /\ text' \in [Items -> Versions \cup {None}] /\ newest' \in [Items -> Versions]
        /\ stored' \in [Items -> Versions \cup {None}] /\ UNCHANGED <<ledgers, sweep>>
    BY <1>0, <1>5, <2>2 DEF Upsert
  <2>7. ASSUME NEW i \in Items
        PROVE  /\ newest'[i] >= newest[i] /\ text'[i] \in {None, newest'[i]}
               /\ text'[i] = None => stored'[i] = None
               /\ \/ stored'[i] = None
                  \/ stored'[i] = stored[i] /\ text'[i] = text[i]
                  \/ stored'[i] = stored[i] /\ text[i] # None /\ text'[i] > newest[i]
    <3>1. CASE i = r  BY <1>0, <2>1, <2>3, <2>4, <2>5, <3>1
    <3>2. CASE i # r  BY <1>0, <2>5, <3>2 DEF CorpusInv, RowsInOrder
    <3> QED  BY <3>1, <3>2
  <2> QED  BY <2>6, <2>7 DEF Grows
<1> QED  BY <1>2, <1>3, <1>4, <1>5

-----------------------------------------------------------------------------
(* A step of the sweep.                                                    *)


\* A step that only moves on, or takes or writes back the ledger it has.
LEMMA QuietKeeps ==
  ASSUME Undisturbed, CorpusInv, NEW w \in Sweepers, UNCHANGED <<text, newest, stored>>,
         CorpusTypes',
         sweep'[w].jobs = Nothing \/ sweep'[w].mine.entries = sweep[w].mine.entries,
         \A i \in Items : \/ sweep'[w].jobs[i] = None \/ sweep'[w].jobs[i] = sweep[w].jobs[i]
                          \/ sweep'[w].jobs[i] = newest[i],
         \/ sweep'[w].mine = FreshLedger
         \/ sweep'[w].mine.entries = sweep[w].mine.entries
         \/ \E d \in Dirs : ledgers[d] # None /\ sweep'[w].mine = ledgers[d],
         \A d \in Dirs : \/ ledgers'[d] = None \/ ledgers'[d] = ledgers[d]
                         \/ ledgers'[d].entries = sweep[w].mine.entries
  PROVE  CorpusInv'
<1>1. \A v \in Sweepers : v = w  BY DEF Undisturbed
<1>2. RowsInOrder'  BY DEF CorpusInv, RowsInOrder
<1>3. ASSUME NEW d \in Dirs, ledgers'[d] # None, NEW i \in Items
      PROVE  /\ Sound(ledgers'[d].entries[i], newest[i], text[i], stored[i])
             /\ sweep[w].jobs[i] # None /\ ledgers'[d].entries[i] # None =>
                  ledgers'[d].entries[i] <= sweep[w].jobs[i]
  BY <1>3 DEF CorpusInv, SoundEntries, JobsAreLater
<1>4. ASSUME NEW i \in Items
      PROVE  Sound(sweep'[w].mine.entries[i], newest[i], text[i], stored[i])
  <2>1. CASE sweep'[w].mine = FreshLedger
    BY <2>1 DEF FreshLedger, Nothing, Sound
  <2>2. CASE sweep'[w].mine.entries = sweep[w].mine.entries
    BY <2>2 DEF CorpusInv, SoundEntries
  <2>3. CASE \E d \in Dirs : ledgers[d] # None /\ sweep'[w].mine = ledgers[d]
    BY <2>3 DEF CorpusInv, SoundEntries
  <2> QED  BY <2>1, <2>2, <2>3
<1>5. SoundEntries'  BY <1>1, <1>3, <1>4 DEF SoundEntries
<1>6. ASSUME NEW i \in Items, sweep'[w].jobs[i] # None
      PROVE  /\ sweep'[w].jobs[i] <= newest[i]
             /\ \A d \in Dirs : ledgers'[d] # None /\ ledgers'[d].entries[i] # None =>
                  ledgers'[d].entries[i] <= sweep'[w].jobs[i]
             /\ sweep'[w].mine.entries[i] # None =>
                  sweep'[w].mine.entries[i] <= sweep'[w].jobs[i]
  <2>0. newest[i] \in Int  BY VersionsAreNumbers DEF CorpusInv, CorpusTypes, SweepStates
  <2>1. sweep'[w].mine.entries = sweep[w].mine.entries  BY <1>6 DEF Nothing
  <2>2. CASE sweep'[w].jobs[i] = sweep[w].jobs[i]
    BY <1>3, <1>6, <2>1, <2>2 DEF CorpusInv, JobsAreLater
  <2>3. CASE sweep'[w].jobs[i] = newest[i]
    BY <1>3, <1>4, <2>0, <2>1, <2>3 DEF Sound
  <2> QED  BY <1>6, <2>2, <2>3
<1>7. JobsAreLater'  BY <1>1, <1>6 DEF JobsAreLater
<1> QED  BY <1>2, <1>5, <1>7 DEF CorpusInv

LEMMA CommitKeeps ==
  ASSUME Undisturbed, CorpusInv, NEW w \in Sweepers,
         CommitRecipes(w) \/ CommitTechniques(w)
  PROVE  CorpusInv'
<1> DEFINE jobs == sweep[w].jobs
           was == sweep[w].mine.entries
<1>0. /\ \A v \in Sweepers : v = w
      /\ stored' = Merged(stored, jobs) /\ UNCHANGED <<text, newest, ledgers>>
      /\ sweep' = [sweep EXCEPT ![w].at = "committed", ![w].mine.entries = Merged(@, jobs)]
      /\ \A i \in Items : jobs[i] # None => text[i] # None
  BY DEF Undisturbed, CommitRecipes, CommitTechniques, Committable, Some
<1>1. /\ jobs \in [Items -> Versions \cup {None}] /\ was \in [Items -> Versions \cup {None}]
      /\ sweep[w].mine \in SweepLedgers /\ stored \in [Items -> Versions \cup {None}]
  BY DEF CorpusInv, CorpusTypes, SweepStates, SweepLedgers
<1>2. /\ sweep'[w].mine = [sweep[w].mine EXCEPT !.entries = Merged(was, jobs)]
      /\ sweep'[w].jobs = jobs /\ sweep'[w].at = "committed" /\ sweep'[w].dir = sweep[w].dir
  BY <1>0 DEF CorpusInv, CorpusTypes, SweepStates
<1>3. /\ Merged(was, jobs) \in [Items -> Versions \cup {None}]
      /\ Merged(stored, jobs) \in [Items -> Versions \cup {None}]
  BY <1>1 DEF Merged
<1>4. /\ sweep'[w].mine \in SweepLedgers /\ sweep'[w].mine.entries = Merged(was, jobs)
  BY <1>1, <1>2, <1>3 DEF SweepLedgers
<1>5. CorpusTypes'
  <2>1. sweep[w].at # "rest"
    BY DEF CommitRecipes, CommitTechniques, Committable
  <2>2. sweep' \in [Sweepers -> SweepStates]
    <3>1. sweep[w] \in SweepStates  BY DEF CorpusInv, CorpusTypes
    <3>2. sweep'[w] = [sweep[w] EXCEPT !.at = "committed",
                         !.mine = [sweep[w].mine EXCEPT !.entries = Merged(was, jobs)]]
      BY <1>0 DEF CorpusInv, CorpusTypes
    <3>3. sweep'[w] \in SweepStates  BY <1>2, <1>4, <3>1, <3>2 DEF SweepStates, Places
    <3>4. sweep' = [sweep EXCEPT ![w] = sweep'[w]]
      BY <1>0, <3>3 DEF CorpusInv, CorpusTypes
    <3> QED  BY <3>3, <3>4 DEF CorpusInv, CorpusTypes
  <2> QED  BY <1>0, <1>2, <1>3, <2>1, <2>2 DEF CorpusInv, CorpusTypes, SweepStates
<1>6. ASSUME NEW i \in Items
      PROVE  /\ stored'[i] = IF jobs[i] # None THEN jobs[i] ELSE stored[i]
             /\ sweep'[w].mine.entries[i] = IF jobs[i] # None THEN jobs[i] ELSE was[i]
  BY <1>0, <1>4 DEF Merged
<1>7. RowsInOrder'  BY <1>0, <1>6 DEF CorpusInv, RowsInOrder
<1>8. ASSUME NEW i \in Items
      PROVE  /\ \A d \in Dirs : ledgers[d] # None =>
                  Sound(ledgers[d].entries[i], newest[i], text[i], stored'[i])
             /\ Sound(sweep'[w].mine.entries[i], newest[i], text[i], stored'[i])
  <2>0. newest[i] \in Int  BY VersionsAreNumbers DEF CorpusInv, CorpusTypes, SweepStates
  <2>1. CASE jobs[i] = None  BY <1>6, <2>1 DEF CorpusInv, SoundEntries
  <2>2. CASE jobs[i] # None
    <3>1. jobs[i] \in Int /\ jobs[i] <= newest[i]
      BY <1>1, <2>2, VersionsAreNumbers DEF CorpusInv, JobsAreLater
    <3>2. stored'[i] = jobs[i] /\ sweep'[w].mine.entries[i] = jobs[i]  BY <1>6, <2>2
    <3>3. text[i] = newest[i]  BY <1>0, <2>2 DEF CorpusInv, RowsInOrder
    <3>4. ASSUME NEW d \in Dirs, ledgers[d] # None
          PROVE  Sound(ledgers[d].entries[i], newest[i], text[i], stored'[i])
      <4>1. ledgers[d].entries[i] \in Versions \cup {None}
        BY <3>4 DEF CorpusInv, CorpusTypes, SweepStates, SweepLedgers
      <4>2. CASE ledgers[d].entries[i] = None  BY <4>2 DEF Sound
      <4>3. CASE ledgers[d].entries[i] # None
        <5>1. ledgers[d].entries[i] \in Int  BY <4>1, <4>3, VersionsAreNumbers
        <5>2. ledgers[d].entries[i] <= jobs[i]
          BY <2>2, <3>4, <4>3 DEF CorpusInv, JobsAreLater
        <5> HIDE DEF jobs
        <5> QED  BY <2>0, <3>1, <3>2, <3>3, <5>1, <5>2 DEF Sound
      <4> QED  BY <4>2, <4>3
    <3>5. Sound(sweep'[w].mine.entries[i], newest[i], text[i], stored'[i])
      BY <3>1, <3>2 DEF Sound
    <3> QED  BY <3>4, <3>5
  <2> QED  BY <2>1, <2>2
<1>9. SoundEntries'  BY <1>0, <1>8 DEF SoundEntries
<1>10. ASSUME NEW i \in Items, jobs[i] # None
       PROVE  sweep'[w].mine.entries[i] <= jobs[i]
  <2>1. jobs[i] \in Int  BY <1>1, <1>10, VersionsAreNumbers
  <2> QED  BY <1>6, <1>10, <2>1
<1>11. JobsAreLater'  BY <1>0, <1>2, <1>10 DEF CorpusInv, JobsAreLater
<1> QED  BY <1>5, <1>7, <1>9, <1>11 DEF CorpusInv

\* The other steps of a sweep, one after the other.
LEMMA QuietSteps ==
  ASSUME Undisturbed, CorpusInv, NEW w \in Sweepers, Step(w),
         ~CommitRecipes(w), ~CommitTechniques(w)
  PROVE  CorpusInv'
<1>0. /\ sweep \in [Sweepers -> SweepStates] /\ sweep[w] \in SweepStates
      /\ sweep[w].mine \in SweepLedgers /\ ledgers \in [Dirs -> SweepLedgers \cup {None}]
      /\ text \in [Items -> Versions \cup {None}] /\ newest \in [Items -> Versions]
      /\ stored \in [Items -> Versions \cup {None}]
      /\ \A v \in Sweepers : v = w
      /\ sweep[w].at # "rest" => sweep[w].dir \in Dirs
  BY DEF CorpusInv, CorpusTypes, SweepStates, Undisturbed
<1>1. Resting \in SweepStates /\ Nothing \in [Items -> Versions \cup {None}]
  BY DEF Resting, SweepStates, Places, FreshLedger, SweepLedgers, Nothing
<1>2. ASSUME UNCHANGED <<text, newest, stored>>, ledgers' \in [Dirs -> SweepLedgers \cup {None}],
             NEW s \in SweepStates, sweep' = [sweep EXCEPT ![w] = s],
             s.at # "rest" => s.dir \in Dirs
      PROVE  CorpusTypes' /\ sweep'[w] = s
  BY <1>0, <1>2 DEF CorpusTypes
<1>3. ASSUME Rests(w), UNCHANGED <<text, newest, stored>>,
             ledgers' \in [Dirs -> SweepLedgers \cup {None}],
             \A d \in Dirs : \/ ledgers'[d] = None \/ ledgers'[d] = ledgers[d]
                             \/ ledgers'[d].entries = sweep[w].mine.entries
      PROVE  CorpusInv'
  <2>1. CorpusTypes' /\ sweep'[w] = Resting
    BY <1>1, <1>2, <1>3 DEF Rests, Resting
  <2>2. sweep'[w].jobs = Nothing /\ sweep'[w].mine = FreshLedger  BY <2>1 DEF Resting
  <2> QED  BY <1>3, <2>1, <2>2, QuietKeeps DEF Nothing
<1>4. ASSUME NEW d \in Dirs, NEW dry \in BOOLEAN, Load(w, d, dry) PROVE CorpusInv'
  <2> DEFINE s == [Resting EXCEPT !.at = "loaded", !.dir = d, !.dry = dry, !.mine = ledgers[d]]
  <2>1. ledgers[d] \in SweepLedgers /\ ledgers[d] # None  BY <1>0, <1>4 DEF Load
  <2>2. s \in SweepStates  BY <1>1, <2>1 DEF Resting, SweepStates, Places
  <2>3. s.jobs = Nothing /\ s.mine = ledgers[d] /\ s.dir = d  BY DEF Resting
  <2>4. sweep' = [sweep EXCEPT ![w] = s] /\ UNCHANGED <<text, newest, stored, ledgers>>
    BY <1>4 DEF Load
  <2> HIDE DEF s
  <2>5. CorpusTypes' /\ sweep'[w] = s  BY <1>0, <1>2, <2>2, <2>3, <2>4
  <2> QED  BY <2>1, <2>3, <2>4, <2>5, QuietKeeps DEF Nothing
<1>5. CASE ClaimLedger(w)
  <2>1. CASE ClaimRefused(w)  BY <1>0, <1>3, <1>5, <2>1 DEF ClaimLedger
  <2>2. CASE ~ClaimRefused(w)
    <3> DEFINE mine == [sweep[w].mine EXCEPT !.owner = w]
               s == [sweep[w] EXCEPT !.at = "claimed", !.mine = mine]
    <3>1. mine \in SweepLedgers /\ mine.entries = sweep[w].mine.entries  BY <1>0 DEF SweepLedgers
    <3>2. sweep' = [sweep EXCEPT ![w] = s]  BY <1>0, <1>5, <2>2 DEF ClaimLedger
    <3>3. /\ ledgers' = [ledgers EXCEPT ![sweep[w].dir] = mine]
          /\ UNCHANGED <<text, newest, stored>> /\ sweep[w].dir \in Dirs
      BY <1>0, <1>5, <2>2 DEF ClaimLedger
    <3>4. /\ s \in SweepStates /\ s.mine = mine /\ s.jobs = sweep[w].jobs
          /\ s.dir = sweep[w].dir
      BY <1>0, <3>1 DEF SweepStates, Places
    <3> HIDE DEF mine, s
    <3>5. ledgers' \in [Dirs -> SweepLedgers \cup {None}]  BY <1>0, <3>1, <3>3
    <3>6. CorpusTypes' /\ sweep'[w] = s  BY <1>2, <3>2, <3>3, <3>4, <3>5
    <3>7. \A d \in Dirs : ledgers'[d] = ledgers[d] \/ ledgers'[d].entries = sweep[w].mine.entries
      BY <1>0, <3>1, <3>3
    <3> QED  BY <3>1, <3>3, <3>4, <3>6, <3>7, QuietKeeps
  <2> QED  BY <2>1, <2>2
<1>6. ASSUME NEW scope \in SUBSET Items, Scan(w, scope) PROVE CorpusInv'
  <2> DEFINE jobs == IF sweep[w].dir \in RecipeDirs THEN RecipeJobs(w, scope)
                     ELSE TechniqueJobs(w, scope)
             s == [sweep[w] EXCEPT !.at = "scanned", !.jobs = jobs]
  <2>1. /\ jobs \in [Items -> Versions \cup {None}]
        /\ \A i \in Items : jobs[i] = None \/ jobs[i] = text[i]
    BY <1>0 DEF RecipeJobs, TechniqueJobs
  <2>2. \A i \in Items : jobs[i] = None \/ jobs[i] = newest[i]
    BY <2>1 DEF CorpusInv, RowsInOrder
  <2>3. sweep' = [sweep EXCEPT ![w] = s] /\ UNCHANGED <<text, newest, stored, ledgers>>
    BY <1>0, <1>6 DEF Scan
  <2> HIDE DEF jobs
  <2>4. s \in SweepStates /\ s.mine = sweep[w].mine /\ s.jobs = jobs /\ s.dir = sweep[w].dir
    BY <1>0, <2>1 DEF SweepStates, Places
  <2>5. sweep[w].at # "rest"  BY <1>6 DEF Scan
  <2> HIDE DEF s
  <2>6. CorpusTypes' /\ sweep'[w] = s  BY <1>0, <1>2, <2>3, <2>4, <2>5
  <2> QED  BY <2>2, <2>3, <2>4, <2>6, QuietKeeps
<1>7. CASE Plan(w)
  <2>1. /\ UNCHANGED <<text, newest, stored>> /\ sweep[w].dir \in Dirs
        /\ ledgers' = ledgers \/ ledgers' = [ledgers EXCEPT ![sweep[w].dir] = sweep[w].mine]
    BY <1>0, <1>7 DEF Plan
  <2>2. /\ ledgers' \in [Dirs -> SweepLedgers \cup {None}]
        /\ \A d \in Dirs : ledgers'[d] = ledgers[d] \/ ledgers'[d].entries = sweep[w].mine.entries
    BY <1>0, <2>1
  <2>3. CASE Rests(w)  BY <1>3, <2>1, <2>2, <2>3
  <2>4. CASE ~Rests(w)
    <3> DEFINE s == [sweep[w] EXCEPT !.at = "planned"]
    <3>1. sweep' = [sweep EXCEPT ![w] = s]  BY <1>0, <1>7, <2>4 DEF Plan
    <3>2. s \in SweepStates /\ s.mine = sweep[w].mine /\ s.jobs = sweep[w].jobs
          /\ s.dir = sweep[w].dir
      BY <1>0 DEF SweepStates, Places
    <3> HIDE DEF s
    <3>3. CorpusTypes' /\ sweep'[w] = s  BY <1>2, <2>1, <2>2, <3>1, <3>2
    <3> QED  BY <2>1, <2>2, <3>2, <3>3, QuietKeeps
  <2> QED  BY <2>3, <2>4
<1>8. CASE Embed(w)
  <2> DEFINE again == IF sweep[w].dir \in RecipeDirs THEN Some(sweep[w].jobs) ELSE {}
             s == [sweep[w] EXCEPT !.at = "embedded", !.again = again]
  <2>1. again \in SUBSET Items  BY DEF Some
  <2>2. sweep' = [sweep EXCEPT ![w] = s] /\ UNCHANGED <<text, newest, stored, ledgers>>
        /\ sweep[w].at # "rest"
    BY <1>0, <1>8 DEF Embed
  <2> HIDE DEF again
  <2>3. s \in SweepStates /\ s.mine = sweep[w].mine /\ s.jobs = sweep[w].jobs
        /\ s.dir = sweep[w].dir
    BY <1>0, <2>1 DEF SweepStates, Places
  <2> HIDE DEF s
  <2>4. CorpusTypes' /\ sweep'[w] = s  BY <1>0, <1>2, <2>2, <2>3
  <2> QED  BY <2>2, <2>3, <2>4, QuietKeeps
<1>9. ASSUME NEW i \in Items, ReadAgain(w, i) PROVE CorpusInv'
  <2> DEFINE jobs == [sweep[w].jobs EXCEPT ![i] = IF text[i] = @ THEN @ ELSE None]
             s == [sweep[w] EXCEPT !.again = sweep[w].again \ {i}, !.jobs = jobs]
  <2>1. /\ jobs \in [Items -> Versions \cup {None}]
        /\ \A j \in Items : jobs[j] = None \/ jobs[j] = sweep[w].jobs[j]
    BY <1>0 DEF SweepStates
  <2>2. sweep' = [sweep EXCEPT ![w] = s] /\ UNCHANGED <<text, newest, stored, ledgers>>
        /\ sweep[w].at # "rest"
    BY <1>0, <1>9 DEF ReadAgain
  <2> HIDE DEF jobs
  <2>3. s \in SweepStates /\ s.mine = sweep[w].mine /\ s.jobs = jobs /\ s.dir = sweep[w].dir
    BY <1>0, <2>1 DEF SweepStates, Places
  <2> HIDE DEF s
  <2>4. CorpusTypes' /\ sweep'[w] = s  BY <1>0, <1>2, <2>2, <2>3
  <2> QED  BY <2>1, <2>2, <2>3, <2>4, QuietKeeps
<1>10. CASE Save(w)
  <2> DEFINE mine == [sweep[w].mine EXCEPT !.status = "done"]
  <2>1. mine \in SweepLedgers /\ mine.entries = sweep[w].mine.entries  BY <1>0 DEF SweepLedgers
  <2>2. /\ ledgers' = [ledgers EXCEPT ![sweep[w].dir] = mine] /\ sweep[w].dir \in Dirs
        /\ Rests(w) /\ UNCHANGED <<text, newest, stored>>
    BY <1>0, <1>10 DEF Save
  <2> HIDE DEF mine
  <2> QED  BY <1>0, <1>3, <2>1, <2>2
<1>11. CASE End(w)  BY <1>0, <1>3, <1>11 DEF End
<1>12. CASE Tear(w)
  <2>1. sweep[w].dir \in Dirs  BY <1>0, <1>12 DEF Tear
  <2> QED  BY <1>0, <1>3, <1>12, <2>1 DEF Tear
<1> QED  BY <1>4, <1>5, <1>6, <1>7, <1>8, <1>9, <1>10, <1>11, <1>12 DEF Step

LEMMA CorpusInvInit == ASSUME Undisturbed, CorpusInit PROVE CorpusInv
<1>1. PICK low \in Versions : text = [i \in Items |-> low] /\ newest = text
  BY DEF CorpusInit
<1>2. FreshLedger \in SweepLedgers /\ Resting \in SweepStates
      /\ Resting.jobs = Nothing /\ Resting.mine = FreshLedger /\ Resting.at = "rest"
      /\ FreshLedger.entries = Nothing
  BY DEF Resting, SweepStates, Places, FreshLedger, SweepLedgers, Nothing
<1>3. CorpusTypes  BY <1>1, <1>2 DEF CorpusInit, CorpusTypes, Nothing
<1>4. RowsInOrder  BY <1>1, VersionsAreNumbers DEF CorpusInit, RowsInOrder, Nothing
<1>5. SoundEntries  BY <1>2 DEF CorpusInit, SoundEntries, Sound, Nothing
<1>6. JobsAreLater  BY <1>2 DEF CorpusInit, JobsAreLater, Nothing
<1> QED  BY <1>3, <1>4, <1>5, <1>6 DEF CorpusInv

LEMMA CorpusInvNext == ASSUME Undisturbed, CorpusInv, [CorpusNext]_corpusVars PROVE CorpusInv'
<1>1. CASE UNCHANGED corpusVars
  BY <1>1 DEF corpusVars, CorpusInv, CorpusTypes, RowsInOrder, SoundEntries, JobsAreLater
<1>2. ASSUME NEW w \in Sweepers, Step(w) PROVE CorpusInv'
  BY <1>2, CommitKeeps, QuietSteps
<1>3. CASE Import \/ LoadDocument \/ \E r \in Recipes :
             CleanUp(r) \/ \E v \in Versions : Upsert(r, v)
  BY <1>3, CorpusGrows, GrowsKeeps
<1> QED  BY <1>1, <1>2, <1>3 DEF CorpusNext

\* While one sweep runs at a time and no text comes back, a recipe the
\* sweep passes over never has the vector of another text, over any imports,
\* upserts and removals between the reads, commits, saves and kills of sweeps
\* in any number of run directories (RecipeJobs, CommitRecipes, Save).
THEOREM StaleIsNeverPassed == ASSUME Undisturbed PROVE CorpusSpec => []NothingStalePasses
<1>1. CorpusInit => CorpusInv  BY CorpusInvInit
<1>2. CorpusInv /\ [CorpusNext]_corpusVars => CorpusInv'  BY CorpusInvNext
<1>3. CorpusInv => NothingStalePasses
  BY DEF CorpusInv, SoundEntries, Sound, NothingStalePasses, PassedOver, CorpusTypes,
         Items, Dirs, Undisturbed
<1> QED  BY <1>1, <1>2, <1>3, PTL DEF CorpusSpec

(***************************************************************************)
(* The searches of a session.                                              *)
(***************************************************************************)

Evidence == {"search_results_retrieved", "evidence_evaluated", "search_outcome"}

\* What is true of a call k, named c, given the events l.
CallRecorded(k, c, l) ==
  /\ k.pc # "idle" => k.session \in Sessions
  /\ k.pc = "idle" => ~k.thread /\ ~k.sent /\ k.result = "none"
  /\ (k.pc \in {"claimed", "dispatched", "writing"} \/ k.sent \/ k.result = "ok") =>
       <<"search_slot_claimed", c>> \in l[k.session]
  /\ k.pc = "writing" /\ k.good =>
       \A type \in Evidence :
         <<type, c>> \in l[k.session] \/ \E i \in DOMAIN k.events : k.events[i] = type
  /\ k.result = "ok" => \A type \in Evidence : <<type, c>> \in l[k.session]

\* What is true of the events l of a session.
EventsRecorded(l) ==
  /\ Cardinality({e \in l : e[1] = "search_slot_claimed"}) <= MaxSlots
  /\ \A e \in l : <<"search_slot_claimed", e[2]>> \in l

SearchInv ==
  /\ SearchTypeOK
  /\ (\E r \in AgentRuns : runs[r].offers) => bound \in Sessions
  /\ \A c \in Calls : CallRecorded(call[c], c, log)
  /\ \A s \in Sessions : EventsRecorded(log[s])

LEMMA ClaimsFinite ==
  ASSUME NEW l \in SUBSET (EventTypes \X Calls)
  PROVE  /\ IsFiniteSet({e \in l : e[1] = "search_slot_claimed"})
         /\ Cardinality({e \in l : e[1] = "search_slot_claimed"}) \in Nat
<1> DEFINE claims == {e \in l : e[1] = "search_slot_claimed"}
           all == {<<"search_slot_claimed", c>> : c \in Calls}
           f == [c \in Calls |-> <<"search_slot_claimed", c>>]
<1>1. f \in Surjection(Calls, all)
  BY DEF Surjection
<1>2. IsFiniteSet(all)
  <2> HIDE DEF f, all
  <2> QED  BY <1>1, FS_Surjection, SearchAssumption
<1>3. claims \subseteq all
  OBVIOUS
<1> HIDE DEF claims, all
<1>4. IsFiniteSet(claims) /\ Cardinality(claims) \in Nat
  BY <1>2, <1>3, FS_Subset, FS_CardinalityType
<1> QED  BY <1>4 DEF claims

\* One event is appended.
LEMMA EventAppended ==
  ASSUME NEW l \in SUBSET (EventTypes \X Calls), EventsRecorded(l), NEW c \in Calls, NEW type \in EventTypes,
         \/ <<"search_slot_claimed", c>> \in l
         \/ /\ type = "search_slot_claimed"
            /\ Cardinality({e \in l : e[1] = "search_slot_claimed"}) < MaxSlots
  PROVE  LET m == l \cup {<<type, c>>} IN
         m \in SUBSET (EventTypes \X Calls) /\ l \subseteq m /\ EventsRecorded(m)
<1> DEFINE m == l \cup {<<type, c>>}
           before == {e \in l : e[1] = "search_slot_claimed"}
           after == {e \in m : e[1] = "search_slot_claimed"}
<1>1. m \in SUBSET (EventTypes \X Calls) /\ l \subseteq m
  OBVIOUS
<1>2. ASSUME NEW e \in m PROVE <<"search_slot_claimed", e[2]>> \in m
  <2>1. CASE e \in l
    BY <2>1 DEF EventsRecorded
  <2>2. CASE e = <<type, c>>
    <3>1. e[2] = c
      BY <2>2
    <3>2. <<"search_slot_claimed", c>> \in m
      OBVIOUS
    <3> QED  BY <3>1, <3>2
  <2> QED  BY <2>1, <2>2
<1>3. IsFiniteSet(before) /\ Cardinality(before) \in Nat /\ MaxSlots \in Nat
  BY ClaimsFinite, SearchAssumption
<1>4. Cardinality(after) <= MaxSlots
  <2>1. CASE <<"search_slot_claimed", c>> \in l
    <3>1. after = before
      BY <2>1
    <3> QED  BY <3>1 DEF EventsRecorded
  <2>2. CASE <<"search_slot_claimed", c>> \notin l
    <3>1. after = before \cup {<<type, c>>}
      BY <2>2
    <3>2. Cardinality(before) < MaxSlots
      BY <2>2
    <3> HIDE DEF before, after
    <3>3. Cardinality(after) = IF <<type, c>> \in before THEN Cardinality(before) ELSE Cardinality(before) + 1
      BY <1>3, <3>1, FS_AddElement
    <3> QED  BY <1>3, <3>2, <3>3
  <2> QED  BY <2>1, <2>2
<1> QED  BY <1>1, <1>2, <1>4 DEF EventsRecorded

LEMMA RecordGrows ==
  ASSUME NEW k, NEW c, NEW l, NEW m, CallRecorded(k, c, l),
         \A s \in Sessions : l[s] \subseteq m[s]
  PROVE  CallRecorded(k, c, m)
BY DEF CallRecorded

\* One call goes on.
LEMMA CallStep ==
  ASSUME SearchInv, NEW c \in Calls, NEW k \in SearchCalls, call' = [call EXCEPT ![c] = k],
         UNCHANGED <<bound, allowed, runs, toggles>>,
         log' \in [Sessions -> SUBSET (EventTypes \X Calls)],
         \A s \in Sessions : log[s] \subseteq log'[s] /\ EventsRecorded(log'[s]),
         CallRecorded(k, c, log')
  PROVE  SearchInv'
<1>1. call \in [Calls -> SearchCalls]
  BY DEF SearchInv, SearchTypeOK
<1>2. SearchTypeOK'
  BY <1>1 DEF SearchInv, SearchTypeOK
<1>3. ASSUME NEW d \in Calls PROVE CallRecorded(call'[d], d, log')
  <2>1. CASE d = c
    BY <1>1, <2>1
  <2>2. CASE d # c
    <3>1. call'[d] = call[d] /\ CallRecorded(call[d], d, log)
      BY <1>1, <2>2 DEF SearchInv
    <3> QED  BY <3>1, RecordGrows
  <2> QED  BY <2>1, <2>2
<1>4. ((\E r \in AgentRuns : runs[r].offers) => bound \in Sessions)'
  BY DEF SearchInv
<1> QED  BY <1>2, <1>3, <1>4 DEF SearchInv

LEMMA CallTyped ==
  ASSUME SearchInv, NEW c \in Calls
  PROVE  call[c] \in SearchCalls /\ CallRecorded(call[c], c, log)
BY DEF SearchInv, SearchTypeOK

\* ... and writes nothing.
LEMMA SilentStep ==
  ASSUME SearchInv, NEW c \in Calls, NEW k \in SearchCalls, Becomes(c, k),
         UNCHANGED <<bound, allowed, log, runs, toggles>>, CallRecorded(k, c, log)
  PROVE  SearchInv'
<1>1. /\ log' \in [Sessions -> SUBSET (EventTypes \X Calls)]
      /\ \A s \in Sessions : log[s] \subseteq log'[s] /\ EventsRecorded(log'[s])
      /\ CallRecorded(k, c, log') /\ call' = [call EXCEPT ![c] = k]
      /\ UNCHANGED <<bound, allowed, runs, toggles>>
  BY DEF SearchInv, SearchTypeOK, Becomes
<1> QED  BY <1>1, CallStep

LEMMA EventNames ==
  {"search_slot_claimed", "search_results_retrieved", "evidence_evaluated", "search_outcome",
   "search_operations"} \subseteq EventTypes
BY DEF EventTypes

LEMMA DispatchKeeps == ASSUME SearchInv, NEW c \in Calls, NEW r \in AgentRuns, Dispatch(c, r) PROVE SearchInv'
<1> DEFINE k == [call[c] EXCEPT !.pc = "claiming", !.owner = r, !.session = bound, !.thread = TRUE]
<1>1. /\ Becomes(c, k) /\ UNCHANGED <<bound, allowed, log, runs, toggles>>
      /\ call[c].pc = "idle" /\ bound \in Sessions
  BY DEF Dispatch, SearchInv
<1>2. call[c] \in SearchCalls /\ CallRecorded(call[c], c, log)
  BY CallTyped
<1>3. /\ k \in SearchCalls /\ k.pc = "claiming" /\ k.session = bound /\ k.sent = call[c].sent
      /\ k.result = call[c].result
  BY <1>1, <1>2 DEF SearchCalls, Pcs
<1> HIDE DEF k
<1>4. CallRecorded(k, c, log)
  BY <1>1, <1>2, <1>3 DEF CallRecorded
<1> QED  BY <1>1, <1>3, <1>4, SilentStep

\* A claim fails, or finds no slot.
LEMMA ThreadEnds ==
  ASSUME SearchInv, NEW c \in Calls, call[c].thread, UNCHANGED <<bound, allowed, log, runs, toggles>>,
         Becomes(c, [IF call[c].pc = "claiming" THEN CallFails(c) ELSE call[c] EXCEPT !.thread = FALSE])
  PROVE  SearchInv'
<1>1. call[c] \in SearchCalls /\ CallRecorded(call[c], c, log)
  BY CallTyped
<1> DEFINE k == [IF call[c].pc = "claiming" THEN CallFails(c) ELSE call[c] EXCEPT !.thread = FALSE]
<1>2. CASE call[c].pc = "claiming"
  <2>1. k = [call[c] EXCEPT !.pc = "done", !.result = "failed", !.thread = FALSE]
    BY <1>2 DEF CallFails
  <2>2. k \in SearchCalls /\ k.pc = "done" /\ k.session = call[c].session
        /\ k.result = "failed" /\ k.sent = call[c].sent
    BY <1>1, <2>1 DEF SearchCalls, Pcs
  <2> HIDE DEF k
  <2>3. CallRecorded(k, c, log)
    BY <1>1, <1>2, <2>2 DEF CallRecorded
  <2>4. Becomes(c, k)
    BY DEF k
  <2> QED  BY <2>2, <2>3, <2>4, SilentStep
<1>3. CASE call[c].pc # "claiming"
  <2>1. k = [call[c] EXCEPT !.thread = FALSE]
    BY <1>3
  <2>2. k \in SearchCalls /\ k.pc = call[c].pc /\ k.session = call[c].session
        /\ k.result = call[c].result /\ k.sent = call[c].sent /\ k.good = call[c].good
        /\ k.events = call[c].events /\ ~k.thread
    BY <1>1, <2>1 DEF SearchCalls
  <2> HIDE DEF k
  <2>3. CallRecorded(k, c, log)
    BY <1>1, <2>2 DEF CallRecorded
  <2>4. Becomes(c, k)
    BY DEF k
  <2> QED  BY <2>2, <2>3, <2>4, SilentStep
<1> QED  BY <1>2, <1>3

LEMMA ClaimFailsKeeps == ASSUME SearchInv, NEW c \in Calls, ClaimFails(c) PROVE SearchInv'
BY ThreadEnds DEF ClaimFails

\* A call that has claimed its slot goes on to its events.
LEMMA WritesKeep ==
  ASSUME SearchInv, NEW c \in Calls, call[c].pc \in {"claimed", "dispatched"},
         UNCHANGED <<bound, allowed, log, runs, toggles>>,
         \/ Writes(c, <<"search_outcome">>, FALSE)
         \/ Writes(c, <<"search_outcome", "search_operations">>, FALSE)
         \/ Writes(c, <<"search_results_retrieved", "evidence_evaluated", "search_outcome",
                        "search_operations">>, TRUE)
  PROVE  SearchInv'
<1>1. call[c] \in SearchCalls /\ CallRecorded(call[c], c, log)
  BY CallTyped
<1>2. PICK events \in Seq(EventTypes) : \E good \in BOOLEAN :
        /\ Writes(c, events, good)
        /\ good => \A type \in Evidence : \E i \in DOMAIN events : events[i] = type
  <2>1. CASE Writes(c, <<"search_outcome">>, FALSE)
    <3>1. <<"search_outcome">> \in Seq(EventTypes)
      BY EventNames
    <3> QED  BY <2>1, <3>1
  <2>2. CASE Writes(c, <<"search_outcome", "search_operations">>, FALSE)
    <3>1. <<"search_outcome", "search_operations">> \in Seq(EventTypes)
      BY EventNames
    <3> QED  BY <2>2, <3>1
  <2>3. CASE Writes(c, <<"search_results_retrieved", "evidence_evaluated", "search_outcome",
                         "search_operations">>, TRUE)
    <3> DEFINE es == <<"search_results_retrieved", "evidence_evaluated", "search_outcome",
                       "search_operations">>
    <3>1. es \in Seq(EventTypes)
      BY EventNames
    <3>2. 1 \in DOMAIN es /\ 2 \in DOMAIN es /\ 3 \in DOMAIN es
      OBVIOUS
    <3>3. es[1] = "search_results_retrieved" /\ es[2] = "evidence_evaluated" /\ es[3] = "search_outcome"
      OBVIOUS
    <3> HIDE DEF es
    <3>4. \A type \in Evidence : \E i \in DOMAIN es : es[i] = type
      BY <3>2, <3>3 DEF Evidence
    <3> QED  BY <2>3, <3>1, <3>4 DEF es
  <2> QED  BY <2>1, <2>2, <2>3
<1>3. PICK good \in BOOLEAN :
        /\ Writes(c, events, good)
        /\ good => \A type \in Evidence : \E i \in DOMAIN events : events[i] = type
  BY <1>2
<1> DEFINE k == [call[c] EXCEPT !.pc = "writing", !.events = events, !.good = good]
<1>4. Becomes(c, k)
  BY <1>3 DEF Writes
<1>5. /\ k \in SearchCalls /\ k.pc = "writing" /\ k.session = call[c].session /\ k.events = events
      /\ k.good = good /\ k.result = call[c].result
  BY <1>1 DEF SearchCalls, Pcs
<1> HIDE DEF k
<1>6. CallRecorded(k, c, log)
  BY <1>1, <1>3, <1>5 DEF CallRecorded
<1> QED  BY <1>4, <1>5, <1>6, SilentStep

\* ... and appends an event.
LEMMA WritingStep ==
  ASSUME SearchInv, NEW c \in Calls, NEW k \in SearchCalls, Becomes(c, k),
         UNCHANGED <<bound, allowed, runs, toggles>>, NEW type \in EventTypes,
         AppendEvent(type, c), call[c].session \in Sessions,
         \/ <<"search_slot_claimed", c>> \in log[call[c].session]
         \/ type = "search_slot_claimed" /\ SlotsUsed(call[c].session) < MaxSlots,
         \A m : (/\ \A s \in Sessions : log[s] \subseteq m[s]
                 /\ <<type, c>> \in m[call[c].session]) => CallRecorded(k, c, m)
  PROVE  SearchInv'
<1> DEFINE s == call[c].session
           l == log[s] \cup {<<type, c>>}
<1>1. /\ log \in [Sessions -> SUBSET (EventTypes \X Calls)] /\ s \in Sessions
      /\ \A t \in Sessions : EventsRecorded(log[t])
  BY DEF SearchInv, SearchTypeOK
<1>2. l \in SUBSET (EventTypes \X Calls) /\ log[s] \subseteq l /\ EventsRecorded(l)
  <2>1. log[s] \in SUBSET (EventTypes \X Calls) /\ EventsRecorded(log[s])
    BY <1>1
  <2>2. \/ <<"search_slot_claimed", c>> \in log[s]
        \/ /\ type = "search_slot_claimed"
           /\ Cardinality({e \in log[s] : e[1] = "search_slot_claimed"}) < MaxSlots
    BY DEF SlotsUsed
  <2> HIDE DEF s
  <2> QED  BY <2>1, <2>2, EventAppended
<1>3. log' = [log EXCEPT ![s] = l]
  BY DEF AppendEvent
<1>4. <<type, c>> \in l
  OBVIOUS
<1> HIDE DEF s, l
<1>5. /\ log' \in [Sessions -> SUBSET (EventTypes \X Calls)] /\ log'[s] = l
      /\ \A t \in Sessions : log[t] \subseteq log'[t] /\ EventsRecorded(log'[t])
  BY <1>1, <1>2, <1>3
<1>6. CallRecorded(k, c, log')
  BY <1>4, <1>5 DEF s
<1> QED  BY <1>5, <1>6, CallStep DEF Becomes

LEMMA ClaimKeeps == ASSUME SearchInv, NEW c \in Calls, Claim(c) PROVE SearchInv'
<1>0. call[c].thread /\ UNCHANGED <<bound, allowed, runs, toggles>>
  BY DEF Claim
<1>1. call[c] \in SearchCalls /\ CallRecorded(call[c], c, log)
  BY CallTyped
<1>2. call[c].session \in Sessions /\ call[c].pc # "idle"
  BY <1>0, <1>1 DEF CallRecorded
<1>3. CASE allowed[call[c].session] /\ SlotsUsed(call[c].session) < MaxSlots
  <2> DEFINE place == IF call[c].pc = "claiming" THEN "claimed" ELSE call[c].pc
             k == [call[c] EXCEPT !.thread = FALSE, !.pc = place]
  <2>1. AppendEvent("search_slot_claimed", c) /\ Becomes(c, k)
    BY <1>3 DEF Claim
  <2>2. place \in Pcs /\ place # "idle" /\ (place = "writing" => call[c].pc = "writing")
    BY <1>1, <1>2 DEF SearchCalls, Pcs
  <2> HIDE DEF place
  <2>3. /\ k \in SearchCalls /\ k.session = call[c].session /\ k.pc = place /\ k.sent = call[c].sent
        /\ k.result = call[c].result /\ k.good = call[c].good /\ k.events = call[c].events
    BY <1>1, <2>2 DEF SearchCalls
  <2> HIDE DEF k
  <2>4. ASSUME NEW m, \A s \in Sessions : log[s] \subseteq m[s],
               <<"search_slot_claimed", c>> \in m[call[c].session]
        PROVE  CallRecorded(k, c, m)
    <3>1. CallRecorded(call[c], c, m)
      BY <1>1, <2>4, RecordGrows
    <3> QED  BY <1>2, <2>2, <2>3, <2>4, <3>1 DEF CallRecorded
  <2>5. "search_slot_claimed" \in EventTypes
    BY EventNames
  <2> QED  BY <1>0, <1>2, <1>3, <2>1, <2>3, <2>4, <2>5, WritingStep
<1>4. CASE ~(allowed[call[c].session] /\ SlotsUsed(call[c].session) < MaxSlots)
  BY <1>0, <1>4, ThreadEnds DEF Claim
<1> QED  BY <1>3, <1>4

LEMMA RefusedKeeps == ASSUME SearchInv, NEW c \in Calls, Refused(c) \/ NotFound(c) \/ Found(c) PROVE SearchInv'
<1>1. call[c] \in SearchCalls /\ CallRecorded(call[c], c, log)
  BY CallTyped
<1>2. /\ call[c].pc \in {"claimed", "dispatched"} /\ UNCHANGED <<bound, allowed, log, runs, toggles>>
      /\ \/ Writes(c, <<"search_outcome">>, FALSE)
         \/ Writes(c, <<"search_outcome", "search_operations">>, FALSE)
         \/ Writes(c, <<"search_results_retrieved", "evidence_evaluated", "search_outcome",
                        "search_operations">>, TRUE)
  BY DEF Refused, NotFound, Found
<1> QED  BY <1>2, WritesKeep

LEMMA SearchStepKeeps == ASSUME SearchInv, NEW c \in Calls, Search(c) PROVE SearchInv'
<1> DEFINE k == [call[c] EXCEPT !.pc = "dispatched", !.sent = TRUE]
<1>1. call[c] \in SearchCalls /\ CallRecorded(call[c], c, log)
  BY CallTyped
<1>2. call[c].pc = "claimed" /\ Becomes(c, k) /\ UNCHANGED <<bound, allowed, log, runs, toggles>>
  BY DEF Search
<1>3. /\ k \in SearchCalls /\ k.pc = "dispatched" /\ k.session = call[c].session
      /\ k.result = call[c].result
  BY <1>1 DEF SearchCalls, Pcs
<1> HIDE DEF k
<1>4. CallRecorded(k, c, log)
  BY <1>1, <1>2, <1>3 DEF CallRecorded
<1> QED  BY <1>2, <1>3, <1>4, SilentStep

LEMMA WriteEventKeeps == ASSUME SearchInv, NEW c \in Calls, WriteEvent(c) PROVE SearchInv'
<1> DEFINE type == Head(call[c].events)
           rest == Tail(call[c].events)
           k == [call[c] EXCEPT !.events = rest]
<1>0. /\ call[c].pc = "writing" /\ call[c].events # <<>> /\ AppendEvent(type, c)
      /\ Becomes(c, k) /\ UNCHANGED <<bound, allowed, runs, toggles>>
  BY DEF WriteEvent
<1>1. call[c] \in SearchCalls /\ CallRecorded(call[c], c, log)
  BY CallTyped
<1>2. call[c].session \in Sessions /\ <<"search_slot_claimed", c>> \in log[call[c].session]
  BY <1>0, <1>1 DEF CallRecorded
<1>3. call[c].events \in Seq(EventTypes)
  BY <1>1 DEF SearchCalls
<1>4. /\ type \in EventTypes /\ rest \in Seq(EventTypes)
      /\ \A i \in DOMAIN call[c].events :
           call[c].events[i] = type \/ \E j \in DOMAIN rest : rest[j] = call[c].events[i]
  <2> DEFINE es == call[c].events
  <2>1. es \in Seq(EventTypes) /\ es # <<>>
    BY <1>0, <1>3
  <2>2. type = es[1] /\ rest = Tail(es)
    OBVIOUS
  <2> HIDE DEF es
  <2>3. /\ type \in EventTypes /\ Tail(es) \in Seq(EventTypes) /\ Len(es) \in Nat /\ DOMAIN es = 1..Len(es)
        /\ Len(Tail(es)) = Len(es) - 1 /\ \A j \in 1..Len(es) - 1 : Tail(es)[j] = es[j + 1]
        /\ DOMAIN Tail(es) = 1..(Len(es) - 1)
    BY <2>1, <2>2
  <2>4. ASSUME NEW i \in DOMAIN es, i # 1 PROVE \E j \in DOMAIN Tail(es) : Tail(es)[j] = es[i]
    <3>1. i - 1 \in 1..(Len(es) - 1) /\ (i - 1) + 1 = i
      BY <2>3, <2>4
    <3> QED  BY <2>3, <3>1
  <2> HIDE DEF type, rest
  <2>5. ASSUME NEW i \in DOMAIN es PROVE es[i] = type \/ \E j \in DOMAIN rest : rest[j] = es[i]
    BY <2>2, <2>4
  <2> QED  BY <2>2, <2>3, <2>5 DEF es
<1> HIDE DEF type, rest
<1>5. /\ k \in SearchCalls /\ k.session = call[c].session /\ k.pc = "writing" /\ k.sent = call[c].sent
      /\ k.result = call[c].result /\ k.good = call[c].good /\ k.events = rest
  BY <1>0, <1>1, <1>4 DEF SearchCalls
<1> HIDE DEF k
<1>6. ASSUME NEW m, \A s \in Sessions : log[s] \subseteq m[s], <<type, c>> \in m[call[c].session]
      PROVE  CallRecorded(k, c, m)
  <2>1. CallRecorded(call[c], c, m)
    BY <1>1, <1>6, RecordGrows
  <2>2. ASSUME k.good, NEW e \in Evidence
        PROVE  <<e, c>> \in m[k.session] \/ \E j \in DOMAIN k.events : k.events[j] = e
    BY <1>0, <1>4, <1>5, <1>6, <2>1, <2>2 DEF CallRecorded
  <2> QED  BY <1>0, <1>2, <1>5, <1>6, <2>1, <2>2 DEF CallRecorded
<1> QED  BY <1>0, <1>2, <1>4, <1>5, <1>6, WritingStep

LEMMA WriteFailsKeeps == ASSUME SearchInv, NEW c \in Calls, WriteFails(c) PROVE SearchInv'
<1> DEFINE k == [call[c] EXCEPT !.pc = "done", !.result = "failed", !.events = <<>>]
<1>1. call[c] \in SearchCalls /\ CallRecorded(call[c], c, log)
  BY CallTyped
<1>2. call[c].pc = "writing" /\ Becomes(c, k) /\ UNCHANGED <<bound, allowed, log, runs, toggles>>
  BY DEF WriteFails, CallFails
<1>3. /\ k \in SearchCalls /\ k.pc = "done" /\ k.session = call[c].session
      /\ k.result = "failed"
  <2>1. <<>> \in Seq(EventTypes) /\ "done" \in Pcs
    BY DEF Pcs
  <2> QED  BY <1>1, <2>1 DEF SearchCalls
<1> HIDE DEF k
<1>4. CallRecorded(k, c, log)
  BY <1>1, <1>2, <1>3 DEF CallRecorded
<1> QED  BY <1>2, <1>3, <1>4, SilentStep

LEMMA ReturnKeeps == ASSUME SearchInv, NEW c \in Calls, Return(c) PROVE SearchInv'
<1> DEFINE result == IF call[c].good THEN "ok" ELSE "failed"
           k == [call[c] EXCEPT !.pc = "done", !.result = result]
<1>1. call[c] \in SearchCalls /\ CallRecorded(call[c], c, log)
  BY CallTyped
<1>2. /\ call[c].pc = "writing" /\ call[c].events = <<>> /\ Becomes(c, k)
      /\ UNCHANGED <<bound, allowed, log, runs, toggles>>
  BY DEF Return
<1>3. /\ k \in SearchCalls /\ k.pc = "done" /\ k.session = call[c].session
      /\ k.result = result
  BY <1>1 DEF SearchCalls, Pcs
<1>4. result = "ok" => call[c].good
  OBVIOUS
<1> HIDE DEF k, result
<1>5. DOMAIN call[c].events = {}
  BY <1>2
<1>6. CallRecorded(k, c, log)
  BY <1>1, <1>2, <1>3, <1>4, <1>5 DEF CallRecorded
<1> QED  BY <1>2, <1>3, <1>6, SilentStep

LEMMA TimeoutKeeps == ASSUME SearchInv, NEW c \in Calls, Timeout(c) PROVE SearchInv'
<1>1. call[c] \in SearchCalls /\ CallRecorded(call[c], c, log)
  BY CallTyped
<1>2. UNCHANGED <<bound, allowed, log, runs, toggles>>
  BY DEF Timeout
<1>3. CASE call[c].pc = "claiming" /\ Becomes(c, CallFails(c))
  <2> DEFINE k == [call[c] EXCEPT !.pc = "done", !.result = "failed"]
  <2>1. Becomes(c, k)
    BY <1>3 DEF CallFails
  <2>2. /\ k \in SearchCalls /\ k.pc = "done" /\ k.session = call[c].session
        /\ k.result = "failed" /\ k.sent = call[c].sent
    BY <1>1 DEF SearchCalls, Pcs
  <2> HIDE DEF k
  <2>3. CallRecorded(k, c, log)
    BY <1>1, <1>3, <2>2 DEF CallRecorded
  <2> QED  BY <1>2, <2>1, <2>2, <2>3, SilentStep
<1>4. CASE call[c].pc = "dispatched" /\ Writes(c, <<"search_outcome", "search_operations">>, FALSE)
  BY <1>2, <1>4, WritesKeep
<1> QED  BY <1>3, <1>4 DEF Timeout

LEMMA SearchHoldsAtFirst == SearchInit => SearchInv
<1> SUFFICES ASSUME SearchInit PROVE SearchInv
  OBVIOUS
<1>1. IdleCall \in SearchCalls
  <2>1. <<>> \in Seq(EventTypes) /\ "idle" \in Pcs
    BY DEF Pcs
  <2> QED  BY <2>1 DEF IdleCall, SearchCalls
<1>2. \A c \in Calls : call[c] = IdleCall
  BY DEF SearchInit
<1>3. SearchTypeOK
  BY <1>1, SearchAssumption DEF SearchInit, SearchTypeOK
<1>4. \A c \in Calls : CallRecorded(call[c], c, log)
  BY <1>2 DEF CallRecorded, IdleCall
<1>5. \A s \in Sessions : EventsRecorded(log[s])
  <2>1. \A s \in Sessions : log[s] = {}
    BY DEF SearchInit
  <2>2. Cardinality({e \in {} : e[1] = "search_slot_claimed"}) = 0 /\ MaxSlots \in Nat
    BY FS_EmptySet, SearchAssumption
  <2> QED  BY <2>1, <2>2 DEF EventsRecorded
<1>6. \A r \in AgentRuns : ~runs[r].offers
  BY DEF SearchInit
<1> QED  BY <1>3, <1>4, <1>5, <1>6 DEF SearchInv

LEMMA SearchStays == SearchInv /\ [SearchNext]_searchVars => SearchInv'
<1> SUFFICES ASSUME SearchInv, [SearchNext]_searchVars PROVE SearchInv'
  OBVIOUS
<1>0. SearchTypeOK
  BY DEF SearchInv
<1>1. ASSUME NEW r \in AgentRuns, NEW s \in Sessions, StartRun(r, s) PROVE SearchInv'
  <2>1. SearchTypeOK'
    BY <1>0, <1>1 DEF SearchTypeOK, StartRun
  <2> QED  BY <1>1, <2>1 DEF StartRun, SearchInv
<1>2. ASSUME NEW c \in Calls, NEW r \in AgentRuns, Dispatch(c, r) PROVE SearchInv'
  BY <1>2, DispatchKeeps
<1>3. ASSUME NEW c \in Calls, Proceed(c) PROVE SearchInv'
  BY <1>3, ClaimKeeps, ClaimFailsKeeps, RefusedKeeps, SearchStepKeeps, TimeoutKeeps,
     WriteEventKeeps, WriteFailsKeeps, ReturnKeeps DEF Proceed
<1>4. ASSUME NEW s \in Sessions, Toggle(s) PROVE SearchInv'
  <2>1. toggles' \in 0 .. MaxToggles
    <3>1. toggles \in 0 .. MaxToggles /\ MaxToggles \in Nat /\ toggles < MaxToggles
          /\ toggles' = toggles + 1
      BY <1>0, <1>4, SearchAssumption DEF SearchTypeOK, Toggle
    <3> QED  BY <3>1
  <2>2. SearchTypeOK'
    BY <1>0, <1>4, <2>1 DEF SearchTypeOK, Toggle
  <2> QED  BY <1>4, <2>2 DEF Toggle, SearchInv
<1>5. CASE UNCHANGED searchVars
  BY <1>5 DEF searchVars, SearchInv, SearchTypeOK
<1> QED  BY <1>1, <1>2, <1>3, <1>4, <1>5 DEF SearchNext, SearchRest

LEMMA SearchInvariant == SearchSpec => []SearchInv
BY SearchHoldsAtFirst, SearchStays, PTL DEF SearchSpec

\* Every search is asked in the state its code leaves it in (tools/
\* stub_tools.py: search_web, claim_search_slot, append_event).
THEOREM SearchTypeCorrect == SearchSpec => []SearchTypeOK
<1>1. SearchInv => SearchTypeOK
  BY DEF SearchInv
<1> QED  BY <1>1, SearchInvariant, PTL

\* However many calls run side by side and outlive their timeouts: the
\* provider is asked no more often, for a session, than slots were claimed in
\* its log, no more slots than it has, and what comes back as evidence is in
\* that log with its evaluation and its outcome (search_web).
THEOREM SearchesAreOnRecord == SearchSpec => []SearchesOnRecord
<1>1. SearchInv => SearchesOnRecord
  <2> SUFFICES ASSUME SearchInv PROVE SearchesOnRecord
    OBVIOUS
  <2>1. ASSUME NEW s \in Sessions PROVE Cardinality(SearchesOf(s)) <= SlotsUsed(s)
    <3> DEFINE claims == {e \in log[s] : e[1] = "search_slot_claimed"}
               image == {<<"search_slot_claimed", c>> : c \in SearchesOf(s)}
               f == [c \in SearchesOf(s) |-> <<"search_slot_claimed", c>>]
    <3>1. image \subseteq claims
      <4>1. \A c \in SearchesOf(s) : <<"search_slot_claimed", c>> \in log[s]
        BY DEF SearchesOf, SearchInv, CallRecorded
      <4> QED  BY <4>1
    <3>2. log[s] \in SUBSET (EventTypes \X Calls)
      BY DEF SearchInv, SearchTypeOK
    <3>3. IsFiniteSet(claims) /\ Cardinality(claims) \in Nat
      BY <3>2, ClaimsFinite
    <3>4. IsFiniteSet(SearchesOf(s))
      BY SearchAssumption, FS_Subset DEF SearchesOf
    <3>5. f \in Bijection(SearchesOf(s), image)
      BY DEF Bijection, Injection, Surjection, IsInjective
    <3> HIDE DEF claims, image, f
    <3>6. Cardinality(image) = Cardinality(SearchesOf(s))
      BY <3>4, <3>5, FS_Bijection DEF ExistsBijection
    <3>7. Cardinality(image) <= Cardinality(claims)
      BY <3>1, <3>3, FS_Subset
    <3> QED  BY <3>6, <3>7 DEF claims, SlotsUsed
  <2>2. ASSUME NEW s \in Sessions PROVE SlotsUsed(s) <= MaxSlots
    BY DEF SearchInv, EventsRecorded, SlotsUsed
  <2>3. ASSUME NEW c \in Calls, call[c].result = "ok"
        PROVE  /\ Logged("search_slot_claimed", c) /\ Logged("search_results_retrieved", c)
               /\ Logged("evidence_evaluated", c) /\ Logged("search_outcome", c)
    BY <2>3 DEF SearchInv, CallRecorded, Logged, Evidence
  <2>4. ASSUME NEW s \in Sessions, NEW e \in log[s]
        PROVE  <<"search_slot_claimed", e[2]>> \in log[s]
    BY DEF SearchInv, EventsRecorded
  <2> QED  BY <2>1, <2>2, <2>3, <2>4 DEF SearchesOnRecord
<1> QED  BY <1>1, SearchInvariant, PTL

(***************************************************************************)
(* A live run.                                                             *)
(***************************************************************************)

\* A call is reserved while it is under way, and only then.
CallsHold ==
  \A c \in Callers :
    /\ run.at[c] = "sent" => run.kind[c] # "none" /\ ledger.open[c] = Cost[run.kind[c]]
    /\ run.at[c] # "sent" => ledger.open[c] = 0
    /\ run.at[c] = "claimed" => run.kind[c] = "search"

\* Who can be at work in which step of the run, and what is left to do.
PlacesHold ==
  /\ run.pc # "turn" => run.at[Turn] = "idle"
  /\ run.pc = "turn" => run.at[Turn] = "sent" /\ run.kind[Turn] = "chat"
  /\ run.pc \notin {"batch", "unwind"} => \A t \in Tools : run.at[t] = "idle"
  /\ run.pc \notin {"off", "finish"} => run.plan # <<>>
  /\ run.pc # "finish" => run.streak <= 1
  /\ run.pc = "attempt" => run.attempt < MaxAttempts
  /\ run.pc = "off" => run = Off /\ ledger = NewLedger(0) /\ paid.now = 0 /\ paid.searches = 0

\* A run goes on only without a stop, and an exceeded estimate is one.
StopsKept ==
  /\ run.pc \in {"attempt", "agent", "turn", "decide", "batch"} => run.stop = "none"
  /\ run.pc = "unwind" => run.stop # "none"
  /\ ledger.exceeded => run.stop # "none"
  /\ run.pc # "off" => ~history.breach

\* The ceiling of a run and what the history counts are under the cap of the
\* pool, and what a run has left is short by no more than what nobody
\* reserved.
MoneyHolds ==
  /\ ledger.remaining + ledger.spent + OpenTotal(ledger) = ledger.ceiling
  /\ ledger.settled = ledger.spent
  /\ paid.now <= ledger.spent /\ paid.past <= history.spent
  /\ paid.past + paid.now <= PoolCap + paid.over
  /\ run.pc # "off" => ledger.ceiling + history.spent <= PoolCap
  /\ ledger.remaining + paid.over >= 0

SearchesAt(places) == {t \in Tools : run.at[t] \in places /\ run.kind[t] = "search"}

\* A search that was sent is counted by the run, and under way or settled.
SearchesHold ==
  /\ paid.searches <= run.dispatched
  /\ run.pc # "off" => run.prior = history.searches
  /\ paid.searched <= history.searches
  /\ paid.searches <= ledger.searches + Cardinality(SearchesAt({"sent"}))
  /\ paid.searched + paid.searches <= CampaignCap
  /\ paid.searches <= LimitOr(run.limit, CampaignCap)
  /\ Cardinality(SearchesAt({"claimed", "sent"})) <= run.claimed
  /\ run.claimed <= MaxPerSession

LiveInv == TypeOK /\ CallsHold /\ PlacesHold /\ StopsKept /\ MoneyHolds /\ SearchesHold

-----------------------------------------------------------------------------
(* The ledger.                                                             *)

LEMMA CallersFinite == IsFiniteSet(Callers) /\ IsFiniteSet(Tools) /\ Tools \subseteq Callers /\ Turn \in Callers
BY LiveAssumption, FS_AddElement

LEMMA OpenTotalTyped ==
  ASSUME NEW l, l.open \in [Callers -> Nat]
  PROVE  OpenTotal(l) \in Nat
<1> DEFINE zero == [c \in Callers |-> 0]
<1>1. \A c \in Callers : zero[c] = 0 /\ zero[c] \in Int /\ l.open[c] \in Int /\ zero[c] <= l.open[c] + zero[c]
  OBVIOUS
<1>2. SumFunctionOnSet(zero, Callers) = 0
  <2> HIDE DEF zero
  <2> QED  BY <1>1, CallersFinite, SumOfZeros
<1>3. SumFunctionOnSet(l.open, Callers) \in Int
  BY <1>1, CallersFinite, SumTyped
<1>4. SumFunctionOnSet(zero, Callers) <= SumFunctionOnSet(l.open, Callers) + SumFunctionOnSet(zero, Callers)
  <2> HIDE DEF zero
  <2> QED  BY <1>1, CallersFinite, SumBelow
<1> QED  BY <1>2, <1>3, <1>4 DEF OpenTotal

\* One reservation changes.
LEMMA OpenTotalMoves ==
  ASSUME NEW l, NEW m, l.open \in [Callers -> Nat], NEW c \in Callers, NEW n \in Nat,
         m.open = [l.open EXCEPT ![c] = n]
  PROVE  /\ OpenTotal(m) = OpenTotal(l) - l.open[c] + n
         /\ OpenTotal(l) \in Nat /\ OpenTotal(m) \in Nat /\ m.open \in [Callers -> Nat]
<1>1. /\ \A b \in Callers : l.open[b] \in Int /\ m.open[b] \in Int
      /\ \A b \in Callers \ {c} : m.open[b] = l.open[b]
      /\ m.open[c] = n /\ m.open \in [Callers -> Nat]
  OBVIOUS
<1>2. SumFunctionOnSet(m.open, Callers) = SumFunctionOnSet(l.open, Callers) - l.open[c] + m.open[c]
  BY <1>1, CallersFinite, SumChange
<1>3. OpenTotal(l) \in Nat /\ OpenTotal(m) \in Nat
  BY <1>1, OpenTotalTyped
<1> QED  BY <1>1, <1>2, <1>3 DEF OpenTotal

LEMMA NothingOpen ==
  ASSUME NEW l, \A c \in Callers : l.open[c] = 0
  PROVE  OpenTotal(l) = 0
BY CallersFinite, SumOfZeros DEF OpenTotal

LEMMA LedgerFields ==
  ASSUME NEW l \in Ledgers
  PROVE  /\ l.ceiling \in Nat /\ l.remaining \in Int /\ l.spent \in Nat
         /\ l.open \in [Callers -> Nat] /\ l.settled \in Nat /\ l.searches \in Nat
         /\ l.breach \in BOOLEAN /\ l.exceeded \in BOOLEAN
BY DEF Ledgers

LEMMA NewLedgerHolds ==
  ASSUME NEW n \in Nat
  PROVE  LET l == NewLedger(n) IN
         /\ l \in Ledgers /\ l.ceiling = n /\ l.remaining = n /\ l.spent = 0 /\ l.settled = 0
         /\ l.searches = 0 /\ ~l.breach /\ ~l.exceeded /\ OpenTotal(l) = 0
         /\ \A c \in Callers : l.open[c] = 0
<1> DEFINE l == NewLedger(n)
<1>1. l \in Ledgers /\ l.ceiling = n /\ l.remaining = n /\ l.spent = 0 /\ l.settled = 0
      /\ l.searches = 0 /\ ~l.breach /\ ~l.exceeded
      /\ \A c \in Callers : l.open[c] = 0
  BY DEF NewLedger, Ledgers
<1> HIDE DEF l
<1>2. OpenTotal(l) = 0
  BY <1>1, NothingOpen
<1> QED  BY <1>1, <1>2 DEF l

LEMMA ReservedMoves ==
  ASSUME NEW l \in Ledgers, NEW c \in Callers, NEW cost \in Nat
  PROVE  LET m == Reserved(l, c, cost) IN
         /\ m \in Ledgers /\ m.ceiling = l.ceiling /\ m.remaining = l.remaining - cost
         /\ m.spent = l.spent /\ m.settled = l.settled /\ m.searches = l.searches
         /\ m.breach = l.breach /\ m.exceeded = l.exceeded
         /\ m.open = [l.open EXCEPT ![c] = cost]
         /\ OpenTotal(m) = OpenTotal(l) - l.open[c] + cost
         /\ OpenTotal(m) \in Nat /\ OpenTotal(l) \in Nat
<1> DEFINE m == Reserved(l, c, cost)
           open == [l.open EXCEPT ![c] = cost]
           rest == l.remaining - cost
<1>0. l.open \in [Callers -> Nat] /\ open \in [Callers -> Nat] /\ rest \in Int
  BY LedgerFields
<1>1. m = [l EXCEPT !.remaining = rest, !.open = open]
  BY DEF Reserved
<1>2. m \in Ledgers /\ m.ceiling = l.ceiling /\ m.remaining = rest
      /\ m.spent = l.spent /\ m.settled = l.settled /\ m.searches = l.searches
      /\ m.breach = l.breach /\ m.exceeded = l.exceeded /\ m.open = open
  <2> HIDE DEF open, rest, m
  <2> QED  BY <1>0, <1>1 DEF Ledgers
<1> HIDE DEF m
<1>3. OpenTotal(m) = OpenTotal(l) - l.open[c] + cost /\ OpenTotal(m) \in Nat /\ OpenTotal(l) \in Nat
  BY <1>0, <1>2, OpenTotalMoves
<1> QED  BY <1>2, <1>3 DEF m

\* Settled with used units, of which back flow back to what remains.
Settles(l, m, c, kind, used, back) ==
  /\ m.ceiling = l.ceiling /\ m.remaining = l.remaining + back
  /\ m.spent = l.spent + used /\ m.settled = l.settled + used
  /\ m.searches = IF kind = "search" THEN l.searches + 1 ELSE l.searches
  /\ m.open = [l.open EXCEPT ![c] = 0]

LEMMA SettlesMoves ==
  ASSUME NEW l \in Ledgers, NEW m, NEW c \in Callers, NEW kind, NEW used \in Nat, NEW back \in Int,
         Settles(l, m, c, kind, used, back)
  PROVE  OpenTotal(m) = OpenTotal(l) - l.open[c] /\ OpenTotal(m) \in Nat /\ OpenTotal(l) \in Nat
<1>1. l.open \in [Callers -> Nat] /\ m.open = [l.open EXCEPT ![c] = 0] /\ 0 \in Nat
  BY DEF Settles, Ledgers
<1>2. OpenTotal(m) = OpenTotal(l) - l.open[c] + 0 /\ OpenTotal(m) \in Nat /\ OpenTotal(l) \in Nat
  BY <1>1, OpenTotalMoves
<1>3. l.open[c] \in Nat
  BY <1>1
<1> QED  BY <1>2, <1>3

LEMMA SettledMoves ==
  ASSUME NEW l \in Ledgers, NEW c \in Callers, NEW kind, NEW used \in Nat
  PROVE  LET m == Settled(l, c, kind, used) IN
         /\ m \in Ledgers /\ Settles(l, m, c, kind, used, 0)
         /\ m.exceeded = l.exceeded /\ m.breach = l.breach
<1> DEFINE open == [l.open EXCEPT ![c] = 0]
           total == l.spent + used
           settled == l.settled + used
           searches == IF kind = "search" THEN l.searches + 1 ELSE l.searches
           n == [l EXCEPT !.open = open]
           m == [n EXCEPT !.spent = total, !.settled = settled, !.searches = searches]
<1>0. /\ l.remaining \in Int /\ open \in [Callers -> Nat]
      /\ total \in Nat /\ settled \in Nat /\ searches \in Nat
  BY LedgerFields
<1>1. m = Settled(l, c, kind, used)
  BY DEF Settled, Ledgers
<1>2. m \in Ledgers /\ m.ceiling = l.ceiling /\ m.remaining = l.remaining
      /\ m.spent = total /\ m.settled = settled /\ m.searches = searches
      /\ m.breach = l.breach /\ m.exceeded = l.exceeded /\ m.open = open
  <2> HIDE DEF open, total, settled, searches
  <2> QED  BY <1>0 DEF Ledgers
<1> HIDE DEF m
<1> QED  BY <1>0, <1>1, <1>2 DEF Settles

LEMMA KeptMoves ==
  ASSUME NEW l \in Ledgers, NEW c \in Callers, NEW kind
  PROVE  LET m == Kept(l, c, kind) IN
         /\ m \in Ledgers /\ Settles(l, m, c, kind, l.open[c], 0)
         /\ m.exceeded = l.exceeded /\ m.breach = l.breach
<1>1. l.open[c] \in Nat
  BY LedgerFields
<1> QED  BY <1>1, SettledMoves DEF Kept

LEMMA ReconciledMoves ==
  ASSUME NEW l \in Ledgers, NEW c \in Callers, NEW kind, NEW used \in Nat
  PROVE  LET m == Reconciled(l, c, kind, used) IN
         /\ m \in Ledgers /\ Settles(l, m, c, kind, used, l.open[c] - used)
         /\ m.exceeded = (l.exceeded \/ (kind = "search" /\ used > l.open[c]))
<1> DEFINE s == Settled(l, c, kind, used)
           m == Reconciled(l, c, kind, used)
<1>1. s \in Ledgers /\ Settles(l, s, c, kind, used, 0) /\ s.exceeded = l.exceeded /\ s.breach = l.breach
  BY SettledMoves
<1>2. m = [s EXCEPT !.remaining = @ + l.open[c] - used,
                    !.breach = @ \/ (kind # "search" /\ used > l.open[c]),
                    !.exceeded = @ \/ (kind = "search" /\ used > l.open[c])]
  BY DEF Reconciled
<1> HIDE DEF s, m
<1>3. l.open[c] \in Nat /\ s.remaining \in Int /\ l.remaining \in Int /\ s.remaining = l.remaining + 0
  BY <1>1 DEF Ledgers, Settles
<1>4. m \in Ledgers /\ m.exceeded = (l.exceeded \/ (kind = "search" /\ used > l.open[c]))
  <2> DEFINE rest == s.remaining + l.open[c] - used
             b == s.breach \/ (kind # "search" /\ used > l.open[c])
             e == s.exceeded \/ (kind = "search" /\ used > l.open[c])
  <2>1. rest \in Int /\ b \in BOOLEAN /\ e \in BOOLEAN
    BY <1>3
  <2>2. m = [s EXCEPT !.remaining = rest, !.breach = b, !.exceeded = e]
    BY <1>1, <1>2 DEF Ledgers
  <2>3. m \in Ledgers /\ m.exceeded = e
    <3> HIDE DEF rest, b, e
    <3> QED  BY <1>1, <2>1, <2>2 DEF Ledgers
  <2> QED  BY <1>1, <2>3
<1>5. /\ m.ceiling = s.ceiling /\ m.remaining = s.remaining + l.open[c] - used
      /\ m.spent = s.spent /\ m.settled = s.settled /\ m.searches = s.searches /\ m.open = s.open
  BY <1>1, <1>2 DEF Ledgers
<1>6. Settles(l, m, c, kind, used, l.open[c] - used)
  BY <1>1, <1>3, <1>5 DEF Settles
<1> QED  BY <1>4, <1>6 DEF m

LEMMA ReleasedMoves ==
  ASSUME NEW l \in Ledgers, NEW c \in Callers
  PROVE  LET m == Released(l, c) IN
         /\ m \in Ledgers /\ m.ceiling = l.ceiling /\ m.remaining = l.remaining + l.open[c]
         /\ m.spent = l.spent /\ m.settled = l.settled /\ m.searches = l.searches
         /\ m.breach = l.breach /\ m.exceeded = l.exceeded
         /\ m.open = [l.open EXCEPT ![c] = 0]
         /\ OpenTotal(m) = OpenTotal(l) - l.open[c] + 0
         /\ OpenTotal(m) \in Nat /\ OpenTotal(l) \in Nat
<1> DEFINE m == Released(l, c)
           open == [l.open EXCEPT ![c] = 0]
           rest == l.remaining + l.open[c]
<1>0. l.open \in [Callers -> Nat] /\ open \in [Callers -> Nat] /\ rest \in Int /\ 0 \in Nat
  BY LedgerFields
<1>1. m = [l EXCEPT !.remaining = rest, !.open = open]
  BY DEF Released
<1>2. m \in Ledgers /\ m.ceiling = l.ceiling /\ m.remaining = rest
      /\ m.spent = l.spent /\ m.settled = l.settled /\ m.searches = l.searches
      /\ m.breach = l.breach /\ m.exceeded = l.exceeded /\ m.open = open
  <2> HIDE DEF open, rest, m
  <2> QED  BY <1>0, <1>1 DEF Ledgers
<1> HIDE DEF m
<1>3. OpenTotal(m) = OpenTotal(l) - l.open[c] + 0 /\ OpenTotal(m) \in Nat /\ OpenTotal(l) \in Nat
  <2>1. l.open \in [Callers -> Nat] /\ m.open = [l.open EXCEPT ![c] = 0] /\ 0 \in Nat
    BY <1>0, <1>2
  <2> QED  BY <2>1, OpenTotalMoves
<1> QED  BY <1>2, <1>3 DEF m

-----------------------------------------------------------------------------
(* The steps, by what they do to the ledger.                               *)

Slots == /\ Cardinality(SearchesAt({"claimed", "sent"})) <= run.claimed
         /\ run.claimed <= MaxPerSession

\* A step inside a run, in which only the callers of C begin or end a call.
Moved(C) ==
  /\ run' \in Runs /\ run.pc # "off" /\ run'.pc # "off" /\ UNCHANGED history
  /\ run'.prior = run.prior /\ run'.limit = run.limit
  /\ \A b \in Callers \ C : /\ run'.at[b] = "sent" <=> run.at[b] = "sent"
                            /\ run.at[b] = "sent" => run'.kind[b] = run.kind[b]
  /\ \A b \in Callers : run'.at[b] = "claimed" => run'.kind[b] = "search"
  /\ Slots'

\* What the ledger and the history say of money and calls.
BooksHold == TypeOK /\ CallsHold /\ MoneyHolds /\ SearchesHold

LEMMA LiveNumbers ==
  /\ PoolCap \in Nat /\ CampaignCap \in Nat /\ MaxPerSession \in Nat /\ FirstTurn \in Nat
  /\ MaxTurns \in Nat /\ MaxRuns \in Nat /\ MaxOverruns \in Nat
  /\ MaxAttempts \in Nat /\ MaxAttempts >= 1
  /\ \A k \in CallKinds : Cost[k] \in Nat /\ Cost[k] >= 1
  /\ \A limit \in Limits : LimitOr(limit, CampaignCap) \in Nat
BY LiveAssumption DEF LimitOr

LEMMA LiveTyped ==
  ASSUME TypeOK
  PROVE  /\ history \in Histories /\ ledger \in Ledgers /\ run \in Runs /\ paid \in Truth
         /\ history.spent \in Nat /\ history.searches \in Nat
         /\ history.breach \in BOOLEAN /\ history.exceeded \in BOOLEAN
         /\ paid.now \in Nat /\ paid.past \in Nat /\ paid.over \in Nat /\ paid.overruns \in Nat
         /\ paid.searches \in Nat /\ paid.searched \in Nat /\ paid.runs \in 0..MaxRuns
BY DEF TypeOK, Histories, Truth

LEMMA RunTyped ==
  ASSUME NEW r \in Runs
  PROVE  /\ r.attempt \in 0..MaxAttempts /\ r.turns \in 0..MaxTurns /\ r.streak \in 0..2
         /\ r.answers \in Nat /\ r.claimed \in Nat /\ r.prior \in Nat /\ r.dispatched \in Nat
         /\ r.limit \in Limits /\ r.stop \in Stops /\ r.last \in Outcomes \cup {"none"}
         /\ r.kind \in [Callers -> CallKinds \cup {"none"}]
         /\ r.at \in [Callers -> {"idle", "begun", "claimed", "sent"}]
         /\ r.first \in BOOLEAN /\ r.searched \in BOOLEAN
         /\ r.plan \in Seq(Selected)
BY DEF Runs

LEMMA ScenarioTyped ==
  ASSUME run \in Runs, run.plan # <<>>
  PROVE  Scenario.answers \in Nat
<1>1. run.plan \in Seq(Selected)
  BY RunTyped
<1>2. Scenario \in Selected
  BY <1>1 DEF Scenario
<1>3. PICK p \in Scenarios : \E i \in DOMAIN p : Scenario = p[i]
  BY <1>2 DEF Selected
<1>4. PICK i \in DOMAIN p : Scenario = p[i]
  BY <1>3
<1> DEFINE S == [search : BOOLEAN, answers : Nat, expects : Outcomes,
                 flow : SUBSET {"resume", "select", "plan", "followup"}]
<1>5. p \in Seq(S)
  BY LiveAssumption
<1>6. p[i] \in S
  <2> HIDE DEF S
  <2> QED  BY <1>4, <1>5
<1> QED  BY <1>4, <1>6

LEMMA SearchesFinite ==
  ASSUME NEW places
  PROVE  IsFiniteSet(SearchesAt(places)) /\ Cardinality(SearchesAt(places)) \in Nat
BY CallersFinite, FS_Subset, FS_CardinalityType DEF SearchesAt

LEMMA SearchesFiniteNext ==
  ASSUME NEW places
  PROVE  IsFiniteSet(SearchesAt(places)') /\ Cardinality(SearchesAt(places)') \in Nat
<1>1. SearchesAt(places)' \subseteq Tools
  BY DEF SearchesAt
<1> QED  BY <1>1, CallersFinite, FS_Subset, FS_CardinalityType

\* Nothing is reserved or settled.
LEMMA BooksStay ==
  ASSUME BooksHold, Moved({}), UNCHANGED <<ledger, paid>>,
         run'.dispatched \in {run.dispatched, run.dispatched + 1}
  PROVE  BooksHold'
<1>0. TypeOK /\ CallsHold /\ MoneyHolds /\ SearchesHold /\ ledger' = ledger /\ paid' = paid
      /\ history' = history
  BY DEF BooksHold, Moved
<1>1. TypeOK'
  BY <1>0 DEF TypeOK, Moved
<1>2. CallsHold'
  BY <1>0 DEF CallsHold, Moved
<1>3. MoneyHolds'
  BY <1>0 DEF MoneyHolds, Moved
<1>4. SearchesHold'
  <2>1. SearchesAt({"sent"})' = SearchesAt({"sent"})
    BY CallersFinite DEF Moved, SearchesAt
  <2>2. /\ run'.prior = run.prior /\ run'.limit = run.limit /\ run.pc # "off" /\ run'.pc # "off"
        /\ Slots' /\ run.dispatched \in Nat /\ run'.dispatched \in Nat /\ paid.searches \in Nat
    BY <1>0, <1>1, RunTyped, LiveTyped DEF Moved, TypeOK
  <2>3. paid.searches <= run'.dispatched
    BY <1>0, <2>2 DEF SearchesHold
  <2> QED  BY <1>0, <2>1, <2>2, <2>3 DEF SearchesHold, Slots
<1> QED  BY <1>1, <1>2, <1>3, <1>4 DEF BooksHold

\* A call is reserved and sent; a search is dispatched as well.
LEMMA BooksReserve ==
  ASSUME BooksHold, NEW c \in Callers, Moved({c}), NEW kind \in CallKinds,
         run.at[c] # "sent", run'.at[c] = "sent", run'.kind[c] = kind,
         kind = "search" <=> c \in Tools /\ run'.kind[c] = "search",
         Affordable(ledger, Cost[kind]), ledger' = Reserved(ledger, c, Cost[kind]),
         \/ kind # "search" /\ paid' = paid /\ run'.dispatched = run.dispatched
         \/ /\ kind = "search" /\ MayDispatch /\ paid' = [paid EXCEPT !.searches = @ + 1]
            /\ run'.dispatched = run.dispatched + 1
  PROVE  BooksHold'
<1>0. /\ TypeOK /\ CallsHold /\ MoneyHolds /\ SearchesHold /\ history' = history
      /\ run.pc # "off" /\ run'.pc # "off" /\ run' \in Runs
      /\ run'.prior = run.prior /\ run'.limit = run.limit
  BY DEF BooksHold, Moved
<1> DEFINE cost == Cost[kind]
           more == IF kind = "search" THEN 1 ELSE 0
<1>1. cost \in Nat /\ cost >= 1 /\ ledger \in Ledgers /\ more \in Nat
  BY <1>0, LiveNumbers, LiveTyped
<1>2. /\ ledger' \in Ledgers /\ ledger'.ceiling = ledger.ceiling
      /\ ledger'.remaining = ledger.remaining - cost
      /\ ledger'.spent = ledger.spent /\ ledger'.settled = ledger.settled
      /\ ledger'.searches = ledger.searches
      /\ ledger'.open = [ledger.open EXCEPT ![c] = cost]
      /\ OpenTotal(ledger') = OpenTotal(ledger) - ledger.open[c] + cost
      /\ OpenTotal(ledger') \in Nat /\ OpenTotal(ledger) \in Nat
  BY <1>1, ReservedMoves
<1>3. /\ paid' \in Truth /\ paid'.now = paid.now /\ paid'.past = paid.past
      /\ paid'.over = paid.over /\ paid'.searches = paid.searches + more
      /\ paid'.searched = paid.searched
  <2>1. CASE kind = "search"
    BY <1>0, <2>1, LiveTyped DEF Truth
  <2>2. CASE kind # "search"
    BY <1>0, <2>2, LiveTyped DEF Truth
  <2> QED  BY <2>1, <2>2
<1>4. ledger.open \in [Callers -> Nat] /\ ledger.open[c] = 0
  BY <1>0, <1>1, LedgerFields DEF CallsHold
<1>5. TypeOK'
  BY <1>0, <1>2, <1>3 DEF TypeOK
<1>6. CallsHold'
  <2> SUFFICES ASSUME NEW b \in Callers
               PROVE  /\ run'.at[b] = "sent" => run'.kind[b] # "none" /\ ledger'.open[b] = Cost[run'.kind[b]]
                      /\ run'.at[b] # "sent" => ledger'.open[b] = 0
                      /\ run'.at[b] = "claimed" => run'.kind[b] = "search"
    BY DEF CallsHold
  <2>1. CASE b = c
    BY <1>2, <1>4, <2>1 DEF CallKinds
  <2>2. CASE b # c
    <3>1. ledger'.open[b] = ledger.open[b]
      BY <1>2, <1>4, <2>2
    <3> QED  BY <1>0, <2>2, <3>1 DEF CallsHold, Moved
  <2> QED  BY <2>1, <2>2
<1>7. MoneyHolds'
  <2>1. cost <= ledger.remaining
    BY DEF Affordable
  <2>2. /\ ledger.remaining \in Int /\ ledger.spent \in Nat /\ ledger.ceiling \in Nat
        /\ paid.over \in Nat /\ history.spent \in Nat
    BY <1>0, <1>1, LedgerFields, LiveTyped
  <2>3. /\ ledger.remaining - cost + ledger.spent + OpenTotal(ledger') = ledger.ceiling
        /\ ledger.remaining - cost + paid.over >= 0
    BY <1>0, <1>1, <1>2, <1>4, <2>1, <2>2 DEF MoneyHolds
  <2> QED  BY <1>0, <1>2, <1>3, <2>3 DEF MoneyHolds
<1>8. SearchesHold'
  <2>1. /\ paid.searches \in Nat /\ paid.searched \in Nat /\ history.searches \in Nat
        /\ run.dispatched \in Nat /\ run.prior \in Nat /\ ledger.searches \in Nat
        /\ LimitOr(run.limit, CampaignCap) \in Nat /\ CampaignCap \in Nat
    BY <1>0, LiveTyped, RunTyped, LedgerFields, LiveNumbers
  <2>2. run'.dispatched = run.dispatched + more
    BY <2>1
  <2>3. Cardinality(SearchesAt({"sent"})') = Cardinality(SearchesAt({"sent"})) + more
    <3>1. CASE kind = "search"
      <4>1. SearchesAt({"sent"})' = SearchesAt({"sent"}) \cup {c} /\ c \notin SearchesAt({"sent"})
        BY <3>1, CallersFinite DEF Moved, SearchesAt
      <4> QED  BY <3>1, <4>1, SearchesFinite, FS_AddElement
    <3>2. CASE kind # "search"
      <4>1. SearchesAt({"sent"})' = SearchesAt({"sent"})
        BY <3>2, CallersFinite DEF Moved, SearchesAt
      <4> QED  BY <3>2, <4>1, SearchesFinite
    <3> QED  BY <3>1, <3>2
  <2>4. Cardinality(SearchesAt({"sent"})) \in Nat
    BY SearchesFinite
  <2>5. /\ paid.searched + (paid.searches + more) <= CampaignCap
        /\ paid.searches + more <= LimitOr(run.limit, CampaignCap)
    <3>1. CASE kind = "search"
      <4>1. run.dispatched < LimitOr(run.limit, CampaignCap) /\ run.prior + run.dispatched < CampaignCap
        BY <3>1 DEF MayDispatch
      <4> QED  BY <1>0, <2>1, <3>1, <4>1 DEF SearchesHold
    <3>2. CASE kind # "search"
      BY <1>0, <2>1, <3>2 DEF SearchesHold
    <3> QED  BY <3>1, <3>2
  <2>6. paid.searches + more <= run.dispatched + more
        /\ paid.searches + more <= ledger.searches + (Cardinality(SearchesAt({"sent"})) + more)
    BY <1>0, <1>1, <2>1, <2>4 DEF SearchesHold
  <2>7. Slots'
    BY DEF Moved
  <2> HIDE DEF more
  <2> QED  BY <1>0, <1>2, <1>3, <2>2, <2>3, <2>5, <2>6, <2>7 DEF SearchesHold, Slots
<1> QED  BY <1>5, <1>6, <1>7, <1>8 DEF BooksHold

\* A call is over: used of its reservation is on record, and at most that was
\* charged, but for what exceeds the reservation and is taken from the rest.
LEMMA BooksSettle ==
  ASSUME BooksHold, NEW c \in Callers, Moved({c}), NEW used \in Nat, NEW back \in Int, NEW u \in Nat,
         run.at[c] = "sent", run'.at[c] # "sent", run'.dispatched = run.dispatched,
         run.kind[c] = "search" => c \in Tools,
         ledger' \in Ledgers, Settles(ledger, ledger', c, run.kind[c], used, back),
         paid' = Charged(paid, c, u), u <= used, used + back = ledger.open[c],
         back >= 0 \/ u = used
  PROVE  BooksHold'
<1>0. /\ TypeOK /\ CallsHold /\ MoneyHolds /\ SearchesHold /\ history' = history
      /\ run.pc # "off" /\ run'.pc # "off" /\ run' \in Runs
      /\ run'.prior = run.prior /\ run'.limit = run.limit
  BY DEF BooksHold, Moved
<1> DEFINE open == ledger.open[c]
           excess == IF u > open THEN u - open ELSE 0
           more == IF run.kind[c] = "search" THEN 1 ELSE 0
<1>1. /\ ledger \in Ledgers /\ open \in Nat /\ more \in Nat /\ excess \in Nat
      /\ ledger.open \in [Callers -> Nat]
  BY <1>0, LiveTyped, LedgerFields
<1>2. /\ ledger'.ceiling = ledger.ceiling /\ ledger'.remaining = ledger.remaining + back
      /\ ledger'.spent = ledger.spent + used /\ ledger'.settled = ledger.settled + used
      /\ ledger'.searches = ledger.searches + more
      /\ ledger'.open = [ledger.open EXCEPT ![c] = 0]
      /\ OpenTotal(ledger') = OpenTotal(ledger) - open
      /\ OpenTotal(ledger') \in Nat /\ OpenTotal(ledger) \in Nat
  <2>1. OpenTotal(ledger') = OpenTotal(ledger) - open
        /\ OpenTotal(ledger') \in Nat /\ OpenTotal(ledger) \in Nat
    BY <1>1, SettlesMoves
  <2>2. ledger.searches \in Nat
    BY <1>1, LedgerFields
  <2> QED  BY <2>1, <2>2 DEF Settles
<1>3. /\ paid' \in Truth /\ paid'.now = paid.now + u /\ paid'.past = paid.past
      /\ paid'.over = paid.over + excess /\ paid'.searches = paid.searches
      /\ paid'.searched = paid.searched
  <2> DEFINE now == paid.now + u
             over == paid.over + excess
             count == IF excess > 0 THEN paid.overruns + 1 ELSE paid.overruns
  <2>1. now \in Nat /\ over \in Nat /\ count \in Nat /\ paid \in Truth
    BY <1>0, <1>1, LiveTyped
  <2>2. paid' = [paid EXCEPT !.now = now, !.over = over, !.overruns = count]
    BY <2>1 DEF Charged, Truth
  <2> HIDE DEF now, over, count
  <2>3. /\ paid' \in Truth /\ paid'.now = now /\ paid'.past = paid.past
        /\ paid'.over = over /\ paid'.searches = paid.searches
        /\ paid'.searched = paid.searched
    BY <2>1, <2>2 DEF Truth
  <2> QED  BY <2>3 DEF now, over
<1>4. TypeOK'
  BY <1>0, <1>3 DEF TypeOK
<1>5. CallsHold'
  <2> SUFFICES ASSUME NEW b \in Callers
               PROVE  /\ run'.at[b] = "sent" => run'.kind[b] # "none" /\ ledger'.open[b] = Cost[run'.kind[b]]
                      /\ run'.at[b] # "sent" => ledger'.open[b] = 0
                      /\ run'.at[b] = "claimed" => run'.kind[b] = "search"
    BY DEF CallsHold
  <2>1. CASE b = c
    BY <1>1, <1>2, <2>1 DEF Moved
  <2>2. CASE b # c
    <3>1. ledger'.open[b] = ledger.open[b]
      BY <1>1, <1>2, <2>2
    <3> QED  BY <1>0, <2>2, <3>1 DEF CallsHold, Moved
  <2> QED  BY <2>1, <2>2
<1>6. MoneyHolds'
  <2>1. /\ ledger.remaining \in Int /\ ledger.spent \in Nat /\ ledger.ceiling \in Nat
        /\ ledger.settled \in Nat /\ paid.over \in Nat /\ paid.now \in Nat /\ paid.past \in Nat
        /\ history.spent \in Nat /\ PoolCap \in Nat
    BY <1>0, <1>1, LedgerFields, LiveTyped, LiveNumbers
  <2>2. /\ (ledger.remaining + back) + (ledger.spent + used) + (OpenTotal(ledger) - open)
             = ledger.ceiling
        /\ ledger.settled + used = ledger.spent + used
        /\ paid.now + u <= ledger.spent + used
    BY <1>0, <1>1, <1>2, <2>1 DEF MoneyHolds
  <2>3. (ledger.remaining + back) + (paid.over + excess) >= 0
    <3>1. back + excess >= 0
      BY <1>1
    <3>2. ledger.remaining + paid.over >= 0
      BY <1>0 DEF MoneyHolds
    <3> HIDE DEF excess
    <3> QED  BY <1>1, <2>1, <3>1, <3>2
  <2>4. paid.past + (paid.now + u) <= PoolCap + (paid.over + excess)
    <3>1. paid.past <= history.spent /\ ledger.ceiling + history.spent <= PoolCap
      BY <1>0 DEF MoneyHolds
    <3>2. OpenTotal(ledger) - open \in Nat
      BY <1>2
    <3> HIDE DEF excess, open
    <3> QED  BY <1>1, <2>1, <2>2, <2>3, <3>1, <3>2
  <2>5. paid.past <= history.spent /\ ledger.ceiling + history.spent <= PoolCap
    BY <1>0 DEF MoneyHolds
  <2> HIDE DEF excess, open
  <2> QED  BY <1>0, <1>2, <1>3, <2>2, <2>3, <2>4, <2>5 DEF MoneyHolds
<1>7. SearchesHold'
  <2>1. /\ paid.searches \in Nat /\ ledger.searches \in Nat
        /\ Cardinality(SearchesAt({"sent"})) \in Nat
    BY <1>0, <1>1, LiveTyped, LedgerFields, SearchesFinite
  <2>2. Cardinality(SearchesAt({"sent"})') = Cardinality(SearchesAt({"sent"})) - more
    <3>1. CASE run.kind[c] = "search"
      <4>1. SearchesAt({"sent"})' = SearchesAt({"sent"}) \ {c} /\ c \in SearchesAt({"sent"})
        BY <3>1, CallersFinite DEF Moved, SearchesAt
      <4> QED  BY <3>1, <4>1, SearchesFinite, FS_RemoveElement
    <3>2. CASE run.kind[c] # "search"
      <4>1. SearchesAt({"sent"})' = SearchesAt({"sent"})
        BY <3>2, CallersFinite DEF Moved, SearchesAt
      <4> QED  BY <3>2, <4>1, SearchesFinite
    <3> QED  BY <3>1, <3>2
  <2>3. paid.searches <= (ledger.searches + more) + (Cardinality(SearchesAt({"sent"})) - more)
    BY <1>0, <1>1, <2>1 DEF SearchesHold
  <2>4. Slots'
    BY DEF Moved
  <2> HIDE DEF more
  <2> QED  BY <1>0, <1>2, <1>3, <2>2, <2>3, <2>4 DEF SearchesHold, Slots
<1> QED  BY <1>4, <1>5, <1>6, <1>7 DEF BooksHold

\* A turn that was never sent gives its reservation back.
LEMMA BooksRelease ==
  ASSUME BooksHold, Moved({Turn}), run.at[Turn] = "sent", run'.at[Turn] # "sent",
         run'.dispatched = run.dispatched, run.kind[Turn] # "search",
         ledger' = Released(ledger, Turn), paid' = paid
  PROVE  BooksHold'
<1>0. /\ TypeOK /\ CallsHold /\ MoneyHolds /\ SearchesHold /\ history' = history
      /\ run.pc # "off" /\ run'.pc # "off" /\ run' \in Runs
      /\ run'.prior = run.prior /\ run'.limit = run.limit /\ Turn \in Callers
  BY CallersFinite DEF BooksHold, Moved
<1> DEFINE open == ledger.open[Turn]
<1>1. ledger \in Ledgers /\ open \in Nat /\ ledger.open \in [Callers -> Nat]
  BY <1>0, LiveTyped, LedgerFields
<1>2. /\ ledger' \in Ledgers /\ ledger'.ceiling = ledger.ceiling
      /\ ledger'.remaining = ledger.remaining + open
      /\ ledger'.spent = ledger.spent /\ ledger'.settled = ledger.settled
      /\ ledger'.searches = ledger.searches
      /\ ledger'.open = [ledger.open EXCEPT ![Turn] = 0]
      /\ OpenTotal(ledger') = OpenTotal(ledger) - open + 0
      /\ OpenTotal(ledger') \in Nat /\ OpenTotal(ledger) \in Nat
  BY <1>0, <1>1, ReleasedMoves
<1>3. TypeOK'
  BY <1>0, <1>2 DEF TypeOK
<1>4. CallsHold'
  <2> SUFFICES ASSUME NEW b \in Callers
               PROVE  /\ run'.at[b] = "sent" => run'.kind[b] # "none" /\ ledger'.open[b] = Cost[run'.kind[b]]
                      /\ run'.at[b] # "sent" => ledger'.open[b] = 0
                      /\ run'.at[b] = "claimed" => run'.kind[b] = "search"
    BY DEF CallsHold
  <2>1. CASE b = Turn
    BY <1>1, <1>2, <2>1 DEF Moved
  <2>2. CASE b # Turn
    <3>1. ledger'.open[b] = ledger.open[b]
      BY <1>1, <1>2, <2>2
    <3> QED  BY <1>0, <2>2, <3>1 DEF CallsHold, Moved
  <2> QED  BY <2>1, <2>2
<1>5. MoneyHolds'
  <2>1. ledger.remaining \in Int /\ ledger.spent \in Nat /\ ledger.ceiling \in Nat /\ paid.over \in Nat
    BY <1>0, <1>1, LedgerFields, LiveTyped
  <2>2. /\ (ledger.remaining + open) + ledger.spent + (OpenTotal(ledger) - open + 0) = ledger.ceiling
        /\ (ledger.remaining + open) + paid.over >= 0
    BY <1>0, <1>1, <1>2, <2>1 DEF MoneyHolds
  <2> HIDE DEF open
  <2> QED  BY <1>0, <1>2, <2>2 DEF MoneyHolds
<1>6. SearchesHold'
  <2>1. SearchesAt({"sent"})' = SearchesAt({"sent"})
    BY LiveAssumption, CallersFinite DEF Moved, SearchesAt
  <2>2. Slots'
    BY DEF Moved
  <2> QED  BY <1>0, <1>2, <2>1, <2>2 DEF SearchesHold, Slots
<1> QED  BY <1>3, <1>4, <1>5, <1>6 DEF BooksHold

-----------------------------------------------------------------------------
(* The steps, by what they do to the run.                                  *)

LEMMA SlotsStay ==
  ASSUME TypeOK, SearchesHold, run'.claimed = run.claimed,
         SearchesAt({"claimed", "sent"})' \subseteq SearchesAt({"claimed", "sent"})
  PROVE  Slots'
<1>1. /\ Cardinality(SearchesAt({"claimed", "sent"})') <= Cardinality(SearchesAt({"claimed", "sent"}))
      /\ Cardinality(SearchesAt({"claimed", "sent"})') \in Nat
      /\ Cardinality(SearchesAt({"claimed", "sent"})) \in Nat
  BY SearchesFinite, SearchesFiniteNext, FS_Subset
<1>2. run.claimed \in Nat
  BY LiveTyped, RunTyped
<1> QED  BY <1>1, <1>2 DEF SearchesHold, Slots

LEMMA SlotsFree ==
  ASSUME \A t \in Tools : run'.at[t] \notin {"claimed", "sent"},
         run'.claimed \in Nat, run'.claimed <= MaxPerSession
  PROVE  Slots'
<1>1. SearchesAt({"claimed", "sent"})' = {}
  BY DEF SearchesAt
<1>2. Cardinality(SearchesAt({"claimed", "sent"})') = 0
  BY <1>1, FS_EmptySet
<1> QED  BY <1>2 DEF Slots

\* What an attempt keeps.
SameCourse == /\ run'.plan = run.plan /\ run'.attempt = run.attempt /\ run'.streak = run.streak
              /\ run'.prior = run.prior /\ run'.limit = run.limit

\* The attempt is over.
Halts(halt, last) == run' = [Over(run, halt) EXCEPT !.last = last]

LEMMA HaltsMoves ==
  ASSUME run \in Runs, NEW halt \in Stops, NEW last \in Outcomes \cup {"none"}, Halts(halt, last)
  PROVE  /\ run' \in Runs /\ SameCourse /\ run'.pc = "judge" /\ run'.stop = halt
         /\ run'.at = Quiet /\ run'.kind = NoKind
         /\ run'.claimed = run.claimed /\ run'.dispatched = run.dispatched
<1>1. Quiet \in [Callers -> {"idle", "begun", "claimed", "sent"}]
      /\ NoKind \in [Callers -> CallKinds \cup {"none"}]
  BY DEF Quiet, NoKind
<1>2. run' = [run EXCEPT !.pc = "judge", !.stop = halt, !.at = Quiet, !.kind = NoKind, !.last = last]
  BY DEF Halts, Over, Runs
<1> QED  BY <1>1, <1>2 DEF Runs, SameCourse

LEMMA HaltKeeps ==
  ASSUME LiveInv, NEW halt \in Stops, NEW last \in Outcomes \cup {"none"}, Halts(halt, last),
         run.pc \notin {"off", "finish"}, UNCHANGED history,
         NEW C, \A b \in Callers \ C : run.at[b] # "sent",
         ledger'.exceeded => halt # "none"
  PROVE  /\ Moved(C) /\ PlacesHold' /\ StopsKept' /\ run'.dispatched = run.dispatched
         /\ \A b \in Callers : run'.at[b] = "idle"
<1>0. TypeOK /\ CallsHold /\ PlacesHold /\ StopsKept /\ SearchesHold /\ run \in Runs
  BY LiveTyped DEF LiveInv
<1>1. /\ run' \in Runs /\ SameCourse /\ run'.pc = "judge" /\ run'.stop = halt
      /\ run'.at = Quiet /\ run'.kind = NoKind
      /\ run'.claimed = run.claimed /\ run'.dispatched = run.dispatched
  BY <1>0, HaltsMoves
<1>2. \A b \in Callers : run'.at[b] = "idle"
  BY <1>1 DEF Quiet
<1>3. Slots'
  <2>1. \A t \in Tools : run'.at[t] \notin {"claimed", "sent"}
    BY <1>2, CallersFinite
  <2>2. run'.claimed \in Nat /\ run'.claimed <= MaxPerSession
    BY <1>0, <1>1, RunTyped DEF SearchesHold
  <2> QED  BY <2>1, <2>2, SlotsFree
<1>4. Moved(C)
  BY <1>0, <1>1, <1>2, <1>3 DEF Moved, SameCourse
<1>5. PlacesHold'
  BY <1>0, <1>1, <1>2, CallersFinite DEF PlacesHold, SameCourse
<1>6. StopsKept'
  BY <1>0, <1>1 DEF StopsKept
<1> QED  BY <1>1, <1>2, <1>4, <1>5, <1>6

\* A tool ends its call, and may raise.
Leaves(t) ==
  /\ run' \in Runs /\ SameCourse /\ run'.claimed = run.claimed
  /\ run'.at = [run.at EXCEPT ![t] = "idle"] /\ run'.kind = [run.kind EXCEPT ![t] = "none"]
  /\ \/ run'.pc = run.pc /\ run'.stop = run.stop
     \/ run'.pc = "unwind" /\ run'.stop # "none"

LEMMA LeaveKeeps ==
  ASSUME LiveInv, NEW t \in Tools, Leaves(t), run.pc \in {"batch", "unwind"}, UNCHANGED history,
         ledger'.exceeded => run'.stop # "none"
  PROVE  /\ Moved({t}) /\ PlacesHold' /\ StopsKept' /\ run'.at[t] = "idle"
         /\ \A b \in Callers \ {t} : run'.at[b] = run.at[b] /\ run'.kind[b] = run.kind[b]
<1>0. TypeOK /\ CallsHold /\ PlacesHold /\ StopsKept /\ SearchesHold /\ run \in Runs
  BY LiveTyped DEF LiveInv
<1>1. /\ run.at \in [Callers -> {"idle", "begun", "claimed", "sent"}]
      /\ run.kind \in [Callers -> CallKinds \cup {"none"}] /\ t \in Callers
  BY <1>0, RunTyped, CallersFinite
<1>2. /\ run'.at[t] = "idle"
      /\ \A b \in Callers \ {t} : run'.at[b] = run.at[b] /\ run'.kind[b] = run.kind[b]
  BY <1>1 DEF Leaves
<1>3. Slots'
  <2>1. SearchesAt({"claimed", "sent"})' \subseteq SearchesAt({"claimed", "sent"})
    BY <1>2, CallersFinite DEF SearchesAt
  <2> QED  BY <1>0, <2>1, SlotsStay DEF Leaves
<1>4. Moved({t})
  <2>1. \A b \in Callers : run'.at[b] = "claimed" => run'.kind[b] = "search"
    BY <1>0, <1>2 DEF CallsHold
  <2> QED  BY <1>0, <1>2, <1>3, <2>1 DEF Moved, Leaves, SameCourse
<1>5. PlacesHold'
  <2>1. run'.pc \in {"batch", "unwind"}
    BY DEF Leaves
  <2>2. run'.at[Turn] = "idle"
    BY <1>0, <1>2, LiveAssumption, CallersFinite DEF PlacesHold
  <2> QED  BY <1>0, <2>1, <2>2 DEF PlacesHold, Leaves, SameCourse
<1>6. StopsKept'
  BY <1>0 DEF StopsKept, Leaves
<1> QED  BY <1>2, <1>4, <1>5, <1>6

LEMMA LiveParts ==
  LiveInv <=> BooksHold /\ PlacesHold /\ StopsKept
BY DEF LiveInv, BooksHold

\* In a step in which nothing is sent nobody has sent anything.
LEMMA NobodySent ==
  ASSUME LiveInv, run.pc \notin {"turn", "batch", "unwind"}
  PROVE  \A b \in Callers : run.at[b] = "idle"
BY LiveAssumption DEF LiveInv, PlacesHold

LEMMA StopNames ==
  /\ {"none", "runner-error", "budget", "contact-operator", "provider-auth",
      "search-estimate-exceeded"} \subseteq Stops
  /\ {"wall_clock", "question", "options", "plan"} \subseteq Outcomes
BY DEF Stops, Outcomes

\* A step of the run alone, with every caller at rest.
LEMMA RestKeeps ==
  ASSUME LiveInv, run.pc \notin {"off", "turn", "batch", "unwind"}, run' \in Runs, run'.pc # "off",
         UNCHANGED <<history, ledger, paid>>,
         run'.prior = run.prior, run'.limit = run.limit, run'.dispatched = run.dispatched,
         \A b \in Callers : run'.at[b] \notin {"claimed", "sent"},
         run'.claimed <= MaxPerSession, PlacesHold', StopsKept'
  PROVE  LiveInv'
<1>1. \A b \in Callers : run.at[b] = "idle"
  BY NobodySent
<1>2. Slots'
  BY RunTyped, CallersFinite, SlotsFree
<1>3. Moved({})
  BY <1>1, <1>2 DEF Moved
<1>4. run'.dispatched \in {run.dispatched, run.dispatched + 1}
  OBVIOUS
<1>5. BooksHold /\ ledger' = ledger /\ paid' = paid
  BY LiveParts
<1>6. BooksHold'
  BY <1>3, <1>4, <1>5, BooksStay
<1> QED  BY <1>6, LiveParts DEF LiveInv, BooksHold

-----------------------------------------------------------------------------
(* The actions.                                                            *)

LEMMA StartAttemptKeeps == ASSUME LiveInv, StartAttempt PROVE LiveInv'
<1>0. /\ TypeOK /\ PlacesHold /\ StopsKept /\ SearchesHold /\ run \in Runs /\ run.pc = "attempt"
      /\ UNCHANGED <<history, ledger, paid>>
  BY LiveTyped DEF LiveInv, StartAttempt, At
<1>1. \A b \in Callers : run.at[b] = "idle"
  BY <1>0, NobodySent
<1>2. CASE Fails("runner-error")
  <2>1. Halts("runner-error", "none")
    BY <1>2 DEF Fails, Halts
  <2>2. Moved({}) /\ PlacesHold' /\ StopsKept' /\ run'.dispatched = run.dispatched
    BY <1>0, <1>1, <2>1, HaltKeeps, StopNames
  <2>3. run'.dispatched \in {run.dispatched, run.dispatched + 1}
    BY <2>2
  <2>4. BooksHold'
    BY <1>0, <2>2, <2>3, BooksStay, LiveParts
  <2> QED  BY <2>2, <2>4 DEF LiveInv, BooksHold
<1>3. CASE run' = [run EXCEPT !.pc = "agent", !.attempt = @ + 1, !.stage = "recommend",
                           !.answers = Scenario.answers, !.turns = 0, !.claimed = 0]
  <2> DEFINE answers == Scenario.answers
             attempt == run.attempt + 1
  <2>1. answers \in Nat
    BY <1>0, ScenarioTyped DEF PlacesHold
  <2>2. attempt \in 0..MaxAttempts
    <3>1. run.attempt \in 0..MaxAttempts /\ MaxAttempts \in Nat /\ run.attempt < MaxAttempts
      BY <1>0, RunTyped, LiveNumbers DEF PlacesHold
    <3> QED  BY <3>1
  <2>3. run' = [run EXCEPT !.pc = "agent", !.attempt = attempt, !.stage = "recommend",
                           !.answers = answers, !.turns = 0, !.claimed = 0]
    BY <1>3
  <2> HIDE DEF answers, attempt
  <2>8. 0 \in 0..MaxTurns /\ 0 \in Nat
    BY LiveNumbers
  <2>4. /\ run' \in Runs /\ run'.pc = "agent" /\ run'.at = run.at /\ run'.claimed = 0
        /\ run'.prior = run.prior /\ run'.limit = run.limit /\ run'.dispatched = run.dispatched
        /\ run'.plan = run.plan /\ run'.streak = run.streak /\ run'.stop = run.stop
    BY <1>0, <2>1, <2>2, <2>3, <2>8 DEF Runs
  <2>5. PlacesHold' /\ StopsKept'
    BY <1>0, <1>1, <2>4, CallersFinite DEF PlacesHold, StopsKept
  <2>6. run'.claimed <= MaxPerSession
    BY <2>4, LiveNumbers
  <2>7. \A b \in Callers : run'.at[b] \notin {"claimed", "sent"}
    BY <1>1, <2>4
  <2> QED  BY <1>0, <2>4, <2>5, <2>6, <2>7, RestKeeps
<1> QED  BY <1>2, <1>3 DEF StartAttempt

LEMMA SendTurnKeeps == ASSUME LiveInv, SendTurn PROVE LiveInv'
<1>0. /\ TypeOK /\ PlacesHold /\ StopsKept /\ SearchesHold /\ run \in Runs /\ run.pc = "agent"
      /\ UNCHANGED <<history, paid>> /\ run.turns < MaxTurns /\ BooksHold
  BY LiveTyped, LiveParts DEF LiveInv, SendTurn, At
<1>1. \A b \in Callers : run.at[b] = "idle"
  BY <1>0, NobodySent
<1>2. CASE ~Affordable(ledger, Cost["chat"])
  <2>1. Halts("budget", "none") /\ UNCHANGED ledger
    BY <1>2 DEF Fails, Halts, SendTurn
  <2>2. Moved({}) /\ PlacesHold' /\ StopsKept' /\ run'.dispatched = run.dispatched
    BY <1>0, <1>1, <2>1, HaltKeeps, StopNames
  <2>3. run'.dispatched \in {run.dispatched, run.dispatched + 1}
    BY <2>2
  <2>4. BooksHold'
    BY <1>0, <2>1, <2>2, <2>3, BooksStay
  <2> QED  BY <2>2, <2>4 DEF LiveInv, BooksHold
<1>3. CASE Affordable(ledger, Cost["chat"])
  <2> DEFINE turns == run.turns + 1
             where == [run.at EXCEPT ![Turn] = "sent"]
             kind == [run.kind EXCEPT ![Turn] = "chat"]
  <2>1. /\ ledger' = Reserved(ledger, Turn, Cost["chat"])
        /\ run' = [run EXCEPT !.pc = "turn", !.turns = turns, !.at = where, !.kind = kind]
    BY <1>3 DEF SendTurn
  <2>0. turns \in 0..MaxTurns
    <3>1. run.turns \in 0..MaxTurns /\ MaxTurns \in Nat /\ run.turns < MaxTurns
      BY <1>0, RunTyped, LiveNumbers
    <3> QED  BY <3>1
  <2>2. /\ turns \in 0..MaxTurns /\ Turn \in Callers
        /\ where \in [Callers -> {"idle", "begun", "claimed", "sent"}]
        /\ kind \in [Callers -> CallKinds \cup {"none"}]
        /\ where[Turn] = "sent" /\ kind[Turn] = "chat"
        /\ \A b \in Callers \ {Turn} : where[b] = "idle" /\ kind[b] = run.kind[b]
    <3>1. run.at \in [Callers -> {"idle", "begun", "claimed", "sent"}]
          /\ run.kind \in [Callers -> CallKinds \cup {"none"}] /\ Turn \in Callers
      BY <1>0, RunTyped, CallersFinite
    <3> QED  BY <1>1, <2>0, <3>1 DEF CallKinds
  <2> HIDE DEF turns, where, kind
  <2>3. /\ run' \in Runs /\ run'.pc = "turn" /\ run'.at = where /\ run'.kind = kind /\ SameCourse
        /\ run'.claimed = run.claimed /\ run'.dispatched = run.dispatched /\ run'.stop = run.stop
    BY <1>0, <2>1, <2>2 DEF Runs, SameCourse
  <2>4. \A t \in Tools : run'.at[t] = "idle"
    BY <2>2, <2>3, LiveAssumption, CallersFinite
  <2>5. Slots'
    <3>1. run'.claimed \in Nat /\ run'.claimed <= MaxPerSession
      BY <1>0, <2>3, RunTyped DEF SearchesHold
    <3> QED  BY <2>4, <3>1, SlotsFree
  <2>6. Moved({Turn})
    BY <1>0, <1>1, <2>2, <2>3, <2>5 DEF Moved, SameCourse
  <2>7. Turn \notin Tools /\ "chat" \in CallKinds
    BY LiveAssumption DEF CallKinds
  <2>8. BooksHold'
    BY <1>0, <1>1, <1>3, <2>1, <2>2, <2>3, <2>6, <2>7, BooksReserve
  <2>9. PlacesHold'
    BY <1>0, <2>2, <2>3, <2>4 DEF PlacesHold, SameCourse
  <2>10. ledger'.exceeded = ledger.exceeded
    <3>1. ledger \in Ledgers /\ Cost["chat"] \in Nat
      BY <1>0, <2>7, LiveTyped, LiveNumbers
    <3> QED  BY <2>1, <2>2, <3>1, ReservedMoves
  <2>11. StopsKept'
    BY <1>0, <2>3, <2>10 DEF StopsKept
  <2> QED  BY <2>8, <2>9, <2>11 DEF LiveInv, BooksHold
<1> QED  BY <1>2, <1>3

LEMMA ChargesTyped ==
  ASSUME LiveInv, NEW c \in Callers, run.at[c] = "sent"
  PROVE  /\ ledger.open[c] \in Nat /\ ledger.open[c] >= 1
         /\ \A u \in Charges(c) : u \in Nat
         /\ \A u \in Lost(c) : u \in Nat /\ u <= ledger.open[c]
<1>1. /\ run.kind[c] # "none" /\ ledger.open[c] = Cost[run.kind[c]]
      /\ run.kind \in [Callers -> CallKinds \cup {"none"}]
  <2>1. run \in Runs
    BY LiveTyped DEF LiveInv
  <2> QED  BY <2>1, RunTyped DEF LiveInv, CallsHold
<1>2. run.kind[c] \in CallKinds
  BY <1>1
<1>3. ledger.open[c] \in Nat /\ ledger.open[c] >= 1
  BY <1>1, <1>2, LiveNumbers
<1> QED  BY <1>3 DEF Charges, Lost

\* The turn is over and the run goes on.
LEMMA TurnLeaves ==
  ASSUME LiveInv, run.pc = "turn", NEW place \in {"agent", "decide"}, UNCHANGED history,
         run' = [run EXCEPT !.pc = place, !.at[Turn] = "idle", !.kind[Turn] = "none"],
         ledger'.exceeded => ledger.exceeded
  PROVE  /\ Moved({Turn}) /\ PlacesHold' /\ StopsKept' /\ run'.dispatched = run.dispatched
         /\ run'.at[Turn] # "sent"
<1>0. TypeOK /\ CallsHold /\ PlacesHold /\ StopsKept /\ SearchesHold /\ run \in Runs
  BY LiveTyped DEF LiveInv
<1> DEFINE where == [run.at EXCEPT ![Turn] = "idle"]
           kind == [run.kind EXCEPT ![Turn] = "none"]
<1>1. run' = [run EXCEPT !.pc = place, !.at = where, !.kind = kind]
  OBVIOUS
<1>2. /\ where \in [Callers -> {"idle", "begun", "claimed", "sent"}]
      /\ kind \in [Callers -> CallKinds \cup {"none"}] /\ Turn \in Callers
      /\ \A b \in Callers : where[b] = "idle"
      /\ \A b \in Callers \ {Turn} : run.at[b] = "idle"
  <2>1. run.at \in [Callers -> {"idle", "begun", "claimed", "sent"}]
        /\ run.kind \in [Callers -> CallKinds \cup {"none"}] /\ Turn \in Callers
    BY <1>0, RunTyped, CallersFinite
  <2>2. \A b \in Callers \ {Turn} : run.at[b] = "idle"
    BY <1>0, LiveAssumption DEF PlacesHold
  <2> QED  BY <2>1, <2>2
<1> HIDE DEF where, kind
<1>3. /\ run' \in Runs /\ run'.pc = place /\ run'.at = where /\ run'.kind = kind /\ SameCourse
      /\ run'.claimed = run.claimed /\ run'.dispatched = run.dispatched /\ run'.stop = run.stop
  <2>1. /\ run \in Runs /\ place \in {"agent", "turn", "decide", "batch", "unwind"}
        /\ where \in [Callers -> {"idle", "begun", "claimed", "sent"}]
        /\ kind \in [Callers -> CallKinds \cup {"none"}]
    BY <1>0, <1>2
  <2>2. /\ run' \in Runs /\ run'.pc = place /\ run'.at = where /\ run'.kind = kind
        /\ run'.plan = run.plan /\ run'.attempt = run.attempt /\ run'.streak = run.streak
        /\ run'.prior = run.prior /\ run'.limit = run.limit
        /\ run'.claimed = run.claimed /\ run'.dispatched = run.dispatched /\ run'.stop = run.stop
    BY ONLY <1>1, <2>1 DEF Runs
  <2> QED  BY <2>2 DEF SameCourse
<1>4. Slots'
  <2>1. run'.claimed \in Nat /\ run'.claimed <= MaxPerSession
    BY <1>0, <1>3, RunTyped DEF SearchesHold
  <2>2. \A t \in Tools : run'.at[t] \notin {"claimed", "sent"}
    BY <1>2, <1>3, CallersFinite
  <2> QED  BY <2>1, <2>2, SlotsFree
<1>5. Moved({Turn})
  BY <1>2, <1>3, <1>4 DEF Moved, SameCourse
<1>6. PlacesHold'
  BY <1>0, <1>2, <1>3, CallersFinite DEF PlacesHold, SameCourse
<1>7. StopsKept'
  BY <1>0, <1>3 DEF StopsKept
<1> QED  BY <1>2, <1>3, <1>5, <1>6, <1>7

LEMMA TurnHalts ==
  ASSUME LiveInv, run.pc = "turn", NEW halt \in Stops, NEW last \in Outcomes \cup {"none"},
         Halts(halt, last), UNCHANGED history, ledger'.exceeded => ledger.exceeded
  PROVE  /\ Moved({Turn}) /\ PlacesHold' /\ StopsKept' /\ run'.dispatched = run.dispatched
         /\ run'.at[Turn] # "sent"
<1>1. \A b \in Callers \ {Turn} : run.at[b] # "sent"
  BY LiveAssumption DEF LiveInv, PlacesHold
<1>2. ledger'.exceeded => halt # "none"
  BY DEF LiveInv, StopsKept
<1>3. /\ Moved({Turn}) /\ PlacesHold' /\ StopsKept' /\ run'.dispatched = run.dispatched
      /\ \A b \in Callers : run'.at[b] = "idle"
  BY <1>1, <1>2, HaltKeeps
<1> QED  BY <1>3, CallersFinite

LEMMA TurnSent ==
  ASSUME LiveInv, run.pc = "turn"
  PROVE  /\ BooksHold /\ run.at[Turn] = "sent" /\ run.kind[Turn] = "chat" /\ Turn \in Callers
         /\ ledger \in Ledgers /\ run \in Runs
BY CallersFinite, LiveTyped DEF LiveInv, BooksHold, PlacesHold

LEMMA TurnReturnsKeeps == ASSUME LiveInv, NEW u \in Charges(Turn), TurnReturns(u) PROVE LiveInv'
<1>0. /\ run.pc = "turn" /\ UNCHANGED history
      /\ ledger' = Reconciled(ledger, Turn, "chat", u) /\ paid' = Charged(paid, Turn, u)
  BY DEF TurnReturns, At
<1>1. /\ BooksHold /\ run.at[Turn] = "sent" /\ run.kind[Turn] = "chat" /\ Turn \in Callers
      /\ ledger \in Ledgers /\ run \in Runs
  BY <1>0, TurnSent
<1>2. u \in Nat /\ ledger.open[Turn] \in Nat
  BY <1>1, ChargesTyped
<1> DEFINE back == ledger.open[Turn] - u
<1>3. /\ ledger' \in Ledgers /\ Settles(ledger, ledger', Turn, "chat", u, back)
      /\ ledger'.exceeded = (ledger.exceeded \/ ("chat" = "search" /\ u > ledger.open[Turn]))
  BY <1>0, <1>1, <1>2, ReconciledMoves
<1>4. back \in Int /\ u + back = ledger.open[Turn] /\ (ledger'.exceeded => ledger.exceeded)
  <2>1. ledger'.exceeded => ledger.exceeded
    BY <1>3
  <2>2. back \in Int /\ u + back = ledger.open[Turn]
    BY <1>2
  <2> QED  BY <2>1, <2>2
<1>5. /\ Moved({Turn}) /\ PlacesHold' /\ StopsKept' /\ run'.dispatched = run.dispatched
      /\ run'.at[Turn] # "sent"
  <2>1. CASE u > ledger.open[Turn]
    <3>1. Halts("contact-operator", "none")
      BY <2>1 DEF TurnReturns, Fails, Halts
    <3>2. "contact-operator" \in Stops
      BY StopNames
    <3> QED  BY <1>0, <1>4, <3>1, <3>2, TurnHalts
  <2>2. CASE ~(u > ledger.open[Turn])
    <3>1. run' = [run EXCEPT !.pc = "decide", !.at[Turn] = "idle", !.kind[Turn] = "none"]
      BY <2>2 DEF TurnReturns
    <3> QED  BY <1>0, <1>4, <3>1, TurnLeaves
  <2> QED  BY <2>1, <2>2
<1> HIDE DEF back
<1>6. u <= u /\ (back >= 0 \/ u = u) /\ run.kind[Turn] # "search"
  BY <1>1, <1>2
<1>7. BooksHold'
  BY <1>0, <1>1, <1>2, <1>3, <1>4, <1>5, <1>6, BooksSettle
<1> QED  BY <1>5, <1>7, LiveParts DEF LiveInv, BooksHold

LEMMA TurnLostKeeps == ASSUME LiveInv, NEW u \in Lost(Turn), TurnLost(u) PROVE LiveInv'
<1>0. /\ run.pc = "turn" /\ UNCHANGED history
      /\ ledger' = Kept(ledger, Turn, "chat") /\ paid' = Charged(paid, Turn, u)
  BY DEF TurnLost, At
<1>1. /\ BooksHold /\ run.at[Turn] = "sent" /\ run.kind[Turn] = "chat" /\ Turn \in Callers
      /\ ledger \in Ledgers /\ run \in Runs
  BY <1>0, TurnSent
<1> DEFINE open == ledger.open[Turn]
<1>2. u \in Nat /\ open \in Nat /\ u <= open
  BY <1>1, ChargesTyped
<1>3. /\ ledger' \in Ledgers /\ Settles(ledger, ledger', Turn, "chat", open, 0)
      /\ ledger'.exceeded = ledger.exceeded
  BY <1>0, <1>1, KeptMoves
<1>5. /\ Moved({Turn}) /\ PlacesHold' /\ StopsKept' /\ run'.dispatched = run.dispatched
      /\ run'.at[Turn] # "sent"
  <2>1. CASE \E place \in {"agent", "decide"} :
               run' = [run EXCEPT !.pc = place, !.at[Turn] = "idle", !.kind[Turn] = "none"]
    BY <1>0, <1>3, <2>1, TurnLeaves
  <2>2. CASE \E halt \in {"none", "provider-auth"} : Fails(halt)
    <3>1. PICK halt \in {"none", "provider-auth"} : Fails(halt)
      BY <2>2
    <3>2. Halts(halt, "none") /\ halt \in Stops
      BY <3>1, StopNames DEF Fails, Halts
    <3> QED  BY <1>0, <1>3, <3>2, TurnHalts
  <2>3. CASE run' = [Over(run, "none") EXCEPT !.last = "wall_clock"]
    <3>1. Halts("none", "wall_clock") /\ "none" \in Stops /\ "wall_clock" \in Outcomes
      BY <2>3, StopNames DEF Halts
    <3> QED  BY <1>0, <1>3, <3>1, TurnHalts
  <2> QED  BY <2>1, <2>2, <2>3 DEF TurnLost
<1> HIDE DEF open
<1>6. 0 \in Int /\ open + 0 = open /\ 0 >= 0 /\ run.kind[Turn] # "search"
  BY <1>1, <1>2
<1>7. BooksHold'
  BY <1>0, <1>1, <1>2, <1>3, <1>5, <1>6, BooksSettle DEF open
<1> QED  BY <1>5, <1>7, LiveParts DEF LiveInv, BooksHold

LEMMA TurnUnsentKeeps == ASSUME LiveInv, TurnUnsent PROVE LiveInv'
<1>0. run.pc = "turn" /\ UNCHANGED <<history, paid>> /\ ledger' = Released(ledger, Turn)
  BY DEF TurnUnsent, At
<1>1. /\ BooksHold /\ run.at[Turn] = "sent" /\ run.kind[Turn] = "chat" /\ Turn \in Callers
      /\ ledger \in Ledgers /\ run \in Runs
  BY <1>0, TurnSent
<1>2. ledger'.exceeded = ledger.exceeded
  BY <1>0, <1>1, ReleasedMoves
<1>3. /\ Moved({Turn}) /\ PlacesHold' /\ StopsKept' /\ run'.dispatched = run.dispatched
      /\ run'.at[Turn] # "sent"
  <2>1. CASE run' = [run EXCEPT !.pc = "agent", !.at[Turn] = "idle", !.kind[Turn] = "none"]
    BY <1>0, <1>2, <2>1, TurnLeaves
  <2>2. CASE Fails("none")
    <3>1. Halts("none", "none") /\ "none" \in Stops
      BY <2>2, StopNames DEF Fails, Halts
    <3> QED  BY <1>0, <1>2, <3>1, TurnHalts
  <2> QED  BY <2>1, <2>2 DEF TurnUnsent
<1>4. BooksHold'
  BY <1>0, <1>1, <1>3, BooksRelease
<1> QED  BY <1>3, <1>4, LiveParts DEF LiveInv, BooksHold

-----------------------------------------------------------------------------
(* The tools of a batch.                                                   *)

LEMMA ToolLeaves ==
  ASSUME run \in Runs, NEW t \in Tools, NEW place \in {"batch", "unwind"}, NEW halt \in Stops, NEW n \in Nat,
         run' = [run EXCEPT !.at[t] = "idle", !.kind[t] = "none", !.pc = place, !.stop = halt,
                            !.dispatched = n],
         \/ place = run.pc /\ halt = run.stop
         \/ place = "unwind" /\ halt # "none"
  PROVE  Leaves(t) /\ run'.dispatched = n /\ run'.stop = halt
<1> DEFINE where == [run.at EXCEPT ![t] = "idle"]
           kind == [run.kind EXCEPT ![t] = "none"]
<1>1. run' = [run EXCEPT !.at = where, !.kind = kind, !.pc = place, !.stop = halt, !.dispatched = n]
  OBVIOUS
<1>2. /\ run \in Runs /\ place \in {"batch", "unwind"} /\ halt \in Stops /\ n \in Nat
      /\ where \in [Callers -> {"idle", "begun", "claimed", "sent"}]
      /\ kind \in [Callers -> CallKinds \cup {"none"}]
  BY RunTyped
<1>3. /\ run' \in Runs /\ run'.pc = place /\ run'.at = where /\ run'.kind = kind
      /\ run'.plan = run.plan /\ run'.attempt = run.attempt /\ run'.streak = run.streak
      /\ run'.prior = run.prior /\ run'.limit = run.limit
      /\ run'.claimed = run.claimed /\ run'.dispatched = n /\ run'.stop = halt
  <2> HIDE DEF where, kind
  <2> QED  BY ONLY <1>1, <1>2 DEF Runs
<1> QED  BY <1>3 DEF Leaves, SameCourse

LEMMA ToolDoneLeaves ==
  ASSUME LiveInv, NEW t \in Tools, run.pc \in {"batch", "unwind"}, ToolDone(t)
  PROVE  Leaves(t) /\ run'.dispatched = run.dispatched /\ run'.stop = run.stop
<1>1. run \in Runs
  BY LiveTyped DEF LiveInv
<1> DEFINE where == [run.at EXCEPT ![t] = "idle"]
           kind == [run.kind EXCEPT ![t] = "none"]
<1>2. run' = [run EXCEPT !.at = where, !.kind = kind]
  BY DEF ToolDone
<1>3. /\ where \in [Callers -> {"idle", "begun", "claimed", "sent"}]
      /\ kind \in [Callers -> CallKinds \cup {"none"}]
  BY <1>1, RunTyped
<1>4. /\ run' \in Runs /\ run'.pc = run.pc /\ run'.at = where /\ run'.kind = kind
      /\ run'.plan = run.plan /\ run'.attempt = run.attempt /\ run'.streak = run.streak
      /\ run'.prior = run.prior /\ run'.limit = run.limit
      /\ run'.claimed = run.claimed /\ run'.dispatched = run.dispatched /\ run'.stop = run.stop
  <2> HIDE DEF where, kind
  <2> QED  BY ONLY <1>1, <1>2, <1>3 DEF Runs
<1> QED  BY <1>4 DEF Leaves, SameCourse

LEMMA RaisesLeaves ==
  ASSUME LiveInv, NEW t \in Tools, run.pc \in {"batch", "unwind"}, NEW halt \in Stops \ {"none"},
         Raises(t, halt)
  PROVE  Leaves(t) /\ run'.dispatched = run.dispatched /\ run'.stop # "none"
<1>1. run \in Runs
  BY LiveTyped DEF LiveInv
<1> DEFINE where == [run.at EXCEPT ![t] = "idle"]
           kind == [run.kind EXCEPT ![t] = "none"]
           why == IF run.pc = "batch" THEN halt ELSE run.stop
<1>2. run' = [run EXCEPT !.at = where, !.kind = kind, !.pc = "unwind", !.stop = why]
  BY DEF Raises
<1>3. /\ where \in [Callers -> {"idle", "begun", "claimed", "sent"}]
      /\ kind \in [Callers -> CallKinds \cup {"none"}]
  BY <1>1, RunTyped
<1>4. why \in Stops /\ why # "none"
  BY <1>1, RunTyped DEF LiveInv, StopsKept
<1>5. /\ run' \in Runs /\ run'.pc = "unwind" /\ run'.at = where /\ run'.kind = kind
      /\ run'.plan = run.plan /\ run'.attempt = run.attempt /\ run'.streak = run.streak
      /\ run'.prior = run.prior /\ run'.limit = run.limit
      /\ run'.claimed = run.claimed /\ run'.dispatched = run.dispatched /\ run'.stop = why
  <2> HIDE DEF where, kind, why
  <2> QED  BY ONLY <1>1, <1>2, <1>3, <1>4 DEF Runs
<1> HIDE DEF why
<1> QED  BY <1>4, <1>5 DEF Leaves, SameCourse

LEMMA ToolSends ==
  ASSUME LiveInv, NEW t \in Tools, run.pc \in {"batch", "unwind"}, UNCHANGED history, NEW n \in Nat,
         run' = [run EXCEPT !.at[t] = "sent", !.dispatched = n],
         run.at[t] = "claimed" \/ run.kind[t] # "search",
         ledger'.exceeded = ledger.exceeded
  PROVE  /\ Moved({t}) /\ PlacesHold' /\ StopsKept' /\ run'.dispatched = n
         /\ run'.at[t] = "sent" /\ run'.kind[t] = run.kind[t]
<1>0. TypeOK /\ CallsHold /\ PlacesHold /\ StopsKept /\ SearchesHold /\ run \in Runs /\ n \in Nat
  BY LiveTyped DEF LiveInv
<1> DEFINE where == [run.at EXCEPT ![t] = "sent"]
<1>1. run' = [run EXCEPT !.at = where, !.dispatched = n]
  OBVIOUS
<1>2. where \in [Callers -> {"idle", "begun", "claimed", "sent"}] /\ t \in Callers
      /\ where[t] = "sent" /\ \A b \in Callers \ {t} : where[b] = run.at[b]
  <2>1. run.at \in [Callers -> {"idle", "begun", "claimed", "sent"}] /\ t \in Callers
    BY <1>0, RunTyped, CallersFinite
  <2> QED  BY <2>1
<1> HIDE DEF where
<1>3. /\ run' \in Runs /\ run'.pc = run.pc /\ run'.at = where /\ run'.kind = run.kind
      /\ run'.plan = run.plan /\ run'.attempt = run.attempt /\ run'.streak = run.streak
      /\ run'.prior = run.prior /\ run'.limit = run.limit
      /\ run'.claimed = run.claimed /\ run'.dispatched = n /\ run'.stop = run.stop
  BY ONLY <1>0, <1>1, <1>2 DEF Runs
<1>4. Slots'
  <2>1. SearchesAt({"claimed", "sent"})' \subseteq SearchesAt({"claimed", "sent"})
    BY <1>2, <1>3, CallersFinite DEF SearchesAt
  <2> QED  BY <1>0, <1>3, <2>1, SlotsStay
<1>5. Moved({t})
  <2>1. \A b \in Callers : run'.at[b] = "claimed" => run'.kind[b] = "search"
    BY <1>0, <1>2, <1>3 DEF CallsHold
  <2> QED  BY <1>0, <1>2, <1>3, <1>4, <2>1 DEF Moved
<1>6. PlacesHold'
  <2>1. run'.at[Turn] = "idle"
    BY <1>0, <1>2, <1>3, LiveAssumption, CallersFinite DEF PlacesHold
  <2> QED  BY <1>0, <1>3, <2>1 DEF PlacesHold
<1>7. StopsKept'
  BY <1>0, <1>3 DEF StopsKept
<1> QED  BY <1>2, <1>3, <1>5, <1>6, <1>7

\* A tool settles what it has sent.
LEMMA ToolSettles ==
  ASSUME LiveInv, NEW t \in Tools, run.pc \in {"batch", "unwind"}, run.at[t] = "sent",
         UNCHANGED history, Leaves(t), run'.dispatched = run.dispatched,
         ledger'.exceeded => run'.stop # "none",
         NEW used \in Nat, NEW back \in Int, NEW u \in Nat,
         ledger' \in Ledgers, Settles(ledger, ledger', t, run.kind[t], used, back),
         paid' = Charged(paid, t, u), u <= used, used + back = ledger.open[t],
         back >= 0 \/ u = used
  PROVE  LiveInv'
<1>1. BooksHold /\ t \in Callers
  BY LiveParts, CallersFinite
<1>2. Moved({t}) /\ PlacesHold' /\ StopsKept' /\ run'.at[t] = "idle"
  BY LeaveKeeps
<1>3. run'.at[t] # "sent"
  BY <1>2
<1>4. BooksHold'
  BY <1>1, <1>2, <1>3, BooksSettle
<1> QED  BY <1>2, <1>4, LiveParts DEF LiveInv, BooksHold

\* A tool at work in its batch.
LEMMA BusyHolds ==
  ASSUME LiveInv, NEW t \in Tools, NEW where, NEW kind, Busy(t, where, kind)
  PROVE  /\ run.pc \in {"batch", "unwind"} /\ run.at[t] = where /\ run.kind[t] = kind
         /\ t \in Callers /\ BooksHold /\ ledger \in Ledgers /\ run \in Runs /\ run.dispatched \in Nat
         /\ t # Turn /\ (ledger.exceeded => run.stop # "none")
<1>1. run \in Runs /\ ledger \in Ledgers
  BY LiveTyped DEF LiveInv
<1> QED  BY <1>1, RunTyped, CallersFinite, LiveAssumption, LiveParts DEF Busy, LiveInv, StopsKept

\* A tool leaves the batch with nothing sent.
LEMMA ToolRests ==
  ASSUME LiveInv, NEW t \in Tools, run.pc \in {"batch", "unwind"}, Leaves(t), run.at[t] # "sent",
         run'.dispatched \in {run.dispatched, run.dispatched + 1},
         UNCHANGED <<history, ledger, paid>>
  PROVE  LiveInv'
<1>1. BooksHold /\ UNCHANGED <<ledger, paid>> /\ (ledger'.exceeded => run.stop # "none")
  BY LiveParts DEF StopsKept
<1>2. ledger'.exceeded => run'.stop # "none"
  BY <1>1 DEF Leaves
<1>3. Moved({t}) /\ PlacesHold' /\ StopsKept' /\ run'.at[t] = "idle"
  BY <1>2, LeaveKeeps
<1>4. Moved({})
  BY <1>3, CallersFinite DEF Moved
<1>5. BooksHold'
  BY <1>1, <1>4, BooksStay
<1> QED  BY <1>3, <1>5, LiveParts DEF LiveInv, BooksHold

LEMMA SendEmbedKeeps == ASSUME LiveInv, NEW t \in Tools, SendEmbed(t) PROVE LiveInv'
<1>1. /\ run.pc \in {"batch", "unwind"} /\ run.at[t] = "begun" /\ run.kind[t] = "embedding"
      /\ t \in Callers /\ BooksHold /\ ledger \in Ledgers /\ run \in Runs /\ run.dispatched \in Nat
      /\ UNCHANGED <<history, paid>>
  BY BusyHolds DEF SendEmbed
<1>2. CASE Affordable(ledger, Cost["embedding"])
  <2>1. /\ ledger' = Reserved(ledger, t, Cost["embedding"])
        /\ run' = [run EXCEPT !.at[t] = "sent"]
    BY <1>2 DEF SendEmbed
  <2>2. run' = [run EXCEPT !.at[t] = "sent", !.dispatched = run.dispatched]
    BY <1>1, <2>1 DEF Runs
  <2>3. "embedding" \in CallKinds /\ Cost["embedding"] \in Nat
    BY LiveNumbers DEF CallKinds
  <2>4. ledger'.exceeded = ledger.exceeded
    BY <1>1, <2>1, <2>3, ReservedMoves
  <2>5. /\ Moved({t}) /\ PlacesHold' /\ StopsKept' /\ run'.dispatched = run.dispatched
        /\ run'.at[t] = "sent" /\ run'.kind[t] = "embedding"
    BY <1>1, <2>2, <2>4, ToolSends
  <2>6. BooksHold'
    BY <1>1, <1>2, <2>1, <2>3, <2>5, BooksReserve
  <2> QED  BY <2>5, <2>6, LiveParts DEF LiveInv, BooksHold
<1>3. CASE ~Affordable(ledger, Cost["embedding"])
  <2>1. ToolDone(t) /\ UNCHANGED ledger
    BY <1>3 DEF SendEmbed
  <2>2. Leaves(t) /\ run'.dispatched = run.dispatched
    BY <1>1, <2>1, ToolDoneLeaves
  <2> QED  BY <1>1, <2>1, <2>2, ToolRests
<1> QED  BY <1>2, <1>3

LEMMA EmbedReturnsKeeps ==
  ASSUME LiveInv, NEW t \in Tools, NEW u \in Charges(t), EmbedReturns(t, u) PROVE LiveInv'
<1>1. /\ run.pc \in {"batch", "unwind"} /\ run.at[t] = "sent" /\ run.kind[t] = "embedding"
      /\ t \in Callers /\ ledger \in Ledgers /\ (ledger.exceeded => run.stop # "none")
      /\ UNCHANGED history /\ ledger' = Reconciled(ledger, t, "embedding", u)
      /\ paid' = Charged(paid, t, u) /\ ToolDone(t)
  BY BusyHolds DEF EmbedReturns
<1>2. u \in Nat /\ ledger.open[t] \in Nat
  BY <1>1, ChargesTyped
<1> DEFINE back == ledger.open[t] - u
<1>3. back \in Int /\ u + back = ledger.open[t] /\ u <= u
  BY <1>2
<1>4. /\ ledger' \in Ledgers /\ Settles(ledger, ledger', t, "embedding", u, back)
      /\ ledger'.exceeded = (ledger.exceeded \/ ("embedding" = "search" /\ u > ledger.open[t]))
  BY <1>1, <1>2, ReconciledMoves
<1>5. Leaves(t) /\ run'.dispatched = run.dispatched /\ run'.stop = run.stop
  BY <1>1, ToolDoneLeaves
<1>6. ledger'.exceeded => run'.stop # "none"
  BY <1>1, <1>4, <1>5
<1> HIDE DEF back
<1> QED  BY <1>1, <1>2, <1>3, <1>4, <1>5, <1>6, ToolSettles

LEMMA SearchReturnsKeeps ==
  ASSUME LiveInv, NEW t \in Tools, NEW u \in Charges(t), SearchReturns(t, u) PROVE LiveInv'
<1>1. /\ run.pc \in {"batch", "unwind"} /\ run.at[t] = "sent" /\ run.kind[t] = "search"
      /\ t \in Callers /\ ledger \in Ledgers /\ (ledger.exceeded => run.stop # "none")
      /\ UNCHANGED history /\ ledger' = Reconciled(ledger, t, "search", u)
      /\ paid' = Charged(paid, t, u)
  BY BusyHolds DEF SearchReturns
<1>2. u \in Nat /\ ledger.open[t] \in Nat
  BY <1>1, ChargesTyped
<1> DEFINE back == ledger.open[t] - u
<1>3. back \in Int /\ u + back = ledger.open[t] /\ u <= u
  BY <1>2
<1>4. /\ ledger' \in Ledgers /\ Settles(ledger, ledger', t, "search", u, back)
      /\ ledger'.exceeded = (ledger.exceeded \/ ("search" = "search" /\ u > ledger.open[t]))
  BY <1>1, <1>2, ReconciledMoves
<1>5. /\ Leaves(t) /\ run'.dispatched = run.dispatched
      /\ ledger'.exceeded => run'.stop # "none"
  <2>1. CASE u > ledger.open[t]
    <3>1. Raises(t, "search-estimate-exceeded")
      BY <2>1 DEF SearchReturns
    <3>2. "search-estimate-exceeded" \in Stops \ {"none"}
      BY StopNames
    <3>3. Leaves(t) /\ run'.dispatched = run.dispatched /\ run'.stop # "none"
      BY <1>1, <3>1, <3>2, RaisesLeaves
    <3> QED  BY <3>3
  <2>2. CASE ~(u > ledger.open[t])
    <3>1. ToolDone(t)
      BY <2>2 DEF SearchReturns
    <3>2. Leaves(t) /\ run'.dispatched = run.dispatched /\ run'.stop = run.stop
      BY <1>1, <3>1, ToolDoneLeaves
    <3> QED  BY <1>1, <1>4, <2>2, <3>2
  <2> QED  BY <2>1, <2>2
<1> HIDE DEF back
<1> QED  BY <1>1, <1>2, <1>3, <1>4, <1>5, ToolSettles

LEMMA CallLostKeeps ==
  ASSUME LiveInv, NEW t \in Tools, NEW u \in Lost(t), CallLost(t, u) PROVE LiveInv'
<1>0. PICK kind \in {"embedding", "search"} : Busy(t, "sent", kind)
  BY DEF CallLost
<1>1. /\ run.pc \in {"batch", "unwind"} /\ run.at[t] = "sent" /\ run.kind[t] = kind
      /\ t \in Callers /\ ledger \in Ledgers /\ (ledger.exceeded => run.stop # "none")
  BY <1>0, BusyHolds
<1>2. /\ UNCHANGED history /\ ledger' = Kept(ledger, t, run.kind[t])
      /\ paid' = Charged(paid, t, u) /\ ToolDone(t)
  BY DEF CallLost
<1> DEFINE open == ledger.open[t]
<1>3. u \in Nat /\ open \in Nat /\ u <= open
  BY <1>1, ChargesTyped
<1>4. /\ ledger' \in Ledgers /\ Settles(ledger, ledger', t, run.kind[t], open, 0)
      /\ ledger'.exceeded = ledger.exceeded
  BY <1>1, <1>2, KeptMoves
<1>5. Leaves(t) /\ run'.dispatched = run.dispatched /\ run'.stop = run.stop
  BY <1>1, <1>2, ToolDoneLeaves
<1>6. ledger'.exceeded => run'.stop # "none"
  BY <1>1, <1>4, <1>5
<1>7. 0 \in Int /\ open + 0 = open /\ 0 >= 0 /\ open = ledger.open[t]
  BY <1>3
<1> HIDE DEF open
<1> QED  BY <1>1, <1>2, <1>3, <1>4, <1>5, <1>6, <1>7, ToolSettles

LEMMA SendSearchKeeps == ASSUME LiveInv, NEW t \in Tools, SendSearch(t) PROVE LiveInv'
<1>1. /\ run.pc \in {"batch", "unwind"} /\ run.at[t] = "claimed" /\ run.kind[t] = "search"
      /\ t \in Callers /\ BooksHold /\ ledger \in Ledgers /\ run \in Runs /\ run.dispatched \in Nat
      /\ run.at[t] # "sent" /\ UNCHANGED history
  BY BusyHolds DEF SendSearch
<1>2. CASE ~MayDispatch /\ ToolDone(t) /\ UNCHANGED <<ledger, paid>>
  <2>1. Leaves(t) /\ run'.dispatched = run.dispatched
    BY <1>1, <1>2, ToolDoneLeaves
  <2> QED  BY <1>1, <1>2, <2>1, ToolRests
<1>3. CASE MayDispatch /\ Affordable(ledger, Cost["search"])
  <2> DEFINE n == run.dispatched + 1
  <2>1. /\ ledger' = Reserved(ledger, t, Cost["search"])
        /\ paid' = [paid EXCEPT !.searches = @ + 1]
        /\ run' = [run EXCEPT !.at[t] = "sent", !.dispatched = n]
    BY <1>3 DEF SendSearch
  <2>2. "search" \in CallKinds /\ Cost["search"] \in Nat /\ n \in Nat
    BY <1>1, LiveNumbers DEF CallKinds
  <2>3. ledger'.exceeded = ledger.exceeded
    BY <1>1, <2>1, <2>2, ReservedMoves
  <2>4. /\ Moved({t}) /\ PlacesHold' /\ StopsKept' /\ run'.dispatched = n
        /\ run'.at[t] = "sent" /\ run'.kind[t] = "search"
    <3> HIDE DEF n
    <3> QED  BY <1>1, <2>1, <2>2, <2>3, ToolSends
  <2>5. BooksHold'
    BY <1>1, <1>3, <2>1, <2>2, <2>4, BooksReserve
  <2> QED  BY <2>4, <2>5, LiveParts DEF LiveInv, BooksHold
<1>4. CASE MayDispatch /\ ~Affordable(ledger, Cost["search"])
  <2> DEFINE n == run.dispatched + 1
             halt == IF run.pc = "batch" THEN "runner-error" ELSE run.stop
  <2>1. /\ UNCHANGED <<ledger, paid>>
        /\ run' = [run EXCEPT !.at[t] = "idle", !.kind[t] = "none", !.pc = "unwind",
                              !.stop = halt, !.dispatched = n]
    BY <1>4 DEF SendSearch, Runs
  <2>2. halt \in Stops /\ halt # "none" /\ n \in Nat
    BY <1>1, RunTyped, StopNames DEF LiveInv, StopsKept
  <2>3. Leaves(t) /\ run'.dispatched = n
    <3> HIDE DEF n, halt
    <3> QED  BY <1>1, <2>1, <2>2, ToolLeaves
  <2> QED  BY <1>1, <2>1, <2>3, ToolRests
<1> QED  BY <1>2, <1>3, <1>4 DEF SendSearch

LEMMA ClaimSlotKeeps == ASSUME LiveInv, NEW t \in Tools, ClaimSlot(t) PROVE LiveInv'
<1>1. /\ run.pc \in {"batch", "unwind"} /\ run.at[t] = "begun" /\ run.kind[t] = "search"
      /\ t \in Callers /\ BooksHold /\ run \in Runs
      /\ UNCHANGED <<history, ledger, paid>>
  BY BusyHolds DEF ClaimSlot
<1>2. CASE run.claimed < MaxPerSession
  <2>0. TypeOK /\ CallsHold /\ PlacesHold /\ StopsKept /\ SearchesHold
    BY DEF LiveInv
  <2> DEFINE where == [run.at EXCEPT ![t] = "claimed"]
             claimed == run.claimed + 1
  <2>1. run' = [run EXCEPT !.at = where, !.claimed = claimed, !.searched = TRUE]
    BY <1>2 DEF ClaimSlot
  <2>2. /\ where \in [Callers -> {"idle", "begun", "claimed", "sent"}] /\ claimed \in Nat
        /\ where[t] = "claimed" /\ \A b \in Callers \ {t} : where[b] = run.at[b]
    BY <1>1, RunTyped
  <2>3. claimed = run.claimed + 1 /\ run.claimed \in Nat /\ MaxPerSession \in Nat
    BY <1>1, RunTyped, LiveNumbers
  <2> HIDE DEF where, claimed
  <2>4. /\ run' \in Runs /\ run'.pc = run.pc /\ run'.at = where /\ run'.kind = run.kind
        /\ run'.plan = run.plan /\ run'.attempt = run.attempt /\ run'.streak = run.streak
        /\ run'.prior = run.prior /\ run'.limit = run.limit
        /\ run'.claimed = claimed /\ run'.dispatched = run.dispatched /\ run'.stop = run.stop
    BY ONLY <1>1, <2>1, <2>2 DEF Runs
  <2>5. Slots'
    <3>1. /\ SearchesAt({"claimed", "sent"})' = SearchesAt({"claimed", "sent"}) \cup {t}
          /\ t \notin SearchesAt({"claimed", "sent"})
      BY <1>1, <2>2, <2>4, CallersFinite DEF SearchesAt
    <3>2. /\ Cardinality(SearchesAt({"claimed", "sent"})') = Cardinality(SearchesAt({"claimed", "sent"})) + 1
          /\ Cardinality(SearchesAt({"claimed", "sent"})) \in Nat
      BY <3>1, SearchesFinite, FS_AddElement
    <3>3. Cardinality(SearchesAt({"claimed", "sent"})) <= run.claimed
      BY <2>0 DEF SearchesHold
    <3>4. /\ Cardinality(SearchesAt({"claimed", "sent"})') <= claimed /\ claimed <= MaxPerSession
      BY <1>2, <2>3, <3>2, <3>3
    <3> QED  BY <2>4, <3>4 DEF Slots
  <2>6. Moved({})
    <3>1. \A b \in Callers : run'.at[b] = "claimed" => run'.kind[b] = "search"
      BY <1>1, <2>0, <2>2, <2>4 DEF CallsHold
    <3>2. \A b \in Callers : run'.at[b] = "sent" <=> run.at[b] = "sent"
      BY <1>1, <2>2, <2>4
    <3> QED  BY <1>1, <2>4, <2>5, <3>1, <3>2 DEF Moved
  <2>7. PlacesHold'
    <3>1. run'.at[Turn] = "idle"
      BY <1>1, <2>0, <2>2, <2>4, LiveAssumption, CallersFinite DEF PlacesHold
    <3> QED  BY <1>1, <2>0, <2>4, <3>1 DEF PlacesHold
  <2>8. StopsKept'
    BY <1>1, <2>0, <2>4 DEF StopsKept
  <2>9. BooksHold'
    BY <1>1, <2>4, <2>6, BooksStay
  <2> QED  BY <2>7, <2>8, <2>9, LiveParts DEF LiveInv, BooksHold
<1>3. CASE ~(run.claimed < MaxPerSession)
  <2>1. ToolDone(t)
    BY <1>3 DEF ClaimSlot
  <2>2. Leaves(t) /\ run'.dispatched = run.dispatched
    BY <1>1, <2>1, ToolDoneLeaves
  <2> QED  BY <1>1, <2>2, ToolRests
<1> QED  BY <1>2, <1>3

LEMMA BatchEndsKeeps == ASSUME LiveInv, BatchEnds PROVE LiveInv'
<1>1. /\ run.pc = "batch" /\ run.at = Quiet /\ run' = [run EXCEPT !.pc = "agent"]
      /\ UNCHANGED <<history, ledger, paid>>
  BY DEF BatchEnds, At
<1>2. /\ TypeOK /\ CallsHold /\ PlacesHold /\ StopsKept /\ SearchesHold /\ BooksHold /\ run \in Runs
  BY LiveTyped, LiveParts DEF LiveInv
<1>3. /\ run' \in Runs /\ run'.pc = "agent" /\ run'.at = run.at /\ run'.kind = run.kind
      /\ run'.plan = run.plan /\ run'.attempt = run.attempt /\ run'.streak = run.streak
      /\ run'.prior = run.prior /\ run'.limit = run.limit
      /\ run'.claimed = run.claimed /\ run'.dispatched = run.dispatched /\ run'.stop = run.stop
  BY <1>1, <1>2 DEF Runs
<1>4. \A b \in Callers : run.at[b] = "idle"
  BY <1>1 DEF Quiet
<1>5. Slots'
  <2>1. SearchesAt({"claimed", "sent"})' \subseteq SearchesAt({"claimed", "sent"})
    BY <1>3 DEF SearchesAt
  <2> QED  BY <1>2, <1>3, <2>1, SlotsStay
<1>6. Moved({})
  BY <1>1, <1>3, <1>4, <1>5 DEF Moved
<1>7. PlacesHold' /\ StopsKept'
  BY <1>1, <1>2, <1>3, <1>4, CallersFinite DEF PlacesHold, StopsKept
<1>8. BooksHold'
  BY <1>1, <1>2, <1>3, <1>6, BooksStay
<1> QED  BY <1>7, <1>8, LiveParts DEF LiveInv, BooksHold

\* The attempt ends with no call under way.
LEMMA RunHalts ==
  ASSUME LiveInv, NEW halt \in Stops, NEW last \in Outcomes \cup {"none"}, Halts(halt, last),
         run.pc \notin {"off", "finish", "turn"}, \A t \in Tools : run.at[t] # "sent",
         UNCHANGED <<history, ledger, paid>>, ledger.exceeded => halt # "none"
  PROVE  LiveInv'
<1>1. \A b \in Callers : run.at[b] # "sent"
  BY LiveAssumption DEF LiveInv, PlacesHold
<1>2. Moved({}) /\ PlacesHold' /\ StopsKept' /\ run'.dispatched = run.dispatched
  BY <1>1, HaltKeeps
<1>3. BooksHold /\ UNCHANGED <<ledger, paid>> /\ run'.dispatched \in {run.dispatched, run.dispatched + 1}
  BY <1>2, LiveParts
<1>4. BooksHold'
  BY <1>2, <1>3, BooksStay
<1> QED  BY <1>2, <1>4, LiveParts DEF LiveInv, BooksHold

LEMMA UnwoundKeeps == ASSUME LiveInv, Unwound PROVE LiveInv'
<1>1. run.stop \in Stops /\ (ledger.exceeded => run.stop # "none")
  <2>1. run \in Runs
    BY LiveTyped DEF LiveInv
  <2> QED  BY <2>1, RunTyped DEF LiveInv, StopsKept
<1>2. Halts(run.stop, "none")
  BY DEF Unwound, Fails, Halts
<1> QED  BY <1>1, <1>2, RunHalts DEF Unwound, At

\* The run goes on, in a step in which no call can be under way.
LEMMA GoesOn ==
  ASSUME LiveInv, run.pc \in {"agent", "decide"}, run' \in Runs,
         UNCHANGED <<history, ledger, paid>>,
         run'.pc \in {"agent", "batch"}, run'.stop = run.stop, run'.plan = run.plan,
         run'.streak = run.streak, run'.claimed = run.claimed, run'.dispatched = run.dispatched,
         run'.prior = run.prior, run'.limit = run.limit,
         \A b \in Callers : run'.at[b] \in {"idle", "begun"},
         run'.at[Turn] = "idle", run'.pc = "batch" \/ run'.at = run.at
  PROVE  LiveInv'
<1>1. PlacesHold /\ StopsKept /\ SearchesHold /\ CallsHold
  BY DEF LiveInv
<1>2. \A b \in Callers : run.at[b] = "idle"
  BY NobodySent
<1>3. PlacesHold' /\ StopsKept'
  BY <1>1, <1>2, CallersFinite DEF PlacesHold, StopsKept
<1>4. run'.claimed <= MaxPerSession
  BY <1>1 DEF SearchesHold
<1> QED  BY <1>3, <1>4, RestKeeps

LEMMA CallToolsKeeps ==
  ASSUME LiveInv, NEW kind \in [Tools -> {"none", "embedding", "search"}], CallTools(kind)
  PROVE  LiveInv'
<1> DEFINE kinds == [c \in Callers |-> IF c \in Tools THEN kind[c] ELSE "none"]
           where == [c \in Callers |-> IF c \in Tools /\ kind[c] # "none" THEN "begun" ELSE "idle"]
<1>1. run.pc = "decide" /\ UNCHANGED <<history, ledger, paid>> /\ run \in Runs
      /\ run' = [run EXCEPT !.pc = "batch", !.kind = kinds, !.at = where]
  BY LiveTyped DEF CallTools, At, LiveInv
<1>2. /\ where \in [Callers -> {"idle", "begun", "claimed", "sent"}]
      /\ kinds \in [Callers -> CallKinds \cup {"none"}]
      /\ \A b \in Callers : where[b] \in {"idle", "begun"}
      /\ where[Turn] = "idle"
  <2>1. /\ where \in [Callers -> {"idle", "begun", "claimed", "sent"}]
        /\ \A b \in Callers : where[b] \in {"idle", "begun"}
    OBVIOUS
  <2>2. kinds \in [Callers -> CallKinds \cup {"none"}]
    BY DEF CallKinds
  <2>3. where[Turn] = "idle"
    BY LiveAssumption, CallersFinite
  <2> QED  BY <2>1, <2>2, <2>3
<1> HIDE DEF where, kinds
<1>3. /\ run' \in Runs /\ run'.pc = "batch" /\ run'.at = where /\ run'.stop = run.stop
      /\ run'.plan = run.plan /\ run'.streak = run.streak
      /\ run'.prior = run.prior /\ run'.limit = run.limit
      /\ run'.claimed = run.claimed /\ run'.dispatched = run.dispatched
  BY ONLY <1>1, <1>2 DEF Runs
<1> QED  BY <1>1, <1>2, <1>3, GoesOn

LEMMA FeedbackKeeps == ASSUME LiveInv, Feedback PROVE LiveInv'
<1>1. run.pc = "decide" /\ UNCHANGED <<history, ledger, paid>> /\ run \in Runs
      /\ run' = [run EXCEPT !.pc = "agent"]
  BY LiveTyped DEF Feedback, At, Goes, LiveInv
<1>2. /\ run' \in Runs /\ run'.pc = "agent" /\ run'.at = run.at /\ run'.stop = run.stop
      /\ run'.plan = run.plan /\ run'.streak = run.streak
      /\ run'.prior = run.prior /\ run'.limit = run.limit
      /\ run'.claimed = run.claimed /\ run'.dispatched = run.dispatched
  BY ONLY <1>1 DEF Runs
<1>3. \A b \in Callers : run'.at[b] = "idle"
  BY <1>1, <1>2, NobodySent
<1> QED  BY <1>1, <1>2, <1>3, CallersFinite, GoesOn

LEMMA AgentEndsKeeps == ASSUME LiveInv, NEW outcome \in Outcomes, AgentEnds(outcome) PROVE LiveInv'
<1>1. /\ run.pc \in {"decide", "agent"} /\ UNCHANGED <<history, ledger, paid>>
      /\ run \in Runs /\ run.answers \in Nat /\ ~ledger.exceeded
  <2>1. run \in Runs
    BY LiveTyped DEF LiveInv
  <2> QED  BY <2>1, RunTyped DEF AgentEnds, At, LiveInv, StopsKept
<1>2. \/ \E stage \in {"recommend", "plan", "followup"}, answers \in Nat : Again(stage, answers)
      \/ Fails("runner-error")
      \/ Halts("none", outcome)
  <2>1. CASE run.stage = "recommend" /\ outcome = "question" /\ Flow("resume") /\ run.answers > 0
    <3>1. run.answers - 1 \in Nat
      BY <1>1, <2>1
    <3>2. Again("recommend", run.answers - 1) \/ Fails("runner-error")
      BY <2>1 DEF AgentEnds
    <3> QED  BY <3>1, <3>2
  <2>2. CASE run.stage = "recommend" /\ outcome = "options" /\ Flow("select")
    <3>1. \/ IF Flow("plan") THEN Again("plan", run.answers)
                             ELSE run' = [Over(run, "none") EXCEPT !.last = outcome]
          \/ Fails("runner-error")
      BY <2>2 DEF AgentEnds
    <3> QED  BY <1>1, <3>1 DEF Halts
  <2>3. CASE run.stage = "plan" /\ outcome = "plan" /\ Flow("followup")
    <3>1. Again("followup", run.answers) \/ Fails("runner-error")
      BY <2>3 DEF AgentEnds
    <3> QED  BY <1>1, <3>1
  <2>4. CASE /\ ~(run.stage = "recommend" /\ outcome = "question" /\ Flow("resume") /\ run.answers > 0)
             /\ ~(run.stage = "recommend" /\ outcome = "options" /\ Flow("select"))
             /\ ~(run.stage = "plan" /\ outcome = "plan" /\ Flow("followup"))
    BY <2>4 DEF AgentEnds, Halts
  <2> QED  BY <2>1, <2>2, <2>3, <2>4
<1>3. CASE \E stage \in {"recommend", "plan", "followup"}, answers \in Nat : Again(stage, answers)
  <2>1. PICK stage \in {"recommend", "plan", "followup"} : \E answers \in Nat : Again(stage, answers)
    BY <1>3
  <2>2. PICK answers \in Nat : Again(stage, answers)
    BY <2>1
  <2>3. 0 \in 0..MaxTurns
    BY LiveNumbers
  <2>4. run' = [run EXCEPT !.pc = "agent", !.stage = stage, !.answers = answers, !.turns = 0]
    BY <2>2 DEF Again
  <2>5. /\ run' \in Runs /\ run'.pc = "agent" /\ run'.at = run.at /\ run'.stop = run.stop
        /\ run'.plan = run.plan /\ run'.streak = run.streak
        /\ run'.prior = run.prior /\ run'.limit = run.limit
        /\ run'.claimed = run.claimed /\ run'.dispatched = run.dispatched
    BY <1>1, <2>3, <2>4 DEF Runs
  <2>6. \A b \in Callers : run'.at[b] = "idle"
    BY <1>1, <2>5, NobodySent
  <2> QED  BY <1>1, <2>5, <2>6, CallersFinite, GoesOn
<1>4. \A t \in Tools : run.at[t] # "sent"
  BY <1>1, NobodySent, CallersFinite
<1>5. CASE Fails("runner-error")
  <2>1. Halts("runner-error", "none")
    BY <1>5 DEF Fails, Halts
  <2> QED  BY <1>1, <1>4, <2>1, RunHalts, StopNames
<1>6. CASE Halts("none", outcome)
  BY <1>1, <1>4, <1>6, RunHalts, StopNames
<1> QED  BY <1>2, <1>3, <1>5, <1>6

LEMMA JudgeKeeps == ASSUME LiveInv, Judge PROVE LiveInv'
<1>0. TypeOK /\ PlacesHold /\ StopsKept /\ SearchesHold /\ run \in Runs
  BY LiveTyped DEF LiveInv
<1> DEFINE place == IF run.stop = "none" /\ run.last # Scenario.expects /\ run.attempt < MaxAttempts
                 THEN "attempt" ELSE "report"
<1>1. /\ run.pc = "judge" /\ run' = [run EXCEPT !.pc = place] /\ UNCHANGED <<history, ledger, paid>>
  BY DEF Judge, At, Goes
<1>2. place \in {"attempt", "report"} /\ (place = "attempt" => run.stop = "none" /\ run.attempt < MaxAttempts)
  OBVIOUS
<1> HIDE DEF place
<1>3. /\ run' \in Runs /\ run'.pc = place /\ run'.at = run.at /\ run'.stop = run.stop
      /\ run'.plan = run.plan /\ run'.streak = run.streak /\ run'.attempt = run.attempt
      /\ run'.prior = run.prior /\ run'.limit = run.limit
      /\ run'.claimed = run.claimed /\ run'.dispatched = run.dispatched
  BY <1>0, <1>1, <1>2 DEF Runs
<1>4. \A b \in Callers : run'.at[b] = "idle"
  BY <1>1, <1>3, NobodySent
<1>5. PlacesHold' /\ StopsKept'
  BY <1>0, <1>1, <1>2, <1>3, <1>4, CallersFinite DEF PlacesHold, StopsKept
<1>6. run'.claimed <= MaxPerSession
  BY <1>0, <1>3 DEF SearchesHold
<1> QED  BY <1>1, <1>2, <1>3, <1>4, <1>5, <1>6, RestKeeps

LEMMA ReportKeeps == ASSUME LiveInv, Report PROVE LiveInv'
<1>0. /\ TypeOK /\ PlacesHold /\ StopsKept /\ SearchesHold /\ run \in Runs /\ run.pc = "report"
      /\ UNCHANGED <<history, ledger, paid>>
  BY LiveTyped DEF LiveInv, Report, At
<1> DEFINE halt == CASE run.stop # "none" -> run.stop
                     [] run.stop = "none" /\ run.first /\ run.searched -> "first-search"
                     [] run.stop = "none" /\ ~(run.first /\ run.searched) /\ NextStreak = 2 ->
                          "consecutive-failures"
                     [] OTHER -> "none"
           rest == Tail(run.plan)
           streak == NextStreak
           place == IF halt # "none" \/ rest = <<>> THEN "finish" ELSE "attempt"
<1>1. run' = [run EXCEPT !.pc = place, !.plan = rest, !.stop = halt, !.streak = streak,
                         !.attempt = 0, !.last = "none", !.searched = FALSE]
  BY DEF Report
<1>2. streak \in 0..2
  <2>1. run.streak \in 0..2 /\ run.streak <= 1
    BY <1>0, RunTyped DEF PlacesHold
  <2> QED  BY <2>1 DEF NextStreak
<1>3. /\ halt \in Stops /\ (halt = "none" => run.stop = "none" /\ streak # 2)
  <2>1. run.stop \in Stops /\ {"none", "first-search", "consecutive-failures"} \subseteq Stops
    BY <1>0, RunTyped DEF Stops
  <2>2. CASE run.stop # "none"
    BY <2>1, <2>2
  <2>3. CASE run.stop = "none" /\ run.first /\ run.searched
    BY <2>1, <2>3
  <2>4. CASE run.stop = "none" /\ ~(run.first /\ run.searched) /\ NextStreak = 2
    BY <2>1, <2>4
  <2>5. CASE run.stop = "none" /\ ~(run.first /\ run.searched) /\ NextStreak # 2
    BY <2>1, <2>5
  <2> QED  BY <2>2, <2>3, <2>4, <2>5
<1>4. rest \in Seq(Selected)
  <2>1. run.plan \in Seq(Selected) /\ run.plan # <<>>
    BY <1>0, RunTyped DEF PlacesHold
  <2> QED  BY <2>1
<1>5. /\ place \in {"finish", "attempt"}
      /\ place = "attempt" => halt = "none" /\ rest # <<>> /\ streak <= 1
  <2> HIDE DEF halt, rest, streak
  <2> QED  BY <1>2, <1>3
<1>6. 0 \in 0..MaxAttempts /\ 0 < MaxAttempts
  BY LiveNumbers
<1> HIDE DEF halt, rest, streak, place
<1>7. /\ run' \in Runs /\ run'.pc = place /\ run'.at = run.at /\ run'.stop = halt
      /\ run'.plan = rest /\ run'.streak = streak /\ run'.attempt = 0
      /\ run'.prior = run.prior /\ run'.limit = run.limit
      /\ run'.claimed = run.claimed /\ run'.dispatched = run.dispatched
  BY ONLY <1>0, <1>1, <1>2, <1>3, <1>4, <1>5, <1>6 DEF Runs
<1>8. \A b \in Callers : run'.at[b] = "idle"
  BY <1>0, <1>7, NobodySent
<1>9. PlacesHold' /\ StopsKept'
  BY <1>0, <1>3, <1>5, <1>6, <1>7, <1>8, CallersFinite DEF PlacesHold, StopsKept
<1>10. run'.claimed <= MaxPerSession
  BY <1>0, <1>7 DEF SearchesHold
<1> QED  BY <1>0, <1>5, <1>7, <1>8, <1>9, <1>10, RestKeeps

-----------------------------------------------------------------------------
(* The invocation.                                                         *)

LEMMA OffTyped == Off \in Runs
<1>1. Quiet \in [Callers -> {"idle", "begun", "claimed", "sent"}]
      /\ NoKind \in [Callers -> CallKinds \cup {"none"}]
  BY DEF Quiet, NoKind
<1>2. /\ 0 \in 0..MaxAttempts /\ 0 \in 0..MaxTurns /\ NoLimit \in Limits
      /\ "none" \in Stops /\ <<>> \in Seq(Selected)
  BY LiveNumbers, LiveAssumption, StopNames
<1> QED  BY <1>1, <1>2 DEF Off, Runs

LEMMA NobodySearches ==
  ASSUME NEW r, r.at = Quiet, NEW places, "idle" \notin places
  PROVE  {t \in Tools : r.at[t] \in places /\ r.kind[t] = "search"} = {}
BY CallersFinite DEF Quiet

\* A ledger nothing has been booked in yet.
LEMMA BooksOpen ==
  ASSUME run' \in Runs, history' \in Histories, paid' \in Truth,
         run'.at = Quiet, run'.claimed = 0, run'.dispatched = 0,
         NEW n \in Nat, ledger' = NewLedger(n), paid'.now = 0, paid'.searches = 0,
         paid'.past <= history'.spent, paid'.past <= PoolCap + paid'.over,
         run'.pc # "off" => n + history'.spent <= PoolCap /\ run'.prior = history'.searches,
         paid'.searched <= history'.searches, paid'.searched <= CampaignCap
  PROVE  BooksHold' /\ ~ledger'.exceeded
<1>1. /\ ledger' \in Ledgers /\ ledger'.ceiling = n /\ ledger'.remaining = n /\ ledger'.spent = 0
      /\ ledger'.settled = 0 /\ ledger'.searches = 0 /\ ~ledger'.exceeded
      /\ OpenTotal(ledger') = 0 /\ \A c \in Callers : ledger'.open[c] = 0
  BY NewLedgerHolds
<1>2. TypeOK'
  BY <1>1 DEF TypeOK
<1>3. CallsHold'
  BY <1>1 DEF CallsHold, Quiet
<1>4. MoneyHolds'
  <2>1. paid'.past \in Nat /\ paid'.over \in Nat /\ PoolCap \in Nat
    BY LiveNumbers DEF Truth
  <2>2. n + 0 + 0 = n /\ 0 <= 0 /\ n + paid'.over >= 0 /\ paid'.past + 0 = paid'.past
    BY <2>1
  <2> QED  BY <1>1, <2>2 DEF MoneyHolds
<1>5. SearchesHold'
  <2>1. SearchesAt({"sent"})' = {} /\ SearchesAt({"claimed", "sent"})' = {}
    BY CallersFinite DEF SearchesAt, Quiet
  <2>2. Cardinality(SearchesAt({"sent"})') = 0 /\ Cardinality(SearchesAt({"claimed", "sent"})') = 0
    BY <2>1, FS_EmptySet
  <2>3. /\ LimitOr(run'.limit, CampaignCap) \in Nat /\ MaxPerSession \in Nat
        /\ paid'.searched \in Nat
    BY LiveNumbers, RunTyped DEF Truth
  <2>4. 0 <= 0 /\ 0 <= 0 + 0 /\ paid'.searched + 0 <= CampaignCap
        /\ 0 <= LimitOr(run'.limit, CampaignCap) /\ 0 <= MaxPerSession
    BY <2>3
  <2> QED  BY <1>1, <2>2, <2>4 DEF SearchesHold
<1> QED  BY <1>1, <1>2, <1>3, <1>4, <1>5 DEF BooksHold

\* The invocation is over, and the next one has not begun.
LEMMA OffKeeps ==
  ASSUME run' = Off, ledger' = NewLedger(0), paid' \in Truth, history' \in Histories,
         paid'.now = 0, paid'.searches = 0,
         paid'.past <= history'.spent, paid'.past <= PoolCap + paid'.over,
         paid'.searched <= history'.searches, paid'.searched <= CampaignCap
  PROVE  LiveInv'
<1>1. /\ run' \in Runs /\ run'.at = Quiet /\ run'.claimed = 0 /\ run'.dispatched = 0
      /\ run'.pc = "off" /\ run'.streak = 0 /\ 0 \in Nat
  BY OffTyped DEF Off
<1>2. BooksHold' /\ ~ledger'.exceeded
  BY <1>1, BooksOpen
<1>3. PlacesHold'
  BY <1>1, CallersFinite DEF PlacesHold, Quiet
<1>4. StopsKept'
  BY <1>1, <1>2 DEF StopsKept
<1> QED  BY <1>2, <1>3, <1>4 DEF LiveInv, BooksHold

LEMMA BeginKeeps ==
  ASSUME LiveInv, NEW ceiling \in Ceilings, NEW plan \in Scenarios, NEW limit \in Limits,
         NEW first \in BOOLEAN, Begin(ceiling, plan, limit, first)
  PROVE  LiveInv'
<1> DEFINE n == ceiling - history.spent
<1>0. /\ TypeOK /\ MoneyHolds /\ SearchesHold /\ PlacesHold /\ run.pc = "off"
      /\ paid.runs < MaxRuns /\ Preflight(ceiling, plan, limit)
      /\ ledger' = NewLedger(n) /\ UNCHANGED history
      /\ run' = [Off EXCEPT !.pc = "attempt", !.plan = plan, !.first = first,
                            !.prior = history.searches, !.limit = limit]
      /\ paid' = [paid EXCEPT !.runs = @ + 1]
  BY DEF LiveInv, Begin, At, RunCeiling
<1>1. /\ history \in Histories /\ history.spent \in Nat /\ history.searches \in Nat
      /\ paid \in Truth /\ paid.runs \in 0..MaxRuns /\ paid.past \in Nat /\ paid.over \in Nat
      /\ paid.searched \in Nat /\ ceiling \in Nat /\ FirstTurn \in Nat /\ PoolCap \in Nat
      /\ MaxRuns \in Nat
  BY <1>0, LiveTyped, LiveNumbers, LiveAssumption
<1>2. n \in Nat /\ n + history.spent <= PoolCap /\ ~history.breach
  BY <1>0, <1>1 DEF Preflight
<1>3. plan \in Seq(Selected) /\ plan # <<>>
  <2> DEFINE S == [search : BOOLEAN, answers : Nat, expects : Outcomes,
                   flow : SUBSET {"resume", "select", "plan", "followup"}]
  <2>1. plan \in Seq(S) /\ plan # <<>>
    BY LiveAssumption
  <2>2. \A i \in DOMAIN plan : plan[i] \in Selected
    BY DEF Selected
  <2>3. PICK k \in Nat : plan \in [1..k -> S]
    <3> HIDE DEF S
    <3> QED  BY <2>1
  <2>4. plan \in [1..k -> Selected]
    BY <2>2, <2>3
  <2>5. plan \in Seq(Selected)
    BY <2>4
  <2> QED  BY <2>1, <2>5
<1>4. /\ run' \in Runs /\ run'.pc = "attempt" /\ run'.plan = plan /\ run'.prior = history.searches
      /\ run'.limit = limit /\ run'.at = Quiet /\ run'.claimed = 0 /\ run'.dispatched = 0
      /\ run'.stop = "none" /\ run'.streak = 0 /\ run'.attempt = 0
  <2>1. Off \in Runs /\ history.searches \in Nat
    BY <1>1, OffTyped
  <2>2. run' \in Runs
    BY <1>0, <1>3, <2>1 DEF Runs
  <2> QED  BY <1>0, <2>2 DEF Off
<1>5. /\ paid' \in Truth /\ paid'.now = paid.now /\ paid'.past = paid.past /\ paid'.over = paid.over
      /\ paid'.searches = paid.searches /\ paid'.searched = paid.searched
  <2> DEFINE count == paid.runs + 1
  <2>1. count \in 0..MaxRuns
    BY <1>0, <1>1
  <2>2. paid' = [paid EXCEPT !.runs = count]
    BY <1>0
  <2> HIDE DEF count
  <2> QED  BY <1>1, <2>1, <2>2 DEF Truth
<1>6. paid.now = 0 /\ paid.searches = 0
  BY <1>0 DEF PlacesHold
<1>7. /\ paid.past <= history.spent /\ paid.past <= PoolCap + paid.over
      /\ paid.searched <= history.searches /\ paid.searched <= CampaignCap
  <2>1. paid.past <= history.spent /\ paid.past + 0 <= PoolCap + paid.over
        /\ paid.searched <= history.searches /\ paid.searched + 0 <= CampaignCap
    BY <1>0, <1>6 DEF MoneyHolds, SearchesHold
  <2> QED  BY <1>1, <2>1
<1> HIDE DEF n
<1>8. /\ history' \in Histories /\ paid'.now = 0 /\ paid'.searches = 0
      /\ paid'.past <= history'.spent /\ paid'.past <= PoolCap + paid'.over
      /\ n + history'.spent <= PoolCap /\ run'.prior = history'.searches
      /\ paid'.searched <= history'.searches /\ paid'.searched <= CampaignCap
  BY <1>0, <1>1, <1>2, <1>4, <1>5, <1>6, <1>7
<1>9. BooksHold' /\ ~ledger'.exceeded
  BY <1>0, <1>2, <1>4, <1>5, <1>8, BooksOpen
<1>10. PlacesHold'
  <2>1. 0 < MaxAttempts
    BY LiveNumbers
  <2> QED  BY <1>3, <1>4, <2>1, CallersFinite DEF PlacesHold, Quiet
<1>11. StopsKept'
  BY <1>0, <1>2, <1>4, <1>9 DEF StopsKept
<1> QED  BY <1>9, <1>10, <1>11 DEF LiveInv, BooksHold

LEMMA AcknowledgeKeeps == ASSUME LiveInv, Acknowledge PROVE LiveInv'
<1>0. /\ TypeOK /\ MoneyHolds /\ SearchesHold /\ PlacesHold /\ run.pc = "off"
      /\ run' = run /\ ledger' = ledger /\ paid' = paid
      /\ history' = [history EXCEPT !.breach = FALSE, !.exceeded = FALSE]
  BY DEF LiveInv, Acknowledge, At
<1>1. /\ history \in Histories /\ paid \in Truth /\ paid.past \in Nat /\ paid.over \in Nat
      /\ paid.searched \in Nat /\ PoolCap \in Nat
  BY <1>0, LiveTyped, LiveNumbers
<1>2. history' \in Histories /\ history'.spent = history.spent /\ history'.searches = history.searches
  BY <1>0, <1>1 DEF Histories
<1>3. run' = Off /\ ledger' = NewLedger(0) /\ paid'.now = 0 /\ paid'.searches = 0
  BY <1>0 DEF PlacesHold
<1>4. /\ paid.past <= history.spent /\ paid.past + 0 <= PoolCap + paid.over
      /\ paid.searched <= history.searches /\ paid.searched + 0 <= CampaignCap
  BY <1>0, <1>3 DEF MoneyHolds, SearchesHold
<1>5. /\ paid'.past <= history'.spent /\ paid'.past <= PoolCap + paid'.over
      /\ paid'.searched <= history'.searches /\ paid'.searched <= CampaignCap
  BY <1>0, <1>1, <1>2, <1>4
<1>6. paid' \in Truth
  BY <1>0, <1>1
<1> QED  BY <1>2, <1>3, <1>5, <1>6, OffKeeps

LEMMA FinishKeeps == ASSUME LiveInv, Finish PROVE LiveInv'
<1>0. /\ TypeOK /\ MoneyHolds /\ SearchesHold /\ PlacesHold /\ run.pc = "finish"
      /\ run' = Off /\ ledger' = NewLedger(0) /\ history' = Appended(history, ledger)
      /\ paid' = [paid EXCEPT !.past = @ + paid.now, !.now = 0,
                              !.searched = @ + paid.searches, !.searches = 0]
  BY DEF LiveInv, Finish, At
<1>1. /\ history \in Histories /\ history.spent \in Nat /\ history.searches \in Nat
      /\ history.breach \in BOOLEAN /\ history.exceeded \in BOOLEAN
      /\ paid \in Truth /\ paid.now \in Nat /\ paid.past \in Nat /\ paid.over \in Nat
      /\ paid.searches \in Nat /\ paid.searched \in Nat /\ ledger \in Ledgers
  BY <1>0, LiveTyped
<1>2. /\ ledger.settled \in Nat /\ ledger.searches \in Nat /\ ledger.spent \in Nat
      /\ ledger.breach \in BOOLEAN /\ ledger.exceeded \in BOOLEAN
  BY <1>1, LedgerFields
<1>3. /\ history' \in Histories /\ history'.spent = history.spent + ledger.settled
      /\ history'.searches = history.searches + ledger.searches
  BY <1>0, <1>1, <1>2 DEF Appended, Histories
<1> DEFINE past == paid.past + paid.now
           searched == paid.searched + paid.searches
<1>4. /\ paid' \in Truth /\ paid'.past = past /\ paid'.now = 0 /\ paid'.over = paid.over
      /\ paid'.searched = searched /\ paid'.searches = 0
  <2>1. past \in Nat /\ searched \in Nat
    BY <1>1
  <2>2. paid' = [paid EXCEPT !.past = past, !.now = 0, !.searched = searched, !.searches = 0]
    BY <1>0, <1>1 DEF Truth
  <2> HIDE DEF past, searched
  <2> QED  BY <1>1, <2>1, <2>2 DEF Truth
<1>5. Cardinality(SearchesAt({"sent"})) = 0
  <2>1. SearchesAt({"sent"}) = {}
    BY <1>0 DEF PlacesHold, SearchesAt
  <2> QED  BY <2>1, FS_EmptySet
<1>6. /\ past <= history.spent + ledger.settled /\ past <= PoolCap + paid.over
      /\ searched <= history.searches + ledger.searches /\ searched <= CampaignCap
  <2>1. /\ ledger.settled = ledger.spent /\ paid.now <= ledger.spent /\ paid.past <= history.spent
        /\ past <= PoolCap + paid.over
    BY <1>0 DEF MoneyHolds
  <2>2. /\ paid.searched <= history.searches /\ paid.searches <= ledger.searches + 0
        /\ searched <= CampaignCap
    BY <1>0, <1>5 DEF SearchesHold
  <2> QED  BY <1>1, <1>2, <2>1, <2>2
<1> HIDE DEF past, searched
<1> QED  BY <1>0, <1>3, <1>4, <1>6, OffKeeps

LEMMA CutKeeps == ASSUME LiveInv, Cut PROVE LiveInv'
<1>0. /\ TypeOK /\ MoneyHolds /\ SearchesHold /\ history' = history
      /\ run' = Off /\ ledger' = NewLedger(0)
      /\ paid' = [paid EXCEPT !.now = 0, !.searches = 0]
  BY DEF LiveInv, Cut
<1>1. /\ history \in Histories /\ paid \in Truth /\ paid.now \in Nat /\ paid.past \in Nat
      /\ paid.over \in Nat /\ paid.searches \in Nat /\ paid.searched \in Nat
      /\ PoolCap \in Nat /\ CampaignCap \in Nat
  BY <1>0, LiveTyped, LiveNumbers
<1>2. /\ paid' \in Truth /\ paid'.past = paid.past /\ paid'.now = 0 /\ paid'.over = paid.over
      /\ paid'.searched = paid.searched /\ paid'.searches = 0
  BY <1>0, <1>1 DEF Truth
<1>3. /\ paid.past <= history.spent /\ paid.past + paid.now <= PoolCap + paid.over
      /\ paid.searched <= history.searches /\ paid.searched + paid.searches <= CampaignCap
  BY <1>0 DEF MoneyHolds, SearchesHold
<1>4. paid.past <= PoolCap + paid.over /\ paid.searched <= CampaignCap
  BY <1>1, <1>3
<1> QED  BY <1>0, <1>1, <1>2, <1>3, <1>4, OffKeeps

LEMMA LiveInit == Init => LiveInv
<1> SUFFICES ASSUME Init PROVE LiveInv
  OBVIOUS
<1>1. /\ run = Off /\ run \in Runs /\ run.at = Quiet /\ run.claimed = 0 /\ run.dispatched = 0
      /\ run.pc = "off" /\ run.streak = 0
  BY OffTyped DEF Init, Off
<1>2. /\ ledger = NewLedger(0) /\ ledger \in Ledgers /\ ledger.ceiling = 0 /\ ledger.remaining = 0
      /\ ledger.spent = 0 /\ ledger.settled = 0 /\ ledger.searches = 0 /\ ~ledger.exceeded
      /\ OpenTotal(ledger) = 0 /\ \A c \in Callers : ledger.open[c] = 0
  <2>1. ledger = NewLedger(0) /\ 0 \in Nat
    BY DEF Init
  <2> QED  BY <2>1, NewLedgerHolds
<1>3. /\ paid \in Truth /\ paid.now = 0 /\ paid.past = 0 /\ paid.over = 0 /\ paid.searches = 0
      /\ paid.searched = 0
  <2>1. 0 \in 0..MaxRuns
    BY LiveNumbers
  <2> QED  BY <2>1 DEF Init, Truth
<1>4. history \in Histories /\ history.spent = 0 /\ history.searches = 0
  BY DEF Init, NoHistory, Histories
<1>5. TypeOK /\ CallsHold /\ PlacesHold /\ StopsKept
  BY <1>1, <1>2, <1>3, <1>4, CallersFinite DEF TypeOK, CallsHold, PlacesHold, StopsKept, Quiet
<1>6. MoneyHolds
  BY <1>1, <1>2, <1>3, <1>4, LiveNumbers DEF MoneyHolds
<1>7. SearchesHold
  <2>1. SearchesAt({"sent"}) = {} /\ SearchesAt({"claimed", "sent"}) = {}
    BY <1>1, CallersFinite DEF SearchesAt, Quiet
  <2>2. Cardinality(SearchesAt({"sent"})) = 0 /\ Cardinality(SearchesAt({"claimed", "sent"})) = 0
    BY <2>1, FS_EmptySet
  <2>3. LimitOr(run.limit, CampaignCap) \in Nat /\ CampaignCap \in Nat /\ MaxPerSession \in Nat
    BY <1>1, LiveNumbers, RunTyped
  <2> QED  BY <1>1, <1>2, <1>3, <1>4, <2>2, <2>3 DEF SearchesHold
<1> QED  BY <1>5, <1>6, <1>7 DEF LiveInv

LEMMA LiveNext == LiveInv /\ [Next]_vars => LiveInv'
<1> SUFFICES ASSUME LiveInv, [Next]_vars PROVE LiveInv'
  OBVIOUS
<1>1. CASE OwnerStep
  <2>1. CASE Acknowledge
    BY <2>1, AcknowledgeKeeps
  <2>2. CASE \E ceiling \in Ceilings, plan \in Scenarios, limit \in Limits, first \in BOOLEAN :
               Begin(ceiling, plan, limit, first)
    BY <2>2, BeginKeeps
  <2> QED  BY <1>1, <2>1, <2>2 DEF OwnerStep
<1>2. CASE RunnerStep
  BY <1>2, StartAttemptKeeps, JudgeKeeps, ReportKeeps, FinishKeeps DEF RunnerStep
<1>3. CASE AgentStep
  <2>1. CASE SendTurn \/ TurnUnsent \/ Feedback \/ BatchEnds \/ Unwound
    BY <2>1, SendTurnKeeps, TurnUnsentKeeps, FeedbackKeeps, BatchEndsKeeps, UnwoundKeeps
  <2>2. CASE \E u \in Charges(Turn) : TurnReturns(u)
    BY <2>2, TurnReturnsKeeps
  <2>3. CASE \E u \in Lost(Turn) : TurnLost(u)
    BY <2>3, TurnLostKeeps
  <2>4. CASE \E kind \in [Tools -> {"none", "embedding", "search"}] : CallTools(kind)
    BY <2>4, CallToolsKeeps
  <2>5. CASE \E outcome \in Outcomes : AgentEnds(outcome)
    BY <2>5, AgentEndsKeeps
  <2> QED  BY <1>3, <2>1, <2>2, <2>3, <2>4, <2>5 DEF AgentStep
<1>4. ASSUME NEW t \in Tools, ToolStep(t) PROVE LiveInv'
  <2>1. CASE SendEmbed(t) \/ ClaimSlot(t) \/ SendSearch(t)
    BY <2>1, SendEmbedKeeps, ClaimSlotKeeps, SendSearchKeeps
  <2>2. CASE \E u \in Charges(t) : EmbedReturns(t, u) \/ SearchReturns(t, u)
    BY <2>2, EmbedReturnsKeeps, SearchReturnsKeeps
  <2>3. CASE \E u \in Lost(t) : CallLost(t, u)
    BY <2>3, CallLostKeeps
  <2> QED  BY <1>4, <2>1, <2>2, <2>3 DEF ToolStep
<1>5. CASE Cut
  BY <1>5, CutKeeps
<1>6. CASE UNCHANGED vars
  BY <1>6 DEF vars, LiveInv, TypeOK, CallsHold, PlacesHold, StopsKept, MoneyHolds, SearchesHold,
              SearchesAt
<1> QED  BY <1>1, <1>2, <1>3, <1>4, <1>5, <1>6 DEF Next, Rest

LEMMA LiveInvariant == Spec => []LiveInv
BY LiveInit, LiveNext, PTL DEF Spec

\* The state of the runner is of its type: one model turn and one batch of
\* tools under way at most, two failures in a row, the attempts allowed
\* (live_run.py: _run_all, run_scenario_live, SpendLedger).
THEOREM LiveTypeCorrect == Spec => []TypeOK
<1>1. LiveInv => TypeOK
  BY DEF LiveInv
<1> QED  BY <1>1, LiveInvariant, PTL

\* Whichever way its calls end, what is left, spent and reserved of a run's
\* ceiling make up the ceiling, and nothing stays reserved when the agent of
\* an attempt is over (SpendLedger and its callers).
THEOREM LedgerAlwaysBalances == Spec => []LedgerBalances
<1>1. LiveInv => LedgerBalances
  <2> SUFFICES ASSUME LiveInv PROVE LedgerBalances
    OBVIOUS
  <2>1. run.pc \in {"judge", "report", "finish"} => OpenTotal(ledger) = 0
    <3> SUFFICES ASSUME run.pc \in {"judge", "report", "finish"} PROVE OpenTotal(ledger) = 0
      OBVIOUS
    <3>1. \A c \in Callers : ledger.open[c] = 0
      BY NobodySent DEF LiveInv, CallsHold
    <3> QED  BY <3>1, NothingOpen
  <2> QED  BY <2>1 DEF LiveInv, MoneyHolds, LedgerBalances
<1> QED  BY <1>1, LiveInvariant, PTL

\* The provider has charged no more than the ledger and the history say, all
\* recorded runs and this one stay under the cap of the pool but for what
\* calls cost beyond their reservations, and the searches that were sent
\* within the limits of the campaign, of the run and of the session, although
\* the tools of a batch run side by side (SpendLedger, SearchRunLimits,
\* append_spend_history).
THEOREM CapsHold == Spec => []WithinCaps
<1>1. LiveInv => WithinCaps
  <2> SUFFICES ASSUME LiveInv PROVE WithinCaps
    OBVIOUS
  <2>0. TypeOK /\ MoneyHolds /\ SearchesHold
    BY DEF LiveInv
  <2>1. /\ run \in Runs /\ ledger \in Ledgers /\ paid.now \in Nat /\ run.claimed \in Nat
        /\ MaxPerSession \in Nat
    BY <2>0, LiveTyped, RunTyped, LiveNumbers
  <2>2. ledger.spent \in Nat /\ OpenTotal(ledger) \in Nat
    BY <2>1, LedgerFields, OpenTotalTyped
  <2>3. paid.now <= ledger.spent + OpenTotal(ledger)
    BY <2>0, <2>1, <2>2 DEF MoneyHolds
  <2> DEFINE searching == {t \in Tools : run.at[t] = "sent" /\ run.kind[t] = "search"}
  <2>4. Cardinality(searching) <= MaxPerSession
    <3>1. searching \subseteq SearchesAt({"claimed", "sent"})
      BY DEF SearchesAt
    <3>2. /\ Cardinality(searching) <= Cardinality(SearchesAt({"claimed", "sent"}))
          /\ Cardinality(searching) \in Nat /\ Cardinality(SearchesAt({"claimed", "sent"})) \in Nat
      BY <3>1, SearchesFinite, FS_Subset, FS_CardinalityType
    <3>3. Cardinality(SearchesAt({"claimed", "sent"})) <= run.claimed /\ run.claimed <= MaxPerSession
      BY <2>0 DEF SearchesHold
    <3> HIDE DEF searching
    <3> QED  BY <2>1, <3>2, <3>3
  <2> QED  BY <2>0, <2>3, <2>4 DEF MoneyHolds, SearchesHold, WithinCaps
<1> QED  BY <1>1, LiveInvariant, PTL

\* A reservation is only made where a call is sent from.
LEMMA SendsFrom ==
  ASSUME LiveInv, Next, NEW c \in Callers, Sends(c)
  PROVE  run.pc \in {"agent", "batch", "unwind"}
<1>0. ledger \in Ledgers /\ ledger.open \in [Callers -> Nat] /\ Turn \in Callers
      /\ ledger.open[c] = 0 /\ ledger'.open[c] > 0
  BY LiveTyped, LedgerFields, CallersFinite DEF LiveInv, Sends
<1> SUFFICES ASSUME run.pc \notin {"agent", "batch", "unwind"} PROVE FALSE
  OBVIOUS
<1>1. CASE UNCHANGED ledger
  BY <1>0, <1>1
<1>2. ASSUME NEW n \in Int, ledger' = NewLedger(n) PROVE FALSE
  BY <1>0, <1>2 DEF NewLedger
<1>3. ASSUME ledger'.open = [ledger.open EXCEPT ![Turn] = 0] PROVE FALSE
  BY <1>0, <1>3
<1>4. CASE \E ceiling \in Ceilings, plan \in Scenarios, limit \in Limits, first \in BOOLEAN :
             Begin(ceiling, plan, limit, first)
  <2>1. PICK ceiling \in Ceilings : ledger' = NewLedger(ceiling - history.spent)
    BY <1>4 DEF Begin, RunCeiling
  <2>2. ceiling - history.spent \in Int
    BY LiveAssumption, LiveTyped DEF LiveInv
  <2> QED  BY <1>2, <2>1, <2>2
<1>5. CASE Finish \/ Cut
  BY <1>2, <1>5 DEF Finish, Cut
<1>6. CASE \E u \in Charges(Turn) : TurnReturns(u)
  <2>1. PICK u \in Charges(Turn) : TurnReturns(u)
    BY <1>6
  <2>2. run.at[Turn] = "sent" /\ ledger' = Reconciled(ledger, Turn, "chat", u)
    BY <2>1, TurnSent DEF TurnReturns, At
  <2>3. u \in Nat
    BY <1>0, <2>2, ChargesTyped
  <2>4. Settles(ledger, ledger', Turn, "chat", u, ledger.open[Turn] - u)
    BY <1>0, <2>2, <2>3, ReconciledMoves
  <2> QED  BY <1>3, <2>4 DEF Settles
<1>7. CASE \E u \in Lost(Turn) : TurnLost(u)
  <2>1. ledger' = Kept(ledger, Turn, "chat")
    BY <1>7 DEF TurnLost
  <2>2. Settles(ledger, ledger', Turn, "chat", ledger.open[Turn], 0)
    BY <1>0, <2>1, KeptMoves
  <2> QED  BY <1>3, <2>2 DEF Settles
<1>8. CASE TurnUnsent
  <2>1. ledger' = Released(ledger, Turn)
    BY <1>8 DEF TurnUnsent
  <2>2. ledger'.open = [ledger.open EXCEPT ![Turn] = 0]
    BY <1>0, <2>1, ReleasedMoves
  <2> QED  BY <1>3, <2>2
<1>9. CASE \E t \in Tools : ToolStep(t)
  BY <1>9 DEF ToolStep, SendEmbed, ClaimSlot, SendSearch, EmbedReturns, SearchReturns, CallLost, Busy
<1>10. CASE \/ Acknowledge \/ StartAttempt \/ Judge \/ Report \/ Rest
            \/ Feedback \/ BatchEnds \/ Unwound
            \/ \E kind \in [Tools -> {"none", "embedding", "search"}] : CallTools(kind)
            \/ \E outcome \in Outcomes : AgentEnds(outcome)
  BY <1>1, <1>10 DEF Acknowledge, StartAttempt, Judge, Report, Rest, Feedback, BatchEnds, Unwound,
                     CallTools, AgentEnds, vars
<1>11. ~SendTurn
  BY DEF SendTurn, At
<1> QED  BY <1>4, <1>5, <1>6, <1>7, <1>8, <1>9, <1>10, <1>11
         DEF Next, OwnerStep, RunnerStep, AgentStep

\* Nothing is sent after an unacknowledged breach, nor in a run that has come
\* to a stop, but by the tools of the batch in which a call raised
\* (run_scenario_live and the stops of _run_all).
THEOREM StopsAreKept == Spec => StopHolds
<1>1. LiveInv /\ [Next]_vars =>
        [\A c \in Callers : Sends(c) =>
           /\ ~history.breach
           /\ run.stop # "none" \/ ledger.exceeded => At("unwind")]_vars
  <2> SUFFICES ASSUME LiveInv, Next, NEW c \in Callers, Sends(c)
               PROVE  /\ ~history.breach
                      /\ run.stop # "none" \/ ledger.exceeded => At("unwind")
    OBVIOUS
  <2>1. run.pc \in {"agent", "batch", "unwind"}
    BY SendsFrom
  <2> QED  BY <2>1 DEF LiveInv, StopsKept, At
<1> QED  BY <1>1, LiveInvariant, PTL DEF Spec, StopHolds

=============================================================================
