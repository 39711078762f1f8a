-------------------------- MODULE RecommendationProofs --------------------------
(***************************************************************************)
(* Proofs about RecommendationStream, for every corpus, queue size, number *)
(* of retries and number of outside changes, and about the rules of        *)
(* SelectionRules.  The inductive invariant of the stream is that a run,   *)
(* whatever becomes of it, walks along one script of stages: where it      *)
(* waits says how many of them it has emitted, the length of the ledger    *)
(* how many of those announced a request, and the queue, the buffer and    *)
(* what the client was sent are consecutive pieces of them.                *)
(***************************************************************************)
EXTENDS RecommendationStream, SelectionRules, TLAPS, FiniteSetTheorems,
        SequenceTheorems

\* The stages of a whole run, in their order.
Script ==
  IF toolMode
  THEN << "accepted", "readiness", "epicure", "retrieval", "evidence",
          "provider_request", "provider_turn", "provider_request",
          "provider_turn", "validation", "revision_check" >>
  ELSE << "accepted", "readiness", "epicure", "retrieval", "evidence",
          "provider_request", "provider_turn", "validation",
          "revision_check" >>

Reached == Len(emitted) + Len(pending)

\* How many of the first k stages announce a request to the provider.
Announced(k) == IF k < 6 THEN 0 ELSE IF toolMode /\ k >= 8 THEN 2 ELSE 1

\* The stages a run has passed when it waits at a point.
At(point) ==
  CASE point = "entry"               -> 0
    [] point = "epicure"             -> 2
    [] point \in {"search", "fetch"} -> 3
    [] point = "turn1"               -> 6
    [] point = "dispatch"            -> 7
    [] point = "refetch"             -> 7
    [] point = "turn2"               -> 8
    [] point = "repeated"            -> 9
    [] point = "validate"            -> IF toolMode THEN 9 ELSE 7
    [] point = "check"               -> IF toolMode THEN 10 ELSE 8

Points == { "entry", "epicure", "search", "fetch", "turn1", "dispatch",
            "refetch", "turn2", "repeated", "validate", "check" }
ToolPoints == {"dispatch", "refetch", "turn2", "repeated"}

\* What was emitted is the script as far as the run has come.  A run that has
\* an outcome waits with it until its last stages fit into the queue.
ScriptHolds ==
  /\ Reached <= Len(Script)
  /\ \A i \in 1 .. Len(emitted) : emitted[i] = Script[i]
  /\ \A i \in 1 .. Len(pending) : pending[i] = Script[Len(emitted) + i]
  /\ Len(queue) <= Len(emitted)
  /\ limit >= 11 => pending = << >>
  /\ pc \in Points => Reached = At(pc) /\ ending = Running /\ task = Running
  /\ pc \in ToolPoints => toolMode
  /\ (pc = "done" /\ task = Running) => pending # << >> /\ ending # Running
  /\ task # Running => pending = << >>
  /\ ending.status # "cancelled"

\* A request that was announced is in the ledger or under way.
LedgerHolds ==
  /\ pc \in Turns => /\ call.phase \in {"sending", "sleeping"}
                     /\ Announced(Reached) = Len(ledger) + 1
                     /\ pending # << >> => Announced(Len(emitted)) = Len(ledger)
  /\ pc \notin Turns => /\ call = NoCall
                        /\ Announced(Reached) = Len(ledger)
                        /\ Announced(Len(emitted)) = Len(ledger)
  /\ call.phase = "sleeping" => call.attempts <= MaxRetries
  /\ telemetry = IF task = Running THEN << >> ELSE << task >>
  /\ task.status = "cancelled" => cancel # "none" /\ task.reason = cancel

\* What the run has chosen so far.
ChoiceHolds ==
  /\ pc = "fetch" => local.rows # {}
  /\ pc \in {"turn1", "dispatch", "refetch", "turn2", "validate", "check"} =>
       local.kept \subseteq Recommendable(local.evid)
  /\ (toolMode /\ pc \in {"refetch", "turn2", "validate"}) =>
       local.pick \in local.kept
  /\ (pc = "check" \/ (task = Running /\ ending = Recommended)) =>
       /\ local.pick \in local.kept
       /\ local.evid[local.pick] \in {"good", "good2"}
       /\ Len(ledger) = IF toolMode THEN 2 ELSE 1

\* What was emitted is what the client was sent, what was left out, what was
\* taken out of the queue and the queue, one after the other.
FlowHolds ==
  /\ Len(events) + Len(skipped) + Len(buffered) + Len(queue) = Len(emitted)
  /\ \A i \in 1 .. Len(events) : events[i] = Stage(emitted[i])
  /\ \A i \in 1 .. Len(skipped) : skipped[i] = emitted[Len(events) + i]
  /\ \A i \in 1 .. Len(buffered) :
       buffered[i] = emitted[Len(events) + Len(skipped) + i]
  /\ \A i \in 1 .. Len(queue) :
       queue[i] = emitted[Len(events) + Len(skipped) + Len(buffered) + i]
  /\ Len(events) < limit
  /\ skipped # << >> => ~StageBudgetLeft
  /\ cancel = "none"

\* The generator has said its last word: every event but the last is a stage,
\* and a client that stayed was told how the run ended or why it will.
FarewellHolds ==
  /\ Len(events) <= limit
  /\ \A i \in 1 .. Len(events) :
       (i < Len(events) \/ ~IsTerminal(events[i])) =>
          i <= Len(emitted) /\ events[i] = Stage(emitted[i])
  /\ (response = "stream" /\ ~gone) =>
       /\ events # << >>
       /\ LET last == events[Len(events)]
          IN \/ task # Running /\ last = task
             \/ /\ last.status = "error"
                /\ task = Running \/ task.status = "cancelled"
                /\ cancel # "none" /\ cancel = last.reason

ClientHolds ==
  /\ gen \in {"first", "streaming"} => FlowHolds
  /\ gen = "first" => /\ events = << >> /\ skipped = << >> /\ buffered = << >>
                      /\ response = "none"
  /\ gen = "streaming" => response = "stream"
  /\ gen \in {"closing", "closed"} => FarewellHolds

StreamInv == TypeOK /\ ScriptHolds /\ LedgerHolds /\ ChoiceHolds /\ ClientHolds

-----------------------------------------------------------------------------
(* The script and the queue.                                               *)

LEMMA ScriptTyped ==
  ASSUME toolMode \in BOOLEAN
  PROVE  /\ Script \in Seq(StageNames)
         /\ Len(Script) = IF toolMode THEN 11 ELSE 9
         /\ Len(Script) \in Nat /\ 9 <= Len(Script)
<1>1. CASE toolMode  BY <1>1 DEF Script, StageNames
<1>2. CASE ~toolMode  BY <1>2 DEF Script, StageNames
<1> QED  BY <1>1, <1>2

LEMMA AnnouncedGrows ==
  ASSUME NEW k \in Nat, NEW l \in Nat, k <= l
  PROVE  Announced(k) \in Nat /\ Announced(k) <= Announced(l)
  BY DEF Announced

LEMMA AnnouncedBounded ==
  ASSUME toolMode \in BOOLEAN, NEW k \in Nat
  PROVE  Announced(k) <= IF toolMode THEN 2 ELSE 1
  BY DEF Announced

\* The places of the script at which a request is announced.
LEMMA ScriptAnnounces ==
  ASSUME toolMode \in BOOLEAN, NEW i \in 1 .. Len(Script)
  PROVE  Script[i] = "provider_request" <=> (i = 6 \/ (toolMode /\ i = 8))
<1>0. Len(Script) = IF toolMode THEN 11 ELSE 9  BY ScriptTyped
<1>1. CASE toolMode
  <2>1. i \in {1, 2, 3, 4, 5, 6, 7, 8, 9, 10, 11}  BY <1>0, <1>1
  <2> QED  BY <2>1, <1>1 DEF Script
<1>2. CASE ~toolMode
  <2>1. i \in {1, 2, 3, 4, 5, 6, 7, 8, 9}  BY <1>0, <1>2
  <2> QED  BY <2>1, <1>2 DEF Script
<1> QED  BY <1>1, <1>2

LEMMA Extended ==
  ASSUME NEW S, NEW q \in Seq(S), NEW x \in Seq(S)
  PROVE  /\ q \o x \in Seq(S) /\ Len(q \o x) = Len(q) + Len(x)
         /\ \A i \in 1 .. Len(q) : (q \o x)[i] = q[i]
         /\ \A i \in 1 .. Len(x) : (q \o x)[Len(q) + i] = x[i]
<1>0. Len(q) \in Nat /\ Len(x) \in Nat  OBVIOUS
<1>1. /\ q \o x \in Seq(S) /\ Len(q \o x) = Len(q) + Len(x)
      /\ \A i \in 1 .. Len(q) + Len(x) :
           (q \o x)[i] = IF i <= Len(q) THEN q[i] ELSE x[i - Len(q)]
  BY ConcatProperties
<1>2. \A i \in 1 .. Len(q) : i \in 1 .. Len(q) + Len(x) /\ i <= Len(q)  BY <1>0
<1>3. ASSUME NEW i \in 1 .. Len(x) PROVE (q \o x)[Len(q) + i] = x[i]
  <2>1. /\ Len(q) + i \in 1 .. Len(q) + Len(x) /\ ~(Len(q) + i <= Len(q))
        /\ (Len(q) + i) - Len(q) = i
    BY <1>0
  <2> QED  BY <2>1, <1>1
<1> QED  BY <1>1, <1>2, <1>3

\* New stages that follow in the script, put as far as the queue has room.
LEMMA Emission ==
  ASSUME TypeOK, ScriptHolds, NEW new \in Seq(StageNames), Emits(new),
         Len(emitted) + Len(new) <= Len(Script),
         \A i \in 1 .. Len(new) : new[i] = Script[Len(emitted) + i],
         toolMode' = toolMode, limit' = limit
  PROVE  /\ queue' \in Seq(StageNames) /\ pending' \in Seq(StageNames)
         /\ emitted' \in Seq(StageNames)
         /\ Len(queue') <= limit /\ Len(queue') <= Len(emitted')
         /\ Reached' = Len(emitted) + Len(new)
         /\ Len(emitted) <= Len(emitted')
         /\ Len(emitted') <= Len(emitted) + Len(new)
         /\ Len(queue') = Len(queue) + (Len(emitted') - Len(emitted))
         /\ \A i \in 1 .. Len(emitted) : emitted'[i] = emitted[i]
         /\ \A i \in 1 .. Len(queue) : queue'[i] = queue[i]
         /\ \A i \in 1 .. Len(emitted') - Len(emitted) :
              queue'[Len(queue) + i] = emitted'[Len(emitted) + i]
         /\ \A i \in 1 .. Len(emitted') : emitted'[i] = Script[i]
         /\ \A i \in 1 .. Len(pending') : pending'[i] = Script[Len(emitted') + i]
         /\ (limit >= 11 \/ new = << >>) => pending' = << >>
<1> DEFINE room == limit - Len(queue)
           n == IF Len(new) < room THEN Len(new) ELSE room
<1>1. /\ queue \in Seq(StageNames) /\ emitted \in Seq(StageNames)
      /\ Len(queue) <= limit /\ limit \in Nat /\ toolMode \in BOOLEAN
      /\ Len(queue) \in Nat /\ Len(emitted) \in Nat /\ Len(new) \in Nat
  BY RecommendationsAssumption DEF TypeOK
<1>2. n \in 0 .. Len(new) /\ n <= room /\ room \in Nat  BY <1>1
<1>3. /\ queue' = queue \o SubSeq(new, 1, n)
      /\ emitted' = emitted \o SubSeq(new, 1, n)
      /\ pending' = SubSeq(new, n + 1, Len(new))
  BY DEF Emits
<1>0. n = Len(new) \/ n = room  OBVIOUS
<1> HIDE DEF n
<1>4. /\ queue' \in Seq(StageNames) /\ pending' \in Seq(StageNames)
      /\ emitted' \in Seq(StageNames)
      /\ Len(queue') = Len(queue) + n /\ Len(emitted') = Len(emitted) + n
      /\ Len(pending') = Len(new) - n
      /\ \A i \in 1 .. Len(queue) : queue'[i] = queue[i]
      /\ \A i \in 1 .. Len(emitted) : emitted'[i] = emitted[i]
      /\ \A i \in 1 .. n : queue'[Len(queue) + i] = new[i]
      /\ \A i \in 1 .. n : emitted'[Len(emitted) + i] = new[i]
      /\ \A i \in 1 .. Len(new) - n : pending'[i] = new[n + i]
  <2> DEFINE put == SubSeq(new, 1, n)
  <2>1. \A i \in 1 .. Len(new) : new[i] \in StageNames  OBVIOUS
  <2>2. /\ put \in Seq(StageNames) /\ Len(put) = n
        /\ \A i \in 1 .. n : put[i] = new[i]
    BY <1>1, <1>2, <2>1, SubSeqProperties
  <2>3. /\ pending' \in Seq(StageNames) /\ Len(pending') = Len(new) - n
        /\ \A i \in 1 .. Len(new) - n : pending'[i] = new[n + i]
    BY <1>1, <1>2, <1>3, <2>1, SubSeqProperties
  <2>4. queue' = queue \o put /\ emitted' = emitted \o put  BY <1>3
  <2> HIDE DEF put
  <2>0. queue \in Seq(StageNames) /\ emitted \in Seq(StageNames)
        /\ put \in Seq(StageNames)
    BY <1>1, <2>2
  <2>5. /\ (queue \o put) \in Seq(StageNames) /\ Len((queue \o put)) = Len(queue) + Len(put)
        /\ \A i \in 1 .. Len(queue) : (queue \o put)[i] = queue[i]
        /\ \A i \in 1 .. Len(put) : (queue \o put)[Len(queue) + i] = put[i]
    BY <2>0, Extended
  <2>6. /\ (emitted \o put) \in Seq(StageNames) /\ Len((emitted \o put)) = Len(emitted) + Len(put)
        /\ \A i \in 1 .. Len(emitted) : (emitted \o put)[i] = emitted[i]
        /\ \A i \in 1 .. Len(put) : (emitted \o put)[Len(emitted) + i] = put[i]
    BY <2>0, Extended
  <2> QED  BY <2>2, <2>3, <2>4, <2>5, <2>6
<1>5. /\ Len(queue) <= Len(emitted)
      /\ \A i \in 1 .. Len(emitted) : emitted[i] = Script[i]
  BY DEF ScriptHolds
<1>6. /\ Len(queue') <= limit /\ Len(queue') <= Len(emitted')
      /\ Reached' = Len(emitted) + Len(new)
      /\ Len(emitted) <= Len(emitted')
      /\ Len(emitted') <= Len(emitted) + Len(new)
      /\ Len(emitted') - Len(emitted) = n
  BY <1>1, <1>2, <1>4, <1>5 DEF Reached
<1>7. ASSUME NEW i \in 1 .. Len(emitted') PROVE emitted'[i] = Script[i]
  <2>1. CASE i <= Len(emitted)  BY <2>1, <1>1, <1>4, <1>5
  <2>2. CASE i > Len(emitted)
    <3>1. i - Len(emitted) \in 1 .. n /\ i - Len(emitted) \in 1 .. Len(new)
      BY <2>2, <1>1, <1>2, <1>4
    <3>2. Len(emitted) + (i - Len(emitted)) = i  BY <1>1
    <3> QED  BY <3>1, <3>2, <1>4
  <2> QED  BY <2>1, <2>2, <1>1, <1>4
<1>8. ASSUME NEW i \in 1 .. Len(pending') PROVE pending'[i] = Script[Len(emitted') + i]
  <2>1. i \in 1 .. Len(new) - n /\ n + i \in 1 .. Len(new)  BY <1>1, <1>2, <1>4
  <2>2. Len(emitted) + (n + i) = Len(emitted') + i  BY <1>1, <1>2, <1>4
  <2> QED  BY <2>1, <2>2, <1>4
<1>9. ASSUME limit >= 11 \/ new = << >> PROVE pending' = << >>
  <2>1. Len(Script) <= 11
    <3>1. toolMode \in BOOLEAN  BY DEF TypeOK
    <3>2. Len(Script) = IF toolMode THEN 11 ELSE 9  BY <3>1, ScriptTyped
    <3> QED  BY <3>2
  <2>2. n = Len(new)
    <3>1. CASE new = << >>  BY <3>1, <1>2
    <3>2. CASE limit >= 11  BY <3>2, <2>1, <1>0, <1>1, <1>2, <1>5
    <3> QED  BY <3>1, <3>2, <1>9
  <2>3. Len(pending') = 0  BY <2>2, <1>1, <1>4
  <2> QED  BY <2>3, <1>4
<1> QED  BY <1>4, <1>6, <1>7, <1>8, <1>9

-----------------------------------------------------------------------------
(* A step of the run: its stages, then where it goes.                      *)

\* The run has come as far as stage k of the script, all of it in the queue
\* or behind it.
Advances(k) ==
  /\ queue' \in Seq(StageNames) /\ pending' \in Seq(StageNames)
  /\ emitted' \in Seq(StageNames)
  /\ Len(queue') <= limit /\ Len(queue') <= Len(emitted')
  /\ Reached' = k
  /\ Len(emitted) <= Len(emitted') /\ Len(emitted') <= k
  /\ Len(queue') = Len(queue) + (Len(emitted') - Len(emitted))
  /\ \A i \in 1 .. Len(emitted) : emitted'[i] = emitted[i]
  /\ \A i \in 1 .. Len(queue) : queue'[i] = queue[i]
  /\ \A i \in 1 .. Len(emitted') - Len(emitted) :
       queue'[Len(queue) + i] = emitted'[Len(emitted) + i]
  /\ \A i \in 1 .. Len(emitted') : emitted'[i] = Script[i]
  /\ \A i \in 1 .. Len(pending') : pending'[i] = Script[Len(emitted') + i]
  /\ limit >= 11 => pending' = << >>

Follow(new) ==
  /\ new \in Seq(StageNames)
  /\ Len(emitted) + Len(new) <= Len(Script)
  /\ \A i \in 1 .. Len(new) : new[i] = Script[Len(emitted) + i]

LEMMA Advance ==
  ASSUME StreamInv, NEW new, Follow(new), Emits(new), UNCHANGED input
  PROVE  /\ Advances(Len(emitted) + Len(new))
         /\ new = << >> => pending' = << >>
<1>1. TypeOK /\ ScriptHolds  BY DEF StreamInv
<1>2. toolMode' = toolMode /\ limit' = limit  BY DEF input
<1>3. /\ new \in Seq(StageNames)
      /\ Len(emitted) + Len(new) <= Len(Script)
      /\ \A i \in 1 .. Len(new) : new[i] = Script[Len(emitted) + i]
  BY DEF Follow
<1> QED  BY <1>1, <1>2, <1>3, Emission DEF Advances

LEMMA AdvanceNumbers ==
  ASSUME TypeOK, NEW k \in Nat, Advances(k)
  PROVE  /\ Len(emitted) \in Nat
         /\ Len(emitted') \in Nat /\ Len(pending') \in Nat
         /\ Len(emitted) <= Len(emitted') /\ Len(emitted') <= k
         /\ Len(emitted') + Len(pending') = k
         /\ pending' \in Seq(StageNames)
<1>1. /\ emitted \in Seq(StageNames) /\ emitted' \in Seq(StageNames)
      /\ pending' \in Seq(StageNames)
  BY DEF TypeOK, Advances
<1>2. Len(emitted) <= Len(emitted') /\ Len(emitted') <= k /\ Reached' = k
  BY DEF Advances
<1>3. Reached' = Len(emitted') + Len(pending')  BY DEF Reached
<1> QED  BY <1>1, <1>2, <1>3

LEMMA NoCallTyped == NoCall \in Call /\ NewCall \in Call
<1>1. NewCall \in Call
  <2>1. 1 \in 0 .. MaxRetries + 1  BY RetriesAssumption
  <2> QED  BY <2>1 DEF NewCall, Call
<1>2. 0 \in 0 .. MaxRetries + 1  BY RetriesAssumption
<1> QED  BY <1>1, <1>2 DEF NoCall, Call

LEMMA ScriptFixed ==
  ASSUME UNCHANGED input
  PROVE  /\ Script' = Script
         /\ \A k : Announced(k)' = Announced(k)
         /\ \A point : At(point)' = At(point)
  BY DEF input, Script, Announced, At

\* Stages that are emitted go to the end of what the client has yet to see.
LEMMA FlowAdvances ==
  ASSUME TypeOK, FlowHolds, NEW k, Advances(k), UNCHANGED <<stream, cancel, limit>>
  PROVE  FlowHolds'
<1> DEFINE e == Len(events)
           s == Len(skipped)
           b == Len(buffered)
           q == Len(queue)
           m == Len(emitted)
           q2 == Len(queue')
           m2 == Len(emitted')
<1>1. /\ events' = events /\ skipped' = skipped /\ buffered' = buffered
      /\ cancel' = cancel /\ limit' = limit
  BY DEF stream
<1>2. /\ e \in Nat /\ s \in Nat /\ b \in Nat /\ q \in Nat /\ m \in Nat
      /\ q2 \in Nat /\ m2 \in Nat
  BY DEF TypeOK, Advances
<1>3. /\ e + s + b + q = m
      /\ \A i \in 1 .. e : events[i] = Stage(emitted[i])
      /\ \A i \in 1 .. s : skipped[i] = emitted[e + i]
      /\ \A i \in 1 .. b : buffered[i] = emitted[e + s + i]
      /\ \A i \in 1 .. q : queue[i] = emitted[e + s + b + i]
      /\ e < limit /\ cancel = "none" /\ (skipped # << >> => ~StageBudgetLeft)
  BY DEF FlowHolds
<1>4. /\ q2 = q + (m2 - m)
      /\ \A i \in 1 .. m : emitted'[i] = emitted[i]
      /\ \A i \in 1 .. q : queue'[i] = queue[i]
      /\ \A i \in 1 .. m2 - m : queue'[q + i] = emitted'[m + i]
  BY DEF Advances
<1>0. /\ skipped # << >> => ~StageBudgetLeft'
      /\ FlowHolds' <=>
           /\ e + s + b + q2 = m2
           /\ \A i \in 1 .. e : events[i] = Stage(emitted'[i])
           /\ \A i \in 1 .. s : skipped[i] = emitted'[e + i]
           /\ \A i \in 1 .. b : buffered[i] = emitted'[e + s + i]
           /\ \A i \in 1 .. q2 : queue'[i] = emitted'[e + s + b + i]
  BY <1>1, <1>3 DEF FlowHolds, StageBudgetLeft
<1> HIDE DEF e, s, b, q, m, q2, m2
<1>5. e + s + b + q2 = m2
  <2>1. /\ e \in Nat /\ s \in Nat /\ b \in Nat /\ q \in Nat /\ m \in Nat
        /\ q2 \in Nat /\ m2 \in Nat /\ e + s + b + q = m /\ q2 = q + (m2 - m)
    BY <1>2, <1>3, <1>4
  <2> QED  BY <2>1
<1>6. \A i \in 1 .. e : events[i] = Stage(emitted'[i])
  <2>1. \A i \in 1 .. e : i \in 1 .. m  BY <1>2, <1>3
  <2> QED  BY <2>1, <1>3, <1>4
<1>7. \A i \in 1 .. s : skipped[i] = emitted'[e + i]
  <2>1. \A i \in 1 .. s : e + i \in 1 .. m  BY <1>2, <1>3
  <2> QED  BY <2>1, <1>3, <1>4
<1>8. \A i \in 1 .. b : buffered[i] = emitted'[e + s + i]
  <2>1. \A i \in 1 .. b : e + s + i \in 1 .. m  BY <1>2, <1>3
  <2> QED  BY <2>1, <1>3, <1>4
<1>9. ASSUME NEW i \in 1 .. q2
      PROVE  queue'[i] = emitted'[e + s + b + i]
  <2>1. CASE i \in 1 .. q
    <3>1. e + s + b + i \in 1 .. m  BY <2>1, <1>2, <1>3
    <3> QED  BY <3>1, <2>1, <1>3, <1>4
  <2>2. CASE i - q \in 1 .. m2 - m
    <3>1. q + (i - q) = i /\ m + (i - q) = e + s + b + i  BY <1>2, <1>3
    <3> QED  BY <3>1, <2>2, <1>4
  <2>3. i \in 1 .. q \/ i - q \in 1 .. m2 - m  BY <1>2, <1>4
  <2> QED  BY <2>1, <2>2, <2>3
<1> QED  BY <1>0, <1>5, <1>6, <1>7, <1>8, <1>9

\* A run that goes on was not cancelled, so its client was not told farewell.
LEMMA RunKeepsClient ==
  ASSUME StreamInv, NEW k, Advances(k), task = Running, cancel = "none",
         UNCHANGED <<stream, cancel, limit>>
  PROVE  ClientHolds'
<1>1. TypeOK /\ ClientHolds  BY DEF StreamInv
<1>2. /\ gen' = gen /\ events' = events /\ skipped' = skipped
      /\ buffered' = buffered /\ response' = response /\ gone' = gone
      /\ limit' = limit
  BY DEF stream
<1>3. gen \in {"first", "streaming"} => FlowHolds'
  BY <1>1, FlowAdvances DEF ClientHolds
<1>4. ASSUME gen \in {"closing", "closed"} PROVE FarewellHolds'
  <2>1. /\ Len(events) <= limit
        /\ \A i \in 1 .. Len(events) :
             (i < Len(events) \/ ~IsTerminal(events[i])) =>
                i <= Len(emitted) /\ events[i] = Stage(emitted[i])
        /\ ~(response = "stream" /\ ~gone)
    BY <1>1, <1>4 DEF ClientHolds, FarewellHolds
  <2>2. /\ Len(emitted) \in Nat /\ Len(emitted') \in Nat
        /\ Len(emitted) <= Len(emitted') /\ Len(events) \in Nat
        /\ \A i \in 1 .. Len(emitted) : emitted'[i] = emitted[i]
    BY <1>1 DEF Advances, TypeOK
  <2>3. \A i \in 1 .. Len(events) :
             (i < Len(events) \/ ~IsTerminal(events[i])) =>
                i <= Len(emitted') /\ events[i] = Stage(emitted'[i])
    BY <2>1, <2>2
  <2> QED  BY <2>1, <2>3, <1>2 DEF FarewellHolds
<1>5. /\ gen = "first" => /\ events = << >> /\ skipped = << >> /\ buffered = << >>
                          /\ response = "none"
      /\ gen = "streaming" => response = "stream"
  BY <1>1 DEF ClientHolds
<1> QED  BY <1>2, <1>3, <1>4, <1>5 DEF ClientHolds

\* Whatever the run does, the ledger has no more entries than it may have turns.
LEMMA LedgerBound ==
  ASSUME StreamInv, toolMode' = toolMode, NEW k \in Nat,
         NEW n \in Nat, n <= Announced(k)
  PROVE  n <= IF toolMode' THEN 2 ELSE 1
<1>1. toolMode \in BOOLEAN  BY DEF StreamInv, TypeOK
<1>2. Announced(k) <= IF toolMode THEN 2 ELSE 1  BY <1>1, AnnouncedBounded
<1>3. Announced(k) \in Nat  BY DEF Announced
<1> QED  BY <1>2, <1>3

\* The run emits stages and goes on to the next point.
LEMMA Continues ==
  ASSUME StreamInv, pc \in Points, cancel = "none",
         NEW new, NEW next \in Points, NEW loc \in Locals,
         Follow(new), Goes(new, next, loc),
         Len(emitted) + Len(new) = At(next),
         next \in ToolPoints => toolMode,
         UNCHANGED <<input, world, cancel, stream>>,
         call' \in Call, ledger' \in Seq(LedgerEntries),
         call'.phase = "sleeping" => call'.attempts <= MaxRetries,
         Announced(Len(emitted)) = Len(ledger') \/ (next \in Turns /\ new = << >>),
         IF next \in Turns
         THEN /\ call'.phase \in {"sending", "sleeping"}
              /\ Announced(At(next)) = Len(ledger') + 1
         ELSE call' = NoCall /\ Announced(At(next)) = Len(ledger'),
         ChoiceHolds'
  PROVE  StreamInv'
<1> DEFINE k == Len(emitted) + Len(new)
<1>0. /\ TypeOK /\ ScriptHolds /\ LedgerHolds
      /\ toolMode' = toolMode /\ limit' = limit
      /\ UNCHANGED input
  BY DEF StreamInv, input
<1>1. /\ Emits(new) /\ pc' = next /\ local' = loc
      /\ task' = task /\ telemetry' = telemetry /\ ending' = ending
  BY DEF Goes, end
<1>2. /\ task = Running /\ ending = Running /\ task.status # "cancelled"
      /\ telemetry = << >> /\ ending.status # "cancelled"
      /\ pc \in ToolPoints => toolMode
  BY <1>0 DEF ScriptHolds, LedgerHolds, Running, Outcome
<1>3. Advances(k) /\ (new = << >> => pending' = << >>)
  BY <1>0, <1>1, Advance
<1>04. Len(emitted) \in Nat /\ Len(new) \in Nat /\ k \in Nat
  BY <1>0 DEF TypeOK, Follow
<1>4. /\ Len(emitted) \in Nat /\ Len(new) \in Nat /\ k \in Nat
      /\ Len(emitted') \in Nat /\ Len(pending') \in Nat
      /\ Len(emitted) <= Len(emitted') /\ Len(emitted') <= k
      /\ Len(emitted') + Len(pending') = k
      /\ pending' \in Seq(StageNames)
  BY <1>0, <1>3, <1>04, AdvanceNumbers
<1>5. k = At(next) /\ k <= Len(Script)  BY DEF Follow
<1>6. ScriptHolds'
  <2>1. pc' # "done" /\ next # "done"  BY <1>1 DEF Points
  <2>0. Reached' = k /\ Script' = Script  BY <1>0, <1>3, ScriptFixed DEF Advances
  <2>2. Reached' <= Len(Script)' /\ Script' = Script  BY <2>0, <1>5
  <2>5. Reached' = At(pc)'  BY <2>0, <1>0, <1>1, <1>5 DEF At
  <2>3. /\ \A i \in 1 .. Len(emitted') : emitted'[i] = Script[i]
        /\ \A i \in 1 .. Len(pending') : pending'[i] = Script[Len(emitted') + i]
        /\ Len(queue') <= Len(emitted')
        /\ limit >= 11 => pending' = << >>
    BY <1>3 DEF Advances
  <2>4. pc' \in ToolPoints => toolMode'  BY <1>0, <1>1
  <2> QED  BY <2>1, <2>2, <2>3, <2>4, <2>5, <1>0, <1>1, <1>2 DEF ScriptHolds
<1>7. LedgerHolds'
  <2>1. /\ \A n : Announced(n)' = Announced(n)
        /\ Reached' = k
    BY <1>0, <1>3, ScriptFixed DEF Advances
  <2>2. /\ Announced(Len(emitted)) <= Announced(Len(emitted'))
        /\ Announced(Len(emitted')) <= Announced(k)
        /\ Announced(Len(emitted)) \in Nat /\ Announced(Len(emitted')) \in Nat
        /\ Announced(k) \in Nat
    BY <1>4, AnnouncedGrows
  <2>3. Len(ledger') \in Nat  OBVIOUS
  <2>4. CASE next \notin Turns
    <3>1. Announced(Len(emitted')) = Len(ledger')
      BY <2>2, <2>3, <2>4, <1>5
    <3> QED  BY <3>1, <2>1, <2>4, <1>1, <1>2, <1>5 DEF LedgerHolds, NoCall, NewCall
  <2>5. CASE next \in Turns
    <3>1. ASSUME pending' # << >> PROVE Announced(Len(emitted')) = Len(ledger')
      <4>1. new # << >> /\ Announced(Len(emitted)) = Len(ledger')
        BY <3>1, <1>3
      <4>2. Len(emitted') < k
        <5>1. Len(pending') # 0  BY <3>1, <1>4
        <5> QED  BY <5>1, <1>4
      <4>3. CASE next = "turn1"
        <5>1. k = 6  BY <4>3, <1>5 DEF At
        <5> QED  BY <5>1, <4>1, <4>2, <1>4 DEF Announced
      <4>4. CASE next = "turn2"
        <5>1. k = 8 /\ toolMode  BY <4>4, <1>5 DEF At, ToolPoints
        <5>2. Len(ledger') = 1
          <6>1. Announced(At(next)) = Len(ledger') + 1  BY <2>5
          <6>2. At(next) = 8  BY <5>1, <1>5
          <6>3. Announced(At(next)) = 2  BY <5>1, <6>2 DEF Announced
          <6>4. Len(ledger') + 1 = 2  BY <6>1, <6>3
          <6> DEFINE n == Len(ledger')
          <6>5. n \in Nat /\ n + 1 = 2  BY <6>4, <2>3
          <6> HIDE DEF n
          <6>6. n = 1  BY <6>5
          <6> QED  BY <6>6 DEF n
        <5> QED  BY <5>1, <5>2, <4>1, <4>2, <1>4 DEF Announced
      <4> QED  BY <4>3, <4>4, <2>5 DEF Turns
    <3> QED  BY <3>1, <2>1, <2>5, <1>1, <1>2, <1>5 DEF LedgerHolds
  <2> QED  BY <2>4, <2>5
<1>8. ClientHolds'
  BY <1>0, <1>2, <1>3, RunKeepsClient DEF input
<1>9. TypeOK'
  <2>1. Len(ledger') <= IF toolMode' THEN 2 ELSE 1
    <3>1. Len(ledger') \in Nat /\ Announced(k) \in Nat  BY <1>4 DEF Announced
    <3>2. Len(ledger') <= Announced(k)  BY <3>1, <1>5
    <3> QED  BY <3>1, <3>2, <1>0, <1>4, LedgerBound
  <2>2. /\ queue' \in Seq(StageNames) /\ Len(queue') <= limit'
        /\ pending' \in Seq(StageNames) /\ emitted' \in Seq(StageNames)
    BY <1>0, <1>3 DEF Advances
  <2>3. pc' \in Points \cup {"done"} /\ local' \in Locals  BY <1>1
  <2>4. /\ grp' = grp /\ doc' = doc /\ changes' = changes /\ cancel' = cancel
        /\ gen' = gen /\ buffered' = buffered /\ events' = events
        /\ skipped' = skipped /\ response' = response /\ gone' = gone
    BY DEF world, stream
  <2> QED  BY <2>1, <2>2, <2>3, <2>4, <1>0, <1>1 DEF TypeOK, Points
<1> QED  BY <1>6, <1>7, <1>8, <1>9 DEF StreamInv

\* The run emits its last stages and ends, or waits to.
LEMMA Finishes ==
  ASSUME StreamInv, task = Running, cancel = "none",
         NEW new, NEW o \in Outcomes, o.status # "cancelled",
         Follow(new), Closes(new, o),
         UNCHANGED <<input, world, cancel, stream>>,
         call' = NoCall, ledger' \in Seq(LedgerEntries),
         Announced(Len(emitted)) = Len(ledger'),
         Announced(Len(emitted) + Len(new)) = Len(ledger'),
         o = Recommended =>
           /\ local.pick \in local.kept
           /\ local.evid[local.pick] \in {"good", "good2"}
           /\ Len(ledger') = IF toolMode THEN 2 ELSE 1
  PROVE  StreamInv'
<1> DEFINE k == Len(emitted) + Len(new)
<1>0. /\ TypeOK /\ ScriptHolds /\ LedgerHolds
      /\ toolMode' = toolMode /\ limit' = limit
      /\ UNCHANGED input
  BY DEF StreamInv, input
<1>1. /\ Emits(new) /\ pc' = "done"
      /\ IF pending' = << >>
         THEN local' = NoLocals /\ Ends(o) /\ ending' = ending
         ELSE ending' = o /\ local' = local /\ task' = task /\ telemetry' = telemetry
  BY DEF Closes
<1>2. /\ telemetry = << >> /\ ending.status # "cancelled" /\ o # Running
  BY <1>0 DEF ScriptHolds, LedgerHolds, Outcomes, Running, Error, Outcome,
              Insufficient, Clarified, Recommended
<1>02. IF pending' = << >> THEN task' = o /\ telemetry' = << o >>
       ELSE task' = Running /\ telemetry' = << >>
  BY <1>1, <1>2 DEF Ends, Report
<1>3. Advances(k) /\ (new = << >> => pending' = << >>)
  BY <1>0, <1>1, Advance
<1>04. Len(emitted) \in Nat /\ Len(new) \in Nat /\ k \in Nat
  BY <1>0 DEF TypeOK, Follow
<1>4. /\ Len(emitted) \in Nat /\ Len(new) \in Nat /\ k \in Nat
      /\ Len(emitted') \in Nat /\ Len(pending') \in Nat
      /\ Len(emitted) <= Len(emitted') /\ Len(emitted') <= k
      /\ Len(emitted') + Len(pending') = k
      /\ pending' \in Seq(StageNames)
  BY <1>0, <1>3, <1>04, AdvanceNumbers
<1>6. ScriptHolds'
  <2>2. Reached' <= Len(Script)' /\ Script' = Script
    BY <1>0, <1>3, ScriptFixed DEF Advances, Follow
  <2>3. /\ \A i \in 1 .. Len(emitted') : emitted'[i] = Script[i]
        /\ \A i \in 1 .. Len(pending') : pending'[i] = Script[Len(emitted') + i]
        /\ Len(queue') <= Len(emitted')
        /\ limit >= 11 => pending' = << >>
    BY <1>3 DEF Advances
  <2>4. pc' \notin Points /\ pc' \notin ToolPoints  BY <1>1 DEF Points, ToolPoints
  <2>5. /\ task' = Running => pending' # << >> /\ ending' # Running
        /\ task' # Running => pending' = << >>
        /\ ending'.status # "cancelled"
    BY <1>1, <1>02, <1>2
  <2> QED  BY <2>2, <2>3, <2>4, <2>5, <1>0 DEF ScriptHolds
<1>7. LedgerHolds'
  <2>1. /\ \A n : Announced(n)' = Announced(n)
        /\ Reached' = k
    BY <1>0, <1>3, ScriptFixed DEF Advances
  <2>2. /\ Announced(Len(emitted)) <= Announced(Len(emitted'))
        /\ Announced(Len(emitted')) <= Announced(k)
        /\ Announced(Len(emitted)) \in Nat /\ Announced(Len(emitted')) \in Nat
        /\ Announced(k) \in Nat
    BY <1>4, AnnouncedGrows
  <2>3. Announced(Len(emitted')) = Len(ledger')  BY <2>2
  <2>4. pc' \notin Turns  BY <1>1 DEF Turns
  <2>5. /\ telemetry' = IF task' = Running THEN << >> ELSE << task' >>
        /\ task'.status # "cancelled"
    BY <1>02, <1>2 DEF Running, Outcome
  <2> QED  BY <2>1, <2>3, <2>4, <2>5 DEF LedgerHolds, NoCall, NewCall
<1>8. ClientHolds'
  BY <1>0, <1>3, RunKeepsClient DEF input
<1>9. TypeOK'
  <2>1. Len(ledger') <= IF toolMode' THEN 2 ELSE 1
    <3>1. Len(ledger') \in Nat /\ Announced(k) \in Nat  BY <1>4 DEF Announced
    <3>2. Len(ledger') <= Announced(k)  BY <3>1
    <3> QED  BY <3>1, <3>2, <1>0, <1>4, LedgerBound
  <2>2. /\ queue' \in Seq(StageNames) /\ Len(queue') <= limit'
        /\ pending' \in Seq(StageNames) /\ emitted' \in Seq(StageNames)
    BY <1>0, <1>3 DEF Advances
  <2>3. local' \in Locals
    <3>1. NoLocals \in Locals  BY DEF NoLocals, Locals, Contents
    <3>2. local \in Locals  BY <1>0 DEF TypeOK
    <3> QED  BY <3>1, <3>2, <1>1
  <2>4. /\ grp' = grp /\ doc' = doc /\ changes' = changes /\ cancel' = cancel
        /\ gen' = gen /\ buffered' = buffered /\ events' = events
        /\ skipped' = skipped /\ response' = response /\ gone' = gone
    BY DEF world, stream
  <2>5. /\ task' \in Outcomes \cup {Running} /\ ending' \in Outcomes \cup {Running}
        /\ telemetry' \in Seq(Outcomes)
    <3>1. << >> \in Seq(Outcomes) /\ << o >> \in Seq(Outcomes)  OBVIOUS
    <3>2. ending \in Outcomes \cup {Running}  BY <1>0 DEF TypeOK
    <3> QED  BY <3>1, <3>2, <1>1, <1>02
  <2>6. call' \in Call  BY NoCallTyped
  <2> QED  BY <2>1, <2>2, <2>3, <2>4, <2>5, <2>6, <1>0, <1>1 DEF TypeOK
<1>10. ChoiceHolds'
  <2>1. (task' = Running /\ ending' = Recommended) => o = Recommended /\ local' = local
    BY <1>1, <1>02, <1>2
  <2> QED  BY <2>1, <1>0, <1>1 DEF ChoiceHolds
<1> QED  BY <1>6, <1>7, <1>8, <1>9, <1>10 DEF StreamInv

-----------------------------------------------------------------------------
(* The places of the script.                                               *)

LEMMA ScriptStages ==
  ASSUME toolMode \in BOOLEAN
  PROVE  /\ Script[1] = "accepted" /\ Script[2] = "readiness"
         /\ Script[3] = "epicure" /\ Script[4] = "retrieval"
         /\ Script[5] = "evidence" /\ Script[6] = "provider_request"
         /\ Script[7] = "provider_turn"
         /\ toolMode => /\ Script[8] = "provider_request"
                        /\ Script[9] = "provider_turn"
                        /\ Script[10] = "validation"
                        /\ Script[11] = "revision_check"
         /\ ~toolMode => Script[8] = "validation" /\ Script[9] = "revision_check"
<1>1. CASE toolMode  BY <1>1 DEF Script
<1>2. CASE ~toolMode  BY <1>2 DEF Script
<1> QED  BY <1>1, <1>2

LEMMA FollowNone ==
  ASSUME StreamInv
  PROVE  Follow(<< >>) /\ Len(emitted) + Len(<< >>) = Len(emitted)
<1>1. /\ Len(emitted) \in Nat /\ Len(pending) \in Nat
      /\ Len(emitted) + Len(pending) <= Len(Script)
      /\ toolMode \in BOOLEAN
  BY DEF StreamInv, TypeOK, ScriptHolds, Reached
<1>2. toolMode \in BOOLEAN  BY DEF StreamInv, TypeOK
<1>3. Len(Script) \in Nat  BY <1>2, ScriptTyped
<1>4. << >> \in Seq(StageNames) /\ Len(<< >>) = 0  OBVIOUS
<1>5. Len(emitted) <= Len(Script)  BY <1>1, <1>3
<1> QED  BY <1>1, <1>4, <1>5 DEF Follow

LEMMA FollowOne ==
  ASSUME StreamInv, NEW s, NEW n \in Nat, Len(emitted) = n,
         n + 1 <= Len(Script), Script[n + 1] = s
  PROVE  Follow(<< s >>) /\ Len(emitted) + Len(<< s >>) = n + 1
<1>1. toolMode \in BOOLEAN  BY DEF StreamInv, TypeOK
<1>2. Script \in Seq(StageNames) /\ Len(Script) \in Nat  BY <1>1, ScriptTyped
<1>3. n + 1 \in 1 .. Len(Script)  BY <1>2
<1>4. s \in StageNames  BY <1>2, <1>3
<1>5. << s >> \in Seq(StageNames) /\ Len(<< s >>) = 1 /\ << s >>[1] = s  BY <1>4
<1> QED  BY <1>5 DEF Follow

LEMMA FollowTwo ==
  ASSUME StreamInv, NEW s, NEW t, NEW n \in Nat, Len(emitted) = n,
         n + 2 <= Len(Script), Script[n + 1] = s, Script[n + 2] = t
  PROVE  Follow(<< s, t >>) /\ Len(emitted) + Len(<< s, t >>) = n + 2
<1>1. toolMode \in BOOLEAN  BY DEF StreamInv, TypeOK
<1>2. Script \in Seq(StageNames) /\ Len(Script) \in Nat  BY <1>1, ScriptTyped
<1>3. n + 1 \in 1 .. Len(Script) /\ n + 2 \in 1 .. Len(Script)  BY <1>2
<1>4. s \in StageNames /\ t \in StageNames  BY <1>2, <1>3
<1>5. /\ << s, t >> \in Seq(StageNames) /\ Len(<< s, t >>) = 2
      /\ << s, t >>[1] = s /\ << s, t >>[2] = t
  BY <1>4
<1>6. \A i \in 1 .. 2 : i = 1 \/ i = 2  OBVIOUS
<1> QED  BY <1>5, <1>6 DEF Follow

LEMMA FollowThree ==
  ASSUME StreamInv, NEW s, NEW t, NEW u, NEW n \in Nat, Len(emitted) = n,
         n + 3 <= Len(Script),
         Script[n + 1] = s, Script[n + 2] = t, Script[n + 3] = u
  PROVE  Follow(<< s, t, u >>) /\ Len(emitted) + Len(<< s, t, u >>) = n + 3
<1>1. toolMode \in BOOLEAN  BY DEF StreamInv, TypeOK
<1>2. Script \in Seq(StageNames) /\ Len(Script) \in Nat  BY <1>1, ScriptTyped
<1>3. /\ n + 1 \in 1 .. Len(Script) /\ n + 2 \in 1 .. Len(Script)
      /\ n + 3 \in 1 .. Len(Script)
  BY <1>2
<1>4. s \in StageNames /\ t \in StageNames /\ u \in StageNames  BY <1>2, <1>3
<1>5. /\ << s, t, u >> \in Seq(StageNames) /\ Len(<< s, t, u >>) = 3
      /\ << s, t, u >>[1] = s /\ << s, t, u >>[2] = t /\ << s, t, u >>[3] = u
  BY <1>4
<1>6. \A i \in 1 .. 3 : i = 1 \/ i = 2 \/ i = 3  OBVIOUS
<1> QED  BY <1>5, <1>6 DEF Follow

\* A run that waits at a point with nothing left to put.
LEMMA Waiting ==
  ASSUME StreamInv, NEW p \in Points, Runs(p)
  PROVE  /\ pc = p /\ pending = << >> /\ task = Running /\ cancel = "none"
         /\ ending = Running
         /\ Len(emitted) = At(p) /\ Len(emitted) \in Nat
         /\ p \in ToolPoints => toolMode
         /\ p \in Turns => /\ call.phase \in {"sending", "sleeping"}
                           /\ Announced(At(p)) = Len(ledger) + 1
         /\ p \notin Turns => call = NoCall /\ Announced(At(p)) = Len(ledger)
         /\ call.phase = "sleeping" => call.attempts <= MaxRetries
         /\ toolMode \in BOOLEAN /\ local \in Locals /\ call \in Call
         /\ ledger \in Seq(LedgerEntries) /\ doc \in [Recipes -> Contents]
<1>1. pc = p /\ pending = << >> /\ task = Running /\ cancel = "none"  BY DEF Runs
<1>2. Len(emitted) \in Nat /\ Reached = Len(emitted)
  BY <1>1 DEF StreamInv, TypeOK, Reached
<1>3. /\ ending = Running /\ Reached = At(p)
      /\ p \in ToolPoints => toolMode
  BY <1>1 DEF StreamInv, ScriptHolds
<1>4. /\ p \in Turns => /\ call.phase \in {"sending", "sleeping"}
                        /\ Announced(At(p)) = Len(ledger) + 1
      /\ p \notin Turns => call = NoCall /\ Announced(At(p)) = Len(ledger)
      /\ call.phase = "sleeping" => call.attempts <= MaxRetries
  BY <1>1, <1>2, <1>3 DEF StreamInv, LedgerHolds
<1>5. toolMode \in BOOLEAN  BY DEF StreamInv, TypeOK
<1>6. /\ local \in Locals /\ call \in Call
      /\ ledger \in Seq(LedgerEntries) /\ doc \in [Recipes -> Contents]
  BY DEF StreamInv, TypeOK
<1> QED  BY <1>1, <1>2, <1>3, <1>4, <1>5, <1>6

\* The outcomes a run ends with by itself.
LEMMA OwnOutcomes ==
  /\ \A r \in Reasons : Error(r) \in Outcomes /\ Error(r).status = "error"
                        /\ Error(r) # Recommended /\ Error(r) # Running
  /\ Insufficient \in Outcomes /\ Insufficient.status = "result"
  /\ Clarified \in Outcomes /\ Clarified.status = "result"
  /\ Recommended \in Outcomes /\ Recommended.status = "result"
  /\ Insufficient # Recommended /\ Clarified # Recommended
  /\ Running.status = "running" /\ Running # Recommended
<1>1. ASSUME NEW r \in Reasons
      PROVE  /\ Error(r) \in Outcomes /\ Error(r).status = "error"
             /\ Error(r) # Recommended /\ Error(r) # Running
  BY DEF Outcomes, Error, Outcome, Recommended, Running
<1>2. /\ Insufficient \in Outcomes /\ Insufficient.status = "result"
      /\ Clarified \in Outcomes /\ Clarified.status = "result"
      /\ Recommended \in Outcomes /\ Recommended.status = "result"
      /\ Insufficient # Recommended /\ Clarified # Recommended
      /\ Running.status = "running" /\ Running # Recommended
  BY DEF Outcomes, Insufficient, Clarified, Recommended, Running, Outcome
<1> QED  BY <1>1, <1>2

\* The run stops at a point, with an outcome other than a recommendation,
\* before it announces another request.
LEMMA Stops ==
  ASSUME StreamInv, NEW p \in Points \ Turns, Runs(p),
         NEW new, NEW o \in Outcomes, o.status # "cancelled", o # Recommended,
         Follow(new), Closes(new, o),
         Announced(Len(emitted) + Len(new)) = Announced(At(p)),
         UNCHANGED <<input, world, call, ledger, cancel, stream>>
  PROVE  StreamInv'
<1>1. /\ task = Running /\ cancel = "none" /\ call = NoCall
      /\ Len(emitted) = At(p) /\ Announced(At(p)) = Len(ledger)
      /\ ledger \in Seq(LedgerEntries)
  BY Waiting
<1>2. /\ call' = NoCall /\ ledger' \in Seq(LedgerEntries)
      /\ Announced(Len(emitted)) = Len(ledger')
      /\ Announced(Len(emitted) + Len(new)) = Len(ledger')
      /\ UNCHANGED <<input, world, cancel, stream>>
  BY <1>1
<1> QED  BY <1>1, <1>2, Finishes

\* It goes on to a point that is no turn, before it announces another.
LEMMA GoesOn ==
  ASSUME StreamInv, NEW p \in Points \ Turns, Runs(p),
         NEW new, NEW next \in Points \ Turns, NEW loc \in Locals,
         Follow(new), Goes(new, next, loc), Len(emitted) + Len(new) = At(next),
         next \in ToolPoints => toolMode,
         Announced(At(next)) = Announced(At(p)),
         UNCHANGED <<input, world, call, ledger, cancel, stream>>,
         ChoiceHolds'
  PROVE  StreamInv'
<1>1. /\ pc \in Points /\ cancel = "none" /\ call = NoCall
      /\ Len(emitted) = At(p) /\ Announced(At(p)) = Len(ledger)
      /\ ledger \in Seq(LedgerEntries)
      /\ call \in Call /\ (call.phase = "sleeping" => call.attempts <= MaxRetries)
  BY Waiting
<1>2. /\ call' = NoCall /\ ledger' \in Seq(LedgerEntries)
      /\ Announced(Len(emitted)) = Len(ledger')
      /\ Announced(At(next)) = Len(ledger')
      /\ call' \in Call /\ (call'.phase = "sleeping" => call'.attempts <= MaxRetries)
      /\ UNCHANGED <<input, world, cancel, stream>>
      /\ next \in Points /\ next \notin Turns
  BY <1>1
<1> QED  BY <1>1, <1>2, Continues

-----------------------------------------------------------------------------
(* The steps of the run without a provider call.                           *)

LEMMA EntryKept ==
  ASSUME StreamInv, EntryRejected \/ Accept, UNCHANGED stream
  PROVE  StreamInv'
<1>1. Runs("entry")  BY DEF EntryRejected, Accept
<1>2. "entry" \in Points \ Turns  BY DEF Points, Turns
<1>3. /\ Len(emitted) = 0 /\ At("entry") = 0 /\ toolMode \in BOOLEAN
      /\ local \in Locals
  BY <1>1, <1>2, Waiting DEF At
<1>4. Len(Script) \in Nat /\ 9 <= Len(Script)  BY <1>3, ScriptTyped
<1>5. /\ Announced(0) = 0 /\ Announced(2) = 0 /\ Announced(3) = 0
      /\ At("epicure") = 2 /\ At("search") = 3
  BY DEF Announced, At
<1>6. Script[1] = "accepted" /\ Script[2] = "readiness" /\ Script[3] = "epicure"
  BY <1>3, ScriptStages
<1>7. /\ Follow(<< >>) /\ Len(emitted) + Len(<< >>) = 0
      /\ Follow(<<"accepted", "readiness">>)
      /\ Len(emitted) + Len(<<"accepted", "readiness">>) = 2
      /\ Follow(<<"accepted", "readiness", "epicure">>)
      /\ Len(emitted) + Len(<<"accepted", "readiness", "epicure">>) = 3
  <2>1. Follow(<< >>) /\ Len(emitted) + Len(<< >>) = 0  BY <1>3, FollowNone
  <2>2. 0 + 2 <= Len(Script) /\ 0 + 3 <= Len(Script)  BY <1>4
  <2>3. /\ Script[0 + 1] = "accepted" /\ Script[0 + 2] = "readiness"
        /\ Script[0 + 3] = "epicure"
    BY <1>6
  <2>4. /\ Follow(<<"accepted", "readiness">>)
        /\ Len(emitted) + Len(<<"accepted", "readiness">>) = 0 + 2
    BY <1>3, <2>2, <2>3, FollowTwo
  <2>5. /\ Follow(<<"accepted", "readiness", "epicure">>)
        /\ Len(emitted) + Len(<<"accepted", "readiness", "epicure">>) = 0 + 3
    BY <1>3, <2>2, <2>3, FollowThree
  <2> QED  BY <2>1, <2>4, <2>5
<1>8. UNCHANGED <<input, world, call, ledger, cancel, stream>>
  BY DEF EntryRejected, Accept
<1>9. CASE \E o \in Outcomes : /\ o.status # "cancelled" /\ o # Recommended
                               /\ \/ Closes(<< >>, o)
                                  \/ Closes(<<"accepted", "readiness">>, o)
  <2>1. PICK o \in Outcomes : /\ o.status # "cancelled" /\ o # Recommended
                              /\ \/ Closes(<< >>, o)
                                 \/ Closes(<<"accepted", "readiness">>, o)
    BY <1>9
  <2> QED  BY <2>1, <1>1, <1>2, <1>3, <1>5, <1>7, <1>8, Stops
<1>10. CASE Goes(<<"accepted", "readiness">>, "epicure", local)
  <2>1. "epicure" \in Points \ Turns /\ "epicure" \notin ToolPoints
    BY DEF Points, Turns, ToolPoints
  <2>2. ChoiceHolds'
    BY <1>10, <1>1, <1>2, OwnOutcomes, Waiting DEF ChoiceHolds, Goes, end
  <2> QED  BY <2>1, <2>2, <1>10, <1>1, <1>2, <1>3, <1>5, <1>7, <1>8, GoesOn
<1>11. CASE Goes(<<"accepted", "readiness", "epicure">>, "search", local)
  <2>1. "search" \in Points \ Turns /\ "search" \notin ToolPoints
    BY DEF Points, Turns, ToolPoints
  <2>2. ChoiceHolds'
    BY <1>11, <1>1, <1>2, OwnOutcomes, Waiting DEF ChoiceHolds, Goes, end
  <2> QED  BY <2>1, <2>2, <1>11, <1>1, <1>2, <1>3, <1>5, <1>7, <1>8, GoesOn
<1>12. CASE EntryRejected
  <2>1. {"generation_disabled", "malformed", "corpus_unavailable",
         "unknown_group", "stale_revision"} \subseteq Reasons
    BY DEF Reasons
  <2> QED  BY <2>1, <1>9, <1>12, OwnOutcomes DEF EntryRejected
<1>13. CASE Accept
  <2>1. Clarified \in Outcomes /\ Clarified.status # "cancelled" /\ Clarified # Recommended
    BY OwnOutcomes
  <2> QED  BY <2>1, <1>9, <1>10, <1>11, <1>13 DEF Accept
<1> QED  BY <1>12, <1>13

LEMMA EpicureKept ==
  ASSUME StreamInv, Epicure, UNCHANGED stream
  PROVE  StreamInv'
<1>1. Runs("epicure")  BY DEF Epicure
<1>2. "epicure" \in Points \ Turns  BY DEF Points, Turns
<1>3. /\ Len(emitted) = 2 /\ At("epicure") = 2 /\ toolMode \in BOOLEAN
      /\ local \in Locals
  BY <1>1, <1>2, Waiting DEF At
<1>4. Len(Script) \in Nat /\ 9 <= Len(Script)  BY <1>3, ScriptTyped
<1>5. Announced(2) = 0 /\ Announced(3) = 0 /\ Announced(4) = 0 /\ At("search") = 3
  BY DEF Announced, At
<1>6. Script[2 + 1] = "epicure" /\ Script[2 + 2] = "retrieval"
  BY <1>3, ScriptStages
<1>7. /\ Follow(<<"epicure">>) /\ Len(emitted) + Len(<<"epicure">>) = 3
      /\ Follow(<<"epicure", "retrieval">>)
      /\ Len(emitted) + Len(<<"epicure", "retrieval">>) = 4
  <2>1. 2 + 1 <= Len(Script) /\ 2 + 2 <= Len(Script)  BY <1>4
  <2>2. Follow(<<"epicure">>) /\ Len(emitted) + Len(<<"epicure">>) = 2 + 1
    BY <1>3, <1>6, <2>1, FollowOne
  <2>3. /\ Follow(<<"epicure", "retrieval">>)
        /\ Len(emitted) + Len(<<"epicure", "retrieval">>) = 2 + 2
    BY <1>3, <1>6, <2>1, FollowTwo
  <2> QED  BY <2>2, <2>3
<1>8. UNCHANGED <<input, world, call, ledger, cancel, stream>>  BY DEF Epicure
<1>9. CASE Goes(<<"epicure">>, "search", local)
  <2>1. "search" \in Points \ Turns /\ "search" \notin ToolPoints
    BY DEF Points, Turns, ToolPoints
  <2>2. ChoiceHolds'
    BY <1>9, <1>1, <1>2, OwnOutcomes, Waiting DEF ChoiceHolds, Goes, end
  <2> QED  BY <2>1, <2>2, <1>9, <1>1, <1>2, <1>3, <1>5, <1>7, <1>8, GoesOn
<1>10. CASE Closes(<<"epicure", "retrieval">>, Insufficient)
  <2>1. Insufficient \in Outcomes /\ Insufficient.status # "cancelled"
        /\ Insufficient # Recommended
    BY OwnOutcomes
  <2> QED  BY <2>1, <1>10, <1>1, <1>2, <1>3, <1>5, <1>7, <1>8, Stops
<1> QED  BY <1>9, <1>10 DEF Epicure

\* The stages from the third on, where a search waits.
LEMMA SearchStages ==
  ASSUME StreamInv, NEW p \in {"search", "fetch"}, Runs(p)
  PROVE  /\ p \in Points \ Turns
         /\ Len(emitted) = 3 /\ At(p) = 3
         /\ Announced(3) = 0 /\ Announced(4) = 0 /\ Announced(5) = 0
         /\ Follow(<< >>) /\ Len(emitted) + Len(<< >>) = 3
         /\ Follow(<<"retrieval">>) /\ Len(emitted) + Len(<<"retrieval">>) = 4
         /\ Follow(<<"retrieval", "evidence">>)
         /\ Len(emitted) + Len(<<"retrieval", "evidence">>) = 5
         /\ Follow(<<"retrieval", "evidence", "provider_request">>)
         /\ Len(emitted) + Len(<<"retrieval", "evidence", "provider_request">>) = 6
<1>1. p \in Points \ Turns  BY DEF Points, Turns
<1>2. Len(emitted) = 3 /\ At(p) = 3 /\ toolMode \in BOOLEAN
  BY <1>1, Waiting DEF At
<1>3. Len(Script) \in Nat /\ 9 <= Len(Script)  BY <1>2, ScriptTyped
<1>4. /\ Script[3 + 1] = "retrieval" /\ Script[3 + 2] = "evidence"
      /\ Script[3 + 3] = "provider_request"
  BY <1>2, ScriptStages
<1>5. 3 + 1 <= Len(Script) /\ 3 + 2 <= Len(Script) /\ 3 + 3 <= Len(Script)  BY <1>3
<1>6. Follow(<< >>) /\ Len(emitted) + Len(<< >>) = 3  BY <1>2, FollowNone
<1>7. Follow(<<"retrieval">>) /\ Len(emitted) + Len(<<"retrieval">>) = 3 + 1
  BY <1>2, <1>4, <1>5, FollowOne
<1>8. /\ Follow(<<"retrieval", "evidence">>)
      /\ Len(emitted) + Len(<<"retrieval", "evidence">>) = 3 + 2
  BY <1>2, <1>4, <1>5, FollowTwo
<1>9. /\ Follow(<<"retrieval", "evidence", "provider_request">>)
      /\ Len(emitted) + Len(<<"retrieval", "evidence", "provider_request">>) = 3 + 3
  BY <1>2, <1>4, <1>5, FollowThree
<1>10. Announced(3) = 0 /\ Announced(4) = 0 /\ Announced(5) = 0  BY DEF Announced
<1> QED  BY <1>1, <1>2, <1>6, <1>7, <1>8, <1>9, <1>10

LEMMA SearchKept ==
  ASSUME StreamInv, Search, UNCHANGED stream
  PROVE  StreamInv'
<1>1. Runs("search")  BY DEF Search
<1>2. local \in Locals /\ "search" \in Points \ Turns
  BY <1>1, Waiting DEF Points, Turns
<1>3. UNCHANGED <<input, world, call, ledger, cancel, stream>>  BY DEF Search
<1>4. CASE Closes(<< >>, Error("corpus_unavailable"))
  <2>1. /\ Error("corpus_unavailable") \in Outcomes
        /\ Error("corpus_unavailable").status # "cancelled"
        /\ Error("corpus_unavailable") # Recommended
    BY OwnOutcomes DEF Reasons
  <2> QED  BY <2>1, <1>1, <1>3, <1>4, SearchStages, Stops
<1>5. CASE Closes(<<"retrieval">>, Insufficient)
  <2>1. Insufficient \in Outcomes /\ Insufficient.status # "cancelled"
        /\ Insufficient # Recommended
    BY OwnOutcomes
  <2> QED  BY <2>1, <1>1, <1>3, <1>5, SearchStages, Stops
<1>6. ASSUME NEW rows \in (SUBSET Recipes) \ {{}},
             Goes(<< >>, "fetch", [local EXCEPT !.rows = rows])
      PROVE  StreamInv'
  <2>1. [local EXCEPT !.rows = rows] \in Locals  BY <1>2 DEF Locals
  <2>2. /\ "fetch" \in Points \ Turns /\ "fetch" \notin ToolPoints
        /\ At("fetch") = 3 /\ At("search") = 3
    BY DEF Points, Turns, ToolPoints, At
  <2>3. ChoiceHolds'
    <3>1. rows # {} /\ [local EXCEPT !.rows = rows].rows = rows  BY <1>2 DEF Locals
    <3>2. pc' = "fetch" /\ local' = [local EXCEPT !.rows = rows] /\ ending' = Running
      BY <1>1, <1>2, <1>6, Waiting DEF Goes, end
    <3> QED  BY <3>1, <3>2, OwnOutcomes DEF ChoiceHolds
  <2> QED  BY <2>1, <2>2, <2>3, <1>1, <1>2, <1>3, <1>6, SearchStages, GoesOn
<1> QED  BY <1>4, <1>5, <1>6 DEF Search

LEMMA AssessKept ==
  ASSUME StreamInv, Runs("fetch"), NEW ev \in [Recipes -> Contents], Assess(ev),
         UNCHANGED <<input, world, ledger, cancel, stream>>
  PROVE  StreamInv'
<1>1. /\ local \in Locals /\ pc \in Points /\ cancel = "none"
      /\ ledger \in Seq(LedgerEntries) /\ call = NoCall /\ ending = Running
      /\ "fetch" \in Points \ Turns
      /\ Announced(3) = Len(ledger)
  <2>1. "fetch" \in Points \ Turns  BY DEF Points, Turns
  <2> QED  BY <2>1, Waiting, SearchStages
<1>2. ASSUME NEW o \in Outcomes, o.status # "cancelled", o # Recommended,
             UNCHANGED call,
             Closes(<<"retrieval">>, o) \/ Closes(<<"retrieval", "evidence">>, o)
      PROVE  StreamInv'
  <2>1. UNCHANGED <<input, world, call, ledger, cancel, stream>>  BY <1>2
  <2> QED  BY <2>1, <1>1, <1>2, SearchStages, Stops
<1>3. Insufficient \in Outcomes /\ Insufficient.status # "cancelled"
      /\ Insufficient # Recommended
  BY OwnOutcomes
<1>4. CASE Retrieved(ev) = {} /\ Closes(<<"retrieval">>, Insufficient) /\ UNCHANGED call
  BY <1>2, <1>3, <1>4
<1>5. CASE /\ Retrieved(ev) # {}
           /\ Closes(<<"retrieval", "evidence">>, Insufficient) /\ UNCHANGED call
  BY <1>2, <1>3, <1>5
<1>6. CASE ToolModeRefused(Recommendable(ev) \cap Eligible(ev)) /\ UNCHANGED call
  <2>1. PICK reason \in {"turn_limit", "budget_exceeded"} :
          Closes(<<"retrieval", "evidence">>, Error(reason))
    BY <1>6 DEF ToolModeRefused
  <2>2. reason \in Reasons  BY DEF Reasons
  <2> QED  BY <2>1, <2>2, <1>2, <1>6, OwnOutcomes
<1>7. ASSUME NEW kept \in FitSerialized(Recommendable(ev) \cap Eligible(ev)) \ {{}},
             Goes(<<"retrieval", "evidence", "provider_request">>, "turn1",
                  [local EXCEPT !.rows = {}, !.evid = ev, !.kept = kept]),
             call' = NewCall
      PROVE  StreamInv'
  <2> DEFINE loc == [local EXCEPT !.rows = {}, !.evid = ev, !.kept = kept]
             new == <<"retrieval", "evidence", "provider_request">>
  <2>1. kept \subseteq Recommendable(ev) /\ kept \subseteq Recipes
    BY DEF FitSerialized, Recommendable
  <2>2. loc \in Locals /\ loc.kept = kept /\ loc.evid = ev
    BY <2>1, <1>1 DEF Locals
  <2>3. /\ "turn1" \in Points /\ "turn1" \in Turns /\ "turn1" \notin ToolPoints
        /\ At("turn1") = 6 /\ Announced(6) = 1
    BY DEF Points, Turns, ToolPoints, At, Announced
  <2>4. /\ pc' = "turn1" /\ local' = loc /\ ending' = Running
        /\ Goes(new, "turn1", loc)
    BY <1>1, <1>7 DEF Goes, end
  <2>5. ChoiceHolds'
    BY <2>1, <2>2, <2>4, OwnOutcomes DEF ChoiceHolds, Recommendable
  <2>6. Follow(new) /\ Len(emitted) + Len(new) = At("turn1") /\ Len(emitted) = 3
    BY <2>3, SearchStages
  <2>7. /\ call' \in Call /\ call'.phase = "sending"
        /\ ledger' \in Seq(LedgerEntries) /\ UNCHANGED <<input, world, cancel, stream>>
    BY <1>1, <1>7, NoCallTyped DEF NewCall
  <2>8. /\ Announced(Len(emitted)) = Len(ledger')
        /\ Announced(At("turn1")) = Len(ledger') + 1
    <3>1. Announced(3) = 0  BY DEF Announced
    <3> QED  BY <3>1, <2>3, <2>6, <1>1
  <2> HIDE DEF loc, new
  <2> QED  BY <2>2, <2>3, <2>4, <2>5, <2>6, <2>7, <2>8, <1>1, Continues
<1> QED  BY <1>4, <1>5, <1>6, <1>7 DEF Assess

LEMMA FetchKept ==
  ASSUME StreamInv, Fetch, UNCHANGED stream
  PROVE  StreamInv'
<1> DEFINE r == CHOOSE x \in local.rows : TRUE
           rows == local.rows \ {r}
<1>1. Runs("fetch")  BY DEF Fetch
<1>2. /\ "fetch" \in Points \ Turns /\ "fetch" \notin ToolPoints
      /\ At("fetch") = 3
  BY DEF Points, Turns, ToolPoints, At
<1>3. local \in Locals /\ ending = Running /\ doc \in [Recipes -> Contents]
  BY <1>1, <1>2, Waiting
<1>4. PICK reached \in BOOLEAN :
        LET ev == [local.evid EXCEPT ![r] = IF reached THEN doc[r] ELSE "none"]
        IN IF rows = {} THEN Assess(ev)
           ELSE /\ Goes(<< >>, "fetch", [local EXCEPT !.rows = rows, !.evid = ev])
                /\ UNCHANGED call
  BY DEF Fetch
<1> DEFINE ev == [local.evid EXCEPT ![r] = IF reached THEN doc[r] ELSE "none"]
           loc == [local EXCEPT !.rows = rows, !.evid = ev]
<1>5. ev \in [Recipes -> Contents]
  <2>1. r \in Recipes
    <3>1. pc = "fetch"  BY <1>1 DEF Runs
    <3>2. local.rows # {} /\ local.rows \subseteq Recipes
      BY <3>1, <1>3 DEF StreamInv, ChoiceHolds, Locals
    <3> QED  BY <3>2
  <2>2. local.evid \in [Recipes -> Contents]  BY <1>3 DEF Locals
  <2>3. doc[r] \in Contents /\ "none" \in Contents  BY <2>1, <1>3 DEF Contents
  <2> QED  BY <2>2, <2>3
<1>6. UNCHANGED <<input, world, ledger, cancel, stream>>  BY DEF Fetch
<1>7. CASE rows = {}
  <2>1. Assess(ev)  BY <1>4, <1>7
  <2> HIDE DEF ev
  <2> QED  BY <2>1, <1>1, <1>5, <1>6, AssessKept
<1>8. CASE rows # {}
  <2>1. Goes(<< >>, "fetch", loc) /\ UNCHANGED call  BY <1>4, <1>8
  <2>2. loc \in Locals /\ loc.rows = rows
    <3> HIDE DEF ev
    <3>1. rows \subseteq Recipes  BY <1>3 DEF Locals
    <3> HIDE DEF rows
    <3> QED  BY <3>1, <1>3, <1>5 DEF Locals
  <2> HIDE DEF loc, rows, ev, r
  <2>3. ChoiceHolds'
    BY <2>1, <2>2, <1>3, <1>8, OwnOutcomes DEF ChoiceHolds, Goes, end
  <2>4. Follow(<< >>) /\ Len(emitted) + Len(<< >>) = At("fetch")
    BY <1>1, <1>2, SearchStages
  <2>5. UNCHANGED <<input, world, call, ledger, cancel, stream>>  BY <2>1, <1>6
  <2> QED  BY <2>1, <2>2, <2>3, <2>4, <2>5, <1>1, <1>2, GoesOn
<1> QED  BY <1>7, <1>8

\* A slot of the queue became free.
LEMMA PutKept ==
  ASSUME StreamInv, Put, UNCHANGED stream
  PROVE  StreamInv'
<1>1. /\ pending # << >> /\ cancel = "none"
      /\ UNCHANGED <<input, world, call, ledger, cancel, stream>>
  BY DEF Put
<1>2. /\ pending \in Seq(StageNames) /\ emitted \in Seq(StageNames)
      /\ pc \in Points \cup {"done"} /\ local \in Locals /\ call \in Call
      /\ ledger \in Seq(LedgerEntries)
      /\ ending \in Outcomes \cup {Running}
  BY DEF StreamInv, TypeOK, Points
<1>3. task = Running  BY <1>1 DEF StreamInv, ScriptHolds
<1>4. Follow(pending) /\ Reached = Len(emitted) + Len(pending)
  BY <1>2 DEF StreamInv, ScriptHolds, Follow, Reached
<1>5. /\ pc \in Turns => /\ call.phase \in {"sending", "sleeping"}
                          /\ Announced(Reached) = Len(ledger) + 1
                          /\ Announced(Len(emitted)) = Len(ledger)
      /\ pc \notin Turns => /\ call = NoCall
                             /\ Announced(Reached) = Len(ledger)
                             /\ Announced(Len(emitted)) = Len(ledger)
      /\ call.phase = "sleeping" => call.attempts <= MaxRetries
  BY <1>1 DEF StreamInv, LedgerHolds
<1>6. CASE ending = Running
  <2>1. Goes(pending, pc, local)  BY <1>6 DEF Put
  <2>2. pc \in Points  BY <1>2, <1>3, <1>1, <1>6 DEF StreamInv, ScriptHolds
  <2>3. /\ Reached = At(pc) /\ (pc \in ToolPoints => toolMode)
    BY <2>2 DEF StreamInv, ScriptHolds
  <2>4. ChoiceHolds'
    BY <2>1, <1>1, <1>3 DEF StreamInv, ChoiceHolds, Goes, end, input, Recommendable
  <2>5. /\ call' \in Call /\ ledger' \in Seq(LedgerEntries)
        /\ (call'.phase = "sleeping" => call'.attempts <= MaxRetries)
        /\ Announced(Len(emitted)) = Len(ledger')
        /\ UNCHANGED <<input, world, cancel, stream>>
        /\ Len(emitted) + Len(pending) = At(pc)
    BY <1>1, <1>2, <1>4, <1>5, <2>3
  <2>6. IF pc \in Turns
        THEN /\ call'.phase \in {"sending", "sleeping"}
             /\ Announced(At(pc)) = Len(ledger') + 1
        ELSE call' = NoCall /\ Announced(At(pc)) = Len(ledger')
    BY <1>1, <1>5, <2>3
  <2> QED  BY <2>1, <2>2, <2>3, <2>4, <2>5, <2>6, <1>1, <1>2, <1>4, Continues
<1>7. CASE ending # Running
  <2>1. Closes(pending, ending)  BY <1>7 DEF Put
  <2>2. ending \in Outcomes /\ ending.status # "cancelled" /\ pc = "done"
    BY <1>2, <1>7 DEF StreamInv, ScriptHolds
  <2>3. /\ call' = NoCall /\ ledger' \in Seq(LedgerEntries)
        /\ Announced(Len(emitted)) = Len(ledger')
        /\ Announced(Len(emitted) + Len(pending)) = Len(ledger')
        /\ UNCHANGED <<input, world, cancel, stream>>
    BY <2>2, <1>1, <1>2, <1>4, <1>5 DEF Turns
  <2>4. ending = Recommended =>
          /\ local.pick \in local.kept
          /\ local.evid[local.pick] \in {"good", "good2"}
          /\ Len(ledger') = IF toolMode THEN 2 ELSE 1
    BY <1>1, <1>3 DEF StreamInv, ChoiceHolds
  <2> QED  BY <2>1, <2>2, <2>3, <2>4, <1>1, <1>3, <1>4, Finishes
<1> QED  BY <1>6, <1>7

-----------------------------------------------------------------------------
(* Provider calls.                                                         *)

LEMMA MappedErrors ==
  ASSUME NEW e \in SdkErrors
  PROVE  MapSdkError(e) \in ProviderErrors \cup {"unmapped"}
  BY DEF SdkErrors, MapSdkError, ProviderErrors

LEMMA ServedTyped ==
  ASSUME NEW e \in SdkErrors
  PROVE  ServedBy(e) \subseteq BOOLEAN
<1>1. CASE e \in {"length", "content_filter", "invalid_response"}
  <2>1. ServedBy(e) = {TRUE}  BY <1>1 DEF ServedBy
  <2> QED  BY <2>1
<1>2. CASE e \in {"timeout", "connection", "server"}
  <2>1. ServedBy(e) = BOOLEAN  BY <1>2 DEF ServedBy
  <2> QED  BY <2>1
<1>3. CASE e \notin {"length", "content_filter", "invalid_response"}
           /\ e \notin {"timeout", "connection", "server"}
  <2>1. ServedBy(e) = {FALSE}  BY <1>3 DEF ServedBy
  <2> QED  BY <2>1
<1> QED  BY <1>1, <1>2, <1>3

LEMMA AttemptFailedTyped ==
  ASSUME NEW c \in Call, NEW e \in SdkErrors, NEW served \in BOOLEAN
  PROVE  LET f == AttemptFailed(c, e, served)
         IN /\ f \in Call /\ f.error \in ProviderErrors
            /\ f.phase # "failed" => f.phase = "sleeping" /\ f.attempts <= MaxRetries
<1> DEFINE error == MapSdkError(e)
           again == Retryable(error) /\ RetriesLeft(c)
           f == AttemptFailed(c, e, served)
           final == IF error = "unmapped" THEN SplitFallback(e) ELSE error
           either == c.served \/ served
           sent == SentByShape(e)
           usage == e = "length"
<1>1. f = [ phase |-> IF again THEN "sleeping" ELSE "failed",
            attempts |-> c.attempts, served |-> either,
            error |-> final, sent |-> sent, usage |-> usage ]
  BY DEF AttemptFailed
<1>2. final \in ProviderErrors
  <2>1. error \in ProviderErrors \cup {"unmapped"}  BY MappedErrors
  <2>2. SplitFallback(e) \in ProviderErrors  BY DEF SplitFallback, ProviderErrors
  <2> QED  BY <2>1, <2>2
<1>3. either \in BOOLEAN /\ sent \in BOOLEAN /\ usage \in BOOLEAN
  BY DEF SentByShape
<1>4. c.attempts \in 0 .. MaxRetries + 1  BY DEF Call
<1>5. again => c.attempts <= MaxRetries  BY DEF RetriesLeft
<1>6. again \in BOOLEAN  BY DEF Retryable, RetriesLeft
<1> HIDE DEF error, again, f, final, either, sent, usage
<1>7. f \in Call  BY <1>1, <1>2, <1>3, <1>4 DEF Call
<1>8. /\ f.error = final /\ f.attempts = c.attempts
      /\ f.phase = IF again THEN "sleeping" ELSE "failed"
  BY <1>1
<1>9. f.phase # "failed" => f.phase = "sleeping" /\ f.attempts <= MaxRetries
  BY <1>5, <1>8
<1>10. f \in Call /\ f.error \in ProviderErrors
       /\ (f.phase # "failed" => f.phase = "sleeping" /\ f.attempts <= MaxRetries)
  BY <1>2, <1>7, <1>8, <1>9
<1> QED  BY <1>10 DEF f

LEMMA AnsweredTyped ==
  ASSUME NEW c \in Call, NEW r \in Responses, NEW counted \in BOOLEAN
  PROVE  LET f == Answered(c, r, counted)
         IN /\ f \in Call
            /\ f.phase = "failed" => f.error \in ProviderErrors
<1> DEFINE error == ResponseError(r)
           usage == counted /\ r # "broken"
           phase == IF error = "none" THEN "completed" ELSE "failed"
           f == Answered(c, r, counted)
<1>1. f = [c EXCEPT !.phase = phase, !.served = TRUE, !.error = error,
                    !.sent = TRUE, !.usage = usage]
  BY DEF Answered
<1>2. error \in ProviderErrors \cup {"none"}  BY DEF ResponseError, Responses, ProviderErrors
<1>3. usage \in BOOLEAN  OBVIOUS
<1>4. phase \in {"completed", "failed"} /\ (phase = "failed" => error # "none")
  OBVIOUS
<1> HIDE DEF error, usage, phase, f
<1>5. f \in Call  BY <1>1, <1>2, <1>3, <1>4 DEF Call
<1>6. f.phase = phase /\ f.error = error  BY <1>1 DEF Call
<1>7. f \in Call /\ (f.phase = "failed" => f.error \in ProviderErrors)
  BY <1>2, <1>4, <1>5, <1>6
<1> QED  BY <1>7 DEF f

LEMMA EntryTyped ==
  ASSUME NEW status \in {"failed", "completed", "cancelled"}, NEW c \in Call,
         NEW sent \in {"yes", "no", "unknown"}
  PROVE  Entry(status, c, sent) \in LedgerEntries
  BY DEF Entry, LedgerEntries, Call

LEMMA ReasonsOfErrors ==
  ASSUME NEW error \in ProviderErrors
  PROVE  ReasonOf(error) \in Reasons
  BY DEF ProviderErrors, ReasonOf, Reasons

LEMMA Appended ==
  ASSUME NEW S, NEW s \in Seq(S), NEW x \in S
  PROVE  Append(s, x) \in Seq(S) /\ Len(Append(s, x)) = Len(s) + 1
OBVIOUS

LEMMA CallFailedKept ==
  ASSUME StreamInv, NEW turn \in Turns, Runs(turn),
         NEW c \in Call, c.error \in ProviderErrors, CallFailed(c),
         UNCHANGED <<input, world, cancel, stream>>
  PROVE  StreamInv'
<1> DEFINE o == Error(ReasonOf(c.error))
<1>1. turn \in Points  BY DEF Turns, Points
<1>2. /\ task = Running /\ cancel = "none" /\ Len(emitted) = At(turn)
      /\ ledger \in Seq(LedgerEntries) /\ Announced(At(turn)) = Len(ledger) + 1
  BY <1>1, Waiting
<1>3. call' = NoCall /\ ledger' = Append(ledger, FailedEntry(c)) /\ Closes(<< >>, o)
  BY DEF CallFailed
<1>4. FailedEntry(c) \in LedgerEntries
  <2>1. SentFlag(c) \in {"yes", "no", "unknown"}  BY DEF SentFlag
  <2> QED  BY <2>1, EntryTyped DEF FailedEntry
<1>5. ledger' \in Seq(LedgerEntries) /\ Len(ledger') = Len(ledger) + 1
  BY <1>2, <1>3, <1>4, Appended
<1>6. o \in Outcomes /\ o.status # "cancelled" /\ o # Recommended
  BY ReasonsOfErrors, OwnOutcomes
<1>7. Follow(<< >>) /\ Len(emitted) + Len(<< >>) = Len(emitted)  BY FollowNone
<1>8. /\ Announced(Len(emitted)) = Len(ledger')
      /\ Announced(Len(emitted) + Len(<< >>)) = Len(ledger')
  BY <1>2, <1>5, <1>7
<1> HIDE DEF o
<1> QED  BY <1>2, <1>3, <1>5, <1>6, <1>7, <1>8, Finishes

\* The run stays in its turn with the call in another state.
LEMMA CallGoesOn ==
  ASSUME StreamInv, NEW turn \in Turns, Runs(turn), Goes(<< >>, pc, local),
         call' \in Call, call'.phase \in {"sending", "sleeping"},
         call'.phase = "sleeping" => call'.attempts <= MaxRetries,
         UNCHANGED <<input, world, ledger, cancel, stream>>
  PROVE  StreamInv'
<1>1. turn \in Points  BY DEF Turns, Points
<1>2. /\ pc = turn /\ cancel = "none" /\ Len(emitted) = At(turn)
      /\ local \in Locals /\ ending = Running
      /\ ledger \in Seq(LedgerEntries) /\ Announced(At(turn)) = Len(ledger) + 1
      /\ turn \in ToolPoints => toolMode
  BY <1>1, Waiting
<1>3. Follow(<< >>) /\ Len(emitted) + Len(<< >>) = Len(emitted)  BY FollowNone
<1>4. ChoiceHolds'
  <2>1. pc' = pc /\ local' = local /\ ending' = Running /\ toolMode' = toolMode
    BY <1>2 DEF Goes, end, input
  <2> QED
    BY <2>1, <1>2, OwnOutcomes DEF StreamInv, ChoiceHolds, Turns, Recommendable
<1>5. /\ Goes(<< >>, turn, local) /\ ledger' \in Seq(LedgerEntries)
      /\ Len(emitted) + Len(<< >>) = At(turn)
      /\ Announced(At(turn)) = Len(ledger') + 1
      /\ UNCHANGED <<input, world, cancel, stream>> /\ pc \in Points
  BY <1>1, <1>2, <1>3
<1> QED  BY <1>1, <1>2, <1>3, <1>4, <1>5, Continues

LEMMA AttemptFailsKept ==
  ASSUME StreamInv, AttemptFails, UNCHANGED stream
  PROVE  StreamInv'
<1>1. PICK turn \in Turns : Runs(turn)  BY DEF AttemptFails
<1>2. call \in Call  BY DEF StreamInv, TypeOK
<1>02. PICK e \in Failures : \E served \in ServedBy(e) :
        LET c == AttemptFailed(call, e, served)
        IN IF c.phase = "failed" THEN CallFailed(c)
           ELSE call' = c /\ Goes(<< >>, pc, local) /\ UNCHANGED ledger
  BY DEF AttemptFails
<1>3. PICK served \in ServedBy(e) :
        LET c == AttemptFailed(call, e, served)
        IN IF c.phase = "failed" THEN CallFailed(c)
           ELSE call' = c /\ Goes(<< >>, pc, local) /\ UNCHANGED ledger
  BY <1>02
<1>4. e \in SdkErrors  BY RecommendationsAssumption
<1>5. served \in BOOLEAN  BY <1>4, ServedTyped
<1> DEFINE c == AttemptFailed(call, e, served)
<1>6. /\ c \in Call /\ c.error \in ProviderErrors
      /\ c.phase # "failed" => c.phase = "sleeping" /\ c.attempts <= MaxRetries
  BY <1>2, <1>4, <1>5, AttemptFailedTyped
<1>7. IF c.phase = "failed" THEN CallFailed(c)
      ELSE call' = c /\ Goes(<< >>, pc, local) /\ UNCHANGED ledger
  BY <1>3
<1> HIDE DEF c
<1>8. UNCHANGED <<input, world, cancel, stream>>  BY DEF AttemptFails
<1>9. CASE c.phase = "failed"  BY <1>1, <1>6, <1>7, <1>8, <1>9, CallFailedKept
<1>10. CASE c.phase # "failed"
  <2>1. /\ call' \in Call /\ call'.phase \in {"sending", "sleeping"}
        /\ (call'.phase = "sleeping" => call'.attempts <= MaxRetries)
        /\ Goes(<< >>, pc, local)
        /\ UNCHANGED <<input, world, ledger, cancel, stream>>
    BY <1>6, <1>7, <1>8, <1>10
  <2> QED  BY <2>1, <1>1, CallGoesOn
<1> QED  BY <1>9, <1>10

LEMMA RetryKept ==
  ASSUME StreamInv, Retry, UNCHANGED stream
  PROVE  StreamInv'
<1>1. PICK turn \in Turns : Runs(turn)  BY DEF Retry
<1>2. /\ call.phase = "sleeping" /\ call' = Retried(call)
      /\ UNCHANGED <<input, world, pc, local, ledger, cancel, stages, end>>
  BY DEF Retry
<1>3. call \in Call /\ call.attempts <= MaxRetries
  BY <1>2 DEF StreamInv, TypeOK, LedgerHolds
<1>4. call' \in Call /\ call'.phase = "sending"
  <2>1. call.attempts + 1 \in 0 .. MaxRetries + 1
    BY <1>3, RetriesAssumption DEF Call
  <2> DEFINE n == call.attempts + 1
  <2>2. call' = [call EXCEPT !.phase = "sending", !.attempts = n]
    BY <1>2 DEF Retried
  <2> HIDE DEF n
  <2>3. n \in 0 .. MaxRetries + 1  BY <2>1 DEF n
  <2> QED  BY <2>2, <2>3, <1>3 DEF Call
<1>5. Goes(<< >>, pc, local)
  <2>1. /\ queue' = queue /\ emitted' = emitted /\ pending' = pending
        /\ pc' = pc /\ local' = local /\ UNCHANGED end
    BY <1>2 DEF stages
  <2>2. pending = << >>  BY <1>1 DEF Runs
  <2>3. /\ queue \in Seq(StageNames) /\ emitted \in Seq(StageNames)
        /\ Len(queue) <= limit /\ limit \in Nat /\ Len(queue) \in Nat
    BY RecommendationsAssumption DEF StreamInv, TypeOK
  <2>4. queue \o << >> = queue /\ emitted \o << >> = emitted
    BY <2>3, ConcatEmptySeq
  <2>5. SubSeq(<< >>, 1, 0) = << >> /\ Len(<< >>) = 0  OBVIOUS
  <2>6. Emits(<< >>)
    <3> DEFINE room == limit - Len(queue)
               none == << >>
               n == IF Len(none) < room THEN Len(none) ELSE room
    <3>1. n = 0 /\ n + 1 = 1  BY <2>3, <2>5
    <3>2. Emits(none) <=> /\ queue' = queue \o SubSeq(none, 1, n)
                          /\ emitted' = emitted \o SubSeq(none, 1, n)
                          /\ pending' = SubSeq(none, n + 1, Len(none))
      BY DEF Emits
    <3>3. Len(none) = 0 /\ SubSeq(none, 1, 0) = none  BY <2>5
    <3> HIDE DEF n
    <3> QED  BY <3>1, <3>2, <3>3, <2>1, <2>2, <2>4
  <2> QED  BY <2>1, <2>6 DEF Goes
<1>6. UNCHANGED <<input, world, ledger, cancel, stream>>  BY <1>2
<1> QED  BY <1>1, <1>4, <1>5, <1>6, CallGoesOn

LEMMA CallRefusedKept ==
  ASSUME StreamInv, CallRefused, UNCHANGED stream
  PROVE  StreamInv'
<1>1. PICK turn \in Turns : Runs(turn)  BY DEF CallRefused
<1>2. call = NewCall /\ CallFailed(Refused(call))
      /\ UNCHANGED <<input, world, cancel, stream>>
  BY DEF CallRefused
<1>3. call \in Call  BY DEF StreamInv, TypeOK
<1>4. Refused(call) \in Call /\ Refused(call).error = "Internal"
  <2>1. 0 \in 0 .. MaxRetries + 1 /\ "Internal" \in ProviderErrors
    BY RetriesAssumption DEF ProviderErrors
  <2> QED  BY <2>1, <1>3 DEF Refused, Call
<1>5. Refused(call).error \in ProviderErrors  BY <1>4 DEF ProviderErrors
<1> QED  BY <1>1, <1>2, <1>4, <1>5, CallFailedKept

LEMMA AnswerKept ==
  ASSUME StreamInv, Answer, UNCHANGED stream
  PROVE  StreamInv'
<1>1. PICK turn \in Turns : Runs(turn)  BY DEF Answer
<1>2. PICK r \in { x \in Responses : Possible(x) }, counted \in BOOLEAN :
        LET c == Answered(call, r, counted)
        IN IF c.phase = "failed" THEN CallFailed(c)
           ELSE /\ call' = NoCall
                /\ ledger' = Append(ledger, CompletedEntry(c))
                /\ Goes(<<"provider_turn">>, NextPc(r), local)
  BY DEF Answer
<1> DEFINE c == Answered(call, r, counted)
           new == <<"provider_turn">>
           next == NextPc(r)
<1>3. turn \in Points  BY DEF Turns, Points
<1>4. /\ pc = turn /\ cancel = "none" /\ ending = Running
      /\ Len(emitted) = At(turn) /\ toolMode \in BOOLEAN
      /\ local \in Locals /\ call \in Call
      /\ ledger \in Seq(LedgerEntries) /\ Announced(At(turn)) = Len(ledger) + 1
      /\ turn \in ToolPoints => toolMode
  BY <1>1, <1>3, Waiting
<1>5. c \in Call /\ (c.phase = "failed" => c.error \in ProviderErrors)
  BY <1>4, AnsweredTyped
<1>6. IF c.phase = "failed" THEN CallFailed(c)
      ELSE /\ call' = NoCall
           /\ ledger' = Append(ledger, CompletedEntry(c))
           /\ Goes(new, next, local)
  BY <1>2
<1>7. UNCHANGED <<input, world, cancel, stream>>  BY DEF Answer
<1> HIDE DEF c
<1>8. CASE c.phase = "failed"  BY <1>1, <1>5, <1>6, <1>7, <1>8, CallFailedKept
<1>9. CASE c.phase # "failed"
  <2>1. CompletedEntry(c) \in LedgerEntries  BY <1>5, EntryTyped DEF CompletedEntry
  <2>2. ledger' \in Seq(LedgerEntries) /\ Len(ledger') = Len(ledger) + 1
    BY <2>1, <1>4, <1>6, <1>9, Appended
  <2>3. /\ next \in Points /\ next \notin Turns
        /\ (next \in ToolPoints => toolMode)
        /\ next \in {"dispatch", "repeated", "validate"}
        /\ At(next) = At(turn) + 1 /\ Announced(At(next)) = Announced(At(turn))
        /\ At(turn) \in {6, 8} /\ (At(turn) = 8 => toolMode)
        /\ (next = "dispatch" <=> pc = "turn1" /\ toolMode)
    <3>1. CASE turn = "turn1" /\ toolMode
      <4>1. next = "dispatch"  BY <3>1, <1>4 DEF NextPc
      <4>2. At(next) = 7 /\ At(turn) = 6  BY <3>1, <4>1 DEF At
      <4> HIDE DEF next
      <4> QED
        BY <4>1, <4>2, <3>1, <1>4 DEF Points, Turns, ToolPoints, Announced
    <3>2. CASE turn = "turn1" /\ ~toolMode
      <4>1. r # "calls"  BY <3>2, <1>2 DEF Possible
      <4>2. next = "validate"  BY <4>1, <3>2, <1>4 DEF NextPc
      <4>3. At(next) = 7 /\ At(turn) = 6  BY <3>2, <4>2 DEF At
      <4> HIDE DEF next
      <4> QED
        BY <4>2, <4>3, <3>2, <1>4 DEF Points, Turns, ToolPoints, Announced
    <3>3. CASE turn = "turn2"
      <4>1. toolMode  BY <3>3, <1>4 DEF ToolPoints
      <4>2. next \in {"repeated", "validate"}  BY <3>3, <1>4 DEF NextPc
      <4>3. At(next) = 9 /\ At(turn) = 8  BY <3>3, <4>1, <4>2 DEF At
      <4> HIDE DEF next
      <4> QED
        BY <4>1, <4>2, <4>3, <3>3, <1>4 DEF Points, Turns, ToolPoints, Announced
    <3> QED  BY <3>1, <3>2, <3>3, <1>4 DEF Turns
  <2>4. Follow(new) /\ Len(emitted) + Len(new) = At(next)
    <3>1. Script[7] = "provider_turn" /\ (toolMode => Script[9] = "provider_turn")
      BY <1>4, ScriptStages
    <3>2. Len(Script) = (IF toolMode THEN 11 ELSE 9)  BY <1>4, ScriptTyped
    <3>3. CASE At(turn) = 6
      <4>1. Len(emitted) = 6 /\ 6 + 1 <= Len(Script) /\ Script[6 + 1] = "provider_turn"
        BY <3>1, <3>2, <3>3, <1>4
      <4>2. Follow(new) /\ Len(emitted) + Len(new) = 6 + 1  BY <4>1, FollowOne
      <4> QED  BY <4>2, <3>3, <2>3
    <3>4. CASE At(turn) = 8
      <4>1. Len(emitted) = 8 /\ 8 + 1 <= Len(Script) /\ Script[8 + 1] = "provider_turn"
        BY <3>1, <3>2, <3>4, <2>3, <1>4
      <4>2. Follow(new) /\ Len(emitted) + Len(new) = 8 + 1  BY <4>1, FollowOne
      <4> QED  BY <4>2, <3>4, <2>3
    <3> QED  BY <3>3, <3>4, <2>3
  <2> HIDE DEF new, next
  <2>5. ChoiceHolds'
    <3>1. pc' = next /\ local' = local /\ ending' = Running /\ toolMode' = toolMode
      BY <1>4, <1>6, <1>7, <1>9 DEF Goes, end, input
    <3>2. local.kept \subseteq Recommendable(local.evid)
      BY <1>4 DEF StreamInv, ChoiceHolds, Turns
    <3>3. (next = "validate" /\ toolMode) => local.pick \in local.kept
      BY <1>4, <2>3 DEF StreamInv, ChoiceHolds, Turns
    <3> QED
      BY <3>1, <3>2, <3>3, <2>3, OwnOutcomes DEF ChoiceHolds, Recommendable
  <2>6. /\ call' = NoCall /\ Goes(new, next, local)
        /\ call' \in Call /\ (call'.phase = "sleeping" => call'.attempts <= MaxRetries)
    BY <1>6, <1>9, NoCallTyped DEF NoCall, NewCall
  <2>7. /\ Announced(Len(emitted)) = Len(ledger')
        /\ Announced(At(next)) = Len(ledger')
    BY <2>2, <2>3, <1>4
  <2> QED  BY <2>2, <2>3, <2>4, <2>5, <2>6, <2>7, <1>3, <1>4, <1>7, Continues
<1> QED  BY <1>8, <1>9

-----------------------------------------------------------------------------
(* Tool mode between its turns, the selection, the publication.            *)

\* The run fails where it waits, without another stage.
LEMMA FailsThere ==
  ASSUME StreamInv, NEW p \in Points \ Turns, Runs(p),
         NEW reason \in Reasons, Closes(<< >>, Error(reason)),
         UNCHANGED <<input, world, call, ledger, cancel, stream>>
  PROVE  StreamInv'
<1>1. /\ Error(reason) \in Outcomes /\ Error(reason).status # "cancelled"
      /\ Error(reason) # Recommended
  BY OwnOutcomes
<1>2. Follow(<< >>) /\ Len(emitted) + Len(<< >>) = Len(emitted)  BY FollowNone
<1>3. Len(emitted) = At(p)  BY Waiting
<1>4. Announced(Len(emitted) + Len(<< >>)) = Announced(At(p))  BY <1>2, <1>3
<1> QED  BY <1>1, <1>2, <1>4, Stops

LEMMA DispatchKept ==
  ASSUME StreamInv, Dispatch, UNCHANGED stream
  PROVE  StreamInv'
<1>1. Runs("dispatch") /\ UNCHANGED <<input, world, call, ledger, cancel, stream>>
  BY DEF Dispatch
<1>2. "dispatch" \in Points \ Turns /\ "dispatch" \in ToolPoints
  BY DEF Points, Turns, ToolPoints
<1>3. ASSUME NEW reason \in {"invalid_tool", "validation_rejected"},
             Closes(<< >>, Error(reason))
      PROVE  StreamInv'
  <2>1. reason \in Reasons  BY DEF Reasons
  <2> QED  BY <2>1, <1>1, <1>2, <1>3, FailsThere
<1>4. ASSUME NEW r \in local.kept, Goes(<< >>, "refetch", [local EXCEPT !.pick = r])
      PROVE  StreamInv'
  <2> DEFINE loc == [local EXCEPT !.pick = r]
  <2>1. /\ local \in Locals /\ ending = Running /\ toolMode
        /\ Len(emitted) = At("dispatch") /\ pc = "dispatch"
    BY <1>1, <1>2, Waiting
  <2>2. loc \in Locals /\ loc.pick = r /\ loc.kept = local.kept /\ loc.evid = local.evid
    BY <2>1 DEF Locals
  <2>3. /\ "refetch" \in Points \ Turns
        /\ At("dispatch") = 7 /\ At("refetch") = 7
    BY DEF Points, Turns, At
  <2>4. Follow(<< >>) /\ Len(emitted) + Len(<< >>) = At("refetch")
    BY <2>1, <2>3, FollowNone
  <2> HIDE DEF loc
  <2>5. Goes(<< >>, "refetch", loc)  BY <1>4 DEF loc
  <2>6. ChoiceHolds'
    <3>1. pc' = "refetch" /\ local' = loc /\ ending' = Running
      BY <2>1, <2>5 DEF Goes, end
    <3>2. local.kept \subseteq Recommendable(local.evid)
      BY <2>1 DEF StreamInv, ChoiceHolds
    <3> QED  BY <3>1, <3>2, <2>2, OwnOutcomes DEF ChoiceHolds, Recommendable
  <2>7. Announced(At("refetch")) = Announced(At("dispatch"))  BY <2>3
  <2> QED  BY <2>1, <2>2, <2>3, <2>4, <2>5, <2>6, <2>7, <1>1, <1>2, GoesOn
<1> QED  BY <1>3, <1>4, <1>1 DEF Dispatch

LEMMA RefetchKept ==
  ASSUME StreamInv, Refetch, UNCHANGED stream
  PROVE  StreamInv'
<1>1. Runs("refetch") /\ UNCHANGED <<input, world, ledger, cancel, stream>>
  BY DEF Refetch
<1>2. "refetch" \in Points \ Turns /\ "refetch" \in ToolPoints
  BY DEF Points, Turns, ToolPoints
<1>3. ASSUME NEW reason \in {"corpus_unavailable", "validation_rejected",
                             "budget_exceeded"},
             Closes(<< >>, Error(reason)), UNCHANGED call
      PROVE  StreamInv'
  <2>1. reason \in Reasons  BY DEF Reasons
  <2>2. UNCHANGED <<input, world, call, ledger, cancel, stream>>  BY <1>1, <1>3
  <2> QED  BY <2>1, <2>2, <1>1, <1>2, <1>3, FailsThere
<1>4. CASE call' = NewCall /\ Goes(<<"provider_request">>, "turn2", local)
  <2> DEFINE new == <<"provider_request">>
  <2>1. /\ local \in Locals /\ ending = Running /\ toolMode
        /\ Len(emitted) = At("refetch") /\ pc = "refetch" /\ cancel = "none"
        /\ ledger \in Seq(LedgerEntries) /\ Announced(At("refetch")) = Len(ledger)
        /\ toolMode \in BOOLEAN /\ pc \in Points
    BY <1>1, <1>2, Waiting
  <2>2. /\ "turn2" \in Points /\ "turn2" \in Turns
        /\ At("refetch") = 7 /\ At("turn2") = 8
        /\ Announced(8) = 2 /\ Announced(7) = 1
    BY <2>1 DEF Points, Turns, At, Announced
  <2>3. Follow(new) /\ Len(emitted) + Len(new) = At("turn2")
    <3>1. /\ Script[7 + 1] = "provider_request" /\ 7 + 1 <= Len(Script)
          /\ Len(emitted) = 7
      BY <2>1, <2>2, ScriptStages, ScriptTyped
    <3>2. Follow(new) /\ Len(emitted) + Len(new) = 7 + 1  BY <3>1, FollowOne
    <3> QED  BY <3>2, <2>2
  <2>4. ChoiceHolds'
    <3>1. pc' = "turn2" /\ local' = local /\ ending' = Running
      BY <2>1, <1>4 DEF Goes, end
    <3>2. local.kept \subseteq Recommendable(local.evid) /\ local.pick \in local.kept
      BY <2>1 DEF StreamInv, ChoiceHolds
    <3> QED  BY <3>1, <3>2, OwnOutcomes DEF ChoiceHolds, Recommendable
  <2>5. /\ call' \in Call /\ call'.phase = "sending"
        /\ ledger' \in Seq(LedgerEntries) /\ Len(ledger') = Len(ledger)
        /\ UNCHANGED <<input, world, cancel, stream>>
    BY <1>1, <1>4, <2>1, NoCallTyped DEF NewCall
  <2>6. /\ Announced(Len(emitted)) = Len(ledger')
        /\ Announced(At("turn2")) = Len(ledger') + 1
    <3>1. Len(ledger') = 1  BY <2>1, <2>2, <2>5
    <3> QED  BY <3>1, <2>1, <2>2
  <2>7. Goes(new, "turn2", local)  BY <1>4
  <2> HIDE DEF new
  <2> QED  BY <2>1, <2>2, <2>3, <2>4, <2>5, <2>6, <2>7, Continues
<1> QED  BY <1>3, <1>4, <1>1 DEF Refetch, SecondTurn

LEMMA RepeatedKept ==
  ASSUME StreamInv, Repeated, UNCHANGED stream
  PROVE  StreamInv'
<1>1. /\ Runs("repeated") /\ Closes(<< >>, Error("turn_limit"))
      /\ UNCHANGED <<input, world, call, ledger, cancel, stream>>
  BY DEF Repeated
<1>2. "repeated" \in Points \ Turns /\ "turn_limit" \in Reasons
  BY DEF Points, Turns, Reasons
<1> QED  BY <1>1, <1>2, FailsThere

LEMMA ValidateKept ==
  ASSUME StreamInv, Validate, UNCHANGED stream
  PROVE  StreamInv'
<1>1. Runs("validate") /\ UNCHANGED <<input, world, call, ledger, cancel, stream>>
  BY DEF Validate
<1>2. "validate" \in Points \ Turns /\ "check" \in Points \ Turns
      /\ "check" \notin ToolPoints
  BY DEF Points, Turns, ToolPoints
<1>3. ASSUME NEW reason \in {"validation_rejected", "schema_failure"},
             Closes(<< >>, Error(reason))
      PROVE  StreamInv'
  <2>1. reason \in Reasons  BY DEF Reasons
  <2> QED  BY <2>1, <1>1, <1>2, <1>3, FailsThere
<1>4. ASSUME NEW r \in Recipes \cup {NoRecipe}, NEW sound \in BOOLEAN,
             ValidSelection(r, sound),
             Goes(<<"validation">>, "check", [local EXCEPT !.pick = r])
      PROVE  StreamInv'
  <2> DEFINE loc == [local EXCEPT !.pick = r]
             new == <<"validation">>
  <2>1. /\ local \in Locals /\ ending = Running
        /\ Len(emitted) = At("validate") /\ pc = "validate"
        /\ ledger \in Seq(LedgerEntries) /\ Announced(At("validate")) = Len(ledger)
        /\ toolMode \in BOOLEAN
    BY <1>1, <1>2, Waiting
  <2>2. loc \in Locals /\ loc.pick = r /\ loc.kept = local.kept /\ loc.evid = local.evid
    BY <2>1 DEF Locals
  <2>3. /\ At("validate") = (IF toolMode THEN 9 ELSE 7)
        /\ At("check") = (IF toolMode THEN 10 ELSE 8)
        /\ Announced(At("check")) = Announced(At("validate"))
        /\ Announced(At("validate")) = (IF toolMode THEN 2 ELSE 1)
    BY <2>1 DEF At, Announced
  <2>4. Follow(new) /\ Len(emitted) + Len(new) = At("check")
    <3>1. CASE toolMode
      <4>1. /\ Script[9 + 1] = "validation" /\ 9 + 1 <= Len(Script)
            /\ Len(emitted) = 9
        <5>1. toolMode \in BOOLEAN  BY <2>1
        <5>2. Script[10] = "validation" /\ Len(Script) = 11
          BY <5>1, <3>1, ScriptStages, ScriptTyped
        <5> QED  BY <5>2, <3>1, <2>1, <2>3
      <4>2. Follow(new) /\ Len(emitted) + Len(new) = 9 + 1  BY <4>1, FollowOne
      <4> QED  BY <3>1, <4>2, <2>3
    <3>2. CASE ~toolMode
      <4>1. /\ Script[7 + 1] = "validation" /\ 7 + 1 <= Len(Script)
            /\ Len(emitted) = 7
        BY <3>2, <2>1, <2>3, ScriptStages, ScriptTyped
      <4>2. Follow(new) /\ Len(emitted) + Len(new) = 7 + 1  BY <4>1, FollowOne
      <4> QED  BY <3>2, <4>2, <2>3
    <3> QED  BY <3>1, <3>2
  <2>5. Goes(new, "check", loc)  BY <1>4
  <2> HIDE DEF loc, new
  <2>6. ChoiceHolds'
    <3>1. /\ pc' = "check" /\ local' = loc /\ ending' = Running
          /\ toolMode' = toolMode /\ ledger' = ledger
      BY <2>1, <2>5, <1>1 DEF Goes, end, input
    <3>2. /\ local.kept \subseteq Recommendable(local.evid)
          /\ (toolMode => local.pick \in local.kept)
      BY <2>1 DEF StreamInv, ChoiceHolds
    <3>3. r \in local.kept /\ r \in Recommendable(local.evid)
      BY <1>4, <3>2 DEF ValidSelection, Offered
    <3>4. Len(ledger) = (IF toolMode THEN 2 ELSE 1)  BY <2>1, <2>3
    <3> QED  BY <3>1, <3>2, <3>3, <3>4, <2>2 DEF ChoiceHolds, Recommendable
  <2> QED  BY <2>1, <2>2, <2>3, <2>4, <2>5, <2>6, <1>1, <1>2, GoesOn
<1> QED  BY <1>3, <1>4 DEF Validate

LEMMA PublishKept ==
  ASSUME StreamInv, Publish, UNCHANGED stream
  PROVE  StreamInv'
<1>1. Runs("check") /\ UNCHANGED <<input, world, call, ledger, cancel, stream>>
  BY DEF Publish
<1>2. "check" \in Points \ Turns  BY DEF Points, Turns
<1>3. ASSUME NEW reason \in {"unknown_group", "stale_revision"},
             Closes(<< >>, Error(reason))
      PROVE  StreamInv'
  <2>1. reason \in Reasons  BY DEF Reasons
  <2> QED  BY <2>1, <1>1, <1>2, <1>3, FailsThere
<1>4. CASE Closes(<<"revision_check">>, Recommended)
  <2> DEFINE new == <<"revision_check">>
  <2>1. /\ task = Running /\ cancel = "none" /\ call = NoCall
        /\ Len(emitted) = At("check") /\ pc = "check"
        /\ ledger \in Seq(LedgerEntries) /\ Announced(At("check")) = Len(ledger)
        /\ toolMode \in BOOLEAN
    BY <1>1, <1>2, Waiting
  <2>7. At("check") = (IF toolMode THEN 10 ELSE 8)  BY DEF At
  <2>2. Follow(new) /\ Announced(Len(emitted) + Len(new)) = Announced(At("check"))
    <3>1. CASE toolMode
      <4>1. /\ Script[10 + 1] = "revision_check" /\ 10 + 1 <= Len(Script)
            /\ Len(emitted) = 10 /\ At("check") = 10
        <5>1. toolMode \in BOOLEAN  BY <2>1
        <5>2. Script[11] = "revision_check" /\ Len(Script) = 11
          BY <5>1, <3>1, ScriptStages, ScriptTyped
        <5> QED  BY <5>2, <3>1, <2>1, <2>7
      <4>2. Follow(new) /\ Len(emitted) + Len(new) = 10 + 1  BY <4>1, FollowOne
      <4>3. Announced(10 + 1) = Announced(10)  BY <3>1 DEF Announced
      <4> QED  BY <4>1, <4>2, <4>3
    <3>2. CASE ~toolMode
      <4>1. /\ Script[8 + 1] = "revision_check" /\ 8 + 1 <= Len(Script)
            /\ Len(emitted) = 8 /\ At("check") = 8
        BY <3>2, <2>1, <2>7, ScriptStages, ScriptTyped
      <4>2. Follow(new) /\ Len(emitted) + Len(new) = 8 + 1  BY <4>1, FollowOne
      <4>3. Announced(8 + 1) = Announced(8)  BY <3>2 DEF Announced
      <4> QED  BY <4>1, <4>2, <4>3
    <3> QED  BY <3>1, <3>2
  <2>3. Recommended \in Outcomes /\ Recommended.status # "cancelled"
    BY OwnOutcomes
  <2>4. /\ local.pick \in local.kept
        /\ local.evid[local.pick] \in {"good", "good2"}
        /\ Len(ledger) = (IF toolMode THEN 2 ELSE 1)
    BY <2>1 DEF StreamInv, ChoiceHolds
  <2>5. /\ call' = NoCall /\ ledger' = ledger
        /\ UNCHANGED <<input, world, cancel, stream>>
        /\ Closes(new, Recommended)
    BY <1>1, <1>4, <2>1
  <2> HIDE DEF new
  <2>6. /\ Announced(Len(emitted)) = Len(ledger')
        /\ Announced(Len(emitted) + Len(new)) = Len(ledger')
    BY <2>1, <2>2, <2>5
  <2> QED  BY <2>1, <2>2, <2>3, <2>4, <2>5, <2>6, Finishes
<1> QED  BY <1>3, <1>4 DEF Publish

-----------------------------------------------------------------------------
(* Cancellation.                                                           *)

LEMMA CancelledKept ==
  ASSUME StreamInv, Cancelled, UNCHANGED stream
  PROVE  StreamInv'
<1> DEFINE o == Outcome("cancelled", cancel)
<1>1. PICK served \in BOOLEAN :
        LET c == [call EXCEPT !.served = @ \/ (served /\ call.phase = "sending")]
        IN ledger' = IF pc \in Turns /\ pending = << >>
                     THEN Append(ledger, CancelledEntry(c)) ELSE ledger
  BY DEF Cancelled
<1>2. /\ cancel # "none" /\ task = Running /\ call' = NoCall
      /\ pc' = "done" /\ local' = NoLocals /\ pending' = << >>
      /\ queue' = queue /\ emitted' = emitted /\ ending' = ending
      /\ Ends(o) /\ toolMode' = toolMode /\ limit' = limit /\ cancel' = cancel
      /\ grp' = grp /\ doc' = doc /\ changes' = changes
      /\ gen' = gen /\ buffered' = buffered /\ events' = events
      /\ skipped' = skipped /\ response' = response /\ gone' = gone
      /\ UNCHANGED input
  BY DEF Cancelled, input, world, stream
<1>3. /\ TypeOK /\ ScriptHolds /\ LedgerHolds /\ ClientHolds  BY DEF StreamInv
<1>4. /\ call \in Call /\ ledger \in Seq(LedgerEntries)
      /\ emitted \in Seq(StageNames) /\ pending \in Seq(StageNames)
      /\ Len(emitted) \in Nat /\ Len(pending) \in Nat /\ Len(ledger) \in Nat
      /\ cancel \in Cancellations
  BY <1>2, <1>3 DEF TypeOK
<1> DEFINE given == call.served \/ (served /\ call.phase = "sending")
           c == [call EXCEPT !.served = given]
<1>5. CancelledEntry(c) \in LedgerEntries
  <2>1. given \in BOOLEAN  BY <1>4 DEF Call
  <2> HIDE DEF given
  <2>2. c \in Call  BY <2>1, <1>4 DEF Call
  <2> HIDE DEF c
  <2> QED  BY <2>2, EntryTyped DEF CancelledEntry
<1>6. ledger' = IF pc \in Turns /\ pending = << >>
                THEN Append(ledger, CancelledEntry(c)) ELSE ledger
  BY <1>1
<1> HIDE DEF c, given
<1>7. /\ ledger' \in Seq(LedgerEntries)
      /\ Len(ledger') = IF pc \in Turns /\ pending = << >>
                        THEN Len(ledger) + 1 ELSE Len(ledger)
  BY <1>4, <1>5, <1>6, Appended
<1>8. o \in Outcomes /\ o.status = "cancelled" /\ o.reason = cancel /\ o # Running
  BY <1>4 DEF Outcomes, Outcome, Running
<1>9. telemetry = << >> /\ task' = o /\ telemetry' = << o >>
  <2>1. telemetry = << >>  BY <1>2, <1>3 DEF LedgerHolds
  <2> QED  BY <2>1, <1>2 DEF Ends, Report
<1>10. Announced(Len(emitted)) = Len(ledger')
  <2>1. CASE pc \in Turns /\ pending = << >>
    <3>1. Reached = Len(emitted)  BY <2>1, <1>4 DEF Reached
    <3> QED  BY <3>1, <2>1, <1>3, <1>7 DEF LedgerHolds
  <2>2. CASE ~(pc \in Turns /\ pending = << >>)
    BY <2>2, <1>3, <1>7 DEF LedgerHolds
  <2> QED  BY <2>1, <2>2
<1>11. /\ Script' = Script /\ \A k : Announced(k)' = Announced(k)
  BY <1>2, ScriptFixed
<1>12. Reached' = Len(emitted)  BY <1>2, <1>4 DEF Reached
<1>13. ScriptHolds'
  <2>1. /\ Reached <= Len(Script) /\ Reached = Len(emitted) + Len(pending)
        /\ \A i \in 1 .. Len(emitted) : emitted[i] = Script[i]
        /\ Len(queue) <= Len(emitted) /\ ending.status # "cancelled"
    BY <1>3 DEF ScriptHolds, Reached
  <2>2. Len(Script) \in Nat
    <3>1. toolMode \in BOOLEAN  BY <1>3 DEF TypeOK
    <3> QED  BY <3>1, ScriptTyped
  <2>3. Len(emitted) <= Len(Script)  BY <2>1, <2>2, <1>4
  <2>4. pc' \notin Points /\ pc' \notin ToolPoints  BY <1>2 DEF Points, ToolPoints
  <2>5. \A i \in 1 .. Len(pending') : FALSE  BY <1>2
  <2> QED  BY <2>1, <2>3, <2>4, <2>5, <1>2, <1>8, <1>9, <1>11, <1>12 DEF ScriptHolds
<1>14. LedgerHolds'
  <2>1. pc' \notin Turns  BY <1>2 DEF Turns
  <2> QED
    BY <2>1, <1>2, <1>8, <1>9, <1>10, <1>11, <1>12 DEF LedgerHolds, NoCall, NewCall
<1>15. ChoiceHolds'  BY <1>2, <1>8, <1>9 DEF ChoiceHolds
<1>16. ClientHolds'
  <2>1. gen \notin {"first", "streaming"}  BY <1>2, <1>3 DEF ClientHolds, FlowHolds
  <2>2. gen \in {"closing", "closed"} => FarewellHolds  BY <1>3 DEF ClientHolds
  <2>3. FarewellHolds => FarewellHolds'
    BY <1>2, <1>8, <1>9 DEF FarewellHolds
  <2> QED  BY <2>1, <2>2, <2>3, <1>2 DEF ClientHolds
<1>17. TypeOK'
  <2>1. Len(ledger') <= IF toolMode' THEN 2 ELSE 1
    <3>1. Len(ledger') \in Nat /\ Announced(Len(emitted)) \in Nat
      BY <1>7 DEF Announced
    <3>2. Len(ledger') <= Announced(Len(emitted))  BY <3>1, <1>10
    <3> QED  BY <3>1, <3>2, <1>2, <1>4, LedgerBound
  <2>2. NoLocals \in Locals  BY DEF NoLocals, Locals, Contents
  <2>3. << o >> \in Seq(Outcomes) /\ << >> \in Seq(StageNames)  BY <1>8
  <2>4. call' \in Call  BY <1>2, NoCallTyped
  <2>5. task' \in Outcomes \cup {Running} /\ telemetry' \in Seq(Outcomes)
    BY <2>3, <1>8, <1>9
  <2> QED  BY <2>1, <2>2, <2>3, <2>4, <2>5, <1>2, <1>3, <1>7 DEF TypeOK
<1> QED  BY <1>13, <1>14, <1>15, <1>16, <1>17 DEF StreamInv

LEMMA RunStepKept ==
  ASSUME StreamInv, RunStep, UNCHANGED stream
  PROVE  StreamInv'
  BY PutKept, EntryKept, EpicureKept, SearchKept, FetchKept, AttemptFailsKept,
     RetryKept, CallRefusedKept, AnswerKept, DispatchKept, RefetchKept,
     RepeatedKept, ValidateKept, PublishKept, CancelledKept
  DEF RunStep

-----------------------------------------------------------------------------
(* The endpoint and its client.                                            *)

\* What the run depends on does not change while the stream works; a queue
\* only gets shorter, and only a run that goes on is cancelled.
LEMMA RunUntouched ==
  ASSUME StreamInv, UNCHANGED <<input, run, pending, emitted, end>>,
         Len(queue') <= Len(queue), Len(queue') \in Nat,
         cancel' = cancel \/ task = Running
  PROVE  ScriptHolds' /\ LedgerHolds' /\ ChoiceHolds'
<1>1. /\ toolMode' = toolMode /\ limit' = limit /\ pc' = pc /\ local' = local
      /\ call' = call /\ ledger' = ledger /\ pending' = pending
      /\ emitted' = emitted /\ task' = task /\ telemetry' = telemetry
      /\ ending' = ending
  BY DEF input, run, end
<1>2. ScriptHolds /\ LedgerHolds /\ ChoiceHolds  BY DEF StreamInv
<1>3. /\ Script' = Script /\ \A k : Announced(k)' = Announced(k)
      /\ Reached' = Reached
  BY <1>1, ScriptFixed DEF Reached
<1>4. At(pc)' = At(pc)  BY <1>1 DEF At
<1>5. Len(queue') <= Len(emitted)
  <2>1. Len(queue) \in Nat /\ Len(emitted) \in Nat  BY DEF StreamInv, TypeOK
  <2> QED  BY <2>1, <1>2 DEF ScriptHolds
<1>6. ScriptHolds'  BY <1>1, <1>2, <1>3, <1>4, <1>5 DEF ScriptHolds
<1>7. LedgerHolds'
  <2>1. task.status = "cancelled" => cancel' = cancel  BY DEF Running, Outcome
  <2> QED  BY <2>1, <1>1, <1>2, <1>3 DEF LedgerHolds
<1>8. ChoiceHolds'  BY <1>1, <1>2 DEF ChoiceHolds, Recommendable
<1> QED  BY <1>6, <1>7, <1>8

LEMMA StreamTyped ==
  ASSUME TypeOK, UNCHANGED <<input, world, run, pending, emitted, end>>,
         queue' \in Seq(StageNames), Len(queue') <= limit,
         cancel' \in Cancellations \cup {"none"},
         gen' \in {"first", "streaming", "closing", "closed"}, gone' \in BOOLEAN,
         buffered' \in Seq(StageNames), Len(buffered') <= 1,
         skipped' \in Seq(StageNames), events' \in Seq(Events),
         response' \in Reasons \cup {"none", "stream"}
  PROVE  TypeOK'
  BY DEF TypeOK, input, world, run, end

LEMMA Tailed ==
  ASSUME NEW S, NEW q \in Seq(S), q # << >>
  PROVE  /\ Head(q) = q[1] /\ Head(q) \in S
         /\ Tail(q) \in Seq(S) /\ Len(Tail(q)) = Len(q) - 1 /\ Len(q) \in Nat \ {0}
         /\ \A i \in 1 .. Len(q) - 1 : Tail(q)[i] = q[i + 1]
         /\ << Head(q) >> \in Seq(S)
OBVIOUS

LEMMA CancelsTyped ==
  ASSUME TypeOK, NEW reason \in Cancellations, Cancels(reason)
  PROVE  /\ cancel' \in Cancellations \cup {"none"}
         /\ cancel' = cancel \/ task = Running
         /\ cancel # "none" => cancel' = cancel
         /\ (task = Running /\ cancel = "none") => cancel' = reason
  BY DEF TypeOK, Cancels

\* What flows to the client moves on by one place.
LEMMA Taking ==
  ASSUME TypeOK, FlowHolds, Pending # << >>, TakesNext
  PROVE  /\ queue' \in Seq(StageNames) /\ Len(queue') <= Len(queue)
         /\ buffered' \in Seq(StageNames) /\ Len(buffered') <= 1
         /\ Len(queue') \in Nat /\ Len(buffered') \in Nat
         /\ Len(queue) \in Nat /\ Len(buffered) \in Nat
         /\ Len(events) \in Nat /\ Len(skipped) \in Nat /\ Len(emitted) \in Nat
         /\ Len(buffered') + Len(queue') + 1 = Len(buffered) + Len(queue)
         /\ Len(events) + Len(skipped) + 1 <= Len(emitted)
         /\ Head(Pending) = emitted[Len(events) + Len(skipped) + 1]
         /\ Head(Pending) \in StageNames
         /\ \A i \in 1 .. Len(buffered') :
              buffered'[i] = emitted[Len(events) + Len(skipped) + 1 + i]
         /\ \A i \in 1 .. Len(queue') :
              queue'[i] = emitted[Len(events) + Len(skipped) + 1 + Len(buffered') + i]
<1>1. /\ queue \in Seq(StageNames) /\ buffered \in Seq(StageNames)
      /\ Len(buffered) <= 1
      /\ Len(queue) \in Nat /\ Len(buffered) \in Nat
      /\ Len(events) \in Nat /\ Len(skipped) \in Nat /\ Len(emitted) \in Nat
  BY DEF TypeOK
<1> DEFINE k == Len(events) + Len(skipped)
<1>2. /\ k \in Nat /\ k + Len(buffered) + Len(queue) = Len(emitted)
      /\ \A i \in 1 .. Len(buffered) : buffered[i] = emitted[k + i]
      /\ \A i \in 1 .. Len(queue) : queue[i] = emitted[k + Len(buffered) + i]
  BY <1>1 DEF FlowHolds
<1>3. << >> \in Seq(StageNames)  OBVIOUS
<1> HIDE DEF k
<1>4. CASE buffered # << >>
  <2>1. Len(buffered) = 1
    <3> DEFINE m == Len(buffered)
    <3>1. m \in Nat \ {0} /\ m <= 1  BY <1>1, <1>4, Tailed
    <3> HIDE DEF m
    <3>2. m = 1  BY <3>1
    <3> QED  BY <3>2 DEF m
  <2>2. buffered[1] = emitted[k + 1] /\ buffered[1] \in StageNames
    <3>1. 1 \in 1 .. Len(buffered)  BY <2>1
    <3> QED  BY <3>1, <1>1, <1>2
  <2>3. Head(Pending) = buffered[1]
    <3>1. /\ Len(buffered \o queue) = Len(buffered) + Len(queue)
          /\ (buffered \o queue)[1] = buffered[1]
          /\ buffered \o queue \in Seq(StageNames)
      BY <1>1, <2>1, Extended
    <3>2. buffered \o queue # << >>  BY <3>1, <1>1, <2>1
    <3> QED  BY <3>1, <3>2 DEF Pending
  <2>4. buffered' = << >> /\ queue' = queue  BY <1>4 DEF TakesNext
  <2>5. Len(buffered') = 0  BY <2>4
  <2>6. ASSUME NEW i \in 1 .. Len(queue')
        PROVE  queue'[i] = emitted[k + 1 + Len(buffered') + i]
    <3>1. i \in 1 .. Len(queue) /\ k + 1 + Len(buffered') + i = k + Len(buffered) + i
      BY <1>1, <1>2, <2>1, <2>4, <2>5
    <3> QED  BY <3>1, <1>2, <2>4
  <2>7. k + 1 <= Len(emitted)  BY <1>1, <1>2, <2>1
  <2> QED  BY <1>1, <1>2, <1>3, <2>1, <2>2, <2>3, <2>4, <2>5, <2>6, <2>7 DEF k
<1>5. CASE buffered = << >>
  <2>1. Len(buffered) = 0 /\ Pending = queue /\ queue # << >>
    BY <1>1, <1>5 DEF Pending
  <2>2. /\ Head(queue) = queue[1] /\ Head(queue) \in StageNames
        /\ Tail(queue) \in Seq(StageNames) /\ Len(Tail(queue)) = Len(queue) - 1
        /\ Len(queue) \in Nat \ {0}
        /\ \A i \in 1 .. Len(queue) - 1 : Tail(queue)[i] = queue[i + 1]
    BY <1>1, <2>1, Tailed
  <2>3. queue' = Tail(queue) /\ buffered' = << >>  BY <1>5 DEF TakesNext
  <2>4. Len(buffered') = 0  BY <2>3
  <2>5. queue[1] = emitted[k + 1]
    <3>1. 1 \in 1 .. Len(queue) /\ k + Len(buffered) + 1 = k + 1
      BY <1>2, <2>1, <2>2
    <3> QED  BY <3>1, <1>2
  <2>6. ASSUME NEW i \in 1 .. Len(queue')
        PROVE  queue'[i] = emitted[k + 1 + Len(buffered') + i]
    <3>1. /\ i \in 1 .. Len(queue) - 1 /\ i + 1 \in 1 .. Len(queue)
          /\ k + 1 + Len(buffered') + i = k + Len(buffered) + (i + 1)
      BY <1>2, <2>1, <2>2, <2>3, <2>4
    <3> QED  BY <3>1, <1>2, <2>2, <2>3
  <2>7. k + 1 <= Len(emitted)  BY <1>1, <1>2, <2>1, <2>2
  <2>8. Head(Pending) = emitted[k + 1] /\ Head(Pending) \in StageNames
    BY <2>1, <2>2, <2>5
  <2>9. /\ queue' \in Seq(StageNames) /\ Len(queue') = Len(queue) - 1
        /\ buffered' \in Seq(StageNames) /\ Len(queue') \in Nat
    BY <1>3, <2>2, <2>3
  <2> QED  BY <1>1, <1>2, <2>1, <2>2, <2>4, <2>6, <2>7, <2>8, <2>9 DEF k
<1> QED  BY <1>4, <1>5

LEMMA StreamMoves ==
  ASSUME StreamInv, UNCHANGED <<input, world, run, pending, emitted, end>>,
         queue' \in Seq(StageNames), Len(queue') <= Len(queue),
         cancel' \in Cancellations \cup {"none"}, cancel' = cancel \/ task = Running,
         gen' \in {"first", "streaming", "closing", "closed"}, gone' \in BOOLEAN,
         buffered' \in Seq(StageNames), Len(buffered') <= 1,
         skipped' \in Seq(StageNames), events' \in Seq(Events),
         response' \in Reasons \cup {"none", "stream"},
         ClientHolds'
  PROVE  StreamInv'
<1>1. TypeOK  BY DEF StreamInv
<1>2. Len(queue') \in Nat /\ Len(queue) \in Nat /\ Len(queue) <= limit /\ limit \in Nat
  BY <1>1, RecommendationsAssumption DEF TypeOK
<1>3. Len(queue') <= limit  BY <1>2
<1>4. TypeOK'  BY <1>1, <1>3, StreamTyped
<1>5. ScriptHolds' /\ LedgerHolds' /\ ChoiceHolds'  BY <1>2, RunUntouched
<1> QED  BY <1>4, <1>5 DEF StreamInv

\* The getter keeps what it takes at its place.
LEMMA Getting ==
  ASSUME TypeOK, FlowHolds, buffered = << >>, queue # << >>,
         buffered' = << Head(queue) >>, queue' = Tail(queue),
         UNCHANGED <<limit, emitted, events, skipped, cancel>>
  PROVE  /\ queue' \in Seq(StageNames) /\ Len(queue') <= Len(queue)
         /\ buffered' \in Seq(StageNames) /\ Len(buffered') <= 1
         /\ FlowHolds'
<1>1. /\ queue \in Seq(StageNames) /\ Len(buffered) = 0
      /\ Len(events) \in Nat /\ Len(skipped) \in Nat /\ Len(emitted) \in Nat
  BY DEF TypeOK
<1> DEFINE k == Len(events) + Len(skipped)
<1>2. /\ k \in Nat /\ k + Len(queue) = Len(emitted)
      /\ \A i \in 1 .. Len(queue) : queue[i] = emitted[k + i]
  <2>1. /\ Len(events) + Len(skipped) + Len(buffered) + Len(queue) = Len(emitted)
        /\ \A i \in 1 .. Len(queue) :
             queue[i] = emitted[Len(events) + Len(skipped) + Len(buffered) + i]
    BY DEF FlowHolds
  <2> QED  BY <1>1, <2>1
<1>3. /\ Head(queue) = queue[1] /\ Head(queue) \in StageNames
      /\ queue' \in Seq(StageNames) /\ Len(queue') = Len(queue) - 1
      /\ Len(queue) \in Nat \ {0}
      /\ \A i \in 1 .. Len(queue) - 1 : queue'[i] = queue[i + 1]
      /\ buffered' \in Seq(StageNames)
  BY <1>1, Tailed
<1>4. Len(buffered') = 1 /\ buffered'[1] = queue[1]  BY <1>3
<1> HIDE DEF k
<1>5. Len(queue') \in Nat /\ Len(queue') <= Len(queue)
      /\ k + Len(buffered') + Len(queue') = Len(emitted)
  BY <1>2, <1>3, <1>4
<1>6. ASSUME NEW i \in 1 .. Len(buffered') PROVE buffered'[i] = emitted[k + i]
  <2>1. i = 1 /\ 1 \in 1 .. Len(queue)  BY <1>3, <1>4
  <2> QED  BY <2>1, <1>2, <1>4
<1>7. ASSUME NEW i \in 1 .. Len(queue')
      PROVE  queue'[i] = emitted[k + Len(buffered') + i]
  <2>1. i \in 1 .. Len(queue) - 1 /\ i + 1 \in 1 .. Len(queue)
        /\ k + Len(buffered') + i = k + (i + 1)
    BY <1>2, <1>3, <1>4
  <2> QED  BY <2>1, <1>2, <1>3
<1>8. FlowHolds'
  BY <1>5, <1>6, <1>7 DEF FlowHolds, StageBudgetLeft, k
<1> QED  BY <1>3, <1>4, <1>5, <1>8

LEMMA FirstStageKept ==
  ASSUME StreamInv, FirstStage
  PROVE  StreamInv'
<1>1. /\ gen = "first" /\ queue # << >>
      /\ buffered' = << Head(queue) >> /\ queue' = Tail(queue)
      /\ gen' = "streaming" /\ response' = "stream"
      /\ UNCHANGED <<input, world, run, cancel, pending, emitted, end, events,
                     skipped, gone>>
  BY DEF FirstStage
<1>2. TypeOK /\ FlowHolds /\ buffered = << >>
  BY <1>1 DEF StreamInv, ClientHolds
<1>3. UNCHANGED <<limit, emitted, events, skipped, cancel>>  BY <1>1 DEF input
<1>4. /\ queue' \in Seq(StageNames) /\ Len(queue') <= Len(queue)
      /\ buffered' \in Seq(StageNames) /\ Len(buffered') <= 1
      /\ FlowHolds'
  BY <1>1, <1>2, <1>3, Getting
<1>5. ClientHolds'  BY <1>1, <1>4 DEF ClientHolds
<1>6. cancel' \in Cancellations \cup {"none"} /\ gone' \in BOOLEAN
      /\ skipped' \in Seq(StageNames) /\ events' \in Seq(Events)
  BY <1>1, <1>2 DEF TypeOK
<1> QED  BY <1>1, <1>4, <1>5, <1>6, StreamMoves

LEMMA GetterTakesKept ==
  ASSUME StreamInv, GetterTakes
  PROVE  StreamInv'
<1>1. /\ gen = "streaming" /\ buffered = << >> /\ queue # << >>
      /\ buffered' = << Head(queue) >> /\ queue' = Tail(queue)
      /\ gen' = gen /\ response' = response
      /\ UNCHANGED <<input, world, run, cancel, pending, emitted, end, events,
                     skipped, gone>>
  BY DEF GetterTakes
<1>2. TypeOK /\ FlowHolds /\ response = "stream"
  BY <1>1 DEF StreamInv, ClientHolds
<1>3. UNCHANGED <<limit, emitted, events, skipped, cancel>>  BY <1>1 DEF input
<1>4. /\ queue' \in Seq(StageNames) /\ Len(queue') <= Len(queue)
      /\ buffered' \in Seq(StageNames) /\ Len(buffered') <= 1
      /\ FlowHolds'
  BY <1>1, <1>2, <1>3, Getting
<1>5. ClientHolds'  BY <1>1, <1>2, <1>4 DEF ClientHolds
<1>6. cancel' \in Cancellations \cup {"none"} /\ gone' \in BOOLEAN
      /\ skipped' \in Seq(StageNames) /\ events' \in Seq(Events)
  BY <1>1, <1>2 DEF TypeOK
<1>7. gen' \in {"first", "streaming", "closing", "closed"}
      /\ response' \in Reasons \cup {"none", "stream"}
  BY <1>1, <1>2
<1> QED  BY <1>1, <1>4, <1>5, <1>6, <1>7, StreamMoves

LEMMA StageTyped ==
  ASSUME NEW s \in StageNames
  PROVE  Stage(s) \in Events /\ ~IsTerminal(Stage(s)) /\ Stage(s).reason = s
  BY DEF Stage, Events, IsTerminal, Outcome

LEMMA SendStageKept ==
  ASSUME StreamInv, SendStage
  PROVE  StreamInv'
<1>1. /\ gen = "streaming" /\ Pending # << >> /\ StageBudgetLeft
      /\ events' = Append(events, Stage(Head(Pending)))
      /\ TakesNext
      /\ UNCHANGED <<input, world, run, cancel, pending, emitted, end, gen,
                     skipped, response, gone>>
  BY DEF SendStage
<1>2. TypeOK /\ FlowHolds /\ response = "stream"
  BY <1>1 DEF StreamInv, ClientHolds
<1>3. /\ Len(events) \in Nat /\ limit \in Nat /\ events \in Seq(Events)
      /\ Len(events) < limit - 1
  BY <1>1, <1>2, RecommendationsAssumption DEF TypeOK, StageBudgetLeft
<1>4. skipped = << >> /\ Len(skipped) = 0
  BY <1>1, <1>2 DEF FlowHolds
<1>5. /\ queue' \in Seq(StageNames) /\ Len(queue') <= Len(queue)
      /\ buffered' \in Seq(StageNames) /\ Len(buffered') <= 1
      /\ Len(queue') \in Nat /\ Len(buffered') \in Nat
      /\ Len(queue) \in Nat /\ Len(buffered) \in Nat /\ Len(emitted) \in Nat
      /\ Len(buffered') + Len(queue') + 1 = Len(buffered) + Len(queue)
      /\ Len(events) + Len(skipped) + 1 <= Len(emitted)
      /\ Head(Pending) = emitted[Len(events) + Len(skipped) + 1]
      /\ Head(Pending) \in StageNames
      /\ \A i \in 1 .. Len(buffered') :
           buffered'[i] = emitted[Len(events) + Len(skipped) + 1 + i]
      /\ \A i \in 1 .. Len(queue') :
           queue'[i] = emitted[Len(events) + Len(skipped) + 1 + Len(buffered') + i]
  BY <1>1, <1>2, Taking
<1>6. /\ events' \in Seq(Events) /\ Len(events') = Len(events) + 1
      /\ \A i \in 1 .. Len(events) : events'[i] = events[i]
      /\ events'[Len(events) + 1] = Stage(Head(Pending))
  BY <1>1, <1>3, <1>5, StageTyped, Appended
<1>7. FlowHolds'
  <2>1. /\ Len(events) + Len(skipped) + Len(buffered) + Len(queue) = Len(emitted)
        /\ \A i \in 1 .. Len(events) : events[i] = Stage(emitted[i])
        /\ cancel = "none"
    BY <1>2 DEF FlowHolds
  <2>2. /\ limit' = limit /\ cancel' = cancel /\ skipped' = << >>
        /\ emitted' = emitted /\ Len(skipped') = 0
    BY <1>1, <1>4 DEF input
  <2>3. Len(events') + Len(skipped') + Len(buffered') + Len(queue') = Len(emitted')
    <3>1. /\ Len(events) \in Nat /\ Len(queue') \in Nat /\ Len(buffered') \in Nat
          /\ Len(queue) \in Nat /\ Len(buffered) \in Nat /\ Len(emitted) \in Nat
          /\ Len(buffered') + Len(queue') + 1 = Len(buffered) + Len(queue)
          /\ Len(events') = Len(events) + 1 /\ Len(skipped) = 0
          /\ Len(skipped') = 0 /\ Len(emitted') = Len(emitted)
          /\ Len(events) + Len(skipped) + Len(buffered) + Len(queue) = Len(emitted)
      BY <1>3, <1>4, <1>5, <1>6, <2>1, <2>2
    <3> QED  BY <3>1
  <2>4. ASSUME NEW i \in 1 .. Len(events') PROVE events'[i] = Stage(emitted'[i])
    <3>1. CASE i \in 1 .. Len(events)  BY <3>1, <1>6, <2>1, <2>2
    <3>2. CASE i = Len(events) + 1
      <4>1. Head(Pending) = emitted[Len(events) + 1]  BY <1>3, <1>4, <1>5
      <4> QED  BY <4>1, <3>2, <1>6, <2>2
    <3> QED  BY <3>1, <3>2, <1>3, <1>6
  <2>5. ASSUME NEW i \in 1 .. Len(buffered')
        PROVE  buffered'[i] = emitted'[Len(events') + Len(skipped') + i]
    <3>1. Len(events') + Len(skipped') + i = Len(events) + Len(skipped) + 1 + i
      BY <1>3, <1>4, <1>5, <1>6, <2>2
    <3> QED  BY <3>1, <1>5, <2>2
  <2>6. ASSUME NEW i \in 1 .. Len(queue')
        PROVE  queue'[i] = emitted'[Len(events') + Len(skipped') + Len(buffered') + i]
    <3>1. Len(events') + Len(skipped') + Len(buffered') + i
            = Len(events) + Len(skipped) + 1 + Len(buffered') + i
      BY <1>3, <1>4, <1>5, <1>6, <2>2
    <3> QED  BY <3>1, <1>5, <2>2
  <2>7. Len(events') < limit'  BY <1>3, <1>6, <2>2
  <2>8. \A i \in 1 .. Len(skipped') : FALSE  BY <2>2
  <2> QED  BY <2>1, <2>2, <2>3, <2>4, <2>5, <2>6, <2>7, <2>8 DEF FlowHolds
<1>8. ClientHolds'  BY <1>1, <1>2, <1>7 DEF ClientHolds
<1>9. /\ cancel' \in Cancellations \cup {"none"} /\ gone' \in BOOLEAN
      /\ skipped' \in Seq(StageNames) /\ cancel' = cancel
      /\ gen' \in {"first", "streaming", "closing", "closed"}
      /\ response' \in Reasons \cup {"none", "stream"}
  BY <1>1, <1>2 DEF TypeOK
<1> QED  BY <1>1, <1>5, <1>6, <1>8, <1>9, StreamMoves

LEMMA SkipStageKept ==
  ASSUME StreamInv, SkipStage
  PROVE  StreamInv'
<1>1. /\ gen = "streaming" /\ Pending # << >> /\ ~StageBudgetLeft
      /\ task # Running
      /\ skipped' = Append(skipped, Head(Pending))
      /\ TakesNext
      /\ UNCHANGED <<input, world, run, cancel, pending, emitted, end, gen,
                     events, response, gone>>
  BY DEF SkipStage
<1>2. TypeOK /\ FlowHolds /\ response = "stream"
  BY <1>1 DEF StreamInv, ClientHolds
<1>3. /\ Len(events) \in Nat /\ Len(skipped) \in Nat
      /\ skipped \in Seq(StageNames) /\ events \in Seq(Events)
  BY <1>2 DEF TypeOK
<1>5. /\ queue' \in Seq(StageNames) /\ Len(queue') <= Len(queue)
      /\ buffered' \in Seq(StageNames) /\ Len(buffered') <= 1
      /\ Len(queue') \in Nat /\ Len(buffered') \in Nat
      /\ Len(queue) \in Nat /\ Len(buffered) \in Nat /\ Len(emitted) \in Nat
      /\ Len(buffered') + Len(queue') + 1 = Len(buffered) + Len(queue)
      /\ Head(Pending) = emitted[Len(events) + Len(skipped) + 1]
      /\ Head(Pending) \in StageNames
      /\ \A i \in 1 .. Len(buffered') :
           buffered'[i] = emitted[Len(events) + Len(skipped) + 1 + i]
      /\ \A i \in 1 .. Len(queue') :
           queue'[i] = emitted[Len(events) + Len(skipped) + 1 + Len(buffered') + i]
  BY <1>1, <1>2, Taking
<1>6. /\ skipped' \in Seq(StageNames) /\ Len(skipped') = Len(skipped) + 1
      /\ \A i \in 1 .. Len(skipped) : skipped'[i] = skipped[i]
      /\ skipped'[Len(skipped) + 1] = Head(Pending)
  BY <1>1, <1>3, <1>5, Appended
<1>7. FlowHolds'
  <2>1. /\ Len(events) + Len(skipped) + Len(buffered) + Len(queue) = Len(emitted)
        /\ \A i \in 1 .. Len(events) : events[i] = Stage(emitted[i])
        /\ \A i \in 1 .. Len(skipped) : skipped[i] = emitted[Len(events) + i]
        /\ cancel = "none" /\ Len(events) < limit
    BY <1>2 DEF FlowHolds
  <2>2. /\ limit' = limit /\ cancel' = cancel /\ events' = events
        /\ emitted' = emitted
    BY <1>1 DEF input
  <2>3. Len(events') + Len(skipped') + Len(buffered') + Len(queue') = Len(emitted')
    <3>1. /\ Len(events) \in Nat /\ Len(queue') \in Nat /\ Len(buffered') \in Nat
          /\ Len(queue) \in Nat /\ Len(buffered) \in Nat /\ Len(emitted) \in Nat
          /\ Len(buffered') + Len(queue') + 1 = Len(buffered) + Len(queue)
          /\ Len(events') = Len(events) /\ Len(skipped) \in Nat
          /\ Len(skipped') = Len(skipped) + 1 /\ Len(emitted') = Len(emitted)
          /\ Len(events) + Len(skipped) + Len(buffered) + Len(queue) = Len(emitted)
      BY <1>3, <1>5, <1>6, <2>1, <2>2
    <3> QED  BY <3>1
  <2>4. ASSUME NEW i \in 1 .. Len(skipped')
        PROVE  skipped'[i] = emitted'[Len(events') + i]
    <3>1. CASE i \in 1 .. Len(skipped)  BY <3>1, <1>6, <2>1, <2>2
    <3>2. CASE i = Len(skipped) + 1
      <4>1. Len(events') + i = Len(events) + Len(skipped) + 1  BY <3>2, <1>3, <2>2
      <4> QED  BY <4>1, <3>2, <1>5, <1>6, <2>2
    <3> QED  BY <3>1, <3>2, <1>3, <1>6
  <2>5. ASSUME NEW i \in 1 .. Len(buffered')
        PROVE  buffered'[i] = emitted'[Len(events') + Len(skipped') + i]
    <3>1. Len(events') + Len(skipped') + i = Len(events) + Len(skipped) + 1 + i
      BY <1>3, <1>5, <1>6, <2>2
    <3> QED  BY <3>1, <1>5, <2>2
  <2>6. ASSUME NEW i \in 1 .. Len(queue')
        PROVE  queue'[i] = emitted'[Len(events') + Len(skipped') + Len(buffered') + i]
    <3>1. Len(events') + Len(skipped') + Len(buffered') + i
            = Len(events) + Len(skipped) + 1 + Len(buffered') + i
      BY <1>3, <1>5, <1>6, <2>2
    <3> QED  BY <3>1, <1>5, <2>2
  <2>7. ~StageBudgetLeft'  BY <1>1, <2>2 DEF StageBudgetLeft
  <2> QED  BY <2>1, <2>2, <2>3, <2>4, <2>5, <2>6, <2>7 DEF FlowHolds
<1>8. ClientHolds'  BY <1>1, <1>2, <1>7 DEF ClientHolds
<1>9. /\ cancel' \in Cancellations \cup {"none"} /\ gone' \in BOOLEAN
      /\ events' \in Seq(Events) /\ cancel' = cancel
      /\ gen' \in {"first", "streaming", "closing", "closed"}
      /\ response' \in Reasons \cup {"none", "stream"}
  BY <1>1, <1>2 DEF TypeOK
<1> QED  BY <1>1, <1>5, <1>6, <1>8, <1>9, StreamMoves

-----------------------------------------------------------------------------
(* The last word of the endpoint.                                          *)

\* Whatever ends the stream adds at most one event, which is not a stage.
LEMMA Farewell ==
  ASSUME TypeOK, FlowHolds, NEW e \in Events, IsTerminal(e),
         events' = Append(events, e), UNCHANGED <<limit, emitted>>
  PROVE  /\ events' \in Seq(Events) /\ events' # << >>
         /\ events'[Len(events')] = e
         /\ Len(events') <= limit'
         /\ \A i \in 1 .. Len(events') :
              (i < Len(events') \/ ~IsTerminal(events'[i])) =>
                 i <= Len(emitted') /\ events'[i] = Stage(emitted'[i])
<1>1. /\ Len(events) \in Nat /\ limit \in Nat /\ events \in Seq(Events)
      /\ Len(queue) \in Nat /\ Len(buffered) \in Nat /\ Len(skipped) \in Nat
      /\ Len(emitted) \in Nat
  BY RecommendationsAssumption DEF TypeOK
<1>2. /\ Len(events) + Len(skipped) + Len(buffered) + Len(queue) = Len(emitted)
      /\ \A i \in 1 .. Len(events) : events[i] = Stage(emitted[i])
      /\ Len(events) < limit
  BY DEF FlowHolds
<1>3. /\ events' \in Seq(Events) /\ Len(events') = Len(events) + 1
      /\ \A i \in 1 .. Len(events) : events'[i] = events[i]
      /\ events'[Len(events) + 1] = e
  BY <1>1, Appended
<1>4. Len(events') <= limit' /\ events' # << >>
  BY <1>1, <1>2, <1>3
<1>5. Len(events) <= Len(emitted)  BY <1>1, <1>2
<1>6. ASSUME NEW i \in 1 .. Len(events'),
             i < Len(events') \/ ~IsTerminal(events'[i])
      PROVE  i <= Len(emitted') /\ events'[i] = Stage(emitted'[i])
  <2>1. i # Len(events) + 1  BY <1>1, <1>3, <1>6
  <2>2. i \in 1 .. Len(events)  BY <2>1, <1>1, <1>3
  <2>3. i <= Len(emitted)  BY <2>2, <1>1, <1>5
  <2> QED  BY <2>2, <2>3, <1>2, <1>3
<1> QED  BY <1>3, <1>4, <1>6

\* So does leaving without a word.
LEMMA Silence ==
  ASSUME TypeOK, FlowHolds, UNCHANGED <<limit, emitted, events>>
  PROVE  /\ Len(events') <= limit'
         /\ \A i \in 1 .. Len(events') :
              (i < Len(events') \/ ~IsTerminal(events'[i])) =>
                 i <= Len(emitted') /\ events'[i] = Stage(emitted'[i])
<1>1. /\ Len(events) \in Nat /\ limit \in Nat
      /\ Len(queue) \in Nat /\ Len(buffered) \in Nat /\ Len(skipped) \in Nat
      /\ Len(emitted) \in Nat
  BY RecommendationsAssumption DEF TypeOK
<1>2. /\ Len(events) + Len(skipped) + Len(buffered) + Len(queue) = Len(emitted)
      /\ \A i \in 1 .. Len(events) : events[i] = Stage(emitted[i])
      /\ Len(events) < limit
  BY DEF FlowHolds
<1>3. Len(events) <= Len(emitted) /\ Len(events) <= limit  BY <1>1, <1>2
<1>4. \A i \in 1 .. Len(events) : i <= Len(emitted)  BY <1>1, <1>3
<1> QED  BY <1>2, <1>3, <1>4

\* The stream gives up on a run that goes on, and says why.
LEMMA GivesUp ==
  ASSUME StreamInv, gen = "streaming", task = Running,
         NEW bound \in Bounds, Cancels(bound),
         events' = Append(events, Error(bound)), gen' = "closing",
         UNCHANGED <<input, world, run, pending, emitted, end, skipped,
                     response, gone>>,
         queue' \in Seq(StageNames), Len(queue') <= Len(queue),
         buffered' \in Seq(StageNames), Len(buffered') <= 1
  PROVE  StreamInv'
<1>1. TypeOK /\ FlowHolds  BY DEF StreamInv, ClientHolds
<1>2. Error(bound) \in Events /\ IsTerminal(Error(bound))
      /\ Error(bound).status = "error" /\ Error(bound).reason = bound
  BY DEF Events, IsTerminal, Error, Outcome
<1>3. UNCHANGED <<limit, emitted>> /\ task' = task  BY DEF input, end
<1>4. /\ events' \in Seq(Events) /\ events' # << >>
      /\ events'[Len(events')] = Error(bound)
      /\ Len(events') <= limit'
      /\ \A i \in 1 .. Len(events') :
           (i < Len(events') \/ ~IsTerminal(events'[i])) =>
              i <= Len(emitted') /\ events'[i] = Stage(emitted'[i])
  BY <1>1, <1>2, <1>3, Farewell
<1>5. bound \in Cancellations /\ bound # "none"  BY DEF Cancellations, Bounds
<1>6. cancel' \in Cancellations \cup {"none"} /\ cancel' = bound
  <2>1. cancel = "none"  BY <1>1 DEF FlowHolds
  <2> QED  BY <2>1, <1>1, <1>5, CancelsTyped
<1>7. FarewellHolds'
  <2>1. events'[Len(events')].status = "error"
        /\ task' = Running /\ cancel' # "none"
        /\ cancel' = events'[Len(events')].reason
    BY <1>2, <1>3, <1>4, <1>5, <1>6
  <2> QED  BY <2>1, <1>4 DEF FarewellHolds
<1>8. ClientHolds'  BY <1>7 DEF ClientHolds
<1>9. /\ gone' \in BOOLEAN /\ skipped' \in Seq(StageNames)
      /\ gen' \in {"first", "streaming", "closing", "closed"}
      /\ response' \in Reasons \cup {"none", "stream"}
  BY <1>1 DEF TypeOK
<1> QED  BY <1>4, <1>6, <1>8, <1>9, StreamMoves

LEMMA EventLimitKept ==
  ASSUME StreamInv, EventLimit
  PROVE  StreamInv'
<1>1. /\ gen = "streaming" /\ Pending # << >> /\ task = Running
      /\ Cancels("stream_event_limit_exceeded")
      /\ events' = Append(events, Error("stream_event_limit_exceeded"))
      /\ TakesNext /\ gen' = "closing"
      /\ UNCHANGED <<input, world, run, pending, emitted, end, skipped,
                     response, gone>>
  BY DEF EventLimit
<1>2. TypeOK /\ FlowHolds  BY <1>1 DEF StreamInv, ClientHolds
<1>3. /\ queue' \in Seq(StageNames) /\ Len(queue') <= Len(queue)
      /\ buffered' \in Seq(StageNames) /\ Len(buffered') <= 1
  BY <1>1, <1>2, Taking
<1>4. "stream_event_limit_exceeded" \in Bounds  BY DEF Bounds
<1> QED  BY <1>1, <1>3, <1>4, GivesUp

LEMMA DurationBoundKept ==
  ASSUME StreamInv, DurationBound
  PROVE  StreamInv'
<1>1. /\ gen = "streaming" /\ task = Running
      /\ Cancels("stream_duration_exceeded")
      /\ events' = Append(events, Error("stream_duration_exceeded"))
      /\ gen' = "closing" /\ queue' = queue /\ buffered' = buffered
      /\ UNCHANGED <<input, world, run, pending, emitted, end, skipped,
                     response, gone>>
  BY DEF DurationBound, stages
<1>2. /\ queue' \in Seq(StageNames) /\ Len(queue') <= Len(queue)
      /\ buffered' \in Seq(StageNames) /\ Len(buffered') <= 1
  <2>1. TypeOK  BY DEF StreamInv
  <2>2. queue \in Seq(StageNames) /\ Len(queue) \in Nat
        /\ buffered \in Seq(StageNames) /\ Len(buffered) <= 1
    BY <2>1 DEF TypeOK
  <2> QED  BY <2>2, <1>1
<1>3. "stream_duration_exceeded" \in Bounds  BY DEF Bounds
<1> QED  BY <1>1, <1>2, <1>3, GivesUp

\* What the stream does without touching its stages.
LEMMA StreamRests ==
  ASSUME StreamInv, UNCHANGED <<input, world, run, stages, end, buffered, skipped>>,
         cancel' \in Cancellations \cup {"none"}, cancel' = cancel \/ task = Running,
         gen' \in {"first", "streaming", "closing", "closed"}, gone' \in BOOLEAN,
         events' \in Seq(Events), response' \in Reasons \cup {"none", "stream"},
         ClientHolds'
  PROVE  StreamInv'
<1>1. TypeOK  BY DEF StreamInv
<1>2. /\ queue' = queue /\ buffered' = buffered /\ skipped' = skipped
      /\ UNCHANGED <<pending, emitted>>
  BY DEF stages
<1>3. /\ queue' \in Seq(StageNames) /\ Len(queue') <= Len(queue)
      /\ buffered' \in Seq(StageNames) /\ Len(buffered') <= 1
      /\ skipped' \in Seq(StageNames)
  <2>1. queue \in Seq(StageNames) /\ Len(queue) \in Nat
        /\ buffered \in Seq(StageNames) /\ Len(buffered) <= 1
        /\ skipped \in Seq(StageNames)
    BY <1>1 DEF TypeOK
  <2> QED  BY <2>1, <1>2
<1> QED  BY <1>2, <1>3, StreamMoves

LEMMA TerminalKept ==
  ASSUME StreamInv, Terminal
  PROVE  StreamInv'
<1>1. /\ gen = "streaming" /\ task # Running
      /\ events' = IF task.status = "cancelled" THEN events ELSE Append(events, task)
      /\ gen' = "closing"
      /\ UNCHANGED <<input, world, run, cancel, stages, end, buffered, skipped,
                     response, gone>>
  BY DEF Terminal
<1>2. TypeOK /\ FlowHolds /\ LedgerHolds  BY <1>1 DEF StreamInv, ClientHolds
<1>3. task.status # "cancelled"  BY <1>2 DEF FlowHolds, LedgerHolds
<1>4. task \in Events /\ IsTerminal(task)
  <2>1. task \in Outcomes  BY <1>1, <1>2 DEF TypeOK
  <2>2. task.status # "stage"
    BY <2>1 DEF Outcomes, Outcome, Error, Insufficient, Clarified, Recommended
  <2> QED  BY <2>1, <2>2 DEF Events, IsTerminal
<1>5. UNCHANGED <<limit, emitted>> /\ task' = task  BY <1>1 DEF input, end, stages
<1>6. events' = Append(events, task)  BY <1>1, <1>3
<1>7. /\ events' \in Seq(Events) /\ events' # << >>
      /\ events'[Len(events')] = task
      /\ Len(events') <= limit'
      /\ \A i \in 1 .. Len(events') :
           (i < Len(events') \/ ~IsTerminal(events'[i])) =>
              i <= Len(emitted') /\ events'[i] = Stage(emitted'[i])
  BY <1>2, <1>4, <1>5, <1>6, Farewell
<1>8. FarewellHolds'  BY <1>1, <1>5, <1>7 DEF FarewellHolds
<1>9. ClientHolds'  BY <1>1, <1>8 DEF ClientHolds
<1>10. /\ cancel' \in Cancellations \cup {"none"} /\ cancel' = cancel
       /\ gone' \in BOOLEAN /\ response' \in Reasons \cup {"none", "stream"}
  BY <1>1, <1>2 DEF TypeOK
<1> QED  BY <1>1, <1>7, <1>9, <1>10, StreamRests

LEMMA EarlyFailureKept ==
  ASSUME StreamInv, EarlyFailure
  PROVE  StreamInv'
<1>1. /\ gen = "first" /\ task.status = "error"
      /\ gen' = "closed" /\ response' = task.reason
      /\ UNCHANGED <<input, world, run, cancel, stages, end, buffered, events,
                     skipped, gone>>
  BY DEF EarlyFailure
<1>2. TypeOK /\ FlowHolds  BY <1>1 DEF StreamInv, ClientHolds
<1>3. task.reason \in Reasons
  <2>1. task \in Outcomes \cup {Running}  BY <1>2 DEF TypeOK
  <2> QED
    BY <2>1, <1>1 DEF Outcomes, Outcome, Error, Insufficient, Clarified,
                      Recommended, Running
<1>4. "stream" \notin Reasons  BY DEF Reasons
<1>5. UNCHANGED <<limit, emitted, events>>  BY <1>1 DEF input, stages
<1>6. /\ Len(events') <= limit'
      /\ \A i \in 1 .. Len(events') :
           (i < Len(events') \/ ~IsTerminal(events'[i])) =>
              i <= Len(emitted') /\ events'[i] = Stage(emitted'[i])
  BY <1>2, <1>5, Silence
<1>7. response' # "stream"  BY <1>1, <1>3, <1>4
<1>8. FarewellHolds'  BY <1>6, <1>7 DEF FarewellHolds
<1>9. ClientHolds'  BY <1>1, <1>8 DEF ClientHolds
<1>10. /\ cancel' \in Cancellations \cup {"none"} /\ cancel' = cancel
       /\ gone' \in BOOLEAN /\ events' \in Seq(Events)
  BY <1>1, <1>2 DEF TypeOK
<1> QED  BY <1>1, <1>3, <1>9, <1>10, StreamRests

LEMMA DisconnectedKept ==
  ASSUME StreamInv, Disconnected
  PROVE  StreamInv'
<1>1. /\ gone /\ gen \in {"first", "streaming"} /\ gen' = "closing"
      /\ UNCHANGED <<input, world, run, stages, end, buffered, events, skipped,
                     response, gone>>
  BY DEF Disconnected
<1>2. PICK reason \in {"client_disconnect", "stream_closed"} : Cancels(reason)
  BY DEF Disconnected
<1>3. TypeOK /\ FlowHolds  BY <1>1 DEF StreamInv, ClientHolds
<1>4. reason \in Cancellations  BY DEF Cancellations
<1>5. cancel' \in Cancellations \cup {"none"} /\ (cancel' = cancel \/ task = Running)
  BY <1>2, <1>3, <1>4, CancelsTyped
<1>6. UNCHANGED <<limit, emitted, events>>  BY <1>1 DEF input, stages
<1>7. /\ Len(events') <= limit'
      /\ \A i \in 1 .. Len(events') :
           (i < Len(events') \/ ~IsTerminal(events'[i])) =>
              i <= Len(emitted') /\ events'[i] = Stage(emitted'[i])
  BY <1>3, <1>6, Silence
<1>8. FarewellHolds'  BY <1>1, <1>7 DEF FarewellHolds
<1>9. ClientHolds'  BY <1>1, <1>8 DEF ClientHolds
<1>10. /\ gone' \in BOOLEAN /\ events' \in Seq(Events)
       /\ response' \in Reasons \cup {"none", "stream"}
  BY <1>1, <1>3 DEF TypeOK
<1> QED  BY <1>1, <1>5, <1>9, <1>10, StreamRests

LEMMA ClientLeavesKept ==
  ASSUME StreamInv, ClientLeaves
  PROVE  StreamInv'
<1>1. /\ gone' = TRUE /\ gen' = gen /\ cancel' = cancel /\ response' = response
      /\ events' = events /\ buffered' = buffered /\ skipped' = skipped
      /\ UNCHANGED <<input, world, run, stages, end>>
  BY DEF ClientLeaves
<1>2. TypeOK /\ ClientHolds  BY DEF StreamInv
<1>3. limit' = limit /\ emitted' = emitted /\ queue' = queue
  BY <1>1 DEF input, stages
<1>4. FlowHolds => FlowHolds'
  BY <1>1, <1>3 DEF FlowHolds, StageBudgetLeft
<1>5. FarewellHolds => FarewellHolds'  BY <1>1, <1>3 DEF FarewellHolds
<1>6. ClientHolds'  BY <1>1, <1>2, <1>4, <1>5 DEF ClientHolds
<1>7. /\ cancel' \in Cancellations \cup {"none"} /\ gone' \in BOOLEAN
      /\ gen' \in {"first", "streaming", "closing", "closed"}
      /\ events' \in Seq(Events) /\ response' \in Reasons \cup {"none", "stream"}
  BY <1>1, <1>2 DEF TypeOK
<1>8. UNCHANGED <<input, world, run, stages, end, buffered, skipped>>  BY <1>1
<1> QED  BY <1>1, <1>6, <1>7, <1>8, StreamRests

LEMMA ClosedKept ==
  ASSUME StreamInv, Closed
  PROVE  StreamInv'
<1>1. /\ gen = "closing" /\ gen' = "closed" /\ Cancels("stream_closed")
      /\ UNCHANGED <<input, world, run, stages, end, buffered, events, skipped,
                     response, gone>>
  BY DEF Closed
<1>2. TypeOK /\ FarewellHolds  BY <1>1 DEF StreamInv, ClientHolds
<1>3. "stream_closed" \in Cancellations  BY DEF Cancellations
<1>4. /\ cancel' \in Cancellations \cup {"none"} /\ (cancel' = cancel \/ task = Running)
      /\ cancel # "none" => cancel' = cancel
  BY <1>1, <1>2, <1>3, CancelsTyped
<1>5. limit' = limit /\ emitted' = emitted /\ task' = task
  BY <1>1 DEF input, stages, end
<1>6. FarewellHolds'  BY <1>1, <1>2, <1>4, <1>5 DEF FarewellHolds
<1>7. ClientHolds'  BY <1>1, <1>6 DEF ClientHolds
<1>8. /\ gone' \in BOOLEAN /\ events' \in Seq(Events)
      /\ response' \in Reasons \cup {"none", "stream"}
  BY <1>1, <1>2 DEF TypeOK
<1> QED  BY <1>1, <1>4, <1>7, <1>8, StreamRests

LEMMA OthersActKept ==
  ASSUME StreamInv, OthersAct, UNCHANGED stream
  PROVE  StreamInv'
<1>1. /\ changes < MaxChanges /\ changes' = changes + 1
      /\ UNCHANGED <<input, run, cancel, stages, end>>
  BY DEF OthersAct
<1>2. /\ TypeOK /\ ClientHolds /\ changes \in 0 .. MaxChanges
      /\ doc \in [Recipes -> Contents]
      /\ grp \in {"current", "edited", "superseded", "gone"}
  BY DEF StreamInv, TypeOK
<1>3. /\ gen' = gen /\ buffered' = buffered /\ events' = events
      /\ skipped' = skipped /\ response' = response /\ gone' = gone
      /\ limit' = limit /\ toolMode' = toolMode /\ emitted' = emitted
      /\ queue' = queue /\ cancel' = cancel /\ task' = task
      /\ pending' = pending /\ pc' = pc /\ local' = local /\ call' = call
      /\ ledger' = ledger /\ telemetry' = telemetry /\ ending' = ending
  BY <1>1 DEF stream, input, stages, end, run
<1>4. /\ doc' \in [Recipes -> Contents] /\ changes' \in 0 .. MaxChanges
      /\ grp' \in {"current", "edited", "superseded", "gone"}
  <2>1. changes' \in 0 .. MaxChanges
    BY <1>1, <1>2, RecommendationsAssumption
  <2>2. CASE grp' \in {"edited", "superseded", "gone"} /\ UNCHANGED doc
    BY <2>1, <2>2, <1>2
  <2>3. CASE grp' = grp /\ \E r \in Recipes : \E v \in {"good2", "none"} \ {doc[r]} :
               doc' = [doc EXCEPT ![r] = v]
    <3>1. PICK r \in Recipes : \E v \in {"good2", "none"} \ {doc[r]} :
                 doc' = [doc EXCEPT ![r] = v]
      BY <2>3
    <3>2. PICK v \in {"good2", "none"} : doc' = [doc EXCEPT ![r] = v]
      BY <3>1
    <3>3. v \in Contents  BY DEF Contents
    <3> QED  BY <3>2, <3>3, <2>1, <2>3, <1>2
  <2> QED  BY <2>2, <2>3 DEF OthersAct
<1>5. TypeOK'  BY <1>2, <1>3, <1>4 DEF TypeOK
<1>6. ScriptHolds' /\ LedgerHolds' /\ ChoiceHolds'
  <2>1. UNCHANGED <<input, run, pending, emitted, end>>  BY <1>1 DEF stages
  <2>2. Len(queue') <= Len(queue) /\ Len(queue') \in Nat  BY <1>2, <1>3 DEF TypeOK
  <2> QED  BY <2>1, <2>2, <1>3, RunUntouched
<1>7. FlowHolds => FlowHolds'  BY <1>3 DEF FlowHolds, StageBudgetLeft
<1>8. FarewellHolds => FarewellHolds'  BY <1>3 DEF FarewellHolds
<1>9. ClientHolds'  BY <1>2, <1>3, <1>7, <1>8 DEF ClientHolds
<1> QED  BY <1>5, <1>6, <1>9 DEF StreamInv

LEMMA StreamStarts ==
  ASSUME Init
  PROVE  StreamInv
<1>1. /\ toolMode \in BOOLEAN /\ limit \in QueueSizes
      /\ grp \in {"current", "edited", "superseded", "gone"}
      /\ doc \in Corpora /\ changes = 0
      /\ pc = "entry" /\ local = NoLocals /\ call = NoCall /\ ledger = << >>
      /\ task = Running /\ cancel = "none" /\ telemetry = << >> /\ ending = Running
      /\ queue = << >> /\ pending = << >> /\ emitted = << >>
      /\ gen = "first" /\ buffered = << >> /\ events = << >> /\ skipped = << >>
      /\ response = "none" /\ gone = FALSE
  BY DEF Init, RunInit
<1>2. /\ limit \in Nat \ {0} /\ doc \in [Recipes -> Contents]
      /\ changes \in 0 .. MaxChanges
  <2>1. QueueSizes \subseteq Nat \ {0, 1} /\ MaxChanges \in Nat
        /\ Corpora \subseteq [Recipes -> {"good", "incomplete", "violates"}]
    BY RecommendationsAssumption
  <2>2. [Recipes -> {"good", "incomplete", "violates"}] \subseteq [Recipes -> Contents]
    BY DEF Contents
  <2> QED  BY <2>1, <2>2, <1>1
<1>3. /\ << >> \in Seq(LedgerEntries) /\ << >> \in Seq(StageNames)
      /\ << >> \in Seq(Outcomes) /\ << >> \in Seq(Events)
      /\ Len(<< >>) = 0
  OBVIOUS
<1>4. NoLocals \in Locals  BY DEF NoLocals, Locals, Contents
<1>5. TypeOK
  <2>1. /\ ledger \in Seq(LedgerEntries) /\ Len(ledger) = 0
        /\ queue \in Seq(StageNames) /\ Len(queue) = 0
        /\ pending \in Seq(StageNames) /\ emitted \in Seq(StageNames)
        /\ telemetry \in Seq(Outcomes) /\ events \in Seq(Events)
        /\ buffered \in Seq(StageNames) /\ Len(buffered) = 0
        /\ skipped \in Seq(StageNames)
    BY <1>1, <1>3
  <2>2. /\ Len(ledger) <= (IF toolMode THEN 2 ELSE 1)
        /\ Len(queue) <= limit /\ Len(buffered) <= 1
    BY <2>1, <1>2
  <2>3. local \in Locals /\ call \in Call  BY <1>1, <1>4, NoCallTyped
  <2>4. task \in Outcomes \cup {Running} /\ ending \in Outcomes \cup {Running}
    BY <1>1
  <2> QED  BY <2>1, <2>2, <2>3, <2>4, <1>1, <1>2 DEF TypeOK
<1>6. Reached = 0 /\ At(pc) = 0 /\ Announced(0) = 0
  BY <1>1, <1>3 DEF Reached, At, Announced
<1>7. ScriptHolds
  <2>1. Len(Script) \in Nat
    <3>1. toolMode \in BOOLEAN  BY <1>1
    <3> QED  BY <3>1, ScriptTyped
  <2>2. ending.status # "cancelled"  BY <1>1 DEF Running, Outcome
  <2>3. pc \notin ToolPoints /\ pc # "done"  BY <1>1 DEF ToolPoints
  <2> QED  BY <1>1, <1>3, <1>6, <2>1, <2>2, <2>3 DEF ScriptHolds
<1>8. LedgerHolds
  <2>1. pc \notin Turns /\ task.status # "cancelled"
        /\ call.phase # "sleeping"
    BY <1>1 DEF Turns, Running, Outcome, NoCall, NewCall
  <2> QED  BY <2>1, <1>1, <1>3, <1>6 DEF LedgerHolds
<1>9. ChoiceHolds  BY <1>1 DEF ChoiceHolds, Running, Recommended, Outcome
<1>10. ClientHolds
  BY <1>1, <1>2, <1>3 DEF ClientHolds, FlowHolds
<1> QED  BY <1>5, <1>7, <1>8, <1>9, <1>10 DEF StreamInv

LEMMA StreamKept ==
  ASSUME StreamInv, [Next]_vars
  PROVE  StreamInv'
<1>1. CASE RunStep /\ UNCHANGED stream  BY <1>1, RunStepKept
<1>2. CASE StreamStep
  BY <1>2, FirstStageKept, EarlyFailureKept, SendStageKept, SkipStageKept,
     EventLimitKept, TerminalKept, GetterTakesKept, DisconnectedKept, ClosedKept
  DEF StreamStep
<1>3. CASE OthersAct /\ UNCHANGED stream  BY <1>3, OthersActKept
<1>4. CASE DurationBound  BY <1>4, DurationBoundKept
<1>5. CASE ClientLeaves  BY <1>5, ClientLeavesKept
<1>6. CASE UNCHANGED vars
  <2>1. /\ UNCHANGED <<input, world, run, stages, end, buffered, skipped>>
        /\ gen' = gen /\ buffered' = buffered /\ events' = events
        /\ skipped' = skipped /\ response' = response /\ gone' = gone
        /\ cancel' = cancel
    BY <1>6 DEF vars, stream
  <2>2. TypeOK /\ ClientHolds  BY DEF StreamInv
  <2>3. limit' = limit /\ emitted' = emitted /\ queue' = queue /\ task' = task
    BY <2>1 DEF input, stages, end
  <2>4. FlowHolds => FlowHolds'  BY <2>1, <2>3 DEF FlowHolds, StageBudgetLeft
  <2>5. FarewellHolds => FarewellHolds'  BY <2>1, <2>3 DEF FarewellHolds
  <2>6. ClientHolds'  BY <2>1, <2>2, <2>4, <2>5 DEF ClientHolds
  <2>7. /\ cancel' \in Cancellations \cup {"none"} /\ gone' \in BOOLEAN
        /\ gen' \in {"first", "streaming", "closing", "closed"}
        /\ events' \in Seq(Events) /\ response' \in Reasons \cup {"none", "stream"}
    BY <2>1, <2>2 DEF TypeOK
  <2> QED  BY <2>1, <2>6, <2>7, StreamRests
<1> QED  BY <1>1, <1>2, <1>3, <1>4, <1>5, <1>6 DEF Next

LEMMA StreamInductive == Spec => []StreamInv
  BY StreamStarts, StreamKept, PTL DEF Spec

-----------------------------------------------------------------------------
(* The theorems.                                                           *)

\* Every variable keeps its type, a run never makes a third turn nor a turn
\* more attempts than its retries allow, and the stage queue of the service
\* stays within rec_stream_max_events.
THEOREM TypeCorrect == Spec => []TypeOK
<1>1. StreamInv => TypeOK  BY DEF StreamInv
<1> QED  BY <1>1, StreamInductive, PTL

LEMMA Joined ==
  ASSUME NEW S, NEW m \in Seq(S), NEW a \in Seq(S), NEW b \in Seq(S),
         \A i \in 1 .. Len(a) : a[i] = m[i],
         \A i \in 1 .. Len(b) : b[i] = m[Len(a) + i]
  PROVE  /\ a \o b \in Seq(S) /\ Len(a \o b) = Len(a) + Len(b)
         /\ \A i \in 1 .. Len(a \o b) : (a \o b)[i] = m[i]
<1>0. Len(a) \in Nat /\ Len(b) \in Nat  OBVIOUS
<1>1. /\ a \o b \in Seq(S) /\ Len(a \o b) = Len(a) + Len(b)
      /\ \A i \in 1 .. Len(a) : (a \o b)[i] = a[i]
      /\ \A i \in 1 .. Len(b) : (a \o b)[Len(a) + i] = b[i]
  BY Extended
<1>2. ASSUME NEW i \in 1 .. Len(a \o b) PROVE (a \o b)[i] = m[i]
  <2>1. CASE i \in 1 .. Len(a)  BY <2>1, <1>1
  <2>2. CASE i \notin 1 .. Len(a)
    <3>1. i - Len(a) \in 1 .. Len(b) /\ Len(a) + (i - Len(a)) = i
      BY <2>2, <1>0, <1>1
    <3> QED  BY <3>1, <1>1
  <2> QED  BY <2>1, <2>2
<1> QED  BY <1>1, <1>2

\* While the stream goes on, what it passed on, left out, holds and has still
\* to take is everything the run emitted.
LEMMA NothingLost ==
  ASSUME TypeOK, FlowHolds
  PROVE  [i \in DOMAIN Sent |-> Sent[i].reason] \o skipped \o buffered \o queue
           = emitted
<1>1. /\ emitted \in Seq(StageNames) /\ skipped \in Seq(StageNames)
      /\ buffered \in Seq(StageNames) /\ queue \in Seq(StageNames)
      /\ events \in Seq(Events)
  BY DEF TypeOK
<1>2. /\ Len(events) \in Nat /\ Len(skipped) \in Nat /\ Len(buffered) \in Nat
      /\ Len(queue) \in Nat /\ Len(emitted) \in Nat
  BY <1>1
<1>3. /\ Len(events) + Len(skipped) + Len(buffered) + Len(queue) = Len(emitted)
      /\ \A i \in 1 .. Len(events) : events[i] = Stage(emitted[i])
      /\ \A i \in 1 .. Len(skipped) : skipped[i] = emitted[Len(events) + i]
      /\ \A i \in 1 .. Len(buffered) :
           buffered[i] = emitted[Len(events) + Len(skipped) + i]
      /\ \A i \in 1 .. Len(queue) :
           queue[i] = emitted[Len(events) + Len(skipped) + Len(buffered) + i]
  BY DEF FlowHolds
<1> DEFINE told == [i \in DOMAIN Sent |-> Sent[i].reason]
<1>4. /\ told \in Seq(StageNames) /\ Len(told) = Len(events)
      /\ \A i \in 1 .. Len(told) : told[i] = emitted[i]
  <2>1. \A i \in 1 .. Len(events) :
          /\ i \in 1 .. Len(emitted) /\ emitted[i] \in StageNames
          /\ ~IsTerminal(events[i]) /\ events[i].reason = emitted[i]
    <3>1. ASSUME NEW i \in 1 .. Len(events)
          PROVE  /\ i \in 1 .. Len(emitted) /\ emitted[i] \in StageNames
                 /\ ~IsTerminal(events[i]) /\ events[i].reason = emitted[i]
      <4>1. i \in 1 .. Len(emitted)  BY <1>2, <1>3
      <4>2. emitted[i] \in StageNames  BY <4>1, <1>1
      <4> QED  BY <4>1, <4>2, <1>3, StageTyped
    <3> QED  BY <3>1
  <2>2. DOMAIN events = 1 .. Len(events)  BY <1>1
  <2>3. DOMAIN Sent = 1 .. Len(events)  BY <2>1, <2>2 DEF Sent
  <2>4. told = [i \in 1 .. Len(events) |-> emitted[i]]
    <3>1. \A i \in 1 .. Len(events) : Sent[i].reason = emitted[i]
      BY <2>1, <2>2 DEF Sent
    <3> QED  BY <3>1, <2>3
  <2> HIDE DEF told
  <2>5. told \in Seq(StageNames)  BY <2>1, <2>4, <1>2
  <2>6. Len(told) = Len(events)  BY <2>4, <2>5, <1>2
  <2> QED  BY <2>4, <2>5, <2>6
<1> HIDE DEF told
<1>5. /\ told \o skipped \in Seq(StageNames)
      /\ Len(told \o skipped) = Len(events) + Len(skipped)
      /\ \A i \in 1 .. Len(told \o skipped) : (told \o skipped)[i] = emitted[i]
  <2>1. \A i \in 1 .. Len(skipped) : skipped[i] = emitted[Len(told) + i]
    BY <1>3, <1>4
  <2>2. told \in Seq(StageNames) /\ skipped \in Seq(StageNames)
        /\ emitted \in Seq(StageNames)
    BY <1>1, <1>4
  <2>3. \A i \in 1 .. Len(told) : told[i] = emitted[i]  BY <1>4
  <2>4. /\ told \o skipped \in Seq(StageNames)
        /\ Len(told \o skipped) = Len(told) + Len(skipped)
        /\ \A i \in 1 .. Len(told \o skipped) : (told \o skipped)[i] = emitted[i]
    BY <2>1, <2>2, <2>3, Joined
  <2> QED  BY <2>4, <1>4
<1>6. /\ (told \o skipped) \o buffered \in Seq(StageNames)
      /\ Len((told \o skipped) \o buffered)
           = Len(events) + Len(skipped) + Len(buffered)
      /\ \A i \in 1 .. Len((told \o skipped) \o buffered) :
           ((told \o skipped) \o buffered)[i] = emitted[i]
  <2> DEFINE a == told \o skipped
  <2>1. \A i \in 1 .. Len(buffered) : buffered[i] = emitted[Len(a) + i]
    BY <1>3, <1>5
  <2>2. /\ a \in Seq(StageNames) /\ Len(a) = Len(events) + Len(skipped)
        /\ \A i \in 1 .. Len(a) : a[i] = emitted[i]
    BY <1>5
  <2> HIDE DEF a
  <2>3. /\ a \o buffered \in Seq(StageNames)
        /\ Len(a \o buffered) = Len(a) + Len(buffered)
        /\ \A i \in 1 .. Len(a \o buffered) : (a \o buffered)[i] = emitted[i]
    <3>1. a \in Seq(StageNames) /\ buffered \in Seq(StageNames)
          /\ emitted \in Seq(StageNames)
      BY <1>1, <2>2
    <3>2. \A i \in 1 .. Len(a) : a[i] = emitted[i]  BY <2>2
    <3> QED  BY <2>1, <3>1, <3>2, Joined
  <2> QED  BY <2>2, <2>3 DEF a
<1>7. /\ ((told \o skipped) \o buffered) \o queue \in Seq(StageNames)
      /\ Len(((told \o skipped) \o buffered) \o queue) = Len(emitted)
      /\ \A i \in 1 .. Len(((told \o skipped) \o buffered) \o queue) :
           (((told \o skipped) \o buffered) \o queue)[i] = emitted[i]
  <2> DEFINE a == (told \o skipped) \o buffered
  <2>1. \A i \in 1 .. Len(queue) : queue[i] = emitted[Len(a) + i]
    BY <1>3, <1>6
  <2>2. /\ a \in Seq(StageNames)
        /\ Len(a) = Len(events) + Len(skipped) + Len(buffered)
        /\ \A i \in 1 .. Len(a) : a[i] = emitted[i]
    BY <1>6
  <2> HIDE DEF a
  <2>3. /\ a \o queue \in Seq(StageNames)
        /\ Len(a \o queue) = Len(a) + Len(queue)
        /\ \A i \in 1 .. Len(a \o queue) : (a \o queue)[i] = emitted[i]
    <3>1. a \in Seq(StageNames) /\ queue \in Seq(StageNames)
          /\ emitted \in Seq(StageNames)
      BY <1>1, <2>2
    <3>2. \A i \in 1 .. Len(a) : a[i] = emitted[i]  BY <2>2
    <3> QED  BY <2>1, <3>1, <3>2, Joined
  <2>4. Len(a \o queue) = Len(emitted)  BY <2>2, <2>3, <1>3
  <2> QED  BY <2>3, <2>4 DEF a
<1>8. ((told \o skipped) \o buffered) \o queue = emitted
  <2> DEFINE a == ((told \o skipped) \o buffered) \o queue
  <2>1. /\ a \in Seq(StageNames) /\ Len(a) = Len(emitted)
        /\ \A i \in 1 .. Len(a) : a[i] = emitted[i]
    BY <1>7
  <2> HIDE DEF a
  <2>2. a = emitted  BY <2>1, <1>1, SeqEqual
  <2> QED  BY <2>2 DEF a
<1> QED  BY <1>8 DEF told

LEMMA ContractHolds == StreamInv => StreamContract
<1> SUFFICES ASSUME StreamInv PROVE StreamContract  OBVIOUS
<1>1. TypeOK /\ ClientHolds  BY DEF StreamInv
<1>2. /\ events \in Seq(Events) /\ Len(events) \in Nat /\ limit \in Nat
      /\ emitted \in Seq(StageNames) /\ Len(emitted) \in Nat
      /\ Len(queue) \in Nat /\ Len(buffered) \in Nat /\ Len(skipped) \in Nat
      /\ DOMAIN events = 1 .. Len(events)
      /\ gen \in {"first", "streaming", "closing", "closed"}
  BY <1>1, RecommendationsAssumption DEF TypeOK
<1>3. CASE gen \in {"first", "streaming"}
  <2>1. FlowHolds  BY <1>1, <1>3 DEF ClientHolds
  <2>2. /\ Len(events) + Len(skipped) + Len(buffered) + Len(queue) = Len(emitted)
        /\ \A i \in 1 .. Len(events) : events[i] = Stage(emitted[i])
        /\ Len(events) < limit
    BY <2>1 DEF FlowHolds
  <2>3. ASSUME NEW i \in 1 .. Len(events)
        PROVE  i <= Len(emitted) /\ ~IsTerminal(events[i])
    <3>1. i \in 1 .. Len(emitted)  BY <1>2, <2>2
    <3>2. emitted[i] \in StageNames  BY <3>1, <1>2
    <3> QED  BY <3>1, <3>2, <1>2, <2>2, StageTyped
  <2>4. \A i \in DOMAIN Sent : i \in 1 .. Len(events) /\ Sent[i] = events[i]
    BY <1>2 DEF Sent
  <2>5. Len(events) <= limit  BY <1>2, <2>2
  <2>6. \A i \in DOMAIN Sent : i <= Len(emitted) /\ Sent[i] = Stage(emitted[i])
    BY <2>2, <2>3, <2>4
  <2>7. gen # "closed"  BY <1>3
  <2> QED  BY <1>1, <1>2, <2>1, <2>3, <2>5, <2>6, <2>7, NothingLost DEF StreamContract
<1>4. CASE gen \in {"closing", "closed"}
  <2>1. FarewellHolds  BY <1>1, <1>4 DEF ClientHolds
  <2>2. /\ Len(events) <= limit
        /\ \A i \in 1 .. Len(events) :
             (i < Len(events) \/ ~IsTerminal(events[i])) =>
                i <= Len(emitted) /\ events[i] = Stage(emitted[i])
        /\ (response = "stream" /\ ~gone) =>
             LET last == events[Len(events)]
             IN \/ last = task
                \/ /\ last.status = "error"
                   /\ task = Running \/ task.status = "cancelled"
                   /\ cancel = last.reason
    BY <2>1 DEF FarewellHolds
  <2>3. ASSUME NEW i \in 1 .. Len(events), IsTerminal(events[i]) PROVE i = Len(events)
    <3>1. ASSUME i < Len(events) PROVE FALSE
      <4>1. i <= Len(emitted) /\ events[i] = Stage(emitted[i])  BY <2>2, <3>1
      <4>2. i \in 1 .. Len(emitted)  BY <4>1, <1>2
      <4>3. emitted[i] \in StageNames  BY <4>2, <1>2
      <4> QED  BY <4>1, <4>3, <2>3, StageTyped
    <3>2. ~(i < Len(events))  BY <3>1
    <3> DEFINE m == Len(events)
    <3>3. m \in Nat /\ i \in 1 .. m /\ ~(i < m)  BY <3>2, <1>2
    <3> HIDE DEF m
    <3>4. i = m  BY <3>3
    <3> QED  BY <3>4 DEF m
  <2>4. \A i \in DOMAIN Sent :
          i \in 1 .. Len(events) /\ Sent[i] = events[i] /\ ~IsTerminal(events[i])
    BY <1>2 DEF Sent
  <2>5. \A i \in DOMAIN Sent : i <= Len(emitted) /\ Sent[i] = Stage(emitted[i])
    BY <2>2, <2>4
  <2>6. \A i \in DOMAIN events : IsTerminal(events[i]) => i = Len(events)
    BY <2>3, <1>2
  <2> QED  BY <1>4, <2>2, <2>5, <2>6 DEF StreamContract
<1> QED  BY <1>2, <1>3, <1>4

\* What the endpoint promises its client, for every length of the stage queue
\* and however the run, the client and the clock interleave: the stages in
\* the order the workflow emitted them and without a gap, never more events
\* than the limit, and one terminal event, the last, that tells how the run
\* ended or why it was cancelled.
THEOREM ContractKept == Spec => []StreamContract
  BY StreamInductive, ContractHolds, PTL

LEMMA RequestsAnnounced ==
  ASSUME TypeOK, ScriptHolds
  PROVE  Cardinality({ i \in DOMAIN emitted : emitted[i] = "provider_request" })
           = Announced(Len(emitted))
<1>1. /\ toolMode \in BOOLEAN /\ emitted \in Seq(StageNames)
      /\ Len(emitted) \in Nat /\ Len(pending) \in Nat
      /\ DOMAIN emitted = 1 .. Len(emitted)
  BY DEF TypeOK
<1>2. Len(emitted) <= Len(Script)
  <2>1. Len(Script) \in Nat  BY <1>1, ScriptTyped
  <2>2. Len(emitted) + Len(pending) <= Len(Script)  BY DEF ScriptHolds, Reached
  <2> QED  BY <2>1, <2>2, <1>1
<1> DEFINE n == Len(emitted)
           asked == { i \in DOMAIN emitted : emitted[i] = "provider_request" }
<1>3. asked = { i \in 1 .. n : i = 6 \/ (toolMode /\ i = 8) }
  <2>1. ASSUME NEW i \in 1 .. n
        PROVE  emitted[i] = "provider_request" <=> (i = 6 \/ (toolMode /\ i = 8))
    <3>1. Len(Script) \in Nat  BY <1>1, ScriptTyped
    <3>2. i \in 1 .. Len(Script)  BY <3>1, <1>1, <1>2
    <3>3. emitted[i] = Script[i]  BY DEF ScriptHolds
    <3> QED  BY <3>2, <3>3, <1>1, ScriptAnnounces
  <2> QED  BY <2>1, <1>1
<1> HIDE DEF asked
<1>4. CASE n < 6
  <2>1. asked = {}  BY <1>1, <1>3, <1>4
  <2> QED  BY <2>1, <1>4, FS_EmptySet DEF Announced, asked
<1>5. CASE n >= 6 /\ ~(toolMode /\ n >= 8)
  <2>1. asked = {6}  BY <1>1, <1>3, <1>5
  <2>2. Announced(n) = 1  BY <1>1, <1>5 DEF Announced
  <2> QED  BY <2>1, <2>2, FS_Singleton DEF asked
<1>6. CASE toolMode /\ n >= 8
  <2>1. asked = {6} \cup {8}  BY <1>1, <1>3, <1>6
  <2>2. IsFiniteSet({6}) /\ Cardinality({6}) = 1 /\ 8 \notin {6}  BY FS_Singleton
  <2>3. Cardinality({6} \cup {8}) = 2  BY <2>2, FS_AddElement
  <2>4. Announced(n) = 2  BY <1>1, <1>6 DEF Announced
  <2> QED  BY <2>1, <2>3, <2>4 DEF asked
<1> QED  BY <1>1, <1>4, <1>5, <1>6

LEMMA TelemetryHolds == StreamInv => TelemetryTruthful
<1> SUFFICES ASSUME StreamInv, task # Running
             PROVE  /\ telemetry = <<task>>
                    /\ task.status = "cancelled" => task.reason = cancel
                    /\ call = NoCall
                    /\ Cardinality({ i \in DOMAIN emitted :
                                       emitted[i] = "provider_request" })
                         = Len(ledger)
  BY DEF TelemetryTruthful
<1>1. TypeOK /\ ScriptHolds /\ LedgerHolds  BY DEF StreamInv
<1>2. pc \notin Turns  BY <1>1 DEF ScriptHolds, Points, Turns
<1>3. call = NoCall /\ Announced(Len(emitted)) = Len(ledger)
  BY <1>1, <1>2 DEF LedgerHolds
<1>4. /\ telemetry = <<task>>
      /\ task.status = "cancelled" => task.reason = cancel
  BY <1>1 DEF LedgerHolds
<1> QED  BY <1>1, <1>3, <1>4, RequestsAnnounced

\* However a run ends, by its result, a failure or a cancellation at any of
\* its awaits, it reports its outcome once, leaves no call open and has a
\* ledger entry for each request whose stage it announced.
THEOREM TelemetryKept == Spec => []TelemetryTruthful
  BY StreamInductive, TelemetryHolds, PTL

\* How a run may end in a step.
LEMMA EndsAs ==
  ASSUME NEW new, NEW o, Closes(new, o)
  PROVE  task' = o \/ task' = task
  BY DEF Closes, Ends

LEMMA OtherEnds ==
  /\ \A reason : Error(reason) # Recommended
  /\ Insufficient # Recommended /\ Clarified # Recommended
  /\ Running # Recommended
  /\ \A reason : Outcome("cancelled", reason) # Recommended
  BY DEF Error, Insufficient, Clarified, Recommended, Running, Outcome

\* Nothing but the last look at the revisions, or the wait for the queue that
\* follows it, ends a run with a recommendation.
LEMMA OnlyPublished ==
  ASSUME RunStep, task = Running, task' = Recommended
  PROVE  Put \/ Publish
<1>0. task' # task /\ \A new, o : Closes(new, o) => o = Recommended
  BY EndsAs, OtherEnds
<1>1. \A new, next, loc : ~Goes(new, next, loc)
  BY <1>0 DEF Goes, end
<1>2. CASE EntryRejected  BY <1>0, <1>2, OtherEnds DEF EntryRejected
<1>3. CASE Accept  BY <1>0, <1>1, <1>3, OtherEnds DEF Accept
<1>4. CASE Epicure  BY <1>0, <1>1, <1>4, OtherEnds DEF Epicure
<1>5. CASE Search  BY <1>0, <1>1, <1>5, OtherEnds DEF Search
<1>6. CASE Fetch
  <2>1. \A ev : ~Assess(ev)
    BY <1>0, <1>1, OtherEnds DEF Assess, ToolModeRefused
  <2> QED  BY <2>1, <1>1, <1>6 DEF Fetch
<1>7. \A c : ~CallFailed(c)  BY <1>0, OtherEnds DEF CallFailed
<1>8. CASE AttemptFails  BY <1>1, <1>7, <1>8 DEF AttemptFails
<1>9. CASE Retry  BY <1>0, <1>9 DEF Retry, end
<1>10. CASE CallRefused  BY <1>7, <1>10 DEF CallRefused
<1>11. CASE Answer  BY <1>1, <1>7, <1>11 DEF Answer
<1>12. CASE Dispatch  BY <1>0, <1>1, <1>12, OtherEnds DEF Dispatch
<1>13. CASE Refetch
  BY <1>0, <1>1, <1>13, OtherEnds DEF Refetch, SecondTurn
<1>14. CASE Repeated  BY <1>0, <1>14, OtherEnds DEF Repeated
<1>15. CASE Validate  BY <1>0, <1>1, <1>15, OtherEnds DEF Validate
<1>16. CASE Cancelled  BY <1>16, OtherEnds DEF Cancelled, Ends
<1> QED
  BY <1>2, <1>3, <1>4, <1>5, <1>6, <1>8, <1>9, <1>10, <1>11, <1>12, <1>13,
     <1>14, <1>15, <1>16 DEF RunStep

LEMMA CurrentStep ==
  ASSUME StreamInv, [Next]_vars, task = Running, task' = Recommended
  PROVE  /\ limit >= Cardinality(StageNames) + 2 => grp = "current"
         /\ local.pick \in local.kept
         /\ local.evid[local.pick] \in {"good", "good2"}
         /\ Len(ledger) = IF toolMode THEN 2 ELSE 1
<1>1. task' # task  BY OtherEnds
<1>2. RunStep
  <2>1. UNCHANGED end => FALSE  BY <1>1 DEF end
  <2>2. ~StreamStep
    BY <2>1 DEF StreamStep, FirstStage, EarlyFailure, SendStage, SkipStage,
                EventLimit, Terminal, GetterTakes, Disconnected, Closed
  <2>3. ~OthersAct /\ ~DurationBound /\ ~ClientLeaves
    BY <2>1 DEF OthersAct, DurationBound, ClientLeaves
  <2>4. ~UNCHANGED vars  BY <2>1 DEF vars
  <2> QED  BY <2>2, <2>3, <2>4 DEF Next
<1>3. TypeOK /\ ScriptHolds /\ ChoiceHolds  BY DEF StreamInv
<1>4. CASE Publish
  <2>1. pc = "check" /\ pending = << >>  BY <1>4 DEF Publish, Runs
  <2>2. grp = "current"
    <3>1. \A new, reason : ~Closes(new, Error(reason))
      BY <1>1, EndsAs, OtherEnds
    <3> QED  BY <3>1, <1>4 DEF Publish, Current
  <2> QED  BY <2>1, <2>2, <1>3 DEF ChoiceHolds
<1>5. CASE Put
  <2>1. pending # << >> /\ ending = Recommended
    BY <1>1, <1>5, EndsAs DEF Put, Goes, end
  <2>2. Cardinality(StageNames) = 9
    <3> DEFINE S0 == {}
               S1 == S0 \cup {"accepted"}
               S2 == S1 \cup {"readiness"}
               S3 == S2 \cup {"epicure"}
               S4 == S3 \cup {"retrieval"}
               S5 == S4 \cup {"evidence"}
               S6 == S5 \cup {"provider_request"}
               S7 == S6 \cup {"provider_turn"}
               S8 == S7 \cup {"validation"}
               S9 == S8 \cup {"revision_check"}
    <3>0. IsFiniteSet(S0) /\ Cardinality(S0) = 0  BY FS_EmptySet
    <3>1. IsFiniteSet(S1) /\ Cardinality(S1) = 1  BY <3>0, FS_AddElement
    <3>2. IsFiniteSet(S2) /\ Cardinality(S2) = 2  BY <3>1, FS_AddElement
    <3>3. IsFiniteSet(S3) /\ Cardinality(S3) = 3  BY <3>2, FS_AddElement
    <3>4. IsFiniteSet(S4) /\ Cardinality(S4) = 4  BY <3>3, FS_AddElement
    <3>5. IsFiniteSet(S5) /\ Cardinality(S5) = 5  BY <3>4, FS_AddElement
    <3>6. IsFiniteSet(S6) /\ Cardinality(S6) = 6  BY <3>5, FS_AddElement
    <3>7. IsFiniteSet(S7) /\ Cardinality(S7) = 7  BY <3>6, FS_AddElement
    <3>8. IsFiniteSet(S8) /\ Cardinality(S8) = 8  BY <3>7, FS_AddElement
    <3>9. IsFiniteSet(S9) /\ Cardinality(S9) = 9  BY <3>8, FS_AddElement
    <3>10. StageNames = S9  BY DEF StageNames
    <3> QED  BY <3>9, <3>10
  <2>3. ~(limit >= 11)  BY <2>1, <1>3 DEF ScriptHolds
  <2>4. /\ local.pick \in local.kept
        /\ local.evid[local.pick] \in {"good", "good2"}
        /\ Len(ledger) = IF toolMode THEN 2 ELSE 1
    BY <2>1, <1>3 DEF ChoiceHolds
  <2> QED  BY <2>2, <2>3, <2>4
<1> QED  BY <1>2, <1>4, <1>5, OnlyPublished

\* A recommendation is only ever published for a candidate that was offered to
\* the model, with complete evidence and no violation, after every turn the
\* mode demands, and, where the queue holds all the stages of a run, for the
\* group as it was asked for; whatever others change during the run.
THEOREM CurrentKept == Spec => RecommendationCurrent
<1>1. StreamInv /\ [Next]_vars =>
        [ (task = Running /\ task' = Recommended) =>
            /\ limit >= Cardinality(StageNames) + 2 => grp = "current"
            /\ local.pick \in local.kept
            /\ local.evid[local.pick] \in {"good", "good2"}
            /\ Len(ledger) = IF toolMode THEN 2 ELSE 1 ]_vars
  BY CurrentStep
<1> QED  BY <1>1, StreamInductive, PTL DEF RecommendationCurrent, Spec

-----------------------------------------------------------------------------
(* What a recommendation that passed the rules of SelectionRules is good for. *)

\* The policy knows two verdicts on a diet, and neither admits a source.
LEMMA VerdictsOfDiets ==
  ASSUME NEW d, NEW request, NEW v \in HardVerdicts(d, request)
  PROVE  v \in {"violated", "unresolved"}
  BY DEF HardVerdicts, DietVerdict

\* No source is ever found compatible with a diet: under a dietary constraint,
\* whichever it is, every source is set aside (policy.assess_candidate,
\* hard_violation and unresolved_hard), however good the source.
THEOREM DietsAreNeverDecided ==
  ASSUME NEW d, NEW request, request.diets # {}
  PROVE  ~Admitted(d, request)
<1>1. PICK diet \in request.diets : TRUE  OBVIOUS
<1>2. DietVerdict(diet, d) \in HardVerdicts(d, request)  BY <1>1 DEF HardVerdicts
<1> QED  BY <1>2, VerdictsOfDiets DEF Admitted, HardViolation, UnresolvedHard

\* Without one the verdicts on time and on what nobody enforces set nothing
\* aside: a source known to exceed the time limit is still recommended.
THEOREM OnlyDietsExclude ==
  ASSUME NEW d, NEW request, request.diets = {}
  PROVE  Admitted(d, request)
  BY DEF Admitted, HardViolation, UnresolvedHard, HardVerdicts

\* A selection that passes _validate_selection is of a source that was
\* shown, and stands for the whole of it: every ingredient and every step of
\* the stored recipe is cited, the steps in order, none was lost when the
\* evidence was built, and no diet was asked for.
THEOREM RecommendedIsWhole ==
  ASSUME NEW proposal, NEW offered, NEW request,
         SelectionProblem(proposal, offered, request) = "none"
  PROVE  /\ proposal.label \in DOMAIN offered
         /\ LET d == offered[proposal.label] IN
              /\ { proposal.ingredients[i] : i \in DOMAIN proposal.ingredients }
                   = DOMAIN d.ingredients
              /\ { proposal.steps[i] : i \in DOMAIN proposal.steps } = DOMAIN d.steps
              /\ InOrder(proposal.steps)
              /\ Present(d.ingredients) /\ Present(d.steps)
              /\ "error" \notin d.defects
         /\ request.diets = {}
<1> DEFINE d == offered[proposal.label]
<1>1. proposal.label \in DOMAIN offered  BY DEF SelectionProblem
<1>2. /\ IsRecommendable(d)
      /\ CoversAll(proposal.ingredients, Readable(d.ingredients))
      /\ CoversAll(proposal.steps, Readable(d.steps))
      /\ InOrder(proposal.steps)
      /\ Admitted(d, request)
  BY <1>1 DEF SelectionProblem
<1>3. /\ Whole(d.ingredients) /\ Whole(d.steps)
      /\ "error" \notin d.defects
  BY <1>2 DEF IsRecommendable
<1>4. request.diets = {}  BY <1>2, DietsAreNeverDecided
<1> QED  BY <1>1, <1>2, <1>3, <1>4 DEF CoversAll, Whole

\* The recipe a client is given in tool mode is the one the model asked for,
\* with the content the model chose it by: a document that changed between
\* the search and the call is refused (service.py _dispatch_tool_call).
THEOREM DispatchedIsOffered ==
  ASSUME NEW calls \in Seq([name : STRING, identified : BOOLEAN, continued : BOOLEAN,
                            form : ArgumentForms, label : STRING]),
         NEW ceiling \in Int, NEW offered, NEW snapshots, NEW fetched,
         DispatchProblem(calls, ceiling, offered, snapshots, fetched) = "none"
  PROVE  /\ Len(calls) = 1 /\ calls[1].name = "get_recipe"
         /\ calls[1].label \in DOMAIN offered
         /\ fetched = snapshots[calls[1].label]
  BY DEF DispatchProblem

-----------------------------------------------------------------------------

\* A listed ingredient stands in the source: by a cited entry that is readable
\* and has all words of an item of the pantry.
LEMMA ListedAreInTheSource ==
  ASSUME NEW refs, NEW d, NEW request, ListedProblem(refs, d, request) = "none"
  PROVE  /\ refs # << >>
         /\ \A i \in DOMAIN refs :
              /\ refs[i] \in Readable(d.ingredients)
              /\ \E item \in request.pantry : MatchesListed(d.ingredients[refs[i]].name, item)
  BY DEF ListedProblem

\* Every reason a recommendation gives is true of the source and of the
\* request: a dish named in the title, ingredients of the pantry that the
\* recipe lists, a time reported and not above the limit, a yield that is the
\* one asked for (propositions.evaluate_propositions).
THEOREM AcceptedReasonsHold ==
  ASSUME NEW reasons, NEW d, NEW request,
         NEW i \in AcceptedReasons(reasons, d, request),
         reasons[i].type \in ReasonTypes
  PROVE  LET reason == reasons[i] IN
         /\ reason.type = "dish_named_in_title" =>
              /\ request.dish # None /\ request.dish.words # {}
              /\ request.dish.words \subseteq d.title.words
         /\ reason.type = "uses_listed_ingredients" =>
              /\ reason.refs # << >>
              /\ \A n \in DOMAIN reason.refs :
                   /\ reason.refs[n] \in Readable(d.ingredients)
                   /\ \E item \in request.pantry :
                        MatchesListed(d.ingredients[reason.refs[n]].name, item)
         /\ reason.type = "reported_time_within_limit" =>
              /\ request.ceiling # None /\ d.total \in Int
              /\ 0 < d.total /\ d.total <= request.ceiling
         /\ reason.type = "stated_yield_matches_portions" =>
              /\ request.portions # None /\ d.servings = request.portions
<1> DEFINE reason == reasons[i]
<1>1. ReasonProblem(reason, d, request) = "none"  BY DEF AcceptedReasons
<1>2. CASE reason.type = "dish_named_in_title"
  BY <1>1, <1>2 DEF ReasonProblem, TitleProblem, AllWordsIn, ReasonTypes
<1>3. CASE reason.type = "uses_listed_ingredients"
  <2>1. ListedProblem(reason.refs, d, request) = "none"  BY <1>1, <1>3 DEF ReasonProblem
  <2> QED  BY <1>3, <2>1, ListedAreInTheSource
<1>4. CASE reason.type = "reported_time_within_limit"
  <2>1. TimeProblem(d, request) = "none"  BY <1>1, <1>4 DEF ReasonProblem
  <2>2. SatisfiesCeiling(d.total, request.ceiling) /\ request.ceiling # None
    BY <2>1 DEF TimeProblem
  <2>3. Strict(d.total, 1) # None  BY <2>2 DEF SatisfiesCeiling, DurationStatus
  <2>4. d.total \in Int /\ d.total >= 1  BY <2>3 DEF Strict
  <2> QED  BY <1>4, <2>2, <2>4 DEF SatisfiesCeiling
<1>5. CASE reason.type = "stated_yield_matches_portions"
  <2>1. YieldProblem(d, request) = "none"  BY <1>1, <1>5 DEF ReasonProblem
  <2>2. request.portions # None /\ Servings(d) # None /\ Servings(d) = request.portions
    BY <2>1 DEF YieldProblem
  <2> QED  BY <1>5, <2>2 DEF Servings, Strict
<1> QED  BY <1>2, <1>3, <1>4, <1>5 DEF ReasonTypes

\* No reason is given twice, and each proposition is either accepted or
\* reported as rejected, never dropped without a trace.
THEOREM OneReasonOfEachType ==
  ASSUME NEW reasons \in Seq([type : ReasonTypes, refs : Seq(Nat)]), NEW d, NEW request
  PROVE  /\ \A i, j \in AcceptedReasons(reasons, d, request) :
              reasons[i].type = reasons[j].type => i = j
         /\ DOMAIN reasons =
              AcceptedReasons(reasons, d, request)
              \cup { r.index : r \in RejectedReasons(reasons, d, request) }
<1>1. ASSUME NEW i \in AcceptedReasons(reasons, d, request),
             NEW j \in AcceptedReasons(reasons, d, request),
             reasons[i].type = reasons[j].type
      PROVE  i = j
  <2>1. i \in 1 .. Len(reasons) /\ j \in 1 .. Len(reasons)  BY DEF AcceptedReasons
  <2>2. ~Repeats(reasons, i) /\ ~Repeats(reasons, j)  BY DEF AcceptedReasons
  <2>3. ~(j < i)  BY <1>1, <2>1, <2>2 DEF Repeats
  <2>4. ~(i < j)  BY <1>1, <2>1, <2>2 DEF Repeats
  <2> QED  BY <2>1, <2>3, <2>4
<1>2. AcceptedReasons(reasons, d, request) \subseteq DOMAIN reasons  BY DEF AcceptedReasons
<1>3. { r.index : r \in RejectedReasons(reasons, d, request) }
        = DOMAIN reasons \ AcceptedReasons(reasons, d, request)
  <2> DEFINE code(i) == IF Repeats(reasons, i) THEN "duplicate_proposition"
                        ELSE ReasonProblem(reasons[i], d, request)
             rest == DOMAIN reasons \ AcceptedReasons(reasons, d, request)
  <2>1. RejectedReasons(reasons, d, request) = { [index |-> i, code |-> code(i)] : i \in rest }
    BY DEF RejectedReasons
  <2> HIDE DEF code, rest
  <2>2. \A i \in rest : [index |-> i, code |-> code(i)].index = i  OBVIOUS
  <2>3. { r.index : r \in { [index |-> i, code |-> code(i)] : i \in rest } } = rest
    BY <2>2
  <2> QED  BY <2>1, <2>3 DEF rest
<1> QED  BY <1>1, <1>2, <1>3

\* A question is asked only about a field of the request the user has never
\* spoken of, so an answer is never asked for again.
THEOREM OnlyUnansweredIsAsked ==
  ASSUME NEW questions, NEW d, NEW request,
         NEW i \in AcceptedQuestions(questions, d, request)
  PROVE  request.status[QuestionField[questions[i].type]] = "unknown"
  BY DEF AcceptedQuestions, QuestionProblem

-----------------------------------------------------------------------------

\* The reasons for having nothing to show are exhaustive: if none applies,
\* an admitted and whole source was found and some source is shown; and
\* pointers never lead to a source that violates a diet.
THEOREM SomethingToShow ==
  ASSUME NEW query \in BOOLEAN, NEW failed \in BOOLEAN, NEW found, NEW request, NEW kept,
         InsufficientReason(query, failed, found, request, kept) = "none"
  PROVE  /\ \E d \in found : Admitted(d, request) /\ IsRecommendable(d)
         /\ kept # {}
         /\ request.diets = {}
<1>1. query /\ found # {}  BY SMT DEF InsufficientReason
<1>2. ~(\A d \in found : ~Admitted(d, request))  BY <1>1, SMT DEF InsufficientReason
<1>3. \E d \in found : Admitted(d, request) /\ IsRecommendable(d)
  BY <1>1, <1>2, SMT DEF InsufficientReason
<1>4. kept # {}  BY <1>1, <1>3, SMT DEF InsufficientReason
<1> QED  BY <1>2, <1>3, <1>4, DietsAreNeverDecided

\* See SomethingToShow: the pointers a client gets without a recipe.
THEOREM ViolatingNeverPointedTo ==
  ASSUME NEW found, NEW request, NEW pointer \in Discovery(found, request)
  PROVE  ~HardViolation(pointer.source, request)
  BY DEF Discovery

=============================================================================
