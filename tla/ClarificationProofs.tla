------------------------ MODULE ClarificationProofs ------------------------
(***************************************************************************)
(* What holds for any number of handlers, any store size and any answers   *)
(* and proposals.  RevisionIdentifiesState comes first, as all else needs  *)
(* that the state a commit replaces is the one it was computed from.  It   *)
(* is not inductive: a commit to revision n + 1 must know that no handler  *)
(* has started from n + 1 yet, and a new request that no handler works on  *)
(* it.                                                                     *)
(***************************************************************************)
EXTENDS Clarification, FoldLemmas

Shape ==
    /\ created \in Nat
    /\ revision \in [Requests -> Nat]
    /\ DOMAIN states = Requests
    /\ DOMAIN groups = Groups
    /\ DOMAIN calls = Clients

\* The ids of groups and handlers belong to requests created before.
OldRequests ==
    /\ \A g \in Groups : groups[g] # Absent => groups[g].request \in Requests
                                               /\ groups[g].request <= created
    /\ \A c \in Clients : calls[c] # Absent => calls[c].request \in Requests
                                               /\ calls[c].request <= created
                                               /\ calls[c].base \in Nat

\* A handler started from the stored revision or from an earlier one.
Behind(call) ==
    Stored(call.request) =>
        /\ call.base <= revision[call.request]
        /\ revision[call.request] = call.base => states[call.request] = call.snap

IInv == Shape /\ OldRequests /\ \A c \in Clients : calls[c] # Absent => Behind(calls[c])

-----------------------------------------------------------------------------
(***************************************************************************)
(* Initially nothing is stored and no handler runs.                        *)
(***************************************************************************)
LEMMA InitIInv == Init => IInv
  BY DEF Init, IInv, Shape, OldRequests, Requests, Groups

(***************************************************************************)
(* A handler that starts copies what is stored.                            *)
(***************************************************************************)
LEMMA StartKeeps ==
  ASSUME IInv, NEW c \in Clients, NEW g \in Groups, NEW op, NEW batch, NEW asked,
         Start(c, g), calls' = [calls EXCEPT ![c] = Snapshot(g, op, batch, asked)]
  PROVE  IInv'
<1> DEFINE new == Snapshot(g, op, batch, asked)
           r == groups[g].request
<1>1. /\ new.request = r /\ new.base = revision[r] /\ new.snap = states[r]
      /\ r \in Requests /\ r <= created /\ revision[r] \in Nat
  BY DEF IInv, Shape, OldRequests, Start, Snapshot
<1>2. UNCHANGED <<states, revision, groups, created>>
  BY DEF Start, store
<1>3. Shape'
  BY <1>2 DEF IInv, Shape
<1>4. \A d \in Clients : calls'[d] = IF d = c THEN new ELSE calls[d]
  BY DEF IInv, Shape
<1>5. OldRequests'
  BY <1>1, <1>2, <1>4 DEF IInv, OldRequests
<1>6. ASSUME NEW d \in Clients, calls'[d] # Absent PROVE Behind(calls[d])'
  <2>1. CASE d = c
    BY <1>1, <1>2, <1>4, <2>1 DEF Behind, Stored
  <2>2. CASE d # c
    BY <1>2, <1>4, <1>6, <2>2 DEF IInv, Behind, Stored
  <2> QED
    BY <2>1, <2>2
<1> QED
  BY <1>3, <1>5, <1>6 DEF IInv

(***************************************************************************)
(* A handler that ends without a write leaves the others as they were.     *)
(***************************************************************************)
LEMMA EndKeeps ==
  ASSUME IInv, NEW c \in Clients, End(c), UNCHANGED <<store, created, issued>>
  PROVE  IInv'
<1>1. \A d \in Clients : calls'[d] # Absent => calls'[d] = calls[d]
  BY DEF IInv, Shape, End
<1>2. DOMAIN calls' = Clients
  BY DEF IInv, Shape, End
<1> QED
  BY <1>1, <1>2 DEF IInv, Shape, OldRequests, Behind, Stored, store

(***************************************************************************)
(* A commit by a handler that started from the stored revision: the new    *)
(* revision is one nobody has started from.                                *)
(***************************************************************************)
LEMMA CommitKeeps ==
  ASSUME IInv, NEW c \in Clients, calls[c] # Absent,
         Stored(calls[c].request), revision[calls[c].request] = calls[c].base,
         NEW st, states' = [states EXCEPT ![calls[c].request] = st],
         revision' = Advanced(calls[c].request, calls[c].base),
         DOMAIN groups' = Groups,
         \A g \in Groups : groups'[g] # Absent =>
             groups'[g].request \in Requests /\ groups'[g].request <= created,
         End(c), created' = created
  PROVE  IInv'
<1> DEFINE r == calls[c].request
           base == calls[c].base
<1>1. r \in Requests /\ base \in Nat
  BY DEF IInv, OldRequests
<1>2. /\ revision' \in [Requests -> Nat]
      /\ revision'[r] = base + 1
      /\ \A x \in Requests : x # r => revision'[x] = revision[x]
  BY <1>1 DEF IInv, Shape, Advanced
<1>3. DOMAIN states' = Requests /\ \A x \in Requests : x # r => states'[x] = states[x]
  BY <1>1 DEF IInv, Shape
<1>4. DOMAIN calls' = Clients /\ \A d \in Clients : calls'[d] # Absent => calls'[d] = calls[d]
  BY DEF IInv, Shape, End
<1>5. Shape' /\ OldRequests'
  BY <1>2, <1>3, <1>4 DEF IInv, Shape, OldRequests
<1>6. ASSUME NEW d \in Clients, calls'[d] # Absent PROVE Behind(calls[d])'
  <2>1. calls'[d] = calls[d] /\ calls[d] # Absent
        /\ calls[d].request \in Requests /\ calls[d].base \in Nat
    BY <1>4, <1>6 DEF IInv, OldRequests
  <2>2. CASE calls[d].request = r
    <3>1. calls[d].base <= base
      BY <2>1, <2>2 DEF IInv, Behind
    <3> QED
      BY <1>1, <1>2, <2>1, <2>2, <3>1 DEF Behind
  <2>3. CASE calls[d].request # r
    BY <1>2, <1>3, <2>1, <2>3 DEF IInv, Behind, Stored
  <2> QED
    BY <2>2, <2>3
<1> QED
  BY <1>5, <1>6 DEF IInv

(***************************************************************************)
(* A new request evicts others, and nobody works on it yet.                *)
(***************************************************************************)
LEMMA CreateKeeps ==
  ASSUME IInv, NEW given, NEW reply, Create(given, reply)
  PROVE  IInv'
<1> DEFINE r == created + 1
           gone == Evicted(r)
<1>1. created' = r /\ r \in Nat /\ calls' = calls
  BY DEF IInv, Shape, Create
<1>2. r \in Requests
  BY BoundsAssumption DEF IInv, Shape, Create, Requests
<1>3. /\ revision' \in [Requests -> Nat]
      /\ DOMAIN states' = Requests
      /\ \A x \in Requests : x # r /\ states'[x] # Absent =>
             states'[x] = states[x] /\ revision'[x] = revision[x]
  BY DEF IInv, Shape, Create
<1>4. DOMAIN groups' = Groups
      /\ \A g \in Groups : groups'[g] # Absent =>
             groups'[g].request = r \/ (groups[g] # Absent /\ groups'[g] = groups[g])
  BY DEF Create, GroupsWithout, NewGroup
<1>5. Shape'
  BY <1>1, <1>3, <1>4 DEF IInv, Shape
<1>6. OldRequests'
  BY <1>1, <1>2, <1>4 DEF IInv, Shape, OldRequests, Requests
<1>7. ASSUME NEW d \in Clients, calls'[d] # Absent PROVE Behind(calls[d])'
  <2>1. calls'[d] = calls[d] /\ calls[d].request \in Requests /\ calls[d].request # r
    BY <1>1, <1>7 DEF IInv, Shape, OldRequests, Requests
  <2> QED
    BY <1>1, <1>3, <1>7, <2>1 DEF IInv, Behind, Stored
<1> QED
  BY <1>5, <1>6, <1>7 DEF IInv

(***************************************************************************)
(* Answers are written only under the revisions of their snapshot.         *)
(***************************************************************************)
LEMMA CommitAnswersKeeps ==
  ASSUME IInv, NEW c \in Clients, CommitAnswers(c)
  PROVE  IInv'
<1> DEFINE call == calls[c]
           st == ApplyAnswers(call.snap, call.batch)
<1>1. /\ calls[c] # Absent
      /\ Stored(calls[c].request) /\ revision[calls[c].request] = calls[c].base
      /\ states' = [states EXCEPT ![calls[c].request] = st]
      /\ revision' = Advanced(calls[c].request, calls[c].base)
      /\ End(c) /\ created' = created
  BY DEF CommitAnswers, AnswersMatch
<1>2. /\ groups[call.group] # Absent
      /\ groups' = [groups EXCEPT ![call.group].revision = call.groupBase + 1,
                                  ![call.group].questions =
                                      PendingQuestions(call.asked, st)]
  BY DEF CommitAnswers, AnswersMatch
<1>3. DOMAIN groups' = Groups
  BY <1>2 DEF IInv, Shape
<1>4. \A g \in Groups : groups'[g] # Absent =>
        groups'[g].request \in Requests /\ groups'[g].request <= created
  <2> SUFFICES ASSUME NEW g \in Groups, groups'[g] # Absent
               PROVE  groups'[g].request \in Requests /\ groups'[g].request <= created
    OBVIOUS
  <2>1. CASE g = call.group
    <3>1. groups[g].request \in Requests /\ groups[g].request <= created
      BY <1>2, <2>1 DEF IInv, OldRequests
    <3>2. groups'[g].request = groups[g].request
      BY <1>2, <2>1 DEF IInv, Shape
    <3> QED
      BY <3>1, <3>2
  <2>2. CASE g # call.group
    <3>1. groups'[g] = groups[g]
      BY <1>2, <2>2 DEF IInv, Shape
    <3> QED
      BY <3>1 DEF IInv, OldRequests
  <2> QED
    BY <2>1, <2>2
<1> HIDE DEF st, call
<1> QED
  BY <1>1, <1>3, <1>4, CommitKeeps

(***************************************************************************)
(* A replan is written only under the revision of its snapshot, and its    *)
(* group belongs to the same request.                                      *)
(***************************************************************************)
LEMMA CommitReplanKeeps ==
  ASSUME IInv, NEW c \in Clients, NEW reply, CommitReplan(c, reply)
  PROVE  IInv'
<1> DEFINE r == calls[c].request
           plan == PlanGroup([calls[c].snap EXCEPT !.replans = @ + 1], MaxQuestions, reply)
           questions == FollowUp(r, plan.st, plan.questions)
           st == plan.st
<1>1. /\ calls[c] # Absent
      /\ Stored(calls[c].request) /\ revision[calls[c].request] = calls[c].base
      /\ states' = [states EXCEPT ![calls[c].request] = st]
      /\ revision' = Advanced(calls[c].request, calls[c].base)
      /\ End(c) /\ created' = created
  BY DEF CommitReplan, ReplanMatches
<1>2. groups' = [groups EXCEPT ![issued + 1] = NewGroup(r, questions)]
  BY DEF CommitReplan
<1>3. r \in Requests /\ r <= created
  BY <1>1 DEF IInv, OldRequests
<1>4. DOMAIN groups' = Groups
  BY <1>2 DEF IInv, Shape
<1>5. \A g \in Groups : groups'[g] # Absent =>
        groups'[g].request \in Requests /\ groups'[g].request <= created
  <2>1. NewGroup(r, questions).request = r
    BY DEF NewGroup
  <2> HIDE DEF r, questions
  <2> QED
    BY <1>2, <1>3, <2>1 DEF IInv, Shape, OldRequests
<1> HIDE DEF st, r
<1> QED
  BY <1>1, <1>4, <1>5, CommitKeeps

(***************************************************************************)
(* Every step of a handler keeps the invariant.                            *)
(***************************************************************************)
LEMMA NextIInv == IInv /\ [Next]_vars => IInv'
<1> SUFFICES ASSUME IInv, [Next]_vars PROVE IInv'
  OBVIOUS
<1>1. ASSUME NEW given \in Given, NEW reply \in Replies, Create(given, reply) PROVE IInv'
  BY <1>1, CreateKeeps
<1>2. ASSUME NEW c \in Clients, NEW g \in Groups, NEW batch \in Batches,
             SubmitStart(c, g, batch)
      PROVE  IInv'
  <2>1. Start(c, g) /\ calls' = [calls EXCEPT ![c] =
                          Snapshot(g, "submit", batch, known[groups[g].request])]
    BY <1>2 DEF SubmitStart
  <2> QED
    BY <2>1, StartKeeps
<1>3. ASSUME NEW c \in Clients, NEW g \in Groups, ReplanStart(c, g) PROVE IInv'
  <2>1. Start(c, g) /\ calls' = [calls EXCEPT ![c] = Snapshot(g, "replan", <<>>, <<>>)]
    BY <1>3 DEF ReplanStart
  <2> QED
    BY <2>1, StartKeeps
<1>4. ASSUME NEW c \in Clients, NEW g \in Groups, RetrieveStart(c, g) PROVE IInv'
  <2>1. Start(c, g) /\ calls' = [calls EXCEPT ![c] = Snapshot(g, "retrieve", <<>>, <<>>)]
    BY <1>4 DEF RetrieveStart
  <2> QED
    BY <2>1, StartKeeps
<1>5. ASSUME NEW c \in Clients, CommitAnswers(c) PROVE IInv'
  BY <1>5, CommitAnswersKeeps
<1>6. ASSUME NEW c \in Clients, NEW reply \in Replies, CommitReplan(c, reply) PROVE IInv'
  BY <1>6, CommitReplanKeeps
<1>7. ASSUME NEW c \in Clients,
             AnswersRefused(c) \/ ReplanEnds(c) \/ Publish(c) \/ RetrieveEnds(c)
      PROVE  IInv'
  <2>1. End(c) /\ UNCHANGED <<store, created, issued>>
    BY <1>7 DEF AnswersRefused, ReplanEnds, Publish, RetrieveEnds
  <2> QED
    BY <2>1, EndKeeps
<1>8. CASE UNCHANGED vars
  BY <1>8 DEF vars, IInv, Shape, OldRequests, Behind, Stored
<1> QED
  BY <1>1, <1>2, <1>3, <1>4, <1>5, <1>6, <1>7, <1>8 DEF Next

(***************************************************************************)
(* The revision under which a request is stored identifies its state: a    *)
(* handler that finds the revision it started from finds the very state    *)
(* it copied, so comparing revisions is enough in commit_answers, in       *)
(* commit_replan and before a retrieval publishes its results.             *)
(***************************************************************************)
THEOREM RevisionIdentifies == Spec => []RevisionIdentifiesState
<1>1. IInv => RevisionIdentifiesState
  BY DEF IInv, OldRequests, Behind, RevisionIdentifiesState
<1> QED
  BY InitIInv, NextIInv, <1>1, PTL DEF Spec

-----------------------------------------------------------------------------
(***************************************************************************)
(* What publishing needs besides: a running retrieval copied a ready       *)
(* state, and a stored request always has a current group.                 *)
(***************************************************************************)
RetrievalInv ==
    /\ issued \in Nat
    /\ DOMAIN calls = Clients
    /\ DOMAIN states = Requests /\ DOMAIN current = Requests
    /\ \A c \in Clients : (calls[c] # Absent /\ calls[c].op = "retrieve") =>
           EvaluateReadiness(calls[c].snap) = "ready"
    /\ \A r \in Requests : Stored(r) => current[r] # 0

LEMMA InitRetrieval == Init => RetrievalInv
  BY DEF Init, RetrievalInv, Stored

LEMMA CreateRetrieval ==
  ASSUME RetrievalInv, NEW given, NEW reply, Create(given, reply)
  PROVE  RetrievalInv'
<1>1. issued' = issued + 1 /\ calls' = calls
  BY DEF Create
<1>2. /\ DOMAIN states' = Requests /\ DOMAIN current' = Requests
      /\ \A x \in Requests :
            \/ current'[x] = issued + 1
            \/ states'[x] = Absent
            \/ states'[x] = states[x] /\ current'[x] = current[x]
  BY DEF Create
<1> QED
  BY <1>1, <1>2 DEF RetrievalInv, Stored

LEMMA CommitAnswersRetrieval ==
  ASSUME RetrievalInv, NEW c \in Clients, CommitAnswers(c)
  PROVE  RetrievalInv'
<1> DEFINE r == calls[c].request
           st == ApplyAnswers(calls[c].snap, calls[c].batch)
<1>1. /\ Stored(r) /\ states' = [states EXCEPT ![r] = st]
      /\ End(c) /\ UNCHANGED <<current, issued>>
  BY DEF CommitAnswers, AnswersMatch
<1> HIDE DEF st, r
<1> QED
  BY <1>1 DEF RetrievalInv, Stored, End

LEMMA CommitReplanRetrieval ==
  ASSUME RetrievalInv, NEW c \in Clients, NEW reply, CommitReplan(c, reply)
  PROVE  RetrievalInv'
<1> DEFINE r == calls[c].request
           plan == PlanGroup([calls[c].snap EXCEPT !.replans = @ + 1], MaxQuestions, reply)
           st == plan.st
<1>1. /\ states' = [states EXCEPT ![r] = st]
      /\ current' = [current EXCEPT ![r] = issued + 1]
      /\ End(c) /\ issued' = issued + 1
  BY DEF CommitReplan
<1> HIDE DEF st, r
<1> QED
  BY <1>1 DEF RetrievalInv, Stored, End

\* The handler that starts is a retrieval only when the state is ready.
LEMMA StartRetrieval ==
  ASSUME RetrievalInv, NEW c \in Clients, NEW g, NEW op, NEW batch, NEW asked,
         Start(c, g), calls' = [calls EXCEPT ![c] = Snapshot(g, op, batch, asked)],
         op = "retrieve" => EvaluateReadiness(states[groups[g].request]) = "ready"
  PROVE  RetrievalInv'
<1> DEFINE new == Snapshot(g, op, batch, asked)
<1>1. new.op = op /\ new.snap = states[groups[g].request]
  BY DEF Snapshot
<1>2. UNCHANGED <<states, current, issued>>
  BY DEF Start, store
<1> HIDE DEF new
<1>3. calls' = [calls EXCEPT ![c] = new]
  BY DEF new
<1> QED
  BY <1>1, <1>2, <1>3 DEF RetrievalInv, Stored

LEMMA NextRetrieval == RetrievalInv /\ [Next]_vars => RetrievalInv'
<1> SUFFICES ASSUME RetrievalInv, [Next]_vars PROVE RetrievalInv'
  OBVIOUS
<1>1. ASSUME NEW given \in Given, NEW reply \in Replies, Create(given, reply)
      PROVE  RetrievalInv'
  BY <1>1, CreateRetrieval
<1>2. ASSUME NEW c \in Clients, NEW g \in Groups, NEW batch \in Batches,
             SubmitStart(c, g, batch)
      PROVE  RetrievalInv'
  <2>1. Start(c, g) /\ calls' = [calls EXCEPT ![c] =
                          Snapshot(g, "submit", batch, known[groups[g].request])]
    BY <1>2 DEF SubmitStart
  <2>2. "submit" # "retrieve"
    OBVIOUS
  <2> QED
    BY <2>1, <2>2, StartRetrieval
<1>3. ASSUME NEW c \in Clients, NEW g \in Groups, ReplanStart(c, g) PROVE RetrievalInv'
  <2>1. Start(c, g) /\ calls' = [calls EXCEPT ![c] = Snapshot(g, "replan", <<>>, <<>>)]
    BY <1>3 DEF ReplanStart
  <2>2. "replan" # "retrieve"
    OBVIOUS
  <2> QED
    BY <2>1, <2>2, StartRetrieval
<1>4. ASSUME NEW c \in Clients, NEW g \in Groups, RetrieveStart(c, g) PROVE RetrievalInv'
  <2>1. /\ Start(c, g) /\ calls' = [calls EXCEPT ![c] = Snapshot(g, "retrieve", <<>>, <<>>)]
        /\ EvaluateReadiness(states[groups[g].request]) = "ready"
    BY <1>4 DEF RetrieveStart
  <2> QED
    BY <2>1, StartRetrieval
<1>5. ASSUME NEW c \in Clients, CommitAnswers(c) PROVE RetrievalInv'
  BY <1>5, CommitAnswersRetrieval
<1>6. ASSUME NEW c \in Clients, NEW reply \in Replies, CommitReplan(c, reply)
      PROVE  RetrievalInv'
  BY <1>6, CommitReplanRetrieval
<1>7. ASSUME NEW c \in Clients,
             AnswersRefused(c) \/ ReplanEnds(c) \/ Publish(c) \/ RetrieveEnds(c)
      PROVE  RetrievalInv'
  <2>1. End(c) /\ UNCHANGED <<store, created, issued>>
    BY <1>7 DEF AnswersRefused, ReplanEnds, Publish, RetrieveEnds
  <2> QED
    BY <2>1 DEF RetrievalInv, Stored, End, store
<1>8. CASE UNCHANGED vars
  BY <1>8 DEF vars, RetrievalInv, Stored
<1> QED
  BY <1>1, <1>2, <1>3, <1>4, <1>5, <1>6, <1>7, <1>8 DEF Next

(***************************************************************************)
(* The only step that publishes finds, in the store, the state its handler *)
(* copied, still ready, and the group of the handler still the current one.*)
(***************************************************************************)
LEMMA PublishStep ==
  ASSUME IInv, RetrievalInv, NEW c \in Clients, Publish(c)
  PROVE  /\ calls[c] # Absent /\ calls[c].op = "retrieve" /\ calls'[c] = Absent
         /\ published'.group = calls[c].group
         /\ current[calls[c].request] = published'.group
         /\ states[calls[c].request] = calls[c].snap
         /\ EvaluateReadiness(states[calls[c].request]) = "ready"
<1>1. calls[c] # Absent /\ calls[c].op = "retrieve" /\ StillCurrent(calls[c]) /\ End(c)
  BY DEF Publish
<1>2. published' = [group |-> calls[c].group, base |-> calls[c].base,
                    groupBase |-> calls[c].groupBase]
  BY DEF Publish
<1>3. calls'[c] = Absent
  BY <1>1 DEF End, RetrievalInv
<1>4. states[calls[c].request] = calls[c].snap
  BY <1>1 DEF StillCurrent, IInv, Behind
<1>5. current[calls[c].request] = calls[c].group
  BY <1>1 DEF StillCurrent, IInv, OldRequests, RetrievalInv
<1>6. EvaluateReadiness(calls[c].snap) = "ready"
  BY <1>1 DEF RetrievalInv
<1> QED
  BY <1>1, <1>2, <1>3, <1>4, <1>5, <1>6

(***************************************************************************)
(* Results are published only for the newest group and for the state the   *)
(* request still has, although answers, replans and evictions happen while *)
(* the search runs.                                                        *)
(***************************************************************************)
THEOREM RetrievalFailsClosed == Spec => PublishedIsCurrent
<1> DEFINE Good == published' # published =>
         \E c \in Clients :
            /\ calls[c] # Absent /\ calls[c].op = "retrieve" /\ calls'[c] = Absent
            /\ published'.group = calls[c].group
            /\ current[calls[c].request] = published'.group
            /\ states[calls[c].request] = calls[c].snap
            /\ EvaluateReadiness(states[calls[c].request]) = "ready"
<1>1. ASSUME IInv, RetrievalInv, [Next]_vars PROVE [Good]_vars
  <2> SUFFICES ASSUME Next, published' # published PROVE Good
    BY <1>1
  <2>1. \E c \in Clients : Publish(c)
    BY DEF Next, Create, SubmitStart, Start, CommitAnswers, AnswersRefused, ReplanStart,
           RetrieveStart, CommitReplan, ReplanEnds, RetrieveEnds
  <2> QED
    BY <1>1, <2>1, PublishStep
<1>2. IInv /\ RetrievalInv /\ [Next]_vars => [Good]_vars
  BY <1>1
<1> QED
  BY <1>2, InitIInv, NextIInv, InitRetrieval, NextRetrieval, PTL
     DEF Spec, PublishedIsCurrent

-----------------------------------------------------------------------------
(***************************************************************************)
(* The indexes of the store.  What StoreConsistent says of replans is not  *)
(* inductive: a request has one group more than it counts replans, and a   *)
(* handler that plans one started below the limit.  A commit then needs    *)
(* Behind again: the state it counts from is the one it replaces.          *)
(***************************************************************************)
GoodState(st) == st.replans <= MaxReplans /\ (st.ready => RetrievalReady(st))

RequestHolds(r) ==
  /\ Stored(r) =>
       /\ r <= created /\ GoodState(states[r]) /\ Contains(order, r)
       /\ current[r] # 0 /\ groups[current[r]] # Absent
       /\ groups[current[r]].request = r
       /\ Cardinality(GroupsOf(r)) = states[r].replans + 1
  /\ ~ Stored(r) => known[r] = <<>> /\ current[r] = 0 /\ ~ Contains(order, r)

GroupHolds(g) ==
  groups[g] # Absent =>
    /\ Stored(groups[g].request)
    /\ \A q : Contains(groups[g].questions, q) => Contains(known[groups[g].request], q)

CallHolds(c) ==
  calls[c] # Absent =>
    /\ calls[c].group <= issued
    /\ groups[calls[c].group] # Absent => groups[calls[c].group].request = calls[c].request
    /\ GoodState(calls[c].snap)
    /\ calls[c].op = "replan" => calls[c].snap.replans < MaxReplans
    /\ calls[c].op = "submit" => calls[c].batch # <<>>
                                 /\ Applicable(calls[c].snap, calls[c].batch)

StoreInv ==
  /\ TypeOK
  /\ \A r \in Requests : RequestHolds(r)
  /\ \A g \in Groups : GroupHolds(g)
  /\ \A c \in Clients : CallHolds(c)

-----------------------------------------------------------------------------
(* What the folds of the model compute.                                    *)

\* Register adds what is not there yet.
LEMMA RegisterKeeps ==
  ASSUME NEW X, NEW reg \in Seq(X), NEW qs \in Seq(X)
  PROVE  /\ Register(reg, qs) \in Seq(X)
         /\ \A x : Contains(Register(reg, qs), x) <=> Contains(reg, x) \/ Contains(qs, x)
<1> DEFINE n == Len(qs)
           Acc == Seq(X)
           With(r, q) == IF Contains(r, q) THEN r ELSE Append(r, q)
           step == [p \in (1 .. n) \X Acc |-> With(p[2], qs[p[1]])]
           last == [s \in SUBSET (1 .. n) |-> Max(s)]
           Is(g) == g = [s \in SUBSET DOMAIN qs |->
                           IF s = {} THEN reg ELSE With(g[s \ {Max(s)}], qs[Max(s)])]
           iter == CHOOSE g : Is(g)
<1>1. n \in Nat /\ DOMAIN qs = 1 .. n /\ \A i \in 1 .. n : qs[i] \in X
  OBVIOUS
<1>2. step \in [(1 .. n) \X Acc -> Acc]
  <2>1. \A p \in (1 .. n) \X Acc : With(p[2], qs[p[1]]) \in Acc
    BY <1>1, AppendContains
  <2> QED  BY <2>1
<1>3. \A i \in 1 .. n, r \in Acc : step[<<i, r>>] = With(r, qs[i])
  OBVIOUS
<1> HIDE DEF step, n, Acc
<1>4. PICK g \in [SUBSET (1 .. n) -> Acc] : FoldsTo(g, 1 .. n, reg, last, step)
  <2>1. reg \in Acc
    BY DEF Acc
  <2> QED  BY <1>1, <1>2, <2>1, FoldLeftExists
<1>5. Is(g)
  <2>1. \A s \in SUBSET (1 .. n) :
          g[s] = IF s = {} THEN reg ELSE With(g[s \ {Max(s)}], qs[Max(s)])
    <3> TAKE s \in SUBSET (1 .. n)
    <3>1. s # {} => Max(s) \in 1 .. n
      BY <1>1, MaxIsIn
    <3>2. g[s \ {Max(s)}] \in Acc
      OBVIOUS
    <3>3. last[s] = Max(s)
      OBVIOUS
    <3>4. g[s] = IF s = {} THEN reg ELSE step[<<last[s], g[s \ {last[s]}]>>]
      BY <1>4 DEF FoldsTo
    <3>5. s # {} => step[<<Max(s), g[s \ {Max(s)}]>>] = With(g[s \ {Max(s)}], qs[Max(s)])
      BY <1>3, <3>1, <3>2
    <3> HIDE DEF With, last
    <3> QED  BY <3>3, <3>4, <3>5
  <2> HIDE DEF With
  <2> QED  BY <1>1, <2>1
<1>6. Is(iter)
  BY <1>5
<1>7. Register(reg, qs) = iter[1 .. n]
  BY <1>1 DEF Register, FoldLeft, MapThenFoldSet
<1> HIDE DEF iter
<1> DEFINE kept == [i \in 0 .. n |-> iter[1 .. i]]
<1>8. kept[0] = reg /\ \A i \in 1 .. n : kept[i] = With(kept[i - 1], qs[i])
  <2>1. \A s \in SUBSET (1 .. n) :
          iter[s] = IF s = {} THEN reg ELSE With(iter[s \ {Max(s)}], qs[Max(s)])
    <3> HIDE DEF With
    <3> QED  BY <1>1, <1>6
  <2>2. kept[0] = reg
    <3>1. 1 .. 0 = {} /\ {} \in SUBSET (1 .. n) /\ kept[0] = iter[1 .. 0]
      BY <1>1
    <3> QED  BY <2>1, <3>1
  <2>3. ASSUME NEW i \in 1 .. n PROVE kept[i] = With(kept[i - 1], qs[i])
    <3>1. kept[i] = iter[1 .. i] /\ kept[i - 1] = iter[1 .. (i - 1)]
      BY <1>1
    <3>2. 1 .. i \in SUBSET (1 .. n) /\ i \in 1 .. i
      BY <1>1
    <3>3. Max(1 .. i) = i /\ (1 .. i) \ {i} = 1 .. (i - 1)
      BY <1>1, LastOfInterval
    <3>4. iter[1 .. i] = With(iter[(1 .. i) \ {Max(1 .. i)}], qs[Max(1 .. i)])
      <4> HIDE DEF With
      <4> QED  BY <2>1, <3>2
    <3> HIDE DEF With, kept
    <3> QED  BY <3>1, <3>3, <3>4
  <2> QED  BY <2>2, <2>3
<1> HIDE DEF kept
<1> DEFINE Right(i) == /\ kept[i] \in Acc
                       /\ \A x : Contains(kept[i], x) <=>
                            Contains(reg, x) \/ \E j \in 1 .. i : qs[j] = x
           Bad == { i \in 0 .. n : ~ Right(i) }
<1>9. Bad = {}
  <2> SUFFICES ASSUME Bad # {} PROVE FALSE
    OBVIOUS
  <2>1. PICK i \in Bad : \A j \in Bad : i <= j
    <3>1. Bad \in SUBSET Nat
      BY <1>1
    <3> HIDE DEF Bad
    <3> QED  BY <3>1, LeastNumber
  <2>2. i \in 0 .. n /\ ~ Right(i)
    BY <2>1
  <2>3. CASE i = 0
    BY <1>8, <2>2, <2>3 DEF Acc
  <2>4. CASE i # 0
    <3>1. i \in 1 .. n /\ i - 1 \in 0 .. n /\ ~ (i <= i - 1)
      BY <1>1, <2>2, <2>4
    <3>2. Right(i - 1)
      <4>1. i - 1 \notin Bad
        <5> HIDE DEF Bad
        <5> QED  BY <2>1, <3>1
      <4> QED  BY <3>1, <4>1
    <3>3. \A x : (\E j \in 1 .. i : qs[j] = x) <=> x = qs[i] \/ \E j \in 1 .. (i - 1) : qs[j] = x
      BY <1>1, <3>1
    <3>4. /\ kept[i] \in Acc
          /\ \A x : Contains(kept[i], x) <=> x = qs[i] \/ Contains(kept[i - 1], x)
      <4>1. kept[i - 1] \in Seq(X) /\ qs[i] \in X /\ kept[i] = With(kept[i - 1], qs[i])
        BY <1>1, <1>8, <3>1, <3>2 DEF Acc
      <4>2. CASE Contains(kept[i - 1], qs[i])
        BY <4>1, <4>2, <3>2
      <4>3. CASE ~ Contains(kept[i - 1], qs[i])
        BY <4>1, <4>3, AppendContains DEF Acc
      <4> QED  BY <4>2, <4>3
    <3> QED  BY <2>2, <3>2, <3>3, <3>4
  <2> QED  BY <2>3, <2>4
<1>10. Right(n)
  <2>1. n \in 0 .. n
    BY <1>1
  <2> QED  BY <1>9, <2>1
<1>11. kept[n] = iter[1 .. n]
  BY <1>1 DEF kept
<1> QED  BY <1>1, <1>7, <1>10, <1>11 DEF Contains, Acc, n

-----------------------------------------------------------------------------
(* Answers.                                                                *)

LEMMA TypedValueTyped ==
  ASSUME NEW st \in States, NEW t \in Targets, NEW v \in Values
  PROVE  /\ SetTypedValue(st, t, v) \in States
         /\ SetTypedValue(st, t, v).answers = st.answers
         /\ SetTypedValue(st, t, v).confirmations = st.confirmations
         /\ SetTypedValue(st, t, v).replans = st.replans
<1>1. /\ st.value \in [Targets -> Values] /\ st.status \in [Targets -> FieldStatus]
      /\ "provided" \in FieldStatus
  BY DEF States, FieldStatus
<1>2. /\ [st.value EXCEPT ![t] = v] \in [Targets -> Values]
      /\ [st.status EXCEPT ![t] = "provided"] \in [Targets -> FieldStatus]
  BY <1>1
<1>3. SetTypedValue(st, t, v) = [st EXCEPT !.value = [st.value EXCEPT ![t] = v],
                                           !.status = [st.status EXCEPT ![t] = "provided"]]
  BY DEF SetTypedValue, States
<1> QED  BY <1>2, <1>3 DEF States

\* A question that can be answered leaves a state, and adds one record; what
\* waits for other questions still waits.
LEMMA FieldAnswered ==
  ASSUME NEW st \in States, NEW p \in Payloads, p.question.kind # "confirm"
  PROVE  /\ ApplyField(st, p) \in States
         /\ ApplyField(st, p).answers = st.answers
         /\ ApplyField(st, p).confirmations = st.confirmations
         /\ ApplyField(st, p).replans = st.replans
<1> DEFINE t == p.question.target
           q == p.question
<1>1. /\ t \in Targets /\ q \in QuestionIds
      /\ p.answer \in Replied /\ p.answer \notin {"keep", "change"}
  BY DEF Payloads, QuestionIds
<1>2. /\ st.value \in [Targets -> Values] /\ st.status \in [Targets -> FieldStatus]
      /\ {"skipped", "no_preference"} \subseteq FieldStatus /\ "empty" \in Values
      /\ st.skipped \in SUBSET QuestionIds
  BY DEF States, FieldStatus, Values
<1> HIDE DEF t, q
<1>3. CASE p.answer = "skip"
  <2> DEFINE s == IF st.value[t] = "empty" THEN "skipped" ELSE st.status[t]
  <2>1. s \in FieldStatus
    BY <1>1, <1>2
  <2>2. [st.status EXCEPT ![t] = s] \in [Targets -> FieldStatus]
        /\ st.skipped \cup {q} \in SUBSET QuestionIds
    BY <1>1, <1>2, <2>1
  <2>3. ApplyField(st, p) = [st EXCEPT !.skipped = st.skipped \cup {q},
                                       !.status = [st.status EXCEPT ![t] = s]]
    BY <1>3 DEF ApplyField, States, t, q
  <2> HIDE DEF s
  <2> QED  BY <2>2, <2>3 DEF States
<1>4. CASE p.answer \in {"no_preference", "none"}
  <2>1. /\ [st.status EXCEPT ![t] = "no_preference"] \in [Targets -> FieldStatus]
        /\ [st.value EXCEPT ![t] = "empty"] \in [Targets -> Values]
    BY <1>1, <1>2
  <2>2. ApplyField(st, p) = [st EXCEPT !.value = [st.value EXCEPT ![t] = "empty"],
                                       !.status = [st.status EXCEPT ![t] = "no_preference"]]
    BY <1>4 DEF ApplyField, States, t
  <2> QED  BY <2>1, <2>2 DEF States
<1>5. CASE p.answer \notin {"skip", "no_preference", "none"}
  <2>1. p.answer \in Values
    BY <1>1, <1>5 DEF Replied
  <2>2. ApplyField(st, p) = SetTypedValue(st, t, p.answer)
    BY <1>5 DEF ApplyField, t
  <2> QED  BY <1>1, <2>1, <2>2, TypedValueTyped
<1> QED  BY <1>3, <1>4, <1>5

LEMMA ConfirmationAnswered ==
  ASSUME NEW st \in States, NEW p \in Payloads, p.question.kind = "confirm", Answerable(st, p)
  PROVE  /\ ApplyConfirmation(st, p) \in States
         /\ ApplyConfirmation(st, p).answers = st.answers
         /\ ApplyConfirmation(st, p).replans = st.replans
         /\ \A x : x # p.question \/ p.answer = "skip"
                    => PendingFor(ApplyConfirmation(st, p), x) = PendingFor(st, x)
<1> DEFINE q == p.question
           i == CHOOSE j \in PendingFor(st, q) : \A k \in PendingFor(st, q) : j <= k
           c == st.confirmations[i]
           done == [st EXCEPT !.confirmations[i].status = "resolved"]
<1>1. PendingFor(st, q) # {} /\ p.answer \in {"skip", "keep", "change"} /\ q \in QuestionIds
  BY DEF Answerable, Payloads
<1>2. st.confirmations \in Seq(Gates) /\ st.skipped \in SUBSET QuestionIds
  BY DEF States
<1>3. i \in PendingFor(st, q)
  <2>1. PendingFor(st, q) \in SUBSET Nat
    BY <1>2 DEF PendingFor
  <2>2. \E j \in PendingFor(st, q) : \A k \in PendingFor(st, q) : j <= k
    BY <1>1, <2>1, LeastNumber
  <2> QED  BY <2>2
<1>4. i \in DOMAIN st.confirmations /\ c \in Gates /\ c.question = q
  <2>1. i \in DOMAIN st.confirmations /\ st.confirmations[i].question = q
    BY <1>3 DEF PendingFor
  <2> HIDE DEF i
  <2> QED  BY <1>2, <2>1
<1> DEFINE gate == [c EXCEPT !.status = "resolved"]
           gates == [st.confirmations EXCEPT ![i] = gate]
<1>5. gate \in Gates /\ gate.question = q
  BY <1>4 DEF Gates
<1>6. gates \in Seq(Gates) /\ DOMAIN gates = DOMAIN st.confirmations
      /\ \A j \in DOMAIN gates : gates[j] = IF j = i THEN gate ELSE st.confirmations[j]
  BY <1>2, <1>4, <1>5
<1>7. done = [st EXCEPT !.confirmations = gates]
  BY <1>4 DEF States
<1>8. /\ done \in States /\ done.answers = st.answers /\ done.replans = st.replans
      /\ done.confirmations = gates
  BY <1>6, <1>7 DEF States
<1>9. \A x : x # q => PendingFor(done, x) = PendingFor(st, x)
  <2>1. c.question = q /\ c = st.confirmations[i] /\ gate.question = q
    BY <1>4, <1>5
  <2> HIDE DEF done, gate, gates, c, i, q
  <2>2. \A x, j : x # q /\ j \in DOMAIN gates =>
          (gates[j].question = x /\ gates[j].status = "pending"
             <=> st.confirmations[j].question = x /\ st.confirmations[j].status = "pending")
    BY <1>6, <2>1
  <2> QED  BY <1>6, <1>8, <2>2 DEF PendingFor
<1>10. CASE p.answer = "skip"
  <2>1. st.skipped \cup {q} \in SUBSET QuestionIds
    BY <1>1, <1>2
  <2>2. ApplyConfirmation(st, p) = [st EXCEPT !.skipped = st.skipped \cup {q}]
    BY <1>10 DEF ApplyConfirmation
  <2>3. [st EXCEPT !.skipped = st.skipped \cup {q}] \in States
    BY <2>1 DEF States
  <2>4. /\ [st EXCEPT !.skipped = st.skipped \cup {q}].answers = st.answers
        /\ [st EXCEPT !.skipped = st.skipped \cup {q}].replans = st.replans
        /\ [st EXCEPT !.skipped = st.skipped \cup {q}].confirmations = st.confirmations
    BY DEF States
  <2> QED  BY <2>2, <2>3, <2>4 DEF PendingFor
<1>11. CASE p.answer = "keep"
  <2>1. ApplyConfirmation(st, p) = done
    BY <1>11 DEF ApplyConfirmation
  <2> HIDE DEF done
  <2> QED  BY <1>8, <1>9, <1>11, <2>1
<1>12. CASE p.answer = "change"
  <2>1. ApplyConfirmation(st, p) = SetTypedValue(done, c.target, c.proposed)
    BY <1>12 DEF ApplyConfirmation
  <2>2. c.target \in Targets /\ c.proposed \in Values
    BY <1>4 DEF Gates
  <2> HIDE DEF done, c
  <2>3. /\ SetTypedValue(done, c.target, c.proposed) \in States
        /\ SetTypedValue(done, c.target, c.proposed).answers = done.answers
        /\ SetTypedValue(done, c.target, c.proposed).confirmations = done.confirmations
        /\ SetTypedValue(done, c.target, c.proposed).replans = done.replans
    BY <1>8, <2>2, TypedValueTyped
  <2>4. \A x : x # q => PendingFor(SetTypedValue(done, c.target, c.proposed), x)
                          = PendingFor(st, x)
    BY <1>9, <2>3 DEF PendingFor
  <2> QED  BY <1>8, <1>12, <2>1, <2>3, <2>4
<1> QED  BY <1>1, <1>10, <1>11, <1>12

LEMMA OneAnswered ==
  ASSUME NEW st \in States, NEW p \in Payloads, Answerable(st, p)
  PROVE  /\ ApplyOne(st, p) \in States
         /\ ApplyOne(st, p).replans = st.replans
         /\ \E record \in Records : ApplyOne(st, p).answers = Append(st.answers, record)
         /\ \A x : x # p.question \/ p.question.kind # "confirm" \/ p.answer = "skip"
                    => PendingFor(ApplyOne(st, p), x) = PendingFor(st, x)
<1> DEFINE applied == IF p.question.kind = "confirm" THEN ApplyConfirmation(st, p)
                                                     ELSE ApplyField(st, p)
           record == [question |-> p.question,
                      status |-> IF p.answer = "skip" THEN "skipped" ELSE "answered",
                      selected |-> p.answer]
<1>1. /\ applied \in States /\ applied.answers = st.answers /\ applied.replans = st.replans
      /\ \A x : x # p.question \/ p.question.kind # "confirm" \/ p.answer = "skip"
                 => PendingFor(applied, x) = PendingFor(st, x)
  <2>1. CASE p.question.kind = "confirm"
    BY <2>1, ConfirmationAnswered
  <2>2. CASE p.question.kind # "confirm"
    BY <2>2, FieldAnswered DEF PendingFor
  <2> QED  BY <2>1, <2>2
<1>2. record \in Records
  BY DEF Payloads, Records
<1>3. ApplyOne(st, p) = [applied EXCEPT !.answers = Append(applied.answers, record)]
  BY DEF ApplyOne
<1> HIDE DEF applied, record
<1>4. Append(applied.answers, record) \in Seq(Records)
  BY <1>1, <1>2 DEF States
<1>5. /\ ApplyOne(st, p) \in States /\ ApplyOne(st, p).replans = applied.replans
      /\ ApplyOne(st, p).answers = Append(applied.answers, record)
      /\ ApplyOne(st, p).confirmations = applied.confirmations
  BY <1>1, <1>3, <1>4 DEF States
<1>6. \A x : PendingFor(ApplyOne(st, p), x) = PendingFor(applied, x)
  BY <1>5 DEF PendingFor
<1> QED  BY <1>1, <1>2, <1>5, <1>6

\* One answer after another: each can still be applied, as what the others
\* confirm is something else.
LEMMA BatchAnswered ==
  ASSUME NEW st \in States, NEW batch \in Seq(Payloads), Applicable(st, batch)
  PROVE  LET new == FoldLeft(ApplyOne, st, batch)
         IN  /\ new \in States /\ new.replans = st.replans
             /\ Len(new.answers) = Len(st.answers) + Len(batch)
             /\ \A i \in 1 .. Len(st.answers) : new.answers[i] = st.answers[i]
<1> DEFINE n == Len(batch)
           With(a, p) == IF Answerable(a, p) THEN ApplyOne(a, p) ELSE a
           step == [p \in (1 .. n) \X States |-> With(p[2], batch[p[1]])]
           last == [s \in SUBSET (1 .. n) |-> Max(s)]
           Is(g) == g = [s \in SUBSET DOMAIN batch |->
                           IF s = {} THEN st ELSE ApplyOne(g[s \ {Max(s)}], batch[Max(s)])]
           iter == CHOOSE g : Is(g)
<1>1. n \in Nat /\ DOMAIN batch = 1 .. n /\ \A i \in 1 .. n : batch[i] \in Payloads
  OBVIOUS
<1>2. step \in [(1 .. n) \X States -> States]
  <2>1. \A a \in States, p \in Payloads : With(a, p) \in States
    BY OneAnswered
  <2> HIDE DEF With
  <2>2. \A p \in (1 .. n) \X States : With(p[2], batch[p[1]]) \in States
    BY <1>1, <2>1
  <2> QED  BY <2>2
<1>3. \A i \in 1 .. n, a \in States : step[<<i, a>>] = With(a, batch[i])
  OBVIOUS
<1>0. Len(st.answers) \in Nat
  BY DEF States
<1>4. /\ \A i, j \in 1 .. n : (/\ i < j /\ batch[i].question = batch[j].question
                              /\ batch[i].question.kind = "confirm") => batch[i].answer = "skip"
      /\ \A i \in 1 .. n : Answerable(st, batch[i])
  <2> HIDE DEF n
  <2> QED  BY <1>1 DEF Applicable
<1> HIDE DEF step, n
<1>5. PICK g \in [SUBSET (1 .. n) -> States] : FoldsTo(g, 1 .. n, st, last, step)
  BY <1>1, <1>2, FoldLeftExists
<1>6. \A s \in SUBSET (1 .. n) :
        /\ s = {} => g[s] = st
        /\ s # {} => /\ Max(s) \in s /\ Max(s) \in 1 .. n
                     /\ s \ {Max(s)} \in SUBSET (1 .. n)
                     /\ g[s \ {Max(s)}] \in States
                     /\ g[s] = With(g[s \ {Max(s)}], batch[Max(s)])
  <2> TAKE s \in SUBSET (1 .. n)
  <2>1. s # {} => Max(s) \in s /\ Max(s) \in 1 .. n
    BY <1>1, MaxIsIn
  <2>2. s \ {Max(s)} \in SUBSET (1 .. n) /\ g[s \ {Max(s)}] \in States /\ last[s] = Max(s)
    OBVIOUS
  <2>3. g[s] = IF s = {} THEN st ELSE step[<<last[s], g[s \ {last[s]}]>>]
    BY <1>5 DEF FoldsTo
  <2>4. s # {} => step[<<Max(s), g[s \ {Max(s)}]>>] = With(g[s \ {Max(s)}], batch[Max(s)])
    BY <1>3, <2>1, <2>2
  <2> HIDE DEF With, last
  <2> QED  BY <2>1, <2>2, <2>3, <2>4
<1> DEFINE Waits(s) == \A k \in 1 .. n : (\A j \in s : j < k) =>
                          PendingFor(g[s], batch[k].question) = PendingFor(st, batch[k].question)
           Right(s) == /\ g[s].replans = st.replans
                       /\ Len(g[s].answers) = Len(st.answers) + Cardinality(s)
                       /\ \A i \in 1 .. Len(st.answers) : g[s].answers[i] = st.answers[i]
                       /\ Waits(s)
           Bad == { s \in SUBSET (1 .. n) : ~ Right(s) }
<1>7. /\ \A s \in SUBSET (1 .. n) : IsFiniteSet(s) /\ Cardinality(s) \in Nat
      /\ Cardinality(1 .. n) = n
  <2>1. /\ IsFiniteSet(1 .. n) /\ 1 \in Int /\ n \in Int
        /\ Cardinality(1 .. n) = IF 1 > n THEN 0 ELSE n - 1 + 1
    BY <1>1, FS_Interval
  <2>2. Cardinality(1 .. n) = n
    BY <1>1, <2>1
  <2> QED  BY <2>1, <2>2, FS_Subset, FS_CardinalityType
<1>8. ASSUME NEW s \in SUBSET (1 .. n), s # {}, Right(s \ {Max(s)})
      PROVE  /\ Answerable(g[s \ {Max(s)}], batch[Max(s)])
             /\ g[s] = ApplyOne(g[s \ {Max(s)}], batch[Max(s)])
             /\ Right(s)
  <2> DEFINE m == Max(s)
             a == g[s \ {m}]
             p == batch[m]
  <2>1. /\ m \in s /\ m \in 1 .. n /\ a \in States /\ p \in Payloads
        /\ g[s] = With(a, p) /\ s \ {m} \in SUBSET (1 .. n)
    BY <1>1, <1>6, <1>8
  <2>2. Cardinality(s) = Cardinality(s \ {m}) + 1 /\ Cardinality(s \ {m}) \in Nat
    BY <1>7, <2>1, FS_RemoveElement
  <2>0. \A j \in s \ {m} : j < m
    <3>1. n \in Nat /\ s \in SUBSET (1 .. n) /\ s # {}
      BY <1>1, <1>8
    <3> HIDE DEF Right, Waits, a, p
    <3>2. \A j \in s : j <= m
      BY <3>1, MaxIsIn
    <3> HIDE DEF m
    <3>3. \A j \in s : j \in Nat
      BY <3>1
    <3> QED  BY <2>1, <3>2, <3>3
  <2> HIDE DEF m
  <2>3. PendingFor(a, p.question) = PendingFor(st, p.question)
    BY <1>8, <2>0, <2>1 DEF m
  <2>4. Answerable(a, p)
    BY <1>4, <2>1, <2>3 DEF Answerable
  <2>5. g[s] = ApplyOne(a, p)
    BY <2>1, <2>4
  <2> HIDE DEF a, With
  <2>6. PICK record \in Records : g[s].answers = Append(a.answers, record)
    BY <2>1, <2>4, <2>5, OneAnswered
  <2>7. g[s].replans = a.replans
        /\ \A x : x # p.question \/ p.question.kind # "confirm" \/ p.answer = "skip"
                   => PendingFor(g[s], x) = PendingFor(a, x)
    BY <2>1, <2>4, <2>5, OneAnswered
  <2>8. /\ a.replans = st.replans
        /\ Len(a.answers) = Len(st.answers) + Cardinality(s \ {m})
        /\ \A i \in 1 .. Len(st.answers) : a.answers[i] = st.answers[i]
    BY <1>8 DEF a, m
  <2>9. a.answers \in Seq(Records)
    BY <2>1 DEF States
  <2>10. /\ Len(g[s].answers) = Len(st.answers) + Cardinality(s)
         /\ \A i \in 1 .. Len(st.answers) : g[s].answers[i] = st.answers[i]
    <3>1. /\ Len(g[s].answers) = Len(a.answers) + 1
          /\ \A i \in 1 .. Len(a.answers) : g[s].answers[i] = a.answers[i]
      BY <2>6, <2>9
    <3>2. Len(g[s].answers) = Len(st.answers) + Cardinality(s)
      <4> DEFINE l == Len(st.answers)
                 b == Cardinality(s \ {m})
      <4>1. /\ l \in Nat /\ b \in Nat /\ Len(a.answers) = l + b
            /\ Cardinality(s) = b + 1 /\ Len(g[s].answers) = Len(a.answers) + 1
        BY <1>0, <2>2, <2>8, <3>1
      <4> HIDE DEF l, b
      <4>2. Len(g[s].answers) = l + Cardinality(s)
        BY <4>1
      <4> QED  BY <4>2 DEF l
    <3>3. \A i \in 1 .. Len(st.answers) : i \in 1 .. Len(a.answers)
      <4> DEFINE l == Len(st.answers)
                 b == Cardinality(s \ {m})
      <4>1. l \in Nat /\ b \in Nat /\ Len(a.answers) = l + b
        BY <1>0, <2>2, <2>8
      <4> HIDE DEF l, b
      <4>2. \A i \in 1 .. l : i \in 1 .. (l + b)
        BY <4>1
      <4> QED  BY <4>1, <4>2 DEF l
    <3> QED  BY <2>8, <3>1, <3>2, <3>3
  <2>11. Waits(s)
    <3> SUFFICES ASSUME NEW k \in 1 .. n, \A j \in s : j < k
                 PROVE  PendingFor(g[s], batch[k].question) = PendingFor(st, batch[k].question)
      OBVIOUS
    <3>1. /\ \A j \in s \ {m} : j < k
          /\ batch[k].question # p.question \/ p.question.kind # "confirm" \/ p.answer = "skip"
      BY <1>4, <2>1
    <3>2. PendingFor(a, batch[k].question) = PendingFor(st, batch[k].question)
      BY <1>8, <3>1 DEF a, m
    <3> QED  BY <2>7, <3>1, <3>2
  <2> HIDE DEF Waits
  <2>12. Right(s)
    BY <2>7, <2>8, <2>10, <2>11
  <2> QED  BY <2>4, <2>5, <2>12 DEF a, m
<1>9. Right({})
  <2>1. g[{}] = st /\ Cardinality({}) = 0
    BY <1>6, FS_EmptySet
  <2>2. Len(st.answers) = Len(st.answers) + 0
    BY <1>0
  <2> QED  BY <2>1, <2>2
<1> HIDE DEF Right
<1>10. Bad = {}
  <2> SUFFICES ASSUME Bad # {} PROVE FALSE
    OBVIOUS
  <2>1. PICK U \in Bad : \A x \in U : U \ {x} \notin Bad
    <3>1. Bad \in SUBSET SUBSET (1 .. n) /\ IsFiniteSet(1 .. n)
      BY <1>7
    <3> HIDE DEF Bad
    <3> QED  BY <3>1, SmallestSet
  <2>2. U \in SUBSET (1 .. n) /\ ~ Right(U) /\ U # {}
    BY <1>9, <2>1
  <2>3. Right(U \ {Max(U)})
    BY <1>6, <2>1, <2>2
  <2> QED  BY <1>8, <2>2, <2>3
<1>11. \A s \in SUBSET (1 .. n) :
         g[s] = IF s = {} THEN st ELSE ApplyOne(g[s \ {Max(s)}], batch[Max(s)])
  BY <1>6, <1>8, <1>10
<1>12. Is(iter)
  <2>1. Is(g)
    BY <1>1, <1>11
  <2> QED  BY <2>1
<1>13. FoldLeft(ApplyOne, st, batch) = iter[1 .. n]
  BY <1>1 DEF FoldLeft, MapThenFoldSet
<1> HIDE DEF iter
<1> DEFINE Differ == { s \in SUBSET (1 .. n) : iter[s] # g[s] }
<1>14. Differ = {}
  <2> SUFFICES ASSUME Differ # {} PROVE FALSE
    OBVIOUS
  <2>1. PICK U \in Differ : \A x \in U : U \ {x} \notin Differ
    <3>1. Differ \in SUBSET SUBSET (1 .. n) /\ IsFiniteSet(1 .. n)
      BY <1>7
    <3> HIDE DEF Differ
    <3> QED  BY <3>1, SmallestSet
  <2>2. iter[U] = IF U = {} THEN st ELSE ApplyOne(iter[U \ {Max(U)}], batch[Max(U)])
    BY <1>1, <1>12, <2>1
  <2>3. U # {} => iter[U \ {Max(U)}] = g[U \ {Max(U)}]
    BY <1>6, <2>1
  <2> QED  BY <1>11, <2>1, <2>2, <2>3
<1>15. iter[1 .. n] = g[1 .. n] /\ g[1 .. n] \in States /\ Right(1 .. n)
  <2>1. 1 .. n \in SUBSET (1 .. n)
    OBVIOUS
  <2> QED  BY <1>10, <1>14, <2>1
<1> QED  BY <1>7, <1>13, <1>15 DEF Right, n

LEMMA DependentsInvalidated ==
  ASSUME NEW st \in States
  PROVE  /\ InvalidateDependents(st) \in States
         /\ InvalidateDependents(st).replans = st.replans
         /\ Len(InvalidateDependents(st).answers) = Len(st.answers)
         /\ \A i \in 1 .. Len(st.answers) :
              \/ InvalidateDependents(st).answers[i] = st.answers[i]
              \/ InvalidateDependents(st).answers[i]
                   = [st.answers[i] EXCEPT !.status = "invalidated"]
<1> DEFINE n == Len(st.answers)
           Mark(a) == IF a.question = Detail /\ a.status = "answered"
                      THEN [a EXCEPT !.status = "invalidated"] ELSE a
           marked == [i \in 1 .. n |-> Mark(st.answers[i])]
<1>1. /\ st.answers \in Seq(Records) /\ n \in Nat /\ DOMAIN st.answers = 1 .. n
      /\ \A i \in 1 .. n : st.answers[i] \in Records
      /\ st.invalidated \in SUBSET QuestionIds
  BY DEF States
<1>2. \A a \in Records : Mark(a) \in Records
  BY DEF Records
<1> HIDE DEF Mark
<1>3. marked \in Seq(Records) /\ Len(marked) = n /\ \A i \in 1 .. n : marked[i] = Mark(st.answers[i])
  BY <1>1, <1>2
<1>4. Detail \in QuestionIds
  <2>1. "dietary_detail" \in Kinds
    BY DEF Kinds
  <2>2. "dietary_constraints" \in Targets /\ 0 \in Nat
    BY DEF Targets
  <2> QED  BY <2>1, <2>2 DEF Detail, Rule, QuestionIds
<1> DEFINE new == [st EXCEPT !.answers = marked,
                             !.invalidated = st.invalidated \cup {Detail}]
<1>5. InvalidateDependents(st) = st \/ InvalidateDependents(st) = new
  BY <1>1 DEF InvalidateDependents, Mark
<1> HIDE DEF marked
<1>6. new \in States /\ new.replans = st.replans /\ new.answers = marked
  <2>1. st.invalidated \cup {Detail} \in SUBSET QuestionIds
    BY <1>1, <1>4
  <2> QED  BY <1>3, <2>1 DEF States
<1>7. \A i \in 1 .. n : \/ marked[i] = st.answers[i]
                        \/ marked[i] = [st.answers[i] EXCEPT !.status = "invalidated"]
  BY <1>3 DEF Mark
<1> HIDE DEF new
<1> QED  BY <1>3, <1>5, <1>6, <1>7

LEMMA ConflictsDetected ==
  ASSUME NEW st \in States
  PROVE  /\ DetectConflicts(st) \in States
         /\ DetectConflicts(st).replans = st.replans
         /\ DetectConflicts(st).answers = st.answers
<1> DEFINE new == [st EXCEPT !.status = [st.status EXCEPT !["dietary_constraints"] = "conflicting"]]
<1>1. DetectConflicts(st) = st \/ DetectConflicts(st) = new
  BY DEF DetectConflicts, States
<1>2. st.status \in [Targets -> FieldStatus] /\ "conflicting" \in FieldStatus
  BY DEF States, FieldStatus
<1>3. [st.status EXCEPT !["dietary_constraints"] = "conflicting"] \in [Targets -> FieldStatus]
  BY <1>2
<1>4. new \in States /\ new.replans = st.replans /\ new.answers = st.answers
  BY <1>3 DEF States
<1> QED  BY <1>1, <1>4

\* The gate looks at the values and the statuses alone.
LEMMA ReadinessOfFields ==
  ASSUME NEW a, NEW b, a.value = b.value, a.status = b.status
  PROVE  RetrievalReady(a) <=> RetrievalReady(b)
BY DEF RetrievalReady, IsConflicting, IsScaling

LEMMA AnswersApplied ==
  ASSUME NEW st \in States, NEW batch \in Seq(Payloads), Applicable(st, batch), batch # <<>>
  PROVE  LET new == ApplyAnswers(st, batch)
         IN  /\ new \in States /\ new.replans = st.replans
             /\ Len(new.answers) > Len(st.answers)
             /\ KeepsHistory(st.answers, new.answers)
             /\ new.ready => RetrievalReady(new)
<1> DEFINE applied == FoldLeft(ApplyOne, st, batch)
           judged == InvalidateDependents(applied)
           checked == DetectConflicts(judged)
           stored == [checked EXCEPT !.blockers = Blockers(checked)]
           blocked == ~ IsConflicting(stored) /\ stored.blockers \cap BlockedCodes # {}
           ready == ~ blocked /\ RetrievalReady(stored)
           outcome == IF blocked THEN "blocked"
                      ELSE IF ready THEN "ready_for_retrieval" ELSE "needs_clarification"
           new == [stored EXCEPT !.ready = ready, !.outcome = outcome]
<1>1. ApplyAnswers(st, batch) = new
  BY DEF ApplyAnswers, RecomputeOutcome
<1>2. /\ Len(st.answers) \in Nat /\ DOMAIN st.answers = 1 .. Len(st.answers)
      /\ Len(batch) \in Nat \ {0}
  BY DEF States
<1>3. /\ applied \in States /\ applied.replans = st.replans
      /\ Len(applied.answers) = Len(st.answers) + Len(batch)
      /\ \A i \in 1 .. Len(st.answers) : applied.answers[i] = st.answers[i]
  BY BatchAnswered
<1> HIDE DEF applied
<1>4. /\ judged \in States /\ judged.replans = applied.replans
      /\ Len(judged.answers) = Len(applied.answers)
      /\ \A i \in 1 .. Len(applied.answers) :
           \/ judged.answers[i] = applied.answers[i]
           \/ judged.answers[i] = [applied.answers[i] EXCEPT !.status = "invalidated"]
  BY <1>3, DependentsInvalidated
<1> HIDE DEF judged
<1>5. checked \in States /\ checked.replans = judged.replans /\ checked.answers = judged.answers
  BY <1>4, ConflictsDetected
<1> HIDE DEF checked
<1>6. Blockers(checked) \in SUBSET Codes
  BY DEF Blockers
<1>7. /\ stored \in States /\ stored.replans = checked.replans
      /\ stored.answers = checked.answers
  BY <1>5, <1>6 DEF States
<1> HIDE DEF stored
<1>8. ready \in BOOLEAN /\ outcome \in Outcomes
  <2>1. ready \in BOOLEAN
    BY DEF RetrievalReady, IsConflicting
  <2>2. outcome \in Outcomes
    BY DEF Outcomes
  <2> QED  BY <2>1, <2>2
<1>9. ready => RetrievalReady(stored)
  OBVIOUS
<1> HIDE DEF ready, outcome
<1>10. /\ new \in States /\ new.replans = stored.replans /\ new.answers = stored.answers
       /\ new.ready = ready /\ new.value = stored.value /\ new.status = stored.status
  BY <1>7, <1>8 DEF States
<1> HIDE DEF new
<1>11. new.ready => RetrievalReady(new)
  BY <1>9, <1>10, ReadinessOfFields
<1>12. /\ Len(new.answers) > Len(st.answers)
       /\ \A i \in 1 .. Len(st.answers) : i \in 1 .. Len(applied.answers)
  BY <1>2, <1>3, <1>4, <1>5, <1>7, <1>10
<1>13. KeepsHistory(st.answers, new.answers)
  BY <1>2, <1>3, <1>4, <1>5, <1>7, <1>10, <1>12 DEF KeepsHistory
<1> QED  BY <1>1, <1>3, <1>4, <1>5, <1>7, <1>10, <1>11, <1>12, <1>13

-----------------------------------------------------------------------------
(* Plans.                                                                  *)

LEMMA TakeTyped ==
  ASSUME NEW X, NEW s \in Seq(X), NEW n \in Nat
  PROVE  /\ Take(s, n) \in Seq(X) /\ Len(Take(s, n)) <= n
         /\ \A x : Contains(Take(s, n), x) => Contains(s, x)
<1> DEFINE m == IF Len(s) < n THEN Len(s) ELSE n
<1>1. m \in Nat /\ m <= Len(s) /\ m <= n
  OBVIOUS
<1>2. Take(s, n) = SubSeq(s, 1, m)
  BY DEF Take
<1> HIDE DEF m
<1>3. /\ SubSeq(s, 1, m) \in Seq(X) /\ Len(SubSeq(s, 1, m)) = m
      /\ \A i \in 1 .. m : SubSeq(s, 1, m)[i] = s[i] /\ i \in 1 .. Len(s)
  BY <1>1
<1> QED  BY <1>1, <1>2, <1>3 DEF Contains

LEMMA ConcatTyped ==
  ASSUME NEW X, NEW s \in Seq(X), NEW t \in Seq(X)
  PROVE  /\ s \o t \in Seq(X)
         /\ \A x : Contains(s \o t, x) <=> Contains(s, x) \/ Contains(t, x)
<1>1. /\ s \o t \in Seq(X) /\ Len(s \o t) = Len(s) + Len(t)
      /\ Len(s) \in Nat /\ Len(t) \in Nat
      /\ \A i \in 1 .. Len(s) : (s \o t)[i] = s[i]
      /\ \A i \in 1 .. Len(t) : (s \o t)[Len(s) + i] = t[i]
  OBVIOUS
<1> DEFINE u == s \o t
<1> HIDE DEF u
<1>2. ASSUME NEW x, Contains(u, x) PROVE Contains(s, x) \/ Contains(t, x)
  <2>1. PICK i \in 1 .. Len(u) : u[i] = x
    BY <1>2 DEF Contains
  <2>2. CASE i <= Len(s)
    BY <1>1, <2>1, <2>2 DEF Contains, u
  <2>3. CASE i > Len(s)
    <3>1. i - Len(s) \in 1 .. Len(t) /\ i = Len(s) + (i - Len(s))
      BY <1>1, <2>1, <2>3 DEF u
    <3>2. t[i - Len(s)] = x
      BY <1>1, <2>1, <3>1 DEF u
    <3> QED  BY <3>1, <3>2 DEF Contains
  <2> QED  BY <1>1, <2>1, <2>2, <2>3
<1>3. ASSUME NEW x, Contains(s, x) \/ Contains(t, x) PROVE Contains(u, x)
  <2>1. CASE Contains(s, x)
    <3>1. PICK i \in 1 .. Len(s) : s[i] = x
      BY <2>1 DEF Contains
    <3>2. i \in 1 .. Len(u) /\ u[i] = x
      BY <1>1, <3>1 DEF u
    <3> QED  BY <3>2 DEF Contains
  <2>2. CASE Contains(t, x)
    <3>1. PICK i \in 1 .. Len(t) : t[i] = x
      BY <2>2 DEF Contains
    <3>2. Len(s) + i \in 1 .. Len(u) /\ u[Len(s) + i] = x
      BY <1>1, <3>1 DEF u
    <3> QED  BY <3>2 DEF Contains
  <2> QED  BY <1>3, <2>1, <2>2
<1> QED  BY <1>1, <1>2, <1>3 DEF u

LEMMA CatalogTyped ==
  ASSUME NEW st
  PROVE  Catalog(st) \in Seq(QuestionIds)
<1> DEFINE Q == Seq(QuestionIds)
           portions(early) == IF IsScaling(st) = early THEN <<Portions>> ELSE <<>>
           a == IF IsConflicting(st) THEN <<Conflict>> ELSE <<>>
           b == <<Rule("available_ingredients", "ingredients")>>
           c == IF st.status["task_scope"] = "unknown" THEN <<Rule("task_scope", "task_scope")>>
                ELSE <<>>
           d == <<Rule("time_limit", "time_minutes"), Screen, Detail, Rule("cuisine", "cuisine")>>
           e == <<Rule("equipment", "equipment"), Rule("preferences", "preferences")>>
<1>1. \A k \in Kinds, t \in Targets : Rule(k, t) \in QuestionIds
  BY DEF Rule, QuestionIds
<1>2. /\ {Conflict, Dish, Portions, Screen, Detail} \subseteq QuestionIds
      /\ Rule("available_ingredients", "ingredients") \in QuestionIds
      /\ Rule("task_scope", "task_scope") \in QuestionIds
      /\ Rule("time_limit", "time_minutes") \in QuestionIds
      /\ Rule("cuisine", "cuisine") \in QuestionIds
      /\ Rule("equipment", "equipment") \in QuestionIds
      /\ Rule("preferences", "preferences") \in QuestionIds
  BY <1>1 DEF Kinds, Targets, Conflict, Dish, Portions, Screen, Detail
<1>3. /\ a \in Q /\ <<Dish>> \in Q /\ b \in Q /\ c \in Q
      /\ portions(TRUE) \in Q /\ portions(FALSE) \in Q
  BY <1>2
<1>4. d \in Q /\ e \in Q
  BY <1>2
<1>5. Catalog(st) = a \o <<Dish>> \o portions(TRUE) \o b \o c \o d \o portions(FALSE) \o e
  BY DEF Catalog
<1>6. \A x, y \in Q : x \o y \in Q
  OBVIOUS
<1> HIDE DEF Q, a, b, c, d, e, portions
<1>7. a \o <<Dish>> \o portions(TRUE) \o b \in Q
  <2>1. a \o <<Dish>> \in Q
    BY <1>3, <1>6
  <2>2. a \o <<Dish>> \o portions(TRUE) \in Q
    BY <1>3, <1>6, <2>1
  <2> QED  BY <1>3, <1>6, <2>2
<1>8. a \o <<Dish>> \o portions(TRUE) \o b \o c \o d \in Q
  <2>1. a \o <<Dish>> \o portions(TRUE) \o b \o c \in Q
    BY <1>3, <1>6, <1>7
  <2> QED  BY <1>4, <1>6, <2>1
<1>9. a \o <<Dish>> \o portions(TRUE) \o b \o c \o d \o portions(FALSE) \in Q
  BY <1>3, <1>6, <1>8
<1>10. a \o <<Dish>> \o portions(TRUE) \o b \o c \o d \o portions(FALSE) \o e \in Q
  BY <1>4, <1>6, <1>9
<1> QED  BY <1>5, <1>10 DEF Q

LEMMA RuleQuestionsTyped ==
  ASSUME NEW st, NEW max \in Nat
  PROVE  RuleQuestions(st, max) \in Seq(QuestionIds)
<1> DEFINE open == Suppress(Catalog(st), st)
           of(kinds) == Only(open, {q \in ToSet(open) : q.kind \in kinds})
           critical == of(Critical)
           tail == Only(open, ToSet(open) \ ToSet(critical))
<1>1. Catalog(st) \in Seq(QuestionIds)
  BY CatalogTyped
<1>2. open \in Seq(QuestionIds)
  BY <1>1, OnlyKeeps DEF Suppress
<1> HIDE DEF open
<1>3. of({"conflict"}) \in Seq(QuestionIds) /\ critical \in Seq(QuestionIds)
  BY <1>2, OnlyKeeps
<1>4. tail \in Seq(QuestionIds)
  BY <1>2, OnlyKeeps
<1>5. \/ RuleQuestions(st, max) = Take(of({"conflict"}), max)
      \/ RuleQuestions(st, max) = Take(open, max)
      \/ RuleQuestions(st, max) = Take(critical \o tail, max)
  BY DEF RuleQuestions, open
<1> HIDE DEF of, critical, tail
<1>6. critical \o tail \in Seq(QuestionIds)
  BY <1>3, <1>4
<1> QED  BY <1>2, <1>3, <1>5, <1>6, TakeTyped

\* One update of a proposal.
LEMMA UpdateApplied ==
  ASSUME NEW a \in [st : States, confirms : Seq(QuestionIds)], NEW u \in Updates
  PROVE  /\ ApplyUpdate(a, u) \in [st : States, confirms : Seq(QuestionIds)]
         /\ ApplyUpdate(a, u).st.replans = a.st.replans
         /\ ApplyUpdate(a, u).st.answers = a.st.answers
         /\ KeepsExplicit(a.st, ApplyUpdate(a, u).st)
<1> DEFINE st == a.st
           q == Confirm(u.target, Len(a.confirms) + 1)
           gate == [target |-> u.target, proposed |-> u.value, question |-> q,
                    status |-> "pending"]
           waits == [st EXCEPT !.confirmations = Append(st.confirmations, gate)]
           typed == SetTypedValue(st, u.target, u.value)
<1>1. /\ st \in States /\ a.confirms \in Seq(QuestionIds)
      /\ u.target \in Targets /\ u.value \in Values
  BY DEF Updates
<1>2. q \in QuestionIds
  <2>1. "confirm" \in Kinds /\ Len(a.confirms) + 1 \in Nat
    BY <1>1 DEF Kinds
  <2> QED  BY <1>1, <2>1 DEF Confirm, QuestionIds
<1> HIDE DEF q
<1>3. Append(st.confirmations, gate) \in Seq(Gates)
  <2>1. gate \in Gates
    BY <1>1, <1>2 DEF Gates
  <2>2. st.confirmations \in Seq(Gates)
    BY <1>1 DEF States
  <2> HIDE DEF gate
  <2> QED  BY <2>1, <2>2
<1>4. \/ ApplyUpdate(a, u) = a
      \/ ApplyUpdate(a, u) = [st |-> waits, confirms |-> Append(a.confirms, q)]
      \/ /\ ApplyUpdate(a, u) = [st |-> typed, confirms |-> a.confirms]
         /\ st.status[u.target] \notin Explicit
  BY DEF ApplyUpdate, q
<1> HIDE DEF gate
<1>5. /\ waits \in States /\ waits.replans = st.replans /\ waits.answers = st.answers
      /\ waits.value = st.value /\ waits.status = st.status
  BY <1>1, <1>3 DEF States
<1>6. typed \in States /\ typed.replans = st.replans /\ typed.answers = st.answers
  BY <1>1, TypedValueTyped
<1>7. st.status[u.target] \notin Explicit => KeepsExplicit(st, typed)
  BY <1>1 DEF KeepsExplicit, SetTypedValue, States
<1>8. KeepsExplicit(st, waits) /\ KeepsExplicit(st, st)
  BY <1>5 DEF KeepsExplicit
<1>9. Append(a.confirms, q) \in Seq(QuestionIds)
  BY <1>1, <1>2
<1> HIDE DEF waits, typed
<1> QED  BY <1>1, <1>4, <1>5, <1>6, <1>7, <1>8, <1>9

\* All updates of a proposal.
LEMMA UpdatesApplied ==
  ASSUME NEW base \in [st : States, confirms : Seq(QuestionIds)], NEW updates \in Seq(Updates)
  PROVE  LET acc == FoldLeft(ApplyUpdate, base, updates)
         IN  /\ acc \in [st : States, confirms : Seq(QuestionIds)]
             /\ acc.st.replans = base.st.replans
             /\ acc.st.answers = base.st.answers
             /\ KeepsExplicit(base.st, acc.st)
<1> DEFINE n == Len(updates)
           Acc == [st : States, confirms : Seq(QuestionIds)]
           step == [p \in (1 .. n) \X Acc |-> ApplyUpdate(p[2], updates[p[1]])]
           last == [s \in SUBSET (1 .. n) |-> Max(s)]
           Is(g) == g = [s \in SUBSET DOMAIN updates |->
                           IF s = {} THEN base ELSE ApplyUpdate(g[s \ {Max(s)}], updates[Max(s)])]
           iter == CHOOSE g : Is(g)
<1>1. n \in Nat /\ DOMAIN updates = 1 .. n /\ \A i \in 1 .. n : updates[i] \in Updates
  OBVIOUS
<1>2. step \in [(1 .. n) \X Acc -> Acc]
  <2>1. \A a \in Acc, u \in Updates : ApplyUpdate(a, u) \in Acc
    BY UpdateApplied
  <2> HIDE DEF Acc
  <2>2. \A p \in (1 .. n) \X Acc : ApplyUpdate(p[2], updates[p[1]]) \in Acc
    BY <1>1, <2>1
  <2> QED  BY <2>2
<1>3. \A i \in 1 .. n, a \in Acc : step[<<i, a>>] = ApplyUpdate(a, updates[i])
  OBVIOUS
<1> HIDE DEF step, n
<1>4. PICK g \in [SUBSET (1 .. n) -> Acc] : FoldsTo(g, 1 .. n, base, last, step)
  <2>1. base \in Acc
    OBVIOUS
  <2> HIDE DEF Acc
  <2> QED  BY <1>1, <1>2, <2>1, FoldLeftExists
<1> HIDE DEF Acc
<1>5. \A s \in SUBSET (1 .. n) :
        /\ s = {} => g[s] = base
        /\ s # {} => /\ Max(s) \in s /\ Max(s) \in 1 .. n
                     /\ s \ {Max(s)} \in SUBSET (1 .. n)
                     /\ g[s \ {Max(s)}] \in Acc
                     /\ g[s] = ApplyUpdate(g[s \ {Max(s)}], updates[Max(s)])
  <2> TAKE s \in SUBSET (1 .. n)
  <2>1. s # {} => Max(s) \in s /\ Max(s) \in 1 .. n
    BY <1>1, MaxIsIn
  <2>2. s \ {Max(s)} \in SUBSET (1 .. n) /\ g[s \ {Max(s)}] \in Acc /\ last[s] = Max(s)
    OBVIOUS
  <2>3. g[s] = IF s = {} THEN base ELSE step[<<last[s], g[s \ {last[s]}]>>]
    BY <1>4 DEF FoldsTo
  <2>4. s # {} => step[<<Max(s), g[s \ {Max(s)}]>>] = ApplyUpdate(g[s \ {Max(s)}], updates[Max(s)])
    BY <1>3, <2>1, <2>2
  <2> HIDE DEF last
  <2> QED  BY <2>1, <2>2, <2>3, <2>4
<1>6. Is(iter)
  <2>1. Is(g)
    BY <1>1, <1>5
  <2> QED  BY <2>1
<1>7. FoldLeft(ApplyUpdate, base, updates) = iter[1 .. n]
  BY <1>1 DEF FoldLeft, MapThenFoldSet
<1> HIDE DEF iter
<1> DEFINE Right(s) == /\ iter[s] \in Acc
                       /\ iter[s].st.replans = base.st.replans
                       /\ iter[s].st.answers = base.st.answers
                       /\ KeepsExplicit(base.st, iter[s].st)
           Bad == { s \in SUBSET (1 .. n) : ~ Right(s) }
<1>8. iter[{}] = base
      /\ \A s \in SUBSET (1 .. n) :
           s # {} => iter[s] = ApplyUpdate(iter[s \ {Max(s)}], updates[Max(s)])
  BY <1>1, <1>6
<1>9. Right({})
  BY <1>8 DEF KeepsExplicit, Acc
<1>10. ASSUME NEW s \in SUBSET (1 .. n), s # {}, Right(s \ {Max(s)}) PROVE Right(s)
  <2> DEFINE a == iter[s \ {Max(s)}]
             u == updates[Max(s)]
  <2>1. iter[s] = ApplyUpdate(a, u) /\ a \in Acc /\ u \in Updates
    BY <1>1, <1>5, <1>8, <1>10
  <2>2. /\ a.st.replans = base.st.replans /\ a.st.answers = base.st.answers
        /\ KeepsExplicit(base.st, a.st)
    BY <1>10
  <2> HIDE DEF a, u
  <2>3. /\ iter[s] \in Acc /\ iter[s].st.replans = a.st.replans
        /\ iter[s].st.answers = a.st.answers /\ KeepsExplicit(a.st, iter[s].st)
    BY <2>1, UpdateApplied DEF Acc
  <2>4. KeepsExplicit(base.st, iter[s].st)
    BY <2>2, <2>3 DEF KeepsExplicit
  <2> QED  BY <2>2, <2>3, <2>4
<1> HIDE DEF Right
<1>11. Bad = {}
  <2> SUFFICES ASSUME Bad # {} PROVE FALSE
    OBVIOUS
  <2>1. PICK U \in Bad : \A x \in U : U \ {x} \notin Bad
    <3>1. Bad \in SUBSET SUBSET (1 .. n) /\ IsFiniteSet(1 .. n)
      BY <1>1, FS_Interval
    <3> HIDE DEF Bad
    <3> QED  BY <3>1, SmallestSet
  <2>2. U \in SUBSET (1 .. n) /\ ~ Right(U) /\ U # {}
    BY <1>9, <2>1
  <2>3. Right(U \ {Max(U)})
    BY <1>5, <2>1, <2>2
  <2> QED  BY <1>10, <2>2, <2>3
<1>12. Right(1 .. n)
  <2>1. 1 .. n \in SUBSET (1 .. n)
    OBVIOUS
  <2> QED  BY <1>11, <2>1
<1> QED  BY <1>7, <1>12 DEF Right, Acc

LEMMA AcceptedTyped ==
  ASSUME NEW st \in States, NEW asks \in SUBSET Targets
  PROVE  SetToSeq(Accepted(st, asks)) \in Seq(QuestionIds)
<1> DEFINE ask == [t \in Targets |-> [kind |-> "llm", target |-> t, seq |-> 1]]
           asked == { ask[t] : t \in Targets }
<1>1. IsFiniteSet(Targets)
  <2> DEFINE Plus(S, x) == S \cup {x}
             a == Plus(Plus(Plus(Plus(Plus({}, "dish"), "ingredients"), "portions"),
                            "time_minutes"), "cuisine")
             b == Plus(Plus(Plus(Plus(Plus(a, "preferences"), "dietary_constraints"),
                                 "equipment"), "substitution_choice"), "task_scope")
  <2>1. Targets = b
    BY DEF Targets
  <2>2. IsFiniteSet({}) /\ \A S, x : IsFiniteSet(S) => IsFiniteSet(Plus(S, x))
    BY FS_EmptySet, FS_AddElement
  <2> HIDE DEF Plus
  <2> QED  BY <2>1, <2>2
<1>2. IsFiniteSet(asked)
  <2>1. ask \in Surjection(Targets, asked)
    BY DEF Surjection
  <2> HIDE DEF asked, ask
  <2> QED  BY <1>1, <2>1, FS_Surjection
<1>3. Accepted(st, asks) \subseteq asked
  BY DEF Accepted
<1>4. asked \subseteq QuestionIds
  <2>1. "llm" \in Kinds /\ 1 \in Nat
    BY DEF Kinds
  <2> QED  BY <2>1 DEF QuestionIds
<1> HIDE DEF asked
<1>5. IsFiniteSet(Accepted(st, asks)) /\ Accepted(st, asks) \subseteq QuestionIds
  BY <1>2, <1>3, <1>4, FS_Subset
<1>6. SetToSeq(Accepted(st, asks)) \in Seq(Accepted(st, asks))
  BY <1>5, SetToSeqTyped
<1> QED  BY <1>5, <1>6

\* What a plan stores has the answers and the explicit fields it started from.
LEMMA OutcomeApplied ==
  ASSUME NEW st \in States, NEW outcome \in Outcomes, NEW blockers \in SUBSET Codes
  PROVE  LET new == ApplyOutcome(st, outcome, blockers)
         IN  /\ new \in States /\ new.replans = st.replans /\ new.answers = st.answers
             /\ new.value = st.value /\ new.status = st.status
             /\ new.ready => RetrievalReady(new)
<1> DEFINE new == ApplyOutcome(st, outcome, blockers)
           merged == blockers \cup {c \in {"conflicting"} : IsConflicting(st)}
           carried == IF merged # {} THEN merged ELSE st.blockers
<1>1. merged \in SUBSET Codes /\ carried \in SUBSET Codes
  BY DEF States, Codes
<1>2. \/ new = [st EXCEPT !.outcome = "needs_clarification", !.ready = FALSE, !.blockers = carried]
      \/ new = [st EXCEPT !.outcome = "blocked", !.ready = FALSE, !.blockers = merged]
      \/ /\ new = [st EXCEPT !.outcome = "ready_for_retrieval", !.ready = TRUE]
         /\ RetrievalReady(st)
      \/ new = [st EXCEPT !.outcome = outcome, !.ready = FALSE, !.blockers = carried]
  BY DEF ApplyOutcome
<1> HIDE DEF merged, carried, new
<1>3. /\ new \in States /\ new.replans = st.replans /\ new.answers = st.answers
      /\ new.value = st.value /\ new.status = st.status
      /\ new.ready => RetrievalReady(st)
  <2>1. "needs_clarification" \in Outcomes /\ "blocked" \in Outcomes
        /\ "ready_for_retrieval" \in Outcomes
    BY DEF Outcomes
  <2> QED  BY <1>1, <1>2, <2>1 DEF States
<1>4. new.ready => RetrievalReady(new)
  BY <1>3, ReadinessOfFields
<1> QED  BY <1>3, <1>4 DEF new

LEMMA PlanMade ==
  ASSUME NEW state \in States, NEW max \in Nat, NEW reply \in Replies
  PROVE  LET plan == PlanGroup(state, max, reply)
         IN  /\ plan.st \in States /\ plan.questions \in Seq(QuestionIds)
             /\ plan.st.replans = state.replans /\ plan.st.answers = state.answers
             /\ KeepsExplicit(state, plan.st)
             /\ plan.st.ready => RetrievalReady(plan.st)
<1> DEFINE st == IF state.blockers = {} THEN [state EXCEPT !.blockers = Blockers(state)] ELSE state
           rules == RuleQuestions(state, max)
           acc == FoldLeft(ApplyUpdate, [st |-> st, confirms |-> <<>>], reply.updates)
           required == {q \in ToSet(rules) : Required(q, state)}
           merged == Only(rules, required) \o acc.confirms
                     \o SetToSeq(Accepted(acc.st, reply.asks))
                     \o Only(rules, ToSet(rules) \ required)
           outcome == IF acc.st.ready \/ RetrievalReady(acc.st)
                      THEN "ready_for_retrieval" ELSE RuleOutcome(state)
           plan == PlanGroup(state, max, reply)
<1>1. reply.updates \in Seq(Updates) /\ reply.asks \in SUBSET Targets
  BY RepliesAssumption
<1>2. Blockers(state) \in SUBSET Codes
  BY DEF Blockers
<1>3. /\ st \in States /\ st.replans = state.replans /\ st.answers = state.answers
      /\ st.value = state.value /\ st.status = state.status
  BY <1>2 DEF States
<1>4. rules \in Seq(QuestionIds)
  BY RuleQuestionsTyped
<1>5. RuleOutcome(state) \in Outcomes /\ outcome \in Outcomes
  BY DEF RuleOutcome, Outcomes
<1>6. /\ reply.ok => plan = [st |-> ApplyOutcome(acc.st, outcome, Blockers(state)),
                            questions |-> Take(merged, max)]
      /\ ~ reply.ok => plan = [st |-> ApplyOutcome(st, RuleOutcome(state), Blockers(state)),
                              questions |-> rules]
  BY DEF PlanGroup
<1> HIDE DEF st, rules, required, outcome, plan
<1>7. /\ acc \in [st : States, confirms : Seq(QuestionIds)]
      /\ acc.st.replans = st.replans /\ acc.st.answers = st.answers
      /\ KeepsExplicit(st, acc.st)
  <2> DEFINE base == [st |-> st, confirms |-> <<>>]
  <2>1. base \in [st : States, confirms : Seq(QuestionIds)] /\ base.st = st
    BY <1>3
  <2> HIDE DEF base
  <2>2. LET end == FoldLeft(ApplyUpdate, base, reply.updates)
        IN  /\ end \in [st : States, confirms : Seq(QuestionIds)]
            /\ end.st.replans = base.st.replans
            /\ end.st.answers = base.st.answers
            /\ KeepsExplicit(base.st, end.st)
    BY <1>1, <2>1, UpdatesApplied
  <2> QED  BY <2>1, <2>2 DEF base
<1> HIDE DEF acc
<1>8. merged \in Seq(QuestionIds)
  <2>1. /\ Only(rules, required) \in Seq(QuestionIds) /\ acc.confirms \in Seq(QuestionIds)
        /\ Only(rules, ToSet(rules) \ required) \in Seq(QuestionIds)
    BY <1>4, <1>7, OnlyKeeps
  <2>2. SetToSeq(Accepted(acc.st, reply.asks)) \in Seq(QuestionIds)
    BY <1>1, <1>7, AcceptedTyped
  <2>3. Only(rules, required) \o acc.confirms \in Seq(QuestionIds)
    BY <2>1
  <2>4. Only(rules, required) \o acc.confirms \o SetToSeq(Accepted(acc.st, reply.asks))
          \in Seq(QuestionIds)
    BY <2>2, <2>3
  <2> QED  BY <2>1, <2>4
<1> HIDE DEF merged
<1>9. KeepsExplicit(state, acc.st)
  BY <1>3, <1>7 DEF KeepsExplicit
<1>10. CASE reply.ok
  <2> DEFINE new == ApplyOutcome(acc.st, outcome, Blockers(state))
  <2>1. /\ new \in States /\ new.replans = acc.st.replans /\ new.answers = acc.st.answers
        /\ new.value = acc.st.value /\ new.status = acc.st.status
        /\ new.ready => RetrievalReady(new)
    BY <1>2, <1>5, <1>7, OutcomeApplied
  <2>2. plan.st = new /\ plan.questions = Take(merged, max)
    BY <1>6, <1>10
  <2> HIDE DEF new
  <2>3. KeepsExplicit(state, new)
    BY <1>9, <2>1 DEF KeepsExplicit
  <2>4. Take(merged, max) \in Seq(QuestionIds)
    BY <1>8, TakeTyped
  <2> QED  BY <1>3, <1>7, <2>1, <2>2, <2>3, <2>4 DEF plan
<1>11. CASE ~ reply.ok
  <2> DEFINE new == ApplyOutcome(st, RuleOutcome(state), Blockers(state))
  <2>1. /\ new \in States /\ new.replans = st.replans /\ new.answers = st.answers
        /\ new.value = st.value /\ new.status = st.status
        /\ new.ready => RetrievalReady(new)
    BY <1>2, <1>3, <1>5, OutcomeApplied
  <2>2. plan.st = new /\ plan.questions = rules
    BY <1>6, <1>11
  <2> HIDE DEF new
  <2>3. KeepsExplicit(state, new)
    BY <1>3, <2>1 DEF KeepsExplicit
  <2> QED  BY <1>3, <1>4, <2>1, <2>2, <2>3 DEF plan
<1> QED  BY <1>10, <1>11

-----------------------------------------------------------------------------
(* The order of the store.                                                 *)

LEMMA TouchedHolds ==
  ASSUME NEW k \in Nat, order \in Seq(1 .. k), 1 .. k \subseteq Requests, NEW r \in 1 .. k
  PROVE  /\ Touched(r) \in Seq(1 .. k)
         /\ \A x : Contains(Touched(r), x) <=> x = r \/ Contains(order, x)
<1> DEFINE X == 1 .. k
           rest == Only(order, Requests \ {r})
<1>1. order \in Seq(X) /\ r \in X /\ X \subseteq Requests
  OBVIOUS
<1> HIDE DEF X
<1>2. /\ rest \in Seq(X)
      /\ \A x : Contains(rest, x) <=> Contains(order, x) /\ x \in Requests \ {r}
  BY <1>1, OnlyKeeps
<1>3. \A x : Contains(order, x) => x \in Requests
  BY <1>1 DEF Contains
<1> HIDE DEF rest
<1>4. /\ Append(rest, r) \in Seq(X)
      /\ \A x : Contains(Append(rest, r), x) <=> x = r \/ Contains(rest, x)
  BY <1>1, <1>2, AppendContains
<1>5. Touched(r) = Append(rest, r)
  BY DEF Touched, rest
<1>6. \A x : Contains(Touched(r), x) <=> x = r \/ Contains(order, x)
  BY <1>2, <1>3, <1>4, <1>5
<1> QED  BY <1>4, <1>5, <1>6 DEF X

\* The store keeps at least one request, so it never evicts the one it inserts.
LEMMA EvictedHolds ==
  ASSUME NEW k \in Nat, order \in Seq(1 .. k), 1 .. k \subseteq Requests, NEW r \in 1 .. k
  PROVE  /\ Remaining(r) \in Seq(1 .. k)
         /\ \A x : Contains(Remaining(r), x) <=>
              (x = r \/ Contains(order, x)) /\ x \notin Evicted(r)
         /\ r \notin Evicted(r)
<1> DEFINE X == 1 .. k
           rest == Only(order, Requests \ {r})
           line == Touched(r)
<1>1. /\ line \in Seq(X)
      /\ \A x : Contains(line, x) <=> x = r \/ Contains(order, x)
  BY TouchedHolds
<1>2. order \in Seq(X) /\ r \in X /\ X \subseteq Requests
  OBVIOUS
<1> HIDE DEF X
<1>3. /\ rest \in Seq(X)
      /\ \A x : Contains(rest, x) <=> Contains(order, x) /\ x \in Requests \ {r}
  BY <1>2, OnlyKeeps
<1>4. line = Append(rest, r)
  BY DEF Touched
<1> HIDE DEF rest, line
<1>5. Len(line) = Len(rest) + 1 /\ Len(rest) \in Nat
      /\ \A i \in 1 .. Len(rest) : line[i] = rest[i]
  BY <1>2, <1>3, <1>4
<1>6. r \notin Evicted(r)
  <2> SUFFICES ASSUME r \in Evicted(r) PROVE FALSE
    OBVIOUS
  <2>1. PICK i \in 1 .. (Len(line) - MaxEntries) : line[i] = r
    BY DEF Evicted, line
  <2>2. i \in 1 .. Len(rest)
    BY <1>5, <2>1, BoundsAssumption
  <2>3. Contains(rest, r)
    BY <1>5, <2>1, <2>2 DEF Contains
  <2> QED  BY <1>3, <2>3
<1>7. /\ Remaining(r) \in Seq(X)
      /\ \A x : Contains(Remaining(r), x) <=> Contains(line, x) /\ x \in Requests \ Evicted(r)
  BY <1>1, OnlyKeeps DEF Remaining, line
<1>8. \A x : Contains(line, x) => x \in Requests
  BY <1>1, <1>2 DEF Contains
<1> QED  BY <1>1, <1>6, <1>7, <1>8 DEF X

\* A new request.
LEMMA InitialState ==
  ASSUME NEW given \in Given
  PROVE  InitState(given) \in States /\ InitState(given).replans = 0
<1>1. given \in [Targets -> Values]
  BY GivenAssumption
<1>2. [t \in Targets |-> IF given[t] = "empty" THEN "unknown" ELSE "provided"]
        \in [Targets -> FieldStatus]
  BY DEF FieldStatus
<1>3. "needs_clarification" \in Outcomes /\ << >> \in Seq(Records) /\ << >> \in Seq(Gates)
  BY DEF Outcomes
<1> QED  BY <1>1, <1>2, <1>3 DEF InitState, States

-----------------------------------------------------------------------------
\* What a step may do to the answers and to the explicit fields of a request.
AnswersStep ==
  \A r \in Requests : Stored(r) /\ Stored(r)' =>
     /\ KeepsHistory(states[r].answers, states'[r].answers)
     /\ states'[r].answers = states[r].answers => KeepsExplicit(states[r], states'[r])

LEMMA SameStateKeeps ==
  ASSUME NEW st
  PROVE  st \in States => KeepsHistory(st.answers, st.answers) /\ KeepsExplicit(st, st)
<1>1. st \in States => Len(st.answers) \in Nat
  BY DEF States
<1> QED  BY <1>1 DEF KeepsHistory, KeepsExplicit

LEMMA StatesUnchanged ==
  ASSUME TypeOK, UNCHANGED states
  PROVE  AnswersStep
<1>1. \A r \in Requests : Stored(r) => states[r] \in States
  BY DEF TypeOK, Stored
<1> QED  BY <1>1, SameStateKeeps DEF AnswersStep

(***************************************************************************)
(* A handler that starts holds a state of the store, and can finish.       *)
(***************************************************************************)
LEMMA StartStore ==
  ASSUME StoreInv, NEW c \in Clients, NEW g \in Groups,
         NEW op \in {"submit", "replan", "retrieve"},
         NEW batch \in Seq(Payloads), NEW asked \in Seq(QuestionIds),
         Start(c, g), calls' = [calls EXCEPT ![c] = Snapshot(g, op, batch, asked)],
         op = "replan" => states[groups[g].request].replans < MaxReplans,
         op = "submit" => Applicable(states[groups[g].request], batch) /\ batch # <<>>
  PROVE  StoreInv' /\ AnswersStep
<1> DEFINE new == Snapshot(g, op, batch, asked)
           r == groups[g].request
<1>1. TypeOK /\ UNCHANGED <<states, revision, order, groups, known, current, created, issued>>
  BY DEF StoreInv, Start, store
<1>2. /\ groups[g] \in QuestionGroups /\ groups[g] # Absent /\ r \in Requests
      /\ states[r] \in States /\ g <= issued
      /\ revision[r] \in Nat /\ groups[g].revision \in Nat /\ Stored(r)
  BY <1>1 DEF TypeOK, Start, QuestionGroups, Stored
<1>3. /\ new = [op |-> op, request |-> r, group |-> g, base |-> revision[r],
                groupBase |-> groups[g].revision, snap |-> states[r],
                batch |-> batch, asked |-> asked]
  BY DEF Snapshot
<1> HIDE DEF new
<1>4. new \in Handlers
  BY <1>2, <1>3 DEF Handlers
<1>5. \A d \in Clients : calls'[d] = IF d = c THEN new ELSE calls[d]
  BY <1>1 DEF TypeOK, new
<1>6. TypeOK'
  <2>1. calls' \in [Clients -> Handlers \cup {Absent}]
    BY <1>1, <1>4 DEF TypeOK, new
  <2> QED  BY <1>1, <2>1 DEF TypeOK
<1>7. (\A x \in Requests : RequestHolds(x)) /\ (\A h \in Groups : GroupHolds(h))
      /\ (\A d \in Clients : CallHolds(d))
  BY DEF StoreInv
<1>8. ASSUME NEW x \in Requests PROVE RequestHolds(x)'
  BY <1>1, <1>7 DEF RequestHolds, Stored, GroupsOf
<1>9. ASSUME NEW h \in Groups PROVE GroupHolds(h)'
  BY <1>1, <1>7 DEF GroupHolds, Stored
<1>10. ASSUME NEW d \in Clients PROVE CallHolds(d)'
  <2>1. CASE d = c
    <3>1. GoodState(states[r])
      BY <1>2, <1>7 DEF RequestHolds
    <3> QED  BY <1>1, <1>2, <1>3, <1>5, <2>1, <3>1 DEF CallHolds
  <2>2. CASE d # c
    BY <1>1, <1>5, <1>7, <2>2 DEF CallHolds
  <2> QED  BY <2>1, <2>2
<1>11. AnswersStep
  BY <1>1, StatesUnchanged
<1> QED  BY <1>6, <1>8, <1>9, <1>10, <1>11 DEF StoreInv

(***************************************************************************)
(* A handler that ends without a write.                                    *)
(***************************************************************************)
LEMMA EndStore ==
  ASSUME StoreInv, NEW c \in Clients, End(c), UNCHANGED <<store, created, issued>>
  PROVE  StoreInv' /\ AnswersStep
<1>1. TypeOK /\ UNCHANGED <<states, revision, order, groups, known, current, created, issued>>
  BY DEF StoreInv, store
<1>2. \A d \in Clients : calls'[d] = IF d = c THEN Absent ELSE calls[d]
  BY <1>1 DEF TypeOK, End
<1>3. TypeOK'
  <2>1. calls' \in [Clients -> Handlers \cup {Absent}]
    BY <1>1 DEF TypeOK, End
  <2> QED  BY <1>1, <2>1 DEF TypeOK
<1>4. (\A x \in Requests : RequestHolds(x)) /\ (\A h \in Groups : GroupHolds(h))
      /\ (\A d \in Clients : CallHolds(d))
  BY DEF StoreInv
<1>5. ASSUME NEW x \in Requests PROVE RequestHolds(x)'
  BY <1>1, <1>4 DEF RequestHolds, Stored, GroupsOf
<1>6. ASSUME NEW h \in Groups PROVE GroupHolds(h)'
  BY <1>1, <1>4 DEF GroupHolds, Stored
<1>7. ASSUME NEW d \in Clients PROVE CallHolds(d)'
  BY <1>1, <1>2, <1>4 DEF CallHolds
<1> QED  BY <1>1, <1>3, <1>5, <1>6, <1>7, StatesUnchanged DEF StoreInv

LEMMA SeqOfMore ==
  ASSUME NEW A, NEW B, A \subseteq B, NEW s \in Seq(A)
  PROVE  s \in Seq(B)
OBVIOUS

(***************************************************************************)
(* A new request takes the places of those that are evicted for it: what   *)
(* belonged to them goes, what belongs to the others stays.                *)
(***************************************************************************)
LEMMA CreateStore ==
  ASSUME StoreInv, NEW given \in Given, NEW reply \in Replies, Create(given, reply)
  PROVE  StoreInv' /\ AnswersStep
<1> DEFINE r == created + 1
           g == issued + 1
           plan == PlanGroup(InitState(given), MaxQuestions, reply)
           gone == Evicted(r)
           asked == Register(<<>>, plan.questions)
<1>01. TypeOK  BY DEF StoreInv
<1>02. /\ created \in 0 .. MaxRequests /\ created < MaxRequests
       /\ issued \in 0 .. MaxGroups /\ issued < MaxGroups
       /\ MaxRequests \in Nat /\ MaxGroups \in Nat
  BY <1>01, BoundsAssumption DEF TypeOK, Create
<1>03. /\ created \in Nat /\ issued \in Nat /\ r \in Nat
       /\ r \in Requests /\ g \in Groups
       /\ r \in 0 .. MaxRequests /\ g \in 0 .. MaxGroups
  BY <1>02 DEF Requests, Groups
<1>04. /\ 1 .. created \subseteq 1 .. r /\ 1 .. r \subseteq Requests
       /\ r \in 1 .. r /\ 0 \in 0 .. g /\ g \in 0 .. g
  BY <1>02 DEF Requests
<1>05. \A x \in Requests : x <= created => x # r /\ x <= r
  BY <1>02 DEF Requests
<1>06. \A h \in Groups : h <= issued => h # g /\ h <= g
  BY <1>02 DEF Groups
<1>07. \A h \in 0 .. issued : h \in 0 .. g /\ (h # 0 => h \in Groups)
  BY <1>02 DEF Groups
<1>1. /\ TypeOK /\ created \in Nat /\ issued \in Nat
      /\ r \in Nat /\ r \in Requests /\ g \in Groups
      /\ 1 .. created \subseteq 1 .. r /\ 1 .. r \subseteq Requests /\ r \in 1 .. r
      /\ \A x \in Requests : x <= created => x # r /\ x <= r
      /\ \A h \in Groups : h <= issued => h # g /\ h <= g
      /\ \A h \in 0 .. issued : h \in 0 .. g /\ (h # 0 => h \in Groups)
      /\ 0 \in 0 .. g /\ g \in 0 .. g
      /\ r \in 0 .. MaxRequests /\ g \in 0 .. MaxGroups
  BY <1>01, <1>03, <1>04, <1>05, <1>06, <1>07
<1>0. /\ states \in [Requests -> States \cup {Absent}]
      /\ revision \in [Requests -> Nat]
      /\ known \in [Requests -> Seq(QuestionIds)]
      /\ current \in [Requests -> 0 .. issued]
      /\ order \in Seq(1 .. created)
      /\ groups \in [Groups -> QuestionGroups \cup {Absent}]
      /\ calls \in [Clients -> Handlers \cup {Absent}]
  BY <1>1 DEF TypeOK
<1>2. /\ created' = r /\ issued' = g /\ order' = Remaining(r) /\ UNCHANGED calls
      /\ \A x \in Requests :
           /\ states'[x] = IF x = r THEN plan.st ELSE IF x \in gone THEN Absent ELSE states[x]
           /\ revision'[x] = IF x = r THEN 1 ELSE IF x \in gone THEN 0 ELSE revision[x]
           /\ known'[x] = IF x = r THEN asked ELSE IF x \in gone THEN <<>> ELSE known[x]
           /\ current'[x] = IF x = r THEN g ELSE IF x \in gone THEN 0 ELSE current[x]
  BY DEF Create
<1>3. /\ plan.st \in States /\ plan.questions \in Seq(QuestionIds)
      /\ plan.st.replans = 0 /\ (plan.st.ready => RetrievalReady(plan.st))
  <2>1. MaxQuestions \in Nat
    BY BoundsAssumption
  <2> QED  BY <2>1, InitialState, PlanMade
<1> HIDE DEF plan
<1>4. /\ asked \in Seq(QuestionIds)
      /\ \A q : Contains(plan.questions, q) => Contains(asked, q)
  <2>1. << >> \in Seq(QuestionIds)
    OBVIOUS
  <2> QED  BY <1>3, <2>1, RegisterKeeps
<1>5. /\ Remaining(r) \in Seq(1 .. r)
      /\ \A x : Contains(Remaining(r), x) <=> (x = r \/ Contains(order, x)) /\ x \notin gone
      /\ r \notin gone
  <2>1. order \in Seq(1 .. r)
    <3> HIDE DEF r
    <3> QED  BY <1>0, <1>1, SeqOfMore
  <2> HIDE DEF r
  <2> QED  BY <1>1, <2>1, EvictedHolds
<1>6. /\ groups[g] = Absent
      /\ \A h \in Groups : groups'[h] = IF h = g THEN NewGroup(r, plan.questions)
                                        ELSE IF groups[h] # Absent /\ groups[h].request \in gone
                                        THEN Absent ELSE groups[h]
  <2>1. groups[g] = Absent
    BY <1>1 DEF TypeOK
  <2>2. groups' = [GroupsWithout(gone) EXCEPT ![g] = NewGroup(r, plan.questions)]
    BY DEF Create, plan
  <2> QED  BY <1>1, <2>1, <2>2 DEF GroupsWithout
<1>7. /\ NewGroup(r, plan.questions) \in QuestionGroups
      /\ NewGroup(r, plan.questions) # Absent /\ plan.st # Absent
      /\ NewGroup(r, plan.questions).request = r
      /\ NewGroup(r, plan.questions).questions = plan.questions
  <2>1. NewGroup(r, plan.questions) \in QuestionGroups
    BY <1>1, <1>3 DEF NewGroup, QuestionGroups
  <2> QED  BY <1>3, <2>1, AbsentAssumption DEF NewGroup
<1>8. /\ \A x \in Requests : RequestHolds(x)
      /\ \A h \in Groups : GroupHolds(h)
      /\ \A d \in Clients : CallHolds(d)
  BY DEF StoreInv
<1>9. \A h \in Groups : groups[h] # Absent =>
        /\ groups[h] \in QuestionGroups /\ groups[h].request \in Requests
        /\ groups[h].request # r /\ groups[h].request <= created /\ h <= issued
  BY <1>1 DEF TypeOK, QuestionGroups
<1> HIDE DEF asked, gone, r, g
<1>10. TypeOK'
  <2>1. states' \in [Requests -> States \cup {Absent}]
    <3>1. \A x \in Requests : states'[x] \in States \cup {Absent}
      BY <1>0, <1>2, <1>3
    <3>2. states' = [x \in Requests |-> states'[x]]
      BY DEF Create
    <3> QED  BY <3>1, <3>2
  <2>2. revision' \in [Requests -> Nat]
    <3>1. \A x \in Requests : revision'[x] \in Nat
      BY <1>0, <1>2
    <3>2. revision' = [x \in Requests |-> revision'[x]]
      BY DEF Create
    <3> QED  BY <3>1, <3>2
  <2>3. known' \in [Requests -> Seq(QuestionIds)]
    <3>1. \A x \in Requests : known'[x] \in Seq(QuestionIds)
      <4>1. << >> \in Seq(QuestionIds)
        OBVIOUS
      <4> QED  BY <1>0, <1>2, <1>4, <4>1
    <3>2. known' = [x \in Requests |-> known'[x]]
      BY DEF Create
    <3> QED  BY <3>1, <3>2
  <2>4. current' \in [Requests -> 0 .. issued']
    <3>1. \A x \in Requests : current'[x] \in 0 .. issued'
      BY <1>0, <1>1, <1>2
    <3>2. current' = [x \in Requests |-> current'[x]]
      BY DEF Create
    <3> QED  BY <3>1, <3>2
  <2>5. groups' \in [Groups -> QuestionGroups \cup {Absent}]
    <3>1. \A h \in Groups : groups'[h] \in QuestionGroups \cup {Absent}
      BY <1>0, <1>1, <1>6, <1>7
    <3>2. groups' = [h \in Groups |-> groups'[h]]
      BY DEF Create, GroupsWithout
    <3> QED  BY <3>1, <3>2
  <2>6. \A h \in Groups : groups'[h] # Absent => h <= issued' /\ groups'[h].request <= created'
    <3> TAKE h \in Groups
    <3>1. CASE h = g
      BY <1>1, <1>2, <1>6, <1>7, <3>1
    <3>2. CASE h # g
      BY <1>1, <1>2, <1>6, <1>9, <3>2
    <3> QED  BY <3>1, <3>2
  <2>7. created' \in 0 .. MaxRequests /\ issued' \in 0 .. MaxGroups
    BY <1>1, <1>2
  <2>8. order' \in Seq(1 .. created')
    BY <1>2, <1>5
  <2>9. calls' \in [Clients -> Handlers \cup {Absent}]
    BY <1>0, <1>2
  <2> QED  BY <2>1, <2>2, <2>3, <2>4, <2>5, <2>6, <2>7, <2>8, <2>9 DEF TypeOK
<1>11. ASSUME NEW x \in Requests PROVE RequestHolds(x)'
  <2>1. GroupsOf(x)' = { h \in Groups : groups'[h] # Absent /\ groups'[h].request = x }
    BY DEF GroupsOf
  <2>2. CASE x = r
    <3>1. GroupsOf(x)' = {g}
      BY <1>1, <1>6, <1>7, <1>9, <2>1, <2>2
    <3>2. Cardinality(GroupsOf(x)') = 1
      BY <3>1, FS_Singleton
    <3>3. Stored(x)' /\ x <= created' /\ current'[x] = g /\ Contains(order', x)
      BY <1>1, <1>2, <1>5, <1>7, <2>2 DEF Stored
    <3>4. GoodState(states[x])'
      BY <1>2, <1>3, <2>2, BoundsAssumption DEF GoodState
    <3>5. groups'[g] # Absent /\ groups'[g].request = x
      BY <1>1, <1>6, <1>7, <2>2
    <3>6. states'[x].replans = 0
      BY <1>2, <1>3, <2>2
    <3> QED  BY <1>1, <3>2, <3>3, <3>4, <3>5, <3>6 DEF RequestHolds
  <2>3. CASE x # r /\ x \in gone
    <3>1. states'[x] = Absent /\ known'[x] = <<>> /\ current'[x] = 0 /\ ~ Contains(order', x)
      BY <1>2, <1>5, <2>3
    <3> QED  BY <3>1 DEF RequestHolds, Stored
  <2>4. CASE x # r /\ x \notin gone
    <3>1. /\ states'[x] = states[x] /\ known'[x] = known[x] /\ current'[x] = current[x]
          /\ (Contains(order', x) <=> Contains(order, x))
      BY <1>2, <1>5, <2>4
    <3>2. \A h \in Groups : groups'[h] # Absent /\ groups'[h].request = x
                              <=> groups[h] # Absent /\ groups[h].request = x
      BY <1>6, <1>7, <1>9, <2>4
    <3>3. GroupsOf(x)' = GroupsOf(x)
      BY <2>1, <3>2 DEF GroupsOf
    <3>4. CASE ~ Stored(x)
      BY <1>8, <3>1, <3>4 DEF RequestHolds, Stored
    <3>5. CASE Stored(x)
      <4>1. RequestHolds(x) /\ current[x] \in Groups
        <5>1. current[x] \in 0 .. issued
          BY <1>1 DEF TypeOK
        <5>2. RequestHolds(x)
          BY <1>8
        <5>3. current[x] # 0
          BY <3>5, <5>2 DEF RequestHolds
        <5> QED  BY <1>1, <5>1, <5>2, <5>3
      <4>2. /\ x <= created' /\ GoodState(states[x]) /\ Contains(order, x)
            /\ current[x] # 0 /\ groups'[current[x]] # Absent
            /\ groups'[current[x]].request = x
            /\ Cardinality(GroupsOf(x)) = states[x].replans + 1
        <5>1. /\ x <= created /\ GoodState(states[x]) /\ Contains(order, x)
              /\ current[x] # 0 /\ groups[current[x]] # Absent
              /\ groups[current[x]].request = x
              /\ Cardinality(GroupsOf(x)) = states[x].replans + 1
          BY <3>5, <4>1 DEF RequestHolds
        <5>2. groups'[current[x]] # Absent /\ groups'[current[x]].request = x
          BY <3>2, <4>1, <5>1
        <5>3. x <= created'
          BY <1>1, <1>2, <5>1
        <5> QED  BY <5>1, <5>2, <5>3
      <4> QED  BY <3>1, <3>3, <3>5, <4>2 DEF RequestHolds, Stored, GoodState
    <3> QED  BY <3>4, <3>5
  <2> QED  BY <2>2, <2>3, <2>4
<1>12. ASSUME NEW h \in Groups PROVE GroupHolds(h)'
  <2>1. CASE h = g
    BY <1>1, <1>2, <1>4, <1>6, <1>7, <2>1 DEF GroupHolds, Stored
  <2>2. CASE h # g /\ groups'[h] # Absent
    <3>1. groups'[h] = groups[h] /\ groups[h] # Absent /\ groups[h].request \notin gone
      BY <1>6, <2>2
    <3> DEFINE x == groups[h].request
    <3>2. x \in Requests /\ x # r /\ states'[x] = states[x] /\ known'[x] = known[x]
      BY <1>2, <1>9, <3>1
    <3>3. GroupHolds(h)
      BY <1>8
    <3> QED  BY <3>1, <3>2, <3>3 DEF GroupHolds, Stored
  <2>3. CASE groups'[h] = Absent
    BY <2>3 DEF GroupHolds
  <2> QED  BY <2>1, <2>2, <2>3
<1>13. ASSUME NEW d \in Clients PROVE CallHolds(d)'
  <2>1. CASE calls[d] = Absent
    BY <1>2, <2>1 DEF CallHolds
  <2>2. CASE calls[d] # Absent
    <3>1. calls[d] \in Handlers /\ calls[d].group \in Groups /\ CallHolds(d)
      BY <1>1, <1>8, <2>2 DEF TypeOK, Handlers
    <3>2. calls[d].group <= issued
      BY <2>2, <3>1 DEF CallHolds
    <3>3. calls[d].group <= issued' /\ calls[d].group # g
      BY <1>1, <1>2, <3>1, <3>2
    <3>4. groups'[calls[d].group] # Absent => groups'[calls[d].group] = groups[calls[d].group]
      BY <1>6, <3>1, <3>3
    <3> QED  BY <1>2, <2>2, <3>1, <3>3, <3>4 DEF CallHolds
  <2> QED  BY <2>1, <2>2
<1>14. AnswersStep
  <2> SUFFICES ASSUME NEW x \in Requests, Stored(x), Stored(x)'
               PROVE  /\ KeepsHistory(states[x].answers, states'[x].answers)
                      /\ KeepsExplicit(states[x], states'[x])
    BY DEF AnswersStep
  <2>1. x # r /\ states[x] \in States
    BY <1>1, <1>8 DEF RequestHolds, TypeOK, Stored
  <2>2. states'[x] = states[x]
    BY <1>2, <2>1 DEF Stored
  <2> QED  BY <2>1, <2>2, SameStateKeeps
<1> QED  BY <1>10, <1>11, <1>12, <1>13, <1>14 DEF StoreInv

LEMMA PendingTyped ==
  ASSUME NEW questions \in Seq(QuestionIds), NEW st
  PROVE  PendingQuestions(questions, st) \in Seq(QuestionIds)
BY OnlyKeeps DEF PendingQuestions

(***************************************************************************)
(* The snapshot of a handler whose revision is still that of the request   *)
(* is its state, so what it applies it to is what it replaces.             *)
(***************************************************************************)
LEMMA CommitAnswersStore ==
  ASSUME IInv, StoreInv, NEW c \in Clients, CommitAnswers(c)
  PROVE  StoreInv' /\ AnswersStep
<1> DEFINE call == calls[c]
           r == call.request
           h == call.group
           st == ApplyAnswers(call.snap, call.batch)
           remaining == PendingQuestions(call.asked, st)
           group == [groups[h] EXCEPT !.revision = call.groupBase + 1, !.questions = remaining]
           asked == Register(known[r], remaining)
<1>1. /\ TypeOK
      /\ \A x \in Requests : RequestHolds(x)
      /\ \A k \in Groups : GroupHolds(k)
      /\ \A d \in Clients : CallHolds(d)
  BY DEF StoreInv
<1>0. /\ states \in [Requests -> States \cup {Absent}]
      /\ revision \in [Requests -> Nat]
      /\ known \in [Requests -> Seq(QuestionIds)]
      /\ current \in [Requests -> 0 .. issued]
      /\ order \in Seq(1 .. created) /\ created \in 0 .. MaxRequests
      /\ groups \in [Groups -> QuestionGroups \cup {Absent}]
      /\ calls \in [Clients -> Handlers \cup {Absent}]
      /\ \A k \in Groups : groups[k] # Absent => k <= issued /\ groups[k].request <= created
  BY <1>1 DEF TypeOK
<1>2. call # Absent /\ call.op = "submit" /\ AnswersMatch(call)
  BY DEF CommitAnswers
<1>3. /\ call \in Handlers /\ r \in Requests /\ h \in Groups /\ call.snap \in States
      /\ call.base \in Nat /\ call.groupBase \in Nat /\ call.batch \in Seq(Payloads)
      /\ call.asked \in Seq(QuestionIds)
  <2>1. call \in Handlers
    BY <1>0, <1>2
  <2> HIDE DEF call
  <2> QED  BY <2>1 DEF Handlers
<1>4. /\ Stored(r) /\ groups[h] # Absent /\ revision[r] = call.base
      /\ groups[h].request = r /\ states[r] = call.snap
  <2>1. Stored(r) /\ groups[h] # Absent /\ revision[r] = call.base
    BY <1>2 DEF AnswersMatch
  <2>2. groups[h].request = r
    BY <1>1, <1>2, <2>1 DEF CallHolds
  <2>3. Behind(call)
    BY <1>2 DEF IInv
  <2> QED  BY <2>1, <2>2, <2>3 DEF Behind
<1>5. /\ GoodState(call.snap) /\ Applicable(call.snap, call.batch) /\ call.batch # <<>>
  BY <1>1, <1>2 DEF CallHolds
<1>6. /\ states' = [states EXCEPT ![r] = st]
      /\ revision' = [revision EXCEPT ![r] = call.base + 1]
      /\ order' = Touched(r)
      /\ groups' = [groups EXCEPT ![h] = group]
      /\ known' = [known EXCEPT ![r] = asked]
      /\ calls' = [calls EXCEPT ![c] = Absent]
      /\ UNCHANGED <<current, created, issued>>
  BY <1>0, <1>3 DEF CommitAnswers, Advanced, End
<1>7. /\ st \in States /\ st.replans = call.snap.replans
      /\ Len(st.answers) > Len(call.snap.answers)
      /\ KeepsHistory(call.snap.answers, st.answers)
      /\ (st.ready => RetrievalReady(st))
  BY <1>3, <1>5, AnswersApplied
<1>8. st # Absent
  BY <1>7, AbsentAssumption
<1> HIDE DEF st
<1>9. remaining \in Seq(QuestionIds)
  BY <1>3, PendingTyped
<1> HIDE DEF remaining
<1>10. /\ asked \in Seq(QuestionIds)
       /\ \A x : Contains(asked, x) <=> Contains(known[r], x) \/ Contains(remaining, x)
  <2>1. known[r] \in Seq(QuestionIds)
    BY <1>0, <1>3
  <2> QED  BY <1>9, <2>1, RegisterKeeps
<1> HIDE DEF asked
<1>11. /\ group \in QuestionGroups /\ group # Absent
       /\ group.request = r /\ group.questions = remaining
  <2>1. groups[h] \in QuestionGroups
    BY <1>0, <1>3, <1>4
  <2>3. \A k \in QuestionGroups, n \in Nat, qs \in Seq(QuestionIds) :
          LET new == [k EXCEPT !.revision = n, !.questions = qs]
          IN  new \in QuestionGroups /\ new.request = k.request /\ new.questions = qs
    BY DEF QuestionGroups
  <2>4. call.groupBase + 1 \in Nat
    BY <1>3
  <2> HIDE DEF r, h, call
  <2>2. group \in QuestionGroups /\ group.request = r /\ group.questions = remaining
    BY <1>4, <1>9, <2>1, <2>3, <2>4
  <2> QED  BY <2>2, AbsentAssumption
<1> HIDE DEF group
<1>12. /\ r <= created /\ Contains(order, r) /\ created \in Nat
       /\ r \in 1 .. created /\ 1 .. created \subseteq Requests
  <2>1. r <= created /\ Contains(order, r)
    BY <1>1, <1>3, <1>4 DEF RequestHolds
  <2> QED  BY <1>0, <1>3, <2>1, BoundsAssumption DEF Requests
<1>13. /\ Touched(r) \in Seq(1 .. created)
       /\ \A x : Contains(Touched(r), x) <=> Contains(order, x)
  BY <1>0, <1>12, TouchedHolds
<1> HIDE DEF r, h, call
<1>14. TypeOK'
  <2>1. states' \in [Requests -> States \cup {Absent}]
    BY <1>0, <1>3, <1>6, <1>7
  <2>2. revision' \in [Requests -> Nat]
    BY <1>0, <1>3, <1>6
  <2>3. order' \in Seq(1 .. created')
    BY <1>6, <1>13
  <2>4. known' \in [Requests -> Seq(QuestionIds)]
    BY <1>0, <1>6, <1>10
  <2>5. groups' \in [Groups -> QuestionGroups \cup {Absent}]
    BY <1>0, <1>6, <1>11
  <2>6. calls' \in [Clients -> Handlers \cup {Absent}]
    BY <1>0, <1>6
  <2>7. \A k \in Groups : groups'[k] # Absent => k <= issued' /\ groups'[k].request <= created'
    BY <1>0, <1>3, <1>4, <1>6, <1>11
  <2>8. created' \in 0 .. MaxRequests /\ issued' \in 0 .. MaxGroups
        /\ current' \in [Requests -> 0 .. issued']
    BY <1>1, <1>6 DEF TypeOK
  <2> QED  BY <2>1, <2>2, <2>3, <2>4, <2>5, <2>6, <2>7, <2>8 DEF TypeOK
<1>15. \A k \in Groups : /\ groups'[k] # Absent <=> groups[k] # Absent
                         /\ groups'[k].request = groups[k].request
  BY <1>0, <1>4, <1>6, <1>11
<1>16. ASSUME NEW x \in Requests PROVE RequestHolds(x)'
  <2>1. GroupsOf(x)' = GroupsOf(x)
    BY <1>15 DEF GroupsOf
  <2>2. current'[x] = current[x] /\ (Contains(order', x) <=> Contains(order, x))
        /\ created' = created
    BY <1>6, <1>13
  <2>3. RequestHolds(x)
    BY <1>1
  <2>4. CASE x = r
    <3>1. /\ x <= created /\ Contains(order, x)
          /\ current[x] # 0 /\ groups[current[x]] # Absent
          /\ groups[current[x]].request = x
          /\ Cardinality(GroupsOf(x)) = states[x].replans + 1
      BY <1>4, <2>3, <2>4 DEF RequestHolds
    <3>2. current[x] \in Groups
      <4>1. current[x] \in 0 .. issued /\ issued \in 0 .. MaxGroups
        BY <1>0, <1>1 DEF TypeOK
      <4> QED  BY <3>1, <4>1, BoundsAssumption DEF Groups
    <3>3. groups'[current[x]] # Absent /\ groups'[current[x]].request = x
      BY <1>15, <3>1, <3>2
    <3>4. states'[x] = st /\ st.replans = states[x].replans
      BY <1>0, <1>3, <1>4, <1>6, <1>7, <2>4
    <3>5. GoodState(states'[x])
      BY <1>5, <1>7, <3>4 DEF GoodState
    <3>6. Stored(x)'
      BY <1>8, <3>4 DEF Stored
    <3> QED  BY <2>1, <2>2, <3>1, <3>3, <3>4, <3>5, <3>6 DEF RequestHolds, GoodState
  <2>5. CASE x # r
    <3>1. states'[x] = states[x] /\ known'[x] = known[x]
      BY <1>0, <1>6, <2>5
    <3>2. CASE ~ Stored(x)
      BY <2>2, <2>3, <3>1, <3>2 DEF RequestHolds, Stored
    <3>3. CASE Stored(x)
      <4>1. /\ x <= created /\ Contains(order, x) /\ GoodState(states[x])
            /\ current[x] # 0 /\ groups[current[x]] # Absent
            /\ groups[current[x]].request = x
            /\ Cardinality(GroupsOf(x)) = states[x].replans + 1
        BY <2>3, <3>3 DEF RequestHolds
      <4>2. current[x] \in Groups
        <5>1. current[x] \in 0 .. issued /\ issued \in 0 .. MaxGroups
          BY <1>0, <1>1 DEF TypeOK
        <5> QED  BY <4>1, <5>1, BoundsAssumption DEF Groups
      <4>3. groups'[current[x]] # Absent /\ groups'[current[x]].request = x
        BY <1>15, <4>1, <4>2
      <4> QED  BY <2>1, <2>2, <3>1, <3>3, <4>1, <4>3 DEF RequestHolds, Stored, GoodState
    <3> QED  BY <3>2, <3>3
  <2> QED  BY <2>4, <2>5
<1>17. \A x \in Requests : (Stored(x)' <=> Stored(x))
                           /\ \A q : Contains(known[x], q) => Contains(known'[x], q)
  BY <1>0, <1>3, <1>4, <1>6, <1>8, <1>10 DEF Stored
<1>18. ASSUME NEW k \in Groups PROVE GroupHolds(k)'
  <2>1. GroupHolds(k)
    BY <1>1
  <2>2. CASE k = h /\ groups'[k] # Absent
    <3>1. groups'[k] = group /\ known'[r] = asked
      BY <1>0, <1>3, <1>6, <2>2
    <3> QED  BY <1>3, <1>4, <1>10, <1>11, <1>17, <3>1 DEF GroupHolds, Stored
  <2>3. CASE k # h /\ groups'[k] # Absent
    <3>1. groups'[k] = groups[k] /\ groups[k] \in QuestionGroups
      BY <1>0, <1>6, <2>3
    <3>2. groups[k].request \in Requests
      BY <3>1 DEF QuestionGroups
    <3> QED  BY <1>17, <2>1, <2>3, <3>1, <3>2 DEF GroupHolds, Stored
  <2> QED  BY <2>2, <2>3 DEF GroupHolds
<1>19. ASSUME NEW d \in Clients PROVE CallHolds(d)'
  <2>1. CASE calls'[d] = Absent
    BY <2>1 DEF CallHolds
  <2>2. CASE calls'[d] # Absent
    <3>1. calls'[d] = calls[d] /\ calls[d] \in Handlers
      BY <1>0, <1>6, <2>2
    <3>2. calls[d].group \in Groups
      BY <3>1 DEF Handlers
    <3>3. CallHolds(d)
      BY <1>1
    <3> QED  BY <1>6, <1>15, <2>2, <3>1, <3>2, <3>3 DEF CallHolds
  <2> QED  BY <2>1, <2>2
<1>20. AnswersStep
  <2> SUFFICES ASSUME NEW x \in Requests, Stored(x), Stored(x)'
               PROVE  /\ KeepsHistory(states[x].answers, states'[x].answers)
                      /\ states'[x].answers = states[x].answers
                           => KeepsExplicit(states[x], states'[x])
    BY DEF AnswersStep
  <2>1. CASE x = r
    <3>1. states'[x] = st /\ states[x] = call.snap
      BY <1>0, <1>3, <1>4, <1>6, <2>1
    <3>2. Len(st.answers) \in Nat /\ Len(call.snap.answers) \in Nat
      BY <1>3, <1>7 DEF States
    <3>3. st.answers # call.snap.answers
      BY <1>7, <3>2
    <3> QED  BY <1>7, <3>1, <3>3
  <2>2. CASE x # r
    <3>1. states'[x] = states[x] /\ states[x] \in States
      BY <1>0, <1>6, <2>2 DEF Stored
    <3> QED  BY <3>1, SameStateKeeps
  <2> QED  BY <2>1, <2>2
<1> QED  BY <1>14, <1>16, <1>18, <1>19, <1>20 DEF StoreInv

LEMMA CommitReplanStore ==
  ASSUME IInv, StoreInv, NEW c \in Clients, NEW reply \in Replies, CommitReplan(c, reply)
  PROVE  StoreInv' /\ AnswersStep
<1> DEFINE call == calls[c]
           r == call.request
           g == issued + 1
           counted == [call.snap EXCEPT !.replans = call.snap.replans + 1]
           plan == PlanGroup(counted, MaxQuestions, reply)
           questions == FollowUp(r, plan.st, plan.questions)
           group == NewGroup(r, questions)
           asked == Register(known[r], questions)
<1>1. /\ TypeOK
      /\ \A x \in Requests : RequestHolds(x)
      /\ \A k \in Groups : GroupHolds(k)
      /\ \A d \in Clients : CallHolds(d)
  BY DEF StoreInv
<1>0. /\ states \in [Requests -> States \cup {Absent}]
      /\ revision \in [Requests -> Nat]
      /\ known \in [Requests -> Seq(QuestionIds)]
      /\ current \in [Requests -> 0 .. issued]
      /\ order \in Seq(1 .. created) /\ created \in 0 .. MaxRequests
      /\ groups \in [Groups -> QuestionGroups \cup {Absent}]
      /\ calls \in [Clients -> Handlers \cup {Absent}]
      /\ \A k \in Groups : groups[k] # Absent => k <= issued /\ groups[k].request <= created
  BY <1>1 DEF TypeOK
<1>2. call # Absent /\ call.op = "replan" /\ ReplanMatches(call)
  BY DEF CommitReplan
<1>3. call \in Handlers /\ r \in Requests /\ call.snap \in States /\ call.base \in Nat
  <2>1. call \in Handlers
    BY <1>0, <1>2
  <2> HIDE DEF call
  <2> QED  BY <2>1 DEF Handlers
<1>4. /\ Stored(r) /\ revision[r] = call.base /\ states[r] = call.snap
  <2>1. Stored(r) /\ revision[r] = call.base
    BY <1>2 DEF ReplanMatches
  <2>2. Behind(call)
    BY <1>2 DEF IInv
  <2> QED  BY <2>1, <2>2 DEF Behind
<1>5. call.snap.replans < MaxReplans
  BY <1>1, <1>2 DEF CallHolds
<1>6. /\ states' = [states EXCEPT ![r] = plan.st]
      /\ revision' = [revision EXCEPT ![r] = call.base + 1]
      /\ order' = Touched(r)
      /\ groups' = [groups EXCEPT ![g] = group]
      /\ known' = [known EXCEPT ![r] = asked]
      /\ current' = [current EXCEPT ![r] = g]
      /\ calls' = [calls EXCEPT ![c] = Absent]
      /\ issued' = g /\ created' = created
  BY <1>0, <1>3 DEF CommitReplan, Advanced, End
<1>7. /\ issued \in Nat /\ g \in Groups /\ g # 0 /\ g \in 0 .. g /\ g \in 0 .. MaxGroups
      /\ \A k \in Groups : k <= issued => k # g /\ k <= g
      /\ \A k \in 0 .. issued : k \in 0 .. g /\ (k # 0 => k \in Groups /\ k # g)
      /\ groups[g] = Absent
  <2>1. issued \in 0 .. MaxGroups /\ issued < MaxGroups /\ MaxGroups \in Nat
    BY <1>1, BoundsAssumption DEF TypeOK, CommitReplan
  <2>2. /\ issued \in Nat /\ g \in Groups /\ g # 0 /\ g \in 0 .. g /\ g \in 0 .. MaxGroups
        /\ \A k \in Groups : k <= issued => k # g /\ k <= g
        /\ \A k \in 0 .. issued : k \in 0 .. g /\ (k # 0 => k \in Groups /\ k # g)
    BY <2>1 DEF Groups
  <2>3. ~ (g <= issued)
    BY <2>2
  <2> QED  BY <1>0, <2>2, <2>3
<1>8. /\ counted \in States /\ counted.replans = call.snap.replans + 1
      /\ counted.answers = call.snap.answers
      /\ counted.value = call.snap.value /\ counted.status = call.snap.status
      /\ call.snap.replans \in Nat
  <2>1. \A st \in States : st.replans \in Nat
    BY DEF States
  <2>2. \A st \in States, n \in Nat :
          LET new == [st EXCEPT !.replans = n]
          IN  /\ new \in States /\ new.replans = n /\ new.answers = st.answers
              /\ new.value = st.value /\ new.status = st.status
    BY DEF States
  <2>3. call.snap.replans + 1 \in Nat
    BY <1>3, <2>1
  <2> HIDE DEF call
  <2> QED  BY <1>3, <2>1, <2>2, <2>3
<1> HIDE DEF counted
<1>9. /\ plan.st \in States /\ plan.questions \in Seq(QuestionIds)
      /\ plan.st.replans = call.snap.replans + 1
      /\ plan.st.answers = call.snap.answers
      /\ KeepsExplicit(call.snap, plan.st)
      /\ (plan.st.ready => RetrievalReady(plan.st))
  <2>1. MaxQuestions \in Nat
    BY BoundsAssumption
  <2>2. /\ plan.st \in States /\ plan.questions \in Seq(QuestionIds)
        /\ plan.st.replans = counted.replans /\ plan.st.answers = counted.answers
        /\ KeepsExplicit(counted, plan.st)
        /\ (plan.st.ready => RetrievalReady(plan.st))
    BY <1>8, <2>1, PlanMade
  <2> QED  BY <1>8, <2>2 DEF KeepsExplicit
<1>10. plan.st # Absent
  BY <1>9, AbsentAssumption
<1> HIDE DEF plan
<1>11. questions \in Seq(QuestionIds)
  <2> DEFINE waiting == {plan.st.confirmations[i].question :
                           i \in {j \in DOMAIN plan.st.confirmations :
                                    plan.st.confirmations[j].status = "pending"}}
             pending == PendingQuestions(known[r] \o plan.questions, plan.st)
  <2>1. known[r] \o plan.questions \in Seq(QuestionIds)
    <3>1. known[r] \in Seq(QuestionIds)
      BY <1>0, <1>3
    <3> QED  BY <1>9, <3>1
  <2>2. pending \in Seq(QuestionIds)
    BY <2>1, PendingTyped
  <2>3. questions = Take(Only(pending, ToSet(plan.questions) \cup waiting), MaxQuestions)
    BY DEF FollowUp
  <2> HIDE DEF pending, waiting
  <2>4. Only(pending, ToSet(plan.questions) \cup waiting) \in Seq(QuestionIds)
    BY <2>2, OnlyKeeps
  <2>5. MaxQuestions \in Nat
    BY BoundsAssumption
  <2> HIDE DEF questions
  <2> QED  BY <2>3, <2>4, <2>5, TakeTyped
<1> HIDE DEF questions
<1>12. /\ asked \in Seq(QuestionIds)
       /\ \A x : Contains(asked, x) <=> Contains(known[r], x) \/ Contains(questions, x)
  <2>1. known[r] \in Seq(QuestionIds)
    BY <1>0, <1>3
  <2> QED  BY <1>11, <2>1, RegisterKeeps
<1> HIDE DEF asked
<1>13. /\ group \in QuestionGroups /\ group # Absent
       /\ group.request = r /\ group.questions = questions
  <2>1. group \in QuestionGroups
    BY <1>3, <1>11 DEF NewGroup, QuestionGroups
  <2> QED  BY <2>1, AbsentAssumption DEF NewGroup
<1> HIDE DEF group
<1>14. /\ r <= created /\ Contains(order, r) /\ created \in Nat
       /\ r \in 1 .. created /\ 1 .. created \subseteq Requests
  <2>1. r <= created /\ Contains(order, r)
    BY <1>1, <1>3, <1>4 DEF RequestHolds
  <2> QED  BY <1>0, <1>3, <2>1, BoundsAssumption DEF Requests
<1>15. /\ Touched(r) \in Seq(1 .. created)
       /\ \A x : Contains(Touched(r), x) <=> Contains(order, x)
  BY <1>0, <1>14, TouchedHolds
<1>16. call.base + 1 \in Nat
  BY <1>3
<1> HIDE DEF r, g, call
<1>17. TypeOK'
  <2>1. states' \in [Requests -> States \cup {Absent}]
    BY <1>0, <1>3, <1>6, <1>9
  <2>2. revision' \in [Requests -> Nat]
    BY <1>0, <1>6, <1>16
  <2>3. order' \in Seq(1 .. created')
    BY <1>6, <1>15
  <2>4. known' \in [Requests -> Seq(QuestionIds)]
    BY <1>0, <1>6, <1>12
  <2>5. groups' \in [Groups -> QuestionGroups \cup {Absent}]
    BY <1>0, <1>6, <1>13
  <2>6. calls' \in [Clients -> Handlers \cup {Absent}]
    BY <1>0, <1>6
  <2>7. \A k \in Groups : groups'[k] # Absent => k <= issued' /\ groups'[k].request <= created'
    <3> TAKE k \in Groups
    <3>1. CASE k = g
      <4>1. groups'[k] = group /\ group.request = r
        BY <1>0, <1>6, <1>7, <1>13, <3>1
      <4> QED  BY <1>6, <1>7, <1>14, <3>1, <4>1
    <3>2. CASE k # g
      BY <1>0, <1>6, <1>7, <3>2
    <3> QED  BY <3>1, <3>2
  <2>8. created' \in 0 .. MaxRequests /\ issued' \in 0 .. MaxGroups
    BY <1>0, <1>6, <1>7
  <2>9. current' \in [Requests -> 0 .. issued']
    <3>1. \A x \in Requests : current'[x] \in 0 .. g
      BY <1>0, <1>6, <1>7
    <3> QED  BY <1>0, <1>6, <3>1
  <2> QED  BY <2>1, <2>2, <2>3, <2>4, <2>5, <2>6, <2>7, <2>8, <2>9 DEF TypeOK
<1>18. \A k \in Groups : k # g => groups'[k] = groups[k]
  BY <1>0, <1>6
<1>19. groups'[g] = group
  BY <1>0, <1>6, <1>7
<1>20. ASSUME NEW x \in Requests PROVE RequestHolds(x)'
  <2>1. RequestHolds(x)
    BY <1>1
  <2>2. (Contains(order', x) <=> Contains(order, x)) /\ created' = created
    BY <1>6, <1>15
  <2>3. CASE x = r
    <3>1. /\ x <= created /\ Contains(order, x)
          /\ Cardinality(GroupsOf(x)) = states[x].replans + 1
      BY <1>4, <2>1, <2>3 DEF RequestHolds
    <3>2. GroupsOf(x)' = GroupsOf(x) \cup {g} /\ g \notin GroupsOf(x)
      BY <1>7, <1>13, <1>18, <1>19, <2>3 DEF GroupsOf
    <3>3. IsFiniteSet(GroupsOf(x))
      <4>1. IsFiniteSet(Groups)
        BY FS_Interval, BoundsAssumption DEF Groups
      <4> QED  BY <4>1, FS_Subset DEF GroupsOf
    <3>4. Cardinality(GroupsOf(x)') = Cardinality(GroupsOf(x)) + 1
      BY <3>2, <3>3, FS_AddElement
    <3>5. states'[x] = plan.st /\ current'[x] = g
      BY <1>0, <1>3, <1>6, <2>3
    <3>6. Cardinality(GroupsOf(x)') = states'[x].replans + 1
      BY <1>4, <1>8, <1>9, <2>3, <3>1, <3>4, <3>5
    <3>7. GoodState(states'[x])
      <4>1. plan.st.replans <= MaxReplans
        BY <1>5, <1>8, <1>9, BoundsAssumption
      <4> QED  BY <1>9, <3>5, <4>1 DEF GoodState
    <3>8. Stored(x)'
      BY <1>10, <3>5 DEF Stored
    <3>9. current'[x] # 0 /\ groups'[current'[x]] # Absent /\ groups'[current'[x]].request = x
      BY <1>7, <1>13, <1>19, <2>3, <3>5
    <3> QED  BY <2>2, <3>1, <3>6, <3>7, <3>8, <3>9 DEF RequestHolds, GoodState
  <2>4. CASE x # r
    <3>1. states'[x] = states[x] /\ known'[x] = known[x] /\ current'[x] = current[x]
      BY <1>0, <1>6, <2>4
    <3>2. GroupsOf(x)' = GroupsOf(x)
      BY <1>7, <1>13, <1>18, <1>19, <2>4 DEF GroupsOf
    <3>3. CASE ~ Stored(x)
      BY <2>1, <2>2, <3>1, <3>3 DEF RequestHolds, Stored
    <3>4. CASE Stored(x)
      <4>1. /\ x <= created /\ Contains(order, x) /\ GoodState(states[x])
            /\ current[x] # 0 /\ groups[current[x]] # Absent
            /\ groups[current[x]].request = x
            /\ Cardinality(GroupsOf(x)) = states[x].replans + 1
        BY <2>1, <3>4 DEF RequestHolds
      <4>2. current[x] \in Groups /\ current[x] # g
        BY <1>0, <1>7, <4>1
      <4>3. groups'[current[x]] # Absent /\ groups'[current[x]].request = x
        BY <1>18, <4>1, <4>2
      <4> QED  BY <2>2, <3>1, <3>2, <3>4, <4>1, <4>3 DEF RequestHolds, Stored, GoodState
    <3> QED  BY <3>3, <3>4
  <2> QED  BY <2>3, <2>4
<1>21. \A x \in Requests : (Stored(x)' <=> Stored(x))
                           /\ \A q : Contains(known[x], q) => Contains(known'[x], q)
  BY <1>0, <1>3, <1>4, <1>6, <1>10, <1>12 DEF Stored
<1>22. ASSUME NEW k \in Groups PROVE GroupHolds(k)'
  <2>1. GroupHolds(k)
    BY <1>1
  <2>2. CASE k = g
    <3>1. groups'[k] = group /\ known'[r] = asked
      BY <1>0, <1>3, <1>6, <1>19, <2>2
    <3> QED  BY <1>3, <1>4, <1>12, <1>13, <1>21, <3>1 DEF GroupHolds, Stored
  <2>3. CASE k # g /\ groups'[k] # Absent
    <3>1. groups'[k] = groups[k] /\ groups[k] \in QuestionGroups
      BY <1>0, <1>6, <2>3
    <3>2. groups[k].request \in Requests
      BY <3>1 DEF QuestionGroups
    <3> QED  BY <1>21, <2>1, <2>3, <3>1, <3>2 DEF GroupHolds, Stored
  <2> QED  BY <2>2, <2>3 DEF GroupHolds
<1>23. ASSUME NEW d \in Clients PROVE CallHolds(d)'
  <2>1. CASE calls'[d] = Absent
    BY <2>1 DEF CallHolds
  <2>2. CASE calls'[d] # Absent
    <3>1. calls'[d] = calls[d] /\ calls[d] \in Handlers
      BY <1>0, <1>6, <2>2
    <3>2. calls[d].group \in Groups
      BY <3>1 DEF Handlers
    <3>3. CallHolds(d)
      BY <1>1
    <3>4. calls[d].group <= issued
      BY <2>2, <3>1, <3>3 DEF CallHolds
    <3>5. calls[d].group <= issued' /\ calls[d].group # g
      BY <1>6, <1>7, <3>2, <3>4
    <3> QED  BY <1>18, <2>2, <3>1, <3>2, <3>3, <3>5 DEF CallHolds
  <2> QED  BY <2>1, <2>2
<1>24. AnswersStep
  <2> SUFFICES ASSUME NEW x \in Requests, Stored(x), Stored(x)'
               PROVE  /\ KeepsHistory(states[x].answers, states'[x].answers)
                      /\ KeepsExplicit(states[x], states'[x])
    BY DEF AnswersStep
  <2>1. CASE x = r
    <3>1. states'[x] = plan.st /\ states[x] = call.snap
      BY <1>0, <1>3, <1>4, <1>6, <2>1
    <3>2. KeepsHistory(call.snap.answers, call.snap.answers)
      BY <1>3, SameStateKeeps
    <3> QED  BY <1>9, <3>1, <3>2
  <2>2. CASE x # r
    <3>1. states'[x] = states[x] /\ states[x] \in States
      BY <1>0, <1>6, <2>2 DEF Stored
    <3> QED  BY <3>1, SameStateKeeps
  <2> QED  BY <2>1, <2>2
<1> QED  BY <1>17, <1>20, <1>22, <1>23, <1>24 DEF StoreInv

LEMMA InitStore == Init => StoreInv
<1> SUFFICES ASSUME Init PROVE StoreInv
  OBVIOUS
<1>1. TypeOK
  <2>1. 0 \in 0 .. MaxRequests /\ 0 \in 0 .. MaxGroups /\ 0 \in 0 .. 0
    BY BoundsAssumption
  <2>2. << >> \in Seq(1 .. 0) /\ << >> \in Seq(QuestionIds)
    OBVIOUS
  <2> QED  BY <2>1, <2>2 DEF Init, TypeOK
<1>2. \A x \in Requests : ~ Stored(x) /\ known[x] = <<>> /\ current[x] = 0 /\ ~ Contains(order, x)
  BY DEF Init, Stored, Contains
<1>3. (\A g \in Groups : groups[g] = Absent) /\ (\A c \in Clients : calls[c] = Absent)
  BY DEF Init
<1> QED  BY <1>1, <1>2, <1>3 DEF StoreInv, RequestHolds, GroupHolds, CallHolds

LEMMA NextStore == IInv /\ StoreInv /\ [Next]_vars => StoreInv' /\ [AnswersStep]_vars
<1> SUFFICES ASSUME IInv, StoreInv, [Next]_vars
             PROVE  StoreInv' /\ [AnswersStep]_vars
  OBVIOUS
<1>1. ASSUME NEW given \in Given, NEW reply \in Replies, Create(given, reply)
      PROVE  StoreInv' /\ AnswersStep
  BY <1>1, CreateStore
<1>2. ASSUME NEW c \in Clients, NEW g \in Groups, NEW batch \in Batches, SubmitStart(c, g, batch)
      PROVE  StoreInv' /\ AnswersStep
  <2> DEFINE r == groups[g].request
  <2>1. /\ r \in Requests /\ known[r] \in Seq(QuestionIds)
    <3>1. /\ groups \in [Groups -> QuestionGroups \cup {Absent}] /\ groups[g] # Absent
          /\ known \in [Requests -> Seq(QuestionIds)]
      BY <1>2 DEF StoreInv, TypeOK, SubmitStart, Start
    <3> QED  BY <3>1 DEF QuestionGroups
  <2>2. batch \in Seq(Payloads) /\ Applicable(states[r], batch) /\ batch # <<>>
    BY <1>2, BatchesAssumption DEF SubmitStart
  <2>3. /\ Start(c, g)
        /\ calls' = [calls EXCEPT ![c] = Snapshot(g, "submit", batch, known[r])]
    BY <1>2 DEF SubmitStart
  <2> QED  BY <2>1, <2>2, <2>3, StartStore
<1>3. ASSUME NEW c \in Clients, NEW g \in Groups, ReplanStart(c, g) \/ RetrieveStart(c, g)
      PROVE  StoreInv' /\ AnswersStep
  <2>1. << >> \in Seq(Payloads) /\ << >> \in Seq(QuestionIds)
    OBVIOUS
  <2>2. CASE ReplanStart(c, g)
    BY <2>1, <2>2, StartStore DEF ReplanStart
  <2>3. CASE RetrieveStart(c, g)
    BY <2>1, <2>3, StartStore DEF RetrieveStart
  <2> QED  BY <1>3, <2>2, <2>3
<1>4. ASSUME NEW c \in Clients, CommitAnswers(c)
      PROVE  StoreInv' /\ AnswersStep
  BY <1>4, CommitAnswersStore
<1>5. ASSUME NEW c \in Clients, NEW reply \in Replies, CommitReplan(c, reply)
      PROVE  StoreInv' /\ AnswersStep
  BY <1>5, CommitReplanStore
<1>6. ASSUME NEW c \in Clients,
             AnswersRefused(c) \/ ReplanEnds(c) \/ Publish(c) \/ RetrieveEnds(c)
      PROVE  StoreInv' /\ AnswersStep
  <2>1. End(c) /\ UNCHANGED <<store, created, issued>>
    BY <1>6 DEF AnswersRefused, ReplanEnds, Publish, RetrieveEnds
  <2> QED  BY <2>1, EndStore
<1>7. ASSUME UNCHANGED vars PROVE StoreInv' /\ [AnswersStep]_vars
  BY <1>7 DEF StoreInv, TypeOK, RequestHolds, GroupHolds, CallHolds, Stored, GroupsOf, vars
<1> QED  BY <1>1, <1>2, <1>3, <1>4, <1>5, <1>6, <1>7 DEF Next

-----------------------------------------------------------------------------
(***************************************************************************)
(* The state, the groups and the handlers have their types, whatever is    *)
(* answered, proposed and evicted (the pydantic models of clarification).  *)
(***************************************************************************)
THEOREM TypeCorrect == Spec => []TypeOK
<1>1. StoreInv => TypeOK
  BY DEF StoreInv
<1> QED  BY <1>1, InitIInv, NextIInv, InitStore, NextStore, PTL DEF Spec

(***************************************************************************)
(* The indexes agree after any evictions, replans stay within their        *)
(* number however many wait at the same time, and a request marked ready   *)
(* has what a search needs (ClarificationStore, and the commits of the     *)
(* handlers).                                                              *)
(***************************************************************************)
THEOREM IndexesAgree == Spec => []StoreConsistent
<1>1. StoreInv => StoreConsistent
  <2> SUFFICES ASSUME StoreInv PROVE StoreConsistent
    OBVIOUS
  <2>1. TypeOK /\ (\A r \in Requests : RequestHolds(r)) /\ \A g \in Groups : GroupHolds(g)
    BY DEF StoreInv
  <2>2. \A r \in Requests :
          IF Stored(r)
          THEN Contains(order, r) /\ current[r] # 0 /\ groups[current[r]] # Absent
               /\ groups[current[r]].request = r
          ELSE known[r] = <<>> /\ current[r] = 0 /\ ~ Contains(order, r)
    BY <2>1 DEF RequestHolds
  <2>3. ASSUME NEW g \in Groups, groups[g] # Absent
        PROVE  /\ Stored(groups[g].request)
               /\ ToSet(groups[g].questions) \subseteq ToSet(known[groups[g].request])
    <3>1. groups[g] \in QuestionGroups /\ known \in [Requests -> Seq(QuestionIds)]
      BY <2>1, <2>3 DEF TypeOK
    <3>2. groups[g].questions \in Seq(QuestionIds)
          /\ known[groups[g].request] \in Seq(QuestionIds)
      BY <3>1 DEF QuestionGroups
    <3>3. \A s \in Seq(QuestionIds) : \A q : q \in ToSet(s) <=> Contains(s, q)
      BY DEF ToSet, Contains
    <3>4. \A q : Contains(groups[g].questions, q) => Contains(known[groups[g].request], q)
      BY <2>1, <2>3 DEF GroupHolds
    <3>5. Stored(groups[g].request)
      BY <2>1, <2>3 DEF GroupHolds
    <3> QED  BY <3>2, <3>3, <3>4, <3>5
  <2>4. ASSUME NEW r \in Requests PROVE Cardinality(GroupsOf(r)) <= MaxReplans + 1
    <3>1. CASE Stored(r)
      <4>1. states[r] \in States
        BY <2>1, <3>1 DEF TypeOK, Stored
      <4>2. states[r].replans \in Nat
        BY <4>1 DEF States
      <4> QED  BY <2>1, <3>1, <4>2, BoundsAssumption DEF RequestHolds, GoodState
    <3>2. CASE ~ Stored(r)
      <4>1. GroupsOf(r) = {}
        BY <2>1, <3>2 DEF GroupHolds, GroupsOf
      <4> QED  BY <4>1, FS_EmptySet, BoundsAssumption
    <3> QED  BY <3>1, <3>2
  <2>5. \A r \in Requests : Stored(r) /\ states[r].ready => RetrievalReady(states[r])
    BY <2>1 DEF RequestHolds, GoodState
  <2> QED  BY <2>2, <2>3, <2>4, <2>5 DEF StoreConsistent
<1> QED  BY <1>1, InitIInv, NextIInv, InitStore, NextStore, PTL DEF Spec

(***************************************************************************)
(* No write loses an answer given before it, and a field the user settled  *)
(* changes only by an answer: for any batch of answers and any proposal of *)
(* a model (apply_answers, merge_proposal, the two commits).               *)
(***************************************************************************)
THEOREM AnswersAreKept == Spec => AnswersKept
<1>1. IInv /\ StoreInv /\ [Next]_vars =>
        [\A r \in Requests : Stored(r) /\ Stored(r)' =>
           /\ KeepsHistory(states[r].answers, states'[r].answers)
           /\ states'[r].answers = states[r].answers => KeepsExplicit(states[r], states'[r])]_vars
  BY NextStore DEF AnswersStep
<1> QED  BY <1>1, InitIInv, NextIInv, InitStore, NextStore, PTL DEF Spec, AnswersKept

=============================================================================
