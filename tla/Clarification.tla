--------------------------- MODULE Clarification ---------------------------
(***************************************************************************)
(* The clarification store and the handlers around it: a request is        *)
(* created with its first group of questions, answered, replanned through  *)
(* a slow provider, evicted when the store is full, and read by a          *)
(* retrieval that searches while others write.                             *)
(*                                                                         *)
(* A handler works on a deep copy taken when it starts and never holds the *)
(* lock while it works: its first step takes the snapshot, its last step   *)
(* compares revisions and writes, and the other handlers run in between.   *)
(* The revision of a request, a field of its state in the code, is a       *)
(* variable of its own.                                                    *)
(***************************************************************************)
EXTENDS ClarificationRules

CONSTANTS
    Clients,        \* concurrent handlers
    MaxEntries,     \* requests the store keeps
    MaxReplans,     \* replans of one request (5 in the code)
    MaxQuestions,   \* questions of one group (6 by default)
    MaxRequests,    \* bound: requests created
    MaxGroups,      \* bound: groups created
    MaxRevision,    \* bound: revision a handler starts from
    Given,          \* the values new requests come with
    Batches,        \* what a client can submit: sequences of payloads
    Replies,        \* what a planning call can come back with
    Absent          \* no state, no group, no call

ASSUME BoundsAssumption ==
    /\ MaxEntries \in Nat \ {0} /\ MaxQuestions \in 1..12
    /\ {MaxReplans, MaxRequests, MaxGroups, MaxRevision} \subseteq Nat

ASSUME GivenAssumption == Given \subseteq [Targets -> Values]

\* A batch has an answer at least; only a confirmation is kept or changed.
Payloads == {p \in [question : QuestionIds, answer : Replied] :
                p.answer \in {"keep", "change"} => p.question.kind = "confirm"}
ASSUME BatchesAssumption == Batches \subseteq Seq(Payloads) \ {<<>>}

\* Another value for a target than the first is rejected as it is read.
Updates == [target : Targets, value : Values, grounded : BOOLEAN]
ASSUME RepliesAssumption ==
    /\ Replies \subseteq [ok : BOOLEAN, updates : Seq(Updates), asks : SUBSET Targets]
    /\ \A p \in Replies : \A i, j \in DOMAIN p.updates :
          p.updates[i].target = p.updates[j].target => p.updates[i].value = p.updates[j].value

VARIABLES
    states,     \* _states: what each request knows, Absent when not stored
    revision,   \* revision of each stored request
    order,      \* the order of _states: least recently written first
    groups,     \* _groups, with the request each belongs to
    known,      \* _known: every question issued for a request
    current,    \* _current: the newest group of a request
    created,    \* requests created so far
    issued,     \* groups given an id so far
    calls,      \* the handler each client is in, with its snapshot
    published   \* the last retrieval response: its group and the revisions it names

vars == <<states, revision, order, groups, known, current, created, issued, calls, published>>
store == <<states, revision, order, groups, known, current>>

Requests == 1..MaxRequests
Groups == 1..MaxGroups

Stored(r) == states[r] # Absent

\* A question group, and what a handler has in hand.
QuestionGroups == [request : Requests, revision : Nat, questions : Seq(QuestionIds)]
Handlers == [op : {"submit", "replan", "retrieve"}, request : Requests, group : Groups,
             base : Nat, groupBase : Nat, snap : States,
             batch : Seq(Payloads), asked : Seq(QuestionIds)]
ASSUME AbsentAssumption == Absent \notin States \cup QuestionGroups \cup Handlers

TypeOK ==
    /\ states \in [Requests -> States \cup {Absent}]
    /\ revision \in [Requests -> Nat]
    /\ created \in 0..MaxRequests
    /\ issued \in 0..MaxGroups
    /\ order \in Seq(1..created)
    /\ known \in [Requests -> Seq(QuestionIds)]
    /\ current \in [Requests -> 0..issued]
    /\ groups \in [Groups -> QuestionGroups \cup {Absent}]
    /\ \A g \in Groups : groups[g] # Absent => g <= issued /\ groups[g].request <= created
    /\ calls \in [Clients -> Handlers \cup {Absent}]

Init ==
    /\ states = [r \in Requests |-> Absent]
    /\ revision = [r \in Requests |-> 0]
    /\ order = <<>>
    /\ groups = [g \in Groups |-> Absent]
    /\ known = [r \in Requests |-> <<>>]
    /\ current = [r \in Requests |-> 0]
    /\ created = 0
    /\ issued = 0
    /\ calls = [c \in Clients |-> Absent]
    /\ published = Absent

-----------------------------------------------------------------------------
Register(registry, questions) ==
    FoldLeft(LAMBDA reg, q : IF Contains(reg, q) THEN reg ELSE Append(reg, q),
             registry, questions)

Touched(r) == Append(Only(order, Requests \ {r}), r)

\* The requests popped from the front when r is inserted.
Evicted(r) ==
    LET excess == Len(Touched(r)) - MaxEntries
    IN  {Touched(r)[i] : i \in 1..excess}

Remaining(r) == Only(Touched(r), Requests \ Evicted(r))

\* Variant: the groups of an evicted request stay.
GroupsLeftBehind(gone) == groups

GroupsWithout(gone) ==
    [g \in Groups |-> IF groups[g] # Absent /\ groups[g].request \in gone
                      THEN Absent ELSE groups[g]]

\* Every committed write of a request advances its revision by one.
\* Variant: the revision of the snapshot is written back.
NotAdvanced(r, base) == [revision EXCEPT ![r] = base]

Advanced(r, base) == [revision EXCEPT ![r] = base + 1]

NewGroup(r, questions) == [request |-> r, revision |-> 1, questions |-> questions]

(***************************************************************************)
(* A new request.  Nobody knows its id before the response, so planning    *)
(* and storing it are one step.                                            *)
(***************************************************************************)
Create(given, reply) ==
    LET r == created + 1
        g == issued + 1
        plan == PlanGroup(InitState(given), MaxQuestions, reply)
        gone == Evicted(r)
    IN  /\ created < MaxRequests /\ issued < MaxGroups
        /\ created' = r
        /\ issued' = g
        /\ order' = Remaining(r)
        /\ states' = [x \in Requests |-> IF x = r THEN plan.st
                                         ELSE IF x \in gone THEN Absent ELSE states[x]]
        /\ revision' = [x \in Requests |-> IF x = r THEN 1
                                           ELSE IF x \in gone THEN 0 ELSE revision[x]]
        /\ groups' = [GroupsWithout(gone) EXCEPT ![g] = NewGroup(r, plan.questions)]
        /\ known' = [x \in Requests |-> IF x = r THEN Register(<<>>, plan.questions)
                                        ELSE IF x \in gone THEN <<>> ELSE known[x]]
        /\ current' = [x \in Requests |-> IF x = r THEN g
                                          ELSE IF x \in gone THEN 0 ELSE current[x]]
        /\ UNCHANGED <<calls, published>>

(***************************************************************************)
(* The first step of a handler on an existing group: 404 for a group that  *)
(* is gone, otherwise a deep copy of the state and of the group.  A        *)
(* submission also holds its answers and the questions asked so far.       *)
(***************************************************************************)
Snapshot(g, op, batch, asked) ==
    LET r == groups[g].request
    IN  [op |-> op, request |-> r, group |-> g, base |-> revision[r],
         groupBase |-> groups[g].revision, snap |-> states[r],
         batch |-> batch, asked |-> asked]

Start(c, g) ==
    /\ calls[c] = Absent
    /\ groups[g] # Absent
    /\ states[groups[g].request] # Absent
    /\ revision[groups[g].request] < MaxRevision
    /\ UNCHANGED <<store, created, issued, published>>

End(c) == calls' = [calls EXCEPT ![c] = Absent]

(***************************************************************************)
(* Answers.  The request must name the current revisions; unknown          *)
(* questions and confirmations that are not pending are refused.  The      *)
(* answers may be given through any group of the request.                  *)
(***************************************************************************)
SubmitStart(c, g, batch) ==
    /\ Start(c, g)
    /\ \A i \in DOMAIN batch : Contains(known[groups[g].request], batch[i].question)
    /\ Applicable(states[groups[g].request], batch)
    /\ calls' = [calls EXCEPT ![c] =
                     Snapshot(g, "submit", batch, known[groups[g].request])]

\* Variant: only the revision of the group is compared.
AnswersMatchGroupOnly(call) ==
    /\ Stored(call.request) /\ groups[call.group] # Absent
    /\ groups[call.group].revision = call.groupBase

AnswersMatch(call) ==
    /\ Stored(call.request) /\ groups[call.group] # Absent
    /\ revision[call.request] = call.base
    /\ groups[call.group].revision = call.groupBase

\* commit_answers: compare both revisions and write state and group.
CommitAnswers(c) ==
    LET call == calls[c]
        r == call.request
        st == ApplyAnswers(call.snap, call.batch)
        remaining == PendingQuestions(call.asked, st)
    IN  /\ calls[c] # Absent /\ call.op = "submit"
        /\ AnswersMatch(call)
        /\ states' = [states EXCEPT ![r] = st]
        /\ revision' = Advanced(r, call.base)
        /\ order' = Touched(r)
        /\ groups' = [groups EXCEPT ![call.group].revision = call.groupBase + 1,
                                    ![call.group].questions = remaining]
        /\ known' = [known EXCEPT ![r] = Register(@, remaining)]
        /\ End(c)
        /\ UNCHANGED <<current, created, issued, published>>

AnswersRefused(c) ==
    /\ calls[c] # Absent /\ calls[c].op = "submit"
    /\ ~ AnswersMatch(calls[c])
    /\ End(c)
    /\ UNCHANGED <<store, created, issued, published>>

-----------------------------------------------------------------------------
(***************************************************************************)
(* An explicit replan: the budget is checked on the snapshot, the provider *)
(* is called without the lock, and the commit compares the revision.       *)
(***************************************************************************)
ReplanStart(c, g) ==
    /\ Start(c, g)
    /\ states[groups[g].request].replans < MaxReplans
    /\ calls' = [calls EXCEPT ![c] = Snapshot(g, "replan", <<>>, <<>>)]

\* Variant: a replan is stored whatever happened while it was planned.
ReplanMatchesAny(call) == Stored(call.request)

ReplanMatches(call) == Stored(call.request) /\ revision[call.request] = call.base

\* The questions of the plan and those of unresolved confirmations, as far as
\* they are pending among everything ever asked and the plan itself.
FollowUp(r, st, planned) ==
    LET waiting == {st.confirmations[i].question :
                      i \in {j \in DOMAIN st.confirmations :
                               st.confirmations[j].status = "pending"}}
    IN  Take(Only(PendingQuestions(known[r] \o planned, st), ToSet(planned) \cup waiting),
             MaxQuestions)

CommitReplan(c, reply) ==
    LET call == calls[c]
        r == call.request
        g == issued + 1
        plan == PlanGroup([call.snap EXCEPT !.replans = @ + 1], MaxQuestions, reply)
        questions == FollowUp(r, plan.st, plan.questions)
    IN  /\ calls[c] # Absent /\ call.op = "replan"
        /\ ReplanMatches(call)
        /\ issued < MaxGroups
        /\ issued' = g
        /\ states' = [states EXCEPT ![r] = plan.st]
        /\ revision' = Advanced(r, call.base)
        /\ order' = Touched(r)
        /\ groups' = [groups EXCEPT ![g] = NewGroup(r, questions)]
        /\ known' = [known EXCEPT ![r] = Register(@, questions)]
        /\ current' = [current EXCEPT ![r] = g]
        /\ End(c)
        /\ UNCHANGED <<created, published>>

\* replan_stale, or the client hung up while the provider was working.
ReplanEnds(c) ==
    /\ calls[c] # Absent /\ calls[c].op = "replan"
    /\ End(c)
    /\ UNCHANGED <<store, created, issued, published>>

-----------------------------------------------------------------------------
(***************************************************************************)
(* Retrieval: only the current group of a ready request is searched for,   *)
(* and its revisions are compared again before the results are published.  *)
(***************************************************************************)
RetrieveStart(c, g) ==
    /\ Start(c, g)
    /\ current[groups[g].request] \in {g, 0}
    /\ EvaluateReadiness(states[groups[g].request]) = "ready"
    /\ calls' = [calls EXCEPT ![c] = Snapshot(g, "retrieve", <<>>, <<>>)]

\* Variant: the group is found again, but not compared with the snapshot.
StillFound(call) == groups[call.group] # Absent /\ Stored(call.request)

StillCurrent(call) ==
    /\ groups[call.group] # Absent /\ Stored(call.request)
    /\ revision[call.request] = call.base
    /\ groups[call.group].revision = call.groupBase
    /\ current[call.request] \in {call.group, 0}

Publish(c) ==
    LET call == calls[c]
    IN  /\ calls[c] # Absent /\ call.op = "retrieve"
        /\ StillCurrent(call)
        /\ published' = [group |-> call.group, base |-> call.base, groupBase |-> call.groupBase]
        /\ End(c)
        /\ UNCHANGED <<store, created, issued>>

\* The group is gone, superseded or changed, or the search failed.
RetrieveEnds(c) ==
    /\ calls[c] # Absent /\ calls[c].op = "retrieve"
    /\ End(c)
    /\ UNCHANGED <<store, created, issued, published>>

Next ==
    \/ \E given \in Given, reply \in Replies : Create(given, reply)
    \/ \E c \in Clients, g \in Groups, batch \in Batches : SubmitStart(c, g, batch)
    \/ \E c \in Clients : CommitAnswers(c) \/ AnswersRefused(c)
    \/ \E c \in Clients, g \in Groups : ReplanStart(c, g) \/ RetrieveStart(c, g)
    \/ \E c \in Clients, reply \in Replies : CommitReplan(c, reply)
    \/ \E c \in Clients : ReplanEnds(c) \/ Publish(c) \/ RetrieveEnds(c)

Spec == Init /\ [][Next]_vars

-----------------------------------------------------------------------------
(***************************************************************************)
(* A revision number identifies a state: as long as a request is stored    *)
(* under the revision a handler started from, it is the very state the     *)
(* handler copied.  Every comparison of revisions in the store and in the  *)
(* retrieval service rests on it.                                          *)
(***************************************************************************)
RevisionIdentifiesState ==
    \A c \in Clients :
        LET call == calls[c]
        IN  (/\ call # Absent
             /\ Stored(call.request)
             /\ revision[call.request] = call.base) => states[call.request] = call.snap

(***************************************************************************)
(* The indexes of the store agree, also after evictions: only stored       *)
(* requests have groups, registered questions and a current group, the     *)
(* current group is one of the request's own, and every question a client  *)
(* can see in a group is registered, so that an answer to it is accepted.  *)
(* However many replans of a request wait for the provider at the same     *)
(* time, only MaxReplans of them ever give it a new group.  And a request  *)
(* marked ready has what a search needs, whichever of answers, rules and   *)
(* model proposal last wrote its state.                                    *)
(***************************************************************************)
GroupsOf(r) == {g \in Groups : groups[g] # Absent /\ groups[g].request = r}

StoreConsistent ==
    /\ \A r \in Requests :
         IF Stored(r)
         THEN Contains(order, r) /\ current[r] # 0 /\ groups[current[r]] # Absent
              /\ groups[current[r]].request = r
         ELSE known[r] = <<>> /\ current[r] = 0 /\ ~ Contains(order, r)
    /\ \A g \in Groups : groups[g] # Absent =>
         /\ Stored(groups[g].request)
         /\ ToSet(groups[g].questions) \subseteq ToSet(known[groups[g].request])
    /\ \A r \in Requests : Cardinality(GroupsOf(r)) <= MaxReplans + 1
    /\ \A r \in Requests : Stored(r) /\ states[r].ready => RetrievalReady(states[r])

(***************************************************************************)
(* No write loses an answer given before it: the history of a stored       *)
(* request only grows, and a record changes only by being invalidated.  A  *)
(* field the user gave, skipped or left in conflict changes only by an     *)
(* answer: a step that adds none leaves its value and status alone, even   *)
(* when the model proposed another value with a fitting quote.             *)
(***************************************************************************)
KeepsHistory(old, new) ==
    /\ Len(old) <= Len(new)
    /\ \A i \in DOMAIN old :
         new[i] = old[i] \/ new[i] = [old[i] EXCEPT !.status = "invalidated"]

KeepsExplicit(old, new) ==
    \A t \in Targets : old.status[t] \in Explicit =>
        new.value[t] = old.value[t] /\ new.status[t] = old.status[t]

AnswersKept ==
    [][\A r \in Requests : Stored(r) /\ Stored(r)' =>
         /\ KeepsHistory(states[r].answers, states'[r].answers)
         /\ states'[r].answers = states[r].answers => KeepsExplicit(states[r], states'[r])]_vars

(***************************************************************************)
(* Results are published only for the newest group of the request and for  *)
(* the state the request still has, although answers, replans and          *)
(* evictions happen while the search runs.                                 *)
(***************************************************************************)
PublishedIsCurrent ==
    [][published' # published =>
         \E c \in Clients :
            /\ calls[c] # Absent /\ calls[c].op = "retrieve" /\ calls'[c] = Absent
            /\ published'.group = calls[c].group
            /\ current[calls[c].request] = published'.group
            /\ states[calls[c].request] = calls[c].snap
            /\ EvaluateReadiness(states[calls[c].request]) = "ready"]_vars

-----------------------------------------------------------------------------
(***************************************************************************)
(* What the documentation promises and the code does not keep.             *)
(***************************************************************************)
\* Pending confirmations stay answerable: their question is registered, so an
\* answer to it is not refused as unknown.
ConfirmationsAnswerable ==
    \A r \in Requests : Stored(r) =>
        \A i \in DOMAIN states[r].confirmations :
            states[r].confirmations[i].status = "pending" =>
                Contains(known[r], states[r].confirmations[i].question)
=============================================================================
