------------------------------ MODULE SearchWeb ------------------------------
(***************************************************************************)
(* tools/stub_tools.py: the search_web tool of the agent.  The runs of one *)
(* server share one ToolContext (api/agent.py builds it once), run_tool    *)
(* gives every call a copy of it, the slot claim runs in a worker thread,  *)
(* and each event of a search is a transaction of its own (SessionStore)   *)
(* that may fail.  A tool timeout cancels a call wherever it waits.        *)
(***************************************************************************)
EXTENDS Integers, FiniteSets, Sequences

CONSTANTS
  Sessions, NoSession,
  AgentRuns,   \* agent runs of this server
  Calls,       \* search_web calls, each of one run
  MaxSlots,    \* search_max_per_session
  MaxToggles   \* bound: changes of a session's permission

ASSUME SearchAssumption ==
  /\ MaxSlots \in Nat
  /\ MaxToggles \in Nat
  /\ NoSession \notin Sessions
  /\ IsFiniteSet(Calls)

VARIABLES
  bound,       \* context.bound_session_id of the shared context
  allowed,     \* internet_search_allowed of each session
  log,         \* the search events of each session, each with its call
  runs,        \* the session of each run, and whether it offers search_web
  call,        \* each call: where it is, its session, the events to come
  toggles

searchVars == <<bound, allowed, log, runs, call, toggles>>

EventTypes == { "search_slot_claimed", "search_results_retrieved",
                "evidence_evaluated", "search_outcome", "search_operations" }

Pcs == { "idle", "claiming", "claimed", "dispatched", "writing", "done" }

SearchCalls ==
  [ pc       : Pcs,
    owner    : AgentRuns \cup {NoSession},
    session  : Sessions \cup {NoSession},
    events   : Seq(EventTypes),   \* still to be written
    good     : BOOLEAN,           \* evidence, if they all are
    thread   : BOOLEAN,           \* a claim is under way
    sent     : BOOLEAN,           \* the provider was asked
    result   : {"none", "ok", "failed"} ]

SearchTypeOK ==
  /\ bound \in Sessions \cup {NoSession}
  /\ allowed \in [Sessions -> BOOLEAN]
  /\ log \in [Sessions -> SUBSET (EventTypes \X Calls)]
  /\ runs \in [AgentRuns -> [session : Sessions \cup {NoSession}, offers : BOOLEAN]]
  /\ call \in [Calls -> SearchCalls]
  /\ toggles \in 0 .. MaxToggles

-----------------------------------------------------------------------------

IdleCall == [ pc |-> "idle", owner |-> NoSession, session |-> NoSession,
              events |-> << >>, good |-> FALSE, thread |-> FALSE,
              sent |-> FALSE, result |-> "none" ]

Logged(type, c) == <<type, c>> \in log[call[c].session]

SlotsUsed(s) == Cardinality({ e \in log[s] : e[1] = "search_slot_claimed" })

AppendEvent(type, c) ==
  log' = [log EXCEPT ![call[c].session] = @ \cup {<<type, c>>}]

Becomes(c, state) == call' = [call EXCEPT ![c] = state]

CallFails(c) == [call[c] EXCEPT !.pc = "done", !.result = "failed"]

\* The events the call goes on to write; good: they are of evidence.
Writes(c, events, good) ==
  Becomes(c, [call[c] EXCEPT !.pc = "writing", !.events = events, !.good = good])

(***************************************************************************)
(* _run_agent binds the shared context to the session of its path, and     *)
(* offers search_web if the permission was on in the row it read.          *)
(***************************************************************************)
StartRun(r, s) ==
  /\ runs[r].session = NoSession
  /\ bound' = s
  /\ runs' = [runs EXCEPT ![r] = [session |-> s, offers |-> allowed[s]]]
  /\ UNCHANGED <<allowed, log, call, toggles>>

\* run_tool copies the context for the call; the tool reads the session
\* from the copy and hands its claim to a worker thread.
Dispatch(c, r) ==
  /\ call[c].pc = "idle"
  /\ runs[r].offers
  /\ Becomes(c, [call[c] EXCEPT !.pc = "claiming", !.owner = r,
                                !.session = bound, !.thread = TRUE])
  /\ UNCHANGED <<bound, allowed, log, runs, toggles>>

\* claim_search_slot, one transaction; it goes through even if the call
\* that waits for it has been cancelled.
Claim(c) ==
  /\ call[c].thread
  /\ IF allowed[call[c].session] /\ SlotsUsed(call[c].session) < MaxSlots
     THEN /\ AppendEvent("search_slot_claimed", c)
          /\ Becomes(c, [call[c] EXCEPT !.thread = FALSE,
                           !.pc = IF @ = "claiming" THEN "claimed" ELSE @])
     ELSE /\ Becomes(c, [IF call[c].pc = "claiming" THEN CallFails(c) ELSE call[c]
                           EXCEPT !.thread = FALSE])
          /\ UNCHANGED log
  /\ UNCHANGED <<bound, allowed, runs, toggles>>

\* The claim transaction fails: nothing is claimed.
ClaimFails(c) ==
  /\ call[c].thread
  /\ Becomes(c, [IF call[c].pc = "claiming" THEN CallFails(c) ELSE call[c]
                   EXCEPT !.thread = FALSE])
  /\ UNCHANGED <<bound, allowed, log, runs, toggles>>

\* Run limits refuse the search, or there is no provider: outcome only.
Refused(c) ==
  /\ call[c].pc = "claimed"
  /\ Writes(c, << "search_outcome" >>, FALSE)
  /\ UNCHANGED <<bound, allowed, log, runs, toggles>>

\* complete_web_search: the one request to the provider.
Search(c) ==
  /\ call[c].pc = "claimed"
  /\ Becomes(c, [call[c] EXCEPT !.pc = "dispatched", !.sent = TRUE])
  /\ UNCHANGED <<bound, allowed, log, runs, toggles>>

\* Variant: an event type the log does not know.
FoundUntyped(c) ==
  /\ call[c].pc = "dispatched"
  /\ Writes(c, << "search_results", "evidence_evaluated",
                  "search_outcome", "search_operations" >>, TRUE)
  /\ UNCHANGED <<bound, allowed, log, runs, toggles>>

\* The provider's answer: verified sources, or an error, no search, no
\* verifiable source, a minimizer failure.
Found(c) ==
  /\ call[c].pc = "dispatched"
  /\ Writes(c, << "search_results_retrieved", "evidence_evaluated",
                  "search_outcome", "search_operations" >>, TRUE)
  /\ UNCHANGED <<bound, allowed, log, runs, toggles>>

NotFound(c) ==
  /\ call[c].pc = "dispatched"
  /\ \/ Writes(c, << "search_outcome" >>, FALSE)
     \/ Writes(c, << "search_outcome", "search_operations" >>, FALSE)
  /\ UNCHANGED <<bound, allowed, log, runs, toggles>>

\* One append; the last one ends the call.
WriteEvent(c) ==
  /\ call[c].pc = "writing"
  /\ call[c].events # << >>
  /\ AppendEvent(Head(call[c].events), c)
  /\ Becomes(c, [call[c] EXCEPT !.events = Tail(@)])
  /\ UNCHANGED <<bound, allowed, runs, toggles>>

\* Variant: a search without evidence never returns.
ReturnGoodOnly(c) ==
  /\ call[c].pc = "writing"
  /\ call[c].events = << >>
  /\ call[c].good
  /\ Becomes(c, [call[c] EXCEPT !.pc = "done", !.result = "ok"])
  /\ UNCHANGED <<bound, allowed, log, runs, toggles>>

Return(c) ==
  /\ call[c].pc = "writing"
  /\ call[c].events = << >>
  /\ Becomes(c, [call[c] EXCEPT !.pc = "done",
                   !.result = IF call[c].good THEN "ok" ELSE "failed"])
  /\ UNCHANGED <<bound, allowed, log, runs, toggles>>

\* Variant: a failed append is passed over.
WriteFailsPassed(c) ==
  /\ call[c].pc = "writing"
  /\ call[c].events # << >>
  /\ Becomes(c, [call[c] EXCEPT !.events = Tail(@)])
  /\ UNCHANGED <<bound, allowed, log, runs, toggles>>

\* A failed append skips the others and leaves no evidence.
WriteFails(c) ==
  /\ call[c].pc = "writing"
  /\ call[c].events # << >>
  /\ Becomes(c, [CallFails(c) EXCEPT !.events = << >>])
  /\ UNCHANGED <<bound, allowed, log, runs, toggles>>

\* The tool timeout: a call waiting for its claim just ends; one waiting
\* for the provider records the cancellation.
Timeout(c) ==
  /\ \/ call[c].pc = "claiming" /\ Becomes(c, CallFails(c))
     \/ call[c].pc = "dispatched"
          /\ Writes(c, << "search_outcome", "search_operations" >>, FALSE)
  /\ UNCHANGED <<bound, allowed, log, runs, toggles>>

\* The user turns internet search on or off.
Toggle(s) ==
  /\ toggles < MaxToggles
  /\ toggles' = toggles + 1
  /\ allowed' = [allowed EXCEPT ![s] = ~@]
  /\ UNCHANGED <<bound, log, runs, call>>

SearchRest ==
  /\ \A c \in Calls :
       \/ call[c].pc = "done" /\ ~call[c].thread
       \/ call[c].pc = "idle" /\ \A r \in AgentRuns : ~runs[r].offers
  /\ toggles = MaxToggles
  /\ \A r \in AgentRuns : runs[r].session # NoSession
  /\ UNCHANGED searchVars

SearchInit ==
  /\ bound = NoSession
  /\ allowed \in [Sessions -> BOOLEAN]
  /\ log = [s \in Sessions |-> {}]
  /\ runs = [r \in AgentRuns |-> [session |-> NoSession, offers |-> FALSE]]
  /\ call = [c \in Calls |-> IdleCall]
  /\ toggles = 0

Proceed(c) ==
  \/ Claim(c) \/ ClaimFails(c) \/ Refused(c) \/ Search(c)
  \/ Found(c) \/ NotFound(c) \/ Timeout(c)
  \/ WriteEvent(c) \/ WriteFails(c) \/ Return(c)

SearchNext ==
  \/ \E r \in AgentRuns, s \in Sessions : StartRun(r, s)
  \/ \E c \in Calls : (\E r \in AgentRuns : Dispatch(c, r)) \/ Proceed(c)
  \/ \E s \in Sessions : Toggle(s)
  \/ SearchRest

SearchSpec == SearchInit /\ [][SearchNext]_searchVars

FairSearchSpec == SearchSpec /\ \A c \in Calls : WF_searchVars(Proceed(c))

-----------------------------------------------------------------------------
(* What a search must guarantee.                                           *)

SearchesOf(s) == { c \in Calls : call[c].session = s /\ call[c].sent }

\* The provider is never asked more often, for a session, than the session
\* has slots: a claim is recorded before each request, also when claims
\* run in parallel threads and outlive the calls that wait for them.  What
\* the model is given as evidence is in the log of the call's session with
\* its evaluation and its outcome, though each was written on its own, and
\* no search event is of a call that claimed nothing.
SearchesOnRecord ==
  /\ \A s \in Sessions : /\ Cardinality(SearchesOf(s)) <= SlotsUsed(s)
                         /\ SlotsUsed(s) <= MaxSlots
  /\ \A c \in Calls :
       call[c].result = "ok" =>
         /\ Logged("search_slot_claimed", c)
         /\ Logged("search_results_retrieved", c)
         /\ Logged("evidence_evaluated", c)
         /\ Logged("search_outcome", c)
  /\ \A s \in Sessions : \A e \in log[s] :
       <<"search_slot_claimed", e[2]>> \in log[s]

\* Every call ends, and leaves no claim under way.
CallEnds ==
  \A c \in Calls : call[c].pc = "claiming" ~> call[c].pc = "done" /\ ~call[c].thread

(* What the documentation says and the code does not do.                   *)

\* docs/tools.md: the session id of a search is "set per run from the path
\* id".
OwnSession ==
  \A c \in Calls : call[c].pc # "idle" => call[c].session = runs[call[c].owner].session
=============================================================================
