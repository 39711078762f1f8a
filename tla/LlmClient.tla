------------------------------ MODULE LlmClient ------------------------------
(***************************************************************************)
(* llm/client.py: one call of the provider client as a record that its     *)
(* attempts move along.  The SDK never retries; the loop of                *)
(* complete_native_tool_turn and _complete_structured does, for transient  *)
(* failures only, and every failure says whether a request was sent.       *)
(* "served" is what the provider really did: it is not known to the client *)
(* and is there for the properties.                                        *)
(***************************************************************************)
EXTENDS Naturals

CONSTANT MaxRetries      \* llm_rec_max_retries

ASSUME RetriesAssumption == MaxRetries \in Nat

SdkErrors == { "timeout", "connection", "rate_limit", "server", "auth",
               "bad_request", "not_found", "other_4xx", "length",
               "content_filter", "invalid_response", "sdk_other", "local" }

ProviderErrors == { "Timeout", "RateLimit", "Unavailable", "Auth",
                    "BadRequest", "NotFound", "Request", "Incomplete",
                    "ContentFilter", "Schema", "Refusal", "Internal" }

\* What each exception of the SDK becomes; the last two have no mapping.
MapSdkError(e) ==
  CASE e = "timeout"                   -> "Timeout"
    [] e = "rate_limit"                -> "RateLimit"
    [] e \in {"connection", "server"}  -> "Unavailable"
    [] e = "auth"                      -> "Auth"
    [] e = "bad_request"               -> "BadRequest"
    [] e = "not_found"                 -> "NotFound"
    [] e = "other_4xx"                 -> "Request"
    [] e = "length"                    -> "Incomplete"
    [] e = "content_filter"            -> "ContentFilter"
    [] e = "invalid_response"          -> "Schema"
    [] e \in {"sdk_other", "local"}    -> "unmapped"

Retryable(error) == error \in {"Timeout", "RateLimit", "Unavailable"}

SplitFallback(e) == IF e = "sdk_other" THEN "Unavailable" ELSE "Internal"

\* _sent_by_shape: exceptions that arise from an exchange.  A response the SDK could not
\* validate is not among them.
SentByShape(e) == e \notin {"invalid_response", "sdk_other", "local"}

\* External: whether the provider may have served the request that failed so.
ServedBy(e) ==
  CASE e \in {"length", "content_filter", "invalid_response"} -> {TRUE}
    [] e \in {"timeout", "connection", "server"}              -> BOOLEAN
    [] OTHER                                                  -> {FALSE}

-----------------------------------------------------------------------------

NewCall == [ phase |-> "sending", attempts |-> 1, served |-> FALSE,
             error |-> "none", sent |-> FALSE, usage |-> FALSE ]

Call == [ phase    : {"none", "sending", "sleeping", "failed", "completed"},
          attempts : 0 .. MaxRetries + 1,
          served   : BOOLEAN,
          error    : ProviderErrors \cup {"none"},
          sent     : BOOLEAN,      \* request_sent
          usage    : BOOLEAN ]     \* the token counts are known

NoCall == [NewCall EXCEPT !.phase = "none", !.attempts = 0]

RetriesLeftOneMore(c) == c.attempts <= MaxRetries + 1
RetriesLeft(c) == c.attempts <= MaxRetries

\* An attempt raises: it is retried after a short sleep, or the error leaves.
AttemptFailed(c, e, served) ==
  LET error == MapSdkError(e)
      again == Retryable(error) /\ RetriesLeft(c)
  IN [ phase    |-> IF again THEN "sleeping" ELSE "failed",
       attempts |-> c.attempts,
       served   |-> c.served \/ served,
       error    |-> IF error = "unmapped" THEN SplitFallback(e) ELSE error,
       sent     |-> SentByShape(e),
       usage    |-> e = "length" ]

Retried(c) == [c EXCEPT !.phase = "sending", !.attempts = @ + 1]

\* Responses, by what processing them finds; "broken" is an exception of
\* that processing itself.
Responses == {"parsed", "calls", "incomplete", "refusal", "empty", "broken"}

ResponseError(r) ==
  CASE r = "incomplete" -> "Incomplete"
    [] r = "refusal"    -> "Refusal"
    [] r = "empty"      -> "Schema"
    [] r = "broken"     -> "Internal"
    [] OTHER            -> "none"

Answered(c, r, counted) ==
  LET error == ResponseError(r)
  IN [ c EXCEPT !.phase  = IF error = "none" THEN "completed" ELSE "failed",
                !.served = TRUE,
                !.error  = error,
                !.sent   = TRUE,
                !.usage  = counted /\ r # "broken" ]

\* The guards before the first attempt: another event loop, a continuation
\* item with unknown fields.
Refused(c) == [c EXCEPT !.phase = "failed", !.attempts = 0,
                        !.error = "Internal"]
=============================================================================
