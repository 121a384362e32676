------------------------------ MODULE Provider ------------------------------
(***************************************************************************)
(* One call of Router.complete: NaraProvider.chat goes through the models, *)
(* BaseProvider._post posts to one of them, with retries.  What the        *)
(* gateway does with a post is the environment's choice.                   *)
(***************************************************************************)
EXTENDS Integers, Sequences, SequencesExt

CONSTANTS
    Models,      \* names of models
    MaxFallbacks,\* bound on the length of NARA_FALLBACK_MODELS
    MaxRetries,  \* BaseProvider.max_retries
    Statuses     \* HTTP status codes the gateway answers with

ASSUME RetriesAssumption == MaxRetries \in Nat /\ MaxFallbacks \in Nat

VARIABLES
    configured,  \* NARA_API_KEY is set
    preferred,   \* DEFAULT_MODEL, then NARA_FALLBACK_MODELS; config drops blank names
    phase,       \* "idle", "posting", "backoff", "done", "cancelled"
    models,      \* the models left after repetitions are dropped
    index,       \* the model asked
    attempt,     \* retries of it so far
    result,      \* the code the call ends with
    posts        \* the posts so far, as <<index, code>>

vars == <<configured, preferred, phase, models, index, attempt, result, posts>>

Codes == {"timeout", "connection_failure", "http_5xx", "rate_limit", "forbidden_model",
          "model_or_request_invalid", "invalid_api_key", "http_error", "invalid_response",
          "unexpected_error"}
Results == {"none", "ok", "configuration"} \cup Codes

TypeOK ==
    /\ configured \in BOOLEAN
    /\ preferred \in BoundedSeq(Models, MaxFallbacks + 1)
    /\ phase \in {"idle", "posting", "backoff", "done", "cancelled"}
    /\ models \in BoundedSeq(Models, MaxFallbacks + 1)
    /\ index \in 0..(MaxFallbacks + 1)
    /\ attempt \in 0..MaxRetries
    /\ result \in Results
    /\ \A i \in 1..Len(posts) : posts[i] \in (1..Len(models)) \X (Codes \cup {"ok"})

Init ==
    /\ configured \in BOOLEAN
    /\ \E m \in Models, f \in BoundedSeq(Models, MaxFallbacks) : preferred = <<m>> \o f
    /\ phase = "idle"
    /\ models = <<>>
    /\ index = 0
    /\ attempt = 0
    /\ result = "none"
    /\ posts = <<>>

-----------------------------------------------------------------------------
(* BaseProvider                                                            *)

\* The code of an HTTP error status.
StatusCode(status) ==
    CASE status = 401 -> "invalid_api_key"
      [] status = 403 -> "forbidden_model"
      [] status = 429 -> "rate_limit"
      [] status \in {400, 404} -> "model_or_request_invalid"
      [] status \in 500..599 -> "http_5xx"
      [] OTHER -> "http_error"

\* What a post may come to: an answer with content, no answer, an error status, a body
\* that is no JSON or no completion, or an error of another kind.
PostCodes ==
    {"ok", "timeout", "connection_failure", "invalid_response", "unexpected_error"}
    \cup {StatusCode(s) : s \in Statuses}

\* Mutation of Retryable: only a rate limit is not posted again.
RetryRefusals(code) == code # "rate_limit"

Retryable(code) == code \in {"timeout", "connection_failure", "http_5xx"}

\* Mutation of MayRetry: one attempt too many.
MayRetryOnceMore(code) == Retryable(code) /\ attempt <= MaxRetries

MayRetry(code) == Retryable(code) /\ attempt < MaxRetries

NeedsModelFallback(code) ==
    code \in {"model_or_request_invalid", "forbidden_model", "http_5xx", "rate_limit"}

-----------------------------------------------------------------------------
(* NaraProvider.chat                                                       *)

\* Mutation of Candidates: repetitions stay.
CandidatesRepeated(seq) == {seq}

\* The names in order of preference, without repetitions: the same names, and of any two
\* the one comes before the other does.
Candidates(seq) ==
    {c \in BoundedSeq(Models, Len(seq)) :
        /\ ToSet(c) = ToSet(seq)
        /\ \A i, j \in 1..Len(c) : i < j =>
              \E p \in 1..Len(seq) : seq[p] = c[i] /\ \A q \in 1..p : seq[q] # c[j]}

\* Mutation of HasNextModel: the last model is never asked.
HasNextButOne == index < Len(models) - 1

HasNextModel == index < Len(models)

Finish(r) == phase' = "done" /\ result' = r

\* Router.complete is called.  Without a key it raises ConfigurationError.
Begin ==
    /\ phase = "idle"
    /\ IF ~configured
       THEN Finish("configuration") /\ UNCHANGED <<models, index>>
       ELSE /\ models' \in Candidates(preferred)
            /\ index' = 1
            /\ phase' = "posting"
            /\ UNCHANGED result
    /\ UNCHANGED <<configured, preferred, attempt, posts>>

\* A post returns.  The call ends, waits before it posts again, or asks the next model.
Post(code) ==
    /\ phase = "posting"
    /\ posts' = Append(posts, <<index, code>>)
    /\ CASE code # "ok" /\ MayRetry(code) ->
              /\ phase' = "backoff"
              /\ UNCHANGED <<index, attempt, result>>
         [] code # "ok" /\ ~MayRetry(code) /\ NeedsModelFallback(code) /\ HasNextModel ->
              /\ index' = index + 1
              /\ attempt' = 0
              /\ UNCHANGED <<phase, result>>
         [] OTHER ->
              /\ Finish(code)
              /\ UNCHANGED <<index, attempt>>
    /\ UNCHANGED <<configured, preferred, models>>

\* Mutation of Retry: the delay before the last attempt leads nowhere.
RetryStuck ==
    /\ phase = "backoff"
    /\ attempt + 1 < MaxRetries
    /\ phase' = "posting"
    /\ attempt' = attempt + 1
    /\ UNCHANGED <<configured, preferred, models, index, result, posts>>

\* The delay before the next attempt is over.
Retry ==
    /\ phase = "backoff"
    /\ phase' = "posting"
    /\ attempt' = attempt + 1
    /\ UNCHANGED <<configured, preferred, models, index, result, posts>>

\* The task that awaits the call is cancelled (the process shuts down).
Cancel ==
    /\ phase \in {"posting", "backoff"}
    /\ phase' = "cancelled"
    /\ UNCHANGED <<configured, preferred, models, index, attempt, result, posts>>

Next == Begin \/ (\E code \in PostCodes : Post(code)) \/ Retry \/ Cancel

Spec == Init /\ [][Next]_vars

\* Posts have a timeout and sleeps end: a call under way goes on.
Fairness == WF_vars((\E code \in PostCodes : Post(code)) \/ Retry)

FairSpec == Spec /\ Fairness

-----------------------------------------------------------------------------
(* Correctness                                                             *)

PostsTo(i) == {n \in 1..Len(posts) : posts[n][1] = i}

\* No model gets more than MaxRetries + 1 posts in a call, and they follow one another.
PostsBounded ==
    \A i \in 1..Len(models) : \A a, b \in PostsTo(i) :
        /\ b - a <= MaxRetries
        /\ \A n \in a..b : posts[n][1] = i

\* The traffic of a call is bounded, and its record is in order.
CallBounded == TypeOK /\ PostsBounded

\* "Retrying a rate-limited request multiplies traffic": whatever ends a model's turn
\* without being transient is the last post to that model, for each of its attempts.
LastToModel ==
    \A n \in 1..(Len(posts) - 1) :
        ~ posts[n][2] \in {"timeout", "connection_failure", "http_5xx"}
        => posts[n + 1][1] > posts[n][1]

\* "Authentication errors must not be retried because every model uses the same key":
\* a rejected key, and an answer, are the last post of the call.
LastOfCall ==
    \A n \in 1..Len(posts) :
        posts[n][2] \in {"ok", "invalid_api_key", "invalid_response"} => n = Len(posts)

\* A verdict is not appealed: no post follows what ends a model's turn or the call.  Of a
\* rate limit providers/base.py:41-42 says so, and docs/WEB_VERCEL.md:43 the opposite: see
\* RateLimitBacksOff.
VerdictsStand == LastToModel /\ LastOfCall

\* docs/WEB_VERCEL.md:43: for passing network errors, timeouts, 429 and 5xx the provider has
\* a few short retries with backoff; so while retries are left, 429 is waited out.
RateLimitBacksOff == [][Post("rate_limit") /\ attempt < MaxRetries => phase' = "backoff"]_vars

\* A call fails only with what its last post came to, and not before every model was
\* tried when that failure is one for which another model may be asked.
FailsLast ==
    phase = "done" /\ posts # <<>> =>
        /\ result = posts[Len(posts)][2]
        /\ NeedsModelFallback(result) => posts[Len(posts)][1] = Len(models)

\* The call is one pass over the configured models in their order, none of them twice.
Fallback == INSTANCE ModelFallback WITH
    turn <- index,
    outcome <- IF phase # "done" THEN "open" ELSE IF result = "ok" THEN "answered" ELSE "failed"
FallbackSpec == Fallback!Spec

\* Every call ends: no sequence of failures keeps it going.
CallEnds == phase # "idle" ~> phase \in {"done", "cancelled"}
=============================================================================
