----------------------------- MODULE CloudRequest -----------------------------
(***************************************************************************)
(* One request to the Cursor REST API (adapters/cursor_cloud.py): how an     *)
(* error response is classified (_ERROR_CATALOG, _map_http_error) and how    *)
(* the quota-aware loop waits and retries (_retrying_request).  The message  *)
(* of a response is the pattern of the catalog that it matches, if any.      *)
(***************************************************************************)
EXTENDS Integers, Sequences, FiniteSets

CONSTANTS
    MaxRetries,         \* BackoffConfig.max_retries
    BaseBackoff,        \* base_backoff_ms
    MaxBackoff,         \* max_backoff_ms
    ServerWaits         \* what Retry-After may ask for

ASSUME BackoffAssumption ==
    /\ MaxRetries \in Nat /\ BaseBackoff \in Nat /\ MaxBackoff \in Nat
    /\ ServerWaits \subseteq Nat

\* A fact of arithmetic, which the proofs cite: the provers know nothing of powers.
ASSUME PowersAssumption == \A k \in 0..MaxRetries : 2^k \in Nat

VARIABLES
    reqPc, attempt,
    waited,             \* the delays slept, in order
    response,           \* the last response
    bracket,            \* the events about the quota, in order
    error               \* what the caller gets

requestVars == <<reqPc, attempt, waited, response, bracket, error>>

-----------------------------------------------------------------------------
(* The catalog, in its order *)

Entry(http, codes, pattern, class, retry) ==
    [http |-> http, codes |-> codes, pattern |-> pattern, class |-> class, retry |-> retry]

AccessErrors ==
    <<Entry({401}, {"unauthorized"}, "", "auth", FALSE),
      Entry({401}, {"api_key_not_found"}, "", "key_revoked", FALSE),
      Entry({403}, {"plan_required"}, "", "plan_required", FALSE),
      Entry({403}, {"role_forbidden"}, "", "auth", FALSE),
      Entry({403}, {"feature_unavailable"}, "", "feature", FALSE),
      Entry({404}, {"agent_not_found", "run_not_found"}, "", "not_found", FALSE),
      Entry({409}, {"agent_busy"}, "", "conflict", FALSE),
      Entry({409}, {"agent_archived"}, "", "conflict", FALSE),
      Entry({409}, {"run_not_cancellable"}, "", "conflict", FALSE),
      Entry({410}, {"stream_expired"}, "", "stream_expired", FALSE)>>

IntegrationErrors ==
    <<Entry({422, 400, 403}, {"validation_error", "feature_unavailable"}, "allow list",
            "repo_allowlist", FALSE),
      Entry({422, 403}, {"feature_unavailable"}, "app missing", "app_missing", FALSE),
      Entry({422, 403}, {"feature_unavailable", "role_forbidden"}, "permission",
            "app_permission", FALSE),
      Entry({400}, {"validation_error"}, "branch", "app_missing", FALSE),
      Entry({400}, {"repository_required"}, "", "validation", FALSE),
      Entry({400}, {"pr_resolution_failed"}, "", "app_missing", FALSE)>>

OtherErrors ==
    <<Entry({400, 422}, {"validation_error", "missing_body"}, "", "validation", FALSE),
      Entry({429}, {"rate_limit_exceeded"}, "", "rate_limit", TRUE),
      Entry({500, 502, 503, 504}, {"internal_error", "upstream_error"}, "", "generic", TRUE)>>

Catalog == AccessErrors \o IntegrationErrors \o OtherErrors

Codes == UNION {Catalog[i].codes : i \in DOMAIN Catalog} \cup {"", "unknown", "quota_exceeded"}

Messages == {Catalog[i].pattern : i \in DOMAIN Catalog} \cup {"plain"}

Responses ==
    [status : {200, 400, 401, 403, 404, 408, 409, 410, 422, 429, 500, 501, 503},
     code : Codes, msg : Messages, retryAfter : ServerWaits \cup {-1}]

NoResponse == [status |-> 0, code |-> "", msg |-> "", retryAfter |-> -1]

Matches(e, r) ==
    /\ r.status \in e.http
    /\ r.code # "" => r.code \in e.codes
    /\ (e.pattern # "" /\ r.msg # "") => r.msg = e.pattern

Score(e, r) == 1 + (IF r.code # "" THEN 10 ELSE 0)
                 + (IF e.pattern # "" /\ r.msg # "" THEN 5 ELSE 0)

\* The entries that match, the best score first, then the order of the catalog.
Candidates(r) == {i \in DOMAIN Catalog : Matches(Catalog[i], r)}

Best(r) ==
    CHOOSE i \in Candidates(r) : \A j \in Candidates(r) :
        \/ Score(Catalog[i], r) > Score(Catalog[j], r)
        \/ Score(Catalog[i], r) = Score(Catalog[j], r) /\ i <= j

Uncataloged(r) == [class |-> "generic", retry |-> r.status >= 500]

\* Variant: an error that the catalog does not know may be retried.
MapHttpError_Hopeful(r) ==
    IF Candidates(r) = {} THEN [class |-> "generic", retry |-> TRUE]
    ELSE [class |-> Catalog[Best(r)].class, retry |-> Catalog[Best(r)].retry]

\* _map_http_error: a 422 whose match is weak is a validation error.
MapHttpError(r) ==
    IF r.status = 422 /\ (Candidates(r) = {} \/ Score(Catalog[Best(r)], r) < 5)
    THEN [class |-> "validation", retry |-> FALSE]
    ELSE IF Candidates(r) = {} THEN Uncataloged(r)
    ELSE [class |-> Catalog[Best(r)].class, retry |-> Catalog[Best(r)].retry]

-----------------------------------------------------------------------------
(* _retrying_request *)

Jitter(ms) == {(ms * (100 - 25)) \div 100, ms, (ms * (100 + 25)) \div 100}

\* _compute_backoff; asked is the parsed Retry-After, -1 if there is none.
Backoff(k, asked) ==
    LET capped(ms) == IF ms < MaxBackoff THEN ms ELSE MaxBackoff
    IN  IF asked >= 0 THEN {capped(asked)} ELSE Jitter(capped(BaseBackoff * 2^k))

QuotaLimited(r) == r.status = 429 \/ (r.status = 409 /\ r.code = "quota_exceeded")

NoError == [class |-> "none", retry |-> FALSE]

RequestTypeOK ==
    /\ reqPc \in {"asking", "answered", "returned", "raised"}
    /\ attempt \in 0..MaxRetries
    /\ Len(waited) = attempt /\ \A i \in 1..attempt : waited[i] \in Nat
    /\ response \in Responses \cup {NoResponse}
    /\ \A i \in DOMAIN bracket :
          bracket[i] \in {"queued_quota_exceeded", "exit success", "exit exhausted"}
    /\ error.retry \in BOOLEAN

RequestInit ==
    /\ reqPc = "asking" /\ attempt = 0 /\ waited = <<>> /\ response = NoResponse
    /\ bracket = <<>> /\ error = NoError

Raise(e, note) ==
    /\ reqPc' = "raised" /\ error' = e /\ bracket' = bracket \o note
    /\ UNCHANGED <<attempt, waited, response>>

\* A response, or a timeout or a broken connection, which is not tried again.
Ask ==
    /\ reqPc = "asking"
    /\ \/ /\ reqPc' = "answered" /\ response' \in Responses
          /\ UNCHANGED <<attempt, waited, bracket, error>>
       \/ /\ reqPc' = "raised" /\ response' = NoResponse
          /\ error' = [class |-> "transport", retry |-> TRUE]
          /\ UNCHANGED <<attempt, waited, bracket>>

Succeed ==
    /\ reqPc = "answered" /\ response.status < 400
    /\ reqPc' = "returned"
    /\ bracket' = IF attempt > 0 THEN Append(bracket, "exit success") ELSE bracket
    /\ UNCHANGED <<attempt, waited, response, error>>

\* Variant: one attempt more.
WaitAndRetry_OnceMore ==
    /\ reqPc = "answered" /\ QuotaLimited(response) /\ attempt <= MaxRetries
    /\ \E ms \in Backoff(attempt, response.retryAfter) : waited' = Append(waited, ms)
    /\ attempt' = attempt + 1 /\ reqPc' = "asking" /\ response' = NoResponse
    /\ UNCHANGED <<bracket, error>>

WaitAndRetry ==
    /\ reqPc = "answered" /\ QuotaLimited(response) /\ attempt < MaxRetries
    /\ \E ms \in Backoff(attempt, response.retryAfter) : waited' = Append(waited, ms)
    /\ attempt' = attempt + 1 /\ reqPc' = "asking"
    /\ bracket' = IF bracket = <<>> THEN <<"queued_quota_exceeded">> ELSE bracket
    /\ response' = NoResponse /\ UNCHANGED error

GiveUp ==
    /\ reqPc = "answered" /\ QuotaLimited(response) /\ attempt = MaxRetries
    /\ Raise(MapHttpError(response), <<"exit exhausted">>)

RaiseOther ==
    /\ reqPc = "answered" /\ response.status >= 400 /\ ~QuotaLimited(response)
    /\ Raise(MapHttpError(response), <<>>)

RequestOver == reqPc \in {"returned", "raised"} /\ UNCHANGED requestVars

RequestNext == Ask \/ Succeed \/ WaitAndRetry \/ GiveUp \/ RaiseOther \/ RequestOver

RequestSpec == RequestInit /\ [][RequestNext]_requestVars

-----------------------------------------------------------------------------
(* Properties *)

\* What the poll loop takes as a reason to go on and not to fail the task: a server
\* error, whatever its code and its text, always, another error than a rate limit
\* never.
RetryOnlyWhatMayPass ==
    (reqPc = "raised" /\ response.status # 0) =>
        /\ response.status >= 500 => error.retry
        /\ error.retry => response.status >= 500 \/ response.status = 429

\* USER_GUIDE.md:1952: one queued_quota_exceeded and a queue_exit at the end of the
\* sequence.
BracketIsClosed ==
    (reqPc \in {"returned", "raised"} /\ bracket # <<>>) => Len(bracket) = 2
=============================================================================
