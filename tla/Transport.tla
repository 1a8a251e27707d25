------------------------------ MODULE Transport ------------------------------
(***************************************************************************)
(* HTTP requests: the endpoint table with its retry profiles               *)
(* (contract.py), the statuses each endpoint expects (http.py), the retry  *)
(* loop's decisions (transport.py) and the reading of an answer            *)
(* (client.py), as operators.                                              *)
(***************************************************************************)
EXTENDS Integers, Sequences

CONSTANTS
    RetryTotal,         \* retries after the first attempt
    BackoffFactor,      \* first delay
    MaxDelay,           \* cap on one delay
    Jitter,             \* largest jitter
    RespectRetryAfter   \* whether a Retry-After header replaces the backoff

ASSUME TransportAssumption ==
    /\ RetryTotal \in Nat /\ BackoffFactor \in Nat /\ MaxDelay \in Nat /\ Jitter \in Nat
    /\ RespectRetryAfter \in BOOLEAN

Profiles == {"READ", "IDEMPOTENT_MUTATION", "UNSAFE_MUTATION", "AUTH_REFRESH", "SAFE_PROBE"}

CanRetryAny(profile) == TRUE

CanRetry(profile) == profile \in {"READ", "SAFE_PROBE", "IDEMPOTENT_MUTATION"}

(* The account, project and repository endpoints.                          *)
PortfolioEndpoints ==
    [access |-> "READ", git_credentials |-> "READ", gitlab_projects |-> "READ",
     user_preferences_get |-> "READ", user_preferences_put |-> "IDEMPOTENT_MUTATION",
     projects |-> "READ", project_detail |-> "READ", project_active_runs |-> "READ",
     fleet_project_create |-> "UNSAFE_MUTATION", ux_project_create |-> "UNSAFE_MUTATION",
     project_rename |-> "IDEMPOTENT_MUTATION",
     ux_project_delete |-> "IDEMPOTENT_MUTATION", fleet_project_delete |-> "IDEMPOTENT_MUTATION",
     repo_transfer_preflight |-> "SAFE_PROBE", repo_transfer |-> "UNSAFE_MUTATION",
     catalog |-> "READ", runbook |-> "READ", project_repos_add |-> "UNSAFE_MUTATION",
     project_repo_delete |-> "IDEMPOTENT_MUTATION",
     project_repo_connection |-> "IDEMPOTENT_MUTATION"]

(* The endpoints of audits, their subscriptions and improvement jobs.      *)
AuditEndpoints ==
    [repo_active_runs |-> "READ", repo_audit_rerun_state |-> "READ", repo_task_links |-> "READ",
     task_detail |-> "READ", repo_audit_runs |-> "UNSAFE_MUTATION",
     repo_audit_summary |-> "READ", repo_audit_reports |-> "READ",
     audit_email_preferences_get |-> "READ",
     audit_email_preferences_put |-> "IDEMPOTENT_MUTATION",
     audit_auto_runs |-> "READ", audit_auto_run_put |-> "IDEMPOTENT_MUTATION",
     improvement_jobs |-> "READ", improvement_job_put |-> "IDEMPOTENT_MUTATION"]

Endpoints == DOMAIN PortfolioEndpoints \cup DOMAIN AuditEndpoints

ProfileOf(endpoint) ==
    IF endpoint \in DOMAIN PortfolioEndpoints
    THEN PortfolioEndpoints[endpoint] ELSE AuditEndpoints[endpoint]

ExpectedStatuses(endpoint) ==
    CASE endpoint \in {"fleet_project_create", "ux_project_create", "project_repos_add",
                       "repo_audit_runs"} -> {201}
      [] endpoint \in {"ux_project_delete", "fleet_project_delete", "project_repo_delete"} -> {204}
      [] endpoint = "repo_transfer_preflight" -> {200, 204}
      [] OTHER -> {200}

(* run_api_no_content takes an empty body, run_api_request does not.       *)
MayBeEmpty(endpoint) ==
    endpoint \in {"ux_project_delete", "fleet_project_delete", "project_repo_delete",
                  "repo_transfer_preflight"}

----------------------------------------------------------------------------
(* An answer: status 0 is a transport error (httpx.HTTPError); a body is a *)
(* JSON object, empty, or something else.                                  *)
NoHeader == -1

RetryableStatuses == {429, 500, 502, 503, 504}

Retryable(answer) == answer.status = 0 \/ answer.status \in RetryableStatuses

AttemptLimit(profile) == IF CanRetry(profile) THEN RetryTotal + 1 ELSE 1

Retries(endpoint, answer, attempt) ==
    /\ Retryable(answer)
    /\ attempt < AttemptLimit(ProfileOf(endpoint))

Least(m, n) == IF m < n THEN m ELSE n

RetryDelayUncapped(answer, attempt, jitter) ==
    IF answer.after # NoHeader /\ RespectRetryAfter
    THEN answer.after
    ELSE Least(MaxDelay, Least(MaxDelay, BackoffFactor * 2 ^ (attempt - 1)) + jitter)

(* The delay before the attempt that follows `attempt'.                    *)
RetryDelay(answer, attempt, jitter) ==
    IF answer.after # NoHeader /\ RespectRetryAfter
    THEN Least(answer.after, MaxDelay)
    ELSE Least(MaxDelay, Least(MaxDelay, BackoffFactor * 2 ^ (attempt - 1)) + jitter)

(* raise_for_api_response_status and the decoding of the body: the request *)
(* returns, or raises an error of one of several codes.                    *)
Accepted(endpoint, answer) ==
    /\ answer.status \in ExpectedStatuses(endpoint)
    /\ answer.body = "object" \/ (answer.body = "empty" /\ MayBeEmpty(endpoint))
=============================================================================
