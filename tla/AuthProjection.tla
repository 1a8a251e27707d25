--------------------------- MODULE AuthProjection ---------------------------
(***************************************************************************)
(* What an observer makes of the credential file and the refresh journal   *)
(* (projection.py), and what `auth status' and the backend readiness probe *)
(* say on top of it (api.py), as operators.                                *)
(***************************************************************************)
EXTENDS RefreshPolicy

(* The projections, by name.  The unreadable credential files that         *)
(* project_auth tells apart are all errors to its callers, like "absent".  *)
Projections ==
  {"ready", "reserved", "in_progress", "recovery_available", "recovering", "exhausted",
   "reimport", "absent", "journal_corrupt"}

(* Mutant of ProjectMatching: a scheduled recovery is not told apart.      *)
ProjectMatchingUnscheduled(j) ==
  CASE j.state = "RESERVED"  -> "reserved"
    [] j.state = "REQUESTED" -> "in_progress"
    [] j.state = "ROTATED"   -> "recovery_available"
    [] OTHER -> "reimport"

(* _project_matching_rotation_state                                         *)
ProjectMatching(j) ==
  CASE j.state = "RESERVED"  -> "reserved"
    [] j.state = "REQUESTED" -> "in_progress"
    [] j.state = "ROTATED"   -> "recovery_available"
    [] j.state = "OUTCOME_UNKNOWN" /\ j.attempt.cont \in Lanes  -> "recovering"
    [] j.state = "OUTCOME_UNKNOWN" /\ j.attempt.cont = "stop"   -> "exhausted"
    [] OTHER -> "reimport"

ProjectLoaded(credential, j) ==
  IF j.state = "ABSENT" THEN "ready"
  ELSE IF Corrupt(j) THEN "journal_corrupt"
  ELSE IF j.source # credential.revision THEN "ready"
  ELSE ProjectMatching(Loaded(j))

ProjectAuth(credential, j) ==
  IF credential.kind = "absent" THEN "absent" ELSE ProjectLoaded(credential, j)

(* network_credential gives a credential rather than an error.             *)
NetworkCredential(projection) ==
  projection \in {"ready", "reserved", "in_progress", "recovering", "exhausted", "reimport"}

(* refresh_projection_status(...).reauth_required.                         *)
ReauthRequired(projection) ==
  projection \in Projections
                 \ {"ready", "reserved", "in_progress", "recovery_available", "recovering"}

(* What a GET of /auth/me came back with.                                  *)
Answers == {"ok", "unauthenticated", "unavailable"}

(* `auth status': authenticated, and whether to import again.              *)
AuthStatus(projection, answer) ==
  IF ~NetworkCredential(projection) THEN [authenticated |-> FALSE, reauth |-> TRUE]
  ELSE [authenticated |-> answer = "ok",
        reauth |-> ReauthRequired(projection) \/ answer = "unauthenticated"]

(* backend_readiness_probe: only an unusable store bypasses the grace.     *)
ReadinessProbe(projection, answer) ==
  IF ~NetworkCredential(projection)
  THEN [ready |-> FALSE, reauth |-> TRUE, bypass |-> TRUE]
  ELSE [ready |-> answer = "ok",
        reauth |-> ReauthRequired(projection) \/ answer = "unauthenticated", bypass |-> FALSE]
=============================================================================
