--------------------------- MODULE CommandsProofs ---------------------------
(***************************************************************************)
(* Every invariant of Commands that a run checks, proved for any number of *)
(* clients, projects, repositories, audits, commands and faults.           *)
(*                                                                         *)
(* IInv has three parts.  Shared and Settings: the service's state is      *)
(* typed, and complete enough that the update written last to a setting    *)
(* would be decided unchanged.  Coherent(c), for each client: its record   *)
(* agrees with what the service stored for it (Wrote), with the recon it   *)
(* was shown (Backing), and with the point it has come to.  Counters: what *)
(* was issued was asked for, and what was left half done was reported.     *)
(*                                                                         *)
(* Each action has one lemma (`...Step') that gives its effect and leaves  *)
(* the client's record in order; Kept says what the effect leaves to the   *)
(* other clients, and the `...Counts' lemmas keep the two accounts.        *)
(***************************************************************************)
EXTENDS Commands, FiniteSetTheorems, WellFoundedInduction, TLAPS

(* The command after one more attempt, d seconds later.                    *)
Retried(c, d) == [cl[c] EXCEPT !.attempt = @ + 1, !.waited = @ + d]

(* What a request comes to: it succeeded; it failed for good, whether the  *)
(* service applied it or not; or its profile allows one more attempt.  It  *)
(* is all the proofs below need to know of the transport.                  *)
Answered(c, e, allowed, Apply, next, failed) ==
    /\ \/ allowed /\ Apply /\ Become(c, next)
       \/ ((allowed /\ Apply) \/ NoEffect) /\ Become(c, failed)
       \/ /\ (allowed /\ Apply) \/ NoEffect
          /\ CanRetry(ProfileOf(e)) /\ cl[c].attempt <= RetryTotal
          /\ \E d \in 0 .. MaxDelay : Become(c, Retried(c, d))
    /\ faults' = faults \/ Fault
    /\ UNCHANGED <<catalog, baseline, commands, creates, publishes>>

(* A power of two is a natural number, although no induction over numbers  *)
(* is at hand: it is the cardinality of a power set.                       *)
LEMMA Power == ASSUME NEW n \in Nat PROVE 2 ^ n \in Nat
  <1>1. IsFiniteSet(1 .. n) /\ Cardinality(1 .. n) = n
    BY FS_Interval
  <1>2. IsFiniteSet(SUBSET (1 .. n)) /\ Cardinality(SUBSET (1 .. n)) = 2 ^ n
    BY <1>1, FS_SUBSET
  <1> QED BY <1>2, FS_CardinalityType

(* Whatever Retry-After a broken answer carries and however many attempts  *)
(* there were, one delay is at most MaxDelay (_RetryWait).                 *)
LEMMA DelayBounded ==
    ASSUME NEW e, NEW a \in Broken(e), NEW n \in Nat \ {0}, NEW j \in {0, Jitter}
    PROVE  RetryDelay(a, n, j) \in 0 .. MaxDelay
  <1>1. 2 ^ (n - 1) \in Nat
    BY Power
  <1>2. BackoffFactor * 2 ^ (n - 1) \in Nat
    BY <1>1, TransportAssumption
  <1>3. a.after \in {NoHeader, MaxDelay + 1}
    <2>1. [Fine(e) EXCEPT !.body = "other"].after = NoHeader
      BY DEF Fine
    <2>2. \/ a = [status |-> 0, after |-> NoHeader, body |-> "other"]
          \/ a = [status |-> 503, after |-> MaxDelay + 1, body |-> "other"]
          \/ a = [status |-> 403, after |-> NoHeader, body |-> "object"]
          \/ a = [Fine(e) EXCEPT !.body = "other"]
      BY DEF Broken
    <2>3. CASE a = [status |-> 0, after |-> NoHeader, body |-> "other"]
      BY <2>3
    <2>4. CASE a = [status |-> 503, after |-> MaxDelay + 1, body |-> "other"]
      BY <2>4
    <2>5. CASE a = [status |-> 403, after |-> NoHeader, body |-> "object"]
      BY <2>5
    <2>6. CASE a = [Fine(e) EXCEPT !.body = "other"]
      BY <2>1, <2>6
    <2> QED BY <2>2, <2>3, <2>4, <2>5, <2>6
  <1> QED BY <1>2, <1>3, TransportAssumption DEF RetryDelay, Least, NoHeader

(* A sound answer is accepted, a refusal and a broken answer are not, and  *)
(* a refusal is not retried.                                               *)
LEMMA AnswersDisjoint ==
    ASSUME NEW e \in Endpoints, NEW n \in Nat \ {0}
    PROVE  /\ Accepted(e, Fine(e)) /\ Fine(e) \notin Broken(e)
           /\ Refused # Fine(e) /\ Refused \notin Broken(e)
           /\ ~Accepted(e, Refused) /\ ~Retries(e, Refused, n)
           /\ \A a \in Broken(e) : ~Accepted(e, a)
  <1>1. ExpectedStatuses(e) \in {{200}, {201}, {204}, {200, 204}}
    BY DEF ExpectedStatuses
  <1>2. PICK x \in ExpectedStatuses(e) : Fine(e).status = x /\ Fine(e).body = IF MayBeEmpty(e) THEN "empty" ELSE "object"
    BY <1>1 DEF Fine
  <1> QED BY <1>1, <1>2 DEF Accepted, Broken, Refused, Retries, Retryable, RetryableStatuses, Fine, NoHeader

(* Every attempt of a request comes to one of the three ends of Answered.  *)
LEMMA RequestAnswered ==
    ASSUME NEW c \in Client, NEW e \in Endpoints, NEW STATE allowed, NEW ACTION A,
           NEW STATE next, NEW STATE failed, cl[c].attempt \in Nat \ {0},
           Request(c, e, allowed, A, next, failed)
    PROVE  Answered(c, e, allowed, A, next, failed)
  <1>1. PICK a \in {Fine(e), Refused} \cup Broken(e), j \in {0, Jitter} :
          /\ \/ a = Fine(e) /\ allowed /\ A /\ UNCHANGED faults
             \/ a = Refused /\ ~allowed /\ NoEffect /\ UNCHANGED faults
             \/ a \in Broken(e) /\ Fault /\ ((allowed /\ A) \/ NoEffect)
          /\ Become(c, IF Accepted(e, a) THEN next
                     ELSE IF Retries(e, a, cl[c].attempt)
                     THEN Retried(c, RetryDelay(a, cl[c].attempt, j))
                     ELSE failed)
          /\ UNCHANGED <<catalog, baseline, commands, creates, publishes>>
    BY DEF Request, Retried
  <1>2. CASE a = Fine(e)
    <2>1. Become(c, next)
      BY <1>1, <1>2, AnswersDisjoint
    <2>2. allowed /\ A /\ faults' = faults
      BY <1>1, <1>2, AnswersDisjoint
    <2> QED BY <1>1, <2>1, <2>2 DEF Answered
  <1>3. CASE a = Refused
    <2>1. Become(c, failed)
      BY <1>1, <1>3, AnswersDisjoint
    <2>2. NoEffect /\ faults' = faults
      BY <1>1, <1>3, AnswersDisjoint
    <2> QED BY <1>1, <2>1, <2>2 DEF Answered
  <1>4. CASE a \in Broken(e)
    <2>1. /\ (allowed /\ A) \/ NoEffect
          /\ Fault
          /\ ~Accepted(e, a)
      BY <1>1, <1>4, AnswersDisjoint
    <2>2. CASE ~Retries(e, a, cl[c].attempt)
      <3>1. Become(c, failed)
        BY <1>1, <2>1, <2>2
      <3> QED BY <1>1, <2>1, <3>1 DEF Answered
    <2>3. CASE Retries(e, a, cl[c].attempt)
      <3>1. Become(c, Retried(c, RetryDelay(a, cl[c].attempt, j)))
        BY <1>1, <2>1, <2>3
      <3>2. RetryDelay(a, cl[c].attempt, j) \in 0 .. MaxDelay
        BY <1>4, DelayBounded
      <3>3. CanRetry(ProfileOf(e)) /\ cl[c].attempt <= RetryTotal
        BY <2>3, TransportAssumption DEF Retries, AttemptLimit
      <3> QED BY <1>1, <2>1, <3>1, <3>2, <3>3 DEF Answered
    <2> QED BY <2>2, <2>3
  <1> QED BY <1>2, <1>3, <1>4

----------------------------------------------------------------------------
(* Repositories as project details return them.                            *)
Refs == [project : Project, name : Name \cup {None}, repo : Repo,
         connected : BOOLEAN, done : BOOLEAN]

(* A command has every field, so that an update of one changes nothing     *)
(* else.                                                                   *)
HasFields(w) ==
    /\ "kind" \in DOMAIN w /\ "pc" \in DOMAIN w /\ "args" \in DOMAIN w
    /\ "project" \in DOMAIN w /\ "target" \in DOMAIN w /\ "unread" \in DOMAIN w
    /\ "found" \in DOMAIN w /\ "todo" \in DOMAIN w /\ "plan" \in DOMAIN w
    /\ "k" \in DOMAIN w /\ "held" \in DOMAIN w /\ "creds" \in DOMAIN w
    /\ "total" \in DOMAIN w /\ "at" \in DOMAIN w /\ "seen" \in DOMAIN w
    /\ "pages" \in DOMAIN w /\ "keys" \in DOMAIN w /\ "sound" \in DOMAIN w
    /\ "change" \in DOMAIN w /\ "attempt" \in DOMAIN w /\ "waited" \in DOMAIN w
    /\ "result" \in DOMAIN w /\ "recon" \in DOMAIN w

(* Which kinds of command reach which requests; a command that is still    *)
(* running has no result.                                                  *)
KindOK(w) ==
    /\ w.kind \in AllKinds \cup {None} /\ w.result \in Results
    /\ w.pc # "idle" => w.result = None /\ w.kind \in AllKinds
    /\ w.pc \in {"catalog", "observe", "save"} => w.kind \in Batches \cup {"add", "recon"}
    /\ w.pc \in {"recon_status", "recon_start"} => w.kind \in {"add", "recon"}
    /\ w.pc \in {"settings", "apply"} => w.kind \in Batches

(* One delay per attempt so far: with the bound on the attempts this is    *)
(* what makes WaitBounded inductive.                                       *)
WaitOK(w) ==
    /\ w.attempt \in 1 .. RetryTotal + 1 /\ w.waited \in Nat
    /\ w.waited <= (w.attempt - 1) * MaxDelay

(* The arguments a running command was given.                              *)
ArgsOK(w) ==
    /\ w.kind = "create" => w.args.name \in Name
    /\ w.kind = "rename" => w.args.to \in Name
    /\ w.kind = "add" => w.args.repo \in Repo
    /\ w.kind \in Batches /\ w.pc # "idle" =>
         ValidUpdate(w.kind, w.args.update) /\ w.args.update \in Updates[w.kind]

(* Where a command has chosen the repository it works on.                  *)
TargetSet(w) ==
    \/ w.pc \in {"connect", "remove", "destination", "preflight", "move",
                 "recon_status", "recon_start"}
    \/ w.pc \in {"catalog", "observe", "save"} /\ w.kind \notin Batches
    \/ w.kind = "add" /\ w.result = "present"

(* Where a command has chosen the project it works on.                     *)
ProjectSet(w) ==
    \/ w.pc \in {"ux_create", "rename", "ux_delete", "fleet_delete", "add", "connect",
                 "preflight", "move"}
    \/ w.pc = "detail" /\ w.kind \in {"add", "delete"}

(* Projects, repositories and audits a command holds are ones that exist;  *)
(* an add works on the project and the repository it was given.            *)
RefsOK(w) ==
    /\ w.unread \subseteq Project /\ w.found \subseteq Refs
    /\ TargetSet(w) => w.target \in Refs
    /\ ProjectSet(w) => w.project \in Project
    /\ w.kind = "add" /\ w.pc = "projects" => w.found = {}
    /\ w.kind = "add" /\ w.pc = "detail" =>
         w.unread \subseteq {w.project} /\ \A t \in w.found : t.project = w.project
    /\ w.kind = "add" /\ w.pc = "connect" =>
         w.target.project = w.project /\ w.target.repo = w.args.repo
    /\ w.keys \subseteq AuditKey /\ w.todo \subseteq Refs \X SUBSET AuditKey
    /\ w.pc = "settings" => w.todo # {}

(* A sequence, over whatever it holds.                                     *)
IsSeq(s) == s \in Seq({s[i] : i \in DOMAIN s})

(* A value that, once stored, satisfies the update it was planned for: to  *)
(* give the same update again decides `unchanged'.                         *)
Lasting(kind, u, v) ==
    /\ kind \in {"schedules", "auto_time"} => CompleteSchedule(v)
    /\ kind = "schedules" => DecideSchedule(v, u).status = "unchanged"
    /\ kind = "jobs" => CompleteJob(v) /\ DecideJob(v, u).status = "unchanged"
    /\ kind = "email" => v = u

(* A decision of a plan: it repeats nothing for nothing, and what it       *)
(* writes is complete and lasting.                                         *)
GoodEntry(kind, u, d) ==
    /\ d.slot \in Slots /\ d.status \in {"changed", "unchanged"}
    /\ d.repeat => d.status = "unchanged"
    /\ d.status = "changed" => Lasting(kind, u, d.value)

(* The plan of a batch, and the write it is at.                            *)
PlanOK(w) ==
    /\ IsSeq(w.plan)
    /\ \A i \in DOMAIN w.plan : GoodEntry(w.kind, w.args.update, w.plan[i])
    /\ w.pc \notin {"settings", "apply", "idle"} => w.plan = <<>>
    /\ w.pc = "apply" => w.k \in DOMAIN w.plan /\ w.plan[w.k].status = "changed"
    /\ w.held \subseteq DOMAIN w.plan

(* Credentials are read in pages that add up; the pages of GitLab projects *)
(* ascend.                                                                 *)
DiscoverOK(w) ==
    /\ w.creds \subseteq GitLabId /\ w.at \in Nat
    /\ w.pc = "credentials" => w.at <= Cardinality(w.creds) /\ w.pages = <<>>
    /\ w.pc = "gitlab" =>
         /\ w.pages \in Seq(Nat) /\ \A i \in DOMAIN w.pages : w.pages[i] < w.at
         /\ Cardinality(w.creds) >= w.total

(* What holds of a command by itself.                                      *)
Local(w) ==
    /\ HasFields(w) /\ KindOK(w) /\ WaitOK(w) /\ ArgsOK(w)
    /\ RefsOK(w) /\ PlanOK(w) /\ DiscoverOK(w)

(* The service and the catalog keep their types; a project that Fleet has  *)
(* was issued.                                                             *)
Shared ==
    /\ DOMAIN cl = Client /\ DOMAIN written = Client /\ DOMAIN taken = Client
    /\ fleet \in [Project -> Name \cup {None}] /\ ux \in [Project -> Name \cup {None}]
    /\ member \in [Project \X Repo -> {"absent", "added", "connected"}]
    /\ recon \in [Project \X Repo -> {"never", "running", "done"}]
    /\ issued \subseteq Project
    /\ \A p \in Project : fleet[p] # None => p \in issued
    /\ catalog.audits \subseteq AuditKey /\ catalog.sound \in BOOLEAN

(* A command that ends, or is ended, leaves a record in order.             *)
LEMMA EndLocal ==
    ASSUME NEW c \in Client, Local(cl[c]), NEW r \in Results,
           r = "present" => cl[c].kind # "add"
    PROVE  Local(End(c, r))
  <1> DEFINE v == End(c, r)
  <1>1. /\ HasFields(v)
        /\ v.kind = cl[c].kind /\ v.args = cl[c].args /\ v.target = cl[c].target
        /\ v.plan = cl[c].plan /\ v.held = cl[c].held /\ v.pc = "idle" /\ v.result = r
        /\ v.unread = {} /\ v.found = {} /\ v.todo = {} /\ v.keys = {} /\ v.creds = {}
        /\ v.at = 0 /\ v.attempt = 1 /\ v.waited = 0
    BY DEF End, Idle, HasFields
  <1> HIDE DEF v
  <1>2. KindOK(v)
    BY <1>1 DEF Local, KindOK, Batches, AllKinds
  <1>3. WaitOK(v)
    BY <1>1, TransportAssumption DEF WaitOK
  <1>4. ArgsOK(v)
    BY <1>1 DEF Local, ArgsOK
  <1>5. RefsOK(v)
    BY <1>1 DEF Local, RefsOK, TargetSet, ProjectSet
  <1>6. PlanOK(v)
    BY <1>1 DEF Local, PlanOK
  <1>7. DiscoverOK(v)
    BY <1>1 DEF Local, DiscoverOK
  <1> QED BY <1>1, <1>2, <1>3, <1>4, <1>5, <1>6, <1>7 DEF Local, v

(* An attempt that is repeated leaves the record in order and pays its     *)
(* delay from the attempts left.                                           *)
LEMMA RetriedLocal ==
    ASSUME NEW c \in Client, Local(cl[c]), NEW d \in 0 .. MaxDelay, cl[c].attempt <= RetryTotal
    PROVE  Local(Retried(c, d))
  <1> DEFINE v == Retried(c, d)
  <1>1. /\ HasFields(v)
        /\ v.kind = cl[c].kind /\ v.args = cl[c].args /\ v.target = cl[c].target
        /\ v.project = cl[c].project
        /\ v.plan = cl[c].plan /\ v.held = cl[c].held /\ v.k = cl[c].k
        /\ v.pc = cl[c].pc /\ v.result = cl[c].result
        /\ v.unread = cl[c].unread /\ v.found = cl[c].found /\ v.todo = cl[c].todo
        /\ v.keys = cl[c].keys /\ v.creds = cl[c].creds /\ v.total = cl[c].total
        /\ v.at = cl[c].at /\ v.pages = cl[c].pages
        /\ v.attempt = cl[c].attempt + 1 /\ v.waited = cl[c].waited + d
    BY DEF Retried, HasFields, Local
  <1> HIDE DEF v
  <1>2. KindOK(v)
    BY <1>1 DEF Local, KindOK
  <1>3. WaitOK(v)
    BY <1>1, TransportAssumption DEF WaitOK, Local
  <1>4. ArgsOK(v)
    BY <1>1 DEF Local, ArgsOK
  <1>5. RefsOK(v)
    BY <1>1 DEF Local, RefsOK, TargetSet, ProjectSet
  <1>6. PlanOK(v)
    BY <1>1 DEF Local, PlanOK
  <1>7. DiscoverOK(v)
    BY <1>1 DEF Local, DiscoverOK
  <1> QED BY <1>1, <1>2, <1>3, <1>4, <1>5, <1>6, <1>7 DEF Local, v

(* The slots that the first decisions of a plan, up to `last', write.      *)
ChangedUpTo(plan, last) ==
    {plan[i].slot : i \in {i \in DOMAIN plan : i <= last /\ plan[i].status = "changed"}}

(* How the plan of a batch and what the service stored for it relate, at   *)
(* every point of execute_batch.  A write under way may or may not have    *)
(* been stored.                                                            *)
Wrote(w, S) ==
    /\ S \subseteq Slots
    /\ w.pc \notin {"apply", "idle"} => S = {}
    /\ w.pc = "apply" =>
         ChangedUpTo(w.plan, w.k - 1) \subseteq S /\ S \subseteq ChangedUpTo(w.plan, w.k)
    /\ w.result = "completed" => S = ChangedUpTo(w.plan, Len(w.plan))
    /\ w.result \in {"partial", "failed"} /\ w.kind \in Batches =>
         ChangedUpTo(w.plan, w.k - 1) \subseteq S /\ S \subseteq ChangedUpTo(w.plan, w.k)

(* Recon ran or runs for a repository, unless it was taken away or moved.  *)
Backed(R, T, t) == R[<<t.project, t.repo>>] # "never" \/ <<t.project, t.repo>> \in T

(* What repo add relies on: whatever it was told is done is backed, from   *)
(* project details to the report.                                          *)
Backing(w, R, T) ==
    w.kind = "add" =>
        /\ \A t \in w.found : t.done => Backed(R, T, t)
        /\ TargetSet(w) /\ w.pc # "idle" /\ w.target.done => Backed(R, T, w.target)
        /\ w.result = "present" /\ w.recon # "failed" => Backed(R, T, w.target)

(* The invariant of one command, over what was written for it (S), the     *)
(* recon states (R) and what others took since (T).                        *)
Sound(w, S, R, T) == Local(w) /\ Wrote(w, S) /\ Backing(w, R, T)

(* Ending preserves the invariant when the result fits what was written:   *)
(* `completed' before any plan, `partial' and `failed' at a write.         *)
LEMMA EndSound ==
    ASSUME NEW c \in Client, NEW r \in Results, NEW S, NEW R, NEW T, Sound(cl[c], S, R, T),
           \/ r \notin {"present", "completed", "partial", "failed"}
           \/ r = "completed" /\ cl[c].pc \notin {"settings", "apply", "idle"}
           \/ r \in {"partial", "failed"} /\ cl[c].pc = "apply"
    PROVE  Sound(End(c, r), S, R, T) /\ End(c, r).kind = cl[c].kind /\ End(c, r).result = r
  <1> DEFINE v == End(c, r)
  <1>1. Local(v)
    BY EndLocal DEF Sound
  <1>2. /\ v.kind = cl[c].kind /\ v.plan = cl[c].plan /\ v.k = cl[c].k /\ v.pc = "idle"
        /\ v.result = r /\ v.found = {}
    BY DEF End, Idle
  <1>3. Backing(v, R, T)
    BY <1>2 DEF Backing
  <1>4. CASE r = "completed"
    <2>1. cl[c].plan = <<>> /\ S = {}
      BY <1>4 DEF Sound, Local, PlanOK, Wrote
    <2>2. ChangedUpTo(<<>>, Len(<<>>)) = {}
      BY DEF ChangedUpTo
    <2> QED BY <1>1, <1>2, <1>3, <1>4, <2>1, <2>2 DEF Sound, Wrote
  <1>5. CASE r \in {"partial", "failed"}
    BY <1>1, <1>2, <1>3, <1>5 DEF Sound, Wrote
  <1>6. CASE r \notin {"present", "completed", "partial", "failed"}
    BY <1>1, <1>2, <1>3, <1>6 DEF Sound, Wrote
  <1> QED BY <1>4, <1>5, <1>6

(* One more attempt preserves the invariant.                               *)
LEMMA RetriedSound ==
    ASSUME NEW c \in Client, NEW d \in 0 .. MaxDelay, NEW S, NEW R, NEW T,
           Sound(cl[c], S, R, T), cl[c].attempt <= RetryTotal
    PROVE  Sound(Retried(c, d), S, R, T) /\ Retried(c, d).kind = cl[c].kind
  <1> DEFINE v == Retried(c, d)
  <1>1. Local(v)
    BY RetriedLocal DEF Sound
  <1>2. /\ v.kind = cl[c].kind /\ v.plan = cl[c].plan /\ v.k = cl[c].k /\ v.pc = cl[c].pc
        /\ v.result = cl[c].result /\ v.found = cl[c].found /\ v.target = cl[c].target
        /\ v.recon = cl[c].recon
    BY DEF Retried, Sound, Local, HasFields
  <1> HIDE DEF v
  <1>3. Backing(v, R, T)
    BY <1>2 DEF Backing, Sound, TargetSet
  <1>4. Wrote(v, S)
    BY <1>2 DEF Wrote, Sound
  <1> QED BY <1>1, <1>2, <1>3, <1>4 DEF Sound, v

(* A step of client c: only its command changes, into one in order; a      *)
(* command that raised is counted.                                         *)
Stepped(c) ==
    /\ cl' = [cl EXCEPT ![c] = cl'[c]]
    /\ Sound(cl'[c], written'[c], recon', taken'[c])
    /\ cl'[c].kind = cl[c].kind
    /\ failures' = IF cl'[c].result \in Raised THEN failures + 1 ELSE failures
    /\ faults' = faults \/ Fault
    /\ UNCHANGED <<catalog, commands, creates, publishes>>

(* The invariant of client c.                                              *)
Coherent(c) == Sound(cl[c], written[c], recon, taken[c])

(* A request preserves the client's invariant if its effect preserves it,  *)
(* if the command that goes on is in order after the effect, and if a      *)
(* failed one is in order with and without it.                             *)
LEMMA RequestStep ==
    ASSUME NEW c \in Client, NEW e \in Endpoints, NEW STATE allowed, NEW ACTION A,
           NEW STATE next, NEW STATE failed,
           DOMAIN cl = Client, Coherent(c), Request(c, e, allowed, A, next, failed),
           allowed /\ A => /\ Sound(cl[c], written'[c], recon', taken'[c])
                           /\ Sound(next, written'[c], recon', taken'[c]),
           \A S, R, T : Sound(cl[c], S, R, T) => Sound(failed, S, R, T),
           next.kind = cl[c].kind, failed.kind = cl[c].kind
    PROVE  Stepped(c) /\ Answered(c, e, allowed, A, next, failed)
  <1>1. cl[c].attempt \in Nat \ {0}
    BY TransportAssumption DEF Coherent, Sound, Local, WaitOK
  <1>2. Answered(c, e, allowed, A, next, failed)
    BY <1>1, RequestAnswered
  <1>3. NoEffect => Sound(cl[c], written'[c], recon', taken'[c])
    BY DEF NoEffect, service, ghosts, Coherent
  <1>4. /\ faults' = faults \/ Fault
        /\ UNCHANGED <<catalog, commands, creates, publishes>>
    BY <1>2 DEF Answered
  <1>5. CASE allowed /\ A /\ Become(c, next)
    <2>1. cl' = [cl EXCEPT ![c] = next] /\ cl'[c] = next
      BY <1>5 DEF Become
    <2>2. failures' = IF next.result \in Raised THEN failures + 1 ELSE failures
      BY <1>5 DEF Become
    <2>3. Sound(next, written'[c], recon', taken'[c])
      BY <1>5
    <2> QED BY <1>2, <1>4, <2>1, <2>2, <2>3 DEF Stepped
  <1>6. CASE ((allowed /\ A) \/ NoEffect) /\ Become(c, failed)
    <2>1. cl' = [cl EXCEPT ![c] = failed] /\ cl'[c] = failed
      BY <1>6 DEF Become
    <2>2. failures' = IF failed.result \in Raised THEN failures + 1 ELSE failures
      BY <1>6 DEF Become
    <2>3. Sound(failed, written'[c], recon', taken'[c])
      BY <1>3, <1>6
    <2> QED BY <1>2, <1>4, <2>1, <2>2, <2>3 DEF Stepped
  <1>7. ASSUME NEW d \in 0 .. MaxDelay, (allowed /\ A) \/ NoEffect,
               cl[c].attempt <= RetryTotal, Become(c, Retried(c, d))
        PROVE  Stepped(c)
    <2>1. cl' = [cl EXCEPT ![c] = Retried(c, d)] /\ cl'[c] = Retried(c, d)
      BY <1>7 DEF Become
    <2>2. failures' = IF Retried(c, d).result \in Raised THEN failures + 1 ELSE failures
      BY <1>7 DEF Become
    <2>3. Sound(cl[c], written'[c], recon', taken'[c])
      BY <1>3, <1>7
    <2>4. /\ Sound(Retried(c, d), written'[c], recon', taken'[c])
          /\ Retried(c, d).kind = cl[c].kind
      BY <1>7, <2>3, RetriedSound
    <2> QED BY <1>4, <2>1, <2>2, <2>4 DEF Stepped
  <1> QED BY <1>2, <1>5, <1>6, <1>7 DEF Answered

(* The results that make no claim may end a command anywhere.              *)
LEMMA PlainEnd ==
    ASSUME NEW c \in Client, NEW r \in Results \ {"present", "completed", "partial", "failed"}
    PROVE  /\ \A S, R, T : Sound(cl[c], S, R, T) => Sound(End(c, r), S, R, T)
           /\ End(c, r).kind = cl[c].kind /\ End(c, r).result = r
  <1>1. ASSUME NEW S, NEW R, NEW T, Sound(cl[c], S, R, T)
        PROVE  Sound(End(c, r), S, R, T)
    BY <1>1, EndSound
  <1>2. End(c, r).kind = cl[c].kind /\ End(c, r).result = r
    BY DEF End, Idle
  <1> QED BY <1>1, <1>2

(* A read changes nothing of the service.                                  *)
LEMMA ReadStep ==
    ASSUME NEW c \in Client, NEW e \in Endpoints, NEW STATE allowed, NEW STATE next,
           DOMAIN cl = Client, Coherent(c), Read(c, e, allowed, next),
           Sound(next, written[c], recon, taken[c]), next.kind = cl[c].kind
    PROVE  /\ Stepped(c) /\ UNCHANGED service /\ UNCHANGED baseline
           /\ \/ cl'[c] = next
              \/ cl'[c] = End(c, "error")
              \/ cl'[c].pc = cl[c].pc /\ cl'[c].result = cl[c].result
  <1>1. Request(c, e, allowed, NoEffect, next, End(c, "error"))
    BY DEF Read
  <1>2. NoEffect => /\ Sound(cl[c], written'[c], recon', taken'[c])
                    /\ Sound(next, written'[c], recon', taken'[c])
    BY DEF NoEffect, service, ghosts, Coherent
  <1>3. Stepped(c) /\ Answered(c, e, allowed, NoEffect, next, End(c, "error"))
    BY <1>1, <1>2, RequestStep, PlainEnd DEF Results
  <1>4. UNCHANGED service
    BY <1>3 DEF Answered, NoEffect
  <1>5. \/ cl'[c] = next
        \/ cl'[c] = End(c, "error")
        \/ cl'[c].pc = cl[c].pc /\ cl'[c].result = cl[c].result
    <2>1. \A d : Retried(c, d).pc = cl[c].pc /\ Retried(c, d).result = cl[c].result
      BY DEF Retried, Coherent, Sound, Local, HasFields
    <2> QED BY <1>3, <2>1 DEF Answered, Become
  <1>6. UNCHANGED baseline
    BY <1>3 DEF Answered
  <1> QED BY <1>3, <1>4, <1>5, <1>6

(* Moves of a command that neither reads nor writes settings.              *)
PlainPc == {"projects", "fleet_create", "ux_create", "rename", "detail", "ux_delete",
            "fleet_delete", "add", "connect", "catalog", "observe", "save", "remove",
            "destination", "preflight", "move", "recon_status", "recon_start"}

(* v goes on from w, outside of the settings: the plan and the credentials *)
(* stay.                                                                   *)
Onward(w, v) ==
    /\ HasFields(v) /\ w.pc \in PlainPc /\ v.pc \in PlainPc
    /\ v.kind = w.kind /\ v.args = w.args /\ v.result = w.result
    /\ v.plan = w.plan /\ v.held = w.held /\ v.creds = w.creds /\ v.at = w.at
    /\ \/ v.attempt = 1 /\ v.waited = 0
       \/ v.attempt = w.attempt /\ v.waited = w.waited

(* Going on keeps whatever the step did not touch.                         *)
LEMMA PlainSound ==
    ASSUME NEW w, NEW v, NEW S, NEW R, NEW T, Sound(w, S, R, T), Onward(w, v),
           KindOK(v), RefsOK(v), Backing(v, R, T)
    PROVE  Sound(v, S, R, T) /\ v.kind = w.kind
  <1>1. WaitOK(v)
    BY TransportAssumption DEF Sound, Local, WaitOK, Onward
  <1>2. ArgsOK(v)
    BY DEF Sound, Local, ArgsOK, Onward, PlainPc
  <1>3. PlanOK(v)
    BY DEF Sound, Local, PlanOK, Onward, PlainPc
  <1>4. DiscoverOK(v)
    BY DEF Sound, Local, DiscoverOK, Onward, PlainPc
  <1>5. Wrote(v, S)
    BY DEF Sound, Local, KindOK, Wrote, Onward, PlainPc, None
  <1> QED BY <1>1, <1>2, <1>3, <1>4, <1>5 DEF Sound, Local, Onward

(* The one element of a set is an element of it.                           *)
LEMMA OneThe == ASSUME NEW set, One(set) PROVE The(set) \in set
  BY FS_EmptySet DEF One, The

(* The endpoints that commands use are endpoints of the gateway.           *)
LEMMA EndpointsUsed ==
    {"projects", "project_detail", "fleet_project_create", "ux_project_create",
     "project_rename", "ux_project_delete", "fleet_project_delete", "project_repo_connection",
     "project_repos_add", "project_repo_delete", "repo_transfer_preflight", "repo_transfer",
     "catalog", "repo_active_runs", "repo_audit_runs", "git_credentials", "gitlab_projects",
     "audit_auto_runs", "improvement_jobs", "audit_email_preferences_get",
     "audit_auto_run_put", "improvement_job_put", "audit_email_preferences_put"}
    \subseteq Endpoints
  BY DEF Endpoints, PortfolioEndpoints, AuditEndpoints

(* v goes on from the command of c to pc, with a project and unread        *)
(* projects of its own and everything else as it was.                      *)
Moves(c, v, pc, project, unread) ==
    /\ Onward(cl[c], v) /\ v.pc = pc /\ v.project = project /\ v.unread = unread
    /\ v.found = cl[c].found /\ v.keys = cl[c].keys /\ v.todo = cl[c].todo
    /\ v.target = cl[c].target /\ v.recon = cl[c].recon

(* Goto, with a project or unread projects chosen, moves on.               *)
LEMMA GotoMoves ==
    ASSUME NEW c \in Client, Coherent(c), NEW pc \in PlainPc, cl[c].pc \in PlainPc
    PROVE  /\ Moves(c, Goto(c, pc), pc, cl[c].project, cl[c].unread)
           /\ \A p : Moves(c, [Goto(c, pc) EXCEPT !.project = p], pc, p, cl[c].unread)
           /\ \A u : Moves(c, [Goto(c, pc) EXCEPT !.unread = u], pc, cl[c].project, u)
           /\ \A p, u : Moves(c, [Goto(c, pc) EXCEPT !.project = p, !.unread = u], pc, p, u)
  BY DEF Goto, Coherent, Sound, Local, HasFields, Onward, Moves

(* Moving on between two requests of a project command preserves the       *)
(* invariant.                                                              *)
LEMMA MovesSound ==
    ASSUME NEW c \in Client, Coherent(c), NEW pc, NEW project, NEW unread, NEW v,
           Moves(c, v, pc, project, unread),
           <<cl[c].pc, pc>> \in
               {<<"projects", "fleet_create">>, <<"fleet_create", "ux_create">>,
                <<"projects", "rename">>, <<"ux_delete", "fleet_delete">>,
                <<"projects", "detail">>, <<"destination", "preflight">>,
                <<"preflight", "move">>, <<"recon_status", "recon_start">>},
           pc \in {"ux_create", "rename", "fleet_delete", "preflight", "move"} =>
               project \in Project,
           pc = "detail" => /\ unread \subseteq Project
                            /\ cl[c].kind \in {"add", "delete"} =>
                                 project \in Project /\ unread = {project},
           pc # "detail" => unread = cl[c].unread
    PROVE  Sound(v, written[c], recon, taken[c]) /\ v.kind = cl[c].kind
  <1>3. KindOK(v)
    BY DEF Coherent, Sound, Local, KindOK, Onward, Moves
  <1>4. RefsOK(v)
    BY DEF Coherent, Sound, Local, RefsOK, TargetSet, ProjectSet, Onward, Moves
  <1>5. Backing(v, recon, taken[c])
    BY DEF Coherent, Sound, Local, KindOK, Backing, TargetSet, Onward, None, Moves
  <1> QED BY <1>3, <1>4, <1>5, PlainSound DEF Coherent, Moves

(* project create looks for its name.                                      *)
LEMMA CreateListStep ==
    ASSUME NEW c \in Client, Shared, Coherent(c), CreateList(c)
    PROVE  Stepped(c) /\ UNCHANGED service
  <1> DEFINE v == Goto(c, "fleet_create")
             next == IF \E p \in Listed : ux[p] = cl[c].args.name
                     THEN End(c, "already_present") ELSE v
  <1>1. At(c, "create", "projects") /\ Read(c, "projects", TRUE, next)
    BY DEF CreateList
  <1>2. Moves(c, v, "fleet_create", cl[c].project, cl[c].unread)
    BY <1>1, GotoMoves DEF At, PlainPc
  <1> HIDE DEF v
  <1>4. Sound(v, written[c], recon, taken[c]) /\ v.kind = cl[c].kind
    BY <1>1, <1>2, MovesSound DEF At
  <1>5. Sound(next, written[c], recon, taken[c]) /\ next.kind = cl[c].kind
    BY <1>4, EndSound DEF Coherent, Results
  <1> HIDE DEF next
  <1> QED BY <1>1, <1>5, EndpointsUsed, ReadStep DEF Shared

(* The effect of a create on Fleet.                                        *)
FleetCreated(c) ==
    /\ fleet' = [fleet EXCEPT ![NewProject] = cl[c].args.name]
    /\ issued' = issued \cup {NewProject}
    /\ UNCHANGED <<ux, member, recon, setting, ghosts>>

(* A new project is one that was never issued.                             *)
LEMMA NewProjectType ==
    ASSUME Shared, issued # Project PROVE NewProject \in Project \ issued
  BY DEF Shared, NewProject

(* project create in Fleet.                                                *)
LEMMA FleetCreateStep ==
    ASSUME NEW c \in Client, Shared, Coherent(c), FleetCreate(c)
    PROVE  /\ Stepped(c) /\ At(c, "create", "fleet_create")
           /\ Answered(c, "fleet_project_create", issued # Project, FleetCreated(c),
                       [Goto(c, "ux_create") EXCEPT !.project = NewProject], End(c, "error"))
  <1> DEFINE v == [Goto(c, "ux_create") EXCEPT !.project = NewProject]
  <1>1. /\ At(c, "create", "fleet_create")
        /\ Request(c, "fleet_project_create", issued # Project, FleetCreated(c),
                   v, End(c, "error"))
    BY DEF FleetCreate, FleetCreated
  <1>2. Moves(c, v, "ux_create", NewProject, cl[c].unread)
    BY <1>1, GotoMoves DEF At, PlainPc
  <1>3. v.kind = cl[c].kind
    BY <1>2 DEF Moves, Onward
  <1> HIDE DEF v
  <1>4. ASSUME issued # Project, FleetCreated(c)
        PROVE  /\ Sound(cl[c], written'[c], recon', taken'[c])
               /\ Sound(v, written'[c], recon', taken'[c])
    <2>1. Sound(v, written[c], recon, taken[c])
      BY <1>1, <1>2, <1>4, MovesSound, NewProjectType DEF At
    <2> QED BY <1>4, <2>1 DEF FleetCreated, Coherent, ghosts
  <1>5. Stepped(c) /\ Answered(c, "fleet_project_create", issued # Project, FleetCreated(c),
                               v, End(c, "error"))
    BY <1>1, <1>3, <1>4, EndpointsUsed, RequestStep, PlainEnd DEF Shared, Results
  <1> QED BY <1>1, <1>5 DEF v

(* The effect of a create on the UX service.                               *)
UxCreated(c) ==
    /\ ux' = [ux EXCEPT ![cl[c].project] = cl[c].args.name]
    /\ UNCHANGED <<fleet, member, recon, setting, issued, ghosts>>

(* project create in the UX service.                                       *)
LEMMA UxCreateStep ==
    ASSUME NEW c \in Client, Shared, Coherent(c), UxCreate(c)
    PROVE  /\ Stepped(c) /\ At(c, "create", "ux_create")
           /\ Answered(c, "ux_project_create", fleet[cl[c].project] # None, UxCreated(c),
                       End(c, "created"), End(c, "partial_state"))
  <1>1. /\ At(c, "create", "ux_create")
        /\ Request(c, "ux_project_create", fleet[cl[c].project] # None, UxCreated(c),
                   End(c, "created"), End(c, "partial_state"))
    BY DEF UxCreate, UxCreated
  <1>2. ASSUME UxCreated(c)
        PROVE  /\ Sound(cl[c], written'[c], recon', taken'[c])
               /\ Sound(End(c, "created"), written'[c], recon', taken'[c])
    <2>1. Sound(cl[c], written'[c], recon', taken'[c])
      BY <1>2 DEF UxCreated, Coherent, ghosts
    <2> QED BY <2>1, PlainEnd DEF Results
  <1> QED BY <1>1, <1>2, EndpointsUsed, RequestStep, PlainEnd DEF Shared, Results

(* A selector selects projects.                                            *)
LEMMA SelectedType == \A s : Selected(s) \subseteq Project
  BY DEF Selected, Listed

(* project rename selects its project.                                     *)
LEMMA RenameListStep ==
    ASSUME NEW c \in Client, Shared, Coherent(c), RenameList(c)
    PROVE  Stepped(c) /\ UNCHANGED service
  <1> DEFINE selected == Selected(cl[c].args.name)
             v == [Goto(c, "rename") EXCEPT !.project = The(selected)]
             next == IF ~One(selected) THEN End(c, "error")
                     ELSE IF ux[The(selected)] = cl[c].args.to THEN End(c, "unchanged")
                     ELSE v
  <1>1. At(c, "rename", "projects") /\ Read(c, "projects", TRUE, next)
    BY DEF RenameList
  <1>2. Moves(c, v, "rename", The(selected), cl[c].unread)
    BY <1>1, GotoMoves DEF At, PlainPc
  <1>3. One(selected) => The(selected) \in Project
    BY OneThe, SelectedType
  <1> HIDE DEF v, selected
  <1>4. One(selected) => Sound(v, written[c], recon, taken[c]) /\ v.kind = cl[c].kind
    BY <1>1, <1>2, <1>3, MovesSound DEF At
  <1>5. Sound(next, written[c], recon, taken[c]) /\ next.kind = cl[c].kind
    BY <1>4, PlainEnd DEF Coherent, Results
  <1> HIDE DEF next
  <1> QED BY <1>1, <1>5, EndpointsUsed, ReadStep DEF Shared

(* The effect of a rename.                                                 *)
Renamed(c) ==
    /\ ux' = [ux EXCEPT ![cl[c].project] = cl[c].args.to]
    /\ UNCHANGED <<fleet, member, recon, setting, issued, ghosts>>

(* project rename.                                                         *)
LEMMA RenameStep ==
    ASSUME NEW c \in Client, Shared, Coherent(c), Rename(c)
    PROVE  /\ Stepped(c) /\ At(c, "rename", "rename")
           /\ Answered(c, "project_rename", ux[cl[c].project] # None, Renamed(c),
                       End(c, "renamed"), End(c, "error"))
  <1>1. /\ At(c, "rename", "rename")
        /\ Request(c, "project_rename", ux[cl[c].project] # None, Renamed(c),
                   End(c, "renamed"), End(c, "error"))
    BY DEF Rename, Renamed
  <1>2. ASSUME Renamed(c)
        PROVE  /\ Sound(cl[c], written'[c], recon', taken'[c])
               /\ Sound(End(c, "renamed"), written'[c], recon', taken'[c])
    <2>1. Sound(cl[c], written'[c], recon', taken'[c])
      BY <1>2 DEF Renamed, Coherent, ghosts
    <2> QED BY <2>1, PlainEnd DEF Results
  <1> QED BY <1>1, <1>2, EndpointsUsed, RequestStep, PlainEnd DEF Shared, Results

(* When exactly one project is selected, it is the one.                    *)
LEMMA OneProject ==
    ASSUME NEW set \in SUBSET Project, One(set)
    PROVE  set = {The(set)} /\ The(set) \in Project
  <1>1. IsFiniteSet(set)
    BY FS_Subset, CommandsAssumption
  <1>2. PICK x : set = {x}
    BY <1>1, FS_Singleton DEF One
  <1> QED BY <1>2 DEF The

(* project delete selects its project.                                     *)
LEMMA DeleteListStep ==
    ASSUME NEW c \in Client, Shared, Coherent(c), DeleteList(c)
    PROVE  Stepped(c) /\ UNCHANGED service
  <1> DEFINE selected == Selected(cl[c].args.name)
             v == [Goto(c, "detail") EXCEPT !.project = The(selected), !.unread = selected]
             next == IF selected = {} THEN End(c, "already_absent")
                     ELSE IF ~One(selected) THEN End(c, "error")
                     ELSE v
  <1>1. At(c, "delete", "projects") /\ Read(c, "projects", TRUE, next)
    BY DEF DeleteList
  <1>2. Moves(c, v, "detail", The(selected), selected)
    BY <1>1, GotoMoves DEF At, PlainPc
  <1>3. /\ selected \subseteq Project
        /\ One(selected) => The(selected) \in Project /\ selected = {The(selected)}
    BY OneProject, SelectedType
  <1> HIDE DEF v, selected
  <1>4. One(selected) => Sound(v, written[c], recon, taken[c]) /\ v.kind = cl[c].kind
    BY <1>1, <1>2, <1>3, MovesSound DEF At
  <1>5. Sound(next, written[c], recon, taken[c]) /\ next.kind = cl[c].kind
    BY <1>4, PlainEnd DEF Coherent, Results
  <1> HIDE DEF next
  <1> QED BY <1>1, <1>5, EndpointsUsed, ReadStep DEF Shared

(* The effect of a delete on the UX service.                               *)
UxDeleted(c) ==
    /\ ux' = [ux EXCEPT ![cl[c].project] = None]
    /\ UNCHANGED <<fleet, member, recon, setting, issued, ghosts>>

(* project delete in the UX service.                                       *)
LEMMA UxDeleteStep ==
    ASSUME NEW c \in Client, Shared, Coherent(c), UxDelete(c)
    PROVE  /\ Stepped(c) /\ At(c, "delete", "ux_delete")
           /\ Answered(c, "ux_project_delete", ux[cl[c].project] # None, UxDeleted(c),
                       Goto(c, "fleet_delete"), End(c, "error"))
  <1> DEFINE v == Goto(c, "fleet_delete")
  <1>1. /\ At(c, "delete", "ux_delete")
        /\ Request(c, "ux_project_delete", ux[cl[c].project] # None, UxDeleted(c),
                   v, End(c, "error"))
    BY DEF UxDelete, UxDeleted
  <1>2. Moves(c, v, "fleet_delete", cl[c].project, cl[c].unread)
    BY <1>1, GotoMoves DEF At, PlainPc
  <1>3. cl[c].project \in Project
    BY <1>1 DEF At, Coherent, Sound, Local, RefsOK, ProjectSet
  <1> HIDE DEF v
  <1>4. Sound(v, written[c], recon, taken[c]) /\ v.kind = cl[c].kind
    BY <1>1, <1>2, <1>3, MovesSound DEF At
  <1>5. ASSUME UxDeleted(c)
        PROVE  /\ Sound(cl[c], written'[c], recon', taken'[c])
               /\ Sound(v, written'[c], recon', taken'[c])
    BY <1>4, <1>5 DEF UxDeleted, Coherent, ghosts
  <1>6. Stepped(c) /\ Answered(c, "ux_project_delete", ux[cl[c].project] # None, UxDeleted(c),
                               v, End(c, "error"))
    BY <1>1, <1>4, <1>5, EndpointsUsed, RequestStep, PlainEnd DEF Shared, Results
  <1> QED BY <1>1, <1>6 DEF v

(* The effect of a delete on Fleet.                                        *)
FleetDeleted(c) ==
    /\ fleet' = [fleet EXCEPT ![cl[c].project] = None]
    /\ UNCHANGED <<ux, member, recon, setting, issued, ghosts>>

(* project delete in Fleet.                                                *)
LEMMA FleetDeleteStep ==
    ASSUME NEW c \in Client, Shared, Coherent(c), FleetDelete(c)
    PROVE  /\ Stepped(c) /\ At(c, "delete", "fleet_delete")
           /\ Answered(c, "fleet_project_delete", fleet[cl[c].project] # None, FleetDeleted(c),
                       End(c, "deleted"), End(c, "partial_state"))
  <1>1. /\ At(c, "delete", "fleet_delete")
        /\ Request(c, "fleet_project_delete", fleet[cl[c].project] # None, FleetDeleted(c),
                   End(c, "deleted"), End(c, "partial_state"))
    BY DEF FleetDelete, FleetDeleted, FleetDeleteFailed
  <1>2. ASSUME FleetDeleted(c)
        PROVE  /\ Sound(cl[c], written'[c], recon', taken'[c])
               /\ Sound(End(c, "deleted"), written'[c], recon', taken'[c])
    <2>1. Sound(cl[c], written'[c], recon', taken'[c])
      BY <1>2 DEF FleetDeleted, Coherent, ghosts
    <2> QED BY <2>1, PlainEnd DEF Results
  <1> QED BY <1>1, <1>2, EndpointsUsed, RequestStep, PlainEnd DEF Shared, Results

(* The details of a project are references to repositories of that         *)
(* project, and what they call done has been reconned.                     *)
LEMMA RefsFound ==
    ASSUME Shared, NEW p \in Project
    PROVE  \A t \in RepositoryRefs(p) :
               /\ t \in Refs /\ t.project = p
               /\ t.done => recon[<<t.project, t.repo>>] # "never"
  <1> SUFFICES ASSUME NEW t \in RepositoryRefs(p)
               PROVE  /\ t \in Refs /\ t.project = p
                      /\ t.done => recon[<<t.project, t.repo>>] # "never"
    OBVIOUS
  <1>1. PICK r \in Repo :
          t = [project |-> p, name |-> ux[p], repo |-> r,
               connected |-> member[<<p, r>>] = "connected", done |-> recon[<<p, r>>] = "done"]
    BY DEF RepositoryRefs
  <1>2. ux[p] \in Name \cup {None}
    BY DEF Shared
  <1> QED BY <1>1, <1>2 DEF Refs

(* The details of p have been read.                                        *)
Detailed(c, p, v) ==
    /\ Onward(cl[c], v) /\ v.project = cl[c].project /\ v.unread = cl[c].unread \ {p}
    /\ v.keys = cl[c].keys /\ v.recon = cl[c].recon

(* What DetailRead leaves alone.                                           *)
LEMMA DetailFields ==
    ASSUME NEW c \in Client, Coherent(c), NEW p, cl[c].pc = "detail"
    PROVE  LET w == DetailRead(c, p)
           IN  /\ Detailed(c, p, w) /\ w.pc = "detail" /\ w.todo = cl[c].todo
               /\ w.found = cl[c].found \cup RepositoryRefs(p) /\ w.target = cl[c].target
               /\ HasFields(w)
  BY DEF DetailRead, Goto, Coherent, Sound, Local, HasFields, Onward, Detailed, PlainPc

(* What was found before and what is found now are backed.                 *)
LEMMA FoundSound ==
    ASSUME NEW c \in Client, Shared, Coherent(c), cl[c].pc = "detail",
           NEW p \in cl[c].unread
    PROVE  \A t \in cl[c].found \cup RepositoryRefs(p) :
               /\ t \in Refs
               /\ cl[c].kind = "add" =>
                    /\ t.project = cl[c].project
                    /\ t.done => Backed(recon, taken[c], t)
  <1>1. p \in Project /\ cl[c].found \subseteq Refs
    BY DEF Coherent, Sound, Local, RefsOK
  <1>2. \A t \in cl[c].found :
          cl[c].kind = "add" => /\ t.project = cl[c].project
                                /\ t.done => Backed(recon, taken[c], t)
    BY DEF Coherent, Sound, Local, RefsOK, Backing
  <1>3. cl[c].kind = "add" => p = cl[c].project
    BY DEF Coherent, Sound, Local, RefsOK
  <1> QED BY <1>1, <1>2, <1>3, RefsFound DEF Backed

(* Reading one of several details preserves the invariant.                 *)
LEMMA DetailSound ==
    ASSUME NEW c \in Client, Shared, Coherent(c), cl[c].pc = "detail",
           NEW p \in cl[c].unread
    PROVE  /\ Sound(DetailRead(c, p), written[c], recon, taken[c])
           /\ DetailRead(c, p).kind = cl[c].kind
  <1> DEFINE w == DetailRead(c, p)
  <1>1. /\ Detailed(c, p, w) /\ w.pc = "detail" /\ w.todo = cl[c].todo
        /\ w.found = cl[c].found \cup RepositoryRefs(p) /\ w.target = cl[c].target
    BY DetailFields
  <1> HIDE DEF w
  <1>2. KindOK(w)
    BY <1>1 DEF Coherent, Sound, Local, KindOK, Onward, Detailed
  <1>3. RefsOK(w)
    BY <1>1, FoundSound DEF Coherent, Sound, Local, KindOK, None, RefsOK, TargetSet, ProjectSet,
                            Onward, Detailed
  <1>4. Backing(w, recon, taken[c])
    <2>1. w.result = "none" /\ w.kind = cl[c].kind
      BY <1>1 DEF Coherent, Sound, Local, KindOK, None, Onward, Detailed
    <2>2. ~TargetSet(w)
      BY <1>1, <2>1 DEF TargetSet
    <2>3. \A t \in w.found : w.kind = "add" /\ t.done => Backed(recon, taken[c], t)
      BY <1>1, <2>1, FoundSound
    <2> QED BY <2>1, <2>2, <2>3 DEF Backing
  <1>5. Sound(w, written[c], recon, taken[c]) /\ w.kind = cl[c].kind
    BY <1>1, <1>2, <1>3, <1>4, PlainSound DEF Coherent, Detailed
  <1> QED BY <1>5 DEF w

(* A decision after the last detail preserves the invariant if its next    *)
(* request may follow and its target was found.                            *)
LEMMA DecidedSound ==
    ASSUME NEW c \in Client, Shared, Coherent(c), cl[c].pc = "detail",
           NEW p \in cl[c].unread, NEW v, Detailed(c, p, v), v.todo = cl[c].todo,
           \/ /\ v.found = cl[c].found \cup RepositoryRefs(p) /\ v.target = cl[c].target
              /\ <<v.kind, v.pc>> \in {<<"delete", "ux_delete">>, <<"add", "add">>}
           \/ /\ v.found = {} /\ v.target \in cl[c].found \cup RepositoryRefs(p)
              /\ <<v.kind, v.pc>> \in {<<"add", "catalog">>, <<"add", "connect">>,
                                       <<"remove", "remove">>, <<"move", "destination">>,
                                       <<"recon", "catalog">>}
              /\ v.pc = "connect" => v.target.repo = v.args.repo
    PROVE  Sound(v, written[c], recon, taken[c]) /\ v.kind = cl[c].kind
  <1>2. KindOK(v)
    BY DEF Coherent, Sound, Local, KindOK, Onward, Detailed
  <1>3. RefsOK(v)
    BY FoundSound DEF Coherent, Sound, Local, KindOK, None, RefsOK, TargetSet, ProjectSet,
                      Onward, Detailed, Batches
  <1>4. Backing(v, recon, taken[c])
    <2>1. v.result = "none" /\ v.kind = cl[c].kind
      BY DEF Coherent, Sound, Local, KindOK, None, Onward, Detailed
    <2>2. \A t \in cl[c].found \cup RepositoryRefs(p) :
              v.kind = "add" /\ t.done => Backed(recon, taken[c], t)
      BY <2>1, FoundSound
    <2>3. TargetSet(v) => v.target \in cl[c].found \cup RepositoryRefs(p)
      BY <2>1 DEF TargetSet
    <2> QED BY <2>1, <2>2, <2>3 DEF Backing
  <1> QED BY <1>2, <1>3, <1>4, PlainSound DEF Coherent, Detailed

(* One of several details is read; the last one decides.                   *)
LEMMA ReadDetailStep ==
    ASSUME NEW c \in Client, Shared, Coherent(c), cl[c].pc = "detail",
           NEW p \in cl[c].unread, NEW STATE next, ReadDetail(c, p, next),
           DetailRead(c, p).unread = {} =>
               Sound(next, written[c], recon, taken[c]) /\ next.kind = cl[c].kind
    PROVE  Stepped(c) /\ UNCHANGED service
           /\ \/ cl'[c] = next
              \/ cl'[c].pc = "detail"
              \/ cl'[c] = End(c, "error")
  <1> DEFINE w == DetailRead(c, p)
             following == IF w.unread = {} THEN next ELSE w
  <1>1. Read(c, "project_detail", ux[p] # None, following)
    BY DEF ReadDetail
  <1>2. w.pc = "detail"
    BY DetailFields
  <1>3. Sound(following, written[c], recon, taken[c]) /\ following.kind = cl[c].kind
    BY DetailSound
  <1>4. following = next \/ following.pc = "detail"
    BY <1>2
  <1> HIDE DEF following
  <1> QED BY <1>1, <1>3, <1>4, EndpointsUsed, ReadStep DEF Shared

(* The last detail is read and t is chosen as target.                      *)
Chosen(c, p, v, t) ==
    /\ Detailed(c, p, v) /\ v.todo = cl[c].todo /\ v.kind = cl[c].kind /\ v.args = cl[c].args
    /\ v.found = {} /\ v.target = t

(* The last detail is read and the command goes to q.                      *)
Decided(c, p, q) == [DetailRead(c, p) EXCEPT !.pc = q]

(* The last detail is read and the command goes to q with target t.        *)
DecidedOn(c, p, q, t) == [DetailRead(c, p) EXCEPT !.pc = q, !.target = t, !.found = {}]

(* What Decided leaves alone.                                              *)
LEMMA DecidedFields ==
    ASSUME NEW c \in Client, Coherent(c), NEW p, cl[c].pc = "detail", NEW q \in PlainPc
    PROVE  LET u == Decided(c, p, q)
           IN  /\ Detailed(c, p, u) /\ u.todo = cl[c].todo /\ u.kind = cl[c].kind
               /\ u.found = cl[c].found \cup RepositoryRefs(p) /\ u.target = cl[c].target
               /\ u.pc = q
  <1> DEFINE w == DetailRead(c, p)
  <1>1. /\ Detailed(c, p, w) /\ w.pc = "detail" /\ w.todo = cl[c].todo
        /\ w.found = cl[c].found \cup RepositoryRefs(p) /\ w.target = cl[c].target
        /\ HasFields(w)
    BY DetailFields
  <1> HIDE DEF w
  <1>2. LET u == [w EXCEPT !.pc = q]
        IN  /\ Detailed(c, p, u) /\ u.todo = cl[c].todo /\ u.kind = cl[c].kind
            /\ u.found = cl[c].found \cup RepositoryRefs(p) /\ u.target = cl[c].target
            /\ u.pc = q
    BY <1>1 DEF Detailed, Onward, HasFields
  <1> QED BY <1>2 DEF w, Decided

(* What DecidedOn leaves alone.                                            *)
LEMMA DecidedOnFields ==
    ASSUME NEW c \in Client, Coherent(c), NEW p, cl[c].pc = "detail", NEW q \in PlainPc, NEW t
    PROVE  Chosen(c, p, DecidedOn(c, p, q, t), t) /\ DecidedOn(c, p, q, t).pc = q
  <1> DEFINE w == DetailRead(c, p)
  <1>1. /\ Detailed(c, p, w) /\ w.pc = "detail" /\ w.todo = cl[c].todo
        /\ w.found = cl[c].found \cup RepositoryRefs(p) /\ w.target = cl[c].target
        /\ HasFields(w)
    BY DetailFields
  <1> HIDE DEF w
  <1>2. LET v == [w EXCEPT !.pc = q, !.target = t, !.found = {}]
        IN  Chosen(c, p, v, t) /\ v.pc = q
    BY <1>1 DEF Detailed, Onward, HasFields, Chosen
  <1> QED BY <1>2 DEF w, DecidedOn

(* project delete checks that the project is empty.                        *)
LEMMA DeleteDetailStep ==
    ASSUME NEW c \in Client, Shared, Coherent(c), DeleteDetail(c)
    PROVE  Stepped(c) /\ UNCHANGED service
  <1> DEFINE v(p) == Decided(c, p, "ux_delete")
             next(p) == IF DetailRead(c, p).found # {} THEN End(c, "error") ELSE v(p)
  <1>1. At(c, "delete", "detail")
    BY DEF DeleteDetail
  <1>2. PICK p \in cl[c].unread : ReadDetail(c, p, next(p))
    BY DEF DeleteDetail, Decided
  <1>3. /\ Detailed(c, p, v(p)) /\ v(p).pc = "ux_delete" /\ v(p).todo = cl[c].todo
        /\ v(p).found = cl[c].found \cup RepositoryRefs(p) /\ v(p).target = cl[c].target
        /\ v(p).kind = "delete"
    BY <1>1, DecidedFields DEF PlainPc, At
  <1>4. Sound(v(p), written[c], recon, taken[c]) /\ v(p).kind = cl[c].kind
    <2> HIDE DEF v
    <2> QED BY <1>1, <1>2, <1>3, DecidedSound DEF At
  <1>5. Sound(next(p), written[c], recon, taken[c]) /\ next(p).kind = cl[c].kind
    <2> HIDE DEF v
    <2> QED BY <1>4, PlainEnd DEF Coherent, Results
  <1> HIDE DEF next
  <1> QED BY <1>1, <1>2, <1>5, ReadDetailStep DEF At

(* repo add selects its project.                                           *)
LEMMA AddListStep ==
    ASSUME NEW c \in Client, Shared, Coherent(c), AddList(c)
    PROVE  Stepped(c) /\ UNCHANGED service
  <1> DEFINE selected == Selected(cl[c].args.name)
             v == [Goto(c, "detail") EXCEPT !.project = The(selected), !.unread = selected]
             next == IF ~One(selected) THEN End(c, "error") ELSE v
  <1>1. At(c, "add", "projects") /\ Read(c, "projects", TRUE, next)
    BY DEF AddList
  <1>2. Moves(c, v, "detail", The(selected), selected)
    BY <1>1, GotoMoves DEF At, PlainPc
  <1>3. /\ selected \subseteq Project
        /\ One(selected) => The(selected) \in Project /\ selected = {The(selected)}
    BY OneProject, SelectedType
  <1> HIDE DEF v, selected
  <1>4. One(selected) => Sound(v, written[c], recon, taken[c]) /\ v.kind = cl[c].kind
    BY <1>1, <1>2, <1>3, MovesSound DEF At
  <1>5. Sound(next, written[c], recon, taken[c]) /\ next.kind = cl[c].kind
    BY <1>4, PlainEnd DEF Coherent, Results
  <1> HIDE DEF next
  <1> QED BY <1>1, <1>5, EndpointsUsed, ReadStep DEF Shared

(* repo add looks for the repository in the project.                       *)
LEMMA AddDetailStep ==
    ASSUME NEW c \in Client, Shared, Coherent(c), AddDetail(c)
    PROVE  Stepped(c) /\ UNCHANGED service
  <1> DEFINE w(p) == DetailRead(c, p)
             existing(p) == {t \in w(p).found : t.repo = cl[c].args.repo}
             u(p) == Decided(c, p, "add")
             q(p) == IF The(existing(p)).connected THEN "catalog" ELSE "connect"
             v(p) == DecidedOn(c, p, q(p), The(existing(p)))
             next(p) == IF existing(p) = {} THEN u(p) ELSE v(p)
  <1>1. At(c, "add", "detail")
    BY DEF AddDetail
  <1>2. PICK p \in cl[c].unread : ReadDetail(c, p, next(p))
    BY DEF AddDetail, Decided, DecidedOn
  <1>3. /\ Detailed(c, p, u(p)) /\ u(p).pc = "add" /\ u(p).todo = cl[c].todo
        /\ u(p).found = cl[c].found \cup RepositoryRefs(p) /\ u(p).target = cl[c].target
        /\ u(p).kind = "add"
    BY <1>1, DecidedFields DEF PlainPc, At
  <1>4. Chosen(c, p, v(p), The(existing(p))) /\ v(p).pc = q(p)
    <2>1. q(p) \in PlainPc
      BY DEF PlainPc
    <2> HIDE DEF q
    <2> QED BY <1>1, <2>1, DecidedOnFields DEF At
  <1>5. existing(p) # {} => /\ The(existing(p)) \in cl[c].found \cup RepositoryRefs(p)
                            /\ The(existing(p)).repo = cl[c].args.repo
    BY <1>1, DetailFields DEF The, At
  <1>6. q(p) \in {"catalog", "connect"}
    OBVIOUS
  <1>7. Sound(u(p), written[c], recon, taken[c]) /\ u(p).kind = cl[c].kind
    <2> HIDE DEF u
    <2> QED BY <1>1, <1>2, <1>3, DecidedSound DEF At
  <1>8. existing(p) # {} => Sound(v(p), written[c], recon, taken[c]) /\ v(p).kind = cl[c].kind
    <2> HIDE DEF v, existing, q
    <2> QED BY <1>1, <1>2, <1>4, <1>5, <1>6, DecidedSound DEF At, Chosen
  <1>9. Sound(next(p), written[c], recon, taken[c]) /\ next(p).kind = cl[c].kind
    <2> HIDE DEF v, u, existing
    <2> QED BY <1>7, <1>8
  <1> HIDE DEF next
  <1> QED BY <1>1, <1>2, <1>9, ReadDetailStep DEF At

(* The invariant of a command survives any step that keeps backed          *)
(* repositories backed.                                                    *)
LEMMA Carried ==
    ASSUME NEW w, NEW S, NEW R, NEW T, NEW R2, NEW T2, Sound(w, S, R, T),
           \/ w.kind # "add"
           \/ \A t \in Refs : Backed(R, T, t) => Backed(R2, T2, t)
    PROVE  Sound(w, S, R2, T2)
  <1>1. CASE w.kind # "add"
    BY <1>1 DEF Sound, Backing
  <1>2. CASE w.kind = "add" /\ \A t \in Refs : Backed(R, T, t) => Backed(R2, T2, t)
    <2>1. w.found \subseteq Refs /\ (TargetSet(w) => w.target \in Refs)
      BY DEF Sound, Local, RefsOK
    <2>2. w.result = "present" => TargetSet(w)
      BY <1>2 DEF TargetSet
    <2>3. Backing(w, R2, T2)
      BY <1>2, <2>1, <2>2 DEF Sound, Backing
    <2> QED BY <2>3 DEF Sound
  <1> QED BY <1>1, <1>2

(* repo add goes on to recon with a target that is backed if it says so.   *)
LEMMA CatalogSound ==
    ASSUME NEW c \in Client, Coherent(c), cl[c].kind = "add", cl[c].pc \in {"add", "connect"},
           NEW v, Onward(cl[c], v), v.pc = "catalog", v.found = cl[c].found,
           v.unread = cl[c].unread, v.keys = cl[c].keys, v.todo = cl[c].todo,
           v.target \in Refs, v.target.done => Backed(recon, taken[c], v.target)
    PROVE  Sound(v, written[c], recon, taken[c]) /\ v.kind = cl[c].kind
  <1>1. v.result = "none" /\ v.kind = "add"
    BY DEF Coherent, Sound, Local, KindOK, None, Onward
  <1>2. KindOK(v)
    BY DEF Coherent, Sound, Local, KindOK, Onward
  <1>3. RefsOK(v)
    BY <1>1 DEF Coherent, Sound, Local, RefsOK, TargetSet, ProjectSet, Onward
  <1>4. Backing(v, recon, taken[c])
    BY <1>1 DEF Coherent, Sound, Backing
  <1> QED BY <1>2, <1>3, <1>4, PlainSound DEF Coherent

(* The effect of adding or connecting a repository.                        *)
Connected(c, state) ==
    /\ member' = [member EXCEPT ![<<cl[c].project, cl[c].args.repo>>] = state]
    /\ UNCHANGED <<fleet, ux, recon, setting, issued, ghosts>>

(* repo add connects a repository that is there already.                   *)
LEMMA ConnectStep ==
    ASSUME NEW c \in Client, Shared, Coherent(c), Connect(c)
    PROVE  /\ Stepped(c) /\ At(c, "add", "connect")
           /\ Connected(c, "connected") \/ UNCHANGED service
  <1> DEFINE p == cl[c].project
             r == cl[c].args.repo
             allowed == ux[p] # None /\ member[<<p, r>>] # "absent"
             done == recon[<<p, r>>] = "done"
             v == [Goto(c, "catalog") EXCEPT !.target.done = done]
  <1>1. /\ At(c, "add", "connect")
        /\ Request(c, "project_repo_connection", allowed, Connected(c, "connected"),
                   v, End(c, "error"))
    BY DEF Connect, Connected, SetMember
  <1>2. /\ cl[c].target \in Refs /\ cl[c].target.project = p /\ cl[c].target.repo = r
    BY <1>1 DEF At, Coherent, Sound, Local, RefsOK, TargetSet
  <1>3. /\ Onward(cl[c], v) /\ v.pc = "catalog" /\ v.found = cl[c].found
        /\ v.unread = cl[c].unread /\ v.keys = cl[c].keys /\ v.todo = cl[c].todo
        /\ v.target = [cl[c].target EXCEPT !.done = done]
    BY <1>1 DEF At, Goto, Coherent, Sound, Local, HasFields, Onward, PlainPc
  <1>4. /\ v.target \in Refs /\ v.target.done = done
        /\ v.target.project = p /\ v.target.repo = r
    <2>1. \A t \in Refs, b \in BOOLEAN :
            LET u == [t EXCEPT !.done = b]
            IN  u \in Refs /\ u.done = b /\ u.project = t.project /\ u.repo = t.repo
      BY DEF Refs
    <2>2. done \in BOOLEAN
      OBVIOUS
    <2> HIDE DEF v, done, p, r
    <2> QED BY <1>2, <1>3, <2>1, <2>2
  <1>5. v.target.done => Backed(recon, taken[c], v.target)
    BY <1>4 DEF Backed
  <1> HIDE DEF v
  <1>6. Sound(v, written[c], recon, taken[c]) /\ v.kind = cl[c].kind
    BY <1>1, <1>3, <1>4, <1>5, CatalogSound DEF At
  <1>7. ASSUME Connected(c, "connected")
        PROVE  /\ Sound(cl[c], written'[c], recon', taken'[c])
               /\ Sound(v, written'[c], recon', taken'[c])
    BY <1>6, <1>7 DEF Connected, Coherent, ghosts
  <1> HIDE DEF allowed
  <1>8. Stepped(c) /\ Answered(c, "project_repo_connection", allowed, Connected(c, "connected"),
                               v, End(c, "error"))
    BY <1>1, <1>6, <1>7, EndpointsUsed, RequestStep, PlainEnd DEF Shared, Results
  <1> QED BY <1>1, <1>8 DEF Answered, NoEffect

(* repo add adds a repository.                                             *)
LEMMA AddStep ==
    ASSUME NEW c \in Client, Shared, Coherent(c), Add(c)
    PROVE  /\ Stepped(c) /\ At(c, "add", "add")
           /\ Connected(c, "added") \/ UNCHANGED service
  <1> DEFINE p == cl[c].project
             r == cl[c].args.repo
             allowed == ux[p] # None /\ member[<<p, r>>] = "absent"
             t == [project |-> p, name |-> None, repo |-> r, connected |-> FALSE,
                   done |-> recon[<<p, r>>] = "done"]
             v == [Goto(c, "catalog") EXCEPT !.target = t]
  <1>1. /\ At(c, "add", "add")
        /\ Request(c, "project_repos_add", allowed, Connected(c, "added"), v, End(c, "error"))
    BY DEF Add, Connected, SetMember
  <1>2. p \in Project /\ r \in Repo
    BY <1>1 DEF At, Coherent, Sound, Local, RefsOK, ArgsOK, ProjectSet
  <1>3. /\ t \in Refs /\ (t.done => Backed(recon, taken[c], t))
    BY <1>2 DEF Refs, Backed
  <1> HIDE DEF t
  <1>4. /\ Onward(cl[c], v) /\ v.pc = "catalog" /\ v.found = cl[c].found
        /\ v.unread = cl[c].unread /\ v.keys = cl[c].keys /\ v.todo = cl[c].todo
        /\ v.target = t
    BY <1>1 DEF At, Goto, Coherent, Sound, Local, HasFields, Onward, PlainPc
  <1> HIDE DEF v
  <1>6. Sound(v, written[c], recon, taken[c]) /\ v.kind = cl[c].kind
    BY <1>1, <1>3, <1>4, CatalogSound DEF At
  <1>7. ASSUME Connected(c, "added")
        PROVE  /\ Sound(cl[c], written'[c], recon', taken'[c])
               /\ Sound(v, written'[c], recon', taken'[c])
    BY <1>6, <1>7 DEF Connected, Coherent, ghosts
  <1> HIDE DEF allowed
  <1>8. Stepped(c) /\ Answered(c, "project_repos_add", allowed, Connected(c, "added"),
                               v, End(c, "error"))
    BY <1>1, <1>6, <1>7, EndpointsUsed, RequestStep, PlainEnd DEF Shared, Results
  <1> QED BY <1>1, <1>8 DEF Answered, NoEffect

(* repo remove and move look through all projects.                         *)
LEMMA AllTargetsStep ==
    ASSUME NEW c \in Client, Shared, Coherent(c), AllTargets(c)
    PROVE  Stepped(c) /\ UNCHANGED service
  <1> DEFINE v == [Goto(c, "detail") EXCEPT !.unread = Listed]
             next == IF Listed # {} THEN v
                     ELSE End(c, IF cl[c].kind = "remove" THEN "already_absent" ELSE "error")
  <1>1. /\ cl[c].kind \in {"remove", "move"} /\ cl[c].pc = "projects"
        /\ Read(c, "projects", TRUE, next)
    BY DEF AllTargets
  <1>2. Moves(c, v, "detail", cl[c].project, Listed)
    BY <1>1, GotoMoves DEF PlainPc
  <1>3. Listed \subseteq Project
    BY DEF Listed
  <1> HIDE DEF v
  <1>4. Sound(v, written[c], recon, taken[c]) /\ v.kind = cl[c].kind
    BY <1>1, <1>2, <1>3, MovesSound
  <1>5. Sound(next, written[c], recon, taken[c]) /\ next.kind = cl[c].kind
    <2>1. (IF cl[c].kind = "remove" THEN "already_absent" ELSE "error") \in
            Results \ {"present", "completed", "partial", "failed"}
      BY DEF Results
    <2> QED BY <1>4, <2>1, PlainEnd DEF Coherent
  <1> HIDE DEF next
  <1> QED BY <1>1, <1>5, EndpointsUsed, ReadStep DEF Shared

(* What a selector matches was found.                                      *)
LEMMA MatchesFound ==
    ASSUME NEW c \in Client, Coherent(c), cl[c].pc = "detail", NEW p, NEW repo, NEW project,
           LET set == RepositoryMatches(DetailRead(c, p).found, repo, project)
           IN  set # {} \/ One(set)
    PROVE  The(RepositoryMatches(DetailRead(c, p).found, repo, project))
             \in cl[c].found \cup RepositoryRefs(p)
  <1> DEFINE set == RepositoryMatches(DetailRead(c, p).found, repo, project)
  <1>1. DetailRead(c, p).found = cl[c].found \cup RepositoryRefs(p)
    BY DetailFields
  <1>2. set # {}
    BY FS_EmptySet DEF One
  <1> QED BY <1>1, <1>2 DEF The, RepositoryMatches

(* repo remove looks for its repository.                                   *)
LEMMA RemoveDetailStep ==
    ASSUME NEW c \in Client, Shared, Coherent(c), RemoveDetail(c)
    PROVE  Stepped(c) /\ UNCHANGED service
  <1> DEFINE matches(p) ==
                 RepositoryMatches(DetailRead(c, p).found, cl[c].args.repo, cl[c].args.name)
             v(p) == DecidedOn(c, p, "remove", The(matches(p)))
             next(p) == IF matches(p) = {} THEN End(c, "already_absent")
                        ELSE IF ~One(matches(p)) THEN End(c, "error") ELSE v(p)
  <1>1. At(c, "remove", "detail")
    BY DEF RemoveDetail
  <1>2. PICK p \in cl[c].unread : ReadDetail(c, p, next(p))
    BY DEF RemoveDetail, DecidedOn
  <1>3. Chosen(c, p, v(p), The(matches(p))) /\ v(p).pc = "remove"
    BY <1>1, DecidedOnFields DEF At, PlainPc
  <1>4. One(matches(p)) => The(matches(p)) \in cl[c].found \cup RepositoryRefs(p)
    BY <1>1, MatchesFound DEF At
  <1> HIDE DEF v, matches
  <1>5. One(matches(p)) => Sound(v(p), written[c], recon, taken[c]) /\ v(p).kind = cl[c].kind
    BY <1>1, <1>2, <1>3, <1>4, DecidedSound DEF At, Chosen
  <1>6. Sound(next(p), written[c], recon, taken[c]) /\ next(p).kind = cl[c].kind
    BY <1>5, PlainEnd DEF Coherent, Results
  <1> HIDE DEF next
  <1> QED BY <1>1, <1>2, <1>6, ReadDetailStep DEF At

(* repo move looks for its repository.                                     *)
LEMMA MoveDetailStep ==
    ASSUME NEW c \in Client, Shared, Coherent(c), MoveDetail(c)
    PROVE  Stepped(c) /\ UNCHANGED service
  <1> DEFINE matches(p) ==
                 RepositoryMatches(DetailRead(c, p).found, cl[c].args.repo, cl[c].args.name)
             v(p) == DecidedOn(c, p, "destination", The(matches(p)))
             next(p) == IF ~One(matches(p)) THEN End(c, "error") ELSE v(p)
  <1>1. At(c, "move", "detail")
    BY DEF MoveDetail
  <1>2. PICK p \in cl[c].unread : ReadDetail(c, p, next(p))
    BY DEF MoveDetail, DecidedOn
  <1>3. Chosen(c, p, v(p), The(matches(p))) /\ v(p).pc = "destination"
    BY <1>1, DecidedOnFields DEF At, PlainPc
  <1>4. One(matches(p)) => The(matches(p)) \in cl[c].found \cup RepositoryRefs(p)
    BY <1>1, MatchesFound DEF At
  <1> HIDE DEF v, matches
  <1>5. One(matches(p)) => Sound(v(p), written[c], recon, taken[c]) /\ v(p).kind = cl[c].kind
    BY <1>1, <1>2, <1>3, <1>4, DecidedSound DEF At, Chosen
  <1>6. Sound(next(p), written[c], recon, taken[c]) /\ next(p).kind = cl[c].kind
    BY <1>5, PlainEnd DEF Coherent, Results
  <1> HIDE DEF next
  <1> QED BY <1>1, <1>2, <1>6, ReadDetailStep DEF At

(* recon start looks for its repository.                                   *)
LEMMA ReconDetailStep ==
    ASSUME NEW c \in Client, Shared, Coherent(c), ReconDetail(c)
    PROVE  Stepped(c) /\ UNCHANGED service
  <1> DEFINE matches(p) ==
                 RepositoryMatches(DetailRead(c, p).found, cl[c].args.repo, cl[c].args.name)
             v(p) == DecidedOn(c, p, "catalog", The(matches(p)))
             next(p) == IF ~One(matches(p)) THEN End(c, "error") ELSE v(p)
  <1>1. At(c, "recon", "detail")
    BY DEF ReconDetail
  <1>2. PICK p \in cl[c].unread : ReadDetail(c, p, next(p))
    BY DEF ReconDetail, DecidedOn
  <1>3. Chosen(c, p, v(p), The(matches(p))) /\ v(p).pc = "catalog"
    BY <1>1, DecidedOnFields DEF At, PlainPc
  <1>4. One(matches(p)) => The(matches(p)) \in cl[c].found \cup RepositoryRefs(p)
    BY <1>1, MatchesFound DEF At
  <1> HIDE DEF v, matches
  <1>5. One(matches(p)) => Sound(v(p), written[c], recon, taken[c]) /\ v(p).kind = cl[c].kind
    BY <1>1, <1>2, <1>3, <1>4, DecidedSound DEF At, Chosen
  <1>6. Sound(next(p), written[c], recon, taken[c]) /\ next(p).kind = cl[c].kind
    BY <1>5, PlainEnd DEF Coherent, Results
  <1> HIDE DEF next
  <1> QED BY <1>1, <1>2, <1>6, ReadDetailStep DEF At

(* The effect of a removal.                                                *)
Removed(c) ==
    LET p == cl[c].target.project
        r == cl[c].target.repo
    IN  /\ member' = [member EXCEPT ![<<p, r>>] = "absent"]
        /\ recon' = [recon EXCEPT ![<<p, r>>] = "never"]
        /\ Taken({<<p, r>>})
        /\ UNCHANGED <<fleet, ux, setting, issued, settled, written>>

(* repo remove.                                                            *)
LEMMA RemoveStep ==
    ASSUME NEW c \in Client, Shared, Coherent(c), Remove(c)
    PROVE  /\ Stepped(c) /\ At(c, "remove", "remove")
           /\ Removed(c) \/ UNCHANGED service
  <1> DEFINE allowed == member[<<cl[c].target.project, cl[c].target.repo>>] # "absent"
  <1>1. /\ At(c, "remove", "remove")
        /\ Request(c, "project_repo_delete", allowed, Removed(c), End(c, "removed"),
                   End(c, "error"))
    BY DEF Remove, Removed
  <1>2. ASSUME Removed(c)
        PROVE  /\ Sound(cl[c], written'[c], recon', taken'[c])
               /\ Sound(End(c, "removed"), written'[c], recon', taken'[c])
    <2>1. Sound(cl[c], written'[c], recon, taken[c])
      BY <1>2 DEF Removed, Coherent
    <2>2. Sound(cl[c], written'[c], recon', taken'[c])
      BY <1>1, <2>1, Carried DEF At
    <2> QED BY <2>2, PlainEnd DEF Results
  <1> HIDE DEF allowed
  <1>3. Stepped(c) /\ Answered(c, "project_repo_delete", allowed, Removed(c), End(c, "removed"),
                               End(c, "error"))
    BY <1>1, <1>2, EndpointsUsed, RequestStep, PlainEnd DEF Shared, Results
  <1> QED BY <1>1, <1>3 DEF Answered, NoEffect

(* repo move selects the project it moves to.                              *)
LEMMA DestinationStep ==
    ASSUME NEW c \in Client, Shared, Coherent(c), Destination(c)
    PROVE  Stepped(c) /\ UNCHANGED service
  <1> DEFINE selected == Selected(cl[c].args.to)
             v == [Goto(c, "preflight") EXCEPT !.project = The(selected)]
             next == IF ~One(selected) THEN End(c, "error")
                     ELSE IF selected = {cl[c].target.project} THEN End(c, "already_in_target")
                     ELSE v
  <1>1. At(c, "move", "destination") /\ Read(c, "projects", TRUE, next)
    BY DEF Destination
  <1>2. Moves(c, v, "preflight", The(selected), cl[c].unread)
    BY <1>1, GotoMoves DEF At, PlainPc
  <1>3. One(selected) => The(selected) \in Project
    BY OneThe, SelectedType
  <1> HIDE DEF v, selected
  <1>4. One(selected) => Sound(v, written[c], recon, taken[c]) /\ v.kind = cl[c].kind
    BY <1>1, <1>2, <1>3, MovesSound DEF At
  <1>5. Sound(next, written[c], recon, taken[c]) /\ next.kind = cl[c].kind
    BY <1>4, PlainEnd DEF Coherent, Results
  <1> HIDE DEF next
  <1> QED BY <1>1, <1>5, EndpointsUsed, ReadStep DEF Shared

(* repo move asks whether it may.                                          *)
LEMMA PreflightStep ==
    ASSUME NEW c \in Client, Shared, Coherent(c), Preflight(c)
    PROVE  Stepped(c) /\ UNCHANGED service
  <1> DEFINE v == Goto(c, "move")
  <1>1. At(c, "move", "preflight") /\ Read(c, "repo_transfer_preflight", Movable(c), v)
    BY DEF Preflight
  <1>2. Moves(c, v, "move", cl[c].project, cl[c].unread)
    BY <1>1, GotoMoves DEF At, PlainPc
  <1>3. cl[c].project \in Project
    BY <1>1 DEF At, Coherent, Sound, Local, RefsOK, ProjectSet
  <1> HIDE DEF v
  <1>4. Sound(v, written[c], recon, taken[c]) /\ v.kind = cl[c].kind
    BY <1>1, <1>2, <1>3, MovesSound DEF At
  <1> QED BY <1>1, <1>4, EndpointsUsed, ReadStep DEF Shared

(* The effect of a move.                                                   *)
Moved(c) ==
    LET t == cl[c].target
        q == cl[c].project
    IN  /\ member' = [member EXCEPT ![<<t.project, t.repo>>] = "absent",
                                    ![<<q, t.repo>>] = member[<<t.project, t.repo>>]]
        /\ recon' = [recon EXCEPT ![<<t.project, t.repo>>] = "never",
                                  ![<<q, t.repo>>] = recon[<<t.project, t.repo>>]]
        /\ Taken({<<t.project, t.repo>>, <<q, t.repo>>})
        /\ UNCHANGED <<fleet, ux, setting, issued, settled, written>>

(* repo move.                                                              *)
LEMMA MoveStep ==
    ASSUME NEW c \in Client, Shared, Coherent(c), Move(c)
    PROVE  /\ Stepped(c) /\ At(c, "move", "move")
           /\ Moved(c) \/ UNCHANGED service
  <1>1. /\ At(c, "move", "move")
        /\ Request(c, "repo_transfer", Movable(c), Moved(c), End(c, "moved"),
                   End(c, "error"))
    BY DEF Move, Moved
  <1>2. ASSUME Moved(c)
        PROVE  /\ Sound(cl[c], written'[c], recon', taken'[c])
               /\ Sound(End(c, "moved"), written'[c], recon', taken'[c])
    <2>1. Sound(cl[c], written'[c], recon, taken[c])
      BY <1>2 DEF Moved, Coherent
    <2>2. Sound(cl[c], written'[c], recon', taken'[c])
      BY <1>1, <2>1, Carried DEF At
    <2> QED BY <2>2, PlainEnd DEF Results
  <1>3. Stepped(c) /\ Answered(c, "repo_transfer", Movable(c), Moved(c), End(c, "moved"),
                               End(c, "error"))
    BY <1>1, <1>2, EndpointsUsed, RequestStep, PlainEnd DEF Shared, Results
  <1> QED BY <1>1, <1>3 DEF Answered, NoEffect

(* A step without a request.                                               *)
LEMMA DirectStep ==
    ASSUME NEW c \in Client, DOMAIN cl = Client, NEW STATE next,
           Sound(next, written[c], recon, taken[c]), next.kind = cl[c].kind,
           cl' = [cl EXCEPT ![c] = next],
           failures' = IF next.result \in Raised THEN failures + 1 ELSE failures,
           faults' = faults \/ Fault,
           UNCHANGED <<service, catalog, commands, creates, publishes>>
    PROVE  Stepped(c) /\ UNCHANGED service
  <1>1. cl'[c] = next
    OBVIOUS
  <1>2. Sound(cl'[c], written'[c], recon', taken'[c])
    BY <1>1 DEF service, ghosts
  <1> QED BY <1>1, <1>2 DEF Stepped

(* v goes on from the command of c around the observation of the catalog.  *)
Observed(c, v) ==
    /\ Onward(cl[c], v) /\ v.unread = cl[c].unread /\ v.found = cl[c].found
    /\ v.todo = cl[c].todo /\ v.target = cl[c].target /\ v.recon = cl[c].recon
    /\ v.keys \subseteq AuditKey
    /\ \/ v.pc \in {"observe", "save"}
       \/ v.pc = "projects" /\ v.kind \in Batches
       \/ v.pc = "recon_status" /\ v.kind \notin Batches

(* Observing the catalog preserves the invariant.                          *)
LEMMA ObservedSound ==
    ASSUME NEW c \in Client, Coherent(c), cl[c].pc \in {"catalog", "observe", "save"},
           NEW v, Observed(c, v)
    PROVE  Sound(v, written[c], recon, taken[c]) /\ v.kind = cl[c].kind
  <1>1. v.result = "none" /\ v.kind = cl[c].kind /\ cl[c].kind \in Batches \cup {"add", "recon"}
    BY DEF Coherent, Sound, Local, KindOK, None, Onward, Observed
  <1>2. KindOK(v)
    BY <1>1 DEF Coherent, Sound, Local, KindOK, Onward, Observed
  <1>3. RefsOK(v)
    <2>1. TargetSet(v) => TargetSet(cl[c])
      BY <1>1 DEF TargetSet, Observed
    <2>2. ~ProjectSet(v) /\ ~(v.kind = "add" /\ v.pc \in {"projects", "detail", "connect"})
      BY <1>1 DEF ProjectSet, Observed, Batches
    <2> QED BY <1>1, <2>1, <2>2 DEF Coherent, Sound, Local, RefsOK, Observed
  <1>4. Backing(v, recon, taken[c])
    <2>1. v.kind = "add" => TargetSet(cl[c])
      BY <1>1 DEF TargetSet, Batches
    <2> QED BY <1>1, <2>1 DEF Coherent, Sound, Backing, Observed
  <1> QED BY <1>2, <1>3, <1>4, PlainSound DEF Coherent, Observed

(* The catalog is read.                                                    *)
LEMMA ReadCatalogStep ==
    ASSUME NEW c \in Client, Shared, Coherent(c), ReadCatalog(c)
    PROVE  Stepped(c) /\ UNCHANGED service
  <1> DEFINE v == [Goto(c, "observe") EXCEPT !.keys = catalog.audits, !.sound = catalog.sound]
  <1>1. cl[c].pc = "catalog" /\ Read(c, "catalog", TRUE, v)
    BY DEF ReadCatalog
  <1>2. Observed(c, v)
    BY <1>1 DEF Goto, Coherent, Sound, Local, HasFields, Onward, PlainPc, Observed, Shared
  <1> HIDE DEF v
  <1>3. Sound(v, written[c], recon, taken[c]) /\ v.kind = cl[c].kind
    BY <1>1, <1>2, ObservedSound
  <1> QED BY <1>1, <1>3, EndpointsUsed, ReadStep DEF Shared

(* A command goes on with a sound catalog and raises on another.           *)
LEMMA AfterCatalogSound ==
    ASSUME NEW c \in Client, Shared, Coherent(c), cl[c].pc \in {"observe", "save"}
    PROVE  Sound(AfterCatalog(c), written[c], recon, taken[c]) /\ AfterCatalog(c).kind = cl[c].kind
  <1> DEFINE v == [cl[c] EXCEPT !.pc = IF cl[c].kind \in Batches THEN "projects"
                                       ELSE "recon_status"]
  <1>1. Observed(c, v)
    BY DEF Coherent, Sound, Local, RefsOK, HasFields, Onward, PlainPc, Observed
  <1> HIDE DEF v
  <1>2. Sound(v, written[c], recon, taken[c]) /\ v.kind = cl[c].kind
    BY <1>1, ObservedSound
  <1>3. AfterCatalog(c) \in {End(c, "error"), v}
    BY DEF AfterCatalog, v
  <1> QED BY <1>2, <1>3, PlainEnd DEF Coherent, Results

(* The catalog is compared with the baseline.                              *)
LEMMA ObserveStep ==
    ASSUME NEW c \in Client, Shared, Coherent(c), Observe(c)
    PROVE  Stepped(c) /\ UNCHANGED service
  <1> DEFINE change == baseline # {} /\ cl[c].keys \notin baseline
             v == [cl[c] EXCEPT !.pc = "save", !.change = change]
             next == IF baseline = {} \/ change THEN v ELSE AfterCatalog(c)
  <1>1. /\ cl[c].pc = "observe" /\ Become(c, next)
        /\ UNCHANGED <<service, catalog, baseline, commands, creates, faults, publishes>>
    BY DEF Observe
  <1> HIDE DEF change
  <1>2. Observed(c, v)
    BY <1>1 DEF Coherent, Sound, Local, RefsOK, HasFields, Onward, PlainPc, Observed
  <1> HIDE DEF v
  <1>3. Sound(next, written[c], recon, taken[c]) /\ next.kind = cl[c].kind
    BY <1>1, <1>2, ObservedSound, AfterCatalogSound
  <1> HIDE DEF next
  <1> QED BY <1>1, <1>3, DirectStep DEF Become, Shared

(* The baseline is saved, or the write fails.                              *)
LEMMA SaveStep ==
    ASSUME NEW c \in Client, Shared, Coherent(c), Save(c)
    PROVE  Stepped(c) /\ UNCHANGED service
  <1>1. /\ cl[c].pc = "save"
        /\ \/ /\ cl' = [cl EXCEPT ![c] = AfterCatalog(c)]
              /\ failures' = IF AfterCatalog(c).result \in Raised THEN failures + 1 ELSE failures
              /\ UNCHANGED faults
           \/ /\ cl' = [cl EXCEPT ![c] = End(c, "error")]
              /\ failures' = failures + 1 /\ Fault
        /\ UNCHANGED <<service, catalog, commands, creates, publishes>>
    BY DEF Save
  <1>2. Sound(AfterCatalog(c), written[c], recon, taken[c]) /\ AfterCatalog(c).kind = cl[c].kind
    BY <1>1, AfterCatalogSound
  <1>3. Sound(End(c, "error"), written[c], recon, taken[c]) /\ End(c, "error").kind = cl[c].kind
    BY PlainEnd DEF Coherent, Results
  <1>4. CASE /\ cl' = [cl EXCEPT ![c] = End(c, "error")]
             /\ failures' = failures + 1 /\ Fault
    <2>1. End(c, "error").result \in Raised
      BY DEF End, Idle, Raised
    <2> QED BY <1>1, <1>3, <1>4, <2>1, DirectStep DEF Shared
  <1>5. CASE UNCHANGED faults /\ cl' = [cl EXCEPT ![c] = AfterCatalog(c)]
             /\ failures' = IF AfterCatalog(c).result \in Raised THEN failures + 1 ELSE failures
    BY <1>1, <1>2, <1>5, DirectStep DEF Shared
  <1> QED BY <1>1, <1>4, <1>5

(* repo add reports a recon that is backed, or one that failed.            *)
LEMMA ReconEndsSound ==
    ASSUME NEW c \in Client, NEW S, NEW R, NEW T, Sound(cl[c], S, R, T),
           cl[c].pc \in {"recon_status", "recon_start"},
           NEW state \in {"already_running", "unchanged", "started", "failed"},
           cl[c].kind = "add" /\ state # "failed" => Backed(R, T, cl[c].target)
    PROVE  Sound(ReconEnds(c, state), S, R, T) /\ ReconEnds(c, state).kind = cl[c].kind
  <1> DEFINE v == ReconEnds(c, state)
             r == IF cl[c].kind = "add" THEN "present" ELSE state
  <1>1. /\ HasFields(v)
        /\ v.kind = cl[c].kind /\ v.args = cl[c].args /\ v.target = cl[c].target
        /\ v.plan = cl[c].plan /\ v.held = cl[c].held /\ v.pc = "idle" /\ v.result = r
        /\ v.unread = {} /\ v.found = {} /\ v.todo = {} /\ v.keys = {} /\ v.creds = {}
        /\ v.at = 0 /\ v.attempt = 1 /\ v.waited = 0 /\ v.recon = state
    BY DEF ReconEnds, End, Idle, HasFields
  <1> HIDE DEF v
  <1>2. cl[c].kind \in {"add", "recon"} /\ cl[c].target \in Refs
    BY DEF Sound, Local, KindOK, RefsOK, TargetSet
  <1>3. KindOK(v)
    BY <1>1, <1>2 DEF KindOK, Batches, AllKinds, Results
  <1>4. WaitOK(v)
    BY <1>1, TransportAssumption DEF WaitOK
  <1>5. ArgsOK(v)
    BY <1>1 DEF Sound, Local, ArgsOK
  <1>6. RefsOK(v)
    BY <1>1, <1>2 DEF RefsOK, ProjectSet
  <1>7. PlanOK(v)
    BY <1>1 DEF Sound, Local, PlanOK
  <1>8. DiscoverOK(v)
    BY <1>1 DEF DiscoverOK
  <1>9. Wrote(v, S)
    BY <1>1, <1>2 DEF Sound, Wrote, Batches
  <1>10. Backing(v, R, T)
    BY <1>1 DEF Backing
  <1> QED BY <1>1, <1>3, <1>4, <1>5, <1>6, <1>7, <1>8, <1>9, <1>10 DEF Sound, Local, v

(* recon looks at the active runs.                                         *)
LEMMA ReconStatusStep ==
    ASSUME NEW c \in Client, Shared, Coherent(c), ReconStatus(c)
    PROVE  Stepped(c) /\ UNCHANGED service
  <1> DEFINE t == cl[c].target
             v == Goto(c, "recon_start")
             next == IF recon[<<t.project, t.repo>>] = "running" THEN ReconEnds(c, "already_running")
                     ELSE IF t.done THEN ReconEnds(c, "unchanged")
                     ELSE v
  <1>1. cl[c].pc = "recon_status" /\ Read(c, "repo_active_runs", TRUE, next)
    BY DEF ReconStatus, ReconDone
  <1>2. Moves(c, v, "recon_start", cl[c].project, cl[c].unread)
    BY <1>1, GotoMoves DEF PlainPc
  <1> HIDE DEF v
  <1>3. Sound(v, written[c], recon, taken[c]) /\ v.kind = cl[c].kind
    BY <1>1, <1>2, MovesSound
  <1>4. ASSUME recon[<<t.project, t.repo>>] = "running"
        PROVE  /\ Sound(ReconEnds(c, "already_running"), written[c], recon, taken[c])
               /\ ReconEnds(c, "already_running").kind = cl[c].kind
    BY <1>1, <1>4, ReconEndsSound DEF Coherent, Backed
  <1>5. ASSUME t.done
        PROVE  /\ Sound(ReconEnds(c, "unchanged"), written[c], recon, taken[c])
               /\ ReconEnds(c, "unchanged").kind = cl[c].kind
    <2>1. cl[c].kind = "add" => Backed(recon, taken[c], t)
      BY <1>1, <1>5 DEF Coherent, Sound, Backing, TargetSet
    <2> QED BY <1>1, <2>1, ReconEndsSound DEF Coherent
  <1>6. Sound(next, written[c], recon, taken[c]) /\ next.kind = cl[c].kind
    BY <1>3, <1>4, <1>5
  <1> HIDE DEF next
  <1> QED BY <1>1, <1>6, EndpointsUsed, ReadStep DEF Shared

(* The effect of starting a recon.                                         *)
ReconStarted(c) ==
    /\ recon' = [recon EXCEPT ![<<cl[c].target.project, cl[c].target.repo>>] = "running"]
    /\ UNCHANGED <<fleet, ux, member, setting, issued, ghosts>>

(* A recon that starts or ends leaves every repository backed that was.    *)
LEMMA ReconKept ==
    ASSUME Shared, NEW t \in Refs, NEW s \in {"running", "done"}
    PROVE  LET R == [recon EXCEPT ![<<t.project, t.repo>>] = s]
           IN  /\ R \in [Project \X Repo -> {"never", "running", "done"}]
               /\ R[<<t.project, t.repo>>] = s
               /\ \A T : Backed(R, T, t)
               /\ \A u \in Refs : \A T : Backed(recon, T, u) => Backed(R, T, u)
  BY DEF Shared, Refs, Backed

(* recon is started.                                                       *)
LEMMA ReconStartStep ==
    ASSUME NEW c \in Client, Shared, Coherent(c), ReconStart(c)
    PROVE  /\ Stepped(c) /\ cl[c].pc = "recon_start" /\ cl[c].target \in Refs
           /\ ReconStarted(c) \/ UNCHANGED service
  <1> DEFINE t == cl[c].target
             running == recon[<<t.project, t.repo>>] = "running"
             allowed == member[<<t.project, t.repo>>] # "absent"
             effect == IF running THEN NoEffect ELSE ReconStarted(c)
             state == IF running THEN "already_running" ELSE "started"
             next == ReconEnds(c, state)
  <1>1. /\ cl[c].pc = "recon_start"
        /\ \E failed \in {ReconEnds(c, "failed"), End(c, "error")} :
             Request(c, "repo_audit_runs", allowed, effect, next, failed)
    BY DEF ReconStart, ReconStarted
  <1>0. PICK failed \in {ReconEnds(c, "failed"), End(c, "error")} :
          Request(c, "repo_audit_runs", allowed, effect, next, failed)
    BY <1>1
  <1>2. t \in Refs
    BY <1>1 DEF Coherent, Sound, Local, RefsOK, TargetSet
  <1>3. ASSUME effect
        PROVE  /\ Sound(cl[c], written'[c], recon', taken'[c])
               /\ Sound(next, written'[c], recon', taken'[c])
    <2>1. /\ Backed(recon', taken'[c], t)
          /\ \A u \in Refs : Backed(recon, taken[c], u) => Backed(recon', taken'[c], u)
      <3>1. CASE running
        BY <1>3, <3>1 DEF Backed, NoEffect, service, ghosts
      <3>2. CASE ~running
        <4>1. /\ recon' = [recon EXCEPT ![<<t.project, t.repo>>] = "running"]
              /\ taken' = taken
          BY <1>3, <3>2 DEF ReconStarted, ghosts
        <4> QED BY <1>2, <4>1, ReconKept
      <3> QED BY <3>1, <3>2
    <2>2. written' = written
      BY <1>3 DEF NoEffect, ReconStarted, service, ghosts
    <2>3. Sound(cl[c], written'[c], recon', taken'[c])
      BY <2>1, <2>2, Carried DEF Coherent
    <2> QED BY <1>1, <2>1, <2>3, ReconEndsSound
  <1>4. \A S, R, T : Sound(cl[c], S, R, T) => Sound(failed, S, R, T)
    BY <1>0, <1>1, ReconEndsSound, PlainEnd DEF Results
  <1>5. next.kind = cl[c].kind /\ failed.kind = cl[c].kind
    <2>1. failed = ReconEnds(c, "failed") \/ failed = End(c, "error")
      BY <1>0
    <2>2. /\ next.kind = cl[c].kind /\ ReconEnds(c, "failed").kind = cl[c].kind
          /\ End(c, "error").kind = cl[c].kind
      BY DEF ReconEnds, End, Idle
    <2> QED BY <2>1, <2>2
  <1> HIDE DEF next, allowed
  <1>6. Stepped(c) /\ Answered(c, "repo_audit_runs", allowed, effect, next, failed)
    <2> HIDE DEF effect
    <2> QED BY <1>0, <1>1, <1>3, <1>4, <1>5, EndpointsUsed, RequestStep DEF Shared
  <1> QED BY <1>1, <1>2, <1>6 DEF Answered, NoEffect

(* Batches and recon start read the projects.                              *)
LEMMA TargetsStep ==
    ASSUME NEW c \in Client, Shared, Coherent(c), Targets(c)
    PROVE  Stepped(c) /\ UNCHANGED service
  <1> DEFINE args == cl[c].args
             selected == IF args.name = None THEN Listed ELSE Selected(args.name)
             failing == args.name # None /\ ~One(selected)
             v == [Goto(c, "detail") EXCEPT !.unread = selected]
             next == IF failing \/ (selected = {} /\ args.repo # None) THEN End(c, "error")
                     ELSE IF selected = {} THEN End(c, "completed")
                     ELSE v
  <1>1. cl[c].kind \in Batches \cup {"recon"} /\ cl[c].pc = "projects"
    BY DEF Targets
  <1>2. \/ /\ Become(c, End(c, "error"))
           /\ UNCHANGED <<service, catalog, baseline, commands, creates, faults, publishes>>
        \/ Read(c, "projects", TRUE, next)
    BY DEF Targets
  <1>3. Moves(c, v, "detail", cl[c].project, selected)
    BY <1>1, GotoMoves DEF PlainPc
  <1>4. selected \subseteq Project
    BY SelectedType DEF Listed
  <1> HIDE DEF v, selected, failing, args
  <1>5. Sound(v, written[c], recon, taken[c]) /\ v.kind = cl[c].kind
    BY <1>1, <1>3, <1>4, MovesSound DEF Batches
  <1>6. /\ Sound(End(c, "error"), written[c], recon, taken[c]) /\ End(c, "error").kind = cl[c].kind
        /\ Sound(End(c, "completed"), written[c], recon, taken[c])
        /\ End(c, "completed").kind = cl[c].kind
    BY <1>1, EndSound DEF Coherent, Results
  <1>7. Sound(next, written[c], recon, taken[c]) /\ next.kind = cl[c].kind
    BY <1>5, <1>6
  <1> HIDE DEF next
  <1>8. CASE Read(c, "projects", TRUE, next)
    BY <1>7, <1>8, EndpointsUsed, ReadStep DEF Shared
  <1>9. CASE /\ Become(c, End(c, "error"))
             /\ UNCHANGED <<service, catalog, baseline, commands, creates, faults, publishes>>
    BY <1>6, <1>9, DirectStep DEF Become, Shared
  <1> QED BY <1>2, <1>8, <1>9

(* v goes on from the command of c in GitLab discovery.                    *)
Browses(c, v) ==
    /\ HasFields(v) /\ cl[c].kind = "discover"
    /\ {cl[c].pc, v.pc} \subseteq {"credentials", "gitlab"}
    /\ v.kind = cl[c].kind /\ v.args = cl[c].args /\ v.result = cl[c].result
    /\ v.plan = cl[c].plan /\ v.held = cl[c].held /\ v.unread = cl[c].unread
    /\ v.found = cl[c].found /\ v.todo = cl[c].todo /\ v.keys = cl[c].keys
    /\ v.attempt = 1 /\ v.waited = 0

(* Going on in discovery preserves the invariant.                          *)
LEMMA BrowsesSound ==
    ASSUME NEW c \in Client, Coherent(c), NEW v, Browses(c, v), DiscoverOK(v)
    PROVE  Sound(v, written[c], recon, taken[c]) /\ v.kind = cl[c].kind
  <1>1. v.result = "none" /\ v.kind = "discover" /\ v.pc \in {"credentials", "gitlab"}
    BY DEF Coherent, Sound, Local, KindOK, None, Browses
  <1>2. KindOK(v)
    BY <1>1 DEF Coherent, Sound, Local, KindOK, Browses, AllKinds
  <1>3. WaitOK(v)
    BY TransportAssumption DEF WaitOK, Browses
  <1>4. ArgsOK(v)
    BY <1>1 DEF ArgsOK, Batches
  <1>5. RefsOK(v)
    BY <1>1 DEF Coherent, Sound, Local, RefsOK, TargetSet, ProjectSet, Browses
  <1>6. PlanOK(v)
    BY <1>1 DEF Coherent, Sound, Local, PlanOK, Browses
  <1>7. Wrote(v, written[c]) /\ Backing(v, recon, taken[c])
    BY <1>1 DEF Coherent, Sound, Wrote, Backing, Browses
  <1> QED BY <1>1, <1>2, <1>3, <1>4, <1>5, <1>6, <1>7 DEF Sound, Local, Browses

(* A valid page that repeats no credential adds as many as the service     *)
(* counts up to the end of the page: the pages read cover the offset, and  *)
(* the last one the total.                                                 *)
LEMMA CredentialPages ==
    ASSUME NEW creds \in SUBSET GitLabId, NEW ids \in SUBSET GitLabId, NEW offset \in Nat,
           NEW total \in Nat, offset <= Cardinality(creds), ~Repeated(creds, ids),
           CredentialPageValid(offset, Cardinality(ids), total)
    PROVE  /\ Cardinality(creds \cup ids) \in Nat
           /\ offset + CredentialLimit < total => offset + CredentialLimit <= Cardinality(creds \cup ids)
           /\ offset + CredentialLimit >= total => total <= Cardinality(creds \cup ids)
  <1>1. IsFiniteSet(creds) /\ IsFiniteSet(ids)
    BY FS_Subset, CommandsAssumption
  <1>2. Cardinality(creds) \in Nat /\ Cardinality(ids) \in Nat
    BY <1>1, FS_CardinalityType
  <1>3. Cardinality(creds \cup ids) = Cardinality(creds) + Cardinality(ids)
    <2>1. creds \cap ids = {} /\ Cardinality({}) = 0
      BY FS_EmptySet DEF Repeated
    <2>2. Cardinality(creds \cup ids) =
            Cardinality(creds) + Cardinality(ids) - Cardinality(creds \cap ids)
      BY <1>1, FS_Union
    <2>3. Cardinality(creds \cap ids) = 0
      BY <2>1
    <2> QED BY <1>2, <2>2, <2>3
  <1> QED BY <1>2, <1>3, GitLabAssumption DEF CredentialPageValid

(* A page of credentials is read.                                          *)
LEMMA ListCredentialsStep ==
    ASSUME NEW c \in Client, Shared, Coherent(c), ListCredentials(c)
    PROVE  Stepped(c) /\ UNCHANGED service
  <1> DEFINE offset == cl[c].at
             creds(ids) == cl[c].creds \cup ids
             read(ids, total) ==
                 [Goto(c, "credentials") EXCEPT !.creds = creds(ids), !.total = total,
                                                !.at = offset + CredentialLimit]
             last(ids, total, page) == [read(ids, total) EXCEPT !.pc = "gitlab", !.at = page]
             next(ids, total, page) ==
                 IF \/ ~CredentialPageValid(offset, Cardinality(ids), total)
                    \/ offset > 0 /\ total # cl[c].total
                    \/ Repeated(cl[c].creds, ids)
                 THEN End(c, "error")
                 ELSE IF offset + CredentialLimit < total THEN read(ids, total)
                 ELSE IF Selectable(creds(ids), cl[c].args.name) = {} THEN End(c, "error")
                 ELSE last(ids, total, page)
  <1>1. At(c, "discover", "credentials")
    BY DEF ListCredentials
  <1> HIDE DEF next
  <1>2. PICK w \in CredentialAnswers(c) : Read(c, "git_credentials", TRUE, w)
    BY Zenon DEF ListCredentials
  <1>3. PICK ids \in SUBSET GitLabId, total \in 0 .. Cardinality(GitLabId), page \in 1 .. MaxPage :
          w = AfterCredentials(c, ids, total, page)
    BY SMTT(30) DEF CredentialAnswers
  <1>4. AfterCredentials(c, ids, total, page) = next(ids, total, page)
    BY DEF AfterCredentials, next
  <1>5. w = next(ids, total, page)
    BY <1>3, <1>4
  <1>6. total \in Nat /\ page \in Nat
    BY FS_CardinalityType, CommandsAssumption
  <1>7. cl[c].creds \in SUBSET GitLabId /\ offset \in Nat /\ offset <= Cardinality(cl[c].creds)
        /\ cl[c].pages = <<>>
    BY <1>1 DEF At, Coherent, Sound, Local, DiscoverOK
  <1>8. /\ Browses(c, read(ids, total)) /\ read(ids, total).pc = "credentials"
        /\ read(ids, total).creds = creds(ids) /\ read(ids, total).total = total
        /\ read(ids, total).at = offset + CredentialLimit /\ read(ids, total).pages = <<>>
    BY <1>1, <1>7 DEF At, Goto, Coherent, Sound, Local, HasFields, Browses
  <1>9. /\ Browses(c, last(ids, total, page)) /\ last(ids, total, page).pc = "gitlab"
        /\ last(ids, total, page).creds = creds(ids) /\ last(ids, total, page).total = total
        /\ last(ids, total, page).at = page /\ last(ids, total, page).pages = <<>>
    <2> HIDE DEF read
    <2> QED BY <1>8 DEF Browses, HasFields
  <1> HIDE DEF read, last
  <1>10. ASSUME CredentialPageValid(offset, Cardinality(ids), total), ~Repeated(cl[c].creds, ids)
        PROVE  /\ offset + CredentialLimit < total => DiscoverOK(read(ids, total))
               /\ offset + CredentialLimit >= total => DiscoverOK(last(ids, total, page))
    <2>1. /\ Cardinality(creds(ids)) \in Nat
          /\ offset + CredentialLimit < total => offset + CredentialLimit <= Cardinality(creds(ids))
          /\ offset + CredentialLimit >= total => total <= Cardinality(creds(ids))
      BY <1>6, <1>7, <1>10, CredentialPages
    <2>2. offset + CredentialLimit \in Nat /\ creds(ids) \subseteq GitLabId
      BY <1>7, GitLabAssumption
    <2> HIDE DEF creds, offset
    <2> QED BY <1>6, <1>8, <1>9, <2>1, <2>2 DEF DiscoverOK
  <1>11. Sound(next(ids, total, page), written[c], recon, taken[c]) /\ next(ids, total, page).kind = cl[c].kind
    <2>1. DiscoverOK(read(ids, total)) =>
            /\ Sound(read(ids, total), written[c], recon, taken[c])
            /\ read(ids, total).kind = cl[c].kind
      BY <1>8, BrowsesSound
    <2>2. DiscoverOK(last(ids, total, page)) =>
            /\ Sound(last(ids, total, page), written[c], recon, taken[c])
            /\ last(ids, total, page).kind = cl[c].kind
      BY <1>9, BrowsesSound
    <2>3. Sound(End(c, "error"), written[c], recon, taken[c]) /\ End(c, "error").kind = cl[c].kind
      BY PlainEnd DEF Coherent, Results
    <2>4. ~(offset + CredentialLimit < total) => offset + CredentialLimit >= total
      BY <1>6, <1>7, GitLabAssumption
    <2> QED BY <1>10, <2>1, <2>2, <2>3, <2>4 DEF next
  <1>12. Sound(w, written[c], recon, taken[c]) /\ w.kind = cl[c].kind
    BY <1>5, <1>11
  <1> QED BY <1>2, <1>12, EndpointsUsed, ReadStep DEF Shared

(* A next page that is allowed is above all the pages read.                *)
LEMMA PageAppended ==
    ASSUME NEW s \in Seq(Nat), NEW n \in Nat, \A i \in DOMAIN s : s[i] < n
    PROVE  LET t == Append(s, n)
           IN  /\ t \in Seq(Nat) /\ Len(t) = Len(s) + 1 /\ t[Len(t)] = n
               /\ \A i \in DOMAIN t : t[i] <= n
  <1>1. Append(s, n) \in Seq(Nat) /\ Len(Append(s, n)) = Len(s) + 1
    OBVIOUS
  <1>2. Append(s, n)[Len(s) + 1] = n
    OBVIOUS
  <1>3. \A i \in 1 .. Len(s) : Append(s, n)[i] = s[i] /\ s[i] \in Nat
    OBVIOUS
  <1>4. DOMAIN Append(s, n) = 1 .. Len(s) + 1 /\ DOMAIN s = 1 .. Len(s) /\ Len(s) \in Nat
    OBVIOUS
  <1>5. ASSUME NEW i \in 1 .. Len(s) + 1 PROVE Append(s, n)[i] <= n
    <2>1. CASE i = Len(s) + 1
      BY <1>2, <2>1
    <2>2. CASE i \in 1 .. Len(s)
      BY <1>3, <1>4, <2>2
    <2> QED BY <1>4, <2>1, <2>2
  <1> QED BY <1>1, <1>2, <1>4, <1>5

(* A page of GitLab projects is read.                                      *)
LEMMA DiscoverProjectsStep ==
    ASSUME NEW c \in Client, Shared, Coherent(c), DiscoverProjects(c)
    PROVE  Stepped(c) /\ UNCHANGED service
  <1> DEFINE pages == Append(cl[c].pages, cl[c].at)
             read(ids, n) == [cl[c] EXCEPT !.seen = @ \cup ids, !.pages = pages, !.at = n,
                                           !.attempt = 1, !.waited = 0]
             next(ids, n) ==
                 IF Repeated(cl[c].seen, ids) THEN End(c, "error")
                 ELSE IF cl[c].args.all = None \/ n = NoPage THEN End(c, "discovered")
                 ELSE IF ~NextPageAllowed(pages, n) THEN End(c, "error")
                 ELSE read(ids, n)
  <1>1. At(c, "discover", "gitlab")
    BY DEF DiscoverProjects
  <1> HIDE DEF next
  <1>2. PICK w \in ProjectAnswers(c) : Read(c, "gitlab_projects", TRUE, w)
    BY Zenon DEF DiscoverProjects
  <1>3. PICK ids \in SUBSET GitLabId, n \in NoPage .. MaxPage : w = AfterProjects(c, ids, n)
    BY SMTT(30) DEF ProjectAnswers
  <1>4. AfterProjects(c, ids, n) = next(ids, n)
    BY DEF AfterProjects, next
  <1>5. w = next(ids, n)
    BY <1>3, <1>4
  <1>6. n \in Nat
    BY CommandsAssumption DEF NoPage
  <1>7. /\ cl[c].pages \in Seq(Nat) /\ cl[c].at \in Nat
        /\ \A i \in DOMAIN cl[c].pages : cl[c].pages[i] < cl[c].at
        /\ cl[c].creds \subseteq GitLabId /\ Cardinality(cl[c].creds) >= cl[c].total
    BY <1>1 DEF At, Coherent, Sound, Local, DiscoverOK
  <1>8. /\ pages \in Seq(Nat) /\ Len(pages) = Len(cl[c].pages) + 1
        /\ pages[Len(pages)] = cl[c].at
        /\ \A i \in DOMAIN pages : pages[i] <= cl[c].at
    BY <1>7, PageAppended
  <1> HIDE DEF pages
  <1>9. /\ Browses(c, read(ids, n)) /\ read(ids, n).pc = "gitlab" /\ read(ids, n).at = n
        /\ read(ids, n).creds = cl[c].creds /\ read(ids, n).total = cl[c].total
        /\ read(ids, n).pages = pages
    BY <1>1 DEF At, Coherent, Sound, Local, HasFields, Browses
  <1> HIDE DEF read
  <1>10. NextPageAllowed(pages, n) => DiscoverOK(read(ids, n))
    BY <1>6, <1>7, <1>8, <1>9 DEF NextPageAllowed, DiscoverOK
  <1>11. NextPageAllowed(pages, n) => /\ Sound(read(ids, n), written[c], recon, taken[c])
                                     /\ read(ids, n).kind = cl[c].kind
    BY <1>9, <1>10, BrowsesSound
  <1>12. Sound(next(ids, n), written[c], recon, taken[c]) /\ next(ids, n).kind = cl[c].kind
    BY <1>11, PlainEnd DEF Coherent, Results, next
  <1>13. Sound(w, written[c], recon, taken[c]) /\ w.kind = cl[c].kind
    BY <1>12, <1>5
  <1> QED BY <1>2, <1>13, EndpointsUsed, ReadStep DEF Shared

(* A set of natural numbers that is not empty has a least element.         *)
LEMMA LeastNumber ==
    ASSUME NEW N \in SUBSET Nat, N # {}
    PROVE  \E x \in N : \A y \in N : x <= y
  <1> DEFINE R == OpToRel(<, Nat)
  <1>1. IsWellFoundedOn(R, Nat)
    BY NatLessThanWellFounded
  <1>2. \A x, y \in Nat : <<y, x>> \in R <=> y < x
    BY DEF OpToRel
  <1> HIDE DEF R
  <1>3. PICK x \in N : \A y \in N : ~(<<y, x>> \in R)
    BY <1>1, WFMin
  <1>4. \A y \in N : ~(y < x)
    BY <1>2, <1>3
  <1> QED BY <1>4

(* The timing an update gives is the timing that update finds.             *)
LEMMA TimingLasts ==
    ASSUME NEW requested, NEW time, NEW source, NEW default, time # "auto",
           default \notin {None, "auto"}
    PROVE  /\ LET t == SelectScheduleTime(requested, time, source, default)
              IN  /\ t.time \notin {None, "auto"} /\ t.source \in {"auto", "user"}
                  /\ SelectScheduleTime(requested, t.time, t.source, default) = t
           /\ LET t == SelectPreservedAutoTime(requested, time, source, default)
              IN  /\ t.time \notin {None, "auto"} /\ t.source \in {"auto", "user"}
                  /\ SelectPreservedAutoTime(requested, t.time, t.source, default) = t
  <1>1. \A a, b : Timing(a, b).time = a /\ Timing(a, b).source = b
    BY DEF Timing
  <1> QED BY <1>1 DEF SelectScheduleTime, SelectPreservedAutoTime, Or, None

(* What decide_schedule writes is a complete schedule, which the same      *)
(* update leaves unchanged.                                                *)
LEMMA ScheduleLasts ==
    ASSUME NEW s, CompleteSchedule(s), NEW u, u.enabled \in {None, "on", "off"},
           ValidScheduleUpdate(u), DecideSchedule(s, u).status = "changed"
    PROVE  /\ CompleteSchedule(DecideSchedule(s, u).value)
           /\ DecideSchedule(DecideSchedule(s, u).value, u).status = "unchanged"
  <1> DEFINE v == PlanScheduleUpdate(s, u)
             timing == SelectScheduleTime(u.time, s.time, s.source, "00:00")
             enabled == Or(u.enabled, Or(s.enabled, "off"))
             cadence == Or(u.cadence, Or(s.cadence, "workdays"))
             timezone == Or(u.timezone, Or(s.timezone, "UTC"))
             kept == IF s = NoSchedule THEN "first" ELSE s.kept
  <1>1. DecideSchedule(s, u).value = v /\ v # NoSchedule
    BY DEF DecideSchedule, Unchanged, Changed
  <1>2. v = Schedule(enabled, cadence, timing.time, timing.source, timezone, kept)
    BY <1>1 DEF PlanScheduleUpdate
  <1>3. \/ /\ s = NoSchedule /\ s.enabled = None /\ s.cadence = None /\ s.time = None
           /\ s.timezone = None
        \/ /\ s # NoSchedule /\ s.enabled \in {"on", "off"} /\ s.cadence \in Cadences
           /\ s.time \notin {None, "auto"} /\ s.timezone # None /\ s.kept # None
    BY DEF CompleteSchedule, NoSchedule, Schedule
  <1>4. enabled \in {"on", "off"} /\ cadence \in Cadences /\ timezone # None /\ kept # None
    BY <1>3 DEF Or, ValidScheduleUpdate, ValidTiming, Cadences, None
  <1>5. /\ timing.time \notin {None, "auto"} /\ timing.source \in {"auto", "user"}
        /\ SelectScheduleTime(u.time, timing.time, timing.source, "00:00") = timing
    BY <1>3, TimingLasts DEF None
  <1>6. /\ Or(u.enabled, Or(enabled, "off")) = enabled
        /\ Or(u.cadence, Or(cadence, "workdays")) = cadence
        /\ Or(u.timezone, Or(timezone, "UTC")) = timezone
    BY <1>4 DEF Or, None
  <1> HIDE DEF timing, enabled, cadence, timezone, kept
  <1>7. /\ v.enabled = enabled /\ v.cadence = cadence /\ v.time = timing.time
        /\ v.source = timing.source /\ v.timezone = timezone /\ v.kept = kept
        /\ DOMAIN v = DOMAIN NoSchedule
    BY <1>2 DEF Schedule, NoSchedule
  <1> HIDE DEF v
  <1>8. CompleteSchedule(v)
    BY <1>2, <1>4, <1>5, <1>7 DEF CompleteSchedule
  <1>9. PlanScheduleUpdate(v, u) = v
    BY <1>1, <1>2, <1>5, <1>6, <1>7 DEF PlanScheduleUpdate
  <1> QED BY <1>1, <1>8, <1>9 DEF DecideSchedule, Unchanged

(* What schedule auto-time writes is a complete schedule.                  *)
LEMMA AutoTimeLasts ==
    ASSUME NEW s, CompleteSchedule(s), s # NoSchedule
    PROVE  CompleteSchedule(AutoTime(s))
  <1> DEFINE v == AutoTime(s)
  <1>1. "time" \in DOMAIN s /\ "source" \in DOMAIN s
    BY DEF CompleteSchedule, NoSchedule, Schedule
  <1>2. /\ DOMAIN v = DOMAIN s /\ v.time = "00:00" /\ v.source = "auto"
        /\ v.enabled = s.enabled /\ v.cadence = s.cadence /\ v.timezone = s.timezone
        /\ v.kept = s.kept
    BY <1>1 DEF CompleteSchedule, NoSchedule, Schedule, AutoTime
  <1> HIDE DEF v
  <1>3. CompleteSchedule(v)
    BY <1>2 DEF CompleteSchedule, None
  <1> QED BY <1>3 DEF v

(* What desired_job gives is a complete job, which the same update leaves  *)
(* unchanged.                                                              *)
LEMMA JobLasts ==
    ASSUME NEW j, CompleteJob(j), NEW u, {u.enabled, u.automatic} \subseteq {None, "on", "off"},
           ValidJobUpdate(u), DecideJob(j, u).status = "changed", DecideJob(j, u).value # BadJob
    PROVE  /\ CompleteJob(DecideJob(j, u).value)
           /\ DecideJob(DecideJob(j, u).value, u).status = "unchanged"
  <1> DEFINE v == DesiredJob(j, u)
             timezone == Or(u.timezone, j.timezone)
             timing == SelectPreservedAutoTime(u.time, j.time, j.source, "09:00")
             enabled == Or(u.enabled, IF j = NoJob THEN "on" ELSE j.enabled)
             automatic == Or(u.automatic, IF j = NoJob THEN "on" ELSE j.automatic)
             frequency == Or(u.frequency, Or(j.frequency, "workdays"))
             days == Or(u.days, Or(j.days, "workdays"))
             kept == Or(j.kept, "first")
  <1>1. DecideJob(j, u).value = v /\ v # NoJob /\ v # BadJob
    BY DEF DecideJob, Unchanged, Changed
  <1>2. /\ v = Job(enabled, automatic, frequency, days, timing.time, timing.source, timezone, kept)
        /\ timezone # None
    BY <1>1 DEF DesiredJob
  <1>3. \/ /\ j = NoJob /\ j.frequency = None /\ j.days = None /\ j.time = None /\ j.kept = None
        \/ /\ j # NoJob /\ j.enabled \in {"on", "off"} /\ j.automatic \in {"on", "off"}
           /\ j.frequency \in Cadences /\ j.days # None /\ j.time # "auto" /\ j.kept # None
    BY DEF CompleteJob, NoJob, Job
  <1>4. /\ enabled \in {"on", "off"} /\ automatic \in {"on", "off"} /\ frequency \in Cadences
        /\ days # None /\ kept # None
    BY <1>3 DEF Or, ValidJobUpdate, ValidTiming, Cadences, None
  <1>5. /\ timing.time \notin {None, "auto"}
        /\ SelectPreservedAutoTime(u.time, timing.time, timing.source, "09:00") = timing
    BY <1>3, TimingLasts DEF None
  <1>6. /\ Or(u.enabled, enabled) = enabled /\ Or(u.automatic, automatic) = automatic
        /\ Or(u.frequency, Or(frequency, "workdays")) = frequency
        /\ Or(u.days, Or(days, "workdays")) = days
        /\ Or(u.timezone, timezone) = timezone /\ Or(kept, "first") = kept
    BY <1>2, <1>4 DEF Or, None
  <1> HIDE DEF timing, enabled, automatic, frequency, days, timezone, kept
  <1>7. /\ v.enabled = enabled /\ v.automatic = automatic /\ v.frequency = frequency
        /\ v.days = days /\ v.time = timing.time /\ v.source = timing.source
        /\ v.timezone = timezone /\ v.kept = kept
    BY <1>2 DEF Job
  <1> HIDE DEF v
  <1>8. CompleteJob(v)
    BY <1>2, <1>4, <1>5, <1>7 DEF CompleteJob
  <1>9. DesiredJob(v, u) = v
    BY <1>1, <1>2, <1>5, <1>6, <1>7 DEF DesiredJob
  <1> QED BY <1>1, <1>8, <1>9 DEF DecideJob, Unchanged

(* An email preference merged with an update is left unchanged by the same *)
(* update.                                                                 *)
LEMMA EmailLasts ==
    ASSUME NEW e, NEW u, None \notin {e.manual, e.scheduled}
    PROVE  /\ None \notin {MergeEmail(e, u).manual, MergeEmail(e, u).scheduled}
           /\ DecideEmail(MergeEmail(e, u), u).status = "unchanged"
           /\ DecideEmail(e, u).status = "changed" => DecideEmail(e, u).value = u
  <1>1. /\ MergeEmail(e, u).manual = Or(u.manual, e.manual)
        /\ MergeEmail(e, u).scheduled = Or(u.scheduled, e.scheduled)
    BY DEF MergeEmail, Email
  <1> QED BY <1>1 DEF Or, DecideEmail, EmailEffective, Unchanged, Changed

(* The settings the service stores.                                        *)
Stores == {"schedules", "jobs", "email"}

(* What is stored is complete, and the update written last would be        *)
(* decided `unchanged'.  It is what makes RepeatUnchanged inductive.       *)
Settings ==
    /\ CompleteSettings(setting)
    /\ DOMAIN settled = Stores
    /\ \A store \in Stores : DOMAIN settled[store] = Slots
    /\ \A store \in Stores, slot \in Slots : \A u \in settled[store][slot] :
         Decide(store, setting[store][slot], u).status = "unchanged"

(* Each kind of batch decides by its own rule.                             *)
LEMMA DecideCases ==
    ASSUME NEW s, NEW u
    PROVE  /\ Decide("schedules", s, u) = DecideSchedule(s, u)
           /\ Decide("auto_time", s, u) = DecideAutoTime(s)
           /\ Decide("jobs", s, u) = DecideJob(s, u)
           /\ Decide("email", s, u) = DecideEmail(s, u)
           /\ \A kind \in Batches : Decide(kind, s, u).status \in {"changed", "unchanged"}
  <1>1. /\ Decide("schedules", s, u) = DecideSchedule(s, u)
        /\ Decide("auto_time", s, u) = DecideAutoTime(s)
        /\ Decide("jobs", s, u) = DecideJob(s, u)
        /\ Decide("email", s, u) = DecideEmail(s, u)
    BY DEF Decide
  <1>2. \A v : Unchanged(v).status = "unchanged" /\ Changed(v).status = "changed"
    BY DEF Unchanged, Changed
  <1>3. DecideSchedule(s, u).status \in {"changed", "unchanged"}
    BY <1>2 DEF DecideSchedule
  <1>4. DecideAutoTime(s).status \in {"changed", "unchanged"}
    BY <1>2 DEF DecideAutoTime
  <1>5. DecideJob(s, u).status \in {"changed", "unchanged"}
    BY <1>2 DEF DecideJob
  <1>6. DecideEmail(s, u).status \in {"changed", "unchanged"}
    BY <1>2 DEF DecideEmail
  <1> QED BY <1>1, <1>3, <1>4, <1>5, <1>6 DEF Batches

(* Every decision of a batch on complete settings is good.                 *)
LEMMA DecisionGood ==
    ASSUME NEW c \in Client, Settings, Coherent(c), cl[c].kind \in Batches, cl[c].pc # "idle",
           NEW slot \in Slots, Planned(cl[c].kind, slot),
           ~(cl[c].kind = "jobs" /\ Decision(c, slot).value = BadJob)
    PROVE  GoodEntry(cl[c].kind, cl[c].args.update, Decision(c, slot))
  <1> DEFINE kind == cl[c].kind
             u == cl[c].args.update
             current == setting[StoreOf(kind)][slot]
             d == Decision(c, slot)
             repeat == kind # "auto_time" /\ u \in settled[StoreOf(kind)][slot]
  <1>1. /\ d.slot = slot /\ d.status = Decide(kind, current, u).status
        /\ d.value = Decide(kind, current, u).value
        /\ d.repeat = repeat
    BY DEF Decision
  <1>2. ValidUpdate(kind, u) /\ u \in Updates[kind]
    BY DEF Coherent, Sound, Local, ArgsOK
  <1>3. d.repeat => d.status = "unchanged"
    <2>1. kind # "auto_time" => StoreOf(kind) = kind /\ kind \in Stores
      BY DEF StoreOf, Stores, Batches
    <2>2. repeat => Decide(kind, current, u).status = "unchanged"
      BY <2>1 DEF Settings
    <2> HIDE DEF d, repeat
    <2> QED BY <1>1, <2>2
  <1>4. ASSUME d.status = "changed" PROVE Lasting(kind, u, d.value)
    <2> HIDE DEF d
    <2>1. CASE kind = "schedules"
      <3>1. /\ Decide(kind, current, u) = DecideSchedule(current, u)
            /\ CompleteSchedule(current)
        BY <2>1, DecideCases DEF StoreOf, Settings, CompleteSettings
      <3>2. ValidScheduleUpdate(u) /\ u.enabled \in {None, "on", "off"}
        BY <1>2, <2>1, CommandsAssumption DEF ValidUpdate
      <3> HIDE DEF current, u, kind
      <3>3. /\ DecideSchedule(current, u).status = "changed"
            /\ d.value = DecideSchedule(current, u).value
        BY <1>1, <1>4, <3>1
      <3>4. CompleteSchedule(d.value) /\ DecideSchedule(d.value, u).status = "unchanged"
        BY <3>1, <3>2, <3>3, ScheduleLasts
      <3> QED BY <2>1, <3>4 DEF Lasting
    <2>2. CASE kind = "auto_time"
      <3>1. /\ Decide(kind, current, u) = DecideAutoTime(current)
            /\ CompleteSchedule(current) /\ current # NoSchedule
        BY <2>2, DecideCases DEF StoreOf, Settings, CompleteSettings, Planned
      <3>2. d.value = AutoTime(current)
        BY <1>1, <1>4, <3>1 DEF DecideAutoTime, Unchanged, Changed
      <3> QED BY <2>2, <3>1, <3>2, AutoTimeLasts DEF Lasting
    <2>3. CASE kind = "jobs"
      <3>1. /\ Decide(kind, current, u) = DecideJob(current, u)
            /\ CompleteJob(current)
        BY <2>3, DecideCases DEF StoreOf, Settings, CompleteSettings
      <3>2. ValidJobUpdate(u) /\ {u.enabled, u.automatic} \subseteq {None, "on", "off"}
        BY <1>2, <2>3, CommandsAssumption DEF ValidUpdate
      <3>3. d.value # BadJob
        BY <2>3 DEF d
      <3> HIDE DEF current, u, kind
      <3>4. /\ DecideJob(current, u).status = "changed"
            /\ d.value = DecideJob(current, u).value
        BY <1>1, <1>4, <3>1
      <3>5. CompleteJob(d.value) /\ DecideJob(d.value, u).status = "unchanged"
        BY <3>1, <3>2, <3>3, <3>4, JobLasts
      <3> QED BY <2>3, <3>5 DEF Lasting
    <2>4. CASE kind = "email"
      <3>1. /\ Decide(kind, current, u) = DecideEmail(current, u)
            /\ None \notin {current.manual, current.scheduled}
        BY <2>4, DecideCases DEF StoreOf, Settings, CompleteSettings
      <3> HIDE DEF current, u, kind
      <3>2. /\ DecideEmail(current, u).status = "changed"
            /\ d.value = DecideEmail(current, u).value
        BY <1>1, <1>4, <3>1
      <3>3. d.value = u
        BY <3>1, <3>2, EmailLasts
      <3> QED BY <2>4, <3>3 DEF Lasting
    <2> QED BY <2>1, <2>2, <2>3, <2>4 DEF Batches
  <1>5. d.status \in {"changed", "unchanged"}
    BY <1>1, DecideCases
  <1> QED BY <1>1, <1>3, <1>4, <1>5 DEF GoodEntry

(* A finite set of decisions is put in sequence without losing or          *)
(* inventing any.                                                          *)
LEMMA SequenceOf ==
    ASSUME NEW set, IsFiniteSet(set)
    PROVE  IsSeq(Sequence(set)) /\ \A i \in DOMAIN Sequence(set) : Sequence(set)[i] \in set
  <1> DEFINE n == Cardinality(set)
             s == Sequence(set)
  <1>1. n \in Nat /\ ExistsBijection(1 .. n, set)
    BY FS_CardinalityType
  <1>2. PICK f \in [1 .. n -> set] : \A x \in set : \E i \in 1 .. n : f[i] = x
    BY <1>1 DEF ExistsBijection, Bijection, Surjection
  <1>3. \A x \in set : \E i \in DOMAIN f : f[i] = x
    BY <1>2
  <1>4. s \in [1 .. n -> set]
    BY <1>2, <1>3 DEF Sequence
  <1> HIDE DEF s, n
  <1>5. s \in Seq({s[i] : i \in DOMAIN s}) /\ \A i \in DOMAIN s : s[i] \in set
    BY <1>1, <1>4
  <1> QED BY <1>5 DEF s, IsSeq

(* Concatenation, by a name of its own.                                    *)
Join(s, t) == s \o t

(* Concatenated plans are good if both parts are.                          *)
LEMMA Joined ==
    ASSUME NEW s, NEW t, IsSeq(s), IsSeq(t)
    PROVE  /\ IsSeq(Join(s, t)) /\ DOMAIN s \subseteq DOMAIN Join(s, t)
           /\ \A i \in DOMAIN Join(s, t) : \/ i \in DOMAIN s /\ Join(s, t)[i] = s[i]
                                           \/ \E j \in DOMAIN t : Join(s, t)[i] = t[j]
  <1> DEFINE X == {s[i] : i \in DOMAIN s} \cup {t[i] : i \in DOMAIN t}
             r == s \o t
  <1>1. s \in Seq(X) /\ t \in Seq(X)
    BY DEF IsSeq
  <1> HIDE DEF X
  <1>2. /\ Len(s) \in Nat /\ Len(t) \in Nat
        /\ DOMAIN s = 1 .. Len(s) /\ DOMAIN t = 1 .. Len(t)
    BY <1>1
  <1>3. /\ r \in Seq(X) /\ DOMAIN r = 1 .. Len(s) + Len(t) /\ Len(r) = Len(s) + Len(t)
        /\ \A i \in 1 .. Len(s) + Len(t) :
              r[i] = IF i <= Len(s) THEN s[i] ELSE t[i - Len(s)]
    BY <1>1
  <1> HIDE DEF r
  <1>4. r \in Seq({r[i] : i \in DOMAIN r}) /\ DOMAIN s \subseteq DOMAIN r
    BY <1>2, <1>3
  <1>5. ASSUME NEW i \in DOMAIN r
        PROVE  (i \in DOMAIN s /\ r[i] = s[i]) \/ \E j \in DOMAIN t : r[i] = t[j]
    <2>1. CASE i <= Len(s)
      BY <1>2, <1>3, <2>1
    <2>2. CASE ~(i <= Len(s))
      <3>1. i - Len(s) \in DOMAIN t /\ r[i] = t[i - Len(s)]
        BY <1>2, <1>3, <2>2
      <3> QED BY <3>1
    <2> QED BY <2>1, <2>2
  <1> QED BY <1>4, <1>5 DEF r, IsSeq, Join

(* NextWrite finds the next decision that writes, or the end of the plan.  *)
LEMMA NextWriteFound ==
    ASSUME NEW plan, IsSeq(plan),
           \A i \in DOMAIN plan : plan[i].status \in {"changed", "unchanged"},
           NEW i \in 1 .. Len(plan) + 1
    PROVE  LET j == NextWrite(plan, i)
           IN  /\ j \in i .. Len(plan) + 1
               /\ j > Len(plan) \/ (j \in DOMAIN plan /\ plan[j].status = "changed")
               /\ \A m \in i .. (j - 1) : m \in DOMAIN plan /\ plan[m].status = "unchanged"
  <1> DEFINE N == {j \in i .. Len(plan) + 1 : j > Len(plan) \/ plan[j].status = "changed"}
  <1>1. Len(plan) \in Nat /\ DOMAIN plan = 1 .. Len(plan)
    BY DEF IsSeq
  <1>2. N \in SUBSET Nat /\ N # {}
    <2>1. Len(plan) + 1 \in N
      BY <1>1
    <2> QED BY <1>1, <2>1
  <1>3. PICK j \in N : \A y \in N : j <= y
    BY <1>2, LeastNumber
  <1>4. \A m \in i .. (j - 1) : m \in DOMAIN plan /\ m \notin N
    BY <1>1, <1>3
  <1>5. \A m \in i .. (j - 1) : m \in DOMAIN plan /\ plan[m].status = "unchanged"
    BY <1>1, <1>3, <1>4
  <1>6. \E x \in i .. Len(plan) + 1 : /\ x > Len(plan) \/ plan[x].status = "changed"
                                      /\ \A m \in i .. (x - 1) : plan[m].status = "unchanged"
    BY <1>3, <1>5
  <1> DEFINE k == NextWrite(plan, i)
  <1>7. /\ k \in i .. Len(plan) + 1
        /\ k > Len(plan) \/ plan[k].status = "changed"
        /\ \A m \in i .. (k - 1) : plan[m].status = "unchanged"
    BY <1>6 DEF NextWrite
  <1> HIDE DEF k
  <1>8. \A m \in i .. (k - 1) : m \in DOMAIN plan
    BY <1>1, <1>7
  <1>9. k > Len(plan) \/ k \in DOMAIN plan
    BY <1>1, <1>7
  <1> QED BY <1>7, <1>8, <1>9 DEF k

(* v goes on from the command of c towards its settings.                   *)
Batching(c, v) ==
    /\ HasFields(v) /\ cl[c].kind \in Batches /\ cl[c].pc # "idle" /\ v.pc \in {"settings", "apply"}
    /\ v.kind = cl[c].kind /\ v.args = cl[c].args /\ v.result = cl[c].result
    /\ v.unread \subseteq Project /\ v.found \subseteq Refs /\ v.keys = cl[c].keys
    /\ v.todo \subseteq Refs \X SUBSET AuditKey /\ (v.pc = "settings" => v.todo # {})
    /\ v.creds = cl[c].creds /\ v.at = cl[c].at
    /\ v.attempt = 1 /\ v.waited = 0

(* Going on towards the settings preserves the invariant.                  *)
LEMMA BatchingSound ==
    ASSUME NEW c \in Client, NEW S, NEW R, NEW T, Sound(cl[c], S, R, T), NEW v, NEW S2,
           Batching(c, v), PlanOK(v), Wrote(v, S2)
    PROVE  Sound(v, S2, R, T) /\ v.kind = cl[c].kind
  <1>1. v.result = "none" /\ v.kind # "add" /\ v.kind \in Batches
    BY DEF Sound, Local, KindOK, None, Batching, Batches
  <1>2. KindOK(v)
    BY <1>1 DEF Sound, Local, KindOK, Batching
  <1>3. WaitOK(v)
    BY TransportAssumption DEF WaitOK, Batching
  <1>4. ArgsOK(v)
    BY DEF Sound, Local, ArgsOK, Batching
  <1>5. RefsOK(v)
    BY <1>1 DEF Sound, Local, RefsOK, TargetSet, ProjectSet, Batching
  <1>6. DiscoverOK(v)
    BY DEF Sound, Local, DiscoverOK, Batching
  <1>7. Backing(v, R, T)
    BY <1>1 DEF Backing
  <1> QED BY <1>1, <1>2, <1>3, <1>4, <1>5, <1>6, <1>7 DEF Sound, Local, Batching

(* What a batch reads are settings of repositories it found and audits of  *)
(* the catalog.                                                            *)
LEMMA UnitsType ==
    ASSUME NEW kind, NEW targets \in SUBSET Refs, NEW keys \in SUBSET AuditKey
    PROVE  ReadUnits(kind, targets, keys) \subseteq Refs \X SUBSET AuditKey
  BY DEF ReadUnits

(* A batch reads the details of its targets.                               *)
LEMMA BatchDetailStep ==
    ASSUME NEW c \in Client, Shared, Coherent(c), BatchDetail(c)
    PROVE  Stepped(c) /\ UNCHANGED service
  <1> DEFINE args == cl[c].args
             w(p) == DetailRead(c, p)
             targets(p) == IF args.repo = None THEN w(p).found
                           ELSE RepositoryMatches(w(p).found, args.repo, args.name)
             units(p) == ReadUnits(cl[c].kind, targets(p), cl[c].keys)
             v(p) == [w(p) EXCEPT !.pc = "settings", !.todo = units(p), !.found = {}]
             next(p) == IF args.repo # None /\ ~One(targets(p)) THEN End(c, "error")
                        ELSE IF units(p) = {} THEN End(c, "completed")
                        ELSE v(p)
  <1>1. cl[c].kind \in Batches /\ cl[c].pc = "detail"
    BY DEF BatchDetail
  <1>2. PICK p \in cl[c].unread : ReadDetail(c, p, next(p))
    BY DEF BatchDetail
  <1>3. /\ Detailed(c, p, w(p)) /\ HasFields(w(p))
        /\ w(p).found = cl[c].found \cup RepositoryRefs(p)
    BY <1>1, DetailFields
  <1>4. w(p).found \subseteq Refs
    BY <1>1, <1>2, <1>3, FoundSound
  <1>5. units(p) \subseteq Refs \X SUBSET AuditKey
    <2>1. targets(p) \in SUBSET Refs
      BY <1>4 DEF RepositoryMatches
    <2>2. cl[c].keys \in SUBSET AuditKey
      BY DEF Coherent, Sound, Local, RefsOK
    <2> HIDE DEF targets
    <2> QED BY <2>1, <2>2, UnitsType
  <1>6. cl[c].plan = <<>> /\ cl[c].held = {} /\ cl[c].unread \subseteq Project
    BY <1>1 DEF Coherent, Sound, Local, PlanOK, RefsOK
  <1> HIDE DEF units, w
  <1>7. /\ units(p) # {} => Batching(c, v(p))
        /\ v(p).plan = <<>> /\ v(p).held = {} /\ v(p).pc = "settings" /\ v(p).result = cl[c].result
    <2>1. /\ v(p).attempt = 1 /\ v(p).waited = 0
      BY <1>3 DEF HasFields, DetailRead, Goto, w, Coherent, Sound, Local
    <2> QED BY <1>1, <1>3, <1>5, <1>6, <2>1 DEF Batching, Detailed, Onward, HasFields
  <1> HIDE DEF v
  <1>8. PlanOK(v(p)) /\ Wrote(v(p), written[c])
    <2>1. written[c] = {} /\ cl[c].result = "none"
      BY <1>1 DEF Coherent, Sound, Wrote, Local, KindOK, None
    <2> QED BY <1>7, <2>1 DEF PlanOK, IsSeq, Wrote
  <1>9. units(p) # {} => Sound(v(p), written[c], recon, taken[c]) /\ v(p).kind = cl[c].kind
    BY <1>7, <1>8, BatchingSound DEF Coherent
  <1>10. /\ Sound(End(c, "error"), written[c], recon, taken[c]) /\ End(c, "error").kind = cl[c].kind
         /\ Sound(End(c, "completed"), written[c], recon, taken[c])
         /\ End(c, "completed").kind = cl[c].kind
    BY <1>1, EndSound DEF Coherent, Results
  <1>11. Sound(next(p), written[c], recon, taken[c]) /\ next(p).kind = cl[c].kind
    BY <1>9, <1>10
  <1> HIDE DEF next
  <1> QED BY <1>1, <1>2, <1>11, ReadDetailStep

(* Decisions that are unchanged add nothing to what is written.            *)
LEMMA ChangedNone ==
    ASSUME NEW plan, IsSeq(plan), NEW m \in Nat, NEW n \in Nat, m <= n,
           \A i \in m + 1 .. n : i \in DOMAIN plan => plan[i].status = "unchanged"
    PROVE  ChangedUpTo(plan, n) = ChangedUpTo(plan, m)
  <1>1. DOMAIN plan = 1 .. Len(plan) /\ Len(plan) \in Nat
    BY DEF IsSeq
  <1>2. \A i \in DOMAIN plan :
          (i <= n /\ plan[i].status = "changed") <=> (i <= m /\ plan[i].status = "changed")
    BY <1>1
  <1>3. {i \in DOMAIN plan : i <= n /\ plan[i].status = "changed"}
          = {i \in DOMAIN plan : i <= m /\ plan[i].status = "changed"}
    BY <1>2
  <1> QED BY <1>3 DEF ChangedUpTo

(* The decision at k adds its own slot.                                    *)
LEMMA ChangedNext ==
    ASSUME NEW plan, IsSeq(plan), NEW k \in DOMAIN plan, plan[k].status = "changed"
    PROVE  /\ ChangedUpTo(plan, k) = ChangedUpTo(plan, k - 1) \cup {plan[k].slot}
           /\ k \in Nat \ {0}
  <1>1. DOMAIN plan = 1 .. Len(plan) /\ Len(plan) \in Nat
    BY DEF IsSeq
  <1>2. \A i \in DOMAIN plan : i <= k <=> (i <= k - 1 \/ i = k)
    BY <1>1
  <1> QED BY <1>1, <1>2 DEF ChangedUpTo

(* What a batch keeps while it plans and writes.                           *)
BatchFrame(c, w) ==
    /\ HasFields(w) /\ cl[c].kind \in Batches /\ cl[c].pc # "idle"
    /\ w.kind = cl[c].kind /\ w.args = cl[c].args /\ w.result = cl[c].result
    /\ w.unread \subseteq Project /\ w.found \subseteq Refs /\ w.keys = cl[c].keys
    /\ w.todo \subseteq Refs \X SUBSET AuditKey
    /\ w.creds = cl[c].creds /\ w.at = cl[c].at

(* A plan of good decisions.                                               *)
GoodPlan(kind, u, plan) ==
    IsSeq(plan) /\ \A i \in DOMAIN plan : GoodEntry(kind, u, plan[i])

(* The end of a batch, with its plan and progress.                         *)
Replanned(e, plan, held, k) == [e EXCEPT !.plan = plan, !.held = held, !.k = k]

(* A batch at write k.                                                     *)
Applying(w, k, held) ==
    [w EXCEPT !.pc = "apply", !.k = k, !.held = held, !.attempt = 1, !.waited = 0]

(* A batch that ends behind its last write may report completion.          *)
LEMMA CompletedSound ==
    ASSUME NEW c \in Client, NEW S, NEW R, NEW T, Sound(cl[c], S, R, T),
           cl[c].kind \in Batches, NEW plan, GoodPlan(cl[c].kind, cl[c].args.update, plan),
           NEW held \in SUBSET DOMAIN plan, NEW k
    PROVE  LET v == Replanned(End(c, "completed"), plan, held, k)
           IN  Sound(v, ChangedUpTo(plan, Len(plan)), R, T) /\ v.kind = cl[c].kind
  <1> DEFINE e == End(c, "completed")
             v == Replanned(e, plan, held, k)
             X == ChangedUpTo(plan, Len(plan))
  <1>1. Local(e)
    BY EndLocal DEF Sound, Results
  <1>2. e.kind = cl[c].kind /\ e.args = cl[c].args /\ e.result = "completed" /\ e.pc = "idle"
    BY DEF End, Idle
  <1> HIDE DEF e
  <1>3. /\ HasFields(v) /\ v.kind = e.kind /\ v.args = e.args /\ v.result = "completed"
        /\ v.pc = "idle" /\ v.plan = plan /\ v.held = held
        /\ v.unread = e.unread /\ v.found = e.found /\ v.todo = e.todo /\ v.keys = e.keys
        /\ v.creds = e.creds /\ v.at = e.at /\ v.attempt = e.attempt /\ v.waited = e.waited
    BY <1>1, <1>2 DEF Replanned, Local, HasFields
  <1> HIDE DEF v
  <1>4. KindOK(v) /\ WaitOK(v)
    BY <1>1, <1>2, <1>3 DEF Local, KindOK, WaitOK
  <1>5. ArgsOK(v) /\ DiscoverOK(v)
    BY <1>1, <1>2, <1>3 DEF Local, ArgsOK, DiscoverOK
  <1>6. RefsOK(v)
    BY <1>1, <1>2, <1>3 DEF Local, RefsOK, TargetSet, ProjectSet
  <1>7. PlanOK(v)
    BY <1>2, <1>3 DEF PlanOK, GoodPlan
  <1>8. Wrote(v, X)
    <2>1. X \subseteq Slots
      BY DEF GoodPlan, GoodEntry, ChangedUpTo
    <2> QED BY <1>3, <2>1 DEF Wrote
  <1>9. Backing(v, R, T)
    BY <1>2, <1>3 DEF Backing, Batches
  <1> QED BY <1>2, <1>3, <1>4, <1>5, <1>6, <1>7, <1>8, <1>9 DEF Sound, Local, v, e

(* A batch goes on with decision i = n + 1, everything up to n written.    *)
GoesOn(c, w, i, n) ==
    /\ BatchFrame(c, w) /\ GoodPlan(w.kind, w.args.update, w.plan)
    /\ w.held \subseteq DOMAIN w.plan
    /\ i \in 1 .. Len(w.plan) + 1 /\ n \in Nat /\ i = n + 1

(* execute_batch goes on to the next write, or completes, in order.        *)
LEMMA ContinueSound ==
    ASSUME NEW c \in Client, NEW S, NEW R, NEW T, Sound(cl[c], S, R, T),
           NEW w, NEW i, NEW n, GoesOn(c, w, i, n)
    PROVE  LET v == Continue(c, w, i)
           IN  /\ Sound(v, ChangedUpTo(w.plan, n), R, T)
               /\ v.kind = cl[c].kind /\ v.plan = w.plan /\ HasFields(v)
  <1> DEFINE j == NextWrite(w.plan, i)
             held == w.held \cup i .. (j - 1)
             X == ChangedUpTo(w.plan, n)
  <1> USE DEF GoesOn
  <1>1. Len(w.plan) \in Nat /\ DOMAIN w.plan = 1 .. Len(w.plan)
    BY DEF GoodPlan, IsSeq
  <1>2. /\ j \in i .. Len(w.plan) + 1
        /\ j > Len(w.plan) \/ (j \in DOMAIN w.plan /\ w.plan[j].status = "changed")
        /\ \A m \in i .. (j - 1) : m \in DOMAIN w.plan /\ w.plan[m].status = "unchanged"
    BY NextWriteFound DEF GoodPlan, GoodEntry
  <1> HIDE DEF j
  <1>3. held \in SUBSET DOMAIN w.plan
    BY <1>2
  <1>4. ChangedUpTo(w.plan, j - 1) = X
    <2>1. /\ j - 1 \in Nat /\ n <= j - 1
          /\ \A m \in n + 1 .. j - 1 : m \in DOMAIN w.plan => w.plan[m].status = "unchanged"
      BY <1>1, <1>2
    <2> QED BY <2>1, ChangedNone DEF GoodPlan
  <1> HIDE DEF held
  <1>5. CASE j > Len(w.plan)
    <2> DEFINE v == Replanned(End(c, "completed"), w.plan, held, j)
    <2>1. Continue(c, w, i) = v
      BY <1>5 DEF Continue, Replanned, j, held
    <2>2. j - 1 = Len(w.plan)
      BY <1>1, <1>2, <1>5
    <2>3. Sound(v, ChangedUpTo(w.plan, Len(w.plan)), R, T) /\ v.kind = cl[c].kind
      <3>1. cl[c].kind \in Batches /\ GoodPlan(cl[c].kind, cl[c].args.update, w.plan)
        BY DEF BatchFrame
      <3> QED BY <1>3, <3>1, CompletedSound
    <2>4. v.plan = w.plan
      BY DEF Replanned, End, Idle
    <2> HIDE DEF v
    <2> QED BY <1>4, <2>1, <2>2, <2>3, <2>4 DEF Sound, Local
  <1>6. CASE ~(j > Len(w.plan))
    <2> DEFINE v == Applying(w, j, held)
    <2>1. Continue(c, w, i) = v
      BY <1>6 DEF Continue, Applying, j, held
    <2>2. /\ Batching(c, v) /\ v.pc = "apply" /\ v.k = j /\ v.held = held /\ v.plan = w.plan
      BY DEF Batching, BatchFrame, Applying, HasFields
    <2> HIDE DEF v
    <2>3. PlanOK(v)
      BY <1>2, <1>3, <1>6, <2>2 DEF PlanOK, GoodPlan, Batching, BatchFrame
    <2>4. X \subseteq Slots
      BY DEF GoodPlan, GoodEntry, ChangedUpTo
    <2>5. ChangedUpTo(w.plan, j) = X \cup {w.plan[j].slot}
      BY <1>2, <1>4, <1>6, ChangedNext DEF GoodPlan
    <2>6. v.result = "none"
      BY <2>2 DEF Batching, Sound, Local, KindOK, None
    <2>7. Wrote(v, X)
      BY <1>4, <2>2, <2>4, <2>5, <2>6 DEF Wrote
    <2>8. Sound(v, X, R, T) /\ v.kind = cl[c].kind
      BY <2>2, <2>3, <2>7, BatchingSound
    <2> QED BY <2>1, <2>2, <2>8 DEF Batching
  <1> QED BY <1>5, <1>6

(* Marking a decision as held changes nothing else.                        *)
LEMMA HeldMore ==
    ASSUME NEW v, NEW S, NEW R, NEW T, Sound(v, S, R, T), NEW H \in SUBSET DOMAIN v.plan
    PROVE  LET u == [v EXCEPT !.held = @ \cup H]
           IN  Sound(u, S, R, T) /\ u.kind = v.kind
  <1> DEFINE u == [v EXCEPT !.held = @ \cup H]
  <1>1. /\ HasFields(u)
        /\ u.kind = v.kind /\ u.args = v.args /\ u.target = v.target /\ u.project = v.project
        /\ u.plan = v.plan /\ u.held = v.held \cup H /\ u.k = v.k
        /\ u.pc = v.pc /\ u.result = v.result /\ u.recon = v.recon
        /\ u.unread = v.unread /\ u.found = v.found /\ u.todo = v.todo
        /\ u.keys = v.keys /\ u.creds = v.creds /\ u.total = v.total
        /\ u.at = v.at /\ u.pages = v.pages /\ u.attempt = v.attempt /\ u.waited = v.waited
    BY DEF HasFields, Sound, Local
  <1> HIDE DEF u
  <1>2. KindOK(u) /\ WaitOK(u)
    BY <1>1 DEF Sound, Local, KindOK, WaitOK
  <1>3. ArgsOK(u) /\ DiscoverOK(u)
    BY <1>1 DEF Sound, Local, ArgsOK, DiscoverOK
  <1>4. RefsOK(u)
    BY <1>1 DEF Sound, Local, RefsOK, TargetSet, ProjectSet
  <1>5. PlanOK(u)
    BY <1>1 DEF Sound, Local, PlanOK
  <1>6. Wrote(u, S) /\ Backing(u, R, T)
    BY <1>1 DEF Sound, Wrote, Backing, TargetSet
  <1> QED BY <1>1, <1>2, <1>3, <1>4, <1>5, <1>6 DEF Sound, Local, u

(* The endpoints settings are read from and written to.                    *)
LEMMA SettingsEndpointUsed ==
    ASSUME NEW kind \in Batches
    PROVE  SettingsEndpoint(kind) \in Endpoints /\ WriteEndpoint(kind) \in Endpoints
  <1>1. SettingsEndpoint(kind) \in
          {"audit_auto_runs", "improvement_jobs", "audit_email_preferences_get"}
    BY DEF Batches, SettingsEndpoint
  <1>2. WriteEndpoint(kind) \in
          {"audit_auto_run_put", "improvement_job_put", "audit_email_preferences_put"}
    BY DEF Batches, WriteEndpoint
  <1> QED BY <1>1, <1>2, EndpointsUsed

(* A batch makes finitely many decisions.                                  *)
LEMMA DecisionsFinite ==
    ASSUME NEW c, NEW kind, NEW r, NEW keys \in SUBSET AuditKey
    PROVE  IsFiniteSet({Decision(c, slot) :
                          slot \in {s \in {<<r, k>> : k \in keys} : Planned(kind, s)}})
  <1> DEFINE P == {s \in {<<r, k>> : k \in keys} : Planned(kind, s)}
             D == {Decision(c, slot) : slot \in P}
             K == {k \in keys : Planned(kind, <<r, k>>)}
             f == [k \in K |-> Decision(c, <<r, k>>)]
  <1>1. IsFiniteSet(K)
    BY FS_Subset, CommandsAssumption
  <1>2. f \in [K -> D]
    OBVIOUS
  <1>3. ASSUME NEW d \in D PROVE \E k \in K : f[k] = d
    <2>1. PICK s \in P : d = Decision(c, s)
      OBVIOUS
    <2>2. PICK k \in keys : s = <<r, k>>
      OBVIOUS
    <2>3. k \in K /\ f[k] = d
      BY <2>1, <2>2
    <2> QED BY <2>3
  <1>4. f \in Surjection(K, D)
    BY <1>2, <1>3 DEF Surjection
  <1> HIDE DEF f, K
  <1> QED BY <1>1, <1>4, FS_Surjection

(* A batch reads settings and plans, or starts to write.                   *)
LEMMA ReadSettingsStep ==
    ASSUME NEW c \in Client, Shared, Settings, Coherent(c), ReadSettings(c)
    PROVE  Stepped(c) /\ UNCHANGED service
  <1> DEFINE unit == CHOOSE unit \in cl[c].todo : TRUE
             t == unit[1]
             slots == {<<t.repo, k>> : k \in unit[2]}
             decisions == {Decision(c, slot) : slot \in {s \in slots : Planned(cl[c].kind, s)}}
             plan == Join(cl[c].plan, Sequence(decisions))
             w == [Goto(c, "settings") EXCEPT !.todo = @ \ {unit},
                                              !.plan = @ \o Sequence(decisions)]
             bad == \E d \in decisions : cl[c].kind = "jobs" /\ d.value = BadJob
             next == IF bad THEN End(c, "error")
                     ELSE IF w.todo # {} THEN w ELSE Continue(c, w, 1)
  <1>1. /\ cl[c].kind \in Batches /\ cl[c].pc = "settings"
        /\ Read(c, SettingsEndpoint(cl[c].kind), member[<<t.project, t.repo>>] # "absent", next)
    BY DEF ReadSettings
  <1>2. /\ cl[c].todo # {} /\ cl[c].todo \subseteq Refs \X SUBSET AuditKey
        /\ cl[c].unread \subseteq Project /\ cl[c].found \subseteq Refs
    BY <1>1 DEF Coherent, Sound, Local, RefsOK
  <1>3. unit \in cl[c].todo
    BY <1>2
  <1>4. t.repo \in Repo /\ unit[2] \in SUBSET AuditKey
    BY <1>2, <1>3 DEF Refs
  <1> HIDE DEF unit
  <1>5. slots \subseteq Slots
    BY <1>4 DEF Slots
  <1>6. IsFiniteSet(decisions)
    BY <1>4, DecisionsFinite
  <1>7. ~bad => \A d \in decisions : GoodEntry(cl[c].kind, cl[c].args.update, d)
    BY <1>1, <1>5, DecisionGood
  <1> HIDE DEF decisions
  <1>8. /\ IsSeq(cl[c].plan) /\ cl[c].held \subseteq DOMAIN cl[c].plan
        /\ \A i \in DOMAIN cl[c].plan : GoodEntry(cl[c].kind, cl[c].args.update, cl[c].plan[i])
    BY DEF Coherent, Sound, Local, PlanOK
  <1>9. /\ IsSeq(Sequence(decisions))
        /\ \A i \in DOMAIN Sequence(decisions) : Sequence(decisions)[i] \in decisions
    BY <1>6, SequenceOf
  <1>10. /\ ~bad => GoodPlan(cl[c].kind, cl[c].args.update, plan)
         /\ cl[c].held \subseteq DOMAIN plan /\ IsSeq(plan)
    <2>1. /\ IsSeq(plan) /\ DOMAIN cl[c].plan \subseteq DOMAIN plan
          /\ \A i \in DOMAIN plan :
                \/ i \in DOMAIN cl[c].plan /\ plan[i] = cl[c].plan[i]
                \/ \E j \in DOMAIN Sequence(decisions) : plan[i] = Sequence(decisions)[j]
      BY <1>8, <1>9, Joined
    <2> HIDE DEF plan, bad
    <2> QED BY <1>7, <1>8, <1>9, <2>1 DEF GoodPlan
  <1>11. /\ HasFields(w) /\ w.pc = "settings" /\ w.kind = cl[c].kind /\ w.args = cl[c].args
         /\ w.result = cl[c].result /\ w.unread = cl[c].unread /\ w.found = cl[c].found
         /\ w.keys = cl[c].keys /\ w.todo = cl[c].todo \ {unit} /\ w.creds = cl[c].creds
         /\ w.at = cl[c].at /\ w.attempt = 1 /\ w.waited = 0 /\ w.plan = plan
         /\ w.held = cl[c].held
    BY DEF Goto, Coherent, Sound, Local, HasFields, Join
  <1> HIDE DEF w, plan, bad
  <1>12. written[c] = {} /\ cl[c].result = "none"
    BY <1>1 DEF Coherent, Sound, Wrote, Local, KindOK, None
  <1>13. ASSUME ~bad, w.todo # {}
         PROVE  Sound(w, written[c], recon, taken[c]) /\ w.kind = cl[c].kind
    <2>1. Batching(c, w)
      BY <1>1, <1>2, <1>11, <1>13 DEF Batching
    <2>2. PlanOK(w)
      BY <1>10, <1>11, <1>13 DEF PlanOK, GoodPlan
    <2>3. Wrote(w, written[c])
      BY <1>11, <1>12 DEF Wrote
    <2> QED BY <2>1, <2>2, <2>3, BatchingSound DEF Coherent
  <1>14. ASSUME ~bad
         PROVE  /\ Sound(Continue(c, w, 1), written[c], recon, taken[c])
                /\ Continue(c, w, 1).kind = cl[c].kind
    <2>1. BatchFrame(c, w)
      BY <1>1, <1>2, <1>11 DEF BatchFrame
    <2>2. GoodPlan(w.kind, w.args.update, w.plan) /\ w.held \subseteq DOMAIN w.plan
      BY <1>10, <1>11, <1>14
    <2>3. DOMAIN w.plan = 1 .. Len(w.plan) /\ 1 \in 1 .. Len(w.plan) + 1
      BY <1>10, <1>11 DEF IsSeq
    <2>4. ChangedUpTo(w.plan, 0) = {}
      BY <2>3 DEF ChangedUpTo
    <2>5. /\ Sound(Continue(c, w, 1), ChangedUpTo(w.plan, 0), recon, taken[c])
          /\ Continue(c, w, 1).kind = cl[c].kind
      <3>1. GoesOn(c, w, 1, 0)
        BY <2>1, <2>2, <2>3 DEF GoesOn
      <3>2. Sound(cl[c], written[c], recon, taken[c])
        BY DEF Coherent
      <3> QED BY <3>1, <3>2, ContinueSound
    <2> QED BY <1>12, <2>4, <2>5
  <1>15. Sound(next, written[c], recon, taken[c]) /\ next.kind = cl[c].kind
    BY <1>13, <1>14, PlainEnd DEF Coherent, Results
  <1> HIDE DEF next
  <1>16. SettingsEndpoint(cl[c].kind) \in Endpoints
    BY <1>1, SettingsEndpointUsed
  <1> QED BY <1>1, <1>15, <1>16, ReadStep DEF Shared

(* The decision a batch is writing.                                        *)
Entry(c) == cl[c].plan[cl[c].k]

(* The effect of that write.                                               *)
Stored(c) == Store(c, cl[c].kind, Entry(c).slot, Entry(c).value, cl[c].args.update)

(* A batch writes one setting; after a failure it stops.                   *)
LEMMA WriteStep ==
    ASSUME NEW c \in Client, Shared, Coherent(c), Write(c)
    PROVE  /\ Stepped(c) /\ cl[c].kind \in Batches /\ cl[c].pc = "apply"
           /\ GoodEntry(cl[c].kind, cl[c].args.update, Entry(c)) /\ Entry(c).status = "changed"
           /\ Stored(c) \/ UNCHANGED service
  <1> DEFINE allowed == \E p \in Project : member[<<p, Entry(c).slot[1]>>] # "absent"
             on == Continue(c, cl[c], cl[c].k + 1)
             next == [on EXCEPT !.held = @ \cup {cl[c].k}]
             X == ChangedUpTo(cl[c].plan, cl[c].k)
  <1>1. /\ cl[c].kind \in Batches /\ cl[c].pc = "apply"
        /\ Request(c, WriteEndpoint(cl[c].kind), allowed, Stored(c), next, BatchFails(c))
    BY DEF Write, Stored, Entry
  <1>2. /\ cl[c].k \in DOMAIN cl[c].plan /\ Entry(c).status = "changed"
        /\ GoodPlan(cl[c].kind, cl[c].args.update, cl[c].plan)
        /\ cl[c].held \subseteq DOMAIN cl[c].plan
    BY <1>1 DEF Coherent, Sound, Local, PlanOK, Entry, GoodPlan
  <1>3. GoodEntry(cl[c].kind, cl[c].args.update, Entry(c)) /\ IsSeq(cl[c].plan)
    BY <1>2 DEF GoodPlan, Entry
  <1>4. /\ X = ChangedUpTo(cl[c].plan, cl[c].k - 1) \cup {Entry(c).slot}
        /\ cl[c].k \in Nat \ {0}
    BY <1>2, <1>3, ChangedNext DEF Entry
  <1>5. GoesOn(c, cl[c], cl[c].k + 1, cl[c].k)
    <2>1. BatchFrame(c, cl[c])
      BY <1>1 DEF Coherent, Sound, Local, RefsOK, BatchFrame
    <2>2. DOMAIN cl[c].plan = 1 .. Len(cl[c].plan) /\ Len(cl[c].plan) \in Nat
      BY <1>3 DEF IsSeq
    <2> QED BY <1>2, <1>4, <2>1, <2>2 DEF GoesOn
  <1>6. ASSUME NEW S, NEW R, NEW T, Sound(cl[c], S, R, T)
        PROVE  /\ Sound(next, X, R, T)
               /\ next.kind = cl[c].kind
    <2>1. Sound(on, X, R, T) /\ on.kind = cl[c].kind /\ on.plan = cl[c].plan
      BY <1>5, <1>6, ContinueSound
    <2>2. {cl[c].k} \in SUBSET DOMAIN on.plan
      BY <1>2, <2>1
    <2> HIDE DEF on
    <2>3. Sound(next, X, R, T) /\ next.kind = on.kind
      BY <2>1, <2>2, HeldMore
    <2> QED BY <2>1, <2>3
  <1> HIDE DEF next, on, allowed
  <1>7. next.kind = cl[c].kind
    BY <1>6 DEF Coherent
  <1>8. ASSUME Stored(c)
        PROVE  /\ Sound(cl[c], written'[c], recon', taken'[c])
               /\ Sound(next, written'[c], recon', taken'[c])
    <2>1. /\ written'[c] = written[c] \cup {Entry(c).slot}
          /\ recon' = recon /\ taken' = taken
      BY <1>8 DEF Stored, Store, Shared
    <2>2. /\ ChangedUpTo(cl[c].plan, cl[c].k - 1) \subseteq written[c] /\ written[c] \subseteq X
          /\ written[c] \subseteq Slots /\ cl[c].result = "none"
      BY <1>1 DEF Coherent, Sound, Wrote, Local, KindOK, None
    <2>3. written'[c] = X /\ X \subseteq Slots
      BY <1>3, <1>4, <2>1, <2>2 DEF GoodEntry
    <2>4. Wrote(cl[c], X)
      BY <1>1, <1>4, <2>2, <2>3 DEF Wrote
    <2>5. Sound(cl[c], X, recon, taken[c])
      BY <2>4 DEF Coherent, Sound
    <2>6. Sound(next, X, recon, taken[c])
      BY <1>6, <2>5
    <2> QED BY <2>1, <2>3, <2>5, <2>6
  <1>9. /\ \A S, R, T : Sound(cl[c], S, R, T) => Sound(BatchFails(c), S, R, T)
        /\ BatchFails(c).kind = cl[c].kind
    <2> DEFINE r == IF cl[c].k > 1 THEN "partial" ELSE "failed"
    <2>1. BatchFails(c) = End(c, r) /\ r \in {"partial", "failed"} /\ r \in Results
      BY DEF BatchFails, Results
    <2> HIDE DEF r
    <2>2. End(c, r).kind = cl[c].kind
      BY DEF End, Idle
    <2> QED BY <1>1, <2>1, <2>2, EndSound
  <1>10. WriteEndpoint(cl[c].kind) \in Endpoints
    BY <1>1, SettingsEndpointUsed
  <1>11. /\ Stepped(c)
         /\ Answered(c, WriteEndpoint(cl[c].kind), allowed, Stored(c), next, BatchFails(c))
    BY <1>1, <1>7, <1>8, <1>9, <1>10, RequestStep DEF Shared
  <1> QED BY <1>1, <1>2, <1>3, <1>11 DEF Answered, NoEffect

(* A good decision that is stored leaves all settings complete, and its    *)
(* update the one that would be unchanged.                                 *)
LEMMA SettingsKept ==
    ASSUME NEW c \in Client, Settings, cl[c].kind \in Batches, Stored(c),
           GoodEntry(cl[c].kind, cl[c].args.update, Entry(c)), Entry(c).status = "changed"
    PROVE  Settings'
  <1> DEFINE kind == cl[c].kind
             u == cl[c].args.update
             store == StoreOf(kind)
             slot == Entry(c).slot
             v == Entry(c).value
             old == setting[store][slot]
             new == IF kind = "email" THEN MergeEmail(old, v) ELSE v
             given == IF kind = "auto_time" THEN {} ELSE {u}
  <1>1. kind \in Batches /\ store \in Stores /\ slot \in Slots /\ Lasting(kind, u, v)
    BY DEF StoreOf, Stores, Batches, GoodEntry
  <1>2. /\ DOMAIN setting = Stores /\ \A s \in Stores : DOMAIN setting[s] = Slots
        /\ DOMAIN settled = Stores /\ \A s \in Stores : DOMAIN settled[s] = Slots
    BY DEF Settings, CompleteSettings, Stores
  <1>3. /\ setting' = [setting EXCEPT ![store][slot] = new]
        /\ settled' = [settled EXCEPT ![store][slot] = given]
    BY DEF Stored, Store
  <1>4. /\ store = "schedules" => CompleteSchedule(new)
        /\ store = "jobs" => CompleteJob(new)
        /\ store = "email" => None \notin {new.manual, new.scheduled}
        /\ \A x \in given : Decide(store, new, x).status = "unchanged"
    <2>1. CASE kind = "schedules"
      <3>1. CompleteSchedule(v) /\ DecideSchedule(v, u).status = "unchanged"
        BY <1>1, <2>1 DEF Lasting
      <3>2. store = "schedules" /\ new = v /\ given = {u}
        BY <2>1 DEF StoreOf
      <3> HIDE DEF store, new, given, v, u
      <3> QED BY <3>1, <3>2, DecideCases
    <2>2. CASE kind = "auto_time"
      <3>1. CompleteSchedule(v)
        BY <1>1, <2>2 DEF Lasting
      <3>2. store = "schedules" /\ new = v /\ given = {}
        BY <2>2 DEF StoreOf
      <3> HIDE DEF store, new, given, v, u
      <3> QED BY <3>1, <3>2
    <2>3. CASE kind = "jobs"
      <3>1. CompleteJob(v) /\ DecideJob(v, u).status = "unchanged"
        BY <1>1, <2>3 DEF Lasting
      <3>2. store = "jobs" /\ new = v /\ given = {u}
        BY <2>3 DEF StoreOf
      <3> HIDE DEF store, new, given, v, u
      <3> QED BY <3>1, <3>2, DecideCases
    <2>4. CASE kind = "email"
      <3>1. v = u
        BY <1>1, <2>4 DEF Lasting
      <3>2. store = "email" /\ new = MergeEmail(old, v) /\ given = {u}
        BY <2>4 DEF StoreOf
      <3>3. None \notin {old.manual, old.scheduled}
        BY <1>1, <3>2 DEF Settings, CompleteSettings
      <3> HIDE DEF store, new, given, v, u, old
      <3> QED BY <3>1, <3>2, <3>3, DecideCases, EmailLasts
    <2> QED BY <1>1, <2>1, <2>2, <2>3, <2>4 DEF Batches
  <1> HIDE DEF store, slot, new, given, kind, u, v, old
  <1>5. /\ DOMAIN setting' = Stores /\ \A s \in Stores : DOMAIN setting'[s] = Slots
        /\ \A s \in Stores, x \in Slots :
             setting'[s][x] = IF s = store /\ x = slot THEN new ELSE setting[s][x]
    BY <1>1, <1>2, <1>3
  <1>6. /\ DOMAIN settled' = Stores /\ \A s \in Stores : DOMAIN settled'[s] = Slots
        /\ \A s \in Stores, x \in Slots :
             settled'[s][x] = IF s = store /\ x = slot THEN given ELSE settled[s][x]
    BY <1>1, <1>2, <1>3
  <1>7. CompleteSettings(setting)'
    BY <1>4, <1>5 DEF Settings, CompleteSettings, Stores
  <1>8. ASSUME NEW s \in Stores, NEW x \in Slots, NEW y \in settled'[s][x]
        PROVE  Decide(s, setting'[s][x], y).status = "unchanged"
    BY <1>4, <1>5, <1>6, <1>8 DEF Settings
  <1> QED BY <1>6, <1>7, <1>8 DEF Settings

(* The part of Shared that is the service's.                               *)
World ==
    /\ DOMAIN written = Client /\ DOMAIN taken = Client
    /\ fleet \in [Project -> Name \cup {None}] /\ ux \in [Project -> Name \cup {None}]
    /\ member \in [Project \X Repo -> {"absent", "added", "connected"}]
    /\ recon \in [Project \X Repo -> {"never", "running", "done"}]
    /\ issued \subseteq Project
    /\ \A p \in Project : fleet[p] # None => p \in issued

(* What a step of c leaves to all: the service in order, and for the other *)
(* clients what was written for them and what they rely on.                *)
Kept(c) ==
    /\ World' /\ Settings'
    /\ \A d \in Client \ {c} :
         /\ written'[d] = written[d]
         /\ \A t \in Refs : Backed(recon, taken[d], t) => Backed(recon', taken'[d], t)

(* A step without effect keeps everything.                                 *)
LEMMA ServiceKept ==
    ASSUME NEW c, Shared, Settings, UNCHANGED service
    PROVE  Kept(c)
  <1>1. World'
    BY DEF Shared, World, service, ghosts
  <1>2. Settings'
    BY DEF Settings, service, ghosts
  <1> QED BY <1>1, <1>2 DEF Kept, service, ghosts

(* The effects on projects.                                                *)
LEMMA ProjectsKept ==
    ASSUME NEW c \in Client, Shared, Settings, Coherent(c),
           \/ FleetCreated(c) /\ issued # Project /\ At(c, "create", "fleet_create")
           \/ UxCreated(c) /\ At(c, "create", "ux_create")
           \/ Renamed(c) /\ At(c, "rename", "rename")
           \/ UxDeleted(c) /\ At(c, "delete", "ux_delete")
           \/ FleetDeleted(c) /\ At(c, "delete", "fleet_delete")
    PROVE  Kept(c)
  <1>1. UNCHANGED <<member, recon, setting, ghosts>>
    BY DEF FleetCreated, UxCreated, Renamed, UxDeleted, FleetDeleted
  <1>2. Settings'
    BY <1>1 DEF Settings, ghosts
  <1>3. \A d \in Client \ {c} :
          /\ written'[d] = written[d]
          /\ \A t \in Refs : Backed(recon, taken[d], t) => Backed(recon', taken'[d], t)
    BY <1>1 DEF ghosts
  <1>4. /\ fleet' \in [Project -> Name \cup {None}] /\ ux' \in [Project -> Name \cup {None}]
        /\ issued' \subseteq Project
        /\ \A p \in Project : fleet'[p] # None => p \in issued'
    <2>1. CASE FleetCreated(c) /\ issued # Project /\ At(c, "create", "fleet_create")
      <3>1. NewProject \in Project /\ cl[c].args.name \in Name
        BY <2>1, NewProjectType DEF At, Coherent, Sound, Local, ArgsOK
      <3> QED BY <2>1, <3>1 DEF FleetCreated, Shared
    <2>2. CASE UxCreated(c) /\ At(c, "create", "ux_create")
      <3>1. cl[c].args.name \in Name
        BY <2>2 DEF At, Coherent, Sound, Local, ArgsOK
      <3> QED BY <2>2, <3>1 DEF UxCreated, Shared
    <2>3. CASE Renamed(c) /\ At(c, "rename", "rename")
      <3>1. cl[c].args.to \in Name
        BY <2>3 DEF At, Coherent, Sound, Local, ArgsOK
      <3> QED BY <2>3, <3>1 DEF Renamed, Shared
    <2>4. CASE UxDeleted(c)
      BY <2>4 DEF UxDeleted, Shared
    <2>5. CASE FleetDeleted(c)
      BY <2>5 DEF FleetDeleted, Shared
    <2> QED BY <2>1, <2>2, <2>3, <2>4, <2>5
  <1>5. World'
    BY <1>1, <1>4 DEF World, Shared, ghosts
  <1> QED BY <1>2, <1>3, <1>5 DEF Kept

(* The effects on repositories and recon: one that is taken away or moved  *)
(* is recorded for every client.                                           *)
LEMMA RepositoriesKept ==
    ASSUME NEW c \in Client, Shared, Settings, Coherent(c),
           \/ \E state \in {"added", "connected"} : Connected(c, state)
           \/ Removed(c) /\ At(c, "remove", "remove")
           \/ Moved(c) /\ At(c, "move", "move")
           \/ ReconStarted(c) /\ cl[c].target \in Refs
    PROVE  Kept(c)
  <1>1. UNCHANGED <<fleet, ux, setting, issued, settled, written>>
    BY DEF Connected, Removed, Moved, ReconStarted, ghosts
  <1>2. Settings'
    BY <1>1 DEF Settings
  <1>3. /\ DOMAIN taken' = Client
        /\ member' \in [Project \X Repo -> {"absent", "added", "connected"}]
        /\ recon' \in [Project \X Repo -> {"never", "running", "done"}]
        /\ \A d \in Client : \A t \in Refs :
             Backed(recon, taken[d], t) => Backed(recon', taken'[d], t)
    <2>1. CASE \E state \in {"added", "connected"} : Connected(c, state)
      BY <2>1 DEF Connected, Shared, ghosts
    <2>2. CASE Removed(c) /\ At(c, "remove", "remove")
      <3> DEFINE x == <<cl[c].target.project, cl[c].target.repo>>
      <3>1. /\ member' = [member EXCEPT ![x] = "absent"]
            /\ recon' = [recon EXCEPT ![x] = "never"]
            /\ taken' = [d \in Client |-> taken[d] \cup {x}]
        BY <2>2 DEF Removed, Taken
      <3> HIDE DEF x
      <3>2. /\ DOMAIN taken' = Client
            /\ member' \in [Project \X Repo -> {"absent", "added", "connected"}]
            /\ recon' \in [Project \X Repo -> {"never", "running", "done"}]
        BY <3>1 DEF Shared
      <3>3. ASSUME NEW d \in Client, NEW y \in Project \X Repo, recon[y] # "never" \/ y \in taken[d]
            PROVE  recon'[y] # "never" \/ y \in taken'[d]
        BY <3>1, <3>3 DEF Shared
      <3>4. \A t \in Refs : <<t.project, t.repo>> \in Project \X Repo
        BY DEF Refs
      <3> QED BY <3>2, <3>3, <3>4 DEF Backed
    <2>3. CASE Moved(c) /\ At(c, "move", "move")
      <3> DEFINE x == <<cl[c].target.project, cl[c].target.repo>>
                 y == <<cl[c].project, cl[c].target.repo>>
      <3>1. /\ member' = [member EXCEPT ![x] = "absent", ![y] = member[x]]
            /\ recon' = [recon EXCEPT ![x] = "never", ![y] = recon[x]]
            /\ taken' = [d \in Client |-> taken[d] \cup {x, y}]
        BY <2>3 DEF Moved, Taken
      <3>2. x \in Project \X Repo
        BY <2>3 DEF At, Coherent, Sound, Local, RefsOK, TargetSet, Refs
      <3> HIDE DEF x, y
      <3>3. /\ DOMAIN taken' = Client
            /\ member' \in [Project \X Repo -> {"absent", "added", "connected"}]
            /\ recon' \in [Project \X Repo -> {"never", "running", "done"}]
        BY <3>1, <3>2 DEF Shared
      <3>4. ASSUME NEW d \in Client, NEW z \in Project \X Repo, recon[z] # "never" \/ z \in taken[d]
            PROVE  recon'[z] # "never" \/ z \in taken'[d]
        BY <3>1, <3>4 DEF Shared
      <3>5. \A t \in Refs : <<t.project, t.repo>> \in Project \X Repo
        BY DEF Refs
      <3> QED BY <3>3, <3>4, <3>5 DEF Backed
    <2>4. CASE ReconStarted(c) /\ cl[c].target \in Refs
      BY <2>4, ReconKept DEF ReconStarted, Shared, ghosts
    <2> QED BY <2>1, <2>2, <2>3, <2>4
  <1>4. World'
    BY <1>1, <1>3 DEF World, Shared
  <1> QED BY <1>1, <1>2, <1>3, <1>4 DEF Kept

(* The effect of a write.                                                  *)
LEMMA StoredKept ==
    ASSUME NEW c \in Client, Shared, Settings, Coherent(c), cl[c].kind \in Batches, Stored(c),
           GoodEntry(cl[c].kind, cl[c].args.update, Entry(c)), Entry(c).status = "changed"
    PROVE  Kept(c)
  <1>1. Settings'
    BY SettingsKept
  <1>2. /\ UNCHANGED <<fleet, ux, member, recon, issued, taken>>
        /\ written' = [written EXCEPT ![c] = @ \cup {Entry(c).slot}]
    BY DEF Stored, Store
  <1>3. World'
    BY <1>2 DEF World, Shared
  <1> QED BY <1>1, <1>2, <1>3 DEF Kept, Shared

(* The steps of project commands.                                          *)
LEMMA ProjectStep ==
    ASSUME NEW c \in Client, Shared, Settings, Coherent(c), ProjectCommand(c)
    PROVE  Stepped(c) /\ Kept(c)
  <1>1. CASE CreateList(c)
    BY <1>1, CreateListStep, ServiceKept
  <1>2. CASE FleetCreate(c)
    <2>1. /\ Stepped(c) /\ At(c, "create", "fleet_create")
          /\ (issued # Project /\ FleetCreated(c)) \/ UNCHANGED service
      BY <1>2, FleetCreateStep DEF Answered, NoEffect
    <2> QED BY <2>1, ServiceKept, ProjectsKept
  <1>3. CASE UxCreate(c)
    <2>1. /\ Stepped(c) /\ At(c, "create", "ux_create")
          /\ UxCreated(c) \/ UNCHANGED service
      BY <1>3, UxCreateStep DEF Answered, NoEffect
    <2> QED BY <2>1, ServiceKept, ProjectsKept
  <1>4. CASE RenameList(c)
    BY <1>4, RenameListStep, ServiceKept
  <1>5. CASE Rename(c)
    <2>1. /\ Stepped(c) /\ At(c, "rename", "rename")
          /\ Renamed(c) \/ UNCHANGED service
      BY <1>5, RenameStep DEF Answered, NoEffect
    <2> QED BY <2>1, ServiceKept, ProjectsKept
  <1>6. CASE DeleteList(c)
    BY <1>6, DeleteListStep, ServiceKept
  <1>7. CASE DeleteDetail(c)
    BY <1>7, DeleteDetailStep, ServiceKept
  <1>8. CASE UxDelete(c)
    <2>1. /\ Stepped(c) /\ At(c, "delete", "ux_delete")
          /\ UxDeleted(c) \/ UNCHANGED service
      BY <1>8, UxDeleteStep DEF Answered, NoEffect
    <2> QED BY <2>1, ServiceKept, ProjectsKept
  <1>9. CASE FleetDelete(c)
    <2>1. /\ Stepped(c) /\ At(c, "delete", "fleet_delete")
          /\ FleetDeleted(c) \/ UNCHANGED service
      BY <1>9, FleetDeleteStep DEF Answered, NoEffect
    <2> QED BY <2>1, ServiceKept, ProjectsKept
  <1> QED BY <1>1, <1>2, <1>3, <1>4, <1>5, <1>6, <1>7, <1>8, <1>9 DEF ProjectCommand

(* The steps of repository, recon and discovery commands.                  *)
LEMMA RepositoryStep ==
    ASSUME NEW c \in Client, Shared, Settings, Coherent(c), RepositoryCommand(c)
    PROVE  Stepped(c) /\ Kept(c)
  <1>1. CASE \/ AddList(c) \/ AddDetail(c) \/ AllTargets(c) \/ RemoveDetail(c) \/ MoveDetail(c)
             \/ Destination(c) \/ Preflight(c) \/ ReconDetail(c) \/ ReconStatus(c)
             \/ ListCredentials(c) \/ DiscoverProjects(c)
    BY <1>1, AddListStep, AddDetailStep, AllTargetsStep, RemoveDetailStep, MoveDetailStep,
       DestinationStep, PreflightStep, ReconDetailStep, ReconStatusStep, ListCredentialsStep,
       DiscoverProjectsStep, ServiceKept
  <1>2. CASE Connect(c)
    BY <1>2, ConnectStep, ServiceKept, RepositoriesKept
  <1>3. CASE Add(c)
    BY <1>3, AddStep, ServiceKept, RepositoriesKept
  <1>4. CASE Remove(c)
    BY <1>4, RemoveStep, ServiceKept, RepositoriesKept
  <1>5. CASE Move(c)
    BY <1>5, MoveStep, ServiceKept, RepositoriesKept
  <1>6. CASE ReconStart(c)
    BY <1>6, ReconStartStep, ServiceKept, RepositoriesKept
  <1> QED BY <1>1, <1>2, <1>3, <1>4, <1>5, <1>6 DEF RepositoryCommand

(* The steps of batches and of the catalog.                                *)
LEMMA BatchStep ==
    ASSUME NEW c \in Client, Shared, Settings, Coherent(c), BatchCommand(c)
    PROVE  Stepped(c) /\ Kept(c)
  <1>1. CASE \/ ReadCatalog(c) \/ Observe(c) \/ Save(c) \/ Targets(c) \/ BatchDetail(c)
             \/ ReadSettings(c)
    BY <1>1, ReadCatalogStep, ObserveStep, SaveStep, TargetsStep, BatchDetailStep,
       ReadSettingsStep, ServiceKept
  <1>2. CASE Write(c)
    BY <1>2, WriteStep, ServiceKept, StoredKept
  <1> QED BY <1>1, <1>2 DEF BatchCommand

(* A command that has not made a request yet.                              *)
Fresh(w) ==
    /\ HasFields(w) /\ w.unread = {} /\ w.found = {} /\ w.todo = {} /\ w.plan = <<>>
    /\ w.held = {} /\ w.creds = {} /\ w.at = 0 /\ w.pages = <<>> /\ w.keys = {}
    /\ w.attempt = 1 /\ w.waited = 0

(* Such a command is in order.                                             *)
LEMMA FreshSound ==
    ASSUME NEW w, Fresh(w), KindOK(w), ArgsOK(w), NEW R, NEW T,
           \/ w.pc = "idle" /\ w.result \in {None, "error"}
           \/ w.pc = "catalog" /\ w.kind \in Batches
           \/ w.pc \in {"projects", "credentials"}
    PROVE  Sound(w, {}, R, T)
  <1>1. w.result \in {"none", "error"}
    BY DEF KindOK, None
  <1>2. ~TargetSet(w) /\ ~ProjectSet(w)
    BY <1>1 DEF TargetSet, ProjectSet
  <1>3. WaitOK(w)
    BY TransportAssumption DEF Fresh, WaitOK
  <1>4. RefsOK(w)
    BY <1>2 DEF RefsOK, Fresh
  <1>5. PlanOK(w)
    BY DEF PlanOK, Fresh, IsSeq
  <1>6. DiscoverOK(w)
    BY FS_EmptySet DEF DiscoverOK, Fresh
  <1>7. Wrote(w, {}) /\ Backing(w, R, T)
    BY <1>1, <1>2 DEF Wrote, Backing, Fresh
  <1> QED BY <1>3, <1>4, <1>5, <1>6, <1>7 DEF Sound, Local, Fresh

(* The arguments a command may be given.                                   *)
LEMMA ArgumentsType ==
    ASSUME NEW kind \in AllKinds, NEW args \in Arguments(kind)
    PROVE  /\ kind = "create" => args.name \in Name
           /\ kind = "rename" => args.to \in Name
           /\ kind = "add" => args.repo \in Repo
           /\ kind \in Batches => args.update \in Updates[kind]
  <1>1. CASE kind = "create"
    <2>1. PICK n \in Name : args = Given(n, None, None, None, NoEmail)
      BY <1>1 DEF Arguments
    <2> QED BY <1>1, <2>1 DEF Given, Batches
  <1>2. CASE kind = "rename"
    <2>1. PICK n \in Name, m \in Name : args = Given(n, m, None, None, NoEmail)
      BY <1>2 DEF Arguments
    <2> QED BY <1>2, <2>1 DEF Given, Batches
  <1>3. CASE kind = "add"
    <2>1. PICK n \in Name, r \in Repo : args = Given(n, None, r, None, NoEmail)
      BY <1>3 DEF Arguments
    <2> QED BY <1>3, <2>1 DEF Given, Batches
  <1>4. CASE kind \in Batches
    <2>1. PICK s \in Scopes, u \in Updates[kind] : args = Given(s.name, None, s.repo, s.all, u)
      BY <1>4 DEF Arguments, Batches
    <2> QED BY <1>4, <2>1 DEF Given, Batches
  <1> QED BY <1>1, <1>2, <1>3, <1>4

(* A command that begins.                                                  *)
Begun(kind, args) == [Idle EXCEPT !.kind = kind, !.args = args, !.pc = FirstRequest(kind)]

(* A command whose arguments are refused.                                  *)
TurnedDown(kind, args) == [Idle EXCEPT !.kind = kind, !.args = args, !.result = "error"]

(* Both are in order.                                                      *)
LEMMA BegunSound ==
    ASSUME NEW kind \in AllKinds, NEW args \in Arguments(kind), NEW R, NEW T
    PROVE  /\ ValidUpdate(kind, args.update) => Sound(Begun(kind, args), {}, R, T)
           /\ Sound(TurnedDown(kind, args), {}, R, T)
  <1> DEFINE v == Begun(kind, args)
             w == TurnedDown(kind, args)
  <1>1. Fresh(v) /\ v.kind = kind /\ v.args = args /\ v.pc = FirstRequest(kind) /\ v.result = None
    BY DEF Begun, Idle, Fresh, HasFields
  <1>2. Fresh(w) /\ w.kind = kind /\ w.args = args /\ w.pc = "idle" /\ w.result = "error"
    BY DEF TurnedDown, Idle, Fresh, HasFields
  <1> HIDE DEF v, w
  <1>3. \/ FirstRequest(kind) = "catalog" /\ kind \in Batches
        \/ FirstRequest(kind) \in {"projects", "credentials"}
    BY DEF FirstRequest
  <1>4. KindOK(v)
    BY <1>1, <1>3 DEF KindOK, Results
  <1>5. KindOK(w)
    BY <1>2 DEF KindOK, Results
  <1>6. ValidUpdate(kind, args.update) => ArgsOK(v)
    BY <1>1, ArgumentsType DEF ArgsOK
  <1>7. ArgsOK(w)
    BY <1>2, ArgumentsType DEF ArgsOK
  <1>8. ValidUpdate(kind, args.update) => Sound(v, {}, R, T)
    BY <1>1, <1>3, <1>4, <1>6, FreshSound
  <1>9. Sound(w, {}, R, T)
    BY <1>2, <1>5, <1>7, FreshSound
  <1> QED BY <1>8, <1>9 DEF v, w

(* A client that has run nothing is in order.                              *)
LEMMA IdleSound == ASSUME NEW R, NEW T PROVE Sound(Idle, {}, R, T)
  <1>1. Fresh(Idle) /\ Idle.kind = None /\ Idle.pc = "idle" /\ Idle.result = None
    BY DEF Idle, Fresh, HasFields
  <1>2. KindOK(Idle)
    BY <1>1 DEF KindOK, Results
  <1>3. ArgsOK(Idle)
    BY <1>1 DEF ArgsOK, Batches, None
  <1> QED BY <1>1, <1>2, <1>3, FreshSound

(* A process is killed.                                                    *)
LEMMA KillStep ==
    ASSUME NEW c \in Client, Shared, Coherent(c), Kill(c)
    PROVE  /\ Stepped(c) /\ UNCHANGED service
           /\ cl'[c] = End(c, "killed") /\ failures' = failures + 1
  <1>1. Sound(End(c, "killed"), written[c], recon, taken[c])
    BY PlainEnd DEF Coherent, Results
  <1>2. End(c, "killed").kind = cl[c].kind /\ End(c, "killed").result = "killed"
    BY DEF End, Idle
  <1> QED BY <1>1, <1>2, DirectStep DEF Kill, Become, Shared, Raised

(* A command begins: a create is counted before its first request.         *)
LEMMA BeginStep ==
    ASSUME NEW c \in Client, Shared, Settings, Begin(c)
    PROVE  /\ Kept(c) /\ cl' = [cl EXCEPT ![c] = cl'[c]]
           /\ Sound(cl'[c], written'[c], recon', taken'[c])
           /\ UNCHANGED <<fleet, ux, issued, catalog, faults, publishes>>
           /\ commands < MaxCommands /\ commands' = commands + 1
           /\ \/ creates' = creates + 1
              \/ creates' = creates /\ cl'[c].kind # "create"
           /\ failures' = failures \/ failures' = failures + 1
           /\ cl[c].pc = "idle" /\ cl'[c].pc \notin {"ux_create", "ux_delete", "fleet_delete"}
  <1>1. /\ cl[c].pc = "idle" /\ commands < MaxCommands /\ commands' = commands + 1
        /\ written' = [written EXCEPT ![c] = {}] /\ taken' = [taken EXCEPT ![c] = {}]
        /\ UNCHANGED <<fleet, ux, member, recon, setting, issued, settled>>
        /\ UNCHANGED <<catalog, baseline, faults, publishes>>
    BY DEF Begin
  <1>2. PICK session \in Sessions : \E kind \in DOMAIN session : \E args \in Arguments(kind) :
          /\ IF ValidUpdate(kind, args.update) THEN Become(c, Begun(kind, args))
             ELSE Become(c, TurnedDown(kind, args))
          /\ creates' = IF kind = "create" THEN creates + 1 ELSE creates
    BY DEF Begin, Begun, TurnedDown
  <1>2a. PICK kind \in DOMAIN session : \E args \in Arguments(kind) :
          /\ IF ValidUpdate(kind, args.update) THEN Become(c, Begun(kind, args))
             ELSE Become(c, TurnedDown(kind, args))
          /\ creates' = IF kind = "create" THEN creates + 1 ELSE creates
    BY <1>2
  <1>3. PICK args \in Arguments(kind) :
          /\ IF ValidUpdate(kind, args.update) THEN Become(c, Begun(kind, args))
             ELSE Become(c, TurnedDown(kind, args))
          /\ creates' = IF kind = "create" THEN creates + 1 ELSE creates
    BY <1>2a
  <1>4. kind \in AllKinds
    BY CommandsAssumption
  <1>5. World'
    BY <1>1 DEF World, Shared
  <1>6. Settings'
    BY <1>1 DEF Settings
  <1>7. Kept(c)
    BY <1>1, <1>5, <1>6 DEF Kept, Shared
  <1>8. written'[c] = {} /\ taken'[c] = {}
    BY <1>1 DEF Shared
  <1> DEFINE v == Begun(kind, args)
             w == TurnedDown(kind, args)
  <1>9. /\ v.kind = kind /\ v.pc = FirstRequest(kind)
        /\ w.kind = kind /\ w.pc = "idle"
    BY DEF Begun, TurnedDown, Idle
  <1>10. FirstRequest(kind) \in {"catalog", "projects", "credentials"}
    BY DEF FirstRequest
  <1>11. /\ ValidUpdate(kind, args.update) => Sound(v, {}, recon', {})
         /\ Sound(w, {}, recon', {})
    BY <1>4, BegunSound
  <1> HIDE DEF v, w
  <1>12. /\ failures' = failures \/ failures' = failures + 1
         /\ cl' = [cl EXCEPT ![c] = cl'[c]]
         /\ cl'[c] = IF ValidUpdate(kind, args.update) THEN v ELSE w
    <2>1. CASE ValidUpdate(kind, args.update)
      <3>1. Become(c, v)
        BY <1>3, <2>1 DEF v
      <3> QED BY <2>1, <3>1 DEF Become, Shared
    <2>2. CASE ~ValidUpdate(kind, args.update)
      <3>1. Become(c, w)
        BY <1>3, <2>2 DEF w
      <3> QED BY <2>2, <3>1 DEF Become, Shared
    <2> QED BY <2>1, <2>2
  <1>13. Sound(cl'[c], written'[c], recon', taken'[c])
    BY <1>8, <1>11, <1>12
  <1>14. cl'[c].kind = kind /\ cl'[c].pc \notin {"ux_create", "ux_delete", "fleet_delete"}
    BY <1>9, <1>10, <1>12
  <1> QED BY <1>1, <1>3, <1>7, <1>12, <1>13, <1>14

(* A create that has not sent its POST to Fleet.                           *)
Making(w) == w.kind = "create" /\ w.pc \in {"projects", "fleet_create"}

(* A command between the two services: it has to finish or to raise.       *)
Halfway(w) ==
    \/ w.kind = "create" /\ w.pc = "ux_create"
    \/ w.kind = "delete" /\ w.pc \in {"ux_delete", "fleet_delete"}

(* The clients whose create is still to come.                              *)
Creating == {c \in Client : Making(cl[c])}

(* The projects some client is at work on between the two services.        *)
Working == {cl[c].project : c \in {d \in Client : Halfway(cl[d])}}

(* Each project that only Fleet has, and nobody is at work on, had a       *)
(* command that raised or was killed.                                      *)
Accounted == Cardinality(Orphans \ Working) <= failures

(* Each project issued, and each create still to come, was asked for.      *)
Balanced == Cardinality(issued) + Cardinality(Creating) <= creates

(* The bounds and the two accounts.                                        *)
Counters ==
    /\ commands \in 0 .. MaxCommands /\ faults \in 0 .. MaxFaults
    /\ publishes \in 0 .. MaxPublish
    /\ creates \in Nat /\ failures \in Nat
    /\ Balanced /\ Accounted

(* Sets of projects and of clients are finite.                             *)
LEMMA Finite ==
    /\ \A S : S \subseteq Project => IsFiniteSet(S) /\ Cardinality(S) \in Nat
    /\ \A S : S \subseteq Client => IsFiniteSet(S) /\ Cardinality(S) \in Nat
  BY CommandsAssumption, FS_Subset, FS_CardinalityType

(* One more element adds at most one.                                      *)
LEMMA OneMore ==
    ASSUME NEW S, NEW T, NEW x, IsFiniteSet(S), T \subseteq S \cup {x}
    PROVE  Cardinality(T) <= Cardinality(S) + 1
  <1>1. IsFiniteSet(S \cup {x})
    BY FS_AddElement
  <1>2. Cardinality(T) <= Cardinality(S \cup {x}) /\ IsFiniteSet(T)
    BY <1>1, FS_Subset
  <1>3. Cardinality(S \cup {x}) = IF x \in S THEN Cardinality(S) ELSE Cardinality(S) + 1
    BY FS_AddElement
  <1>4. Cardinality(S) \in Nat /\ Cardinality(T) \in Nat
    BY <1>2, FS_CardinalityType
  <1> QED BY <1>2, <1>3, <1>4

(* A step of c takes at most its own project out of Working.               *)
LEMMA WorkingKept ==
    ASSUME NEW c \in Client, DOMAIN cl = Client, cl' = [cl EXCEPT ![c] = cl'[c]]
    PROVE  /\ \A p : Halfway(cl[c]) /\ cl[c].project = p => Working \ {p} \subseteq Working'
           /\ ~Halfway(cl[c]) => Working \subseteq Working'
           /\ Halfway(cl'[c]) => cl'[c].project \in Working'
  <1>1. \A d \in Client \ {c} : cl'[d] = cl[d]
    OBVIOUS
  <1>2. \A d \in Client : Halfway(cl'[d]) => cl'[d].project \in Working'
    BY DEF Working
  <1>3. ASSUME NEW q \in Working
        PROVE  \E d \in Client : Halfway(cl[d]) /\ q = cl[d].project
    BY DEF Working
  <1>4. ASSUME NEW q \in Working, q \notin Working'
        PROVE  Halfway(cl[c]) /\ q = cl[c].project
    BY <1>1, <1>2, <1>3, <1>4
  <1> QED BY <1>2, <1>4

(* Only the command of c changes.                                          *)
OnlyClient(c) == DOMAIN cl = Client /\ cl' = [cl EXCEPT ![c] = cl'[c]]

(* At most project p becomes one that only Fleet has, or loses the client  *)
(* at work on it; if so, the command of c raised.                          *)
Reports(c, p) ==
    /\ Halfway(cl[c]) => cl[c].project = p
    /\ Orphans' \subseteq Orphans \cup {p}
    /\ \/ failures' = failures + 1
       \/ /\ failures' \in Nat /\ failures' >= failures
          /\ p \notin Orphans' \/ (Halfway(cl'[c]) /\ cl'[c].project = p)

(* Such a step keeps the account of orphans.                               *)
LEMMA OrphansAccounted ==
    ASSUME NEW c \in Client, OnlyClient(c), Accounted, failures \in Nat, NEW p, Reports(c, p)
    PROVE  Accounted' /\ failures' \in Nat
  <1> DEFINE A == Orphans \ Working
             B == Orphans' \ Working'
  <1>1. A \subseteq Project /\ B \subseteq Project
    BY DEF Orphans
  <1>2. /\ IsFiniteSet(A) /\ Cardinality(A) \in Nat /\ IsFiniteSet(B) /\ Cardinality(B) \in Nat
    BY <1>1, Finite
  <1>3. B \subseteq A \cup {p}
    BY WorkingKept DEF OnlyClient, Reports
  <1>4. Cardinality(A) <= failures
    BY DEF Accounted
  <1> HIDE DEF A, B
  <1>5. CASE failures' = failures + 1
    <2>1. Cardinality(B) <= Cardinality(A) + 1
      BY <1>2, <1>3, OneMore
    <2>2. Cardinality(B) <= failures'
      BY <1>2, <1>4, <1>5, <2>1
    <2> QED BY <1>5, <2>2 DEF Accounted, B
  <1>6. CASE /\ failures' \in Nat /\ failures' >= failures
             /\ p \notin Orphans' \/ (Halfway(cl'[c]) /\ cl'[c].project = p)
    <2>1. p \notin B
      BY <1>6, WorkingKept DEF B, OnlyClient
    <2>2. Cardinality(B) <= Cardinality(A)
      BY <1>2, <1>3, <2>1, FS_Subset
    <2>3. Cardinality(B) <= failures'
      BY <1>2, <1>4, <1>6, <2>2
    <2> QED BY <1>6, <2>3 DEF Accounted, B
  <1> QED BY <1>5, <1>6 DEF Reports

(* A project is issued only by a create that thereby has sent its POST; a  *)
(* new create is counted.                                                  *)
Spends(c, x) ==
    \/ /\ issued' = issued /\ creates' = creates
       /\ Making(cl'[c]) => Making(cl[c])
    \/ issued' = issued /\ creates' = creates + 1
    \/ /\ issued' \subseteq issued \cup {x} /\ creates' = creates
       /\ Making(cl[c]) /\ ~Making(cl'[c])

(* Such a step keeps the account of creates.                               *)
LEMMA CreatesBalanced ==
    ASSUME NEW c \in Client, OnlyClient(c), Balanced, creates \in Nat, NEW x, Spends(c, x),
           issued \subseteq Project, issued' \subseteq Project
    PROVE  Balanced' /\ creates' \in Nat
  <1> DEFINE M == Creating
             N == Creating'
             i == Cardinality(issued)
             j == Cardinality(issued')
             m == Cardinality(M)
             n == Cardinality(N)
  <1>1. M \subseteq Client /\ N \subseteq Client
    BY DEF Creating
  <1>2. /\ IsFiniteSet(M) /\ IsFiniteSet(N) /\ IsFiniteSet(issued) /\ IsFiniteSet(issued')
        /\ i \in Nat /\ j \in Nat /\ m \in Nat /\ n \in Nat
    BY <1>1, Finite
  <1>3. \A d \in Client \ {c} : cl'[d] = cl[d]
    BY DEF OnlyClient
  <1>4. /\ N \subseteq M \cup {c}
        /\ (Making(cl'[c]) => Making(cl[c])) => N \subseteq M
        /\ Making(cl[c]) /\ ~Making(cl'[c]) => N \subseteq M \ {c} /\ c \in M
    BY <1>3 DEF Creating
  <1>5. i + m <= creates
    BY DEF Balanced
  <1> HIDE DEF M, N
  <1>6. CASE /\ issued' = issued /\ creates' = creates
             /\ Making(cl'[c]) => Making(cl[c])
    <2>1. n <= m
      BY <1>2, <1>4, <1>6, FS_Subset
    <2>2. j + n <= creates'
      BY <1>2, <1>5, <1>6, <2>1
    <2> QED BY <1>6, <2>2 DEF Balanced, N
  <1>7. CASE issued' = issued /\ creates' = creates + 1
    <2>1. n <= m + 1
      BY <1>2, <1>4, OneMore
    <2>2. j + n <= creates'
      BY <1>2, <1>5, <1>7, <2>1
    <2> QED BY <1>7, <2>2 DEF Balanced, N
  <1>8. CASE /\ issued' \subseteq issued \cup {x} /\ creates' = creates
             /\ Making(cl[c]) /\ ~Making(cl'[c])
    <2>1. /\ IsFiniteSet(M \ {c})
          /\ Cardinality(M \ {c}) = m - 1
      BY <1>2, <1>4, <1>8, FS_RemoveElement
    <2>2. n <= m - 1
      BY <1>4, <1>8, <2>1, FS_Subset
    <2>3. j <= i + 1
      BY <1>2, <1>8, OneMore
    <2>4. j + n <= creates'
      BY <1>2, <1>5, <1>8, <2>2, <2>3
    <2> QED BY <1>8, <2>4 DEF Balanced, N
  <1> QED BY <1>6, <1>7, <1>8 DEF Spends

(* Faults stay within their bound.                                         *)
LEMMA FaultsCounted ==
    ASSUME faults \in 0 .. MaxFaults, faults' = faults \/ Fault
    PROVE  faults' \in 0 .. MaxFaults
  BY CommandsAssumption DEF Fault

(* Both accounts, for a step of a command.                                 *)
LEMMA CountersStep ==
    ASSUME NEW c \in Client, Shared, World', Counters, Stepped(c), NEW p, Reports(c, p),
           NEW x, Spends(c, x)
    PROVE  Counters'
  <1>1. /\ OnlyClient(c)
        /\ faults' = faults \/ Fault
        /\ UNCHANGED <<commands, creates, publishes>>
    BY DEF Stepped, Shared, OnlyClient
  <1>2. Accounted' /\ failures' \in Nat
    BY <1>1, OrphansAccounted DEF Counters
  <1>3. Balanced' /\ creates' \in Nat
    BY <1>1, CreatesBalanced DEF Shared, World, Counters
  <1>4. faults' \in 0 .. MaxFaults
    BY <1>1, FaultsCounted DEF Counters
  <1> QED BY <1>1, <1>2, <1>3, <1>4 DEF Counters

(* A step never takes a failure back.                                      *)
LEMMA FailuresGrow ==
    ASSUME NEW c, Counters, Stepped(c)
    PROVE  /\ failures' \in Nat /\ failures' >= failures
           /\ cl'[c].result \in Raised => failures' = failures + 1
           /\ creates' = creates
  BY DEF Stepped, Counters

(* A step that touches no project and is not halfway keeps the accounts.   *)
LEMMA CalmStep ==
    ASSUME NEW c \in Client, Shared, World', Counters, Stepped(c),
           UNCHANGED <<fleet, ux, issued>>,
           ~Halfway(cl[c]), Making(cl'[c]) => Making(cl[c])
    PROVE  Counters'
  <1>1. Orphans' = Orphans /\ None \notin Orphans'
    BY CommandsAssumption DEF Orphans
  <1>2. Reports(c, None)
    BY <1>1, FailuresGrow DEF Reports
  <1>3. Spends(c, None)
    BY FailuresGrow DEF Spends
  <1> QED BY <1>2, <1>3, CountersStep

(* The steps that neither create nor delete a project.                     *)
LEMMA CalmCommands ==
    ASSUME NEW c \in Client, Coherent(c),
           \/ RepositoryCommand(c) \/ BatchCommand(c)
           \/ RenameList(c) \/ Rename(c) \/ DeleteList(c) \/ DeleteDetail(c)
    PROVE  cl[c].kind # "create" /\ ~Halfway(cl[c])
  <1>1. /\ cl[c].pc \in {"catalog", "observe", "save"} =>
             cl[c].kind \in {"schedules", "auto_time", "jobs", "email", "add", "recon"}
        /\ cl[c].pc \in {"recon_status", "recon_start"} => cl[c].kind \in {"add", "recon"}
    BY DEF Coherent, Sound, Local, KindOK, Batches
  <1>2. CASE RenameList(c) \/ Rename(c) \/ DeleteList(c) \/ DeleteDetail(c)
    BY <1>2 DEF RenameList, Rename, DeleteList, DeleteDetail, At, Halfway
  <1>3. CASE RepositoryCommand(c)
    <2>1. CASE ListCredentials(c) \/ DiscoverProjects(c)
      <3>1. At(c, "discover", "credentials") \/ At(c, "discover", "gitlab")
        BY <2>1, Zenon DEF ListCredentials, DiscoverProjects
      <3> QED BY <3>1 DEF At, Halfway
    <2>2. CASE ~(ListCredentials(c) \/ DiscoverProjects(c))
      <3>1. \/ cl[c].kind \in {"add", "remove", "move", "recon"}
            \/ cl[c].pc \in {"recon_status", "recon_start"}
        BY <1>3, <2>2 DEF RepositoryCommand, AddList, AddDetail, Connect, Add, AllTargets,
           RemoveDetail, Remove, MoveDetail, Destination, Preflight, Move, ReconDetail,
           ReconStatus, ReconStart, At
      <3> QED BY <1>1, <3>1 DEF Halfway
    <2> QED BY <2>1, <2>2
  <1>4. CASE BatchCommand(c)
    <2>1. \/ cl[c].kind \in {"schedules", "auto_time", "jobs", "email", "recon"}
          \/ cl[c].pc \in {"catalog", "observe", "save"}
      BY <1>4 DEF BatchCommand, ReadCatalog, Observe, Save, Targets, BatchDetail, ReadSettings,
         Write, Batches
    <2> QED BY <1>1, <2>1 DEF Halfway
  <1> QED BY <1>2, <1>3, <1>4

(* They leave the projects alone.                                          *)
LEMMA CalmService ==
    ASSUME NEW c \in Client, Shared, Settings, Coherent(c),
           RepositoryCommand(c) \/ BatchCommand(c)
    PROVE  UNCHANGED <<fleet, ux, issued>>
  <1>1. UNCHANGED service => UNCHANGED <<fleet, ux, issued>>
    BY DEF service
  <1>2. CASE \/ AddList(c) \/ AddDetail(c) \/ AllTargets(c) \/ RemoveDetail(c) \/ MoveDetail(c)
             \/ Destination(c) \/ Preflight(c) \/ ReconDetail(c) \/ ReconStatus(c)
             \/ ListCredentials(c) \/ DiscoverProjects(c)
    BY <1>1, <1>2, AddListStep, AddDetailStep, AllTargetsStep, RemoveDetailStep, MoveDetailStep,
       DestinationStep, PreflightStep, ReconDetailStep, ReconStatusStep, ListCredentialsStep,
       DiscoverProjectsStep
  <1>3. CASE Connect(c) \/ Add(c)
    BY <1>1, <1>3, ConnectStep, AddStep DEF Connected
  <1>4. CASE Remove(c)
    BY <1>1, <1>4, RemoveStep DEF Removed
  <1>5. CASE Move(c)
    BY <1>1, <1>5, MoveStep DEF Moved
  <1>6. CASE ReconStart(c)
    BY <1>1, <1>6, ReconStartStep DEF ReconStarted
  <1>7. CASE \/ ReadCatalog(c) \/ Observe(c) \/ Save(c) \/ Targets(c) \/ BatchDetail(c)
             \/ ReadSettings(c)
    BY <1>1, <1>7, ReadCatalogStep, ObserveStep, SaveStep, TargetsStep, BatchDetailStep,
       ReadSettingsStep
  <1>8. CASE Write(c)
    BY <1>1, <1>8, WriteStep DEF Stored, Store
  <1> QED BY <1>2, <1>3, <1>4, <1>5, <1>6, <1>7, <1>8 DEF RepositoryCommand, BatchCommand

(* The three ends of a request, as the command shows them.                 *)
LEMMA AnswerEnds ==
    ASSUME NEW c \in Client, DOMAIN cl = Client, HasFields(cl[c]), NEW e, NEW STATE allowed,
           NEW ACTION A, NEW STATE next, NEW STATE failed,
           Answered(c, e, allowed, A, next, failed)
    PROVE  /\ (allowed /\ A) \/ UNCHANGED service
           /\ \/ cl'[c] = next /\ allowed /\ A
              \/ cl'[c] = failed
              \/ /\ CanRetry(ProfileOf(e))
                 /\ cl'[c].kind = cl[c].kind /\ cl'[c].pc = cl[c].pc
                 /\ cl'[c].project = cl[c].project
  <1>1. \A d : /\ Retried(c, d).kind = cl[c].kind /\ Retried(c, d).pc = cl[c].pc
               /\ Retried(c, d).project = cl[c].project
    BY DEF Retried, HasFields
  <1>2. \A w : Become(c, w) => cl'[c] = w
    BY DEF Become
  <1> QED BY <1>1, <1>2 DEF Answered, NoEffect

(* A command that ended is idle, with its result.                          *)
LEMMA Ended ==
    ASSUME NEW c \in Client, NEW r
    PROVE  End(c, r).pc = "idle" /\ End(c, r).result = r
  BY DEF End, Idle

(* The accounts, when a create looks for its name.                         *)
LEMMA CreateListCounts ==
    ASSUME NEW c \in Client, Shared, World', Counters, Stepped(c), CreateList(c),
           UNCHANGED service
    PROVE  Counters'
  <1>1. ~Halfway(cl[c]) /\ Making(cl[c])
    BY DEF CreateList, At, Halfway, Making
  <1>2. UNCHANGED <<fleet, ux, issued>>
    BY DEF service
  <1> QED BY <1>1, <1>2, CalmStep

(* The POST to Fleet is never repeated, so a create leaves Creating with   *)
(* it, whether a project was issued or not; if the answer is lost, the     *)
(* command raises.                                                         *)
LEMMA FleetCreateCounts ==
    ASSUME NEW c \in Client, Shared, World', Coherent(c), Counters, FleetCreate(c)
    PROVE  Counters'
  <1> DEFINE v == [Goto(c, "ux_create") EXCEPT !.project = NewProject]
             p == NewProject
  <1>1. /\ Stepped(c) /\ At(c, "create", "fleet_create")
        /\ Answered(c, "fleet_project_create", issued # Project, FleetCreated(c),
                    v, End(c, "error"))
    BY FleetCreateStep
  <1>2. v.kind = cl[c].kind /\ v.pc = "ux_create" /\ v.project = p
    BY DEF Goto, Coherent, Sound, Local, HasFields
  <1>3. ~CanRetry(ProfileOf("fleet_project_create"))
    <2>1. ProfileOf("fleet_project_create") = "UNSAFE_MUTATION"
      BY DEF ProfileOf, PortfolioEndpoints
    <2> QED BY <2>1 DEF CanRetry
  <1> HIDE DEF v, p
  <1>4. /\ (issued # Project /\ FleetCreated(c)) \/ UNCHANGED service
        /\ cl'[c] = v \/ cl'[c] = End(c, "error")
    <2>1. \A w : Become(c, w) => cl'[c] = w
      BY DEF Become, Shared
    <2>2. (issued # Project /\ FleetCreated(c)) \/ UNCHANGED service
      BY <1>1 DEF Answered, NoEffect
    <2> QED BY <1>1, <1>3, <2>1, <2>2 DEF Answered
  <1>5. Making(cl[c]) /\ ~Halfway(cl[c]) /\ ~Making(cl'[c])
    BY <1>1, <1>2, <1>4, Ended DEF Making, Halfway, At
  <1>6. Orphans' \subseteq Orphans \cup {p} /\ issued' \subseteq issued \cup {p}
    BY <1>4 DEF FleetCreated, Orphans, service, Shared, p
  <1>7. cl'[c].result \in Raised \/ (Halfway(cl'[c]) /\ cl'[c].project = p)
    BY <1>1, <1>2, <1>4, Ended DEF Halfway, At, Raised
  <1>8. Reports(c, p)
    BY <1>1, <1>5, <1>6, <1>7, FailuresGrow DEF Reports
  <1>9. Spends(c, p)
    BY <1>1, <1>5, <1>6, FailuresGrow DEF Spends
  <1> QED BY <1>1, <1>8, <1>9, CountersStep

(* A create that does not reach the UX service raises partial_state.       *)
LEMMA UxCreateCounts ==
    ASSUME NEW c \in Client, Shared, World', Coherent(c), Counters, UxCreate(c)
    PROVE  Counters'
  <1> DEFINE p == cl[c].project
  <1>1. /\ Stepped(c) /\ At(c, "create", "ux_create")
        /\ Answered(c, "ux_project_create", fleet[p] # None, UxCreated(c),
                    End(c, "created"), End(c, "partial_state"))
    BY UxCreateStep
  <1>2. /\ UxCreated(c) \/ UNCHANGED service
        /\ \/ cl'[c] = End(c, "created") /\ UxCreated(c)
           \/ cl'[c] = End(c, "partial_state")
           \/ /\ cl'[c].kind = cl[c].kind /\ cl'[c].pc = cl[c].pc
              /\ cl'[c].project = cl[c].project
    BY <1>1, AnswerEnds DEF Shared, Coherent, Sound, Local
  <1>3. ~Making(cl'[c]) /\ issued' = issued
    BY <1>1, <1>2, Ended DEF Making, At, UxCreated, service
  <1>4. cl[c].args.name \in Name /\ p \in Project
    BY <1>1 DEF At, Coherent, Sound, Local, ArgsOK, RefsOK, ProjectSet
  <1>5. Orphans' \subseteq Orphans /\ (UxCreated(c) => p \notin Orphans')
    BY <1>2, <1>4, CommandsAssumption DEF UxCreated, Orphans, service, Shared
  <1>6. \/ cl'[c].result \in Raised
        \/ p \notin Orphans'
        \/ Halfway(cl'[c]) /\ cl'[c].project = p
    BY <1>1, <1>2, <1>5, Ended DEF Halfway, At, Raised
  <1>7. Reports(c, p)
    BY <1>1, <1>5, <1>6, FailuresGrow DEF Reports
  <1>8. Spends(c, p)
    BY <1>1, <1>3, FailuresGrow DEF Spends
  <1> QED BY <1>1, <1>7, <1>8, CountersStep

(* A rename neither makes nor removes an orphan.                           *)
LEMMA RenameCounts ==
    ASSUME NEW c \in Client, Shared, World', Coherent(c), Counters, Rename(c)
    PROVE  Counters'
  <1> DEFINE p == cl[c].project
  <1>1. /\ Stepped(c) /\ At(c, "rename", "rename")
        /\ Answered(c, "project_rename", ux[p] # None, Renamed(c),
                    End(c, "renamed"), End(c, "error"))
    BY RenameStep
  <1>2. (ux[p] # None /\ Renamed(c)) \/ UNCHANGED service
    BY <1>1 DEF Answered, NoEffect
  <1>3. ~Making(cl'[c]) /\ issued' = issued /\ ~Halfway(cl[c])
    BY <1>1, <1>2 DEF Making, Halfway, At, Stepped, Renamed, service
  <1>4. cl[c].args.to \in Name
    BY <1>1 DEF At, Coherent, Sound, Local, ArgsOK
  <1>5. Orphans' = Orphans /\ None \notin Orphans'
    BY <1>2, <1>4, CommandsAssumption DEF Renamed, Orphans, service, Shared
  <1>6. Reports(c, None)
    BY <1>1, <1>3, <1>5, FailuresGrow DEF Reports
  <1>7. Spends(c, None)
    BY <1>1, <1>3, FailuresGrow DEF Spends
  <1> QED BY <1>1, <1>6, <1>7, CountersStep

(* A delete from the UX service goes on to Fleet or raises.                *)
LEMMA UxDeleteCounts ==
    ASSUME NEW c \in Client, Shared, World', Coherent(c), Counters, UxDelete(c)
    PROVE  Counters'
  <1> DEFINE p == cl[c].project
             v == Goto(c, "fleet_delete")
  <1>1. /\ Stepped(c) /\ At(c, "delete", "ux_delete")
        /\ Answered(c, "ux_project_delete", ux[p] # None, UxDeleted(c), v, End(c, "error"))
    BY UxDeleteStep
  <1>2. v.kind = cl[c].kind /\ v.pc = "fleet_delete" /\ v.project = p
    BY DEF Goto, Coherent, Sound, Local, HasFields
  <1> HIDE DEF v
  <1>3. /\ UxDeleted(c) \/ UNCHANGED service
        /\ \/ cl'[c] = v
           \/ cl'[c] = End(c, "error")
           \/ /\ cl'[c].kind = cl[c].kind /\ cl'[c].pc = cl[c].pc
              /\ cl'[c].project = cl[c].project
    BY <1>1, AnswerEnds DEF Shared, Coherent, Sound, Local
  <1>4. ~Making(cl'[c]) /\ issued' = issued
    BY <1>1, <1>3 DEF Making, At, Stepped, UxDeleted, service
  <1>5. Orphans' \subseteq Orphans \cup {p}
    BY <1>3 DEF UxDeleted, Orphans, service, Shared
  <1>6. cl'[c].result \in Raised \/ (Halfway(cl'[c]) /\ cl'[c].project = p)
    BY <1>1, <1>2, <1>3, Ended DEF Halfway, At, Raised
  <1>7. Reports(c, p)
    BY <1>1, <1>5, <1>6, FailuresGrow DEF Reports
  <1>8. Spends(c, p)
    BY <1>1, <1>4, FailuresGrow DEF Spends
  <1> QED BY <1>1, <1>7, <1>8, CountersStep

(* A delete that does not reach Fleet raises partial_state.                *)
LEMMA FleetDeleteCounts ==
    ASSUME NEW c \in Client, Shared, World', Coherent(c), Counters, FleetDelete(c)
    PROVE  Counters'
  <1> DEFINE p == cl[c].project
  <1>1. /\ Stepped(c) /\ At(c, "delete", "fleet_delete")
        /\ Answered(c, "fleet_project_delete", fleet[p] # None, FleetDeleted(c),
                    End(c, "deleted"), End(c, "partial_state"))
    BY FleetDeleteStep
  <1>2. /\ FleetDeleted(c) \/ UNCHANGED service
        /\ \/ cl'[c] = End(c, "deleted") /\ FleetDeleted(c)
           \/ cl'[c] = End(c, "partial_state")
           \/ /\ cl'[c].kind = cl[c].kind /\ cl'[c].pc = cl[c].pc
              /\ cl'[c].project = cl[c].project
    BY <1>1, AnswerEnds DEF Shared, Coherent, Sound, Local
  <1>3. ~Making(cl'[c]) /\ issued' = issued
    BY <1>1, <1>2 DEF Making, At, Stepped, FleetDeleted, service
  <1>4. Orphans' \subseteq Orphans /\ (FleetDeleted(c) => p \notin Orphans')
    BY <1>2 DEF FleetDeleted, Orphans, service, Shared
  <1>5. \/ cl'[c].result \in Raised
        \/ p \notin Orphans'
        \/ Halfway(cl'[c]) /\ cl'[c].project = p
    BY <1>1, <1>2, <1>4, Ended DEF Halfway, At, Raised
  <1>6. Reports(c, p)
    BY <1>1, <1>4, <1>5, FailuresGrow DEF Reports
  <1>7. Spends(c, p)
    BY <1>1, <1>3, FailuresGrow DEF Spends
  <1> QED BY <1>1, <1>6, <1>7, CountersStep

(* The accounts, for every step of a command.                              *)
LEMMA StepCounts ==
    ASSUME NEW c \in Client, Shared, Settings, World', Coherent(c), Counters, Step(c)
    PROVE  Counters'
  <1>1. Stepped(c)
    BY ProjectStep, RepositoryStep, BatchStep DEF Step
  <1>2. CASE \/ RepositoryCommand(c) \/ BatchCommand(c)
             \/ RenameList(c) \/ DeleteList(c) \/ DeleteDetail(c)
    <2>1. cl[c].kind # "create" /\ ~Halfway(cl[c])
      BY <1>2, CalmCommands
    <2>2. ~Making(cl'[c])
      BY <1>1, <2>1 DEF Stepped, Making
    <2>3. UNCHANGED <<fleet, ux, issued>>
      <3>1. CASE RepositoryCommand(c) \/ BatchCommand(c)
        BY <3>1, CalmService
      <3>2. CASE RenameList(c) \/ DeleteList(c) \/ DeleteDetail(c)
        BY <3>2, RenameListStep, DeleteListStep, DeleteDetailStep DEF service
      <3> QED BY <1>2, <3>1, <3>2
    <2> QED BY <1>1, <2>1, <2>2, <2>3, CalmStep
  <1>3. CASE CreateList(c)
    BY <1>1, <1>3, CreateListStep, CreateListCounts
  <1>4. CASE FleetCreate(c) \/ UxCreate(c) \/ Rename(c) \/ UxDelete(c) \/ FleetDelete(c)
    BY <1>4, FleetCreateCounts, UxCreateCounts, RenameCounts, UxDeleteCounts, FleetDeleteCounts
  <1> QED BY <1>2, <1>3, <1>4 DEF Step, ProjectCommand

(* A kill is counted, whatever the command was at.                         *)
LEMMA KillCounts ==
    ASSUME NEW c \in Client, Shared, World', Coherent(c), Counters, Kill(c)
    PROVE  Counters'
  <1>1. /\ Stepped(c) /\ UNCHANGED service
        /\ cl'[c] = End(c, "killed") /\ failures' = failures + 1
    BY KillStep
  <1>2. Orphans' = Orphans /\ issued' = issued
    BY <1>1 DEF Orphans, service
  <1>3. ~Making(cl'[c])
    BY <1>1, Ended DEF Making
  <1>4. Reports(c, cl[c].project)
    BY <1>1, <1>2 DEF Reports
  <1>5. Spends(c, None)
    BY <1>1, <1>2, <1>3, FailuresGrow DEF Spends
  <1> QED BY <1>1, <1>4, <1>5, CountersStep

(* A command that begins.                                                  *)
LEMMA BeginCounts ==
    ASSUME NEW c \in Client, Shared, Settings, Counters, Begin(c)
    PROVE  Counters'
  <1>1. /\ Kept(c) /\ cl' = [cl EXCEPT ![c] = cl'[c]]
        /\ UNCHANGED <<fleet, ux, issued, catalog, faults, publishes>>
        /\ commands < MaxCommands /\ commands' = commands + 1
        /\ \/ creates' = creates + 1
           \/ creates' = creates /\ cl'[c].kind # "create"
        /\ failures' = failures \/ failures' = failures + 1
        /\ cl[c].pc = "idle"
    BY BeginStep
  <1>2. OnlyClient(c)
    BY <1>1 DEF OnlyClient, Shared
  <1>3. Orphans' = Orphans /\ None \notin Orphans'
    BY <1>1, CommandsAssumption DEF Orphans
  <1>4. Reports(c, None)
    BY <1>1, <1>3 DEF Reports, Counters, Halfway
  <1>5. Spends(c, None)
    BY <1>1 DEF Spends, Making
  <1>6. Accounted' /\ failures' \in Nat
    BY <1>2, <1>4, OrphansAccounted DEF Counters
  <1>7. Balanced' /\ creates' \in Nat
    BY <1>1, <1>2, <1>5, CreatesBalanced DEF Shared, Counters
  <1>8. commands' \in 0 .. MaxCommands
    BY <1>1, CommandsAssumption DEF Counters
  <1> QED BY <1>1, <1>6, <1>7, <1>8 DEF Counters

(* The inductive invariant.                                                *)
IInv ==
    /\ Shared /\ Settings /\ Counters
    /\ \A c \in Client : Coherent(c)

(* A step of c leaves the other clients in order.                          *)
LEMMA OthersCarried ==
    ASSUME NEW c \in Client, IInv, Kept(c), OnlyClient(c), UNCHANGED catalog,
           Sound(cl'[c], written'[c], recon', taken'[c])
    PROVE  Shared' /\ Settings' /\ \A d \in Client : Coherent(d)'
  <1>1. World' /\ Settings'
    BY DEF Kept
  <1>2. DOMAIN cl' = Client /\ \A d \in Client \ {c} : cl'[d] = cl[d]
    BY DEF OnlyClient
  <1>3. Shared'
    BY <1>1, <1>2 DEF Shared, World, IInv
  <1>4. ASSUME NEW d \in Client, d # c
        PROVE  Sound(cl'[d], written'[d], recon', taken'[d])
    <2>1. Sound(cl[d], written[d], recon, taken[d])
      BY DEF IInv, Coherent
    <2>2. /\ written'[d] = written[d]
          /\ \A t \in Refs : Backed(recon, taken[d], t) => Backed(recon', taken'[d], t)
      BY <1>4 DEF Kept
    <2>3. Sound(cl[d], written[d], recon', taken'[d])
      BY <2>1, <2>2, Carried
    <2> QED BY <1>2, <1>4, <2>2, <2>3
  <1> QED BY <1>1, <1>3, <1>4 DEF Coherent

(* It holds at first.                                                      *)
LEMMA InitHolds == Init => IInv
  <1> SUFFICES ASSUME Init PROVE IInv
    OBVIOUS
  <1>1. PICK s \in Start :
          /\ fleet = s.fleet /\ ux = s.ux /\ member = s.member /\ recon = s.recon
          /\ setting = s.setting
          /\ issued = {p \in Project : s.fleet[p] # None}
    BY DEF Init
  <1>2. /\ s.fleet \in [Project -> Name \cup {None}] /\ s.ux \in [Project -> Name \cup {None}]
        /\ s.member \in [Project \X Repo -> {"absent", "added", "connected"}]
        /\ s.recon \in [Project \X Repo -> {"never", "running", "done"}]
        /\ CompleteSettings(s.setting)
    BY StartAssumption
  <1>3. Shared
    BY <1>1, <1>2 DEF Init, Shared
  <1>4. Settings
    BY <1>1, <1>2 DEF Init, Settings, Stores
  <1>5. ASSUME NEW c \in Client PROVE Coherent(c)
    <2>1. cl[c] = Idle /\ written[c] = {} /\ taken[c] = {}
      BY DEF Init
    <2> QED BY <2>1, IdleSound DEF Coherent
  <1>6. Creating = {} /\ Working = {}
    <2>1. \A c \in Client : ~Making(cl[c]) /\ ~Halfway(cl[c])
      BY DEF Init, Idle, Making, Halfway
    <2> QED BY <2>1 DEF Creating, Working
  <1>7. Cardinality(issued) \in Nat /\ Cardinality(Orphans) \in Nat
    <2>1. issued \subseteq Project /\ Orphans \subseteq Project
      BY <1>1 DEF Orphans
    <2> QED BY <2>1, Finite
  <1>8. Balanced
    BY <1>6, <1>7, FS_EmptySet DEF Balanced, Init
  <1>9. Accounted
    <2>1. Orphans \ Working = Orphans
      BY <1>6
    <2>2. failures = Cardinality(Orphans)
      BY DEF Init
    <2> QED BY <1>7, <2>1, <2>2 DEF Accounted
  <1>10. Counters
    BY <1>7, <1>8, <1>9, CommandsAssumption DEF Counters, Init
  <1> QED BY <1>3, <1>4, <1>5, <1>10 DEF IInv

(* Every step preserves it.                                                *)
LEMMA NextKeeps == IInv /\ [Next]_vars => IInv'
  <1> SUFFICES ASSUME IInv, [Next]_vars PROVE IInv'
    OBVIOUS
  <1>1. ASSUME NEW c \in Client, Step(c) PROVE IInv'
    <2>1. Stepped(c) /\ Kept(c)
      BY <1>1, ProjectStep, RepositoryStep, BatchStep DEF IInv, Step
    <2>2. OnlyClient(c) /\ UNCHANGED catalog /\ Sound(cl'[c], written'[c], recon', taken'[c])
      BY <2>1 DEF Stepped, OnlyClient, IInv, Shared
    <2>3. Shared' /\ Settings' /\ \A d \in Client : Coherent(d)'
      BY <2>1, <2>2, OthersCarried
    <2>4. Counters'
      BY <1>1, <2>1, StepCounts DEF IInv, Kept
    <2> QED BY <2>3, <2>4 DEF IInv
  <1>2. ASSUME NEW c \in Client, Kill(c) PROVE IInv'
    <2>1. Stepped(c) /\ UNCHANGED service
      BY <1>2, KillStep DEF IInv
    <2>2. Kept(c)
      BY <2>1, ServiceKept DEF IInv
    <2>3. OnlyClient(c) /\ UNCHANGED catalog /\ Sound(cl'[c], written'[c], recon', taken'[c])
      BY <2>1 DEF Stepped, OnlyClient, IInv, Shared
    <2>4. Shared' /\ Settings' /\ \A d \in Client : Coherent(d)'
      BY <2>2, <2>3, OthersCarried
    <2>5. Counters'
      BY <1>2, <2>2, KillCounts DEF IInv, Kept
    <2> QED BY <2>4, <2>5 DEF IInv
  <1>3. ASSUME NEW c \in Client, Begin(c) PROVE IInv'
    <2>1. /\ Kept(c) /\ cl' = [cl EXCEPT ![c] = cl'[c]] /\ UNCHANGED catalog
          /\ Sound(cl'[c], written'[c], recon', taken'[c])
      BY <1>3, BeginStep DEF IInv
    <2>2. OnlyClient(c)
      BY <2>1 DEF OnlyClient, IInv, Shared
    <2>3. Shared' /\ Settings' /\ \A d \in Client : Coherent(d)'
      BY <2>1, <2>2, OthersCarried
    <2>4. Counters'
      BY <1>3, BeginCounts DEF IInv
    <2> QED BY <2>3, <2>4 DEF IInv
  <1>4. ASSUME NEW p \in Project, NEW r \in Repo, ReconCompletes(p, r) PROVE IInv'
    <2> DEFINE t == [project |-> p, name |-> None, repo |-> r, connected |-> FALSE, done |-> FALSE]
               R == [recon EXCEPT ![<<t.project, t.repo>>] = "done"]
    <2>1. t \in Refs /\ t.project = p /\ t.repo = r
      BY DEF Refs
    <2>2. /\ recon' = R
          /\ UNCHANGED <<fleet, ux, member, setting, issued, settled, written, taken>>
          /\ UNCHANGED <<catalog, cl, commands, creates, failures, faults, publishes>>
      BY <1>4, <2>1 DEF ReconCompletes, ghosts
    <2>3. /\ R \in [Project \X Repo -> {"never", "running", "done"}]
          /\ \A u \in Refs : \A T : Backed(recon, T, u) => Backed(R, T, u)
      BY <2>1, ReconKept DEF IInv
    <2> HIDE DEF t, R
    <2>4. Shared'
      BY <2>2, <2>3 DEF IInv, Shared
    <2>5. Settings'
      BY <2>2 DEF IInv, Settings
    <2>6. ASSUME NEW c \in Client PROVE Sound(cl'[c], written'[c], recon', taken'[c])
      <3>1. Sound(cl[c], written[c], recon, taken[c])
        BY DEF IInv, Coherent
      <3>2. Sound(cl[c], written[c], R, taken[c])
        BY <2>3, <3>1, Carried
      <3> QED BY <2>2, <3>2
    <2>7. Counters'
      BY <2>2 DEF IInv, Counters, Balanced, Accounted, Creating, Working, Orphans
    <2> QED BY <2>4, <2>5, <2>6, <2>7 DEF IInv, Coherent
  <1>5. CASE Publish
    <2>1. /\ UNCHANGED service /\ UNCHANGED <<cl, commands, creates, failures, faults>>
          /\ catalog' \in Catalogs /\ publishes' \in 0 .. MaxPublish
      BY <1>5, CommandsAssumption DEF Publish, IInv, Counters
    <2>2. catalog'.audits \subseteq AuditKey /\ catalog'.sound \in BOOLEAN
      BY <2>1, CommandsAssumption
    <2>3. Shared'
      BY <2>1, <2>2 DEF IInv, Shared, service, ghosts
    <2>4. Settings'
      BY <2>1 DEF IInv, Settings, service, ghosts
    <2>5. \A c \in Client : Coherent(c)'
      BY <2>1 DEF IInv, Coherent, service, ghosts
    <2>6. Counters'
      BY <2>1 DEF IInv, Counters, Balanced, Accounted, Creating, Working, Orphans, service
    <2> QED BY <2>3, <2>4, <2>5, <2>6 DEF IInv
  <1>6. CASE UNCHANGED vars
    <2>1. UNCHANGED <<fleet, ux, member, recon, setting, issued, settled, written, taken,
                      catalog, cl, commands, creates, failures, faults, publishes>>
      BY <1>6 DEF vars, service, ghosts
    <2>2. Shared' /\ Settings' /\ \A c \in Client : Coherent(c)'
      BY <2>1 DEF IInv, Shared, Settings, Coherent
    <2>3. Counters'
      BY <2>1 DEF IInv, Counters, Balanced, Accounted, Creating, Working, Orphans
    <2> QED BY <2>2, <2>3 DEF IInv
  <1> QED BY <1>1, <1>2, <1>3, <1>4, <1>5, <1>6 DEF Next

(* The inductive invariant holds for any number of clients, projects,      *)
(* repositories, commands and faults: the service's state is typed and     *)
(* complete, each command's record agrees with what the service stored for *)
(* it and with the recon it was shown, and the accounts of creates and     *)
(* failures balance.                                                       *)
THEOREM Invariance == Spec => []IInv
  <1> QED BY InitHolds, NextKeeps, PTL DEF Spec

(* Every variable keeps its type and every stored setting is complete      *)
(* (plan_schedule_update, desired_job).                                    *)
THEOREM TypeCorrect == Spec => []TypeOK
  <1>1. IInv => TypeOK
    <2> SUFFICES ASSUME IInv PROVE TypeOK
      OBVIOUS
    <2>1. ASSUME NEW c \in Client
          PROVE  /\ cl[c].kind \in AllKinds \cup {None} /\ cl[c].result \in Results
                 /\ cl[c].attempt \in 1 .. RetryTotal + 1 /\ cl[c].waited \in Nat
                 /\ cl[c].held \subseteq DOMAIN cl[c].plan
                 /\ written[c] \subseteq Slots
      BY DEF IInv, Coherent, Sound, Local, KindOK, WaitOK, PlanOK, Wrote
    <2> QED BY <2>1 DEF IInv, Shared, Settings, Counters, TypeOK
  <1> QED BY <1>1, Invariance, PTL

(* Fleet never has more projects than create commands asked for, whatever  *)
(* answers are lost: RetryProfile.UNSAFE_MUTATION sends the POST of        *)
(* create_project once.                                                    *)
THEOREM CreatesOnce == Spec => []NoDoubleCreate
  <1>1. IInv => NoDoubleCreate
    <2> SUFFICES ASSUME IInv PROVE NoDoubleCreate
      OBVIOUS
    <2>1. issued \subseteq Project /\ Creating \subseteq Client
      BY DEF IInv, Shared, Creating
    <2>2. Cardinality(issued) \in Nat /\ Cardinality(Creating) \in Nat
      BY <2>1, Finite
    <2> QED BY <2>2 DEF IInv, Counters, Balanced, NoDoubleCreate
  <1> QED BY <1>1, Invariance, PTL

(* No request waits longer than RetryTotal capped delays, whatever         *)
(* Retry-After its answers carry (transport.py _RetryWait).                *)
THEOREM WaitsBounded == Spec => []WaitBounded
  <1>1. IInv => WaitBounded
    <2> SUFFICES ASSUME IInv, NEW c \in Client PROVE cl[c].waited <= RetryTotal * MaxDelay
      BY DEF WaitBounded
    <2>1. /\ cl[c].attempt \in 1 .. RetryTotal + 1 /\ cl[c].waited \in Nat
          /\ cl[c].waited <= (cl[c].attempt - 1) * MaxDelay
      BY DEF IInv, Coherent, Sound, Local, WaitOK
    <2>2. \A m, n, k \in Nat : m <= n => m * k <= n * k
      OBVIOUS
    <2>3. cl[c].attempt - 1 \in Nat /\ cl[c].attempt - 1 <= RetryTotal
      BY <2>1, TransportAssumption
    <2>4. (cl[c].attempt - 1) * MaxDelay <= RetryTotal * MaxDelay
      BY <2>2, <2>3, TransportAssumption
    <2> QED BY <2>1, <2>3, <2>4, TransportAssumption
  <1> QED BY <1>1, Invariance, PTL

(* There are at most as many projects between the two services as there    *)
(* are commands running.                                                   *)
LEMMA WorkingCounted ==
    ASSUME IInv
    PROVE  Cardinality(Working) <= Cardinality({c \in Client : cl[c].pc # "idle"})
  <1> DEFINE H == {c \in Client : Halfway(cl[c])}
             B == {c \in Client : cl[c].pc # "idle"}
             f == [c \in H |-> cl[c].project]
  <1>1. H \subseteq B /\ B \subseteq Client
    BY DEF Halfway
  <1>2. IsFiniteSet(H) /\ IsFiniteSet(B)
    BY <1>1, Finite
  <1>3. f \in Surjection(H, Working)
    BY DEF Surjection, Working
  <1>4. IsFiniteSet(Working) /\ Cardinality(Working) <= Cardinality(H)
    BY <1>2, <1>3, FS_Surjection
  <1>5. Cardinality(H) <= Cardinality(B)
    BY <1>1, <1>2, FS_Subset
  <1>6. Cardinality(Working) \in Nat /\ Cardinality(H) \in Nat /\ Cardinality(B) \in Nat
    BY <1>2, <1>4, FS_CardinalityType
  <1> HIDE DEF H, f
  <1> QED BY <1>4, <1>5, <1>6

(* Every project that only Fleet has is one a running command is at work   *)
(* on or had a command that raised or was killed (the partial-state errors *)
(* of create_project and delete_project).                                  *)
THEOREM OrphansReported == Spec => []OrphanReported
  <1>1. IInv => OrphanReported
    <2> SUFFICES ASSUME IInv PROVE OrphanReported
      OBVIOUS
    <2> DEFINE A == Orphans \ Working
               W == Orphans \cap Working
               B == {c \in Client : cl[c].pc # "idle"}
    <2>1. Orphans \subseteq Project /\ W \subseteq Project /\ B \subseteq Client
      BY DEF Orphans
    <2>2. /\ IsFiniteSet(Orphans) /\ Cardinality(Orphans) \in Nat /\ Cardinality(W) \in Nat
          /\ Cardinality(B) \in Nat
      BY <2>1, Finite
    <2>3. Cardinality(A) = Cardinality(Orphans) - Cardinality(W)
      BY <2>2, FS_Difference
    <2>4. IsFiniteSet(Working)
      <3>1. Working \subseteq Project
        BY DEF IInv, Coherent, Sound, Local, RefsOK, ProjectSet, Working, Halfway
      <3> QED BY <3>1, Finite
    <2>5. Cardinality(W) <= Cardinality(Working) /\ Cardinality(Working) \in Nat
      BY <2>4, FS_Subset, FS_CardinalityType
    <2>6. Cardinality(Working) <= Cardinality(B)
      BY WorkingCounted
    <2>7. Cardinality(A) <= failures /\ failures \in Nat
      BY DEF IInv, Counters, Accounted
    <2> HIDE DEF A, W
    <2>8. Cardinality(Orphans) <= failures + Cardinality(B)
      BY <2>2, <2>3, <2>5, <2>6, <2>7
    <2> QED BY <2>8 DEF OrphanReported
  <1> QED BY <1>1, Invariance, PTL

(* repo add that does not report a failed recon leaves a recon that ran or *)
(* runs, unless the repository was taken or moved meanwhile                *)
(* (recon_after_add).                                                      *)
THEOREM ReconIsEnsured == Spec => []ReconEnsured
  <1>1. IInv => ReconEnsured
    BY DEF IInv, Coherent, Sound, Backing, Backed, ReconEnsured
  <1> QED BY <1>1, Invariance, PTL

(* A batch that reports completion stored every changed setting; one that  *)
(* failed stored all before the failure and none behind it                 *)
(* (execute_batch).                                                        *)
THEOREM BatchesAreHonest == Spec => []BatchHonest
  <1>1. IInv => BatchHonest
    BY DEF IInv, Coherent, Sound, Wrote, ChangedUpTo, BatchHonest
  <1> QED BY <1>1, Invariance, PTL

(* The update written last to a setting is decided `unchanged' when it is  *)
(* given again (application/subscriptions.py).                             *)
THEOREM RepeatsAreUnchanged == Spec => []RepeatUnchanged
  <1>1. IInv => RepeatUnchanged
    BY DEF IInv, Coherent, Sound, Local, PlanOK, GoodEntry, RepeatUnchanged
  <1> QED BY <1>1, Invariance, PTL

(* Discovery reads ascending pages and takes a credential only once it has *)
(* read as many as the service counted (gitlab_gateway.py).                *)
THEOREM DiscoveryIsSound == Spec => []DiscoverySound
  <1>1. IInv => DiscoverySound
    BY DEF IInv, Coherent, Sound, Local, DiscoverOK, DiscoverySound, At
  <1> QED BY <1>1, Invariance, PTL
=============================================================================
