------------------------------ MODULE Commands ------------------------------
(***************************************************************************)
(* The commands that change something on the Enji service: projects and    *)
(* repositories (portfolio/*.py, enji_gateway/http.py and                  *)
(* portfolio_gateway.py), recon, and the batches that write audit          *)
(* schedules, improvement jobs and completion emails                       *)
(* (application/subscriptions.py, mutations.py), with the observation of   *)
(* the audit catalog they make on their way                                *)
(* (audit/catalog_observation.py).  Several commands run at once, each in  *)
(* a process of its own.                                                   *)
(*                                                                         *)
(* One step is one attempt of one HTTP request: the service may apply it   *)
(* and its answer be lost, garbled or refused.  What follows the answer up *)
(* to the next request is part of the step.  The service is external: what *)
(* the code in enji_gateway sends and expects is what is known of it.      *)
(***************************************************************************)
EXTENDS Transport, Subscriptions, GitLab

CONSTANTS
    Client,         \* processes that run commands
    Sessions,       \* which kinds of command run side by side, and how many clients
                    \* may run each
    Project,        \* ids of projects
    Name,           \* names of projects
    Repo,           \* repositories, by provider, host and locator
    AuditKey,       \* audits that may be published
    Start,          \* states of the service to start from
    Scopes,         \* scopes given to a batch
    Catalogs,       \* catalogs the service may return
    Updates,        \* Updates[kind]: the updates given to a batch
    GitLabId,       \* ids of GitLab credentials and projects
    MaxPage,        \* bound: numbers of GitLab project pages
    MaxCommands,    \* bound: commands
    MaxFaults,      \* bound: broken answers, killed commands, failing writes
    MaxPublish      \* bound: changes of the catalog

Batches == {"schedules", "auto_time", "jobs", "email"}
AllKinds ==
    {"create", "rename", "delete", "add", "remove", "move", "recon", "discover"} \cup Batches

ASSUME CommandsAssumption ==
    /\ \A session \in Sessions : DOMAIN session \subseteq AllKinds
    /\ MaxCommands \in Nat /\ MaxFaults \in Nat /\ MaxPublish \in Nat /\ MaxPage \in Nat
    /\ None \notin Name \cup Project \cup Repo
    /\ IsFiniteSet(Client) /\ IsFiniteSet(Project)
    /\ IsFiniteSet(AuditKey) /\ IsFiniteSet(GitLabId)
    /\ \A x \in Catalogs : x.audits \subseteq AuditKey /\ x.sound \in BOOLEAN
    /\ \A u \in Updates["schedules"] : u.enabled \in {None, "on", "off"}
    /\ \A u \in Updates["jobs"] : {u.enabled, u.automatic} \subseteq {None, "on", "off"}

VARIABLES
    fleet,      \* fleet[p]: name of the project in Fleet, or None
    ux,         \* ux[p]: name of the project in the UX service, or None
    member,     \* member[<<p, r>>]: "absent", "added" or "connected"
    recon,      \* recon[<<p, r>>]: "never", "running" or "done"
    setting,    \* setting[kind][<<r, k>>]: what is stored for repository and audit
    issued,     \* ids of projects given out so far
    settled,    \* ghost: settled[kind][<<r, k>>]: the update written last, if any
    written,    \* ghost: written[c]: what the service stored for c's command
    taken,      \* ghost: taken[c]: repositories removed or moved since c's
                \* command began
    catalog,    \* what GET catalog returns
    baseline,   \* audit-catalog.json: the audits last observed, if any
    cl,         \* cl[c]: the command a process runs, or the end of its last
    commands,   \* commands so far
    creates,    \* ghost: projects at first, and create commands since
    failures,   \* ghost: Fleet projects without UX project at first, and
                \* commands that raised or were killed since
    told,       \* ghost: the audits the operator knows of
    faults,     \* faults so far
    publishes   \* changes of the catalog so far

ghosts == <<settled, written, taken>>
service == <<fleet, ux, member, recon, setting, issued, ghosts>>
vars == <<service, catalog, baseline, cl, commands, creates, failures, told, faults, publishes>>

Slots == Repo \X AuditKey

(* schedule auto-time works on the schedules.                              *)
StoreOf(kind) == IF kind = "auto_time" THEN "schedules" ELSE kind

(* The arguments of a command, as far as they are given.                   *)
Given(name, to, repo, all, update) ==
    [name |-> name, to |-> to, repo |-> repo, all |-> all, update |-> update]

NoArgs == Given(None, None, None, None, NoEmail)

NoTarget == [project |-> None, name |-> None, repo |-> None, connected |-> FALSE, done |-> FALSE]

Idle ==
    [kind |-> None, pc |-> "idle", args |-> NoArgs, project |-> None, target |-> NoTarget,
     unread |-> {}, found |-> {}, todo |-> {}, plan |-> <<>>, k |-> 0, held |-> {},
     creds |-> {}, total |-> 0, at |-> 0, seen |-> {}, pages |-> <<>>,
     keys |-> {}, sound |-> TRUE, change |-> FALSE, attempt |-> 1, waited |-> 0,
     result |-> None, recon |-> None]

(* Projects that Fleet has and the UX service does not list.               *)
Orphans == {p \in Project : fleet[p] # None /\ ux[p] = None}

Init ==
    /\ \E s \in Start :
         /\ fleet = s.fleet /\ ux = s.ux /\ member = s.member /\ recon = s.recon
         /\ setting = s.setting
         /\ issued = {p \in Project : s.fleet[p] # None}
    /\ settled = [kind \in {"schedules", "jobs", "email"} |-> [slot \in Slots |-> {}]]
    /\ catalog = [audits |-> AuditKey, sound |-> TRUE]
    /\ baseline = {}
    /\ cl = [c \in Client |-> Idle]
    /\ written = [c \in Client |-> {}] /\ taken = [c \in Client |-> {}]
    /\ commands = 0 /\ faults = 0 /\ publishes = 0
    /\ creates = Cardinality(issued)
    /\ failures = Cardinality(Orphans)
    /\ told = {}

----------------------------------------------------------------------------
(* Requests                                                                *)

At(c, kind, pc) == cl[c].kind = kind /\ cl[c].pc = pc

Raised == {"error", "partial_state", "killed"}

Goto(c, pc) == [cl[c] EXCEPT !.pc = pc, !.attempt = 1, !.waited = 0]

End(c, result) ==
    [Idle EXCEPT !.kind = cl[c].kind, !.args = cl[c].args, !.project = cl[c].project,
                 !.target = cl[c].target, !.recon = cl[c].recon, !.plan = cl[c].plan,
                 !.k = cl[c].k, !.held = cl[c].held,
                 !.result = result]

(* A command that raises has no notice of a changed catalog to show.       *)
Become(c, next) ==
    /\ cl' = [cl EXCEPT ![c] = next]
    /\ failures' = IF next.result \in Raised THEN failures + 1 ELSE failures
    /\ told' = IF next.pc = "idle" /\ cl[c].change /\ next.result \notin Raised
               THEN cl[c].keys ELSE told

Fault == faults < MaxFaults /\ faults' = faults + 1

NoEffect == UNCHANGED service

Fine(e) ==
    [status |-> CHOOSE status \in ExpectedStatuses(e) : TRUE, after |-> NoHeader,
     body |-> IF MayBeEmpty(e) THEN "empty" ELSE "object"]

Refused == [status |-> 404, after |-> NoHeader, body |-> "object"]

(* No answer, an answer to retry with a long Retry-After, a refusal, and   *)
(* an answer that is not a JSON object.                                    *)
Broken(e) ==
    {[status |-> 0, after |-> NoHeader, body |-> "other"],
     [status |-> 503, after |-> MaxDelay + 1, body |-> "other"],
     [status |-> 403, after |-> NoHeader, body |-> "object"],
     [Fine(e) EXCEPT !.body = "other"]}

(* One attempt: `allowed' says whether the service takes the request,      *)
(* Apply what it does then; the command goes on as next or as failed.      *)
Request(c, e, allowed, Apply, next, failed) ==
    \E answer \in {Fine(e), Refused} \cup Broken(e), jitter \in {0, Jitter} :
        /\ \/ answer = Fine(e) /\ allowed /\ Apply /\ UNCHANGED faults
           \/ answer = Refused /\ ~allowed /\ NoEffect /\ UNCHANGED faults
           \/ answer \in Broken(e) /\ Fault /\ ((allowed /\ Apply) \/ NoEffect)
        /\ Become(c, IF Accepted(e, answer) THEN next
                     ELSE IF Retries(e, answer, cl[c].attempt)
                     THEN [cl[c] EXCEPT !.attempt = @ + 1,
                                        !.waited = @ + RetryDelay(answer, cl[c].attempt, jitter)]
                     ELSE failed)
        /\ UNCHANGED <<catalog, baseline, commands, creates, publishes>>

Read(c, e, allowed, next) == Request(c, e, allowed, NoEffect, next, End(c, "error"))

----------------------------------------------------------------------------
(* Selectors                                                               *)

Listed == {p \in Project : ux[p] # None}

ProjectMatches(p, selector) == p = selector \/ ux[p] = selector

(* resolve_project gives a project only when there is exactly one.         *)
Selected(selector) ==
    IF selector = None THEN Listed ELSE {p \in Listed : ProjectMatches(p, selector)}

One(set) == Cardinality(set) = 1
The(set) == CHOOSE x \in set : TRUE

(* resolve_repository over what project details returned.                  *)
RepositoryMatches(found, repo, project) ==
    {t \in found : t.repo = repo /\ (project = None \/ project \in {t.project, t.name})}

RepositoryRefs(p) ==
    {[project |-> p, name |-> ux[p], repo |-> r, connected |-> member[<<p, r>>] = "connected",
      done |-> recon[<<p, r>>] = "done"] : r \in {r \in Repo : member[<<p, r>>] # "absent"}}

(* The details of several projects are read side by side, each at a moment *)
(* of its own; `next' follows the last of them.                            *)
DetailRead(c, p) ==
    [Goto(c, "detail") EXCEPT !.unread = @ \ {p}, !.found = @ \cup RepositoryRefs(p)]

ReadDetail(c, p, next) ==
    Read(c, "project_detail", ux[p] # None,
         IF DetailRead(c, p).unread = {} THEN next ELSE DetailRead(c, p))

----------------------------------------------------------------------------
(* Projects                                                                *)

CreateList(c) ==
    /\ At(c, "create", "projects")
    /\ Read(c, "projects", TRUE,
            IF \E p \in Listed : ux[p] = cl[c].args.name THEN End(c, "already_present")
            ELSE Goto(c, "fleet_create"))

NewProject == CHOOSE p \in Project \ issued : TRUE

FleetCreate(c) ==
    /\ At(c, "create", "fleet_create")
    /\ Request(c, "fleet_project_create", issued # Project,
               /\ fleet' = [fleet EXCEPT ![NewProject] = cl[c].args.name]
               /\ issued' = issued \cup {NewProject}
               /\ UNCHANGED <<ux, member, recon, setting, ghosts>>,
               [Goto(c, "ux_create") EXCEPT !.project = NewProject], End(c, "error"))

UxCreate(c) ==
    /\ At(c, "create", "ux_create")
    /\ LET p == cl[c].project
       IN  Request(c, "ux_project_create", fleet[p] # None,
                   /\ ux' = [ux EXCEPT ![p] = cl[c].args.name]
                   /\ UNCHANGED <<fleet, member, recon, setting, issued, ghosts>>,
                   End(c, "created"), End(c, "partial_state"))

RenameList(c) ==
    /\ At(c, "rename", "projects")
    /\ LET selected == Selected(cl[c].args.name)
       IN  Read(c, "projects", TRUE,
                IF ~One(selected) THEN End(c, "error")
                ELSE IF ux[The(selected)] = cl[c].args.to THEN End(c, "unchanged")
                ELSE [Goto(c, "rename") EXCEPT !.project = The(selected)])

Rename(c) ==
    /\ At(c, "rename", "rename")
    /\ LET p == cl[c].project
       IN  Request(c, "project_rename", ux[p] # None,
                   /\ ux' = [ux EXCEPT ![p] = cl[c].args.to]
                   /\ UNCHANGED <<fleet, member, recon, setting, issued, ghosts>>,
                   End(c, "renamed"), End(c, "error"))

DeleteList(c) ==
    /\ At(c, "delete", "projects")
    /\ LET selected == Selected(cl[c].args.name)
       IN  Read(c, "projects", TRUE,
                IF selected = {} THEN End(c, "already_absent")
                ELSE IF ~One(selected) THEN End(c, "error")
                ELSE [Goto(c, "detail") EXCEPT !.project = The(selected), !.unread = selected])

DeleteDetail(c) ==
    LET decide(w) == IF w.found # {} THEN End(c, "error") ELSE [w EXCEPT !.pc = "ux_delete"]
    IN  /\ At(c, "delete", "detail")
        /\ \E p \in cl[c].unread : ReadDetail(c, p, decide(DetailRead(c, p)))

UxDelete(c) ==
    /\ At(c, "delete", "ux_delete")
    /\ LET p == cl[c].project
       IN  Request(c, "ux_project_delete", ux[p] # None,
                   /\ ux' = [ux EXCEPT ![p] = None]
                   /\ UNCHANGED <<fleet, member, recon, setting, issued, ghosts>>,
                   Goto(c, "fleet_delete"), End(c, "error"))

FleetDeleteIgnored(c) == End(c, "deleted")

(* EnjiPartialStateError.                                                  *)
FleetDeleteFailed(c) == End(c, "partial_state")

FleetDelete(c) ==
    /\ At(c, "delete", "fleet_delete")
    /\ LET p == cl[c].project
       IN  Request(c, "fleet_project_delete", fleet[p] # None,
                   /\ fleet' = [fleet EXCEPT ![p] = None]
                   /\ UNCHANGED <<ux, member, recon, setting, issued, ghosts>>,
                   End(c, "deleted"), FleetDeleteFailed(c))

----------------------------------------------------------------------------
(* Repositories                                                            *)

SetMember(p, r, state) ==
    /\ member' = [member EXCEPT ![<<p, r>>] = state]
    /\ UNCHANGED <<fleet, ux, recon, setting, issued, ghosts>>

AddList(c) ==
    /\ At(c, "add", "projects")
    /\ LET selected == Selected(cl[c].args.name)
       IN  Read(c, "projects", TRUE,
                IF ~One(selected) THEN End(c, "error")
                ELSE [Goto(c, "detail") EXCEPT !.project = The(selected), !.unread = selected])

(* A repository that is there already still goes on to recon.              *)
AddDetail(c) ==
    LET existing(w) == {t \in w.found : t.repo = cl[c].args.repo}
        decide(w) ==
            IF existing(w) = {} THEN [w EXCEPT !.pc = "add"]
            ELSE [w EXCEPT !.pc = IF The(existing(w)).connected THEN "catalog" ELSE "connect",
                           !.target = The(existing(w)), !.found = {}]
    IN  /\ At(c, "add", "detail")
        /\ \E p \in cl[c].unread : ReadDetail(c, p, decide(DetailRead(c, p)))

Connect(c) ==
    /\ At(c, "add", "connect")
    /\ LET p == cl[c].project  r == cl[c].args.repo
       IN  Request(c, "project_repo_connection", ux[p] # None /\ member[<<p, r>>] # "absent",
                   SetMember(p, r, "connected"),
                   [Goto(c, "catalog") EXCEPT !.target.done = recon[<<p, r>>] = "done"],
                   End(c, "error"))

Add(c) ==
    /\ At(c, "add", "add")
    /\ LET p == cl[c].project  r == cl[c].args.repo
       IN  Request(c, "project_repos_add", ux[p] # None /\ member[<<p, r>>] = "absent",
                   SetMember(p, r, "added"),
                   [Goto(c, "catalog") EXCEPT
                       !.target = [project |-> p, name |-> None, repo |-> r,
                                   connected |-> FALSE, done |-> recon[<<p, r>>] = "done"]],
                   End(c, "error"))

Taken(pairs) == taken' = [c \in Client |-> taken[c] \cup pairs]

(* remove and move look through every project.                             *)
AllTargets(c) ==
    /\ cl[c].kind \in {"remove", "move"} /\ cl[c].pc = "projects"
    /\ Read(c, "projects", TRUE,
            IF Listed # {} THEN [Goto(c, "detail") EXCEPT !.unread = Listed]
            ELSE End(c, IF cl[c].kind = "remove" THEN "already_absent" ELSE "error"))

RemoveDetail(c) ==
    LET matches(w) == RepositoryMatches(w.found, cl[c].args.repo, cl[c].args.name)
        decide(w) ==
            IF matches(w) = {} THEN End(c, "already_absent")
            ELSE IF ~One(matches(w)) THEN End(c, "error")
            ELSE [w EXCEPT !.pc = "remove", !.target = The(matches(w)), !.found = {}]
    IN  /\ At(c, "remove", "detail")
        /\ \E p \in cl[c].unread : ReadDetail(c, p, decide(DetailRead(c, p)))

Remove(c) ==
    /\ At(c, "remove", "remove")
    /\ LET p == cl[c].target.project  r == cl[c].target.repo
       IN  Request(c, "project_repo_delete", member[<<p, r>>] # "absent",
                   /\ member' = [member EXCEPT ![<<p, r>>] = "absent"]
                   /\ recon' = [recon EXCEPT ![<<p, r>>] = "never"]
                   /\ Taken({<<p, r>>})
                   /\ UNCHANGED <<fleet, ux, setting, issued, settled, written>>,
                   End(c, "removed"), End(c, "error"))

MoveDetail(c) ==
    LET matches(w) == RepositoryMatches(w.found, cl[c].args.repo, cl[c].args.name)
        decide(w) ==
            IF ~One(matches(w)) THEN End(c, "error")
            ELSE [w EXCEPT !.pc = "destination", !.target = The(matches(w)), !.found = {}]
    IN  /\ At(c, "move", "detail")
        /\ \E p \in cl[c].unread : ReadDetail(c, p, decide(DetailRead(c, p)))

Destination(c) ==
    /\ At(c, "move", "destination")
    /\ LET selected == Selected(cl[c].args.to)
       IN  Read(c, "projects", TRUE,
                IF ~One(selected) THEN End(c, "error")
                ELSE IF selected = {cl[c].target.project} THEN End(c, "already_in_target")
                ELSE [Goto(c, "preflight") EXCEPT !.project = The(selected)])

Movable(c) ==
    LET t == cl[c].target IN member[<<t.project, t.repo>>] # "absent" /\ ux[cl[c].project] # None

Preflight(c) ==
    /\ At(c, "move", "preflight")
    /\ Read(c, "repo_transfer_preflight", Movable(c), Goto(c, "move"))

Move(c) ==
    /\ At(c, "move", "move")
    /\ LET t == cl[c].target  q == cl[c].project
       IN  Request(c, "repo_transfer", Movable(c),
                   /\ member' = [member EXCEPT ![<<t.project, t.repo>>] = "absent",
                                               ![<<q, t.repo>>] = member[<<t.project, t.repo>>]]
                   /\ recon' = [recon EXCEPT ![<<t.project, t.repo>>] = "never",
                                             ![<<q, t.repo>>] = recon[<<t.project, t.repo>>]]
                   /\ Taken({<<t.project, t.repo>>, <<q, t.repo>>})
                   /\ UNCHANGED <<fleet, ux, setting, issued, settled, written>>,
                   End(c, "moved"), End(c, "error"))

----------------------------------------------------------------------------
(* The audit catalog                                                       *)

ReadCatalog(c) ==
    /\ cl[c].pc = "catalog"
    /\ Read(c, "catalog", TRUE,
            [Goto(c, "observe") EXCEPT !.keys = catalog.audits, !.sound = catalog.sound])

(* What a command does with the catalog it observed: parse_catalog_result  *)
(* raises on one that is not sound, but improvement jobs do without it.    *)
AfterCatalog(c) ==
    IF ~cl[c].sound /\ cl[c].kind # "jobs" THEN End(c, "error")
    ELSE [cl[c] EXCEPT !.pc = IF cl[c].kind \in Batches THEN "projects" ELSE "recon_status"]

(* _read_snapshot and _diff: the first catalog is no change.               *)
Observe(c) ==
    /\ cl[c].pc = "observe"
    /\ LET change == baseline # {} /\ cl[c].keys \notin baseline
       IN  Become(c, IF baseline = {} \/ change
                     THEN [cl[c] EXCEPT !.pc = "save", !.change = change]
                     ELSE AfterCatalog(c))
    /\ UNCHANGED <<service, catalog, baseline, commands, creates, faults, publishes>>

(* The first catalog is no change the operator would have to be told of.   *)
Saved(c) ==
    /\ baseline' = {cl[c].keys}
    /\ told' = IF cl[c].change THEN told ELSE cl[c].keys

(* A write that fails may be visible.                                      *)
Save(c) ==
    /\ cl[c].pc = "save"
    /\ \/ /\ Saved(c)
          /\ LET next == AfterCatalog(c)
             IN  /\ cl' = [cl EXCEPT ![c] = next]
                 /\ failures' = IF next.result \in Raised THEN failures + 1 ELSE failures
          /\ UNCHANGED faults
       \/ /\ Saved(c) \/ UNCHANGED <<baseline, told>>
          /\ cl' = [cl EXCEPT ![c] = End(c, "error")]
          /\ failures' = failures + 1
          /\ Fault
    /\ UNCHANGED <<service, catalog, commands, creates, publishes>>

(* A new audit is published, or one is withdrawn, or the catalog is not    *)
(* sound for a while.                                                      *)
Publish ==
    /\ publishes < MaxPublish
    /\ publishes' = publishes + 1
    /\ catalog' \in Catalogs \ {catalog}
    /\ UNCHANGED <<service, baseline, cl, commands, creates, failures, told, faults>>

----------------------------------------------------------------------------
(* Recon                                                                   *)

ReconDetail(c) ==
    LET matches(w) == RepositoryMatches(w.found, cl[c].args.repo, cl[c].args.name)
        decide(w) ==
            IF ~One(matches(w)) THEN End(c, "error")
            ELSE [w EXCEPT !.pc = "catalog", !.target = The(matches(w)), !.found = {}]
    IN  /\ At(c, "recon", "detail")
        /\ \E p \in cl[c].unread : ReadDetail(c, p, decide(DetailRead(c, p)))

ReconEnds(c, state) ==
    [End(c, IF cl[c].kind = "add" THEN "present" ELSE state) EXCEPT !.recon = state]

ReconDoneUnlessNever(target) == TRUE

(* recon_done as project details, or the answer to the add, had it.        *)
ReconDone(target) == target.done

ReconStatus(c) ==
    /\ cl[c].pc = "recon_status"
    /\ LET t == cl[c].target
       IN  Read(c, "repo_active_runs", TRUE,
                IF recon[<<t.project, t.repo>>] = "running" THEN ReconEnds(c, "already_running")
                ELSE IF ReconDone(t) THEN ReconEnds(c, "unchanged")
                ELSE Goto(c, "recon_start"))

(* The start itself is AuditStart's: it looks at the active runs again and *)
(* reports a refused POST as a failed start.  An error of the reads before *)
(* the POST, or of the session, ends the command.                          *)
ReconStart(c) ==
    /\ cl[c].pc = "recon_start"
    /\ \E failed \in {ReconEnds(c, "failed"), End(c, "error")} :
         LET t == cl[c].target
             running == recon[<<t.project, t.repo>>] = "running"
         IN  Request(c, "repo_audit_runs", member[<<t.project, t.repo>>] # "absent",
                     IF running THEN NoEffect
                     ELSE /\ recon' = [recon EXCEPT ![<<t.project, t.repo>>] = "running"]
                          /\ UNCHANGED <<fleet, ux, member, setting, issued, ghosts>>,
                     ReconEnds(c, IF running THEN "already_running" ELSE "started"),
                     failed)

(* The service ends a recon run.                                           *)
ReconCompletes(p, r) ==
    /\ recon[<<p, r>>] = "running"
    /\ recon' = [recon EXCEPT ![<<p, r>>] = "done"]
    /\ UNCHANGED <<fleet, ux, member, setting, issued, ghosts>>
    /\ UNCHANGED <<catalog, baseline, cl, commands, creates, failures, told, faults, publishes>>

----------------------------------------------------------------------------
(* GitLab discovery.  The service is free to answer each page as it likes. *)

(* The credentials are paged by offset; all of them are read before one is *)
(* selected, and the projects are read from the page that was asked for.   *)
(* The total of the first page holds for the others.                       *)
AfterCredentials(c, ids, total, page) ==
    LET offset == cl[c].at
        creds == cl[c].creds \cup ids
        read == [Goto(c, "credentials") EXCEPT !.creds = creds, !.total = total,
                                               !.at = offset + CredentialLimit]
    IN  IF \/ ~CredentialPageValid(offset, Cardinality(ids), total)
           \/ offset > 0 /\ total # cl[c].total
           \/ Repeated(cl[c].creds, ids)
        THEN End(c, "error")
        ELSE IF offset + CredentialLimit < total THEN read
        ELSE IF Selectable(creds, cl[c].args.name) = {} THEN End(c, "error")
        ELSE [read EXCEPT !.pc = "gitlab", !.at = page]

CredentialAnswers(c) ==
    {AfterCredentials(c, ids, total, page) :
        ids \in SUBSET GitLabId, total \in 0 .. Cardinality(GitLabId), page \in 1 .. MaxPage}

ListCredentials(c) ==
    /\ At(c, "discover", "credentials")
    /\ \E next \in CredentialAnswers(c) : Read(c, "git_credentials", TRUE, next)

(* discover_projects, over one page or all of them; the service names the  *)
(* next one.                                                               *)
AfterProjects(c, ids, page) ==
    LET pages == Append(cl[c].pages, cl[c].at)
    IN  IF Repeated(cl[c].seen, ids) THEN End(c, "error")
        ELSE IF cl[c].args.all = None \/ page = NoPage THEN End(c, "discovered")
        ELSE IF ~NextPageAllowed(pages, page) THEN End(c, "error")
        ELSE [cl[c] EXCEPT !.seen = @ \cup ids, !.pages = pages, !.at = page,
                           !.attempt = 1, !.waited = 0]

ProjectAnswers(c) ==
    {AfterProjects(c, ids, page) : ids \in SUBSET GitLabId, page \in NoPage .. MaxPage}

DiscoverProjects(c) ==
    /\ At(c, "discover", "gitlab")
    /\ \E next \in ProjectAnswers(c) : Read(c, "gitlab_projects", TRUE, next)

----------------------------------------------------------------------------
(* Batches: the targets are read, every decision planned, then written one *)
(* after the other.                                                        *)

(* MutationScope.from_args.                                                *)
ScopeValid(args) ==
    CASE args.all = "projects" -> args.repo = None /\ args.name = None
      [] args.all = "repos" -> args.repo = None /\ args.name # None
      [] OTHER -> args.repo # None

(* recon start and the batches read the projects the selector leaves.      *)
Targets(c) ==
    /\ cl[c].kind \in Batches \cup {"recon"} /\ cl[c].pc = "projects"
    /\ LET args == cl[c].args
           selected == IF args.name = None THEN Listed ELSE Selected(args.name)
           failing == args.name # None /\ ~One(selected)
       IN  IF cl[c].kind \in Batches /\ ~ScopeValid(args)
           THEN /\ Become(c, End(c, "error"))
                /\ UNCHANGED <<service, catalog, baseline, commands, creates, faults, publishes>>
           ELSE Read(c, "projects", TRUE,
                     IF failing \/ (selected = {} /\ args.repo # None) THEN End(c, "error")
                     ELSE IF selected = {} THEN End(c, "completed")
                     ELSE [Goto(c, "detail") EXCEPT !.unread = selected])

(* Email preferences are read one audit at a time, the other settings in   *)
(* one request per repository.                                             *)
ReadUnits(kind, targets, keys) ==
    IF kind = "email" THEN {<<t, {k}>> : t \in targets, k \in keys}
    ELSE {<<t, keys>> : t \in targets}

BatchDetail(c) ==
    LET args == cl[c].args
        targets(w) == IF args.repo = None THEN w.found
                      ELSE RepositoryMatches(w.found, args.repo, args.name)
        units(w) == ReadUnits(cl[c].kind, targets(w), cl[c].keys)
        decide(w) ==
            IF args.repo # None /\ ~One(targets(w)) THEN End(c, "error")
            ELSE IF units(w) = {} THEN End(c, "completed")
            ELSE [w EXCEPT !.pc = "settings", !.todo = units(w), !.found = {}]
    IN  /\ cl[c].kind \in Batches /\ cl[c].pc = "detail"
        /\ \E p \in cl[c].unread : ReadDetail(c, p, decide(DetailRead(c, p)))

Decide(kind, current, update) ==
    CASE kind = "schedules" -> DecideSchedule(current, update)
      [] kind = "auto_time" -> DecideAutoTime(current)
      [] kind = "jobs" -> DecideJob(current, update)
      [] kind = "email" -> DecideEmail(current, update)

(* schedule auto-time takes up only the schedules that exist.              *)
Planned(kind, slot) == kind = "auto_time" => setting.schedules[slot] # NoSchedule

Decision(c, slot) ==
    LET kind == cl[c].kind  update == cl[c].args.update
        decision == Decide(kind, setting[StoreOf(kind)][slot], update)
    IN  [slot |-> slot, status |-> decision.status, value |-> decision.value,
         repeat |-> kind # "auto_time" /\ update \in settled[StoreOf(kind)][slot]]

Sequence(set) ==
    CHOOSE s \in [1 .. Cardinality(set) -> set] : \A x \in set : \E i \in DOMAIN s : s[i] = x

(* The first decision from i on that writes; Len(plan) + 1 if there is     *)
(* none.                                                                   *)
NextWrite(plan, i) ==
    CHOOSE j \in i .. Len(plan) + 1 :
        /\ j > Len(plan) \/ plan[j].status = "changed"
        /\ \A m \in i .. (j - 1) : plan[m].status = "unchanged"

(* execute_batch goes on with decision i.                                  *)
Continue(c, w, i) ==
    LET j == NextWrite(w.plan, i)
        held == w.held \cup i .. (j - 1)
    IN  IF j > Len(w.plan)
        THEN [End(c, "completed") EXCEPT !.plan = w.plan, !.held = held, !.k = j]
        ELSE [w EXCEPT !.pc = "apply", !.k = j, !.held = held, !.attempt = 1, !.waited = 0]

SettingsEndpoint(kind) ==
    CASE kind \in {"schedules", "auto_time"} -> "audit_auto_runs"
      [] kind = "jobs" -> "improvement_jobs"
      [] kind = "email" -> "audit_email_preferences_get"

(* An improvement job that lacks a timezone makes the whole command raise, *)
(* before the first write.                                                 *)
ReadSettings(c) ==
    /\ cl[c].kind \in Batches /\ cl[c].pc = "settings"
    /\ LET unit == CHOOSE unit \in cl[c].todo : TRUE
           t == unit[1]
           slots == {<<t.repo, k>> : k \in unit[2]}
           decisions == {Decision(c, slot) : slot \in {s \in slots : Planned(cl[c].kind, s)}}
           w == [Goto(c, "settings") EXCEPT !.todo = @ \ {unit},
                                            !.plan = @ \o Sequence(decisions)]
       IN  Read(c, SettingsEndpoint(cl[c].kind), member[<<t.project, t.repo>>] # "absent",
                IF \E d \in decisions : cl[c].kind = "jobs" /\ d.value = BadJob
                THEN End(c, "error")
                ELSE IF w.todo # {} THEN w ELSE Continue(c, w, 1))

WriteEndpoint(kind) ==
    CASE kind \in {"schedules", "auto_time"} -> "audit_auto_run_put"
      [] kind = "jobs" -> "improvement_job_put"
      [] kind = "email" -> "audit_email_preferences_put"

(* The service stores the whole setting, or merges an email preference.    *)
Store(c, kind, slot, value, update) ==
    /\ setting' = [setting EXCEPT ![StoreOf(kind)][slot] =
                      IF kind = "email" THEN MergeEmail(@, value) ELSE value]
    /\ settled' = [settled EXCEPT ![StoreOf(kind)][slot] =
                      IF kind = "auto_time" THEN {} ELSE {update}]
    /\ written' = [written EXCEPT ![c] = @ \cup {slot}]
    /\ UNCHANGED <<fleet, ux, member, recon, issued, taken>>

BatchGoesOn(c) == Continue(c, cl[c], cl[c].k + 1)

(* Fail fast: nothing after the decision that failed is written.           *)
BatchFails(c) == End(c, IF cl[c].k > 1 THEN "partial" ELSE "failed")

Write(c) ==
    /\ cl[c].kind \in Batches /\ cl[c].pc = "apply"
    /\ LET d == cl[c].plan[cl[c].k]
       IN  Request(c, WriteEndpoint(cl[c].kind),
                   \E p \in Project : member[<<p, d.slot[1]>>] # "absent",
                   Store(c, cl[c].kind, d.slot, d.value, cl[c].args.update),
                   [Continue(c, cl[c], cl[c].k + 1) EXCEPT !.held = @ \cup {cl[c].k}],
                   BatchFails(c))

----------------------------------------------------------------------------
ValidUpdate(kind, update) ==
    CASE kind = "schedules" -> ValidScheduleUpdate(update)
      [] kind = "jobs" -> ValidJobUpdate(update)
      [] kind = "email" -> ValidEmailUpdate(update)
      [] OTHER -> TRUE

Arguments(kind) ==
    CASE kind \in {"create", "delete"} -> {Given(n, None, None, None, NoEmail) : n \in Name}
      [] kind = "rename" -> {Given(n, m, None, None, NoEmail) : n \in Name, m \in Name}
      [] kind = "add" -> {Given(n, None, r, None, NoEmail) : n \in Name, r \in Repo}
      [] kind \in {"remove", "recon"} ->
            {Given(n, None, r, None, NoEmail) : n \in Name \cup {None}, r \in Repo}
      [] kind = "discover" ->
            {Given(n, None, None, all, NoEmail) : n \in GitLabId \cup {None}, all \in {None, "pages"}}
      [] kind = "move" -> {Given(None, n, r, None, NoEmail) : n \in Name, r \in Repo}
      [] OTHER -> {Given(s.name, None, s.repo, s.all, u) : s \in Scopes, u \in Updates[kind]}

FirstRequest(kind) ==
    CASE kind \in Batches -> "catalog"
      [] kind = "discover" -> "credentials"
      [] OTHER -> "projects"

Begin(c) ==
    /\ cl[c].pc = "idle" /\ commands < MaxCommands
    /\ \E session \in Sessions : \E kind \in DOMAIN session : \E args \in Arguments(kind) :
         LET w == [Idle EXCEPT !.kind = kind, !.args = args,
                               !.pc = FirstRequest(kind)]
         IN  /\ \A d \in Client : cl[d].kind \in DOMAIN session \cup {None}
             /\ Cardinality({d \in Client : cl[d].kind = kind}) < session[kind]
             /\ IF ValidUpdate(kind, args.update) THEN Become(c, w)
                ELSE Become(c, [Idle EXCEPT !.kind = kind, !.args = args, !.result = "error"])
             /\ creates' = IF kind = "create" THEN creates + 1 ELSE creates
    /\ commands' = commands + 1
    /\ written' = [written EXCEPT ![c] = {}] /\ taken' = [taken EXCEPT ![c] = {}]
    /\ UNCHANGED <<fleet, ux, member, recon, setting, issued, settled>>
    /\ UNCHANGED <<catalog, baseline, faults, publishes>>

(* The process is killed between two requests.  A request under way when   *)
(* it is killed is an attempt without an answer, then the kill.            *)
Kill(c) ==
    /\ cl[c].pc # "idle"
    /\ Fault
    /\ Become(c, End(c, "killed"))
    /\ UNCHANGED <<service, catalog, baseline, commands, creates, publishes>>

ProjectCommand(c) ==
    \/ CreateList(c) \/ FleetCreate(c) \/ UxCreate(c)
    \/ RenameList(c) \/ Rename(c)
    \/ DeleteList(c) \/ DeleteDetail(c) \/ UxDelete(c) \/ FleetDelete(c)

RepositoryCommand(c) ==
    \/ AddList(c) \/ AddDetail(c) \/ Connect(c) \/ Add(c)
    \/ AllTargets(c) \/ RemoveDetail(c) \/ Remove(c)
    \/ MoveDetail(c) \/ Destination(c) \/ Preflight(c) \/ Move(c)
    \/ ReconDetail(c) \/ ReconStatus(c) \/ ReconStart(c)
    \/ ListCredentials(c) \/ DiscoverProjects(c)

BatchCommand(c) ==
    \/ ReadCatalog(c) \/ Observe(c) \/ Save(c)
    \/ Targets(c) \/ BatchDetail(c) \/ ReadSettings(c) \/ Write(c)

Step(c) == ProjectCommand(c) \/ RepositoryCommand(c) \/ BatchCommand(c)

Next ==
    \/ \E c \in Client : Begin(c) \/ Step(c) \/ Kill(c)
    \/ \E p \in Project, r \in Repo : ReconCompletes(p, r)
    \/ Publish

Spec == Init /\ [][Next]_vars

----------------------------------------------------------------------------
(* Properties                                                              *)

Results ==
    {None, "error", "partial_state", "killed", "created", "already_present", "renamed", "unchanged",
     "deleted", "already_absent", "present", "removed", "moved", "already_in_target",
     "already_running", "started", "failed", "partial", "completed",
     "discovered"}

(* A schedule that is stored says when it runs: no default was forgotten.  *)
CompleteSchedule(s) ==
    /\ DOMAIN s = DOMAIN NoSchedule
    /\ s # NoSchedule =>
        /\ s.enabled \in {"on", "off"} /\ s.cadence \in Cadences
        /\ s.time \notin {None, "auto"} /\ s.source \in {"auto", "user"}
        /\ s.timezone # None /\ s.kept # None

CompleteJob(j) ==
    j # NoJob =>
        /\ {j.enabled, j.automatic} \subseteq {"on", "off"} /\ j.frequency \in Cadences
        /\ None \notin {j.days, j.time, j.timezone, j.kept} /\ j.time # "auto"

CompleteSettings(set) ==
    /\ DOMAIN set = {"schedules", "jobs", "email"}
    /\ \A kind \in DOMAIN set : DOMAIN set[kind] = Slots
    /\ \A slot \in Slots :
         /\ CompleteSchedule(set.schedules[slot]) /\ CompleteJob(set.jobs[slot])
         /\ None \notin {set.email[slot].manual, set.email[slot].scheduled}

(* The states to start from are states the service can be in.              *)
ASSUME StartAssumption ==
    \A s \in Start :
        /\ s.fleet \in [Project -> Name \cup {None}] /\ s.ux \in [Project -> Name \cup {None}]
        /\ s.member \in [Project \X Repo -> {"absent", "added", "connected"}]
        /\ s.recon \in [Project \X Repo -> {"never", "running", "done"}]
        /\ CompleteSettings(s.setting)

(* Every variable keeps its type; what is stored for an audit is complete  *)
(* (plan_schedule_update and desired_job fill in what was not given).      *)
TypeOK ==
    /\ fleet \in [Project -> Name \cup {None}] /\ ux \in [Project -> Name \cup {None}]
    /\ member \in [Project \X Repo -> {"absent", "added", "connected"}]
    /\ recon \in [Project \X Repo -> {"never", "running", "done"}]
    /\ CompleteSettings(setting)
    /\ issued \subseteq Project
    /\ catalog.audits \subseteq AuditKey /\ catalog.sound \in BOOLEAN
    /\ \A c \in Client :
         /\ cl[c].kind \in AllKinds \cup {None} /\ cl[c].result \in Results
         /\ cl[c].attempt \in 1 .. RetryTotal + 1 /\ cl[c].waited \in Nat
         /\ cl[c].held \subseteq DOMAIN cl[c].plan
         /\ written[c] \subseteq Slots
    /\ commands \in 0 .. MaxCommands /\ faults \in 0 .. MaxFaults
    /\ publishes \in 0 .. MaxPublish

(* A POST that creates a project is sent once: whatever answers are lost,  *)
(* Fleet never has more projects than create commands asked for            *)
(* (RetryProfile.UNSAFE_MUTATION in transport.py).                         *)
NoDoubleCreate == Cardinality(issued) <= creates

(* However many answers ask to be retried, and whatever Retry-After they   *)
(* carry, one request waits at most RetryTotal capped delays               *)
(* (transport.py _RetryWait).                                              *)
WaitBounded == \A c \in Client : cl[c].waited <= RetryTotal * MaxDelay

(* No command leaves a project half made or half deleted and reports       *)
(* success: every project that only Fleet knows is one at work on it or    *)
(* has had a command that raised (the partial-state errors of              *)
(* create_project and delete_project).                                     *)
OrphanReported ==
    Cardinality(Orphans) <= failures + Cardinality({c \in Client : cl[c].pc # "idle"})

(* repo add that does not report a failed recon leaves the repository with *)
(* a recon that ran or runs, unless another command took it away or moved  *)
(* another in its place since the add began (recon_after_add).             *)
ReconEnsured ==
    \A c \in Client :
        /\ cl[c].kind = "add" /\ cl[c].result = "present" /\ cl[c].recon # "failed"
        /\ <<cl[c].target.project, cl[c].target.repo>> \notin taken[c]
        => recon[<<cl[c].target.project, cl[c].target.repo>>] # "never"

(* A batch reports what it wrote: "completed" means that every changed     *)
(* setting was stored; after a failure everything before it was, and       *)
(* nothing behind it (execute_batch).                                      *)
BatchHonest ==
    \A c \in Client :
        LET changed(last) == {cl[c].plan[i].slot :
                                i \in {i \in DOMAIN cl[c].plan :
                                         i <= last /\ cl[c].plan[i].status = "changed"}}
        IN  /\ cl[c].result = "completed" => written[c] = changed(Len(cl[c].plan))
            /\ cl[c].result \in {"partial", "failed"} /\ cl[c].kind \in Batches =>
                  /\ changed(cl[c].k - 1) \subseteq written[c]
                  /\ written[c] \subseteq changed(cl[c].k)

(* An update that was the last one written to a setting is unchanged when  *)
(* it is given again: no write is repeated for nothing.                    *)
RepeatUnchanged ==
    \A c \in Client : \A i \in DOMAIN cl[c].plan :
        cl[c].plan[i].repeat => cl[c].plan[i].status = "unchanged"

(* Discovery reads GitLab's pages in ascending order, so it ends whatever  *)
(* pages the service names next, and it has read as many credentials as    *)
(* the service counted before it takes one for the only one                *)
(* (gitlab_gateway.py discover_projects, _resolve_credential).             *)
DiscoverySound ==
    \A c \in Client :
        At(c, "discover", "gitlab") =>
            /\ \A i \in DOMAIN cl[c].pages : cl[c].pages[i] < cl[c].at
            /\ Cardinality(cl[c].creds) >= cl[c].total

(* Never two projects of one name in Fleet: a create that is repeated      *)
(* after a failure finds what the first one made.                          *)
NoDuplicateProject ==
    \A p, q \in Project : fleet[p] # None /\ fleet[p] = fleet[q] => p = q

(* Once all commands have ended, the operator has been told of the catalog *)
(* that is the baseline of later comparisons.                              *)
ChangeNoticed ==
    (\A c \in Client : cl[c].pc = "idle") => baseline \subseteq {told}
=============================================================================
