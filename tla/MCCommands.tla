---------------------------- MODULE MCCommands ----------------------------
(* Model-checking instances of Commands. *)
EXTENDS Commands, TLC

NoMembers == [x \in Project \X Repo |-> "absent"]
NoRecons == [x \in Project \X Repo |-> "never"]

NoSettings ==
    [schedules |-> [slot \in Slots |-> NoSchedule], jobs |-> [slot \in Slots |-> NoJob],
     email |-> [slot \in Slots |-> Email("on", "off")]]

(* A time chosen by the user, and settings made elsewhere. *)
OldSettings ==
    [schedules |-> [slot \in Slots |-> Schedule("on", "daily", "08:00", "user", "CET", "kept")],
     jobs |-> [slot \in Slots |-> Job("off", "on", "weekly", "friday", "10:00", "user", "CET", "kept")],
     email |-> [slot \in Slots |-> Email("off", "off")]]

(* Nothing yet; a project with its repositories; a second, empty project. *)
Empty ==
    [fleet |-> [p \in Project |-> None], ux |-> [p \in Project |-> None],
     member |-> NoMembers, recon |-> NoRecons, setting |-> NoSettings]
One1 ==
    [Empty EXCEPT !.fleet["p1"] = "n1", !.ux["p1"] = "n1", !.setting = OldSettings,
                  !.member = [x \in Project \X Repo |-> IF x[1] = "p1" THEN "added" ELSE "absent"]]
Two ==
    [One1 EXCEPT !.fleet["p2"] = "n2", !.ux["p2"] = "n2", !.setting = NoSettings]

MCStart == {Empty, One1, Two}
EmptyStart == {Empty}
(* Commands of these kinds, two of each. *)
Together(kinds) == [kind \in kinds |-> 2]

Creates == {Together({"create"})}
Emails == {Together({"email"})}

(* Discovery shares no state with another command. *)
MCSessions ==
    {Together(kinds) : kinds \in
        {{"create", "rename"}, {"create", "delete"}, {"add", "delete"}, {"add", "remove"},
         {"add", "move"}, {"delete", "move"}, {"remove", "schedules"}, {"recon"},
         {"schedules", "auto_time"}, {"jobs"}, {"email"}}}
    \cup {[kind \in {"discover"} |-> 1]}

MCCatalogs == {[audits |-> AuditKey, sound |-> TRUE], [audits |-> {"a1"}, sound |-> FALSE]}

SoundCatalogs == {[audits |-> AuditKey, sound |-> TRUE], [audits |-> {"a1"}, sound |-> TRUE]}

Symmetry == Permutations(Client) \cup Permutations(GitLabId)

MCScopes ==
    {[repo |-> None, name |-> None, all |-> "projects"], [repo |-> None, name |-> "n1", all |-> "repos"],
     [repo |-> "r1", name |-> None, all |-> None], [repo |-> None, name |-> None, all |-> "repos"]}

MCUpdates ==
    [schedules |-> {ScheduleUpdate("on", None, None), ScheduleUpdate(None, "monthly", "UTC"),
                    ScheduleUpdate(None, BadCadence, None)},
     auto_time |-> {NoEmail},
     jobs |-> {JobUpdate("on", None, None, None, None, None), JobUpdate("on", None, None, None, "auto", "UTC")},
     email |-> {Email("on", None), NoEmail}]
=============================================================================
