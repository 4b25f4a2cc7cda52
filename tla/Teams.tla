------------------------------- MODULE Teams -------------------------------
(***************************************************************************)
(* The teams of a company: the list of teams, the page of one, the dialogs *)
(* on them, and TeamService, which answers a call by reading, testing and  *)
(* then writing, each in a transaction of its own.  Dialogs can be closed  *)
(* and opened again while their call is under way, and others administer   *)
(* the same teams.  Names and descriptions, which an update changes and    *)
(* nothing else, are not modelled.                                         *)
(***************************************************************************)
EXTENDS Naturals, FiniteSets

CONSTANTS
  Colleagues,   \* users of the company, the one at the tab apart
  MaxTeams,     \* bound: teams ever made
  MaxTeamCalls  \* bound: calls of the tab under way

ASSUME TeamsAssumption ==
  IsFiniteSet(Colleagues) /\ MaxTeams \in Nat \ {0} /\ MaxTeamCalls \in Nat \ {0}

TeamRoles == {"lead", "member"}

Membership == [team : 1..MaxTeams, user : Colleagues, role : TeamRoles]

(* A call, how far it has come, and whether the dialog that made it is     *)
(* still there; what a request lacks is 0 or "member".                     *)
TeamCall == [do : {"create", "delete", "add", "remove"}, team : 0..MaxTeams,
             user : Colleagues \cup {0}, role : TeamRoles,
             stage : {"asked", "checked", "made", "done"}, here : BOOLEAN]

VARIABLES
  teams,        \* the teams there are; an identity is never used twice
  lastTeam,     \* the last one made
  memberships,  \* rows of team_members: team, user and role
  teamFolders,  \* teams with a folder of their own
  manages,      \* the user at the tab: "admin", "lead" of every team, "none"
  teamShown,    \* the team whose page is shown, 0 for the list
  teamsRead,    \* the list of teams as it was read last
  membersRead,  \* and the lists of members
  teamDialog,   \* the dialog shown: "none", "create" or "add"
  teamCalls     \* calls of the tab under way

teamVars == <<teams, lastTeam, memberships, teamFolders, manages, teamShown,
              teamsRead, membersRead, teamDialog, teamCalls>>

teamTables == <<teams, lastTeam, memberships, teamFolders>>

TeamsInit ==
  /\ teams = {} /\ lastTeam = 0 /\ memberships = {} /\ teamFolders = {}
  /\ manages \in {"admin", "lead"}
  /\ teamShown = 0 /\ teamsRead = {} /\ membersRead = {}
  /\ teamDialog = "none"
  /\ teamCalls = {}

MembersOf(t, rows) == {m.user : m \in {n \in rows : n.team = t}}

-----------------------------------------------------------------------------
(* The tables.                                                             *)

(* The key of team_members.team_id, and UNIQUE(team_id, user_id).          *)
MayInsert(t, u) == t \in teams /\ u \notin MembersOf(t, memberships)

(* A team goes and leaves its rows behind.                                 *)
DropTeamOnly(t) ==
  /\ teams' = teams \ {t}
  /\ UNCHANGED <<memberships, teamFolders, lastTeam>>

(* What belongs to a team goes with it: both keys say ON DELETE CASCADE.   *)
DropTeam(t) ==
  /\ teams' = teams \ {t}
  /\ memberships' = {m \in memberships : m.team # t}
  /\ teamFolders' = teamFolders \ {t}
  /\ UNCHANGED lastTeam

AddRow(t, u, r) ==
  /\ MayInsert(t, u)
  /\ memberships' = memberships \cup {[team |-> t, user |-> u, role |-> r]}
  /\ UNCHANGED <<teams, lastTeam, teamFolders>>

DropRow(t, u) ==
  /\ u \in MembersOf(t, memberships)
  /\ memberships' = {m \in memberships : m.team # t \/ m.user # u}
  /\ UNCHANGED <<teams, lastTeam, teamFolders>>

-----------------------------------------------------------------------------
(* The pages and their dialogs.                                            *)

ShowTeam ==
  /\ teamDialog = "none"
  /\ teamShown' \in IF teamShown = 0 THEN teamsRead ELSE {0}
  /\ UNCHANGED <<teamTables, manages, teamsRead, membersRead, teamDialog, teamCalls>>

OpenTeamDialog ==
  /\ teamDialog = "none"
  /\ teamDialog' = IF teamShown = 0 THEN "create" ELSE "add"
  /\ UNCHANGED <<teamTables, manages, teamShown, teamsRead, membersRead, teamCalls>>

(* A dialog that closes forgets that it has asked.                         *)
Away(calls) == {[c EXCEPT !.here = FALSE] : c \in calls}

CloseTeamDialog ==
  /\ teamDialog # "none" /\ teamDialog' = "none"
  /\ teamCalls' = Away(teamCalls)
  /\ UNCHANGED <<teamTables, manages, teamShown, teamsRead, membersRead>>

AskTeams(do, t, u, r) ==
  /\ Cardinality(teamCalls) < MaxTeamCalls
  /\ teamCalls' = teamCalls \cup
       {[do |-> do, stage |-> "asked", team |-> t, user |-> u, role |-> r,
         here |-> teamDialog = do]}
  /\ UNCHANGED <<teamTables, manages, teamShown, teamsRead, membersRead, teamDialog>>

(* The button of a dialog that waits for its call is disabled.             *)
DialogReady(d) == teamDialog = d /\ \A c \in teamCalls : ~ c.here

HandleCreateTeam == DialogReady("create") /\ AskTeams("create", 0, 0, "member")

(* A team is deleted on its page and on its card.                          *)
HandleDeleteTeam ==
  /\ teamDialog = "none"
  /\ \E t \in IF teamShown = 0 THEN teamsRead ELSE {teamShown} :
       AskTeams("delete", t, 0, "member")

(* The dialog offers the users that the list of members lacks.             *)
HandleAddMember ==
  /\ DialogReady("add")
  /\ \E u \in Colleagues \ MembersOf(teamShown, membersRead), r \in TeamRoles :
       AskTeams("add", teamShown, u, r)

HandleRemoveMember ==
  /\ teamShown # 0 /\ teamDialog = "none"
  /\ \E u \in MembersOf(teamShown, membersRead) :
       AskTeams("remove", teamShown, u, "member")

-----------------------------------------------------------------------------
(* TeamService.                                                            *)

Permitted(call) ==
  manages = "admin" \/ (manages = "lead" /\ call.do \in {"add", "remove"})

Proceeds(call, to) == teamCalls' = (teamCalls \ {call}) \cup {to}

(* Who asks, whether there is such a team, and whether the user is in it.  *)
TeamCallChecked ==
  /\ \E call \in teamCalls :
       /\ call.stage = "asked" /\ Permitted(call)
       /\ call.do = "create" \/ call.team \in teams
       /\ call.do = "add" => call.user \notin MembersOf(call.team, memberships)
       /\ Proceeds(call, [call EXCEPT !.stage = "checked"])
  /\ UNCHANGED <<teamTables, manages, teamShown, teamsRead, membersRead, teamDialog>>

(* What each handler then writes.                                          *)
Made(call) == Proceeds(call, [call EXCEPT !.stage = "made", !.team = lastTeam'])
Done(call) == Proceeds(call, [call EXCEPT !.stage = "done"])

CreateTeam(call) ==
  /\ call.do = "create" /\ lastTeam < MaxTeams
  /\ lastTeam' = lastTeam + 1 /\ teams' = teams \cup {lastTeam'}
  /\ Made(call)
  /\ UNCHANGED <<memberships, teamFolders>>

DeleteTeam(call) ==
  call.do = "delete" /\ call.team \in teams /\ DropTeam(call.team) /\ Done(call)

AddMember(call) ==
  call.do = "add" /\ AddRow(call.team, call.user, call.role) /\ Done(call)

RemoveMember(call) ==
  call.do = "remove" /\ DropRow(call.team, call.user) /\ Done(call)

TeamCallApplied ==
  /\ \E call \in teamCalls :
       /\ call.stage = "checked"
       /\ \/ CreateTeam(call) \/ DeleteTeam(call)
          \/ AddMember(call) \/ RemoveMember(call)
  /\ UNCHANGED <<manages, teamShown, teamsRead, membersRead, teamDialog>>

(* A new team gets its folder; that this fails is logged and no more.      *)
TeamFolderMade ==
  /\ \E call \in teamCalls :
       /\ call.stage = "made"
       /\ \/ UNCHANGED teamFolders
          \/ call.team \in teams /\ teamFolders' = teamFolders \cup {call.team}
       /\ Done(call)
  /\ UNCHANGED <<teams, lastTeam, memberships, manages, teamShown, teamsRead,
                 membersRead, teamDialog>>

(* The answer: the lists are read again, or stay if that fails, and the    *)
(* dialog closes that is open by now, if it is one of the kind that asked. *)
TeamCallAnswered ==
  /\ \E call \in teamCalls :
       /\ call.stage = "done"
       /\ IF call.do \in {"add", "remove"}
            THEN membersRead' \in {membersRead, memberships} /\ UNCHANGED teamsRead
            ELSE teamsRead' \in {teamsRead, teams} /\ UNCHANGED membersRead
       /\ teamShown' = IF call.do = "delete" /\ call.team = teamShown THEN 0
                       ELSE teamShown
       /\ IF teamDialog = call.do
            THEN teamDialog' = "none" /\ teamCalls' = Away(teamCalls \ {call})
            ELSE UNCHANGED teamDialog /\ teamCalls' = teamCalls \ {call}
  /\ UNCHANGED <<teamTables, manages>>

(* Refused, unreachable, or done and not heard of.                         *)
TeamCallFails ==
  /\ \E call \in teamCalls : teamCalls' = teamCalls \ {call}
  /\ UNCHANGED <<teamTables, manages, teamShown, teamsRead, membersRead, teamDialog>>

TeamListsRead ==
  /\ teamsRead' = teams /\ membersRead' = memberships
  /\ UNCHANGED <<teamTables, manages, teamShown, teamDialog, teamCalls>>

-----------------------------------------------------------------------------
(* Others do the same meanwhile, and may take the lead from the user here. *)
OthersManage ==
  /\ \E t \in teams :
       \/ DropTeam(t)
       \/ \E u \in Colleagues : DropRow(t, u)
       \/ \E u \in Colleagues \ MembersOf(t, memberships), r \in TeamRoles :
            AddRow(t, u, r)
  /\ UNCHANGED <<manages, teamShown, teamsRead, membersRead, teamDialog, teamCalls>>

LeadLost ==
  /\ manages = "lead" /\ manages' = "none"
  /\ UNCHANGED <<teamTables, teamShown, teamsRead, membersRead, teamDialog, teamCalls>>

TeamsNext ==
  \/ ShowTeam \/ OpenTeamDialog \/ CloseTeamDialog
  \/ HandleCreateTeam \/ HandleDeleteTeam
  \/ HandleAddMember \/ HandleRemoveMember
  \/ TeamCallChecked \/ TeamCallApplied \/ TeamFolderMade
  \/ TeamCallAnswered \/ TeamCallFails \/ TeamListsRead
  \/ OthersManage \/ LeadLost

TeamsSpec == TeamsInit /\ [][TeamsNext]_teamVars

-----------------------------------------------------------------------------
(* Type invariant.                                                         *)
TeamsTypeOK ==
  /\ lastTeam \in 0..MaxTeams /\ teams \subseteq 1..lastTeam
  /\ teamsRead \subseteq 1..lastTeam
  /\ memberships \subseteq Membership /\ membersRead \subseteq Membership
  /\ teamFolders \subseteq 1..lastTeam
  /\ manages \in {"admin", "lead", "none"} /\ teamShown \in 0..lastTeam
  /\ teamDialog \in {"none", "create", "add"}
  /\ teamCalls \subseteq TeamCall
  /\ \A c \in teamCalls : c.team \in 0..lastTeam

(* Members and folders are of teams that exist, although a team may be     *)
(* deleted after a call has found it and before the call writes.           *)
TeamKeepsItsOwn ==
  teamFolders \cup {m.team : m \in memberships} \subseteq teams

=============================================================================
