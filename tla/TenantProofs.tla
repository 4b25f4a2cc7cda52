---------------------------- MODULE TenantProofs ----------------------------
(***************************************************************************)
(* What a company shares, for any number of colleagues, teams, keys,       *)
(* folders, notifications and calls: the tables of its teams, its AI       *)
(* settings and their usage, the folders of its library, and the inbox of  *)
(* a user.                                                                 *)
(***************************************************************************)
EXTENDS Teams, AiSettings, ContentLibrary, Notifications, FiniteSetTheorems, TLAPS

-----------------------------------------------------------------------------
(***************************************************************************)
(* The tables of the teams. What TeamService has read before it writes     *)
(* plays no part in the proof: TeamKeepsItsOwn rests on the tables'        *)
(* constraints alone, on the key that an INSERT is refused by and on the   *)
(* cascade.                                                                *)
(***************************************************************************)
(* The steps that write none of the tables but teams and folders, and only *)
(* by making a team or the folder of one.                                  *)
Grows ==
  /\ UNCHANGED memberships /\ teams \subseteq teams'
  /\ teamFolders' \subseteq teamFolders \cup teams

(* What a step does to the tables.                                         *)
TableStep ==
  \/ Grows
  \/ \E t : DropTeam(t)
  \/ \E t, u : DropRow(t, u)
  \/ \E t, u, r : AddRow(t, u, r)

LEMMA AppliedIsTableStep == TeamCallApplied => TableStep
<1> SUFFICES ASSUME TeamCallApplied
             PROVE  TableStep
  OBVIOUS
<1>1. PICK call \in teamCalls :
        \/ /\ teams' = teams \cup {lastTeam'}
           /\ UNCHANGED <<memberships, teamFolders>>
        \/ DropTeam(call.team)
        \/ AddRow(call.team, call.user, call.role)
        \/ DropRow(call.team, call.user)
  BY DEF TeamCallApplied, CreateTeam, DeleteTeam, AddMember, RemoveMember
<1>2. CASE teams' = teams \cup {lastTeam'} /\ UNCHANGED <<memberships, teamFolders>>
  BY <1>2 DEF TableStep, Grows
<1>3. CASE DropTeam(call.team)
  BY <1>3 DEF TableStep
<1>4. CASE AddRow(call.team, call.user, call.role)
  BY <1>4 DEF TableStep
<1>5. CASE DropRow(call.team, call.user)
  BY <1>5 DEF TableStep
<1> QED BY <1>1, <1>2, <1>3, <1>4, <1>5

LEMMA OthersMakeTableStep == OthersManage => TableStep
<1> SUFFICES ASSUME OthersManage
             PROVE  TableStep
  OBVIOUS
<1>1. PICK t \in teams :
        DropTeam(t) \/ (\E u : DropRow(t, u)) \/ (\E u, r : AddRow(t, u, r))
  BY DEF OthersManage
<1> QED BY <1>1 DEF TableStep

LEMMA EveryStepIsTableStep ==
  ASSUME TeamKeepsItsOwn, [TeamsNext]_teamVars
  PROVE  TableStep
<1>1. UNCHANGED teamTables => TableStep
  BY DEF teamTables, TableStep, Grows, TeamKeepsItsOwn
<1>2. TeamFolderMade => TableStep
  <2> SUFFICES ASSUME TeamFolderMade
               PROVE  Grows
    BY DEF TableStep
  <2>1. PICK call \in teamCalls :
          \/ UNCHANGED teamFolders
          \/ call.team \in teams /\ teamFolders' = teamFolders \cup {call.team}
    BY DEF TeamFolderMade
  <2> QED BY <2>1 DEF TeamFolderMade, Grows
<1>3. ShowTeam \/ OpenTeamDialog \/ CloseTeamDialog \/ LeadLost => UNCHANGED teamTables
  BY DEF ShowTeam, OpenTeamDialog, CloseTeamDialog, LeadLost
<1>4. HandleCreateTeam \/ HandleDeleteTeam \/ HandleAddMember \/ HandleRemoveMember
        => UNCHANGED teamTables
  BY DEF HandleCreateTeam, HandleDeleteTeam, HandleAddMember, HandleRemoveMember, AskTeams
<1>5. TeamCallChecked \/ TeamCallAnswered \/ TeamCallFails \/ TeamListsRead
        => UNCHANGED teamTables
  BY DEF TeamCallChecked, TeamCallAnswered, TeamCallFails, TeamListsRead
<1>6. UNCHANGED teamVars => UNCHANGED teamTables
  BY DEF teamVars, teamTables
<1> QED
  BY <1>1, <1>2, <1>3, <1>4, <1>5, <1>6, AppliedIsTableStep, OthersMakeTableStep
     DEF TeamsNext

-----------------------------------------------------------------------------
LEMMA TeamsInitTables == TeamsInit => TeamKeepsItsOwn
BY DEF TeamsInit, TeamKeepsItsOwn

LEMMA TeamKeepsItsOwnStep ==
  ASSUME TeamKeepsItsOwn, TableStep
  PROVE  TeamKeepsItsOwn'
<1>1. CASE Grows
  BY <1>1 DEF Grows, TeamKeepsItsOwn
<1>2. CASE \E t : DropTeam(t)
  BY <1>2 DEF DropTeam, TeamKeepsItsOwn
<1>3. CASE \E t, u : DropRow(t, u)
  BY <1>3 DEF DropRow, TeamKeepsItsOwn
<1>4. CASE \E t, u, r : AddRow(t, u, r)
  <2>1. PICK t, u, r : AddRow(t, u, r)
    BY <1>4
  <2> DEFINE row == [team |-> t, user |-> u, role |-> r]
  <2>2. memberships' = memberships \cup {row} /\ row.team \in teams
    BY <2>1 DEF AddRow, MayInsert
  <2>3. UNCHANGED <<teams, teamFolders>>
    BY <2>1 DEF AddRow
  <2> HIDE DEF row
  <2> QED BY <2>2, <2>3 DEF TeamKeepsItsOwn
<1> QED BY <1>1, <1>2, <1>3, <1>4 DEF TableStep

-----------------------------------------------------------------------------
(* Members and folders are of teams that exist, whenever a team goes while *)
(* calls that have found it are about to write.                            *)
THEOREM TeamsOwnTheirs == TeamsSpec => []TeamKeepsItsOwn
<1>1. TeamKeepsItsOwn /\ [TeamsNext]_teamVars => TeamKeepsItsOwn'
  BY EveryStepIsTableStep, TeamKeepsItsOwnStep
<1> QED BY <1>1, TeamsInitTables, PTL DEF TeamsSpec
-----------------------------------------------------------------------------
(***************************************************************************)
(* The types, of the tables and of the calls under way.                    *)
(***************************************************************************)
(* Only users of the company are offered to be added.                      *)
AddsColleagues == \A c \in teamCalls : c.do = "add" => c.user \in Colleagues

TeamsTyped == TeamsTypeOK /\ AddsColleagues

LEMMA TeamsInitTyped == TeamsInit => TeamsTyped
BY TeamsAssumption DEF TeamsInit, TeamsTyped, TeamsTypeOK, AddsColleagues

(* The calls of the tab, and how each goes on.                             *)
CallsTo(last, calls) ==
  /\ calls \subseteq TeamCall
  /\ \A c \in calls : c.team \in 0..last /\ (c.do = "add" => c.user \in Colleagues)

LEMMA TeamsTypeParts ==
  TeamsTypeOK /\ AddsColleagues <=>
    /\ CallsTo(lastTeam, teamCalls)
    /\ lastTeam \in 0..MaxTeams /\ teams \subseteq 1..lastTeam
    /\ teamsRead \subseteq 1..lastTeam
    /\ memberships \subseteq Membership /\ membersRead \subseteq Membership
    /\ teamFolders \subseteq 1..lastTeam
    /\ manages \in {"admin", "lead", "none"} /\ teamShown \in 0..lastTeam
    /\ teamDialog \in {"none", "create", "add"}
BY DEF TeamsTypeOK, AddsColleagues, CallsTo

LEMMA TeamCallsGoOn ==
  ASSUME NEW last \in 0..MaxTeams, NEW more \in 0..MaxTeams, last <= more, NEW calls, CallsTo(last, calls)
  PROVE  /\ CallsTo(more, calls)
         /\ CallsTo(more, Away(calls))
         /\ \A S \in SUBSET calls : CallsTo(more, S)
         /\ \A c \in calls, s \in {"asked", "checked", "made", "done"} :
              CallsTo(more, (calls \ {c}) \cup {[c EXCEPT !.stage = s]})
         /\ \A c \in calls, t \in 0..more, s \in {"asked", "checked", "made", "done"} :
              CallsTo(more, (calls \ {c}) \cup {[c EXCEPT !.stage = s, !.team = t]})
<1>1. 0..last \subseteq 0..more /\ 0..more \subseteq 0..MaxTeams
  BY TeamsAssumption
<1>2. CallsTo(more, calls)
  BY <1>1 DEF CallsTo
<1>3. \A c \in TeamCall : /\ [c EXCEPT !.here = FALSE] \in TeamCall
                          /\ [c EXCEPT !.here = FALSE].team = c.team
                          /\ [c EXCEPT !.here = FALSE].do = c.do
                          /\ [c EXCEPT !.here = FALSE].user = c.user
  BY DEF TeamCall
<1>4. CallsTo(more, Away(calls))
  <2>1. ASSUME NEW d \in Away(calls)
        PROVE  d \in TeamCall /\ d.team \in 0..more /\ (d.do = "add" => d.user \in Colleagues)
    <3>1. PICK c \in calls : d = [c EXCEPT !.here = FALSE]
      BY DEF Away
    <3>2. c \in TeamCall /\ c.team \in 0..more /\ (c.do = "add" => c.user \in Colleagues)
      BY <1>2 DEF CallsTo
    <3>3. d \in TeamCall /\ d.team = c.team /\ d.do = c.do /\ d.user = c.user
      BY <1>3, <3>1, <3>2
    <3> QED BY <3>2, <3>3
  <2> QED BY <2>1 DEF CallsTo
<1>5. ASSUME NEW c \in calls, NEW t \in 0..more, NEW s \in {"asked", "checked", "made", "done"},
             NEW d, d = [c EXCEPT !.stage = s] \/ d = [c EXCEPT !.stage = s, !.team = t]
      PROVE  CallsTo(more, (calls \ {c}) \cup {d})
  <2>1. c \in TeamCall /\ c.team \in 0..more /\ (c.do = "add" => c.user \in Colleagues)
    BY <1>2 DEF CallsTo
  <2>2. t \in 0..MaxTeams
    BY <1>1
  <2>3. d \in TeamCall /\ d.team \in 0..more /\ d.do = c.do /\ d.user = c.user
    BY <1>5, <2>1, <2>2 DEF TeamCall
  <2> QED BY <1>2, <2>1, <2>3 DEF CallsTo
<1>6. \A S \in SUBSET calls : CallsTo(more, S)
  BY <1>2 DEF CallsTo
<1>7. 0 \in 0..more
  BY TeamsAssumption
<1> QED BY <1>2, <1>4, <1>5, <1>6, <1>7

LEMMA TeamAsked ==
  ASSUME TeamsTyped, NEW do \in {"create", "delete", "add", "remove"}, NEW t \in 0..lastTeam,
         NEW u \in Colleagues \cup {0}, NEW r \in TeamRoles, AskTeams(do, t, u, r),
         do = "add" => u \in Colleagues
  PROVE  TeamsTyped'
<1> DEFINE call == [do |-> do, stage |-> "asked", team |-> t, user |-> u, role |-> r,
                    here |-> teamDialog = do]
<1>1. t \in 0..MaxTeams
  BY TeamsAssumption DEF TeamsTyped, TeamsTypeOK
<1>2. call \in TeamCall /\ call.team = t /\ call.do = do /\ call.user = u
  BY <1>1 DEF TeamCall
<1>3. teamCalls' = teamCalls \cup {call}
  BY DEF AskTeams
<1> HIDE DEF call
<1>4. CallsTo(lastTeam, teamCalls')
  BY <1>2, <1>3, TeamsTypeParts DEF TeamsTyped, CallsTo
<1>5. UNCHANGED <<lastTeam, teams, memberships, teamFolders, manages, teamShown, teamsRead, membersRead, teamDialog>>
  BY DEF AskTeams, teamTables
<1> QED BY <1>4, <1>5 DEF TeamsTyped, CallsTo, TeamsTypeOK, AddsColleagues

(* What the tables' writes keep typed.                                     *)
TablesTyped ==
  /\ teams \subseteq 1..lastTeam /\ memberships \subseteq Membership
  /\ teamFolders \subseteq 1..lastTeam

LEMMA TablesWritten ==
  ASSUME TeamsTypeOK, NEW t, NEW u, NEW r,
         DropTeam(t) \/ DropRow(t, u) \/ (AddRow(t, u, r) /\ u \in Colleagues /\ r \in TeamRoles)
  PROVE  TablesTyped' /\ UNCHANGED lastTeam
<1>1. CASE DropTeam(t) \/ DropRow(t, u)
  BY <1>1 DEF DropTeam, DropRow, TeamsTypeOK, TablesTyped
<1>2. CASE AddRow(t, u, r) /\ u \in Colleagues /\ r \in TeamRoles
  <2>1. t \in 1..MaxTeams
    BY <1>2, TeamsAssumption DEF AddRow, MayInsert, TeamsTypeOK
  <2>2. [team |-> t, user |-> u, role |-> r] \in Membership
    BY <1>2, <2>1 DEF Membership
  <2> QED BY <1>2, <2>2 DEF AddRow, TeamsTypeOK, TablesTyped
<1> QED BY <1>1, <1>2

LEMMA MembersColleagues ==
  ASSUME NEW rows \in SUBSET Membership, NEW t
  PROVE  MembersOf(t, rows) \subseteq Colleagues
BY DEF MembersOf, Membership

LEMMA TeamsTypeStep == TeamsTyped /\ [TeamsNext]_teamVars => TeamsTyped'
<1> SUFFICES ASSUME TeamsTyped, [TeamsNext]_teamVars
             PROVE  TeamsTyped'
  OBVIOUS
<1>T. /\ CallsTo(lastTeam, teamCalls)
      /\ lastTeam \in 0..MaxTeams /\ teams \subseteq 1..lastTeam
      /\ teamsRead \subseteq 1..lastTeam
      /\ memberships \subseteq Membership /\ membersRead \subseteq Membership
      /\ teamFolders \subseteq 1..lastTeam
      /\ manages \in {"admin", "lead", "none"} /\ teamShown \in 0..lastTeam
      /\ teamDialog \in {"none", "create", "add"}
      /\ lastTeam \in Nat /\ MaxTeams \in Nat /\ TeamsTypeOK
  BY TeamsTypeParts, TeamsAssumption DEF TeamsTyped
<1>G. ASSUME /\ CallsTo(lastTeam', teamCalls')
             /\ lastTeam' \in 0..MaxTeams /\ teams' \subseteq 1..lastTeam'
             /\ teamsRead' \subseteq 1..lastTeam'
             /\ memberships' \subseteq Membership /\ membersRead' \subseteq Membership
             /\ teamFolders' \subseteq 1..lastTeam'
             /\ manages' \in {"admin", "lead", "none"} /\ teamShown' \in 0..lastTeam'
             /\ teamDialog' \in {"none", "create", "add"}
      PROVE  TeamsTyped'
  BY <1>G DEF TeamsTyped, TeamsTypeOK, AddsColleagues, CallsTo
<1>C. /\ CallsTo(lastTeam, Away(teamCalls))
      /\ \A S \in SUBSET teamCalls : CallsTo(lastTeam, S) /\ CallsTo(lastTeam, Away(S))
      /\ \A c \in teamCalls, s \in {"asked", "checked", "made", "done"} :
              CallsTo(lastTeam, (teamCalls \ {c}) \cup {[c EXCEPT !.stage = s]})
  <2>1. \A calls : CallsTo(lastTeam, calls) =>
          /\ CallsTo(lastTeam, Away(calls))
          /\ \A S \in SUBSET calls : CallsTo(lastTeam, S)
          /\ \A c \in calls, s \in {"asked", "checked", "made", "done"} :
                CallsTo(lastTeam, (calls \ {c}) \cup {[c EXCEPT !.stage = s]})
    <3>1. lastTeam \in 0..MaxTeams /\ lastTeam <= lastTeam
      BY <1>T
    <3> QED BY <3>1, TeamCallsGoOn, Zenon
  <2>2. \A S \in SUBSET teamCalls : CallsTo(lastTeam, S) /\ CallsTo(lastTeam, Away(S))
    BY <1>T, <2>1
  <2> QED BY <1>T, <2>1, <2>2
<1>1. CASE ShowTeam
  <2>1. teamShown' \in 0..lastTeam
    BY <1>1, <1>T DEF ShowTeam
  <2> QED BY <1>1, <2>1, <1>T, <1>G DEF ShowTeam, teamTables
<1>2. CASE OpenTeamDialog
  BY <1>2, <1>T, <1>G DEF OpenTeamDialog, teamTables
<1>3. CASE CloseTeamDialog
  BY <1>3, <1>T, <1>G, <1>C DEF CloseTeamDialog, teamTables
<1>4. CASE HandleCreateTeam
  <2>1. AskTeams("create", 0, 0, "member") /\ 0 \in 0..lastTeam
    BY <1>4, <1>T DEF HandleCreateTeam
  <2> QED BY <2>1, TeamAsked DEF TeamRoles
<1>5. CASE HandleDeleteTeam
  <2>1. PICK t \in IF teamShown = 0 THEN teamsRead ELSE {teamShown} : AskTeams("delete", t, 0, "member")
    BY <1>5 DEF HandleDeleteTeam
  <2>2. t \in 0..lastTeam
    BY <2>1, <1>T
  <2> QED BY <2>1, <2>2, TeamAsked DEF TeamRoles
<1>6. CASE HandleAddMember
  <2>1. PICK u \in Colleagues, r \in TeamRoles : AskTeams("add", teamShown, u, r)
    BY <1>6 DEF HandleAddMember
  <2> QED BY <2>1, <1>T, TeamAsked
<1>7. CASE HandleRemoveMember
  <2>1. PICK u \in MembersOf(teamShown, membersRead) : AskTeams("remove", teamShown, u, "member")
    BY <1>7 DEF HandleRemoveMember
  <2>2. u \in Colleagues
    BY <2>1, <1>T, MembersColleagues
  <2> QED BY <2>1, <2>2, <1>T, TeamAsked DEF TeamRoles
<1>8. CASE TeamCallChecked
  <2>1. PICK call \in teamCalls : teamCalls' = (teamCalls \ {call}) \cup {[call EXCEPT !.stage = "checked"]}
    BY <1>8 DEF TeamCallChecked, Proceeds
  <2>2. UNCHANGED <<teamTables, manages, teamShown, teamsRead, membersRead, teamDialog>>
    BY <1>8 DEF TeamCallChecked
  <2> QED BY <2>1, <2>2, <1>T, <1>G, <1>C DEF teamTables
<1>9. CASE TeamCallApplied
  <2>0. UNCHANGED <<manages, teamShown, teamsRead, membersRead, teamDialog>>
    BY <1>9 DEF TeamCallApplied
  <2>1. PICK call \in teamCalls :
          \/ /\ call.do = "create" /\ lastTeam < MaxTeams
             /\ lastTeam' = lastTeam + 1 /\ teams' = teams \cup {lastTeam'}
             /\ Proceeds(call, [call EXCEPT !.stage = "made", !.team = lastTeam'])
             /\ UNCHANGED <<memberships, teamFolders>>
          \/ /\ \/ call.do = "delete" /\ call.team \in teams /\ DropTeam(call.team)
                \/ call.do = "add" /\ AddRow(call.team, call.user, call.role)
                \/ call.do = "remove" /\ DropRow(call.team, call.user)
             /\ Proceeds(call, [call EXCEPT !.stage = "done"])
    BY <1>9 DEF TeamCallApplied, CreateTeam, DeleteTeam, AddMember, RemoveMember,
                Made, Done
  <2>2. CASE /\ lastTeam < MaxTeams
             /\ lastTeam' = lastTeam + 1 /\ teams' = teams \cup {lastTeam'}
             /\ Proceeds(call, [call EXCEPT !.stage = "made", !.team = lastTeam'])
             /\ UNCHANGED <<memberships, teamFolders>>
    <3>1. /\ lastTeam' \in 0..MaxTeams /\ lastTeam <= lastTeam' /\ lastTeam' \in 0..lastTeam'
          /\ 1..lastTeam \subseteq 1..lastTeam' /\ 0..lastTeam \subseteq 0..lastTeam' /\ lastTeam' \in 1..lastTeam'
      BY <2>2, <1>T
    <3>2. CallsTo(lastTeam', teamCalls')
      BY <2>2, <3>1, <1>T, TeamCallsGoOn DEF Proceeds
    <3> QED BY <2>0, <2>2, <3>1, <3>2, <1>T, <1>G
  <2>3. CASE /\ \/ DropTeam(call.team) \/ DropRow(call.team, call.user)
                \/ call.do = "add" /\ AddRow(call.team, call.user, call.role)
             /\ Proceeds(call, [call EXCEPT !.stage = "done"])
    <3>1. call.role \in TeamRoles /\ (call.do = "add" => call.user \in Colleagues)
      BY <1>T DEF CallsTo, TeamCall
    <3>2. TablesTyped' /\ UNCHANGED lastTeam
      BY <2>3, <3>1, <1>T, TablesWritten
    <3>3. CallsTo(lastTeam, teamCalls')
      BY <2>3, <1>C DEF Proceeds
    <3> QED BY <2>0, <3>2, <3>3, <1>T, <1>G DEF TablesTyped
  <2> QED BY <2>1, <2>2, <2>3
<1>10. CASE TeamFolderMade
  <2>1. PICK call \in teamCalls :
          /\ \/ UNCHANGED teamFolders
             \/ call.team \in teams /\ teamFolders' = teamFolders \cup {call.team}
          /\ teamCalls' = (teamCalls \ {call}) \cup {[call EXCEPT !.stage = "done"]}
    BY <1>10 DEF TeamFolderMade, Done, Proceeds
  <2>2. teamFolders' \subseteq 1..lastTeam /\ CallsTo(lastTeam, teamCalls')
    BY <2>1, <1>T, <1>C
  <2>3. UNCHANGED <<teams, lastTeam, memberships, manages, teamShown, teamsRead, membersRead, teamDialog>>
    BY <1>10 DEF TeamFolderMade
  <2> QED BY <2>2, <2>3, <1>T, <1>G
<1>11. CASE TeamCallAnswered
  <2>1. PICK call \in teamCalls :
          /\ teamCalls' = teamCalls \ {call} \/ teamCalls' = Away(teamCalls \ {call})
    BY <1>11 DEF TeamCallAnswered
  <2>2. CallsTo(lastTeam, teamCalls')
    <3>1. teamCalls \ {call} \in SUBSET teamCalls
      OBVIOUS
    <3> QED BY <2>1, <3>1, <1>C
  <2>3. teamsRead' \in {teamsRead, teams} /\ membersRead' \in {membersRead, memberships}
    BY <1>11 DEF TeamCallAnswered
  <2>4. teamShown' \in {0, teamShown} /\ teamDialog' \in {"none", teamDialog}
    BY <1>11 DEF TeamCallAnswered
  <2>5. UNCHANGED <<teams, lastTeam, memberships, teamFolders, manages>>
    BY <1>11 DEF TeamCallAnswered, teamTables
  <2>6. teamShown' \in 0..lastTeam
    BY <2>4, <1>T
  <2> QED BY <2>2, <2>3, <2>4, <2>5, <2>6, <1>T, <1>G
<1>12. CASE TeamCallFails
  <2>1. PICK call \in teamCalls : teamCalls' = teamCalls \ {call}
    BY <1>12 DEF TeamCallFails
  <2>2. CallsTo(lastTeam, teamCalls')
    <3>1. teamCalls \ {call} \in SUBSET teamCalls
      OBVIOUS
    <3> QED BY <2>1, <3>1, <1>C
  <2> QED BY <1>12, <2>2, <1>T, <1>G DEF TeamCallFails, teamTables
<1>13. CASE TeamListsRead
  BY <1>13, <1>T, <1>G DEF TeamListsRead, teamTables
<1>14. CASE OthersManage
  <2>1. PICK t \in teams :
          \/ DropTeam(t)
          \/ \E u \in Colleagues : DropRow(t, u)
          \/ \E u \in Colleagues, r \in TeamRoles : AddRow(t, u, r)
    BY <1>14 DEF OthersManage
  <2>2. TablesTyped' /\ UNCHANGED lastTeam
    BY <2>1, <1>T, TablesWritten
  <2>3. UNCHANGED <<manages, teamShown, teamsRead, membersRead, teamDialog, teamCalls>>
    BY <1>14 DEF OthersManage
  <2> QED BY <2>2, <2>3, <1>T, <1>G DEF TablesTyped
<1>15. CASE LeadLost
  BY <1>15, <1>T, <1>G DEF LeadLost, teamTables
<1>16. CASE UNCHANGED teamVars
  BY <1>16, <1>T, <1>G DEF teamVars
<1> QED
  BY <1>1, <1>2, <1>3, <1>4, <1>5, <1>6, <1>7, <1>8, <1>9, <1>10, <1>11, <1>12,
     <1>13, <1>14, <1>15, <1>16 DEF TeamsNext

(* The tables, the lists read of them and the calls keep their types.      *)
THEOREM TeamsTypeCorrect == TeamsSpec => []TeamsTypeOK
<1>1. TeamsTyped => TeamsTypeOK
  BY DEF TeamsTyped
<1> QED BY <1>1, TeamsInitTyped, TeamsTypeStep, PTL DEF TeamsSpec
-----------------------------------------------------------------------------
(***************************************************************************)
(* The tenant's usage adds up with any number of admins, keys and jobs.    *)
(* SetAPIKey and RemoveAPIKey may write a row they read long before,       *)
(* because their UPDATE leaves the counter out; what remains is the        *)
(* INSERT, which sets it to zero. It happens only while there is no row,   *)
(* and until then no job has a key and nothing has been counted.           *)
(***************************************************************************)
(* Before there is a row there is no key, no AI call, and no usage.        *)
NothingBeforeRow == ~ rowExists => tokensUsed = 0 /\ aiCalls = 0

(* Every AI call is under way, counted, or was not counted.                *)
CallsAccounted == metered + atModel <= aiCalls

AiInv == AiTypeOK /\ NothingBeforeRow /\ CallsAccounted /\ UsageAddsUp

LEMMA AiInitInv == AiInit => AiInv
<1> SUFFICES ASSUME AiInit
             PROVE  AiInv
  OBVIOUS
<1>1. 0 \in 0..MaxAiCalls
  BY AiAssumption
<1>2. AiTypeOK
  BY <1>1 DEF AiInit, AiTypeOK
<1>3. NothingBeforeRow /\ CallsAccounted /\ UsageAddsUp
  BY DEF AiInit, NothingBeforeRow, CallsAccounted, UsageAddsUp
<1> QED BY <1>2, <1>3 DEF AiInv

-----------------------------------------------------------------------------
(* The calls keep their form.                                              *)
LEMMA AskKeyType ==
  ASSUME keyCalls \subseteq KeyCall,
         NEW do \in {"test", "set", "remove"}, NEW by \in {"tab", "other"},
         NEW key \in ApiKeys \cup {NoKey}, AskKey(do, by, key)
  PROVE  keyCalls' \subseteq KeyCall
<1>1. [do |-> do, by |-> by, key |-> key, found |-> FALSE, saw |-> 0,
       stage |-> "asked"] \in KeyCall
  BY AiAssumption DEF KeyCall
<1> QED BY <1>1 DEF AskKey

LEMMA CallToType ==
  ASSUME keyCalls \subseteq KeyCall, NEW call \in keyCalls,
         NEW stage \in {"asked", "read", "done"}, CallTo(call, stage)
  PROVE  keyCalls' \subseteq KeyCall
<1>1. call \in KeyCall
  OBVIOUS
<1>2. [call EXCEPT !.stage = stage] \in KeyCall
  BY <1>1 DEF KeyCall
<1> QED BY <1>2 DEF CallTo

LEMMA SettingsReadType ==
  ASSUME AiTypeOK, SettingsRead
  PROVE  keyCalls' \subseteq KeyCall
<1>1. PICK call \in keyCalls :
        \/ CallTo(call, "done")
        \/ keyCalls' = (keyCalls \ {call}) \cup
             {[call EXCEPT !.stage = "read", !.found = rowExists, !.saw = tokensUsed]}
  BY DEF SettingsRead
<1>2. CASE CallTo(call, "done")
  BY <1>2, CallToType DEF AiTypeOK
<1>3. CASE keyCalls' = (keyCalls \ {call}) \cup
             {[call EXCEPT !.stage = "read", !.found = rowExists, !.saw = tokensUsed]}
  <2>1. call \in KeyCall /\ rowExists \in BOOLEAN /\ tokensUsed \in 0..MaxAiCalls
    BY DEF AiTypeOK
  <2>2. [call EXCEPT !.stage = "read", !.found = rowExists, !.saw = tokensUsed] \in KeyCall
    BY <2>1 DEF KeyCall
  <2> QED BY <1>3, <2>2 DEF AiTypeOK
<1> QED BY <1>1, <1>2, <1>3

-----------------------------------------------------------------------------
LEMMA AiInvStep == AiInv /\ [AiNext]_aiVars => AiInv'
<1> SUFFICES ASSUME AiInv, [AiNext]_aiVars
             PROVE  AiInv'
  OBVIOUS
<1> USE AiAssumption DEF AiInv, AiTypeOK
<1>1. CASE OpenApiKeyModal
  BY <1>1 DEF OpenApiKeyModal, aiRow, aiUsage, NothingBeforeRow, CallsAccounted, UsageAddsUp
<1>2. CASE CloseApiKeyModal
  BY <1>2 DEF CloseApiKeyModal, aiRow, aiUsage, NothingBeforeRow, CallsAccounted, UsageAddsUp
<1>3. CASE TypeKey
  BY <1>3 DEF TypeKey, testState, aiRow, aiUsage, NothingBeforeRow, CallsAccounted, UsageAddsUp
<1>4. CASE HandleTestKey
  <2>1. keyCalls' \subseteq KeyCall
    BY <1>4, AskKeyType DEF HandleTestKey
  <2> QED BY <1>4, <2>1 DEF HandleTestKey, aiRow, aiUsage, NothingBeforeRow,
             CallsAccounted, UsageAddsUp
<1>5. CASE HandleSaveKey \/ HandleRemoveKey \/ OtherAdminAsks
  <2>1. keyCalls' \subseteq KeyCall
    BY <1>5, AskKeyType DEF HandleSaveKey, HandleRemoveKey, OtherAdminAsks
  <2> QED BY <1>5, <2>1 DEF HandleSaveKey, HandleRemoveKey, OtherAdminAsks, aiPanel,
             testState, aiRow, aiUsage, NothingBeforeRow, CallsAccounted, UsageAddsUp
<1>6. CASE AskRemoveKey
  BY <1>6 DEF AskRemoveKey, testState, aiRow, aiUsage, NothingBeforeRow, CallsAccounted,
     UsageAddsUp
<1>7. CASE SettingsRead
  <2>1. keyCalls' \subseteq KeyCall
    BY <1>7, SettingsReadType
  <2> QED BY <1>7, <2>1 DEF SettingsRead, aiPanel, testState, aiRow, aiUsage,
             NothingBeforeRow, CallsAccounted, UsageAddsUp
<1>8. CASE SettingsWritten
  <2>1. PICK call \in keyCalls :
          /\ UpdateSettings(call.key, call.saw) \/ CreateSettings(call.key)
          /\ CallTo(call, "done")
    BY <1>8 DEF SettingsWritten
  <2>2. keyCalls' \subseteq KeyCall /\ call.key \in ApiKeys \cup {NoKey}
    BY <2>1, CallToType DEF KeyCall
  <2>3. UNCHANGED <<aiUsage, aiPanel>>
    BY <1>8 DEF SettingsWritten
  (* The UPDATE keeps the counter.                                          *)
  <2>4. CASE UpdateSettings(call.key, call.saw)
    BY <2>2, <2>3, <2>4 DEF UpdateSettings, aiPanel, testState, aiUsage,
       NothingBeforeRow, CallsAccounted, UsageAddsUp
  (* The INSERT finds no row, so nothing has been metered.                  *)
  <2>5. CASE CreateSettings(call.key)
    BY <2>2, <2>3, <2>5 DEF CreateSettings, aiPanel, testState, aiUsage,
       NothingBeforeRow, CallsAccounted, UsageAddsUp
  <2> QED BY <2>1, <2>4, <2>5
<1>9. CASE TestAnswered
  BY <1>9 DEF TestAnswered, Free, aiRow, aiUsage, NothingBeforeRow, CallsAccounted,
     UsageAddsUp
<1>10. CASE SaveAnswered
  BY <1>10 DEF SaveAnswered, Free, Refetched, aiRow, aiUsage, NothingBeforeRow,
     CallsAccounted, UsageAddsUp
<1>11. CASE RemoveAnswered
  BY <1>11 DEF RemoveAnswered, Free, Refetched, testState, aiRow, aiUsage,
     NothingBeforeRow, CallsAccounted, UsageAddsUp
<1>12. CASE OtherAnswered
  BY <1>12 DEF OtherAnswered, Free, aiPanel, testState, aiRow, aiUsage,
     NothingBeforeRow, CallsAccounted, UsageAddsUp
<1>13. CASE SettingsShown
  BY <1>13 DEF SettingsShown, testState, aiRow, aiUsage, NothingBeforeRow,
     CallsAccounted, UsageAddsUp
(* Only now the row is needed: a job takes its key from it.                 *)
<1>14. CASE ModelCalled
  BY <1>14 DEF ModelCalled, aiPanel, testState, aiRow, NothingBeforeRow, CallsAccounted,
     UsageAddsUp
<1>15. CASE TokensCounted
  <2>1. rowExists /\ metered + 1 <= MaxAiCalls
    BY <1>15 DEF TokensCounted, NothingBeforeRow, CallsAccounted
  <2> QED BY <1>15, <2>1 DEF TokensCounted, aiPanel, testState, NothingBeforeRow,
             CallsAccounted, UsageAddsUp
<1>16. CASE TokensNotCounted
  BY <1>16 DEF TokensNotCounted, aiPanel, testState, aiRow, NothingBeforeRow,
     CallsAccounted, UsageAddsUp
<1>17. CASE UNCHANGED aiVars
  BY <1>17 DEF aiVars, NothingBeforeRow, CallsAccounted, UsageAddsUp
<1> QED
  BY <1>1, <1>2, <1>3, <1>4, <1>5, <1>6, <1>7, <1>8, <1>9, <1>10, <1>11, <1>12,
     <1>13, <1>14, <1>15, <1>16, <1>17 DEF AiNext

-----------------------------------------------------------------------------
(* Type correctness of the settings.                                       *)
THEOREM AiTypeCorrect == AiSpec => []AiTypeOK
<1>1. AiInv => AiTypeOK
  BY DEF AiInv
<1> QED BY AiInitInv, AiInvStep, <1>1, PTL DEF AiSpec

(* The tenant's usage is the sum of what its jobs added to it, whichever   *)
(* admins write the row at the same time and from however old a read.      *)
THEOREM UsageAlwaysAddsUp == AiSpec => []UsageAddsUp
<1>1. AiInv => UsageAddsUp
  BY DEF AiInv
<1> QED BY AiInitInv, AiInvStep, <1>1, PTL DEF AiSpec
-----------------------------------------------------------------------------
(***************************************************************************)
(* The content library. Folders are only added to the tree, so a course    *)
(* keeps the folder it was filed in; DeleteFolder counts what is in a      *)
(* folder and removes it later, and the key of the courses' rows refuses   *)
(* the removal if one came in between.                                     *)
(***************************************************************************)
LibraryInv == LibraryTypeOK /\ CoursesKeepFolders

(* The tables after a folder was made.                                     *)
LEMMA FolderMadeType ==
  ASSUME LibraryTypeOK, NEW f, FolderMadeIn(f)
  PROVE  /\ parents' \in Seq(0..MaxFolders) /\ Len(parents') <= MaxFolders
         /\ DOMAIN parents \subseteq DOMAIN parents'
         /\ 0..Len(parents) \subseteq 0..Len(parents')
         /\ folders \subseteq folders' /\ folders' \subseteq DOMAIN parents'
<1>1. /\ f \in folders /\ Len(parents) < MaxFolders
      /\ parents' = Append(parents, f)
      /\ folders' = folders \cup {Len(parents) + 1}
  BY DEF FolderMadeIn
<1>2. f \in 0..MaxFolders
  BY <1>1, LibraryAssumption DEF LibraryTypeOK
<1>3. parents' \in Seq(0..MaxFolders) /\ Len(parents') = Len(parents) + 1
  BY <1>1, <1>2 DEF LibraryTypeOK
<1>4. DOMAIN parents = 1..Len(parents) /\ DOMAIN parents' = 1..Len(parents')
  BY <1>3 DEF LibraryTypeOK
<1> QED BY <1>1, <1>3, <1>4, LibraryAssumption DEF LibraryTypeOK

LEMMA CallsGrow ==
  ASSUME NEW S, NEW T, S \subseteq T, NEW call \in [stage : CallStages, for : S]
  PROVE  call \in [stage : CallStages, for : T]
OBVIOUS

LEMMA LibraryInitInv == LibraryInit => LibraryInv
<1> SUFFICES ASSUME LibraryInit
             PROVE  LibraryInv
  OBVIOUS
<1>1. parents \in Seq(0..MaxFolders) /\ Len(parents) = 3 /\ DOMAIN parents = 1..3
  BY LibraryAssumption DEF LibraryInit
<1>2. LibraryTypeOK
  BY <1>1, LibraryAssumption DEF LibraryInit, LibraryTypeOK, NoCall, CallStages
<1>3. CoursesKeepFolders
  BY DEF LibraryInit, CoursesKeepFolders
<1> QED BY <1>2, <1>3 DEF LibraryInv

LEMMA LibraryInvStep == LibraryInv /\ [LibraryNext]_libraryVars => LibraryInv'
<1> SUFFICES ASSUME LibraryInv, [LibraryNext]_libraryVars
             PROVE  LibraryInv'
  OBVIOUS
<1> USE LibraryAssumption DEF LibraryInv
<1>1. CASE StartCreateFolder
  BY <1>1 DEF StartCreateFolder, LibraryTypeOK, CallStages, CoursesKeepFolders
<1>2. CASE CancelCreateFolder
  BY <1>2 DEF CancelCreateFolder, NoCall, LibraryTypeOK, CallStages,
         CoursesKeepFolders
<1>3. CASE ConfirmCreateFolder
  BY <1>3 DEF ConfirmCreateFolder, NoCall, LibraryTypeOK, CallStages,
         CoursesKeepFolders
<1>4. CASE FolderCreated
  <2>1. FolderMadeIn(creation.for)
    BY <1>4 DEF FolderCreated
  <2>2. creation' = NoCall \/ creation' = [creation EXCEPT !.stage = "made"]
    BY <1>4 DEF FolderCreated
  <2>3. creation' \in [stage : CallStages, for : 0..Len(parents)]
    <3>1. 0 \in 0..Len(parents)
      BY DEF LibraryTypeOK
    <3>2. creation \in [stage : CallStages, for : 0..Len(parents)]
      BY DEF LibraryTypeOK
    <3> QED BY <2>2, <3>1, <3>2 DEF CallStages, NoCall
  <2>4. deletion' = deletion /\ deletion \in [stage : CallStages, for : 0..Len(parents)]
    BY <1>4 DEF FolderCreated, LibraryTypeOK
  <2>5. /\ creation' \in [stage : CallStages, for : 0..Len(parents')]
        /\ deletion' \in [stage : CallStages, for : 0..Len(parents')]
    BY <2>1, <2>3, <2>4, FolderMadeType, CallsGrow
  <2>6. dialog' \in {"closed", "loading", "open"}
    BY <1>4 DEF FolderCreated, LibraryTypeOK
  <2>7. UNCHANGED <<filed, view, tree, creatingIn, toDelete, selection>>
    BY <1>4 DEF FolderCreated
  <2>8. LibraryTypeOK'
    BY <2>1, <2>5, <2>6, <2>7, FolderMadeType DEF LibraryTypeOK
  <2> QED BY <2>1, <2>7, <2>8, FolderMadeType DEF CoursesKeepFolders
<1>5. CASE FolderNotCreated
  BY <1>5 DEF FolderNotCreated, NoCall, LibraryTypeOK, CallStages,
         CoursesKeepFolders
<1>6. CASE CreationShown
  BY <1>6 DEF CreationShown, NoCall, LibraryTypeOK, CallStages,
         CoursesKeepFolders
<1>7. CASE AskDeleteFolder
  BY <1>7 DEF AskDeleteFolder, LibraryTypeOK, CallStages, CoursesKeepFolders
<1>8. CASE ConfirmDeleteFolder
  BY <1>8 DEF ConfirmDeleteFolder, NoCall, LibraryTypeOK, CallStages,
         CoursesKeepFolders
<1>9. CASE CoursesCounted
  BY <1>9 DEF CoursesCounted, DeletionMoves, NoCall, LibraryTypeOK, CallStages,
         CoursesKeepFolders
<1>10. CASE SubfoldersListed
  BY SMTT(30), <1>10 DEF SubfoldersListed, DeletionMoves, NoCall, LibraryTypeOK,
         CallStages, CoursesKeepFolders
<1>11. CASE FolderRemoved
  BY <1>11 DEF FolderRemoved, Remove, DeletionMoves, NoCall, LibraryTypeOK,
         CallStages, CoursesKeepFolders
<1>12. CASE DeletionFails
  BY <1>12 DEF DeletionFails, DeletionMoves, NoCall, LibraryTypeOK, CallStages,
         CoursesKeepFolders
<1>13. CASE DeletionShown
  BY <1>13 DEF DeletionShown, NoCall, LibraryTypeOK, CallStages,
         CoursesKeepFolders
<1>14. CASE TreeRefetched
  BY <1>14 DEF TreeRefetched, LibraryTypeOK, CallStages, CoursesKeepFolders
<1>15. CASE OpenFolderDialog
  BY <1>15 DEF OpenFolderDialog, LibraryTypeOK, CallStages, CoursesKeepFolders
<1>16. CASE FoldersLoaded
  BY <1>16 DEF FoldersLoaded, LibraryTypeOK, CallStages, CoursesKeepFolders
<1>17. CASE ChooseFolder
  BY <1>17 DEF ChooseFolder, LibraryTypeOK, CallStages, CoursesKeepFolders
<1>18. CASE CloseFolderDialog
  BY <1>18 DEF CloseFolderDialog, LibraryTypeOK, CallStages, CoursesKeepFolders
<1>19. CASE CourseFiledAsChosen
  BY <1>19 DEF CourseFiledAsChosen, LibraryTypeOK, CallStages,
         CoursesKeepFolders
<1>20. CASE OthersFile
  BY <1>20 DEF OthersFile, LibraryTypeOK, CallStages, CoursesKeepFolders
<1>21. CASE OthersCreate
  <2>1. PICK f \in folders : FolderMadeIn(f)
    BY <1>21 DEF OthersCreate
  <2>2. UNCHANGED <<filed, view, tree, creatingIn, creation, toDelete, deletion,
                    dialog, selection>>
    BY <1>21 DEF OthersCreate
  <2>3. /\ creation' \in [stage : CallStages, for : 0..Len(parents')]
        /\ deletion' \in [stage : CallStages, for : 0..Len(parents')]
    BY <2>1, <2>2, FolderMadeType, CallsGrow DEF LibraryTypeOK
  <2>4. LibraryTypeOK'
    BY <2>1, <2>2, <2>3, FolderMadeType DEF LibraryTypeOK
  <2> QED BY <2>1, <2>2, <2>4, FolderMadeType DEF CoursesKeepFolders
<1>22. CASE OthersRemove
  BY <1>22 DEF OthersRemove, Remove, LibraryTypeOK, CallStages,
         CoursesKeepFolders
<1>23. CASE UNCHANGED libraryVars
  BY <1>23 DEF libraryVars, LibraryTypeOK, CallStages, CoursesKeepFolders
<1> QED
  BY <1>1, <1>2, <1>3, <1>4, <1>5, <1>6, <1>7, <1>8, <1>9, <1>10, <1>11, <1>12,
     <1>13, <1>14, <1>15, <1>16, <1>17, <1>18, <1>19, <1>20, <1>21, <1>22,
     <1>23 DEF LibraryNext

(* Type correctness of the content library.                                *)
THEOREM LibraryTypeCorrect == LibrarySpec => []LibraryTypeOK
<1>1. LibraryInv => LibraryTypeOK
  BY DEF LibraryInv
<1> QED BY <1>1, LibraryInitInv, LibraryInvStep, PTL DEF LibrarySpec

(* No course is left in a folder that is gone, although the service looks  *)
(* for courses and subfolders in transactions before the one that removes. *)
THEOREM CoursesHaveTheirFolders == LibrarySpec => []CoursesKeepFolders
<1>1. LibraryInv => CoursesKeepFolders
  BY DEF LibraryInv
<1> QED BY <1>1, LibraryInitInv, LibraryInvStep, PTL DEF LibrarySpec
-----------------------------------------------------------------------------
(***************************************************************************)
(* The notifications. The list that the page shows may be behind the       *)
(* server's, but only while somebody is to tell it so: an event is on its  *)
(* way, a refetch is, or the connection was lost and will be made again.   *)
(***************************************************************************)
(* An answer to the list query that is on its way says what the server has,*)
(* unless an event is, too, or was, or a change was lost.                  *)
AnswerIsInbox ==
  list.fetch = "answered" /\ events = 0 /\ ~ missed /\ ~ list.overtaken =>
    list.data = Shown(inbox)

(* Calls and answers share one bound, and a try to reconnect is counted    *)
(* only while it is waited for.                                            *)
CallsBounded == IsFiniteSet(asked) /\ Cardinality(asked) + answers <= MaxOnTheWay
TriesCounted == stream # "waiting" => attempts = 0

(* The type invariant in three parts.                                      *)
InboxTyped ==
  /\ inbox \in [Notes -> {"absent", "unread", "read", "deleted"}]
  /\ events \in 0..MaxOnTheWay /\ missed \in BOOLEAN
InboxPageTyped ==
  /\ stream \in {"opening", "open", "waiting", "stopped"} /\ attempts \in 0..1
  /\ list \in [shows : Boxes, loaded : BOOLEAN, fetch : FetchStages,
               data : Boxes, overtaken : BOOLEAN]
  /\ readHere \subseteq Notes
ActionsTyped ==
  /\ answers \in 0..MaxOnTheWay
  /\ asked \subseteq [do : {"read", "readAll", "delete"}, notes : SUBSET Notes]

LEMMA NotesTypeParts == NotesTypeOK <=> InboxTyped /\ InboxPageTyped /\ ActionsTyped
BY DEF NotesTypeOK, InboxTyped, InboxPageTyped, ActionsTyped

NotesInv ==
  /\ InboxTyped /\ InboxPageTyped /\ ActionsTyped /\ ShowsTheInbox /\ AnswerIsInbox 
  /\ CallsBounded /\ TriesCounted

(* A change that is published is told of by an event, or counts as lost.   *)
LEMMA PublishTells ==
  ASSUME InboxTyped, Publish
  PROVE  events' # 0 \/ missed'
BY DEF Publish, InboxTyped

LEMMA PublishTyped ==
  ASSUME InboxTyped, Publish
  PROVE  events' \in 0..MaxOnTheWay /\ missed' \in BOOLEAN
<1>1. missed' \in BOOLEAN
  BY Zenon DEF Publish, InboxTyped
<1>2. events' \in 0..MaxOnTheWay
  BY NotesAssumption DEF Publish, InboxTyped
<1> QED BY <1>1, <1>2

(* A call of the panel is asked for within the bound.                      *)
LEMMA AskBounded ==
  ASSUME CallsBounded, ActionsTyped, NEW do, NEW ns, Ask(do, ns)
  PROVE  CallsBounded'
<1> DEFINE call == [do |-> do, notes |-> ns]
<1>1. /\ asked' = asked \cup {call} /\ answers' = answers
      /\ Cardinality(asked) + answers < MaxOnTheWay
  BY DEF Ask
<1> HIDE DEF call
<1>2. IsFiniteSet(asked') /\ Cardinality(asked') \in {Cardinality(asked), Cardinality(asked) + 1}
  BY <1>1, FS_AddElement DEF CallsBounded
<1>3. Cardinality(asked) \in Nat
  BY FS_CardinalityType DEF CallsBounded
<1> QED BY <1>1, <1>2, <1>3, NotesAssumption DEF CallsBounded, ActionsTyped

LEMMA ShownIsBox ==
  ASSUME NEW box \in [Notes -> {"absent", "unread", "read", "deleted"}]
  PROVE  Shown(box) \in Boxes
BY DEF Shown, Boxes

LEMMA NotesInitInv == NotesInit => NotesInv
<1> SUFFICES ASSUME NotesInit
             PROVE  NotesInv
  OBVIOUS
<1>1. InboxTyped
  <2>1. inbox \in [Notes -> {"absent", "unread", "read", "deleted"}]
    BY DEF NotesInit
  <2>2. missed \in BOOLEAN
    BY Zenon DEF NotesInit
  <2> QED BY <2>1, <2>2, NotesAssumption DEF NotesInit, InboxTyped
<1>4. InboxPageTyped
  BY DEF NotesInit, InboxPageTyped, Boxes, FetchStages
<1>5. ActionsTyped
  BY NotesAssumption DEF NotesInit, ActionsTyped
<1>2. CallsBounded
  BY NotesAssumption, FS_EmptySet DEF NotesInit, CallsBounded
<1>3. ShowsTheInbox /\ AnswerIsInbox /\ TriesCounted
  BY DEF NotesInit, ShowsTheInbox, AnswerIsInbox, TriesCounted
<1> QED BY <1>1, <1>2, <1>3, <1>4, <1>5 DEF NotesInv

LEMMA NotesInvStep == NotesInv /\ [NotesNext]_notesVars => NotesInv'
<1> SUFFICES ASSUME NotesInv, [NotesNext]_notesVars
             PROVE  NotesInv'
  OBVIOUS
<1> USE NotesAssumption DEF NotesInv
<1>1. CASE ListRead
  BY ShownIsBox, <1>1 DEF ListRead, InboxTyped, InboxPageTyped, FetchStages,
         TriesCounted, ActionsTyped, CallsBounded, ShowsTheInbox, AnswerIsInbox
<1>2. CASE ListShown
  BY ShownIsBox, <1>2 DEF ListShown, InboxTyped, InboxPageTyped, FetchStages,
         TriesCounted, ActionsTyped, CallsBounded, ShowsTheInbox, AnswerIsInbox
<1>3. CASE ListFails
  BY ShownIsBox, <1>3 DEF ListFails, InboxTyped, InboxPageTyped, FetchStages,
         TriesCounted, ActionsTyped, CallsBounded, ShowsTheInbox, AnswerIsInbox
<1>4. CASE CreateNotification
  <2>1. InboxTyped'
    <3>1. inbox' \in [Notes -> {"absent", "unread", "read", "deleted"}]
      BY <1>4 DEF CreateNotification, InboxTyped
    <3> QED BY <1>4, <3>1, PublishTyped DEF CreateNotification, InboxTyped
  <2>2. InboxPageTyped'
    BY ShownIsBox, <1>4 DEF CreateNotification, Publish, InboxPageTyped,
           FetchStages, TriesCounted, InboxTyped
  <2>3. ActionsTyped'
    BY <1>4 DEF CreateNotification, Publish, ActionsTyped, CallsBounded
  <2>4. ShowsTheInbox'
    BY <1>4 DEF CreateNotification, Publish, ShowsTheInbox, AnswerIsInbox,
           InboxPageTyped, FetchStages, InboxTyped
  <2>5. AnswerIsInbox'
    BY <1>4 DEF CreateNotification, Publish, AnswerIsInbox, ShowsTheInbox,
           InboxTyped, InboxPageTyped, FetchStages
  <2>6. CallsBounded'
    BY <1>4 DEF CreateNotification, Publish, CallsBounded, ActionsTyped
  <2>7. TriesCounted'
    BY <1>4 DEF CreateNotification, Publish, TriesCounted
  <2> QED BY <2>1, <2>2, <2>3, <2>4, <2>5, <2>6, <2>7
<1>5. CASE ChangedElsewhere
  <2>1. InboxTyped'
    <3>1. inbox' \in [Notes -> {"absent", "unread", "read", "deleted"}]
      BY <1>5 DEF ChangedElsewhere, InboxTyped
    <3> QED BY <1>5, <3>1, PublishTyped DEF ChangedElsewhere, InboxTyped
  <2>2. InboxPageTyped'
    BY ShownIsBox, <1>5 DEF ChangedElsewhere, Publish, InboxPageTyped, FetchStages,
           TriesCounted, InboxTyped
  <2>3. ActionsTyped'
    BY <1>5 DEF ChangedElsewhere, Publish, ActionsTyped, CallsBounded
  <2>4. ShowsTheInbox'
    BY <1>5 DEF ChangedElsewhere, Publish, ShowsTheInbox, AnswerIsInbox,
           InboxPageTyped, FetchStages, InboxTyped
  <2>5. AnswerIsInbox'
    BY <1>5 DEF ChangedElsewhere, Publish, AnswerIsInbox, ShowsTheInbox,
           InboxTyped, InboxPageTyped, FetchStages
  <2>6. CallsBounded'
    BY <1>5 DEF ChangedElsewhere, Publish, CallsBounded, ActionsTyped
  <2>7. TriesCounted'
    BY <1>5 DEF ChangedElsewhere, Publish, TriesCounted
  <2> QED BY <2>1, <2>2, <2>3, <2>4, <2>5, <2>6, <2>7
<1>6. CASE CallHandled
  <2>0. PICK c \in asked :
          /\ asked' = asked \ {c}
          /\ answers' \in {answers, answers + 1}
    BY <1>6 DEF CallHandled, MarkedAs, Deleted
  <2>1. InboxTyped'
    <3>1. inbox' \in [Notes -> {"absent", "unread", "read", "deleted"}]
      BY <1>6 DEF CallHandled, MarkedAs, Deleted, InboxTyped
    <3>2. Publish \/ UNCHANGED <<events, missed>>
      BY <1>6 DEF CallHandled, MarkedAs, Deleted
    <3> QED BY <3>1, <3>2, PublishTyped DEF InboxTyped
  <2>2. InboxPageTyped' /\ TriesCounted'
    BY <1>6 DEF CallHandled, InboxPageTyped, TriesCounted
  <2>3. CallsBounded' /\ ActionsTyped'
    <3>1. IsFiniteSet(asked') /\ Cardinality(asked') = Cardinality(asked) - 1
      BY <2>0, FS_RemoveElement DEF CallsBounded
    <3>2. Cardinality(asked) \in Nat /\ Cardinality(asked') \in Nat
      BY <3>1, FS_CardinalityType DEF CallsBounded
    <3>3. answers' \in Nat /\ Cardinality(asked') + answers' <= MaxOnTheWay
      BY <2>0, <3>1, <3>2 DEF CallsBounded, ActionsTyped
    <3> QED BY <2>0, <3>1, <3>2, <3>3 DEF CallsBounded, ActionsTyped
  <2>4. ShowsTheInbox' /\ AnswerIsInbox'
    <3>1. (inbox' = inbox /\ events' = events /\ missed' = missed) \/ Publish
      BY <1>6 DEF CallHandled, MarkedAs, Deleted, InboxTyped
    <3> QED BY <1>6, <3>1, PublishTells DEF CallHandled, ShowsTheInbox, AnswerIsInbox, Shown
  <2> QED BY <2>1, <2>2, <2>3, <2>4
<1>7. CASE HandleMarkAsRead
  <2>1. InboxTyped'
    BY <1>7 DEF HandleMarkAsRead, UnreadShown, MarkLocallyRead, Ask,
           InboxTyped
  <2>2. InboxPageTyped'
    BY ShownIsBox, <1>7 DEF HandleMarkAsRead, UnreadShown, MarkLocallyRead,
           Ask, InboxPageTyped, FetchStages, TriesCounted, InboxTyped
  <2>3. ActionsTyped'
    BY <1>7 DEF HandleMarkAsRead, UnreadShown, MarkLocallyRead, Ask,
           ActionsTyped, CallsBounded
  <2>4. ShowsTheInbox'
    BY <1>7 DEF HandleMarkAsRead, UnreadShown, MarkLocallyRead, Ask,
           ShowsTheInbox, AnswerIsInbox, InboxPageTyped, FetchStages, InboxTyped
  <2>5. AnswerIsInbox'
    BY <1>7 DEF HandleMarkAsRead, UnreadShown, MarkLocallyRead, Ask,
           AnswerIsInbox, ShowsTheInbox, InboxTyped, InboxPageTyped, FetchStages
  <2>6. CallsBounded'
    BY <1>7, AskBounded DEF HandleMarkAsRead, UnreadShown
  <2>7. TriesCounted'
    BY <1>7 DEF HandleMarkAsRead, UnreadShown, MarkLocallyRead, Ask,
           TriesCounted
  <2> QED BY <2>1, <2>2, <2>3, <2>4, <2>5, <2>6, <2>7
<1>8. CASE HandleMarkAllAsRead
  <2>1. InboxTyped'
    BY <1>8 DEF HandleMarkAllAsRead, UnreadShown, MarkLocallyRead, Ask,
           InboxTyped
  <2>2. InboxPageTyped'
    BY ShownIsBox, <1>8 DEF HandleMarkAllAsRead, UnreadShown, MarkLocallyRead,
           Ask, InboxPageTyped, FetchStages, TriesCounted, InboxTyped
  <2>3. ActionsTyped'
    BY <1>8 DEF HandleMarkAllAsRead, UnreadShown, MarkLocallyRead, Ask,
           ActionsTyped, CallsBounded
  <2>4. ShowsTheInbox'
    BY <1>8 DEF HandleMarkAllAsRead, UnreadShown, MarkLocallyRead, Ask,
           ShowsTheInbox, AnswerIsInbox, InboxPageTyped, FetchStages, InboxTyped
  <2>5. AnswerIsInbox'
    BY <1>8 DEF HandleMarkAllAsRead, UnreadShown, MarkLocallyRead, Ask,
           AnswerIsInbox, ShowsTheInbox, InboxTyped, InboxPageTyped, FetchStages
  <2>6. CallsBounded'
    BY <1>8, AskBounded DEF HandleMarkAllAsRead
  <2>7. TriesCounted'
    BY <1>8 DEF HandleMarkAllAsRead, UnreadShown, MarkLocallyRead, Ask,
           TriesCounted
  <2> QED BY <2>1, <2>2, <2>3, <2>4, <2>5, <2>6, <2>7
<1>9. CASE HandleDelete
  <2>1. InboxTyped'
    BY <1>9 DEF HandleDelete, Ask, InboxTyped
  <2>2. InboxPageTyped'
    BY ShownIsBox, <1>9 DEF HandleDelete, Ask, InboxPageTyped, FetchStages,
           TriesCounted, InboxTyped
  <2>3. ActionsTyped'
    BY <1>9 DEF HandleDelete, Ask, ActionsTyped, CallsBounded
  <2>4. ShowsTheInbox'
    BY <1>9 DEF HandleDelete, Ask, ShowsTheInbox, AnswerIsInbox, InboxPageTyped,
           FetchStages, InboxTyped
  <2>5. AnswerIsInbox'
    BY <1>9 DEF HandleDelete, Ask, AnswerIsInbox, ShowsTheInbox, InboxTyped,
           InboxPageTyped, FetchStages
  <2>6. CallsBounded'
    BY <1>9, AskBounded DEF HandleDelete
  <2>7. TriesCounted'
    BY <1>9 DEF HandleDelete, Ask, TriesCounted
  <2> QED BY <2>1, <2>2, <2>3, <2>4, <2>5, <2>6, <2>7
<1>10. CASE AnswerHeard
  <2>1. InboxTyped'
    BY <1>10 DEF AnswerHeard, Invalidate, Asked, FirstKept, InboxTyped
  <2>2. InboxPageTyped'
    BY ShownIsBox, <1>10 DEF AnswerHeard, Invalidate, Asked, FirstKept, InboxPageTyped, FetchStages,
           TriesCounted, InboxTyped
  <2>3. ActionsTyped'
    BY <1>10 DEF AnswerHeard, Invalidate, Asked, FirstKept, ActionsTyped, CallsBounded
  <2>4. ShowsTheInbox'
    BY <1>10 DEF AnswerHeard, Invalidate, Asked, FirstKept, ShowsTheInbox, AnswerIsInbox,
           InboxPageTyped, FetchStages, InboxTyped
  <2>5. AnswerIsInbox'
    BY <1>10 DEF AnswerHeard, Invalidate, Asked, FirstKept, AnswerIsInbox, ShowsTheInbox,
           InboxTyped, InboxPageTyped, FetchStages
  <2>6. CallsBounded'
    <3>1. Cardinality(asked) \in Nat
      BY FS_CardinalityType DEF CallsBounded
    <3> QED BY <1>10, <3>1 DEF AnswerHeard, CallsBounded, ActionsTyped
  <2>7. TriesCounted'
    BY <1>10 DEF AnswerHeard, Invalidate, Asked, FirstKept, TriesCounted
  <2> QED BY <2>1, <2>2, <2>3, <2>4, <2>5, <2>6, <2>7
<1>11. CASE StreamOpened
  BY ShownIsBox, <1>11 DEF StreamOpened, InboxTyped, InboxPageTyped, FetchStages,
         TriesCounted, ActionsTyped, CallsBounded, ShowsTheInbox, AnswerIsInbox
<1>12. CASE HandleEvent
  <2>1. InboxTyped'
    BY <1>12 DEF HandleEvent, Invalidate, Asked, FirstKept, InboxTyped
  <2>2. InboxPageTyped'
    BY ShownIsBox, <1>12 DEF HandleEvent, Invalidate, Asked, FirstKept, InboxPageTyped, FetchStages,
           TriesCounted, InboxTyped
  <2>3. ActionsTyped'
    BY <1>12 DEF HandleEvent, Invalidate, Asked, FirstKept, ActionsTyped, CallsBounded
  <2>4. ShowsTheInbox'
    BY <1>12 DEF HandleEvent, Invalidate, Asked, FirstKept, ShowsTheInbox, AnswerIsInbox,
           InboxPageTyped, FetchStages, InboxTyped
  <2>5. AnswerIsInbox'
    BY <1>12 DEF HandleEvent, Invalidate, Asked, FirstKept, AnswerIsInbox, ShowsTheInbox,
           InboxTyped, InboxPageTyped, FetchStages
  <2>6. CallsBounded'
    BY <1>12 DEF HandleEvent, Invalidate, Asked, FirstKept, CallsBounded, ActionsTyped
  <2>7. TriesCounted'
    BY <1>12 DEF HandleEvent, Invalidate, Asked, FirstKept, TriesCounted
  <2> QED BY <2>1, <2>2, <2>3, <2>4, <2>5, <2>6, <2>7
<1>13. CASE StreamEnds
  <2>1. InboxTyped'
    <3>1. missed' \in BOOLEAN
      BY <1>13, Zenon DEF StreamEnds, InboxTyped
    <3> QED BY <1>13, <3>1 DEF StreamEnds, InboxTyped
  <2>2. InboxPageTyped'
    BY ShownIsBox, <1>13 DEF StreamEnds, InboxPageTyped, FetchStages, TriesCounted,
           InboxTyped
  <2>3. ActionsTyped'
    BY <1>13 DEF StreamEnds, ActionsTyped, CallsBounded
  <2>4. ShowsTheInbox'
    BY <1>13 DEF StreamEnds, ShowsTheInbox, AnswerIsInbox, InboxPageTyped,
           FetchStages, InboxTyped
  <2>5. AnswerIsInbox'
    BY <1>13 DEF StreamEnds, AnswerIsInbox, ShowsTheInbox, InboxTyped,
           InboxPageTyped, FetchStages
  <2>6. CallsBounded'
    BY <1>13 DEF StreamEnds, CallsBounded, ActionsTyped
  <2>7. TriesCounted'
    BY <1>13 DEF StreamEnds, TriesCounted
  <2> QED BY <2>1, <2>2, <2>3, <2>4, <2>5, <2>6, <2>7
<1>14. CASE Subscribe
  BY ShownIsBox, <1>14 DEF Subscribe, InboxTyped, InboxPageTyped, FetchStages,
         TriesCounted, ActionsTyped, CallsBounded, ShowsTheInbox, AnswerIsInbox
<1>15. CASE UNCHANGED notesVars
  BY <1>15 DEF notesVars, InboxTyped, InboxPageTyped, FetchStages, TriesCounted,
         ActionsTyped, CallsBounded, ShowsTheInbox, AnswerIsInbox
<1> QED
  BY <1>1, <1>2, <1>3, <1>4, <1>5, <1>6, <1>7, <1>8, <1>9, <1>10, <1>11, <1>12,
     <1>13, <1>14, <1>15 DEF NotesNext

(* Type correctness of the notifications.                                  *)
THEOREM NotesTypeCorrect == NotesSpec => []NotesTypeOK
<1>1. NotesInv => NotesTypeOK
  BY NotesTypeParts DEF NotesInv
<1> QED BY <1>1, NotesInitInv, NotesInvStep, PTL DEF NotesSpec

(* What the page shows is what the server has, once nothing is on its way  *)
(* and unless a change was lost, for any number of notifications and calls. *)
THEOREM PageShowsTheInbox == NotesSpec => []ShowsTheInbox
<1>1. NotesInv => ShowsTheInbox
  BY DEF NotesInv
<1> QED BY <1>1, NotesInitInv, NotesInvStep, PTL DEF NotesSpec
=============================================================================
