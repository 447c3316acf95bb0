---------------------- MODULE AgentProvisioning_proofs ----------------------
(***************************************************************************)
(* Proofs about AgentProvisioning for any number of runs, projects, agents *)
(* and keys, and about KeyPublishing for any hosts, sources and options.   *)
(***************************************************************************)
EXTENDS AgentProvisioning, KeyPublishing, FiniteSetTheorems, TLAPS

\* The parameters of a run are what the constants say.
LEMMA RunData == \A r \in Runs : P(r) \in Projects /\ A(r) \in Agents /\ KeyOf[r] \in Keys
BY ProvisioningConstants DEF P, A

\* Provisioning never leaves the domains of the variables.
LEMMA TypeStep == TypeOK /\ [Next]_vars => TypeOK'
<1> SUFFICES ASSUME TypeOK, [Next]_vars PROVE TypeOK'
    OBVIOUS
<1> USE ProvisioningConstants, RunData
<1> USE DEF TypeOK, SshModes, ServerPlaces, ClientPlaces,
            Working, Opening, KeySteps, HomeSteps, LastSteps
<1>1. CASE UNCHANGED vars
    BY <1>1 DEF vars, server, files, client
<1>2. ASSUME NEW r \in Runs, Provision(r) PROVE TypeOK'
  <2>1. CASE Acquire(r)
    BY <2>1 DEF Acquire, GoTo, files, client
  <2>2. CASE Refuse(r) \/ Fail(r) \/ ReleaseFails(r)
    <3>1. CASE Refuse(r)
      BY <3>1 DEF Refuse, GoTo, files, client
    <3>2. CASE Fail(r)
      BY <3>2 DEF Fail, files, client
    <3>3. CASE ReleaseFails(r)
      BY <3>3 DEF ReleaseFails, GoTo, files, client
    <3> QED BY <2>2, <3>1, <3>2, <3>3
  <2>3. CASE Release(r)
    BY <2>3 DEF Release, GoTo, files, client
  <2>4. CASE OpenSsh(r)
    BY <2>4 DEF OpenSsh, FileStep, GoTo, client
  <2>5. CASE RemoveSsh(r)
    BY <2>5 DEF RemoveSsh, FileStep, GoTo, client
  <2>6. CASE MakeSsh(r)
    BY <2>6 DEF MakeSsh, FileStep, GoTo, client
  <2>7. CASE WriteKey(r)
    BY <2>7 DEF WriteKey, FileStep, GoTo, client
  <2>8. CASE CompareKey(r)
    BY <2>8 DEF CompareKey, GoTo, files, client
  <2>9. CASE RemoveHome(r)
    BY <2>9 DEF RemoveHome, RemoveTrackers, GoTo
  <2>10. CASE AddUser(r)
    BY <2>10 DEF AddUser, FileStep, GoTo, client
  <2>11. CASE OpenHome(r)
    BY <2>11 DEF OpenHome, FileStep, GoTo, files, client
  <2>12. CASE RemoveExportArea(r)
    BY <2>12 DEF RemoveExportArea, WithoutArea, FileStep, GoTo, client
  <2>21. CASE RemoveUpdateArea(r)
    BY <2>21 DEF RemoveUpdateArea, RemoveTrackers, WithoutArea, GoTo
  <2>13. ASSUME NEW parent, NEW dir \in {Home} \cup (HomeAreas \X (Projects \cup {None})),
                NEW from, NEW to \in ServerPlaces, MakeDir(r, parent, dir, from, to)
         PROVE TypeOK'
    BY <2>13 DEF MakeDir, FileStep, GoTo, client
  <2>14. CASE CleanHomeSubdirectories(r)
    BY <2>11, <2>12, <2>14, <2>21 DEF CleanHomeSubdirectories
  <2>15. CASE MakeHomeDirectories(r)
    <3>1. /\ <<"export", None>> \in HomeAreas \X (Projects \cup {None})
          /\ <<"export", P(r)>> \in HomeAreas \X (Projects \cup {None})
          /\ <<"update", None>> \in HomeAreas \X (Projects \cup {None})
          /\ <<"update", P(r)>> \in HomeAreas \X (Projects \cup {None})
      BY DEF HomeAreas
    <3>2. /\ {"trackers", "fillUpdate", "makeExport", "fillExport"} \subseteq ServerPlaces
          /\ (IF r \in sameKey THEN "removeUpdate" ELSE "makeUpdate") \in ServerPlaces
      OBVIOUS
    <3>3. CASE MakeDir(r, None, Home, "makeHome", "makeExport")
      BY <2>13, <3>2, <3>3
    <3>4. CASE MakeDir(r, Home, <<"export", None>>, "makeExport", "fillExport")
      BY <2>13, <3>1, <3>2, <3>4
    <3>5. CASE MakeDir(r, <<"export", None>>, <<"export", P(r)>>, "fillExport",
                       IF r \in sameKey THEN "removeUpdate" ELSE "makeUpdate")
      BY <2>13, <3>1, <3>2, <3>5
    <3>6. CASE MakeDir(r, Home, <<"update", None>>, "makeUpdate", "fillUpdate")
      BY <2>13, <3>1, <3>2, <3>6
    <3>7. CASE MakeDir(r, <<"update", None>>, <<"update", P(r)>>, "fillUpdate", "trackers")
      BY <2>13, <3>1, <3>2, <3>7
    <3> QED
      BY ONLY <2>15, <3>3, <3>4, <3>5, <3>6, <3>7 DEF MakeHomeDirectories
  <2>16. CASE GetUpdateTrackers(r)
    <3>1. {"update"} \X {None, P(r)} \subseteq HomeAreas \X (Projects \cup {None})
      BY DEF HomeAreas
    <3> QED
      BY <2>16, <3>1 DEF GetUpdateTrackers, FileStep, GoTo, client
  <2>17. CASE GetSalts(r)
    <3>1. given' \in [Runs -> Runs \cup {None}]
      BY <2>17, saltRows[P(r)] \subseteq Runs DEF GetSalts
    <3>2. pc' \in [Runs -> ServerPlaces]
      BY <2>17 DEF GetSalts, GoTo
    <3> QED
      BY <2>17, <3>1, <3>2 DEF GetSalts, files, client
  <2>18. CASE InsertSalt(r)
    BY <2>18 DEF InsertSalt, GoTo, files, client
  <2>19. CASE OwnDirectories(r) \/ CloseKey(r)
    <3>1. CASE OwnDirectories(r)
      BY <3>1 DEF OwnDirectories, FileStep, GoTo, files, client
    <3>2. CASE CloseKey(r)
      BY <3>2 DEF CloseKey, FileStep, GoTo, files, client
    <3> QED BY <2>19, <3>1, <3>2
  <2>20. CASE CloseSsh(r)
    BY <2>20 DEF CloseSsh, GoTo, client
  <2> QED
    BY <1>2, <2>1, <2>2, <2>3, <2>4, <2>5, <2>6, <2>7, <2>8, <2>9, <2>10, <2>14,
       <2>15, <2>16, <2>17, <2>18, <2>19, <2>20
    DEF Provision, CreateAgent, UpdatePermissions
<1>3. ASSUME NEW r \in Runs, Run(r) PROVE TypeOK'
  <2>1. CASE Post(r)
    BY <2>1 DEF Post, ClientStep, files
  <2>2. CASE Answered(r)
    BY <2>2 DEF Answered, ClientStep, files
  <2>3. CASE GiveUp(r) \/ StopPreflight(r) \/ FetchRefused(r)
    BY <2>3 DEF GiveUp, StopPreflight, FetchRefused, ClientStep, files
  <2>4. CASE CheckPermissions(r) \/ CheckLock(r)
    <3>1. CASE CheckPermissions(r)
      BY <3>1 DEF CheckPermissions, ClientStep, files
    <3>2. CASE CheckLock(r)
      BY <3>2 DEF CheckLock, ClientStep, files
    <3> QED BY <2>4, <3>1, <3>2
  <2>5. CASE LogIn(r) \/ ReadTrackers(r)
    BY <2>5 DEF LogIn, ReadTrackers, ClientStep, files
  <2> QED
    BY <1>3, <2>1, <2>2, <2>3, <2>4, <2>5 DEF Run
<1>4. ASSUME NEW r \in Runs, Crash(r) PROVE TypeOK'
    BY <1>4 DEF Crash, files, client
<1>5. ASSUME NEW p \in Projects, Expire(p) PROVE TypeOK'
    BY <1>5 DEF Expire, files, client
<1> QED
    BY <1>1, <1>2, <1>3, <1>4, <1>5 DEF Next

\* The type invariant of provisioning.
THEOREM TypeCorrect == Spec => []TypeOK
<1>1. Init => TypeOK
    BY ProvisioningConstants
    DEF Init, TypeOK, SshModes, ServerPlaces, ClientPlaces
<1>2. TypeOK /\ [Next]_vars => TypeOK'
    BY TypeStep
<1> QED
    BY <1>1, <1>2, PTL DEF Spec

-----------------------------------------------------------------------------
(***************************************************************************)
(* The inductive invariant.  A process that has the lock of its project is *)
(* alone on the files of its agent, so what another process relies on is   *)
(* not disturbed by its step.                                              *)
(***************************************************************************)
Locked == Working \cup {"release"}

LEMMA OtherRuns ==
    ASSUME OneProjectPerAgent, HoldsLock,
           NEW r \in Runs, pc[r] \in Locked,
           NEW s \in Runs, pc[s] \in Locked, s # r
    PROVE  A(s) # A(r) /\ P(s) # P(r)
BY DEF OneProjectPerAgent, HoldsLock, Locked

\* The files of the agent of r change only at the agent of r.
OnlyAgentOf(r) ==
    \A b \in Agents : b # A(r) =>
        /\ dirs'[b] = dirs[b] /\ trackers'[b] = trackers[b]
        /\ ssh'[b] = ssh[b] /\ key'[b] = key[b]

\* What a step of one process keeps, if it leaves the SSH directory open and
\* establishes what the next place of this process needs.
LEMMA WorkKeepsFiles ==
    ASSUME OneProjectPerAgent, ServerInv, TypeOK',
           NEW r \in Runs, NEW to \in Working \ Opening,
           pc[r] \in Working, pc' = [pc EXCEPT ![r] = to],
           UNCHANGED lock,
           OnlyAgentOf(r),
           ssh'[A(r)] # "closed",
           to \in HomeSteps \cup LastSteps => key'[A(r)] = KeyOf[r],
           to \in LastSteps => P(r) \in trackers'[A(r)],
           to \in {"closeKey", "closeSsh"} => HomeDirs(P(r)) \subseteq dirs'[A(r)],
           NoSaltYet' /\ OneRow' /\ GivenIsStored'
    PROVE  ServerInv'
<1> USE RunData
<1>1. \A s \in Runs : pc'[s] = IF s = r THEN to ELSE pc[s]
  BY DEF ServerInv, TypeOK
<1>2. \A s \in Runs : s # r /\ pc[s] \in Locked => A(s) # A(r) /\ P(s) # P(r)
  BY OtherRuns DEF ServerInv, Locked
<1>3. HoldsLock'
  BY <1>1 DEF ServerInv, HoldsLock
<1>4. SshIsOpen'
  BY <1>1, <1>2 DEF ServerInv, SshIsOpen, OnlyAgentOf, Locked
<1>5. KeyIsStored'
  BY <1>1, <1>2 DEF ServerInv, KeyIsStored, OnlyAgentOf, Locked, Working
<1>6. TrackersAreThere'
  BY <1>1, <1>2 DEF ServerInv, TrackersAreThere, OnlyAgentOf, Locked, Working
<1>7. DirectoriesAreThere'
  BY <1>1, <1>2 DEF ServerInv, DirectoriesAreThere, OnlyAgentOf, Locked, Working, LastSteps
<1>8. LoginComplete'
  BY DEF ServerInv, LoginComplete, Complete, OnlyAgentOf
<1> QED
  BY <1>3, <1>4, <1>5, <1>6, <1>7, <1>8 DEF ServerInv

\* The same for the steps that do not look at the salts.
LEMMA WorkKeeps ==
    ASSUME OneProjectPerAgent, ServerInv, TypeOK',
           NEW r \in Runs, NEW to \in Working \ (Opening \cup {"insertSalt"}),
           pc[r] \in Working, pc' = [pc EXCEPT ![r] = to],
           UNCHANGED <<lock, given, saltRows>>,
           OnlyAgentOf(r),
           ssh'[A(r)] # "closed",
           to \in HomeSteps \cup LastSteps => key'[A(r)] = KeyOf[r],
           to \in LastSteps => P(r) \in trackers'[A(r)],
           to \in {"closeKey", "closeSsh"} => HomeDirs(P(r)) \subseteq dirs'[A(r)]
    PROVE  ServerInv'
<1>1. \A s \in Runs : pc'[s] = IF s = r THEN to ELSE pc[s]
  BY DEF ServerInv, TypeOK
<1>2. NoSaltYet' /\ OneRow' /\ GivenIsStored'
  BY <1>1 DEF ServerInv, NoSaltYet, OneRow, GivenIsStored
<1> QED
  BY <1>2, WorkKeepsFiles

\* A step that leaves files and salts alone keeps the invariant if the places
\* of the processes need nothing new.
LEMMA PlaceKeeps ==
    ASSUME OneProjectPerAgent, ServerInv, TypeOK',
           NEW r \in Runs,
           NEW to \in {"none", "acquire", "openSsh", "release", "done", "dead"},
           pc' = [pc EXCEPT ![r] = to],
           to \in {"openSsh", "release"} => lock'[P(r)] = r,
           \A s \in Runs : s # r /\ lock[P(s)] = s /\ pc[s] \in Locked => lock'[P(s)] = s,
           UNCHANGED <<given, files, saltRows>>
    PROVE  ServerInv'
<1>1. \A s \in Runs : pc'[s] = IF s = r THEN to ELSE pc[s]
  BY DEF ServerInv, TypeOK
<1>2. HoldsLock'
  <2>1. \A s \in Runs : pc[s] \in Locked => lock[P(s)] = s
    BY DEF ServerInv, HoldsLock, Locked
  <2>2. to \in Locked => to \in {"openSsh", "release"}
    BY DEF Locked, Working, Opening, KeySteps, HomeSteps, LastSteps
  <2>3. \A s \in Runs : pc'[s] \in Locked => lock'[P(s)] = s
    BY <1>1, <2>1, <2>2
  <2> QED
    BY <2>3 DEF HoldsLock, Locked
<1>3. SshIsOpen' /\ KeyIsStored' /\ TrackersAreThere' /\ DirectoriesAreThere'
  BY <1>1 DEF ServerInv, SshIsOpen, KeyIsStored, TrackersAreThere, DirectoriesAreThere, files,
              Working, Opening, KeySteps, HomeSteps, LastSteps
<1>4. NoSaltYet' /\ OneRow' /\ GivenIsStored'
  BY <1>1 DEF ServerInv, NoSaltYet, OneRow, GivenIsStored
<1>5. LoginComplete'
  BY DEF ServerInv, LoginComplete, Complete, files
<1> QED
  BY <1>2, <1>3, <1>4, <1>5 DEF ServerInv

LEMMA ServerStep ==
    ASSUME OneProjectPerAgent, ServerInv, TypeOK', NEW r \in Runs, Provision(r)
    PROVE  ServerInv'
<1> USE RunData
<1>a. pc[r] \in Locked => lock[P(r)] = r
  BY DEF ServerInv, HoldsLock, Locked
<1>1. CASE Acquire(r)
  <2>1. lock' = [lock EXCEPT ![P(r)] = r] /\ lock[P(r)] = None
    BY <1>1 DEF Acquire
  <2>2. lock'[P(r)] = r /\ \A s \in Runs : lock[P(s)] = s => lock'[P(s)] = s
    BY <2>1, ProvisioningConstants DEF ServerInv, TypeOK
  <2> QED
    BY <1>1, <2>2, PlaceKeeps DEF Acquire, GoTo, client
<1>2. CASE Refuse(r) \/ ReleaseFails(r)
  BY <1>2, PlaceKeeps DEF Refuse, ReleaseFails, GoTo, client
<1>3. CASE Fail(r)
  BY <1>3, <1>a, PlaceKeeps DEF Fail, Locked, client
<1>4. CASE Release(r)
  <2>1. \A s \in Runs : s # r /\ lock[P(s)] = s => lock'[P(s)] = s
    BY <1>4 DEF Release, ServerInv, TypeOK
  <2> QED
    BY <1>4, <2>1, PlaceKeeps DEF Release, GoTo, client
<1>5. CASE OpenSsh(r)
  <2>1. OnlyAgentOf(r) /\ ssh'[A(r)] # "closed"
    BY <1>5 DEF OpenSsh, OnlyAgentOf, ServerInv, TypeOK, SshModes
  <2> DEFINE next == IF ssh[A(r)] = "none" THEN "makeSsh" ELSE "compareKey"
  <2>2. next \in Working \ (Opening \cup {"insertSalt"}) /\ next \notin HomeSteps \cup LastSteps
    BY DEF Working, Opening, KeySteps, HomeSteps, LastSteps
  <2>3. /\ pc[r] \in Working /\ pc' = [pc EXCEPT ![r] = next]
        /\ UNCHANGED <<lock, given, saltRows>>
    BY <1>5 DEF OpenSsh, FileStep, GoTo, client, Working, Opening
  <2> HIDE DEF next
  <2> QED
    BY <2>1, <2>2, <2>3, WorkKeeps DEF LastSteps
<1>6. CASE CompareKey(r)
  <2>1. OnlyAgentOf(r) /\ ssh'[A(r)] # "closed"
    BY <1>6 DEF CompareKey, GoTo, OnlyAgentOf, files, ServerInv, SshIsOpen,
       Working, Opening, KeySteps
  <2> QED
    BY <1>6, <2>1, WorkKeeps DEF CompareKey, GoTo, files, client,
       Working, Opening, KeySteps, HomeSteps, LastSteps
<1>7. CASE RemoveSsh(r)
  <2>1. OnlyAgentOf(r) /\ ssh'[A(r)] # "closed"
    BY <1>7 DEF RemoveSsh, OnlyAgentOf, ServerInv, TypeOK
  <2> QED
    BY <1>7, <2>1, WorkKeeps DEF RemoveSsh, FileStep, GoTo, client,
       Working, Opening, KeySteps, HomeSteps, LastSteps
<1>8. CASE MakeSsh(r)
  <2>1. OnlyAgentOf(r) /\ ssh'[A(r)] # "closed"
    BY <1>8 DEF MakeSsh, OnlyAgentOf, ServerInv, TypeOK
  <2> QED
    BY <1>8, <2>1, WorkKeeps DEF MakeSsh, FileStep, GoTo, client,
       Working, Opening, KeySteps, HomeSteps, LastSteps
<1>9. CASE WriteKey(r)
  <2>1. OnlyAgentOf(r) /\ key'[A(r)] = KeyOf[r]
    BY <1>9 DEF WriteKey, OnlyAgentOf, ServerInv, TypeOK
  <2>2. ssh'[A(r)] # "closed"
    BY <1>9 DEF WriteKey, FileStep, GoTo, ServerInv, SshIsOpen, Working, Opening, KeySteps
  <2> QED
    BY <1>9, <2>1, <2>2, WorkKeeps DEF WriteKey, FileStep, GoTo, client,
       Working, Opening, KeySteps, HomeSteps, LastSteps
<1>10. ASSUME NEW from \in HomeSteps, NEW to \in HomeSteps \cup {"salts"},
              GoTo(r, from, to), UNCHANGED <<lock, given, saltRows, ssh, key>>,
              \A b \in Agents : b # A(r) => dirs'[b] = dirs[b] /\ trackers'[b] = trackers[b],
              to = "salts" => P(r) \in trackers'[A(r)]
       PROVE  ServerInv'
  <2>1. pc[r] = from /\ pc[r] \in Working \ Opening /\ pc[r] \in HomeSteps
    BY <1>10 DEF GoTo, Working, Opening, HomeSteps
  <2>2. OnlyAgentOf(r)
    BY <1>10 DEF OnlyAgentOf
  <2>3. ssh'[A(r)] # "closed" /\ key'[A(r)] = KeyOf[r]
    BY <1>10, <2>1 DEF ServerInv, SshIsOpen, KeyIsStored
  <2>4. /\ to \in Working \ (Opening \cup {"insertSalt"})
        /\ to \notin {"closeKey", "closeSsh"}
        /\ to \in LastSteps => to = "salts"
    BY DEF Working, Opening, HomeSteps, LastSteps
  <2> QED
    BY <1>10, <2>1, <2>2, <2>3, <2>4, WorkKeeps DEF GoTo
<1>11. CASE CreateAgent(r)
  BY <1>11, <1>10 DEF CreateAgent, RemoveHome, RemoveTrackers, AddUser, FileStep, HomeSteps,
                      ServerInv, TypeOK
<1>12. CASE CleanHomeSubdirectories(r)
  <2>1. CASE OpenHome(r)
    BY <2>1, <1>10 DEF OpenHome, FileStep, files, HomeSteps
  <2>2. CASE RemoveExportArea(r)
    BY <2>2, <1>10 DEF RemoveExportArea, WithoutArea, FileStep, HomeSteps, ServerInv, TypeOK
  <2>3. CASE RemoveUpdateArea(r)
    BY <2>3, <1>10 DEF RemoveUpdateArea, RemoveTrackers, WithoutArea, HomeSteps, ServerInv, TypeOK
  <2> QED
    BY <1>12, <2>1, <2>2, <2>3 DEF CleanHomeSubdirectories
<1>13. CASE MakeHomeDirectories(r)
  <2>1. ASSUME NEW parent, NEW dir, NEW from \in HomeSteps, NEW to \in HomeSteps,
               MakeDir(r, parent, dir, from, to)
        PROVE  ServerInv'
    BY <2>1, <1>10 DEF MakeDir, FileStep, HomeSteps, ServerInv, TypeOK
  <2> DEFINE next == IF r \in sameKey THEN "removeUpdate" ELSE "makeUpdate"
  <2>2. /\ next \in HomeSteps
        /\ {"makeHome", "makeExport", "fillExport", "makeUpdate", "fillUpdate",
             "trackers"} \subseteq HomeSteps
    BY DEF HomeSteps
  <2>3. \E parent, dir : \E from, to \in HomeSteps : MakeDir(r, parent, dir, from, to)
    BY <1>13, <2>2, Zenon DEF MakeHomeDirectories
  <2> QED
    BY <2>1, <2>3
<1>14. CASE GetUpdateTrackers(r)
  <2>1. \A b \in Agents : b # A(r) => dirs'[b] = dirs[b] /\ trackers'[b] = trackers[b]
    BY <1>14 DEF GetUpdateTrackers, ServerInv, TypeOK
  <2>2. P(r) \in trackers'[A(r)]
    BY <1>14 DEF GetUpdateTrackers, ServerInv, TypeOK
  <2> QED
    BY <1>14, <2>1, <2>2, <1>10 DEF GetUpdateTrackers, FileStep, HomeSteps
<1>15. ASSUME pc[r] \in {"salts", "insertSalt"},
              NEW to \in {"insertSalt", "permissions"}, pc' = [pc EXCEPT ![r] = to],
              UNCHANGED <<lock, files>>,
              NoSaltYet' /\ OneRow' /\ GivenIsStored'
       PROVE  ServerInv'
  <2>1. pc[r] \in LastSteps /\ pc[r] \in Working \ Opening /\ to \in Working \ Opening
    BY <1>15 DEF LastSteps, Working, Opening
  <2>2. OnlyAgentOf(r)
    BY <1>15 DEF OnlyAgentOf, files
  <2>3. /\ ssh'[A(r)] # "closed" /\ key'[A(r)] = KeyOf[r]
        /\ P(r) \in trackers'[A(r)]
    BY <1>15, <2>1 DEF files, ServerInv, SshIsOpen, KeyIsStored, TrackersAreThere
  <2> QED
    BY <1>15, <2>1, <2>2, <2>3, WorkKeepsFiles DEF client
<1>16. CASE GetSalts(r)
  <2>1. PICK to \in {"insertSalt", "permissions"} :
           /\ pc[r] = "salts" /\ pc' = [pc EXCEPT ![r] = to]
           /\ to = "insertSalt" => saltRows[P(r)] = {}
           /\ given' = given \/ \E row \in saltRows[P(r)] : given' = [given EXCEPT ![r] = row]
    BY <1>16 DEF GetSalts, GoTo
  <2>2. UNCHANGED <<lock, saltRows, files, client>>
    BY <1>16 DEF GetSalts
  <2>3. \A s \in Runs : pc'[s] = IF s = r THEN to ELSE pc[s]
    BY <2>1 DEF ServerInv, TypeOK
  <2>4. NoSaltYet' /\ OneRow'
    BY <2>1, <2>2, <2>3 DEF ServerInv, NoSaltYet, OneRow
  <2>5. GivenIsStored'
    BY <2>1, <2>2 DEF ServerInv, TypeOK, GivenIsStored
  <2> QED
    BY <1>15, <2>1, <2>2, <2>4, <2>5
<1>19. CASE InsertSalt(r)
  <2>1. /\ pc[r] = "insertSalt" /\ pc' = [pc EXCEPT ![r] = "permissions"]
        /\ UNCHANGED <<lock, files, client>>
        /\ saltRows' = [saltRows EXCEPT ![P(r)] = @ \cup {r}]
        /\ given' = [given EXCEPT ![r] = r]
    BY <1>19 DEF InsertSalt, GoTo
  <2>2. saltRows[P(r)] = {} /\ saltRows'[P(r)] = {r}
    BY <2>1 DEF ServerInv, NoSaltYet, TypeOK
  <2>3. \A p \in Projects : p # P(r) => saltRows'[p] = saltRows[p]
    BY <2>1 DEF ServerInv, TypeOK
  <2>4. \A s \in Runs : s # r /\ pc[s] \in Locked => P(s) # P(r)
    BY <2>1, OtherRuns DEF ServerInv, Locked, Working, LastSteps
  <2>5. NoSaltYet'
    BY <2>1, <2>3, <2>4 DEF ServerInv, TypeOK, NoSaltYet, Locked, Working, LastSteps
  <2>6. OneRow'
    BY <2>2, <2>3 DEF ServerInv, OneRow
  <2>7. GivenIsStored'
    BY <2>1, <2>2, <2>3 DEF ServerInv, TypeOK, GivenIsStored
  <2> QED
    BY <1>15, <2>1, <2>5, <2>6, <2>7
<1>17. CASE OwnDirectories(r) \/ CloseKey(r)
  <2>1. pc[r] \in LastSteps /\ pc[r] \in Working \ Opening
    BY <1>17 DEF OwnDirectories, CloseKey, FileStep, GoTo, LastSteps, Working, Opening
  <2>2. OnlyAgentOf(r)
    BY <1>17 DEF OwnDirectories, CloseKey, OnlyAgentOf, files
  <2>3. /\ ssh'[A(r)] # "closed" /\ key'[A(r)] = KeyOf[r]
        /\ P(r) \in trackers'[A(r)]
    BY <1>17, <2>1 DEF OwnDirectories, CloseKey, files, ServerInv, SshIsOpen, KeyIsStored,
       TrackersAreThere
  <2>4. HomeDirs(P(r)) \subseteq dirs'[A(r)]
    BY <1>17 DEF OwnDirectories, CloseKey, files, FileStep, GoTo, ServerInv, DirectoriesAreThere
  <2> QED
    BY <1>17, <2>1, <2>2, <2>3, <2>4, WorkKeeps
    DEF OwnDirectories, CloseKey, FileStep, GoTo, client, Working, Opening, LastSteps
<1>18. CASE CloseSsh(r)
  <2>1. pc[r] = "closeSsh" /\ pc[r] \in LastSteps /\ pc[r] \in Working \ Opening
    BY <1>18 DEF CloseSsh, GoTo, LastSteps, Working, Opening
  <2>2. Complete(r)'
    BY <1>18, <2>1 DEF CloseSsh, Complete, ServerInv, KeyIsStored, TrackersAreThere,
       DirectoriesAreThere
  <2>3. \A s \in Runs : A(s) # A(r) => Complete(s)' = Complete(s)
    BY <1>18 DEF CloseSsh, Complete
  <2>4. \A a \in Agents : a # A(r) => ssh'[a] = ssh[a]
    BY <1>18 DEF CloseSsh, ServerInv, TypeOK
  <2>5. LoginComplete'
    BY <2>2, <2>3, <2>4 DEF LoginComplete, ServerInv
  <2>6. \A s \in Runs : pc'[s] = IF s = r THEN "release" ELSE pc[s]
    BY <1>18 DEF CloseSsh, GoTo, ServerInv, TypeOK
  <2>7. \A s \in Runs : s # r /\ pc[s] \in Locked => A(s) # A(r)
    BY <2>1, OtherRuns DEF ServerInv, Locked
  <2>8. HoldsLock'
    BY <1>18, <1>a, <2>1, <2>6 DEF CloseSsh, ServerInv, HoldsLock, Locked
  <2>9. SshIsOpen'
    BY <2>4, <2>6, <2>7 DEF ServerInv, SshIsOpen, Locked, Working, Opening, KeySteps, HomeSteps,
       LastSteps
  <2>10. KeyIsStored' /\ TrackersAreThere' /\ DirectoriesAreThere'
    BY <1>18, <2>6 DEF CloseSsh, ServerInv, KeyIsStored, TrackersAreThere, DirectoriesAreThere,
       HomeSteps, LastSteps
  <2>11. NoSaltYet' /\ OneRow' /\ GivenIsStored'
    BY <1>18, <2>6 DEF CloseSsh, ServerInv, NoSaltYet, OneRow, GivenIsStored
  <2> QED
    BY <1>18, <2>5, <2>8, <2>9, <2>10, <2>11 DEF CloseSsh, ServerInv, client
<1> QED
  BY <1>1, <1>2, <1>3, <1>4, <1>5, <1>6, <1>7, <1>8, <1>9, <1>11, <1>12, <1>13,
     <1>14, <1>16, <1>17, <1>18, <1>19
  DEF Provision, UpdatePermissions

LEMMA AgentStep ==
    ASSUME OneProjectPerAgent, ServerInv, TypeOK', NEW r \in Runs, Run(r)
    PROVE  ServerInv'
<1>1. CASE Post(r)
  BY <1>1, PlaceKeeps DEF Post, ClientStep
<1>2. ASSUME UNCHANGED <<pc, lock, given, files, saltRows>>
      PROVE  ServerInv'
  BY <1>2 DEF ServerInv, HoldsLock, SshIsOpen, KeyIsStored, TrackersAreThere,
     DirectoriesAreThere, NoSaltYet, OneRow, GivenIsStored, LoginComplete, Complete, files
<1>3. CASE ~Post(r)
  BY <1>2, <1>3 DEF Run, Answered, GiveUp, CheckPermissions, CheckLock, StopPreflight,
                    LogIn, ReadTrackers, FetchRefused, ClientStep
<1> QED
  BY <1>1, <1>3

-----------------------------------------------------------------------------
(***************************************************************************)
(* The part of the invariant about run.sh.                                 *)
(***************************************************************************)
Active == Working \cup {"acquire", "release"}
Apart  == {"idle", "collecting", "stopped"}

\* The CGI process leaves run.sh alone, and does not begin a request again.
LEMMA ServerKeepsClient ==
    ASSUME TypeOK, NEW r \in Runs, Provision(r) \/ Crash(r)
    PROVE  /\ UNCHANGED <<cl, secrets, fetched>>
           /\ pc[r] \in Active
           /\ \A s \in Runs : s # r => pc'[s] = pc[s]
           /\ RemoveHome(r) \/ RemoveUpdateArea(r)
              \/ /\ UNCHANGED overtaken
                 /\ \A a \in Agents : trackers[a] \subseteq trackers'[a]
<1> USE RunData DEF TypeOK, GoTo, FileStep, client, files, Active, Working, Opening, KeySteps,
                    HomeSteps, LastSteps
<1>1. CASE Acquire(r) \/ Refuse(r) \/ Fail(r) \/ Release(r) \/ ReleaseFails(r) \/ Crash(r)
  BY <1>1 DEF Acquire, Refuse, Fail, Release, ReleaseFails, Crash
<1>2. CASE OpenSsh(r) \/ CompareKey(r) \/ RemoveSsh(r) \/ MakeSsh(r) \/ WriteKey(r)
  BY <1>2 DEF OpenSsh, CompareKey, RemoveSsh, MakeSsh, WriteKey
<1>3. CASE CreateAgent(r) \/ CleanHomeSubdirectories(r)
  BY <1>3 DEF CreateAgent, AddUser, RemoveHome, CleanHomeSubdirectories, OpenHome,
              RemoveExportArea, RemoveUpdateArea, RemoveTrackers
<1>4. CASE MakeHomeDirectories(r)
  BY <1>4 DEF MakeHomeDirectories, MakeDir
<1>5. CASE GetUpdateTrackers(r)
  BY <1>5 DEF GetUpdateTrackers
<1>6. CASE GetSalts(r) \/ InsertSalt(r)
  BY <1>6 DEF GetSalts, InsertSalt
<1>7. CASE UpdatePermissions(r)
  BY <1>7 DEF UpdatePermissions, OwnDirectories, CloseKey, CloseSsh
<1> QED
  BY <1>1, <1>2, <1>3, <1>4, <1>5, <1>6, <1>7 DEF Provision

\* Where a step of run.sh goes, and what else it changes.
LEMMA ClientMoves ==
    ASSUME TypeOK, NEW r \in Runs, Run(r)
    PROVE  /\ UNCHANGED <<files, overtaken>>
           /\ \A s \in Runs : s # r => cl'[s] = cl[s] /\ pc'[s] = pc[s]
           /\ Post(r) \/ UNCHANGED pc
           /\ \/ Post(r) \/ Answered(r) \/ LogIn(r) \/ ReadTrackers(r)
              \/ /\ UNCHANGED fetched
                 /\ \/ cl'[r] = "stopped"
                    \/ cl[r] \in {"permissions", "lock"} /\ cl'[r] \in {"lock", "fetch"}
BY DEF TypeOK, Run, Post, Answered, GiveUp, CheckPermissions, CheckLock, StopPreflight, LogIn,
       ReadTrackers, FetchRefused, ClientStep

LEMMA AloneStep == TypeOK /\ RequestIsAlone /\ [Next]_vars => RequestIsAlone'
<1> SUFFICES ASSUME TypeOK, RequestIsAlone, [Next]_vars, Serial,
                    NEW r \in Runs, NEW s \in Runs, A(r) = A(s), pc'[r] \in Active
             PROVE  cl'[s] \in Apart \/ (s = r /\ cl'[s] = "posted")
  BY DEF RequestIsAlone, Active, Apart
<1>1. pc[r] \in Active => cl[s] \in Apart \/ (s = r /\ cl[s] = "posted")
  BY DEF RequestIsAlone, Active, Apart
<1>2. CASE UNCHANGED <<pc, cl>>
  BY <1>1, <1>2
<1>3. ASSUME NEW t \in Runs, Provision(t) \/ Crash(t)
      PROVE  cl'[s] \in Apart \/ (s = r /\ cl'[s] = "posted")
  BY <1>1, <1>3, ServerKeepsClient
<1>4. ASSUME NEW t \in Runs, Run(t)
      PROVE  cl'[s] \in Apart \/ (s = r /\ cl'[s] = "posted")
  <2>1. CASE Post(t)
    <3>1. /\ pc' = [pc EXCEPT ![t] = "acquire"]
          /\ cl[t] = "idle" /\ cl' = [cl EXCEPT ![t] = "posted"]
          /\ \A u \in Runs \ {t} : A(u) = A(t) => /\ cl[u] \in Apart
                                                  /\ pc[u] \in {"none", "done", "dead"}
      BY <2>1 DEF Post, ClientStep, Apart
    <3>2. {"none", "done", "dead"} \cap Active = {}
      BY DEF Active, Working, Opening, KeySteps, HomeSteps, LastSteps
    <3> QED BY <1>1, <3>1, <3>2 DEF TypeOK
  <2>2. CASE UNCHANGED pc /\ s # t
    BY <1>1, <1>4, <2>2, ClientMoves
  <2>3. CASE UNCHANGED pc /\ s = t
    <3>1. cl[t] \in Apart \/ (t = r /\ cl[t] = "posted")
      BY <1>1, <2>3
    <3>2. CASE Answered(t)
      <4>1. cl[t] = "posted" /\ pc[t] \in {"done", "dead"}
        BY <3>2 DEF Answered, ClientStep
      <4>2. {"done", "dead"} \cap Active = {}
        BY DEF Active, Working, Opening, KeySteps, HomeSteps, LastSteps
      <4> QED BY <2>3, <3>1, <4>1, <4>2 DEF Apart
    <3>3. CASE LogIn(t) \/ ReadTrackers(t)
      BY <3>1, <3>3 DEF LogIn, ReadTrackers, ClientStep, Apart
    <3>4. CASE Post(t)
      BY <2>1, <3>4
    <3> QED BY <1>4, <2>3, <3>1, <3>2, <3>3, <3>4, ClientMoves DEF Apart
  <2> QED BY <1>4, <2>1, <2>2, <2>3, ClientMoves
<1> QED
  BY <1>2, <1>3, <1>4 DEF Next, Expire, client, vars, server

\* A run reads what the login promised, or its trackers were removed meanwhile.
LEMMA ReadingStep ==
    ASSUME OneProjectPerAgent, IInv, TypeOK', [Next]_vars
    PROVE  ReadingIsComplete' /\ CollectsWithTrackers'
<1> USE RunData
<1>t. TypeOK /\ LoginComplete
  BY DEF IInv, ServerInv
<1>1. CASE UNCHANGED <<cl, fetched, overtaken, trackers>>
  BY <1>1 DEF IInv, ReadingIsComplete, CollectsWithTrackers
<1>2. ASSUME NEW r \in Runs, Provision(r) \/ Crash(r)
      PROVE  ReadingIsComplete' /\ CollectsWithTrackers'
  <2>1. UNCHANGED <<cl, fetched>> /\ pc[r] \in Active
    BY <1>2, <1>t, ServerKeepsClient
  <2>2. CASE UNCHANGED overtaken /\ \A a \in Agents : trackers[a] \subseteq trackers'[a]
    BY <2>1, <2>2 DEF IInv, ReadingIsComplete, CollectsWithTrackers
  <2>3. CASE RemoveHome(r) \/ RemoveUpdateArea(r)
    <3>1. /\ trackers' = [trackers EXCEPT ![A(r)] = {}]
          /\ overtaken' = overtaken \cup {s \in Runs : A(s) = A(r) /\ cl[s] = "reading"}
      BY <2>3 DEF RemoveHome, RemoveUpdateArea, RemoveTrackers
    <3>2. ReadingIsComplete'
      BY <1>t, <2>1, <3>1 DEF IInv, ReadingIsComplete, TypeOK
    <3>3. Serial => overtaken' = {}
      BY <2>1, <3>1 DEF IInv, CollectsWithTrackers, RequestIsAlone, Active
    <3> QED BY <2>1, <3>1, <3>2, <3>3 DEF IInv, CollectsWithTrackers
  <2> QED BY <1>2, <1>t, <2>2, <2>3, ServerKeepsClient
<1>3. ASSUME NEW r \in Runs, Run(r)
      PROVE  ReadingIsComplete' /\ CollectsWithTrackers'
  <2>1. /\ UNCHANGED <<trackers, overtaken>>
        /\ \A s \in Runs : s # r => cl'[s] = cl[s]
    BY <1>3, <1>t, ClientMoves DEF files
  <2>2. ASSUME UNCHANGED fetched, cl'[r] \notin {"reading", "collecting"}
        PROVE  ReadingIsComplete' /\ CollectsWithTrackers'
    BY <2>1, <2>2 DEF IInv, ReadingIsComplete, CollectsWithTrackers
  <2>3. CASE LogIn(r)
    \* The login shows that the agent is complete for some run, which is of
    \* the same project.
    <3>1. PICK s \in Runs : A(s) = A(r) /\ P(s) \in trackers[A(s)]
      BY <1>t, <2>3 DEF LogIn, CanLogIn, LoginComplete, Complete
    <3>2. P(r) \in trackers[A(r)]
      BY <3>1 DEF OneProjectPerAgent
    <3>3. cl'[r] = "reading" /\ UNCHANGED fetched
      BY <1>t, <2>3 DEF LogIn, ClientStep, TypeOK
    <3> QED BY <2>1, <3>2, <3>3 DEF IInv, ReadingIsComplete, CollectsWithTrackers
  <2>4. CASE ReadTrackers(r)
    <3>1. /\ cl[r] = "reading" /\ cl'[r] = "collecting"
          /\ fetched' = IF P(r) \in trackers[A(r)] THEN fetched \cup {r} ELSE fetched
      BY <1>t, <2>4 DEF ReadTrackers, ClientStep, TypeOK
    <3> QED BY <2>1, <3>1 DEF IInv, ReadingIsComplete, CollectsWithTrackers
  <2>5. CASE Post(r) \/ Answered(r)
    <3>1. UNCHANGED fetched /\ cl'[r] \in {"posted", "permissions"}
      BY <1>t, <2>5 DEF Post, Answered, ClientStep, TypeOK
    <3> QED BY <2>2, <3>1
  <2> QED BY <1>3, <1>t, <2>2, <2>3, <2>4, <2>5, ClientMoves
<1> QED
  BY <1>1, <1>2, <1>3 DEF Next, Expire, client, files, vars

LEMMA InvariantStep == OneProjectPerAgent /\ IInv /\ [Next]_vars => IInv'
<1> SUFFICES ASSUME OneProjectPerAgent, IInv, [Next]_vars PROVE IInv'
  OBVIOUS
<1>1. TypeOK' /\ RequestIsAlone' /\ ReadingIsComplete' /\ CollectsWithTrackers'
  <2>1. TypeOK /\ RequestIsAlone
    BY DEF IInv, ServerInv
  <2>2. TypeOK' /\ RequestIsAlone'
    BY <2>1, TypeStep, AloneStep
  <2> QED BY <2>2, ReadingStep
<1>s. ServerInv
  BY DEF IInv
<1>2. CASE UNCHANGED vars
  <2>1. HoldsLock' /\ NoSaltYet' /\ OneRow' /\ GivenIsStored'
    BY <1>s, <1>2 DEF vars, server, ServerInv, HoldsLock, NoSaltYet, OneRow, GivenIsStored
  <2>2. SshIsOpen' /\ KeyIsStored' /\ TrackersAreThere' /\ DirectoriesAreThere'
    BY <1>s, <1>2 DEF vars, server, files, ServerInv, SshIsOpen, KeyIsStored, TrackersAreThere,
       DirectoriesAreThere
  <2>3. LoginComplete'
    BY <1>s, <1>2 DEF vars, files, ServerInv, LoginComplete, Complete
  <2> QED
    BY <1>1, <2>1, <2>2, <2>3 DEF IInv, ServerInv
<1>3. ASSUME NEW r \in Runs, Crash(r) PROVE ServerInv'
  BY <1>1, <1>3, <1>s, PlaceKeeps DEF Crash
<1>4. ASSUME NEW p \in Projects, Expire(p) PROVE ServerInv'
  <2>1. HoldsLock'
    BY <1>4, <1>s, RunData DEF Expire, ServerInv, TypeOK, HoldsLock, Working, Opening, KeySteps,
       HomeSteps, LastSteps
  <2> QED
    BY <1>1, <1>4, <1>s, <2>1 DEF Expire, files, ServerInv, SshIsOpen, KeyIsStored,
       TrackersAreThere, DirectoriesAreThere, NoSaltYet, OneRow, GivenIsStored,
       LoginComplete, Complete
<1>5. ASSUME ServerInv' PROVE IInv'
  BY <1>1, <1>5 DEF IInv
<1> QED
  BY <1>1, <1>s, <1>2, <1>3, <1>4, <1>5, ServerStep, AgentStep DEF Next

LEMMA InvariantInit == Init => IInv
<1> SUFFICES ASSUME Init PROVE IInv
  OBVIOUS
<1>1. TypeOK
  BY ProvisioningConstants DEF Init, TypeOK, SshModes, ServerPlaces, ClientPlaces
<1>2. \A r \in Runs : pc[r] \notin Working \cup {"acquire", "release"}
  BY DEF Init, Working, Opening, KeySteps, HomeSteps, LastSteps
<1>3. HoldsLock /\ SshIsOpen /\ KeyIsStored /\ TrackersAreThere /\ DirectoriesAreThere
  BY <1>2 DEF HoldsLock, SshIsOpen, KeyIsStored, TrackersAreThere, DirectoriesAreThere,
     Working, HomeSteps, LastSteps
<1>4. NoSaltYet /\ OneRow /\ GivenIsStored /\ LoginComplete
  BY DEF Init, NoSaltYet, OneRow, GivenIsStored, LoginComplete
<1>5. ReadingIsComplete /\ CollectsWithTrackers
  BY DEF Init, ReadingIsComplete, CollectsWithTrackers
<1>6. RequestIsAlone
  BY <1>2 DEF RequestIsAlone
<1> QED
  BY <1>1, <1>3, <1>4, <1>5, <1>6 DEF IInv, ServerInv

\* The inductive invariant holds whenever no two projects share an agent.
THEOREM InvariantHolds == ASSUME OneProjectPerAgent PROVE Spec => []IInv
<1>1. IInv /\ [Next]_vars => IInv'
  BY InvariantStep
<1> QED
  BY <1>1, InvariantInit, PTL DEF Spec

\* An agent can log in only when everything is there, whatever call fails and
\* whichever process is killed (controller_daemon.py, CREATE_PERMISSIONS).
THEOREM LoginIsComplete == ASSUME OneProjectPerAgent PROVE Spec => []LoginComplete
<1>1. IInv => LoginComplete
  BY DEF IInv, ServerInv
<1> QED
  BY <1>1, InvariantHolds, PTL

\* All requests of a project are answered with the same salts (salt.py).
THEOREM SaltsAgree == ASSUME OneProjectPerAgent PROVE Spec => []OneSaltPerProject
<1>1. IInv => OneSaltPerProject
  BY RunData DEF IInv, ServerInv, OneRow, GivenIsStored, OneSaltPerProject
<1> QED
  BY <1>1, InvariantHolds, PTL

\* No run collects without the trackers of its project (run.sh), unless another request
\* removed them while it was reading: never when the runs of an agent follow each other.
THEOREM TrackersAreUsed == ASSUME OneProjectPerAgent PROVE Spec => []CollectsWithTrackers
<1>1. IInv => CollectsWithTrackers
  BY DEF IInv
<1> QED
  BY <1>1, InvariantHolds, PTL

-----------------------------------------------------------------------------
(***************************************************************************)
(* generate_key.py of the agent: KeyPublishing.                            *)
(***************************************************************************)

PublishPlaces ==
    {"idle", "next", "store", "public", "read", "publish", "list", "create", "scan", "append", "done"}
SourceKinds == {"controller", "gitlab", "github", "tfs", "other", "none"}
Environments == Paths \X SourceKinds \X ApiHosts \X ({WholeHost} \cup STRING)
Processes ==
    [pc : PublishPlaces, owner : Owners, options : PublishOptions, number : Nat \ {0},
     checked : SUBSET Environments, read : [Paths -> Nat \cup {Unread}], page : Nat \ {0}]
KeyEntries == [title : {NoTitle} \cup STRING, key : Int]

PublishTypeOK ==
    /\ keyFiles \in [Paths -> [private : Nat, public : Nat]] /\ generated \in Nat
    /\ keyring \in [ApiHosts -> Seq(KeyEntries)] /\ controllerKey \in [Owners -> Nat]
    /\ knownHosts \in [HostNames -> {"none", "old", "current"}]
    /\ publishing \in Processes /\ reported \subseteq ApiHosts /\ renewals \in Nat

AtSource == publishing.pc \notin {"idle", "next", "done"}

\* A process that works is at a source with a key, which it reads once; only for
\* GitLab it has a list; one that is done is behind all.
HasSource ==
    /\ AtSource =>
          /\ publishing.number <= Len(ToDo) /\ HasKey(Source)
          /\ PublicKey = Unread <=> publishing.pc \in {"store", "public", "read"}
    /\ publishing.pc \in {"list", "create"} => Source.kind = "gitlab" /\ PublicKey # NoKey
    /\ At("done") => publishing.number > Len(ToDo)

(***************************************************************************)
(* The sources of a run                                                    *)
(***************************************************************************)
LEMMA MakeSourceType ==
  ASSUME NEW section \in Sections
  PROVE  MakeSource(section) \in PublishedSources
<1> DEFINE kind == CASE "gitlab" \in section.has -> "gitlab"
                     [] "github" \in section.has -> "github"
                     [] "tfs" \in section.has -> "tfs"
                     [] OTHER -> "none"
<1>1. section.name \in HostNames
  BY DEF Sections
<1>2. kind \in {"gitlab", "github", "tfs", "none"}
  <2>1. CASE "gitlab" \in section.has
    BY <2>1
  <2>2. CASE "gitlab" \notin section.has /\ "github" \in section.has
    BY <2>2
  <2>3. CASE "gitlab" \notin section.has /\ "github" \notin section.has /\ "tfs" \in section.has
    BY <2>3
  <2>4. CASE "gitlab" \notin section.has /\ "github" \notin section.has /\ "tfs" \notin section.has
    BY <2>4
  <2> QED BY <2>1, <2>2, <2>3, <2>4
<1>3. MakeSource(section) = [kind |-> kind, name |-> section.name, env |-> WholeHost]
  BY DEF MakeSource
<1> HIDE DEF kind
<1>4. kind \in {"controller", "gitlab", "github", "tfs", "other", "none"}
  BY <1>2
<1>5. WholeHost \in {WholeHost} \cup STRING
  OBVIOUS
<1>6. [kind |-> kind, name |-> section.name, env |-> WholeHost] \in
         [kind : {"controller", "gitlab", "github", "tfs", "other", "none"}, name : HostNames,
          env : {WholeHost} \cup STRING]
  BY <1>1, <1>4, <1>5
<1> QED BY <1>3, <1>6 DEF PublishedSources

LEMMA SourcesToDoType ==
  ASSUME NEW p \in Owners, NEW options \in PublishOptions
  PROVE  SourcesToDo(p, options) \in Seq(PublishedSources)
<1> DEFINE domains == [n \in DOMAIN DomainSections |-> MakeSource(DomainSections[n])]
           chosen == IF options.credentials THEN domains ELSE <<>>
<1>1. domains \in Seq(PublishedSources)
  <2>1. DomainSections \in Seq(Sections)
    BY PublishingAssumption
  <2>2. \A n \in 1 .. Len(DomainSections) : MakeSource(DomainSections[n]) \in PublishedSources
    BY <2>1, MakeSourceType
  <2> QED BY <2>1, <2>2
<1>2. chosen \in Seq(PublishedSources)
  BY <1>1
<1>3. GitLabSources(p, options) \in Seq(PublishedSources)
  <2>1. OwnSources[p] \in Seq(PublishedSources)
    BY PublishingAssumption
  <2>2. options.gitlab \in Seq(PublishedSources)
    BY PublishingAssumption DEF OptionRecords
  <2> QED BY <2>1, <2>2 DEF GitLabSources
<1>4. Controllers \in Seq(PublishedSources)
  BY PublishingAssumption
<1>5. SourcesToDo(p, options) = Controllers \o chosen \o GitLabSources(p, options)
  BY DEF SourcesToDo
<1> HIDE DEF chosen
<1> QED BY <1>2, <1>3, <1>4, <1>5

LEMMA ToDoType ==
  ASSUME PublishTypeOK
  PROVE  ToDo \in Seq(PublishedSources) /\ Len(ToDo) \in Nat
<1>1. publishing.owner \in Owners /\ publishing.options \in PublishOptions
  BY DEF PublishTypeOK, Processes
<1> QED BY <1>1, SourcesToDoType DEF ToDo

LEMMA SourceFields ==
  ASSUME NEW source \in PublishedSources
  PROVE  /\ Host(source) \in ApiHosts /\ source.name \in HostNames
         /\ HasKey(source) => KeyPath(source) \in Paths /\ Environment(source) \in Environments
         /\ source.kind = "controller" => KeyPath(source) = MainPath
<1>1. source.name \in HostNames /\ source.kind \in SourceKinds
      /\ source.env \in {WholeHost} \cup STRING
  BY DEF PublishedSources, SourceKinds
<1>2. Host(source) \in ApiHosts
  BY <1>1, PublishingAssumption DEF Host
<1>3. HasKey(source) => KeyPath(source) \in Paths
  BY <1>2, PublishingAssumption DEF HasKey, KeyPath, Paths
<1> QED BY <1>1, <1>2, <1>3 DEF Environment, Environments, KeyPath

\* Sources of one environment have their key and their host in common.
LEMMA SameEnvironment ==
  ASSUME NEW a, NEW b, Environment(a) = Environment(b)
  PROVE  /\ KeyPath(a) = KeyPath(b) /\ a.kind = b.kind /\ Host(a) = Host(b)
         /\ HasKey(a) <=> HasKey(b)
         /\ KeyIsPublished(a) <=> KeyIsPublished(b)
<1>1. KeyPath(a) = KeyPath(b) /\ a.kind = b.kind /\ Host(a) = Host(b)
  BY DEF Environment
<1> QED BY <1>1 DEF HasKey, KeyIsPublished

\* While a process works, it has a source that is no longer to be looked for.
LEMMA WorkingSource ==
  ASSUME PublishTypeOK, publishing.number <= Len(ToDo)
  PROVE  /\ publishing.number \in 1 .. Len(ToDo) /\ publishing.number \in DOMAIN ToDo
         /\ Source \in PublishedSources
<1>1. publishing.number \in Nat \ {0}
  BY DEF PublishTypeOK, Processes
<1>2. publishing.number \in 1 .. Len(ToDo)
  BY <1>1, ToDoType
<1> QED BY <1>2, ToDoType DEF Source

(***************************************************************************)
(* What the process becomes                                                *)
(***************************************************************************)
LEMMA ToFields ==
  ASSUME PublishTypeOK, NEW place \in PublishPlaces, To(place)
  PROVE  /\ publishing' \in Processes /\ publishing'.pc = place
         /\ publishing'.owner = publishing.owner /\ publishing'.options = publishing.options
         /\ publishing'.number = publishing.number /\ publishing'.checked = publishing.checked
         /\ publishing'.read = publishing.read /\ publishing'.page = publishing.page
  BY DEF PublishTypeOK, Processes, To

LEMMA NextFields ==
  ASSUME PublishTypeOK, NextOne
  PROVE  /\ publishing' \in Processes /\ publishing'.pc = "next" /\ publishing'.page = 1
         /\ publishing'.owner = publishing.owner /\ publishing'.options = publishing.options
         /\ publishing'.number = publishing.number + 1
         /\ publishing'.checked = publishing.checked /\ publishing'.read = publishing.read
<1> DEFINE number == publishing.number + 1
<1>1. number \in Nat \ {0} /\ 1 \in Nat \ {0} /\ "next" \in PublishPlaces
  BY DEF PublishTypeOK, Processes, PublishPlaces
<1>2. publishing' = [publishing EXCEPT !.pc = "next", !.number = number, !.page = 1]
  BY DEF NextOne
<1> HIDE DEF number
<1>3. /\ publishing' \in Processes /\ publishing'.pc = "next" /\ publishing'.page = 1
      /\ publishing'.owner = publishing.owner /\ publishing'.options = publishing.options
      /\ publishing'.number = number
      /\ publishing'.checked = publishing.checked /\ publishing'.read = publishing.read
  BY <1>1, <1>2 DEF PublishTypeOK, Processes
<1> QED BY <1>3 DEF number

LEMMA GoneFields ==
  ASSUME Gone
  PROVE  /\ publishing' \in Processes /\ publishing'.pc = "idle" /\ publishing'.number = 1
         /\ publishing'.checked = {} /\ publishing'.read = [f \in Paths |-> Unread]
         /\ reported' = {}
<1>1. (CHOOSE p \in Owners : TRUE) \in Owners /\ (CHOOSE o \in PublishOptions : TRUE) \in PublishOptions
  BY PublishingAssumption
<1> QED BY <1>1 DEF Gone, NotRunning, Processes, PublishPlaces

LEMMA StartFields ==
  ASSUME NEW p \in Owners, NEW options \in PublishOptions, StartPublishing(p, options)
  PROVE  /\ publishing' \in Processes /\ publishing'.pc = "next" /\ publishing'.number = 1
         /\ publishing'.checked = {} /\ publishing'.read = [f \in Paths |-> Unread]
         /\ publishing'.owner = p /\ publishing'.options = options /\ reported' = {}
<1>1. publishing' = [pc |-> "next", owner |-> p, options |-> options, number |-> 1, checked |-> {},
                     read |-> [f \in Paths |-> Unread], page |-> 1]
  BY DEF StartPublishing, NotRunning
<1>2. reported' = {}
  BY DEF StartPublishing
<1>3. "next" \in PublishPlaces /\ 1 \in Nat \ {0} /\ {} \in SUBSET Environments
  BY DEF PublishPlaces
<1>4. [f \in Paths |-> Unread] \in [Paths -> Nat \cup {Unread}]
  OBVIOUS
<1> QED BY <1>1, <1>2, <1>3, <1>4 DEF Processes

\* The source of a process that goes on with it.
LEMMA SameSource ==
  ASSUME publishing'.owner = publishing.owner, publishing'.options = publishing.options
  PROVE  /\ ToDo' = ToDo /\ Dry' = Dry
         /\ publishing'.number = publishing.number => Source' = Source
  BY DEF ToDo, Dry, Source

\* UpdateSource, when there is something to be done for the source.
LEMMA BeginFields ==
  ASSUME PublishTypeOK, UpdateSource, HasKey(Source), Environment(Source) \notin publishing.checked
  PROVE  /\ publishing' \in Processes
         /\ publishing'.pc = IF PublicKey = Unread THEN "store" ELSE "publish"
         /\ publishing'.owner = publishing.owner /\ publishing'.options = publishing.options
         /\ publishing'.number = publishing.number /\ publishing'.read = publishing.read
         /\ publishing'.page = publishing.page
         /\ publishing'.checked = publishing.checked \cup {Environment(Source)}
<1> DEFINE place == IF PublicKey = Unread THEN "store" ELSE "publish"
           checked == publishing.checked \cup {Environment(Source)}
<1>1. place \in PublishPlaces
  BY DEF PublishPlaces
<1>2. checked \in SUBSET Environments
  BY WorkingSource, SourceFields DEF UpdateSource, PublishTypeOK, Processes
<1>3. publishing' = [publishing EXCEPT !.checked = checked, !.pc = place]
  BY DEF UpdateSource
<1> HIDE DEF place, checked
<1>4. /\ publishing' \in Processes /\ publishing'.pc = place /\ publishing'.checked = checked
      /\ publishing'.owner = publishing.owner /\ publishing'.options = publishing.options
      /\ publishing'.number = publishing.number /\ publishing'.read = publishing.read
      /\ publishing'.page = publishing.page
  BY <1>1, <1>2, <1>3 DEF PublishTypeOK, Processes
<1> QED BY <1>4 DEF place, checked

LEMMA ReadFields ==
  ASSUME PublishTypeOK, ReadKey, KeyPath(Source) \in Paths
  PROVE  /\ publishing' \in Processes /\ publishing'.pc = "publish"
         /\ publishing'.owner = publishing.owner /\ publishing'.options = publishing.options
         /\ publishing'.number = publishing.number /\ publishing'.page = publishing.page
         /\ publishing'.checked = publishing.checked
         /\ publishing'.read = [publishing.read EXCEPT ![KeyPath(Source)] =
                                   keyFiles[KeyPath(Source)].public]
<1> DEFINE f == KeyPath(Source)
           read == [publishing.read EXCEPT ![f] = keyFiles[f].public]
<1>1. read \in [Paths -> Nat \cup {Unread}]
  BY DEF PublishTypeOK, Processes
<1>2. publishing' = [publishing EXCEPT !.pc = "publish", !.read = read]
  BY DEF ReadKey
<1>3. "publish" \in PublishPlaces
  BY DEF PublishPlaces
<1> HIDE DEF f, read
<1>4. /\ publishing' \in Processes /\ publishing'.pc = "publish" /\ publishing'.read = read
      /\ publishing'.owner = publishing.owner /\ publishing'.options = publishing.options
      /\ publishing'.number = publishing.number /\ publishing'.page = publishing.page
      /\ publishing'.checked = publishing.checked
  BY <1>1, <1>2, <1>3 DEF PublishTypeOK, Processes
<1> QED BY <1>4 DEF f, read

LEMMA PageFields ==
  ASSUME PublishTypeOK, publishing' = [publishing EXCEPT !.page = @ + 1]
  PROVE  /\ publishing' \in Processes /\ publishing'.pc = publishing.pc
         /\ publishing'.owner = publishing.owner /\ publishing'.options = publishing.options
         /\ publishing'.number = publishing.number /\ publishing'.checked = publishing.checked
         /\ publishing'.read = publishing.read /\ publishing'.page = publishing.page + 1
<1>1. publishing.page + 1 \in Nat \ {0}
  BY DEF PublishTypeOK, Processes
<1> QED BY <1>1 DEF PublishTypeOK, Processes

(***************************************************************************)
(* Types                                                                   *)
(***************************************************************************)
LEMMA DeletedType == Deleted \in KeyEntries /\ Deleted.title = NoTitle /\ Deleted.key = NoKey
  BY DEF Deleted, KeyEntries, NoKey

LEMMA WiderSequence ==
  ASSUME NEW S, NEW T, NEW list \in Seq(S), \A e \in S : e \in T
  PROVE  list \in Seq(T)
<1>1. Len(list) \in Nat /\ \A n \in 1 .. Len(list) : list[n] \in T
  OBVIOUS
<1>2. list = [n \in 1 .. Len(list) |-> list[n]]
  OBVIOUS
<1> QED BY <1>1, <1>2

LEMMA PublishTypeInit == PublishInit => PublishTypeOK /\ HasSource
<1> SUFFICES ASSUME PublishInit PROVE PublishTypeOK /\ HasSource
  OBVIOUS
<1>1. publishing \in Processes /\ publishing.pc = "idle"
  <2>1. (CHOOSE p \in Owners : TRUE) \in Owners
        /\ (CHOOSE o \in PublishOptions : TRUE) \in PublishOptions
    BY PublishingAssumption
  <2> QED BY <2>1 DEF PublishInit, NotRunning, Processes, PublishPlaces
<1>2. keyring \in [ApiHosts -> Seq(KeyEntries)]
  <2>1. ASSUME NEW h \in ApiHosts PROVE KeysOfOthers[h] \in Seq(KeyEntries)
    <3>1. KeysOfOthers[h] \in Seq([title : STRING \ Owners, key : Int \ Nat])
      BY PublishingAssumption
    <3>2. \A e \in [title : STRING \ Owners, key : Int \ Nat] : e \in KeyEntries
      <4> SUFFICES ASSUME NEW e \in [title : STRING \ Owners, key : Int \ Nat]
                   PROVE  e \in [title : {NoTitle} \cup STRING, key : Int]
        BY DEF KeyEntries
      <4>1. e = [title |-> e.title, key |-> e.key] /\ e.title \in {NoTitle} \cup STRING /\ e.key \in Int
        OBVIOUS
      <4> QED BY <4>1
    <3> QED BY <3>1, <3>2, WiderSequence
  <2> QED BY <2>1, PublishingAssumption DEF PublishInit
<1>3. /\ keyFiles \in [Paths -> [private : Nat, public : Nat]] /\ generated \in Nat
      /\ controllerKey \in [Owners -> Nat] /\ renewals \in Nat /\ reported \subseteq ApiHosts
      /\ knownHosts \in [HostNames -> {"none", "old", "current"}]
  BY DEF PublishInit, NoKey
<1> QED BY <1>1, <1>2, <1>3 DEF PublishTypeOK, HasSource, AtSource, At

LEMMA WorkingFields ==
  ASSUME PublishTypeOK, HasSource, AtSource
  PROVE  /\ publishing.number \in 1 .. Len(ToDo) /\ Source \in PublishedSources
         /\ KeyPath(Source) \in Paths /\ Host(Source) \in ApiHosts
         /\ Source.name \in HostNames /\ HasKey(Source)
         /\ publishing.owner \in Owners /\ publishing.owner \in STRING
         /\ PublicKey \in Nat \cup {Unread}
<1>1. publishing.number \in 1 .. Len(ToDo) /\ Source \in PublishedSources /\ HasKey(Source)
  BY WorkingSource DEF HasSource
<1>2. KeyPath(Source) \in Paths /\ Host(Source) \in ApiHosts /\ Source.name \in HostNames
  BY <1>1, SourceFields
<1>3. publishing.owner \in Owners /\ publishing.read \in [Paths -> Nat \cup {Unread}]
  BY DEF PublishTypeOK, Processes
<1> QED BY <1>1, <1>2, <1>3, PublishingAssumption DEF PublicKey

LEMMA ListType ==
  ASSUME NEW list \in Seq(KeyEntries), NEW old
  PROVE  /\ [n \in DOMAIN list |-> IF n \in old THEN Deleted ELSE list[n]] \in Seq(KeyEntries)
         /\ Len([n \in DOMAIN list |-> IF n \in old THEN Deleted ELSE list[n]]) = Len(list)
<1>1. \A n \in 1 .. Len(list) : (IF n \in old THEN Deleted ELSE list[n]) \in KeyEntries
  BY DeletedType
<1> QED BY <1>1

LEMMA PublishTypeStep ==
  ASSUME PublishTypeOK, HasSource, [PublishNext]_publishVars
  PROVE  PublishTypeOK' /\ HasSource'
<1> USE DEF PublishTypeOK
<1>1. CASE UNCHANGED publishVars
  BY <1>1 DEF publishVars, HasSource, AtSource, At, ToDo, Source, PublicKey, HasKey, KeyPath, Host
<1>2. ASSUME NEW p \in Owners, NEW options \in PublishOptions, StartPublishing(p, options)
      PROVE  PublishTypeOK' /\ HasSource'
  BY <1>2, StartFields DEF StartPublishing, remoteVars, HasSource, AtSource, At
<1>g. ASSUME Gone PROVE publishing' \in Processes /\ HasSource' /\ reported' \subseteq ApiHosts
  BY <1>g, GoneFields DEF HasSource, AtSource, At
<1>n. ASSUME NextOne PROVE publishing' \in Processes /\ HasSource'
  BY <1>n, NextFields DEF HasSource, AtSource, At
<1>t. ASSUME NEW place \in PublishPlaces \ {"idle", "next", "done"}, AtSource, To(place),
             PublicKey = Unread <=> place \in {"store", "public", "read"},
             place \in {"list", "create"} => Source.kind = "gitlab" /\ PublicKey # NoKey
      PROVE  publishing' \in Processes /\ HasSource'
  <2>1. Source' = Source /\ ToDo' = ToDo /\ publishing'.number = publishing.number
    BY <1>t, ToFields, SameSource
  <2>2. Len(ToDo') = Len(ToDo) /\ HasKey(Source)' = HasKey(Source) /\ PublicKey' = PublicKey
    BY <1>t, <2>1, ToFields DEF HasKey, KeyPath, Host, PublicKey
  <2> QED BY <1>t, <2>1, <2>2, ToFields DEF HasSource, AtSource, At
<1>3. CASE UpdateSource
  <2>1. CASE ~HasKey(Source) \/ Environment(Source) \in publishing.checked
    BY <1>3, <1>n, <2>1 DEF UpdateSource, remoteVars
  <2>2. CASE HasKey(Source) /\ Environment(Source) \notin publishing.checked
    <3>1. Source' = Source /\ ToDo' = ToDo /\ publishing'.number = publishing.number
      BY <1>3, <2>2, BeginFields, SameSource
    <3>2. Len(ToDo') = Len(ToDo) /\ HasKey(Source)' /\ PublicKey' = PublicKey
      BY <1>3, <2>2, <3>1, BeginFields DEF HasKey, KeyPath, Host, PublicKey
    <3>3. /\ publishing' \in Processes
          /\ publishing'.pc = IF PublicKey = Unread THEN "store" ELSE "publish"
      BY <1>3, <2>2, BeginFields
    <3> QED BY <1>3, <3>1, <3>2, <3>3 DEF UpdateSource, HasSource, AtSource, At, remoteVars
  <2> QED BY <2>1, <2>2
<1>4. CASE EndPublishing
  <2>1. publishing' \in Processes /\ publishing'.pc = "done" /\ ToDo' = ToDo
        /\ publishing'.number = publishing.number
    BY <1>4, ToFields, SameSource DEF EndPublishing, PublishPlaces
  <2> QED BY <1>4, <2>1 DEF EndPublishing, HasSource, AtSource, At, remoteVars
<1>5. CASE StoreKey
  <2>1. AtSource /\ KeyPath(Source) \in Paths /\ PublicKey = Unread
    BY <1>5, WorkingFields DEF StoreKey, AtSource, At, HasSource
  <2>2. generated + 1 \in Nat
    OBVIOUS
  <2>3. publishing' \in Processes /\ HasSource'
    BY <1>5, <1>t, <2>1 DEF StoreKey, PublishPlaces
  <2>4. keyFiles' \in [Paths -> [private : Nat, public : Nat]] /\ generated' \in Nat
    BY <1>5, <2>1, <2>2 DEF StoreKey
  <2> QED BY <1>5, <2>3, <2>4 DEF StoreKey, remoteVars
<1>6. CASE MovePublic
  <2>1. AtSource /\ KeyPath(Source) \in Paths /\ PublicKey = Unread
    BY <1>6, WorkingFields DEF MovePublic, AtSource, At, HasSource
  <2>2. publishing' \in Processes /\ HasSource'
    BY <1>6, <1>t, <2>1 DEF MovePublic, PublishPlaces
  <2>3. keyFiles' \in [Paths -> [private : Nat, public : Nat]]
    BY <1>6, <2>1 DEF MovePublic
  <2> QED BY <1>6, <2>2, <2>3 DEF MovePublic, remoteVars
<1>7. CASE ReadKey
  <2>1. AtSource /\ KeyPath(Source) \in Paths /\ HasKey(Source)
    BY <1>7, WorkingFields DEF ReadKey, AtSource, At
  <2>2. Source' = Source /\ ToDo' = ToDo /\ publishing'.number = publishing.number
    BY <1>7, <2>1, ReadFields, SameSource
  <2>3. HasKey(Source)' /\ publishing'.number <= Len(ToDo')
    BY <2>1, <2>2 DEF HasKey, KeyPath, Host, HasSource
  <2>4. publishing' \in Processes /\ publishing'.pc = "publish"
    BY <1>7, <2>1, ReadFields
  <2>5. PublicKey' = keyFiles[KeyPath(Source)].public
    BY <1>7, <2>1, <2>2, ReadFields DEF PublicKey, KeyPath, Host, Processes
  <2>6. PublicKey' # Unread
    BY <2>1, <2>5 DEF Unread
  <2> QED BY <1>7, <2>3, <2>4, <2>6 DEF ReadKey, HasSource, At, remoteVars
<1>8. CASE NoPublicPart
  <2>1. AtSource /\ Host(Source) \in ApiHosts /\ PublicKey # Unread
    BY <1>8, WorkingFields DEF NoPublicPart, AtSource, At, HasSource
  <2> QED BY <1>8, <1>t, <2>1 DEF NoPublicPart, Report, PublishPlaces, remoteVars
<1>9. CASE CannotPublish \/ CannotScan
  <2>1. AtSource /\ Host(Source) \in ApiHosts
    BY <1>9, WorkingFields DEF CannotPublish, CannotScan, AtSource, At
  <2> QED BY <1>9, <1>n, <2>1 DEF CannotPublish, CannotScan, Report, remoteVars
<1>10. CASE PublishToController
  <2>1. /\ AtSource /\ PublicKey \in Nat \cup {Unread} /\ publishing.owner \in Owners
        /\ PublicKey # Unread
    BY <1>10, WorkingFields DEF PublishToController, AtSource, At, HasSource
  <2> QED BY <1>10, <1>t, <2>1 DEF PublishToController, PublishPlaces
<1>11. CASE OpenKeyring
  <2>1. AtSource /\ PublicKey # Unread
    BY <1>11 DEF OpenKeyring, AtSource, At, HasSource
  <2> QED BY <1>11, <1>t, <2>1 DEF OpenKeyring, PublishPlaces, remoteVars
<1>12. CASE ListPage
  <2> DEFINE list == keyring[Host(Source)]
             old == IF Dry THEN {} ELSE OldOnes(list)
             left == [n \in DOMAIN list |-> IF n \in old THEN Deleted ELSE list[n]]
  <2>1. /\ AtSource /\ Host(Source) \in ApiHosts /\ PublicKey # Unread
        /\ Source.kind = "gitlab" /\ PublicKey # NoKey
    BY <1>12, WorkingFields DEF ListPage, AtSource, At, HasSource
  <2>2. list \in Seq(KeyEntries)
    BY <2>1
  <2>3. keyring' = [keyring EXCEPT ![Host(Source)] = left]
    BY <1>12 DEF ListPage
  <2> HIDE DEF old
  <2>4. left \in Seq(KeyEntries)
    BY <2>2, ListType
  <2> HIDE DEF left
  <2>5. keyring' \in [ApiHosts -> Seq(KeyEntries)]
    BY <2>1, <2>3, <2>4
  <2>6. CASE To("scan") \/ To("create")
    BY <1>12, <1>t, <2>1, <2>5, <2>6 DEF ListPage, PublishPlaces
  <2>7. CASE publishing' = [publishing EXCEPT !.page = @ + 1]
    <3>1. Source' = Source /\ ToDo' = ToDo /\ publishing'.number = publishing.number
      BY <2>7, PageFields, SameSource
    <3>2. Len(ToDo') = Len(ToDo) /\ HasKey(Source)' = HasKey(Source) /\ PublicKey' = PublicKey
      BY <2>7, <3>1, PageFields DEF HasKey, KeyPath, Host, PublicKey
    <3>3. publishing' \in Processes /\ publishing'.pc = publishing.pc
      BY <2>7, PageFields
    <3> QED BY <1>12, <2>5, <3>1, <3>2, <3>3 DEF ListPage, HasSource, AtSource, At
  <2> QED BY <1>12, <2>6, <2>7 DEF ListPage
<1>13. CASE CreateKey
  <2> DEFINE entry == [title |-> publishing.owner, key |-> PublicKey]
  <2>1. /\ AtSource /\ Host(Source) \in ApiHosts /\ PublicKey # Unread
        /\ PublicKey \in Nat \cup {Unread} /\ publishing.owner \in STRING
    BY <1>13, WorkingFields DEF CreateKey, AtSource, At, HasSource
  <2>2. CASE Gone /\ UNCHANGED keyring
    BY <1>13, <1>g, <2>2 DEF CreateKey
  <2>3. CASE To("scan") /\ UNCHANGED reported /\ UNCHANGED keyring
    BY <1>13, <1>t, <2>1, <2>3 DEF CreateKey, PublishPlaces
  <2>4. CASE /\ To("scan") /\ UNCHANGED reported
             /\ keyring' = [keyring EXCEPT ![Host(Source)] = Append(@, entry)]
    <3>1. PublicKey \in Int
      BY <2>1
    <3>2. entry \in KeyEntries
      BY <2>1, <3>1 DEF KeyEntries
    <3>3. Append(keyring[Host(Source)], entry) \in Seq(KeyEntries)
      BY <2>1, <3>2
    <3>4. keyring' \in [ApiHosts -> Seq(KeyEntries)]
      BY <2>1, <2>4, <3>3
    <3> QED BY <1>13, <1>t, <2>1, <2>4, <3>4 DEF CreateKey, PublishPlaces
  <2> QED BY <1>13, <2>2, <2>3, <2>4 DEF CreateKey
<1>14. CASE RemoveOldHostKeys \/ AppendHostKeys
  <2>1. AtSource /\ PublicKey # Unread /\ Source.name \in HostNames
    BY <1>14, WorkingFields DEF RemoveOldHostKeys, AppendHostKeys, AtSource, At, HasSource
  <2>2. CASE RemoveOldHostKeys
    BY <1>t, <2>1, <2>2 DEF RemoveOldHostKeys, PublishPlaces, remoteVars
  <2>3. CASE AppendHostKeys
    BY <1>n, <2>1, <2>3 DEF AppendHostKeys, remoteVars
  <2> QED BY <1>14, <2>2, <2>3
<1>15. CASE BreakOff
  BY <1>15, <1>g DEF BreakOff, remoteVars
<1>16. CASE Meanwhile
  <2>1. renewals' \in Nat /\ publishing' \in Processes /\ HasSource' /\ reported' \subseteq ApiHosts
    BY <1>16, <1>g DEF Meanwhile
  <2>2. keyFiles' \in [Paths -> [private : Nat, public : Nat]]
    <3>1. [private |-> 0, public |-> 0] \in [private : Nat, public : Nat]
      OBVIOUS
    <3>2. CASE UNCHANGED keyFiles
      BY <3>2
    <3>3. CASE \E f \in Paths : keyFiles' = [keyFiles EXCEPT ![f] = [private |-> 0, public |-> 0]]
      BY <3>1, <3>3
    <3> QED BY <1>16, <3>2, <3>3 DEF Meanwhile
  <2>3. knownHosts' \in [HostNames -> {"none", "old", "current"}]
    BY <1>16 DEF Meanwhile
  <2> QED BY <1>16, <2>1, <2>2, <2>3 DEF Meanwhile, remoteVars
<1> QED BY <1>1, <1>2, <1>3, <1>4, <1>5, <1>6, <1>7, <1>8, <1>9, <1>10, <1>11, <1>12, <1>13, <1>14,
           <1>15, <1>16 DEF PublishNext

\* The types of the key publishing hold for any agent, credentials and options.
THEOREM PublishTypeCorrect == PublishSpec => [](PublishTypeOK /\ HasSource)
  BY PublishTypeInit, PublishTypeStep, PTL DEF PublishSpec

(***************************************************************************)
(* The key files and what the process read of them                         *)
(***************************************************************************)
FilesInv ==
    /\ \A f \in Paths :
          /\ keyFiles[f].public # NoKey => keyFiles[f].public = keyFiles[f].private
          /\ keyFiles[f].private <= generated
          /\ publishing.read[f] # Unread => publishing.read[f] = keyFiles[f].public
    /\ At("public") => keyFiles[KeyPath(Source)].private = generated /\ generated > 0

\* The steps between the making of a key and the end of a run.
QuietStep ==
    \/ UpdateSource \/ EndPublishing \/ NoPublicPart \/ CannotPublish \/ PublishToController
    \/ OpenKeyring \/ ListPage \/ (CreateKey /\ To("scan")) \/ RemoveOldHostKeys \/ AppendHostKeys
    \/ CannotScan

LEMMA QuietSteps ==
  ASSUME PublishTypeOK, HasSource, QuietStep
  PROVE  /\ UNCHANGED <<keyFiles, generated, renewals>>
         /\ publishing'.owner = publishing.owner /\ publishing'.options = publishing.options
         /\ publishing'.read = publishing.read /\ publishing'.pc \notin {"idle", "public"}
         /\ ~Stopped
<1>0. {"next", "done", "scan", "create", "list", "append"} \subseteq PublishPlaces
  BY DEF PublishPlaces
<1>1. CASE UpdateSource
  <2>1. CASE ~HasKey(Source) \/ Environment(Source) \in publishing.checked
    BY <1>1, <2>1, NextFields DEF UpdateSource, At, Stopped
  <2>2. CASE HasKey(Source) /\ Environment(Source) \notin publishing.checked
    BY <1>1, <2>2, BeginFields DEF UpdateSource, At, Stopped
  <2> QED BY <2>1, <2>2
<1>2. CASE EndPublishing \/ OpenKeyring
  BY <1>0, <1>2, ToFields DEF EndPublishing, OpenKeyring, At, Stopped
<1>3. CASE NoPublicPart \/ PublishToController \/ RemoveOldHostKeys \/ (CreateKey /\ To("scan"))
  BY <1>0, <1>3, ToFields
  DEF NoPublicPart, PublishToController, RemoveOldHostKeys, CreateKey, At, Stopped
<1>4. CASE CannotPublish \/ AppendHostKeys \/ CannotScan
  BY <1>4, NextFields DEF CannotPublish, AppendHostKeys, CannotScan, At, Stopped
<1>5. CASE ListPage
  <2>1. CASE To("scan") \/ To("create")
    BY <1>0, <1>5, <2>1, ToFields DEF ListPage, At, Stopped
  <2>2. CASE publishing' = [publishing EXCEPT !.page = @ + 1]
    BY <1>5, <2>2, PageFields DEF ListPage, At, Stopped
  <2> QED BY <1>5, <2>1, <2>2 DEF ListPage
<1> QED BY <1>1, <1>2, <1>3, <1>4, <1>5 DEF QuietStep

\* Every step is one of these.
LEMMA StepKinds ==
  ASSUME [PublishNext]_publishVars
  PROVE  \/ UNCHANGED publishVars
         \/ \E p \in Owners, options \in PublishOptions : StartPublishing(p, options)
         \/ QuietStep \/ StoreKey \/ MovePublic \/ ReadKey \/ BreakOff \/ Meanwhile
         \/ CreateKey /\ Gone /\ UNCHANGED keyring
<1>1. CreateKey => (CreateKey /\ To("scan")) \/ (CreateKey /\ Gone /\ UNCHANGED keyring)
  BY DEF CreateKey
<1> QED BY <1>1 DEF PublishNext, QuietStep

LEMMA FilesStep ==
  ASSUME PublishTypeOK, HasSource, FilesInv, [PublishNext]_publishVars
  PROVE  FilesInv'
<1>0. keyFiles \in [Paths -> [private : Nat, public : Nat]] /\ generated \in Nat
      /\ publishing.read \in [Paths -> Nat \cup {Unread}]
  BY DEF PublishTypeOK, Processes
<1>1. CASE UNCHANGED publishVars
  BY <1>1 DEF publishVars, FilesInv, At, KeyPath, Host, Source, ToDo
<1>2. CASE \E p \in Owners, options \in PublishOptions : StartPublishing(p, options)
  BY <1>2, StartFields DEF StartPublishing, FilesInv, At
<1>3. CASE QuietStep
  BY <1>3, QuietSteps DEF FilesInv, At
<1>4. CASE StoreKey
  <2> DEFINE f == KeyPath(Source)
  <2>1. AtSource /\ f \in Paths /\ publishing.read[f] = Unread
    BY <1>4, WorkingFields DEF StoreKey, AtSource, At, HasSource, PublicKey
  <2>2. "public" \in PublishPlaces /\ "read" \in PublishPlaces
    BY DEF PublishPlaces
  <2>3. CASE To("read") /\ UNCHANGED <<keyFiles, generated>>
    <3>1. publishing'.read = publishing.read /\ publishing'.pc = "read"
      BY <2>2, <2>3, ToFields
    <3> QED BY <2>3, <3>1 DEF FilesInv, At
  <2>4. CASE /\ generated' = generated + 1 /\ To("public") /\ keyFiles[f].private = NoKey
             /\ keyFiles' = [keyFiles EXCEPT ![f].private = generated']
    <3>1. publishing'.read = publishing.read /\ KeyPath(Source)' = f
      BY <2>2, <2>4, ToFields, SameSource DEF KeyPath, Host
    <3>2. keyFiles[f].public = NoKey
      BY <2>1, <2>4 DEF FilesInv
    <3>3. generated' \in Nat /\ generated' > generated /\ generated' > 0
      BY <1>0, <2>4
    <3> HIDE DEF f
    <3>4. /\ keyFiles'[f].private = generated' /\ keyFiles'[f].public = keyFiles[f].public
          /\ \A g \in Paths \ {f} : keyFiles'[g] = keyFiles[g]
      BY <1>0, <2>1, <2>4
    <3>5. \A g \in Paths :
             /\ keyFiles'[g].public # NoKey => keyFiles'[g].public = keyFiles'[g].private
             /\ keyFiles'[g].private <= generated'
             /\ publishing'.read[g] # Unread => publishing'.read[g] = keyFiles'[g].public
      <4> SUFFICES ASSUME NEW g \in Paths
                   PROVE  /\ keyFiles'[g].public # NoKey => keyFiles'[g].public = keyFiles'[g].private
                          /\ keyFiles'[g].private <= generated'
                          /\ publishing'.read[g] # Unread => publishing'.read[g] = keyFiles'[g].public
        OBVIOUS
      <4>1. CASE g = f
        BY <2>1, <3>1, <3>2, <3>3, <3>4, <4>1
      <4>2. CASE g # f
        BY <1>0, <3>1, <3>3, <3>4, <4>2 DEF FilesInv
      <4> QED BY <4>1, <4>2
    <3> QED BY <3>1, <3>3, <3>4, <3>5 DEF FilesInv
  <2> QED BY <1>4, <2>3, <2>4 DEF StoreKey
<1>5. CASE MovePublic
  <2> DEFINE f == KeyPath(Source)
  <2>1. AtSource /\ f \in Paths /\ publishing.read[f] = Unread
    BY <1>5, WorkingFields DEF MovePublic, AtSource, At, HasSource, PublicKey
  <2>2. publishing'.read = publishing.read /\ publishing'.pc = "read"
    BY <1>5, ToFields DEF MovePublic, PublishPlaces
  <2>3. keyFiles[f].private = generated /\ UNCHANGED generated
    BY <1>5 DEF MovePublic, FilesInv
  <2>4. keyFiles' = [keyFiles EXCEPT ![f].public = generated]
    BY <1>5 DEF MovePublic
  <2> HIDE DEF f
  <2>5. /\ keyFiles'[f].private = keyFiles[f].private /\ keyFiles'[f].public = generated
        /\ \A g \in Paths \ {f} : keyFiles'[g] = keyFiles[g]
    BY <1>0, <2>1, <2>4
  <2>6. \A g \in Paths :
           /\ keyFiles'[g].public # NoKey => keyFiles'[g].public = keyFiles'[g].private
           /\ keyFiles'[g].private <= generated'
           /\ publishing'.read[g] # Unread => publishing'.read[g] = keyFiles'[g].public
    <3> SUFFICES ASSUME NEW g \in Paths
                 PROVE  /\ keyFiles'[g].public # NoKey => keyFiles'[g].public = keyFiles'[g].private
                        /\ keyFiles'[g].private <= generated'
                        /\ publishing'.read[g] # Unread => publishing'.read[g] = keyFiles'[g].public
      OBVIOUS
    <3>1. CASE g = f
      BY <1>0, <2>1, <2>2, <2>3, <2>5, <3>1
    <3>2. CASE g # f
      BY <2>2, <2>3, <2>5, <3>2 DEF FilesInv
    <3> QED BY <3>1, <3>2
  <2> QED BY <2>2, <2>6 DEF FilesInv, At
<1>6. CASE ReadKey
  <2>1. AtSource /\ KeyPath(Source) \in Paths
    BY <1>6, WorkingFields DEF ReadKey, AtSource, At
  <2>2. /\ publishing'.read = [publishing.read EXCEPT ![KeyPath(Source)] = keyFiles[KeyPath(Source)].public]
        /\ publishing'.pc = "publish"
    BY <1>6, <2>1, ReadFields
  <2> QED BY <1>0, <1>6, <2>1, <2>2 DEF ReadKey, FilesInv, At
<1>7. CASE BreakOff \/ (CreateKey /\ Gone /\ UNCHANGED keyring)
  BY <1>7, GoneFields DEF BreakOff, CreateKey, FilesInv, At
<1>8. CASE Meanwhile
  <2>1. /\ publishing'.read = [f \in Paths |-> Unread] /\ publishing'.pc = "idle"
        /\ UNCHANGED generated
    BY <1>8, GoneFields DEF Meanwhile
  <2>2. CASE UNCHANGED keyFiles
    BY <2>1, <2>2 DEF FilesInv, At
  <2>3. CASE \E f \in Paths : keyFiles' = [keyFiles EXCEPT ![f] = [private |-> 0, public |-> 0]]
    BY <1>0, <2>1, <2>3 DEF FilesInv, At, NoKey
  <2> QED BY <1>8, <2>2, <2>3 DEF Meanwhile
<1> QED BY <1>1, <1>2, <1>3, <1>4, <1>5, <1>6, <1>7, <1>8, StepKinds

(***************************************************************************)
(* The lists of GitLab                                                     *)
(***************************************************************************)
\* Keys of the agent come after each other as they were generated, one for a project,
\* and none is newer than the public key file of the host; those of others have no
\* number of the agent.
KeyringInv ==
    /\ OthersAreKept
    /\ \A h \in ApiHosts : \A n \in DOMAIN keyring[h] :
          /\ keyring[h][n].title \notin Owners => keyring[h][n].key <= 0
          /\ keyring[h][n].title \in Owners =>
                /\ keyring[h][n].key \in 1 .. generated /\ PathOf[h] \in Paths
                /\ keyFiles[PathOf[h]].public # NoKey =>
                      keyring[h][n].key <= keyFiles[PathOf[h]].public
    /\ \A h \in ApiHosts : \A n, m \in DOMAIN keyring[h] :
          n < m /\ keyring[h][n].title \in Owners /\ keyring[h][m].title \in Owners =>
             keyring[h][n].key < keyring[h][m].key /\ keyring[h][n].title # keyring[h][m].title

\* No page that was read has a key of the project left.
PageInv ==
    /\ publishing.pc \in {"next", "store", "public", "read", "publish"} => publishing.page = 1
    /\ At("list") /\ ~Dry =>
          \A n \in DOMAIN keyring[Host(Source)] :
             keyring[Host(Source)][n].title = publishing.owner =>
                PlaceOf(keyring[Host(Source)], n) > (publishing.page - 1) * PageSize
    /\ At("create") /\ ~Dry =>
          \A n \in DOMAIN keyring[Host(Source)] :
             keyring[Host(Source)][n].title # publishing.owner

LEMMA PlaceType ==
  ASSUME NEW list, NEW n \in Nat
  PROVE  /\ PlaceOf(list, n) \in Nat
         /\ \A m \in Nat : m <= n => PlaceOf(list, m) <= PlaceOf(list, n)
         /\ n > 0 /\ list[n] # Deleted => PlaceOf(list, n) > 0
<1> DEFINE S(k) == {m \in 1 .. k : list[m] # Deleted}
<1>1. ASSUME NEW k \in Nat PROVE IsFiniteSet(S(k)) /\ Cardinality(S(k)) \in Nat
  <2>1. IsFiniteSet(1 .. k)
    BY FS_Interval
  <2>2. S(k) \subseteq 1 .. k
    OBVIOUS
  <2>3. IsFiniteSet(S(k))
    BY <2>1, <2>2, FS_Subset
  <2> QED BY <2>3, FS_CardinalityType
<1>2. ASSUME NEW m \in Nat, m <= n PROVE Cardinality(S(m)) <= Cardinality(S(n))
  <2>1. S(m) \subseteq S(n)
    BY <1>2
  <2> HIDE DEF S
  <2> QED BY <1>1, <2>1, FS_Subset
<1>3. ASSUME n > 0, list[n] # Deleted PROVE Cardinality(S(n)) > 0
  <2>1. n \in S(n)
    BY <1>3
  <2> HIDE DEF S
  <2>2. Cardinality(S(n)) # 0
    BY <1>1, <2>1, FS_EmptySet
  <2> QED BY <1>1, <2>2
<1> QED BY <1>1, <1>2, <1>3 DEF PlaceOf

\* What the state of a list page is made of.
LEMMA ListFields ==
  ASSUME PublishTypeOK, HasSource, FilesInv, KeyringInv, publishing.pc \in {"list", "create"}
  PROVE  /\ Host(Source) \in ApiHosts /\ KeyPath(Source) = PathOf[Host(Source)]
         /\ KeyPath(Source) \in Paths /\ Source.kind = "gitlab"
         /\ PublicKey = keyFiles[KeyPath(Source)].public /\ PublicKey \in 1 .. generated
         /\ keyFiles[KeyPath(Source)].private = PublicKey
         /\ keyring[Host(Source)] \in Seq(KeyEntries) /\ Len(keyring[Host(Source)]) \in Nat
         /\ publishing.owner \in Owners /\ publishing.owner # NoTitle
         /\ Deleted.title # publishing.owner
<1>1. AtSource
  BY DEF AtSource
<1>2. /\ Host(Source) \in ApiHosts /\ KeyPath(Source) \in Paths /\ publishing.owner \in Owners
      /\ PublicKey \in Nat \cup {Unread} /\ PublicKey # Unread /\ PublicKey # NoKey
      /\ Source.kind = "gitlab"
  BY <1>1, WorkingFields DEF HasSource
<1>3. /\ keyFiles[KeyPath(Source)] \in [private : Nat, public : Nat] /\ generated \in Nat
      /\ keyring[Host(Source)] \in Seq(KeyEntries)
  BY <1>2 DEF PublishTypeOK
<1>4. PublicKey = keyFiles[KeyPath(Source)].public
  BY <1>2 DEF FilesInv, PublicKey
<1>5. keyFiles[KeyPath(Source)].private = PublicKey /\ PublicKey <= generated
  BY <1>2, <1>3, <1>4 DEF FilesInv
<1>6. publishing.owner # NoTitle
  BY <1>2, PublishingAssumption
<1>7. Deleted.title # publishing.owner
  BY <1>6, DeletedType
<1>8. KeyPath(Source) = PathOf[Host(Source)]
  BY <1>2 DEF KeyPath
<1>9. PublicKey \in 1 .. generated
  BY <1>2, <1>3, <1>5 DEF NoKey
<1> QED BY <1>2, <1>3, <1>4, <1>5, <1>6, <1>7, <1>8, <1>9

\* What one page leaves: it is the list without the keys of the project on the page
\* that come before the public key.
LEMMA PageLeaves ==
  ASSUME PublishTypeOK, HasSource, FilesInv, KeyringInv, PageInv, ListPage, ~Dry
  PROVE  LET list == keyring[Host(Source)]
             left == [n \in DOMAIN list |-> IF n \in OldOnes(list) THEN Deleted ELSE list[n]]
         IN  /\ keyring' = [keyring EXCEPT ![Host(Source)] = left]
             /\ \A n \in OldOnes(list) : /\ n \in DOMAIN list /\ list[n].title = publishing.owner
                                        /\ list[n].key # PublicKey
             /\ IsListed(list, OnPage(list)) =>
                   /\ To("scan")
                   /\ \E n \in DOMAIN left : left[n].key = PublicKey
                   /\ \A n \in DOMAIN left :
                         left[n].title = publishing.owner => left[n].key = PublicKey
             /\ ~IsListed(list, OnPage(list)) /\ LastPage(list) =>
                   /\ To("create")
                   /\ \A n \in DOMAIN left : left[n].title # publishing.owner
             /\ ~IsListed(list, OnPage(list)) /\ ~LastPage(list) =>
                   /\ publishing' = [publishing EXCEPT !.page = @ + 1]
                   /\ \A n \in DOMAIN left :
                         left[n].title = publishing.owner =>
                            PlaceOf(left, n) > publishing.page * PageSize
<1> DEFINE list == keyring[Host(Source)]
           old == OldOnes(list)
           left == [n \in DOMAIN list |-> IF n \in old THEN Deleted ELSE list[n]]
           h == Host(Source)
           first == (publishing.page - 1) * PageSize
           last == publishing.page * PageSize
<1>1. At("list")
  BY DEF ListPage
<1>2. /\ h \in ApiHosts /\ KeyPath(Source) = PathOf[h] /\ publishing.owner \in Owners
      /\ PublicKey = keyFiles[PathOf[h]].public /\ PublicKey \in 1 .. generated
      /\ list \in Seq(KeyEntries) /\ Len(list) \in Nat /\ DOMAIN list = 1 .. Len(list)
      /\ Deleted.title # publishing.owner
  BY <1>1, ListFields DEF At
<1>3. first \in Nat /\ last \in Nat /\ last = first + PageSize /\ generated \in Nat
  <2>1. publishing.page \in Nat \ {0} /\ generated \in Nat /\ PageSize \in Nat
    BY PublishingAssumption DEF PublishTypeOK, Processes
  <2> QED BY <2>1
<1>4. \A n \in DOMAIN list : /\ list[n].key \in Int
                            /\ PlaceOf(list, n) \in Nat /\ PlaceOf(list, n) <= PlaceOf(list, Len(list))
                            /\ \A m \in DOMAIN list : m <= n => PlaceOf(list, m) <= PlaceOf(list, n)
  <2> SUFFICES ASSUME NEW n \in DOMAIN list
               PROVE  /\ list[n].key \in Int
                      /\ PlaceOf(list, n) \in Nat /\ PlaceOf(list, n) <= PlaceOf(list, Len(list))
                      /\ \A m \in DOMAIN list : m <= n => PlaceOf(list, m) <= PlaceOf(list, n)
    OBVIOUS
  <2> HIDE DEF list
  <2>0. list[n] \in KeyEntries
    BY <1>2
  <2>1. list[n].key \in Int
    BY <2>0 DEF KeyEntries
  <2>2. n \in Nat /\ n <= Len(list) /\ DOMAIN list \subseteq Nat
    BY <1>2
  <2>3. PlaceOf(list, n) \in Nat /\ \A m \in Nat : m <= n => PlaceOf(list, m) <= PlaceOf(list, n)
    BY <2>2, PlaceType
  <2>4. PlaceOf(list, n) <= PlaceOf(list, Len(list))
    BY <1>2, <2>2, PlaceType
  <2> QED BY <2>1, <2>2, <2>3, <2>4
<1>5. \A n \in DOMAIN list : list[n].title = publishing.owner =>
         /\ list[n] # Deleted /\ PlaceOf(list, n) > first /\ list[n].key <= PublicKey
  <2>1. \A n \in DOMAIN list : list[n].title = publishing.owner => PlaceOf(list, n) > first
    BY <1>1 DEF PageInv
  <2>2. \A n \in DOMAIN list : list[n].title = publishing.owner => list[n].key <= PublicKey
    BY <1>2, <1>3 DEF KeyringInv, NoKey
  <2> QED BY <1>2, <2>1, <2>2
<1>6. keyring' = [keyring EXCEPT ![h] = left]
  BY DEF ListPage
<1>7. \A n \in OnPage(list) : /\ n \in DOMAIN list /\ PlaceOf(list, n) <= last
                             /\ list[n].key \in Int
  BY <1>3, <1>4 DEF OnPage
<1>8. \A n \in old : /\ n \in OnPage(list) /\ n \in DOMAIN list /\ list[n].title = publishing.owner
                   /\ list[n].key # PublicKey
  BY <1>2, <1>7 DEF OldOnes
<1>9. \A n \in DOMAIN list : list[n].title = publishing.owner /\ PlaceOf(list, n) <= last =>
         n \in OnPage(list)
  <2> SUFFICES ASSUME NEW n \in DOMAIN list, list[n].title = publishing.owner,
                      PlaceOf(list, n) <= last
               PROVE  n \in OnPage(list)
    OBVIOUS
  <2>1. list[n] # Deleted /\ PlaceOf(list, n) > first /\ PlaceOf(list, n) \in Nat
    BY <1>4, <1>5
  <2>2. PlaceOf(list, n) \in first + 1 .. last
    BY <1>3, <2>1
  <2> QED BY <2>1, <2>2 DEF OnPage
<1>10. \A n \in DOMAIN left : left[n].title = publishing.owner =>
          n \in DOMAIN list /\ n \notin old /\ left[n] = list[n]
  BY <1>2
<1>11. ASSUME IsListed(list, OnPage(list))
       PROVE  /\ To("scan")
              /\ \E n \in DOMAIN left : left[n].key = PublicKey
              /\ \A n \in DOMAIN left : left[n].title = publishing.owner => left[n].key = PublicKey
  <2>1. To("scan")
    BY <1>11 DEF ListPage
  <2>2. PICK k \in OnPage(list) : list[k].key = PublicKey
    BY <1>11 DEF IsListed
  <2>3. k \in DOMAIN left /\ left[k] = list[k]
    BY <1>7, <1>8, <2>2
  <2>4. ASSUME NEW n \in DOMAIN left, left[n].title = publishing.owner, left[n].key # PublicKey
        PROVE  FALSE
    <3>1. n \in DOMAIN list /\ n \notin old /\ list[n].title = publishing.owner
          /\ list[n].key # PublicKey
      BY <1>10, <2>4
    <3>2. \E b \in OnPage(list) : b < n /\ list[b].key = PublicKey
      <4>1. CASE n \in OnPage(list)
        BY <1>2, <1>7, <3>1, <4>1 DEF OldOnes
      <4>2. CASE n \notin OnPage(list)
        <5>1. PlaceOf(list, n) > last
          BY <1>3, <1>4, <1>9, <3>1, <4>2
        <5>2. PlaceOf(list, k) <= last /\ k \in DOMAIN list
          BY <1>7
        <5>3. ~(n <= k)
          BY <1>3, <1>4, <3>1, <5>1, <5>2
        <5> QED BY <1>2, <2>2, <3>1, <5>2, <5>3
      <4> QED BY <4>1, <4>2
    <3>3. PICK b \in OnPage(list) : b < n /\ list[b].key = PublicKey
      BY <3>2
    <3>4. b \in DOMAIN list /\ list[b].title \in Owners
      BY <1>2, <1>3, <1>7, <3>3 DEF KeyringInv
    <3>5. list[b].key < list[n].key
      BY <1>2, <3>1, <3>3, <3>4 DEF KeyringInv
    <3> QED BY <1>2, <1>3, <1>4, <1>5, <3>1, <3>3, <3>5
  <2> QED BY <2>1, <2>2, <2>3, <2>4
<1>12. ASSUME ~IsListed(list, OnPage(list))
       PROVE  \A n \in OnPage(list) : list[n].title = publishing.owner => n \in old
  BY <1>12 DEF IsListed, OldOnes
<1>13. ASSUME ~IsListed(list, OnPage(list)), LastPage(list)
       PROVE  /\ To("create")
              /\ \A n \in DOMAIN left : left[n].title # publishing.owner
  <2>1. To("create")
    BY <1>13 DEF ListPage
  <2>2. ASSUME NEW n \in DOMAIN left, left[n].title = publishing.owner PROVE FALSE
    <3>1. n \in DOMAIN list /\ n \notin old /\ list[n].title = publishing.owner
      BY <1>10, <2>2
    <3>2. PlaceOf(list, n) <= last
      BY <1>2, <1>3, <1>4, <1>13, <3>1, PlaceType DEF LastPage
    <3> QED BY <1>9, <1>12, <1>13, <3>1, <3>2
  <2> QED BY <2>1, <2>2
<1>14. ASSUME ~IsListed(list, OnPage(list)), ~LastPage(list)
       PROVE  /\ publishing' = [publishing EXCEPT !.page = @ + 1]
              /\ \A n \in DOMAIN left : left[n].title = publishing.owner => PlaceOf(left, n) > last
  <2>1. publishing' = [publishing EXCEPT !.page = @ + 1]
    BY <1>14 DEF ListPage
  <2>2. ASSUME NEW n \in DOMAIN left, left[n].title = publishing.owner PROVE PlaceOf(left, n) > last
    <3>1. n \in DOMAIN list /\ n \notin old /\ list[n].title = publishing.owner
      BY <1>10, <2>2
    <3>2. PlaceOf(list, n) > last
      BY <1>3, <1>4, <1>9, <1>12, <1>14, <3>1
    <3>3. old = {}
      <4> SUFFICES ASSUME NEW m \in old PROVE FALSE
        OBVIOUS
      <4>1. m \in DOMAIN list /\ list[m].title = publishing.owner /\ m # n
        BY <1>8, <3>1
      <4> QED BY <1>2, <3>1, <4>1 DEF KeyringInv
    <3>4. left = list
      BY <1>2, <3>3
    <3> QED BY <3>2, <3>4
  <2> QED BY <2>1, <2>2
<1> QED BY <1>6, <1>8, <1>11, <1>13, <1>14

\* No key of others has a title or a number of the agent.
LEMMA OthersType ==
  ASSUME NEW h \in ApiHosts, NEW n \in DOMAIN KeysOfOthers[h]
  PROVE  KeysOfOthers[h][n].title \notin Owners /\ KeysOfOthers[h][n].key <= 0
<1> DEFINE S == [title : STRING \ Owners, key : Int \ Nat]
           list == KeysOfOthers[h]
<1>1. list \in Seq(S)
  BY PublishingAssumption
<1>2. \A e \in S : e.title \notin Owners /\ e.key <= 0
  <2> SUFFICES ASSUME NEW e \in S PROVE e.title \notin Owners /\ e.key <= 0
    OBVIOUS
  <2>1. e.title \in STRING \ Owners /\ e.key \in Int \ Nat
    OBVIOUS
  <2> QED BY <2>1
<1> HIDE DEF S
<1>3. list[n] \in S
  BY <1>1
<1> QED BY <1>2, <1>3

LEMMA KeyringInit == PublishInit => KeyringInv /\ PageInv
<1> SUFFICES ASSUME PublishInit PROVE KeyringInv /\ PageInv
  OBVIOUS
<1>1. keyring = KeysOfOthers
  BY DEF PublishInit
<1>2. ASSUME NEW h \in ApiHosts, NEW n \in DOMAIN keyring[h]
      PROVE  keyring[h][n].title \notin Owners /\ keyring[h][n].key <= 0
  BY <1>1, OthersType
<1>3. KeyringInv
  BY <1>1, <1>2 DEF KeyringInv, OthersAreKept
<1>4. publishing.pc = "idle"
  BY DEF PublishInit, NotRunning
<1> QED BY <1>3, <1>4 DEF PageInv, At

\* Keys that are made are newer than those on the lists, and a pair that is removed
\* leaves no public key to be older than.
LEMMA KeyringSame ==
  ASSUME PublishTypeOK, FilesInv, KeyringInv, UNCHANGED keyring,
         generated' \in Nat, generated' >= generated,
         \A f \in Paths : /\ keyFiles'[f].public \in Nat
                         /\ \/ keyFiles'[f].public \in {NoKey, keyFiles[f].public}
                            \/ keyFiles'[f].public >= generated
  PROVE  KeyringInv'
<1>1. generated \in Nat
  BY DEF PublishTypeOK
<1>2. ASSUME NEW h \in ApiHosts, NEW n \in DOMAIN keyring[h], keyring[h][n].title \in Owners
      PROVE  /\ keyring[h][n].key \in 1 .. generated' /\ PathOf[h] \in Paths
             /\ keyFiles'[PathOf[h]].public # NoKey => keyring[h][n].key <= keyFiles'[PathOf[h]].public
  <2>1. /\ keyring[h][n].key \in 1 .. generated /\ PathOf[h] \in Paths
        /\ keyFiles[PathOf[h]].public # NoKey => keyring[h][n].key <= keyFiles[PathOf[h]].public
    BY <1>2 DEF KeyringInv
  <2>2. /\ keyFiles'[PathOf[h]].public \in Nat
        /\ \/ keyFiles'[PathOf[h]].public \in {NoKey, keyFiles[PathOf[h]].public}
           \/ keyFiles'[PathOf[h]].public >= generated
    BY <2>1
  <2> QED BY <1>1, <2>1, <2>2
<1> QED BY <1>2 DEF KeyringInv, OthersAreKept

LEMMA KeyringStep ==
  ASSUME PublishTypeOK, HasSource, FilesInv, KeyringInv, PageInv, [PublishNext]_publishVars
  PROVE  KeyringInv'
<1>0. keyFiles \in [Paths -> [private : Nat, public : Nat]] /\ generated \in Nat
      /\ keyring \in [ApiHosts -> Seq(KeyEntries)]
  BY DEF PublishTypeOK
<1>k. ASSUME UNCHANGED <<keyFiles, generated, keyring>> PROVE KeyringInv'
  BY <1>0, <1>k, KeyringSame
<1>1. CASE \/ UNCHANGED publishVars \/ BreakOff \/ (CreateKey /\ Gone /\ UNCHANGED keyring)
           \/ \E p \in Owners, options \in PublishOptions : StartPublishing(p, options)
  BY <1>k, <1>1 DEF publishVars, BreakOff, CreateKey, StartPublishing, remoteVars
<1>2. CASE UpdateSource \/ EndPublishing \/ NoPublicPart \/ CannotPublish \/ PublishToController
           \/ OpenKeyring \/ RemoveOldHostKeys \/ AppendHostKeys \/ CannotScan \/ ReadKey
  BY <1>k, <1>2 DEF UpdateSource, EndPublishing, NoPublicPart, CannotPublish, PublishToController,
     OpenKeyring, RemoveOldHostKeys, AppendHostKeys, CannotScan, ReadKey, remoteVars
<1>3. CASE StoreKey
  <2>1. KeyPath(Source) \in Paths
    BY <1>3, WorkingFields DEF StoreKey, AtSource, At
  <2>2. generated' \in Nat /\ generated' >= generated /\ UNCHANGED keyring
    BY <1>0, <1>3 DEF StoreKey, remoteVars
  <2>3. \A f \in Paths : keyFiles'[f].public = keyFiles[f].public
    BY <1>0, <1>3, <2>1 DEF StoreKey
  <2> QED BY <1>0, <2>2, <2>3, KeyringSame
<1>4. CASE MovePublic
  <2>1. KeyPath(Source) \in Paths
    BY <1>4, WorkingFields DEF MovePublic, AtSource, At
  <2>2. UNCHANGED <<generated, keyring>>
    BY <1>4 DEF MovePublic, remoteVars
  <2>3. \A f \in Paths : keyFiles'[f].public \in {keyFiles[f].public, generated}
    BY <1>0, <1>4, <2>1 DEF MovePublic
  <2>4. \A f \in Paths : /\ keyFiles'[f].public \in Nat
                        /\ \/ keyFiles'[f].public \in {NoKey, keyFiles[f].public}
                           \/ keyFiles'[f].public >= generated
    BY <1>0, <2>3
  <2> QED BY <1>0, <2>2, <2>4, KeyringSame
<1>5. CASE Meanwhile
  <2>1. UNCHANGED <<generated, keyring>>
    BY <1>5 DEF Meanwhile, remoteVars
  <2>2. \A f \in Paths : keyFiles'[f].public \in {NoKey, keyFiles[f].public}
    <3>1. CASE UNCHANGED keyFiles
      BY <3>1
    <3>2. CASE \E f \in Paths : keyFiles' = [keyFiles EXCEPT ![f] = [private |-> 0, public |-> 0]]
      BY <1>0, <3>2 DEF NoKey
    <3> QED BY <1>5, <3>1, <3>2 DEF Meanwhile
  <2>3. \A f \in Paths : keyFiles'[f].public \in Nat
    BY <1>0, <2>2 DEF NoKey
  <2> QED BY <1>0, <2>1, <2>2, <2>3, KeyringSame
<1>6. CASE ListPage
  <2> DEFINE h == Host(Source)
             list == keyring[h]
             old == OldOnes(list)
             left == [n \in DOMAIN list |-> IF n \in old THEN Deleted ELSE list[n]]
  <2>1. UNCHANGED <<keyFiles, generated>> /\ h \in ApiHosts /\ publishing.owner \in Owners
    BY <1>6, ListFields DEF ListPage, At
  <2>2. CASE Dry
    <3>1. keyring' = [keyring EXCEPT ![h] = [n \in DOMAIN list |-> list[n]]]
      BY <1>6, <2>2 DEF ListPage
    <3>2. [n \in DOMAIN list |-> list[n]] = list
      BY <1>0, <2>1
    <3>3. keyring' = keyring
      BY <1>0, <2>1, <3>1, <3>2
    <3> QED BY <1>k, <2>1, <3>3
  <2>3. CASE ~Dry
    <3>1. /\ keyring' = [keyring EXCEPT ![h] = left]
          /\ \A n \in old : n \in DOMAIN list /\ list[n].title \in Owners
      BY <1>6, <2>1, <2>3, PageLeaves
    <3> HIDE DEF old
    <3>2. \A g \in ApiHosts :
             /\ DOMAIN keyring'[g] = DOMAIN keyring[g]
             /\ \A n \in DOMAIN keyring[g] :
                   \/ keyring'[g][n] = keyring[g][n]
                   \/ keyring[g][n].title \in Owners /\ keyring'[g][n] = Deleted
      BY <1>0, <2>1, <3>1
    <3>3. Deleted.title \notin Owners /\ Deleted.key = 0
      BY DeletedType, PublishingAssumption DEF NoKey
    <3>4. ASSUME NEW g \in ApiHosts, NEW n \in DOMAIN KeysOfOthers[g]
          PROVE  n \in DOMAIN keyring'[g] /\ keyring'[g][n] = KeysOfOthers[g][n]
      <4>1. n \in DOMAIN keyring[g] /\ keyring[g][n] = KeysOfOthers[g][n]
        BY DEF KeyringInv, OthersAreKept
      <4>2. keyring[g][n].title \notin Owners
        BY <4>1, OthersType
      <4> QED BY <3>2, <4>1, <4>2
    <3>5. ASSUME NEW g \in ApiHosts, NEW n \in DOMAIN keyring'[g]
          PROVE  /\ keyring'[g][n].title \notin Owners => keyring'[g][n].key <= 0
                 /\ keyring'[g][n].title \in Owners => keyring'[g][n] = keyring[g][n]
                 /\ n \in DOMAIN keyring[g]
      BY <3>2, <3>3 DEF KeyringInv
    <3>6. OthersAreKept'
      BY <3>4 DEF OthersAreKept
    <3>7. \A g \in ApiHosts : \A n \in DOMAIN keyring'[g] :
             /\ keyring'[g][n].title \notin Owners => keyring'[g][n].key <= 0
             /\ keyring'[g][n].title \in Owners =>
                   /\ keyring'[g][n].key \in 1 .. generated /\ PathOf[g] \in Paths
                   /\ keyFiles[PathOf[g]].public # NoKey =>
                         keyring'[g][n].key <= keyFiles[PathOf[g]].public
      BY <3>5 DEF KeyringInv
    <3>8. \A g \in ApiHosts : \A n, m \in DOMAIN keyring'[g] :
             n < m /\ keyring'[g][n].title \in Owners /\ keyring'[g][m].title \in Owners =>
                keyring'[g][n].key < keyring'[g][m].key /\ keyring'[g][n].title # keyring'[g][m].title
      BY <3>5 DEF KeyringInv
    <3> QED BY <2>1, <3>6, <3>7, <3>8 DEF KeyringInv
  <2> QED BY <2>2, <2>3
<1>7. CASE CreateKey /\ To("scan")
  <2> DEFINE h == Host(Source)
             list == keyring[h]
             entry == [title |-> publishing.owner, key |-> PublicKey]
  <2>1. UNCHANGED <<keyFiles, generated>> /\ publishing.pc = "create"
    BY <1>7 DEF CreateKey, At
  <2>2. /\ h \in ApiHosts /\ publishing.owner \in Owners /\ PathOf[h] \in Paths
        /\ PublicKey \in 1 .. generated /\ PublicKey = keyFiles[PathOf[h]].public
        /\ list \in Seq(KeyEntries) /\ Len(list) \in Nat
    BY <2>1, ListFields
  <2>3. CASE UNCHANGED keyring
    BY <1>k, <2>1, <2>3
  <2>4. CASE ~Dry /\ ~IsListed(list, DOMAIN list) /\ keyring' = [keyring EXCEPT ![h] = Append(@, entry)]
    <3>1. \A g \in ApiHosts : keyring[g] \in Seq(KeyEntries) /\ Len(keyring[g]) \in Nat
      BY <1>0
    <3>2. /\ keyring'[h] = Append(list, entry) /\ \A g \in ApiHosts \ {h} : keyring'[g] = keyring[g]
      BY <1>0, <2>2, <2>4
    <3>3. /\ entry.title = publishing.owner /\ entry.key = PublicKey
      OBVIOUS
    <3>4. \A n \in DOMAIN list : list[n].title # publishing.owner /\ list[n].key # PublicKey
      BY <2>1, <2>4 DEF PageInv, At, IsListed
    <3> HIDE DEF entry
    <3>5. /\ DOMAIN keyring'[h] = 1 .. Len(list) + 1 /\ keyring'[h][Len(list) + 1] = entry
          /\ \A n \in 1 .. Len(list) : n \in DOMAIN list /\ keyring'[h][n] = list[n]
      BY <2>2, <3>2
    <3>6. \A n \in DOMAIN list :
             /\ list[n].title \notin Owners => list[n].key <= 0
             /\ list[n].title \in Owners =>
                   list[n].key \in 1 .. generated /\ list[n].key <= PublicKey
      BY <1>0, <2>2 DEF KeyringInv, NoKey
    <3>7. ASSUME NEW g \in ApiHosts, NEW n \in DOMAIN keyring'[g]
          PROVE  /\ keyring'[g][n].title \notin Owners => keyring'[g][n].key <= 0
                 /\ keyring'[g][n].title \in Owners =>
                       /\ keyring'[g][n].key \in 1 .. generated /\ PathOf[g] \in Paths
                       /\ keyFiles[PathOf[g]].public # NoKey =>
                             keyring'[g][n].key <= keyFiles[PathOf[g]].public
      <4>1. CASE g # h
        BY <3>2, <4>1 DEF KeyringInv
      <4>2. CASE g = h /\ n \in 1 .. Len(list)
        BY <2>2, <3>5, <3>6, <4>2
      <4>3. CASE g = h /\ n = Len(list) + 1
        BY <1>0, <2>2, <3>3, <3>5, <4>3
      <4> QED BY <2>2, <3>5, <4>1, <4>2, <4>3
    <3>8. ASSUME NEW g \in ApiHosts, NEW n \in DOMAIN keyring'[g], NEW m \in DOMAIN keyring'[g],
                 n < m, keyring'[g][n].title \in Owners, keyring'[g][m].title \in Owners
          PROVE  keyring'[g][n].key < keyring'[g][m].key /\ keyring'[g][n].title # keyring'[g][m].title
      <4>1. CASE g # h
        BY <3>2, <3>8, <4>1 DEF KeyringInv
      <4>2. CASE g = h /\ m \in 1 .. Len(list)
        <5>1. n \in 1 .. Len(list)
          BY <2>2, <3>5, <3>8, <4>2
        <5> QED BY <2>2, <3>5, <3>8, <4>2, <5>1 DEF KeyringInv
      <4>3. CASE g = h /\ m = Len(list) + 1
        <5>1. n \in 1 .. Len(list)
          BY <2>2, <3>5, <3>8, <4>3
        <5>2. list[n].title \in Owners /\ n \in DOMAIN list /\ keyring'[g][n] = list[n]
              /\ keyring'[g][m] = entry
          BY <3>5, <3>8, <4>3, <5>1
        <5>3. list[n].key <= PublicKey /\ list[n].key # PublicKey /\ list[n].key \in 1 .. generated
              /\ list[n].title # publishing.owner
          BY <3>4, <3>6, <5>2
        <5> QED BY <1>0, <2>2, <3>3, <5>2, <5>3
      <4> QED BY <2>2, <3>5, <4>1, <4>2, <4>3
    <3>9. OthersAreKept'
      <4> SUFFICES ASSUME NEW g \in ApiHosts, NEW n \in DOMAIN KeysOfOthers[g]
                   PROVE  n \in DOMAIN keyring'[g] /\ keyring'[g][n] = KeysOfOthers[g][n]
        BY DEF OthersAreKept
      <4>1. n \in DOMAIN keyring[g] /\ keyring[g][n] = KeysOfOthers[g][n]
        BY DEF KeyringInv, OthersAreKept
      <4>2. CASE g # h
        BY <3>2, <4>1, <4>2
      <4>3. CASE g = h
        <5>1. n \in 1 .. Len(list)
          BY <2>2, <4>1, <4>3
        <5> QED BY <2>2, <3>5, <4>1, <4>3, <5>1
      <4> QED BY <4>2, <4>3
    <3> QED BY <2>1, <3>7, <3>8, <3>9 DEF KeyringInv
  <2>5. Gone => publishing'.pc = "idle"
    BY GoneFields
  <2>6. publishing'.pc = "scan"
    BY <1>7, ToFields DEF PublishPlaces
  <2> QED BY <1>7, <2>3, <2>4, <2>5, <2>6 DEF CreateKey
<1> QED BY <1>1, <1>2, <1>3, <1>4, <1>5, <1>6, <1>7, StepKinds DEF QuietStep

LEMMA PageStep ==
  ASSUME PublishTypeOK, HasSource, FilesInv, KeyringInv, PageInv, [PublishNext]_publishVars
  PROVE  PageInv'
<1>t. ASSUME NEW place \in {"done", "scan", "append"}, To(place) PROVE PageInv'
  BY <1>t, ToFields DEF PageInv, At, PublishPlaces
<1>g. ASSUME Gone PROVE PageInv'
  BY <1>g, GoneFields DEF PageInv, At
<1>n. ASSUME NextOne PROVE PageInv'
  BY <1>n, NextFields DEF PageInv, At
<1>p. publishing.page \in Nat \ {0} /\ keyring \in [ApiHosts -> Seq(KeyEntries)]
      /\ PageSize \in Nat
  BY PublishingAssumption DEF PublishTypeOK, Processes
<1>1. CASE UNCHANGED publishVars
  BY <1>1 DEF publishVars, PageInv, At, Dry, Host, Source, ToDo, PlaceOf
<1>2. CASE \E p \in Owners, options \in PublishOptions : StartPublishing(p, options)
  <2>1. PICK p \in Owners, options \in PublishOptions : StartPublishing(p, options)
    BY <1>2
  <2>2. publishing'.page = 1
    BY <2>1 DEF StartPublishing, NotRunning
  <2>3. publishing'.pc = "next"
    BY <2>1, StartFields
  <2> QED BY <2>2, <2>3 DEF PageInv, At
<1>3. CASE UpdateSource
  <2>1. CASE ~HasKey(Source) \/ Environment(Source) \in publishing.checked
    BY <1>3, <1>n, <2>1 DEF UpdateSource
  <2>2. CASE HasKey(Source) /\ Environment(Source) \notin publishing.checked
    BY <1>3, <2>2, BeginFields DEF UpdateSource, PageInv, At
  <2> QED BY <2>1, <2>2
<1>4. CASE StoreKey \/ MovePublic
  <2>1. /\ publishing'.pc \in {"read", "public"} /\ publishing'.page = publishing.page
        /\ publishing.pc \in {"store", "public"}
    BY <1>4, ToFields DEF StoreKey, MovePublic, PublishPlaces, At
  <2> QED BY <2>1 DEF PageInv, At
<1>5. CASE ReadKey
  <2>1. KeyPath(Source) \in Paths
    BY <1>5, WorkingFields DEF ReadKey, AtSource, At
  <2> QED BY <1>5, <2>1, ReadFields DEF ReadKey, PageInv, At
<1>6. CASE OpenKeyring
  <2>1. /\ publishing'.pc = "list" /\ publishing'.page = 1 /\ publishing'.owner = publishing.owner
        /\ Dry' = Dry /\ Source' = Source /\ keyring' = keyring
    BY <1>6, ToFields, SameSource DEF OpenKeyring, PublishPlaces, PageInv, At, remoteVars
  <2>2. Host(Source) \in ApiHosts /\ publishing.owner \in Owners
    BY <1>6, WorkingFields DEF OpenKeyring, AtSource, At
  <2>3. ASSUME NEW n \in DOMAIN keyring[Host(Source)],
               keyring[Host(Source)][n].title = publishing.owner
        PROVE  PlaceOf(keyring[Host(Source)], n) > 0
    <3>1. n \in Nat /\ n > 0
      <4>1. keyring[Host(Source)] \in Seq(KeyEntries)
        BY <1>p, <2>2
      <4> QED BY <4>1
    <3>2. keyring[Host(Source)][n] # Deleted
      BY <2>2, <2>3, DeletedType, PublishingAssumption
    <3> QED BY <3>1, <3>2, PlaceType
  <2>4. (1 - 1) * PageSize = 0
    BY <1>p
  <2>5. \A n \in DOMAIN keyring'[Host(Source)'] :
           keyring'[Host(Source)'][n].title = publishing'.owner =>
              PlaceOf(keyring'[Host(Source)'], n) > (publishing'.page - 1) * PageSize
    BY <2>1, <2>3, <2>4 DEF Host
  <2> QED BY <2>1, <2>5 DEF PageInv, At, Host
<1>7. CASE ListPage
  <2> DEFINE h == Host(Source)
             list == keyring[h]
             left == [n \in DOMAIN list |-> IF n \in OldOnes(list) THEN Deleted ELSE list[n]]
  <2>1. h \in ApiHosts /\ publishing.pc = "list"
    BY <1>7, ListFields DEF ListPage, At
  <2>2. CASE Dry
    <3>1. Dry'
      BY <1>7, <2>2, QuietSteps DEF QuietStep, Dry
    <3>2. publishing'.pc \in {"scan", "create", "list"}
      BY <1>7, <2>1, ToFields, PageFields DEF ListPage, PublishPlaces
    <3> QED BY <3>1, <3>2 DEF PageInv, At
  <2>3. CASE ~Dry
    <3> USE <1>7, <2>3
    <3>1. keyring' = [keyring EXCEPT ![h] = left]
      BY PageLeaves
    <3>2. CASE IsListed(list, OnPage(list))
      BY <1>t, <3>2, PageLeaves
    <3>3. CASE ~IsListed(list, OnPage(list)) /\ LastPage(list)
      <4>1. To("create") /\ \A n \in DOMAIN left : left[n].title # publishing.owner
        BY <3>3, PageLeaves
      <4>2. publishing'.pc = "create" /\ publishing'.owner = publishing.owner /\ Source' = Source
        BY <4>1, ToFields, SameSource DEF PublishPlaces
      <4> HIDE DEF left
      <4>3. keyring'[h] = left
        BY <1>p, <2>1, <3>1
      <4> QED BY <4>1, <4>2, <4>3 DEF PageInv, At, Host
    <3>4. CASE ~IsListed(list, OnPage(list)) /\ ~LastPage(list)
      <4>1. /\ publishing' = [publishing EXCEPT !.page = @ + 1]
            /\ \A n \in DOMAIN left : left[n].title = publishing.owner =>
                  PlaceOf(left, n) > publishing.page * PageSize
        BY <3>4, PageLeaves
      <4>2. /\ publishing'.pc = "list" /\ publishing'.owner = publishing.owner /\ Source' = Source
            /\ publishing'.page = publishing.page + 1
        BY <2>1, <4>1, PageFields, SameSource
      <4> HIDE DEF left
      <4>3. keyring'[h] = left
        BY <1>p, <2>1, <3>1
      <4>4. (publishing'.page - 1) * PageSize = publishing.page * PageSize
        BY <1>p, <4>2
      <4>5. Host(Source') = h /\ keyring'[Host(Source')] = left
        BY <4>2, <4>3
      <4>6. \A n \in DOMAIN keyring'[Host(Source')] :
               keyring'[Host(Source')][n].title = publishing'.owner =>
                  PlaceOf(keyring'[Host(Source')], n) > (publishing'.page - 1) * PageSize
        BY <4>1, <4>2, <4>4, <4>5
      <4> QED BY <4>2, <4>6 DEF PageInv, At, Host
    <3> QED BY <3>2, <3>3, <3>4
  <2> QED BY <2>2, <2>3
<1>8. CASE EndPublishing \/ NoPublicPart \/ PublishToController \/ RemoveOldHostKeys
           \/ (CreateKey /\ To("scan"))
  BY <1>8, <1>t DEF EndPublishing, NoPublicPart, PublishToController, RemoveOldHostKeys
<1>9. CASE CannotPublish \/ AppendHostKeys \/ CannotScan
  BY <1>9, <1>n DEF CannotPublish, AppendHostKeys, CannotScan
<1>10. CASE BreakOff \/ Meanwhile \/ (CreateKey /\ Gone /\ UNCHANGED keyring)
  BY <1>10, <1>g DEF BreakOff, Meanwhile
<1> QED BY <1>1, <1>2, <1>3, <1>4, <1>5, <1>6, <1>7, <1>8, <1>9, <1>10, StepKinds DEF QuietStep

(***************************************************************************)
(* What is behind a run                                                    *)
(***************************************************************************)
DoneSources == {ToDo[n] : n \in {n \in DOMAIN ToDo : n < publishing.number}}

\* An environment is checked at a source that the process is at or is behind of.
CheckedInv ==
    \A environment \in publishing.checked :
       \/ \E source \in DoneSources : Environment(source) = environment
       \/ AtSource /\ Environment(Source) = environment

IsKnown(source) ==
    \E other \in DoneSources :
       /\ Environment(other) = Environment(source)
       /\ \/ knownHosts[other.name] = "current"
          \/ At("append") /\ other.name = Source.name

\* What the process is behind of is done or reported; host keys are on their way
\* when those of another source with the same host name are removed.
DoneInv ==
    ~Dry =>
       /\ \A source \in DoneSources : HasKey(source) /\ Host(source) \notin reported =>
             KeyIsPublished(source) /\ publishing.read[KeyPath(source)] # Unread /\ IsKnown(source)
       /\ publishing.pc \in {"scan", "append"} => Host(Source) \in reported \/ KeyIsPublished(Source)

KeysInv == PublishTypeOK /\ HasSource /\ FilesInv /\ KeyringInv /\ PageInv

LEMMA DoneType ==
  ASSUME PublishTypeOK
  PROVE  DoneSources \subseteq PublishedSources
  BY ToDoType DEF DoneSources

LEMMA DoneSame ==
  ASSUME publishing'.owner = publishing.owner, publishing'.options = publishing.options,
         publishing'.number = publishing.number
  PROVE  DoneSources' = DoneSources
  BY SameSource DEF DoneSources

LEMMA DoneMore ==
  ASSUME PublishTypeOK, NextOne, publishing.number <= Len(ToDo)
  PROVE  DoneSources' = DoneSources \cup {Source}
<1>1. publishing'.number = publishing.number + 1 /\ ToDo' = ToDo
  BY NextFields, SameSource
<1>2. publishing.number \in DOMAIN ToDo /\ DOMAIN ToDo \subseteq Nat
  BY WorkingSource, ToDoType
<1>3. \A n \in DOMAIN ToDo : n < publishing.number + 1 <=> n < publishing.number \/ n = publishing.number
  BY <1>2
<1>4. {n \in DOMAIN ToDo : n < publishing.number + 1} =
      {n \in DOMAIN ToDo : n < publishing.number} \cup {publishing.number}
  BY <1>2, <1>3
<1> QED BY <1>1, <1>4 DEF DoneSources, Source

LEMMA NoneIsDone ==
  ASSUME publishing'.number = 1, publishing' \in Processes, PublishTypeOK'
  PROVE  DoneSources' = {}
<1>1. DOMAIN ToDo' \subseteq Nat \ {0}
  <2>1. ToDo' \in Seq(PublishedSources)
    <3>1. publishing'.owner \in Owners /\ publishing'.options \in PublishOptions
      BY DEF Processes
    <3> QED BY <3>1, SourcesToDoType DEF ToDo
  <2> QED BY <2>1
<1> QED BY <1>1 DEF DoneSources

LEMMA CheckedInit == PublishInit => CheckedInv /\ DoneInv
<1> SUFFICES ASSUME PublishInit PROVE CheckedInv /\ DoneInv
  OBVIOUS
<1>1. publishing.checked = {} /\ publishing.number = 1 /\ publishing.pc = "idle"
  BY DEF PublishInit, NotRunning
<1>2. DOMAIN ToDo \subseteq Nat \ {0}
  BY PublishTypeInit, ToDoType
<1>3. DoneSources = {}
  BY <1>1, <1>2 DEF DoneSources
<1> QED BY <1>1, <1>3 DEF CheckedInv, DoneInv

LEMMA CheckedStep ==
  ASSUME KeysInv, PublishTypeOK', CheckedInv, [PublishNext]_publishVars
  PROVE  CheckedInv'
<1> USE DEF KeysInv
<1>t. ASSUME NEW place \in PublishPlaces, To(place), AtSource <=> place \notin {"next", "idle", "done"}
      PROVE  CheckedInv'
  <2>1. /\ publishing'.checked = publishing.checked /\ publishing'.pc = place
        /\ Source' = Source /\ DoneSources' = DoneSources
    BY <1>t, ToFields, SameSource, DoneSame
  <2> QED BY <1>t, <2>1 DEF CheckedInv, AtSource, Environment, KeyPath, Host
<1>n. ASSUME NextOne, publishing.number <= Len(ToDo) PROVE CheckedInv'
  <2>1. publishing'.checked = publishing.checked /\ DoneSources' = DoneSources \cup {Source}
    BY <1>n, NextFields, DoneMore
  <2> QED BY <2>1 DEF CheckedInv
<1>g. ASSUME publishing'.checked = {} PROVE CheckedInv'
  BY <1>g DEF CheckedInv
<1>1. CASE UNCHANGED publishVars
  <2>1. publishing' = publishing
    BY <1>1 DEF publishVars
  <2>2. DoneSources' = DoneSources /\ Source' = Source
    BY <2>1, DoneSame, SameSource
  <2> QED BY <2>1, <2>2 DEF CheckedInv, AtSource, Environment, KeyPath, Host
<1>2. CASE \E p \in Owners, options \in PublishOptions : StartPublishing(p, options)
  BY <1>2, <1>g, StartFields
<1>3. CASE UpdateSource
  <2>1. CASE ~HasKey(Source) \/ Environment(Source) \in publishing.checked
    BY <1>3, <1>n, <2>1 DEF UpdateSource
  <2>2. CASE HasKey(Source) /\ Environment(Source) \notin publishing.checked
    <3>1. /\ publishing'.checked = publishing.checked \cup {Environment(Source)}
          /\ publishing'.pc \in {"store", "publish"} /\ Source' = Source /\ DoneSources' = DoneSources
      BY <1>3, <2>2, BeginFields, SameSource, DoneSame
    <3>2. ~AtSource
      BY <1>3 DEF UpdateSource, At, AtSource
    <3> QED BY <3>1, <3>2 DEF CheckedInv, AtSource, Environment, KeyPath, Host
  <2> QED BY <2>1, <2>2
<1>4. CASE EndPublishing
  BY <1>4, <1>t DEF EndPublishing, At, AtSource, PublishPlaces
<1>5. CASE StoreKey \/ MovePublic
  BY <1>5, <1>t DEF StoreKey, MovePublic, At, AtSource, PublishPlaces
<1>6. CASE ReadKey
  <2>1. AtSource /\ KeyPath(Source) \in Paths
    BY <1>6, WorkingFields DEF ReadKey, AtSource, At
  <2>2. /\ publishing'.checked = publishing.checked /\ publishing'.pc = "publish"
        /\ Source' = Source /\ DoneSources' = DoneSources
    BY <1>6, <2>1, ReadFields, SameSource, DoneSame
  <2> QED BY <2>1, <2>2 DEF CheckedInv, AtSource, Environment, KeyPath, Host
<1>7. CASE NoPublicPart \/ PublishToController \/ RemoveOldHostKeys \/ OpenKeyring
           \/ (CreateKey /\ To("scan"))
  BY <1>7, <1>t DEF NoPublicPart, PublishToController, RemoveOldHostKeys, OpenKeyring, CreateKey, At,
     AtSource, PublishPlaces
<1>8. CASE CannotPublish \/ AppendHostKeys \/ CannotScan
  <2>1. publishing.number <= Len(ToDo)
    BY <1>8 DEF CannotPublish, AppendHostKeys, CannotScan, At, AtSource, HasSource
  <2> QED BY <1>8, <1>n, <2>1 DEF CannotPublish, AppendHostKeys, CannotScan
<1>9. CASE ListPage
  <2>1. CASE To("scan") \/ To("create")
    BY <1>9, <1>t, <2>1 DEF ListPage, At, AtSource, PublishPlaces
  <2>2. CASE publishing' = [publishing EXCEPT !.page = @ + 1]
    <3>1. /\ publishing'.checked = publishing.checked /\ publishing'.pc = publishing.pc
          /\ Source' = Source /\ DoneSources' = DoneSources
      BY <2>2, PageFields, SameSource, DoneSame
    <3> QED BY <3>1 DEF CheckedInv, AtSource, Environment, KeyPath, Host
  <2> QED BY <1>9, <2>1, <2>2 DEF ListPage
<1>10. CASE BreakOff \/ Meanwhile \/ (CreateKey /\ Gone /\ UNCHANGED keyring)
  BY <1>10, <1>g, GoneFields DEF BreakOff, Meanwhile
<1> QED BY <1>1, <1>2, <1>3, <1>4, <1>5, <1>6, <1>7, <1>8, <1>9, <1>10, StepKinds DEF QuietStep

\* A key that is published and was read stays published during the run.
LEMMA StillPublished ==
  ASSUME KeysInv, ~Dry, QuietStep \/ StoreKey \/ MovePublic \/ ReadKey,
         NEW source \in PublishedSources, HasKey(source), KeyIsPublished(source),
         publishing.read[KeyPath(source)] # Unread
  PROVE  KeyIsPublished(source)' /\ publishing'.read[KeyPath(source)] # Unread
<1> DEFINE f == KeyPath(source)
           h == Host(source)
<1> USE DEF KeysInv
<1>0. /\ f \in Paths /\ h \in ApiHosts /\ (source.kind = "controller" => f = MainPath)
      /\ (source.kind = "gitlab" => f = PathOf[h])
  BY SourceFields DEF KeyPath
<1>p. /\ keyFiles \in [Paths -> [private : Nat, public : Nat]] /\ generated \in Nat
      /\ keyring \in [ApiHosts -> Seq(KeyEntries)] /\ controllerKey \in [Owners -> Nat]
      /\ publishing.read \in [Paths -> Nat \cup {Unread}]
  BY DEF PublishTypeOK, Processes
<1>k. keyFiles[f].public # NoKey /\ keyFiles[f].private = keyFiles[f].public
      /\ publishing.read[f] = keyFiles[f].public
  BY <1>0 DEF KeyIsPublished, FilesInv
<1>1. ASSUME keyFiles'[f] = keyFiles[f], UNCHANGED <<keyring, controllerKey>>,
             publishing'.owner = publishing.owner
      PROVE  KeyIsPublished(source)'
  BY <1>1 DEF KeyIsPublished, KeyPath, Host
<1>2. CASE StoreKey \/ MovePublic
  <2>1. KeyPath(Source) \in Paths /\ KeyPath(Source) # f
    BY <1>2, WorkingFields DEF StoreKey, MovePublic, At, AtSource, HasSource, PublicKey
  <2>2. publishing'.read = publishing.read /\ publishing'.owner = publishing.owner
    BY <1>2, ToFields DEF StoreKey, MovePublic, PublishPlaces
  <2>3. keyFiles'[f] = keyFiles[f] /\ UNCHANGED <<keyring, controllerKey>>
    BY <1>0, <1>2, <1>p, <2>1 DEF StoreKey, MovePublic, remoteVars
  <2> QED BY <1>1, <2>2, <2>3
<1>3. CASE ReadKey
  <2>1. KeyPath(Source) \in Paths /\ KeyPath(Source) # f
    BY <1>3, WorkingFields DEF ReadKey, At, AtSource, HasSource, PublicKey
  <2>2. /\ publishing'.read = [publishing.read EXCEPT ![KeyPath(Source)] = keyFiles[KeyPath(Source)].public]
        /\ publishing'.owner = publishing.owner
    BY <1>3, <2>1, ReadFields
  <2>3. publishing'.read[f] = publishing.read[f]
    BY <1>0, <1>p, <2>1, <2>2
  <2>4. UNCHANGED <<keyFiles, keyring, controllerKey>>
    BY <1>3 DEF ReadKey, remoteVars
  <2> QED BY <1>1, <2>2, <2>3, <2>4
<1>q. ASSUME QuietStep
      PROVE  /\ UNCHANGED keyFiles /\ publishing'.read = publishing.read
             /\ publishing'.owner = publishing.owner
  BY <1>q, QuietSteps
<1>4. CASE UpdateSource \/ EndPublishing \/ NoPublicPart \/ CannotPublish \/ OpenKeyring
           \/ RemoveOldHostKeys \/ AppendHostKeys \/ CannotScan
  <2>1. UNCHANGED <<keyring, controllerKey>>
    BY <1>4 DEF UpdateSource, EndPublishing, NoPublicPart, CannotPublish, OpenKeyring,
       RemoveOldHostKeys, AppendHostKeys, CannotScan, remoteVars
  <2> QED BY <1>1, <1>4, <1>q, <2>1 DEF QuietStep
<1>5. CASE PublishToController
  <2>1. /\ UNCHANGED <<keyFiles, keyring>> /\ publishing'.read = publishing.read
        /\ publishing'.owner = publishing.owner
        /\ controllerKey' = [controllerKey EXCEPT ![publishing.owner] = PublicKey]
    BY <1>5, <1>q DEF QuietStep, PublishToController
  <2>2. publishing.owner \in Owners /\ Source.kind = "controller"
    BY <1>5, WorkingFields DEF PublishToController, At, AtSource
  <2>3. source.kind = "controller" => controllerKey'[publishing.owner] = keyFiles[f].public
    BY <1>0, <1>k, <1>p, <2>1, <2>2 DEF PublicKey, KeyPath
  <2> QED BY <2>1, <2>3 DEF KeyIsPublished, KeyPath, Host
<1>6. CASE ListPage
  <2> DEFINE g == Host(Source)
             list == keyring[g]
             left == [n \in DOMAIN list |-> IF n \in OldOnes(list) THEN Deleted ELSE list[n]]
  <2>1. /\ UNCHANGED <<keyFiles, controllerKey>> /\ publishing'.read = publishing.read
        /\ publishing'.owner = publishing.owner
    BY <1>6, <1>q DEF QuietStep, ListPage
  <2>2. /\ keyring' = [keyring EXCEPT ![g] = left]
        /\ \A n \in OldOnes(list) : /\ n \in DOMAIN list /\ list[n].title = publishing.owner
                                   /\ list[n].key # PublicKey
    BY <1>6, PageLeaves
  <2>3. g \in ApiHosts /\ PublicKey = keyFiles[PathOf[g]].public /\ Deleted.title # publishing.owner
    BY <1>6, ListFields DEF ListPage, At
  <2>4. CASE source.kind = "gitlab" /\ h = g
    <3>1. list = keyring[h] /\ PublicKey = keyFiles[f].public
      BY <1>0, <2>3, <2>4
    <3>2. /\ \E n \in DOMAIN list : list[n].key = PublicKey
          /\ \A n \in DOMAIN list : list[n].title = publishing.owner => list[n].key = PublicKey
      BY <2>4, <3>1 DEF KeyIsPublished
    <3>3. /\ \E n \in DOMAIN left : left[n].key = PublicKey
          /\ \A n \in DOMAIN left : left[n].title = publishing.owner => left[n].key = PublicKey
      BY <2>2, <2>3, <3>2
    <3> HIDE DEF left
    <3>4. keyring'[h] = left
      BY <1>p, <2>2, <2>3, <2>4
    <3> QED BY <2>1, <2>4, <3>1, <3>3, <3>4 DEF KeyIsPublished, KeyPath, Host
  <2>5. CASE source.kind # "gitlab"
    BY <2>1, <2>5 DEF KeyIsPublished, KeyPath, Host
  <2>6. CASE h # g
    <3>1. keyring'[h] = keyring[h]
      BY <1>0, <1>p, <2>2, <2>6
    <3> QED BY <2>1, <3>1 DEF KeyIsPublished, KeyPath, Host
  <2> QED BY <2>1, <2>4, <2>5, <2>6
<1>7. CASE CreateKey /\ To("scan")
  <2> DEFINE g == Host(Source)
             entry == [title |-> publishing.owner, key |-> PublicKey]
  <2>1. /\ UNCHANGED <<keyFiles, controllerKey>> /\ publishing'.read = publishing.read
        /\ publishing'.owner = publishing.owner
    BY <1>7, <1>q DEF QuietStep, CreateKey
  <2>2. g \in ApiHosts /\ PublicKey = keyFiles[PathOf[g]].public
    BY <1>7, ListFields DEF CreateKey, At
  <2>3. ~(Gone /\ To("scan"))
    <3>1. Gone => publishing'.pc = "idle"
      BY GoneFields
    <3>2. To("scan") => publishing'.pc = "scan"
      BY ToFields DEF PublishPlaces
    <3> QED BY <3>1, <3>2
  <2>4. /\ ~IsListed(keyring[g], DOMAIN keyring[g])
        /\ keyring' = [keyring EXCEPT ![g] = Append(@, entry)]
    BY <1>7, <2>3 DEF CreateKey
  <2>5. CASE source.kind = "gitlab"
    <3>1. h # g
      BY <1>0, <2>2, <2>4, <2>5 DEF KeyIsPublished, IsListed
    <3>2. keyring'[h] = keyring[h]
      BY <1>0, <1>p, <2>4, <3>1
    <3> QED BY <2>1, <3>2 DEF KeyIsPublished, KeyPath, Host
  <2>6. CASE source.kind # "gitlab"
    BY <2>1, <2>6 DEF KeyIsPublished, KeyPath, Host
  <2> QED BY <2>1, <2>5, <2>6
<1> QED BY <1>2, <1>3, <1>4, <1>5, <1>6, <1>7 DEF QuietStep

\* Behind the process, a step leaves everything done that does not touch host keys.
LEMMA StillDone ==
  ASSUME KeysInv, DoneInv, ~Dry, Dry' = Dry, QuietStep \/ StoreKey \/ MovePublic \/ ReadKey,
         UNCHANGED knownHosts, reported \subseteq reported', DoneSources' = DoneSources,
         ~At("append")
  PROVE  \A source \in DoneSources' : HasKey(source) /\ Host(source) \notin reported' =>
            KeyIsPublished(source)' /\ publishing'.read[KeyPath(source)] # Unread /\ IsKnown(source)'
<1> SUFFICES ASSUME NEW source \in DoneSources, HasKey(source), Host(source) \notin reported'
             PROVE  /\ KeyIsPublished(source)' /\ publishing'.read[KeyPath(source)] # Unread
                    /\ IsKnown(source)'
  OBVIOUS
<1>1. /\ KeyIsPublished(source) /\ publishing.read[KeyPath(source)] # Unread /\ IsKnown(source)
  BY DEF DoneInv
<1>2. source \in PublishedSources
  BY DoneType DEF KeysInv
<1>3. IsKnown(source)'
  BY <1>1 DEF IsKnown, Environment, KeyPath, Host
<1> QED BY <1>1, <1>2, <1>3, StillPublished

LEMMA DoneStep ==
  ASSUME KeysInv, PublishTypeOK', CheckedInv, DoneInv, [PublishNext]_publishVars
  PROVE  DoneInv'
<1> USE DEF KeysInv
<1>g. ASSUME publishing' \in Processes, publishing'.number = 1, publishing'.pc \notin {"scan", "append"}
      PROVE  DoneInv'
  BY <1>g, NoneIsDone DEF DoneInv
<1>1. CASE UNCHANGED publishVars
  <2>1. UNCHANGED <<keyFiles, keyring, controllerKey, knownHosts, publishing, reported>>
    BY <1>1 DEF publishVars
  <2>2. DoneSources' = DoneSources /\ Source' = Source /\ Dry' = Dry
    BY <2>1, DoneSame, SameSource
  <2>3. \A source \in DoneSources : IsKnown(source)' = IsKnown(source)
    BY <2>1, <2>2 DEF IsKnown, Environment, KeyPath, Host, At
  <2>4. \A source \in PublishedSources : KeyIsPublished(source)' = KeyIsPublished(source)
    BY <2>1 DEF KeyIsPublished, KeyPath, Host
  <2>5. KeyIsPublished(Source)' = KeyIsPublished(Source)
    BY <2>1, <2>2 DEF KeyIsPublished, KeyPath, Host
  <2>6. \A source \in DoneSources : KeyIsPublished(source)' = KeyIsPublished(source)
    BY <2>4, DoneType
  <2> QED BY <2>1, <2>2, <2>3, <2>5, <2>6 DEF DoneInv, Host, HasKey, KeyPath
<1>2. CASE \E p \in Owners, options \in PublishOptions : StartPublishing(p, options)
  BY <1>2, <1>g, StartFields
<1>3. CASE BreakOff \/ Meanwhile \/ (CreateKey /\ Gone /\ UNCHANGED keyring)
  BY <1>3, <1>g, GoneFields DEF BreakOff, Meanwhile
<1>s. ASSUME ~Dry, QuietStep \/ StoreKey \/ MovePublic \/ ReadKey, UNCHANGED knownHosts,
             reported \subseteq reported', ~At("append"),
             publishing'.owner = publishing.owner, publishing'.options = publishing.options,
             publishing'.number = publishing.number,
             publishing'.pc = "append" => FALSE,
             publishing'.pc = "scan" => Host(Source) \in reported' \/ KeyIsPublished(Source)'
      PROVE  DoneInv'
  <2>1. DoneSources' = DoneSources /\ Dry' = Dry /\ Source' = Source
    BY <1>s, DoneSame, SameSource
  <2>2. \A source \in DoneSources' : HasKey(source) /\ Host(source) \notin reported' =>
           KeyIsPublished(source)' /\ publishing'.read[KeyPath(source)] # Unread /\ IsKnown(source)'
    BY <1>s, <2>1, StillDone
  <2>3. publishing'.pc \in {"scan", "append"} => Host(Source') \in reported' \/ KeyIsPublished(Source)'
    BY <1>s, <2>1
  <2> QED BY <2>2, <2>3 DEF DoneInv, Host, HasKey, KeyPath
\* A step to the next source, which does not change host keys, after one that is done or reported.
<1>n. ASSUME ~Dry, UpdateSource \/ CannotPublish \/ CannotScan, NextOne,
             publishing.number <= Len(ToDo),
             HasKey(Source) /\ Host(Source) \notin reported' =>
                /\ KeyIsPublished(Source) /\ publishing.read[KeyPath(Source)] # Unread
                /\ IsKnown(Source),
             At("append") => Host(Source) \in reported'
      PROVE  DoneInv'
  <2>1. /\ UNCHANGED <<keyFiles, keyring, controllerKey, knownHosts>> /\ reported \subseteq reported'
    BY <1>n DEF UpdateSource, CannotPublish, CannotScan, Report, remoteVars
  <2>2. DoneSources' = DoneSources \cup {Source} /\ publishing'.pc = "next"
        /\ publishing'.owner = publishing.owner /\ publishing'.read = publishing.read
    BY <1>n, NextFields, DoneMore
  <2>3. ASSUME NEW source \in DoneSources \cup {Source}, HasKey(source), Host(source) \notin reported'
        PROVE  KeyIsPublished(source)' /\ publishing'.read[KeyPath(source)] # Unread /\ IsKnown(source)'
    <3>1. KeyIsPublished(source) /\ publishing.read[KeyPath(source)] # Unread /\ IsKnown(source)
      BY <1>n, <2>1, <2>3 DEF DoneInv
    <3>2. PICK other \in DoneSources :
             /\ Environment(other) = Environment(source)
             /\ \/ knownHosts[other.name] = "current"
                \/ At("append") /\ other.name = Source.name
      BY <3>1 DEF IsKnown
    <3>3. knownHosts[other.name] = "current"
      <4> SUFFICES ASSUME At("append"), other.name = Source.name PROVE FALSE
        BY <3>2
      <4>1. Host(other) = Host(Source) /\ Host(other) = Host(source)
        BY <3>2, SameEnvironment DEF Host
      <4> QED BY <1>n, <2>3, <4>1
    <3>4. IsKnown(source)'
      BY <2>1, <2>2, <3>2, <3>3 DEF IsKnown, Environment, KeyPath, Host
    <3>5. KeyIsPublished(source)'
      BY <2>1, <2>2, <3>1 DEF KeyIsPublished, KeyPath, Host
    <3> QED BY <2>2, <3>1, <3>4, <3>5
  <2> QED BY <2>2, <2>3 DEF DoneInv, Host, HasKey, KeyPath
<1>4. CASE Dry
  <2>1. CASE QuietStep
    BY <1>4, <2>1, QuietSteps DEF DoneInv, Dry
  <2>2. CASE StoreKey \/ MovePublic
    <3>1. publishing'.options = publishing.options
      BY <2>2, ToFields DEF StoreKey, MovePublic, PublishPlaces
    <3> QED BY <1>4, <3>1 DEF DoneInv, Dry
  <2>3. CASE ReadKey
    <3>1. KeyPath(Source) \in Paths
      BY <2>3, WorkingFields DEF ReadKey, AtSource, At
    <3> QED BY <1>4, <2>3, <3>1, ReadFields DEF DoneInv, Dry
  <2> QED BY <1>1, <1>2, <1>3, <2>1, <2>2, <2>3, StepKinds
<1>5. CASE ~Dry /\ UpdateSource
  <2>1. publishing.number <= Len(ToDo) /\ UNCHANGED <<reported, knownHosts>> /\ At("next")
    BY <1>5 DEF UpdateSource
  <2>2. CASE ~HasKey(Source)
    BY <1>5, <1>n, <2>1, <2>2 DEF UpdateSource, At
  <2>3. CASE HasKey(Source) /\ Environment(Source) \in publishing.checked
    <3>1. PICK source \in DoneSources : Environment(source) = Environment(Source)
      BY <2>1, <2>3 DEF CheckedInv, AtSource, At
    <3>2. /\ KeyPath(source) = KeyPath(Source) /\ Host(source) = Host(Source)
          /\ HasKey(source) <=> HasKey(Source)
          /\ KeyIsPublished(source) <=> KeyIsPublished(Source)
      BY <3>1, SameEnvironment
    <3>3. IsKnown(source) <=> IsKnown(Source)
      BY <3>1 DEF IsKnown
    <3>4. Host(Source) \notin reported =>
             /\ KeyIsPublished(Source) /\ publishing.read[KeyPath(Source)] # Unread
             /\ IsKnown(Source)
      BY <1>5, <2>3, <3>2, <3>3 DEF DoneInv
    <3>5. NextOne
      BY <1>5, <2>3 DEF UpdateSource
    <3> QED BY <1>5, <1>n, <2>1, <3>4, <3>5 DEF At
  <2>4. CASE HasKey(Source) /\ Environment(Source) \notin publishing.checked
    <3>1. /\ publishing'.pc \in {"store", "publish"} /\ publishing'.owner = publishing.owner
          /\ publishing'.options = publishing.options /\ publishing'.number = publishing.number
      BY <1>5, <2>4, BeginFields
    <3> QED BY <1>5, <1>s, <2>1, <3>1 DEF QuietStep, At
  <2> QED BY <2>2, <2>3, <2>4
<1>6. CASE ~Dry /\ (StoreKey \/ MovePublic \/ EndPublishing \/ OpenKeyring)
  <2>1. /\ publishing'.pc \in {"read", "public", "done", "list"}
        /\ publishing'.owner = publishing.owner
        /\ publishing'.options = publishing.options /\ publishing'.number = publishing.number
        /\ UNCHANGED <<knownHosts, reported>> /\ ~At("append")
    BY <1>6, ToFields DEF StoreKey, MovePublic, EndPublishing, OpenKeyring, PublishPlaces, At
  <2> QED BY <1>6, <1>s, <2>1 DEF QuietStep
<1>7. CASE ~Dry /\ ReadKey
  <2>1. KeyPath(Source) \in Paths
    BY <1>7, WorkingFields DEF ReadKey, AtSource, At
  <2>2. /\ publishing'.pc = "publish" /\ publishing'.owner = publishing.owner
        /\ publishing'.options = publishing.options /\ publishing'.number = publishing.number
        /\ UNCHANGED <<knownHosts, reported>> /\ ~At("append")
    BY <1>7, <2>1, ReadFields DEF ReadKey, At
  <2> QED BY <1>7, <1>s, <2>2
<1>8. CASE ~Dry /\ NoPublicPart
  <2>1. /\ publishing'.pc = "scan" /\ publishing'.owner = publishing.owner
        /\ publishing'.options = publishing.options /\ publishing'.number = publishing.number
    BY <1>8, ToFields DEF NoPublicPart, PublishPlaces
  <2>2. UNCHANGED knownHosts /\ reported' = reported \cup {Host(Source)} /\ ~At("append")
    BY <1>8 DEF NoPublicPart, Report, At
  <2> QED BY <1>8, <1>s, <2>1, <2>2 DEF QuietStep
<1>9. CASE ~Dry /\ CannotPublish
  <2>1. /\ NextOne /\ Host(Source) \in reported' /\ ~At("append") /\ At("publish")
    BY <1>9 DEF CannotPublish, Report, At
  <2>2. publishing.number <= Len(ToDo)
    BY <2>1 DEF HasSource, AtSource, At
  <2> QED BY <1>9, <1>n, <2>1, <2>2
<1>10. CASE ~Dry /\ CannotScan
  <2>1. /\ NextOne /\ Host(Source) \in reported' /\ publishing.pc \in {"scan", "append"}
    BY <1>10 DEF CannotScan, Report
  <2>2. publishing.number <= Len(ToDo)
    BY <2>1 DEF HasSource, AtSource
  <2> QED BY <1>10, <1>n, <2>1, <2>2
\* The steps that publish the key of the source
<1>f. ASSUME publishing.pc \in {"publish", "list", "create"}
      PROVE  /\ KeyPath(Source) \in Paths /\ Host(Source) \in ApiHosts
             /\ PublicKey # NoKey =>
                   /\ keyFiles[KeyPath(Source)].public = PublicKey
                   /\ keyFiles[KeyPath(Source)].private = PublicKey
  <2>1. KeyPath(Source) \in Paths /\ PublicKey # Unread /\ Host(Source) \in ApiHosts
    BY <1>f, WorkingFields DEF AtSource, HasSource
  <2> QED BY <2>1 DEF FilesInv, PublicKey
<1>11. CASE ~Dry /\ PublishToController
  <2>1. /\ publishing'.pc = "scan" /\ publishing'.owner = publishing.owner
        /\ publishing'.options = publishing.options /\ publishing'.number = publishing.number
        /\ Source' = Source
    BY <1>11, ToFields, SameSource DEF PublishToController, PublishPlaces
  <2>2. /\ UNCHANGED <<knownHosts, reported, keyFiles>> /\ ~At("append") /\ At("publish")
        /\ PublicKey # NoKey /\ Source.kind = "controller"
        /\ controllerKey' = [controllerKey EXCEPT ![publishing.owner] = PublicKey]
    BY <1>11 DEF PublishToController, At
  <2>3. controllerKey'[publishing.owner] = PublicKey
    BY <2>2 DEF PublishTypeOK, Processes
  <2>4. KeyIsPublished(Source)'
    BY <1>f, <2>1, <2>2, <2>3 DEF KeyIsPublished, At, KeyPath, Host
  <2> QED BY <1>11, <1>s, <2>1, <2>2, <2>4 DEF QuietStep
<1>12. CASE ~Dry /\ ListPage
  <2> DEFINE h == Host(Source)
             list == keyring[h]
             left == [n \in DOMAIN list |-> IF n \in OldOnes(list) THEN Deleted ELSE list[n]]
  <2>1. /\ UNCHANGED <<knownHosts, reported, keyFiles>> /\ ~At("append") /\ At("list")
        /\ publishing.pc = "list"
    BY <1>12 DEF ListPage, At
  <2>2. /\ publishing'.pc \in {"scan", "create", "list"} /\ publishing'.owner = publishing.owner
        /\ publishing'.options = publishing.options /\ publishing'.number = publishing.number
        /\ publishing'.pc = "scan" => IsListed(list, OnPage(list))
    BY <1>12, <2>1, ToFields, PageFields DEF ListPage, PublishPlaces
  <2>3. ASSUME IsListed(list, OnPage(list)) PROVE KeyIsPublished(Source)'
    <3>1. /\ keyring' = [keyring EXCEPT ![h] = left]
          /\ \E n \in DOMAIN left : left[n].key = PublicKey
          /\ \A n \in DOMAIN left : left[n].title = publishing.owner => left[n].key = PublicKey
      BY <1>12, <2>3, PageLeaves
    <3> HIDE DEF left
    <3>2. keyring'[h] = left
      BY <1>f, <2>1, <3>1 DEF PublishTypeOK
    <3>3. /\ Source.kind = "gitlab" /\ PublicKey # NoKey /\ Source' = Source
      BY <2>1, <2>2, SameSource DEF HasSource
    <3> QED BY <1>f, <2>1, <2>2, <3>1, <3>2, <3>3 DEF KeyIsPublished, KeyPath, Host
  <2> QED BY <1>12, <1>s, <2>1, <2>2, <2>3 DEF QuietStep
<1>13. CASE ~Dry /\ CreateKey /\ To("scan")
  <2> DEFINE h == Host(Source)
             list == keyring[h]
             entry == [title |-> publishing.owner, key |-> PublicKey]
  <2>1. /\ UNCHANGED <<knownHosts, keyFiles>> /\ ~At("append") /\ At("create")
        /\ publishing.pc = "create"
    BY <1>13 DEF CreateKey, At
  <2>2. /\ publishing'.pc = "scan" /\ publishing'.owner = publishing.owner
        /\ publishing'.options = publishing.options /\ publishing'.number = publishing.number
        /\ Source' = Source
    BY <1>13, ToFields, SameSource DEF PublishPlaces
  <2>3. ~Gone
    BY <2>2, GoneFields
  <2>4. keyring' = [keyring EXCEPT ![h] = Append(@, entry)] /\ UNCHANGED reported
    BY <1>13, <2>3 DEF CreateKey
  <2>5. /\ list \in Seq(KeyEntries) /\ Len(list) \in Nat /\ h \in ApiHosts
    BY <2>1, ListFields
  <2>6. entry.title = publishing.owner /\ entry.key = PublicKey
    OBVIOUS
  <2>7. \A n \in DOMAIN list : list[n].title # publishing.owner
    BY <1>13, <2>1 DEF PageInv
  <2> HIDE DEF entry
  <2>8. keyring'[h] = Append(list, entry)
    BY <2>4, <2>5 DEF PublishTypeOK
  <2>9. /\ DOMAIN keyring'[h] = 1 .. Len(list) + 1 /\ keyring'[h][Len(list) + 1] = entry
        /\ \A n \in 1 .. Len(list) : n \in DOMAIN list /\ keyring'[h][n] = list[n]
    BY <2>5, <2>8
  <2>10. /\ \E n \in DOMAIN keyring'[h] : keyring'[h][n].key = PublicKey
         /\ \A n \in DOMAIN keyring'[h] :
               keyring'[h][n].title = publishing.owner => keyring'[h][n].key = PublicKey
    BY <2>5, <2>6, <2>7, <2>9
  <2>11. Source.kind = "gitlab" /\ PublicKey # NoKey
    BY <2>1 DEF HasSource
  <2>12. KeyIsPublished(Source)'
    BY <1>f, <2>1, <2>2, <2>10, <2>11 DEF KeyIsPublished, KeyPath, Host
  <2> QED BY <1>13, <1>s, <2>1, <2>2, <2>4, <2>12 DEF QuietStep
\* The steps on the host keys
<1>14. CASE ~Dry /\ RemoveOldHostKeys
  <2>1. /\ publishing'.pc = "append" /\ publishing'.owner = publishing.owner
        /\ publishing'.options = publishing.options /\ publishing'.number = publishing.number
        /\ publishing'.read = publishing.read
        /\ Source' = Source /\ Dry' = Dry /\ DoneSources' = DoneSources
    BY <1>14, ToFields, SameSource, DoneSame DEF RemoveOldHostKeys, PublishPlaces
  <2>2. /\ UNCHANGED <<reported, keyFiles, keyring, controllerKey>> /\ At("scan") /\ ~At("append")
        /\ knownHosts' = [knownHosts EXCEPT ![Source.name] = "none"]
    BY <1>14 DEF RemoveOldHostKeys, At, remoteVars
  <2>3. KeyIsPublished(Source)' = KeyIsPublished(Source)
    BY <2>1, <2>2 DEF KeyIsPublished, KeyPath, Host
  <2>4. Host(Source') \in reported' \/ KeyIsPublished(Source)'
    BY <1>14, <2>1, <2>2, <2>3 DEF DoneInv, At
  <2>5. ASSUME NEW source \in DoneSources, HasKey(source), Host(source) \notin reported'
        PROVE  KeyIsPublished(source)' /\ publishing'.read[KeyPath(source)] # Unread /\ IsKnown(source)'
    <3>1. KeyIsPublished(source) /\ publishing.read[KeyPath(source)] # Unread /\ IsKnown(source)
      BY <1>14, <2>2, <2>5 DEF DoneInv
    <3>2. PICK other \in DoneSources : /\ Environment(other) = Environment(source)
                                       /\ knownHosts[other.name] = "current"
      BY <2>2, <3>1 DEF IsKnown
    <3>3. knownHosts'[other.name] = "current" \/ other.name = Source.name
      <4>1. other.name \in HostNames
        BY DoneType DEF PublishedSources
      <4> QED BY <2>2, <3>2, <4>1 DEF PublishTypeOK
    <3>4. IsKnown(source)'
      BY <2>1, <3>2, <3>3 DEF IsKnown, Environment, KeyPath, Host, At
    <3>5. KeyIsPublished(source)'
      BY <2>1, <2>2, <3>1 DEF KeyIsPublished, KeyPath, Host
    <3> QED BY <2>1, <3>1, <3>4, <3>5
  <2> QED BY <2>1, <2>4, <2>5 DEF DoneInv, Host, HasKey, KeyPath
<1>15. CASE ~Dry /\ AppendHostKeys
  <2>1. /\ AtSource /\ NextOne /\ At("append") /\ publishing.pc = "append"
        /\ UNCHANGED <<reported, keyFiles, keyring, controllerKey>>
        /\ knownHosts' = [knownHosts EXCEPT ![Source.name] = "current"]
    BY <1>15 DEF AppendHostKeys, AtSource, At, remoteVars
  <2>2. publishing.number <= Len(ToDo) /\ publishing.read[KeyPath(Source)] # Unread
    BY <2>1 DEF HasSource, PublicKey
  <2>3. DoneSources' = DoneSources \cup {Source} /\ publishing'.pc = "next"
        /\ publishing'.owner = publishing.owner /\ publishing'.read = publishing.read
    BY <2>1, <2>2, NextFields, DoneMore
  <2>4. Source.name \in HostNames /\ Source \in PublishedSources
    BY <2>1, WorkingFields
  <2>5. knownHosts'[Source.name] = "current"
        /\ \A other \in DoneSources : knownHosts[other.name] = "current" => knownHosts'[other.name] = "current"
    <3>1. \A other \in DoneSources : other.name \in HostNames
      BY DoneType DEF PublishedSources
    <3> QED BY <2>1, <2>4, <3>1 DEF PublishTypeOK
  <2>6. ASSUME NEW source \in DoneSources \cup {Source}, HasKey(source), Host(source) \notin reported'
        PROVE  KeyIsPublished(source)' /\ publishing'.read[KeyPath(source)] # Unread /\ IsKnown(source)'
    <3>1. KeyIsPublished(source) /\ publishing.read[KeyPath(source)] # Unread
      BY <1>15, <2>1, <2>2, <2>6 DEF DoneInv
    <3>2. PICK other \in DoneSources \cup {Source} :
             Environment(other) = Environment(source) /\ knownHosts'[other.name] = "current"
      <4>1. CASE source = Source
        BY <2>5, <4>1
      <4>2. CASE source \in DoneSources
        <5>1. IsKnown(source)
          BY <1>15, <2>1, <2>6, <4>2 DEF DoneInv
        <5>2. PICK other \in DoneSources :
                 /\ Environment(other) = Environment(source)
                 /\ knownHosts[other.name] = "current" \/ other.name = Source.name
          BY <5>1 DEF IsKnown
        <5> QED BY <2>5, <5>2
      <4> QED BY <4>1, <4>2
    <3>3. IsKnown(source)'
      BY <2>3, <3>2 DEF IsKnown, Environment, KeyPath, Host
    <3>4. KeyIsPublished(source)'
      BY <2>1, <2>3, <3>1 DEF KeyIsPublished, KeyPath, Host
    <3> QED BY <2>3, <3>1, <3>3, <3>4
  <2> QED BY <2>3, <2>6 DEF DoneInv, Host, HasKey, KeyPath
<1> QED BY <1>1, <1>2, <1>3, <1>4, <1>5, <1>6, <1>7, <1>8, <1>9, <1>10, <1>11, <1>12, <1>13, <1>14,
           <1>15, StepKinds DEF QuietStep

\* All of what the theorem rests on.
PublishInv == KeysInv /\ CheckedInv /\ DoneInv

LEMMA PublishInvInit == PublishInit => PublishInv
<1>1. PublishInit => FilesInv
  BY DEF PublishInit, NotRunning, FilesInv, At, NoKey
<1> QED BY <1>1, PublishTypeInit, KeyringInit, CheckedInit DEF PublishInv, KeysInv

LEMMA PublishInvStep == PublishInv /\ [PublishNext]_publishVars => PublishInv'
<1> SUFFICES ASSUME PublishInv, [PublishNext]_publishVars PROVE PublishInv'
  OBVIOUS
<1>1. PublishTypeOK' /\ HasSource'
  BY PublishTypeStep DEF PublishInv, KeysInv
<1>2. FilesInv'
  BY FilesStep DEF PublishInv, KeysInv
<1>3. KeyringInv' /\ PageInv'
  BY KeyringStep, PageStep DEF PublishInv, KeysInv
<1>4. CheckedInv' /\ DoneInv'
  BY <1>1, CheckedStep, DoneStep DEF PublishInv
<1> QED BY <1>1, <1>2, <1>3, <1>4 DEF PublishInv, KeysInv

LEMMA PublishInvShows == PublishInv => UnreportedMeansPublished
<1> SUFFICES ASSUME PublishInv, At("done"), ~Dry PROVE
        /\ OthersAreKept
        /\ \A n \in DOMAIN ToDo :
              HasKey(ToDo[n]) /\ Host(ToDo[n]) \notin reported =>
                  /\ KeyIsPublished(ToDo[n])
                  /\ \E m \in DOMAIN ToDo :
                        /\ Environment(ToDo[m]) = Environment(ToDo[n])
                        /\ knownHosts[ToDo[m].name] = "current"
  BY DEF UnreportedMeansPublished
<1>1. OthersAreKept
  BY DEF PublishInv, KeysInv, KeyringInv
<1>2. ASSUME NEW n \in DOMAIN ToDo, HasKey(ToDo[n]), Host(ToDo[n]) \notin reported
      PROVE  /\ KeyIsPublished(ToDo[n])
             /\ \E m \in DOMAIN ToDo : /\ Environment(ToDo[m]) = Environment(ToDo[n])
                                       /\ knownHosts[ToDo[m].name] = "current"
  <2>1. ToDo[n] \in DoneSources
    <3>1. publishing.number > Len(ToDo) /\ publishing.number \in Nat
      BY DEF PublishInv, KeysInv, HasSource, PublishTypeOK, Processes
    <3>2. n \in Nat /\ n <= Len(ToDo) /\ Len(ToDo) \in Nat
      BY ToDoType DEF PublishInv, KeysInv
    <3> QED BY <3>1, <3>2 DEF DoneSources
  <2>2. KeyIsPublished(ToDo[n]) /\ IsKnown(ToDo[n])
    BY <1>2, <2>1 DEF PublishInv, DoneInv
  <2> QED BY <2>2 DEF IsKnown, DoneSources, At
<1> QED BY <1>1, <1>2

\* What the log of an ended run of generate_key.py does not complain of is done, for any
\* credentials, sources, pages and keys of others, whatever earlier runs broke off at:
\* the key is published, the host keys are known, nobody else's key is gone.
THEOREM RunsPublish == PublishSpec => []UnreportedMeansPublished
  BY PublishInvInit, PublishInvStep, PublishInvShows, PTL DEF PublishSpec
=============================================================================
