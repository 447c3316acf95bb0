-------------------------- MODULE AgentProvisioning --------------------------
(***************************************************************************)
(* Provisioning of data gathering agents by the controller.                *)
(*                                                                         *)
(* A run of scraper/agent/run.sh POSTs the public key of its agent to      *)
(* controller/auth/agent.py.  That CGI process takes an etcd lock on the   *)
(* project and then drives the controller daemon (SSH key, home directory, *)
(* permissions) and the gatherer daemon (update trackers, salts) one call  *)
(* at a time.  Any call may fail and the CGI process may be killed.  The   *)
(* run then goes through the preflight checks and fetches the trackers     *)
(* over SSH before it starts to collect data.                              *)
(*                                                                         *)
(* The mode of the SSH directory is the commit marker of the protocol: the *)
(* first change opens it to 2770 (no login), and 2700 is set last.         *)
(***************************************************************************)
EXTENDS FiniteSets

CONSTANTS
    Runs,       \* executions of run.sh, each with one CGI request
    Projects,   \* project keys
    Agents,     \* agent keys: one Unix account and container each
    Keys,       \* SSH public keys
    None,       \* no run, no key, no project
    ProjectOf,  \* the project a run is for
    AgentOf,    \* the agent key that a run sends along
    KeyOf,      \* the public key that a run sends
    Skipping,   \* the runs with preflight option --skip
    Serial      \* TRUE: the runs of an agent follow each other completely

ASSUME ProvisioningConstants ==
    /\ ProjectOf \in [Runs -> Projects]
    /\ AgentOf \in [Runs -> Agents]
    /\ KeyOf \in [Runs -> Keys]
    /\ Skipping \subseteq Runs
    /\ Serial \in BOOLEAN
    /\ None \notin Runs \cup Keys \cup Projects

VARIABLES
    pc,        \* where the CGI process of a run is
    lock,      \* etcd key /agent/{project}: the run that holds it
    reply,     \* the answer of the CGI process
    given,     \* the salt row that the CGI process read or inserted
    sameKey,   \* runs whose public key was already stored
    users,     \* agents with a Unix account
    dirs,      \* directories below and including the home of an agent
    trackers,  \* projects with update trackers in the home of an agent
    ssh,       \* mode of the SSH directory of an agent
    key,       \* authorized key stored for an agent
    saltRows,  \* rows of gros.project_salt, named by the run that made them
    cl,        \* where the run.sh process is
    secrets,   \* the salt row in secrets.json of an agent
    fetched,   \* runs that obtained the update trackers of their project
    overtaken  \* history: runs that were reading their trackers while another
               \* request removed them

server == <<pc, lock, reply, given, sameKey>>
files  == <<users, dirs, trackers, ssh, key>>
client == <<cl, secrets, fetched, overtaken>>
vars   == <<server, files, saltRows, client>>

(***************************************************************************)
(* Data                                                                    *)
(***************************************************************************)
P(r) == ProjectOf[r]
A(r) == AgentOf[r]

HomeAreas == {"export", "update"}
Home == <<"home", None>>

\* Directories of the home of an agent that a project needs.
HomeDirs(p) == {Home} \cup (HomeAreas \X {None, p})

SshModes == {"none", "open", "closed"}

\* The places of the CGI process while it has the lock and changes state.
Opening   == {"openSsh"}
KeySteps  == {"compareKey", "removeSsh", "makeSsh", "writeKey"}
HomeSteps == {"replaceHome", "makeHome", "openHome",
              "removeExport", "makeExport", "fillExport",
              "removeUpdate", "makeUpdate", "fillUpdate", "trackers"}
LastSteps == {"salts", "insertSalt", "permissions", "closeKey", "closeSsh"}
Working   == Opening \cup KeySteps \cup HomeSteps \cup LastSteps

ServerPlaces == {"none", "acquire", "release", "done", "dead"} \cup Working
ClientPlaces == {"idle", "posted", "permissions", "lock", "fetch",
                 "reading", "collecting", "stopped"}

Init ==
    /\ pc = [r \in Runs |-> "none"]
    /\ lock = [p \in Projects |-> None]
    /\ reply = [r \in Runs |-> "none"]
    /\ given = [r \in Runs |-> None]
    /\ sameKey = {}
    /\ users = {}
    /\ dirs = [a \in Agents |-> {}]
    /\ trackers = [a \in Agents |-> {}]
    /\ ssh = [a \in Agents |-> "none"]
    /\ key = [a \in Agents |-> None]
    /\ saltRows = [p \in Projects |-> {}]
    /\ cl = [r \in Runs |-> "idle"]
    /\ secrets = [a \in Agents |-> None]
    /\ fetched = {}
    /\ overtaken = {}

GoTo(r, from, to) == pc[r] = from /\ pc' = [pc EXCEPT ![r] = to]

\* A step of the CGI process that only touches the files of the agent.
FileStep(r, from, to) ==
    /\ GoTo(r, from, to)
    /\ UNCHANGED <<lock, reply, given, sameKey, saltRows, client>>

(***************************************************************************)
(* The CGI process: locking                                                *)
(***************************************************************************)
AcquireHeld(r) ==   \* mutant: the result of the acquisition is not checked
    /\ GoTo(r, "acquire", "openSsh")
    /\ lock' = [lock EXCEPT ![P(r)] = r]
    /\ UNCHANGED <<reply, given, sameKey, files, saltRows, client>>

Acquire(r) ==
    /\ GoTo(r, "acquire", "openSsh")
    /\ lock[P(r)] = None
    /\ lock' = [lock EXCEPT ![P(r)] = r]
    /\ UNCHANGED <<reply, given, sameKey, files, saltRows, client>>

\* Somebody has the lock during the whole time-out, or etcd has a problem.
Refuse(r) ==
    /\ GoTo(r, "acquire", "done")
    /\ reply' = [reply EXCEPT ![r] = "error"]
    /\ UNCHANGED <<lock, given, sameKey, files, saltRows, client>>

FailAndRetry(r) ==   \* mutant: start again instead of giving up
    /\ pc[r] \in Working
    /\ pc' = [pc EXCEPT ![r] = "openSsh"]
    /\ UNCHANGED <<lock, reply, given, sameKey, files, saltRows, client>>

\* A call raises: the finally clause still releases the lock.
Fail(r) ==
    /\ pc[r] \in Working
    /\ pc' = [pc EXCEPT ![r] = "release"]
    /\ reply' = [reply EXCEPT ![r] = "error"]
    /\ UNCHANGED <<lock, given, sameKey, files, saltRows, client>>

\* Only the process whose identifier is stored can delete the etcd key.
Release(r) ==
    /\ GoTo(r, "release", "done")
    /\ lock' = [lock EXCEPT ![P(r)] = IF @ = r THEN None ELSE @]
    /\ UNCHANGED <<reply, given, sameKey, files, saltRows, client>>

\* etcd is not available for the release: the lease has to run out.
ReleaseFails(r) ==
    /\ GoTo(r, "release", "done")
    /\ reply' = [reply EXCEPT ![r] = "error"]
    /\ UNCHANGED <<lock, given, sameKey, files, saltRows, client>>

\* The web server kills the process, or the controller host restarts.
Crash(r) ==
    /\ pc[r] \in Working \cup {"acquire", "release"}
    /\ pc' = [pc EXCEPT ![r] = "dead"]
    /\ UNCHANGED <<lock, reply, given, sameKey, files, saltRows, client>>

ExpireNever(p) ==   \* mutant: the lock has no time to live
    FALSE /\ UNCHANGED vars

\* The lease of 3600 seconds runs out.  A living process is assumed to need
\* less than that.
Expire(p) ==
    /\ \E r \in Runs : lock[p] = r /\ pc[r] \in {"dead", "done"}
    /\ lock' = [lock EXCEPT ![p] = None]
    /\ UNCHANGED <<pc, reply, given, sameKey, files, saltRows, client>>

(***************************************************************************)
(* Controller.update_public_key                                            *)
(***************************************************************************)
OpenSshAfterCompare(r) ==   \* mutant: an existing directory keeps its mode
    /\ FileStep(r, "openSsh", IF ssh[A(r)] = "none" THEN "makeSsh"
                                                    ELSE "compareKey")
    /\ UNCHANGED files

OpenSsh(r) ==
    /\ FileStep(r, "openSsh", IF ssh[A(r)] = "none" THEN "makeSsh"
                                                    ELSE "compareKey")
    /\ ssh' = [ssh EXCEPT ![A(r)] = IF @ = "none" THEN @ ELSE "open"]
    /\ UNCHANGED <<users, dirs, trackers, key>>

\* The mode of the key file is changed before it is read: this step raises
\* when there is no key file.
CompareKey(r) ==
    /\ key[A(r)] # None
    /\ LET same == key[A(r)] = KeyOf[r]
       IN  /\ GoTo(r, "compareKey", IF same THEN "openHome" ELSE "removeSsh")
           /\ sameKey' = IF same THEN sameKey \cup {r} ELSE sameKey
    /\ UNCHANGED <<lock, reply, given, files, saltRows, client>>

RemoveSsh(r) ==
    /\ FileStep(r, "removeSsh", "makeSsh")
    /\ ssh' = [ssh EXCEPT ![A(r)] = "none"]
    /\ key' = [key EXCEPT ![A(r)] = None]
    /\ UNCHANGED <<users, dirs, trackers>>

MakeSsh(r) ==
    /\ FileStep(r, "makeSsh", "writeKey")
    /\ ssh[A(r)] = "none"
    /\ ssh' = [ssh EXCEPT ![A(r)] = "open"]
    /\ UNCHANGED <<users, dirs, trackers, key>>

WriteKey(r) ==
    /\ FileStep(r, "writeKey", "replaceHome")
    /\ ssh[A(r)] # "none"
    /\ key' = [key EXCEPT ![A(r)] = KeyOf[r]]
    /\ UNCHANGED <<users, dirs, trackers, ssh>>

(***************************************************************************)
(* Controller.create_agent and clean_home_subdirectories                   *)
(***************************************************************************)
\* The update trackers go, also for a run of the agent that is logged in.
RemoveTrackers(r, from, to) ==
    /\ GoTo(r, from, to)
    /\ trackers' = [trackers EXCEPT ![A(r)] = {}]
    /\ overtaken' = overtaken \cup {s \in Runs : A(s) = A(r) /\ cl[s] = "reading"}
    /\ UNCHANGED <<lock, reply, given, sameKey, saltRows, cl, secrets, fetched>>

RemoveHome(r) ==
    /\ RemoveTrackers(r, "replaceHome", "makeHome")
    /\ Home \in dirs[A(r)]
    /\ dirs' = [dirs EXCEPT ![A(r)] = {}]
    /\ UNCHANGED <<users, ssh, key>>

\* useradd raises when the account exists.
AddUser(r) ==
    /\ FileStep(r, "replaceHome", "makeHome")
    /\ Home \notin dirs[A(r)]
    /\ A(r) \notin users
    /\ users' = users \cup {A(r)}
    /\ UNCHANGED <<dirs, trackers, ssh, key>>

\* chmod raises when there is no home directory.
OpenHome(r) ==
    /\ FileStep(r, "openHome", "removeExport")
    /\ Home \in dirs[A(r)]
    /\ UNCHANGED files

WithoutArea(r, area) ==
    [dirs EXCEPT ![A(r)] = @ \ ({area} \X (Projects \cup {None}))]

RemoveExportArea(r) ==
    /\ FileStep(r, "removeExport", "makeExport")
    /\ dirs' = WithoutArea(r, "export")
    /\ UNCHANGED <<users, trackers, ssh, key>>

RemoveUpdateArea(r) ==
    /\ RemoveTrackers(r, "removeUpdate", "makeUpdate")
    /\ dirs' = WithoutArea(r, "update")
    /\ UNCHANGED <<users, ssh, key>>

\* mkdir raises when the directory exists or its parent does not.
MakeDir(r, parent, dir, from, to) ==
    /\ FileStep(r, from, to)
    /\ parent = None \/ parent \in dirs[A(r)]
    /\ dir \notin dirs[A(r)]
    /\ dirs' = [dirs EXCEPT ![A(r)] = @ \cup {dir}]
    /\ UNCHANGED <<users, trackers, ssh, key>>

CreateAgent(r) == RemoveHome(r) \/ AddUser(r)

MakeHomeDirectories(r) ==
    \/ MakeDir(r, None, Home, "makeHome", "makeExport")
    \/ MakeDir(r, Home, <<"export", None>>, "makeExport", "fillExport")
    \/ MakeDir(r, <<"export", None>>, <<"export", P(r)>>, "fillExport",
               IF r \in sameKey THEN "removeUpdate" ELSE "makeUpdate")
    \/ MakeDir(r, Home, <<"update", None>>, "makeUpdate", "fillUpdate")
    \/ MakeDir(r, <<"update", None>>, <<"update", P(r)>>, "fillUpdate", "trackers")

CleanHomeSubdirectories(r) ==
    OpenHome(r) \/ RemoveExportArea(r) \/ RemoveUpdateArea(r)

(***************************************************************************)
(* Gatherer.get_update_trackers and get_salts, on a database that may      *)
(* raise at any of these steps                                             *)
(***************************************************************************)
GetUpdateTrackers(r) ==
    /\ FileStep(r, "trackers", "salts")
    /\ Home \in dirs[A(r)]
    /\ trackers' = [trackers EXCEPT ![A(r)] = @ \cup {P(r)}]
    /\ dirs' = [dirs EXCEPT ![A(r)] = @ \cup ({"update"} \X {None, P(r)})]
    /\ UNCHANGED <<users, ssh, key>>

GetSaltsAnew(r) ==   \* mutant: make salts without looking for those that exist
    /\ GoTo(r, "salts", "insertSalt")
    /\ UNCHANGED <<lock, reply, given, sameKey, files, saltRows, client>>

GetSalts(r) ==
    /\ \/ /\ GoTo(r, "salts", "permissions")
          /\ \E row \in saltRows[P(r)] : given' = [given EXCEPT ![r] = row]
       \/ /\ GoTo(r, "salts", "insertSalt")
          /\ saltRows[P(r)] = {}
          /\ UNCHANGED given
    /\ UNCHANGED <<lock, reply, sameKey, files, saltRows, client>>

InsertSalt(r) ==
    /\ GoTo(r, "insertSalt", "permissions")
    /\ saltRows' = [saltRows EXCEPT ![P(r)] = @ \cup {r}]
    /\ given' = [given EXCEPT ![r] = r]
    /\ UNCHANGED <<lock, reply, sameKey, files, client>>

(***************************************************************************)
(* Controller.update_permissions: every chown and chmod raises when its    *)
(* path does not exist; closing the SSH directory is the last one.         *)
(***************************************************************************)
OwnDirectories(r) ==
    /\ FileStep(r, "permissions", "closeKey")
    /\ HomeDirs(P(r)) \subseteq dirs[A(r)]
    /\ UNCHANGED files

CloseKey(r) ==
    /\ FileStep(r, "closeKey", "closeSsh")
    /\ key[A(r)] # None
    /\ UNCHANGED files

CloseSshModeOfKey(r) ==   \* mutant: the directory gets the mode of the key
    /\ GoTo(r, "closeSsh", "release")
    /\ ssh' = [ssh EXCEPT ![A(r)] = "2600"]
    /\ reply' = [reply EXCEPT ![r] = "ok"]
    /\ UNCHANGED <<lock, given, sameKey, users, dirs, trackers, key>>
    /\ UNCHANGED <<saltRows, client>>

CloseSsh(r) ==
    /\ GoTo(r, "closeSsh", "release")
    /\ ssh[A(r)] # "none"
    /\ ssh' = [ssh EXCEPT ![A(r)] = "closed"]
    /\ reply' = [reply EXCEPT ![r] = "ok"]
    /\ UNCHANGED <<lock, given, sameKey, users, dirs, trackers, key>>
    /\ UNCHANGED <<saltRows, client>>

UpdatePermissions(r) == OwnDirectories(r) \/ CloseKey(r) \/ CloseSsh(r)

(***************************************************************************)
(* The agent: run.sh                                                       *)
(***************************************************************************)
ClientStep(r, from, to) ==
    /\ cl[r] = from
    /\ cl' = [cl EXCEPT ![r] = to]
    /\ UNCHANGED <<lock, reply, given, sameKey, files, saltRows>>

\* generate_key.py POSTs the public key.
Post(r) ==
    /\ ClientStep(r, "idle", "posted")
    /\ Serial => \A s \in Runs \ {r} : A(s) = A(r) =>
                    /\ cl[s] \in {"idle", "collecting", "stopped"}
                    /\ pc[s] \in {"none", "done", "dead"}
    /\ pc' = [pc EXCEPT ![r] = "acquire"]
    /\ UNCHANGED <<secrets, fetched, overtaken>>

\* Any other answer than 200 is logged, and the run goes on with the secrets
\* that an earlier run stored.
Answered(r) ==
    /\ ClientStep(r, "posted", "permissions")
    /\ pc[r] \in {"done", "dead"}
    /\ secrets' = IF pc[r] = "done" /\ reply[r] = "ok"
                  THEN [secrets EXCEPT ![A(r)] = given[r]]
                  ELSE secrets
    /\ UNCHANGED <<pc, fetched, overtaken>>

\* The connection breaks: the run stops, the CGI process goes on.
GiveUp(r) ==
    /\ ClientStep(r, "posted", "stopped")
    /\ UNCHANGED <<pc, secrets, fetched, overtaken>>

\* Controller.get_permissions_status.
PermissionsOk(p, a) == ssh[a] = "closed" /\ HomeDirs(p) \subseteq dirs[a]

\* preflight.py: the status request looks at the permissions, then at the
\* lock.  The other parts of the status stop a run at any time.
CheckPermissions(r) ==
    /\ ClientStep(r, "permissions", "lock")
    /\ r \in Skipping \/ (PermissionsOk(P(r), A(r)) /\ secrets[A(r)] # None)
    /\ UNCHANGED <<pc, secrets, fetched, overtaken>>

CheckLock(r) ==
    /\ ClientStep(r, "lock", "fetch")
    /\ r \in Skipping \/ lock[P(r)] = None
    /\ UNCHANGED <<pc, secrets, fetched, overtaken>>

StopPreflight(r) ==
    /\ r \notin Skipping
    /\ \E from \in {"permissions", "lock"} : ClientStep(r, from, "stopped")
    /\ UNCHANGED <<pc, secrets, fetched, overtaken>>

\* The SSH server refuses a login while the SSH directory is open.
CanLogIn(r) == ssh[A(r)] = "closed" /\ key[A(r)] = KeyOf[r]

\* retrieve_update_trackers.py: scp logs in, and reads the files after that.
\* What another request does to the agent in between does not end the login.
LogInAnyMode(r) ==   \* mutant: logins do not depend on the mode
    /\ ClientStep(r, "fetch", "reading")
    /\ key[A(r)] = KeyOf[r]
    /\ UNCHANGED <<pc, secrets, fetched, overtaken>>

LogIn(r) ==
    /\ ClientStep(r, "fetch", "reading")
    /\ CanLogIn(r)
    /\ UNCHANGED <<pc, secrets, fetched, overtaken>>

\* Files that are not there are not an error.  A removal while scp reads one
\* file after the other counts as one before it.
ReadTrackers(r) ==
    /\ ClientStep(r, "reading", "collecting")
    /\ fetched' = IF P(r) \in trackers[A(r)] THEN fetched \cup {r} ELSE fetched
    /\ UNCHANGED <<pc, secrets, overtaken>>

\* No login, or files that the user of the agent may not read: an error.
FetchRefused(r) ==
    /\ \E from \in {"fetch", "reading"} : ClientStep(r, from, "stopped")
    /\ UNCHANGED <<pc, secrets, fetched, overtaken>>

(***************************************************************************)
(* Specification                                                           *)
(***************************************************************************)
Provision(r) ==
    \/ Acquire(r) \/ Refuse(r) \/ Fail(r) \/ Release(r)
    \/ ReleaseFails(r)
    \/ OpenSsh(r) \/ CompareKey(r) \/ RemoveSsh(r) \/ MakeSsh(r) \/ WriteKey(r)
    \/ CreateAgent(r) \/ CleanHomeSubdirectories(r) \/ MakeHomeDirectories(r)
    \/ GetUpdateTrackers(r) \/ GetSalts(r) \/ InsertSalt(r)
    \/ UpdatePermissions(r)

Run(r) ==
    \/ Post(r) \/ Answered(r) \/ GiveUp(r)
    \/ CheckPermissions(r) \/ CheckLock(r) \/ StopPreflight(r)
    \/ LogIn(r) \/ ReadTrackers(r) \/ FetchRefused(r)

Next ==
    \/ \E r \in Runs : Provision(r) \/ Crash(r) \/ Run(r)
    \/ \E p \in Projects : Expire(p)

Spec == Init /\ [][Next]_vars

\* A CGI process that is not killed goes on, a lease runs out.
FairSpec ==
    /\ Spec
    /\ \A r \in Runs : WF_vars(Provision(r))
    /\ \A r \in Runs : WF_vars(Answered(r))
    /\ \A p \in Projects : WF_vars(Expire(p))

(***************************************************************************)
(* Properties                                                              *)
(***************************************************************************)
\* The variables stay in their domains.
TypeOK ==
    /\ pc \in [Runs -> ServerPlaces]
    /\ lock \in [Projects -> Runs \cup {None}]
    /\ reply \in [Runs -> {"none", "ok", "error"}]
    /\ given \in [Runs -> Runs \cup {None}]
    /\ sameKey \subseteq Runs
    /\ users \subseteq Agents
    /\ dirs \in [Agents -> SUBSET ({Home} \cup (HomeAreas \X (Projects \cup {None})))]
    /\ trackers \in [Agents -> SUBSET Projects]
    /\ ssh \in [Agents -> SshModes]
    /\ key \in [Agents -> Keys \cup {None}]
    /\ saltRows \in [Projects -> SUBSET Runs]
    /\ cl \in [Runs -> ClientPlaces]
    /\ secrets \in [Agents -> Runs \cup {None}]
    /\ fetched \subseteq Runs
    /\ overtaken \subseteq Runs

\* What a login finds: everything a run of some project of the agent needs.
Complete(r) ==
    /\ key[A(r)] = KeyOf[r]
    /\ P(r) \in trackers[A(r)]
    /\ HomeDirs(P(r)) \subseteq dirs[A(r)]

\* An agent can log in only when all of its data is there: whatever fails, and
\* wherever, the mode of the SSH directory never says "done" too early
\* (controller_daemon.py: CREATE_PERMISSIONS).
LoginComplete ==
    \A a \in Agents : ssh[a] = "closed" => \E r \in Runs : A(r) = a /\ Complete(r)

\* get_salts reads and inserts in two steps; still, all requests of a project
\* are answered with the same salts, or its encrypted names do not match.
OneSaltPerProject ==
    \A r, s \in Runs :
        P(r) = P(s) /\ given[r] # None /\ given[s] # None => given[r] = given[s]

\* A run does not start to collect without the update trackers of its project,
\* although missing tracker files are silently ignored (update.py:209).  The
\* exception is a run that was logged in and still reading while another request
\* of its agent removed them, which cannot be if the runs of an agent follow each
\* other.
CollectsWithTrackers ==
    /\ \A r \in Runs : cl[r] = "collecting" => r \in fetched \cup overtaken
    /\ Serial => overtaken = {}

\* Every request is answered, or its process was killed.
EveryRequestEnds ==
    \A r \in Runs : pc[r] = "acquire" ~> pc[r] \in {"done", "dead"}

\* No failure or crash keeps a project locked for good.
LockIsFreed ==
    \A r \in Runs : \A p \in Projects : lock[p] = r ~> lock[p] # r

-----------------------------------------------------------------------------
(***************************************************************************)
(* The inductive invariant behind LoginComplete, OneSaltPerProject and     *)
(* CollectsWithTrackers, when no two projects share an agent.              *)
(***************************************************************************)
OneProjectPerAgent == \A r, s \in Runs : A(r) = A(s) => P(r) = P(s)

HoldsLock == \A r \in Runs : pc[r] \in Working \cup {"release"} => lock[P(r)] = r
SshIsOpen == \A r \in Runs : pc[r] \in Working \ Opening => ssh[A(r)] # "closed"
KeyIsStored ==
    \A r \in Runs : pc[r] \in HomeSteps \cup LastSteps => key[A(r)] = KeyOf[r]
TrackersAreThere ==
    \A r \in Runs : pc[r] \in LastSteps => P(r) \in trackers[A(r)]
DirectoriesAreThere ==
    \A r \in Runs : pc[r] \in {"closeKey", "closeSsh"} =>
                       HomeDirs(P(r)) \subseteq dirs[A(r)]
NoSaltYet == \A r \in Runs : pc[r] = "insertSalt" => saltRows[P(r)] = {}
OneRow == \A p \in Projects : \A x, y \in saltRows[p] : x = y
\* A login is only possible when the trackers are there.
ReadingIsComplete ==
    \A r \in Runs : cl[r] = "reading" /\ r \notin overtaken => P(r) \in trackers[A(r)]
\* Runs that follow each other: during a request, no other run of the agent is
\* between its own request and the collection.
RequestIsAlone ==
    Serial => \A r, s \in Runs :
        A(r) = A(s) /\ pc[r] \in Working \cup {"acquire", "release"} =>
            \/ cl[s] \in {"idle", "collecting", "stopped"}
            \/ s = r /\ cl[s] = "posted"
GivenIsStored == \A r \in Runs : given[r] # None => given[r] \in saltRows[P(r)]

ServerInv ==
    /\ TypeOK
    /\ HoldsLock
    /\ SshIsOpen /\ KeyIsStored /\ TrackersAreThere /\ DirectoriesAreThere
    /\ NoSaltYet /\ OneRow /\ GivenIsStored
    /\ LoginComplete

IInv ==
    /\ ServerInv
    /\ ReadingIsComplete /\ RequestIsAlone
    /\ CollectsWithTrackers

-----------------------------------------------------------------------------
\* create_agent should "create a user for the agent [...] if it did not yet
\* exist" (controller_daemon.py:157): it does not add an account twice.
AddsMissingUserOnly ==
    \A r \in Runs : pc[r] = "replaceHome" /\ Home \notin dirs[A(r)] => A(r) \notin users

=============================================================================
