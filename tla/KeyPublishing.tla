---------------------------- MODULE KeyPublishing ----------------------------
(***************************************************************************)
(* generate_key.py: an agent generates its key pairs where they are not    *)
(* there yet, publishes the public keys to the controller and to GitLab,   *)
(* and scans the SSH keys of the hosts.                                    *)
(*                                                                         *)
(* Keys are numbers, 0 is no key.  A source is a record of its kind, the   *)
(* host name in its plain URL and what tells its environments on one host  *)
(* apart.  The file of a key pair is that of the host.                     *)
(***************************************************************************)
EXTENDS Integers, Sequences, FiniteSets

CONSTANTS
    Owners,         \* projects of the agent
    ApiHosts,       \* hosts of APIs, the controller among them
    HostOf,         \* host name -> its host, after a change of it by the credentials
    PathOf,         \* host -> what "env" of its credentials leads to, or NoPath
    MainPath,       \* --path
    WithToken,      \* GitLab hosts with a token in the credentials
    Controllers,    \* the controller as a source, or <<>> with --no-ssh
    DomainSections, \* sections of the credentials: their name and the classes whose option
                    \* the section has
    OwnSources,     \* project -> its GitLab source and its definitions sources
    PublishOptions, \* records of --gitlab as a sequence of sources, --no-gitlab,
                    \* --source, --credentials, --dry-run
    KeysOfOthers,   \* host -> keys at GitLab that are not of the agent, the oldest first
    PageSize,       \* keys in one answer of GitLab
    MaxRenewals     \* bound: times that a key pair is removed or a host has new keys

NoPath == "-"
NoKey == 0
Unread == -1
NoTitle == "-"
Deleted == [title |-> NoTitle, key |-> NoKey]   \* what a deleted key leaves: its number
Paths == ({PathOf[h] : h \in ApiHosts} \cup {MainPath}) \ {NoPath}
HostNames == DOMAIN HostOf
WholeHost == "host"                   \* no namespace, owner or collection

PublishedSources ==
    [kind : {"controller", "gitlab", "github", "tfs", "other", "none"}, name : HostNames,
     env : {WholeHost} \cup STRING]
Sections == [name : HostNames, has : SUBSET {"gitlab", "github", "tfs"}]
OptionRecords ==
    [gitlab : Seq(PublishedSources), noGitlab : BOOLEAN, source : BOOLEAN, credentials : BOOLEAN,
     dry : BOOLEAN]

ASSUME PublishingAssumption ==
    /\ Owners # {} /\ Owners \subseteq STRING \ {NoTitle}
    /\ HostOf \in [HostNames -> ApiHosts] /\ PathOf \in [ApiHosts -> STRING]
    /\ MainPath \in STRING \ {NoPath} /\ WithToken \subseteq ApiHosts
    /\ Controllers \in Seq(PublishedSources)
    /\ \A n \in DOMAIN Controllers : Controllers[n].kind = "controller"
    /\ DomainSections \in Seq(Sections)
    /\ OwnSources \in [Owners -> Seq(PublishedSources)]
    /\ PublishOptions # {} /\ PublishOptions \subseteq OptionRecords
    \* Keys of others are not those that the agent makes, nor do they have its titles.
    /\ KeysOfOthers \in [ApiHosts -> Seq([title : STRING \ Owners, key : Int \ Nat])]
    /\ PageSize \in Nat \ {0} /\ MaxRenewals \in Nat

VARIABLES
    keyFiles,      \* path -> numbers of the private and the public key file
    generated,     \* keys generated so far
    keyring,       \* GitLab host -> its list of keys by their numbers
    controllerKey, \* project -> key of its agent at the controller
    knownHosts,    \* host name -> what known_hosts has: "none", "old" or "current" keys
    publishing,    \* the process: its place, project, options, number of the source, environments
                   \* that an identity checked, public keys it read, and the page of the list
    reported,      \* hosts of sources with a warning or an exception in the log
    renewals       \* counts what the bound is about

remoteVars == <<keyring, controllerKey>>
publishVars == <<keyFiles, generated, keyring, controllerKey, knownHosts, publishing, reported,
                 renewals>>

NotRunning ==
    [pc |-> "idle", owner |-> CHOOSE p \in Owners : TRUE,
     options |-> CHOOSE o \in PublishOptions : TRUE, number |-> 1, checked |-> {},
     read |-> [f \in Paths |-> Unread], page |-> 1]

\* What a process knows goes with it.
Gone == publishing' = NotRunning /\ reported' = {}

PublishInit ==
    /\ keyFiles = [f \in Paths |-> [private |-> NoKey, public |-> NoKey]] /\ generated = 0
    /\ keyring = KeysOfOthers /\ controllerKey = [p \in Owners |-> NoKey]
    /\ knownHosts = [name \in HostNames |-> "none"]
    /\ publishing = NotRunning /\ reported = {} /\ renewals = 0

-----------------------------------------------------------------------------
(* make_source: the first class. *)
MakeSource(section) ==
    [kind |-> CASE "gitlab" \in section.has -> "gitlab"
                [] "github" \in section.has -> "github"
                [] "tfs" \in section.has -> "tfs"
                [] OTHER -> "none",
     name |-> section.name, env |-> WholeHost]

\* add_gitlab_key: hosts that are given, unless there are sources to prefer.
GitLabSources(p, options) ==
    IF options.noGitlab THEN <<>>
    ELSE IF options.gitlab = <<>>
             \/ (options.source /\ \E n \in DOMAIN OwnSources[p] : OwnSources[p][n].kind = "gitlab")
         THEN OwnSources[p] ELSE options.gitlab

\* The order of main.
SourcesToDo(p, options) ==
    LET domains == [n \in DOMAIN DomainSections |-> MakeSource(DomainSections[n])]
    IN  Controllers \o (IF options.credentials THEN domains ELSE <<>>) \o GitLabSources(p, options)

ToDo == SourcesToDo(publishing.owner, publishing.options)
Source == ToDo[publishing.number]
Host(source) == HostOf[source.name]

\* The controller is done with the main key; add_ssh_key takes that of the host,
\* and leaves out what is no source or has no path of a key.
KeyPath(source) == IF source.kind = "controller" THEN MainPath ELSE PathOf[Host(source)]
HasKey(source) == source.kind # "none" /\ KeyPath(source) # NoPath

\* An environment that an identity checked: a URL or a tuple with the host.
Environment(source) == <<KeyPath(source), source.kind, Host(source), source.env>>

PublicKey == publishing.read[KeyPath(Source)]
Dry == publishing.options.dry
Stopped == publishing.pc \in {"idle", "done"}
At(place) == publishing.pc = place
To(place) == publishing' = [publishing EXCEPT !.pc = place]
NextOne == publishing' = [publishing EXCEPT !.pc = "next", !.number = @ + 1, !.page = 1]
Report == reported' = reported \cup {Host(Source)}

StartPublishing(p, options) ==
    /\ Stopped
    /\ publishing' = [NotRunning EXCEPT !.pc = "next", !.owner = p, !.options = options]
    /\ reported' = {}
    /\ UNCHANGED <<keyFiles, generated, remoteVars, knownHosts, renewals>>

\* Identity.update_source: an environment is checked before it is updated.
UpdateSource ==
    /\ At("next") /\ publishing.number <= Len(ToDo)
    /\ IF ~HasKey(Source) \/ Environment(Source) \in publishing.checked THEN NextOne
       ELSE publishing' =
               [publishing EXCEPT !.checked = @ \cup {Environment(Source)},
                                  !.pc = IF PublicKey = Unread THEN "store" ELSE "publish"]
    /\ UNCHANGED <<keyFiles, generated, remoteVars, knownHosts, reported, renewals>>

EndPublishing ==
    /\ At("next") /\ publishing.number > Len(ToDo) /\ To("done")
    /\ UNCHANGED <<keyFiles, generated, remoteVars, knownHosts, reported, renewals>>

-----------------------------------------------------------------------------
(* _store_key moves the private key, then the public one. *)

StoreKey ==
    /\ At("store")
    /\ LET f == KeyPath(Source)
       IN  IF keyFiles[f].private # NoKey \/ Dry
           THEN To("read") /\ UNCHANGED <<keyFiles, generated>>
           ELSE /\ generated' = generated + 1 /\ To("public")
                /\ keyFiles' = [keyFiles EXCEPT ![f].private = generated']
    /\ UNCHANGED <<remoteVars, knownHosts, reported, renewals>>

MovePublic ==
    /\ At("public") /\ To("read")
    /\ keyFiles' = [keyFiles EXCEPT ![KeyPath(Source)].public = generated]
    /\ UNCHANGED <<generated, remoteVars, knownHosts, reported, renewals>>

\* A public key file that is missing makes the key False for the process.
ReadKey ==
    /\ At("read")
    /\ publishing' = [publishing EXCEPT !.pc = "publish",
                                        !.read[KeyPath(Source)] = keyFiles[KeyPath(Source)].public]
    /\ UNCHANGED <<keyFiles, generated, remoteVars, knownHosts, reported, renewals>>

-----------------------------------------------------------------------------
(* update_identity of the source *)

\* Only a private key: a warning, and the host is scanned still.
NoPublicPart ==
    /\ At("publish") /\ PublicKey = NoKey /\ Report /\ To("scan")
    /\ UNCHANGED <<keyFiles, generated, remoteVars, knownHosts, renewals>>

\* RuntimeError: a class that has no keys, no token, an API that cannot be
\* reached, a controller that refuses. The host is not scanned.
CannotPublish ==
    /\ At("publish") /\ PublicKey # NoKey /\ Report /\ NextOne
    /\ UNCHANGED <<keyFiles, generated, remoteVars, knownHosts, renewals>>

PublishToController ==
    /\ At("publish") /\ PublicKey # NoKey /\ Source.kind = "controller" /\ To("scan")
    /\ controllerKey' = IF Dry THEN controllerKey
                        ELSE [controllerKey EXCEPT ![publishing.owner] = PublicKey]
    /\ UNCHANGED <<keyFiles, generated, keyring, knownHosts, reported, renewals>>

OpenKeyring ==
    /\ At("publish") /\ PublicKey # NoKey /\ To("list")
    /\ Source.kind = "gitlab" /\ Host(Source) \in WithToken
    /\ UNCHANGED <<keyFiles, generated, remoteVars, knownHosts, reported, renewals>>

\* The place of a key on the list, without those that are deleted.
PlaceOf(list, n) == Cardinality({m \in 1 .. n : list[m] # Deleted})
OnPage(list) ==
    {n \in DOMAIN list :
        /\ list[n] # Deleted
        /\ PlaceOf(list, n) \in (publishing.page - 1) * PageSize + 1 .. publishing.page * PageSize}
IsListed(list, places) == \E n \in places : list[n].key = PublicKey
LastPage(list) == publishing.page * PageSize >= PlaceOf(list, Len(list))

\* Keys with the title of the project, before the public key if it is there.
OldOnes(list) ==
    {n \in OnPage(list) :
        /\ list[n].title = publishing.owner
        /\ \A before \in OnPage(list) : before <= n => list[before].key # PublicKey}

\* One answer of GitLab: those that are deleted shift what the next page has.
ListPage ==
    /\ At("list")
    /\ LET list == keyring[Host(Source)]
           old == IF Dry THEN {} ELSE OldOnes(list)
       IN  /\ keyring' = [keyring EXCEPT ![Host(Source)] =
                             [n \in DOMAIN list |-> IF n \in old THEN Deleted ELSE list[n]]]
           /\ IF IsListed(list, OnPage(list)) THEN To("scan")
              ELSE IF LastPage(list) THEN To("create")
              ELSE publishing' = [publishing EXCEPT !.page = @ + 1]
    /\ UNCHANGED <<keyFiles, generated, controllerKey, knownHosts, reported, renewals>>

\* GitLab refuses a key that it has, which is no RuntimeError: main ends.
CreateKey ==
    /\ At("create")
    /\ LET list == keyring[Host(Source)]
       IN  IF IsListed(list, DOMAIN list) /\ ~Dry
           THEN Gone /\ UNCHANGED keyring
           ELSE /\ To("scan") /\ UNCHANGED reported
                /\ keyring' = IF Dry THEN keyring
                              ELSE [keyring EXCEPT ![Host(Source)] =
                                       Append(@, [title |-> publishing.owner, key |-> PublicKey])]
    /\ UNCHANGED <<keyFiles, generated, controllerKey, knownHosts, renewals>>

-----------------------------------------------------------------------------
(* _scan_host, of the host name in the plain URL *)

RemoveOldHostKeys ==
    /\ At("scan")
    /\ knownHosts' = IF Dry THEN knownHosts ELSE [knownHosts EXCEPT ![Source.name] = "none"]
    /\ To("append")
    /\ UNCHANGED <<keyFiles, generated, remoteVars, reported, renewals>>

\* mutant: the file is opened to be written and not to be appended to
WriteHostKeys ==
    /\ At("append") /\ NextOne
    /\ knownHosts' = IF Dry THEN knownHosts
                     ELSE [name \in HostNames |-> IF name = Source.name THEN "current" ELSE "none"]
    /\ UNCHANGED <<keyFiles, generated, remoteVars, reported, renewals>>

AppendHostKeys ==
    /\ At("append") /\ NextOne
    /\ knownHosts' = IF Dry THEN knownHosts ELSE [knownHosts EXCEPT ![Source.name] = "current"]
    /\ UNCHANGED <<keyFiles, generated, remoteVars, reported, renewals>>

\* ssh-keygen or ssh-keyscan ends with an error.
CannotScan ==
    /\ publishing.pc \in {"scan", "append"} /\ ~Dry /\ Report /\ NextOne
    /\ UNCHANGED <<keyFiles, generated, remoteVars, knownHosts, renewals>>

-----------------------------------------------------------------------------
\* Killed, or an exception that is no RuntimeError, at any step.
BreakOff ==
    /\ ~Stopped /\ Gone
    /\ UNCHANGED <<keyFiles, generated, remoteVars, knownHosts, renewals>>

\* Between runs: a key pair is removed to get a new one, a host gets new keys,
\* and start.sh of a new container removes known_hosts.
Meanwhile ==
    /\ Stopped /\ Gone /\ renewals < MaxRenewals /\ renewals' = renewals + 1
    /\ \/ /\ \E f \in Paths : keyFiles' = [keyFiles EXCEPT ![f] = [private |-> 0, public |-> 0]]
          /\ UNCHANGED knownHosts
       \/ /\ \E name \in HostNames : knownHosts[name] = "current"
                                        /\ knownHosts' = [knownHosts EXCEPT ![name] = "old"]
          /\ UNCHANGED keyFiles
       \/ knownHosts' = [name \in HostNames |-> "none"] /\ UNCHANGED keyFiles
    /\ UNCHANGED <<generated, remoteVars>>

PublishNext ==
    \/ \E p \in Owners, options \in PublishOptions : StartPublishing(p, options)
    \/ UpdateSource \/ EndPublishing \/ StoreKey \/ MovePublic \/ ReadKey
    \/ NoPublicPart \/ CannotPublish \/ PublishToController \/ OpenKeyring \/ ListPage \/ CreateKey
    \/ RemoveOldHostKeys \/ AppendHostKeys \/ CannotScan \/ BreakOff \/ Meanwhile

PublishSpec == PublishInit /\ [][PublishNext]_publishVars

-----------------------------------------------------------------------------
\* What is to be done for a source: the public key of a pair that the agent has is
\* at the controller or on the list of GitLab, and the project has no other there.
KeyIsPublished(source) ==
    LET pair == keyFiles[KeyPath(source)]
        list == keyring[Host(source)]
    IN  /\ pair.public # NoKey /\ pair.private = pair.public
        /\ source.kind = "controller" => controllerKey[publishing.owner] = pair.public
        /\ source.kind = "gitlab" =>
              /\ \E n \in DOMAIN list : list[n].key = pair.public
              /\ \A n \in DOMAIN list :
                    list[n].title = publishing.owner => list[n].key = pair.public

\* The keys that are not of the agent are where they were.
OthersAreKept ==
    \A h \in ApiHosts : \A n \in DOMAIN KeysOfOthers[h] :
        n \in DOMAIN keyring[h] /\ keyring[h][n] = KeysOfOthers[h][n]

\* What the log of an ended run does not complain of is done, whatever earlier
\* runs broke off at: the key of each host that was gone through is published,
\* although the list is deleted from while it is read; the host keys are known
\* under a name that leads to the environment (which is checked once, whatever the
\* name); and nobody else's key is gone (update_identity and _scan_host,
\* types.py:541).
UnreportedMeansPublished ==
    At("done") /\ ~Dry =>
        /\ OthersAreKept
        /\ \A n \in DOMAIN ToDo :
              HasKey(ToDo[n]) /\ Host(ToDo[n]) \notin reported =>
                  /\ KeyIsPublished(ToDo[n])
                  /\ \E m \in DOMAIN ToDo :
                        /\ Environment(ToDo[m]) = Environment(ToDo[n])
                        /\ knownHosts[ToDo[m].name] = "current"
=============================================================================
