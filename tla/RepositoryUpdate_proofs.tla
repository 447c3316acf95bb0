---------------------- MODULE RepositoryUpdate_proofs -----------------------
(***************************************************************************)
(* Theorems about RepositoryUpdate, for any sources of any kind and any    *)
(* number of versions, and about SvnDifference, for any output of svn.     *)
(***************************************************************************)
EXTENDS RepositoryUpdate, SvnDifference, FiniteSetTheorems, WellFoundedInduction, TLAPS

(***************************************************************************)
(* Limits of a run that no repository reaches                              *)
(***************************************************************************)
LEMMA FewVersions ==
  ASSUME NEW S \in SUBSET Version
  PROVE  Cardinality(S) \in Nat /\ Cardinality(S) <= MaxVersion
<1>1. MaxVersion \in Nat BY RepositoryConstants
<1>2. IsFiniteSet(Version) /\ Cardinality(Version) = MaxVersion
  BY <1>1, FS_Interval DEF Version
<1>3. IsFiniteSet(S) /\ Cardinality(S) <= Cardinality(Version)
  BY <1>2, FS_Subset
<1> QED BY <1>2, <1>3, FS_CardinalityType

LEMMA LimitsAreIntegers == MaxSize \in Int /\ SubversionLimit \in Int
<1>1. MaxSize \in Nat /\ BatchSize \in Nat \ {0} BY RepositoryConstants
<1>2. (MaxSize + BatchSize - 1) \div BatchSize \in Int BY <1>1
<1> QED BY <1>1, <1>2 DEF SubversionLimit, Batches

LEMMA NothingIsLeftOut ==
  ASSUME NothingIsLimited, NEW S \in SUBSET Version
  PROVE  NewestOnly(S) = S /\ OldestOnly(S) = S
<1>1. MaxVersion \in Nat BY RepositoryConstants
<1>2. ASSUME NEW v \in S
      PROVE  /\ Cardinality({w \in S : w >= v}) <= MaxSize
             /\ Cardinality({w \in S : w <= v}) <= SubversionLimit
  <2>1. {w \in S : w >= v} \in SUBSET Version /\ {w \in S : w <= v} \in SUBSET Version
    OBVIOUS
  <2>2. /\ Cardinality({w \in S : w >= v}) \in Nat
        /\ Cardinality({w \in S : w >= v}) <= MaxVersion
        /\ Cardinality({w \in S : w <= v}) \in Nat
        /\ Cardinality({w \in S : w <= v}) <= MaxVersion
    BY <2>1, FewVersions
  <2> QED BY <1>1, <2>2, LimitsAreIntegers DEF NothingIsLimited
<1> QED BY <1>2 DEF NewestOnly, OldestOnly

(***************************************************************************)
(* Types                                                                   *)
(***************************************************************************)
LEMMA TypeInit == Init => TypeOK
<1> SUFFICES ASSUME Init PROVE TypeOK
  OBVIOUS
<1>1. MaxVersion \in Nat \ {0} BY RepositoryConstants
<1>2. made \in [Sources -> 0..MaxVersion]
  BY <1>1 DEF Init
<1>3. history \in [Sources -> SUBSET Version]
  BY <1>1, <1>2 DEF Init, Version
<1>4. /\ latest \in [Sources -> 0..MaxVersion]
      /\ at \in [Sources -> 0..MaxVersion]
  BY <1>1 DEF Init
<1> QED BY <1>2, <1>3, <1>4 DEF Init, TypeOK, Places

LEMMA SetCloneType ==
  ASSUME TypeOK, NEW s, s \in Sources \/ s = None,
         NEW state \in {"none", "good", "broken"},
         SetClone(s, state)
  PROVE  /\ clone' \in [Sources -> {"none", "good", "broken"}]
         /\ local' \in [Sources -> SUBSET Version]
         /\ at' \in [Sources -> 0..MaxVersion]
<1>1. MaxVersion \in Nat /\ None \notin Sources BY RepositoryConstants
<1>2. CASE s \in Sources
  <2>1. /\ (IF state = "good" THEN history[s] ELSE {}) \in SUBSET Version
        /\ (IF state = "good" THEN head[s] ELSE 0) \in 0..MaxVersion
    BY <1>1, <1>2 DEF TypeOK
  <2> QED BY <1>2, <2>1 DEF TypeOK, SetClone
<1>3. CASE s \notin Sources
  BY <1>3 DEF TypeOK, SetClone
<1> QED BY <1>2, <1>3

LEMMA MakeType ==
  ASSUME TypeOK, NEW s \in Sources, NEW branch,
         branch \subseteq history[s] \cup {made[s] + 1}, Make(s, branch)
  PROVE  TypeOK'
<1> DEFINE v == made[s] + 1
<1>1. MaxVersion \in Nat BY RepositoryConstants
<1>2. v \in Version /\ v \in 0..MaxVersion /\ master[s] \in 0..MaxVersion
  BY <1>1 DEF TypeOK, Make, Version
<1> HIDE DEF v
<1>3. /\ made' = [made EXCEPT ![s] = v]
      /\ history' = [history EXCEPT ![s] = branch]
      /\ head' = [head EXCEPT ![s] = v]
      /\ \E m \in {v} \cup (IF s \in Renamed THEN {master[s]} ELSE {}) :
            master' = [master EXCEPT ![s] = m]
      /\ UNCHANGED <<clones, files, run>>
  BY DEF Make, v
<1>4. /\ made' \in [Sources -> 0..MaxVersion] /\ head' \in [Sources -> 0..MaxVersion]
      /\ master' \in [Sources -> 0..MaxVersion]
  BY <1>2, <1>3 DEF TypeOK
<1>5. history' \in [Sources -> SUBSET Version]
  BY <1>2, <1>3 DEF TypeOK, v
<1> QED BY <1>3, <1>4, <1>5 DEF TypeOK, clones, files, run

\* What a run does to its own variables when it goes on.
LEMMA GoOnType ==
  ASSUME TypeOK, NEW s \in Sources,
         \/ Leave(s)
         \/ \E from, to \in Places : GoTo(s, from, to)
  PROVE  /\ pc' \in Places /\ force' \in BOOLEAN /\ todo' \subseteq Sources
         /\ current' \in Sources \cup {None}
         /\ versions' \in [Sources -> SUBSET Version]
BY DEF TypeOK, Leave, GoTo, Places

LEMMA CollectType ==
  ASSUME TypeOK, NEW s \in Sources, NEW new, new \subseteq Version,
         Collect(s, new)
  PROVE  TypeOK'
<1>1. versions' \in [Sources -> SUBSET Version] /\ pc' \in Places
  BY DEF Collect, TypeOK, Places
<1> QED BY <1>1 DEF Collect, TypeOK, remote, clones, files

LEMMA StopType ==
  ASSUME TypeOK, Stop
  PROVE  /\ pc' \in Places /\ force' \in BOOLEAN /\ todo' \subseteq Sources
         /\ current' \in Sources \cup {None}
         /\ newest' \in [Sources -> 0..MaxVersion]
         /\ versions' \in [Sources -> SUBSET Version]
<1>1. MaxVersion \in Nat BY RepositoryConstants
<1>2. 0 \in 0..MaxVersion BY <1>1
<1>3. newest' \in [Sources -> 0..MaxVersion] BY <1>2 DEF Stop
<1>4. versions' \in [Sources -> SUBSET Version] BY DEF Stop
<1> QED BY <1>3, <1>4 DEF Stop, Places

LEMMA TypeStep == TypeOK /\ [Next]_vars => TypeOK'
<1> SUFFICES ASSUME TypeOK, [Next]_vars PROVE TypeOK'
  OBVIOUS
<1>0. MaxVersion \in Nat BY RepositoryConstants
<1>1. CASE UNCHANGED vars
  BY <1>1 DEF TypeOK, vars, remote, clones, files, run
<1>2. ASSUME NEW s \in Sources, Change(s) PROVE TypeOK'
  <2>1. CASE Push(s)
    BY <2>1, MakeType DEF Push
  <2>2. CASE Rewrite(s)
    BY <2>2, MakeType DEF Rewrite
  <2>3. CASE Elsewhere(s)
    BY <2>3, MakeType DEF Elsewhere
  <2> QED BY <1>2, <2>1, <2>2, <2>3 DEF Change
<1>3. ASSUME NEW f \in BOOLEAN, Start(f) PROVE TypeOK'
  BY <1>3 DEF Start, TypeOK, remote, clones, files, Places
<1>4. ASSUME NEW s \in Sources, Gather(s) PROVE TypeOK'
  <2> USE DEF remote, clones, files
  <2>1. CASE SkipUpToDate(s) \/ SkipEmpty(s) \/ InfoFails(s) \/ DataRaises(s)
    <3>1. Leave(s) /\ UNCHANGED <<remote, clones, files, newest>>
      BY <2>1 DEF SkipUpToDate, SkipEmpty, InfoFails, DataRaises
    <3> QED BY <3>1, GoOnType DEF TypeOK
  <2>2. CASE RetrieveNew(s) \/ CheckFails(s)
    BY <2>2 DEF RetrieveNew, CheckFails, Retrieve, TypeOK, Places
  <2>3. CASE Connect(s) \/ PullEmpty(s) \/ Process(s)
    <3>1. /\ \E from, to \in Places : GoTo(s, from, to)
          /\ UNCHANGED <<remote, clones, files, newest>>
      BY <2>3 DEF Connect, PullEmpty, Process, GoTo, Places
    <3> QED BY <3>1, GoOnType DEF TypeOK
  <2>4. CASE Clone(s) \/ Pull(s) \/ PullForced(s)
    <3>1. /\ \E from, to \in Places : GoTo(s, from, to)
          /\ \E state \in {"none", "good"} : SetClone(s, state)
          /\ UNCHANGED <<remote, files, newest>>
      BY <2>4 DEF Clone, Pull, PullForced, GoTo, Places
    <3> QED BY <3>1, GoOnType, SetCloneType DEF TypeOK
  <2>5. CASE CloneFails(s) \/ PullRaises(s)
    <3>1. Leave(s) /\ UNCHANGED <<remote, clones, files, newest>>
      BY <2>5 DEF CloneFails, PullRaises
    <3> QED BY <3>1, GoOnType DEF TypeOK
  <2>6. CASE CleanupFails(s)
    <3>1. Leave(s) /\ SetClone(s, "broken") /\ UNCHANGED <<remote, files, newest>>
      BY <2>6 DEF CleanupFails
    <3> QED BY <3>1, GoOnType, SetCloneType DEF TypeOK
  <2>7. CASE GetGitVersions(s)
    <3>1. NewestOnly({v \in local[s] : v > newest[s]}) \subseteq Version
      BY DEF TypeOK, NewestOnly
    <3> QED BY <2>7, <3>1, CollectType DEF GetGitVersions
  <2>8. CASE GetSubversionLog(s)
    <3>1. OldestOnly({v \in history[s] : v >= newest[s]}) \subseteq Version
      BY DEF TypeOK, OldestOnly
    <3> QED BY <2>8, <3>1, CollectType DEF GetSubversionLog
  <2>9. CASE DataForced(s)
    <3>1. /\ Leave(s) /\ UNCHANGED <<remote, files>>
          /\ newest' = [newest EXCEPT ![s] = 0]
          /\ \/ UNCHANGED clones
             \/ \E c \in {"none", "broken"} : SetClone(s, c)
      BY <2>9 DEF DataForced
    <3>2. newest' \in [Sources -> 0..MaxVersion]
      BY <1>0, <3>1 DEF TypeOK
    <3> QED BY <3>1, <3>2, GoOnType, SetCloneType DEF TypeOK
  <2>10. CASE GetGitLatest(s) \/ GetSubversionLatest(s)
    <3>1. Leave(s) /\ UNCHANGED <<remote, clones, files>>
      BY <2>10 DEF GetGitLatest, GetSubversionLatest, GetLatestVersion
    <3>2. newest' \in [Sources -> 0..MaxVersion]
      BY <2>10 DEF GetGitLatest, GetSubversionLatest, GetLatestVersion, TypeOK
    <3> QED BY <3>1, <3>2, GoOnType DEF TypeOK
  <2>11. CASE LatestFails(s)
    <3>1. Leave(s) /\ UNCHANGED <<remote, clones, files>>
      BY <2>11 DEF LatestFails
    <3>2. newest' \in [Sources -> 0..MaxVersion]
      BY <1>0, <2>11 DEF LatestFails, TypeOK
    <3> QED BY <3>1, <3>2, GoOnType DEF TypeOK
  <2> QED BY <1>4, <2>1, <2>2, <2>3, <2>4, <2>5, <2>6, <2>7, <2>8, <2>9, <2>10, <2>11
          DEF Gather, FromSource, ProcessRepo
<1>5. CASE Export
  <2>1. collected' \in [Sources -> SUBSET Version]
    BY <1>5 DEF Export, TypeOK
  <2>2. latest' = newest /\ Stop /\ UNCHANGED <<remote, clones>>
    BY <1>5 DEF Export
  <2> QED BY <2>1, <2>2, StopType DEF TypeOK, remote, clones
<1>6. CASE Abort
  <2>1. /\ Stop /\ UNCHANGED <<remote, files>>
        /\ UNCHANGED clones \/ SetClone(current, "broken")
    BY <1>6 DEF Abort
  <2>2. current \in Sources \/ current = None BY DEF TypeOK
  <2>3. /\ clone' \in [Sources -> {"none", "good", "broken"}]
        /\ local' \in [Sources -> SUBSET Version]
        /\ at' \in [Sources -> 0..MaxVersion]
    BY <2>1, <2>2, SetCloneType DEF TypeOK, clones
  <2> QED BY <2>1, <2>3, StopType DEF TypeOK, remote, files
<1> QED BY <1>1, <1>2, <1>3, <1>4, <1>5, <1>6 DEF Next, Step

\* The variables stay in their domains; no step makes or stores a version that
\* is out of bounds.
THEOREM TypeCorrect == Spec => []TypeOK
<1>1. Init => TypeOK BY TypeInit
<1>2. TypeOK /\ [Next]_vars => TypeOK' BY TypeStep
<1> QED BY <1>1, <1>2, PTL DEF Spec

(***************************************************************************)
(* The inductive invariant                                                 *)
(***************************************************************************)
LEMMA InvInit == Init => IInv
<1> SUFFICES ASSUME Init PROVE IInv
  OBVIOUS
<1>1. TypeOK BY TypeInit
<1>2. /\ \A s \in Sources : /\ made[s] \in {0, 1} /\ head[s] = made[s]
                            /\ history[s] = 1..made[s]
                            /\ local[s] = {} /\ at[s] = 0 /\ clone[s] = "none"
                            /\ latest[s] = 0 /\ newest[s] = 0
      /\ pc = "idle"
  BY DEF Init
<1>3. HeadIsNewest BY <1>2 DEF HeadIsNewest
<1>4. CloneIsOld /\ LatestIsOld BY <1>2 DEF CloneIsOld, LatestIsOld
<1>5. NewestIsSound /\ NoCommitIsSkipped /\ LatestIsCollected
  BY <1>2 DEF NewestIsSound, NoCommitIsSkipped, LatestIsCollected
<1>6. DataHasClone /\ ReadIsComplete BY <1>2 DEF DataHasClone, ReadIsComplete
<1> QED BY <1>1, <1>3, <1>4, <1>5, <1>6 DEF IInv

\* A new version is above all that has been collected or cloned.
LEMMA MakeStep ==
  ASSUME IInv, TypeOK', SubversionIsQuiet,
         NEW s \in Sources, NEW branch, branch \subseteq history[s] \cup {made[s] + 1},
         s \in Subversion \/ made[s] + 1 \in branch, Make(s, branch)
  PROVE  IInv'
<1> USE DEF IInv
<1> DEFINE v == made[s] + 1
<1>1. /\ made[s] \in Nat /\ v \in Nat
      /\ \A x \in Sources : /\ made[x] \in Nat /\ head[x] \in Nat /\ at[x] \in Nat
                            /\ latest[x] \in Nat /\ newest[x] \in Nat
                            /\ history[x] \subseteq Nat
  BY DEF TypeOK, Version
<1>2. /\ UNCHANGED <<clone, local, at, latest, collected, pc, current, newest, versions>>
      /\ s \in Quiet => current # s
  BY DEF Make, clones, files, run
<1>3. /\ made'[s] = v /\ head'[s] = v /\ history'[s] = branch
      /\ \A x \in Sources : x # s =>
           made'[x] = made[x] /\ head'[x] = head[x] /\ history'[x] = history[x]
  BY DEF Make, TypeOK
<1>4. \A x \in Sources : /\ made[x] <= made'[x]
                         /\ \A w \in history'[x] : w \in history[x] \/ w = made[x] + 1
  BY <1>1, <1>3
<1> HIDE DEF v
<1>5. HeadIsNewest'
  <2>1. \A w \in branch : w <= v BY <1>1 DEF HeadIsNewest, v
  <2> QED BY <1>1, <1>3, <2>1 DEF HeadIsNewest, v
<1>6. CloneIsOld'
  <2>1. \A x \in Sources : made'[x] \in Nat BY <1>1, <1>3
  <2>2. \A x \in Sources : at[x] <= made'[x] BY <1>1, <1>4, <2>1 DEF CloneIsOld
  <2>3. \A x \in Sources : \A w \in history'[x] : w <= at[x] => w \in history[x]
    BY <1>1, <1>4 DEF CloneIsOld
  <2> QED BY <1>2, <2>2, <2>3 DEF CloneIsOld
<1>7. LatestIsOld'
  <2>1. \A x \in Sources : made'[x] \in Nat BY <1>1, <1>3
  <2> QED BY <1>1, <1>2, <1>4, <2>1 DEF LatestIsOld
<1>8. NewestIsSound' /\ NoCommitIsSkipped'
  <2>1. \A x \in Sources : \A w \in history'[x] :
           w <= newest[x] \/ w <= latest[x] => w \in history[x]
    BY <1>1, <1>4 DEF LatestIsOld
  <2> QED BY <1>2, <2>1 DEF NewestIsSound, NoCommitIsSkipped
<1>9. DataHasClone' /\ LatestIsCollected'
  BY <1>2 DEF DataHasClone, LatestIsCollected
<1>10. ReadIsComplete'
  <2>1. \A x \in Subversion : current = x => history'[x] = history[x]
    BY <1>2, <1>3, RepositoryConstants DEF SubversionIsQuiet
  <2> QED BY <1>2, <2>1 DEF ReadIsComplete
<1> QED BY <1>5, <1>6, <1>7, <1>8, <1>9, <1>10

\* The run goes on without a change to what it knows.
LEMMA MoveStep ==
  ASSUME IInv, TypeOK',
         UNCHANGED <<remote, clones, files, newest, versions>>,
         \/ pc' \notin {"data", "latest"}
         \/ /\ pc' = "data"
            /\ \A s \in Sources \ Subversion : current' = s => clone[s] = "good"
  PROVE  IInv'
<1> USE DEF IInv, remote, clones, files
<1>1. HeadIsNewest' BY DEF HeadIsNewest
<1>2. CloneIsOld' BY DEF CloneIsOld
<1>3. LatestIsOld' BY DEF LatestIsOld
<1>4. NewestIsSound' BY DEF NewestIsSound
<1>5. DataHasClone' /\ ReadIsComplete' BY DEF DataHasClone, ReadIsComplete
<1>6. NoCommitIsSkipped' BY DEF NoCommitIsSkipped
<1>7. LatestIsCollected' BY DEF LatestIsCollected
<1> QED BY <1>1, <1>2, <1>3, <1>4, <1>5, <1>6, <1>7

\* A clone that is made, brought up to date, deleted or broken.
LEMMA SetCloneKeeps ==
  ASSUME TypeOK, HeadIsNewest, CloneIsOld,
         NEW s, NEW state \in {"none", "good", "broken"}, SetClone(s, state),
         UNCHANGED remote
  PROVE  CloneIsOld'
<1>1. UNCHANGED <<made, history, head>> BY DEF remote
<1>2. \A x \in Sources :
        IF x = s
        THEN /\ clone'[x] = state
             /\ local'[x] = (IF state = "good" THEN history[x] ELSE {})
             /\ at'[x] = (IF state = "good" THEN head[x] ELSE 0)
        ELSE clone'[x] = clone[x] /\ local'[x] = local[x] /\ at'[x] = at[x]
  BY DEF SetClone, TypeOK
<1>3. \A x \in Sources : made[x] \in Nat BY DEF TypeOK
<1>4. ASSUME NEW x \in Sources
      PROVE  /\ \A v \in local'[x] : v <= at'[x]
             /\ at'[x] <= made[x]
             /\ x \notin Subversion /\ at'[x] # 0 => at'[x] \in local'[x]
             /\ clone'[x] = "good" => {v \in history[x] : v <= at'[x]} \subseteq local'[x]
  <2>1. CASE x = s /\ state = "good"
    BY <1>2, <2>1 DEF HeadIsNewest
  <2>2. CASE x = s /\ state # "good"
    BY <1>2, <1>3, <2>2
  <2>3. CASE x # s
    BY <1>2, <2>3 DEF CloneIsOld
  <2> QED BY <2>1, <2>2, <2>3
<1> QED BY <1>1, <1>4 DEF CloneIsOld

LEMMA CloneStep ==
  ASSUME IInv, TypeOK', NEW s, NEW state \in {"none", "good", "broken"},
         SetClone(s, state), UNCHANGED <<remote, files, newest, versions>>,
         pc' \notin {"data", "latest"}
  PROVE  IInv'
<1> USE DEF IInv, files
<1>1. UNCHANGED <<made, history, head>> BY DEF remote
<1>2. HeadIsNewest' BY <1>1 DEF HeadIsNewest
<1>3. CloneIsOld' BY SetCloneKeeps
<1>4. LatestIsOld' BY <1>1 DEF LatestIsOld
<1>5. NewestIsSound' BY <1>1 DEF NewestIsSound
<1>6. DataHasClone' /\ ReadIsComplete' BY DEF DataHasClone, ReadIsComplete
<1>7. NoCommitIsSkipped' BY <1>1 DEF NoCommitIsSkipped
<1>8. LatestIsCollected' BY DEF LatestIsCollected
<1> QED BY <1>2, <1>3, <1>4, <1>5, <1>6, <1>7, <1>8

\* The versions of a repository are added to those of the others.
LEMMA CollectStep ==
  ASSUME IInv, TypeOK', NEW s \in Sources, NEW new, Collect(s, new),
         IF s \in Subversion
         THEN new = {v \in history[s] : v >= newest[s]}
         ELSE new = {v \in local[s] : v > newest[s]} /\ KnowsLatest(s)
  PROVE  IInv'
<1> USE DEF IInv
<1>1. /\ UNCHANGED <<made, history, head, clone, local, at, latest, collected,
                     current, newest>>
      /\ pc = "data" /\ current = s /\ pc' = "latest"
  BY DEF Collect, remote, clones, files
<1>2. /\ versions'[s] = versions[s] \cup new
      /\ \A x \in Sources : x # s => versions'[x] = versions[x]
  BY DEF Collect, TypeOK
<1>3. HeadIsNewest' BY <1>1 DEF HeadIsNewest
<1>4. CloneIsOld' BY <1>1 DEF CloneIsOld
<1>5. LatestIsOld' BY <1>1 DEF LatestIsOld
<1>6. NewestIsSound' BY <1>1, <1>2 DEF NewestIsSound
<1>7. DataHasClone' BY <1>1 DEF DataHasClone
<1>8. ReadIsComplete'
  <2>1. s \notin Subversion /\ newest[s] # 0 => newest[s] <= at[s]
    BY DEF KnowsLatest, CloneIsOld
  <2> QED BY <1>1, <1>2, <2>1 DEF ReadIsComplete
<1>9. NoCommitIsSkipped' BY <1>1 DEF NoCommitIsSkipped
<1>10. LatestIsCollected' BY <1>1 DEF LatestIsCollected
<1> QED BY <1>3, <1>4, <1>5, <1>6, <1>7, <1>8, <1>9, <1>10

\* The run sets the latest version of a repository to one that is sound.
LEMMA NewestStep ==
  ASSUME IInv, TypeOK', NEW s \in Sources, NEW v \in Nat,
         newest' = [newest EXCEPT ![s] = v],
         v <= made[s],
         {w \in history[s] : w <= v} \subseteq collected[s] \cup versions[s],
         s \notin Subversion /\ v # 0 => v \in collected[s] \cup versions[s],
         UNCHANGED <<remote, files, versions>>,
         UNCHANGED clones \/ \E state \in {"none", "broken"} : SetClone(s, state),
         pc' \notin {"data", "latest"}
  PROVE  IInv'
<1> USE DEF IInv, files
<1>1. UNCHANGED <<made, history, head>> BY DEF remote
<1>2. newest'[s] = v /\ \A x \in Sources : x # s => newest'[x] = newest[x]
  BY DEF TypeOK
<1>3. HeadIsNewest' BY <1>1 DEF HeadIsNewest
<1>4. CloneIsOld'
  <2>1. CASE UNCHANGED clones
    BY <1>1, <2>1 DEF CloneIsOld, clones
  <2>2. CASE \E state \in {"none", "broken"} : SetClone(s, state)
    BY <2>2, SetCloneKeeps
  <2> QED BY <2>1, <2>2
<1>5. LatestIsOld' BY <1>1, <1>2 DEF LatestIsOld
<1>6. NewestIsSound' BY <1>1, <1>2 DEF NewestIsSound
<1>7. DataHasClone' /\ ReadIsComplete' BY DEF DataHasClone, ReadIsComplete
<1>8. NoCommitIsSkipped' BY <1>1 DEF NoCommitIsSkipped
<1>9. LatestIsCollected' BY DEF LatestIsCollected
<1> QED BY <1>3, <1>4, <1>5, <1>6, <1>7, <1>8, <1>9

\* With zero the next run is to collect everything.
LEMMA ForgetStep ==
  ASSUME IInv, TypeOK', NEW s \in Sources,
         newest' = [newest EXCEPT ![s] = 0],
         UNCHANGED <<remote, files, versions>>,
         UNCHANGED clones \/ \E state \in {"none", "broken"} : SetClone(s, state),
         pc' \notin {"data", "latest"}
  PROVE  IInv'
<1>1. 0 \in Nat /\ 0 <= made[s] BY DEF IInv, TypeOK
<1>2. {w \in history[s] : w <= 0} = {} BY DEF IInv, TypeOK, Version
<1> QED BY <1>1, <1>2, NewestStep

\* What was read between is all there is up to the new latest version.
LEMMA GetLatestStep ==
  ASSUME IInv, TypeOK', NEW s \in Sources, GetGitLatest(s) \/ GetSubversionLatest(s)
  PROVE  IInv'
<1> DEFINE v == IF s \in Subversion THEN head[s] ELSE at[s]
<1> USE DEF IInv
<1>1. /\ pc = "latest" /\ current = s
      /\ newest' = [newest EXCEPT ![s] = v]
      /\ UNCHANGED <<remote, clones, files, versions>> /\ pc' = "loop"
  BY DEF GetGitLatest, GetSubversionLatest, GetLatestVersion, Leave
<1>2. /\ v \in Nat /\ newest[s] \in Nat /\ history[s] \subseteq Nat /\ local[s] \subseteq Nat
  BY DEF TypeOK, Version
<1>3. v <= made[s] BY DEF HeadIsNewest, CloneIsOld
<1>4. {w \in history[s] : w <= v} \subseteq collected[s] \cup versions[s]
  <2>1. CASE s \in Subversion
    <3>1. {w \in history[s] : w >= newest[s]} \subseteq versions[s]
      BY <1>1, <2>1 DEF ReadIsComplete
    <3>2. {w \in history[s] : w <= newest[s]} \subseteq collected[s] \cup versions[s]
      BY DEF NewestIsSound
    <3> QED BY <1>2, <3>1, <3>2
  <2>2. CASE s \notin Subversion
    <3>1. {w \in local[s] : w > newest[s]} \subseteq versions[s]
      BY <1>1, <2>2 DEF ReadIsComplete
    <3>2. {w \in history[s] : w <= v} \subseteq local[s]
      BY <1>1, <2>2 DEF DataHasClone, CloneIsOld
    <3>3. {w \in history[s] : w <= newest[s]} \subseteq collected[s] \cup versions[s]
      BY DEF NewestIsSound
    <3> QED BY <1>2, <3>1, <3>2, <3>3
  <2> QED BY <2>1, <2>2
<1>5. s \notin Subversion /\ v # 0 => v \in collected[s] \cup versions[s]
  <2>1. CASE s \notin Subversion
    <3>1. v # 0 => v \in local[s] BY <2>1 DEF CloneIsOld
    <3>2. v > newest[s] => v # 0 /\ v \in versions[s]
      BY <1>1, <1>2, <2>1, <3>1 DEF ReadIsComplete
    <3>3. newest[s] # 0 => newest[s] <= v
      BY <1>1, <2>1 DEF ReadIsComplete
    <3>4. v # 0 => v > newest[s] \/ v = newest[s]
      BY <1>2, <3>3
    <3> QED BY <2>1, <3>2, <3>4 DEF NewestIsSound
  <2> QED BY <2>1
<1> HIDE DEF v
<1> QED BY <1>1, <1>2, <1>3, <1>4, <1>5, NewestStep

\* A run that ends, with its files or without them.
LEMMA StopStep ==
  ASSUME IInv, TypeOK', Stop, UNCHANGED remote,
         UNCHANGED clones \/ SetClone(current, "broken"),
         \/ UNCHANGED files
         \/ /\ latest' = newest
            /\ collected' = [s \in Sources |-> collected[s] \cup versions[s]]
  PROVE  IInv'
<1> USE DEF IInv
<1>1. UNCHANGED <<made, history, head>> BY DEF remote
<1>2. pc' = "idle" /\ \A s \in Sources : newest'[s] = 0 BY DEF Stop
<1>3. HeadIsNewest' BY <1>1 DEF HeadIsNewest
<1>4. CloneIsOld'
  <2>1. CASE UNCHANGED clones
    BY <1>1, <2>1 DEF CloneIsOld, clones
  <2>2. CASE SetClone(current, "broken")
    BY <2>2, SetCloneKeeps
  <2> QED BY <2>1, <2>2
<1>5. LatestIsOld'
  <2>1. \A s \in Sources : made[s] \in Nat BY DEF TypeOK
  <2> QED BY <1>1, <1>2, <2>1 DEF LatestIsOld, files
<1>6. NewestIsSound'
  <2>1. \A s \in Sources : {v \in history[s] : v <= 0} = {} BY DEF TypeOK, Version
  <2> QED BY <1>1, <1>2, <2>1 DEF NewestIsSound
<1>7. DataHasClone' /\ ReadIsComplete' BY <1>2 DEF DataHasClone, ReadIsComplete
<1>8. NoCommitIsSkipped'
  BY <1>1 DEF NoCommitIsSkipped, NewestIsSound, files
<1>9. LatestIsCollected'
  BY DEF LatestIsCollected, NewestIsSound, files
<1> QED BY <1>3, <1>4, <1>5, <1>6, <1>7, <1>8, <1>9

LEMMA StartStep ==
  ASSUME IInv, TypeOK', NEW f, Start(f)
  PROVE  IInv'
<1> USE DEF IInv, Start, remote, clones, files
<1>1. HeadIsNewest' BY DEF HeadIsNewest
<1>2. CloneIsOld' BY DEF CloneIsOld
<1>3. LatestIsOld' BY DEF LatestIsOld
<1>4. NewestIsSound' BY DEF NewestIsSound, NoCommitIsSkipped, LatestIsCollected
<1>5. DataHasClone' /\ ReadIsComplete' BY DEF DataHasClone, ReadIsComplete
<1>6. NoCommitIsSkipped' BY DEF NoCommitIsSkipped
<1>7. LatestIsCollected' BY DEF LatestIsCollected
<1> QED BY <1>1, <1>2, <1>3, <1>4, <1>5, <1>6, <1>7

\* All that a run does with a source.
LEMMA GatherStep ==
  ASSUME IInv, TypeOK', NothingIsLimited, NEW s \in Sources, Gather(s)
  PROVE  IInv'
<1> DEFINE Moves == UNCHANGED <<remote, clones, files, newest, versions>>
<1>1. CASE SkipUpToDate(s) \/ SkipEmpty(s) \/ InfoFails(s) \/ DataRaises(s)
  <2>1. Moves /\ pc' = "loop"
    BY <1>1 DEF SkipUpToDate, SkipEmpty, InfoFails, DataRaises, Leave
  <2> QED BY <2>1, MoveStep
<1>2. CASE RetrieveNew(s) \/ CheckFails(s)
  <2>1. Moves /\ pc' = "source"
    BY <1>2 DEF RetrieveNew, CheckFails, Retrieve
  <2> QED BY <2>1, MoveStep
<1>3. CASE Connect(s) \/ PullEmpty(s)
  <2>1. Moves /\ pc' = "sourced"
    BY <1>3 DEF Connect, PullEmpty, GoTo
  <2> QED BY <2>1, MoveStep
<1>4. CASE CloneFails(s) \/ PullRaises(s)
  <2>1. Moves /\ pc' = "loop"
    BY <1>4 DEF CloneFails, PullRaises, Leave
  <2> QED BY <2>1, MoveStep
<1>5. CASE Process(s)
  <2>1. /\ Moves /\ pc' = "data" /\ current' = s
        /\ s \notin Subversion => clone[s] = "good"
    BY <1>5 DEF Process, GoTo, LooksEmpty
  <2> QED BY <2>1, MoveStep
<1>6. CASE Clone(s) \/ Pull(s) \/ PullForced(s)
  <2>1. /\ \E state \in {"none", "good"} : SetClone(s, state)
        /\ UNCHANGED <<remote, files, newest, versions>> /\ pc' = "sourced"
    BY <1>6 DEF Clone, Pull, PullForced, GoTo
  <2> QED BY <2>1, CloneStep
<1>7. CASE CleanupFails(s)
  <2>1. /\ SetClone(s, "broken")
        /\ UNCHANGED <<remote, files, newest, versions>> /\ pc' = "loop"
    BY <1>7 DEF CleanupFails, Leave
  <2> QED BY <2>1, CloneStep
<1>8. CASE GetGitVersions(s)
  <2> DEFINE new == {v \in local[s] : v > newest[s]}
  <2>1. new \in SUBSET Version BY DEF IInv, TypeOK
  <2>2. NewestOnly(new) = new BY <2>1, NothingIsLeftOut
  <2> HIDE DEF new
  <2>3. s \notin Subversion /\ KnowsLatest(s) /\ Collect(s, new)
    BY <1>8, <2>2 DEF GetGitVersions, new
  <2> QED BY <2>3, CollectStep DEF new
<1>9. CASE GetSubversionLog(s)
  <2> DEFINE new == {v \in history[s] : v >= newest[s]}
  <2>1. new \in SUBSET Version BY DEF IInv, TypeOK
  <2>2. OldestOnly(new) = new BY <2>1, NothingIsLeftOut
  <2> HIDE DEF new
  <2>3. s \in Subversion /\ Collect(s, new)
    BY <1>9, <2>2 DEF GetSubversionLog, new
  <2> QED BY <2>3, CollectStep DEF new
<1>10. CASE DataForced(s)
  <2>1. /\ newest' = [newest EXCEPT ![s] = 0] /\ pc' = "loop"
        /\ UNCHANGED <<remote, files, versions>>
        /\ UNCHANGED clones \/ \E state \in {"none", "broken"} : SetClone(s, state)
    BY <1>10 DEF DataForced, Leave
  <2> QED BY <2>1, ForgetStep
<1>11. CASE GetGitLatest(s) \/ GetSubversionLatest(s)
  BY <1>11, GetLatestStep
<1>12. CASE LatestFails(s)
  <2>1. /\ pc' = "loop" /\ UNCHANGED <<remote, clones, files, versions>>
        /\ newest' = [newest EXCEPT ![s] = IF force THEN 0 ELSE newest[s]]
    BY <1>12 DEF LatestFails, Leave
  <2>2. CASE force
    BY <2>1, <2>2, ForgetStep
  <2>3. CASE ~force
    <3>1. newest' = newest BY <2>1, <2>3 DEF IInv, TypeOK
    <3> QED BY <2>1, <3>1, MoveStep
  <2> QED BY <2>2, <2>3
<1> QED BY <1>1, <1>2, <1>3, <1>4, <1>5, <1>6, <1>7, <1>8, <1>9, <1>10, <1>11, <1>12
        DEF Gather, FromSource, ProcessRepo

LEMMA InvStep ==
  ASSUME SubversionIsQuiet, NothingIsLimited
  PROVE  IInv /\ [Next]_vars => IInv'
<1> SUFFICES ASSUME IInv, [Next]_vars PROVE IInv'
  OBVIOUS
<1>1. TypeOK' BY TypeStep DEF IInv
<1>2. CASE UNCHANGED vars
  BY <1>2 DEF vars, remote, clones, files, run, IInv, TypeOK, HeadIsNewest,
              CloneIsOld, LatestIsOld, NewestIsSound, DataHasClone,
              ReadIsComplete, NoCommitIsSkipped, LatestIsCollected
<1>3. ASSUME NEW s \in Sources, Change(s) PROVE IInv'
  <2>1. CASE Push(s)
    BY <1>1, <2>1, MakeStep DEF Push
  <2>2. CASE Rewrite(s)
    BY <1>1, <2>2, MakeStep DEF Rewrite
  <2>3. CASE Elsewhere(s)
    BY <1>1, <2>3, MakeStep DEF Elsewhere
  <2> QED BY <1>3, <2>1, <2>2, <2>3 DEF Change
<1>4. ASSUME NEW f \in BOOLEAN, Start(f) PROVE IInv'
  BY <1>1, <1>4, StartStep
<1>5. ASSUME NEW s \in Sources, Gather(s) PROVE IInv'
  BY <1>1, <1>5, GatherStep
<1>6. CASE Export
  <2>1. /\ Stop /\ UNCHANGED <<remote, clones>> /\ latest' = newest
        /\ collected' = [s \in Sources |-> collected[s] \cup versions[s]]
    BY <1>6 DEF Export
  <2> QED BY <1>1, <2>1, StopStep
<1>7. CASE Abort
  <2>1. /\ Stop /\ UNCHANGED <<remote, files>>
        /\ UNCHANGED clones \/ SetClone(current, "broken")
    BY <1>7 DEF Abort
  <2> QED BY <1>1, <2>1, StopStep
<1> QED BY <1>2, <1>3, <1>4, <1>5, <1>6, <1>7 DEF Next, Step

\* What the run knows is sound at each of its steps, for Subversion repositories
\* that do not change while they are read and repositories below the limits.
THEOREM InvariantHolds ==
  ASSUME SubversionIsQuiet, NothingIsLimited
  PROVE  Spec => []IInv
<1>1. Init => IInv BY InvInit
<1>2. IInv /\ [Next]_vars => IInv' BY InvStep
<1> QED BY <1>1, <1>2, PTL DEF Spec

\* No version is before the latest version of process() and not collected.
THEOREM NothingIsSkipped ==
  ASSUME SubversionIsQuiet, NothingIsLimited
  PROVE  Spec => []NoCommitIsSkipped
<1>1. IInv => NoCommitIsSkipped BY DEF IInv
<1> QED BY <1>1, InvariantHolds, PTL

\* The latest version that process() keeps is one that it has collected.
THEOREM LatestWasCollected ==
  ASSUME SubversionIsQuiet, NothingIsLimited
  PROVE  Spec => []LatestIsCollected
<1>1. IInv => LatestIsCollected BY DEF IInv
<1> QED BY <1>1, InvariantHolds, PTL

(***************************************************************************)
(* SvnDifference: the statistics of a version                              *)
(***************************************************************************)
LEMMA SmallestOfNumbers ==
  ASSUME NEW S \in SUBSET Nat, S # {}
  PROVE  \E x \in S : \A y \in S : x <= y
<1>1. PICK x \in S : \A y \in S : ~(<<y, x>> \in OpToRel(<, Nat))
  <2>1. S \subseteq Nat OBVIOUS
  <2> QED BY <2>1, WFMin, NatLessThanWellFounded
<1>2. ASSUME NEW y \in S PROVE x <= y
  <2>1. x \in Nat /\ y \in Nat /\ ~(y < x) BY <1>1 DEF OpToRel
  <2> QED BY <2>1
<1> QED BY <1>2

Fields == {"insertions", "deletions"}
Row == [type : {"modified", "added", "deleted"}, insertions : Nat, deletions : Nat]

\* Sum(r, field) is sums[Len(r)] for the function of the sums of its first rows.
SumStep(r, field, sums) ==
    [n \in 0 .. Len(r) |-> IF n = 0 THEN 0 ELSE sums[n - 1] + r[n][field]]
Sums(r, field) == CHOOSE sums : sums = SumStep(r, field, sums)

LEMMA FieldsAreNumbers ==
  ASSUME NEW r \in Seq(Row), NEW n \in 1 .. Len(r), NEW x \in Fields
  PROVE  r[n][x] \in Nat
<1>1. r[n] \in Row OBVIOUS
<1> QED BY <1>1 DEF Row, Fields

\* Such functions exist for the first k rows, and thus for all.
LEMMA SumsExist ==
  ASSUME NEW r \in Seq(Row), NEW x \in Fields
  PROVE  /\ Sums(r, x) = SumStep(r, x, Sums(r, x))
         /\ \A n \in 0 .. Len(r) : Sums(r, x)[n] \in Nat
<1> DEFINE IsSum(s, k) == \A n \in 0 .. k :
             /\ s[n] \in Nat
             /\ s[n] = IF n = 0 THEN 0 ELSE s[n - 1] + r[n][x]
           Missing == {k \in 0 .. Len(r) : ~\E s : IsSum(s, k)}
<1>1. Missing = {}
  <2> SUFFICES ASSUME Missing # {} PROVE FALSE OBVIOUS
  <2>1. PICK k \in Missing : \A y \in Missing : k <= y
    <3>1. Missing \in SUBSET Nat OBVIOUS
    <3> HIDE DEF Missing
    <3> QED BY <3>1, SmallestOfNumbers
  <2>2. k \in 0 .. Len(r) /\ Len(r) \in Nat OBVIOUS
  <2>3. CASE k = 0
    <3> DEFINE s == [n \in 0 .. 0 |-> 0]
    <3>1. IsSum(s, 0) OBVIOUS
    <3> QED BY <2>3, <3>1
  <2>4. CASE k # 0
    <3>1. k - 1 \in 0 .. Len(r) /\ ~(k <= k - 1) BY <2>2, <2>4
    <3>2. PICK s : IsSum(s, k - 1) BY <2>1, <3>1
    <3>3. r[k][x] \in Nat BY <2>2, <2>4, FieldsAreNumbers
    <3>4. PICK t : t = [n \in 0 .. k |-> IF n = k THEN s[k - 1] + r[k][x] ELSE s[n]]
      OBVIOUS
    <3>5. ASSUME NEW n \in 0 .. k
          PROVE  t[n] \in Nat /\ t[n] = IF n = 0 THEN 0 ELSE t[n - 1] + r[n][x]
      <4>1. CASE n = k
        <5>1. k - 1 \in 0 .. k - 1 /\ k - 1 \in 0 .. k /\ k - 1 # k BY <2>2, <2>4
        <5>2. s[k - 1] \in Nat BY <3>2, <5>1
        <5>3. t[k] = s[k - 1] + r[k][x] /\ t[k - 1] = s[k - 1] BY <3>4, <5>1
        <5> QED BY <2>4, <3>3, <4>1, <5>2, <5>3
      <4>2. CASE n # k
        <5>1. n \in 0 .. k - 1 BY <2>2, <4>2
        <5>2. t[n] = s[n] BY <3>4, <4>2
        <5>3. n # 0 => t[n - 1] = s[n - 1]
          <6>1. n # 0 => n - 1 \in 0 .. k /\ n - 1 # k BY <2>2, <5>1
          <6> QED BY <3>4, <6>1
        <5> QED BY <3>2, <5>1, <5>2, <5>3
      <4> QED BY <4>1, <4>2
    <3>6. \E u : IsSum(u, k) BY <3>5
    <3> QED BY <3>6
  <2> QED BY <2>3, <2>4
<1>2. PICK s : IsSum(s, Len(r))
  <2>1. Len(r) \in 0 .. Len(r) OBVIOUS
  <2> QED BY <1>1, <2>1
<1>3. PICK t : t = [n \in 0 .. Len(r) |-> s[n]] OBVIOUS
<1>4. t = SumStep(r, x, t)
  <2>1. ASSUME NEW n \in 0 .. Len(r)
        PROVE  t[n] = IF n = 0 THEN 0 ELSE t[n - 1] + r[n][x]
    <3>1. t[n] = s[n] BY <1>3
    <3>2. n # 0 => n - 1 \in 0 .. Len(r) OBVIOUS
    <3>3. n # 0 => t[n - 1] = s[n - 1] BY <1>3, <3>2
    <3> QED BY <1>2, <3>1, <3>3
  <2> QED BY <1>3, <2>1 DEF SumStep
<1>5. Sums(r, x) = SumStep(r, x, Sums(r, x)) BY <1>4 DEF Sums
<1>6. \A n \in 0 .. Len(r) : Sums(r, x)[n] \in Nat
  <2> DEFINE Wrong == {n \in 0 .. Len(r) : Sums(r, x)[n] \notin Nat}
  <2> SUFFICES ASSUME Wrong # {} PROVE FALSE OBVIOUS
  <2>1. PICK n \in Wrong : \A y \in Wrong : n <= y
    <3>1. Wrong \in SUBSET Nat OBVIOUS
    <3> HIDE DEF Wrong
    <3> QED BY <3>1, SmallestOfNumbers
  <2>2. n \in 0 .. Len(r) /\ Len(r) \in Nat OBVIOUS
  <2>3. Sums(r, x)[n] = IF n = 0 THEN 0 ELSE Sums(r, x)[n - 1] + r[n][x]
    BY <1>5, <2>2 DEF SumStep
  <2>4. CASE n = 0 BY <2>3, <2>4
  <2>5. CASE n # 0
    <3>1. n - 1 \in 0 .. Len(r) /\ ~(n <= n - 1) BY <2>2, <2>5
    <3>2. Sums(r, x)[n - 1] \in Nat BY <2>1, <3>1
    <3>3. r[n][x] \in Nat BY <2>2, <2>5, FieldsAreNumbers
    <3> QED BY <2>3, <2>5, <3>2, <3>3
  <2> QED BY <2>4, <2>5
<1> QED BY <1>5, <1>6

\* Sums of rows that agree are the same.
LEMMA SumsAgree ==
  ASSUME NEW r \in Seq(Row), NEW q \in Seq(Row), NEW x \in Fields,
         NEW k \in 0 .. Len(r), k <= Len(q),
         \A n \in 1 .. k : r[n] = q[n]
  PROVE  Sums(r, x)[k] = Sums(q, x)[k]
<1> DEFINE Apart == {n \in 0 .. k : Sums(r, x)[n] # Sums(q, x)[n]}
<1> SUFFICES ASSUME Apart # {} PROVE FALSE OBVIOUS
<1>1. PICK n \in Apart : \A y \in Apart : n <= y
  <2>1. Apart \in SUBSET Nat OBVIOUS
  <2> HIDE DEF Apart
  <2> QED BY <2>1, SmallestOfNumbers
<1>2. n \in 0 .. k /\ n \in 0 .. Len(r) /\ n \in 0 .. Len(q) /\ Len(r) \in Nat /\ Len(q) \in Nat
  OBVIOUS
<1>3. /\ Sums(r, x)[n] = IF n = 0 THEN 0 ELSE Sums(r, x)[n - 1] + r[n][x]
      /\ Sums(q, x)[n] = IF n = 0 THEN 0 ELSE Sums(q, x)[n - 1] + q[n][x]
  <2>1. Sums(r, x) = SumStep(r, x, Sums(r, x)) BY SumsExist
  <2>2. Sums(q, x) = SumStep(q, x, Sums(q, x)) BY SumsExist
  <2>3. SumStep(r, x, Sums(r, x))[n] = IF n = 0 THEN 0 ELSE Sums(r, x)[n - 1] + r[n][x]
    BY <1>2 DEF SumStep
  <2>4. SumStep(q, x, Sums(q, x))[n] = IF n = 0 THEN 0 ELSE Sums(q, x)[n - 1] + q[n][x]
    BY <1>2 DEF SumStep
  <2> QED BY <2>1, <2>2, <2>3, <2>4
<1>4. CASE n = 0 BY <1>3, <1>4
<1>5. CASE n # 0
  <2>1. n - 1 \in 0 .. k /\ ~(n <= n - 1) /\ n \in 1 .. k BY <1>2, <1>5
  <2>2. Sums(r, x)[n - 1] = Sums(q, x)[n - 1] BY <1>1, <2>1
  <2> QED BY <1>3, <1>5, <2>1, <2>2
<1> QED BY <1>4, <1>5

LEMMA SumIs ==
  ASSUME NEW r \in Seq(Row), NEW x \in Fields
  PROVE  /\ Sum(r, x) \in Nat
         /\ r = <<>> => Sum(r, x) = 0
         /\ r # <<>> => /\ Len(r) - 1 \in 0 .. Len(r)
                        /\ Sum(r, x) = Sums(r, x)[Len(r) - 1] + r[Len(r)][x]
                        /\ Sums(r, x)[Len(r) - 1] \in Nat
<1>1. Sum(r, x) = Sums(r, x)[Len(r)] BY DEF Sum, Sums, SumStep
<1>2. Len(r) \in Nat /\ Len(r) \in 0 .. Len(r) /\ (r = <<>> <=> Len(r) = 0) OBVIOUS
<1>3. Sums(r, x)[Len(r)] = IF Len(r) = 0 THEN 0 ELSE Sums(r, x)[Len(r) - 1] + r[Len(r)][x]
  <2>1. Sums(r, x) = SumStep(r, x, Sums(r, x)) BY SumsExist
  <2>2. SumStep(r, x, Sums(r, x))[Len(r)]
          = IF Len(r) = 0 THEN 0 ELSE Sums(r, x)[Len(r) - 1] + r[Len(r)][x]
    BY <1>2 DEF SumStep
  <2> QED BY <2>1, <2>2
<1>4. r # <<>> => Len(r) - 1 \in 0 .. Len(r) BY <1>2
<1> QED BY <1>1, <1>2, <1>3, <1>4, SumsExist

\* A row more, and another last row.
LEMMA SumOfMore ==
  ASSUME NEW r \in Seq(Row), NEW y \in Row, NEW x \in Fields
  PROVE  Sum(Append(r, y), x) = Sum(r, x) + y[x]
<1>1. PICK q : q = Append(r, y) OBVIOUS
<1>2. /\ q \in Seq(Row) /\ q # <<>> /\ Len(q) - 1 = Len(r) /\ q[Len(q)] = y
      /\ Len(r) \in 0 .. Len(r) /\ Len(r) <= Len(q) /\ \A n \in 1 .. Len(r) : r[n] = q[n]
  BY <1>1
<1>3. Sums(r, x)[Len(r)] = Sums(q, x)[Len(r)] BY <1>2, SumsAgree
<1>4. Sum(r, x) = Sums(r, x)[Len(r)] BY DEF Sum, Sums, SumStep
<1>5. Sum(q, x) = Sums(q, x)[Len(q) - 1] + q[Len(q)][x] BY <1>2, SumIs
<1> QED BY <1>1, <1>2, <1>3, <1>4, <1>5

LEMMA SumOfLast ==
  ASSUME NEW r \in Seq(Row), r # <<>>, NEW y \in Row, NEW x \in Fields
  PROVE  Sum([r EXCEPT ![Len(r)] = y], x) + r[Len(r)][x] = Sum(r, x) + y[x]
<1>1. PICK q : q = [r EXCEPT ![Len(r)] = y] OBVIOUS
<1>2. /\ q \in Seq(Row) /\ q # <<>> /\ Len(q) = Len(r) /\ q[Len(r)] = y /\ Len(r) - 1 \in 0 .. Len(r)
      /\ Len(r) - 1 <= Len(q) /\ \A n \in 1 .. Len(r) - 1 : r[n] = q[n]
  BY <1>1
<1>3. Sums(r, x)[Len(r) - 1] = Sums(q, x)[Len(r) - 1] BY <1>2, SumsAgree
<1>4. PICK s : s = Sums(r, x)[Len(r) - 1] OBVIOUS
<1>5. Sum(r, x) = s + r[Len(r)][x] /\ s \in Nat BY <1>4, SumIs
<1>6. Sum(q, x) = s + y[x] BY <1>2, <1>3, <1>4, SumIs
<1>7. r[Len(r)][x] \in Nat
  <2>1. Len(r) \in 1 .. Len(r) BY <1>2
  <2> QED BY <2>1, FieldsAreNumbers
<1>8. y[x] \in Nat BY DEF Row, Fields
<1> QED BY <1>1, <1>5, <1>6, <1>7, <1>8

\* The lines of a file but the one that names it.
OldLines == {"---", "--- (nonexistent)"}
NewLines == {"+++", "+++ (nonexistent)"}
Content == {"+", "-", " "}
OtherLines == OldLines \cup NewLines \cup Content \cup {"@@"}

\* While it is read: the totals and the file at hand have what svn has printed.
DiffTypeOK ==
    /\ revisions \in {"to", "from", "both", "none"}
    /\ output \in Seq(OtherLines \cup {"Index"})
    /\ truth \in Seq(Row) /\ pathRows \in Seq(Row)
    /\ totals \in [insertions : Nat, deletions : Nat, files : Nat]
    /\ inHead \in BOOLEAN /\ file \in Row \cup {NoFile}

Place ==
    /\ place = "start" <=> truth = <<>>
    /\ output = <<>> => truth = <<>>
    /\ truth = <<>> => inHead
    /\ Len(truth) = 1 /\ place \in {"index", "old", "new"} => inHead
    /\ place \in {"hunk", "lines"} => ~inHead

Counted ==
    /\ file = NoFile <=> truth = <<>>
    /\ Len(truth) = 1 => file = truth[1]
    /\ totals.files = Len(truth)
    /\ ~OneVersion => pathRows = <<>>
    /\ OneVersion =>
         /\ truth = <<>> => pathRows = <<>>
         /\ truth # <<>> => Len(pathRows) = Len(truth) - 1
         /\ Len(truth) > 1 => pathRows[1] = truth[1]
         /\ \A x \in Fields : totals[x] = Sum(pathRows, x)
    /\ \A x \in Fields : totals[x] + file[x] >= Sum(truth, x)

DifferenceInv == DiffTypeOK /\ (~data.done => Place /\ Counted) /\ StatisticsAddUp

\* What a row and the file at hand become with another line.
RowAfter(row, kind) ==
    CASE kind = "--- (nonexistent)" -> [row EXCEPT !.type = "added"]
      [] kind = "+++ (nonexistent)" -> [row EXCEPT !.type = "deleted"]
      [] kind = "+" -> [row EXCEPT !.insertions = @ + 1]
      [] kind = "-" -> [row EXCEPT !.deletions = @ + 1]
      [] OTHER -> row

FileAfter(line) == IF inHead THEN HeadOf(file, line) ELSE ParseContent(file, line)

LEMMA RowsAreCounts ==
  /\ \A row \in Row : /\ row.type \in {"modified", "added", "deleted"}
                      /\ row.insertions \in Nat /\ row.deletions \in Nat /\ row # NoFile
  /\ NewFile \in Row
  /\ \A x \in Fields : NewFile[x] = 0 /\ NoFile[x] = 0
BY DEF Row, NoFile, NewFile, Fields

LEMMA RowAfterIs ==
  ASSUME NEW row \in Row, NEW line \in OtherLines
  PROVE  /\ RowAfter(row, line) \in Row
         /\ RowAfter(row, line).insertions = row.insertions + (IF line = "+" THEN 1 ELSE 0)
         /\ RowAfter(row, line).deletions = row.deletions + (IF line = "-" THEN 1 ELSE 0)
<1>6. row.insertions \in Nat /\ row.deletions \in Nat BY RowsAreCounts
<1>1. CASE line = "--- (nonexistent)"
  <2>1. PICK now : now = [row EXCEPT !.type = "added"] OBVIOUS
  <2>2. RowAfter(row, line) = now BY <1>1, <2>1 DEF RowAfter
  <2>3. now \in Row /\ now.insertions = row.insertions /\ now.deletions = row.deletions
    BY <2>1 DEF Row
  <2>4. line # "+" /\ line # "-" BY <1>1
  <2> QED BY <1>6, <2>2, <2>3, <2>4
<1>2. CASE line = "+++ (nonexistent)"
  <2>1. PICK now : now = [row EXCEPT !.type = "deleted"] OBVIOUS
  <2>2. RowAfter(row, line) = now BY <1>2, <2>1 DEF RowAfter
  <2>3. now \in Row /\ now.insertions = row.insertions /\ now.deletions = row.deletions
    BY <2>1 DEF Row
  <2>4. line # "+" /\ line # "-" BY <1>2
  <2> QED BY <1>6, <2>2, <2>3, <2>4
<1>3. CASE line = "+"
  <2>1. PICK now : now = [row EXCEPT !.insertions = @ + 1] OBVIOUS
  <2>2. RowAfter(row, line) = now BY <1>3, <2>1 DEF RowAfter
  <2>3. now \in Row /\ now.insertions = row.insertions + 1 /\ now.deletions = row.deletions
    BY <2>1 DEF Row
  <2>4. line # "-" BY <1>3
  <2> QED BY <1>3, <1>6, <2>2, <2>3, <2>4
<1>4. CASE line = "-"
  <2>1. PICK now : now = [row EXCEPT !.deletions = @ + 1] OBVIOUS
  <2>2. RowAfter(row, line) = now BY <1>4, <2>1 DEF RowAfter
  <2>3. now \in Row /\ now.insertions = row.insertions /\ now.deletions = row.deletions + 1
    BY <2>1 DEF Row
  <2>4. line # "+" BY <1>4
  <2> QED BY <1>4, <1>6, <2>2, <2>3, <2>4
<1>5. CASE line \in {"---", "+++", " ", "@@"}
  <2>1. RowAfter(row, line) = row BY <1>5 DEF RowAfter
  <2>2. line # "+" /\ line # "-" BY <1>5
  <2> QED BY <1>6, <2>1, <2>2
<1> QED BY <1>1, <1>2, <1>3, <1>4, <1>5 DEF OtherLines, OldLines, NewLines, Content

LEMMA HeadOfIs ==
  ASSUME NEW row \in Row, NEW line \in OtherLines
  PROVE  /\ HeadOf(row, line) \in Row
         /\ HeadOf(row, line).insertions = row.insertions
         /\ HeadOf(row, line).deletions = row.deletions
         /\ line \notin Content => HeadOf(row, line) = RowAfter(row, line)
<1>1. CASE line = "--- (nonexistent)" BY <1>1 DEF Row, HeadOf, RowAfter
<1>2. CASE line = "+++ (nonexistent)" BY <1>2 DEF Row, HeadOf, RowAfter
<1>3. CASE line \in {"---", "+++", "@@"} BY <1>3 DEF Row, HeadOf, RowAfter
<1>4. CASE line \in Content BY <1>4 DEF Row, HeadOf, Content
<1> QED BY <1>1, <1>2, <1>3, <1>4 DEF OtherLines, OldLines, NewLines, Content

LEMMA ContentIs ==
  ASSUME NEW row \in Row, NEW line \in OtherLines
  PROVE  /\ ParseContent(row, line) \in Row
         /\ ParseContent(row, line).insertions >= RowAfter(row, line).insertions
         /\ ParseContent(row, line).deletions >= RowAfter(row, line).deletions
         /\ line \in Content \cup {"@@"} => ParseContent(row, line) = RowAfter(row, line)
<1>1. /\ row.insertions \in Nat /\ row.deletions \in Nat
      /\ RowAfter(row, line).insertions = row.insertions + (IF line = "+" THEN 1 ELSE 0)
      /\ RowAfter(row, line).deletions = row.deletions + (IF line = "-" THEN 1 ELSE 0)
  BY RowsAreCounts, RowAfterIs
<1>2. CASE line \in Plus
  <2>6. line \notin Minus BY <1>2 DEF Minus, Plus
  <2>1. ParseContent(row, line) = [row EXCEPT !.insertions = @ + 1] BY <1>2, <2>6 DEF ParseContent
  <2>2. /\ [row EXCEPT !.insertions = @ + 1] \in Row
        /\ [row EXCEPT !.insertions = @ + 1].insertions = row.insertions + 1
        /\ [row EXCEPT !.insertions = @ + 1].deletions = row.deletions
    BY DEF Row
  <2>3. line # "-" BY <1>2 DEF Plus
  <2>4. line \in Content \cup {"@@"} => line = "+" BY <1>2 DEF Plus, Content
  <2>5. line = "+" => RowAfter(row, line) = [row EXCEPT !.insertions = @ + 1] BY DEF RowAfter
  <2> QED BY <1>1, <2>1, <2>2, <2>3, <2>4, <2>5
<1>3. CASE line \in Minus
  <2>1. line \notin Plus BY <1>3 DEF Minus, Plus
  <2>2. ParseContent(row, line) = [row EXCEPT !.deletions = @ + 1] BY <1>3, <2>1 DEF ParseContent
  <2>3. /\ [row EXCEPT !.deletions = @ + 1] \in Row
        /\ [row EXCEPT !.deletions = @ + 1].insertions = row.insertions
        /\ [row EXCEPT !.deletions = @ + 1].deletions = row.deletions + 1
    BY DEF Row
  <2>4. line # "+" BY <1>3 DEF Minus
  <2>5. line \in Content \cup {"@@"} => line = "-" BY <1>3 DEF Minus, Content
  <2>6. line = "-" => RowAfter(row, line) = [row EXCEPT !.deletions = @ + 1] BY DEF RowAfter
  <2> QED BY <1>1, <2>2, <2>3, <2>4, <2>5, <2>6
<1>4. CASE line \in {" ", "@@"}
  <2>1. line \notin Plus /\ line \notin Minus BY <1>4 DEF Plus, Minus
  <2>2. ParseContent(row, line) = row BY <2>1 DEF ParseContent
  <2>3. RowAfter(row, line) = row BY <1>4 DEF RowAfter
  <2> QED BY <1>1, <2>2, <2>3
<1> QED BY <1>2, <1>3, <1>4 DEF Plus, Minus, OtherLines, OldLines, NewLines, Content

LEMMA DifferenceStarts == DifferenceInit => DifferenceInv
<1> SUFFICES ASSUME DifferenceInit PROVE DifferenceInv OBVIOUS
<1>1. DiffTypeOK BY DEF DifferenceInit, DiffTypeOK
<1>2. Place BY DEF DifferenceInit, Place
<1>3. Counted
  <2>1. \A x \in Fields : totals[x] = 0 /\ file[x] = 0 BY RowsAreCounts DEF DifferenceInit, Fields
  <2>2. <<>> \in Seq(Row) OBVIOUS
  <2>3. \A x \in Fields : Sum(<<>>, x) = 0 BY <2>2, SumIs
  <2> QED BY <2>1, <2>3 DEF DifferenceInit, Counted
<1>4. StatisticsAddUp BY DEF DifferenceInit, NothingCounted, StatisticsAddUp
<1> QED BY <1>1, <1>2, <1>3, <1>4 DEF DifferenceInv

\* A file begins, and the one before it gets its row.
LEMMA IndexKeeps ==
  ASSUME DifferenceInv, IndexLine
  PROVE  DifferenceInv'
<1>1. /\ ~data.done /\ UNCHANGED <<revisions, data>> /\ place' = "index"
      /\ output' = Append(output, "Index") /\ truth' = Append(truth, NewFile)
      /\ pathRows' = RowsAfter /\ totals' = [TotalsAfter EXCEPT !.files = @ + 1]
      /\ file' = NewFile /\ inHead' = inHead
      /\ place \in {"start", "index", "hunk", "lines"}
  BY DEF IndexLine, DiffLine, ParseLine
<1>2. DiffTypeOK /\ Place /\ Counted BY <1>1 DEF DifferenceInv
<1>3. file.insertions \in Nat /\ file.deletions \in Nat
  BY <1>2, RowsAreCounts DEF DiffTypeOK, NoFile
<1>4. /\ \A x \in Fields : file[x] \in Nat /\ totals[x] \in Nat /\ totals'[x] = totals[x] + file[x]
      /\ totals' \in [insertions : Nat, deletions : Nat, files : Nat]
      /\ totals'.files = totals.files + 1
  <2>1. /\ totals.insertions \in Nat /\ totals.deletions \in Nat /\ totals.files \in Nat
        /\ totals = [insertions |-> totals.insertions, deletions |-> totals.deletions,
                     files |-> totals.files]
    BY <1>2 DEF DiffTypeOK
  <2>2. totals' = [insertions |-> totals.insertions + file.insertions,
                   deletions |-> totals.deletions + file.deletions, files |-> totals.files + 1]
    BY <1>1, <2>1 DEF TotalsAfter
  <2> QED BY <1>3, <2>1, <2>2 DEF Fields
<1>5. /\ truth' \in Seq(Row) /\ Len(truth') = Len(truth) + 1 /\ truth' # <<>>
      /\ truth'[Len(truth')] = NewFile /\ \A n \in 1 .. Len(truth) : truth'[n] = truth[n]
      /\ Len(truth) \in Nat /\ (truth = <<>> <=> Len(truth) = 0)
  <2>1. PICK t : t = truth OBVIOUS
  <2>2. t \in Seq(Row) /\ NewFile \in Row BY <1>2, <2>1, RowsAreCounts DEF DiffTypeOK
  <2>3. PICK u : u = Append(t, NewFile) OBVIOUS
  <2>4. /\ u \in Seq(Row) /\ Len(u) = Len(t) + 1 /\ u # <<>>
        /\ u[Len(u)] = NewFile /\ \A n \in 1 .. Len(t) : u[n] = t[n]
        /\ Len(t) \in Nat /\ (t = <<>> <=> Len(t) = 0)
    BY <2>2, <2>3
  <2>5. truth' = u BY <1>1, <2>1, <2>3
  <2> QED BY <2>1, <2>4, <2>5
<1>6. /\ pathRows' \in Seq(Row)
      /\ ~OneVersion => pathRows' = <<>>
      /\ OneVersion /\ truth = <<>> => pathRows' = <<>>
      /\ OneVersion /\ truth # <<>> =>
           /\ Len(pathRows') = Len(pathRows) + 1 /\ file \in Row
           /\ pathRows' = Append(pathRows, file)
           /\ \A n \in 1 .. Len(pathRows) : pathRows'[n] = pathRows[n]
           /\ pathRows'[Len(pathRows')] = file
  BY <1>1, <1>2 DEF DiffTypeOK, Counted, RowsAfter
<1>7. DiffTypeOK'
  <2>1. output' \in Seq(OtherLines \cup {"Index"})
    <3>1. output \in Seq(OtherLines \cup {"Index"}) BY <1>2 DEF DiffTypeOK
    <3> QED BY <1>1, <3>1
  <2> QED BY <1>1, <1>2, <1>4, <1>5, <1>6, <2>1, RowsAreCounts DEF DiffTypeOK
<1>8. Place'
  <2>1. output' # <<>> BY <1>1, <1>2 DEF DiffTypeOK
  <2>2. Len(truth') = 1 => inHead' BY <1>1, <1>2, <1>5 DEF Place
  <2> QED BY <1>1, <1>5, <2>1, <2>2 DEF Place
<1>9. Counted'
  <2>1. file' # NoFile BY <1>1, RowsAreCounts
  <2>2. Len(truth') = 1 => file' = truth'[1] BY <1>1, <1>5
  <2>3. totals'.files = Len(truth') BY <1>2, <1>4, <1>5 DEF Counted
  <2>4. OneVersion' <=> OneVersion BY <1>1 DEF OneVersion
  <2>5. OneVersion => Len(pathRows') = Len(truth') - 1 BY <1>2, <1>5, <1>6 DEF Counted
  <2>6. ASSUME OneVersion, Len(truth') > 1 PROVE pathRows'[1] = truth'[1]
    <3>1. truth # <<>> /\ truth'[1] = truth[1] /\ Len(truth) >= 1 BY <1>5, <2>6
    <3>2. CASE Len(truth) = 1
      <4>1. file = truth[1] /\ Len(pathRows') = 1 BY <1>2, <2>5, <1>5, <2>6, <3>2 DEF Counted
      <4> QED BY <1>6, <2>6, <3>1, <4>1
    <3>3. CASE Len(truth) > 1
      <4>1. pathRows[1] = truth[1] /\ 1 \in 1 .. Len(pathRows)
        BY <1>2, <1>5, <2>6, <3>1, <3>3 DEF Counted
      <4> QED BY <1>6, <2>6, <3>1, <4>1
    <3>4. Len(truth) = 1 \/ Len(truth) > 1
      <4>1. PICK n : n = Len(truth) OBVIOUS
      <4>2. n \in Nat /\ n >= 1 BY <1>5, <3>1, <4>1
      <4> QED BY <4>1, <4>2
    <3> QED BY <3>2, <3>3, <3>4
  <2>7. ASSUME OneVersion, NEW x \in Fields PROVE totals'[x] = Sum(pathRows', x)
    <3>1. totals[x] = Sum(pathRows, x) BY <1>2, <2>7 DEF Counted
    <3>2. CASE truth = <<>>
      <4>1. file[x] = 0 /\ pathRows' = pathRows BY <1>2, <1>6, <2>7, <3>2, RowsAreCounts DEF Counted
      <4> QED BY <1>4, <3>1, <4>1
    <3>3. CASE truth # <<>>
      <4>1. pathRows \in Seq(Row) /\ file \in Row /\ pathRows' = Append(pathRows, file)
        BY <1>2, <1>6, <2>7, <3>3 DEF DiffTypeOK
      <4>2. Sum(Append(pathRows, file), x) = Sum(pathRows, x) + file[x] BY <4>1, SumOfMore
      <4> QED BY <1>4, <3>1, <4>1, <4>2
    <3> QED BY <3>2, <3>3
  <2>8. ASSUME NEW x \in Fields PROVE totals'[x] + file'[x] >= Sum(truth', x)
    <3>1. truth \in Seq(Row) BY <1>2 DEF DiffTypeOK
    <3>2. Sum(truth', x) = Sum(truth, x) + NewFile[x] BY <1>1, <3>1, SumOfMore, RowsAreCounts
    <3>3. NewFile[x] = 0 /\ file'[x] = 0 BY <1>1, RowsAreCounts
    <3>4. totals[x] + file[x] >= Sum(truth, x) /\ Sum(truth, x) \in Nat
      BY <1>2, <3>1, SumIs DEF Counted
    <3> QED BY <1>4, <3>2, <3>3, <3>4
  <2> QED BY <1>5, <1>6, <2>1, <2>2, <2>3, <2>4, <2>5, <2>6, <2>7, <2>8 DEF Counted
<1>10. StatisticsAddUp' BY <1>1 DEF StatisticsAddUp
<1> QED BY <1>7, <1>8, <1>9, <1>10 DEF DifferenceInv

\* Another line of the file at hand.
LEMMA LineKeeps ==
  ASSUME DifferenceInv, NEW line \in OtherLines, NEW from, NEW to,
         DiffLine(line, from, to), "start" \notin from, to # "start",
         place' \in {"index", "old", "new"} => place \in {"index", "old", "new"},
         to \in {"hunk", "lines"} <=> line \in Content \cup {"@@"},
         line \in Content \cup {"@@"} \/ place \in {"index", "old", "new"},
         line \in Content => place \in {"hunk", "lines"}
  PROVE  DifferenceInv'
<1>1. /\ ~data.done /\ UNCHANGED <<revisions, data, pathRows, totals>> /\ place' = to
      /\ place \in from /\ output' = Append(output, line) /\ truth' = After(line)
      /\ DiffTypeOK /\ Place /\ Counted
  BY DEF DiffLine, ParseLine, DifferenceInv, OtherLines, OldLines, NewLines, Content
<1>2. /\ truth # <<>> /\ truth \in Seq(Row) /\ Len(truth) \in Nat /\ Len(truth) # 0
      /\ Len(truth) \in 1 .. Len(truth)
      /\ truth[Len(truth)] \in Row /\ file \in Row /\ file # NoFile
  BY <1>1 DEF Place, Counted, DiffTypeOK
<1>3. /\ file' = FileAfter(line)
      /\ inHead' = (inHead /\ line # "@@")
  <2>1. line # "Index" BY DEF OtherLines, OldLines, NewLines, Content
  <2>2. IF inHead THEN inHead' = (line # "@@") /\ file' = HeadOf(file, line)
        ELSE UNCHANGED inHead /\ file' = ParseContent(file, line)
    BY <1>2, <2>1 DEF DiffLine, ParseLine
  <2>3. inHead \in BOOLEAN BY <1>1 DEF DiffTypeOK
  <2> QED BY <2>2, <2>3 DEF FileAfter
<1>4. PICK row : row = truth[Len(truth)] OBVIOUS
<1>5. PICK now : now = RowAfter(row, line) OBVIOUS
<1>6. row \in Row /\ now \in Row BY <1>2, <1>4, <1>5, RowAfterIs
<1>7. truth' = [truth EXCEPT ![Len(truth)] = now]
  <2>1. After(line) = [truth EXCEPT ![Len(truth)] = RowAfter(truth[Len(truth)], line)]
    BY <1>2 DEF After, RowAfter
  <2> QED BY <1>1, <1>4, <1>5, <2>1
<1>8. /\ truth' \in Seq(Row) /\ Len(truth') = Len(truth) /\ truth' # <<>>
      /\ truth'[Len(truth)] = now
      /\ \A n \in 1 .. Len(truth) : n # Len(truth) => truth'[n] = truth[n]
  BY <1>2, <1>6, <1>7
<1>9. file' \in Row /\ file'.insertions >= file.insertions + (now.insertions - row.insertions)
      /\ file'.deletions >= file.deletions + (now.deletions - row.deletions)
  <2>1. /\ row.insertions \in Nat /\ row.deletions \in Nat /\ file.insertions \in Nat
        /\ file.deletions \in Nat
    BY <1>2, <1>6, RowsAreCounts
  <2>2. /\ now.insertions = row.insertions + (IF line = "+" THEN 1 ELSE 0)
        /\ now.deletions = row.deletions + (IF line = "-" THEN 1 ELSE 0)
    BY <1>5, <1>6, RowAfterIs
  <2>3. /\ RowAfter(file, line).insertions = file.insertions + (IF line = "+" THEN 1 ELSE 0)
        /\ RowAfter(file, line).deletions = file.deletions + (IF line = "-" THEN 1 ELSE 0)
    BY <1>2, RowAfterIs
  <2>4. CASE inHead
    <3>1. line \notin Content BY <1>1, <2>4 DEF Place
    <3>2. file' = HeadOf(file, line) BY <1>3, <2>4 DEF FileAfter
    <3>3. line # "+" /\ line # "-" BY <3>1 DEF Content
    <3> QED BY <1>2, <2>1, <2>2, <3>2, <3>3, HeadOfIs
  <2>5. CASE ~inHead
    <3>1. file' = ParseContent(file, line) BY <1>3, <2>5 DEF FileAfter
    <3>2. PICK p : p = ParseContent(file, line) OBVIOUS
    <3>3. p \in Row /\ p.insertions >= RowAfter(file, line).insertions
          /\ p.deletions >= RowAfter(file, line).deletions
      BY <1>2, <3>2, ContentIs
    <3>4. p.insertions \in Nat /\ p.deletions \in Nat BY <3>3, RowsAreCounts
    <3> QED BY <2>1, <2>2, <2>3, <3>1, <3>2, <3>3, <3>4
  <2> QED BY <2>4, <2>5
<1>10. DiffTypeOK'
  <2>1. output' \in Seq(OtherLines \cup {"Index"})
    <3>1. output \in Seq(OtherLines \cup {"Index"}) BY <1>1 DEF DiffTypeOK
    <3> QED BY <1>1, <3>1
  <2>2. inHead' \in BOOLEAN BY <1>3
  <2> QED BY <1>1, <1>8, <1>9, <2>1, <2>2 DEF DiffTypeOK
<1>11. Place'
  <2>1. output' # <<>> BY <1>1 DEF DiffTypeOK
  <2>2. place' \in {"hunk", "lines"} => ~inHead' BY <1>1, <1>3 DEF Place
  <2>3. ASSUME Len(truth') = 1, place' \in {"index", "old", "new"} PROVE inHead'
    <3>1. inHead BY <1>1, <1>8, <2>3 DEF Place
    <3>2. line # "@@" BY <1>1, <2>3
    <3> QED BY <1>3, <3>1, <3>2
  <2> QED BY <1>1, <1>8, <2>1, <2>2, <2>3 DEF Place
<1>12. Counted'
  <2>1. file' # NoFile BY <1>9, RowsAreCounts
  <2>2. ASSUME Len(truth') = 1 PROVE file' = truth'[1]
    <3>1. Len(truth) = 1 /\ file = truth[1] /\ row = file /\ truth'[1] = now
      BY <1>1, <1>4, <1>8, <2>2 DEF Counted
    <3>2. CASE inHead
      <4>1. line \notin Content BY <1>1, <3>2 DEF Place
      <4> QED BY <1>2, <1>3, <1>5, <3>1, <3>2, <4>1, HeadOfIs DEF FileAfter
    <3>3. CASE ~inHead
      <4>1. place \notin {"index", "old", "new"} BY <1>1, <3>1, <3>3 DEF Place
      <4>2. line \in Content \cup {"@@"} BY <1>1, <4>1 
      <4> QED BY <1>2, <1>3, <1>5, <3>1, <3>3, <4>2, ContentIs DEF FileAfter
    <3> QED BY <3>2, <3>3
  <2>3. OneVersion' <=> OneVersion BY <1>1 DEF OneVersion
  <2>4. ASSUME Len(truth') > 1, OneVersion PROVE pathRows'[1] = truth'[1]
    BY <1>1, <1>2, <1>8, <2>4 DEF Counted
  <2>5. ASSUME NEW x \in Fields PROVE totals'[x] + file'[x] >= Sum(truth', x)
    <3>1. Sum([truth EXCEPT ![Len(truth)] = now], x) + truth[Len(truth)][x] = Sum(truth, x) + now[x]
      BY <1>2, <1>6, SumOfLast
    <3>2. Sum(truth', x) + row[x] = Sum(truth, x) + now[x] BY <1>4, <1>7, <3>1
    <3>3. row[x] \in Nat /\ now[x] \in Nat /\ file[x] \in Nat /\ file'[x] \in Nat /\ totals[x] \in Nat
      BY <1>1, <1>2, <1>6, <1>9 DEF Row, Fields, DiffTypeOK
    <3>4. Sum(truth', x) \in Nat /\ Sum(truth, x) \in Nat BY <1>2, <1>8, SumIs
    <3>5. totals[x] + file[x] >= Sum(truth, x) BY <1>1 DEF Counted
    <3>6. file'[x] >= file[x] + (now[x] - row[x]) BY <1>9 DEF Fields
    <3>7. totals'[x] = totals[x] BY <1>1
    <3> QED BY <3>2, <3>3, <3>4, <3>5, <3>6, <3>7
  <2> QED BY <1>1, <1>2, <1>8, <2>1, <2>2, <2>3, <2>4, <2>5 DEF Counted
<1>13. StatisticsAddUp' BY <1>1 DEF StatisticsAddUp
<1> QED BY <1>10, <1>11, <1>12, <1>13 DEF DifferenceInv

\* get_data: the last file gets its row, and the totals are taken.
LEMMA DataKeeps ==
  ASSUME DifferenceInv, GetData
  PROVE  DifferenceInv'
<1>1. /\ ~data.done /\ DiffTypeOK /\ Counted
      /\ UNCHANGED <<revisions, output, place, truth, inHead, file>>
      /\ pathRows' = RowsAfter /\ totals' = TotalsAfter
      /\ data'.insertions = totals'.insertions /\ data'.deletions = totals'.deletions
      /\ data'.files = totals.files /\ data'.done
  BY DEF GetData, DifferenceInv
<1>2. file.insertions \in Nat /\ file.deletions \in Nat
  BY <1>1, RowsAreCounts DEF DiffTypeOK, NoFile
<1>3. /\ \A x \in Fields : file[x] \in Nat /\ totals[x] \in Nat /\ totals'[x] = totals[x] + file[x]
      /\ totals' \in [insertions : Nat, deletions : Nat, files : Nat]
      /\ totals'.files = totals.files
  <2>1. /\ totals.insertions \in Nat /\ totals.deletions \in Nat /\ totals.files \in Nat
        /\ totals = [insertions |-> totals.insertions, deletions |-> totals.deletions,
                     files |-> totals.files]
    BY <1>1 DEF DiffTypeOK
  <2>2. totals' = [insertions |-> totals.insertions + file.insertions,
                   deletions |-> totals.deletions + file.deletions, files |-> totals.files]
    BY <1>1, <2>1 DEF TotalsAfter
  <2> QED BY <1>2, <2>1, <2>2 DEF Fields
<1>4. CASE truth = <<>>
  <2>1. file = NoFile /\ pathRows = <<>> /\ pathRows' = pathRows
    BY <1>1, <1>4 DEF Counted, RowsAfter
  <2>2. \A x \in Fields : file[x] = 0 BY <2>1, RowsAreCounts
  <2>3. pathRows' \in Seq(Row) /\ Len(pathRows') = 0 BY <2>1
  <2>4. \A x \in Fields : /\ OneVersion => totals'[x] = Sum(pathRows', x)
                          /\ totals'[x] >= Sum(truth', x)
    BY <1>1, <1>3, <1>4, <2>1, <2>2 DEF Counted
  <2>5. DiffTypeOK' BY <1>1, <1>3, <2>3 DEF DiffTypeOK
  <2>6. StatisticsAddUp'
    BY <1>1, <1>4, <2>1, <2>3, <2>4 DEF StatisticsAddUp, OneVersion, Counted, Fields
  <2> QED BY <1>1, <2>5, <2>6 DEF DifferenceInv
<1>5. CASE truth # <<>>
  <2>1. file \in Row /\ file # NoFile BY <1>1, <1>5 DEF Counted, DiffTypeOK
  <2>2. pathRows' \in Seq(Row) BY <1>1, <2>1 DEF DiffTypeOK, RowsAfter
  <2>3. Len(truth) \in Nat /\ Len(truth) >= 1 BY <1>1, <1>5 DEF DiffTypeOK
  <2>4. ASSUME OneVersion
        PROVE  /\ pathRows' = Append(pathRows, file) /\ Len(pathRows') = Len(truth)
               /\ pathRows'[1] = truth[1]
    <3>1. pathRows' = Append(pathRows, file) /\ pathRows \in Seq(Row) /\ Len(pathRows) = Len(truth) - 1
      BY <1>1, <1>5, <2>1, <2>4 DEF RowsAfter, DiffTypeOK, Counted
    <3>2. Len(pathRows') = Len(truth) BY <2>3, <3>1
    <3>3. CASE Len(truth) = 1
      <4>1. file = truth[1] BY <1>1, <3>3 DEF Counted
      <4> QED BY <3>1, <3>2, <3>3, <4>1
    <3>4. CASE Len(truth) > 1
      <4>1. pathRows[1] = truth[1] BY <1>1, <2>4, <3>4 DEF Counted
      <4> QED BY <2>3, <3>1, <3>2, <3>4, <4>1
    <3> QED BY <2>3, <3>1, <3>2, <3>3, <3>4
  <2>5. ASSUME NEW x \in Fields
        PROVE  /\ OneVersion => totals'[x] = Sum(pathRows', x)
               /\ totals'[x] >= Sum(truth', x)
    <3>1. pathRows \in Seq(Row) BY <1>1 DEF DiffTypeOK
    <3>2. Sum(Append(pathRows, file), x) = Sum(pathRows, x) + file[x] BY <2>1, <3>1, SumOfMore
    <3>3. OneVersion => totals[x] = Sum(pathRows, x) BY <1>1 DEF Counted
    <3>4. totals[x] + file[x] >= Sum(truth, x) BY <1>1 DEF Counted
    <3> QED BY <1>1, <1>3, <2>4, <3>2, <3>3, <3>4
  <2>6. DiffTypeOK' BY <1>1, <1>3, <2>2 DEF DiffTypeOK
  <2>7. StatisticsAddUp'
    <3>1. OneVersion' <=> OneVersion BY <1>1 DEF OneVersion
    <3>2. ~OneVersion => pathRows' = <<>> BY <1>1 DEF Counted, RowsAfter
    <3> QED BY <1>1, <2>4, <2>5, <3>1, <3>2 DEF StatisticsAddUp, Counted, Fields
  <2> QED BY <1>1, <2>6, <2>7 DEF DifferenceInv
<1> QED BY <1>4, <1>5

LEMMA DifferenceStep ==
  DifferenceInv /\ [DifferenceNext]_differenceVars => DifferenceInv'
<1> SUFFICES ASSUME DifferenceInv, [DifferenceNext]_differenceVars PROVE DifferenceInv'
  OBVIOUS
<1>1. CASE IndexLine BY <1>1, IndexKeeps
<1>2. ASSUME NEW line \in OldLines, OldLine(line) PROVE DifferenceInv'
  <2>1. DiffLine(line, {"index"}, "old") /\ place = "index" /\ line \in OtherLines
        /\ line \notin Content \cup {"@@"}
    BY <1>2 DEF OldLine, OtherLines, OldLines, Content, DiffLine
  <2> QED BY <2>1, LineKeeps
<1>3. ASSUME NEW line \in NewLines, NewLine(line) PROVE DifferenceInv'
  <2>1. DiffLine(line, {"old"}, "new") /\ place = "old" /\ line \in OtherLines
        /\ line \notin Content \cup {"@@"}
    BY <1>3 DEF NewLine, OtherLines, NewLines, Content, DiffLine
  <2> QED BY <2>1, LineKeeps
<1>4. CASE HunkLine
  <2>1. DiffLine("@@", {"new", "lines"}, "hunk") /\ place' = "hunk" /\ "@@" \in OtherLines
        /\ "@@" \notin Content
    BY <1>4 DEF HunkLine, OtherLines, Content, DiffLine
  <2> QED BY <2>1, LineKeeps
<1>5. ASSUME NEW line \in Content, ContentLine(line) PROVE DifferenceInv'
  <2>1. DiffLine(line, {"hunk", "lines"}, "lines") /\ place' = "lines" /\ line \in OtherLines
        /\ place \in {"hunk", "lines"}
    BY <1>5 DEF ContentLine, OtherLines, Content, DiffLine
  <2> QED BY <2>1, LineKeeps
<1>6. CASE GetData BY <1>6, DataKeeps
<1>7. CASE DiffFails
  <2>1. /\ ~data.done /\ output = <<>> /\ DiffTypeOK /\ Place /\ Counted
        /\ UNCHANGED <<revisions, output, place, truth, inHead, file, pathRows, totals>>
        /\ data'.done /\ data'.insertions = 0 /\ data'.deletions = 0 /\ data'.files = 0
    BY <1>7 DEF DiffFails, DifferenceInv, NothingCounted
  <2>2. truth = <<>> /\ pathRows = <<>> BY <2>1 DEF Place, Counted
  <2>3. <<>> \in Seq(Row) OBVIOUS
  <2>4. Sum(<<>>, "insertions") = 0 /\ Sum(<<>>, "deletions") = 0 BY <2>3, SumIs DEF Fields
  <2>5. StatisticsAddUp' BY <2>1, <2>2, <2>4 DEF StatisticsAddUp
  <2>6. DiffTypeOK' BY <2>1 DEF DiffTypeOK
  <2> QED BY <2>1, <2>5, <2>6 DEF DifferenceInv
<1>8. CASE UNCHANGED differenceVars
  BY <1>8 DEF differenceVars, DifferenceInv, DiffTypeOK, Place, Counted, OneVersion,
              StatisticsAddUp
<1> QED BY <1>1, <1>2, <1>3, <1>4, <1>5, <1>6, <1>7, <1>8
    DEF DifferenceNext, OldLines, NewLines, Content

\* The statistics of a version are the sums of the rows of its files, whatever
\* svn prints and however the head of a file is taken for its lines.
THEOREM StatisticsAgree ==
  DifferenceInit /\ [][DifferenceNext]_differenceVars => []StatisticsAddUp
<1>1. DifferenceInv => StatisticsAddUp BY DEF DifferenceInv
<1> QED BY <1>1, DifferenceStarts, DifferenceStep, PTL

=============================================================================
