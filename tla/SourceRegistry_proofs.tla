------------------------ MODULE SourceRegistry_proofs ------------------------
(***************************************************************************)
(* Proofs about SourceRegistry: the two indexes are those of the set of    *)
(* sources after every operation, and nothing that was found is forgotten. *)
(* URLs and environments are any functions of a source here.               *)
(***************************************************************************)
EXTENDS SourceRegistry, TLAPS

\* The index of the environments of a set of sources.
Exact(a, e) ==
    /\ e \in [Environments -> SUBSET Sources]
    /\ \A x \in Environments : e[x] = {s \in a : Environment(s) = x}
\* The parts of a collection, for any of its operations.
Collection(a, u, e) ==
    /\ a \subseteq Sources
    /\ u \in [Urls -> Sources \cup {None}]
    /\ Exact(a, e)
    /\ \A x \in Urls : u[x] # None => u[x] \in a /\ Url(u[x]) = x
Complete(a, u) == \A x \in Urls : u[x] = None => x \notin UrlsOf(a)

LEMMA IndexesOf ==
    ASSUME TypeOK
    PROVE  /\ IndexesAreExact => Collection(all, urls, environments)
           /\ IndexesAreExact /\ pc \in {"definitions", "collecting", "environments"}
                => Complete(all, urls)
BY DEF TypeOK, IndexesAreExact, EnvironmentsAreExact, UrlsAreExact, Collection, Complete, Exact

LEMMA IndexesFrom ==
    ASSUME Collection(all, urls, environments),
           pc \in {"definitions", "collecting", "environments"} => Complete(all, urls)
    PROVE  IndexesAreExact
BY DEF IndexesAreExact, EnvironmentsAreExact, UrlsAreExact, Collection, Complete, Exact

LEMMA UrlsHaveType == \A s \in Sources : Url(s) \in Urls
BY DEF Urls

LEMMA EnvironmentsHaveType ==
    \A s \in Sources : Environment(s) = None \/ Environment(s) \in Environments
BY DEF Environments

\* The index of environments after one source is added or removed.
LEMMA WithIsExact ==
    \A a \in SUBSET Sources, s \in Sources : \A e :
        Exact(a, e) => Exact(a \cup {s}, WithEnvironment(e, s))
<1> SUFFICES ASSUME NEW a \in SUBSET Sources, NEW s \in Sources, NEW e, Exact(a, e)
             PROVE  Exact(a \cup {s}, WithEnvironment(e, s))
  OBVIOUS
<1>1. CASE Environment(s) = None
  BY <1>1 DEF WithEnvironment, Environments, Exact
<1>2. CASE Environment(s) # None
  <2>1. Environment(s) \in Environments
    BY <1>2, EnvironmentsHaveType
  <2>2. WithEnvironment(e, s) = [e EXCEPT ![Environment(s)] = @ \cup {s}]
    BY <1>2 DEF WithEnvironment
  <2> QED BY <2>1, <2>2 DEF Exact
<1> QED BY <1>1, <1>2

LEMMA WithoutIsExact ==
    \A a \in SUBSET Sources, s \in Sources : \A e :
        Exact(a, e) => Exact(a \ {s}, WithoutEnvironment(e, s))
<1> SUFFICES ASSUME NEW a \in SUBSET Sources, NEW s \in Sources, NEW e, Exact(a, e)
             PROVE  Exact(a \ {s}, WithoutEnvironment(e, s))
  OBVIOUS
<1>1. CASE Environment(s) = None
  BY <1>1 DEF WithoutEnvironment, Environments, Exact
<1>2. CASE Environment(s) # None
  <2>1. Environment(s) \in Environments
    BY <1>2, EnvironmentsHaveType
  <2>2. WithoutEnvironment(e, s) = [e EXCEPT ![Environment(s)] = @ \ {s}]
    BY <1>2 DEF WithoutEnvironment
  <2> QED BY <2>1, <2>2 DEF Exact
<1> QED BY <1>1, <1>2

-----------------------------------------------------------------------------
(***************************************************************************)
(* The operations of the collection.                                       *)
(***************************************************************************)
After == Collection(all', urls', environments')

LEMMA IncludeIsExact ==
    ASSUME NEW s \in Sources, Collection(all, urls, environments), Include(s)
    PROVE  After /\ (Complete(all, urls) => Complete(all', urls'))
<1>1. Url(s) \in Urls /\ s # None
  BY UrlsHaveType, ListedAssumption
<1>2. Exact(all', environments')
  <2>1. all' = all \cup {s} /\ environments' = WithEnvironment(environments, s)
    BY DEF Include
  <2>2. all \in SUBSET Sources /\ Exact(all, environments)
    BY DEF Collection
  <2> QED BY <2>1, <2>2, WithIsExact
<1>3. urls' \in [Urls -> Sources \cup {None}] /\ all' \subseteq Sources
  BY <1>1 DEF Include, Collection
<1>4. \A x \in Urls : urls'[x] # None => urls'[x] \in all' /\ Url(urls'[x]) = x
  BY <1>1 DEF Include, Collection
<1>5. Complete(all, urls) => Complete(all', urls')
  BY <1>1 DEF Include, Complete, Collection, UrlsOf
<1> QED BY <1>2, <1>3, <1>4, <1>5 DEF After, Collection

LEMMA ReplaceIsExact ==
    ASSUME NEW s \in Sources, Collection(all, urls, environments), HasSource(s), Replace(s)
    PROVE  /\ After /\ (Complete(all, urls) => Complete(all', urls'))
           /\ UrlsOf(all') = UrlsOf(all)
<1> DEFINE old == urls[Url(s)]
<1>1. Url(s) \in Urls /\ s # None /\ old \in all /\ Url(old) = Url(s) /\ old \in Sources
  BY UrlsHaveType, ListedAssumption DEF HasSource, Collection
<1>2. /\ all' = (all \ {old}) \cup {s} /\ urls' = [urls EXCEPT ![Url(s)] = s]
      /\ environments' = WithEnvironment(WithoutEnvironment(environments, old), s)
  BY DEF Replace
<1> HIDE DEF old
<1>3. Exact(all \ {old}, WithoutEnvironment(environments, old))
  BY <1>1, WithoutIsExact DEF Collection
<1>4. Exact(all', environments')
  <2>1. all \ {old} \in SUBSET Sources
    BY DEF Collection
  <2> QED BY <1>2, <1>3, <2>1, WithIsExact
<1>5. urls' \in [Urls -> Sources \cup {None}] /\ all' \subseteq Sources
  BY <1>1, <1>2 DEF Collection
<1>6. \A x \in Urls : urls'[x] # None => urls'[x] \in all' /\ Url(urls'[x]) = x
  BY <1>1, <1>2 DEF Collection
<1>7. UrlsOf(all') = UrlsOf(all)
  BY <1>1, <1>2 DEF UrlsOf
<1>8. Complete(all, urls) => Complete(all', urls')
  BY <1>1, <1>2, <1>7 DEF Complete, Collection
<1> QED BY <1>4, <1>5, <1>6, <1>7, <1>8 DEF After, Collection

LEMMA DeleteIsExact ==
    ASSUME NEW old \in all, NEW s \in Sources, Collection(all, urls, environments),
           DeleteAndInclude(old, s)
    PROVE  After
<1>1. Url(s) \in Urls /\ Url(old) \in Urls /\ s # None /\ old \in Sources
  BY UrlsHaveType, ListedAssumption DEF Collection
<1>2. /\ all' = (all \ {old}) \cup {s}
      /\ urls' = [urls EXCEPT ![Url(old)] = None, ![Url(s)] = s]
      /\ environments' = WithEnvironment(WithoutEnvironment(environments, old), s)
  BY DEF DeleteAndInclude
<1>3. Exact(all \ {old}, WithoutEnvironment(environments, old))
  BY <1>1, WithoutIsExact DEF Collection
<1>4. Exact(all', environments')
  <2>1. all \ {old} \in SUBSET Sources
    BY DEF Collection
  <2> QED BY <1>2, <1>3, <2>1, WithIsExact
<1>5. urls' \in [Urls -> Sources \cup {None}] /\ all' \subseteq Sources
  BY <1>1, <1>2 DEF Collection
<1>6. ASSUME NEW x \in Urls, urls'[x] # None
      PROVE  urls'[x] \in all' /\ Url(urls'[x]) = x
  <2>1. CASE x = Url(s)
    BY <1>1, <1>2, <2>1 DEF Collection
  <2>2. CASE x # Url(s)
    <3>1. x # Url(old) /\ urls'[x] = urls[x]
      BY <1>1, <1>2, <1>6, <2>2 DEF Collection
    <3> QED BY <1>2, <1>6, <3>1 DEF Collection
  <2> QED BY <2>1, <2>2
<1> QED BY <1>4, <1>5, <1>6 DEF After, Collection

LEMMA LoadIsExact ==
    ASSUME NEW a \in SUBSET Sources, LoadSources(a)
    PROVE  After /\ Complete(all', urls') /\ all' = a
<1>1. PICK last \in SUBSET a : UrlsOf(last) = UrlsOf(a) /\ urls' = Index(last)
  BY DEF LoadSources
<1>2. \A u \in UrlsOf(last) :
         LET s == CHOOSE s \in last : Url(s) = u IN s \in last /\ Url(s) = u
  BY DEF UrlsOf
<1>3. /\ urls' \in [Urls -> Sources \cup {None}]
      /\ \A x \in Urls : urls'[x] # None => urls'[x] \in a /\ Url(urls'[x]) = x
      /\ Complete(a, urls')
  BY <1>1, <1>2, ListedAssumption DEF Index, Complete
<1>4. all' = a /\ Exact(all', environments')
  BY DEF LoadSources, Exact
<1> QED BY <1>3, <1>4 DEF After, Collection

LEMMA ClearIsExact == ASSUME Clear PROVE After /\ Complete(all', urls') /\ all' = {}
BY DEF Clear, After, Collection, Complete, Index, UrlsOf, Exact

-----------------------------------------------------------------------------
LEMMA InitHolds == Init => IInv
<1> SUFFICES ASSUME Init PROVE IInv
  OBVIOUS
<1>1. TypeOK
  BY BoundsAssumption DEF Init, TypeOK, Index, UrlsOf
<1>2. IndexesAreExact
  BY DEF Init, IndexesAreExact, EnvironmentsAreExact, UrlsAreExact, Index, UrlsOf
<1> QED BY <1>1, <1>2 DEF Init, IInv, FoundIsHeld, NothingIsForgotten, EnvironmentsOfSources

-----------------------------------------------------------------------------
(***************************************************************************)
(* The steps.                                                              *)
(***************************************************************************)
Typed ==
    /\ remote \subseteq Repos
    /\ file \subseteq Sources /\ environmentsFile \subseteq Environments
    /\ inStep \in BOOLEAN /\ raises \in 0..MaxRaises
    /\ pc \in {"idle", "definitions", "collecting", "jira", "environments", "export",
               "exportEnvironments"}
    /\ todo \subseteq Sources /\ found \subseteq Urls
    /\ emptied \subseteq Environments /\ unvisited \subseteq Environments
    /\ pending \subseteq Environments /\ definitions \subseteq Definitions
Held == FoundIsHeld /\ NothingIsForgotten /\ EnvironmentsOfSources
Here == /\ Typed /\ Collection(all, urls, environments) /\ Held
        /\ pc \in {"definitions", "collecting", "environments"} => Complete(all, urls)

LEMMA InvIsHere == IInv <=> Here
BY DEF IInv, Here, TypeOK, Typed, IndexesAreExact, EnvironmentsAreExact, UrlsAreExact,
       Collection, Complete, Exact, Held

LEMMA NextOfCollection ==
    ASSUME Here, UNCHANGED collection
    PROVE  After /\ (Complete(all, urls) => Complete(all', urls')) /\ UrlsOf(all') = UrlsOf(all)
BY DEF Here, After, collection, UrlsOf

LEMMA SourcesGiven ==
    ASSUME NEW s \in Sources, remote \subseteq Repos PROVE GetSources(s) \subseteq Sources
<1>1. ASSUME NEW r \in remote, Beside(s, r)
      PROVE  SourceOf(ClassOf(s), r, s.team) \in Sources
  BY <1>1, ClosedAssumption
<1>2. {SourceOf(ClassOf(s), r, s.team) : r \in {r \in remote : Beside(s, r)}} \subseteq Sources
  BY <1>1, Zenon
<1> QED BY <1>2 DEF GetSources

\* Steps that leave the collection as it is and do not end the program.
Keeps ==
    \/ ChangeRemote \/ PlaceDropin \/ CollectDefinitions \/ EndProjectSources
    \/ VisitEnvironment \/ StopIteration \/ ExportSources
LEMMA KeepsHolds == ASSUME Here, Keeps PROVE Here'
<1>1. UNCHANGED collection
  BY DEF Keeps, ChangeRemote, PlaceDropin, CollectDefinitions, EndProjectSources,
         VisitEnvironment, StopIteration, ExportSources
<1>2. Collection(all, urls, environments)' /\ (Complete(all, urls) => Complete(all', urls'))
      /\ UrlsOf(all') = UrlsOf(all)
  BY <1>1, NextOfCollection DEF After
<1>3. CASE ChangeRemote
  BY <1>2, <1>3 DEF ChangeRemote, Here, Typed, Held, FoundIsHeld, NothingIsForgotten,
                    EnvironmentsOfSources
<1>4. CASE PlaceDropin
  <2>1. file' \subseteq Sources
    BY <1>4, ListedAssumption DEF PlaceDropin
  <2> QED BY <1>2, <1>4, <2>1 DEF PlaceDropin, Here, Typed, Held, FoundIsHeld,
                                  NothingIsForgotten, EnvironmentsOfSources
<1>5. CASE CollectDefinitions
  <2>1. todo' \subseteq Sources
    BY <1>5, ListedAssumption DEF CollectDefinitions, Here, Typed
  <2> QED BY <1>2, <1>5, <2>1 DEF CollectDefinitions, Here, Typed, Held, FoundIsHeld,
                                  NothingIsForgotten, EnvironmentsOfSources
<1>6. CASE EndProjectSources
  BY <1>2, <1>6 DEF EndProjectSources, Here, Typed, Held, FoundIsHeld, NothingIsForgotten,
                    EnvironmentsOfSources
<1>7. CASE VisitEnvironment
  <2>1. PICK e \in pending : \E s \in environments[e] :
           todo' \in {GetSources(s), Unreached(s), {}}
    BY <1>7 DEF VisitEnvironment
  <2>2. environments[e] \subseteq Sources
    BY DEF Here, Typed, Collection, Exact
  <2>3. todo' \subseteq Sources
    BY <2>1, <2>2, SourcesGiven DEF Here, Typed, Unreached
  <2>4. pending' \subseteq pending
    BY <1>7 DEF VisitEnvironment
  <2> QED BY <1>2, <1>7, <2>3, <2>4 DEF VisitEnvironment, Here, Typed, Held, FoundIsHeld,
                                  NothingIsForgotten, EnvironmentsOfSources
<1>8. CASE StopIteration
  BY <1>2, <1>8 DEF StopIteration, Here, Typed, Held, FoundIsHeld, NothingIsForgotten,
                    EnvironmentsOfSources
<1>9. CASE ExportSources
  <2>1. file' \subseteq Sources /\ file' = all' /\ found' \subseteq UrlsOf(file')
    BY <1>1, <1>9 DEF ExportSources, Here, Collection, Held, FoundIsHeld, collection
  <2> QED BY <1>2, <1>9, <2>1 DEF ExportSources, Here, Typed, Held, FoundIsHeld,
                                  NothingIsForgotten, EnvironmentsOfSources
<1> QED BY <1>3, <1>4, <1>5, <1>6, <1>7, <1>8, <1>9 DEF Keeps

\* Steps that load the file.
LEMMA StartsHold ==
    ASSUME Here, StartProjectSources \/ StartJira \/ StartEnvironments PROVE Here'
<1>1. file \in SUBSET Sources
  BY DEF Here, Typed
<1>2. After /\ Complete(all', urls') /\ all' \subseteq Sources
  BY <1>1, LoadIsExact, ClearIsExact
     DEF StartProjectSources, StartJira, StartEnvironments
<1>3. found' \subseteq UrlsOf(all') /\ found' \subseteq Urls
  BY <1>1, <1>2, LoadIsExact DEF StartProjectSources, StartJira, StartEnvironments, UrlsOf, Urls
<1>4. Collection(all, urls, environments)'
  BY <1>2 DEF After
<1>5. CASE StartProjectSources
  BY <1>2, <1>3, <1>4, <1>5 DEF StartProjectSources, Here, Typed, Held, FoundIsHeld,
     NothingIsForgotten, EnvironmentsOfSources
<1>6. CASE StartJira
  BY <1>2, <1>3, <1>4, <1>6 DEF StartJira, Here, Typed, Held, FoundIsHeld,
     NothingIsForgotten, EnvironmentsOfSources
<1>7. CASE StartEnvironments
  BY <1>2, <1>3, <1>4, <1>7 DEF StartEnvironments, Here, Typed, Held, FoundIsHeld,
     NothingIsForgotten, EnvironmentsOfSources
<1> QED BY <1>5, <1>6, <1>7

\* Steps that end a program.
LEMMA ExitsHold == ASSUME Here, ExportEnvironments \/ Raise PROVE Here'
<1>1. Exit /\ UNCHANGED <<remote, file>>
  BY DEF ExportEnvironments, Raise
<1>2. Collection(all, urls, environments)'
  BY <1>1, ClearIsExact DEF Exit, After
<1>3. /\ pc' = "idle" /\ todo' = {} /\ definitions' = {} /\ pending' = {} /\ emptied' = {}
      /\ unvisited' = {} /\ found' = {}
  BY <1>1 DEF Exit
<1>4. CASE ExportEnvironments
  <2>1. environmentsFile' = {e \in Environments : environments[e] # {}} /\ file' = all
    BY <1>4 DEF ExportEnvironments, Here, Held, FoundIsHeld
  <2>2. environmentsFile' = {Environment(s) : s \in file'} \ {None}
    <3>1. \A e \in Environments : environments[e] = {s \in all : Environment(s) = e}
      BY DEF Here, Collection, Exact
    <3>2. \A s \in all : Environment(s) = None \/ Environment(s) \in Environments
      BY EnvironmentsHaveType DEF Here, Collection
    <3>3. None \notin Environments
      BY DEF Environments
    <3> QED BY <2>1, <3>1, <3>2, <3>3
  <2> QED BY <1>1, <1>2, <1>3, <1>4, <2>1, <2>2
          DEF ExportEnvironments, Here, Typed, Held, FoundIsHeld, NothingIsForgotten,
              EnvironmentsOfSources
<1>5. CASE Raise
  <2>1. raises' \in 0..MaxRaises
    BY <1>5, BoundsAssumption DEF Raise, Here, Typed
  <2> QED BY <1>1, <1>2, <1>3, <1>5, <2>1
          DEF Raise, Here, Typed, Held, FoundIsHeld, NothingIsForgotten, EnvironmentsOfSources
<1> QED BY <1>4, <1>5

\* Steps that add a source.
LEMMA AddsHold ==
    ASSUME Here, BuildMetricSource \/ SetEnd \/ AddSource \/ MergeSource PROVE Here'
<1> DEFINE Done(s) ==
      /\ Collection(all, urls, environments)' /\ (Complete(all, urls) => Complete(all', urls'))
      /\ UrlsOf(all) \cup {Url(s)} \subseteq UrlsOf(all') /\ Url(s) \in Urls
<1>0. todo \subseteq Sources /\ Collection(all, urls, environments)
  BY DEF Here, Typed
<1>1. ASSUME NEW s \in Sources, Include(s) PROVE Done(s)
  <2>1. UrlsOf(all') = UrlsOf(all) \cup {Url(s)}
    BY <1>1 DEF Include, UrlsOf
  <2> QED BY <1>0, <1>1, <2>1, IncludeIsExact, UrlsHaveType DEF After
<1>2. ASSUME NEW s \in Sources, HasSource(s), Replace(s) PROVE Done(s)
  <2>1. Url(s) \in UrlsOf(all')
    BY <1>2 DEF Replace, UrlsOf
  <2> QED BY <1>0, <1>2, <2>1, ReplaceIsExact, UrlsHaveType DEF After
<1>3. ASSUME NEW s \in Sources, HasSource(s), UNCHANGED collection,
             Complete(all, urls) PROVE Done(s)
  <2>1. Url(s) \in UrlsOf(all)
    BY <1>0, <1>3, UrlsHaveType DEF HasSource, Collection, UrlsOf
  <2> QED BY <1>3, <2>1, NextOfCollection, UrlsHaveType DEF After
<1> HIDE DEF Done
<1>4. CASE BuildMetricSource
  <2>1. PICK s \in todo : /\ IF HasSource(s) THEN UNCHANGED collection ELSE Include(s)
                          /\ todo' = todo \ {s} /\ found' = found \cup {Url(s)}
    BY <1>4 DEF BuildMetricSource
  <2>2. Done(s)
    BY <1>0, <1>1, <1>3, <1>4, <2>1 DEF BuildMetricSource, Here
  <2> QED BY <1>4, <2>1, <2>2 DEF Done, BuildMetricSource, Here, Typed, Held, FoundIsHeld,
             NothingIsForgotten, EnvironmentsOfSources
<1>5. CASE SetEnd
  <2>1. PICK s \in todo : Include(s) /\ todo' = todo \ {s} /\ found' = found \cup {Url(s)}
    BY <1>5 DEF SetEnd
  <2>2. Done(s)
    BY <1>0, <1>1, <2>1
  <2> QED BY <1>5, <2>1, <2>2 DEF Done, SetEnd, Here, Typed, Held, FoundIsHeld,
             NothingIsForgotten, EnvironmentsOfSources
<1>6. CASE AddSource
  <2>1. PICK s \in JiraSources :
           /\ \/ \E t \in all : DeleteAndInclude(t, s)
              \/ Include(s)
           /\ found' = {Url(s)}
    BY <1>6 DEF AddSource
  <2>2. s \in Sources
    BY ListedAssumption
  <2>3. Collection(all, urls, environments)'
    BY <1>0, <1>1, <2>1, <2>2, DeleteIsExact DEF After, Done
  <2>4. found' \subseteq UrlsOf(all') /\ found' \subseteq Urls
    BY <2>1, <2>2, UrlsHaveType DEF Include, DeleteAndInclude, UrlsOf
  <2> QED BY <1>6, <2>3, <2>4 DEF AddSource, Here, Typed, Held, FoundIsHeld,
             NothingIsForgotten, EnvironmentsOfSources
<1>7. CASE MergeSource
  <2>1. PICK s \in todo : /\ IF HasSource(s) THEN Replace(s) ELSE Include(s)
                          /\ todo' = todo \ {s} /\ found' = found \cup {Url(s)}
    BY <1>7 DEF MergeSource
  <2>2. Done(s)
    BY <1>0, <1>1, <1>2, <2>1
  <2>3. emptied' \subseteq Environments
    BY <1>7 DEF MergeSource, Here, Typed
  <2> QED BY <1>7, <2>1, <2>2, <2>3 DEF Done, MergeSource, Here, Typed, Held, FoundIsHeld,
             NothingIsForgotten, EnvironmentsOfSources
<1> QED BY <1>4, <1>5, <1>6, <1>7

LEMMA InvIsHereNext == Here' => IInv'
BY InvIsHere, PTL

LEMMA StepHolds == IInv /\ [Next]_vars => IInv'
<1> SUFFICES ASSUME Here, [Next]_vars PROVE Here'
  BY InvIsHere, InvIsHereNext
<1>1. CASE UNCHANGED vars
  BY <1>1 DEF vars, collection, Here, Typed, Held, FoundIsHeld, NothingIsForgotten,
              EnvironmentsOfSources
<1>2. CASE Next
  BY <1>2, KeepsHolds, StartsHold, ExitsHold, AddsHold
     DEF Next, ProjectSources, EnvironmentSources, Keeps
<1> QED BY <1>1, <1>2

LEMMA InvariantHolds == Spec => []IInv
BY InitHolds, StepHolds, PTL DEF Spec

-----------------------------------------------------------------------------
\* The type invariant of the collection, the files and the steps of programs.
THEOREM TypeCorrect == Spec => []TypeOK
<1>1. IInv => TypeOK
  BY DEF IInv
<1> QED BY <1>1, InvariantHolds, PTL

\* Both indexes are those of the collection, whatever is added, replaced or
\* deleted, so a replacement always finds what it removes (Sources.replace).
THEOREM IndexesHold == Spec => []IndexesAreExact
<1>1. IInv => IndexesAreExact
  BY DEF IInv
<1> QED BY <1>1, InvariantHolds, PTL

\* What a program loaded or found is in data_sources.json when it has written
\* it, under a name of its own or that of a replacement.
THEOREM SourcesAreKept == Spec => []NothingIsForgotten
<1>1. IInv => NothingIsForgotten
  BY DEF IInv
<1> QED BY <1>1, InvariantHolds, PTL

\* Two files of one program speak of the same environments.
THEOREM FilesAgree == Spec => []EnvironmentsOfSources
<1>1. IInv => EnvironmentsOfSources
  BY DEF IInv
<1> QED BY <1>1, InvariantHolds, PTL
=============================================================================
