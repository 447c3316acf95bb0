----------------------- MODULE JiraCollection_proofs ------------------------
(***************************************************************************)
(* Theorems about JiraCollection, for any issues, batches and times, and   *)
(* about SprintCalendar, for any sprints and moments.                      *)
(***************************************************************************)
EXTENDS JiraCollection, SprintCalendar, FiniteSetTheorems, WellFoundedInduction, TLAPS

(***************************************************************************)
(* Numbers of versions                                                     *)
(***************************************************************************)
LEMMA DatesAreNatural ==
  ASSUME NEW h \in Seq(Entry)
  PROVE  Dates(h) \subseteq Nat
<1>1. \A n \in DOMAIN h : h[n] \in Entry OBVIOUS
<1>2. \A e \in Entry : e.at \in Nat BY DEF Entry
<1> QED BY <1>1, <1>2 DEF Dates

LEMMA IdIsNatural ==
  ASSUME NEW h \in Seq(Entry), NEW d \in Dates(h)
  PROVE  IdOf(h, d) \in Nat
<1>1. d \in Nat /\ {e \in Dates(h) : e <= d} \subseteq 0..d
  BY DatesAreNatural
<1>2. IsFiniteSet({e \in Dates(h) : e <= d})
  <2>1. {e \in Dates(h) : e <= d} \in SUBSET Nat BY <1>1
  <2> QED BY <1>1, <2>1, FS_BoundedSetOfNaturals
<1> QED BY <1>2, FS_CardinalityType DEF IdOf

\* A new entry adds its date and leaves the numbers of the other dates alone.
LEMMA NewEntry ==
  ASSUME NEW h \in Seq(Entry), NEW e \in Entry,
         \A d \in Dates(h) : d <= e.at
  PROVE  /\ Dates(Append(h, e)) = Dates(h) \cup {e.at}
         /\ \A d \in Dates(h) : IdOf(Append(h, e), d) = IdOf(h, d)
<1>1. /\ DOMAIN h = 1..Len(h) /\ Len(h) \in Nat
      /\ DOMAIN Append(h, e) = 1..(Len(h) + 1)
      /\ \A n \in 1..Len(h) : Append(h, e)[n] = h[n]
      /\ Append(h, e)[Len(h) + 1] = e
  OBVIOUS
<1>2. Dates(Append(h, e)) = Dates(h) \cup {e.at}
  <2>1. ASSUME NEW n \in DOMAIN Append(h, e)
        PROVE  Append(h, e)[n].at \in Dates(h) \cup {e.at}
    <3>1. CASE n \in 1..Len(h) BY <1>1, <3>1 DEF Dates
    <3>2. CASE n = Len(h) + 1 BY <1>1, <3>2
    <3> QED BY <1>1, <3>1, <3>2
  <2>2. ASSUME NEW n \in DOMAIN h
        PROVE  h[n].at \in Dates(Append(h, e))
    BY <1>1 DEF Dates
  <2>3. e.at \in Dates(Append(h, e)) BY <1>1 DEF Dates
  <2> QED BY <2>1, <2>2, <2>3 DEF Dates
<1>3. ASSUME NEW d \in Dates(h)
      PROVE  {x \in Dates(Append(h, e)) : x <= d} = {x \in Dates(h) : x <= d}
  <2>1. e.at \in Nat /\ d \in Nat BY DatesAreNatural DEF Entry
  <2>2. e.at <= d => e.at = d BY <2>1
  <2> QED BY <1>2, <2>2
<1> QED BY <1>2, <1>3 DEF IdOf

\* get_versions makes a version for every date since the time it is given.
LEMMA VersionsCover ==
  ASSUME NEW i, NEW h, NEW content, NEW c, NEW u, NEW s
  PROVE  /\ \A d \in Dates(h) : d > s =>
              \E v \in GetVersions(i, h, content, c, u, s) :
                 v.issue = i /\ v.id = IdOf(h, d)
         /\ c > s => \E v \in GetVersions(i, h, content, c, u, s) :
                        v.issue = i /\ v.id = 0
         /\ \A v \in GetVersions(i, h, content, c, u, s) :
              v.issue = i /\ (v.id = 0 \/ \E d \in Dates(h) : v.id = IdOf(h, d))
<1> DEFINE count == Cardinality(Dates(h))
           row(n) ==
             [issue |-> i, id |-> n,
              data |-> Reestablished(h, content)[n],
              rank |-> n > 0 /\ Difference(h, DateOf(h, n)).rank,
              by |-> IF n = 0 THEN 0 ELSE Difference(h, DateOf(h, n)).by,
              updated |-> IF n = 0 THEN c
                          ELSE IF n = count THEN u ELSE DateOf(h, n)]
<1>1. GetVersions(i, h, content, c, u, s) =
        {row(IdOf(h, d)) : d \in {e \in Dates(h) : e > s}}
          \cup (IF c > s THEN {row(0)} ELSE {})
  BY DEF GetVersions
<1>2. \A n : row(n).issue = i /\ row(n).id = n OBVIOUS
<1> HIDE DEF row
<1>3. \A d \in Dates(h) : d > s => row(IdOf(h, d)) \in GetVersions(i, h, content, c, u, s)
  BY <1>1
<1>4. c > s => row(0) \in GetVersions(i, h, content, c, u, s)
  BY <1>1
<1>5. ASSUME NEW v \in GetVersions(i, h, content, c, u, s)
      PROVE  v.issue = i /\ (v.id = 0 \/ \E d \in Dates(h) : v.id = IdOf(h, d))
  BY <1>1, <1>2
<1> QED BY <1>2, <1>3, <1>4, <1>5

-----------------------------------------------------------------------------
LEMMA SmallestOfNumbers ==
  ASSUME NEW S \in SUBSET Nat, S # {}
  PROVE  \E x \in S : \A y \in S : x <= y
<1>1. PICK x \in S : \A y \in S : ~(<<y, x>> \in OpToRel(<, Nat))
  <2>1. S \subseteq Nat OBVIOUS
  <2> QED BY <2>1, WFMin, NatLessThanWellFounded
<1>2. ASSUME NEW y \in S PROVE x <= y
  <2>1. x \in Nat /\ y \in Nat /\ ~(y < x) BY <1>1 DEF OpToRel
  <2> QED BY <2>1
<1> QED BY <1>2

LEMMA GreatestOfNumbers ==
  ASSUME NEW N \in Nat, NEW S \in SUBSET (0 .. N), S # {}
  PROVE  \E x \in S : \A y \in S : y <= x
<1> DEFINE T == {N - x : x \in S}
<1>1. T \subseteq Nat /\ T # {}
  <2>1. \A x \in S : x \in 0 .. N /\ N - x \in Nat OBVIOUS
  <2>2. PICK x \in S : TRUE OBVIOUS
  <2>3. N - x \in T OBVIOUS
  <2> QED BY <2>1, <2>3
<1>2. PICK t \in T : \A u \in T : t <= u
  <2> HIDE DEF T
  <2> QED BY <1>1, SmallestOfNumbers
<1>3. PICK x \in S : t = N - x OBVIOUS
<1>4. ASSUME NEW y \in S PROVE y <= x
  <2>1. N - y \in T /\ x \in Nat /\ y \in Nat BY <1>1
  <2> QED BY <1>2, <1>3, <2>1
<1> QED BY <1>4

\* The entries about a kind of field among the first n, and what the issue had
\* after them.
About(h, n, kind) == {m \in 1..n : kind \in h[m].kinds}
DataAfter(h, n) ==
    [title |-> IF About(h, n, "title") = {} THEN 0 ELSE Last(About(h, n, "title")),
     attachment |-> Cardinality(About(h, n, "attach")) - Cardinality(About(h, n, "detach"))]

\* What the entries of a changelog say of what was there before is true.
ChangelogIsTrue(h) ==
    /\ \A m, n \in DOMAIN h : m <= n => h[m].at <= h[n].at
    /\ \A n \in DOMAIN h :
          /\ h[n].at > 0 /\ ~({"attach", "detach"} \subseteq h[n].kinds)
          /\ h[n].from = DataAfter(h, n - 1).title
          /\ DataAfter(h, n).attachment >= 0

LEMMA LastOfSet ==
  ASSUME NEW n \in Nat, NEW S \in SUBSET (1..n), S # {}
  PROVE  /\ Last(S) \in S /\ \A m \in S : m <= Last(S)
         /\ \A x \in S : (\A m \in S : m <= x) => Last(S) = x
<1>1. S \subseteq 0..n /\ S \subseteq Int OBVIOUS
<1>2. \E x \in S : \A m \in S : m <= x BY <1>1, GreatestOfNumbers
<1>3. Last(S) \in S /\ \A m \in S : m <= Last(S) BY <1>2 DEF Last
<1>4. ASSUME NEW x \in S, \A m \in S : m <= x PROVE Last(S) = x
  <2>1. x <= Last(S) /\ Last(S) <= x /\ x \in Int /\ Last(S) \in Int BY <1>1, <1>3, <1>4
  <2> QED BY <2>1
<1> QED BY <1>3, <1>4

LEMMA AboutCount ==
  ASSUME NEW h, NEW n \in Nat, NEW kind
  PROVE  IsFiniteSet(About(h, n, kind)) /\ Cardinality(About(h, n, kind)) \in Nat
<1>1. IsFiniteSet(1..n) BY FS_Interval
<1>2. IsFiniteSet(About(h, n, kind)) BY <1>1, FS_Subset DEF About
<1> QED BY <1>2, FS_CardinalityType

LEMMA AboutNone ==
  ASSUME NEW h, NEW kind
  PROVE  About(h, 0, kind) = {} /\ Cardinality(About(h, 0, kind)) = 0
<1>1. About(h, 0, kind) = {} BY DEF About
<1> QED BY <1>1, FS_EmptySet

\* Entries that are not about a kind of field change nothing of it.
LEMMA AboutNoMore ==
  ASSUME NEW h, NEW j \in Nat, NEW k \in Nat, j <= k, NEW kind,
         \A n \in j + 1..k : kind \notin h[n].kinds
  PROVE  About(h, k, kind) = About(h, j, kind)
BY DEF About

LEMMA AboutOneMore ==
  ASSUME NEW h, NEW j \in Nat, NEW k \in Nat, j <= k, NEW kind, NEW t \in j + 1..k,
         kind \in h[t].kinds, \A n \in j + 1..k : n # t => kind \notin h[n].kinds
  PROVE  /\ About(h, k, kind) = About(h, j, kind) \cup {t}
         /\ Cardinality(About(h, k, kind)) = Cardinality(About(h, j, kind)) + 1
         /\ Last(About(h, k, kind)) = t
<1>1. About(h, k, kind) = About(h, j, kind) \cup {t} BY DEF About
<1>2. t \notin About(h, j, kind) BY DEF About
<1>3. IsFiniteSet(About(h, j, kind)) BY AboutCount
<1>4. Cardinality(About(h, j, kind) \cup {t}) = Cardinality(About(h, j, kind)) + 1
  BY <1>2, <1>3, FS_AddElement
<1>5. Last(About(h, k, kind)) = t
  <2>1. About(h, k, kind) \subseteq 1..k /\ t \in About(h, k, kind) BY <1>1 DEF About
  <2>2. \A m \in About(h, k, kind) : m <= t BY <1>1 DEF About
  <2> QED BY <2>1, <2>2, LastOfSet
<1> QED BY <1>1, <1>4, <1>5

(***************************************************************************)
(* One difference undoes what the entries of its second did                *)
(***************************************************************************)
LEMMA SecondIsUndone ==
  ASSUME NEW h \in Seq(Entry), ChangelogIsTrue(h), ~Ambiguous(h), NEW d,
         NEW k \in 1..Len(h), NEW j \in 0..k - 1,
         {n \in DOMAIN h : h[n].at = d} = j + 1..k
  PROVE  Transition(DataAfter(h, k), Difference(h, d)) = DataAfter(h, j)
<1> DEFINE titles == {n \in j + 1..k : h[n].kinds \cap {"title"} # {}}
           attached == {n \in j + 1..k : h[n].kinds \cap {"attach", "detach"} # {}}
           diff == Difference(h, d)
<1>1. /\ diff.title = IF titles = {} THEN Absent ELSE h[Last(titles)].from
      /\ diff.attachment = IF attached = {} THEN 0
                           ELSE IF "attach" \in h[Last(attached)].kinds THEN -1 ELSE 1
  BY DEF Difference
<1>2. /\ Len(h) \in Nat /\ DOMAIN h = 1..Len(h) /\ j \in Nat /\ k \in Nat /\ j <= k
      /\ j + 1..k \subseteq DOMAIN h /\ j + 1..k \subseteq 1..k
  OBVIOUS
<1>3. \A m, n \in j + 1..k : m # n =>
         /\ "title" \notin h[m].kinds \cap h[n].kinds
         /\ \A x, y \in {"attach", "detach"} : ~(x \in h[m].kinds /\ y \in h[n].kinds)
  BY <1>2 DEF Ambiguous
<1>4. (IF diff.title = Absent THEN DataAfter(h, k).title ELSE diff.title) = DataAfter(h, j).title
  <2>1. CASE titles = {}
    <3>1. \A n \in j + 1..k : "title" \notin h[n].kinds BY <2>1
    <3>2. About(h, k, "title") = About(h, j, "title") BY <1>2, <3>1, AboutNoMore
    <3> QED BY <1>1, <2>1, <3>2 DEF DataAfter
  <2>2. CASE titles # {}
    <3>1. PICK t \in titles : TRUE BY <2>2
    <3>2. titles = {t} BY <1>3, <3>1
    <3>3. Last(titles) = t BY <3>2 DEF Last
    <3>4. /\ t \in DOMAIN h /\ t - 1 \in Nat /\ j <= t - 1
          /\ \A n \in j + 1..t - 1 : n \in j + 1..k /\ n # t
      BY <1>2, <3>1
    <3>5. \A n \in j + 1..t - 1 : "title" \notin h[n].kinds BY <1>3, <3>1, <3>4
    <3>6. About(h, t - 1, "title") = About(h, j, "title") BY <1>2, <3>4, <3>5, AboutNoMore
    <3>7. h[t].from = DataAfter(h, j).title BY <3>4, <3>6 DEF ChangelogIsTrue, DataAfter
    <3>8. h[t].from \in Nat /\ Absent \notin Nat
      <4>1. h[t] \in Entry BY <3>4
      <4> QED BY <4>1 DEF Entry, Absent
    <3> QED BY <1>1, <2>2, <3>3, <3>7, <3>8
  <2> QED BY <2>1, <2>2
<1>5. DataAfter(h, j).attachment \in Nat
  <2>1. CASE j = 0 BY <2>1, AboutNone DEF DataAfter
  <2>2. CASE j # 0
    <3>1. j \in DOMAIN h BY <1>2, <2>2
    <3> QED BY <1>2, <3>1, AboutCount DEF ChangelogIsTrue, DataAfter
  <2> QED BY <2>1, <2>2
<1>6. DataAfter(h, k).attachment + diff.attachment = DataAfter(h, j).attachment
  <2>0. \A kind : Cardinality(About(h, j, kind)) \in Nat BY <1>2, AboutCount
  <2>1. CASE attached = {}
    <3>1. \A n \in j + 1..k : "attach" \notin h[n].kinds /\ "detach" \notin h[n].kinds BY <2>1
    <3>2. About(h, k, "attach") = About(h, j, "attach") /\ About(h, k, "detach") = About(h, j, "detach")
      BY <1>2, <3>1, AboutNoMore
    <3> QED BY <1>1, <1>5, <2>1, <3>2 DEF DataAfter
  <2>2. CASE attached # {}
    <3>1. PICK t \in attached : TRUE BY <2>2
    <3>2. attached = {t} BY <1>3, <3>1
    <3>3. Last(attached) = t BY <3>2 DEF Last
    <3>4. \A n \in j + 1..k : n # t => "attach" \notin h[n].kinds /\ "detach" \notin h[n].kinds
      BY <1>3, <3>1
    <3>5. t \in DOMAIN h /\ t \in j + 1..k BY <1>2, <3>1
    <3>6. CASE "attach" \in h[t].kinds
      <4>1. "detach" \notin h[t].kinds BY <3>5, <3>6 DEF ChangelogIsTrue
      <4>2. Cardinality(About(h, k, "attach")) = Cardinality(About(h, j, "attach")) + 1
        <5>1. j \in Nat /\ k \in Nat /\ j <= k /\ t \in j + 1..k BY <1>2, <3>5
        <5>2. PICK kind : kind = "attach" OBVIOUS
        <5>3. kind \in h[t].kinds /\ \A n \in j + 1..k : n # t => kind \notin h[n].kinds
          BY <3>6, <3>4, <5>2
        <5> HIDE DEF attached, titles, diff
        <5>4. Cardinality(About(h, k, kind)) = Cardinality(About(h, j, kind)) + 1
          BY <5>1, <5>3, AboutOneMore
        <5> QED BY <5>2, <5>4
      <4>3. About(h, k, "detach") = About(h, j, "detach")
        <5>1. \A n \in j + 1..k : "detach" \notin h[n].kinds BY <3>4, <4>1
        <5> QED BY <1>2, <5>1, AboutNoMore
      <4>4. diff.attachment = -1 BY <1>1, <2>2, <3>3, <3>6
      <4> HIDE DEF diff
      <4> QED BY <2>0, <4>2, <4>3, <4>4 DEF DataAfter
    <3>7. CASE "attach" \notin h[t].kinds
      <4>1. "detach" \in h[t].kinds BY <3>1, <3>7
      <4>2. Cardinality(About(h, k, "detach")) = Cardinality(About(h, j, "detach")) + 1
        <5>1. j \in Nat /\ k \in Nat /\ j <= k /\ t \in j + 1..k BY <1>2, <3>5
        <5>2. PICK kind : kind = "detach" OBVIOUS
        <5>3. kind \in h[t].kinds /\ \A n \in j + 1..k : n # t => kind \notin h[n].kinds
          BY <4>1, <3>4, <5>2
        <5> HIDE DEF attached, titles, diff
        <5>4. Cardinality(About(h, k, kind)) = Cardinality(About(h, j, kind)) + 1
          BY <5>1, <5>3, AboutOneMore
        <5> QED BY <5>2, <5>4
      <4>3. About(h, k, "attach") = About(h, j, "attach")
        <5>1. \A n \in j + 1..k : "attach" \notin h[n].kinds BY <3>4, <3>7
        <5> QED BY <1>2, <5>1, AboutNoMore
      <4>4. diff.attachment = 1 BY <1>1, <2>2, <3>3, <3>7
      <4> HIDE DEF diff
      <4> QED BY <2>0, <4>2, <4>3, <4>4 DEF DataAfter
    <3> QED BY <3>6, <3>7
  <2> QED BY <2>1, <2>2
<1>7. NotNegative(DataAfter(h, k).attachment + diff.attachment) = DataAfter(h, j).attachment
  BY <1>5, <1>6 DEF NotNegative
<1>8. DataAfter(h, j) = [title |-> DataAfter(h, j).title, attachment |-> DataAfter(h, j).attachment]
  BY DEF DataAfter
<1> HIDE DEF diff
<1>9. Transition(DataAfter(h, k), diff) = DataAfter(h, j)
  BY <1>4, <1>7, <1>8 DEF Transition
<1> QED BY <1>9 DEF diff

(***************************************************************************)
(* The numbers of the seconds in which there are entries                   *)
(***************************************************************************)
LEMMA DatesAreFinite ==
  ASSUME NEW h \in Seq(Entry)
  PROVE  IsFiniteSet(Dates(h)) /\ Cardinality(Dates(h)) \in Nat
<1>1. IsFiniteSet(DOMAIN h) BY FS_Interval
<1>2. [n \in DOMAIN h |-> h[n].at] \in Surjection(DOMAIN h, Dates(h)) BY DEF Surjection, Dates
<1>3. IsFiniteSet(Dates(h)) BY <1>1, <1>2, FS_Surjection
<1> QED BY <1>3, FS_CardinalityType

LEMMA IdsGrow ==
  ASSUME NEW h \in Seq(Entry), NEW d \in Dates(h)
  PROVE  /\ IdOf(h, d) \in 1..Cardinality(Dates(h))
         /\ \A e \in Dates(h) : d < e => IdOf(h, d) < IdOf(h, e)
<1> DEFINE S(x) == {e \in Dates(h) : e <= x}
<1>1. Dates(h) \subseteq Nat BY DatesAreNatural
<1>2. \A x : IsFiniteSet(S(x)) /\ Cardinality(S(x)) \in Nat /\ Cardinality(S(x)) <= Cardinality(Dates(h))
  <2>1. \A x : S(x) \in SUBSET Dates(h) OBVIOUS
  <2> QED BY <2>1, DatesAreFinite, FS_Subset, FS_CardinalityType
<1>3. d \in S(d) BY <1>1
<1>4. Cardinality(S(d)) # 0 BY <1>2, <1>3, FS_EmptySet
<1>5. IdOf(h, d) = Cardinality(S(d)) BY DEF IdOf
<1>6. Cardinality(Dates(h)) \in Nat BY DatesAreFinite
<1>7. IdOf(h, d) \in 1..Cardinality(Dates(h))
  <2>1. Cardinality(S(d)) \in Nat /\ Cardinality(S(d)) <= Cardinality(Dates(h)) BY <1>2
  <2> HIDE DEF S
  <2> QED BY <1>4, <1>5, <1>6, <2>1
<1>8. ASSUME NEW e \in Dates(h), d < e PROVE IdOf(h, d) < IdOf(h, e)
  <2>1. S(d) \subseteq S(e) /\ e \in S(e) /\ e \notin S(d) BY <1>1, <1>8
  <2>2. S(d) # S(e) BY <2>1
  <2>3. Cardinality(S(d)) <= Cardinality(S(e)) /\ Cardinality(S(d)) # Cardinality(S(e))
    BY <1>2, <2>1, <2>2, FS_Subset
  <2>4. IdOf(h, e) = Cardinality(S(e)) BY DEF IdOf
  <2>5. Cardinality(S(d)) \in Nat /\ Cardinality(S(e)) \in Nat BY <1>2
  <2> HIDE DEF S
  <2> QED BY <1>5, <2>3, <2>4, <2>5
<1> QED BY <1>7, <1>8

\* Each number belongs to a second.
LEMMA IdsAreExact ==
  ASSUME NEW h \in Seq(Entry)
  PROVE  /\ \A d \in Dates(h) : DateOf(h, IdOf(h, d)) = d
         /\ \A k \in 1..Cardinality(Dates(h)) : DateOf(h, k) \in Dates(h) /\ IdOf(h, DateOf(h, k)) = k
<1> DEFINE D == Dates(h)
           N == Cardinality(Dates(h))
           f == [d \in D |-> IdOf(h, d)]
<1>1. D \subseteq Nat /\ IsFiniteSet(D) /\ N \in Nat BY DatesAreNatural, DatesAreFinite
<1>2. \A d, e \in D : IdOf(h, d) = IdOf(h, e) => d = e
  <2> SUFFICES ASSUME NEW d \in D, NEW e \in D, d # e PROVE IdOf(h, d) # IdOf(h, e) OBVIOUS
  <2>1. /\ IdOf(h, d) \in 1..N /\ IdOf(h, e) \in 1..N
        /\ d < e => IdOf(h, d) < IdOf(h, e)
        /\ e < d => IdOf(h, e) < IdOf(h, d)
    BY IdsGrow
  <2>2. d < e \/ e < d BY <1>1
  <2> QED BY <1>1, <2>1, <2>2
<1>3. \A d \in D : IdOf(h, d) \in 1..N BY IdsGrow
<1>4. f \in Injection(D, 1..N) BY <1>2, <1>3 DEF Injection, IsInjective
<1>5. IsFiniteSet(1..N) /\ Cardinality(1..N) = N BY <1>1, FS_Interval
<1>6. f \in Surjection(D, 1..N)
  <2> HIDE DEF f
  <2> QED BY <1>4, <1>5, FS_Injection
<1>7. \A k \in 1..N : \E d \in D : IdOf(h, d) = k BY <1>6 DEF Surjection
<1>8. \A k \in 1..N : DateOf(h, k) \in D /\ IdOf(h, DateOf(h, k)) = k BY <1>7 DEF DateOf
<1>9. \A d \in D : DateOf(h, IdOf(h, d)) = d BY <1>2, <1>3, <1>8
<1> QED BY <1>8, <1>9

(***************************************************************************)
(* The entries up to a second are the first ones of the changelog          *)
(***************************************************************************)
Prefix(h, d) == CHOOSE k \in 0..Len(h) : Until(h, d) = 1..k

LEMMA UntilIsPrefix ==
  ASSUME NEW h \in Seq(Entry), ChangelogIsTrue(h), NEW d \in Nat
  PROVE  Prefix(h, d) \in 0..Len(h) /\ Until(h, d) = 1..Prefix(h, d)
<1>1. Len(h) \in Nat /\ DOMAIN h = 1..Len(h) /\ \A n \in DOMAIN h : h[n].at \in Nat
  <2>1. \A n \in DOMAIN h : h[n] \in Entry OBVIOUS
  <2> QED BY <2>1 DEF Entry
<1>2. CASE Until(h, d) = {}
  <2>1. 0 \in 0..Len(h) /\ Until(h, d) = 1..0 BY <1>1, <1>2
  <2> QED BY <2>1 DEF Prefix
<1>3. CASE Until(h, d) # {}
  <2>1. Until(h, d) \subseteq 0..Len(h) BY <1>1 DEF Until
  <2>2. PICK k \in Until(h, d) : \A m \in Until(h, d) : m <= k BY <1>1, <1>3, <2>1, GreatestOfNumbers
  <2>3. k \in 1..Len(h) /\ h[k].at <= d BY <1>1, <2>2 DEF Until
  <2>4. ASSUME NEW m \in 1..k PROVE m \in Until(h, d)
    <3>1. m \in DOMAIN h /\ k \in DOMAIN h /\ m <= k BY <1>1, <2>3
    <3>2. h[m].at <= h[k].at BY <3>1 DEF ChangelogIsTrue
    <3>3. h[m].at <= d BY <1>1, <2>3, <3>1, <3>2
    <3> QED BY <3>1, <3>3 DEF Until
  <2>5. \A m \in Until(h, d) : m \in 1..k BY <1>1, <2>2 DEF Until
  <2>6. k \in 0..Len(h) BY <1>1, <2>3
  <2>7. Until(h, d) = 1..k BY <2>4, <2>5
  <2> QED BY <2>6, <2>7 DEF Prefix
<1> QED BY <1>2, <1>3

LEMMA TruthIsPrefix ==
  ASSUME NEW h \in Seq(Entry), ChangelogIsTrue(h), NEW d \in Nat
  PROVE  TrueData(h, d) = DataAfter(h, Prefix(h, d))
<1>1. Until(h, d) = 1..Prefix(h, d) BY UntilIsPrefix
<1> QED BY <1>1 DEF TrueData, DataAfter, About

(***************************************************************************)
(* The versions that are made backwards                                    *)
(***************************************************************************)
\* The second of a version, which is none for the first.
SecondOf(h, n) == IF n = 0 THEN 0 ELSE DateOf(h, n)

LEMMA SecondBefore ==
  ASSUME NEW h \in Seq(Entry), ChangelogIsTrue(h), NEW n \in 1..Cardinality(Dates(h))
  PROVE  /\ SecondOf(h, n) = DateOf(h, n) /\ DateOf(h, n) \in Nat /\ DateOf(h, n) > 0
         /\ SecondOf(h, n - 1) \in Nat
         /\ \A e \in Dates(h) : e <= SecondOf(h, n - 1) <=> e < DateOf(h, n)
<1> DEFINE d == DateOf(h, n)
           b == SecondOf(h, n - 1)
           N == Cardinality(Dates(h))
<1>1. Dates(h) \subseteq Nat /\ N \in Nat BY DatesAreNatural, DatesAreFinite
<1>2. d \in Dates(h) /\ IdOf(h, d) = n BY IdsAreExact
<1>3. \A e \in Dates(h) : e > 0 BY DEF Dates, ChangelogIsTrue
<1>4. b \in Nat /\ (n - 1 = 0 => b = 0) /\ (n - 1 # 0 => b \in Dates(h) /\ IdOf(h, b) = n - 1)
  <2>1. CASE n - 1 = 0 BY <2>1 DEF SecondOf
  <2>2. CASE n - 1 # 0
    <3>1. n - 1 \in 1..N BY <1>1, <2>2
    <3>2. DateOf(h, n - 1) \in Dates(h) /\ IdOf(h, DateOf(h, n - 1)) = n - 1 BY <3>1, IdsAreExact
    <3>3. b = DateOf(h, n - 1) BY <2>2 DEF SecondOf
    <3> QED BY <1>1, <2>2, <3>2, <3>3
  <2> QED BY <2>1, <2>2
<1> HIDE DEF d, b
<1>5. n \in Nat /\ n > 0 BY <1>1
<1>6. ASSUME NEW e \in Dates(h), e < d PROVE e <= b
  <2>1. IdOf(h, e) < n /\ IdOf(h, e) \in 1..N BY <1>2, <1>6, IdsGrow
  <2>2. n - 1 # 0 BY <1>1, <1>5, <2>1
  <2>3. b < e => n - 1 < IdOf(h, e) BY <1>4, <2>2, IdsGrow
  <2> QED BY <1>1, <1>4, <1>5, <2>1, <2>3
<1>7. ASSUME NEW e \in Dates(h), e <= b PROVE e < d
  <2>1. n - 1 # 0 BY <1>1, <1>3, <1>4, <1>7
  <2>2. b \in Dates(h) /\ IdOf(h, b) = n - 1 BY <1>4, <2>1
  <2>3. d < b => n < n - 1 BY <1>2, <2>2, IdsGrow
  <2>4. d # b BY <1>2, <1>5, <2>2
  <2> QED BY <1>1, <1>2, <1>4, <1>5, <1>7, <2>3, <2>4
<1>8. SecondOf(h, n) = d BY <1>5 DEF SecondOf, d
<1> QED BY <1>1, <1>2, <1>3, <1>4, <1>6, <1>7, <1>8 DEF d, b

\* The entries of a second are those between two prefixes.
LEMMA SecondIsInterval ==
  ASSUME NEW h \in Seq(Entry), ChangelogIsTrue(h), NEW n \in 1..Cardinality(Dates(h))
  PROVE  LET j == Prefix(h, SecondOf(h, n - 1))
             k == Prefix(h, DateOf(h, n))
         IN  /\ k \in 1..Len(h) /\ j \in 0..k - 1
             /\ {m \in DOMAIN h : h[m].at = DateOf(h, n)} = j + 1..k
<1> DEFINE d == DateOf(h, n)
           b == SecondOf(h, n - 1)
           j == Prefix(h, b)
           k == Prefix(h, d)
<1>1. /\ d \in Nat /\ b \in Nat /\ d \in Dates(h)
      /\ \A e \in Dates(h) : e <= b <=> e < d
  BY SecondBefore, IdsAreExact
<1> HIDE DEF d, b
<1>2. j \in 0..Len(h) /\ k \in 0..Len(h) /\ Until(h, b) = 1..j /\ Until(h, d) = 1..k
  BY <1>1, UntilIsPrefix
<1> HIDE DEF j, k
<1>3. Len(h) \in Nat /\ DOMAIN h = 1..Len(h) /\ \A m \in DOMAIN h : h[m].at \in Nat /\ h[m].at \in Dates(h)
  <2>1. \A m \in DOMAIN h : h[m] \in Entry OBVIOUS
  <2> QED BY <2>1 DEF Entry, Dates
<1>4. \A m \in DOMAIN h : (m \in 1..j <=> h[m].at < d) /\ (m \in 1..k <=> h[m].at <= d)
  BY <1>1, <1>2, <1>3 DEF Until
<1>5. \A m \in DOMAIN h : h[m].at = d <=> m \in 1..k /\ m \notin 1..j
  BY <1>1, <1>3, <1>4
<1>6. j \in Nat /\ k \in Nat /\ k <= Len(h) BY <1>2, <1>3
<1>7. {m \in DOMAIN h : h[m].at = d} = j + 1..k
  <2>1. \A m : m \in j + 1..k <=> m \in 1..k /\ m \notin 1..j BY <1>6
  <2>2. \A m \in 1..k : m \in DOMAIN h BY <1>3, <1>6
  <2> QED BY <1>5, <2>1, <2>2
<1>8. PICK m \in DOMAIN h : h[m].at = d BY <1>1 DEF Dates
<1>9. m \in j + 1..k BY <1>7, <1>8
<1> QED BY <1>6, <1>7, <1>9 DEF j, k, b, d

LEMMA LastSecond ==
  ASSUME NEW h \in Seq(Entry), ChangelogIsTrue(h)
  PROVE  Prefix(h, SecondOf(h, Cardinality(Dates(h)))) = Len(h)
<1> DEFINE N == Cardinality(Dates(h))
           d == SecondOf(h, N)
<1>1. N \in Nat /\ IsFiniteSet(Dates(h)) /\ Dates(h) \subseteq Nat BY DatesAreFinite, DatesAreNatural
<1>2. Len(h) \in Nat /\ DOMAIN h = 1..Len(h) /\ \A m \in DOMAIN h : h[m].at \in Dates(h) BY DEF Dates
<1>3. d \in Nat /\ \A e \in Dates(h) : e <= d
  <2>1. CASE N = 0
    <3>1. Dates(h) = {} BY <1>1, <2>1, FS_EmptySet
    <3> QED BY <2>1, <3>1 DEF SecondOf
  <2>2. CASE N # 0
    <3>1. N \in 1..N BY <1>1, <2>2
    <3>2. d = DateOf(h, N) /\ d \in Dates(h) /\ IdOf(h, d) = N BY <2>2, <3>1, IdsAreExact DEF SecondOf
    <3>3. ASSUME NEW e \in Dates(h), d < e PROVE FALSE
      <4>1. N < IdOf(h, e) /\ IdOf(h, e) \in 1..N BY <3>2, <3>3, IdsGrow
      <4> QED BY <1>1, <4>1
    <3> HIDE DEF d
    <3>4. \A e \in Dates(h) : e <= d BY <1>1, <3>2, <3>3
    <3> QED BY <1>1, <3>2, <3>4
  <2> QED BY <2>1, <2>2
<1> HIDE DEF d
<1>4. Prefix(h, d) \in 0..Len(h) /\ Until(h, d) = 1..Prefix(h, d) BY <1>3, UntilIsPrefix
<1>5. Until(h, d) = 1..Len(h) BY <1>2, <1>3 DEF Until
<1>6. Len(h) = 0 \/ Len(h) \in 1..Prefix(h, d) BY <1>2, <1>4, <1>5
<1>7. Prefix(h, d) = Len(h)
  <2> HIDE DEF Prefix
  <2> QED BY <1>2, <1>4, <1>6
<1> QED BY <1>7 DEF d

Backwards(h, content, version) ==
    [n \in 0..Cardinality(Dates(h)) |->
        IF n = Cardinality(Dates(h)) THEN content
        ELSE Transition(version[n + 1], Difference(h, DateOf(h, n + 1)))]

LEMMA ReestablishedIsChosen ==
  ASSUME NEW h, NEW content
  PROVE  Reestablished(h, content) = CHOOSE version : version = Backwards(h, content, version)
BY DEF Reestablished, Backwards

\* Whatever the length of the changelog, undoing one difference after another
\* gives what there was.
LEMMA ReestablishedIsTrue ==
  ASSUME NEW h \in Seq(Entry), ChangelogIsTrue(h), ~Ambiguous(h),
         NEW n \in 0..Cardinality(Dates(h))
  PROVE  Reestablished(h, DataAfter(h, Len(h)))[n] = DataAfter(h, Prefix(h, SecondOf(h, n)))
<1> DEFINE N == Cardinality(Dates(h))
           newest == DataAfter(h, Len(h))
           true == [k \in 0..N |-> DataAfter(h, Prefix(h, SecondOf(h, k)))]
           V == Reestablished(h, newest)
<1>1. N \in Nat BY DatesAreFinite
<1>2. ASSUME NEW k \in 0..N, k # N
      PROVE  Transition(true[k + 1], Difference(h, DateOf(h, k + 1))) = true[k]
  <2>1. k + 1 \in 1..N /\ (k + 1) - 1 = k /\ k + 1 \in 0..N BY <1>1, <1>2
  <2>2. SecondOf(h, k + 1) = DateOf(h, k + 1) BY <2>1, SecondBefore
  <2>3. /\ Prefix(h, DateOf(h, k + 1)) \in 1..Len(h)
        /\ Prefix(h, SecondOf(h, k)) \in 0..Prefix(h, DateOf(h, k + 1)) - 1
        /\ {m \in DOMAIN h : h[m].at = DateOf(h, k + 1)}
             = Prefix(h, SecondOf(h, k)) + 1..Prefix(h, DateOf(h, k + 1))
    BY <2>1, SecondIsInterval
  <2>4. Transition(DataAfter(h, Prefix(h, DateOf(h, k + 1))), Difference(h, DateOf(h, k + 1)))
          = DataAfter(h, Prefix(h, SecondOf(h, k)))
    BY <2>3, SecondIsUndone
  <2> QED BY <2>1, <2>2, <2>4
<1>3. true = Backwards(h, newest, true)
  <2>1. true[N] = newest BY <1>1, LastSecond
  <2>2. \A k \in 0..N : Backwards(h, newest, true)[k] = true[k]
    <3> HIDE DEF true, newest
    <3> QED BY <1>2, <2>1 DEF Backwards
  <2>3. DOMAIN Backwards(h, newest, true) = 0..N
        /\ Backwards(h, newest, true) = [k \in 0..N |-> Backwards(h, newest, true)[k]]
    BY DEF Backwards
  <2> QED BY <2>2, <2>3
<1> HIDE DEF true, newest
<1>4. V = Backwards(h, newest, V) BY <1>3, ReestablishedIsChosen
<1> DEFINE wrong == {k \in 0..N : V[k] # true[k]}
<1> HIDE DEF V
<1>5. wrong = {}
  <2> SUFFICES ASSUME wrong # {} PROVE FALSE OBVIOUS
  <2>1. PICK k \in wrong : \A m \in wrong : m <= k BY <1>1, GreatestOfNumbers
  <2>2. k \in 0..N /\ V[k] # true[k] BY <2>1
  <2>3. CASE k = N
    <3>1. Backwards(h, newest, V)[k] = newest /\ Backwards(h, newest, true)[k] = newest
      BY <2>2, <2>3 DEF Backwards
    <3> QED BY <1>3, <1>4, <2>2, <3>1
  <2>4. CASE k # N
    <3>1. k + 1 \in 0..N /\ ~(k + 1 <= k) BY <1>1, <2>2, <2>4
    <3>2. k + 1 \notin wrong BY <2>1, <3>1
    <3>3. V[k + 1] = true[k + 1] BY <3>1, <3>2
    <3>4. Backwards(h, newest, V)[k] = Backwards(h, newest, true)[k]
      BY <2>2, <2>4, <3>3 DEF Backwards
    <3> QED BY <1>3, <1>4, <2>2, <3>4
  <2> QED BY <2>3, <2>4
<1>6. V[n] = true[n] BY <1>5
<1> QED BY <1>6 DEF V, true, newest

\* A version with its number, as get_versions gives it.
RowIs(v, i, h, n) ==
    /\ v.issue = i /\ v.id = n
    /\ v.data = DataAfter(h, Prefix(h, SecondOf(h, n)))
    /\ v.rank \in BOOLEAN
    /\ v.rank <=> n > 0 /\ \E m \in DOMAIN h : h[m].at = DateOf(h, n) /\ "rank" \in h[m].kinds
    /\ v.by = IF n = 0 THEN 0 ELSE Prefix(h, SecondOf(h, n))

LEMMA RowsOfVersions ==
  ASSUME NEW i, NEW h \in Seq(Entry), ChangelogIsTrue(h), ~Ambiguous(h),
         NEW c, NEW u, NEW s,
         NEW v \in GetVersions(i, h, DataAfter(h, Len(h)), c, u, s)
  PROVE  \E n \in 0..Cardinality(Dates(h)) : RowIs(v, i, h, n)
<1> DEFINE N == Cardinality(Dates(h))
           newest == DataAfter(h, Len(h))
           row(n) == [issue |-> i, id |-> n,
                      data |-> Reestablished(h, newest)[n],
                      rank |-> n > 0 /\ Difference(h, DateOf(h, n)).rank,
                      by |-> IF n = 0 THEN 0 ELSE Difference(h, DateOf(h, n)).by,
                      updated |-> IF n = 0 THEN c ELSE IF n = N THEN u ELSE DateOf(h, n)]
<1>1. N \in Nat BY DatesAreFinite
<1>2. \E n \in 0..N : v = row(n)
  <2>1. v = row(0) \/ \E d \in Dates(h) : v = row(IdOf(h, d))
    <3> HIDE DEF newest
    <3> QED BY Zenon DEF GetVersions, newest
  <2> HIDE DEF row
  <2>2. CASE v = row(0) BY <1>1, <2>2
  <2>3. ASSUME NEW d \in Dates(h), v = row(IdOf(h, d)) PROVE \E n \in 0..N : v = row(n)
    <3>1. IdOf(h, d) \in 0..N BY <1>1, IdsGrow
    <3> QED BY <2>3, <3>1
  <2> QED BY <2>1, <2>2, <2>3
<1>3. PICK n \in 0..N : v = row(n) BY <1>2
<1>4. v.data = DataAfter(h, Prefix(h, SecondOf(h, n))) BY <1>3, ReestablishedIsTrue
<1>5. CASE n = 0
  <2>1. v.rank = FALSE /\ v.by = 0
    <3>1. v.rank = (n > 0 /\ Difference(h, DateOf(h, n)).rank) /\ v.by = 0 BY <1>3, <1>5
    <3>2. ~(n > 0) BY <1>5
    <3> QED BY <3>1, <3>2
  <2> QED BY <1>3, <1>4, <1>5, <2>1 DEF RowIs
<1>6. CASE n # 0
  <2> DEFINE d == DateOf(h, n)
             k == Prefix(h, d)
             all == {m \in DOMAIN h : h[m].at = d}
  <2>1. n \in 1..N /\ n > 0 /\ SecondOf(h, n) = d BY <1>1, <1>6 DEF SecondOf
  <2>2. all = Prefix(h, SecondOf(h, n - 1)) + 1..k /\ Prefix(h, SecondOf(h, n - 1)) \in 0..k - 1 /\ k \in 1..Len(h)
    BY <2>1, SecondIsInterval
  <2>3. Difference(h, d).by = Last(all) /\ (Difference(h, d).rank <=> \E m \in all : "rank" \in h[m].kinds)
    <3>1. Difference(h, d).by = Last(all) BY DEF Difference
    <3>2. Difference(h, d).rank = ({m \in all : h[m].kinds \cap {"rank"} # {}} # {}) BY DEF Difference
    <3> HIDE DEF all
    <3>3. {m \in all : h[m].kinds \cap {"rank"} # {}} # {} <=> \E m \in all : "rank" \in h[m].kinds
      OBVIOUS
    <3> QED BY <3>1, <3>2, <3>3
  <2>4. Last(all) = k
    <3> HIDE DEF k, all
    <3>1. k \in Nat /\ all \subseteq 1..k /\ k \in all /\ \A m \in all : m <= k BY <2>2
    <3> QED BY <3>1, LastOfSet
  <2>5. v.issue = i /\ v.id = n /\ v.by = Difference(h, d).by /\ v.rank = Difference(h, d).rank
        /\ v.rank \in BOOLEAN
    <3>1. v.issue = i /\ v.id = n /\ v.by = Difference(h, d).by BY <1>3, <1>6, <2>1
    <3>2. v.rank = (n > 0 /\ Difference(h, d).rank) BY <1>3
    <3>3. Difference(h, d).rank \in BOOLEAN BY DEF Difference
    <3> QED BY <2>1, <3>1, <3>2, <3>3
  <2>6. v.by = k BY <2>3, <2>4, <2>5
  <2>7. v.rank <=> \E m \in DOMAIN h : h[m].at = d /\ "rank" \in h[m].kinds BY <2>3, <2>5
  <2> QED BY <1>4, <1>6, <2>1, <2>5, <2>6, <2>7 DEF RowIs
<1> QED BY <1>5, <1>6

\* The versions that are made backwards are those that the issue had.
WasSo(v, i, h, c) ==
    \E d \in Dates(h) \cup {0} :
        LET true == TrueVersion(i, h, c, d) IN \A f \in DOMAIN true : v[f] = true[f]

LEMMA VersionIsTrue ==
  ASSUME NEW i, NEW h \in Seq(Entry), ChangelogIsTrue(h), ~Ambiguous(h),
         NEW c, NEW u, NEW s,
         NEW v \in GetVersions(i, h, DataAfter(h, Len(h)), c, u, s)
  PROVE  WasSo(v, i, h, c)
<1> DEFINE N == Cardinality(Dates(h))
<1>1. N \in Nat /\ Len(h) \in Nat BY DatesAreFinite
<1>2. PICK n \in 0..N : RowIs(v, i, h, n) BY RowsOfVersions
<1> DEFINE d == SecondOf(h, n)
           t == TrueVersion(i, h, c, d)
<1>3. v.rank \in BOOLEAN BY <1>2 DEF RowIs
<1>4. CASE n = 0
  <2>1. d = 0 BY <1>4 DEF SecondOf
  <2>2. \A m \in DOMAIN h : h[m].at > 0 /\ h[m].at \in Nat
    <3>1. \A m \in DOMAIN h : h[m] \in Entry OBVIOUS
    <3> QED BY <3>1 DEF Entry, ChangelogIsTrue
  <2>3. Until(h, d) = {} /\ ~\E m \in DOMAIN h : h[m].at = d BY <2>1, <2>2 DEF Until
  <2>4. TrueData(h, d) = DataAfter(h, Prefix(h, d)) BY <2>1, TruthIsPrefix
  <2>5. v.rank = FALSE BY <1>2, <1>3, <1>4 DEF RowIs
  <2>6. /\ v.issue = t.issue /\ v.id = t.id /\ v.data = t.data /\ v.by = t.by
    BY <1>2, <1>4, <2>1, <2>3, <2>4 DEF RowIs, TrueVersion
  <2>7. t.rank = FALSE BY <2>3 DEF TrueVersion
  <2>8. DOMAIN t = {"issue", "id", "data", "rank", "by"} BY DEF TrueVersion
  <2> HIDE DEF t
  <2>9. \A f \in DOMAIN t : v[f] = t[f] BY <2>5, <2>6, <2>7, <2>8
  <2> QED BY <2>1, <2>9 DEF t, WasSo
<1>5. CASE n # 0
  <2>1. n \in 1..N BY <1>1, <1>5
  <2>2. d = DateOf(h, n) /\ d \in Dates(h) /\ IdOf(h, d) = n /\ d \in Nat /\ d > 0
    BY <2>1, SecondBefore, IdsAreExact
  <2> DEFINE k == Prefix(h, d)
  <2>3. k \in 1..Len(h) BY <2>1, <2>2, SecondIsInterval
  <2>4. Until(h, d) = 1..k /\ TrueData(h, d) = DataAfter(h, k) BY <2>2, UntilIsPrefix, TruthIsPrefix
  <2>5. Last(Until(h, d)) = k /\ Until(h, d) # {}
    <3> HIDE DEF k
    <3>1. k \in Nat /\ k \in 1..k /\ \A m \in 1..k : m <= k BY <2>3
    <3> QED BY <2>4, <3>1, LastOfSet
  <2>6. v.rank <=> \E m \in DOMAIN h : h[m].at = d /\ "rank" \in h[m].kinds
    <3>1. n > 0 BY <2>1
    <3> QED BY <1>2, <2>2, <3>1 DEF RowIs
  <2>7. t.rank = \E m \in DOMAIN h : h[m].at = d /\ "rank" \in h[m].kinds
    BY Zenon DEF TrueVersion
  <2>8. v.rank = t.rank
    <3>1. t.rank \in BOOLEAN BY <2>7
    <3> HIDE DEF t
    <3> QED BY <1>3, <2>6, <2>7, <3>1
  <2>9. v.issue = t.issue /\ v.id = t.id /\ v.data = t.data /\ v.by = t.by
    BY <1>2, <1>5, <2>2, <2>4, <2>5 DEF RowIs, TrueVersion
  <2>10. DOMAIN t = {"issue", "id", "data", "rank", "by"} BY DEF TrueVersion
  <2> HIDE DEF t
  <2>11. \A f \in DOMAIN t : v[f] = t[f] BY <2>8, <2>9, <2>10
  <2> QED BY <2>2, <2>11 DEF t, WasSo
<1> QED BY <1>4, <1>5

(***************************************************************************)
(* When no second has two changes, a number belongs to an entry            *)
(***************************************************************************)
OneASecond(h) == ~\E m, n \in DOMAIN h : m # n /\ h[m].at = h[n].at

LEMMA NumbersAreEntries ==
  ASSUME NEW h \in Seq(Entry), ChangelogIsTrue(h), OneASecond(h)
  PROVE  /\ Cardinality(Dates(h)) = Len(h) /\ ~Ambiguous(h)
         /\ \A n \in 0..Len(h) : Prefix(h, SecondOf(h, n)) = n
<1> DEFINE N == Cardinality(Dates(h))
           P(n) == Prefix(h, SecondOf(h, n))
<1>1. N \in Nat /\ Len(h) \in Nat /\ DOMAIN h = 1..Len(h) BY DatesAreFinite
<1>2. P(0) = 0
  <2>1. SecondOf(h, 0) = 0 BY DEF SecondOf
  <2>2. Prefix(h, 0) \in 0..Len(h) /\ Until(h, 0) = 1..Prefix(h, 0) BY UntilIsPrefix
  <2>3. \A m \in DOMAIN h : h[m].at > 0 /\ h[m].at \in Nat
    <3>1. \A m \in DOMAIN h : h[m] \in Entry OBVIOUS
    <3> QED BY <3>1 DEF Entry, ChangelogIsTrue
  <2>4. Until(h, 0) = {} BY <2>3 DEF Until
  <2> HIDE DEF Prefix
  <2>5. Prefix(h, 0) = 0 \/ 1 \in 1..Prefix(h, 0) BY <1>1, <2>2
  <2> QED BY <2>1, <2>2, <2>4, <2>5
<1>3. ASSUME NEW n \in 1..N PROVE P(n) = P(n - 1) + 1
  <2>1. /\ SecondOf(h, n) = DateOf(h, n)
        /\ P(n) \in 1..Len(h) /\ P(n - 1) \in 0..P(n) - 1
        /\ {m \in DOMAIN h : h[m].at = DateOf(h, n)} = P(n - 1) + 1..P(n)
    BY SecondBefore, SecondIsInterval
  <2> HIDE DEF P
  <2>2. P(n) \in P(n - 1) + 1..P(n) /\ P(n - 1) + 1 \in P(n - 1) + 1..P(n) BY <1>1, <2>1
  <2>3. h[P(n)].at = DateOf(h, n) /\ h[P(n - 1) + 1].at = DateOf(h, n)
        /\ P(n) \in DOMAIN h /\ P(n - 1) + 1 \in DOMAIN h
    BY <2>1, <2>2
  <2> QED BY <2>3 DEF OneASecond
<1>4. N = Len(h)
  <2> DEFINE f == [n \in DOMAIN h |-> h[n].at]
  <2>1. f \in Surjection(DOMAIN h, Dates(h)) BY DEF Surjection, Dates
  <2>2. f \in Injection(DOMAIN h, Dates(h)) BY <2>1 DEF Surjection, Injection, IsInjective, OneASecond
  <2>3. IsFiniteSet(DOMAIN h) /\ Cardinality(DOMAIN h) = Len(h)
    <3>1. \A k \in Nat : IsFiniteSet(1..k) /\ Cardinality(1..k) = k BY FS_Interval
    <3> QED BY <1>1, <3>1
  <2> HIDE DEF f
  <2>4. Cardinality(Dates(h)) = Cardinality(DOMAIN h) BY <2>1, <2>2, <2>3, FS_Surjection
  <2> QED BY <2>3, <2>4
<1> HIDE DEF N
<1>5. \A n \in 0..N : P(n) = n
  <2> DEFINE wrong == {n \in 0..N : P(n) # n}
  <2> SUFFICES ASSUME wrong # {} PROVE FALSE OBVIOUS
  <2>1. wrong \subseteq Nat OBVIOUS
  <2>2. PICK n \in wrong : \A m \in wrong : n <= m
    <3> HIDE DEF wrong
    <3> QED BY <2>1, SmallestOfNumbers
  <2>3. n # 0 BY <1>2, <2>2
  <2>4. n \in 1..N /\ n - 1 \in 0..N /\ ~(n <= n - 1) BY <1>1, <2>2, <2>3
  <2>5. P(n - 1) = n - 1 BY <2>2, <2>4
  <2>6. P(n) = P(n - 1) + 1 BY <1>3, <2>4
  <2>7. P(n) # n BY <2>2
  <2> HIDE DEF P
  <2> QED BY <2>4, <2>5, <2>6, <2>7
<1>6. ~Ambiguous(h) BY DEF Ambiguous, OneASecond
<1> QED BY <1>4, <1>5, <1>6 DEF N

\* What a version of such an issue has, told by its number alone.
RowAt(v, h) ==
    /\ v.id \in 0..Len(h) /\ v.data = DataAfter(h, v.id) /\ v.by = v.id
    /\ v.rank \in BOOLEAN
    /\ v.rank <=> v.id > 0 /\ "rank" \in h[v.id].kinds

LEMMA RowsOfEntries ==
  ASSUME NEW i, NEW h \in Seq(Entry), ChangelogIsTrue(h), OneASecond(h),
         NEW c, NEW u, NEW s,
         NEW v \in GetVersions(i, h, DataAfter(h, Len(h)), c, u, s)
  PROVE  RowAt(v, h)
<1>1. Cardinality(Dates(h)) = Len(h) /\ ~Ambiguous(h) /\ \A n \in 0..Len(h) : Prefix(h, SecondOf(h, n)) = n
  BY NumbersAreEntries
<1>2. PICK n \in 0..Len(h) : RowIs(v, i, h, n) BY <1>1, RowsOfVersions
<1>3. Len(h) \in Nat /\ Prefix(h, SecondOf(h, n)) = n BY <1>1
<1>4. CASE n = 0 BY <1>2, <1>3, <1>4 DEF RowIs, RowAt
<1>5. CASE n # 0
  <2>1. n \in 1..Len(h) /\ n - 1 \in 0..Len(h) /\ n > 0 BY <1>3, <1>5
  <2>2. Prefix(h, SecondOf(h, n - 1)) = n - 1 /\ Prefix(h, DateOf(h, n)) = n
    <3>1. SecondOf(h, n) = DateOf(h, n) BY <1>5 DEF SecondOf
    <3> QED BY <1>1, <1>3, <2>1, <3>1
  <2>3. {m \in DOMAIN h : h[m].at = DateOf(h, n)} = (n - 1) + 1..n
    BY <1>1, <2>1, <2>2, SecondIsInterval
  <2>4. \A m \in DOMAIN h : h[m].at = DateOf(h, n) <=> m = n
    <3>1. (n - 1) + 1..n = {n} BY <2>1
    <3> QED BY <2>3, <3>1
  <2>5. n \in DOMAIN h BY <2>1
  <2>6. v.rank <=> "rank" \in h[n].kinds BY <1>2, <2>1, <2>4, <2>5 DEF RowIs
  <2> QED BY <1>2, <1>3, <1>5, <2>1, <2>6 DEF RowIs, RowAt
<1> QED BY <1>4, <1>5

(***************************************************************************)
(* A changelog that gets another entry                                     *)
(***************************************************************************)
LEMMA DataStays ==
  ASSUME NEW h, NEW g, NEW n \in Nat, \A m \in 1..n : g[m] = h[m]
  PROVE  DataAfter(g, n) = DataAfter(h, n)
<1>1. \A kind : About(g, n, kind) = About(h, n, kind) BY DEF About
<1> QED BY <1>1 DEF DataAfter

LEMMA DataOfEntry ==
  ASSUME NEW h, NEW n \in Nat \ {0},
         ~({"attach", "detach"} \subseteq h[n].kinds)
  PROVE  /\ DataAfter(h, n).title = IF "title" \in h[n].kinds THEN n ELSE DataAfter(h, n - 1).title
         /\ DataAfter(h, n).attachment =
              IF "attach" \in h[n].kinds THEN DataAfter(h, n - 1).attachment + 1
              ELSE IF "detach" \in h[n].kinds THEN DataAfter(h, n - 1).attachment - 1
              ELSE DataAfter(h, n - 1).attachment
<1>1. /\ n - 1 \in Nat /\ n - 1 <= n /\ n \in Nat
      /\ n \in (n - 1) + 1..n /\ \A m \in (n - 1) + 1..n : m = n
  OBVIOUS
<1>2. ASSUME NEW kind, kind \notin h[n].kinds
      PROVE  About(h, n, kind) = About(h, n - 1, kind)
  <2>1. \A m \in (n - 1) + 1..n : kind \notin h[m].kinds BY <1>1, <1>2
  <2> QED BY <1>1, <2>1, AboutNoMore
<1>3. ASSUME NEW kind, kind \in h[n].kinds
      PROVE  /\ Last(About(h, n, kind)) = n /\ About(h, n, kind) # {}
             /\ Cardinality(About(h, n, kind)) = Cardinality(About(h, n - 1, kind)) + 1
  <2>1. \A m \in (n - 1) + 1..n : m # n => kind \notin h[m].kinds BY <1>1
  <2>2. About(h, n, kind) = About(h, n - 1, kind) \cup {n}
        /\ Last(About(h, n, kind)) = n
        /\ Cardinality(About(h, n, kind)) = Cardinality(About(h, n - 1, kind)) + 1
    BY <1>1, <1>3, <2>1, AboutOneMore
  <2> QED BY <2>2
<1>4. \A kind : Cardinality(About(h, n - 1, kind)) \in Nat BY <1>1, AboutCount
<1>5. CASE "attach" \in h[n].kinds
  <2>1. "detach" \notin h[n].kinds BY <1>5
  <2>2. Cardinality(About(h, n, "attach")) = Cardinality(About(h, n - 1, "attach")) + 1
        /\ Cardinality(About(h, n, "detach")) = Cardinality(About(h, n - 1, "detach"))
    BY <1>2, <1>3, <1>5, <2>1
  <2>3. Cardinality(About(h, n - 1, "attach")) \in Nat /\ Cardinality(About(h, n - 1, "detach")) \in Nat BY <1>4
  <2>4. DataAfter(h, n).attachment = DataAfter(h, n - 1).attachment + 1 BY <2>2, <2>3 DEF DataAfter
  <2> QED BY <1>2, <1>3, <1>5, <2>4 DEF DataAfter
<1>6. CASE "attach" \notin h[n].kinds /\ "detach" \in h[n].kinds
  <2>2. Cardinality(About(h, n, "detach")) = Cardinality(About(h, n - 1, "detach")) + 1
        /\ Cardinality(About(h, n, "attach")) = Cardinality(About(h, n - 1, "attach"))
    BY <1>2, <1>3, <1>6
  <2>3. Cardinality(About(h, n - 1, "attach")) \in Nat /\ Cardinality(About(h, n - 1, "detach")) \in Nat BY <1>4
  <2>4. DataAfter(h, n).attachment = DataAfter(h, n - 1).attachment - 1 BY <2>2, <2>3 DEF DataAfter
  <2> QED BY <1>2, <1>3, <1>6, <2>4 DEF DataAfter
<1>7. CASE "attach" \notin h[n].kinds /\ "detach" \notin h[n].kinds
  <2>1. DataAfter(h, n).attachment = DataAfter(h, n - 1).attachment BY <1>2, <1>7 DEF DataAfter
  <2> QED BY <1>2, <1>3, <1>7, <2>1 DEF DataAfter
<1> QED BY <1>5, <1>6, <1>7

LEMMA EntryKeepsTruth ==
  ASSUME NEW h \in Seq(Entry), ChangelogIsTrue(h), NEW e \in Entry,
         \A d \in Dates(h) : d <= e.at, e.at > 0,
         "detach" \in e.kinds => "attach" \notin e.kinds /\ DataAfter(h, Len(h)).attachment > 0,
         e.from = DataAfter(h, Len(h)).title
  PROVE  /\ ChangelogIsTrue(Append(h, e))
         /\ \A n \in 0..Len(h) : DataAfter(Append(h, e), n) = DataAfter(h, n)
         /\ DataAfter(Append(h, e), Len(h) + 1) =
              [title |-> IF "title" \in e.kinds THEN Len(h) + 1 ELSE DataAfter(h, Len(h)).title,
               attachment |-> IF "attach" \in e.kinds THEN DataAfter(h, Len(h)).attachment + 1
                              ELSE IF "detach" \in e.kinds THEN DataAfter(h, Len(h)).attachment - 1
                              ELSE DataAfter(h, Len(h)).attachment]
         /\ \A v : RowAt(v, h) => RowAt(v, Append(h, e))
         /\ OneASecond(Append(h, e)) => OneASecond(h)
<1> DEFINE g == Append(h, e)
           L == Len(h)
<1>1. /\ L \in Nat /\ DOMAIN h = 1..L /\ DOMAIN g = 1..L + 1 /\ Len(g) = L + 1
      /\ \A n \in 1..L : g[n] = h[n]
      /\ g[L + 1] = e /\ g \in Seq(Entry)
  OBVIOUS
<1> HIDE DEF g, L
<1>2. \A n \in 0..L : DataAfter(g, n) = DataAfter(h, n)
  <2> SUFFICES ASSUME NEW n \in 0..L PROVE DataAfter(g, n) = DataAfter(h, n) OBVIOUS
  <2>1. n \in Nat /\ \A m \in 1..n : g[m] = h[m] BY <1>1
  <2> QED BY <2>1, DataStays
<1>3. DataAfter(h, L).attachment \in Nat
  <2>1. DataAfter(h, 0).attachment = 0 BY AboutNone DEF DataAfter
  <2>2. L # 0 => L \in DOMAIN h /\ DataAfter(h, L).attachment >= 0 BY <1>1 DEF ChangelogIsTrue
  <2>3. DataAfter(h, L).attachment \in Int BY <1>1, AboutCount DEF DataAfter
  <2> QED BY <1>1, <2>1, <2>2, <2>3
<1>4. /\ DataAfter(g, L + 1).title = IF "title" \in e.kinds THEN L + 1 ELSE DataAfter(h, L).title
      /\ DataAfter(g, L + 1).attachment =
           IF "attach" \in e.kinds THEN DataAfter(h, L).attachment + 1
           ELSE IF "detach" \in e.kinds THEN DataAfter(h, L).attachment - 1
           ELSE DataAfter(h, L).attachment
  <2>1. L + 1 \in Nat \ {0} /\ (L + 1) - 1 = L /\ L \in 0..L BY <1>1
  <2>2. ~({"attach", "detach"} \subseteq g[L + 1].kinds) BY <1>1
  <2>3. DataAfter(g, L) = DataAfter(h, L) BY <1>2, <2>1
  <2> HIDE DEF DataAfter
  <2> QED BY <1>1, <2>1, <2>2, <2>3, DataOfEntry
<1>5. DataAfter(g, L + 1).attachment >= 0
  <2>1. "detach" \in e.kinds => DataAfter(h, L).attachment > 0 BY DEF L
  <2> QED BY <1>3, <1>4, <2>1
<1>6. ASSUME NEW n \in DOMAIN g
      PROVE  /\ g[n].at > 0 /\ ~({"attach", "detach"} \subseteq g[n].kinds)
             /\ g[n].from = DataAfter(g, n - 1).title
             /\ DataAfter(g, n).attachment >= 0
  <2>1. CASE n = L + 1
    <3>1. n - 1 = L /\ L \in 0..L BY <1>1, <2>1
    <3>2. DataAfter(g, n - 1).title = DataAfter(h, L).title BY <1>2, <3>1
    <3>3. e.from = DataAfter(h, L).title /\ ~({"attach", "detach"} \subseteq e.kinds) BY DEF L
    <3> QED BY <1>1, <1>5, <2>1, <3>2, <3>3
  <2>2. CASE n # L + 1
    <3>1. n \in DOMAIN h /\ n \in 0..L /\ n - 1 \in 0..L /\ g[n] = h[n] BY <1>1, <2>2
    <3>2. DataAfter(g, n) = DataAfter(h, n) /\ DataAfter(g, n - 1) = DataAfter(h, n - 1) BY <1>2, <3>1
    <3> QED BY <3>1, <3>2 DEF ChangelogIsTrue
  <2> QED BY <2>1, <2>2
<1>7. ASSUME NEW m \in DOMAIN g, NEW n \in DOMAIN g, m <= n PROVE g[m].at <= g[n].at
  <2>1. e.at \in Nat BY DEF Entry
  <2>2. CASE n = L + 1
    <3>1. CASE m = L + 1 BY <1>1, <2>1, <2>2, <3>1
    <3>2. CASE m # L + 1
      <4>1. m \in DOMAIN h /\ g[m] = h[m] BY <1>1, <3>2
      <4> QED BY <1>1, <2>2, <4>1 DEF Dates
    <3> QED BY <3>1, <3>2
  <2>3. CASE n # L + 1
    <3>1. m \in DOMAIN h /\ n \in DOMAIN h /\ g[m] = h[m] /\ g[n] = h[n] BY <1>1, <1>7, <2>3
    <3> QED BY <1>7, <3>1 DEF ChangelogIsTrue
  <2> QED BY <2>2, <2>3
<1>8. ChangelogIsTrue(g) BY <1>6, <1>7 DEF ChangelogIsTrue
<1>9. DataAfter(g, L + 1) = [title |-> DataAfter(g, L + 1).title, attachment |-> DataAfter(g, L + 1).attachment]
  BY DEF DataAfter
<1>10. ASSUME NEW v, RowAt(v, h) PROVE RowAt(v, g)
  <2>1. v.id \in 0..L /\ v.id \in 0..L + 1 BY <1>1, <1>10 DEF RowAt, L
  <2>2. v.id > 0 => g[v.id] = h[v.id] BY <1>1, <2>1
  <2> QED BY <1>1, <1>2, <1>10, <2>1, <2>2 DEF RowAt
<1>11. OneASecond(g) => OneASecond(h)
  <2>1. \A n \in DOMAIN h : n \in DOMAIN g /\ g[n] = h[n] BY <1>1
  <2> QED BY <2>1 DEF OneASecond
<1> QED BY <1>2, <1>4, <1>8, <1>9, <1>10, <1>11 DEF g, L

-----------------------------------------------------------------------------
(***************************************************************************)
(* Positions of issues                                                     *)
(***************************************************************************)
LEMMA SomeIssues ==
  ASSUME NEW S \in SUBSET Issues, NEW i \in Issues
  PROVE  /\ IsFiniteSet({j \in S : j > i})
         /\ Cardinality({j \in S : j > i}) \in Nat
         /\ Cardinality({j \in S : j > i}) < MaxIssue
<1>1. MaxIssue \in Nat /\ i \in 1..MaxIssue BY JiraConstants DEF Issues
<1>2. IsFiniteSet((i + 1)..MaxIssue) /\ Cardinality((i + 1)..MaxIssue) = MaxIssue - i
  BY <1>1, FS_Interval
<1>3. {j \in S : j > i} \subseteq (i + 1)..MaxIssue
  <2>1. ASSUME NEW j \in S, j > i PROVE j \in (i + 1)..MaxIssue
    BY <1>1, <2>1 DEF Issues
  <2> QED BY <2>1
<1>4. /\ IsFiniteSet({j \in S : j > i})
      /\ Cardinality({j \in S : j > i}) <= Cardinality((i + 1)..MaxIssue)
  BY <1>2, <1>3, FS_Subset
<1> QED BY <1>1, <1>2, <1>4, FS_CardinalityType

LEMMA PositionType ==
  ASSUME NEW i \in Issues
  PROVE  Position(i) \in Nat /\ Position(i) < MaxIssue
BY SomeIssues DEF Position, Matching

\* As people change issues, more of them are in the answer.
LEMMA PositionGrows ==
  ASSUME Matching \subseteq Matching', NEW i \in Issues
  PROVE  Position(i) <= Position(i)'
<1>1. {j \in Matching : j > i} \subseteq {j \in Matching' : j > i}
  OBVIOUS
<1>2. Matching' \subseteq Issues BY DEF Matching
<1>3. IsFiniteSet({j \in Matching' : j > i}) BY <1>2, SomeIssues
<1> QED BY <1>1, <1>3, FS_Subset DEF Position

\* Of sets of issues, one does not contain another one.
LEMMA SmallestSet ==
  ASSUME NEW C, C # {}, NEW g \in [C -> SUBSET Issues]
  PROVE  \E m \in C : \A j \in C : ~(g[j] \subseteq g[m] /\ g[j] # g[m])
<1>1. IsFiniteSet(Issues) BY JiraConstants, FS_Interval DEF Issues
<1>2. FiniteSubsetsOf(Issues) = SUBSET Issues
  BY <1>1, FS_FiniteSubsetsOfFinite
<1>3. IsWellFoundedOn(StrictSubsetOrdering(Issues), SUBSET Issues)
  BY <1>2, FS_StrictSubsetOrderingWellFounded
<1> DEFINE F == {g[j] : j \in C}
<1>4. F \subseteq SUBSET Issues /\ F # {} OBVIOUS
<1>5. \E x \in F : \A y \in F : ~(<<y, x>> \in StrictSubsetOrdering(Issues))
  <2> HIDE DEF F
  <2> QED BY <1>3, <1>4, WFMin
<1>6. PICK m \in C : \A j \in C : <<g[j], g[m]>> \notin StrictSubsetOrdering(Issues)
  BY <1>5
<1>7. ASSUME NEW j \in C, g[j] \subseteq g[m], g[j] # g[m] PROVE FALSE
  BY <1>6, <1>7 DEF StrictSubsetOrdering
<1> QED BY <1>7

\* A set of issues has a newest and an oldest one.
LEMMA Extremes ==
  ASSUME NEW C \in SUBSET Issues, C # {}
  PROVE  /\ \E m \in C : \A j \in C : j <= m
         /\ \E m \in C : \A j \in C : m <= j
<1>1. \A j \in C : j \in Int BY JiraConstants DEF Issues
<1>2. \E m \in C : \A j \in C : j <= m
  <2> DEFINE above == [i \in C |-> {j \in C : j > i}]
  <2>1. above \in [C -> SUBSET Issues] OBVIOUS
  <2>2. PICK m \in C : \A j \in C : ~(above[j] \subseteq above[m] /\ above[j] # above[m])
    <3> HIDE DEF above
    <3> QED BY <2>1, SmallestSet
  <2>3. ASSUME NEW j \in C, j > m PROVE FALSE
    <3>1. \A k \in C : k > j => k > m BY <1>1, <2>3
    <3>2. j \in above[m] /\ j \notin above[j] BY <1>1, <2>3
    <3>3. above[j] \subseteq above[m] BY <3>1
    <3> QED BY <2>2, <3>2, <3>3
  <2> QED BY <1>1, <2>3
<1>3. \E m \in C : \A j \in C : m <= j
  <2> DEFINE below == [i \in C |-> {j \in C : j < i}]
  <2>1. below \in [C -> SUBSET Issues] OBVIOUS
  <2>2. PICK m \in C : \A j \in C : ~(below[j] \subseteq below[m] /\ below[j] # below[m])
    <3> HIDE DEF below
    <3> QED BY <2>1, SmallestSet
  <2>3. ASSUME NEW j \in C, j < m PROVE FALSE
    <3>1. \A k \in C : k < j => k < m BY <1>1, <2>3
    <3>2. j \in below[m] /\ j \notin below[j] BY <1>1, <2>3
    <3>3. below[j] \subseteq below[m] BY <3>1
    <3> QED BY <2>2, <3>2, <3>3
  <2> QED BY <1>1, <2>3
<1> QED BY <1>2, <1>3

\* An empty batch is the end of the answer: positions have no gaps.
LEMMA EmptyBatchIsTheEnd ==
  ASSUME Batch = {}, skip \in Nat, size \in Nat \ {0},
         NEW i \in Matching, skip <= Position(i)
  PROVE  FALSE
<1> DEFINE C == {j \in Matching : skip <= Position(j)}
<1>1. Matching \in SUBSET Issues /\ Issues \subseteq Int /\ C \in SUBSET Issues
  BY DEF Matching, Issues
<1>2. PICK m \in C : \A j \in C : j <= m
  BY <1>1, Extremes
<1> DEFINE U == {j \in Matching : j > m}
<1>3. /\ IsFiniteSet(U) /\ Cardinality(U) = Position(m) /\ Position(m) \in Nat
      /\ skip <= Position(m)
  BY <1>1, <1>2, SomeIssues, PositionType DEF Position
<1>4. Position(m) >= skip + size
  <2>1. m \notin Batch /\ m \in Matching OBVIOUS
  <2> QED BY <1>3, <2>1 DEF Batch
<1>5. U # {}
  BY <1>3, <1>4, FS_EmptySet
<1>6. PICK n \in U : \A j \in U : n <= j
  <2>1. U \in SUBSET Issues BY <1>1
  <2> HIDE DEF U
  <2> QED BY <1>5, <2>1, Extremes
<1>7. {j \in Matching : j > n} = U \ {n}
  <2>1. n \in Int /\ m \in Int /\ n > m BY <1>1, <1>2, <1>6
  <2>2. ASSUME NEW j \in Matching PROVE j > n <=> j \in U \ {n}
    <3>1. j \in Int BY <1>1
    <3>2. j \in U => n <= j BY <1>6
    <3> QED BY <2>1, <3>1, <3>2
  <2> QED BY <2>2
<1>8. Position(n) = Position(m) - 1
  <2>1. Cardinality(U \ {n}) = Cardinality(U) - 1
    BY <1>3, <1>6, FS_RemoveElement
  <2> QED BY <1>3, <1>7, <2>1 DEF Position
<1>9. n \in C
  BY <1>3, <1>4, <1>8
<1> QED BY <1>1, <1>2, <1>6, <1>9

(***************************************************************************)
(* What the tables cover                                                   *)
(***************************************************************************)
LEMMA CoversMore ==
  ASSUME NEW i, NEW h, NEW c, NEW m, NEW S, NEW R, NEW T,
         NEW S2, NEW R2, NEW T2,
         S \subseteq S2, R \subseteq R2, T2 \subseteq T,
         Covers(S, R, i, h, c, m, T)
  PROVE  Covers(S2, R2, i, h, c, m, T2)
<1>1. \A k : Has(S, i, k) => Has(S2, i, k) BY DEF Has
<1>2. \A d \in Dates(h) \cap T2 : Has(S2, i, IdOf(h, d))
  BY <1>1 DEF Covers
<1>3. c \in T2 \ {0} => Has(S2, i, 0)
  BY <1>1 DEF Covers
<1>4. {i} \X (m \cap T2) \subseteq R2
  BY DEF Covers
<1> QED BY <1>2, <1>3, <1>4 DEF Covers

\* What the run takes from an issue covers all that is newer than its start.
LEMMA IssueIsCovered ==
  ASSUME TypeOK, NEW i \in Issues, NEW S, NEW R, NEW T,
         VersionsOf(i) \subseteq S, RemarksOf(i) \subseteq R,
         \A t \in T : t > since
  PROVE  Covers(S, R, i, history[i], created[i], comments[i], T)
<1>1. \A d \in Dates(history[i]) \cap T : Has(S, i, IdOf(history[i], d))
  <2>1. ASSUME NEW d \in Dates(history[i]), d > since
        PROVE  \E v \in VersionsOf(i) : v.issue = i /\ v.id = IdOf(history[i], d)
    BY <2>1, VersionsCover DEF VersionsOf
  <2> QED BY <2>1 DEF Has
<1>2. created[i] \in T \ {0} => Has(S, i, 0)
  <2>1. ASSUME created[i] > since
        PROVE  \E v \in VersionsOf(i) : v.issue = i /\ v.id = 0
    BY <2>1, VersionsCover DEF VersionsOf
  <2> QED BY <2>1 DEF Has
<1>3. {i} \X (comments[i] \cap T) \subseteq R
  BY DEF RemarksOf
<1> QED BY <1>1, <1>2, <1>3 DEF Covers

\* An issue without changes since the tracker needs nothing.
LEMMA NothingToCover ==
  ASSUME TypeOK, AgesAreRight, NEW i \in Issues, i \notin Matching,
         NEW S, NEW R, NEW T, \A t \in T : t \in Nat /\ t > since
  PROVE  Covers(S, R, i, history[i], created[i], comments[i], T)
<1>1. /\ updated[i] \in Nat /\ created[i] \in Nat /\ since \in Nat
      /\ created[i] <= updated[i] /\ (created[i] = 0 => updated[i] = 0)
      /\ Dates(history[i]) \subseteq 1..updated[i]
      /\ comments[i] \subseteq 1..updated[i]
  BY JiraConstants DEF TypeOK, Time, AgesAreRight
<1>2. created[i] = 0 \/ updated[i] <= since
  BY <1>1 DEF Matching
<1>3. \A t \in T : t > updated[i]
  BY <1>1, <1>2
<1>4. Dates(history[i]) \cap T = {} /\ comments[i] \cap T = {} /\ created[i] \notin T
  BY <1>1, <1>3
<1> QED BY <1>4 DEF Covers

(***************************************************************************)
(* People                                                                  *)
(***************************************************************************)
LEMMA HistoryType ==
  ASSUME TypeOK, AgesAreRight, NEW i \in Issues
  PROVE  /\ history[i] \in Seq(Entry) /\ now \in Nat /\ now > 0
         /\ \A d \in Dates(history[i]) : d \in Nat /\ d <= now
<1>1. /\ history[i] \in Seq(Entry) /\ now \in Nat /\ now > 0
      /\ updated[i] \in Nat /\ updated[i] <= now
      /\ Dates(history[i]) \subseteq 1..updated[i]
  BY JiraConstants DEF TypeOK, Time, AgesAreRight
<1> QED BY <1>1

\* A change adds an entry with the time and the title of before.
LEMMA ChangedHistory ==
  ASSUME TypeOK, AgesAreRight, NEW i \in Issues,
         NEW kinds \in SUBSET Kinds,
         history' = [history EXCEPT ![i] =
             Append(@, [at |-> now, kinds |-> kinds, from |-> data[i].title])]
  PROVE  /\ history' \in [Issues -> Seq(Entry)]
         /\ Dates(history'[i]) = Dates(history[i]) \cup {now}
         /\ \A d \in Dates(history[i]) : IdOf(history'[i], d) = IdOf(history[i], d)
         /\ \A j \in Issues : j # i => history'[j] = history[j]
<1> DEFINE e == [at |-> now, kinds |-> kinds, from |-> data[i].title]
<1>1. e \in Entry /\ e.at = now
  <2>1. data[i].title \in Nat BY DEF TypeOK, Content
  <2> QED BY <2>1, HistoryType DEF Entry
<1>2. history'[i] = Append(history[i], e) /\ history[i] \in Seq(Entry)
  BY DEF TypeOK
<1>3. history' \in [Issues -> Seq(Entry)]
  BY <1>1, <1>2 DEF TypeOK
<1>4. \A d \in Dates(history[i]) : d <= e.at
  BY <1>1, HistoryType
<1> HIDE DEF e
<1>5. /\ Dates(Append(history[i], e)) = Dates(history[i]) \cup {e.at}
      /\ \A d \in Dates(history[i]) : IdOf(Append(history[i], e), d) = IdOf(history[i], d)
  BY <1>1, <1>2, <1>4, NewEntry
<1>6. \A j \in Issues : j # i => history'[j] = history[j]
  BY DEF TypeOK
<1> QED BY <1>1, <1>2, <1>3, <1>5, <1>6

\* What people do now does not matter for times that do not include it.
LEMMA TouchKeeps ==
  ASSUME TypeOK, AgesAreRight, NEW i \in Issues, Touch(i),
         NEW S, NEW R, NEW T, now \notin T,
         Covers(S, R, i, history[i], created[i], comments[i], T)
  PROVE  Covers(S, R, i, history'[i], created'[i], comments'[i], T)
<1>1. CASE CreateIssue(i)
  BY <1>1 DEF CreateIssue, Covers, TypeOK
<1>2. CASE AddComment(i)
  <2>1. comments'[i] \cap T = comments[i] \cap T BY <1>2 DEF AddComment, TypeOK
  <2> QED BY <1>2, <2>1 DEF AddComment, Covers
<1>3. ASSUME NEW kinds \in Changes, Change(i, kinds)
      PROVE  Covers(S, R, i, history'[i], created'[i], comments'[i], T)
  <2>1. kinds \in SUBSET Kinds BY JiraConstants
  <2>2. /\ Dates(history'[i]) = Dates(history[i]) \cup {now}
        /\ \A d \in Dates(history[i]) : IdOf(history'[i], d) = IdOf(history[i], d)
    BY <1>3, <2>1, ChangedHistory DEF Change
  <2>3. created' = created /\ comments' = comments BY <1>3 DEF Change
  <2> QED BY <2>2, <2>3 DEF Covers
<1> QED BY <1>1, <1>2, <1>3 DEF Touch

LEMMA TouchesNoOther ==
  ASSUME TypeOK, NEW i \in Issues, Touch(i), NEW j \in Issues, j # i
  PROVE  history'[j] = history[j] /\ created'[j] = created[j] /\ comments'[j] = comments[j]
<1>1. CASE CreateIssue(i) BY <1>1 DEF CreateIssue, TypeOK
<1>2. CASE AddComment(i) BY <1>2 DEF AddComment, TypeOK
<1>3. ASSUME NEW kinds \in Changes, Change(i, kinds)
      PROVE  history'[j] = history[j] /\ created'[j] = created[j] /\ comments'[j] = comments[j]
  BY <1>3 DEF Change, TypeOK
<1> QED BY <1>1, <1>2, <1>3 DEF Touch

LEMMA TouchFrame ==
  ASSUME NEW i \in Issues, Touch(i)
  PROVE  /\ MayChange(i)
         /\ UNCHANGED <<now, files, pc, started, query, tables>>
         /\ updated' = [updated EXCEPT ![i] = now]
         /\ \A j \in Issues : TypeOK => created'[j] = created[j] \/ created'[j] = now
<1>1. CASE CreateIssue(i) BY <1>1 DEF CreateIssue, TypeOK
<1>2. CASE AddComment(i) BY <1>2 DEF AddComment
<1>3. ASSUME NEW kinds \in Changes, Change(i, kinds)
      PROVE  /\ MayChange(i)
             /\ UNCHANGED <<now, files, pc, started, query, tables>>
             /\ updated' = [updated EXCEPT ![i] = now]
             /\ created' = created
  BY <1>3 DEF Change
<1> QED BY <1>1, <1>2, <1>3 DEF Touch

(***************************************************************************)
(* Types                                                                   *)
(***************************************************************************)
LEMMA FloorType ==
  ASSUME NEW t \in Time
  PROVE  Floor(t) \in Time
<1>1. Minute \in Nat \ {0} /\ t \in Nat /\ t <= MaxTime BY JiraConstants DEF Time
<1>2. t % Minute \in 0..(Minute - 1) /\ t = Minute * (t \div Minute) + (t % Minute)
  BY <1>1
<1>3. t \div Minute \in Nat BY <1>1
<1>4. Minute * (t \div Minute) \in Nat BY <1>1, <1>3
<1>5. Floor(t) = Minute * (t \div Minute) BY <1>1, <1>2, <1>4 DEF Floor
<1> QED BY <1>1, <1>2, <1>4, <1>5, JiraConstants DEF Time

LEMMA VersionsType ==
  ASSUME TypeOK, NEW i \in Issues
  PROVE  \A v \in VersionsOf(i) : v.issue \in Issues /\ v.id \in Nat
<1>1. history[i] \in Seq(Entry) BY DEF TypeOK
<1>2. \A v \in VersionsOf(i) :
         v.issue = i /\ (v.id = 0 \/ \E d \in Dates(history[i]) : v.id = IdOf(history[i], d))
  BY VersionsCover DEF VersionsOf
<1> QED BY <1>1, <1>2, IdIsNatural

LEMMA TypeInit == Init => TypeOK
<1> SUFFICES ASSUME Init PROVE TypeOK OBVIOUS
<1>1. 0 \in Time /\ 1 \in Time /\ BatchSize \in Nat \ {0}
  BY JiraConstants DEF Time
<1>2. <<>> \in Seq(Entry) OBVIOUS
<1>3. [title |-> 0, attachment |-> 0] \in Content BY DEF Content
<1>4. created \in [Issues -> Time] /\ updated \in [Issues -> Time] /\ tracker \in Time
  BY <1>1 DEF Init, Null
<1>5. data \in [Issues -> Content] /\ history \in [Issues -> Seq(Entry)]
  BY <1>2, <1>3 DEF Init
<1>6. comments \in [Issues -> SUBSET Time] BY DEF Init
<1> QED BY <1>1, <1>4, <1>5, <1>6 DEF Init, TypeOK, Null

LEMMA TouchType ==
  ASSUME TypeOK, AgesAreRight, NEW i \in Issues, Touch(i)
  PROVE  TypeOK'
<1>1. now \in Time BY DEF TypeOK
<1>2. CASE CreateIssue(i)
  <2>1. created' \in [Issues -> Time] /\ updated' \in [Issues -> Time]
    BY <1>1, <1>2 DEF CreateIssue, TypeOK
  <2> QED BY <1>2, <2>1 DEF CreateIssue, TypeOK, files, query, tables
<1>3. CASE AddComment(i)
  <2>1. comments' \in [Issues -> SUBSET Time] /\ updated' \in [Issues -> Time]
    BY <1>1, <1>3 DEF AddComment, TypeOK
  <2> QED BY <1>3, <2>1 DEF AddComment, TypeOK, files, query, tables
<1>4. ASSUME NEW kinds \in Changes, Change(i, kinds)
      PROVE  TypeOK'
  <2>1. kinds \in SUBSET Kinds BY JiraConstants
  <2>2. history' \in [Issues -> Seq(Entry)]
    BY <1>4, <2>1, ChangedHistory DEF Change
  <2>3. updated' \in [Issues -> Time]
    BY <1>1, <1>4 DEF Change, TypeOK
  <2>4. Apply(data[i], kinds, Len(history[i]) + 1) \in Content
    <3>1. data[i].title \in Nat /\ data[i].attachment \in Nat BY DEF TypeOK, Content
    <3>2. Len(history[i]) \in Nat BY DEF TypeOK
    <3>3. "detach" \in kinds => data[i].attachment > 0 BY <1>4 DEF Change
    <3> QED BY <3>1, <3>2, <3>3 DEF Apply, Content
  <2>5. data' \in [Issues -> Content]
    BY <1>4, <2>4 DEF Change, TypeOK
  <2> QED BY <1>4, <2>2, <2>3, <2>5 DEF Change, TypeOK, files, query, tables
<1> QED BY <1>2, <1>3, <1>4 DEF Touch

LEMMA NextSizeType ==
  ASSUME TypeOK
  PROVE  NextSize \in Nat \ {0}
BY JiraConstants DEF TypeOK, NextSize, ReachedLimit

LEMMA RunType ==
  ASSUME TypeOK, Run
  PROVE  TypeOK'
<1>1. /\ 0 \in Time /\ now \in Time /\ tracker \in Time
      /\ BatchSize \in Nat \ {0} /\ skip + size \in Nat
  BY JiraConstants DEF TypeOK, Time
<1>2. ASSUME NEW again \in BOOLEAN, Start(again) PROVE TypeOK'
  BY <1>1, <1>2 DEF Start, TypeOK, jira, files, Null
<1>3. CASE CollectBatch
  <2>1. latest' \in Time BY <1>1, <1>3, FloorType DEF CollectBatch
  <2>2. \A v \in versions' : v.issue \in Issues /\ v.id \in Nat
    <3>1. Batch \subseteq Issues BY DEF Batch, Matching
    <3>2. \A v \in UNION {VersionsOf(i) : i \in Batch} : v.issue \in Issues /\ v.id \in Nat
      BY <3>1, VersionsType
    <3> QED BY <1>3, <3>2 DEF CollectBatch, TypeOK
  <2>3. remarks' \subseteq Issues \X Time
    <3>1. Batch \subseteq Issues BY DEF Batch, Matching
    <3>2. \A i \in Issues : RemarksOf(i) \subseteq Issues \X Time
      BY DEF RemarksOf, TypeOK
    <3> QED BY <1>3, <3>1, <3>2 DEF CollectBatch, TypeOK
  <2>4. size' \in Nat \ {0} BY <1>3, NextSizeType DEF CollectBatch
  <2>5. skip' \in Nat BY <1>1, <1>3 DEF CollectBatch
  <2> QED BY <1>3, <2>1, <2>2, <2>3, <2>4, <2>5 DEF CollectBatch, TypeOK, jira, files
<1>4. CASE LastBatch
  BY <1>1, <1>4, FloorType DEF LastBatch, TypeOK, jira, files, tables
<1>5. CASE StopAtLimit \/ WriteTables
  BY <1>5 DEF StopAtLimit, WriteTables, TypeOK, jira, files, query, tables
<1>6. CASE SaveUpdatedSince
  BY <1>1, <1>6 DEF SaveUpdatedSince, TypeOK, jira, Null
<1>7. CASE Abort
  BY <1>1, <1>7 DEF Abort, TypeOK, jira, files, Null
<1> QED BY <1>2, <1>3, <1>4, <1>5, <1>6, <1>7 DEF Run

LEMMA TickType ==
  ASSUME TypeOK, Tick
  PROVE  TypeOK'
<1>1. now' \in Time \ {0} BY JiraConstants DEF Tick, TypeOK, Time
<1> QED BY <1>1 DEF Tick, TypeOK, jira, files, query, tables

(***************************************************************************)
(* The inductive invariant                                                 *)
(***************************************************************************)
LEMMA InitInvariant == Init => IInv
<1> SUFFICES ASSUME Init PROVE IInv OBVIOUS
<1>1. TypeOK BY TypeInit
<1>2. \A i \in Issues : history[i] = <<>> /\ comments[i] = {} /\ created[i] = 0 /\ updated[i] = 0
  BY DEF Init
<1>3. Dates(<<>>) = {} BY DEF Dates
<1>4. AgesAreRight BY <1>2, <1>3 DEF AgesAreRight, Init
<1>5. RunIsTimely /\ BatchesAreComplete BY DEF Init, RunIsTimely, BatchesAreComplete
<1>6. LimitIsExact BY JiraConstants DEF Init, LimitIsExact
<1>7. NothingIsSkipped
  <2>1. Quiet \subseteq Issues BY JiraConstants DEF Issues
  <2> QED BY <1>2, <1>3, <2>1 DEF NothingIsSkipped, Complete, Covers
<1> QED BY <1>1, <1>4, <1>5, <1>6, <1>7 DEF IInv

LEMMA TouchAges ==
  ASSUME TypeOK, AgesAreRight, NEW i \in Issues, Touch(i)
  PROVE  AgesAreRight'
<1> SUFFICES ASSUME NEW j \in Issues
             PROVE  /\ created'[j] <= updated'[j] /\ updated'[j] <= now'
                    /\ created'[j] = 0 => updated'[j] = 0
                    /\ Dates(history'[j]) \subseteq 1..updated'[j]
                    /\ comments'[j] \subseteq 1..updated'[j]
  BY DEF AgesAreRight
<1>1. now' = now /\ updated' = [updated EXCEPT ![i] = now]
  BY TouchFrame
<1>2. CASE j # i
  BY <1>1, <1>2, TouchesNoOther DEF AgesAreRight, TypeOK
<1>3. CASE j = i
  <2>1. /\ updated'[i] = now /\ now \in Nat /\ now > 0 /\ created[i] \in Nat
        /\ created[i] <= now /\ updated[i] \in Nat /\ updated[i] <= now
        /\ Dates(history[i]) \subseteq 1..now /\ comments[i] \subseteq 1..now
    <3>1. updated'[i] = now BY <1>1 DEF TypeOK
    <3>2. /\ created[i] \in Nat /\ updated[i] \in Nat /\ now \in Nat /\ now > 0
      BY JiraConstants DEF TypeOK, Time
    <3> QED BY <3>1, <3>2 DEF AgesAreRight
  <2>2. CASE CreateIssue(i)
    <3>1. created'[i] = now BY <2>2 DEF CreateIssue, TypeOK
    <3> QED BY <1>1, <1>3, <2>1, <2>2, <3>1 DEF CreateIssue
  <2>3. CASE AddComment(i)
    <3>1. comments'[i] = comments[i] \cup {now} BY <2>3 DEF AddComment, TypeOK
    <3> QED BY <1>1, <1>3, <2>1, <2>3, <3>1 DEF AddComment
  <2>4. ASSUME NEW kinds \in Changes, Change(i, kinds)
        PROVE  /\ created'[i] # 0 /\ created'[i] <= now
               /\ Dates(history'[i]) \subseteq 1..now /\ comments'[i] \subseteq 1..now
    <3>1. kinds \in SUBSET Kinds BY JiraConstants
    <3>2. Dates(history'[i]) = Dates(history[i]) \cup {now}
      BY <2>4, <3>1, ChangedHistory DEF Change
    <3> QED BY <2>1, <2>4, <3>2 DEF Change
  <2> QED BY <1>1, <1>3, <2>1, <2>2, <2>3, <2>4 DEF Touch
<1> QED BY <1>2, <1>3

LEMMA TouchBatches ==
  ASSUME TypeOK, AgesAreRight, RunIsTimely, BatchesAreComplete,
         NEW i \in Issues, Touch(i)
  PROVE  BatchesAreComplete'
<1> SUFFICES ASSUME pc # "idle", NEW j \in Issues
             PROVE  (\/ Complete(versions, remarks, j, Window(j))
                     \/ pc = "query" /\ j \in Matching /\ skip <= Position(j))'
  BY TouchFrame DEF BatchesAreComplete
<1>1. /\ pc' = pc /\ skip' = skip /\ versions' = versions /\ remarks' = remarks
      /\ since' = since /\ started' = started /\ now' = now
      /\ updated' = [updated EXCEPT ![i] = now] /\ MayChange(i)
  BY TouchFrame DEF query, tables
<1>2. Window(j)' = Window(j) BY <1>1 DEF Window
<1>3. i \notin Quiet BY <1>1 DEF MayChange
<1>4. CASE Complete(versions, remarks, j, Window(j))
  <2>1. Covers(versions, remarks, j, history'[j], created'[j], comments'[j], Window(j))
    <3>1. CASE j = i
      <4>1. started \in Nat /\ now \in Nat /\ started <= now
        BY JiraConstants DEF RunIsTimely, TypeOK, Time
      <4>2. now \notin Window(i) BY <1>3, <4>1 DEF Window
      <4> QED BY <1>4, <3>1, <4>2, TouchKeeps DEF Complete
    <3>2. CASE j # i
      BY <1>4, <3>2, TouchesNoOther DEF Complete
    <3> QED BY <3>1, <3>2
  <2> QED BY <1>1, <1>2, <2>1 DEF Complete
<1>5. CASE pc = "query" /\ j \in Matching /\ skip <= Position(j)
  <2>1. Matching \subseteq Matching'
    <3>1. ASSUME NEW k \in Matching PROVE k \in Matching'
      <4>1. k \in Issues /\ created[k] # 0 /\ updated[k] > since BY DEF Matching
      <4>2. created'[k] # 0
        <5>1. created'[k] = created[k] \/ created'[k] = now BY <4>1, TouchFrame
        <5> QED BY <4>1, <5>1 DEF TypeOK
      <4>3. updated'[k] > since
        <5>1. /\ updated[k] \in Nat /\ now \in Nat /\ since \in Nat /\ updated[k] <= now
          BY <4>1, JiraConstants DEF TypeOK, Time, AgesAreRight
        <5>2. updated'[k] = IF k = i THEN now ELSE updated[k]
          BY <1>1, <4>1 DEF TypeOK
        <5> QED BY <4>1, <5>1, <5>2
      <4> QED BY <1>1, <4>1, <4>2, <4>3 DEF Matching
    <3> QED BY <3>1
  <2>2. Position(j) <= Position(j)' BY <2>1, PositionGrows
  <2>3. Position(j) \in Nat /\ Position(j)' \in Nat
    <3>1. Matching' \in SUBSET Issues BY DEF Matching
    <3>2. Position(j)' = Cardinality({k \in Matching' : k > j}) BY DEF Position
    <3> QED BY <3>1, <3>2, SomeIssues, PositionType
  <2>4. skip <= Position(j)' BY <1>5, <2>2, <2>3 DEF TypeOK
  <2> QED BY <1>1, <1>5, <2>1, <2>4
<1> QED BY <1>4, <1>5 DEF BatchesAreComplete

LEMMA TouchSkipsNothing ==
  ASSUME TypeOK, AgesAreRight, NothingIsSkipped, NEW i \in Issues, Touch(i)
  PROVE  NothingIsSkipped'
<1> SUFFICES ASSUME NEW j \in Quiet
             PROVE  Complete(exported, remarked, j, {t \in Time : t <= tracker})'
  BY DEF NothingIsSkipped
<1> DEFINE T == {t \in Time : t <= tracker}
<1>1. j \in Issues BY JiraConstants DEF Issues
<1>2. MayChange(i) /\ tracker' = tracker /\ exported' = exported /\ remarked' = remarked
  BY TouchFrame DEF files
<1>3. Covers(exported, remarked, j, history[j], created[j], comments[j], T)
  BY DEF NothingIsSkipped, Complete
<1>4. Covers(exported, remarked, j, history'[j], created'[j], comments'[j], T)
  <2>1. CASE j = i
    <3>1. now > tracker /\ now \in Nat /\ tracker \in Nat
      BY <1>2, <2>1, JiraConstants DEF MayChange, TypeOK, Time
    <3>2. now \notin T BY <3>1
    <3> HIDE DEF T
    <3> QED BY <1>1, <1>3, <2>1, <3>2, TouchKeeps
  <2>2. CASE j # i
    BY <1>1, <1>3, <2>2, TouchesNoOther
  <2> QED BY <2>1, <2>2
<1> QED BY <1>2, <1>4 DEF Complete

LEMMA TouchInvariant ==
  ASSUME IInv, NEW i \in Issues, Touch(i)
  PROVE  IInv'
<1>1. TypeOK' BY TouchType DEF IInv
<1>2. AgesAreRight' BY TouchAges DEF IInv
<1>3. RunIsTimely' /\ LimitIsExact'
  BY TouchFrame DEF IInv, RunIsTimely, LimitIsExact, files, query
<1>4. BatchesAreComplete' BY TouchBatches DEF IInv
<1>5. NothingIsSkipped' BY TouchSkipsNothing DEF IInv
<1> QED BY <1>1, <1>2, <1>3, <1>4, <1>5 DEF IInv

\* Everything but the batches of the run
LEMMA SameIssues ==
  ASSUME UNCHANGED jira, AgesAreRight, now \in Nat, now' = now \/ now' = now + 1,
         TypeOK
  PROVE  AgesAreRight'
<1> SUFFICES ASSUME NEW i \in Issues
             PROVE  updated[i] <= now'
  BY DEF AgesAreRight, jira
<1>1. updated[i] \in Nat /\ updated[i] <= now
  BY JiraConstants DEF AgesAreRight, TypeOK, Time
<1> QED BY <1>1

LEMMA TickInvariant ==
  ASSUME IInv, Tick
  PROVE  IInv'
<1>1. now \in Nat /\ started \in Nat BY JiraConstants DEF IInv, TypeOK, Time
<1>2. TypeOK' BY TickType DEF IInv
<1>3. AgesAreRight' BY <1>1, SameIssues DEF IInv, Tick
<1>4. RunIsTimely' BY <1>1 DEF IInv, Tick, RunIsTimely, files, query
<1>5. LimitIsExact' BY DEF IInv, Tick, LimitIsExact, query
<1>6. \A i : Window(i)' = Window(i) /\ Matching' = Matching
  BY DEF Tick, Window, Matching, query, jira
<1>7. BatchesAreComplete'
  BY <1>6 DEF IInv, Tick, BatchesAreComplete, Complete, Position, jira, query, tables
<1>8. NothingIsSkipped'
  BY DEF IInv, Tick, NothingIsSkipped, Complete, jira, files
<1> QED BY <1>2, <1>3, <1>4, <1>5, <1>7, <1>8 DEF IInv

\* The batches of a run that starts are all before it.
LEMMA StartBatches ==
  ASSUME IInv, NEW again \in BOOLEAN, Start(again)
  PROVE  BatchesAreComplete'
<1> SUFFICES ASSUME NEW i \in Issues,
                    i \notin Matching'
             PROVE  Complete(versions, remarks, i, Window(i))'
  <2>1. skip' = 0 /\ pc' = "query" BY DEF Start
  <2>2. ASSUME NEW j \in Issues
        PROVE  0 <= Position(j)'
    <3>1. {k \in Matching' : k > j} \subseteq Issues BY DEF Matching
    <3>2. Cardinality({k \in Matching' : k > j}) \in Nat BY <3>1, SomeIssues
    <3>3. Position(j)' = Cardinality({k \in Matching' : k > j}) BY DEF Position
    <3> QED BY <3>2, <3>3
  <2> QED BY <2>1, <2>2 DEF BatchesAreComplete
<1>1. TypeOK' /\ AgesAreRight'
  <2>1. Run BY DEF Run
  <2>2. TypeOK' BY <2>1, RunType DEF IInv
  <2> QED BY <2>2 DEF IInv, Start, AgesAreRight, jira
<1>2. /\ updated'[i] \in Nat /\ created'[i] \in Nat /\ since' \in Nat
      /\ created'[i] <= updated'[i] /\ (created'[i] = 0 => updated'[i] = 0)
      /\ Dates(history'[i]) \subseteq 1..updated'[i]
      /\ comments'[i] \subseteq 1..updated'[i]
  BY <1>1, JiraConstants DEF TypeOK, Time, AgesAreRight
<1>3. created'[i] = 0 \/ updated'[i] <= since'
  BY <1>2 DEF Matching
<1>4. \A t \in Window(i)' : t \in Nat /\ t > updated'[i]
  BY <1>2, <1>3, JiraConstants DEF Window, Time
<1>5. /\ Dates(history'[i]) \cap Window(i)' = {} /\ comments'[i] \cap Window(i)' = {}
      /\ created'[i] \notin Window(i)'
  BY <1>2, <1>4
<1> QED BY <1>5 DEF Complete, Covers

LEMMA CollectBatches ==
  ASSUME IInv, CollectBatch
  PROVE  BatchesAreComplete'
<1> SUFFICES ASSUME NEW i \in Issues
             PROVE  (\/ Complete(versions, remarks, i, Window(i))
                     \/ pc = "query" /\ i \in Matching /\ skip <= Position(i))'
  BY DEF BatchesAreComplete
<1>1. /\ pc = "query" /\ pc' = "query" /\ skip' = skip + size
      /\ UNCHANGED <<jira, started, since>>
      /\ versions' = versions \cup UNION {VersionsOf(j) : j \in Batch}
      /\ remarks' = remarks \cup UNION {RemarksOf(j) : j \in Batch}
  BY DEF CollectBatch
<1>2. Window(i)' = Window(i) /\ Matching' = Matching /\ Position(i)' = Position(i)
  BY <1>1 DEF Window, Matching, Position, jira
<1>3. CASE Complete(versions, remarks, i, Window(i))
  <2>1. Covers(versions', remarks', i, history[i], created[i], comments[i], Window(i))
    BY <1>1, <1>3, CoversMore DEF Complete
  <2> QED BY <1>1, <1>2, <2>1 DEF Complete, jira
<1>4. CASE i \in Batch
  <2>1. VersionsOf(i) \subseteq versions' /\ RemarksOf(i) \subseteq remarks'
    BY <1>1, <1>4
  <2>2. \A t \in Window(i) : t > since
    BY JiraConstants DEF Window, IInv, TypeOK, Time
  <2>3. Covers(versions', remarks', i, history[i], created[i], comments[i], Window(i))
    BY <2>1, <2>2, IssueIsCovered DEF IInv
  <2> QED BY <1>1, <1>2, <2>3 DEF Complete, jira
<1>5. CASE i \in Matching /\ skip <= Position(i) /\ i \notin Batch
  <2>1. Position(i) \in Nat /\ skip \in Nat /\ size \in Nat
    BY PositionType DEF IInv, TypeOK
  <2>2. skip + size <= Position(i) BY <1>5, <2>1 DEF Batch
  <2> QED BY <1>1, <1>2, <1>5, <2>2
<1> QED BY <1>1, <1>3, <1>4, <1>5 DEF IInv, BatchesAreComplete

LEMMA FoundBatches ==
  ASSUME NothingIsLimited, IInv, LastBatch \/ StopAtLimit
  PROVE  BatchesAreComplete'
<1> SUFFICES ASSUME NEW i \in Issues
             PROVE  Complete(versions, remarks, i, Window(i))'
  BY DEF BatchesAreComplete
<1>1. /\ pc = "query" /\ UNCHANGED <<jira, started, since, skip, size, tables>>
  BY DEF LastBatch, StopAtLimit, query
<1>2. ~(i \in Matching /\ skip <= Position(i))
  <2>1. SUFFICES ASSUME i \in Matching, skip <= Position(i) PROVE FALSE
    OBVIOUS
  <2>2. skip \in Nat /\ size \in Nat \ {0} BY DEF IInv, TypeOK
  <2>3. CASE LastBatch
    BY <2>1, <2>2, <2>3, EmptyBatchIsTheEnd DEF LastBatch
  <2>4. CASE StopAtLimit
    <3>1. skip + size > Maximum BY <2>4 DEF StopAtLimit, ReachedLimit
    <3>2. Maximum <= skip
      BY <2>2, <3>1, JiraConstants DEF IInv, LimitIsExact
    <3>3. Position(i) \in Nat /\ Position(i) < MaxIssue BY PositionType
    <3> QED BY <2>1, <2>2, <3>2, <3>3, JiraConstants DEF NothingIsLimited
  <2> QED BY <2>3, <2>4
<1>3. Complete(versions, remarks, i, Window(i))
  BY <1>1, <1>2 DEF IInv, BatchesAreComplete
<1> QED BY <1>1, <1>3 DEF Complete, Window, jira, tables

\* What the run found goes up to its tracker and beyond, of quiet issues.
LEMMA SaveSkipsNothing ==
  ASSUME IInv, SaveUpdatedSince
  PROVE  NothingIsSkipped'
<1> SUFFICES ASSUME NEW i \in Quiet
             PROVE  Complete(exported, remarked, i, {t \in Time : t <= tracker})'
  BY DEF NothingIsSkipped
<1>1. i \in Issues BY JiraConstants DEF Issues
<1>2. /\ pc = "written" /\ UNCHANGED jira
      /\ exported' = exported \cup versions /\ remarked' = remarked \cup remarks
  BY DEF SaveUpdatedSince
<1>3. Covers(exported, remarked, i, history[i], created[i], comments[i],
             {t \in Time : t <= tracker})
  BY DEF IInv, NothingIsSkipped, Complete
<1>4. Covers(versions, remarks, i, history[i], created[i], comments[i], Window(i))
  BY <1>1, <1>2 DEF IInv, BatchesAreComplete, Complete
<1>5. \A t \in Time : t <= tracker \/ t \in Window(i)
  BY <1>2, JiraConstants DEF IInv, RunIsTimely, Window, TypeOK, Time
<1>6. Covers(exported', remarked', i, history[i], created[i], comments[i],
             {t \in Time : t <= tracker})
  BY <1>2, <1>3, CoversMore
<1>7. Covers(exported', remarked', i, history[i], created[i], comments[i], Window(i))
  BY <1>2, <1>4, CoversMore
<1>8. Covers(exported', remarked', i, history[i], created[i], comments[i], Time)
  BY <1>5, <1>6, <1>7 DEF Covers
<1>9. Covers(exported', remarked', i, history[i], created[i], comments[i],
             {t \in Time : t <= tracker'})
  BY <1>8, CoversMore
<1> QED BY <1>2, <1>9 DEF Complete, jira

LEMMA RunInvariant ==
  ASSUME NothingIsLimited, IInv, Run
  PROVE  IInv'
<1>1. TypeOK' BY RunType DEF IInv
<1>2. now' = now /\ UNCHANGED jira
  BY DEF Run, Start, CollectBatch, LastBatch, StopAtLimit, WriteTables,
         SaveUpdatedSince, Abort
<1>3. AgesAreRight' BY <1>2 DEF IInv, AgesAreRight, jira
<1>4. /\ now \in Nat /\ tracker \in Nat /\ skip \in Nat /\ size \in Nat
      /\ Maximum \in Nat /\ BatchSize \in Nat /\ BatchSize <= Maximum
  BY JiraConstants DEF IInv, TypeOK, Time
<1>5. ASSUME NEW again \in BOOLEAN, Start(again) PROVE IInv'
  <2>1. RunIsTimely' BY <1>4, <1>5 DEF Start, RunIsTimely, files, Null
  <2>2. LimitIsExact' BY <1>4, <1>5 DEF Start, LimitIsExact
  <2>3. NothingIsSkipped'
    BY <1>5 DEF IInv, Start, NothingIsSkipped, Complete, jira, files
  <2>4. BatchesAreComplete' BY <1>5, StartBatches
  <2> QED BY <1>1, <1>3, <2>1, <2>2, <2>3, <2>4 DEF IInv
<1>6. CASE CollectBatch
  <2>1. RunIsTimely' BY <1>6 DEF IInv, CollectBatch, RunIsTimely, files
  <2>2. LimitIsExact'
    BY <1>4, <1>6 DEF CollectBatch, LimitIsExact, NextSize, ReachedLimit
  <2>3. NothingIsSkipped'
    BY <1>6 DEF IInv, CollectBatch, NothingIsSkipped, Complete, jira, files
  <2>4. BatchesAreComplete' BY <1>6, CollectBatches
  <2> QED BY <1>1, <1>3, <2>1, <2>2, <2>3, <2>4 DEF IInv
<1>7. CASE LastBatch \/ StopAtLimit
  <2>1. RunIsTimely' /\ LimitIsExact'
    BY <1>7 DEF IInv, LastBatch, StopAtLimit, RunIsTimely, LimitIsExact, files, query
  <2>2. NothingIsSkipped'
    BY <1>7 DEF IInv, LastBatch, StopAtLimit, NothingIsSkipped, Complete, jira, files
  <2>3. BatchesAreComplete' BY <1>7, FoundBatches
  <2> QED BY <1>1, <1>3, <2>1, <2>2, <2>3 DEF IInv
<1>8. CASE WriteTables
  <2>1. RunIsTimely' /\ LimitIsExact'
    BY <1>8 DEF IInv, WriteTables, RunIsTimely, LimitIsExact, files, query
  <2>2. NothingIsSkipped'
    BY <1>8 DEF IInv, WriteTables, NothingIsSkipped, Complete, jira, files
  <2>3. BatchesAreComplete'
    BY <1>8 DEF IInv, WriteTables, BatchesAreComplete, Complete, Window, jira, query, tables
  <2> QED BY <1>1, <1>3, <2>1, <2>2, <2>3 DEF IInv
<1>9. CASE SaveUpdatedSince
  <2>1. RunIsTimely' /\ BatchesAreComplete'
    BY <1>9 DEF SaveUpdatedSince, RunIsTimely, BatchesAreComplete
  <2>2. LimitIsExact' BY <1>4, <1>9 DEF SaveUpdatedSince, LimitIsExact
  <2>3. NothingIsSkipped' BY <1>9, SaveSkipsNothing
  <2> QED BY <1>1, <1>3, <2>1, <2>2, <2>3 DEF IInv
<1>10. CASE Abort
  <2>1. RunIsTimely' /\ BatchesAreComplete'
    BY <1>10 DEF Abort, RunIsTimely, BatchesAreComplete
  <2>2. LimitIsExact' BY <1>4, <1>10 DEF Abort, LimitIsExact
  <2>3. NothingIsSkipped'
    BY <1>10 DEF IInv, Abort, NothingIsSkipped, Complete, jira, files
  <2> QED BY <1>1, <1>3, <2>1, <2>2, <2>3 DEF IInv
<1> QED BY <1>5, <1>6, <1>7, <1>8, <1>9, <1>10 DEF Run

(***************************************************************************)
(* Theorems                                                                *)
(***************************************************************************)
LEMMA StepInvariant ==
  ASSUME NothingIsLimited, IInv, [Next]_vars
  PROVE  IInv'
<1>1. CASE Tick BY <1>1, TickInvariant
<1>2. CASE People BY <1>2, TouchInvariant DEF People
<1>3. CASE Run BY <1>3, RunInvariant
<1>4. CASE UNCHANGED vars
  <2>1. /\ TypeOK' /\ AgesAreRight' /\ RunIsTimely' /\ LimitIsExact'
    BY <1>4 DEF vars, IInv, TypeOK, AgesAreRight, RunIsTimely, LimitIsExact,
                jira, files, query, tables
  <2>2. NothingIsSkipped'
    BY <1>4 DEF vars, IInv, NothingIsSkipped, Complete, jira, files
  <2>3. \A i : Window(i)' = Window(i) /\ Matching' = Matching
    BY <1>4 DEF vars, Window, Matching, query, jira
  <2>4. BatchesAreComplete'
    BY <1>4, <2>3 DEF vars, IInv, BatchesAreComplete, Complete, Position, jira, query, tables
  <2> QED BY <2>1, <2>2, <2>4 DEF IInv
<1> QED BY <1>1, <1>2, <1>3, <1>4 DEF Next

\* The inductive invariant of runs and people holds for any number of issues,
\* as long as a run may collect them all.
THEOREM InvariantHolds ==
  ASSUME NothingIsLimited
  PROVE  Spec => []IInv
<1>1. Init => IInv BY InitInvariant
<1>2. IInv /\ [Next]_vars => IInv' BY StepInvariant
<1> QED BY <1>1, <1>2, PTL DEF Spec

\* A run collects all that changed between the tracker and its start.
THEOREM RunCollectsAll ==
  ASSUME NothingIsLimited
  PROVE  Spec => []RunIsComplete
<1>1. IInv => RunIsComplete
  <2> SUFFICES ASSUME IInv, pc \in {"found", "written"}, NEW i \in Issues
               PROVE  Complete(versions, remarks, i,
                               {t \in Time : since < t /\ t < started})
    BY DEF RunIsComplete
  <2>1. Covers(versions, remarks, i, history[i], created[i], comments[i], Window(i))
    BY DEF IInv, BatchesAreComplete, Complete
  <2>2. {t \in Time : since < t /\ t < started} \subseteq Window(i) BY DEF Window
  <2> QED BY <2>1, <2>2, CoversMore DEF Complete
<1> QED BY <1>1, InvariantHolds, PTL

\* Of an issue that is left alone during runs, all versions and comments before
\* the tracker are exported.
THEOREM NothingSkipped ==
  ASSUME NothingIsLimited
  PROVE  Spec => []NothingIsSkipped
<1>1. IInv => NothingIsSkipped BY DEF IInv
<1> QED BY <1>1, InvariantHolds, PTL

(***************************************************************************)
(* What versions contain, without any hypothesis                           *)
(***************************************************************************)
HistoriesAreTrue ==
    \A i \in Issues : ChangelogIsTrue(history[i]) /\ data[i] = DataAfter(history[i], Len(history[i]))

\* A version in the tables has what its issue had after as many entries as its
\* number says.
VersionsHold ==
    \A v \in exported \cup versions :
        OneASecond(history[v.issue]) => RowAt(v, history[v.issue])

ContentInv == TypeOK /\ AgesAreRight /\ HistoriesAreTrue /\ VersionsHold

LEMMA ChangeKeepsContent ==
  ASSUME ContentInv, NEW i \in Issues, NEW kinds \in Changes, Change(i, kinds)
  PROVE  HistoriesAreTrue' /\ VersionsHold'
<1> DEFINE h == history[i]
           e == [at |-> now, kinds |-> kinds, from |-> data[i].title]
<1>1. /\ history \in [Issues -> Seq(Entry)] /\ data \in [Issues -> Content] /\ now \in Nat /\ now > 0
      /\ \A v \in exported \cup versions : v.issue \in Issues
      /\ Changes \subseteq SUBSET Kinds
  BY HistoryType, JiraConstants DEF ContentInv, TypeOK
<1>2. /\ history' = [history EXCEPT ![i] = Append(h, e)]
      /\ data' = [data EXCEPT ![i] = Apply(data[i], kinds, Len(h) + 1)]
      /\ exported' = exported /\ versions' = versions
      /\ "detach" \in kinds => "attach" \notin kinds /\ data[i].attachment > 0
  BY DEF Change, files, tables
<1>3. /\ h \in Seq(Entry) /\ ChangelogIsTrue(h) /\ data[i] = DataAfter(h, Len(h))
      /\ \A d \in Dates(h) : d <= now
  BY <1>1, HistoryType DEF ContentInv, HistoriesAreTrue
<1>4. e \in Entry
  <2>1. data[i].title \in Nat BY <1>1 DEF Content
  <2> QED BY <1>1, <2>1 DEF Entry
<1>5. e.at = now /\ e.kinds = kinds /\ e.from = data[i].title OBVIOUS
<1> HIDE DEF e, h
<1>6. /\ ChangelogIsTrue(Append(h, e))
      /\ DataAfter(Append(h, e), Len(h) + 1) =
              [title |-> IF "title" \in e.kinds THEN Len(h) + 1 ELSE DataAfter(h, Len(h)).title,
               attachment |-> IF "attach" \in e.kinds THEN DataAfter(h, Len(h)).attachment + 1
                              ELSE IF "detach" \in e.kinds THEN DataAfter(h, Len(h)).attachment - 1
                              ELSE DataAfter(h, Len(h)).attachment]
      /\ \A v : RowAt(v, h) => RowAt(v, Append(h, e))
      /\ OneASecond(Append(h, e)) => OneASecond(h)
  BY <1>1, <1>2, <1>3, <1>4, <1>5, EntryKeepsTruth
<1>7. Len(Append(h, e)) = Len(h) + 1 BY <1>3, <1>4
<1>8. DataAfter(Append(h, e), Len(Append(h, e))) = Apply(data[i], kinds, Len(h) + 1)
  BY <1>3, <1>5, <1>6, <1>7 DEF Apply
<1>9. HistoriesAreTrue'
  <2> SUFFICES ASSUME NEW j \in Issues
               PROVE  ChangelogIsTrue(history'[j]) /\ data'[j] = DataAfter(history'[j], Len(history'[j]))
    BY DEF HistoriesAreTrue
  <2>1. CASE j = i BY <1>1, <1>2, <1>6, <1>8, <2>1
  <2>2. CASE j # i BY <1>1, <1>2, <2>2 DEF ContentInv, HistoriesAreTrue
  <2> QED BY <2>1, <2>2
<1>10. VersionsHold'
  <2> SUFFICES ASSUME NEW v \in exported \cup versions, OneASecond(history'[v.issue])
               PROVE  RowAt(v, history'[v.issue])
    BY <1>2 DEF VersionsHold
  <2>1. CASE v.issue = i
    <3>1. history'[v.issue] = Append(h, e) /\ history[v.issue] = h BY <1>1, <1>2, <2>1 DEF h
    <3> QED BY <1>6, <3>1 DEF ContentInv, VersionsHold
  <2>2. CASE v.issue # i
    <3>1. history'[v.issue] = history[v.issue] BY <1>1, <1>2, <2>2
    <3> QED BY <3>1 DEF ContentInv, VersionsHold
  <2> QED BY <2>1, <2>2
<1> QED BY <1>9, <1>10

LEMMA IssueOfVersion ==
  ASSUME NEW i, NEW v \in VersionsOf(i)
  PROVE  v.issue = i
BY DEF VersionsOf, GetVersions

LEMMA CollectedVersions ==
  ASSUME ContentInv, NEW i \in Issues, NEW v \in VersionsOf(i), OneASecond(history[i])
  PROVE  v.issue = i /\ RowAt(v, history[i])
<1>1. PICK h : h = history[i] OBVIOUS
<1>2. h \in Seq(Entry) /\ ChangelogIsTrue(h) /\ data[i] = DataAfter(h, Len(h)) /\ OneASecond(h)
  BY <1>1 DEF ContentInv, TypeOK, HistoriesAreTrue
<1>3. \E c, u, s : v \in GetVersions(i, h, DataAfter(h, Len(h)), c, u, s)
  BY <1>1, <1>2, Zenon DEF VersionsOf
<1>4. RowAt(v, h) BY <1>2, <1>3, RowsOfEntries
<1>5. v.issue = i BY IssueOfVersion
<1> QED BY <1>1, <1>4, <1>5

LEMMA RunKeepsContent ==
  ASSUME ContentInv, Run
  PROVE  AgesAreRight' /\ HistoriesAreTrue' /\ VersionsHold'
<1>1. UNCHANGED <<now, jira>>
  BY DEF Run, Start, CollectBatch, LastBatch, StopAtLimit, WriteTables, SaveUpdatedSince, Abort
<1>2. AgesAreRight' /\ HistoriesAreTrue' BY <1>1 DEF ContentInv, AgesAreRight, HistoriesAreTrue, jira
<1>3. ASSUME NEW v \in exported' \cup versions', v \notin exported \cup versions
      PROVE  CollectBatch /\ \E i \in Batch : v \in VersionsOf(i)
  BY <1>3 DEF Run, Start, CollectBatch, LastBatch, StopAtLimit, WriteTables, SaveUpdatedSince, Abort,
              files, tables
<1>4. VersionsHold'
  <2> SUFFICES ASSUME NEW v \in exported' \cup versions', OneASecond(history[v.issue])
               PROVE  RowAt(v, history[v.issue])
    BY <1>1 DEF VersionsHold, jira
  <2>1. CASE v \in exported \cup versions BY <2>1 DEF ContentInv, VersionsHold
  <2>2. CASE v \notin exported \cup versions
    <3>1. PICK i \in Batch : v \in VersionsOf(i) BY <1>3, <2>2
    <3>2. i \in Issues BY DEF Batch, Matching
    <3>3. v.issue = i BY <3>1, IssueOfVersion
    <3> QED BY <3>1, <3>2, <3>3, CollectedVersions
  <2> QED BY <2>1, <2>2
<1> QED BY <1>2, <1>4

LEMMA ContentStep ==
  ASSUME ContentInv, [Next]_vars
  PROVE  ContentInv'
<1>1. CASE Tick
  <2>1. TypeOK' BY <1>1, TickType DEF ContentInv
  <2>2. UNCHANGED <<jira, files, tables>> /\ now' = now + 1 BY <1>1 DEF Tick
  <2>3. AgesAreRight'
    <3>1. now \in Nat /\ \A i \in Issues : updated[i] \in Nat BY JiraConstants DEF ContentInv, TypeOK, Time
    <3> QED BY <2>2, <3>1 DEF ContentInv, AgesAreRight, jira
  <2>4. HistoriesAreTrue' /\ VersionsHold'
    BY <2>2 DEF ContentInv, HistoriesAreTrue, VersionsHold, jira, files, tables
  <2> QED BY <2>1, <2>3, <2>4 DEF ContentInv
<1>2. CASE People
  <2>1. PICK i \in Issues : Touch(i) BY <1>2 DEF People
  <2>2. TypeOK' /\ AgesAreRight' BY <2>1, TouchType, TouchAges DEF ContentInv
  <2>3. HistoriesAreTrue' /\ VersionsHold'
    <3>1. CASE CreateIssue(i) \/ AddComment(i)
      BY <3>1 DEF CreateIssue, AddComment, ContentInv, HistoriesAreTrue, VersionsHold, files, tables
    <3>2. ASSUME NEW kinds \in Changes, Change(i, kinds) PROVE HistoriesAreTrue' /\ VersionsHold'
      BY <3>2, ChangeKeepsContent
    <3> QED BY <2>1, <3>1, <3>2 DEF Touch
  <2> QED BY <2>2, <2>3 DEF ContentInv
<1>3. CASE Run
  <2>1. TypeOK' BY <1>3, RunType DEF ContentInv
  <2> QED BY <1>3, <2>1, RunKeepsContent DEF ContentInv
<1>4. CASE UNCHANGED vars
  BY <1>4 DEF vars, ContentInv, TypeOK, AgesAreRight, HistoriesAreTrue, VersionsHold,
              jira, files, query, tables
<1> QED BY <1>1, <1>2, <1>3, <1>4 DEF Next

LEMMA ContentInit == Init => ContentInv
<1> SUFFICES ASSUME Init PROVE ContentInv OBVIOUS
<1>1. TypeOK /\ AgesAreRight BY InitInvariant DEF IInv
<1>2. \A i \in Issues : history[i] = <<>> /\ data[i] = [title |-> 0, attachment |-> 0] BY DEF Init
<1>3. ChangelogIsTrue(<<>>) BY DEF ChangelogIsTrue
<1>4. DataAfter(<<>>, 0) = [title |-> 0, attachment |-> 0] BY AboutNone DEF DataAfter
<1>5. Len(<<>>) = 0 OBVIOUS
<1>6. HistoriesAreTrue BY <1>2, <1>3, <1>4, <1>5 DEF HistoriesAreTrue
<1>7. VersionsHold BY DEF Init, VersionsHold
<1> QED BY <1>1, <1>6, <1>7 DEF ContentInv

\* Times, tables and changelogs are what they should be, also when a run stops at
\* the maximum of the limiter.
THEOREM ContentHolds == Spec => []ContentInv
<1>1. Init => ContentInv BY ContentInit
<1>2. ContentInv /\ [Next]_vars => ContentInv' BY ContentStep
<1> QED BY <1>1, <1>2, PTL DEF Spec

\* Times, tables and the state of Query and Iterator_Limiter have their types.
THEOREM TypeCorrect == Spec => []TypeOK
<1>1. ContentInv => TypeOK BY DEF ContentInv
<1> QED BY <1>1, ContentHolds, PTL

\* get_versions makes the versions that the issue had, for changelogs of any
\* length without a second in which a field was changed twice.
THEOREM VersionsTrue == Spec => []VersionsAreTrue
<1>1. ContentInv => VersionsAreTrue
  <2> SUFFICES ASSUME ContentInv, NEW i \in Issues, ~Ambiguous(history[i]),
                      NEW v \in GetVersions(i, history[i], data[i], created[i], updated[i], 0)
               PROVE  \E d \in Dates(history[i]) \cup {0} :
                         LET true == TrueVersion(i, history[i], created[i], d)
                         IN  \A f \in DOMAIN true : v[f] = true[f]
    BY Zenon DEF VersionsAreTrue
  <2>1. PICK h, c, u : h = history[i] /\ c = created[i] /\ u = updated[i] OBVIOUS
  <2>2. h \in Seq(Entry) /\ ChangelogIsTrue(h) /\ ~Ambiguous(h) /\ data[i] = DataAfter(h, Len(h))
    BY <2>1 DEF ContentInv, TypeOK, HistoriesAreTrue
  <2>3. v \in GetVersions(i, h, DataAfter(h, Len(h)), c, u, 0) BY <2>1, <2>2
  <2>4. WasSo(v, i, h, c) BY <2>2, <2>3, VersionIsTrue
  <2> QED BY <2>1, <2>4, Zenon DEF WasSo
<1> QED BY <1>1, ContentHolds, PTL

\* A number belongs to the same version in every run, however much of the
\* changelog a run goes back and however it has grown meanwhile.
THEOREM VersionsStable == Spec => []VersionsAreStable
<1>1. ContentInv => VersionsAreStable
  <2> SUFFICES ASSUME ContentInv, NEW v \in exported, NEW w \in exported,
                      v.issue = w.issue, v.id = w.id, ~SameSecond(history[v.issue])
               PROVE  v.data = w.data /\ v.rank = w.rank /\ v.by = w.by
    BY DEF VersionsAreStable
  <2>1. OneASecond(history[v.issue]) BY DEF SameSecond, OneASecond
  <2>2. RowAt(v, history[v.issue]) /\ RowAt(w, history[v.issue])
    BY <2>1 DEF ContentInv, VersionsHold
  <2>3. v.data = w.data /\ v.by = w.by BY <2>2 DEF RowAt
  <2>4. v.rank = w.rank
    <3>1. v.rank \in BOOLEAN /\ w.rank \in BOOLEAN /\ (v.rank <=> w.rank) BY <2>2 DEF RowAt
    <3> QED BY <3>1
  <2> QED BY <2>3, <2>4
<1> QED BY <1>1, ContentHolds, PTL

(***************************************************************************)
(* The dates of versions, without any hypothesis                           *)
(***************************************************************************)
\* The date of a version is between its second and the one after it, whenever
\* it was made from a changelog that is part of h; c and u are the dates of
\* creation and of the last update.
RowDated(v, h, c, u) ==
    /\ v.id \in 0..Cardinality(Dates(h)) /\ v.updated \in Nat
    /\ c # 0 /\ v.updated <= u
    /\ v.id = 0 => c <= v.updated
    /\ v.id # 0 => DateOf(h, v.id) <= v.updated
    /\ v.id < Cardinality(Dates(h)) => v.updated <= DateOf(h, v.id + 1)

DatedInv ==
    /\ \A i \in Issues : \A d \in Dates(history[i]) : created[i] <= d
    /\ \A v \in exported \cup versions :
          RowDated(v, history[v.issue], created[v.issue], updated[v.issue])

LEMMA DatesGrow ==
  ASSUME NEW h \in Seq(Entry), NEW k \in 1..Cardinality(Dates(h)),
         NEW l \in 1..Cardinality(Dates(h)), k <= l
  PROVE  DateOf(h, k) \in Nat /\ DateOf(h, l) \in Nat /\ DateOf(h, k) <= DateOf(h, l)
<1>1. PICK d, e : d = DateOf(h, k) /\ e = DateOf(h, l) OBVIOUS
<1>2. d \in Dates(h) /\ e \in Dates(h) /\ IdOf(h, d) = k /\ IdOf(h, e) = l BY <1>1, IdsAreExact
<1>3. d \in Nat /\ e \in Nat BY <1>2, DatesAreNatural
<1>4. ~(e < d)
  <2>1. e < d => l < k BY <1>2, IdsGrow
  <2>2. k \in Nat /\ l \in Nat BY DatesAreFinite
  <2> QED BY <2>1, <2>2
<1> QED BY <1>1, <1>3, <1>4

\* A version that is made from a changelog has its dates.
LEMMA RowsAreDated ==
  ASSUME NEW i, NEW h \in Seq(Entry), NEW content, NEW c \in Nat, NEW u \in Nat, NEW s,
         c # 0, c <= u, \A d \in Dates(h) : c <= d /\ d <= u,
         NEW v \in GetVersions(i, h, content, c, u, s)
  PROVE  RowDated(v, h, c, u)
<1> DEFINE N == Cardinality(Dates(h))
           row(n) == [issue |-> i, id |-> n,
                      data |-> Reestablished(h, content)[n],
                      rank |-> n > 0 /\ Difference(h, DateOf(h, n)).rank,
                      by |-> IF n = 0 THEN 0 ELSE Difference(h, DateOf(h, n)).by,
                      updated |-> IF n = 0 THEN c ELSE IF n = N THEN u ELSE DateOf(h, n)]
<1>1. N \in Nat BY DatesAreFinite
<1>2. PICK n \in 0..N : v = row(n)
  <2>1. v = row(0) \/ \E d \in Dates(h) : v = row(IdOf(h, d)) BY Zenon DEF GetVersions
  <2> HIDE DEF row
  <2>2. CASE v = row(0) BY <1>1, <2>2
  <2>3. ASSUME NEW d \in Dates(h), v = row(IdOf(h, d)) PROVE \E n \in 0..N : v = row(n)
    <3>1. IdOf(h, d) \in 0..N BY <1>1, IdsGrow
    <3> QED BY <2>3, <3>1
  <2> QED BY <2>1, <2>2, <2>3
<1>3. v.id = n /\ v.updated = IF n = 0 THEN c ELSE IF n = N THEN u ELSE DateOf(h, n) BY <1>2
<1>4. \A k \in 1..N : DateOf(h, k) \in Dates(h) /\ DateOf(h, k) \in Nat
  BY IdsAreExact, DatesAreNatural
<1> HIDE DEF row
<1>5. CASE n = 0
  <2>1. v.updated = c BY <1>3, <1>5
  <2>2. n < N => 1 \in 1..N /\ n + 1 = 1 BY <1>1, <1>5
  <2>3. n < N => c <= DateOf(h, n + 1) BY <1>4, <2>2
  <2> QED BY <1>1, <1>3, <1>5, <2>1, <2>3 DEF RowDated
<1>6. CASE n # 0 /\ n = N
  <2>1. v.updated = u /\ n \in 1..N BY <1>1, <1>3, <1>6
  <2>2. DateOf(h, n) <= u BY <1>4, <2>1
  <2> QED BY <1>1, <1>3, <1>6, <2>1, <2>2 DEF RowDated
<1>7. CASE n # 0 /\ n # N
  <2>1. v.updated = DateOf(h, n) /\ n \in 1..N /\ n + 1 \in 1..N /\ n <= n + 1 BY <1>1, <1>3, <1>7
  <2>2. DateOf(h, n) <= DateOf(h, n + 1) /\ DateOf(h, n) \in Nat BY <2>1, DatesGrow
  <2>3. DateOf(h, n) <= u BY <1>4, <2>1
  <2> QED BY <1>3, <1>7, <2>1, <2>2, <2>3 DEF RowDated
<1> QED BY <1>5, <1>6, <1>7

\* Another change, which is not before the last update, leaves them right.
LEMMA ChangeKeepsDates ==
  ASSUME NEW h \in Seq(Entry), NEW e \in Entry, NEW c, NEW u \in Nat, u <= e.at,
         \A d \in Dates(h) : d <= e.at,
         NEW v, RowDated(v, h, c, u)
  PROVE  RowDated(v, Append(h, e), c, e.at)
<1>1. PICK g : g = Append(h, e) OBVIOUS
<1>2. PICK N, M : N = Cardinality(Dates(h)) /\ M = Cardinality(Dates(g)) OBVIOUS
<1>3. PICK k, t : k = v.id /\ t = v.updated OBVIOUS
<1>4. g \in Seq(Entry) /\ e.at \in Nat BY <1>1 DEF Entry
<1>5. Dates(g) = Dates(h) \cup {e.at} /\ \A d \in Dates(h) : IdOf(g, d) = IdOf(h, d)
  BY <1>1, NewEntry
<1>6. N \in Nat /\ M \in Nat /\ (M = N \/ M = N + 1)
  <2>1. IsFiniteSet(Dates(h)) /\ N \in Nat /\ M \in Nat BY <1>2, <1>4, DatesAreFinite
  <2>2. Cardinality(Dates(h) \cup {e.at}) = IF e.at \in Dates(h) THEN Cardinality(Dates(h))
                                           ELSE Cardinality(Dates(h)) + 1
    BY <2>1, FS_AddElement
  <2> QED BY <1>2, <1>5, <2>1, <2>2
<1>7. ASSUME NEW j \in 1..N PROVE DateOf(g, j) = DateOf(h, j)
  <2>1. PICK d : d = DateOf(h, j) OBVIOUS
  <2>2. d \in Dates(h) /\ IdOf(h, d) = j BY <1>2, <2>1, IdsAreExact
  <2>3. d \in Dates(g) /\ IdOf(g, d) = j BY <1>5, <2>2
  <2>4. DateOf(g, IdOf(g, d)) = d BY <1>4, <2>3, IdsAreExact
  <2> QED BY <2>1, <2>3, <2>4
<1>8. M = N + 1 => DateOf(g, N + 1) = e.at
  <2> SUFFICES ASSUME M = N + 1, DateOf(g, N + 1) # e.at PROVE FALSE OBVIOUS
  <2>1. PICK d : d = DateOf(g, N + 1) OBVIOUS
  <2>2. N + 1 \in 1..M BY <1>6
  <2>3. d \in Dates(g) /\ IdOf(g, d) = N + 1 BY <1>2, <1>4, <2>1, <2>2, IdsAreExact
  <2>4. d \in Dates(h) BY <1>5, <2>1, <2>3
  <2>5. IdOf(h, d) = N + 1 /\ IdOf(h, d) \in 1..N BY <1>2, <1>5, <2>3, <2>4, IdsGrow
  <2> QED BY <1>6, <2>5
<1>9. /\ k \in 0..N /\ t \in Nat /\ c # 0 /\ t <= u
      /\ k = 0 => c <= t
      /\ k # 0 => DateOf(h, k) <= t
      /\ k < N => t <= DateOf(h, k + 1)
  BY <1>2, <1>3 DEF RowDated
<1>10. k # 0 => DateOf(g, k) <= t
  <2>1. k # 0 => k \in 1..N BY <1>6, <1>9
  <2> QED BY <1>7, <1>9, <2>1
<1>11. ASSUME k < M PROVE t <= DateOf(g, k + 1)
  <2>1. CASE k < N
    <3>1. k + 1 \in 1..N BY <1>6, <1>9, <2>1
    <3> QED BY <1>7, <1>9, <2>1, <3>1
  <2>2. CASE k = N
    <3>1. M = N + 1 BY <1>6, <1>11, <2>2
    <3> QED BY <1>4, <1>8, <1>9, <2>2, <3>1
  <2>3. k < N \/ k = N BY <1>6, <1>9
  <2> QED BY <2>1, <2>2, <2>3
<1>12. k \in 0..M /\ t <= e.at BY <1>4, <1>6, <1>9
<1>13. RowDated(v, g, c, e.at) BY <1>2, <1>3, <1>9, <1>10, <1>11, <1>12 DEF RowDated
<1> QED BY <1>1, <1>13

LEMMA DatedStep ==
  ASSUME ContentInv, DatedInv, [Next]_vars
  PROVE  DatedInv'
<1>1. /\ created \in [Issues -> Nat] /\ updated \in [Issues -> Nat] /\ now \in Nat /\ now > 0
      /\ history \in [Issues -> Seq(Entry)]
      /\ \A v \in exported \cup versions : v.issue \in Issues
  BY JiraConstants DEF ContentInv, TypeOK, Time
<1>2. \A i \in Issues : /\ created[i] <= updated[i] /\ updated[i] <= now
                        /\ created[i] = 0 => Dates(history[i]) = {}
                        /\ \A d \in Dates(history[i]) : d <= updated[i] /\ d <= now
  <2> SUFFICES ASSUME NEW i \in Issues
               PROVE  /\ created[i] <= updated[i] /\ updated[i] <= now
                      /\ created[i] = 0 => Dates(history[i]) = {}
                      /\ \A d \in Dates(history[i]) : d <= updated[i] /\ d <= now
    OBVIOUS
  <2>1. /\ created[i] <= updated[i] /\ updated[i] <= now /\ (created[i] = 0 => updated[i] = 0)
        /\ Dates(history[i]) \subseteq 1..updated[i]
    BY DEF ContentInv, AgesAreRight
  <2>2. updated[i] \in Nat BY <1>1
  <2> QED BY <1>1, <2>1, <2>2
<1>3. CASE Tick \/ UNCHANGED vars
  <2>1. UNCHANGED <<created, updated, history, exported, versions>>
    BY <1>3 DEF Tick, vars, jira, files, tables
  <2> QED BY <2>1 DEF DatedInv
<1>4. ASSUME NEW i \in Issues, CreateIssue(i) PROVE DatedInv'
  <2>1. /\ created[i] = 0 /\ created' = [created EXCEPT ![i] = now]
        /\ updated' = [updated EXCEPT ![i] = now]
        /\ UNCHANGED <<history, exported, versions>>
    BY <1>4 DEF CreateIssue, files, tables
  <2>2. ASSUME NEW j \in Issues, NEW d \in Dates(history[j]) PROVE created'[j] <= d
    <3>1. j # i BY <1>2, <2>1, <2>2
    <3>2. created'[j] = created[j] BY <1>1, <2>1, <3>1
    <3> QED BY <3>2 DEF DatedInv
  <2>3. ASSUME NEW v \in exported \cup versions
        PROVE  RowDated(v, history[v.issue], created'[v.issue], updated'[v.issue])
    <3>1. RowDated(v, history[v.issue], created[v.issue], updated[v.issue]) BY DEF DatedInv
    <3>2. v.issue # i /\ v.issue \in Issues BY <1>1, <2>1, <3>1 DEF RowDated
    <3>3. created'[v.issue] = created[v.issue] /\ updated'[v.issue] = updated[v.issue]
      BY <1>1, <2>1, <3>2
    <3> QED BY <3>1, <3>3
  <2> QED BY <2>1, <2>2, <2>3 DEF DatedInv
<1>5. ASSUME NEW i \in Issues, AddComment(i) PROVE DatedInv'
  <2>1. /\ updated' = [updated EXCEPT ![i] = now]
        /\ UNCHANGED <<created, history, exported, versions>>
    BY <1>5 DEF AddComment, files, tables
  <2>2. ASSUME NEW v \in exported \cup versions
        PROVE  RowDated(v, history[v.issue], created[v.issue], updated'[v.issue])
    <3>1. PICK a, b : a = updated[v.issue] /\ b = updated'[v.issue] OBVIOUS
    <3>2. a \in Nat /\ b \in Nat /\ a <= b
      <4>1. v.issue \in Issues BY <1>1
      <4>2. updated'[v.issue] = IF v.issue = i THEN now ELSE updated[v.issue] BY <1>1, <2>1, <4>1
      <4>3. updated[v.issue] \in Nat /\ updated[v.issue] <= now BY <1>1, <1>2, <4>1
      <4> QED BY <1>1, <3>1, <4>2, <4>3
    <3>3. RowDated(v, history[v.issue], created[v.issue], a) BY <3>1 DEF DatedInv
    <3>4. v.updated \in Nat /\ v.updated <= b BY <3>2, <3>3 DEF RowDated
    <3>5. RowDated(v, history[v.issue], created[v.issue], b) BY <3>3, <3>4 DEF RowDated
    <3> QED BY <3>1, <3>5
  <2> QED BY <2>1, <2>2 DEF DatedInv
<1>6. ASSUME NEW i \in Issues, NEW kinds \in Changes, Change(i, kinds) PROVE DatedInv'
  <2>1. PICK h, e : h = history[i] /\ e = [at |-> now, kinds |-> kinds, from |-> data[i].title]
    OBVIOUS
  <2>2. /\ history' = [history EXCEPT ![i] = Append(h, e)]
        /\ updated' = [updated EXCEPT ![i] = now]
        /\ UNCHANGED <<created, exported, versions>>
    BY <1>6, <2>1 DEF Change, files, tables
  <2>3. e \in Entry /\ e.at = now /\ h \in Seq(Entry)
    <3>1. data[i].title \in Nat BY DEF ContentInv, TypeOK, Content
    <3>2. kinds \in SUBSET Kinds BY JiraConstants
    <3> QED BY <1>1, <2>1, <3>1, <3>2 DEF Entry
  <2>4. /\ history'[i] = Append(h, e) /\ updated'[i] = now
        /\ \A j \in Issues : j # i => history'[j] = history[j] /\ updated'[j] = updated[j]
    BY <1>1, <2>2
  <2>5. \A d \in Dates(h) : d <= e.at BY <1>2, <2>1, <2>3
  <2>6. ASSUME NEW j \in Issues, NEW d \in Dates(history'[j]) PROVE created[j] <= d
    <3>1. CASE j # i BY <2>4, <2>6, <3>1 DEF DatedInv
    <3>2. CASE j = i
      <4>1. Dates(Append(h, e)) = Dates(h) \cup {e.at} BY <2>3, <2>5, NewEntry
      <4>2. d \in Dates(h) \/ d = now BY <2>3, <2>4, <2>6, <3>2, <4>1
      <4>3. created[i] <= now
        <5>1. created[i] \in Nat /\ updated[i] \in Nat BY <1>1
        <5> QED BY <1>1, <1>2, <5>1
      <4> QED BY <2>1, <3>2, <4>2, <4>3 DEF DatedInv
    <3> QED BY <3>1, <3>2
  <2>7. ASSUME NEW v \in exported \cup versions
        PROVE  RowDated(v, history'[v.issue], created[v.issue], updated'[v.issue])
    <3>1. RowDated(v, history[v.issue], created[v.issue], updated[v.issue]) BY DEF DatedInv
    <3>2. CASE v.issue # i
      <4>1. history'[v.issue] = history[v.issue] /\ updated'[v.issue] = updated[v.issue]
        BY <1>1, <2>4, <3>2
      <4> QED BY <3>1, <4>1
    <3>3. CASE v.issue = i
      <4>1. PICK c, u : c = created[i] /\ u = updated[i] OBVIOUS
      <4>2. u \in Nat /\ u <= e.at BY <1>1, <1>2, <2>3, <4>1
      <4>3. RowDated(v, h, c, u) BY <2>1, <3>1, <3>3, <4>1
      <4>4. RowDated(v, Append(h, e), c, e.at) BY <2>3, <2>5, <4>2, <4>3, ChangeKeepsDates
      <4> QED BY <2>3, <2>4, <3>3, <4>1, <4>4
    <3> QED BY <3>2, <3>3
  <2> QED BY <2>2, <2>6, <2>7 DEF DatedInv
<1>7. CASE Run
  <2>1. UNCHANGED <<created, updated, history>>
    BY <1>7 DEF Run, Start, CollectBatch, LastBatch, StopAtLimit, WriteTables, SaveUpdatedSince,
                Abort, jira
  <2>2. ASSUME NEW v \in exported' \cup versions', v \notin exported \cup versions
        PROVE  \E i \in Batch : v \in VersionsOf(i)
    BY <1>7, <2>2 DEF Run, Start, CollectBatch, LastBatch, StopAtLimit, WriteTables,
                      SaveUpdatedSince, Abort, files, tables
  <2>3. ASSUME NEW v \in exported' \cup versions'
        PROVE  RowDated(v, history[v.issue], created[v.issue], updated[v.issue])
    <3>1. CASE v \in exported \cup versions BY <3>1 DEF DatedInv
    <3>2. CASE v \notin exported \cup versions
      <4>1. PICK i \in Batch : v \in VersionsOf(i) BY <2>2, <3>2
      <4>2. i \in Issues /\ created[i] # 0 /\ v.issue = i
        BY <4>1, IssueOfVersion DEF Batch, Matching
      <4>3. PICK h, c, u : h = history[i] /\ c = created[i] /\ u = updated[i] OBVIOUS
      <4>4. h \in Seq(Entry) /\ c \in Nat /\ u \in Nat /\ c # 0 /\ c <= u BY <1>1, <1>2, <4>2, <4>3
      <4>5. \A d \in Dates(h) : c <= d /\ d <= u BY <1>2, <4>2, <4>3 DEF DatedInv
      <4>6. v \in GetVersions(i, h, data[i], c, u, since) BY <4>1, <4>3 DEF VersionsOf
      <4>7. RowDated(v, h, c, u) BY <4>4, <4>5, <4>6, RowsAreDated
      <4> QED BY <4>2, <4>3, <4>7
    <3> QED BY <3>1, <3>2
  <2> QED BY <2>1, <2>3 DEF DatedInv
<1> QED BY <1>3, <1>4, <1>5, <1>6, <1>7 DEF Next, People, Touch

\* The dates of the versions of an issue go up with their numbers, over runs of
\* which each takes the newest version of its time to be as old as the issue.
THEOREM VersionsOrdered == Spec => []DatesAreOrdered
<1>1. Init => DatedInv
  <2> SUFFICES ASSUME Init PROVE DatedInv OBVIOUS
  <2>1. \A i \in Issues : Dates(history[i]) = {} BY DEF Init, Dates
  <2> QED BY <2>1 DEF Init, DatedInv
<1>2. ContentInv /\ DatedInv /\ [Next]_vars => DatedInv' BY DatedStep
<1>3. ContentInv /\ DatedInv => DatesAreOrdered
  <2> SUFFICES ASSUME ContentInv, DatedInv, NEW v \in exported, NEW w \in exported,
                      v.issue = w.issue, v.id < w.id
               PROVE  v.updated <= w.updated
    BY DEF DatesAreOrdered
  <2>1. PICK h : h = history[v.issue] OBVIOUS
  <2>2. PICK N, k, l : N = Cardinality(Dates(h)) /\ k = v.id /\ l = w.id OBVIOUS
  <2>3. h \in Seq(Entry) BY <2>1 DEF ContentInv, TypeOK
  <2>4. N \in Nat BY <2>2, <2>3, DatesAreFinite
  <2>5. /\ k \in 0..N /\ v.updated \in Nat /\ (k < N => v.updated <= DateOf(h, k + 1))
        /\ l \in 0..N /\ w.updated \in Nat /\ (l # 0 => DateOf(h, l) <= w.updated)
    BY <2>1, <2>2 DEF DatedInv, RowDated
  <2>6. k < N /\ k + 1 \in 1..N /\ l \in 1..N /\ k + 1 <= l /\ l # 0 BY <2>2, <2>4, <2>5
  <2>7. DateOf(h, k + 1) \in Nat /\ DateOf(h, l) \in Nat /\ DateOf(h, k + 1) <= DateOf(h, l)
    BY <2>2, <2>3, <2>6, DatesGrow
  <2> QED BY <2>5, <2>6, <2>7
<1> QED BY <1>1, <1>2, <1>3, ContentHolds, PTL DEF Spec

(***************************************************************************)
(* SprintCalendar: the sprint of a moment                                  *)
(***************************************************************************)
Sprint == [id : SprintIds, start : 0..MaxMoment, end : 0..MaxMoment]
IsSorted(s) == \A m, n \in 1..Len(s) : m < n => s[m].start <= s[n].start

LEMMA SprintsHaveDates ==
  ASSUME NEW s \in Seq(Sprint), NEW n \in 1..Len(s)
  PROVE  s[n].start \in Nat /\ s[n].end \in Nat
<1>1. s[n] \in Sprint OBVIOUS
<1>2. 0..MaxMoment \subseteq Nat BY CalendarAssumption
<1> QED BY <1>1, <1>2 DEF Sprint

\* The sprints that have begun are the first ones.
LEMMA BegunAreFirst ==
  ASSUME NEW s \in Seq(Sprint), IsSorted(s), NEW time \in Nat, NEW end \in 0..Len(s)
  PROVE  /\ Begun(s, time, end) \in 0..end
         /\ \A n \in 1..end : s[n].start <= time <=> n <= Begun(s, time, end)
<1> DEFINE S == {n \in 1..end : s[n].start <= time}
<1>1. end \in Nat /\ Len(s) \in Nat /\ S \in SUBSET (0..end) /\ \A n \in S : n \in 1..Len(s)
  OBVIOUS
<1>2. PICK index : index = Begun(s, time, end) OBVIOUS
<1>3. index = Cardinality(S) BY <1>2 DEF Begun
<1>4. CASE S = {}
  <2>1. index = 0 BY <1>3, <1>4, FS_EmptySet
  <2>2. \A n \in 1..end : ~(s[n].start <= time) BY <1>4
  <2>3. \A n \in 1..end : ~(n <= 0) BY <1>1
  <2> QED BY <1>1, <1>2, <2>1, <2>2, <2>3
<1>5. CASE S # {}
  <2>1. PICK g \in S : \A n \in S : n <= g
    <3> HIDE DEF S
    <3> QED BY <1>1, <1>5, GreatestOfNumbers
  <2>2. g \in 1..end /\ g \in Nat /\ s[g].start <= time BY <1>1, <2>1
  <2>3. ASSUME NEW n \in 1..end PROVE s[n].start <= time <=> n <= g
    <3>1. s[n].start <= time => n <= g BY <2>1
    <3>2. ASSUME n < g PROVE s[n].start <= time
      <4>1. n \in 1..Len(s) /\ g \in 1..Len(s) BY <1>1, <2>2
      <4>2. s[n].start <= s[g].start BY <3>2, <4>1 DEF IsSorted
      <4>3. s[n].start \in Nat /\ s[g].start \in Nat BY <4>1, SprintsHaveDates
      <4> QED BY <2>2, <4>2, <4>3
    <3> QED BY <2>2, <3>1, <3>2
  <2>4. S = 1..g BY <2>2, <2>3
  <2>5. Cardinality(1..g) = g
    <3>1. Cardinality(1..g) = IF 1 > g THEN 0 ELSE g - 1 + 1 BY <2>2, FS_Interval
    <3> QED BY <2>2, <3>1
  <2>6. index = g BY <1>3, <2>4, <2>5
  <2>7. g \in 0..end BY <2>2
  <2> HIDE DEF S
  <2> QED BY <1>2, <2>3, <2>6, <2>7
<1> QED BY <1>4, <1>5

\* The sprint that is found has begun and not ended, and it is the last that
\* has begun unless that one has ended.
LEMMA LatestIs ==
  ASSUME NEW s \in Seq(Sprint), IsSorted(s), NEW time \in Nat, NEW overlap \in BOOLEAN,
         NEW end \in 0..Len(s)
  PROVE  /\ Latest(s, time, overlap, end) \in 0..end
         /\ Latest(s, time, overlap, end) # 0 =>
              /\ s[Latest(s, time, overlap, end)].start <= time
              /\ time <= s[Latest(s, time, overlap, end)].end
         /\ \A n \in 1..end :
              /\ s[n].start <= time => n <= Begun(s, time, end) /\ Begun(s, time, end) \in 1..end
              /\ s[n].start <= time /\ time <= s[Begun(s, time, end)].end =>
                   Latest(s, time, overlap, end) = Begun(s, time, end)
<1>1. PICK index : index = Begun(s, time, end) OBVIOUS
<1>2. index \in 0..end /\ \A n \in 1..end : s[n].start <= time <=> n <= index
  BY <1>1, BegunAreFirst
<1>3. PICK at : at = Latest(s, time, overlap, end) OBVIOUS
<1>4. at = IF index = 0 THEN 0
           ELSE IF time <= s[index].end THEN index
           ELSE IF overlap /\ index > 1 /\ time <= s[index - 1].end THEN index - 1
           ELSE 0
  BY <1>1, <1>3 DEF Latest
<1>5. end \in Nat /\ index \in Nat /\ index <= end BY <1>2
<1>6. CASE index = 0
  <2>1. at = 0 BY <1>4, <1>6
  <2>2. \A n \in 1..end : ~(s[n].start <= time) BY <1>2, <1>5, <1>6
  <2> QED BY <1>1, <1>3, <1>5, <2>1, <2>2
<1>7. CASE index # 0 /\ time <= s[index].end
  <2>1. at = index BY <1>4, <1>7
  <2>2. index \in 1..end /\ s[index].start <= time BY <1>2, <1>5, <1>7
  <2> QED BY <1>1, <1>2, <1>3, <1>7, <2>1, <2>2
<1>8. CASE index # 0 /\ ~(time <= s[index].end)
  <2>1. at = 0 \/ (at = index - 1 /\ index > 1 /\ time <= s[index - 1].end) BY <1>4, <1>8
  <2>2. index \in 1..end BY <1>2, <1>5, <1>8
  <2>3. index > 1 => index - 1 \in 1..end /\ index - 1 <= index BY <1>5
  <2>4. index > 1 => s[index - 1].start <= time BY <1>2, <2>3
  <2>5. at \in 0..end BY <1>5, <2>1, <2>3
  <2> QED BY <1>1, <1>2, <1>3, <1>8, <2>1, <2>2, <2>4, <2>5
<1> QED BY <1>6, <1>7, <1>8

\* One search among the first `end' sprints, given those among fewer.
Search(s, time, ids, end, bisect) ==
    LET at == Latest(s, time, end = Len(s), end)
    IN  IF at = 0 THEN NoSprint
        ELSE IF s[at].id \in ids THEN s[at].id
        ELSE bisect[at - 1]
Searches(s, time, ids, bisect) == [end \in 0 .. Len(s) |-> Search(s, time, ids, end, bisect)]
Bisects(s, time, ids) == CHOOSE bisect : bisect = Searches(s, time, ids, bisect)

\* A search only uses those among fewer sprints.
LEMMA SearchUsesLess ==
  ASSUME NEW s \in Seq(Sprint), IsSorted(s), NEW time \in Nat, NEW ids,
         NEW end \in 0..Len(s), NEW b, NEW c, \A n \in 0..end-1 : b[n] = c[n]
  PROVE  Search(s, time, ids, end, b) = Search(s, time, ids, end, c)
<1>1. PICK at : at = Latest(s, time, end = Len(s), end) OBVIOUS
<1>2. at \in 0..end
  <2>1. (end = Len(s)) \in BOOLEAN OBVIOUS
  <2> QED BY <1>1, <2>1, LatestIs
<1>3. at # 0 => at - 1 \in 0..end-1 BY <1>2
<1>4. at # 0 => b[at - 1] = c[at - 1] BY <1>3
<1> QED BY <1>1, <1>4 DEF Search

LEMMA BisectsExist ==
  ASSUME NEW s \in Seq(Sprint), IsSorted(s), NEW time \in Nat, NEW ids
  PROVE  \A end \in 0..Len(s) :
            Bisects(s, time, ids)[end] = Search(s, time, ids, end, Bisects(s, time, ids))
<1> DEFINE IsSearch(b, k) == \A n \in 0..k : b[n] = Search(s, time, ids, n, b)
           Missing == {k \in 0..Len(s) : ~\E b : IsSearch(b, k)}
<1>1. Missing = {}
  <2> SUFFICES ASSUME Missing # {} PROVE FALSE OBVIOUS
  <2>1. PICK k \in Missing : \A y \in Missing : k <= y
    <3>1. Missing \in SUBSET Nat OBVIOUS
    <3> HIDE DEF Missing
    <3> QED BY <3>1, SmallestOfNumbers
  <2>2. k \in 0..Len(s) /\ Len(s) \in Nat /\ ~\E b : IsSearch(b, k) OBVIOUS
  <2>3. PICK b : k = 0 \/ IsSearch(b, k - 1)
    <3>1. CASE k = 0 BY <3>1
    <3>2. CASE k # 0
      <4>1. k - 1 \in 0..Len(s) /\ ~(k <= k - 1) BY <2>2, <3>2
      <4> QED BY <2>1, <4>1
    <3> QED BY <3>1, <3>2
  <2>4. PICK v : v = Search(s, time, ids, k, b) OBVIOUS
  <2>5. PICK c : c = [n \in 0..k |-> IF n = k THEN v ELSE b[n]] OBVIOUS
  <2>6. c[k] = v /\ \A n \in 0..k-1 : c[n] = b[n] BY <2>2, <2>5
  <2>7. ASSUME NEW n \in 0..k PROVE c[n] = Search(s, time, ids, n, c)
    <3>1. n \in 0..Len(s) /\ \A m \in 0..n-1 : m \in 0..k-1 BY <2>2
    <3>2. \A m \in 0..n-1 : c[m] = b[m] BY <2>6, <3>1
    <3>3. Search(s, time, ids, n, c) = Search(s, time, ids, n, b) BY <3>1, <3>2, SearchUsesLess
    <3>4. CASE n = k BY <2>4, <2>6, <3>3, <3>4
    <3>5. CASE n # k
      <4>1. n \in 0..k-1 /\ k # 0 BY <2>2, <3>5
      <4>2. b[n] = Search(s, time, ids, n, b) BY <2>3, <4>1
      <4> QED BY <2>6, <3>3, <4>1, <4>2
    <3> QED BY <3>4, <3>5
  <2> QED BY <2>2, <2>7
<1>2. PICK b : IsSearch(b, Len(s))
  <2>1. Len(s) \in 0..Len(s) OBVIOUS
  <2> QED BY <1>1, <2>1
<1>3. PICK c : c = [n \in 0..Len(s) |-> b[n]] OBVIOUS
<1>4. c = Searches(s, time, ids, c)
  <2>1. ASSUME NEW n \in 0..Len(s) PROVE c[n] = Search(s, time, ids, n, c)
    <3>1. \A m \in 0..n-1 : m \in 0..Len(s) OBVIOUS
    <3>2. \A m \in 0..n-1 : c[m] = b[m] BY <1>3, <3>1
    <3>3. Search(s, time, ids, n, c) = Search(s, time, ids, n, b) BY <3>2, SearchUsesLess
    <3>4. b[n] = Search(s, time, ids, n, b) BY <1>2
    <3> QED BY <1>3, <3>3, <3>4
  <2> QED BY <1>3, <2>1 DEF Searches
<1>5. Bisects(s, time, ids) = Searches(s, time, ids, Bisects(s, time, ids))
  BY <1>4 DEF Bisects
<1> QED BY <1>5 DEF Searches

LEMMA BisectIs ==
  ASSUME NEW s, NEW time, NEW ids
  PROVE  Bisect(s, time, ids) = Bisects(s, time, ids)[Len(s)]
BY DEF Bisect, Bisects, Searches, Search

FitsIn(s, n, time, ids) == s[n].start <= time /\ time <= s[n].end /\ s[n].id \in ids

\* What is found encompasses the moment and was asked for.
LEMMA FoundFits ==
  ASSUME NEW s \in Seq(Sprint), IsSorted(s), NEW time \in Nat, NEW ids,
         NEW end \in 0..Len(s), Bisects(s, time, ids)[end] # NoSprint
  PROVE  \E n \in 1..end : s[n].id = Bisects(s, time, ids)[end] /\ FitsIn(s, n, time, ids)
<1>1. PICK b : b = Bisects(s, time, ids) OBVIOUS
<1>2. \A n \in 0..Len(s) : b[n] = Search(s, time, ids, n, b) BY <1>1, BisectsExist
<1> DEFINE Good(k) == b[k] # NoSprint => \E n \in 1..k : s[n].id = b[k] /\ FitsIn(s, n, time, ids)
           Bad == {k \in 0..Len(s) : ~Good(k)}
<1>3. Bad = {}
  <2> SUFFICES ASSUME Bad # {} PROVE FALSE OBVIOUS
  <2>1. PICK k \in Bad : \A y \in Bad : k <= y
    <3>1. Bad \in SUBSET Nat OBVIOUS
    <3> HIDE DEF Bad
    <3> QED BY <3>1, SmallestOfNumbers
  <2>2. k \in 0..Len(s) /\ Len(s) \in Nat /\ ~Good(k) OBVIOUS
  <2>3. PICK at : at = Latest(s, time, k = Len(s), k) OBVIOUS
  <2>4. at \in 0..k /\ (at # 0 => s[at].start <= time /\ time <= s[at].end)
    <3>1. (k = Len(s)) \in BOOLEAN OBVIOUS
    <3> QED BY <2>2, <2>3, <3>1, LatestIs
  <2>5. b[k] = IF at = 0 THEN NoSprint ELSE IF s[at].id \in ids THEN s[at].id ELSE b[at - 1]
    BY <1>2, <2>2, <2>3 DEF Search
  <2>6. CASE at = 0 BY <2>2, <2>5, <2>6
  <2>7. CASE at # 0 /\ s[at].id \in ids
    <3>1. at \in 1..k BY <2>4, <2>7
    <3> QED BY <2>2, <2>4, <2>5, <2>7, <3>1 DEF FitsIn
  <2>8. CASE at # 0 /\ s[at].id \notin ids
    <3>1. at - 1 \in 0..Len(s) /\ ~(k <= at - 1) /\ \A n \in 1..at-1 : n \in 1..k
      BY <2>2, <2>4, <2>8
    <3>2. Good(at - 1) BY <2>1, <3>1
    <3>3. b[k] = b[at - 1] BY <2>5, <2>8
    <3> QED BY <2>2, <3>1, <3>2, <3>3
  <2> QED BY <2>6, <2>7, <2>8
<1>4. Good(end) BY <1>3
<1> QED BY <1>1, <1>4

\* Where no sprint lies within another, the last that fits is found.
LEMMA LastIsFound ==
  ASSUME NEW s \in Seq(Sprint), IsSorted(s), NEW time \in Nat, NEW ids,
         \A m, n \in 1..Len(s) : m < n => s[m].end <= s[n].end,
         NEW end \in 0..Len(s), NEW f \in 1..end, FitsIn(s, f, time, ids)
  PROVE  \E n \in 1..end : s[n].id = Bisects(s, time, ids)[end] /\ f <= n
<1>1. PICK b : b = Bisects(s, time, ids) OBVIOUS
<1>2. \A n \in 0..Len(s) : b[n] = Search(s, time, ids, n, b) BY <1>1, BisectsExist
<1> DEFINE Good(k) == f <= k => \E n \in 1..k : s[n].id = b[k] /\ f <= n
           Bad == {k \in 0..Len(s) : ~Good(k)}
<1>3. Bad = {}
  <2> SUFFICES ASSUME Bad # {} PROVE FALSE OBVIOUS
  <2>1. PICK k \in Bad : \A y \in Bad : k <= y
    <3>1. Bad \in SUBSET Nat OBVIOUS
    <3> HIDE DEF Bad
    <3> QED BY <3>1, SmallestOfNumbers
  <2>2. k \in 0..Len(s) /\ Len(s) \in Nat /\ ~Good(k) OBVIOUS
  <2>3. f <= k /\ f \in 1..k /\ f \in 1..Len(s) BY <2>2
  <2>4. PICK at : at = Latest(s, time, k = Len(s), k) OBVIOUS
  <2>5. PICK g : g = Begun(s, time, k) OBVIOUS
  <2>6. /\ f <= g /\ g \in 1..k
        /\ time <= s[g].end => at = g
    <3>1. (k = Len(s)) \in BOOLEAN OBVIOUS
    <3>2. s[f].start <= time BY DEF FitsIn
    <3> QED BY <2>2, <2>3, <2>4, <2>5, <3>1, <3>2, LatestIs
  <2>7. time <= s[g].end
    <3>1. time <= s[f].end BY DEF FitsIn
    <3>2. f \in 1..Len(s) /\ g \in 1..Len(s) BY <2>2, <2>3, <2>6
    <3>3. f < g => s[f].end <= s[g].end BY <3>2
    <3>4. s[f].end \in Nat /\ s[g].end \in Nat BY <3>2, SprintsHaveDates
    <3>5. f = g \/ f < g BY <2>6, <3>2
    <3> QED BY <3>1, <3>3, <3>4, <3>5
  <2>8. b[k] = IF at = 0 THEN NoSprint ELSE IF s[at].id \in ids THEN s[at].id ELSE b[at - 1]
    BY <1>2, <2>2, <2>4 DEF Search
  <2>9. at = g /\ at \in 1..k /\ at # 0 BY <2>6, <2>7
  <2>10. CASE s[at].id \in ids
    BY <2>2, <2>6, <2>8, <2>9, <2>10
  <2>11. CASE s[at].id \notin ids
    <3>1. f # at BY <2>11 DEF FitsIn
    <3>2. /\ at - 1 \in 0..Len(s) /\ ~(k <= at - 1) /\ f <= at - 1
          /\ \A n \in 1..at-1 : n \in 1..k
      BY <2>2, <2>3, <2>6, <2>9, <3>1
    <3>3. Good(at - 1) BY <2>1, <3>2
    <3>4. b[k] = b[at - 1] BY <2>8, <2>9, <2>11
    <3> QED BY <2>2, <3>2, <3>3, <3>4
  <2> QED BY <2>10, <2>11
<1>4. Good(end) BY <1>3
<1>5. f <= end OBVIOUS
<1> QED BY <1>1, <1>4, <1>5

Ordered(order) ==
    /\ order \in Bijection(DOMAIN sprints, DOMAIN sprints)
    /\ Sorts(order) /\ calendar = [n \in DOMAIN sprints |-> sprints[order[n]]]

CalendarInv ==
    /\ sprints \in Seq(Sprint)
    /\ pcCalendar \in {"gather", "loaded", "raised"}
    /\ pcCalendar = "gather" => asked.ids = {}
    /\ pcCalendar = "loaded" => \E order : Ordered(order)
    /\ SprintIsTheLatest

LEMMA OrderedIs ==
  ASSUME sprints \in Seq(Sprint), NEW order, Ordered(order)
  PROVE  /\ calendar \in Seq(Sprint) /\ Len(calendar) = Len(sprints) /\ IsSorted(calendar)
         /\ \A n \in 1..Len(sprints) : order[n] \in 1..Len(sprints) /\ calendar[n] = sprints[order[n]]
         /\ \A n \in 1..Len(sprints) : \E m \in 1..Len(sprints) : order[m] = n
         /\ \A m, n \in 1..Len(sprints) : order[m] = order[n] => m = n
<1>1. DOMAIN sprints = 1..Len(sprints) /\ Len(sprints) \in Nat OBVIOUS
<1>2. /\ order \in [DOMAIN sprints -> DOMAIN sprints]
      /\ \A n \in DOMAIN sprints : \E m \in DOMAIN sprints : order[m] = n
      /\ \A m, n \in DOMAIN sprints : order[m] = order[n] => m = n
  BY DEF Ordered, Bijection, Injection, Surjection, IsInjective
<1>3. calendar = [n \in 1..Len(sprints) |-> sprints[order[n]]] BY <1>1 DEF Ordered
<1>4. \A n \in 1..Len(sprints) : sprints[order[n]] \in Sprint BY <1>1, <1>2
<1>5. calendar \in Seq(Sprint) /\ Len(calendar) = Len(sprints) BY <1>1, <1>3, <1>4
<1>6. ASSUME NEW m \in 1..Len(sprints), NEW n \in 1..Len(sprints), m < n
      PROVE  calendar[m].start <= calendar[n].start
  <2>1. \/ sprints[order[m]].start < sprints[order[n]].start
        \/ sprints[order[m]].start = sprints[order[n]].start
    BY <1>1, <1>6 DEF Ordered, Sorts
  <2>2. calendar[m] = sprints[order[m]] /\ calendar[n] = sprints[order[n]] BY <1>3
  <2>3. calendar[m].start \in Nat /\ calendar[n].start \in Nat BY <1>5, SprintsHaveDates
  <2> QED BY <2>1, <2>2, <2>3
<1> QED BY <1>1, <1>2, <1>3, <1>5, <1>6 DEF IsSorted

LEMMA FindKeeps ==
  ASSUME CalendarInv, NEW time \in Moments, NEW ids \in SUBSET SprintIds, FindSprint(time, ids)
  PROVE  CalendarInv'
<1>1. /\ pcCalendar = "loaded" /\ UNCHANGED <<boards, sprints, pcCalendar, calendar>>
      /\ asked' = [time |-> time, ids |-> ids] /\ answer' = Bisect(calendar, time, ids)
      /\ sprints \in Seq(Sprint)
  BY DEF FindSprint, CalendarInv
<1>2. PICK order : Ordered(order) BY <1>1 DEF CalendarInv
<1>3. PICK s : s = calendar OBVIOUS
<1>4. PICK r : r = sprints OBVIOUS
<1>5. /\ s \in Seq(Sprint) /\ Len(s) = Len(r) /\ IsSorted(s) /\ r \in Seq(Sprint)
      /\ \A n \in 1..Len(r) : order[n] \in 1..Len(r) /\ s[n] = r[order[n]]
      /\ \A n \in 1..Len(r) : \E m \in 1..Len(r) : order[m] = n
      /\ \A m, n \in 1..Len(r) : order[m] = order[n] => m = n
  BY <1>1, <1>2, <1>3, <1>4, OrderedIs
<1>6. time \in Nat BY CalendarAssumption DEF Moments
<1>7. DOMAIN sprints' = 1..Len(r) /\ Len(s) \in 0..Len(s) /\ Len(r) \in Nat BY <1>1, <1>4, <1>5
<1>8. PICK a : a = Bisects(s, time, ids)[Len(s)] OBVIOUS
<1>9. answer' = a BY <1>1, <1>3, <1>8, BisectIs
<1>10. \A n \in 1..Len(r) : Fits(n)' <=> FitsIn(r, n, time, ids)
  BY <1>1, <1>4 DEF Fits, FitsIn
<1>11. ASSUME a # NoSprint PROVE \E n \in 1..Len(r) : r[n].id = a /\ Fits(n)'
  <2>1. PICK k \in 1..Len(s) : s[k].id = a /\ FitsIn(s, k, time, ids)
    BY <1>5, <1>6, <1>7, <1>8, <1>11, FoundFits
  <2>2. order[k] \in 1..Len(r) /\ r[order[k]].id = a /\ FitsIn(r, order[k], time, ids)
    BY <1>5, <2>1 DEF FitsIn
  <2> QED BY <1>10, <2>2
<1>12. ASSUME InSequence, StartsDiffer, NEW n \in 1..Len(r), Fits(n)'
       PROVE  \E m \in 1..Len(r) : r[m].id = a /\ r[n].start <= r[m].start
  <2>1. PICK f \in 1..Len(r) : order[f] = n BY <1>5
  <2>2. FitsIn(s, f, time, ids) BY <1>5, <1>10, <1>12, <2>1 DEF FitsIn
  <2>3. ASSUME NEW k \in 1..Len(s), NEW l \in 1..Len(s), k < l PROVE s[k].end <= s[l].end
    <3>1. /\ order[k] \in 1..Len(r) /\ order[l] \in 1..Len(r) /\ s[k] = r[order[k]]
          /\ s[l] = r[order[l]] /\ order[k] # order[l]
      BY <1>5, <2>3
    <3>2. s[k].start <= s[l].start BY <1>5, <2>3 DEF IsSorted
    <3>3. s[k].start # s[l].start BY <1>4, <1>12, <3>1 DEF StartsDiffer
    <3>4. s[k].start \in Nat /\ s[l].start \in Nat BY <1>5, SprintsHaveDates
    <3>5. s[k].start < s[l].start BY <3>2, <3>3, <3>4
    <3> QED BY <1>4, <1>12, <3>1, <3>5 DEF InSequence
  <2>4. f \in 1..Len(s) BY <1>5
  <2>5. PICK k \in 1..Len(s) : s[k].id = a /\ f <= k
    <3>1. \A m, l \in 1..Len(s) : m < l => s[m].end <= s[l].end BY <2>3
    <3>2. s \in Seq(Sprint) /\ IsSorted(s) /\ Len(s) \in 0..Len(s) BY <1>5, <1>7
    <3>3. \E k \in 1..Len(s) : s[k].id = Bisects(s, time, ids)[Len(s)] /\ f <= k
      BY <1>6, <2>2, <2>4, <3>1, <3>2, LastIsFound
    <3> QED BY <1>8, <3>3
  <2>6. s[f].start <= s[k].start
    <3>1. s[f].start \in Nat /\ s[k].start \in Nat BY <1>5, <2>4, SprintsHaveDates
    <3>2. f < k => s[f].start <= s[k].start BY <1>5, <2>4 DEF IsSorted
    <3> QED BY <2>4, <2>5, <3>1, <3>2
  <2>7. order[k] \in 1..Len(r) /\ r[order[k]] = s[k] /\ r[n] = s[f] BY <1>5, <2>1, <2>4
  <2> QED BY <2>5, <2>6, <2>7
<1>13. (InSequence' <=> InSequence) /\ (StartsDiffer' <=> StartsDiffer)
  BY <1>1 DEF InSequence, StartsDiffer
<1>14. SprintIsTheLatest'
  <2>1. sprints' = r BY <1>1, <1>4
  <2> QED BY <1>7, <1>9, <1>11, <1>12, <1>13, <2>1 DEF SprintIsTheLatest
<1>15. \E o : Ordered(o)'
  <2>1. Ordered(order)' BY <1>1, <1>2 DEF Ordered, Sorts
  <2> QED BY <2>1
<1> QED BY <1>1, <1>14, <1>15 DEF CalendarInv

LEMMA CalendarStep ==
  CalendarInv /\ [CalendarNext]_calendarVars => CalendarInv'
<1> SUFFICES ASSUME CalendarInv, [CalendarNext]_calendarVars PROVE CalendarInv'
  OBVIOUS
<1>1. ASSUME NEW sprint \in Sprint, AddSprint(sprint) PROVE CalendarInv'
  <2>1. /\ pcCalendar = "gather" /\ sprints' = Append(sprints, sprint)
        /\ UNCHANGED <<boards, pcCalendar, calendar, asked, answer>>
    BY <1>1 DEF AddSprint
  <2>2. sprints' \in Seq(Sprint) BY <2>1 DEF CalendarInv
  <2> QED BY <2>1, <2>2 DEF CalendarInv, SprintIsTheLatest
<1>2. ASSUME NEW id \in SprintIds, NEW start \in 0..MaxMoment, NEW end \in 0..MaxMoment
      PROVE  [id |-> id, start |-> start, end |-> end] \in Sprint
  BY DEF Sprint
<1>3. Moments \subseteq 0..MaxMoment /\ Undated \in 0..MaxMoment
  BY CalendarAssumption DEF Moments, Undated
<1>4. ASSUME NEW id \in SprintIds, NEW start \in Moments, NEW end \in Moments,
             \/ ParseSprint([id |-> id, start |-> start, end |-> end])
             \/ PrefetchSprint([id |-> id, start |-> start, end |-> end])
      PROVE  CalendarInv'
  <2>1. AddSprint([id |-> id, start |-> start, end |-> end]) BY <1>4 DEF ParseSprint, PrefetchSprint
  <2>2. [id |-> id, start |-> start, end |-> end] \in Sprint BY <1>2, <1>3
  <2> QED BY <1>1, <2>1, <2>2
<1>5. ASSUME NEW id \in SprintIds,
             PrefetchSprint([id |-> id, start |-> Undated, end |-> Undated])
      PROVE  CalendarInv'
  <2>1. AddSprint([id |-> id, start |-> Undated, end |-> Undated]) BY <1>5 DEF PrefetchSprint
  <2>2. [id |-> id, start |-> Undated, end |-> Undated] \in Sprint BY <1>2, <1>3
  <2> QED BY <1>1, <2>1, <2>2
<1>6. CASE LoadSprints
  <2>1. /\ pcCalendar = "gather" /\ UNCHANGED <<boards, sprints, asked, answer>>
        /\ asked.ids = {} /\ pcCalendar' \in {"raised", "loaded"} /\ sprints \in Seq(Sprint)
    BY <1>6 DEF LoadSprints, CalendarInv
  <2>2. SprintIsTheLatest' BY <2>1 DEF SprintIsTheLatest
  <2>3. ASSUME pcCalendar' = "loaded" PROVE \E order : Ordered(order)'
    <3>1. PICK order \in Bijection(DOMAIN sprints, DOMAIN sprints) :
            Sorts(order) /\ calendar' = [n \in DOMAIN sprints |-> sprints[order[n]]]
      BY <1>6, <2>3 DEF LoadSprints
    <3>2. Ordered(order)' BY <2>1, <3>1 DEF Ordered, Sorts
    <3> QED BY <3>2
  <2> QED BY <2>1, <2>2, <2>3 DEF CalendarInv
<1>7. ASSUME NEW time \in Moments, NEW ids \in SUBSET SprintIds, FindSprint(time, ids)
      PROVE  CalendarInv'
  BY <1>7, FindKeeps
<1>8. CASE UNCHANGED calendarVars
  BY <1>8 DEF calendarVars, CalendarInv, SprintIsTheLatest, Ordered, Sorts, Fits, InSequence,
              StartsDiffer
<1> QED BY <1>4, <1>5, <1>6, <1>7, <1>8 DEF CalendarNext

\* The sprint of a moment encompasses it and was asked for, for any sprints that
\* overlap in any way, and it is the last to begin if none lies within another.
THEOREM SprintIsRight ==
  CalendarInit /\ [][CalendarNext]_calendarVars => []SprintIsTheLatest
<1>1. CalendarInit => CalendarInv
  BY DEF CalendarInit, CalendarInv, SprintIsTheLatest
<1>2. CalendarInv => SprintIsTheLatest BY DEF CalendarInv
<1> QED BY <1>1, <1>2, CalendarStep, PTL

=============================================================================
