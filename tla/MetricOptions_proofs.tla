------------------------ MODULE MetricOptions_proofs ------------------------
(***************************************************************************)
(* What TLAPS proves about the collection of metrics for any metrics,      *)
(* values, numbers of runs and failures, and any length of a changelog:    *)
(* that the values of the tables were in effect, that no change of a       *)
(* target is lost or repeated but in the ways that the properties name,    *)
(* and no measurement either.                                              *)
(***************************************************************************)
EXTENDS MetricOptions, FiniteSetTheorems, WellFoundedInduction, TLAPS

LEMMA Seconds == ASSUME NEW a \in Int, NEW b \in Int
                 PROVE  /\ Sec(a) \in Int
                        /\ a <= b => Sec(a) <= Sec(b)
  BY DEF Sec

-----------------------------------------------------------------------------
(***************************************************************************)
(* The values of a metric after a number of its changes, told from the     *)
(* values it was added with and the changes themselves.                    *)
(***************************************************************************)
LEMMA SmallestOfNumbers ==
  ASSUME NEW S \in SUBSET Nat, S # {}
  PROVE  \E x \in S : \A y \in S : x <= y
<1>1. PICK x \in S : \A y \in S : ~(<<y, x>> \in OpToRel(<, Nat))
  <2>1. S \subseteq Nat OBVIOUS
  <2> QED BY <2>1, WFMin, NatLessThanWellFounded
<1>2. ASSUME NEW y \in S PROVE x <= y
  <2>1. x \in Nat /\ y \in Nat /\ ~(y < x) BY <1>1 DEF OpToRel
  <2> QED BY <2>1
<1> QED BY <1>2

LEMMA GreatestOfNumbers ==
  ASSUME NEW N \in Nat, NEW S \in SUBSET (0 .. N), S # {}
  PROVE  \E x \in S : \A y \in S : y <= x
<1> DEFINE T == {N - x : x \in S}
<1>1. T \subseteq Nat /\ T # {}
  <2>1. \A x \in S : x \in 0 .. N /\ N - x \in Nat OBVIOUS
  <2>2. PICK x \in S : TRUE OBVIOUS
  <2>3. N - x \in T OBVIOUS
  <2> QED BY <2>1, <2>3
<1>2. PICK t \in T : \A u \in T : t <= u
  <2> HIDE DEF T
  <2> QED BY <1>1, SmallestOfNumbers
<1>3. PICK x \in S : t = N - x OBVIOUS
<1>4. ASSUME NEW y \in S PROVE y <= x
  <2>1. N - y \in T /\ x \in Nat /\ y \in Nat BY <1>1
  <2> QED BY <1>2, <1>3, <2>1
<1> QED BY <1>4

Where(changes, n, key) == {i \in 1..n : changes[i].key = key}
LastOf(at) == CHOOSE i \in at : \A j \in at : j <= i
ValueOf(values, changes, n, key) ==
    IF Where(changes, n, key) = {} THEN values[key]
    ELSE changes[LastOf(Where(changes, n, key))].new

LEMMA LastIsIn ==
  ASSUME NEW changes, NEW n \in Nat, NEW key, Where(changes, n, key) # {}
  PROVE  LastOf(Where(changes, n, key)) \in Where(changes, n, key)
<1> DEFINE S == Where(changes, n, key)
<1>1. S \subseteq 0 .. n BY DEF Where
<1> HIDE DEF S
<1>2. S # {} => \E i \in S : \A j \in S : j <= i BY <1>1, GreatestOfNumbers
<1> QED BY <1>2 DEF S, LastOf

LEMMA ValueStep ==
  ASSUME NEW values, NEW changes, NEW n \in Nat \ {0}, NEW key
  PROVE  ValueOf(values, changes, n, key) =
           IF changes[n].key = key THEN changes[n].new ELSE ValueOf(values, changes, n - 1, key)
<1>1. CASE changes[n].key = key
  <2>1. n \in Where(changes, n, key) /\ \A j \in Where(changes, n, key) : j \in Nat /\ j <= n
    BY <1>1 DEF Where
  <2>2. LastOf(Where(changes, n, key)) = n BY <2>1 DEF LastOf
  <2> QED BY <1>1, <2>1, <2>2 DEF ValueOf
<1>2. CASE changes[n].key # key
  <2>1. Where(changes, n, key) = Where(changes, n - 1, key) BY <1>2 DEF Where
  <2> QED BY <1>2, <2>1 DEF ValueOf
<1> QED BY <1>1, <1>2

\* Later changes do not matter.
LEMMA ValueStays ==
  ASSUME NEW values, NEW changes, NEW others, NEW n \in Nat, NEW key,
         \A i \in 1..n : others[i] = changes[i]
  PROVE  ValueOf(values, others, n, key) = ValueOf(values, changes, n, key)
<1>1. Where(others, n, key) = Where(changes, n, key) BY DEF Where
<1>2. Where(changes, n, key) # {} => LastOf(Where(changes, n, key)) \in 1..n
  BY LastIsIn DEF Where
<1> QED BY <1>1, <1>2 DEF ValueOf

LEMMA AfterIsValue ==
  ASSUME NEW m, NEW n
  PROVE  After(m, n) = [key \in Keys |-> ValueOf(first[m], log[m], n, key)]
  BY DEF After, ValueOf, Where, LastOf

\* One change changes the value of its key.
LEMMA AfterStep ==
  ASSUME NEW m, NEW n \in Nat \ {0}
  PROVE  After(m, n) = [key \in Keys |-> IF log[m][n].key = key THEN log[m][n].new
                                         ELSE After(m, n - 1)[key]]
<1>1. After(m, n) = [key \in Keys |-> ValueOf(first[m], log[m], n, key)] BY AfterIsValue
<1>2. \A key \in Keys : After(m, n - 1)[key] = ValueOf(first[m], log[m], n - 1, key)
  BY AfterIsValue
<1>3. \A key \in Keys : ValueOf(first[m], log[m], n, key) =
        IF log[m][n].key = key THEN log[m][n].new ELSE ValueOf(first[m], log[m], n - 1, key)
  BY ValueStep
<1> QED BY <1>1, <1>2, <1>3

-----------------------------------------------------------------------------
(***************************************************************************)
(* Quality-time: going back over the changes                               *)
(***************************************************************************)
\* The values from before each change, as Undo goes back to them.
UndoneFrom(m, n, keys, before) ==
    [i \in 1..n + 1 |->
        IF i = n + 1 THEN After(m, n)
        ELSE IF log[m][i].key \in keys THEN [before[i + 1] EXCEPT ![log[m][i].key] = log[m][i].old]
        ELSE before[i + 1]]
Undone(m, n, keys) == CHOOSE before : before = UndoneFrom(m, n, keys, before)

LEMMA UndoIsUndone ==
  ASSUME NEW m, NEW n, NEW keys
  PROVE  Undo(m, n, keys) =
           [i \in 1..n |-> [Undone(m, n, keys)[i + 1] EXCEPT ![log[m][i].key] = log[m][i].new]]
  BY DEF Undo, Undone, UndoneFrom

\* What is there before the change i: of the keys that are undone the values
\* after the changes before it, of the others those of the version.
Between(m, n, keys, i) ==
    [key \in Keys |-> IF key \in keys THEN After(m, i)[key] ELSE After(m, n)[key]]

\* What a change says of the value before it is true.
ChangesAreTrue(m) ==
    \A i \in DOMAIN log[m] :
        log[m][i].key \in Keys => log[m][i].old = After(m, i - 1)[log[m][i].key]

\* The equation of the function that Undo goes by has one solution.
LEMMA UndoneHolds ==
  ASSUME NEW m, NEW n \in Nat, NEW keys \in SUBSET Keys,
         ChangesAreTrue(m), 1 .. n \subseteq DOMAIN log[m]
  PROVE  \A i \in 1 .. n + 1 : Undone(m, n, keys)[i] = Between(m, n, keys, i - 1)
<1> DEFINE B == [i \in 1 .. n + 1 |-> Between(m, n, keys, i - 1)]
           f == Undone(m, n, keys)
<1>1. Between(m, n, keys, n) = After(m, n) BY DEF Between, After
<1>2. ASSUME NEW i \in 1 .. n
      PROVE  Between(m, n, keys, i - 1) =
               IF log[m][i].key \in keys
               THEN [Between(m, n, keys, i) EXCEPT ![log[m][i].key] = log[m][i].old]
               ELSE Between(m, n, keys, i)
  <2> DEFINE c == log[m][i].key
  <2>1. \A key \in Keys : key # c => After(m, i)[key] = After(m, i - 1)[key]
    BY AfterStep
  <2>2. c \in keys => log[m][i].old = After(m, i - 1)[c] BY DEF ChangesAreTrue
  <2> HIDE DEF c
  <2>3. CASE c \in keys
    <3>1. \A key \in Keys :
            [Between(m, n, keys, i) EXCEPT ![c] = log[m][i].old][key]
              = Between(m, n, keys, i - 1)[key]
      BY <2>1, <2>2, <2>3 DEF Between
    <3> QED BY <2>3, <3>1 DEF Between, c
  <2>4. CASE c \notin keys
    <3>1. \A key \in keys : After(m, i)[key] = After(m, i - 1)[key] BY <2>1, <2>4
    <3> QED BY <2>4, <3>1 DEF Between, c
  <2> QED BY <2>3, <2>4
<1>3. B = UndoneFrom(m, n, keys, B)
  <2>1. \A i \in 1 .. n + 1 : B[i] = UndoneFrom(m, n, keys, B)[i]
    <3> SUFFICES ASSUME NEW i \in 1 .. n + 1 PROVE B[i] = UndoneFrom(m, n, keys, B)[i]
      OBVIOUS
    <3>1. CASE i = n + 1 BY <1>1, <3>1 DEF UndoneFrom
    <3>2. CASE i \in 1 .. n
      <4>1. B[i + 1] = Between(m, n, keys, i) /\ B[i] = Between(m, n, keys, i - 1)
        BY <3>2
      <4>2. i # n + 1 BY <3>2
      <4> HIDE DEF B
      <4> QED BY <1>2, <3>2, <4>1, <4>2 DEF UndoneFrom
    <3> QED BY <3>1, <3>2
  <2> QED BY <2>1 DEF UndoneFrom
<1> HIDE DEF B
<1>4. f = UndoneFrom(m, n, keys, f) BY <1>3 DEF Undone
<1> HIDE DEF f
<1> DEFINE Bad == {i \in 1 .. n + 1 : f[i] # B[i]}
<1>5. Bad = {}
  <2> SUFFICES ASSUME Bad # {} PROVE FALSE OBVIOUS
  <2>1. PICK i \in Bad : \A j \in Bad : j <= i
    <3>1. Bad \subseteq 0 .. n + 1 /\ n + 1 \in Nat OBVIOUS
    <3> HIDE DEF Bad
    <3> QED BY <3>1, GreatestOfNumbers
  <2>2. i \in 1 .. n + 1 /\ f[i] # B[i] OBVIOUS
  <2>3. CASE i = n + 1 BY <1>3, <1>4, <2>2, <2>3 DEF UndoneFrom
  <2>4. CASE i \in 1 .. n
    <3>1. i + 1 \notin Bad /\ i + 1 \in 1 .. n + 1 /\ i # n + 1
      <4>1. i + 1 \notin Bad
        <5> HIDE DEF Bad
        <5> QED BY <2>1, <2>4
      <4> QED BY <2>4, <4>1
    <3>2. f[i + 1] = B[i + 1] BY <3>1
    <3>3. f[i] = UndoneFrom(m, n, keys, f)[i] /\ B[i] = UndoneFrom(m, n, keys, B)[i]
      BY <1>3, <1>4
    <3>4. f[i] = B[i] BY <2>2, <3>1, <3>2, <3>3 DEF UndoneFrom
    <3> QED BY <2>2, <3>4
  <2> QED BY <2>2, <2>3, <2>4
<1> QED BY <1>5 DEF B, f

\* A metric that never returned to the default has had no change of its target
\* as long as it has the default.
LEMMA DefaultMeansUnchanged ==
  ASSUME NEW m, ~Returned(m), NEW n \in Nat, 1 .. n \subseteq DOMAIN log[m],
         After(m, n).target = 0
  PROVE  \A i \in 1 .. n : log[m][i].key # "target" /\ After(m, i).target = 0
<1>1. "target" \in Keys BY DEF Keys
<1>2. Where(log[m], n, "target") = {}
  <2> SUFFICES ASSUME Where(log[m], n, "target") # {} PROVE FALSE OBVIOUS
  <2> DEFINE c == LastOf(Where(log[m], n, "target"))
  <2>0. c \in Where(log[m], n, "target") BY LastIsIn
  <2> HIDE DEF c
  <2>1. c \in 1 .. n /\ log[m][c].key = "target" BY <2>0 DEF Where
  <2>2. log[m][c].new = 0
    <3>1. After(m, n).target = ValueOf(first[m], log[m], n, "target") BY <1>1, AfterIsValue
    <3> QED BY <3>1 DEF ValueOf, c
  <2> QED BY <2>1, <2>2 DEF Returned
<1>3. ASSUME NEW i \in 1 .. n PROVE After(m, i).target = 0
  <2>1. Where(log[m], i, "target") = {} BY <1>2 DEF Where
  <2> QED BY <1>1, <1>2, <2>1, AfterIsValue DEF ValueOf
<1> QED BY <1>2, <1>3 DEF Where

\* Going back makes the values as they were after a change, if the metric has
\* not returned to the default.
LEMMA UndoIsTrue ==
  ASSUME NEW m, NEW n \in Nat, ChangesAreTrue(m), ~Returned(m),
         1 .. n \subseteq DOMAIN log[m],
         NEW i \in 1 .. n, log[m][i].key \in TargetKeys(m, n)
  PROVE  Undo(m, n, TargetKeys(m, n))[i] = After(m, i)
<1> DEFINE keys == TargetKeys(m, n)
           c == log[m][i].key
<1>1. keys \in SUBSET Keys BY DEF TargetKeys, Keys
<1>2. Undo(m, n, keys)[i] = [Between(m, n, keys, i) EXCEPT ![c] = log[m][i].new]
  <2> HIDE DEF keys
  <2>1. Undone(m, n, keys)[i + 1] = Between(m, n, keys, i)
    <3>1. i + 1 \in 1 .. n + 1 /\ (i + 1) - 1 = i OBVIOUS
    <3> QED BY <1>1, <3>1, UndoneHolds
  <2> QED BY <2>1, UndoIsUndone
<1>3. \A key \in Keys : key \notin keys => After(m, i)[key] = After(m, n)[key]
  <2> SUFFICES ASSUME NEW key \in Keys, key \notin keys
               PROVE  After(m, i)[key] = After(m, n)[key]
    OBVIOUS
  <2>1. key = "target" /\ After(m, n).target = 0 BY DEF TargetKeys, Keys
  <2> QED BY <2>1, DefaultMeansUnchanged
<1>4. After(m, i)[c] = log[m][i].new /\ c \in Keys BY <1>1, AfterStep
<1>5. Between(m, n, keys, i) = After(m, i)
  <2> HIDE DEF keys
  <2>1. \A key \in Keys : Between(m, n, keys, i)[key] = After(m, i)[key] BY <1>3 DEF Between
  <2> QED BY <2>1 DEF Between, After
<1>6. [After(m, i) EXCEPT ![c] = log[m][i].new] = After(m, i)
  BY <1>4 DEF After
<1> QED BY <1>2, <1>5, <1>6

Types ==
    /\ kind \in Kinds /\ clock \in Times
    /\ pc \in {"idle", "options", "history"}
    /\ tracker \in Optional /\ cutoff \in Optional
    /\ tracker <= clock /\ cutoff <= clock
    /\ born \in [Metrics -> Optional]
    /\ \A m \in Metrics : born[m] <= clock
    /\ pc \in {"options", "history"} => run.version \in Times /\ run.version > tracker
                                                             /\ run.version <= clock

-----------------------------------------------------------------------------
(***************************************************************************)
(* The changelogs, which are only added to                                 *)
(***************************************************************************)
ChangeEntry == [at : Times, key : Keys \cup {"name"},
                old : Targets \cup Scales, new : Targets \cup Scales]

OfKey(key, v) == (key = "target" => v \in Targets) /\ (key = "scale" => v \in Scales)

InOrder(m) == \A i, j \in DOMAIN log[m] : i <= j => log[m][i].at <= log[m][j].at
LogHolds ==
    /\ first \in [Metrics -> Value]
    /\ log \in [Metrics -> Seq(ChangeEntry)]
    /\ acts \in 0..MaxActs
    /\ \A m \in Metrics :
          /\ ChangesAreTrue(m) /\ InOrder(m)
          /\ \A i \in DOMAIN log[m] :
                /\ born[m] # Never /\ log[m][i].at <= clock
                /\ OfKey(log[m][i].key, log[m][i].new)
                /\ log[m][i].key \in Keys => log[m][i].old # log[m][i].new

\* What people may do to the changelogs and to what metrics were added with.
OnlyAdded ==
    /\ \A m \in Metrics :
          /\ Len(log[m]) <= Len(log'[m])
          /\ \A i \in 1..Len(log[m]) : log'[m][i] = log[m][i]
          /\ \A i \in Len(log[m]) + 1..Len(log'[m]) : log'[m][i].at = clock
    /\ \A m \in Metrics : born[m] # Never => first'[m] = first[m]

LEMMA AfterIsValueNext ==
  ASSUME NEW m, NEW n
  PROVE  After(m, n)' = [key \in Keys |-> ValueOf(first'[m], log'[m], n, key)]
  BY DEF After, ValueOf, Where, LastOf

LEMMA AfterStays ==
  ASSUME LogHolds, OnlyAdded, NEW m \in Metrics, born[m] # Never, NEW n \in 0..Len(log[m])
  PROVE  After(m, n)' = After(m, n)
<1>1. first'[m] = first[m] /\ n \in Nat /\ \A i \in 1..n : log'[m][i] = log[m][i]
  BY DEF LogHolds, OnlyAdded
<1>2. \A key \in Keys : ValueOf(first'[m], log'[m], n, key) = ValueOf(first[m], log[m], n, key)
  BY <1>1, ValueStays
<1> QED BY <1>2, AfterIsValue, AfterIsValueNext

LEMMA AfterType ==
  ASSUME LogHolds, NEW m \in Metrics, NEW n \in 0..Len(log[m])
  PROVE  After(m, n) \in Value
<1>1. \A i \in 1..n : OfKey(log[m][i].key, log[m][i].new) BY DEF LogHolds
<1>2. OfKey("target", first[m].target) /\ OfKey("scale", first[m].scale)
  BY DEF LogHolds, Value, OfKey
<1>3. ASSUME NEW key \in Keys PROVE OfKey(key, ValueOf(first[m], log[m], n, key))
  <2>1. CASE Where(log[m], n, key) = {} BY <1>2, <2>1 DEF ValueOf, Keys, OfKey
  <2>2. CASE Where(log[m], n, key) # {}
    <3>1. LastOf(Where(log[m], n, key)) \in Where(log[m], n, key) BY <2>2, LastIsIn
    <3> QED BY <1>1, <2>2, <3>1 DEF ValueOf, Where
  <2> QED BY <2>1, <2>2
<1>4. Keys = {"target", "scale"} BY DEF Keys
<1> QED BY <1>3, <1>4, AfterIsValue DEF Value, OfKey

LEMMA ChangeAppends ==
  ASSUME Types, LogHolds, NEW m \in Metrics, NEW key \in Keys \cup {"name"},
         NEW old \in Targets \cup Scales, NEW new \in Targets \cup Scales,
         OfKey(key, new), key \in Keys => old = Now(m)[key] /\ old # new,
         Change(m, key, old, new), acts < MaxActs, acts' = acts + 1, clock' = clock
  PROVE  LogHolds' /\ OnlyAdded
<1> DEFINE e == [at |-> clock, key |-> key, old |-> old, new |-> new]
           L == Len(log[m])
<1>1. /\ born[m] # Never /\ UNCHANGED <<born, first>>
      /\ log' = [log EXCEPT ![m] = Append(log[m], e)]
  BY DEF Change
<1>2. e \in ChangeEntry /\ e.at = clock /\ e.key = key /\ e.old = old /\ e.new = new
  BY DEF Types, ChangeEntry
<1> HIDE DEF e
<1>3. log \in [Metrics -> Seq(ChangeEntry)] BY DEF LogHolds
<1>4. log[m] \in Seq(ChangeEntry) /\ log'[m] = Append(log[m], e) /\ L \in Nat
      /\ Append(log[m], e) \in Seq(ChangeEntry)
  BY <1>1, <1>2, <1>3
<1>5. log' \in [Metrics -> Seq(ChangeEntry)] BY <1>1, <1>3, <1>4
<1>6. /\ Len(log'[m]) = L + 1 /\ log'[m][L + 1] = e
      /\ \A i \in 1..L : log'[m][i] = log[m][i]
      /\ \A x \in Metrics : x # m => log'[x] = log[x]
      /\ DOMAIN log'[m] = 1..L + 1 /\ DOMAIN log[m] = 1..L
  <2> HIDE DEF ChangeEntry
  <2> QED BY <1>1, <1>3, <1>4
<1>7. OnlyAdded
  <2>1. \A x \in Metrics : Len(log[x]) \in Nat BY <1>3
  <2>2. \A x \in Metrics :
          /\ Len(log[x]) <= Len(log'[x])
          /\ \A i \in 1..Len(log[x]) : log'[x][i] = log[x][i]
          /\ \A i \in Len(log[x]) + 1..Len(log'[x]) : log'[x][i].at = clock
    <3> SUFFICES ASSUME NEW x \in Metrics
                 PROVE  /\ Len(log[x]) <= Len(log'[x])
                        /\ \A i \in 1..Len(log[x]) : log'[x][i] = log[x][i]
                        /\ \A i \in Len(log[x]) + 1..Len(log'[x]) : log'[x][i].at = clock
      OBVIOUS
    <3>1. CASE x = m
      <4>1. \A i \in L + 1..L + 1 : i = L + 1 BY <1>4
      <4> QED BY <1>2, <1>4, <1>6, <3>1, <4>1
    <3>2. CASE x # m
      <4>1. log'[x] = log[x] BY <1>6, <3>2
      <4> QED BY <2>1, <4>1
    <3> QED BY <3>1, <3>2
  <2> QED BY <1>1, <2>2 DEF OnlyAdded
<1>8. ASSUME NEW x \in Metrics PROVE ChangesAreTrue(x)'
  <2> SUFFICES ASSUME NEW i \in DOMAIN log'[x], log'[x][i].key \in Keys
               PROVE  log'[x][i].old = After(x, i - 1)'[log'[x][i].key]
    BY Zenon DEF ChangesAreTrue
  <2>1. ChangesAreTrue(x) /\ Len(log[x]) \in Nat /\ DOMAIN log[x] = 1..Len(log[x])
    BY <1>3 DEF LogHolds
  <2>2. CASE i \in DOMAIN log[x]
    <3>1. log'[x][i] = log[x][i] BY <1>7, <2>1, <2>2 DEF OnlyAdded
    <3>2. born[x] # Never /\ i - 1 \in 0..Len(log[x]) BY <2>1, <2>2 DEF LogHolds
    <3>3. After(x, i - 1)' = After(x, i - 1) BY <1>7, <3>2, AfterStays
    <3> QED BY <2>1, <2>2, <3>1, <3>3 DEF ChangesAreTrue
  <2>3. CASE i \notin DOMAIN log[x]
    <3>1. x = m /\ i = L + 1 BY <1>6, <2>3
    <3>2. log'[x][i] = e /\ i - 1 = L /\ L \in 0..L BY <1>4, <1>6, <3>1
    <3>3. i - 1 \in 0..Len(log[x]) /\ born[x] # Never BY <1>1, <3>1, <3>2
    <3>4. After(x, i - 1)' = After(x, i - 1) BY <1>7, <3>3, AfterStays
    <3>5. old = After(x, i - 1)[key] BY <1>2, <3>1, <3>2 DEF Now
    <3> QED BY <1>2, <3>2, <3>4, <3>5
  <2> QED BY <2>2, <2>3
<1>9. ASSUME NEW x \in Metrics
      PROVE  /\ InOrder(x)'
             /\ \A i \in DOMAIN log'[x] :
                   /\ born'[x] # Never /\ log'[x][i].at <= clock'
                   /\ OfKey(log'[x][i].key, log'[x][i].new)
                   /\ log'[x][i].key \in Keys => log'[x][i].old # log'[x][i].new
  <2>1. Len(log[x]) \in Nat /\ clock \in Int /\ InOrder(x)
    BY <1>3, BoundsAssumption DEF LogHolds, Types, Times
  <2>2. ASSUME NEW y \in Metrics, NEW i \in DOMAIN log[y]
        PROVE  /\ born[y] # Never /\ log[y][i].at <= clock
               /\ OfKey(log[y][i].key, log[y][i].new)
               /\ log[y][i].key \in Keys => log[y][i].old # log[y][i].new
    BY DEF LogHolds
  <2>3. CASE x # m
    <3>1. log'[x] = log[x] BY <1>6, <2>3
    <3>2. InOrder(x)' BY <2>1, <3>1 DEF InOrder
    <3>3. born' = born /\ clock' = clock BY <1>1
    <3>4. ASSUME NEW i \in DOMAIN log'[x]
          PROVE  /\ born'[x] # Never /\ log'[x][i].at <= clock'
                 /\ OfKey(log'[x][i].key, log'[x][i].new)
                 /\ log'[x][i].key \in Keys => log'[x][i].old # log'[x][i].new
      <4>1. i \in DOMAIN log[x] BY <3>1
      <4>2. /\ born[x] # Never /\ log[x][i].at <= clock
            /\ OfKey(log[x][i].key, log[x][i].new)
            /\ log[x][i].key \in Keys => log[x][i].old # log[x][i].new
        BY <2>2, <4>1
      <4> QED BY <3>1, <3>3, <4>2
    <3> QED BY <3>2, <3>4
  <2>4. CASE x = m
    <3>1. \A i \in DOMAIN log'[m] : \/ i \in DOMAIN log[m] /\ log'[m][i] = log[m][i]
                                    \/ i = L + 1 /\ log'[m][i] = e
      BY <1>6
    <3>2. InOrder(m)'
      <4> SUFFICES ASSUME NEW i \in DOMAIN log'[m], NEW j \in DOMAIN log'[m], i <= j
                   PROVE  log'[m][i].at <= log'[m][j].at
        BY DEF InOrder
      <4>1. i \in 1..L + 1 /\ j \in 1..L + 1 /\ L \in Nat BY <1>4, <1>6
      <4>2. CASE j = L + 1
        <5>1. log'[m][j].at = clock BY <1>2, <1>6, <4>2
        <5>2. log'[m][i].at <= clock
          <6>1. CASE i \in DOMAIN log[m]
            <7>1. log'[m][i] = log[m][i] BY <1>6, <6>1
            <7>2. log[m][i].at <= clock BY <2>2, <6>1
            <7> QED BY <7>1, <7>2
          <6>2. CASE i \notin DOMAIN log[m]
            <7>1. log'[m][i] = e BY <3>1, <6>2
            <7> QED BY <1>2, <2>1, <7>1
          <6> QED BY <6>1, <6>2
        <5> QED BY <5>1, <5>2
      <4>3. CASE j # L + 1
        <5>1. i \in DOMAIN log[m] /\ j \in DOMAIN log[m] BY <1>6, <4>1, <4>3
        <5> QED BY <1>6, <2>1, <2>4, <5>1 DEF InOrder
      <4> QED BY <4>2, <4>3
    <3>3. \A i \in DOMAIN log'[m] :
             /\ born'[m] # Never /\ log'[m][i].at <= clock'
             /\ OfKey(log'[m][i].key, log'[m][i].new)
             /\ log'[m][i].key \in Keys => log'[m][i].old # log'[m][i].new
      <4> SUFFICES ASSUME NEW i \in DOMAIN log'[m]
                   PROVE  /\ born'[m] # Never /\ log'[m][i].at <= clock'
                          /\ OfKey(log'[m][i].key, log'[m][i].new)
                          /\ log'[m][i].key \in Keys => log'[m][i].old # log'[m][i].new
        OBVIOUS
      <4>1. CASE i \in DOMAIN log[m] /\ log'[m][i] = log[m][i]
        <5>1. /\ born[m] # Never /\ log[m][i].at <= clock
              /\ OfKey(log[m][i].key, log[m][i].new)
              /\ log[m][i].key \in Keys => log[m][i].old # log[m][i].new
          BY <2>2, <4>1
        <5> QED BY <1>1, <4>1, <5>1
      <4>2. CASE log'[m][i] = e
        BY <1>1, <1>2, <2>1, <4>2
      <4> QED BY <3>1, <4>1, <4>2
    <3> QED BY <2>4, <3>2, <3>3
  <2> QED BY <2>3, <2>4
<1>10. acts' \in 0..MaxActs BY BoundsAssumption DEF LogHolds
<1> QED BY <1>1, <1>5, <1>7, <1>8, <1>9, <1>10 DEF LogHolds, OfKey

LEMMA LogOfPeople == ASSUME Types, LogHolds, People PROVE LogHolds' /\ OnlyAdded
<1> USE ValuesAssumption
<1> DEFINE P == LogHolds' /\ OnlyAdded
<1>1. /\ acts < MaxActs /\ acts' = acts + 1 /\ clock' = clock /\ acts' \in 0..MaxActs
      /\ \A m \in Metrics : Len(log[m]) \in Nat
  BY BoundsAssumption DEF People, LogHolds
<1>2. ASSUME NEW m \in Metrics
      PROVE  /\ Now(m).target \in Targets /\ Now(m).scale \in Scales
             /\ Now(m)["target"] = Now(m).target /\ Now(m)["scale"] = Now(m).scale
  <2>1. Now(m) \in Value BY <1>1, AfterType DEF Now
  <2> QED BY <2>1 DEF Value
<1>3. ASSUME NEW m \in Metrics, NEW v \in Targets, Create(m, v) PROVE P
  <2>1. /\ born[m] = Never /\ born' = [born EXCEPT ![m] = clock]
        /\ first' = [first EXCEPT ![m].target = v] /\ log' = log
    BY <1>3 DEF Create
  <2>2. first' \in [Metrics -> Value] BY <2>1 DEF LogHolds, Value
  <2>3. OnlyAdded BY <1>1, <2>1 DEF OnlyAdded, LogHolds
  <2>4. ASSUME NEW x \in Metrics
        PROVE  /\ InOrder(x)' /\ ChangesAreTrue(x)'
               /\ \A i \in DOMAIN log[x] :
                     /\ born'[x] # Never /\ log[x][i].at <= clock
                     /\ OfKey(log[x][i].key, log[x][i].new)
                     /\ log[x][i].key \in Keys => log[x][i].old # log[x][i].new
    <3>0. InOrder(x)' BY <2>1 DEF InOrder, LogHolds
    <3>1. /\ ChangesAreTrue(x) /\ DOMAIN log[x] = 1..Len(log[x])
          /\ \A i \in DOMAIN log[x] :
                /\ born[x] # Never /\ log[x][i].at <= clock
                /\ OfKey(log[x][i].key, log[x][i].new)
                /\ log[x][i].key \in Keys => log[x][i].old # log[x][i].new
      BY <1>1 DEF LogHolds
    <3>2. \A i \in DOMAIN log[x] : born'[x] # Never BY <2>1, <3>1 DEF Types
    <3>3. ChangesAreTrue(x)'
      <4> SUFFICES ASSUME NEW i \in DOMAIN log'[x], log'[x][i].key \in Keys
                   PROVE  log'[x][i].old = After(x, i - 1)'[log'[x][i].key]
        BY Zenon DEF ChangesAreTrue
      <4>1. i - 1 \in 0..Len(log[x]) /\ born[x] # Never BY <1>1, <2>1, <3>1
      <4>2. After(x, i - 1)' = After(x, i - 1) BY <2>3, <4>1, AfterStays
      <4> QED BY <2>1, <3>1, <4>2 DEF ChangesAreTrue
    <3> QED BY <3>0, <3>1, <3>2, <3>3
  <2> QED BY <1>1, <2>1, <2>2, <2>3, <2>4 DEF LogHolds, OfKey
<1>4. ASSUME NEW m \in Metrics, Measure(m) PROVE P
  <2>1. UNCHANGED <<born, first, log>> BY <1>4 DEF Measure
  <2>2. \A x \in Metrics : ChangesAreTrue(x)' = ChangesAreTrue(x)
    BY <2>1 DEF ChangesAreTrue, After
  <2>3. OnlyAdded BY <1>1, <2>1 DEF OnlyAdded
  <2> QED BY <1>1, <2>1, <2>2, <2>3 DEF LogHolds, InOrder, OfKey
<1>5. ASSUME NEW m \in Metrics, NEW v \in Targets, ChangeTarget(m, v) PROVE P
  <2>1. Change(m, "target", Now(m).target, v) BY <1>5 DEF ChangeTarget
  <2>2. "target" \in Keys \cup {"name"} /\ OfKey("target", v) BY DEF Keys, OfKey
  <2>3. v \in Targets \cup Scales /\ Now(m).target \in Targets \cup Scales
        /\ Now(m).target # v
    BY <1>2, <1>5 DEF ChangeTarget
  <2> QED BY <1>1, <1>2, <2>1, <2>2, <2>3, ChangeAppends
<1>6. ASSUME NEW m \in Metrics, NEW v \in Scales, ChangeScale(m, v) PROVE P
  <2>1. Change(m, "scale", Now(m).scale, v) BY <1>6 DEF ChangeScale
  <2>2. "scale" \in Keys \cup {"name"} /\ OfKey("scale", v) BY DEF Keys, OfKey
  <2>3. v \in Targets \cup Scales /\ Now(m).scale \in Targets \cup Scales
        /\ Now(m).scale # v
    BY <1>2, <1>6 DEF ChangeScale
  <2> QED BY <1>1, <1>2, <2>1, <2>2, <2>3, ChangeAppends
<1>7. ASSUME NEW m \in Metrics, ChangeOther(m) PROVE P
  <2>1. Change(m, "name", 0, 0) BY <1>7 DEF ChangeOther
  <2>2. "name" \in Keys \cup {"name"} /\ "name" \notin Keys /\ OfKey("name", 0)
    BY DEF Keys, OfKey
  <2> QED BY <1>1, <2>1, <2>2, ChangeAppends
<1>8. \E m \in Metrics :
          \/ \E v \in Targets : Create(m, v) \/ ChangeTarget(m, v)
          \/ \E v \in Scales : ChangeScale(m, v)
          \/ ChangeOther(m)
          \/ Measure(m)
  BY Zenon DEF People
<1> HIDE DEF P
<1>9. P BY <1>3, <1>4, <1>5, <1>6, <1>7, <1>8, Zenon
<1> QED BY <1>9 DEF P

-----------------------------------------------------------------------------
(***************************************************************************)
(* What the rows say, and what of the changelogs is in them                *)
(***************************************************************************)
RunSpan == {<<run.version, run.at>>}

SpansHold ==
    /\ \A span \in spans : span[1] \in Times /\ span[1] <= clock
    /\ tracker # Never => \E span \in spans : span[1] = tracker

RowIsTrue(row, taken) ==
    /\ row.metric \in Metrics /\ born[row.metric] # Never
    /\ IF kind = "sonar"
       THEN \E span \in taken : span[1] = row.rev /\ InEffect(row.metric, row.value, span[1], span[2])
       ELSE \/ Returned(row.metric)
            \/ \E i \in DOMAIN log[row.metric] :
                   Sec(log[row.metric][i].at) = row.rev /\ row.value = After(row.metric, i)
TrueRows ==
    /\ \A row \in rows : RowIsTrue(row, spans)
    /\ pc = "history" => \A row \in run.rows : RowIsTrue(row, RunSpan)

\* A change that is told of, or was not to be had.
Safe(m, i, new, lost, taken) ==
    LET change == log[m][i]
    IN \/ change.key \notin Keys \/ Returned(m) \/ <<m, i>> \in lost \/ Reverted(m, i)
       \/ \E span \in taken : Sec(span[1]) = Sec(change.at) /\ span[1] <= change.at
       \/ \E span \in taken : span[1] < change.at /\ Sec(change.at + Offset) <= Sec(span[1])
       \/ \E row \in new : row.metric = m /\ row.rev = Sec(change.at)
                           /\ row.value[change.key] = change.new
NothingLost ==
    kind = "quality-time" =>
    \A m \in Metrics : \A i \in DOMAIN log[m] :
        /\ log[m][i].at > tracker \/ Safe(m, i, rows, skipped, spans)
        /\ pc = "history" =>
              \/ log[m][i].at > run.version \/ ~IsNewer(log[m][i].at, tracker)
              \/ Safe(m, i, run.rows, run.skipped, spans \cup RunSpan)

\* A step of the scripts, or of people.
Goes ==
    /\ LogHolds' /\ OnlyAdded /\ kind' = kind
    /\ \A m \in Metrics : born[m] # Never => born'[m] # Never

\* A change in the changelog is in it after any step.
LEMMA ChangeStays ==
  ASSUME LogHolds, Goes, NEW m \in Metrics, NEW i \in DOMAIN log[m]
  PROVE  /\ i \in DOMAIN log'[m] /\ log'[m][i] = log[m][i]
         /\ i \in 0..Len(log[m]) /\ born[m] # Never
<1>1. /\ log[m] \in Seq(ChangeEntry) /\ log'[m] \in Seq(ChangeEntry)
      /\ Len(log[m]) <= Len(log'[m]) /\ born[m] # Never
      /\ \A j \in 1..Len(log[m]) : log'[m][j] = log[m][j]
  BY DEF LogHolds, OnlyAdded, Goes
<1> HIDE DEF ChangeEntry
<1> QED BY <1>1

LEMMA ReturnedStays ==
  ASSUME LogHolds, Goes, NEW m \in Metrics, Returned(m) PROVE Returned(m)'
  BY ChangeStays DEF Returned

LEMMA RevertedStays ==
  ASSUME LogHolds, Goes, NEW m \in Metrics, NEW i \in DOMAIN log[m], Reverted(m, i)
  PROVE  Reverted(m, i)'
<1>1. PICK j \in 1..i :
        /\ After(m, j) = After(m, i) /\ Sec(log[m][j].at) < Sec(log[m][i].at)
        /\ \A k \in j..i : log[m][k].key \in Keys =>
               Sec(log[m][k].at) \in {Sec(log[m][j].at), Sec(log[m][i].at)}
  BY DEF Reverted
<1>2. /\ i \in 1..Len(log[m]) /\ Len(log[m]) \in Nat /\ born[m] # Never
      /\ DOMAIN log[m] = 1..Len(log[m])
  BY ChangeStays DEF LogHolds
<1>3. j..i \subseteq DOMAIN log[m] /\ j \in j..i /\ i \in j..i BY <1>2
<1>4. \A k \in j..i : log'[m][k] = log[m][k] BY <1>3, ChangeStays
<1>5. After(m, j)' = After(m, j) /\ After(m, i)' = After(m, i)
  BY <1>2, <1>3, ChangeStays, AfterStays DEF Goes
<1> QED BY <1>1, <1>3, <1>4, <1>5 DEF Reverted, Sec

\* What was in effect when it was read, was in effect then ever after.
LEMMA InEffectStays ==
  ASSUME Types, LogHolds, Goes, NEW m \in Metrics, born[m] # Never, NEW value,
         NEW from \in Int, from <= clock, NEW to, InEffect(m, value, from, to)
  PROVE  InEffect(m, value, from, to)'
<1>1. PICK i \in 0..Len(log[m]) :
        /\ value = After(m, i)
        /\ i = 0 \/ log[m][i].at <= to
        /\ i = Len(log[m]) \/ log[m][i + 1].at >= from
  BY DEF InEffect
<1>2. /\ log[m] \in Seq(ChangeEntry) /\ log'[m] \in Seq(ChangeEntry)
      /\ Len(log[m]) <= Len(log'[m])
      /\ \A j \in 1..Len(log[m]) : log'[m][j] = log[m][j]
      /\ \A j \in Len(log[m]) + 1..Len(log'[m]) : log'[m][j].at = clock
  BY DEF LogHolds, OnlyAdded, Goes
<1>3. Len(log[m]) \in Nat /\ Len(log'[m]) \in Nat /\ i \in 0..Len(log'[m]) BY <1>1, <1>2
<1>4. After(m, i)' = value BY <1>1, AfterStays DEF Goes
<1>5. i = 0 \/ log'[m][i].at <= to BY <1>1, <1>2, <1>3
<1>6. i = Len(log'[m]) \/ log'[m][i + 1].at >= from
  <2>1. CASE i # Len(log[m])
    <3>1. i + 1 \in 1..Len(log[m]) BY <1>3, <2>1
    <3> QED BY <1>1, <1>2, <2>1, <3>1
  <2>2. CASE i = Len(log[m]) /\ i # Len(log'[m])
    <3>1. i + 1 \in Len(log[m]) + 1..Len(log'[m]) BY <1>2, <1>3, <2>2
    <3>2. clock \in Int BY BoundsAssumption DEF Types, Times
    <3> QED BY <1>2, <3>1, <3>2
  <2> QED BY <2>1, <2>2
<1> QED BY <1>3, <1>4, <1>5, <1>6 DEF InEffect

LEMMA RowStays ==
  ASSUME Types, LogHolds, Goes, NEW row, NEW taken,
         \A span \in taken : span[1] \in Int /\ span[1] <= clock, RowIsTrue(row, taken)
  PROVE  RowIsTrue(row, taken)'
<1> DEFINE m == row.metric
<1>1. m \in Metrics /\ born[m] # Never /\ kind' = kind /\ born'[m] # Never
  BY DEF RowIsTrue, Goes
<1>2. CASE kind = "sonar"
  <2>1. PICK span \in taken : span[1] = row.rev /\ InEffect(m, row.value, span[1], span[2])
    BY <1>2 DEF RowIsTrue
  <2> HIDE DEF m
  <2>2. InEffect(m, row.value, span[1], span[2])' BY <1>1, <2>1, InEffectStays
  <2> QED BY <1>1, <1>2, <2>1, <2>2 DEF RowIsTrue, m
<1>3. CASE kind # "sonar" /\ Returned(m)
  <2>1. Returned(m)' BY <1>1, <1>3, ReturnedStays
  <2> QED BY <1>1, <1>3, <2>1 DEF RowIsTrue
<1>4. ASSUME NEW i \in DOMAIN log[m], Sec(log[m][i].at) = row.rev, row.value = After(m, i),
             kind # "sonar"
      PROVE  RowIsTrue(row, taken)'
  <2>1. After(m, i)' = After(m, i) BY <1>1, <1>4, ChangeStays, AfterStays DEF Goes
  <2>2. i \in DOMAIN log'[m] /\ log'[m][i] = log[m][i] BY <1>1, ChangeStays
  <2> QED BY <1>1, <1>4, <2>1, <2>2 DEF RowIsTrue, Sec
<1> QED BY <1>2, <1>3, <1>4 DEF RowIsTrue

LEMMA SafeStays ==
  ASSUME LogHolds, Goes, NEW m \in Metrics, NEW i \in DOMAIN log[m],
         NEW new, NEW lost, NEW taken, Safe(m, i, new, lost, taken)
  PROVE  Safe(m, i, new, lost, taken)'
<1>1. log'[m][i] = log[m][i] BY ChangeStays
<1>2. Returned(m) => Returned(m)' BY ReturnedStays
<1>3. Reverted(m, i) => Reverted(m, i)' BY RevertedStays
<1> QED BY <1>1, <1>2, <1>3 DEF Safe, Sec

LEMMA SafeGrows ==
  ASSUME NEW m, NEW i, NEW R, NEW K, NEW T, NEW R2, NEW K2, NEW T2,
         R \subseteq R2, K \subseteq K2, T \subseteq T2, Safe(m, i, R, K, T)
  PROVE  Safe(m, i, R2, K2, T2)
  BY DEF Safe

-----------------------------------------------------------------------------
(***************************************************************************)
(* What is read                                                            *)
(***************************************************************************)
\* Quality-time is asked for the time of now: all changes are until then.
LEMMA AllUntilNow ==
  ASSUME Types, LogHolds, NEW m \in Metrics
  PROVE  /\ Len(log[m]) \in Nat /\ Until(m, clock) = 1..Len(log[m])
         /\ DOMAIN log[m] = 1..Len(log[m]) /\ Count(m, clock) = Len(log[m])
<1>1. /\ Len(log[m]) \in Nat /\ DOMAIN log[m] = 1..Len(log[m])
      /\ \A i \in DOMAIN log[m] : log[m][i].at <= clock
  BY DEF LogHolds
<1>2. Until(m, clock) = 1..Len(log[m]) BY <1>1 DEF Until
<1>3. Cardinality(1..Len(log[m])) = Len(log[m])
  <2> DEFINE n == Len(log[m])
  <2> HIDE DEF n
  <2>1. n \in Nat BY <1>1 DEF n
  <2>2. Cardinality(1..n) = n BY <2>1, FS_Interval
  <2> QED BY <2>2 DEF n
<1> QED BY <1>1, <1>2, <1>3 DEF Count

\* What the changes of the answer are.
LEMMA FoundIsChange ==
  ASSUME Types, LogHolds, NEW version, NEW x \in TargetChanges(version, tracker)
  PROVE  /\ x = <<x[1], x[2]>> /\ x[1] \in Metrics /\ born[x[1]] # Never
         /\ x[2] \in DOMAIN log[x[1]] /\ log[x[1]][x[2]].at \in Times
         /\ log[x[1]][x[2]].at <= version /\ IsNewer(log[x[1]][x[2]].at, tracker)
<1>1. /\ x \in UNION {{m} \X Until(m, version) : m \in Metrics} /\ x[1] \in Existing(version)
      /\ IsNewer(log[x[1]][x[2]].at, tracker)
  BY DEF TargetChanges, Changes
<1>2. PICK m \in Metrics : x \in {m} \X Until(m, version) BY <1>1
<1>3. x = <<x[1], x[2]>> /\ x[1] = m /\ x[2] \in Until(m, version) BY <1>2
<1>4. log[m] \in Seq(ChangeEntry) /\ x[2] \in DOMAIN log[m] /\ log[m][x[2]].at <= version
  BY <1>3 DEF LogHolds, Until
<1>5. log[m][x[2]] \in ChangeEntry
  <2> HIDE DEF ChangeEntry
  <2> QED BY <1>4
<1> QED BY <1>1, <1>3, <1>4, <1>5 DEF ChangeEntry, Existing

LEMMA FoundNow ==
  ASSUME Types, LogHolds, NEW m \in Metrics, NEW i \in DOMAIN log[m]
  PROVE  <<m, i>> \in TargetChanges(clock, tracker) <=>
            /\ IsNewer(log[m][i].at, tracker) /\ i \in Changelog(m, clock)
            /\ log[m][i].key \in TargetKeys(m, Count(m, clock))
<1>1. i \in Until(m, clock) /\ born[m] # Never /\ born[m] <= clock
  BY AllUntilNow DEF LogHolds, Types
<1>2. <<m, i>> \in UNION {{x} \X Until(x, clock) : x \in Metrics} BY <1>1
<1>3. m \in Existing(clock) BY <1>1 DEF Existing
<1> DEFINE x == <<m, i>>
<1>4. x[1] = m /\ x[2] = i OBVIOUS
<1>5. x \in Changes(clock, tracker) <=> IsNewer(log[m][i].at, tracker)
  BY <1>2, <1>4 DEF Changes
<1> QED BY <1>3, <1>4, <1>5 DEF TargetChanges

LEMMA AnswerIsTrue ==
  ASSUME Types, LogHolds, kind = "quality-time", NEW order \in Orders,
         NEW row \in QualityTimeRows(clock, tracker, order), NEW taken
  PROVE  RowIsTrue(row, taken)
<1>1. PICK x \in TargetChanges(clock, tracker) : row = RowOf(x, clock)
  BY DEF QualityTimeRows
<1>2. PICK m \in Metrics : \E j \in DOMAIN log[m] : x = <<m, j>> /\ born[m] # Never
  BY <1>1, FoundIsChange
<1>6. PICK i \in DOMAIN log[m] : x = <<m, i>> /\ born[m] # Never
  BY <1>2
<1> DEFINE n == Count(m, clock)
           keys == TargetKeys(m, n)
<1>3. n \in Nat /\ 1..n = DOMAIN log[m] /\ i \in 1..n /\ log[m][i].key \in keys
  BY <1>1, <1>6, AllUntilNow, FoundNow
<1>4. row.metric = m /\ row.rev = Sec(log[m][i].at) /\ row.value = Undo(m, n, keys)[i]
  BY <1>1, <1>6 DEF RowOf
<1>5. ~Returned(m) => row.value = After(m, i)
  <2>1. ChangesAreTrue(m) BY DEF LogHolds
  <2> HIDE DEF n
  <2> QED BY <1>3, <1>4, <2>1, UndoIsTrue
<1> HIDE DEF n, keys
<1> QED BY <1>3, <1>4, <1>5, <1>6 DEF RowIsTrue

\* Without a change of the key between, its value stays.
LEMMA ValueUntil ==
  ASSUME NEW m, NEW i \in Nat, NEW j \in Nat, i <= j, NEW key \in Keys,
         \A k \in i + 1..j : log[m][k].key # key
  PROVE  After(m, j)[key] = After(m, i)[key]
<1>1. Where(log[m], j, key) = Where(log[m], i, key) BY DEF Where
<1> QED BY <1>1, AfterIsValue DEF ValueOf

\* A change that is left out since its row is like the one before it brings
\* back the values of an earlier second.
LEMMA RepeatsReverts ==
  ASSUME Types, LogHolds, NEW order \in Orders, NEW m \in Metrics, NEW i \in DOMAIN log[m],
         ~Returned(m), <<m, i>> \in TargetChanges(clock, tracker),
         Repeats(<<m, i>>, TargetChanges(clock, tracker), clock, order)
  PROVE  Reverted(m, i)
<1> DEFINE found == TargetChanges(clock, tracker)
           n == Count(m, clock)
           keys == TargetKeys(m, n)
           S(k) == Sec(log[m][k].at)
<1>1. /\ n \in Nat /\ n = Len(log[m]) /\ 1..n = DOMAIN log[m] /\ i \in 1..n
      /\ ChangesAreTrue(m) /\ InOrder(m)
  BY AllUntilNow DEF LogHolds
<1>2. \A k \in 1..n : log[m][k].at \in Int /\ S(k) \in Int /\ Sec(tracker) \in Int
  <2>1. log[m] \in Seq(ChangeEntry) BY DEF LogHolds
  <2>2. \A k \in 1..n : log[m][k] \in ChangeEntry
    <3> HIDE DEF ChangeEntry, n
    <3> QED BY <1>1, <2>1
  <2>3. \A k \in 1..n : log[m][k].at \in Int
    BY <2>2, BoundsAssumption DEF ChangeEntry, Times
  <2>4. tracker \in Int BY BoundsAssumption DEF Types, Optional, Times, Never
  <2> HIDE DEF n
  <2> QED BY <2>3, <2>4, Seconds
<1>3. \A k, l \in 1..n : k <= l => S(k) <= S(l)
  <2> HIDE DEF n
  <2> QED BY <1>1, <1>2, Seconds DEF InOrder
<1>4. order[m] \in Int
  <2>1. order \in [Metrics -> 1..Cardinality(Metrics)] BY DEF Orders, Injection
  <2> QED BY <2>1
<1>5. PICK x \in found : /\ Follows(<<m, i>>, x, found, order) /\ x[1] = m
                         /\ RowOf(x, clock).value = RowOf(<<m, i>>, clock).value
  BY DEF Repeats
<1>6. PICK j \in 1..n : x = <<m, j>>
  BY <1>1, <1>5, FoundIsChange
<1>7. \A k \in 1..n : <<m, k>> \in found <=>
         IsNewer(log[m][k].at, tracker) /\ k > n - Depth /\ log[m][k].key \in keys
  <2>1. Changelog(m, clock) = {k \in 1..n : k > n - Depth} BY <1>1, AllUntilNow DEF Changelog
  <2> HIDE DEF n
  <2> QED BY <1>1, <2>1, FoundNow DEF n
<1>8. /\ log[m][i].key \in keys /\ log[m][j].key \in keys /\ keys \subseteq Keys
      /\ Sec(tracker) < S(i) /\ Sec(tracker) < S(j) /\ i > n - Depth /\ j > n - Depth
  <2>1. \A k \in 1..n : <<m, k>> \in found =>
           log[m][k].key \in keys /\ Sec(tracker) < S(k) /\ k > n - Depth
    <3> HIDE DEF n, found, keys
    <3> QED BY <1>2, <1>7 DEF IsNewer
  <2>2. keys \subseteq Keys BY DEF TargetKeys, Keys
  <2> HIDE DEF n, keys, S, found
  <2> QED BY <1>1, <1>5, <1>6, <2>1, <2>2 DEF found
<1>9. After(m, j) = After(m, i)
  <2>1. Undo(m, n, keys)[j] = Undo(m, n, keys)[i] BY <1>5, <1>6 DEF RowOf
  <2> HIDE DEF n
  <2> QED BY <1>1, <1>8, <2>1, UndoIsTrue
<1>10. S(j) < S(i) \/ (S(j) = S(i) /\ j > i)
  BY <1>2, <1>4, <1>5, <1>6 DEF Follows, ComesBefore
<1>11. ASSUME NEW k \in 1..n, log[m][k].key \in keys, Sec(tracker) < S(k), k > n - Depth
       PROVE  /\ ~(S(j) < S(k) /\ S(k) < S(i))
              /\ ~(S(j) = S(k) /\ S(k) = S(i) /\ i < k /\ k < j)
  <2>1. <<m, k>> \in found BY <1>2, <1>7, <1>11 DEF IsNewer
  <2>2. ~(ComesBefore(<<m, j>>, <<m, k>>, order) /\ ComesBefore(<<m, k>>, <<m, i>>, order))
    BY <1>5, <1>6, <2>1 DEF Follows
  <2> QED BY <2>2 DEF ComesBefore
<1>12. S(j) < S(i)
  <2> SUFFICES ASSUME S(j) = S(i), j > i PROVE FALSE BY <1>10
  <2> DEFINE key == log[m][j].key
  <2>1. ASSUME NEW k \in i + 1..j - 1 PROVE log[m][k].key # key
    <3>1. k \in 1..n /\ i < k /\ k < j /\ k > n - Depth
      BY <1>1, <1>6, <1>8, <2>1, NumbersAssumption
    <3> HIDE DEF S, n, keys
    <3>2. S(i) <= S(k) /\ S(k) <= S(j) BY <1>1, <1>3, <1>6, <3>1
    <3>3. S(k) = S(i) /\ S(k) = S(j) BY <1>1, <1>2, <1>6, <3>1, <3>2
    <3> QED BY <1>8, <1>11, <3>1, <3>3
  <2>2. key \in Keys /\ j - 1 \in Nat /\ i \in Nat /\ i <= j - 1 BY <1>1, <1>6, <1>8
  <2>3. After(m, j - 1)[key] = After(m, i)[key]
    <3> HIDE DEF key
    <3> QED BY <2>1, <2>2, ValueUntil
  <2>4. After(m, j)[key] = log[m][j].new BY <1>6, <2>2, AfterStep
  <2>5. log[m][j].old = After(m, j - 1)[key] /\ log[m][j].old # log[m][j].new
    BY <1>1, <1>6, <2>2 DEF ChangesAreTrue, LogHolds
  <2> QED BY <1>9, <2>3, <2>4, <2>5
<1>13. j \in 1..i
  <2> SUFFICES ASSUME j > i PROVE FALSE BY <1>1, <1>6
  <2> QED BY <1>1, <1>2, <1>3, <1>6, <1>12
<1>14. ASSUME NEW k \in j..i, log[m][k].key \in Keys PROVE S(k) \in {S(j), S(i)}
  <2>1. k \in 1..n /\ k > n - Depth /\ S(j) <= S(k) /\ S(k) <= S(i)
    BY <1>1, <1>3, <1>6, <1>8, <1>13, NumbersAssumption
  <2>2. log[m][k].key \in keys
    <3> SUFFICES ASSUME After(m, n).target = 0 PROVE log[m][k].key # "target"
      BY <1>14 DEF TargetKeys, Keys
    <3> HIDE DEF n
    <3> QED BY <1>1, <2>1, DefaultMeansUnchanged
  <2>3. Sec(tracker) < S(k) BY <1>2, <1>6, <1>8, <2>1
  <2>4. ~(S(j) < S(k) /\ S(k) < S(i))
    <3> HIDE DEF S, n, keys
    <3> QED BY <1>11, <2>1, <2>2, <2>3
  <2>5. S(i) \in Int /\ S(j) \in Int /\ S(k) \in Int BY <1>1, <1>2, <1>6, <2>1
  <2> HIDE DEF S
  <2> QED BY <2>1, <2>4, <2>5
<1> QED BY <1>9, <1>12, <1>13, <1>14 DEF Reverted

LEMMA AnswerIsComplete ==
  ASSUME Types, LogHolds, SpansHold, NEW m \in Metrics, NEW i \in DOMAIN log[m],
         IsNewer(log[m][i].at, tracker), NEW order \in Orders
  PROVE  Safe(m, i, QualityTimeRows(clock, tracker, order), TooOld(clock, tracker), spans)
<1> DEFINE n == Count(m, clock)
           keys == TargetKeys(m, n)
           at == log[m][i].at
           key == log[m][i].key
           found == TargetChanges(clock, tracker)
<1> SUFFICES ASSUME key \in Keys, ~Returned(m), <<m, i>> \notin TooOld(clock, tracker),
                    ~Reverted(m, i),
                    ~\E span \in spans : span[1] < at /\ Sec(at + Offset) <= Sec(span[1])
             PROVE  \E row \in QualityTimeRows(clock, tracker, order) :
                       row.metric = m /\ row.rev = Sec(at) /\ row.value[key] = log[m][i].new
  BY DEF Safe
<1>1. /\ n = Len(log[m]) /\ n \in Nat /\ i \in 1..n /\ i \in Until(m, clock)
      /\ 1..n = DOMAIN log[m] /\ born[m] # Never /\ at \in Times
      /\ ChangesAreTrue(m)
  <2>2. log[m] \in Seq(ChangeEntry) /\ born[m] # Never /\ ChangesAreTrue(m) BY DEF LogHolds
  <2>3. log[m][i] \in ChangeEntry
    <3> HIDE DEF ChangeEntry
    <3> QED BY <2>2
  <2>4. at \in Times BY <2>3 DEF ChangeEntry
  <2> QED BY <2>2, <2>4, AllUntilNow
<1>2. i \in Changelog(m, clock)
  <2>1. <<m, i>> \in UNION {{x} \X Until(x, clock) : x \in Metrics} BY <1>1
  <2>2. <<m, i>> \in Changes(clock, tracker) BY <2>1 DEF Changes
  <2> QED BY <2>2 DEF TooOld
<1>3. ReportIsNew(clock, tracker)
  <2> SUFFICES ASSUME tracker # Never PROVE ReportIsNew(clock, tracker) BY DEF ReportIsNew
  <2>1. at + Offset \in ReportDate(clock)
    <3> DEFINE changed == UNION {{log[x][j].at : j \in Until(x, clock)} : x \in Metrics}
    <3>1. at \in {log[m][j].at : j \in Until(m, clock)} BY <1>1
    <3>2. at \in changed BY <3>1
    <3> QED BY <3>2 DEF ReportDate
  <2>2. PICK span \in spans : span[1] = tracker BY DEF SpansHold
  <2>3. /\ at \in Int /\ at + Offset \in Int /\ tracker \in Int
        /\ Sec(at) \in Int /\ Sec(at + Offset) \in Int /\ Sec(tracker) \in Int
    <3>1. at \in Int /\ at + Offset \in Int /\ tracker \in Int
      BY <1>1, NumbersAssumption, BoundsAssumption DEF Types, Optional, Times, Never
    <3> HIDE DEF at
    <3> QED BY <3>1, Seconds
  <2>4. tracker < at
    <3> HIDE DEF at
    <3> QED BY <2>3, Seconds DEF IsNewer, at
  <2>5. ~(Sec(at + Offset) <= Sec(tracker)) BY <2>2, <2>4
  <2> HIDE DEF at
  <2> QED BY <2>1, <2>3, <2>5 DEF ReportIsNew
<1>4. key \in keys
  <2> SUFFICES ASSUME After(m, n).target = 0 PROVE key # "target"
    BY DEF TargetKeys, Keys
  <2> HIDE DEF n
  <2> QED BY <1>1, DefaultMeansUnchanged
<1>5. <<m, i>> \in found BY <1>2, <1>4, FoundNow
<1>6. ~Repeats(<<m, i>>, found, clock, order) BY <1>5, RepeatsReverts
<1> DEFINE row == RowOf(<<m, i>>, clock)
<1>7. row \in QualityTimeRows(clock, tracker, order)
  <2> HIDE DEF row, found
  <2> QED BY <1>3, <1>5, <1>6 DEF QualityTimeRows, row, found
<1>8. row.metric = m /\ row.rev = Sec(at) /\ row.value = Undo(m, n, keys)[i]
  BY DEF RowOf
<1>9. Undo(m, n, keys)[i] = After(m, i) BY <1>1, <1>4, UndoIsTrue
<1>10. After(m, i)[key] = log[m][i].new BY <1>1, AfterStep
<1> HIDE DEF row
<1> QED BY <1>7, <1>8, <1>9, <1>10

\* SonarQube is asked for its targets of now.
LEMMA SnapshotIsTrue ==
  ASSUME Types, LogHolds, kind = "sonar", NEW version, NEW row \in SonarRows(version)
  PROVE  RowIsTrue(row, {<<version, clock>>})
<1>1. PICK m \in Existing(clock) : row = [metric |-> m, rev |-> version, value |-> QualityGate(m)]
  BY DEF SonarRows
<1>2. m \in Metrics /\ born[m] # Never BY DEF Existing
<1>3. row.metric = m /\ row.rev = version /\ row.value = After(m, Len(log[m]))
  BY <1>1 DEF QualityGate, Now
<1>4. InEffect(m, row.value, version, clock)
  <2>1. Len(log[m]) \in 0..Len(log[m]) /\ (Len(log[m]) = 0 \/ log[m][Len(log[m])].at <= clock)
    BY <1>2, AllUntilNow DEF LogHolds
  <2> QED BY <1>3, <2>1 DEF InEffect
<1> QED BY <1>2, <1>3, <1>4 DEF RowIsTrue

LEMMA ReadsInTime == ASSUME Types, NEW version \in Times, Reads(version)
                     PROVE  /\ pc \in {"idle", "options"} /\ version > tracker
                            /\ version <= clock
  BY BoundsAssumption DEF Types, Reads, MayBegin, Times, Optional, Never

-----------------------------------------------------------------------------
(***************************************************************************)
(* Every step keeps the rows true and the changes in them                  *)
(***************************************************************************)
TablesHold == SpansHold /\ TrueRows /\ NothingLost

LEMMA SiteStays ==
  ASSUME Types, LogHolds, UNCHANGED <<site, acts, kind>>, clock' \in Int, clock <= clock'
  PROVE  Goes
<1>1. UNCHANGED <<born, first, log, acts, kind>> BY DEF site
<1>2. \A m \in Metrics : ChangesAreTrue(m)' = ChangesAreTrue(m)
  BY <1>1 DEF ChangesAreTrue, After
<1>3. ASSUME NEW m \in Metrics, NEW i \in DOMAIN log[m] PROVE log[m][i].at <= clock'
  <2>1. log[m] \in Seq(ChangeEntry) /\ log[m][i].at <= clock BY DEF LogHolds
  <2>2. log[m][i] \in ChangeEntry
    <3> HIDE DEF ChangeEntry
    <3> QED BY <2>1
  <2>3. log[m][i].at \in Int /\ clock \in Int
    BY <2>2, BoundsAssumption DEF ChangeEntry, Types, Times
  <2> QED BY <2>1, <2>3
<1>4. LogHolds' BY <1>1, <1>2, <1>3 DEF LogHolds, InOrder, OfKey, ChangeEntry, Value, Times
<1>5. OnlyAdded
  <2>1. \A m \in Metrics : Len(log[m]) \in Nat BY DEF LogHolds
  <2> QED BY <1>1, <2>1 DEF OnlyAdded
<1> QED BY <1>1, <1>4, <1>5 DEF Goes

LEMMA SpansAreTimes ==
  ASSUME Types, SpansHold
  PROVE  /\ \A span \in spans : span[1] \in Int /\ span[1] <= clock
         /\ pc \in {"options", "history"} =>
               \A span \in RunSpan : span[1] \in Int /\ span[1] <= clock /\ span[1] = run.version
  BY BoundsAssumption DEF Types, SpansHold, RunSpan, Times

\* Tables and the run stay as they are, whatever people do.
LEMMA TablesStay ==
  ASSUME Types, LogHolds, TablesHold, Goes, clock' \in Int, clock <= clock',
         UNCHANGED <<tracker, rows, spans, skipped>>,
         pc' = "history" => pc = "history" /\ UNCHANGED run
  PROVE  TablesHold'
<1> USE DEF TablesHold
<1>0. clock \in Nat /\ clock \in Int /\ clock # Never BY BoundsAssumption DEF Types, Times, Never
<1>1. SpansHold'
  <2>1. \A span \in spans : span[1] <= clock' BY <1>0, SpansAreTimes
  <2> QED BY <2>1 DEF SpansHold, Times
<1>2. TrueRows'
  <2>1. ASSUME NEW row \in rows PROVE RowIsTrue(row, spans)'
    <3>1. PICK S : S = spans OBVIOUS
    <3>2. RowIsTrue(row, S) BY <3>1 DEF TrueRows
    <3>3. \A span \in S : span[1] \in Int /\ span[1] <= clock BY <3>1, SpansAreTimes
    <3>4. RowIsTrue(row, S)' BY <3>2, <3>3, RowStays
    <3> QED BY <3>1, <3>4 DEF RowIsTrue
  <2>2. ASSUME pc' = "history", NEW row \in run.rows PROVE RowIsTrue(row, RunSpan)'
    <3>1. PICK S : S = RunSpan OBVIOUS
    <3>2. RowIsTrue(row, S) BY <2>2, <3>1 DEF TrueRows
    <3>3. \A span \in S : span[1] \in Int /\ span[1] <= clock BY <2>2, <3>1, SpansAreTimes
    <3>4. RowIsTrue(row, S)' BY <3>2, <3>3, RowStays
    <3>5. RunSpan' = S BY <2>2, <3>1 DEF RunSpan
    <3> QED BY <3>4, <3>5 DEF RowIsTrue
  <2> QED BY <2>1, <2>2 DEF TrueRows
<1>3. NothingLost'
  <2> SUFFICES ASSUME kind = "quality-time", NEW m \in Metrics, NEW i \in DOMAIN log'[m]
               PROVE  /\ log'[m][i].at > tracker \/ Safe(m, i, rows, skipped, spans)'
                      /\ pc' = "history" =>
                            \/ log'[m][i].at > run.version \/ ~IsNewer(log'[m][i].at, tracker)
                            \/ Safe(m, i, run.rows, run.skipped, spans \cup RunSpan)'
    BY DEF NothingLost, IsNewer, Sec, Goes
  <2>1. CASE i \in DOMAIN log[m]
    <3>1. log'[m][i] = log[m][i] BY <2>1, ChangeStays
    <3>2. Safe(m, i, rows, skipped, spans) => Safe(m, i, rows, skipped, spans)'
      <4>1. PICK R, K, S : R = rows /\ K = skipped /\ S = spans OBVIOUS
      <4>2. Safe(m, i, R, K, S) => Safe(m, i, R, K, S)' BY <2>1, SafeStays
      <4> QED BY <4>1, <4>2 DEF Safe
    <3>3. pc' = "history" /\ Safe(m, i, run.rows, run.skipped, spans \cup RunSpan)
            => Safe(m, i, run.rows, run.skipped, spans \cup RunSpan)'
      <4>1. PICK R, K, S : R = run.rows /\ K = run.skipped /\ S = spans \cup RunSpan OBVIOUS
      <4>2. Safe(m, i, R, K, S) => Safe(m, i, R, K, S)' BY <2>1, SafeStays
      <4>3. pc' = "history" => R = run'.rows /\ K = run'.skipped /\ S = spans' \cup RunSpan'
        BY <4>1 DEF RunSpan
      <4> QED BY <4>1, <4>2, <4>3 DEF Safe
    <3> QED BY <2>1, <3>1, <3>2, <3>3 DEF NothingLost
  <2>2. CASE i \notin DOMAIN log[m]
    <3>1. log'[m][i].at = clock
      <4>1. /\ log[m] \in Seq(ChangeEntry) /\ log'[m] \in Seq(ChangeEntry)
            /\ \A j \in Len(log[m]) + 1..Len(log'[m]) : log'[m][j].at = clock
        BY DEF LogHolds, OnlyAdded, Goes
      <4>2. i \in Len(log[m]) + 1..Len(log'[m])
        <5> HIDE DEF ChangeEntry
        <5> QED BY <2>2, <4>1
      <4> QED BY <4>1, <4>2
    <3>2. clock > tracker \/ Safe(m, i, rows, skipped, spans)'
      <4>1. CASE tracker = clock
        <5>1. PICK span \in spans : span[1] = tracker BY <1>0, <4>1 DEF SpansHold
        <5>2. Sec(span[1]) = Sec(clock) /\ span[1] <= clock BY <1>0, <4>1, <5>1
        <5> QED BY <3>1, <5>1, <5>2 DEF Safe, Sec
      <4>2. CASE tracker # clock
        BY <1>0, <4>2, BoundsAssumption DEF Types, Optional, Times, Never
      <4> QED BY <4>1, <4>2
    <3>3. pc' = "history" => clock > run.version \/ Safe(m, i, run.rows, run.skipped, spans \cup RunSpan)'
      <4> SUFFICES ASSUME pc' = "history", ~(clock > run.version)
                   PROVE  Safe(m, i, run.rows, run.skipped, spans \cup RunSpan)'
        OBVIOUS
      <4>1. run.version = clock BY <1>0, BoundsAssumption DEF Types, Times
      <4>2. \E span \in RunSpan' : span[1] = clock BY <4>1 DEF RunSpan
      <4> QED BY <1>0, <3>1, <4>2 DEF Safe, Sec
    <3> QED BY <3>1, <3>2, <3>3
  <2> QED BY <2>1, <2>2
<1> QED BY <1>1, <1>2, <1>3

\* What the script of the options read is true and complete.
LEMMA FinishTells ==
  ASSUME Types, LogHolds, TablesHold, NEW version \in Times, Reads(version),
         NEW listed \in BOOLEAN, NEW order, NEW new, NEW old, NEW at,
         \/ /\ order \in Orders /\ new = TargetRows(version, tracker, order)
            /\ old = TooOld(version, tracker) /\ at = clock
         \/ new = {} /\ old = Changes(version, tracker),
         Finish(version, listed, new, old, at)
  PROVE  LogHolds' /\ TablesHold'
<1> USE DEF TablesHold
<1>1. /\ UNCHANGED <<kind, clock, site, born, log, acts, tracker, rows, spans, skipped>>
      /\ pc' = "history" /\ run'.version = version /\ run'.at = at
      /\ run'.rows = new /\ run'.skipped = old
  BY DEF Finish, site, saved, ghost
<1>2. Goes BY <1>1, SiteStays, BoundsAssumption DEF Types, Times
<1>3. kind = "sonar" \/ (kind = "quality-time" /\ version = clock)
  BY KindsAssumption DEF Types, Reads
<1>4. RunSpan' = {<<version, at>>} BY <1>1 DEF RunSpan
<1>5. SpansHold' BY <1>1 DEF SpansHold, Times
<1>6. TrueRows'
  <2>1. ASSUME NEW row \in new PROVE RowIsTrue(row, {<<version, at>>})
    <3>1. CASE kind = "sonar" BY <2>1, <3>1, SnapshotIsTrue DEF TargetRows
    <3>2. CASE kind = "quality-time" BY <1>3, <2>1, <3>2, AnswerIsTrue DEF TargetRows
    <3> QED BY <1>3, <3>1, <3>2
  <2>2. version \in Int /\ version <= clock BY ReadsInTime, BoundsAssumption DEF Times
  <2>3. ASSUME NEW row \in new PROVE RowIsTrue(row, RunSpan)'
    <3>1. RowIsTrue(row, {<<version, at>>})' BY <1>2, <2>1, <2>2, RowStays
    <3> QED BY <1>4, <3>1 DEF RowIsTrue
  <2>4. ASSUME NEW row \in rows PROVE RowIsTrue(row, spans)'
    <3>1. PICK S : S = spans OBVIOUS
    <3>2. RowIsTrue(row, S)' BY <1>2, <3>1, SpansAreTimes, RowStays DEF TrueRows
    <3> QED BY <1>1, <3>1, <3>2 DEF RowIsTrue
  <2> QED BY <1>1, <2>3, <2>4 DEF TrueRows
<1>7. NothingLost'
  <2> SUFFICES ASSUME kind = "quality-time", NEW m \in Metrics, NEW i \in DOMAIN log[m]
               PROVE  /\ log[m][i].at > tracker \/ Safe(m, i, rows, skipped, spans)'
                      /\ ~IsNewer(log[m][i].at, tracker)
                            \/ Safe(m, i, run.rows, run.skipped, spans \cup RunSpan)'
    BY <1>1 DEF NothingLost, IsNewer, Sec
  <2>1. Safe(m, i, rows, skipped, spans) => Safe(m, i, rows, skipped, spans)'
    <3>1. PICK R, K, S : R = rows /\ K = skipped /\ S = spans OBVIOUS
    <3>2. Safe(m, i, R, K, S) => Safe(m, i, R, K, S)' BY <1>2, SafeStays
    <3> QED BY <1>1, <3>1, <3>2 DEF Safe
  <2>2. ASSUME IsNewer(log[m][i].at, tracker) PROVE Safe(m, i, new, old, spans \cup {<<version, at>>})
    <3>1. CASE order \in Orders /\ new = TargetRows(version, tracker, order)
               /\ old = TooOld(version, tracker)
      <4>1. Safe(m, i, new, old, spans) BY <1>3, <2>2, <3>1, AnswerIsComplete DEF TargetRows
      <4> QED BY <4>1, SafeGrows
    <3>2. CASE old = Changes(version, tracker)
      <4>1. i \in Until(m, clock) BY AllUntilNow
      <4>2. <<m, i>> \in UNION {{x} \X Until(x, clock) : x \in Metrics} BY <4>1
      <4>3. <<m, i>> \in old BY <1>3, <2>2, <3>2, <4>2 DEF Changes
      <4> QED BY <4>3 DEF Safe
    <3> QED BY <3>1, <3>2
  <2>3. ASSUME IsNewer(log[m][i].at, tracker)
        PROVE  Safe(m, i, run.rows, run.skipped, spans \cup RunSpan)'
    <3>1. PICK T : T = spans \cup {<<version, at>>} OBVIOUS
    <3>2. Safe(m, i, new, old, T)' BY <1>2, <2>2, <2>3, <3>1, SafeStays
    <3>3. spans' \cup RunSpan' = T BY <1>1, <1>4, <3>1
    <3> QED BY <1>1, <3>2, <3>3 DEF Safe
  <2> QED BY <2>1, <2>3 DEF NothingLost
<1> QED BY <1>2, <1>5, <1>6, <1>7 DEF Goes

LEMMA DeliverTells ==
  ASSUME Types, LogHolds, TablesHold, NEW read \in BOOLEAN, Deliver(read)
  PROVE  LogHolds' /\ TablesHold'
<1> USE DEF TablesHold
<1>1. /\ UNCHANGED <<kind, clock, site, born, log, acts>>
      /\ pc = "history" /\ pc' = "idle" /\ tracker' = run.version
      /\ rows' = rows \cup run.rows /\ skipped' = skipped \cup run.skipped
      /\ spans' = spans \cup RunSpan
  BY DEF Deliver, site, RunSpan
<1>2. Goes BY <1>1, SiteStays, BoundsAssumption DEF Types, Times
<1>3. PICK R, K, S : R = rows' /\ K = skipped' /\ S = spans' OBVIOUS
<1>4. run.version \in Times /\ run.version <= clock /\ run.version > tracker
  BY <1>1 DEF Types
<1>5. SpansHold'
  <2>1. \A span \in spans' : span[1] \in Times /\ span[1] <= clock
    BY <1>1, <1>4 DEF SpansHold, RunSpan
  <2>2. \E span \in spans' : span[1] = tracker'
    <3>1. PICK span : span = <<run.version, run.at>> OBVIOUS
    <3>2. span \in spans' /\ span[1] = run.version BY <1>1, <3>1 DEF RunSpan
    <3> QED BY <1>1, <3>2
  <2> QED BY <1>1, <2>1, <2>2 DEF SpansHold, Times
<1>6. TrueRows'
  <2>1. ASSUME NEW row \in R PROVE RowIsTrue(row, S)
    <3>1. RowIsTrue(row, spans) \/ RowIsTrue(row, RunSpan)
      BY <1>1, <1>3, <2>1 DEF TrueRows
    <3> QED BY <1>1, <1>3, <3>1 DEF RowIsTrue
  <2>2. \A span \in S : span[1] \in Int /\ span[1] <= clock
    BY <1>1, <1>3, SpansAreTimes
  <2>3. ASSUME NEW row \in R PROVE RowIsTrue(row, spans)'
    <3>1. RowIsTrue(row, S)' BY <1>2, <2>1, <2>2, <2>3, RowStays
    <3> QED BY <1>3, <3>1 DEF RowIsTrue
  <2> QED BY <1>1, <1>3, <2>3 DEF TrueRows
<1>7. NothingLost'
  <2> SUFFICES ASSUME kind = "quality-time", NEW m \in Metrics, NEW i \in DOMAIN log[m],
                      ~(log[m][i].at > run.version)
               PROVE  Safe(m, i, rows, skipped, spans)'
    BY <1>1 DEF NothingLost
  <2> DEFINE at == log[m][i].at
  <2>0. /\ at \in Int /\ tracker \in Int /\ Sec(at) \in Int /\ Sec(tracker) \in Int
        /\ tracker = Never => IsNewer(at, tracker)
    <3>1. log[m] \in Seq(ChangeEntry) BY DEF LogHolds
    <3>2. log[m][i] \in ChangeEntry
      <4> HIDE DEF ChangeEntry
      <4> QED BY <3>1
    <3>3. at \in Times /\ at \in Int BY <3>2, BoundsAssumption DEF ChangeEntry, Times
    <3>4. tracker \in Int BY BoundsAssumption DEF Types, Optional, Times, Never
    <3>5. tracker = Never => IsNewer(at, tracker)
      <4> HIDE DEF at
      <4> QED BY <3>3, BoundsAssumption DEF Times, Never, IsNewer, Sec
    <3> HIDE DEF at
    <3> QED BY <3>3, <3>4, <3>5, Seconds
  <2>1. Safe(m, i, R, K, S)
    <3>1. CASE Safe(m, i, rows, skipped, spans)
      BY <1>1, <1>3, <3>1, SafeGrows
    <3>2. CASE Safe(m, i, run.rows, run.skipped, spans \cup RunSpan)
      BY <1>1, <1>3, <3>2, SafeGrows
    <3>3. CASE at > tracker /\ ~IsNewer(at, tracker)
      <4>1. PICK span \in spans : span[1] = tracker BY <2>0, <3>3 DEF SpansHold
      <4>2. Sec(tracker) = Sec(at)
        <5>1. Sec(tracker) <= Sec(at)
          <6> HIDE DEF at
          <6> QED BY <2>0, <3>3, Seconds
        <5> QED BY <2>0, <3>3, <5>1 DEF IsNewer
      <4>3. span \in S /\ Sec(span[1]) = Sec(at) /\ span[1] <= at
        BY <1>1, <1>3, <2>0, <3>3, <4>1, <4>2
      <4> QED BY <4>3 DEF Safe
    <3> QED BY <1>1, <3>1, <3>2, <3>3 DEF NothingLost
  <2>2. Safe(m, i, R, K, S)' BY <1>2, <2>1, SafeStays
  <2> QED BY <1>3, <2>2 DEF Safe
<1> QED BY <1>2, <1>5, <1>6, <1>7 DEF Goes

-----------------------------------------------------------------------------
(***************************************************************************)
(* The inductive invariant: the changelogs, the rows and what they leave   *)
(* out (LogHolds and TablesHold above), what is measured, and where the    *)
(* trackers stand.                                                         *)
(***************************************************************************)
\* A run has the changes after the tracker and until its version.
RunIsNew == pc = "history" => \A row \in run.rows :
                row.rev \in Int /\ Sec(tracker) < row.rev /\ row.rev <= Sec(run.version)
RowsArePast == \A row \in rows : row.rev \in Int /\ row.rev <= Sec(tracker)
ChangesHold == kind = "quality-time" => RowsArePast /\ RunIsNew

\* The names have every metric that existed before they were last read.
Knows(ns, time) == \A m \in Metrics : born[m] # Never /\ born[m] < time => m \in ns
NamesHold ==
    /\ known \in Optional /\ known <= clock /\ Knows(names, known)
    /\ pc = "history" => /\ run.known \in Optional /\ run.known <= clock
                         /\ Knows(run.names, run.known)

Lost(x) ==
    \/ x[2] > cutoff
    \/ \E w \in windows : w[1] <= born[x[1]] /\ x[2] <= w[2]
    \/ \E w \in windows : Sec(w[2]) = Sec(x[2]) /\ w[2] <= x[2]
PointsHold ==
    /\ \A x \in measured : /\ x \in Metrics \X Times
                           /\ x[2] <= clock /\ born[x[1]] # Never /\ born[x[1]] <= x[2]
    /\ cutoff # Never => \E w \in windows : w[2] = cutoff
    /\ \A x \in measured \ points : Lost(x)

IInv ==
    /\ Types /\ LogHolds /\ TablesHold
    /\ ChangesHold /\ NamesHold /\ PointsHold

LEMMA InitHolds == ASSUME Init PROVE IInv
<1> USE BoundsAssumption DEF Init
<1>1. Types BY DEF Types, Times, Optional, Never
<1>2. ChangesHold BY DEF ChangesHold, RowsArePast, RunIsNew
<1>3. NamesHold BY DEF NamesHold, Knows, Optional, Never, Times
<1>4. PointsHold BY DEF PointsHold
<1>0. FirstScale \in Scales BY ValuesAssumption DEF FirstScale
<1>5. LogHolds
  <2>1. first \in [Metrics -> Value] BY <1>0, ValuesAssumption DEF Value
  <2>2. ASSUME NEW m \in Metrics
        PROVE  /\ log[m] \in Seq(ChangeEntry)
               /\ ChangesAreTrue(m) /\ InOrder(m)
               /\ \A i \in DOMAIN log[m] :
                     /\ born[m] # Never /\ log[m][i].at <= clock
                     /\ OfKey(log[m][i].key, log[m][i].new)
                     /\ log[m][i].key \in Keys => log[m][i].old # log[m][i].new
    <3>1. CASE log[m] = <<>>
      <4> HIDE DEF ChangeEntry
      <4> QED BY <3>1 DEF ChangesAreTrue, InOrder
    <3>2. CASE log[m] \in Rescaled
      <4>1. PICK s \in Scales \ {FirstScale} :
              log[m] = <<[at |-> 0, key |-> "scale", old |-> FirstScale, new |-> s]>>
        BY <3>2 DEF Rescaled
      <4> DEFINE e == [at |-> 0, key |-> "scale", old |-> FirstScale, new |-> s]
      <4>2. e \in ChangeEntry BY <1>0, <4>1 DEF ChangeEntry, Keys, Times
      <4>3. e.at = 0 /\ e.key = "scale" /\ e.old = FirstScale /\ e.new = s OBVIOUS
      <4> HIDE DEF e, ChangeEntry
      <4>4. log[m] = <<e>> BY <4>1 DEF e
      <4>5. log[m] \in Seq(ChangeEntry) /\ DOMAIN log[m] = {1} /\ log[m][1] = e
        BY <4>2, <4>4
      <4>6. born[m] = 0 /\ 0 # Never
        <5>1. log[m] # <<>> BY <4>4
        <5> QED BY <5>1 DEF Never
      <4>7. ChangesAreTrue(m)
        <5>1. After(m, 0)["scale"] = FirstScale
          <6>1. Where(log[m], 0, "scale") = {} BY DEF Where
          <6>2. "scale" \in Keys /\ first[m]["scale"] = FirstScale BY DEF Keys
          <6> QED BY <6>1, <6>2, AfterIsValue DEF ValueOf
        <5>2. 1 - 1 = 0 OBVIOUS
        <5> QED BY <4>3, <4>5, <5>1, <5>2 DEF ChangesAreTrue
      <4>8. InOrder(m) BY <4>3, <4>5 DEF InOrder
      <4> QED BY <4>1, <4>3, <4>5, <4>6, <4>7, <4>8 DEF OfKey
    <3> QED BY <3>1, <3>2
  <2>3. log \in [Metrics -> Seq(ChangeEntry)]
    <3> HIDE DEF ChangeEntry
    <3> QED BY <2>2
  <2> QED BY <2>1, <2>2, <2>3 DEF LogHolds
<1>6. TablesHold
  <2>1. \A m \in Metrics : \A i \in DOMAIN log[m] : log[m][i].at > Never
    <3> SUFFICES ASSUME NEW m \in Metrics, NEW i \in DOMAIN log[m] PROVE log[m][i].at > Never
      OBVIOUS
    <3>1. log[m] \in Seq(ChangeEntry) BY <1>5 DEF LogHolds
    <3>2. log[m][i] \in ChangeEntry
      <4> HIDE DEF ChangeEntry
      <4> QED BY <3>1
    <3> QED BY <3>2 DEF ChangeEntry, Times, Never
  <2> QED BY <2>1 DEF TablesHold, SpansHold, TrueRows, NothingLost
<1> QED BY <1>1, <1>2, <1>3, <1>4, <1>5, <1>6 DEF IInv

-----------------------------------------------------------------------------
\* Only people change the site; what is in the tables stays as it is.
LEMMA TypesOfPeople ==
    ASSUME Types, PointsHold, People
    PROVE  /\ Types' /\ measured \subseteq measured'
           /\ \A m \in Metrics : born[m] # Never => born'[m] = born[m]
           /\ \A m \in Metrics : born[m] = Never => born'[m] \in {Never, clock}
           /\ \A x \in measured' \ measured :
                 x \in Metrics \X Times /\ x[2] = clock /\ born[x[1]] # Never
<1> USE BoundsAssumption DEF Types, Times, Optional, Never
<1> DEFINE P == /\ Types' /\ measured \subseteq measured'
                /\ \A m \in Metrics : born[m] # Never => born'[m] = born[m]
                /\ \A m \in Metrics : born[m] = Never => born'[m] \in {Never, clock}
                /\ \A x \in measured' \ measured :
                      x \in Metrics \X Times /\ x[2] = clock /\ born[x[1]] # Never
<1>1. UNCHANGED <<kind, clock, pc, tracker, cutoff, names, run>>
  BY DEF People, saved
<1>2. ASSUME NEW m \in Metrics, NEW v \in Targets, Create(m, v) PROVE P
  BY <1>1, <1>2 DEF Create
<1>3. ASSUME NEW m \in Metrics, UNCHANGED <<born, measured>> PROVE P
  BY <1>1, <1>3
<1>4. ASSUME NEW m \in Metrics, Measure(m) PROVE P
  BY <1>1, <1>4 DEF Measure
<1>5. \E m \in Metrics :
          \/ \E v \in Targets : Create(m, v) \/ ChangeTarget(m, v)
          \/ \E v \in Scales : ChangeScale(m, v)
          \/ ChangeOther(m)
          \/ Measure(m)
  BY Zenon DEF People
<1>6. ASSUME NEW m \in Metrics,
             \/ \E v \in Targets : ChangeTarget(m, v)
             \/ \E v \in Scales : ChangeScale(m, v)
             \/ ChangeOther(m)
      PROVE  UNCHANGED <<born, measured>>
  BY <1>6 DEF ChangeTarget, ChangeScale, ChangeOther, Change
<1> HIDE DEF P
<1>7. P
  BY <1>2, <1>3, <1>4, <1>5, <1>6, Zenon
<1> QED BY <1>7 DEF P

LEMMA PeopleHold == ASSUME IInv, People PROVE IInv'
<1> USE DEF IInv
<1>1. Types' BY TypesOfPeople
<1>2. UNCHANGED <<kind, clock, tracker, names, cutoff, rows, points, pc, run, known, windows>>
  BY DEF People, saved, ghost
<1>3. ChangesHold' BY <1>2 DEF ChangesHold, RowsArePast, RunIsNew
<1>4. NamesHold'
  <2>1. \A ns : \A time \in Optional : time <= clock /\ Knows(ns, time) => Knows(ns, time)'
    BY TypesOfPeople, BoundsAssumption DEF Knows, Types, Optional, Times, Never
  <2> QED BY <1>2, <2>1 DEF NamesHold
<1>5. PointsHold'
  <2>1. ASSUME NEW x \in measured' \ points', x \in measured PROVE Lost(x)'
    <3>1. Lost(x) /\ born'[x[1]] = born[x[1]]
      BY <1>2, <2>1, TypesOfPeople DEF PointsHold
    <3> QED BY <1>2, <3>1 DEF Lost
  <2>2. ASSUME NEW x \in measured' \ measured PROVE Lost(x)'
    <3>1. x[2] = clock BY <2>2, TypesOfPeople
    <3>2. CASE cutoff = clock
      <4>1. PICK w \in windows : w[2] = cutoff
        BY <3>2, BoundsAssumption DEF PointsHold, Types, Times, Never
      <4> QED BY <1>2, <3>1, <3>2, <4>1, BoundsAssumption DEF Lost, Types, Times
    <3>3. CASE cutoff # clock
      BY <1>2, <3>1, <3>3, BoundsAssumption DEF Lost, Types, Times, Optional, Never
    <3> QED BY <3>2, <3>3
  <2>3. \A x \in measured' : /\ x \in Metrics \X Times
                             /\ x[2] <= clock /\ born'[x[1]] # Never /\ born'[x[1]] <= x[2]
    <3> SUFFICES ASSUME NEW x \in measured'
                 PROVE  /\ x \in Metrics \X Times
                        /\ x[2] <= clock /\ born'[x[1]] # Never /\ born'[x[1]] <= x[2]
      OBVIOUS
    <3>1. CASE x \in measured
      BY <3>1, TypesOfPeople DEF PointsHold
    <3>2. CASE x \notin measured
      BY <3>2, TypesOfPeople, BoundsAssumption DEF Types, Times
    <3> QED BY <3>1, <3>2
  <2> QED BY <1>2, <2>1, <2>2, <2>3 DEF PointsHold
<1>6. LogHolds' /\ TablesHold'
  <2>1. LogHolds' /\ OnlyAdded BY LogOfPeople
  <2>2. \A m \in Metrics : born[m] # Never => born'[m] # Never BY TypesOfPeople
  <2>3. Goes BY <1>2, <2>1, <2>2 DEF Goes
  <2>4. UNCHANGED skipped /\ UNCHANGED spans BY DEF People, ghost
  <2>5. clock' \in Int /\ clock <= clock' BY <1>2, BoundsAssumption DEF Types, Times
  <2> QED BY <1>2, <2>1, <2>3, <2>4, <2>5, TablesStay
<1> QED BY <1>1, <1>3, <1>4, <1>5, <1>6

-----------------------------------------------------------------------------
\* What Quality-time answers about the time after the tracker.
LEMMA AnswerIsNew ==
    ASSUME Types, LogHolds, kind = "quality-time", NEW version \in Times, NEW order \in Orders,
           NEW row \in QualityTimeRows(version, tracker, order)
    PROVE  row.rev \in Int /\ Sec(tracker) < row.rev /\ row.rev <= Sec(version)
<1>1. PICK x \in TargetChanges(version, tracker) : row = RowOf(x, version)
  BY DEF QualityTimeRows
<1>2. row.rev = Sec(log[x[1]][x[2]].at)
  BY <1>1 DEF RowOf
<1>3. /\ log[x[1]][x[2]].at \in Times /\ log[x[1]][x[2]].at <= version
      /\ IsNewer(log[x[1]][x[2]].at, tracker)
  BY <1>1, FoundIsChange
<1> QED BY <1>2, <1>3, Seconds, BoundsAssumption DEF IsNewer, Times

\* The script of the options: its changes, and the names that it read.
LEMMA FinishHolds ==
    ASSUME IInv, NEW version \in Times, Reads(version),
           NEW listed \in BOOLEAN, NEW order, NEW new, NEW old, NEW at,
           \/ /\ order \in Orders /\ new = TargetRows(version, tracker, order)
              /\ old = TooOld(version, tracker) /\ at = clock
           \/ new = {} /\ old = Changes(version, tracker),
           Finish(version, listed, new, old, at)
    PROVE  IInv'
<1> USE ReadsInTime DEF IInv
<1>1. /\ UNCHANGED <<kind, clock, born, log, measured, tracker, names, cutoff, rows, points,
                     known, windows>>
      /\ pc' = "history" /\ run'.version = version /\ run'.rows = new
      /\ run'.names = IF listed THEN names \cup Listed(version) ELSE names
      /\ run'.known = IF listed THEN version ELSE known
  BY DEF Finish, site, saved, ghost
<1>2. Types' BY <1>1 DEF Types, Optional, Times, Never
<1>3. LogHolds' /\ TablesHold' BY FinishTells
<1>4. ChangesHold'
  <2>1. ASSUME kind = "quality-time", NEW row \in new
        PROVE  row.rev \in Int /\ Sec(tracker) < row.rev /\ row.rev <= Sec(version)
    BY <2>1, AnswerIsNew DEF TargetRows
  <2> QED BY <1>1, <2>1 DEF ChangesHold, RowsArePast, RunIsNew
<1>5. NamesHold'
  <2>1. Knows(run'.names, run'.known)
    <3>1. CASE listed
      <4> SUFFICES ASSUME NEW m \in Metrics, born[m] # Never, born[m] < version
                   PROVE  m \in Listed(version)
        BY <1>1, <3>1 DEF Knows
      <4> QED BY BoundsAssumption DEF Listed, Existing, Types, Optional, Times, Never
    <3>2. CASE ~listed
      BY <1>1, <3>2 DEF NamesHold
    <3> QED BY <3>1, <3>2
  <2>2. Knows(names, known)' /\ Knows(run.names, run.known)'
    BY <1>1, <2>1 DEF Knows, NamesHold
  <2>3. run'.known \in Optional /\ run'.known <= clock
    BY <1>1 DEF NamesHold, Optional
  <2> QED BY <1>1, <2>2, <2>3 DEF NamesHold
<1>6. PointsHold' BY <1>1 DEF PointsHold, Lost
<1> QED BY <1>2, <1>3, <1>4, <1>5, <1>6

\* The import, with and without measurements.
LEMMA DeliverHolds == ASSUME IInv, NEW read \in BOOLEAN, Deliver(read) PROVE IInv'
<1> USE BoundsAssumption DEF IInv
<1>1. /\ UNCHANGED <<kind, clock, born, log, measured>>
      /\ pc = "history" /\ pc' = "idle"
      /\ tracker' = run.version /\ names' = run.names /\ known' = run.known
      /\ rows' = rows \cup run.rows
  BY DEF Deliver, site
<1>2. /\ cutoff' = (IF read THEN clock ELSE cutoff)
      /\ points \subseteq points' /\ windows \subseteq windows'
      /\ read => <<run.known, clock>> \in windows'
      /\ read => \A x \in measured : x[1] \in run.names /\ IsMeasured(x[2], clock, cutoff)
                                      => x \in points'
      /\ ~read => UNCHANGED <<points, windows>>
  BY DEF Deliver, Found
<1>3. Types' BY <1>1, <1>2 DEF Types, Optional, Times, Never
<1>4. LogHolds' /\ TablesHold' BY DeliverTells
<1>5. ChangesHold'
  <2>1. Sec(tracker) <= Sec(run.version) /\ Sec(tracker) \in Int /\ Sec(run.version) \in Int
    BY <1>1, Seconds DEF Types, Optional, Times, Never
  <2> QED BY <1>1, <2>1 DEF ChangesHold, RowsArePast, RunIsNew
<1>6. NamesHold'
  BY <1>1 DEF NamesHold, Knows, Optional, Times, Never
<1>7. PointsHold'
  <2>1. ASSUME NEW x \in measured \ points, Lost(x), ~read PROVE Lost(x)'
    BY <1>1, <1>2, <2>1 DEF Lost
  <2>2. ASSUME NEW x \in measured \ points, Lost(x), read, x \notin points' PROVE Lost(x)'
    <3>1. /\ x[1] \in Metrics /\ x[2] \in Times /\ x[2] <= clock
          /\ born[x[1]] # Never /\ born[x[1]] <= x[2] /\ born[x[1]] \in Optional
      BY <2>2 DEF PointsHold, Types
    <3>2. CASE x[1] \notin run.names
      <4>1. ~(born[x[1]] < run.known)
        BY <1>1, <3>1, <3>2 DEF NamesHold, Knows
      <4>2. run.known <= born[x[1]]
        BY <1>1, <3>1, <4>1 DEF NamesHold, Optional, Times, Never
      <4> DEFINE w == <<run.known, clock>>
      <4>3. w \in windows' /\ w[1] <= born[x[1]] /\ x[2] <= w[2]
        BY <1>2, <2>2, <3>1, <4>2
      <4> QED BY <1>1, <4>3, Zenon DEF Lost
    <3>3. CASE ~IsMeasured(x[2], clock, cutoff)
      <4>1. ~(x[2] > cutoff) \/ Sec(x[2]) = Sec(cutoff)
        BY <3>1, <3>3, Seconds DEF IsMeasured, InSonarHistory, InMeasurements, IsNewer, Sec, Types, Optional, Times, Never
      <4>2. CASE ~(x[2] > cutoff)
        BY <1>1, <1>2, <2>2, <4>2 DEF Lost
      <4>3. CASE x[2] > cutoff /\ Sec(x[2]) = Sec(cutoff)
        <5>1. cutoff # Never
          BY <3>1, <4>3 DEF Sec, Times, Never
        <5>2. PICK w \in windows : w[2] = cutoff
          BY <5>1 DEF PointsHold
        <5>3. Sec(w[2]) = Sec(x[2]) /\ w[2] <= x[2]
          BY <3>1, <4>3, <5>2 DEF Types, Optional, Times, Never
        <5>4. w \in windows'
          BY <1>2
        <5> QED BY <5>3, <5>4, Zenon DEF Lost
      <4> QED BY <4>1, <4>2, <4>3
    <3> QED BY <1>2, <2>2, <3>2, <3>3
  <2>3. \A x \in measured' \ points' : Lost(x)'
    BY <1>1, <1>2, <2>1, <2>2 DEF PointsHold
  <2>4. cutoff' # Never => \E w \in windows' : w[2] = cutoff'
    BY <1>2 DEF PointsHold
  <2> QED BY <1>1, <2>3, <2>4 DEF PointsHold
<1> QED BY <1>3, <1>4, <1>5, <1>6, <1>7

-----------------------------------------------------------------------------
LEMMA Inductive == ASSUME IInv, [Next]_vars PROVE IInv'
<1> USE BoundsAssumption
<1>0. ASSUME IInv, UNCHANGED <<site, acts, kind, tracker, rows, spans, skipped>>,
             clock' \in Int, clock <= clock',
             pc' = "history" => pc = "history" /\ UNCHANGED run
      PROVE  LogHolds' /\ TablesHold'
  <2>1. Goes BY <1>0, SiteStays DEF IInv
  <2> QED BY <1>0, <2>1, TablesStay DEF IInv, Goes
<1>1. CASE Tick
  <2>1. UNCHANGED <<kind, born, log, measured, tracker, names, cutoff, rows, points, pc, run,
                    known, windows>> /\ clock' \in Times /\ clock <= clock'
    BY <1>1 DEF Tick, site, saved, ghost, IInv, Types, Times
  <2>2. Types' BY <2>1 DEF IInv, Types, Times, Optional, Never
  <2>3. ChangesHold'
    BY <2>1 DEF IInv, ChangesHold, RowsArePast, RunIsNew
  <2>4. NamesHold'
    BY <2>1 DEF IInv, NamesHold, Knows, Types, Times, Optional, Never
  <2>5. PointsHold'
    BY <2>1 DEF IInv, PointsHold, Lost, Types, Times
  <2>6. LogHolds' /\ TablesHold'
    <3>1. UNCHANGED <<site, acts, skipped, spans>> /\ clock' \in Int
      BY <1>1, <2>1 DEF Tick, ghost, Times
    <3> QED BY <1>0, <2>1, <3>1
  <2> QED BY <2>2, <2>3, <2>4, <2>5, <2>6 DEF IInv
<1>2. CASE Begin
  <2>1. UNCHANGED <<kind, clock, born, log, measured, tracker, names, cutoff, rows, points,
                    known, windows>>
    BY <1>2 DEF Begin, site, saved, ghost
  <2>2. pc' = "options" /\ run'.version = clock /\ clock > tracker
    BY <1>2 DEF Begin, MayBegin, NoRun
  <2>3. Types' BY <2>1, <2>2 DEF IInv, Types, Times, Optional, Never
  <2>4. ChangesHold' /\ NamesHold' /\ PointsHold'
    BY <2>1, <2>2 DEF IInv, ChangesHold, RowsArePast, RunIsNew, NamesHold, Knows, PointsHold, Lost
  <2>5. LogHolds' /\ TablesHold'
    <3>1. UNCHANGED <<site, acts, skipped, spans>> /\ clock' \in Int /\ clock <= clock'
      BY <1>2, <2>1 DEF Begin, ghost, IInv, Types, Times
    <3> QED BY <1>0, <2>1, <2>2, <3>1
  <2> QED BY <2>3, <2>4, <2>5 DEF IInv
<1>3. CASE CollectOptions
  <2>1. PICK version \in Times, order \in Orders :
           /\ Reads(version)
           /\ Finish(version, TRUE, TargetRows(version, tracker, order),
                     TooOld(version, tracker), clock)
    BY <1>3 DEF CollectOptions
  <2>2. TRUE \in BOOLEAN
    OBVIOUS
  <2> QED BY <2>1, <2>2, FinishHolds, Zenon
<1>4. CASE FailOptions
  BY <1>4, FinishHolds DEF FailOptions
<1>5. CASE CollectMeasurements
  BY <1>5, DeliverHolds DEF CollectMeasurements
<1>6. CASE FailMeasurements
  BY <1>6, DeliverHolds DEF FailMeasurements
<1>7. CASE Abandon \/ UNCHANGED vars
  <2>1. UNCHANGED <<kind, clock, born, log, measured, tracker, names, cutoff, rows, points,
                    known, windows>> /\ (pc' = "idle" \/ UNCHANGED <<pc, run>>)
    BY <1>7 DEF Abandon, site, saved, ghost, vars
  <2>2. Types' BY <2>1 DEF IInv, Types, Times, Optional, Never
  <2>3. ChangesHold' /\ NamesHold' /\ PointsHold'
    BY <2>1 DEF IInv, ChangesHold, RowsArePast, RunIsNew, NamesHold, Knows, PointsHold, Lost
  <2>4. LogHolds' /\ TablesHold'
    <3>1. UNCHANGED <<site, acts, skipped, spans>> /\ clock' \in Int /\ clock <= clock'
      BY <1>7, <2>1 DEF Abandon, site, ghost, vars, IInv, Types, Times
    <3> QED BY <1>0, <2>1, <3>1
  <2> QED BY <2>2, <2>3, <2>4 DEF IInv
<1> QED
  BY <1>1, <1>2, <1>3, <1>4, <1>5, <1>6, <1>7, PeopleHold DEF Next

\* The invariant holds in every state that the scripts reach.
THEOREM InvariantHolds == Spec => []IInv
BY InitHolds, Inductive, PTL DEF Spec

\* Every row of the tables has values that were in effect, right after the
\* change that it is about or when SonarQube was read (adjust_target_versions
\* of both sources), for any changelogs and however many changes are given.
THEOREM ValuesAreTrue == Spec => []RowsAreTrue
<1>1. IInv => RowsAreTrue
  BY DEF IInv, TablesHold, TrueRows, RowIsTrue, RowsAreTrue
<1> QED BY <1>1, InvariantHolds, PTL

\* Every change that the tracker is past is in the tables, but for those that
\* ChangesAreCollected names: adjust_target_versions of Quality-time.
THEOREM ChangesAreSafe == Spec => []ChangesAreCollected
<1>1. IInv => ChangesAreCollected
  BY DEF IInv, TablesHold, NothingLost, Safe, ChangesAreCollected, SameSecond, LooksOld
<1> QED BY <1>1, InvariantHolds, PTL

\* No measurement before the tracker is lost, but in the second of an earlier
\* run or with a metric that was added while a run went on: get_measurements
\* of both sources, with the names that the options left.
THEOREM MeasurementsAreSafe == Spec => []MeasurementsAreCollected
<1>1. IInv => MeasurementsAreCollected
  BY BoundsAssumption DEF IInv, PointsHold, Lost, MeasurementsAreCollected
<1> QED BY <1>1, InvariantHolds, PTL

\* No change of a metric is imported twice: adjust_target_versions stops at
\* the second of the tracker, which the import moves with the rows.
THEOREM RowsStayNew == Spec => RowsAreNew
<1>1. ASSUME IInv, [Next]_vars
      PROVE  [\A m \in Metrics : \A new \in rows' \ rows, old \in rows :
                (new.metric = m /\ old.metric = m /\ kind = "quality-time")
                    => old.rev < new.rev]_vars
  <2>1. ASSUME NEW read \in BOOLEAN, Deliver(read), kind = "quality-time",
               NEW new \in rows' \ rows, NEW old \in rows
        PROVE  old.rev < new.rev
    <3>1. pc = "history" /\ new \in run.rows
      BY <2>1 DEF Deliver
    <3>2. Sec(tracker) \in Int
      BY <1>1, Seconds, BoundsAssumption DEF IInv, Types, Optional, Times, Never
    <3> QED BY <1>1, <2>1, <3>1, <3>2 DEF IInv, ChangesHold, RowsArePast, RunIsNew
  <2>2. CASE CollectMeasurements \/ FailMeasurements
    BY <2>1, <2>2 DEF CollectMeasurements, FailMeasurements
  <2>3. CASE UNCHANGED rows
    BY <2>3
  <2>4. CollectMeasurements \/ FailMeasurements \/ UNCHANGED rows
    BY <1>1 DEF Next, Tick, People, Begin, CollectOptions, FailOptions, Finish, Abandon,
                saved, vars
  <2> QED BY <2>2, <2>3, <2>4
<1> QED BY <1>1, InvariantHolds, PTL DEF Spec, RowsAreNew

=============================================================================
