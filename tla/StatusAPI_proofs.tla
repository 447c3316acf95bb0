-------------------------- MODULE StatusAPI_proofs ---------------------------
(***************************************************************************)
(* Theorems about the two sides of auth/status.py.                         *)
(*                                                                         *)
(* StatusStore, for any set of POSTs, any of which may be written in two   *)
(* parts, any size of the batches and any number of starts of the import.  *)
(*                                                                         *)
(* ScrapeSchedule, for any projects of an agent, any days and drift of the *)
(* configuration and any length of a day, up to the age MaxAge at which    *)
(* ages are no longer told apart.                                          *)
(***************************************************************************)
EXTENDS StatusStore, ScrapeSchedule, TLAPS

(***************************************************************************)
(* Types                                                                   *)
(***************************************************************************)
LEMMA WriteType == \A p \in Posts, part \in Parts : Write(p, part) \in Writes
  BY DEF Write, Writes

LEMMA TypeInit == Init => TypeOK
<1> SUFFICES ASSUME Init PROVE TypeOK
  OBVIOUS
<1>1. file \in Seq(Writes) /\ at <= Len(file)
  BY DEF Init
<1>2. rows \in [Posts -> Nat] /\ before \in [Posts -> Nat]
  BY DEF Init
<1> QED BY <1>1, <1>2 DEF Init, TypeOK, Places

\* The lines that are read are in the file.
LEMMA LineFits ==
  ASSUME TypeOK
  PROVE  /\ LineLength(at) \in {0, 1, 2}
         /\ at + LineLength(at) <= Len(file)
  BY DEF TypeOK, LineLength

LEMMA InsertType ==
  ASSUME TypeOK, NEW posts, Insert(posts)
  PROVE  rows' \in [Posts -> Nat]
  BY DEF TypeOK, Insert

\* What is taken from the file are the statuses of a POST.
LEMMA TakeType ==
  ASSUME TypeOK, NEW kept, kept \subseteq Posts, TakeLine(kept)
  PROVE  /\ batch' \subseteq Posts
         /\ at' \in Nat /\ at' <= Len(file')
<1>1. at \in Nat /\ Len(file) \in Nat
  BY DEF TypeOK
<1>2. LineLength(at) > 0
  BY DEF TakeLine
<1>3. LineLength(at) \in {1, 2} /\ at + LineLength(at) <= Len(file)
  BY <1>2, LineFits
<1>4. file[at + 1] \in Writes
  <2>1. at + 1 \in 1..Len(file)
    BY <1>1, <1>3
  <2> QED BY <2>1 DEF TypeOK
<1>5. file[at + 1].post \in Posts
  BY <1>4 DEF Writes
<1> QED BY <1>1, <1>3, <1>5 DEF TakeLine

LEMMA TypeStep == TypeOK /\ [Next]_vars => TypeOK'
<1> SUFFICES ASSUME TypeOK, [Next]_vars PROVE TypeOK'
  OBVIOUS
<1> USE DEF TypeOK
<1>1. CASE UNCHANGED vars
  BY <1>1 DEF vars, database, script
<1>2. CASE \E p \in Posts : Receive(p)
  <2>1. PICK p \in Posts : Receive(p) BY <1>2
  <2> USE DEF Places, GoTo, database, script
  <2>2. CASE Post(p) \/ Connect(p) \/ Unavailable(p)
    BY <2>2 DEF Post, Connect, Unavailable
  <2>3. CASE FindSource(p) \/ InsertSource(p) \/ DatabaseRaises(p)
    BY <2>3 DEF FindSource, InsertSource, DatabaseRaises
  <2>4. CASE InsertRows(p)
    BY <2>4, InsertType DEF InsertRows
  <2>5. CASE FindDirectory(p) \/ MakeDirectory(p) \/ OwnDirectory(p)
    BY <2>5 DEF FindDirectory, MakeDirectory, OwnDirectory
  <2>6. CASE AppendLine(p)
    BY <2>6, WriteType DEF AppendLine, Parts
  <2>7. CASE AppendBegin(p)
    BY <2>7, WriteType DEF AppendBegin, Parts
  <2>8. CASE AppendEnd(p)
    BY <2>8, WriteType DEF AppendEnd, Parts
  <2>9. CASE ControllerRaises(p)
    BY <2>9 DEF ControllerRaises
  <2> QED BY <2>1, <2>2, <2>3, <2>4, <2>5, <2>6, <2>7, <2>8, <2>9 DEF Receive
<1>3. CASE Import
  <2> USE DEF database, script
  <2>2. CASE StartImport
    <3>1. UNCHANGED <<known, source, rows, pc, directory, file>>
      BY <2>2 DEF StartImport
    <3>2. /\ import' = "reading" /\ imports' = imports + 1
          /\ connected' = FALSE /\ batch' = {} /\ at' = 0
          /\ before' = rows
      BY <2>2 DEF StartImport
    <3>3. Len(file) \in Nat /\ imports + 1 \in Nat
      OBVIOUS
    <3>4. file' \in Seq(Writes) /\ at' \in Nat /\ at' <= Len(file')
      BY <3>1, <3>2, <3>3
    <3>5. rows' \in [Posts -> Nat] /\ before' \in [Posts -> Nat]
      BY <3>1, <3>2
    <3>6. imports' \in Nat
      BY <3>2, <3>3
    <3>7. /\ import' \in {"idle", "reading", "update", "done", "failed"}
          /\ connected' \in BOOLEAN /\ batch' \subseteq Posts
      BY <3>2
    <3> QED BY <3>1, <3>4, <3>5, <3>6, <3>7
  <2>3. CASE AddToBatch
    <3>1. TakeLine(batch) /\ UNCHANGED <<rows, connected>>
      BY <2>3 DEF AddToBatch
    <3>2. batch' \subseteq Posts /\ at' \in Nat /\ at' <= Len(file')
      BY <3>1, TakeType
    <3> QED BY <3>1, <3>2 DEF TakeLine
  <2>4. CASE UpdateAndAdd
    <3>1. TakeLine({}) /\ Insert(batch) /\ connected' = TRUE
      BY <2>4 DEF UpdateAndAdd
    <3>2. batch' \subseteq Posts /\ at' \in Nat /\ at' <= Len(file')
      BY <3>1, TakeType
    <3>3. rows' \in [Posts -> Nat]
      BY <3>1, InsertType
    <3> QED BY <3>1, <3>2, <3>3 DEF TakeLine
  <2>5. CASE BatchRefused \/ EndOfFile \/ ImportFails
    BY <2>5 DEF BatchRefused, EndOfFile, ImportFails
  <2>6. CASE LastUpdate
    BY <2>6, InsertType DEF LastUpdate
  <2> QED BY <1>3, <2>2, <2>3, <2>4, <2>5, <2>6 DEF Import
<1>4. CASE Register
  BY <1>4 DEF Register, script
<1> QED BY <1>1, <1>2, <1>3, <1>4 DEF Next

\* The variables stay in their domains; the script never reads beyond the file.
THEOREM TypeCorrect == Spec => []TypeOK
<1>1. Init => TypeOK BY TypeInit
<1>2. TypeOK /\ [Next]_vars => TypeOK' BY TypeStep
<1> QED BY <1>1, <1>2, PTL DEF Spec

(***************************************************************************)
(* The inductive invariant                                                 *)
(***************************************************************************)
LEMMA InvInit == Init => IInv
<1> SUFFICES ASSUME Init PROVE IInv
  OBVIOUS
<1>1. TypeOK BY TypeInit
<1>2. Len(file) = 0 /\ at = 0 BY DEF Init
<1>3. \A p \in Posts : ~Written(p) BY <1>2 DEF Written
<1>4. \A p \in Posts : rows[p] = 0 /\ before[p] = 0 /\ pc[p] = "idle"
  BY DEF Init
<1>5. ~Importing BY DEF Init, Importing
<1> QED BY <1>1, <1>2, <1>3, <1>4, <1>5
        DEF IInv, NothingWrittenYet, OwnRows, LastWrite, RestIsMissing,
            OneLine, BatchIsRead, ImportedRows, BeforeIsPast, ImportedOnce

LEMMA ReadIsWritten ==
  ASSUME TypeOK, NEW p \in Posts, Read(p)
  PROVE  Written(p)
  BY DEF TypeOK, Read, Written

\* A request goes on without a write and without rows.
LEMMA QuietStep ==
  ASSUME IInv, TypeOK', NEW p \in Posts, NEW q,
         pc' = [pc EXCEPT ![p] = q], pc[p] # "accepted",
         q \notin {"accepted", "rest"},
         q = "failed" \/ pc[p] \notin {"rest", "failed"},
         UNCHANGED <<rows, file, script>>
  PROVE  IInv'
<1> USE DEF IInv, script
<1>1. pc \in [Posts -> Places] BY DEF TypeOK
<1>2. \A x \in Posts : /\ Written(x)' <=> Written(x)
                       /\ Filed(x)' <=> Filed(x)
                       /\ Read(x)' <=> Read(x)
  BY DEF Written, Filed, Read
<1>3. NothingWrittenYet' BY <1>1, <1>2 DEF NothingWrittenYet
<1>4. OwnRows' BY <1>1, <1>2 DEF OwnRows
<1>5. LastWrite' BY <1>1, <1>2 DEF LastWrite
<1>6. RestIsMissing' BY <1>1 DEF RestIsMissing
<1>7. OneLine' BY DEF OneLine
<1>8. BatchIsRead' /\ ImportedRows' /\ BeforeIsPast' /\ ImportedOnce'
  <2>1. batch \subseteq Posts BY DEF TypeOK
  <2> QED BY <1>2, <2>1 DEF BatchIsRead, ImportedRows, BeforeIsPast,
                            ImportedOnce, Importing
<1> QED BY <1>3, <1>4, <1>5, <1>6, <1>7, <1>8

\* A request gets its rows into the database: it writes nothing after that.
LEMMA RowsStep ==
  ASSUME IInv, TypeOK', NEW p \in Posts, InsertRows(p)
  PROVE  IInv'
<1> USE DEF IInv, script, InsertRows
<1>1. /\ pc \in [Posts -> Places] /\ pc[p] = "rows"
      /\ pc' = [pc EXCEPT ![p] = "accepted"]
  BY DEF TypeOK, GoTo
<1>2. \A x \in Posts : /\ Written(x)' <=> Written(x)
                       /\ Filed(x)' <=> Filed(x)
                       /\ Read(x)' <=> Read(x)
  BY DEF Written, Filed, Read
<1>3. ~Written(p) /\ rows[p] = 0 BY <1>1 DEF NothingWrittenYet, OwnRows
<1>4. rows'[p] = 1 /\ \A x \in Posts : x # p => rows'[x] = rows[x]
  BY <1>3 DEF Insert
<1>5. NothingWrittenYet' BY <1>1, <1>2 DEF NothingWrittenYet
<1>6. OwnRows' BY <1>1, <1>2, <1>3, <1>4 DEF OwnRows
<1>7. LastWrite' BY <1>1, <1>2, <1>3 DEF LastWrite
<1>8. RestIsMissing' BY <1>1 DEF RestIsMissing
<1>9. OneLine' BY DEF OneLine
<1>10. BatchIsRead'
  <2>1. batch \subseteq Posts BY DEF TypeOK
  <2> QED BY <1>2, <2>1 DEF BatchIsRead, Importing
<1>11. ImportedRows' BY <1>2, <1>3, <1>4 DEF ImportedRows, Importing
<1>12. BeforeIsPast'
  <2>1. before[p] = 0 BY <1>3 DEF BeforeIsPast, TypeOK
  <2> QED BY <1>4, <2>1 DEF BeforeIsPast
<1>13. ImportedOnce' BY <1>2, <1>3, <1>4 DEF ImportedOnce
<1> QED BY <1>5, <1>6, <1>7, <1>8, <1>9, <1>10, <1>11, <1>12, <1>13

\* What a write changes in the file.
LEMMA WriteFacts ==
  ASSUME TypeOK, NEW p \in Posts, NEW part \in Parts,
         file' = Append(file, Write(p, part)), UNCHANGED at
  PROVE  /\ Len(file') = Len(file) + 1
         /\ \A i \in 1..Len(file) : file'[i] = file[i]
         /\ file'[Len(file) + 1].post = p
         /\ file'[Len(file) + 1].part = part
         /\ \A x \in Posts :
              /\ Written(x)' <=> Written(x) \/ x = p
              /\ Filed(x)' <=> Filed(x) \/ (x = p /\ part # "begin")
              /\ Read(x)' <=> Read(x)
<1>1. file \in Seq(Writes) /\ Len(file) \in Nat /\ at \in 0..Len(file)
  BY DEF TypeOK
<1> DEFINE w == Write(p, part)
<1>2. w \in Writes /\ w.post = p /\ w.part = part
  BY DEF Write, Writes
<1> HIDE DEF w
<1>3. /\ Len(file') = Len(file) + 1
      /\ \A i \in 1..Len(file) : file'[i] = file[i]
      /\ file'[Len(file) + 1] = w
  BY <1>1, <1>2 DEF w
<1>4. ASSUME NEW x \in Posts
      PROVE  /\ Written(x)' <=> Written(x) \/ x = p
             /\ Filed(x)' <=> Filed(x) \/ (x = p /\ part # "begin")
             /\ Read(x)' <=> Read(x)
  <2>1. Written(x)' <=> Written(x) \/ x = p
    BY <1>1, <1>2, <1>3 DEF Written
  <2>2. Filed(x)' <=> Filed(x) \/ (x = p /\ part # "begin")
    BY <1>1, <1>2, <1>3 DEF Filed
  <2>3. Read(x)' <=> Read(x)
    BY <1>1, <1>3 DEF Read
  <2> QED BY <2>1, <2>2, <2>3
<1> QED BY <1>2, <1>3, <1>4

\* A request writes its line, or one of its two parts.
LEMMA WriteStep ==
  ASSUME IInv, TypeOK', NEW p \in Posts, NEW part \in Parts, NEW q,
         file' = Append(file, Write(p, part)),
         pc' = [pc EXCEPT ![p] = q],
         \/ pc[p] = "append" /\ part = "whole" /\ q = "accepted"
         \/ pc[p] = "append" /\ part = "begin" /\ q = "rest"
         \/ pc[p] = "rest" /\ part = "end" /\ q = "accepted",
         UNCHANGED <<rows, script>>
  PROVE  IInv'
<1> USE DEF IInv
<1>1. pc \in [Posts -> Places] BY DEF TypeOK
<1>2. UNCHANGED <<import, batch, at, imports, before>> BY DEF script
<1>3. /\ Len(file') = Len(file) + 1
      /\ \A i \in 1..Len(file) : file'[i] = file[i]
      /\ file'[Len(file) + 1].post = p
      /\ file'[Len(file) + 1].part = part
  BY <1>2, WriteFacts
<1>4. \A x \in Posts :
        /\ Written(x)' <=> Written(x) \/ x = p
        /\ Filed(x)' <=> Filed(x) \/ (x = p /\ part # "begin")
        /\ Read(x)' <=> Read(x)
  BY <1>2, WriteFacts
<1>5. Len(file) \in Nat /\ at \in 0..Len(file) BY DEF TypeOK
<1>6. pc[p] = "append" => ~Written(p) BY DEF NothingWrittenYet
<1>7. ~Written(p) => rows[p] = 0 /\ before[p] = 0
  BY DEF OwnRows, BeforeIsPast, TypeOK
<1>8. ~Written(p) => ~Read(p) BY ReadIsWritten
<1>9. NothingWrittenYet' BY <1>1, <1>4 DEF NothingWrittenYet
<1>10. OwnRows' BY <1>1, <1>4 DEF OwnRows
<1>11. LastWrite' BY <1>1, <1>4 DEF LastWrite
<1>12. RestIsMissing'
  <2> SUFFICES ASSUME NEW x \in Posts, pc'[x] = "rest",
                      NEW i \in 1..Len(file'), file'[i].post = x
               PROVE  file'[i].part = "begin"
    BY DEF RestIsMissing
  <2>1. CASE x = p
    <3>1. pc[p] = "append" /\ part = "begin" BY <1>1, <2>1
    <3>2. i = Len(file) + 1 BY <1>3, <1>5, <1>6, <2>1, <3>1 DEF Written
    <3> QED BY <1>3, <3>1, <3>2
  <2>2. CASE x # p
    <3>1. i \in 1..Len(file) BY <1>3, <1>5, <2>2
    <3> QED BY <1>1, <1>3, <2>2, <3>1 DEF RestIsMissing
  <2> QED BY <2>1, <2>2
<1>13. OneLine'
  <2> SUFFICES ASSUME NEW i \in 1..Len(file'), NEW j \in 1..Len(file'),
                      i < j, file'[i].post = file'[j].post
               PROVE  file'[i].part = "begin" /\ file'[j].part = "end"
    BY DEF OneLine
  <2>1. i \in 1..Len(file) BY <1>3, <1>5
  <2>2. CASE j \in 1..Len(file)
    BY <1>3, <2>1, <2>2 DEF OneLine
  <2>3. CASE j = Len(file) + 1
    <3>1. file[i].post = p BY <1>3, <2>1, <2>3
    <3>2. Written(p) BY <2>1, <3>1 DEF Written
    <3>3. pc[p] = "rest" /\ part = "end" BY <1>6, <3>2
    <3>4. file[i].part = "begin" BY <2>1, <3>1, <3>3 DEF RestIsMissing
    <3> QED BY <1>3, <2>1, <2>3, <3>3, <3>4
  <2> QED BY <1>3, <1>5, <2>2, <2>3
<1>14. BatchIsRead'
  <2>1. batch \subseteq Posts BY DEF TypeOK
  <2> QED BY <1>2, <1>4, <2>1 DEF BatchIsRead, Importing
<1>15. ImportedRows'
  BY <1>2, <1>4, <1>7, <1>8 DEF ImportedRows, Importing
<1>16. BeforeIsPast' BY <1>2 DEF BeforeIsPast
<1>17. ImportedOnce' BY <1>2, <1>4, <1>7 DEF ImportedOnce, TypeOK
<1> QED BY <1>9, <1>10, <1>11, <1>12, <1>13, <1>14, <1>15, <1>16, <1>17

\* The import takes the statuses of a POST that it has not read before.
LEMMA TakeFacts ==
  ASSUME IInv, NEW kept, TakeLine(kept)
  PROVE  /\ UNCHANGED file
         /\ \E q \in Posts :
              /\ Written(q) /\ ~Read(q)
              /\ batch' = kept \cup {q}
              /\ \A x \in Posts : Read(x)' <=> Read(x) \/ x = q
<1>1. TypeOK /\ OneLine BY DEF IInv
<1> DEFINE q == file[at + 1].post
<1>2. /\ UNCHANGED file
      /\ batch' = kept \cup {q} /\ at' = at + LineLength(at)
      /\ LineLength(at) > 0
  BY DEF TakeLine
<1>3. at \in Nat /\ Len(file) \in Nat BY <1>1 DEF TypeOK
<1>4. LineLength(at) \in {1, 2} /\ at + LineLength(at) <= Len(file)
  BY <1>1, <1>2, LineFits
<1>5. q \in Posts
  <2>1. at + 1 \in 1..Len(file) BY <1>3, <1>4
  <2>2. file[at + 1] \in Writes BY <1>1, <2>1 DEF TypeOK
  <2> QED BY <2>2 DEF Writes
<1>6. /\ file[at + 1].part \in {"whole", "begin"}
      /\ LineLength(at) = 2 => file[at + 2].post = q
  BY <1>2 DEF LineLength, Write
<1>7. Written(q) BY <1>3, <1>4 DEF Written
<1>8. ~Read(q)
  <2> SUFFICES ASSUME NEW i \in 1..at, file[i].post = q PROVE FALSE
    BY DEF Read
  <2>1. /\ i \in 1..Len(file) /\ at + 1 \in 1..Len(file) /\ i < at + 1
    BY <1>3, <1>4
  <2>2. file[at + 1].part = "end" BY <1>1, <2>1 DEF OneLine
  <2> QED BY <1>6, <2>2
<1>9. ASSUME NEW x \in Posts PROVE Read(x)' <=> Read(x) \/ x = q
  <2>1. CASE LineLength(at) = 1
    <3>1. at' = at + 1 BY <1>2, <2>1
    <3> QED BY <1>2, <1>3, <3>1 DEF Read
  <2>2. CASE LineLength(at) = 2
    <3>1. at' = at + 2 /\ file[at + 2].post = q BY <1>2, <1>6, <2>2
    <3> QED BY <1>2, <1>3, <3>1 DEF Read
  <2> QED BY <1>4, <2>1, <2>2
<1> QED BY <1>2, <1>5, <1>7, <1>8, <1>9

\* What the script does to the parts of the invariant that are about requests,
\* when it inserts what it has read.
LEMMA ImportKeeps ==
  ASSUME IInv, UNCHANGED <<file, pc>>,
         rows' \in [Posts -> Nat],
         \A x \in Posts : rows'[x] # rows[x] => Written(x)
  PROVE  /\ NothingWrittenYet' /\ OwnRows' /\ LastWrite'
         /\ RestIsMissing' /\ OneLine'
<1> USE DEF IInv
<1>1. \A x \in Posts : /\ Written(x)' <=> Written(x)
                       /\ Filed(x)' <=> Filed(x)
  BY DEF Written, Filed
<1>2. NothingWrittenYet' /\ LastWrite'
  BY <1>1 DEF NothingWrittenYet, LastWrite
<1>3. OwnRows' BY <1>1 DEF OwnRows
<1>4. RestIsMissing' /\ OneLine' BY DEF RestIsMissing, OneLine
<1> QED BY <1>2, <1>3, <1>4

LEMMA InsertFacts ==
  ASSUME TypeOK, NEW posts, Insert(posts)
  PROVE  \A x \in Posts :
           rows'[x] = IF x \in posts THEN rows[x] + 1 ELSE rows[x]
  BY DEF TypeOK, Insert

LEMMA ImportStep ==
  ASSUME IInv, TypeOK', Import
  PROVE  IInv'
<1> USE DEF IInv
<1>1. TypeOK /\ rows \in [Posts -> Nat] /\ rows' \in [Posts -> Nat]
  BY DEF TypeOK
<1>2. batch \subseteq Posts /\ imports \in Nat /\ before \in [Posts -> Nat]
  BY DEF TypeOK
<1>3. UNCHANGED <<file, pc>>
  BY DEF Import, StartImport, AddToBatch, UpdateAndAdd, TakeLine,
         BatchRefused, EndOfFile, LastUpdate, ImportFails
<1>4. \A x \in Posts : Written(x)' <=> Written(x)
  BY <1>3 DEF Written
<1>5. CASE StartImport
  <2>1. /\ Importing' /\ imports' = imports + 1 /\ batch' = {} /\ at' = 0
        /\ before' = rows /\ rows' = rows
    BY <1>5 DEF StartImport, Importing, database
  <2>2. \A x \in Posts : ~Read(x)' BY <2>1 DEF Read
  <2>3. BatchIsRead' BY <2>1 DEF BatchIsRead
  <2>4. ImportedRows'
    BY <1>1, <1>2, <1>4, <2>1, <2>2 DEF ImportedRows, ImportedOnce
  <2>5. BeforeIsPast' BY <1>1, <2>1 DEF BeforeIsPast
  <2>6. ImportedOnce' BY <1>1, <1>2, <1>4, <2>1 DEF ImportedOnce
  <2> QED BY <1>1, <1>3, <2>1, <2>3, <2>4, <2>5, <2>6, ImportKeeps
<1>6. CASE AddToBatch
  <2>1. /\ Importing /\ Importing' /\ rows' = rows
        /\ UNCHANGED <<imports, before>> /\ TakeLine(batch)
    BY <1>6 DEF AddToBatch, TakeLine, Importing
  <2>2. PICK q \in Posts :
          /\ Written(q) /\ ~Read(q)
          /\ batch' = batch \cup {q}
          /\ \A x \in Posts : Read(x)' <=> Read(x) \/ x = q
    BY <2>1, TakeFacts
  <2>3. BatchIsRead' BY <1>2, <2>1, <2>2 DEF BatchIsRead
  <2>4. ImportedRows' BY <1>4, <2>1, <2>2 DEF ImportedRows
  <2>5. BeforeIsPast' BY <2>1 DEF BeforeIsPast
  <2>6. ImportedOnce' BY <1>4, <2>1 DEF ImportedOnce
  <2> QED BY <1>1, <1>3, <2>1, <2>3, <2>4, <2>5, <2>6, ImportKeeps
<1>7. CASE UpdateAndAdd
  <2>1. /\ Importing /\ Importing' /\ Insert(batch)
        /\ UNCHANGED <<imports, before>> /\ TakeLine({})
    BY <1>7 DEF UpdateAndAdd, TakeLine, Importing
  <2>2. PICK q \in Posts :
          /\ Written(q) /\ ~Read(q)
          /\ batch' = {} \cup {q}
          /\ \A x \in Posts : Read(x)' <=> Read(x) \/ x = q
    BY <2>1, TakeFacts
  <2>3. \A x \in batch : Read(x) /\ Written(x)
    BY <1>1, <1>2, <2>1, ReadIsWritten DEF BatchIsRead
  <2>4. \A x \in Posts :
          rows'[x] = IF x \in batch THEN rows[x] + 1 ELSE rows[x]
    BY <1>1, <2>1, InsertFacts
  <2>5. BatchIsRead' BY <2>2 DEF BatchIsRead
  <2>6. ImportedRows'
    BY <1>1, <1>2, <1>4, <2>1, <2>2, <2>3, <2>4 DEF ImportedRows
  <2>7. BeforeIsPast' BY <1>1, <1>2, <2>1, <2>4 DEF BeforeIsPast
  <2>8. ImportedOnce'
    <3>1. \A x \in Posts : Written(x) => rows'[x] <= imports
      BY <1>1, <1>2, <2>1, <2>3, <2>4 DEF ImportedRows, ImportedOnce
    <3> QED BY <1>4, <2>1, <2>3, <2>4, <3>1 DEF ImportedOnce
  <2> QED BY <1>1, <1>3, <2>3, <2>4, <2>5, <2>6, <2>7, <2>8, ImportKeeps
<1>8. CASE BatchRefused \/ EndOfFile \/ ImportFails
  <2>1. /\ Importing
        /\ UNCHANGED <<rows, batch, at, imports, before>>
    BY <1>8 DEF BatchRefused, EndOfFile, ImportFails, Importing, database
  <2>2. \A x \in Posts : Read(x)' <=> Read(x) BY <1>3, <2>1 DEF Read
  <2>3. BatchIsRead' BY <1>2, <2>1, <2>2 DEF BatchIsRead
  <2>4. ImportedRows' BY <1>4, <2>1, <2>2 DEF ImportedRows
  <2>5. BeforeIsPast' /\ ImportedOnce'
    BY <1>4, <2>1 DEF BeforeIsPast, ImportedOnce
  <2> QED BY <1>1, <1>3, <2>1, <2>3, <2>4, <2>5, ImportKeeps
<1>9. CASE LastUpdate
  <2>1. /\ Importing /\ ~Importing' /\ Insert(batch)
        /\ UNCHANGED <<imports, before>>
    BY <1>9 DEF LastUpdate, Importing
  <2>2. \A x \in batch : Read(x) /\ Written(x)
    BY <1>1, <1>2, <2>1, ReadIsWritten DEF BatchIsRead
  <2>3. \A x \in Posts :
          rows'[x] = IF x \in batch THEN rows[x] + 1 ELSE rows[x]
    BY <1>1, <2>1, InsertFacts
  <2>4. BatchIsRead' /\ ImportedRows'
    BY <2>1 DEF BatchIsRead, ImportedRows
  <2>5. BeforeIsPast' BY <1>1, <1>2, <2>1, <2>3 DEF BeforeIsPast
  <2>6. ImportedOnce'
    <3>1. \A x \in Posts : Written(x) => rows'[x] <= imports
      BY <1>1, <1>2, <2>1, <2>2, <2>3 DEF ImportedRows, ImportedOnce
    <3> QED BY <1>4, <2>1, <2>2, <2>3, <3>1 DEF ImportedOnce
  <2> QED BY <1>1, <1>3, <2>2, <2>3, <2>4, <2>5, <2>6, ImportKeeps
<1> QED BY <1>5, <1>6, <1>7, <1>8, <1>9 DEF Import

LEMMA InvStep == IInv /\ [Next]_vars => IInv'
<1> SUFFICES ASSUME IInv, [Next]_vars PROVE IInv'
  OBVIOUS
<1>1. TypeOK' BY TypeStep DEF IInv
<1>2. CASE UNCHANGED vars
  <2>1. UNCHANGED <<rows, pc, file, import, batch, at, imports, before>>
    BY <1>2 DEF vars, database, script
  <2> QED BY <1>1, <2>1
          DEF IInv, NothingWrittenYet, OwnRows, LastWrite, RestIsMissing,
              OneLine, BatchIsRead, ImportedRows, BeforeIsPast, ImportedOnce,
              Importing, Written, Filed, Read
<1>3. CASE Register
  <2>1. UNCHANGED <<rows, pc, file, import, batch, at, imports, before>>
    BY <1>3 DEF Register, script
  <2> QED BY <1>1, <2>1
          DEF IInv, NothingWrittenYet, OwnRows, LastWrite, RestIsMissing,
              OneLine, BatchIsRead, ImportedRows, BeforeIsPast, ImportedOnce,
              Importing, Written, Filed, Read
<1>4. CASE Import
  BY <1>1, <1>4, ImportStep
<1>5. CASE \E p \in Posts : Receive(p)
  <2>1. PICK p \in Posts : Receive(p) BY <1>5
  <2>2. CASE \/ Post(p) \/ Connect(p) \/ Unavailable(p) \/ FindSource(p)
             \/ InsertSource(p) \/ DatabaseRaises(p) \/ FindDirectory(p)
             \/ MakeDirectory(p) \/ OwnDirectory(p) \/ ControllerRaises(p)
    <3>1. /\ UNCHANGED <<rows, file, script>>
          /\ pc[p] # "accepted"
      BY <2>2 DEF Post, Connect, Unavailable, FindSource, InsertSource,
                  DatabaseRaises, FindDirectory, MakeDirectory, OwnDirectory,
                  ControllerRaises, GoTo, database
    <3>2. PICK q \in Places \ {"accepted", "rest"} :
             /\ pc' = [pc EXCEPT ![p] = q]
             /\ q = "failed" \/ pc[p] \notin {"rest", "failed"}
      BY <2>2 DEF Post, Connect, Unavailable, FindSource, InsertSource,
                  DatabaseRaises, FindDirectory, MakeDirectory, OwnDirectory,
                  ControllerRaises, GoTo, Places
    <3> QED BY <1>1, <3>1, <3>2, QuietStep
  <2>3. CASE InsertRows(p)
    BY <1>1, <2>3, RowsStep
  <2>4. CASE AppendLine(p)
    <3>1. "whole" \in Parts BY DEF Parts
    <3>2. UNCHANGED <<rows, script>> BY <2>4 DEF AppendLine, database
    <3> QED BY <1>1, <2>4, <3>1, <3>2, WriteStep DEF AppendLine, GoTo
  <2>5. CASE AppendBegin(p)
    <3>1. "begin" \in Parts BY DEF Parts
    <3>2. UNCHANGED <<rows, script>> BY <2>5 DEF AppendBegin, database
    <3> QED BY <1>1, <2>5, <3>1, <3>2, WriteStep DEF AppendBegin, GoTo
  <2>6. CASE AppendEnd(p)
    <3>1. "end" \in Parts BY DEF Parts
    <3>2. UNCHANGED <<rows, script>> BY <2>6 DEF AppendEnd, database
    <3> QED BY <1>1, <2>6, <3>1, <3>2, WriteStep DEF AppendEnd, GoTo
  <2> QED BY <2>1, <2>2, <2>3, <2>4, <2>5, <2>6 DEF Receive
<1> QED BY <1>2, <1>3, <1>4, <1>5 DEF Next

\* The inductive invariant holds in every behaviour.
THEOREM InvariantHolds == Spec => []IInv
<1>1. Init => IInv BY InvInit
<1>2. IInv /\ [Next]_vars => IInv' BY InvStep
<1> QED BY <1>1, <1>2, PTL DEF Spec

\* Statuses that status.py accepts are in the database or in the file.
THEOREM NothingIsLost == Spec => []AcceptedIsStored
<1>1. IInv => AcceptedIsStored
  BY DEF IInv, AcceptedIsStored, OwnRows, LastWrite
<1> QED BY <1>1, InvariantHolds, PTL

\* Nothing is in the database more often than it was imported.
THEOREM NothingIsDoubled == Spec => []ImportedOnce
<1>1. IInv => ImportedOnce BY DEF IInv
<1> QED BY <1>1, InvariantHolds, PTL

\* What add_batch was given is in the batch or in the database.
THEOREM BatchIsIntact == Spec => []ReadIsIntact
<1>1. IInv => ReadIsIntact
  <2> SUFFICES ASSUME IInv, Importing, NEW i \in 1..at
               PROVE  rows[file[i].post] = before[file[i].post] +
                        (IF file[i].post \in batch THEN 0 ELSE 1)
    BY DEF ReadIsIntact, Importing
  <2>1. i \in 1..Len(file) BY DEF IInv, TypeOK
  <2>2. file[i] \in Writes BY <2>1 DEF IInv, TypeOK
  <2>3. file[i].post \in Posts BY <2>2 DEF Writes
  <2>4. Written(file[i].post) /\ Read(file[i].post) BY <2>1 DEF Written, Read
  <2> QED BY <2>3, <2>4 DEF IInv, ImportedRows
<1> QED BY <1>1, InvariantHolds, PTL

(***************************************************************************)
(* ScrapeSchedule                                                          *)
(***************************************************************************)
\* What is known of the ages; their definitions have no part in the rest.
LEMMA AgeBounds ==
  /\ MaxAge \in Nat /\ MaxAge > 0
  /\ MaxAge = Days * DayLength + 3 * Drift
  /\ NoDate \in Int /\ NoDate < -MaxAge /\ NoDate \notin -MaxAge .. MaxAge
  /\ 3 * Drift <= MaxAge /\ Days * DayLength \in Nat
<1>1. Days * DayLength \in Nat /\ Drift \in Nat /\ Drift > 0
  BY ScheduleAssumption
<1> QED BY <1>1 DEF MaxAge, NoDate

LEMMA MinOfTwo ==
  ASSUME NEW a \in Int, NEW b \in Int
  PROVE  Min({a, b}) = IF a <= b THEN a ELSE b
<1>1. PICK c \in {a, b} : c = Min({a, b}) /\ \A y \in {a, b} : c <= y
  <2>1. \E x \in {a, b} : \A y \in {a, b} : x <= y
    BY a <= b \/ b <= a
  <2> QED BY <2>1 DEF Min
<1> QED BY <1>1

\* A quotient by the days is between those of the bounds.
LEMMA QuotientBounds ==
  ASSUME NEW d \in Nat \ {0}, NEW k \in Nat, NEW x \in Int, -(k * d) <= x, x <= k * d
  PROVE  x \div d \in -k .. k
<1> DEFINE q == x \div d
<1>1. q \in Int /\ d * q <= x /\ x < d * q + d
  OBVIOUS
<1>2. q <= k
  <2> SUFFICES ASSUME q >= k + 1 PROVE FALSE
    BY <1>1
  <2>1. d * q >= d * (k + 1)
    BY <1>1
  <2> QED BY <1>1, <2>1
<1>3. q >= -k
  <2> SUFFICES ASSUME q <= -k - 1 PROVE FALSE
    BY <1>1
  <2>1. d * q <= d * (-k - 1)
    BY <1>1
  <2> QED BY <1>1, <2>1
<1> QED BY <1>1, <1>2, <1>3

LEMMA ProductBounds ==
  ASSUME NEW d \in Nat \ {0}, NEW r \in Nat, NEW t \in Int, NEW h \in Int,
         -d <= t, t <= 3 * d, -r <= h, h <= r
  PROVE  /\ t * h \in Int
         /\ -((3 * r) * d) <= t * h /\ t * h <= (3 * r) * d
<1>1. CASE h >= 0
  <2>1. t * h <= (3 * d) * h /\ (-d) * h <= t * h
    BY <1>1
  <2>2. d * h <= d * r /\ d * h >= 0
    BY <1>1
  <2> QED BY <2>1, <2>2
<1>2. CASE h < 0
  <2>1. t * h >= (3 * d) * h /\ (-d) * h >= t * h
    BY <1>2
  <2>2. d * (-h) <= d * r /\ d * (-h) >= 0
    BY <1>2
  <2> QED BY <2>1, <2>2
<1> QED BY <1>1, <1>2

\* _calculate_drift, for every day and every hash: the skew is at most three
\* times the drift.
LEMMA DriftIsBounded ==
  ASSUME ScheduleTypeOK, NEW p \in Agents
  PROVE  /\ CalculateDrift(p) \in Days * DayLength - 3 * Drift .. Days * DayLength + 3 * Drift
         /\ CalculateDrift(p) \in -MaxAge .. MaxAge
<1>1. Days \in Nat \ {0} /\ Drift \in Nat
  BY ScheduleAssumption
<1>2. Toggle \in Int /\ -Days <= Toggle /\ Toggle <= 3 * Days
  BY <1>1 DEF Toggle, ScheduleTypeOK
<1>3. hashed[p] \in Int /\ -Drift <= hashed[p] /\ hashed[p] <= Drift
  BY <1>1 DEF ScheduleTypeOK
<1>4. /\ Toggle * hashed[p] \in Int
      /\ -((3 * Drift) * Days) <= Toggle * hashed[p]
      /\ Toggle * hashed[p] <= (3 * Drift) * Days
  BY <1>1, <1>2, <1>3, ProductBounds
<1>5. (Toggle * hashed[p]) \div Days \in -(3 * Drift) .. 3 * Drift
  BY <1>1, <1>4, QuotientBounds
<1> QED BY <1>1, <1>5, AgeBounds DEF CalculateDrift

LEMMA OlderAges ==
  ASSUME NEW ages \in [Agents -> Ages]
  PROVE  /\ Older(ages) \in [Agents -> Ages]
         /\ \A p \in Agents : Older(ages)[p] = NoDate <=> ages[p] = NoDate
         /\ \A p \in Agents : ages[p] # NoDate =>
               Older(ages)[p] = IF ages[p] + 1 <= MaxAge THEN ages[p] + 1 ELSE MaxAge
<1> SUFFICES ASSUME NEW p \in Agents
             PROVE  /\ Older(ages)[p] \in Ages
                    /\ Older(ages)[p] = NoDate <=> ages[p] = NoDate
                    /\ ages[p] # NoDate =>
                          Older(ages)[p] = IF ages[p] + 1 <= MaxAge THEN ages[p] + 1 ELSE MaxAge
  BY DEF Older
<1>1. CASE ages[p] = NoDate
  BY <1>1 DEF Older, Ages
<1>2. CASE ages[p] # NoDate
  <2>1. ages[p] \in -MaxAge .. MaxAge /\ MaxAge \in Nat
    BY <1>2, AgeBounds DEF Ages
  <2>2. Older(ages)[p] = IF ages[p] + 1 <= MaxAge THEN ages[p] + 1 ELSE MaxAge
    BY <1>2, <2>1, MinOfTwo DEF Older
  <2>3. Older(ages)[p] \in -MaxAge .. MaxAge
    BY <2>1, <2>2
  <2> QED BY <1>2, <2>2, <2>3, AgeBounds DEF Ages
<1> QED BY <1>1, <1>2

(***************************************************************************)
(* Types of the schedule                                                   *)
(***************************************************************************)
LEMMA ScheduleTypeInit == ScheduleInit => ScheduleTypeOK
<1> SUFFICES ASSUME ScheduleInit PROVE ScheduleTypeOK
  OBVIOUS
<1>1. Days \in Nat \ {0} /\ DayLength \in Nat \ {0} /\ Len(AgentKeys) \in Nat
  BY ScheduleAssumption
<1>2. 1 % (2 * Days) \in 0 .. 2 * Days - 1
  BY <1>1
<1>3. NoDate \in Ages /\ 0 \in 0 .. MaxAge
  BY AgeBounds DEF Ages
<1>4. scrapes \in [Starters -> [pc : ScrapePlaces, key : 1 .. Len(AgentKeys) + 1,
                                since : 0 .. MaxAge, waited : Ages]]
  BY <1>1, <1>3 DEF ScheduleInit, ScrapePlaces
<1>5. /\ trackerDate \in [Agents -> Ages] /\ dateFile \in [Agents -> Ages]
      /\ sentDate \in [Agents -> Ages] /\ collected \in [Agents -> Ages]
  BY <1>3 DEF ScheduleInit
<1> QED BY <1>1, <1>2, <1>4, <1>5 DEF ScheduleInit, ScheduleTypeOK

LEMMA CurrentProject ==
  ASSUME ScheduleTypeOK, NEW s \in Starters, scrapes[s].pc \in {"preflight", "collect"}
  PROVE  AgentKeys[scrapes[s].key] \in Agents
<1>1. scrapes[s].key \in 1 .. Len(AgentKeys)
  BY ScheduleAssumption DEF ScheduleTypeOK
<1> QED BY <1>1, ScheduleAssumption DEF Agents

Runs == [pc : ScrapePlaces, key : 1 .. Len(AgentKeys) + 1, since : 0 .. MaxAge, waited : Ages]

\* A script that goes on keeps what it does not set.
LEMMA RunUpdates ==
  ASSUME ScheduleTypeOK, NEW s \in Starters, NEW place \in ScrapePlaces,
         NEW key \in 1 .. Len(AgentKeys) + 1, NEW waited \in Ages
  PROVE  /\ [scrapes EXCEPT ![s].pc = place, ![s].key = key] \in [Starters -> Runs]
         /\ [scrapes EXCEPT ![s].pc = place] \in [Starters -> Runs]
         /\ [scrapes EXCEPT ![s].pc = place, ![s].waited = waited] \in [Starters -> Runs]
<1> DEFINE K == 1 .. Len(AgentKeys) + 1
           N == 0 .. MaxAge
<1>1. scrapes \in [Starters -> [pc : ScrapePlaces, key : K, since : N, waited : Ages]]
  BY DEF ScheduleTypeOK
<1>2. Runs = [pc : ScrapePlaces, key : K, since : N, waited : Ages]
  BY DEF Runs
<1>3. key \in K
  OBVIOUS
<1> HIDE DEF K, N
<1> QED BY <1>1, <1>2, <1>3

\* scrape.sh goes on with the next project.
LEMMA EndRunType ==
  ASSUME ScheduleTypeOK, NEW s \in Starters, scrapes[s].pc \in {"preflight", "collect"}, EndRun(s)
  PROVE  /\ scrapes' \in [Starters -> [pc : ScrapePlaces, key : 1 .. Len(AgentKeys) + 1,
                                       since : 0 .. MaxAge, waited : Ages]]
         /\ \A t \in Starters :
               scrapes'[t].pc \in {"preflight", "collect"} => scrapes'[t].key <= Len(AgentKeys)
<1>1. scrapes[s].key \in 1 .. Len(AgentKeys) /\ Len(AgentKeys) \in Nat
  BY ScheduleAssumption DEF ScheduleTypeOK
<1>2. scrapes[s].key + 1 \in 1 .. Len(AgentKeys) + 1
  BY <1>1
<1>3. 0 \in 0 .. MaxAge /\ NoDate \in Ages
  BY AgeBounds DEF Ages
<1>4. scrapes' = [scrapes EXCEPT ![s] = [pc |-> "begun", key |-> scrapes[s].key + 1,
                                        since |-> 0, waited |-> NoDate]]
  BY DEF EndRun, ScheduleTypeOK
<1> QED BY <1>2, <1>3, <1>4 DEF ScheduleTypeOK, ScrapePlaces

LEMMA ScheduleTypeStep == ScheduleTypeOK /\ [ScheduleNext]_scheduleVars => ScheduleTypeOK'
<1> SUFFICES ASSUME ScheduleTypeOK, [ScheduleNext]_scheduleVars PROVE ScheduleTypeOK'
  OBVIOUS
<1> USE DEF ScheduleTypeOK
<1>0. 0 \in 0 .. MaxAge /\ 0 \in Ages /\ NoDate \in Ages /\ Len(AgentKeys) \in Nat
  BY AgeBounds, ScheduleAssumption DEF Ages
<1>1. CASE UNCHANGED scheduleVars
  BY <1>1 DEF scheduleVars, clockVars, ageVars
<1>2. CASE Tick
  <2>1. hour' \in 0 .. DayLength - 1
    BY <1>2, ScheduleAssumption DEF Tick
  <2>2. yearDay' \in 0 .. 2 * Days - 1
    BY <1>2, ScheduleAssumption DEF Tick
  <2>3. /\ trackerDate' \in [Agents -> Ages] /\ dateFile' \in [Agents -> Ages]
        /\ sentDate' \in [Agents -> Ages] /\ collected' \in [Agents -> Ages]
    BY <1>2, OlderAges DEF Tick
  <2>4. \A s \in Starters :
           /\ scrapes'[s] \in [pc : ScrapePlaces, key : 1 .. Len(AgentKeys) + 1,
                               since : 0 .. MaxAge, waited : Ages]
           /\ scrapes'[s].pc = scrapes[s].pc /\ scrapes'[s].key = scrapes[s].key
    <3> SUFFICES ASSUME NEW s \in Starters
                 PROVE  /\ scrapes'[s] \in [pc : ScrapePlaces, key : 1 .. Len(AgentKeys) + 1,
                                             since : 0 .. MaxAge, waited : Ages]
                        /\ scrapes'[s].pc = scrapes[s].pc /\ scrapes'[s].key = scrapes[s].key
      OBVIOUS
    <3>1. scrapes[s].since + 1 \in Int /\ scrapes[s].since >= 0 /\ MaxAge \in Nat
      BY AgeBounds
    <3>2. Min({scrapes[s].since + 1, MaxAge}) \in 0 .. MaxAge
      BY <3>1, MinOfTwo
    <3> QED BY <1>2, <3>2 DEF Tick
  <2>5. scrapes' = [s \in Starters |-> scrapes'[s]]
    BY <1>2 DEF Tick
  <2> QED BY <1>2, <2>1, <2>2, <2>3, <2>4, <2>5 DEF Tick
<1>3. CASE RestartGatherer
  BY <1>3 DEF RestartGatherer, ageVars
<1>4. ASSUME NEW p \in Agents, UpdateTrackerSchedule(p) PROVE ScheduleTypeOK'
  <2>1. \A age \in {0, BadDate, CalculateDrift(p)} : age \in Ages
    BY <1>0, AgeBounds, DriftIsBounded DEF Ages, BadDate
  <2> QED BY <1>4, <2>1 DEF UpdateTrackerSchedule, PutContent, clockVars
<1>5. ASSUME NEW p \in Agents, ImportTrackers(p) PROVE ScheduleTypeOK'
  BY <1>0, <1>5 DEF ImportTrackers, clockVars
<1>6. ASSUME NEW s \in Starters, Scrape(s) PROVE ScheduleTypeOK'
  <2>1. scrapes' = [scrapes EXCEPT ![s].pc = "begun", ![s].key = 1]
    BY <1>6 DEF Scrape
  <2>2. "begun" \in ScrapePlaces /\ 1 \in 1 .. Len(AgentKeys) + 1
    BY <1>0 DEF ScrapePlaces
  <2>3. scrapes' \in [Starters -> [pc : ScrapePlaces, key : 1 .. Len(AgentKeys) + 1,
                                  since : 0 .. MaxAge, waited : Ages]]
    BY <1>0, <2>1, <2>2, RunUpdates DEF Runs
  <2>4. \A t \in Starters :
           scrapes'[t].pc \in {"preflight", "collect"} => scrapes'[t].key <= Len(AgentKeys)
    <3> SUFFICES ASSUME NEW t \in Starters, scrapes'[t].pc \in {"preflight", "collect"}
                 PROVE  scrapes'[t].key <= Len(AgentKeys)
      OBVIOUS
    <3>1. CASE t = s
      BY <1>0, <2>1, <2>2, <3>1
    <3>2. CASE t # s
      BY <2>1, <2>2, <3>2
    <3> QED BY <3>1, <3>2
  <2> QED BY <1>6, <2>3, <2>4 DEF Scrape, clockVars, ageVars
<1>7. ASSUME NEW s \in Starters, NextProject(s) PROVE ScheduleTypeOK'
  <2> DEFINE place == IF scrapes[s].key > Len(AgentKeys) THEN "idle" ELSE "preflight"
  <2>1. scrapes' = [scrapes EXCEPT ![s].pc = place]
    BY <1>7 DEF NextProject, Goes
  <2>2. scrapes[s].key \in Nat
    BY <1>0
  <2>3. place \in ScrapePlaces /\ (place \in {"preflight", "collect"} => scrapes[s].key <= Len(AgentKeys))
    BY <1>0, <2>2 DEF ScrapePlaces
  <2> HIDE DEF place
  <2>4. scrapes' \in [Starters -> [pc : ScrapePlaces, key : 1 .. Len(AgentKeys) + 1,
                                  since : 0 .. MaxAge, waited : Ages]]
    BY <1>0, <2>1, <2>3, RunUpdates DEF Runs
  <2>5. \A t \in Starters :
           scrapes'[t].pc \in {"preflight", "collect"} => scrapes'[t].key <= Len(AgentKeys)
    <3> SUFFICES ASSUME NEW t \in Starters, scrapes'[t].pc \in {"preflight", "collect"}
                 PROVE  scrapes'[t].key <= Len(AgentKeys)
      OBVIOUS
    <3>1. CASE t = s
      BY <2>1, <2>3, <3>1
    <3>2. CASE t # s
      BY <2>1, <2>3, <3>2
    <3> QED BY <3>1, <3>2
  <2> QED BY <1>7, <2>4, <2>5 DEF NextProject, clockVars, ageVars
<1>8. ASSUME NEW s \in Starters, Preflight(s) PROVE ScheduleTypeOK'
  <2> DEFINE p == AgentKeys[scrapes[s].key]
  <2>1. p \in Agents
    BY <1>8, CurrentProject DEF Preflight
  <2>2. CASE EndRun(s) /\ UNCHANGED dateFile
    BY <1>8, <2>2, EndRunType DEF Preflight, clockVars
  <2>3. CASE /\ dateFile' = [dateFile EXCEPT ![p] = 0]
             /\ scrapes' = [scrapes EXCEPT ![s].pc = "collect", ![s].waited = trackerDate[p]]
    BY <1>0, <1>8, <2>1, <2>3 DEF Preflight, clockVars, ScrapePlaces
  <2> QED BY <1>8, <2>2, <2>3 DEF Preflight
<1>9. ASSUME NEW s \in Starters, CollectAll(s) PROVE ScheduleTypeOK'
  <2> DEFINE p == AgentKeys[scrapes[s].key]
  <2>1. p \in Agents
    BY <1>9, CurrentProject DEF CollectAll
  <2>2. scrapes[s].since \in Ages /\ collected[p] \in Ages
    BY <2>1, AgeBounds DEF Ages
  <2>3. collected[p] \in Int /\ scrapes[s].since \in Int
    BY <2>2, AgeBounds DEF Ages
  <2>4. Min({collected[p], scrapes[s].since}) \in {collected[p], scrapes[s].since}
    BY <2>3, MinOfTwo
  <2> QED BY <1>9, <2>1, <2>2, <2>4, EndRunType DEF CollectAll, clockVars
<1>10. ASSUME NEW s \in Starters, CollectFails(s) PROVE ScheduleTypeOK'
  BY <1>10, EndRunType DEF CollectFails, clockVars, ageVars
<1> QED BY <1>1, <1>2, <1>3, <1>4, <1>5, <1>6, <1>7, <1>8, <1>9, <1>10 DEF ScheduleNext

\* The types of the schedule hold for any projects, days, drift and length of a day.
THEOREM ScheduleTypeCorrect == ScheduleSpec => []ScheduleTypeOK
  BY ScheduleTypeInit, ScheduleTypeStep, PTL DEF ScheduleSpec

(***************************************************************************)
(* SkewIsBounded: what cron was let through with                           *)
(***************************************************************************)
WaitedLongEnough ==
    scrapes["cron"].pc = "collect" =>
        scrapes["cron"].waited \in {NoDate} \cup (Days * DayLength - 3 * Drift .. MaxAge)

\* The status page says "ok" only if the schedule allows it.
LEMMA OkMeansAllowed ==
  ASSUME NEW p, NEW faults, Answer(p, faults) = "ok"
  PROVE  TrackerStatus(p)
<1>1. DatabaseStatus(faults) /\ ScheduleStatus(p, faults)
  BY DEF Answer, TotalStatus
<1> QED BY <1>1 DEF DatabaseStatus, ScheduleStatus

LEMMA AllowedMeansWaited ==
  ASSUME ScheduleTypeOK, NEW p \in Agents, TrackerStatus(p)
  PROVE  trackerDate[p] \in {NoDate} \cup (Days * DayLength - 3 * Drift .. MaxAge)
<1>1. CalculateDrift(p) \in Int /\ CalculateDrift(p) >= Days * DayLength - 3 * Drift
  BY DriftIsBounded, AgeBounds, ScheduleAssumption
<1>2. trackerDate[p] = NoDate \/ trackerDate[p] \in -MaxAge .. MaxAge
  BY DEF ScheduleTypeOK, Ages
<1> QED BY <1>1, <1>2, AgeBounds, ScheduleAssumption DEF TrackerStatus, TrackerSchedule

LEMMA WaitedStep ==
  ASSUME ScheduleTypeOK, WaitedLongEnough, [ScheduleNext]_scheduleVars
  PROVE  WaitedLongEnough'
<1> DEFINE Enough == {NoDate} \cup (Days * DayLength - 3 * Drift .. MaxAge)
<1> SUFFICES ASSUME scrapes'["cron"].pc = "collect"
             PROVE  scrapes'["cron"].waited \in Enough
  BY DEF WaitedLongEnough, NoDate, MaxAge
<1>0. /\ "cron" \in Starters
      /\ scrapes["cron"].pc = "collect" => scrapes["cron"].waited \in Enough
      /\ scrapes \in [Starters -> Runs]
  BY DEF WaitedLongEnough, Starters, Runs, ScheduleTypeOK
<1> HIDE DEF Enough
<1>1. CASE UNCHANGED scrapes
  BY <1>0, <1>1
<1>2. CASE Tick
  BY <1>0, <1>2 DEF Tick, Runs
<1>3. ASSUME NEW s \in Starters, Scrape(s) \/ NextProject(s) \/ EndRun(s)
      PROVE  scrapes'["cron"].waited \in Enough
  <2>1. CASE Scrape(s)
    BY <1>0, <2>1 DEF Scrape, Runs
  <2>2. CASE NextProject(s)
    BY <1>0, <2>2 DEF NextProject, Goes, Runs
  <2>3. CASE EndRun(s)
    BY <1>0, <2>3 DEF EndRun, Runs
  <2> QED BY <1>3, <2>1, <2>2, <2>3
<1>4. ASSUME NEW s \in Starters, Preflight(s)
      PROVE  scrapes'["cron"].waited \in Enough
  <2> DEFINE p == AgentKeys[scrapes[s].key]
  <2>1. p \in Agents
    BY <1>4, CurrentProject DEF Preflight
  <2>2. PICK faults \in FaultsAtOnce :
           IF Passes(s, p, faults)
           THEN scrapes' = [scrapes EXCEPT ![s].pc = "collect", ![s].waited = trackerDate[p]]
           ELSE EndRun(s)
    BY <1>4 DEF Preflight
  <2>3. CASE ~Passes(s, p, faults)
    BY <1>3, <2>2, <2>3
  <2>4. CASE Passes(s, p, faults) /\ s = "cron"
    <3>1. trackerDate[p] \in Enough
      BY <2>1, <2>4, OkMeansAllowed, AllowedMeansWaited DEF Passes, Enough
    <3> HIDE DEF p
    <3> QED BY <1>0, <2>2, <2>4, <3>1 DEF Runs
  <2>5. CASE Passes(s, p, faults) /\ s # "cron"
    <3> HIDE DEF p
    <3> QED BY <1>0, <2>2, <2>5 DEF Runs
  <2> QED BY <2>3, <2>4, <2>5
<1>5. CASE RestartGatherer \/ \E p \in Agents : UpdateTrackerSchedule(p) \/ ImportTrackers(p)
  BY <1>1, <1>5 DEF RestartGatherer, UpdateTrackerSchedule, ImportTrackers
<1>6. ASSUME NEW s \in Starters, CollectAll(s) \/ CollectFails(s)
      PROVE  scrapes'["cron"].waited \in Enough
  BY <1>3, <1>6 DEF CollectAll, CollectFails
<1> QED BY <1>1, <1>2, <1>3, <1>4, <1>5, <1>6 DEF ScheduleNext, scheduleVars

LEMMA SkewFromType ==
  ASSUME ScheduleTypeOK, WaitedLongEnough
  PROVE  SkewIsBounded
<1>1. ASSUME NEW p \in Agents, trackerDate[p] >= Days * DayLength + 3 * Drift
      PROVE  TrackerStatus(p)
  <2>1. trackerDate[p] = NoDate \/ trackerDate[p] \in -MaxAge .. MaxAge
    BY DEF ScheduleTypeOK, Ages
  <2>2. CalculateDrift(p) \in Int /\ CalculateDrift(p) <= Days * DayLength + 3 * Drift
    BY DriftIsBounded, AgeBounds, ScheduleAssumption
  <2> QED BY <1>1, <2>1, <2>2, AgeBounds, ScheduleAssumption DEF TrackerStatus, TrackerSchedule
<1> QED BY <1>1 DEF SkewIsBounded, SkewIsAtMost, WaitedLongEnough

\* For any days, drift, length of a day, hash and process of the daemon, the
\* true division of _calculate_drift skews the schedule by at most three times
\* the drift.
THEOREM SkewHolds == ScheduleSpec => []SkewIsBounded
<1>1. ScheduleInit => WaitedLongEnough
  BY DEF ScheduleInit, WaitedLongEnough, Starters
<1>2. ScheduleTypeOK /\ WaitedLongEnough /\ [ScheduleNext]_scheduleVars => WaitedLongEnough'
  BY WaitedStep
<1>3. ScheduleTypeOK /\ WaitedLongEnough => SkewIsBounded
  BY SkewFromType
<1> QED BY <1>1, <1>2, <1>3, ScheduleTypeCorrect, PTL DEF ScheduleSpec

(***************************************************************************)
(* ScheduleFollowsCollections, when nobody starts a scrape while another   *)
(* one is starting or pausing: the file of a run is as old as the run.     *)
(***************************************************************************)
NoNewer(dates) ==
    \A p \in Agents : dates[p] # NoDate => collected[p] # NoDate /\ collected[p] <= dates[p]
RowsAreNoNewer ==
    \A p \in Agents \ claimed :
        trackerDate[p] # NoDate => collected[p] # NoDate /\ collected[p] <= trackerDate[p]
RunsAreNoOlder ==
    \A s \in Starters :
        IF scrapes[s].pc = "collect" THEN scrapes[s].since <= dateFile[AgentKeys[scrapes[s].key]]
        ELSE scrapes[s].since = 0
OneScrape ==
    \A s, other \in Starters : s # other => scrapes[s].pc = "idle" \/ scrapes[other].pc = "idle"

DatesFollow == RowsAreNoNewer /\ NoNewer(sentDate) /\ RunsAreNoOlder /\ OneScrape

LEMMA OneScrapeStep ==
  ASSUME ApartRuns, ScheduleTypeOK, OneScrape, [ScheduleNext]_scheduleVars
  PROVE  OneScrape'
<1> USE DEF OneScrape
<1>0. scrapes \in [Starters -> Runs]
  BY DEF ScheduleTypeOK, Runs
<1>1. CASE UNCHANGED scrapes
  BY <1>1
<1>2. CASE Tick
  BY <1>0, <1>2 DEF Tick, Runs
<1>3. ASSUME NEW s \in Starters, Scrape(s) PROVE OneScrape'
  BY <1>0, <1>3 DEF Scrape, Apart, Runs
<1>4. ASSUME NEW s \in Starters, scrapes[s].pc # "idle",
             \A t \in Starters \ {s} : scrapes'[t].pc = scrapes[t].pc
      PROVE  OneScrape'
  BY <1>4
<1>5. ASSUME NEW s \in Starters, NextProject(s) PROVE OneScrape'
  BY <1>0, <1>4, <1>5 DEF NextProject, Goes, Runs
<1>6. ASSUME NEW s \in Starters, Preflight(s) PROVE OneScrape'
  BY <1>0, <1>4, <1>6 DEF Preflight, EndRun, Runs
<1>7. ASSUME NEW s \in Starters, CollectAll(s) \/ CollectFails(s) PROVE OneScrape'
  BY <1>0, <1>4, <1>7 DEF CollectAll, CollectFails, EndRun, Runs
<1>8. CASE RestartGatherer \/ \E p \in Agents : UpdateTrackerSchedule(p) \/ ImportTrackers(p)
  BY <1>1, <1>8 DEF RestartGatherer, UpdateTrackerSchedule, ImportTrackers
<1> QED BY <1>1, <1>2, <1>3, <1>5, <1>6, <1>7, <1>8 DEF ScheduleNext, scheduleVars

\* Time keeps the order of two ages.
LEMMA OlderKeepsOrder ==
  ASSUME NEW a \in [Agents -> Ages], NEW b \in [Agents -> Ages], NEW p \in Agents,
         a[p] # NoDate => b[p] # NoDate /\ b[p] <= a[p]
  PROVE  Older(a)[p] # NoDate => Older(b)[p] # NoDate /\ Older(b)[p] <= Older(a)[p]
<1> SUFFICES ASSUME a[p] # NoDate
             PROVE  Older(b)[p] # NoDate /\ Older(b)[p] <= Older(a)[p]
  BY OlderAges
<1>1. a[p] \in Int /\ b[p] \in Int /\ b[p] <= a[p] /\ b[p] # NoDate
  BY AgeBounds DEF Ages
<1>2. Older(a)[p] = IF a[p] + 1 <= MaxAge THEN a[p] + 1 ELSE MaxAge
  BY OlderAges
<1>3. Older(b)[p] = (IF b[p] + 1 <= MaxAge THEN b[p] + 1 ELSE MaxAge) /\ Older(b)[p] # NoDate
  BY <1>1, OlderAges
<1> QED BY <1>1, <1>2, <1>3, AgeBounds

LEMMA TickKeepsDates ==
  ASSUME ScheduleTypeOK, DatesFollow, Tick
  PROVE  RowsAreNoNewer' /\ NoNewer(sentDate)' /\ RunsAreNoOlder'
<1>1. RowsAreNoNewer'
  BY OlderKeepsOrder DEF ScheduleTypeOK, DatesFollow, RowsAreNoNewer, Tick
<1>2. NoNewer(sentDate)'
  BY OlderKeepsOrder DEF ScheduleTypeOK, DatesFollow, NoNewer, Tick
<1>3. RunsAreNoOlder'
  <2> SUFFICES ASSUME NEW s \in Starters
               PROVE  IF scrapes'[s].pc = "collect"
                      THEN scrapes'[s].since <= dateFile'[AgentKeys[scrapes'[s].key]]
                      ELSE scrapes'[s].since = 0
    BY DEF RunsAreNoOlder
  <2>1. scrapes[s] \in Runs
    BY DEF ScheduleTypeOK, Runs
  <2>2. CASE scrapes[s].pc # "collect"
    BY <2>2 DEF Tick, DatesFollow, RunsAreNoOlder
  <2>3. CASE scrapes[s].pc = "collect"
    <3> DEFINE p == AgentKeys[scrapes[s].key]
    <3>1. p \in Agents
      BY <2>3, CurrentProject
    <3>2. scrapes[s].since \in Int /\ dateFile[p] \in Ages /\ scrapes[s].since <= dateFile[p]
          /\ scrapes[s].since >= 0
      BY <2>1, <2>3, <3>1, AgeBounds DEF ScheduleTypeOK, Runs, DatesFollow, RunsAreNoOlder
    <3>3. dateFile[p] # NoDate /\ dateFile[p] \in Int
      BY <3>2, AgeBounds DEF Ages
    <3>4. dateFile'[p] = IF dateFile[p] + 1 <= MaxAge THEN dateFile[p] + 1 ELSE MaxAge
      BY <3>1, <3>3, OlderAges DEF Tick, ScheduleTypeOK
    <3>5. /\ scrapes'[s].pc = "collect" /\ scrapes'[s].key = scrapes[s].key
          /\ scrapes'[s].since = Min({scrapes[s].since + 1, MaxAge})
      BY <2>1, <2>3 DEF Tick, Runs
    <3>6. scrapes'[s].since = IF scrapes[s].since + 1 <= MaxAge THEN scrapes[s].since + 1 ELSE MaxAge
      BY <3>2, <3>5, MinOfTwo, AgeBounds
    <3> QED BY <3>2, <3>3, <3>4, <3>5, <3>6, AgeBounds
  <2> QED BY <2>2, <2>3
<1> QED BY <1>1, <1>2, <1>3

\* run.sh to its end: its date is not newer than its start.
LEMMA CollectAllKeepsDates ==
  ASSUME ScheduleTypeOK, DatesFollow, NEW s \in Starters, CollectAll(s)
  PROVE  RowsAreNoNewer' /\ NoNewer(sentDate)' /\ RunsAreNoOlder'
<1> DEFINE p == AgentKeys[scrapes[s].key]
<1>1. p \in Agents /\ scrapes[s] \in Runs /\ scrapes[s].pc = "collect"
  BY CurrentProject DEF CollectAll, ScheduleTypeOK, Runs
<1>2. scrapes[s].since \in 0 .. MaxAge /\ scrapes[s].since <= dateFile[p]
  BY <1>1 DEF Runs, DatesFollow, RunsAreNoOlder
<1>3. /\ collected[p] \in Ages /\ collected[p] \in Int /\ scrapes[s].since \in Int
      /\ scrapes[s].since # NoDate
  BY <1>1, <1>2, AgeBounds DEF ScheduleTypeOK, Ages
<1> DEFINE c == IF collected[p] = NoDate THEN scrapes[s].since
                ELSE Min({collected[p], scrapes[s].since})
<1>4. /\ c # NoDate /\ c <= scrapes[s].since
      /\ collected[p] # NoDate => c <= collected[p]
      /\ c \in Int
  <2>1. Min({collected[p], scrapes[s].since}) =
           IF collected[p] <= scrapes[s].since THEN collected[p] ELSE scrapes[s].since
    BY <1>3, MinOfTwo
  <2> QED BY <1>3, <2>1
<1>5. /\ sentDate' = [sentDate EXCEPT ![p] = dateFile[p]]
      /\ collected' = [collected EXCEPT ![p] = c]
      /\ UNCHANGED <<trackerDate, dateFile, claimed>>
  BY DEF CollectAll
<1>6. dateFile[p] \in Int
  BY <1>1, AgeBounds DEF ScheduleTypeOK, Ages
<1> HIDE DEF p, c
<1>7. NoNewer(sentDate)'
  BY <1>1, <1>2, <1>3, <1>4, <1>5, <1>6 DEF ScheduleTypeOK, DatesFollow, NoNewer
<1>8. RowsAreNoNewer'
  <2> SUFFICES ASSUME NEW q \in Agents \ claimed, trackerDate[q] # NoDate
               PROVE  collected'[q] # NoDate /\ collected'[q] <= trackerDate[q]
    BY <1>5 DEF RowsAreNoNewer
  <2>1. collected[q] # NoDate /\ collected[q] <= trackerDate[q]
    BY DEF DatesFollow, RowsAreNoNewer
  <2>2. trackerDate[q] \in Int
    BY AgeBounds DEF ScheduleTypeOK, Ages
  <2> QED BY <1>1, <1>3, <1>4, <1>5, <2>1, <2>2 DEF ScheduleTypeOK
<1>9. RunsAreNoOlder'
  BY <1>1, <1>5 DEF CollectAll, EndRun, DatesFollow, RunsAreNoOlder, Runs, ScheduleTypeOK
<1> QED BY <1>7, <1>8, <1>9

\* The file gets its date when nobody collects: with two runs at once, it would
\* get a date behind the start of the other.
LEMMA PreflightKeepsRuns ==
  ASSUME ScheduleTypeOK, DatesFollow, NEW s \in Starters, Preflight(s)
  PROVE  RunsAreNoOlder'
<1> DEFINE p == AgentKeys[scrapes[s].key]
<1>1. scrapes \in [Starters -> Runs] /\ scrapes[s].pc = "preflight"
  BY DEF ScheduleTypeOK, Runs, Preflight
<1>2. scrapes[s].since = 0
  BY <1>1 DEF DatesFollow, RunsAreNoOlder
<1>3. \A t \in Starters \ {s} : scrapes[t].pc = "idle" /\ scrapes[t].since = 0
  BY <1>1 DEF DatesFollow, OneScrape, RunsAreNoOlder
<1>4. CASE EndRun(s) /\ UNCHANGED dateFile
  BY <1>1, <1>3, <1>4 DEF EndRun, RunsAreNoOlder, Runs
<1>5. CASE /\ dateFile' = [dateFile EXCEPT ![p] = 0]
           /\ scrapes' = [scrapes EXCEPT ![s].pc = "collect", ![s].waited = trackerDate[p]]
  <2>1. p \in Agents
    BY <1>1, CurrentProject
  <2>2. /\ scrapes'[s].pc = "collect" /\ scrapes'[s].since = 0 /\ scrapes'[s].key = scrapes[s].key
        /\ \A t \in Starters \ {s} : scrapes'[t].pc = "idle" /\ scrapes'[t].since = 0
    BY <1>1, <1>2, <1>3, <1>5 DEF Runs
  <2>3. dateFile'[p] = 0
    BY <1>5, <2>1 DEF ScheduleTypeOK
  <2> QED BY <2>2, <2>3 DEF RunsAreNoOlder
<1> QED BY <1>4, <1>5 DEF Preflight

LEMMA DatesStep ==
  ASSUME ApartRuns, ScheduleTypeOK, DatesFollow, [ScheduleNext]_scheduleVars
  PROVE  DatesFollow'
<1>0. OneScrape' /\ scrapes \in [Starters -> Runs]
  BY OneScrapeStep DEF DatesFollow, ScheduleTypeOK, Runs
<1> SUFFICES RowsAreNoNewer' /\ NoNewer(sentDate)' /\ RunsAreNoOlder'
  BY <1>0 DEF DatesFollow
<1> USE DEF RowsAreNoNewer, NoNewer
<1>1. CASE UNCHANGED scheduleVars
  BY <1>1 DEF scheduleVars, clockVars, ageVars, DatesFollow, RunsAreNoOlder
<1>2. CASE Tick
  BY <1>2, TickKeepsDates
<1>3. CASE RestartGatherer
  BY <1>3 DEF RestartGatherer, ageVars, DatesFollow, RunsAreNoOlder
<1>4. ASSUME NEW p \in Agents, UpdateTrackerSchedule(p)
      PROVE  RowsAreNoNewer' /\ NoNewer(sentDate)' /\ RunsAreNoOlder'
  <2>1. \A q \in Agents \ claimed' : q \notin claimed /\ trackerDate'[q] = trackerDate[q]
    BY <1>4 DEF UpdateTrackerSchedule, PutContent, ScheduleTypeOK
  <2> QED BY <1>4, <2>1 DEF UpdateTrackerSchedule, DatesFollow, RunsAreNoOlder
<1>5. ASSUME NEW p \in Agents, ImportTrackers(p)
      PROVE  RowsAreNoNewer' /\ NoNewer(sentDate)' /\ RunsAreNoOlder'
  BY <1>5 DEF ImportTrackers, ScheduleTypeOK, DatesFollow, RunsAreNoOlder
<1>6. ASSUME NEW s \in Starters, Scrape(s) \/ NextProject(s)
      PROVE  RowsAreNoNewer' /\ NoNewer(sentDate)' /\ RunsAreNoOlder'
  <2>1. CASE Scrape(s)
    BY <1>0, <2>1 DEF Scrape, ageVars, DatesFollow, RunsAreNoOlder, Runs
  <2>2. CASE NextProject(s)
    BY <1>0, <2>2 DEF NextProject, Goes, ageVars, DatesFollow, RunsAreNoOlder, Runs
  <2> QED BY <1>6, <2>1, <2>2
<1>7. ASSUME NEW s \in Starters, Preflight(s)
      PROVE  RowsAreNoNewer' /\ NoNewer(sentDate)' /\ RunsAreNoOlder'
  <2>1. RunsAreNoOlder'
    BY <1>7, PreflightKeepsRuns
  <2> QED BY <1>7, <2>1 DEF Preflight, DatesFollow
<1>8. ASSUME NEW s \in Starters, CollectAll(s)
      PROVE  RowsAreNoNewer' /\ NoNewer(sentDate)' /\ RunsAreNoOlder'
  BY <1>8, CollectAllKeepsDates
<1>9. ASSUME NEW s \in Starters, CollectFails(s)
      PROVE  RowsAreNoNewer' /\ NoNewer(sentDate)' /\ RunsAreNoOlder'
  <2>1. RunsAreNoOlder'
    BY <1>0, <1>9 DEF CollectFails, EndRun, ageVars, DatesFollow, RunsAreNoOlder, Runs
  <2> QED BY <1>9, <2>1 DEF CollectFails, ageVars, DatesFollow
<1> QED BY <1>1, <1>2, <1>3, <1>4, <1>5, <1>6, <1>7, <1>8, <1>9 DEF ScheduleNext

\* For any projects, days and drifts: where scrapes do not start beside each
\* other, a date that nobody set by hand is not newer than the last collection
\* that was exported completely.
THEOREM ScheduleFollows ==
  ASSUME ApartRuns
  PROVE  ScheduleSpec => []ScheduleFollowsCollections
<1>1. ScheduleInit => DatesFollow
  BY DEF ScheduleInit, DatesFollow, RowsAreNoNewer, NoNewer, RunsAreNoOlder, OneScrape
<1>2. ScheduleTypeOK /\ DatesFollow /\ [ScheduleNext]_scheduleVars => DatesFollow'
  BY ApartRuns, DatesStep
<1>3. DatesFollow => ScheduleFollowsCollections
  BY DEF DatesFollow, RowsAreNoNewer, ScheduleFollowsCollections
<1> QED BY <1>1, <1>2, <1>3, ScheduleTypeCorrect, PTL DEF ScheduleSpec
=============================================================================
