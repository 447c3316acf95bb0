----------------------------- MODULE StatusStore -----------------------------
(***************************************************************************)
(* Health statuses of a project on their way to the database.              *)
(*                                                                         *)
(* bigboat_to_json.py POSTs statuses to controller/auth/status.py, which   *)
(* lets the gatherer daemon insert them.  When that returns False they are *)
(* appended as one line to data_status.json of the controller directory,   *)
(* and maintenance/import_bigboat_status.py reads the lines of that file   *)
(* in batches later on.  Requests are threads of the Pyro daemons, so they *)
(* interleave at each database statement, sudo call and write.             *)
(*                                                                         *)
(* The schema of the database is not in this repository: a row without a   *)
(* project is taken to be an error, as for the other tables.               *)
(***************************************************************************)
EXTENDS Integers, Sequences, FiniteSets

CONSTANTS
    Posts,     \* POSTs of statuses for the project
    Large,     \* those that are written in two parts (over 8 KiB of JSON)
    MaxBatch,  \* Statuses.MAX_BATCH_SIZE, counted in lines
    MaxImports \* bound: how often the maintenance script is started

ASSUME StatusConstants ==
    /\ Large \subseteq Posts
    /\ MaxBatch \in Nat /\ MaxImports \in Nat

VARIABLES
    known,      \* the project has a row in gros.project
    source,     \* gros.source_environment has a row for the BigBoat host
    rows,       \* how often the statuses of a POST are in gros.bigboat_status
    pc,         \* where the POST is
    directory,  \* the controller directory: none, made by root, or owned
    file,       \* data_status.json as a sequence of writes
    import,     \* where the maintenance script is
    connected,  \* Statuses._database of the script is set
    batch,      \* Statuses._statuses of the script, by POST
    at,         \* how many writes of the file the script has read
    imports,    \* how often the script was started
    before      \* rows when the script was started (for properties)

database == <<known, source, rows>>
script == <<import, connected, batch, at, imports, before>>
vars == <<database, pc, directory, file, script>>

Places == {"idle", "connect", "source", "insertSource", "rows",
           "directory", "mkdir", "chown", "append", "rest",
           "accepted", "raised", "failed"}
Parts == {"whole", "begin", "end"}
Writes == [post : Posts, part : Parts]
Write(p, part) == [post |-> p, part |-> part]

TypeOK ==
    /\ known \in BOOLEAN /\ source \in BOOLEAN
    /\ rows \in [Posts -> Nat]
    /\ pc \in [Posts -> Places]
    /\ directory \in {"none", "root", "exporter"}
    /\ file \in Seq(Writes)
    /\ import \in {"idle", "reading", "update", "done", "failed"}
    /\ connected \in BOOLEAN
    /\ batch \subseteq Posts
    /\ at \in Nat /\ at <= Len(file)
    /\ imports \in Nat
    /\ before \in [Posts -> Nat]

Init ==
    /\ known \in BOOLEAN /\ source = FALSE
    /\ rows = [p \in Posts |-> 0]
    /\ pc = [p \in Posts |-> "idle"]
    /\ directory \in {"none", "exporter"}
    /\ file = <<>>
    /\ import = "idle" /\ connected = FALSE /\ batch = {} /\ at = 0
    /\ imports = 0 /\ before = rows

GoTo(p, from, to) == pc[p] = from /\ pc' = [pc EXCEPT ![p] = to]

\* INSERT of the statuses of a set of POSTs, in one transaction.
Insert(posts) ==
    rows' = [p \in Posts |-> IF p \in posts THEN rows[p] + 1 ELSE rows[p]]

(***************************************************************************)
(* status.py: the statuses go to the gatherer daemon.                      *)
(***************************************************************************)
Post(p) ==
    /\ GoTo(p, "idle", "connect")
    /\ UNCHANGED <<database, directory, file, script>>

\* Statuses.database: the connection, or None.  That the project is unknown
\* does not matter here: project_id is never the value False it is compared to.
Connect(p) ==
    /\ GoTo(p, "connect", "source")
    /\ UNCHANGED <<database, directory, file, script>>

UnavailableIgnored(p) ==   \* mutant: the False of the daemon is not looked at
    /\ GoTo(p, "connect", "accepted")
    /\ UNCHANGED <<database, directory, file, script>>

Unavailable(p) ==
    /\ GoTo(p, "connect", "directory")
    /\ UNCHANGED <<database, directory, file, script>>

\* _insert_source looks for the row and inserts it in a later statement.
FindSource(p) ==
    /\ known
    /\ GoTo(p, "source", IF source THEN "rows" ELSE "insertSource")
    /\ UNCHANGED <<database, directory, file, script>>

InsertSource(p) ==
    /\ GoTo(p, "insertSource", "rows")
    /\ source' = TRUE
    /\ UNCHANGED <<known, rows, directory, file, script>>

InsertRowsSilently(p) ==   \* mutant: update does not return True at its end
    /\ GoTo(p, "rows", "directory")
    /\ Insert({p})
    /\ UNCHANGED <<known, source, directory, file, script>>

InsertRows(p) ==
    /\ GoTo(p, "rows", "accepted")
    /\ Insert({p})
    /\ UNCHANGED <<known, source, directory, file, script>>

\* A statement raises: the exception goes through the daemon to the agent.
DatabaseRaises(p) ==
    /\ pc[p] \in {"source", "insertSource", "rows"}
    /\ pc' = [pc EXCEPT ![p] = "raised"]
    /\ UNCHANGED <<database, directory, file, script>>

(***************************************************************************)
(* status.py: the statuses go to the controller daemon instead.            *)
(***************************************************************************)
FindDirectory(p) ==
    /\ GoTo(p, "directory", IF directory = "none" THEN "mkdir" ELSE "append")
    /\ UNCHANGED <<database, directory, file, script>>

MakeDirectory(p) ==
    /\ directory = "none"
    /\ GoTo(p, "mkdir", "chown")
    /\ directory' = "root"
    /\ UNCHANGED <<database, file, script>>

OwnDirectory(p) ==
    /\ GoTo(p, "chown", "append")
    /\ directory' = "exporter"
    /\ UNCHANGED <<database, file, script>>

\* The file is created when needed and the line is written when the buffer
\* is full or the file is closed.
AppendLine(p) ==
    /\ p \notin Large /\ directory = "exporter"
    /\ GoTo(p, "append", "accepted")
    /\ file' = Append(file, Write(p, "whole"))
    /\ UNCHANGED <<database, directory, script>>

AppendBegin(p) ==
    /\ p \in Large /\ directory = "exporter"
    /\ GoTo(p, "append", "rest")
    /\ file' = Append(file, Write(p, "begin"))
    /\ UNCHANGED <<database, directory, script>>

AppendEnd(p) ==
    /\ GoTo(p, "rest", "accepted")
    /\ file' = Append(file, Write(p, "end"))
    /\ UNCHANGED <<database, directory, script>>

ControllerRaises(p) ==
    /\ pc[p] \in {"directory", "mkdir", "chown", "append", "rest"}
    /\ pc' = [pc EXCEPT ![p] = "failed"]
    /\ UNCHANGED <<database, directory, file, script>>

(***************************************************************************)
(* import_bigboat_status.py                                                *)
(***************************************************************************)
LineLengthLoose(n) ==   \* mutant: a line that has begun is taken to be whole
    IF n < Len(file) THEN IF file[n + 1].part = "begin" THEN 2 ELSE 1 ELSE 0

\* The next line is one write, or two of the same POST; anything else is not
\* JSON.
LineLength(n) ==
    IF n < Len(file) /\ file[n + 1].part = "whole" THEN 1
    ELSE IF /\ n + 1 < Len(file)
            /\ file[n + 1].part = "begin"
            /\ file[n + 2] = Write(file[n + 1].post, "end") THEN 2
    ELSE 0

StartImport ==
    /\ import \in {"idle", "done", "failed"} /\ imports < MaxImports
    /\ file # <<>>
    /\ import' = "reading" /\ imports' = imports + 1
    /\ connected' = FALSE /\ batch' = {} /\ at' = 0
    /\ before' = rows
    /\ UNCHANGED <<database, pc, directory, file>>

\* main adds the line to the batch.
TakeLine(kept) ==
    /\ LineLength(at) > 0
    /\ batch' = kept \cup {file[at + 1].post}
    /\ at' = at + LineLength(at)
    /\ UNCHANGED <<known, source, pc, directory, file,
                   import, imports, before>>

AddToBatch ==
    /\ import = "reading" /\ Cardinality(batch) <= MaxBatch
    /\ TakeLine(batch)
    /\ UNCHANGED <<rows, connected>>

UpdateAndKeep ==   \* mutant: the batch is not emptied
    /\ import = "reading" /\ Cardinality(batch) > MaxBatch
    /\ known
    /\ Insert(batch)
    /\ connected' = TRUE
    /\ TakeLine(batch)

\* add_batch inserts the batch first when it is too large.
UpdateAndAdd ==
    /\ import = "reading" /\ Cardinality(batch) > MaxBatch
    /\ known
    /\ Insert(batch)
    /\ connected' = TRUE
    /\ TakeLine({})

\* add_batch returns False and main leaves the loop, with a line in its hands.
BatchRefused ==
    /\ import = "reading" /\ Cardinality(batch) > MaxBatch
    /\ LineLength(at) > 0 /\ ~connected
    /\ import' = "update"
    /\ UNCHANGED <<database, pc, directory, file,
                   connected, batch, at, imports, before>>

EndOfFile ==
    /\ import = "reading" /\ at = Len(file)
    /\ import' = "update"
    /\ UNCHANGED <<database, pc, directory, file,
                   connected, batch, at, imports, before>>

\* The result of the last update is the one that main looks at.
LastUpdate ==
    /\ import = "update"
    /\ batch # {} => known
    /\ Insert(batch)
    /\ import' = "done" /\ connected' = TRUE
    /\ UNCHANGED <<known, source, pc, directory, file,
                   batch, at, imports, before>>

\* No connection for the last update, an error of the database or no JSON.
ImportFails ==
    /\ import \in {"reading", "update"}
    /\ import' = "failed"
    /\ UNCHANGED <<database, pc, directory, file,
                   connected, batch, at, imports, before>>

\* The importer adds the project to the database at its first export.
Register ==
    /\ ~known
    /\ known' = TRUE
    /\ UNCHANGED <<source, rows, pc, directory, file, script>>

Receive(p) ==
    \/ Post(p) \/ Connect(p) \/ Unavailable(p)
    \/ FindSource(p) \/ InsertSource(p) \/ InsertRows(p) \/ DatabaseRaises(p)
    \/ FindDirectory(p) \/ MakeDirectory(p) \/ OwnDirectory(p)
    \/ AppendLine(p) \/ AppendBegin(p) \/ AppendEnd(p) \/ ControllerRaises(p)

Import ==
    \/ StartImport \/ AddToBatch \/ UpdateAndAdd \/ BatchRefused
    \/ EndOfFile \/ LastUpdate \/ ImportFails

Next == (\E p \in Posts : Receive(p)) \/ Import \/ Register

Spec == Init /\ [][Next]_vars

(***************************************************************************)
(* Properties                                                              *)
(***************************************************************************)
Written(p) == \E i \in 1..Len(file) : file[i].post = p

\* The last write of the statuses of a POST is in the file.
Filed(p) ==
    \E i \in 1..Len(file) : file[i].post = p /\ file[i].part # "begin"

\* Statuses that status.py accepted with 202 are in the database or in the
\* file, however the daemons, other requests and an import interleave.
AcceptedIsStored ==
    \A p \in Posts : pc[p] = "accepted" => rows[p] > 0 \/ Filed(p)

\* The fall-back and the database exclude each other: statuses get into the
\* database at most once by themselves or by each start of the import.
ImportedOnce ==
    \A p \in Posts :
        rows[p] <= IF Written(p) THEN imports ELSE 1

\* What add_batch promises: a line that was read is in the batch or in the
\* database, and not in both.
ReadIsIntact ==
    import \in {"reading", "update"} =>
        \A i \in 1..at : LET p == file[i].post IN
            rows[p] = before[p] + (IF p \in batch THEN 0 ELSE 1)

\* status.py writes the statuses to a file for any problem of the database.
DatabaseProblemsGoToFile ==
    \A p \in Posts : pc[p] = "raised" => Filed(p)

(***************************************************************************)
(* Inductive invariant                                                     *)
(***************************************************************************)
Importing == import \in {"reading", "update"}

\* Nothing is written before the fall-back has come to it.
NothingWrittenYet ==
    \A p \in Posts :
        Written(p) => pc[p] \in {"rest", "accepted", "failed"}

\* Rows that no import made are those of an accepted request.
OwnRows ==
    \A p \in Posts :
        ~Written(p) => rows[p] = (IF pc[p] = "accepted" THEN 1 ELSE 0)

\* A request that has not written all is still writing or has failed.
LastWrite ==
    \A p \in Posts : Written(p) /\ pc[p] = "accepted" => Filed(p)

RestIsMissing ==
    \A p \in Posts : pc[p] = "rest" =>
        \A i \in 1..Len(file) : file[i].post = p => file[i].part = "begin"

\* There is one line for a POST, with at most two writes.
OneLine ==
    \A i, j \in 1..Len(file) :
        i < j /\ file[i].post = file[j].post =>
            file[i].part = "begin" /\ file[j].part = "end"

Read(p) == \E i \in 1..at : file[i].post = p

\* The batch comes from the lines that were read.
BatchIsRead == Importing => \A p \in batch : Read(p)

\* The import changes exactly the rows of what it read and inserted.
ImportedRows ==
    Importing =>
        /\ imports > 0
        /\ \A p \in Posts : Written(p) =>
            /\ before[p] < imports
            /\ rows[p] = before[p] +
                   (IF Read(p) /\ p \notin batch THEN 1 ELSE 0)

BeforeIsPast == \A p \in Posts : before[p] <= rows[p]

IInv ==
    /\ TypeOK
    /\ NothingWrittenYet /\ OwnRows /\ LastWrite /\ RestIsMissing /\ OneLine
    /\ BatchIsRead /\ ImportedRows /\ BeforeIsPast
    /\ ImportedOnce

=============================================================================
