------------------------------- MODULE Tables -------------------------------
(***************************************************************************)
(* table.py: the rows that a script gathers, by key or without one, with   *)
(* the names of people encrypted once, and merged with the file that an    *)
(* earlier script or run left when the table is written.                   *)
(*                                                                         *)
(* A row has an item, which is never encrypted, a person, which is         *)
(* encrypted in tables with encryption, and a title.  A person is known by *)
(* who it is and how often it was encrypted; Zero is the value "0".  No    *)
(* field of the model is called a user name, for which patterns are        *)
(* replaced before encryption: no table of the repository has one as key.  *)
(***************************************************************************)
EXTENDS Integers, Sequences, FiniteSets

CONSTANTS
    TableKinds,   \* what tables are defined: [key, encrypts, merges]
    Items, People, Titles,
    Zero,
    MaxRows,      \* bound: rows that a process gathers
    MaxProcesses  \* bound

ASSUME TablesAssumption ==
    /\ TableKinds \subseteq [key : SUBSET {"item", "person"}, encrypts : BOOLEAN, merges : BOOLEAN]
    /\ Zero \in People /\ MaxRows \in Nat /\ MaxProcesses \in Nat

VARIABLES
    table,      \* the table at hand
    secrets,    \* whether secrets.json is there for the process
    rows,       \* _data
    keys,       \* _keys, _links: what a key finds
    exported,   \* the rows of the file, none before the first
    phase,      \* of the process: "gather", "load" or "written"
    loaded,     \* how many rows of the file were loaded
    processes,
    before      \* the plain rows that were in memory and in the file before writing

tableVars == <<table, secrets, rows, keys, exported, phase, loaded, processes, before>>

Plain(p) == [who |-> p, times |-> 0]
Raw == [item : Items, person : {Plain(p) : p \in People}, title : Titles]

-----------------------------------------------------------------------------
(***************************************************************************)
(* Encryption                                                              *)
(***************************************************************************)
\* dict.update
WithChange(d, change) ==
    [f \in DOMAIN d \cup DOMAIN change |-> IF f \in DOMAIN change THEN change[f] ELSE d[f]]

EncryptValue(v) == IF v = Plain(Zero) THEN v ELSE [v EXCEPT !.times = @ + 1]

IsEncrypted(row) == "encrypted" \in DOMAIN row /\ row.encrypted = 1

EncryptAgain(row) ==   \* mutant: does not look whether the row is encrypted
    IF ~table.encrypts THEN row
    ELSE IF ~secrets THEN WithChange(row, [encrypted |-> 0])
    ELSE WithChange(row, [encrypted |-> 1, person |-> EncryptValue(row.person)])

Encrypt(row) ==
    IF ~table.encrypts \/ IsEncrypted(row) THEN row
    ELSE IF ~secrets THEN WithChange(row, [encrypted |-> 0])
    ELSE WithChange(row, [encrypted |-> 1, person |-> EncryptValue(row.person)])

-----------------------------------------------------------------------------
(***************************************************************************)
(* Rows by key                                                             *)
(***************************************************************************)
Keyed == table.key # {}
KeyOf(row) == [f \in table.key |-> row[f]]
Known(row) == KeyOf(row) \in DOMAIN keys

StoredOnly(row, n) == [k \in {KeyOf(Encrypt(row))} |-> n]   \* mutant: not by the key as it was given

\* A row is found by its key as it was given and as it is stored.
KeysOfNew(row, n) == [k \in {KeyOf(row), KeyOf(Encrypt(row))} |-> n]

AppendTo(r, k, row) ==
    IF Keyed /\ KeyOf(row) \in DOMAIN k
    THEN [rows |-> r, keys |-> k]
    ELSE [rows |-> Append(r, Encrypt(row)),
          keys |-> IF Keyed THEN WithChange(k, KeysOfNew(row, Len(r) + 1)) ELSE k]

LoadedOver(row) ==   \* mutant: the file is preferred over the memory
    IF Keyed /\ Known(row)
    THEN [rows |-> [rows EXCEPT ![keys[KeyOf(row)]] = Encrypt(row)], keys |-> keys]
    ELSE AppendTo(rows, keys, row)

\* extend, of one row in the file
Loaded(row) == AppendTo(rows, keys, row)

FetchRow(row) ==
    IF Keyed THEN keys[KeyOf(row)]
    ELSE CHOOSE n \in DOMAIN rows :
            rows[n] = Encrypt(row) /\ \A m \in 1..n - 1 : rows[m] # Encrypt(row)

Found(row) == IF Keyed THEN Known(row) ELSE \E n \in DOMAIN rows : rows[n] = Encrypt(row)

\* What may be changed: no field of the key.
SameKey(row, change) ==
    \A f \in table.key \cap DOMAIN change : change[f] = row[f]

-----------------------------------------------------------------------------
(***************************************************************************)
(* Operations                                                              *)
(***************************************************************************)
TablesInit ==
    /\ table \in TableKinds /\ secrets \in BOOLEAN
    /\ rows = <<>> /\ keys = <<>>
    /\ exported = <<>> /\ phase = "gather" /\ loaded = 0 /\ processes = 1
    /\ before = [memory |-> {}, file |-> {}]

AppendRow(row) ==
    /\ phase = "gather" /\ Len(rows) < MaxRows
    /\ LET new == AppendTo(rows, keys, row)
       IN  rows' = new.rows /\ keys' = new.keys
    /\ UNCHANGED <<table, secrets, exported, phase, loaded, processes, before>>

\* Raises an exception where the guard does not hold.
UpdateRow(row, change) ==
    /\ phase = "gather"
    /\ SameKey(row, change) /\ Found(row)
    /\ rows' = [rows EXCEPT ![FetchRow(row)] = WithChange(@, Encrypt(change))]
    /\ UNCHANGED <<table, secrets, keys, exported, phase, loaded, processes, before>>

\* table[key] = value
SetItem(row) ==
    /\ phase = "gather" /\ Keyed
    /\ IF Known(row) THEN UpdateRow(row, row) ELSE AppendRow(row)

Who(row) == [item |-> row.item, person |-> row.person.who]
KeyOfWho(row) == [f \in table.key |-> Who(row)[f]]
Content(row) == [key |-> KeyOfWho(row), who |-> Who(row), title |-> row.title]
Contents(r) == {Content(r[n]) : n \in DOMAIN r}

\* A table that does not merge loads nothing.
Write ==
    /\ phase = "gather" /\ phase' = "load"
    /\ loaded' = IF table.merges THEN 0 ELSE Len(exported)
    /\ before' = [memory |-> Contents(rows),
                  file |-> IF table.merges THEN Contents(exported) ELSE {}]
    /\ UNCHANGED <<table, secrets, rows, keys, exported, processes>>

LoadRow ==
    /\ phase = "load" /\ loaded < Len(exported)
    /\ loaded' = loaded + 1
    /\ LET merged == Loaded(exported[loaded + 1])
       IN  rows' = merged.rows /\ keys' = merged.keys
    /\ UNCHANGED <<table, secrets, exported, phase, processes, before>>

Dump ==
    /\ phase = "load" /\ loaded = Len(exported)
    /\ phase' = "written" /\ exported' = rows /\ loaded' = 0
    /\ UNCHANGED <<table, secrets, rows, keys, processes, before>>

\* Another process. Nothing removes secrets.json once an agent has got it.
NextProcess ==
    /\ processes < MaxProcesses
    /\ processes' = processes + 1
    /\ rows' = <<>> /\ keys' = <<>> /\ phase' = "gather" /\ loaded' = 0
    /\ secrets' \in {secrets, TRUE}
    /\ before' = [memory |-> {}, file |-> {}]
    /\ UNCHANGED <<table, exported>>

TablesNext ==
    \/ \E row \in Raw : AppendRow(row)
    \/ \E row \in Raw, t \in Titles : UpdateRow(row, [title |-> t, person |-> row.person])
    \/ \E row \in Raw : SetItem(row)
    \/ Write \/ LoadRow \/ Dump
    \/ NextProcess

TablesSpec == TablesInit /\ [][TablesNext]_tableVars

-----------------------------------------------------------------------------
(***************************************************************************)
(* Properties                                                              *)
(***************************************************************************)
\* The index leads from every key, plain or encrypted, to the row of that
\* item and person, and there is one such row only, also after a merge with a
\* file of which the rows may or may not be encrypted yet.
KeysAreUnique ==
    Keyed =>
      /\ \A m, n \in DOMAIN rows : KeyOfWho(rows[m]) = KeyOfWho(rows[n]) => m = n
      /\ \A n \in DOMAIN rows : KeyOf(rows[n]) \in DOMAIN keys
      /\ \A k \in DOMAIN keys :
            /\ keys[k] \in DOMAIN rows
            /\ KeyOfWho(rows[keys[k]]) =
                 [f \in table.key |-> IF f = "person" THEN k[f].who ELSE k[f]]

\* What a process with the secrets writes to a table with encryption has every
\* person encrypted exactly once and says so, whether the row was gathered,
\* changed or loaded from a file of a time before the secrets were there.
EncryptedOnce ==
    /\ \A n \in DOMAIN rows :
          LET p == rows[n].person
          IN  p.times = (IF IsEncrypted(rows[n]) /\ p.who # Zero THEN 1 ELSE 0)
    /\ phase = "written" /\ table.encrypts /\ secrets =>
          \A n \in DOMAIN exported : IsEncrypted(exported[n])

\* A file that is written has all that was in memory, and of the file before
\* it what memory had no row for.
MergeKeepsBoth ==
    phase = "written" =>
      /\ before.memory \subseteq Contents(exported)
      /\ \A c \in before.file :
            c \in Contents(exported)
              <=> (~Keyed \/ c \in before.memory \/ \A d \in before.memory : d.key # c.key)
=============================================================================
