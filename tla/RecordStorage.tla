----------------------------- MODULE RecordStorage -----------------------------
(***************************************************************************)
(* src/installation/record_storage.rs: one directory of records, refs/apps *)
(* or refs/runtimes, written by write_atomic through a temporary file      *)
(* beside the record, removed by name, and read by name (get_app) or by    *)
(* listing the directory, by processes that take no lock.                  *)
(***************************************************************************)
EXTENDS Naturals, FiniteSets

CONSTANTS Process,      \* processes, by pid
          Key,          \* record names
          Value,        \* complete records
          Absent,       \* no such file
          Empty,        \* a file that was created and not yet written
          NoWrite,      \* value of arg outside write_atomic
          Unique,       \* the listing rejects two files with one ref
          MaxCrashes    \* bound on the processes killed

\* The temporary files: the name has the record's, the pid and a sequence
\* number (one process writes one record at a time).
Temp == Key \X Process

\* The entries of the directory.
Entry == [temp : {FALSE}, name : Key] \cup [temp : {TRUE}, name : Temp]

Content == Value \cup {Absent, Empty}

ASSUME ContentAssumption ==
    /\ Absent \notin Value /\ Empty \notin Value /\ Absent # Empty
    /\ NoWrite \notin [key : Key, value : Value]
    /\ Unique \in BOOLEAN
    /\ MaxCrashes \in Nat

VARIABLES record,   \* content of each record file
          temp,     \* content of each temporary file
          writer,       \* where each process is
          arg,      \* the record it is writing
          names,    \* the directory entries its listing still has to read
          found,    \* the keys its listing has read
          crashes   \* processes killed so far

recordVars == <<record, temp, writer, arg, names, found, crashes>>

WriterPCs == {"idle", "create", "write", "rename", "list", "failed"}

\* A mistake that PublishesOwn excludes: the name has the record's alone.
SharedTempName(p, k) == <<k, CHOOSE q \in Process : TRUE>>

TempName(p, k) == <<k, p>>

RecordsInit ==
    /\ record \in [Key -> Value \cup {Absent}]
    /\ temp = [t \in Temp |-> Absent]
    /\ writer = [p \in Process |-> "idle"]
    /\ arg = [p \in Process |-> NoWrite]
    /\ names = [p \in Process |-> {}]
    /\ found = [p \in Process |-> {}]
    /\ crashes = 0

WriterGoto(p, label) == writer' = [writer EXCEPT ![p] = label]

-------------------------------------------------------------------------------
(***************************************************************************)
(* Plausible mistakes in the code, each of which a property below excludes *)
(***************************************************************************)

\* The rename does not wait for the data.
WriteNothing(p) ==
    /\ writer[p] = "write"
    /\ WriterGoto(p, "rename")
    /\ UNCHANGED <<record, temp, arg, names, found, crashes>>

\* write_all is given the record's name in the place of its data.
WriteKey(p) ==
    /\ writer[p] = "write"
    /\ temp' = [temp EXCEPT ![TempName(p, arg[p].key)] = arg[p].key]
    /\ WriterGoto(p, "rename")
    /\ UNCHANGED <<record, arg, names, found, crashes>>

-------------------------------------------------------------------------------
(***************************************************************************)
(* write_atomic                                                            *)
(***************************************************************************)
StartWrite(p) ==
    /\ writer[p] = "idle"
    /\ \E k \in Key, v \in Value : arg' = [arg EXCEPT ![p] = [key |-> k, value |-> v]]
    /\ WriterGoto(p, "create")
    /\ UNCHANGED <<record, temp, names, found, crashes>>

\* File::create makes the file, or truncates it.
CreateTemp(p) ==
    /\ writer[p] = "create"
    /\ temp' = [temp EXCEPT ![TempName(p, arg[p].key)] = Empty]
    /\ WriterGoto(p, "write")
    /\ UNCHANGED <<record, arg, names, found, crashes>>

\* write_all.
WriteTemp(p) ==
    /\ writer[p] = "write"
    /\ temp' = [temp EXCEPT ![TempName(p, arg[p].key)] = arg[p].value]
    /\ WriterGoto(p, "rename")
    /\ UNCHANGED <<record, arg, names, found, crashes>>

RenameTemp(p) ==
    LET t == TempName(p, arg[p].key) IN
    /\ writer[p] = "rename"
    /\ record' = [record EXCEPT ![arg[p].key] = temp[t]]
    /\ temp' = [temp EXCEPT ![t] = Absent]
    /\ arg' = [arg EXCEPT ![p] = NoWrite]
    /\ WriterGoto(p, "idle")
    /\ UNCHANGED <<names, found, crashes>>

\* remove_app_record, remove_runtime_record, remove_run_record.
RemoveRecord(p) ==
    /\ writer[p] = "idle"
    /\ \E k \in Key :
          /\ record[k] # Absent
          /\ record' = [record EXCEPT ![k] = Absent]
    /\ UNCHANGED <<temp, writer, arg, names, found, crashes>>

\* A process is killed; another one may get its pid.
Crash(p) ==
    /\ writer[p] # "idle"
    /\ crashes < MaxCrashes
    /\ crashes' = crashes + 1
    /\ WriterGoto(p, "idle")
    /\ arg' = [arg EXCEPT ![p] = NoWrite]
    /\ names' = [names EXCEPT ![p] = {}]
    /\ found' = [found EXCEPT ![p] = {}]
    /\ UNCHANGED <<record, temp>>

-------------------------------------------------------------------------------
(***************************************************************************)
(* list_apps and list_runtimes: every regular file of the directory is     *)
(* read as a record, the temporary files among them.                       *)
(***************************************************************************)
Entries == [temp : {FALSE}, name : {k \in Key : record[k] # Absent}]
           \cup [temp : {TRUE}, name : {t \in Temp : temp[t] # Absent}]

Read(entry) == IF entry.temp THEN temp[entry.name] ELSE record[entry.name]

EntryKey(entry) == IF entry.temp THEN entry.name[1] ELSE entry.name

OpenDirectory(p) ==
    /\ writer[p] = "idle"
    /\ names' = [names EXCEPT ![p] = Entries]
    /\ WriterGoto(p, "list")
    /\ UNCHANGED <<record, temp, arg, found, crashes>>

\* A file that has gone or has no keys yet is an error; so is, in
\* list_runtimes, a second file with the same ref.
ReadEntry(p) ==
    /\ writer[p] = "list"
    /\ \E entry \in names[p] :
          IF Read(entry) \in Value /\ ~(Unique /\ EntryKey(entry) \in found[p])
          THEN /\ found' = [found EXCEPT ![p] = @ \cup {EntryKey(entry)}]
               /\ names' = [names EXCEPT ![p] = @ \ {entry}]
               /\ UNCHANGED writer
          ELSE WriterGoto(p, "failed") /\ UNCHANGED <<names, found>>
    /\ UNCHANGED <<record, temp, arg, crashes>>

\* The caller returns what was listed, or the error.
CloseDirectory(p) ==
    /\ \/ writer[p] = "failed"
       \/ writer[p] = "list" /\ names[p] = {}
    /\ WriterGoto(p, "idle")
    /\ names' = [names EXCEPT ![p] = {}]
    /\ found' = [found EXCEPT ![p] = {}]
    /\ UNCHANGED <<record, temp, arg, crashes>>

RecordsNext == \E p \in Process :
            \/ StartWrite(p) \/ CreateTemp(p) \/ WriteTemp(p) \/ RenameTemp(p)
            \/ RemoveRecord(p) \/ Crash(p)
            \/ OpenDirectory(p) \/ ReadEntry(p) \/ CloseDirectory(p)

RecordsSpec == RecordsInit /\ [][RecordsNext]_recordVars

-------------------------------------------------------------------------------
(***************************************************************************)
(* Properties                                                              *)
(***************************************************************************)
RecordsTypeOK ==
    /\ record \in [Key -> Content]
    /\ temp \in [Temp -> Content]
    /\ writer \in [Process -> WriterPCs]
    /\ arg \in [Process -> [key : Key, value : Value] \cup {NoWrite}]
    /\ names \in [Process -> SUBSET Entry]
    /\ found \in [Process -> SUBSET Key]
    /\ crashes \in 0..MaxCrashes

(***************************************************************************)
(* get_app, which opens a record by its name, finds a whole record or      *)
(* none, whoever writes it, wherever writers are killed.                   *)
(***************************************************************************)
RecordsWhole == \A k \in Key : record[k] # Empty

(***************************************************************************)
(* A writer publishes what it wrote: two writers of one record, or a       *)
(* writer with the pid of one that died, never rename each other's file.   *)
(***************************************************************************)
PublishesOwn ==
    [][\A p \in Process : RenameTemp(p) => record'[arg[p].key] = arg[p].value]_recordVars
===============================================================================
