----------------------------- MODULE MetaService -----------------------------
(***************************************************************************)
(* The metadata service (providerframework/metaservice) and its NFS        *)
(* provider (providers/nfs/server): the Backup, Restore and Delete calls,  *)
(* each served by a goroutine of its own.                                  *)
(*                                                                         *)
(* Backup writes the archive it receives to <handle>.tar in a directory of *)
(* the service, the yard, and uploads that file to the provider's store.   *)
(* Restore downloads it to the same name in the same directory and reads   *)
(* it from there.  Paths are opened anew at every step, so two calls for   *)
(* one handle work on the same file.  Opening a path for writing truncates *)
(* the file that is there; removing a path leaves the file to those who    *)
(* have it open.                                                           *)
(*                                                                         *)
(* An archive is two chunks, the compressed entries and the trailer with   *)
(* their checksum, each marked with the Backup call that wrote it; the     *)
(* reader of an archive accepts two chunks of one call only.               *)
(***************************************************************************)
EXTENDS Naturals, Sequences, FiniteSets

CONSTANTS Handles,        \* names of Backups
          MaxCalls,       \* bound: calls of the service
          MaxFailures     \* bound: failures of the provider and crashes of the service

VARIABLES calls,          \* the calls so far, a sequence of records
          yard,           \* the file at /tmp/<handle>.tar, None if there is none
          store,          \* the file of the handle at the provider
          disk,           \* content of every file
          failuresLeft    \* how often the provider may still fail or the service crash

serviceVars == <<calls, yard, store, disk, failuresLeft>>

ASSUME CallsAssumption == MaxCalls \in Nat /\ MaxFailures \in Nat

Chunks == 2

Hole == 0                 \* what a write beyond the end of a file leaves before it

None == [at |-> "none", by |-> 0]

\* A file is named after the place and the call it was made in and by.
Files == [at : {"yard", "store"}, by : 1..MaxCalls]

Ops == {"Backup", "Restore", "Delete"}

Steps == {"start", "create", "recv", "close", "open", "upload", "copy", "download", "reader",
          "read", "delete", "remove", "end"}

CallRecord ==
    [op : Ops, handle : Handles, pc : Steps, stream : {"open", "eof", "broken"}, ok : BOOLEAN,
     from : Files \cup {None}, to : Files \cup {None}, k : 0..Chunks,
     seen : UNION {[1..n -> 0..MaxCalls] : n \in 0..Chunks}]

ServiceTypeOK ==
    /\ Len(calls) <= MaxCalls /\ \A c \in DOMAIN calls : calls[c] \in CallRecord
    /\ yard \in [Handles -> {f \in Files : f.at = "yard"} \cup {None}]
    /\ store \in [Handles -> {f \in Files : f.at = "store"} \cup {None}]
    /\ disk \in [Files -> UNION {[1..n -> 0..MaxCalls] : n \in 0..Chunks}]
    /\ failuresLeft \in 0..MaxFailures

ServiceInit(failures) ==
    /\ calls = <<>>
    /\ yard = [h \in Handles |-> None] /\ store = [h \in Handles |-> None]
    /\ disk = [f \in Files |-> <<>>]
    /\ failuresLeft = failures

-----------------------------------------------------------------------------
(* Files.                                                                  *)

\* os.Create: the file of the path, emptied, or a new one.
Created(place, at, c, h) == IF place[h] = None THEN [at |-> at, by |-> c] ELSE place[h]

WriteAt(content, k, chunk) ==
    [i \in 1..(IF k > Len(content) THEN k ELSE Len(content)) |->
        IF i = k THEN chunk ELSE IF i <= Len(content) THEN content[i] ELSE Hole]

-----------------------------------------------------------------------------
(* Calls.                                                                  *)

Step(c, pc) == pc = calls[c].pc

Goto(c, pc) == calls' = [calls EXCEPT ![c].pc = pc]

\* The handler returns: deferred, the file at the path is removed, whoever made it.
Return(c, ok) == calls' = [calls EXCEPT ![c].pc = "remove", ![c].ok = ok]

End(c, ok) == calls' = [calls EXCEPT ![c].pc = "end", ![c].ok = ok]

Running(c) == calls[c].pc # "end"

\* A client opens a call.
Open(op, h) ==
    /\ Len(calls) < MaxCalls
    /\ calls' = Append(calls, [op |-> op, handle |-> h, pc |-> "start", stream |-> "open",
                               ok |-> FALSE, from |-> None, to |-> None, k |-> 0, seen |-> <<>>])
    /\ UNCHANGED <<yard, store, disk, failuresLeft>>

-----------------------------------------------------------------------------
(* Backup.                                                                 *)

\* A file of that name is an error, and stays.
GetArchiver(c) ==
    /\ Step(c, "start") /\ calls[c].op = "Backup"
    /\ IF yard[calls[c].handle] = None THEN Goto(c, "create") ELSE End(c, FALSE)
    /\ UNCHANGED <<yard, store, disk, failuresLeft>>

CreateArchive(c) ==
    LET h == calls[c].handle
        f == Created(yard, "yard", c, h)
    IN  /\ Step(c, "create") /\ calls[c].op = "Backup"
        /\ yard' = [yard EXCEPT ![h] = f]
        /\ disk' = [disk EXCEPT ![f] = <<>>]
        /\ calls' = [calls EXCEPT ![c].pc = "recv", ![c].to = f]
        /\ UNCHANGED <<store, failuresLeft>>

\* The resources go to the archive as they arrive, up to the end of the stream.
Recv(c) ==
    LET f == calls[c].to
    IN  /\ Step(c, "recv")
        /\ \/ /\ calls[c].stream = "eof"
              /\ disk' = [disk EXCEPT ![f] = WriteAt(@, 1, c)]
              /\ Goto(c, "close")
           \/ calls[c].stream = "broken" /\ Return(c, FALSE) /\ UNCHANGED disk
        /\ UNCHANGED <<yard, store, failuresLeft>>

CloseArchive(c) ==
    LET f == calls[c].to
    IN  /\ Step(c, "close")
        /\ disk' = [disk EXCEPT ![f] = WriteAt(@, Chunks, c)]
        /\ Goto(c, "open")
        /\ UNCHANGED <<yard, store, failuresLeft>>

\* Upload opens the path, not the file the archive was written to.
Upload(c) ==
    LET f == yard[calls[c].handle]
    IN  /\ Step(c, "open")
        /\ IF f = None THEN Return(c, FALSE)
           ELSE calls' = [calls EXCEPT ![c].pc = "upload", ![c].from = f]
        /\ UNCHANGED <<yard, store, disk, failuresLeft>>

\* The provider creates the file of the store, or truncates the one it has.
NfsUpload(c) ==
    LET h == calls[c].handle
        f == Created(store, "store", c, h)
    IN  /\ Step(c, "upload")
        /\ store' = [store EXCEPT ![h] = f]
        /\ disk' = [disk EXCEPT ![f] = <<>>]
        /\ calls' = [calls EXCEPT ![c].pc = "copy", ![c].to = f]
        /\ UNCHANGED <<yard, failuresLeft>>

\* A chunk more, or the end of the file as it is now. Nobody compares lengths.
Copy(c) ==
    LET content == disk[calls[c].from]
        k       == calls[c].k + 1
    IN  /\ Step(c, "copy")
        /\ IF k <= Len(content)
           THEN /\ disk' = [disk EXCEPT ![calls[c].to] = WriteAt(@, k, content[k])]
                /\ calls' = [calls EXCEPT ![c].k = k]
           ELSE /\ UNCHANGED disk
                /\ IF calls[c].op = "Backup" THEN Return(c, TRUE) ELSE Goto(c, "reader")
        /\ UNCHANGED <<yard, store, failuresLeft>>

-----------------------------------------------------------------------------
(* Restore.                                                                *)

NfsDownload(c) ==
    LET f == store[calls[c].handle]
    IN  /\ Step(c, "start") /\ calls[c].op = "Restore"
        /\ IF f = None THEN End(c, FALSE)
           ELSE calls' = [calls EXCEPT ![c].pc = "download", ![c].from = f]
        /\ UNCHANGED <<yard, store, disk, failuresLeft>>

Download(c) ==
    LET h == calls[c].handle
        f == Created(yard, "yard", c, h)
    IN  /\ Step(c, "download")
        /\ yard' = [yard EXCEPT ![h] = f]
        /\ disk' = [disk EXCEPT ![f] = <<>>]
        /\ calls' = [calls EXCEPT ![c].pc = "copy", ![c].to = f]
        /\ UNCHANGED <<store, failuresLeft>>

GetArchiveReader(c) ==
    LET f == yard[calls[c].handle]
    IN  /\ Step(c, "reader")
        /\ IF f = None THEN Return(c, FALSE)
           ELSE calls' = [calls EXCEPT ![c].pc = "read", ![c].from = f]
        /\ UNCHANGED <<yard, store, disk, failuresLeft>>

\* Mutant: a file that ends early is taken for the end of the archive.
ReadNextLenient(c) ==
    LET content == disk[calls[c].from]
        n       == Len(calls[c].seen) + 1
    IN  /\ Step(c, "read")
        /\ IF n > Len(content) THEN Return(c, TRUE)
           ELSE calls' = [calls EXCEPT ![c].seen = Append(@, content[n]),
                                       ![c].pc = IF n = Chunks THEN "remove" ELSE "read",
                                       ![c].ok = (n = Chunks)]
        /\ UNCHANGED <<yard, store, disk, failuresLeft>>

\* The entries are sent as they are read. What is not a whole archive is an error of the
\* decompressor, at the latest at the trailer.
ReadNext(c) ==
    LET content == disk[calls[c].from]
        n       == Len(calls[c].seen) + 1
    IN  /\ Step(c, "read")
        /\ IF \/ n > Len(content) \/ content[n] = Hole
              \/ n > 1 /\ content[n] # calls[c].seen[1]
           THEN Return(c, FALSE)
           ELSE calls' = [calls EXCEPT ![c].seen = Append(@, content[n]),
                                       ![c].pc = IF n = Chunks THEN "remove" ELSE "read",
                                       ![c].ok = (n = Chunks)]
        /\ UNCHANGED <<yard, store, disk, failuresLeft>>

-----------------------------------------------------------------------------
(* Delete.                                                                 *)

ObjectExists(c) ==
    /\ Step(c, "start") /\ calls[c].op = "Delete"
    /\ IF store[calls[c].handle] = None THEN End(c, TRUE) ELSE Goto(c, "delete")
    /\ UNCHANGED <<yard, store, disk, failuresLeft>>

\* The answer of the provider is not looked at.
NfsDelete(c) ==
    /\ Step(c, "delete")
    /\ End(c, TRUE)
    /\ \/ store' = [store EXCEPT ![calls[c].handle] = None] /\ UNCHANGED failuresLeft
       \/ failuresLeft > 0 /\ failuresLeft' = failuresLeft - 1 /\ UNCHANGED store
    /\ UNCHANGED <<yard, disk>>

-----------------------------------------------------------------------------

deleteFile(c) ==
    /\ Step(c, "remove")
    /\ yard' = [yard EXCEPT ![calls[c].handle] = None]
    /\ Goto(c, "end")
    /\ UNCHANGED <<store, disk, failuresLeft>>

\* The provider breaks off a transfer. A failed Download has no file to remove yet.
ProviderFails(c) ==
    /\ failuresLeft > 0 /\ failuresLeft' = failuresLeft - 1
    /\ Step(c, "copy")
    /\ IF calls[c].op = "Backup" THEN Return(c, FALSE) ELSE End(c, FALSE)
    /\ UNCHANGED <<yard, store, disk>>

\* The service dies, with all its calls and the files of its container: a chunk that
\* cannot be sent to the provider (log.Fatal) is one reason.
ServiceCrash ==
    /\ failuresLeft > 0 /\ failuresLeft' = failuresLeft - 1
    /\ \E c \in DOMAIN calls : Running(c)
    /\ calls' = [c \in DOMAIN calls |->
                    IF Running(c) THEN [calls[c] EXCEPT !.pc = "end", !.ok = FALSE] ELSE calls[c]]
    /\ yard' = [h \in Handles |-> None]
    /\ UNCHANGED <<store, disk>>

ServiceStep(c) ==
    \/ GetArchiver(c) \/ CreateArchive(c) \/ Recv(c) \/ CloseArchive(c)
    \/ Upload(c) \/ NfsUpload(c) \/ Copy(c)
    \/ NfsDownload(c) \/ Download(c) \/ GetArchiveReader(c) \/ ReadNext(c)
    \/ ObjectExists(c) \/ NfsDelete(c)
    \/ deleteFile(c) \/ ProviderFails(c)

=============================================================================
