------------------------ MODULE LocalFilesystemStore ------------------------
(* The artifact store on the local file system                               *)
(* (src/storage/local_filesystem_store.py), one system call at a time:        *)
(* publishers and readers in several processes, I/O errors, killed processes  *)
(* and power losses.                                                          *)
(*                                                                            *)
(* The file system is the one POSIX promises: a directory entry survives a    *)
(* power loss for certain only after an fsync of its directory, and the bytes *)
(* of a file only after an fsync of the file. A key is the SHA-256 of its     *)
(* bytes, taken as collision free: the entry of key[2:] in the shard key[:2]  *)
(* is indexed here by the blob itself.                                        *)
EXTENDS Naturals, FiniteSets

CONSTANTS
    Procs,      \* the processes (or threads) that use the store
    Writers,    \* those that were given the store; the others hold a reader
    Blobs,      \* the byte strings in play, all within max_blob_bytes
    Shards,     \* the names sha256/<2 hex> in play
    ShardOf,    \* the shard of each blob's key
    MaxFaults   \* how often each kind of fault may strike

FaultKinds == {"damage", "kill", "power", "io"}

ASSUME StoreAssumption ==
    /\ Writers \subseteq Procs
    /\ ShardOf \in [Blobs -> Shards]
    /\ {"sha256", "tmp"} \cap Shards = {}
    /\ MaxFaults \in [FaultKinds -> Nat]

Dirs == {"sha256", "tmp"} \cup Shards

VARIABLES
    dirs,       \* each directory: absent, volatile (entry not synced) or durable
    blobs,      \* the file under each key, or NoFile
    temp,       \* the temporary file each process is publishing, or NoFile
    call,       \* the call each process is in, or made last
    acked,      \* the blobs some put has answered for with their key
    faults      \* faults so far, by kind

vars == <<dirs, blobs, temp, call, acked, faults>>

NoFile == [bytes |-> "none"]
\* bytes: partial, whole, or altered by someone else since (damaged).
File(bytes, flushed, entry) == [bytes |-> bytes, flushed |-> flushed, entry |-> entry]

Files == [bytes : {"partial", "whole", "damaged"}, flushed : BOOLEAN,
          entry : {"volatile", "durable"}]

NoCall == [op |-> "none"]

\* at: where in the code the call is; made: it created the directory it enters.
Steps == {"root", "sha256", "tmp", "shard", "check", "create", "write", "flush",
          "link", "recheck", "sync", "unlink", "done"}
Answers == {"pending", "key", "data", "yes", "no", "not_found",
            "integrity_error", "publish_error", "configuration_error"}
Calls == [op : {"put", "get", "exists"}, blob : Blobs, at : Steps,
          made : BOOLEAN, answer : Answers]

StoreTypeOK ==
    /\ dirs \in [Dirs -> {"absent", "volatile", "durable"}]
    /\ blobs \in [Blobs -> Files \cup {NoFile}]
    /\ temp \in [Procs -> Files \cup {NoFile}]
    /\ call \in [Procs -> Calls \cup {NoCall}]
    /\ acked \subseteq Blobs
    /\ faults \in [FaultKinds -> Nat]

Init ==
    /\ dirs = [d \in Dirs |-> "absent"]
    /\ blobs = [b \in Blobs |-> NoFile]
    /\ temp = [p \in Procs |-> NoFile]
    /\ call = [p \in Procs |-> NoCall]
    /\ acked = {}
    /\ faults = [k \in FaultKinds |-> 0]

Present(b) == blobs[b] # NoFile

Calling(p) == call[p] # NoCall /\ call[p].at # "done"

Reached(p, step) == Calling(p) /\ call[p].at = step

Goto(p, step) == call' = [call EXCEPT ![p].at = step, ![p].made = FALSE]

\* The call ends with answer r, once the temporary file, if any, is unlinked.
Conclude(p, r) ==
    call' = [call EXCEPT ![p].answer = r,
                         ![p].at = IF temp[p] = NoFile THEN "done" ELSE "unlink"]

Acknowledge(p, r) ==
    acked' = IF r = "key" THEN acked \cup {call[p].blob} ELSE acked

Strike(kind) ==
    /\ faults[kind] < MaxFaults[kind]
    /\ faults' = [faults EXCEPT ![kind] = @ + 1]
-----------------------------------------------------------------------------
(* Calls *)

Start(p, op, b) ==
    /\ ~Calling(p)
    /\ op = "put" => p \in Writers
    /\ call' = [call EXCEPT ![p] = [op |-> op, blob |-> b, at |-> "root",
                                    made |-> FALSE, answer |-> "pending"]]
    /\ UNCHANGED <<dirs, blobs, temp, acked, faults>>

OpenRoot(p) ==
    /\ Reached(p, "root") /\ call[p].op = "put"
    /\ Goto(p, "sha256")
    /\ UNCHANGED <<dirs, blobs, temp, acked, faults>>

\* The directory a put is entering, and where it goes from there.
DirAt(p) == IF call[p].at = "shard" THEN ShardOf[call[p].blob] ELSE call[p].at
Entering(p) == Calling(p) /\ call[p].at \in {"sha256", "tmp", "shard"}
After == [sha256 |-> "tmp", tmp |-> "shard", shard |-> "check"]

MakeDir(p) ==
    /\ Entering(p)
    /\ dirs[DirAt(p)] = "absent"
    /\ dirs' = [dirs EXCEPT ![DirAt(p)] = "volatile"]
    /\ call' = [call EXCEPT ![p].made = TRUE]
    /\ UNCHANGED <<blobs, temp, acked, faults>>

\* Bug variant: the entry of a new directory is not synced.
EnterDir_NoSync(p) ==
    /\ Entering(p)
    /\ dirs[DirAt(p)] # "absent"
    /\ Goto(p, After[call[p].at])
    /\ UNCHANGED <<dirs, blobs, temp, acked, faults>>

\* Syncing a parent makes the entries of all its directories durable.
Siblings(d) == IF d \in Shards THEN Shards ELSE {"sha256", "tmp"}
Synced(d) == [e \in Dirs |->
    IF e \in Siblings(d) /\ dirs[e] = "volatile" THEN "durable" ELSE dirs[e]]

EnterDir(p) ==
    /\ Entering(p)
    /\ dirs[DirAt(p)] # "absent"
    /\ dirs' = IF call[p].made THEN Synced(DirAt(p)) ELSE dirs
    /\ Goto(p, After[call[p].at])
    /\ UNCHANGED <<blobs, temp, acked, faults>>

\* What _matches_existing concludes of the file under the key.
Verdict(b) == IF blobs[b].bytes = "whole" THEN "key" ELSE "integrity_error"

CheckExisting(p) ==
    /\ Reached(p, "check")
    /\ LET b == call[p].blob IN
        IF Present(b)
        THEN Conclude(p, Verdict(b)) /\ Acknowledge(p, Verdict(b))
        ELSE Goto(p, "create") /\ UNCHANGED acked
    /\ UNCHANGED <<dirs, blobs, temp, faults>>

\* A fresh random name in tmp/: never taken, never met again.
CreateTemp(p) ==
    /\ Reached(p, "create")
    /\ temp' = [temp EXCEPT ![p] = File("partial", FALSE, "volatile")]
    /\ Goto(p, "write")
    /\ UNCHANGED <<dirs, blobs, acked, faults>>

WriteAll(p) ==
    /\ Reached(p, "write")
    /\ temp' = [temp EXCEPT ![p].bytes = "whole"]
    /\ Goto(p, "flush")
    /\ UNCHANGED <<dirs, blobs, acked, faults>>

\* Bug variant: the bytes are linked before they are flushed.
FlushFile_Skipped(p) ==
    /\ Reached(p, "flush")
    /\ Goto(p, "link")
    /\ UNCHANGED <<dirs, blobs, temp, acked, faults>>

FlushFile(p) ==
    /\ Reached(p, "flush")
    /\ temp' = [temp EXCEPT ![p].flushed = TRUE]
    /\ Goto(p, "link")
    /\ UNCHANGED <<dirs, blobs, acked, faults>>

\* Bug variant: os.replace in place of os.link.
Link_Replaces(p) ==
    /\ Reached(p, "link")
    /\ blobs' = [blobs EXCEPT ![call[p].blob] = temp[p]]
    /\ Goto(p, "sync")
    /\ UNCHANGED <<dirs, temp, acked, faults>>

\* link(2) fails if the key is there already; it never replaces it.
Link(p) ==
    /\ Reached(p, "link")
    /\ LET b == call[p].blob IN
        IF Present(b)
        THEN Goto(p, "recheck") /\ UNCHANGED blobs
        ELSE blobs' = [blobs EXCEPT ![b] = temp[p]] /\ Goto(p, "sync")
    /\ UNCHANGED <<dirs, temp, acked, faults>>

\* Another publisher won: its bytes are compared, its sync is not awaited.
Recheck(p) ==
    /\ Reached(p, "recheck")
    /\ LET b == call[p].blob
           r == IF Present(b) THEN Verdict(b) ELSE "publish_error" IN
        Conclude(p, r) /\ Acknowledge(p, r)
    /\ UNCHANGED <<dirs, blobs, temp, faults>>

SyncShard(p) ==
    /\ Reached(p, "sync")
    /\ blobs' = [b \in Blobs |->
        IF ShardOf[b] = ShardOf[call[p].blob] /\ Present(b)
        THEN [blobs[b] EXCEPT !.entry = "durable"] ELSE blobs[b]]
    /\ Conclude(p, "key") /\ Acknowledge(p, "key")
    /\ UNCHANGED <<dirs, temp, faults>>

\* A failure to unlink is ignored: the file stays behind in tmp/, unread.
Unlink(p) ==
    /\ Reached(p, "unlink")
    /\ temp' = [temp EXCEPT ![p] = NoFile]
    /\ Goto(p, "done")
    /\ UNCHANGED <<dirs, blobs, acked, faults>>

\* get and exists walk the same path and read, or look, once at its end.
PathTo(b) == dirs["sha256"] # "absent" /\ dirs[ShardOf[b]] # "absent"

Get(p) ==
    /\ Reached(p, "root") /\ call[p].op = "get"
    /\ LET b == call[p].blob IN
        Conclude(p, IF ~PathTo(b) \/ ~Present(b) THEN "not_found"
                    ELSE IF blobs[b].bytes = "whole" THEN "data"
                    ELSE "integrity_error")
    /\ UNCHANGED <<dirs, blobs, temp, acked, faults>>

Exists(p) ==
    /\ Reached(p, "root") /\ call[p].op = "exists"
    /\ Conclude(p, IF PathTo(call[p].blob) /\ Present(call[p].blob) THEN "yes" ELSE "no")
    /\ UNCHANGED <<dirs, blobs, temp, acked, faults>>
-----------------------------------------------------------------------------
(* Faults *)

\* What a failing system call makes of the call it happens in.
Failure(c) ==
    CASE c.at = "root" -> {"configuration_error"} \cup
             (IF c.op = "get" THEN {"integrity_error"}
              ELSE IF c.op = "exists" THEN {"no"} ELSE {})
      [] c.at \in {"sha256", "tmp", "shard"} ->
             {"configuration_error", "integrity_error", "publish_error"}
      [] c.at \in {"check", "recheck"} -> {"integrity_error"}
      [] OTHER -> {"publish_error"}

IoError(p) ==
    /\ Calling(p) /\ call[p].at # "unlink"
    /\ \E r \in Failure(call[p]) : Conclude(p, r)
    /\ Strike("io")
    /\ UNCHANGED <<dirs, blobs, temp, acked>>

\* The process dies; its temporary file stays behind in tmp/.
Kill(p) ==
    /\ Calling(p)
    /\ call' = [call EXCEPT ![p] = NoCall]
    /\ temp' = [temp EXCEPT ![p] = NoFile]
    /\ Strike("kill")
    /\ UNCHANGED <<dirs, blobs, acked>>

\* Someone with the owner's rights alters a published file.
Damage(b) ==
    /\ blobs[b].bytes = "whole"
    /\ blobs' = [blobs EXCEPT ![b].bytes = "damaged"]
    /\ Strike("damage")
    /\ UNCHANGED <<dirs, temp, call, acked>>

\* The machine goes down and comes back with what is on its disk: every durable
\* entry, any of the volatile ones whose path is there, and of a file that was
\* not flushed any part of the bytes.
PowerLoss ==
    /\ \E keptDirs \in SUBSET {d \in Dirs : dirs[d] = "volatile"},
          keptBlobs \in SUBSET {b \in Blobs : Present(b) /\ blobs[b].entry = "volatile"},
          torn \in SUBSET {b \in Blobs : Present(b) /\ ~blobs[b].flushed} :
        LET Kept(d) == dirs[d] = "durable" \/ d \in keptDirs
            DirStays(d) == Kept(d) /\ (d \in Shards => Kept("sha256"))
            Stays(b) == /\ Present(b) /\ DirStays(ShardOf[b])
                        /\ blobs[b].entry = "durable" \/ b \in keptBlobs
        IN  /\ dirs' = [d \in Dirs |-> IF DirStays(d) THEN "durable" ELSE "absent"]
            /\ blobs' = [b \in Blobs |->
                IF ~Stays(b) THEN NoFile
                ELSE File(IF b \in torn THEN "partial" ELSE blobs[b].bytes, TRUE, "durable")]
    /\ temp' = [p \in Procs |-> NoFile]
    /\ call' = [p \in Procs |-> NoCall]
    /\ Strike("power")
    /\ UNCHANGED acked

Next ==
    \/ \E p \in Procs :
        \/ \E op \in {"put", "get", "exists"}, b \in Blobs : Start(p, op, b)
        \/ OpenRoot(p) \/ MakeDir(p) \/ EnterDir(p) \/ CheckExisting(p)
        \/ CreateTemp(p) \/ WriteAll(p) \/ FlushFile(p) \/ Link(p) \/ Recheck(p)
        \/ SyncShard(p) \/ Unlink(p) \/ Get(p) \/ Exists(p)
        \/ IoError(p) \/ Kill(p)
    \/ \E b \in Blobs : Damage(b)
    \/ PowerLoss

Spec == Init /\ [][Next]_vars
-----------------------------------------------------------------------------
(* Properties *)

\* P4 of ARTIFACT_STORAGE_DECISION.md: no partial blob is ever under a key, not
\* even after a power loss in the middle of a publication.
NoPartialBlob == \A b \in Blobs : Present(b) => blobs[b].bytes # "partial"

\* What a caller of the contract sees of a file and of a call.
StoredAs(b) ==
    IF ~Present(b) THEN "absent"
    ELSE IF blobs[b].bytes = "whole" THEN "intact" ELSE "damaged"
AskedAs(p) ==
    IF call[p] = NoCall THEN NoCall
    ELSE [op |-> call[p].op, blob |-> call[p].blob,
          answer |-> IF call[p].at = "sync" THEN "published" ELSE call[p].answer]

\* The store is the one of its contract: a file appears once under its key and
\* is never replaced, a put answers with a key only for bytes it saw or placed
\* there whole, and a reader gets data only while they are whole (P2, P3, D5).
Store == INSTANCE BlobStore WITH
    stored <- [b \in Blobs |-> StoredAs(b)], asked <- [p \in Procs |-> AskedAs(p)]

KeepsContract == Store!Spec

\* What each publisher leaves to the others is done once all of them are back,
\* if none of them failed: the next power loss takes no answered key away.
SettledSurvives ==
    /\ \A p \in Procs : ~Calling(p)
    /\ \A k \in {"io", "kill", "power"} : faults[k] = 0
    => \A b \in acked :
        /\ Present(b) /\ blobs[b].flushed /\ blobs[b].entry = "durable"
        /\ dirs["sha256"] = "durable" /\ dirs[ShardOf[b]] = "durable"
=============================================================================
