--------------------- MODULE LocalFilesystemStoreProofs ---------------------
(* What holds of LocalFilesystemStore for any processes, blobs, shards and     *)
(* faults: no partial blob is ever published, every behaviour is one of the    *)
(* contract BlobStore (the initial states map to initial states and every step *)
(* to a step of the contract or to none), and what was answered is durable     *)
(* once everybody is back.                                                     *)
EXTENDS LocalFilesystemStore, TLAPS

\* Where a call may be, by what it has done so far.
CallsInOrder ==
    \A p \in Procs : call[p] # NoCall =>
        /\ call[p].op = "put" \/ call[p].at \in {"root", "done"}
        /\ call[p].answer = "pending" <=> call[p].at \notin {"unlink", "done"}

\* A temporary file is whole and flushed when it is about to be linked.
TempsReady ==
    \A p \in Procs :
      /\ ~Calling(p) => temp[p] = NoFile
      /\ Calling(p) =>
        /\ call[p].at \in {"write", "flush", "link"} => temp[p] # NoFile
        /\ call[p].at \in {"flush", "link"} => temp[p].bytes = "whole"
        /\ call[p].at = "link" => temp[p].flushed
        /\ call[p].at \in {"root", "sha256", "tmp", "shard", "check", "create"}
             => temp[p] = NoFile

\* Every published file was flushed, whole, before it was linked.
PublishedFlushed ==
    \A b \in Blobs : Present(b) => blobs[b].flushed /\ blobs[b].bytes # "partial"

StoreInv == StoreTypeOK /\ CallsInOrder /\ TempsReady /\ PublishedFlushed

\* Calls other than the one a step is of are left alone.
OthersSame(p) == \A q \in Procs : q # p => call'[q] = call[q] /\ temp'[q] = temp[q]

\* Goto moves one call and nothing else of it.
LEMMA GotoMoves ==
    ASSUME NEW p \in Procs, call \in [Procs -> Calls \cup {NoCall}],
           call[p] # NoCall, NEW step \in Steps, Goto(p, step)
    PROVE  /\ call' \in [Procs -> Calls \cup {NoCall}]
           /\ \A q \in Procs : q # p => call'[q] = call[q]
           /\ call'[p] # NoCall
           /\ call'[p].at = step /\ call'[p].op = call[p].op
           /\ call'[p].blob = call[p].blob /\ call'[p].answer = call[p].answer
<1> DEFINE moved == [call[p] EXCEPT !.at = step, !.made = FALSE]
<1>1. call[p] \in Calls
  OBVIOUS
<1>2. /\ moved \in Calls /\ moved.at = step /\ moved.op = call[p].op
      /\ moved.blob = call[p].blob /\ moved.answer = call[p].answer
  BY <1>1 DEF Calls
<1>3. moved # NoCall
  BY <1>2 DEF Calls, NoCall
<1>4. call' = [call EXCEPT ![p] = moved]
  BY DEF Goto
<1> HIDE DEF moved
<1> QED  BY <1>2, <1>3, <1>4

\* Conclude answers one call and leaves it at the unlink, or done.
LEMMA ConcludeAnswers ==
    ASSUME NEW p \in Procs, call \in [Procs -> Calls \cup {NoCall}],
           call[p] # NoCall, NEW r \in Answers, Conclude(p, r)
    PROVE  /\ call' \in [Procs -> Calls \cup {NoCall}]
           /\ \A q \in Procs : q # p => call'[q] = call[q]
           /\ call'[p] # NoCall
           /\ call'[p].at = (IF temp[p] = NoFile THEN "done" ELSE "unlink")
           /\ call'[p].op = call[p].op
           /\ call'[p].blob = call[p].blob /\ call'[p].answer = r
<1> DEFINE step == IF temp[p] = NoFile THEN "done" ELSE "unlink"
           ended == [call[p] EXCEPT !.answer = r, !.at = step]
<1>1. call[p] \in Calls /\ step \in Steps
  BY DEF Steps
<1>2. /\ ended \in Calls /\ ended.at = step /\ ended.op = call[p].op
      /\ ended.blob = call[p].blob /\ ended.answer = r
  BY <1>1 DEF Calls
<1>3. ended # NoCall
  BY <1>2 DEF Calls, NoCall
<1>4. call' = [call EXCEPT ![p] = ended]
  BY DEF Conclude
<1> HIDE DEF ended
<1> QED  BY <1>2, <1>3, <1>4

\* A fault is counted.
LEMMA StrikeCounts ==
    ASSUME NEW kind \in FaultKinds, faults \in [FaultKinds -> Nat], Strike(kind)
    PROVE  faults' \in [FaultKinds -> Nat]
BY SMT DEF Strike

LEMMA InitInv == Init => StoreInv
BY DEF Init, StoreInv, StoreTypeOK, CallsInOrder, TempsReady, PublishedFlushed,
       Present, Calling, NoCall, NoFile, FaultKinds

\* The directories and the blobs keep out of each other's way.
LEMMA PutSteps ==
    ASSUME StoreAssumption, StoreInv, NEW p \in Procs,
           OpenRoot(p) \/ MakeDir(p) \/ EnterDir(p)
    PROVE  StoreInv'
<1> USE DEF StoreInv, StoreTypeOK, Calling, Present
<1>1. CASE OpenRoot(p)
  <2>1. call[p] # NoCall /\ Goto(p, "sha256") /\ "sha256" \in Steps
    BY <1>1 DEF OpenRoot, Reached, Steps
  <2> QED  BY <1>1, <2>1, GotoMoves DEF OpenRoot, Reached, CallsInOrder, TempsReady, PublishedFlushed
<1>2. CASE MakeDir(p)
  <2>1. DirAt(p) \in Dirs
    BY <1>2 DEF MakeDir, Entering, DirAt, Dirs, StoreAssumption, Calls
  <2>2. /\ call' \in [Procs -> Calls \cup {NoCall}]
        /\ \A q \in Procs : q # p => call'[q] = call[q]
        /\ call'[p] # NoCall /\ call'[p].at = call[p].at
        /\ call'[p].op = call[p].op /\ call'[p].answer = call[p].answer
    <3> DEFINE noted == [call[p] EXCEPT !.made = TRUE]
    <3>1. call[p] \in Calls
      BY <1>2 DEF MakeDir, Entering
    <3>2. noted \in Calls /\ noted.at = call[p].at /\ noted.op = call[p].op /\ noted.answer = call[p].answer
      BY <3>1 DEF Calls
    <3>3. noted # NoCall
      BY <3>2 DEF Calls, NoCall
    <3>4. call' = [call EXCEPT ![p] = noted]
      BY <1>2 DEF MakeDir
    <3> HIDE DEF noted
    <3> QED  BY <3>2, <3>3, <3>4
  <2>3. dirs' \in [Dirs -> {"absent", "volatile", "durable"}]
    BY <1>2, <2>1 DEF MakeDir
  <2>4. UNCHANGED <<blobs, temp, acked, faults>>
    BY <1>2 DEF MakeDir
  <2>5. CallsInOrder' /\ TempsReady'
    BY <2>2, <2>4, <1>2 DEF CallsInOrder, TempsReady, MakeDir, Entering
  <2> QED  BY <2>2, <2>3, <2>4, <2>5 DEF PublishedFlushed
<1>3. CASE EnterDir(p)
  <2>1. /\ call[p] # NoCall /\ Goto(p, After[call[p].at])
        /\ After[call[p].at] \in {"tmp", "shard", "check"}
    BY <1>3 DEF EnterDir, Entering, After
  <2>2. After[call[p].at] \in Steps
    BY <2>1 DEF Steps
  <2>3. dirs' \in [Dirs -> {"absent", "volatile", "durable"}]
    BY <1>3 DEF EnterDir, Synced
  <2> QED  BY <1>3, <2>1, <2>2, <2>3, GotoMoves
             DEF EnterDir, Entering, CallsInOrder, TempsReady, PublishedFlushed
<1> QED  BY <1>1, <1>2, <1>3

\* An answered call is where it should be.
LEMMA ConcludeKeeps ==
    ASSUME StoreInv, NEW p \in Procs, Calling(p),
           NEW r \in Answers, r # "pending", Conclude(p, r), temp' = temp
    PROVE  call' \in [Procs -> Calls \cup {NoCall}] /\ CallsInOrder' /\ TempsReady'
<1> USE DEF StoreInv, StoreTypeOK, Calling
<1>1. /\ call' \in [Procs -> Calls \cup {NoCall}]
      /\ \A q \in Procs : q # p => call'[q] = call[q]
      /\ call'[p] # NoCall
      /\ call'[p].at = (IF temp[p] = NoFile THEN "done" ELSE "unlink")
      /\ call'[p].op = call[p].op /\ call'[p].answer = r
  BY ConcludeAnswers
<1>2. call[p].op # "put" => temp[p] = NoFile
  BY DEF CallsInOrder, TempsReady
<1>3. CallsInOrder'
  BY <1>1, <1>2 DEF CallsInOrder
<1>4. TempsReady'
  BY <1>1 DEF TempsReady
<1> QED  BY <1>1, <1>3, <1>4

\* The verdict on an existing file is an answer.
LEMMA VerdictAnswers == ASSUME NEW b \in Blobs PROVE Verdict(b) \in Answers \ {"pending"}
BY DEF Verdict, Answers

\* The steps that may answer a call.
LEMMA AnswerSteps ==
    ASSUME StoreAssumption, StoreInv, NEW p \in Procs,
           CheckExisting(p) \/ Recheck(p) \/ SyncShard(p) \/ Get(p) \/ Exists(p) \/ IoError(p)
    PROVE  StoreInv'
<1> USE DEF StoreInv, StoreTypeOK
<1>0. Calling(p) => call[p] # NoCall /\ call[p].blob \in Blobs
  BY DEF Calling, Calls
<1>1. CASE CheckExisting(p)
  <2>1. Calling(p) /\ call[p].at = "check"
    BY <1>1 DEF CheckExisting, Reached
  <2>2. CASE Present(call[p].blob)
    <3>1. Conclude(p, Verdict(call[p].blob)) /\ Acknowledge(p, Verdict(call[p].blob))
      BY <1>1, <2>2 DEF CheckExisting
    <3>2. call' \in [Procs -> Calls \cup {NoCall}] /\ CallsInOrder' /\ TempsReady'
      BY <1>0, <1>1, <2>1, <3>1, VerdictAnswers, ConcludeKeeps DEF CheckExisting
    <3> QED  BY <1>0, <1>1, <2>1, <3>1, <3>2 DEF CheckExisting, Acknowledge, PublishedFlushed, Present
  <2>3. CASE ~Present(call[p].blob)
    <3>1. Goto(p, "create") /\ "create" \in Steps /\ UNCHANGED acked
      BY <1>1, <2>3 DEF CheckExisting, Steps
    <3>2. /\ call' \in [Procs -> Calls \cup {NoCall}]
          /\ \A q \in Procs : q # p => call'[q] = call[q]
          /\ call'[p] # NoCall /\ call'[p].at = "create"
          /\ call'[p].op = call[p].op /\ call'[p].answer = call[p].answer
      BY <1>0, <2>1, <3>1, GotoMoves
    <3>3. UNCHANGED <<dirs, blobs, temp, acked, faults>>
      BY <1>1, <3>1 DEF CheckExisting
    <3>4. CallsInOrder' /\ TempsReady'
      BY <2>1, <3>2, <3>3 DEF CallsInOrder, TempsReady, Calling
    <3> QED  BY <3>2, <3>3, <3>4 DEF PublishedFlushed, Present
  <2> QED  BY <2>2, <2>3
<1>2. CASE Recheck(p)
  <2> DEFINE r == IF Present(call[p].blob) THEN Verdict(call[p].blob) ELSE "publish_error"
  <2>1. Calling(p) /\ Conclude(p, r) /\ Acknowledge(p, r) /\ UNCHANGED <<dirs, blobs, temp, faults>>
    BY <1>2 DEF Recheck, Reached
  <2>2. r \in Answers /\ r # "pending"
    BY <1>0, <2>1, VerdictAnswers DEF Answers
  <2> HIDE DEF r
  <2>3. call' \in [Procs -> Calls \cup {NoCall}] /\ CallsInOrder' /\ TempsReady'
    BY <2>1, <2>2, ConcludeKeeps
  <2> QED  BY <1>0, <2>1, <2>3 DEF Acknowledge, PublishedFlushed, Present
<1>3. CASE SyncShard(p)
  <2>1. Calling(p) /\ Conclude(p, "key") /\ Acknowledge(p, "key") /\ UNCHANGED <<dirs, temp, faults>>
    BY <1>3 DEF SyncShard, Reached
  <2>2. call' \in [Procs -> Calls \cup {NoCall}] /\ CallsInOrder' /\ TempsReady'
    BY <2>1, ConcludeKeeps DEF Answers
  <2>3. \A b \in Blobs : \/ blobs'[b] = blobs[b]
                         \/ blobs[b] \in Files /\ blobs'[b] = [blobs[b] EXCEPT !.entry = "durable"]
    BY <1>3 DEF SyncShard, Present
  <2>4. \A b \in Blobs : /\ blobs'[b] \in Files \cup {NoFile}
                         /\ Present(b)' => Present(b)
                         /\ blobs'[b].bytes = blobs[b].bytes
                         /\ Present(b) => blobs'[b].flushed = blobs[b].flushed
    <3> SUFFICES ASSUME NEW b \in Blobs
                 PROVE  /\ blobs'[b] \in Files \cup {NoFile}
                        /\ Present(b)' => Present(b)
                        /\ blobs'[b].bytes = blobs[b].bytes
                        /\ Present(b) => blobs'[b].flushed = blobs[b].flushed
      OBVIOUS
    <3>1. CASE blobs'[b] = blobs[b]
      BY <3>1 DEF Present
    <3>2. CASE blobs[b] \in Files /\ blobs'[b] = [blobs[b] EXCEPT !.entry = "durable"]
      <4>1. blobs'[b] \in Files /\ blobs'[b].bytes = blobs[b].bytes /\ blobs'[b].flushed = blobs[b].flushed
        BY <3>2 DEF Files
      <4>2. blobs[b] # NoFile
        BY <3>2 DEF Files, NoFile
      <4> QED  BY <4>1, <4>2 DEF Present
    <3> QED  BY <2>3, <3>1, <3>2
  <2>5. DOMAIN blobs' = Blobs /\ blobs' = [b \in Blobs |-> blobs'[b]]
    BY <1>3 DEF SyncShard
  <2>6. PublishedFlushed'
    BY <2>4 DEF PublishedFlushed
  <2> QED  BY <1>0, <2>1, <2>2, <2>4, <2>5, <2>6 DEF Acknowledge
<1>4. CASE Get(p)
  <2>1. \E r \in Answers \ {"pending"} : Conclude(p, r)
    BY <1>4 DEF Get, Answers
  <2>2. Calling(p) /\ UNCHANGED <<dirs, blobs, temp, acked, faults>>
    BY <1>4 DEF Get, Reached
  <2>3. call' \in [Procs -> Calls \cup {NoCall}] /\ CallsInOrder' /\ TempsReady'
    BY <2>1, <2>2, ConcludeKeeps
  <2> QED  BY <2>2, <2>3 DEF PublishedFlushed, Present
<1>5. CASE Exists(p)
  <2>1. \E r \in Answers \ {"pending"} : Conclude(p, r)
    BY <1>5 DEF Exists, Answers
  <2>2. Calling(p) /\ UNCHANGED <<dirs, blobs, temp, acked, faults>>
    BY <1>5 DEF Exists, Reached
  <2>3. call' \in [Procs -> Calls \cup {NoCall}] /\ CallsInOrder' /\ TempsReady'
    BY <2>1, <2>2, ConcludeKeeps
  <2> QED  BY <2>2, <2>3 DEF PublishedFlushed, Present
<1>6. CASE IoError(p)
  <2>1. \E r \in Answers \ {"pending"} : Conclude(p, r)
    BY <1>6 DEF IoError, Failure, Answers
  <2>2. Calling(p) /\ UNCHANGED <<dirs, blobs, temp, acked>>
    BY <1>6 DEF IoError
  <2>3. call' \in [Procs -> Calls \cup {NoCall}] /\ CallsInOrder' /\ TempsReady'
    BY <2>1, <2>2, ConcludeKeeps
  <2>4. faults' \in [FaultKinds -> Nat]
    BY <1>6, StrikeCounts DEF IoError, FaultKinds
  <2> QED  BY <2>2, <2>3, <2>4 DEF PublishedFlushed, Present
<1> QED  BY <1>1, <1>2, <1>3, <1>4, <1>5, <1>6

\* The steps of a publication, from the new temporary file to its unlinking.
LEMMA PublishSteps ==
    ASSUME StoreAssumption, StoreInv, NEW p \in Procs,
           CreateTemp(p) \/ WriteAll(p) \/ FlushFile(p) \/ Link(p) \/ Unlink(p)
    PROVE  StoreInv'
<1> USE DEF StoreInv, StoreTypeOK
<1>0. Calling(p) /\ call[p] # NoCall /\ call[p].blob \in Blobs
  BY DEF Calling, Calls, CreateTemp, WriteAll, FlushFile, Link, Unlink, Reached
<1>1. ASSUME NEW step \in Steps, Goto(p, step), UNCHANGED <<dirs, acked, faults>>,
             step = "done" <=> call[p].at = "unlink", step \notin {"unlink", "root"},
             call[p].at \notin {"root", "done"},
             step \notin {"sha256", "tmp", "shard", "check", "create"},
             \A q \in Procs : q # p => temp'[q] = temp[q],
             temp' \in [Procs -> Files \cup {NoFile}],
             step \in {"write", "flush", "link"} => temp'[p] # NoFile,
             step \in {"flush", "link"} => temp'[p].bytes = "whole",
             step = "link" => temp'[p].flushed,
             step = "done" => temp'[p] = NoFile,
             blobs' \in [Blobs -> Files \cup {NoFile}], PublishedFlushed'
      PROVE  StoreInv'
  <2>1. /\ call' \in [Procs -> Calls \cup {NoCall}]
        /\ \A q \in Procs : q # p => call'[q] = call[q]
        /\ call'[p] # NoCall /\ call'[p].at = step
        /\ call'[p].op = call[p].op /\ call'[p].answer = call[p].answer
    BY <1>0, <1>1, GotoMoves
  <2>2. CallsInOrder'
    BY <1>0, <1>1, <2>1 DEF CallsInOrder
  <2>3. TempsReady'
    BY <1>1, <2>1 DEF TempsReady, Calling
  <2> QED  BY <1>1, <2>1, <2>2, <2>3
<1>2. CASE CreateTemp(p)
  <2>1. temp' = [temp EXCEPT ![p] = File("partial", FALSE, "volatile")]
    BY <1>2 DEF CreateTemp
  <2>2. File("partial", FALSE, "volatile") \in Files /\ File("partial", FALSE, "volatile") # NoFile
    BY DEF File, Files, NoFile
  <2>3. PublishedFlushed'
    BY <1>2 DEF CreateTemp, PublishedFlushed, Present
  <2> QED  BY <1>1, <1>2, <2>1, <2>2, <2>3 DEF CreateTemp, Reached, Steps
<1>3. CASE WriteAll(p)
  <2> DEFINE file == [temp[p] EXCEPT !.bytes = "whole"]
  <2>1. temp[p] \in Files
    BY <1>3 DEF WriteAll, Reached, TempsReady
  <2>2. file \in Files /\ file # NoFile /\ file.bytes = "whole"
    BY <2>1 DEF Files, NoFile
  <2>3. temp' = [temp EXCEPT ![p] = file]
    BY <1>3 DEF WriteAll
  <2>4. PublishedFlushed'
    BY <1>3 DEF WriteAll, PublishedFlushed, Present
  <2> HIDE DEF file
  <2> QED  BY <1>1, <1>3, <2>2, <2>3, <2>4 DEF WriteAll, Reached, Steps
<1>4. CASE FlushFile(p)
  <2> DEFINE file == [temp[p] EXCEPT !.flushed = TRUE]
  <2>1. temp[p] \in Files /\ temp[p].bytes = "whole"
    BY <1>4 DEF FlushFile, Reached, TempsReady
  <2>2. file \in Files /\ file # NoFile /\ file.bytes = "whole" /\ file.flushed
    BY <2>1 DEF Files, NoFile
  <2>3. temp' = [temp EXCEPT ![p] = file]
    BY <1>4 DEF FlushFile
  <2>4. PublishedFlushed'
    BY <1>4 DEF FlushFile, PublishedFlushed, Present
  <2> HIDE DEF file
  <2> QED  BY <1>1, <1>4, <2>2, <2>3, <2>4 DEF FlushFile, Reached, Steps
<1>5. CASE Link(p)
  <2>1. temp[p] \in Files /\ temp[p].bytes = "whole" /\ temp[p].flushed
    BY <1>5 DEF Link, Reached, TempsReady
  <2>2. PICK step \in {"recheck", "sync"} : Goto(p, step)
    BY <1>5 DEF Link
  <2>3. \/ blobs' = blobs
        \/ blobs' = [blobs EXCEPT ![call[p].blob] = temp[p]]
    BY <1>5 DEF Link
  <2>4. blobs' \in [Blobs -> Files \cup {NoFile}] /\ PublishedFlushed'
    BY <1>0, <2>1, <2>3 DEF PublishedFlushed, Present
  <2>5. call[p].at = "link" /\ UNCHANGED <<dirs, temp, acked, faults>>
    BY <1>5 DEF Link, Reached
  <2> QED  BY <1>1, <2>2, <2>4, <2>5 DEF Steps
<1>6. CASE Unlink(p)
  <2>1. temp' = [temp EXCEPT ![p] = NoFile]
    BY <1>6 DEF Unlink
  <2>2. PublishedFlushed'
    BY <1>6 DEF Unlink, PublishedFlushed, Present
  <2> QED  BY <1>1, <1>6, <2>1, <2>2 DEF Unlink, Reached, Steps
<1> QED  BY <1>2, <1>3, <1>4, <1>5, <1>6

\* A new call starts with no temporary file of its own.
LEMMA StartStep ==
    ASSUME StoreAssumption, StoreInv, NEW p \in Procs,
           NEW op \in {"put", "get", "exists"}, NEW b \in Blobs, Start(p, op, b)
    PROVE  StoreInv'
<1> USE DEF StoreInv, StoreTypeOK
<1> DEFINE new == [op |-> op, blob |-> b, at |-> "root", made |-> FALSE, answer |-> "pending"]
<1>1. new \in Calls /\ new # NoCall /\ new.at = "root" /\ new.answer = "pending"
  BY DEF Calls, NoCall, Steps, Answers
<1>2. call' = [call EXCEPT ![p] = new] /\ ~Calling(p) /\ UNCHANGED <<dirs, blobs, temp, acked, faults>>
  BY DEF Start
<1> HIDE DEF new
<1>3. CallsInOrder'
  BY <1>1, <1>2 DEF CallsInOrder
<1>4. TempsReady'
  BY <1>1, <1>2 DEF TempsReady, Calling
<1> QED  BY <1>1, <1>2, <1>3, <1>4 DEF PublishedFlushed, Present

\* A process that dies leaves nothing the others rely on.
LEMMA KillStep ==
    ASSUME StoreAssumption, StoreInv, NEW p \in Procs, Kill(p)
    PROVE  StoreInv'
<1> USE DEF StoreInv, StoreTypeOK
<1>1. faults' \in [FaultKinds -> Nat]
  BY StrikeCounts DEF Kill, FaultKinds
<1>2. CallsInOrder'
  BY DEF Kill, CallsInOrder
<1>3. TempsReady'
  BY DEF Kill, TempsReady, Calling
<1> QED  BY <1>1, <1>2, <1>3 DEF Kill, PublishedFlushed, Present

\* Damage alters a file that stays where it is.
LEMMA DamageStep ==
    ASSUME StoreAssumption, StoreInv, NEW b \in Blobs, Damage(b)
    PROVE  StoreInv'
<1> USE DEF StoreInv, StoreTypeOK
<1> DEFINE file == [blobs[b] EXCEPT !.bytes = "damaged"]
<1>1. blobs[b] \in Files /\ blobs[b].bytes = "whole"
  BY DEF Damage, NoFile
<1>2. file \in Files /\ file.bytes = "damaged" /\ file.flushed = blobs[b].flushed
  BY <1>1 DEF Files
<1>3. blobs' = [blobs EXCEPT ![b] = file] /\ UNCHANGED <<dirs, temp, call, acked>>
  BY DEF Damage
<1>4. faults' \in [FaultKinds -> Nat]
  BY StrikeCounts DEF Damage, FaultKinds
<1>5. Present(b)
  BY <1>1 DEF Present, NoFile
<1> HIDE DEF file
<1>6. PublishedFlushed'
  BY <1>2, <1>3, <1>5 DEF PublishedFlushed, Present
<1> QED  BY <1>2, <1>3, <1>4, <1>6 DEF CallsInOrder, TempsReady, Calling

\* What a power loss leaves of a flushed file is the file, or nothing of it.
LEMMA PowerLossLoses ==
    ASSUME StoreInv, PowerLoss
    PROVE  \A b \in Blobs : \/ blobs'[b] = NoFile
                            \/ /\ Present(b)
                               /\ blobs'[b] = File(blobs[b].bytes, TRUE, "durable")
BY DEF StoreInv, StoreTypeOK, PowerLoss, PublishedFlushed, Present

\* A power loss ends every call.
LEMMA PowerLossStep ==
    ASSUME StoreAssumption, StoreInv, PowerLoss
    PROVE  StoreInv'
<1> USE DEF StoreInv, StoreTypeOK
<1>1. dirs' \in [Dirs -> {"absent", "volatile", "durable"}]
  BY DEF PowerLoss
<1>2. \A b \in Blobs : blobs'[b] \in Files \cup {NoFile}
  <2>1. \A b \in Blobs : Present(b) =>
            File(blobs[b].bytes, TRUE, "durable") \in Files
    BY DEF File, Files, Present
  <2> QED  BY <2>1, PowerLossLoses
<1>3. blobs' \in [Blobs -> Files \cup {NoFile}]
  BY <1>2 DEF PowerLoss
<1>4. PublishedFlushed'
  <2>1. ASSUME NEW b \in Blobs, Present(b)'
        PROVE  blobs'[b].flushed /\ blobs'[b].bytes # "partial"
    <3>1. Present(b) /\ blobs'[b] = File(blobs[b].bytes, TRUE, "durable")
      BY <2>1, PowerLossLoses DEF Present
    <3>2. blobs[b].bytes # "partial"
      BY <3>1 DEF PublishedFlushed
    <3> QED  BY <3>1, <3>2 DEF File
  <2> QED  BY <2>1 DEF PublishedFlushed
<1>5. temp' = [p \in Procs |-> NoFile] /\ call' = [p \in Procs |-> NoCall] /\ UNCHANGED acked
  BY DEF PowerLoss
<1>6. faults' \in [FaultKinds -> Nat]
  BY StrikeCounts DEF PowerLoss, FaultKinds
<1>7. CallsInOrder' /\ TempsReady'
  BY <1>5 DEF CallsInOrder, TempsReady, Calling
<1> QED  BY <1>1, <1>3, <1>4, <1>5, <1>6, <1>7

LEMMA NextInv == ASSUME StoreInv, [Next]_vars PROVE StoreInv'
<1>1. CASE UNCHANGED vars
  BY <1>1 DEF vars, StoreInv, StoreTypeOK, CallsInOrder, TempsReady, PublishedFlushed, Present, Calling
<1>2. CASE Next
  BY <1>2, StoreAssumption, PutSteps, AnswerSteps, PublishSteps, StartStep, KillStep,
     DamageStep, PowerLossStep DEF Next
<1> QED  BY <1>1, <1>2

\* The files, calls and counters of the store have their types, always.
THEOREM StoreTypeCorrect == Spec => []StoreTypeOK
<1>1. StoreInv => StoreTypeOK
  BY DEF StoreInv
<1> QED  BY <1>1, InitInv, NextInv, PTL DEF Spec

\* P4 for any processes, blobs and faults: whatever is under a key was whole and
\* flushed when it got there, so that not even a power loss leaves a part of it.
THEOREM NeverAPartialBlob == Spec => []NoPartialBlob
<1>1. StoreInv => NoPartialBlob
  BY DEF StoreInv, PublishedFlushed, NoPartialBlob
<1> QED  BY <1>1, InitInv, NextInv, PTL DEF Spec
-----------------------------------------------------------------------------
(* The contract *)

\* What the contract sees of the state.
StoredMap == [b \in Blobs |-> StoredAs(b)]
AskedMap == [p \in Procs |-> AskedAs(p)]

-----------------------------------------------------------------------------
(* A published file can be reached: its directories are there, as they are for *)
(* a put that has entered them. get and exists look for them first.            *)

Inside == {"check", "create", "write", "flush", "link", "recheck", "sync"}

PathsThere ==
    /\ \A b \in Blobs : Present(b) => PathTo(b)
    /\ \A p \in Procs : Calling(p) =>
        /\ call[p].at \in {"tmp", "shard"} => dirs["sha256"] # "absent"
        /\ call[p].at \in Inside => PathTo(call[p].blob)

PathInv == StoreInv /\ PathsThere

\* Where a step may take a call without leaving the directories it relies on.
WellPlaced(p) ==
    \/ call'[p] = call[p] \/ call'[p] = NoCall
    \/ call'[p].at \in {"root", "sha256", "unlink", "done"}
    \/ call'[p].at \in {"tmp", "shard"} /\ dirs'["sha256"] # "absent"
    \/ call'[p].at \in Inside /\ PathTo(call[p].blob)'

LEMMA PathsKept ==
    ASSUME StoreAssumption, PathInv,
           \A d \in Dirs : dirs[d] # "absent" => dirs'[d] # "absent",
           \A b \in Blobs : Present(b)' => Present(b) \/ PathTo(b),
           \A p \in Procs : WellPlaced(p)
    PROVE  PathsThere'
<1>1. ASSUME NEW b \in Blobs, PathTo(b) PROVE PathTo(b)'
  <2>1. ShardOf[b] \in Dirs /\ "sha256" \in Dirs
    BY StoreAssumption DEF StoreAssumption, Dirs
  <2> QED  BY <1>1, <2>1 DEF PathTo
<1>2. \A b \in Blobs : Present(b)' => PathTo(b)'
  BY <1>1 DEF PathInv, PathsThere
<1>3. ASSUME NEW p \in Procs, Calling(p)'
      PROVE  /\ call'[p].at \in {"tmp", "shard"} => dirs'["sha256"] # "absent"
             /\ call'[p].at \in Inside => PathTo(call[p].blob)'
  <2>1. CASE call'[p] = call[p]
    <3>1. call[p].blob \in Blobs /\ Calling(p)
      BY <1>3, <2>1 DEF PathInv, StoreInv, StoreTypeOK, Calling, Calls
    <3>2. PathTo(call[p].blob) => PathTo(call[p].blob)'
      BY <1>1, <2>1, <3>1 DEF PathTo
    <3> QED  BY <2>1, <3>1, <3>2 DEF PathInv, PathsThere, Dirs
  <2>2. CASE call'[p] # call[p]
    BY <1>3, <2>2 DEF WellPlaced, Calling, Inside
  <2> QED  BY <2>1, <2>2
<1> QED  BY <1>2, <1>3 DEF PathsThere

\* A call that concludes, or goes where its directories are, is well placed.
LEMMA ConcludeWellPlaced ==
    ASSUME StoreInv, NEW p \in Procs, Calling(p), NEW r \in Answers, Conclude(p, r)
    PROVE  \A q \in Procs : WellPlaced(q)
BY ConcludeAnswers DEF WellPlaced, StoreInv, StoreTypeOK, Calling

LEMMA GotoWellPlaced ==
    ASSUME StoreInv, NEW p \in Procs, Calling(p), NEW step \in Steps, Goto(p, step),
           \/ step \in {"sha256", "done"}
           \/ step \in {"tmp", "shard"} /\ dirs'["sha256"] # "absent"
           \/ step \in Inside /\ PathTo(call[p].blob)'
    PROVE  \A q \in Procs : WellPlaced(q)
<1>1. /\ \A q \in Procs : q # p => call'[q] = call[q]
      /\ call'[p].at = step /\ call'[p].blob = call[p].blob
  BY GotoMoves DEF StoreInv, StoreTypeOK, Calling
<1> QED  BY <1>1 DEF WellPlaced

LEMMA PathsOfPutSteps ==
    ASSUME StoreAssumption, PathInv, NEW p \in Procs,
           OpenRoot(p) \/ MakeDir(p) \/ EnterDir(p)
    PROVE  PathsThere'
<1> USE DEF PathInv
<1>1. CASE OpenRoot(p)
  <2>1. Calling(p) /\ Goto(p, "sha256") /\ "sha256" \in Steps /\ UNCHANGED <<dirs, blobs>>
    BY <1>1 DEF OpenRoot, Reached, Steps
  <2>2. \A q \in Procs : WellPlaced(q)
    BY <2>1, GotoWellPlaced
  <2> QED  BY <2>1, <2>2, PathsKept DEF Present
<1>2. CASE MakeDir(p)
  <2>1. DirAt(p) \in Dirs /\ call[p] \in Calls
    BY <1>2 DEF MakeDir, Entering, DirAt, Dirs, StoreAssumption, Calls, StoreInv, StoreTypeOK, Calling
  <2>2. \A d \in Dirs : dirs[d] # "absent" => dirs'[d] # "absent"
    BY <1>2, <2>1 DEF MakeDir, StoreInv, StoreTypeOK
  <2>3. call' = [call EXCEPT ![p] = [call[p] EXCEPT !.made = TRUE]] /\ UNCHANGED blobs
    BY <1>2 DEF MakeDir
  <2>4. [call[p] EXCEPT !.made = TRUE].at = call[p].at
    BY <2>1 DEF Calls
  <2>5. \A q \in Procs : q # p => call'[q] = call[q]
    BY <2>3 DEF StoreInv, StoreTypeOK
  <2>6. call'[p].at = call[p].at
    BY <2>3, <2>4 DEF StoreInv, StoreTypeOK
  <2>7. call[p].at \in {"tmp", "shard"} => dirs'["sha256"] # "absent"
    BY <1>2, <2>2 DEF MakeDir, Entering, PathsThere, Dirs
  <2>8. \A q \in Procs : WellPlaced(q)
    BY <1>2, <2>5, <2>6, <2>7 DEF WellPlaced, MakeDir, Entering
  <2> QED  BY <2>2, <2>3, <2>8, PathsKept DEF Present
<1>3. CASE EnterDir(p)
  <2> DEFINE next == After[call[p].at]
  <2>1. Calling(p) /\ Goto(p, next) /\ UNCHANGED blobs /\ dirs[DirAt(p)] # "absent"
        /\ call[p].at \in {"sha256", "tmp", "shard"} /\ call[p].blob \in Blobs
    BY <1>3 DEF EnterDir, Entering, Calling, StoreInv, StoreTypeOK, Calls
  <2>2. \A d \in Dirs : dirs[d] # "absent" => dirs'[d] # "absent"
    BY <1>3 DEF EnterDir, Synced, StoreInv, StoreTypeOK
  <2>3. dirs["sha256"] # "absent"
    BY <2>1 DEF DirAt, PathsThere
  <2>4. dirs'["sha256"] # "absent" /\ (call[p].at = "shard" => PathTo(call[p].blob)')
    <3>1. dirs'["sha256"] # "absent"
      BY <2>2, <2>3 DEF Dirs
    <3>2. ASSUME call[p].at = "shard" PROVE dirs'[ShardOf[call[p].blob]] # "absent"
      BY <2>1, <2>2, <3>2, StoreAssumption DEF DirAt, StoreAssumption, Dirs
    <3>3. next \in Steps
      BY <2>1 DEF After, Steps
    <3>4. call'[p].blob = call[p].blob
      BY <2>1, <3>3, GotoMoves DEF StoreInv, StoreTypeOK, Calling
    <3> QED  BY <3>1, <3>2, <3>4 DEF PathTo
  <2>5. next \in Steps /\ next \in {"tmp", "shard", "check"}
        /\ (next = "check" => call[p].at = "shard")
    BY <2>1 DEF After, Steps
  <2>6. \A q \in Procs : WellPlaced(q)
    BY <2>1, <2>4, <2>5, GotoWellPlaced DEF Inside
  <2> QED  BY <2>1, <2>2, <2>6, PathsKept DEF Present
<1> QED  BY <1>1, <1>2, <1>3

LEMMA PathsOfOtherSteps ==
    ASSUME StoreAssumption, PathInv, NEW p \in Procs,
           \/ CheckExisting(p) \/ Recheck(p) \/ SyncShard(p) \/ Get(p) \/ Exists(p) \/ IoError(p)
           \/ CreateTemp(p) \/ WriteAll(p) \/ FlushFile(p) \/ Link(p) \/ Unlink(p) \/ Kill(p)
           \/ \E op \in {"put", "get", "exists"}, b \in Blobs : Start(p, op, b)
    PROVE  PathsThere'
<1> USE DEF PathInv
<1>1. UNCHANGED dirs
  BY DEF CheckExisting, Recheck, SyncShard, Get, Exists, IoError, CreateTemp, WriteAll,
         FlushFile, Link, Unlink, Kill, Start
<1>2. ASSUME NEW b \in Blobs, Present(b)' PROVE Present(b) \/ PathTo(b)
  <2>1. CASE Link(p)
    <3>1. Calling(p) /\ call[p].at = "link" /\ call[p].blob \in Blobs
      BY <2>1 DEF Link, Reached, Calling, StoreInv, StoreTypeOK, Calls
    <3>2. PathTo(call[p].blob)
      BY <3>1 DEF PathsThere, Inside
    <3> QED  BY <1>2, <2>1, <3>1, <3>2 DEF Link, Present, StoreInv, StoreTypeOK
  <2>2. CASE SyncShard(p)
    BY <1>2, <2>2 DEF SyncShard, Present
  <2>3. CASE ~Link(p) /\ ~SyncShard(p)
    <3>1. UNCHANGED blobs
      BY <2>3 DEF CheckExisting, Recheck, Get, Exists, IoError, CreateTemp, WriteAll,
                  FlushFile, Unlink, Kill, Start
    <3> QED  BY <1>2, <3>1 DEF Present
  <2> QED  BY <2>1, <2>2, <2>3
<1>3. ASSUME Calling(p), \E r \in Answers : Conclude(p, r)
      PROVE  \A q \in Procs : WellPlaced(q)
  BY <1>3, ConcludeWellPlaced
<1>4. ASSUME Calling(p), call[p].at \in Inside \cup {"unlink"},
             NEW step \in Steps, Goto(p, step),
             step \in Inside => call[p].at \in Inside, step \in Inside \cup {"done"}
      PROVE  \A q \in Procs : WellPlaced(q)
  <2>1. call'[p].blob = call[p].blob
    BY <1>4, GotoMoves DEF StoreInv, StoreTypeOK, Calling
  <2>2. step \in Inside => PathTo(call[p].blob)'
    BY <1>1, <1>4, <2>1 DEF PathsThere, PathTo
  <2> QED  BY <1>4, <2>2, GotoWellPlaced
<1>5. \A q \in Procs : WellPlaced(q)
  <2>1. CASE Recheck(p) \/ SyncShard(p) \/ Get(p) \/ Exists(p) \/ IoError(p)
    <3>1. Calling(p) /\ \E r \in Answers : Conclude(p, r)
      BY <2>1 DEF Recheck, SyncShard, Get, Exists, IoError, Reached, Verdict, Failure, Answers
    <3> QED  BY <1>3, <3>1
  <2>2. CASE CheckExisting(p)
    <3>1. \/ \E r \in Answers : Conclude(p, r)
          \/ Goto(p, "create")
      BY <2>2 DEF CheckExisting, Verdict, Answers
    <3> QED  BY <1>3, <1>4, <2>2, <3>1 DEF CheckExisting, Reached, Inside, Steps
  <2>3. CASE CreateTemp(p) \/ WriteAll(p) \/ FlushFile(p) \/ Link(p) \/ Unlink(p)
    BY <1>4, <2>3 DEF CreateTemp, WriteAll, FlushFile, Link, Unlink, Reached, Inside, Steps
  <2>4. CASE Kill(p)
    BY <2>4 DEF Kill, WellPlaced, StoreInv, StoreTypeOK
  <2>5. CASE \E op \in {"put", "get", "exists"}, b \in Blobs : Start(p, op, b)
    BY <2>5 DEF Start, WellPlaced, StoreInv, StoreTypeOK
  <2> QED  BY <2>1, <2>2, <2>3, <2>4, <2>5
<1> QED  BY <1>1, <1>2, <1>5, PathsKept

LEMMA PathsOfFaults ==
    ASSUME StoreAssumption, PathInv, PowerLoss \/ \E b \in Blobs : Damage(b)
    PROVE  PathsThere'
<1> USE DEF PathInv
<1>1. CASE PowerLoss
  <2>1. \A p \in Procs : ~Calling(p)'
    BY <1>1 DEF PowerLoss, Calling
  <2>2. ASSUME NEW b \in Blobs, Present(b)' PROVE PathTo(b)'
    <3>1. ShardOf[b] \in Shards /\ ShardOf[b] \in Dirs /\ "sha256" \in Dirs
      BY StoreAssumption DEF StoreAssumption, Dirs
    <3> QED  BY <1>1, <2>2, <3>1, StoreAssumption DEF PowerLoss, Present, PathTo, StoreAssumption
  <2> QED  BY <2>1, <2>2 DEF PathsThere
<1>2. CASE \E b \in Blobs : Damage(b)
  <2>1. UNCHANGED <<dirs, call>>
    BY <1>2 DEF Damage
  <2>2. \A b \in Blobs : Present(b)' => Present(b)
    BY <1>2 DEF Damage, Present, StoreInv, StoreTypeOK, NoFile
  <2> QED  BY <2>1, <2>2, PathsKept DEF WellPlaced
<1> QED  BY <1>1, <1>2

LEMMA PathInitInv == Init => PathInv
BY InitInv DEF Init, PathInv, PathsThere, Present, Calling, NoCall, NoFile

LEMMA PathNextInv == ASSUME PathInv, [Next]_vars PROVE PathInv'
<1>1. StoreInv'
  BY NextInv DEF PathInv
<1>2. CASE UNCHANGED vars
  BY <1>1, <1>2 DEF vars, PathInv, PathsThere, Present, PathTo, Calling
<1>3. CASE Next
  BY <1>1, <1>3, StoreAssumption, PathsOfPutSteps, PathsOfOtherSteps, PathsOfFaults
     DEF Next, PathInv
<1> QED  BY <1>2, <1>3
-----------------------------------------------------------------------------
(* The mapping *)

LEMMA NoCalls == Store!NoCall = NoCall
BY DEF Store!NoCall, NoCall

\* A call is open in the contract exactly while it has no answer.
LEMMA OpenCalls ==
    ASSUME StoreInv, NEW p \in Procs
    PROVE  /\ Store!Open(p) <=> Calling(p) /\ call[p].at # "unlink"
           /\ call[p] # NoCall =>
                /\ AskedAs(p) # NoCall /\ AskedAs(p).op = call[p].op
                /\ AskedAs(p).blob = call[p].blob /\ call[p].blob \in Blobs
                /\ call[p].at = "sync" => AskedAs(p).answer = "published"
                /\ call[p].at # "sync" => AskedAs(p).answer = call[p].answer
<1> USE DEF StoreInv, StoreTypeOK
<1>1. CASE call[p] = NoCall
  BY <1>1, NoCalls DEF Store!Open, Calling, AskedAs
<1>2. CASE call[p] # NoCall
  <2>1. call[p] \in Calls
    BY <1>2
  <2>2. AskedAs(p) = [op |-> call[p].op, blob |-> call[p].blob,
            answer |-> IF call[p].at = "sync" THEN "published" ELSE call[p].answer]
    BY <1>2 DEF AskedAs
  <2>3. AskedAs(p).op = call[p].op /\ call[p].op # "none"
    BY <2>1, <2>2 DEF Calls
  <2>4. AskedAs(p) # NoCall
    BY <2>3 DEF NoCall
  <2>5. call[p].answer \in Answers /\ call[p].blob \in Blobs
    BY <2>1 DEF Calls
  <2>6. call[p].answer = "pending" <=> call[p].at \notin {"unlink", "done"}
    BY <1>2 DEF CallsInOrder
  <2>7. AskedAs(p).answer \in {"pending", "published"} <=> call[p].at \notin {"unlink", "done"}
    BY <2>2, <2>5, <2>6 DEF Answers
  <2> QED  BY <1>2, <2>2, <2>4, <2>5, <2>7, NoCalls DEF Store!Open, Calling
<1> QED  BY <1>1, <1>2

\* A step that changes no file and no open call is none of the contract.
LEMMA Stutters ==
    ASSUME \A b \in Blobs : StoredAs(b)' = StoredAs(b),
           \A p \in Procs : AskedAs(p)' = AskedAs(p)
    PROVE  UNCHANGED Store!vars
BY DEF Store!vars

\* A call that concludes with an allowed answer is answered in the contract.
LEMMA ConcludesAsAnswer ==
    ASSUME StoreInv, NEW p \in Procs, Calling(p), call[p].at # "unlink",
           NEW r \in Answers \ {"pending"}, Conclude(p, r),
           \A b \in Blobs : StoredAs(b)' = StoredAs(b),
           Store!Allowed(AskedAs(p), r)
    PROVE  Store!Next
<1> USE DEF StoreInv, StoreTypeOK
<1>1. call[p] # NoCall
  BY DEF Calling
<1>2. /\ \A q \in Procs : q # p => call'[q] = call[q]
      /\ call'[p] # NoCall
      /\ call'[p].at \in {"done", "unlink"}
      /\ call'[p].op = call[p].op
      /\ call'[p].blob = call[p].blob /\ call'[p].answer = r
  BY <1>1, ConcludeAnswers
<1>3. AskedAs(p) = [op |-> call[p].op, blob |-> call[p].blob,
            answer |-> IF call[p].at = "sync" THEN "published" ELSE call[p].answer]
  BY <1>1 DEF AskedAs
<1>4. AskedAs(p)' = [op |-> call[p].op, blob |-> call[p].blob, answer |-> r]
  BY <1>2 DEF AskedAs
<1>5. AskedAs(p)' = [AskedAs(p) EXCEPT !.answer = r]
  BY <1>3, <1>4
<1>6. \A q \in Procs : q # p => AskedAs(q)' = AskedAs(q)
  BY <1>2 DEF AskedAs
<1>7. AskedMap' = [AskedMap EXCEPT ![p].answer = r]
  BY <1>5, <1>6 DEF AskedMap
<1>8. StoredMap' = StoredMap
  BY DEF StoredMap
<1>9. Store!Open(p)
  BY OpenCalls
<1>10. r \in {"key", "data", "yes", "no", "not_found", "integrity_error",
              "publish_error", "configuration_error"}
  BY DEF Answers
<1>11. Store!Answer(p)
  BY <1>7, <1>8, <1>9, <1>10 DEF Store!Answer, AskedMap, StoredMap
<1> QED  BY <1>11 DEF Store!Next

LEMMA SameFiles == ASSUME blobs' = blobs PROVE \A b \in Blobs : StoredAs(b)' = StoredAs(b)
BY DEF StoredAs, Present

\* Moving a call, other than from or to the sync, does not show.
LEMMA GotoStutters ==
    ASSUME StoreInv, NEW p \in Procs, Calling(p), call[p].at # "sync",
           NEW step \in Steps \ {"sync"}, Goto(p, step)
    PROVE  \A q \in Procs : AskedAs(q)' = AskedAs(q)
<1> USE DEF StoreInv, StoreTypeOK
<1>1. call[p] # NoCall
  BY DEF Calling
<1>2. /\ \A q \in Procs : q # p => call'[q] = call[q]
      /\ call'[p] # NoCall
      /\ call'[p].at = step /\ call'[p].op = call[p].op
      /\ call'[p].blob = call[p].blob /\ call'[p].answer = call[p].answer
  BY <1>1, GotoMoves
<1> QED  BY <1>1, <1>2 DEF AskedAs

LEMMA MovesStutter ==
    ASSUME StoreInv, NEW p \in Procs,
           \/ OpenRoot(p) \/ EnterDir(p) \/ CreateTemp(p) \/ WriteAll(p)
           \/ FlushFile(p) \/ Unlink(p)
    PROVE  UNCHANGED Store!vars
<1>1. Calling(p) /\ call[p].at # "sync" /\ blobs' = blobs
  BY DEF OpenRoot, EnterDir, CreateTemp, WriteAll, FlushFile, Unlink, Reached, Entering
<1>2. \E step \in Steps \ {"sync"} : Goto(p, step)
  <2>1. CASE EnterDir(p)
    BY <2>1 DEF EnterDir, Entering, After, Steps
  <2>2. CASE ~EnterDir(p)
    BY <2>2 DEF OpenRoot, CreateTemp, WriteAll, FlushFile, Unlink, Steps
  <2> QED  BY <2>1, <2>2
<1> QED  BY <1>1, <1>2, GotoStutters, SameFiles, Stutters

LEMMA MakeDirStutters ==
    ASSUME StoreInv, NEW p \in Procs, MakeDir(p)
    PROVE  UNCHANGED Store!vars
<1> DEFINE noted == [call[p] EXCEPT !.made = TRUE]
<1>1. call[p] \in Calls
  BY DEF StoreInv, StoreTypeOK, MakeDir, Entering, Calling
<1>2. /\ noted \in Calls /\ noted.at = call[p].at /\ noted.op = call[p].op
      /\ noted.answer = call[p].answer /\ noted.blob = call[p].blob
  BY <1>1 DEF Calls
<1>3. noted # NoCall /\ call[p] # NoCall
  BY <1>1, <1>2 DEF Calls, NoCall
<1>4. call' = [call EXCEPT ![p] = noted] /\ call \in [Procs -> Calls \cup {NoCall}]
  BY DEF MakeDir, StoreInv, StoreTypeOK
<1> HIDE DEF noted
<1>5. \A q \in Procs : AskedAs(q)' = AskedAs(q)
  BY <1>2, <1>3, <1>4 DEF AskedAs
<1> QED  BY <1>5, SameFiles, Stutters DEF MakeDir

\* The verdict on a file under its key is one the contract allows of a put.
LEMMA VerdictAllowed ==
    ASSUME StoreInv, NEW p \in Procs, Calling(p), call[p].at \in {"check", "recheck"},
           Present(call[p].blob)
    PROVE  Store!Allowed(AskedAs(p), Verdict(call[p].blob))
<1>1. /\ AskedAs(p).op = "put" /\ AskedAs(p).answer = "pending"
      /\ AskedAs(p).blob = call[p].blob /\ call[p].blob \in Blobs
  BY OpenCalls DEF StoreInv, CallsInOrder, Calling
<1>2. StoredMap[call[p].blob] =
        IF blobs[call[p].blob].bytes = "whole" THEN "intact" ELSE "damaged"
  BY <1>1 DEF StoredMap, StoredAs
<1> QED  BY <1>1, <1>2 DEF Store!Allowed, Verdict, StoredMap

LEMMA CheckMaps ==
    ASSUME StoreInv, NEW p \in Procs, CheckExisting(p)
    PROVE  [Store!Next]_Store!vars
<1>1. Calling(p) /\ call[p].at = "check" /\ blobs' = blobs
  BY DEF CheckExisting, Reached
<1>2. CASE Present(call[p].blob)
  <2>1. Conclude(p, Verdict(call[p].blob))
    BY <1>2 DEF CheckExisting
  <2>2. Verdict(call[p].blob) \in Answers \ {"pending"}
    BY DEF Verdict, Answers
  <2> QED  BY <1>1, <1>2, <2>1, <2>2, VerdictAllowed, SameFiles, ConcludesAsAnswer
<1>3. CASE ~Present(call[p].blob)
  <2>1. Goto(p, "create") /\ "create" \in Steps \ {"sync"}
    BY <1>3 DEF CheckExisting, Steps
  <2> QED  BY <1>1, <2>1, GotoStutters, SameFiles, Stutters
<1> QED  BY <1>2, <1>3

LEMMA RecheckMaps ==
    ASSUME StoreInv, NEW p \in Procs, Recheck(p)
    PROVE  Store!Next
<1>1. Calling(p) /\ call[p].at = "recheck" /\ blobs' = blobs
  BY DEF Recheck, Reached
<1>2. CASE Present(call[p].blob)
  <2>1. Conclude(p, Verdict(call[p].blob))
    BY <1>2 DEF Recheck
  <2>2. Verdict(call[p].blob) \in Answers \ {"pending"}
    BY DEF Verdict, Answers
  <2> QED  BY <1>1, <1>2, <2>1, <2>2, VerdictAllowed, SameFiles, ConcludesAsAnswer
<1>3. CASE ~Present(call[p].blob)
  <2>1. Conclude(p, "publish_error") /\ "publish_error" \in Answers \ {"pending"}
    BY <1>3 DEF Recheck, Answers
  <2>2. Store!Allowed(AskedAs(p), "publish_error")
    BY <1>1, OpenCalls DEF Store!Allowed, StoreInv, CallsInOrder, Calling
  <2> QED  BY <1>1, <2>1, <2>2, SameFiles, ConcludesAsAnswer
<1> QED  BY <1>2, <1>3

\* The bytes a link puts under a key are whole, and the key had none.
LEMMA LinkMaps ==
    ASSUME StoreInv, NEW p \in Procs, Link(p)
    PROVE  [Store!Next]_Store!vars
<1> USE DEF StoreInv, StoreTypeOK
<1> DEFINE b == call[p].blob
<1>1. Calling(p) /\ call[p].at = "link" /\ call[p] # NoCall /\ b \in Blobs
  BY DEF Link, Reached, Calling, Calls
<1>2. CASE Present(b)
  <2>1. Goto(p, "recheck") /\ "recheck" \in Steps \ {"sync"} /\ blobs' = blobs
    BY <1>2 DEF Link, Steps
  <2> QED  BY <1>1, <2>1, GotoStutters, SameFiles, Stutters
<1>3. CASE ~Present(b)
  <2>1. blobs' = [blobs EXCEPT ![b] = temp[p]] /\ Goto(p, "sync") /\ "sync" \in Steps
    BY <1>3 DEF Link, Steps
  <2>2. temp[p] # NoFile /\ temp[p].bytes = "whole"
    BY <1>1 DEF TempsReady
  <2>3. StoredMap' = [StoredMap EXCEPT ![b] = "intact"]
    BY <1>1, <2>1, <2>2 DEF StoredMap, StoredAs, Present
  <2>4. /\ \A q \in Procs : q # p => call'[q] = call[q]
        /\ call'[p] # NoCall
        /\ call'[p].at = "sync" /\ call'[p].op = call[p].op
        /\ call'[p].blob = call[p].blob
    BY <1>1, <2>1, GotoMoves
  <2>5. AskedAs(p) = [op |-> call[p].op, blob |-> b, answer |-> call[p].answer]
    BY <1>1 DEF AskedAs
  <2>6. AskedAs(p)' = [op |-> call[p].op, blob |-> b, answer |-> "published"]
    BY <2>4 DEF AskedAs
  <2>7. \A q \in Procs : q # p => AskedAs(q)' = AskedAs(q)
    BY <2>4 DEF AskedAs
  <2>8. AskedMap' = [AskedMap EXCEPT ![p].answer = "published"]
    <3>1. AskedAs(p)' = [AskedAs(p) EXCEPT !.answer = "published"]
      BY <2>5, <2>6
    <3> QED  BY <2>7, <3>1 DEF AskedMap
  <2>9. AskedMap[p] # Store!NoCall /\ AskedMap[p].op = "put"
        /\ AskedMap[p].answer = "pending" /\ AskedMap[p].blob = b
    BY <1>1, OpenCalls, NoCalls DEF AskedMap, CallsInOrder
  <2>10. StoredMap[b] = "absent"
    BY <1>1, <1>3 DEF StoredMap, StoredAs
  <2>11. Store!Publish(p)
    BY <2>3, <2>8, <2>9, <2>10 DEF Store!Publish, AskedMap, StoredMap
  <2> QED  BY <2>11 DEF Store!Next
<1> QED  BY <1>2, <1>3

LEMMA SyncMaps ==
    ASSUME StoreInv, NEW p \in Procs, SyncShard(p)
    PROVE  Store!Next
<1> USE DEF StoreInv, StoreTypeOK
<1>1. Calling(p) /\ call[p].at = "sync" /\ Conclude(p, "key") /\ "key" \in Answers \ {"pending"}
  BY DEF SyncShard, Reached, Answers
<1>2. ASSUME NEW b \in Blobs PROVE StoredAs(b)' = StoredAs(b)
  <2>1. CASE blobs'[b] = blobs[b]
    BY <2>1 DEF StoredAs, Present
  <2>2. CASE blobs[b] \in Files /\ blobs'[b] = [blobs[b] EXCEPT !.entry = "durable"]
    <3>1. blobs'[b] \in Files /\ blobs'[b].bytes = blobs[b].bytes
      BY <2>2 DEF Files
    <3>2. blobs[b] # NoFile /\ blobs'[b] # NoFile
      BY <2>2, <3>1 DEF Files, NoFile
    <3> QED  BY <3>1, <3>2 DEF StoredAs, Present
  <2> QED  BY <2>1, <2>2 DEF SyncShard, Present
<1>3. Store!Allowed(AskedAs(p), "key")
  BY <1>1, OpenCalls DEF Store!Allowed, CallsInOrder, Calling
<1> QED  BY <1>1, <1>2, <1>3, ConcludesAsAnswer

\* A reader is told what is under the key when it looks.
LEMMA ReadMaps ==
    ASSUME PathInv, NEW p \in Procs, Get(p) \/ Exists(p)
    PROVE  Store!Next
<1> USE DEF PathInv, StoreInv, StoreTypeOK
<1> DEFINE b == call[p].blob
<1>1. Calling(p) /\ call[p].at = "root" /\ blobs' = blobs
  BY DEF Get, Exists, Reached
<1>2. /\ AskedAs(p).op = call[p].op /\ AskedAs(p).blob = b /\ b \in Blobs
      /\ AskedAs(p).answer = "pending"
  BY <1>1, OpenCalls DEF CallsInOrder, Calling
<1>3. StoredMap[b] = StoredAs(b)
  BY <1>2 DEF StoredMap
<1>4. Present(b) => PathTo(b)
  BY <1>2 DEF PathsThere
<1>5. CASE Get(p)
  <2> DEFINE r == IF ~PathTo(b) \/ ~Present(b) THEN "not_found"
                  ELSE IF blobs[b].bytes = "whole" THEN "data" ELSE "integrity_error"
  <2>1. Conclude(p, r) /\ call[p].op = "get"
    BY <1>5 DEF Get
  <2>2. r \in Answers \ {"pending"}
    BY DEF Answers
  <2>3. Store!Allowed(AskedAs(p), r)
    BY <1>2, <1>3, <1>4, <2>1 DEF Store!Allowed, StoredAs, StoredMap
  <2> QED  BY <1>1, <2>1, <2>2, <2>3, SameFiles, ConcludesAsAnswer
<1>6. CASE Exists(p)
  <2> DEFINE r == IF PathTo(b) /\ Present(b) THEN "yes" ELSE "no"
  <2>1. Conclude(p, r) /\ call[p].op = "exists"
    BY <1>6 DEF Exists
  <2>2. r \in Answers \ {"pending"}
    BY DEF Answers
  <2>3. Store!Allowed(AskedAs(p), r)
    BY <1>2, <1>3, <2>1 DEF Store!Allowed, StoredAs, StoredMap
  <2> QED  BY <1>1, <2>1, <2>2, <2>3, SameFiles, ConcludesAsAnswer
<1> QED  BY <1>5, <1>6

\* A failing system call is answered with a failure, which is always allowed.
LEMMA IoErrorMaps ==
    ASSUME StoreInv, NEW p \in Procs, IoError(p)
    PROVE  Store!Next
<1>1. Calling(p) /\ call[p].at # "unlink" /\ blobs' = blobs
  BY DEF IoError
<1>2. PICK r \in Failure(call[p]) : Conclude(p, r)
  BY DEF IoError
<1>3. /\ AskedAs(p).op = call[p].op
      /\ call[p].at \in {"root", "sha256", "tmp", "shard", "check", "recheck"}
           => AskedAs(p).answer = "pending"
      /\ call[p].op = "put" \/ call[p].at = "root"
      /\ call[p].op \in {"put", "get", "exists"}
  BY <1>1, OpenCalls DEF StoreInv, StoreTypeOK, CallsInOrder, Calling, Calls
<1>4. r \in Answers \ {"pending"}
  BY <1>2 DEF Failure, Answers
<1>5. Store!Allowed(AskedAs(p), r)
  BY <1>2, <1>3 DEF Failure, Store!Allowed
<1> QED  BY <1>1, <1>2, <1>4, <1>5, SameFiles, ConcludesAsAnswer

LEMMA StartMaps ==
    ASSUME StoreInv, NEW p \in Procs, NEW op \in {"put", "get", "exists"}, NEW b \in Blobs,
           Start(p, op, b)
    PROVE  Store!Next
<1> DEFINE new == [op |-> op, blob |-> b, at |-> "root", made |-> FALSE, answer |-> "pending"]
<1>1. new \in Calls /\ new # NoCall /\ new.at = "root" /\ new.answer = "pending"
      /\ new.op = op /\ new.blob = b
  BY DEF Calls, NoCall, Steps, Answers
<1>2. call' = [call EXCEPT ![p] = new] /\ ~Calling(p) /\ UNCHANGED blobs
  BY DEF Start
<1> HIDE DEF new
<1>3. AskedAs(p)' = Store!Asking(op, b)
  BY <1>1, <1>2 DEF AskedAs, Store!Asking, StoreInv, StoreTypeOK
<1>4. \A q \in Procs : q # p => AskedAs(q)' = AskedAs(q)
  BY <1>2 DEF AskedAs, StoreInv, StoreTypeOK
<1>5. AskedMap' = [AskedMap EXCEPT ![p] = Store!Asking(op, b)]
  BY <1>3, <1>4 DEF AskedMap
<1>6. StoredMap' = StoredMap
  BY <1>2, SameFiles DEF StoredMap
<1>7. ~Store!Open(p)
  BY <1>2, OpenCalls
<1>8. Store!Call(p)
  BY <1>5, <1>6, <1>7 DEF Store!Call, AskedMap, StoredMap
<1> QED  BY <1>8 DEF Store!Next

LEMMA KillMaps ==
    ASSUME StoreInv, NEW p \in Procs, Kill(p)
    PROVE  Store!Next
<1>1. AskedMap' = [AskedMap EXCEPT ![p] = Store!NoCall]
  BY NoCalls DEF Kill, AskedMap, AskedAs, StoreInv, StoreTypeOK
<1>2. StoredMap' = StoredMap
  BY SameFiles DEF Kill, StoredMap
<1>3. Store!Kill(p)
  BY <1>1, <1>2 DEF Store!Kill, AskedMap, StoredMap
<1> QED  BY <1>3 DEF Store!Next

LEMMA DamageMaps ==
    ASSUME StoreInv, NEW b \in Blobs, Damage(b)
    PROVE  Store!Next
<1> USE DEF StoreInv, StoreTypeOK
<1>1. blobs[b] \in Files /\ blobs[b].bytes = "whole" /\ blobs[b] # NoFile
  BY DEF Damage, NoFile
<1>2. [blobs[b] EXCEPT !.bytes = "damaged"] \in Files
      /\ [blobs[b] EXCEPT !.bytes = "damaged"].bytes = "damaged"
  BY <1>1 DEF Files
<1>3. blobs'[b] # NoFile /\ blobs'[b].bytes = "damaged"
  BY <1>2 DEF Damage, Files, NoFile
<1>4. \A c \in Blobs : c # b => blobs'[c] = blobs[c]
  BY DEF Damage
<1>5. StoredMap[b] = "intact"
  BY <1>1 DEF StoredMap, StoredAs, Present
<1>6. StoredMap' = [StoredMap EXCEPT ![b] = "damaged"]
  BY <1>3, <1>4 DEF StoredMap, StoredAs, Present
<1>7. AskedMap' = AskedMap
  BY DEF Damage, AskedMap, AskedAs
<1>8. Store!Damage
  BY <1>5, <1>6, <1>7 DEF Store!Damage, AskedMap, StoredMap
<1> QED  BY <1>8 DEF Store!Next

LEMMA PowerLossMaps ==
    ASSUME StoreInv, PowerLoss
    PROVE  Store!Next
<1> DEFINE lost == {b \in Blobs : blobs'[b] = NoFile}
<1>1. ASSUME NEW b \in Blobs
      PROVE  StoredAs(b)' = IF b \in lost THEN "absent" ELSE StoredAs(b)
  <2>1. CASE blobs'[b] = NoFile
    BY <2>1 DEF StoredAs, Present
  <2>2. CASE Present(b) /\ blobs'[b] = File(blobs[b].bytes, TRUE, "durable")
    <3>1. blobs'[b] # NoFile /\ blobs'[b].bytes = blobs[b].bytes
      BY <2>2 DEF File, NoFile, Present, StoreInv, StoreTypeOK, Files
    <3> QED  BY <2>2, <3>1 DEF StoredAs, Present
  <2> QED  BY <2>1, <2>2, PowerLossLoses
<1>2. StoredMap' = [b \in Blobs |-> IF b \in lost THEN "absent" ELSE StoredMap[b]]
  BY <1>1 DEF StoredMap
<1>3. AskedMap' = [p \in Procs |-> Store!NoCall]
  BY NoCalls DEF PowerLoss, AskedMap, AskedAs
<1>4. lost \in SUBSET Blobs
  OBVIOUS
<1>5. Store!PowerLoss
  BY <1>2, <1>3, <1>4 DEF Store!PowerLoss, AskedMap, StoredMap
<1> QED  BY <1>5 DEF Store!Next

LEMMA InitMaps == Init => Store!Init
BY NoCalls DEF Init, Store!Init, StoredAs, AskedAs, Present, NoFile

LEMMA StepMaps == ASSUME PathInv, [Next]_vars PROVE [Store!Next]_Store!vars
<1> USE DEF PathInv
<1>1. CASE UNCHANGED vars
  BY <1>1, Stutters DEF vars, StoredAs, AskedAs, Present
<1>2. CASE Next
  BY <1>2, MovesStutter, MakeDirStutters, CheckMaps, LinkMaps, RecheckMaps, SyncMaps,
     ReadMaps, IoErrorMaps, StartMaps, KillMaps, DamageMaps, PowerLossMaps DEF Next
<1> QED  BY <1>1, <1>2

\* The file system implementation keeps the contract of the store: whatever the
\* interleaving of publishers, readers, failures, deaths and power losses, each
\* call is answered as by a store whose blobs appear whole, once, and are never
\* replaced.
THEOREM StoreKeepsContract == Spec => KeepsContract
<1>1. Init /\ [][Next]_vars => []PathInv
  BY PathInitInv, PathNextInv, PTL
<1>2. PathInv /\ [Next]_vars => [Store!Next]_Store!vars
  BY StepMaps
<1> QED  BY <1>1, <1>2, InitMaps, PTL DEF Spec, KeepsContract, Store!Spec
-----------------------------------------------------------------------------
(* What an answered put leaves to others is durable once all of them are back   *)

Untroubled == \A k \in {"io", "kill", "power"} : faults[k] = 0

\* A put that created a directory has yet to sync its parent.
MadeBy(p, d) == Entering(p) /\ call[p].made /\ DirAt(p) = d
\* A put that linked a file has yet to sync its shard.
Placing(p, b) == Reached(p, "sync") /\ call[p].blob = b

\* Whatever a power loss could take away is somebody's business.
Pending ==
    /\ \A d \in Dirs : dirs[d] = "volatile" => \E p \in Procs : MadeBy(p, d)
    /\ \A b \in Blobs : (Present(b) /\ blobs[b].entry = "volatile") => \E p \in Procs : Placing(p, b)
    /\ \A b \in acked : Present(b)
    /\ \A p \in Procs : Reached(p, "sync") => Present(call[p].blob)

SettledInv == PathInv /\ (Untroubled => Pending)

LEMMA OthersPending ==
    ASSUME NEW q \in Procs, call'[q] = call[q]
    PROVE  /\ \A d : MadeBy(q, d) => MadeBy(q, d)'
           /\ \A b : Placing(q, b) => Placing(q, b)'
           /\ Reached(q, "sync")' <=> Reached(q, "sync")
BY DEF MadeBy, Placing, Entering, Reached, Calling, DirAt

\* Steps that change no directory and no file and are not those that sync.
LEMMA PendingStays ==
    ASSUME Pending, NEW p \in Procs, \A q \in Procs : q # p => call'[q] = call[q],
           ~Entering(p), ~Reached(p, "sync"), ~Reached(p, "sync")',
           dirs' = dirs, blobs' = blobs, \A b \in acked' : b \in acked \/ Present(b)
    PROVE  Pending'
<1>1. \A b \in Blobs : Present(b)' <=> Present(b)
  BY DEF Present
<1>2. ASSUME NEW d \in Dirs, dirs'[d] = "volatile"  PROVE \E q \in Procs : MadeBy(q, d)'
  <2>1. PICK q \in Procs : MadeBy(q, d)
    BY <1>2 DEF Pending
  <2>2. q # p
    BY <2>1 DEF MadeBy
  <2> QED  BY <2>1, <2>2, OthersPending
<1>3. ASSUME NEW b \in Blobs, Present(b)', blobs'[b].entry = "volatile"  PROVE \E q \in Procs : Placing(q, b)'
  <2>1. PICK q \in Procs : Placing(q, b)
    BY <1>1, <1>3 DEF Pending
  <2>2. q # p
    BY <2>1 DEF Placing
  <2> QED  BY <2>1, <2>2, OthersPending
<1>4. \A b \in acked' : Present(b)'
  BY DEF Pending, Present
<1>5. ASSUME NEW q \in Procs, Reached(q, "sync")'  PROVE Present(call[q].blob)'
  <2>1. q # p /\ call'[q] = call[q]
    BY <1>5
  <2> QED  BY <1>5, <2>1, OthersPending DEF Pending, Present
<1> QED  BY <1>2, <1>3, <1>4, <1>5 DEF Pending

LEMMA PendingOfQuietSteps ==
    ASSUME StoreInv, Pending, NEW p \in Procs,
           \/ OpenRoot(p) \/ CheckExisting(p) \/ CreateTemp(p) \/ WriteAll(p) \/ FlushFile(p)
           \/ Recheck(p) \/ Unlink(p) \/ Get(p) \/ Exists(p)
           \/ \E op \in {"put", "get", "exists"}, b \in Blobs : Start(p, op, b)
    PROVE  Pending'
<1> USE DEF StoreInv, StoreTypeOK
<1>1. ASSUME NEW step \in Steps \ {"sync"}, Calling(p), Goto(p, step)
      PROVE  /\ \A q \in Procs : q # p => call'[q] = call[q]
             /\ ~Reached(p, "sync")'
  BY <1>1, GotoMoves DEF Calling, Reached
<1>2. ASSUME NEW r \in Answers, Calling(p), Conclude(p, r)
      PROVE  /\ \A q \in Procs : q # p => call'[q] = call[q]
             /\ ~Reached(p, "sync")'
  BY <1>2, ConcludeAnswers DEF Calling, Reached
<1>3. CASE OpenRoot(p) \/ CreateTemp(p) \/ WriteAll(p) \/ FlushFile(p) \/ Unlink(p)
  <2>1. PICK step \in {"sha256", "write", "flush", "link", "done"} : Goto(p, step)
    BY <1>3 DEF OpenRoot, CreateTemp, WriteAll, FlushFile, Unlink
  <2>2. Calling(p) /\ call[p].at \in {"root", "create", "write", "flush", "unlink"}
    BY <1>3 DEF OpenRoot, CreateTemp, WriteAll, FlushFile, Unlink, Reached
  <2>3. UNCHANGED <<dirs, blobs, acked>>
    BY <1>3 DEF OpenRoot, CreateTemp, WriteAll, FlushFile, Unlink
  <2>4. step \in Steps \ {"sync"}
    BY DEF Steps
  <2>5. ~Entering(p) /\ ~Reached(p, "sync")
    BY <2>2 DEF Entering, Reached
  <2> QED  BY <1>1, <2>1, <2>2, <2>3, <2>4, <2>5, PendingStays
<1>4. CASE CheckExisting(p) \/ Recheck(p)
  <2>1. Calling(p) /\ call[p].at \in {"check", "recheck"} /\ call[p].blob \in Blobs /\ UNCHANGED <<dirs, blobs>>
    BY <1>4 DEF CheckExisting, Recheck, Reached, Calling, Calls
  <2>2. ~Entering(p) /\ ~Reached(p, "sync")
    BY <2>1 DEF Entering, Reached
  <2>3. CASE Goto(p, "create") /\ UNCHANGED acked
    BY <1>1, <2>1, <2>2, <2>3, PendingStays DEF Steps
  <2>4. ASSUME NEW r, r = Verdict(call[p].blob) \/ r = "publish_error", r = "key" => Present(call[p].blob),
               Conclude(p, r), Acknowledge(p, r)
        PROVE  Pending'
    <3>1. r \in Answers
      BY <2>1, <2>4, VerdictAnswers DEF Answers
    <3>2. \A b \in acked' : b \in acked \/ Present(b)
      BY <2>4 DEF Acknowledge
    <3> QED  BY <1>2, <2>1, <2>2, <2>4, <3>1, <3>2, PendingStays
  <2> QED  BY <1>4, <2>3, <2>4 DEF CheckExisting, Recheck
<1>5. CASE Get(p) \/ Exists(p)
  <2>1. PICK r \in Answers : Conclude(p, r)
    BY <1>5 DEF Get, Exists, Answers
  <2>2. Calling(p) /\ call[p].at = "root" /\ UNCHANGED <<dirs, blobs, acked>>
    BY <1>5 DEF Get, Exists, Reached
  <2>3. ~Entering(p) /\ ~Reached(p, "sync")
    BY <2>2 DEF Entering, Reached
  <2> QED  BY <1>2, <2>1, <2>2, <2>3, PendingStays
<1>6. ASSUME NEW op, NEW b, Start(p, op, b)  PROVE Pending'
  <2>1. ~Entering(p) /\ ~Reached(p, "sync") /\ UNCHANGED <<dirs, blobs, acked>>
    BY <1>6 DEF Start, Entering, Reached
  <2>2. call' = [call EXCEPT ![p] = [op |-> op, blob |-> b, at |-> "root", made |-> FALSE, answer |-> "pending"]]
    BY <1>6 DEF Start
  <2>3. call'[p].at = "root" /\ \A q \in Procs : q # p => call'[q] = call[q]
    BY <2>2
  <2> QED  BY <2>1, <2>3, PendingStays DEF Reached
<1> QED  BY <1>3, <1>4, <1>5, <1>6

\* Who creates a directory, and no one else, has to sync its parent before going on.
LEMMA PendingOfDirs ==
    ASSUME StoreAssumption, StoreInv, Pending, NEW p \in Procs, MakeDir(p) \/ EnterDir(p)
    PROVE  Pending'
<1> USE DEF StoreInv, StoreTypeOK
<1>1. Calling(p) /\ call[p].at \in {"sha256", "tmp", "shard"} /\ call[p] \in Calls /\ UNCHANGED <<blobs, acked>>
  BY DEF MakeDir, EnterDir, Entering, Calling
<1>2. ~Reached(p, "sync") /\ \A b : ~Placing(p, b)
  BY <1>1 DEF Reached, Placing
<1>3. /\ \A q \in Procs : q # p => call'[q] = call[q]
      /\ ~Reached(p, "sync")'
      /\ MakeDir(p) => MadeBy(p, DirAt(p))'
  <2>1. CASE MakeDir(p)
    <3> DEFINE noted == [call[p] EXCEPT !.made = TRUE]
    <3>1. noted \in Calls /\ noted.at = call[p].at /\ noted.blob = call[p].blob /\ noted.made
      BY <1>1 DEF Calls
    <3>2. noted # NoCall
      BY <3>1 DEF Calls, NoCall
    <3>3. call' = [call EXCEPT ![p] = noted]
      BY <2>1 DEF MakeDir
    <3> HIDE DEF noted
    <3>4. call'[p] = noted /\ \A q \in Procs : q # p => call'[q] = call[q]
      BY <3>3
    <3> QED  BY <1>1, <3>1, <3>2, <3>4 DEF Reached, MadeBy, Entering, Calling, DirAt
  <2>2. CASE EnterDir(p)
    <3>1. Goto(p, After[call[p].at]) /\ After[call[p].at] \in {"tmp", "shard", "check"}
      BY <1>1, <2>2 DEF EnterDir, After
    <3>2. After[call[p].at] \in Steps
      BY <3>1 DEF Steps
    <3>3. (\A q \in Procs : q # p => call'[q] = call[q]) /\ call'[p].at \in {"tmp", "shard", "check"}
      BY <1>1, <3>1, <3>2, GotoMoves DEF Calling
    <3>4. ~MakeDir(p)
      BY <2>2 DEF EnterDir, MakeDir
    <3> QED  BY <3>3, <3>4 DEF Reached
  <2> QED  BY <2>1, <2>2
<1>4. DirAt(p) \in Dirs /\ DirAt(p) \in Siblings(DirAt(p))
  BY <1>1 DEF DirAt, Dirs, Siblings, StoreAssumption, Calls
<1>5. ASSUME NEW d \in Dirs, dirs'[d] = "volatile"  PROVE \E q \in Procs : MadeBy(q, d)'
  <2>1. CASE MakeDir(p) /\ d = DirAt(p)
    <3>1. DirAt(p)' = DirAt(p)
      BY <1>3, <2>1 DEF MadeBy, MakeDir, DirAt
    <3> QED  BY <1>3, <2>1, <3>1 DEF MadeBy
  <2>2. CASE ~(MakeDir(p) /\ d = DirAt(p))
    <3>1. dirs[d] = "volatile"
      BY <1>4, <1>5, <2>2 DEF MakeDir, EnterDir, Synced
    <3>2. PICK q \in Procs : MadeBy(q, d)
      BY <3>1 DEF Pending
    <3>3. q # p
      BY <1>4, <1>5, <2>2, <3>1, <3>2 DEF MadeBy, MakeDir, EnterDir, Synced
    <3> QED  BY <1>3, <3>2, <3>3, OthersPending
  <2> QED  BY <2>1, <2>2
<1>6. ASSUME NEW b \in Blobs, Present(b)', blobs'[b].entry = "volatile"  PROVE \E q \in Procs : Placing(q, b)'
  <2>1. PICK q \in Procs : Placing(q, b)
    BY <1>1, <1>6 DEF Pending, Present
  <2> QED  BY <1>2, <1>3, <2>1, OthersPending
<1>7. ASSUME NEW q \in Procs, Reached(q, "sync")'  PROVE Present(call[q].blob)'
  <2>1. q # p /\ call'[q] = call[q]
    BY <1>3, <1>7
  <2> QED  BY <1>1, <1>7, <2>1, OthersPending DEF Pending, Present
<1> QED  BY <1>1, <1>5, <1>6, <1>7 DEF Pending, Present

\* Who links a file has to sync its shard; a sync takes care of every file of the shard.
LEMMA PendingOfLink ==
    ASSUME StoreInv, Pending, NEW p \in Procs, Link(p)
    PROVE  Pending'
<1> USE DEF StoreInv, StoreTypeOK
<1>0. PICK b : b = call[p].blob
  OBVIOUS
<1>1. Calling(p) /\ call[p].at = "link" /\ b \in Blobs /\ UNCHANGED <<dirs, acked>>
  BY <1>0 DEF Link, Reached, Calling, Calls
<1>2. temp[p] # NoFile
  BY <1>0, <1>1 DEF TempsReady
<1>3. \A d : ~MadeBy(p, d) /\ \A c : ~Placing(p, c)
  BY <1>1 DEF MadeBy, Entering, Placing, Reached
<1>4. CASE Present(b)
  BY <1>0, <1>1, <1>4, GotoMoves, PendingStays DEF Link, Entering, Reached, Calling, Steps
<1>5. CASE ~Present(b)
  <2>1. blobs' = [blobs EXCEPT ![b] = temp[p]] /\ Goto(p, "sync")
    BY <1>0, <1>5 DEF Link
  <2>2. (\A q \in Procs : q # p => call'[q] = call[q]) /\ call'[p] # NoCall /\ call'[p].at = "sync" /\ call'[p].blob = b
    BY <1>0, <1>1, <2>1, GotoMoves DEF Calling, Steps
  <2>3. Placing(p, b)'
    BY <2>2 DEF Placing, Reached, Calling
  <2>4. blobs'[b] # NoFile /\ \A c \in Blobs : c # b => blobs'[c] = blobs[c]
    BY <1>1, <1>2, <2>1
  <2>5. Present(b)' /\ \A c \in Blobs : Present(c) => Present(c)'
    BY <2>4 DEF Present
  <2>6. ASSUME NEW c \in Blobs, Present(c)', blobs'[c].entry = "volatile"  PROVE \E q \in Procs : Placing(q, c)'
    <3>1. CASE c = b
      BY <2>3, <3>1
    <3>2. CASE c # b
      <4>1. PICK q \in Procs : Placing(q, c)
        BY <2>4, <2>6, <3>2 DEF Pending, Present
      <4> QED  BY <1>3, <2>2, <4>1, OthersPending
    <3> QED  BY <3>1, <3>2
  <2>7. ASSUME NEW d \in Dirs, dirs'[d] = "volatile"  PROVE \E q \in Procs : MadeBy(q, d)'
    <3>1. PICK q \in Procs : MadeBy(q, d)
      BY <1>1, <2>7 DEF Pending
    <3> QED  BY <1>3, <2>2, <3>1, OthersPending
  <2>8. ASSUME NEW q \in Procs, Reached(q, "sync")'  PROVE Present(call[q].blob)'
    <3>1. CASE q = p
      BY <2>2, <2>5, <3>1 DEF Present
    <3>2. CASE q # p
      <4>1. Reached(q, "sync") /\ call[q].blob \in Blobs /\ call'[q] = call[q]
        BY <2>2, <2>8, <3>2, OthersPending DEF Reached, Calling, Calls
      <4>2. Present(call[q].blob)
        BY <4>1 DEF Pending
      <4> QED  BY <2>4, <4>1, <4>2, <1>2 DEF Present
    <3> QED  BY <3>1, <3>2
  <2>9. \A c \in acked' : Present(c)'
    BY <1>1, <2>5 DEF Pending
  <2> QED  BY <2>6, <2>7, <2>8, <2>9 DEF Pending
<1> QED  BY <1>4, <1>5

LEMMA PendingOfSync ==
    ASSUME StoreInv, Pending, NEW p \in Procs, SyncShard(p)
    PROVE  Pending'
<1> USE DEF StoreInv, StoreTypeOK
<1>1. Calling(p) /\ Reached(p, "sync") /\ call[p].at = "sync" /\ call[p].blob \in Blobs /\ UNCHANGED dirs
  BY DEF SyncShard, Reached, Calling, Calls
<1>2. Conclude(p, "key") /\ acked' = acked \cup {call[p].blob}
  BY DEF SyncShard, Acknowledge
<1>3. (\A q \in Procs : q # p => call'[q] = call[q]) /\ call'[p].at # "sync"
  BY <1>1, <1>2, ConcludeAnswers DEF Calling, Answers
<1>4. \A c \in Blobs : /\ Present(c)' <=> Present(c)
                       /\ blobs'[c] = blobs[c] \/ blobs'[c].entry = "durable"
                       /\ ShardOf[c] = ShardOf[call[p].blob] /\ Present(c) => blobs'[c].entry = "durable"
  <2> SUFFICES ASSUME NEW c \in Blobs
               PROVE  /\ Present(c)' <=> Present(c)
                      /\ blobs'[c] = blobs[c] \/ blobs'[c].entry = "durable"
                      /\ ShardOf[c] = ShardOf[call[p].blob] /\ Present(c) => blobs'[c].entry = "durable"
    OBVIOUS
  <2>1. CASE ShardOf[c] = ShardOf[call[p].blob] /\ Present(c)
    <3>1. blobs[c] \in Files /\ blobs'[c] = [blobs[c] EXCEPT !.entry = "durable"]
      BY <2>1 DEF SyncShard, Present
    <3>2. blobs'[c] \in Files /\ blobs'[c].entry = "durable"
      BY <3>1 DEF Files
    <3>3. blobs'[c] # NoFile
      BY <3>2 DEF Files, NoFile
    <3> QED  BY <2>1, <3>2, <3>3 DEF Present
  <2>2. CASE ~(ShardOf[c] = ShardOf[call[p].blob] /\ Present(c))
    <3>1. blobs'[c] = blobs[c]
      BY <2>2 DEF SyncShard
    <3> QED  BY <2>2, <3>1 DEF Present
  <2> QED  BY <2>1, <2>2
<1>5. ASSUME NEW c \in Blobs, Present(c)', blobs'[c].entry = "volatile"  PROVE \E q \in Procs : Placing(q, c)'
  <2>1. blobs'[c] = blobs[c] /\ ShardOf[c] # ShardOf[call[p].blob]
    BY <1>4, <1>5
  <2>2. PICK q \in Procs : Placing(q, c)
    BY <1>4, <1>5, <2>1 DEF Pending
  <2>3. q # p
    BY <2>1, <2>2 DEF Placing
  <2> QED  BY <1>3, <2>2, <2>3, OthersPending
<1>6. ASSUME NEW d \in Dirs, dirs'[d] = "volatile"  PROVE \E q \in Procs : MadeBy(q, d)'
  <2>1. PICK q \in Procs : MadeBy(q, d)
    BY <1>1, <1>6 DEF Pending
  <2>2. q # p
    BY <1>1, <2>1 DEF MadeBy, Entering
  <2> QED  BY <1>3, <2>1, <2>2, OthersPending
<1>7. \A c \in acked' : Present(c)'
  <2>1. Present(call[p].blob)
    BY <1>1 DEF Pending
  <2> QED  BY <1>1, <1>2, <1>4, <2>1 DEF Pending
<1>8. ASSUME NEW q \in Procs, Reached(q, "sync")'  PROVE Present(call[q].blob)'
  <2>1. q # p /\ call'[q] = call[q]
    BY <1>3, <1>8 DEF Reached
  <2>2. Reached(q, "sync") /\ call[q].blob \in Blobs
    BY <1>8, <2>1, OthersPending DEF Reached, Calling, Calls
  <2>3. Present(call[q].blob)
    BY <2>2 DEF Pending
  <2>4. blobs'[call[q].blob] # NoFile
    BY <1>4, <2>2, <2>3 DEF Present
  <2> QED  BY <2>1, <2>4 DEF Present
<1> QED  BY <1>5, <1>6, <1>7, <1>8 DEF Pending

LEMMA PendingOfDamage ==
    ASSUME StoreInv, Pending, NEW b \in Blobs, Damage(b)
    PROVE  Pending'
<1> USE DEF StoreInv, StoreTypeOK
<1>1. blobs[b] \in Files /\ blobs[b].bytes = "whole" /\ UNCHANGED <<dirs, call, acked>>
  BY DEF Damage, NoFile
<1>2. [blobs[b] EXCEPT !.bytes = "damaged"] \in Files
      /\ [blobs[b] EXCEPT !.bytes = "damaged"].entry = blobs[b].entry
  BY <1>1 DEF Files
<1>3. blobs'[b] # NoFile /\ blobs'[b].entry = blobs[b].entry /\ blobs[b] # NoFile
  BY <1>1, <1>2 DEF Damage, Files, NoFile
<1>4. \A c \in Blobs : /\ Present(c)' <=> Present(c)
                       /\ blobs'[c].entry = blobs[c].entry
  BY <1>3 DEF Damage, Present
<1>5. \A q \in Procs : /\ \A d : MadeBy(q, d)' <=> MadeBy(q, d)
                       /\ \A c : Placing(q, c)' <=> Placing(q, c)
                       /\ Reached(q, "sync")' <=> Reached(q, "sync")
  BY <1>1 DEF MadeBy, Placing, Entering, Reached, Calling, DirAt
<1>6. ASSUME NEW q \in Procs, Reached(q, "sync")'  PROVE Present(call[q].blob)'
  <2>1. Reached(q, "sync") /\ call[q].blob \in Blobs /\ Present(call[q].blob)
    BY <1>5, <1>6 DEF Pending, Reached, Calling, Calls
  <2>2. blobs'[call[q].blob] # NoFile
    BY <1>4, <2>1 DEF Present
  <2> QED  BY <1>1, <2>2 DEF Present
<1>7. \A c \in acked' : Present(c)'
  BY <1>1, <1>4 DEF Pending
<1> QED  BY <1>1, <1>4, <1>5, <1>6, <1>7 DEF Pending

LEMMA SettledStep == ASSUME SettledInv, [Next]_vars PROVE SettledInv'
<1>1. PathInv' /\ StoreInv
  BY PathNextInv DEF SettledInv, PathInv
<1>2. \A k \in FaultKinds : faults[k] \in Nat
  BY <1>1 DEF StoreInv, StoreTypeOK
<1>3. ASSUME NEW k \in {"io", "kill", "power"}, Strike(k)  PROVE ~Untroubled'
  <2>1. faults'[k] = faults[k] + 1 /\ faults[k] \in Nat
    BY <1>1, <1>2, <1>3 DEF Strike, StoreInv, StoreTypeOK, FaultKinds
  <2> QED  BY <2>1 DEF Untroubled
<1> SUFFICES ASSUME Untroubled'  PROVE Pending'
  BY <1>1 DEF SettledInv
<1>4. faults' = faults => Pending
  BY DEF Untroubled, SettledInv
<1>5. ASSUME NEW p \in Procs, IoError(p) \/ Kill(p)  PROVE FALSE
  BY <1>3, <1>5 DEF IoError, Kill
<1>6. ~PowerLoss
  BY <1>3 DEF PowerLoss
<1>7. ASSUME NEW p \in Procs,
             \/ OpenRoot(p) \/ CheckExisting(p) \/ CreateTemp(p) \/ WriteAll(p) \/ FlushFile(p)
             \/ Recheck(p) \/ Unlink(p) \/ Get(p) \/ Exists(p)
             \/ \E op \in {"put", "get", "exists"}, b \in Blobs : Start(p, op, b)
      PROVE  Pending'
  <2>1. faults' = faults
    BY <1>7 DEF OpenRoot, CheckExisting, CreateTemp, WriteAll, FlushFile, Recheck, Unlink, Get, Exists, Start
  <2> QED  BY <1>1, <1>4, <1>7, <2>1, PendingOfQuietSteps
<1>8. ASSUME NEW p \in Procs, MakeDir(p) \/ EnterDir(p)  PROVE Pending'
  <2>1. faults' = faults
    BY <1>8 DEF MakeDir, EnterDir
  <2> QED  BY <1>1, <1>4, <1>8, <2>1, StoreAssumption, PendingOfDirs
<1>9. ASSUME NEW p \in Procs, Link(p)  PROVE Pending'
  BY <1>1, <1>4, <1>9, PendingOfLink DEF Link
<1>10. ASSUME NEW p \in Procs, SyncShard(p)  PROVE Pending'
  BY <1>1, <1>4, <1>10, PendingOfSync DEF SyncShard
<1>11. ASSUME NEW b \in Blobs, Damage(b)  PROVE Pending'
  <2>1. Untroubled
    <3>1. \A k \in {"io", "kill", "power"} : k # "damage" /\ faults'[k] = faults[k]
      BY <1>1, <1>11 DEF Damage, Strike, StoreInv, StoreTypeOK, FaultKinds
    <3> QED  BY <3>1 DEF Untroubled
  <2> QED  BY <1>1, <1>11, <2>1, PendingOfDamage DEF SettledInv
<1>12. CASE UNCHANGED vars
  <2>1. UNCHANGED <<dirs, blobs, call, acked, faults>>
    BY <1>12 DEF vars
  <2> QED  BY <1>4, <2>1 DEF Pending, MadeBy, Placing, Entering, Reached, Calling, DirAt, Present
<1> QED  BY <1>5, <1>6, <1>7, <1>8, <1>9, <1>10, <1>11, <1>12 DEF Next

\* Where no call failed and no process died, every answered key outlives the next power loss
\* once nobody is in a call: whichever of the publishers synced what.
THEOREM SettledAlwaysSurvives == Spec => []SettledSurvives
<1>1. Init => SettledInv
  BY PathInitInv DEF Init, SettledInv, Pending, Present, NoFile, Reached, Calling, NoCall
<1>2. SettledInv => SettledSurvives
  <2> SUFFICES ASSUME SettledInv, \A p \in Procs : ~Calling(p), Untroubled, NEW b \in acked
               PROVE  /\ Present(b) /\ blobs[b].flushed /\ blobs[b].entry = "durable"
                      /\ dirs["sha256"] = "durable" /\ dirs[ShardOf[b]] = "durable"
    BY DEF SettledSurvives, Untroubled
  <2>1. Pending /\ StoreInv /\ PathsThere /\ b \in Blobs
    BY DEF SettledInv, PathInv, StoreInv, StoreTypeOK
  <2>2. Present(b) /\ blobs[b].flushed /\ PathTo(b)
    BY <2>1 DEF Pending, StoreInv, PublishedFlushed, PathsThere
  <2>3. \A d \in Dirs : dirs[d] # "volatile"
    BY <2>1 DEF Pending, MadeBy, Entering
  <2>4. blobs[b].entry # "volatile"
    BY <2>1, <2>2 DEF Pending, Placing, Reached
  <2>5. blobs[b] \in Files
    BY <2>1, <2>2 DEF StoreInv, StoreTypeOK, Present
  <2>6. blobs[b].entry = "durable"
    BY <2>4, <2>5 DEF Files
  <2>7. ShardOf[b] \in Dirs /\ "sha256" \in Dirs
    BY <2>1, StoreAssumption DEF StoreAssumption, Dirs
  <2>8. dirs["sha256"] = "durable" /\ dirs[ShardOf[b]] = "durable"
    BY <2>1, <2>2, <2>3, <2>7 DEF PathTo, StoreInv, StoreTypeOK
  <2> QED  BY <2>2, <2>6, <2>8
<1> QED  BY <1>1, <1>2, SettledStep, PTL DEF Spec
=============================================================================
