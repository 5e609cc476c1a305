------------------------ MODULE DataMaintenanceProofs ------------------------
(* What is true of the retention of the data at any number of days, runs and   *)
(* maintenances, whatever the ages are after which files go.                   *)
EXTENDS DataMaintenance, FiniteSetTheorems, TLAPS

Day(name) == Plain(name.kind, name.day, name.n)

FilesTyped ==
    /\ DOMAIN files \subseteq Names /\ IsFiniteSet(DOMAIN files)
    /\ \A name \in DOMAIN files : files[name] \in Contents /\ name.day <= day /\ files[name].mtime <= day

Typed ==
    /\ day \in Nat /\ runs \in Nat /\ commits \in Nat /\ completed \in Int /\ completed <= day
    /\ FilesTyped
    /\ run \in Runs \cup {None}
    /\ m \in [Maintainers -> Works \cup {None}]
    /\ \A p \in Maintainers : m[p] # None => m[p].now <= day /\ completed <= m[p].now
    /\ DOMAIN kept \subseteq 1 .. runs
    /\ \A n \in DOMAIN kept : kept[n] \in Nat /\ kept[n] <= day

\* A run has a number of its own, and the file it prints to is a log that is there.
RunOK ==
    run # None =>
        /\ run.n = runs /\ run.n \in 1 .. runs /\ run.n \notin DOMAIN kept
        /\ run.out # None => Exists(run.out) /\ run.out.kind \in {"active", "log"} /\ ~run.out.gz

Alone == ~failed /\ \A p \in Maintainers : m[p] # None => lock = p

\* What a stage works on.
FileOf(p, name) ==
    /\ ~name.gz /\ Exists(name)
    /\ m[p].stage = "raw" => /\ name.kind = "raw"
                             /\ m[p].now - name.day >= RAW_UNCOMPRESSED_DAYS
                             /\ m[p].now - name.day < RAW_COMPRESSED_RETENTION_DAYS
    /\ m[p].stage = "log" => name.kind = "log"
    /\ m[p].stage = "db" => name = Plain("db", m[p].now, 0)
    /\ m[p].stage \in {"raw", "log", "db"} /\ m[p].step \in {"open", "copy", "unlink"}

\* How far the compression is.
GzOf(p, gz) ==
    /\ m[p].step = "open" /\ m[p].stage # "raw" => ~Exists(gz)
    /\ m[p].step = "copy" => Exists(gz) /\ ~files[gz].whole
    /\ m[p].step = "unlink" => Exists(gz) /\ files[gz].whole

LinesOf(p, name, gz) ==
    m[p].step = "unlink" =>
        \A n \in DOMAIN kept : n \in files[name].content =>
            n \in files[gz].content /\ files[gz].mtime >= kept[n]

Copying(p) ==
    LET name == Plain("db", m[p].now, 0) IN
    m[p].stage = "copying" => Exists(name) /\ ~files[name].whole /\ ~Exists(Gz(name))

WorksOn(p) ==
    m[p] # None =>
        /\ m[p].file # None => FileOf(p, m[p].file) /\ GzOf(p, Gz(m[p].file))
        /\ m[p].stage = "log" => m[p].file # None
        /\ m[p].stage = "copying" => m[p].file = None
        /\ m[p].stage # "raw" => m[p].todo = {}
        /\ \A name \in m[p].todo : name.kind = "raw"
        /\ Copying(p)

\* A raw file, and the uncompressed file of its name.
Sound(name, plain) ==
    IF name.gz
    THEN /\ day - name.day >= RAW_UNCOMPRESSED_DAYS
         /\ files[name].whole \/ day - name.day >= RAW_COMPRESSED_RETENTION_DAYS \/ Exists(plain)
    ELSE files[name].whole

RawSound == \A name \in Named("raw") : Sound(name, Day(name))

Pending(p, name) == name \in m[p].todo \/ name = m[p].file

\* A file that p has not come to yet, or that it leaves as it should be.
Settled(p, name, plain) ==
    \/ Pending(p, name)
    \/ /\ day - name.day < RAW_COMPRESSED_RETENTION_DAYS
       /\ ~name.gz => day - name.day < RAW_UNCOMPRESSED_DAYS
       /\ files[name].whole \/ (Exists(plain) /\ Pending(p, plain))

RawSettled ==
    \A p \in Maintainers : m[p] # None /\ m[p].now = day =>
        \A name \in Named("raw") : Settled(p, name, Day(name))

LineKept(n) ==
    \/ day - kept[n] >= LOG_COMPRESSED_RETENTION_DAYS
    \/ \E name \in Named("active") \cup Named("log") :
          files[name].whole /\ n \in files[name].content /\ files[name].mtime >= kept[n]

LinesThere == \A n \in DOMAIN kept : LineKept(n)

LinesCopied ==
    \A p \in Maintainers : m[p] # None /\ m[p].stage = "log" => LinesOf(p, m[p].file, Gz(m[p].file))

\* What is printed to a log is of a run, and of the one in progress nothing is yet.
Printed(name) ==
    name.kind \in {"active", "log"} =>
        files[name].content \subseteq 1 .. runs /\ (run # None => run.n \notin files[name].content)

PrintedLater == \A name \in DOMAIN files : Printed(name)

BackupSound ==
    day \notin killed /\ BackedUp(day) =>
        \/ Exists(Gz(Plain("db", day, 0))) /\ files[Gz(Plain("db", day, 0))].whole
        \/ \E p \in Maintainers : m[p] # None /\ m[p].now = day /\ m[p].stage \in {"copying", "db"}

BackupDone ==
    day \notin killed =>
        \A p \in Maintainers : m[p] # None /\ m[p].now = day /\ m[p].stage = "prune" => BackedUp(day)

MaintenanceInv ==
    /\ Typed /\ RunOK /\ Alone /\ \A p \in Maintainers : WorksOn(p)
    /\ RawSound /\ RawSettled /\ RetentionKept
    /\ LinesThere /\ LinesCopied /\ PrintedLater /\ BackupSound /\ BackupDone /\ BackupOfTheDay
-----------------------------------------------------------------------------
(* Names and the file system *)

LEMMA NameIsItsParts ==
    ASSUME NEW a \in Names, NEW b \in Names, a.kind = b.kind, a.day = b.day, a.n = b.n, a.gz <=> b.gz
    PROVE  a = b
  BY DEF Names

LEMMA PlainOf ==
    ASSUME NEW kind \in Kinds, NEW d \in Nat, NEW n \in Nat
    PROVE  /\ Plain(kind, d, n) \in Names /\ Plain(kind, d, n).kind = kind /\ Plain(kind, d, n).day = d
           /\ Plain(kind, d, n).n = n /\ ~Plain(kind, d, n).gz
  BY DEF Plain, Names

LEMMA GzOfName ==
    ASSUME NEW name \in Names
    PROVE  /\ Gz(name) \in Names /\ Gz(name).kind = name.kind /\ Gz(name).day = name.day
           /\ Gz(name).n = name.n /\ Gz(name).gz
  BY DEF Gz, Names

\* A .gz and the file it was made of go by the same day and counter.
LEMMA NamesOfFiles ==
    /\ \A kind \in Kinds, d \in Nat, n \in Nat :
          /\ Plain(kind, d, n) \in Names /\ Plain(kind, d, n).kind = kind /\ Plain(kind, d, n).day = d
          /\ Plain(kind, d, n).n = n /\ ~Plain(kind, d, n).gz
    /\ \A name \in Names :
          /\ Gz(name) \in Names /\ Gz(name).kind = name.kind /\ Gz(name).day = name.day
          /\ Gz(name).n = name.n /\ Gz(name).gz
          /\ name.kind \in Kinds /\ name.day \in Nat /\ name.n \in Nat /\ name.gz \in BOOLEAN
          /\ Day(name) \in Names /\ Day(name).kind = name.kind /\ Day(name).day = name.day /\ ~Day(name).gz
          /\ ~name.gz => Day(name) = name /\ Day(Gz(name)) = name
          /\ name.gz => Gz(Day(name)) = name
<1>1. ASSUME NEW name \in Names
      PROVE  name.kind \in Kinds /\ name.day \in Nat /\ name.n \in Nat /\ name.gz \in BOOLEAN
  BY DEF Names
<1>2. ASSUME NEW name \in Names
      PROVE  /\ Day(name) \in Names /\ Day(name).kind = name.kind /\ Day(name).day = name.day
             /\ Day(name).n = name.n /\ ~Day(name).gz
  BY <1>1, PlainOf DEF Day
<1>3. ASSUME NEW name \in Names, ~name.gz  PROVE Day(name) = name /\ Day(Gz(name)) = name
  <2>1. PICK gz \in Names : gz = Gz(name)
    BY GzOfName
  <2>2. PICK a \in Names, b \in Names : a = Day(name) /\ b = Day(gz)
    BY <1>2
  <2>3. a = name
    BY <1>2, <1>3, <2>2, NameIsItsParts
  <2>4. b.kind = name.kind /\ b.day = name.day /\ b.n = name.n /\ ~b.gz
    BY <1>2, <2>1, <2>2, GzOfName
  <2>5. b = name
    BY <1>3, <2>4, NameIsItsParts
  <2> QED  BY <2>1, <2>2, <2>3, <2>5
<1>4. ASSUME NEW name \in Names, name.gz  PROVE Gz(Day(name)) = name
  <2>1. PICK d \in Names : d = Day(name)
    BY <1>2
  <2>2. PICK a \in Names : a = Gz(d)
    BY GzOfName
  <2>3. a.kind = name.kind /\ a.day = name.day /\ a.n = name.n /\ a.gz
    BY <1>2, <2>1, <2>2, GzOfName
  <2>4. a = name
    BY <1>4, <2>3, NameIsItsParts
  <2> QED  BY <2>1, <2>2, <2>4
<1>5. ASSUME NEW kind \in Kinds, NEW d \in Nat, NEW n \in Nat
      PROVE  /\ Plain(kind, d, n) \in Names /\ Plain(kind, d, n).kind = kind /\ Plain(kind, d, n).day = d
             /\ Plain(kind, d, n).n = n /\ ~Plain(kind, d, n).gz
  BY PlainOf
<1>6. ASSUME NEW name \in Names
      PROVE  /\ Gz(name) \in Names /\ Gz(name).kind = name.kind /\ Gz(name).day = name.day
             /\ Gz(name).n = name.n /\ Gz(name).gz
  BY GzOfName
<1> QED  BY <1>1, <1>2, <1>3, <1>4, <1>5, <1>6

LEMMA NoneIsNothing ==
    None \notin Maintainers /\ None \notin Names /\ None \notin Runs /\ None \notin Works
  BY MaintenanceAssumption

\* What is in a directory after a file was written, and what after some were removed.
LEMMA WithOf ==
    ASSUME NEW fs, NEW name, NEW file
    PROVE  /\ DOMAIN With(fs, name, file) = DOMAIN fs \cup {name}
           /\ With(fs, name, file)[name] = file
           /\ \A x \in DOMAIN fs : x # name => With(fs, name, file)[x] = fs[x]
  BY DEF With

LEMMA WithoutOf ==
    ASSUME NEW fs, NEW names
    PROVE  /\ DOMAIN Without(fs, names) = DOMAIN fs \ names
           /\ \A x \in DOMAIN fs \ names : Without(fs, names)[x] = fs[x]
  BY DEF Without

LEMMA FileOfToday ==
    ASSUME NEW content \in SUBSET Nat, NEW whole \in BOOLEAN, day \in Nat
    PROVE  /\ File(content, whole) \in Contents
           /\ File(content, whole).content = content /\ File(content, whole).whole = whole
           /\ File(content, whole).mtime = day /\ File(content, whole).mtime <= day
  BY DEF File, Contents

\* There is always a counter that is free: more numbers than files.
LEMMA RotatedNameIsNew ==
    ASSUME Typed, NEW d \in Nat
    PROVE  /\ RotatedName(d) \in Names /\ RotatedName(d).kind = "log" /\ ~RotatedName(d).gz
           /\ RotatedName(d).day = d
           /\ ~Exists(RotatedName(d)) /\ ~Exists(Gz(RotatedName(d)))
<1> DEFINE count == Cardinality(DOMAIN files)
           free == {n \in 0 .. count : ~Exists(Plain("log", d, n)) /\ ~Exists(Gz(Plain("log", d, n)))}
           first == CHOOSE n \in free : \A k \in free : n <= k
<1>1. count \in Nat
  BY FS_CardinalityType DEF Typed, FilesTyped
<1>2. free # {} /\ free \subseteq Nat
  <2> SUFFICES ASSUME free = {}  PROVE FALSE
    BY <1>1
  <2> DEFINE taken == [n \in 0 .. count |->
                IF Exists(Plain("log", d, n)) THEN Plain("log", d, n) ELSE Gz(Plain("log", d, n))]
  <2>1. \A n \in 0 .. count : taken[n] \in DOMAIN files /\ taken[n].n = n
    BY <1>1, NamesOfFiles DEF Exists, Kinds
  <2>2. taken \in Injection(0 .. count, DOMAIN files)
    BY <2>1 DEF Injection, IsInjective
  <2> HIDE DEF taken
  <2>3. IsFiniteSet(0 .. count) /\ Cardinality(0 .. count) = count + 1
    BY <1>1, FS_Interval
  <2>4. Cardinality(0 .. count) <= count
    BY <2>2, <2>3, FS_Injection DEF Typed, FilesTyped
  <2> QED  BY <1>1, <2>3, <2>4
<1>3. first \in free
  <2> HIDE DEF free
  <2>1. \E n \in free : \A k \in free : ~ (<<k, n>> \in OpToRel(<, Nat))
    BY <1>2, NatLessThanWellFounded, WFMin
  <2>2. PICK n \in free : \A k \in free : ~ (<<k, n>> \in OpToRel(<, Nat))
    BY <2>1
  <2>3. \A k \in free : n <= k
    <3>1. ASSUME NEW k \in free  PROVE n <= k
      <4>1. k \in Nat /\ n \in Nat /\ ~(k < n)
        BY <1>2, <2>2 DEF OpToRel
      <4> QED  BY <4>1
    <3> QED  BY <3>1
  <2> QED  BY <2>3
<1> QED  BY <1>3, NamesOfFiles DEF RotatedName, Kinds

-----------------------------------------------------------------------------
(* What each step does *)

\* The maintenance p, the only one there is, goes on with this.
Moved(p, stage, todo, file, step) ==
    /\ m[p] # None /\ m[p] \in Works
    /\ m' \in [Maintainers -> Works \cup {None}]
    /\ m'[p] # None /\ m'[p].stage = stage /\ m'[p].now = m[p].now /\ m'[p].todo = todo
    /\ m'[p].file = file /\ m'[p].step = step
    /\ \A q \in Maintainers : q # p => m[q] = None /\ m'[q] = None

Written(name, file) ==
    /\ DOMAIN files' = DOMAIN files \cup {name} /\ files'[name] = file
    /\ \A x \in DOMAIN files : x # name => files'[x] = files[x]

Removed(names) ==
    DOMAIN files' = DOMAIN files \ names /\ \A x \in DOMAIN files \ names : files'[x] = files[x]

LEMMA WithWrites ==
    ASSUME NEW name, NEW file, files' = With(files, name, file)
    PROVE  Written(name, file)
  BY DEF With, Written

LEMMA WithoutRemoves ==
    ASSUME NEW names, files' = Without(files, names)
    PROVE  Removed(names)
  BY DEF Without, Removed

LEMMA WorkOf ==
    ASSUME NEW w \in Works
    PROVE  /\ w.stage \in Stages /\ w.now \in Nat /\ w.todo \in SUBSET Names
           /\ w.file \in Names \cup {None} /\ w.step \in {"open", "copy", "unlink", None}
  BY DEF Works

\* Whoever works is alone.
LEMMA GoesMoves ==
    ASSUME MaintenanceInv, NEW p \in Maintainers, m[p] # None, NEW w \in Works, Goes(p, w), w.now = m[p].now
    PROVE  Moved(p, w.stage, w.todo, w.file, w.step)
  BY NoneIsNothing DEF MaintenanceInv, Typed, Alone, Goes, Moved

\* A maintenance that works, and its state.
LEMMA AtWork ==
    ASSUME MaintenanceInv, NEW p \in Maintainers, m[p] # None
    PROVE  /\ m[p] \in Works /\ m[p].now \in Nat /\ m[p].now <= day /\ completed <= m[p].now
           /\ m[p].todo \subseteq Names /\ m[p].file \in Names \cup {None} /\ m[p].stage \in Stages
           /\ lock = p /\ \A q \in Maintainers : q # p => m[q] = None
  BY WorkOf DEF MaintenanceInv, Typed, Alone

LEMMA StartDoes ==
    ASSUME MaintenanceInv, NEW p \in Maintainers, StartMaintenance(p)
    PROVE  /\ \A q \in Maintainers : m[q] = None
           /\ lock' = p /\ UNCHANGED <<day, files, run, runs, data, faults, completed>>
           /\ m' \in [Maintainers -> Works \cup {None}]
           /\ m'[p] # None /\ m'[p].stage = "raw" /\ m'[p].now = day /\ m'[p].todo = Named("raw")
           /\ m'[p].file = None /\ m'[p].step = None
           /\ \A q \in Maintainers : q # p => m'[q] = None
<1>1. \A q \in Maintainers : m[q] = None
  BY NoneIsNothing DEF MaintenanceInv, Alone, StartMaintenance
<1>2. PICK w : w = [stage |-> "raw", now |-> day, todo |-> Named("raw"), file |-> None, step |-> None]
  OBVIOUS
<1>3. w \in Works /\ w.stage = "raw" /\ w.now = day /\ w.todo = Named("raw") /\ w.file = None /\ w.step = None
  BY <1>2 DEF Works, Stages, Named, MaintenanceInv, Typed, FilesTyped
<1>4. m' = [m EXCEPT ![p] = w] /\ lock' = p /\ UNCHANGED <<day, files, run, runs, data, faults, completed>>
  BY <1>2 DEF StartMaintenance, Goes
<1>5. m' \in [Maintainers -> Works \cup {None}] /\ m'[p] = w /\ \A q \in Maintainers : q # p => m'[q] = None
  BY <1>1, <1>3, <1>4 DEF MaintenanceInv, Typed
<1> QED  BY <1>1, <1>3, <1>4, <1>5, NoneIsNothing

LEMMA KillDoes ==
    ASSUME MaintenanceInv, NEW p \in Maintainers, KillMaintenance(p)
    PROVE  /\ \A q \in Maintainers : m'[q] = None
           /\ m' \in [Maintainers -> Works \cup {None}]
           /\ killed' = killed \cup {day} /\ UNCHANGED <<day, files, run, runs, data, failed, completed>>
  BY NoneIsNothing DEF MaintenanceInv, Typed, Alone, KillMaintenance, Goes

LEMMA ProcessDoes ==
    ASSUME MaintenanceInv, NEW p \in Maintainers, ProcessRawFile(p)
    PROVE  /\ m[p] # None /\ m[p].stage = "raw" /\ m[p].file = None
           /\ UNCHANGED <<day, run, runs, lock, data, faults, completed>>
           /\ \E name \in m[p].todo :
              LET age == m[p].now - name.day IN
              /\ name \in Names
              /\ \/ /\ ~Exists(name) \/ age < MIN_FILE_AGE_DAYS
                       \/ (age < RAW_COMPRESSED_RETENTION_DAYS /\ (name.gz \/ age < RAW_UNCOMPRESSED_DAYS))
                    /\ UNCHANGED files /\ Moved(p, "raw", m[p].todo \ {name}, None, m[p].step)
                 \/ /\ age >= RAW_COMPRESSED_RETENTION_DAYS /\ Exists(name)
                    /\ Removed({name}) /\ Moved(p, "raw", m[p].todo \ {name}, None, m[p].step)
                 \/ /\ Exists(name) /\ ~name.gz
                    /\ age < RAW_COMPRESSED_RETENTION_DAYS /\ age >= RAW_UNCOMPRESSED_DAYS
                    /\ UNCHANGED files /\ Moved(p, "raw", m[p].todo \ {name}, name, "open")
<1>1. m[p] # None /\ m[p].stage = "raw" /\ m[p].file = None
      /\ UNCHANGED <<day, run, runs, lock, data, faults, completed>>
  BY DEF ProcessRawFile, At
<1>2. m[p] \in Works /\ m[p].now \in Nat /\ m[p].todo \in SUBSET Names /\ m[p].step \in {"open", "copy", "unlink", None}
  BY <1>1, AtWork, WorkOf
<1>3. PICK name \in m[p].todo :
        \E action : 
        /\ action = (IF ~Exists(name) \/ m[p].now - name.day < MIN_FILE_AGE_DAYS THEN "KEEP"
                     ELSE ClassifyRawFile(name, m[p].now - name.day))
        /\ files' = IF action = "DELETE" THEN Without(files, {name}) ELSE files
        /\ LET rest == [m[p] EXCEPT !.todo = @ \ {name}] IN
           Goes(p, IF action = "COMPRESS" THEN [rest EXCEPT !.file = name, !.step = "open"] ELSE rest)
  BY DEF ProcessRawFile
<1>4. PICK action :
        /\ action = (IF ~Exists(name) \/ m[p].now - name.day < MIN_FILE_AGE_DAYS THEN "KEEP"
                     ELSE ClassifyRawFile(name, m[p].now - name.day))
        /\ files' = IF action = "DELETE" THEN Without(files, {name}) ELSE files
        /\ LET rest == [m[p] EXCEPT !.todo = @ \ {name}] IN
           Goes(p, IF action = "COMPRESS" THEN [rest EXCEPT !.file = name, !.step = "open"] ELSE rest)
  BY <1>3
<1>5. name \in Names /\ name.day \in Nat
  BY <1>2, NamesOfFiles
<1>6. PICK age \in Int : age = m[p].now - name.day
  BY <1>2, <1>5
<1>7. PICK rest : rest = [m[p] EXCEPT !.todo = m[p].todo \ {name}]
  OBVIOUS
<1>8. rest \in Works /\ rest.stage = "raw" /\ rest.now = m[p].now /\ rest.todo = m[p].todo \ {name}
      /\ rest.file = None /\ rest.step = m[p].step
  <2>1. m[p].todo \ {name} \in SUBSET Names
    BY <1>2
  <2> QED  BY <1>1, <1>2, <1>7, <2>1 DEF Works
<1>9. PICK zip : zip = [rest EXCEPT !.file = name, !.step = "open"]
  OBVIOUS
<1>10. zip \in Works /\ zip.stage = "raw" /\ zip.now = m[p].now /\ zip.todo = m[p].todo \ {name}
       /\ zip.file = name /\ zip.step = "open"
  BY <1>2, <1>5, <1>8, <1>9 DEF Works
<1>11. files' = (IF action = "DELETE" THEN Without(files, {name}) ELSE files)
       /\ Goes(p, IF action = "COMPRESS" THEN zip ELSE rest)
  BY <1>4, <1>7, <1>9
<1>12. CASE action = "DELETE"
  <2>1. age >= RAW_COMPRESSED_RETENTION_DAYS /\ Exists(name)
    BY <1>4, <1>6, <1>12, MaintenanceAssumption DEF ClassifyRawFile
  <2>2. Removed({name})
    BY <1>11, <1>12, WithoutOf DEF Removed
  <2>3. Moved(p, "raw", m[p].todo \ {name}, None, m[p].step)
    BY <1>1, <1>8, <1>11, <1>12, GoesMoves
  <2> QED  BY <1>1, <1>5, <1>6, <2>1, <2>2, <2>3
<1>13. CASE action = "COMPRESS"
  <2>1. Exists(name) /\ ~name.gz /\ age < RAW_COMPRESSED_RETENTION_DAYS /\ age >= RAW_UNCOMPRESSED_DAYS
    BY <1>4, <1>6, <1>13, MaintenanceAssumption DEF ClassifyRawFile
  <2>2. Moved(p, "raw", m[p].todo \ {name}, name, "open")
    BY <1>1, <1>10, <1>11, <1>13, GoesMoves
  <2> QED  BY <1>1, <1>5, <1>6, <1>11, <1>13, <2>1, <2>2
<1>14. CASE action # "DELETE" /\ action # "COMPRESS"
  <2>1. ~Exists(name) \/ age < MIN_FILE_AGE_DAYS
         \/ (age < RAW_COMPRESSED_RETENTION_DAYS /\ (name.gz \/ age < RAW_UNCOMPRESSED_DAYS))
    BY <1>4, <1>6, <1>14, MaintenanceAssumption DEF ClassifyRawFile
  <2>2. Moved(p, "raw", m[p].todo \ {name}, None, m[p].step)
    BY <1>1, <1>8, <1>11, <1>14, GoesMoves
  <2> QED  BY <1>1, <1>5, <1>6, <1>11, <1>14, <2>1, <2>2
<1> QED  BY <1>12, <1>13, <1>14

LEMMA OpenDoes ==
    ASSUME MaintenanceInv, NEW p \in Maintainers, OpenGz(p)
    PROVE  /\ m[p].file \in Names /\ m[p].step = "open"
           /\ UNCHANGED <<day, run, runs, lock, data, faults, completed>>
           /\ Written(Gz(m[p].file), File({}, FALSE))
           /\ Moved(p, m[p].stage, m[p].todo, m[p].file, "copy")
<1>1. m[p] \in Works /\ m[p].file \in Names /\ m[p].step = "open"
  BY AtWork DEF OpenGz
<1>2. PICK w : w = [m[p] EXCEPT !.step = "copy"]
  OBVIOUS
<1>3. w \in Works /\ w.stage = m[p].stage /\ w.now = m[p].now /\ w.todo = m[p].todo /\ w.file = m[p].file /\ w.step = "copy"
  BY <1>1, <1>2 DEF Works
<1>4. m[p] # None /\ Goes(p, w)
  BY <1>2 DEF OpenGz
<1>5. Moved(p, m[p].stage, m[p].todo, m[p].file, "copy")
  BY <1>3, <1>4, GoesMoves
<1>6. files' = With(files, Gz(m[p].file), File({}, FALSE)) /\ UNCHANGED <<day, run, runs, lock, data, faults, completed>>
  BY DEF OpenGz
<1> QED  BY <1>1, <1>5, <1>6, WithWrites

LEMMA CopyDoes ==
    ASSUME MaintenanceInv, NEW p \in Maintainers, CopyToGz(p)
    PROVE  /\ m[p].file \in Names /\ m[p].step = "copy" /\ Exists(m[p].file)
           /\ UNCHANGED <<day, run, runs, lock, data, faults, completed>>
           /\ Written(Gz(m[p].file), File(files[m[p].file].content, TRUE))
           /\ Moved(p, m[p].stage, m[p].todo, m[p].file, "unlink")
<1>1. m[p] \in Works /\ m[p].file \in Names /\ m[p].step = "copy" /\ Exists(m[p].file)
  BY AtWork DEF CopyToGz
<1>2. PICK w : w = [m[p] EXCEPT !.step = "unlink"]
  OBVIOUS
<1>3. w \in Works /\ w.stage = m[p].stage /\ w.now = m[p].now /\ w.todo = m[p].todo /\ w.file = m[p].file /\ w.step = "unlink"
  BY <1>1, <1>2 DEF Works
<1>4. m[p] # None /\ Goes(p, w)
  BY <1>2 DEF CopyToGz
<1>5. Moved(p, m[p].stage, m[p].todo, m[p].file, "unlink")
  BY <1>3, <1>4, GoesMoves
<1>6. /\ files' = With(files, Gz(m[p].file), File(files[m[p].file].content, TRUE))
      /\ UNCHANGED <<day, run, runs, lock, data, faults, completed>>
  BY DEF CopyToGz
<1> QED  BY <1>1, <1>5, <1>6, WithWrites

\* The file it was to remove is there.
LEMMA UnlinkDoes ==
    ASSUME MaintenanceInv, NEW p \in Maintainers, UnlinkPlain(p)
    PROVE  /\ m[p].file \in Names /\ m[p].step = "unlink" /\ m[p].stage \in {"raw", "log", "db"}
           /\ UNCHANGED <<day, runs, lock, data, faults, completed>>
           /\ run' = IF run # None /\ run.out = m[p].file THEN [run EXCEPT !.out = None] ELSE run
           /\ Removed({m[p].file})
           /\ Moved(p, IF m[p].stage = "raw" THEN "raw" ELSE IF m[p].stage = "log" THEN "purge" ELSE "prune",
                    m[p].todo, None, None)
<1>1. m[p] # None /\ m[p] \in Works /\ m[p].file \in Names /\ m[p].step = "unlink"
  BY AtWork DEF UnlinkPlain
<1>2. m[p].stage \in {"raw", "log", "db"} /\ Exists(m[p].file)
  BY <1>1, NoneIsNothing DEF MaintenanceInv, WorksOn, FileOf
<1>3. PICK next : next = IF m[p].stage = "raw" THEN "raw" ELSE IF m[p].stage = "log" THEN "purge" ELSE "prune"
  OBVIOUS
<1>4. After(m[p].stage) = next /\ next \in Stages
  BY <1>2, <1>3 DEF After, Stages
<1>5. PICK w : w = [m[p] EXCEPT !.stage = next, !.file = None, !.step = None]
  OBVIOUS
<1>6. w \in Works /\ w.stage = next /\ w.now = m[p].now /\ w.todo = m[p].todo /\ w.file = None /\ w.step = None
  BY <1>1, <1>4, <1>5 DEF Works
<1>7. /\ Goes(p, w) /\ files' = Without(files, {m[p].file})
      /\ run' = IF run # None /\ run.out = m[p].file THEN [run EXCEPT !.out = None] ELSE run
      /\ UNCHANGED <<day, runs, lock, data, faults, completed>>
  BY <1>2, <1>4, <1>5 DEF UnlinkPlain, faults
<1>8. Moved(p, next, m[p].todo, None, None)
  BY <1>1, <1>6, <1>7, GoesMoves
<1>9. Removed({m[p].file})
  BY <1>7, WithoutRemoves
<1> QED  BY <1>1, <1>2, <1>3, <1>7, <1>8, <1>9

LEMMA RotateDoes ==
    ASSUME MaintenanceInv, NEW p \in Maintainers, RotateLogIfNeeded(p)
    PROVE  /\ m[p].stage = "raw" /\ m[p].file = None /\ m[p].todo = {}
           /\ UNCHANGED <<day, runs, lock, data, faults, completed>>
           /\ \/ UNCHANGED <<files, run>> /\ Moved(p, "purge", {}, None, m[p].step)
              \/ \E name \in Names :
                 /\ name.kind = "log" /\ ~name.gz /\ name.day <= day
                 /\ ~Exists(name) /\ ~Exists(Gz(name)) /\ Exists(Active)
                 /\ DOMAIN files' = (DOMAIN files \ {Active}) \cup {name} /\ files'[name] = files[Active]
                 /\ \A x \in DOMAIN files \ {Active} : x # name => files'[x] = files[x]
                 /\ run' = IF run # None /\ run.out = Active THEN [run EXCEPT !.out = name] ELSE run
                 /\ Moved(p, "log", {}, name, "open")
<1>1. m[p] # None /\ m[p].stage = "raw" /\ m[p].file = None /\ m[p].todo = {}
      /\ UNCHANGED <<day, runs, lock, data, faults, completed>>
  BY DEF RotateLogIfNeeded, At
<1>2. m[p] \in Works
  BY <1>1, AtWork
<1>3. CASE Goes(p, [m[p] EXCEPT !.stage = "purge"]) /\ UNCHANGED <<files, run>>
  <2>1. PICK w : w = [m[p] EXCEPT !.stage = "purge"]
    OBVIOUS
  <2>2. w \in Works /\ w.stage = "purge" /\ w.now = m[p].now /\ w.todo = {} /\ w.file = None /\ w.step = m[p].step
    BY <1>1, <1>2, <2>1 DEF Works, Stages
  <2>3. Moved(p, "purge", {}, None, m[p].step)
    BY <1>1, <1>3, <2>1, <2>2, GoesMoves
  <2> QED  BY <1>1, <1>3, <2>3
<1>4. CASE ~(Goes(p, [m[p] EXCEPT !.stage = "purge"]) /\ UNCHANGED <<files, run>>)
  <2>1. PICK name : name = RotatedName(files[Active].mtime)
    OBVIOUS
  <2>2. /\ Exists(Active)
        /\ files' = With(Without(files, {Active}), name, files[Active])
        /\ run' = IF run # None /\ run.out = Active THEN [run EXCEPT !.out = name] ELSE run
        /\ Goes(p, [m[p] EXCEPT !.stage = "log", !.file = name, !.step = "open"])
    BY <1>4, <2>1 DEF RotateLogIfNeeded
  <2>3. files[Active].mtime \in Nat /\ files[Active].mtime <= day
    BY <2>2 DEF MaintenanceInv, Typed, FilesTyped, Contents, Exists
  <2>4. /\ name \in Names /\ name.kind = "log" /\ ~name.gz /\ name.day <= day
        /\ ~Exists(name) /\ ~Exists(Gz(name))
    BY <2>1, <2>3, RotatedNameIsNew DEF MaintenanceInv
  <2>5. PICK w : w = [m[p] EXCEPT !.stage = "log", !.file = name, !.step = "open"]
    OBVIOUS
  <2>6. w \in Works /\ w.stage = "log" /\ w.now = m[p].now /\ w.todo = {} /\ w.file = name /\ w.step = "open"
    BY <1>1, <1>2, <2>4, <2>5 DEF Works, Stages
  <2>7. Moved(p, "log", {}, name, "open")
    BY <1>1, <2>2, <2>5, <2>6, GoesMoves
  <2>8. PICK others : others = Without(files, {Active})
    OBVIOUS
  <2>9. DOMAIN others = DOMAIN files \ {Active} /\ \A x \in DOMAIN files \ {Active} : others[x] = files[x]
    BY <2>8, WithoutOf
  <2>10. DOMAIN files' = DOMAIN others \cup {name} /\ files'[name] = files[Active]
         /\ \A x \in DOMAIN others : x # name => files'[x] = others[x]
    <3>1. \A fs, f : files' = With(fs, name, f) =>
            /\ DOMAIN files' = DOMAIN fs \cup {name} /\ files'[name] = f
            /\ \A x \in DOMAIN fs : x # name => files'[x] = fs[x]
      BY DEF With
    <3> QED  BY <2>2, <2>8, <3>1
  <2> QED  BY <1>1, <2>2, <2>4, <2>7, <2>9, <2>10
<1> QED  BY <1>3, <1>4

LEMMA PurgeDoes ==
    ASSUME MaintenanceInv, NEW p \in Maintainers, PurgeOldLogs(p)
    PROVE  /\ m[p].stage = "purge" /\ m[p].file = None
           /\ UNCHANGED <<day, run, runs, lock, data, faults, completed>>
           /\ Removed({name \in Named("log") :
                    name.gz /\ m[p].now - files[name].mtime >= LOG_COMPRESSED_RETENTION_DAYS})
           /\ Moved(p, "backup", m[p].todo, None, m[p].step)
<1>1. m[p] # None /\ m[p].stage = "purge" /\ m[p].file = None
  BY DEF PurgeOldLogs, At
<1>2. m[p] \in Works
  BY <1>1, AtWork
<1>3. PICK w : w = [m[p] EXCEPT !.stage = "backup"]
  OBVIOUS
<1>4. w \in Works /\ w.stage = "backup" /\ w.now = m[p].now /\ w.todo = m[p].todo /\ w.file = None /\ w.step = m[p].step
  BY <1>1, <1>2, <1>3 DEF Works, Stages
<1>5. Goes(p, w)
  BY <1>3 DEF PurgeOldLogs
<1>6. Moved(p, "backup", m[p].todo, None, m[p].step)
  BY <1>1, <1>4, <1>5, GoesMoves
<1>7. /\ files' = Without(files, {name \in Named("log") :
                    name.gz /\ m[p].now - files[name].mtime >= LOG_COMPRESSED_RETENTION_DAYS})
      /\ UNCHANGED <<day, run, runs, lock, data, faults, completed>>
  BY DEF PurgeOldLogs
<1> QED  BY <1>1, <1>6, <1>7, WithoutRemoves

LEMMA BackupDoes ==
    ASSUME MaintenanceInv, NEW p \in Maintainers, BackupDatabase(p)
    PROVE  /\ m[p].stage = "backup" /\ m[p].file = None
           /\ UNCHANGED <<day, run, runs, lock, data, faults, completed>>
           /\ \/ BackedUp(m[p].now) /\ UNCHANGED files /\ Moved(p, "prune", m[p].todo, None, m[p].step)
              \/ /\ ~BackedUp(m[p].now) /\ Written(Plain("db", m[p].now, 0), File({}, FALSE))
                 /\ Moved(p, "copying", m[p].todo, None, m[p].step)
<1>1. m[p] # None /\ m[p].stage = "backup" /\ m[p].file = None
  BY DEF BackupDatabase, At
<1>2. m[p] \in Works
  BY <1>1, AtWork
<1>3. ASSUME NEW stage \in {"prune", "copying"}, Goes(p, [m[p] EXCEPT !.stage = stage])
      PROVE  Moved(p, stage, m[p].todo, None, m[p].step)
  <2>1. PICK w : w = [m[p] EXCEPT !.stage = stage]
    OBVIOUS
  <2>2. w \in Works /\ w.stage = stage /\ w.now = m[p].now /\ w.todo = m[p].todo /\ w.file = None /\ w.step = m[p].step
    BY <1>1, <1>2, <2>1 DEF Works, Stages
  <2> QED  BY <1>1, <1>3, <2>1, <2>2, GoesMoves
<1>4. UNCHANGED <<day, run, runs, lock, data, faults, completed>>
  BY DEF BackupDatabase
<1>5. CASE BackedUp(m[p].now)
  <2>1. Goes(p, [m[p] EXCEPT !.stage = "prune"]) /\ UNCHANGED files
    BY <1>5 DEF BackupDatabase
  <2> QED  BY <1>1, <1>3, <1>4, <1>5, <2>1
<1>6. CASE ~BackedUp(m[p].now)
  <2>1. files' = With(files, Plain("db", m[p].now, 0), File({}, FALSE)) /\ Goes(p, [m[p] EXCEPT !.stage = "copying"])
    BY <1>6 DEF BackupDatabase
  <2>2. Written(Plain("db", m[p].now, 0), File({}, FALSE))
    BY <2>1, WithWrites
  <2> QED  BY <1>1, <1>3, <1>4, <1>6, <2>1, <2>2
<1> QED  BY <1>5, <1>6

LEMMA CopyDatabaseDoes ==
    ASSUME MaintenanceInv, NEW p \in Maintainers, CopyDatabase(p)
    PROVE  /\ m[p].stage = "copying" /\ m[p].file = None
           /\ UNCHANGED <<day, run, runs, lock, data, faults, completed>>
           /\ Written(Plain("db", m[p].now, 0), File({commits}, TRUE))
           /\ Moved(p, "db", m[p].todo, Plain("db", m[p].now, 0), "open")
<1>1. m[p] # None /\ m[p].stage = "copying" /\ m[p].file = None
  BY DEF CopyDatabase, At
<1>2. m[p] \in Works /\ m[p].now \in Nat
  BY <1>1, AtWork
<1>3. PICK name \in Names : name = Plain("db", m[p].now, 0)
  BY <1>2, NamesOfFiles DEF Kinds
<1>4. PICK w : w = [m[p] EXCEPT !.stage = "db", !.file = name, !.step = "open"]
  OBVIOUS
<1>5. w \in Works /\ w.stage = "db" /\ w.now = m[p].now /\ w.todo = m[p].todo /\ w.file = name /\ w.step = "open"
  BY <1>1, <1>2, <1>4 DEF Works, Stages
<1>6. Goes(p, w)
  BY <1>3, <1>4 DEF CopyDatabase
<1>7. Moved(p, "db", m[p].todo, name, "open")
  BY <1>1, <1>5, <1>6, GoesMoves
<1>8. files' = With(files, name, File({commits}, TRUE)) /\ UNCHANGED <<day, run, runs, lock, data, faults, completed>>
  BY <1>3 DEF CopyDatabase
<1>9. Written(name, File({commits}, TRUE))
  BY <1>8, WithWrites
<1> QED  BY <1>1, <1>3, <1>7, <1>8, <1>9

\* With the last stage the maintenance is over.
LEMMA PruneDoes ==
    ASSUME MaintenanceInv, NEW p \in Maintainers, PruneOldBackups(p)
    PROVE  /\ m[p] # None /\ m[p].stage = "prune" /\ m[p].file = None
           /\ UNCHANGED <<day, run, runs, data, faults>>
           /\ completed' = m[p].now /\ Removed(OldBackups)
           /\ m' \in [Maintainers -> Works \cup {None}]
           /\ \A q \in Maintainers : m'[q] = None
<1>1. m[p] # None /\ m[p].stage = "prune" /\ m[p].file = None
  BY DEF PruneOldBackups, At
<1>2. m' = [m EXCEPT ![p] = None] /\ m \in [Maintainers -> Works \cup {None}] /\ files' = Without(files, OldBackups)
      /\ completed' = m[p].now /\ UNCHANGED <<day, run, runs, data, faults>>
  BY DEF PruneOldBackups, Goes, MaintenanceInv, Typed
<1>3. m' \in [Maintainers -> Works \cup {None}] /\ \A q \in Maintainers : m'[q] = None
  BY <1>1, <1>2, AtWork
<1> QED  BY <1>1, <1>2, <1>3, WithoutRemoves

LEMMA StartRunDoes ==
    ASSUME MaintenanceInv, StartRun
    PROVE  /\ run = None /\ runs' = runs + 1 /\ UNCHANGED <<day, m, lock, data, faults, completed>>
           /\ run' \in Runs /\ run'.n = runs + 1 /\ run'.out = Active
           /\ IF Exists(Active) THEN UNCHANGED files ELSE Written(Active, File({}, TRUE))
<1>1. PICK r : r = [n |-> runs + 1, out |-> Active, captured |-> FALSE]
  OBVIOUS
<1>2. Active \in Names
  BY NamesOfFiles DEF Active, Kinds
<1>3. r \in Runs /\ r.n = runs + 1 /\ r.out = Active
  BY <1>1, <1>2 DEF Runs, MaintenanceInv, Typed
<1>4. run = None /\ runs' = runs + 1 /\ run' = r /\ UNCHANGED <<day, m, lock, data, faults, completed>>
  BY <1>1 DEF StartRun
<1>5. files' = IF Exists(Active) THEN files ELSE With(files, Active, File({}, TRUE))
  BY DEF StartRun
<1> QED  BY <1>3, <1>4, <1>5, WithWrites

LEMMA CaptureDoes ==
    ASSUME MaintenanceInv, Capture
    PROVE  /\ run # None /\ run \in Runs /\ run.n \in Nat /\ run.n = runs /\ runs' = runs
           /\ Written(Plain("raw", day, run.n), File({run.n}, TRUE))
           /\ run' \in Runs /\ run'.n = run.n /\ run'.out = run.out
           /\ commits' = commits + 1 /\ UNCHANGED <<day, runs, m, lock, kept, faults, completed>>
<1>1. /\ run # None /\ run' = [run EXCEPT !.captured = TRUE]
      /\ files' = With(files, Plain("raw", day, run.n), File({run.n}, TRUE))
      /\ commits' = commits + 1 /\ UNCHANGED <<day, runs, m, lock, kept, faults, completed>>
  BY DEF Capture
<1>2. run \in Runs
  BY <1>1 DEF MaintenanceInv, Typed
<1>3. run.n \in Nat /\ run' \in Runs /\ run'.n = run.n /\ run'.out = run.out
  BY <1>1, <1>2 DEF Runs
<1> QED  BY <1>1, <1>2, <1>3, WithWrites DEF MaintenanceInv, RunOK

\* What a run prints goes to the file it has open, if that still has a name.
LEMMA FinishDoes ==
    ASSUME MaintenanceInv, Finish
    PROVE  /\ run # None /\ run \in Runs /\ run.n = runs /\ run.n \in 1 .. runs /\ run.n \in Nat
           /\ run' = None /\ UNCHANGED <<day, runs, m, lock, commits, faults, completed>>
           /\ IF run.out = None
              THEN UNCHANGED <<files, kept>>
              ELSE /\ run.out \in Names /\ Exists(run.out)
                   /\ run.out.kind \in {"active", "log"} /\ ~run.out.gz
                   /\ Written(run.out, File(files[run.out].content \cup {run.n}, TRUE))
                   /\ kept' = IF run.out = Active THEN With(kept, run.n, day) ELSE kept
<1>1. /\ run # None /\ run' = None
      /\ files' = IF Exists(run.out) THEN With(files, run.out, File(files[run.out].content \cup {run.n}, TRUE)) ELSE files
      /\ kept' = IF run.out = Active THEN With(kept, run.n, day) ELSE kept
      /\ UNCHANGED <<day, runs, m, lock, commits, faults, completed>>
  BY DEF Finish
<1>2. run \in Runs
  BY <1>1 DEF MaintenanceInv, Typed
<1>3. run.n \in Nat /\ run.out \in Names \cup {None} /\ run.n = runs /\ run.n \in 1 .. runs
  BY <1>1, <1>2 DEF Runs, MaintenanceInv, RunOK
<1>4. CASE run.out = None
  <2>1. ~Exists(None) /\ Active # None
    BY NamesOfFiles, NoneIsNothing DEF Exists, MaintenanceInv, Typed, FilesTyped, Active, Kinds
  <2> QED  BY <1>1, <1>2, <1>3, <1>4, <2>1
<1>5. CASE run.out # None
  <2>1. run.out \in Names /\ Exists(run.out) /\ run.out.kind \in {"active", "log"} /\ ~run.out.gz
    BY <1>1, <1>3, <1>5 DEF MaintenanceInv, RunOK
  <2>2. Written(run.out, File(files[run.out].content \cup {run.n}, TRUE))
    BY <1>1, <2>1, WithWrites
  <2> QED  BY <1>1, <1>2, <1>3, <1>5, <2>1, <2>2
<1> QED  BY <1>4, <1>5
-----------------------------------------------------------------------------
(* Types are kept *)

LEMMA FilesAsTheyAre ==
    ASSUME FilesTyped, UNCHANGED <<files, day>>  PROVE FilesTyped'
  BY DEF FilesTyped

LEMMA FilesWritten ==
    ASSUME FilesTyped, NEW name \in Names, NEW file \in Contents, Written(name, file),
           name.day <= day, file.mtime <= day, day' = day
    PROVE  FilesTyped'
<1>1. IsFiniteSet(DOMAIN files')
  BY FS_AddElement DEF FilesTyped, Written
<1> QED  BY <1>1 DEF FilesTyped, Written

LEMMA FilesRemoved ==
    ASSUME FilesTyped, NEW names, Removed(names), day' = day
    PROVE  FilesTyped'
<1>1. IsFiniteSet(DOMAIN files')
  BY FS_Subset DEF FilesTyped, Removed
<1> QED  BY <1>1 DEF FilesTyped, Removed

\* The actions do to the files one of these.
LEMMA TypedOfStep ==
    ASSUME MaintenanceInv, Next
    PROVE  Typed'
<1>0. Typed /\ FilesTyped /\ RunOK /\ Alone
  BY DEF MaintenanceInv, Typed
<1>1. CASE NextDay
  <2>1. FilesTyped'
    BY <1>0, <1>1 DEF NextDay, FilesTyped, Contents, Names, Typed
  <2> QED  BY <1>0, <1>1, <2>1, AtWork DEF NextDay, data, Typed
<1>2. CASE StartRun
  <2>1. FilesTyped'
    <3>1. PICK name \in Names : name = Active /\ name.day <= day
      BY <1>0, NamesOfFiles DEF Active, Kinds, Typed
    <3>2. PICK file \in Contents : file = File({}, TRUE) /\ file.mtime <= day
      BY <1>0, FileOfToday DEF Typed
    <3>3. day' = day /\ (UNCHANGED files \/ Written(name, file))
      BY <1>0, <1>2, <3>1, <3>2, StartRunDoes DEF Typed, Written
    <3> QED  BY <1>0, <3>1, <3>2, <3>3, FilesAsTheyAre, FilesWritten
  <2> QED  BY <1>0, <1>2, <2>1, StartRunDoes DEF data, Typed
<1>3. CASE Capture
  <2>1. FilesTyped'
    <3>1. run.n \in Nat /\ day \in Nat /\ {run.n} \in SUBSET Nat
      BY <1>0, <1>3, CaptureDoes DEF Typed
    <3>2. PICK name \in Names : name = Plain("raw", day, run.n) /\ name.day <= day
      BY <3>1, PlainOf DEF Kinds
    <3>3. PICK file \in Contents : file = File({run.n}, TRUE) /\ file.mtime <= day
      BY <3>1, FileOfToday
    <3>4. day' = day /\ Written(name, file)
      BY <1>3, <3>1, <3>2, <3>3, CaptureDoes DEF Written
    <3> QED  BY <1>0, <3>1, <3>2, <3>3, <3>4, FilesWritten
  <2> QED  BY <1>0, <1>3, <2>1, CaptureDoes DEF Typed
<1>4. CASE Finish
  <2>1. FilesTyped'
    <3>1. CASE run.out = None
      BY <1>0, <1>4, <3>1, FinishDoes, FilesAsTheyAre
    <3>2. CASE run.out # None
      <4>1. PICK content : content = files[run.out].content \cup {run.n}
        OBVIOUS
      <4>2. content \in SUBSET Nat
        BY <1>0, <1>4, <3>2, <4>1, FinishDoes DEF FilesTyped, Contents, Exists
      <4>3. PICK file \in Contents : file = File(content, TRUE) /\ file.mtime <= day
        BY <1>0, <4>2, FileOfToday DEF Typed
      <4>4. PICK name \in Names : name = run.out /\ name.day <= day
        BY <1>0, <1>4, <3>2, FinishDoes DEF FilesTyped, Exists
      <4>5. Written(name, file) /\ day' = day
        BY <1>0, <1>4, <3>2, <4>1, <4>3, <4>4, FinishDoes DEF FilesTyped, Exists, Typed, Written
      <4> QED  BY <1>0, <4>3, <4>4, <4>5, FilesWritten
    <3> QED  BY <3>1, <3>2
  <2>2. DOMAIN kept' \subseteq 1 .. runs /\ \A n \in DOMAIN kept' : kept'[n] \in Nat /\ kept'[n] <= day
    <3>1. CASE kept' = kept
      BY <1>0, <3>1 DEF Typed
    <3>2. CASE kept' = With(kept, run.n, day)
      <4>1. DOMAIN kept' = DOMAIN kept \cup {run.n} /\ kept'[run.n] = day
            /\ \A n \in DOMAIN kept : n # run.n => kept'[n] = kept[n]
        BY <3>2 DEF With
      <4>2. run.n \in 1 .. runs
        BY <1>4, FinishDoes
      <4> QED  BY <1>0, <4>1, <4>2 DEF Typed
    <3> QED  BY <1>4, <3>1, <3>2, FinishDoes
  <2> QED  BY <1>0, <1>4, <2>1, <2>2, FinishDoes DEF Typed
<1>5. CASE KillRun
  <2>1. FilesTyped'
    BY <1>0, <1>5, FilesAsTheyAre DEF KillRun
  <2> QED  BY <1>0, <1>5, <2>1 DEF KillRun, data, Typed
<1>6. ASSUME NEW p \in Maintainers, StartMaintenance(p)  PROVE Typed'
  <2>1. FilesTyped'
    BY <1>0, <1>6, StartDoes, FilesAsTheyAre
  <2> QED  BY <1>0, <1>6, <2>1, StartDoes DEF data, Typed
<1>7. ASSUME NEW p \in Maintainers, ProcessRawFile(p)  PROVE Typed'
  <2>1. FilesTyped'
    BY <1>0, <1>7, ProcessDoes, FilesAsTheyAre, FilesRemoved
  <2> QED  BY <1>0, <1>7, <2>1, ProcessDoes, AtWork DEF data, Moved, Typed
<1>8. ASSUME NEW p \in Maintainers, OpenGz(p)  PROVE Typed'
  <2>1. FilesTyped'
    <3>1. PICK name \in Names : name = Gz(m[p].file) /\ name.day = m[p].file.day
      BY <1>8, OpenDoes, GzOfName
    <3>2. m[p].file.day <= day
      BY <1>0, <1>8, OpenDoes, NoneIsNothing DEF OpenGz, MaintenanceInv, WorksOn, FileOf, Exists, FilesTyped
    <3>3. PICK file \in Contents : file = File({}, FALSE) /\ file.mtime <= day
      BY <1>0, FileOfToday DEF Typed
    <3>4. day' = day /\ Written(name, file)
      BY <1>0, <1>8, <3>1, <3>2, <3>3, OpenDoes DEF Typed, Written
    <3> QED  BY <1>0, <3>1, <3>2, <3>3, <3>4, FilesWritten
  <2> QED  BY <1>0, <1>8, <2>1, OpenDoes, AtWork DEF data, Moved, Typed
<1>9. ASSUME NEW p \in Maintainers, CopyToGz(p)  PROVE Typed'
  <2>1. FilesTyped'
    <3>1. PICK name \in Names : name = Gz(m[p].file) /\ name.day = m[p].file.day
      BY <1>9, CopyDoes, GzOfName
    <3>2. m[p].file.day <= day /\ files[m[p].file].content \in SUBSET Nat
      BY <1>0, <1>9, CopyDoes DEF Exists, FilesTyped, Contents
    <3>3. PICK file \in Contents : file = File(files[m[p].file].content, TRUE) /\ file.mtime <= day
      BY <1>0, <3>2, FileOfToday DEF Typed
    <3>4. day' = day /\ Written(name, file)
      BY <1>0, <1>9, <3>1, <3>2, <3>3, CopyDoes DEF Typed, Written
    <3> QED  BY <1>0, <3>1, <3>2, <3>3, <3>4, FilesWritten
  <2> QED  BY <1>0, <1>9, <2>1, CopyDoes, AtWork DEF data, Moved, Typed
<1>10. ASSUME NEW p \in Maintainers, UnlinkPlain(p)  PROVE Typed'
  <2>1. FilesTyped'
    BY <1>0, <1>10, UnlinkDoes, FilesRemoved
  <2>2. run' \in Runs \cup {None}
    BY <1>0, <1>10, UnlinkDoes DEF Typed, Runs
  <2> QED  BY <1>0, <1>10, <2>1, <2>2, UnlinkDoes, AtWork DEF data, Moved, Typed
<1>11. ASSUME NEW p \in Maintainers, RotateLogIfNeeded(p)  PROVE Typed'
  <2>1. CASE UNCHANGED <<files, run>> /\ Moved(p, "purge", {}, None, m[p].step)
    <3>1. FilesTyped'
      BY <1>0, <1>11, <2>1, RotateDoes, FilesAsTheyAre
    <3> QED  BY <1>0, <1>11, <2>1, <3>1, RotateDoes, AtWork DEF data, Moved, Typed
  <2>2. CASE ~(UNCHANGED <<files, run>> /\ Moved(p, "purge", {}, None, m[p].step))
    <3>1. PICK name \in Names :
                 /\ name.kind = "log" /\ ~name.gz /\ name.day <= day /\ Exists(Active)
                 /\ DOMAIN files' = (DOMAIN files \ {Active}) \cup {name} /\ files'[name] = files[Active]
                 /\ \A x \in DOMAIN files \ {Active} : x # name => files'[x] = files[x]
                 /\ run' = IF run # None /\ run.out = Active THEN [run EXCEPT !.out = name] ELSE run
                 /\ Moved(p, "log", {}, name, "open")
      BY <1>11, <2>2, RotateDoes
    <3>2. IsFiniteSet(DOMAIN files')
      <4>1. IsFiniteSet(DOMAIN files \ {Active})
        BY <1>0, FS_Subset DEF FilesTyped
      <4> QED  BY <3>1, <4>1, FS_AddElement
    <3>3. FilesTyped'
      BY <1>0, <1>11, <3>1, <3>2, RotateDoes DEF FilesTyped, Exists
    <3>4. run' \in Runs \cup {None}
      BY <1>0, <3>1 DEF Typed, Runs
    <3> QED  BY <1>0, <1>11, <3>1, <3>3, <3>4, RotateDoes, AtWork DEF data, Moved, Typed
  <2> QED  BY <2>1, <2>2
<1>12. ASSUME NEW p \in Maintainers, PurgeOldLogs(p)  PROVE Typed'
  <2>1. FilesTyped'
    BY <1>0, <1>12, PurgeDoes, FilesRemoved
  <2> QED  BY <1>0, <1>12, <2>1, PurgeDoes, AtWork DEF data, Moved, Typed
<1>13. ASSUME NEW p \in Maintainers, BackupDatabase(p)  PROVE Typed'
  <2>1. FilesTyped'
    <3>1. m[p].now \in Nat /\ m[p].now <= day
      BY <1>13, AtWork DEF BackupDatabase, At
    <3>2. PICK name \in Names : name = Plain("db", m[p].now, 0) /\ name.day <= day
      BY <3>1, PlainOf DEF Kinds
    <3>3. PICK file \in Contents : file = File({}, FALSE) /\ file.mtime <= day
      BY <1>0, FileOfToday DEF Typed
    <3>4. day' = day /\ (UNCHANGED files \/ Written(name, file))
      BY <1>0, <1>13, <3>2, <3>3, BackupDoes DEF Typed, Written
    <3> QED  BY <1>0, <3>2, <3>3, <3>4, FilesAsTheyAre, FilesWritten
  <2> QED  BY <1>0, <1>13, <2>1, BackupDoes, AtWork DEF data, Moved, Typed
<1>14. ASSUME NEW p \in Maintainers, CopyDatabase(p)  PROVE Typed'
  <2>1. FilesTyped'
    <3>1. m[p].now \in Nat /\ m[p].now <= day
      BY <1>14, AtWork DEF CopyDatabase, At
    <3>2. PICK name \in Names : name = Plain("db", m[p].now, 0) /\ name.day <= day
      BY <3>1, PlainOf DEF Kinds
    <3>3. PICK file \in Contents : file = File({commits}, TRUE) /\ file.mtime <= day
      BY <1>0, FileOfToday DEF Typed
    <3>4. day' = day /\ Written(name, file)
      BY <1>0, <1>14, <3>2, <3>3, CopyDatabaseDoes DEF Typed, Written
    <3> QED  BY <1>0, <3>2, <3>3, <3>4, FilesWritten
  <2> QED  BY <1>0, <1>14, <2>1, CopyDatabaseDoes, AtWork DEF data, Moved, Typed
<1>15. ASSUME NEW p \in Maintainers, PruneOldBackups(p)  PROVE Typed'
  <2>1. FilesTyped'
    BY <1>0, <1>15, PruneDoes, FilesRemoved
  <2> QED  BY <1>0, <1>15, <2>1, PruneDoes, AtWork DEF data, Typed
<1>16. ASSUME NEW p \in Maintainers, KillMaintenance(p)  PROVE Typed'
  <2>1. FilesTyped'
    BY <1>0, <1>16, KillDoes, FilesAsTheyAre
  <2> QED  BY <1>0, <1>16, <2>1, KillDoes DEF data, Typed
<1> QED  BY <1>1, <1>2, <1>3, <1>4, <1>5, <1>6, <1>7, <1>8, <1>9, <1>10, <1>11, <1>12, <1>13, <1>14, <1>15, <1>16
         DEF Next, Maintenance
-----------------------------------------------------------------------------
(* The run, and who works *)

LEMMA RunStays ==
    ASSUME RunOK, UNCHANGED <<run, runs, kept>>, NEW gone, DOMAIN files \ gone \subseteq DOMAIN files',
           \A name \in gone : name.kind \in {"raw", "db"} \/ name.gz
    PROVE  RunOK'
  BY DEF RunOK, Exists

LEMMA RunOfStep ==
    ASSUME MaintenanceInv, Next
    PROVE  RunOK'
<1>0. Typed /\ FilesTyped /\ RunOK
  BY DEF MaintenanceInv, Typed
<1>1. CASE UNCHANGED <<run, runs, kept, files>>
  BY <1>0, <1>1 DEF RunOK, Exists
<1>2. CASE StartRun
  <2>1. Active.kind = "active" /\ ~Active.gz
    BY NamesOfFiles DEF Active, Kinds
  <2>2. Exists(Active)'
    BY <1>2, StartRunDoes DEF Exists, Written
  <2>3. kept' = kept /\ DOMAIN kept \subseteq 1 .. runs /\ runs \in Nat /\ runs' = runs + 1
    BY <1>0, <1>2, StartRunDoes DEF Typed, data
  <2>4. run'.out = Active /\ run'.n = runs'
    BY <1>2, <2>3, StartRunDoes
  <2>5. runs' \in 1 .. runs' /\ runs' \notin DOMAIN kept'
    BY <2>3
  <2>6. Exists(run.out)' /\ run'.out.kind \in {"active", "log"} /\ ~run'.out.gz
    BY <2>1, <2>2, <2>4 DEF Exists
  <2> QED  BY <2>4, <2>5, <2>6 DEF RunOK
<1>3. CASE Capture
  <2>1. run # None /\ run'.n = run.n /\ run'.out = run.out /\ UNCHANGED <<runs, kept>> /\ DOMAIN files \subseteq DOMAIN files'
    BY <1>3, CaptureDoes DEF Written
  <2> QED  BY <1>0, <2>1 DEF RunOK, Exists
<1>4. CASE run' = None
  BY <1>4 DEF RunOK
<1>5. ASSUME NEW p \in Maintainers, ProcessRawFile(p)  PROVE RunOK'
  <2>1. UNCHANGED <<run, runs, kept>>
    BY <1>5, ProcessDoes DEF data
  <2>2. PICK name \in m[p].todo : UNCHANGED files \/ Removed({name})
    BY <1>5, ProcessDoes
  <2>3. name.kind = "raw"
    BY <1>5, ProcessDoes DEF MaintenanceInv, WorksOn
  <2>4. DOMAIN files \ {name} \subseteq DOMAIN files'
    BY <2>2 DEF Removed
  <2> QED  BY <1>0, <2>1, <2>3, <2>4, RunStays
<1>6. ASSUME NEW p \in Maintainers, OpenGz(p) \/ CopyToGz(p)  PROVE RunOK'
  <2>1. UNCHANGED <<run, runs, kept>> /\ DOMAIN files \subseteq DOMAIN files'
    BY <1>6, OpenDoes, CopyDoes DEF data, Written
  <2> QED  BY <1>0, <2>1 DEF RunOK, Exists
<1>7. ASSUME NEW p \in Maintainers, UnlinkPlain(p)  PROVE RunOK'
  <2>1. UNCHANGED <<runs, kept>> /\ DOMAIN files' = DOMAIN files \ {m[p].file}
    BY <1>7, UnlinkDoes DEF data, Removed
  <2>2. CASE run # None /\ run.out = m[p].file
    <3>1. run' = [run EXCEPT !.out = None] /\ run \in Runs
      BY <1>0, <1>7, <2>2, UnlinkDoes DEF Typed
    <3>2. run'.n = run.n /\ run'.out = None
      BY <3>1 DEF Runs
    <3> QED  BY <1>0, <2>1, <2>2, <3>2 DEF RunOK
  <2>3. CASE ~(run # None /\ run.out = m[p].file)
    <3>1. run' = run
      BY <1>7, <2>3, UnlinkDoes
    <3> QED  BY <1>0, <2>1, <2>3, <3>1 DEF RunOK, Exists
  <2> QED  BY <2>2, <2>3
<1>8. ASSUME NEW p \in Maintainers, RotateLogIfNeeded(p)  PROVE RunOK'
  <2>1. UNCHANGED <<runs, kept>>
    BY <1>8, RotateDoes DEF data
  <2>2. CASE UNCHANGED <<files, run>>
    BY <1>1, <2>1, <2>2
  <2>3. CASE ~UNCHANGED <<files, run>>
    <3>1. PICK name \in Names :
                 /\ name.kind = "log" /\ ~name.gz
                 /\ DOMAIN files' = (DOMAIN files \ {Active}) \cup {name}
                 /\ run' = IF run # None /\ run.out = Active THEN [run EXCEPT !.out = name] ELSE run
      BY <1>8, <2>3, RotateDoes
    <3>2. CASE run # None /\ run.out = Active
      <4>1. run'.n = run.n /\ run'.out = name
        BY <1>0, <3>1, <3>2 DEF Typed, Runs
      <4> QED  BY <1>0, <2>1, <3>1, <3>2, <4>1 DEF RunOK, Exists
    <3>3. CASE ~(run # None /\ run.out = Active)
      BY <1>0, <2>1, <3>1, <3>3 DEF RunOK, Exists
    <3> QED  BY <3>2, <3>3
  <2> QED  BY <2>2, <2>3
<1>9. ASSUME NEW p \in Maintainers, PurgeOldLogs(p)  PROVE RunOK'
  <2>1. UNCHANGED <<run, runs, kept>>
    BY <1>9, PurgeDoes DEF data
  <2>2. PICK gone : gone = {name \in Named("log") :
                    name.gz /\ m[p].now - files[name].mtime >= LOG_COMPRESSED_RETENTION_DAYS}
    OBVIOUS
  <2>3. DOMAIN files' = DOMAIN files \ gone /\ \A name \in gone : name.gz
    BY <1>9, <2>2, PurgeDoes DEF Removed
  <2> QED  BY <1>0, <2>1, <2>3, RunStays
<1>10. ASSUME NEW p \in Maintainers, BackupDatabase(p) \/ CopyDatabase(p)  PROVE RunOK'
  <2>1. UNCHANGED <<run, runs, kept>> /\ DOMAIN files \subseteq DOMAIN files'
    BY <1>10, BackupDoes, CopyDatabaseDoes DEF data, Written
  <2> QED  BY <1>0, <2>1 DEF RunOK, Exists
<1>11. ASSUME NEW p \in Maintainers, PruneOldBackups(p)  PROVE RunOK'
  <2>1. UNCHANGED <<run, runs, kept>>
    BY <1>11, PruneDoes DEF data
  <2>2. PICK gone : gone = OldBackups
    OBVIOUS
  <2>3. DOMAIN files' = DOMAIN files \ gone /\ \A name \in gone : name.gz
    BY <1>11, <2>2, PruneDoes DEF Removed, OldBackups
  <2> QED  BY <1>0, <2>1, <2>3, RunStays
<1>12. ASSUME NEW p \in Maintainers, StartMaintenance(p) \/ KillMaintenance(p)  PROVE RunOK'
  <2>1. UNCHANGED <<run, runs, kept, files>>
    BY <1>12, StartDoes, KillDoes DEF data
  <2> QED  BY <1>1, <2>1
<1>13. CASE NextDay
  <2>1. UNCHANGED <<run, runs, kept, files>>
    BY <1>13 DEF NextDay, data
  <2> QED  BY <1>1, <2>1
<1>14. CASE Finish \/ KillRun
  BY <1>4, <1>14, FinishDoes DEF KillRun
<1> QED  BY <1>2, <1>3, <1>5, <1>6, <1>7, <1>8, <1>9, <1>10, <1>11, <1>12, <1>13, <1>14 DEF Next, Maintenance

\* A process that starts finds the lock free, and no other one is at work then.
LEMMA AloneOfStep ==
    ASSUME MaintenanceInv, Next
    PROVE  Alone'
<1>0. Alone
  BY DEF MaintenanceInv
<1>1. CASE UNCHANGED <<m, lock, failed>>
  BY <1>0, <1>1 DEF Alone
<1>2. CASE NextDay \/ StartRun \/ Capture \/ Finish \/ KillRun
  BY <1>1, <1>2 DEF NextDay, StartRun, Capture, Finish, KillRun, faults
<1>3. ASSUME NEW p \in Maintainers, StartMaintenance(p)  PROVE Alone'
  BY <1>0, <1>3, StartDoes DEF Alone, faults
<1>4. ASSUME NEW p \in Maintainers, KillMaintenance(p)  PROVE Alone'
  BY <1>0, <1>4, KillDoes DEF Alone
<1>5. ASSUME NEW p \in Maintainers, ProcessRawFile(p)  PROVE Alone'
  <2>1. UNCHANGED <<lock, failed>> /\ m[p] # None /\ \A q \in Maintainers : q # p => m'[q] = None
    BY <1>5, ProcessDoes DEF faults, Moved
  <2> QED  BY <1>0, <2>1 DEF Alone
<1>6. ASSUME NEW p \in Maintainers, OpenGz(p) \/ CopyToGz(p) \/ UnlinkPlain(p)  PROVE Alone'
  <2>1. UNCHANGED <<lock, failed>> /\ m[p] # None /\ \A q \in Maintainers : q # p => m'[q] = None
    BY <1>6, OpenDoes, CopyDoes, UnlinkDoes DEF faults, Moved
  <2> QED  BY <1>0, <2>1 DEF Alone
<1>7. ASSUME NEW p \in Maintainers, RotateLogIfNeeded(p) \/ PurgeOldLogs(p)  PROVE Alone'
  <2>1. UNCHANGED <<lock, failed>> /\ m[p] # None /\ \A q \in Maintainers : q # p => m'[q] = None
    BY <1>7, RotateDoes, PurgeDoes DEF faults, Moved
  <2> QED  BY <1>0, <2>1 DEF Alone
<1>8. ASSUME NEW p \in Maintainers, BackupDatabase(p) \/ CopyDatabase(p)  PROVE Alone'
  <2>1. UNCHANGED <<lock, failed>> /\ m[p] # None /\ \A q \in Maintainers : q # p => m'[q] = None
    BY <1>8, BackupDoes, CopyDatabaseDoes DEF faults, Moved
  <2> QED  BY <1>0, <2>1 DEF Alone
<1>9. ASSUME NEW p \in Maintainers, PruneOldBackups(p)  PROVE Alone'
  BY <1>0, <1>9, PruneDoes DEF Alone, faults
<1> QED  BY <1>2, <1>3, <1>4, <1>5, <1>6, <1>7, <1>8, <1>9 DEF Next, Maintenance
-----------------------------------------------------------------------------
(* What a maintenance works on *)

\* A run writes captures of today and whole logs, and takes no line out of one.
RunWrites(name) ==
    /\ name \in Names /\ ~name.gz /\ name.kind \in {"raw", "active", "log"}
    /\ name.kind = "raw" => name.day = day
    /\ UNCHANGED <<day, m, killed, completed, failed>>
    /\ \/ UNCHANGED files
       \/ /\ DOMAIN files' = DOMAIN files \cup {name}
          /\ \A x \in DOMAIN files : x # name => files'[x] = files[x]
          /\ files'[name].whole /\ files'[name].mtime = day
          /\ Exists(name) /\ name.kind # "raw" => files[name].content \subseteq files'[name].content

LEMMA RunsWrite ==
    ASSUME MaintenanceInv, StartRun \/ Capture \/ Finish \/ KillRun
    PROVE  \E name : RunWrites(name)
<1>0. Typed /\ FilesTyped /\ day \in Nat
  BY DEF MaintenanceInv, Typed
<1>1. PICK active \in Names : active = Active /\ ~active.gz /\ active.kind = "active"
  BY NamesOfFiles DEF Active, Kinds
<1>2. CASE UNCHANGED files /\ UNCHANGED <<day, m, killed, completed, failed>>
  BY <1>1, <1>2 DEF RunWrites
<1>3. CASE StartRun
  <2>1. UNCHANGED <<day, m, killed, completed, failed>>
    BY <1>3 DEF StartRun, faults
  <2>2. CASE UNCHANGED files
    BY <1>2, <2>1, <2>2
  <2>3. CASE ~UNCHANGED files
    <3>1. PICK file : file = File({}, TRUE) /\ file.whole /\ file.mtime = day
      BY <1>0, FileOfToday
    <3>2. ~Exists(active) /\ DOMAIN files' = DOMAIN files \cup {active} /\ files'[active] = file
          /\ \A x \in DOMAIN files : x # active => files'[x] = files[x]
      BY <1>1, <1>3, <2>3, <3>1, StartRunDoes DEF Written
    <3> QED  BY <1>1, <2>1, <3>1, <3>2 DEF RunWrites
  <2> QED  BY <2>2, <2>3
<1>4. CASE Capture
  <2>1. UNCHANGED <<day, m, killed, completed, failed>> /\ run.n \in Nat
    BY <1>4, CaptureDoes DEF faults
  <2>2. PICK name \in Names : name = Plain("raw", day, run.n) /\ ~name.gz /\ name.kind = "raw" /\ name.day = day
    BY <1>0, <2>1, PlainOf DEF Kinds
  <2>3. PICK file : file = File({run.n}, TRUE) /\ file.whole /\ file.mtime = day
    <3>1. {run.n} \in SUBSET Nat
      BY <2>1
    <3> QED  BY <1>0, <3>1, FileOfToday
  <2>4. DOMAIN files' = DOMAIN files \cup {name} /\ files'[name] = file
        /\ \A x \in DOMAIN files : x # name => files'[x] = files[x]
    BY <1>4, <2>2, <2>3, CaptureDoes DEF Written
  <2> QED  BY <2>1, <2>2, <2>3, <2>4 DEF RunWrites
<1>5. CASE Finish
  <2>1. UNCHANGED <<day, m, killed, completed, failed>>
    BY <1>5, FinishDoes DEF faults
  <2>2. CASE run.out = None
    BY <1>2, <1>5, <2>1, <2>2, FinishDoes
  <2>3. CASE run.out # None
    <3>1. PICK name \in Names : name = run.out /\ Exists(name) /\ name.kind \in {"active", "log"} /\ ~name.gz
      BY <1>5, <2>3, FinishDoes
    <3>2. PICK content : content = files[name].content \cup {run.n}
      OBVIOUS
    <3>3. content \in SUBSET Nat
      BY <1>0, <1>5, <3>1, <3>2, FinishDoes DEF FilesTyped, Exists, Contents
    <3>4. PICK file : file = File(content, TRUE) /\ file.whole /\ file.mtime = day /\ file.content = content
      BY <1>0, <3>3, FileOfToday
    <3>5. DOMAIN files' = DOMAIN files \cup {name} /\ files'[name] = file
          /\ \A x \in DOMAIN files : x # name => files'[x] = files[x]
      BY <1>5, <2>3, <3>1, <3>2, <3>4, FinishDoes DEF Written
    <3> QED  BY <2>1, <3>1, <3>2, <3>4, <3>5 DEF RunWrites
  <2> QED  BY <2>2, <2>3
<1>6. CASE KillRun
  BY <1>2, <1>6 DEF KillRun
<1> QED  BY <1>3, <1>4, <1>5, <1>6

LEMMA DbNames ==
    ASSUME NEW d \in Nat
    PROVE  /\ Plain("db", d, 0) \in Names /\ Plain("db", d, 0).kind = "db" /\ ~Plain("db", d, 0).gz
           /\ Plain("db", d, 0).day = d
           /\ Gz(Plain("db", d, 0)) \in Names /\ Gz(Plain("db", d, 0)).kind = "db" /\ Gz(Plain("db", d, 0)).gz
           /\ Gz(Plain("db", d, 0)).day = d
  BY NamesOfFiles DEF Kinds

LEMMA WorksUnderRuns ==
    ASSUME MaintenanceInv, NEW name, RunWrites(name), NEW p \in Maintainers
    PROVE  WorksOn(p)'
<1>1. CASE m[p] = None
  BY <1>1 DEF WorksOn, RunWrites
<1>2. CASE m[p] # None
  <2>1. WorksOn(p) /\ m'[p] = m[p] /\ m' = m /\ m[p].file \in Names \cup {None} /\ m[p].now \in Nat
    BY <1>2, AtWork DEF MaintenanceInv, RunWrites
  <2>2. PICK db \in Names, dbgz \in Names :
          db = Plain("db", m[p].now, 0) /\ dbgz = Gz(db) /\ db.kind = "db" /\ dbgz.kind = "db"
    BY <2>1, DbNames
  <2>3. Copying(p)'
    BY <2>1, <2>2, <1>2 DEF WorksOn, Copying, RunWrites, Exists
  <2>4. ASSUME m[p].file # None  PROVE FileOf(p, m[p].file)' /\ GzOf(p, Gz(m[p].file))'
    <3>1. PICK file \in Names, gz \in Names : file = m[p].file /\ gz = Gz(file) /\ gz.gz
      BY <2>1, <2>4, GzOfName
    <3>2. FileOf(p, file) /\ GzOf(p, gz)
      BY <1>2, <2>1, <2>4, <3>1 DEF WorksOn
    <3>3. FileOf(p, file)' /\ GzOf(p, gz)'
      BY <2>1, <3>1, <3>2 DEF FileOf, GzOf, RunWrites, Exists
    <3> QED  BY <2>1, <3>1, <3>3
  <2> QED  BY <1>2, <2>1, <2>3, <2>4 DEF WorksOn
<1> QED  BY <1>1, <1>2

\* Once it is seen that p goes on soundly there is no other one to look at.
LEMMA OthersIdle ==
    ASSUME NEW p \in Maintainers, \A q \in Maintainers : q # p => m'[q] = None, WorksOn(p)'
    PROVE  \A q \in Maintainers : WorksOn(q)'
<1>1. ASSUME NEW q \in Maintainers, q # p  PROVE WorksOn(q)'
  BY <1>1 DEF WorksOn
<1> QED  BY <1>1

LEMMA WorksOfProcess ==
    ASSUME MaintenanceInv, NEW p \in Maintainers, ProcessRawFile(p)
    PROVE  WorksOn(p)'
<1>0. WorksOn(p) /\ m[p] # None /\ m[p].stage = "raw" /\ m[p].file = None /\ m[p].now \in Nat
  BY ProcessDoes, AtWork DEF MaintenanceInv
<1>1. PICK name \in m[p].todo :
              LET age == m[p].now - name.day IN
              /\ name \in Names
              /\ \/ Moved(p, "raw", m[p].todo \ {name}, None, m[p].step)
                 \/ /\ Exists(name) /\ ~name.gz
                    /\ age < RAW_COMPRESSED_RETENTION_DAYS /\ age >= RAW_UNCOMPRESSED_DAYS
                    /\ UNCHANGED files /\ Moved(p, "raw", m[p].todo \ {name}, name, "open")
  BY ProcessDoes
<1>2. name.kind = "raw" /\ name # None
  BY <1>0, <1>1, NoneIsNothing DEF WorksOn
<1>3. m'[p].todo = m[p].todo \ {name} /\ m'[p].stage = "raw" /\ m'[p].now = m[p].now
  BY <1>1 DEF Moved
<1>4. Copying(p)' /\ (m'[p].stage # "copying" /\ m'[p].stage # "log") /\ \A x \in m'[p].todo : x.kind = "raw"
  BY <1>0, <1>3 DEF Copying, WorksOn
<1>5. CASE m'[p].file = None
  BY <1>3, <1>4, <1>5 DEF WorksOn
<1>6. CASE m'[p].file # None
  <2>1. m'[p].file = name /\ m'[p].step = "open" /\ UNCHANGED files /\ Exists(name) /\ ~name.gz
        /\ m[p].now - name.day < RAW_COMPRESSED_RETENTION_DAYS /\ m[p].now - name.day >= RAW_UNCOMPRESSED_DAYS
    BY <1>1, <1>6 DEF Moved
  <2>2. FileOf(p, name)'
    BY <1>2, <1>3, <2>1, NoneIsNothing DEF FileOf, Exists
  <2>3. \A gz : GzOf(p, gz)'
    BY <1>3, <2>1 DEF GzOf
  <2> QED  BY <1>3, <1>4, <2>1, <2>2, <2>3 DEF WorksOn
<1> QED  BY <1>5, <1>6

LEMMA WorksOfOpen ==
    ASSUME MaintenanceInv, NEW p \in Maintainers, OpenGz(p)
    PROVE  WorksOn(p)'
<1>0. WorksOn(p) /\ m[p] # None /\ m[p].file \in Names /\ m[p].file # None
  BY OpenDoes, NoneIsNothing DEF MaintenanceInv, OpenGz
<1>1. PICK file \in Names, gz \in Names : file = m[p].file /\ gz = Gz(file) /\ gz.gz
  BY <1>0, GzOfName
<1>2. PICK f : f = File({}, FALSE) /\ ~f.whole
  BY FileOfToday DEF MaintenanceInv, Typed
<1>3. DOMAIN files' = DOMAIN files \cup {gz} /\ files'[gz] = f /\ \A x \in DOMAIN files : x # gz => files'[x] = files[x]
  BY <1>1, <1>2, OpenDoes DEF Written
<1>4. m'[p].stage = m[p].stage /\ m'[p].now = m[p].now /\ m'[p].todo = m[p].todo /\ m'[p].file = file
      /\ m'[p].step = "copy"
  BY <1>1, OpenDoes DEF Moved
<1>5. FileOf(p, file)
  BY <1>0, <1>1 DEF WorksOn
<1>6. FileOf(p, file)'
  BY <1>3, <1>4, <1>5 DEF FileOf, Exists
<1>7. GzOf(p, gz)'
  BY <1>2, <1>3, <1>4 DEF GzOf, Exists
<1>8. m[p].stage \in {"raw", "log", "db"}
  BY <1>5 DEF FileOf
<1> QED  BY <1>0, <1>1, <1>4, <1>6, <1>7, <1>8 DEF WorksOn, Copying

LEMMA WorksOfCopy ==
    ASSUME MaintenanceInv, NEW p \in Maintainers, CopyToGz(p)
    PROVE  WorksOn(p)'
<1>0. WorksOn(p) /\ m[p] # None /\ m[p].file \in Names /\ m[p].file # None /\ Exists(m[p].file)
  BY CopyDoes, NoneIsNothing DEF MaintenanceInv, CopyToGz
<1>1. PICK file \in Names, gz \in Names : file = m[p].file /\ gz = Gz(file) /\ gz.gz
  BY <1>0, GzOfName
<1>2. PICK content \in SUBSET Nat : content = files[file].content
  BY <1>0, <1>1 DEF MaintenanceInv, Typed, FilesTyped, Exists, Contents
<1>3. PICK f : f = File(content, TRUE) /\ f.whole
  BY FileOfToday DEF MaintenanceInv, Typed
<1>4. DOMAIN files' = DOMAIN files \cup {gz} /\ files'[gz] = f /\ \A x \in DOMAIN files : x # gz => files'[x] = files[x]
  BY <1>1, <1>2, <1>3, CopyDoes DEF Written
<1>5. m'[p].stage = m[p].stage /\ m'[p].now = m[p].now /\ m'[p].todo = m[p].todo /\ m'[p].file = file
      /\ m'[p].step = "unlink"
  BY <1>1, CopyDoes DEF Moved
<1>6. FileOf(p, file)
  BY <1>0, <1>1 DEF WorksOn
<1>7. FileOf(p, file)'
  BY <1>4, <1>5, <1>6 DEF FileOf, Exists
<1>8. GzOf(p, gz)'
  BY <1>3, <1>4, <1>5 DEF GzOf, Exists
<1>9. m[p].stage \in {"raw", "log", "db"}
  BY <1>6 DEF FileOf
<1> QED  BY <1>0, <1>1, <1>5, <1>7, <1>8, <1>9 DEF WorksOn, Copying

LEMMA WorksOfStep ==
    ASSUME MaintenanceInv, Next
    PROVE  \A p \in Maintainers : WorksOn(p)'
<1>0. \A p \in Maintainers : WorksOn(p)
  BY DEF MaintenanceInv
<1>1. CASE NextDay
  BY <1>0, <1>1 DEF NextDay, WorksOn, FileOf, GzOf, Copying, Exists
<1>2. CASE StartRun \/ Capture \/ Finish \/ KillRun
  BY <1>2, RunsWrite, WorksUnderRuns
<1>3. ASSUME NEW p \in Maintainers, StartMaintenance(p)  PROVE \A q \in Maintainers : WorksOn(q)'
  <2>1. \A x \in Named("raw") : x.kind = "raw"
    BY DEF Named
  <2>2. WorksOn(p)'
    BY <1>3, <2>1, StartDoes DEF WorksOn, Copying
  <2> QED  BY <1>3, <2>2, StartDoes, OthersIdle
<1>4. ASSUME NEW p \in Maintainers, KillMaintenance(p)  PROVE \A q \in Maintainers : WorksOn(q)'
  BY <1>4, KillDoes DEF WorksOn
<1>5. ASSUME NEW p \in Maintainers, ProcessRawFile(p)  PROVE \A q \in Maintainers : WorksOn(q)'
  BY <1>5, ProcessDoes, WorksOfProcess, OthersIdle DEF Moved
<1>6. ASSUME NEW p \in Maintainers, OpenGz(p)  PROVE \A q \in Maintainers : WorksOn(q)'
  BY <1>6, OpenDoes, WorksOfOpen, OthersIdle DEF Moved
<1>7. ASSUME NEW p \in Maintainers, CopyToGz(p)  PROVE \A q \in Maintainers : WorksOn(q)'
  BY <1>7, CopyDoes, WorksOfCopy, OthersIdle DEF Moved
<1>8. ASSUME NEW p \in Maintainers, UnlinkPlain(p)  PROVE \A q \in Maintainers : WorksOn(q)'
  <2>1. WorksOn(p)'
    BY <1>0, <1>8, UnlinkDoes DEF Moved, WorksOn, Copying
  <2> QED  BY <1>8, <2>1, UnlinkDoes, OthersIdle DEF Moved
<1>9. ASSUME NEW p \in Maintainers, RotateLogIfNeeded(p)  PROVE \A q \in Maintainers : WorksOn(q)'
  <2>1. CASE Moved(p, "purge", {}, None, m[p].step)
    <3>1. WorksOn(p)'
      BY <2>1 DEF Moved, WorksOn, Copying
    <3> QED  BY <2>1, <3>1, OthersIdle DEF Moved
  <2>2. CASE ~Moved(p, "purge", {}, None, m[p].step)
    <3>1. PICK name \in Names :
                 /\ name.kind = "log" /\ ~name.gz /\ ~Exists(Gz(name))
                 /\ DOMAIN files' = (DOMAIN files \ {Active}) \cup {name}
                 /\ Moved(p, "log", {}, name, "open")
      BY <1>9, <2>2, RotateDoes
    <3>2. PICK gz \in Names : gz = Gz(name) /\ gz.gz
      BY GzOfName
    <3>3. m'[p].stage = "log" /\ m'[p].todo = {} /\ m'[p].file = name /\ m'[p].step = "open" /\ name # None
      BY <3>1, NoneIsNothing DEF Moved
    <3>4. FileOf(p, name)'
      BY <3>1, <3>3 DEF FileOf, Exists
    <3>5. GzOf(p, gz)'
      BY <3>1, <3>2, <3>3 DEF GzOf, Exists
    <3>6. WorksOn(p)'
      BY <3>2, <3>3, <3>4, <3>5 DEF WorksOn, Copying
    <3> QED  BY <3>1, <3>6, OthersIdle DEF Moved
  <2> QED  BY <2>1, <2>2
<1>10. ASSUME NEW p \in Maintainers, PurgeOldLogs(p)  PROVE \A q \in Maintainers : WorksOn(q)'
  <2>1. WorksOn(p)'
    BY <1>0, <1>10, PurgeDoes DEF Moved, WorksOn, Copying
  <2> QED  BY <1>10, <2>1, PurgeDoes, OthersIdle DEF Moved
<1>11. ASSUME NEW p \in Maintainers, BackupDatabase(p)  PROVE \A q \in Maintainers : WorksOn(q)'
  <2>1. CASE Moved(p, "prune", m[p].todo, None, m[p].step)
    <3>1. WorksOn(p)'
      BY <1>0, <1>11, <2>1, BackupDoes DEF Moved, WorksOn, Copying
    <3> QED  BY <2>1, <3>1, OthersIdle DEF Moved
  <2>2. CASE ~Moved(p, "prune", m[p].todo, None, m[p].step)
    <3>1. m[p].stage = "backup" /\ ~BackedUp(m[p].now) /\ Moved(p, "copying", m[p].todo, None, m[p].step)
          /\ Written(Plain("db", m[p].now, 0), File({}, FALSE))
      BY <1>11, <2>2, BackupDoes
    <3>2. m[p].now \in Nat /\ m'[p].now = m[p].now
      BY <3>1, AtWork DEF Moved
    <3>3. PICK db \in Names, gz \in Names : db = Plain("db", m[p].now, 0) /\ gz = Gz(db) /\ db # gz
      BY <3>2, DbNames
    <3>4. PICK f : f = File({}, FALSE) /\ ~f.whole
      BY FileOfToday DEF MaintenanceInv, Typed
    <3>5. db \in DOMAIN files' /\ files'[db] = f /\ gz \notin DOMAIN files'
      BY <3>1, <3>3, <3>4 DEF Written, BackedUp, Exists
    <3>6. Copying(p)'
      BY <3>2, <3>3, <3>4, <3>5 DEF Copying, Exists
    <3>7. WorksOn(p)'
      BY <1>0, <3>1, <3>6 DEF WorksOn, Moved
    <3> QED  BY <3>1, <3>7, OthersIdle DEF Moved
  <2> QED  BY <2>1, <2>2
<1>12. ASSUME NEW p \in Maintainers, CopyDatabase(p)  PROVE \A q \in Maintainers : WorksOn(q)'
  <2>1. m[p].stage = "copying" /\ Moved(p, "db", m[p].todo, Plain("db", m[p].now, 0), "open")
        /\ Written(Plain("db", m[p].now, 0), File({commits}, TRUE))
    BY <1>12, CopyDatabaseDoes
  <2>2. m[p].now \in Nat /\ m'[p].now = m[p].now /\ m[p] # None
    BY <2>1, AtWork DEF Moved
  <2>3. PICK db \in Names, gz \in Names :
          db = Plain("db", m[p].now, 0) /\ gz = Gz(db) /\ db # gz /\ db.kind = "db" /\ ~db.gz /\ db # None
    BY <2>2, DbNames, NoneIsNothing
  <2>4. db \in DOMAIN files' /\ gz \notin DOMAIN files'
    BY <1>0, <2>1, <2>2, <2>3 DEF Written, WorksOn, Copying, Exists
  <2>5. m'[p].stage = "db" /\ m'[p].todo = m[p].todo /\ m'[p].file = db /\ m'[p].step = "open"
    BY <2>1, <2>3 DEF Moved
  <2>6. FileOf(p, db)'
    BY <2>2, <2>3, <2>4, <2>5 DEF FileOf, Exists
  <2>7. GzOf(p, gz)'
    BY <2>4, <2>5 DEF GzOf, Exists
  <2>8. WorksOn(p)'
    BY <1>0, <2>1, <2>2, <2>3, <2>5, <2>6, <2>7 DEF WorksOn, Copying
  <2> QED  BY <2>1, <2>8, OthersIdle DEF Moved
<1>13. ASSUME NEW p \in Maintainers, PruneOldBackups(p)  PROVE \A q \in Maintainers : WorksOn(q)'
  BY <1>13, PruneDoes DEF WorksOn
<1> QED  BY <1>1, <1>2, <1>3, <1>4, <1>5, <1>6, <1>7, <1>8, <1>9, <1>10, <1>11, <1>12, <1>13 DEF Next, Maintenance
-----------------------------------------------------------------------------
(* The raw captures *)

\* The uncompressed file of the name of x.
Twin(x, d) ==
    /\ x \in Names /\ d \in Names /\ d = Day(x) /\ x.kind = "raw" /\ d.kind = "raw"
    /\ x.day \in Nat /\ d.day = x.day /\ ~d.gz
    /\ x.gz => x = Gz(d)
    /\ ~x.gz => x = d

LEMMA TwinOf ==
    ASSUME NEW x \in Names, x.kind = "raw"
    PROVE  \E d : Twin(x, d)
<1>1. PICK d \in Names : d = Day(x)
  BY NamesOfFiles
<1> QED  BY <1>1, NamesOfFiles DEF Twin

\* A file is over its time when this does not hold.
InTime(x) ==
    /\ day - x.day < RAW_COMPRESSED_RETENTION_DAYS
    /\ ~x.gz => day - x.day < RAW_UNCOMPRESSED_DAYS
    /\ files[x].whole

\* What is known of one file.
LEMMA RawOfOne ==
    ASSUME MaintenanceInv, NEW x, NEW d, Twin(x, d), x \in DOMAIN files
    PROVE  /\ Sound(x, d)
           /\ \A p \in Maintainers : m[p] # None /\ m[p].now = day => Settled(p, x, d)
           /\ completed = day => InTime(x)
           /\ x.day <= day /\ files[x].whole \in BOOLEAN
<1>1. x \in Named("raw") /\ d = Day(x) /\ x.kind = "raw"
  BY DEF Named, Twin
<1>2. Sound(x, d)
  BY <1>1 DEF MaintenanceInv, RawSound
<1>3. \A p \in Maintainers : m[p] # None /\ m[p].now = day => Settled(p, x, d)
  BY <1>1 DEF MaintenanceInv, RawSettled
<1>4. completed = day => InTime(x)
  BY <1>1 DEF MaintenanceInv, RetentionKept, InTime
<1>5. x.day <= day /\ files[x].whole \in BOOLEAN
  BY DEF MaintenanceInv, Typed, FilesTyped, Contents
<1> QED  BY <1>2, <1>3, <1>4, <1>5

\* It is enough to look at one file.
LEMMA RawOfAll ==
    ASSUME FilesTyped',
           \A x, d : Twin(x, d) /\ x \in DOMAIN files' =>
              /\ Sound(x, d)'
              /\ \A p \in Maintainers : m'[p] # None /\ m'[p].now = day' => Settled(p, x, d)'
              /\ completed' = day' => InTime(x)'
    PROVE  RawSound' /\ RawSettled' /\ RetentionKept'
<1>1. ASSUME NEW x \in Named("raw")'
      PROVE  /\ Sound(x, Day(x))'
             /\ \A p \in Maintainers : m'[p] # None /\ m'[p].now = day' => Settled(p, x, Day(x))'
             /\ completed' = day' => InTime(x)'
  <2>1. x \in DOMAIN files' /\ x.kind = "raw" /\ x \in Names
    BY <1>1 DEF Named, FilesTyped
  <2>2. PICK d : Twin(x, d)
    BY <2>1, TwinOf
  <2>3. /\ Sound(x, d)'
        /\ \A p \in Maintainers : m'[p] # None /\ m'[p].now = day' => Settled(p, x, d)'
        /\ completed' = day' => InTime(x)'
    BY <2>1, <2>2
  <2>4. d = Day(x)
    BY <2>2 DEF Twin
  <2> QED  BY <2>3, <2>4
<1>2. RawSound'
  BY <1>1 DEF RawSound
<1>3. RawSettled'
  BY <1>1 DEF RawSettled
<1>4. RetentionKept'
  BY <1>1 DEF RetentionKept, InTime
<1> QED  BY <1>2, <1>3, <1>4

RawUntouched ==
    \A x \in Names : x.kind = "raw" => /\ x \in DOMAIN files' <=> x \in DOMAIN files
                                       /\ x \in DOMAIN files => files'[x] = files[x]

\* Who works still works, and has no raw file less to do.
RawLeft ==
    \A p \in Maintainers : m'[p] # None =>
        /\ m[p] # None /\ m'[p].now = m[p].now
        /\ \A x \in Names : x.kind = "raw" /\ Pending(p, x) => Pending(p, x)'

LEMMA RawStays ==
    ASSUME MaintenanceInv, FilesTyped', RawUntouched, RawLeft, day' = day, completed' = completed
    PROVE  RawSound' /\ RawSettled' /\ RetentionKept'
<1>1. ASSUME NEW x, NEW d, Twin(x, d), x \in DOMAIN files'
      PROVE  /\ Sound(x, d)'
             /\ \A p \in Maintainers : m'[p] # None /\ m'[p].now = day' => Settled(p, x, d)'
             /\ completed' = day' => InTime(x)'
  <2>1. x \in DOMAIN files /\ files'[x] = files[x] /\ (Exists(d) <=> Exists(d)')
    BY <1>1 DEF RawUntouched, Twin, Exists
  <2>2. Sound(x, d)'
    BY <1>1, <2>1, RawOfOne DEF Sound
  <2>3. ASSUME NEW p \in Maintainers, m'[p] # None, m'[p].now = day'  PROVE Settled(p, x, d)'
    <3>1. Settled(p, x, d) /\ (Pending(p, x) => Pending(p, x)') /\ (Pending(p, d) => Pending(p, d)')
      BY <1>1, <2>1, <2>3, RawOfOne DEF RawLeft, Twin
    <3> QED  BY <2>1, <3>1 DEF Settled
  <2>4. completed' = day' => InTime(x)'
    BY <1>1, <2>1, RawOfOne DEF InTime
  <2> QED  BY <2>2, <2>3, <2>4
<1> QED  BY <1>1, RawOfAll

LEMMA RawUnderRuns ==
    ASSUME MaintenanceInv, FilesTyped', NEW name, RunWrites(name)
    PROVE  RawSound' /\ RawSettled' /\ RetentionKept'
<1>1. ASSUME NEW x, NEW d, Twin(x, d), x \in DOMAIN files'
      PROVE  /\ Sound(x, d)'
             /\ \A p \in Maintainers : m'[p] # None /\ m'[p].now = day' => Settled(p, x, d)'
             /\ completed' = day' => InTime(x)'
  <2>0. day \in Nat /\ UNCHANGED <<day, m, completed>>
    BY DEF MaintenanceInv, Typed, RunWrites
  <2>1. CASE x = name
    <3>1. x.day = day \/ UNCHANGED files
      BY <1>1, <2>1 DEF RunWrites, Twin
    <3>2. CASE UNCHANGED files
      BY <1>1, <2>0, <3>2, RawOfOne DEF Sound, Settled, Pending, InTime, Exists
    <3>3. CASE ~UNCHANGED files
      <4>1. files'[x].whole /\ ~x.gz /\ x.day = day
        BY <2>1, <3>1, <3>3 DEF RunWrites
      <4>2. InTime(x)'
        BY <2>0, <4>1, MaintenanceAssumption DEF InTime, MIN_FILE_AGE_DAYS
      <4> QED  BY <4>1, <4>2 DEF Sound, Settled, InTime
    <3> QED  BY <3>2, <3>3
  <2>2. CASE x # name
    <3>1. x \in DOMAIN files /\ files'[x] = files[x] /\ (Exists(d) => Exists(d)')
      BY <1>1, <2>2 DEF RunWrites, Exists
    <3> QED  BY <1>1, <2>0, <3>1, RawOfOne DEF Sound, Settled, Pending, InTime
  <2> QED  BY <2>1, <2>2
<1> QED  BY <1>1, RawOfAll

LEMMA RawOfStart ==
    ASSUME MaintenanceInv, FilesTyped', NEW p \in Maintainers, StartMaintenance(p)
    PROVE  RawSound' /\ RawSettled' /\ RetentionKept'
<1>1. ASSUME NEW x, NEW d, Twin(x, d), x \in DOMAIN files'
      PROVE  /\ Sound(x, d)'
             /\ \A q \in Maintainers : m'[q] # None /\ m'[q].now = day' => Settled(q, x, d)'
             /\ completed' = day' => InTime(x)'
  <2>1. UNCHANGED <<files, day, completed>> /\ m'[p].todo = Named("raw") /\ \A q \in Maintainers : m'[q] # None => q = p
    BY StartDoes
  <2>2. x \in m'[p].todo
    BY <1>1, <2>1 DEF Named, Twin
  <2> QED  BY <1>1, <2>1, <2>2, RawOfOne DEF Sound, Settled, Pending, InTime, Exists
<1> QED  BY <1>1, RawOfAll

\* What is kept is in time; what goes is over its time; what is to be compressed is in hand.
LEMMA RawOfProcess ==
    ASSUME MaintenanceInv, FilesTyped', NEW p \in Maintainers, ProcessRawFile(p)
    PROVE  RawSound' /\ RawSettled' /\ RetentionKept'
<1>0. /\ m[p] # None /\ m[p].file = None /\ m[p].now \in Nat /\ m[p].now <= day /\ day \in Nat
      /\ UNCHANGED <<day, completed>>
  BY ProcessDoes, AtWork DEF MaintenanceInv, Typed
<1>1. PICK name \in m[p].todo :
              LET age == m[p].now - name.day IN
              /\ name \in Names
              /\ \/ /\ ~Exists(name) \/ age < MIN_FILE_AGE_DAYS
                       \/ (age < RAW_COMPRESSED_RETENTION_DAYS /\ (name.gz \/ age < RAW_UNCOMPRESSED_DAYS))
                    /\ UNCHANGED files /\ Moved(p, "raw", m[p].todo \ {name}, None, m[p].step)
                 \/ /\ age >= RAW_COMPRESSED_RETENTION_DAYS /\ Exists(name)
                    /\ Removed({name}) /\ Moved(p, "raw", m[p].todo \ {name}, None, m[p].step)
                 \/ /\ Exists(name) /\ ~name.gz
                    /\ age < RAW_COMPRESSED_RETENTION_DAYS /\ age >= RAW_UNCOMPRESSED_DAYS
                    /\ UNCHANGED files /\ Moved(p, "raw", m[p].todo \ {name}, name, "open")
  BY ProcessDoes
<1>2. name \in Names /\ name.day \in Nat /\ m'[p].now = m[p].now /\ m'[p].todo = m[p].todo \ {name}
      /\ \A q \in Maintainers : m'[q] # None => q = p
  BY <1>1, NamesOfFiles DEF Moved
<1>3. PICK age \in Int : age = m[p].now - name.day
  BY <1>0, <1>2
<1>4. CASE UNCHANGED files /\ m'[p].file = name
  <2>1. RawUntouched /\ RawLeft
    BY <1>0, <1>2, <1>4, NoneIsNothing DEF RawUntouched, RawLeft, Pending
  <2> QED  BY <1>0, <2>1, RawStays
<1>5. CASE age >= RAW_COMPRESSED_RETENTION_DAYS /\ Removed({name})
  <2>1. ASSUME NEW x, NEW d, Twin(x, d), x \in DOMAIN files'
        PROVE  /\ Sound(x, d)'
               /\ \A q \in Maintainers : m'[q] # None /\ m'[q].now = day' => Settled(q, x, d)'
               /\ completed' = day' => InTime(x)'
    <3>1. x \in DOMAIN files /\ x # name /\ files'[x] = files[x] /\ (d # name /\ Exists(d) => Exists(d)')
      BY <1>5, <2>1 DEF Removed, Exists
    <3>2. d = name => day - x.day >= RAW_COMPRESSED_RETENTION_DAYS
      BY <1>0, <1>2, <1>3, <1>5, <2>1, MaintenanceAssumption DEF Twin
    <3>3. Sound(x, d)'
      BY <1>0, <2>1, <3>1, <3>2, RawOfOne DEF Sound
    <3>4. ASSUME NEW q \in Maintainers, m'[q] # None, m'[q].now = day'  PROVE Settled(q, x, d)'
      <4>1. q = p /\ Settled(p, x, d)
        BY <1>0, <1>2, <2>1, <3>1, <3>4, RawOfOne
      <4>2. Pending(p, x) => Pending(p, x)'
        BY <1>0, <1>2, <2>1, <3>1, NoneIsNothing DEF Pending, Twin
      <4>3. d # name /\ Pending(p, d) => Pending(p, d)'
        BY <1>0, <1>2, <2>1, NoneIsNothing DEF Pending, Twin
      <4>4. Settled(p, x, d)'
        BY <1>0, <2>1, <3>1, <3>2, <4>1, <4>2, <4>3, MaintenanceAssumption DEF Settled, Twin
      <4> QED  BY <4>1, <4>4
    <3>5. completed' = day' => InTime(x)'
      BY <1>0, <2>1, <3>1, RawOfOne DEF InTime
    <3> QED  BY <3>3, <3>4, <3>5
  <2> QED  BY <2>1, RawOfAll
<1>6. CASE /\ ~Exists(name) \/ age < MIN_FILE_AGE_DAYS
                   \/ (age < RAW_COMPRESSED_RETENTION_DAYS /\ (name.gz \/ age < RAW_UNCOMPRESSED_DAYS))
           /\ UNCHANGED files
  <2>1. ASSUME NEW x, NEW d, Twin(x, d), x \in DOMAIN files'
        PROVE  /\ Sound(x, d)'
               /\ \A q \in Maintainers : m'[q] # None /\ m'[q].now = day' => Settled(q, x, d)'
               /\ completed' = day' => InTime(x)'
    <3>1. x \in DOMAIN files /\ files'[x] = files[x] /\ (Exists(d) <=> Exists(d)')
      BY <1>6, <2>1 DEF Exists
    <3>2. Sound(x, d) /\ files[x].whole \in BOOLEAN
      BY <2>1, <3>1, RawOfOne
    <3>3. ASSUME NEW q \in Maintainers, m'[q] # None, m'[q].now = day'  PROVE Settled(q, x, d)'
      <4>1. q = p /\ Settled(p, x, d) /\ age = day - name.day
        BY <1>0, <1>2, <1>3, <2>1, <3>1, <3>3, RawOfOne
      <4>2. x # name /\ Pending(p, x) => Pending(p, x)'
        BY <1>0, <1>2, <2>1, NoneIsNothing DEF Pending, Twin
      <4>3. d # name /\ Pending(p, d) => Pending(p, d)'
        BY <1>0, <1>2, <2>1, NoneIsNothing DEF Pending, Twin
      <4>4. CASE x # name /\ d # name
        BY <1>0, <3>1, <4>1, <4>2, <4>3, <4>4 DEF Settled
      <4>5. CASE x # name /\ d = name
        <5>1. x.gz /\ day - x.day >= RAW_UNCOMPRESSED_DAYS /\ day - x.day = age /\ ~name.gz
          BY <2>1, <3>2, <4>1, <4>5 DEF Sound, Twin
        <5>2. ~(Exists(d) /\ Pending(p, d)) \/ age >= RAW_COMPRESSED_RETENTION_DAYS
          BY <1>6, <4>5, <5>1, MaintenanceAssumption DEF MIN_FILE_AGE_DAYS
        <5> QED  BY <1>0, <3>1, <4>1, <4>2, <4>5, <5>1, <5>2, MaintenanceAssumption DEF Settled
      <4>6. CASE x = name /\ x.gz
        <5>1. day - x.day >= RAW_UNCOMPRESSED_DAYS /\ day - x.day = age /\ d # name
          BY <2>1, <3>2, <4>1, <4>6 DEF Sound, Twin
        <5>2. age < RAW_COMPRESSED_RETENTION_DAYS /\ Exists(name)
          BY <1>6, <3>1, <4>6, <5>1, MaintenanceAssumption DEF MIN_FILE_AGE_DAYS, Exists
        <5>3. files[x].whole \/ Exists(d)
          BY <3>2, <4>6, <5>1, <5>2, MaintenanceAssumption DEF Sound
        <5>4. ASSUME Exists(d)  PROVE Pending(p, d)
          <6>1. Twin(d, d)
            BY <2>1, NamesOfFiles DEF Twin
          <6>2. Settled(p, d, d)
            BY <1>0, <3>3, <4>1, <5>4, <6>1, RawOfOne, <1>2 DEF Exists
          <6> QED  BY <2>1, <5>1, <6>2, MaintenanceAssumption DEF Settled, Twin
        <5> QED  BY <1>0, <3>1, <4>1, <4>3, <4>6, <5>1, <5>2, <5>3, <5>4 DEF Settled
      <4>7. CASE x = name /\ ~x.gz
        <5>1. files[x].whole /\ Exists(name) /\ day - x.day = age
          BY <3>1, <3>2, <4>1, <4>7 DEF Sound, Exists
        <5>2. age < RAW_UNCOMPRESSED_DAYS /\ age < RAW_COMPRESSED_RETENTION_DAYS
          BY <1>6, <4>7, <5>1, MaintenanceAssumption DEF MIN_FILE_AGE_DAYS
        <5> QED  BY <1>0, <3>1, <5>1, <5>2 DEF Settled
      <4> QED  BY <4>4, <4>5, <4>6, <4>7
    <3>4. completed' = day' => InTime(x)'
      BY <1>0, <2>1, <3>1, RawOfOne DEF InTime
    <3>5. Sound(x, d)'
      BY <1>0, <3>1, <3>2 DEF Sound
    <3> QED  BY <3>3, <3>4, <3>5
  <2> QED  BY <2>1, RawOfAll
<1> QED  BY <1>1, <1>3, <1>4, <1>5, <1>6 DEF Moved

\* A compression of anything else leaves the captures alone.
LEMMA RawOfOther ==
    ASSUME MaintenanceInv, FilesTyped', NEW p \in Maintainers, NEW name \in Names, name.kind # "raw",
           \A x \in Names : x # name => /\ x \in DOMAIN files' <=> x \in DOMAIN files
                                        /\ x \in DOMAIN files => files'[x] = files[x],
           m[p] # None, m'[p].now = m[p].now, m'[p].todo = m[p].todo,
           m'[p].file = m[p].file \/ m'[p].file = None,
           m[p].stage # "raw",
           \A q \in Maintainers : q # p => m'[q] = None,
           UNCHANGED <<day, completed>>
    PROVE  RawSound' /\ RawSettled' /\ RetentionKept'
<1>1. RawUntouched
  BY DEF RawUntouched
<1>2. WorksOn(p)
  BY DEF MaintenanceInv
<1>3. \A x \in Names : x.kind = "raw" => ~Pending(p, x)
  <2>1. m[p].todo = {}
    BY <1>2 DEF WorksOn
  <2>2. m[p].file # None => m[p].file.kind # "raw"
    <3>1. ASSUME m[p].file # None  PROVE m[p].file.kind # "raw"
      <4>1. FileOf(p, m[p].file) /\ m[p].now \in Nat
        BY <1>2, <3>1, AtWork DEF WorksOn
      <4> QED  BY <4>1, DbNames DEF FileOf
    <3> QED  BY <3>1
  <2> QED  BY <2>1, <2>2, NoneIsNothing DEF Pending
<1>4. RawLeft
  BY <1>3 DEF RawLeft
<1> QED  BY <1>1, <1>4, RawStays

LEMMA RawOfOpen ==
    ASSUME MaintenanceInv, FilesTyped', NEW p \in Maintainers, OpenGz(p)
    PROVE  RawSound' /\ RawSettled' /\ RetentionKept'
<1>0. /\ m[p] # None /\ m[p].file \in Names /\ m[p].file # None /\ m[p].now \in Nat /\ m[p].now <= day /\ day \in Nat
      /\ completed <= m[p].now /\ completed \in Int /\ UNCHANGED <<day, completed>>
  BY OpenDoes, AtWork, NoneIsNothing DEF MaintenanceInv, Typed, OpenGz
<1>1. PICK file \in Names, gz \in Names : file = m[p].file /\ gz = Gz(file) /\ gz.gz /\ gz.kind = file.kind
  BY <1>0, GzOfName
<1>2. PICK f : f = File({}, FALSE)
  OBVIOUS
<1>3. DOMAIN files' = DOMAIN files \cup {gz} /\ files'[gz] = f /\ \A x \in DOMAIN files : x # gz => files'[x] = files[x]
  BY <1>1, <1>2, OpenDoes DEF Written
<1>4. m'[p].now = m[p].now /\ m'[p].todo = m[p].todo /\ m'[p].file = m[p].file /\ m[p].file = file
      /\ \A q \in Maintainers : q # p => m'[q] = None
  BY <1>1, OpenDoes DEF Moved
<1>5. FileOf(p, file)
  BY <1>0, <1>1 DEF MaintenanceInv, WorksOn
<1>6. CASE m[p].stage # "raw"
  <2>1. file.kind # "raw"
    BY <1>0, <1>5, <1>6, DbNames DEF FileOf
  <2> QED  BY <1>0, <1>1, <1>3, <1>4, <1>6, <2>1, RawOfOther
<1>7. CASE m[p].stage = "raw"
  <2>0. /\ file.kind = "raw" /\ m[p].now - file.day >= RAW_UNCOMPRESSED_DAYS
        /\ m[p].now - file.day < RAW_COMPRESSED_RETENTION_DAYS /\ Exists(file) /\ ~file.gz /\ file.day \in Nat
    BY <1>5, <1>7, NamesOfFiles DEF FileOf
  <2>1. Twin(file, file) /\ Twin(gz, file)
    BY <1>1, <2>0, NamesOfFiles DEF Twin
  <2>2. completed # day
    <3>1. SUFFICES ASSUME completed = day  PROVE FALSE
      OBVIOUS
    <3>2. InTime(file)
      BY <2>0, <2>1, <3>1, RawOfOne DEF Exists
    <3>3. m[p].now = day
      BY <1>0, <3>1
    <3> QED  BY <1>0, <2>0, <3>2, <3>3, MaintenanceAssumption DEF InTime
  <2>3. ASSUME NEW x, NEW d, Twin(x, d), x \in DOMAIN files'
        PROVE  /\ Sound(x, d)'
               /\ \A q \in Maintainers : m'[q] # None /\ m'[q].now = day' => Settled(q, x, d)'
               /\ completed' = day' => InTime(x)'
    <3>1. Exists(d) => Exists(d)'
      BY <1>3 DEF Exists
    <3>2. Pending(p, d) => Pending(p, d)'
      BY <1>4 DEF Pending
    <3>3. CASE x = gz
      <4>1. d = file
        BY <1>1, <2>0, <2>1, <2>3, <3>3 DEF Twin
      <4>2. Exists(d) /\ Exists(d)' /\ Pending(p, d)'
        BY <1>4, <2>0, <3>1, <4>1 DEF Pending
      <4>3. x.gz /\ x.day = file.day
        BY <2>1, <3>3, <1>1 DEF Twin
      <4>4. Sound(x, d)'
        BY <1>0, <2>0, <4>2, <4>3, MaintenanceAssumption DEF Sound
      <4>5. ASSUME m'[p].now = day'  PROVE Settled(p, x, d)'
        BY <1>0, <1>4, <2>0, <4>2, <4>3, <4>5, MaintenanceAssumption DEF Settled
      <4> QED  BY <1>0, <1>4, <2>2, <4>4, <4>5
    <3>4. CASE x # gz
      <4>1. x \in DOMAIN files /\ files'[x] = files[x]
        BY <1>3, <2>3, <3>4
      <4>2. Sound(x, d)'
        BY <1>0, <2>3, <3>1, <4>1, RawOfOne DEF Sound
      <4>3. ASSUME m'[p].now = day'  PROVE Settled(p, x, d)'
        <5>1. Settled(p, x, d) /\ (Pending(p, x) => Pending(p, x)')
          BY <1>0, <1>4, <2>3, <4>1, <4>3, RawOfOne DEF Pending
        <5> QED  BY <1>0, <3>1, <3>2, <4>1, <5>1 DEF Settled
      <4> QED  BY <1>0, <1>4, <2>2, <4>2, <4>3
    <3> QED  BY <3>3, <3>4
  <2> QED  BY <2>3, RawOfAll
<1> QED  BY <1>6, <1>7

LEMMA RawOfCopy ==
    ASSUME MaintenanceInv, FilesTyped', NEW p \in Maintainers, CopyToGz(p)
    PROVE  RawSound' /\ RawSettled' /\ RetentionKept'
<1>0. /\ m[p] # None /\ m[p].file \in Names /\ m[p].file # None /\ m[p].now \in Nat /\ m[p].now <= day /\ day \in Nat
      /\ UNCHANGED <<day, completed>> /\ m[p].step = "copy"
  BY CopyDoes, AtWork, NoneIsNothing DEF MaintenanceInv, Typed, CopyToGz
<1>1. PICK file \in Names, gz \in Names : file = m[p].file /\ gz = Gz(file) /\ gz.gz /\ gz.kind = file.kind
  BY <1>0, GzOfName
<1>2. PICK content \in SUBSET Nat : content = files[file].content
  BY <1>1, CopyDoes DEF MaintenanceInv, Typed, FilesTyped, Exists, Contents
<1>3. PICK f : f = File(content, TRUE) /\ f.whole
  BY FileOfToday DEF MaintenanceInv, Typed
<1>4. DOMAIN files' = DOMAIN files \cup {gz} /\ files'[gz] = f /\ \A x \in DOMAIN files : x # gz => files'[x] = files[x]
  BY <1>1, <1>2, <1>3, CopyDoes DEF Written
<1>5. m'[p].now = m[p].now /\ m'[p].todo = m[p].todo /\ m'[p].file = m[p].file /\ m[p].file = file
      /\ \A q \in Maintainers : q # p => m'[q] = None
  BY <1>1, CopyDoes DEF Moved
<1>6. FileOf(p, file) /\ GzOf(p, gz)
  BY <1>0, <1>1 DEF MaintenanceInv, WorksOn
<1>7. CASE m[p].stage # "raw"
  <2>1. file.kind # "raw"
    BY <1>0, <1>6, <1>7, DbNames DEF FileOf
  <2> QED  BY <1>0, <1>1, <1>4, <1>5, <1>7, <2>1, RawOfOther
<1>8. CASE m[p].stage = "raw"
  <2>1. ASSUME NEW x, NEW d, Twin(x, d), x \in DOMAIN files'
        PROVE  /\ Sound(x, d)'
               /\ \A q \in Maintainers : m'[q] # None /\ m'[q].now = day' => Settled(q, x, d)'
               /\ completed' = day' => InTime(x)'
    <3>1. (Exists(d) => Exists(d)') /\ x \in DOMAIN files /\ (files[x].whole => files'[x].whole) /\ (~x.gz => files'[x] = files[x])
      BY <1>0, <1>1, <1>3, <1>4, <1>6, <2>1 DEF Exists, GzOf
    <3>2. (Pending(p, d) => Pending(p, d)') /\ (Pending(p, x) => Pending(p, x)')
      BY <1>5 DEF Pending
    <3>3. Sound(x, d)'
      BY <1>0, <2>1, <3>1, RawOfOne DEF Sound
    <3>4. ASSUME m'[p].now = day'  PROVE Settled(p, x, d)'
      <4>1. Settled(p, x, d)
        BY <1>0, <1>5, <2>1, <3>1, <3>4, RawOfOne
      <4> QED  BY <1>0, <3>1, <3>2, <4>1 DEF Settled
    <3>5. completed' = day' => InTime(x)'
      BY <1>0, <2>1, <3>1, RawOfOne DEF InTime
    <3> QED  BY <1>5, <3>3, <3>4, <3>5
  <2> QED  BY <2>1, RawOfAll
<1> QED  BY <1>7, <1>8

LEMMA RawOfUnlink ==
    ASSUME MaintenanceInv, FilesTyped', NEW p \in Maintainers, UnlinkPlain(p)
    PROVE  RawSound' /\ RawSettled' /\ RetentionKept'
<1>0. /\ m[p] # None /\ m[p].file \in Names /\ m[p].file # None /\ m[p].now \in Nat /\ m[p].now <= day /\ day \in Nat
      /\ UNCHANGED <<day, completed>> /\ m[p].step = "unlink"
  BY UnlinkDoes, AtWork, NoneIsNothing DEF MaintenanceInv, Typed, UnlinkPlain
<1>1. PICK file \in Names, gz \in Names : file = m[p].file /\ gz = Gz(file) /\ gz.gz /\ gz.kind = file.kind
  BY <1>0, GzOfName
<1>2. DOMAIN files' = DOMAIN files \ {file} /\ \A x \in DOMAIN files : x # file => files'[x] = files[x]
  BY <1>1, UnlinkDoes DEF Removed
<1>3. m'[p].now = m[p].now /\ m'[p].todo = m[p].todo /\ m'[p].file = None /\ m[p].file = file
      /\ \A q \in Maintainers : q # p => m'[q] = None
  BY <1>1, UnlinkDoes DEF Moved
<1>4. FileOf(p, file) /\ GzOf(p, gz)
  BY <1>0, <1>1 DEF MaintenanceInv, WorksOn
<1>5. CASE m[p].stage # "raw"
  <2>1. file.kind # "raw"
    BY <1>0, <1>4, <1>5, DbNames DEF FileOf
  <2> QED  BY <1>0, <1>2, <1>3, <1>5, <2>1, RawOfOther
<1>6. CASE m[p].stage = "raw"
  <2>1. ASSUME NEW x, NEW d, Twin(x, d), x \in DOMAIN files'
        PROVE  /\ Sound(x, d)'
               /\ \A q \in Maintainers : m'[q] # None /\ m'[q].now = day' => Settled(q, x, d)'
               /\ completed' = day' => InTime(x)'
    <3>1. x \in DOMAIN files /\ x # file /\ files'[x] = files[x]
      BY <1>2, <2>1
    <3>2. files[x].whole \/ (d # file /\ (Exists(d) => Exists(d)'))
      <4>1. CASE d = file
        <5>1. x = gz
          BY <1>1, <2>1, <3>1, <4>1 DEF Twin
        <5> QED  BY <1>0, <1>4, <5>1 DEF GzOf
      <4>2. CASE d # file
        BY <1>2, <4>2 DEF Exists
      <4> QED  BY <4>1, <4>2
    <3>3. (d # file /\ Pending(p, d) => Pending(p, d)') /\ (Pending(p, x) => Pending(p, x)')
      BY <1>3, <3>1 DEF Pending
    <3>4. Sound(x, d)'
      BY <1>0, <2>1, <3>1, <3>2, RawOfOne DEF Sound
    <3>5. ASSUME m'[p].now = day'  PROVE Settled(p, x, d)'
      <4>1. Settled(p, x, d)
        BY <1>0, <1>3, <2>1, <3>1, <3>5, RawOfOne
      <4> QED  BY <1>0, <3>1, <3>2, <3>3, <4>1 DEF Settled
    <3>6. completed' = day' => InTime(x)'
      BY <1>0, <2>1, <3>1, RawOfOne DEF InTime
    <3> QED  BY <1>3, <3>4, <3>5, <3>6
  <2> QED  BY <2>1, RawOfAll
<1> QED  BY <1>5, <1>6

\* At the end of its day nothing is left to do.
LEMMA RawOfPrune ==
    ASSUME MaintenanceInv, FilesTyped', NEW p \in Maintainers, PruneOldBackups(p)
    PROVE  RawSound' /\ RawSettled' /\ RetentionKept'
<1>0. /\ m[p] # None /\ m[p].stage = "prune" /\ m[p].file = None /\ day' = day /\ completed' = m[p].now
      /\ \A q \in Maintainers : m'[q] = None
  BY PruneDoes
<1>1. PICK gone : gone = OldBackups
  OBVIOUS
<1>2. DOMAIN files' = DOMAIN files \ gone /\ (\A x \in DOMAIN files \ gone : files'[x] = files[x])
      /\ \A x \in gone : x.kind = "db"
  BY <1>1, PruneDoes DEF Removed, OldBackups, Named
<1>3. m[p].todo = {}
  BY <1>0 DEF MaintenanceInv, WorksOn
<1>4. ASSUME NEW x, NEW d, Twin(x, d), x \in DOMAIN files'
      PROVE  /\ Sound(x, d)'
             /\ \A q \in Maintainers : m'[q] # None /\ m'[q].now = day' => Settled(q, x, d)'
             /\ completed' = day' => InTime(x)'
  <2>1. x \in DOMAIN files /\ files'[x] = files[x] /\ (Exists(d) <=> Exists(d)')
    BY <1>2, <1>4 DEF Exists, Twin
  <2>2. Sound(x, d)'
    BY <1>0, <1>4, <2>1, RawOfOne DEF Sound
  <2>3. ASSUME completed' = day'  PROVE InTime(x)'
    <3>1. Settled(p, x, d)
      BY <1>0, <1>4, <2>1, <2>3, RawOfOne
    <3>2. ~Pending(p, x) /\ ~Pending(p, d)
      BY <1>0, <1>3, <1>4, NoneIsNothing DEF Pending, Twin
    <3> QED  BY <1>0, <2>1, <3>1, <3>2 DEF Settled, InTime
  <2> QED  BY <1>0, <2>2, <2>3
<1> QED  BY <1>4, RawOfAll

LEMMA RawOfStep ==
    ASSUME MaintenanceInv, FilesTyped', Next
    PROVE  RawSound' /\ RawSettled' /\ RetentionKept'
<1>1. CASE NextDay
  <2>1. day \in Nat /\ completed \in Int /\ completed <= day /\ day' = day + 1 /\ UNCHANGED <<files, m, completed>>
    BY <1>1 DEF MaintenanceInv, Typed, NextDay
  <2>2. \A p \in Maintainers : m[p] # None => m[p].now \in Nat /\ m[p].now <= day
    BY AtWork
  <2>3. ASSUME NEW x, NEW d, Twin(x, d), x \in DOMAIN files'
        PROVE  /\ Sound(x, d)'
               /\ \A q \in Maintainers : m'[q] # None /\ m'[q].now = day' => Settled(q, x, d)'
               /\ completed' = day' => InTime(x)'
    <3>1. Sound(x, d) /\ x.day \in Nat /\ x \in DOMAIN files
      BY <2>1, <2>3, RawOfOne DEF Twin
    <3>2. Sound(x, d)'
      BY <2>1, <3>1, MaintenanceAssumption DEF Sound, Exists
    <3> QED  BY <2>1, <2>2, <3>2
  <2> QED  BY <2>3, RawOfAll
<1>2. CASE StartRun \/ Capture \/ Finish \/ KillRun
  BY <1>2, RunsWrite, RawUnderRuns
<1>3. ASSUME NEW p \in Maintainers, StartMaintenance(p) \/ ProcessRawFile(p) \/ OpenGz(p) \/ CopyToGz(p) \/ UnlinkPlain(p) \/ PruneOldBackups(p)
      PROVE  RawSound' /\ RawSettled' /\ RetentionKept'
  BY <1>3, RawOfStart, RawOfProcess, RawOfOpen, RawOfCopy, RawOfUnlink, RawOfPrune
<1>4. ASSUME NEW p \in Maintainers, KillMaintenance(p)  PROVE RawSound' /\ RawSettled' /\ RetentionKept'
  <2>1. RawUntouched /\ RawLeft /\ UNCHANGED <<day, completed>>
    BY <1>4, KillDoes DEF RawUntouched, RawLeft
  <2> QED  BY <2>1, RawStays
<1>5. ASSUME NEW p \in Maintainers, RotateLogIfNeeded(p)  PROVE RawSound' /\ RawSettled' /\ RetentionKept'
  <2>0. m[p] # None /\ m[p].file = None /\ m[p].todo = {} /\ UNCHANGED <<day, completed>> /\ m'[p].now = m[p].now
        /\ \A q \in Maintainers : m'[q] # None => q = p
    BY <1>5, RotateDoes DEF Moved
  <2>1. RawLeft
    BY <2>0, NoneIsNothing DEF RawLeft, Pending
  <2>2. Active.kind = "active"
    BY NamesOfFiles DEF Active, Kinds
  <2>3. RawUntouched
    BY <1>5, <2>2, RotateDoes DEF RawUntouched
  <2> QED  BY <2>0, <2>1, <2>3, RawStays
<1>6. ASSUME NEW p \in Maintainers, PurgeOldLogs(p)  PROVE RawSound' /\ RawSettled' /\ RetentionKept'
  <2>1. RawLeft /\ UNCHANGED <<day, completed>>
    BY <1>6, PurgeDoes DEF RawLeft, Pending, Moved
  <2>2. PICK gone : gone = {name \in Named("log") :
                    name.gz /\ m[p].now - files[name].mtime >= LOG_COMPRESSED_RETENTION_DAYS}
    OBVIOUS
  <2>3. DOMAIN files' = DOMAIN files \ gone /\ (\A x \in DOMAIN files \ gone : files'[x] = files[x])
        /\ \A x \in gone : x.kind = "log"
    BY <1>6, <2>2, PurgeDoes DEF Removed, Named
  <2>4. RawUntouched
    BY <2>3 DEF RawUntouched
  <2> QED  BY <2>1, <2>4, RawStays
<1>7. ASSUME NEW p \in Maintainers, BackupDatabase(p) \/ CopyDatabase(p)  PROVE RawSound' /\ RawSettled' /\ RetentionKept'
  <2>0. m[p] # None /\ m[p].now \in Nat /\ m[p].file = None /\ m[p].stage # "raw"
    BY <1>7, BackupDoes, CopyDatabaseDoes, AtWork DEF Moved
  <2>1. PICK db \in Names : db = Plain("db", m[p].now, 0) /\ db.kind = "db"
    BY <2>0, DbNames
  <2>2. UNCHANGED <<day, completed>> /\ m'[p].todo = m[p].todo /\ m'[p].now = m[p].now
        /\ \A q \in Maintainers : m'[q] # None => q = p
    BY <1>7, BackupDoes, CopyDatabaseDoes DEF Moved
  <2>3. UNCHANGED files \/ (DOMAIN files' = DOMAIN files \cup {db} /\ \A x \in DOMAIN files : x # db => files'[x] = files[x])
    BY <1>7, <2>1, BackupDoes, CopyDatabaseDoes DEF Written
  <2>4. RawUntouched
    BY <2>1, <2>3 DEF RawUntouched
  <2>5. RawLeft
    BY <2>0, <2>2, NoneIsNothing DEF RawLeft, Pending
  <2> QED  BY <2>2, <2>4, <2>5, RawStays
<1> QED  BY <1>1, <1>2, <1>3, <1>4, <1>5, <1>6, <1>7 DEF Next, Maintenance
-----------------------------------------------------------------------------
(* The lines of the logs *)

LogKinds == {"active", "log"}

\* A file that has the line n, from the day it was printed on or later.
Holds(name, n) ==
    /\ name \in DOMAIN files /\ name.kind \in LogKinds
    /\ files[name].whole /\ n \in files[name].content /\ files[name].mtime >= kept[n]

LEMMA LineHeld ==
    ASSUME NEW n
    PROVE  LineKept(n) <=> (day - kept[n] >= LOG_COMPRESSED_RETENTION_DAYS \/ \E name : Holds(name, n))
  BY DEF LineKept, Holds, Named, LogKinds

LEMMA LineHeldNext ==
    ASSUME NEW n, (day - kept[n] >= LOG_COMPRESSED_RETENTION_DAYS)' \/ \E name : Holds(name, n)'
    PROVE  LineKept(n)'
  BY DEF LineKept, Holds, Named, LogKinds

\* No line goes when every file that has one is still there, whole and with it.
LEMMA LinesStay ==
    ASSUME MaintenanceInv, FilesTyped', UNCHANGED <<kept, day>>,
           \A x \in DOMAIN files : x.kind \in LogKinds /\ files[x].whole =>
               /\ x \in DOMAIN files' /\ files'[x].whole
               /\ files[x].content \subseteq files'[x].content /\ files'[x].mtime >= files[x].mtime
    PROVE  LinesThere'
<1>1. ASSUME NEW n \in DOMAIN kept, NEW name, Holds(name, n)  PROVE Holds(name, n)'
  <2>1. kept[n] \in Nat /\ files[name].mtime \in Nat /\ kept'[n] = kept[n] /\ name \in DOMAIN files
    BY <1>1 DEF MaintenanceInv, Typed, FilesTyped, Holds, Contents
  <2>2. /\ name \in DOMAIN files' /\ files'[name].whole /\ n \in files'[name].content
        /\ files'[name].mtime >= files[name].mtime /\ files[name].mtime >= kept[n]
    BY <1>1, <2>1 DEF Holds
  <2>3. files'[name].mtime \in Nat
    BY <2>2 DEF FilesTyped, Contents
  <2>4. files'[name].mtime >= kept'[n]
    BY <2>1, <2>2, <2>3
  <2> QED  BY <1>1, <2>2, <2>4 DEF Holds
<1>2. ASSUME NEW n \in DOMAIN kept  PROVE LineKept(n)'
  <2>1. LineKept(n)
    BY <1>2 DEF MaintenanceInv, LinesThere
  <2> QED  BY <1>1, <1>2, <2>1, LineHeld, LineHeldNext
<1> QED  BY <1>2 DEF LinesThere

\* A run adds its lines to what is in the log.
LEMMA LinesOfFinish ==
    ASSUME MaintenanceInv, FilesTyped', Finish
    PROVE  LinesThere'
<1>0. Typed /\ FilesTyped /\ day \in Nat /\ day' = day /\ run.n \in Nat
  BY FinishDoes DEF MaintenanceInv, Typed
<1>1. PICK name : RunWrites(name)
  BY RunsWrite
<1>2. \A x \in DOMAIN files : x.kind \in LogKinds /\ files[x].whole =>
        /\ x \in DOMAIN files' /\ files'[x].whole
        /\ files[x].content \subseteq files'[x].content /\ files'[x].mtime >= files[x].mtime
  <2>1. ASSUME NEW x \in DOMAIN files, x.kind \in LogKinds, files[x].whole
        PROVE  /\ x \in DOMAIN files' /\ files'[x].whole
               /\ files[x].content \subseteq files'[x].content /\ files'[x].mtime >= files[x].mtime
    <3>1. files[x].mtime \in Nat /\ files[x].mtime <= day
      BY <1>0 DEF FilesTyped, Contents
    <3>2. files'[x] = files[x] \/ (x = name /\ ~UNCHANGED files)
      BY <1>1 DEF RunWrites
    <3>3. CASE files'[x] = files[x]
      BY <1>1, <2>1, <3>1, <3>3 DEF RunWrites
    <3>4. CASE x = name /\ ~UNCHANGED files
      <4>1. x \in DOMAIN files' /\ files'[x].whole /\ files'[x].mtime = day /\ files[x].content \subseteq files'[x].content
        BY <1>1, <2>1, <3>4 DEF RunWrites, LogKinds, Exists
      <4> QED  BY <3>1, <4>1
    <3> QED  BY <3>2, <3>3, <3>4
  <2> QED  BY <2>1
<1>3. CASE kept' = kept
  BY <1>0, <1>2, <1>3, LinesStay
<1>4. CASE kept' # kept
  <2>1. PICK active \in Names : active = Active /\ active.kind = "active"
    BY NamesOfFiles DEF Active, Kinds
  <2>2. run.out = active /\ Exists(active) /\ kept' = With(kept, run.n, day)
        /\ Written(run.out, File(files[run.out].content \cup {run.n}, TRUE))
    BY <1>4, <2>1, FinishDoes
  <2>3. PICK content \in SUBSET Nat : content = files[active].content \cup {run.n}
    BY <1>0, <2>2 DEF FilesTyped, Exists, Contents
  <2>4. PICK f : f = File(content, TRUE) /\ f.whole /\ f.mtime = day /\ f.content = content
    BY <1>0, FileOfToday
  <2>5. active \in DOMAIN files' /\ files'[active] = f
    BY <2>2, <2>3, <2>4 DEF Written
  <2>6. DOMAIN kept' = DOMAIN kept \cup {run.n} /\ kept'[run.n] = day
        /\ \A n \in DOMAIN kept : n # run.n => kept'[n] = kept[n]
    BY <2>2 DEF With
  <2>7. ASSUME NEW n \in DOMAIN kept'  PROVE LineKept(n)'
    <3>1. CASE n = run.n
      <4>1. PICK k \in Nat : k = kept'[n] /\ k = day
        BY <1>0, <2>6, <3>1
      <4>2. PICK t \in Nat : t = files'[active].mtime /\ t = day
        BY <1>0, <2>4, <2>5
      <4>3. t >= k
        BY <4>1, <4>2
      <4>4. Holds(active, n)'
        BY <2>1, <2>3, <2>4, <2>5, <3>1, <4>1, <4>2, <4>3 DEF Holds, LogKinds
      <4> QED  BY <4>4, LineHeldNext
    <3>2. CASE n # run.n
      <4>1. n \in DOMAIN kept /\ kept'[n] = kept[n] /\ kept[n] \in Nat /\ LineKept(n)
        BY <1>0, <2>6, <2>7, <3>2 DEF MaintenanceInv, LinesThere, Typed
      <4>2. CASE day - kept[n] >= LOG_COMPRESSED_RETENTION_DAYS
        BY <1>0, <4>1, <4>2, LineHeldNext
      <4>3. CASE \E x : Holds(x, n)
        <5>1. PICK x : Holds(x, n)
          BY <4>3
        <5>2. /\ x \in DOMAIN files /\ x.kind \in LogKinds /\ files[x].whole /\ n \in files[x].content
              /\ files[x].mtime >= kept[n] /\ files[x].mtime \in Nat
          BY <1>0, <5>1 DEF Holds, FilesTyped, Contents
        <5>3. x \in DOMAIN files' /\ files'[x].whole /\ n \in files'[x].content /\ files'[x].mtime >= files[x].mtime
          BY <1>2, <5>2
        <5>4. files'[x].mtime \in Nat
          BY <5>3 DEF FilesTyped, Contents
        <5>5. files'[x].mtime >= kept'[n]
          BY <4>1, <5>2, <5>3, <5>4
        <5>6. Holds(x, n)'
          BY <5>2, <5>3, <5>5 DEF Holds
        <5> QED  BY <5>6, LineHeldNext
      <4> QED  BY <4>1, <4>2, <4>3, LineHeld
    <3> QED  BY <3>1, <3>2
  <2> QED  BY <2>7 DEF LinesThere
<1> QED  BY <1>3, <1>4

\* The log goes to another name with all that is in it.
LEMMA LinesOfRotate ==
    ASSUME MaintenanceInv, NEW p \in Maintainers, RotateLogIfNeeded(p)
    PROVE  LinesThere'
<1>0. UNCHANGED <<kept, day>> /\ LinesThere
  BY RotateDoes DEF data, MaintenanceInv
<1>1. CASE UNCHANGED files
  BY <1>0, <1>1 DEF LinesThere, LineKept, Named
<1>2. CASE ~UNCHANGED files
  <2>1. PICK active \in Names : active = Active /\ active.kind = "active"
    BY NamesOfFiles DEF Active, Kinds
  <2>2. PICK name \in Names :
                 /\ name.kind = "log" /\ ~Exists(name)
                 /\ DOMAIN files' = (DOMAIN files \ {active}) \cup {name} /\ files'[name] = files[active]
                 /\ \A x \in DOMAIN files \ {active} : x # name => files'[x] = files[x]
    BY <1>2, <2>1, RotateDoes
  <2>3. ASSUME NEW n \in DOMAIN kept  PROVE LineKept(n)'
    <3>1. LineKept(n)
      BY <1>0, <2>3 DEF LinesThere
    <3>2. CASE day - kept[n] >= LOG_COMPRESSED_RETENTION_DAYS
      BY <1>0, <3>2, LineHeldNext
    <3>3. CASE \E x : Holds(x, n)
      <4>1. PICK x : Holds(x, n)
        BY <3>3
      <4>2. CASE x = active
        <5>1. Holds(name, n)'
          BY <1>0, <2>2, <4>1, <4>2 DEF Holds, LogKinds
        <5> QED  BY <5>1, LineHeldNext
      <4>3. CASE x # active
        <5>1. Holds(x, n)'
          BY <1>0, <2>2, <4>1, <4>3 DEF Holds, Exists
        <5> QED  BY <5>1, LineHeldNext
      <4> QED  BY <4>2, <4>3
    <3> QED  BY <3>1, <3>2, <3>3, LineHeld
  <2> QED  BY <1>0, <2>3 DEF LinesThere
<1> QED  BY <1>1, <1>2

\* A log that is purged was written so long ago that each of its lines is over its time.
LEMMA LinesOfPurge ==
    ASSUME MaintenanceInv, NEW p \in Maintainers, PurgeOldLogs(p)
    PROVE  LinesThere'
<1>0. UNCHANGED <<kept, day>> /\ LinesThere /\ m[p] # None /\ m[p].now \in Nat /\ m[p].now <= day /\ day \in Nat
  BY PurgeDoes, AtWork DEF data, MaintenanceInv, Typed, Moved
<1>1. PICK gone : gone = {name \in Named("log") :
                    name.gz /\ m[p].now - files[name].mtime >= LOG_COMPRESSED_RETENTION_DAYS}
  OBVIOUS
<1>2. DOMAIN files' = DOMAIN files \ gone /\ \A x \in DOMAIN files \ gone : files'[x] = files[x]
  BY <1>1, PurgeDoes DEF Removed
<1>3. ASSUME NEW n \in DOMAIN kept  PROVE LineKept(n)'
  <2>1. LineKept(n) /\ kept[n] \in Nat
    BY <1>0, <1>3 DEF LinesThere, MaintenanceInv, Typed
  <2>2. CASE day - kept[n] >= LOG_COMPRESSED_RETENTION_DAYS
    BY <1>0, <2>2, LineHeldNext
  <2>3. CASE \E x : Holds(x, n)
    <3>1. PICK x : Holds(x, n)
      BY <2>3
    <3>2. CASE x \in gone
      <4>1. files[x].mtime \in Nat /\ files[x].mtime >= kept[n] /\ m[p].now - files[x].mtime >= LOG_COMPRESSED_RETENTION_DAYS
        BY <1>1, <3>1, <3>2 DEF Holds, MaintenanceInv, Typed, FilesTyped, Contents
      <4>2. day - kept[n] >= LOG_COMPRESSED_RETENTION_DAYS
        BY <1>0, <2>1, <4>1, MaintenanceAssumption
      <4> QED  BY <2>2, <4>2
    <3>3. CASE x \notin gone
      <4>1. Holds(x, n)'
        BY <1>0, <1>2, <3>1, <3>3 DEF Holds
      <4> QED  BY <4>1, LineHeldNext
    <3> QED  BY <3>2, <3>3
  <2> QED  BY <2>1, <2>2, <2>3, LineHeld
<1> QED  BY <1>0, <1>3 DEF LinesThere

\* The file is removed when its .gz has all of its lines.
LEMMA LinesOfUnlink ==
    ASSUME MaintenanceInv, NEW p \in Maintainers, UnlinkPlain(p)
    PROVE  LinesThere'
<1>0. /\ UNCHANGED <<kept, day>> /\ LinesThere /\ m[p] # None /\ m[p].file \in Names /\ m[p].file # None
      /\ m[p].now \in Nat /\ m[p].now <= day /\ day \in Nat /\ m[p].step = "unlink"
  BY UnlinkDoes, AtWork, NoneIsNothing DEF data, MaintenanceInv, Typed, UnlinkPlain
<1>1. PICK file \in Names, gz \in Names : file = m[p].file /\ gz = Gz(file) /\ gz.gz /\ gz.kind = file.kind
  BY <1>0, GzOfName
<1>2. DOMAIN files' = DOMAIN files \ {file} /\ \A x \in DOMAIN files : x # file => files'[x] = files[x]
  BY <1>1, UnlinkDoes DEF Removed
<1>3. FileOf(p, file) /\ GzOf(p, gz)
  BY <1>0, <1>1 DEF MaintenanceInv, WorksOn
<1>4. gz \in DOMAIN files' /\ files'[gz] = files[gz] /\ files[gz].whole
  BY <1>0, <1>1, <1>2, <1>3 DEF GzOf, FileOf, Exists
<1>5. ASSUME NEW n \in DOMAIN kept  PROVE LineKept(n)'
  <2>1. LineKept(n) /\ kept[n] \in Nat
    BY <1>0, <1>5 DEF LinesThere, MaintenanceInv, Typed
  <2>2. CASE day - kept[n] >= LOG_COMPRESSED_RETENTION_DAYS
    BY <1>0, <2>2, LineHeldNext
  <2>3. CASE \E x : Holds(x, n)
    <3>1. PICK x : Holds(x, n)
      BY <2>3
    <3>2. CASE x = file
      <4>1. file.kind \in LogKinds
        BY <3>1, <3>2 DEF Holds
      <4>2. m[p].stage = "log"
        BY <1>0, <1>3, <4>1, DbNames DEF FileOf, LogKinds
      <4>3. n \in files[gz].content /\ files[gz].mtime >= kept[n]
        BY <1>0, <1>1, <3>1, <3>2, <4>2, <1>5 DEF MaintenanceInv, LinesCopied, LinesOf, Holds
      <4>4. Holds(gz, n)'
        BY <1>0, <1>1, <1>4, <4>1, <4>3 DEF Holds
      <4> QED  BY <4>4, LineHeldNext
    <3>3. CASE x # file
      <4>1. Holds(x, n)'
        BY <1>0, <1>2, <3>1, <3>3 DEF Holds
      <4> QED  BY <4>1, LineHeldNext
    <3> QED  BY <3>2, <3>3
  <2> QED  BY <2>1, <2>2, <2>3, LineHeld
<1> QED  BY <1>0, <1>5 DEF LinesThere

\* Files that are no logs, and .gz files that were not whole, have no lines to lose.
LEMMA LinesOfOther ==
    ASSUME MaintenanceInv, FilesTyped', UNCHANGED <<kept, day>>,
           \A x \in DOMAIN files : x.kind \in LogKinds /\ files[x].whole => x \in DOMAIN files' /\ files'[x] = files[x]
    PROVE  LinesThere'
<1>1. ASSUME NEW x \in DOMAIN files, x.kind \in LogKinds, files[x].whole
      PROVE  /\ x \in DOMAIN files' /\ files'[x].whole
             /\ files[x].content \subseteq files'[x].content /\ files'[x].mtime >= files[x].mtime
  <2>1. x \in DOMAIN files' /\ files'[x] = files[x] /\ files[x].mtime \in Nat
    BY <1>1 DEF MaintenanceInv, Typed, FilesTyped, Contents
  <2> QED  BY <1>1, <2>1
<1> QED  BY <1>1, LinesStay

LEMMA LinesOfStep ==
    ASSUME MaintenanceInv, FilesTyped', Next
    PROVE  LinesThere'
<1>0. Typed /\ FilesTyped /\ LinesThere /\ day \in Nat
  BY DEF MaintenanceInv, Typed
<1>1. CASE NextDay
  <2>1. UNCHANGED <<files, kept>> /\ day' = day + 1
    BY <1>1 DEF NextDay, data
  <2>2. ASSUME NEW n \in DOMAIN kept  PROVE LineKept(n)'
    <3>1. LineKept(n) /\ kept[n] \in Nat
      BY <1>0, <2>2 DEF LinesThere, Typed
    <3>2. CASE day - kept[n] >= LOG_COMPRESSED_RETENTION_DAYS
      BY <1>0, <2>1, <3>1, <3>2, LineHeldNext, MaintenanceAssumption
    <3>3. CASE \E x : Holds(x, n)
      BY <2>1, <3>3, LineHeldNext DEF Holds
    <3> QED  BY <3>1, <3>2, <3>3, LineHeld
  <2> QED  BY <2>1, <2>2 DEF LinesThere
<1>2. CASE UNCHANGED <<files, kept, day>>
  BY <1>0, <1>2 DEF LinesThere, LineKept, Named
<1>3. CASE StartRun
  <2>1. UNCHANGED <<kept, day>>
    BY <1>3, StartRunDoes DEF data
  <2>2. \A x \in DOMAIN files : x \in DOMAIN files' /\ files'[x] = files[x]
    BY <1>3, StartRunDoes DEF Written, Exists
  <2> QED  BY <2>1, <2>2, LinesOfOther
<1>4. CASE Capture
  <2>1. UNCHANGED <<kept, day>> /\ run.n \in Nat
    BY <1>4, CaptureDoes
  <2>2. PICK name : name = Plain("raw", day, run.n) /\ name.kind = "raw"
    BY <1>0, <2>1, PlainOf DEF Kinds
  <2>3. \A x \in DOMAIN files \ {name} : x \in DOMAIN files' /\ files'[x] = files[x]
    BY <1>4, <2>2, CaptureDoes DEF Written
  <2> QED  BY <2>1, <2>2, <2>3, LinesOfOther DEF LogKinds
<1>5. ASSUME NEW p \in Maintainers, ProcessRawFile(p)  PROVE LinesThere'
  <2>1. PICK name \in m[p].todo : UNCHANGED files \/ Removed({name})
    BY <1>5, ProcessDoes
  <2>2. name.kind = "raw" /\ UNCHANGED <<kept, day>>
    BY <1>5, ProcessDoes DEF MaintenanceInv, WorksOn, data
  <2>3. \A x \in DOMAIN files \ {name} : x \in DOMAIN files' /\ files'[x] = files[x]
    BY <2>1 DEF Removed
  <2> QED  BY <2>2, <2>3, LinesOfOther DEF LogKinds
<1>6. ASSUME NEW p \in Maintainers, OpenGz(p) \/ CopyToGz(p)  PROVE LinesThere'
  <2>1. /\ m[p] # None /\ m[p].file \in Names /\ m[p].file # None /\ m[p].now \in Nat
        /\ UNCHANGED <<kept, day>>
    BY <1>6, OpenDoes, CopyDoes, AtWork, NoneIsNothing DEF data, OpenGz, CopyToGz
  <2>2. PICK file \in Names, gz \in Names : file = m[p].file /\ gz = Gz(file) /\ gz.kind = file.kind
    BY <2>1, GzOfName
  <2>3. FileOf(p, file) /\ GzOf(p, gz)
    BY <2>1, <2>2 DEF MaintenanceInv, WorksOn
  <2>4. gz \in DOMAIN files => gz.kind \notin LogKinds \/ ~files[gz].whole
    <3>1. CASE m[p].stage = "raw"
      BY <2>2, <2>3, <3>1 DEF FileOf, LogKinds
    <3>2. CASE m[p].stage # "raw"
      BY <1>6, <2>3, <3>2, OpenDoes, CopyDoes DEF GzOf, Exists
    <3> QED  BY <3>1, <3>2
  <2>5. \A x \in DOMAIN files \ {gz} : x \in DOMAIN files' /\ files'[x] = files[x]
    BY <1>6, <2>2, OpenDoes, CopyDoes DEF Written
  <2> QED  BY <2>1, <2>4, <2>5, LinesOfOther
<1>7. ASSUME NEW p \in Maintainers, BackupDatabase(p) \/ CopyDatabase(p)  PROVE LinesThere'
  <2>0. m[p].now \in Nat /\ UNCHANGED <<kept, day>>
    BY <1>7, BackupDoes, CopyDatabaseDoes, AtWork DEF data, Moved
  <2>1. PICK db : db = Plain("db", m[p].now, 0) /\ db.kind = "db"
    BY <2>0, DbNames
  <2>2. \A x \in DOMAIN files \ {db} : x \in DOMAIN files' /\ files'[x] = files[x]
    BY <1>7, <2>1, BackupDoes, CopyDatabaseDoes DEF Written
  <2> QED  BY <2>0, <2>1, <2>2, LinesOfOther DEF LogKinds
<1>8. ASSUME NEW p \in Maintainers, PruneOldBackups(p)  PROVE LinesThere'
  <2>1. PICK gone : gone = OldBackups
    OBVIOUS
  <2>2. UNCHANGED <<kept, day>> /\ (\A x \in gone : x.kind = "db")
        /\ \A x \in DOMAIN files \ gone : x \in DOMAIN files' /\ files'[x] = files[x]
    BY <1>8, <2>1, PruneDoes DEF data, Removed, OldBackups, Named
  <2> QED  BY <2>2, LinesOfOther DEF LogKinds
<1>9. ASSUME NEW p \in Maintainers, StartMaintenance(p) \/ KillMaintenance(p)  PROVE LinesThere'
  BY <1>2, <1>9, StartDoes, KillDoes DEF data
<1>10. CASE KillRun
  BY <1>2, <1>10 DEF KillRun, data
<1> QED  BY <1>1, <1>3, <1>4, <1>5, <1>6, <1>7, <1>8, <1>9, <1>10, LinesOfFinish, LinesOfRotate, LinesOfPurge, LinesOfUnlink
         DEF Next, Maintenance
-----------------------------------------------------------------------------
(* What was printed *)

\* What a log has was in a log before.
LEMMA PrintsStay ==
    ASSUME MaintenanceInv, runs' = runs, run' = None \/ (run # None /\ run'.n = run.n),
           \A x \in DOMAIN files' : x.kind \in LogKinds =>
               files'[x].content = {} \/ \E y \in DOMAIN files : y.kind \in LogKinds /\ files'[x].content = files[y].content
    PROVE  PrintedLater'
  BY DEF MaintenanceInv, PrintedLater, Printed, LogKinds

LEMMA PrintedOfStep ==
    ASSUME MaintenanceInv, Next
    PROVE  PrintedLater'
<1>0. Typed /\ FilesTyped /\ PrintedLater /\ day \in Nat /\ runs \in Nat
  BY DEF MaintenanceInv, Typed
<1>1. ASSUME UNCHANGED <<run, runs>>,
             NEW names, \A x \in names : x.kind \notin LogKinds,
             \A x \in DOMAIN files' : x \in names \/ (x \in DOMAIN files /\ files'[x] = files[x])
      PROVE  PrintedLater'
  BY <1>1, PrintsStay
<1>2. ASSUME UNCHANGED <<run, runs, files>>  PROVE PrintedLater'
  BY <1>0, <1>2 DEF PrintedLater, Printed
<1>3. CASE StartRun
  <2>1. runs' = runs + 1 /\ run'.n = runs + 1
    BY <1>3, StartRunDoes
  <2>2. PICK active : active = Active
    OBVIOUS
  <2>3. PICK file : file = File({}, TRUE) /\ file.content = {}
    BY <1>0, FileOfToday
  <2>4. ASSUME NEW x \in DOMAIN files'  PROVE files'[x].content = {} \/ (x \in DOMAIN files /\ files'[x] = files[x])
    <3>1. UNCHANGED files \/ (DOMAIN files' = DOMAIN files \cup {active} /\ files'[active] = file
                              /\ \A y \in DOMAIN files : y # active => files'[y] = files[y])
      BY <1>3, <2>2, <2>3, StartRunDoes DEF Written
    <3> QED  BY <2>3, <2>4, <3>1
  <2>5. ASSUME NEW x \in DOMAIN files'  PROVE Printed(x)'
    <3>1. CASE files'[x].content = {}
      BY <3>1 DEF Printed
    <3>2. CASE x \in DOMAIN files /\ files'[x] = files[x]
      <4>1. ASSUME x.kind \in {"active", "log"}  PROVE files[x].content \subseteq 1 .. runs
        BY <1>0, <3>2, <4>1 DEF PrintedLater, Printed
      <4>2. 1 .. runs \subseteq 1 .. runs + 1 /\ runs + 1 \notin 1 .. runs
        BY <1>0
      <4> QED  BY <2>1, <3>2, <4>1, <4>2 DEF Printed
    <3> QED  BY <2>4, <3>1, <3>2
  <2> QED  BY <2>5 DEF PrintedLater
<1>4. CASE Capture
  <2>1. run # None /\ run'.n = run.n /\ runs' = runs /\ run.n \in Nat
    BY <1>4, CaptureDoes
  <2>2. PICK name : name = Plain("raw", day, run.n) /\ name.kind = "raw"
    BY <1>0, <2>1, PlainOf DEF Kinds
  <2>3. \A x \in DOMAIN files' : x = name \/ (x \in DOMAIN files /\ files'[x] = files[x])
    BY <1>4, <2>2, CaptureDoes DEF Written
  <2> QED  BY <2>1, <2>2, <2>3, PrintsStay DEF LogKinds
<1>5. CASE Finish
  <2>1. run' = None /\ runs' = runs /\ run.n \in 1 .. runs /\ run.n \in Nat
    BY <1>5, FinishDoes
  <2>2. CASE run.out = None
    <3>1. UNCHANGED files
      BY <1>5, <2>2, FinishDoes
    <3> QED  BY <1>0, <2>1, <3>1 DEF PrintedLater, Printed
  <2>3. CASE run.out # None
    <3>1. PICK out \in Names : out = run.out /\ Exists(out) /\ out.kind \in {"active", "log"}
      BY <1>5, <2>3, FinishDoes
    <3>2. PICK content \in SUBSET Nat : content = files[out].content \cup {run.n}
      BY <1>0, <2>1, <3>1 DEF FilesTyped, Exists, Contents
    <3>3. PICK file : file = File(content, TRUE) /\ file.content = content
      BY <1>0, FileOfToday
    <3>4. DOMAIN files' = DOMAIN files \cup {out} /\ files'[out] = file /\ \A x \in DOMAIN files : x # out => files'[x] = files[x]
      BY <1>5, <2>3, <3>1, <3>2, <3>3, FinishDoes DEF Written
    <3>5. files[out].content \subseteq 1 .. runs
      BY <1>0, <3>1 DEF PrintedLater, Printed, Exists
    <3> QED  BY <1>0, <2>1, <3>2, <3>3, <3>4, <3>5 DEF PrintedLater, Printed
  <2> QED  BY <2>2, <2>3
<1>6. CASE KillRun
  BY <1>0, <1>6 DEF KillRun, PrintedLater, Printed
<1>7. ASSUME NEW p \in Maintainers, ProcessRawFile(p)  PROVE PrintedLater'
  <2>1. PICK name \in m[p].todo : UNCHANGED files \/ Removed({name})
    BY <1>7, ProcessDoes
  <2>2. UNCHANGED <<run, runs>> /\ \A x \in DOMAIN files' : x \in DOMAIN files /\ files'[x] = files[x]
    BY <1>7, <2>1, ProcessDoes DEF Removed
  <2> QED  BY <2>2, PrintsStay
<1>8. ASSUME NEW p \in Maintainers, OpenGz(p) \/ CopyToGz(p)  PROVE PrintedLater'
  <2>1. m[p].file \in Names /\ m[p].file # None /\ UNCHANGED <<run, runs>>
    BY <1>8, OpenDoes, CopyDoes, NoneIsNothing DEF OpenGz, CopyToGz
  <2>2. PICK file \in Names, gz \in Names : file = m[p].file /\ gz = Gz(file) /\ gz.kind = file.kind
    BY <2>1, GzOfName
  <2>3. DOMAIN files' = DOMAIN files \cup {gz} /\ \A x \in DOMAIN files : x # gz => files'[x] = files[x]
    BY <1>8, <2>2, OpenDoes, CopyDoes DEF Written
  <2>4. files'[gz].content = {} \/ (file \in DOMAIN files /\ files'[gz].content = files[file].content)
    <3>1. CASE OpenGz(p)
      <4>1. PICK f : f = File({}, FALSE) /\ f.content = {}
        BY <1>0, FileOfToday
      <4> QED  BY <2>2, <3>1, <4>1, OpenDoes DEF Written
    <3>2. CASE CopyToGz(p)
      <4>1. file \in DOMAIN files
        BY <2>2, <3>2, CopyDoes DEF Exists
      <4>2. PICK content \in SUBSET Nat : content = files[file].content
        BY <1>0, <4>1 DEF FilesTyped, Contents
      <4>3. PICK f : f = File(content, TRUE) /\ f.content = content
        BY <1>0, FileOfToday
      <4> QED  BY <2>2, <3>2, <4>1, <4>2, <4>3, CopyDoes DEF Written
    <3> QED  BY <1>8, <3>1, <3>2
  <2> QED  BY <2>1, <2>2, <2>3, <2>4, PrintsStay
<1>9. ASSUME NEW p \in Maintainers, UnlinkPlain(p)  PROVE PrintedLater'
  <2>1. runs' = runs /\ run \in Runs \cup {None}
        /\ run' = IF run # None /\ run.out = m[p].file THEN [run EXCEPT !.out = None] ELSE run
    BY <1>0, <1>9, UnlinkDoes DEF Typed
  <2>2. run' = None \/ (run # None /\ run'.n = run.n)
    BY <2>1 DEF Runs
  <2>3. \A x \in DOMAIN files' : x \in DOMAIN files /\ files'[x] = files[x]
    BY <1>9, UnlinkDoes DEF Removed
  <2> QED  BY <2>1, <2>2, <2>3, PrintsStay
<1>10. ASSUME NEW p \in Maintainers, RotateLogIfNeeded(p)  PROVE PrintedLater'
  <2>1. CASE UNCHANGED <<files, run>>
    BY <1>2, <1>10, <2>1, RotateDoes
  <2>2. CASE ~UNCHANGED <<files, run>>
    <3>1. PICK active \in Names : active = Active /\ active.kind = "active"
      BY NamesOfFiles DEF Active, Kinds
    <3>2. PICK name \in Names :
                 /\ active \in DOMAIN files
                 /\ DOMAIN files' = (DOMAIN files \ {active}) \cup {name} /\ files'[name] = files[active]
                 /\ \A x \in DOMAIN files \ {active} : x # name => files'[x] = files[x]
                 /\ run' = IF run # None /\ run.out = active THEN [run EXCEPT !.out = name] ELSE run
      BY <1>10, <2>2, <3>1, RotateDoes DEF Exists
    <3>3. runs' = runs /\ run \in Runs \cup {None}
      BY <1>0, <1>10, RotateDoes DEF Typed
    <3>4. run' = None \/ (run # None /\ run'.n = run.n)
      BY <3>2, <3>3 DEF Runs
    <3> QED  BY <3>1, <3>2, <3>3, <3>4, PrintsStay DEF LogKinds
  <2> QED  BY <2>1, <2>2
<1>11. ASSUME NEW p \in Maintainers, PurgeOldLogs(p)  PROVE PrintedLater'
  <2>1. UNCHANGED <<run, runs>> /\ \A x \in DOMAIN files' : x \in DOMAIN files /\ files'[x] = files[x]
    BY <1>11, PurgeDoes DEF Removed
  <2> QED  BY <2>1, PrintsStay
<1>12. ASSUME NEW p \in Maintainers, BackupDatabase(p) \/ CopyDatabase(p)  PROVE PrintedLater'
  <2>0. m[p].now \in Nat /\ UNCHANGED <<run, runs>>
    BY <1>12, BackupDoes, CopyDatabaseDoes, AtWork DEF Moved
  <2>1. PICK db : db = Plain("db", m[p].now, 0) /\ db.kind = "db"
    BY <2>0, DbNames
  <2>2. UNCHANGED files \/ (DOMAIN files' = DOMAIN files \cup {db} /\ \A x \in DOMAIN files : x # db => files'[x] = files[x])
    BY <1>12, <2>1, BackupDoes, CopyDatabaseDoes DEF Written
  <2> QED  BY <2>0, <2>1, <2>2, PrintsStay DEF LogKinds
<1>13. ASSUME NEW p \in Maintainers, PruneOldBackups(p)  PROVE PrintedLater'
  <2>1. UNCHANGED <<run, runs>> /\ \A x \in DOMAIN files' : x \in DOMAIN files /\ files'[x] = files[x]
    BY <1>13, PruneDoes DEF Removed
  <2> QED  BY <2>1, PrintsStay
<1>14. ASSUME NEW p \in Maintainers, StartMaintenance(p) \/ KillMaintenance(p)  PROVE PrintedLater'
  BY <1>2, <1>14, StartDoes, KillDoes
<1>15. CASE NextDay
  BY <1>2, <1>15 DEF NextDay
<1> QED  BY <1>3, <1>4, <1>5, <1>6, <1>7, <1>8, <1>9, <1>10, <1>11, <1>12, <1>13, <1>14, <1>15 DEF Next, Maintenance
-----------------------------------------------------------------------------
(* The copy of a log *)

\* No .gz of a log changes, and no line is new in a log that is being compressed.
LEMMA CopiedStays ==
    ASSUME MaintenanceInv, m' = m,
           \A x \in DOMAIN files : x.kind = "log" =>
               /\ x.gz => files'[x] = files[x]
               /\ \A n \in DOMAIN kept' : n \in files'[x].content =>
                      n \in files[x].content /\ n \in DOMAIN kept /\ kept'[n] = kept[n]
    PROVE  LinesCopied'
<1>1. ASSUME NEW p \in Maintainers, m'[p] # None, m'[p].stage = "log"
      PROVE  LinesOf(p, m[p].file, Gz(m[p].file))'
  <2>1. /\ m[p] # None /\ m[p].stage = "log" /\ m'[p] = m[p] /\ m[p].file \in Names /\ WorksOn(p) /\ m[p].file # None
        /\ m[p].now \in Nat
    BY <1>1, AtWork, NoneIsNothing DEF MaintenanceInv, WorksOn
  <2>2. PICK file \in Names, gz \in Names : file = m[p].file /\ gz = Gz(file) /\ gz.gz /\ gz.kind = file.kind
    BY <2>1, GzOfName
  <2>3. FileOf(p, file) /\ GzOf(p, gz) /\ LinesOf(p, file, gz)
    BY <2>1, <2>2 DEF WorksOn, MaintenanceInv, LinesCopied
  <2>4. file \in DOMAIN files /\ file.kind = "log"
    BY <2>1, <2>3 DEF FileOf, Exists
  <2>5. CASE m[p].step = "unlink"
    <3>1. gz \in DOMAIN files /\ files'[gz] = files[gz]
      BY <2>2, <2>3, <2>4, <2>5 DEF GzOf, Exists
    <3>2. LinesOf(p, file, gz)'
      BY <2>3, <2>4, <2>5, <3>1 DEF LinesOf
    <3> QED  BY <2>1, <2>2, <3>2
  <2>6. CASE m[p].step # "unlink"
    BY <2>1, <2>6 DEF LinesOf
  <2> QED  BY <2>5, <2>6
<1> QED  BY <1>1 DEF LinesCopied

LEMMA CopiedOfStep ==
    ASSUME MaintenanceInv, Next
    PROVE  LinesCopied'
<1>0. Typed /\ FilesTyped /\ day \in Nat /\ PrintedLater /\ RunOK
  BY DEF MaintenanceInv, Typed
<1>1. CASE UNCHANGED <<files, kept, m>>
  BY <1>1, CopiedStays
<1>2. CASE NextDay \/ KillRun
  BY <1>1, <1>2 DEF NextDay, KillRun, data
<1>3. CASE StartRun
  <2>1. UNCHANGED <<m, kept>>
    BY <1>3, StartRunDoes DEF data
  <2>2. \A x \in DOMAIN files : files'[x] = files[x]
    BY <1>3, StartRunDoes DEF Written, Exists
  <2> QED  BY <2>1, <2>2, CopiedStays
<1>4. CASE Capture
  <2>1. UNCHANGED <<m, kept>> /\ run.n \in Nat
    BY <1>4, CaptureDoes
  <2>2. PICK name : name = Plain("raw", day, run.n) /\ name.kind = "raw"
    BY <1>0, <2>1, PlainOf DEF Kinds
  <2>3. \A x \in DOMAIN files : x # name => files'[x] = files[x]
    BY <1>4, <2>2, CaptureDoes DEF Written
  <2> QED  BY <2>1, <2>2, <2>3, CopiedStays
<1>5. CASE Finish
  <2>1. m' = m /\ run # None /\ run.n \in Nat /\ run.n \notin DOMAIN kept
    BY <1>0, <1>5, FinishDoes DEF RunOK
  <2>2. CASE run.out = None
    BY <1>1, <1>5, <2>1, <2>2, FinishDoes
  <2>3. CASE run.out # None
    <3>1. PICK out \in Names : out = run.out /\ Exists(out) /\ ~out.gz
      BY <1>5, <2>3, FinishDoes
    <3>2. PICK content \in SUBSET Nat : content = files[out].content \cup {run.n}
      BY <1>0, <2>1, <3>1 DEF FilesTyped, Exists, Contents
    <3>3. PICK file : file = File(content, TRUE) /\ file.content = content
      BY <1>0, FileOfToday
    <3>4. files'[out] = file /\ \A x \in DOMAIN files : x # out => files'[x] = files[x]
      BY <1>5, <2>3, <3>1, <3>2, <3>3, FinishDoes DEF Written
    <3>5. CASE kept' = kept
      <4>1. \A x \in DOMAIN files : x.kind = "log" =>
               /\ x.gz => files'[x] = files[x]
               /\ \A n \in DOMAIN kept' : n \in files'[x].content =>
                      n \in files[x].content /\ n \in DOMAIN kept /\ kept'[n] = kept[n]
        BY <2>1, <3>1, <3>2, <3>3, <3>4, <3>5
      <4> QED  BY <2>1, <4>1, CopiedStays
    <3>6. CASE out = Active /\ kept' = With(kept, run.n, day)
      <4>1. out.kind = "active"
        BY <3>6, NamesOfFiles DEF Active, Kinds
      <4>2. DOMAIN kept' = DOMAIN kept \cup {run.n} /\ \A n \in DOMAIN kept : n # run.n => kept'[n] = kept[n]
        BY <3>6 DEF With
      <4>3. \A x \in DOMAIN files : x.kind = "log" => run.n \notin files[x].content
        BY <1>0, <2>1 DEF PrintedLater, Printed
      <4>4. \A x \in DOMAIN files : x.kind = "log" => files'[x] = files[x]
        BY <3>4, <4>1
      <4> QED  BY <2>1, <4>2, <4>3, <4>4, CopiedStays
    <3> QED  BY <1>5, <2>3, <3>1, <3>5, <3>6, FinishDoes
  <2> QED  BY <2>2, <2>3
<1>6. ASSUME NEW p \in Maintainers, CopyToGz(p)  PROVE LinesCopied'
  <2>1. /\ m[p] # None /\ m[p].file \in Names /\ m[p].file # None /\ UNCHANGED kept
        /\ m'[p].file = m[p].file /\ \A q \in Maintainers : q # p => m'[q] = None
    BY <1>6, CopyDoes, NoneIsNothing DEF data, Moved
  <2>2. PICK file \in Names, gz \in Names : file = m[p].file /\ gz = Gz(file) /\ gz.gz
    BY <2>1, GzOfName
  <2>3. FileOf(p, file) /\ file \in DOMAIN files
    BY <2>1, <2>2 DEF MaintenanceInv, WorksOn, FileOf, Exists
  <2>4. PICK content \in SUBSET Nat : content = files[file].content
    BY <1>0, <2>3 DEF FilesTyped, Contents
  <2>5. PICK f : f = File(content, TRUE) /\ f.content = content /\ f.mtime = day
    BY <1>0, FileOfToday
  <2>6. files'[gz] = f /\ files'[file] = files[file]
    BY <1>6, <2>2, <2>3, <2>4, <2>5, CopyDoes DEF Written, FileOf
  <2>7. \A n \in DOMAIN kept : kept[n] \in Nat /\ kept[n] <= day
    BY <1>0 DEF Typed
  <2>8. LinesOf(p, file, gz)'
    BY <1>0, <2>1, <2>4, <2>5, <2>6, <2>7 DEF LinesOf
  <2> QED  BY <2>1, <2>2, <2>8 DEF LinesCopied
<1>7. ASSUME NEW p \in Maintainers, OpenGz(p) \/ RotateLogIfNeeded(p)  PROVE LinesCopied'
  <2>1. (m'[p].step \in {"open", "copy"} \/ m'[p].stage = "purge") /\ \A q \in Maintainers : q # p => m'[q] = None
    BY <1>7, OpenDoes, RotateDoes DEF Moved
  <2> QED  BY <2>1 DEF LinesCopied, LinesOf
<1>8. ASSUME NEW p \in Maintainers,
             ProcessRawFile(p) \/ UnlinkPlain(p) \/ PurgeOldLogs(p) \/ BackupDatabase(p) \/ CopyDatabase(p)
      PROVE  LinesCopied'
  <2>1. m'[p].stage # "log" /\ \A q \in Maintainers : q # p => m'[q] = None
    BY <1>8, ProcessDoes, UnlinkDoes, PurgeDoes, BackupDoes, CopyDatabaseDoes DEF Moved
  <2> QED  BY <2>1 DEF LinesCopied
<1>9. ASSUME NEW p \in Maintainers, StartMaintenance(p) \/ KillMaintenance(p) \/ PruneOldBackups(p)  PROVE LinesCopied'
  <2>1. \A q \in Maintainers : m'[q] # None => m'[q].stage = "raw"
    BY <1>9, StartDoes, KillDoes, PruneDoes
  <2> QED  BY <2>1 DEF LinesCopied
<1> QED  BY <1>2, <1>3, <1>4, <1>5, <1>6, <1>7, <1>8, <1>9 DEF Next, Maintenance
-----------------------------------------------------------------------------
(* The backup of the day *)

InHand(p) == m[p] # None /\ m[p].now = day /\ m[p].stage \in {"copying", "db"}

\* What is true of the files of today's backup.
Backup(db, gz) ==
    day \notin killed =>
        /\ (Exists(db) \/ Exists(gz)) => (Exists(gz) /\ files[gz].whole) \/ \E p \in Maintainers : InHand(p)
        /\ \A p \in Maintainers : m[p] # None /\ m[p].now = day /\ m[p].stage = "prune" => Exists(db) \/ Exists(gz)
        /\ completed = day => Exists(gz) /\ files[gz].whole

LEMMA BackupOfOne ==
    ASSUME MaintenanceInv, NEW db, NEW gz, db = Plain("db", day, 0), gz = Gz(db)
    PROVE  Backup(db, gz)
  BY DEF MaintenanceInv, BackupSound, BackupDone, BackupOfTheDay, BackedUp, Backup, InHand

LEMMA BackupOfAll ==
    ASSUME NEW db, NEW gz, db = Plain("db", day', 0), gz = Gz(db), Backup(db, gz)'
    PROVE  BackupSound' /\ BackupDone' /\ BackupOfTheDay'
<1>1. (Exists(db) <=> Exists(Plain("db", day, 0)))' /\ (Exists(gz) <=> Exists(Gz(Plain("db", day, 0))))'
      /\ files'[gz] = files'[Gz(Plain("db", day', 0))]
  BY DEF Exists
<1> QED  BY <1>1 DEF BackupSound, BackupDone, BackupOfTheDay, BackedUp, Backup, InHand

\* No step that is about something else touches it.
LEMMA BackupStays ==
    ASSUME MaintenanceInv, UNCHANGED <<day, killed, completed>>,
           \A x \in Names : x.kind = "db" => /\ x \in DOMAIN files' <=> x \in DOMAIN files
                                             /\ x \in DOMAIN files => files'[x] = files[x],
           \A p \in Maintainers : InHand(p) => InHand(p)',
           \A p \in Maintainers : m'[p] # None /\ m'[p].now = day' /\ m'[p].stage = "prune" =>
               m[p] # None /\ m[p].now = day /\ m[p].stage = "prune"
    PROVE  BackupSound' /\ BackupDone' /\ BackupOfTheDay'
<1>1. day \in Nat
  BY DEF MaintenanceInv, Typed
<1>2. PICK db \in Names, gz \in Names : db = Plain("db", day, 0) /\ gz = Gz(db) /\ db.kind = "db" /\ gz.kind = "db"
  BY <1>1, DbNames
<1>3. (Exists(db)' <=> Exists(db)) /\ (Exists(gz)' <=> Exists(gz)) /\ (Exists(gz) => files'[gz] = files[gz])
  BY <1>2 DEF Exists
<1>4. Backup(db, gz)
  BY <1>2, BackupOfOne
<1>5. Backup(db, gz)'
  BY <1>3, <1>4 DEF Backup
<1> QED  BY <1>2, <1>5, BackupOfAll

\* The steps of the maintenance that makes it.
LEMMA BackupOfBackup ==
    ASSUME MaintenanceInv, NEW p \in Maintainers, BackupDatabase(p) \/ CopyDatabase(p)
    PROVE  BackupSound' /\ BackupDone' /\ BackupOfTheDay'
<1>0. /\ day \in Nat /\ m[p] # None /\ m[p].now \in Nat /\ m[p].now <= day /\ UNCHANGED <<day, killed, completed>>
      /\ m'[p] # None /\ m'[p].now = m[p].now
      /\ \A q \in Maintainers : q # p => m[q] = None /\ m'[q] = None
  BY BackupDoes, CopyDatabaseDoes, AtWork DEF faults, MaintenanceInv, Typed, Moved
<1>1. PICK db \in Names, gz \in Names :
        db = Plain("db", day, 0) /\ gz = Gz(db) /\ ~db.gz /\ gz.gz /\ db.day = day /\ gz.day = day
  BY <1>0, DbNames
<1>2. PICK own \in Names : own = Plain("db", m[p].now, 0) /\ own.day = m[p].now /\ ~own.gz
  BY <1>0, DbNames
<1>3. Backup(db, gz) /\ (own = db <=> m[p].now = day)
  BY <1>1, <1>2, BackupOfOne
<1>4. CASE BackedUp(m[p].now) /\ UNCHANGED files /\ m[p].stage = "backup" /\ m'[p].stage = "prune"
  <2>1. ~InHand(p)
    BY <1>4 DEF InHand
  <2>2. m[p].now = day => Exists(db) \/ Exists(gz)
    BY <1>1, <1>4 DEF BackedUp, Exists
  <2>3. Backup(db, gz)'
    BY <1>0, <1>3, <1>4, <2>1, <2>2 DEF Backup, InHand, Exists
  <2> QED  BY <1>0, <1>1, <2>3, BackupOfAll
<1>5. CASE /\ DOMAIN files' = DOMAIN files \cup {own} /\ \A x \in DOMAIN files : x # own => files'[x] = files[x]
           /\ m[p].stage = "backup" \/ m[p].stage = "copying"
           /\ m'[p].stage = "copying" \/ m'[p].stage = "db"
  <2>1. own # gz
    BY <1>1, <1>2
  <2>2. (Exists(gz)' <=> Exists(gz)) /\ (Exists(gz) => files'[gz] = files[gz])
    BY <1>5, <2>1 DEF Exists
  <2>3. CASE m[p].now = day
    <3>1. InHand(p)'
      BY <1>0, <1>5, <2>3 DEF InHand
    <3>2. Backup(db, gz)'
      BY <1>0, <1>3, <1>5, <2>2, <3>1 DEF Backup
    <3> QED  BY <1>0, <1>1, <3>2, BackupOfAll
  <2>4. CASE m[p].now # day
    <3>1. Exists(db)' <=> Exists(db)
      BY <1>3, <1>5, <2>4 DEF Exists
    <3>2. \A q \in Maintainers : ~InHand(q)
      BY <1>0, <2>4 DEF InHand
    <3>3. Backup(db, gz)'
      BY <1>0, <1>3, <2>2, <2>4, <3>1, <3>2 DEF Backup
    <3> QED  BY <1>0, <1>1, <3>3, BackupOfAll
  <2> QED  BY <2>3, <2>4
<1>6. m[p].stage = "backup" => <1>4!1 \/ <1>5!1
  BY <1>2, BackupDoes, CopyDatabaseDoes DEF Written, Moved
<1>7. m[p].stage = "copying" => <1>5!1
  BY <1>2, BackupDoes, CopyDatabaseDoes DEF Written, Moved
<1> QED  BY <1>4, <1>5, <1>6, <1>7, BackupDoes, CopyDatabaseDoes

\* The steps of its compression.
LEMMA BackupOfCompress ==
    ASSUME MaintenanceInv, NEW p \in Maintainers, m[p].stage = "db", OpenGz(p) \/ CopyToGz(p) \/ UnlinkPlain(p)
    PROVE  BackupSound' /\ BackupDone' /\ BackupOfTheDay'
<1>0. /\ day \in Nat /\ m[p] # None /\ m[p].now \in Nat /\ m[p].now <= day /\ UNCHANGED <<day, killed, completed>>
      /\ m[p].file \in Names /\ m[p].file # None
      /\ m'[p] # None /\ m'[p].now = m[p].now
      /\ \A q \in Maintainers : q # p => m[q] = None /\ m'[q] = None
  BY OpenDoes, CopyDoes, UnlinkDoes, AtWork, NoneIsNothing DEF faults, MaintenanceInv, Typed, Moved
<1>1. PICK db \in Names, gz \in Names :
        db = Plain("db", day, 0) /\ gz = Gz(db) /\ ~db.gz /\ gz.gz /\ db.day = day /\ gz.day = day
  BY <1>0, DbNames
<1>2. PICK own \in Names, owngz \in Names :
        /\ own = m[p].file /\ owngz = Gz(own) /\ own = Plain("db", m[p].now, 0)
        /\ own.day = m[p].now /\ ~own.gz /\ owngz.day = m[p].now /\ owngz.gz
  <2>1. FileOf(p, m[p].file)
    BY <1>0 DEF MaintenanceInv, WorksOn
  <2> QED  BY <1>0, <2>1, DbNames DEF FileOf
<1>3. /\ Backup(db, gz) /\ (own = db <=> m[p].now = day) /\ (owngz = gz <=> m[p].now = day)
      /\ own # gz /\ owngz # db
  BY <1>1, <1>2, BackupOfOne
<1>4. FileOf(p, own) /\ GzOf(p, owngz)
  BY <1>0, <1>2 DEF MaintenanceInv, WorksOn
<1>5. CASE OpenGz(p) \/ CopyToGz(p)
  <2>1. m'[p].stage = "db" /\ DOMAIN files' = DOMAIN files \cup {owngz}
        /\ \A x \in DOMAIN files : x # owngz => files'[x] = files[x]
    BY <1>2, <1>5, OpenDoes, CopyDoes DEF Written, Moved
  <2>2. ~(Exists(owngz) /\ files[owngz].whole)
    BY <1>4, <1>5, OpenDoes, CopyDoes DEF GzOf
  <2>3. CASE m[p].now = day
    <3>1. InHand(p)'
      BY <1>0, <2>1, <2>3 DEF InHand
    <3>2. day \notin killed => completed # day
      BY <1>3, <2>2, <2>3 DEF Backup
    <3>3. Backup(db, gz)'
      BY <1>0, <2>1, <3>1, <3>2 DEF Backup
    <3> QED  BY <1>0, <1>1, <3>3, BackupOfAll
  <2>4. CASE m[p].now # day
    <3>1. (Exists(db)' <=> Exists(db)) /\ (Exists(gz)' <=> Exists(gz)) /\ (Exists(gz) => files'[gz] = files[gz])
      BY <1>3, <2>1, <2>4 DEF Exists
    <3>2. \A q \in Maintainers : ~InHand(q)
      BY <1>0, <2>4 DEF InHand
    <3>3. Backup(db, gz)'
      BY <1>0, <1>3, <2>4, <3>1, <3>2 DEF Backup
    <3> QED  BY <1>0, <1>1, <3>3, BackupOfAll
  <2> QED  BY <2>3, <2>4
<1>6. CASE UnlinkPlain(p)
  <2>1. m'[p].stage = "prune" /\ DOMAIN files' = DOMAIN files \ {own}
        /\ (\A x \in DOMAIN files : x # own => files'[x] = files[x]) /\ m[p].step = "unlink"
    BY <1>2, <1>6, UnlinkDoes DEF Removed, Moved
  <2>2. (Exists(gz)' <=> Exists(gz)) /\ (Exists(gz) => files'[gz] = files[gz])
    BY <1>3, <2>1 DEF Exists
  <2>3. CASE m[p].now = day
    <3>1. Exists(gz) /\ files[gz].whole
      BY <1>3, <1>4, <2>1, <2>3 DEF GzOf
    <3>2. Backup(db, gz)'
      BY <2>2, <3>1 DEF Backup
    <3> QED  BY <1>0, <1>1, <3>2, BackupOfAll
  <2>4. CASE m[p].now # day
    <3>1. Exists(db)' <=> Exists(db)
      BY <1>3, <2>1, <2>4 DEF Exists
    <3>2. \A q \in Maintainers : ~InHand(q)
      BY <1>0, <2>4 DEF InHand
    <3>3. Backup(db, gz)'
      BY <1>0, <1>3, <2>2, <2>4, <3>1, <3>2 DEF Backup
    <3> QED  BY <1>0, <1>1, <3>3, BackupOfAll
  <2> QED  BY <2>3, <2>4
<1> QED  BY <1>5, <1>6

\* No backup is newer than that of today, so it is not one of the old ones.
LEMMA BackupOfPrune ==
    ASSUME MaintenanceInv, NEW p \in Maintainers, PruneOldBackups(p)
    PROVE  BackupSound' /\ BackupDone' /\ BackupOfTheDay'
<1>0. /\ day \in Nat /\ FilesTyped /\ m[p] # None /\ m[p].stage = "prune" /\ UNCHANGED <<day, killed>>
      /\ completed' = m[p].now /\ (\A q \in Maintainers : q # p => m[q] = None)
      /\ \A q \in Maintainers : m'[q] = None
  BY PruneDoes, AtWork DEF faults, MaintenanceInv, Typed
<1>1. PICK db \in Names, gz \in Names : db = Plain("db", day, 0) /\ gz = Gz(db) /\ ~db.gz /\ gz.day = day
  BY <1>0, DbNames
<1>2. PICK gone : gone = OldBackups
  OBVIOUS
<1>3. DOMAIN files' = DOMAIN files \ gone /\ (\A x \in DOMAIN files \ gone : files'[x] = files[x])
  BY <1>2, PruneDoes DEF Removed
<1>4. gz \notin gone /\ db \notin gone
  <2>1. PICK newer : newer = Newer(gz)
    OBVIOUS
  <2>2. \A x \in DOMAIN files : x.day \in Nat /\ ~(x.day > day)
    BY <1>0 DEF FilesTyped, Names
  <2>3. newer = {}
    BY <1>1, <2>1, <2>2 DEF Newer, Named
  <2>4. Cardinality(newer) = 0
    BY <2>3, FS_EmptySet
  <2>5. ~(Cardinality(newer) >= DB_BACKUP_RETENTION_COUNT)
    BY <2>4, MaintenanceAssumption
  <2> QED  BY <1>1, <1>2, <2>1, <2>5 DEF OldBackups
<1>5. (Exists(db)' <=> Exists(db)) /\ (Exists(gz)' <=> Exists(gz)) /\ (Exists(gz) => files'[gz] = files[gz])
  BY <1>3, <1>4 DEF Exists
<1>6. Backup(db, gz)
  BY <1>1, BackupOfOne
<1>7. \A q \in Maintainers : ~InHand(q)
  BY <1>0 DEF InHand
<1>8. Backup(db, gz)'
  BY <1>0, <1>5, <1>6, <1>7 DEF Backup
<1> QED  BY <1>0, <1>1, <1>8, BackupOfAll

LEMMA BackupOfStep ==
    ASSUME MaintenanceInv, Next
    PROVE  BackupSound' /\ BackupDone' /\ BackupOfTheDay'
<1>0. Typed /\ FilesTyped /\ day \in Nat
  BY DEF MaintenanceInv, Typed
<1>1. CASE NextDay
  <2>1. /\ day' = day + 1 /\ completed \in Int /\ completed <= day /\ UNCHANGED <<files, m, completed, killed>>
        /\ \A p \in Maintainers : m[p] # None => m[p].now \in Nat /\ m[p].now <= day
    BY <1>0, <1>1, AtWork DEF NextDay, faults, Typed
  <2>2. PICK db \in Names, gz \in Names : db = Plain("db", day', 0) /\ gz = Gz(db) /\ db.day = day' /\ gz.day = day'
    BY <1>0, <2>1, DbNames
  <2>3. ~Exists(db)' /\ ~Exists(gz)'
    BY <1>0, <2>1, <2>2 DEF FilesTyped, Exists
  <2>4. completed' # day' /\ \A p \in Maintainers : m'[p] # None => m'[p].now # day'
    BY <1>0, <2>1
  <2>5. Backup(db, gz)'
    BY <2>3, <2>4 DEF Backup
  <2> QED  BY <2>2, <2>5, BackupOfAll
<1>2. CASE StartRun \/ Capture \/ Finish \/ KillRun
  <2>1. PICK name : RunWrites(name)
    BY <1>2, RunsWrite
  <2>2. UNCHANGED <<day, m, killed, completed>> /\ name.kind # "db"
    BY <2>1 DEF RunWrites
  <2>3. \A x \in Names : x.kind = "db" => /\ x \in DOMAIN files' <=> x \in DOMAIN files
                                          /\ x \in DOMAIN files => files'[x] = files[x]
    BY <2>1 DEF RunWrites
  <2> QED  BY <2>2, <2>3, BackupStays DEF InHand
<1>3. ASSUME NEW p \in Maintainers, StartMaintenance(p)
      PROVE  BackupSound' /\ BackupDone' /\ BackupOfTheDay'
  <2>1. UNCHANGED <<day, files, killed, completed>> /\ (\A q \in Maintainers : m[q] = None)
        /\ \A q \in Maintainers : m'[q] # None => m'[q].stage = "raw"
    BY <1>3, StartDoes DEF faults
  <2> QED  BY <2>1, BackupStays DEF InHand
<1>4. ASSUME NEW p \in Maintainers, KillMaintenance(p)
      PROVE  BackupSound' /\ BackupDone' /\ BackupOfTheDay'
  <2>1. day' \in killed'
    BY <1>4, KillDoes
  <2> QED  BY <2>1 DEF BackupSound, BackupDone, BackupOfTheDay
<1>5. ASSUME NEW p \in Maintainers, ProcessRawFile(p)
      PROVE  BackupSound' /\ BackupDone' /\ BackupOfTheDay'
  <2>1. PICK name \in m[p].todo : UNCHANGED files \/ Removed({name})
    BY <1>5, ProcessDoes
  <2>2. name.kind = "raw"
    BY <1>5, ProcessDoes DEF MaintenanceInv, WorksOn
  <2>3. /\ UNCHANGED <<day, killed, completed>> /\ m[p].stage = "raw" /\ m'[p].stage = "raw"
        /\ \A q \in Maintainers : q # p => m[q] = None /\ m'[q] = None
    BY <1>5, ProcessDoes DEF faults, Moved
  <2>4. \A x \in Names : x.kind = "db" => /\ x \in DOMAIN files' <=> x \in DOMAIN files
                                          /\ x \in DOMAIN files => files'[x] = files[x]
    BY <2>1, <2>2 DEF Removed
  <2> QED  BY <2>3, <2>4, BackupStays DEF InHand
<1>6. ASSUME NEW p \in Maintainers, OpenGz(p) \/ CopyToGz(p) \/ UnlinkPlain(p), m[p].stage # "db"
      PROVE  BackupSound' /\ BackupDone' /\ BackupOfTheDay'
  <2>1. /\ UNCHANGED <<day, killed, completed>> /\ m[p] # None /\ m[p].file \in Names /\ m[p].file # None
        /\ m'[p].stage \notin {"copying", "db", "prune"}
        /\ \A q \in Maintainers : q # p => m[q] = None /\ m'[q] = None
    <3>1. m[p] # None /\ m[p].file \in Names /\ m[p].file # None
      BY <1>6, OpenDoes, CopyDoes, UnlinkDoes, NoneIsNothing DEF Moved
    <3>2. m[p].stage \in {"raw", "log"}
      BY <1>6, <3>1 DEF MaintenanceInv, WorksOn, FileOf
    <3> QED  BY <1>6, <3>1, <3>2, OpenDoes, CopyDoes, UnlinkDoes DEF faults, Moved
  <2>2. PICK file \in Names, gz \in Names : file = m[p].file /\ gz = Gz(file) /\ gz.kind = file.kind
    BY <2>1, GzOfName
  <2>3. FileOf(p, file)
    BY <2>1, <2>2 DEF MaintenanceInv, WorksOn
  <2>4. file.kind # "db" /\ m[p].stage \notin {"copying", "db"}
    BY <1>6, <2>3 DEF FileOf
  <2>5. \/ DOMAIN files' = DOMAIN files \cup {gz} /\ \A x \in DOMAIN files : x # gz => files'[x] = files[x]
        \/ DOMAIN files' = DOMAIN files \ {file} /\ \A x \in DOMAIN files : x # file => files'[x] = files[x]
    BY <1>6, <2>2, OpenDoes, CopyDoes, UnlinkDoes DEF Written, Removed
  <2>6. \A x \in Names : x.kind = "db" => /\ x \in DOMAIN files' <=> x \in DOMAIN files
                                          /\ x \in DOMAIN files => files'[x] = files[x]
    BY <2>2, <2>4, <2>5
  <2> QED  BY <2>1, <2>4, <2>6, BackupStays DEF InHand
<1>7. ASSUME NEW p \in Maintainers, RotateLogIfNeeded(p)
      PROVE  BackupSound' /\ BackupDone' /\ BackupOfTheDay'
  <2>1. /\ UNCHANGED <<day, killed, completed>> /\ m[p].stage = "raw" /\ m'[p].stage \in {"purge", "log"}
        /\ \A q \in Maintainers : q # p => m[q] = None /\ m'[q] = None
    BY <1>7, RotateDoes DEF faults, Moved
  <2>2. Active.kind = "active"
    BY NamesOfFiles DEF Active, Kinds
  <2>3. \A x \in Names : x.kind = "db" => /\ x \in DOMAIN files' <=> x \in DOMAIN files
                                          /\ x \in DOMAIN files => files'[x] = files[x]
    BY <1>7, <2>2, RotateDoes
  <2> QED  BY <2>1, <2>3, BackupStays DEF InHand
<1>8. ASSUME NEW p \in Maintainers, PurgeOldLogs(p)
      PROVE  BackupSound' /\ BackupDone' /\ BackupOfTheDay'
  <2>1. /\ UNCHANGED <<day, killed, completed>> /\ m[p].stage = "purge" /\ m'[p].stage = "backup"
        /\ \A q \in Maintainers : q # p => m[q] = None /\ m'[q] = None
    BY <1>8, PurgeDoes DEF faults, Moved
  <2>2. PICK gone : gone = {name \in Named("log") :
                    name.gz /\ m[p].now - files[name].mtime >= LOG_COMPRESSED_RETENTION_DAYS}
    OBVIOUS
  <2>3. DOMAIN files' = DOMAIN files \ gone /\ (\A x \in DOMAIN files \ gone : files'[x] = files[x])
        /\ \A x \in gone : x.kind = "log"
    BY <1>8, <2>2, PurgeDoes DEF Removed, Named
  <2>4. \A x \in Names : x.kind = "db" => /\ x \in DOMAIN files' <=> x \in DOMAIN files
                                          /\ x \in DOMAIN files => files'[x] = files[x]
    BY <2>3
  <2> QED  BY <2>1, <2>4, BackupStays DEF InHand
<1> QED  BY <1>1, <1>2, <1>3, <1>4, <1>5, <1>6, <1>7, <1>8, BackupOfBackup, BackupOfCompress, BackupOfPrune DEF Next, Maintenance
-----------------------------------------------------------------------------
(* The invariant *)

LEMMA MaintenanceInit == Init => MaintenanceInv
<1> SUFFICES ASSUME Init  PROVE MaintenanceInv
  OBVIOUS
<1>1. /\ day = 0 /\ DOMAIN files = {} /\ run = None /\ runs = 0 /\ m = [p \in Maintainers |-> None]
      /\ commits = 0 /\ DOMAIN kept = {} /\ completed = -1 /\ failed = FALSE
  BY DEF Init
<1>2. IsFiniteSet(DOMAIN files)
  BY <1>1, FS_EmptySet
<1>3. Typed
  BY <1>1, <1>2 DEF Typed, FilesTyped
<1>4. RunOK /\ Alone /\ \A p \in Maintainers : WorksOn(p)
  BY <1>1 DEF RunOK, Alone, WorksOn
<1>5. RawSound /\ RawSettled /\ RetentionKept
  BY <1>1 DEF RawSound, RawSettled, RetentionKept, Named
<1>6. LinesThere /\ LinesCopied /\ PrintedLater
  BY <1>1 DEF LinesThere, LinesCopied, PrintedLater
<1>7. BackupSound /\ BackupDone /\ BackupOfTheDay
  BY <1>1 DEF BackupSound, BackedUp, BackupDone, BackupOfTheDay, Exists
<1> QED  BY <1>3, <1>4, <1>5, <1>6, <1>7 DEF MaintenanceInv

LEMMA MaintenanceStep == MaintenanceInv /\ [Next]_vars => MaintenanceInv'
<1>1. ASSUME MaintenanceInv, Next  PROVE MaintenanceInv'
  <2>1. Typed' /\ FilesTyped'
    BY <1>1, TypedOfStep DEF Typed
  <2>2. RunOK' /\ Alone' /\ \A p \in Maintainers : WorksOn(p)'
    BY <1>1, RunOfStep, AloneOfStep, WorksOfStep
  <2>3. RawSound' /\ RawSettled' /\ RetentionKept'
    BY <1>1, <2>1, RawOfStep
  <2>4. LinesThere' /\ LinesCopied' /\ PrintedLater'
    BY <1>1, <2>1, LinesOfStep, CopiedOfStep, PrintedOfStep
  <2>5. BackupSound' /\ BackupDone' /\ BackupOfTheDay'
    BY <1>1, BackupOfStep
  <2> QED  BY <2>1, <2>2, <2>3, <2>4, <2>5 DEF MaintenanceInv
<1>2. ASSUME MaintenanceInv, UNCHANGED vars  PROVE MaintenanceInv'
  <2>1. UNCHANGED <<day, files, run, runs, m, lock, commits, kept, killed, kills, failed, completed>>
    BY <1>2 DEF vars, data, faults
  <2>2. Typed' /\ RunOK' /\ Alone' /\ \A p \in Maintainers : WorksOn(p)'
    BY <1>2, <2>1 DEF MaintenanceInv, Typed, FilesTyped, RunOK, Alone, WorksOn, FileOf, GzOf, Copying, Exists
  <2>3. RawSound' /\ RawSettled' /\ RetentionKept'
    BY <1>2, <2>1 DEF MaintenanceInv, RawSound, Sound, RawSettled, Settled, Pending, RetentionKept, Named, Exists
  <2>4. LinesThere' /\ LinesCopied' /\ PrintedLater'
    BY <1>2, <2>1 DEF MaintenanceInv, LinesThere, LineKept, LinesCopied, LinesOf, PrintedLater, Printed, Named
  <2>5. BackupSound' /\ BackupDone' /\ BackupOfTheDay'
    BY <1>2, <2>1 DEF MaintenanceInv, BackupSound, BackupDone, BackupOfTheDay, BackedUp, Exists
  <2> QED  BY <2>2, <2>3, <2>4, <2>5 DEF MaintenanceInv
<1> QED  BY <1>1, <1>2

LEMMA MaintenanceIsSound == Spec => []MaintenanceInv
  BY MaintenanceInit, MaintenanceStep, PTL DEF Spec
-----------------------------------------------------------------------------
(* What follows from it *)

LEMMA CapturesAreReadable == MaintenanceInv => CapturesReadable
<1> SUFFICES ASSUME MaintenanceInv, NEW n \in 1 .. runs, NEW d \in 0 .. MaxDay,
                    day - d < RAW_COMPRESSED_RETENTION_DAYS,
                    Exists(Plain("raw", d, n)) \/ Exists(Gz(Plain("raw", d, n)))
             PROVE  \/ Exists(Plain("raw", d, n)) /\ files[Plain("raw", d, n)].whole
                    \/ files[Gz(Plain("raw", d, n))].whole
  BY DEF CapturesReadable
<1>1. n \in Nat /\ d \in Nat /\ day \in Nat
  BY MaintenanceAssumption DEF MaintenanceInv, Typed
<1>2. PICK name \in Names, gz \in Names : name = Plain("raw", d, n) /\ gz = Gz(name)
  BY <1>1, NamesOfFiles DEF Kinds
<1>3. Twin(name, name) /\ Twin(gz, name) /\ ~name.gz /\ gz.gz /\ gz.day = d
  BY <1>1, <1>2, NamesOfFiles DEF Twin, Kinds
<1>4. CASE Exists(name)
  <2>1. Sound(name, name)
    BY <1>3, <1>4, RawOfOne DEF Exists
  <2> QED  BY <1>2, <1>3, <1>4, <2>1 DEF Sound
<1>5. CASE ~Exists(name) /\ Exists(gz)
  <2>1. Sound(gz, name)
    BY <1>3, <1>5, RawOfOne DEF Exists
  <2> QED  BY <1>1, <1>2, <1>3, <1>5, <2>1, MaintenanceAssumption DEF Sound
<1> QED  BY <1>2, <1>4, <1>5

\* No step takes a capture before its time, or writes over a backup that is whole.
LEMMA CaptureIsRetained ==
    ASSUME MaintenanceInv, Next, NEW name \in Named("raw"), day - name.day < RAW_COMPRESSED_RETENTION_DAYS
    PROVE  \E other \in DOMAIN files' : other = name \/ other = Gz(name)
<1>0. FilesTyped /\ day \in Nat /\ name \in DOMAIN files /\ name \in Names /\ name.kind = "raw" /\ name.day \in Nat
  BY DEF MaintenanceInv, Typed, FilesTyped, Named, Names
<1>1. CASE name \in DOMAIN files'
  BY <1>1
<1>2. CASE StartRun \/ Capture \/ Finish \/ KillRun
  <2>1. PICK x : RunWrites(x)
    BY <1>2, RunsWrite
  <2> QED  BY <1>0, <1>1, <2>1 DEF RunWrites
<1>3. ASSUME NEW p \in Maintainers, ProcessRawFile(p)  PROVE name \in DOMAIN files'
  <2>1. m[p].now \in Nat /\ m[p].now <= day
    BY <1>3, ProcessDoes, AtWork
  <2>2. PICK x \in m[p].todo : UNCHANGED files \/ (Removed({x}) /\ m[p].now - x.day >= RAW_COMPRESSED_RETENTION_DAYS)
    BY <1>3, ProcessDoes
  <2>3. CASE UNCHANGED files
    BY <1>0, <2>3
  <2>4. CASE Removed({x}) /\ m[p].now - x.day >= RAW_COMPRESSED_RETENTION_DAYS
    <3>1. x # name
      BY <1>0, <2>1, <2>4, MaintenanceAssumption
    <3> QED  BY <1>0, <2>4, <3>1 DEF Removed
  <2> QED  BY <2>2, <2>3, <2>4
<1>4. ASSUME NEW p \in Maintainers, UnlinkPlain(p)  PROVE \E other \in DOMAIN files' : other = name \/ other = Gz(name)
  <2>1. m[p] # None /\ m[p].file \in Names /\ m[p].file # None /\ m[p].step = "unlink"
    BY <1>4, UnlinkDoes, NoneIsNothing DEF Moved
  <2>2. PICK file \in Names, gz \in Names : file = m[p].file /\ gz = Gz(file) /\ gz.gz
    BY <2>1, GzOfName
  <2>3. FileOf(p, file) /\ GzOf(p, gz)
    BY <2>1, <2>2 DEF MaintenanceInv, WorksOn
  <2>4. DOMAIN files' = DOMAIN files \ {file} /\ gz \in DOMAIN files'
    BY <1>4, <2>1, <2>2, <2>3, UnlinkDoes DEF Removed, FileOf, GzOf, Exists
  <2> QED  BY <1>0, <2>2, <2>4
<1>5. ASSUME NEW p \in Maintainers, OpenGz(p) \/ CopyToGz(p) \/ BackupDatabase(p) \/ CopyDatabase(p)
      PROVE  name \in DOMAIN files'
  BY <1>0, <1>5, OpenDoes, CopyDoes, BackupDoes, CopyDatabaseDoes DEF Written
<1>6. ASSUME NEW p \in Maintainers, RotateLogIfNeeded(p)  PROVE name \in DOMAIN files'
  <2>1. Active.kind = "active"
    BY NamesOfFiles DEF Active, Kinds
  <2> QED  BY <1>0, <1>6, <2>1, RotateDoes
<1>7. ASSUME NEW p \in Maintainers, PurgeOldLogs(p)  PROVE name \in DOMAIN files'
  <2>1. PICK gone : gone = {x \in Named("log") :
                    x.gz /\ m[p].now - files[x].mtime >= LOG_COMPRESSED_RETENTION_DAYS}
    OBVIOUS
  <2>2. DOMAIN files' = DOMAIN files \ gone /\ \A x \in gone : x.kind = "log"
    BY <1>7, <2>1, PurgeDoes DEF Removed, Named
  <2> QED  BY <1>0, <2>2
<1>8. ASSUME NEW p \in Maintainers, PruneOldBackups(p)  PROVE name \in DOMAIN files'
  <2>1. PICK gone : gone = OldBackups
    OBVIOUS
  <2>2. DOMAIN files' = DOMAIN files \ gone /\ \A x \in gone : x.kind = "db"
    BY <1>8, <2>1, PruneDoes DEF Removed, OldBackups, Named
  <2> QED  BY <1>0, <2>2
<1>9. ASSUME NEW p \in Maintainers, StartMaintenance(p) \/ KillMaintenance(p)  PROVE name \in DOMAIN files'
  BY <1>0, <1>9, StartDoes, KillDoes
<1>10. CASE NextDay
  BY <1>0, <1>1, <1>10 DEF NextDay
<1> QED  BY <1>1, <1>2, <1>3, <1>4, <1>5, <1>6, <1>7, <1>8, <1>9, <1>10 DEF Next, Maintenance

LEMMA BackupIsUnchanged ==
    ASSUME MaintenanceInv, Next, NEW name \in DOMAIN files, name \in DOMAIN files', name.kind = "db", files[name].whole
    PROVE  files'[name] = files[name]
<1>0. day \in Nat /\ name \in Names
  BY DEF MaintenanceInv, Typed, FilesTyped
<1>1. CASE StartRun \/ Capture \/ Finish \/ KillRun
  <2>1. PICK x : RunWrites(x)
    BY <1>1, RunsWrite
  <2> QED  BY <2>1 DEF RunWrites
<1>2. ASSUME NEW p \in Maintainers, OpenGz(p) \/ CopyToGz(p)  PROVE files'[name] = files[name]
  <2>1. m[p] # None /\ m[p].file \in Names /\ m[p].file # None /\ m[p].now \in Nat
    BY <1>2, OpenDoes, CopyDoes, AtWork, NoneIsNothing DEF Moved
  <2>2. PICK file \in Names, gz \in Names : file = m[p].file /\ gz = Gz(file) /\ gz.kind = file.kind
    BY <2>1, GzOfName
  <2>3. FileOf(p, file) /\ GzOf(p, gz)
    BY <2>1, <2>2 DEF MaintenanceInv, WorksOn
  <2>4. name # gz
    <3>1. SUFFICES ASSUME name = gz  PROVE FALSE
      OBVIOUS
    <3>2. m[p].stage # "raw"
      BY <2>2, <2>3, <3>1 DEF FileOf
    <3> QED  BY <1>2, <2>3, <3>1, <3>2, OpenDoes, CopyDoes DEF GzOf, Exists
  <2>5. \A x \in DOMAIN files : x # gz => files'[x] = files[x]
    BY <1>2, <2>2, OpenDoes, CopyDoes DEF Written
  <2> QED  BY <2>4, <2>5
<1>3. ASSUME NEW p \in Maintainers, BackupDatabase(p) \/ CopyDatabase(p)  PROVE files'[name] = files[name]
  <2>1. m[p].now \in Nat
    BY <1>3, BackupDoes, CopyDatabaseDoes, AtWork DEF Moved
  <2>2. PICK own \in Names : own = Plain("db", m[p].now, 0)
    BY <2>1, DbNames
  <2>3. UNCHANGED files \/ \A x \in DOMAIN files : x # own => files'[x] = files[x]
    BY <1>3, <2>2, BackupDoes, CopyDatabaseDoes DEF Written
  <2>4. UNCHANGED files \/ name # own
    <3>1. CASE BackupDatabase(p)
      BY <2>2, <3>1, BackupDoes DEF BackedUp, Exists
    <3>2. CASE CopyDatabase(p)
      BY <2>2, <3>2, CopyDatabaseDoes DEF Moved, MaintenanceInv, WorksOn, Copying
    <3> QED  BY <1>3, <3>1, <3>2
  <2> QED  BY <2>3, <2>4
<1>4. ASSUME NEW p \in Maintainers, ProcessRawFile(p) \/ UnlinkPlain(p) \/ PurgeOldLogs(p) \/ PruneOldBackups(p)
      PROVE  files'[name] = files[name]
  <2>1. \E gone : UNCHANGED files \/ Removed(gone)
    BY <1>4, ProcessDoes, UnlinkDoes, PurgeDoes, PruneDoes
  <2> QED  BY <2>1 DEF Removed
<1>5. ASSUME NEW p \in Maintainers, RotateLogIfNeeded(p)  PROVE files'[name] = files[name]
  <2>1. Active.kind = "active"
    BY NamesOfFiles DEF Active, Kinds
  <2> QED  BY <1>5, <2>1, RotateDoes
<1>6. ASSUME NEW p \in Maintainers, StartMaintenance(p) \/ KillMaintenance(p)  PROVE files'[name] = files[name]
  BY <1>6, StartDoes, KillDoes
<1>7. CASE NextDay
  BY <1>7 DEF NextDay
<1> QED  BY <1>1, <1>2, <1>3, <1>4, <1>5, <1>6, <1>7 DEF Next, Maintenance
-----------------------------------------------------------------------------
\* Whichever step of a compression or a rotation a maintenance is killed at, no capture and no
\* line that is still to be kept is lost, and one process at a time works (_compress_file,
\* rotate_log_if_needed, purge_old_logs, pipeline_lock.py).
THEOREM NothingEverLost == Spec => []NothingLost
<1>1. MaintenanceInv => NothingLost
  <2> SUFFICES ASSUME MaintenanceInv  PROVE NothingLost
    OBVIOUS
  <2>1. MaintenanceTypeOK
    <3>1. ASSUME NEW p \in Maintainers, m[p] # None, m[p].file # None
          PROVE  Exists(m[p].file) /\ (m[p].step # "open" => Exists(Gz(m[p].file)))
      BY <3>1 DEF MaintenanceInv, WorksOn, FileOf, GzOf
    <3> QED  BY <3>1 DEF MaintenanceTypeOK, MaintenanceInv, Alone
  <2>2. LinesKept
    <3>1. ASSUME NEW n \in DOMAIN kept, day - kept[n] < LOG_COMPRESSED_RETENTION_DAYS
          PROVE  \E name \in Named("active") \cup Named("log") : files[name].whole /\ n \in files[name].content
      <4>1. LineKept(n) /\ day \in Nat /\ kept[n] \in Nat
        BY <3>1 DEF MaintenanceInv, LinesThere, Typed
      <4>2. ~(day - kept[n] >= LOG_COMPRESSED_RETENTION_DAYS)
        BY <3>1, <4>1, MaintenanceAssumption
      <4> QED  BY <4>1, <4>2 DEF LineKept
    <3> QED  BY <3>1 DEF LinesKept
  <2> QED  BY <2>1, <2>2, CapturesAreReadable DEF NothingLost
<1> QED  BY <1>1, MaintenanceIsSound, PTL

\* A maintenance that ended well today left no file over its time and no half-written .gz, and
\* the backup of the day is there and whole unless one was killed today (process_raw_files,
\* backup_database, prune_old_backups).
THEOREM DayAlwaysComplete == Spec => []DayComplete
<1>1. MaintenanceInv => DayComplete
  BY DEF MaintenanceInv, DayComplete
<1> QED  BY <1>1, MaintenanceIsSound, PTL

\* No step removes a capture before its time, and none writes over a backup that was finished.
THEOREM AlwaysKeptInTime == Spec => KeptInTime
<1>1. MaintenanceInv /\ [Next]_vars =>
        [\A name \in Named("raw") :
            day - name.day < RAW_COMPRESSED_RETENTION_DAYS =>
                \E other \in DOMAIN files' : other = name \/ other = Gz(name)]_vars
  BY CaptureIsRetained
<1>2. MaintenanceInv /\ [Next]_vars =>
        [\A name \in DOMAIN files \cap DOMAIN files' :
            (name.kind = "db" /\ files[name].whole) => files'[name] = files[name]]_vars
  BY BackupIsUnchanged
<1> QED  BY <1>1, <1>2, MaintenanceIsSound, PTL DEF Spec, KeptInTime, CapturesRetained, BackupsUnchanged
=============================================================================
