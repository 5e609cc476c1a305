--------------------------- MODULE DataMaintenance ---------------------------
(* The directories of data, logs and backups: the hourly run adds to them, the *)
(* daily maintenance compresses, rotates, copies and deletes in them, each     *)
(* under a lock of its own, and both may be killed at any step. A .gz file is a *)
(* file of its own, half written until the copy ends.                          *)
EXTENDS Integers, FiniteSets

CONSTANTS
    None,
    Maintainers,    \* the processes that may be started to maintain the data
    MaxDay,         \* the last day
    MaxRuns,        \* how many runs there may be
    MaxKills,       \* how many processes may be killed
    RAW_UNCOMPRESSED_DAYS, RAW_COMPRESSED_RETENTION_DAYS,
    LOG_COMPRESSED_RETENTION_DAYS, DB_BACKUP_RETENTION_COUNT

VARIABLES
    day,
    files,      \* [content, whole, mtime] of each file there is
    run,        \* the run in progress: [n, out, captured], or None
    runs,       \* how many runs there were
    m,          \* each maintenance: [stage, now, todo, file, step], or None
    lock,       \* the maintenance that holds the lock, or None
    commits,    \* how often the database was written
    kept,       \* the days on which runs printed to the active log
    killed,     \* the days on which a maintenance was killed
    kills,      \* how many processes were killed
    completed,  \* the day of the last maintenance that ended well, or -1
    failed      \* whether a maintenance found a file gone that it was working on

data == <<commits, kept>>
faults == <<killed, kills, failed>>
vars == <<day, files, run, runs, m, lock, data, faults, completed>>

MIN_FILE_AGE_DAYS == 1

Kinds == {"raw", "active", "log", "db"}
Names == [kind : Kinds, day : Nat, n : Nat, gz : BOOLEAN]
Contents == [content : SUBSET Nat, whole : BOOLEAN, mtime : Nat]
Runs == [n : Nat, out : Names \cup {None}, captured : BOOLEAN]
Stages == {"raw", "log", "purge", "backup", "copying", "db", "prune"}
Works == [stage : Stages, now : Nat, todo : SUBSET Names,
          file : Names \cup {None}, step : {"open", "copy", "unlink", None}]

\* None is no file, no run and no maintenance. What is of today is never due.
ASSUME MaintenanceAssumption ==
    /\ None \notin Maintainers \cup Names \cup Runs \cup Works /\ MaxDay \in Nat
    /\ RAW_UNCOMPRESSED_DAYS \in Nat /\ RAW_UNCOMPRESSED_DAYS >= MIN_FILE_AGE_DAYS
    /\ RAW_COMPRESSED_RETENTION_DAYS \in Nat /\ RAW_COMPRESSED_RETENTION_DAYS >= MIN_FILE_AGE_DAYS
    /\ LOG_COMPRESSED_RETENTION_DAYS \in Nat
    /\ DB_BACKUP_RETENTION_COUNT \in Nat \ {0}

\* Raw captures and backups are named for a day, rotated logs for a day and a counter.
Plain(kind, d, n) == [kind |-> kind, day |-> d, n |-> n, gz |-> FALSE]
Gz(name) == [name EXCEPT !.gz = TRUE]
Active == Plain("active", 0, 0)

Exists(name) == name \in DOMAIN files
Named(kind) == {name \in DOMAIN files : name.kind = kind}
File(content, whole) == [content |-> content, whole |-> whole, mtime |-> day]
With(fs, name, file) == [x \in DOMAIN fs \cup {name} |-> IF x = name THEN file ELSE fs[x]]
Without(fs, names) == [x \in DOMAIN fs \ names |-> fs[x]]

Init ==
    /\ day = 0 /\ files = <<>>
    /\ run = None /\ runs = 0
    /\ m = [p \in Maintainers |-> None] /\ lock = None
    /\ commits = 0 /\ kept = <<>>
    /\ killed = {} /\ kills = 0 /\ completed = -1 /\ failed = FALSE

NextDay ==
    /\ day < MaxDay /\ day' = day + 1
    /\ UNCHANGED <<files, run, runs, m, lock, data, faults, completed>>
-----------------------------------------------------------------------------
(* The run. launchd appends what it prints to the log that is active when it starts *)

StartRun ==
    /\ run = None /\ runs < MaxRuns
    /\ runs' = runs + 1
    /\ run' = [n |-> runs', out |-> Active, captured |-> FALSE]
    /\ files' = IF Exists(Active) THEN files ELSE With(files, Active, File({}, TRUE))
    /\ UNCHANGED <<day, m, lock, data, faults, completed>>

Capture ==
    /\ run # None /\ ~run.captured
    /\ files' = With(files, Plain("raw", day, run.n), File({run.n}, TRUE))
    /\ run' = [run EXCEPT !.captured = TRUE]
    /\ commits' = commits + 1
    /\ UNCHANGED <<day, runs, m, lock, kept, faults, completed>>

\* A run prints to the file it has open, wherever that was moved to.
Finish ==
    /\ run # None /\ run.captured
    /\ files' = IF Exists(run.out) THEN With(files, run.out, File(files[run.out].content \cup {run.n}, TRUE)) ELSE files
    /\ kept' = IF run.out = Active THEN With(kept, run.n, day) ELSE kept
    /\ run' = None
    /\ UNCHANGED <<day, runs, m, lock, commits, faults, completed>>

KillRun ==
    /\ run # None /\ kills < MaxKills
    /\ run' = None /\ kills' = kills + 1
    /\ UNCHANGED <<day, files, runs, m, lock, data, killed, failed, completed>>
-----------------------------------------------------------------------------
(* The maintenance: raw files, the log, old logs, the backup, old backups *)

Goes(p, w) == m' = [m EXCEPT ![p] = w]
At(p, stage) == m[p] # None /\ m[p].stage = stage /\ m[p].file = None

\* One instance at a time; a second one gives up at once.
StartMaintenance(p) ==
    /\ m[p] = None /\ lock = None
    /\ lock' = p
    /\ Goes(p, [stage |-> "raw", now |-> day, todo |-> Named("raw"), file |-> None, step |-> None])
    /\ UNCHANGED <<day, files, run, runs, data, faults, completed>>

\* The kernel frees the lock of a process that is gone.
KillMaintenance(p) ==
    /\ m[p] # None /\ kills < MaxKills
    /\ Goes(p, None) /\ lock' = IF lock = p THEN None ELSE lock
    /\ kills' = kills + 1 /\ killed' = killed \cup {day}
    /\ UNCHANGED <<day, files, run, runs, data, failed, completed>>

\* Bug variant: the two ages are swapped.
ClassifyRawFile_Swapped(name, age) ==
    CASE age >= RAW_UNCOMPRESSED_DAYS -> "DELETE"
      [] age < RAW_UNCOMPRESSED_DAYS /\ ~name.gz /\ age >= RAW_COMPRESSED_RETENTION_DAYS -> "COMPRESS"
      [] OTHER -> "KEEP"

\* By the age that is in the name.
ClassifyRawFile(name, age) ==
    CASE age >= RAW_COMPRESSED_RETENTION_DAYS -> "DELETE"
      [] age < RAW_COMPRESSED_RETENTION_DAYS /\ ~name.gz /\ age >= RAW_UNCOMPRESSED_DAYS -> "COMPRESS"
      [] OTHER -> "KEEP"

\* One of those that were listed. The code sorts them; what is done to one depends on no
\* other, so here they come in any order. A file that is gone, or of today, is passed over.
ProcessRawFile(p) ==
    /\ At(p, "raw")
    /\ \E name \in m[p].todo :
       LET rest == [m[p] EXCEPT !.todo = @ \ {name}]
           action == IF ~Exists(name) \/ m[p].now - name.day < MIN_FILE_AGE_DAYS THEN "KEEP"
                     ELSE ClassifyRawFile(name, m[p].now - name.day) IN
       /\ files' = IF action = "DELETE" THEN Without(files, {name}) ELSE files
       /\ Goes(p, IF action = "COMPRESS" THEN [rest EXCEPT !.file = name, !.step = "open"] ELSE rest)
    /\ UNCHANGED <<day, run, runs, lock, data, faults, completed>>

\* _compress_file: a new .gz, or an old one from its start again; the copy; the unlink.
OpenGz(p) ==
    /\ m[p] # None /\ m[p].file # None /\ m[p].step = "open"
    /\ files' = With(files, Gz(m[p].file), File({}, FALSE))
    /\ Goes(p, [m[p] EXCEPT !.step = "copy"])
    /\ UNCHANGED <<day, run, runs, lock, data, faults, completed>>

CopyToGz(p) ==
    /\ m[p] # None /\ m[p].file # None /\ m[p].step = "copy" /\ Exists(m[p].file)
    /\ files' = With(files, Gz(m[p].file), File(files[m[p].file].content, TRUE))
    /\ Goes(p, [m[p] EXCEPT !.step = "unlink"])
    /\ UNCHANGED <<day, run, runs, lock, data, faults, completed>>

After(stage) == CASE stage = "raw" -> "raw" [] stage = "log" -> "purge" [] stage = "db" -> "prune"

\* A run that prints to the file goes on printing to nothing.
UnlinkPlain(p) ==
    /\ m[p] # None /\ m[p].file # None /\ m[p].step = "unlink"
    /\ IF Exists(m[p].file)
       THEN /\ files' = Without(files, {m[p].file})
            /\ run' = IF run # None /\ run.out = m[p].file THEN [run EXCEPT !.out = None] ELSE run
            /\ Goes(p, [m[p] EXCEPT !.stage = After(@), !.file = None, !.step = None])
            /\ UNCHANGED <<lock, failed>>
       ELSE /\ failed' = TRUE /\ Goes(p, None) /\ lock' = None
            /\ UNCHANGED <<files, run>>
    /\ UNCHANGED <<day, runs, data, killed, kills, completed>>

\* Bug variant: there is no counter.
RotatedName_Day(d) == Plain("log", d, 0)

\* The first name of the day of which there is neither the file nor its .gz.
RotatedName(d) ==
    LET free == {n \in 0 .. Cardinality(DOMAIN files) : ~Exists(Plain("log", d, n)) /\ ~Exists(Gz(Plain("log", d, n)))} IN
    Plain("log", d, CHOOSE n \in free : \A k \in free : n <= k)

\* A log of an earlier day, or one that is too large, is renamed under the run that has it open.
RotateLogIfNeeded(p) ==
    /\ At(p, "raw") /\ m[p].todo = {}
    /\ \E large \in BOOLEAN :
        IF Exists(Active) /\ (large \/ files[Active].mtime < m[p].now)
        THEN LET name == RotatedName(files[Active].mtime) IN
             /\ files' = With(Without(files, {Active}), name, files[Active])
             /\ run' = IF run # None /\ run.out = Active THEN [run EXCEPT !.out = name] ELSE run
             /\ Goes(p, [m[p] EXCEPT !.stage = "log", !.file = name, !.step = "open"])
        ELSE Goes(p, [m[p] EXCEPT !.stage = "purge"]) /\ UNCHANGED <<files, run>>
    /\ UNCHANGED <<day, runs, lock, data, faults, completed>>

PurgeOldLogs(p) ==
    /\ At(p, "purge")
    /\ files' = Without(files, {name \in Named("log") :
                    name.gz /\ m[p].now - files[name].mtime >= LOG_COMPRESSED_RETENTION_DAYS})
    /\ Goes(p, [m[p] EXCEPT !.stage = "backup"])
    /\ UNCHANGED <<day, run, runs, lock, data, faults, completed>>

BackedUp(d) == Exists(Plain("db", d, 0)) \/ Exists(Gz(Plain("db", d, 0)))

BackupDatabase(p) ==
    /\ At(p, "backup")
    /\ IF BackedUp(m[p].now)
       THEN Goes(p, [m[p] EXCEPT !.stage = "prune"]) /\ UNCHANGED files
       ELSE /\ files' = With(files, Plain("db", m[p].now, 0), File({}, FALSE))
            /\ Goes(p, [m[p] EXCEPT !.stage = "copying"])
    /\ UNCHANGED <<day, run, runs, lock, data, faults, completed>>

\* SQLite copies a state of the database that was committed.
CopyDatabase(p) ==
    /\ At(p, "copying")
    /\ LET name == Plain("db", m[p].now, 0) IN
       /\ files' = With(files, name, File({commits}, TRUE))
       /\ Goes(p, [m[p] EXCEPT !.stage = "db", !.file = name, !.step = "open"])
    /\ UNCHANGED <<day, run, runs, lock, data, faults, completed>>

Newer(name) == {other \in Named("db") : other.gz /\ other.day > name.day}

\* Bug variant: sorted the other way round.
OldBackups_Newest ==
    LET backups == {name \in Named("db") : name.gz} IN
    {name \in backups : Cardinality(backups) - 1 - Cardinality(Newer(name)) >= DB_BACKUP_RETENTION_COUNT}

\* Every compressed backup but the newest few.
OldBackups == {name \in Named("db") : name.gz /\ Cardinality(Newer(name)) >= DB_BACKUP_RETENTION_COUNT}

PruneOldBackups(p) ==
    /\ At(p, "prune")
    /\ files' = Without(files, OldBackups)
    /\ completed' = m[p].now
    /\ Goes(p, None) /\ lock' = IF lock = p THEN None ELSE lock
    /\ UNCHANGED <<day, run, runs, data, faults>>
-----------------------------------------------------------------------------
Maintenance(p) ==
    \/ StartMaintenance(p) \/ ProcessRawFile(p) \/ OpenGz(p) \/ CopyToGz(p) \/ UnlinkPlain(p)
    \/ RotateLogIfNeeded(p) \/ PurgeOldLogs(p) \/ BackupDatabase(p) \/ CopyDatabase(p) \/ PruneOldBackups(p)

Next ==
    \/ NextDay
    \/ StartRun \/ Capture \/ Finish \/ KillRun
    \/ \E p \in Maintainers : Maintenance(p) \/ KillMaintenance(p)

Spec == Init /\ [][Next]_vars
-----------------------------------------------------------------------------
(* Properties *)

\* At most one maintenance is under way, it holds the lock, and what it works on is
\* where it left it (pipeline_lock.py).
MaintenanceTypeOK ==
    /\ \A p \in Maintainers : m[p] # None =>
        /\ lock = p
        /\ m[p].file # None => Exists(m[p].file) /\ (m[p].step # "open" => Exists(Gz(m[p].file)))
    /\ ~failed

\* A capture can be read until it is old enough to be deleted, wherever a maintenance
\* was killed (_compress_file: the .gz is complete before the file goes).
CapturesReadable ==
    \A n \in 1 .. runs, d \in 0 .. MaxDay :
        LET name == Plain("raw", d, n) IN
        (day - d < RAW_COMPRESSED_RETENTION_DAYS /\ (Exists(name) \/ Exists(Gz(name)))) =>
            (Exists(name) /\ files[name].whole) \/ files[Gz(name)].whole

\* None of them is deleted before its time (process_raw_files).
CapturesRetained ==
    [][\A name \in Named("raw") :
        day - name.day < RAW_COMPRESSED_RETENTION_DAYS =>
            \E other \in DOMAIN files' : other = name \/ other = Gz(name)]_vars

\* A maintenance that ended well today left no raw file that is too old, none that should
\* be compressed and no .gz of an earlier one that was killed (DATA_RETENTION_POLICY.md 2.2).
RetentionKept ==
    completed = day => \A name \in Named("raw") :
        /\ day - name.day < RAW_COMPRESSED_RETENTION_DAYS
        /\ ~name.gz => day - name.day < RAW_UNCOMPRESSED_DAYS
        /\ files[name].whole

\* What was printed to the active log is in a log, until it is old enough to be purged:
\* rotations of one day, and one that was killed, do not overwrite each other
\* (rotate_log_if_needed, purge_old_logs).
LinesKept ==
    \A n \in DOMAIN kept : day - kept[n] < LOG_COMPRESSED_RETENTION_DAYS =>
        \E name \in Named("active") \cup Named("log") : files[name].whole /\ n \in files[name].content

\* A maintenance that ended well on a day on which none was killed left the backup of that
\* day, complete, whatever it pruned (backup_database, prune_old_backups).
BackupOfTheDay ==
    (completed = day /\ day \notin killed) =>
        Exists(Gz(Plain("db", day, 0))) /\ files[Gz(Plain("db", day, 0))].whole

\* A backup is made once: a second maintenance of the day does not write over it with a
\* later state (backup_database).
BackupsUnchanged ==
    [][\A name \in DOMAIN files \cap DOMAIN files' :
        (name.kind = "db" /\ files[name].whole) => files'[name] = files[name]]_vars

\* No capture and no line that is still to be kept is lost, whichever step of a rotation or a
\* compression a maintenance is killed at, and one process at a time has the lock.
NothingLost == MaintenanceTypeOK /\ CapturesReadable /\ LinesKept

\* A maintenance that ended well did all of its day: nothing is left over its time, leftovers
\* of a killed one included, and the backup of the day is there.
DayComplete == RetentionKept /\ BackupOfTheDay

\* No step removes a capture before its time or writes over a backup that was finished.
KeptInTime == CapturesRetained /\ BackupsUnchanged
=============================================================================
