------------------------------- MODULE Store --------------------------------
(***************************************************************************)
(* The SQLite database of AMATL (crates/amatl-core/src/storage.rs), the    *)
(* caches and the telemetry that live in it, its maintenance task, and the *)
(* two commands that replace what it holds: `amatl db restore` and         *)
(* `amatl db downgrade`.  One process has the database open at a time, as  *)
(* docs/operacion.md asks before these commands; inside the server, backup *)
(* jobs, the purge, requests and a reload interleave, and the process may  *)
(* be killed at any step.                                                  *)
(*                                                                         *)
(* SQLite itself is external: a commit reaches the log first and the main  *)
(* file when it is checkpointed, VACUUM INTO copies what is committed, and *)
(* a copy that was interrupted is not whole.                               *)
(***************************************************************************)
EXTENDS Tables

CONSTANTS
  Queries,     \* keys of the provider search cache
  Sizes,       \* the sizes a payload may have
  Pages,       \* canonical URLs of the document cache
  Hashes,      \* content hashes
  SavedKeys,   \* keys of saved documents
  SavedMax,    \* saved_document_max_bytes
  Interval,    \* auto_backup_interval_seconds
  MaxCount,    \* auto_backup_max_count
  Tasks,       \* bound: the maintenance tasks that are alive at one time
  Targets,     \* versions `db downgrade` is asked for
  MaxNow, MaxFiles,   \* bounds: the clock, backups on disk
  MaxWork, Cost       \* bound: the operations together, by what each kind takes of it

ASSUME StoreAssumption ==
  /\ Sizes \subseteq Nat \ {0} /\ SavedMax \in Nat \ {0}
  /\ Interval \in Nat \ {0} /\ MaxCount \in Nat \ {0}
  /\ Targets \subseteq 0 .. (CurrentVersion - 1)
  /\ "admin" \notin Tasks /\ "none" \notin Tasks
  /\ {MaxNow, MaxWork, MaxFiles} \subseteq Nat
  /\ Cost \in [{"cache", "telemetry", "log", "copy", "restore", "downgrade"} -> Nat \ {0}]

VARIABLES
  now,       \* the clock, in seconds
  phase,     \* where the process that owns the database is
  plan,      \* what it was started for
  main,      \* the main database file
  live,      \* what the file and its log hold together
  wal,       \* the log beside the file: none, its own, or left from another file
  files,     \* the backups on disk
  job,       \* job[w]: the backup a maintenance task or an admin request is making
  tasks,     \* the maintenance tasks that run, of this service and of earlier ones
  current,   \* the one of the running service
  seed,      \* seed[t]: last_backup_at of task t
  memory,    \* telemetry observations in memory
  unsaved,   \* observations recorded in memory and not yet in the table
  late,      \* those that requests of earlier services are still to write
  failures,  \* persistence_failures is not zero
  asking,    \* searches that missed the cache and wait for their provider
  abandoned, \* auxiliary: observations whose request was dropped before the insert
  replaced,  \* auxiliary: what restores, migrations and downgrades set out to replace
  lost,      \* auxiliary: what was in a safety copy that a later one truncated
  periodic,  \* auxiliary: the start of the latest backup a task finished
  known,     \* auxiliary: known[t]: the latest finished one that t has to know of
  spoiled,   \* auxiliary: a bad copy was removed, and with it the name its second is listed by
  work       \* what the operations so far took of MaxWork

disk == <<main, live, wal, files>>
task == <<job, tasks, current, seed, known, periodic, spoiled>>
tele == <<memory, unsaved, late, abandoned, failures>>
past == <<replaced, lost>>
vars == <<now, phase, plan, disk, task, tele, asking, past, work>>

----------------------------------------------------------------------------
(* Files.                                                                   *)

Never == -1
Serve == [what |-> "serve", backup |-> <<"", 0, 0>>, to |-> CurrentVersion]
NoTask == "none"
Jobs == Tasks \cup {"admin"}

Whole(db) == [whole |-> TRUE, db |-> db]
Broken == [whole |-> FALSE, db |-> Empty]
Missing == Whole(Empty)

\* A backup is named after its kind, the second, and an attempt that keeps the
\* names of one second apart.
Backup(kind, at, attempt, file) ==
  [kind |-> kind, at |-> at, attempt |-> attempt, file |-> file]

SameName(f, g) == f.kind = g.kind /\ f.at = g.at /\ f.attempt = g.attempt

FreeAttempt(kind) ==
  Min({n \in 0 .. Cardinality(files) :
         \A f \in files : ~SameName(f, Backup(kind, now, n, Missing))})

\* A file of that name is created or overwritten.
Written(f) == {g \in files : ~SameName(f, g)} \cup {f}

\* The file of that name goes.
Taken(f) ==
  /\ files' = {g \in files : ~SameName(f, g)}
  /\ spoiled' = (spoiled \/ (f.kind = "auto" /\ f.attempt = 0))

\* scan_backups: only the first name of a second parses as a timestamp.
Scanned == {f \in files : f.attempt = 0}
Autos(set) == {f \in set : f.kind = "auto"}

\* latest_auto_backup_at.
LatestAuto ==
  IF Autos(Scanned) = {} THEN Never ELSE Max({f.at : f \in Autos(Scanned)})

\* Mutant: the copies taken before a restore or a migration are rotated too.
RotatedAll(set) ==
  {f \in set : f.attempt = 0 =>
     Cardinality({g \in set : g.attempt = 0 /\ g.at > f.at}) < MaxCount}

\* rotate_backups: the newest MaxCount automatic backups stay.
Rotated(set) ==
  {f \in set : f.attempt = 0 /\ f.kind = "auto" =>
     Cardinality({g \in set : g.attempt = 0 /\ g.kind = "auto" /\ g.at > f.at}) < MaxCount}

NoJob == [step |-> "idle", at |-> 0, attempt |-> 0, started |-> 0]
Target(w) == Backup("auto", job[w].at, job[w].attempt, Broken)

----------------------------------------------------------------------------
\* A database that was migrated and closed, and nothing beside it.
Init ==
  /\ now = 0
  /\ phase = "closed" /\ plan = Serve
  /\ live = Migrated(Empty) /\ main = Whole(live) /\ wal = "none"
  /\ files = {}
  /\ job = [w \in Jobs |-> NoJob] /\ tasks = {} /\ current = NoTask
  /\ seed = [t \in Tasks |-> Never] /\ known = [t \in Tasks |-> Never]
  /\ memory = <<>> /\ unsaved = <<>> /\ late = <<>> /\ abandoned = <<>> /\ failures = FALSE
  /\ asking = {}
  /\ replaced = {} /\ lost = {} /\ periodic = Never /\ spoiled = FALSE
  /\ work = 0

Tick ==
  /\ now < MaxNow
  /\ now' = now + 1
  /\ UNCHANGED <<phase, plan, disk, task, tele, asking, past, work>>

\* What a process keeps in memory goes with it.
Forget ==
  /\ job' = [w \in Jobs |-> NoJob] /\ tasks' = {} /\ current' = NoTask
  /\ seed' = [t \in Tasks |-> Never] /\ known' = [t \in Tasks |-> Never]
  /\ memory' = <<>> /\ unsaved' = <<>> /\ late' = <<>> /\ abandoned' = <<>>
  /\ failures' = FALSE /\ asking' = {}

Spend(kind) == work + Cost[kind] <= MaxWork /\ work' = work + Cost[kind]

----------------------------------------------------------------------------
(* Opening the database.                                                    *)

\* `amatl serve`.
Start ==
  /\ phase = "closed"
  /\ phase' = "opening" /\ plan' = Serve
  /\ UNCHANGED <<now, disk, task, tele, asking, past, work>>

\* The tables a connection finds: the file with its own log; with a log that
\* another file left behind, the file, what that log described, or a database
\* that fails quick_check; with a file cut short, one that fails the check or,
\* when nothing was written to it, an empty database.
Found ==
  CASE ~main.whole -> {Broken, Missing}
    [] main.whole /\ wal = "stale" -> {main, Whole(live), Broken}
    [] OTHER -> {Whole(live)}

\* spawn_maintenance: a task of the new service, which starts from the time last.
Spawned(last) ==
  \E t \in Tasks \ tasks :
    /\ tasks' = tasks \cup {t} /\ current' = t
    /\ seed' = [seed EXCEPT ![t] = last] /\ known' = [known EXCEPT ![t] = periodic]

\* Mutant: the maintenance task starts without looking at the disk.
ServingUnseeded(db) ==
  /\ memory' = Pruned(db.telemetry, Cutoff("telemetry", now))
  /\ Spawned(Never)

\* restore_best_effort, spawn_maintenance: the server reads what it needs.
Serving(db) ==
  /\ memory' = Pruned(db.telemetry, Cutoff("telemetry", now))
  /\ Spawned(LatestAuto)

\* A server goes on without a database it cannot open; a command ends.
Without == IF plan = Serve THEN "degraded" ELSE "closed"

\* A database that is not whole is quarantined.
OpenQuarantines ==
  /\ phase = "opening" /\ Broken \in Found
  /\ main' = Missing /\ live' = Empty /\ wal' = "none"
  /\ phase' = Without
  /\ UNCHANGED <<now, plan, files, task, tele, asking, past, work>>

\* The connection is made: live is what it found.
Connected(found) ==
  /\ phase = "opening" /\ found \in Found /\ found.whole
  /\ live' = found.db
  /\ main' = IF main.whole THEN main ELSE found
  /\ wal' = IF main.whole /\ wal # "none" THEN "own" ELSE "none"

\* What a command replaces: held is what the file and its log had together, file
\* what the file alone had.
SetAside(held, file) ==
  replaced' = replaced \cup {[held |-> held, file |-> file]} /\ UNCHANGED lost

\* An old database is copied before it is migrated; when that fails the copy
\* stays as it is and the database is not used.
OpenOld ==
  /\ \E found \in Found, copied \in BOOLEAN :
       /\ Connected(found)
       /\ found.db.version < CurrentVersion
       /\ Cardinality(files) < MaxFiles
       /\ files' = Written(Backup("migration", now, FreeAttempt("migration"),
                                  IF copied THEN found ELSE Broken))
       /\ IF copied THEN phase' = "migrating" /\ SetAside(found.db, found.db) /\ UNCHANGED work
          ELSE phase' = Without /\ UNCHANGED past /\ Spend("copy")
  /\ UNCHANGED <<now, plan, task, tele, asking>>

OpenCurrent ==
  /\ \E found \in Found :
       /\ Connected(found)
       /\ found.db.version = CurrentVersion
       /\ IF plan = Serve THEN Serving(found.db)
          ELSE UNCHANGED <<tasks, current, seed, known, memory>>
  /\ phase' = "open"
  /\ UNCHANGED <<now, plan, files, job, periodic, spoiled, unsaved, late, abandoned, failures,
                 asking, past, work>>

Migrate ==
  /\ phase = "migrating"
  /\ live' = Migrated(live) /\ wal' = "own" /\ phase' = "open"
  /\ IF plan = Serve THEN Serving(Migrated(live))
     ELSE UNCHANGED <<tasks, current, seed, known, memory>>
  /\ UNCHANGED <<now, plan, main, files, job, periodic, spoiled, unsaved, late, abandoned,
                 failures, asking, past, work>>

\* A service or a command has the database open; an earlier service has it as
\* long as its task runs.
InUse == phase = "open" \/ tasks # {}
Open == plan = Serve /\ InUse

\* The process ends, killed or not: the pool is never closed, so the log may
\* stay behind.
Exit ==
  /\ phase # "closed"
  /\ phase' = "closed" /\ plan' = Serve
  /\ \/ UNCHANGED <<main, wal>>
     \/ InUse /\ main' = Whole(live) /\ wal' = "none"
  /\ Forget
  /\ UNCHANGED <<now, live, files, periodic, spoiled, past, work>>

Checkpoint ==
  /\ InUse /\ wal = "own"
  /\ main' = Whole(live) /\ wal' = "none"
  /\ UNCHANGED <<now, phase, plan, live, files, task, tele, asking, past, work>>

\* AmatlService::reloaded opens the database again before the running service
\* lets go of it.  When that fails, as it must with an exclusive lock, the new
\* service goes on without storage.  The requests of the old service go on, what
\* they record still reaches the table, and its task runs until they have ended.
\* (A service without storage that no earlier one shares the process with opens
\* the database as Exit and Start do.)
Reload ==
  /\ Open
  /\ \/ phase' = "open" /\ Serving(live)
     \/ /\ phase' = "degraded" /\ memory' = <<>> /\ current' = NoTask
        /\ UNCHANGED <<tasks, seed, known>>
  /\ late' = late \o unsaved /\ unsaved' = <<>> /\ abandoned' = <<>> /\ failures' = FALSE
  /\ UNCHANGED <<now, plan, disk, job, periodic, spoiled, asking, past, work>>

\* The last clone of an earlier service is dropped, which cancels its task; the
\* task sees it between two ticks.
Retire(t) ==
  /\ t \in tasks \ {current} /\ job[t] = NoJob
  /\ tasks = {t} => late = <<>> /\ asking = {} /\ job["admin"] = NoJob
  /\ tasks' = tasks \ {t}
  /\ seed' = [seed EXCEPT ![t] = Never] /\ known' = [known EXCEPT ![t] = Never]
  /\ UNCHANGED <<now, phase, plan, disk, job, current, periodic, spoiled, tele, asking, past,
                 work>>

----------------------------------------------------------------------------
(* Requests.                                                                *)

\* A transaction of the running server.
Commit(kind, db) ==
  /\ Open /\ Spend(kind)
  /\ live' = db /\ wal' = "own"
  /\ UNCHANGED <<now, phase, plan, main, files, task, past>>

\* CachedProvider::search: a hit is answered and touched, a miss asks the
\* provider.
LookUp(q) ==
  LET hits == Hits(live.search, q, now, SearchPolicy)
  IN
  /\ q \notin asking
  /\ \/ /\ hits = {} /\ asking' = asking \cup {q}
        /\ Open
        /\ UNCHANGED <<now, phase, plan, disk, task, past, work>>
     \/ \E i \in hits :
          /\ Commit("cache", [live EXCEPT !.search = Touched(@, i, now)])
          /\ UNCHANGED asking
  /\ UNCHANGED tele

\* The provider answered and its result is stored, or it failed.
Answer(q, size) ==
  /\ q \in asking
  /\ asking' = asking \ {q}
  /\ \/ Commit("cache", [live EXCEPT !.search =
                  Put(@, CacheRow(q, size, now), SearchPolicy)])
     \/ UNCHANGED <<now, phase, plan, disk, task, past, work>>
  /\ UNCHANGED tele

\* DocumentCache::get and latest.
ReadDocument(page, hash) ==
  /\ \E i \in Hits(live.documents, <<page, hash>>, now, DocumentPolicy)
              \cup LatestHit(live.documents, page, now, DocumentPolicy) :
       Commit("cache", [live EXCEPT !.documents = Touched(@, i, now)])
  /\ UNCHANGED <<asking, tele>>

\* DocumentCache::put.
KeepDocument(page, hash, size) ==
  /\ Commit("cache", [live EXCEPT !.documents =
               Put(@, CacheRow(<<page, hash>>, size, now), DocumentPolicy)])
  /\ UNCHANGED <<asking, tele>>

\* cache_purge and document_cache_purge.
PurgeCaches ==
  /\ live.search # <<>> \/ live.documents # <<>>
  /\ Commit("cache", [live EXCEPT !.search = <<>>, !.documents = <<>>])
  /\ UNCHANGED <<asking, tele>>

\* record_history, and the requests that delete one entry or all of them.
RecordHistory ==
  Commit("log", [live EXCEPT !.history = Append(@, LogRow(now))]) /\ UNCHANGED <<asking, tele>>
DeleteHistory ==
  /\ \/ \E i \in DOMAIN live.history : Commit("log", [live EXCEPT !.history = Removed(@, i)])
     \/ live.history # <<>> /\ Commit("log", [live EXCEPT !.history = <<>>])
  /\ UNCHANGED <<asking, tele>>

\* save_document and delete_saved_document.
SaveDocument(key, size) ==
  /\ size <= SavedMax
  /\ Commit("log", [live EXCEPT !.saved = Upserted(@, CacheRow(key, size, now))])
  /\ UNCHANGED <<asking, tele>>
DeleteSaved(key) ==
  /\ key \in Keys(live.saved)
  /\ Commit("log", [live EXCEPT !.saved = Erased(@, key)])
  /\ UNCHANGED <<asking, tele>>

\* SecurityAudit::record, once its background write runs.
RecordEvent ==
  Commit("log", [live EXCEPT !.audit = Audited(@, now)]) /\ UNCHANGED <<asking, tele>>

\* InMemoryTelemetry::record: memory first, then the table.  A request of an
\* earlier service records into the memory that went with it.
Observe ==
  /\ plan = Serve /\ Spend("telemetry")
  /\ \/ /\ phase \in {"open", "degraded"}
        /\ memory' = Pruned(Append(memory, LogRow(now)), Cutoff("telemetry", now))
        /\ unsaved' = IF phase = "open" THEN Append(unsaved, LogRow(now)) ELSE unsaved
        /\ UNCHANGED late
     \/ /\ tasks \ {current} # {}
        /\ late' = Append(late, LogRow(now))
        /\ UNCHANGED <<memory, unsaved>>
  /\ UNCHANGED <<now, phase, plan, disk, task, abandoned, failures, asking, past>>

\* telemetry_insert and telemetry_prune of one observation, each of which may
\* come to nothing.
Stored(row, inserted, pruned) ==
  LET rows == IF inserted THEN Append(live.telemetry, row) ELSE live.telemetry
  IN
  /\ Open
  /\ live' = [live EXCEPT !.telemetry =
                 IF pruned THEN Pruned(rows, Cutoff("telemetry", row.created)) ELSE rows]
  /\ wal' = IF inserted \/ pruned THEN "own" ELSE wal
  /\ UNCHANGED <<now, phase, plan, main, files, task, memory, asking, past, work>>

\* Mutant: an insert that failed is not counted.
PersistUncounted ==
  \E inserted, pruned \in BOOLEAN, i \in DOMAIN unsaved :
    /\ Stored(unsaved[i], inserted, pruned)
    /\ unsaved' = Removed(unsaved, i)
    /\ failures' = (failures \/ ~pruned)
    /\ UNCHANGED <<late, abandoned>>

\* The requests that are recording get there in any order.
Persist ==
  \E inserted, pruned \in BOOLEAN, i \in DOMAIN unsaved :
    /\ Stored(unsaved[i], inserted, pruned)
    /\ unsaved' = Removed(unsaved, i)
    /\ failures' = (failures \/ ~(inserted /\ pruned))
    /\ UNCHANGED <<late, abandoned>>

\* A request of an earlier service does, or is dropped before it could; what it
\* counts went with that service.
PersistLate ==
  \E inserted, pruned \in BOOLEAN, i \in DOMAIN late :
    /\ Stored(late[i], inserted, pruned)
    /\ late' = Removed(late, i)
    /\ UNCHANGED <<unsaved, abandoned, failures>>

\* The request times out or its client goes while it waits for the insert, or for
\* the prune: nothing is counted.
PersistDropped ==
  \E inserted \in BOOLEAN, i \in DOMAIN unsaved :
    /\ Stored(unsaved[i], inserted, FALSE)
    /\ unsaved' = Removed(unsaved, i)
    /\ abandoned' = IF inserted THEN abandoned ELSE Append(abandoned, unsaved[i])
    /\ UNCHANGED <<late, failures>>

----------------------------------------------------------------------------
(* The maintenance task and the admin's backups.                            *)

PurgeTick ==
  /\ Purged(live, now) # live
  /\ Commit("log", Purged(live, now))
  /\ UNCHANGED <<asking, tele>>

\* A tick makes a backup when the last one its task knows of is old enough; an
\* admin's request always does.
Due(w) ==
  \/ w = "admin"
  \/ w \in tasks /\ (seed[w] = Never \/ now - seed[w] >= Interval)

\* create_auto_backup up to the start of VACUUM INTO.
BackupBegin(w) ==
  /\ Open /\ job[w] = NoJob /\ Due(w)
  /\ Cardinality(files) < MaxFiles /\ Spend("copy")
  /\ job' = [job EXCEPT ![w] = [step |-> "copying", at |-> now,
                                attempt |-> FreeAttempt("auto"), started |-> now]]
  /\ files' = Written(Backup("auto", now, FreeAttempt("auto"), Broken))
  /\ UNCHANGED <<now, phase, plan, main, live, wal, tasks, current, seed, known, periodic,
                 spoiled, tele, asking, past>>

BackupCopied(w) ==
  /\ job[w].step = "copying"
  /\ job' = [job EXCEPT ![w].step = "verifying"]
  /\ files' = Written([Target(w) EXCEPT !.file = Whole(live)])
  /\ UNCHANGED <<now, phase, plan, main, live, wal, tasks, current, seed, known, periodic,
                 spoiled, tele, asking, past, work>>

\* VACUUM INTO fails: the error is kept, and so is what it wrote.  (One that
\* fails before it has a file changes nothing and is no step.)  An admin's request
\* may also be dropped before the copy is verified.
BackupAborted(w) ==
  /\ job[w].step = "copying" \/ (w = "admin" /\ job[w].step = "verifying")
  /\ job' = [job EXCEPT ![w] = NoJob]
  /\ UNCHANGED <<now, phase, plan, main, live, wal, files, tasks, current, seed, known,
                 periodic, spoiled, tele, asking, past, work>>

\* quick_check passes: the backups are rotated and the task notes the instant
\* it started at.
BackupVerified(w) ==
  /\ job[w].step = "verifying"
  /\ job' = [job EXCEPT ![w] = NoJob]
  /\ files' = Rotated(files)
  /\ IF w = "admin" THEN UNCHANGED <<seed, known, periodic>>
     ELSE /\ seed' = [seed EXCEPT ![w] = job[w].started]
          /\ known' = [known EXCEPT ![w] = job[w].started]
          /\ periodic' = Max({periodic, job[w].started})
  /\ UNCHANGED <<now, phase, plan, main, live, wal, tasks, current, spoiled, tele, asking, past,
                 work>>

\* It does not: the copy is discarded.
BackupDiscarded(w) ==
  /\ job[w].step = "verifying"
  /\ job' = [job EXCEPT ![w] = NoJob]
  /\ Taken(Target(w))
  /\ UNCHANGED <<now, phase, plan, main, live, wal, tasks, current, seed, known, periodic,
                 tele, asking, past, work>>

----------------------------------------------------------------------------
(* amatl db restore.                                                        *)

Name(f) == <<f.kind, f.at, f.attempt>>
Restoring(f) == [what |-> "restore", backup |-> Name(f), to |-> CurrentVersion]

\* An operator starts a command while nothing has the database open.
Command(p) ==
  /\ phase = "closed" /\ Spend(p.what)
  /\ plan' = p
  /\ UNCHANGED <<now, main, live, wal, job, tasks, current, seed, known, periodic, tele, asking>>

\* A backup without the header of a database is renamed away and the command
\* fails.
RestoreBegin(f) ==
  /\ f \in files
  /\ Command(Restoring(f))
  /\ \/ /\ ~f.file.whole
        /\ Taken(f) /\ phase' = "closed"
     \/ /\ phase' = IF main = Missing /\ wal = "none" THEN "replace" ELSE "save"
        /\ UNCHANGED <<files, spoiled>>
  /\ UNCHANGED past

SafetyCopy(file) == Backup("pre_restore", now, 0, file)

\* Mutant: the restore goes straight to the database.
RestoreSaveSkipped ==
  /\ phase = "save" /\ phase' = "replace"
  /\ UNCHANGED <<now, plan, disk, task, tele, asking, past, work>>

\* fs::copy of the main file, without its log.  It truncates the safety copy of a
\* restore of the same second.
RestoreSave ==
  /\ \/ /\ phase = "save" /\ phase' = "saving" /\ files' = Written(SafetyCopy(Broken))
        /\ lost' = lost \cup {f.file.db : f \in
                     {g \in files : g.file.whole /\ SameName(SafetyCopy(Broken), g)}}
     \/ /\ phase = "saving" /\ phase' = "replace"
        /\ \E f \in files :
             /\ f.kind = "pre_restore" /\ \A g \in files : g.kind = f.kind => g.at <= f.at
             /\ files' = Written([f EXCEPT !.file = main])
        /\ UNCHANGED lost
  /\ UNCHANGED <<now, plan, main, live, wal, task, tele, asking, replaced, work>>

\* fs::copy of the backup over the main file, whose log stays where it is.
RestoreReplace ==
  /\ \/ /\ phase = "replace" /\ phase' = "replacing" /\ main' = Broken
        /\ IF ~main.whole \/ (main = Missing /\ wal = "none") THEN UNCHANGED past
           ELSE SetAside(IF wal = "own" THEN live ELSE main.db, main.db)
        /\ UNCHANGED <<live, wal>>
     \/ /\ phase = "replacing" /\ phase' = "opening"
        /\ \E f \in files :
             /\ Name(f) = plan.backup /\ main' = f.file
             /\ IF wal = "none" THEN live' = f.file.db /\ UNCHANGED wal
                ELSE wal' = "stale" /\ UNCHANGED live
        /\ UNCHANGED past
  /\ UNCHANGED <<now, plan, files, task, tele, asking, work>>

----------------------------------------------------------------------------
(* amatl db downgrade.                                                      *)

\* The command opens the database, and so migrates it, first.
DowngradeStart(to) ==
  /\ Command([what |-> "downgrade", backup |-> <<"", 0, 0>>, to |-> to])
  /\ phase' = "opening"
  /\ UNCHANGED <<files, spoiled, past>>

\* VACUUM INTO an unused name.
DowngradeCopy ==
  /\ plan.what = "downgrade" /\ phase = "open"
  /\ Cardinality(files) < MaxFiles
  /\ \E copied \in BOOLEAN :
       /\ files' = Written(Backup("migration", now, FreeAttempt("migration"),
                                  IF copied THEN Whole(live) ELSE Broken))
       /\ IF copied THEN phase' = "downgrading" /\ SetAside(live, live) /\ UNCHANGED work
          ELSE phase' = "closed" /\ UNCHANGED past /\ Spend("copy")
  /\ UNCHANGED <<now, plan, main, live, wal, task, tele, asking>>

\* One transaction per version; version 1 has no script.
DowngradeStep ==
  /\ phase = "downgrading" /\ live.version > Max({plan.to, 1})
  /\ live' = Downgraded(live, live.version) /\ wal' = "own"
  /\ UNCHANGED <<now, phase, plan, main, files, task, tele, asking, past, work>>

----------------------------------------------------------------------------
Requests ==
  \/ \E q \in Queries : LookUp(q) \/ \E size \in Sizes : Answer(q, size)
  \/ \E page \in Pages, hash \in Hashes :
       ReadDocument(page, hash) \/ \E size \in Sizes : KeepDocument(page, hash, size)
  \/ PurgeCaches \/ RecordHistory \/ DeleteHistory \/ RecordEvent
  \/ \E key \in SavedKeys : DeleteSaved(key) \/ \E size \in Sizes : SaveDocument(key, size)
  \/ Observe \/ Persist \/ PersistLate \/ PersistDropped

Maintenance ==
  \/ PurgeTick
  \/ \E w \in Jobs :
       BackupBegin(w) \/ BackupCopied(w) \/ BackupAborted(w) \/ BackupVerified(w)
       \/ BackupDiscarded(w)

Commands ==
  \/ \E f \in files : RestoreBegin(f)
  \/ RestoreSave \/ RestoreReplace
  \/ \E to \in Targets : DowngradeStart(to)
  \/ DowngradeCopy \/ DowngradeStep

Opening == Start \/ OpenQuarantines \/ OpenOld \/ OpenCurrent \/ Migrate

Process == Exit \/ Checkpoint \/ Reload \/ \E t \in Tasks : Retire(t)

Next == Tick \/ Opening \/ Process \/ Requests \/ Maintenance \/ Commands

Spec == Init /\ [][Next]_vars

----------------------------------------------------------------------------
(* Properties.                                                              *)

CacheRows(keys) == [key : keys, size : Sizes, created : Nat, used : Nat]
LogRows == [created : Nat]

Databases ==
  [version : 0 .. CurrentVersion,
   search : Seq(CacheRows(Queries)), documents : Seq(CacheRows(Pages \X Hashes)),
   telemetry : Seq(LogRows), history : Seq(LogRows), audit : Seq(LogRows),
   saved : Seq(CacheRows(SavedKeys))]

Kinds == {"auto", "migration", "pre_restore"}
Files == [whole : BOOLEAN, db : Databases]
Backups == [kind : Kinds, at : Nat, attempt : Nat, file : Files]
Plans ==
  [what : {"serve", "restore", "downgrade"},
   backup : (Kinds \cup {""}) \X Nat \X Nat, to : 0 .. CurrentVersion]
Phases == {"closed", "opening", "migrating", "open", "degraded", "save", "saving",
           "replace", "replacing", "downgrading"}
JobStates ==
  [step : {"idle", "copying", "verifying"}, at : Nat, attempt : Nat, started : Nat]

\* The rows of a cache at time t: one per key, none used before it was made.
Tidy(table, t) ==
  /\ \A i, j \in DOMAIN table : table[i].key = table[j].key => i = j
  /\ \A i \in DOMAIN table : table[i].created <= table[i].used /\ table[i].used <= t

Fits(table, policy, t) ==
  Tidy(table, t) /\ Len(table) <= policy.entries /\ TotalBytes(table) <= policy.bytes

Logged(table, t) ==
  table \in Seq(LogRows) /\ \A i \in DOMAIN table : table[i].created <= t

WellFormed(db, t) ==
  /\ db \in Databases
  /\ Fits(db.search, SearchPolicy, t) /\ Fits(db.documents, DocumentPolicy, t)
  /\ Logged(db.telemetry, t) /\ Logged(db.history, t) /\ Logged(db.audit, t)
  /\ db.version < 7 => db.audit = <<>>
  /\ db.version < 3 => db.history = <<>> /\ db.saved = <<>>
  /\ db.version < 2 => db.documents = <<>>

Sound(file, t) ==
  file \in Files /\ WellFormed(file.db, t) /\ (file.whole \/ file = Broken)

\* No two files have one name.
Shelved(set, t) ==
  /\ IsFiniteSet(set) /\ set \subseteq Backups
  /\ \A f \in set : Sound(f.file, t) /\ f.at <= t
  /\ \A f, g \in set : SameName(f, g) => f = g

\* Every copy of the database, the running one, the file and each backup, holds
\* only the tables of its version and caches within their limits, and two
\* backups never share a name.
TypeOK ==
  /\ now \in 0 .. MaxNow /\ work \in 0 .. MaxWork
  /\ phase \in Phases /\ plan \in Plans /\ wal \in {"none", "own", "stale"}
  /\ failures \in BOOLEAN /\ spoiled \in BOOLEAN /\ asking \subseteq Queries
  /\ WellFormed(live, now) /\ (InUse => live.version = CurrentVersion)
  /\ Sound(main, now) /\ Shelved(files, now)
  /\ replaced \subseteq [held : Databases, file : Databases] /\ lost \subseteq Databases
  /\ job \in [Jobs -> JobStates]
  /\ \A w \in Jobs : job[w].at <= now /\ job[w].started <= now
  /\ tasks \subseteq Tasks /\ current \in tasks \cup {NoTask}
  /\ tasks # {} => plan = Serve /\ phase \in {"open", "degraded"}
  /\ seed \in [Tasks -> Never .. now] /\ known \in [Tasks -> Never .. now]
  /\ periodic \in Never .. now
  /\ Logged(memory, now) /\ Logged(unsaved, now) /\ Logged(late, now) /\ Logged(abandoned, now)

Rows(table) == {table[i] : i \in DOMAIN table}

\* What one put does to a cache: nothing that is still current leaves it while
\* something used before it stays.
SparesWarm(old, new, policy) ==
  (\E row \in Rows(new) \ Rows(old) : row.key \notin Keys(old)) =>
    \A gone \in Rows(old) : 
      \/ gone.key \in Keys(new)
      \/ gone.created < now - policy.ttl
      \/ \A kept \in Rows(new) : kept.used >= gone.used

\* cache_put and document_cache_put evict in the order of use: while the
\* service runs, a put drops a current row only when every row that stays was
\* used at least as recently.
EvictionIsLru ==
  [][phase = "open" /\ phase' = "open" =>
       /\ SparesWarm(live.search, live'.search, SearchPolicy)
       /\ SparesWarm(live.documents, live'.documents, DocumentPolicy)]_vars

\* Why rotate_backups may take a copy made at t: MaxCount automatic ones that are
\* newer are listed.  They are counted, not opened, so that one that was never
\* finished counts as well.
Outnumbered(t, set) ==
  Cardinality({g \in set : g.kind = "auto" /\ g.attempt = 0 /\ g.at > t}) >= MaxCount

\* rotate_backups and the discarding of a bad copy take no backup that is whole
\* and not being made, except an automatic one that MaxCount newer automatic
\* names outnumber.  They stay clear of the copies taken before a restore and a
\* migration.  A name counts whether or not its copy was finished, so the last
\* whole automatic backup may go while a half-written newer one stays.
RotationSpares ==
  [][\A f \in files :
       /\ f.file.whole /\ \A g \in files' : ~SameName(f, g)
       /\ \A w \in Jobs : job[w] # NoJob => ~SameName(f, Target(w))
       => f.kind = "auto" /\ Outnumbered(f.at, files')]_vars

\* A maintenance task never makes two backups within an interval, nor one within
\* an interval of a backup that was finished before it started, whatever
\* restarts, reloads and admin requests come in between, as long as no copy that
\* failed its check was removed under the name its second is listed by.  The task
\* of an earlier service runs on until its last request ends: it and the new one
\* may each make a backup in the same interval.
BackupSpacing ==
  [][\A t \in Tasks :
       known[t] # Never /\ known'[t] \notin {Never, known[t]} /\ ~spoiled
       => known'[t] - known[t] >= Interval]_vars

\* A copy of the database that no rotation takes.
Kept(db) == \E f \in files : f.kind # "auto" /\ f.file = Whole(db)

\* Whatever step a restore, a migration or a downgrade is killed at, and whatever
\* runs afterwards, the file it set out to replace is still there, whole, in a
\* copy that no rotation takes, unless a later restore in the second of that copy
\* truncated it.  Of a database that a restore replaces, the file is copied and
\* its log is not: what was committed and not yet checkpointed goes with it.
Recoverable == \A r \in replaced : Kept(r.file) \/ r.file \in lost

At(table, t) == Cardinality({i \in DOMAIN table : table[i].created = t})

\* Memory is never ahead of the table by more than what is being recorded and
\* what a request was dropped with: with no failure counted, every other
\* observation in memory and in the window is in the table or on its way to it,
\* so that a restart finds it.
TelemetryDurable ==
  phase = "open" /\ plan = Serve /\ ~failures =>
    \A t \in Max({0, Cutoff("telemetry", now)}) .. now :
      At(memory, t) <= At(live.telemetry, t) + At(unsaved, t) + At(abandoned, t)
=============================================================================
