---------------------------- MODULE OrphanedScan ----------------------------
(***************************************************************************)
(* The orphaned-file report: a scan asks Radarr and Sonarr which files they *)
(* track, then walks the library directories and inserts what is on disk   *)
(* and not tracked, one batch per library, while files are imported and    *)
(* deleted.  The daily scan and manual ones may overlap; the first INSERT  *)
(* of a batch takes SQLite's write lock until the batch is committed.      *)
(***************************************************************************)
EXTENDS Integers, FiniteSets

CONSTANTS
  Files,         \* media files that may be in the libraries
  LibraryOf,     \* LibraryOf[f]: "movies" or "tv"
  Source,        \* Source[f]: the call that tells whether f is tracked
  Scans, Daily,  \* sessions that run scans; that of the daily job
  None,
  MaxChanges, MaxFaults  \* bounds: changes outside, faults

Libraries == {"movies", "tv"}
In(lib)   == {f \in Files : LibraryOf[f] = lib}

ASSUME OrphanAssumption ==
  /\ IsFiniteSet(Files) /\ LibraryOf \in [Files -> Libraries]
  /\ Daily \in Scans /\ None \notin Files \cup Scans
  /\ MaxChanges \in Nat /\ MaxFaults \in Nat

VARIABLES
  disk,     \* files on disk
  tracked,  \* files their service knows
  enabled,  \* libraries whose service is enabled
  mounted,  \* libraries whose directory is there
  table,    \* orphaned_files, by path
  lock,     \* the scan that holds the write lock
  scan,     \* scan[s]: the local variables of the scan in session s
  strays,   \* history: strays[s]: files of the library in hand that were on disk
            \* and not tracked at any time since s began to ask about them
  changes, faults

outside == <<disk, tracked, enabled, mounted>>
vars == <<outside, table, lock, scan, strays, changes, faults>>
----------------------------------------------------------------------------
Sources(lib) == {Source[f] : f \in In(lib)}

\* A scan between two awaits: the library in hand, the calls to come, the files
\* known to be tracked, the other files the walk will come by, the file in hand,
\* the row added and not yet inserted, the rows inserted and not yet committed.
Scan == [pc : {"idle", "begin", "ask", "walk", "add"}, lib : Libraries,
         ask : SUBSET {Source[f] : f \in Files}, known : SUBSET Files,
         left : SUBSET Files, file : Files \cup {None},
         pending : SUBSET Files, inserted : SUBSET Files]

Idle == [pc |-> "idle", lib |-> "movies", ask |-> {}, known |-> {}, left |-> {},
         file |-> None, pending |-> {}, inserted |-> {}]

Beginning(lib) == [Idle EXCEPT !.pc = "begin", !.lib = lib]
Asking(lib)    == [Idle EXCEPT !.pc = "ask", !.lib = lib, !.ask = Sources(lib)]

Init ==
  /\ disk \in SUBSET Files /\ tracked \in SUBSET disk
  /\ enabled = Libraries /\ mounted = Libraries
  /\ table = [f \in Files |-> "absent"]
  /\ lock = None
  /\ scan = [s \in Scans |-> Idle]
  /\ strays = [s \in Scans |-> {}]
  /\ changes = 0 /\ faults = 0
----------------------------------------------------------------------------
\* Mutant: paths are compared as they are written.
NeverTracked(s, f) == FALSE

\* Both sides are normalised; the walk passes over what was answered to be tracked.
IsTracked(s, f) == f \in scan[s].known
----------------------------------------------------------------------------
(* Outside.  A directory is listed when the walk enters it: a file that comes *)
(* or goes may or may not be met.                                             *)

Stray == disk \ tracked

\* What a walk can see and stat.
Visible == {f \in disk : LibraryOf[f] \in mounted}

\* A service imports a file: it is moved into place, then known.  A leftover
\* stays unknown.
Appear(f) ==
  /\ f \notin disk \cup tracked
  /\ disk' = disk \cup {f}
  /\ \E W \in SUBSET {s \in Scans : /\ scan[s].pc \in {"walk", "add"} /\ ~IsTracked(s, f)
                                    /\ scan[s].lib = LibraryOf[f]} :
       scan' = [s \in Scans |-> IF s \in W THEN [scan[s] EXCEPT !.left = @ \cup {f}] ELSE scan[s]]
  /\ UNCHANGED <<tracked, enabled, mounted>>

Track(f) ==
  /\ f \in Stray
  /\ tracked' = tracked \cup {f}
  /\ UNCHANGED <<disk, enabled, mounted, scan>>

\* It is deleted, or no longer known.
Vanish(f) ==
  /\ f \in disk
  /\ disk' = disk \ {f} /\ tracked' = tracked \ {f}
  /\ UNCHANGED <<enabled, mounted, scan>>

Untrack(f) ==
  /\ f \in tracked
  /\ tracked' = tracked \ {f}
  /\ UNCHANGED <<disk, enabled, mounted, scan>>

Toggled(S, x) == IF x \in S THEN S \ {x} ELSE S \cup {x}

Switch(lib) ==
  /\ enabled' = Toggled(enabled, lib)
  /\ UNCHANGED <<disk, tracked, mounted, scan>>

Mount(lib) ==
  /\ mounted' = Toggled(mounted, lib)
  /\ UNCHANGED <<disk, tracked, enabled, scan>>

Change ==
  /\ changes < MaxChanges /\ changes' = changes + 1
  /\ \/ \E f \in Files : Appear(f) \/ Track(f) \/ Vanish(f) \/ Untrack(f)
     \/ \E lib \in Libraries : Switch(lib) \/ Mount(lib)
  /\ strays' = [s \in Scans |-> IF scan[s].pc \in {"idle", "begin"} THEN {}
                                ELSE strays[s] \cup (Stray' \cap In(scan[s].lib))]
  /\ UNCHANGED <<table, lock, faults>>
----------------------------------------------------------------------------
(* run_scan.                                                               *)

Proceed(s, next) == scan' = [scan EXCEPT ![s] = next]

\* By the job every day, by POST /api/orphaned-files/scan at any time.
Start(s) ==
  /\ scan[s].pc = "idle"
  /\ Proceed(s, Beginning("movies"))
  /\ UNCHANGED <<outside, table, lock, strays, changes, faults>>

\* The library after the one in hand, or the end.
Onwards(s) ==
  /\ Proceed(s, IF scan[s].lib = "movies" THEN Beginning("tv") ELSE Idle)
  /\ strays' = [strays EXCEPT ![s] = {}]

\* _tracked_paths looks once whether the service is enabled.
SkipLibrary(s) ==
  /\ scan[s].pc = "begin" /\ scan[s].lib \notin enabled
  /\ Onwards(s)
  /\ UNCHANGED <<outside, table, lock, changes, faults>>

BeginAsking(s) ==
  /\ scan[s].pc = "begin" /\ scan[s].lib \in enabled
  /\ Proceed(s, Asking(scan[s].lib))
  /\ strays' = [strays EXCEPT ![s] = Stray \cap In(scan[s].lib)]
  /\ UNCHANGED <<outside, table, lock, changes, faults>>

\* A failing call: no report on this library.
ServiceFails(s) ==
  /\ scan[s].pc = "ask" /\ faults < MaxFaults
  /\ faults' = faults + 1
  /\ Onwards(s)
  /\ UNCHANGED <<outside, table, lock, changes>>

\* get_tracked_file_paths: one call for all films, one for each series.
Ask(s, c) ==
  /\ scan[s].pc = "ask" /\ c \in scan[s].ask
  /\ Proceed(s, [scan[s] EXCEPT !.ask = @ \ {c},
                   !.known = @ \cup {f \in tracked : Source[f] = c}])
  /\ UNCHANGED <<outside, table, lock, strays, changes, faults>>

\* _scan_library looks once for the directory: it is skipped, or walked.
SkipUnmounted(s) ==
  /\ scan[s].pc = "ask" /\ scan[s].ask = {} /\ scan[s].lib \notin mounted
  /\ Onwards(s)
  /\ UNCHANGED <<outside, table, lock, changes, faults>>

Walk(s) ==
  /\ scan[s].pc = "ask" /\ scan[s].ask = {} /\ scan[s].lib \in mounted
  /\ Proceed(s, [scan[s] EXCEPT !.pc = "walk", !.left = {f \in disk \cap In(scan[s].lib) : ~IsTracked(s, f)}])
  /\ UNCHANGED <<outside, table, lock, strays, changes, faults>>

\* Gone since the directory was listed.
PassBy(s, f) ==
  /\ scan[s].pc = "walk" /\ f \in scan[s].left \ Visible
  /\ Proceed(s, [scan[s] EXCEPT !.left = @ \ {f}])
  /\ UNCHANGED <<outside, table, lock, strays, changes, faults>>

\* Rows can be inserted: nobody else holds the lock, none of the paths is there.
Free(s)   == lock \in {None, s}
Unique(s) == \A f \in scan[s].pending : table[f] = "absent"

\* Mutant: the rows are added as one.
FlushedAsOne(s) == [scan[s] EXCEPT !.inserted = @ \cup {scan[s].pending}, !.pending = {}]

Flushed(s) == [scan[s] EXCEPT !.inserted = @ \cup scan[s].pending, !.pending = {}]

\* Mutant: only open rows count as reported.
OpenOnly(s, f) == table[f] = "open" \/ f \in scan[s].inserted \cup scan[s].pending

\* The SELECT sees committed rows and the session's own, which it flushes first.
Reported(s, f) == table[f] # "absent" \/ f \in scan[s].inserted \cup scan[s].pending

LookUp(s, f) ==
  /\ scan[s].pc = "walk" /\ f \in scan[s].left \cap Visible
  /\ scan[s].pending # {} => Free(s) /\ Unique(s)
  /\ lock' = IF scan[s].pending # {} THEN s ELSE lock
  /\ Proceed(s, IF Reported(s, f)
                THEN [Flushed(s) EXCEPT !.left = @ \ {f}]
                ELSE [Flushed(s) EXCEPT !.left = @ \ {f}, !.file = f, !.pc = "add"])
  /\ UNCHANGED <<outside, table, strays, changes, faults>>

\* The size is read after the SELECT; FileNotFoundError if the file has gone.
Add(s) ==
  /\ scan[s].pc = "add" /\ scan[s].file \in Visible
  /\ Proceed(s, [scan[s] EXCEPT !.pc = "walk", !.file = None, !.pending = {scan[s].file}])
  /\ UNCHANGED <<outside, table, lock, strays, changes, faults>>

Batch(s) == scan[s].pending \cup scan[s].inserted

\* Mutant: INSERT OR REPLACE.
Replace(s) ==
  /\ scan[s].pc = "walk" /\ scan[s].left = {}
  /\ Batch(s) # {} => Free(s)
  /\ table' = [f \in Files |-> IF f \in Batch(s) THEN "open" ELSE table[f]]
  /\ lock' = IF lock = s THEN None ELSE lock
  /\ Onwards(s)
  /\ UNCHANGED <<outside, changes, faults>>

\* The walk is over; the batch is flushed and committed if there is one.
Commit(s) ==
  /\ scan[s].pc = "walk" /\ scan[s].left = {}
  /\ Batch(s) # {} => Free(s) /\ Unique(s)
  /\ table' = [f \in Files |-> IF f \in Batch(s) THEN "open" ELSE table[f]]
  /\ lock' = IF lock = s THEN None ELSE lock
  /\ Onwards(s)
  /\ UNCHANGED <<outside, changes, faults>>

\* Mutant: the session is left as it is.
WalkAway(s) ==
  /\ Proceed(s, Idle)
  /\ strays' = [strays EXCEPT ![s] = {}]
  /\ UNCHANGED <<outside, table, lock, changes>>

\* Whatever raises loses the batch and ends the scan.
Abandon(s) ==
  /\ Proceed(s, Idle)
  /\ lock' = IF lock = s THEN None ELSE lock
  /\ strays' = [strays EXCEPT ![s] = {}]
  /\ UNCHANGED <<outside, table, changes>>

\* IntegrityError at the next flush; FileNotFoundError.
Raises(s) ==
  /\ \/ scan[s].pc = "walk" /\ Free(s) /\ ~Unique(s)
     \/ scan[s].pc = "add" /\ scan[s].file \notin Visible
  /\ Abandon(s) /\ UNCHANGED faults

\* OperationalError, five seconds after a flush found the database locked.
LockTimeout(s) ==
  /\ scan[s].pc = "walk" /\ scan[s].pending # {} /\ ~Free(s)
  /\ Abandon(s) /\ UNCHANGED faults

\* Any other exception, or the end of the process.
Dies(s) ==
  /\ scan[s].pc # "idle" /\ faults < MaxFaults
  /\ faults' = faults + 1
  /\ Abandon(s)

\* POST /{id}/clear.
Clear(f) ==
  /\ table[f] # "absent" /\ lock = None
  /\ table' = [table EXCEPT ![f] = "cleared"]
  /\ UNCHANGED <<outside, lock, scan, strays, changes, faults>>

Step(s) ==
  \/ SkipLibrary(s) \/ BeginAsking(s) \/ SkipUnmounted(s) \/ Walk(s) \/ Add(s) \/ Commit(s) \/ Raises(s)
  \/ \E c \in scan[s].ask : Ask(s, c)
  \/ \E f \in scan[s].left : PassBy(s, f) \/ LookUp(s, f)

Next ==
  \/ Change
  \/ \E s \in Scans : Start(s) \/ Step(s) \/ ServiceFails(s) \/ LockTimeout(s) \/ Dies(s)
  \/ \E f \in Files : Clear(f)

\* The cron trigger fires every day; a scan that has begun goes on.
Fairness == WF_vars(Start(Daily)) /\ \A s \in Scans : WF_vars(Step(s))

Spec == Init /\ [][Next]_vars /\ Fairness
----------------------------------------------------------------------------
(* Properties.                                                             *)

\* Every variable has its type, and what is tracked is on disk.
TypeOK ==
  /\ disk \subseteq Files /\ tracked \subseteq disk /\ enabled \cup mounted \subseteq Libraries
  /\ table \in [Files -> {"absent", "open", "cleared"}]
  /\ lock \in Scans \cup {None}
  /\ scan \in [Scans -> Scan]
  /\ strays \in [Scans -> SUBSET Files]
  /\ changes \in 0 .. MaxChanges /\ faults \in 0 .. MaxFaults

\* A file is reported only if there was a moment, after the scan began to ask
\* about its library, at which it was on disk and its service did not know it:
\* asking before walking makes a file that is being imported a stray at worst.
\* (orphaned/scanner.py:71-77, 40-59)
ReportedWasStray ==
  [][\A f \in Files :
       table[f] = "absent" /\ table'[f] # "absent" => \E s \in Scans : f \in strays[s]]_vars

\* What was reviewed and cleared is never opened again, whatever scans overlap
\* with the clearing and with each other. (orphaned/scanner.py:49-51,
\* api/routes/orphaned_files.py:34-43)
ClearedStaysCleared ==
  [][\A f \in Files : table[f] = "cleared" => table'[f] = "cleared"]_vars

\* The write lock is held by a scan that has rows to commit, and by no other:
\* no way out of a scan, raised or regular, leaves the database locked.
\* (orphaned/scanner.py:49-63, core/scheduler.py:33-38)
LockHasRows ==
  \A s \in Scans : lock = s <=> scan[s].inserted # {}

\* A file that stays on disk and unknown, in a library that stays enabled and mounted,
\* is reported in the end although scans collide, lose their batches and die, and
\* the daily scan runs whatever happened to it the day before.
\* (core/scheduler.py:33-38, orphaned/scanner.py:67-79)
StrayIsReported ==
  \A f \in Files :
    <>[](f \in Stray /\ LibraryOf[f] \in enabled \cap mounted) => <>(table[f] # "absent")
=============================================================================
