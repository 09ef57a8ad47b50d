------------------------- MODULE OrphanedScanProofs -------------------------
(***************************************************************************)
(* OrphanedScan for any files, libraries, scans, changes and faults.       *)
(***************************************************************************)
EXTENDS OrphanedScan, TLAPS

\* Of a scan with local variables c and strays w, when d is on disk, k tracked
\* and t reported: what it has not found tracked was a stray, and the rows it
\* has inserted are nobody else's.
ScanOK(c, w, d, k, t) ==
  /\ c.pc \in {"walk", "add"} => c.ask = {} /\ c.left \cap c.known = {}
  /\ c.left \subseteq In(c.lib)
  /\ c.pc \in {"idle", "begin", "ask"} => c.pending = {} /\ c.inserted = {}
  /\ c.pc = "add" => c.file \in w /\ c.pending = {}
  /\ c.pending \subseteq w /\ c.inserted \subseteq w
  /\ \A f \in c.inserted : t[f] = "absent"
  /\ c.pc \notin {"idle", "begin"} => \A f \in In(c.lib) :
       /\ f \in d /\ f \notin k => f \in w
       /\ f \in d /\ f \notin c.known /\ Source[f] \notin c.ask => f \in w

Inv ==
  /\ TypeOK
  /\ \A s \in Scans : ScanOK(scan[s], strays[s], disk, tracked, table)
  /\ LockHasRows
----------------------------------------------------------------------------
LEMMA ScanTypes ==
  /\ Idle \in Scan
  /\ \A lib \in Libraries :
       /\ Beginning(lib) \in Scan /\ Beginning(lib).pc = "begin" /\ Beginning(lib).left = {}
       /\ Beginning(lib).pending = {} /\ Beginning(lib).inserted = {}
       /\ Asking(lib) \in Scan /\ Asking(lib).pc = "ask" /\ Asking(lib).lib = lib
       /\ Asking(lib).ask = Sources(lib) /\ Asking(lib).left = {}
       /\ Asking(lib).pending = {} /\ Asking(lib).inserted = {}
<1>1. Idle \in Scan /\ Idle.left = {} /\ Idle.pending = {} /\ Idle.inserted = {}
  BY DEF Idle, Scan, Libraries
<1>2. ASSUME NEW lib \in Libraries
      PROVE  /\ Beginning(lib) \in Scan /\ Beginning(lib).pc = "begin" /\ Beginning(lib).left = {}
             /\ Beginning(lib).pending = {} /\ Beginning(lib).inserted = {}
  BY <1>1 DEF Beginning, Scan
<1>3. ASSUME NEW lib \in Libraries
      PROVE  /\ Asking(lib) \in Scan /\ Asking(lib).pc = "ask" /\ Asking(lib).lib = lib
             /\ Asking(lib).ask = Sources(lib) /\ Asking(lib).left = {}
             /\ Asking(lib).pending = {} /\ Asking(lib).inserted = {}
  <2>1. Sources(lib) \in SUBSET {Source[f] : f \in Files}
    BY DEF Sources, In
  <2> QED
    BY <1>1, <2>1 DEF Asking, Scan
<1> QED
  BY <1>1, <1>2, <1>3

\* A scan that is about to begin with a library, or over.
LEMMA FreshScanOK ==
  ASSUME NEW c, NEW w, NEW d, NEW k, NEW t,
         \/ c = Idle
         \/ \E lib \in Libraries : c = Beginning(lib)
         \/ \E lib \in Libraries :
              c = Asking(lib) /\ \A f \in In(lib) : f \in d /\ f \notin k => f \in w
  PROVE  ScanOK(c, w, d, k, t) /\ c \in Scan /\ c.inserted = {}
<1>1. CASE c = Idle
  BY <1>1, ScanTypes DEF ScanOK, Idle
<1>2. ASSUME NEW lib \in Libraries, c = Beginning(lib)
      PROVE  ScanOK(c, w, d, k, t) /\ c \in Scan /\ c.inserted = {}
  <2>1. /\ c \in Scan /\ c.pc = "begin" /\ c.left = {} /\ c.pending = {} /\ c.inserted = {}
    BY <1>2, ScanTypes
  <2> QED
    BY <2>1 DEF ScanOK
<1>3. ASSUME NEW lib \in Libraries, c = Asking(lib),
             \A f \in In(lib) : f \in d /\ f \notin k => f \in w
      PROVE  ScanOK(c, w, d, k, t) /\ c \in Scan /\ c.inserted = {}
  <2>1. /\ c \in Scan /\ c.pc = "ask" /\ c.lib = lib /\ c.ask = Sources(lib)
        /\ c.left = {} /\ c.pending = {} /\ c.inserted = {}
    BY <1>3, ScanTypes
  <2>2. \A f \in In(lib) : Source[f] \in Sources(lib)
    BY DEF Sources
  <2> QED
    BY <1>3, <2>1, <2>2 DEF ScanOK
<1> QED
  BY <1>1, <1>2, <1>3

----------------------------------------------------------------------------
\* What changes outside is noted among the strays of every scan.
LEMMA ChangeStep ==
  ASSUME Inv, Change
  PROVE  Inv'
<1> USE DEF Inv, TypeOK
<1>1. /\ disk' \subseteq Files /\ tracked' \subseteq disk' /\ enabled' \cup mounted' \subseteq Libraries
      /\ UNCHANGED <<table, lock, faults>> /\ changes' \in 0 .. MaxChanges
      /\ strays' = [s \in Scans |-> IF scan[s].pc \in {"idle", "begin"} THEN {}
                                    ELSE strays[s] \cup (Stray' \cap In(scan[s].lib))]
  <2>1. disk' \subseteq Files /\ tracked' \subseteq disk'
    BY DEF Change, Appear, Track, Vanish, Untrack, Switch, Mount, Stray
  <2>2. enabled' \cup mounted' \subseteq Libraries
    BY DEF Change, Appear, Track, Vanish, Untrack, Switch, Mount, Toggled
  <2>3. changes' \in 0 .. MaxChanges
    BY OrphanAssumption DEF Change
  <2> QED
    BY <2>1, <2>2, <2>3 DEF Change
<1>2. \A f \in disk' : f \in disk \/ f \notin tracked'
  BY DEF Change, Appear, Track, Vanish, Untrack, Switch, Mount
<1>3. /\ scan' \in [Scans -> Scan]
      /\ \A s \in Scans : \/ scan'[s] = scan[s]
                          \/ \E f \in In(scan[s].lib) \ scan[s].known :
                               /\ scan[s].pc \in {"walk", "add"}
                               /\ scan'[s] = [scan[s] EXCEPT !.left = @ \cup {f}]
  <2>1. CASE UNCHANGED scan
    BY <2>1
  <2>2. ASSUME NEW f \in Files, Appear(f) PROVE <1>3
    <3>1. PICK W \in SUBSET {s \in Scans : /\ scan[s].pc \in {"walk", "add"} /\ ~IsTracked(s, f)
                                          /\ scan[s].lib = LibraryOf[f]} :
            scan' = [s \in Scans |-> IF s \in W THEN [scan[s] EXCEPT !.left = @ \cup {f}]
                                     ELSE scan[s]]
      BY <2>2 DEF Appear
    <3>2. ASSUME NEW s \in Scans
          PROVE  [scan[s] EXCEPT !.left = @ \cup {f}] \in Scan
      <4>1. scan[s] \in Scan /\ scan[s].left \cup {f} \subseteq Files
        BY <2>2 DEF Scan
      <4> HIDE DEF Inv, TypeOK
      <4> QED
        BY <4>1 DEF Scan
    <3>3. \A s \in W : scan[s].pc \in {"walk", "add"} /\ f \in In(scan[s].lib) \ scan[s].known
      BY <2>2 DEF In, IsTracked
    <3>4. scan \in [Scans -> Scan]
      OBVIOUS
    <3> HIDE DEF Inv, TypeOK
    <3> QED
      BY <3>1, <3>2, <3>3, <3>4
  <2> QED
    BY <2>1, <2>2 DEF Change, Track, Vanish, Untrack, Switch, Mount
<1>4. ASSUME NEW s \in Scans
      PROVE  ScanOK(scan'[s], strays'[s], disk', tracked', table')
  <2>1. scan[s] \in Scan /\ ScanOK(scan[s], strays[s], disk, tracked, table)
    OBVIOUS
  <2>2. /\ scan'[s].pc = scan[s].pc /\ scan'[s].lib = scan[s].lib /\ scan'[s].ask = scan[s].ask
        /\ scan'[s].known = scan[s].known /\ scan'[s].file = scan[s].file
        /\ scan'[s].pending = scan[s].pending /\ scan'[s].inserted = scan[s].inserted
        /\ scan'[s].left \subseteq scan[s].left \cup (In(scan[s].lib) \ scan[s].known)
    BY <1>3, <2>1 DEF Scan
  <2>3. CASE scan[s].pc \in {"idle", "begin"}
    BY <1>1, <2>1, <2>2, <2>3 DEF ScanOK
  <2>4. CASE scan[s].pc \notin {"idle", "begin"}
    <3>1. strays'[s] = strays[s] \cup (Stray' \cap In(scan[s].lib))
      BY <1>1, <2>4
    <3>2. \A f \in In(scan[s].lib) : f \in disk' /\ f \notin tracked' => f \in strays'[s]
      BY <3>1 DEF Stray
    <3>3. \A f \in In(scan[s].lib) :
            f \in disk' /\ f \notin scan[s].known /\ Source[f] \notin scan[s].ask => f \in strays'[s]
      BY <1>2, <2>1, <2>4, <3>1, <3>2 DEF ScanOK
    <3> QED
      BY <1>1, <2>1, <2>2, <2>4, <3>1, <3>2, <3>3 DEF ScanOK
  <2> QED
    BY <2>3, <2>4
<1>5. \A s \in Scans : scan'[s].inserted = scan[s].inserted
  BY <1>3 DEF Scan
<1>6. strays' \in [Scans -> SUBSET Files]
  BY <1>1 DEF In
<1> QED
  BY <1>1, <1>3, <1>4, <1>5, <1>6 DEF LockHasRows

\* A step of one scan leaves the others right, if it respects their rows and lock.
LEMMA OneScan ==
  ASSUME Inv, NEW s \in Scans, NEW c \in Scan, NEW w \in SUBSET Files,
         UNCHANGED <<outside, changes>>, faults' \in 0 .. MaxFaults,
         scan' = [scan EXCEPT ![s] = c], strays' = [strays EXCEPT ![s] = w],
         table' \in [Files -> {"absent", "open", "cleared"}],
         ScanOK(c, w, disk, tracked, table'),
         \A q \in Scans : q # s => \A f \in scan[q].inserted : table'[f] = "absent",
         lock' \in {lock, s, None}, (lock' = s) <=> (c.inserted # {}),
         lock' # lock => lock \in {s, None}
  PROVE  Inv'
<1>1. TypeOK'
  BY DEF Inv, TypeOK, outside
<1>2. ASSUME NEW q \in Scans PROVE ScanOK(scan'[q], strays'[q], disk', tracked', table')
  <2>1. CASE q = s
    BY <2>1 DEF Inv, TypeOK, outside
  <2>2. CASE q # s
    <3>1. scan'[q] = scan[q] /\ strays'[q] = strays[q] /\ disk' = disk /\ tracked' = tracked
      BY <2>2 DEF Inv, TypeOK, outside
    <3>2. ScanOK(scan[q], strays[q], disk, tracked, table)
      BY DEF Inv
    <3> QED
      BY <2>2, <3>1, <3>2 DEF ScanOK
  <2> QED
    BY <2>1, <2>2
<1>3. LockHasRows'
  <2>1. ASSUME NEW q \in Scans PROVE (lock' = q) <=> (scan'[q].inserted # {})
    <3>1. CASE q = s
      BY <3>1 DEF Inv, TypeOK
    <3>2. CASE q # s
      <4>1. scan'[q] = scan[q] /\ ((lock = q) <=> (scan[q].inserted # {}))
        BY <3>2 DEF Inv, TypeOK, LockHasRows
      <4>2. (lock' = q) <=> (lock = q)
        BY <3>2, OrphanAssumption
      <4> QED
        BY <4>1, <4>2
    <3> QED
      BY <3>1, <3>2
  <2> QED
    BY <2>1 DEF LockHasRows
<1> QED
  BY <1>1, <1>2, <1>3 DEF Inv

\* Going on to the next library or ending.
LEMMA OnwardsOK ==
  ASSUME Inv, NEW s \in Scans, Onwards(s), NEW t
  PROVE  \E c \in Scan, w \in SUBSET Files :
           /\ scan' = [scan EXCEPT ![s] = c] /\ strays' = [strays EXCEPT ![s] = w]
           /\ ScanOK(c, w, disk, tracked, t) /\ c.inserted = {}
<1> DEFINE c == IF scan[s].lib = "movies" THEN Beginning("tv") ELSE Idle
<1>1. scan' = [scan EXCEPT ![s] = c] /\ strays' = [strays EXCEPT ![s] = {}]
  BY DEF Onwards, Proceed
<1>2. "tv" \in Libraries
  BY DEF Libraries
<1>3. ScanOK(c, {}, disk, tracked, t) /\ c \in Scan /\ c.inserted = {}
  BY <1>2, FreshScanOK
<1> QED
  BY <1>1, <1>3

\* Ending with the batch lost.
LEMMA AbandonStep ==
  ASSUME Inv, NEW s \in Scans, Abandon(s), faults' \in 0 .. MaxFaults
  PROVE  Inv'
<1>1. /\ UNCHANGED <<outside, changes, table>> /\ table \in [Files -> {"absent", "open", "cleared"}]
      /\ scan' = [scan EXCEPT ![s] = Idle] /\ strays' = [strays EXCEPT ![s] = {}]
      /\ lock' = IF lock = s THEN None ELSE lock
  BY DEF Abandon, Proceed, Inv, TypeOK
<1>2. ScanOK(Idle, {}, disk, tracked, table) /\ Idle \in Scan /\ Idle.inserted = {}
  BY FreshScanOK
<1>3. \A q \in Scans : \A f \in scan[q].inserted : table'[f] = "absent"
  BY <1>1 DEF Inv, ScanOK
<1>4. lock' \in {lock, s, None} /\ lock' # s /\ (lock' # lock => lock \in {s, None})
  BY <1>1, OrphanAssumption
<1>5. ((lock' = s) <=> (Idle.inserted # {})) /\ {} \in SUBSET Files
  BY <1>2, <1>4
<1>6. ScanOK(Idle, {}, disk, tracked, table')
  BY <1>1, <1>2
<1> HIDE DEF Idle
<1> QED
  BY <1>1, <1>2, <1>3, <1>4, <1>5, <1>6, OneScan

\* A step of a scan that leaves the tables and its strays alone.
LEMMA QuietScan ==
  ASSUME Inv, NEW s \in Scans, NEW c \in Scan, scan' = [scan EXCEPT ![s] = c],
         UNCHANGED <<outside, table, strays, changes, faults>>,
         ScanOK(c, strays[s], disk, tracked, table),
         lock' \in {lock, s}, (lock' = s) <=> (c.inserted # {}), lock' # lock => lock = None
  PROVE  Inv'
<1>1. /\ strays[s] \in SUBSET Files /\ strays' = [strays EXCEPT ![s] = strays[s]]
      /\ faults' \in 0 .. MaxFaults /\ table' \in [Files -> {"absent", "open", "cleared"}]
  BY DEF Inv, TypeOK
<1>2. \A q \in Scans : \A f \in scan[q].inserted : table'[f] = "absent"
  BY DEF Inv, ScanOK
<1>3. ScanOK(c, strays[s], disk, tracked, table')
  OBVIOUS
<1> QED
  BY <1>1, <1>2, <1>3, OneScan

LEMMA StartStep ==
  ASSUME Inv, NEW s \in Scans, Start(s)
  PROVE  Inv'
<1> DEFINE c == Beginning("movies")
<1>1. /\ UNCHANGED <<outside, table, lock, strays, changes, faults>> /\ scan[s].pc = "idle"
      /\ scan' = [scan EXCEPT ![s] = c]
  BY DEF Start, Proceed
<1>2. "movies" \in Libraries
  BY DEF Libraries
<1>3. ScanOK(c, strays[s], disk, tracked, table) /\ c \in Scan /\ c.inserted = {}
  BY <1>2, FreshScanOK
<1>4. lock' = lock /\ lock # s
  BY <1>1 DEF Inv, LockHasRows, ScanOK
<1> HIDE DEF c
<1> QED
  BY <1>1, <1>3, <1>4, QuietScan

LEMMA BeginAskingStep ==
  ASSUME Inv, NEW s \in Scans, BeginAsking(s)
  PROVE  Inv'
<1> DEFINE c == Asking(scan[s].lib)
           w == Stray \cap In(scan[s].lib)
<1>1. /\ UNCHANGED <<outside, table, lock, changes, faults>> /\ scan[s].pc = "begin"
      /\ scan' = [scan EXCEPT ![s] = c] /\ strays' = [strays EXCEPT ![s] = w]
      /\ faults' \in 0 .. MaxFaults /\ table' \in [Files -> {"absent", "open", "cleared"}]
  BY DEF BeginAsking, Proceed, Inv, TypeOK
<1>2. scan[s].lib \in Libraries /\ w \in SUBSET Files
  BY DEF Inv, TypeOK, Scan, In
<1>3. ScanOK(c, w, disk, tracked, table') /\ c \in Scan /\ c.inserted = {}
  BY <1>2, FreshScanOK DEF Stray
<1>4. \A q \in Scans : \A f \in scan[q].inserted : table'[f] = "absent"
  BY <1>1 DEF Inv, ScanOK
<1>5. lock' = lock /\ lock # s
  BY <1>1 DEF Inv, LockHasRows, ScanOK
<1>6. (lock' = s) <=> (c.inserted # {})
  BY <1>3, <1>5
<1> HIDE DEF c, w
<1> QED
  BY <1>1, <1>2, <1>3, <1>4, <1>5, <1>6, OneScan

\* SkipLibrary, SkipUnmounted, ServiceFails, Commit.
LEMMA OnwardsStep ==
  ASSUME Inv, NEW s \in Scans, SkipLibrary(s) \/ SkipUnmounted(s) \/ ServiceFails(s) \/ Commit(s)
  PROVE  Inv'
<1> USE DEF Inv, TypeOK
<1>1. /\ UNCHANGED <<outside, changes>> /\ Onwards(s) /\ faults' \in 0 .. MaxFaults
      /\ table' \in [Files -> {"absent", "open", "cleared"}]
  <2>1. faults' \in 0 .. MaxFaults
    BY OrphanAssumption DEF SkipLibrary, SkipUnmounted, ServiceFails, Commit
  <2> QED
    BY <2>1 DEF SkipLibrary, SkipUnmounted, ServiceFails, Commit
<1>2. PICK c \in Scan, w \in SUBSET Files :
           /\ scan' = [scan EXCEPT ![s] = c] /\ strays' = [strays EXCEPT ![s] = w]
           /\ ScanOK(c, w, disk, tracked, table') /\ c.inserted = {}
  BY <1>1, OnwardsOK
<1>3. lock' = IF lock = s THEN None ELSE lock
  <2>1. CASE SkipLibrary(s) \/ SkipUnmounted(s) \/ ServiceFails(s)
    BY <2>1 DEF SkipLibrary, SkipUnmounted, ServiceFails, LockHasRows, ScanOK
  <2> QED
    BY <2>1 DEF Commit
<1>4. ASSUME NEW q \in Scans, q # s, NEW f \in scan[q].inserted
      PROVE  table'[f] = "absent"
  <2>1. table[f] = "absent" /\ lock = q
    BY <1>4 DEF ScanOK, LockHasRows
  <2>2. CASE UNCHANGED table
    BY <2>1, <2>2
  <2>3. CASE Commit(s)
    <3>1. Batch(s) = {}
      BY <1>4, <2>1, <2>3, OrphanAssumption DEF Commit, Free
    <3> QED
      BY <2>1, <2>3, <3>1, <1>4 DEF Commit, Scan
  <2> QED
    BY <2>2, <2>3 DEF SkipLibrary, SkipUnmounted, ServiceFails
<1>5. lock' \in {lock, s, None} /\ lock' # s /\ (lock' # lock => lock \in {s, None})
  BY <1>3, OrphanAssumption
<1>6. (lock' = s) <=> (c.inserted # {})
  BY <1>2, <1>5
<1> QED
  BY <1>1, <1>2, <1>4, <1>5, <1>6, OneScan

\* The calls, the walk and the rows that are only added.
LEMMA QuietStep ==
  ASSUME Inv, NEW s \in Scans,
         \/ Walk(s) \/ Add(s)
         \/ \E x \in scan[s].ask : Ask(s, x)
         \/ \E f \in scan[s].left : PassBy(s, f)
  PROVE  Inv'
<1>0. /\ scan[s] \in Scan /\ ScanOK(scan[s], strays[s], disk, tracked, table)
      /\ ((lock = s) <=> (scan[s].inserted # {})) /\ tracked \subseteq Files
  BY DEF Inv, TypeOK, LockHasRows
<1>1. CASE Walk(s)
  <2> DEFINE c == [scan[s] EXCEPT !.pc = "walk",
                                  !.left = {f \in disk \cap In(scan[s].lib) : ~IsTracked(s, f)}]
  <2>1. /\ c \in Scan /\ c.pc = "walk" /\ c.lib = scan[s].lib
        /\ c.left = (disk \cap In(scan[s].lib)) \ scan[s].known
        /\ c.ask = scan[s].ask /\ c.known = scan[s].known /\ c.pending = scan[s].pending
        /\ c.inserted = scan[s].inserted
    BY <1>0 DEF Scan, In, IsTracked
  <2>2. /\ scan[s].pc = "ask" /\ scan[s].ask = {} /\ scan' = [scan EXCEPT ![s] = c]
        /\ UNCHANGED <<outside, table, lock, strays, changes, faults>>
    BY <1>1 DEF Walk, Proceed
  <2> HIDE DEF c
  <2>3. ScanOK(c, strays[s], disk, tracked, table)
    BY <1>0, <2>1, <2>2 DEF ScanOK
  <2> QED
    BY <1>0, <2>1, <2>2, <2>3, QuietScan
<1>2. CASE Add(s)
  <2> DEFINE c == [scan[s] EXCEPT !.pc = "walk", !.file = None, !.pending = {scan[s].file}]
  <2>1. /\ scan[s].pc = "add" /\ scan[s].file \in Visible /\ scan' = [scan EXCEPT ![s] = c]
        /\ UNCHANGED <<outside, table, lock, strays, changes, faults>>
    BY <1>2 DEF Add, Proceed
  <2>2. scan[s].file \in Files
    BY <2>1 DEF Inv, TypeOK, Visible
  <2>3. /\ c \in Scan /\ c.pc = "walk" /\ c.left = scan[s].left /\ c.lib = scan[s].lib
        /\ c.ask = scan[s].ask /\ c.known = scan[s].known /\ c.pending = {scan[s].file}
        /\ c.inserted = scan[s].inserted
    BY <1>0, <2>2 DEF Scan
  <2> HIDE DEF c
  <2>4. ScanOK(c, strays[s], disk, tracked, table)
    BY <1>0, <2>1, <2>3 DEF ScanOK
  <2> QED
    BY <1>0, <2>1, <2>3, <2>4, QuietScan
<1>3. ASSUME NEW x \in scan[s].ask, Ask(s, x) PROVE Inv'
  <2> DEFINE c == [scan[s] EXCEPT !.ask = @ \ {x},
                                  !.known = @ \cup {f \in tracked : Source[f] = x}]
  <2>1. /\ scan[s].pc = "ask" /\ scan' = [scan EXCEPT ![s] = c]
        /\ UNCHANGED <<outside, table, lock, strays, changes, faults>>
    BY <1>3 DEF Ask, Proceed
  <2>2. /\ c \in Scan /\ c.pc = "ask" /\ c.left = scan[s].left /\ c.lib = scan[s].lib
        /\ c.ask = scan[s].ask \ {x} /\ c.pending = scan[s].pending
        /\ c.known = scan[s].known \cup {f \in tracked : Source[f] = x}
        /\ c.inserted = scan[s].inserted
    BY <1>0, <2>1 DEF Scan
  <2> HIDE DEF c
  <2>3. \A f \in In(c.lib) :
          f \in disk /\ f \notin c.known /\ Source[f] \notin c.ask => f \in strays[s]
    BY <1>0, <2>1, <2>2 DEF ScanOK
  <2>4. ScanOK(c, strays[s], disk, tracked, table)
    BY <1>0, <2>1, <2>2, <2>3 DEF ScanOK
  <2> QED
    BY <1>0, <2>1, <2>2, <2>4, QuietScan
<1>4. ASSUME NEW f \in scan[s].left, PassBy(s, f) PROVE Inv'
  <2> DEFINE c == [scan[s] EXCEPT !.left = @ \ {f}]
  <2>1. /\ scan[s].pc = "walk" /\ scan' = [scan EXCEPT ![s] = c]
        /\ UNCHANGED <<outside, table, lock, strays, changes, faults>>
    BY <1>4 DEF PassBy, Proceed
  <2>2. /\ c \in Scan /\ c.pc = "walk" /\ c.left = scan[s].left \ {f} /\ c.lib = scan[s].lib
        /\ c.ask = scan[s].ask /\ c.known = scan[s].known /\ c.pending = scan[s].pending
        /\ c.inserted = scan[s].inserted
    BY <1>0, <2>1 DEF Scan
  <2> HIDE DEF c
  <2>3. ScanOK(c, strays[s], disk, tracked, table)
    BY <1>0, <2>1, <2>2 DEF ScanOK
  <2> QED
    BY <1>0, <2>1, <2>2, <2>3, QuietScan
<1> QED
  BY <1>1, <1>2, <1>3, <1>4

\* The SELECT, which flushes the row added before: the lock is taken with it.
LEMMA LookUpStep ==
  ASSUME Inv, NEW s \in Scans, NEW f \in scan[s].left, LookUp(s, f)
  PROVE  Inv'
<1>0. /\ scan[s] \in Scan /\ ScanOK(scan[s], strays[s], disk, tracked, table)
      /\ ((lock = s) <=> (scan[s].inserted # {})) /\ lock \in Scans \cup {None}
  BY DEF Inv, TypeOK, LockHasRows
<1> DEFINE b == [Flushed(s) EXCEPT !.left = @ \ {f}]
           c == IF Reported(s, f) THEN b ELSE [Flushed(s) EXCEPT !.left = @ \ {f}, !.file = f, !.pc = "add"]
<1>1. /\ scan[s].pc = "walk" /\ f \in disk /\ f \notin scan[s].known
      /\ scan[s].pending # {} => lock \in {None, s} /\ \A x \in scan[s].pending : table[x] = "absent"
      /\ lock' = IF scan[s].pending # {} THEN s ELSE lock
      /\ scan' = [scan EXCEPT ![s] = c]
      /\ UNCHANGED <<outside, table, strays, changes, faults>>
  <2>1. scan[s].pc = "walk" /\ f \in disk /\ f \notin scan[s].known
    BY <1>0 DEF LookUp, Visible, ScanOK
  <2> QED
    BY <2>1 DEF LookUp, Proceed, Free, Unique
<1>2. f \in Files /\ f \in strays[s]
  <2>1. f \in In(scan[s].lib) /\ scan[s].ask = {}
    BY <1>0, <1>1 DEF ScanOK
  <2> QED
    BY <1>0, <1>1, <2>1 DEF ScanOK, In
<1>3. /\ Flushed(s) \in Scan /\ Flushed(s).pc = "walk" /\ Flushed(s).left = scan[s].left
      /\ Flushed(s).lib = scan[s].lib /\ Flushed(s).ask = scan[s].ask
      /\ Flushed(s).known = scan[s].known /\ Flushed(s).pending = {}
      /\ Flushed(s).inserted = scan[s].inserted \cup scan[s].pending
  BY <1>0, <1>1 DEF Flushed, Scan
<1>4. /\ c \in Scan /\ c.pc \in {"walk", "add"} /\ (c.pc = "add" => c.file = f)
      /\ c.left = scan[s].left \ {f}
      /\ c.lib = scan[s].lib /\ c.ask = scan[s].ask /\ c.known = scan[s].known /\ c.pending = {}
      /\ c.inserted = scan[s].inserted \cup scan[s].pending
  <2>1. CASE Reported(s, f)
    BY <1>2, <1>3, <2>1 DEF Scan
  <2>2. CASE ~Reported(s, f)
    <3>1. c = [Flushed(s) EXCEPT !.left = @ \ {f}, !.file = f, !.pc = "add"]
      BY <2>2
    <3> HIDE DEF c
    <3> QED
      BY <1>2, <1>3, <3>1 DEF Scan
  <2> QED
    BY <2>1, <2>2
<1> HIDE DEF b, c
<1>5. ScanOK(c, strays[s], disk, tracked, table)
  BY <1>0, <1>1, <1>2, <1>4 DEF ScanOK
<1>6. (lock' = s) <=> (c.inserted # {})
  <2>1. CASE scan[s].pending = {}
    BY <1>0, <1>1, <1>4, <2>1
  <2>2. CASE scan[s].pending # {}
    BY <1>1, <1>4, <2>2
  <2> QED
    BY <2>1, <2>2
<1>7. lock' \in {lock, s} /\ (lock' # lock => lock = None)
  BY <1>1
<1> QED
  BY <1>1, <1>4, <1>5, <1>6, <1>7, QuietScan

LEMMA ClearStep ==
  ASSUME Inv, NEW f \in Files, Clear(f)
  PROVE  Inv'
<1>1. /\ UNCHANGED <<outside, lock, scan, strays, changes, faults>> /\ lock = None
      /\ table' \in [Files -> {"absent", "open", "cleared"}]
  BY DEF Clear, Inv, TypeOK
<1>2. \A s \in Scans : scan[s].inserted = {}
  BY <1>1, OrphanAssumption DEF Inv, LockHasRows
<1>3. \A s \in Scans : ScanOK(scan[s], strays[s], disk, tracked, table')
  BY <1>2 DEF Inv, ScanOK
<1> QED
  BY <1>1, <1>3 DEF Inv, TypeOK, LockHasRows, outside

\* Every step keeps the strengthening.
LEMMA InvStep ==
  ASSUME Inv, [Next]_vars
  PROVE  Inv'
<1>1. CASE UNCHANGED vars
  BY <1>1 DEF vars, outside, Inv, TypeOK, LockHasRows, ScanOK
<1>2. ASSUME NEW s \in Scans, Raises(s) \/ LockTimeout(s) \/ Dies(s) PROVE Inv'
  <2>1. faults' \in 0 .. MaxFaults /\ Abandon(s)
    BY <1>2, OrphanAssumption DEF Raises, LockTimeout, Dies, Inv, TypeOK
  <2> QED
    BY <2>1, AbandonStep
<1> QED
  BY <1>1, <1>2, ChangeStep, StartStep, BeginAskingStep, OnwardsStep, QuietStep, LookUpStep, ClearStep
  DEF Next, Step

LEMMA InvInit == Init => Inv
<1> SUFFICES ASSUME Init PROVE Inv
  OBVIOUS
<1>1. \A s \in Scans : scan[s] = Idle /\ strays[s] = {}
  BY DEF Init
<1>2. Idle \in Scan /\ Idle.inserted = {} /\ ScanOK(Idle, {}, disk, tracked, table)
  BY FreshScanOK
<1>3. TypeOK
  BY <1>2, OrphanAssumption DEF Init, TypeOK
<1>4. LockHasRows
  BY <1>1, <1>2, OrphanAssumption DEF Init, LockHasRows
<1> QED
  BY <1>1, <1>2, <1>3, <1>4 DEF Inv

LEMMA Invariant == Spec => []Inv
BY InvInit, InvStep, PTL DEF Spec
----------------------------------------------------------------------------
\* Every variable keeps its type.
THEOREM TypeCorrect == Spec => []TypeOK
BY Invariant, PTL DEF Inv

\* No way out of a scan leaves the database locked.
THEOREM LockIsReleased == Spec => []LockHasRows
BY Invariant, PTL DEF Inv

\* Whatever is reported was a stray at some moment of the scan that reports it.
THEOREM ReportsAreStrays == Spec => ReportedWasStray
<1>1. ASSUME Inv, [Next]_vars, NEW f \in Files, table[f] = "absent", table'[f] # "absent"
      PROVE  \E s \in Scans : f \in strays[s]
  <2>1. table \in [Files -> {"absent", "open", "cleared"}]
    BY <1>1 DEF Inv, TypeOK
  <2>2. PICK s \in Scans : Commit(s)
    BY <1>1, <2>1
    DEF Next, Change, Step, Start, SkipLibrary, BeginAsking, SkipUnmounted, Walk, Add, Raises, Ask, PassBy, LookUp,
        ServiceFails, LockTimeout, Dies, Abandon, Clear, vars
  <2>3. f \in Batch(s)
    BY <1>1, <2>1, <2>2 DEF Commit
  <2> QED
    BY <1>1, <2>3 DEF Batch, Inv, ScanOK
<1>2. ASSUME Inv, [Next]_vars
      PROVE  [\A f \in Files : table[f] = "absent" /\ table'[f] # "absent"
                 => \E s \in Scans : f \in strays[s]]_vars
  BY <1>1, <1>2
<1> QED
  BY <1>2, Invariant, PTL DEF Spec, ReportedWasStray

\* What was cleared is never opened again.
THEOREM ClearedIsCleared == Spec => ClearedStaysCleared
<1>1. ASSUME Inv, [Next]_vars, NEW f \in Files, table[f] = "cleared"
      PROVE  table'[f] = "cleared"
  <2>1. table \in [Files -> {"absent", "open", "cleared"}]
    BY <1>1 DEF Inv, TypeOK
  <2>2. CASE UNCHANGED table
    BY <1>1, <2>2
  <2>3. ASSUME NEW s \in Scans, Commit(s) PROVE table'[f] = "cleared"
    <3>1. f \notin scan[s].inserted
      BY <1>1 DEF Inv, ScanOK
    <3>2. f \notin scan[s].pending
      BY <1>1, <2>3 DEF Commit, Batch, Unique
    <3> QED
      BY <1>1, <2>1, <2>3, <3>1, <3>2 DEF Commit, Batch
  <2>4. ASSUME NEW g \in Files, Clear(g) PROVE table'[f] = "cleared"
    BY <1>1, <2>1, <2>4 DEF Clear
  <2> QED
    BY <1>1, <2>2, <2>3, <2>4
    DEF Next, Change, Step, Start, SkipLibrary, BeginAsking, SkipUnmounted, Walk, Add, Raises, Ask, PassBy, LookUp,
        ServiceFails, LockTimeout, Dies, Abandon, vars
<1>2. ASSUME Inv, [Next]_vars
      PROVE  [\A f \in Files : table[f] = "cleared" => table'[f] = "cleared"]_vars
  BY <1>1, <1>2
<1> QED
  BY <1>2, Invariant, PTL DEF Spec, ClearedStaysCleared
=============================================================================
