------------------------ MODULE CutPromotion_proofs ------------------------
(***************************************************************************)
(* What holds of CutPromotion for any number of jobs, openers, crashes and *)
(* faults, under either name of the published directory, as long as nobody *)
(* has the lock of the key while a promotion runs (PromotesAlone).  The    *)
(* lock itself sees to that only where the directory is named by its key   *)
(* (KeyNamesPromoteAlone); under a readable name it is a condition on the  *)
(* environment, without which the cuts can be lost.  The first part, about *)
(* backups and their marker, holds whatever is edited or misread; the      *)
(* second, that no cuts are lost and that they change in one step, where   *)
(* nothing is.                                                             *)
(***************************************************************************)
EXTENDS CutPromotion, TLAPS

---------------------------------------------------------------------------
(* Control: where the threads are, and who holds the lock.                 *)

Journalled == {"SWAP", "OLD_MOVED", "MOVE_NEW", "NEW_ACTIVE", "VALIDATE",
               "REMOVE_OLD", "UNLINK"}
RenderLabels == {"RECOVERED", "NOT_RECOVERED", "MAKE_STAGE", "STAGING",
                 "STAGED", "INSPECT", "WRITE_JOURNAL", "DROP_UNMARKED",
                 "UNLOCK", "DISCARD", "RETURN"} \cup Journalled
OpenerLabels == {"HOLDS", "OPENED", "NOT_OPENED", "SCANNED", "SCAN_ENDS"}
LabelsOf(t) == {"IDLE"} \cup RecoveryLabels
               \cup (IF t = Renderer THEN RenderLabels ELSE OpenerLabels)

\* Where no lock is held.
Free == {"IDLE", "HOLDS", "MAKE_STAGE", "STAGING", "STAGED", "DISCARD"}

\* Where a recovery goes when it is done, and when it fails.
Exits(t) ==
    IF t = Renderer
    THEN {[ok |-> "RECOVERED", fail |-> "NOT_RECOVERED"],
          [ok |-> "INSPECT", fail |-> "UNLOCK"],
          [ok |-> "RETURN", fail |-> "RETURN"],
          [ok |-> "UNLOCK", fail |-> "UNLOCK"]}
    ELSE {[ok |-> "OPENED", fail |-> "NOT_OPENED"]}
ExitLabels == {"IDLE", "OPENED", "NOT_OPENED"} \cup RenderLabels

Recovering(t) == pc[t] \in RecoveryLabels \ {"MARKER"}

\* The renderer is in a recovery it leaves for one of these.
Returning(labels) ==
    pc[Renderer] \in RecoveryLabels /\ ret[Renderer].ok \in labels

Control ==
    /\ PromotesAlone
    /\ pc \in [Threads -> {"IDLE"} \cup RecoveryLabels \cup RenderLabels
                          \cup OpenerLabels]
    /\ ret \in [Threads -> [ok : ExitLabels, fail : ExitLabels]]
    /\ half \in [Threads -> BOOLEAN]
    /\ lock \in [{KeyLock, NameLock} -> Threads \cup {Nil}]
    /\ \A t \in Threads :
          /\ pc[t] \in LabelsOf(t)
          /\ pc[t] \in RecoveryLabels => ret[t] \in Exits(t)
          /\ pc[t] \notin Free =>
                lock[KeyLock] = t \/ (t = Renderer /\ lock[NameLock] = t)

\* What the records of the threads and of the disk hold, and how far the
\* counters of a directory can have come.
Views == [journal : Journals \cup {Nil},
          target : Hashes \cup Contents \cup {Nil},
          stage : Hashes \cup {Nil}, backup : Hashes \cup {Nil}]

Records ==
    /\ bounds \in Bounds
    /\ spent \in [edits : 0 .. bounds.edits, scans : 0 .. bounds.scans,
                  reads : 0 .. bounds.reads, crashes : 0 .. bounds.crashes]
    /\ dir \in [Places -> Contents \cup {Nil}]
    /\ marker \in Journals \cup {Nil}
    /\ seen \in [Threads -> Views]
    /\ job \in 0 .. bounds.jobs /\ delivered \in 0 .. job
    /\ journal \in Journals \cup {Nil} /\ oldLocation \in Places \cup {Nil}
    /\ ~ThreadAt(Renderer, "IDLE") => job > 0

Counted ==
    /\ \A p \in Places : dir[p] # Nil =>
          /\ dir[p].frames <= spent.edits /\ dir[p].recorded <= spent.edits
          /\ dir[p].stamp <= spent.scans
    /\ \A o \in Openers : ThreadAt(o, "SCANNED") =>
          /\ seen[o].target \in Contents /\ seen[o].target.frames <= spent.edits
          /\ spent.scans > 0
          /\ \A p \in Places : dir[p] # Nil => dir[p].stamp < spent.scans

\* The marker on disk: what a recovery knows of it, and what the renderer does.
MarkerKnown(t) ==
    /\ Recovering(t) => marker # Nil /\ seen[t].journal = marker
    /\ ThreadAt(t, "OPENED") => marker = Nil

MarkerWritten ==
    /\ pc[Renderer] \in {"RECOVERED", "MAKE_STAGE", "STAGING", "STAGED",
                         "INSPECT", "WRITE_JOURNAL", "RETURN"} => marker = Nil
    /\ Returning({"INSPECT", "RETURN"}) =>
          ThreadAt(Renderer, "MARKER") /\ marker = Nil
    /\ pc[Renderer] \in Journalled \cup {"WRITE_JOURNAL"} =>
          journal # Nil /\ journal.job = job
    /\ pc[Renderer] \in Journalled => marker = journal
    /\ ThreadAt(Renderer, "DROP_UNMARKED") =>
          journal # Nil /\ journal.job = job /\ marker \in {Nil, journal}

Marked == (\A t \in Threads : MarkerKnown(t)) /\ MarkerWritten

\* The backup a marker speaks of, and when it is gone.
BackupMarked ==
    \A j \in 1 .. MaxPromotions :
        dir[Backup(j)] # Nil => marker # Nil /\ marker.job = j

BackupKnown(t) ==
    /\ pc[t] \in {"DROP_STAGE", "DROP_BACKUP"} =>
          \/ OldPlace(seen[t]) # Backup(marker.job)
          \/ dir[Backup(marker.job)] = Nil
    /\ ThreadAt(t, "UNMARK") => dir[Backup(marker.job)] = Nil

BackupWritten ==
    /\ pc[Renderer] \in {"SWAP", "UNLINK", "DROP_UNMARKED"} =>
          dir[Backup(job)] = Nil
    /\ pc[Renderer] \in {"NEW_ACTIVE", "VALIDATE", "REMOVE_OLD"} =>
          oldLocation = Backup(job) \/ dir[Backup(job)] = Nil
    /\ pc[Renderer] \in {"OLD_MOVED", "MOVE_NEW"} => oldLocation = Backup(job)

BackedUp ==
    BackupMarked /\ (\A t \in Threads : BackupKnown(t)) /\ BackupWritten

Always == Control /\ Records /\ Counted /\ Marked /\ BackedUp


USE PromotionConstants

---------------------------------------------------------------------------
(* Places and threads.                                                     *)

LEMMA PlaceNames ==
  /\ Target \in Places
  /\ \A j \in 1 .. MaxPromotions : Stage(j) \in Places /\ Backup(j) \in Places
  /\ \A p \in Places : p = Target \/ \E j \in 1 .. MaxPromotions :
                                        p = Stage(j) \/ p = Backup(j)
  /\ \A j, k :
        /\ Stage(j) # Target /\ Backup(j) # Target /\ Stage(j) # Backup(k)
        /\ Stage(j) = Stage(k) => j = k
        /\ Backup(j) = Backup(k) => j = k
BY DEF Places, Target, Stage, Backup

LEMMA RendererIsAThread ==
  /\ Renderer \in Threads /\ \A o \in Openers : o \in Threads /\ o # Renderer
  /\ \A t \in Threads : t # Renderer => t \in Openers
  /\ Nil \notin Threads
BY DEF Threads, Renderer

\* One thread at a time is where a lock is held.
LEMMA Exclusive ==
  ASSUME Control, NEW s \in Threads, NEW t \in Threads,
         pc[s] \notin Free, pc[t] \notin Free
  PROVE  s = t
BY RendererIsAThread DEF Control, PromotesAlone

LEMMA ControlStep ==
  ASSUME NEW t \in Threads, NEW l \in LabelsOf(t), Control, PromotesAlone',
         ThreadGoto(t, l), half' \in [Threads -> BOOLEAN],
         \/ ret' = ret
         \/ \E e \in Exits(t) : ret' = [ret EXCEPT ![t] = e],
         l \in RecoveryLabels => ret'[t] \in Exits(t),
         \/ lock' = lock /\ (l \in Free <=> pc[t] \in Free)
         \/ Acquire(t, KeyLock) \/ (t = Renderer /\ Acquire(t, NameLock))
         \/ Release(t, KeyLock) /\ l \in Free /\ pc[t] \notin Free
         \/ Release(t, NameLock) /\ l \in Free /\ pc[t] \notin Free
  PROVE  Control'
<1> USE DEF Control, ThreadGoto
<1>1. pc' \in [Threads -> {"IDLE"} \cup RecoveryLabels \cup RenderLabels
                          \cup OpenerLabels]
  BY DEF LabelsOf
<1>2. ret' \in [Threads -> [ok : ExitLabels, fail : ExitLabels]]
  BY DEF Exits, ExitLabels, RenderLabels, Journalled
<1>3. lock' \in [{KeyLock, NameLock} -> Threads \cup {Nil}]
  BY DEF Acquire, Release
<1>4. ASSUME NEW s \in Threads
      PROVE  /\ pc'[s] \in LabelsOf(s)
             /\ pc'[s] \in RecoveryLabels => ret'[s] \in Exits(s)
  <2>1. s # t => pc'[s] = pc[s] /\ ret'[s] = ret[s]
    OBVIOUS
  <2>2. pc'[t] = l
    OBVIOUS
  <2>3. QED
    BY <2>1, <2>2
<1>5. ASSUME NEW s \in Threads, pc'[s] \notin Free
      PROVE  lock'[KeyLock] = s \/ (s = Renderer /\ lock'[NameLock] = s)
  <2>1. s # t => pc'[s] = pc[s]
    OBVIOUS
  <2>2. pc'[t] = l
    OBVIOUS
  <2>3. pc[s] \notin Free => lock[KeyLock] = s \/ (s = Renderer /\ lock[NameLock] = s)
    OBVIOUS
  <2>4. CASE lock' = lock
    BY <1>5, <2>1, <2>2, <2>3, <2>4, RendererIsAThread DEF Acquire, Release
  <2>5. CASE Acquire(t, KeyLock) \/ (t = Renderer /\ Acquire(t, NameLock))
    BY <1>5, <2>1, <2>3, <2>5, RendererIsAThread DEF Acquire
  <2>6. CASE (Release(t, KeyLock) \/ Release(t, NameLock)) /\ l \in Free /\ pc[t] \notin Free
    <3>1. s # t /\ pc[s] \notin Free
      BY <1>5, <2>1, <2>2, <2>6
    <3>2. s = t
      BY <2>6, <3>1, Exclusive
    <3>3. QED
      BY <3>1, <3>2
  <2>7. QED
    BY <2>4, <2>5, <2>6
<1>6. QED
  BY <1>1, <1>2, <1>3, <1>4, <1>5

LEMMA RecoverControl ==
  ASSUME NEW t \in Threads, Control, PromotesAlone', Recover(t)
  PROVE  Control'
<1> USE DEF RecoveryLabels
<1>1. ret[t] \in Exits(t) /\ pc[t] \in RecoveryLabels /\ lock' = lock
      /\ ret' = ret /\ pc[t] \notin Free
  BY DEF Recover, ReadMarker, ReadHash, ClearTarget, RestoreBackup, DropStage,
     DropBackup, Unmark, RecoveryFails, ThreadAt, Control, Free
<1>2. /\ ret[t].ok \in LabelsOf(t) \ (Free \cup RecoveryLabels)
      /\ ret[t].fail \in LabelsOf(t) \ (Free \cup RecoveryLabels)
  BY <1>1 DEF Exits, LabelsOf, RenderLabels, Journalled, OpenerLabels, Free
<1>3. half' \in [Threads -> BOOLEAN]
  BY DEF Recover, ReadMarker, ReadHash, ClearTarget, RestoreBackup, DropStage,
     DropBackup, Unmark, RecoveryFails, Removes, Skips, Control
<1>4. \/ pc' = pc
      \/ \E l \in (RecoveryLabels \ {"MARKER"}) \cup {ret[t].ok, ret[t].fail} :
            ThreadGoto(t, l)
  BY DEF Recover, ReadMarker, ReadHash, ClearTarget, RestoreBackup, DropStage,
     DropBackup, Unmark, RecoveryFails, Removes, Skips
<1>5. CASE pc' = pc
  BY <1>1, <1>3, <1>5 DEF Control
<1>6. ASSUME NEW l \in (RecoveryLabels \ {"MARKER"}) \cup {ret[t].ok, ret[t].fail},
             ThreadGoto(t, l)
      PROVE  Control'
  <2>1. l \in LabelsOf(t) /\ l \notin Free
    BY <1>2, <1>6 DEF LabelsOf, Free
  <2>2. QED
    BY <1>1, <1>3, <1>6, <2>1, ControlStep
<1>7. QED
  BY <1>4, <1>5, <1>6

LEMMA RenderControl ==
  ASSUME Control, PromotesAlone', Render
  PROVE  Control'
<1> DEFINE r == Renderer
<1> USE RendererIsAThread DEF ThreadAt
<1>1. LabelsOf(r) = {"IDLE"} \cup RecoveryLabels \cup RenderLabels
  BY DEF LabelsOf
<1>2. half \in [Threads -> BOOLEAN]
  BY DEF Control
<1>3. CASE CreateStaging \/ PromoteCuts
  <2>1. CASE CreateStaging
    BY <1>1, <1>2, <2>1, ControlStep
    DEF CreateStaging, EnterRecovery, Exits, Free, RecoveryLabels, Control
  <2>2. CASE PromoteCuts
    <3> DEFINE e == [ok |-> "INSPECT", fail |-> "UNLOCK"]
    <3>1. e \in Exits(r) /\ ret' = [ret EXCEPT ![r] = e] /\ ret'[r] = e
      BY <2>2 DEF PromoteCuts, EnterRecovery, Exits, Control
    <3>2. /\ ThreadGoto(r, "MARKER") /\ "MARKER" \in LabelsOf(r)
          /\ "MARKER" \notin Free /\ Acquire(r, NameLock) /\ half' = half
      BY <1>1, <1>2, <2>2 DEF PromoteCuts, EnterRecovery, Free, RecoveryLabels
    <3>3. QED
      BY <1>2, <3>1, <3>2, ControlStep
  <2>3. QED
    BY <1>3, <2>1, <2>2
<1>4. CASE LeaveRecovery \/ Unlock \/ PromotionReturns
  BY <1>1, <1>2, <1>4, ControlStep
  DEF LeaveRecovery, Unlock, PromotionReturns, Free, RenderLabels,
      Journalled, RecoveryLabels
<1>5. CASE MakeStage \/ StageCuts \/ StagingFails \/ Inspect \/ JournalFails
           \/ Exchanges \/ MovesOld \/ MovesNew \/ ValidatePromoted
           \/ WriteJournal("WRITE_JOURNAL", "SWAP")
           \/ WriteJournal("OLD_MOVED", "MOVE_NEW")
           \/ WriteJournal("NEW_ACTIVE", "VALIDATE")
  BY <1>1, <1>2, <1>5, ControlStep
  DEF MakeStage, StageCuts, StagingFails, Inspect, JournalFails, Exchanges,
      MovesOld, MovesNew, ValidatePromoted, WriteJournal, Free, RenderLabels,
      Journalled, RecoveryLabels
<1>6. CASE RemoveOld \/ DiscardStage
  <2>1. half' \in [Threads -> BOOLEAN]
    BY <1>2, <1>6 DEF RemoveOld, DiscardStage, Removes
  <2>2. CASE pc' = pc
    BY <1>6, <2>1, <2>2 DEF RemoveOld, DiscardStage, Control
  <2>3. CASE ThreadGoto(r, "UNLINK") /\ RemoveOld
    BY <1>1, <2>1, <2>3, ControlStep
    DEF RemoveOld, Free, RenderLabels, Journalled, RecoveryLabels
  <2>4. CASE ThreadGoto(r, "IDLE") /\ DiscardStage
    BY <1>1, <2>1, <2>4, ControlStep DEF DiscardStage, Free, RecoveryLabels
  <2>5. QED
    BY <1>6, <2>2, <2>3, <2>4 DEF RemoveOld, DiscardStage, Removes
<1>7. CASE Unlink \/ PromotionFails
  <2>1. \E l \in {"RETURN", "UNLOCK"} :
            ret' = [ret EXCEPT ![r] = [ok |-> l, fail |-> l]]
    BY <1>7 DEF Unlink, EnterRecovery, PromotionFails
  <2>2. \E e \in Exits(r) : ret' = [ret EXCEPT ![r] = e] /\ ret'[r] = e
    <3>1. PICK l \in {"RETURN", "UNLOCK"} :
              ret' = [ret EXCEPT ![r] = [ok |-> l, fail |-> l]]
      BY <2>1
    <3>2. [ok |-> l, fail |-> l] \in Exits(r)
      BY DEF Exits
    <3>3. QED
      BY <3>1, <3>2 DEF Control
  <2>3. half' \in [Threads -> BOOLEAN] /\ lock' = lock /\ ThreadGoto(r, "MARKER")
    BY <1>2, <1>7 DEF Unlink, EnterRecovery, PromotionFails
  <2>4. pc[r] \notin Free /\ "MARKER" \notin Free /\ "MARKER" \in LabelsOf(r)
    BY <1>1, <1>7 DEF Unlink, PromotionFails, PromotionLabels, Free,
                      RecoveryLabels
  <2>5. QED
    BY <2>2, <2>3, <2>4, ControlStep
<1>8. CASE DropUnmarked
  <2>1. half' \in [Threads -> BOOLEAN] /\ lock' = lock
        /\ ret' = [ret EXCEPT ![r] = [ok |-> "UNLOCK", fail |-> "UNLOCK"]]
    BY <1>2, <1>8 DEF DropUnmarked, Removes
  <2>2. \E e \in Exits(r) : ret' = [ret EXCEPT ![r] = e] /\ ret'[r] = e
    BY <2>1 DEF Exits, Control
  <2>3. pc[r] \notin Free /\ "MARKER" \notin Free /\ "MARKER" \in LabelsOf(r)
    BY <1>1, <1>8 DEF DropUnmarked, Free, RecoveryLabels
  <2>4. CASE pc' = pc
    <3>1. ThreadGoto(r, "DROP_UNMARKED")
      BY <1>8, <2>4 DEF DropUnmarked, ThreadGoto, Control
    <3>2. QED
      BY <1>1, <1>8, <2>1, <2>2, <2>3, <3>1, ControlStep
      DEF DropUnmarked, RenderLabels, Free, RecoveryLabels
  <2>5. CASE ThreadGoto(r, "MARKER")
    BY <2>1, <2>2, <2>3, <2>5, ControlStep
  <2>6. QED
    BY <1>8, <2>4, <2>5 DEF DropUnmarked, Removes
<1>9. QED
  BY <1>3, <1>4, <1>5, <1>6, <1>7, <1>8 DEF Render

LEMMA OpenerControl ==
  ASSUME NEW o \in Openers, Control, PromotesAlone',
         Open(o) \/ Scan(o) \/ WriteManifest(o) \/ ScanFails(o) \/ CloseCuts(o)
  PROVE  Control'
<1> USE RendererIsAThread DEF ThreadAt
<1>1. LabelsOf(o) = {"IDLE"} \cup RecoveryLabels \cup OpenerLabels
  BY DEF LabelsOf
<1>2. half \in [Threads -> BOOLEAN]
  BY DEF Control
<1>3. CASE Open(o)
  <2>1. ret' = [ret EXCEPT ![o] = [ok |-> "OPENED", fail |-> "NOT_OPENED"]]
        /\ half' = half /\ ThreadGoto(o, "MARKER") /\ Acquire(o, KeyLock)
    BY <1>3 DEF Open, EnterRecovery
  <2>2. \E e \in Exits(o) : ret' = [ret EXCEPT ![o] = e] /\ ret'[o] = e
    BY <2>1 DEF Exits, Control
  <2>3. "MARKER" \notin Free /\ "MARKER" \in LabelsOf(o)
    BY <1>1 DEF Free, RecoveryLabels
  <2>4. QED
    BY <1>2, <2>1, <2>2, <2>3, ControlStep
<1>4. CASE Scan(o) \/ WriteManifest(o) \/ ScanFails(o)
  BY <1>1, <1>2, <1>4, ControlStep
  DEF Scan, WriteManifest, ScanFails, Free, RecoveryLabels, OpenerLabels
<1>5. CASE CloseCuts(o)
  BY <1>1, <1>2, <1>5, ControlStep
  DEF CloseCuts, Free, RecoveryLabels, OpenerLabels
<1>6. QED
  BY <1>3, <1>4, <1>5

LEMMA ControlIsInductive ==
  Control /\ PromotesAlone' /\ [PromotionNext]_promotionVars => Control'
<1> SUFFICES ASSUME Control, PromotesAlone', [PromotionNext]_promotionVars PROVE Control'
  OBVIOUS
<1>1. CASE EditFrame \/ UNCHANGED promotionVars
  BY <1>1 DEF EditFrame, promotionVars, threadVars, Control
<1>2. CASE Crash
  BY <1>2, RendererIsAThread
  DEF Crash, Control, LabelsOf, RecoveryLabels, Free, ExitLabels
<1>3. QED
  BY <1>1, <1>2, RecoverControl, RenderControl, OpenerControl DEF PromotionNext

---------------------------------------------------------------------------
(* Records: the values that are written, and the numbers they count.       *)

USE NilIsNoValue

LEMMA HashTyped ==
  ASSUME bounds \in Bounds, NEW d \in Contents \cup {Nil}
  PROVE  /\ d # Nil => Hash(d) \in Hashes /\ Hash(d) # Nil
         /\ HashIfValid(d) \in Hashes \cup {Nil}
<1>1. bounds.scans \in Nat /\ bounds.edits \in Nat
  BY DEF BoundNames
<1>2. ASSUME d # Nil PROVE Hash(d) \in Hashes /\ Hash(d) # Nil
  <2>1. d \in Contents
    BY <1>2
  <2>2. d.set \in 1 .. MaxPromotions /\ d.stamp \in 0 .. bounds.scans
    BY <2>1 DEF Contents
  <2>3. Hash(d) \in Nat \X Nat
    BY <1>1, <2>2 DEF Hash
  <2>4. QED
    BY <2>2, <2>3 DEF Hash, Hashes
<1>3. QED
  BY <1>2 DEF HashIfValid

LEMMA NewSetTyped ==
  ASSUME bounds \in Bounds, NEW j \in 1 .. MaxPromotions
  PROVE  /\ NewSet(j) \in Contents /\ NewSet(j) # Nil
         /\ HalfRemoved(NewSet(j)) \in Contents /\ HalfRemoved(NewSet(j)) # Nil
         /\ NewSet(j).set = j /\ NewSet(j).whole /\ NewSet(j).stamp = 0
         /\ NewSet(j).frames = 0 /\ NewSet(j).recorded = 0
         /\ HalfRemoved(NewSet(j)).set = j /\ ~HalfRemoved(NewSet(j)).whole
<1>1. bounds.scans \in Nat /\ bounds.edits \in Nat
  BY DEF BoundNames
<1>2. NewSet(j) \in Contents /\ HalfRemoved(NewSet(j)) \in Contents
  <2>1. NewSet(j) \in Contents
    BY <1>1 DEF Contents, NewSet
  <2>2. QED
    BY <2>1 DEF Contents, HalfRemoved
<1>3. Nil \notin Contents
  BY <1>1 DEF Contents
<1>4. QED
  BY <1>2, <1>3 DEF NewSet, HalfRemoved

LEMMA HalfRemovedTyped ==
  ASSUME bounds \in Bounds, NEW d \in Contents
  PROVE  /\ HalfRemoved(d) \in Contents /\ HalfRemoved(d) # Nil /\ d # Nil
         /\ HalfRemoved(d).set = d.set /\ HalfRemoved(d).frames = d.frames
         /\ HalfRemoved(d).recorded = d.recorded
         /\ HalfRemoved(d).stamp = d.stamp /\ ~HalfRemoved(d).whole
<1>1. bounds.scans \in Nat /\ bounds.edits \in Nat
  BY DEF BoundNames
<1>2. Nil \notin Contents
  BY <1>1 DEF Contents
<1>3. HalfRemoved(d) \in Contents
  BY DEF Contents, HalfRemoved
<1>4. QED
  BY <1>2, <1>3 DEF Contents, HalfRemoved

LEMMA PlaceIsNotNil == ASSUME NEW p \in Places PROVE p # Nil
BY DEF Places, Target

LEMMA JournalIsNotNil ==
  ASSUME bounds \in Bounds, NEW m \in Journals
  PROVE  m # Nil /\ m.job \in 1 .. MaxPromotions /\ m.previous \in Hashes \cup {Nil}
<1>1. bounds.scans \in Nat
  BY DEF BoundNames
<1>2. m.job \in Nat /\ m.previous \in (Nat \X Nat) \cup {Nil}
  BY <1>1 DEF Journals, Hashes
<1>3. m \in [job : Nat, previous : (Nat \X Nat) \cup {Nil}]
  BY <1>2 DEF Journals
<1>4. QED
  BY <1>3 DEF Journals

\* A step on the tree: one directory loses its files or goes, moves, is staged,
\* or changes places with another.
FileStep ==
    \/ dir' = dir
    \/ \E p \in Places :
          /\ dir[p] # Nil
          /\ \/ dir' = [dir EXCEPT ![p] = HalfRemoved(@)]
             \/ dir' = [dir EXCEPT ![p] = Nil]
    \/ \E p, q \in Places : Move(p, q)
    \/ \E j \in 1 .. MaxPromotions :
          \/ dir' = [dir EXCEPT ![Stage(j)] = NewSet(j)]
          \/ dir' = [dir EXCEPT ![Stage(j)] = HalfRemoved(NewSet(j))]
    \/ \E p, q \in Places :
          /\ p # q /\ dir[p] # Nil /\ dir[q] # Nil
          /\ dir' = [dir EXCEPT ![p] = dir[q], ![q] = dir[p]]

LEMMA RecoveryJournal ==
  ASSUME Records, Marked, NEW t \in Threads, Recovering(t)
  PROVE  /\ seen[t].journal = marker /\ marker \in Journals
         /\ marker.job \in 1 .. MaxPromotions
BY JournalIsNotNil DEF Records, Marked, MarkerKnown

LEMMA OldPlaceIsAPlace ==
  ASSUME Records, Marked, NEW t \in Threads, Recovering(t)
  PROVE  /\ OldPlace(seen[t]) \in
              {Target, Stage(marker.job), Backup(marker.job)}
         /\ OldPlace(seen[t]) \in Places
BY RecoveryJournal, PlaceNames DEF OldPlace

LEMMA RemovesIsFileStep ==
  ASSUME NEW t \in Threads, NEW p \in Places, NEW l, Removes(t, p, l)
  PROVE  FileStep
BY DEF Removes, FileStep

LEMMA StagesAreFileSteps ==
  ASSUME Records, Marked, NEW t \in Threads, Recover(t)
  PROVE  FileStep
<1>1. CASE ClearTarget(t)
  BY <1>1, RemovesIsFileStep, PlaceNames DEF ClearTarget, Skips, FileStep
<1>2. CASE RestoreBackup(t)
  BY <1>2, OldPlaceIsAPlace, PlaceNames
  DEF RestoreBackup, Recovering, RecoveryLabels, ThreadAt, FileStep
<1>3. CASE DropStage(t)
  <2>1. Stage(seen[t].journal.job) \in Places
    BY <1>3, RecoveryJournal, PlaceNames
    DEF DropStage, Recovering, RecoveryLabels, ThreadAt
  <2>2. QED
    BY <1>3, <2>1, RemovesIsFileStep DEF DropStage, Skips, FileStep
<1>4. CASE DropBackup(t)
  <2>1. Backup(seen[t].journal.job) \in Places
    BY <1>4, RecoveryJournal, PlaceNames
    DEF DropBackup, Recovering, RecoveryLabels, ThreadAt
  <2>2. QED
    BY <1>4, <2>1, RemovesIsFileStep DEF DropBackup, Skips, FileStep
<1>5. QED
  BY <1>1, <1>2, <1>3, <1>4
  DEF Recover, ReadMarker, ReadHash, Unmark, RecoveryFails, FileStep

\* A job has a number, so that its stage and its backup are places.
LEMMA JobIsNumbered ==
  ASSUME Records, pc[Renderer] # "IDLE"
  PROVE  /\ job \in 1 .. MaxPromotions /\ job \in 1 .. bounds.jobs
         /\ Stage(job) \in Places /\ Backup(job) \in Places
<1>1. bounds.jobs \in Nat /\ bounds.jobs <= MaxPromotions
  BY DEF Records, BoundNames
<1>2. QED
  BY <1>1, PlaceNames DEF Records, ThreadAt

LEMMA RenderIsFileStep ==
  ASSUME Records, Render
  PROVE  FileStep
<1> USE RendererIsAThread DEF ThreadAt
<1>1. CASE pc[Renderer] = "IDLE"
  BY <1>1 DEF Render, CreateStaging, LeaveRecovery, MakeStage, StageCuts,
     StagingFails, PromoteCuts, Inspect, WriteJournal, JournalFails,
     Exchanges, MovesOld, MovesNew, ValidatePromoted, RemoveOld, Unlink,
     PromotionFails, PromotionLabels, DropUnmarked, Unlock, DiscardStage,
     PromotionReturns, FileStep
<1>2. CASE pc[Renderer] # "IDLE"
  <2> USE <1>2, JobIsNumbered, PlaceNames
  <2>1. CASE MakeStage \/ StageCuts
    BY <2>1 DEF MakeStage, StageCuts, FileStep
  <2>2. CASE Exchanges
    BY <2>2 DEF Exchanges, FileStep
  <2>3. CASE MovesOld \/ MovesNew
    BY <2>3 DEF MovesOld, MovesNew, FileStep
  <2>4. CASE RemoveOld
    <3>1. CASE oldLocation # Nil /\ Removes(Renderer, oldLocation, "UNLINK")
      BY <3>1, RemovesIsFileStep DEF Records
    <3>2. CASE dir' = dir
      BY <3>2 DEF FileStep
    <3>3. QED
      BY <2>4, <3>1, <3>2 DEF RemoveOld
  <2>5. CASE DropUnmarked \/ DiscardStage
    BY <2>5, RemovesIsFileStep DEF DropUnmarked, DiscardStage, FileStep
  <2>6. QED
    BY <2>1, <2>2, <2>3, <2>4, <2>5
    DEF Render, CreateStaging, LeaveRecovery, StagingFails, PromoteCuts,
        Inspect, WriteJournal, JournalFails, ValidatePromoted, Unlink,
        PromotionFails, Unlock, PromotionReturns, FileStep
<1>3. QED
  BY <1>1, <1>2

\* Such a step counts nothing.
SameCounts(c, d) == /\ c.frames = d.frames /\ c.recorded = d.recorded
                    /\ c.stamp = d.stamp

LEMMA FilesTyped ==
  ASSUME Records, FileStep
  PROVE  /\ dir' \in [Places -> Contents \cup {Nil}]
         /\ \A p \in Places : dir'[p] # Nil =>
               \/ /\ dir'[p].frames = 0 /\ dir'[p].recorded = 0
                  /\ dir'[p].stamp = 0
               \/ \E q \in Places : dir[q] # Nil /\ SameCounts(dir'[p], dir[q])
<1> USE DEF SameCounts
<1>1. bounds \in Bounds /\ dir \in [Places -> Contents \cup {Nil}]
  BY DEF Records
<1>2. CASE dir' = dir
  BY <1>1, <1>2
<1>3. ASSUME NEW p \in Places, dir[p] # Nil,
             \/ dir' = [dir EXCEPT ![p] = HalfRemoved(@)]
             \/ dir' = [dir EXCEPT ![p] = Nil]
      PROVE  /\ dir' \in [Places -> Contents \cup {Nil}]
             /\ \A q \in Places : dir'[q] # Nil => SameCounts(dir'[q], dir[q])
                                                  /\ dir[q] # Nil
  <2>1. dir[p] \in Contents
    BY <1>1, <1>3
  <2>2. HalfRemoved(dir[p]) \in Contents
        /\ SameCounts(HalfRemoved(dir[p]), dir[p])
    BY <1>1, <2>1, HalfRemovedTyped
  <2>3. QED
    BY <1>1, <1>3, <2>2
<1>4. ASSUME NEW p \in Places, NEW q \in Places, Move(p, q)
      PROVE  /\ dir' \in [Places -> Contents \cup {Nil}]
             /\ \A r \in Places : dir'[r] # Nil =>
                   \E s \in Places : dir[s] # Nil /\ SameCounts(dir'[r], dir[s])
  BY <1>1, <1>4 DEF Move
<1>5. ASSUME NEW j \in 1 .. MaxPromotions,
             \/ dir' = [dir EXCEPT ![Stage(j)] = NewSet(j)]
             \/ dir' = [dir EXCEPT ![Stage(j)] = HalfRemoved(NewSet(j))]
      PROVE  /\ dir' \in [Places -> Contents \cup {Nil}]
             /\ \A p \in Places : dir'[p] # Nil =>
                   \/ /\ dir'[p].frames = 0 /\ dir'[p].recorded = 0
                      /\ dir'[p].stamp = 0
                   \/ dir[p] # Nil /\ SameCounts(dir'[p], dir[p])
  <2>1. NewSet(j) \in Contents /\ HalfRemoved(NewSet(j)) \in Contents
    BY <1>1, NewSetTyped
  <2>2. /\ NewSet(j).frames = 0 /\ NewSet(j).recorded = 0 /\ NewSet(j).stamp = 0
        /\ SameCounts(HalfRemoved(NewSet(j)), NewSet(j))
    BY <1>1, <2>1, NewSetTyped, HalfRemovedTyped
  <2>3. QED
    BY <1>1, <1>5, <2>1, <2>2, PlaceNames
<1>6. ASSUME NEW p \in Places, NEW q \in Places,
             dir[p] # Nil, dir[q] # Nil,
             dir' = [dir EXCEPT ![p] = dir[q], ![q] = dir[p]]
      PROVE  /\ dir' \in [Places -> Contents \cup {Nil}]
             /\ \A r \in Places : dir'[r] # Nil =>
                   \E s \in Places : dir[s] # Nil /\ SameCounts(dir'[r], dir[s])
  BY <1>1, <1>6
<1>7. QED
  BY <1>2, <1>3, <1>4, <1>5, <1>6 DEF FileStep

LEMMA FilesCounted ==
  ASSUME Records, Counted, FileStep, bounds' = bounds,
         spent'.edits \in Nat, spent'.edits >= spent.edits,
         spent'.scans \in Nat, spent'.scans >= spent.scans,
         \A o \in Openers : pc'[o] = "SCANNED" =>
              /\ pc[o] = "SCANNED" /\ seen'[o] = seen[o]
              /\ spent'.scans = spent.scans
  PROVE  Counted'
<1>1. /\ bounds.edits \in Nat /\ bounds.scans \in Nat
      /\ spent.edits \in Nat /\ spent.scans \in Nat
  BY DEF Records, BoundNames
<1>2. \A p \in Places : dir[p] # Nil =>
          /\ dir[p].frames \in Nat /\ dir[p].recorded \in Nat
          /\ dir[p].stamp \in Nat
  BY <1>1 DEF Records, Contents
<1>3. ASSUME NEW p \in Places, dir'[p] # Nil
      PROVE  /\ dir'[p].frames <= spent'.edits /\ dir'[p].recorded <= spent'.edits
             /\ dir'[p].stamp <= spent'.scans
             /\ \A o \in Openers : pc'[o] = "SCANNED" =>
                   dir'[p].stamp < spent'.scans
  BY <1>1, <1>2, <1>3, FilesTyped DEF Counted, SameCounts, ThreadAt
<1>4. ASSUME NEW o \in Openers, pc'[o] = "SCANNED"
      PROVE  /\ seen'[o].target \in Contents' /\ seen'[o].target.frames <= spent'.edits
             /\ spent'.scans > 0
  <2>1. /\ seen[o].target \in Contents /\ seen[o].target.frames <= spent.edits
        /\ spent.scans > 0
    BY <1>4 DEF Counted, ThreadAt
  <2>2. Contents' = Contents
    BY DEF Contents
  <2>3. seen[o].target.frames \in Nat
    BY <1>1, <2>1 DEF Contents
  <2>4. QED
    BY <1>1, <1>4, <2>1, <2>2, <2>3
<1>5. QED
  BY <1>3, <1>4 DEF Counted, ThreadAt

\* The sets of values depend on the bounds, and those stay.
LEMMA SameTypes ==
  ASSUME bounds' = bounds
  PROVE  Contents' = Contents /\ Hashes' = Hashes /\ Journals' = Journals
         /\ Views' = Views
BY DEF Contents, Hashes, Journals, Views

LEMMA NothingIsAView == NothingSeen \in Views
BY DEF NothingSeen, Views

LEMMA RecoverRecords ==
  ASSUME NEW t \in Threads, Control, Records, Marked, Recover(t),
         bounds' = bounds
  PROVE  Records'
<1> USE SameTypes, NothingIsAView DEF Records
<1>1. dir' \in [Places -> Contents \cup {Nil}]
  BY StagesAreFileSteps, FilesTyped
<1>2. seen' \in [Threads -> Views]
  <2>1. CASE ReadMarker(t)
    <3>1. [NothingSeen EXCEPT !.journal = marker] \in Views
      BY DEF NothingSeen, Views
    <3>2. QED
      BY <2>1, <3>1 DEF ReadMarker
  <2>2. ASSUME NEW f \in {"target", "stage", "backup"}, NEW v \in Hashes \cup {Nil},
               seen' = [seen EXCEPT ![t][f] = v]
        PROVE  seen' \in [Threads -> Views]
    <3>1. [seen[t] EXCEPT ![f] = v] \in Views
      BY <2>2 DEF Views
    <3>2. QED
      BY <2>2, <3>1
  <2>3. ASSUME NEW f \in {"target", "stage", "backup"}, NEW p \in Places,
               NEW k, NEW l, ReadHash(t, k, f, p, l)
        PROVE  seen' \in [Threads -> Views]
    <3>1. HashIfValid(dir[p]) \in Hashes \cup {Nil}
      BY HashTyped
    <3>2. QED
      BY <2>2, <2>3, <3>1 DEF ReadHash
  <2>4. CASE seen' = seen \/ seen' = [seen EXCEPT ![t] = NothingSeen]
    BY <2>4
  <2>5. ASSUME seen[t].journal # Nil, ThreadAt(t, "HASH_STAGE") \/ ThreadAt(t, "HASH_BACKUP")
        PROVE  /\ Stage(seen[t].journal.job) \in Places
               /\ Backup(seen[t].journal.job) \in Places
    BY <2>5, RecoveryJournal, PlaceNames DEF Recovering, RecoveryLabels, ThreadAt
  <2>6. CASE /\ seen[t].journal # Nil
             /\ \/ ReadHash(t, "HASH_STAGE", "stage", Stage(seen[t].journal.job),
                            "HASH_BACKUP")
                \/ ReadHash(t, "HASH_BACKUP", "backup",
                            Backup(seen[t].journal.job), "CLEAR")
    <3>1. ThreadAt(t, "HASH_STAGE") \/ ThreadAt(t, "HASH_BACKUP")
      BY <2>6 DEF ReadHash
    <3>2. QED
      BY <2>3, <2>5, <2>6, <3>1
  <2>7. CASE ReadHash(t, "HASH_TARGET", "target", Target, "HASH_STAGE")
    BY <2>3, <2>7, PlaceNames
  <2>8. QED
    BY <2>1, <2>4, <2>6, <2>7
    DEF Recover, ClearTarget, RestoreBackup, DropStage, DropBackup, Unmark,
        RecoveryFails
<1>3. spent' \in [edits : 0 .. bounds.edits, scans : 0 .. bounds.scans,
                  reads : 0 .. bounds.reads, crashes : 0 .. bounds.crashes]
  <2>1. bounds.reads \in Nat
    BY DEF BoundNames
  <2>2. spent.reads < bounds.reads => spent.reads + 1 \in 0 .. bounds.reads
    BY <2>1
  <2>3. QED
    BY <2>2 DEF Recover, ReadMarker, ReadHash, ClearTarget, RestoreBackup, DropStage,
        DropBackup, Unmark, RecoveryFails
<1>4. marker' \in Journals \cup {Nil}
      /\ UNCHANGED <<job, journal, oldLocation, delivered>>
  BY DEF Recover, ReadMarker, ReadHash, ClearTarget, RestoreBackup, DropStage,
         DropBackup, Unmark, RecoveryFails, renderVars
<1>5. pc[Renderer] = "IDLE" => pc'[Renderer] = "IDLE"
  <2>1. CASE t = Renderer
    BY <2>1 DEF Recover, ReadMarker, ReadHash, ClearTarget, RestoreBackup, DropStage,
         DropBackup, Unmark, RecoveryFails, ThreadAt, RecoveryLabels
  <2>2. CASE t # Renderer
    BY <2>2, RendererIsAThread
    DEF Control, Recover, ReadMarker, ReadHash, ClearTarget, RestoreBackup, DropStage,
         DropBackup, Unmark, RecoveryFails, ThreadGoto, Removes, Skips
  <2>3. QED
    BY <2>1, <2>2
<1>6. QED
  BY <1>1, <1>2, <1>3, <1>4, <1>5 DEF ThreadAt

LEMMA RenderRecords ==
  ASSUME Control, Records, Render, bounds' = bounds
  PROVE  Records'
<1> USE SameTypes, RendererIsAThread DEF Records
<1>1. dir' \in [Places -> Contents \cup {Nil}]
  BY RenderIsFileStep, FilesTyped
<1>2. UNCHANGED <<seen, spent>>
  BY DEF Render, CreateStaging, LeaveRecovery, MakeStage, StageCuts, StagingFails,
     PromoteCuts, Inspect, WriteJournal, JournalFails, Exchanges, MovesOld,
     MovesNew, ValidatePromoted, RemoveOld, Unlink, PromotionFails,
     DropUnmarked, Unlock, DiscardStage, PromotionReturns
<1>3. CASE CreateStaging
  <2>1. job < bounds.jobs /\ job' = job + 1 /\ bounds.jobs \in Nat
    BY <1>3 DEF CreateStaging, BoundNames
  <2>2. job' \in 0 .. bounds.jobs /\ delivered \in 0 .. job' /\ job' > 0
    BY <2>1
  <2>3. QED
    BY <1>1, <1>2, <1>3, <2>2 DEF CreateStaging
<1>4. CASE Inspect
  <2>1. job \in 1 .. MaxPromotions /\ Target \in Places
    BY <1>4, JobIsNumbered, PlaceNames DEF Inspect, ThreadAt
  <2>2. dir[Target] # Nil => Hash(dir[Target]) \in Hashes
    BY <2>1, HashTyped
  <2>3. journal' \in Journals
    BY <1>4, <2>1, <2>2 DEF Inspect, Journals
  <2>4. job > 0
    BY <2>1
  <2>5. QED
    BY <1>1, <1>2, <1>4, <2>3, <2>4 DEF Inspect
<1>5. CASE Exchanges \/ MovesOld
  <2>1. /\ job \in 1 .. MaxPromotions
        /\ Stage(job) \in Places /\ Backup(job) \in Places
    BY <1>5, JobIsNumbered DEF Exchanges, MovesOld, ThreadAt
  <2>2. job > 0
    BY <2>1
  <2>3. QED
    BY <1>1, <1>2, <1>5, <2>1, <2>2 DEF Exchanges, MovesOld
<1>6. CASE PromotionReturns
  <2>1. job \in 1 .. MaxPromotions
    BY <1>6, JobIsNumbered DEF PromotionReturns, ThreadAt
  <2>2. delivered' \in 0 .. job
    BY <1>6, <2>1 DEF PromotionReturns
  <2>3. QED
    BY <1>1, <1>2, <1>6, <2>1, <2>2 DEF PromotionReturns
<1>7. CASE WriteJournal("WRITE_JOURNAL", "SWAP") \/ WriteJournal("OLD_MOVED", "MOVE_NEW")
           \/ WriteJournal("NEW_ACTIVE", "VALIDATE") \/ JournalFails
  BY <1>1, <1>2, <1>7 DEF WriteJournal, JournalFails, renderVars, ThreadAt
<1>8. CASE LeaveRecovery \/ MakeStage \/ StageCuts \/ StagingFails
           \/ PromoteCuts \/ MovesNew \/ ValidatePromoted \/ RemoveOld \/ Unlink
           \/ PromotionFails \/ DropUnmarked \/ Unlock \/ DiscardStage
  <2>1. marker' \in {marker, Nil} /\ UNCHANGED <<job, journal, oldLocation, delivered>>
    BY <1>8 DEF LeaveRecovery, MakeStage, StageCuts, StagingFails, PromoteCuts,
       MovesNew, ValidatePromoted, RemoveOld, Unlink, PromotionFails,
       DropUnmarked, Unlock, DiscardStage, renderVars
  <2>2. pc[Renderer] # "IDLE"
    BY <1>8 DEF LeaveRecovery, MakeStage, StageCuts, StagingFails, PromoteCuts,
       MovesNew, ValidatePromoted, RemoveOld, Unlink, PromotionFails, PromotionLabels,
       DropUnmarked, Unlock, DiscardStage, ThreadAt
  <2>3. QED
    BY <1>1, <1>2, <2>1, <2>2 DEF ThreadAt
<1>9. QED
  BY <1>3, <1>4, <1>5, <1>6, <1>7, <1>8 DEF Render

\* A manifest that is rewritten, and a frame that is edited, stay in bounds.
Rewritten(d, n) == [d EXCEPT !.stamp = @ + 1, !.recorded = n]
Edited(d) == [d EXCEPT !.frames = @ + 1]

LEMMA RewrittenTyped ==
  ASSUME bounds \in Bounds, NEW d \in Contents, NEW n \in 0 .. bounds.edits,
         d.stamp < bounds.scans
  PROVE  /\ Rewritten(d, n) \in Contents /\ Rewritten(d, n) # Nil
         /\ Rewritten(d, n).stamp = d.stamp + 1 /\ Rewritten(d, n).recorded = n
         /\ Rewritten(d, n).frames = d.frames
<1>1. bounds.scans \in Nat /\ bounds.edits \in Nat
  BY DEF BoundNames
<1>2. Nil \notin Contents
  BY <1>1 DEF Contents
<1>3. d.stamp + 1 \in 0 .. bounds.scans
  BY <1>1 DEF Contents
<1>4. Rewritten(d, n) \in Contents
  BY <1>3 DEF Contents, Rewritten
<1>5. QED
  BY <1>2, <1>4 DEF Contents, Rewritten

LEMMA EditedTyped ==
  ASSUME bounds \in Bounds, NEW d \in Contents, d.frames < bounds.edits
  PROVE  /\ Edited(d) \in Contents /\ Edited(d) # Nil
         /\ Edited(d).frames = d.frames + 1 /\ Edited(d).recorded = d.recorded
         /\ Edited(d).stamp = d.stamp
<1>1. bounds.scans \in Nat /\ bounds.edits \in Nat
  BY DEF BoundNames
<1>2. Nil \notin Contents
  BY <1>1 DEF Contents
<1>3. d.frames + 1 \in 0 .. bounds.edits
  BY <1>1 DEF Contents
<1>4. Edited(d) \in Contents
  BY <1>3 DEF Contents, Edited
<1>5. QED
  BY <1>2, <1>4 DEF Contents, Edited

LEMMA WriteManifestRecords ==
  ASSUME NEW o \in Openers, Control, Records, Counted, WriteManifest(o),
         bounds' = bounds
  PROVE  Records' /\ Counted'
<1> DEFINE d == dir[Target]
           n == seen[o].target.frames
<1>1. /\ d # Nil /\ seen' = [seen EXCEPT ![o] = NothingSeen]
      /\ ThreadAt(o, "SCANNED") /\ ThreadGoto(o, "SCAN_ENDS")
      /\ UNCHANGED <<marker, lock, half, ret, renderVars, spent>>
  BY DEF WriteManifest
<1>2. /\ bounds \in Bounds /\ d \in Contents /\ Target \in Places
      /\ bounds.edits \in Nat /\ bounds.scans \in Nat
  BY <1>1, PlaceNames DEF Records, BoundNames
<1>3. n \in 0 .. bounds.edits /\ n <= spent.edits /\ d.stamp < spent.scans
  BY <1>1, <1>2 DEF Counted, Contents
<1>4. spent.scans \in 0 .. bounds.scans /\ spent.edits \in 0 .. bounds.edits
  BY DEF Records
<1>5. d.stamp \in Nat
  BY <1>2 DEF Contents
<1>6. d.stamp < bounds.scans
  BY <1>2, <1>3, <1>4, <1>5
<1>7. dir' = [dir EXCEPT ![Target] = Rewritten(d, n)]
  BY <1>2 DEF WriteManifest, Rewritten, Records
<1>8. Records'
  BY <1>1, <1>2, <1>3, <1>6, <1>7, RewrittenTyped, SameTypes, NothingIsAView,
     RendererIsAThread
  DEF Records, renderVars, ThreadGoto, ThreadAt, Control
<1>9. \A s \in Openers : ~ThreadAt(s, "SCANNED")'
  BY <1>1, Exclusive, RendererIsAThread DEF ThreadAt, ThreadGoto, Control, Free
<1>10. \A p \in Places : dir'[p] # Nil =>
          /\ dir'[p].frames <= spent'.edits /\ dir'[p].recorded <= spent'.edits
          /\ dir'[p].stamp <= spent'.scans
  <2>1. Rewritten(d, n).stamp <= spent.scans
    BY <1>2, <1>3, <1>4, <1>5, <1>6, RewrittenTyped
  <2>2. Rewritten(d, n).frames <= spent.edits /\ Rewritten(d, n).recorded <= spent.edits
    BY <1>1, <1>2, <1>3, <1>6, RewrittenTyped DEF Counted
  <2>3. dir \in [Places -> Contents \cup {Nil}] /\ spent' = spent
    BY <1>1 DEF Records
  <2>4. QED
    BY <1>2, <1>7, <2>1, <2>2, <2>3 DEF Counted
<1>11. QED
  BY <1>8, <1>9, <1>10 DEF Counted

LEMMA ScanRecords ==
  ASSUME NEW o \in Openers, Control, Records, Counted, Scan(o),
         bounds' = bounds
  PROVE  Records' /\ Counted'
<1>1. /\ dir[Target] # Nil /\ seen' = [seen EXCEPT ![o].target = dir[Target]]
      /\ spent.scans < bounds.scans /\ spent' = [spent EXCEPT !.scans = @ + 1]
      /\ ThreadAt(o, "HOLDS") /\ ThreadGoto(o, "SCANNED") /\ lock[KeyLock] = Nil
      /\ UNCHANGED <<dir, marker, half, ret, renderVars>>
  BY DEF Scan, Acquire
<1>2. /\ bounds \in Bounds /\ dir[Target] \in Contents /\ Target \in Places
      /\ bounds.edits \in Nat /\ bounds.scans \in Nat
      /\ spent.scans \in Nat /\ spent.edits \in Nat
  BY <1>1, PlaceNames DEF Records, BoundNames
<1>3. [seen[o] EXCEPT !.target = dir[Target]] \in Views
  BY <1>2, RendererIsAThread DEF Records, Views
<1>4. seen' \in [Threads -> Views] /\ seen'[o].target = dir[Target]
  <2>1. seen' = [seen EXCEPT ![o] = [seen[o] EXCEPT !.target = dir[Target]]]
    BY <1>1
  <2>2. seen[o] \in Views /\ o \in Threads /\ seen \in [Threads -> Views]
    BY RendererIsAThread DEF Records
  <2>3. QED
    BY <1>3, <2>1, <2>2 DEF Views
<1>5. /\ spent' \in [edits : 0 .. bounds.edits, scans : 0 .. bounds.scans,
                     reads : 0 .. bounds.reads, crashes : 0 .. bounds.crashes]
      /\ spent'.scans = spent.scans + 1 /\ spent'.edits = spent.edits
  <2>1. spent.scans + 1 \in 0 .. bounds.scans
    BY <1>1, <1>2
  <2>2. QED
    BY <1>1, <2>1 DEF Records
<1>6. Records'
  BY <1>1, <1>4, <1>5, SameTypes, RendererIsAThread
  DEF Records, renderVars, ThreadGoto, ThreadAt, Control
<1>7. \A s \in Openers : ThreadAt(s, "SCANNED")' => s = o
  BY <1>1, RendererIsAThread DEF ThreadAt, ThreadGoto, Control, Free
<1>8. \A p \in Places : dir'[p] # Nil =>
          /\ dir'[p].frames <= spent'.edits /\ dir'[p].recorded <= spent'.edits
          /\ dir'[p].stamp < spent'.scans
  <2>1. ASSUME NEW p \in Places, dir[p] # Nil PROVE dir[p].stamp < spent.scans + 1
    <3>1. dir[p].stamp \in Nat /\ dir[p].stamp <= spent.scans
      BY <1>2, <2>1 DEF Records, Contents, Counted
    <3>2. QED
      BY <1>2, <3>1
  <2>2. QED
    BY <1>1, <1>5, <2>1 DEF Counted
<1>9. \A p \in Places : dir'[p] # Nil => dir'[p].stamp <= spent'.scans
  <2>1. \A p \in Places : dir'[p] # Nil => dir'[p].stamp \in Nat
    BY <1>1, <1>2 DEF Records, Contents
  <2>2. QED
    BY <1>2, <1>5, <1>8, <2>1
<1>10. seen'[o].target \in Contents' /\ seen'[o].target.frames <= spent'.edits
       /\ spent'.scans > 0
  BY <1>1, <1>2, <1>4, <1>5, SameTypes DEF Counted
<1>11. QED
  BY <1>6, <1>7, <1>8, <1>9, <1>10 DEF Counted

LEMMA EditRecords ==
  ASSUME Control, Records, Counted, EditFrame, bounds' = bounds
  PROVE  Records' /\ Counted'
<1> DEFINE d == dir[Target]
<1>1. /\ d # Nil /\ spent.edits < bounds.edits
      /\ spent' = [spent EXCEPT !.edits = @ + 1]
      /\ UNCHANGED <<marker, lock, pc, half, ret, seen, renderVars>>
  BY DEF EditFrame, threadVars
<1>2. /\ bounds \in Bounds /\ d \in Contents /\ Target \in Places
      /\ bounds.edits \in Nat /\ spent.edits \in Nat /\ d.frames \in Nat
  BY <1>1, PlaceNames DEF Records, BoundNames, Contents
<1>3. d.frames <= spent.edits
  BY <1>1, <1>2 DEF Counted
<1>4. d.frames < bounds.edits
  BY <1>1, <1>2, <1>3
<1>5. dir' = [dir EXCEPT ![Target] = Edited(d)]
  BY <1>2 DEF EditFrame, Edited, Records
<1>6. /\ spent' \in [edits : 0 .. bounds.edits, scans : 0 .. bounds.scans,
                     reads : 0 .. bounds.reads, crashes : 0 .. bounds.crashes]
      /\ spent'.edits = spent.edits + 1 /\ spent'.scans = spent.scans
  <2>1. spent.edits + 1 \in 0 .. bounds.edits
    BY <1>1, <1>2
  <2>2. QED
    BY <1>1, <2>1 DEF Records
<1>7. Records'
  BY <1>1, <1>2, <1>4, <1>5, <1>6, EditedTyped, SameTypes
  DEF Records, renderVars, ThreadAt
<1>8. ASSUME NEW p \in Places, dir'[p] # Nil
      PROVE  /\ dir'[p].frames <= spent'.edits /\ dir'[p].recorded <= spent'.edits
             /\ dir'[p].stamp <= spent'.scans
             /\ \A o \in Openers : ThreadAt(o, "SCANNED") => dir'[p].stamp < spent'.scans
  <2>1. dir[p] # Nil /\ dir[p] \in Contents
    BY <1>1, <1>2, <1>5, <1>8, EditedTyped DEF Records
  <2>2. /\ dir[p].frames <= spent.edits /\ dir[p].recorded <= spent.edits
        /\ dir[p].frames \in Nat /\ dir[p].recorded \in Nat
    BY <1>2, <2>1 DEF Counted, Contents
  <2>3. /\ dir'[p].frames = dir[p].frames \/ dir'[p].frames = dir[p].frames + 1
        /\ dir'[p].recorded = dir[p].recorded /\ dir'[p].stamp = dir[p].stamp
    BY <1>2, <1>4, <1>5, EditedTyped DEF Records
  <2>4. dir'[p].frames <= spent'.edits /\ dir'[p].recorded <= spent'.edits
    BY <1>2, <1>6, <2>2, <2>3
  <2>5. QED
    BY <1>6, <2>1, <2>3, <2>4 DEF Counted
<1>9. ASSUME NEW o \in Openers, ThreadAt(o, "SCANNED")
      PROVE  /\ seen'[o].target \in Contents' /\ seen'[o].target.frames <= spent'.edits
             /\ spent'.scans > 0
  <2>1. /\ seen[o].target \in Contents /\ seen[o].target.frames <= spent.edits
        /\ spent.scans > 0 /\ seen[o].target.frames \in Nat
    BY <1>2, <1>9 DEF Counted, Contents
  <2>2. QED
    BY <1>1, <1>2, <1>6, <2>1, SameTypes
<1>10. QED
  BY <1>1, <1>7, <1>8, <1>9 DEF Counted, ThreadAt

\* A step of a thread on the tree leaves the counters, and nobody starts a scan.
LEMMA CountersStay ==
  ASSUME Control, Records, Counted, FileStep, bounds' = bounds,
         spent'.edits = spent.edits, spent'.scans = spent.scans,
         \A o \in Openers : pc'[o] = "SCANNED" =>
              pc[o] = "SCANNED" /\ seen'[o] = seen[o]
  PROVE  Counted'
<1>1. spent.edits \in Nat /\ spent.scans \in Nat
  BY DEF Records, BoundNames
<1>2. QED
  BY <1>1, FilesCounted

\* What a step of t leaves to the other threads.
Leaves(t) ==
    /\ \A s \in Threads : s # t =>
          pc'[s] = pc[s] /\ seen'[s] = seen[s] /\ ret'[s] = ret[s]
    /\ t # Renderer => UNCHANGED renderVars

LEMMA RenderLeaves ==
  ASSUME Control, Records, Render
  PROVE  Leaves(Renderer) /\ seen' = seen /\ spent' = spent
<1> USE RendererIsAThread
    DEF Control, Records, ThreadAt, ThreadGoto, Leaves
<1>1. CASE CreateStaging \/ LeaveRecovery \/ MakeStage \/ StageCuts
           \/ StagingFails \/ PromoteCuts \/ Inspect \/ JournalFails
  BY <1>1 DEF CreateStaging, LeaveRecovery, MakeStage, StageCuts,
     StagingFails, PromoteCuts, Inspect, JournalFails, EnterRecovery
<1>2. ASSUME NEW k, NEW l, WriteJournal(k, l)
      PROVE  Leaves(Renderer) /\ seen' = seen /\ spent' = spent
  BY <1>2 DEF WriteJournal
<1>3. CASE Exchanges
  BY <1>3 DEF Exchanges
<1>9. CASE MovesOld
  BY <1>9 DEF MovesOld
<1>7. CASE MovesNew \/ ValidatePromoted
  BY <1>7 DEF MovesNew, ValidatePromoted
<1>8. CASE RemoveOld
  BY <1>8 DEF RemoveOld, Removes
<1>5. CASE Unlink \/ PromotionFails
  BY <1>5 DEF Unlink, PromotionFails, EnterRecovery
<1>4. CASE DropUnmarked \/ Unlock \/ DiscardStage \/ PromotionReturns
  BY <1>4 DEF DropUnmarked, Unlock, DiscardStage, PromotionReturns, Removes
<1>6. QED
  BY <1>1, <1>2, <1>3, <1>4, <1>5, <1>7, <1>8, <1>9 DEF Render

LEMMA RecordsAreInductive ==
  ASSUME Control, Records, Counted, Marked, [PromotionNext]_promotionVars
  PROVE  Records' /\ Counted'
<1>1. CASE UNCHANGED promotionVars
  BY <1>1, SameTypes
  DEF promotionVars, threadVars, renderVars, Records, Counted, ThreadAt
<1>2. ASSUME NEW t \in Threads, Recover(t), bounds' = bounds
      PROVE  Records' /\ Counted'
  <2>1. FileStep /\ Records'
    BY <1>2, StagesAreFileSteps, RecoverRecords
  <2>2. spent'.edits = spent.edits /\ spent'.scans = spent.scans
    BY <1>2 DEF Recover, ReadMarker, ReadHash, ClearTarget, RestoreBackup,
       DropStage, DropBackup, Unmark, RecoveryFails, Records
  <2>3. /\ \A s \in Threads : s # t => pc'[s] = pc[s] /\ seen'[s] = seen[s]
        /\ pc[t] # "SCANNED"
    BY <1>2 DEF Recover, ReadMarker, ReadHash, ClearTarget, RestoreBackup,
       DropStage, DropBackup, Unmark, RecoveryFails, Removes, Skips,
       ThreadGoto, ThreadAt, Control, Records, RecoveryLabels
  <2>4. pc'[t] = "SCANNED" => FALSE
    <3>1. ret[t].ok # "SCANNED" /\ ret[t].fail # "SCANNED"
      BY <1>2 DEF Recover, ReadMarker, ReadHash, ClearTarget, RestoreBackup,
         DropStage, DropBackup, Unmark, RecoveryFails, ThreadAt, RecoveryLabels,
         Control, Exits
    <3>2. QED
      BY <1>2, <2>3, <3>1 DEF Recover, ReadMarker, ReadHash, ClearTarget,
         RestoreBackup, DropStage, DropBackup, Unmark, RecoveryFails, Removes,
         Skips, ThreadGoto, Control
  <2>5. QED
    BY <1>2, <2>1, <2>2, <2>3, <2>4, CountersStay, RendererIsAThread
<1>3. CASE Render /\ bounds' = bounds
  <2>1. FileStep /\ Records'
    BY <1>3, RenderIsFileStep, RenderRecords
  <2>2. UNCHANGED <<seen, spent>>
    BY <1>3 DEF Render, CreateStaging, LeaveRecovery, MakeStage, StageCuts,
       StagingFails, PromoteCuts, Inspect, WriteJournal, JournalFails,
       Exchanges, MovesOld, MovesNew, ValidatePromoted, RemoveOld, Unlink,
       PromotionFails, DropUnmarked, Unlock, DiscardStage, PromotionReturns
  <2>3. \A s \in Openers : pc'[s] = pc[s]
    BY <1>3, RenderLeaves, RendererIsAThread DEF Leaves
  <2>4. QED
    BY <1>3, <2>1, <2>2, <2>3, CountersStay
<1>4. ASSUME NEW o \in Openers, bounds' = bounds,
             Open(o) \/ ScanFails(o) \/ CloseCuts(o)
      PROVE  Records' /\ Counted'
  <2>1. /\ UNCHANGED <<dir, marker, renderVars, spent>>
        /\ seen' = seen \/ seen' = [seen EXCEPT ![o] = NothingSeen]
        /\ \A s \in Threads : s # o => pc'[s] = pc[s] /\ seen'[s] = seen[s]
        /\ pc'[o] # "SCANNED"
    BY <1>4, RendererIsAThread DEF Open, EnterRecovery, ScanFails, CloseCuts,
       ThreadGoto, Control, Records
  <2>2. Records'
    BY <1>4, <2>1, SameTypes, NothingIsAView, RendererIsAThread
    DEF Records, renderVars, ThreadAt
  <2>3. FileStep
    BY <2>1 DEF FileStep
  <2>4. QED
    BY <1>4, <2>1, <2>2, <2>3, CountersStay, RendererIsAThread
<1>5. CASE Crash /\ bounds' = bounds
  <2>1. /\ UNCHANGED <<dir, marker, job, delivered>> /\ journal' = Nil
        /\ oldLocation' = Nil /\ spent.crashes < bounds.crashes
        /\ pc' = [t \in Threads |-> "IDLE"]
        /\ seen' = [t \in Threads |-> NothingSeen]
        /\ spent' = [spent EXCEPT !.crashes = @ + 1]
    BY <1>5 DEF Crash
  <2>2. spent.crashes + 1 \in 0 .. bounds.crashes
    BY <2>1 DEF Records, BoundNames
  <2>3. Records'
    BY <1>5, <2>1, <2>2, SameTypes, NothingIsAView, RendererIsAThread
    DEF Records, ThreadAt
  <2>4. FileStep /\ spent'.edits = spent.edits /\ spent'.scans = spent.scans
        /\ \A o \in Openers : pc'[o] # "SCANNED"
    BY <2>1, RendererIsAThread DEF FileStep, Records
  <2>5. QED
    BY <1>5, <2>3, <2>4, CountersStay
<1>6. QED
  BY <1>1, <1>2, <1>3, <1>4, <1>5, WriteManifestRecords, ScanRecords, EditRecords
  DEF PromotionNext

---------------------------------------------------------------------------
(* Marked is inductive: who changes the marker holds the lock.             *)

LEMMA RecoverLeaves ==
  ASSUME NEW t \in Threads, Control, Records, Recover(t)
  PROVE  /\ Leaves(t) /\ ret' = ret /\ UNCHANGED <<lock, renderVars>>
         /\ pc[t] \in RecoveryLabels
<1> USE DEF RecoveryLabels, Control, Records, ThreadAt, ThreadGoto, Removes, Skips
<1>1. CASE ReadMarker(t) \/ Unmark(t) \/ RecoveryFails(t)
  BY <1>1 DEF ReadMarker, Unmark, RecoveryFails, Leaves
<1>2. ASSUME NEW k, NEW f, NEW p, NEW l, k \in RecoveryLabels,
             ReadHash(t, k, f, p, l)
      PROVE  /\ Leaves(t) /\ ret' = ret /\ UNCHANGED <<lock, renderVars>>
             /\ pc[t] \in RecoveryLabels
  BY <1>2 DEF ReadHash, Leaves
<1>3. CASE ClearTarget(t) \/ RestoreBackup(t) \/ DropStage(t) \/ DropBackup(t)
  BY <1>3 DEF ClearTarget, RestoreBackup, DropStage, DropBackup, Leaves
<1>4. QED
  BY <1>1, <1>2, <1>3 DEF Recover

LEMMA OpenerLeaves ==
  ASSUME NEW o \in Openers, Control, Records,
         Open(o) \/ Scan(o) \/ WriteManifest(o) \/ ScanFails(o) \/ CloseCuts(o)
  PROVE  Leaves(o) /\ UNCHANGED <<marker, renderVars>>
BY RendererIsAThread
DEF Control, Records, ThreadAt, ThreadGoto, Leaves, Open, Scan, WriteManifest,
    ScanFails, CloseCuts, EnterRecovery

LEMMA OthersStayMarked ==
  ASSUME NEW t \in Threads, Control, Marked, Leaves(t),
         marker' \in {marker, Nil} \/ t = Renderer,
         marker' = marker \/ pc[t] \notin Free
  PROVE  /\ \A s \in Threads : s # t => MarkerKnown(s)'
         /\ t # Renderer => MarkerWritten'
<1>1. ASSUME NEW s \in Threads, s # t PROVE MarkerKnown(s)'
  <2>1. CASE marker' = marker
    BY <1>1, <2>1 DEF Marked, MarkerKnown, Leaves, Recovering, ThreadAt
  <2>2. CASE pc[t] \notin Free
    <3>1. pc[s] \in Free /\ pc'[s] = pc[s]
      BY <1>1, <2>2, Exclusive DEF Leaves
    <3>2. QED
      BY <3>1 DEF MarkerKnown, Recovering, ThreadAt, Free, RecoveryLabels
  <2>3. QED
    BY <2>1, <2>2
<1>2. ASSUME t # Renderer PROVE MarkerWritten'
  <2>1. /\ pc'[Renderer] = pc[Renderer] /\ ret'[Renderer] = ret[Renderer]
        /\ job' = job /\ journal' = journal /\ marker' \in {marker, Nil}
    BY <1>2, RendererIsAThread DEF Leaves, renderVars
  <2>2. CASE marker' = marker
    BY <2>1, <2>2 DEF Marked, MarkerWritten, Returning, ThreadAt
  <2>3. CASE pc[t] \notin Free
    <3>1. pc[Renderer] \in Free
      BY <1>2, <2>3, RendererIsAThread, Exclusive
    <3>2. QED
      BY <2>1, <3>1 DEF Marked, MarkerWritten, Returning, ThreadAt,
         Free, Journalled, RecoveryLabels
  <2>4. QED
    BY <2>2, <2>3
<1>3. QED
  BY <1>1, <1>2

LEMMA RecoverMarked ==
  ASSUME NEW t \in Threads, Control, Records, Marked, Recover(t)
  PROVE  Marked'
<1>1. /\ Leaves(t) /\ ret' = ret /\ UNCHANGED renderVars
      /\ pc[t] \in RecoveryLabels /\ ret[t] \in Exits(t)
  BY RecoverLeaves DEF Control
<1>2. marker' \in {marker, Nil}
  BY DEF Recover, ReadMarker, ReadHash, ClearTarget, RestoreBackup, DropStage,
     DropBackup, Unmark, RecoveryFails
<1>3. pc[t] \notin Free
  BY <1>1 DEF Free, RecoveryLabels
<1>4. \/ pc'[t] \in RecoveryLabels \ {"MARKER"} /\ marker' = marker /\ marker # Nil
         /\ seen'[t].journal = marker
      \/ pc'[t] = ret[t].ok /\ marker' = Nil
      \/ pc'[t] = ret[t].fail /\ marker' = marker
  <2> USE DEF ThreadAt, ThreadGoto, Control, Records, RecoveryLabels
  <2>1. CASE ReadMarker(t)
    <3>1. seen'[t].journal = marker
      BY <2>1 DEF ReadMarker, NothingSeen
    <3>2. QED
      BY <2>1, <3>1 DEF ReadMarker
  <2>2. CASE Unmark(t) \/ RecoveryFails(t)
    BY <2>2 DEF Unmark, RecoveryFails
  <2>3. ASSUME Recovering(t), NEW k, NEW f \in {"target", "stage", "backup"},
               NEW p, NEW l \in {"HASH_STAGE", "HASH_BACKUP", "CLEAR"},
               ReadHash(t, k, f, p, l)
        PROVE  pc'[t] \in RecoveryLabels \ {"MARKER"} /\ marker' = marker
               /\ seen'[t].journal = seen[t].journal
    BY <2>3 DEF ReadHash, Views
  <2>4. CASE ClearTarget(t) \/ RestoreBackup(t) \/ DropStage(t) \/ DropBackup(t)
    <3>1. seen' = seen /\ marker' = marker /\ Recovering(t)
      BY <2>4 DEF ClearTarget, RestoreBackup, DropStage, DropBackup, Recovering
    <3>2. pc'[t] \in RecoveryLabels \ {"MARKER"}
      BY <2>4, <3>1 DEF ClearTarget, RestoreBackup, DropStage, DropBackup,
         Removes, Skips, Recovering
    <3>3. QED
      BY <3>1, <3>2 DEF Marked, MarkerKnown
  <2>5. Recovering(t) => marker # Nil /\ seen[t].journal = marker
    BY DEF Marked, MarkerKnown
  <2>6. CASE \/ ReadHash(t, "HASH_TARGET", "target", Target, "HASH_STAGE")
             \/ ReadHash(t, "HASH_STAGE", "stage", Stage(seen[t].journal.job),
                         "HASH_BACKUP")
             \/ ReadHash(t, "HASH_BACKUP", "backup",
                         Backup(seen[t].journal.job), "CLEAR")
    <3>1. Recovering(t)
      BY <2>6 DEF ReadHash, Recovering
    <3>2. QED
      BY <2>3, <2>5, <2>6, <3>1
  <2>7. QED
    BY <2>1, <2>2, <2>4, <2>6 DEF Recover
<1>5. MarkerKnown(t)'
  BY <1>1, <1>4 DEF MarkerKnown, Recovering, ThreadAt, Exits, RecoveryLabels
<1>6. t = Renderer => MarkerWritten'
  <2>1. Returning({"RETURN"})  => pc[Renderer] = "MARKER" /\ marker = Nil
    BY DEF Marked, MarkerWritten, Returning, ThreadAt
  <2>2. QED
    BY <1>1, <1>4, <2>1 DEF MarkerWritten, Returning, ThreadAt, Exits,
       RecoveryLabels, Journalled, renderVars, Marked
<1>7. QED
  BY <1>1, <1>2, <1>3, <1>5, <1>6, OthersStayMarked DEF Marked

LEMMA RenderMarked ==
  ASSUME Control, Records, Marked, Render
  PROVE  Marked'
<1> DEFINE r == Renderer
<1> USE RendererIsAThread DEF ThreadAt, ThreadGoto
<1>1. /\ Leaves(r) /\ seen' = seen /\ pc \in [Threads -> {"IDLE"} \cup
            RecoveryLabels \cup RenderLabels \cup OpenerLabels]
      /\ ret \in [Threads -> [ok : ExitLabels, fail : ExitLabels]]
  BY RenderLeaves DEF Control
<1>2. MarkerKnown(r)'
  <2>1. pc'[r] \notin RecoveryLabels \ {"MARKER"} /\ pc'[r] # "OPENED"
    <3>2. CASE CreateStaging \/ PromoteCuts \/ Unlink \/ PromotionFails
      BY <1>1, <3>2 DEF CreateStaging, PromoteCuts, Unlink, PromotionFails,
         EnterRecovery
    <3>3. CASE LeaveRecovery \/ MakeStage \/ StageCuts \/ StagingFails \/ Inspect
               \/ JournalFails
      BY <1>1, <3>3 DEF LeaveRecovery, MakeStage, StageCuts, StagingFails,
         Inspect, JournalFails, RecoveryLabels
    <3>4. CASE \/ WriteJournal("WRITE_JOURNAL", "SWAP")
               \/ WriteJournal("OLD_MOVED", "MOVE_NEW")
               \/ WriteJournal("NEW_ACTIVE", "VALIDATE")
      BY <1>1, <3>4 DEF WriteJournal, RecoveryLabels
    <3>8. CASE Exchanges \/ MovesOld
      BY <1>1, <3>8 DEF Exchanges, MovesOld, RecoveryLabels
    <3>9. CASE MovesNew \/ ValidatePromoted
      BY <1>1, <3>9 DEF MovesNew, ValidatePromoted, RecoveryLabels
    <3>5. CASE RemoveOld \/ DropUnmarked \/ DiscardStage
      BY <1>1, <3>5 DEF RemoveOld, DropUnmarked, DiscardStage, Removes,
         RecoveryLabels
    <3>6. CASE Unlock \/ PromotionReturns
      BY <1>1, <3>6 DEF Unlock, PromotionReturns, RecoveryLabels
    <3>7. QED
      BY <3>2, <3>3, <3>4, <3>5, <3>6, <3>8, <3>9 DEF Render
  <2>2. QED
    BY <2>1 DEF MarkerKnown, Recovering
<1>3. MarkerWritten'
  <2> USE <1>1 DEF Marked, MarkerWritten, Returning, Journalled, RecoveryLabels
  <2>1. CASE CreateStaging \/ PromoteCuts
    <3>1. /\ pc'[r] = "MARKER" /\ marker' = marker
          /\ \/ ret'[r].ok = "RECOVERED"
             \/ ret'[r].ok = "INSPECT" /\ pc[r] = "STAGED"
      BY <2>1 DEF CreateStaging, PromoteCuts, EnterRecovery
    <3>2. QED
      BY <3>1
  <2>2. CASE LeaveRecovery \/ MakeStage \/ StageCuts \/ StagingFails
    BY <2>2 DEF LeaveRecovery, MakeStage, StageCuts, StagingFails
  <2>3. CASE Inspect
    <3>1. journal'.job = job /\ job' = job /\ marker' = marker
          /\ pc'[r] = "WRITE_JOURNAL" /\ pc[r] = "INSPECT"
      BY <2>3 DEF Inspect
    <3>2. job \in 1 .. MaxPromotions /\ Target \in Places /\ bounds.scans \in Nat
          /\ bounds \in Bounds
      BY <3>1, JobIsNumbered, PlaceNames DEF Records, BoundNames
    <3>3. journal'.previous \in (Nat \X Nat) \cup {Nil}
      <4>1. dir[Target] # Nil => Hash(dir[Target]) \in Hashes
        BY <3>2, HashTyped DEF Records
      <4>2. QED
        BY <2>3, <3>2, <4>1 DEF Inspect, Hashes
    <3>4. journal' # Nil
      <4>1. journal' \in [job : Nat, previous : (Nat \X Nat) \cup {Nil}]
        BY <2>3, <3>2, <3>3 DEF Inspect
      <4>2. QED
        BY <4>1
    <3>5. QED
      BY <3>1, <3>4
  <2>4. CASE WriteJournal("WRITE_JOURNAL", "SWAP") \/ JournalFails
             \/ WriteJournal("OLD_MOVED", "MOVE_NEW")
             \/ WriteJournal("NEW_ACTIVE", "VALIDATE")
    BY <2>4 DEF WriteJournal, JournalFails, renderVars
  <2>5. CASE Exchanges \/ MovesOld
    BY <2>5, ZenonT(60) DEF Exchanges, MovesOld
  <2>6. CASE MovesNew \/ ValidatePromoted \/ RemoveOld
    BY <2>6 DEF MovesNew, ValidatePromoted, RemoveOld, Removes, renderVars
  <2>7. CASE Unlink
    <3>1. marker' = Nil /\ pc'[r] = "MARKER"
      BY <2>7 DEF Unlink, EnterRecovery
    <3>2. QED
      BY <3>1
  <2>8. CASE PromotionFails
    <3>1. pc'[r] = "MARKER" /\ ret'[r].ok = "UNLOCK"
      BY <2>8 DEF PromotionFails
    <3>2. QED
      BY <3>1
  <2>9. CASE DropUnmarked
    <3>1. ret'[r].ok = "UNLOCK" /\ UNCHANGED <<marker, renderVars>>
          /\ (pc'[r] = "MARKER" \/ pc'[r] = pc[r]) /\ pc[r] = "DROP_UNMARKED"
      BY <2>9 DEF DropUnmarked, Removes
    <3>2. QED
      BY <3>1 DEF renderVars
  <2>10. CASE Unlock \/ DiscardStage \/ PromotionReturns
    BY <2>10 DEF Unlock, DiscardStage, PromotionReturns, Removes, renderVars
  <2>11. QED
    BY <2>1, <2>2, <2>3, <2>4, <2>5, <2>6, <2>7, <2>8, <2>9, <2>10 DEF Render
<1>4. marker' = marker \/ pc[r] \notin Free
  BY DEF Render, CreateStaging, LeaveRecovery, MakeStage, StageCuts,
     StagingFails, PromoteCuts, Inspect, WriteJournal, JournalFails,
     Exchanges, MovesOld, MovesNew, ValidatePromoted, RemoveOld, Unlink,
     PromotionFails, PromotionLabels, DropUnmarked, Unlock, DiscardStage,
     PromotionReturns, Free
<1>5. QED
  BY <1>1, <1>2, <1>3, <1>4, OthersStayMarked DEF Marked

LEMMA OpenerMarked ==
  ASSUME NEW o \in Openers, Control, Records, Marked,
         Open(o) \/ Scan(o) \/ WriteManifest(o) \/ ScanFails(o) \/ CloseCuts(o)
  PROVE  Marked'
<1>1. Leaves(o) /\ marker' = marker /\ o \in Threads /\ o # Renderer
  BY OpenerLeaves, RendererIsAThread
<1>2. pc'[o] \notin RecoveryLabels \ {"MARKER"} /\ pc'[o] # "OPENED"
  BY <1>1 DEF Open, Scan, WriteManifest, ScanFails, CloseCuts, EnterRecovery,
     ThreadGoto, Control, RecoveryLabels
<1>3. QED
  BY <1>1, <1>2, OthersStayMarked DEF Marked, MarkerKnown, Recovering, ThreadAt

LEMMA MarkedIsInductive ==
  ASSUME Control, Records, Marked, [PromotionNext]_promotionVars
  PROVE  Marked'
<1>1. CASE EditFrame \/ UNCHANGED promotionVars
  BY <1>1 DEF EditFrame, promotionVars, threadVars, renderVars, Marked,
     MarkerKnown, MarkerWritten, Recovering, Returning, ThreadAt
<1>2. CASE Crash
  BY <1>2, RendererIsAThread
  DEF Crash, Marked, MarkerKnown, MarkerWritten, Recovering, Returning,
      ThreadAt, RecoveryLabels, Journalled
<1>3. QED
  BY <1>1, <1>2, RecoverMarked, RenderMarked, OpenerMarked DEF PromotionNext

---------------------------------------------------------------------------
(* BackedUp is inductive: the backup goes before the marker does.          *)

BackupsStay == \A j \in 1 .. MaxPromotions : dir'[Backup(j)] = dir[Backup(j)]

LEMMA OthersStayBackedUp ==
  ASSUME NEW t \in Threads, Control, Records, Marked, BackedUp, Leaves(t),
         (marker' = marker /\ BackupsStay) \/ pc[t] \notin Free
  PROVE  /\ \A s \in Threads : s # t => BackupKnown(s)'
         /\ t # Renderer => BackupWritten'
<1>1. CASE pc[t] \notin Free
  <2>1. \A s \in Threads : s # t => pc'[s] \in Free
    BY <1>1, Exclusive DEF Leaves
  <2>2. QED
    BY <2>1, RendererIsAThread DEF BackupKnown, BackupWritten, ThreadAt, Free
<1>2. CASE marker' = marker /\ BackupsStay
  <2>1. ASSUME NEW s \in Threads, s # t PROVE BackupKnown(s)'
    <3>1. pc'[s] = pc[s] /\ seen'[s] = seen[s]
      BY <2>1 DEF Leaves
    <3>2. OldPlace(seen'[s]) = OldPlace(seen[s])
      BY <3>1
    <3>3. CASE Recovering(s)
      <4>1. marker.job \in 1 .. MaxPromotions
        BY <3>3, RecoveryJournal
      <4>2. QED
        BY <1>2, <3>1, <3>2, <4>1
        DEF BackedUp, BackupKnown, BackupsStay, ThreadAt
    <3>4. CASE ~Recovering(s)
      BY <3>1, <3>4 DEF BackupKnown, ThreadAt, Recovering, RecoveryLabels
    <3>5. QED
      BY <3>3, <3>4
  <2>2. ASSUME t # Renderer PROVE BackupWritten'
    <3>1. pc'[Renderer] = pc[Renderer] /\ UNCHANGED <<job, oldLocation>>
      BY <2>2, RendererIsAThread DEF Leaves, renderVars
    <3>2. CASE pc[Renderer] = "IDLE"
      BY <3>1, <3>2 DEF BackupWritten
    <3>3. CASE pc[Renderer] # "IDLE"
      BY <1>2, <3>1, <3>3, JobIsNumbered DEF BackedUp, BackupWritten, BackupsStay
    <3>4. QED
      BY <3>2, <3>3
  <2>3. QED
    BY <2>1, <2>2
<1>3. QED
  BY <1>1, <1>2

LEMMA RemovesKeepsOthers ==
  ASSUME NEW t \in Threads, NEW p \in Places, NEW l, Records, Control,
         Removes(t, p, l)
  PROVE  /\ \A q \in Places : q # p => dir'[q] = dir[q]
         /\ dir[p] # Nil
         /\ \/ pc' = pc /\ dir'[p] = HalfRemoved(dir[p]) /\ dir'[p] # Nil
            \/ pc' = [pc EXCEPT ![t] = l] /\ pc'[t] = l /\ dir'[p] = Nil
<1>1. /\ dir \in [Places -> Contents \cup {Nil}] /\ bounds \in Bounds
      /\ t \in DOMAIN pc
  BY DEF Records, Control
<1>2. dir[p] \in Contents
  BY <1>1 DEF Removes
<1>3. QED
  BY <1>1, <1>2, HalfRemovedTyped DEF Removes, ThreadGoto

LEMMA RecoverBackedUp ==
  ASSUME NEW t \in Threads, Control, Records, Marked, BackedUp, Recover(t)
  PROVE  BackedUp'
<1>1. /\ Leaves(t) /\ UNCHANGED <<ret, renderVars>> /\ pc[t] \in RecoveryLabels
      /\ ret[t] \in Exits(t) /\ pc[t] \notin Free
  BY RecoverLeaves DEF Control, Free, RecoveryLabels
<1>2. t \in DOMAIN pc /\ dir \in [Places -> Contents \cup {Nil}]
  BY DEF Control, Records
<1> USE DEF ThreadAt, ThreadGoto
<1>3. CASE /\ BackupsStay /\ marker' = marker
           /\ pc'[t] \notin {"DROP_STAGE", "DROP_BACKUP", "UNMARK"}
  <2>1. BackupMarked' /\ BackupKnown(t)'
    BY <1>3 DEF BackedUp, BackupMarked, BackupKnown, BackupsStay
  <2>2. t = Renderer => pc'[t] \notin {"SWAP", "UNLINK", "DROP_UNMARKED",
              "NEW_ACTIVE", "VALIDATE", "REMOVE_OLD", "OLD_MOVED", "MOVE_NEW"}
    BY <1>1, <1>2 DEF Recover, ReadMarker, ReadHash, ClearTarget,
       RestoreBackup, DropStage, DropBackup, Unmark, RecoveryFails, Removes,
       Skips, Exits, RecoveryLabels
  <2>3. QED
    BY <1>1, <2>1, <2>2, OthersStayBackedUp DEF BackedUp, BackupWritten
<1>4. CASE ReadMarker(t) \/ RecoveryFails(t)
  <2>1. pc'[t] \notin {"DROP_STAGE", "DROP_BACKUP", "UNMARK"}
    BY <1>1, <1>2, <1>4 DEF ReadMarker, RecoveryFails, Exits
  <2>2. QED
    BY <1>3, <1>4, <2>1 DEF ReadMarker, RecoveryFails, BackupsStay
<1>5. ASSUME NEW k, NEW f, NEW p, NEW l \in {"HASH_STAGE", "HASH_BACKUP", "CLEAR"},
             ReadHash(t, k, f, p, l)
      PROVE  BackedUp'
  <2>1. pc'[t] = l /\ dir' = dir /\ marker' = marker
    BY <1>2, <1>5 DEF ReadHash
  <2>2. QED
    BY <1>3, <2>1 DEF BackupsStay
<1>6. ASSUME pc[t] \in {"CLEAR", "RESTORE", "DROP_STAGE", "DROP_BACKUP", "UNMARK"}
      PROVE  /\ seen[t].journal = marker /\ marker # Nil
             /\ marker.job \in 1 .. MaxPromotions
             /\ Stage(marker.job) \in Places /\ Backup(marker.job) \in Places
             /\ OldPlace(seen[t]) \in
                     {Target, Stage(marker.job), Backup(marker.job)}
             /\ OldPlace(seen[t]) \in Places
  BY <1>6, RecoveryJournal, OldPlaceIsAPlace, PlaceNames
  DEF Recovering, RecoveryLabels, Marked, MarkerKnown
<1>7. CASE ClearTarget(t)
  <2>1. BackupsStay /\ marker' = marker /\ seen' = seen
    BY <1>2, <1>7, RemovesKeepsOthers, PlaceNames
    DEF ClearTarget, Skips, BackupsStay
  <2>2. \/ pc'[t] \in {"CLEAR", "RESTORE"}
        \/ pc'[t] = "DROP_STAGE" /\ OldPlace(seen[t]) = Target
    BY <1>2, <1>7 DEF ClearTarget, Removes, Skips
  <2>3. CASE pc'[t] = "DROP_STAGE"
    <3>1. OldPlace(seen'[t]) # Backup(marker'.job)
      BY <2>1, <2>2, <2>3, PlaceNames
    <3>2. BackupMarked' /\ BackupKnown(t)'
      BY <2>1, <2>3, <3>1 DEF BackedUp, BackupMarked, BackupKnown, BackupsStay
    <3>3. QED
      BY <1>1, <2>1, <2>3, <3>2, OthersStayBackedUp DEF BackedUp, BackupWritten
  <2>4. QED
    BY <1>3, <2>1, <2>2, <2>3
<1>8. CASE RestoreBackup(t)
  <2> DEFINE p == OldPlace(seen[t])
  <2>1. /\ pc'[t] = "DROP_STAGE" /\ marker' = marker /\ seen' = seen
        /\ p \in Places /\ Move(p, Target)
    BY <1>2, <1>6, <1>8 DEF RestoreBackup
  <2>2. \A q \in Places : q # Target /\ dir'[q] # Nil => dir[q] # Nil
    BY <1>2, <2>1 DEF Move
  <2>3. BackupMarked'
    BY <2>1, <2>2, PlaceNames DEF BackedUp, BackupMarked
  <2>4. p = Backup(marker.job) => dir'[p] = Nil
    BY <1>2, <2>1, PlaceNames DEF Move
  <2>5. BackupKnown(t)'
    BY <2>1, <2>4 DEF BackupKnown
  <2>6. QED
    BY <1>1, <2>1, <2>3, <2>5, OthersStayBackedUp DEF BackedUp, BackupWritten
<1>9. CASE DropStage(t)
  <2>1. seen' = seen /\ marker' = marker /\ pc[t] = "DROP_STAGE"
        /\ pc'[t] \in {"DROP_STAGE", "DROP_BACKUP"}
    BY <1>2, <1>9 DEF DropStage, Removes, Skips
  <2>2. BackupsStay
    BY <1>6, <1>9, <2>1, RemovesKeepsOthers, PlaceNames
    DEF DropStage, Skips, BackupsStay
  <2>3. BackupMarked' /\ BackupKnown(t)'
    BY <1>6, <2>1, <2>2 DEF BackedUp, BackupMarked, BackupKnown, BackupsStay
  <2>4. QED
    BY <1>1, <2>1, <2>3, OthersStayBackedUp DEF BackedUp, BackupWritten
<1>10. CASE DropBackup(t)
  <2> DEFINE p == Backup(marker.job)
  <2>1. /\ seen' = seen /\ marker' = marker /\ pc[t] = "DROP_BACKUP"
        /\ p \in Places /\ seen[t].journal = marker
    BY <1>6, <1>10 DEF DropBackup
  <2>2. CASE OldPlace(seen[t]) # p /\ Removes(t, p, "UNMARK")
    <3>1. /\ \A q \in Places : q # p => dir'[q] = dir[q]
          /\ dir[p] # Nil
          /\ \/ pc'[t] = "DROP_BACKUP"
             \/ pc'[t] = "UNMARK" /\ dir'[p] = Nil
      <4>1. Removes(t, p, "UNMARK") /\ p \in Places /\ pc[t] = "DROP_BACKUP"
        BY <2>1, <2>2
      <4>2. /\ \A q \in Places : q # p => dir'[q] = dir[q]
            /\ dir[p] # Nil
            /\ \/ pc' = pc
               \/ pc'[t] = "UNMARK" /\ dir'[p] = Nil
        BY <4>1, RemovesKeepsOthers
      <4>3. QED
        BY <4>1, <4>2
    <3>2. BackupMarked'
      BY <1>6, <2>1, <3>1, PlaceNames DEF BackedUp, BackupMarked
    <3>3. BackupKnown(t)'
      BY <2>1, <2>2, <3>1 DEF BackupKnown
    <3>4. QED
      BY <1>1, <3>1, <3>2, <3>3, OthersStayBackedUp DEF BackedUp, BackupWritten
  <2>3. CASE (OldPlace(seen[t]) = p \/ dir[p] = Nil) /\ Skips(t, "UNMARK")
    <3>1. dir' = dir /\ pc'[t] = "UNMARK" /\ dir[p] = Nil
      BY <1>2, <2>1, <2>3 DEF Skips, BackedUp, BackupKnown
    <3>2. BackupMarked' /\ BackupKnown(t)'
      BY <2>1, <3>1 DEF BackedUp, BackupMarked, BackupKnown
    <3>3. QED
      BY <1>1, <3>1, <3>2, OthersStayBackedUp DEF BackedUp, BackupWritten
  <2>4. QED
    BY <1>10, <2>1, <2>2, <2>3 DEF DropBackup
<1>11. CASE Unmark(t)
  <2>1. dir' = dir /\ pc'[t] = ret[t].ok /\ dir[Backup(marker.job)] = Nil
    BY <1>2, <1>11 DEF Unmark, BackedUp, BackupKnown
  <2>2. \A j \in 1 .. MaxPromotions : dir[Backup(j)] = Nil
    BY <2>1 DEF BackedUp, BackupMarked
  <2>3. BackupMarked'
    BY <2>1, <2>2 DEF BackupMarked
  <2>4. BackupKnown(t)' /\ (t = Renderer => BackupWritten')
    BY <1>1, <2>1 DEF BackupKnown, BackupWritten, Exits
  <2>5. QED
    BY <1>1, <2>3, <2>4, OthersStayBackedUp DEF BackedUp
<1>12. QED
  BY <1>4, <1>5, <1>7, <1>8, <1>9, <1>10, <1>11 DEF Recover

LEMMA RenderBackedUp ==
  ASSUME Control, Records, Marked, BackedUp, Render
  PROVE  BackedUp'
<1> DEFINE r == Renderer
<1>1. /\ Leaves(r) /\ r \in Threads /\ r \in DOMAIN pc
      /\ dir \in [Places -> Contents \cup {Nil}] /\ seen' = seen
  BY RenderLeaves, RendererIsAThread DEF Control, Records
<1> USE DEF ThreadAt, ThreadGoto
<1>2. marker = Nil => \A j \in 1 .. MaxPromotions : dir[Backup(j)] = Nil
  BY DEF BackedUp, BackupMarked
<1>3. pc[r] # "IDLE" => /\ job \in 1 .. MaxPromotions
                        /\ Stage(job) \in Places /\ Backup(job) \in Places
  BY JobIsNumbered
<1>4. pc[r] \in Journalled => marker = journal /\ marker # Nil /\ marker.job = job
  BY DEF Marked, MarkerWritten
<1>5. BackupKnown(r)'
  <2>1. pc'[r] \notin {"DROP_STAGE", "DROP_BACKUP", "UNMARK"}
    <3>1. CASE CreateStaging \/ PromoteCuts \/ Unlink \/ PromotionFails
      BY <1>1, <3>1 DEF CreateStaging, PromoteCuts, Unlink, PromotionFails,
         EnterRecovery
    <3>2. CASE LeaveRecovery \/ MakeStage \/ StageCuts \/ StagingFails \/ Inspect
               \/ JournalFails \/ Unlock \/ PromotionReturns
      BY <1>1, <3>2 DEF LeaveRecovery, MakeStage, StageCuts, StagingFails,
         Inspect, JournalFails, Unlock, PromotionReturns
    <3>3. CASE \/ WriteJournal("WRITE_JOURNAL", "SWAP")
               \/ WriteJournal("OLD_MOVED", "MOVE_NEW")
               \/ WriteJournal("NEW_ACTIVE", "VALIDATE")
               \/ Exchanges \/ MovesOld \/ MovesNew \/ ValidatePromoted
      BY <1>1, <3>3 DEF WriteJournal, Exchanges, MovesOld, MovesNew,
         ValidatePromoted
    <3>4. CASE RemoveOld \/ DropUnmarked \/ DiscardStage
      BY <1>1, <3>4 DEF RemoveOld, DropUnmarked, DiscardStage, Removes
    <3>5. QED
      BY <3>1, <3>2, <3>3, <3>4 DEF Render
  <2>2. QED
    BY <2>1 DEF BackupKnown
<1>6. BackupMarked' /\ BackupWritten'
  <2>1. CASE CreateStaging \/ LeaveRecovery \/ StagingFails \/ PromoteCuts
             \/ Inspect \/ PromotionFails \/ Unlock \/ PromotionReturns
    <3>1. UNCHANGED <<dir, marker>> /\ pc'[r] \notin {"SWAP", "UNLINK",
             "DROP_UNMARKED", "NEW_ACTIVE", "VALIDATE", "REMOVE_OLD",
             "OLD_MOVED", "MOVE_NEW"}
      <4>1. CASE CreateStaging \/ LeaveRecovery \/ StagingFails \/ PromoteCuts
        BY <1>1, <4>1 DEF CreateStaging, LeaveRecovery, StagingFails,
           PromoteCuts, EnterRecovery
      <4>2. CASE Inspect \/ PromotionFails \/ Unlock \/ PromotionReturns
        BY <1>1, <4>2 DEF Inspect, PromotionFails, Unlock, PromotionReturns
      <4>3. QED
        BY <2>1, <4>1, <4>2
    <3>2. QED
      BY <3>1 DEF BackedUp, BackupMarked, BackupWritten
  <2>2. CASE MakeStage \/ StageCuts
    <3>1. /\ BackupsStay /\ marker' = marker
          /\ pc'[r] \in {"STAGING", "STAGED", "IDLE"}
      BY <1>1, <1>3, <2>2, PlaceNames DEF MakeStage, StageCuts, BackupsStay
    <3>2. QED
      BY <3>1 DEF BackedUp, BackupMarked, BackupWritten, BackupsStay
  <2>3. CASE WriteJournal("WRITE_JOURNAL", "SWAP") \/ JournalFails
    <3>1. /\ marker = Nil /\ dir' = dir /\ job' = job
          /\ pc'[r] \in {"SWAP", "DROP_UNMARKED"} /\ pc[r] = "WRITE_JOURNAL"
      BY <1>1, <2>3 DEF WriteJournal, JournalFails, renderVars, Marked,
         MarkerWritten
    <3>2. QED
      BY <1>2, <1>3, <3>1 DEF BackupMarked, BackupWritten
  <2>4. CASE WriteJournal("OLD_MOVED", "MOVE_NEW")
             \/ WriteJournal("NEW_ACTIVE", "VALIDATE")
    <3>1. marker' = marker /\ UNCHANGED <<dir, renderVars>>
      BY <1>4, <2>4 DEF WriteJournal, Journalled
    <3>2. \/ pc[r] = "OLD_MOVED" /\ pc'[r] = "MOVE_NEW"
          \/ pc[r] = "NEW_ACTIVE" /\ pc'[r] = "VALIDATE"
      BY <1>1, <2>4 DEF WriteJournal
    <3>3. QED
      BY <3>1, <3>2 DEF BackedUp, BackupMarked, BackupWritten, renderVars
  <2>5. CASE Exchanges
    <3>1. /\ BackupsStay /\ marker' = marker /\ job' = job
          /\ pc[r] = "SWAP" /\ pc'[r] = "NEW_ACTIVE"
      BY <1>1, <1>3, <2>5, PlaceNames DEF Exchanges, BackupsStay
    <3>2. QED
      BY <1>3, <3>1 DEF BackedUp, BackupMarked, BackupWritten, BackupsStay
  <2>6. CASE MovesOld
    <3>1. /\ \A q \in Places : q # Backup(job) /\ dir'[q] # Nil => dir[q] # Nil
          /\ marker' = marker /\ marker # Nil /\ marker.job = job /\ job' = job
          /\ oldLocation' = Backup(job) /\ pc'[r] = "OLD_MOVED"
      BY <1>1, <1>3, <1>4, <2>6, PlaceNames DEF MovesOld, Move, Journalled
    <3>2. QED
      BY <3>1, PlaceNames DEF BackedUp, BackupMarked, BackupWritten
  <2>7. CASE MovesNew
    <3>1. /\ BackupsStay /\ marker' = marker /\ UNCHANGED renderVars
          /\ pc[r] \in {"SWAP", "MOVE_NEW"} /\ pc'[r] = "NEW_ACTIVE"
      BY <1>1, <1>3, <2>7, PlaceNames DEF MovesNew, Move, BackupsStay
    <3>2. QED
      BY <1>3, <3>1 DEF BackedUp, BackupMarked, BackupWritten, BackupsStay,
         renderVars
  <2>8. CASE ValidatePromoted
    BY <1>1, <2>8 DEF ValidatePromoted, BackedUp, BackupMarked, BackupWritten,
       renderVars
  <2>9. CASE RemoveOld
    <3>1. /\ marker' = marker /\ UNCHANGED renderVars /\ pc[r] = "REMOVE_OLD"
          /\ marker # Nil /\ marker.job = job
          /\ oldLocation = Backup(job) \/ dir[Backup(job)] = Nil
      BY <1>4, <2>9 DEF RemoveOld, Journalled, BackedUp, BackupWritten
    <3>2. CASE oldLocation # Nil /\ Removes(r, oldLocation, "UNLINK")
      <4>1. oldLocation \in Places
        BY <3>2 DEF Records
      <4>2. /\ \A q \in Places : q # oldLocation => dir'[q] = dir[q]
            /\ dir[oldLocation] # Nil
            /\ \/ pc' = pc
               \/ pc'[r] = "UNLINK" /\ dir'[oldLocation] = Nil
        BY <1>1, <3>2, <4>1, RemovesKeepsOthers
      <4>3. BackupMarked'
        BY <3>1, <4>2, PlaceNames DEF BackedUp, BackupMarked
      <4>4. BackupWritten'
        BY <1>3, <3>1, <4>2 DEF BackupWritten, renderVars
      <4>5. QED
        BY <4>3, <4>4
    <3>3. CASE (oldLocation # Nil => dir[oldLocation] = Nil) /\ dir' = dir
               /\ pc'[r] = "UNLINK"
      <4>1. dir[Backup(job)] = Nil
        BY <1>3, <3>1, <3>3, PlaceIsNotNil
      <4>2. QED
        BY <3>1, <3>3, <4>1 DEF BackedUp, BackupMarked, BackupWritten, renderVars
    <3>4. QED
      BY <1>1, <2>9, <3>2, <3>3 DEF RemoveOld
  <2>10. CASE Unlink
    <3>1. dir' = dir /\ pc'[r] = "MARKER" /\ pc[r] = "UNLINK"
      BY <1>1, <2>10 DEF Unlink, EnterRecovery
    <3>2. \A j \in 1 .. MaxPromotions : dir[Backup(j)] = Nil
      BY <1>3, <1>4, <3>1 DEF Journalled, BackedUp, BackupMarked, BackupWritten
    <3>3. QED
      BY <3>1, <3>2 DEF BackupMarked, BackupWritten
  <2>11. CASE DropUnmarked \/ DiscardStage
    <3>1. /\ BackupsStay /\ marker' = marker /\ UNCHANGED renderVars
          /\ pc'[r] \in {pc[r], "MARKER", "IDLE"}
          /\ pc[r] \in {"DROP_UNMARKED", "DISCARD"}
      BY <1>1, <1>3, <2>11, RemovesKeepsOthers, PlaceNames
      DEF DropUnmarked, DiscardStage, BackupsStay
    <3>2. QED
      BY <1>3, <3>1 DEF BackedUp, BackupMarked, BackupWritten, BackupsStay,
         renderVars
  <2>12. QED
    BY <2>1, <2>2, <2>3, <2>4, <2>5, <2>6, <2>7, <2>8, <2>9, <2>10, <2>11
    DEF Render
<1>7. (marker' = marker /\ BackupsStay) \/ pc[r] \notin Free
  <2>1. CASE MakeStage \/ StageCuts
    BY <1>1, <1>3, <2>1, PlaceNames DEF MakeStage, StageCuts, BackupsStay
  <2>2. CASE DiscardStage
    BY <1>1, <1>3, <2>2, RemovesKeepsOthers, PlaceNames
    DEF DiscardStage, BackupsStay
  <2>3. CASE CreateStaging \/ StagingFails \/ PromoteCuts
    BY <2>3 DEF CreateStaging, StagingFails, PromoteCuts, BackupsStay
  <2>4. QED
    BY <2>1, <2>2, <2>3
    DEF Render, LeaveRecovery, Inspect, WriteJournal, JournalFails,
        Exchanges, MovesOld, MovesNew, ValidatePromoted, RemoveOld, Unlink,
        PromotionFails, PromotionLabels, DropUnmarked, Unlock,
        PromotionReturns, Free
<1>8. QED
  BY <1>1, <1>5, <1>6, <1>7, OthersStayBackedUp DEF BackedUp

LEMMA OpenerBackedUp ==
  ASSUME NEW o \in Openers, Control, Records, Counted, Marked, BackedUp,
         Open(o) \/ Scan(o) \/ WriteManifest(o) \/ ScanFails(o) \/ CloseCuts(o)
  PROVE  BackedUp'
<1>1. Leaves(o) /\ marker' = marker /\ o \in Threads /\ o # Renderer
      /\ o \in DOMAIN pc
  BY OpenerLeaves, RendererIsAThread DEF Control
<1>2. BackupsStay
  BY PlaceNames DEF Open, Scan, WriteManifest, ScanFails, CloseCuts,
     BackupsStay, Records
<1>3. pc'[o] \notin {"DROP_STAGE", "DROP_BACKUP", "UNMARK"}
  BY <1>1 DEF Open, Scan, WriteManifest, ScanFails, CloseCuts, EnterRecovery,
     ThreadGoto
<1>4. BackupMarked' /\ BackupKnown(o)'
  BY <1>1, <1>2, <1>3 DEF BackedUp, BackupMarked, BackupKnown, BackupsStay,
     ThreadAt
<1>5. QED
  BY <1>1, <1>2, <1>4, OthersStayBackedUp DEF BackedUp

LEMMA BackedUpIsInductive ==
  ASSUME Control, Records, Counted, Marked, BackedUp,
         [PromotionNext]_promotionVars
  PROVE  BackedUp'
<1>1. CASE UNCHANGED promotionVars
  BY <1>1 DEF promotionVars, threadVars, renderVars, BackedUp, BackupMarked,
     BackupKnown, BackupWritten, ThreadAt
<1>2. CASE EditFrame
  <2>1. /\ UNCHANGED <<marker, pc, seen, job, oldLocation>> /\ BackupsStay
        /\ \A s \in Threads : OldPlace(seen'[s]) = OldPlace(seen[s])
    BY <1>2, PlaceNames DEF EditFrame, threadVars, renderVars, BackupsStay,
       Records
  <2>2. \A s \in Threads : BackupKnown(s)'
    BY <2>1, RecoveryJournal DEF BackedUp, BackupKnown, BackupsStay, ThreadAt,
       Recovering, RecoveryLabels
  <2>3. BackupMarked' /\ BackupWritten'
    BY <2>1, JobIsNumbered DEF BackedUp, BackupMarked, BackupWritten, BackupsStay
  <2>4. QED
    BY <2>2, <2>3 DEF BackedUp
<1>3. CASE Crash
  BY <1>3, RendererIsAThread DEF Crash, BackedUp, BackupMarked, BackupKnown,
     BackupWritten, ThreadAt
<1>4. QED
  BY <1>1, <1>2, <1>3, RecoverBackedUp, RenderBackedUp, OpenerBackedUp
  DEF PromotionNext

---------------------------------------------------------------------------
(* What holds whatever is edited and misread.                              *)

LEMMA AlwaysAtFirst == PromotionInit => Always
<1> SUFFICES ASSUME PromotionInit PROVE Always
  OBVIOUS
<1> USE DEF PromotionInit
<1>1. \A t \in Threads : pc[t] = "IDLE"
  OBVIOUS
<1>2. Control
  BY <1>1, RendererIsAThread
  DEF Control, PromotesAlone, NameLock, KeyLock, LabelsOf, RecoveryLabels, Free,
      ExitLabels
<1>3. Records
  <2>1. bounds.edits \in Nat /\ bounds.scans \in Nat /\ bounds.reads \in Nat
        /\ bounds.crashes \in Nat /\ bounds.jobs \in Nat
    BY DEF BoundNames
  <2>2. QED
    BY <1>1, <2>1, NothingIsAView, RendererIsAThread DEF Records, ThreadAt
<1>4. Counted /\ BackedUp
  BY <1>1, PlaceNames, RendererIsAThread
  DEF Counted, BackedUp, BackupMarked, BackupKnown, BackupWritten, ThreadAt
<1>5. Marked
  BY <1>1, RendererIsAThread
  DEF Marked, MarkerKnown, MarkerWritten, Recovering, Returning, ThreadAt,
      RecoveryLabels, Journalled
<1>6. QED
  BY <1>2, <1>3, <1>4, <1>5 DEF Always

LEMMA AlwaysIsInductive ==
  Always /\ PromotesAlone' /\ [PromotionNext]_promotionVars => Always'
BY ControlIsInductive, RecordsAreInductive, MarkedIsInductive,
   BackedUpIsInductive
DEF Always

LEMMA AlwaysMarksBackups == Always => BackupsAreMarked
<1> SUFFICES ASSUME Always PROVE BackupsAreMarked
  OBVIOUS
<1> USE DEF Always
<1>1. lock \in [{KeyLock, NameLock} -> Threads \cup {Nil}]
      /\ half \in [Threads -> BOOLEAN]
  BY DEF Control
<1>2. job \in 0 .. MaxPromotions
  BY DEF Records, BoundNames
<1>3. ASSUME NEW t \in Threads, pc[t] \in RecoveryLabels \ {"MARKER", "UNMARK"}
      PROVE  seen[t].journal \in Journals
  BY <1>3, RecoveryJournal DEF Recovering
<1>4. PromotionTypeOK
  BY <1>1, <1>2, <1>3 DEF Records, PromotionTypeOK
<1>5. QED
  BY <1>4 DEF BackupsAreMarked, BackedUp, BackupMarked

\* Where the published directory is named by its key, promotion and the openers
\* take turns at one lock, so that nobody has it while a promotion runs.
LEMMA KeyNamesPromoteAlone == ~ReadableName => PromotesAlone
BY DEF PromotesAlone, NameLock, KeyLock, Renderer

\* As long as nobody has the lock of the key while a promotion runs, a backup is
\* never left without the marker that has the next recovery of promote_cut_set
\* or of an opener remove it or move it back: for any number of jobs and
\* openers, under either name, and whatever crashes, fails, is edited or cannot
\* be read.
THEOREM BackupsStayMarked ==
  PromotionSpec /\ []PromotesAlone => []BackupsAreMarked
<1>1. PromotionInit => Always
  BY AlwaysAtFirst
<1>2. Always /\ PromotesAlone' /\ [PromotionNext]_promotionVars => Always'
  BY AlwaysIsInductive
<1>3. Always => BackupsAreMarked
  BY AlwaysMarksBackups
<1>4. QED
  BY <1>1, <1>2, <1>3, PTL DEF PromotionSpec

---------------------------------------------------------------------------
(* The disk, where nothing edits or misreads a directory.  While a marker  *)
(* exists, the cuts it is about are in one of three phases.                *)

NewAt(p, j) == dir[p] # Nil /\ dir[p].whole /\ dir[p].set = j
OldAt(p) == /\ marker.previous # Nil /\ dir[p] # Nil /\ dir[p].whole
            /\ Hash(dir[p]) = marker.previous /\ dir[p].set < marker.job

\* The old cuts, if any, are at the target; they are in the backup; the new
\* ones are at the target.
OldInPlace == /\ dir[Backup(marker.job)] = Nil
              /\ \/ OldAt(Target)
                 \/ marker.previous = Nil /\ dir[Target] = Nil
OldAside == dir[Target] = Nil /\ OldAt(Backup(marker.job))
NewInPlace == NewAt(Target, marker.job)

\* The job of the renderer has not got to its swap.
Unpromoted ==
    \/ pc[Renderer] \in {"RECOVERED", "NOT_RECOVERED", "MAKE_STAGE", "STAGING",
                         "STAGED", "INSPECT", "WRITE_JOURNAL", "SWAP",
                         "OLD_MOVED", "MOVE_NEW"}
    \/ Returning({"RECOVERED", "INSPECT"})

Disk ==
    /\ dir[Target] # Nil => dir[Target].whole /\ dir[Target].set <= job
    /\ marker # Nil => marker.job <= job /\ (OldInPlace \/ OldAside \/ NewInPlace)
    /\ \A j \in 1 .. MaxPromotions : dir[Stage(j)] # Nil =>
          \/ dir[Stage(j)].set = j
          \/ ~dir[Stage(j)].whole
          \/ marker # Nil /\ marker.job = j /\ NewInPlace
    /\ Unpromoted /\ dir[Target] # Nil => dir[Target].set < job

Rendering ==
    /\ oldLocation # Target
    /\ pc[Renderer] \in {"STAGED", "INSPECT", "WRITE_JOURNAL", "SWAP",
                         "OLD_MOVED", "MOVE_NEW"} \/ Returning({"INSPECT"}) =>
          NewAt(Stage(job), job)
    /\ ThreadAt(Renderer, "WRITE_JOURNAL") =>
          journal.previous = IF dir[Target] = Nil THEN Nil ELSE Hash(dir[Target])
    /\ pc[Renderer] \in {"SWAP", "DROP_UNMARKED"} => (marker # Nil => OldInPlace)
    /\ pc[Renderer] \in {"OLD_MOVED", "MOVE_NEW"} => OldAside
    /\ pc[Renderer] \in {"NEW_ACTIVE", "VALIDATE", "REMOVE_OLD", "UNLINK"} =>
          NewInPlace
    /\ pc[Renderer] \in {"NEW_ACTIVE", "VALIDATE", "REMOVE_OLD"} =>
          oldLocation = Stage(job) \/ dir[Stage(job)] = Nil
    /\ ThreadAt(Renderer, "UNLINK") => dir[Stage(job)] = Nil
    /\ ThreadAt(Renderer, "RETURN") \/ Returning({"RETURN"}) =>
          NewAt(Target, job)

RecoversFrom(t) ==
    /\ pc[t] \in {"HASH_STAGE", "HASH_BACKUP", "CLEAR", "RESTORE"} =>
          seen[t].target = HashIfValid(dir[Target])
    /\ pc[t] \in {"HASH_BACKUP", "CLEAR", "RESTORE"} =>
          \/ NewInPlace
          \/ seen[t].stage = Nil \/ seen[t].stage # marker.previous
    /\ pc[t] \in {"CLEAR", "RESTORE"} =>
          seen[t].backup = HashIfValid(dir[Backup(marker.job)])
    /\ ThreadAt(t, "RESTORE") =>
          OldAside /\ OldPlace(seen[t]) = Backup(marker.job)
    /\ pc[t] \in {"DROP_STAGE", "DROP_BACKUP", "UNMARK"} =>
          OldInPlace \/ NewInPlace
    /\ ThreadAt(t, "DROP_STAGE") => OldPlace(seen[t]) # Stage(marker.job)
    /\ pc[t] \in {"DROP_BACKUP", "UNMARK"} => dir[Stage(marker.job)] = Nil

\* The cuts that are kept, read off the disk.
Current == IF dir[Target] # Nil THEN dir[Target].set
           ELSE IF marker # Nil /\ OldAside THEN dir[Backup(marker.job)].set
           ELSE 0

Calmly == Disk /\ Rendering /\ \A t \in Threads : RecoversFrom(t)

\* A step keeps the current cuts, or publishes those of the renderer's job.
Publishes == Current' = Current \/ (Current < Current' /\ Current' = job)

LEMMA CalmHashes ==
  ASSUME Calm, Records
  PROVE  /\ \A p \in Places : dir[p] # Nil =>
               /\ dir[p] \in Contents /\ dir[p].set \in 1 .. MaxPromotions
               /\ Hash(dir[p]) = <<dir[p].set, 0>> /\ Hash(dir[p]) # Nil
               /\ dir[p].whole => HashIfValid(dir[p]) = <<dir[p].set, 0>>
               /\ ~dir[p].whole => HashIfValid(dir[p]) = Nil
         /\ HashIfValid(Nil) = Nil
         /\ marker # Nil => CandidateHash(marker) = <<marker.job, 0>>
<1>1. bounds \in Bounds /\ 0 .. bounds.edits = {0} /\ 0 .. bounds.scans = {0}
  BY DEF Calm, Records
<1>2. ASSUME NEW p \in Places, dir[p] # Nil
      PROVE  /\ dir[p] \in Contents /\ dir[p].set \in 1 .. MaxPromotions
             /\ Hash(dir[p]) = <<dir[p].set, 0>> /\ Hash(dir[p]) # Nil
             /\ dir[p].frames = 0 /\ dir[p].recorded = 0
  <2>1. dir[p] \in Contents
    BY <1>2 DEF Records
  <2>2. Hash(dir[p]) # Nil
    BY <1>1, <1>2, <2>1, HashTyped
  <2>3. QED
    BY <1>1, <2>1, <2>2 DEF Contents, Hash
<1>3. QED
  BY <1>2 DEF HashIfValid, CandidateHash, Hash, NewSet

\* Where nothing is edited, scanned or misread, nothing of the kind happens.
LEMMA NothingIntrudes ==
  ASSUME Calm, Records, Counted
  PROVE  /\ ~EditFrame /\ spent.reads >= bounds.reads
         /\ \A o \in Openers : ~Scan(o) /\ ~WriteManifest(o) /\ ~ScanFails(o)
<1>1. spent.edits = 0 /\ spent.scans = 0 /\ spent.reads = 0
  BY DEF Calm, Records
<1>2. QED
  BY <1>1 DEF Calm, EditFrame, Scan, WriteManifest, ScanFails, Counted

\* The phases are about the target and the backup of the marker.
LEMMA SamePhase ==
  ASSUME marker' = marker, dir'[Target] = dir[Target],
         marker # Nil => dir'[Backup(marker.job)] = dir[Backup(marker.job)]
  PROVE  /\ marker # Nil => /\ OldInPlace' <=> OldInPlace
                            /\ OldAside' <=> OldAside
                            /\ NewInPlace' <=> NewInPlace
         /\ Current' = Current
BY DEF OldInPlace, OldAside, NewInPlace, OldAt, NewAt, Current, Target, Backup

\* They exclude each other.
LEMMA OnePhase ==
  ASSUME Records, Disk, marker # Nil
  PROVE  /\ ~(OldInPlace /\ OldAside) /\ ~(NewInPlace /\ OldAside)
         /\ ~(NewInPlace /\ OldInPlace)
         /\ OldInPlace \/ OldAside \/ NewInPlace
<1>1. marker.job \in 1 .. MaxPromotions
  BY JournalIsNotNil DEF Records
<1>2. dir[Target] # Nil => dir[Target].set \in 1 .. MaxPromotions
  BY PlaceNames DEF Records, Contents
<1>3. QED
  BY <1>1, <1>2 DEF Disk, OldInPlace, OldAside, NewInPlace, OldAt, NewAt

\* Where a recovery that has read the three hashes finds the old cuts.
LEMMA WhatIsRestored ==
  ASSUME Calm, Control, Records, Marked, Disk, NEW t \in Threads,
         RecoversFrom(t), pc[t] \in {"CLEAR", "RESTORE"}
  PROVE  /\ OldInPlace \/ NewInPlace => OldPlace(seen[t]) = Target
         /\ OldAside => OldPlace(seen[t]) = Backup(marker.job)
<1> DEFINE s == seen[t]
           m == marker
<1>1. /\ s.journal = m /\ m \in Journals /\ m # Nil
      /\ m.job \in 1 .. MaxPromotions /\ Backup(m.job) \in Places
      /\ Target \in Places
  BY RecoveryJournal, PlaceNames, JournalIsNotNil
  DEF Recovering, RecoveryLabels, Marked, MarkerKnown
<1>2. /\ s.target = HashIfValid(dir[Target])
      /\ s.backup = HashIfValid(dir[Backup(m.job)])
      /\ NewInPlace \/ s.stage = Nil \/ s.stage # m.previous
  BY DEF RecoversFrom
<1>3. CandidateHash(m) = <<m.job, 0>> /\ CandidateHash(m) # Nil
  <2>1. CandidateHash(m) = <<m.job, 0>>
    BY <1>1, CalmHashes
  <2>2. <<m.job, 0>> \in Nat \X Nat
    BY <1>1
  <2>3. QED
    BY <2>1, <2>2
<1>4. CASE NewInPlace
  <2>1. s.target = CandidateHash(m)
    BY <1>1, <1>2, <1>3, <1>4, CalmHashes DEF NewInPlace, NewAt
  <2>2. OldPlace(s) = Target
    BY <1>1, <2>1 DEF OldPlace
  <2>3. QED
    BY <1>1, <1>4, <2>2, OnePhase
<1>5. CASE OldInPlace
  <2>1. s.backup = Nil
    BY <1>2, <1>5, CalmHashes DEF OldInPlace
  <2>2. m.previous # Nil => s.stage # m.previous
    BY <1>1, <1>2, <1>5, OnePhase
  <2>3. OldPlace(s) = Target
    BY <1>1, <2>1, <2>2 DEF OldPlace
  <2>4. QED
    BY <1>1, <1>5, <2>3, OnePhase
<1>6. CASE OldAside
  <2>1. s.target = Nil
    BY <1>2, <1>6, CalmHashes DEF OldAside
  <2>2. /\ m.previous # Nil /\ s.backup = m.previous
    BY <1>1, <1>2, <1>6, CalmHashes DEF OldAside, OldAt
  <2>3. s.stage # m.previous
    BY <1>1, <1>2, <1>6, <2>2, OnePhase
  <2>4. OldPlace(s) = Backup(m.job)
    BY <1>1, <1>3, <2>1, <2>2, <2>3 DEF OldPlace
  <2>5. QED
    BY <1>1, <1>6, <2>4, OnePhase
<1>7. QED
  BY <1>1, <1>4, <1>5, <1>6, OnePhase

\* A stage never holds what its marker is to replace.
LEMMA StageIsNotOld ==
  ASSUME Calm, Records, Disk, marker # Nil, ~NewInPlace
  PROVE  \/ HashIfValid(dir[Stage(marker.job)]) = Nil
         \/ HashIfValid(dir[Stage(marker.job)]) # marker.previous
<1> DEFINE m == marker
           h == HashIfValid(dir[Stage(m.job)])
<1>1. /\ m \in Journals /\ m.job \in 1 .. MaxPromotions /\ Stage(m.job) \in Places
      /\ Backup(m.job) \in Places /\ Target \in Places
  BY JournalIsNotNil, PlaceNames DEF Records
<1>2. CASE dir[Stage(m.job)] = Nil \/ ~dir[Stage(m.job)].whole
  BY <1>1, <1>2, CalmHashes
<1>3. CASE dir[Stage(m.job)] # Nil /\ dir[Stage(m.job)].whole
  <2>1. h = <<m.job, 0>>
    BY <1>1, <1>3, CalmHashes DEF Disk
  <2>2. h # Nil
    BY <1>1, <1>3, CalmHashes DEF Disk
  <2>3. ASSUME NEW p \in Places, OldAt(p) PROVE h # m.previous
    <3>1. m.previous = <<dir[p].set, 0>> /\ dir[p].set < m.job
          /\ dir[p].set \in 1 .. MaxPromotions
      BY <2>3, CalmHashes DEF OldAt
    <3>2. dir[p].set # m.job
      BY <1>1, <3>1
    <3>3. QED
      BY <2>1, <3>1, <3>2
  <2>4. CASE m.previous = Nil
    BY <2>2, <2>4
  <2>5. QED
    BY <1>1, <2>3, <2>4, OnePhase DEF OldInPlace, OldAside
<1>4. QED
  BY <1>2, <1>3

\* The renderer outside the lock, while another thread is in it.
LEMMA FreeRenderer ==
  ASSUME Control, Marked, NEW t \in Threads, t # Renderer, pc[t] \notin Free,
         Leaves(t)
  PROVE  /\ pc[Renderer] \in Free /\ pc'[Renderer] = pc[Renderer]
         /\ pc[Renderer] \notin RecoveryLabels
         /\ job' = job /\ oldLocation' = oldLocation
         /\ ~Returning({"INSPECT"})' /\ ~Returning({"RETURN"})'
         /\ Unpromoted' <=> Unpromoted
<1>1. pc[Renderer] \in Free /\ pc'[Renderer] = pc[Renderer]
      /\ job' = job /\ oldLocation' = oldLocation
  BY Exclusive, RendererIsAThread DEF Leaves, renderVars
<1>2. pc[Renderer] \notin RecoveryLabels
  BY <1>1 DEF Free, RecoveryLabels
<1>3. QED
  BY <1>1, <1>2 DEF Returning, Unpromoted

\* What a recovery of one thread leaves to the others and to the renderer.
LEMMA RecoverRendering ==
  ASSUME Control, Records, Marked, Rendering, NEW t \in Threads, Recover(t)
  PROVE  /\ Rendering' /\ (Unpromoted' => Unpromoted)
         /\ \A s \in Threads : s # t => RecoversFrom(s)'
         /\ job' = job
<1>1. /\ Leaves(t) /\ ret' = ret /\ UNCHANGED renderVars
      /\ pc[t] \in RecoveryLabels /\ ret[t] \in Exits(t)
  BY RecoverLeaves DEF Control
<1>2. pc[t] \notin Free
  BY <1>1 DEF Free, RecoveryLabels
<1>3. \A s \in Threads : s # t => RecoversFrom(s)'
  <2>1. \A s \in Threads : s # t => pc'[s] \in Free
    BY <1>1, <1>2, Exclusive DEF Leaves
  <2>2. QED
    BY <2>1 DEF RecoversFrom, ThreadAt, Free
<1>4. marker = Nil => dir' = dir /\ pc[t] = "MARKER"
  <2>1. marker = Nil => pc[t] = "MARKER"
    BY <1>1 DEF Marked, MarkerKnown, Recovering
  <2>2. QED
    BY <2>1 DEF Recover, ReadMarker, ReadHash, ClearTarget, RestoreBackup,
       DropStage, DropBackup, Unmark, RecoveryFails, ThreadAt
<1>5. CASE t # Renderer
  <2>1. /\ pc[Renderer] \in Free /\ pc'[Renderer] = pc[Renderer]
        /\ ~Returning({"INSPECT"})' /\ ~Returning({"RETURN"})'
        /\ (Unpromoted' <=> Unpromoted) /\ oldLocation' = oldLocation
    BY <1>1, <1>2, <1>5, FreeRenderer
  <2>2. pc[Renderer] = "STAGED" => NewAt(Stage(job), job)'
    BY <1>1, <1>4 DEF Marked, MarkerWritten, Rendering, NewAt, renderVars, Stage
  <2>3. QED
    BY <1>1, <1>3, <2>1, <2>2 DEF Rendering, ThreadAt, Free, renderVars
<1>6. CASE t = Renderer
  <2>1. \/ pc'[t] \in RecoveryLabels \ {"MARKER"}
        \/ pc'[t] = ret[t].ok
        \/ pc'[t] = ret[t].fail
    BY <1>1 DEF Recover, ReadMarker, ReadHash, ClearTarget, RestoreBackup,
       DropStage, DropBackup, Unmark, RecoveryFails, Removes, Skips,
       ThreadGoto, ThreadAt, Control, RecoveryLabels
  <2>2. ~Returning({"INSPECT", "RETURN"})'
    <3>1. Returning({"INSPECT", "RETURN"})' => pc'[t] = "MARKER"
      BY <1>6, RecoverMarked DEF Marked, MarkerWritten, ThreadAt
    <3>2. ret[t].ok # "MARKER" /\ ret[t].fail # "MARKER"
      BY <1>1 DEF Exits
    <3>3. QED
      BY <2>1, <3>1, <3>2
  <2>3. Returning({"INSPECT", "RETURN"}) => dir' = dir
    BY <1>4 DEF Marked, MarkerWritten
  <2>4. CASE pc'[t] \in RecoveryLabels \ {"MARKER"}
    BY <1>1, <1>3, <1>6, <2>2, <2>4
    DEF Rendering, Unpromoted, Returning, ThreadAt, RecoveryLabels, renderVars
  <2>5. CASE ret[t].ok = "RECOVERED" \/ ret[t].ok = "UNLOCK"
    <3>1. pc'[t] \in (RecoveryLabels \ {"MARKER"})
                      \cup {"RECOVERED", "NOT_RECOVERED", "UNLOCK"}
          /\ (pc'[t] \in {"RECOVERED", "NOT_RECOVERED"} => ret[t].ok = "RECOVERED")
      BY <1>1, <1>6, <2>1, <2>5 DEF Exits, RecoveryLabels
    <3>2. QED
      BY <1>1, <1>3, <1>6, <2>2, <2>5, <3>1
      DEF Rendering, Unpromoted, Returning, ThreadAt, RecoveryLabels, renderVars
  <2>6. CASE ret[t].ok = "INSPECT"
    <3>1. Returning({"INSPECT"}) /\ dir' = dir
      BY <1>1, <1>6, <2>3, <2>6 DEF Returning
    <3>2. pc'[t] \in (RecoveryLabels \ {"MARKER"}) \cup {"INSPECT", "UNLOCK"}
      BY <1>1, <1>6, <2>1, <2>6 DEF Exits
    <3>3. QED
      BY <1>1, <1>3, <1>6, <2>2, <3>1, <3>2
      DEF Rendering, Unpromoted, Returning, ThreadAt, RecoveryLabels,
          renderVars, NewAt, Stage
  <2>7. CASE ret[t].ok = "RETURN"
    <3>1. Returning({"RETURN"}) /\ dir' = dir
      BY <1>1, <1>6, <2>3, <2>7 DEF Returning
    <3>2. pc'[t] \in (RecoveryLabels \ {"MARKER"}) \cup {"RETURN"}
      BY <1>1, <1>6, <2>1, <2>7 DEF Exits
    <3>3. QED
      BY <1>1, <1>3, <1>6, <2>2, <3>1, <3>2
      DEF Rendering, Unpromoted, Returning, ThreadAt, RecoveryLabels,
          renderVars, NewAt, Target
  <2>8. QED
    BY <1>1, <1>6, <2>5, <2>6, <2>7 DEF Exits
<1>7. QED
  BY <1>1, <1>3, <1>5, <1>6 DEF renderVars

\* A step that leaves the marker, the target and the backup, and changes or
\* removes a stage at most.
LEMMA StagesChange ==
  ASSUME Records, Disk, marker' = marker, dir'[Target] = dir[Target],
         marker # Nil => dir'[Backup(marker.job)] = dir[Backup(marker.job)],
         \A j \in 1 .. MaxPromotions : dir'[Stage(j)] # Nil =>
             \/ dir'[Stage(j)] = dir[Stage(j)]
             \/ dir'[Stage(j)].set = j \/ ~dir'[Stage(j)].whole,
         job' \in Nat, job <= job',
         Unpromoted' => Unpromoted \/ job < job'
  PROVE  Disk' /\ Current' = Current
<1>1. /\ marker # Nil => /\ OldInPlace' <=> OldInPlace
                         /\ OldAside' <=> OldAside
                         /\ NewInPlace' <=> NewInPlace
      /\ Current' = Current
  BY SamePhase
<1>2. job \in Nat /\ (marker # Nil => marker.job \in Nat)
      /\ (dir[Target] # Nil => dir[Target].set \in Nat)
  BY JournalIsNotNil, PlaceNames DEF Records, BoundNames, Contents
<1>3. dir[Target] # Nil => /\ dir[Target].whole /\ dir[Target].set <= job
                           /\ dir[Target].set <= job'
                           /\ Unpromoted' => dir[Target].set < job'
  <2>1. dir[Target] # Nil => dir[Target].whole /\ dir[Target].set <= job
                             /\ (Unpromoted => dir[Target].set < job)
    BY DEF Disk
  <2>2. QED
    BY <1>2, <2>1
<1>4. marker # Nil => marker.job <= job' /\ (OldInPlace \/ OldAside \/ NewInPlace)
  <2>1. marker # Nil => marker.job <= job /\ (OldInPlace \/ OldAside \/ NewInPlace)
    BY DEF Disk
  <2>2. QED
    BY <1>2, <2>1
<1>5. \A j \in 1 .. MaxPromotions : dir'[Stage(j)] # Nil =>
          \/ dir'[Stage(j)].set = j
          \/ ~dir'[Stage(j)].whole
          \/ marker' # Nil /\ marker'.job = j /\ NewInPlace'
  BY <1>1 DEF Disk
<1>6. QED
  BY <1>1, <1>3, <1>4, <1>5 DEF Disk

LEMMA RecoverIsCalm ==
  ASSUME Calm, Control, Records, Counted, Marked, BackedUp, Calmly,
         NEW t \in Threads, Recover(t), bounds' = bounds
  PROVE  Calmly' /\ Current' = Current
<1> USE DEF ThreadAt, ThreadGoto
<1>1. /\ Rendering' /\ (Unpromoted' => Unpromoted) /\ job' = job
      /\ \A s \in Threads : s # t => RecoversFrom(s)'
      /\ Disk /\ RecoversFrom(t)
  BY RecoverRendering DEF Calmly
<1>2. /\ t \in DOMAIN pc /\ t \in DOMAIN seen /\ ret[t] \in Exits(t)
      /\ dir \in [Places -> Contents \cup {Nil}]
      /\ job \in Nat /\ seen[t] \in Views
  BY RecoverLeaves DEF Control, Records, BoundNames
<1>3. SUFFICES Disk' /\ RecoversFrom(t)' /\ Current' = Current
  BY <1>1 DEF Calmly
<1>4. Recovering(t) => /\ seen[t].journal = marker /\ marker # Nil
                       /\ marker \in Journals
                       /\ marker.job \in 1 .. MaxPromotions
                       /\ Stage(marker.job) \in Places
                       /\ Backup(marker.job) \in Places
  BY RecoveryJournal, PlaceNames DEF Marked, MarkerKnown
<1>5. dir' = dir /\ marker' = marker => Disk' /\ Current' = Current
  BY <1>1, <1>2, StagesChange
<1>6. CASE ReadMarker(t) \/ RecoveryFails(t)
  <2>1. /\ dir' = dir /\ marker' = marker
        /\ pc'[t] \in {ret[t].ok, ret[t].fail, "HASH_TARGET"}
    BY <1>2, <1>6 DEF ReadMarker, RecoveryFails
  <2>2. RecoversFrom(t)'
    BY <1>2, <2>1 DEF RecoversFrom, Exits
  <2>3. QED
    BY <1>5, <2>1, <2>2
<1>7. ASSUME NEW k, NEW f, NEW p, NEW l, ReadHash(t, k, f, p, l)
      PROVE  /\ dir' = dir /\ marker' = marker /\ pc[t] = k /\ pc'[t] = l
             /\ seen' = [seen EXCEPT ![t][f] = HashIfValid(dir[p])]
  BY <1>2, <1>7, NothingIntrudes DEF ReadHash, Records, Calm
<1>8. ASSUME dir' = dir, marker' = marker, marker # Nil
      PROVE  NewInPlace' <=> NewInPlace
  BY <1>8, SamePhase
<1>9. CASE ReadHash(t, "HASH_TARGET", "target", Target, "HASH_STAGE")
  <2>1. /\ dir' = dir /\ marker' = marker /\ pc'[t] = "HASH_STAGE"
        /\ seen'[t].target = HashIfValid(dir[Target])
    BY <1>2, <1>7, <1>9 DEF Views
  <2>2. HashIfValid(dir'[Target]) = HashIfValid(dir[Target])
    BY <2>1
  <2>3. QED
    BY <1>5, <2>1, <2>2 DEF RecoversFrom
<1>10. CASE ReadHash(t, "HASH_STAGE", "stage", Stage(seen[t].journal.job),
                     "HASH_BACKUP")
  <2>1. /\ dir' = dir /\ marker' = marker /\ pc[t] = "HASH_STAGE"
        /\ pc'[t] = "HASH_BACKUP" /\ seen'[t].target = seen[t].target
        /\ seen'[t].stage = HashIfValid(dir[Stage(seen[t].journal.job)])
    BY <1>2, <1>7, <1>10 DEF Views
  <2>2. HashIfValid(dir'[Target]) = HashIfValid(dir[Target])
        /\ seen[t].target = HashIfValid(dir[Target])
    BY <1>1, <2>1 DEF RecoversFrom
  <2>3. Recovering(t)
    BY <2>1 DEF Recovering, RecoveryLabels
  <2>4. NewInPlace' \/ seen'[t].stage = Nil \/ seen'[t].stage # marker'.previous
    BY <1>1, <1>4, <1>8, <2>1, <2>3, StageIsNotOld
  <2>5. QED
    BY <1>5, <2>1, <2>2, <2>4 DEF RecoversFrom
<1>11. CASE ReadHash(t, "HASH_BACKUP", "backup", Backup(seen[t].journal.job),
                     "CLEAR")
  <2>1. /\ dir' = dir /\ marker' = marker /\ pc[t] = "HASH_BACKUP"
        /\ pc'[t] = "CLEAR" /\ seen'[t].target = seen[t].target
        /\ seen'[t].stage = seen[t].stage
        /\ seen'[t].backup = HashIfValid(dir[Backup(seen[t].journal.job)])
    BY <1>2, <1>7, <1>11 DEF Views
  <2>2. Recovering(t)
    BY <2>1 DEF Recovering, RecoveryLabels
  <2>3. /\ seen'[t].target = HashIfValid(dir'[Target])
        /\ seen'[t].backup = HashIfValid(dir'[Backup(marker'.job)])
        /\ NewInPlace' \/ seen'[t].stage = Nil \/ seen'[t].stage # marker'.previous
    BY <1>1, <1>4, <1>8, <2>1, <2>2 DEF RecoversFrom
  <2>4. QED
    BY <1>5, <2>1, <2>3 DEF RecoversFrom
<1>12. CASE ClearTarget(t)
  <2>1. /\ pc[t] = "CLEAR" /\ marker' = marker /\ seen' = seen
        /\ Recovering(t)
    BY <1>12 DEF ClearTarget, Recovering, RecoveryLabels
  <2>2. /\ OldInPlace \/ NewInPlace => OldPlace(seen[t]) = Target
        /\ OldAside => OldPlace(seen[t]) = Backup(marker.job)
    BY <1>1, <2>1, WhatIsRestored
  <2>3. CASE OldPlace(seen[t]) # Target
    <3>1. OldAside /\ dir[Target] = Nil
      BY <1>1, <1>4, <2>1, <2>2, <2>3, OnePhase DEF OldAside
    <3>2. dir' = dir /\ pc'[t] = "RESTORE"
      BY <1>2, <1>12, <2>3, <3>1 DEF ClearTarget, Removes, Skips
    <3>3. OldAside' /\ OldPlace(seen'[t]) = Backup(marker'.job)
      BY <1>4, <2>1, <2>2, <3>1, <3>2, SamePhase
    <3>4. /\ seen'[t].target = HashIfValid(dir'[Target])
          /\ seen'[t].backup = HashIfValid(dir'[Backup(marker'.job)])
          /\ NewInPlace' \/ seen'[t].stage = Nil \/ seen'[t].stage # marker'.previous
      BY <1>1, <1>4, <1>8, <2>1, <3>2 DEF RecoversFrom
    <3>5. QED
      BY <1>5, <2>1, <3>2, <3>3, <3>4 DEF RecoversFrom
  <2>4. CASE OldPlace(seen[t]) = Target
    <3>1. dir' = dir /\ pc'[t] = "DROP_STAGE"
      BY <1>2, <1>12, <2>4 DEF ClearTarget, Skips
    <3>2. OldInPlace \/ NewInPlace
      BY <1>1, <1>4, <2>1, <2>2, <2>4, OnePhase, PlaceNames
    <3>3. (OldInPlace \/ NewInPlace)' /\ OldPlace(seen'[t]) # Stage(marker'.job)
      BY <1>4, <2>1, <2>4, <3>1, <3>2, SamePhase, PlaceNames
    <3>4. QED
      BY <1>5, <2>1, <3>1, <3>3 DEF RecoversFrom
  <2>5. QED
    BY <2>3, <2>4
<1>13. CASE RestoreBackup(t)
  <2> DEFINE b == Backup(marker.job)
  <2>1. /\ pc[t] = "RESTORE" /\ pc'[t] = "DROP_STAGE" /\ marker' = marker
        /\ seen' = seen /\ Recovering(t) /\ Move(OldPlace(seen[t]), Target)
    BY <1>2, <1>13 DEF RestoreBackup, Recovering, RecoveryLabels
  <2>2. OldAside /\ OldPlace(seen[t]) = b
    BY <1>1, <2>1 DEF RecoversFrom
  <2>3. /\ dir'[Target] = dir[b] /\ dir'[b] = Nil
        /\ \A q \in Places : q # Target /\ q # b => dir'[q] = dir[q]
    BY <1>2, <1>4, <2>1, <2>2, PlaceNames DEF Move
  <2>4. OldInPlace'
    BY <2>1, <2>2, <2>3 DEF OldInPlace, OldAside, OldAt
  <2>5. Current' = Current
    BY <1>4, <2>1, <2>2, <2>3 DEF OldAside, OldAt, Current
  <2>6. /\ dir'[Target].whole /\ dir'[Target].set < marker.job
        /\ dir'[Target].set \in Nat /\ marker.job <= job
    BY <1>1, <1>2, <1>4, <2>1, <2>2, <2>3, CalmHashes DEF OldAside, OldAt, Disk
  <2>7. dir'[Target].set < job /\ dir'[Target].set <= job
    BY <1>2, <1>4, <2>1, <2>6
  <2>8. \A j \in 1 .. MaxPromotions : dir'[Stage(j)] # Nil =>
            dir'[Stage(j)].set = j \/ ~dir'[Stage(j)].whole
    BY <1>1, <1>4, <2>1, <2>2, <2>3, OnePhase, PlaceNames DEF Disk
  <2>9. Disk'
    BY <1>1, <2>1, <2>4, <2>6, <2>7, <2>8 DEF Disk
  <2>10. RecoversFrom(t)'
    BY <2>1, <2>2, <2>4, PlaceNames DEF RecoversFrom
  <2>11. QED
    BY <2>5, <2>9, <2>10
<1>14. CASE DropStage(t)
  <2> DEFINE p == Stage(marker.job)
  <2>1. /\ pc[t] = "DROP_STAGE" /\ marker' = marker /\ seen' = seen
        /\ Recovering(t) /\ OldPlace(seen[t]) # p
        /\ OldInPlace \/ NewInPlace
    BY <1>1, <1>14 DEF DropStage, Recovering, RecoveryLabels, RecoversFrom
  <2>2. CASE Removes(t, p, "DROP_BACKUP")
    <3>1. /\ \A q \in Places : q # p => dir'[q] = dir[q]
          /\ \/ pc' = pc /\ ~dir'[p].whole
             \/ pc'[t] = "DROP_BACKUP" /\ dir'[p] = Nil
      <4>1. dir[p] \in Contents
        BY <1>2, <1>4, <2>1, <2>2 DEF Removes
      <4>2. ~HalfRemoved(dir[p]).whole
        BY <4>1, HalfRemovedTyped DEF Records
      <4>3. QED
        BY <1>4, <2>1, <2>2, <4>2, RemovesKeepsOthers
    <3>2. Disk' /\ Current' = Current
      BY <1>1, <1>2, <1>4, <2>1, <3>1, StagesChange, PlaceNames
    <3>3. (OldInPlace \/ NewInPlace)'
      BY <1>4, <2>1, <3>1, SamePhase, PlaceNames
    <3>4. RecoversFrom(t)'
      BY <2>1, <3>1, <3>3 DEF RecoversFrom
    <3>5. QED
      BY <3>2, <3>4
  <2>3. CASE dir[p] = Nil /\ dir' = dir /\ pc'[t] = "DROP_BACKUP"
    <3>1. (OldInPlace \/ NewInPlace)'
      BY <1>4, <2>1, <2>3, SamePhase
    <3>2. RecoversFrom(t)'
      BY <2>1, <2>3, <3>1 DEF RecoversFrom
    <3>3. QED
      BY <1>5, <2>1, <2>3, <3>2
  <2>4. QED
    BY <1>2, <1>4, <1>14, <2>1, <2>2, <2>3 DEF DropStage, Skips
<1>15. CASE DropBackup(t)
  <2> DEFINE p == Backup(marker.job)
  <2>1. /\ pc[t] = "DROP_BACKUP" /\ marker' = marker /\ seen' = seen
        /\ Recovering(t) /\ dir[Stage(marker.job)] = Nil
        /\ OldInPlace \/ NewInPlace
    BY <1>1, <1>15 DEF DropBackup, Recovering, RecoveryLabels, RecoversFrom
  <2>2. CASE Removes(t, p, "UNMARK")
    <3>1. /\ \A q \in Places : q # p => dir'[q] = dir[q]
          /\ dir[p] # Nil
          /\ pc' = pc \/ pc'[t] = "UNMARK"
      BY <1>4, <2>1, <2>2, RemovesKeepsOthers
    <3>2. NewInPlace /\ NewInPlace'
      BY <2>1, <3>1, PlaceNames DEF OldInPlace, NewInPlace, NewAt
    <3>3. Current' = Current
      BY <3>1, <3>2, PlaceNames DEF Current, NewInPlace, NewAt
    <3>4. Disk'
      BY <1>1, <1>4, <2>1, <3>1, <3>2, PlaceNames DEF Disk
    <3>5. RecoversFrom(t)'
      <4>1. pc'[t] \in {"DROP_BACKUP", "UNMARK"} /\ dir'[Stage(marker'.job)] = Nil
        BY <1>4, <2>1, <3>1, PlaceNames
      <4>2. QED
        BY <3>2, <4>1 DEF RecoversFrom
    <3>6. QED
      BY <3>3, <3>4, <3>5
  <2>3. CASE dir' = dir /\ pc'[t] = "UNMARK"
    <3>1. (OldInPlace \/ NewInPlace)'
      BY <1>4, <2>1, <2>3, SamePhase
    <3>2. RecoversFrom(t)'
      BY <2>1, <2>3, <3>1 DEF RecoversFrom
    <3>3. QED
      BY <1>5, <2>1, <2>3, <3>2
  <2>4. QED
    BY <1>2, <1>4, <1>15, <2>1, <2>2, <2>3 DEF DropBackup, Skips
<1>16. CASE Unmark(t)
  <2>1. /\ pc[t] = "UNMARK" /\ marker' = Nil /\ dir' = dir
        /\ pc'[t] = ret[t].ok /\ Recovering(t)
        /\ OldInPlace \/ NewInPlace
        /\ dir[Stage(marker.job)] = Nil
    BY <1>1, <1>2, <1>16 DEF Unmark, Recovering, RecoveryLabels, RecoversFrom
  <2>2. Current' = Current
    BY <1>1, <1>4, <2>1, OnePhase DEF Current
  <2>3. Disk'
    BY <1>1, <1>2, <1>4, <2>1 DEF Disk
  <2>4. RecoversFrom(t)'
    BY <1>2, <2>1 DEF RecoversFrom, Exits
  <2>5. QED
    BY <2>2, <2>3, <2>4
<1>17. QED
  BY <1>6, <1>9, <1>10, <1>11, <1>12, <1>13, <1>14, <1>15, <1>16 DEF Recover

\* What a step of the renderer leaves to the recoveries of the openers.
LEMMA OpenersStayCalm ==
  ASSUME Control, Records, Marked, Calmly, Leaves(Renderer),
         \/ pc[Renderer] \notin Free
         \/ /\ marker' = marker /\ dir'[Target] = dir[Target] /\ BackupsStay
            /\ marker # Nil => (dir[Stage(marker.job)] = Nil
                                   => dir'[Stage(marker.job)] = Nil),
         pc'[Renderer] \notin RecoveryLabels \ {"MARKER"}
  PROVE  \A s \in Threads : RecoversFrom(s)'
<1>1. RecoversFrom(Renderer)'
  BY DEF RecoversFrom, ThreadAt, RecoveryLabels
<1>2. ASSUME NEW s \in Threads, s # Renderer PROVE RecoversFrom(s)'
  <2>1. pc'[s] = pc[s] /\ seen'[s] = seen[s]
    BY <1>2 DEF Leaves
  <2>2. CASE pc[Renderer] \notin Free
    <3>1. pc[s] \in Free
      BY <1>2, <2>2, Exclusive, RendererIsAThread
    <3>2. QED
      BY <2>1, <3>1 DEF RecoversFrom, ThreadAt, Free
  <2>3. CASE ~Recovering(s)
    BY <2>1, <2>3 DEF RecoversFrom, ThreadAt, Recovering, RecoveryLabels
  <2>4. CASE pc[Renderer] \in Free /\ Recovering(s)
    <3>1. /\ marker # Nil /\ marker.job \in 1 .. MaxPromotions
          /\ marker' = marker /\ dir'[Target] = dir[Target]
          /\ dir'[Backup(marker.job)] = dir[Backup(marker.job)]
          /\ dir[Stage(marker.job)] = Nil => dir'[Stage(marker.job)] = Nil
      BY <2>4, RecoveryJournal DEF Marked, MarkerKnown, BackupsStay
    <3>2. /\ OldInPlace' <=> OldInPlace
          /\ OldAside' <=> OldAside
          /\ NewInPlace' <=> NewInPlace
      BY <3>1, SamePhase
    <3>3. /\ HashIfValid(dir'[Target]) = HashIfValid(dir[Target])
          /\ HashIfValid(dir'[Backup(marker'.job)])
                = HashIfValid(dir[Backup(marker.job)])
          /\ OldPlace(seen'[s]) = OldPlace(seen[s])
          /\ Backup(marker'.job) = Backup(marker.job)
          /\ Stage(marker'.job) = Stage(marker.job)
      BY <2>1, <3>1
    <3>4. RecoversFrom(s)
      BY DEF Calmly
    <3>5. QED
      BY <2>1, <3>1, <3>2, <3>3, <3>4 DEF RecoversFrom, ThreadAt
  <2>5. QED
    BY <2>2, <2>3, <2>4
<1>3. QED
  BY <1>1, <1>2

\* Before it has the marker: staging, and the recoveries around it.
LEMMA StagingIsCalm ==
  ASSUME Calm, Control, Records, Counted, Marked, BackedUp, Calmly,
         \/ CreateStaging \/ LeaveRecovery \/ MakeStage \/ StageCuts
         \/ StagingFails \/ PromoteCuts \/ Inspect \/ Unlock \/ DiscardStage
         \/ DropUnmarked \/ PromotionFails,
         bounds' = bounds
  PROVE  Calmly' /\ Current' = Current
<1> DEFINE r == Renderer
<1> USE DEF ThreadAt, ThreadGoto
<1>1. /\ Leaves(r) /\ seen' = seen /\ r \in DOMAIN pc /\ r \in DOMAIN ret
      /\ dir \in [Places -> Contents \cup {Nil}] /\ bounds \in Bounds
      /\ job \in Nat /\ Disk /\ Rendering
  BY RenderLeaves, RendererIsAThread DEF Render, Control, Records, BoundNames,
     Calmly
<1>2. pc[r] # "IDLE" => /\ job \in 1 .. MaxPromotions
                        /\ Stage(job) \in Places /\ Backup(job) \in Places
  BY JobIsNumbered
<1>3. marker # Nil => marker.job \in 1 .. MaxPromotions
  BY JournalIsNotNil DEF Records
<1>4. CASE CreateStaging
  <2>1. /\ pc[r] = "IDLE" /\ pc'[r] = "MARKER" /\ ret'[r].ok = "RECOVERED"
        /\ job' = job + 1 /\ UNCHANGED <<dir, marker, oldLocation>>
    BY <1>1, <1>4 DEF CreateStaging, EnterRecovery
  <2>2. Disk' /\ Current' = Current
    BY <1>1, <2>1, StagesChange
  <2>3. Rendering'
    BY <1>1, <2>1 DEF Rendering, Returning
  <2>4. \A s \in Threads : RecoversFrom(s)'
    BY <1>1, <2>1, OpenersStayCalm DEF BackupsStay
  <2>5. QED
    BY <2>2, <2>3, <2>4 DEF Calmly
<1>5. ASSUME UNCHANGED <<dir, marker, job>>,
             Unpromoted' => Unpromoted,
             pc'[r] \notin RecoveryLabels \ {"MARKER"}, Rendering'
      PROVE  Calmly' /\ Current' = Current
  <2>1. Disk' /\ Current' = Current
    BY <1>1, <1>5, StagesChange
  <2>2. \A s \in Threads : RecoversFrom(s)'
    BY <1>1, <1>5, OpenersStayCalm DEF BackupsStay
  <2>3. QED
    BY <1>5, <2>1, <2>2 DEF Calmly
<1>6. CASE LeaveRecovery
  <2>1. /\ \/ pc[r] = "RECOVERED" /\ pc'[r] = "MAKE_STAGE"
           \/ pc[r] = "NOT_RECOVERED" /\ pc'[r] = "IDLE"
        /\ UNCHANGED <<dir, marker, job, oldLocation>>
    BY <1>1, <1>6 DEF LeaveRecovery, renderVars
  <2>2. Rendering' /\ (Unpromoted' => Unpromoted)
    BY <1>1, <2>1 DEF Rendering, Unpromoted, Returning, RecoveryLabels
  <2>3. QED
    BY <1>5, <2>1, <2>2 DEF RecoveryLabels
<1>7. CASE StagingFails \/ Unlock \/ PromotionFails
  <2>1. /\ \/ pc'[r] = "DISCARD"
           \/ pc'[r] = "MARKER" /\ ret'[r].ok = "UNLOCK"
        /\ UNCHANGED <<dir, marker, job, oldLocation>>
    BY <1>1, <1>7 DEF StagingFails, Unlock, PromotionFails, renderVars
  <2>2. Rendering' /\ ~Unpromoted'
    BY <1>1, <2>1 DEF Rendering, Unpromoted, Returning, RecoveryLabels
  <2>3. QED
    BY <1>5, <2>1, <2>2 DEF RecoveryLabels
<1>8. CASE PromoteCuts
  <2>1. /\ pc[r] = "STAGED" /\ pc'[r] = "MARKER" /\ ret'[r].ok = "INSPECT"
        /\ UNCHANGED <<dir, marker, job, oldLocation>>
    BY <1>1, <1>8 DEF PromoteCuts, EnterRecovery, renderVars
  <2>2. Rendering' /\ (Unpromoted' => Unpromoted)
    BY <1>1, <2>1 DEF Rendering, Unpromoted, Returning, NewAt, Stage
  <2>3. QED
    BY <1>5, <2>1, <2>2 DEF RecoveryLabels
<1>9. CASE Inspect
  <2>1. /\ pc[r] = "INSPECT" /\ pc'[r] = "WRITE_JOURNAL"
        /\ UNCHANGED <<dir, marker, job>> /\ oldLocation' = Nil
        /\ journal'.previous = IF dir[Target] = Nil THEN Nil ELSE Hash(dir[Target])
    BY <1>1, <1>9 DEF Inspect
  <2>2. Nil # Target
    BY PlaceIsNotNil, PlaceNames
  <2>3. Rendering' /\ (Unpromoted' => Unpromoted)
    BY <1>1, <2>1, <2>2
    DEF Rendering, Unpromoted, Returning, NewAt, Stage, RecoveryLabels
  <2>4. QED
    BY <1>5, <2>1, <2>3 DEF RecoveryLabels
<1>10. ASSUME UNCHANGED <<marker, job, oldLocation>>, Rendering',
              Unpromoted' => Unpromoted, pc[r] # "IDLE",
              pc'[r] \notin RecoveryLabels \ {"MARKER"},
              \A q \in Places : q # Stage(job) => dir'[q] = dir[q],
              dir'[Stage(job)] # Nil =>
                  dir'[Stage(job)].set = job \/ ~dir'[Stage(job)].whole,
              dir[Stage(job)] # Nil \/ marker = Nil
       PROVE  Calmly' /\ Current' = Current
  <2>1. /\ dir'[Target] = dir[Target] /\ BackupsStay
        /\ marker # Nil => dir'[Backup(marker.job)] = dir[Backup(marker.job)]
    BY <1>2, <1>3, <1>10, PlaceNames DEF BackupsStay
  <2>2. \A j \in 1 .. MaxPromotions : dir'[Stage(j)] # Nil =>
            \/ dir'[Stage(j)] = dir[Stage(j)]
            \/ dir'[Stage(j)].set = j \/ ~dir'[Stage(j)].whole
    BY <1>2, <1>10, PlaceNames
  <2>3. Disk' /\ Current' = Current
    BY <1>1, <1>10, <2>1, <2>2, StagesChange
  <2>4. marker # Nil => (dir[Stage(marker.job)] = Nil
                            => dir'[Stage(marker.job)] = Nil)
    BY <1>2, <1>3, <1>10, PlaceNames
  <2>5. \A s \in Threads : RecoversFrom(s)'
    BY <1>1, <1>10, <2>1, <2>4, OpenersStayCalm
  <2>6. QED
    BY <1>10, <2>3, <2>5 DEF Calmly
<1>11. CASE MakeStage \/ StageCuts
  <2>1. /\ marker = Nil /\ UNCHANGED <<marker, job, oldLocation>>
        /\ \/ pc[r] = "MAKE_STAGE" /\ pc'[r] \in {"STAGING", "IDLE"}
           \/ pc[r] = "STAGING" /\ pc'[r] = "STAGED"
    BY <1>1, <1>11 DEF MakeStage, StageCuts, renderVars, Marked, MarkerWritten
  <2>2. /\ \A q \in Places : q # Stage(job) => dir'[q] = dir[q]
        /\ \/ dir' = dir
           \/ dir'[Stage(job)] # Nil /\ dir'[Stage(job)].set = job
        /\ pc[r] = "STAGING" => NewAt(Stage(job), job)'
    <3>1. CASE MakeStage
      BY <1>1, <1>2, <2>1, <3>1, NewSetTyped DEF MakeStage
    <3>2. CASE StageCuts
      BY <1>1, <1>2, <2>1, <3>2, NewSetTyped DEF StageCuts, NewAt, Stage
    <3>3. QED
      BY <1>11, <3>1, <3>2
  <2>3. Rendering' /\ (Unpromoted' => Unpromoted)
    BY <1>1, <2>1, <2>2 DEF Rendering, Unpromoted, Returning, RecoveryLabels
  <2>4. dir'[Stage(job)] # Nil =>
            dir'[Stage(job)].set = job \/ ~dir'[Stage(job)].whole
    BY <1>1, <1>2, <2>1, <2>2 DEF Disk
  <2>5. QED
    BY <1>10, <2>1, <2>2, <2>3, <2>4 DEF RecoveryLabels
<1>12. CASE DropUnmarked \/ DiscardStage
  <2>1. /\ UNCHANGED <<marker, job, oldLocation>>
        /\ pc[r] \in {"DROP_UNMARKED", "DISCARD"}
        /\ \/ pc'[r] = pc[r]
           \/ pc'[r] = "MARKER" /\ ret'[r].ok = "UNLOCK"
           \/ pc'[r] = "IDLE"
    BY <1>1, <1>12 DEF DropUnmarked, DiscardStage, Removes, renderVars
  <2>2. \/ dir' = dir
        \/ /\ \A q \in Places : q # Stage(job) => dir'[q] = dir[q]
           /\ dir[Stage(job)] # Nil
           /\ dir'[Stage(job)] # Nil => ~dir'[Stage(job)].whole
    <3>1. ASSUME NEW l, Removes(r, Stage(job), l)
          PROVE  /\ \A q \in Places : q # Stage(job) => dir'[q] = dir[q]
                 /\ dir[Stage(job)] # Nil
                 /\ dir'[Stage(job)] # Nil => ~dir'[Stage(job)].whole
      <4>1. dir[Stage(job)] \in Contents /\ dir[Stage(job)] # Nil
        BY <1>1, <1>2, <2>1, <3>1 DEF Removes
      <4>2. ~HalfRemoved(dir[Stage(job)]).whole
        BY <1>1, <4>1, HalfRemovedTyped
      <4>3. QED
        BY <1>1, <1>2, <2>1, <3>1, <4>1, <4>2 DEF Removes
    <3>2. QED
      BY <1>12, <3>1 DEF DropUnmarked, DiscardStage
  <2>3. marker # Nil => (OldInPlace' <=> OldInPlace)
    BY <1>2, <1>3, <2>1, <2>2, SamePhase, PlaceNames
  <2>4. Rendering' /\ ~Unpromoted'
    BY <1>1, <2>1, <2>3 DEF Rendering, Unpromoted, Returning, RecoveryLabels
  <2>5. CASE dir' = dir
    BY <1>5, <2>1, <2>4, <2>5 DEF RecoveryLabels
  <2>6. CASE dir' # dir
    BY <1>10, <2>1, <2>2, <2>4, <2>6 DEF RecoveryLabels
  <2>7. QED
    BY <2>5, <2>6
<1>13. QED
  BY <1>4, <1>6, <1>7, <1>8, <1>9, <1>11, <1>12

\* With the marker, under the lock: the swap and what follows it.
LEMMA PromotingIsCalm ==
  ASSUME Calm, Control, Records, Counted, Marked, BackedUp, Calmly,
         \/ WriteJournal("WRITE_JOURNAL", "SWAP")
         \/ WriteJournal("OLD_MOVED", "MOVE_NEW")
         \/ WriteJournal("NEW_ACTIVE", "VALIDATE")
         \/ JournalFails \/ Exchanges \/ MovesOld \/ MovesNew
         \/ ValidatePromoted \/ RemoveOld \/ Unlink \/ PromotionReturns,
         bounds' = bounds
  PROVE  Calmly' /\ Publishes /\ job' = job
<1> DEFINE r == Renderer
<1> USE DEF ThreadAt, ThreadGoto
<1>1. /\ Leaves(r) /\ seen' = seen /\ r \in DOMAIN pc /\ r \in DOMAIN ret
      /\ dir \in [Places -> Contents \cup {Nil}] /\ bounds \in Bounds
      /\ job \in Nat /\ Disk /\ Rendering
  BY RenderLeaves, RendererIsAThread DEF Render, Control, Records, BoundNames,
     Calmly
<1>2. pc[r] \notin Free /\ pc[r] # "IDLE" /\ pc[r] \notin RecoveryLabels
  BY DEF WriteJournal, JournalFails, Exchanges, MovesOld, MovesNew,
     ValidatePromoted, RemoveOld, Unlink, PromotionReturns, Free, RecoveryLabels
<1>3. /\ job \in 1 .. MaxPromotions
      /\ Stage(job) \in Places /\ Backup(job) \in Places /\ Target \in Places
      /\ Stage(job) # Target /\ Backup(job) # Target /\ Stage(job) # Backup(job)
  BY <1>2, JobIsNumbered, PlaceNames
<1>4. pc'[r] \notin RecoveryLabels \ {"MARKER"} /\ job' = job
  <2>1. CASE RemoveOld
    BY <1>1, <1>2, <2>1 DEF RemoveOld, Removes, RecoveryLabels, renderVars
  <2>2. CASE Unlink
    BY <1>1, <2>2 DEF Unlink, EnterRecovery, RecoveryLabels, renderVars
  <2>3. CASE \/ WriteJournal("WRITE_JOURNAL", "SWAP")
             \/ WriteJournal("OLD_MOVED", "MOVE_NEW")
             \/ WriteJournal("NEW_ACTIVE", "VALIDATE")
             \/ JournalFails
    BY <1>1, <2>3 DEF WriteJournal, JournalFails, RecoveryLabels, renderVars
  <2>4. CASE Exchanges \/ MovesOld \/ MovesNew \/ ValidatePromoted
             \/ PromotionReturns
    BY <1>1, <2>4 DEF Exchanges, MovesOld, MovesNew, ValidatePromoted,
       PromotionReturns, RecoveryLabels, renderVars
  <2>5. QED
    BY <2>1, <2>2, <2>3, <2>4
<1>5. \A s \in Threads : RecoversFrom(s)'
  BY <1>1, <1>2, <1>4, OpenersStayCalm
<1>6. SUFFICES Disk' /\ Rendering' /\ Publishes
  BY <1>4, <1>5 DEF Calmly
<1>7. pc[r] \in Journalled => marker = journal /\ marker # Nil /\ marker.job = job
  BY DEF Marked, MarkerWritten
<1>same. Current' = Current => Publishes
  BY DEF Publishes
<1>8. ASSUME UNCHANGED <<dir, marker>>, Unpromoted' => Unpromoted
      PROVE  Disk' /\ Publishes
  BY <1>1, <1>4, <1>8, <1>same, StagesChange
<1>9. CASE WriteJournal("WRITE_JOURNAL", "SWAP") \/ JournalFails
  <2>1. /\ pc[r] = "WRITE_JOURNAL" /\ marker = Nil /\ marker' \in {Nil, journal}
        /\ pc'[r] \in {"SWAP", "DROP_UNMARKED"}
        /\ UNCHANGED <<dir, job, journal, oldLocation>>
        /\ journal # Nil /\ journal.job = job
    BY <1>1, <1>9 DEF WriteJournal, JournalFails, renderVars, Marked,
       MarkerWritten
  <2>2. /\ journal.previous = IF dir[Target] = Nil THEN Nil ELSE Hash(dir[Target])
        /\ NewAt(Stage(job), job)
        /\ dir[Target] # Nil => dir[Target].whole /\ dir[Target].set < job
    BY <1>1, <2>1 DEF Rendering, Disk, Unpromoted
  <2>3. dir[Backup(job)] = Nil
    BY <1>3, <2>1 DEF BackedUp, BackupMarked
  <2>4. dir[Target] # Nil => Hash(dir[Target]) # Nil
    BY <1>3, CalmHashes
  <2>5. marker' = journal => OldInPlace'
    BY <2>1, <2>2, <2>3, <2>4 DEF OldInPlace, OldAt
  <2>6. Disk'
    <3>1. marker' # Nil => marker'.job = job /\ OldInPlace'
      BY <2>1, <2>5
    <3>2. \A j \in 1 .. MaxPromotions : dir[Stage(j)] # Nil =>
              dir[Stage(j)].set = j \/ ~dir[Stage(j)].whole
      BY <1>1, <2>1 DEF Disk
    <3>3. QED
      BY <1>1, <2>1, <2>2, <3>1, <3>2 DEF Disk
  <2>7. Current' = Current
    BY <2>1, <2>2, <2>3 DEF Current, OldAside, OldAt
  <2>8. Rendering'
    <3>1. NewAt(Stage(job), job)' /\ oldLocation' # Target
      BY <1>1, <2>1, <2>2 DEF NewAt, Stage, Rendering
    <3>2. QED
      BY <2>1, <2>5, <3>1 DEF Rendering, Returning, RecoveryLabels
  <2>9. QED
    BY <1>same, <2>6, <2>7, <2>8
<1>10. CASE WriteJournal("OLD_MOVED", "MOVE_NEW")
            \/ WriteJournal("NEW_ACTIVE", "VALIDATE") \/ ValidatePromoted
  <2>1. /\ \/ pc[r] = "OLD_MOVED" /\ pc'[r] = "MOVE_NEW"
           \/ pc[r] = "NEW_ACTIVE" /\ pc'[r] = "VALIDATE"
           \/ pc[r] = "VALIDATE" /\ pc'[r] = "REMOVE_OLD"
        /\ UNCHANGED <<dir, job, oldLocation>>
        /\ marker' \in {marker, journal}
    BY <1>1, <1>10 DEF WriteJournal, ValidatePromoted, renderVars
  <2>2. marker' = marker /\ marker # Nil
    BY <1>7, <2>1 DEF Journalled
  <2>3. /\ OldAside' <=> OldAside
        /\ NewInPlace' <=> NewInPlace
    BY <2>1, <2>2, SamePhase
  <2>4. Rendering' /\ (Unpromoted' => Unpromoted)
    BY <1>1, <2>1, <2>2, <2>3
    DEF Rendering, Unpromoted, Returning, RecoveryLabels, NewAt, Stage
  <2>5. QED
    BY <1>8, <2>1, <2>2, <2>4
<1>11. CASE Exchanges
  <2>1. /\ pc[r] = "SWAP" /\ pc'[r] = "NEW_ACTIVE" /\ marker' = marker
        /\ oldLocation' = Stage(job) /\ dir[Target] # Nil
        /\ dir'[Target] = dir[Stage(job)] /\ dir'[Stage(job)] = dir[Target]
        /\ \A q \in Places : q # Target /\ q # Stage(job) => dir'[q] = dir[q]
    BY <1>1, <1>3, <1>11 DEF Exchanges
  <2>2. marker # Nil /\ marker.job = job /\ NewAt(Stage(job), job)
        /\ dir[Target].set < job
    BY <1>1, <1>7, <2>1 DEF Journalled, Rendering, Disk, Unpromoted
  <2>3. NewInPlace' /\ dir'[Target].whole /\ dir'[Target].set = job
    BY <1>4, <2>1, <2>2 DEF NewInPlace, NewAt
  <2>4. Publishes
    BY <1>4, <2>1, <2>2, <2>3 DEF Publishes, Current, NewInPlace, NewAt
  <2>5. Rendering' /\ ~Unpromoted'
    BY <1>3, <1>4, <2>1, <2>3
    DEF Rendering, Unpromoted, Returning, RecoveryLabels
  <2>6. \A j \in 1 .. MaxPromotions : dir'[Stage(j)] # Nil =>
            \/ dir'[Stage(j)].set = j \/ ~dir'[Stage(j)].whole
            \/ j = job
    <3>1. ~NewInPlace
      BY <1>3, <2>2 DEF NewInPlace, NewAt
    <3>2. QED
      BY <1>1, <1>3, <2>1, <2>2, <3>1, PlaceNames DEF Disk
  <2>7. Disk'
    BY <1>1, <1>4, <2>1, <2>2, <2>3, <2>5, <2>6 DEF Disk
  <2>8. QED
    BY <2>4, <2>5, <2>7
<1>12. CASE MovesOld
  <2>1. /\ pc[r] = "SWAP" /\ pc'[r] = "OLD_MOVED" /\ marker' = marker
        /\ oldLocation' = Backup(job) /\ dir[Target] # Nil
        /\ dir'[Target] = Nil /\ dir'[Backup(job)] = dir[Target]
        /\ \A q \in Places : q # Target /\ q # Backup(job) => dir'[q] = dir[q]
    BY <1>1, <1>3, <1>12 DEF MovesOld, Move
  <2>2. marker # Nil /\ marker.job = job /\ NewAt(Stage(job), job) /\ OldInPlace
    BY <1>1, <1>7, <2>1 DEF Journalled, Rendering
  <2>3. OldAside'
    BY <2>1, <2>2 DEF OldAside, OldInPlace, OldAt
  <2>4. Current' = Current
    BY <2>1, <2>2, <2>3 DEF Current
  <2>5. NewAt(Stage(job), job)'
    BY <1>3, <1>4, <2>1, <2>2 DEF NewAt, Stage
  <2>6. Rendering'
    BY <1>3, <2>1, <2>3, <2>5 DEF Rendering, Returning, RecoveryLabels
  <2>7. \A j \in 1 .. MaxPromotions : dir'[Stage(j)] # Nil =>
            dir'[Stage(j)].set = j \/ ~dir'[Stage(j)].whole
    <3>1. ~NewInPlace
      BY <2>2, OnePhase, <1>1
    <3>2. QED
      BY <1>1, <2>1, <3>1, PlaceNames DEF Disk
  <2>8. Disk'
    BY <1>1, <1>4, <2>1, <2>2, <2>3, <2>7 DEF Disk
  <2>9. QED
    BY <1>same, <2>4, <2>6, <2>8
<1>13. CASE MovesNew
  <2>1. /\ pc'[r] = "NEW_ACTIVE" /\ marker' = marker /\ oldLocation' = oldLocation
        /\ \/ pc[r] = "MOVE_NEW"
           \/ pc[r] = "SWAP" /\ journal.previous = Nil
        /\ dir[Target] = Nil
        /\ dir'[Target] = dir[Stage(job)] /\ dir'[Stage(job)] = Nil
        /\ \A q \in Places : q # Target /\ q # Stage(job) => dir'[q] = dir[q]
    <3>1. /\ Move(Stage(job), Target) /\ pc'[r] = "NEW_ACTIVE"
          /\ UNCHANGED <<marker, oldLocation>>
          /\ \/ pc[r] = "MOVE_NEW"
             \/ pc[r] = "SWAP" /\ journal.previous = Nil
      BY <1>1, <1>13 DEF MovesNew, renderVars
    <3>2. /\ dir[Target] = Nil
          /\ dir'[Target] = dir[Stage(job)] /\ dir'[Stage(job)] = Nil
          /\ \A q \in Places : q # Target /\ q # Stage(job) => dir'[q] = dir[q]
      BY <1>1, <1>3, <3>1 DEF Move
    <3>3. QED
      BY <3>1, <3>2
  <2>2. /\ marker # Nil /\ marker.job = job /\ marker = journal
        /\ NewAt(Stage(job), job)
        /\ pc[r] = "MOVE_NEW" => OldAside
    BY <1>1, <1>7, <2>1 DEF Journalled, Rendering
  <2>3. NewInPlace' /\ dir'[Target].whole /\ dir'[Target].set = job
    BY <1>4, <2>1, <2>2 DEF NewInPlace, NewAt
  <2>4. Current < job /\ Current' = job
    <3>1. OldAside => dir[Backup(marker.job)].set < job
      BY <2>2 DEF OldAside, OldAt
    <3>2. 0 < job
      BY <1>3
    <3>3. QED
      BY <2>1, <2>2, <2>3, <3>1, <3>2 DEF Current, NewInPlace, NewAt
  <2>5. Rendering' /\ ~Unpromoted'
    BY <1>1, <1>4, <2>1, <2>3
    DEF Rendering, Unpromoted, Returning, RecoveryLabels
  <2>6. \A j \in 1 .. MaxPromotions : dir'[Stage(j)] # Nil =>
            dir'[Stage(j)].set = j \/ ~dir'[Stage(j)].whole
    <3>1. ~NewInPlace
      BY <2>1 DEF NewInPlace, NewAt
    <3>2. QED
      BY <1>1, <1>3, <2>1, <3>1, PlaceNames DEF Disk
  <2>7. Disk'
    BY <1>1, <1>4, <2>1, <2>2, <2>3, <2>5, <2>6 DEF Disk
  <2>8. QED
    BY <2>4, <2>5, <2>7 DEF Publishes
<1>14. CASE RemoveOld
  <2>1. /\ pc[r] = "REMOVE_OLD" /\ marker' = marker /\ oldLocation' = oldLocation
        /\ marker # Nil /\ marker.job = job /\ NewInPlace
        /\ oldLocation = Stage(job) \/ dir[Stage(job)] = Nil
        /\ oldLocation # Target
    BY <1>1, <1>7, <1>14 DEF RemoveOld, Journalled, Rendering, renderVars
  <2>2. ASSUME NEW p \in Places, p = oldLocation, Removes(r, p, "UNLINK")
        PROVE  /\ \A q \in Places : q # p => dir'[q] = dir[q]
               /\ dir'[p] # Nil => ~dir'[p].whole
               /\ \/ pc' = pc
                  \/ pc'[r] = "UNLINK" /\ dir'[p] = Nil
    <3>1. dir[p] \in Contents
      BY <1>1, <2>2 DEF Removes
    <3>2. ~HalfRemoved(dir[p]).whole
      BY <1>1, <3>1, HalfRemovedTyped
    <3>3. QED
      BY <1>1, <2>2, <3>2 DEF Removes
  <2>3. /\ \A q \in Places : q # oldLocation => dir'[q] = dir[q]
        /\ \/ dir' = dir
           \/ oldLocation \in Places
              /\ (dir'[oldLocation] # Nil => ~dir'[oldLocation].whole)
        /\ \/ pc'[r] = "REMOVE_OLD"
           \/ pc'[r] = "UNLINK" /\ dir'[Stage(job)] = Nil
    <3>1. CASE oldLocation # Nil /\ Removes(r, oldLocation, "UNLINK")
      <4>1. oldLocation \in Places
        BY <3>1 DEF Records
      <4>2. QED
        BY <1>3, <2>1, <2>2, <3>1, <4>1
    <3>2. CASE (oldLocation # Nil => dir[oldLocation] = Nil) /\ dir' = dir
               /\ pc'[r] = "UNLINK"
      BY <1>3, <2>1, <3>2, PlaceIsNotNil
    <3>3. QED
      BY <1>1, <1>14, <3>1, <3>2 DEF RemoveOld
  <2>4. NewInPlace' /\ dir'[Target] = dir[Target]
    BY <1>3, <2>1, <2>3 DEF NewInPlace, NewAt
  <2>5. Current' = Current
    BY <2>1, <2>4 DEF Current, NewInPlace, NewAt
  <2>6. Rendering' /\ ~Unpromoted'
    <3>1. oldLocation = Stage(job) \/ dir'[Stage(job)] = Nil
      BY <1>3, <2>1, <2>3
    <3>2. QED
      BY <1>4, <2>1, <2>3, <2>4, <3>1
      DEF Rendering, Unpromoted, Returning, RecoveryLabels
  <2>7. \A j \in 1 .. MaxPromotions : dir'[Stage(j)] # Nil =>
            \/ dir'[Stage(j)].set = j \/ ~dir'[Stage(j)].whole
            \/ j = job
    BY <1>1, <2>1, <2>3, PlaceNames DEF Disk
  <2>8. Disk'
    BY <1>1, <1>4, <2>1, <2>4, <2>6, <2>7 DEF Disk
  <2>9. QED
    BY <1>same, <2>5, <2>6, <2>8
<1>15. CASE Unlink
  <2>1. /\ pc[r] = "UNLINK" /\ pc'[r] = "MARKER" /\ marker' = Nil /\ dir' = dir
        /\ oldLocation' = oldLocation
        /\ ret'[r].ok \in {"RETURN", "UNLOCK"}
    BY <1>1, <1>15 DEF Unlink, EnterRecovery, renderVars
  <2>2. /\ marker.job = job /\ NewInPlace /\ dir[Stage(job)] = Nil
        /\ oldLocation # Target
    BY <1>1, <1>7, <2>1 DEF Journalled, Rendering
  <2>3. NewAt(Target, job)' /\ Current' = Current
    BY <1>4, <2>1, <2>2 DEF NewInPlace, NewAt, Current, Target
  <2>4. Rendering' /\ ~Unpromoted'
    BY <1>4, <2>1, <2>2, <2>3
    DEF Rendering, Unpromoted, Returning, RecoveryLabels
  <2>5. Disk'
    BY <1>1, <1>4, <2>1, <2>2, <2>4 DEF Disk
  <2>6. QED
    BY <1>same, <2>3, <2>4, <2>5
<1>16. CASE PromotionReturns
  <2>1. pc'[r] = "IDLE" /\ UNCHANGED <<dir, marker, oldLocation>>
    BY <1>1, <1>16 DEF PromotionReturns
  <2>2. Rendering' /\ ~Unpromoted'
    BY <1>1, <2>1 DEF Rendering, Unpromoted, Returning, RecoveryLabels
  <2>3. QED
    BY <1>8, <2>1, <2>2
<1>17. QED
  BY <1>9, <1>10, <1>11, <1>12, <1>13, <1>14, <1>15, <1>16

\* The outside of a step: openers that come and go, and crashes.
LEMMA OutsideIsCalm ==
  ASSUME Calm, Control, Records, Counted, Marked, BackedUp, Calmly,
         bounds' = bounds,
         Crash \/ \E o \in Openers : Open(o) \/ CloseCuts(o)
  PROVE  Calmly' /\ Current' = Current /\ UNCHANGED <<job, delivered>>
<1>1. Disk /\ Rendering /\ job \in Nat
  BY DEF Calmly, Records, BoundNames
<1>2. CASE Crash
  <2>1. /\ UNCHANGED <<dir, marker, job, delivered>> /\ oldLocation' = Nil
        /\ \A t \in Threads : pc'[t] = "IDLE"
    BY <1>2 DEF Crash
  <2>2. pc'[Renderer] = "IDLE" /\ Nil # Target
    BY <2>1, RendererIsAThread, PlaceIsNotNil, PlaceNames
  <2>3. Rendering' /\ ~Unpromoted'
    BY <2>1, <2>2 DEF Rendering, Unpromoted, Returning, ThreadAt, RecoveryLabels
  <2>4. \A t \in Threads : RecoversFrom(t)'
    BY <2>1 DEF RecoversFrom, ThreadAt
  <2>5. Disk' /\ Current' = Current
    BY <1>1, <2>1, <2>3, StagesChange
  <2>6. QED
    BY <2>1, <2>3, <2>4, <2>5 DEF Calmly
<1>3. ASSUME NEW o \in Openers, Open(o) \/ CloseCuts(o)
      PROVE  Calmly' /\ Current' = Current /\ UNCHANGED <<job, delivered>>
  <2>1. /\ Leaves(o) /\ o \in Threads /\ o # Renderer
        /\ UNCHANGED <<dir, marker, job, oldLocation, delivered, journal>>
        /\ o \in DOMAIN pc
    BY <1>3, OpenerLeaves, RendererIsAThread
    DEF Open, CloseCuts, renderVars, Control
  <2>2. pc'[o] \in {"MARKER", "IDLE", "HOLDS"}
    BY <1>3, <2>1 DEF Open, CloseCuts, EnterRecovery, ThreadGoto
  <2>3. /\ pc'[Renderer] = pc[Renderer] /\ ret'[Renderer] = ret[Renderer]
    BY <2>1, RendererIsAThread DEF Leaves
  <2>4. Rendering' /\ (Unpromoted' => Unpromoted)
    <3>1. /\ NewAt(Stage(job), job)' <=> NewAt(Stage(job), job)
          /\ NewAt(Target, job)' <=> NewAt(Target, job)
          /\ OldInPlace' <=> OldInPlace
          /\ OldAside' <=> OldAside
          /\ NewInPlace' <=> NewInPlace
      BY <2>1 DEF NewAt, OldInPlace, OldAside, NewInPlace, OldAt, Stage,
         Target, Backup
    <3>2. QED
      BY <1>1, <2>1, <2>3, <3>1 DEF Rendering, Unpromoted, Returning, ThreadAt
  <2>5. Disk' /\ Current' = Current
    BY <1>1, <2>1, <2>4, StagesChange
  <2>6. ASSUME NEW s \in Threads PROVE RecoversFrom(s)'
    <3>1. CASE s = o
      BY <2>2, <3>1 DEF RecoversFrom, ThreadAt
    <3>2. CASE s # o
      <4>1. /\ pc'[s] = pc[s] /\ seen'[s] = seen[s] /\ RecoversFrom(s)
        BY <2>1, <3>2 DEF Leaves, Calmly
      <4>2. /\ OldInPlace' <=> OldInPlace
            /\ OldAside' <=> OldAside
            /\ NewInPlace' <=> NewInPlace
        BY <2>1 DEF NewAt, OldInPlace, OldAside, NewInPlace, OldAt,
           Target, Backup
      <4>3. /\ HashIfValid(dir'[Target]) = HashIfValid(dir[Target])
            /\ HashIfValid(dir'[Backup(marker'.job)])
                  = HashIfValid(dir[Backup(marker.job)])
            /\ OldPlace(seen'[s]) = OldPlace(seen[s])
            /\ dir'[Stage(marker'.job)] = dir[Stage(marker.job)]
            /\ Backup(marker'.job) = Backup(marker.job)
            /\ Stage(marker'.job) = Stage(marker.job)
        BY <2>1, <4>1
      <4>4. QED
        BY <2>1, <4>1, <4>2, <4>3 DEF RecoversFrom, ThreadAt
    <3>3. QED
      BY <3>1, <3>2
  <2>7. QED
    BY <2>1, <2>4, <2>5, <2>6 DEF Calmly
<1>4. QED
  BY <1>2, <1>3

LEMMA CurrentTyped == Records => Current \in 0 .. MaxPromotions
<1> SUFFICES ASSUME Records PROVE Current \in 0 .. MaxPromotions
  OBVIOUS
<1>1. \A p \in Places : dir[p] # Nil => dir[p].set \in 1 .. MaxPromotions
  BY DEF Records, Contents
<1>2. marker # Nil => Backup(marker.job) \in Places
  BY JournalIsNotNil, PlaceNames DEF Records
<1>3. QED
  BY <1>1, <1>2, PlaceNames DEF Current, OldAside, OldAt

CalmInv == Calm => Calmly /\ delivered <= Current
IInv == Always /\ CalmInv

\* What a step does to the current cuts, where nothing is edited or misread.
LEMMA CalmStep ==
  ASSUME Always, Calm, Calmly, delivered <= Current,
         [PromotionNext]_promotionVars
  PROVE  Calmly' /\ Publishes /\ delivered' <= Current'
         /\ Current' \in 0 .. MaxPromotions
<1> USE DEF Always
<1>1. /\ Current \in 0 .. MaxPromotions /\ delivered \in Nat
      /\ job \in 0 .. MaxPromotions
  BY CurrentTyped DEF Records, BoundNames
<1>9. SUFFICES Calmly' /\ Publishes /\ delivered' <= Current'
  BY <1>1 DEF Publishes
<1>2. ASSUME Calmly', Current' = Current, delivered' = delivered
      PROVE  Calmly' /\ Publishes /\ delivered' <= Current'
  BY <1>2 DEF Publishes
<1>3. CASE UNCHANGED promotionVars
  <2>1. UNCHANGED <<dir, marker, pc, ret, seen, job, journal, oldLocation,
                    delivered>>
    BY <1>3 DEF promotionVars, threadVars, renderVars
  <2>2. /\ OldInPlace' <=> OldInPlace
        /\ OldAside' <=> OldAside
        /\ NewInPlace' <=> NewInPlace
        /\ Unpromoted' <=> Unpromoted
        /\ Current' = Current
    BY <2>1 DEF OldInPlace, OldAside, NewInPlace, OldAt, NewAt, Unpromoted,
       Returning, Current
  <2>3. Disk' /\ Rendering'
    BY <2>1, <2>2 DEF Calmly, Disk, Rendering, Returning, NewAt, ThreadAt
  <2>4. \A t \in Threads : RecoversFrom(t)'
    BY <2>1, <2>2 DEF Calmly, RecoversFrom, ThreadAt
  <2>5. QED
    BY <1>2, <2>1, <2>2, <2>3, <2>4 DEF Calmly
<1>4. ASSUME NEW t \in Threads, Recover(t), bounds' = bounds
      PROVE  Calmly' /\ Publishes /\ delivered' <= Current'
  BY <1>2, <1>4, RecoverIsCalm, RecoverLeaves DEF renderVars
<1>5. CASE bounds' = bounds /\
           \/ CreateStaging \/ LeaveRecovery \/ MakeStage \/ StageCuts
           \/ StagingFails \/ PromoteCuts \/ Inspect \/ Unlock \/ DiscardStage
           \/ DropUnmarked \/ PromotionFails
  <2>1. delivered' = delivered
    BY <1>5 DEF CreateStaging, LeaveRecovery, MakeStage, StageCuts,
       StagingFails, PromoteCuts, Inspect, Unlock, DiscardStage,
       DropUnmarked, PromotionFails, renderVars
  <2>2. Calmly' /\ Current' = Current
    BY <1>5, StagingIsCalm
  <2>3. QED
    BY <1>2, <2>1, <2>2
<1>6. CASE bounds' = bounds /\
           \/ WriteJournal("WRITE_JOURNAL", "SWAP")
           \/ WriteJournal("OLD_MOVED", "MOVE_NEW")
           \/ WriteJournal("NEW_ACTIVE", "VALIDATE")
           \/ JournalFails \/ Exchanges \/ MovesOld \/ MovesNew
           \/ ValidatePromoted \/ RemoveOld \/ Unlink \/ PromotionReturns
  <2>1. Calmly' /\ Publishes
    BY <1>6, PromotingIsCalm
  <2>2. Current <= Current' /\ Current' \in Nat
    BY <1>1, <2>1 DEF Publishes
  <2>3. CASE delivered' = delivered
    BY <1>1, <2>1, <2>2, <2>3
  <2>4. CASE PromotionReturns
    <3>1. NewAt(Target, job)
      BY <2>4 DEF PromotionReturns, Calmly, Rendering
    <3>2. Current = job /\ delivered' = job /\ job \in Nat
      BY <2>4, <3>1 DEF PromotionReturns, Current, NewAt, Records, BoundNames
    <3>3. QED
      BY <1>1, <2>1, <2>2, <3>2
  <2>5. QED
    BY <1>6, <2>3, <2>4 DEF WriteJournal, JournalFails, Exchanges, MovesOld,
       MovesNew, ValidatePromoted, RemoveOld, Unlink, renderVars
<1>7. CASE bounds' = bounds /\
           (Crash \/ \E o \in Openers : Open(o) \/ CloseCuts(o))
  <2>1. Calmly' /\ Current' = Current /\ UNCHANGED <<job, delivered>>
    BY <1>7, OutsideIsCalm
  <2>2. QED
    BY <1>2, <2>1
<1>8. QED
  BY <1>3, <1>4, <1>5, <1>6, <1>7, NothingIntrudes DEF PromotionNext, Render

LEMMA CalmAtFirst == Always /\ PromotionInit => CalmInv /\ (Calm => Kept = 0)
<1> SUFFICES ASSUME Always, PromotionInit
             PROVE  CalmInv /\ (Calm => Kept = 0)
  OBVIOUS
<1> USE DEF PromotionInit
<1>1. /\ \A t \in Threads : pc[t] = "IDLE"
      /\ pc[Renderer] = "IDLE" /\ Nil # Target
      /\ \A p \in Places : dir[p] = Nil
      /\ dir[Target] = Nil /\ \A j \in 1 .. MaxPromotions : dir[Stage(j)] = Nil
  BY RendererIsAThread, PlaceIsNotNil, PlaceNames
<1>2. Disk /\ Rendering
  BY <1>1 DEF Disk, Rendering, Unpromoted, Returning, ThreadAt, RecoveryLabels
<1>3. \A t \in Threads : RecoversFrom(t)
  BY <1>1 DEF RecoversFrom, ThreadAt
<1>4. Current = 0 /\ delivered <= Current
  BY <1>1 DEF Current
<1>5. Kept = 0
  BY <1>1 DEF Kept, Published
<1>6. QED
  BY <1>2, <1>3, <1>4, <1>5 DEF CalmInv, Calmly

LEMMA IInvIsInductive ==
  IInv /\ PromotesAlone' /\ [PromotionNext]_promotionVars => IInv'
<1> SUFFICES ASSUME IInv, PromotesAlone', [PromotionNext]_promotionVars PROVE IInv'
  OBVIOUS
<1>1. Always'
  BY AlwaysIsInductive DEF IInv
<1>2. bounds' = bounds
  BY DEF PromotionNext, promotionVars
<1>3. Calm' => Calm
  BY <1>2 DEF Calm
<1>4. QED
  BY <1>1, <1>3, CalmStep DEF IInv, CalmInv

\* Kept looks for a whole set wherever one may be published; it finds the one
\* that the target, or the backup of the marker, holds.
LEMMA KeptIsCurrent == Always /\ Calm /\ Calmly => Kept = Current
<1> SUFFICES ASSUME Always, Calm, Calmly PROVE Kept = Current
  OBVIOUS
<1> USE DEF Always
<1>1. Disk /\ BackupMarked
  BY DEF Calmly, BackedUp
<1>2. Target \in Places /\ \A j : Stage(j) # Target /\ Backup(j) # Target
  BY PlaceNames
<1>3. CASE dir[Target] # Nil
  <2>1. Published(Target)
    BY <1>1, <1>2, <1>3 DEF Published, Disk
  <2>2. QED
    BY <1>3, <2>1 DEF Kept, Current
<1>4. CASE dir[Target] = Nil
  <2>1. ~Published(Target) /\ ~NewInPlace
    BY <1>4 DEF Published, NewInPlace, NewAt
  <2>2. \A j \in 1 .. MaxPromotions : ~Published(Stage(j))
    BY <1>1, <2>1 DEF Published, Disk
  <2>3. \A j \in 1 .. MaxPromotions : Published(Backup(j)) =>
            marker # Nil /\ marker.job = j
    BY <1>1 DEF Published, BackupMarked
  <2>4. CASE marker # Nil /\ OldAside
    <3>1. marker.job \in 1 .. MaxPromotions /\ Backup(marker.job) \in Places
      BY <2>4, JournalIsNotNil, PlaceNames DEF Records
    <3>2. Published(Backup(marker.job))
      BY <2>4, <3>1, PlaceNames DEF Published, OldAside, OldAt
    <3>3. \A p \in Places : Published(p) <=> p = Backup(marker.job)
      BY <2>1, <2>2, <2>3, <3>1, <3>2, PlaceNames
    <3>4. {dir[p].set : p \in {q \in Places : Published(q)}}
              = {dir[Backup(marker.job)].set}
      BY <3>1, <3>3
    <3>5. dir[Backup(marker.job)].set \in Nat
      BY <2>4, <3>1 DEF Records, Contents, OldAside, OldAt
    <3>6. Kept = CHOOSE n \in {dir[Backup(marker.job)].set} :
                    \A m \in {dir[Backup(marker.job)].set} : m <= n
      <4>1. {p \in Places : Published(p)} # {}
        BY <3>1, <3>2
      <4>2. QED
        BY <2>1, <3>4, <4>1, ZenonT(60) DEF Kept
    <3>7. Kept = dir[Backup(marker.job)].set
      BY <3>5, <3>6
    <3>8. QED
      BY <1>4, <2>4, <3>7 DEF Current
  <2>5. CASE ~(marker # Nil /\ OldAside)
    <3>1. ASSUME NEW j \in 1 .. MaxPromotions, Published(Backup(j))
          PROVE  FALSE
      <4>1. marker # Nil /\ marker.job = j /\ dir[Backup(j)] # Nil
        BY <1>1, <3>1 DEF Published, BackupMarked
      <4>2. OldInPlace
        BY <1>1, <2>1, <2>5, <4>1, OnePhase
      <4>3. QED
        BY <4>1, <4>2 DEF OldInPlace
    <3>2. \A p \in Places : ~Published(p)
      BY <2>1, <2>2, <3>1, PlaceNames
    <3>3. {dir[p].set : p \in {q \in Places : Published(q)}} = {}
      BY <3>2
    <3>4. Kept = 0
      BY <2>1, <3>3 DEF Kept
    <3>5. QED
      BY <1>4, <2>5, <3>4 DEF Current
  <2>6. QED
    BY <2>4, <2>5
<1>5. QED
  BY <1>3, <1>4

LEMMA KeptStaysCurrent == (Always /\ Calm /\ Calmly => Kept = Current)'
BY KeptIsCurrent, PTL

---------------------------------------------------------------------------
(* The theorems about behaviours in which nothing is edited or misread.    *)

LEMMA IInvHolds ==
  PromotionSpec /\ []PromotesAlone => []IInv
<1>1. PromotionInit => IInv
  BY AlwaysAtFirst, CalmAtFirst DEF IInv
<1>2. IInv /\ PromotesAlone' /\ [PromotionNext]_promotionVars => IInv'
  BY IInvIsInductive
<1>3. QED
  BY <1>1, <1>2, PTL DEF PromotionSpec

\* "publish a sibling stage without losing old cuts" (promote_cut_set): from
\* the first promotion that returned on, that set or a later one exists whole,
\* for any number of jobs and openers and wherever the process crashes or an
\* operation fails, as long as nobody has the lock of the key while a promotion
\* runs and nothing edits or misreads the directory.
THEOREM CutsAreKept ==
  PromotionSpec /\ []PromotesAlone => []CalmKeepsCuts
<1>1. IInv => CalmKeepsCuts
  BY KeptIsCurrent, CurrentTyped
  DEF IInv, CalmInv, CalmKeepsCuts, NoCutsLost, Always, Records
<1>2. QED
  BY <1>1, IInvHolds, PTL

\* Under the same conditions what CutWorkspace.open has recovered is whole, and
\* no marker is left.
THEOREM WhatIsOpenedIsRecovered ==
  PromotionSpec /\ []PromotesAlone => []OpenedIsRecovered
<1>1. IInv => OpenedIsRecovered
  BY RendererIsAThread
  DEF IInv, CalmInv, Calmly, Disk, Always, Marked, MarkerKnown,
      OpenedIsRecovered
<1>2. QED
  BY <1>1, IInvHolds, PTL

\* Promotion implements CutStore, as long as nobody has the lock of the key
\* while a promotion runs: through every rename, removal, failure, recovery and
\* crash the kept set changes at the swap alone, to the set of the later job.
THEOREM PromotionImplementsStore ==
  PromotionSpec /\ []PromotesAlone => PublishesAtomically
<1>1. PromotionInit => Store!Init
  BY AlwaysAtFirst, CalmAtFirst DEF Store!Init
<1>2. IInv /\ IInv' /\ [PromotionNext]_promotionVars
        => [Store!Publish]_(IF Calm THEN Kept ELSE 0)
  <2> SUFFICES ASSUME IInv, IInv', [PromotionNext]_promotionVars
               PROVE  [Store!Publish]_(IF Calm THEN Kept ELSE 0)
    OBVIOUS
  <2>1. bounds' = bounds
    BY DEF PromotionNext, promotionVars
  <2>2. Calm' <=> Calm
    BY <2>1 DEF Calm
  <2>3. CASE ~Calm
    BY <2>2, <2>3
  <2>4. CASE Calm
    <3>1. Kept = Current
      BY <2>4, KeptIsCurrent DEF IInv, CalmInv
    <3>2. Kept' = Current'
      BY <2>2, <2>4, KeptStaysCurrent DEF IInv, CalmInv
    <3>3. Publishes /\ Current' \in 0 .. MaxPromotions /\ Current \in Nat
      BY <2>4, CalmStep, CurrentTyped DEF IInv, CalmInv, Always
    <3>4. Current' = Current \/ Current' \in (Current + 1) .. MaxPromotions
      BY <3>3 DEF Publishes
    <3>5. QED
      BY <2>2, <2>4, <3>1, <3>2, <3>4 DEF Store!Publish
  <2>5. QED
    BY <2>3, <2>4
<1>3. QED
  BY <1>1, <1>2, IInvHolds, PTL DEF PromotionSpec, PublishesAtomically, Store!Spec
=============================================================================
