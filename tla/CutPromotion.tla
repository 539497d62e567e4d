---------------------------- MODULE CutPromotion ----------------------------
(***************************************************************************)
(* jobs/workspace: the directories and the recovery marker of one cache    *)
(* key, as promote_cut_set, _recover_promotion and detect_external_edits   *)
(* change them.                                                            *)
(*                                                                         *)
(* A cut set is staged in a directory of its job, and promoted: a marker   *)
(* is written, the stage takes the place of the target (by one exchange    *)
(* where the file system has it, else by two renames over a backup), the   *)
(* result is validated, what it replaced is removed, and the marker is     *)
(* unlinked.  Whoever finds a marker recovers.  Every file operation is a  *)
(* step, so that a crash, a failure or another thread can come between     *)
(* any two; removing a tree is two, and what a first one leaves is no cut  *)
(* set any more.  A crash ends the process and loses no write.             *)
(*                                                                         *)
(* The promotion locks of the process are named: promotion takes the one   *)
(* of the directory it publishes, everybody else the one of the cache key, *)
(* and a readable directory name is not the cache key.  A second instance  *)
(* of the application shares no lock at all, like an opener here under a   *)
(* readable name.                                                          *)
(***************************************************************************)
EXTENDS Naturals

CONSTANTS
    MaxPromotions,        \* jobs that render cuts for the key, numbered from 1
    Openers,        \* threads that open, list or rescan the kept set
    Exchange,       \* answers of the file system to an atomic exchange
    ReadableName,   \* the published directory is not named by its key
    Bounds,         \* the bounds a behaviour may have, one of
    Nil

\* What a bound limits: jobs, frames an external program edits, rescans that
\* rewrite the manifest, reads of a directory that fail in a recovery, and
\* crashes of the process.
BoundNames == {"jobs", "edits", "scans", "reads", "crashes"}

ASSUME PromotionConstants ==
    /\ MaxPromotions \in Nat
    /\ Bounds \subseteq [BoundNames -> Nat]
    /\ \A b \in Bounds : b.jobs <= MaxPromotions
    /\ Exchange \subseteq BOOLEAN
    /\ ReadableName \in BOOLEAN
    /\ "RENDERER" \notin Openers
    /\ Nil \notin Openers \cup {"RENDERER"}

\* Nil is none of the values that can be absent.
ASSUME NilIsNoValue ==
    Nil \notin [set : Nat, frames : Nat, recorded : Nat, stamp : Nat,
               whole : BOOLEAN]
             \cup [job : Nat, previous : (Nat \X Nat) \cup {Nil}]
             \cup (Nat \X Nat) \cup ({"TARGET", "STAGE", "BACKUP"} \X Nat)

VARIABLES
    dir,        \* what is at each place, None for nothing
    marker,     \* the journal on disk
    lock,       \* holder of each promotion lock
    pc,         \* where each thread is
    half,       \* it is inside the removal of a tree
    ret,        \* where its recovery returns to, and where it raises to
    seen,       \* the journal its recovery read, and the hashes
    job,        \* the render job of the renderer
    journal,    \* its journal
    oldLocation,        \* its old_location
    delivered,  \* the last job whose promotion returned
    spent,      \* edits, scans, read errors and crashes so far
    bounds      \* how many of them this behaviour has

threadVars == <<pc, half, ret, seen>>
renderVars == <<job, journal, oldLocation, delivered>>
promotionVars == <<dir, marker, lock, threadVars, renderVars, spent, bounds>>

Renderer == "RENDERER"
Threads  == {Renderer} \cup Openers

KeyLock  == "KEY"
NameLock == IF ReadableName THEN "NAME" ELSE "KEY"

Target    == <<"TARGET", 0>>
Stage(j)  == <<"STAGE", j>>
Backup(j) == <<"BACKUP", j>>
Places    == {Target} \cup ({"STAGE", "BACKUP"} \X (1 .. MaxPromotions))

\* A directory holds the cuts of the job `set`; its frames were edited
\* `frames` times, the manifest records the state after `recorded` edits and
\* was rewritten `stamp` times; a tree half removed is not whole.
NewSet(j) == [set |-> j, frames |-> 0, recorded |-> 0, stamp |-> 0,
              whole |-> TRUE]
HalfRemoved(d) == [d EXCEPT !.whole = FALSE]

Hash(d) == <<d.set, d.stamp>>

\* Manifest and frames are there and agree.
HashIfValid(d) ==
    IF d # Nil /\ d.whole /\ d.frames = d.recorded THEN Hash(d) ELSE Nil

CandidateHash(m) == Hash(NewSet(m.job))

NothingSeen == [journal |-> Nil, target |-> Nil, stage |-> Nil,
                backup |-> Nil]

PromotionInit ==
    /\ dir = [p \in Places |-> Nil]
    /\ marker = Nil
    /\ lock = [n \in {KeyLock, NameLock} |-> Nil]
    /\ pc = [t \in Threads |-> "IDLE"]
    /\ half = [t \in Threads |-> FALSE]
    /\ ret = [t \in Threads |-> [ok |-> "IDLE", fail |-> "IDLE"]]
    /\ seen = [t \in Threads |-> NothingSeen]
    /\ job = 0 /\ journal = Nil /\ oldLocation = Nil /\ delivered = 0
    /\ bounds \in Bounds
    /\ spent = [edits |-> 0, scans |-> 0, reads |-> 0, crashes |-> 0]

ThreadGoto(t, l) == pc' = [pc EXCEPT ![t] = l]
ThreadAt(t, l) == pc[t] = l
Acquire(t, n) == lock[n] = Nil /\ lock' = [lock EXCEPT ![n] = t]
Release(t, n) == lock' = [lock EXCEPT ![n] = Nil]

\* os.replace: a directory does not replace one that holds anything.
Move(p, q) ==
    /\ dir[p] # Nil /\ dir[q] = Nil
    /\ dir' = [dir EXCEPT ![q] = dir[p], ![p] = Nil]

---------------------------------------------------------------------------
(* _recover_promotion, as every thread runs it.                            *)

EnterRecovery(t, ok, fail) ==
    /\ ThreadGoto(t, "MARKER")
    /\ ret' = [ret EXCEPT ![t] = [ok |-> ok, fail |-> fail]]
    /\ UNCHANGED half

RecoveryLabels == {"MARKER", "HASH_TARGET", "HASH_STAGE", "HASH_BACKUP",
                   "CLEAR", "RESTORE", "DROP_STAGE", "DROP_BACKUP", "UNMARK"}

\* Mutant: a recovery goes on without a marker.
ReadMarkerAlways(t) ==
    /\ ThreadAt(t, "MARKER")
    /\ seen' = [seen EXCEPT ![t] = [NothingSeen EXCEPT !.journal = marker]]
    /\ ThreadGoto(t, "HASH_TARGET")
    /\ UNCHANGED <<dir, marker, lock, half, ret, renderVars, spent>>

\* Without a marker there is nothing to recover.
ReadMarker(t) ==
    /\ ThreadAt(t, "MARKER")
    /\ seen' = [seen EXCEPT ![t] = [NothingSeen EXCEPT !.journal = marker]]
    /\ ThreadGoto(t, IF marker = Nil THEN ret[t].ok ELSE "HASH_TARGET")
    /\ UNCHANGED <<dir, marker, lock, half, ret, renderVars, spent>>

\* A directory that cannot be read is taken for one that is not valid.
ReadHash(t, from, field, place, to) ==
    /\ ThreadAt(t, from)
    /\ \/ /\ seen' = [seen EXCEPT ![t][field] = HashIfValid(dir[place])]
          /\ UNCHANGED spent
       \/ /\ spent.reads < bounds.reads
          /\ seen' = [seen EXCEPT ![t][field] = Nil]
          /\ spent' = [spent EXCEPT !.reads = @ + 1]
    /\ ThreadGoto(t, to)
    /\ UNCHANGED <<dir, marker, lock, half, ret, renderVars>>

\* Mutant: a backup is not looked for.
OldPlaceNoBackup(s) ==
    LET m == s.journal
    IN  IF s.target # CandidateHash(m) /\ m.previous # Nil /\ s.stage = m.previous
        THEN Stage(m.job) ELSE Target

\* Mutant: the old set comes back though its replacement is in place.
OldPlaceFirst(s) ==
    LET m == s.journal
    IN  IF m.previous = Nil THEN Target
        ELSE IF s.stage = m.previous THEN Stage(m.job)
        ELSE IF s.backup = m.previous THEN Backup(m.job)
        ELSE Target

\* old_location, and Target when the target is to stay as it is.
OldPlace(s) ==
    LET m == s.journal
    IN  IF s.target = CandidateHash(m) \/ m.previous = Nil THEN Target
        ELSE IF s.stage = m.previous THEN Stage(m.job)
        ELSE IF s.backup = m.previous THEN Backup(m.job)
        ELSE Target

\* _remove_tree: what is in the tree, then the directory.
Removes(t, p, to) ==
    /\ dir[p] # Nil
    /\ \/ /\ ~half[t]
          /\ dir' = [dir EXCEPT ![p] = HalfRemoved(@)]
          /\ half' = [half EXCEPT ![t] = TRUE]
          /\ UNCHANGED pc
       \/ /\ half[t] /\ ~dir[p].whole
          /\ dir' = [dir EXCEPT ![p] = Nil]
          /\ half' = [half EXCEPT ![t] = FALSE]
          /\ ThreadGoto(t, to)

Skips(t, to) == ~half[t] /\ ThreadGoto(t, to) /\ UNCHANGED <<dir, half>>

\* The target makes room for the old set, if that is elsewhere.
ClearTarget(t) ==
    /\ ThreadAt(t, "CLEAR")
    /\ IF OldPlace(seen[t]) # Target
       THEN \/ Removes(t, Target, "RESTORE")
            \/ dir[Target] = Nil /\ Skips(t, "RESTORE")
       ELSE Skips(t, "DROP_STAGE")
    /\ UNCHANGED <<marker, lock, ret, seen, renderVars, spent>>

RestoreBackup(t) ==
    /\ ThreadAt(t, "RESTORE")
    /\ Move(OldPlace(seen[t]), Target)
    /\ ThreadGoto(t, "DROP_STAGE")
    /\ UNCHANGED <<marker, lock, half, ret, seen, renderVars, spent>>

\* What is left of the stage, unless it was the old set and has been moved.
DropStage(t) ==
    LET p == Stage(seen[t].journal.job)
    IN  /\ ThreadAt(t, "DROP_STAGE")
        /\ \/ OldPlace(seen[t]) # p /\ Removes(t, p, "DROP_BACKUP")
           \/ /\ OldPlace(seen[t]) = p \/ dir[p] = Nil
              /\ Skips(t, "DROP_BACKUP")
        /\ UNCHANGED <<marker, lock, ret, seen, renderVars, spent>>

\* Mutant: the backup stays.
DropBackupSkipped(t) ==
    /\ ThreadAt(t, "DROP_BACKUP")
    /\ Skips(t, "UNMARK")
    /\ UNCHANGED <<marker, lock, ret, seen, renderVars, spent>>

DropBackup(t) ==
    LET p == Backup(seen[t].journal.job)
    IN  /\ ThreadAt(t, "DROP_BACKUP")
        /\ \/ OldPlace(seen[t]) # p /\ Removes(t, p, "UNMARK")
           \/ /\ OldPlace(seen[t]) = p \/ dir[p] = Nil
              /\ Skips(t, "UNMARK")
        /\ UNCHANGED <<marker, lock, ret, seen, renderVars, spent>>

Unmark(t) ==
    /\ ThreadAt(t, "UNMARK")
    /\ marker # Nil
    /\ marker' = Nil
    /\ ThreadGoto(t, ret[t].ok)
    /\ seen' = [seen EXCEPT ![t] = NothingSeen]
    /\ UNCHANGED <<dir, lock, half, ret, renderVars, spent>>

\* Any operation of a recovery may fail, and those must that do not find what
\* they act on.
RecoveryFails(t) ==
    /\ pc[t] \in RecoveryLabels
    /\ ThreadGoto(t, ret[t].fail)
    /\ half' = [half EXCEPT ![t] = FALSE]
    /\ seen' = [seen EXCEPT ![t] = NothingSeen]
    /\ UNCHANGED <<dir, marker, lock, ret, renderVars, spent>>

Recover(t) ==
    \/ ReadMarker(t)
    \/ ReadHash(t, "HASH_TARGET", "target", Target, "HASH_STAGE")
    \/ /\ seen[t].journal # Nil
       /\ LET j == seen[t].journal.job
          IN  \/ ReadHash(t, "HASH_STAGE", "stage", Stage(j), "HASH_BACKUP")
              \/ ReadHash(t, "HASH_BACKUP", "backup", Backup(j), "CLEAR")
              \/ ClearTarget(t) \/ RestoreBackup(t)
              \/ DropStage(t) \/ DropBackup(t)
    \/ Unmark(t)
    \/ RecoveryFails(t)

---------------------------------------------------------------------------
(* The renderer: one job after the other stages a set and promotes it.     *)

\* create_staging recovers first, under the lock of the key.
CreateStaging ==
    /\ ThreadAt(Renderer, "IDLE") /\ job < bounds.jobs
    /\ Acquire(Renderer, KeyLock)
    /\ EnterRecovery(Renderer, "RECOVERED", "NOT_RECOVERED")
    /\ job' = job + 1
    /\ UNCHANGED <<dir, marker, seen, journal, oldLocation, delivered, spent>>

LeaveRecovery ==
    /\ pc[Renderer] \in {"RECOVERED", "NOT_RECOVERED"}
    /\ Release(Renderer, KeyLock)
    /\ ThreadGoto(Renderer, IF ThreadAt(Renderer, "RECOVERED") THEN "MAKE_STAGE" ELSE "IDLE")
    /\ UNCHANGED <<dir, marker, half, ret, seen, renderVars, spent>>

\* A stage that was made but could not be opened stays.
MakeStage ==
    /\ ThreadAt(Renderer, "MAKE_STAGE")
    /\ \/ /\ dir' = [dir EXCEPT ![Stage(job)] = HalfRemoved(NewSet(job))]
          /\ ThreadGoto(Renderer, "STAGING") \/ ThreadGoto(Renderer, "IDLE")
       \/ UNCHANGED dir /\ ThreadGoto(Renderer, "IDLE")
    /\ UNCHANGED <<marker, lock, half, ret, seen, renderVars, spent>>

\* The frames of the job, then the manifest that records them.
StageCuts ==
    /\ ThreadAt(Renderer, "STAGING")
    /\ dir' = [dir EXCEPT ![Stage(job)] = NewSet(job)]
    /\ ThreadGoto(Renderer, "STAGED")
    /\ UNCHANGED <<marker, lock, half, ret, seen, renderVars, spent>>

\* The job fails or is cancelled before it promotes.
StagingFails ==
    /\ pc[Renderer] \in {"STAGING", "STAGED"}
    /\ ThreadGoto(Renderer, "DISCARD")
    /\ UNCHANGED <<dir, marker, lock, half, ret, seen, renderVars, spent>>

\* promote_cut_set recovers under the lock of the directory it publishes.
PromoteCuts ==
    /\ ThreadAt(Renderer, "STAGED")
    /\ Acquire(Renderer, NameLock)
    /\ EnterRecovery(Renderer, "INSPECT", "UNLOCK")
    /\ UNCHANGED <<dir, marker, seen, renderVars, spent>>

\* The manifest of the set to be replaced is read, and its frames are not: a
\* tree that is not whole may still have one.
Inspect ==
    /\ ThreadAt(Renderer, "INSPECT")
    /\ journal' = [job |-> job,
                   previous |-> IF dir[Target] = Nil THEN Nil
                                ELSE Hash(dir[Target])]
    /\ oldLocation' = Nil
    /\ ThreadGoto(Renderer, "WRITE_JOURNAL")
    /\ UNCHANGED <<dir, marker, lock, half, ret, seen, job, delivered, spent>>

\* The phases the journal goes through are written and never read.
WriteJournal(from, to) ==
    /\ ThreadAt(Renderer, from)
    /\ marker' = journal
    /\ ThreadGoto(Renderer, to)
    /\ UNCHANGED <<dir, lock, half, ret, seen, renderVars, spent>>

\* A write that fails may have replaced the marker.
JournalFails ==
    /\ ThreadAt(Renderer, "WRITE_JOURNAL")
    /\ marker' \in {marker, journal}
    /\ ThreadGoto(Renderer, "DROP_UNMARKED")
    /\ UNCHANGED <<dir, lock, half, ret, seen, renderVars, spent>>

Exchanges ==
    /\ ThreadAt(Renderer, "SWAP") /\ journal.previous # Nil
    /\ TRUE \in Exchange
    /\ dir[Target] # Nil /\ dir[Stage(job)] # Nil
    /\ dir' = [dir EXCEPT ![Target] = dir[Stage(job)],
                          ![Stage(job)] = dir[Target]]
    /\ oldLocation' = Stage(job)
    /\ ThreadGoto(Renderer, "NEW_ACTIVE")
    /\ UNCHANGED <<marker, lock, half, ret, seen, job, journal, delivered,
                   spent>>

MovesOld ==
    /\ ThreadAt(Renderer, "SWAP") /\ journal.previous # Nil
    /\ FALSE \in Exchange
    /\ Move(Target, Backup(job))
    /\ oldLocation' = Backup(job)
    /\ ThreadGoto(Renderer, "OLD_MOVED")
    /\ UNCHANGED <<marker, lock, half, ret, seen, job, journal, delivered,
                   spent>>

MovesNew ==
    /\ \/ ThreadAt(Renderer, "MOVE_NEW")
       \/ ThreadAt(Renderer, "SWAP") /\ journal.previous = Nil
    /\ Move(Stage(job), Target)
    /\ ThreadGoto(Renderer, "NEW_ACTIVE")
    /\ UNCHANGED <<marker, lock, half, ret, seen, renderVars, spent>>

\* What is at the target is valid and is the candidate.
ValidatePromoted ==
    /\ ThreadAt(Renderer, "VALIDATE")
    /\ HashIfValid(dir[Target]) = CandidateHash(journal)
    /\ ThreadGoto(Renderer, "REMOVE_OLD")
    /\ UNCHANGED <<dir, marker, lock, half, ret, seen, renderVars, spent>>

RemoveOld ==
    /\ ThreadAt(Renderer, "REMOVE_OLD")
    /\ \/ oldLocation # Nil /\ Removes(Renderer, oldLocation, "UNLINK")
       \/ /\ oldLocation # Nil => dir[oldLocation] = Nil
          /\ ThreadGoto(Renderer, "UNLINK")
          /\ half' = [half EXCEPT ![Renderer] = FALSE]
          /\ UNCHANGED dir
    /\ UNCHANGED <<marker, lock, ret, seen, renderVars, spent>>

\* The finally clause recovers, which finds no marker any more; the directory
\* may still fail to be synchronized.
Unlink ==
    /\ ThreadAt(Renderer, "UNLINK")
    /\ marker # Nil
    /\ marker' = Nil
    /\ \E l \in {"RETURN", "UNLOCK"} : EnterRecovery(Renderer, l, l)
    /\ UNCHANGED <<dir, lock, seen, renderVars, spent>>

PromotionLabels == {"INSPECT", "SWAP", "OLD_MOVED", "MOVE_NEW", "NEW_ACTIVE",
                    "VALIDATE", "REMOVE_OLD", "UNLINK"}

\* Any operation may fail; the finally clause recovers as far as it can.
PromotionFails ==
    /\ pc[Renderer] \in PromotionLabels
    /\ ThreadGoto(Renderer, "MARKER")
    /\ ret' = [ret EXCEPT ![Renderer] = [ok |-> "UNLOCK", fail |-> "UNLOCK"]]
    /\ half' = [half EXCEPT ![Renderer] = FALSE]
    /\ UNCHANGED <<dir, marker, lock, seen, renderVars, spent>>

\* The stage is removed before the finally clause when no journal was written.
DropUnmarked ==
    /\ ThreadAt(Renderer, "DROP_UNMARKED")
    /\ \/ Removes(Renderer, Stage(job), "MARKER")
       \/ /\ ThreadGoto(Renderer, "MARKER")
          /\ half' = [half EXCEPT ![Renderer] = FALSE]
          /\ UNCHANGED dir
    /\ ret' = [ret EXCEPT ![Renderer] = [ok |-> "UNLOCK", fail |-> "UNLOCK"]]
    /\ UNCHANGED <<marker, lock, seen, renderVars, spent>>

Unlock ==
    /\ ThreadAt(Renderer, "UNLOCK")
    /\ Release(Renderer, NameLock)
    /\ ThreadGoto(Renderer, "DISCARD")
    /\ UNCHANGED <<dir, marker, half, ret, seen, renderVars, spent>>

\* A failed job removes what is at its stage, as far as it can.
DiscardStage ==
    /\ ThreadAt(Renderer, "DISCARD")
    /\ \/ Removes(Renderer, Stage(job), "IDLE")
       \/ /\ ThreadGoto(Renderer, "IDLE")
          /\ half' = [half EXCEPT ![Renderer] = FALSE]
          /\ UNCHANGED dir
    /\ UNCHANGED <<marker, lock, ret, seen, renderVars, spent>>

PromotionReturns ==
    /\ ThreadAt(Renderer, "RETURN")
    /\ Release(Renderer, NameLock)
    /\ delivered' = job
    /\ ThreadGoto(Renderer, "IDLE")
    /\ UNCHANGED <<dir, marker, half, ret, seen, job, journal, oldLocation, spent>>

Render ==
    \/ CreateStaging \/ LeaveRecovery \/ MakeStage \/ StageCuts \/ StagingFails
    \/ PromoteCuts \/ Inspect
    \/ WriteJournal("WRITE_JOURNAL", "SWAP")
    \/ WriteJournal("OLD_MOVED", "MOVE_NEW")
    \/ WriteJournal("NEW_ACTIVE", "VALIDATE")
    \/ JournalFails \/ Exchanges \/ MovesOld \/ MovesNew
    \/ ValidatePromoted \/ RemoveOld \/ Unlink \/ PromotionFails
    \/ DropUnmarked \/ Unlock \/ DiscardStage \/ PromotionReturns

---------------------------------------------------------------------------
(* Threads that open the kept set, and rescan it.                          *)

\* Mutant: a set is opened whether or not its recovery succeeded.
OpenAnyway(o) ==
    /\ pc[o] \in {"IDLE", "HOLDS"}
    /\ Acquire(o, KeyLock)
    /\ EnterRecovery(o, "OPENED", "OPENED")
    /\ UNCHANGED <<dir, marker, seen, renderVars, spent>>

\* CutWorkspace.open, and list_workspaces for the key's marker.
Open(o) ==
    /\ pc[o] \in {"IDLE", "HOLDS"}
    /\ Acquire(o, KeyLock)
    /\ EnterRecovery(o, "OPENED", "NOT_OPENED")
    /\ UNCHANGED <<dir, marker, seen, renderVars, spent>>

\* detect_external_edits, of a set that was opened, reads the manifest and
\* every frame.
Scan(o) ==
    /\ ThreadAt(o, "HOLDS") /\ spent.scans < bounds.scans
    /\ dir[Target] # Nil /\ dir[Target].whole
    /\ Acquire(o, KeyLock)
    /\ seen' = [seen EXCEPT ![o].target = dir[Target]]
    /\ spent' = [spent EXCEPT !.scans = @ + 1]
    /\ ThreadGoto(o, "SCANNED")
    /\ UNCHANGED <<dir, marker, half, ret, renderVars>>

\* The manifest that was read is replaced by one that records the frames.
WriteManifest(o) ==
    /\ ThreadAt(o, "SCANNED")
    /\ dir[Target] # Nil /\ Hash(dir[Target]) = Hash(seen[o].target)
    /\ dir' = [dir EXCEPT ![Target].stamp = @ + 1,
                          ![Target].recorded = seen[o].target.frames]
    /\ ThreadGoto(o, "SCAN_ENDS")
    /\ seen' = [seen EXCEPT ![o] = NothingSeen]
    /\ UNCHANGED <<marker, lock, half, ret, renderVars, spent>>

\* Nothing changed by then that could be recorded, or the write failed.
ScanFails(o) ==
    /\ ThreadAt(o, "SCANNED")
    /\ ThreadGoto(o, "SCAN_ENDS")
    /\ seen' = [seen EXCEPT ![o] = NothingSeen]
    /\ UNCHANGED <<dir, marker, lock, half, ret, renderVars, spent>>

CloseCuts(o) ==
    /\ pc[o] \in {"OPENED", "NOT_OPENED", "SCAN_ENDS"}
    /\ Release(o, KeyLock)
    /\ ThreadGoto(o, IF pc[o] = "NOT_OPENED" THEN "IDLE" ELSE "HOLDS")
    /\ UNCHANGED <<dir, marker, half, ret, seen, renderVars, spent>>

---------------------------------------------------------------------------
\* An image editor saves a frame of the published set.
EditFrame ==
    /\ spent.edits < bounds.edits
    /\ dir[Target] # Nil /\ dir[Target].whole
    /\ dir' = [dir EXCEPT ![Target].frames = @ + 1]
    /\ spent' = [spent EXCEPT !.edits = @ + 1]
    /\ UNCHANGED <<marker, lock, threadVars, renderVars>>

\* The process dies and is started again: its threads and locks are gone.
Crash ==
    /\ spent.crashes < bounds.crashes
    /\ \E t \in Threads : pc[t] # "IDLE"
    /\ pc' = [t \in Threads |-> "IDLE"]
    /\ half' = [t \in Threads |-> FALSE]
    /\ ret' = [t \in Threads |-> [ok |-> "IDLE", fail |-> "IDLE"]]
    /\ seen' = [t \in Threads |-> NothingSeen]
    /\ lock' = [n \in {KeyLock, NameLock} |-> Nil]
    /\ journal' = Nil /\ oldLocation' = Nil
    /\ spent' = [spent EXCEPT !.crashes = @ + 1]
    /\ UNCHANGED <<dir, marker, job, delivered>>

PromotionNext ==
    /\ \/ Render
       \/ \E t \in Threads : Recover(t)
       \/ \E o \in Openers :
             Open(o) \/ Scan(o) \/ WriteManifest(o) \/ ScanFails(o) \/ CloseCuts(o)
       \/ EditFrame
       \/ Crash
    /\ UNCHANGED bounds

PromotionSpec == PromotionInit /\ [][PromotionNext]_promotionVars

\* Nobody has the lock of the key while a promotion has its own.  Where the
\* directory is named by its key they are one lock, and this is so.  Under a
\* readable name, which every new promotion publishes, no lock keeps an opener
\* out: then it is a condition on when the key is opened, listed and rescanned.
PromotesAlone == lock[NameLock] = Renderer => lock[KeyLock] \notin Openers

---------------------------------------------------------------------------
Contents == [set : 1 .. MaxPromotions, frames : 0 .. bounds.edits,
             recorded : 0 .. bounds.edits, stamp : 0 .. bounds.scans,
             whole : BOOLEAN]
Hashes   == (1 .. MaxPromotions) \X (0 .. bounds.scans)
Journals == [job : 1 .. MaxPromotions, previous : Hashes \cup {Nil}]

\* The state has its type, a tree is half removed only by a thread that is
\* removing, and a recovery knows its journal.
PromotionTypeOK ==
    /\ dir \in [Places -> Contents \cup {Nil}]
    /\ marker \in Journals \cup {Nil}
    /\ lock \in [{KeyLock, NameLock} -> Threads \cup {Nil}]
    /\ half \in [Threads -> BOOLEAN]
    /\ job \in 0 .. MaxPromotions /\ delivered \in 0 .. job
    /\ journal \in Journals \cup {Nil} /\ oldLocation \in Places \cup {Nil}
    /\ \A t \in Threads :
         pc[t] \in RecoveryLabels \ {"MARKER", "UNMARK"} =>
             seen[t].journal \in Journals

\* A whole set where a promoted one may be: anywhere but at its own stage.
Published(p) == dir[p] # Nil /\ dir[p].whole /\ p # Stage(dir[p].set)

\* The job whose cuts are kept: at the target, or, while the target is being
\* replaced or restored, at the place they come back from.
Kept ==
    LET sets == {dir[p].set : p \in {q \in Places : Published(q)}}
    IN  IF Published(Target) THEN dir[Target].set
        ELSE IF sets = {} THEN 0
        ELSE CHOOSE n \in sets : \A m \in sets : m <= n

\* "publish a sibling stage without losing old cuts" (promote_cut_set): from
\* the first promotion that returned on, that set or a later one exists whole,
\* whatever crashed, failed or was edited since.
NoCutsLost == Kept >= delivered

\* Nothing edits the frames or misreads a directory: the promise above holds
\* of such behaviours, and not of others.
Calm == bounds.edits = 0 /\ bounds.scans = 0 /\ bounds.reads = 0

\* NoCutsLost, where neither an external program nor an unreadable directory
\* comes in between.
CalmKeepsCuts == Calm => NoCutsLost

\* A backup holds cuts nobody lists; while it exists there is a marker that
\* has the next recovery remove it or move it back.  The types are part of it.
BackupsAreMarked ==
    /\ PromotionTypeOK
    /\ \A j \in 1 .. MaxPromotions :
          dir[Backup(j)] # Nil => marker # Nil /\ marker.job = j

\* Where nothing edits or misreads the set, what CutWorkspace.open has
\* recovered is no half-removed tree, and nothing
\* about it is left to recover.
OpenedIsRecovered ==
    Calm => \A o \in Openers :
        ThreadAt(o, "OPENED") =>
            marker = Nil /\ (dir[Target] # Nil => dir[Target].whole)

\* Promotion implements its contract: the kept set changes in one step, to
\* the set of a later job, in spite of the renames and removals it takes.
Store == INSTANCE CutStore WITH MaxJobs <- MaxPromotions,
    current <- IF Calm THEN Kept ELSE 0
PublishesAtomically == Store!Spec
=============================================================================
