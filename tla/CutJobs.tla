------------------------------ MODULE CutJobs ------------------------------
(***************************************************************************)
(* jobs/render.py (RenderService and PreviewService) over one durable cut  *)
(* set, with the operations of jobs/workspace on it: a job renders new     *)
(* cuts, rebuilds from the stored ones, or previews with their alpha union *)
(* while the user edits the PNG files with another program, the workspace  *)
(* dialog lists and deletes sets, and a second instance of the application *)
(* renders the same set anew.                                              *)
(*                                                                         *)
(* A cut is [look, stamp]: what the PNG shows, and the identity of the     *)
(* file (inode, times), which every write changes.  The union of a set is  *)
(* known by the looks it was computed from.  CutPromotion looks inside the *)
(* promotion, which is one step here; OutputPublication inside publish().  *)
(* All requests of a run ask for the same cuts and the same alpha          *)
(* threshold, so the key, the count and the dimensions always match.       *)
(***************************************************************************)
EXTENDS Naturals

CONSTANTS Frames,   \* frame indices, 1..n
          MaxEdits, \* bound: writes of a frame by the user or a render
          Nothing   \* no set, no manifest, no file, no union


VARIABLES
    cutset,  \* the durable directory: frames, manifest, and its identity
    cutjob,  \* the job of this process
    view,    \* the locals of a scan: of the job's, and of the dialog's
    keyLock, \* who holds _promotion_lock(cuts_root / cache_key)
    apart,   \* the dialog belongs to a second instance of the application
    edits    \* stamps given out

cutVars == <<cutset, cutjob, view, keyLock, apart, edits>>

Looks == {"cut", "edit"}
Cuts == [look : Looks, stamp : 0 .. MaxEdits]
Images == [Frames -> Cuts \cup {Nothing}]
Unions == [Frames -> Looks]
Manifests == [rec : [Frames -> Cuts], union : Unions \cup {Nothing}, edited : BOOLEAN, id : 0 .. 4]
CutSets == [frames : Images, man : Manifests \cup {Nothing}, dir : 0 .. 4, born : [Frames -> Cuts]]
Outputs == [looks : Unions, union : Unions]

ASSUME CutJobsAssumption ==
    /\ Frames # {} /\ Frames \in SUBSET Nat /\ MaxEdits \in Nat
    /\ Nothing \notin Cuts \cup Images \cup Unions \cup Manifests \cup CutSets \cup Outputs

LooksOf(cuts) == [f \in Frames |-> cuts[f].look]
FreshCuts(stamp) == [f \in Frames |-> [look |-> "cut", stamp |-> stamp]]
Fresh(used) == CHOOSE n \in 0 .. 4 : n \notin used

Manifest(cuts, union, edited, id) ==
    [rec |-> cuts, union |-> union, edited |-> edited, id |-> id]

\* A set as promote_cut_set leaves it; born is kept for the properties only.
Promoted(cuts, dir, id) ==
    [frames |-> cuts, man |-> Manifest(cuts, LooksOf(cuts), FALSE, id),
     dir |-> dir, born |-> cuts]

Readable == cutset # Nothing /\ cutset.man # Nothing
Present(f) == cutset # Nothing /\ cutset.frames[f] # Nothing
Whole == Readable /\ \A f \in Frames : Present(f)

\* validate_cut_set: the names, and every frame as it was recorded.
Valid == Whole /\ cutset.frames = cutset.man.rec

IdleView == [base |-> Nothing, got |-> [f \in Frames |-> Nothing], dir |-> 0, pc |-> "idle"]
\* Bound: the dialog is opened for one operation, and one job runs.
Rests(w) == [IdleView EXCEPT !.pc = IF w = "job" THEN "idle" ELSE "closed"]
IdleJob == [pc |-> "idle", kind |-> "render", ctx |-> "RUNNING", shot |-> Nothing,
            base |-> Nothing, union |-> Nothing, stage |-> FALSE, scratch |-> FALSE,
            owner |-> FALSE, lost |-> FALSE, stood |-> FALSE, output |-> Nothing]

CutInit == /\ cutset \in {Nothing, Promoted(FreshCuts(0), 0, 0)}
           /\ cutjob = IdleJob
           /\ view = [w \in {"job", "dialog"} |-> IdleView]
           /\ keyLock = {}
           /\ apart \in BOOLEAN
           /\ edits = 0

Ids == {view[w].base.id : w \in {v \in DOMAIN view : view[v].base # Nothing}}
         \cup (IF Readable THEN {cutset.man.id} ELSE {})
         \cup (IF cutjob.base # Nothing THEN {cutjob.base.id} ELSE {})
NewId == Fresh(Ids)
NewDir == Fresh({view[w].dir : w \in DOMAIN view}
                 \cup (IF cutset # Nothing THEN {cutset.dir} ELSE {}))
---------------------------------------------------------------------------
(* The scan of a set under its lock, for detect_external_edits, for        *)
(* compare_and_set_union_metadata, and around the snapshot.  What a scan   *)
(* finds depends on when it reads each frame.                              *)

\* Mutant: a scan does not wait for the lock.
NeverWaits(w) == TRUE

FreeFor(w) == apart \/ keyLock \subseteq {w}
Goes(w, pc) == view' = [view EXCEPT ![w].pc = pc]
JobGoes(pc) == cutjob' = [cutjob EXCEPT !.pc = pc]

\* The purpose of the job's scan is its pc; the dialog's is to detect.
Purpose(w) == IF w = "job" THEN cutjob.pc ELSE "detect"
Detects(w) == Purpose(w) \in {"detect", "detect again"}
Compares(w) == Purpose(w) \in {"baseline", "rescan"}
Locks(w) == Detects(w) \/ Purpose(w) = "union"

\* An error of the scan: the rebuild fails, a lost union is a note, the
\* dialog shows it.
ScanError(w) ==
    /\ view' = [view EXCEPT ![w] = Rests(w)]
    /\ keyLock' = keyLock \ {w}
    /\ IF w # "job" THEN UNCHANGED cutjob
       ELSE JobGoes(IF Purpose(w) = "union" THEN "encode" ELSE "failing")

\* _read_manifest, and the names at the start of _scan_bound_cut_set.
ReadManifest(w) ==
    /\ view[w].pc = "read"
    /\ Locks(w) => FreeFor(w)
    /\ IF Whole
       THEN /\ view' = [view EXCEPT ![w].base = cutset.man, ![w].pc = "scan",
                                    ![w].dir = cutset.dir]
            /\ keyLock' = IF Locks(w) THEN keyLock \cup {w} ELSE keyLock
            /\ UNCHANGED cutjob
       ELSE ScanError(w)
    /\ UNCHANGED <<cutset, apart, edits>>

\* _inspect_bound_frame of the next frame.
ScanFrame(w) ==
    /\ view[w].pc = "scan"
    /\ LET todo == {f \in Frames : view[w].got[f] = Nothing} IN
       /\ todo # {}
       /\ \E f \in todo :
            /\ \A g \in todo : f <= g
            /\ IF Present(f) /\ (Compares(w) => cutset.frames[f] = view[w].base.rec[f])
               THEN /\ view' = [view EXCEPT ![w].got[f] = cutset.frames[f]]
                    /\ UNCHANGED <<cutjob, keyLock>>
               ELSE ScanError(w)
    /\ UNCHANGED <<cutset, apart, edits>>

\* The manifest is still the one that was read, in the directory that still
\* has the name.
Unmoved(w) == Readable /\ cutset.man.id = view[w].base.id /\ cutset.dir = view[w].dir

EndScan(w) ==
    /\ view[w].pc = "scan"
    /\ \A f \in Frames : view[w].got[f] # Nothing
    /\ IF ~Unmoved(w) THEN ScanError(w)
       ELSE /\ Goes(w, IF Compares(w) THEN "scanned" ELSE "write")
            /\ UNCHANGED <<cutjob, keyLock>>
    /\ UNCHANGED <<cutset, apart, edits>>

\* Mutant: what was derived from the old frames survives the edit.
UpdatedKeepingUnion(w) ==
    LET m == view[w].base  got == view[w].got IN
    Manifest(got, m.union, m.edited \/ got # m.rec, NewId)

\* detect_external_edits: the current frames, marked when they changed.
Updated(w) ==
    LET m == view[w].base  got == view[w].got IN
    Manifest(got, IF got # m.rec THEN Nothing ELSE m.union, m.edited \/ got # m.rec, NewId)

\* Mutant: the union is written without asking what it is of.
UnionUnchecked(w) ==
    LET m == view[w].base  got == view[w].got IN
    Manifest(got, LooksOf(cutjob.shot), m.edited \/ got # m.rec, NewId)

\* Mutant: the frames are recorded, the mark is not.
UnionUnmarked(w) ==
    LET m == view[w].base  got == view[w].got IN
    IF LooksOf(got) # LooksOf(cutjob.shot) THEN Nothing
    ELSE Manifest(got, LooksOf(cutjob.shot), m.edited, NewId)

\* compare_and_set_union_metadata: only while the expected hashes still win.
WithUnion(w) ==
    LET m == view[w].base  got == view[w].got IN
    IF LooksOf(got) # LooksOf(cutjob.shot) THEN Nothing
    ELSE Manifest(got, LooksOf(cutjob.shot), m.edited \/ got # m.rec, NewId)

Next_Manifest(w) == IF Purpose(w) = "union" THEN WithUnion(w) ELSE Updated(w)

\* _write_manifest_atomic: the identity is checked, then the file is renamed
\* over; a write of another process fits in between.
CheckIdentity(w) ==
    /\ view[w].pc = "write"
    /\ IF ~Unmoved(w) \/ Next_Manifest(w) = Nothing THEN ScanError(w)
       ELSE Goes(w, "replace") /\ UNCHANGED <<cutjob, keyLock>>
    /\ UNCHANGED <<cutset, apart, edits>>

ReplaceManifest(w) ==
    /\ view[w].pc = "replace"
    /\ IF cutset = Nothing \/ cutset.dir # view[w].dir
       THEN ScanError(w) /\ UNCHANGED cutset
       ELSE /\ cutset' = [cutset EXCEPT !.man = Next_Manifest(w)]
            /\ IF Purpose(w) = "union"
               THEN /\ view' = [view EXCEPT ![w] = IdleView]
                    /\ keyLock' = keyLock \ {w}
                    /\ JobGoes("encode")
               ELSE Goes(w, "validate") /\ UNCHANGED <<cutjob, keyLock>>
    /\ UNCHANGED <<apart, edits>>

\* detect_external_edits ends in validate_cut_set, whose manifest it returns.
Redetected(w) ==
    /\ view[w].pc = "validate"
    /\ IF ~Valid THEN ScanError(w)
       ELSE /\ view' = [view EXCEPT ![w] = IF w = "job" THEN [IdleView EXCEPT !.pc = "read"]
                                           ELSE Rests(w)]
            /\ keyLock' = keyLock \ {w}
            /\ cutjob' = IF w # "job" THEN cutjob
                         ELSE [cutjob EXCEPT !.base = cutset.man, !.owner = TRUE,
                                 !.pc = IF @ = "detect" THEN "detect again" ELSE "baseline"]
    /\ UNCHANGED <<cutset, apart, edits>>

Scan(w) == \/ ReadManifest(w) \/ ScanFrame(w) \/ EndScan(w)
           \/ CheckIdentity(w) \/ ReplaceManifest(w) \/ Redetected(w)
---------------------------------------------------------------------------
(* The job.                                                                *)

Begin(kind) == /\ cutjob.pc = "idle"
               /\ cutjob' = [IdleJob EXCEPT !.kind = kind,
                               !.pc = IF kind = "regenerate" THEN "probe"
                                      ELSE IF kind = "rebuild" THEN "detect" ELSE "match"]
               /\ view' = [view EXCEPT !["job"].pc = IF kind = "rebuild" THEN "read" ELSE "idle"]
               /\ kind = "rebuild" => cutset # Nothing
               /\ UNCHANGED <<cutset, keyLock, apart, edits>>

\* find_matching_cut_workspace: a valid stored set makes the render a rebuild.
\* Its scan decides nothing else, and the rebuild scans again.
Match == /\ cutjob.pc = "match" /\ cutjob.kind = "render"
         /\ IF Valid THEN JobGoes("detect") /\ Goes("job", "read")
            ELSE JobGoes("probe") /\ UNCHANGED view
         /\ UNCHANGED <<cutset, keyLock, apart, edits>>

\* PreviewService._matching_union: the stored union frames the preview.
MatchUnion ==
    /\ cutjob.pc = "match" /\ cutjob.kind = "preview"
    /\ cutjob' = [cutjob EXCEPT !.pc = "done", !.ctx = "SUCCEEDED",
          !.output = IF Valid /\ cutset.man.union # Nothing
                     THEN [looks |-> LooksOf(cutset.man.rec), union |-> cutset.man.union]
                     ELSE Nothing]
    /\ cutjob.ctx = "RUNNING"
    /\ UNCHANGED <<cutset, view, keyLock, apart, edits>>

\* probe, sample_times, complete_sha256, the disk check, create_staging.
CreateStaging == /\ cutjob.pc = "probe"
                 /\ cutjob' = [cutjob EXCEPT !.pc = "produce", !.stage = TRUE]
                 /\ UNCHANGED <<cutset, view, keyLock, apart, edits>>

\* _produce_cut_frame and stage for each timestamp, and the union of them.
ProduceCuts == /\ cutjob.pc = "produce" /\ edits < MaxEdits
               /\ edits' = edits + 1
               /\ cutjob' = [cutjob EXCEPT !.pc = "copy stage", !.owner = TRUE,
                               !.shot = FreshCuts(edits'), !.union = LooksOf(FreshCuts(edits'))]
               /\ UNCHANGED <<cutset, view, keyLock, apart>>

\* _snapshot_validated_workspace of the stage nobody else touches.
CopyStage == /\ cutjob.pc = "copy stage"
             /\ cutjob' = [cutjob EXCEPT !.pc = "promote", !.scratch = TRUE, !.stood = TRUE]
             /\ UNCHANGED <<cutset, view, keyLock, apart, edits>>

\* promote_cut_set under the lock of the name, which a deletion in this
\* process holds too; an old set without a manifest stops it.
Deleting == view["dialog"].pc = "delete"
PromoteCuts == /\ cutjob.pc = "promote"
               /\ apart \/ ~Deleting
               /\ cutset = Nothing \/ Readable
               /\ cutset' = Promoted(cutjob.shot, NewDir, NewId)
               /\ cutjob' = [cutjob EXCEPT !.pc = "validate promoted", !.stage = FALSE]
               /\ UNCHANGED <<view, keyLock, apart, edits>>

ValidatePromoted == /\ cutjob.pc = "validate promoted"
                    /\ JobGoes(IF Valid THEN "encode" ELSE "failing")
                    /\ UNCHANGED <<cutset, view, keyLock, apart, edits>>

\* snapshot_for_rebuild: the manifest is still the detected one and the set
\* is as recorded; then scratch/<job>/cuts-snapshot is made.
Baseline == /\ cutjob.pc = "baseline" /\ view["job"].pc = "scanned"
            /\ IF view["job"].base # cutjob.base
               THEN JobGoes("failing")
               ELSE cutjob' = [cutjob EXCEPT !.pc = "copy", !.scratch = TRUE,
                                 !.shot = [f \in Frames |-> Nothing]]
            /\ view' = [view EXCEPT !["job"] = IdleView]
            /\ UNCHANGED <<cutset, keyLock, apart, edits>>

\* _copy_frame_descriptor_bound of the next frame: its hash and metadata
\* before, after and in the copy are those of the baseline.
CopyFrame ==
    /\ cutjob.pc = "copy"
    /\ \E f \in Frames :
         /\ cutjob.shot[f] = Nothing
         /\ \A g \in Frames : cutjob.shot[g] = Nothing => f <= g
         /\ cutjob' = IF Present(f) /\ cutset.frames[f] = cutjob.base.rec[f]
                      THEN [cutjob EXCEPT !.shot[f] = cutset.frames[f]]
                      ELSE [cutjob EXCEPT !.pc = "failing"]
    /\ UNCHANGED <<cutset, view, keyLock, apart, edits>>

Stands(shot) == cutset # Nothing /\ cutset.frames = shot

\* Mutant: the set is not looked at again after the copy.
EndCopyUnseen == /\ cutjob.pc = "copy"
                 /\ \A f \in Frames : cutjob.shot[f] # Nothing
                 /\ cutjob' = [cutjob EXCEPT !.pc = "frame", !.stood = Stands(cutjob.shot)]
                 /\ UNCHANGED <<cutset, view, keyLock, apart, edits>>

\* The manifest of the copy is written and the rescan starts.
EndCopy == /\ cutjob.pc = "copy"
           /\ \A f \in Frames : cutjob.shot[f] # Nothing
           /\ cutjob' = [cutjob EXCEPT !.pc = "rescan", !.stood = Stands(cutjob.shot)]
           /\ Goes("job", "read")
           /\ UNCHANGED <<cutset, keyLock, apart, edits>>

\* The rescan found what the baseline found, or the cuts have changed.
Rescanned == /\ cutjob.pc = "rescan" /\ view["job"].pc = "scanned"
             /\ JobGoes(IF view["job"].base = cutjob.base /\ view["job"].got = cutjob.shot
                        THEN "frame" ELSE "failing")
             /\ view' = [view EXCEPT !["job"] = IdleView]
             /\ UNCHANGED <<cutset, keyLock, apart, edits>>

\* _rebuild_union: the stored union, or a new one of the private frames,
\* which is then offered to the durable manifest.
RebuildUnion ==
    /\ cutjob.pc = "frame"
    /\ IF cutjob.base.union # Nothing
       THEN /\ cutjob' = [cutjob EXCEPT !.pc = "encode", !.union = cutjob.base.union]
            /\ UNCHANGED view
       ELSE /\ cutjob' = [cutjob EXCEPT !.pc = "union", !.union = LooksOf(cutjob.shot)]
            /\ Goes("job", "read")
    /\ UNCHANGED <<cutset, keyLock, apart, edits>>

\* _encode_snapshot: frames and encodes the private cuts, then publishes
\* unless the job was cancelled.
EncodeAndPublish ==
    /\ cutjob.pc = "encode"
    /\ cutjob' = IF cutjob.ctx = "RUNNING"
                 THEN [cutjob EXCEPT !.ctx = "SUCCEEDED", !.pc = "clean",
                         !.output = [looks |-> LooksOf(cutjob.shot), union |-> cutjob.union]]
                 ELSE [cutjob EXCEPT !.pc = "failing"]
    /\ UNCHANGED <<cutset, view, keyLock, apart, edits>>

JobWorks == cutjob.pc \notin {"idle", "done", "failing", "clean", "unstage"}

RequestJobCancel == /\ JobWorks /\ cutjob.ctx = "RUNNING"
                    /\ cutjob' = [cutjob EXCEPT !.ctx = "CANCEL_PENDING"]
                    /\ UNCHANGED <<cutset, view, keyLock, apart, edits>>

\* A checkpoint that finds the cancellation, or an error of any step.  What
\* the workspace operations remove at once on an error, the finally blocks
\* of the job remove again: here only they do.
FailStep ==
    /\ JobWorks /\ cutjob.pc # "union"
    /\ cutjob' = [cutjob EXCEPT !.pc = "failing"]
    /\ view' = [view EXCEPT !["job"] = IdleView]
    /\ keyLock' = keyLock \ {"job"}
    /\ UNCHANGED <<cutset, apart, edits>>

\* Mutant: only the job that made the stage itself cleans, not its snapshot.
FinishFailedWithoutOwner ==
    /\ cutjob.pc = "failing"
    /\ cutjob' = [cutjob EXCEPT !.ctx = IF @ = "CANCEL_PENDING" THEN "CANCELLED" ELSE "FAILED",
                    !.pc = IF cutjob.stage THEN "unstage" ELSE "done"]
    /\ UNCHANGED <<cutset, view, keyLock, apart, edits>>

\* _finish_failed_context, before the finally blocks.
FinishFailed ==
    /\ cutjob.pc = "failing"
    /\ cutjob' = [cutjob EXCEPT !.ctx = IF @ = "CANCEL_PENDING" THEN "CANCELLED" ELSE "FAILED",
                    !.pc = IF cutjob.stage THEN "unstage"
                           ELSE IF cutjob.owner THEN "clean" ELSE "done"]
    /\ UNCHANGED <<cutset, view, keyLock, apart, edits>>

\* _cleanup_stage: discard_staged_set, whose failure is a note on the error.
CleanStage == /\ cutjob.pc = "unstage"
              /\ \E ok \in BOOLEAN :
                   cutjob' = [cutjob EXCEPT !.stage = ~ok, !.lost = @ \/ ~ok,
                                !.pc = IF cutjob.owner THEN "clean" ELSE "done"]
              /\ UNCHANGED <<cutset, view, keyLock, apart, edits>>

\* _cleanup_scratch_owners: cleanup_scratch of the job, best effort.
CleanScratch == /\ cutjob.pc = "clean"
                /\ \E ok \in BOOLEAN :
                     cutjob' = [cutjob EXCEPT !.pc = "done",
                                  !.scratch = @ /\ ~ok, !.lost = @ \/ ~ok]
                /\ UNCHANGED <<cutset, view, keyLock, apart, edits>>

Job == \/ \E kind \in {"render", "rebuild", "regenerate", "preview"} : Begin(kind)
       \/ Match \/ MatchUnion \/ CreateStaging \/ ProduceCuts \/ CopyStage
       \/ PromoteCuts \/ ValidatePromoted \/ Baseline \/ CopyFrame \/ EndCopy
       \/ Rescanned \/ RebuildUnion \/ EncodeAndPublish \/ RequestJobCancel
       \/ FailStep \/ FinishFailed \/ CleanStage \/ CleanScratch
---------------------------------------------------------------------------
(* The dialog, the other instance and the user's editor.                   *)

\* While the job's snapshot is being rescanned: did it ever stand?
Witnessed(set) ==
    cutjob' = IF cutjob.pc = "rescan"
              THEN [cutjob EXCEPT !.stood = @ \/ (set # Nothing /\ set.frames = cutjob.shot)]
              ELSE cutjob

\* list_workspaces: a set that does not validate is scanned for edits.
List == /\ view["dialog"].pc = "idle" /\ cutset # Nothing
        /\ Goes("dialog", "read")
        /\ UNCHANGED <<cutset, cutjob, keyLock, apart, edits>>

\* delete_workspace, confirmed by the user; the dialog refuses a set that an
\* explicit rebuild of its own process uses.
Delete == /\ view["dialog"].pc = "idle" /\ cutset # Nothing
          /\ cutjob.kind = "rebuild" /\ cutjob.pc \notin {"idle", "done"} => apart
          /\ view' = [view EXCEPT !["dialog"].pc = "delete", !["dialog"].dir = cutset.dir]
          /\ UNCHANGED <<cutset, cutjob, keyLock, apart, edits>>

\* _remove_bound_contents, one entry after the other.
RemoveEntry ==
    /\ Deleting /\ cutset # Nothing /\ cutset.dir = view["dialog"].dir
    /\ \/ cutset.man # Nothing /\ cutset' = [cutset EXCEPT !.man = Nothing]
       \/ \E f \in Frames : Present(f) /\ cutset' = [cutset EXCEPT !.frames[f] = Nothing]
    /\ Witnessed(cutset')
    /\ UNCHANGED <<view, keyLock, apart, edits>>

\* rmdir of the name, which fails when something was put there meanwhile.
RemoveDirectory ==
    /\ Deleting
    /\ (cutset # Nothing /\ cutset.dir = view["dialog"].dir)
         => \A f \in Frames : ~Present(f)
    /\ cutset' = IF cutset # Nothing /\ cutset.dir = view["dialog"].dir /\ ~Readable
                 THEN Nothing ELSE cutset
    /\ view' = [view EXCEPT !["dialog"] = Rests("dialog")]
    /\ Witnessed(cutset')
    /\ UNCHANGED <<keyLock, apart, edits>>

\* Another instance promotes a render of the same cuts.
OtherPromotes == /\ apart /\ edits < MaxEdits
                 /\ cutset = Nothing \/ Readable
                 /\ edits' = edits + 1
                 /\ cutset' = Promoted(FreshCuts(edits'), NewDir, NewId)
                 /\ Witnessed(cutset')
                 /\ UNCHANGED <<view, keyLock, apart>>

\* The user saves a frame from an image editor.
EditFrame == /\ edits < MaxEdits
             /\ edits' = edits + 1
             /\ \E f \in Frames, look \in Looks :
                  /\ Present(f)
                  /\ cutset' = [cutset EXCEPT !.frames[f] = [look |-> look, stamp |-> edits']]
             /\ Witnessed(cutset')
             /\ UNCHANGED <<view, keyLock, apart>>

CutNext == \/ Job \/ Scan("job") \/ Scan("dialog") \/ List \/ Delete
           \/ RemoveEntry \/ RemoveDirectory \/ OtherPromotes \/ EditFrame

CutSpec == CutInit /\ [][CutNext]_cutVars
---------------------------------------------------------------------------
(* Properties.                                                             *)

\* Type correctness, and the key lock is held only during a scan.
CutJobsTypeOK ==
    /\ cutset # Nothing =>
         /\ \A f \in Frames : cutset.frames[f] \in Cuts \cup {Nothing}
         /\ Readable => cutset.man.rec \in [Frames -> Cuts]
    /\ cutjob.ctx \in {"RUNNING", "CANCEL_PENDING", "SUCCEEDED", "FAILED", "CANCELLED"}
    /\ cutjob.shot # Nothing => \A f \in Frames : cutjob.shot[f] \in Cuts \cup {Nothing}
    /\ keyLock \subseteq {"job", "dialog"}
    /\ \A w \in keyLock : view[w].pc \in {"scan", "write", "replace", "validate"}
    /\ ~apart => keyLock # {"job", "dialog"}

\* The union a manifest carries is that of the frames it records, whoever
\* wrote which part of it (_cut_ops.py:399, "Publish derived union data only
\* while the expected cut bytes still win").
UnionFitsFrames ==
    Readable /\ cutset.man.union # Nothing => cutset.man.union = LooksOf(cutset.man.rec)

\* The frames a rebuild works on stood together in the set at one moment
\* after the last of them had been copied (_snapshot_ops.py:152, "one private,
\* immutable frame set with a stable rescan boundary").
SnapshotStoodTogether ==
    cutjob.pc \in {"frame", "union", "encode", "clean"} /\ cutjob.ctx # "FAILED"
      /\ cutjob.ctx # "CANCELLED" => cutjob.stood

\* What is published, or shown as an exact preview, is framed by the union
\* of the very frames it is made of, and not by that of frames edited since.
FramedByItsOwnUnion ==
    cutjob.output # Nothing => cutjob.output.union = cutjob.output.looks

\* A manifest that records a frame the user changed says the set is edited:
\* the warning before a render overwrites it depends on this.
RecordedEditsAreMarked ==
    Readable /\ cutset.man.rec # cutset.born => cutset.man.edited

\* A job that ended has left no stage and no scratch, unless removing them
\* failed, which is noted (render.py:1661).
JobLeavesNothing ==
    cutjob.pc = "done" /\ ~cutjob.lost => ~cutjob.stage /\ ~cutjob.scratch

\* A set of cuts and what is made of it agree, whatever the user, the dialog
\* and another instance do meanwhile, and a job cleans up after itself.
CutJobsCorrect ==
    /\ CutJobsTypeOK
    /\ UnionFitsFrames
    /\ SnapshotStoodTogether
    /\ FramedByItsOwnUnion
    /\ RecordedEditsAreMarked
    /\ JobLeavesNothing
===========================================================================
