--------------------------- MODULE CutJobs_proofs ---------------------------
(***************************************************************************)
(* A set of cuts and what a job makes of it agree, for any number of       *)
(* frames and of writes by the user and other instances; and what the WebP  *)
(* encoder makes of a job's frames, for any frames, sizes and limits.      *)
(***************************************************************************)
EXTENDS CutJobs, WebPFit, SequenceTheorems, WellFoundedInduction, TLAPS

-----------------------------------------------------------------------------
(* The inductive invariant *)

Scanners == {"job", "dialog"}
JobPcs == {"idle", "match", "probe", "produce", "copy stage", "promote", "validate promoted",
           "detect", "detect again", "baseline", "copy", "rescan", "frame", "union", "encode",
           "failing", "unstage", "clean", "done"}
Jobs == [pc : JobPcs, kind : {"render", "rebuild", "regenerate", "preview"},
         ctx : {"RUNNING", "CANCEL_PENDING", "SUCCEEDED", "FAILED", "CANCELLED"},
         shot : Images \cup {Nothing}, base : Manifests \cup {Nothing},
         union : Unions \cup {Nothing}, stage : BOOLEAN, scratch : BOOLEAN,
         owner : BOOLEAN, lost : BOOLEAN, stood : BOOLEAN, output : Outputs \cup {Nothing}]
Views == [base : Manifests \cup {Nothing}, got : Images, dir : 0..4,
          pc : {"idle", "closed", "read", "scan", "scanned", "write", "replace", "validate", "delete"}]
Typed ==
    /\ cutset \in CutSets \cup {Nothing} /\ cutjob \in Jobs /\ view \in [Scanners -> Views]
    /\ keyLock \subseteq Scanners /\ apart \in BOOLEAN /\ edits \in 0..MaxEdits

\* A union is that of the frames it stands with, and a manifest whose frames are
\* not those of its directory's birth is marked.
Fits(m) == m # Nothing /\ m.union # Nothing => m.union = LooksOf(m.rec)
Marks(m) == m # Nothing /\ cutset # Nothing /\ m.rec # cutset.born => m.edited
SetInv ==
    cutset # Nothing =>
      /\ Fits(cutset.man) /\ Marks(cutset.man)
      /\ \A f \in Frames : cutset.frames[f] # Nothing => cutset.frames[f].stamp <= edits

\* A scan has read nothing before it starts, what the manifest records where it
\* compares, and every frame when it is through with them.
Reads(w) ==
    /\ view[w].pc \in {"idle", "read"} => \A f \in Frames : view[w].got[f] = Nothing
    /\ view[w].base = Nothing <=> view[w].pc \in {"idle", "closed", "read", "delete"}
    /\ view[w].pc \in {"scanned", "write", "replace", "validate"} => view[w].got \in [Frames -> Cuts]
    /\ view[w].pc \in {"scan", "scanned"} /\ Compares(w) =>
         \A f \in Frames : view[w].got[f] \in {Nothing, view[w].base.rec[f]}
    /\ view[w].pc = "scanned" => Compares(w)
    /\ view[w].pc \in {"write", "replace", "validate"} => Locks(w)
    /\ view[w].pc = "replace" /\ Purpose(w) = "union" => LooksOf(view[w].got) = LooksOf(cutjob.shot)
    /\ view[w].pc = "validate" => Purpose(w) # "union"
\* What it read from the directory that stands is marked as that one's manifest is.
ViewInv(w) ==
    /\ Reads(w) /\ Fits(view[w].base)
    /\ cutset # Nothing /\ view[w].dir = cutset.dir => Marks(view[w].base)

\* The job scans where its pc says so, and who holds the lock is in a scan that locks.
Turns ==
    /\ view["job"].pc \notin {"closed", "delete"}
    /\ view["job"].pc # "idle" =>
         cutjob.pc \in {"detect", "detect again", "baseline", "rescan", "union"}
    /\ \A w \in keyLock : Locks(w) /\ view[w].pc \in {"scan", "write", "replace", "validate"}
    /\ ~apart => keyLock # Scanners

\* What the job has at hand at each of its steps, and what it has yet to clean up.
Works ==
    /\ cutjob.pc \in {"baseline", "copy", "rescan", "frame", "union"} => cutjob.base # Nothing
    /\ cutjob.pc = "copy" =>
         cutjob.shot # Nothing /\ \A f \in Frames : cutjob.shot[f] \in {Nothing, cutjob.base.rec[f]}
    /\ cutjob.pc \in {"rescan", "frame", "union"} => cutjob.shot = cutjob.base.rec
    /\ cutjob.pc \in {"copy stage", "promote", "validate promoted", "union", "encode"} =>
         cutjob.shot \in [Frames -> Cuts] /\ cutjob.union = LooksOf(cutjob.shot)
    /\ cutjob.pc \in {"promote", "validate promoted", "frame", "union", "encode"} => cutjob.stood
    /\ cutjob.pc = "clean" => cutjob.stood \/ cutjob.ctx \in {"FAILED", "CANCELLED"}
    /\ cutjob.pc = "unstage" => cutjob.ctx \in {"FAILED", "CANCELLED"}
Owes ==
    /\ cutjob.stage => cutjob.lost
                       \/ cutjob.pc \in {"produce", "copy stage", "promote", "failing", "unstage"}
    /\ cutjob.scratch \/ cutjob.pc \in {"copy stage", "baseline"} => cutjob.owner
    /\ cutjob.owner => cutjob.pc \notin {"idle", "match", "probe"}
    /\ cutjob.scratch /\ cutjob.pc = "done" => cutjob.lost
JobInv ==
    /\ Works /\ Owes /\ Fits(cutjob.base) /\ FramedByItsOwnUnion
    /\ cutjob.shot # Nothing => \A f \in Frames : cutjob.shot[f] # Nothing => cutjob.shot[f].stamp <= edits

\* A frame that was lost since it was copied does not come back, and the rescan
\* has yet to meet it.
MeetsTheLost ==
    cutjob.pc = "rescan" /\ ~cutjob.stood
      /\ (view["job"].pc \in {"scan", "scanned"} => view["job"].base = cutjob.base) =>
        \E f \in Frames : /\ view["job"].got[f] = Nothing
                          /\ cutset # Nothing => cutset.frames[f] # cutjob.shot[f]

CutInv == /\ Typed /\ SetInv /\ (\A w \in Scanners : ViewInv(w)) /\ Turns /\ JobInv /\ MeetsTheLost

\* No file, no frames: what is missing is none of the data.
LEMMA NothingIsApart ==
    /\ Nothing \notin Cuts /\ Nothing \notin Images
    /\ \A cuts \in [Frames -> Cuts] : cuts \in Images /\ cuts # Nothing
<1>1. Nothing \notin Cuts /\ Nothing \notin Images
  BY CutJobsAssumption
<1>2. \A cuts \in [Frames -> Cuts] : cuts \in Images
  BY DEF Images
<1> QED
  BY <1>1, <1>2

LEMMA Corrects == CutInv => CutJobsCorrect
<1> SUFFICES ASSUME CutInv
             PROVE  CutJobsCorrect
  OBVIOUS
<1> USE CutJobsAssumption DEF CutInv, Typed
<1>1. CutJobsTypeOK
  <2>1. cutset # Nothing => /\ \A f \in Frames : cutset.frames[f] \in Cuts \cup {Nothing}
                            /\ Readable => cutset.man.rec \in [Frames -> Cuts]
    BY DEF CutSets, Images, Manifests, Readable
  <2>2. /\ cutjob.ctx \in {"RUNNING", "CANCEL_PENDING", "SUCCEEDED", "FAILED", "CANCELLED"}
        /\ cutjob.shot # Nothing => \A f \in Frames : cutjob.shot[f] \in Cuts \cup {Nothing}
    BY DEF Jobs, Images
  <2> QED
    BY <2>1, <2>2 DEF CutJobsTypeOK, Turns, Scanners
<1>2. UnionFitsFrames /\ RecordedEditsAreMarked
  BY DEF UnionFitsFrames, RecordedEditsAreMarked, SetInv, Fits, Marks, Readable
<1>3. SnapshotStoodTogether /\ FramedByItsOwnUnion /\ JobLeavesNothing
  BY DEF SnapshotStoodTogether, FramedByItsOwnUnion, JobLeavesNothing, JobInv, Works, Owes
<1> QED
  BY <1>1, <1>2, <1>3 DEF CutJobsCorrect

-----------------------------------------------------------------------------
(* Identities *)

LEMMA FreshIsNew ==
    ASSUME NEW used, NEW a, NEW b, NEW c, NEW d, used \subseteq {a, b, c, d}
    PROVE  Fresh(used) \in 0..4 /\ Fresh(used) \notin used
<1>1. \E n \in 0..4 : n \notin {a, b, c, d}
  <2>1. 0 \in 0..4 /\ 1 \in 0..4 /\ 2 \in 0..4 /\ 3 \in 0..4 /\ 4 \in 0..4
    OBVIOUS
  <2> QED
    BY <2>1
<1>2. \E n \in 0..4 : n \notin used
  BY <1>1
<1> QED
  BY <1>2 DEF Fresh

\* A new set is in a directory no scan has read, and the identities suffice.
LEMMA NewIdentities ==
    ASSUME Typed
    PROVE  /\ NewId \in 0..4 /\ NewDir \in 0..4
           /\ \A w \in Scanners : view[w].dir # NewDir
<1>1. DOMAIN view = Scanners
  BY DEF Typed
<1>2. Ids \subseteq {view["job"].base.id, view["dialog"].base.id, cutset.man.id, cutjob.base.id}
  BY <1>1 DEF Ids, Scanners
<1>3. NewId \in 0..4
  BY <1>2, FreshIsNew DEF NewId
<1> DEFINE Dirs == {view[w].dir : w \in DOMAIN view} \cup (IF cutset # Nothing THEN {cutset.dir} ELSE {})
<1>4. Dirs \subseteq {view["job"].dir, view["dialog"].dir, cutset.dir, cutset.dir}
  BY <1>1 DEF Scanners
<1>5. Fresh(Dirs) \in 0..4 /\ Fresh(Dirs) \notin Dirs
  BY <1>4, FreshIsNew
<1> QED
  BY <1>1, <1>3, <1>5 DEF NewDir

-----------------------------------------------------------------------------
(* What a step leaves alone *)

\* A scan that does not step: its directory stands, is gone or is another one.
LEMMA ViewStays ==
    ASSUME CutInv, NEW w \in Scanners, view'[w] = view[w],
           w = "dialog" \/ view[w].pc = "idle"
             \/ (cutjob'.pc = cutjob.pc /\ cutjob'.shot = cutjob.shot),
           \/ cutset' = Nothing \/ cutset'.dir # view[w].dir
           \/ cutset # Nothing /\ cutset'.dir = cutset.dir /\ cutset'.born = cutset.born
    PROVE  ViewInv(w)'
<1>1. Reads(w)'
  <2>1. Reads(w)
    BY DEF CutInv, ViewInv
  <2>2. CASE view[w].pc = "idle"
    BY <2>1, <2>2 DEF Reads
  <2>3. CASE w = "dialog"
    <3>1. Purpose(w)' = "detect" /\ Purpose(w) = "detect"
      BY <2>3 DEF Purpose
    <3> QED
      BY <2>1, <3>1 DEF Reads, Compares, Locks, Detects
  <2>4. CASE cutjob'.pc = cutjob.pc /\ cutjob'.shot = cutjob.shot
    <3>1. Purpose(w)' = Purpose(w)
      BY <2>4 DEF Purpose
    <3> QED
      BY <2>1, <2>4, <3>1 DEF Reads, Compares, Locks, Detects, LooksOf
  <2> QED
    BY <2>2, <2>3, <2>4
<1>2. Fits(view[w].base)' /\ (cutset # Nothing /\ view[w].dir = cutset.dir => Marks(view[w].base))'
  BY DEF CutInv, ViewInv, Fits, Marks, LooksOf
<1> QED
  BY <1>1, <1>2 DEF ViewInv

\* A step of the job alone, where no scan is under way.
LEMMA JobSteps ==
    ASSUME CutInv, UNCHANGED <<cutset, view, keyLock, apart, edits>>, cutjob' \in Jobs, JobInv',
           \/ view["job"].pc = "idle" /\ cutjob'.pc # "rescan"
           \/ /\ cutjob'.pc = cutjob.pc /\ cutjob'.shot = cutjob.shot
              /\ cutjob'.base = cutjob.base /\ cutjob'.stood = cutjob.stood
    PROVE  CutInv'
<1>1. Typed'
  BY DEF CutInv, Typed
<1>2. SetInv'
  BY DEF CutInv, SetInv, Fits, Marks, LooksOf
<1>3. ASSUME NEW w \in Scanners PROVE ViewInv(w)'
  <2>1. cutset' = Nothing \/ (cutset # Nothing /\ cutset'.dir = cutset.dir /\ cutset'.born = cutset.born)
    OBVIOUS
  <2>2. w = "dialog" \/ view[w].pc = "idle" \/ (cutjob'.pc = cutjob.pc /\ cutjob'.shot = cutjob.shot)
    BY DEF Scanners
  <2> QED
    BY <2>1, <2>2, ViewStays
<1>4. Turns'
  BY DEF CutInv, Typed, Turns, Locks, Detects, Purpose, Scanners
<1>5. MeetsTheLost'
  BY DEF CutInv, MeetsTheLost
<1> QED
  BY <1>1, <1>2, <1>3, <1>4, <1>5 DEF CutInv

\* What a removal that may fail assigns is of its type.
LEMMA CleaningTyped ==
    ASSUME cutjob \in Jobs, NEW pc \in JobPcs, NEW left \in BOOLEAN, NEW lost \in BOOLEAN
    PROVE  /\ [cutjob EXCEPT !.stage = left, !.lost = lost, !.pc = pc] \in Jobs
           /\ [cutjob EXCEPT !.pc = pc, !.scratch = left, !.lost = lost] \in Jobs
<1>1. [cutjob EXCEPT !.stage = left, !.lost = lost, !.pc = pc] \in Jobs
  BY DEF Jobs
<1>2. [cutjob EXCEPT !.pc = pc, !.scratch = left, !.lost = lost] \in Jobs
  BY DEF Jobs
<1> QED
  BY <1>1, <1>2

LEMMA JobWorksAlone ==
    ASSUME CutInv,
           \/ MatchUnion \/ CreateStaging \/ CopyStage \/ ValidatePromoted \/ CopyFrame
           \/ EncodeAndPublish \/ RequestJobCancel \/ FinishFailed \/ CleanStage \/ CleanScratch
    PROVE  CutInv'
<1>1. /\ UNCHANGED <<cutset, view, keyLock, apart, edits>>
  BY DEF MatchUnion, CreateStaging, CopyStage, ValidatePromoted, CopyFrame, EncodeAndPublish,
         RequestJobCancel, FinishFailed, CleanStage, CleanScratch, JobGoes
<1>2. cutjob \in Jobs /\ JobInv /\ cutset \in CutSets \cup {Nothing} /\ SetInv
  BY DEF CutInv, Typed
<1>3. ASSUME cutjob.pc \notin {"detect", "detect again", "baseline", "rescan", "union"},
             cutjob'.pc # "rescan", cutjob' \in Jobs, JobInv'
      PROVE  CutInv'
  BY <1>1, <1>3, JobSteps DEF CutInv, Turns
\* What stays when neither the cuts nor the output of the job change.
<1>4. ASSUME cutjob'.shot = cutjob.shot, cutjob'.base = cutjob.base, cutjob'.union = cutjob.union,
             cutjob'.output = cutjob.output
      PROVE  /\ Fits(cutjob.base)' /\ FramedByItsOwnUnion'
             /\ cutjob'.shot # Nothing =>
                  \A f \in Frames : cutjob'.shot[f] # Nothing => cutjob'.shot[f].stamp <= edits'
             /\ LooksOf(cutjob.shot)' = LooksOf(cutjob.shot)
  BY <1>1, <1>2, <1>4 DEF JobInv, Fits, FramedByItsOwnUnion, LooksOf
<1>5. CASE CreateStaging
  <2>1. cutjob.pc = "probe" /\ cutjob' = [cutjob EXCEPT !.pc = "produce", !.stage = TRUE]
    BY <1>5 DEF CreateStaging
  <2>2. /\ cutjob' \in Jobs /\ cutjob'.pc = "produce"
        /\ \A x \in {"shot", "base", "union", "output", "scratch", "owner", "lost"} : cutjob'[x] = cutjob[x]
    BY <1>2, <2>1 DEF Jobs, JobPcs
  <2>3. JobInv'
    BY <1>2, <1>4, <2>1, <2>2 DEF JobInv, Works, Owes
  <2> QED
    BY <1>3, <2>1, <2>2, <2>3
<1>6. CASE CopyStage
  <2>1. cutjob.pc = "copy stage" /\ cutjob' = [cutjob EXCEPT !.pc = "promote", !.scratch = TRUE, !.stood = TRUE]
    BY <1>6 DEF CopyStage
  <2>2. /\ cutjob' \in Jobs /\ cutjob'.pc = "promote" /\ cutjob'.stood
        /\ \A x \in {"shot", "base", "union", "output", "stage", "owner", "lost"} : cutjob'[x] = cutjob[x]
    BY <1>2, <2>1 DEF Jobs, JobPcs
  <2>3. JobInv'
    BY <1>2, <1>4, <2>1, <2>2 DEF JobInv, Works, Owes
  <2> QED
    BY <1>3, <2>1, <2>2, <2>3
<1>7. CASE ValidatePromoted
  <2>1. cutjob.pc = "validate promoted"
        /\ \E pc \in {"encode", "failing"} : cutjob' = [cutjob EXCEPT !.pc = pc]
    BY <1>7 DEF ValidatePromoted, JobGoes
  <2>2. /\ cutjob' \in Jobs /\ cutjob'.pc \in {"encode", "failing"}
        /\ \A x \in {"shot", "base", "union", "output", "stage", "scratch", "owner", "lost", "stood"} :
             cutjob'[x] = cutjob[x]
    BY <1>2, <2>1 DEF Jobs, JobPcs
  <2>3. JobInv'
    BY <1>2, <1>4, <2>1, <2>2 DEF JobInv, Works, Owes
  <2> QED
    BY <1>3, <2>1, <2>2, <2>3
<1>8. CASE RequestJobCancel
  <2>1. JobWorks /\ cutjob' = [cutjob EXCEPT !.ctx = "CANCEL_PENDING"]
    BY <1>8 DEF RequestJobCancel
  <2>2. /\ cutjob' \in Jobs
        /\ \A x \in {"pc", "shot", "base", "union", "output", "stage", "scratch", "owner", "lost", "stood"} :
             cutjob'[x] = cutjob[x]
    BY <1>2, <2>1 DEF Jobs
  <2>3. JobInv'
    BY <1>2, <1>4, <2>1, <2>2 DEF JobInv, JobWorks, Works, Owes
  <2> QED
    BY <1>1, <2>2, <2>3, JobSteps
<1>9. CASE FinishFailed
  <2>1. /\ cutjob.pc = "failing"
        /\ \E ctx \in {"CANCELLED", "FAILED"} :
             cutjob' = [cutjob EXCEPT !.ctx = ctx,
                          !.pc = IF cutjob.stage THEN "unstage" ELSE IF cutjob.owner THEN "clean" ELSE "done"]
    BY <1>9 DEF FinishFailed
  <2>2. /\ cutjob' \in Jobs /\ cutjob'.ctx \in {"CANCELLED", "FAILED"}
        /\ cutjob'.pc = IF cutjob.stage THEN "unstage" ELSE IF cutjob.owner THEN "clean" ELSE "done"
        /\ \A x \in {"shot", "base", "union", "output", "stage", "scratch", "owner", "lost", "stood"} :
             cutjob'[x] = cutjob[x]
    <3>0. {"unstage", "clean", "done"} \subseteq JobPcs
      BY DEF JobPcs
    <3>1. PICK ctx \in {"CANCELLED", "FAILED"}, pc \in JobPcs :
            /\ cutjob' = [cutjob EXCEPT !.ctx = ctx, !.pc = pc]
            /\ pc = IF cutjob.stage THEN "unstage" ELSE IF cutjob.owner THEN "clean" ELSE "done"
      BY <2>1, <3>0
    <3>2. cutjob' \in Jobs
      BY <1>2, <3>1, ZenonT(40) DEF Jobs
    <3> QED
      BY <1>2, <3>1, <3>2 DEF Jobs
  <2>3. JobInv'
    BY <1>2, <1>4, <2>1, <2>2 DEF JobInv, Works, Owes
  <2> QED
    BY <1>3, <2>1, <2>2, <2>3
<1>10. CASE CleanStage
  <2>1. PICK stage \in BOOLEAN, lost \in BOOLEAN :
          /\ stage => lost
          /\ cutjob' = [cutjob EXCEPT !.stage = stage, !.lost = lost,
                                      !.pc = IF cutjob.owner THEN "clean" ELSE "done"]
    <3>1. PICK ok \in BOOLEAN :
            cutjob' = [cutjob EXCEPT !.stage = ~ok, !.lost = cutjob.lost \/ ~ok,
                                     !.pc = IF cutjob.owner THEN "clean" ELSE "done"]
      BY <1>10 DEF CleanStage
    <3> DEFINE kept == ~ok
               noted == cutjob.lost \/ ~ok
    <3>2. kept \in BOOLEAN /\ noted \in BOOLEAN /\ (kept => noted)
      OBVIOUS
    <3>3. cutjob' = [cutjob EXCEPT !.stage = kept, !.lost = noted, !.pc = IF cutjob.owner THEN "clean" ELSE "done"]
      BY <3>1
    <3> HIDE DEF kept, noted
    <3> QED
      BY <3>2, <3>3
  <2>2. cutjob.pc = "unstage"
    BY <1>10 DEF CleanStage
  <2>3. cutjob' \in Jobs
    <3>1. (IF cutjob.owner THEN "clean" ELSE "done") \in JobPcs
      BY DEF JobPcs
    <3> QED
      BY <1>2, <2>1, <3>1, CleaningTyped
  <2>4. /\ cutjob'.pc = (IF cutjob.owner THEN "clean" ELSE "done") /\ (cutjob'.stage => cutjob'.lost)
        /\ \A x \in {"shot", "base", "union", "output", "ctx", "scratch", "owner"} : cutjob'[x] = cutjob[x]
    BY <1>2, <2>1 DEF Jobs
  <2>5. JobInv'
    BY <1>2, <1>4, <2>2, <2>4 DEF JobInv, Works, Owes
  <2> QED
    BY <1>3, <2>2, <2>3, <2>4, <2>5
<1>11. CASE CleanScratch
  <2>1. PICK scratch \in BOOLEAN, lost \in BOOLEAN :
          /\ (scratch => cutjob.scratch /\ lost) /\ (cutjob.lost => lost)
          /\ cutjob' = [cutjob EXCEPT !.pc = "done", !.scratch = scratch, !.lost = lost]
    <3>1. PICK ok \in BOOLEAN :
            cutjob' = [cutjob EXCEPT !.pc = "done", !.scratch = cutjob.scratch /\ ~ok, !.lost = cutjob.lost \/ ~ok]
      BY <1>11 DEF CleanScratch
    <3> DEFINE kept == cutjob.scratch /\ ~ok
               noted == cutjob.lost \/ ~ok
    <3>2. kept \in BOOLEAN /\ noted \in BOOLEAN
      OBVIOUS
    <3>3. (kept => cutjob.scratch /\ noted) /\ (cutjob.lost => noted)
      OBVIOUS
    <3>4. cutjob' = [cutjob EXCEPT !.pc = "done", !.scratch = kept, !.lost = noted]
      BY <3>1
    <3> HIDE DEF kept, noted
    <3> QED
      BY <3>2, <3>3, <3>4
  <2>2. cutjob.pc = "clean"
    BY <1>11 DEF CleanScratch
  <2>3. cutjob' \in Jobs
    BY <1>2, <2>1, CleaningTyped DEF JobPcs
  <2>4. /\ cutjob'.pc = "done" /\ (cutjob'.scratch => cutjob.scratch /\ cutjob'.lost)
        /\ cutjob.lost => cutjob'.lost
        /\ \A x \in {"shot", "base", "union", "output", "stage", "owner"} : cutjob'[x] = cutjob[x]
    BY <1>2, <2>1 DEF Jobs
  <2>5. JobInv'
    BY <1>2, <1>4, <2>2, <2>4 DEF JobInv, Works, Owes
  <2> QED
    BY <1>3, <2>2, <2>3, <2>4, <2>5
<1>12. CASE EncodeAndPublish
  <2>1. cutjob.pc = "encode" /\ cutjob.stood /\ cutjob.union = LooksOf(cutjob.shot)
    BY <1>2, <1>12 DEF EncodeAndPublish, JobInv, Works
  <2>2. LooksOf(cutjob.shot) \in Unions
    BY <1>2, <2>1 DEF JobInv, Works, LooksOf, Unions, Cuts
  <2>3. CASE cutjob' = [cutjob EXCEPT !.ctx = "SUCCEEDED", !.pc = "clean",
                          !.output = [looks |-> LooksOf(cutjob.shot), union |-> cutjob.union]]
    <3>1. [looks |-> LooksOf(cutjob.shot), union |-> cutjob.union] \in Outputs
      BY <2>1, <2>2 DEF Outputs
    <3>2. /\ cutjob' \in Jobs /\ cutjob'.pc = "clean" /\ cutjob'.output.union = cutjob'.output.looks
          /\ \A x \in {"shot", "base", "union", "stage", "scratch", "owner", "lost", "stood"} :
               cutjob'[x] = cutjob[x]
      BY <1>2, <2>1, <2>3, <3>1 DEF Jobs, JobPcs
    <3>3. Fits(cutjob.base)' /\ FramedByItsOwnUnion'
      BY <1>2, <3>2 DEF JobInv, Fits, LooksOf, FramedByItsOwnUnion
    <3>4. JobInv'
      BY <1>1, <1>2, <2>1, <3>2, <3>3 DEF JobInv, Works, Owes
    <3> QED
      BY <1>3, <2>1, <3>2, <3>4
  <2>4. CASE cutjob' = [cutjob EXCEPT !.pc = "failing"]
    <3>1. /\ cutjob' \in Jobs /\ cutjob'.pc = "failing"
          /\ \A x \in {"shot", "base", "union", "output", "stage", "scratch", "owner", "lost"} : cutjob'[x] = cutjob[x]
      BY <1>2, <2>4 DEF Jobs, JobPcs
    <3>2. JobInv'
      BY <1>2, <1>4, <2>1, <3>1 DEF JobInv, Works, Owes
    <3> QED
      BY <1>3, <2>1, <3>1, <3>2
  <2> QED
    BY <1>12, <2>3, <2>4 DEF EncodeAndPublish
<1>13. CASE MatchUnion
  <2>1. /\ cutjob.pc = "match"
        /\ \E output \in Outputs \cup {Nothing} :
             /\ output # Nothing => output.union = output.looks
             /\ cutjob' = [cutjob EXCEPT !.pc = "done", !.ctx = "SUCCEEDED", !.output = output]
    <3>1. Valid /\ cutset.man.union # Nothing =>
            /\ cutset.man.union = LooksOf(cutset.man.rec) /\ cutset.man.union \in Unions
      BY <1>2 DEF Valid, Whole, Readable, SetInv, Fits, CutSets, Manifests
    <3> DEFINE Output == IF Valid /\ cutset.man.union # Nothing
                         THEN [looks |-> LooksOf(cutset.man.rec), union |-> cutset.man.union] ELSE Nothing
    <3>2. Output \in Outputs \cup {Nothing} /\ (Output # Nothing => Output.union = Output.looks)
      BY <3>1 DEF Outputs
    <3>3. cutjob.pc = "match" /\ cutjob' = [cutjob EXCEPT !.pc = "done", !.ctx = "SUCCEEDED", !.output = Output]
      BY <1>13 DEF MatchUnion
    <3> QED
      BY <3>2, <3>3
  <2>2. /\ cutjob' \in Jobs /\ cutjob'.pc = "done"
        /\ cutjob'.output # Nothing => cutjob'.output.union = cutjob'.output.looks
        /\ \A x \in {"shot", "base", "stage", "scratch", "owner", "lost"} : cutjob'[x] = cutjob[x]
    <3>0. {"done"} \subseteq JobPcs
      BY DEF JobPcs
    <3>1. cutjob' \in Jobs
      BY <1>2, <2>1, <3>0 DEF Jobs
    <3> QED
      BY <1>2, <2>1, <3>1 DEF Jobs
  <2>3. Fits(cutjob.base)' /\ FramedByItsOwnUnion'
    BY <1>2, <2>2 DEF JobInv, Fits, LooksOf, FramedByItsOwnUnion
  <2>4. JobInv'
    BY <1>1, <1>2, <2>1, <2>2, <2>3 DEF JobInv, Works, Owes
  <2> QED
    BY <1>3, <2>1, <2>2, <2>4
<1>14. CASE CopyFrame
  <2>1. cutjob.pc = "copy" /\ cutjob.base \in Manifests /\ cutjob.shot \in Images
    BY <1>2, <1>14 DEF CopyFrame, JobInv, Works, Jobs
  <2>2. CASE cutjob' = [cutjob EXCEPT !.pc = "failing"]
    <3>1. /\ cutjob' \in Jobs /\ cutjob'.pc = "failing"
          /\ \A x \in {"shot", "base", "union", "output", "stage", "scratch", "owner", "lost"} : cutjob'[x] = cutjob[x]
      BY <1>2, <2>2 DEF Jobs, JobPcs
    <3>2. JobInv'
      BY <1>2, <1>4, <2>1, <3>1 DEF JobInv, Works, Owes
    <3> QED
      BY <1>3, <2>1, <3>1, <3>2
  <2>3. ASSUME NEW f \in Frames, Present(f), cutset.frames[f] = cutjob.base.rec[f],
               cutjob' = [cutjob EXCEPT !.shot[f] = cutset.frames[f]]
        PROVE  CutInv'
    <3> DEFINE Shot == [cutjob.shot EXCEPT ![f] = cutset.frames[f]]
    <3>1. cutset \in CutSets /\ cutset.frames[f] \in Cuts /\ cutset.frames[f].stamp <= edits
      BY <1>2, <2>3 DEF Present, SetInv, CutSets, Images
    <3>2. Shot \in Images
      BY <2>1, <3>1 DEF Images
    <3>3. cutjob' = [cutjob EXCEPT !.shot = Shot]
      BY <2>3
    <3> HIDE DEF Shot
    <3>4. /\ cutjob' \in Jobs /\ cutjob'.pc = "copy" /\ cutjob'.shot = Shot
          /\ \A x \in {"base", "output", "stage", "scratch", "owner", "lost"} : cutjob'[x] = cutjob[x]
      BY <1>2, <2>1, <3>2, <3>3 DEF Jobs
    <3>5. \A g \in Frames : Shot[g] = IF g = f THEN cutset.frames[f] ELSE cutjob.shot[g]
      BY <2>1 DEF Shot, Images
    <3>6. Shot # Nothing /\ \A g \in Frames : Shot[g] \in {Nothing, cutjob.base.rec[g]}
                                          /\ (Shot[g] # Nothing => Shot[g].stamp <= edits)
      BY <1>2, <2>1, <2>3, <3>1, <3>2, <3>5, CutJobsAssumption DEF JobInv, Works
    <3>7. Fits(cutjob.base)' /\ FramedByItsOwnUnion'
      BY <1>2, <3>4 DEF JobInv, Fits, LooksOf, FramedByItsOwnUnion
    <3>8. JobInv'
      BY <1>1, <1>2, <2>1, <3>4, <3>6, <3>7 DEF JobInv, Works, Owes
    <3> QED
      BY <1>3, <2>1, <3>4, <3>8
  <2> QED
    BY <1>14, <2>2, <2>3 DEF CopyFrame
<1> QED
  BY <1>5, <1>6, <1>7, <1>8, <1>9, <1>10, <1>11, <1>12, <1>13, <1>14

\* A scan of the job that is given up or is to begin.
LEMMA IdleIsTyped ==
    /\ IdleView \in Views /\ IdleView.pc = "idle" /\ IdleView.base = Nothing
    /\ \A f \in Frames : IdleView.got[f] = Nothing
<1> DEFINE none == [f \in Frames |-> Nothing]
<1>1. none \in Images /\ \A f \in Frames : none[f] = Nothing
  BY DEF Images
<1>2. IdleView = [base |-> Nothing, got |-> none, dir |-> 0, pc |-> "idle"]
  BY DEF IdleView
<1> HIDE DEF none
<1>3. IdleView \in Views
  BY <1>1, <1>2 DEF Views
<1> QED
  BY <1>1, <1>2, <1>3

\* The set is as it was, or its manifest alone was replaced.
SameCuts == \/ cutset' = cutset
            \/ /\ cutset # Nothing /\ cutset' \in CutSets /\ SetInv'
               /\ cutset'.dir = cutset.dir /\ cutset'.born = cutset.born /\ cutset'.frames = cutset.frames

LEMMA JobTurns ==
    ASSUME CutInv, UNCHANGED <<apart, edits>>, SameCuts, cutjob' \in Jobs, JobInv',
           \/ view' = [view EXCEPT !["job"] = IdleView]
           \/ /\ view' = [view EXCEPT !["job"] = [IdleView EXCEPT !.pc = "read"]]
              /\ cutjob'.pc \in {"detect", "detect again", "baseline", "rescan", "union"}
           \/ /\ view["job"].pc = "idle" /\ view' = [view EXCEPT !["job"].pc = "read"]
              /\ cutjob'.pc \in {"detect", "detect again", "baseline", "rescan", "union"},
           keyLock' = keyLock \ {"job"}, MeetsTheLost'
    PROVE  CutInv'
<1>2. view \in [Scanners -> Views] /\ view["job"] \in Views
  BY DEF CutInv, Typed, Scanners
<1>3. view' \in [Scanners -> Views]
  <2>1. [view["job"] EXCEPT !.pc = "read"] \in Views
    BY <1>2 DEF Views
  <2>2. [IdleView EXCEPT !.pc = "read"] \in Views
    BY IdleIsTyped DEF Views
  <2>3. \E v \in Views : view' = [view EXCEPT !["job"] = v]
    BY IdleIsTyped, <2>1, <2>2
  <2> QED
    BY <1>2, <2>3
<1>4. view'["dialog"] = view["dialog"]
  BY <1>2 DEF Scanners
<1>5. /\ view'["job"].pc \in {"idle", "read"} /\ \A f \in Frames : view'["job"].got[f] = Nothing
      /\ view'["job"].base = Nothing
      /\ view'["job"].pc = "read" =>
           cutjob'.pc \in {"detect", "detect again", "baseline", "rescan", "union"}
  <2>1. CASE view' = [view EXCEPT !["job"] = IdleView]
    BY IdleIsTyped, <1>2, <2>1 DEF Scanners
  <2>2. CASE /\ view' = [view EXCEPT !["job"] = [IdleView EXCEPT !.pc = "read"]]
             /\ cutjob'.pc \in {"detect", "detect again", "baseline", "rescan", "union"}
    <3>1. view'["job"] = [IdleView EXCEPT !.pc = "read"]
      BY <1>2, <2>2 DEF Scanners
    <3>2. /\ view'["job"].pc = "read" /\ view'["job"].got = IdleView.got
          /\ view'["job"].base = IdleView.base
      BY IdleIsTyped, <3>1 DEF Views
    <3> QED
      BY IdleIsTyped, <2>2, <3>2
  <2>3. CASE /\ view["job"].pc = "idle" /\ view' = [view EXCEPT !["job"].pc = "read"]
             /\ cutjob'.pc \in {"detect", "detect again", "baseline", "rescan", "union"}
    <3>1. ViewInv("job")
      BY DEF CutInv, Scanners
    <3> QED
      BY <1>2, <2>3, <3>1 DEF ViewInv, Reads, Scanners, Views
  <2> QED
    BY <2>1, <2>2, <2>3
<1>6. Typed'
  BY <1>3 DEF CutInv, Typed, SameCuts
<1>7. SetInv'
  BY DEF CutInv, SetInv, Fits, Marks, LooksOf, SameCuts
<1>8. ViewInv("job")'
  <2>1. ViewInv("job")
    BY DEF CutInv, Scanners
  <2>2. Reads("job")'
    BY <1>5 DEF Reads
  <2> QED
    BY <1>5, <2>2 DEF ViewInv, Fits, Marks
<1>9. ViewInv("dialog")'
  BY <1>4, ViewStays DEF Scanners, SameCuts
<1>10. Turns'
  <2>1. /\ view'["job"].pc \notin {"closed", "delete"}
        /\ view'["job"].pc # "idle" =>
             cutjob'.pc \in {"detect", "detect again", "baseline", "rescan", "union"}
    BY <1>5
  <2>2. \A w \in keyLock' : w = "dialog" /\ w \in keyLock
    BY DEF CutInv, Typed, Scanners
  <2>3. \A w \in keyLock' : Locks(w)' /\ view'[w].pc \in {"scan", "write", "replace", "validate"}
    BY <1>4, <2>2 DEF CutInv, Turns, Locks, Detects, Purpose
  <2> QED
    BY <2>1, <2>2, <2>3 DEF Turns, Scanners
<1> QED
  BY <1>6, <1>7, <1>8, <1>9, <1>10 DEF CutInv, Scanners

LEMMA JobWorksOn ==
    ASSUME CutInv,
           \/ \E kind \in {"render", "rebuild", "regenerate", "preview"} : Begin(kind)
           \/ Match \/ Baseline \/ EndCopy \/ Rescanned \/ RebuildUnion \/ FailStep
    PROVE  CutInv'
<1>1. UNCHANGED <<cutset, apart, edits>> /\ SameCuts
  BY DEF Begin, Match, Baseline, EndCopy, Rescanned, RebuildUnion, FailStep, SameCuts
<1>2. /\ cutjob \in Jobs /\ JobInv /\ cutset \in CutSets \cup {Nothing} /\ Turns
      /\ view \in [Scanners -> Views] /\ view["job"] \in Views /\ ViewInv("job")
  BY DEF CutInv, Typed, Scanners
<1>3. cutjob.pc \notin {"detect", "detect again", "baseline", "rescan", "union"} => view["job"].pc = "idle"
  BY <1>2 DEF Turns
<1>4. view["job"].pc \in {"idle", "scanned"} => keyLock = keyLock \ {"job"}
  BY <1>2 DEF Turns
<1>5. ASSUME cutjob'.shot = cutjob.shot, cutjob'.base = cutjob.base,
             cutjob'.output = cutjob.output
      PROVE  /\ Fits(cutjob.base)' /\ FramedByItsOwnUnion'
             /\ cutjob'.shot # Nothing =>
                  \A f \in Frames : cutjob'.shot[f] # Nothing => cutjob'.shot[f].stamp <= edits'
             /\ LooksOf(cutjob.shot)' = LooksOf(cutjob.shot)
  BY <1>1, <1>2, <1>5 DEF JobInv, Fits, FramedByItsOwnUnion, LooksOf
<1>6. ASSUME NEW pc \in JobPcs, cutjob' = [cutjob EXCEPT !.pc = pc]
      PROVE  /\ cutjob' \in Jobs /\ cutjob'.pc = pc
             /\ \A x \in {"shot", "base", "union", "output", "ctx", "stage", "scratch", "owner", "lost", "stood"} :
                  cutjob'[x] = cutjob[x]
  BY <1>2, <1>6 DEF Jobs
<1>7. ASSUME NEW kind \in {"render", "rebuild", "regenerate", "preview"}, Begin(kind)
      PROVE  CutInv'
  <2>1. /\ cutjob.pc = "idle" /\ view["job"].pc = "idle"
        /\ \E pc \in {"probe", "detect", "match"} : cutjob' = [IdleJob EXCEPT !.kind = kind, !.pc = pc]
    BY <1>3, <1>7 DEF Begin
  <2>2. /\ cutjob' \in Jobs /\ cutjob'.pc \in {"probe", "detect", "match"}
        /\ cutjob'.shot = Nothing /\ cutjob'.base = Nothing /\ cutjob'.output = Nothing
        /\ ~cutjob'.stage /\ ~cutjob'.scratch /\ ~cutjob'.owner
    BY <2>1 DEF IdleJob, Jobs, JobPcs
  <2>3. JobInv' /\ MeetsTheLost'
    BY <2>2 DEF JobInv, Works, Owes, Fits, FramedByItsOwnUnion, MeetsTheLost
  <2>4. CASE kind = "rebuild"
    <3>1. view' = [view EXCEPT !["job"].pc = "read"] /\ cutjob'.pc = "detect" /\ keyLock' = keyLock
      BY <1>7, <2>1, <2>4 DEF Begin, IdleJob
    <3> QED
      BY <1>1, <1>4, <2>1, <2>2, <2>3, <3>1, JobTurns
  <2>5. CASE kind # "rebuild"
    <3>1. view' = view /\ keyLock' = keyLock
      BY <1>2, <1>7, <2>1, <2>5 DEF Begin, Views, Scanners
    <3> QED
      BY <1>1, <2>1, <2>2, <2>3, <3>1, JobSteps
  <2> QED
    BY <2>4, <2>5
<1>8. CASE Match
  <2>1. cutjob.pc = "match" /\ view["job"].pc = "idle" /\ keyLock' = keyLock
    BY <1>3, <1>8 DEF Match
  <2>2. \E pc \in {"detect", "probe"} : cutjob' = [cutjob EXCEPT !.pc = pc]
    BY <1>8 DEF Match, JobGoes
  <2>3. /\ cutjob' \in Jobs /\ cutjob'.pc \in {"detect", "probe"}
        /\ \A x \in {"shot", "base", "union", "output", "stage", "scratch", "owner", "lost"} : cutjob'[x] = cutjob[x]
    BY <1>6, <2>2 DEF JobPcs
  <2>4. JobInv' /\ MeetsTheLost'
    BY <1>2, <1>5, <2>1, <2>3 DEF JobInv, Works, Owes, MeetsTheLost
  <2>5. CASE view' = view
    BY <1>1, <2>1, <2>3, <2>4, <2>5, JobSteps
  <2>6. CASE cutjob' = [cutjob EXCEPT !.pc = "detect"] /\ view' = [view EXCEPT !["job"].pc = "read"]
    <3>1. cutjob'.pc = "detect"
      BY <1>6, <2>6 DEF JobPcs
    <3> QED
      BY <1>1, <1>4, <2>1, <2>3, <2>4, <2>6, <3>1, JobTurns
  <2> QED
    BY <1>8, <2>5, <2>6 DEF Match, Goes, JobGoes
<1>9. CASE Baseline
  <2>1. /\ cutjob.pc = "baseline" /\ view["job"].pc = "scanned" /\ keyLock' = keyLock
        /\ view' = [view EXCEPT !["job"] = IdleView]
    BY <1>9 DEF Baseline
  <2>2. CASE cutjob' = [cutjob EXCEPT !.pc = "failing"]
    <3>1. /\ cutjob' \in Jobs /\ cutjob'.pc = "failing"
          /\ \A x \in {"shot", "base", "union", "output", "stage", "scratch", "owner", "lost"} : cutjob'[x] = cutjob[x]
      BY <1>6, <2>2 DEF JobPcs
    <3>2. JobInv' /\ MeetsTheLost'
      BY <1>2, <1>5, <2>1, <3>1 DEF JobInv, Works, Owes, MeetsTheLost
    <3> QED
      BY <1>1, <1>4, <2>1, <3>1, <3>2, JobTurns
  <2>3. CASE cutjob' = [cutjob EXCEPT !.pc = "copy", !.scratch = TRUE, !.shot = [f \in Frames |-> Nothing]]
    <3>1. [f \in Frames |-> Nothing] \in Images
      BY DEF Images
    <3>2. /\ cutjob' \in Jobs /\ cutjob'.pc = "copy" /\ cutjob'.shot = [f \in Frames |-> Nothing]
          /\ \A x \in {"base", "union", "output", "stage", "owner", "lost"} : cutjob'[x] = cutjob[x]
      BY <1>2, <2>3, <3>1 DEF Jobs, JobPcs
    <3>3. cutjob'.shot \in Images /\ \A f \in Frames : cutjob'.shot[f] = Nothing
      BY <3>1, <3>2
    <3>4. Fits(cutjob.base)' /\ FramedByItsOwnUnion'
      BY <1>2, <3>2 DEF JobInv, Fits, LooksOf, FramedByItsOwnUnion
    <3>5. JobInv' /\ MeetsTheLost'
      BY <1>2, <2>1, <3>2, <3>3, <3>4, CutJobsAssumption DEF JobInv, Works, Owes, MeetsTheLost
    <3> QED
      BY <1>1, <1>4, <2>1, <3>2, <3>5, JobTurns
  <2> QED
    BY <1>9, <2>2, <2>3 DEF Baseline, JobGoes
<1>10. CASE EndCopy
  <2>1. /\ cutjob.pc = "copy" /\ view["job"].pc = "idle" /\ keyLock' = keyLock
        /\ \A f \in Frames : cutjob.shot[f] # Nothing
        /\ view' = [view EXCEPT !["job"].pc = "read"]
    BY <1>3, <1>10 DEF EndCopy, Goes
  <2>2. PICK stood \in BOOLEAN :
          /\ cutjob' = [cutjob EXCEPT !.pc = "rescan", !.stood = stood]
          /\ stood <=> Stands(cutjob.shot)
    BY <1>10 DEF EndCopy, Stands
  <2>3. /\ cutjob' \in Jobs /\ cutjob'.pc = "rescan" /\ cutjob'.stood = stood
        /\ \A x \in {"shot", "base", "union", "output", "stage", "scratch", "owner", "lost"} : cutjob'[x] = cutjob[x]
    BY <1>2, <2>2 DEF Jobs, JobPcs
  <2>4. cutjob.base \in Manifests /\ cutjob.shot \in Images /\ cutjob.base.rec \in [Frames -> Cuts]
    BY <1>2, <2>1 DEF JobInv, Works, Jobs, Manifests
  <2>5. cutjob.shot = cutjob.base.rec
    BY <1>2, <2>1, <2>4 DEF JobInv, Works, Images
  <2>6. JobInv'
    BY <1>2, <1>5, <2>1, <2>3, <2>4, <2>5 DEF JobInv, Works, Owes
  <2>7. ASSUME ~stood PROVE \E f \in Frames : cutset # Nothing => cutset.frames[f] # cutjob.shot[f]
    <3>1. CASE cutset = Nothing
      BY <3>1, CutJobsAssumption
    <3>2. CASE cutset # Nothing
      <4>1. cutset.frames \in Images /\ cutset.frames # cutjob.shot
        BY <1>2, <2>2, <2>7, <3>2 DEF CutSets, Stands
      <4> QED
        BY <2>4, <4>1 DEF Images
    <3> QED
      BY <3>1, <3>2
  <2>8. \A f \in Frames : view'["job"].got[f] = Nothing
    BY <1>2, <2>1 DEF ViewInv, Reads, Views, Scanners
  <2>9. MeetsTheLost'
    BY <1>1, <2>3, <2>7, <2>8 DEF MeetsTheLost
  <2> QED
    BY <1>1, <1>4, <2>1, <2>3, <2>6, <2>9, JobTurns
<1>11. CASE Rescanned
  <2>1. /\ cutjob.pc = "rescan" /\ view["job"].pc = "scanned" /\ keyLock' = keyLock
        /\ view' = [view EXCEPT !["job"] = IdleView]
        /\ \E pc \in {"frame", "failing"} : cutjob' = [cutjob EXCEPT !.pc = pc]
    BY <1>11 DEF Rescanned, JobGoes
  <2>2. /\ cutjob' \in Jobs /\ cutjob'.pc \in {"frame", "failing"}
        /\ \A x \in {"shot", "base", "union", "output", "stage", "scratch", "owner", "lost", "stood"} :
             cutjob'[x] = cutjob[x]
    BY <1>6, <2>1 DEF JobPcs
  <2>3. cutjob'.pc = "frame" => cutjob.stood
    <3>1. cutjob'.pc = "frame" => view["job"].base = cutjob.base
      BY <1>6, <1>11 DEF Rescanned, JobGoes, JobPcs
    <3>2. \A f \in Frames : view["job"].got[f] # Nothing
      BY <1>2, <2>1, CutJobsAssumption DEF ViewInv, Reads
    <3> QED
      BY <2>1, <3>1, <3>2 DEF CutInv, MeetsTheLost
  <2>4. JobInv' /\ MeetsTheLost'
    BY <1>2, <1>5, <2>1, <2>2, <2>3 DEF JobInv, Works, Owes, MeetsTheLost
  <2> QED
    BY <1>1, <1>4, <2>1, <2>2, <2>4, JobTurns
<1>12. CASE RebuildUnion
  <2>1. /\ cutjob.pc = "frame" /\ view["job"].pc = "idle" /\ keyLock' = keyLock
        /\ cutjob.base \in Manifests /\ cutjob.shot = cutjob.base.rec /\ cutjob.stood
    BY <1>2, <1>3, <1>12 DEF RebuildUnion, JobInv, Works, Jobs
  <2>2. cutjob.shot \in [Frames -> Cuts] /\ LooksOf(cutjob.shot) \in Unions
    BY <2>1 DEF Manifests, LooksOf, Unions, Cuts
  <2>3. \E union \in Unions, pc \in {"encode", "union"} :
          /\ cutjob' = [cutjob EXCEPT !.pc = pc, !.union = union] /\ union = LooksOf(cutjob.shot)
          /\ view' = IF pc = "encode" THEN view ELSE [view EXCEPT !["job"].pc = "read"]
    <3>1. CASE cutjob.base.union # Nothing
      <4>1. cutjob.base.union = LooksOf(cutjob.shot)
        BY <1>2, <2>1, <3>1, CutJobsAssumption DEF JobInv, Fits
      <4> QED
        BY <1>12, <2>2, <3>1, <4>1 DEF RebuildUnion
    <3>2. CASE cutjob.base.union = Nothing
      BY <1>12, <2>2, <3>2 DEF RebuildUnion, Goes
    <3> QED
      BY <3>1, <3>2
  <2>4. /\ cutjob' \in Jobs /\ cutjob'.union = LooksOf(cutjob.shot)
        /\ \/ cutjob'.pc = "encode" /\ view' = view
           \/ cutjob'.pc = "union" /\ view' = [view EXCEPT !["job"].pc = "read"]
        /\ \A x \in {"shot", "base", "output", "stage", "scratch", "owner", "lost", "stood"} : cutjob'[x] = cutjob[x]
    <3>0. {"encode", "union"} \subseteq JobPcs
      BY DEF JobPcs
    <3>1. PICK union \in Unions, pc \in JobPcs :
            /\ cutjob' = [cutjob EXCEPT !.pc = pc, !.union = union] /\ union = LooksOf(cutjob.shot)
            /\ \/ pc = "encode" /\ view' = view
               \/ pc = "union" /\ view' = [view EXCEPT !["job"].pc = "read"]
      BY <2>3, <3>0
    <3>2. cutjob' \in Jobs
      BY <1>2, <3>1 DEF Jobs
    <3> QED
      BY <1>2, <3>1, <3>2 DEF Jobs
  <2>5. JobInv' /\ MeetsTheLost'
    BY <1>2, <1>5, <2>1, <2>2, <2>4 DEF JobInv, Works, Owes, MeetsTheLost
  <2> QED
    BY <1>1, <1>4, <2>1, <2>4, <2>5, JobTurns, JobSteps
<1>13. CASE FailStep
  <2>1. /\ cutjob' = [cutjob EXCEPT !.pc = "failing"] /\ keyLock' = keyLock \ {"job"}
        /\ view' = [view EXCEPT !["job"] = IdleView]
    BY <1>13 DEF FailStep
  <2>2. /\ cutjob' \in Jobs /\ cutjob'.pc = "failing"
        /\ \A x \in {"shot", "base", "union", "output", "stage", "scratch", "owner", "lost"} : cutjob'[x] = cutjob[x]
    BY <1>6, <2>1 DEF JobPcs
  <2>3. JobInv' /\ MeetsTheLost'
    BY <1>2, <1>5, <2>2 DEF JobInv, Works, Owes, MeetsTheLost
  <2> QED
    BY <1>1, <2>1, <2>2, <2>3, JobTurns
<1> QED
  BY <1>7, <1>8, <1>9, <1>10, <1>11, <1>12, <1>13

-----------------------------------------------------------------------------
(* The scans *)

\* What others do leaves the job at most with the knowledge that its frames stood.
LEMMA JobKeeps ==
    ASSUME CutInv, edits' \in {edits, edits + 1}, cutjob.stood => cutjob'.stood,
           \A x \in {"pc", "shot", "base", "union", "output", "ctx", "stage", "scratch", "owner", "lost"} :
             cutjob'[x] = cutjob[x]
    PROVE  JobInv'
<1>1. JobInv /\ cutjob \in Jobs /\ edits \in Nat
  BY CutJobsAssumption DEF CutInv, Typed
<1>2. Fits(cutjob.base)' /\ FramedByItsOwnUnion' /\ LooksOf(cutjob.shot)' = LooksOf(cutjob.shot)
  BY <1>1 DEF JobInv, Fits, LooksOf, FramedByItsOwnUnion
<1>3. ASSUME cutjob.shot # Nothing, NEW f \in Frames, cutjob.shot[f] # Nothing
      PROVE  cutjob.shot[f].stamp <= edits'
  <2>1. cutjob.shot[f].stamp \in Nat /\ cutjob.shot[f].stamp <= edits
    BY <1>1, <1>3, CutJobsAssumption DEF JobInv, Jobs, Images, Cuts
  <2> QED
    BY <1>1, <2>1
<1>4. Works' /\ Owes'
  BY <1>1, <1>2 DEF JobInv, Works, Owes
<1> QED
  BY <1>2, <1>3, <1>4 DEF JobInv

\* A step of a scan that goes on.
LEMMA ScanGoesOn ==
    ASSUME CutInv, NEW w \in Scanners, NEW v \in Views, view' = [view EXCEPT ![w] = v],
           UNCHANGED <<cutjob, apart, edits>>, SameCuts,
           view[w].pc \in {"read", "scan", "write", "replace"},
           v.pc \in {"scan", "scanned", "write", "replace", "validate"},
           \/ keyLock' = keyLock /\ ~(view[w].pc = "read" /\ w \in keyLock)
           \/ keyLock' = keyLock \cup {w} /\ (apart \/ keyLock \subseteq {w}),
           w \in keyLock' => Locks(w) /\ v.pc # "scanned",
           ViewInv(w)', MeetsTheLost'
    PROVE  CutInv'
<1>1. view \in [Scanners -> Views] /\ keyLock \subseteq Scanners
  BY DEF CutInv, Typed
<1>2. view' \in [Scanners -> Views] /\ view'[w] = v /\ \A x \in Scanners \ {w} : view'[x] = view[x]
  BY <1>1
<1>3. Typed'
  BY <1>1, <1>2 DEF CutInv, Typed, SameCuts
<1>4. SetInv'
  BY DEF CutInv, SetInv, Fits, Marks, LooksOf, SameCuts
<1>5. ASSUME NEW x \in Scanners, x # w PROVE ViewInv(x)'
  BY <1>2, <1>5, ViewStays DEF SameCuts
<1>6. \A x \in Scanners : Locks(x)' = Locks(x)
  BY DEF Locks, Detects, Purpose
<1>7. Turns'
  <2>1. /\ view'["job"].pc \notin {"closed", "delete"}
        /\ view'["job"].pc # "idle" =>
             cutjob'.pc \in {"detect", "detect again", "baseline", "rescan", "union"}
    BY <1>2 DEF CutInv, Turns, Scanners
  <2>2. \A x \in keyLock' : Locks(x)' /\ view'[x].pc \in {"scan", "write", "replace", "validate"}
    BY <1>1, <1>2, <1>6 DEF CutInv, Turns
  <2>3. ~apart' => keyLock' # Scanners
    <3>1. CASE keyLock' = keyLock
      BY <3>1 DEF CutInv, Turns
    <3>2. CASE keyLock' = keyLock \cup {w} /\ (apart \/ keyLock \subseteq {w})
      BY <3>2 DEF Scanners
    <3> QED
      BY <3>1, <3>2
  <2> QED
    BY <2>1, <2>2, <2>3 DEF Turns
<1>8. JobInv'
  BY JobKeeps
<1> QED
  BY <1>3, <1>4, <1>5, <1>7, <1>8 DEF CutInv

\* The dialog's scan ends, or its user begins or ends an operation.
LEMMA DialogTurns ==
    ASSUME CutInv, NEW v \in Views, view' = [view EXCEPT !["dialog"] = v],
           UNCHANGED <<cutset, cutjob, apart, edits>>, keyLock' = keyLock \ {"dialog"},
           v.base = Nothing, v.pc \in {"read", "closed", "delete"},
           v.pc = "read" => \A f \in Frames : v.got[f] = Nothing
    PROVE  CutInv'
<1>1. view \in [Scanners -> Views] /\ keyLock \subseteq Scanners
  BY DEF CutInv, Typed
<1>2. view' \in [Scanners -> Views] /\ view'["dialog"] = v /\ view'["job"] = view["job"]
  BY <1>1 DEF Scanners
<1>3. Typed'
  BY <1>1, <1>2 DEF CutInv, Typed
<1>4. SetInv'
  BY DEF CutInv, SetInv, Fits, Marks, LooksOf
<1>5. ViewInv("job")'
  BY <1>2, ViewStays DEF Scanners
<1>6. ViewInv("dialog")'
  BY <1>2 DEF ViewInv, Reads, Fits, Marks
<1>7. Turns'
  <2>1. \A x \in keyLock' : x = "job" /\ x \in keyLock
    BY <1>1 DEF Scanners
  <2> QED
    BY <1>2, <2>1 DEF CutInv, Turns, Locks, Detects, Purpose, Scanners
<1>8. JobInv'
  BY JobKeeps
<1>9. MeetsTheLost'
  BY <1>2 DEF CutInv, MeetsTheLost
<1> QED
  BY <1>3, <1>4, <1>5, <1>6, <1>7, <1>8, <1>9 DEF CutInv, Scanners

LEMMA RestsTyped == Rests("dialog") \in Views /\ Rests("dialog").base = Nothing /\ Rests("dialog").pc = "closed"
                    /\ Rests("job") = IdleView
<1>1. IdleView = [base |-> Nothing, got |-> IdleView.got, dir |-> 0, pc |-> "idle"]
  BY DEF IdleView
<1>2. Rests("dialog") = [IdleView EXCEPT !.pc = "closed"] /\ Rests("job") = [IdleView EXCEPT !.pc = "idle"]
  BY DEF Rests
<1>3. Rests("dialog") \in Views
  BY <1>2, IdleIsTyped DEF Views
<1>4. Rests("dialog").base = Nothing /\ Rests("dialog").pc = "closed"
  BY <1>2, IdleIsTyped DEF Views
<1>5. Rests("job") = IdleView
  BY <1>1, <1>2
<1> QED
  BY <1>3, <1>4, <1>5

\* A scan fails: its job fails, or does without the union.
LEMMA GivesUp ==
    ASSUME CutInv, NEW w \in Scanners, view[w].pc \notin {"idle", "closed", "delete"}, ScanError(w),
           UNCHANGED <<cutset, apart, edits>>
    PROVE  CutInv'
<1>1. view' = [view EXCEPT ![w] = Rests(w)] /\ keyLock' = keyLock \ {w}
  BY DEF ScanError
<1>2. CASE w = "dialog"
  <2>1. cutjob' = cutjob
    BY <1>2 DEF ScanError
  <2> QED
    BY <1>1, <1>2, <2>1, RestsTyped, DialogTurns
<1>3. CASE w = "job"
  <2>1. PICK pc \in {"encode", "failing"} :
          cutjob' = [cutjob EXCEPT !.pc = pc] /\ (pc = "encode" => cutjob.pc = "union")
    BY <1>3 DEF ScanError, Purpose, JobGoes
  <2>2. /\ cutjob' \in Jobs /\ cutjob'.pc = pc
        /\ \A x \in {"shot", "base", "union", "output", "ctx", "stage", "scratch", "owner", "lost", "stood"} :
             cutjob'[x] = cutjob[x]
    BY <2>1 DEF CutInv, Typed, Jobs, JobPcs
  <2>3. JobInv' /\ MeetsTheLost'
    <3>1. Fits(cutjob.base)' /\ FramedByItsOwnUnion' /\ LooksOf(cutjob.shot)' = LooksOf(cutjob.shot)
      BY <2>2 DEF CutInv, JobInv, Fits, LooksOf, FramedByItsOwnUnion
    <3>2. JobInv /\ cutjob.pc \in {"detect", "detect again", "baseline", "rescan", "union"}
      BY <1>3 DEF CutInv, Turns
    <3>3. Works' /\ Owes'
      BY <2>1, <2>2, <3>1, <3>2 DEF JobInv, Works, Owes
    <3> QED
      BY <2>1, <2>2, <3>1, <3>2, <3>3 DEF JobInv, MeetsTheLost
  <2> QED
    BY <1>1, <1>3, <2>2, <2>3, RestsTyped, JobTurns DEF SameCuts
<1> QED
  BY <1>2, <1>3 DEF Scanners

\* The manifest a scan writes records the frames it read, has a union of these
\* or none, and is marked if they are not those of the directory's birth.
LEMMA NextManifest ==
    ASSUME CutInv, NEW w \in Scanners, view[w].pc \in {"write", "replace"}
    PROVE  /\ view[w].pc = "replace" => Next_Manifest(w) # Nothing
           /\ Next_Manifest(w) # Nothing =>
                /\ Next_Manifest(w) \in Manifests /\ Fits(Next_Manifest(w))
                /\ cutset # Nothing /\ view[w].dir = cutset.dir => Marks(Next_Manifest(w))
                /\ Purpose(w) = "union" => LooksOf(view[w].got) = LooksOf(cutjob.shot)
<1> DEFINE m == view[w].base
           got == view[w].got
<1>1. /\ m \in Manifests /\ got \in [Frames -> Cuts] /\ Fits(m)
      /\ cutset # Nothing /\ view[w].dir = cutset.dir => Marks(m)
      /\ view[w].pc = "replace" /\ Purpose(w) = "union" => LooksOf(got) = LooksOf(cutjob.shot)
  BY DEF CutInv, Typed, ViewInv, Reads, Views
<1>2. LooksOf(got) \in Unions /\ NewId \in 0..4
  BY <1>1, NewIdentities DEF LooksOf, Unions, Cuts, CutInv
<1>3. ASSUME NEW union \in Unions \cup {Nothing}, union # Nothing => union = LooksOf(got)
      PROVE  LET n == Manifest(got, union, m.edited \/ got # m.rec, NewId) IN
             /\ n \in Manifests /\ n # Nothing /\ Fits(n)
             /\ cutset # Nothing /\ view[w].dir = cutset.dir => Marks(n)
  <2> DEFINE edited == m.edited \/ got # m.rec
             n == [rec |-> got, union |-> union, edited |-> edited, id |-> NewId]
  <2>1. edited \in BOOLEAN
    OBVIOUS
  <2>2. cutset # Nothing /\ view[w].dir = cutset.dir => (got # cutset.born => edited)
    BY <1>1, CutJobsAssumption DEF Marks
  <2> HIDE DEF edited
  <2>3. n \in Manifests /\ n.rec = got /\ n.union = union /\ n.edited = edited
    BY <1>1, <1>2, <2>1 DEF Manifests
  <2>4. n # Nothing
    BY <2>3, CutJobsAssumption
  <2>5. Fits(n) /\ (cutset # Nothing /\ view[w].dir = cutset.dir => Marks(n))
    BY <1>3, <2>2, <2>3 DEF Fits, Marks
  <2>6. Manifest(got, union, m.edited \/ got # m.rec, NewId) = n
    BY DEF Manifest, edited
  <2> QED
    BY <2>3, <2>4, <2>5, <2>6
<1>4. CASE Purpose(w) = "union"
  <2>1. Next_Manifest(w) = WithUnion(w)
    BY <1>4 DEF Next_Manifest
  <2>2. CASE LooksOf(got) = LooksOf(cutjob.shot)
    <3>1. WithUnion(w) = Manifest(got, LooksOf(got), m.edited \/ got # m.rec, NewId)
      BY <2>2 DEF WithUnion
    <3> QED
      BY <1>2, <1>3, <2>1, <2>2, <3>1
  <2>3. CASE LooksOf(got) # LooksOf(cutjob.shot)
    <3>1. WithUnion(w) = Nothing
      BY <2>3 DEF WithUnion
    <3> QED
      BY <1>1, <1>4, <2>1, <2>3, <3>1
  <2> QED
    BY <2>2, <2>3
<1>5. CASE Purpose(w) # "union"
  <2> DEFINE union == IF got # m.rec THEN Nothing ELSE m.union
  <2>1. Next_Manifest(w) = Manifest(got, union, m.edited \/ got # m.rec, NewId)
    BY <1>5 DEF Next_Manifest, Updated
  <2>2. union \in Unions \cup {Nothing} /\ (union # Nothing => union = LooksOf(got))
    BY <1>1, CutJobsAssumption DEF Manifests, Fits
  <2> HIDE DEF union
  <2> QED
    BY <1>3, <1>5, <2>1, <2>2
<1> QED
  BY <1>4, <1>5

\* Each step of a scan.
LEMMA Scans == ASSUME CutInv, NEW w \in Scanners, Scan(w) PROVE CutInv'
<1>1. /\ view \in [Scanners -> Views] /\ view[w] \in Views /\ ViewInv(w) /\ Turns /\ SetInv /\ JobInv
      /\ cutset \in CutSets \cup {Nothing} /\ cutjob \in Jobs
  BY DEF CutInv, Typed
<1>2. view[w].pc \in {"scan", "write", "replace", "validate"} \/ w \notin keyLock
  BY <1>1 DEF Turns
<1>3. view[w].pc \notin {"idle", "closed", "delete"} /\ ~Compares(w) => Locks(w)
  BY <1>1 DEF Turns, Compares, Locks, Detects, Purpose, Scanners
<1>4. Compares(w) => ~Locks(w)
  BY DEF Compares, Locks, Detects
<1>5. ASSUME UNCHANGED <<cutset, apart, edits>>, ScanError(w), view[w].pc \notin {"idle", "closed", "delete"}
      PROVE  CutInv'
  BY <1>5, GivesUp
<1>6. cutjob' = cutjob => (Purpose(w)' = Purpose(w) /\ Compares(w)' = Compares(w) /\ Locks(w)' = Locks(w))
  BY DEF Purpose, Compares, Locks, Detects
<1>7. ASSUME cutset' = cutset
      PROVE  SameCuts /\ \A m : Fits(m)' = Fits(m) /\ Marks(m)' = Marks(m)
  BY <1>7 DEF SameCuts, Fits, Marks, LooksOf
<1>8. CASE ReadManifest(w)
  <2>1. view[w].pc = "read" /\ UNCHANGED <<cutset, apart, edits>> /\ (Locks(w) => FreeFor(w))
    BY <1>8 DEF ReadManifest
  <2>2. CASE Whole
    <3> DEFINE v == [view[w] EXCEPT !.base = cutset.man, !.pc = "scan", !.dir = cutset.dir]
    <3>1. /\ cutset \in CutSets /\ cutset.man \in Manifests /\ cutset.man # Nothing
          /\ Fits(cutset.man) /\ Marks(cutset.man)
      BY <1>1, <2>2, CutJobsAssumption DEF Whole, Readable, CutSets, SetInv
    <3>2. /\ v \in Views /\ v.pc = "scan" /\ v.got = view[w].got /\ v.base = cutset.man /\ v.dir = cutset.dir
      BY <1>1, <3>1 DEF Views, CutSets
    <3>3. view' = [view EXCEPT ![w] = v] /\ cutjob' = cutjob /\ keyLock' = IF Locks(w) THEN keyLock \cup {w} ELSE keyLock
      BY <1>8, <2>2 DEF ReadManifest
    <3>4. view'[w] = v
      BY <1>1, <3>3
    <3> HIDE DEF v
    <3>5. \A f \in Frames : v.got[f] = Nothing
      BY <1>1, <2>1, <3>2 DEF ViewInv, Reads
    <3>6. ViewInv(w)'
      BY <1>7, <2>1, <3>1, <3>2, <3>4, <3>5 DEF ViewInv, Reads
    <3>7. MeetsTheLost'
      <4>1. \A f \in Frames : view'["job"].got[f] = view["job"].got[f]
        BY <1>1, <3>2, <3>3 DEF Scanners
      <4>2. view["job"].pc \in {"scan", "scanned"} => view'["job"] = view["job"]
        BY <1>1, <2>1, <3>3 DEF Scanners
      <4> QED
        BY <2>1, <3>3, <4>1, <4>2 DEF CutInv, MeetsTheLost
    <3> QED
      BY <1>2, <1>7, <2>1, <3>2, <3>3, <3>6, <3>7, ScanGoesOn DEF FreeFor
  <2>3. CASE ~Whole
    BY <1>5, <1>8, <2>1, <2>3 DEF ReadManifest
  <2> QED
    BY <2>2, <2>3
<1>9. CASE ScanFrame(w)
  <2>1. view[w].pc = "scan" /\ UNCHANGED <<cutset, apart, edits>>
    BY <1>9 DEF ScanFrame
  <2>2. ASSUME NEW f \in Frames, view[w].got[f] = Nothing, Present(f),
               Compares(w) => cutset.frames[f] = view[w].base.rec[f],
               view' = [view EXCEPT ![w].got[f] = cutset.frames[f]], UNCHANGED <<cutjob, keyLock>>
        PROVE  CutInv'
    <3> DEFINE got == [view[w].got EXCEPT ![f] = cutset.frames[f]]
               v == [view[w] EXCEPT !.got = got]
    <3>1. cutset # Nothing /\ cutset.frames[f] \in Cuts
      BY <1>1, <2>2 DEF Present, CutSets, Images
    <3>2. got \in Images /\ \A g \in Frames : got[g] = IF g = f THEN cutset.frames[f] ELSE view[w].got[g]
      BY <1>1, <3>1 DEF Images, Views
    <3>3. view' = [view EXCEPT ![w] = v]
      BY <2>2
    <3> HIDE DEF got
    <3>4. v \in Views /\ v.pc = "scan" /\ v.got = got /\ v.base = view[w].base /\ v.dir = view[w].dir
      BY <1>1, <2>1, <3>2 DEF Views
    <3>5. view'[w] = v
      BY <1>1, <3>3
    <3> HIDE DEF v
    <3>6. ViewInv(w)'
      BY <1>1, <1>6, <1>7, <2>1, <2>2, <3>2, <3>4, <3>5 DEF ViewInv, Reads
    <3>7. MeetsTheLost'
      <4>1. CASE w = "dialog"
        <5>1. view'["job"] = view["job"]
          BY <1>1, <3>3, <4>1 DEF Scanners
        <5> QED
          BY <2>1, <2>2, <5>1 DEF CutInv, MeetsTheLost
      <4>2. CASE w = "job"
        <5>1. ASSUME cutjob.pc = "rescan", ~cutjob.stood, v.base = cutjob.base
              PROVE  \E g \in Frames : /\ v.got[g] = Nothing
                                       /\ cutset # Nothing => cutset.frames[g] # cutjob.shot[g]
          <6>1. PICK g \in Frames : /\ view["job"].got[g] = Nothing
                                    /\ cutset # Nothing => cutset.frames[g] # cutjob.shot[g]
            BY <3>4, <4>2, <5>1 DEF CutInv, MeetsTheLost
          <6>2. cutset.frames[f] = cutjob.shot[f]
            BY <1>1, <2>2, <3>4, <4>2, <5>1 DEF JobInv, Works, Compares, Purpose
          <6> QED
            BY <3>1, <3>2, <3>4, <4>2, <6>1, <6>2
        <5> QED
          BY <2>1, <2>2, <3>4, <3>5, <4>2, <5>1 DEF MeetsTheLost
      <4> QED
        BY <4>1, <4>2 DEF Scanners
    <3> QED
      BY <1>1, <1>7, <2>1, <2>2, <3>3, <3>4, <3>6, <3>7, ScanGoesOn DEF Turns
  <2> QED
    BY <1>5, <1>9, <2>1, <2>2 DEF ScanFrame
<1>10. ASSUME NEW pc \in {"scanned", "write", "replace", "validate"}, view' = [view EXCEPT ![w].pc = pc],
              view[w].pc \in {"scan", "write", "replace"}, UNCHANGED <<cutjob, keyLock, apart, edits>>,
              SameCuts,
              \A f \in Frames : view[w].got[f] # Nothing,
              pc = "scanned" <=> Compares(w),
              pc = "scanned" => view[w].pc = "scan",
              pc = "replace" /\ Purpose(w) = "union" => LooksOf(view[w].got) = LooksOf(cutjob.shot),
              pc = "validate" => Purpose(w) # "union"
       PROVE  CutInv'
  <2> DEFINE v == [view[w] EXCEPT !.pc = pc]
  <2>1. view' = [view EXCEPT ![w] = v] /\ view'[w] = v
    BY <1>1, <1>10
  <2>2. v \in Views /\ v.pc = pc /\ v.got = view[w].got /\ v.base = view[w].base /\ v.dir = view[w].dir
    BY <1>1 DEF Views
  <2> HIDE DEF v
  <2>3. v.got \in [Frames -> Cuts]
    BY <1>1, <1>10, <2>2 DEF Views, Images
  <2>4. ViewInv(w)'
    <3>1. Reads(w)'
      BY <1>1, <1>3, <1>6, <1>10, <2>1, <2>2, <2>3 DEF ViewInv, Reads, LooksOf
    <3>2. Fits(view[w].base)' /\ (cutset # Nothing /\ view[w].dir = cutset.dir => Marks(view[w].base))'
      BY <1>1, <1>10, <2>1, <2>2 DEF ViewInv, Fits, Marks, LooksOf, SameCuts
    <3> QED
      BY <3>1, <3>2 DEF ViewInv
  <2>5. MeetsTheLost'
    <3>1. /\ view'["job"].got = view["job"].got /\ view'["job"].base = view["job"].base
          /\ view["job"].pc \in {"scan", "scanned"} /\ cutjob.pc = "rescan"
               => view'["job"].pc \in {"scan", "scanned"}
      BY <1>1, <1>10, <2>1, <2>2 DEF Scanners, Compares, Purpose
    <3>2. cutset' # Nothing => cutset # Nothing /\ cutset'.frames = cutset.frames
      BY <1>10 DEF SameCuts
    <3> QED
      BY <1>10, <3>1, <3>2 DEF CutInv, MeetsTheLost
  <2>6. w \in keyLock' => Locks(w) /\ v.pc # "scanned"
    BY <1>1, <1>4, <1>10, <2>2 DEF Turns
  <2> QED
    BY <1>10, <2>1, <2>2, <2>4, <2>5, <2>6, ScanGoesOn
<1>11. CASE EndScan(w)
  <2>1. /\ view[w].pc = "scan" /\ UNCHANGED <<cutset, apart, edits>>
        /\ \A f \in Frames : view[w].got[f] # Nothing
    BY <1>11 DEF EndScan
  <2>2. CASE Unmoved(w)
    <3> DEFINE pc == IF Compares(w) THEN "scanned" ELSE "write"
    <3>1. view' = [view EXCEPT ![w].pc = pc] /\ UNCHANGED <<cutjob, keyLock>>
      BY <1>11, <2>2 DEF EndScan, Goes
    <3> QED
      BY <1>7, <1>10, <2>1, <3>1
  <2>3. CASE ~Unmoved(w)
    BY <1>5, <1>11, <2>1, <2>3 DEF EndScan
  <2> QED
    BY <2>2, <2>3
<1>12. view[w].pc \in {"write", "replace"} =>
         ~Compares(w) /\ view[w].got \in [Frames -> Cuts] /\ \A f \in Frames : view[w].got[f] # Nothing
  BY <1>1, <1>4, CutJobsAssumption DEF ViewInv, Reads
<1>13. CASE CheckIdentity(w)
  <2>1. view[w].pc = "write" /\ UNCHANGED <<cutset, apart, edits>>
    BY <1>13 DEF CheckIdentity
  <2>2. CASE ~Unmoved(w) \/ Next_Manifest(w) = Nothing
    BY <1>5, <1>13, <2>1, <2>2 DEF CheckIdentity
  <2>3. CASE Unmoved(w) /\ Next_Manifest(w) # Nothing
    <3>1. view' = [view EXCEPT ![w].pc = "replace"] /\ UNCHANGED <<cutjob, keyLock>>
      BY <1>13, <2>3 DEF CheckIdentity, Goes
    <3>2. Purpose(w) = "union" => LooksOf(view[w].got) = LooksOf(cutjob.shot)
      BY <2>1, <2>3, NextManifest
    <3> QED
      BY <1>7, <1>10, <1>12, <2>1, <3>1, <3>2
  <2> QED
    BY <2>2, <2>3
<1>14. CASE ReplaceManifest(w)
  <2>1. view[w].pc = "replace" /\ UNCHANGED <<apart, edits>>
    BY <1>14 DEF ReplaceManifest
  <2>2. CASE cutset = Nothing \/ cutset.dir # view[w].dir
    BY <1>5, <1>14, <2>1, <2>2 DEF ReplaceManifest
  <2>3. CASE cutset # Nothing /\ cutset.dir = view[w].dir
    <3> DEFINE m == Next_Manifest(w)
    <3>1. cutset' = [cutset EXCEPT !.man = m]
      BY <1>14, <2>3 DEF ReplaceManifest
    <3>2. m \in Manifests /\ Fits(m) /\ Marks(m) /\ m # Nothing
      BY <2>1, <2>3, NextManifest
    <3> HIDE DEF m
    <3>3. /\ cutset' \in CutSets /\ cutset'.man = m
          /\ cutset'.dir = cutset.dir /\ cutset'.born = cutset.born /\ cutset'.frames = cutset.frames
      BY <1>1, <2>3, <3>1, <3>2 DEF CutSets
    <3>4. cutset' # Nothing
      BY <3>3, CutJobsAssumption
    <3>5. SetInv'
      BY <1>1, <2>1, <2>3, <3>2, <3>3 DEF SetInv, Fits, Marks, LooksOf
    <3>6. SameCuts
      BY <2>3, <3>3, <3>5 DEF SameCuts
    <3>7. CASE Purpose(w) = "union"
      <4>1. w = "job" /\ cutjob.pc = "union"
        BY <3>7 DEF Purpose
      <4>2. /\ view' = [view EXCEPT !["job"] = IdleView] /\ keyLock' = keyLock \ {"job"}
            /\ cutjob' = [cutjob EXCEPT !.pc = "encode"]
        BY <1>14, <2>3, <3>7, <4>1 DEF ReplaceManifest, JobGoes
      <4>3. /\ cutjob' \in Jobs /\ cutjob'.pc = "encode"
            /\ \A x \in {"shot", "base", "union", "output", "ctx", "stage", "scratch", "owner", "lost", "stood"} :
                 cutjob'[x] = cutjob[x]
        BY <1>1, <4>2 DEF Jobs, JobPcs
      <4>4. Fits(cutjob.base)' /\ FramedByItsOwnUnion' /\ LooksOf(cutjob.shot)' = LooksOf(cutjob.shot)
        BY <1>1, <4>3 DEF JobInv, Fits, LooksOf, FramedByItsOwnUnion
      <4>5. JobInv' /\ MeetsTheLost'
        BY <1>1, <2>1, <4>1, <4>3, <4>4 DEF JobInv, Works, Owes, MeetsTheLost
      <4> QED
        BY <2>1, <3>6, <4>2, <4>3, <4>5, JobTurns
    <3>8. CASE Purpose(w) # "union"
      <4>1. view' = [view EXCEPT ![w].pc = "validate"] /\ UNCHANGED <<cutjob, keyLock>>
        BY <1>14, <2>3, <3>8 DEF ReplaceManifest, Goes
      <4> QED
        BY <1>10, <1>12, <2>1, <3>6, <3>8, <4>1
    <3> QED
      BY <3>7, <3>8
  <2> QED
    BY <2>2, <2>3
<1>15. CASE Redetected(w)
  <2>1. view[w].pc = "validate" /\ UNCHANGED <<cutset, apart, edits>>
    BY <1>15 DEF Redetected
  <2>2. CASE ~Valid
    BY <1>5, <1>15, <2>1, <2>2 DEF Redetected
  <2>3. CASE Valid /\ w = "dialog"
    <3>1. /\ view' = [view EXCEPT !["dialog"] = Rests("dialog")] /\ keyLock' = keyLock \ {"dialog"}
          /\ cutjob' = cutjob
      BY <1>15, <2>3 DEF Redetected
    <3> QED
      BY <2>1, <3>1, RestsTyped, DialogTurns
  <2>4. CASE Valid /\ w = "job"
    <3>1. cutset.man \in Manifests /\ cutset.man # Nothing /\ Fits(cutset.man)
      BY <1>1, <2>4, CutJobsAssumption DEF Valid, Whole, Readable, CutSets, SetInv
    <3>2. cutjob.pc \in {"detect", "detect again", "baseline", "rescan"} /\ ~Compares("job")
      BY <1>1, <1>4, <2>1, <2>4 DEF Turns, ViewInv, Reads, Purpose, Scanners
    <3>3. cutjob.pc \in {"detect", "detect again"}
      BY <3>2 DEF Compares, Purpose
    <3>4. \E pc \in {"detect again", "baseline"} :
            cutjob' = [cutjob EXCEPT !.base = cutset.man, !.owner = TRUE, !.pc = pc]
      BY <1>15, <2>4 DEF Redetected
    <3>5. /\ cutjob' \in Jobs /\ cutjob'.pc \in {"detect again", "baseline"} /\ cutjob'.base = cutset.man
          /\ cutjob'.owner
          /\ \A x \in {"shot", "output", "stage", "scratch", "lost"} : cutjob'[x] = cutjob[x]
      <4>0. {"detect again", "baseline"} \subseteq JobPcs
        BY DEF JobPcs
      <4>1. cutjob' \in Jobs
        <5>1. PICK pc \in JobPcs : cutjob' = [cutjob EXCEPT !.base = cutset.man, !.owner = TRUE, !.pc = pc]
          BY <3>4, <4>0
        <5> QED
          BY <1>1, <3>1, <5>1 DEF Jobs
      <4> QED
        BY <1>1, <3>1, <3>4, <4>1 DEF Jobs
    <3>6. Fits(cutjob.base)' /\ FramedByItsOwnUnion'
      BY <1>1, <3>1, <3>5 DEF JobInv, Fits, LooksOf, FramedByItsOwnUnion
    <3>7. JobInv' /\ MeetsTheLost'
      BY <1>1, <2>1, <3>1, <3>3, <3>5, <3>6 DEF JobInv, Works, Owes, MeetsTheLost
    <3>8. view' = [view EXCEPT !["job"] = [IdleView EXCEPT !.pc = "read"]] /\ keyLock' = keyLock \ {"job"}
      BY <1>15, <2>4 DEF Redetected
    <3> QED
      BY <1>7, <2>1, <3>5, <3>7, <3>8, JobTurns
  <2> QED
    BY <2>2, <2>3, <2>4 DEF Scanners
<1> QED
  BY <1>8, <1>9, <1>11, <1>13, <1>14, <1>15 DEF Scan

-----------------------------------------------------------------------------
(* The steps that change the set *)

LEMMA FreshCutsTyped ==
    ASSUME NEW stamp \in 0..MaxEdits
    PROVE  /\ FreshCuts(stamp) \in [Frames -> Cuts] /\ LooksOf(FreshCuts(stamp)) \in Unions
           /\ \A f \in Frames : FreshCuts(stamp)[f].stamp = stamp
<1>1. FreshCuts(stamp) \in [Frames -> Cuts] /\ \A f \in Frames : FreshCuts(stamp)[f].stamp = stamp
  BY DEF FreshCuts, Cuts, Looks
<1>2. LooksOf(FreshCuts(stamp)) \in Unions
  BY <1>1 DEF LooksOf, Unions, Cuts
<1> QED
  BY <1>1, <1>2

\* A promoted set records what it holds and was born with.
LEMMA PromotedTyped ==
    ASSUME NEW cuts \in [Frames -> Cuts], NEW dir \in 0..4, NEW id \in 0..4
    PROVE  /\ Promoted(cuts, dir, id) \in CutSets /\ Promoted(cuts, dir, id).frames = cuts
           /\ Promoted(cuts, dir, id).dir = dir /\ Promoted(cuts, dir, id).born = cuts
           /\ Promoted(cuts, dir, id).man \in Manifests /\ Promoted(cuts, dir, id).man.rec = cuts
           /\ Promoted(cuts, dir, id).man.union = LooksOf(cuts)
<1> DEFINE m == [rec |-> cuts, union |-> LooksOf(cuts), edited |-> FALSE, id |-> id]
<1>1. LooksOf(cuts) \in Unions
  BY DEF LooksOf, Unions, Cuts
<1>2. m \in Manifests /\ m.rec = cuts /\ m.union = LooksOf(cuts)
  BY <1>1 DEF Manifests
<1>3. Promoted(cuts, dir, id) = [frames |-> cuts, man |-> m, dir |-> dir, born |-> cuts]
  BY DEF Promoted, Manifest
<1> HIDE DEF m
<1>4. cuts \in Images
  BY DEF Images
<1> QED
  BY <1>2, <1>3, <1>4 DEF CutSets

\* What the others do: the set is given other files, goes, or comes anew, and no
\* file has the stamp of an earlier one.
LEMMA SetSteps ==
    ASSUME CutInv, UNCHANGED <<keyLock, apart>>, edits' \in {edits, edits + 1}, edits' <= MaxEdits,
           cutjob' \in Jobs, JobInv', cutset' \in CutSets \cup {Nothing},
           \/ /\ cutjob.stood => cutjob'.stood
              /\ \A x \in {"pc", "shot", "base", "union", "output", "ctx", "stage", "scratch", "owner", "lost"} :
                   cutjob'[x] = cutjob[x]
           \/ view["job"].pc = "idle" /\ cutjob'.pc # "rescan",
           cutset' # Nothing =>
             /\ Fits(cutset'.man) /\ (cutset'.man # Nothing /\ cutset'.man.rec # cutset'.born => cutset'.man.edited)
             /\ \A f \in Frames :
                  \/ cutset'.frames[f] = Nothing
                  \/ cutset # Nothing /\ cutset'.frames[f] = cutset.frames[f]
                  \/ cutset'.frames[f].stamp = edits + 1 /\ edits' = edits + 1
                  \/ cutset'.frames[f].stamp <= edits /\ cutjob'.pc # "rescan",
           \/ cutset' = Nothing
           \/ \A w \in Scanners : cutset'.dir # view[w].dir
           \/ cutset # Nothing /\ cutset'.dir = cutset.dir /\ cutset'.born = cutset.born,
           view' = view
    PROVE  CutInv'
<1>1. /\ cutjob \in Jobs /\ JobInv /\ SetInv /\ cutset \in CutSets \cup {Nothing} /\ edits \in Nat
      /\ view \in [Scanners -> Views]
  BY CutJobsAssumption DEF CutInv, Typed
<1>2. Typed'
  BY CutJobsAssumption DEF CutInv, Typed
<1>3. SetInv'
  <2>1. \A m : Fits(m)' = Fits(m)
    BY DEF Fits, LooksOf
  <2>2. ASSUME cutset' # Nothing, NEW f \in Frames, cutset'.frames[f] # Nothing
        PROVE  cutset'.frames[f].stamp <= edits'
    <3>1. cutset'.frames[f] \in Cuts
      BY <2>2 DEF CutSets, Images
    <3>2. cutset'.frames[f].stamp \in Nat
      BY <3>1, CutJobsAssumption DEF Cuts
    <3>3. cutset # Nothing /\ cutset'.frames[f] = cutset.frames[f] => cutset'.frames[f].stamp <= edits
      BY <1>1, <2>2 DEF SetInv
    <3> QED
      BY <1>1, <2>2, <3>2, <3>3
  <2> QED
    BY <2>1, <2>2 DEF SetInv, Marks
<1>4. ASSUME NEW w \in Scanners PROVE ViewInv(w)'
  BY ViewStays DEF Scanners
<1>5. Turns'
  <2>1. \A w \in keyLock : Locks(w) => (view["job"].pc = "idle" /\ w = "job") \/ Locks(w)'
    BY DEF CutInv, Typed, Locks, Detects, Purpose, Scanners
  <2>2. view["job"].pc = "idle" => "job" \notin keyLock
    BY DEF CutInv, Turns
  <2> QED
    BY <2>1, <2>2 DEF CutInv, Turns
<1>6. MeetsTheLost'
  <2>1. SUFFICES ASSUME cutjob'.pc = "rescan", ~cutjob'.stood,
                        view["job"].pc \in {"scan", "scanned"} => view["job"].base = cutjob'.base
                 PROVE  \E f \in Frames : /\ view["job"].got[f] = Nothing
                                          /\ cutset' # Nothing => cutset'.frames[f] # cutjob'.shot[f]
    BY DEF MeetsTheLost
  <2>2. cutjob.pc = "rescan" /\ ~cutjob.stood /\ cutjob'.base = cutjob.base /\ cutjob'.shot = cutjob.shot
    BY <2>1
  <2>3. PICK f \in Frames : /\ view["job"].got[f] = Nothing
                            /\ cutset # Nothing => cutset.frames[f] # cutjob.shot[f]
    BY <2>1, <2>2 DEF CutInv, MeetsTheLost
  <2>4. cutjob.shot[f] # Nothing /\ cutjob.shot[f].stamp \in Nat /\ cutjob.shot[f].stamp <= edits
    <3>1. cutjob.base \in Manifests /\ cutjob.shot = cutjob.base.rec /\ cutjob.shot # Nothing
      <4>1. cutjob.base \in Manifests /\ cutjob.shot = cutjob.base.rec
        BY <1>1, <2>2 DEF JobInv, Works, Jobs
      <4>2. cutjob.base.rec \in [Frames -> Cuts]
        BY <4>1 DEF Manifests
      <4> QED
        BY <4>1, <4>2, NothingIsApart
    <3>2. cutjob.shot[f] \in Cuts
      BY <3>1 DEF Manifests
    <3>3. cutjob.shot[f] # Nothing /\ cutjob.shot[f].stamp \in Nat
      BY <3>2, NothingIsApart, CutJobsAssumption DEF Cuts
    <3> QED
      BY <1>1, <3>1, <3>3 DEF JobInv
  <2>5. cutset' # Nothing => cutset'.frames[f] # cutjob.shot[f]
    BY <1>1, <2>1, <2>3, <2>4
  <2> QED
    BY <2>2, <2>3, <2>5
<1> QED
  BY <1>2, <1>3, <1>4, <1>5, <1>6 DEF CutInv

LEMMA JobMakes == ASSUME CutInv, ProduceCuts \/ PromoteCuts PROVE CutInv'
<1>1. /\ cutjob \in Jobs /\ JobInv /\ SetInv /\ cutset \in CutSets \cup {Nothing} /\ edits \in 0..MaxEdits
  BY DEF CutInv, Typed
<1>2. cutjob.pc \in {"produce", "promote"} /\ view["job"].pc = "idle" /\ UNCHANGED <<view, keyLock, apart>>
  BY DEF ProduceCuts, PromoteCuts, CutInv, Turns
<1>3. CASE ProduceCuts
  <2>1. edits' = edits + 1 /\ edits' \in 0..MaxEdits /\ cutset' = cutset /\ cutjob.pc = "produce"
    BY <1>1, <1>3, CutJobsAssumption DEF ProduceCuts
  <2> DEFINE cuts == FreshCuts(edits')
             union == LooksOf(FreshCuts(edits'))
  <2>2. /\ cuts \in [Frames -> Cuts] /\ union \in Unions /\ union = LooksOf(cuts)
        /\ \A f \in Frames : cuts[f].stamp = edits'
    BY <2>1, FreshCutsTyped
  <2>3. cutjob' = [cutjob EXCEPT !.pc = "copy stage", !.owner = TRUE, !.shot = cuts, !.union = union]
    BY <1>3 DEF ProduceCuts
  <2> HIDE DEF cuts, union
  <2>4. cuts \in Images
    BY <2>2 DEF Images
  <2>5. /\ cutjob' \in Jobs /\ cutjob'.pc = "copy stage" /\ cutjob'.owner /\ cutjob'.shot = cuts
        /\ cutjob'.union = union
        /\ \A x \in {"base", "output", "stage", "scratch", "lost"} : cutjob'[x] = cutjob[x]
    BY <1>1, <2>2, <2>3, <2>4 DEF Jobs, JobPcs
  <2>6. Fits(cutjob.base)' /\ FramedByItsOwnUnion' /\ LooksOf(cutjob'.shot) = LooksOf(cutjob.shot)'
    BY <1>1, <2>5 DEF JobInv, Fits, LooksOf, FramedByItsOwnUnion
  <2>7. JobInv'
    <3>1. Works'
      BY <2>2, <2>5 DEF Works, LooksOf
    <3>2. Owes'
      BY <1>1, <2>1, <2>5 DEF JobInv, Owes
    <3>3. \A f \in Frames : cutjob'.shot[f].stamp <= edits'
      <4>1. edits' \in Nat
        BY <2>1, CutJobsAssumption
      <4>2. \A f \in Frames : cuts[f].stamp <= edits'
        BY <2>2, <4>1
      <4> QED
        BY <2>5, <4>2
    <3> QED
      BY <2>6, <3>1, <3>2, <3>3 DEF JobInv
  <2>8. cutset' # Nothing =>
          /\ Fits(cutset'.man) /\ (cutset'.man # Nothing /\ cutset'.man.rec # cutset'.born => cutset'.man.edited)
          /\ \A f \in Frames : cutset'.frames[f] = cutset.frames[f]
    BY <1>1, <2>1 DEF SetInv, Marks
  <2> QED
    <3>1. edits' \in {edits, edits + 1} /\ edits' <= MaxEdits
      BY <1>1, <2>1, CutJobsAssumption
    <3>2. view["job"].pc = "idle" /\ cutjob'.pc # "rescan"
      BY <1>2, <2>5
    <3>3. \/ cutset' = Nothing
          \/ \A w \in Scanners : cutset'.dir # view[w].dir
          \/ cutset # Nothing /\ cutset'.dir = cutset.dir /\ cutset'.born = cutset.born
      BY <2>1
    <3>4. cutset' \in CutSets \cup {Nothing}
      BY <1>1, <2>1
    <3>5. cutset' # Nothing =>
            /\ Fits(cutset'.man) /\ (cutset'.man # Nothing /\ cutset'.man.rec # cutset'.born => cutset'.man.edited)
            /\ \A f \in Frames : cutset # Nothing /\ cutset'.frames[f] = cutset.frames[f]
      BY <2>1, <2>8
    <3> QED
      BY <1>2, <2>5, <2>7, <3>1, <3>2, <3>3, <3>4, <3>5, SetSteps
<1>4. CASE PromoteCuts
  <2>1. cutjob.pc = "promote" /\ edits' = edits /\ cutset' = Promoted(cutjob.shot, NewDir, NewId)
    BY <1>4 DEF PromoteCuts
  <2>2. cutjob.shot \in [Frames -> Cuts]
    BY <1>1, <2>1 DEF JobInv, Works
  <2>3. NewDir \in 0..4 /\ NewId \in 0..4 /\ \A w \in Scanners : view[w].dir # NewDir
    BY NewIdentities DEF CutInv
  <2>4. /\ cutset' \in CutSets /\ cutset'.dir = NewDir /\ cutset'.frames = cutjob.shot
        /\ cutset'.man.rec = cutset'.born /\ cutset'.man.union = LooksOf(cutset'.man.rec)
    BY <2>1, <2>2, <2>3, PromotedTyped
  <2>5. Fits(cutset'.man)
    BY <2>4 DEF Fits
  <2>6. cutjob' = [cutjob EXCEPT !.pc = "validate promoted", !.stage = FALSE]
    BY <1>4 DEF PromoteCuts
  <2>7. /\ cutjob' \in Jobs /\ cutjob'.pc = "validate promoted" /\ ~cutjob'.stage
        /\ \A x \in {"shot", "base", "union", "output", "scratch", "owner", "lost", "stood"} : cutjob'[x] = cutjob[x]
    BY <1>1, <2>6 DEF Jobs, JobPcs
  <2>8. Fits(cutjob.base)' /\ FramedByItsOwnUnion' /\ LooksOf(cutjob'.shot) = LooksOf(cutjob.shot)'
    BY <1>1, <2>7 DEF JobInv, Fits, LooksOf, FramedByItsOwnUnion
  <2>9. JobInv'
    BY <1>1, <2>1, <2>7, <2>8 DEF JobInv, Works, Owes
  <2>10. \A f \in Frames : cutset'.frames[f].stamp <= edits
    <3>1. cutjob.shot # Nothing /\ \A f \in Frames : cutjob.shot[f] # Nothing
      BY <2>2, NothingIsApart
    <3> QED
      BY <1>1, <2>4, <3>1 DEF JobInv
  <2>11. edits' \in {edits, edits + 1} /\ edits' <= MaxEdits
    BY <1>1, <2>1, CutJobsAssumption
  <2>12. view["job"].pc = "idle" /\ cutjob'.pc # "rescan"
    BY <1>2, <2>7
  <2>13. cutset' # Nothing =>
           /\ Fits(cutset'.man) /\ (cutset'.man # Nothing /\ cutset'.man.rec # cutset'.born => cutset'.man.edited)
           /\ \A f \in Frames : cutset'.frames[f].stamp <= edits /\ cutjob'.pc # "rescan"
    BY <2>4, <2>5, <2>10, <2>12
  <2>14. \A w \in Scanners : cutset'.dir # view[w].dir
    BY <2>3, <2>4
  <2> QED
    BY <1>2, <2>4, <2>7, <2>9, <2>11, <2>12, <2>13, <2>14, SetSteps
<1> QED
  BY <1>3, <1>4

\* A promotion, an edit and a deletion of another program.
LEMMA OthersStep ==
    ASSUME CutInv, List \/ Delete \/ RemoveEntry \/ RemoveDirectory \/ OtherPromotes \/ EditFrame
    PROVE  CutInv'
<1>1. /\ cutjob \in Jobs /\ SetInv /\ cutset \in CutSets \cup {Nothing} /\ edits \in 0..MaxEdits
      /\ view \in [Scanners -> Views] /\ view["dialog"] \in Views /\ ViewInv("dialog")
  BY DEF CutInv, Typed, Scanners
<1>2. view["dialog"].pc \in {"idle", "delete"} =>
        "dialog" \notin keyLock /\ view["dialog"].base = Nothing
  BY <1>1 DEF CutInv, Turns, ViewInv, Reads
<1>3. CASE List
  <2> DEFINE v == [view["dialog"] EXCEPT !.pc = "read"]
  <2>1. view["dialog"].pc = "idle" /\ view' = [view EXCEPT !["dialog"] = v] /\ UNCHANGED <<cutset, cutjob, keyLock, apart, edits>>
    BY <1>3 DEF List, Goes
  <2>2. v \in Views /\ v.pc = "read" /\ v.base = view["dialog"].base /\ v.got = view["dialog"].got
    BY <1>1 DEF Views
  <2> HIDE DEF v
  <2> QED
    BY <1>1, <1>2, <2>1, <2>2, DialogTurns DEF ViewInv, Reads
<1>4. CASE Delete
  <2> DEFINE v == [view["dialog"] EXCEPT !.pc = "delete", !.dir = cutset.dir]
  <2>1. view["dialog"].pc = "idle" /\ view' = [view EXCEPT !["dialog"] = v] /\ UNCHANGED <<cutset, cutjob, keyLock, apart, edits>>
    BY <1>4 DEF Delete
  <2>2. v \in Views /\ v.pc = "delete" /\ v.base = view["dialog"].base
    BY <1>1, <1>4 DEF Delete, Views, CutSets
  <2> HIDE DEF v
  <2> QED
    BY <1>2, <2>1, <2>2, DialogTurns
\* Who changes the set lets the job know at most that its frames stood.
<1>5. ASSUME NEW set, Witnessed(set)
      PROVE  /\ cutjob' \in Jobs /\ (cutjob.stood => cutjob'.stood)
             /\ \A x \in {"pc", "shot", "base", "union", "output", "ctx", "stage", "scratch", "owner", "lost"} :
                  cutjob'[x] = cutjob[x]
  <2>1. CASE cutjob.pc = "rescan"
    <3> DEFINE stood == cutjob.stood \/ (set # Nothing /\ set.frames = cutjob.shot)
    <3>1. stood \in BOOLEAN /\ (cutjob.stood => stood)
      OBVIOUS
    <3>2. cutjob' = [cutjob EXCEPT !.stood = stood]
      BY <1>5, <2>1 DEF Witnessed
    <3> HIDE DEF stood
    <3> QED
      BY <1>1, <3>1, <3>2 DEF Jobs
  <2>2. CASE cutjob.pc # "rescan"
    BY <1>1, <1>5, <2>2 DEF Witnessed
  <2> QED
    BY <2>1, <2>2
<1>6. ASSUME NEW set, Witnessed(set), edits' \in {edits, edits + 1}
      PROVE  JobInv'
  BY <1>5, <1>6, JobKeeps
\* The files and the manifest of the directory that stands.
<1>7. ASSUME cutset # Nothing, cutset' = cutset \/ cutset' = [cutset EXCEPT !.man = Nothing]
                               \/ \E g \in Frames, cut \in Cuts \cup {Nothing} :
                                    /\ cutset' = [cutset EXCEPT !.frames[g] = cut]
                                    /\ cut # Nothing => cut.stamp = edits + 1 /\ edits' = edits + 1,
             Witnessed(cutset'), UNCHANGED <<keyLock, apart, view>>, edits' \in {edits, edits + 1}, edits' <= MaxEdits
      PROVE  CutInv'
  <2>1. /\ cutset' \in CutSets /\ cutset'.dir = cutset.dir /\ cutset'.born = cutset.born
        /\ cutset'.man \in {cutset.man, Nothing}
        /\ \A f \in Frames : \/ cutset'.frames[f] = Nothing \/ cutset'.frames[f] = cutset.frames[f]
                             \/ cutset'.frames[f].stamp = edits + 1 /\ edits' = edits + 1
    <3>1. CASE cutset' = cutset \/ cutset' = [cutset EXCEPT !.man = Nothing]
      BY <1>1, <1>7, <3>1 DEF CutSets
    <3>2. ASSUME NEW g \in Frames, NEW cut \in Cuts \cup {Nothing},
                 cutset' = [cutset EXCEPT !.frames[g] = cut],
                 cut # Nothing => cut.stamp = edits + 1 /\ edits' = edits + 1
          PROVE  /\ cutset' \in CutSets /\ cutset'.dir = cutset.dir /\ cutset'.born = cutset.born
                 /\ cutset'.man \in {cutset.man, Nothing}
                 /\ \A f \in Frames : \/ cutset'.frames[f] = Nothing \/ cutset'.frames[f] = cutset.frames[f]
                                      \/ cutset'.frames[f].stamp = edits + 1 /\ edits' = edits + 1
      <4> DEFINE files == [cutset.frames EXCEPT ![g] = cut]
      <4>1. files \in Images /\ \A f \in Frames : files[f] = IF f = g THEN cut ELSE cutset.frames[f]
        BY <1>1, <1>7 DEF CutSets, Images
      <4>2. cutset' = [cutset EXCEPT !.frames = files]
        BY <3>2
      <4> HIDE DEF files
      <4>3. /\ cutset' \in CutSets /\ cutset'.frames = files /\ cutset'.dir = cutset.dir
            /\ cutset'.born = cutset.born /\ cutset'.man = cutset.man
        BY <1>1, <1>7, <4>1, <4>2 DEF CutSets
      <4> QED
        BY <3>2, <4>1, <4>3
    <3> QED
      BY <1>7, <3>1, <3>2
  <2>2. Fits(cutset'.man) /\ (cutset'.man # Nothing /\ cutset'.man.rec # cutset'.born => cutset'.man.edited)
    BY <1>1, <1>7, <2>1 DEF SetInv, Fits, Marks
  <2> QED
    BY <1>5, <1>6, <1>7, <2>1, <2>2, SetSteps
<1>8. CASE RemoveEntry
  <2>1. cutset # Nothing /\ edits' = edits /\ UNCHANGED <<view, keyLock, apart>> /\ Witnessed(cutset')
    BY <1>8 DEF RemoveEntry
  <2>2. \/ cutset' = [cutset EXCEPT !.man = Nothing]
        \/ \E g \in Frames : cutset' = [cutset EXCEPT !.frames[g] = Nothing]
    BY <1>8 DEF RemoveEntry
  <2> QED
    BY <1>1, <1>7, <2>1, <2>2, CutJobsAssumption
<1>9. CASE EditFrame
  <2>1. PICK g \in Frames, look \in Looks :
          Present(g) /\ cutset' = [cutset EXCEPT !.frames[g] = [look |-> look, stamp |-> edits']]
    BY <1>9 DEF EditFrame
  <2>2. /\ edits' = edits + 1 /\ edits' \in 0..MaxEdits /\ UNCHANGED <<view, keyLock, apart>>
        /\ Witnessed(cutset')
    BY <1>1, <1>9, CutJobsAssumption DEF EditFrame
  <2>3. [look |-> look, stamp |-> edits'] \in Cuts
    BY <2>2 DEF Cuts
  <2>4. cutset # Nothing
    BY <2>1 DEF Present
  <2> QED
    <3>1. \E g1 \in Frames, cut \in Cuts \cup {Nothing} :
            /\ cutset' = [cutset EXCEPT !.frames[g1] = cut]
            /\ cut # Nothing => cut.stamp = edits + 1 /\ edits' = edits + 1
      <4> DEFINE saved == [look |-> look, stamp |-> edits']
      <4>1. saved \in Cuts \cup {Nothing} /\ saved.stamp = edits + 1 /\ edits' = edits + 1
        BY <2>2, <2>3
      <4>2. cutset' = [cutset EXCEPT !.frames[g] = saved]
        BY <2>1
      <4> HIDE DEF saved
      <4> QED
        BY <4>1, <4>2
    <3>2. edits' \in {edits, edits + 1} /\ edits' <= MaxEdits
      BY <2>2, CutJobsAssumption
    <3> QED
      BY <1>7, <2>2, <2>4, <3>1, <3>2
<1>10. CASE OtherPromotes
  <2>1. /\ edits' = edits + 1 /\ edits' \in 0..MaxEdits /\ UNCHANGED <<view, keyLock, apart>>
        /\ cutset' = Promoted(FreshCuts(edits'), NewDir, NewId) /\ Witnessed(cutset')
    BY <1>1, <1>10, CutJobsAssumption DEF OtherPromotes
  <2>2. NewDir \in 0..4 /\ NewId \in 0..4 /\ \A w \in Scanners : view[w].dir # NewDir
    BY NewIdentities DEF CutInv
  <2>3. FreshCuts(edits') \in [Frames -> Cuts] /\ \A f \in Frames : FreshCuts(edits')[f].stamp = edits'
    BY <2>1, FreshCutsTyped
  <2>4. /\ cutset' \in CutSets /\ cutset'.dir = NewDir /\ cutset'.man.rec = cutset'.born
        /\ cutset'.man.union = LooksOf(cutset'.man.rec)
        /\ \A f \in Frames : cutset'.frames[f].stamp = edits + 1
    BY <2>1, <2>2, <2>3, PromotedTyped
  <2>5. Fits(cutset'.man)
    BY <2>4 DEF Fits
  <2> QED
    BY <1>1, <1>5, <1>6, <2>1, <2>2, <2>4, <2>5, SetSteps, CutJobsAssumption
<1>11. CASE RemoveDirectory
  <2>1. /\ view["dialog"].pc = "delete" /\ UNCHANGED <<keyLock, apart, edits>> /\ Witnessed(cutset')
        /\ cutset' \in {cutset, Nothing}
        /\ view' = [view EXCEPT !["dialog"] = Rests("dialog")]
    BY <1>11 DEF RemoveDirectory, Deleting
  <2>2. cutjob' \in Jobs /\ JobInv'
    BY <1>5, <1>6, <2>1
  <2>3. view' \in [Scanners -> Views] /\ view'["dialog"] = Rests("dialog") /\ view'["job"] = view["job"]
    BY <1>1, <2>1, RestsTyped DEF Scanners
  <2>4. Typed'
    BY <1>1, <2>1, <2>2, <2>3 DEF CutInv, Typed
  <2>5. SetInv'
    BY <1>1, <2>1 DEF SetInv, Fits, Marks, LooksOf
  <2>6. ViewInv("job")'
    BY <1>5, <2>1, <2>3, ViewStays DEF Scanners
  <2>7. ViewInv("dialog")'
    BY <2>3, RestsTyped DEF ViewInv, Reads, Fits, Marks
  <2>8. Turns'
    <3>1. \A w \in keyLock' : w = "job" /\ w \in keyLock
      BY <1>2, <2>1 DEF CutInv, Typed, Scanners
    <3>2. cutjob'.pc = cutjob.pc
      BY <1>5, <2>1
    <3> QED
      BY <2>1, <2>3, <3>1, <3>2 DEF CutInv, Turns, Locks, Detects, Purpose
  <2>9. MeetsTheLost'
    BY <1>5, <2>1, <2>3 DEF CutInv, MeetsTheLost
  <2> QED
    BY <2>2, <2>4, <2>5, <2>6, <2>7, <2>8, <2>9 DEF CutInv, Scanners
<1> QED
  BY <1>3, <1>4, <1>8, <1>9, <1>10, <1>11

-----------------------------------------------------------------------------
(* The theorem *)

LEMMA CutSteps == CutInv /\ [CutNext]_cutVars => CutInv'
<1> SUFFICES ASSUME CutInv, [CutNext]_cutVars
             PROVE  CutInv'
  OBVIOUS
<1>1. CASE UNCHANGED cutVars
  <2>1. UNCHANGED <<cutset, view, keyLock, apart, edits>> /\ cutjob' = cutjob
    BY <1>1 DEF cutVars
  <2>2. cutjob' \in Jobs /\ JobInv'
    BY <2>1, JobKeeps DEF CutInv, Typed
  <2> QED
    BY <2>1, <2>2, JobSteps
<1>2. CASE CutNext
  BY <1>2, JobWorksAlone, JobWorksOn, JobMakes, Scans, OthersStep DEF CutNext, Job, Scanners
<1> QED
  BY <1>1, <1>2

LEMMA CutStart == CutInit => CutInv
<1> SUFFICES ASSUME CutInit
             PROVE  CutInv
  OBVIOUS
<1>1. 0 \in 0..MaxEdits /\ 0 \in 0..4
  BY CutJobsAssumption
<1>2. FreshCuts(0) \in [Frames -> Cuts] /\ \A f \in Frames : FreshCuts(0)[f].stamp = 0
  BY <1>1, FreshCutsTyped
<1>3. /\ cutset \in CutSets \cup {Nothing} /\ edits = 0 /\ keyLock = {} /\ apart \in BOOLEAN
      /\ cutset # Nothing =>
           /\ cutset.man.rec = cutset.born /\ cutset.man.union = LooksOf(cutset.man.rec)
           /\ \A f \in Frames : cutset.frames[f].stamp = 0
  BY <1>1, <1>2, PromotedTyped DEF CutInit
<1>4. cutjob \in Jobs /\ cutjob.pc = "idle" /\ ~cutjob.stage /\ ~cutjob.scratch /\ ~cutjob.owner
      /\ cutjob.base = Nothing /\ cutjob.shot = Nothing /\ cutjob.output = Nothing
  BY DEF CutInit, IdleJob, Jobs, JobPcs
<1>5. view \in [Scanners -> Views] /\ \A w \in Scanners : view[w] = IdleView
  BY IdleIsTyped DEF CutInit, Scanners
<1>6. Typed
  BY <1>1, <1>3, <1>4, <1>5 DEF Typed
<1>7. SetInv
  BY <1>3 DEF SetInv, Fits, Marks
<1>8. \A w \in Scanners : ViewInv(w)
  BY <1>5, IdleIsTyped DEF ViewInv, Reads, Fits, Marks
<1>9. Turns
  BY <1>3, <1>5, IdleIsTyped DEF Turns, Scanners
<1>10. JobInv /\ MeetsTheLost
  BY <1>4 DEF JobInv, Works, Owes, Fits, FramedByItsOwnUnion, MeetsTheLost
<1> QED
  BY <1>6, <1>7, <1>8, <1>9, <1>10 DEF CutInv

\* A set of cuts and what is made of it agree, whatever the user, the dialog and
\* another instance do meanwhile, and a job cleans up after itself.
THEOREM CutsAndOutputAgree == CutSpec => []CutJobsCorrect
<1>1. CutInv => CutJobsCorrect
  BY Corrects
<1> QED
  BY <1>1, CutStart, CutSteps, PTL DEF CutSpec

-----------------------------------------------------------------------------
(* WebPFit: numbers, and induction with a set in the place of the predicate *)

LEMMA Quotients ==
    ASSUME NEW a \in Nat, NEW b \in Nat \ {0}
    PROVE  a \div b \in Nat /\ b * (a \div b) <= a /\ a < b * (a \div b) + b
  OBVIOUS

LEMMA ProductsGrow ==
    ASSUME NEW a \in Nat, NEW b \in Nat, NEW c \in Nat, a <= b
    PROVE  a * c <= b * c
  OBVIOUS

LEMMA LeastNumber ==
    ASSUME NEW S \in SUBSET Nat, S # {}
    PROVE  \E m \in S : \A k \in S : m <= k
<1> DEFINE R == OpToRel(<, Nat)
<1>1. PICK m \in S : \A k \in S : ~(<<k, m>> \in R)
  BY NatLessThanWellFounded, WFMin
<1>2. ASSUME NEW k \in S
      PROVE  m <= k
  <2>1. m \in Nat /\ k \in Nat /\ <<k, m>> \in Nat \X Nat
    OBVIOUS
  <2>2. ~(<<k, m>>[1] < <<k, m>>[2])
    BY <1>1, <2>1 DEF OpToRel
  <2> QED
    BY <2>1, <2>2
<1> QED
  BY <1>2

LEMMA Induction ==
    ASSUME NEW S \in SUBSET Nat, 0 \in S, \A n \in S : n + 1 \in S
    PROVE  S = Nat
<1> DEFINE T == Nat \ S
<1> SUFFICES ASSUME T # {} PROVE FALSE
  OBVIOUS
<1>1. PICK m \in T : \A k \in T : m <= k
  BY LeastNumber
<1>2. m # 0 /\ m - 1 \in Nat /\ m - 1 \notin T
  BY <1>1
<1>3. m - 1 \in S
  BY <1>2
<1> QED
  BY <1>1, <1>3

-----------------------------------------------------------------------------
(* WebPFit: sequences that are built one by one *)

LEMMA BuiltOneByOne ==
    ASSUME NEW A, NEW T \in SUBSET Seq(A), << >> \in T,
           \A s \in T, x \in A : Append(s, x) \in T
    PROVE  T = Seq(A)
<1> DEFINE S == {n \in Nat : \A s \in Seq(A) : Len(s) = n => s \in T}
<1>1. 0 \in S
  BY EmptySeq
<1>2. ASSUME NEW n \in S
      PROVE  n + 1 \in S
  <2> SUFFICES ASSUME NEW s \in Seq(A), Len(s) = n + 1
               PROVE  s \in T
    OBVIOUS
  <2>1. n \in Nat /\ s # << >>
    OBVIOUS
  <2>2. PICK t \in Seq(A), x \in A : s = Append(t, x)
    BY <2>1, SequenceEmptyOrAppend
  <2>3. Len(t) = n
    BY <2>1, <2>2, AppendProperties
  <2> QED
    BY <2>2, <2>3
<1>3. S = Nat
  <2> HIDE DEF S
  <2> QED
    BY <1>1, <1>2, Induction DEF S
<1> QED
  BY <1>3, LenProperties

-----------------------------------------------------------------------------
(* WebPFit: flattening *)

Flattens(f, ss) == f = [k \in 1..Len(ss) |-> IF k = 1 THEN ss[k] ELSE f[k - 1] \o ss[k]]

LEMMA OneMoreIsFlattened ==
    ASSUME NEW A, NEW ss \in Seq(A), NEW s \in A, NEW f, Flattens(f, ss)
    PROVE  \E g : Flattens(g, Append(ss, s))
<1> DEFINE n == Len(ss)
           tt == Append(ss, s)
           h == [k \in 1..n + 1 |-> IF k = n + 1 THEN (IF k = 1 THEN s ELSE f[k - 1] \o s) ELSE f[k]]
<1>1. n \in Nat /\ Len(tt) = n + 1 /\ tt[n + 1] = s /\ \A k \in 1..n : tt[k] = ss[k]
  BY AppendProperties, LenProperties
<1>2. \A k \in 1..n : f[k] = IF k = 1 THEN ss[k] ELSE f[k - 1] \o ss[k]
  BY DEF Flattens
<1> HIDE DEF n, tt
<1>3. ASSUME NEW k \in 1..n + 1
      PROVE  h[k] = IF k = 1 THEN tt[k] ELSE h[k - 1] \o tt[k]
  <2>1. k # 1 => k - 1 \in 1..n /\ k - 1 \in 1..n + 1 /\ k - 1 # n + 1
    BY <1>1
  <2>2. k # 1 => h[k - 1] = f[k - 1]
    BY <2>1
  <2>3. CASE k = n + 1
    <3>1. h[k] = IF k = 1 THEN s ELSE f[k - 1] \o s
      BY <2>3
    <3> HIDE DEF h
    <3> QED
      BY <1>1, <2>2, <2>3, <3>1
  <2>4. CASE k # n + 1
    <3>1. k \in 1..n /\ h[k] = f[k]
      BY <1>1, <2>4
    <3> HIDE DEF h
    <3> QED
      BY <1>1, <1>2, <2>2, <3>1
  <2> QED
    BY <2>3, <2>4
<1>4. h = [k \in 1..n + 1 |-> h[k]]
  OBVIOUS
<1> HIDE DEF h
<1>5. Flattens(h, tt)
  BY <1>1, <1>3, <1>4 DEF Flattens
<1> QED
  BY <1>5 DEF tt

LEMMA FlatteningIs ==
    ASSUME NEW A, NEW ss \in Seq(A), ss # << >>
    PROVE  \E f : Flattens(f, ss) /\ FlattenSeq(ss) = f[Len(ss)]
<1> DEFINE T == {tt \in Seq(A) : \E f : Flattens(f, tt)}
<1>1. << >> \in T
  <2> DEFINE f == [k \in 1..0 |-> << >>]
  <2>1. f = [k \in 1..0 |-> IF k = 1 THEN << >>[k] ELSE f[k - 1] \o << >>[k]] /\ Len(<< >>) = 0
    OBVIOUS
  <2>2. Flattens(f, << >>)
    BY <2>1 DEF Flattens
  <2> QED
    BY <2>2, EmptySeq
<1>2. ASSUME NEW tt \in T, NEW s \in A
      PROVE  Append(tt, s) \in T
  BY OneMoreIsFlattened, AppendProperties
<1>3. T = Seq(A)
  <2> HIDE DEF T
  <2> QED
    BY <1>1, <1>2, BuiltOneByOne DEF T
<1>4. PICK f : Flattens(f, ss)
  BY <1>3
<1>5. Len(ss) # 0
  BY EmptySeq
<1> QED
  BY <1>4, <1>5 DEF Flattens, FlattenSeq

LEMMA FlattenedAgree ==
    ASSUME NEW ss, NEW tt, Len(ss) \in Nat, Len(tt) \in Nat, Len(ss) <= Len(tt), NEW f, NEW g,
           Flattens(f, ss), Flattens(g, tt), \A k \in 1..Len(ss) : ss[k] = tt[k]
    PROVE  \A k \in 1..Len(ss) : f[k] = g[k]
<1> DEFINE n == Len(ss)
           S == {k \in Nat : k \in 1..n => f[k] = g[k]}
<1>1. 0 \in S
  OBVIOUS
<1>2. ASSUME NEW k \in S
      PROVE  k + 1 \in S
  <2> SUFFICES ASSUME k + 1 \in 1..n
               PROVE  f[k + 1] = g[k + 1]
    OBVIOUS
  <2>1. k + 1 \in 1..Len(ss) /\ k + 1 \in 1..Len(tt)
    OBVIOUS
  <2>2. f[k + 1] = IF k + 1 = 1 THEN ss[k + 1] ELSE f[(k + 1) - 1] \o ss[k + 1]
    BY <2>1 DEF Flattens
  <2>3. g[k + 1] = IF k + 1 = 1 THEN tt[k + 1] ELSE g[(k + 1) - 1] \o tt[k + 1]
    BY <2>1 DEF Flattens
  <2>4. k + 1 # 1 => (k + 1) - 1 = k /\ f[k] = g[k]
    OBVIOUS
  <2> QED
    BY <2>1, <2>2, <2>3, <2>4
<1>3. S = Nat
  <2> HIDE DEF S
  <2> QED
    BY <1>1, <1>2, Induction DEF S
<1> QED
  BY <1>3

LEMMA FlattenOneMore ==
    ASSUME NEW ss, NEW tt, NEW f, NEW g, Flattens(f, ss), Flattens(g, tt), Len(ss) \in Nat \ {0},
           Len(tt) = Len(ss) + 1, \A k \in 1..Len(ss) : ss[k] = tt[k]
    PROVE  g[Len(tt)] = f[Len(ss)] \o tt[Len(tt)]
<1>1. Len(ss) \in Nat /\ Len(tt) \in Nat /\ Len(ss) <= Len(tt) /\ Len(ss) \in 1..Len(ss)
  OBVIOUS
<1>2. \A k \in 1..Len(ss) : f[k] = g[k]
  BY <1>1, FlattenedAgree
<1>3. f[Len(ss)] = g[Len(ss)]
  BY <1>1, <1>2
<1>4. Len(tt) \in 1..Len(tt) /\ Len(tt) - 1 = Len(ss) /\ Len(tt) # 1
  OBVIOUS
<1>5. g[Len(tt)] = IF Len(tt) = 1 THEN tt[Len(tt)] ELSE g[Len(tt) - 1] \o tt[Len(tt)]
  BY <1>4 DEF Flattens
<1> QED
  BY <1>3, <1>4, <1>5

LEMMA FlattenAppends ==
    ASSUME NEW X, NEW ss \in Seq(Seq(X)), NEW s \in Seq(X)
    PROVE  FlattenSeq(Append(ss, s)) = FlattenSeq(ss) \o s
<1>1. PICK tt \in Seq(Seq(X)) : tt = Append(ss, s)
  BY AppendProperties
<1>2. /\ Len(ss) \in Nat /\ Len(tt) = Len(ss) + 1 /\ tt[Len(tt)] = s /\ tt # << >>
      /\ \A k \in 1..Len(ss) : ss[k] = tt[k]
  BY <1>1, AppendProperties, LenProperties
<1>3. PICK g : Flattens(g, tt) /\ FlattenSeq(tt) = g[Len(tt)]
  BY <1>2, FlatteningIs
<1>4. CASE ss = << >>
  <2>1. Len(tt) = 1 /\ FlattenSeq(ss) = << >> /\ << >> \o s = s
    BY <1>2, <1>4, EmptySeq, ConcatEmptySeq DEF FlattenSeq
  <2>2. 1 \in 1..1
    OBVIOUS
  <2>3. g[1] = tt[1]
    BY <1>3, <2>1, <2>2 DEF Flattens
  <2> QED
    BY <1>1, <1>2, <1>3, <1>4, <2>1, <2>3
<1>5. CASE ss # << >>
  <2>1. PICK f : Flattens(f, ss) /\ FlattenSeq(ss) = f[Len(ss)]
    BY <1>5, FlatteningIs
  <2>2. Len(ss) \in Nat \ {0}
    BY <1>5, EmptySeq
  <2>3. g[Len(tt)] = f[Len(ss)] \o tt[Len(tt)]
    BY <1>2, <1>3, <2>1, <2>2, FlattenOneMore
  <2> QED
    BY <1>1, <1>2, <1>3, <2>1, <2>3
<1> QED
  BY <1>4, <1>5

LEMMA FlattenIsTyped ==
    ASSUME NEW X
    PROVE  /\ FlattenSeq(<< >>) = << >>
           /\ \A ss \in Seq(Seq(X)) : FlattenSeq(ss) \in Seq(X)
<1>1. FlattenSeq(<< >>) = << >>
  BY DEF FlattenSeq
<1> DEFINE T == {ss \in Seq(Seq(X)) : FlattenSeq(ss) \in Seq(X)}
<1>2. << >> \in T
  BY <1>1, EmptySeq
<1>3. ASSUME NEW ss \in T, NEW s \in Seq(X)
      PROVE  Append(ss, s) \in T
  <2>1. FlattenSeq(Append(ss, s)) = FlattenSeq(ss) \o s /\ Append(ss, s) \in Seq(Seq(X))
    BY FlattenAppends, AppendProperties
  <2>2. FlattenSeq(ss) \o s \in Seq(X)
    BY ConcatProperties
  <2> QED
    BY <2>1, <2>2
<1>4. T = Seq(Seq(X))
  <2> HIDE DEF T
  <2> QED
    BY <1>2, <1>3, BuiltOneByOne DEF T
<1> QED
  BY <1>1, <1>4

-----------------------------------------------------------------------------
(* WebPFit: merging frames and adding their delays *)

Merges(f, fs) == f = [k \in 0..Len(fs) |-> IF k = 0 THEN << >> ELSE WithFrame(f[k - 1], fs[k])]

LEMMA OneMoreIsMerged ==
    ASSUME NEW A, NEW fs \in Seq(A), NEW x \in A, NEW f, Merges(f, fs)
    PROVE  \E g : Merges(g, Append(fs, x))
<1> DEFINE n == Len(fs)
           gs == Append(fs, x)
           h == [k \in 0..n + 1 |-> IF k = n + 1 THEN WithFrame(f[k - 1], x) ELSE f[k]]
<1>1. n \in Nat /\ Len(gs) = n + 1 /\ gs[n + 1] = x /\ \A k \in 1..n : gs[k] = fs[k]
  BY AppendProperties, LenProperties
<1>2. \A k \in 0..n : f[k] = IF k = 0 THEN << >> ELSE WithFrame(f[k - 1], fs[k])
  BY DEF Merges
<1> HIDE DEF n, gs
<1>3. ASSUME NEW k \in 0..n + 1
      PROVE  h[k] = IF k = 0 THEN << >> ELSE WithFrame(h[k - 1], gs[k])
  <2>1. k # 0 => k - 1 \in 0..n /\ k - 1 \in 0..n + 1 /\ k - 1 # n + 1
    BY <1>1
  <2>2. k # 0 => h[k - 1] = f[k - 1]
    BY <2>1
  <2>3. CASE k = n + 1
    <3>1. h[k] = WithFrame(f[k - 1], x) /\ k # 0
      BY <1>1, <2>3
    <3> HIDE DEF h
    <3> QED
      BY <1>1, <2>2, <2>3, <3>1
  <2>4. CASE k # n + 1
    <3>1. k \in 0..n /\ h[k] = f[k] /\ (k # 0 => k \in 1..n)
      BY <1>1, <2>4
    <3> HIDE DEF h
    <3> QED
      BY <1>1, <1>2, <2>2, <3>1
  <2> QED
    BY <2>3, <2>4
<1>4. h = [k \in 0..n + 1 |-> h[k]]
  OBVIOUS
<1> HIDE DEF h
<1>5. Merges(h, gs)
  BY <1>1, <1>3, <1>4 DEF Merges
<1> QED
  BY <1>5 DEF gs

LEMMA MergingIs ==
    ASSUME NEW A, NEW fs \in Seq(A)
    PROVE  \E f : Merges(f, fs) /\ Merged(fs) = f[Len(fs)]
<1> DEFINE T == {gs \in Seq(A) : \E f : Merges(f, gs)}
<1>1. << >> \in T
  <2> DEFINE f == [k \in 0..0 |-> << >>]
  <2>1. f = [k \in 0..0 |-> IF k = 0 THEN << >> ELSE WithFrame(f[k - 1], << >>[k])] /\ Len(<< >>) = 0
    OBVIOUS
  <2>2. Merges(f, << >>)
    BY <2>1 DEF Merges
  <2> QED
    BY <2>2, EmptySeq
<1>2. ASSUME NEW gs \in T, NEW x \in A
      PROVE  Append(gs, x) \in T
  BY OneMoreIsMerged, AppendProperties
<1>3. T = Seq(A)
  <2> HIDE DEF T
  <2> QED
    BY <1>1, <1>2, BuiltOneByOne DEF T
<1>4. PICK f : Merges(f, fs)
  BY <1>3
<1> QED
  BY <1>4 DEF Merges, Merged

LEMMA MergedAgree ==
    ASSUME NEW fs, NEW gs, Len(fs) \in Nat, Len(gs) \in Nat, Len(fs) <= Len(gs), NEW f, NEW g,
           Merges(f, fs), Merges(g, gs), \A k \in 1..Len(fs) : fs[k] = gs[k]
    PROVE  \A k \in 0..Len(fs) : f[k] = g[k]
<1> DEFINE n == Len(fs)
           S == {k \in Nat : k \in 0..n => f[k] = g[k]}
<1>1. 0 \in S
  BY DEF Merges
<1>2. ASSUME NEW k \in S
      PROVE  k + 1 \in S
  <2> SUFFICES ASSUME k + 1 \in 0..n
               PROVE  f[k + 1] = g[k + 1]
    OBVIOUS
  <2>1. /\ k + 1 \in 0..Len(fs) /\ k + 1 \in 0..Len(gs) /\ k + 1 \in 1..Len(fs) /\ k + 1 # 0
        /\ (k + 1) - 1 = k /\ f[k] = g[k]
    OBVIOUS
  <2>2. f[k + 1] = WithFrame(f[(k + 1) - 1], fs[k + 1])
    BY <2>1 DEF Merges
  <2>3. g[k + 1] = WithFrame(g[(k + 1) - 1], gs[k + 1])
    BY <2>1 DEF Merges
  <2>4. fs[k + 1] = gs[k + 1]
    BY <2>1
  <2> QED
    BY <2>1, <2>2, <2>3, <2>4
<1>3. S = Nat
  <2> HIDE DEF S
  <2> QED
    BY <1>1, <1>2, Induction DEF S
<1> QED
  BY <1>3

LEMMA MergeOneMore ==
    ASSUME NEW fs, NEW gs, NEW f, NEW g, Merges(f, fs), Merges(g, gs), Len(fs) \in Nat,
           Len(gs) = Len(fs) + 1, \A k \in 1..Len(fs) : fs[k] = gs[k]
    PROVE  g[Len(gs)] = WithFrame(f[Len(fs)], gs[Len(gs)])
<1>1. Len(fs) \in Nat /\ Len(gs) \in Nat /\ Len(fs) <= Len(gs) /\ Len(fs) \in 0..Len(fs)
  OBVIOUS
<1>2. \A k \in 0..Len(fs) : f[k] = g[k]
  BY <1>1, MergedAgree
<1>3. f[Len(fs)] = g[Len(fs)]
  BY <1>1, <1>2
<1>4. Len(gs) \in 0..Len(gs) /\ Len(gs) - 1 = Len(fs) /\ Len(gs) # 0
  OBVIOUS
<1>5. g[Len(gs)] = WithFrame(g[Len(gs) - 1], gs[Len(gs)])
  BY <1>4 DEF Merges
<1> QED
  BY <1>3, <1>4, <1>5

LEMMA MergedAppends ==
    ASSUME NEW A, NEW fs \in Seq(A), NEW x \in A
    PROVE  Merged(<< >>) = << >> /\ Merged(Append(fs, x)) = WithFrame(Merged(fs), x)
<1>1. PICK gs \in Seq(A) : gs = Append(fs, x)
  BY AppendProperties
<1>2. Len(fs) \in Nat /\ Len(gs) = Len(fs) + 1 /\ gs[Len(gs)] = x /\ \A k \in 1..Len(fs) : fs[k] = gs[k]
  BY <1>1, AppendProperties, LenProperties
<1>3. PICK f : Merges(f, fs) /\ Merged(fs) = f[Len(fs)]
  BY MergingIs
<1>4. PICK g : Merges(g, gs) /\ Merged(gs) = g[Len(gs)]
  BY MergingIs
<1>5. g[Len(gs)] = WithFrame(f[Len(fs)], gs[Len(gs)])
  BY <1>2, <1>3, <1>4, MergeOneMore
<1>6. Merged(<< >>) = << >>
  <2>1. << >> \in Seq(A) /\ Len(<< >>) = 0 /\ 0 \in 0..0
    BY EmptySeq
  <2>2. PICK e : Merges(e, << >>) /\ Merged(<< >>) = e[0]
    BY <2>1, MergingIs
  <2> QED
    BY <2>1, <2>2 DEF Merges
<1> QED
  BY <1>1, <1>2, <1>3, <1>4, <1>5, <1>6

AddsUp(f, fs) == f = [k \in 0..Len(fs) |-> IF k = 0 THEN 0 ELSE f[k - 1] + fs[k].delay]

LEMMA OneMoreIsAdded ==
    ASSUME NEW A, NEW fs \in Seq(A), NEW x \in A, NEW f, AddsUp(f, fs)
    PROVE  \E g : AddsUp(g, Append(fs, x))
<1> DEFINE n == Len(fs)
           gs == Append(fs, x)
           h == [k \in 0..n + 1 |-> IF k = n + 1 THEN f[k - 1] + x.delay ELSE f[k]]
<1>1. n \in Nat /\ Len(gs) = n + 1 /\ gs[n + 1] = x /\ \A k \in 1..n : gs[k] = fs[k]
  BY AppendProperties, LenProperties
<1>2. \A k \in 0..n : f[k] = IF k = 0 THEN 0 ELSE f[k - 1] + fs[k].delay
  BY DEF AddsUp
<1> HIDE DEF n, gs
<1>3. ASSUME NEW k \in 0..n + 1
      PROVE  h[k] = IF k = 0 THEN 0 ELSE h[k - 1] + gs[k].delay
  <2>1. k # 0 => k - 1 \in 0..n /\ k - 1 \in 0..n + 1 /\ k - 1 # n + 1
    BY <1>1
  <2>2. k # 0 => h[k - 1] = f[k - 1]
    BY <2>1
  <2>3. CASE k = n + 1
    <3>1. h[k] = f[k - 1] + x.delay /\ k # 0
      BY <1>1, <2>3
    <3> HIDE DEF h
    <3> QED
      BY <1>1, <2>2, <2>3, <3>1
  <2>4. CASE k # n + 1
    <3>1. k \in 0..n /\ h[k] = f[k] /\ (k # 0 => k \in 1..n)
      BY <1>1, <2>4
    <3> HIDE DEF h
    <3> QED
      BY <1>1, <1>2, <2>2, <3>1
  <2> QED
    BY <2>3, <2>4
<1>4. h = [k \in 0..n + 1 |-> h[k]]
  OBVIOUS
<1> HIDE DEF h
<1>5. AddsUp(h, gs)
  BY <1>1, <1>3, <1>4 DEF AddsUp
<1> QED
  BY <1>5 DEF gs

LEMMA AddingIs ==
    ASSUME NEW A, NEW fs \in Seq(A)
    PROVE  \E f : AddsUp(f, fs) /\ DelaySum(fs) = f[Len(fs)]
<1> DEFINE T == {gs \in Seq(A) : \E f : AddsUp(f, gs)}
<1>1. << >> \in T
  <2> DEFINE f == [k \in 0..0 |-> 0]
  <2>1. f = [k \in 0..0 |-> IF k = 0 THEN 0 ELSE f[k - 1] + << >>[k].delay] /\ Len(<< >>) = 0
    OBVIOUS
  <2>2. AddsUp(f, << >>)
    BY <2>1 DEF AddsUp
  <2> QED
    BY <2>2, EmptySeq
<1>2. ASSUME NEW gs \in T, NEW x \in A
      PROVE  Append(gs, x) \in T
  BY OneMoreIsAdded, AppendProperties
<1>3. T = Seq(A)
  <2> HIDE DEF T
  <2> QED
    BY <1>1, <1>2, BuiltOneByOne DEF T
<1>4. PICK f : AddsUp(f, fs)
  BY <1>3
<1> QED
  BY <1>4 DEF AddsUp, DelaySum

LEMMA AddedAgree ==
    ASSUME NEW fs, NEW gs, Len(fs) \in Nat, Len(gs) \in Nat, Len(fs) <= Len(gs), NEW f, NEW g,
           AddsUp(f, fs), AddsUp(g, gs), \A k \in 1..Len(fs) : fs[k] = gs[k]
    PROVE  \A k \in 0..Len(fs) : f[k] = g[k]
<1> DEFINE n == Len(fs)
           S == {k \in Nat : k \in 0..n => f[k] = g[k]}
<1>1. 0 \in S
  BY DEF AddsUp
<1>2. ASSUME NEW k \in S
      PROVE  k + 1 \in S
  <2> SUFFICES ASSUME k + 1 \in 0..n
               PROVE  f[k + 1] = g[k + 1]
    OBVIOUS
  <2>1. /\ k + 1 \in 0..Len(fs) /\ k + 1 \in 0..Len(gs) /\ k + 1 \in 1..Len(fs) /\ k + 1 # 0
        /\ (k + 1) - 1 = k /\ f[k] = g[k]
    OBVIOUS
  <2>2. f[k + 1] = f[(k + 1) - 1] + fs[k + 1].delay
    BY <2>1 DEF AddsUp
  <2>3. g[k + 1] = g[(k + 1) - 1] + gs[k + 1].delay
    BY <2>1 DEF AddsUp
  <2>4. fs[k + 1] = gs[k + 1]
    BY <2>1
  <2> QED
    BY <2>1, <2>2, <2>3, <2>4
<1>3. S = Nat
  <2> HIDE DEF S
  <2> QED
    BY <1>1, <1>2, Induction DEF S
<1> QED
  BY <1>3

LEMMA AddOneMore ==
    ASSUME NEW fs, NEW gs, NEW f, NEW g, AddsUp(f, fs), AddsUp(g, gs), Len(fs) \in Nat,
           Len(gs) = Len(fs) + 1, \A k \in 1..Len(fs) : fs[k] = gs[k]
    PROVE  g[Len(gs)] = f[Len(fs)] + gs[Len(gs)].delay
<1>1. Len(fs) \in Nat /\ Len(gs) \in Nat /\ Len(fs) <= Len(gs) /\ Len(fs) \in 0..Len(fs)
  OBVIOUS
<1>2. \A k \in 0..Len(fs) : f[k] = g[k]
  BY <1>1, AddedAgree
<1>3. f[Len(fs)] = g[Len(fs)]
  BY <1>1, <1>2
<1>4. Len(gs) \in 0..Len(gs) /\ Len(gs) - 1 = Len(fs) /\ Len(gs) # 0
  OBVIOUS
<1>5. g[Len(gs)] = g[Len(gs) - 1] + gs[Len(gs)].delay
  BY <1>4 DEF AddsUp
<1> QED
  BY <1>3, <1>4, <1>5

LEMMA DelaySumAppends ==
    ASSUME NEW A, NEW fs \in Seq(A), NEW x \in A
    PROVE  DelaySum(<< >>) = 0 /\ DelaySum(Append(fs, x)) = DelaySum(fs) + x.delay
<1>1. PICK gs \in Seq(A) : gs = Append(fs, x)
  BY AppendProperties
<1>2. Len(fs) \in Nat /\ Len(gs) = Len(fs) + 1 /\ gs[Len(gs)] = x /\ \A k \in 1..Len(fs) : fs[k] = gs[k]
  BY <1>1, AppendProperties, LenProperties
<1>3. PICK f : AddsUp(f, fs) /\ DelaySum(fs) = f[Len(fs)]
  BY AddingIs
<1>4. PICK g : AddsUp(g, gs) /\ DelaySum(gs) = g[Len(gs)]
  BY AddingIs
<1>5. g[Len(gs)] = f[Len(fs)] + gs[Len(gs)].delay
  BY <1>2, <1>3, <1>4, AddOneMore
<1>6. DelaySum(<< >>) = 0
  <2>1. << >> \in Seq(A) /\ Len(<< >>) = 0 /\ 0 \in 0..0
    BY EmptySeq
  <2>2. PICK e : AddsUp(e, << >>) /\ DelaySum(<< >>) = e[0]
    BY <2>1, AddingIs
  <2> QED
    BY <2>1, <2>2 DEF AddsUp
<1> QED
  BY <1>1, <1>2, <1>3, <1>4, <1>5, <1>6

-----------------------------------------------------------------------------
(* WebPFit: what is seen *)

Repeated(p, n) == [ms \in 1..n |-> p]
Stills(P) == [pixels : P, delay : Nat]
Lasting(P) == [pixels : P, delay : Nat \ {0}]

LEMMA RepeatedAdds ==
    ASSUME NEW P, NEW p \in P, NEW m \in Nat, NEW n \in Nat
    PROVE  /\ Repeated(p, m) \in Seq(P) /\ Len(Repeated(p, m)) = m
           /\ Repeated(p, m + n) = Repeated(p, m) \o Repeated(p, n)
<1>1. \A k \in Nat : Repeated(p, k) \in Seq(P) /\ Len(Repeated(p, k)) = k /\ \A i \in 1..k : Repeated(p, k)[i] = p
  BY DEF Repeated
<1> DEFINE a == Repeated(p, m)
           b == Repeated(p, n)
           c == Repeated(p, m + n)
<1>2. /\ a \in Seq(P) /\ Len(a) = m /\ \A i \in 1..m : a[i] = p
      /\ b \in Seq(P) /\ Len(b) = n /\ \A i \in 1..n : b[i] = p
      /\ c \in Seq(P) /\ Len(c) = m + n /\ \A i \in 1..m + n : c[i] = p
  <2>1. m + n \in Nat
    OBVIOUS
  <2> QED
    BY <1>1, <2>1
<1> HIDE DEF a, b, c
<1>3. /\ a \o b \in Seq(P) /\ Len(a \o b) = m + n
      /\ \A i \in 1..m + n : (a \o b)[i] = IF i <= m THEN a[i] ELSE b[i - m]
  BY <1>2, ConcatProperties
<1>4. \A i \in 1..m + n : (a \o b)[i] = c[i]
  <2> TAKE i \in 1..m + n
  <2>1. i <= m => i \in 1..m
    OBVIOUS
  <2>2. ~(i <= m) => i - m \in 1..n
    OBVIOUS
  <2> QED
    BY <1>2, <1>3, <2>1, <2>2
<1>5. a \o b = c
  BY <1>2, <1>3, <1>4, SeqEqual
<1> QED
  BY <1>2, <1>5 DEF a, b, c

\* Frame by frame.
LEMMA SeenAppends ==
    ASSUME NEW P, NEW fs \in Seq(Stills(P)), NEW f \in Stills(P)
    PROVE  /\ Seen(<< >>) = << >> /\ Seen(fs) \in Seq(P)
           /\ Seen(Append(fs, f)) = Seen(fs) \o Repeated(f.pixels, f.delay)
<1> DEFINE Parts(gs) == [i \in DOMAIN gs |-> Repeated(gs[i].pixels, gs[i].delay)]
<1>1. \A g \in Stills(P) : Repeated(g.pixels, g.delay) \in Seq(P)
  <2> TAKE g \in Stills(P)
  <2>1. g.pixels \in P /\ g.delay \in Nat
    BY DEF Stills
  <2> QED
    BY <2>1, RepeatedAdds
<1>2. \A gs \in Seq(Stills(P)) : Parts(gs) \in Seq(Seq(P)) /\ Len(Parts(gs)) = Len(gs)
  <2> TAKE gs \in Seq(Stills(P))
  <2>1. DOMAIN gs = 1..Len(gs) /\ Len(gs) \in Nat /\ \A i \in 1..Len(gs) : gs[i] \in Stills(P)
    BY LenProperties, ElementOfSeq
  <2>2. \A i \in 1..Len(gs) : Repeated(gs[i].pixels, gs[i].delay) \in Seq(P)
    BY <1>1, <2>1
  <2> QED
    BY <2>1, <2>2, IsASeq
<1>3. \A gs : Seen(gs) = FlattenSeq(Parts(gs))
  BY DEF Seen, Repeated
<1>4. Parts(Append(fs, f)) = Append(Parts(fs), Repeated(f.pixels, f.delay))
  <2> DEFINE gs == Append(fs, f)
  <2>1. /\ gs \in Seq(Stills(P)) /\ Len(fs) \in Nat /\ Len(gs) = Len(fs) + 1 /\ gs[Len(fs) + 1] = f
        /\ \A i \in 1..Len(fs) : gs[i] = fs[i]
    BY AppendProperties, LenProperties
  <2>2. DOMAIN gs = 1..Len(fs) + 1 /\ DOMAIN fs = 1..Len(fs)
    BY <2>1, LenProperties
  <2> HIDE DEF gs
  <2>3. /\ \A i \in 1..Len(fs) + 1 : Parts(gs)[i] = Repeated(gs[i].pixels, gs[i].delay)
        /\ \A i \in 1..Len(fs) : Parts(fs)[i] = Repeated(fs[i].pixels, fs[i].delay)
    BY <2>2
  <2>4. Parts(fs) \in Seq(Seq(P)) /\ Len(Parts(fs)) = Len(fs) /\ Parts(gs) \in Seq(Seq(P)) /\ Len(Parts(gs)) = Len(fs) + 1
    BY <1>2, <2>1
  <2> HIDE DEF Parts
  <2> DEFINE ps == Append(Parts(fs), Repeated(f.pixels, f.delay))
  <2>5. /\ ps \in Seq(Seq(P)) /\ Len(ps) = Len(fs) + 1 /\ ps[Len(fs) + 1] = Repeated(f.pixels, f.delay)
        /\ \A i \in 1..Len(fs) : ps[i] = Parts(fs)[i]
    BY <1>1, <2>4, AppendProperties
  <2> HIDE DEF ps
  <2>6. \A i \in 1..Len(fs) + 1 : Parts(gs)[i] = ps[i]
    <3> TAKE i \in 1..Len(fs) + 1
    <3>1. CASE i = Len(fs) + 1
      BY <2>1, <2>3, <2>5, <3>1
    <3>2. CASE i # Len(fs) + 1
      <4>1. i \in 1..Len(fs)
        BY <2>1, <3>2
      <4> QED
        BY <2>1, <2>3, <2>5, <4>1
    <3> QED
      BY <3>1, <3>2
  <2> QED
    BY <2>4, <2>5, <2>6, SeqEqual DEF gs, ps
<1>5. Parts(<< >>) = << >>
  BY EmptySeq
<1> HIDE DEF Parts
<1>6. Seen(<< >>) = << >> /\ Seen(fs) \in Seq(P)
  BY <1>2, <1>3, <1>5, FlattenIsTyped
<1>7. Seen(Append(fs, f)) = Seen(fs) \o Repeated(f.pixels, f.delay)
  BY <1>1, <1>2, <1>3, <1>4, FlattenAppends
<1> QED
  BY <1>6, <1>7

LEMMA ThreeInARow ==
    ASSUME NEW P, NEW a \in Seq(P), NEW b \in Seq(P), NEW c \in Seq(P)
    PROVE  (a \o b) \o c = a \o (b \o c)
BY ConcatAssociative

LEMMA OneMoreIsSeen ==
    ASSUME NEW P, NEW fs \in Seq(Stills(P)), NEW hs \in Seq(Stills(P)), NEW f \in Stills(P),
           Seen(fs \o hs) = Seen(fs) \o Seen(hs)
    PROVE  Seen(fs \o Append(hs, f)) = Seen(fs) \o Seen(Append(hs, f))
<1> DEFINE r == Repeated(f.pixels, f.delay)
<1>1. r \in Seq(P)
  BY RepeatedAdds DEF Stills
<1>2. /\ Seen(fs) \in Seq(P) /\ Seen(hs) \in Seq(P) /\ fs \o hs \in Seq(Stills(P))
      /\ Seen(Append(hs, f)) = Seen(hs) \o r
  BY SeenAppends, ConcatProperties
<1>3. Seen(Append(fs \o hs, f)) = Seen(fs \o hs) \o r
  BY <1>2, SeenAppends
<1>4. fs \o Append(hs, f) = Append(fs \o hs, f)
  <2>1. /\ <<f>> \in Seq(Stills(P)) /\ Append(hs, f) = hs \o <<f>> /\ Append(fs \o hs, f) = (fs \o hs) \o <<f>>
    BY <1>2, AppendIsConcat
  <2> QED
    BY <2>1, ThreeInARow
<1> HIDE DEF r
<1>5. (Seen(fs) \o Seen(hs)) \o r = Seen(fs) \o (Seen(hs) \o r)
  <2>1. Seen(fs) \in Seq(P) /\ Seen(hs) \in Seq(P) /\ r \in Seq(P)
    BY <1>1, <1>2
  <2> QED
    BY <2>1, ThreeInARow
<1> QED
  BY <1>2, <1>3, <1>4, <1>5

\* One sequence of frames after another.
LEMMA SeenConcats ==
    ASSUME NEW P, NEW fs \in Seq(Stills(P)), NEW gs \in Seq(Stills(P))
    PROVE  Seen(fs \o gs) = Seen(fs) \o Seen(gs)
<1> DEFINE T == {hs \in Seq(Stills(P)) : Seen(fs \o hs) = Seen(fs) \o Seen(hs)}
<1>1. << >> \in T
  <2>1. << >> \in Seq(Stills(P)) /\ fs \o << >> = fs
    BY EmptySeq, ConcatEmptySeq
  <2>2. PICK x : x = Seen(fs)
    OBVIOUS
  <2>3. Seen(fs) \o << >> = Seen(fs)
    <3>1. CASE Stills(P) = {}
      <4>1. fs = << >>
        BY <3>1, LenProperties, ElementOfSeq, EmptySeq
      <4>2. Seen(fs) = << >>
        BY <4>1, FlattenIsTyped DEF Seen
      <4> QED
        BY <4>2
    <3>2. CASE Stills(P) # {}
      BY <3>2, SeenAppends, ConcatEmptySeq
    <3> QED
      BY <3>1, <3>2
  <2>4. Seen(<< >>) = << >>
    BY FlattenIsTyped DEF Seen
  <2> QED
    BY <2>1, <2>3, <2>4
<1>2. ASSUME NEW hs \in T, NEW f \in Stills(P)
      PROVE  Append(hs, f) \in T
  BY OneMoreIsSeen, AppendProperties
<1>3. T = Seq(Stills(P))
  <2> HIDE DEF T
  <2> QED
    BY <1>1, <1>2, BuiltOneByOne DEF T
<1> QED
  BY <1>3

\* A frame that joins the last run adds what it shows.
LEMMA WithFrameShows ==
    ASSUME NEW P, NEW runs \in Seq(Lasting(P)), NEW f \in Lasting(P)
    PROVE  /\ WithFrame(runs, f) \in Seq(Lasting(P)) /\ WithFrame(runs, f) # << >>
           /\ Seen(WithFrame(runs, f)) = Seen(runs) \o Repeated(f.pixels, f.delay)
<1>1. Lasting(P) \subseteq Stills(P) /\ Seq(Lasting(P)) \subseteq Seq(Stills(P))
  <2>1. Lasting(P) \subseteq Stills(P)
    BY DEF Lasting, Stills
  <2> QED
    BY <2>1, SeqMonotonic
<1>2. CASE ~(runs # << >> /\ Last(runs).pixels = f.pixels)
  <2>1. WithFrame(runs, f) = Append(runs, f)
    BY <1>2 DEF WithFrame
  <2> QED
    BY <1>1, <2>1, AppendProperties, SeenAppends
<1>3. CASE runs # << >> /\ Last(runs).pixels = f.pixels
  <2>1. PICK t \in Seq(Lasting(P)), x \in Lasting(P) : runs = Append(t, x)
    BY <1>3, SequenceEmptyOrAppend
  <2>2. /\ Len(runs) = Len(t) + 1 /\ Len(t) \in Nat /\ runs[Len(runs)] = x
        /\ \A i \in 1..Len(t) : runs[i] = t[i]
    BY <2>1, AppendProperties, LenProperties
  <2>3. Last(runs) = x /\ x.pixels = f.pixels
    BY <1>3, <2>2 DEF Last
  <2>4. PICK y : y = [x EXCEPT !.delay = @ + f.delay]
    OBVIOUS
  <2>5. y \in Lasting(P) /\ y.pixels = f.pixels /\ y.delay = x.delay + f.delay
    <3>1. /\ x.pixels \in P /\ x.delay \in Nat \ {0} /\ f.delay \in Nat \ {0}
          /\ x = [pixels |-> x.pixels, delay |-> x.delay]
      BY DEF Lasting
    <3>2. y = [pixels |-> x.pixels, delay |-> x.delay + f.delay]
      BY <2>4, <3>1
    <3>3. x.delay + f.delay \in Nat \ {0}
      BY <3>1
    <3> QED
      BY <2>3, <3>1, <3>2, <3>3 DEF Lasting
  <2>6. WithFrame(runs, f) = [runs EXCEPT ![Len(runs)] = y]
    BY <1>3, <2>2, <2>4 DEF WithFrame
  <2>7. [runs EXCEPT ![Len(runs)] = y] = Append(t, y)
    <3> DEFINE a == [runs EXCEPT ![Len(runs)] = y]
               b == Append(t, y)
    <3>1. /\ a \in Seq(Lasting(P)) /\ Len(a) = Len(t) + 1 /\ a[Len(t) + 1] = y
          /\ \A i \in 1..Len(t) : a[i] = t[i]
      <4>1. Len(runs) \in 1..Len(runs)
        BY <2>2
      <4>2. a \in Seq(Lasting(P)) /\ Len(a) = Len(runs) /\ \A i \in 1..Len(runs) : a[i] = IF i = Len(runs) THEN y ELSE runs[i]
        BY <2>5, <4>1, ExceptSeq
      <4> HIDE DEF a
      <4> QED
        BY <2>2, <4>1, <4>2
    <3>2. /\ b \in Seq(Lasting(P)) /\ Len(b) = Len(t) + 1 /\ b[Len(t) + 1] = y
          /\ \A i \in 1..Len(t) : b[i] = t[i]
      BY <2>5, AppendProperties
    <3> HIDE DEF a, b
    <3>3. \A i \in 1..Len(t) + 1 : a[i] = b[i]
      <4> TAKE i \in 1..Len(t) + 1
      <4>1. i = Len(t) + 1 \/ i \in 1..Len(t)
        BY <2>2
      <4> QED
        BY <3>1, <3>2, <4>1
    <3> QED
      BY <3>1, <3>2, <3>3, SeqEqual DEF a, b
  <2>8. WithFrame(runs, f) = Append(t, y) /\ Append(t, y) \in Seq(Lasting(P)) /\ Append(t, y) # << >>
    BY <2>5, <2>6, <2>7, AppendProperties
  <2> DEFINE p == f.pixels
             r == Repeated(p, x.delay)
             q == Repeated(p, f.delay)
  <2>9. p \in P /\ x.delay \in Nat /\ f.delay \in Nat
    BY DEF Lasting
  <2>10. r \in Seq(P) /\ q \in Seq(P) /\ Repeated(p, x.delay + f.delay) = r \o q
    <3> HIDE DEF p
    <3> QED
      BY <2>9, RepeatedAdds
  <2>11. Seen(t) \in Seq(P) /\ Seen(Append(t, y)) = Seen(t) \o (r \o q)
    <3>1. t \in Seq(Stills(P)) /\ y \in Stills(P)
      BY <1>1, <2>5
    <3>2. Seen(t) \in Seq(P) /\ Seen(Append(t, y)) = Seen(t) \o Repeated(y.pixels, y.delay)
      BY <3>1, SeenAppends
    <3> QED
      BY <2>5, <2>10, <3>2
  <2>12. Seen(runs) = Seen(t) \o r
    <3>1. t \in Seq(Stills(P)) /\ x \in Stills(P)
      BY <1>1
    <3>2. Seen(Append(t, x)) = Seen(t) \o Repeated(x.pixels, x.delay)
      BY <3>1, SeenAppends
    <3> QED
      BY <2>1, <2>3, <3>2
  <2> HIDE DEF r, q
  <2>13. (Seen(t) \o r) \o q = Seen(t) \o (r \o q)
    <3>1. Seen(t) \in Seq(P) /\ r \in Seq(P) /\ q \in Seq(P)
      BY <2>10, <2>11
    <3> QED
      BY <3>1, ThreeInARow, SMTT(20)
  <2> QED
    BY <2>8, <2>11, <2>12, <2>13 DEF q
<1> QED
  BY <1>2, <1>3

\* Merging shows the same.
LEMMA MergedShows ==
    ASSUME NEW P, NEW fs \in Seq(Lasting(P))
    PROVE  /\ Merged(fs) \in Seq(Lasting(P)) /\ Seen(Merged(fs)) = Seen(fs)
           /\ fs # << >> => Merged(fs) # << >>
<1> DEFINE Fine(gs) == /\ Merged(gs) \in Seq(Lasting(P)) /\ Seen(Merged(gs)) = Seen(gs)
                       /\ gs # << >> => Merged(gs) # << >>
           T == {gs \in Seq(Lasting(P)) : Fine(gs)}
<1>1. << >> \in T
  <2>1. << >> \in Seq(Lasting(P))
    BY EmptySeq
  <2>2. Merged(<< >>) = << >>
    <3>1. << >> \in Seq({1}) /\ 1 \in {1}
      BY EmptySeq
    <3> QED
      BY <3>1, MergedAppends
  <2> QED
    BY <2>1, <2>2
<1>2. ASSUME NEW gs \in T, NEW f \in Lasting(P)
      PROVE  Append(gs, f) \in T
  <2>1. gs \in Seq(Lasting(P)) /\ Merged(gs) \in Seq(Lasting(P)) /\ Seen(Merged(gs)) = Seen(gs)
    OBVIOUS
  <2>2. Merged(Append(gs, f)) = WithFrame(Merged(gs), f) /\ Append(gs, f) \in Seq(Lasting(P))
    BY <2>1, MergedAppends, AppendProperties
  <2>3. /\ WithFrame(Merged(gs), f) \in Seq(Lasting(P)) /\ WithFrame(Merged(gs), f) # << >>
        /\ Seen(WithFrame(Merged(gs), f)) = Seen(Merged(gs)) \o Repeated(f.pixels, f.delay)
    BY <2>1, WithFrameShows
  <2>4. gs \in Seq(Stills(P)) /\ f \in Stills(P)
    <3>1. Lasting(P) \subseteq Stills(P)
      BY DEF Lasting, Stills
    <3>2. Seq(Lasting(P)) \subseteq Seq(Stills(P))
      BY <3>1, SeqMonotonic
    <3> QED
      BY <2>1, <3>1, <3>2
  <2>5. Seen(Append(gs, f)) = Seen(gs) \o Repeated(f.pixels, f.delay)
    BY <2>4, SeenAppends
  <2>6. Fine(Append(gs, f))
    BY <2>1, <2>2, <2>3, <2>5
  <2> HIDE DEF Fine
  <2> QED
    BY <2>2, <2>6
<1>3. T = Seq(Lasting(P))
  <2> HIDE DEF T
  <2> QED
    BY <1>1, <1>2, BuiltOneByOne DEF T
<1> QED
  BY <1>3

LEMMA OneMoreIsCounted ==
    ASSUME NEW P, NEW gs \in Seq(Stills(P)), NEW f \in Stills(P), DelaySum(gs) = Len(Seen(gs))
    PROVE  DelaySum(Append(gs, f)) = Len(Seen(Append(gs, f)))
<1>1. DelaySum(Append(gs, f)) = DelaySum(gs) + f.delay
  BY DelaySumAppends
<1>2. f.pixels \in P /\ f.delay \in Nat
  BY DEF Stills
<1>3. Repeated(f.pixels, f.delay) \in Seq(P) /\ Len(Repeated(f.pixels, f.delay)) = f.delay
  BY <1>2, RepeatedAdds
<1>4. Seen(gs) \in Seq(P) /\ Seen(Append(gs, f)) = Seen(gs) \o Repeated(f.pixels, f.delay)
  BY SeenAppends
<1>5. Len(Seen(Append(gs, f))) = Len(Seen(gs)) + f.delay
  <2>1. PICK a \in Seq(P), b \in Seq(P) : a = Seen(gs) /\ b = Repeated(f.pixels, f.delay)
    BY <1>3, <1>4
  <2>2. Len(a \o b) = Len(a) + Len(b)
    OBVIOUS
  <2> QED
    BY <1>3, <1>4, <2>1, <2>2
<1> QED
  BY <1>1, <1>5

\* How long a sequence of frames is shown is the sum of its delays.
LEMMA DelaySumIsShown ==
    ASSUME NEW P, NEW fs \in Seq(Stills(P))
    PROVE  DelaySum(fs) = Len(Seen(fs))
<1> DEFINE T == {gs \in Seq(Stills(P)) : DelaySum(gs) = Len(Seen(gs))}
<1>1. << >> \in T
  <2>1. << >> \in Seq(Stills(P))
    BY EmptySeq
  <2>2. DelaySum(<< >>) = 0
    <3>1. << >> \in Seq({1}) /\ 1 \in {1}
      BY EmptySeq
    <3> QED
      BY <3>1, DelaySumAppends
  <2>3. Seen(<< >>) = << >>
    BY FlattenIsTyped DEF Seen
  <2> QED
    BY <2>1, <2>2, <2>3
<1>2. ASSUME NEW gs \in T, NEW f \in Stills(P)
      PROVE  Append(gs, f) \in T
  BY OneMoreIsCounted, AppendProperties
<1>3. T = Seq(Stills(P))
  <2> HIDE DEF T
  <2> QED
    BY <1>1, <1>2, BuiltOneByOne DEF T
<1> QED
  BY <1>3

-----------------------------------------------------------------------------
(* WebPFit: delays in pieces *)

Sayable(P) == [pixels : P, delay : 1..MaxDelay]
Longest(p, n) == [i \in 1..n |-> [pixels |-> p, delay |-> MaxDelay]]

LEMMA SayableIsShown ==
    ASSUME NEW P
    PROVE  /\ Sayable(P) \subseteq Lasting(P) /\ Lasting(P) \subseteq Stills(P)
           /\ Seq(Sayable(P)) \subseteq Seq(Lasting(P)) /\ Seq(Lasting(P)) \subseteq Seq(Stills(P))
<1>1. Sayable(P) \subseteq Lasting(P) /\ Lasting(P) \subseteq Stills(P)
  BY WebPFitAssumption DEF Sayable, Lasting, Stills
<1> QED
  BY <1>1, SeqMonotonic

LEMMA LongestShows ==
    ASSUME NEW P, NEW p \in P, NEW n \in Nat
    PROVE  Longest(p, n) \in Seq(Sayable(P)) /\ Seen(Longest(p, n)) = Repeated(p, n * MaxDelay)
<1>1. MaxDelay \in Nat \ {0}
  BY WebPFitAssumption
<1> DEFINE d == [pixels |-> p, delay |-> MaxDelay]
<1>2. d \in Sayable(P) /\ d.pixels = p /\ d.delay = MaxDelay
  BY <1>1 DEF Sayable
<1>3. \A k \in Nat : /\ Longest(p, k) \in Seq(Sayable(P)) /\ Len(Longest(p, k)) = k
                     /\ \A i \in 1..k : Longest(p, k)[i] = d
  BY <1>2 DEF Longest
<1> HIDE DEF d
<1> DEFINE S == {k \in Nat : Seen(Longest(p, k)) = Repeated(p, k * MaxDelay)}
<1>4. 0 \in S
  <2>1. 0 * MaxDelay = 0 /\ Longest(p, 0) = << >> /\ Repeated(p, 0) = << >>
    BY <1>1 DEF Longest, Repeated
  <2> QED
    BY <2>1, FlattenIsTyped DEF Seen
<1>5. ASSUME NEW k \in S
      PROVE  k + 1 \in S
  <2>1. k \in Nat /\ k + 1 \in Nat /\ Seen(Longest(p, k)) = Repeated(p, k * MaxDelay)
    OBVIOUS
  <2>2. PICK a \in Seq(Sayable(P)), b \in Seq(Sayable(P)) : a = Longest(p, k) /\ b = Longest(p, k + 1)
    BY <1>3, <2>1
  <2>3. /\ Len(a) = k /\ Len(b) = k + 1 /\ \A i \in 1..k : a[i] = d
        /\ \A i \in 1..k + 1 : b[i] = d
    BY <1>3, <2>1, <2>2
  <2> HIDE DEF S
  <2>4. b = Append(a, d)
    <3> DEFINE c == Append(a, d)
    <3>1. c \in Seq(Sayable(P)) /\ Len(c) = k + 1 /\ c[k + 1] = d /\ \A i \in 1..k : c[i] = a[i]
      BY <1>2, <2>3, AppendProperties
    <3> HIDE DEF c
    <3>2. \A i \in 1..k + 1 : b[i] = c[i]
      <4> TAKE i \in 1..k + 1
      <4>1. i = k + 1 \/ i \in 1..k
        BY <2>1
      <4> QED
        BY <2>3, <3>1, <4>1
    <3> QED
      BY <2>3, <3>1, <3>2, SeqEqual DEF c
  <2>5. Seen(b) = Seen(a) \o Repeated(p, MaxDelay)
    <3>1. a \in Seq(Stills(P)) /\ d \in Stills(P)
      BY <1>2, SayableIsShown
    <3>2. Seen(Append(a, d)) = Seen(a) \o Repeated(d.pixels, d.delay)
      BY <3>1, SeenAppends
    <3> QED
      BY <1>2, <2>4, <3>2
  <2>6. Repeated(p, (k + 1) * MaxDelay) = Repeated(p, k * MaxDelay) \o Repeated(p, MaxDelay)
    <3>1. PICK m \in Nat : m = k * MaxDelay
      BY <1>1, <2>1
    <3>2. (k + 1) * MaxDelay = m + MaxDelay
      BY <1>1, <2>1, <3>1
    <3>3. Repeated(p, m + MaxDelay) = Repeated(p, m) \o Repeated(p, MaxDelay)
      BY <1>1, RepeatedAdds
    <3> QED
      BY <3>1, <3>2, <3>3
  <2> QED
    BY <2>1, <2>2, <2>5, <2>6 DEF S
<1>6. S = Nat
  <2> HIDE DEF S
  <2> QED
    BY <1>4, <1>5, Induction DEF S
<1> QED
  BY <1>3, <1>6

\* The pieces of a delay add up to it, and each of them can be said.
LEMMA PiecesShow ==
    ASSUME NEW P, NEW f \in Lasting(P)
    PROVE  /\ Pieces(f) \in Seq(Sayable(P)) /\ Pieces(f) # << >>
           /\ Seen(Pieces(f)) = Repeated(f.pixels, f.delay)
<1> DEFINE p == f.pixels
           d == f.delay
           full == (d - 1) \div MaxDelay
           long == full * MaxDelay
           left == d - long
           g == [pixels |-> p, delay |-> left]
<1>1. MaxDelay \in Nat \ {0} /\ p \in P /\ d \in Nat \ {0} /\ f = [pixels |-> p, delay |-> d]
  BY WebPFitAssumption DEF Lasting
<1> HIDE DEF p, d
<1>2. full \in Nat /\ MaxDelay * full <= d - 1 /\ d - 1 < MaxDelay * full + MaxDelay
  <2>1. d - 1 \in Nat
    BY <1>1
  <2> QED
    BY <1>1, <2>1, Quotients
<1> HIDE DEF full
<1>3. long \in Nat /\ left \in 1..MaxDelay /\ long + left = d
  <2>1. long = MaxDelay * full /\ long \in Nat
    BY <1>1, <1>2
  <2> HIDE DEF long
  <2> QED
    BY <1>1, <1>2, <2>1
<1>4. g \in Sayable(P) /\ g.pixels = p /\ g.delay = left
  BY <1>1, <1>3 DEF Sayable
<1>5. Pieces(f) = [i \in 1..full + 1 |-> IF i <= full THEN [pixels |-> p, delay |-> MaxDelay] ELSE g]
  <2>1. \A e : [f EXCEPT !.delay = e] = [pixels |-> p, delay |-> e]
    BY <1>1
  <2>2. Pieces(f) = [i \in 1..full + 1 |-> [f EXCEPT !.delay = IF i <= full THEN MaxDelay ELSE left]]
    BY DEF Pieces, full, d
  <2> HIDE DEF left
  <2> QED
    BY <2>1, <2>2
<1> HIDE DEF left
<1>6. PICK a \in Seq(Sayable(P)) : /\ a = Longest(p, full) /\ Seen(a) = Repeated(p, long) /\ Len(a) = full
                                  /\ \A i \in 1..full : a[i] = [pixels |-> p, delay |-> MaxDelay]
  <2>1. Longest(p, full) \in Seq(Sayable(P)) /\ Seen(Longest(p, full)) = Repeated(p, long)
    BY <1>1, <1>2, LongestShows
  <2>2. Len(Longest(p, full)) = full /\ \A i \in 1..full : Longest(p, full)[i] = [pixels |-> p, delay |-> MaxDelay]
    BY <1>2 DEF Longest
  <2> QED
    BY <2>1, <2>2
<1> HIDE DEF g, long
<1>7. Pieces(f) = Append(a, g)
  <2> DEFINE b == Append(a, g)
  <2>1. b \in Seq(Sayable(P)) /\ Len(b) = full + 1 /\ b[full + 1] = g /\ \A i \in 1..full : b[i] = a[i]
    BY <1>4, <1>6, AppendProperties
  <2>2. /\ b = [i \in 1..full + 1 |-> b[i]]
        /\ \A i \in 1..full + 1 : b[i] = IF i <= full THEN [pixels |-> p, delay |-> MaxDelay] ELSE g
    <3>1. DOMAIN b = 1..full + 1 /\ b = [i \in DOMAIN b |-> b[i]]
      BY <2>1, LenProperties
    <3> HIDE DEF b
    <3>2. ASSUME NEW i \in 1..full + 1
          PROVE  b[i] = IF i <= full THEN [pixels |-> p, delay |-> MaxDelay] ELSE g
      <4>1. i \in 1..full \/ i = full + 1
        BY <1>2
      <4> QED
        BY <1>2, <1>6, <2>1, <4>1
    <3> QED
      BY <3>1, <3>2
  <2> HIDE DEF b
  <2> QED
    BY <1>5, <2>2 DEF b
<1>8. Seen(Append(a, g)) = Repeated(p, long) \o Repeated(p, left)
  <2>1. a \in Seq(Stills(P)) /\ g \in Stills(P)
    BY <1>4, SayableIsShown
  <2> QED
    BY <1>4, <1>6, <2>1, SeenAppends
<1>9. Repeated(p, d) = Repeated(p, long) \o Repeated(p, left)
  <2>1. left \in Nat
    BY <1>1, <1>3
  <2> QED
    BY <1>1, <1>3, <2>1, RepeatedAdds
<1> QED
  BY <1>4, <1>7, <1>8, <1>9, AppendProperties DEF p, d

AllPieces(fs) == FlattenSeq([i \in DOMAIN fs |-> Pieces(fs[i])])

LEMMA PiecesAppend ==
    ASSUME NEW P, NEW fs \in Seq(Lasting(P)), NEW f \in Lasting(P)
    PROVE  AllPieces(Append(fs, f)) = AllPieces(fs) \o Pieces(f)
<1> DEFINE Parts(gs) == [i \in DOMAIN gs |-> Pieces(gs[i])]
           Y == Sayable(P)
<1>1. \A g \in Lasting(P) : Pieces(g) \in Seq(Y)
  BY PiecesShow
<1> HIDE DEF Y
<1>2. \A gs \in Seq(Lasting(P)) : Parts(gs) \in Seq(Seq(Y)) /\ Len(Parts(gs)) = Len(gs)
  <2> TAKE gs \in Seq(Lasting(P))
  <2>1. DOMAIN gs = 1..Len(gs) /\ Len(gs) \in Nat /\ \A i \in 1..Len(gs) : gs[i] \in Lasting(P)
    BY LenProperties, ElementOfSeq
  <2>2. \A i \in 1..Len(gs) : Pieces(gs[i]) \in Seq(Y)
    BY <1>1, <2>1
  <2> QED
    BY <2>1, <2>2, IsASeq
<1>3. \A gs : AllPieces(gs) = FlattenSeq(Parts(gs))
  BY DEF AllPieces
<1>4. Parts(Append(fs, f)) = Append(Parts(fs), Pieces(f))
  <2> DEFINE gs == Append(fs, f)
  <2>1. /\ gs \in Seq(Lasting(P)) /\ Len(fs) \in Nat /\ Len(gs) = Len(fs) + 1 /\ gs[Len(fs) + 1] = f
        /\ \A i \in 1..Len(fs) : gs[i] = fs[i]
    BY AppendProperties, LenProperties
  <2>2. DOMAIN gs = 1..Len(fs) + 1 /\ DOMAIN fs = 1..Len(fs)
    BY <2>1, LenProperties
  <2> HIDE DEF gs
  <2>3. /\ \A i \in 1..Len(fs) + 1 : Parts(gs)[i] = Pieces(gs[i])
        /\ \A i \in 1..Len(fs) : Parts(fs)[i] = Pieces(fs[i])
    BY <2>2
  <2>4. /\ Parts(fs) \in Seq(Seq(Y)) /\ Len(Parts(fs)) = Len(fs)
        /\ Parts(gs) \in Seq(Seq(Y)) /\ Len(Parts(gs)) = Len(fs) + 1
    BY <1>2, <2>1
  <2> HIDE DEF Parts
  <2> DEFINE ps == Append(Parts(fs), Pieces(f))
  <2>5. /\ ps \in Seq(Seq(Y)) /\ Len(ps) = Len(fs) + 1 /\ ps[Len(fs) + 1] = Pieces(f)
        /\ \A i \in 1..Len(fs) : ps[i] = Parts(fs)[i]
    BY <1>1, <2>4, AppendProperties
  <2> HIDE DEF ps
  <2>6. \A i \in 1..Len(fs) + 1 : Parts(gs)[i] = ps[i]
    <3> TAKE i \in 1..Len(fs) + 1
    <3>1. CASE i = Len(fs) + 1
      BY <2>1, <2>3, <2>5, <3>1
    <3>2. CASE i # Len(fs) + 1
      <4>1. i \in 1..Len(fs)
        BY <2>1, <3>2
      <4> QED
        BY <2>1, <2>3, <2>5, <4>1
    <3> QED
      BY <3>1, <3>2
  <2> QED
    BY <2>4, <2>5, <2>6, SeqEqual DEF gs, ps
<1> HIDE DEF Parts
<1> QED
  BY <1>1, <1>2, <1>3, <1>4, FlattenAppends

LEMMA OneMoreInPieces ==
    ASSUME NEW P, NEW gs \in Seq(Lasting(P)), NEW f \in Lasting(P),
           AllPieces(gs) \in Seq(Sayable(P)), Seen(AllPieces(gs)) = Seen(gs)
    PROVE  /\ AllPieces(Append(gs, f)) \in Seq(Sayable(P)) /\ AllPieces(Append(gs, f)) # << >>
           /\ Seen(AllPieces(Append(gs, f))) = Seen(Append(gs, f))
<1>1. PICK a \in Seq(Sayable(P)), b \in Seq(Sayable(P)) :
         /\ a = AllPieces(gs) /\ b = Pieces(f) /\ b # << >> /\ Seen(b) = Repeated(f.pixels, f.delay)
  BY PiecesShow
<1>2. AllPieces(Append(gs, f)) = a \o b
  BY <1>1, PiecesAppend
<1>3. a \o b \in Seq(Sayable(P)) /\ a \o b # << >>
  BY <1>1, ConcatProperties, ConcatEqualIffEmpty
<1>4. Seen(a \o b) = Seen(a) \o Seen(b)
  <2>1. a \in Seq(Stills(P)) /\ b \in Seq(Stills(P))
    BY SayableIsShown
  <2> QED
    BY <2>1, SeenConcats
<1>5. Seen(Append(gs, f)) = Seen(gs) \o Repeated(f.pixels, f.delay)
  <2>1. gs \in Seq(Stills(P)) /\ f \in Stills(P)
    BY SayableIsShown
  <2> QED
    BY <2>1, SeenAppends
<1> QED
  BY <1>1, <1>2, <1>3, <1>4, <1>5

\* Splitting shows the same.
LEMMA AllPiecesShow ==
    ASSUME NEW P, NEW fs \in Seq(Lasting(P))
    PROVE  /\ AllPieces(fs) \in Seq(Sayable(P)) /\ Seen(AllPieces(fs)) = Seen(fs)
           /\ fs # << >> => AllPieces(fs) # << >>
<1> DEFINE Fine(gs) == /\ AllPieces(gs) \in Seq(Sayable(P)) /\ Seen(AllPieces(gs)) = Seen(gs)
                       /\ gs # << >> => AllPieces(gs) # << >>
           T == {gs \in Seq(Lasting(P)) : Fine(gs)}
<1>1. << >> \in T
  <2>1. << >> \in Seq(Lasting(P)) /\ << >> \in Seq(Sayable(P))
    BY EmptySeq
  <2>2. AllPieces(<< >>) = << >>
    BY FlattenIsTyped DEF AllPieces
  <2>3. Fine(<< >>)
    BY <2>1, <2>2
  <2> QED
    BY <2>1, <2>3
<1>2. ASSUME NEW gs \in T, NEW f \in Lasting(P)
      PROVE  Append(gs, f) \in T
  <2>1. gs \in Seq(Lasting(P)) /\ AllPieces(gs) \in Seq(Sayable(P)) /\ Seen(AllPieces(gs)) = Seen(gs)
    OBVIOUS
  <2>2. Fine(Append(gs, f))
    BY <2>1, OneMoreInPieces
  <2> HIDE DEF Fine
  <2> QED
    BY <2>1, <2>2, AppendProperties
<1>3. T = Seq(Lasting(P))
  <2> HIDE DEF T
  <2> QED
    BY <1>1, <1>2, BuiltOneByOne DEF T
<1> QED
  BY <1>3

\* What is handed to the encoder shows what the frames show.
LEMMA EmittedShows ==
    ASSUME NEW P, NEW fs \in Seq(Lasting(P)), Len(fs) > 1
    PROVE  Emitted(fs) \in Seq(Sayable(P)) /\ Emitted(fs) # << >> /\ Seen(Emitted(fs)) = Seen(fs)
<1>1. fs # << >> /\ Len(fs) # 1
  <2>1. PICK n \in Nat : n = Len(fs)
    OBVIOUS
  <2>2. n # 0 /\ n # 1
    BY <2>1
  <2>3. CASE fs = << >>
    BY <2>1, <2>2, <2>3, EmptySeq
  <2> QED
    BY <2>1, <2>2, <2>3
<1>2. Emitted(fs) = AllPieces(Merged(fs))
  BY <1>1 DEF Emitted, AllPieces
<1> QED
  BY <1>1, <1>2, MergedShows, AllPiecesShow

-----------------------------------------------------------------------------
(* WebPFit: what is encoded *)

Chunk(p) == [pixels |-> p, delay |-> 1]
Chunks(ps) == [i \in DOMAIN ps |-> Chunk(ps[i])]
AsChunks(fs) == [i \in DOMAIN fs |-> [pixels |-> Chunk(fs[i].pixels), delay |-> fs[i].delay]]

LEMMA ChunksJoin ==
    ASSUME NEW P, NEW a \in Seq(P), NEW b \in Seq(P)
    PROVE  Chunks(a) \in Seq({Chunk(p) : p \in P}) /\ Chunks(a \o b) = Chunks(a) \o Chunks(b)
<1> DEFINE Q == {Chunk(p) : p \in P}
<1>1. \A c \in Seq(P) : /\ Chunks(c) \in Seq(Q) /\ Len(Chunks(c)) = Len(c) /\ Len(c) \in Nat
                        /\ \A i \in 1..Len(c) : Chunks(c)[i] = Chunk(c[i])
  <2> TAKE c \in Seq(P)
  <2>1. DOMAIN c = 1..Len(c) /\ Len(c) \in Nat /\ \A i \in 1..Len(c) : c[i] \in P
    BY LenProperties, ElementOfSeq
  <2>2. \A i \in 1..Len(c) : Chunk(c[i]) \in Q
    BY <2>1
  <2> HIDE DEF Q
  <2> QED
    BY <2>1, <2>2, IsASeq DEF Chunks
<1> HIDE DEF Q
<1>2. PICK d \in Seq(P) : /\ d = a \o b /\ Len(d) = Len(a) + Len(b)
                          /\ \A i \in 1..Len(a) + Len(b) : d[i] = IF i <= Len(a) THEN a[i] ELSE b[i - Len(a)]
  <2>1. /\ a \o b \in Seq(P) /\ Len(a \o b) = Len(a) + Len(b)
        /\ \A i \in 1..Len(a) + Len(b) : (a \o b)[i] = IF i <= Len(a) THEN a[i] ELSE b[i - Len(a)]
    BY ConcatProperties
  <2> QED
    BY <2>1
<1>3. PICK x \in Seq(Q), y \in Seq(Q), z \in Seq(Q) : x = Chunks(a) /\ y = Chunks(b) /\ z = Chunks(d)
  BY <1>1
<1>4. /\ Len(x) = Len(a) /\ Len(y) = Len(b) /\ Len(z) = Len(a) + Len(b) /\ Len(a) \in Nat /\ Len(b) \in Nat
      /\ \A i \in 1..Len(a) : x[i] = Chunk(a[i])
      /\ \A i \in 1..Len(b) : y[i] = Chunk(b[i])
      /\ \A i \in 1..Len(a) + Len(b) : z[i] = Chunk(d[i])
  BY <1>1, <1>2, <1>3
<1>5. PICK w \in Seq(Q) : /\ w = x \o y /\ Len(w) = Len(x) + Len(y)
                          /\ \A i \in 1..Len(x) + Len(y) : w[i] = IF i <= Len(x) THEN x[i] ELSE y[i - Len(x)]
  <2>1. /\ x \o y \in Seq(Q) /\ Len(x \o y) = Len(x) + Len(y)
        /\ \A i \in 1..Len(x) + Len(y) : (x \o y)[i] = IF i <= Len(x) THEN x[i] ELSE y[i - Len(x)]
    BY ConcatProperties
  <2> QED
    BY <2>1
<1>6. \A i \in 1..Len(z) : z[i] = w[i]
  <2> TAKE i \in 1..Len(z)
  <2>1. i \in 1..Len(a) + Len(b)
    BY <1>4
  <2>2. CASE i <= Len(a)
    <3>1. i \in 1..Len(a)
      BY <1>4, <2>1, <2>2
    <3> QED
      BY <1>2, <1>4, <1>5, <2>1, <2>2, <3>1
  <2>3. CASE ~(i <= Len(a))
    <3>1. i - Len(a) \in 1..Len(b)
      BY <1>4, <2>1, <2>3
    <3> QED
      BY <1>2, <1>4, <1>5, <2>1, <2>3, <3>1
  <2> QED
    BY <2>2, <2>3
<1>7. z = w
  <2>1. Len(z) = Len(w)
    BY <1>4, <1>5
  <2> QED
    BY <1>6, <2>1, SeqEqual
<1> QED
  BY <1>1, <1>2, <1>3, <1>5, <1>7 DEF Q

Mapped(m, fs) == [i \in DOMAIN fs |-> m[fs[i]]]

\* A frame that is appended is mapped like the others.
LEMMA MappedAppends ==
    ASSUME NEW A, NEW B, NEW fs \in Seq(A), NEW x \in A, NEW m \in [A -> B]
    PROVE  Mapped(m, fs) \in Seq(B) /\ Mapped(m, Append(fs, x)) = Append(Mapped(m, fs), m[x])
<1>1. \A gs \in Seq(A) : /\ Mapped(m, gs) \in Seq(B) /\ Len(Mapped(m, gs)) = Len(gs) /\ Len(gs) \in Nat
                         /\ \A i \in 1..Len(gs) : Mapped(m, gs)[i] = m[gs[i]]
  <2> TAKE gs \in Seq(A)
  <2>1. DOMAIN gs = 1..Len(gs) /\ Len(gs) \in Nat /\ \A i \in 1..Len(gs) : gs[i] \in A
    BY LenProperties, ElementOfSeq
  <2>2. \A i \in 1..Len(gs) : m[gs[i]] \in B
    BY <2>1
  <2> QED
    BY <2>1, <2>2, IsASeq DEF Mapped
<1>2. PICK gs \in Seq(A) : gs = Append(fs, x)
  BY AppendProperties
<1>3. Len(gs) = Len(fs) + 1 /\ gs[Len(fs) + 1] = x /\ \A i \in 1..Len(fs) : gs[i] = fs[i]
  BY <1>2, AppendProperties
<1>4. PICK a \in Seq(B), b \in Seq(B) : a = Mapped(m, fs) /\ b = Mapped(m, gs)
  BY <1>1
<1>5. /\ Len(a) = Len(fs) /\ Len(b) = Len(fs) + 1 /\ Len(fs) \in Nat
      /\ \A i \in 1..Len(fs) : a[i] = m[fs[i]]
      /\ \A i \in 1..Len(fs) + 1 : b[i] = m[gs[i]]
  <2>1. Len(gs) = Len(fs) + 1
    BY <1>3
  <2> QED
    BY <1>1, <1>4, <2>1
<1>6. m[x] \in B
  OBVIOUS
<1>7. PICK c \in Seq(B) : /\ c = Append(a, m[x]) /\ Len(c) = Len(a) + 1 /\ c[Len(a) + 1] = m[x]
                          /\ \A i \in 1..Len(a) : c[i] = a[i]
  <2>1. /\ Append(a, m[x]) \in Seq(B) /\ Len(Append(a, m[x])) = Len(a) + 1 /\ Append(a, m[x])[Len(a) + 1] = m[x]
        /\ \A i \in 1..Len(a) : Append(a, m[x])[i] = a[i]
    BY <1>6, AppendProperties
  <2> QED
    BY <2>1
<1>8. \A i \in 1..Len(b) : b[i] = c[i]
  <2> TAKE i \in 1..Len(b)
  <2>1. i \in 1..Len(fs) + 1 /\ (i = Len(fs) + 1 \/ i \in 1..Len(fs))
    BY <1>5
  <2> QED
    BY <1>3, <1>5, <1>7, <2>1
<1>9. b = c
  <2>1. Len(b) = Len(c)
    BY <1>5, <1>7
  <2> QED
    BY <1>8, <2>1, SeqEqual
<1> QED
  BY <1>2, <1>4, <1>7, <1>9

LEMMA AsChunksAppend ==
    ASSUME NEW P, NEW fs \in Seq(Stills(P)), NEW f \in Stills(P)
    PROVE  LET Q == {Chunk(p) : p \in P}
               x == [pixels |-> Chunk(f.pixels), delay |-> f.delay]
           IN  /\ AsChunks(fs) \in Seq(Stills(Q)) /\ x \in Stills(Q)
               /\ AsChunks(Append(fs, f)) = Append(AsChunks(fs), x)
<1> DEFINE Q == {Chunk(p) : p \in P}
<1>1. PICK m : m = [g \in Stills(P) |-> [pixels |-> Chunk(g.pixels), delay |-> g.delay]]
  OBVIOUS
<1>2. PICK B : B = Stills(Q)
  OBVIOUS
<1>3. m \in [Stills(P) -> B]
  BY <1>1, <1>2 DEF Stills
<1>4. \A gs \in Seq(Stills(P)) : AsChunks(gs) = Mapped(m, gs)
  <2> TAKE gs \in Seq(Stills(P))
  <2>1. \A i \in DOMAIN gs : gs[i] \in Stills(P)
    BY LenProperties, ElementOfSeq
  <2> QED
    BY <1>1, <2>1 DEF AsChunks, Mapped
<1>5. m[f] = [pixels |-> Chunk(f.pixels), delay |-> f.delay] /\ m[f] \in B
  BY <1>1, <1>3
<1>6. Mapped(m, fs) \in Seq(B) /\ Mapped(m, Append(fs, f)) = Append(Mapped(m, fs), m[f])
  BY <1>3, MappedAppends
<1>7. Append(fs, f) \in Seq(Stills(P))
  BY AppendProperties
<1> HIDE DEF Q
<1> QED
  BY <1>2, <1>4, <1>5, <1>6, <1>7 DEF Q

\* Chunks are repeated as their pictures are.
LEMMA SeenAsChunks ==
    ASSUME NEW P, NEW fs \in Seq(Stills(P))
    PROVE  Seen(AsChunks(fs)) = Chunks(Seen(fs))
<1> DEFINE T == {gs \in Seq(Stills(P)) : Seen(AsChunks(gs)) = Chunks(Seen(gs))}
<1>1. << >> \in T
  <2>1. << >> \in Seq(Stills(P)) /\ AsChunks(<< >>) = << >> /\ Chunks(<< >>) = << >>
    BY EmptySeq DEF AsChunks, Chunks
  <2>2. Seen(<< >>) = << >>
    BY FlattenIsTyped DEF Seen
  <2> QED
    BY <2>1, <2>2
<1>2. ASSUME NEW gs \in Seq(Stills(P)), NEW f \in Stills(P), Seen(AsChunks(gs)) = Chunks(Seen(gs))
      PROVE  Seen(AsChunks(Append(gs, f))) = Chunks(Seen(Append(gs, f)))
  <2> DEFINE Q == {Chunk(p) : p \in P}
             x == [pixels |-> Chunk(f.pixels), delay |-> f.delay]
  <2>1. AsChunks(gs) \in Seq(Stills(Q)) /\ x \in Stills(Q) /\ AsChunks(Append(gs, f)) = Append(AsChunks(gs), x)
    BY AsChunksAppend
  <2>2. x.pixels = Chunk(f.pixels) /\ x.delay = f.delay
    OBVIOUS
  <2> HIDE DEF x, Q
  <2>3. Seen(Append(AsChunks(gs), x)) = Seen(AsChunks(gs)) \o Repeated(x.pixels, x.delay)
    BY <2>1, SeenAppends
  <2>4. Seen(gs) \in Seq(P) /\ Seen(Append(gs, f)) = Seen(gs) \o Repeated(f.pixels, f.delay)
    BY SeenAppends
  <2>5. f.pixels \in P /\ f.delay \in Nat
    BY DEF Stills
  <2>6. Repeated(f.pixels, f.delay) \in Seq(P)
    BY <2>5, RepeatedAdds
  <2>7. Chunks(Repeated(f.pixels, f.delay)) = Repeated(Chunk(f.pixels), f.delay)
    BY DEF Chunks, Repeated
  <2>8. Chunks(Seen(gs) \o Repeated(f.pixels, f.delay)) = Chunks(Seen(gs)) \o Chunks(Repeated(f.pixels, f.delay))
    BY <2>4, <2>6, ChunksJoin
  <2> QED
    BY <1>2, <2>1, <2>2, <2>3, <2>4, <2>7, <2>8
<1>3. ASSUME NEW gs \in T, NEW f \in Stills(P)
      PROVE  Append(gs, f) \in T
  <2>1. Append(gs, f) \in Seq(Stills(P))
    BY AppendProperties
  <2> QED
    BY <1>2, <2>1
<1>4. T = Seq(Stills(P))
  <2> HIDE DEF T
  <2> QED
    BY <1>1, <1>3, BuiltOneByOne DEF T
<1> QED
  BY <1>4

Units(fs) == [i \in DOMAIN fs |-> [fs[i] EXCEPT !.delay = 1]]
PicturesOf(fs) == [i \in DOMAIN fs |-> fs[i].pixels]

LEMMA UnitsAppend ==
    ASSUME NEW P, NEW fs \in Seq(Stills(P)), NEW f \in Stills(P)
    PROVE  LET x == [pixels |-> f.pixels, delay |-> 1]
           IN  /\ Units(fs) \in Seq(Lasting(P)) /\ x \in Lasting(P)
               /\ Units(Append(fs, f)) = Append(Units(fs), x)
<1>1. PICK m : m = [g \in Stills(P) |-> [pixels |-> g.pixels, delay |-> 1]]
  OBVIOUS
<1>2. PICK B : B = Lasting(P)
  OBVIOUS
<1>3. ASSUME NEW g \in Stills(P)
      PROVE  /\ [pixels |-> g.pixels, delay |-> 1] \in B
             /\ [g EXCEPT !.delay = 1] = [pixels |-> g.pixels, delay |-> 1]
  BY <1>2 DEF Stills, Lasting
<1>4. m \in [Stills(P) -> B]
  BY <1>1, <1>3
<1>5. \A gs \in Seq(Stills(P)) : Units(gs) = Mapped(m, gs)
  <2> TAKE gs \in Seq(Stills(P))
  <2>1. \A i \in DOMAIN gs : gs[i] \in Stills(P)
    BY LenProperties, ElementOfSeq
  <2>2. \A i \in DOMAIN gs : m[gs[i]] = [gs[i] EXCEPT !.delay = 1]
    BY <1>1, <1>3, <2>1
  <2> QED
    BY <2>2 DEF Units, Mapped
<1>6. m[f] = [pixels |-> f.pixels, delay |-> 1] /\ m[f] \in B
  BY <1>1, <1>3
<1>7. Mapped(m, fs) \in Seq(B) /\ Mapped(m, Append(fs, f)) = Append(Mapped(m, fs), m[f])
  BY <1>4, MappedAppends
<1>8. Append(fs, f) \in Seq(Stills(P))
  BY AppendProperties
<1> QED
  BY <1>2, <1>5, <1>6, <1>7, <1>8

LEMMA PicturesAppend ==
    ASSUME NEW P, NEW fs \in Seq(Stills(P)), NEW f \in Stills(P)
    PROVE  /\ PicturesOf(fs) \in Seq(P) /\ f.pixels \in P
           /\ PicturesOf(Append(fs, f)) = Append(PicturesOf(fs), f.pixels)
<1>1. PICK m : m = [g \in Stills(P) |-> g.pixels]
  OBVIOUS
<1>2. m \in [Stills(P) -> P]
  BY <1>1 DEF Stills
<1>3. \A gs \in Seq(Stills(P)) : PicturesOf(gs) = Mapped(m, gs)
  <2> TAKE gs \in Seq(Stills(P))
  <2>1. \A i \in DOMAIN gs : gs[i] \in Stills(P)
    BY LenProperties, ElementOfSeq
  <2> QED
    BY <1>1, <2>1 DEF PicturesOf, Mapped
<1>4. m[f] = f.pixels /\ m[f] \in P
  BY <1>1, <1>2
<1>5. Mapped(m, fs) \in Seq(P) /\ Mapped(m, Append(fs, f)) = Append(Mapped(m, fs), m[f])
  BY <1>2, MappedAppends
<1>6. Append(fs, f) \in Seq(Stills(P))
  BY AppendProperties
<1> QED
  BY <1>3, <1>4, <1>5, <1>6

\* Frames of one millisecond show their pictures.
LEMMA UnitsShow ==
    ASSUME NEW P, NEW fs \in Seq(Stills(P))
    PROVE  Units(fs) \in Seq(Lasting(P)) /\ Seen(Units(fs)) = PicturesOf(fs)
<1> DEFINE T == {gs \in Seq(Stills(P)) : Units(gs) \in Seq(Lasting(P)) /\ Seen(Units(gs)) = PicturesOf(gs)}
<1>4. << >> \in T
  <2>1. /\ << >> \in Seq(Stills(P)) /\ << >> \in Seq(Lasting(P)) /\ Units(<< >>) = << >> /\ PicturesOf(<< >>) = << >>
    BY EmptySeq DEF Units, PicturesOf
  <2>2. Seen(<< >>) = << >>
    BY FlattenIsTyped DEF Seen
  <2> QED
    BY <2>1, <2>2
<1>5. ASSUME NEW gs \in Seq(Stills(P)), NEW f \in Stills(P), Seen(Units(gs)) = PicturesOf(gs)
      PROVE  Units(Append(gs, f)) \in Seq(Lasting(P)) /\ Seen(Units(Append(gs, f))) = PicturesOf(Append(gs, f))
  <2> DEFINE x == [pixels |-> f.pixels, delay |-> 1]
  <2>1. Units(gs) \in Seq(Lasting(P)) /\ x \in Lasting(P) /\ Units(Append(gs, f)) = Append(Units(gs), x)
    BY UnitsAppend
  <2>2. /\ PicturesOf(gs) \in Seq(P) /\ f.pixels \in P
        /\ PicturesOf(Append(gs, f)) = Append(PicturesOf(gs), f.pixels)
    BY PicturesAppend
  <2>3. x.pixels = f.pixels /\ x.delay = 1
    OBVIOUS
  <2> HIDE DEF x
  <2>4. Append(Units(gs), x) \in Seq(Lasting(P))
    BY <2>1, AppendProperties
  <2>5. Seen(Append(Units(gs), x)) = Seen(Units(gs)) \o Repeated(f.pixels, 1)
    <3>1. Units(gs) \in Seq(Stills(P)) /\ x \in Stills(P)
      BY <2>1, SayableIsShown
    <3>2. Seen(Append(Units(gs), x)) = Seen(Units(gs)) \o Repeated(x.pixels, x.delay)
      BY <3>1, SeenAppends
    <3> QED
      BY <2>3, <3>2
  <2>6. Repeated(f.pixels, 1) = <<f.pixels>>
    BY DEF Repeated
  <2>7. Append(PicturesOf(gs), f.pixels) = PicturesOf(gs) \o <<f.pixels>>
    BY <2>2, AppendIsConcat
  <2> QED
    BY <1>5, <2>1, <2>2, <2>4, <2>5, <2>6, <2>7
<1>6. ASSUME NEW gs \in T, NEW f \in Stills(P)
      PROVE  Append(gs, f) \in T
  <2>1. Append(gs, f) \in Seq(Stills(P))
    BY AppendProperties
  <2> QED
    BY <1>5, <2>1
<1>7. T = Seq(Stills(P))
  <2> HIDE DEF T
  <2> QED
    BY <1>4, <1>6, BuiltOneByOne DEF T
<1> QED
  BY <1>7

Animation(flags, chunks) == [kind |-> "animation", flags |-> flags, loop |-> 0, chunks |-> chunks]

LEMMA ChunksReplaced ==
    ASSUME NEW cs, NEW ds
    PROVE  [Animation({}, cs) EXCEPT !.chunks = ds] = Animation({}, ds)
BY DEF Animation

LEMMA FlagsAndChunksReplaced ==
    ASSUME NEW cs, NEW ds
    PROVE  [Animation({}, cs) EXCEPT !.flags = {"alpha"}, !.chunks = ds] = Animation({"alpha"}, ds)
<1>1. [Animation({}, cs) EXCEPT !.flags = {"alpha"}] = Animation({"alpha"}, cs)
  BY DEF Animation
<1>2. [Animation({"alpha"}, cs) EXCEPT !.chunks = ds] = Animation({"alpha"}, ds)
  BY DEF Animation
<1>3. [[Animation({}, cs) EXCEPT !.flags = {"alpha"}] EXCEPT !.chunks = ds] = Animation({"alpha"}, ds)
  BY <1>1, <1>2
<1> QED
  BY <1>3

LEMMA FrontOfTwo ==
    ASSUME NEW x, NEW y
    PROVE  Front(<<x, y>>) = <<x>>
<1>1. PICK s : s = <<x, y>>
  OBVIOUS
<1>2. s \in Seq({x, y}) /\ s[1] = x /\ Len(s) = 2
  BY <1>1
<1>3. PICK t : t = SubSeq(s, 1, 1)
  OBVIOUS
<1>4. t \in Seq({x, y}) /\ Len(t) = 1 /\ t[1] = x
  BY <1>2, <1>3
<1>5. t = <<x>>
  BY <1>4
<1>6. Front(s) = t
  BY <1>2, <1>3 DEF Front
<1> QED
  BY <1>1, <1>5, <1>6

\* The file of several frames has a chunk for each frame that was emitted.
LEMMA AnimationIsEmitted ==
    ASSUME NEW P, NEW emitted \in Seq(Sayable(P)), emitted # << >>
    PROVE  EncodedAnimation(emitted) = [kind |-> "animation", flags |-> {"alpha"}, loop |-> 0, chunks |-> emitted]
<1> DEFINE delays == [i \in DOMAIN emitted |-> emitted[i].delay]
<1>1. emitted \in Seq(Stills(P)) /\ DOMAIN emitted = 1..Len(emitted) /\ Len(emitted) \in Nat \ {0}
  BY SayableIsShown, LenProperties, EmptySeq
<1>2. PICK units \in Seq(Lasting(P)) : units = Units(emitted) /\ Seen(units) = PicturesOf(emitted) /\ units # << >>
  <2>1. Units(emitted) \in Seq(Lasting(P)) /\ Seen(Units(emitted)) = PicturesOf(emitted)
    BY <1>1, UnitsShow
  <2>2. DOMAIN Units(emitted) = 1..Len(emitted)
    BY <1>1 DEF Units
  <2>3. DOMAIN << >> = 1..0 /\ 1 \in 1..Len(emitted) /\ 1 \notin 1..0
    BY <1>1
  <2>4. Units(emitted) # << >>
    BY <2>2, <2>3
  <2> QED
    BY <2>1, <2>4
<1>3. PICK runs \in Seq(Stills(P)) : runs = Merged(units) /\ Seen(runs) = PicturesOf(emitted) /\ runs # << >>
  <2>1. Merged(units) \in Seq(Lasting(P)) /\ Seen(Merged(units)) = Seen(units) /\ Merged(units) # << >>
    BY <1>2, MergedShows
  <2> QED
    BY <1>2, <2>1, SayableIsShown
<1>4. PICK n \in Nat \ {0} : n = Len(runs) /\ DOMAIN runs = 1..n
  BY <1>3, EmptySeq, LenProperties
<1>5. PICK base : /\ base = BaseFrames(emitted) /\ DOMAIN base = 1..n /\ Len(base) = n
                  /\ \A i \in 1..n : base[i].pixels = runs[i].pixels /\ base[i].repeat = runs[i].delay
  <2> DEFINE b == [i \in 1..n |-> [pixels |-> runs[i].pixels, repeat |-> runs[i].delay]]
  <2>1. BaseFrames(emitted) = b
    BY <1>2, <1>3, <1>4 DEF BaseFrames, Units
  <2>2. DOMAIN b = 1..n /\ Len(b) = n
        /\ \A i \in 1..n : b[i].pixels = runs[i].pixels /\ b[i].repeat = runs[i].delay
    OBVIOUS
  <2> HIDE DEF b
  <2> QED
    BY <2>1, <2>2
<1> DEFINE pictures == [i \in 1..n |-> Chunk(runs[i].pixels)]
<1>6. EncodedPictures(base) = Animation({}, pictures)
  <2>1. CASE n = 1
    <3> DEFINE two == <<base[1].pixels, "changed">>
               cs == [i \in DOMAIN two |-> [pixels |-> two[i], delay |-> 1]]
    <3>1. Len(two) = 2 /\ DOMAIN two = 1..2 /\ two[1] = base[1].pixels
      OBVIOUS
    <3>2. AnimationOf(two) = Animation({}, cs)
      <4>1. Len(two) > 1
        BY <3>1
      <4> HIDE DEF two
      <4> QED
        BY <4>1 DEF AnimationOf, Animation
    <3>3. Front(cs) = pictures
      <4>1. base[1].pixels = runs[1].pixels
        BY <1>5, <2>1
      <4>2. cs = <<Chunk(runs[1].pixels), Chunk("changed")>>
        BY <4>1 DEF Chunk
      <4>3. Front(<<Chunk(runs[1].pixels), Chunk("changed")>>) = <<Chunk(runs[1].pixels)>>
        BY FrontOfTwo
      <4>4. pictures = <<Chunk(runs[1].pixels)>>
        BY <2>1
      <4> QED
        BY <4>2, <4>3, <4>4
    <3>4. EncodedPictures(base) = LastCutOff(AnimationOf(two))
      BY <1>5, <2>1 DEF EncodedPictures
    <3>5. LastCutOff(Animation({}, cs)) = Animation({}, Front(cs))
      <4> HIDE DEF cs
      <4>1. Animation({}, cs).chunks = cs
        BY DEF Animation
      <4> QED
        BY <4>1, ChunksReplaced DEF LastCutOff
    <3> HIDE DEF cs, pictures, two
    <3> QED
      BY <3>2, <3>3, <3>4, <3>5
  <2>2. CASE n # 1
    <3> DEFINE several == [i \in DOMAIN base |-> base[i].pixels]
    <3>1. several = [i \in 1..n |-> runs[i].pixels]
      BY <1>5
    <3>2. Len(several) = n /\ DOMAIN several = 1..n /\ n > 1 /\ \A i \in 1..n : several[i] = runs[i].pixels
      BY <2>2, <3>1
    <3> HIDE DEF several
    <3>3. AnimationOf(several) = Animation({}, pictures)
      <4>1. [i \in DOMAIN several |-> [pixels |-> several[i], delay |-> 1]] = pictures
        BY <3>2 DEF Chunk
      <4> HIDE DEF pictures
      <4> QED
        BY <3>2, <4>1 DEF AnimationOf, Animation
    <3>4. EncodedPictures(base) = AnimationOf(several)
      BY <1>5, <2>2 DEF EncodedPictures, several
    <3> QED
      BY <3>3, <3>4
  <2> QED
    BY <2>1, <2>2
<1>7. Expanded(Animation({}, pictures), base) = Animation({}, Chunks(PicturesOf(emitted)))
  <2> DEFINE parts == [i \in DOMAIN base |-> [m \in 1..base[i].repeat |-> pictures[i]]]
             others == [i \in DOMAIN AsChunks(runs) |-> [ms \in 1..AsChunks(runs)[i].delay |-> AsChunks(runs)[i].pixels]]
  <2>1. Expanded(Animation({}, pictures), base) = Animation({}, FlattenSeq(parts))
    <3> DEFINE cs == FlattenSeq(parts)
    <3>1. Animation({}, pictures).chunks = pictures
      BY DEF Animation
    <3>2. Expanded(Animation({}, pictures), base) = [Animation({}, pictures) EXCEPT !.chunks = cs]
      BY <3>1 DEF Expanded
    <3> HIDE DEF cs, pictures
    <3>3. [Animation({}, pictures) EXCEPT !.chunks = cs] = Animation({}, cs)
      BY ChunksReplaced
    <3> QED
      BY <3>2, <3>3 DEF cs
  <2>2. parts = others
    <3>1. DOMAIN AsChunks(runs) = 1..n
      BY <1>4 DEF AsChunks
    <3>2. \A i \in 1..n : AsChunks(runs)[i].pixels = Chunk(runs[i].pixels) /\ AsChunks(runs)[i].delay = runs[i].delay
      BY <1>4 DEF AsChunks
    <3>3. \A i \in 1..n : pictures[i] = Chunk(runs[i].pixels)
      OBVIOUS
    <3> HIDE DEF pictures
    <3>4. PICK chunks : chunks = AsChunks(runs)
      OBVIOUS
    <3>5. \A i \in 1..n : chunks[i].delay = base[i].repeat /\ chunks[i].pixels = pictures[i]
      BY <1>5, <3>2, <3>3, <3>4
    <3>6. DOMAIN base = 1..n /\ DOMAIN chunks = 1..n
      BY <1>5, <3>1, <3>4
    <3>7. parts = [i \in DOMAIN chunks |-> [ms \in 1..chunks[i].delay |-> chunks[i].pixels]]
      BY <3>5, <3>6
    <3> QED
      BY <3>4, <3>7
  <2>3. FlattenSeq(others) = Seen(AsChunks(runs))
    BY DEF Seen
  <2>4. Seen(AsChunks(runs)) = Chunks(PicturesOf(emitted))
    BY <1>3, SeenAsChunks
  <2> HIDE DEF parts, others, pictures
  <2> QED
    BY <2>1, <2>2, <2>3, <2>4
<1> DEFINE cs == Chunks(PicturesOf(emitted))
<1>8. WithDelays(Animation({}, cs), delays) = Animation({"alpha"}, emitted)
  <2>1. DOMAIN cs = 1..Len(emitted) /\ \A i \in 1..Len(emitted) : cs[i] = Chunk(emitted[i].pixels)
    BY <1>1 DEF Chunks, PicturesOf
  <2> HIDE DEF cs
  <2>2. \A i \in 1..Len(emitted) : [cs[i] EXCEPT !.delay = delays[i]] = emitted[i]
    <3> TAKE i \in 1..Len(emitted)
    <3>1. emitted[i] \in Sayable(P) /\ delays[i] = emitted[i].delay
      BY <1>1, ElementOfSeq
    <3>2. emitted[i] = [pixels |-> emitted[i].pixels, delay |-> emitted[i].delay]
      BY <3>1 DEF Sayable
    <3> HIDE DEF delays
    <3> QED
      BY <2>1, <3>1, <3>2 DEF Chunk
  <2>3. [i \in DOMAIN cs |-> [cs[i] EXCEPT !.delay = delays[i]]] = emitted
    <3>1. emitted = [i \in 1..Len(emitted) |-> emitted[i]]
      BY <1>1
    <3> HIDE DEF delays
    <3> QED
      BY <2>1, <2>2, <3>1
  <2> HIDE DEF delays
  <2>4. WithDelays(Animation({}, cs), delays) = Animation({"alpha"}, [i \in DOMAIN cs |-> [cs[i] EXCEPT !.delay = delays[i]]])
    <3>1. Animation({}, cs).chunks = cs
      BY DEF Animation
    <3> DEFINE ds == [i \in DOMAIN cs |-> [cs[i] EXCEPT !.delay = delays[i]]]
    <3>2. WithDelays(Animation({}, cs), delays) = [Animation({}, cs) EXCEPT !.flags = {"alpha"}, !.chunks = ds]
      BY <3>1 DEF WithDelays
    <3> HIDE DEF ds
    <3> QED
      BY <3>2, FlagsAndChunksReplaced DEF ds
  <2> QED
    BY <2>3, <2>4
<1>9. EncodedAnimation(emitted) = WithDelays(Expanded(EncodedPictures(base), base), delays)
  BY <1>5 DEF EncodedAnimation
<1> HIDE DEF delays, cs, pictures
<1>10. EncodedAnimation(emitted) = Animation({"alpha"}, emitted)
  BY <1>6, <1>7, <1>8, <1>9 DEF cs
<1> QED
  BY <1>10 DEF Animation

-----------------------------------------------------------------------------
(* WebPFit: the inductive invariant *)

FitSizes == {s \in Nat \X Nat : s[1] >= MinDimension /\ s[2] >= MinDimension}
FitJobs == [frames : FrameInputs, source : CanvasSizes, size : FitSizes, scale : 1..ScaleUnit, resized : {0, 1},
            blurred : BOOLEAN, limit : ByteLimits,
            pc : {"inputs", "snapshot", "encode", "judge", "tidy", "replace", "confirm", "cleanup", "ended"},
            error : {"none", "invalid", "io", "changed", "rejected", "impossible", "cancelled"}, cancelled : BOOLEAN]
FitCandidates == [size : FitSizes, weight : Weights, resized : {0, 1}]
Remainders == {"snapshot", "candidate", "scaled", "sibling"}
FittedFrames(job) ==
    IF job.blurred THEN [i \in DOMAIN job.frames |-> [job.frames[i] EXCEPT !.pixels = "blur"]] ELSE job.frames

FitTyped ==
    /\ encodeJob \in FitJobs /\ candidates \in Seq(FitCandidates) /\ Len(candidates) <= MaxFitEncodings
    /\ snapshot \in Seq({TRUE}) /\ remains \subseteq Remainders /\ cannotRemove \in BOOLEAN

\* What was encoded before the file is renamed: accepted, and light enough.
Encoded ==
    /\ encodeJob.pc \in {"inputs", "snapshot"} => Len(candidates) = 0
    /\ encodeJob.pc = "encode" => Len(candidates) < MaxFitEncodings
    /\ encodeJob.pc \in {"judge", "tidy", "replace"} => Len(candidates) # 0 /\ Accepted(FittedFrames(encodeJob))
    /\ encodeJob.pc \in {"tidy", "replace"} /\ encodeJob.limit # NoLimit =>
          candidates[Len(candidates)].weight <= encodeJob.limit

\* What is on disk beside the destination, where the job is about to rename or has.
Beside ==
    /\ encodeJob.pc = "inputs" => remains = {}
    /\ encodeJob.pc = "encode" /\ encodeJob.limit = NoLimit => remains = {}
    /\ encodeJob.pc \in {"snapshot", "judge", "tidy"} => encodeJob.limit # NoLimit
    /\ encodeJob.pc = "replace" => remains \subseteq {"sibling"}
    /\ encodeJob.pc = "confirm" => remains = {}

\* The destination, and the error there is by now.
Destination ==
    /\ encodeJob.pc \notin {"confirm", "ended"} => outputFile = OldOutput
    /\ encodeJob.pc = "confirm" => outputFile # OldOutput
    /\ encodeJob.pc = "cleanup" => encodeJob.error # "none"
    /\ encodeJob.pc \notin {"cleanup", "ended"} => encodeJob.error = "none"

FitInv ==
    FitTyped /\ Encoded /\ Beside /\ Destination /\ OutputIsTheFittedInput /\ FailedFitLeavesNothing

-----------------------------------------------------------------------------
(* WebPFit: the sizes *)

LEMMA LargerOfTwo ==
    ASSUME NEW a \in Int, NEW b \in Int
    PROVE  Max({a, b}) \in {a, b} /\ Max({a, b}) >= a /\ Max({a, b}) >= b
<1>1. CASE a >= b
  BY <1>1 DEF Max
<1>2. CASE a < b
  BY <1>2 DEF Max
<1> QED
  BY <1>1, <1>2

\* A scale that is no smaller than the smallest leaves a side at the minimum or above it.
LEMMA SideIsLargeEnough ==
    ASSUME NEW n \in Nat, n >= MinDimension, NEW scale \in Nat,
           scale >= (MinDimension * ScaleUnit + n - 1) \div n
    PROVE  ScaledSide(n, scale) \in Nat /\ ScaledSide(n, scale) >= MinDimension
<1>1. MinDimension \in Nat \ {0} /\ ScaleUnit \in Nat \ {0} /\ n \in Nat \ {0}
  BY WebPFitAssumption
<1> DEFINE a == MinDimension * ScaleUnit
           q == (a + n - 1) \div n
           z == n * scale
           v == (2 * z + ScaleUnit) \div (2 * ScaleUnit)
<1>2. a \in Nat /\ a + n - 1 \in Nat /\ z \in Nat
  BY <1>1
<1>3. q \in Nat /\ a + n - 1 < n * q + n /\ scale >= q
  <2> HIDE DEF a
  <2>1. scale >= q
    BY DEF a
  <2> QED
    BY <1>1, <1>2, <2>1, Quotients
<1>4. z >= a
  <2> HIDE DEF a, q
  <2>1. q * n <= scale * n
    BY <1>1, <1>3, ProductsGrow
  <2>2. q * n = n * q /\ scale * n = n * scale /\ n * q \in Nat
    BY <1>1, <1>3
  <2> QED
    BY <1>1, <1>2, <1>3, <2>1, <2>2
<1>5. v \in Nat /\ 2 * z + ScaleUnit < (2 * ScaleUnit) * v + 2 * ScaleUnit
  <2> HIDE DEF z
  <2>1. 2 * z + ScaleUnit \in Nat /\ 2 * ScaleUnit \in Nat \ {0}
    BY <1>1, <1>2
  <2> QED
    BY <2>1, Quotients
<1>6. v >= MinDimension
  <2> HIDE DEF z, v
  <2>1. SUFFICES ASSUME v + 1 <= MinDimension
                 PROVE  FALSE
    BY <1>1, <1>5
  <2>2. (v + 1) * ScaleUnit <= MinDimension * ScaleUnit
    BY <1>1, <1>5, <2>1, ProductsGrow
  <2>3. (v + 1) * ScaleUnit = ScaleUnit * v + ScaleUnit /\ (2 * ScaleUnit) * v = 2 * (ScaleUnit * v)
    BY <1>1, <1>5
  <2>4. ScaleUnit * v \in Nat
    BY <1>1, <1>5
  <2> HIDE DEF a
  <2>5. ScaleUnit * v + ScaleUnit <= a
    BY <2>2, <2>3 DEF a
  <2> QED
    BY <1>1, <1>2, <1>4, <1>5, <2>3, <2>4, <2>5
<1>7. ScaledSide(n, scale) = v
  <2>1. 2 * n * scale = 2 * (n * scale)
    BY <1>1
  <2> QED
    BY <2>1 DEF ScaledSide
<1> QED
  BY <1>5, <1>6, <1>7

LEMMA ScaledIsLargeEnough ==
    ASSUME encodeJob.source \in CanvasSizes, NEW stepped \in Nat
    PROVE  LET scale == Max({SmallestScale, stepped})
           IN  scale \in Nat /\ scale >= stepped /\ ScaledSize(scale) \in FitSizes
<1> DEFINE w == encodeJob.source[1]
           h == encodeJob.source[2]
           across == (MinDimension * ScaleUnit + w - 1) \div w
           down == (MinDimension * ScaleUnit + h - 1) \div h
           scale == Max({SmallestScale, stepped})
<1>1. w \in Nat \ {0} /\ h \in Nat \ {0} /\ w >= MinDimension /\ h >= MinDimension
  <2>1. w \in Nat /\ h \in Nat /\ w >= MinDimension /\ h >= MinDimension
    BY WebPFitAssumption
  <2> QED
    BY <2>1, WebPFitAssumption
<1> HIDE DEF w, h
<1>2. across \in Nat /\ down \in Nat
  <2>1. MinDimension * ScaleUnit \in Nat
    BY WebPFitAssumption
  <2>2. MinDimension * ScaleUnit + w - 1 \in Nat /\ MinDimension * ScaleUnit + h - 1 \in Nat
    BY <1>1, <2>1
  <2> QED
    BY <1>1, <2>2, Quotients
<1>3. SmallestScale = Max({across, down})
  BY DEF SmallestScale, w, h
<1> HIDE DEF across, down
<1>4. SmallestScale \in Nat /\ SmallestScale >= across /\ SmallestScale >= down
  BY <1>2, <1>3, LargerOfTwo
<1>5. scale \in Nat /\ scale >= SmallestScale /\ scale >= stepped
  BY <1>4, LargerOfTwo
<1> HIDE DEF scale
<1>6. scale >= across /\ scale >= down
  BY <1>2, <1>4, <1>5
<1>7. /\ ScaledSide(w, scale) \in Nat /\ ScaledSide(w, scale) >= MinDimension
      /\ ScaledSide(h, scale) \in Nat /\ ScaledSide(h, scale) >= MinDimension
  BY <1>1, <1>5, <1>6, SideIsLargeEnough DEF across, down
<1>8. ScaledSize(scale) \in FitSizes
  BY <1>7 DEF ScaledSize, FitSizes, w, h
<1> QED
  BY <1>5, <1>8 DEF scale

-----------------------------------------------------------------------------
(* WebPFit: the encoder's reading of its own file *)

\* A single frame is a still of one chunk, which lasts for no time.
LEMMA StillIsAccepted ==
    ASSUME NEW P, NEW fs \in Seq(Sayable(P)), Len(fs) = 1
    PROVE  Accepted(fs)
<1>1. DOMAIN fs = 1..1
  BY LenProperties
<1>2. Emitted(fs) = fs /\ EncodedFile(fs) = EncodedStill(fs[1])
  BY DEF Emitted, EncodedFile
<1> DEFINE chunk == [pixels |-> fs[1].pixels, delay |-> 0]
<1>3. DelaySum(<<chunk>>) = 0
  <2>1. << >> \in Seq({chunk}) /\ chunk \in {chunk} /\ chunk.delay = 0
    BY EmptySeq
  <2>2. Append(<< >>, chunk) = <<chunk>>
    OBVIOUS
  <2> HIDE DEF chunk
  <2>3. DelaySum(<< >>) = 0 /\ DelaySum(Append(<< >>, chunk)) = DelaySum(<< >>) + chunk.delay
    BY <2>1, DelaySumAppends
  <2> QED
    BY <2>1, <2>2, <2>3
<1>4. PICK file : file = EncodedFile(fs)
  OBVIOUS
<1>5. file.kind = "still" /\ file.loop = 0 /\ file.chunks = <<chunk>>
  BY <1>2, <1>4 DEF EncodedStill
<1>6. Len(<<chunk>>) = 1 /\ <<chunk>>[1].pixels = fs[1].pixels
  OBVIOUS
<1> HIDE DEF chunk
<1>7. ValidWebP(file, 1, 0)
  BY <1>3, <1>5, <1>6 DEF ValidWebP, Parses
<1>8. PixelsMatch(file, fs)
  <2>1. \A i \in DOMAIN fs : i = 1
    BY <1>1
  <2> QED
    BY <1>5, <1>6, <2>1 DEF PixelsMatch
<1> QED
  BY <1>2, <1>4, <1>7, <1>8 DEF Accepted

\* The file of several frames has their chunks, and shows at each millisecond what they show.
LEMMA SeveralAreEmitted ==
    ASSUME NEW P, NEW fs \in Seq(Sayable(P)), Len(fs) > 1
    PROVE  /\ Emitted(fs) \in Seq(Sayable(P)) /\ Seen(Emitted(fs)) = Seen(fs)
           /\ EncodedFile(fs) = Animation({"alpha"}, Emitted(fs))
<1>1. fs \in Seq(Lasting(P))
  BY SayableIsShown
<1>2. PICK emitted \in Seq(Sayable(P)) : emitted = Emitted(fs) /\ emitted # << >> /\ Seen(emitted) = Seen(fs)
  BY <1>1, EmittedShows
<1>3. EncodedAnimation(emitted) = Animation({"alpha"}, emitted)
  BY <1>2, AnimationIsEmitted DEF Animation
<1>4. EncodedFile(fs) = EncodedAnimation(Emitted(fs))
  <2>1. Len(fs) # 1
    <3>1. \A n : n > 1 => n # 1
      OBVIOUS
    <3> QED
      BY <3>1, Zenon
  <2> QED
    BY <2>1, Zenon DEF EncodedFile
<1> QED
  BY <1>2, <1>3, <1>4

LEMMA AnimationIsAccepted ==
    ASSUME NEW P, NEW fs \in Seq(Sayable(P)), Len(fs) > 1
    PROVE  Accepted(fs)
<1>1. PICK emitted \in Seq(Sayable(P)) : emitted = Emitted(fs) /\ Seen(emitted) = Seen(fs)
                                         /\ EncodedFile(fs) = Animation({"alpha"}, emitted)
  BY SeveralAreEmitted
<1>2. PICK file : file = EncodedFile(fs)
  OBVIOUS
<1>3. file.kind = "animation" /\ file.flags = {"alpha"} /\ file.loop = 0 /\ file.chunks = emitted
  BY <1>1, <1>2 DEF Animation
<1>4. \A i \in DOMAIN emitted : emitted[i].delay \in 1..MaxDelay
  <2> SUFFICES ASSUME NEW i \in DOMAIN emitted
               PROVE  emitted[i].delay \in 1..MaxDelay
    OBVIOUS
  <2>1. emitted[i] \in Sayable(P)
    BY ElementOfSeq, LenProperties
  <2> QED
    BY <2>1 DEF Sayable
<1>5. DelaySum(emitted) = DelaySum(fs)
  <2>1. emitted \in Seq(Stills(P)) /\ fs \in Seq(Stills(P))
    BY SayableIsShown
  <2>2. DelaySum(emitted) = Len(Seen(emitted)) /\ DelaySum(fs) = Len(Seen(fs))
    BY <2>1, DelaySumIsShown
  <2> QED
    BY <1>1, <2>2
<1>6. Parses(file)
  BY <1>3, <1>4 DEF Parses
<1>7. ValidWebP(file, Len(emitted), DelaySum(fs))
  BY <1>3, <1>5, <1>6 DEF ValidWebP
<1>8. PixelsMatch(file, emitted)
  BY <1>3 DEF PixelsMatch
<1> QED
  BY <1>1, <1>2, <1>3, <1>7, <1>8 DEF Accepted

\* The frames of the job are ones that WebP can say, blurred or not.
LEMMA FramesAreSayable ==
    ASSUME NEW job \in FitJobs
    PROVE  \E P : FittedFrames(job) \in Seq(Sayable(P)) /\ FittedFrames(job) # << >>
<1> DEFINE fs == job.frames
           P == {fs[i].pixels : i \in DOMAIN fs}
<1>1. fs \in FrameInputs
  BY DEF FitJobs
<1>2. fs \in Seq(Sayable(P)) /\ fs # << >>
  BY <1>1, WebPFitAssumption DEF Sayable
<1>3. CASE ~job.blurred
  BY <1>2, <1>3 DEF FittedFrames
<1>4. CASE job.blurred
  <2> DEFINE blurs == [i \in DOMAIN fs |-> [fs[i] EXCEPT !.pixels = "blur"]]
  <2>1. PICK Q : Q = P
    OBVIOUS
  <2> HIDE DEF P
  <2>2. PICK n \in Nat \ {0} : n = Len(fs) /\ DOMAIN fs = 1..n
    BY <1>2, EmptySeq, LenProperties
  <2>3. ASSUME NEW i \in 1..n
        PROVE  [fs[i] EXCEPT !.pixels = "blur"] \in Sayable({"blur"})
    <3>1. fs[i] \in Sayable(P)
      BY <1>2, <2>2, ElementOfSeq
    <3> QED
      BY <3>1 DEF Sayable
  <2>4. blurs \in [1..n -> Sayable({"blur"})]
    BY <2>2, <2>3
  <2> HIDE DEF blurs
  <2>5. blurs \in Seq(Sayable({"blur"})) /\ DOMAIN blurs = 1..n
    BY <2>4
  <2>6. blurs # << >>
    <3>1. DOMAIN << >> = 1..0 /\ 1 \in 1..n /\ 1 \notin 1..0
      BY <2>2
    <3> QED
      BY <2>5, <3>1
  <2> QED
    BY <1>4, <2>5, <2>6 DEF FittedFrames, blurs
<1> QED
  BY <1>3, <1>4

LEMMA OwnFileIsAccepted ==
    ASSUME NEW job \in FitJobs
    PROVE  /\ Accepted(FittedFrames(job))
           /\ Len(job.frames) > 1 => Seen(EncodedFile(FittedFrames(job)).chunks) = Seen(FittedFrames(job))
<1>1. PICK P : FittedFrames(job) \in Seq(Sayable(P)) /\ FittedFrames(job) # << >>
  BY FramesAreSayable
<1>2. PICK fs \in Seq(Sayable(P)) : fs = FittedFrames(job) /\ fs # << >>
  BY <1>1
<1>3. Len(fs) \in Nat /\ Len(fs) # 0
  BY <1>2, EmptySeq, LenProperties
<1>4. Accepted(fs)
  <2>1. Len(fs) = 1 \/ Len(fs) > 1
    BY <1>3
  <2> QED
    BY <2>1, StillIsAccepted, AnimationIsAccepted
<1>5. Len(fs) = Len(job.frames)
  <2>1. job.frames \in FrameInputs
    BY DEF FitJobs
  <2>2. PICK T : job.frames \in Seq(T)
    BY <2>1, WebPFitAssumption
  <2>3. DOMAIN job.frames = 1..Len(job.frames) /\ Len(job.frames) \in Nat
    BY <2>2, LenProperties
  <2>4. DOMAIN fs = DOMAIN job.frames
    BY <1>2 DEF FittedFrames
  <2>5. DOMAIN fs = 1..Len(fs)
    BY LenProperties
  <2>6. (Len(fs) \in 1..Len(job.frames) /\ Len(job.frames) \in 1..Len(fs)) \/ Len(job.frames) = 0
    BY <1>3, <2>3, <2>4, <2>5
  <2> QED
    BY <1>3, <2>3, <2>4, <2>5, <2>6
<1>6. ASSUME Len(fs) > 1
      PROVE  Seen(EncodedFile(fs).chunks) = Seen(fs)
  <2>1. EncodedFile(fs) = Animation({"alpha"}, Emitted(fs)) /\ Seen(Emitted(fs)) = Seen(fs)
    BY <1>6, SeveralAreEmitted
  <2>2. Animation({"alpha"}, Emitted(fs)).chunks = Emitted(fs)
    BY DEF Animation
  <2> QED
    BY <2>1, <2>2
<1> QED
  BY <1>2, <1>4, <1>5, <1>6

-----------------------------------------------------------------------------
(* WebPFit: the steps *)

\* A step that raises leaves the destination as it is.
LEMMA FitFailsSafely ==
    ASSUME FitInv, encodeJob.pc \notin {"confirm", "cleanup", "ended"},
           NEW why \in {"invalid", "io", "changed", "rejected", "impossible", "cancelled"}, FitFails(why),
           UNCHANGED <<candidates, snapshot, outputFile>>,
           remains' \subseteq Remainders, cannotRemove' \in BOOLEAN
    PROVE  FitInv'
<1>1. /\ encodeJob' \in FitJobs /\ encodeJob'.pc = "cleanup" /\ encodeJob'.error = why
  BY DEF FitFails, FitGoes, FitInv, FitTyped, FitJobs
<1>2. outputFile' = OldOutput
  BY DEF FitInv, Destination
<1>3. FitTyped' /\ Encoded' /\ Beside'
  BY <1>1 DEF FitInv, FitTyped, Encoded, Beside
<1>4. Destination' /\ OutputIsTheFittedInput' /\ FailedFitLeavesNothing'
  BY <1>1, <1>2 DEF Destination, OutputIsTheFittedInput, FailedFitLeavesNothing, FitAt
<1> QED
  BY <1>3, <1>4 DEF FitInv

\* A step before the rename that goes on.
LEMMA FitGoesOn ==
    ASSUME FitInv, encodeJob.pc \notin {"confirm", "cleanup", "ended"},
           FitTyped', Encoded', Beside', UNCHANGED outputFile,
           encodeJob'.pc \notin {"confirm", "cleanup", "ended"}, encodeJob'.error = "none"
    PROVE  FitInv'
<1>1. outputFile' = OldOutput
  BY DEF FitInv, Destination
<1>2. Destination' /\ OutputIsTheFittedInput' /\ FailedFitLeavesNothing'
  BY <1>1 DEF Destination, OutputIsTheFittedInput, FailedFitLeavesNothing, FitAt
<1> QED
  BY <1>2 DEF FitInv

LEMMA InputsStep ==
    ASSUME FitInv, CheckInputs
    PROVE  FitInv'
<1>1. /\ encodeJob.pc = "inputs" /\ UNCHANGED <<candidates, snapshot, outputFile, cannotRemove>>
      /\ remains' = IF encodeJob'.pc = "snapshot" THEN remains \cup {"snapshot"} ELSE remains
  BY DEF CheckInputs, FitAt
<1>2. remains' \subseteq Remainders /\ cannotRemove' \in BOOLEAN /\ remains = {}
  BY <1>1 DEF FitInv, FitTyped, Remainders, Beside
<1>3. CASE FitFails("cancelled") \/ FitFails("invalid")
  BY <1>1, <1>2, <1>3, FitFailsSafely
<1>4. CASE FitGoes([encodeJob EXCEPT !.pc = IF encodeJob.limit = NoLimit THEN "encode" ELSE "snapshot"])
  <2>1. /\ encodeJob' \in FitJobs /\ encodeJob'.error = "none" /\ encodeJob'.limit = encodeJob.limit
        /\ encodeJob'.pc = IF encodeJob.limit = NoLimit THEN "encode" ELSE "snapshot"
    BY <1>1, <1>4 DEF FitGoes, FitInv, FitTyped, FitJobs, Destination
  <2>2. FitTyped'
    BY <1>1, <1>2, <2>1 DEF FitInv, FitTyped
  <2>3. Encoded'
    BY <1>1, <2>1, WebPFitAssumption DEF FitInv, Encoded
  <2>4. Beside'
    BY <1>1, <1>2, <2>1 DEF Beside
  <2> QED
    BY <1>1, <2>1, <2>2, <2>3, <2>4, FitGoesOn
<1> QED
  BY <1>3, <1>4 DEF CheckInputs, StopsIfCancelled

LEMMA SnapshotStep ==
    ASSUME FitInv, SnapshotFrame
    PROVE  FitInv'
<1>1. encodeJob.pc = "snapshot" /\ UNCHANGED <<candidates, outputFile, remains, cannotRemove>>
  BY DEF SnapshotFrame, FitAt
<1>2. remains' \subseteq Remainders /\ cannotRemove' \in BOOLEAN
  BY <1>1 DEF FitInv, FitTyped
<1>3. CASE UNCHANGED snapshot /\ (FitFails("cancelled") \/ FitFails("io") \/ FitFails("changed"))
  BY <1>1, <1>2, <1>3, FitFailsSafely
<1>4. CASE /\ snapshot' = Append(snapshot, TRUE)
           /\ FitGoes([encodeJob EXCEPT !.pc = IF Len(snapshot) + 1 = Len(encodeJob.frames) THEN "encode" ELSE "snapshot"])
  <2>1. /\ encodeJob' \in FitJobs /\ encodeJob'.error = "none" /\ encodeJob'.limit = encodeJob.limit
        /\ encodeJob'.pc \in {"encode", "snapshot"}
    BY <1>1, <1>4 DEF FitGoes, FitInv, FitTyped, FitJobs, Destination
  <2>2. snapshot' \in Seq({TRUE})
    BY <1>4, AppendProperties DEF FitInv, FitTyped
  <2>3. FitTyped'
    BY <1>1, <2>1, <2>2 DEF FitInv, FitTyped
  <2>4. Encoded'
    BY <1>1, <2>1, WebPFitAssumption DEF FitInv, Encoded
  <2>5. Beside'
    BY <1>1, <2>1 DEF FitInv, Beside
  <2> QED
    BY <1>1, <2>1, <2>3, <2>4, <2>5, FitGoesOn
<1> QED
  BY <1>3, <1>4 DEF SnapshotFrame, StopsIfCancelled

LEMMA EncodeStep ==
    ASSUME FitInv, NEW weight \in Weights, EncodeLossless(weight)
    PROVE  FitInv'
<1> DEFINE candidate == [size |-> encodeJob.size, weight |-> weight, resized |-> encodeJob.resized]
<1>1. /\ encodeJob.pc = "encode" /\ UNCHANGED <<snapshot, outputFile, cannotRemove>>
      /\ remains' = remains \cup {IF encodeJob.limit = NoLimit THEN "sibling" ELSE "candidate"}
  BY DEF EncodeLossless, FitAt
<1>2. remains' \subseteq Remainders /\ cannotRemove' \in BOOLEAN
  BY <1>1 DEF FitInv, FitTyped, Remainders
<1>3. CASE UNCHANGED candidates
           /\ (FitFails("cancelled") \/ FitFails("io") \/ FitFails("changed") \/ FitFails("rejected"))
  BY <1>1, <1>2, <1>3, FitFailsSafely
<1>4. CASE /\ Accepted(FramesNow) /\ candidates' = Append(candidates, candidate)
           /\ FitGoes([encodeJob EXCEPT !.pc = IF encodeJob.limit = NoLimit THEN "replace" ELSE "judge"])
  <2>1. /\ encodeJob' \in FitJobs /\ encodeJob'.error = "none" /\ encodeJob'.limit = encodeJob.limit
        /\ encodeJob'.pc = (IF encodeJob.limit = NoLimit THEN "replace" ELSE "judge")
        /\ FittedFrames(encodeJob') = FramesNow
    BY <1>1, <1>4 DEF FitGoes, FitInv, FitTyped, FitJobs, Destination, FramesNow, FittedFrames
  <2>2. candidate \in FitCandidates
    BY DEF FitInv, FitTyped, FitJobs, FitCandidates
  <2> HIDE DEF candidate
  <2>3. /\ candidates' \in Seq(FitCandidates) /\ Len(candidates') = Len(candidates) + 1
        /\ Len(candidates) \in Nat /\ Len(candidates) < MaxFitEncodings /\ MaxFitEncodings \in Nat
    BY <1>1, <1>4, <2>2, AppendProperties, LenProperties, WebPFitAssumption DEF FitInv, FitTyped, Encoded
  <2>4. FitTyped'
    BY <1>1, <1>2, <2>1, <2>3 DEF FitInv, FitTyped
  <2>5. Encoded'
    BY <1>4, <2>1, <2>3 DEF Encoded
  <2>6. Beside'
    BY <1>1, <2>1 DEF FitInv, Beside
  <2> QED
    BY <1>1, <2>1, <2>4, <2>5, <2>6, FitGoesOn
<1> QED
  BY <1>3, <1>4 DEF EncodeLossless, StopsIfCancelled

LEMMA ShrinkStep ==
    ASSUME FitInv, ShrinkFrames
    PROVE  FitInv'
<1>1. encodeJob.pc = "judge" /\ UNCHANGED <<candidates, snapshot, outputFile>>
  BY DEF ShrinkFrames, FitAt
<1>2. remains \subseteq Remainders /\ cannotRemove \in BOOLEAN
  BY DEF FitInv, FitTyped
<1>3. CASE /\ FitFails("cancelled") \/ FitFails("impossible") \/ FitFails("io")
           /\ remains' = remains /\ cannotRemove' \in BOOLEAN
  BY <1>1, <1>2, <1>3, FitFailsSafely
<1>4. ASSUME NEW stepped \in 1..encodeJob.scale - 1, NEW blurred \in BOOLEAN,
             Len(candidates) < MaxFitEncodings,
             LET scale == Max({SmallestScale, stepped})
             IN  /\ scale < ScaleUnit
                 /\ FitGoes([encodeJob EXCEPT !.pc = "encode", !.scale = scale, !.size = ScaledSize(scale),
                                !.resized = ResizedFromSources, !.blurred = blurred]),
             remains' = (remains \ {"candidate"}) \cup {"scaled"}, UNCHANGED cannotRemove
      PROVE  FitInv'
  <2> DEFINE scale == Max({SmallestScale, stepped})
             size == ScaledSize(scale)
  <2>1. encodeJob.source \in CanvasSizes /\ encodeJob.scale \in Nat /\ stepped \in Nat \ {0} /\ ScaleUnit \in Nat
    BY <1>4, WebPFitAssumption DEF FitInv, FitTyped, FitJobs
  <2>2. scale \in Nat /\ scale >= stepped /\ size \in FitSizes
    BY <2>1, ScaledIsLargeEnough
  <2>3. scale < ScaleUnit /\ encodeJob' = [encodeJob EXCEPT !.pc = "encode", !.scale = scale, !.size = size,
                                !.resized = 1, !.blurred = blurred]
    BY <1>4 DEF FitGoes, ResizedFromSources
  <2> HIDE DEF scale, size
  <2>4. scale \in 1..ScaleUnit
    BY <2>1, <2>2, <2>3
  <2>5. /\ encodeJob' \in FitJobs /\ encodeJob'.error = "none" /\ encodeJob'.limit = encodeJob.limit
        /\ encodeJob'.pc = "encode"
    BY <1>1, <1>4, <2>2, <2>3, <2>4 DEF FitInv, FitTyped, FitJobs, Destination
  <2>6. FitTyped'
    BY <1>1, <1>2, <1>4, <2>5 DEF FitInv, FitTyped, Remainders
  <2>7. Encoded'
    BY <1>1, <1>4, <2>5 DEF Encoded
  <2>8. Beside'
    BY <1>1, <2>5 DEF FitInv, Beside
  <2> QED
    BY <1>1, <2>5, <2>6, <2>7, <2>8, FitGoesOn
<1>5. CASE UNCHANGED <<remains, cannotRemove>> /\ (StopsIfCancelled \/ FitFails("impossible"))
  BY <1>2, <1>3, <1>5 DEF StopsIfCancelled
<1>6. ASSUME NEW stepped \in 1..encodeJob.scale - 1, Len(candidates) < MaxFitEncodings,
             LET scale == Max({SmallestScale, stepped})
                 size == ScaledSize(scale)
             IN  ~CannotShrink(scale, size),
             LET scale == Max({SmallestScale, stepped})
                 size == ScaledSize(scale)
             IN  \/ /\ FitFails("io") /\ Removal({"candidate", "scaled"}, FALSE)
                 \/ /\ \E blurred \in {encodeJob.blurred, TRUE} :
                          FitGoes([encodeJob EXCEPT !.pc = "encode", !.scale = scale, !.size = size,
                                    !.resized = ResizedFromSources, !.blurred = blurred])
                    /\ remains' = (remains \ {"candidate"}) \cup {"scaled"}
                    /\ UNCHANGED cannotRemove
      PROVE  FitInv'
  <2> DEFINE scale == Max({SmallestScale, stepped})
             size == ScaledSize(scale)
  <2>1. CASE FitFails("io") /\ Removal({"candidate", "scaled"}, FALSE)
    BY <1>3, <2>1 DEF Removal
  <2>2. CASE /\ \E blurred \in {encodeJob.blurred, TRUE} :
                   FitGoes([encodeJob EXCEPT !.pc = "encode", !.scale = scale, !.size = size,
                             !.resized = ResizedFromSources, !.blurred = blurred])
             /\ remains' = (remains \ {"candidate"}) \cup {"scaled"}
             /\ UNCHANGED cannotRemove
    <3>1. encodeJob.source \in CanvasSizes /\ encodeJob.scale \in Nat /\ stepped \in Nat /\ ScaleUnit \in Nat
          /\ encodeJob.blurred \in BOOLEAN
      BY <1>6, WebPFitAssumption DEF FitInv, FitTyped, FitJobs
    <3>2. scale \in Nat
      BY <3>1, ScaledIsLargeEnough
    <3>3. scale < ScaleUnit
      <4> HIDE DEF scale
      <4> QED
        BY <1>6, <3>1, <3>2 DEF CannotShrink, scale
    <3>4. PICK blurred \in BOOLEAN :
             FitGoes([encodeJob EXCEPT !.pc = "encode", !.scale = scale, !.size = size,
                        !.resized = ResizedFromSources, !.blurred = blurred])
      BY <2>2, <3>1
    <3> QED
      BY <1>4, <1>6, <2>2, <3>3, <3>4
  <2> QED
    BY <1>6, <2>1, <2>2
<1>7. CASE \E stepped \in 1..encodeJob.scale - 1 :
              LET scale == Max({SmallestScale, stepped})
                  size == ScaledSize(scale)
              IN  CannotShrink(scale, size) /\ FitFails("impossible") /\ UNCHANGED <<remains, cannotRemove>>
  BY <1>5, <1>7
<1> QED
  BY <1>5, <1>6, <1>7 DEF ShrinkFrames, Proceeds

LEMMA PrepareStep ==
    ASSUME FitInv, PrepareCandidate
    PROVE  FitInv'
<1>1. /\ encodeJob.pc = "judge" /\ UNCHANGED <<candidates, snapshot, outputFile>>
      /\ Last(candidates).weight <= encodeJob.limit
  BY DEF PrepareCandidate, FitAt
<1>2. /\ remains \subseteq Remainders /\ remains \cup {"sibling"} \subseteq Remainders
      /\ cannotRemove \in BOOLEAN /\ encodeJob.limit # NoLimit
  BY <1>1 DEF FitInv, FitTyped, Remainders, Beside
<1>3. CASE /\ FitFails("cancelled") \/ FitFails("io")
           /\ remains' \in {remains, remains \cup {"sibling"}} /\ cannotRemove' \in BOOLEAN
  <2>1. remains' \subseteq Remainders
    BY <1>2, <1>3
  <2> QED
    BY <1>1, <1>3, <2>1, FitFailsSafely
<1>4. CASE /\ FitGoes([encodeJob EXCEPT !.pc = "tidy"])
           /\ remains' = remains \cup {"sibling"} /\ UNCHANGED cannotRemove
  <2>1. /\ encodeJob' \in FitJobs /\ encodeJob'.error = "none" /\ encodeJob'.limit = encodeJob.limit
        /\ encodeJob'.pc = "tidy" /\ FittedFrames(encodeJob') = FittedFrames(encodeJob)
    BY <1>1, <1>4 DEF FitGoes, FitInv, FitTyped, FitJobs, Destination, FittedFrames
  <2>2. FitTyped'
    BY <1>1, <1>2, <1>4, <2>1 DEF FitInv, FitTyped
  <2>3. Encoded'
    BY <1>1, <2>1 DEF FitInv, Encoded, Last
  <2>4. Beside'
    BY <1>2, <2>1 DEF Beside
  <2> QED
    BY <1>1, <2>1, <2>2, <2>3, <2>4, FitGoesOn
<1> QED
  BY <1>2, <1>3, <1>4 DEF PrepareCandidate, StopsIfCancelled

LEMMA TidyStep ==
    ASSUME FitInv, TidyScratch
    PROVE  FitInv'
<1>1. encodeJob.pc = "tidy" /\ UNCHANGED <<candidates, snapshot, outputFile>>
  BY DEF TidyScratch, FitAt
<1>2. remains \subseteq Remainders /\ cannotRemove \in BOOLEAN /\ encodeJob.limit # NoLimit
  BY <1>1 DEF FitInv, FitTyped, Beside
<1>3. CASE (FitFails("cancelled") \/ FitFails("io")) /\ remains' = remains /\ cannotRemove' \in BOOLEAN
  BY <1>1, <1>2, <1>3, FitFailsSafely
<1>4. CASE /\ FitGoes([encodeJob EXCEPT !.pc = "replace"])
           /\ remains' = remains \ {"snapshot", "candidate", "scaled"} /\ UNCHANGED cannotRemove
  <2>1. /\ encodeJob' \in FitJobs /\ encodeJob'.error = "none" /\ encodeJob'.limit = encodeJob.limit
        /\ encodeJob'.pc = "replace" /\ FittedFrames(encodeJob') = FittedFrames(encodeJob)
    BY <1>1, <1>4 DEF FitGoes, FitInv, FitTyped, FitJobs, Destination, FittedFrames
  <2>2. FitTyped'
    BY <1>1, <1>2, <1>4, <2>1 DEF FitInv, FitTyped
  <2>3. Encoded'
    BY <1>1, <2>1 DEF FitInv, Encoded
  <2>4. Beside'
    BY <1>2, <1>4, <2>1 DEF Beside, Remainders
  <2> QED
    BY <1>1, <2>1, <2>2, <2>3, <2>4, FitGoesOn
<1> QED
  BY <1>2, <1>3, <1>4 DEF TidyScratch, StopsIfCancelled, Removal

\* What is renamed into place was encoded from the frames there are, and is light and large enough.
LEMMA ReplaceStep ==
    ASSUME FitInv, ReplaceOutput
    PROVE  FitInv'
<1>1. encodeJob.pc = "replace" /\ UNCHANGED <<candidates, snapshot, cannotRemove>>
  BY DEF ReplaceOutput, FitAt
<1>2. /\ remains \subseteq {"sibling"} /\ remains \subseteq Remainders /\ cannotRemove \in BOOLEAN
      /\ Len(candidates) # 0 /\ Accepted(FramesNow)
      /\ encodeJob.limit # NoLimit => candidates[Len(candidates)].weight <= encodeJob.limit
      /\ encodeJob.error = "none"
  BY <1>1 DEF FitInv, FitTyped, Beside, Encoded, Destination, FramesNow, FittedFrames
<1>3. CASE FitFails("io") /\ UNCHANGED <<outputFile, remains>>
  BY <1>1, <1>2, <1>3, FitFailsSafely
<1>4. CASE /\ outputFile' = [chunks |-> EncodedFile(FramesNow).chunks, size |-> Last(candidates).size,
                             weight |-> Last(candidates).weight, resized |-> Last(candidates).resized,
                             verified |-> Accepted(FramesNow) /\ \A i \in DOMAIN snapshot : snapshot[i]]
           /\ remains' = remains \ {"sibling"} /\ FitGoes([encodeJob EXCEPT !.pc = "confirm"])
  <2>1. /\ encodeJob' \in FitJobs /\ encodeJob'.error = "none" /\ encodeJob'.limit = encodeJob.limit
        /\ encodeJob'.pc = "confirm"
    BY <1>1, <1>2, <1>4 DEF FitGoes, FitInv, FitTyped, FitJobs
  <2>2. Last(candidates) \in FitCandidates /\ Last(candidates) = candidates[Len(candidates)]
    <3>1. candidates \in Seq(FitCandidates) /\ Len(candidates) \in Nat /\ Len(candidates) \in 1..Len(candidates)
      BY <1>2, LenProperties DEF FitInv, FitTyped
    <3> QED
      BY <3>1, ElementOfSeq DEF Last
  <2>3. \A i \in DOMAIN snapshot : snapshot[i]
    <3>1. snapshot \in Seq({TRUE})
      BY DEF FitInv, FitTyped
    <3>2. ASSUME NEW i \in DOMAIN snapshot
          PROVE  snapshot[i] = TRUE
      <4>1. DOMAIN snapshot = 1..Len(snapshot) /\ snapshot[i] \in {TRUE}
        BY <3>1, LenProperties, ElementOfSeq
      <4> QED
        BY <4>1, Zenon
    <3> QED
      BY <3>2, Zenon
  <2> DEFINE chunks == EncodedFile(FramesNow).chunks
             accepted == Accepted(FramesNow) /\ \A i \in DOMAIN snapshot : snapshot[i]
  <2>4. accepted
    BY <1>2, <2>3
  <2>5. outputFile' = [chunks |-> chunks, size |-> Last(candidates).size, weight |-> Last(candidates).weight,
                       resized |-> Last(candidates).resized, verified |-> accepted]
    BY <1>4
  <2> HIDE DEF accepted, chunks
  <2>6. /\ outputFile'.verified /\ outputFile'.resized \in {0, 1} /\ outputFile'.size \in FitSizes
        /\ outputFile'.weight = candidates[Len(candidates)].weight /\ ~OldOutput.verified
    BY <2>2, <2>4, <2>5 DEF FitCandidates, OldOutput
  <2>7. outputFile' # OldOutput
    BY <2>6
  <2>8. FitTyped' /\ Encoded' /\ Beside'
    BY <1>1, <1>2, <1>4, <2>1 DEF FitInv, FitTyped, Encoded, Beside
  <2>9. Destination' /\ FailedFitLeavesNothing'
    BY <2>1, <2>7 DEF Destination, FailedFitLeavesNothing, FitAt
  <2>10. OutputIsTheFittedInput'
    BY <1>2, <2>1, <2>6 DEF OutputIsTheFittedInput, FitSizes
  <2> QED
    BY <2>8, <2>9, <2>10 DEF FitInv
<1> QED
  BY <1>3, <1>4 DEF ReplaceOutput

LEMMA EndSteps ==
    ASSUME FitInv, ConfirmOutput \/ CleanUp
    PROVE  FitInv'
<1>1. UNCHANGED <<candidates, snapshot, outputFile>>
  BY DEF ConfirmOutput, CleanUp
<1>2. CASE ConfirmOutput
  <2>1. PICK error \in {"none", "invalid", "cancelled"} :
           encodeJob' = [encodeJob EXCEPT !.pc = "ended", !.error = error]
    BY <1>2 DEF ConfirmOutput, FitGoes
  <2>2. encodeJob.pc = "confirm" /\ UNCHANGED <<remains, cannotRemove>>
    BY <1>2 DEF ConfirmOutput, FitAt
  <2>3. /\ encodeJob' \in FitJobs /\ encodeJob'.pc = "ended" /\ encodeJob'.error = error
        /\ encodeJob'.limit = encodeJob.limit
    BY <2>1 DEF FitInv, FitTyped, FitJobs
  <2>4. outputFile # OldOutput /\ remains = {}
    BY <2>2 DEF FitInv, Destination, Beside
  <2>5. FitTyped' /\ Encoded' /\ Beside' /\ Destination'
    BY <1>1, <2>2, <2>3 DEF FitInv, FitTyped, Encoded, Beside, Destination
  <2>6. FailedFitLeavesNothing'
    BY <1>1, <2>2, <2>3, <2>4 DEF FailedFitLeavesNothing, FitAt
  <2>7. OutputIsTheFittedInput'
    BY <1>1, <2>3 DEF FitInv, OutputIsTheFittedInput
  <2> QED
    BY <2>5, <2>6, <2>7 DEF FitInv
<1>3. CASE CleanUp
  <2>1. /\ encodeJob.pc = "cleanup" /\ encodeJob' = [encodeJob EXCEPT !.pc = "ended"]
        /\ (remains' = remains \ Remainders /\ UNCHANGED cannotRemove) \/ (remains' = remains /\ cannotRemove' = TRUE)
    BY <1>3 DEF CleanUp, FitAt, FitGoes, Removal, Remainders
  <2>2. /\ encodeJob' \in FitJobs /\ encodeJob'.pc = "ended" /\ encodeJob'.error = encodeJob.error
        /\ encodeJob'.limit = encodeJob.limit
    BY <2>1 DEF FitInv, FitTyped, FitJobs
  <2>3. outputFile = OldOutput /\ encodeJob.error # "none"
    BY <2>1 DEF FitInv, Destination
  <2>4. remains' \subseteq Remainders /\ cannotRemove' \in BOOLEAN /\ (remains' = {} \/ cannotRemove')
    BY <2>1 DEF FitInv, FitTyped
  <2>5. FitTyped' /\ Encoded' /\ Beside' /\ Destination'
    BY <1>1, <2>2, <2>4 DEF FitInv, FitTyped, Encoded, Beside, Destination
  <2>6. FailedFitLeavesNothing' /\ OutputIsTheFittedInput'
    BY <1>1, <2>2, <2>3, <2>4 DEF FailedFitLeavesNothing, OutputIsTheFittedInput, FitAt
  <2> QED
    BY <2>5, <2>6 DEF FitInv
<1> QED
  BY <1>2, <1>3

LEMMA AroundStep ==
    ASSUME FitInv, CancelEncoding \/ UNCHANGED encodeJob,
           UNCHANGED <<candidates, snapshot, outputFile, remains, cannotRemove>>
    PROVE  FitInv'
<1>1. CASE UNCHANGED encodeJob
  BY <1>1 DEF FitInv, FitTyped, Encoded, Beside, Destination, OutputIsTheFittedInput, FailedFitLeavesNothing, FitAt
<1>2. CASE CancelEncoding
  <2>1. /\ encodeJob' \in FitJobs /\ encodeJob'.pc = encodeJob.pc /\ encodeJob'.error = encodeJob.error
        /\ encodeJob'.limit = encodeJob.limit /\ FittedFrames(encodeJob') = FittedFrames(encodeJob)
    BY <1>2 DEF CancelEncoding, FitGoes, FitInv, FitTyped, FitJobs, FittedFrames
  <2>2. FitTyped' /\ Encoded' /\ Beside' /\ Destination'
    BY <2>1 DEF FitInv, FitTyped, Encoded, Beside, Destination
  <2>3. OutputIsTheFittedInput' /\ FailedFitLeavesNothing'
    BY <2>1 DEF FitInv, OutputIsTheFittedInput, FailedFitLeavesNothing, FitAt
  <2> QED
    BY <2>2, <2>3 DEF FitInv
<1> QED
  BY <1>1, <1>2

-----------------------------------------------------------------------------
(* WebPFit: the theorem *)

LEMMA FitStarts == WebPInit => FitInv
<1> SUFFICES ASSUME WebPInit
             PROVE  FitInv
  OBVIOUS
<1>1. PICK fs \in FrameInputs, size \in CanvasSizes, limit \in ByteLimits :
          encodeJob = [frames |-> fs, source |-> size, size |-> size, scale |-> ScaleUnit, resized |-> 0,
                       blurred |-> FALSE, limit |-> limit, pc |-> "inputs", error |-> "none", cancelled |-> FALSE]
  BY DEF WebPInit
<1>2. size \in FitSizes /\ ScaleUnit \in 1..ScaleUnit /\ MaxFitEncodings \in Nat
  BY WebPFitAssumption DEF FitSizes
<1>3. encodeJob \in FitJobs
  BY <1>1, <1>2 DEF FitJobs
<1>4. FitTyped
  <2>1. << >> \in Seq(FitCandidates) /\ << >> \in Seq({TRUE}) /\ Len(<< >>) = 0
    BY EmptySeq
  <2>2. candidates \in Seq(FitCandidates) /\ snapshot \in Seq({TRUE}) /\ Len(candidates) <= MaxFitEncodings
    BY <1>2, <2>1 DEF WebPInit
  <2>3. remains \subseteq Remainders /\ cannotRemove \in BOOLEAN
    BY DEF WebPInit
  <2> QED
    BY <1>3, <2>2, <2>3 DEF FitTyped
<1>5. Encoded /\ Beside /\ Destination /\ OutputIsTheFittedInput /\ FailedFitLeavesNothing
  BY <1>1 DEF WebPInit, Encoded, Beside, Destination, OutputIsTheFittedInput, FailedFitLeavesNothing, FitAt
<1> QED
  BY <1>4, <1>5 DEF FitInv

LEMMA FitKeepsOn == FitInv /\ [WebPNext]_webpVars => FitInv'
<1> SUFFICES ASSUME FitInv, [WebPNext]_webpVars
             PROVE  FitInv'
  OBVIOUS
<1>1. CASE CheckInputs \/ SnapshotFrame
  BY <1>1, InputsStep, SnapshotStep
<1>2. CASE \E weight \in Weights : EncodeLossless(weight)
  BY <1>2, EncodeStep
<1>3. CASE ShrinkFrames \/ PrepareCandidate \/ TidyScratch
  BY <1>3, ShrinkStep, PrepareStep, TidyStep
<1>4. CASE ReplaceOutput \/ ConfirmOutput \/ CleanUp
  BY <1>4, ReplaceStep, EndSteps
<1>5. CASE CancelEncoding \/ (\E i \in DOMAIN encodeJob.frames : RewriteFrame(i)) \/ UNCHANGED webpVars
  <2>1. UNCHANGED <<candidates, snapshot, outputFile, remains, cannotRemove>>
        /\ (CancelEncoding \/ UNCHANGED encodeJob)
    BY <1>5 DEF CancelEncoding, RewriteFrame, webpVars
  <2> QED
    BY <2>1, AroundStep
<1> QED
  BY <1>1, <1>2, <1>3, <1>4, <1>5 DEF WebPNext

-----------------------------------------------------------------------------
(* WebPFit: what is written, refused and given up *)

\* What the file holds, and why a job is at its end.
Reasons ==
    /\ encodeJob.error # "rejected"
    /\ outputFile # OldOutput => outputFile.chunks = EncodedFile(FittedFrames(encodeJob)).chunks
    /\ encodeJob.size = encodeJob.source \/ SmallestScale < ScaleUnit
    /\ encodeJob.pc = "judge" => Last(candidates).size = encodeJob.size
    /\ ImpossibleIsEarned

\* A side that no scale makes smaller is at the minimum.
LEMMA SideIsSmallest ==
    ASSUME NEW n \in Nat, n >= MinDimension, (MinDimension * ScaleUnit + n - 1) \div n >= ScaleUnit
    PROVE  n = MinDimension
<1>1. MinDimension \in Nat \ {0} /\ ScaleUnit \in Nat \ {0} /\ n \in Nat \ {0} /\ MinDimension + 1 <= ScaleUnit
  BY WebPFitAssumption, ScaleIsFine
<1> SUFFICES ASSUME n # MinDimension
             PROVE  FALSE
  OBVIOUS
<1>2. PICK k \in Nat \ {0} : n = MinDimension + k
  <2>1. n - MinDimension \in Nat \ {0} /\ n = MinDimension + (n - MinDimension)
    BY <1>1
  <2> QED
    BY <2>1
<1> DEFINE a == MinDimension * ScaleUnit
           q == (a + n - 1) \div n
<1>3. a \in Nat /\ a + n - 1 \in Nat
  BY <1>1
<1>4. q \in Nat /\ n * q <= a + n - 1 /\ ScaleUnit <= q
  <2> HIDE DEF a
  <2>1. ScaleUnit <= q
    BY DEF a
  <2> QED
    BY <1>1, <1>3, <2>1, Quotients
<1>5. n * ScaleUnit <= a + n - 1
  <2> HIDE DEF a, q
  <2>1. ScaleUnit * n <= q * n
    BY <1>1, <1>4, ProductsGrow
  <2>2. ScaleUnit * n = n * ScaleUnit /\ q * n = n * q /\ n * q \in Nat /\ n * ScaleUnit \in Nat
    BY <1>1, <1>4
  <2> QED
    BY <1>1, <1>3, <1>4, <2>1, <2>2
<1>6. k * ScaleUnit <= MinDimension + k - 1
  <2>1. n * ScaleUnit = a + k * ScaleUnit /\ k * ScaleUnit \in Nat
    BY <1>1, <1>2
  <2> HIDE DEF a
  <2> QED
    BY <1>1, <1>2, <1>3, <1>5, <2>1
<1>7. k * MinDimension + k <= k * ScaleUnit /\ MinDimension <= k * MinDimension
  <2>1. (MinDimension + 1) * k <= ScaleUnit * k /\ 1 * MinDimension <= k * MinDimension
    BY <1>1, <1>2, ProductsGrow
  <2>2. (MinDimension + 1) * k = k * MinDimension + k /\ ScaleUnit * k = k * ScaleUnit
    BY <1>1, <1>2
  <2> QED
    BY <1>1, <2>1, <2>2
<1> QED
  <2>1. k * MinDimension \in Nat /\ k * ScaleUnit \in Nat
    BY <1>1, <1>2
  <2> QED
    BY <1>1, <1>2, <1>6, <1>7, <2>1

LEMMA SourceIsSmallest ==
    ASSUME encodeJob.source \in CanvasSizes, SmallestScale >= ScaleUnit
    PROVE  encodeJob.source[1] = MinDimension \/ encodeJob.source[2] = MinDimension
<1> DEFINE w == encodeJob.source[1]
           h == encodeJob.source[2]
           across == (MinDimension * ScaleUnit + w - 1) \div w
           down == (MinDimension * ScaleUnit + h - 1) \div h
<1>1. w \in Nat \ {0} /\ h \in Nat \ {0} /\ w >= MinDimension /\ h >= MinDimension
  <2>1. w \in Nat /\ h \in Nat /\ w >= MinDimension /\ h >= MinDimension
    BY WebPFitAssumption
  <2> QED
    BY <2>1, WebPFitAssumption
<1> HIDE DEF w, h
<1>2. across \in Nat /\ down \in Nat
  <2>1. MinDimension * ScaleUnit \in Nat
    BY WebPFitAssumption
  <2>2. MinDimension * ScaleUnit + w - 1 \in Nat /\ MinDimension * ScaleUnit + h - 1 \in Nat
    BY <1>1, <2>1
  <2> QED
    BY <1>1, <2>2, Quotients
<1>3. SmallestScale = Max({across, down})
  BY DEF SmallestScale, w, h
<1> HIDE DEF across, down
<1>4. across >= ScaleUnit \/ down >= ScaleUnit
  <2>1. SmallestScale \in {across, down}
    BY <1>2, <1>3, LargerOfTwo
  <2> QED
    BY <2>1
<1>5. w = MinDimension \/ h = MinDimension
  BY <1>1, <1>4, SideIsSmallest DEF across, down
<1> QED
  BY <1>5 DEF w, h

LEMMA SmallestScaleIsANumber ==
    ASSUME encodeJob.source \in CanvasSizes
    PROVE  SmallestScale \in Nat
<1> DEFINE w == encodeJob.source[1]
           h == encodeJob.source[2]
           across == (MinDimension * ScaleUnit + w - 1) \div w
           down == (MinDimension * ScaleUnit + h - 1) \div h
<1>1. w \in Nat \ {0} /\ h \in Nat \ {0}
  BY WebPFitAssumption
<1> HIDE DEF w, h
<1>2. across \in Nat /\ down \in Nat
  <2>1. MinDimension * ScaleUnit \in Nat
    BY WebPFitAssumption
  <2>2. MinDimension * ScaleUnit + w - 1 \in Nat /\ MinDimension * ScaleUnit + h - 1 \in Nat
    BY <1>1, <2>1
  <2> QED
    BY <1>1, <2>2, Quotients
<1>3. SmallestScale = Max({across, down})
  BY DEF SmallestScale, w, h
<1> HIDE DEF across, down
<1> QED
  BY <1>2, <1>3, LargerOfTwo

LEMMA SameSmallestScale ==
    ASSUME encodeJob'.source = encodeJob.source
    PROVE  SmallestScale' = SmallestScale
BY Zenon DEF SmallestScale

\* A step that raises has a reason.
LEMMA FailsWithReason ==
    ASSUME FitInv, Reasons, encodeJob.pc \notin {"confirm", "cleanup", "ended"},
           NEW why \in {"invalid", "io", "changed", "impossible", "cancelled"}, FitFails(why),
           UNCHANGED <<candidates, outputFile>>,
           why = "impossible" => \/ Len(candidates) = MaxFitEncodings
                                 \/ encodeJob.size[1] = MinDimension \/ encodeJob.size[2] = MinDimension
    PROVE  Reasons'
<1>1. /\ encodeJob'.error = why /\ encodeJob'.size = encodeJob.size /\ encodeJob'.source = encodeJob.source
      /\ encodeJob'.pc = "cleanup"
  BY DEF FitFails, FitGoes, FitInv, FitTyped, FitJobs
<1>2. SmallestScale' = SmallestScale /\ outputFile' = OldOutput
  BY <1>1, SameSmallestScale DEF FitInv, Destination
<1> QED
  BY <1>1, <1>2 DEF Reasons, ImpossibleIsEarned

\* A step before the rename that goes on.
LEMMA GoesOnWithReason ==
    ASSUME FitInv, Reasons, encodeJob.pc \notin {"confirm", "cleanup", "ended"}, UNCHANGED outputFile,
           encodeJob'.error = "none", encodeJob'.source = encodeJob.source,
           encodeJob'.size = encodeJob.size \/ SmallestScale < ScaleUnit,
           encodeJob'.pc = "judge" => Last(candidates').size = encodeJob'.size
    PROVE  Reasons'
<1>1. SmallestScale' = SmallestScale /\ outputFile' = OldOutput
  BY SameSmallestScale DEF FitInv, Destination
<1> QED
  BY <1>1 DEF Reasons, ImpossibleIsEarned

LEMMA BeforeEncoding ==
    ASSUME FitInv, Reasons, CheckInputs \/ SnapshotFrame
    PROVE  Reasons'
<1>1. /\ encodeJob.pc \in {"inputs", "snapshot"} /\ UNCHANGED <<candidates, outputFile>>
      /\ encodeJob.error = "none"
  BY DEF CheckInputs, SnapshotFrame, FitAt, FitInv, Destination
<1>2. CASE \E why \in {"cancelled", "invalid", "io", "changed"} : FitFails(why)
  BY <1>1, <1>2, FailsWithReason
<1>3. CASE \E pc \in {"encode", "snapshot"} : FitGoes([encodeJob EXCEPT !.pc = pc])
  <2>1. PICK pc \in {"encode", "snapshot"} : encodeJob' = [encodeJob EXCEPT !.pc = pc]
    BY <1>3 DEF FitGoes
  <2>2. /\ encodeJob'.error = "none" /\ encodeJob'.source = encodeJob.source /\ encodeJob'.size = encodeJob.size
        /\ encodeJob'.pc # "judge"
    BY <1>1, <2>1 DEF FitInv, FitTyped, FitJobs
  <2> QED
    BY <1>1, <2>2, GoesOnWithReason
<1>4. CASE CheckInputs
  BY <1>2, <1>3, <1>4 DEF CheckInputs, StopsIfCancelled
<1>5. CASE SnapshotFrame
  BY <1>2, <1>3, <1>5 DEF SnapshotFrame, StopsIfCancelled
<1> QED
  BY <1>4, <1>5

\* The encoder never refuses its own file.
LEMMA EncodingIsAccepted ==
    ASSUME FitInv, Reasons, NEW weight \in Weights, EncodeLossless(weight)
    PROVE  Reasons'
<1> DEFINE candidate == [size |-> encodeJob.size, weight |-> weight, resized |-> encodeJob.resized]
<1>1. encodeJob.pc = "encode" /\ UNCHANGED outputFile /\ encodeJob.error = "none"
  BY DEF EncodeLossless, FitAt, FitInv, Destination
<1>2. Accepted(FramesNow)
  <2>1. encodeJob \in FitJobs
    BY DEF FitInv, FitTyped
  <2>2. Accepted(FittedFrames(encodeJob))
    BY <2>1, OwnFileIsAccepted
  <2>3. FittedFrames(encodeJob) = FramesNow
    BY DEF FittedFrames, FramesNow
  <2> QED
    BY <2>2, <2>3
<1>3. CASE UNCHANGED candidates /\ \E why \in {"cancelled", "io", "changed"} : FitFails(why)
  BY <1>1, <1>3, FailsWithReason
<1>4. CASE /\ candidates' = Append(candidates, candidate)
           /\ FitGoes([encodeJob EXCEPT !.pc = IF encodeJob.limit = NoLimit THEN "replace" ELSE "judge"])
  <2>1. /\ encodeJob'.error = "none" /\ encodeJob'.source = encodeJob.source /\ encodeJob'.size = encodeJob.size
    BY <1>1, <1>4 DEF FitGoes, FitInv, FitTyped, FitJobs
  <2>2. Last(candidates') = candidate
    <3>1. candidate \in FitCandidates /\ candidates \in Seq(FitCandidates)
      BY DEF FitInv, FitTyped, FitJobs, FitCandidates
    <3> HIDE DEF candidate
    <3> QED
      BY <1>4, <3>1, AppendProperties DEF Last
  <2> QED
    BY <1>1, <2>1, <2>2, GoesOnWithReason
<1> QED
  BY <1>2, <1>3, <1>4 DEF EncodeLossless, StopsIfCancelled

\* The loop gives up when the encodes are used up, or a side is at the minimum.
LEMMA GivingUpIsEarned ==
    ASSUME FitInv, Reasons, encodeJob.pc = "judge", NEW stepped \in 1..encodeJob.scale - 1,
           LET scale == Max({SmallestScale, stepped})
           IN  CannotShrink(scale, ScaledSize(scale))
    PROVE  encodeJob.size[1] = MinDimension \/ encodeJob.size[2] = MinDimension
<1> DEFINE scale == Max({SmallestScale, stepped})
           size == ScaledSize(scale)
<1>1. /\ encodeJob.source \in CanvasSizes /\ stepped \in Nat /\ stepped < ScaleUnit /\ ScaleUnit \in Nat
      /\ Last(candidates).size = encodeJob.size
  BY WebPFitAssumption DEF FitInv, FitTyped, FitJobs, Reasons
<1>2. SmallestScale \in Nat
  BY <1>1, SmallestScaleIsANumber
<1>3. scale \in {SmallestScale, stepped}
  <2>1. SmallestScale \in Int /\ stepped \in Int
    BY <1>1, <1>2
  <2> QED
    BY <2>1, LargerOfTwo, Zenon
<1> HIDE DEF scale
<1>4. CASE scale >= ScaleUnit
  <2>1. SmallestScale >= ScaleUnit
    BY <1>1, <1>2, <1>3, <1>4
  <2>2. encodeJob.size = encodeJob.source
    BY <1>1, <1>2, <2>1 DEF Reasons
  <2> QED
    BY <1>1, <2>1, <2>2, SourceIsSmallest
<1>5. CASE size = Smallest /\ Last(candidates).size = size
  BY <1>1, <1>5 DEF Smallest
<1> QED
  BY <1>4, <1>5 DEF CannotShrink, scale

LEMMA ShrinkingIsEarned ==
    ASSUME FitInv, Reasons, ShrinkFrames
    PROVE  Reasons'
<1>1. encodeJob.pc = "judge" /\ UNCHANGED <<candidates, snapshot, outputFile>> /\ encodeJob.error = "none"
  BY DEF ShrinkFrames, FitAt, FitInv, Destination
<1>2. CASE FitFails("cancelled") \/ FitFails("io")
  BY <1>1, <1>2, FailsWithReason
<1>3. CASE Len(candidates) = MaxFitEncodings /\ FitFails("impossible")
  BY <1>1, <1>3, FailsWithReason
<1>4. CASE \E stepped \in 1..encodeJob.scale - 1 :
              LET scale == Max({SmallestScale, stepped})
              IN  CannotShrink(scale, ScaledSize(scale)) /\ FitFails("impossible")
  <2>1. encodeJob.size[1] = MinDimension \/ encodeJob.size[2] = MinDimension
    BY <1>1, <1>4, GivingUpIsEarned
  <2> QED
    BY <1>1, <1>4, <2>1, FailsWithReason
<1>5. ASSUME NEW stepped \in 1..encodeJob.scale - 1, NEW blurred \in {encodeJob.blurred, TRUE},
             LET scale == Max({SmallestScale, stepped})
                 size == ScaledSize(scale)
             IN  /\ ~CannotShrink(scale, size)
                 /\ FitGoes([encodeJob EXCEPT !.pc = "encode", !.scale = scale, !.size = size,
                                !.resized = ResizedFromSources, !.blurred = blurred])
      PROVE  Reasons'
  <2> DEFINE scale == Max({SmallestScale, stepped})
             size == ScaledSize(scale)
  <2>1. encodeJob.source \in CanvasSizes /\ stepped \in Nat /\ ScaleUnit \in Nat
    BY <1>5, WebPFitAssumption DEF FitInv, FitTyped, FitJobs
  <2>2. SmallestScale \in Nat
    BY <2>1, SmallestScaleIsANumber
  <2>3. scale \in Nat /\ scale >= SmallestScale
    BY <2>1, <2>2, LargerOfTwo
  <2> HIDE DEF scale
  <2>4. SmallestScale < ScaleUnit
    BY <1>5, <2>1, <2>2, <2>3 DEF CannotShrink, scale
  <2>5. encodeJob' = [encodeJob EXCEPT !.pc = "encode", !.scale = scale, !.size = size,
                         !.resized = ResizedFromSources, !.blurred = blurred]
    BY <1>5 DEF FitGoes, scale
  <2> HIDE DEF size
  <2>6. encodeJob'.error = "none" /\ encodeJob'.source = encodeJob.source /\ encodeJob'.pc = "encode"
    BY <1>1, <2>5 DEF FitInv, FitTyped, FitJobs
  <2> QED
    BY <1>1, <2>4, <2>6, GoesOnWithReason
<1> QED
  BY <1>2, <1>3, <1>4, <1>5 DEF ShrinkFrames, StopsIfCancelled

LEMMA PreparingHasReason ==
    ASSUME FitInv, Reasons, PrepareCandidate \/ TidyScratch
    PROVE  Reasons'
<1>1. /\ encodeJob.pc \in {"judge", "tidy"} /\ UNCHANGED <<candidates, outputFile>>
      /\ encodeJob.error = "none"
  BY DEF PrepareCandidate, TidyScratch, FitAt, FitInv, Destination
<1>2. CASE FitFails("cancelled") \/ FitFails("io")
  BY <1>1, <1>2, FailsWithReason
<1>3. CASE \E pc \in {"tidy", "replace"} : FitGoes([encodeJob EXCEPT !.pc = pc])
  <2>1. PICK pc \in {"tidy", "replace"} : encodeJob' = [encodeJob EXCEPT !.pc = pc]
    BY <1>3 DEF FitGoes
  <2>2. /\ encodeJob'.error = "none" /\ encodeJob'.source = encodeJob.source /\ encodeJob'.size = encodeJob.size
        /\ encodeJob'.pc # "judge"
    BY <1>1, <2>1 DEF FitInv, FitTyped, FitJobs
  <2> QED
    BY <1>1, <2>2, GoesOnWithReason
<1> QED
  BY <1>2, <1>3 DEF PrepareCandidate, TidyScratch, StopsIfCancelled

\* The file holds the chunks of the frames there are.
LEMMA ReplacedIsEncoded ==
    ASSUME FitInv, Reasons, ReplaceOutput
    PROVE  Reasons'
<1>1. encodeJob.pc = "replace" /\ UNCHANGED <<candidates, snapshot>> /\ encodeJob.error = "none"
  BY DEF ReplaceOutput, FitAt, FitInv, Destination
<1>2. CASE FitFails("io") /\ UNCHANGED outputFile
  BY <1>1, <1>2, FailsWithReason
<1>3. CASE /\ outputFile' = [chunks |-> EncodedFile(FramesNow).chunks, size |-> Last(candidates).size,
                             weight |-> Last(candidates).weight, resized |-> Last(candidates).resized,
                             verified |-> Accepted(FramesNow) /\ \A i \in DOMAIN snapshot : snapshot[i]]
           /\ FitGoes([encodeJob EXCEPT !.pc = "confirm"])
  <2>1. /\ encodeJob'.error = "none" /\ encodeJob'.source = encodeJob.source /\ encodeJob'.size = encodeJob.size
        /\ encodeJob'.pc = "confirm" /\ FittedFrames(encodeJob') = FramesNow
    BY <1>1, <1>3 DEF FitGoes, FitInv, FitTyped, FitJobs, FittedFrames, FramesNow
  <2>2. outputFile'.chunks = EncodedFile(FramesNow).chunks
    <3> DEFINE chunks == EncodedFile(FramesNow).chunks
               verified == Accepted(FramesNow) /\ \A i \in DOMAIN snapshot : snapshot[i]
    <3>1. outputFile' = [chunks |-> chunks, size |-> Last(candidates).size,
                         weight |-> Last(candidates).weight, resized |-> Last(candidates).resized,
                         verified |-> verified]
      BY <1>3
    <3> HIDE DEF chunks, verified
    <3>2. outputFile'.chunks = chunks
      BY <3>1
    <3> QED
      BY <3>2 DEF chunks
  <2>3. outputFile'.chunks = EncodedFile(FittedFrames(encodeJob')).chunks
    BY <2>1, <2>2, Zenon
  <2>4. SmallestScale' = SmallestScale
    BY <2>1, SameSmallestScale
  <2> QED
    BY <2>1, <2>3, <2>4 DEF Reasons, ImpossibleIsEarned
<1> QED
  BY <1>2, <1>3 DEF ReplaceOutput

LEMMA EndingHasReason ==
    ASSUME FitInv, Reasons, ConfirmOutput \/ CleanUp \/ CancelEncoding \/ UNCHANGED encodeJob,
           UNCHANGED <<candidates, outputFile>>
    PROVE  Reasons'
<1>1. /\ FittedFrames(encodeJob') = FittedFrames(encodeJob) /\ encodeJob'.size = encodeJob.size
      /\ encodeJob'.source = encodeJob.source
      /\ encodeJob'.error \in {encodeJob.error, "none", "invalid", "cancelled"}
      /\ encodeJob'.pc \in {encodeJob.pc, "ended"}
  <2>1. CASE ConfirmOutput
    BY <2>1 DEF ConfirmOutput, FitGoes, FitInv, FitTyped, FitJobs, FittedFrames
  <2>2. CASE CleanUp \/ CancelEncoding \/ UNCHANGED encodeJob
    BY <2>2 DEF CleanUp, CancelEncoding, FitGoes, FitInv, FitTyped, FitJobs, FittedFrames
  <2> QED
    BY <2>1, <2>2
<1>2. SmallestScale' = SmallestScale
  BY <1>1, SameSmallestScale
<1>3. outputFile' # OldOutput => outputFile'.chunks = EncodedFile(FittedFrames(encodeJob')).chunks
  BY <1>1, Zenon DEF Reasons
<1> QED
  BY <1>1, <1>2, <1>3 DEF Reasons, ImpossibleIsEarned

LEMMA ReasonsStart == WebPInit => Reasons
  BY DEF WebPInit, Reasons, ImpossibleIsEarned

LEMMA ReasonsGoOn == FitInv /\ Reasons /\ [WebPNext]_webpVars => Reasons'
<1> SUFFICES ASSUME FitInv, Reasons, [WebPNext]_webpVars
             PROVE  Reasons'
  OBVIOUS
<1>1. CASE CheckInputs \/ SnapshotFrame
  BY <1>1, BeforeEncoding
<1>2. CASE \E weight \in Weights : EncodeLossless(weight)
  BY <1>2, EncodingIsAccepted
<1>3. CASE ShrinkFrames \/ PrepareCandidate \/ TidyScratch
  BY <1>3, ShrinkingIsEarned, PreparingHasReason
<1>4. CASE ReplaceOutput
  BY <1>4, ReplacedIsEncoded
<1>5. CASE \/ ConfirmOutput \/ CleanUp \/ CancelEncoding
           \/ (\E i \in DOMAIN encodeJob.frames : RewriteFrame(i)) \/ UNCHANGED webpVars
  <2>1. UNCHANGED <<candidates, outputFile>>
        /\ (ConfirmOutput \/ CleanUp \/ CancelEncoding \/ UNCHANGED encodeJob)
    BY <1>5 DEF ConfirmOutput, CleanUp, CancelEncoding, RewriteFrame, webpVars
  <2> QED
    BY <2>1, EndingHasReason
<1> QED
  BY <1>1, <1>2, <1>3, <1>4, <1>5 DEF WebPNext

LEMMA FitIsCorrect == FitInv /\ Reasons => WebPFitCorrect
<1> SUFFICES ASSUME FitInv, Reasons
             PROVE  WebPFitCorrect
  OBVIOUS
<1>1. WebPTypeOK /\ OutputIsTheFittedInput /\ FailedFitLeavesNothing
  BY DEF FitInv, FitTyped, FitJobs, Remainders, WebPTypeOK
<1>2. AnimationKeepsItsTiming
  <2> SUFFICES ASSUME outputFile # OldOutput, Len(encodeJob.frames) > 1
               PROVE  Seen(outputFile.chunks) = Seen(FramesNow)
    BY DEF AnimationKeepsItsTiming
  <2>1. encodeJob \in FitJobs /\ outputFile.chunks = EncodedFile(FittedFrames(encodeJob)).chunks
    BY DEF FitInv, FitTyped, Reasons
  <2>2. Seen(EncodedFile(FittedFrames(encodeJob)).chunks) = Seen(FittedFrames(encodeJob))
    BY <2>1, OwnFileIsAccepted
  <2>3. FittedFrames(encodeJob) = FramesNow
    BY DEF FittedFrames, FramesNow
  <2> QED
    BY <2>1, <2>2, <2>3
<1>3. OwnEncodingIsAccepted /\ ImpossibleIsEarned
  BY DEF Reasons, OwnEncodingIsAccepted
<1> QED
  BY <1>1, <1>2, <1>3 DEF WebPFitCorrect

\* What the fit renames into place was encoded from the checked frames, shows at every
\* millisecond what they show, is within the limit and no smaller than the minimum; the
\* encoder accepts its own file, gives up only where it must, and a job that fails on its
\* input leaves the destination, and no job a temporary: core/webp.py, jobs/encoding.py.
THEOREM FitKeepsWhatItWasGiven == WebPSpec => []WebPFitCorrect
<1>1. WebPInit => FitInv /\ Reasons
  BY FitStarts, ReasonsStart
<1>2. FitInv /\ Reasons /\ [WebPNext]_webpVars => (FitInv /\ Reasons)'
  BY FitKeepsOn, ReasonsGoOn
<1> QED
  BY <1>1, <1>2, FitIsCorrect, PTL DEF WebPSpec
=============================================================================
