------------------------------- MODULE WebPFit -------------------------------
(***************************************************************************)
(* The lossless WebP encoder of core/webp.py as one job runs it through    *)
(* jobs/encoding.py: the frames' files are checked, encoded into a         *)
(* temporary, read back and compared, and renamed into place; with a byte  *)
(* limit the frames are first copied, then encoded smaller and smaller     *)
(* until they fit.  A frame is its pixels and its delay; a file is the     *)
(* sequence of its chunks.  What a size encodes to is left open.           *)
(***************************************************************************)
EXTENDS Integers, Sequences, FiniteSets, SequencesExt

CONSTANTS FrameInputs, \* sequences of [pixels, delay]: what the framing stage wrote
          MaxDelay,    \* _MAX_WEBP_DELAY_MS
          CanvasSizes, \* <<width, height>> of the frames
          MinDimension, MaxFitEncodings,
          ScaleUnit,   \* a scale is so many ScaleUnit-ths; a step takes off at least one
          ByteLimits, Weights    \* byte limits (NoLimit too) and what a candidate may weigh

ASSUME WebPFitAssumption ==
    /\ {MaxDelay, MinDimension, MaxFitEncodings, ScaleUnit} \subseteq Nat \ {0}
    /\ \A fs \in FrameInputs :
          /\ fs \in Seq([pixels : {fs[i].pixels : i \in DOMAIN fs}, delay : 1..MaxDelay])
          /\ fs # << >>
    /\ CanvasSizes \subseteq Nat \X Nat
    /\ \A s \in CanvasSizes : s[1] >= MinDimension /\ s[2] >= MinDimension
    /\ ByteLimits \subseteq Nat /\ Weights \subseteq Nat \ {0}

\* A scale is a Decimal: its steps are finer than the smallest side has pixels.
ASSUME ScaleIsFine == ScaleUnit > MinDimension

VARIABLES
    encodeJob,   \* the input, the limit and where the job is
    candidates,  \* the encodes so far: size, weight, and how often their frames were resized
    snapshot,    \* the copied frames: whether each is the version that was checked
    rewritten,   \* the frame files another program rewrote since they were checked
    outputFile,  \* the destination: "old", or what was renamed into place
    remains,     \* temporaries there are: "snapshot", "candidate", "scaled", "sibling"
    cannotRemove \* history: whether a removal failed

webpVars == <<encodeJob, candidates, snapshot, rewritten, outputFile, remains, cannotRemove>>

NoLimit == 0
OldOutput == [chunks |-> << >>, size |-> <<0, 0>>, weight |-> 0, resized |-> 0, verified |-> FALSE]
DelaySum(fs) ==
    LET sum[n \in 0..Len(fs)] == IF n = 0 THEN 0 ELSE sum[n - 1] + fs[n].delay
    IN  sum[Len(fs)]

---------------------------------------------------------------------------
(* Frames to chunks *)

\* Mutant: pictures are merged with the last equal one, wherever it is.
MergedAnywhere(fs) ==
    FoldLeft(LAMBDA acc, f : IF \E i \in DOMAIN acc : acc[i].pixels = f.pixels
                             THEN [i \in DOMAIN acc |-> IF acc[i].pixels = f.pixels
                                                        THEN [acc[i] EXCEPT !.delay = @ + f.delay] ELSE acc[i]]
                             ELSE Append(acc, f),
             << >>, fs)

\* _collapse_identical_frames: a run of equal pictures is one frame with all their delays.
WithFrame(runs, f) ==
    IF runs # << >> /\ Last(runs).pixels = f.pixels
    THEN [runs EXCEPT ![Len(runs)].delay = @ + f.delay] ELSE Append(runs, f)
Merged(fs) ==
    LET runs[n \in 0..Len(fs)] == IF n = 0 THEN << >> ELSE WithFrame(runs[n - 1], fs[n])
    IN  runs[Len(fs)]

\* Mutant: a delay of exactly the most WebP can say is split as well.
PiecesWithNothingLeft(f) ==
    LET whole == f.delay \div MaxDelay
    IN  [i \in 1..whole + 1 |-> [f EXCEPT !.delay = IF i <= whole THEN MaxDelay ELSE f.delay - whole * MaxDelay]]

\* _split_long_animation_runs: a delay WebP cannot say is said in several frames.
Pieces(f) ==
    LET whole == (f.delay - 1) \div MaxDelay
    IN  [i \in 1..whole + 1 |-> [f EXCEPT !.delay = IF i <= whole THEN MaxDelay ELSE f.delay - whole * MaxDelay]]

Emitted(fs) ==
    IF Len(fs) = 1 THEN fs ELSE FlattenSeq([i \in DOMAIN Merged(fs) |-> Pieces(Merged(fs)[i])])

\* _animation_base_frames: the pieces of one file are encoded once, with their number.
BaseFrames(fs) ==
    LET runs == Merged([i \in DOMAIN fs |-> [fs[i] EXCEPT !.delay = 1]])
    IN  [i \in DOMAIN runs |-> [pixels |-> runs[i].pixels, repeat |-> runs[i].delay]]

\* _encode_animation_frame, for each picture: libwebp_anim makes a chunk of each that
\* differs from the one before, and a still of a single one.
AnimationOf(pictures) ==
    [kind |-> IF Len(pictures) > 1 THEN "animation" ELSE "still", flags |-> {}, loop |-> 0,
     chunks |-> [i \in DOMAIN pictures |-> [pixels |-> pictures[i], delay |-> 1]]]

\* _remove_last_animation_frame.
LastCutOff(file) == [file EXCEPT !.chunks = Front(@)]

\* _encode_animation_frames: one picture is given a changed copy, which is cut off again.
EncodedPictures(base) ==
    IF Len(base) = 1 THEN LastCutOff(AnimationOf(<<base[1].pixels, "changed">>))
    ELSE AnimationOf([i \in DOMAIN base |-> base[i].pixels])

\* _expand_animation_frames.
Expanded(file, base) ==
    [file EXCEPT !.chunks = FlattenSeq([i \in DOMAIN base |-> [n \in 1..base[i].repeat |-> @[i]]])]

\* _rewrite_animation_durations: the delays and the alpha flag.
WithDelays(file, delays) ==
    [file EXCEPT !.flags = {"alpha"}, !.chunks = [i \in DOMAIN @ |-> [@[i] EXCEPT !.delay = delays[i]]]]

\* _encode_animation.
EncodedAnimation(emitted) ==
    LET base == BaseFrames(emitted)
    IN  WithDelays(Expanded(EncodedPictures(base), base), [i \in DOMAIN emitted |-> emitted[i].delay])

\* _encode_still.
EncodedStill(f) ==
    [kind |-> "still", flags |-> {"alpha"}, loop |-> 0, chunks |-> <<[pixels |-> f.pixels, delay |-> 0]>>]

EncodedFile(fs) == IF Len(fs) = 1 THEN EncodedStill(fs[1]) ELSE EncodedAnimation(Emitted(fs))

\* _parse_riff: an animation has its flags, an endless loop and delays that WebP can say.
Parses(file) ==
    /\ file.loop = 0
    /\ file.kind = "animation" => "alpha" \in file.flags /\ \A i \in DOMAIN file.chunks : file.chunks[i].delay \in 1..MaxDelay
    /\ file.kind = "still" => Len(file.chunks) = 1

\* validate_webp: the number of frames and the duration that were expected.
ValidWebP(file, frames, duration) ==
    Parses(file) /\ Len(file.chunks) = frames /\ DelaySum(file.chunks) = duration

\* _validate_encoded_pixels: what a decoder shows is what the frames' files hold.
PixelsMatch(file, emitted) == \A i \in DOMAIN emitted : file.chunks[i].pixels = emitted[i].pixels

\* encode_lossless_webp: what is checked before the temporary is renamed.
Accepted(fs) ==
    LET file == EncodedFile(fs)
        emitted == Emitted(fs)
    IN  /\ ValidWebP(file, Len(emitted), IF Len(fs) > 1 THEN DelaySum(fs) ELSE 0)
        /\ Len(fs) > 1 => file.kind = "animation" /\ \A i \in DOMAIN emitted : file.chunks[i].delay = emitted[i].delay
        /\ PixelsMatch(file, emitted)

\* What is seen at each millisecond.
Seen(fs) == FlattenSeq([i \in DOMAIN fs |-> [ms \in 1..fs[i].delay |-> fs[i].pixels]])

---------------------------------------------------------------------------
(* The job *)

FramesNow == IF encodeJob.blurred THEN [i \in DOMAIN encodeJob.frames |-> [encodeJob.frames[i] EXCEPT !.pixels = "blur"]]
             ELSE encodeJob.frames
FitGoes(changes) == encodeJob' = changes
FitAt(pc) == encodeJob.pc = pc
\* A step that raises: the primary error, and the clean-up that follows.
FitFails(why) == FitGoes([encodeJob EXCEPT !.pc = "cleanup", !.error = why])
\* _raise_if_fit_cancelled, at the start of every step but the last.
StopsIfCancelled == encodeJob.cancelled /\ FitFails("cancelled")
Proceeds == ~encodeJob.cancelled

\* _cleanup_file and _cleanup_tree: what they remove is gone, or the removal fails.
Removal(what, removed) ==
    IF removed THEN remains' = remains \ what /\ UNCHANGED cannotRemove
    ELSE remains' = remains /\ cannotRemove' = TRUE

\* _validate_frame_inputs: identities of the files are noted; then the sibling
\* temporary of the direct encoding, or the scratch directory of the fit.
CheckInputs ==
    /\ FitAt("inputs")
    /\ \/ StopsIfCancelled \/ FitFails("invalid")
       \/ Proceeds /\ FitGoes([encodeJob EXCEPT !.pc = IF encodeJob.limit = NoLimit THEN "encode" ELSE "snapshot"])
    /\ rewritten' = {}
    /\ remains' = IF encodeJob'.pc = "snapshot" THEN remains \cup {"snapshot"} ELSE remains
    /\ UNCHANGED <<candidates, snapshot, outputFile, cannotRemove>>

\* _open_stable_binary, compared with the identity that was noted.
IsStable(i) == i \notin rewritten

\* Mutant: a frame file is copied without comparing its identity.
SnapshotUnchecked ==
    /\ FitAt("snapshot")
    /\ LET i == Len(snapshot) + 1
       IN  /\ snapshot' = Append(snapshot, IsStable(i))
           /\ FitGoes([encodeJob EXCEPT !.pc = IF i = Len(encodeJob.frames) THEN "encode" ELSE "snapshot"])
    /\ UNCHANGED <<candidates, rewritten, outputFile, remains, cannotRemove>>

\* _snapshot_frame_set, one file at a time: _open_stable_binary refuses a file that is
\* not the one that was checked.
SnapshotFrame ==
    /\ FitAt("snapshot")
    /\ LET i == Len(snapshot) + 1
       IN  \/ (StopsIfCancelled \/ FitFails("io")) /\ UNCHANGED snapshot
           \/ /\ Proceeds /\ ~IsStable(i)
              /\ FitFails("changed") /\ UNCHANGED snapshot
           \/ /\ Proceeds /\ IsStable(i)
              /\ snapshot' = Append(snapshot, TRUE)
              /\ FitGoes([encodeJob EXCEPT !.pc = IF i = Len(encodeJob.frames) THEN "encode" ELSE "snapshot"])
    /\ UNCHANGED <<candidates, rewritten, outputFile, remains, cannotRemove>>

\* encode_lossless_webp up to the comparison of the pixels: into the sibling temporary of
\* the destination, or as a candidate of the fit.  A direct encoding reads the files
\* themselves, each of which must still be the one that was checked.
EncodeLossless(weight) ==
    /\ FitAt("encode")
    /\ \/ StopsIfCancelled /\ UNCHANGED candidates
       \/ FitFails("io") /\ UNCHANGED candidates
       \/ /\ encodeJob.limit = NoLimit /\ rewritten # {}
          /\ FitFails("changed") /\ UNCHANGED candidates
       \/ /\ Proceeds /\ ~Accepted(FramesNow)
          /\ FitFails("rejected") /\ UNCHANGED candidates
       \/ /\ Proceeds /\ Accepted(FramesNow) /\ (encodeJob.limit # NoLimit \/ rewritten = {})
          /\ candidates' = Append(candidates, [size |-> encodeJob.size, weight |-> weight, resized |-> encodeJob.resized])
          /\ FitGoes([encodeJob EXCEPT !.pc = IF encodeJob.limit = NoLimit THEN "replace" ELSE "judge"])
    /\ remains' = remains \cup {IF encodeJob.limit = NoLimit THEN "sibling" ELSE "candidate"}
    /\ UNCHANGED <<snapshot, rewritten, outputFile, cannotRemove>>

\* solve_proportional_scale with the smallest scale that keeps both sides at the minimum.
SmallestScale ==
    LET w == encodeJob.source[1]
        h == encodeJob.source[2]
        Up(n, d) == (n + d - 1) \div d
    IN  Max({Up(MinDimension * ScaleUnit, w), Up(MinDimension * ScaleUnit, h)})
\* _scaled_dimensions: rounded half up.
ScaledSide(n, scale) == (2 * n * scale + ScaleUnit) \div (2 * ScaleUnit)
ScaledSize(scale) == <<ScaledSide(encodeJob.source[1], scale), ScaledSide(encodeJob.source[2], scale)>>

\* Mutant: the next frames are resized from the last ones.
ResizedFromLast == encodeJob.resized + 1
\* _resize_from_sources: always from the copies of the frames as they were framed.
ResizedFromSources == 1

Smallest == <<MinDimension, MinDimension>>

\* Mutant: the loop stops before it encodes the smallest size.
StopsBeforeSmallest(scale, size) == scale >= ScaleUnit \/ size[1] = MinDimension \/ size[2] = MinDimension

\* Where the loop gives up: the scale does not shrink, or the smallest size was encoded.
CannotShrink(scale, size) == scale >= ScaleUnit \/ (size = Smallest /\ Last(candidates).size = size)

\* fit_webp_to_size after an encode that is too large: no encode is left, or the scale
\* cannot shrink, or both sides are at the minimum; else the candidate and the last
\* resized frames are removed and the frames resized anew.  Resizing may make
\* different pictures equal.
ShrinkFrames ==
    LET last == Last(candidates) IN
    /\ FitAt("judge") /\ last.weight > encodeJob.limit
    /\ \/ StopsIfCancelled /\ UNCHANGED <<remains, cannotRemove>>
       \/ /\ Proceeds /\ Len(candidates) = MaxFitEncodings
          /\ FitFails("impossible") /\ UNCHANGED <<remains, cannotRemove>>
       \/ /\ Proceeds /\ Len(candidates) < MaxFitEncodings
          /\ \E stepped \in 1..encodeJob.scale - 1 :
                LET scale == Max({SmallestScale, stepped})
                    size == ScaledSize(scale)
                IN  IF CannotShrink(scale, size)
                    THEN FitFails("impossible") /\ UNCHANGED <<remains, cannotRemove>>
                    ELSE \/ /\ FitFails("io") /\ Removal({"candidate", "scaled"}, FALSE)
                         \/ /\ \E blurred \in {encodeJob.blurred, TRUE} :
                                  FitGoes([encodeJob EXCEPT !.pc = "encode", !.scale = scale, !.size = size,
                                            !.resized = ResizedFromSources, !.blurred = blurred])
                            /\ remains' = (remains \ {"candidate"}) \cup {"scaled"}
                            /\ UNCHANGED cannotRemove
    /\ UNCHANGED <<candidates, snapshot, rewritten, outputFile>>

\* _prepare_candidate: the candidate is copied beside the destination and read back there.
PrepareCandidate ==
    /\ FitAt("judge") /\ Last(candidates).weight <= encodeJob.limit
    /\ \/ StopsIfCancelled /\ UNCHANGED <<remains, cannotRemove>>
       \/ /\ Proceeds /\ FitGoes([encodeJob EXCEPT !.pc = "tidy"])
          /\ remains' = remains \cup {"sibling"} /\ UNCHANGED cannotRemove
       \/ /\ Proceeds /\ FitFails("io")
          /\ UNCHANGED remains /\ UNCHANGED cannotRemove
       \/ /\ Proceeds /\ FitFails("io")
          /\ remains' = remains \cup {"sibling"} /\ cannotRemove' = TRUE
    /\ UNCHANGED <<candidates, snapshot, rewritten, outputFile>>

\* The scratch directory goes before the rename, so that a failure to remove it is an
\* error with the destination as it was.
TidyScratch ==
    /\ FitAt("tidy")
    /\ \/ StopsIfCancelled /\ UNCHANGED <<remains, cannotRemove>>
       \/ /\ Proceeds /\ FitGoes([encodeJob EXCEPT !.pc = "replace"])
          /\ Removal({"snapshot", "candidate", "scaled"}, TRUE)
       \/ /\ Proceeds /\ FitFails("io")
          /\ Removal({"snapshot", "candidate", "scaled"}, FALSE)
    /\ UNCHANGED <<candidates, snapshot, rewritten, outputFile>>

\* os.replace, the one step that touches the destination.
ReplaceOutput ==
    /\ FitAt("replace")
    /\ \/ /\ outputFile' = [chunks |-> EncodedFile(FramesNow).chunks, size |-> Last(candidates).size,
                            weight |-> Last(candidates).weight, resized |-> Last(candidates).resized,
                            verified |-> Accepted(FramesNow) /\ \A i \in DOMAIN snapshot : snapshot[i]]
          /\ remains' = remains \ {"sibling"}
          /\ FitGoes([encodeJob EXCEPT !.pc = "confirm"])
       \/ FitFails("io") /\ UNCHANGED <<outputFile, remains>>
    /\ UNCHANGED <<candidates, snapshot, rewritten, cannotRemove>>

\* auto_fit_webp and PillowWebPEncoder.encode: the caller reads the file once more and
\* asks whether the job was cancelled; the file stays for the job to remove.
ConfirmOutput ==
    /\ FitAt("confirm")
    /\ \E why \in {"none", "invalid"} :
          FitGoes([encodeJob EXCEPT !.pc = "ended", !.error = IF encodeJob.cancelled THEN "cancelled" ELSE why])
    /\ UNCHANGED <<candidates, snapshot, rewritten, outputFile, remains, cannotRemove>>

\* Mutant: the copy beside the destination stays when the job fails.
CleanUpScratchOnly ==
    /\ FitAt("cleanup") /\ FitGoes([encodeJob EXCEPT !.pc = "ended"])
    /\ \E removed \in BOOLEAN : Removal({"snapshot", "candidate", "scaled"}, removed)
    /\ UNCHANGED <<candidates, snapshot, rewritten, outputFile>>

\* The finally blocks: a failure to remove is noted on the error there is.
CleanUp ==
    /\ FitAt("cleanup") /\ FitGoes([encodeJob EXCEPT !.pc = "ended"])
    /\ \E removed \in BOOLEAN : Removal({"sibling", "snapshot", "candidate", "scaled"}, removed)
    /\ UNCHANGED <<candidates, snapshot, rewritten, outputFile>>

\* The user cancels; another program rewrites a frame's file.
CancelEncoding ==
    /\ ~encodeJob.cancelled /\ ~FitAt("ended") /\ FitGoes([encodeJob EXCEPT !.cancelled = TRUE])
    /\ UNCHANGED <<candidates, snapshot, rewritten, outputFile, remains, cannotRemove>>
RewriteFrame(i) ==
    /\ FitAt("snapshot") \/ FitAt("encode")
    /\ i \notin rewritten /\ rewritten' = rewritten \cup {i}
    /\ UNCHANGED <<encodeJob, candidates, snapshot, outputFile, remains, cannotRemove>>

---------------------------------------------------------------------------
WebPInit ==
    /\ \E fs \in FrameInputs, size \in CanvasSizes, limit \in ByteLimits :
          encodeJob = [frames |-> fs, source |-> size, size |-> size, scale |-> ScaleUnit, resized |-> 0,
                       blurred |-> FALSE, limit |-> limit, pc |-> "inputs", error |-> "none", cancelled |-> FALSE]
    /\ candidates = << >> /\ snapshot = << >> /\ rewritten = {}
    /\ outputFile = OldOutput /\ remains = {} /\ cannotRemove = FALSE

WebPNext ==
    \/ CheckInputs
    \/ SnapshotFrame
    \/ \E weight \in Weights : EncodeLossless(weight)
    \/ ShrinkFrames
    \/ PrepareCandidate
    \/ TidyScratch
    \/ ReplaceOutput
    \/ ConfirmOutput
    \/ CleanUp
    \/ CancelEncoding
    \/ \E i \in DOMAIN encodeJob.frames : RewriteFrame(i)

WebPSpec == WebPInit /\ [][WebPNext]_webpVars

---------------------------------------------------------------------------
(* Types of the job, its candidates and what it leaves.                    *)
WebPTypeOK ==
    /\ encodeJob.pc \in {"inputs", "snapshot", "encode", "judge", "tidy", "replace", "confirm", "cleanup", "ended"}
    /\ encodeJob.error \in {"none", "invalid", "io", "changed", "rejected", "impossible", "cancelled"}
    /\ encodeJob.scale \in 1..ScaleUnit /\ encodeJob.resized \in {0, 1}
    /\ Len(candidates) <= MaxFitEncodings
    /\ remains \subseteq {"snapshot", "candidate", "scaled", "sibling"}

(* What is renamed into place was encoded from the frames that were        *)
(* checked, resized at most once, no smaller than the minimum and no       *)
(* larger than the limit.                                                  *)
OutputIsTheFittedInput ==
    outputFile # OldOutput =>
        /\ outputFile.verified /\ outputFile.resized <= 1
        /\ encodeJob.limit # NoLimit => outputFile.weight <= encodeJob.limit
        /\ outputFile.size[1] >= MinDimension /\ outputFile.size[2] >= MinDimension

(* The animation shows, at every millisecond, what the frames show, for    *)
(* all that runs of equal pictures are merged and delays split; where      *)
(* resizing made the pictures equal it still lasts as long.                *)
AnimationKeepsItsTiming ==
    (outputFile # OldOutput /\ Len(encodeJob.frames) > 1) => Seen(outputFile.chunks) = Seen(FramesNow)

(* The encoder's own reading of its file never refuses it: a job fails for *)
(* what happens to its files, the limit or the user, not for its frames.   *)
OwnEncodingIsAccepted == encodeJob.error # "rejected"

(* A job whose frames changed, or cannot be fitted, leaves the            *)
(* destination as it was; a job that reports no error has written it; and  *)
(* no job leaves a temporary, unless one could not be removed.             *)
FailedFitLeavesNothing ==
    FitAt("ended") =>
        /\ encodeJob.error \in {"changed", "rejected", "impossible"} => outputFile = OldOutput
        /\ encodeJob.error = "none" => outputFile # OldOutput
        /\ remains = {} \/ cannotRemove

(* A size is called impossible when the encodes are used up or the frames  *)
(* cannot get smaller.                                                     *)
ImpossibleIsEarned ==
    encodeJob.error = "impossible" =>
        \/ Len(candidates) = MaxFitEncodings
        \/ encodeJob.size[1] = MinDimension \/ encodeJob.size[2] = MinDimension

\* What the fit writes is what it was given, as long and within the limit, and
\* what it refuses or leaves it has reason to.
WebPFitCorrect ==
    /\ WebPTypeOK
    /\ OutputIsTheFittedInput
    /\ AnimationKeepsItsTiming
    /\ OwnEncodingIsAccepted
    /\ FailedFitLeavesNothing
    /\ ImpossibleIsEarned
=============================================================================
