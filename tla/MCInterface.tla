---------------------------- MODULE MCInterface ----------------------------
(* The dialogs and widgets that decode beside the GUI thread, for TLC: they *)
(* share no state with one another, so a behaviour chooses one of them at   *)
(* the start, and only that one steps.                                      *)
EXTENDS UpdateFlow, Playback, ResultStage, CropEditor, Timeline,
        Filmstrip, WebPFit, ExecutionProviders, TLC

VARIABLE component

---------------------------------------------------------------------------
(* Values of the constants *)

\* Playback: the whole video, and half of its last frame.
MCWindows == {<<0, 4>>, <<3, 4>>}
MCMarks == {0, 3, 4}

\* ResultStage: a cut of three frames and one of two.
MCFrameTotal == [c \in {1, 2} |-> IF c = 1 THEN 3 ELSE 2]
MCKeeps == {<<0, 9>>, <<1, 2>>}

\* CropEditor.
MCCropVideos == {<<3, 2>>, <<2, 2>>}
MCAlphaBoxes == {<<0, 0, 1, 1>>, <<1, 1, 2, 2>>}
MCFramingSpecs == {[trim |-> trim, padding |-> 0, stretch |-> <<1, 1>>] : trim \in BOOLEAN}
MCRatios == {<<1, 1>>, <<2, 1>>}
MCResizes == {[width |-> 2, height |-> 3, mismatch |-> "cover"], [width |-> 2, height |-> 3, mismatch |-> "pad"],
              [width |-> 2, height |-> 0, mismatch |-> "keep"]}
MCPointers == {<<0, 0>>, <<-3, 1>>, <<2, -1>>, <<1, 2>>}

\* Timeline: a video of five frames, one that needs a raised rate, and one too short for any.
MCClipLength == [c \in {"long", "tiny", "blink"} |-> CASE c = "long" -> 5 [] c = "tiny" -> 3 [] c = "blink" -> 1]

\* Filmstrip: one tile, or two of half the cost.
MCLayouts == {[count |-> 1, cost |-> 2], [count |-> 2, cost |-> 1]}

\* WebPFit: one to three frames, alike or not.
Picture(p, d) == [pixels |-> p, delay |-> d]
MCFrameInputs == {<<Picture("p", 2)>>, <<Picture("p", 1), Picture("q", 2)>>, <<Picture("p", 2), Picture("p", 2)>>,
                  <<Picture("p", 1), Picture("p", 2), Picture("q", 2)>>, <<Picture("p", 1), Picture("q", 1), Picture("p", 2)>>}
MCCanvasSizes == {<<4, 4>>, <<2, 4>>, <<3, 6>>}

---------------------------------------------------------------------------
(* One component at a time *)

Components == {"updates", "playback", "result", "crop", "timeline", "filmstrip", "webp", "providers"}

\* A component that was not chosen starts in one of its states.
Waits(c, start) == component # c => start

InterfaceInit ==
    /\ component \in Components
    /\ UpdateInit
    /\ PlaybackInit
    /\ ResultStageInit /\ Waits("result", asked.framing = 1)
    /\ CropEditorInit /\ Waits("crop", canvas.kind = "source" /\ canvas.rotation = 0 /\ wanted.video = <<2, 2>> /\ wanted.framing.trim)
    /\ TimelineInit /\ Waits("timeline", rate = DefaultRate)
    /\ FilmInit /\ Waits("filmstrip", film.layout.count = 1)
    /\ WebPInit /\ Waits("webp", Len(encodeJob.frames) = 1 /\ encodeJob.source = <<4, 4>> /\ encodeJob.limit = NoLimit)
    /\ ProvidersInit /\ Waits("providers", offered = {Cpu} /\ picked.selected = Cpu)

Waiting(c, state) == component # c => UNCHANGED state
OthersWait ==
    /\ Waiting("updates", updateVars)
    /\ Waiting("playback", playbackVars)
    /\ Waiting("result", stageVars)
    /\ Waiting("crop", cropVars)
    /\ Waiting("timeline", timelineVars)
    /\ Waiting("filmstrip", filmVars)
    /\ Waiting("webp", webpVars)
    /\ Waiting("providers", providerVars)
    /\ UNCHANGED component

\* Bound: others change the weights, or the user picks another provider.
OneTrouble == spent'.tampers + spent'.picks <= 1

\* Bound: a start has one check more than the starts before it at most.  The last
\* start can have all of them, after a first one in which nothing happened.
ChecksOfStart == checks' <= starts'

\* Bound: three edits of one source, or two and another source.
FewEdits == load'.id + timelineEdits' <= 4

\* Bound: the source is rewritten, or a worker has no cache.
OneFault == sourceOnDisk' = 1 \/ \A g \in DOMAIN batches' : batches'[g].phase = "start" \/ batches'[g].cached

InterfaceNext ==
    \/ component = "updates" /\ UpdateNext /\ ChecksOfStart /\ OthersWait
    \/ component = "playback" /\ PlaybackNext /\ OthersWait
    \/ component = "result" /\ ResultStageNext /\ OthersWait
    \/ component = "crop" /\ CropEditorNext /\ OthersWait
    \/ component = "timeline" /\ TimelineNext /\ FewEdits /\ OthersWait
    \/ component = "filmstrip" /\ FilmNext /\ OneFault /\ OthersWait
    \/ component = "webp" /\ WebPNext /\ OthersWait
    \/ component = "providers" /\ ProvidersNext /\ OneTrouble /\ OthersWait

interfaceVars == <<component, updateVars, playbackVars, stageVars, cropVars, timelineVars, filmVars, webpVars,
                   providerVars>>

InterfaceSpec == InterfaceInit /\ [][InterfaceNext]_interfaceVars
===========================================================================
