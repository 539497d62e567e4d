------------------------------ MODULE Timeline -------------------------------
(***************************************************************************)
(* The export range, the playhead and the exact frame of the playhead:     *)
(* TimelineState and its events (core/timeline.py, core/                   *)
(* timeline_reducer.py, the rate in core/parameters.py), the widget that   *)
(* sends the events (ui/timeline.py) and the controller that decodes the   *)
(* playhead's frame on a worker of its own after a quiet period            *)
(* (ui/controller.py).  Timestamps are integers, Second of them a second;  *)
(* an output rate is written as the interval between two of its frames.    *)
(***************************************************************************)
EXTENDS Integers, FiniteSets, FiniteSetsExt

CONSTANTS Clips,       \* the videos that can be opened
          ClipLength,  \* [Clips -> timestamps]: Fraction duration of the metadata
          SourceFrame, \* source_frame_interval
          Second, OutputRates, DefaultRate,  \* output rates, in frames a second
          MaxRate,     \* the highest rate TimelineState takes
          MaxTimelineLoads, MaxTimelineEdits

ASSUME TimelineAssumption ==
    /\ ClipLength \in [Clips -> Nat \ {0}]
    /\ {SourceFrame, Second} \subseteq Nat \ {0} /\ {MaxTimelineLoads, MaxTimelineEdits} \subseteq Nat
    /\ MaxRate \in 1..Second /\ OutputRates \subseteq 1..MaxRate /\ DefaultRate \in OutputRates
    /\ \A r \in OutputRates : Second % r = 0

VARIABLES
    load,        \* the source: none, or its id, clip and phase
    timeline,    \* the TimelineState, or NoTimeline: a clip may be too short for one
    rate,        \* parameters.fps
    sourceFrame, \* the frame shown: where it was decoded, and for which generation
    frameTimer,  \* whether the quiet-period timer runs
    decoders,    \* the source frame workers, with the results they posted
    missed,      \* history: the source and generation whose frame could not be decoded
    jobRuns,     \* whether a job locks the editor
    timelineEdits

timelineVars == <<load, timeline, rate, sourceFrame, frameTimer, decoders, missed, jobRuns, timelineEdits>>

NoLoad == [id |-> 0, clip |-> "none", phase |-> "empty"]
NoTimeline == [length |-> 0, start |-> 0, end |-> 0, playhead |-> 0, rate |-> 0, generation |-> 0]
NoFrame == [id |-> 0, generation |-> 0, at |-> 0]
Interval(r) == Second \div r
Clamped(v, low, high) == Min({Max({v, low}), high})

---------------------------------------------------------------------------
(* core/timeline.py *)

\* TimelineState.__post_init__: whether the values make a TimelineState.
Constructible(t) ==
    /\ t.length > 0 /\ 0 <= t.start /\ t.start < t.end /\ t.end <= t.length
    /\ 0 <= t.playhead /\ t.playhead <= t.length /\ t.rate \in 1..MaxRate
    /\ t.end - t.start >= Interval(t.rate)

LastFrameOf(t) == Max({0, t.length - SourceFrame})

MovePlayhead(t, at) ==
    [t EXCEPT !.playhead = Clamped(at, 0, LastFrameOf(t)), !.generation = @ + 1]

\* Mutant: the start may be moved up to the end of the range.
SetStartToEnd(t, at) == [t EXCEPT !.start = Clamped(at, 0, t.end)]

SetStart(t, at) == [t EXCEPT !.start = Clamped(at, 0, t.end - Interval(t.rate))]
SetEnd(t, at) == [t EXCEPT !.end = Clamped(at, t.start + Interval(t.rate), t.length)]

\* timeline_from_metadata: the rate is raised where the clip is shorter than one frame
\* of it, and where it would have to be raised above MaxRate there is no timeline.
TimelineOf(clip, requested) ==
    LET length == ClipLength[clip]
        raised == CHOOSE r \in 1..Second : r * length >= Second /\ (r - 1) * length < Second
    IN  IF length < Interval(requested) /\ raised > MaxRate THEN NoTimeline
        ELSE [length |-> length, start |-> 0, end |-> length, playhead |-> 0, generation |-> 0,
              rate |-> IF length < Interval(requested) THEN raised ELSE requested]

Stamps == UNION {0..ClipLength[c] : c \in Clips}
EditorEvents ==
    [kind : {"playhead", "start", "end", "length"}, at : Stamps] \cup
    [kind : {"step"}, at : {-1, 1}] \cup
    [kind : {"start_here", "end_here", "reset"}, at : {0}]

\* update_timeline: what the event makes of the timeline; the timeline itself where
\* the operation raises ValueError.
UpdateTimeline(t, e) ==
    CASE e.kind = "playhead" -> MovePlayhead(t, e.at)
      [] e.kind = "step" -> MovePlayhead(t, t.playhead + e.at * SourceFrame)
      [] e.kind = "start" -> SetStart(t, e.at)
      [] e.kind = "end" -> SetEnd(t, e.at)
      [] e.kind = "length" ->
            LET end == Min({t.length, t.start + e.at})
            IN  IF e.at > 0 /\ end - t.start >= Interval(t.rate) THEN [t EXCEPT !.end = end] ELSE t
      [] e.kind = "start_here" -> SetStart(t, t.playhead)
      [] e.kind = "end_here" -> SetEnd(t, t.playhead)
      [] e.kind = "reset" -> [t EXCEPT !.start = 0, !.end = t.length]

\* An event that moves nothing leaves the state, and its generation, as they are.
Moves(t, u) == u.playhead # t.playhead \/ u.start # t.start \/ u.end # t.end

---------------------------------------------------------------------------
(* The worker of the playhead's frame *)

CancelFrameThreads == {[w EXCEPT !.cancelled = TRUE] : w \in decoders}

Decoder(t) ==
    [id |-> load.id, generation |-> t.generation, at |-> t.playhead, cancelled |-> FALSE, posted |-> FALSE]

\* Mutant: the frame is not decoded while a job runs.
DecodeUnlessLocked(t) ==
    IF load.phase = "ready" /\ t # NoTimeline /\ ~jobRuns
    THEN CancelFrameThreads \cup {Decoder(t)} ELSE decoders

\* _decode_current_playhead: supersedes the workers that are still at it.
DecodeCurrentPlayhead(t) ==
    IF load.phase = "ready" /\ t # NoTimeline THEN CancelFrameThreads \cup {Decoder(t)} ELSE decoders

\* SourceFrameWorker.run: decode_frame checks for an interruption, and every failure is silent.
DecodeSourceFrame(w) ==
    /\ ~w.posted
    /\ \/ /\ decoders' = (decoders \ {w}) \cup {[w EXCEPT !.posted = TRUE]}
          /\ UNCHANGED missed
       \/ /\ decoders' = decoders \ {w}
          /\ missed' = IF w.cancelled THEN missed ELSE [id |-> w.id, generation |-> w.generation]
    /\ UNCHANGED <<load, timeline, rate, sourceFrame, frameTimer, jobRuns, timelineEdits>>

\* Mutant: a frame is shown whatever the playhead's generation is by now.
FrameDecodedAnyGeneration(w) ==
    /\ w.posted
    /\ decoders' = decoders \ {w}
    /\ sourceFrame' = IF load.phase = "ready" /\ load.id = w.id /\ timeline # NoTimeline
                      THEN [id |-> w.id, generation |-> w.generation, at |-> w.at]
                      ELSE sourceFrame
    /\ UNCHANGED <<load, timeline, rate, frameTimer, missed, jobRuns, timelineEdits>>

\* _frame_decoded, and the SourceFrameDecoded of the reducer.
FrameDecoded(w) ==
    /\ w.posted
    /\ decoders' = decoders \ {w}
    /\ sourceFrame' = IF /\ load.phase = "ready" /\ load.id = w.id
                         /\ timeline # NoTimeline /\ timeline.generation = w.generation
                      THEN [id |-> w.id, generation |-> w.generation, at |-> w.at]
                      ELSE sourceFrame
    /\ UNCHANGED <<load, timeline, rate, frameTimer, missed, jobRuns, timelineEdits>>

\* The quiet period ends.
FrameTimeout ==
    /\ frameTimer /\ frameTimer' = FALSE
    /\ decoders' = DecodeCurrentPlayhead(timeline)
    /\ UNCHANGED <<load, timeline, rate, sourceFrame, missed, jobRuns, timelineEdits>>

---------------------------------------------------------------------------
(* Loading a source *)

\* Mutant: the timeline of the source that is replaced stays until the new one is read.
StartLoadOverTimeline(clip) ==
    /\ load.id < MaxTimelineLoads /\ ~jobRuns
    /\ frameTimer' = FALSE /\ decoders' = CancelFrameThreads
    /\ load' = [id |-> load.id + 1, clip |-> clip, phase |-> "loading"]
    /\ sourceFrame' = NoFrame
    /\ UNCHANGED <<timeline, rate, missed, jobRuns, timelineEdits>>

\* _start_load; the reducer refuses while a job runs.
StartSourceLoad(clip) ==
    /\ load.id < MaxTimelineLoads /\ ~jobRuns
    /\ frameTimer' = FALSE /\ decoders' = CancelFrameThreads
    /\ load' = [id |-> load.id + 1, clip |-> clip, phase |-> "loading"]
    /\ timeline' = NoTimeline /\ sourceFrame' = NoFrame
    /\ UNCHANGED <<rate, missed, jobRuns, timelineEdits>>

\* The load worker's answer for the request the state waits for; the first frame
\* comes with the metadata.  A later request's answer is dropped by its ids.
SourceAnswers ==
    /\ load.phase = "loading"
    /\ \/ /\ load' = [load EXCEPT !.phase = "ready"]
          /\ timeline' = TimelineOf(load.clip, rate)
          /\ sourceFrame' = [id |-> load.id, generation |-> 0, at |-> 0]
       \/ /\ load' = [load EXCEPT !.phase = "error"]
          /\ UNCHANGED <<timeline, sourceFrame>>
    /\ UNCHANGED <<rate, frameTimer, decoders, missed, jobRuns, timelineEdits>>

---------------------------------------------------------------------------
(* Editing *)

CanEdit == load.phase = "ready" /\ ~jobRuns

\* The event a handle or a place of the widget sends at a timestamp: _emit_position.
PointerEvent(target, at) ==
    [kind |-> CASE target = "start_handle" -> "start" [] target = "end_handle" -> "end" [] OTHER -> "playhead",
     at |-> at]

\* _dispatch_timeline and reduce_timeline.
EditTimeline(e) ==
    /\ CanEdit /\ timeline # NoTimeline /\ timelineEdits < MaxTimelineEdits
    /\ LET updated == UpdateTimeline(timeline, e)
       IN  /\ Moves(timeline, updated)
           /\ timeline' = updated
           /\ CASE e.kind = "step" ->
                     /\ frameTimer' = FALSE /\ decoders' = DecodeCurrentPlayhead(updated)
                [] e.kind = "playhead" ->
                     /\ frameTimer' = TRUE /\ decoders' = CancelFrameThreads
                [] OTHER -> UNCHANGED <<frameTimer, decoders>>
    /\ timelineEdits' = timelineEdits + 1
    /\ UNCHANGED <<load, rate, sourceFrame, missed, jobRuns>>

\* mousePressEvent, mouseMoveEvent and the keys and buttons of the widget.
UseTimeline ==
    \/ \E target \in {"start_handle", "end_handle", "playhead", "range", "timeline"}, at \in Stamps :
          EditTimeline(PointerEvent(target, at))
    \/ \E e \in {x \in EditorEvents : x.kind \notin {"start", "end", "playhead"}} : EditTimeline(e)

\* set_fps: refused where the range has no frame of the rate; without a timeline
\* nothing refuses a rate.
TakesRate(r) == timeline = NoTimeline \/ timeline.end - timeline.start >= Interval(r)
AtRate(r) == IF timeline = NoTimeline THEN timeline ELSE [timeline EXCEPT !.rate = r]

\* _reduce_fps.
ChangeRate(r) ==
    /\ CanEdit /\ timelineEdits < MaxTimelineEdits
    /\ TakesRate(r)
    /\ r # rate \/ AtRate(r) # timeline
    /\ rate' = r /\ timeline' = AtRate(r)
    /\ timelineEdits' = timelineEdits + 1
    /\ UNCHANGED <<load, sourceFrame, frameTimer, decoders, missed, jobRuns>>

\* Mutant: the default rate goes to the parameters though the range cannot take it.
ResetRateAnyway ==
    /\ CanEdit /\ timelineEdits < MaxTimelineEdits
    /\ rate' = DefaultRate
    /\ timeline' = IF TakesRate(DefaultRate) THEN AtRate(DefaultRate) ELSE timeline
    /\ timelineEdits' = timelineEdits + 1
    /\ UNCHANGED <<load, sourceFrame, frameTimer, decoders, missed, jobRuns>>

\* _reduce_parameters_reset: a range the default rate has no frame in keeps its rate.
ResetRate ==
    /\ CanEdit /\ timelineEdits < MaxTimelineEdits
    /\ rate # DefaultRate \/ AtRate(DefaultRate) # timeline
    /\ rate' = IF timeline.rate = DefaultRate \/ TakesRate(DefaultRate) THEN DefaultRate ELSE timeline.rate
    /\ timeline' = IF TakesRate(DefaultRate) THEN AtRate(DefaultRate) ELSE timeline
    /\ timelineEdits' = timelineEdits + 1
    /\ UNCHANGED <<load, sourceFrame, frameTimer, decoders, missed, jobRuns>>

\* A job starts or ends: the reducer's lock.
LockEditor ==
    /\ load.phase = "ready" /\ jobRuns' = ~jobRuns
    /\ UNCHANGED <<load, timeline, rate, sourceFrame, frameTimer, decoders, missed, timelineEdits>>

---------------------------------------------------------------------------
TimelineInit ==
    /\ load = NoLoad /\ timeline = NoTimeline /\ rate \in OutputRates /\ sourceFrame = NoFrame
    /\ frameTimer = FALSE /\ decoders = {} /\ missed = [id |-> 0, generation |-> 0]
    /\ jobRuns = FALSE /\ timelineEdits = 0

TimelineNext ==
    \/ \E clip \in Clips : StartSourceLoad(clip)
    \/ SourceAnswers
    \/ UseTimeline
    \/ \E r \in OutputRates : ChangeRate(r)
    \/ ResetRate
    \/ LockEditor
    \/ FrameTimeout
    \/ \E w \in decoders : DecodeSourceFrame(w)
    \/ \E w \in decoders : FrameDecoded(w)

TimelineSpec == TimelineInit /\ [][TimelineNext]_timelineVars

---------------------------------------------------------------------------
(* Types of the timeline, the frame and the workers; only a loaded source *)
(* has a timeline.                                                         *)
TimelineTypeOK ==
    /\ load \in [id : 0..MaxTimelineLoads, clip : Clips \cup {"none"}, phase : {"empty", "loading", "ready", "error"}]
    /\ timeline.rate \in 0..MaxRate /\ (timeline # NoTimeline => load.phase = "ready")
    /\ rate \in 1..MaxRate
    /\ sourceFrame.id \in 0..load.id /\ sourceFrame.generation \in Nat
    /\ \A w \in decoders : w.id \in 1..load.id /\ {w.cancelled, w.posted} \subseteq BOOLEAN
    /\ {frameTimer, jobRuns} \subseteq BOOLEAN

(* No sequence of edits of the range, the playhead and the rate (drags,    *)
(* buttons, typed durations, a reset of the parameters) builds values that *)
(* TimelineState refuses: the range keeps an output frame of the shown     *)
(* rate and the playhead stands on a frame of the source.                  *)
RangeKeepsAFrame ==
    timeline # NoTimeline => Constructible(timeline) /\ timeline.playhead <= LastFrameOf(timeline)

(* A frame of an older playhead never replaces that of a newer one, though *)
(* superseded workers post what they decoded and cancelling them is only   *)
(* asked for.                                                              *)
OlderFrameNeverReturns ==
    [][sourceFrame'.id = sourceFrame.id => sourceFrame'.generation >= sourceFrame.generation]_timelineVars

(* Once no quiet period runs and no worker is left, the shown frame is the *)
(* playhead's, unless its decoding failed: no debounced, cancelled or      *)
(* overtaken request leaves an older frame standing beside the new         *)
(* position.                                                               *)
SettledFrameIsThePlayheads ==
    (load.phase = "ready" /\ timeline # NoTimeline /\ ~frameTimer /\ decoders = {}) =>
        \/ sourceFrame.id = load.id /\ sourceFrame.at = timeline.playhead
        \/ missed = [id |-> load.id, generation |-> timeline.generation]

(* The rate the settings show, the timeline's, is the rate requests are    *)
(* built with, the parameters', on every clip that has a frame of each     *)
(* rate; a reset that cannot have the default rate keeps both as they were.*)
RatesAgree ==
    (timeline # NoTimeline /\ \A r \in OutputRates : timeline.length >= Interval(r)) => timeline.rate = rate

\* Whatever the user edits while frames are decoded, the timeline can be
\* built, its rate is the one that is used, and the frame is the playhead's.
TimelineCorrect ==
    /\ [](/\ TimelineTypeOK
          /\ RangeKeepsAFrame
          /\ SettledFrameIsThePlayheads
          /\ RatesAgree)
    /\ OlderFrameNeverReturns
=============================================================================
