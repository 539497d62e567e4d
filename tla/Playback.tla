------------------------------ MODULE Playback ------------------------------
(***************************************************************************)
(* ui/playback_controller.py and jobs/playback.py: the source video is     *)
(* played by a worker thread per play session, which decodes, paces and    *)
(* leaves frames in a mailbox of one slot; the GUI thread takes them, holds *)
(* them on the canvas and the timeline, and on a stop commits the position *)
(* and keeps the last frame until the still of that position is decoded.   *)
(*                                                                         *)
(* Times are half frames: a video of FrameCount frames has a frame at      *)
(* every even time below 2 * FrameCount.                                   *)
(***************************************************************************)
EXTENDS Naturals, FiniteSets

CONSTANTS FrameCount, MaxPlays, MaxLate, MaxPlaybackEdits, Windows, Marks

ASSUME PlaybackAssumption ==
    /\ FrameCount \in Nat \ {0} /\ {MaxPlays, MaxLate, MaxPlaybackEdits} \subseteq Nat
    /\ Marks \subseteq 0..(2 * FrameCount) /\ Windows \subseteq Marks \X Marks
    /\ \A w \in Windows : w[1] < w[2]

VARIABLES
    shown,   \* the reducer's state: the video, whether it is ready, the job, the timeline
    player,  \* the SourcePlaybackController
    held,    \* what the canvas holds: the session of a live frame, 0 for none
    plays,   \* session -> its worker
    mailbox, \* session -> the frame in its slot, Nothing for none
    sent,    \* session -> what its worker has emitted and the GUI not yet handled
    edits    \* the user's steps, to bound them

playbackVars == <<shown, player, held, plays, mailbox, sent, edits>>

Nothing == 2 * FrameCount + 1
Everything == <<Nothing, Nothing>>     \* no window: `range` is None
Sessions == 1..MaxPlays
Videos == 1..2
FrameTimes == {2 * i : i \in 0..(FrameCount - 1)}
LatestPosition == 2 * (FrameCount - 1)

\* _frames_from: the frame that owns the target comes first.
OwnerOf(target) == CHOOSE f \in FrameTimes \cup {0} : f <= target /\ \A g \in FrameTimes : g <= target => g <= f
FrameAfter(frame) == IF frame + 2 \in FrameTimes THEN frame + 2 ELSE Nothing

IdlePlay == [pc |-> "none", range |-> Everything, comes |-> 0, item |-> Nothing, fresh |-> TRUE, yielded |-> 0,
             sought |-> Everything, late |-> 0, outcome |-> "none", stop |-> FALSE]
StillPlayer == [playing |-> FALSE, active |-> 0, visible |-> Nothing, release |-> FALSE, pressed |-> FALSE,
                suspended |-> FALSE, resume |-> FALSE, video |-> 0, selection |-> FALSE]

PlaybackInit ==
    /\ shown = [video |-> 1, ready |-> TRUE, job |-> FALSE, head |-> 0, window |-> <<0, 2 * FrameCount>>, due |-> FALSE]
    /\ player = StillPlayer /\ held = 0 /\ plays = [s \in Sessions |-> IdlePlay]
    /\ mailbox = [s \in Sessions |-> Nothing]
    /\ sent = [s \in Sessions |-> [frame |-> FALSE, outcome |-> "none"]] /\ edits = 0

---------------------------------------------------------------------------
(* The worker *)

WorkerGoes(s, worker) == plays' = [plays EXCEPT ![s] = worker] /\ UNCHANGED <<shown, player, held, edits>>
PostStays == UNCHANGED <<mailbox, sent>>
SessionEnds(worker, outcome) == [IdlePlay EXCEPT !.pc = "close", !.outcome = outcome, !.stop = worker.stop]
DecodeFails(s) == WorkerGoes(s, SessionEnds(plays[s], "failed")) /\ PostStays
Seeked(worker, target) ==
    [worker EXCEPT !.pc = "pull", !.comes = OwnerOf(target), !.fresh = TRUE, !.yielded = 0]

OpenDecoder(s) ==
    /\ plays[s].pc = "open"
    /\ \/ WorkerGoes(s, Seeked(plays[s], plays[s].comes)) /\ PostStays
       \/ DecodeFails(s)

\* next(iterator) of _ranged_frames.
PullFrame(s) ==
    /\ plays[s].pc = "pull"
    /\ \/ /\ WorkerGoes(s, [plays[s] EXCEPT !.pc = "window", !.item = plays[s].comes,
                                !.comes = IF @ = Nothing THEN @ ELSE FrameAfter(@)])
          /\ PostStays
       \/ DecodeFails(s)

OutsideWindow(item, window, fresh) ==
    /\ window # Everything
    /\ item >= window[2] \/ (item < window[1] /\ ~fresh)
Fits(worker, window) == worker.item # Nothing /\ ~OutsideWindow(worker.item, window, worker.fresh)

\* Yield the frame, or seek back to IN, or end.
Decided(worker, window) ==
    CASE Fits(worker, window) ->
           [worker EXCEPT !.pc = "pace", !.fresh = FALSE, !.yielded = IF @ = 2 THEN 2 ELSE @ + 1]
      [] ~Fits(worker, window) /\ window = Everything -> SessionEnds(worker, "ended")
      [] OTHER -> [worker EXCEPT !.pc = "seek", !.sought = window, !.item = Nothing]

\* Mutant: a window without a second frame is sought again and again.
ReadWindowNoHold(s) ==
    /\ plays[s].pc = "window"
    /\ WorkerGoes(s, IF plays[s].stop THEN SessionEnds(plays[s], "none") ELSE Decided(plays[s], plays[s].range))
    /\ PostStays

\* The window is read once per frame; one with nothing to replay is held.
ReadWindow(s) ==
    LET w == plays[s] IN
    /\ w.pc = "window"
    /\ WorkerGoes(s, CASE w.stop -> SessionEnds(w, "none")
                       [] ~w.stop /\ ~Fits(w, w.range) /\ w.range # Everything /\ w.yielded <= 1 /\ w.sought = w.range ->
                            [w EXCEPT !.pc = "hold"]
                       [] OTHER -> Decided(w, w.range))
    /\ PostStays

\* _hold_while: sleeps until the range changes, and reads it again.
HoldWhile(s) ==
    LET w == plays[s] IN
    /\ w.pc = "hold" /\ (w.stop \/ w.range # w.sought)
    /\ WorkerGoes(s, IF w.stop THEN SessionEnds(w, "none") ELSE Decided([w EXCEPT !.late = 0], w.range))
    /\ PostStays

\* _loop_back, after a sleep of at most a frame's interval.
LoopBack(s) ==
    LET w == plays[s] IN
    /\ w.pc = "seek"
    /\ \/ WorkerGoes(s, IF w.stop THEN SessionEnds(w, "none") ELSE [Seeked(w, w.sought[1]) EXCEPT !.late = 0]) /\ PostStays
       \/ ~w.stop /\ DecodeFails(s)

\* A frame is late, and dropped unless enough were; or the worker slept until it is due.
PaceFrame(s) ==
    LET w == plays[s] IN
    /\ w.pc = "pace"
    /\ \/ w.stop /\ WorkerGoes(s, SessionEnds(w, "none"))
       \/ ~w.stop /\ w.late < MaxLate /\ WorkerGoes(s, [w EXCEPT !.pc = "pull", !.item = Nothing, !.late = @ + 1])
       \/ ~w.stop /\ WorkerGoes(s, [w EXCEPT !.pc = "publish", !.late = 0])
    /\ PostStays

\* Mutant: the slot announces the frame that replaces another.
PutFrameInverted(s) ==
    LET w == plays[s] IN
    /\ w.pc = "publish" /\ ~w.stop
    /\ mailbox' = [mailbox EXCEPT ![s] = w.item] /\ UNCHANGED sent
    /\ WorkerGoes(s, [w EXCEPT !.pc = IF mailbox[s] # Nothing THEN "announce" ELSE "pull", !.item = Nothing])

\* _publish: convert, check, put; frame_available only when the slot was empty.
PutFrame(s) ==
    LET w == plays[s] IN
    /\ w.pc = "publish" /\ ~w.stop
    /\ mailbox' = [mailbox EXCEPT ![s] = w.item] /\ UNCHANGED sent
    /\ WorkerGoes(s, [w EXCEPT !.pc = IF mailbox[s] = Nothing THEN "announce" ELSE "pull", !.item = Nothing])
ConvertFails(s) == plays[s].pc = "publish" /\ DecodeFails(s)
KeepUnpublished(s) ==
    plays[s].pc = "publish" /\ plays[s].stop /\ WorkerGoes(s, [plays[s] EXCEPT !.pc = "pull", !.item = Nothing]) /\ PostStays
Announce(s) ==
    /\ plays[s].pc = "announce" /\ sent' = [sent EXCEPT ![s].frame = TRUE]
    /\ WorkerGoes(s, [plays[s] EXCEPT !.pc = "pull"]) /\ UNCHANGED mailbox

\* _close_decoder folds its failure in, before the terminal signal.
CloseDecoder(s) ==
    LET w == plays[s] IN
    /\ w.pc = "close"
    /\ \E failed \in BOOLEAN :
          WorkerGoes(s, [w EXCEPT !.pc = "signal", !.outcome = IF failed /\ @ # "none" THEN "failed" ELSE @])
    /\ PostStays
SignalOutcome(s) ==
    LET w == plays[s] IN
    /\ w.pc = "signal"
    /\ sent' = [sent EXCEPT ![s].outcome = IF w.stop THEN "none" ELSE w.outcome]
    /\ WorkerGoes(s, [IdlePlay EXCEPT !.pc = "done"]) /\ UNCHANGED mailbox

WorkerStep(s) ==
    \/ OpenDecoder(s) \/ PullFrame(s) \/ ReadWindow(s) \/ HoldWhile(s) \/ LoopBack(s)
    \/ PaceFrame(s) \/ PutFrame(s) \/ ConvertFails(s) \/ KeepUnpublished(s) \/ Announce(s)
    \/ CloseDecoder(s) \/ SignalOutcome(s)

---------------------------------------------------------------------------
(* The controller: each action is one event of the GUI thread. *)

\* Mutant: the playhead goes to the end of the video, behind its last frame.
Uncapped(pts) == pts

\* move_playhead and _normalised.
Capped(pts) == IF pts > LatestPosition THEN LatestPosition ELSE pts
InterruptedWorker(workers, s) == IF s = 0 THEN workers ELSE [workers EXCEPT ![s].stop = TRUE]
\* What the GUI thread changes: [player, held, shown, plays].
Gui == [player |-> player, held |-> held, shown |-> shown, plays |-> plays]
GuiGoes(g) ==
    /\ player' = g.player /\ held' = g.held /\ shown' = g.shown
    /\ plays' = g.plays

\* _release_holds.
ReleaseHolds(g) == [g EXCEPT !.player.release = FALSE, !.player.visible = Nothing, !.held = 0]

\* _stop_worker.
StopWorker(g) ==
    [g EXCEPT !.plays = InterruptedWorker(@, g.player.active), !.player.active = 0, !.player.playing = FALSE,
              !.player.suspended = FALSE, !.player.resume = FALSE]

\* _sync_range hands a changed IN and OUT to the running loop.
SyncRange(g) ==
    IF g.player.active = 0 \/ ~g.player.selection THEN g
    ELSE [g EXCEPT !.plays[g.player.active].range = g.shown.window]

\* Mutant: only a playing controller notices that its video is gone.
StateChangedPlaying(g) ==
    LET replaced == g.player.video # 0 /\ g.shown.video # g.player.video
        stops == g.player.playing /\ (replaced \/ ~g.shown.ready \/ g.shown.job)
        stopped == IF stops THEN ReleaseHolds(StopWorker(g)) ELSE g IN
    SyncRange([stopped EXCEPT !.player.video = IF replaced THEN 0 ELSE @])

\* _state_changed, the subscriber of the store.
StateChanged(g) ==
    LET replaced == g.player.video # 0 /\ g.shown.video # g.player.video
        stops == (g.player.playing \/ g.player.release) /\ (replaced \/ ~g.shown.ready \/ g.shown.job)
        stopped == IF stops THEN ReleaseHolds(IF g.player.playing THEN StopWorker(g) ELSE g) ELSE g IN
    SyncRange([stopped EXCEPT !.player.video = IF replaced THEN 0 ELSE @])

\* The reducer's playhead events; the editor is locked while a job runs.
HeadMoves(g, head) ==
    IF g.shown.job \/ ~g.shown.ready \/ head = g.shown.head THEN g
    ELSE StateChanged([g EXCEPT !.shown.head = head, !.shown.due = TRUE])

\* _finish_playback: commit the visible frame, and wait for its still.
Finish(g) ==
    IF g.player.visible = Nothing THEN ReleaseHolds(g)
    ELSE LET after == HeadMoves([g EXCEPT !.player.release = TRUE], g.player.visible) IN
         IF after.shown = g.shown THEN ReleaseHolds(after) ELSE after
Pause(g) == IF g.player.playing THEN Finish(StopWorker(g)) ELSE g

\* _start_and_range.
StartFrom(g, resume) ==
    LET head == IF g.shown.head >= LatestPosition /\ ~resume THEN 0 ELSE g.shown.head
        w == g.shown.window IN
    IF g.player.selection /\ (head < w[1] \/ head >= w[2]) THEN w[1] ELSE head

\* play, with a session that was not used yet.
CanPlay(g) == (~g.player.playing \/ g.player.suspended) /\ g.shown.ready
Play(g, resume, s) ==
    [g EXCEPT !.plays[s] = [IdlePlay EXCEPT !.pc = "open", !.comes = StartFrom(g, resume),
                               !.range = IF g.player.selection THEN g.shown.window ELSE Everything],
              !.player = [@ EXCEPT !.playing = TRUE, !.active = s, !.visible = Nothing, !.release = FALSE,
                                   !.suspended = FALSE, !.resume = FALSE, !.video = g.shown.video]]

Unused(s) == plays[s].pc = "none" /\ \A t \in 1..(s - 1) : plays[t].pc # "none"
EditAllowed == edits < MaxPlaybackEdits /\ edits' = edits + 1 /\ PostStays
MarkerHandles == UNCHANGED edits

FrameAvailable(s) ==
    /\ sent[s].frame /\ sent' = [sent EXCEPT ![s].frame = FALSE] /\ MarkerHandles
    /\ IF s # player.active THEN GuiGoes(Gui) /\ UNCHANGED mailbox
       ELSE /\ mailbox' = [mailbox EXCEPT ![s] = Nothing]
            /\ GuiGoes([Gui EXCEPT !.held = s, !.player.visible = Capped(mailbox[s])])

\* A worker's signals are handled in their order.
OutcomeArrives(s) ==
    /\ sent[s].outcome # "none" /\ ~sent[s].frame /\ MarkerHandles /\ UNCHANGED mailbox
    /\ sent' = [sent EXCEPT ![s].outcome = "none"]
    /\ \E last \in FrameTimes \cup {Nothing} :
         GuiGoes(IF s # player.active THEN Gui
                 ELSE Pause(IF sent[s].outcome = "ended" /\ last # Nothing
                            THEN [Gui EXCEPT !.player.visible = last] ELSE Gui))

\* toggle, from the button or Space: both are disabled with the editor.
Toggle ==
    /\ ~shown.job /\ shown.ready /\ EditAllowed
    /\ \/ player.playing /\ GuiGoes(Pause(Gui))
       \/ ~player.playing /\ \E s \in Sessions : Unused(s) /\ GuiGoes(Play(Gui, FALSE, s))

PressMarker == ~player.pressed /\ EditAllowed /\ GuiGoes([Gui EXCEPT !.player.pressed = TRUE])

\* Mutant: the worker plays on under the marker.
UserMovedKeepsWorker(g) ==
    CASE g.player.release -> ReleaseHolds(g)
      [] ~g.player.release /\ g.player.playing /\ g.player.pressed /\ ~g.player.suspended ->
           [g EXCEPT !.player.active = 0, !.player.visible = Nothing,
                     !.player.suspended = TRUE, !.player.resume = TRUE, !.held = 0]
      [] OTHER -> g

\* Mutant: the suspended frame stays on the canvas.
UserMovedKeepsFrame(g) ==
    CASE g.player.release -> ReleaseHolds(g)
      [] ~g.player.release /\ g.player.playing /\ g.player.pressed /\ ~g.player.suspended ->
           [g EXCEPT !.plays = InterruptedWorker(@, g.player.active), !.player.active = 0, !.player.visible = Nothing,
                     !.player.suspended = TRUE, !.player.resume = TRUE]
      [] OTHER -> g

\* playhead_changed_by_user: suspend while the marker is dragged.
UserMoved(g) ==
    CASE g.player.release -> ReleaseHolds(g)
      [] ~g.player.release /\ g.player.playing /\ g.player.pressed /\ ~g.player.suspended ->
           [g EXCEPT !.plays = InterruptedWorker(@, g.player.active), !.player.active = 0, !.player.visible = Nothing,
                     !.player.suspended = TRUE, !.player.resume = TRUE, !.held = 0]
      [] OTHER -> g
DragMarker == player.pressed /\ EditAllowed /\ \E m \in Marks : GuiGoes(HeadMoves(UserMoved(Gui), Capped(m)))

\* Mutant: the release of a drag that paused meanwhile leaves the resume behind.
ReleaseMarkerForgets ==
    /\ player.pressed /\ PostStays /\ UNCHANGED edits
    /\ GuiGoes([Gui EXCEPT !.player.pressed = FALSE, !.player.resume = FALSE])
ReleaseMarker ==
    /\ player.pressed /\ PostStays /\ UNCHANGED edits
    /\ LET g == [Gui EXCEPT !.player.pressed = FALSE, !.player.resume = FALSE] IN
       \/ (~player.resume \/ ~CanPlay(g)) /\ GuiGoes(g)
       \/ player.resume /\ CanPlay(g) /\ \E s \in Sessions : Unused(s) /\ GuiGoes(Play(g, TRUE, s))

\* _selection_only_toggled.
ToggleSelection ==
    /\ ~shown.job /\ EditAllowed
    /\ LET on == ~player.selection
           g == [Gui EXCEPT !.player.selection = on] IN
       GuiGoes(IF player.active = 0 THEN g
               ELSE [g EXCEPT !.plays[player.active].range = IF on THEN shown.window ELSE Everything])

\* IN and OUT change; StepFrame pauses first (_while_playing).
ChangeWindow ==
    /\ ~shown.job /\ shown.ready /\ EditAllowed
    /\ \E w \in Windows : GuiGoes(StateChanged([Gui EXCEPT !.shown.window = w]))
StepOneFrame ==
    /\ ~shown.job /\ shown.ready /\ EditAllowed
    /\ LET g == Pause(Gui) IN GuiGoes(HeadMoves(g, Capped(g.shown.head + 2)))

\* The still of the committed position, of the current generation, or its failure.
StillArrives == shown.due /\ PostStays /\ MarkerHandles
    /\ LET g == [Gui EXCEPT !.shown.due = FALSE] IN
       GuiGoes(StateChanged(IF player.release THEN ReleaseHolds(g) ELSE g))
StillFails == shown.due /\ PostStays /\ MarkerHandles /\ GuiGoes([Gui EXCEPT !.shown.due = FALSE])

\* A job starts, or another video is chosen: stop_and_commit comes first.
StartJob ==
    /\ ~shown.job /\ shown.ready /\ EditAllowed
    /\ GuiGoes(StateChanged([Pause(Gui) EXCEPT !.shown.job = TRUE]))
EndJob == shown.job /\ PostStays /\ MarkerHandles /\ GuiGoes(StateChanged([Gui EXCEPT !.shown.job = FALSE]))
ReplaceVideo ==
    /\ ~shown.job /\ shown.video + 1 \in Videos /\ EditAllowed
    /\ GuiGoes(StateChanged([Pause(Gui) EXCEPT !.shown.video = @ + 1, !.shown.ready = FALSE, !.shown.due = FALSE]))
VideoLoads ==
    /\ ~shown.ready /\ PostStays /\ MarkerHandles
    /\ GuiGoes(StateChanged([Gui EXCEPT !.shown = [@ EXCEPT !.ready = TRUE, !.head = 0, !.window = <<0, 2 * FrameCount>>]]))

PlaybackNext ==
    \/ \E s \in Sessions : WorkerStep(s) \/ FrameAvailable(s) \/ OutcomeArrives(s)
    \/ Toggle \/ PressMarker \/ DragMarker \/ ReleaseMarker \/ ToggleSelection
    \/ ChangeWindow \/ StepOneFrame \/ StillArrives \/ StillFails
    \/ StartJob \/ EndJob \/ ReplaceVideo \/ VideoLoads

PlaybackSpec == PlaybackInit /\ [][PlaybackNext]_playbackVars

---------------------------------------------------------------------------
(* Properties *)

\* Types of the variables.
PlaybackTypeOK ==
    /\ held \in 0..MaxPlays /\ player.active \in 0..MaxPlays /\ edits \in 0..MaxPlaybackEdits
    /\ player.visible \in FrameTimes \cup {Nothing} /\ shown.head \in 0..LatestPosition
    /\ shown.window \in Windows \cup {<<0, 2 * FrameCount>>}
    /\ \A s \in Sessions : mailbox[s] \in FrameTimes \cup {Nothing} /\ plays[s].item \in FrameTimes \cup {Nothing}

\* A live frame stays on the canvas only while a session plays or its position
\* waits for its still: nothing else would ever take it away.
HoldsHaveAReason == held # 0 => (player.playing /\ ~player.suspended) \/ player.release

\* The canvas never holds a frame of a video that was replaced, and neither a
\* hold nor a session survives the start of a job (_state_changed).
HeldIsOfTheShownVideo ==
    /\ player.playing \/ player.release => player.video = shown.video /\ shown.ready /\ ~shown.job
    /\ held # 0 => player.video = shown.video

\* Every worker but the active session's was told to stop: two never decode on.
OnlyTheActiveSessionRuns ==
    \A s \in Sessions \ {player.active} : plays[s].pc \notin {"none", "done"} => plays[s].stop

\* A frame in the slot of the active session has been announced and not yet
\* handled, or is about to be: otherwise the picture freezes.
FramesAreAnnounced ==
    player.active # 0 /\ mailbox[player.active] # Nothing =>
        sent[player.active].frame \/ plays[player.active].pc = "announce"

\* A suspended session is one that the release of the marker resumes.
SuspendedResumes ==
    /\ player.suspended => player.playing /\ player.resume /\ player.pressed /\ player.active = 0
    /\ player.playing /\ ~player.suspended => player.active # 0

\* A loop never seeks back to the window it has just sought after a single
\* frame: the decoder would seek on and on.
LoopsReplaySomething ==
    [][\A s \in Sessions : plays[s].pc = "window" /\ plays'[s].pc = "seek" /\ plays[s].sought = plays'[s].sought =>
           plays[s].yielded > 1]_playbackVars

\* The canvas, the controller and the workers agree, however play, drags,
\* stills, jobs and late frames interleave.
PlaybackCorrect ==
    /\ [](/\ PlaybackTypeOK
          /\ HoldsHaveAReason
          /\ HeldIsOfTheShownVideo
          /\ OnlyTheActiveSessionRuns
          /\ FramesAreAnnounced
          /\ SuspendedResumes)
    /\ LoopsReplaySomething
=============================================================================
