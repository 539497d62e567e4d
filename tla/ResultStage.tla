---------------------------- MODULE ResultStage -----------------------------
(***************************************************************************)
(* ui/transform_stage.py and ui/result_player.py, with the sidecar of      *)
(* jobs/transform_store.py: the cut of a finished render is opened, its    *)
(* facts are computed in one worker and its frames loaded in another, and  *)
(* the player loops the kept frames, while the user edits the framing and  *)
(* the transform, and other programs edit the cut's files.                 *)
(*                                                                         *)
(* A generation counter is modelled by what it decides: a worker is live   *)
(* until its generation is superseded, and its late result is ignored.     *)
(***************************************************************************)
EXTENDS Naturals, FiniteSets

CONSTANTS CutSets, FrameTotal, CacheLimit, Framings, Crops, Keeps, MaxStageEdits

ASSUME ResultStageAssumption ==
    /\ {CacheLimit, MaxStageEdits} \subseteq Nat /\ 0 \in Crops /\ Crops \cup Framings \subseteq Nat
    /\ FrameTotal \in [CutSets -> Nat \ {0}] /\ Keeps \subseteq Nat \X Nat

VARIABLES
    asked,    \* the parameters and the edited-cuts scan of the reducer's state
    stage,    \* the TransformStageController
    analyses, \* the facts workers and their results
    loads,    \* the frame loaders and their results
    screen,   \* the ResultPlayerCanvas
    onDisk,   \* cut set -> how often its files were edited; versions are 0 and 1
    sidecar,  \* cut set -> the crop stored beside it
    stageEdits

stageVars == <<asked, stage, analyses, loads, screen, onDisk, sidecar, stageEdits>>

NoCut == 0
NoFacts == [cut |-> NoCut, framing |-> 0]
NoFrames == [cut |-> NoCut, version |-> 0, framing |-> 0, crop |-> 0, cached |-> 0]
EmptyScreen == [frames |-> NoFrames, kept |-> <<0, 0>>, trimmed |-> FALSE, index |-> 0, placed |-> FALSE,
                playing |-> FALSE, timer |-> FALSE]

ResultStageInit ==
    /\ \E f \in Framings : asked = [framing |-> f, crop |-> 0, keep |-> <<0, 9>>, edited |-> FALSE, scan |-> FALSE,
                                           job |-> NoCut, applied |-> 0]
    /\ stage = [cut |-> NoCut, version |-> 0, facts |-> NoFacts, debounce |-> FALSE, reread |-> FALSE,
                cropping |-> FALSE, failed |-> FALSE]
    /\ analyses = {} /\ loads = {} /\ screen = EmptyScreen
    /\ onDisk = [c \in CutSets |-> 0] /\ sidecar = [c \in CutSets |-> 0] /\ stageEdits = 0

Lesser(a, b) == IF a < b THEN a ELSE b

\* kept_range, and _playable: what is kept of the frames that fit the budget.
KeptOf(keep, total) == <<keep[1], Lesser(keep[2], total)>>
CachedOf(cut) == Lesser(FrameTotal[cut], CacheLimit)
Playable(s) ==
    LET stop == IF s.trimmed THEN Lesser(s.kept[2], s.frames.cached) ELSE s.frames.cached
        start == IF s.trimmed THEN s.kept[1] ELSE 0 IN
    {i \in 0..CacheLimit : s.frames.cut # NoCut /\ start <= i /\ i < stop}
FirstOf(indices) == CHOOSE i \in indices : \A j \in indices : i <= j

Paused(s) == [s EXCEPT !.playing = FALSE, !.timer = FALSE]
Placed(s) == [s EXCEPT !.placed = Playable(s) # {}, !.index = IF Playable(s) = {} THEN 0 ELSE FirstOf(Playable(s))]

\* Mutant: new frames stop the timer of a running loop.
SetFramesStopsTimer(s, frames) ==
    IF frames = NoFrames THEN EmptyScreen
    ELSE Placed([s EXCEPT !.frames = frames, !.timer = FALSE, !.trimmed = IF s.frames = NoFrames THEN FALSE ELSE @])

\* set_frames: a swap keeps the loop and the kept range, closing drops both.
SetFrames(s, frames) ==
    IF frames = NoFrames THEN EmptyScreen
    ELSE Placed([s EXCEPT !.frames = frames, !.trimmed = IF s.frames = NoFrames THEN FALSE ELSE @])

\* Mutant: the playhead stays where it was.
SetKeptRangeOnly(s, kept) ==
    IF s.frames = NoFrames THEN s ELSE [s EXCEPT !.kept = kept, !.trimmed = TRUE]

\* set_kept_range; without frames what it leaves is dropped by set_frames.
SetKeptRange(s, kept) ==
    IF s.frames = NoFrames THEN s
    ELSE LET t == [s EXCEPT !.kept = kept, !.trimmed = TRUE] IN
         IF s.placed /\ s.index \in Playable(t) THEN t ELSE Placed(t)

\* What a handler of the GUI thread changes.
Here == [asked |-> asked, stage |-> stage, analyses |-> analyses, loads |-> loads, screen |-> screen]
StageGoes(g) ==
    /\ asked' = g.asked /\ stage' = g.stage /\ analyses' = g.analyses
    /\ loads' = g.loads /\ screen' = g.screen
DiskStays == UNCHANGED <<onDisk, sidecar>>
\* Mutant: a worker that is superseded stays live.
SupersededNothing(workers) == workers

\* Of a superseded worker only that it runs, and for which cut, is kept.
SupersededAnalyses(workers) == {[live |-> FALSE, pc |-> w.pc, cut |-> w.cut, reread |-> FALSE, version |-> 0, framing |-> 0] : w \in workers}
SupersededLoads(workers) == {[live |-> FALSE, pc |-> w.pc, cut |-> w.cut, version |-> 0, framing |-> 0, crop |-> 0] : w \in workers}

\* _cancel_frame_load.
CancelLoad(g) == [g EXCEPT !.loads = SupersededLoads(@), !.stage.debounce = FALSE]

\* _start_frame_load: nothing while edited files are still to be read again.
StartFrameLoad(g) ==
    LET s == g.stage IN
    IF s.cut = NoCut \/ s.facts = NoFacts \/ s.reread THEN g
    ELSE [CancelLoad(g) EXCEPT !.stage.failed = FALSE,
            !.loads = @ \cup {[live |-> TRUE, pc |-> "runs", cut |-> s.cut, version |-> s.version,
                               framing |-> s.facts.framing, crop |-> g.asked.crop]}]

\* _sync_player_frames.
SyncFrames(g, immediate) ==
    CASE g.stage.cut = NoCut \/ g.stage.facts = NoFacts -> [CancelLoad(g) EXCEPT !.screen = SetFrames(@, NoFrames)]
      [] OTHER -> IF immediate THEN StartFrameLoad(g) ELSE [g EXCEPT !.stage.debounce = TRUE]

SetFacts(g, facts) == SyncFrames([g EXCEPT !.stage.facts = facts], TRUE)

\* Mutant: a newer computation forgets that the files were to be read again.
ScheduleFactsForgets(g, reread) ==
    IF g.stage.cut = NoCut THEN g
    ELSE [g EXCEPT !.stage.reread = @ \/ reread,
            !.analyses = SupersededAnalyses(@) \cup {[live |-> TRUE, pc |-> "runs", cut |-> g.stage.cut, reread |-> reread,
                            version |-> g.stage.version, framing |-> g.asked.framing]}]

\* _schedule_facts: a worker that is superseded hands its rereading on.
ScheduleFacts(g, reread) ==
    IF g.stage.cut = NoCut THEN g
    ELSE LET again == reread \/ g.stage.reread IN
         [g EXCEPT !.stage.reread = again,
            !.analyses = SupersededAnalyses(@) \cup {[live |-> TRUE, pc |-> "runs", cut |-> g.stage.cut, reread |-> again,
                            version |-> g.stage.version, framing |-> g.asked.framing]}]

\* close_session, also for a source that is replaced.
CloseCut(g) ==
    SetFacts([g EXCEPT !.stage.cut = NoCut, !.stage.reread = FALSE, !.analyses = SupersededAnalyses(@)], NoFacts)

\* Mutant: the facts follow the scans alone, not the framing.
ParametersChangedByScans(g, before) ==
    LET scanned == (before.scan /\ ~g.asked.scan /\ g.asked.edited) \/ (g.asked.edited /\ ~before.edited)
        a == IF scanned THEN ScheduleFacts(g, scanned) ELSE g IN
    IF a.stage.facts # NoFacts /\ ~g.stage.cropping /\ g.asked.crop # before.crop THEN SyncFrames(a, FALSE) ELSE a

\* _state_changed, for a state that differs from `before` in its parameters.
ParametersChanged(g, before) ==
    LET framed == g.asked.framing # before.framing
        scanned == (before.scan /\ ~g.asked.scan /\ g.asked.edited) \/ (g.asked.edited /\ ~before.edited)
        a == IF framed \/ scanned THEN ScheduleFacts(g, scanned) ELSE g
        known == a.stage.facts # NoFacts
        b == IF ~known THEN a
             ELSE [a EXCEPT !.screen = SetKeptRange(@, KeptOf(g.asked.keep, FrameTotal[a.stage.facts.cut]))] IN
    IF known /\ ~framed /\ ~g.stage.cropping /\ g.asked.crop # before.crop THEN SyncFrames(b, FALSE) ELSE b

\* _compute_facts, and _load_player_frames under its budget.
FactsOf(w) == [cut |-> w.cut, framing |-> w.framing]
FramesOf(w) == [cut |-> w.cut, version |-> w.version, framing |-> w.framing, crop |-> w.crop, cached |-> CachedOf(w.cut)]

\* _facts_ready, for the live worker: its crop is clamped, which a job refuses,
\* then its facts are set.
FittingCrop(crop, framing) == Lesser(crop, framing)
FactsReady(w) ==
    LET a == [Here EXCEPT !.stage.version = IF w.reread THEN w.version ELSE @,
                          !.stage.reread = IF w.reread THEN FALSE ELSE @]
        fitted == FittingCrop(a.asked.crop, w.framing)
        b == IF fitted = a.asked.crop \/ a.asked.job # NoCut THEN a ELSE ParametersChanged([a EXCEPT !.asked.crop = fitted], a.asked) IN
    SetFacts(b, FactsOf(w))

\* Mutant: the result of any worker is taken.
FactsArriveLate ==
    \E w \in analyses :
        /\ w.pc # "runs" /\ DiskStays /\ UNCHANGED stageEdits
        /\ LET g == [(IF w.pc = "failed" THEN SetFacts([Here EXCEPT !.stage.reread = FALSE], NoFacts) ELSE FactsReady(w))
                       EXCEPT !.analyses = @ \ {w}] IN StageGoes(g)

FactsArrive ==
    \E w \in analyses :
        /\ w.pc # "runs" /\ DiskStays /\ UNCHANGED stageEdits
        /\ LET rest == [Here EXCEPT !.analyses = @ \ {w}] IN
           CASE ~w.live -> StageGoes(rest)
             [] w.live /\ w.pc = "failed" ->
                  StageGoes([SetFacts([Here EXCEPT !.stage.reread = FALSE], NoFacts) EXCEPT !.analyses = @ \ {w}])
             [] OTHER -> StageGoes([FactsReady(w) EXCEPT !.analyses = @ \ {w}])

\* _CutFactsWorker.run: a superseded worker may stop without a result.
AnalysisRuns ==
    \E w \in analyses :
        /\ w.pc = "runs" /\ DiskStays /\ UNCHANGED <<asked, stage, loads, screen, stageEdits>>
        /\ \E pc \in {"ok", "failed"} :
              analyses' = (analyses \ {w}) \cup
                  (IF w.live THEN {[w EXCEPT !.pc = pc, !.version = IF w.reread THEN onDisk[w.cut] ELSE @]}
                   ELSE {x \in {[w EXCEPT !.pc = pc]} : pc = "ok"})

\* FrameLoadWorker.run, and its result.
LoadRuns ==
    \E w \in loads :
        /\ w.pc = "runs" /\ DiskStays /\ UNCHANGED <<asked, stage, analyses, screen, stageEdits>>
        /\ \E pc \in {"ok", "failed"} :
              loads' = (loads \ {w}) \cup (IF w.live \/ pc = "ok" THEN {[w EXCEPT !.pc = pc]} ELSE {})

FramesArrive ==
    \E w \in loads :
        /\ w.pc # "runs" /\ DiskStays /\ UNCHANGED stageEdits
        /\ LET rest == [Here EXCEPT !.loads = @ \ {w}]
               frames == FramesOf(w) IN
           StageGoes(CASE ~w.live -> rest
                       [] w.live /\ w.pc = "failed" -> [rest EXCEPT !.stage.failed = TRUE]
                       [] OTHER -> [rest EXCEPT !.screen = SetKeptRange(SetFrames(@, frames),
                                                             KeptOf(asked.keep, FrameTotal[stage.facts.cut]))])

DebounceFires ==
    /\ stage.debounce /\ DiskStays /\ UNCHANGED stageEdits
    /\ StageGoes(StartFrameLoad([Here EXCEPT !.stage.debounce = FALSE]))

---------------------------------------------------------------------------
(* The user, the jobs and the other programs *)

StageEdit == stageEdits < MaxStageEdits /\ stageEdits' = stageEdits + 1

\* A render of a cut starts with the transform that is shown; the rebuild of
\* one with its stored transform, unless it is the cut that is open, and shows it.
StartRender ==
    /\ asked.job = NoCut /\ StageEdit /\ DiskStays
    /\ \E c \in CutSets : StageGoes([Here EXCEPT !.asked.job = c, !.asked.applied = asked.crop])
StartRebuild ==
    /\ asked.job = NoCut /\ StageEdit /\ DiskStays
    /\ \E c \in CutSets :
          LET crop == CASE stage.cut = c -> asked.crop
                        [] stage.cut # c /\ stage.facts.cut = c -> FittingCrop(sidecar[c], stage.facts.framing)
                        [] OTHER -> sidecar[c] IN
          StageGoes(ParametersChanged([Here EXCEPT !.asked.job = c, !.asked.applied = crop, !.asked.crop = crop], asked))

\* The job ends and open_artifact takes its cut, with the applied transform
\* beside it (store_transform); or it is cancelled.
OpenArtifact ==
    /\ asked.job # NoCut /\ UNCHANGED <<onDisk, stageEdits>>
    /\ sidecar' = [sidecar EXCEPT ![asked.job] = asked.applied]
    /\ StageGoes(ScheduleFacts([Here EXCEPT !.stage.cut = asked.job, !.stage.version = onDisk[asked.job],
                                   !.asked.job = NoCut, !.asked.applied = 0], asked.edited))
CancelRender ==
    asked.job # NoCut /\ DiskStays /\ UNCHANGED stageEdits
    /\ StageGoes([Here EXCEPT !.asked.job = NoCut, !.asked.applied = 0])

\* An edit of the inspector or of the Transform group; a job locks both.
EditParameters ==
    /\ asked.job = NoCut /\ StageEdit /\ DiskStays
    /\ \/ \E f \in Framings \ {asked.framing} :
             StageGoes(ParametersChanged([Here EXCEPT !.asked.framing = f], asked))
       \/ \E c \in Crops \ {asked.crop} : StageGoes(ParametersChanged([Here EXCEPT !.asked.crop = c], asked))
       \/ \E k \in Keeps \ {asked.keep} : StageGoes(ParametersChanged([Here EXCEPT !.asked.keep = k], asked))

\* Mutant: leaving the crop overlay loads nothing.
ToggleCropEditOnly ==
    /\ stage.facts # NoFacts /\ asked.job = NoCut /\ DiskStays
    /\ (stage.cropping /\ UNCHANGED stageEdits) \/ (~stage.cropping /\ StageEdit)
    /\ StageGoes([Here EXCEPT !.stage.cropping = ~@])

\* _crop_edit_toggled: what was cropped in the overlay is loaded on leaving it.
ToggleCropEdit ==
    /\ stage.facts # NoFacts /\ asked.job = NoCut /\ DiskStays
    /\ (stage.cropping /\ UNCHANGED stageEdits) \/ (~stage.cropping /\ StageEdit)
    /\ LET g == [Here EXCEPT !.stage.cropping = ~@] IN
       StageGoes(IF stage.cropping THEN SyncFrames(g, FALSE) ELSE g)

ReplaceSource ==
    /\ asked.job = NoCut /\ stage.cut # NoCut /\ StageEdit /\ DiskStays
    /\ StageGoes(CloseCut([Here EXCEPT !.asked.crop = 0, !.asked.keep = <<0, 9>>, !.asked.edited = FALSE, !.asked.scan = FALSE]))

\* Another program writes a frame; the application scans the cut, and finds it.
EditFiles ==
    /\ UNCHANGED <<asked, stage, analyses, loads, screen, sidecar, stageEdits>>
    /\ \E c \in CutSets \cap {stage.cut} : onDisk[c] = 0 /\ onDisk' = [onDisk EXCEPT ![c] = 1]
ScanStarts ==
    /\ ~asked.scan /\ stage.cut # NoCut /\ ~asked.edited /\ StageEdit /\ DiskStays
    /\ StageGoes([Here EXCEPT !.asked.scan = TRUE])
ScanEnds ==
    /\ asked.scan /\ stage.cut # NoCut /\ DiskStays /\ UNCHANGED stageEdits
    /\ StageGoes(ParametersChanged([Here EXCEPT !.asked.scan = FALSE, !.asked.edited = onDisk[stage.cut] = 1], asked))

PressPlay ==
    /\ screen.frames # NoFrames /\ StageEdit /\ DiskStays
    /\ StageGoes([Here EXCEPT !.screen = IF screen.playing THEN Paused(@)
                                         ELSE IF Playable(screen) = {} THEN @ ELSE [@ EXCEPT !.playing = TRUE, !.timer = TRUE]])
\* set_presented_frame: a new preview pauses the loop.
PresentPreview ==
    screen.playing /\ UNCHANGED stageEdits /\ DiskStays /\ StageGoes([Here EXCEPT !.screen = Paused(@)])

\* _advance.
Advance ==
    /\ screen.timer /\ DiskStays /\ UNCHANGED stageEdits
    /\ LET next == {i \in Playable(screen) : i = screen.index + 1} IN
       StageGoes([Here EXCEPT !.screen = IF Playable(screen) = {} \/ ~screen.placed THEN Paused(@)
                                         ELSE [@ EXCEPT !.index = FirstOf(IF next # {} THEN next ELSE Playable(screen))]])

ResultStageNext ==
    \/ FactsArrive \/ AnalysisRuns \/ LoadRuns \/ FramesArrive \/ DebounceFires
    \/ StartRender \/ StartRebuild \/ OpenArtifact \/ CancelRender \/ EditParameters \/ ToggleCropEdit \/ ReplaceSource
    \/ EditFiles \/ ScanStarts \/ ScanEnds \/ PressPlay \/ PresentPreview \/ Advance

ResultStageSpec == ResultStageInit /\ [][ResultStageNext]_stageVars

---------------------------------------------------------------------------
(* Properties *)

\* Types of the variables.
ResultStageTypeOK ==
    /\ asked.framing \in Framings /\ asked.crop \in Crops \cup Framings /\ stage.cut \in CutSets \cup {NoCut}
    /\ screen.index \in 0..CacheLimit /\ onDisk \in [CutSets -> 0..1] /\ sidecar \in [CutSets -> Crops \cup Framings]
    /\ Cardinality({w \in analyses : w.live}) <= 1 /\ Cardinality({w \in loads : w.live}) <= 1

\* Without an open cut no facts, no frames and no live worker remain: a late
\* result never brings back a cut that was closed.
ClosedCutStaysClosed ==
    stage.cut = NoCut =>
        /\ stage.facts = NoFacts /\ screen.frames = NoFrames /\ ~stage.debounce
        /\ \A w \in analyses \cup loads : ~w.live

\* When nothing runs any more, the facts are those of the open cut and of the
\* framing the inspector shows.
SettledFactsAreCurrent ==
    (\A w \in analyses : ~w.live) /\ stage.facts # NoFacts =>
        stage.facts = [cut |-> stage.cut, framing |-> asked.framing] /\ ~stage.reread

\* When nothing runs any more, and no load failed, the player shows the cut as
\* the parameters want it: no edit was lost on the way.
SettledFramesAreCurrent ==
    /\ \A w \in analyses \cup loads : ~w.live
    /\ stage.facts # NoFacts /\ ~stage.debounce /\ ~stage.failed /\ ~stage.cropping
    => /\ screen.frames.cut = stage.cut /\ screen.frames.version = stage.version
       /\ screen.frames.framing = asked.framing /\ screen.frames.crop = asked.crop

\* Files that were found edited are read again: until they are, a live worker
\* that reads them runs, however often it was superseded.
EditedFilesAreReread ==
    stage.reread => \E w \in analyses : w.live /\ w.reread

\* The player stands on a frame it may play, and a loop that shows Pause ticks.
PlayheadIsPlayable ==
    /\ screen.frames # NoFrames => (screen.placed <=> Playable(screen) # {})
    /\ screen.placed => screen.index \in Playable(screen)
LoopTicks == screen.playing <=> screen.timer

\* The stage shows the open cut as it is asked for once its workers are done,
\* and nothing of a cut that was closed.
ResultStageCorrect ==
    /\ ResultStageTypeOK
    /\ ClosedCutStaysClosed
    /\ SettledFactsAreCurrent
    /\ SettledFramesAreCurrent
    /\ EditedFilesAreReread
    /\ PlayheadIsPlayable
    /\ LoopTicks
=============================================================================
