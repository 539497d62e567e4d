----------------------------- MODULE CropEditor ------------------------------
(***************************************************************************)
(* The crop editors: ui/crop_canvas.py with core/crop.py, over the source  *)
(* video (the reducer of core/crop_state.py) or over the result player     *)
(* (ui/result_player.py, ui/transform_group.py, ui/transform_stage.py),    *)
(* and what the encoder stages of the result's transform                   *)
(* (jobs/transform_stage.py, core/transform.py, the framing of             *)
(* core/geometry.py).  Pixels are integers; a pointer moves by half pixels *)
(* of the source, and the widget's scale, zoom and inset are left out.     *)
(***************************************************************************)
EXTENDS Integers, FiniteSets, FiniteSetsExt

CONSTANTS CropVideos, \* <<width, height>> of the videos
          AlphaBoxes, \* <<left, top, right, bottom>> of the visible pixels of the cut's frames
          FramingSpecs, Ratios, Resizes, Rotations, Pointers, MinFinal, MaxCropEdits

ASSUME CropEditorAssumption ==
    /\ CropVideos \subseteq (Nat \ {0}) \X (Nat \ {0}) /\ AlphaBoxes # {} /\ <<0, 0>> \in Pointers
    /\ Ratios \subseteq (Nat \ {0}) \X (Nat \ {0}) /\ Pointers \subseteq Int \X Int
    /\ \A r \in Resizes : {r.width, r.height} \subseteq Nat
    /\ {MinFinal, MaxCropEdits} \subseteq Nat /\ Rotations \subseteq {0, 90, 180, 270}

VARIABLES
    canvas,   \* which canvas, its presentation, focus, drag and aspect lock
    crop,     \* the crop of the reducer's state, or NoCrop
    cutFacts, \* the framed size the result stage knows, or the video's size
    wanted,   \* the framing and resize of the parameters, and whether a job runs
    staged,   \* the frames the encoder was handed last
    lastEdit, \* the handler that ran last, with the offset of its pointer
    cropEdits

cropVars == <<canvas, crop, cutFacts, wanted, staged, lastEdit, cropEdits>>

Corners == {"north_west", "north_east", "south_east", "south_west"}
West == {"west", "north_west", "south_west"}
East == {"east", "north_east", "south_east"}
North == {"north", "north_west", "north_east"}
South == {"south", "south_west", "south_east"}
CropHandles == West \cup East \cup {"north", "south"}

CropSpec(x, y, w, h) == [x |-> x, y |-> y, w |-> w, h |-> h]
NoCrop == CropSpec(0, 0, 0, 0)
\* CropSpec.validate: what is not valid raises ValidationError.
IsValid(c) == c.x >= 0 /\ c.y >= 0 /\ c.w >= 1 /\ c.h >= 1
FitsIn(c, size) == c.x + c.w <= size[1] /\ c.y + c.h <= size[2]
WholeFrame(size) == CropSpec(0, 0, size[1], size[2])
NoView == [size |-> <<0, 0>>, crop |-> NoCrop]

\* Between two bounds the code applies in this order: max, then min.
Bounded(v, low, high) == Min({Max({v, low}), high})
RoundHalfUp(n, d) == (2 * n + d) \div (2 * d)
\* _rounded_delta, of half pixels.
RoundedHalves(v) == IF v >= 0 THEN (v + 1) \div 2 ELSE -((1 - v) \div 2)

---------------------------------------------------------------------------
(* core/crop.py *)

\* Mutant: a side may be dragged out of the source.
ResizeUnbounded(c, target, d, size) ==
    LET left == IF target \in West THEN Bounded(c.x + d[1], 0, c.x + c.w - 1) ELSE c.x
        right == IF target \in East THEN Max({c.x + c.w + d[1], c.x + 1}) ELSE c.x + c.w
        top == IF target \in North THEN Bounded(c.y + d[2], 0, c.y + c.h - 1) ELSE c.y
        bottom == IF target \in South THEN Bounded(c.y + c.h + d[2], c.y + 1, size[2]) ELSE c.y + c.h IN
    CropSpec(left, top, right - left, bottom - top)

ResizeCrop(c, target, d, size) ==
    LET left == IF target \in West THEN Bounded(c.x + d[1], 0, c.x + c.w - 1) ELSE c.x
        right == IF target \in East THEN Bounded(c.x + c.w + d[1], left + 1, size[1]) ELSE c.x + c.w
        top == IF target \in North THEN Bounded(c.y + d[2], 0, c.y + c.h - 1) ELSE c.y
        bottom == IF target \in South THEN Bounded(c.y + c.h + d[2], top + 1, size[2]) ELSE c.y + c.h IN
    CropSpec(left, top, right - left, bottom - top)

MoveCrop(c, d, size) ==
    CropSpec(Bounded(c.x + d[1], 0, size[1] - c.w), Bounded(c.y + d[2], 0, size[2] - c.h), c.w, c.h)

NudgeCrop(c, target, d, size) ==
    IF target = "crop" THEN MoveCrop(c, d, size) ELSE ResizeCrop(c, target, d, size)

ClampCrop(c, size) ==
    LET w == Bounded(c.w, 1, size[1])
        h == Bounded(c.h, 1, size[2]) IN
    CropSpec(Bounded(c.x, 0, size[1] - w), Bounded(c.y, 0, size[2] - h), w, h)

AbsOf(v) == IF v < 0 THEN -v ELSE v
FitCorner(c, ratio, target) ==
    LET widthFor == RoundHalfUp(c.h * ratio[1], ratio[2])
        heightFor == RoundHalfUp(c.w * ratio[2], ratio[1])
        byWidth == AbsOf(widthFor - c.w) <= AbsOf(heightFor - c.h)
        w == IF byWidth THEN Max({1, widthFor}) ELSE c.w
        h == IF byWidth THEN c.h ELSE Max({1, heightFor}) IN
    CropSpec(IF target \in West THEN c.x + c.w - w ELSE c.x, IF target \in North THEN c.y + c.h - h ELSE c.y, w, h)

CenteredOrigin(origin, old, new, extent) ==
    Bounded(origin + RoundHalfUp(old - new, 2), 0, Max({0, extent - new}))

FitEdge(c, ratio, target, size) ==
    IF target \in {"east", "west"}
    THEN LET h == Max({1, Min({size[2], RoundHalfUp(c.w * ratio[2], ratio[1])})}) IN
         CropSpec(c.x, CenteredOrigin(c.y, c.h, h, size[2]), c.w, h)
    ELSE LET w == Max({1, Min({size[1], RoundHalfUp(c.h * ratio[1], ratio[2])})}) IN
         CropSpec(CenteredOrigin(c.x, c.w, w, size[1]), c.y, w, c.h)

\* fit_crop_aspect: a fitted crop that is not valid raises before it is clamped.
FitCropAspect(c, ratio, target, size) ==
    LET fitted == CASE target = "crop" -> c
                    [] target \in Corners -> FitCorner(c, ratio, target)
                    [] OTHER -> FitEdge(c, ratio, target, size) IN
    IF IsValid(fitted) THEN ClampCrop(fitted, size) ELSE fitted

CenteredCrop(ratio, size) ==
    LET heightFor == RoundHalfUp(size[1] * ratio[2], ratio[1])
        w == IF heightFor <= size[2] THEN size[1] ELSE Max({1, RoundHalfUp(size[2] * ratio[1], ratio[2])})
        h == IF heightFor <= size[2] THEN Max({1, heightFor}) ELSE size[2] IN
    ClampCrop(CropSpec((size[1] - w) \div 2, (size[2] - h) \div 2, w, h), size)

---------------------------------------------------------------------------
(* core/geometry.py: orientation, and the framed size *)

\* The raw point of an oriented one, in a video of `size` as it is shown.
Unrotate(p, rotation, size) ==
    CASE rotation = 0 -> p
      [] rotation = 90 -> <<p[2], size[1] - p[1]>>
      [] rotation = 180 -> <<size[1] - p[1], size[2] - p[2]>>
      [] rotation = 270 -> <<size[2] - p[2], p[1]>>

\* Mutant: the two quarter turns are the same.
RotateOneWay(p, rotation, size) ==
    CASE rotation = 0 -> p
      [] rotation = 180 -> <<size[1] - p[1], size[2] - p[2]>>
      [] OTHER -> <<size[1] - p[2], p[1]>>

Rotate(p, rotation, size) ==
    CASE rotation = 0 -> p
      [] rotation = 90 -> <<size[1] - p[2], p[1]>>
      [] rotation = 180 -> <<size[1] - p[1], size[2] - p[2]>>
      [] rotation = 270 -> <<p[2], size[2] - p[1]>>

\* _map_rect, of the corners that a conversion of points makes of a rectangle.
MapRect(c, Convert(_)) ==
    LET p == Convert(<<c.x, c.y>>)
        q == Convert(<<c.x + c.w, c.y + c.h>>) IN
    CropSpec(Min({p[1], q[1]}), Min({p[2], q[2]}), AbsOf(p[1] - q[1]), AbsOf(p[2] - q[2]))

\* oriented_rect_to_source_rect, then the clamp and the way back of build_crop_geometry.
RawRect(c, rotation, size) == MapRect(c, LAMBDA p : Unrotate(p, rotation, size))
RawSize(rotation, size) == IF rotation \in {90, 270} THEN <<size[2], size[1]>> ELSE size
DrawnRect(c, rotation, size) ==
    LET raw == RawRect(c, rotation, size)
        extent == RawSize(rotation, size)
        w == Min({raw.w, extent[1]})
        h == Min({raw.h, extent[2]}) IN
    MapRect(CropSpec(Bounded(raw.x, 0, extent[1] - w), Bounded(raw.y, 0, extent[2] - h), w, h),
            LAMBDA p : Rotate(p, rotation, size))

\* union_alpha_bounds, and FramingPlan: its output size.
UnionBounds ==
    <<Min({b[1] : b \in AlphaBoxes}), Min({b[2] : b \in AlphaBoxes}),
      Max({b[3] : b \in AlphaBoxes}), Max({b[4] : b \in AlphaBoxes})>>
FramedSize(framing, video) ==
    LET w == IF framing.trim THEN UnionBounds[3] - UnionBounds[1] ELSE video[1]
        h == IF framing.trim THEN UnionBounds[4] - UnionBounds[2] ELSE video[2] IN
    <<RoundHalfUp((w + 2 * framing.padding) * framing.stretch[1], framing.stretch[2]), h + 2 * framing.padding>>

\* FramingPlan refuses a framing whose size is below the smallest final one; here
\* every framing is one it accepts.
ASSUME FramingsAreAccepted ==
    /\ MinFinal > 0
    /\ \A f \in FramingSpecs, video \in CropVideos :
          LET size == FramedSize(f, video) IN size \in Nat \X Nat /\ size[1] >= MinFinal /\ size[2] >= MinFinal

---------------------------------------------------------------------------
(* core/transform.py *)

Scaled(size, n, d) == <<RoundHalfUp(size[1] * n, d), RoundHalfUp(size[2] * n, d)>>

\* The scale that fits both sides (wide: the width decides), or covers both.
WidthDecides(size, target, covers) ==
    IF covers THEN target[1] * size[2] >= target[2] * size[1] ELSE target[1] * size[2] <= target[2] * size[1]
ScaledTo(size, target, covers) ==
    IF WidthDecides(size, target, covers) THEN Scaled(size, target[1], size[1]) ELSE Scaled(size, target[2], size[2])

Plan(scaled, shown, offset) == [scaled |-> scaled, canvas |-> shown, offset |-> offset]

\* An offset is where the scaled frame lies on the canvas: negative where the
\* crop box of `cover` cuts it.  0 stands for an axis that is not asked for.
ResolveResize(size, r) ==
    LET target == <<r.width, r.height>>
        fitted == ScaledTo(size, target, FALSE)
        covered == ScaledTo(size, target, TRUE) IN
    CASE r.height = 0 -> LET s == Scaled(size, r.width, size[1]) IN Plan(s, s, <<0, 0>>)
      [] r.width = 0 -> LET s == Scaled(size, r.height, size[2]) IN Plan(s, s, <<0, 0>>)
      [] r.width # 0 /\ r.height # 0 /\ (size[1] * r.height = size[2] * r.width \/ r.mismatch = "stretch") ->
           Plan(target, target, <<0, 0>>)
      [] r.mismatch = "cover" -> Plan(covered, target, <<-((covered[1] - target[1]) \div 2), -((covered[2] - target[2]) \div 2)>>)
      [] r.mismatch = "pad" -> Plan(fitted, target, <<(target[1] - fitted[1]) \div 2, (target[2] - fitted[2]) \div 2>>)
      [] OTHER -> Plan(fitted, fitted, <<0, 0>>)

---------------------------------------------------------------------------
(* The state *)

NotStaged == [crop |-> NoCrop, framed |-> <<0, 0>>, plan |-> Plan(<<0, 0>>, <<0, 0>>, <<0, 0>>), resized |-> FALSE]
IsResult == canvas.kind = "result"

CropEditorInit ==
    /\ \E video \in CropVideos, f \in FramingSpecs, rotation \in Rotations, kind \in {"source", "result"} :
          /\ kind = "result" => rotation = 0
          /\ wanted = [framing |-> f, resize |-> [width |-> 0, height |-> 0, mismatch |-> "keep"], job |-> FALSE, video |-> video]
          /\ cutFacts = IF kind = "result" THEN FramedSize(f, video) ELSE video
          /\ crop = IF kind = "result" THEN NoCrop ELSE WholeFrame(video)
          /\ canvas = [kind |-> kind, rotation |-> rotation, on |-> kind = "source", lock |-> <<0, 0>>,
                       view |-> IF kind = "source" THEN [size |-> video, crop |-> WholeFrame(video)] ELSE NoView,
                       focused |-> "crop", dragged |-> "none", from |-> NoView]
    /\ staged = NotStaged /\ lastEdit = [by |-> "none", at |-> <<0, 0>>, raised |-> FALSE] /\ cropEdits = 0

\* _crop_edit_presentation, and present_crop.
ViewOf(c, size) == [size |-> size, crop |-> IF c = NoCrop THEN WholeFrame(size) ELSE c]

CropEdit == cropEdits < MaxCropEdits /\ cropEdits' = cropEdits + 1
Noted(handler, offset, raised) == lastEdit' = [by |-> handler, at |-> offset, raised |-> raised]
OtherStays == UNCHANGED <<cutFacts, wanted, staged>>

\* The state's crop becomes c, and the overlay is presented again; a job locks both.
PresentCrop(c, view) == crop' = c /\ canvas' = [canvas EXCEPT !.view = IF canvas.on THEN view ELSE @]

\* command_requested with CropChanged, which is clamped, or TransformChanged, which is not.
Emit(c, view) ==
    LET taken == IF IsResult THEN c ELSE ClampCrop(c, cutFacts) IN
    IF c = view.crop \/ wanted.job THEN UNCHANGED <<crop, canvas>>
    ELSE PresentCrop(taken, ViewOf(taken, cutFacts))

\* nudge_crop from a presentation, then _constrain with the one that is shown.
CandidateCrop(view, target, d) ==
    LET nudged == NudgeCrop(view.crop, target, d, view.size) IN
    IF canvas.lock = <<0, 0>> \/ ~IsValid(nudged) THEN nudged
    ELSE FitCropAspect(nudged, canvas.lock, target, canvas.view.size)

PressHandle ==
    /\ canvas.on /\ canvas.view # NoView /\ canvas.dragged = "none" /\ (~IsResult => ~wanted.job) /\ CropEdit
    /\ \E target \in CropHandles \cup {"crop"} :
          canvas' = [canvas EXCEPT !.focused = target, !.dragged = target, !.from = canvas.view]
    /\ Noted("press", <<0, 0>>, FALSE) /\ UNCHANGED crop /\ OtherStays

\* Mutant: a drag goes on from the crop that is shown.
DragFromShown(offset) ==
    LET d == <<RoundedHalves(offset[1]), RoundedHalves(offset[2])>>
        c == CandidateCrop(canvas.view, canvas.dragged, d) IN
    Noted("drag", offset, ~IsValid(c)) /\ IF IsValid(c) THEN Emit(c, canvas.view) ELSE UNCHANGED <<crop, canvas>>

\* mouseMoveEvent: what the offset from the press makes of the crop of then.
Drag(offset) ==
    LET d == <<RoundedHalves(offset[1]), RoundedHalves(offset[2])>>
        c == CandidateCrop(canvas.from, canvas.dragged, d) IN
    Noted("drag", offset, ~IsValid(c)) /\ IF IsValid(c) THEN Emit(c, canvas.view) ELSE UNCHANGED <<crop, canvas>>

MovePointer ==
    /\ canvas.on /\ canvas.dragged # "none" /\ canvas.view # NoView /\ CropEdit /\ OtherStays
    /\ (~IsResult => ~wanted.job) /\ \E offset \in Pointers : Drag(offset)

\* Mutant: the start of the drag is kept.
ReleaseKeepsStart ==
    /\ canvas.dragged # "none" /\ UNCHANGED <<crop, cropEdits>> /\ OtherStays
    /\ canvas' = [canvas EXCEPT !.dragged = "none"] /\ Noted("release", <<0, 0>>, FALSE)

ReleaseHandle ==
    /\ canvas.dragged # "none" /\ UNCHANGED <<crop, cropEdits>> /\ OtherStays
    /\ canvas' = [canvas EXCEPT !.dragged = "none", !.from = NoView] /\ Noted("release", <<0, 0>>, FALSE)

\* keyPressEvent.
PressArrow ==
    /\ canvas.on /\ canvas.view # NoView /\ (~IsResult => ~wanted.job) /\ CropEdit /\ OtherStays
    /\ \E d \in {<<-1, 0>>, <<1, 0>>, <<0, -1>>, <<0, 1>>} :
          LET c == CandidateCrop(canvas.view, canvas.focused, d) IN
          Noted("key", <<0, 0>>, ~IsValid(c)) /\ IF IsValid(c) THEN Emit(c, canvas.view) ELSE UNCHANGED <<crop, canvas>>

ResetCrop ==
    /\ ~IsResult /\ ~wanted.job /\ CropEdit /\ OtherStays
    /\ PresentCrop(WholeFrame(cutFacts), ViewOf(NoCrop, cutFacts)) /\ Noted("reset", <<0, 0>>, FALSE)

\* A new video: its crop is whole.  CropToggleChanged shows or hides the overlay.
LoadVideo ==
    /\ ~IsResult /\ ~wanted.job /\ CropEdit /\ UNCHANGED staged
    /\ \E video \in CropVideos \ {cutFacts} :
          /\ cutFacts' = video /\ wanted' = [wanted EXCEPT !.video = video]
          /\ crop' = WholeFrame(video) /\ canvas' = [canvas EXCEPT !.view = ViewOf(NoCrop, video)]
    /\ Noted("load", <<0, 0>>, FALSE)

---------------------------------------------------------------------------
(* The Transform group, and the result stage *)

\* The group is enabled; the mouse is not held on the canvas.
GroupEnabled == IsResult /\ ~wanted.job /\ canvas.dragged = "none"

ToggleOverlay ==
    /\ GroupEnabled /\ CropEdit /\ OtherStays /\ UNCHANGED crop
    /\ canvas' = [canvas EXCEPT !.on = ~@, !.view = IF canvas.on THEN NoView ELSE ViewOf(crop, cutFacts)]
    /\ Noted("toggle", <<0, 0>>, FALSE)

\* _aspect_changed.
ChooseAspect ==
    /\ GroupEnabled /\ CropEdit /\ OtherStays /\ Noted("aspect", <<0, 0>>, FALSE)
    /\ \/ \E ratio \in Ratios \ {canvas.lock} :
             LET c == CenteredCrop(ratio, cutFacts) IN
             /\ crop' = c
             /\ canvas' = [canvas EXCEPT !.lock = ratio, !.view = IF canvas.on /\ c # crop THEN ViewOf(c, cutFacts) ELSE @]
       \/ canvas.lock # <<0, 0>> /\ canvas' = [canvas EXCEPT !.lock = <<0, 0>>] /\ UNCHANGED crop

\* One spin box of the crop changes; the others show the crop within their ranges.
Shown(c, size) ==
    LET d == IF c = NoCrop THEN WholeFrame(size) ELSE c IN
    CropSpec(Bounded(d.x, 0, size[1] - 1), Bounded(d.y, 0, size[2] - 1), Bounded(d.w, 1, size[1]), Bounded(d.h, 1, size[2]))
EditField ==
    /\ GroupEnabled /\ CropEdit /\ OtherStays /\ Noted("field", <<0, 0>>, FALSE)
    /\ LET s == Shown(crop, cutFacts) IN
       \E c \in {[s EXCEPT !.x = v] : v \in 0..(cutFacts[1] - 1)} \cup {[s EXCEPT !.y = v] : v \in 0..(cutFacts[2] - 1)}
                \cup {[s EXCEPT !.w = v] : v \in 1..cutFacts[1]} \cup {[s EXCEPT !.h = v] : v \in 1..cutFacts[2]} :
          c # s /\ PresentCrop(c, ViewOf(c, cutFacts))

ChooseResize ==
    /\ GroupEnabled /\ CropEdit /\ UNCHANGED <<crop, canvas, cutFacts, staged>>
    /\ \E r \in Resizes \ {wanted.resize} : wanted' = [wanted EXCEPT !.resize = r]
    /\ Noted("resize", <<0, 0>>, FALSE)
EditFraming ==
    /\ GroupEnabled /\ CropEdit /\ UNCHANGED <<crop, canvas, cutFacts, staged>>
    /\ \E f \in FramingSpecs \ {wanted.framing} : wanted' = [wanted EXCEPT !.framing = f]
    /\ Noted("framing", <<0, 0>>, FALSE)

\* Mutant: the overlay keeps the frame it was opened on.
TakeFactsOnly ==
    LET size == FramedSize(wanted.framing, wanted.video)
        c == IF crop = NoCrop \/ wanted.job THEN crop ELSE ClampCrop(crop, size) IN
    cutFacts' = size /\ PresentCrop(c, IF c = crop THEN canvas.view ELSE ViewOf(c, cutFacts))

\* _facts_ready: the crop is clamped, which a job refuses, then presented.
TakeFacts ==
    LET size == FramedSize(wanted.framing, wanted.video)
        c == IF crop = NoCrop \/ wanted.job THEN crop ELSE ClampCrop(crop, size) IN
    cutFacts' = size /\ PresentCrop(c, ViewOf(c, size))

FactsAreReady ==
    /\ IsResult /\ cutFacts # FramedSize(wanted.framing, wanted.video) /\ TakeFacts
    /\ Noted("facts", <<0, 0>>, FALSE) /\ UNCHANGED <<wanted, staged, cropEdits>>

\* Mutant: what is staged is the crop as it was stored.
StageUnclamped ==
    LET framed == FramedSize(wanted.framing, wanted.video)
        c == crop
        size == IF c = NoCrop THEN framed ELSE <<c.w, c.h>>
        resized == wanted.resize.width + wanted.resize.height > 0
        plan == IF resized THEN ResolveResize(size, wanted.resize) ELSE Plan(size, size, <<0, 0>>) IN
    staged' = [crop |-> c, framed |-> framed, plan |-> plan, resized |-> resized]

\* stage_encoder_frames and _stage_frame: validate_for refuses a final size out of bounds.
StageFrames ==
    LET framed == FramedSize(wanted.framing, wanted.video)
        c == IF crop = NoCrop THEN crop ELSE ClampCrop(crop, framed)
        size == IF c = NoCrop THEN framed ELSE <<c.w, c.h>>
        resized == wanted.resize.width + wanted.resize.height > 0
        plan == IF resized THEN ResolveResize(size, wanted.resize) ELSE Plan(size, size, <<0, 0>>) IN
    staged' = IF plan.canvas[1] < MinFinal \/ plan.canvas[2] < MinFinal THEN NotStaged
              ELSE [crop |-> c, framed |-> framed, plan |-> plan, resized |-> resized]

StartCropJob ==
    /\ ~wanted.job /\ CropEdit /\ UNCHANGED <<crop, canvas, cutFacts>>
    /\ wanted' = [wanted EXCEPT !.job = TRUE] /\ Noted("job", <<0, 0>>, FALSE)
    /\ IF IsResult THEN StageFrames ELSE UNCHANGED staged
EndCropJob ==
    /\ wanted.job /\ UNCHANGED <<crop, canvas, cutFacts, cropEdits, staged>>
    /\ wanted' = [wanted EXCEPT !.job = FALSE] /\ Noted("idle", <<0, 0>>, FALSE)

CropEditorNext ==
    \/ PressHandle \/ MovePointer \/ ReleaseHandle \/ PressArrow \/ ResetCrop \/ LoadVideo
    \/ ToggleOverlay \/ ChooseAspect \/ EditField \/ ChooseResize \/ EditFraming \/ FactsAreReady
    \/ StartCropJob \/ EndCropJob

CropEditorSpec == CropEditorInit /\ [][CropEditorNext]_cropVars

---------------------------------------------------------------------------
(* Properties *)

\* Types of the variables: every crop the state holds was accepted by CropSpec.
CropTypeOK ==
    /\ \A c \in {crop, staged.crop} : c = NoCrop \/ IsValid(c)
    /\ canvas.focused \in CropHandles \cup {"crop"} /\ canvas.dragged \in {canvas.focused, "none"}
    /\ (canvas.dragged = "none") => canvas.from = NoView

\* The overlay is drawn over the crop and the frame the state holds: after an
\* edit, after new facts and after a refused edit, in the middle of a drag too.
OverlayIsCurrent == canvas.on => canvas.view = ViewOf(crop, cutFacts)

\* What is drawn, by way of the raw coordinates of a turned video, is the crop.
DrawnWhereItCrops ==
    canvas.on /\ FitsIn(canvas.view.crop, canvas.view.size) =>
        DrawnRect(canvas.view.crop, canvas.rotation, canvas.view.size) = canvas.view.crop

\* A drag that returns to where it began restores the crop, whatever lay
\* between: it is computed from the press, never from the last move.
DragHasNoDrift ==
    lastEdit.by = "drag" /\ lastEdit.at = <<0, 0>> /\ canvas.dragged # "none" /\ canvas.lock = <<0, 0>>
        /\ ~wanted.job /\ canvas.from.size = canvas.view.size /\ FitsIn(canvas.from.crop, canvas.from.size)
    => canvas.view.crop = canvas.from.crop

\* The canvas never makes a crop that leaves the frame of one that is in it.
CanvasKeepsCropInside ==
    [][ /\ lastEdit'.by \in {"drag", "key"} /\ crop' # crop
        /\ FitsIn(canvas.view.crop, cutFacts) /\ canvas.from \in {NoView} \cup [size : {cutFacts}, crop : {canvas.from.crop}]
        /\ FitsIn(canvas.from.crop, cutFacts)
        => FitsIn(crop', cutFacts) ]_cropVars

\* The encoder is handed a crop inside the framed frame, even when the fields
\* or a framing edit during a job left the stored one outside; scaled frames
\* cover the canvas or lie on it, as the mismatch asks.
StagedFits ==
    /\ staged.crop # NoCrop => FitsIn(staged.crop, staged.framed)
    /\ LET p == staged.plan IN
       \A i \in {1, 2} :
          \/ p.offset[i] <= 0 /\ p.offset[i] + p.scaled[i] >= p.canvas[i]
          \/ p.offset[i] >= 0 /\ p.offset[i] + p.scaled[i] <= p.canvas[i]

\* "The result is always clamped to the source and has both dimensions >= 1"
\* (core/crop.py, fit_crop_aspect): an edit under an aspect lock does not fail.
LockedEditNeverFails == canvas.lock # <<0, 0>> => ~lastEdit.raised

\* The crop that is drawn, the one that is stored and the one that is encoded
\* are the same, inside the frame, over drags, turns and new frames.
CropEditorCorrect ==
    /\ [](/\ CropTypeOK
          /\ OverlayIsCurrent
          /\ DrawnWhereItCrops
          /\ DragHasNoDrift
          /\ StagedFits)
    /\ CanvasKeepsCropInside
=============================================================================
