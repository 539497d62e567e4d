----------------------------- MODULE AppStore -----------------------------
(***************************************************************************)
(* ReducerStore (ui/store.py) over the reducer: the application state app, *)
(* and a dispatch of any event at any time.  Nothing is assumed of who     *)
(* sends an event or when, so late, duplicated and superseded worker       *)
(* results are all among the behaviours.                                   *)
(***************************************************************************)
EXTENDS AppReducer

VARIABLE app

Init == \E v \in Settings, available, supports \in BOOLEAN :
            app = FreshState("EMPTY", None, None, v, available, supports)

SourceLoadRequested == \E i \in SourceIds, r \in RequestIds :
    app' = OnSourceLoadRequested(app, i, r)

SourceLoaded == \E i \in SourceIds, r \in RequestIds :
    app' = OnSourceLoaded(app, i, r)

SourceLoadFailed == \E i \in SourceIds, r \in RequestIds :
    app' = OnSourceLoadFailed(app, i, r)

ModelAvailabilityChanged == \E available, supports \in BOOLEAN :
    app' = OnModelAvailabilityChanged(app, available, supports)

SettingChanged == \E v \in Settings, other_model \in BOOLEAN :
    app' = OnSettingChanged(app, v, other_model)

ExecutionProviderChanged == \E v \in Settings :
    app' = OnExecutionProviderChanged(app, v)

PreviewInvalidated == \E c \in Reasons :
    app' = OnPreviewInvalidated(app, c)

PreviewRequested == \E j \in JobIds, r \in RequestIds, prep \in BOOLEAN :
    app' = OnPreviewRequested(app, j, r, prep)

ModelPrepared == \E j \in JobIds, i \in SourceIds, r \in RequestIds :
    app' = OnModelPrepared(app, j, i, r)

JobStageChanged ==
    \E j \in JobIds, i \in SourceIds, r \in RequestIds, seg \in BOOLEAN :
        app' = OnJobStageChanged(app, j, i, r, seg)

PreviewSucceeded == \E j \in JobIds, result \in PreviewResults :
    app' = OnPreviewSucceeded(app, j, result)

PreviewFailed == \E j \in JobIds, i \in SourceIds, r \in RequestIds :
    app' = OnPreviewFailed(app, j, i, r)

RenderPreflightRequested == app' = OnRenderPreflightRequested(app)

RenderPreflightDismissed == app' = OnRenderPreflightDismissed(app)

RenderRequested == \E j \in JobIds, r \in RequestIds :
    app' = OnRenderRequested(app, j, r)

RebuildRequested == \E j \in JobIds, r \in RequestIds, picked \in BOOLEAN :
    app' = OnRebuildRequested(app, j, r, picked)

RenderSucceeded == \E j \in JobIds, result \in ArtifactResults :
    app' = OnRenderSucceeded(app, j, result)

RenderFailed == \E j \in JobIds, i \in SourceIds, r \in RequestIds :
    app' = OnRenderFailed(app, j, i, r)

CancelRequested == \E j \in JobIds : app' = OnCancelRequested(app, j)

CancelAcknowledged == \E j \in JobIds : app' = OnCancelAcknowledged(app, j)

EditedCutsScanRequested ==
    \E i \in SourceIds, a, r \in RequestIds :
        app' = OnEditedCutsScanRequested(app, i, a, r)

EditedCutsChanged ==
    \E i \in SourceIds, a, r \in RequestIds, detected, error \in BOOLEAN :
        app' = OnEditedCutsChanged(app, i, a, r, detected, error)

Next ==
    \/ SourceLoadRequested \/ SourceLoaded \/ SourceLoadFailed
    \/ ModelAvailabilityChanged \/ SettingChanged
    \/ ExecutionProviderChanged
    \/ PreviewInvalidated \/ PreviewRequested \/ ModelPrepared
    \/ JobStageChanged \/ PreviewSucceeded \/ PreviewFailed
    \/ RenderPreflightRequested \/ RenderPreflightDismissed
    \/ RenderRequested \/ RebuildRequested
    \/ RenderSucceeded \/ RenderFailed
    \/ CancelRequested \/ CancelAcknowledged
    \/ EditedCutsScanRequested \/ EditedCutsChanged

Spec == Init /\ [][Next]_app

---------------------------------------------------------------------------
(* Properties.                                                             *)

\* Type correctness of the application state.
TypeOK == app \in AppStates

\* The four checks AppState.__post_init__ makes on every state it builds
\* (core/state.py:151-203); one that fails raises ValueError inside reduce(),
\* in the middle of a dispatch.
ValidSource(s) ==
    /\ s.source = "LOADING" =>
          s.source_id # None /\ s.source_request_id # None
    /\ s.source = "READY" => s.source_id # None /\ s.source_value
    /\ s.source = "ERROR" =>
          s.source_id # None /\ s.source_request_id # None /\ s.source_error
ValidPreview(s) ==
    /\ s.preview \in {"CURRENT", "STALE"} =>
          /\ s.preview_result # None
          /\ s.preview_request_id = s.preview_result.request_id
          /\ s.source_id = s.preview_result.source_id
    /\ s.preview = "ERROR" => s.preview_error /\ s.preview_request_id # None
    /\ s.preview = "RUNNING" => s.job.kind = "PREVIEW"
ValidJob(s) ==
    IF Idle(s)
    THEN s.job.job_id = None /\ s.job.kind = None /\ s.job_request_id = None
    ELSE /\ s.job.job_id # None
         /\ s.job.kind # None
         /\ s.job_request_id # None
         /\ s.source = "READY"
ValidArtifact(s) ==
    /\ s.artifact = "VALID" =>
          /\ s.source = "READY"
          /\ s.artifact_result # None
          /\ s.source_id = s.artifact_result.source_id
    /\ s.edited_cuts => s.artifact = "VALID"
Valid(s) ==
    ValidSource(s) /\ ValidPreview(s) /\ ValidJob(s) /\ ValidArtifact(s)

\* No sequence of events, in whatever order and however late the workers'
\* results come, makes reduce() raise: every state it builds is valid.
NeverRaises == Valid(app)

\* While a preview runs the last result stays visible, and what a cancel or
\* a failure would restore is exactly that result.
LastResultStaysVisible ==
    app.preview = "RUNNING" =>
        /\ app.preview_before_job # None
        /\ app.preview_before_job.phase # "RUNNING"
        /\ app.preview_before_job.result = app.preview_result

\* A preview the user has seen is lost only to a newer current preview or to
\* a new source: a failed, cancelled or superseded attempt never discards it.
KeepsShownPreview ==
    [][app.preview_result # None /\ app'.source # "LOADING" =>
          \/ app'.preview_result = app.preview_result
          \/ app'.preview = "CURRENT" /\ app'.preview_result # None]_app

\* A rendered artifact survives every later attempt: a failed or cancelled
\* render or rebuild leaves the earlier one open-able until a new source.
KeepsArtifact ==
    [][app.artifact = "VALID" /\ app'.source # "LOADING" =>
          app'.artifact = "VALID" /\ app'.artifact_result # None]_app

\* reduce() loses no result: neither a shown preview nor an artifact.
KeepsResults == KeepsShownPreview /\ KeepsArtifact
===========================================================================
