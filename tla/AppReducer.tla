---------------------------- MODULE AppReducer ----------------------------
(***************************************************************************)
(* The pure reducer of core/state.py: the immutable AppState as a record,  *)
(* and one operator per event that maps a state to the state reduce()      *)
(* returns for it.  An ignored event returns the state unchanged, as       *)
(* reduce() does.  AppStore dispatches every event in any order;           *)
(* JobLifecycle dispatches those its controllers and workers produce.      *)
(*                                                                         *)
(* Abstracted: everything a preview depends on besides the source (crop,   *)
(* timeline, parameters) is the one field settings; a preview's pixels are *)
(* the settings they were made with; an error is present or absent; focus  *)
(* intents, stages and the summary of an artifact are left out.            *)
(***************************************************************************)
EXTENDS Naturals, FiniteSets

CONSTANTS
    SourceIds,      \* identities of loaded sources
    RequestIds,     \* identities of source, preview, render and scan requests
    JobIds,         \* identities of jobs
    Settings,       \* values of everything the editor can change
    None            \* Python's None

SourceStates   == {"EMPTY", "LOADING", "READY", "ERROR"}
PreviewStates  == {"NONE", "RUNNING", "CURRENT", "STALE", "ERROR"}
JobPhases      == {"IDLE", "PREPARING_MODEL", "PREVIEWING", "RENDERING",
                   "CANCELLING"}
ArtifactStates == {"NONE", "VALID", "ERROR"}
JobKinds       == {"PREVIEW", "RENDER", "REBUILD"}
\* tokens.PreviewInvalidationReason: the editor's categories are one value.
Reasons        == {"SETTING", "PREVIEW_FAILED", "EDITED_CUTS"}

PreviewResults  == [source_id: SourceIds, request_id: RequestIds,
                    value: Settings]
ArtifactResults == [source_id: SourceIds, request_id: RequestIds]

PreviewSnapshots ==
    [phase: PreviewStates, result: PreviewResults \cup {None},
     request_id: RequestIds \cup {None}, error: BOOLEAN,
     attempt_error: BOOLEAN, stale_category: Reasons \cup {None}]

ActiveJobs == [job_id: JobIds \cup {None}, kind: JobKinds \cup {None},
               phase: JobPhases]

AppStates ==
    [source: SourceStates,
     source_id: SourceIds \cup {None},
     source_request_id: RequestIds \cup {None},
     source_value: BOOLEAN,
     source_error: BOOLEAN,
     settings: Settings,
     model_available: BOOLEAN,
     model_supports_render: BOOLEAN,
     preview: PreviewStates,
     preview_result: PreviewResults \cup {None},
     preview_request_id: RequestIds \cup {None},
     preview_error: BOOLEAN,
     preview_attempt_error: BOOLEAN,
     stale_category: Reasons \cup {None},
     preview_before_job: PreviewSnapshots \cup {None},
     job: ActiveJobs,
     job_request_id: RequestIds \cup {None},
     artifact: ArtifactStates,
     artifact_result: ArtifactResults \cup {None},
     artifact_error: BOOLEAN,
     preflight_warning: BOOLEAN,
     edited_cuts: BOOLEAN,
     edited_cuts_error: BOOLEAN,
     edited_cuts_request_id: RequestIds \cup {None}]

\* None is none of the values it stands beside.
ASSUME NoneIsNoValue ==
    /\ None \notin SourceIds
    /\ None \notin RequestIds
    /\ None \notin JobIds
    /\ None \notin JobKinds
    /\ None \notin Reasons
    /\ None \notin PreviewResults
    /\ None \notin ArtifactResults
    /\ None \notin PreviewSnapshots

NoJob == [job_id |-> None, kind |-> None, phase |-> "IDLE"]

\* AppState() with the fields a new source keeps.
FreshState(source, source_id, request_id, settings, available, supports) ==
    [source |-> source, source_id |-> source_id,
     source_request_id |-> request_id, source_value |-> FALSE,
     source_error |-> FALSE, settings |-> settings,
     model_available |-> available, model_supports_render |-> supports,
     preview |-> "NONE", preview_result |-> None, preview_request_id |-> None,
     preview_error |-> FALSE, preview_attempt_error |-> FALSE,
     stale_category |-> None, preview_before_job |-> None,
     job |-> NoJob, job_request_id |-> None,
     artifact |-> "NONE", artifact_result |-> None, artifact_error |-> FALSE,
     preflight_warning |-> FALSE, edited_cuts |-> FALSE,
     edited_cuts_error |-> FALSE, edited_cuts_request_id |-> None]

---------------------------------------------------------------------------
(* Capabilities and identity matches.                                      *)

Idle(s)  == s.job.phase = "IDLE"
Ready(s) == s.source = "READY" /\ s.source_id # None /\ s.source_value

\* Mutant: the editor is not locked while a job runs.
CanEditWhileRunning(s) == Ready(s)

CanEdit(s)    == Idle(s) /\ Ready(s)
CanPreview(s) == CanEdit(s)
CanRender(s)  == CanEdit(s) /\ s.model_available /\ s.model_supports_render
HasArtifact(s) ==
    /\ CanEdit(s)
    /\ s.artifact = "VALID"
    /\ s.artifact_result # None
    /\ s.artifact_result.source_id = s.source_id
CanRebuild(s) ==
    /\ HasArtifact(s)
    /\ s.edited_cuts
    /\ ~s.edited_cuts_error
    /\ s.edited_cuts_request_id = None
\* A cut set picked in the workspace dialog needs no edited artifact.
CanStartSelectedRebuild(s, picked) ==
    picked /\ CanEdit(s) /\ s.model_supports_render

MatchesSourceRequest(s, source_id, request_id) ==
    /\ s.source = "LOADING"
    /\ s.source_id = source_id
    /\ s.source_request_id = request_id

\* Mutant: a result of any request of the job.
MatchesJobOfAnyRequest(s, job_id, kinds, source_id, request_id) ==
    /\ ~Idle(s)
    /\ s.job.job_id = job_id
    /\ s.job.kind \in kinds
    /\ s.source_id = source_id

MatchesJob(s, job_id, kinds, source_id, request_id) ==
    /\ ~Idle(s)
    /\ s.job.job_id = job_id
    /\ s.job.kind \in kinds
    /\ s.source_id = source_id
    /\ s.job_request_id = request_id

MatchesArtifact(s, source_id, artifact_request_id) ==
    /\ s.artifact = "VALID"
    /\ s.artifact_result # None
    /\ s.source_id = source_id
    /\ s.artifact_result.source_id = source_id
    /\ s.artifact_result.request_id = artifact_request_id

\* Mutants: two fields swapped; the result left out.
SnapshotSwapped(s) ==
    [phase |-> s.preview, result |-> s.preview_request_id,
     request_id |-> s.preview_result, error |-> s.preview_error,
     attempt_error |-> s.preview_attempt_error,
     stale_category |-> s.stale_category]
SnapshotWithoutResult(s) ==
    [phase |-> s.preview, result |-> None,
     request_id |-> s.preview_request_id, error |-> s.preview_error,
     attempt_error |-> s.preview_attempt_error,
     stale_category |-> s.stale_category]

Snapshot(s) ==
    [phase |-> s.preview, result |-> s.preview_result,
     request_id |-> s.preview_request_id, error |-> s.preview_error,
     attempt_error |-> s.preview_attempt_error,
     stale_category |-> s.stale_category]

---------------------------------------------------------------------------
(* reduce(): source, model and editor events.                              *)

OnSourceLoadRequested(s, source_id, request_id) ==
    IF Idle(s)
    THEN FreshState("LOADING", source_id, request_id, s.settings,
                    s.model_available, s.model_supports_render)
    ELSE s

OnSourceLoaded(s, source_id, request_id) ==
    IF MatchesSourceRequest(s, source_id, request_id)
    THEN [s EXCEPT !.source = "READY", !.source_value = TRUE,
                   !.source_error = FALSE]
    ELSE s

OnSourceLoadFailed(s, source_id, request_id) ==
    IF MatchesSourceRequest(s, source_id, request_id)
    THEN [s EXCEPT !.source = "ERROR", !.source_value = FALSE,
                   !.source_error = TRUE]
    ELSE s

OnModelAvailabilityChanged(s, available, supports) ==
    [s EXCEPT !.model_available = available,
              !.model_supports_render = supports]

OnPreviewInvalidated(s, category) ==
    IF s.preview = "CURRENT"
    THEN [s EXCEPT !.preview = "STALE", !.stale_category = category]
    ELSE s

\* Crop, timeline and parameter events: accepted only while the editor is
\* unlocked, and every change of a value goes through PreviewInvalidated.
\* Another model is not known to be available.
Edited(s, value, other_model) ==
    IF other_model
    THEN [s EXCEPT !.settings = value, !.model_available = FALSE]
    ELSE [s EXCEPT !.settings = value]

OnSettingChanged(s, value, other_model) ==
    IF CanEdit(s) /\ value # s.settings
    THEN OnPreviewInvalidated(Edited(s, value, other_model), "SETTING")
    ELSE s

\* The execution provider needs no source, only that no job runs.
OnExecutionProviderChanged(s, value) ==
    IF Idle(s) /\ value # s.settings
    THEN OnPreviewInvalidated([s EXCEPT !.settings = value], "SETTING")
    ELSE s

---------------------------------------------------------------------------
(* reduce(): preview jobs.                                                 *)

OnPreviewRequested(s, job_id, request_id, requires_preparation) ==
    IF CanPreview(s)
    THEN [s EXCEPT
            !.preview = "RUNNING",
            !.preview_error = FALSE,
            !.preview_attempt_error = FALSE,
            !.preview_before_job = Snapshot(s),
            !.preview_request_id = request_id,
            !.job = [job_id |-> job_id, kind |-> "PREVIEW",
                     phase |-> IF requires_preparation \/ ~s.model_available
                               THEN "PREPARING_MODEL" ELSE "PREVIEWING"],
            !.job_request_id = request_id,
            !.preflight_warning = FALSE]
    ELSE s

OnModelPrepared(s, job_id, source_id, request_id) ==
    IF /\ MatchesJob(s, job_id, {"PREVIEW"}, source_id, request_id)
       /\ s.job.phase = "PREPARING_MODEL"
    THEN [s EXCEPT !.model_available = TRUE, !.job.phase = "PREVIEWING"]
    ELSE s

\* Of the stages only SEGMENTATION moves the phase.
OnJobStageChanged(s, job_id, source_id, request_id, segmentation) ==
    IF /\ MatchesJob(s, job_id, JobKinds, source_id, request_id)
       /\ s.job.phase = "PREPARING_MODEL"
       /\ segmentation
    THEN [s EXCEPT !.job.phase = "PREVIEWING"]
    ELSE s

OnPreviewSucceeded(s, job_id, result) ==
    IF MatchesJob(s, job_id, {"PREVIEW"}, result.source_id, result.request_id)
    THEN [s EXCEPT
            !.preview = "CURRENT",
            !.preview_result = result,
            !.preview_error = FALSE,
            !.preview_attempt_error = FALSE,
            !.stale_category = None,
            !.preview_before_job = None,
            !.job = NoJob,
            !.job_request_id = None]
    ELSE s

\* Mutant: a failed attempt shows only its error.
OnPreviewFailedForgets(s, job_id, source_id, request_id) ==
    IF MatchesJob(s, job_id, {"PREVIEW"}, source_id, request_id)
    THEN [s EXCEPT
            !.preview = "ERROR", !.preview_result = None,
            !.preview_request_id = request_id, !.preview_error = TRUE,
            !.preview_attempt_error = TRUE, !.stale_category = None,
            !.preview_before_job = None,
            !.job = NoJob, !.job_request_id = None]
    ELSE s

\* A failed attempt shows the previous result again, as stale; without one
\* it shows the error.
OnPreviewFailed(s, job_id, source_id, request_id) ==
    LET previous == s.preview_before_job
        kept     == previous # None /\ previous.result # None
    IN  IF MatchesJob(s, job_id, {"PREVIEW"}, source_id, request_id)
        THEN [s EXCEPT
                !.preview = IF kept THEN "STALE" ELSE "ERROR",
                !.preview_result = IF kept THEN previous.result ELSE None,
                !.preview_request_id = IF kept THEN previous.request_id
                                               ELSE request_id,
                !.preview_error = ~kept,
                !.preview_attempt_error = TRUE,
                !.stale_category = IF kept THEN "PREVIEW_FAILED" ELSE None,
                !.preview_before_job = None,
                !.job = NoJob,
                !.job_request_id = None]
        ELSE s

---------------------------------------------------------------------------
(* reduce(): render and rebuild jobs, cancellation, edited cuts.           *)

OnRenderPreflightRequested(s) ==
    IF CanRender(s) THEN [s EXCEPT !.preflight_warning = TRUE] ELSE s

OnRenderPreflightDismissed(s) == [s EXCEPT !.preflight_warning = FALSE]

StartRender(s, job_id, request_id, kind) ==
    [s EXCEPT !.job = [job_id |-> job_id, kind |-> kind,
                       phase |-> "RENDERING"],
              !.job_request_id = request_id,
              !.preflight_warning = FALSE]

OnRenderRequested(s, job_id, request_id) ==
    IF CanRender(s) THEN StartRender(s, job_id, request_id, "RENDER") ELSE s

OnRebuildRequested(s, job_id, request_id, picked) ==
    IF CanRebuild(s) \/ CanStartSelectedRebuild(s, picked)
    THEN StartRender(s, job_id, request_id, "REBUILD")
    ELSE s

\* Mutant: the result of a rebuild is not expected.
OnRenderSucceededOfRender(s, job_id, result) ==
    IF MatchesJob(s, job_id, {"RENDER"},
                  result.source_id, result.request_id)
    THEN [s EXCEPT
            !.job = NoJob,
            !.job_request_id = None,
            !.artifact = "VALID",
            !.artifact_result = result,
            !.artifact_error = FALSE,
            !.edited_cuts = FALSE,
            !.edited_cuts_error = FALSE,
            !.edited_cuts_request_id = None,
            !.preflight_warning = FALSE]
    ELSE s

OnRenderSucceeded(s, job_id, result) ==
    IF MatchesJob(s, job_id, {"RENDER", "REBUILD"},
                  result.source_id, result.request_id)
    THEN [s EXCEPT
            !.job = NoJob,
            !.job_request_id = None,
            !.artifact = "VALID",
            !.artifact_result = result,
            !.artifact_error = FALSE,
            !.edited_cuts = FALSE,
            !.edited_cuts_error = FALSE,
            !.edited_cuts_request_id = None,
            !.preflight_warning = FALSE]
    ELSE s

\* Mutant: a failed render hides the artifact of an earlier one.
OnRenderFailedForgets(s, job_id, source_id, request_id) ==
    IF MatchesJob(s, job_id, {"RENDER", "REBUILD"}, source_id, request_id)
    THEN [s EXCEPT
            !.job = NoJob, !.job_request_id = None, !.artifact = "ERROR",
            !.artifact_error = TRUE, !.preflight_warning = FALSE]
    ELSE s

OnRenderFailed(s, job_id, source_id, request_id) ==
    IF MatchesJob(s, job_id, {"RENDER", "REBUILD"}, source_id, request_id)
    THEN [s EXCEPT
            !.job = NoJob,
            !.job_request_id = None,
            !.artifact = IF s.artifact_result # None THEN "VALID"
                                                     ELSE "ERROR",
            !.artifact_error = TRUE,
            !.preflight_warning = FALSE]
    ELSE s

OnCancelRequested(s, job_id) ==
    IF job_id = s.job.job_id /\ s.job.phase \notin {"IDLE", "CANCELLING"}
    THEN [s EXCEPT !.job.phase = "CANCELLING"]
    ELSE s

\* A cancelled preview gives back the preview that was shown before it.
OnCancelAcknowledged(s, job_id) ==
    LET previous == s.preview_before_job
        idle     == [s EXCEPT !.preview_before_job = None, !.job = NoJob,
                              !.job_request_id = None]
        restored == [idle EXCEPT
                       !.preview = previous.phase,
                       !.preview_result = previous.result,
                       !.preview_request_id = previous.request_id,
                       !.preview_error = previous.error,
                       !.preview_attempt_error = previous.attempt_error,
                       !.stale_category = previous.stale_category]
    IN  IF job_id = s.job.job_id /\ s.job.phase = "CANCELLING"
        THEN IF s.job.kind = "PREVIEW" /\ previous # None
             THEN restored ELSE idle
        ELSE s

OnEditedCutsScanRequested(s, source_id, artifact_request_id, request_id) ==
    IF MatchesArtifact(s, source_id, artifact_request_id)
    THEN [s EXCEPT !.edited_cuts_request_id = request_id]
    ELSE s

OnEditedCutsChanged(s, source_id, artifact, request_id, detected, error) ==
    IF /\ MatchesArtifact(s, source_id, artifact)
       /\ s.edited_cuts_request_id = request_id
    THEN LET stale == detected /\ s.preview = "CURRENT"
         IN  [s EXCEPT
                !.preview = IF stale THEN "STALE" ELSE @,
                !.stale_category = IF stale THEN "EDITED_CUTS" ELSE @,
                !.edited_cuts = detected,
                !.edited_cuts_error = error,
                !.edited_cuts_request_id = None]
    ELSE s
===========================================================================
