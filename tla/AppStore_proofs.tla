-------------------------- MODULE AppStore_proofs --------------------------
(***************************************************************************)
(* For every set of sources, requests, jobs and settings, and every order  *)
(* in which events are dispatched: the state has its type, reduce() never  *)
(* raises, a running preview keeps the last result visible, and neither a  *)
(* shown preview nor an artifact is lost before the next source.           *)
(*                                                                         *)
(* Valid is not inductive: a failed or cancelled preview restores a        *)
(* snapshot, which must be one that would be valid now, and a render       *)
(* failure decides by artifact_result what the artifact was.  Consistent   *)
(* says how the snapshot, the job and the results belong together.         *)
(***************************************************************************)
EXTENDS AppStore, AppReducer_proofs

\* Nothing is shown of a source that is not ready, and no job runs on it.
QuietUnlessReady(s) ==
    s.source # "READY" =>
        /\ s.preview = "NONE"
        /\ s.artifact = "NONE"
        /\ Idle(s)

\* A preview job, a running preview and a kept snapshot are the same thing.
RunningHasJob(s) ==
    /\ s.job.kind = "PREVIEW" => s.preview = "RUNNING"
    /\ s.preview = "RUNNING" <=> s.preview_before_job # None
    /\ s.preview = "RUNNING" => s.preview_request_id = s.job_request_id

\* A preview that is neither shown nor running has no result.
ResultIsShown(s) == s.preview \in {"NONE", "ERROR"} => s.preview_result = None

\* The snapshot is a preview state that is valid for the source shown now.
SnapshotIsValid(s) ==
    LET p == s.preview_before_job
    IN  p # None =>
            /\ p.phase # "RUNNING"
            /\ p.result = s.preview_result
            /\ p.phase \in {"CURRENT", "STALE"} =>
                  /\ p.result # None
                  /\ p.request_id = p.result.request_id
                  /\ p.result.source_id = s.source_id
            /\ p.phase = "ERROR" => p.error /\ p.request_id # None
            /\ p.phase \in {"NONE", "ERROR"} => p.result = None

\* A result of a render is the artifact, and belongs to the source.
ArtifactIsResult(s) ==
    s.artifact_result # None =>
        /\ s.artifact = "VALID"
        /\ s.source_id = s.artifact_result.source_id

Consistent(s) ==
    /\ QuietUnlessReady(s)
    /\ RunningHasJob(s)
    /\ ResultIsShown(s)
    /\ SnapshotIsValid(s)
    /\ ArtifactIsResult(s)

IInv == TypeOK /\ Valid(app) /\ Consistent(app)

---------------------------------------------------------------------------
(* The theorems.                                                           *)

\* The store's state has its type, whatever is dispatched.
THEOREM Typing == Spec => []TypeOK
<1>1. Init => TypeOK
  BY FreshStateType, ZenonT(60) DEF Init, TypeOK, SourceStates
<1>2. TypeOK /\ [Next]_app => TypeOK'
  <2> SUFFICES ASSUME TypeOK, [Next]_app
               PROVE  TypeOK'
    OBVIOUS
  <2> USE DEF TypeOK
  <2>1. CASE SourceLoadRequested
    BY <2>1, SourceType DEF SourceLoadRequested
  <2>2. CASE SourceLoaded
    BY <2>2, SourceType DEF SourceLoaded
  <2>3. CASE SourceLoadFailed
    BY <2>3, SourceType DEF SourceLoadFailed
  <2>4. CASE ModelAvailabilityChanged
    BY <2>4, AvailabilityType DEF ModelAvailabilityChanged
  <2>5. CASE SettingChanged
    BY <2>5, EditorType DEF SettingChanged
  <2>6. CASE ExecutionProviderChanged
    BY <2>6, EditorType DEF ExecutionProviderChanged
  <2>7. CASE PreviewInvalidated
    BY <2>7, InvalidatedType DEF PreviewInvalidated
  <2>8. CASE PreviewRequested
    BY <2>8, PreviewRequestedType DEF PreviewRequested
  <2>9. CASE ModelPrepared
    BY <2>9, ProgressType DEF ModelPrepared
  <2>10. CASE JobStageChanged
    BY <2>10, ProgressType DEF JobStageChanged
  <2>11. CASE PreviewSucceeded
    BY <2>11, PreviewSucceededType DEF PreviewSucceeded
  <2>12. CASE PreviewFailed
    BY <2>12, PreviewFailedType DEF PreviewFailed
  <2>13. CASE RenderPreflightRequested
    BY <2>13, PreflightType DEF RenderPreflightRequested
  <2>14. CASE RenderPreflightDismissed
    BY <2>14, PreflightType DEF RenderPreflightDismissed
  <2>15. CASE RenderRequested
    BY <2>15, RenderRequestedType DEF RenderRequested
  <2>16. CASE RebuildRequested
    BY <2>16, RenderRequestedType DEF RebuildRequested
  <2>17. CASE RenderSucceeded
    BY <2>17, RenderSucceededType DEF RenderSucceeded
  <2>18. CASE RenderFailed
    BY <2>18, RenderFailedType DEF RenderFailed
  <2>19. CASE CancelRequested
    BY <2>19, CancelType DEF CancelRequested
  <2>20. CASE CancelAcknowledged
    BY <2>20, RestoreType DEF CancelAcknowledged
  <2>21. CASE EditedCutsScanRequested
    BY <2>21, EditedCutsType DEF EditedCutsScanRequested
  <2>22. CASE EditedCutsChanged
    BY <2>22, EditedCutsType DEF EditedCutsChanged
  <2>23. CASE UNCHANGED app
    BY <2>23
  <2> QED
    BY <2>1, <2>2, <2>3, <2>4, <2>5, <2>6, <2>7, <2>8, <2>9, <2>10, <2>11,
       <2>12, <2>13, <2>14, <2>15, <2>16, <2>17, <2>18, <2>19, <2>20, <2>21,
       <2>22, <2>23 DEF Next
<1> QED
  BY <1>1, <1>2, PTL DEF Spec

\* The three handlers that show something else than before the job.
LEMMA PreviewFailedKeeps ==
    ASSUME NEW s \in AppStates, Valid(s), Consistent(s),
           NEW j \in JobIds, NEW i \in SourceIds, NEW r \in RequestIds
    PROVE  /\ Valid(OnPreviewFailed(s, j, i, r))
           /\ Consistent(OnPreviewFailed(s, j, i, r))
<1> DEFINE t == OnPreviewFailed(s, j, i, r)
<1>1. CASE ~MatchesJob(s, j, {"PREVIEW"}, i, r)
  BY <1>1 DEF OnPreviewFailed
<1>2. CASE MatchesJob(s, j, {"PREVIEW"}, i, r)
  <2>1. /\ s.preview_before_job # None =>
              s.preview_before_job.phase \in PreviewStates
        /\ s.preview = "RUNNING" /\ s.preview_before_job # None
        /\ s.source = "READY"
    BY <1>2, Parts
    DEF MatchesJob, PreviewSnapshots, Consistent, RunningHasJob,
        Valid, ValidPreview, ValidJob
  <2> USE NoneIsNoValue
      DEF AppStates, ActiveJobs, JobKinds, NoJob, Idle, PreviewStates,
          Valid, ValidSource, ValidPreview, ValidJob, ValidArtifact,
          Consistent, QuietUnlessReady, RunningHasJob, ResultIsShown,
          SnapshotIsValid, ArtifactIsResult
  <2>2. ValidSource(t)
    BY <1>2 DEF OnPreviewFailed, MatchesJob
  <2>3. ValidPreview(t)
    BY <1>2, <2>1 DEF OnPreviewFailed, MatchesJob
  <2>4. ValidJob(t) /\ ValidArtifact(t)
    BY <1>2 DEF OnPreviewFailed, MatchesJob
  <2>5. Consistent(t)
    BY <1>2, <2>1 DEF OnPreviewFailed, MatchesJob
  <2> QED
    BY <2>2, <2>3, <2>4, <2>5
<1> QED
  BY <1>1, <1>2

LEMMA RenderSucceededKeeps ==
    ASSUME NEW s \in AppStates, Valid(s), Consistent(s),
           NEW j \in JobIds, NEW result \in ArtifactResults
    PROVE  /\ Valid(OnRenderSucceeded(s, j, result))
           /\ Consistent(OnRenderSucceeded(s, j, result))
<1> USE NoneIsNoValue
    DEF AppStates, ActiveJobs, JobKinds, NoJob, Idle,
        Valid, ValidSource, ValidPreview, ValidJob, ValidArtifact,
        Consistent, QuietUnlessReady, RunningHasJob, ResultIsShown,
        SnapshotIsValid, ArtifactIsResult
<1> QED
  BY DEF OnRenderSucceeded, MatchesJob, ArtifactResults

LEMMA RestoreKeeps ==
    ASSUME NEW s \in AppStates, Valid(s), Consistent(s), NEW j \in JobIds
    PROVE  /\ Valid(OnCancelAcknowledged(s, j))
           /\ Consistent(OnCancelAcknowledged(s, j))
<1> USE NoneIsNoValue
    DEF AppStates, ActiveJobs, JobKinds, NoJob, Idle,
        Valid, ValidSource, ValidPreview, ValidJob, ValidArtifact,
        Consistent, QuietUnlessReady, RunningHasJob, ResultIsShown,
        SnapshotIsValid, ArtifactIsResult
<1> QED
  BY DEF OnCancelAcknowledged

\* One step of the inductive invariant: one case per event.
LEMMA Inductive == IInv /\ TypeOK' /\ [Next]_app => IInv'
<1> SUFFICES ASSUME IInv, TypeOK', [Next]_app
             PROVE  Valid(app)' /\ Consistent(app)'
  BY DEF IInv
<1>0. app \in AppStates /\ Valid(app) /\ Consistent(app)
  BY DEF IInv, TypeOK
<1>12. CASE PreviewFailed
  <2>1. PICK j \in JobIds, i \in SourceIds, r \in RequestIds :
            app' = OnPreviewFailed(app, j, i, r)
    BY <1>12 DEF PreviewFailed
  <2> QED
    BY <1>0, <2>1, PreviewFailedKeeps
<1>17. CASE RenderSucceeded
  <2>1. PICK j \in JobIds, result \in ArtifactResults :
            app' = OnRenderSucceeded(app, j, result)
    BY <1>17 DEF RenderSucceeded
  <2> QED
    BY <1>0, <2>1, RenderSucceededKeeps
<1>20. CASE CancelAcknowledged
  <2>1. PICK j \in JobIds : app' = OnCancelAcknowledged(app, j)
    BY <1>20 DEF CancelAcknowledged
  <2> QED
    BY <1>0, <2>1, RestoreKeeps
<1> USE NoneIsNoValue
    DEF IInv, TypeOK, AppStates, ActiveJobs, JobKinds, NoJob, Idle,
        Valid, ValidSource, ValidPreview, ValidJob, ValidArtifact,
        Consistent, QuietUnlessReady, RunningHasJob, ResultIsShown,
        SnapshotIsValid, ArtifactIsResult
<1>1. CASE SourceLoadRequested
  BY <1>1 DEF SourceLoadRequested, OnSourceLoadRequested, FreshState
<1>2. CASE SourceLoaded
  BY <1>2 DEF SourceLoaded, OnSourceLoaded, MatchesSourceRequest
<1>3. CASE SourceLoadFailed
  BY <1>3 DEF SourceLoadFailed, OnSourceLoadFailed, MatchesSourceRequest
<1>4. CASE ModelAvailabilityChanged
  BY <1>4 DEF ModelAvailabilityChanged, OnModelAvailabilityChanged
<1>5. CASE SettingChanged
  BY <1>5 DEF SettingChanged, OnSettingChanged, Edited, OnPreviewInvalidated
<1>6. CASE ExecutionProviderChanged
  BY <1>6 DEF ExecutionProviderChanged, OnExecutionProviderChanged, OnPreviewInvalidated
<1>7. CASE PreviewInvalidated
  BY <1>7 DEF PreviewInvalidated, OnPreviewInvalidated
<1>8. CASE PreviewRequested
  <2>1. PICK j \in JobIds, r \in RequestIds, preparation \in BOOLEAN :
            app' = OnPreviewRequested(app, j, r, preparation)
    BY <1>8 DEF PreviewRequested
  <2>2. Snapshot(app) \in PreviewSnapshots
    BY Parts
  <2> QED
    BY <2>1, <2>2
    DEF OnPreviewRequested, Snapshot, CanPreview, CanEdit, Ready
<1>9. CASE ModelPrepared
  BY <1>9 DEF ModelPrepared, OnModelPrepared
<1>10. CASE JobStageChanged
  BY <1>10 DEF JobStageChanged, OnJobStageChanged
<1>11. CASE PreviewSucceeded
  BY <1>11 DEF PreviewSucceeded, OnPreviewSucceeded, MatchesJob, PreviewResults
<1>13. CASE RenderPreflightRequested
  BY <1>13 DEF RenderPreflightRequested, OnRenderPreflightRequested
<1>14. CASE RenderPreflightDismissed
  BY <1>14 DEF RenderPreflightDismissed, OnRenderPreflightDismissed
<1>15. CASE RenderRequested
  BY <1>15 DEF RenderRequested, OnRenderRequested, StartRender, CanRender, CanEdit, Ready
<1>16. CASE RebuildRequested
  BY <1>16 DEF RebuildRequested, OnRebuildRequested, StartRender, CanRebuild, HasArtifact,
        CanStartSelectedRebuild, CanEdit, Ready
<1>18. CASE RenderFailed
  BY <1>18 DEF RenderFailed, OnRenderFailed, MatchesJob
<1>19. CASE CancelRequested
  BY <1>19 DEF CancelRequested, OnCancelRequested
<1>21. CASE EditedCutsScanRequested
  BY <1>21 DEF EditedCutsScanRequested, OnEditedCutsScanRequested
<1>22. CASE EditedCutsChanged
  BY <1>22 DEF EditedCutsChanged, OnEditedCutsChanged, MatchesArtifact
<1>23. CASE UNCHANGED app
  BY <1>23
<1> QED
  BY <1>1, <1>2, <1>3, <1>4, <1>5, <1>6, <1>7, <1>8, <1>9, <1>10, <1>11,
     <1>12, <1>13, <1>14, <1>15, <1>16, <1>17, <1>18, <1>19, <1>20, <1>21,
     <1>22, <1>23 DEF Next

\* The inductive invariant of the store.
LEMMA Invariance == Spec => []IInv
<1>1. Init => IInv
  <2> SUFFICES ASSUME Init
               PROVE  IInv
    OBVIOUS
  <2>1. TypeOK
    BY FreshStateType, ZenonT(60) DEF Init, TypeOK, SourceStates
  <2> QED
    BY <2>1, NoneIsNoValue
    DEF Init, FreshState, NoJob, Idle, JobKinds, IInv,
        Valid, ValidSource, ValidPreview, ValidJob, ValidArtifact,
        Consistent, QuietUnlessReady, RunningHasJob, ResultIsShown,
        SnapshotIsValid, ArtifactIsResult
<1> QED
  BY <1>1, Inductive, Typing, PTL DEF Spec

\* No sequence of events makes AppState.__post_init__ raise inside reduce().
THEOREM NoInvalidState == Spec => []NeverRaises
<1>1. IInv => NeverRaises
  BY DEF IInv, NeverRaises
<1> QED
  BY <1>1, Invariance, PTL

\* The preview a cancel or a failure restores is the one that stayed visible.
THEOREM LastResultVisible == Spec => []LastResultStaysVisible
<1>1. IInv => LastResultStaysVisible
  BY DEF IInv, LastResultStaysVisible, Consistent, RunningHasJob,
         SnapshotIsValid
<1> QED
  BY <1>1, Invariance, PTL

\* No event but a newer result or a new source discards a preview.
LEMMA PreviewStep ==
    IInv /\ [Next]_app =>
        (app.preview_result # None /\ app'.source # "LOADING" =>
           \/ app'.preview_result = app.preview_result
           \/ app'.preview = "CURRENT" /\ app'.preview_result # None)
<1> SUFFICES ASSUME IInv, [Next]_app
             PROVE  (app.preview_result # None /\ app'.source # "LOADING" =>
                       \/ app'.preview_result = app.preview_result
                       \/ app'.preview = "CURRENT" /\ app'.preview_result # None)
  OBVIOUS
<1> USE NoneIsNoValue
    DEF IInv, TypeOK, AppStates, ActiveJobs, JobKinds, NoJob, Idle,
        Valid, ValidPreview, ValidJob, ValidSource,
        Consistent, QuietUnlessReady, RunningHasJob, SnapshotIsValid
<1>1. CASE SourceLoadRequested
  BY <1>1 DEF SourceLoadRequested, OnSourceLoadRequested, FreshState
<1>2. CASE SourceLoaded
  BY <1>2 DEF SourceLoaded, OnSourceLoaded, MatchesSourceRequest
<1>3. CASE SourceLoadFailed
  BY <1>3 DEF SourceLoadFailed, OnSourceLoadFailed, MatchesSourceRequest
<1>4. CASE ModelAvailabilityChanged
  BY <1>4 DEF ModelAvailabilityChanged, OnModelAvailabilityChanged
<1>5. CASE SettingChanged
  BY <1>5 DEF SettingChanged, OnSettingChanged, Edited, OnPreviewInvalidated
<1>6. CASE ExecutionProviderChanged
  BY <1>6 DEF ExecutionProviderChanged, OnExecutionProviderChanged, OnPreviewInvalidated
<1>7. CASE PreviewInvalidated
  BY <1>7 DEF PreviewInvalidated, OnPreviewInvalidated
<1>8. CASE PreviewRequested
  BY <1>8 DEF PreviewRequested, OnPreviewRequested, Snapshot, CanPreview, CanEdit, Ready
<1>9. CASE ModelPrepared
  BY <1>9 DEF ModelPrepared, OnModelPrepared
<1>10. CASE JobStageChanged
  BY <1>10 DEF JobStageChanged, OnJobStageChanged
<1>11. CASE PreviewSucceeded
  BY <1>11 DEF PreviewSucceeded, OnPreviewSucceeded, MatchesJob, PreviewResults
<1>12. CASE PreviewFailed
  BY <1>12 DEF PreviewFailed, OnPreviewFailed, MatchesJob, PreviewSnapshots, PreviewStates
<1>13. CASE RenderPreflightRequested
  BY <1>13 DEF RenderPreflightRequested, OnRenderPreflightRequested
<1>14. CASE RenderPreflightDismissed
  BY <1>14 DEF RenderPreflightDismissed, OnRenderPreflightDismissed
<1>15. CASE RenderRequested
  BY <1>15 DEF RenderRequested, OnRenderRequested, StartRender, CanRender, CanEdit, Ready
<1>16. CASE RebuildRequested
  BY <1>16 DEF RebuildRequested, OnRebuildRequested, StartRender, CanRebuild, HasArtifact,
        CanStartSelectedRebuild, CanEdit, Ready
<1>17. CASE RenderSucceeded
  BY <1>17 DEF RenderSucceeded, OnRenderSucceeded, MatchesJob, ArtifactResults
<1>18. CASE RenderFailed
  BY <1>18 DEF RenderFailed, OnRenderFailed, MatchesJob
<1>19. CASE CancelRequested
  BY <1>19 DEF CancelRequested, OnCancelRequested
<1>20. CASE CancelAcknowledged
  BY <1>20 DEF CancelAcknowledged, OnCancelAcknowledged
<1>21. CASE EditedCutsScanRequested
  BY <1>21 DEF EditedCutsScanRequested, OnEditedCutsScanRequested
<1>22. CASE EditedCutsChanged
  BY <1>22 DEF EditedCutsChanged, OnEditedCutsChanged, MatchesArtifact
<1>23. CASE UNCHANGED app
  BY <1>23
<1> QED
  BY <1>1, <1>2, <1>3, <1>4, <1>5, <1>6, <1>7, <1>8, <1>9, <1>10, <1>11,
     <1>12, <1>13, <1>14, <1>15, <1>16, <1>17, <1>18, <1>19, <1>20, <1>21,
     <1>22, <1>23 DEF Next

\* No event but a new source discards an artifact.
LEMMA ArtifactStep ==
    IInv /\ [Next]_app =>
        (app.artifact = "VALID" /\ app'.source # "LOADING" =>
           app'.artifact = "VALID" /\ app'.artifact_result # None)
<1> SUFFICES ASSUME IInv, [Next]_app
             PROVE  (app.artifact = "VALID" /\ app'.source # "LOADING" =>
                       app'.artifact = "VALID" /\ app'.artifact_result # None)
  OBVIOUS
<1> USE NoneIsNoValue
    DEF IInv, TypeOK, AppStates, ActiveJobs, JobKinds, NoJob, Idle,
        Valid, ValidJob, ValidArtifact, ValidSource,
        Consistent, QuietUnlessReady, ArtifactIsResult
<1>1. CASE SourceLoadRequested
  BY <1>1 DEF SourceLoadRequested, OnSourceLoadRequested, FreshState
<1>2. CASE SourceLoaded
  BY <1>2 DEF SourceLoaded, OnSourceLoaded, MatchesSourceRequest
<1>3. CASE SourceLoadFailed
  BY <1>3 DEF SourceLoadFailed, OnSourceLoadFailed, MatchesSourceRequest
<1>4. CASE ModelAvailabilityChanged
  BY <1>4 DEF ModelAvailabilityChanged, OnModelAvailabilityChanged
<1>5. CASE SettingChanged
  BY <1>5 DEF SettingChanged, OnSettingChanged, Edited, OnPreviewInvalidated
<1>6. CASE ExecutionProviderChanged
  BY <1>6 DEF ExecutionProviderChanged, OnExecutionProviderChanged, OnPreviewInvalidated
<1>7. CASE PreviewInvalidated
  BY <1>7 DEF PreviewInvalidated, OnPreviewInvalidated
<1>8. CASE PreviewRequested
  BY <1>8 DEF PreviewRequested, OnPreviewRequested, Snapshot, CanPreview, CanEdit, Ready
<1>9. CASE ModelPrepared
  BY <1>9 DEF ModelPrepared, OnModelPrepared
<1>10. CASE JobStageChanged
  BY <1>10 DEF JobStageChanged, OnJobStageChanged
<1>11. CASE PreviewSucceeded
  BY <1>11 DEF PreviewSucceeded, OnPreviewSucceeded, MatchesJob, PreviewResults
<1>12. CASE PreviewFailed
  BY <1>12 DEF PreviewFailed, OnPreviewFailed, MatchesJob, PreviewSnapshots, PreviewStates
<1>13. CASE RenderPreflightRequested
  BY <1>13 DEF RenderPreflightRequested, OnRenderPreflightRequested
<1>14. CASE RenderPreflightDismissed
  BY <1>14 DEF RenderPreflightDismissed, OnRenderPreflightDismissed
<1>15. CASE RenderRequested
  BY <1>15 DEF RenderRequested, OnRenderRequested, StartRender, CanRender, CanEdit, Ready
<1>16. CASE RebuildRequested
  BY <1>16 DEF RebuildRequested, OnRebuildRequested, StartRender, CanRebuild, HasArtifact,
        CanStartSelectedRebuild, CanEdit, Ready
<1>17. CASE RenderSucceeded
  BY <1>17 DEF RenderSucceeded, OnRenderSucceeded, MatchesJob, ArtifactResults
<1>18. CASE RenderFailed
  BY <1>18 DEF RenderFailed, OnRenderFailed, MatchesJob
<1>19. CASE CancelRequested
  BY <1>19 DEF CancelRequested, OnCancelRequested
<1>20. CASE CancelAcknowledged
  BY <1>20 DEF CancelAcknowledged, OnCancelAcknowledged
<1>21. CASE EditedCutsScanRequested
  BY <1>21 DEF EditedCutsScanRequested, OnEditedCutsScanRequested
<1>22. CASE EditedCutsChanged
  BY <1>22 DEF EditedCutsChanged, OnEditedCutsChanged, MatchesArtifact
<1>23. CASE UNCHANGED app
  BY <1>23
<1> QED
  BY <1>1, <1>2, <1>3, <1>4, <1>5, <1>6, <1>7, <1>8, <1>9, <1>10, <1>11,
     <1>12, <1>13, <1>14, <1>15, <1>16, <1>17, <1>18, <1>19, <1>20, <1>21,
     <1>22, <1>23 DEF Next

\* A preview the user has seen survives every failed, cancelled or late
\* attempt.
THEOREM ShownPreviewKept == Spec => KeepsShownPreview
  BY Invariance, PreviewStep, PTL DEF Spec, KeepsShownPreview

\* A rendered artifact survives every failed or cancelled later attempt.
THEOREM ArtifactKept == Spec => KeepsArtifact
  BY Invariance, ArtifactStep, PTL DEF Spec, KeepsArtifact

\* No event, in whatever order, loses a result the user has seen.
THEOREM ResultsKept == Spec => KeepsResults
  BY ShownPreviewKept, ArtifactKept DEF KeepsResults
============================================================================
