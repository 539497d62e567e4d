------------------------- MODULE AppReducer_proofs -------------------------
(***************************************************************************)
(* Lemmas about the reducer's operators, for every state they are given:   *)
(* each handler maps a state to a state, and every handler but those that  *)
(* start a job keeps a coherent state coherent and its job as it was, or   *)
(* ends it.  The proofs about the store and the job lifecycle use them.    *)
(***************************************************************************)
EXTENDS AppReducer, TLAPS

\* The parts of a state that the handlers put together.
LEMMA Parts ==
    ASSUME NEW s \in AppStates
    PROVE  /\ NoJob \in ActiveJobs
           /\ Snapshot(s) \in PreviewSnapshots
           /\ s.job \in ActiveJobs
           /\ s.preview_before_job \in PreviewSnapshots \cup {None}
           /\ s.settings \in Settings
           /\ s.model_available \in BOOLEAN
           /\ s.model_supports_render \in BOOLEAN
<1>1. NoJob \in ActiveJobs
  BY DEF NoJob, ActiveJobs, JobPhases
<1>2. Snapshot(s) \in PreviewSnapshots
  BY ZenonT(60) DEF AppStates, PreviewSnapshots, Snapshot
<1> QED
  BY <1>1, <1>2 DEF AppStates

\* The state of a new source.
LEMMA FreshStateType ==
    ASSUME NEW source \in SourceStates, NEW i \in SourceIds \cup {None},
           NEW r \in RequestIds \cup {None}, NEW v \in Settings,
           NEW available \in BOOLEAN, NEW supports \in BOOLEAN
    PROVE  FreshState(source, i, r, v, available, supports) \in AppStates
<1>1. NoJob \in ActiveJobs
  BY DEF NoJob, ActiveJobs, JobPhases
<1> QED
  BY <1>1, Zenon DEF FreshState, AppStates, PreviewStates, ArtifactStates

LEMMA SourceType ==
    ASSUME NEW s \in AppStates, NEW i \in SourceIds, NEW r \in RequestIds
    PROVE  /\ OnSourceLoadRequested(s, i, r) \in AppStates
           /\ OnSourceLoaded(s, i, r) \in AppStates
           /\ OnSourceLoadFailed(s, i, r) \in AppStates
<1>1. OnSourceLoadRequested(s, i, r) \in AppStates
  BY FreshStateType, Parts DEF OnSourceLoadRequested, SourceStates
<1>2. [s EXCEPT !.source = "READY", !.source_value = TRUE,
                !.source_error = FALSE] \in AppStates
  BY ZenonT(60) DEF AppStates, SourceStates
<1>3. [s EXCEPT !.source = "ERROR", !.source_value = FALSE,
                !.source_error = TRUE] \in AppStates
  BY ZenonT(60) DEF AppStates, SourceStates
<1>4. OnSourceLoaded(s, i, r) \in AppStates
  BY <1>2, Zenon DEF OnSourceLoaded
<1>5. OnSourceLoadFailed(s, i, r) \in AppStates
  BY <1>3, Zenon DEF OnSourceLoadFailed
<1> QED
  BY <1>1, <1>4, <1>5

LEMMA InvalidatedType ==
    ASSUME NEW s \in AppStates, NEW c \in Reasons
    PROVE  OnPreviewInvalidated(s, c) \in AppStates
<1>1. [s EXCEPT !.preview = "STALE", !.stale_category = c] \in AppStates
  BY ZenonT(60) DEF AppStates, PreviewStates
<1> QED
  BY <1>1, Zenon DEF OnPreviewInvalidated

LEMMA AvailabilityType ==
    ASSUME NEW s \in AppStates, NEW b \in BOOLEAN, NEW c \in BOOLEAN
    PROVE  OnModelAvailabilityChanged(s, b, c) \in AppStates
<1> DEFINE t == [s EXCEPT !.model_available = b]
<1>1. t \in AppStates
  BY DEF AppStates
<1>2. [t EXCEPT !.model_supports_render = c] \in AppStates
  <2> HIDE DEF t
  <2> QED
    BY <1>1 DEF AppStates
<1> QED
  BY <1>2, Zenon DEF OnModelAvailabilityChanged

LEMMA EditorType ==
    ASSUME NEW s \in AppStates, NEW v \in Settings
    PROVE  /\ \A b \in BOOLEAN : OnSettingChanged(s, v, b) \in AppStates
           /\ OnExecutionProviderChanged(s, v) \in AppStates
<1>1. [s EXCEPT !.settings = v] \in AppStates
  BY ZenonT(60) DEF AppStates
<1>2. [s EXCEPT !.settings = v, !.model_available = FALSE] \in AppStates
  BY ZenonT(60) DEF AppStates
<1>3. "SETTING" \in Reasons
  BY DEF Reasons
<1>4. ASSUME NEW b \in BOOLEAN
      PROVE  OnSettingChanged(s, v, b) \in AppStates
  BY <1>1, <1>2, <1>3, InvalidatedType, Zenon DEF OnSettingChanged, Edited
<1>5. OnExecutionProviderChanged(s, v) \in AppStates
  BY <1>1, <1>3, InvalidatedType, Zenon DEF OnExecutionProviderChanged
<1> QED
  BY <1>4, <1>5

\* The events that move the phase of a running job.
LEMMA PhaseType ==
    ASSUME NEW s \in AppStates, NEW phase \in JobPhases
    PROVE  /\ [s EXCEPT !.job.phase = phase] \in AppStates
           /\ [s EXCEPT !.model_available = TRUE, !.job.phase = phase]
                  \in AppStates
<1>1. [s.job EXCEPT !.phase = phase] \in ActiveJobs
  BY DEF AppStates, ActiveJobs
<1>2. [s EXCEPT !.job.phase = phase] \in AppStates
  BY <1>1, ZenonT(60) DEF AppStates
<1>3. [s EXCEPT !.model_available = TRUE, !.job.phase = phase] \in AppStates
  BY <1>1, ZenonT(60) DEF AppStates
<1> QED
  BY <1>2, <1>3

LEMMA ProgressType ==
    ASSUME NEW s \in AppStates, NEW j \in JobIds, NEW i \in SourceIds,
           NEW r \in RequestIds
    PROVE  /\ OnModelPrepared(s, j, i, r) \in AppStates
           /\ \A segmentation \in BOOLEAN :
                 OnJobStageChanged(s, j, i, r, segmentation) \in AppStates
  BY PhaseType, Zenon DEF OnModelPrepared, OnJobStageChanged, JobPhases

LEMMA CancelType ==
    ASSUME NEW s \in AppStates, NEW j \in JobIds
    PROVE  OnCancelRequested(s, j) \in AppStates
  BY PhaseType, Zenon DEF OnCancelRequested, JobPhases

LEMMA PreviewRequestedType ==
    ASSUME NEW s \in AppStates, NEW j \in JobIds, NEW r \in RequestIds,
           NEW preparation \in BOOLEAN
    PROVE  OnPreviewRequested(s, j, r, preparation) \in AppStates
<1>1. PICK phase \in JobPhases :
          phase = IF preparation \/ ~s.model_available
                  THEN "PREPARING_MODEL" ELSE "PREVIEWING"
  BY DEF JobPhases
<1>2. [job_id |-> j, kind |-> "PREVIEW", phase |-> phase] \in ActiveJobs
  BY DEF ActiveJobs, JobKinds
<1>3. [s EXCEPT
         !.preview = "RUNNING",
         !.preview_error = FALSE,
         !.preview_attempt_error = FALSE,
         !.preview_before_job = Snapshot(s),
         !.preview_request_id = r,
         !.job = [job_id |-> j, kind |-> "PREVIEW", phase |-> phase],
         !.job_request_id = r,
         !.preflight_warning = FALSE] \in AppStates
  BY <1>2, Parts, ZenonT(60) DEF AppStates, PreviewStates
<1> QED
  BY <1>1, <1>3, Zenon DEF OnPreviewRequested

LEMMA PreviewSucceededType ==
    ASSUME NEW s \in AppStates, NEW j \in JobIds, NEW result \in PreviewResults
    PROVE  OnPreviewSucceeded(s, j, result) \in AppStates
<1>1. [s EXCEPT
         !.preview = "CURRENT",
         !.preview_result = result,
         !.preview_error = FALSE,
         !.preview_attempt_error = FALSE,
         !.stale_category = None,
         !.preview_before_job = None,
         !.job = NoJob,
         !.job_request_id = None] \in AppStates
  BY Parts, ZenonT(60) DEF AppStates, PreviewStates
<1> QED
  BY <1>1, Zenon DEF OnPreviewSucceeded

LEMMA PreviewFailedType ==
    ASSUME NEW s \in AppStates, NEW j \in JobIds, NEW i \in SourceIds,
           NEW r \in RequestIds
    PROVE  OnPreviewFailed(s, j, i, r) \in AppStates
<1>1. CASE ~MatchesJob(s, j, {"PREVIEW"}, i, r)
  BY <1>1, Zenon DEF OnPreviewFailed
<1>2. CASE /\ MatchesJob(s, j, {"PREVIEW"}, i, r)
           /\ s.preview_before_job # None
           /\ s.preview_before_job.result # None
  <2> DEFINE previous == s.preview_before_job
  <2>1. /\ previous.result \in PreviewResults \cup {None}
        /\ previous.request_id \in RequestIds \cup {None}
    BY <1>2, Parts DEF PreviewSnapshots
  <2> DEFINE shown == [s EXCEPT
                         !.preview = "STALE",
                         !.preview_result = previous.result,
                         !.preview_request_id = previous.request_id,
                         !.preview_error = FALSE,
                         !.preview_attempt_error = TRUE,
                         !.stale_category = "PREVIEW_FAILED",
                         !.preview_before_job = None,
                         !.job = NoJob,
                         !.job_request_id = None]
  <2>2. shown \in AppStates
    BY <2>1, Parts, ZenonT(60) DEF AppStates, PreviewStates, Reasons
  <2>3. OnPreviewFailed(s, j, i, r) = shown
    BY <1>2 DEF OnPreviewFailed
  <2> HIDE DEF shown
  <2> QED
    BY <2>2, <2>3
<1>3. CASE /\ MatchesJob(s, j, {"PREVIEW"}, i, r)
           /\ ~(/\ s.preview_before_job # None
                /\ s.preview_before_job.result # None)
  <2> DEFINE error == [s EXCEPT
                         !.preview = "ERROR",
                         !.preview_result = None,
                         !.preview_request_id = r,
                         !.preview_error = TRUE,
                         !.preview_attempt_error = TRUE,
                         !.stale_category = None,
                         !.preview_before_job = None,
                         !.job = NoJob,
                         !.job_request_id = None]
  <2>1. error \in AppStates
    BY Parts, ZenonT(60) DEF AppStates, PreviewStates
  <2>2. OnPreviewFailed(s, j, i, r) = error
    BY <1>3 DEF OnPreviewFailed
  <2> HIDE DEF error
  <2> QED
    BY <2>1, <2>2
<1> QED
  BY <1>1, <1>2, <1>3

LEMMA PreflightType ==
    ASSUME NEW s \in AppStates
    PROVE  /\ OnRenderPreflightRequested(s) \in AppStates
           /\ OnRenderPreflightDismissed(s) \in AppStates
<1>1. [s EXCEPT !.preflight_warning = TRUE] \in AppStates
  BY ZenonT(60) DEF AppStates
<1>2. [s EXCEPT !.preflight_warning = FALSE] \in AppStates
  BY ZenonT(60) DEF AppStates
<1> QED
  BY <1>1, <1>2, Zenon
  DEF OnRenderPreflightRequested, OnRenderPreflightDismissed

LEMMA RenderRequestedType ==
    ASSUME NEW s \in AppStates, NEW j \in JobIds, NEW r \in RequestIds
    PROVE  /\ OnRenderRequested(s, j, r) \in AppStates
           /\ \A picked \in BOOLEAN :
                 OnRebuildRequested(s, j, r, picked) \in AppStates
<1>1. ASSUME NEW kind \in JobKinds
      PROVE  StartRender(s, j, r, kind) \in AppStates
  <2>1. [job_id |-> j, kind |-> kind, phase |-> "RENDERING"] \in ActiveJobs
    BY DEF ActiveJobs, JobPhases
  <2> QED
    BY <2>1, ZenonT(60) DEF StartRender, AppStates
<1>2. "RENDER" \in JobKinds /\ "REBUILD" \in JobKinds
  BY DEF JobKinds
<1> QED
  BY <1>1, <1>2, Zenon DEF OnRenderRequested, OnRebuildRequested

LEMMA RenderSucceededType ==
    ASSUME NEW s \in AppStates, NEW j \in JobIds,
           NEW result \in ArtifactResults
    PROVE  OnRenderSucceeded(s, j, result) \in AppStates
<1>1. [s EXCEPT
         !.job = NoJob,
         !.job_request_id = None,
         !.artifact = "VALID",
         !.artifact_result = result,
         !.artifact_error = FALSE,
         !.edited_cuts = FALSE,
         !.edited_cuts_error = FALSE,
         !.edited_cuts_request_id = None,
         !.preflight_warning = FALSE] \in AppStates
  BY Parts, ZenonT(150) DEF AppStates, ArtifactStates
<1> QED
  BY <1>1, Zenon DEF OnRenderSucceeded

LEMMA RenderFailedType ==
    ASSUME NEW s \in AppStates, NEW j \in JobIds, NEW i \in SourceIds,
           NEW r \in RequestIds
    PROVE  OnRenderFailed(s, j, i, r) \in AppStates
<1>1. PICK a \in ArtifactStates :
          a = IF s.artifact_result # None THEN "VALID" ELSE "ERROR"
  BY DEF ArtifactStates
<1>2. [s EXCEPT
         !.job = NoJob,
         !.job_request_id = None,
         !.artifact = a,
         !.artifact_error = TRUE,
         !.preflight_warning = FALSE] \in AppStates
  BY Parts, ZenonT(60) DEF AppStates
<1> QED
  BY <1>1, <1>2, Zenon DEF OnRenderFailed

\* Showing a snapshot again, field by field.
LEMMA ShownAgainType ==
    ASSUME NEW s \in AppStates, NEW p \in PreviewSnapshots
    PROVE  [s EXCEPT !.preview = p.phase,
                     !.preview_result = p.result,
                     !.preview_request_id = p.request_id,
                     !.preview_error = p.error,
                     !.preview_attempt_error = p.attempt_error,
                     !.stale_category = p.stale_category] \in AppStates
<1>1. /\ p.phase \in PreviewStates
      /\ p.result \in PreviewResults \cup {None}
      /\ p.request_id \in RequestIds \cup {None}
      /\ p.error \in BOOLEAN
      /\ p.attempt_error \in BOOLEAN
      /\ p.stale_category \in Reasons \cup {None}
  BY DEF PreviewSnapshots
<1> DEFINE t1 == [s EXCEPT !.preview = p.phase, !.preview_result = p.result,
                           !.preview_request_id = p.request_id]
           t2 == [t1 EXCEPT !.preview_error = p.error]
           t3 == [t2 EXCEPT !.preview_attempt_error = p.attempt_error]
<1>2. t1 \in AppStates
  BY <1>1, ZenonT(60) DEF AppStates
<1>3. t2 \in AppStates
  <2> HIDE DEF t1
  <2> QED
    BY <1>1, <1>2 DEF AppStates
<1>4. t3 \in AppStates
  <2> HIDE DEF t2
  <2> QED
    BY <1>1, <1>3 DEF AppStates
<1>5. [t3 EXCEPT !.stale_category = p.stale_category] \in AppStates
  <2> HIDE DEF t3
  <2> QED
    BY <1>1, <1>4 DEF AppStates
<1> QED
  BY <1>5, Zenon

LEMMA RestoreType ==
    ASSUME NEW s \in AppStates, NEW j \in JobIds
    PROVE  OnCancelAcknowledged(s, j) \in AppStates
<1> DEFINE previous == s.preview_before_job
           idle     == [s EXCEPT !.preview_before_job = None, !.job = NoJob,
                                 !.job_request_id = None]
           restored == [idle EXCEPT
                          !.preview = previous.phase,
                          !.preview_result = previous.result,
                          !.preview_request_id = previous.request_id,
                          !.preview_error = previous.error,
                          !.preview_attempt_error = previous.attempt_error,
                          !.stale_category = previous.stale_category]
<1>1. idle \in AppStates
  BY Parts, ZenonT(60) DEF AppStates
<1>2. ASSUME previous # None
      PROVE  restored \in AppStates
  <2>1. previous \in PreviewSnapshots
    BY <1>2, Parts
  <2> HIDE DEF idle, previous
  <2> QED
    BY <1>1, <2>1, ShownAgainType, Zenon
<1>3. \/ OnCancelAcknowledged(s, j) = idle
      \/ OnCancelAcknowledged(s, j) = s
      \/ previous # None /\ OnCancelAcknowledged(s, j) = restored
  BY Zenon DEF OnCancelAcknowledged
<1> HIDE DEF idle, restored, previous
<1> QED
  BY <1>1, <1>2, <1>3

LEMMA EditedCutsType ==
    ASSUME NEW s \in AppStates, NEW i \in SourceIds, NEW a \in RequestIds,
           NEW r \in RequestIds, NEW d \in BOOLEAN, NEW e \in BOOLEAN
    PROVE  /\ OnEditedCutsScanRequested(s, i, a, r) \in AppStates
           /\ OnEditedCutsChanged(s, i, a, r, d, e) \in AppStates
<1>1. [s EXCEPT !.edited_cuts_request_id = r] \in AppStates
  BY ZenonT(60) DEF AppStates
<1>2. OnEditedCutsScanRequested(s, i, a, r) \in AppStates
  BY <1>1, Zenon DEF OnEditedCutsScanRequested
<1>3. PICK p \in PreviewStates :
          p = IF d /\ s.preview = "CURRENT" THEN "STALE" ELSE s.preview
  BY DEF AppStates, PreviewStates
<1>4. PICK c \in Reasons \cup {None} :
          c = IF d /\ s.preview = "CURRENT" THEN "EDITED_CUTS"
                                            ELSE s.stale_category
  BY DEF AppStates, Reasons
<1> DEFINE changed == [s EXCEPT !.preview = p,
                                !.stale_category = c,
                                !.edited_cuts = d,
                                !.edited_cuts_error = e,
                                !.edited_cuts_request_id = None]
<1>5. changed \in AppStates
  BY ZenonT(150) DEF AppStates
<1>6. \/ OnEditedCutsChanged(s, i, a, r, d, e) = changed
      \/ OnEditedCutsChanged(s, i, a, r, d, e) = s
  BY <1>3, <1>4, Zenon DEF OnEditedCutsChanged
<1> HIDE DEF changed
<1> QED
  BY <1>2, <1>5, <1>6

---------------------------------------------------------------------------
(* What the lifecycle of jobs needs of a state.                            *)

\* The result was made from the source and the settings of s.
MadeFrom(result, s) ==
    /\ result # None
    /\ result.source_id = s.source_id
    /\ result.value = s.settings

\* A ready source has an identity, a phase has a job, a snapshot is kept only
\* under a preview job, and what is current, or would be after a cancel, was made
\* from what the editor shows.
Coherent(s) ==
    /\ s.source = "READY" => s.source_id # None
    /\ s.job.job_id = None <=> Idle(s)
    /\ s.preview_before_job # None => ~Idle(s) /\ s.job.kind = "PREVIEW"
    /\ s.preview = "CURRENT" => MadeFrom(s.preview_result, s)
    /\ LET p == s.preview_before_job
       IN  p # None /\ p.phase = "CURRENT" => MadeFrom(p.result, s)

\* All results s shows, or may show again, answer requests in C.
ResultsFrom(s, C) ==
    /\ s.preview_result # None => s.preview_result.request_id \in C
    /\ s.artifact_result # None => s.artifact_result.request_id \in C
    /\ LET p == s.preview_before_job
       IN  p # None /\ p.result # None => p.result.request_id \in C

\* From s to t the job ends or stays what it was, a cancel that was requested
\* included, and with it what it works on.
JobStays(s, t) ==
    t.job.job_id # None =>
        /\ t.job.job_id = s.job.job_id
        /\ t.job.kind = s.job.kind
        /\ t.job_request_id = s.job_request_id
        /\ t.source_id = s.source_id
        /\ t.settings = s.settings
        /\ s.job.phase = "CANCELLING" => t.job.phase = "CANCELLING"

Keeps(s, t, C) == Coherent(t) /\ JobStays(s, t) /\ ResultsFrom(t, C)

LEMMA LoadCoherent ==
    ASSUME NEW s \in AppStates, NEW C, Coherent(s), ResultsFrom(s, C),
           NEW i \in SourceIds, NEW r \in RequestIds
    PROVE  /\ Keeps(s, OnSourceLoadRequested(s, i, r), C)
           /\ Keeps(s, OnSourceLoaded(s, i, r), C)
           /\ Keeps(s, OnSourceLoadFailed(s, i, r), C)
<1> USE NoneIsNoValue
    DEF AppStates, ActiveJobs, NoJob, Idle, Coherent, MadeFrom, ResultsFrom,
        JobStays, Keeps
<1> QED
  BY DEF OnSourceLoadRequested, OnSourceLoaded, OnSourceLoadFailed, FreshState,
         MatchesSourceRequest

LEMMA AvailabilityCoherent ==
    ASSUME NEW s \in AppStates, NEW C, Coherent(s), ResultsFrom(s, C),
           NEW b, NEW c
    PROVE  Keeps(s, OnModelAvailabilityChanged(s, b, c), C)
<1> USE NoneIsNoValue
    DEF AppStates, ActiveJobs, NoJob, Idle, Coherent, MadeFrom, ResultsFrom,
        JobStays, Keeps
<1> QED
  BY DEF OnModelAvailabilityChanged

LEMMA EditorCoherent ==
    ASSUME NEW s \in AppStates, NEW C, Coherent(s), ResultsFrom(s, C),
           NEW v \in Settings, NEW b
    PROVE  /\ Keeps(s, OnSettingChanged(s, v, b), C)
           /\ Keeps(s, OnExecutionProviderChanged(s, v), C)
<1> USE NoneIsNoValue
    DEF AppStates, ActiveJobs, NoJob, Idle, Coherent, MadeFrom, ResultsFrom,
        JobStays, Keeps
<1> QED
  BY DEF OnSettingChanged, OnExecutionProviderChanged, OnPreviewInvalidated, Edited,
         CanEdit

LEMMA ProgressCoherent ==
    ASSUME NEW s \in AppStates, NEW C, Coherent(s), ResultsFrom(s, C),
           NEW j \in JobIds, NEW i \in SourceIds, NEW r \in RequestIds
    PROVE  /\ Keeps(s, OnModelPrepared(s, j, i, r), C)
           /\ \A b : Keeps(s, OnJobStageChanged(s, j, i, r, b), C)
<1> USE NoneIsNoValue
    DEF AppStates, ActiveJobs, NoJob, Idle, Coherent, MadeFrom, ResultsFrom,
        JobStays, Keeps
<1> QED
  BY DEF OnModelPrepared, OnJobStageChanged, MatchesJob

LEMMA PreflightCoherent ==
    ASSUME NEW s \in AppStates, NEW C, Coherent(s), ResultsFrom(s, C)
    PROVE  /\ Keeps(s, OnRenderPreflightRequested(s), C)
           /\ Keeps(s, OnRenderPreflightDismissed(s), C)
<1> USE NoneIsNoValue
    DEF AppStates, ActiveJobs, NoJob, Idle, Coherent, MadeFrom, ResultsFrom,
        JobStays, Keeps
<1> QED
  BY DEF OnRenderPreflightRequested, OnRenderPreflightDismissed

LEMMA CancelCoherent ==
    ASSUME NEW s \in AppStates, NEW C, Coherent(s), ResultsFrom(s, C),
           NEW j \in JobIds
    PROVE  Keeps(s, OnCancelRequested(s, j), C)
<1> USE NoneIsNoValue
    DEF AppStates, ActiveJobs, NoJob, Idle, Coherent, MadeFrom, ResultsFrom,
        JobStays, Keeps
<1> QED
  BY DEF OnCancelRequested

LEMMA AcknowledgedCoherent ==
    ASSUME NEW s \in AppStates, NEW C, Coherent(s), ResultsFrom(s, C),
           NEW j \in JobIds
    PROVE  Keeps(s, OnCancelAcknowledged(s, j), C)
<1> USE NoneIsNoValue
    DEF AppStates, ActiveJobs, NoJob, Idle, Coherent, MadeFrom, ResultsFrom,
        JobStays, Keeps
<1> QED
  BY DEF OnCancelAcknowledged

LEMMA RenderFailedCoherent ==
    ASSUME NEW s \in AppStates, NEW C, Coherent(s), ResultsFrom(s, C),
           NEW j \in JobIds, NEW i \in SourceIds, NEW r \in RequestIds
    PROVE  Keeps(s, OnRenderFailed(s, j, i, r), C)
<1> USE NoneIsNoValue
    DEF AppStates, ActiveJobs, NoJob, Idle, Coherent, MadeFrom, ResultsFrom,
        JobStays, Keeps
<1> QED
  BY DEF OnRenderFailed, MatchesJob

LEMMA PreviewFailedCoherent ==
    ASSUME NEW s \in AppStates, NEW C, Coherent(s), ResultsFrom(s, C),
           NEW j \in JobIds, NEW i \in SourceIds, NEW r \in RequestIds
    PROVE  Keeps(s, OnPreviewFailed(s, j, i, r), C)
<1> USE NoneIsNoValue
    DEF AppStates, ActiveJobs, NoJob, Idle, Coherent, MadeFrom, ResultsFrom,
        JobStays, Keeps
<1> QED
  BY DEF OnPreviewFailed, MatchesJob

LEMMA RenderSucceededCoherent ==
    ASSUME NEW s \in AppStates, NEW C, Coherent(s), ResultsFrom(s, C),
           NEW j \in JobIds, NEW a \in ArtifactResults,
           a.request_id \in C
    PROVE  Keeps(s, OnRenderSucceeded(s, j, a), C)
<1> USE NoneIsNoValue
    DEF AppStates, ActiveJobs, NoJob, Idle, Coherent, MadeFrom, ResultsFrom,
        JobStays, Keeps
<1> QED
  BY DEF OnRenderSucceeded, MatchesJob

\* A preview that succeeds must have been made from the settings the editor shows.
LEMMA PreviewSucceededCoherent ==
    ASSUME NEW s \in AppStates, NEW C, Coherent(s), ResultsFrom(s, C),
           NEW j \in JobIds, NEW p \in PreviewResults,
           p.request_id \in C, p.value = s.settings
    PROVE  Keeps(s, OnPreviewSucceeded(s, j, p), C)
<1> USE NoneIsNoValue
    DEF AppStates, ActiveJobs, NoJob, Idle, Coherent, MadeFrom, ResultsFrom,
        JobStays, Keeps
<1> QED
  BY DEF OnPreviewSucceeded, MatchesJob

\* A handler that starts a job starts it for the source and the settings that
\* are shown, or leaves the state alone.
Starts(s, t, j, kind, r) ==
    /\ Idle(s) /\ s.source = "READY" /\ s.source_id # None
    /\ t.job.job_id = j /\ t.job.kind = kind /\ t.job_request_id = r
    /\ t.source_id = s.source_id /\ t.settings = s.settings

LEMMA PreviewRequestedStarts ==
    ASSUME NEW s \in AppStates, NEW C, Coherent(s), ResultsFrom(s, C),
           NEW j \in JobIds, NEW r \in RequestIds, NEW b
    PROVE  /\ Coherent(OnPreviewRequested(s, j, r, b))
           /\ ResultsFrom(OnPreviewRequested(s, j, r, b), C)
           /\ CanPreview(s) =>
                 Starts(s, OnPreviewRequested(s, j, r, b), j, "PREVIEW", r)
<1> USE NoneIsNoValue
    DEF AppStates, ActiveJobs, NoJob, Idle, Coherent, MadeFrom, ResultsFrom,
        JobStays, Keeps
<1> QED
  BY DEF OnPreviewRequested, Snapshot, CanPreview, CanEdit, Ready, Starts

LEMMA RenderRequestedStarts ==
    ASSUME NEW s \in AppStates, NEW C, Coherent(s), ResultsFrom(s, C),
           NEW j \in JobIds, NEW r \in RequestIds
    PROVE  /\ Coherent(OnRenderRequested(s, j, r))
           /\ ResultsFrom(OnRenderRequested(s, j, r), C)
           /\ \/ OnRenderRequested(s, j, r) = s
              \/ Starts(s, OnRenderRequested(s, j, r), j, "RENDER", r)
<1> USE NoneIsNoValue
    DEF AppStates, ActiveJobs, NoJob, Idle, Coherent, MadeFrom, ResultsFrom,
        JobStays, Keeps
<1> QED
  BY DEF OnRenderRequested, StartRender, CanRender, CanEdit, Ready, Starts

LEMMA RebuildRequestedStarts ==
    ASSUME NEW s \in AppStates, NEW C, Coherent(s), ResultsFrom(s, C),
           NEW j \in JobIds, NEW r \in RequestIds, NEW b \in BOOLEAN
    PROVE  /\ Coherent(OnRebuildRequested(s, j, r, b))
           /\ ResultsFrom(OnRebuildRequested(s, j, r, b), C)
           /\ \/ OnRebuildRequested(s, j, r, b) = s
              \/ Starts(s, OnRebuildRequested(s, j, r, b), j, "REBUILD", r)
<1> USE NoneIsNoValue
    DEF AppStates, ActiveJobs, NoJob, Idle, Coherent, MadeFrom, ResultsFrom,
        JobStays, Keeps
<1> QED
  BY DEF OnRebuildRequested, StartRender, CanRebuild, HasArtifact, CanStartSelectedRebuild,
         CanEdit, Ready, Starts
============================================================================
