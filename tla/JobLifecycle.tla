--------------------------- MODULE JobLifecycle ---------------------------
(***************************************************************************)
(* An exclusive job from the click to its terminal notification: the GUI   *)
(* thread with the reducer and the preview and render controllers, the     *)
(* ExclusiveJobScheduler and JobContexts it shares with the workers, one   *)
(* worker thread per job, and the queued Qt signals that carry the         *)
(* workers' notifications back, in order, to the GUI thread.               *)
(*                                                                         *)
(* A GUI action is one handler run to completion; the steps of a worker    *)
(* are separated where another thread can tell: at every read and          *)
(* transition of the context and at every signal.  A job's request has the *)
(* job's own identity, a load's request the source's: both pairs are fresh *)
(* uuids.  Progress that moves no phase is left out.                       *)
(***************************************************************************)
EXTENDS AppReducer, Sequences

VARIABLES
    app,           \* ReducerStore._state
    active, terminal, committed,      \* scheduler and contexts
    kind,          \* the kind of each job's worker
    inputs,        \* source and settings each worker was given
    pc,            \* where each worker thread is
    queue,         \* queued signals of the workers, oldest first
    previewJob,    \* PreviewController._active_job_id
    renderJob,     \* RenderController._active_job_id
    contexts,      \* jobs in the controllers' _contexts
    loads,         \* source loads started, with whether they are answered
    preflight,     \* _preflight_request: the preflight dialog is open
    probing,       \* _probe_request: the reuse probe runs, no dialog is open
    reuse,         \* _reuse_request: the reuse dialog is open
    collision,     \* _collision_request: the collision dialog is open
    closed         \* the event loop has ended and the controllers shut down

jobVars    == <<kind, inputs, pc>>
ctxVars    == <<active, terminal, committed>>
ctrlVars   == <<previewJob, renderJob, contexts>>
renderVars == <<preflight, probing, reuse, collision>>
vars == <<app, ctxVars, jobVars, queue, ctrlVars, loads, renderVars, closed>>

Ctx == INSTANCE JobContext

\* The identities of loads and jobs are used as those of their requests.
ASSUME IdentitiesAreRequests == SourceIds \cup JobIds \subseteq RequestIds

Inputs   == [source_id: SourceIds, value: Settings]
Pendings == [source_id: SourceIds, value: Settings, rebuild: BOOLEAN]
Kind(p)  == IF p.rebuild THEN "REBUILD" ELSE "RENDER"

Init ==
    /\ \E v \in Settings, available \in BOOLEAN :
          app = FreshState("EMPTY", None, None, v, available, TRUE)
    /\ Ctx!Init
    /\ kind = [j \in JobIds |-> None]
    /\ inputs = [j \in JobIds |-> None]
    /\ pc = [j \in JobIds |-> "ABSENT"]
    /\ queue = <<>>
    /\ previewJob = None /\ renderJob = None /\ contexts = {}
    /\ loads = [s \in SourceIds |-> "UNUSED"]
    /\ preflight = None /\ probing = None /\ reuse = None /\ collision = None
    /\ closed = FALSE

---------------------------------------------------------------------------
(* GUI thread: sources, settings, model availability.                      *)

\* The main window takes input: no confirmation dialog is in front of it.
WindowFree ==
    ~closed /\ preflight = None /\ reuse = None /\ collision = None

LoadSource(s) ==
    /\ WindowFree
    /\ loads[s] = "UNUSED"
    /\ app' = OnSourceLoadRequested(app, s, s)
    /\ loads' = [loads EXCEPT ![s] =
                    IF app'.source_id = s THEN "LOADING" ELSE "ANSWERED"]
    /\ UNCHANGED <<ctxVars, jobVars, queue, ctrlVars, renderVars, closed>>

\* The load worker's answer, however late; _is_current_load drops an old one.
SourceAnswer(s, ok) ==
    /\ ~closed
    /\ loads[s] = "LOADING"
    /\ app' = IF ok THEN OnSourceLoaded(app, s, s)
                    ELSE OnSourceLoadFailed(app, s, s)
    /\ loads' = [loads EXCEPT ![s] = "ANSWERED"]
    /\ UNCHANGED <<ctxVars, jobVars, queue, ctrlVars, renderVars, closed>>

Edit(v, other_model) ==
    /\ WindowFree
    /\ app' = OnSettingChanged(app, v, other_model)
    /\ UNCHANGED <<ctxVars, jobVars, queue, ctrlVars, loads, renderVars,
                   closed>>

ChangeProvider(v) ==
    /\ WindowFree
    /\ app' = OnExecutionProviderChanged(app, v)
    /\ UNCHANGED <<ctxVars, jobVars, queue, ctrlVars, loads, renderVars,
                   closed>>

\* The model manager downloaded or removed the selected model.
ModelManaged(available) ==
    /\ ~closed
    /\ app' = OnModelAvailabilityChanged(app, available, TRUE)
    /\ UNCHANGED <<ctxVars, jobVars, queue, ctrlVars, loads, renderVars,
                   closed>>

---------------------------------------------------------------------------
(* GUI thread: starting and cancelling jobs.                               *)

Unused(j) == pc[j] = "ABSENT" /\ app.job.job_id # j

\* scheduler.claim(), the worker and its thread.  A claim that raises leaves
\* the handler, and whatever was dispatched before it stays dispatched.
ClaimAndSpawn(j, k, in) ==
    IF active = None
    THEN /\ Ctx!Claim(j)
         /\ kind' = [kind EXCEPT ![j] = k]
         /\ inputs' = [inputs EXCEPT ![j] = in]
         /\ pc' = [pc EXCEPT ![j] =
                      IF k = "REBUILD" THEN "SERVICE" ELSE "PREPARE"]
         /\ contexts' = contexts \cup {j}
         /\ previewJob' = IF k = "PREVIEW" THEN j ELSE previewJob
         /\ renderJob' = IF k = "PREVIEW" THEN renderJob ELSE j
    ELSE UNCHANGED <<ctxVars, jobVars, ctrlVars>>

StartPreview(j) ==
    /\ CanPreview(app)
    /\ app' = OnPreviewRequested(app, j, j, TRUE)
    /\ ClaimAndSpawn(j, "PREVIEW",
                     [source_id |-> app.source_id, value |-> app.settings])

\* Mutant: a render starts whatever source was loaded since.
StartRenderJobUnchecked(j, p) ==
    /\ app' = IF p.rebuild THEN OnRebuildRequested(app, j, j, TRUE)
                           ELSE OnRenderRequested(app, j, j)
    /\ IF app'.job.job_id = j
       THEN ClaimAndSpawn(j, Kind(p), [source_id |-> p.source_id,
                                       value |-> p.value])
       ELSE UNCHANGED <<ctxVars, jobVars, ctrlVars>>

\* RenderController._start: p was captured when the user asked, maybe long
\* ago; only its source is compared with the current one.
StartRenderJob(j, p) ==
    IF p.source_id # app.source_id
    THEN UNCHANGED <<app, ctxVars, jobVars, ctrlVars>>
    ELSE /\ app' = IF p.rebuild THEN OnRebuildRequested(app, j, j, TRUE)
                                ELSE OnRenderRequested(app, j, j)
         /\ IF app'.job.job_id = j
            THEN ClaimAndSpawn(j, Kind(p), [source_id |-> p.source_id,
                                            value |-> p.value])
            ELSE UNCHANGED <<ctxVars, jobVars, ctrlVars>>

\* _resolve_collision: start now, or ask first because the output exists.
ResolveCollision(j, p) ==
    \/ /\ StartRenderJob(j, p)
       /\ collision' = None
    \/ /\ collision' = p
       /\ UNCHANGED <<app, ctxVars, jobVars, ctrlVars>>

ClickPreview(j) ==
    /\ WindowFree
    /\ Unused(j)
    /\ StartPreview(j)
    /\ UNCHANGED <<queue, loads, renderVars, closed>>

\* _request_render: a request of the current settings; without a current
\* preview the preflight dialog comes first, else the reuse probe starts
\* (unless one is running still, which drops the click).
Captured(rebuild) == [source_id |-> app.source_id, value |-> app.settings,
                      rebuild |-> rebuild]
Probe(p) == probing' = IF probing = None THEN p ELSE probing

ClickRender ==
    /\ WindowFree
    /\ CanRender(app)
    /\ IF app.preview \in {"NONE", "STALE", "ERROR"}
       THEN /\ app' = OnRenderPreflightRequested(app)
            /\ preflight' = Captured(FALSE)
            /\ UNCHANGED probing
       ELSE /\ Probe(Captured(FALSE))
            /\ UNCHANGED <<app, preflight>>
    /\ UNCHANGED <<ctxVars, jobVars, queue, ctrlVars, loads, reuse,
                   collision, closed>>

PreflightRender ==
    /\ ~closed /\ preflight # None
    /\ app' = OnRenderPreflightDismissed(app)
    /\ Probe(preflight)
    /\ preflight' = None
    /\ UNCHANGED <<ctxVars, jobVars, queue, ctrlVars, loads, reuse,
                   collision, closed>>

\* "Preview first" dismisses the warning and then clicks Preview.
PreflightPreview(j) ==
    /\ ~closed /\ preflight # None
    /\ Unused(j)
    /\ LET dismissed == OnRenderPreflightDismissed(app)
       IN  IF CanPreview(app)
           THEN /\ app' = OnPreviewRequested(dismissed, j, j, TRUE)
                /\ ClaimAndSpawn(j, "PREVIEW", [source_id |-> app.source_id,
                                                value |-> app.settings])
           ELSE /\ app' = dismissed
                /\ UNCHANGED <<ctxVars, jobVars, ctrlVars>>
    /\ preflight' = None
    /\ UNCHANGED <<queue, loads, probing, reuse, collision, closed>>

PreflightCancel ==
    /\ ~closed /\ preflight # None
    /\ app' = OnRenderPreflightDismissed(app)
    /\ preflight' = None
    /\ UNCHANGED <<ctxVars, jobVars, queue, ctrlVars, loads, probing, reuse,
                   collision, closed>>

\* _reuse_probe_result: no matching cut set resolves the collision at once,
\* a match opens the reuse dialog.
ProbeAnswer(j, match) ==
    /\ ~closed /\ probing # None
    /\ Unused(j)
    /\ IF match
       THEN /\ reuse' = probing
            /\ UNCHANGED <<app, ctxVars, jobVars, ctrlVars, collision>>
       ELSE ResolveCollision(j, probing) /\ UNCHANGED reuse
    /\ probing' = None
    /\ UNCHANGED <<queue, loads, preflight, closed>>

\* Reuse dialog: rebuild from the match, regenerate, or cancel.
ReuseProceed(j, rebuild) ==
    /\ ~closed /\ reuse # None
    /\ Unused(j)
    /\ ResolveCollision(j, [reuse EXCEPT !.rebuild = rebuild])
    /\ reuse' = None
    /\ UNCHANGED <<queue, loads, preflight, probing, closed>>

ReuseCancel ==
    /\ ~closed /\ reuse # None
    /\ reuse' = None
    /\ UNCHANGED <<app, ctxVars, jobVars, queue, ctrlVars, loads, preflight,
                   probing, collision, closed>>

\* Collision dialog: replace the output, choose another name (which may exist
\* as well), or cancel.
CollisionReplace(j) ==
    /\ ~closed /\ collision # None
    /\ Unused(j)
    /\ StartRenderJob(j, collision)
    /\ collision' = None
    /\ UNCHANGED <<queue, loads, preflight, probing, reuse, closed>>

CollisionRename(j) ==
    /\ ~closed /\ collision # None
    /\ Unused(j)
    /\ ResolveCollision(j, collision)
    /\ UNCHANGED <<queue, loads, preflight, probing, reuse, closed>>

CollisionCancel ==
    /\ ~closed /\ collision # None
    /\ collision' = None
    /\ UNCHANGED <<app, ctxVars, jobVars, queue, ctrlVars, loads, preflight,
                   probing, reuse, closed>>

\* A cut set picked in the workspace dialog.
UseWorkspace(j) ==
    /\ WindowFree
    /\ app.source = "READY"
    /\ Unused(j)
    /\ ResolveCollision(j, Captured(TRUE))
    /\ UNCHANGED <<queue, loads, preflight, probing, reuse, closed>>

\* _cancel_active of the controller that owns job j.
Cancel(j) ==
    /\ ~closed
    /\ j \in {previewJob, renderJob} /\ j \in contexts
    /\ Ctx!RequestCancel(j)
    /\ app' = OnCancelRequested(app, j)
    /\ UNCHANGED <<jobVars, queue, ctrlVars, loads, renderVars, closed>>

\* aboutToQuit: no GUI event is handled from here on.
Shutdown ==
    /\ ~closed
    /\ closed' = TRUE
    /\ terminal' = [j \in JobIds |->
                       IF j \in contexts /\ terminal[j] = "RUNNING"
                       THEN "CANCEL_PENDING" ELSE terminal[j]]
    /\ UNCHANGED <<app, active, committed, jobVars, queue, ctrlVars, loads,
                   renderVars>>

---------------------------------------------------------------------------
(* Worker threads: PreviewWorker.run and RenderWorker.run, with the service *)
(* they call.  A worker's exceptions all lead to RAISED.                    *)

guiVars == <<app, ctrlVars, loads, renderVars, closed>>

Goto(j, label) == pc' = [pc EXCEPT ![j] = label] /\ UNCHANGED <<kind, inputs>>
\* Mutant: the signals of a step are sent as one.
EmitTogether(j, types) == queue' = Append(queue, [job |-> j, type |-> types])
Emit(j, types) == queue' = queue \o [n \in 1..Len(types) |->
                                        [job |-> j, type |-> types[n]]]

\* The end of a model download reaches the reducer as a notification; only
\* the preview controller looks at it.
Downloads(j) ==
    /\ pc[j] = "PREPARE" /\ kind[j] = "PREVIEW"
    /\ Goto(j, "SESSION") /\ Emit(j, <<"DOWNLOADED">>)
    /\ UNCHANGED <<guiVars, ctxVars>>

PreparesModel(j) ==
    /\ pc[j] \in {"PREPARE", "SESSION"}
    /\ Goto(j, IF kind[j] = "PREVIEW" THEN "CHECKPOINT" ELSE "SERVICE")
    /\ UNCHANGED <<guiVars, ctxVars, queue>>

\* A preview passes a checkpoint between preparing and previewing.
PassesCheckpoint(j) ==
    /\ pc[j] = "CHECKPOINT"
    /\ IF terminal[j] = "CANCEL_PENDING"
       THEN /\ Ctx!AcknowledgeCancel(j)
            /\ Goto(j, "RAISED") /\ UNCHANGED queue
       ELSE /\ Goto(j, "SERVICE") /\ Emit(j, <<"PREPARED", "SEGMENTING">>)
            /\ UNCHANGED ctxVars
    /\ UNCHANGED guiVars

\* The runtime raises outside the service's own error handling: the model
\* cannot be prepared, or a rebuild's model is unknown.
RuntimeRaises(j) ==
    /\ \/ pc[j] \in {"PREPARE", "SESSION"}
       \/ pc[j] = "SERVICE" /\ kind[j] = "REBUILD"
    /\ Goto(j, "RAISED")
    /\ UNCHANGED <<guiVars, ctxVars, queue>>

\* Mutant: the acknowledgement is passed on before the host has stopped.
ServiceAcknowledgesEarly(j) ==
    /\ pc[j] = "SERVICE"
    /\ Ctx!AcknowledgeCancel(j)
    /\ Emit(j, <<"ACKNOWLEDGED">>)
    /\ UNCHANGED <<guiVars, jobVars>>

\* Inside the service a cancel is acknowledged at a checkpoint or by the
\* segmentation host.
ServiceAcknowledges(j) ==
    /\ pc[j] = "SERVICE"
    /\ Ctx!AcknowledgeCancel(j)
    /\ Goto(j, "RAISED")
    /\ UNCHANGED <<guiVars, queue>>

\* Mutant: the result is passed on without the commit.
ServiceSkipsCommit(j) ==
    /\ pc[j] = "SERVICE"
    /\ Goto(j, "EMIT")
    /\ UNCHANGED <<guiVars, ctxVars, queue>>

\* commit_if_not_cancelled, which ends the service.
ServiceCommits(j) ==
    /\ pc[j] = "SERVICE"
    /\ \/ Ctx!Commit(j) /\ Goto(j, "EMIT")
       \/ Ctx!AcknowledgeCancel(j) /\ Goto(j, "RAISED")
    /\ UNCHANGED <<guiVars, queue>>

\* _finish_failed_context reads the state, and then acts on what it read.
ServiceRaises(j) ==
    /\ pc[j] = "SERVICE"
    /\ \/ /\ terminal[j] = "RUNNING"
          /\ Goto(j, "FAILING")
          /\ UNCHANGED ctxVars
       \/ /\ Ctx!AcknowledgeCancel(j)
          /\ Goto(j, "RAISED")
    /\ UNCHANGED <<guiVars, queue>>

\* Mutant: the state is not read again.
ServiceFailsOnOldState(j) ==
    /\ pc[j] = "FAILING"
    /\ Ctx!Settle(j, "FAILED") /\ UNCHANGED committed
    /\ Goto(j, "RAISED")
    /\ UNCHANGED <<guiVars, queue>>

ServiceFails(j) ==
    /\ pc[j] = "FAILING"
    /\ IF terminal[j] = "RUNNING" THEN Ctx!Fail(j) ELSE UNCHANGED ctxVars
    /\ Goto(j, "RAISED")
    /\ UNCHANGED <<guiVars, queue>>

EmitsSuccess(j) ==
    /\ pc[j] = "EMIT"
    /\ Emit(j, <<"SUCCEEDED">>)
    /\ Goto(j, "FINALLY")
    /\ UNCHANGED <<guiVars, ctxVars>>

\* A preview's pixels may still fail to convert after its commit.
ConversionRaises(j) ==
    /\ pc[j] = "EMIT" /\ kind[j] = "PREVIEW"
    /\ Goto(j, "RAISED")
    /\ UNCHANGED <<guiVars, ctxVars, queue>>

\* Mutant: a cancellation the service acknowledged is not passed on.
NotifiesPendingOnly(j) ==
    /\ pc[j] = "RAISED"
    /\ \/ /\ terminal[j] = "CANCEL_PENDING"
          /\ Ctx!AcknowledgeCancel(j)
          /\ Emit(j, <<"ACKNOWLEDGED">>)
          /\ Goto(j, "FINALLY")
       \/ /\ terminal[j] = "CANCELLED"
          /\ Goto(j, "FINALLY") /\ UNCHANGED <<ctxVars, queue>>
       \/ /\ ~Ctx!Requested(j)
          /\ Goto(j, "REPORT") /\ UNCHANGED <<ctxVars, queue>>
    /\ UNCHANGED guiVars

\* _notify_failure_or_cancel reads cancellation.requested once.
Notifies(j) ==
    /\ pc[j] = "RAISED"
    /\ IF Ctx!Requested(j)
       THEN /\ IF terminal[j] = "CANCEL_PENDING"
               THEN Ctx!AcknowledgeCancel(j) ELSE UNCHANGED ctxVars
            /\ Emit(j, <<"ACKNOWLEDGED">>)
            /\ Goto(j, "FINALLY")
       ELSE /\ Goto(j, "REPORT")
            /\ UNCHANGED <<ctxVars, queue>>
    /\ UNCHANGED guiVars

ReportsFailure(j) ==
    /\ pc[j] = "REPORT"
    /\ Emit(j, <<"FAILED">>)
    /\ Goto(j, "FINALLY")
    /\ UNCHANGED <<guiVars, ctxVars>>

\* finally: a context still RUNNING fails; one with a cancel pending is left.
Finishes(j) ==
    /\ pc[j] = "FINALLY"
    /\ IF terminal[j] = "RUNNING" THEN Ctx!Fail(j) ELSE UNCHANGED ctxVars
    /\ Emit(j, <<"FINISHED">>)
    /\ Goto(j, "DONE")
    /\ UNCHANGED guiVars

Worker(j) ==
    \/ Downloads(j) \/ PreparesModel(j) \/ PassesCheckpoint(j)
    \/ RuntimeRaises(j)
    \/ ServiceAcknowledges(j) \/ ServiceCommits(j)
    \/ ServiceRaises(j) \/ ServiceFails(j)
    \/ EmitsSuccess(j) \/ ConversionRaises(j)
    \/ Notifies(j) \/ ReportsFailure(j) \/ Finishes(j)

---------------------------------------------------------------------------
(* GUI thread: _notification and _thread_finished.                         *)

\* What the reducer makes of a notification of job j.
Reduced(j, type) ==
    LET s == inputs[j].source_id
        preview == kind[j] = "PREVIEW"
    IN  CASE type = "DOWNLOADED" ->
               OnModelAvailabilityChanged(app, TRUE, TRUE)
          [] type = "PREPARED" -> OnModelPrepared(app, j, s, j)
          [] type = "SEGMENTING" -> OnJobStageChanged(app, j, s, j, TRUE)
          [] type = "ACKNOWLEDGED" -> OnCancelAcknowledged(app, j)
          [] type = "SUCCEEDED" /\ preview ->
               OnPreviewSucceeded(app, j, [source_id |-> s, request_id |-> j,
                                           value |-> inputs[j].value])
          [] type = "SUCCEEDED" /\ ~preview ->
               OnRenderSucceeded(app, j, [source_id |-> s, request_id |-> j])
          [] type = "FAILED" /\ preview -> OnPreviewFailed(app, j, s, j)
          [] type = "FAILED" /\ ~preview -> OnRenderFailed(app, j, s, j)

Terminating == {"SUCCEEDED", "FAILED", "ACKNOWLEDGED"}

Deliver ==
    /\ ~closed /\ queue # <<>>
    /\ queue' = Tail(queue)
    /\ LET j    == Head(queue).job
           type == Head(queue).type
           mine == j = (IF kind[j] = "PREVIEW" THEN previewJob ELSE renderJob)
           heard == mine /\ app.job.job_id = j /\ type # "FINISHED"
           ends == heard /\ type \in Terminating /\ Idle(app')
       IN  /\ app' = IF heard THEN Reduced(j, type) ELSE app
           /\ previewJob' = IF ends /\ kind[j] = "PREVIEW" THEN None
                                                           ELSE previewJob
           /\ renderJob' = IF ends /\ kind[j] # "PREVIEW" THEN None
                                                         ELSE renderJob
           /\ contexts' = IF type = "FINISHED" THEN contexts \ {j}
                                              ELSE contexts
    /\ UNCHANGED <<ctxVars, jobVars, loads, renderVars, closed>>

User ==
    \/ \E s \in SourceIds : LoadSource(s)
    \/ \E v \in Settings, other_model \in BOOLEAN : Edit(v, other_model)
    \/ \E v \in Settings : ChangeProvider(v)
    \/ \E available \in BOOLEAN : ModelManaged(available)
    \/ \E j \in JobIds : ClickPreview(j) \/ UseWorkspace(j) \/ Cancel(j)
    \/ ClickRender
    \/ PreflightRender \/ PreflightCancel
    \/ \E j \in JobIds : PreflightPreview(j)
    \/ \E j \in JobIds, rebuild \in BOOLEAN : ReuseProceed(j, rebuild)
    \/ ReuseCancel
    \/ \E j \in JobIds : CollisionReplace(j) \/ CollisionRename(j)
    \/ CollisionCancel
    \/ Shutdown

Answers ==
    \/ \E s \in SourceIds, ok \in BOOLEAN : SourceAnswer(s, ok)
    \/ \E j \in JobIds, match \in BOOLEAN : ProbeAnswer(j, match)

Next == User \/ Answers \/ Deliver \/ \E j \in JobIds : Worker(j)

\* The event loop delivers queued signals, and a worker's runtime calls come
\* back, with a result or an exception.  Nothing obliges the user.
Fairness == WF_vars(Deliver) /\ \A j \in JobIds : WF_vars(Worker(j))

Spec == Init /\ [][Next]_vars

FairSpec == Spec /\ Fairness

---------------------------------------------------------------------------
(* Properties.                                                             *)

Steps == {"ABSENT", "PREPARE", "SESSION", "CHECKPOINT", "SERVICE", "FAILING",
          "EMIT", "RAISED", "REPORT", "FINALLY", "DONE"}
\* A worker between its claim and the end of its service.
HostSteps == {"PREPARE", "SESSION", "CHECKPOINT", "SERVICE", "FAILING"}
Signals == {"DOWNLOADED", "PREPARED", "SEGMENTING", "FINISHED"} \cup Terminating

Messages == [job: JobIds, type: Signals]

\* Type correctness of the composed state.
TypeOK ==
    /\ app \in AppStates
    /\ Ctx!TypeOK
    /\ kind \in [JobIds -> JobKinds \cup {None}]
    /\ inputs \in [JobIds -> Inputs \cup {None}]
    /\ pc \in [JobIds -> Steps]
    /\ queue \in Seq(Messages)
    /\ previewJob \in JobIds \cup {None}
    /\ renderJob \in JobIds \cup {None}
    /\ contexts \in SUBSET JobIds
    /\ loads \in [SourceIds -> {"UNUSED", "LOADING", "ANSWERED"}]
    /\ {preflight, probing, reuse, collision} \subseteq Pendings \cup {None}
    /\ closed \in BOOLEAN

\* A job, however long ago it was asked for, works on the source the editor
\* shows: no source is replaced under a job, and a render confirmed after its
\* source was replaced does not start.
JobIsForTheShownSource ==
    LET j == app.job.job_id
    IN  j \in JobIds /\ inputs[j] # None =>
            inputs[j].source_id = app.source_id

\* The scheduler and the contexts are used as jobs/context.py promises: the
\* controllers and workers take no step the contract does not allow.
ImplementsJobContext == Ctx!Spec

\* "Only one inference/render job may use the single segmentation process at
\* a time": no two workers are between their claim and the end of their
\* service, although a job can start while an older thread still winds down.
OneWorkerAtTheHost ==
    \A j, k \in JobIds : pc[j] \in HostSteps /\ pc[k] \in HostSteps => j = k

\* A preview labelled current was made from exactly the source and settings
\* the editor shows, although they were captured a whole job earlier.
CurrentPreviewShowsSettings ==
    app.preview = "CURRENT" =>
        /\ app.preview_result.source_id = app.source_id
        /\ app.preview_result.value = app.settings

\* What the user is shown as a result or an artifact was committed: nothing
\* of a job whose cancellation or failure won the race is ever shown.
ShownOnlyIfCommitted ==
    /\ app.preview_result # None =>
          app.preview_result.request_id \in committed
    /\ app.artifact_result # None =>
          app.artifact_result.request_id \in committed

\* While the reducer waits for a worker that has ended, the notification that
\* will unlock the editor is on its way.
TerminalIsOnItsWay ==
    LET j == app.job.job_id
    IN  j \in JobIds /\ pc[j] \in {"FINALLY", "DONE"} =>
            \E n \in 1..Len(queue) :
                queue[n].job = j /\ queue[n].type \in Terminating

\* Every accepted cancellation is answered: CANCELLING does not last.
CancelIsAnswered ==
    app.job.phase = "CANCELLING" ~> Idle(app) \/ closed

\* An output file that was published is shown as the artifact, even when the
\* user's cancel came a moment too late.
PublishedIsShown ==
    \A j \in JobIds :
        pc[j] = "EMIT" /\ kind[j] # "PREVIEW" ~>
            \/ app.artifact_result # None /\ app.artifact_result.request_id = j
            \/ closed

\* "The entire editor is locked until success, failure, or acknowledged
\* cancellation": every lock ends.
EditorUnlocks == ~Idle(app) ~> Idle(app) \/ closed

\* "Editor remains dimmed at its frozen job snapshot": a running job was given
\* the settings the locked editor shows.
RunningJobUsesShownSettings ==
    LET j == app.job.job_id
    IN  j \in JobIds /\ inputs[j] # None => inputs[j].value = app.settings
===========================================================================
