-------------------------- MODULE ExecutionProviders --------------------------
(***************************************************************************)
(* What computes a cut: the provider the user picks in the preferences,    *)
(* the session a job prepares for it (jobs/models/session.py, the runtime  *)
(* of ui/preview_controller/runtime.py), the child that loads the weight   *)
(* into it and falls back to the CPU, at the start or at a frame           *)
(* (jobs/segmentation_host.py), and what the workers report back to the    *)
(* settings (ui/controller.py).  The pipe is in SegmentationHost, the      *)
(* download in ModelStore; the name of the model's directory is in         *)
(* BoundDirectory.                                                         *)
(***************************************************************************)
EXTENDS Naturals, Sequences

CONSTANTS Accelerators, Cpu, \* the providers of ALLOWED_EXECUTION_PROVIDERS
          Nets, DefaultNet,  \* the models of the catalog
          NoProvider,
          MaxWeightFiles, MaxTampers, MaxTasks, MaxPicks

ASSUME ProvidersAssumption ==
    /\ Cpu \notin Accelerators /\ NoProvider \notin Accelerators \cup {Cpu} /\ DefaultNet \in Nets
    /\ {MaxWeightFiles, MaxTampers, MaxTasks, MaxPicks} \subseteq Nat

VARIABLES
    offered,    \* what ONNX Runtime reports here
    picked,     \* the setting, what the controller has to reconcile with it, its timer;
                \* said, for the properties: what a worker said since the last pick
    task,       \* the job, from the click to the delivery of its end
    posted,     \* the signals of the job's worker that are not delivered
    handle,     \* the active session of the ModelSessionManager
    prepared,   \* what the runtime prepared last
    engine,     \* the child: its step, its session, the file it reads
    weightAt,   \* per model, the file under the name of its weight, or 0
    weightFile, \* per file, whether it is regular and what its bytes are
    spent       \* what was used of the bounds

providerVars == <<offered, picked, task, posted, handle, prepared, engine, weightAt, weightFile, spent>>

Providers == Accelerators \cup {Cpu}
WeightBytes == {"proven", "forged", "short"} \* forged: of the right size
\* A child that is launched for a model and a provider.
Launched(pc, net, asked) == [pc |-> pc, net |-> net, asked |-> asked, on |-> NoProvider, loaded |-> "short", reads |-> "launch",
                          life |-> "asked", seen |-> 0, bytes |-> "short", answer |-> "none"]
NoHandle == [is |-> "none", net |-> DefaultNet, asked |-> Cpu, reported |-> Cpu]
NoTask == [pc |-> "none", kind |-> "segment", net |-> DefaultNet, provider |-> Cpu]
NoWeight == [kind |-> "other", bytes |-> "short"]

ProvidersInit ==
    /\ offered \in {here \cup {Cpu} : here \in SUBSET Accelerators}
    /\ \E p \in Providers : picked = [selected |-> p, pending |-> NoProvider, timer |-> "off", said |-> NoProvider]
    /\ task = NoTask /\ posted = <<>> /\ handle = NoHandle /\ prepared = NoHandle /\ engine = Launched("off", DefaultNet, Cpu)
    /\ weightAt = [n \in Nets |-> 0] /\ weightFile = [f \in 1..MaxWeightFiles |-> NoWeight]
    /\ spent = [files |-> 0, tampers |-> 0, tasks |-> 0, picks |-> 0]

ChildStays == UNCHANGED <<handle, prepared, engine, weightAt, weightFile>>
TaskStays == UNCHANGED <<picked, task, posted, prepared, handle>>

---------------------------------------------------------------------------
(* The child: the proof of the weight's bytes *)

\* The read is refused: a failure before the child is ready, or of the frame.
ReadFails ==
    engine' = IF engine.reads = "frame" THEN [engine EXCEPT !.pc = "idle", !.reads = "launch", !.answer = "failed"]
              ELSE [engine EXCEPT !.pc = "failed"]

Found == weightAt[engine.net]
OfSize(f) == weightFile[f].kind = "file" /\ weightFile[f].bytes # "short"

LookAtWeight ==
    /\ engine.pc = "look"
    /\ IF Found # 0 /\ OfSize(Found) THEN engine' = [engine EXCEPT !.pc = "open", !.seen = Found] ELSE ReadFails

OpenWeight ==
    /\ engine.pc = "open"
    /\ IF Found = engine.seen /\ OfSize(Found) THEN engine' = [engine EXCEPT !.pc = "read"] ELSE ReadFails

ReadWeight ==
    /\ engine.pc = "read"
    /\ engine' = [engine EXCEPT !.pc = "prove", !.bytes = weightFile[engine.seen].bytes]

\* Mutant: a file that was not exchanged is taken for the one that was proven.
ProveName ==
    /\ engine.pc = "prove"
    /\ IF Found = engine.seen /\ OfSize(Found) THEN engine' = [engine EXCEPT !.pc = "build"] ELSE ReadFails

ProveWeight ==
    /\ engine.pc = "prove"
    /\ IF Found = engine.seen /\ OfSize(Found) /\ engine.bytes = "proven"
       THEN engine' = [engine EXCEPT !.pc = "build"] ELSE ReadFails

---------------------------------------------------------------------------
(* The child: its session *)

Session(provider) == [engine EXCEPT !.on = provider, !.loaded = engine.bytes]

\* _instantiate_verified_rembg_session: the provider, the CPU after it, or neither.
BuildSession ==
    /\ engine.pc = "build" /\ engine.reads = "launch"
    /\ \/ engine.asked \in offered /\ engine' = [Session(engine.asked) EXCEPT !.pc = "ready"]
       \/ engine.asked # Cpu /\ engine' = [Session(Cpu) EXCEPT !.pc = "ready"]
       \/ ReadFails

\* Mutant: the session of the fallback serves one frame only.
FallBackOnce ==
    /\ engine.pc = "build" /\ engine.reads = "frame"
    /\ \/ engine' = [engine EXCEPT !.pc = "again", !.reads = "launch", !.life = "fell"]
       \/ ReadFails

\* The fallback at a frame: from now on the session is the CPU's.
FallBack ==
    /\ engine.pc = "build" /\ engine.reads = "frame"
    /\ \/ engine' = [Session(Cpu) EXCEPT !.pc = "again", !.reads = "launch", !.life = "fell"]
       \/ ReadFails

\* One inference: an answer, or what it raises; an accelerator's is tried again.
Infer ==
    /\ engine.pc \in {"infers", "again"}
    /\ \/ engine' = [engine EXCEPT !.pc = "idle", !.answer = "frame"]
       \/ engine.on = Cpu /\ engine' = [engine EXCEPT !.pc = "idle", !.answer = "failed"]
       \/ engine.on # Cpu /\ engine' = [engine EXCEPT !.pc = "look", !.reads = "frame"]

EngineStep ==
    /\ LookAtWeight \/ OpenWeight \/ ReadWeight \/ ProveWeight \/ BuildSession \/ FallBack \/ Infer
    /\ TaskStays /\ UNCHANGED <<offered, weightAt, weightFile, spent>>

EngineDies ==
    /\ engine.pc # "off" /\ engine' = [engine EXCEPT !.pc = "off"]
    /\ TaskStays /\ UNCHANGED <<offered, weightAt, weightFile, spent>>

\* Another program puts a file at a weight's name, writes into one, or removes it.
Tamper ==
    /\ spent.tampers < MaxTampers
    /\ \E n \in Nets :
          \/ /\ spent.files < MaxWeightFiles
             /\ \E bytes \in WeightBytes, kind \in {"file", "other"} :
                   weightFile' = [weightFile EXCEPT ![spent.files + 1] = [kind |-> kind, bytes |-> bytes]]
             /\ weightAt' = [weightAt EXCEPT ![n] = spent.files + 1]
             /\ spent' = [spent EXCEPT !.files = @ + 1, !.tampers = @ + 1]
          \/ /\ weightAt[n] # 0
             /\ \/ weightAt' = [weightAt EXCEPT ![n] = 0] /\ UNCHANGED weightFile
                \/ /\ \E bytes \in WeightBytes : weightFile' = [weightFile EXCEPT ![weightAt[n]].bytes = bytes]
                   /\ UNCHANGED weightAt
             /\ spent' = [spent EXCEPT !.tampers = @ + 1]
    /\ TaskStays /\ UNCHANGED <<offered, engine>>

---------------------------------------------------------------------------
(* The worker: ModelSessionManager.prepare, and the runtime over it *)

TaskAt(pc) == task.pc = pc
TaskTo(pc) == task' = [task EXCEPT !.pc = pc]
Post(signal) == posted' = Append(posted, signal)
Over == TaskTo("over") /\ Post([is |-> "over", provider |-> NoProvider])
WorkerOnly == UNCHANGED <<offered, picked, spent>>

\* Mutant: a session is used again for another provider.
ReusesModel == handle.is = "live" /\ handle.net = task.net /\ engine.pc # "off"

\* The active session is of the model and the provider, and its child runs.
Reuses == handle.is = "live" /\ handle.net = task.net /\ handle.asked = task.provider /\ engine.pc # "off"

Reuse ==
    /\ TaskAt("prepares") /\ Reuses /\ TaskTo("prepared")
    /\ WorkerOnly /\ ChildStays /\ UNCHANGED posted

ProvenFile == [kind |-> "file", bytes |-> "proven"]
Whole(n) == weightAt[n] # 0 /\ weightFile[weightAt[n]] = ProvenFile

\* The downloader returns the path of a weight it found or made whole, or raises.
Download ==
    /\ TaskAt("prepares") /\ ~Reuses
    /\ \/ Whole(task.net) /\ TaskTo("launches") /\ UNCHANGED <<posted, weightAt, weightFile, spent>>
       \/ /\ ~Whole(task.net) /\ spent.files < MaxWeightFiles
          /\ weightFile' = [weightFile EXCEPT ![spent.files + 1] = ProvenFile]
          /\ weightAt' = [weightAt EXCEPT ![task.net] = spent.files + 1]
          /\ spent' = [spent EXCEPT !.files = @ + 1]
          /\ TaskTo("launches") /\ UNCHANGED posted
       \/ Over /\ UNCHANGED <<weightAt, weightFile, spent>>
    /\ UNCHANGED <<offered, picked, handle, prepared, engine>>

\* A client is started, or its child replaced, with the launch payload.
Launch ==
    /\ TaskAt("launches") /\ TaskTo("starts")
    /\ engine' = Launched("look", task.net, task.provider)
    /\ WorkerOnly /\ UNCHANGED <<posted, handle, prepared, weightAt, weightFile>>

\* Mutant: what the child says of its provider is not read.
TrustLaunch ==
    /\ TaskAt("starts") /\ engine.pc = "ready" /\ TaskTo("prepared")
    /\ engine' = [engine EXCEPT !.pc = "idle"]
    /\ handle' = [is |-> "live", net |-> task.net, asked |-> task.provider, reported |-> task.provider]
    /\ WorkerOnly /\ UNCHANGED <<posted, prepared, weightAt, weightFile>>

\* WorkerReady names the provider of the session.
ChildIsReady ==
    /\ TaskAt("starts") /\ engine.pc = "ready" /\ TaskTo("prepared")
    /\ engine' = [engine EXCEPT !.pc = "idle"]
    /\ handle' = [is |-> "live", net |-> task.net, asked |-> task.provider, reported |-> engine.on]
    /\ WorkerOnly /\ UNCHANGED <<posted, prepared, weightAt, weightFile>>

\* A startup failure, or a timeout: the client is closed and forgotten.
LaunchFails ==
    /\ TaskAt("starts") /\ Over /\ handle' = NoHandle /\ engine' = [engine EXCEPT !.pc = "off"]
    /\ WorkerOnly /\ UNCHANGED <<prepared, weightAt, weightFile>>

\* The runtime takes the result, and the worker reports its provider.
Prepared ==
    /\ TaskAt("prepared") /\ TaskTo("segments") /\ prepared' = handle
    /\ Post([is |-> "provider", provider |-> handle.reported])
    /\ WorkerOnly /\ UNCHANGED <<handle, engine, weightAt, weightFile>>

\* A frame is sent, its answer taken; a dead or silent child fails the job.
SendFrame ==
    /\ TaskAt("segments") /\ engine.pc = "idle" /\ TaskTo("awaits")
    /\ engine' = [engine EXCEPT !.pc = "infers", !.answer = "none"]
    /\ WorkerOnly /\ UNCHANGED <<posted, handle, prepared, weightAt, weightFile>>
TakeFrame ==
    /\ TaskAt("awaits") /\ engine.pc = "idle" /\ engine.answer = "frame" /\ TaskTo("segments")
    /\ WorkerOnly /\ ChildStays /\ UNCHANGED posted
FrameFails ==
    /\ TaskAt("awaits") /\ Over /\ WorkerOnly
    /\ \/ engine.pc = "idle" /\ engine.answer = "failed" /\ UNCHANGED engine
       \/ engine.pc # "idle" /\ engine' = [engine EXCEPT !.pc = "off"]
    /\ UNCHANGED <<handle, prepared, weightAt, weightFile>>

\* The service returns, or finds itself cancelled.
SegmentsAreDone ==
    /\ TaskAt("segments") /\ Over
    /\ WorkerOnly /\ ChildStays

\* A rebuild prepares nothing, and reports what was prepared last, or fails.
Rebuild ==
    /\ TaskAt("rebuilds") /\ WorkerOnly /\ ChildStays
    /\ \/ TaskTo("over") /\ posted' = posted \o <<[is |-> "provider", provider |-> prepared.reported], [is |-> "over", provider |-> NoProvider]>>
       \/ Over

JobStep ==
    \/ Reuse \/ Download \/ Launch \/ ChildIsReady \/ LaunchFails \/ Prepared
    \/ SendFrame \/ TakeFrame \/ FrameFails \/ SegmentsAreDone \/ Rebuild

---------------------------------------------------------------------------
(* The GUI thread *)

NoJobRuns == task.pc \in {"none", "asks"}
GuiOnly == UNCHANGED <<offered, handle, prepared, engine, weightAt, weightFile>>

\* A state change while no job runs arms the timer.
Armed(p) == [p EXCEPT !.timer = IF p.pending # NoProvider THEN "set" ELSE @]

PickProvider ==
    /\ NoJobRuns /\ spent.picks < MaxPicks /\ spent' = [spent EXCEPT !.picks = @ + 1]
    /\ \E p \in offered \ {picked.selected} :
          picked' = Armed([picked EXCEPT !.selected = p, !.said = IF picked.pending = NoProvider THEN NoProvider ELSE @])
    /\ GuiOnly /\ UNCHANGED <<task, posted>>

\* The click captures the request, which may wait for the look at the workspace
\* and in dialogs: the setting can be picked meanwhile.
Click ==
    /\ TaskAt("none") /\ spent.tasks < MaxTasks /\ spent' = [spent EXCEPT !.tasks = @ + 1]
    /\ \E kind \in {"segment", "rebuild"}, n \in Nets :
          task' = [pc |-> "asks", kind |-> kind, net |-> n, provider |-> picked.selected]
    /\ GuiOnly /\ UNCHANGED <<picked, posted>>
Dismiss ==
    /\ TaskAt("asks") /\ TaskTo("none")
    /\ GuiOnly /\ UNCHANGED <<picked, posted, spent>>
Begin ==
    /\ TaskAt("asks") /\ TaskTo(IF task.kind = "rebuild" THEN "rebuilds" ELSE "prepares")
    /\ GuiOnly /\ UNCHANGED <<picked, posted, spent>>

\* A signal of the worker is delivered.
DeliverSignal ==
    /\ posted # <<>> /\ posted' = Tail(posted) /\ GuiOnly /\ UNCHANGED spent
    /\ \/ /\ Head(posted).is = "provider" /\ UNCHANGED task
          /\ picked' = [picked EXCEPT !.pending = Head(posted).provider, !.said = Head(posted).provider]
       \/ Head(posted).is = "over" /\ TaskTo("none") /\ picked' = Armed(picked)

\* Mutant: what is pending is taken before the job is looked at.
ReconcileDrops ==
    /\ picked.timer = "set" /\ GuiOnly /\ UNCHANGED <<task, posted, spent>>
    /\ picked' = [picked EXCEPT !.timer = "off", !.pending = NoProvider,
                                !.selected = IF NoJobRuns /\ picked.pending # NoProvider THEN picked.pending ELSE @]

\* _reconcile_provider: not while a job runs; its end arms the timer again.
Reconcile ==
    /\ picked.timer = "set" /\ GuiOnly /\ UNCHANGED <<task, posted, spent>>
    /\ picked' = IF ~NoJobRuns \/ picked.pending = NoProvider THEN [picked EXCEPT !.timer = "off"]
                 ELSE [picked EXCEPT !.timer = "off", !.pending = NoProvider, !.selected = picked.pending]

ProvidersNext ==
    \/ EngineStep \/ EngineDies \/ Tamper \/ JobStep
    \/ PickProvider \/ Click \/ Dismiss \/ Begin \/ DeliverSignal \/ Reconcile

ProvidersSpec == ProvidersInit /\ [][ProvidersNext]_providerVars

---------------------------------------------------------------------------
(* Properties *)

Looks == {"look", "open", "read", "prove", "build"}
Children == [pc: Looks \cup {"off", "ready", "failed", "idle", "infers", "again"}, net: Nets, asked: Providers,
             on: Providers \cup {NoProvider}, loaded: WeightBytes, reads: {"launch", "frame"}, life: {"asked", "fell"},
             seen: 0..MaxWeightFiles, bytes: WeightBytes, answer: {"none", "frame", "failed"}]
Tasks == [pc: {"none", "asks", "prepares", "launches", "starts", "prepared", "segments", "awaits", "rebuilds", "over"},
          kind: {"segment", "rebuild"}, net: Nets, provider: Providers]
Handles == [is: {"none", "live"}, net: Nets, asked: Providers, reported: Providers]
Picks == [selected: Providers, pending: Providers \cup {NoProvider}, timer: {"off", "set"}, said: Providers \cup {NoProvider}]
Signals == [is: {"provider", "over"}, provider: Providers \cup {NoProvider}]

ProvidersTypeOK ==
    /\ offered \subseteq Providers
    /\ picked \in Picks /\ task \in Tasks /\ posted \in Seq(Signals)
    /\ handle \in Handles /\ prepared \in Handles /\ engine \in Children
    /\ spent \in [files: 0..MaxWeightFiles, tampers: 0..MaxTampers, tasks: 0..MaxTasks, picks: 0..MaxPicks]
    /\ weightAt \in [Nets -> 0..spent.files]
    /\ weightFile \in [1..MaxWeightFiles -> [kind: {"file", "other"}, bytes: WeightBytes]]

\* No session holds bytes other than those of the catalog's digest, whoever
\* replaces, rewrites or removes the file between the looks, the opening and the
\* read, and when it is read again for a fallback in the middle of a job.
OnlyProvenIsLoaded == engine.on # NoProvider => engine.loaded = "proven"

\* A job's frames are computed by its model, on its provider or, after that
\* failed, on the CPU; also when the session of an earlier job is used again.
FramesRunAsAsked ==
    task.pc \in {"segments", "awaits"} /\ engine.pc # "off"
    => engine.net = task.net /\ engine.on \in {task.provider, Cpu}

\* What the runtime says computes is what computes, until a frame falls back.
ReportIsOfTheSession ==
    task.pc \in {"segments", "awaits"} /\ engine.pc # "off"
    => prepared.reported = engine.on \/ (engine.life = "fell" /\ engine.on = Cpu)

\* After a frame's fallback the accelerator is not tried again.
FallbackIsForGood == engine.life = "fell" /\ engine.pc # "off" => engine.on = Cpu /\ engine.pc # "look"

\* What a job ran on reaches the settings, even if the next job is started
\* before the timer fires, unless the user picked after that.
SettingFollows ==
    /\ picked.pending = NoProvider /\ picked.said # NoProvider => picked.selected = picked.said
    /\ picked.pending # NoProvider /\ NoJobRuns => picked.timer = "set"

\* A job computes what was asked with bytes that were proven, and the setting
\* follows what it ran on.
ProvidersCorrect ==
    /\ ProvidersTypeOK
    /\ OnlyProvenIsLoaded
    /\ FramesRunAsAsked
    /\ ReportIsOfTheSession
    /\ FallbackIsForGood
    /\ SettingFollows
=============================================================================
