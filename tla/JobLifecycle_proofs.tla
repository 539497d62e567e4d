------------------------ MODULE JobLifecycle_proofs ------------------------
(***************************************************************************)
(* For every set of sources, jobs and settings, and every interleaving of  *)
(* the GUI thread with the workers: the controllers and workers use the    *)
(* scheduler and the contexts as JobContext promises, no two workers are   *)
(* at the host, what is shown was committed and made from what the editor  *)
(* shows, and the notification that unlocks the editor is never lost.      *)
(***************************************************************************)
EXTENDS JobLifecycle, AppReducer_proofs, SequenceTheorems

\* The signals that are on their way to the GUI thread.
Sent == {queue[n] : n \in 1..Len(queue)}

\* The scheduler owns the job that has not ended, and the jobs that committed
\* are those that succeeded.
SlotInv ==
    \A j \in JobIds : /\ Ctx!Live(j) <=> active = j
                      /\ j \in committed <=> terminal[j] = "SUCCEEDED"

\* A job has a context when it has a worker; a worker before the end of its
\* service holds the slot, and one that has a result to show has committed it.
WorkerInv ==
    \A j \in JobIds :
        /\ pc[j] = "ABSENT" <=> terminal[j] = "ABSENT"
        /\ pc[j] = "ABSENT" => inputs[j] = None
        /\ pc[j] # "ABSENT" => kind[j] \in JobKinds /\ inputs[j] \in Inputs
        /\ pc[j] \in HostSteps => Ctx!Live(j)
        /\ pc[j] = "EMIT" => terminal[j] = "SUCCEEDED"

\* What a signal says of its job is so.
QueueInv ==
    \A m \in Sent : /\ pc[m.job] # "ABSENT"
                    /\ m.type = "SUCCEEDED" => m.job \in committed
                    /\ m.type = "ACKNOWLEDGED" => terminal[m.job] = "CANCELLED"

\* A job with a worker is the one the editor is locked for: of its kind, its
\* source and, for a preview, its settings; its controller listens to it, and
\* its cancel is known to the reducer.
ShownJobInv ==
    LET j == app.job.job_id
    IN  j \in JobIds /\ pc[j] # "ABSENT" =>
            /\ app.job.kind = kind[j]
            /\ app.job_request_id = j
            /\ inputs[j].source_id = app.source_id
            /\ IF kind[j] = "PREVIEW"
               THEN previewJob = j /\ inputs[j].value = app.settings
               ELSE renderJob = j
            /\ Ctx!Requested(j) => app.job.phase = "CANCELLING" \/ closed

\* A worker that has ended has sent what will end the job it was shown for.
TerminalSentInv ==
    LET j == app.job.job_id
    IN  j \in JobIds /\ pc[j] \in {"FINALLY", "DONE"} =>
            \E m \in Sent : m.job = j /\ m.type \in Terminating

Consistent ==
    /\ Coherent(app)
    /\ ResultsFrom(app, committed)
    /\ SlotInv
    /\ WorkerInv
    /\ QueueInv
    /\ ShownJobInv
    /\ TerminalSentInv

IInv == TypeOK /\ Consistent

---------------------------------------------------------------------------
(* The queue of signals.                                                   *)

\* Emit adds the signals it names and loses none.
LEMMA EmitSent ==
    ASSUME queue \in Seq(Messages), NEW j \in JobIds,
           NEW types \in Seq(Signals), Emit(j, types)
    PROVE  /\ queue' \in Seq(Messages)
           /\ Sent' = Sent \cup {[job |-> j, type |-> types[n]] :
                                    n \in 1..Len(types)}
<1> DEFINE new == [n \in 1..Len(types) |-> [job |-> j, type |-> types[n]]]
<1>1. Len(types) \in Nat /\ \A n \in 1..Len(types) : types[n] \in Signals
  BY ElementOfSeq, LenProperties
<1>2. new \in [1..Len(types) -> Messages]
  BY <1>1 DEF Messages
<1>3. new \in Seq(Messages) /\ Len(new) = Len(types)
  BY <1>1, <1>2
<1>4. queue' = queue \o new
  BY DEF Emit
<1>5. \A n \in 1..Len(types) : new[n] = [job |-> j, type |-> types[n]]
  OBVIOUS
<1> HIDE DEF new
<1>6. /\ queue' \in Seq(Messages)
      /\ Len(queue') = Len(queue) + Len(types)
      /\ \A i \in 1..(Len(queue) + Len(types)) :
             queue'[i] = IF i <= Len(queue) THEN queue[i]
                                            ELSE new[i - Len(queue)]
  <2>1. /\ queue \o new \in Seq(Messages)
        /\ Len(queue \o new) = Len(queue) + Len(new)
        /\ \A i \in 1..(Len(queue) + Len(new)) :
               (queue \o new)[i] = IF i <= Len(queue) THEN queue[i]
                                                      ELSE new[i - Len(queue)]
    BY <1>3, ConcatProperties
  <2> QED
    BY <2>1, <1>3, <1>4
<1>7. Len(queue) \in Nat
  BY LenProperties
<1>8. ASSUME NEW m \in Sent'
      PROVE  m \in Sent \cup {[job |-> j, type |-> types[n]] : n \in 1..Len(types)}
  <2>1. PICK i \in 1..(Len(queue) + Len(types)) : m = queue'[i]
    BY <1>6 DEF Sent
  <2>2. CASE i <= Len(queue)
    BY <1>6, <1>7, <2>1, <2>2 DEF Sent
  <2>3. CASE i > Len(queue)
    <3>1. i - Len(queue) \in 1..Len(types) /\ m = new[i - Len(queue)]
      BY <1>1, <1>6, <1>7, <2>1, <2>3
    <3> QED
      BY <1>5, <3>1
  <2> QED
    BY <1>1, <1>7, <2>2, <2>3
<1>9. ASSUME NEW m \in Sent
      PROVE  m \in Sent'
  BY <1>1, <1>6, <1>7 DEF Sent
<1>10. ASSUME NEW n \in 1..Len(types)
       PROVE  [job |-> j, type |-> types[n]] \in Sent'
  <2>1. Len(queue) + n \in 1..Len(queue')
    BY <1>1, <1>6, <1>7
  <2>2. queue'[Len(queue) + n] = [job |-> j, type |-> types[n]]
    <3>1. /\ Len(queue) + n \in 1..(Len(queue) + Len(types))
          /\ ~(Len(queue) + n <= Len(queue))
          /\ (Len(queue) + n) - Len(queue) = n
      BY <1>1, <1>7
    <3> QED
      BY <1>5, <1>6, <3>1
  <2> QED
    BY <2>1, <2>2 DEF Sent
<1> QED
  BY <1>6, <1>8, <1>9, <1>10

\* A delivery takes the oldest signal, and no other.
LEMMA DeliverySent ==
    ASSUME queue \in Seq(Messages), queue # <<>>, queue' = Tail(queue)
    PROVE  /\ queue' \in Seq(Messages)
           /\ Head(queue) \in Sent
           /\ Sent' \subseteq Sent
           /\ Sent \subseteq Sent' \cup {Head(queue)}
<1>1. /\ Len(queue) \in Nat \ {0}
      /\ queue' \in Seq(Messages)
      /\ Len(queue') = Len(queue) - 1
      /\ \A i \in 1..Len(queue') : queue'[i] = queue[i + 1]
  BY HeadTailProperties, EmptySeq
<1>2. Head(queue) = queue[1]
  OBVIOUS
<1>3. Head(queue) \in Sent
  BY <1>1, <1>2 DEF Sent
<1>4. Sent' \subseteq Sent
  BY <1>1 DEF Sent
<1>5. ASSUME NEW n \in 1..Len(queue), n # 1
      PROVE  queue[n] \in Sent'
  <2>1. n - 1 \in 1..Len(queue') /\ queue'[n - 1] = queue[n]
    BY <1>1, <1>5
  <2> QED
    BY <2>1 DEF Sent
<1>6. Sent \subseteq Sent' \cup {Head(queue)}
  BY <1>2, <1>5 DEF Sent
<1> QED
  BY <1>1, <1>3, <1>4, <1>6

LEMMA SentMessages ==
    ASSUME TypeOK
    PROVE  Sent \subseteq Messages
  BY ElementOfSeq DEF TypeOK, Sent

---------------------------------------------------------------------------
(* The kinds of steps the system takes.                                    *)

\* The types of the variables a start or a worker changes.
JobTypes ==
    /\ Ctx!TypeOK
    /\ kind \in [JobIds -> JobKinds \cup {None}]
    /\ inputs \in [JobIds -> Inputs \cup {None}]
    /\ pc \in [JobIds -> Steps]
    /\ previewJob \in JobIds \cup {None}
    /\ renderJob \in JobIds \cup {None}
    /\ contexts \in SUBSET JobIds

\* An event that starts no job, in a handler that touches no other state of
\* the jobs.
LEMMA EventStep ==
    ASSUME IInv, app' \in AppStates, Keeps(app, app', committed),
           UNCHANGED <<ctxVars, jobVars, queue, ctrlVars, closed>>
    PROVE  Consistent' /\ JobTypes' /\ queue' \in Seq(Messages)
<1> USE DEF IInv, Consistent, TypeOK, Keeps, ctxVars, jobVars, ctrlVars
<1>1. Coherent(app)' /\ ResultsFrom(app, committed)'
  OBVIOUS
<1>2. SlotInv' /\ WorkerInv' /\ QueueInv'
  BY DEF SlotInv, WorkerInv, QueueInv, Sent, Ctx!Live
<1>3. ShownJobInv'
  BY NoneIsNoValue DEF ShownJobInv, JobStays, Ctx!Requested
<1>4. TerminalSentInv'
  BY NoneIsNoValue DEF TerminalSentInv, JobStays, Sent
<1>5. JobTypes' /\ queue' \in Seq(Messages)
  BY DEF JobTypes, Ctx!TypeOK
<1> QED
  BY <1>1, <1>2, <1>3, <1>4, <1>5

\* A start that is accepted: the reducer shows the job, and the worker is
\* spawned if the scheduler is free.
LEMMA StartStep ==
    ASSUME IInv, NEW j \in JobIds, pc[j] = "ABSENT",
           NEW k \in JobKinds, NEW in \in Inputs,
           in.source_id = app.source_id,
           k = "PREVIEW" => in.value = app.settings,
           app' \in AppStates, Coherent(app'), ResultsFrom(app', committed),
           Starts(app, app', j, k, j),
           ClaimAndSpawn(j, k, in), UNCHANGED <<queue, closed>>
    PROVE  Consistent' /\ JobTypes' /\ queue' \in Seq(Messages)
<1> USE DEF IInv, Consistent, TypeOK, Starts
<1>1. CASE active # None
  <2>1. UNCHANGED <<ctxVars, jobVars, ctrlVars>>
    BY <1>1 DEF ClaimAndSpawn
  <2> USE <2>1 DEF ctxVars, jobVars, ctrlVars
  <2>2. SlotInv' /\ WorkerInv' /\ QueueInv'
    BY DEF SlotInv, WorkerInv, QueueInv, Sent, Ctx!Live
  <2>3. ShownJobInv' /\ TerminalSentInv'
    BY DEF ShownJobInv, TerminalSentInv
  <2>4. JobTypes' /\ queue' \in Seq(Messages)
    BY DEF JobTypes, Ctx!TypeOK
  <2> QED
    BY <2>2, <2>3, <2>4
<1>2. CASE active = None
  <2>1. /\ active' = j
        /\ terminal' = [terminal EXCEPT ![j] = "RUNNING"]
        /\ committed' = committed
        /\ kind' = [kind EXCEPT ![j] = k]
        /\ inputs' = [inputs EXCEPT ![j] = in]
        /\ pc' = [pc EXCEPT ![j] = IF k = "REBUILD" THEN "SERVICE" ELSE "PREPARE"]
        /\ contexts' = contexts \cup {j}
        /\ previewJob' = IF k = "PREVIEW" THEN j ELSE previewJob
        /\ renderJob' = IF k = "PREVIEW" THEN renderJob ELSE j
    BY <1>2 DEF ClaimAndSpawn, Ctx!Claim
  <2>2. terminal[j] = "ABSENT"
    BY DEF WorkerInv
  <2>3. SlotInv'
    BY <1>2, <2>1, <2>2, NoneIsNoValue DEF SlotInv, Ctx!Live, Ctx!TypeOK
  <2>4. WorkerInv'
    BY <2>1, <2>2 DEF WorkerInv, HostSteps, Ctx!Live, Ctx!TypeOK
  <2>5. QueueInv'
    <3>1. Sent' = Sent /\ Sent \subseteq Messages
      BY SentMessages DEF Sent
    <3> QED
      BY <3>1, <2>1, <2>2 DEF QueueInv, Messages, Ctx!TypeOK
  <2>6. ShownJobInv'
    BY <2>1 DEF ShownJobInv, Ctx!Requested, Ctx!TypeOK
  <2>7. TerminalSentInv'
    BY <2>1 DEF TerminalSentInv
  <2>8. JobTypes'
    BY <2>1 DEF JobTypes, Ctx!TypeOK, Ctx!TerminalStates, Steps
  <2> QED
    BY <2>1, <2>3, <2>4, <2>5, <2>6, <2>7, <2>8
<1> QED
  BY <1>1, <1>2

\* What one transition of a job's context leaves of the scheduler: the job's
\* state alone changes, and the slot belongs to the live job.
LEMMA ContextStep ==
    ASSUME Ctx!TypeOK, SlotInv, NEW j \in JobIds,
           \/ Ctx!AcknowledgeCancel(j) \/ Ctx!Commit(j) \/ Ctx!Fail(j)
           \/ Ctx!RequestCancel(j) \/ UNCHANGED ctxVars
    PROVE  /\ Ctx!TypeOK'
           /\ SlotInv'
           /\ committed \subseteq committed'
           /\ \A k \in JobIds : k # j => terminal'[k] = terminal[k]
           /\ terminal[j] = "ABSENT" <=> terminal'[j] = "ABSENT"
           /\ terminal[j] \in {"SUCCEEDED", "CANCELLED"} =>
                 terminal'[j] = terminal[j]
  BY NoneIsNoValue
  DEF Ctx!TypeOK, Ctx!TerminalStates, SlotInv, Ctx!Live, Ctx!Settle, ctxVars,
      Ctx!AcknowledgeCancel, Ctx!Commit, Ctx!Fail, Ctx!RequestCancel

\* Job j sends signals of the types in new.
Sends(j, new) ==
    /\ queue' \in Seq(Messages)
    /\ Sent' = Sent \cup {[job |-> j, type |-> s] : s \in new}

\* A worker's step, whatever it is: its thread goes on, its context may make a
\* transition, and it sends no more than it may say.
GoesOn(j, label, new) ==
    /\ UNCHANGED guiVars
    /\ \/ Ctx!AcknowledgeCancel(j) \/ Ctx!Commit(j) \/ Ctx!Fail(j)
       \/ UNCHANGED ctxVars
    /\ Goto(j, label)
    /\ Sends(j, new)
    /\ label \in HostSteps => Ctx!Live(j)'
    /\ label = "EMIT" => terminal'[j] = "SUCCEEDED"
    /\ "SUCCEEDED" \in new => terminal[j] = "SUCCEEDED"
    /\ "ACKNOWLEDGED" \in new => terminal'[j] = "CANCELLED"
    /\ label \in {"FINALLY", "DONE"} =>
           pc[j] \in {"FINALLY", "DONE"} \/ new \cap Terminating # {}
    /\ Ctx!Requested(j)' => Ctx!Requested(j)

LEMMA WorkerGoesOn ==
    ASSUME IInv, NEW j \in JobIds, pc[j] # "ABSENT",
           NEW label \in Steps \ {"ABSENT"}, NEW new \in SUBSET Signals,
           GoesOn(j, label, new)
    PROVE  IInv'
<1> USE DEF IInv, Consistent, Sends, GoesOn
<1>1. /\ pc' = [pc EXCEPT ![j] = label]
      /\ UNCHANGED <<app, previewJob, renderJob, contexts, loads, preflight,
                     probing, reuse, collision, closed, kind, inputs>>
  BY DEF Goto, guiVars, ctrlVars, renderVars
<1>2. /\ Ctx!TypeOK'
      /\ SlotInv'
      /\ committed \subseteq committed'
      /\ \A k \in JobIds : k # j => terminal'[k] = terminal[k]
      /\ terminal[j] = "ABSENT" <=> terminal'[j] = "ABSENT"
      /\ terminal[j] \in {"SUCCEEDED", "CANCELLED"} => terminal'[j] = terminal[j]
  BY ContextStep DEF TypeOK
<1>3. TypeOK'
  BY <1>1, <1>2 DEF TypeOK
<1>4. Coherent(app)' /\ ResultsFrom(app, committed)'
  BY <1>1, <1>2 DEF Coherent, MadeFrom, Idle, ResultsFrom
<1>5. WorkerInv'
  BY <1>1, <1>2 DEF WorkerInv, TypeOK, Ctx!Live
<1>6. QueueInv'
  <2> SUFFICES ASSUME NEW m \in Sent'
               PROVE  /\ pc'[m.job] # "ABSENT"
                      /\ m.type = "SUCCEEDED" => m.job \in committed'
                      /\ m.type = "ACKNOWLEDGED" => terminal'[m.job] = "CANCELLED"
    BY DEF QueueInv
  <2>1. CASE m \in Sent
    <3>1. m.job \in JobIds
      BY <2>1, SentMessages DEF Messages
    <3> QED
      BY <2>1, <3>1, <1>1, <1>2 DEF QueueInv, TypeOK
  <2>2. CASE m \notin Sent
    <3>1. PICK s \in new : m = [job |-> j, type |-> s]
      BY <2>2
    <3>2. terminal[j] = "SUCCEEDED" => j \in committed'
      BY <1>2 DEF SlotInv
    <3> QED
      BY <3>1, <3>2, <1>1 DEF TypeOK
  <2> QED
    BY <2>1, <2>2
<1>7. ShownJobInv'
  BY <1>1, <1>2 DEF ShownJobInv, TypeOK, Ctx!Requested
<1>8. TerminalSentInv'
  <2> SUFFICES ASSUME app.job.job_id \in JobIds,
                      pc'[app.job.job_id] \in {"FINALLY", "DONE"}
               PROVE  \E m \in Sent' : /\ m.job = app.job.job_id
                                       /\ m.type \in Terminating
    BY <1>1 DEF TerminalSentInv
  <2>1. CASE pc[app.job.job_id] \in {"FINALLY", "DONE"}
    BY <2>1 DEF TerminalSentInv
  <2>2. CASE pc[app.job.job_id] \notin {"FINALLY", "DONE"}
    <3>1. app.job.job_id = j /\ label \in {"FINALLY", "DONE"}
      BY <1>1, <2>2 DEF TypeOK
    <3>2. PICK s \in new : s \in Terminating
      BY <2>2, <3>1
    <3>3. [job |-> j, type |-> s] \in Sent'
      OBVIOUS
    <3> QED
      BY <3>1, <3>2, <3>3
  <2> QED
    BY <2>1, <2>2
<1> QED
  BY <1>2, <1>3, <1>4, <1>5, <1>6, <1>7, <1>8

\* Signals of one type, of two, or none.
LEMMA EmitOne ==
    ASSUME queue \in Seq(Messages), NEW j \in JobIds,
           NEW s \in Signals, Emit(j, <<s>>)
    PROVE  Sends(j, {s})
<1>1. <<s>> \in Seq(Signals) /\ Len(<<s>>) = 1 /\ <<s>>[1] = s
  OBVIOUS
<1>2. /\ queue' \in Seq(Messages)
      /\ Sent' = Sent \cup {[job |-> j, type |-> <<s>>[n]] : n \in 1..Len(<<s>>)}
  BY <1>1, EmitSent
<1> QED
  BY <1>1, <1>2 DEF Sends

LEMMA EmitTwo ==
    ASSUME queue \in Seq(Messages), NEW j \in JobIds,
           NEW s1 \in Signals, NEW s2 \in Signals, Emit(j, <<s1, s2>>)
    PROVE  Sends(j, {s1, s2})
<1> DEFINE types == <<s1, s2>>
<1>1. types \in Seq(Signals) /\ Len(types) = 2 /\ types[1] = s1 /\ types[2] = s2
  OBVIOUS
<1>2. Emit(j, types)
  OBVIOUS
<1> HIDE DEF types
<1>3. /\ queue' \in Seq(Messages)
      /\ Sent' = Sent \cup {[job |-> j, type |-> types[n]] : n \in 1..Len(types)}
  BY <1>1, <1>2, EmitSent
<1>4. 1..Len(types) = {1, 2}
  BY <1>1
<1> QED
  BY <1>1, <1>3, <1>4 DEF Sends

LEMMA EmitNone ==
    ASSUME queue \in Seq(Messages), UNCHANGED queue, NEW j
    PROVE  Sends(j, {})
  BY DEF Sends, Sent

\* Every step of a worker keeps the invariant.
LEMMA WorkerStep ==
    ASSUME IInv, NEW j \in JobIds, Worker(j)
    PROVE  IInv'
<1>1. /\ queue \in Seq(Messages)
      /\ terminal \in [JobIds -> Ctx!TerminalStates]
  BY DEF IInv, TypeOK, Ctx!TypeOK
<1>2. /\ pc[j] \in HostSteps => Ctx!Live(j)
      /\ pc[j] = "EMIT" => terminal[j] = "SUCCEEDED"
      /\ terminal[j] = "ABSENT" => pc[j] = "ABSENT"
  BY DEF IInv, Consistent, WorkerInv
<1>3. ASSUME Ctx!Fail(j) \/ UNCHANGED ctxVars
      PROVE  Ctx!Requested(j)' => Ctx!Requested(j)
  BY <1>1, <1>3 DEF Ctx!Fail, Ctx!Settle, Ctx!Requested, ctxVars
<1>4. ASSUME Ctx!AcknowledgeCancel(j)
      PROVE  Ctx!Requested(j) /\ terminal'[j] = "CANCELLED"
  BY <1>1, <1>4 DEF Ctx!AcknowledgeCancel, Ctx!Settle, Ctx!Requested
<1> USE DEF Signals, Terminating, Steps, HostSteps
<1>5. CASE Downloads(j)
  <2>1. Sends(j, {"DOWNLOADED"})
    BY <1>1, <1>2, <1>5, EmitOne DEF Downloads, Ctx!Requested
  <2>2. GoesOn(j, "SESSION", {"DOWNLOADED"})
    BY <1>1, <1>2, <1>5, <2>1
    DEF Downloads, GoesOn, ctxVars, Ctx!Live, Ctx!Requested
  <2>3. pc[j] # "ABSENT"
    BY <1>5 DEF Downloads
  <2> QED
    BY <2>2, <2>3, WorkerGoesOn
<1>6. CASE PreparesModel(j)
  <2>1. CASE kind[j] = "PREVIEW"
    <3>1. Sends(j, {})
      BY <1>1, <1>2, <1>6, <2>1, EmitNone DEF PreparesModel, Ctx!Requested
    <3>2. GoesOn(j, "CHECKPOINT", {})
      BY <1>1, <1>2, <1>6, <2>1, <3>1
      DEF PreparesModel, GoesOn, ctxVars, Ctx!Live, Ctx!Requested
    <3>3. pc[j] # "ABSENT"
      BY <1>6 DEF PreparesModel
    <3> QED
      BY <3>2, <3>3, WorkerGoesOn
  <2>2. CASE kind[j] # "PREVIEW"
    <3>1. Sends(j, {})
      BY <1>1, <1>2, <1>6, <2>2, EmitNone DEF PreparesModel, Ctx!Requested
    <3>2. GoesOn(j, "SERVICE", {})
      BY <1>1, <1>2, <1>6, <2>2, <3>1
      DEF PreparesModel, GoesOn, ctxVars, Ctx!Live, Ctx!Requested
    <3>3. pc[j] # "ABSENT"
      BY <1>6 DEF PreparesModel
    <3> QED
      BY <3>2, <3>3, WorkerGoesOn
  <2> QED
    BY <1>6, <2>1, <2>2 DEF PreparesModel
<1>7. CASE PassesCheckpoint(j)
  <2>1. CASE terminal[j] = "CANCEL_PENDING"
    <3>1. Sends(j, {})
      BY <1>1, <1>2, <1>7, <2>1, EmitNone DEF PassesCheckpoint, Ctx!Requested
    <3>2. GoesOn(j, "RAISED", {})
      BY <1>1, <1>2, <1>7, <2>1, <3>1, <1>4
      DEF PassesCheckpoint, GoesOn, Ctx!Requested
    <3>3. pc[j] # "ABSENT"
      BY <1>7 DEF PassesCheckpoint
    <3> QED
      BY <3>2, <3>3, WorkerGoesOn
  <2>2. CASE terminal[j] # "CANCEL_PENDING"
    <3>1. Sends(j, {"PREPARED", "SEGMENTING"})
      BY <1>1, <1>2, <1>7, <2>2, EmitTwo DEF PassesCheckpoint, Ctx!Requested
    <3>2. GoesOn(j, "SERVICE", {"PREPARED", "SEGMENTING"})
      BY <1>1, <1>2, <1>7, <2>2, <3>1
      DEF PassesCheckpoint, GoesOn, ctxVars, Ctx!Live, Ctx!Requested
    <3>3. pc[j] # "ABSENT"
      BY <1>7 DEF PassesCheckpoint
    <3> QED
      BY <3>2, <3>3, WorkerGoesOn
  <2> QED
    BY <1>7, <2>1, <2>2 DEF PassesCheckpoint
<1>8. CASE RuntimeRaises(j)
  <2>1. Sends(j, {})
    BY <1>1, <1>2, <1>8, EmitNone DEF RuntimeRaises, Ctx!Requested
  <2>2. GoesOn(j, "RAISED", {})
    BY <1>1, <1>2, <1>8, <2>1, <1>3
    DEF RuntimeRaises, GoesOn, ctxVars, Ctx!Live, Ctx!Requested
  <2>3. pc[j] # "ABSENT"
    BY <1>8 DEF RuntimeRaises
  <2> QED
    BY <2>2, <2>3, WorkerGoesOn
<1>9. CASE ServiceAcknowledges(j)
  <2>1. Sends(j, {})
    BY <1>1, <1>2, <1>9, EmitNone DEF ServiceAcknowledges, Ctx!Requested
  <2>2. GoesOn(j, "RAISED", {})
    BY <1>1, <1>2, <1>9, <2>1, <1>4
    DEF ServiceAcknowledges, GoesOn, Ctx!Requested
  <2>3. pc[j] # "ABSENT"
    BY <1>9 DEF ServiceAcknowledges
  <2> QED
    BY <2>2, <2>3, WorkerGoesOn
<1>10. CASE ServiceCommits(j)
  <2>1. CASE Ctx!Commit(j) /\ Goto(j, "EMIT")
    <3>1. Sends(j, {})
      BY <1>1, <1>2, <1>10, <2>1, EmitNone DEF ServiceCommits, Ctx!Requested
    <3>2. GoesOn(j, "EMIT", {})
      BY <1>1, <1>2, <1>10, <2>1, <3>1
      DEF ServiceCommits, GoesOn, Ctx!Commit, Ctx!Settle, Ctx!Requested
    <3>3. pc[j] # "ABSENT"
      BY <1>10 DEF ServiceCommits
    <3> QED
      BY <3>2, <3>3, WorkerGoesOn
  <2>2. CASE Ctx!AcknowledgeCancel(j) /\ Goto(j, "RAISED")
    <3>1. Sends(j, {})
      BY <1>1, <1>2, <1>10, <2>2, EmitNone DEF ServiceCommits, Ctx!Requested
    <3>2. GoesOn(j, "RAISED", {})
      BY <1>1, <1>2, <1>10, <2>2, <3>1, <1>4
      DEF ServiceCommits, GoesOn, Ctx!Requested
    <3>3. pc[j] # "ABSENT"
      BY <1>10 DEF ServiceCommits
    <3> QED
      BY <3>2, <3>3, WorkerGoesOn
  <2> QED
    BY <1>10, <2>1, <2>2 DEF ServiceCommits
<1>11. CASE ServiceRaises(j)
  <2>1. CASE UNCHANGED ctxVars /\ Goto(j, "FAILING")
    <3>1. Sends(j, {})
      BY <1>1, <1>2, <1>11, <2>1, EmitNone DEF ServiceRaises, Ctx!Requested
    <3>2. GoesOn(j, "FAILING", {})
      BY <1>1, <1>2, <1>11, <2>1, <3>1, <1>3
      DEF ServiceRaises, GoesOn, ctxVars, Ctx!Live, Ctx!Requested
    <3>3. pc[j] # "ABSENT"
      BY <1>11 DEF ServiceRaises
    <3> QED
      BY <3>2, <3>3, WorkerGoesOn
  <2>2. CASE Ctx!AcknowledgeCancel(j) /\ Goto(j, "RAISED")
    <3>1. Sends(j, {})
      BY <1>1, <1>2, <1>11, <2>2, EmitNone DEF ServiceRaises, Ctx!Requested
    <3>2. GoesOn(j, "RAISED", {})
      BY <1>1, <1>2, <1>11, <2>2, <3>1, <1>4
      DEF ServiceRaises, GoesOn, Ctx!Requested
    <3>3. pc[j] # "ABSENT"
      BY <1>11 DEF ServiceRaises
    <3> QED
      BY <3>2, <3>3, WorkerGoesOn
  <2> QED
    BY <1>11, <2>1, <2>2 DEF ServiceRaises
<1>12. CASE ServiceFails(j)
  <2>1. Sends(j, {})
    BY <1>1, <1>2, <1>12, EmitNone DEF ServiceFails, Ctx!Requested
  <2>2. GoesOn(j, "RAISED", {})
    BY <1>1, <1>2, <1>12, <2>1, <1>3
    DEF ServiceFails, GoesOn, Ctx!Requested
  <2>3. pc[j] # "ABSENT"
    BY <1>12 DEF ServiceFails
  <2> QED
    BY <2>2, <2>3, WorkerGoesOn
<1>13. CASE EmitsSuccess(j)
  <2>1. Sends(j, {"SUCCEEDED"})
    BY <1>1, <1>2, <1>13, EmitOne DEF EmitsSuccess, Ctx!Requested
  <2>2. GoesOn(j, "FINALLY", {"SUCCEEDED"})
    BY <1>1, <1>2, <1>13, <2>1, <1>3
    DEF EmitsSuccess, GoesOn, ctxVars, Ctx!Live, Ctx!Requested
  <2>3. pc[j] # "ABSENT"
    BY <1>13 DEF EmitsSuccess
  <2> QED
    BY <2>2, <2>3, WorkerGoesOn
<1>14. CASE ConversionRaises(j)
  <2>1. Sends(j, {})
    BY <1>1, <1>2, <1>14, EmitNone DEF ConversionRaises, Ctx!Requested
  <2>2. GoesOn(j, "RAISED", {})
    BY <1>1, <1>2, <1>14, <2>1, <1>3
    DEF ConversionRaises, GoesOn, ctxVars, Ctx!Live, Ctx!Requested
  <2>3. pc[j] # "ABSENT"
    BY <1>14 DEF ConversionRaises
  <2> QED
    BY <2>2, <2>3, WorkerGoesOn
<1>15. CASE Notifies(j)
  <2>1. CASE Ctx!Requested(j)
    <3>1. Sends(j, {"ACKNOWLEDGED"})
      BY <1>1, <1>2, <1>15, <2>1, EmitOne DEF Notifies, Ctx!Requested
    <3>2. GoesOn(j, "FINALLY", {"ACKNOWLEDGED"})
      BY <1>1, <1>2, <1>15, <2>1, <3>1, <1>4
      DEF Notifies, GoesOn, ctxVars, Ctx!Live, Ctx!Requested
    <3>3. pc[j] # "ABSENT"
      BY <1>15 DEF Notifies
    <3> QED
      BY <3>2, <3>3, WorkerGoesOn
  <2>2. CASE ~Ctx!Requested(j)
    <3>1. Sends(j, {})
      BY <1>1, <1>2, <1>15, <2>2, EmitNone DEF Notifies, Ctx!Requested
    <3>2. GoesOn(j, "REPORT", {})
      BY <1>1, <1>2, <1>15, <2>2, <3>1, <1>3
      DEF Notifies, GoesOn, ctxVars, Ctx!Live, Ctx!Requested
    <3>3. pc[j] # "ABSENT"
      BY <1>15 DEF Notifies
    <3> QED
      BY <3>2, <3>3, WorkerGoesOn
  <2> QED
    BY <1>15, <2>1, <2>2 DEF Notifies
<1>16. CASE ReportsFailure(j)
  <2>1. Sends(j, {"FAILED"})
    BY <1>1, <1>2, <1>16, EmitOne DEF ReportsFailure, Ctx!Requested
  <2>2. GoesOn(j, "FINALLY", {"FAILED"})
    BY <1>1, <1>2, <1>16, <2>1, <1>3
    DEF ReportsFailure, GoesOn, ctxVars, Ctx!Live, Ctx!Requested
  <2>3. pc[j] # "ABSENT"
    BY <1>16 DEF ReportsFailure
  <2> QED
    BY <2>2, <2>3, WorkerGoesOn
<1>17. CASE Finishes(j)
  <2>1. Sends(j, {"FINISHED"})
    BY <1>1, <1>2, <1>17, EmitOne DEF Finishes, Ctx!Requested
  <2>2. GoesOn(j, "DONE", {"FINISHED"})
    BY <1>1, <1>2, <1>17, <2>1, <1>3
    DEF Finishes, GoesOn, Ctx!Requested
  <2>3. pc[j] # "ABSENT"
    BY <1>17 DEF Finishes
  <2> QED
    BY <2>2, <2>3, WorkerGoesOn
<1> QED
  BY <1>5, <1>6, <1>7, <1>8, <1>9, <1>10, <1>11, <1>12, <1>13,
     <1>14, <1>15, <1>16, <1>17 DEF Worker

---------------------------------------------------------------------------
(* The handlers of the GUI thread.                                         *)

LEMMA NothingKeeps ==
    ASSUME NEW s, NEW C, Coherent(s), ResultsFrom(s, C)
    PROVE  Keeps(s, s, C)
  BY DEF Keeps, JobStays

\* A ready source can be captured.
LEMMA CapturedType ==
    ASSUME IInv, app.source = "READY"
    PROVE  /\ app.source_id \in SourceIds /\ app.settings \in Settings
           /\ \A b \in BOOLEAN : Captured(b) \in Pendings
  BY DEF IInv, Consistent, Coherent, TypeOK, AppStates, Captured, Pendings

\* What a handler leaves of the types when it changes no dialog.
Typed ==
    /\ app' \in AppStates
    /\ Consistent'
    /\ JobTypes'
    /\ queue' \in Seq(Messages)

\* RenderController._start, whether it starts anything or not.
LEMMA StartRenderStep ==
    ASSUME IInv, NEW j \in JobIds, Unused(j), NEW p \in Pendings,
           StartRenderJob(j, p), UNCHANGED <<queue, closed>>
    PROVE  Typed
<1> USE DEF Typed
<1>1. /\ app \in AppStates /\ Coherent(app) /\ ResultsFrom(app, committed)
      /\ pc[j] = "ABSENT" /\ app.job.job_id # j
      /\ j \in RequestIds
  BY IdentitiesAreRequests DEF IInv, Consistent, TypeOK, Unused
<1>2. ASSUME app' = app, UNCHANGED <<ctxVars, jobVars, ctrlVars>>
      PROVE  Typed
  BY <1>1, <1>2, NothingKeeps, EventStep
<1>3. /\ p.source_id \in SourceIds /\ p.value \in Settings /\ p.rebuild \in BOOLEAN
      /\ [source_id |-> p.source_id, value |-> p.value] \in Inputs
      /\ Kind(p) \in JobKinds /\ Kind(p) # "PREVIEW"
  BY DEF Pendings, Inputs, Kind, JobKinds
<1>4. CASE p.source_id # app.source_id
  BY <1>2, <1>4 DEF StartRenderJob
<1>5. CASE p.source_id = app.source_id
  <2> DEFINE in == [source_id |-> p.source_id, value |-> p.value]
  <2>1. /\ app' = IF p.rebuild THEN OnRebuildRequested(app, j, j, TRUE)
                               ELSE OnRenderRequested(app, j, j)
        /\ IF app'.job.job_id = j
           THEN ClaimAndSpawn(j, Kind(p), in)
           ELSE UNCHANGED <<ctxVars, jobVars, ctrlVars>>
    BY <1>5, Zenon DEF StartRenderJob
  <2>2. /\ app' \in AppStates
        /\ Coherent(app')
        /\ ResultsFrom(app', committed)
        /\ app' = app \/ Starts(app, app', j, Kind(p), j)
    <3>1. CASE p.rebuild
      BY <1>1, <2>1, <3>1, RebuildRequestedStarts, RenderRequestedType DEF Kind
    <3>2. CASE ~p.rebuild
      BY <1>1, <2>1, <3>2, RenderRequestedStarts, RenderRequestedType DEF Kind
    <3> QED
      BY <3>1, <3>2
  <2>3. CASE app' = app
    BY <1>1, <1>2, <2>1, <2>3
  <2>4. CASE Starts(app, app', j, Kind(p), j)
    <3>1. ClaimAndSpawn(j, Kind(p), in)
      BY <2>1, <2>4 DEF Starts
    <3>2. in \in Inputs /\ in.source_id = app.source_id
      BY <1>3, <1>5
    <3> HIDE DEF in
    <3> QED
      BY <1>1, <1>3, <2>2, <2>4, <3>1, <3>2, StartStep
  <2> QED
    BY <2>2, <2>3, <2>4
<1> QED
  BY <1>4, <1>5

\* _resolve_collision: the same, or the dialog opens.
LEMMA ResolveStep ==
    ASSUME IInv, NEW j \in JobIds, Unused(j), NEW p \in Pendings,
           ResolveCollision(j, p), UNCHANGED <<queue, closed>>
    PROVE  Typed /\ collision' \in Pendings \cup {None}
<1>1. CASE StartRenderJob(j, p) /\ collision' = None
  BY <1>1, StartRenderStep
<1>2. CASE collision' = p /\ UNCHANGED <<app, ctxVars, jobVars, ctrlVars>>
  <2>1. Keeps(app, app', committed) /\ app' \in AppStates
    BY <1>2, NothingKeeps DEF IInv, Consistent, TypeOK
  <2> QED
    BY <1>2, <2>1, EventStep DEF Typed
<1> QED
  BY <1>1, <1>2 DEF ResolveCollision

\* The click on Preview, from the window or from the warning.
LEMMA StartPreviewStep ==
    ASSUME IInv, NEW j \in JobIds, Unused(j), NEW s \in AppStates,
           Coherent(s), ResultsFrom(s, committed), CanPreview(s),
           s.source_id = app.source_id, s.settings = app.settings,
           s.job = app.job, s.source = app.source,
           app' = OnPreviewRequested(s, j, j, TRUE),
           ClaimAndSpawn(j, "PREVIEW", [source_id |-> app.source_id,
                                        value |-> app.settings]),
           UNCHANGED <<queue, closed>>
    PROVE  Typed
<1> DEFINE in == [source_id |-> app.source_id, value |-> app.settings]
<1>1. j \in RequestIds /\ pc[j] = "ABSENT"
  BY IdentitiesAreRequests DEF Unused
<1>2. /\ app' \in AppStates
      /\ Coherent(app') /\ ResultsFrom(app', committed)
      /\ Starts(s, app', j, "PREVIEW", j)
  BY <1>1, PreviewRequestedType, PreviewRequestedStarts
<1>3. Starts(app, app', j, "PREVIEW", j)
  BY <1>2 DEF Starts, Idle
<1>4. in \in Inputs /\ in.source_id = app.source_id /\ in.value = app.settings
  BY <1>3, CapturedType DEF Starts, Inputs
<1>5. "PREVIEW" \in JobKinds
  BY DEF JobKinds
<1> HIDE DEF in
<1> QED
  BY <1>1, <1>2, <1>3, <1>4, <1>5, StartStep DEF Typed, in

\* The other half of TypeOK: what only the GUI thread has.
GuiTypes ==
    /\ loads \in [SourceIds -> {"UNUSED", "LOADING", "ANSWERED"}]
    /\ {preflight, probing, reuse, collision} \subseteq Pendings \cup {None}
    /\ closed \in BOOLEAN

LEMMA Together ==
    ASSUME Typed, GuiTypes'
    PROVE  IInv'
  BY DEF Typed, GuiTypes, IInv, TypeOK, JobTypes

\* The handlers that dispatch one event and start nothing.
LEMMA EventHandlers ==
    ASSUME IInv,
           \/ \E s \in SourceIds : LoadSource(s)
           \/ \E s \in SourceIds, ok \in BOOLEAN : SourceAnswer(s, ok)
           \/ \E v \in Settings, other_model \in BOOLEAN : Edit(v, other_model)
           \/ \E v \in Settings : ChangeProvider(v)
           \/ \E available \in BOOLEAN : ModelManaged(available)
           \/ ClickRender \/ PreflightRender \/ PreflightCancel
           \/ ReuseCancel \/ CollisionCancel
    PROVE  IInv'
<1>1. /\ app \in AppStates /\ Coherent(app) /\ ResultsFrom(app, committed)
      /\ GuiTypes
      /\ SourceIds \subseteq RequestIds
  BY IdentitiesAreRequests DEF IInv, Consistent, TypeOK, GuiTypes
<1>2. ASSUME app' \in AppStates, Keeps(app, app', committed), GuiTypes',
             UNCHANGED <<ctxVars, jobVars, queue, ctrlVars, closed>>
      PROVE  IInv'
  BY <1>2, EventStep, Together DEF Typed
<1>3. ASSUME NEW s \in SourceIds, LoadSource(s)
      PROVE  IInv'
  <2>1. app' \in AppStates /\ Keeps(app, app', committed)
    BY <1>1, <1>3, SourceType, LoadCoherent DEF LoadSource
  <2>2. GuiTypes'
    BY <1>1, <1>3 DEF LoadSource, GuiTypes, renderVars
  <2> QED
    BY <1>2, <1>3, <2>1, <2>2 DEF LoadSource
<1>4. ASSUME NEW s \in SourceIds, NEW ok \in BOOLEAN, SourceAnswer(s, ok)
      PROVE  IInv'
  <2>1. app' \in AppStates /\ Keeps(app, app', committed)
    BY <1>1, <1>4, SourceType, LoadCoherent DEF SourceAnswer
  <2>2. GuiTypes'
    BY <1>1, <1>4 DEF SourceAnswer, GuiTypes, renderVars
  <2> QED
    BY <1>2, <1>4, <2>1, <2>2 DEF SourceAnswer
<1>5. ASSUME NEW v \in Settings, NEW b \in BOOLEAN, Edit(v, b)
      PROVE  IInv'
  <2>1. app' \in AppStates /\ Keeps(app, app', committed)
    BY <1>1, <1>5, EditorType, EditorCoherent DEF Edit
  <2> QED
    BY <1>1, <1>2, <1>5, <2>1 DEF Edit, GuiTypes, renderVars
<1>6. ASSUME NEW v \in Settings, ChangeProvider(v)
      PROVE  IInv'
  <2>1. app' \in AppStates /\ Keeps(app, app', committed)
    BY <1>1, <1>6, EditorType, EditorCoherent DEF ChangeProvider
  <2> QED
    BY <1>1, <1>2, <1>6, <2>1 DEF ChangeProvider, GuiTypes, renderVars
<1>7. ASSUME NEW b \in BOOLEAN, ModelManaged(b)
      PROVE  IInv'
  <2>1. app' \in AppStates /\ Keeps(app, app', committed)
    BY <1>1, <1>7, AvailabilityType, AvailabilityCoherent DEF ModelManaged
  <2> QED
    BY <1>1, <1>2, <1>7, <2>1 DEF ModelManaged, GuiTypes, renderVars
<1>8. CASE ClickRender
  <2>1. app' \in AppStates /\ Keeps(app, app', committed)
    BY <1>1, <1>8, PreflightType, PreflightCoherent, NothingKeeps DEF ClickRender
  <2>2. Captured(FALSE) \in Pendings
    BY <1>8, CapturedType DEF ClickRender, CanRender, CanEdit, Ready
  <2>3. GuiTypes'
    BY <1>1, <1>8, <2>2 DEF ClickRender, Probe, GuiTypes
  <2> QED
    BY <1>2, <1>8, <2>1, <2>3 DEF ClickRender
<1>9. CASE PreflightRender
  <2>1. app' \in AppStates /\ Keeps(app, app', committed)
    BY <1>1, <1>9, PreflightType, PreflightCoherent DEF PreflightRender
  <2>2. GuiTypes'
    BY <1>1, <1>9 DEF PreflightRender, Probe, GuiTypes
  <2> QED
    BY <1>2, <1>9, <2>1, <2>2 DEF PreflightRender
<1>10. CASE PreflightCancel
  <2>1. app' \in AppStates /\ Keeps(app, app', committed)
    BY <1>1, <1>10, PreflightType, PreflightCoherent DEF PreflightCancel
  <2>2. GuiTypes'
    BY <1>1, <1>10 DEF PreflightCancel, GuiTypes
  <2> QED
    BY <1>2, <1>10, <2>1, <2>2 DEF PreflightCancel
<1>11. CASE ReuseCancel
  <2>1. GuiTypes'
    BY <1>1, <1>11 DEF ReuseCancel, GuiTypes
  <2> QED
    BY <1>1, <1>2, <1>11, <2>1, NothingKeeps DEF ReuseCancel
<1>12. CASE CollisionCancel
  <2>1. GuiTypes'
    BY <1>1, <1>12 DEF CollisionCancel, GuiTypes
  <2> QED
    BY <1>1, <1>2, <1>12, <2>1, NothingKeeps DEF CollisionCancel
<1> QED
  BY <1>3, <1>4, <1>5, <1>6, <1>7, <1>8, <1>9, <1>10, <1>11, <1>12

\* The handlers that may start a job.
LEMMA StartHandlers ==
    ASSUME IInv, NEW j \in JobIds,
           \/ ClickPreview(j) \/ PreflightPreview(j) \/ UseWorkspace(j)
           \/ \E match \in BOOLEAN : ProbeAnswer(j, match)
           \/ \E rebuild \in BOOLEAN : ReuseProceed(j, rebuild)
           \/ CollisionReplace(j) \/ CollisionRename(j)
    PROVE  IInv'
<1>1. /\ app \in AppStates /\ Coherent(app) /\ ResultsFrom(app, committed)
      /\ GuiTypes
  BY DEF IInv, Consistent, TypeOK, GuiTypes
<1>2. CASE ClickPreview(j)
  <2>1. Typed
    BY <1>1, <1>2, StartPreviewStep DEF ClickPreview, StartPreview
  <2>2. GuiTypes'
    BY <1>1, <1>2 DEF ClickPreview, GuiTypes, renderVars
  <2> QED
    BY <2>1, <2>2, Together
<1>3. CASE PreflightPreview(j)
  <2> DEFINE s == OnRenderPreflightDismissed(app)
  <2>1. /\ s \in AppStates /\ Keeps(app, s, committed)
        /\ s.source_id = app.source_id /\ s.settings = app.settings
        /\ s.job = app.job /\ s.source = app.source
        /\ CanPreview(app) => CanPreview(s)
    <3>1. s \in AppStates /\ Keeps(app, s, committed)
      BY <1>1, PreflightType, PreflightCoherent
    <3> QED
      BY <1>1, <3>1
      DEF OnRenderPreflightDismissed, AppStates, CanPreview, CanEdit, Ready, Idle
  <2>2. Typed
    <3>1. CASE CanPreview(app)
      <4>1. /\ app' = OnPreviewRequested(s, j, j, TRUE)
            /\ ClaimAndSpawn(j, "PREVIEW", [source_id |-> app.source_id,
                                            value |-> app.settings])
            /\ Unused(j) /\ UNCHANGED <<queue, closed>>
        BY <1>3, <3>1 DEF PreflightPreview
      <4> HIDE DEF s
      <4> QED
        BY <2>1, <3>1, <4>1, StartPreviewStep DEF Keeps
    <3>2. CASE ~CanPreview(app)
      <4>1. app' = s /\ UNCHANGED <<ctxVars, jobVars, queue, ctrlVars, closed>>
        BY <1>3, <3>2 DEF PreflightPreview
      <4> HIDE DEF s
      <4> QED
        BY <2>1, <4>1, EventStep DEF Typed
    <3> QED
      BY <3>1, <3>2
  <2>3. GuiTypes'
    BY <1>1, <1>3 DEF PreflightPreview, GuiTypes
  <2> QED
    BY <2>2, <2>3, Together
<1>4. CASE UseWorkspace(j)
  <2>1. Captured(TRUE) \in Pendings
    BY <1>4, CapturedType DEF UseWorkspace
  <2>2. Typed /\ collision' \in Pendings \cup {None}
    BY <1>4, <2>1, ResolveStep DEF UseWorkspace
  <2>3. GuiTypes'
    BY <1>1, <1>4, <2>2 DEF UseWorkspace, GuiTypes
  <2> QED
    BY <2>2, <2>3, Together
<1>5. ASSUME NEW match \in BOOLEAN, ProbeAnswer(j, match)
      PROVE  IInv'
  <2>1. probing \in Pendings
    BY <1>1, <1>5 DEF ProbeAnswer, GuiTypes
  <2>2. Typed /\ {collision, reuse}' \subseteq Pendings \cup {None}
    <3>1. CASE match
      <4>1. /\ UNCHANGED <<app, ctxVars, jobVars, queue, ctrlVars, closed>>
            /\ reuse' = probing /\ collision' = collision
        BY <1>5, <3>1 DEF ProbeAnswer
      <4>2. Keeps(app, app', committed)
        BY <1>1, <4>1, NothingKeeps
      <4> QED
        BY <1>1, <2>1, <4>1, <4>2, EventStep DEF Typed, GuiTypes
    <3>2. CASE ~match
      <4>1. /\ ResolveCollision(j, probing) /\ reuse' = reuse
            /\ Unused(j) /\ UNCHANGED <<queue, closed>>
        BY <1>5, <3>2 DEF ProbeAnswer
      <4> QED
        BY <1>1, <2>1, <4>1, ResolveStep DEF GuiTypes
    <3> QED
      BY <3>1, <3>2
  <2>3. GuiTypes'
    BY <1>1, <1>5, <2>2 DEF ProbeAnswer, GuiTypes
  <2> QED
    BY <2>2, <2>3, Together
<1>6. ASSUME NEW rebuild \in BOOLEAN, ReuseProceed(j, rebuild)
      PROVE  IInv'
  <2>1. [reuse EXCEPT !.rebuild = rebuild] \in Pendings
    BY <1>1, <1>6 DEF ReuseProceed, GuiTypes, Pendings
  <2>2. Typed /\ collision' \in Pendings \cup {None}
    BY <1>6, <2>1, ResolveStep DEF ReuseProceed
  <2>3. GuiTypes'
    BY <1>1, <1>6, <2>2 DEF ReuseProceed, GuiTypes
  <2> QED
    BY <2>2, <2>3, Together
<1>7. CASE CollisionReplace(j)
  <2>1. collision \in Pendings
    BY <1>1, <1>7 DEF CollisionReplace, GuiTypes
  <2>2. Typed
    BY <1>7, <2>1, StartRenderStep DEF CollisionReplace
  <2>3. GuiTypes'
    BY <1>1, <1>7 DEF CollisionReplace, GuiTypes
  <2> QED
    BY <2>2, <2>3, Together
<1>8. CASE CollisionRename(j)
  <2>1. collision \in Pendings
    BY <1>1, <1>8 DEF CollisionRename, GuiTypes
  <2>2. Typed /\ collision' \in Pendings \cup {None}
    BY <1>8, <2>1, ResolveStep DEF CollisionRename
  <2>3. GuiTypes'
    BY <1>1, <1>8, <2>2 DEF CollisionRename, GuiTypes
  <2> QED
    BY <2>2, <2>3, Together
<1> QED
  BY <1>2, <1>3, <1>4, <1>5, <1>6, <1>7, <1>8

\* A cancel reaches the context and the reducer in the same handler.
LEMMA CancelStep ==
    ASSUME IInv, NEW j \in JobIds, Cancel(j)
    PROVE  IInv'
<1> USE DEF IInv, Consistent
<1>1. /\ app' \in AppStates /\ Keeps(app, app', committed)
      /\ app' = OnCancelRequested(app, j)
      /\ UNCHANGED <<active, committed, kind, inputs, pc, queue, previewJob,
                     renderJob, contexts, loads, preflight, probing, reuse,
                     collision, closed>>
      /\ terminal[j] = "RUNNING"
      /\ terminal' = [terminal EXCEPT ![j] = "CANCEL_PENDING"]
  BY CancelType, CancelCoherent
  DEF Cancel, TypeOK, Ctx!RequestCancel, jobVars, ctrlVars, renderVars
<1>2. /\ Ctx!TypeOK' /\ SlotInv'
      /\ \A k \in JobIds : k # j => terminal'[k] = terminal[k]
      /\ terminal[j] = "ABSENT" <=> terminal'[j] = "ABSENT"
  BY ContextStep DEF Cancel, TypeOK
<1>3. TypeOK'
  BY <1>1, <1>2 DEF TypeOK
<1>4. Coherent(app)' /\ ResultsFrom(app, committed)'
  BY <1>1 DEF Keeps
<1>5. terminal \in [JobIds -> Ctx!TerminalStates]
  BY DEF TypeOK, Ctx!TypeOK
<1>6. WorkerInv'
  BY <1>1, <1>2, <1>5 DEF WorkerInv, Ctx!Live
<1>7. QueueInv'
  <2>1. Sent' = Sent /\ Sent \subseteq Messages
    BY <1>1, SentMessages DEF Sent
  <2> QED
    BY <1>1, <1>5, <2>1 DEF QueueInv, Messages
<1>8. ShownJobInv'
  <2>1. app.job.job_id = j => app'.job.phase = "CANCELLING"
    BY <1>1, NoneIsNoValue
    DEF OnCancelRequested, Coherent, Idle, TypeOK, AppStates, ActiveJobs
  <2> QED
    BY <1>1, <1>2, <2>1, NoneIsNoValue
    DEF ShownJobInv, Keeps, JobStays, Ctx!Requested
<1>9. TerminalSentInv'
  BY <1>1, NoneIsNoValue DEF TerminalSentInv, Keeps, JobStays, Sent
<1> QED
  BY <1>2, <1>3, <1>4, <1>6, <1>7, <1>8, <1>9

\* The shutdown asks every running job to stop, and nobody listens any more.
LEMMA ShutdownStep ==
    ASSUME IInv, Shutdown
    PROVE  IInv'
<1> USE DEF IInv, Consistent
<1>1. /\ UNCHANGED <<app, active, committed, kind, inputs, pc, queue, previewJob,
                     renderJob, contexts, loads, preflight, probing, reuse,
                     collision>>
      /\ closed' = TRUE
      /\ \A j \in JobIds :
             \/ terminal'[j] = terminal[j]
             \/ terminal[j] = "RUNNING" /\ terminal'[j] = "CANCEL_PENDING"
      /\ terminal' \in [JobIds -> Ctx!TerminalStates]
  BY DEF Shutdown, TypeOK, Ctx!TypeOK, Ctx!TerminalStates, jobVars, ctrlVars,
         renderVars
<1>2. TypeOK'
  BY <1>1 DEF TypeOK, Ctx!TypeOK
<1>3. Coherent(app)' /\ ResultsFrom(app, committed)'
  BY <1>1 DEF Coherent, MadeFrom, Idle, ResultsFrom
<1>4. SlotInv' /\ WorkerInv'
  BY <1>1 DEF SlotInv, WorkerInv, Ctx!Live
<1>5. QueueInv'
  <2>1. Sent' = Sent /\ Sent \subseteq Messages
    BY <1>1, SentMessages DEF Sent
  <2> QED
    BY <1>1, <2>1 DEF QueueInv, Messages
<1>6. ShownJobInv' /\ TerminalSentInv'
  BY <1>1 DEF ShownJobInv, TerminalSentInv, Sent
<1> QED
  BY <1>2, <1>3, <1>4, <1>5, <1>6

\* A signal that is heard is one of the shown job, and the reducer takes it.
LEMMA HeardSignal ==
    ASSUME IInv, NEW m \in Sent, m.job = app.job.job_id, m.type # "FINISHED",
           ~closed
    PROVE  /\ Reduced(m.job, m.type) \in AppStates
           /\ Keeps(app, Reduced(m.job, m.type), committed)
           /\ m.type \in Terminating => Reduced(m.job, m.type).job = NoJob
<1> DEFINE j == m.job
           s == inputs[j].source_id
           t == Reduced(j, m.type)
<1>1. /\ app \in AppStates /\ Coherent(app) /\ ResultsFrom(app, committed)
      /\ m \in Messages /\ j \in JobIds /\ j \in RequestIds
  BY SentMessages, IdentitiesAreRequests DEF IInv, Consistent, TypeOK, Messages
<1>2. /\ kind[j] \in JobKinds /\ inputs[j] \in Inputs
      /\ m.type = "SUCCEEDED" => j \in committed
      /\ m.type = "ACKNOWLEDGED" => terminal[j] = "CANCELLED"
  BY <1>1 DEF IInv, Consistent, QueueInv, WorkerInv
<1>3. /\ app.job.kind = kind[j] /\ app.job_request_id = j
      /\ s = app.source_id /\ s \in SourceIds /\ inputs[j].value \in Settings
      /\ kind[j] = "PREVIEW" => inputs[j].value = app.settings
      /\ m.type = "ACKNOWLEDGED" => app.job.phase = "CANCELLING"
      /\ ~Idle(app)
  BY <1>1, <1>2, NoneIsNoValue
  DEF IInv, Consistent, QueueInv, ShownJobInv, Ctx!Requested, Inputs, Coherent
<1> HIDE DEF s
<1>4. CASE m.type = "DOWNLOADED"
  <2>1. t = OnModelAvailabilityChanged(app, TRUE, TRUE)
    BY <1>4 DEF Reduced
  <2> QED
    BY <1>1, <1>4, <2>1, AvailabilityType, AvailabilityCoherent DEF Terminating
<1>5. CASE m.type = "PREPARED"
  <2>1. t = OnModelPrepared(app, j, s, j)
    BY <1>5 DEF Reduced, s
  <2> QED
    BY <1>1, <1>3, <1>5, <2>1, ProgressType, ProgressCoherent DEF Terminating
<1>6. CASE m.type = "SEGMENTING"
  <2>1. t = OnJobStageChanged(app, j, s, j, TRUE)
    BY <1>6 DEF Reduced, s
  <2> QED
    BY <1>1, <1>3, <1>6, <2>1, ProgressType, ProgressCoherent DEF Terminating
<1>7. CASE m.type = "ACKNOWLEDGED"
  <2>1. t = OnCancelAcknowledged(app, j)
    BY <1>7 DEF Reduced
  <2>2. t \in AppStates /\ Keeps(app, t, committed)
    BY <1>1, <2>1, RestoreType, AcknowledgedCoherent
  <2>3. t.job = NoJob
    BY <1>1, <1>3, <1>7, <2>1 DEF OnCancelAcknowledged, AppStates
  <2> QED
    BY <2>2, <2>3
<1>8. CASE m.type = "SUCCEEDED" /\ kind[j] = "PREVIEW"
  <2> DEFINE r == [source_id |-> s, request_id |-> j, value |-> inputs[j].value]
  <2>1. t = OnPreviewSucceeded(app, j, r)
    BY <1>8 DEF Reduced, s
  <2>2. r \in PreviewResults /\ r.source_id = s /\ r.request_id = j
        /\ r.value = inputs[j].value
    BY <1>1, <1>3 DEF PreviewResults
  <2> HIDE DEF r
  <2>3. t \in AppStates /\ Keeps(app, t, committed)
    BY <1>1, <1>2, <1>3, <1>8, <2>1, <2>2, PreviewSucceededType,
       PreviewSucceededCoherent
  <2>4. t.job = NoJob
    BY <1>1, <1>3, <1>8, <2>1, <2>2
    DEF OnPreviewSucceeded, MatchesJob, AppStates
  <2> QED
    BY <2>3, <2>4
<1>9. CASE m.type = "SUCCEEDED" /\ kind[j] # "PREVIEW"
  <2> DEFINE r == [source_id |-> s, request_id |-> j]
  <2>1. t = OnRenderSucceeded(app, j, r)
    BY <1>9 DEF Reduced, s
  <2>2. r \in ArtifactResults /\ r.source_id = s /\ r.request_id = j
    BY <1>1, <1>3 DEF ArtifactResults
  <2> HIDE DEF r
  <2>3. t \in AppStates /\ Keeps(app, t, committed)
    BY <1>1, <1>2, <1>9, <2>1, <2>2, RenderSucceededType, RenderSucceededCoherent
  <2>4. t.job = NoJob
    BY <1>1, <1>2, <1>3, <1>9, <2>1, <2>2
    DEF OnRenderSucceeded, MatchesJob, AppStates, JobKinds
  <2> QED
    BY <2>3, <2>4
<1>10. CASE m.type = "FAILED" /\ kind[j] = "PREVIEW"
  <2>1. t = OnPreviewFailed(app, j, s, j)
    BY <1>10 DEF Reduced, s
  <2>2. t \in AppStates /\ Keeps(app, t, committed)
    BY <1>1, <1>3, <2>1, PreviewFailedType, PreviewFailedCoherent
  <2>3. t.job = NoJob
    BY <1>1, <1>3, <1>10, <2>1 DEF OnPreviewFailed, MatchesJob, AppStates
  <2> QED
    BY <2>2, <2>3
<1>11. CASE m.type = "FAILED" /\ kind[j] # "PREVIEW"
  <2>1. t = OnRenderFailed(app, j, s, j)
    BY <1>11 DEF Reduced, s
  <2>2. t \in AppStates /\ Keeps(app, t, committed)
    BY <1>1, <1>3, <2>1, RenderFailedType, RenderFailedCoherent
  <2>3. t.job = NoJob
    BY <1>1, <1>2, <1>3, <1>11, <2>1
    DEF OnRenderFailed, MatchesJob, AppStates, JobKinds
  <2> QED
    BY <2>2, <2>3
<1>12. m.type \in Signals \ {"FINISHED"}
  BY <1>1 DEF Messages
<1>13. \/ m.type \in {"DOWNLOADED", "PREPARED", "SEGMENTING", "ACKNOWLEDGED"}
       \/ m.type = "SUCCEEDED" \/ m.type = "FAILED"
  BY <1>12 DEF Signals, Terminating
<1> HIDE DEF t
<1> QED
  BY <1>4, <1>5, <1>6, <1>7, <1>8, <1>9, <1>10, <1>11, <1>13 DEF t

\* The delivery of the oldest signal, heard or not.
LEMMA DeliverStep ==
    ASSUME IInv, Deliver
    PROVE  IInv'
<1> DEFINE m     == Head(queue)
           j     == m.job
           mine  == j = (IF kind[j] = "PREVIEW" THEN previewJob ELSE renderJob)
           heard == mine /\ app.job.job_id = j /\ m.type # "FINISHED"
           ends  == heard /\ m.type \in Terminating /\ Idle(app')
<1> USE DEF IInv, Consistent
<1>1. /\ ~closed /\ queue # <<>> /\ queue' = Tail(queue)
      /\ app' = IF heard THEN Reduced(j, m.type) ELSE app
      /\ previewJob' = IF ends /\ kind[j] = "PREVIEW" THEN None ELSE previewJob
      /\ renderJob' = IF ends /\ kind[j] # "PREVIEW" THEN None ELSE renderJob
      /\ contexts' = IF m.type = "FINISHED" THEN contexts \ {j} ELSE contexts
      /\ UNCHANGED <<active, terminal, committed, kind, inputs, pc, loads,
                     preflight, probing, reuse, collision, closed>>
  BY DEF Deliver, ctxVars, jobVars, renderVars
<1>2. /\ queue' \in Seq(Messages)
      /\ m \in Sent /\ m \in Messages
      /\ Sent' \subseteq Sent /\ Sent \subseteq Sent' \cup {m}
  BY <1>1, DeliverySent, SentMessages DEF TypeOK
<1>3. /\ app' \in AppStates /\ Keeps(app, app', committed)
      /\ heard /\ m.type \in Terminating => app'.job = NoJob
  <2>1. CASE heard
    BY <1>1, <1>2, <2>1, HeardSignal
  <2>2. CASE ~heard
    BY <1>1, <2>2, NothingKeeps DEF TypeOK
  <2> QED
    BY <2>1, <2>2
<1>4. app'.job.job_id \in JobIds => app'.job.job_id = app.job.job_id /\ ~ends
  BY <1>3, NoneIsNoValue DEF Keeps, JobStays, NoJob
<1>5. j = app.job.job_id /\ j \in JobIds => mine
  BY <1>2 DEF ShownJobInv, QueueInv
<1> HIDE DEF m, j, mine, heard, ends
<1>6. TypeOK'
  BY <1>1, <1>2, <1>3 DEF TypeOK, Ctx!TypeOK
<1>7. Coherent(app)' /\ ResultsFrom(app, committed)'
  BY <1>1, <1>3 DEF Keeps
<1>8. SlotInv' /\ WorkerInv' /\ QueueInv'
  BY <1>1, <1>2 DEF SlotInv, WorkerInv, QueueInv, Ctx!Live
<1>9. ShownJobInv'
  BY <1>1, <1>3, <1>4, NoneIsNoValue
  DEF ShownJobInv, Keeps, JobStays, Ctx!Requested
<1>10. TerminalSentInv'
  <2> SUFFICES ASSUME app'.job.job_id \in JobIds,
                      pc[app.job.job_id] \in {"FINALLY", "DONE"}
               PROVE  \E n \in Sent' : /\ n.job = app'.job.job_id
                                       /\ n.type \in Terminating
    BY <1>1, <1>4 DEF TerminalSentInv
  <2>1. PICK n \in Sent : n.job = app.job.job_id /\ n.type \in Terminating
    BY <1>4 DEF TerminalSentInv
  <2>2. n # m
    <3> SUFFICES ASSUME n = m PROVE FALSE
      OBVIOUS
    <3>1. heard
      BY <1>4, <1>5, <2>1 DEF heard, j, Terminating
    <3> QED
      BY <1>3, <2>1, <3>1, NoneIsNoValue DEF NoJob
  <2> QED
    BY <1>2, <1>4, <2>1, <2>2
<1> QED
  BY <1>6, <1>7, <1>8, <1>9, <1>10

---------------------------------------------------------------------------
(* The theorems.                                                           *)

LEMMA Initially == Init => IInv
<1> SUFFICES ASSUME Init
             PROVE  IInv
  OBVIOUS
<1>1. PICK v \in Settings, available \in BOOLEAN :
          app = FreshState("EMPTY", None, None, v, available, TRUE)
  BY DEF Init
<1>2. app \in AppStates
  BY <1>1, FreshStateType DEF SourceStates
<1>3. Coherent(app) /\ ResultsFrom(app, committed) /\ app.job.job_id = None
  BY <1>1 DEF FreshState, NoJob, Coherent, Idle, MadeFrom, ResultsFrom
<1>4. queue \in Seq(Messages) /\ Sent = {}
  BY DEF Init, Sent
<1>5. TypeOK
  BY <1>2, <1>4
  DEF Init, TypeOK, Ctx!Init, Ctx!TypeOK, Ctx!TerminalStates, Steps
<1>6. SlotInv /\ WorkerInv
  BY NoneIsNoValue DEF Init, Ctx!Init, SlotInv, WorkerInv, Ctx!Live, HostSteps
<1>7. QueueInv /\ ShownJobInv /\ TerminalSentInv
  BY <1>3, <1>4, NoneIsNoValue DEF QueueInv, ShownJobInv, TerminalSentInv
<1> QED
  BY <1>3, <1>5, <1>6, <1>7 DEF IInv, Consistent

LEMMA Inductive == IInv /\ [Next]_vars => IInv'
<1> SUFFICES ASSUME IInv, [Next]_vars
             PROVE  IInv'
  OBVIOUS
<1>1. CASE User
  BY <1>1, EventHandlers, StartHandlers, CancelStep, ShutdownStep DEF User
<1>2. CASE Answers
  BY <1>2, EventHandlers, StartHandlers DEF Answers
<1>3. CASE Deliver
  BY <1>3, DeliverStep
<1>4. CASE \E j \in JobIds : Worker(j)
  BY <1>4, WorkerStep
<1>5. CASE UNCHANGED vars
  <2>1. Typed /\ GuiTypes'
    BY <1>5, EventStep, NothingKeeps
    DEF IInv, Consistent, TypeOK, GuiTypes, Typed, vars, renderVars
  <2> QED
    BY <2>1, Together
<1> QED
  BY <1>1, <1>2, <1>3, <1>4, <1>5 DEF Next

LEMMA Invariance == Spec => []IInv
  BY Initially, Inductive, PTL DEF Spec

\* The composed state has its type: in particular every state the controllers
\* and workers lead the reducer to is a state.
THEOREM Typing == Spec => []TypeOK
<1>1. IInv => TypeOK
  BY DEF IInv
<1> QED
  BY <1>1, Invariance, PTL

\* No two workers are between their claim and the end of their service.
THEOREM HostIsExclusive == Spec => []OneWorkerAtTheHost
<1>1. IInv => OneWorkerAtTheHost
  BY DEF IInv, Consistent, SlotInv, WorkerInv, OneWorkerAtTheHost
<1> QED
  BY <1>1, Invariance, PTL

\* A preview labelled current was made from what the editor shows.
THEOREM CurrentIsCurrent == Spec => []CurrentPreviewShowsSettings
<1>1. IInv => CurrentPreviewShowsSettings
  BY DEF IInv, Consistent, Coherent, MadeFrom, CurrentPreviewShowsSettings
<1> QED
  BY <1>1, Invariance, PTL

\* Nothing of a job whose cancellation or failure won the race is shown.
THEOREM ShownIsCommitted == Spec => []ShownOnlyIfCommitted
<1>1. IInv => ShownOnlyIfCommitted
  BY DEF IInv, Consistent, ResultsFrom, ShownOnlyIfCommitted
<1> QED
  BY <1>1, Invariance, PTL

\* The notification that will unlock the editor is never lost.
THEOREM TerminalNotLost == Spec => []TerminalIsOnItsWay
<1>1. IInv => TerminalIsOnItsWay
  BY DEF IInv, Consistent, TerminalSentInv, TerminalIsOnItsWay, Sent
<1> QED
  BY <1>1, Invariance, PTL

\* A job works on the source the editor shows.
THEOREM JobHasShownSource == Spec => []JobIsForTheShownSource
<1>1. IInv => JobIsForTheShownSource
  BY DEF IInv, Consistent, WorkerInv, ShownJobInv, JobIsForTheShownSource
<1> QED
  BY <1>1, Invariance, PTL

\* A start that reaches the scheduler is a claim, or changes nothing of it.
LEMMA ClaimIsAllowed ==
    ASSUME IInv, NEW j \in JobIds, NEW k, NEW in, ClaimAndSpawn(j, k, in)
    PROVE  [Ctx!Next]_(Ctx!vars)
  BY DEF ClaimAndSpawn, ctxVars, Ctx!Next, Ctx!vars

LEMMA StartIsAllowed ==
    ASSUME IInv, NEW j \in JobIds, NEW p,
           StartRenderJob(j, p) \/ ResolveCollision(j, p)
    PROVE  [Ctx!Next]_(Ctx!vars)
  BY ClaimIsAllowed, Zenon
  DEF StartRenderJob, ResolveCollision, ctxVars, Ctx!vars

\* The shutdown cancels the one job that runs, if there is one.
LEMMA ShutdownIsAllowed ==
    ASSUME IInv, Shutdown
    PROVE  [Ctx!Next]_(Ctx!vars)
<1>1. UNCHANGED <<active, committed>> /\ terminal \in [JobIds -> Ctx!TerminalStates]
  BY DEF Shutdown, IInv, TypeOK, Ctx!TypeOK
<1>2. \A j, k \in JobIds :
          terminal[j] = "RUNNING" /\ terminal[k] = "RUNNING" => j = k
  BY DEF IInv, Consistent, SlotInv, Ctx!Live
<1>3. CASE \E j \in contexts : terminal[j] = "RUNNING"
  <2>1. PICK j \in contexts : terminal[j] = "RUNNING"
    BY <1>3
  <2>2. j \in JobIds
    BY DEF IInv, TypeOK
  <2>3. terminal' = [terminal EXCEPT ![j] = "CANCEL_PENDING"]
    BY <1>1, <1>2, <2>1, <2>2 DEF Shutdown
  <2> QED
    BY <1>1, <2>1, <2>2, <2>3 DEF Ctx!Next, Ctx!RequestCancel
<1>4. CASE ~\E j \in contexts : terminal[j] = "RUNNING"
  <2>1. terminal' = terminal
    BY <1>1, <1>4 DEF Shutdown
  <2> QED
    BY <1>1, <2>1 DEF Ctx!vars
<1> QED
  BY <1>3, <1>4

\* Every step of the controllers and workers is one the contract of
\* jobs/context.py allows, or does not concern it.
LEMMA StepIsAllowed == IInv /\ [Next]_vars => [Ctx!Next]_(Ctx!vars)
<1> SUFFICES ASSUME IInv, [Next]_vars
             PROVE  [Ctx!Next]_(Ctx!vars)
  OBVIOUS
<1>1. ASSUME UNCHANGED ctxVars
      PROVE  [Ctx!Next]_(Ctx!vars)
  BY <1>1 DEF ctxVars, Ctx!vars
<1>2. ASSUME NEW s \in SourceIds, LoadSource(s) \/ \E ok \in BOOLEAN : SourceAnswer(s, ok)
      PROVE  [Ctx!Next]_(Ctx!vars)
  BY <1>1, <1>2 DEF LoadSource, SourceAnswer
<1>3. ASSUME NEW v \in Settings, (\E b \in BOOLEAN : Edit(v, b)) \/ ChangeProvider(v)
      PROVE  [Ctx!Next]_(Ctx!vars)
  BY <1>1, <1>3 DEF Edit, ChangeProvider
<1>4. CASE \E b \in BOOLEAN : ModelManaged(b)
  BY <1>1, <1>4 DEF ModelManaged
<1>5. CASE ClickRender \/ PreflightRender \/ PreflightCancel \/ ReuseCancel
           \/ CollisionCancel \/ Deliver
  BY <1>1, <1>5
  DEF ClickRender, PreflightRender, PreflightCancel, ReuseCancel,
      CollisionCancel, Deliver
<1>6. ASSUME NEW j \in JobIds, ClickPreview(j) \/ PreflightPreview(j)
      PROVE  [Ctx!Next]_(Ctx!vars)
  BY <1>1, <1>6, ClaimIsAllowed, Zenon
  DEF ClickPreview, StartPreview, PreflightPreview
<1>7. ASSUME NEW j \in JobIds,
             \/ UseWorkspace(j)
             \/ \E match \in BOOLEAN : ProbeAnswer(j, match)
             \/ \E rebuild \in BOOLEAN : ReuseProceed(j, rebuild)
             \/ CollisionReplace(j) \/ CollisionRename(j)
      PROVE  [Ctx!Next]_(Ctx!vars)
  BY <1>1, <1>7, StartIsAllowed, Zenon
  DEF UseWorkspace, ProbeAnswer, ReuseProceed, CollisionReplace, CollisionRename
<1>8. ASSUME NEW j \in JobIds, Cancel(j)
      PROVE  [Ctx!Next]_(Ctx!vars)
  BY <1>8 DEF Cancel, Ctx!Next
<1>9. ASSUME NEW j \in JobIds, Worker(j)
      PROVE  [Ctx!Next]_(Ctx!vars)
  <2>1. \/ UNCHANGED ctxVars \/ Ctx!AcknowledgeCancel(j) \/ Ctx!Commit(j)
        \/ Ctx!Fail(j)
    BY <1>9, Zenon
    DEF Worker, Downloads, PreparesModel, PassesCheckpoint, RuntimeRaises,
        ServiceAcknowledges, ServiceCommits, ServiceRaises, ServiceFails,
        EmitsSuccess, ConversionRaises, Notifies, ReportsFailure, Finishes
  <2> QED
    BY <1>1, <2>1 DEF Ctx!Next
<1>10. CASE UNCHANGED vars
  BY <1>1, <1>10 DEF vars
<1> QED
  BY <1>2, <1>3, <1>4, <1>5, <1>6, <1>7, <1>8, <1>9, <1>10, ShutdownIsAllowed
  DEF Next, User, Answers

\* The controllers and workers implement the contract of jobs/context.py, with
\* their scheduler and contexts as its variables.
THEOREM LifecycleImplementsContext == Spec => ImplementsJobContext
<1>1. Init => Ctx!Init
  BY DEF Init
<1> QED
  BY <1>1, Invariance, StepIsAllowed, PTL DEF Spec, ImplementsJobContext, Ctx!Spec
============================================================================
