---------------------- MODULE SegmentationHost_proofs ----------------------
(***************************************************************************)
(* What holds of SegmentationHost for any number of requests, jobs and     *)
(* children.  The first part needs nothing but the handles themselves; the *)
(* second follows a cancel from its admission to the end of its request.   *)
(* The third is of ExecutionProviders, for any catalog, any accelerators   *)
(* and any number of jobs: what the child loads and what is said of it.    *)
(***************************************************************************)
EXTENDS SegmentationHost, ExecutionProviders, SequenceTheorems, TLAPS

---------------------------------------------------------------------------
(* Processes and segments.                                                 *)

Held == OneChild /\ NoLostSegment

LEMMA DiscardKeepsHeld == Held /\ Discard => Held'
  BY DEF Held, OneChild, NoLostSegment, Discard, DiscardProcess, DiscardSlot

LEMMA DiscardSlotKeepsHeld ==
  ASSUME NEW unlinked \in BOOLEAN, Held, DiscardSlot(unlinked),
         UNCHANGED procVars
  PROVE  Held'
  BY DEF Held, OneChild, NoLostSegment, DiscardSlot, procVars

LEMMA SegmentKeepsHeld ==
  ASSUME NEW r \in Requests, Held, Segment(r)
  PROVE  Held'
<1>1. CASE UNCHANGED <<procVars, slotVars>>
  BY <1>1 DEF Held, OneChild, NoLostSegment, procVars, slotVars
<1>2. CASE Discard
  BY <1>2, DiscardKeepsHeld
<1>3. CASE Prepare(r)
  BY <1>3 DEF Prepare, ReplaceSlot, Held, OneChild, NoLostSegment, procVars
<1>4. CASE PrepareRaises(r)
  BY <1>1, <1>4, DiscardSlotKeepsHeld DEF PrepareRaises
<1>5. QED
  BY <1>1, <1>2, <1>3, <1>4
  DEF Segment, SegmentBusy, PrepareFails, SendRequest, SendFails, Receive,
      ReceiveFails, Settle, RaiseFailure, Deliver, DeliverFails,
      CheckAck, RaiseMismatch, RaiseCancelled, Fail

LEMMA HeldIsInductive == Held /\ [Next]_vars => Held'
<1> SUFFICES ASSUME Held, [Next]_vars PROVE Held'
  OBVIOUS
<1>1. CASE UNCHANGED <<procVars, slotVars>>
  BY <1>1 DEF Held, OneChild, NoLostSegment, procVars, slotVars
<1>2. CASE Discard
  BY <1>2, DiscardKeepsHeld
<1>3. CASE \E r \in Requests : Segment(r)
  BY <1>3, SegmentKeepsHeld
<1>4. CASE Spawn
  BY <1>4 DEF Spawn, Held, OneChild, NoLostSegment
<1>5. CASE ChildDrains
  BY <1>5 DEF ChildDrains, Held, OneChild, NoLostSegment, procVars, slotVars
<1>6. CASE \E p \in alive : Dies(p)
  BY <1>6 DEF Dies, Held, OneChild, NoLostSegment, slotVars
<1>7. CASE \/ Child /\ ~ChildDrains
           \/ Cancel
           \/ Start /\ ~Spawn
           \/ ClaimStart \/ Close \/ CloseForced
           \/ \E r \in Requests : AdmitCancel(r)
  <2>1. CASE Child /\ ~ChildDrains
    BY <2>1 DEF Child, ChildReady, ChildReceives, ChildFails, ChildResponds,
         ChildWriteFails, parentVars, Held, OneChild, NoLostSegment,
         procVars, slotVars
  <2>2. CASE Cancel
    BY <2>2, <1>1, <1>2
    DEF Cancel, WithdrawCancel, SendCancel, SendCancelFails, ConfirmCancel
  <2>3. CASE Start /\ ~Spawn
    BY <2>3, <1>1, <1>2
    DEF Start, ReplaceModel, AlreadyStarted, SpawnFails, Started, StartFails
  <2>4. QED
    BY <1>1, <1>2, <1>7, <2>1, <2>2, <2>3
    DEF ClaimStart, Close, CloseForced, AdmitCancel
<1>8. CASE UNCHANGED vars
  BY <1>1, <1>8 DEF vars
<1>9. QED
  BY <1>3, <1>4, <1>5, <1>6, <1>7, <1>8 DEF Next

\* Whatever crashes or refuses to stop, the client holds the handle of every
\* process that runs, and there is never a second one beside it.
THEOREM AtMostOneChild == Spec => []OneChild
<1>1. Init => Held
  BY DEF Init, Held, OneChild, NoLostSegment
<1>2. Held => OneChild
  BY DEF Held
<1>3. QED
  BY <1>1, <1>2, HeldIsInductive, PTL DEF Spec

\* Every shared-memory segment that exists is the one the client holds.
THEOREM SegmentsAreHeld == Spec => []NoLostSegment
<1>1. Init => Held
  BY DEF Init, Held, OneChild, NoLostSegment
<1>2. Held => NoLostSegment
  BY DEF Held
<1>3. QED
  BY <1>1, <1>2, HeldIsInductive, PTL DEF Spec
---------------------------------------------------------------------------
(* A cancel that is admitted ends its request.                             *)

\* The calls that hold the operation, and those of them a cancel can reach.
InFlight == Steps \ {"READY", "DONE"}
Reachable == {"AWAIT", "ANSWERED", "AWAIT_ACK", "ANSWERED_ACK", "MISMATCH"}

Typed ==
    /\ host \in [active: Requests \cup {None}, request_sent: BOOLEAN,
                 cancel_requested: BOOLEAN, cancel_wire_sent: BOOLEAN]
    /\ cancelling \in Requests \cup {None}
    /\ accepted \in SUBSET Requests
    /\ call \in [Requests -> Steps]
    /\ result \in [Requests -> Outcomes \cup {None}]
    /\ \A r \in Requests : call[r] # "DONE" => result[r] = None

\* A call in flight owns the operation; the active request is such a call,
\* and none is active without a connection.
OwnsOperation == \A r \in Requests : call[r] \in InFlight => operation = r
ActiveIsReachable == host.active # None =>
                        connected /\ call[host.active] \in Reachable

\* Who holds locks across steps: a start its operation, a cancel the wire,
\* and its request is the active one until that fails.
LocksAreHeld ==
    /\ lifecycle = "START" => wire = "START" /\ operation = "START"
    /\ sent => cancelling # None
    /\ cancelling # None =>
          /\ wire = "CANCEL"
          /\ cancelling \notin accepted
          /\ host.active \in {cancelling, None}

\* What becomes of an admitted cancel's request: it is active, with the cancel
\* on record; or acknowledged; or cut off; or over, without output.
Doomed(r) ==
    \/ host.active = r /\ host.cancel_requested
    \/ call[r] = "ACKED"
    \/ call[r] \in InFlight /\ ~connected
    \/ call[r] = "DONE" /\ result[r] # "OUTPUT"
CancelsHold == \A r \in Requests :
                  r \in accepted \/ r = cancelling => Doomed(r)

IInv == /\ Typed /\ OwnsOperation /\ ActiveIsReachable /\ LocksAreHeld
        /\ CancelsHold

USE HostConstants

LEMMA InitOk == Init => IInv
  BY DEF Init, Inactive, IInv, Typed, OwnsOperation, ActiveIsReachable,
     LocksAreHeld, CancelsHold, InFlight, Steps

\* Every end of a call but a delivery, whether it costs the child or not.
LEMMA EndCallKeeps ==
  ASSUME NEW r \in Requests, NEW o \in Outcomes, IInv,
         call[r] \in InFlight \/ operation = None,
         o = "OUTPUT" => r \notin accepted /\ r # cancelling,
         EndCall(r, o), UNCHANGED cnclVars,
         connected' \in {connected, FALSE}
  PROVE  IInv'
<1> USE DEF IInv, EndCall, GoTo, InFlight, Reachable, cnclVars
<1>1. Typed'
  BY DEF Typed, Inactive, Steps, Outcomes
<1>2. OwnsOperation'
  BY DEF Typed, OwnsOperation, Steps
<1>3. ActiveIsReachable'
  BY DEF ActiveIsReachable, Inactive
<1>4. LocksAreHeld'
  BY DEF Typed, OwnsOperation, LocksAreHeld, Inactive, Steps
<1>5. CancelsHold'
  BY DEF CancelsHold, Doomed, Typed, OwnsOperation, ActiveIsReachable,
         Inactive, Steps
<1>6. QED
  BY <1>1, <1>2, <1>3, <1>4, <1>5

LEMMA FailKeeps ==
  ASSUME NEW r \in Requests, NEW o \in Outcomes \ {"OUTPUT"}, IInv,
         call[r] \in InFlight \/ operation = None,
         Fail(r, o), UNCHANGED cnclVars
  PROVE  IInv'
<1>1. connected' = FALSE /\ EndCall(r, o)
  BY DEF Fail, Discard, DiscardProcess
<1>2. QED
  BY <1>1, EndCallKeeps

\* The child goes while the calls stay where they are.
LEMMA CutOffKeeps ==
  ASSUME IInv, Discard, UNCHANGED <<callVars, sent, accepted>>,
         cancelling' = cancelling \/ (~sent /\ cancelling' = None),
         cancelling' # None => wire' = wire,
         operation' = operation \/ operation = "START",
         lifecycle' = "START" => UNCHANGED lockVars
  PROVE  IInv'
<1> USE DEF IInv, Discard, DiscardProcess, callVars, InFlight, Reachable,
           Inactive
<1>1. Typed'
  BY DEF Typed
<1>2. OwnsOperation'
  BY DEF Typed, OwnsOperation, Steps
<1>3. ActiveIsReachable'
  BY DEF ActiveIsReachable
<1>4. LocksAreHeld'
  BY DEF Typed, LocksAreHeld, lockVars
<1>5. CancelsHold'
  BY DEF Typed, CancelsHold, Doomed, ActiveIsReachable, Steps
<1>6. QED
  BY <1>1, <1>2, <1>3, <1>4, <1>5

\* Steps of the child, and others that leave all of this alone.
LEMMA FrameKeeps ==
  ASSUME IInv, UNCHANGED <<lockVars, connected, host, call, result, cnclVars>>
  PROVE  IInv'
BY DEF IInv, Typed, OwnsOperation, ActiveIsReachable, LocksAreHeld,
       CancelsHold, Doomed, lockVars, cnclVars

LEMMA SegmentKeeps ==
  ASSUME NEW r \in Requests, IInv, Segment(r)
  PROVE  IInv'
<1> USE DEF IInv, InFlight, Reachable, GoTo
<1>1. CASE SegmentBusy(r)
  <2> USE <1>1 DEF SegmentBusy, lockVars, procVars, cnclVars
  <2>1. Typed'
    BY DEF Typed, Steps, Outcomes
  <2>2. OwnsOperation'
    BY DEF Typed, OwnsOperation, Steps
  <2>3. ActiveIsReachable'
    BY DEF Typed, ActiveIsReachable
  <2>4. LocksAreHeld'
    BY DEF LocksAreHeld
  <2>5. CancelsHold'
    BY DEF Typed, CancelsHold, Doomed, Steps
  <2>6. QED
    BY <2>1, <2>2, <2>3, <2>4, <2>5
<1>2. CASE Prepare(r)
  <2> USE <1>2 DEF Prepare, procVars, cnclVars
  <2>1. Typed'
    BY DEF Typed, Steps
  <2>2. OwnsOperation'
    BY DEF Typed, OwnsOperation, Steps
  <2>3. ActiveIsReachable'
    BY DEF Typed, ActiveIsReachable
  <2>4. LocksAreHeld'
    BY DEF LocksAreHeld
  <2>5. CancelsHold'
    BY DEF Typed, CancelsHold, Doomed, Steps
  <2>6. QED
    BY <2>1, <2>2, <2>3, <2>4, <2>5
<1>3. CASE PrepareFails(r)
  BY <1>3, FailKeeps DEF PrepareFails, Unexpected, Outcomes
<1>4. CASE PrepareRaises(r)
  BY <1>4, EndCallKeeps DEF PrepareRaises, Outcomes, procVars
<1>5. CASE SendRequest(r)
  <2> USE <1>5 DEF SendRequest, lockVars, procVars, cnclVars, Running, Inactive
  <2>1. Typed'
    BY DEF Typed, Steps
  <2>2. OwnsOperation'
    BY DEF Typed, OwnsOperation, Steps
  <2>3. ActiveIsReachable'
    BY DEF Typed, ActiveIsReachable
  <2>4. LocksAreHeld'
    BY DEF LocksAreHeld
  <2>5. CancelsHold'
    BY DEF Typed, OwnsOperation, ActiveIsReachable, CancelsHold, Doomed, Steps
  <2>6. QED
    BY <2>1, <2>2, <2>3, <2>4, <2>5
<1>6. CASE SendFails(r)
  BY <1>6, FailKeeps DEF SendFails, Unexpected, Outcomes, Steps
<1>7. CASE Receive(r)
  <2> USE <1>7 DEF Receive, lockVars, procVars, cnclVars
  <2>1. Typed'
    BY DEF Typed, Steps
  <2>2. OwnsOperation'
    BY DEF Typed, OwnsOperation, Steps
  <2>3. ActiveIsReachable'
    BY DEF Typed, ActiveIsReachable
  <2>4. LocksAreHeld'
    BY DEF LocksAreHeld
  <2>5. CancelsHold'
    BY DEF Typed, CancelsHold, Doomed, Steps
  <2>6. QED
    BY <2>1, <2>2, <2>3, <2>4, <2>5
<1>8. CASE ReceiveFails(r)
  BY <1>8, FailKeeps DEF ReceiveFails, Outcomes, Steps
<1>9. CASE Settle(r)
  <2> USE <1>9 DEF Settle, Answered, lockVars, procVars, cnclVars
  <2>1. Typed'
    BY DEF Typed, Steps
  <2>2. OwnsOperation'
    BY DEF Typed, OwnsOperation, Steps
  <2>3. ActiveIsReachable'
    BY DEF Typed, ActiveIsReachable
  <2>4. LocksAreHeld'
    BY DEF Typed, LocksAreHeld
  <2>5. CancelsHold'
    BY DEF Typed, OwnsOperation, ActiveIsReachable, CancelsHold, Doomed, Steps
  <2>6. QED
    BY <2>1, <2>2, <2>3, <2>4, <2>5
<1>10. CASE RaiseFailure(r)
  BY <1>10, FailKeeps, EndCallKeeps
  DEF RaiseFailure, Answered, Outcomes, Steps, procVars
<1>11. CASE Deliver(r)
  <2>1. r \notin accepted /\ r # cancelling
    BY <1>11 DEF Deliver, Answered, CancelsHold, Doomed, ActiveIsReachable
  <2>2. QED
    BY <1>11, <2>1, EndCallKeeps
    DEF Deliver, Answered, Outcomes, Steps, procVars
<1>12. CASE DeliverFails(r)
  BY <1>12, FailKeeps DEF DeliverFails, Answered, Unexpected, Outcomes, Steps
<1>13. CASE CheckAck(r)
  <2> USE <1>13 DEF CheckAck, Answered, lockVars, procVars, cnclVars
  <2>1. Typed'
    BY DEF Typed, Steps
  <2>2. OwnsOperation'
    BY DEF Typed, OwnsOperation, Steps
  <2>3. ActiveIsReachable'
    BY DEF Typed, ActiveIsReachable
  <2>4. LocksAreHeld'
    BY DEF Typed, LocksAreHeld
  <2>5. CancelsHold'
    BY DEF Typed, OwnsOperation, ActiveIsReachable, CancelsHold, Doomed, Steps
  <2>6. QED
    BY <2>1, <2>2, <2>3, <2>4, <2>5
<1>14. CASE RaiseMismatch(r)
  BY <1>14, FailKeeps DEF RaiseMismatch, Outcomes, Steps
<1>15. CASE RaiseCancelled(r)
  BY <1>15, FailKeeps, EndCallKeeps
  DEF RaiseCancelled, Unexpected, Outcomes, Steps, procVars
<1>16. QED
  BY <1>1, <1>2, <1>3, <1>4, <1>5, <1>6, <1>7, <1>8, <1>9, <1>10, <1>11,
     <1>12, <1>13, <1>14, <1>15 DEF Segment

LEMMA CancelKeeps ==
  ASSUME IInv, Cancel \/ \E r \in Requests : AdmitCancel(r)
  PROVE  IInv'
<1> USE DEF IInv, InFlight, Reachable, procVars, callVars
<1>1. ASSUME NEW r \in Requests, AdmitCancel(r) PROVE IInv'
  <2> USE <1>1 DEF AdmitCancel
  <2>1. Typed' /\ OwnsOperation' /\ ActiveIsReachable'
    BY DEF Typed, OwnsOperation, ActiveIsReachable
  <2>2. LocksAreHeld'
    BY DEF Typed, LocksAreHeld, ActiveIsReachable, CancelsHold, Doomed
  <2>3. CancelsHold'
    BY DEF Typed, CancelsHold, Doomed
  <2>4. QED
    BY <2>1, <2>2, <2>3
<1>2. CASE WithdrawCancel
  <2> USE <1>2 DEF WithdrawCancel
  <2>1. Typed' /\ host'.active = host.active
    BY DEF Typed
  <2>2. OwnsOperation' /\ ActiveIsReachable'
    BY <2>1 DEF OwnsOperation, ActiveIsReachable
  <2>3. LocksAreHeld'
    BY DEF Typed, LocksAreHeld
  <2>4. CancelsHold'
    BY DEF Typed, CancelsHold, Doomed, LocksAreHeld
  <2>5. QED
    BY <2>1, <2>2, <2>3, <2>4
<1>3. CASE SendCancel
  BY <1>3 DEF SendCancel, Typed, OwnsOperation, ActiveIsReachable,
              LocksAreHeld, CancelsHold, Doomed
<1>4. CASE SendCancelFails
  BY <1>4, CutOffKeeps DEF SendCancelFails
<1>5. CASE ConfirmCancel
  <2> USE <1>5 DEF ConfirmCancel
  <2>1. host' \in [active: Requests \cup {None}, request_sent: BOOLEAN,
                   cancel_requested: BOOLEAN, cancel_wire_sent: BOOLEAN]
        /\ host'.active = host.active
        /\ host'.cancel_requested = host.cancel_requested
    BY DEF Typed
  <2>2. Typed'
    BY <2>1 DEF Typed, LocksAreHeld
  <2>3. OwnsOperation' /\ ActiveIsReachable' /\ LocksAreHeld'
    BY <2>1 DEF OwnsOperation, ActiveIsReachable, LocksAreHeld
  <2>4. CancelsHold'
    BY <2>1 DEF Typed, CancelsHold, Doomed
  <2>5. QED
    BY <2>2, <2>3, <2>4
<1>6. QED
  BY <1>1, <1>2, <1>3, <1>4, <1>5 DEF Cancel

LEMMA StartKeeps ==
  ASSUME IInv, ClaimStart \/ Start \/ Close \/ CloseForced
  PROVE  IInv'
<1> USE DEF IInv, InFlight, Reachable, procVars, callVars, cnclVars, lockVars
<1>1. CASE ClaimStart
  BY <1>1 DEF ClaimStart, Typed, OwnsOperation, ActiveIsReachable,
              LocksAreHeld, CancelsHold, Doomed
<1>2. CASE AlreadyStarted
  BY <1>2 DEF AlreadyStarted, Quiet, Typed, OwnsOperation, ActiveIsReachable,
              LocksAreHeld, CancelsHold, Doomed
<1>3. CASE Spawn
  <2> USE <1>3 DEF Spawn, Quiet, Inactive
  <2>1. Typed' /\ OwnsOperation' /\ ActiveIsReachable'
    BY DEF Typed, OwnsOperation, ActiveIsReachable
  <2>2. LocksAreHeld'
    BY DEF LocksAreHeld
  <2>3. CancelsHold'
    BY DEF Typed, OwnsOperation, ActiveIsReachable, CancelsHold, Doomed, Steps
  <2>4. QED
    BY <2>1, <2>2, <2>3
<1>4. CASE Started
  BY <1>4 DEF Started, Typed, OwnsOperation, ActiveIsReachable,
              LocksAreHeld, CancelsHold, Doomed
<1>5. CASE ReplaceModel \/ SpawnFails \/ Close \/ CloseForced
  <2>1. lifecycle' # "START" /\ Discard
    BY <1>5 DEF ReplaceModel, SpawnFails, Close, CloseForced, Quiet
  <2>2. UNCHANGED <<callVars, cnclVars, wire>>
    BY <1>5 DEF ReplaceModel, SpawnFails, Close, CloseForced
  <2>3. operation' = operation \/ operation = "START"
    BY <1>5 DEF ReplaceModel, SpawnFails, Close, CloseForced
  <2>4. QED
    BY <2>1, <2>2, <2>3, CutOffKeeps
<1>6. CASE StartFails
  BY <1>6, CutOffKeeps DEF StartFails, LocksAreHeld
<1>7. QED
  BY <1>1, <1>2, <1>3, <1>4, <1>5, <1>6 DEF Start

LEMMA Inductive == IInv /\ [Next]_vars => IInv'
<1> SUFFICES ASSUME IInv, [Next]_vars PROVE IInv'
  OBVIOUS
<1>1. CASE \E r \in Requests : Segment(r) \/ AdmitCancel(r)
  BY <1>1, SegmentKeeps, CancelKeeps
<1>2. CASE Cancel
  BY <1>2, CancelKeeps
<1>3. CASE ClaimStart \/ Start \/ Close \/ CloseForced
  BY <1>3, StartKeeps
<1>4. CASE Child \/ \E p \in alive : Dies(p)
  BY <1>4, FrameKeeps
  DEF Child, ChildReady, ChildReceives, ChildFails, ChildDrains,
      ChildResponds, ChildWriteFails, Dies, parentVars, procVars, callVars
<1>5. CASE UNCHANGED vars
  BY <1>5, FrameKeeps DEF vars, procVars, callVars
<1>6. QED
  BY <1>1, <1>2, <1>3, <1>4, <1>5 DEF Next

\* A cancel() that returned True ends its request without output, even one
\* that arrived when the response was on the pipe, and even if the client is
\* closed, the child dies or another thread starts a new one meanwhile.
THEOREM AcceptedCancelWins == Spec => []AcceptedCancelEndsRequest
<1>1. IInv => AcceptedCancelEndsRequest
  BY DEF IInv, Typed, CancelsHold, Doomed, ActiveIsReachable, Reachable,
         InFlight, AcceptedCancelEndsRequest
<1>2. QED
  BY <1>1, InitOk, Inductive, PTL DEF Spec
---------------------------------------------------------------------------
(* The types of the messages.                                              *)

\* A child that infers or writes knows for whom.
NamesItsRequest == child \in {"INFER", "WRITE"} => inferring # None

WellTyped == TypeOK /\ NamesItsRequest

LEMMA ReadsTyped ==
  ASSUME NEW S, NEW s \in Seq(S), s # <<>>
  PROVE  Head(s) \in S /\ Tail(s) \in Seq(S)
BY HeadTailProperties

LEMMA WritesTyped ==
  ASSUME NEW S, NEW s \in Seq(S), NEW m \in S
  PROVE  Append(s, m) \in Seq(S)
BY AppendProperties

LEMMA NothingTyped == ASSUME NEW S PROVE <<>> \in Seq(S)
BY EmptySeq

\* A conjunct of the state that only the pipe and the child are left out of.
ParentTyped ==
    /\ operation \in Requests \cup {"START", None}
    /\ wire \in {"CANCEL", "START", None}
    /\ lifecycle \in {"CANCEL", "START", None}
    /\ process \in 0..MaxChildren /\ connected \in BOOLEAN
    /\ spawned \in 0..MaxChildren /\ alive \in SUBSET (1..MaxChildren)
    /\ slot \in Requests \cup {None} /\ linked \in SUBSET Requests
    /\ content \in Requests \cup {None}
    /\ host \in [active: Requests \cup {None}, request_sent: BOOLEAN,
                 cancel_requested: BOOLEAN, cancel_wire_sent: BOOLEAN]
    /\ cancelling \in Requests \cup {None} /\ sent \in BOOLEAN
    /\ accepted \in SUBSET Requests
    /\ call \in [Requests -> Steps]
    /\ result \in [Requests -> Outcomes \cup {None}]
PipeTyped ==
    /\ answer \in [Requests -> Replies \cup {None}]
    /\ child \in {"BOOT", "IDLE", "INFER", "WRITE"}
    /\ inferring \in Requests \cup {None}
    /\ toChild \in Seq(Commands) /\ toParent \in Seq(Replies)
    /\ NamesItsRequest

LEMMA TypeParts == WellTyped <=> ParentTyped /\ PipeTyped
BY DEF WellTyped, TypeOK, ParentTyped, PipeTyped

LEMMA DiscardTyped ==
  ASSUME ParentTyped, PipeTyped, Discard, UNCHANGED answer
  PROVE  /\ PipeTyped'
         /\ process' \in 0..MaxChildren /\ connected' \in BOOLEAN
         /\ spawned' \in 0..MaxChildren /\ alive' \in SUBSET (1..MaxChildren)
         /\ slot' \in Requests \cup {None} /\ linked' \in SUBSET Requests
         /\ content' \in Requests \cup {None}
         /\ host' \in [active: Requests \cup {None}, request_sent: BOOLEAN,
                       cancel_requested: BOOLEAN, cancel_wire_sent: BOOLEAN]
<1>1. PipeTyped'
  BY NothingTyped
  DEF PipeTyped, NamesItsRequest, Discard, DiscardProcess
<1>2. PICK stopped, unlinked \in BOOLEAN :
           DiscardProcess(stopped) /\ DiscardSlot(unlinked)
  BY DEF Discard
<1>3. /\ process' \in {process, 0} /\ connected' = FALSE
      /\ spawned' = spawned /\ alive' \subseteq alive
  BY <1>2 DEF DiscardProcess
<1>4. /\ slot' \in {slot, None} /\ linked' \subseteq linked
      /\ content' = None
  BY <1>2 DEF DiscardSlot
<1>5. host' = Inactive
  BY DEF Discard
<1>6. host' \in [active: Requests \cup {None}, request_sent: BOOLEAN,
               cancel_requested: BOOLEAN, cancel_wire_sent: BOOLEAN]
  BY <1>5 DEF Inactive
<1>7. /\ process' \in 0..MaxChildren /\ connected' \in BOOLEAN
      /\ spawned' \in 0..MaxChildren /\ alive' \in SUBSET (1..MaxChildren)
  <2>1. MaxChildren \in Nat /\ 0 \in 0..MaxChildren
    BY HostConstants
  <2>2. process' \in 0..MaxChildren
    BY <1>3, <2>1 DEF ParentTyped
  <2>3. alive' \in SUBSET (1..MaxChildren)
    BY <1>3 DEF ParentTyped
  <2>4. QED
    BY <1>3, <2>2, <2>3 DEF ParentTyped
<1>8. /\ slot' \in Requests \cup {None} /\ linked' \in SUBSET Requests
      /\ content' \in Requests \cup {None}
  BY <1>4 DEF ParentTyped
<1>9. QED
  BY <1>1, <1>6, <1>7, <1>8

LEMMA SegmentTyped ==
  ASSUME NEW r \in Requests, ParentTyped, PipeTyped, Segment(r)
  PROVE  ParentTyped' /\ PipeTyped'
<1> USE DEF GoTo, EndCall
<1>1. CASE SegmentBusy(r)
  BY <1>1 DEF SegmentBusy, ParentTyped, PipeTyped, NamesItsRequest, Steps,
              Outcomes, lockVars, procVars, slotVars, cnclVars, childVars
<1>2. CASE Prepare(r)
  <2> USE <1>2 DEF Prepare, procVars, cnclVars, childVars
  <2>1. PipeTyped'
    BY DEF PipeTyped, NamesItsRequest
  <2>2. slot' \in Requests \cup {None} /\ linked' \in SUBSET Requests
    BY DEF ParentTyped, ReplaceSlot
  <2>3. call' \in [Requests -> Steps]
    BY DEF ParentTyped, Steps
  <2>4. QED
    BY <2>1, <2>2, <2>3 DEF ParentTyped
<1>3. ASSUME NEW o \in Outcomes, Fail(r, o), UNCHANGED cnclVars
      PROVE  ParentTyped' /\ PipeTyped'
  BY <1>3, DiscardTyped DEF Fail, ParentTyped, Steps, cnclVars
<1>4. ASSUME NEW o \in Outcomes, EndCall(r, o),
             UNCHANGED <<procVars, cnclVars, childVars>>,
             slot' \in Requests \cup {None}, linked' \in SUBSET Requests,
             content' \in Requests \cup {None}
      PROVE  ParentTyped' /\ PipeTyped'
  BY <1>4 DEF ParentTyped, PipeTyped, NamesItsRequest, Steps, Inactive,
              procVars, cnclVars, childVars
<1>5. CASE PrepareFails(r)
  BY <1>3, <1>5 DEF PrepareFails, Unexpected, Outcomes
<1>6. CASE PrepareRaises(r)
  BY <1>4, <1>6
  DEF PrepareRaises, DiscardSlot, ParentTyped, slotVars, Outcomes
<1>7. CASE SendRequest(r)
  <2>1. PipeTyped'
    BY <1>7, WritesTyped
    DEF SendRequest, PipeTyped, NamesItsRequest, Commands
  <2>2. ParentTyped'
    BY <1>7 DEF SendRequest, ParentTyped, Inactive, Steps, lockVars, procVars,
                slotVars, cnclVars
  <2>3. QED
    BY <2>1, <2>2
<1>8. CASE SendFails(r)
  BY <1>3, <1>8 DEF SendFails, Unexpected, Outcomes
<1>9. CASE Receive(r)
  <2>1. PipeTyped'
    BY <1>9, ReadsTyped DEF Receive, PipeTyped, NamesItsRequest
  <2>2. ParentTyped'
    BY <1>9 DEF Receive, ParentTyped, Steps, lockVars, procVars, slotVars,
                cnclVars
  <2>3. QED
    BY <2>1, <2>2
<1>10. CASE ReceiveFails(r)
  BY <1>3, <1>10 DEF ReceiveFails, Outcomes
<1>11. CASE Settle(r) \/ CheckAck(r)
  <2>1. PipeTyped'
    BY <1>11 DEF Settle, CheckAck, PipeTyped, NamesItsRequest, childVars
  <2>2. ParentTyped'
    BY <1>11 DEF Settle, CheckAck, ParentTyped, Steps, lockVars, procVars,
                 slotVars, cnclVars
  <2>3. QED
    BY <2>1, <2>2
<1>12. CASE RaiseFailure(r)
  BY <1>3, <1>4, <1>12 DEF RaiseFailure, Outcomes, ParentTyped, slotVars
<1>13. CASE Deliver(r)
  BY <1>4, <1>13 DEF Deliver, Outcomes, ParentTyped, slotVars
<1>14. CASE DeliverFails(r) \/ RaiseMismatch(r)
  BY <1>3, <1>14 DEF DeliverFails, RaiseMismatch, Unexpected, Outcomes
<1>15. CASE RaiseCancelled(r)
  BY <1>3, <1>4, <1>15
  DEF RaiseCancelled, Unexpected, Outcomes, ParentTyped, slotVars
<1>16. QED
  BY <1>1, <1>2, <1>5, <1>6, <1>7, <1>8, <1>9, <1>10, <1>11, <1>12, <1>13,
     <1>14, <1>15 DEF Segment

LEMMA CancelTyped ==
  ASSUME ParentTyped, PipeTyped, IInv,
         Cancel \/ \E r \in Requests : AdmitCancel(r)
  PROVE  ParentTyped' /\ PipeTyped'
<1> USE DEF procVars, slotVars, callVars, childVars
<1>1. ASSUME NEW r \in Requests, AdmitCancel(r)
      PROVE  ParentTyped' /\ PipeTyped'
  <2>1. host' \in [active: Requests \cup {None}, request_sent: BOOLEAN,
                   cancel_requested: BOOLEAN, cancel_wire_sent: BOOLEAN]
    BY <1>1 DEF AdmitCancel, ParentTyped
  <2>2. PipeTyped'
    BY <1>1 DEF AdmitCancel, PipeTyped, NamesItsRequest
  <2>3. QED
    BY <1>1, <2>1, <2>2 DEF AdmitCancel, ParentTyped
<1>2. CASE WithdrawCancel
  BY <1>2 DEF WithdrawCancel, ParentTyped, PipeTyped, NamesItsRequest
<1>3. CASE SendCancel
  <2>1. PipeTyped'
    BY <1>3, WritesTyped
    DEF SendCancel, PipeTyped, ParentTyped, NamesItsRequest, Commands
  <2>2. ParentTyped'
    BY <1>3 DEF SendCancel, ParentTyped
  <2>3. QED
    BY <2>1, <2>2
<1>4. CASE SendCancelFails
  BY <1>4, DiscardTyped DEF SendCancelFails, ParentTyped
<1>5. CASE ConfirmCancel
  BY <1>5 DEF ConfirmCancel, ParentTyped, PipeTyped, NamesItsRequest, IInv,
              LocksAreHeld
<1>6. QED
  BY <1>1, <1>2, <1>3, <1>4, <1>5 DEF Cancel

LEMMA StartTyped ==
  ASSUME ParentTyped, PipeTyped, ClaimStart \/ Start \/ Close \/ CloseForced
  PROVE  ParentTyped' /\ PipeTyped'
<1> USE DEF procVars, slotVars, callVars, cnclVars, childVars, lockVars
<1>1. CASE ClaimStart \/ AlreadyStarted
  BY <1>1, ZenonT(60) DEF ClaimStart, AlreadyStarted, ParentTyped, PipeTyped,
              NamesItsRequest
<1>2. CASE ReplaceModel \/ SpawnFails \/ StartFails \/ Close \/ CloseForced
  BY <1>2, DiscardTyped
  DEF ReplaceModel, SpawnFails, StartFails, Close, CloseForced, ParentTyped
<1>3. CASE Spawn
  <2>1. PipeTyped'
    BY <1>3, NothingTyped DEF Spawn, PipeTyped, NamesItsRequest
  <2>2. ParentTyped'
    BY <1>3 DEF Spawn, ParentTyped, Inactive
  <2>3. QED
    BY <2>1, <2>2
<1>4. CASE Started
  <2>1. PipeTyped'
    BY <1>4, ReadsTyped DEF Started, PipeTyped, NamesItsRequest
  <2>2. ParentTyped'
    BY <1>4 DEF Started, ParentTyped
  <2>3. QED
    BY <2>1, <2>2
<1>5. QED
  BY <1>1, <1>2, <1>3, <1>4 DEF Start

LEMMA ChildTyped ==
  ASSUME ParentTyped, PipeTyped, Child \/ \E p \in alive : Dies(p)
  PROVE  ParentTyped' /\ PipeTyped'
<1> USE DEF parentVars, lockVars, procVars, slotVars, callVars, cnclVars
<1>1. CASE \E p \in alive : Dies(p)
  BY <1>1 DEF Dies, ParentTyped, PipeTyped, NamesItsRequest, childVars
<1>2. CASE Child
  <2> USE <1>2 DEF Child, ChildReady, ChildReceives, ChildFails, ChildDrains,
                   ChildResponds, ChildWriteFails, Serving, ChildGoesTo
  <2>1. ParentTyped'
    BY ZenonT(40) DEF ParentTyped, PipeTyped, NamesItsRequest
  <2>2. answer' = answer
    OBVIOUS
  <2>3. toChild' \in Seq(Commands)
    <3>1. CASE ChildReceives
      BY <3>1, ReadsTyped DEF PipeTyped
    <3>2. CASE ~ChildReceives
      BY <3>2, NothingTyped, ZenonT(60) DEF PipeTyped
    <3>3. QED
      BY <3>1, <3>2
  <2>4. /\ child' \in {"BOOT", "IDLE", "INFER", "WRITE"}
        /\ inferring' \in Requests \cup {None} /\ NamesItsRequest'
    <3>1. CASE ChildReceives
      <4>1. Head(toChild) \in Commands
        BY <3>1, ReadsTyped DEF PipeTyped
      <4>2. QED
        BY <3>1, <4>1 DEF PipeTyped, NamesItsRequest, Commands
    <3>2. CASE ~ChildReceives
      BY <3>2 DEF PipeTyped, NamesItsRequest
    <3>3. QED
      BY <3>1, <3>2
  <2>5. toParent' \in Seq(Replies)
    <3>1. CASE UNCHANGED toParent
      BY <3>1 DEF PipeTyped
    <3>2. ASSUME NEW m \in Replies, toParent' = Append(toParent, m)
          PROVE  toParent' \in Seq(Replies)
      BY <3>2, WritesTyped DEF PipeTyped
    <3>3. CASE ChildReady
      BY <3>2, <3>3 DEF Reply, Replies
    <3>4. CASE ChildReceives
      <4>1. Head(toChild) \in Commands
        BY <3>4, ReadsTyped DEF PipeTyped
      <4>2. CASE Head(toChild).type = "CANCEL"
        BY <3>2, <3>4, <4>1, <4>2 DEF Reply, Replies, Commands
      <4>3. CASE Head(toChild).type # "CANCEL"
        BY <3>1, <3>4, <4>3
      <4>4. QED
        BY <4>2, <4>3
    <3>5. CASE ChildFails \/ ChildResponds \/ ChildWriteFails
      <4>1. inferring \in Requests
        BY <3>5 DEF PipeTyped, NamesItsRequest
      <4>2. QED
        BY <3>2, <3>5, <4>1 DEF Reply, Replies
    <3>6. CASE ChildDrains
      <4>1. inferring \in Requests
        BY <3>6 DEF PipeTyped, NamesItsRequest
      <4>2. JobOf[inferring] \in Jobs
        BY <4>1
      <4>3. QED
        BY <3>1, <3>2, <3>6, <4>2 DEF Reply, Replies
    <3>7. QED
      BY <3>3, <3>4, <3>5, <3>6
  <2>6. QED
    BY <2>1, <2>2, <2>3, <2>4, <2>5 DEF PipeTyped
<1>3. QED
  BY <1>1, <1>2

LEMMA WellTypedIsInductive == IInv /\ WellTyped /\ [Next]_vars => WellTyped'
<1> SUFFICES ASSUME IInv, ParentTyped, PipeTyped, [Next]_vars
             PROVE  ParentTyped' /\ PipeTyped'
  BY TypeParts, PTL
<1>1. CASE UNCHANGED vars
  BY <1>1 DEF vars, ParentTyped, PipeTyped, NamesItsRequest, lockVars,
              procVars, slotVars, callVars, cnclVars, childVars
<1>2. QED
  BY <1>1, SegmentTyped, CancelTyped, StartTyped, ChildTyped DEF Next

LEMMA InitWellTyped == Init => WellTyped
<1> SUFFICES ASSUME Init PROVE ParentTyped /\ PipeTyped
  BY TypeParts
<1>1. PipeTyped
  BY NothingTyped DEF Init, PipeTyped, NamesItsRequest
<1>2. ParentTyped
  <2>1. host \in [active: Requests \cup {None}, request_sent: BOOLEAN,
                cancel_requested: BOOLEAN, cancel_wire_sent: BOOLEAN]
    BY DEF Init, Inactive
  <2>2. /\ process \in 0..MaxChildren /\ connected \in BOOLEAN
        /\ spawned \in 0..MaxChildren /\ alive \in SUBSET (1..MaxChildren)
    <3>1. 0 \in 0..MaxChildren
      BY HostConstants
    <3>2. {} \in SUBSET (1..MaxChildren)
      OBVIOUS
    <3>3. QED
      BY <3>1, <3>2 DEF Init
  <2>3. call \in [Requests -> Steps]
        /\ result \in [Requests -> Outcomes \cup {None}]
    BY DEF Init, Steps
  <2>4. QED
    BY <2>1, <2>2, <2>3 DEF Init, ParentTyped
<1>3. QED
  BY <1>1, <1>2

\* The client, the child and every message between them have their types: no
\* interleaving makes the child answer nobody or the client hold two calls.
THEOREM Typing == Spec => []TypeOK
<1>1. WellTyped => TypeOK
  BY DEF WellTyped
<1>2. QED
  BY <1>1, InitOk, Inductive, InitWellTyped, WellTypedIsInductive, PTL
  DEF Spec
---------------------------------------------------------------------------
(* The messages of one request.                                            *)

\* The calls between their request and the last message they wait for.
Exchanging == {"AWAIT", "ANSWERED", "AWAIT_ACK", "ANSWERED_ACK"}

Request(r) == [type |-> "REQUEST", of |-> r]
CancelOf(r) == [type |-> "CANCEL", of |-> JobOf[r]]
AckOf(r) == [type |-> "ACK", of |-> JobOf[r]]
AnswersOf(r) == [type: {"RESPONSE", "FAILURE"}, of: {r}]

\* A CancelRequest of the active request has been written to the pipe.
CancelIsOut == sent \/ host.cancel_wire_sent
\* ... and has not been read by the child.
Cancels(r) == IF CancelIsOut THEN <<CancelOf(r)>> ELSE <<>>

\* How far the child is with the request of a connected call.
Unserved(r) ==
    /\ call[r] = "AWAIT" /\ child = "IDLE"
    /\ toChild = IF CancelIsOut THEN <<Request(r), CancelOf(r)>>
                                  ELSE <<Request(r)>>
    /\ toParent = <<>>
Served(r) ==
    /\ call[r] = "AWAIT" /\ child \in {"INFER", "WRITE"} /\ inferring = r
    /\ toChild = Cancels(r) /\ toParent = <<>>
Replied(r) ==
    /\ child = "IDLE" /\ toChild = Cancels(r)
    /\ \/ call[r] = "AWAIT" /\ \E m \in AnswersOf(r) : toParent = <<m>>
       \/ /\ call[r] \in {"ANSWERED", "AWAIT_ACK"} /\ toParent = <<>>
          /\ answer[r] \in AnswersOf(r)
Acked(r) ==
    /\ CancelIsOut /\ child = "IDLE" /\ toChild = <<>>
    /\ \/ /\ call[r] = "AWAIT"
          /\ \/ toParent = <<AckOf(r)>>
             \/ \E m \in AnswersOf(r) : toParent = <<m, AckOf(r)>>
       \/ /\ call[r] \in {"ANSWERED", "AWAIT_ACK"} /\ toParent = <<AckOf(r)>>
          /\ answer[r] \in AnswersOf(r)
       \/ /\ call[r] \in {"ANSWERED", "ANSWERED_ACK"} /\ toParent = <<>>
          /\ answer[r] = AckOf(r)

PipeMatches(r) ==
    call[r] \in Exchanging =>
        /\ host.active = r
        /\ Unserved(r) \/ Served(r) \/ Replied(r) \/ Acked(r)

\* Nothing is on the pipe and the child waits for a request.
Rests == child = "IDLE" /\ toChild = <<>> /\ toParent = <<>>
Boots == /\ toChild = <<>>
         /\ \/ child = "BOOT" /\ toParent = <<>>
            \/ child = "IDLE" /\ toParent = <<[type |-> "READY", of |-> None]>>

Protocol ==
    connected =>
        /\ \A r \in Requests : PipeMatches(r)
        /\ IF lifecycle = "START" THEN Boots
           ELSE (\A r \in Requests : call[r] \notin Exchanging) => Rests

\* What a call has read is its own, with or without a connection.
AnswersAreOwn ==
    \A r \in Requests :
        /\ call[r] = "ANSWERED" => answer[r] \in AnswersOf(r) \cup {AckOf(r)}
        /\ call[r] \in {"SETTLED", "AWAIT_ACK"} => answer[r] \in AnswersOf(r)
        /\ call[r] \in {"ANSWERED_ACK", "MISMATCH", "ACKED"} =>
              answer[r] = AckOf(r)

\* A cancel is on record before its request is on the wire, and the request
\* it is for stays active as long as there is a connection.
CancelsMatch ==
    /\ sent => lifecycle = "CANCEL" /\ connected
    /\ connected /\ cancelling # None =>
          host.active = cancelling /\ host.cancel_requested
    /\ cancelling # None => ~host.cancel_wire_sent
    /\ host.cancel_wire_sent => host.cancel_requested
    /\ host.active # None /\ call[host.active] = "MISMATCH" => CancelIsOut

\* A response that is on its way to its call is in the slot.
Responds(r) ==
    \/ call[r] = "AWAIT" /\ \E n \in 1..Len(toParent) :
                                toParent[n].type = "RESPONSE"
    \/ call[r] \in {"ANSWERED", "AWAIT_ACK", "SETTLED"}
       /\ answer[r].type = "RESPONSE"
ContentMatches ==
    connected => \A r \in Requests : Responds(r) => content = r

Wire == /\ Protocol /\ AnswersAreOwn /\ CancelsMatch /\ ContentMatches
        /\ NothingLeftBehind /\ OutputIsOwn

LEMMA Reads ==
  ASSUME NEW m, NEW n
  PROVE  /\ Head(<<m>>) = m /\ Tail(<<m>>) = <<>> /\ <<m>> # <<>>
         /\ Head(<<m, n>>) = m /\ Tail(<<m, n>>) = <<n>> /\ <<m, n>> # <<>>
OBVIOUS

LEMMA Writes ==
  ASSUME NEW m, NEW n
  PROVE  Append(<<>>, m) = <<m>> /\ Append(<<m>>, n) = <<m, n>>
<1> DEFINE S == {m, n}
           s == Append(<<>>, m)
           t == Append(<<m>>, n)
<1>1. <<>> \in Seq(S) /\ <<m>> \in Seq(S) /\ <<m, n>> \in Seq(S)
  OBVIOUS
<1>2. Len(<<m>>) = 1 /\ Len(<<>>) = 0 /\ Len(<<m, n>>) = 2
  OBVIOUS
<1>3. s \in Seq(S) /\ Len(s) = 1 /\ s[1] = m
  BY <1>1, <1>2, AppendProperties
<1>4. t \in Seq(S) /\ Len(t) = 2 /\ t[1] = m /\ t[2] = n
  BY <1>1, <1>2, AppendProperties
<1>5. s = <<m>>
  BY <1>1, <1>2, <1>3, SeqEqual
<1>6. t = <<m, n>>
  <2>1. \A i \in 1..Len(t) : t[i] = <<m, n>>[i]
    <3>1. \A i \in 1..2 : i = 1 \/ i = 2
      OBVIOUS
    <3>2. <<m, n>>[1] = m /\ <<m, n>>[2] = n
      OBVIOUS
    <3>3. QED
      BY <1>4, <3>1, <3>2
  <2>2. QED
    BY <1>1, <1>2, <1>4, <2>1, SeqEqual
<1>7. QED
  BY <1>5, <1>6

\* Between two exchanges the pipe is empty.
LEMMA Resting ==
  ASSUME IInv, Wire, connected,
         operation = None \/ \E r \in Requests : call[r] \in InFlight \ Exchanging
  PROVE  Rests /\ lifecycle # "START"
<1>1. lifecycle # "START"
  BY DEF IInv, LocksAreHeld, OwnsOperation
<1>2. \A r \in Requests : call[r] \notin Exchanging
  BY DEF IInv, OwnsOperation, InFlight, Exchanging, Steps
<1>3. QED
  BY <1>1, <1>2 DEF Wire, Protocol

LEMMA WireFrame ==
  ASSUME Wire, UNCHANGED <<connected, lifecycle, call, answer, result, host,
                           sent, cancelling, child, inferring, toChild,
                           toParent, content>>
  PROVE  Wire'
BY DEF Wire, Protocol, PipeMatches, Unserved, Served, Replied, Acked, Rests,
       Boots, CancelIsOut, Cancels, AnswersAreOwn, CancelsMatch,
       ContentMatches, Responds, NothingLeftBehind, OutputIsOwn

\* The connection goes while the calls stay where they are.
LEMMA CutOffWire ==
  ASSUME Wire, Discard, UNCHANGED callVars, ~sent, sent' = sent,
         cancelling' \in {cancelling, None}
  PROVE  Wire'
<1>1. connected' = FALSE /\ host' = Inactive
  BY DEF Discard, DiscardProcess
<1>2. QED
  BY <1>1
  DEF Wire, Protocol, AnswersAreOwn, CancelsMatch, ContentMatches,
      NothingLeftBehind, OutputIsOwn, callVars, Inactive

\* A call ends: without its connection, or with nothing left on it.
LEMMA EndCallWire ==
  ASSUME NEW r \in Requests, NEW o \in Outcomes \ {"STALE", "FOREIGN"},
         IInv, Wire, EndCall(r, o), UNCHANGED cnclVars,
         call[r] \in InFlight \/ operation = None,
         \/ connected' = FALSE /\ ~sent
         \/ /\ UNCHANGED <<procVars, childVars>>
            /\ connected => Rests /\ lifecycle # "START" /\ cancelling = None
  PROVE  Wire'
<1> USE DEF EndCall, GoTo
<1>1. \A q \in Requests : call'[q] \notin InFlight
  BY DEF IInv, Typed, OwnsOperation, InFlight
<1>2. \A q \in Requests : q # r => /\ call'[q] = call[q]
                                  /\ result'[q] = result[q]
  BY DEF IInv, Typed
<1>3. result'[r] = o /\ \A q \in Requests : answer'[q] = answer[q]
  BY DEF IInv, Typed
<1>4. Protocol'
  BY <1>1 DEF Wire, Protocol, PipeMatches, InFlight, Exchanging, Steps,
              Rests, procVars, childVars
<1>5. AnswersAreOwn'
  BY <1>1 DEF AnswersAreOwn, InFlight, Steps
<1>6. CancelsMatch'
  BY DEF Wire, CancelsMatch, Inactive, cnclVars, procVars
<1>7. ContentMatches'
  BY <1>1 DEF ContentMatches, Responds, InFlight, Steps
<1>8. NothingLeftBehind' /\ OutputIsOwn'
  BY <1>2, <1>3 DEF Wire, NothingLeftBehind, OutputIsOwn
<1>9. QED
  BY <1>4, <1>5, <1>6, <1>7, <1>8 DEF Wire

LEMMA FailWire ==
  ASSUME NEW r \in Requests, NEW o \in Outcomes \ {"STALE", "FOREIGN"},
         IInv, Wire, Fail(r, o), UNCHANGED cnclVars,
         call[r] \in InFlight \/ operation = None
  PROVE  Wire'
<1>1. connected' = FALSE /\ EndCall(r, o)
  BY DEF Fail, Discard, DiscardProcess
<1>2. ~sent
  BY DEF Fail, Wire, CancelsMatch
<1>3. QED
  BY <1>1, <1>2, EndCallWire

\* One message of the exchange goes on or off the pipe.
LEMMA PipeStep ==
  ASSUME NEW r \in Requests, IInv, Wire, connected, lifecycle # "START",
         call[r] \in Exchanging,
         UNCHANGED <<lockVars, connected, host, callVars, cnclVars>>,
         Unserved(r)' \/ Served(r)' \/ Replied(r)' \/ Acked(r)',
         Responds(r)' => content' = r
  PROVE  Wire'
<1> USE DEF lockVars, callVars, cnclVars
<1>1. \A q \in Requests : q # r => call[q] \notin InFlight
  BY DEF IInv, OwnsOperation, InFlight, Exchanging, Steps
<1>2. Protocol'
  BY <1>1 DEF Wire, Protocol, PipeMatches, InFlight, Exchanging, Steps
<1>3. ContentMatches'
  BY <1>1 DEF ContentMatches, Responds, InFlight, Steps
<1>4. QED
  BY <1>2, <1>3 DEF Wire, AnswersAreOwn, CancelsMatch, CancelIsOut,
                    NothingLeftBehind, OutputIsOwn
LEMMA PrepareWire ==
  ASSUME NEW r \in Requests, IInv, Wire,
         SegmentBusy(r) \/ Prepare(r) \/ PrepareFails(r) \/ PrepareRaises(r)
  PROVE  Wire'
<1> USE DEF GoTo
<1>1. CASE SegmentBusy(r)
  <2> USE <1>1 DEF SegmentBusy, lockVars, procVars, slotVars, cnclVars,
                   childVars
  <2>1. /\ \A q \in Requests : q # r => call'[q] = call[q]
        /\ call'[r] = "DONE" /\ call[r] = "READY"
    BY DEF IInv, Typed
  <2>2. \A q \in Requests : call'[q] \in Exchanging <=> call[q] \in Exchanging
    BY <2>1 DEF Exchanging
  <2>3. \A q \in Requests : PipeMatches(q) => PipeMatches(q)'
    BY <2>1, <2>2 DEF PipeMatches, Unserved, Served, Replied, Acked,
         CancelIsOut, Cancels, Exchanging
  <2>4. Protocol'
    BY <2>2, <2>3 DEF Wire, Protocol, Rests, Boots
  <2>5. AnswersAreOwn' /\ CancelsMatch'
    BY <2>1 DEF Wire, AnswersAreOwn, CancelsMatch, CancelIsOut, IInv, Typed
  <2>6. ContentMatches'
    BY <2>1 DEF Wire, ContentMatches, Responds
  <2>7. NothingLeftBehind' /\ OutputIsOwn'
    BY DEF Wire, NothingLeftBehind, OutputIsOwn, IInv, Typed
  <2>8. QED
    BY <2>4, <2>5, <2>6, <2>7 DEF Wire
<1>2. CASE Prepare(r)
  <2> USE <1>2 DEF Prepare, procVars, cnclVars, childVars, Running
  <2>1. Rests /\ lifecycle # "START"
    BY Resting
  <2>2. \A q \in Requests : call'[q] \notin InFlight \ {"PREPARED"}
    BY DEF IInv, Typed, OwnsOperation, InFlight, Steps
  <2>3. Protocol'
    BY <2>1, <2>2 DEF Protocol, PipeMatches, Exchanging, InFlight, Steps, Rests
  <2>4. AnswersAreOwn' /\ ContentMatches'
    BY <2>2 DEF AnswersAreOwn, ContentMatches, Responds, InFlight, Steps
  <2>5. CancelsMatch'
    <3>1. host.active = None
      BY DEF IInv, ActiveIsReachable, OwnsOperation, Reachable, InFlight,
             Steps, Typed
    <3>2. QED
      BY <3>1 DEF Wire, CancelsMatch
  <2>6. QED
    BY <2>3, <2>4, <2>5 DEF Wire, NothingLeftBehind, OutputIsOwn
<1>3. CASE PrepareFails(r)
  <2>1. toParent = <<>> \/ ~connected
    BY <1>3, Resting DEF PrepareFails, Rests
  <2>2. Fail(r, "ERROR")
    BY <1>3, <2>1 DEF PrepareFails, Unexpected, Running
  <2>3. QED
    BY <1>3, <2>2, FailWire DEF PrepareFails, Outcomes
<1>4. CASE PrepareRaises(r)
  <2>1. connected => Rests /\ lifecycle # "START"
    BY <1>4, Resting DEF PrepareRaises
  <2>2. connected => cancelling = None
    BY <1>4 DEF PrepareRaises, Wire, CancelsMatch, IInv, ActiveIsReachable,
       OwnsOperation, Reachable, InFlight, Steps, Typed
  <2>3. QED
    BY <1>4, <2>1, <2>2, EndCallWire DEF PrepareRaises, Outcomes
<1>5. QED
  BY <1>1, <1>2, <1>3, <1>4

\* The calls that are past the pipe do not see it, nor their cancel.
LEMMA PastThePipe ==
  ASSUME NEW r \in Requests, IInv, Wire,
         call[r] \in InFlight \ (Exchanging \cup {"MISMATCH"})
  PROVE  connected => Rests /\ lifecycle # "START" /\ cancelling = None
<1>1. connected => Rests /\ lifecycle # "START"
  BY Resting
<1>2. connected => cancelling = None
  BY DEF Wire, CancelsMatch, IInv, ActiveIsReachable, OwnsOperation,
         Reachable, Exchanging, InFlight, Steps, Typed
<1>3. QED
  BY <1>1, <1>2

\* No message is found where none is expected.
LEMMA EndWire ==
  ASSUME NEW r \in Requests, IInv, Wire,
         \/ SendFails(r) \/ ReceiveFails(r) \/ RaiseFailure(r) \/ Deliver(r)
         \/ DeliverFails(r) \/ RaiseMismatch(r) \/ RaiseCancelled(r)
  PROVE  Wire'
<1>1. CASE SendFails(r)
  <2>1. connected => Rests
    BY <1>1, PastThePipe DEF SendFails, InFlight, Exchanging, Steps
  <2>2. Fail(r, "ERROR")
    BY <1>1, <2>1 DEF SendFails, Unexpected, Running, Rests
  <2>3. QED
    BY <1>1, <2>2, FailWire DEF SendFails, Outcomes, InFlight, Steps
<1>2. CASE ReceiveFails(r)
  BY <1>2, FailWire DEF ReceiveFails, Outcomes, InFlight, Steps
<1>3. CASE RaiseFailure(r)
  <2>1. connected => Rests /\ lifecycle # "START" /\ cancelling = None
    BY <1>3, PastThePipe DEF RaiseFailure, Answered, InFlight, Exchanging, Steps
  <2>2. call[r] \in InFlight
    BY <1>3 DEF RaiseFailure, Answered, InFlight, Steps
  <2>3. CASE EndCall(r, "ERROR") /\ UNCHANGED <<procVars, slotVars, childVars>>
    BY <1>3, <2>1, <2>2, <2>3, EndCallWire DEF RaiseFailure, Outcomes
  <2>4. CASE Fail(r, "ERROR")
    BY <1>3, <2>2, <2>4, FailWire DEF RaiseFailure, Outcomes
  <2>5. QED
    BY <1>3, <2>3, <2>4 DEF RaiseFailure
<1>4. CASE Deliver(r)
  <2>1. connected => Rests /\ lifecycle # "START" /\ cancelling = None
    BY <1>4, PastThePipe DEF Deliver, Answered, InFlight, Exchanging, Steps
  <2>2. call[r] \in InFlight
    BY <1>4 DEF Deliver, Answered, InFlight, Steps
  <2>3. content = r
    BY <1>4 DEF Deliver, Answered, Wire, ContentMatches, Responds
  <2>4. QED
    BY <1>4, <2>1, <2>2, <2>3, EndCallWire DEF Deliver, Outcomes
<1>5. CASE DeliverFails(r)
  <2>1. connected => Rests
    BY <1>5, PastThePipe DEF DeliverFails, Answered, InFlight, Exchanging, Steps
  <2>2. Fail(r, "ERROR")
    BY <1>5, <2>1 DEF DeliverFails, Unexpected, Rests
  <2>3. QED
    BY <1>5, <2>2, FailWire
    DEF DeliverFails, Answered, Outcomes, InFlight, Steps
<1>6. CASE RaiseMismatch(r)
  <2>1. IsAck(r)
    BY <1>6 DEF RaiseMismatch, Wire, AnswersAreOwn, IsAck, AckOf
  <2>2. QED
    BY <1>6, <2>1, FailWire DEF RaiseMismatch, Outcomes, InFlight, Steps
<1>7. CASE RaiseCancelled(r)
  <2>1. connected => Rests /\ lifecycle # "START" /\ cancelling = None
    BY <1>7, PastThePipe DEF RaiseCancelled, InFlight, Exchanging, Steps
  <2>2. call[r] \in InFlight
    BY <1>7 DEF RaiseCancelled, InFlight, Steps
  <2>3. CASE EndCall(r, "CANCELLED")
             /\ UNCHANGED <<procVars, slotVars, childVars>>
    BY <1>7, <2>1, <2>2, <2>3, EndCallWire DEF RaiseCancelled, Outcomes
  <2>4. CASE connected /\ Fail(r, Unexpected)
    BY <1>7, <2>1, <2>2, <2>4, FailWire
    DEF RaiseCancelled, Outcomes, Unexpected, Rests
  <2>5. QED
    BY <1>7, <2>3, <2>4 DEF RaiseCancelled
<1>8. QED
  BY <1>1, <1>2, <1>3, <1>4, <1>5, <1>6, <1>7
\* The steps of the exchange itself.
LEMMA ExchangeWire ==
  ASSUME NEW r \in Requests, IInv, WellTyped, Wire,
         SendRequest(r) \/ Receive(r) \/ Settle(r) \/ CheckAck(r)
  PROVE  Wire'
<1> USE DEF GoTo, lockVars, procVars, slotVars, cnclVars
<1>1. call[r] \in InFlight
  BY DEF SendRequest, Receive, Settle, CheckAck, Answered, InFlight, Steps
<1>2. \A q \in Requests : q # r => /\ call[q] \notin InFlight
                                  /\ call'[q] = call[q]
  BY <1>1 DEF IInv, Typed, OwnsOperation, SendRequest, Receive, Settle,
              CheckAck
<1>3. lifecycle # "START"
  BY <1>1 DEF IInv, LocksAreHeld, OwnsOperation
<1>4. \A q \in Requests : q # r => /\ ~Responds(q)' /\ call'[q] \notin InFlight
  BY <1>2 DEF Responds, InFlight, Steps
<1>5. ASSUME \A q \in Requests : q # r => answer'[q] = answer[q],
             /\ call'[r] = "ANSWERED" =>
                   answer'[r] \in AnswersOf(r) \cup {AckOf(r)}
             /\ call'[r] \in {"SETTLED", "AWAIT_ACK"} =>
                   answer'[r] \in AnswersOf(r)
             /\ call'[r] \in {"ANSWERED_ACK", "MISMATCH", "ACKED"} =>
                   answer'[r] = AckOf(r)
      PROVE  AnswersAreOwn'
  BY <1>2, <1>5 DEF AnswersAreOwn, Wire
<1>6. ASSUME connected' => IF call'[r] \in Exchanging THEN PipeMatches(r)'
                           ELSE Rests', lifecycle' = lifecycle
      PROVE  Protocol'
  BY <1>3, <1>4, <1>6 DEF Protocol, PipeMatches, Exchanging, InFlight, Steps
<1>7. ASSUME connected' /\ Responds(r)' => content' = r
      PROVE  ContentMatches'
  BY <1>4, <1>7 DEF ContentMatches
<1>8. CASE SendRequest(r)
  <2> USE <1>8 DEF SendRequest, Running
  <2>1. Rests
    BY Resting DEF InFlight, Exchanging, Steps
  <2>2. ~sent /\ cancelling = None
    BY <1>1 DEF Wire, CancelsMatch, IInv, LocksAreHeld, Typed,
       ActiveIsReachable, Reachable, OwnsOperation, InFlight, Steps
  <2>3. call'[r] = "AWAIT"
    BY DEF IInv, Typed
  <2>4. host'.active = r /\ host'.cancel_wire_sent = FALSE
        /\ host'.cancel_requested = FALSE
    BY DEF Inactive
  <2>5. toChild' = <<Request(r)>>
    BY <2>1, Writes DEF Rests, Request
  <2>6. Unserved(r)'
    BY <2>1, <2>2, <2>3, <2>4, <2>5 DEF Unserved, Rests, CancelIsOut
  <2>7. Protocol'
    BY <1>6, <2>4, <2>3, <2>6 DEF PipeMatches, Exchanging
  <2>8. AnswersAreOwn'
    BY <1>5, <2>3
  <2>9. CancelsMatch'
    BY <2>2, <2>3, <2>4 DEF CancelsMatch
  <2>10. ContentMatches'
    BY <1>7, <2>1, <2>3 DEF Responds, Rests
  <2>11. QED
    BY <2>7, <2>8, <2>9, <2>10 DEF Wire, NothingLeftBehind, OutputIsOwn
<1>9. CASE Receive(r)
  <2> USE <1>9 DEF Receive
  <2>1. call[r] \in Exchanging
    BY DEF Exchanging
  <2>2. /\ host.active = r
        /\ Unserved(r) \/ Served(r) \/ Replied(r) \/ Acked(r)
    BY <2>1 DEF Wire, Protocol, PipeMatches
  <2>3. /\ call[r] = "AWAIT" => call'[r] = "ANSWERED"
        /\ call[r] = "AWAIT_ACK" => call'[r] = "ANSWERED_ACK"
        /\ answer'[r] = Head(toParent)
        /\ \A q \in Requests : q # r => answer'[q] = answer[q]
    BY DEF IInv, Typed, WellTyped, TypeOK
  <2>4. \/ Replied(r)' /\ call'[r] = "ANSWERED" /\ Replied(r)
        \/ Acked(r)' /\ Acked(r) /\ answer'[r] = AckOf(r)
        \/ /\ Acked(r)' /\ Acked(r) /\ answer'[r] \in AnswersOf(r)
           /\ call'[r] = "ANSWERED"
    <3>1. CASE Unserved(r) \/ Served(r)
      BY <3>1 DEF Unserved, Served
    <3>2. CASE Replied(r)
      <4>1. PICK m \in AnswersOf(r) : toParent = <<m>>
        BY <3>2 DEF Replied
      <4>2. toParent' = <<>> /\ answer'[r] = m /\ call'[r] = "ANSWERED"
        BY <2>3, <3>2, <4>1, Reads DEF Replied
      <4>3. QED
        BY <3>2, <4>1, <4>2 DEF Replied, Cancels, CancelIsOut
    <3>3. CASE Acked(r)
      <4>1. CASE toParent = <<AckOf(r)>>
        <5>1. toParent' = <<>> /\ answer'[r] = AckOf(r)
          BY <2>3, <4>1, Reads
        <5>2. QED
          BY <2>3, <3>3, <5>1 DEF Acked, CancelIsOut
      <4>2. CASE call[r] = "AWAIT"
                 /\ \E m \in AnswersOf(r) : toParent = <<m, AckOf(r)>>
        <5>1. PICK m \in AnswersOf(r) : toParent = <<m, AckOf(r)>>
          BY <4>2
        <5>2. toParent' = <<AckOf(r)>> /\ answer'[r] = m
          BY <2>3, <5>1, Reads
        <5>3. QED
          BY <2>3, <3>3, <4>2, <5>2 DEF Acked, CancelIsOut
      <4>3. QED
        BY <3>3, <4>1, <4>2 DEF Acked
    <3>4. QED
      BY <2>2, <3>1, <3>2, <3>3
  <2>5. PipeMatches(r)'
    BY <2>2, <2>4 DEF PipeMatches
  <2>6. call'[r] \in {"ANSWERED", "ANSWERED_ACK"}
    BY <2>3
  <2>7. Protocol'
    BY <1>6, <2>5, <2>6 DEF Exchanging
  <2>8. AnswersAreOwn'
    <3>1. call'[r] = "ANSWERED_ACK" => answer'[r] = AckOf(r)
      BY <2>4
    <3>2. answer'[r] \in AnswersOf(r) \cup {AckOf(r)}
      BY <2>4 DEF Replied
    <3>3. QED
      BY <1>5, <2>3, <2>6, <3>1, <3>2
  <2>9. CancelsMatch'
    BY <1>2, <2>6, <2>2 DEF Wire, CancelsMatch, CancelIsOut
  <2>10. ContentMatches'
    <3>1. SUFFICES ASSUME connected', Responds(r)' PROVE content' = r
      BY <1>7
    <3>2. answer'[r].type = "RESPONSE"
      BY <2>6, <3>1 DEF Responds
    <3>3. call[r] = "AWAIT"
      BY <2>3, <2>4, <3>2 DEF AckOf
    <3>4. 1 \in 1..Len(toParent) /\ toParent[1] = answer'[r]
      BY <2>3, HeadTailProperties DEF WellTyped, TypeOK
    <3>5. Responds(r)
      BY <3>2, <3>3, <3>4 DEF Responds
    <3>6. QED
      BY <3>5 DEF Wire, ContentMatches
  <2>11. QED
    BY <2>7, <2>8, <2>9, <2>10 DEF Wire, NothingLeftBehind, OutputIsOwn
<1>10. CASE Settle(r)
  <2> USE <1>10 DEF Settle, Answered, childVars
  <2>1. answer[r] \in AnswersOf(r)
    <3>1. answer[r] \in AnswersOf(r) \cup {AckOf(r)}
      BY DEF Wire, AnswersAreOwn
    <3>2. answer[r] # AckOf(r)
      BY DEF AckOf
    <3>3. QED
      BY <3>1, <3>2
  <2>2. answer[r].of = r
    BY <2>1 DEF AnswersOf
  <2>3. connected => /\ host.active = r
                     /\ Replied(r) \/ Acked(r)
    BY DEF Wire, Protocol, PipeMatches, Exchanging, Unserved, Served
  <2>4. CASE host.active = r /\ host.cancel_requested
    <3>1. call'[r] = "AWAIT_ACK" /\ UNCHANGED host
      BY <2>2, <2>4 DEF IInv, Typed
    <3>2. connected => Replied(r)' \/ Acked(r)'
      BY <2>1, <2>3, <3>1 DEF Replied, Acked, Cancels, CancelIsOut, AckOf,
                              AnswersOf
    <3>3. Protocol'
      BY <1>6, <2>3, <3>1, <3>2 DEF PipeMatches, Exchanging
    <3>4. AnswersAreOwn'
      BY <1>5, <2>1, <3>1
    <3>5. CancelsMatch'
      BY <2>4, <3>1 DEF Wire, CancelsMatch
    <3>6. ContentMatches'
      BY <1>7, <3>1 DEF Wire, ContentMatches, Responds
    <3>7. QED
      BY <3>3, <3>4, <3>5, <3>6 DEF Wire, NothingLeftBehind, OutputIsOwn
  <2>5. CASE ~(host.active = r /\ host.cancel_requested)
    <3>1. call'[r] = "SETTLED" /\ host' = [host EXCEPT !.active = None]
      BY <2>2, <2>5 DEF IInv, Typed
    <3>2. connected => ~CancelIsOut /\ cancelling = None
      BY <2>3, <2>5 DEF Wire, CancelsMatch, CancelIsOut, IInv, LocksAreHeld
    <3>3. connected => Rests
      BY <2>3, <3>2 DEF Replied, Acked, Cancels, Rests
    <3>4. Protocol'
      BY <1>6, <3>1, <3>3 DEF Rests, Exchanging
    <3>5. AnswersAreOwn'
      BY <1>5, <2>1, <3>1
    <3>6. CancelsMatch'
      BY <3>1, <3>2 DEF Wire, CancelsMatch, IInv, Typed
    <3>7. ContentMatches'
      BY <1>7, <3>1 DEF Wire, ContentMatches, Responds
    <3>8. QED
      BY <3>4, <3>5, <3>6, <3>7 DEF Wire, NothingLeftBehind, OutputIsOwn
  <2>6. QED
    BY <2>4, <2>5
<1>11. CASE CheckAck(r)
  <2> USE <1>11 DEF CheckAck, Answered, childVars
  <2>1. call[r] \in {"ANSWERED", "ANSWERED_ACK"}
    OBVIOUS
  <2>2. answer[r] = AckOf(r)
    BY DEF Wire, AnswersAreOwn, AnswersOf
  <2>3. connected => host.active = r /\ Acked(r)
    BY <2>1, <2>2 DEF Wire, Protocol, PipeMatches, Exchanging, Unserved,
       Served, Replied, AckOf, AnswersOf
  <2>4. connected => Rests /\ CancelIsOut
    BY <2>1, <2>2, <2>3 DEF Acked, Rests, AckOf, AnswersOf
  <2>5. call'[r] \in {"ACKED", "MISMATCH"}
    BY DEF IInv, Typed
  <2>6. Protocol'
    BY <1>6, <2>4, <2>5 DEF Rests, Exchanging
  <2>7. AnswersAreOwn'
    BY <1>5, <2>2, <2>5
  <2>8. ContentMatches'
    BY <1>7, <2>5 DEF Responds
  <2>9. CancelsMatch'
    <3>1. CASE /\ call'[r] = "ACKED" /\ host' = [host EXCEPT !.active = None]
               /\ host.active = r /\ host.cancel_wire_sent
      BY <3>1 DEF Wire, CancelsMatch, IInv, Typed
    <3>2. CASE call'[r] = "MISMATCH" /\ UNCHANGED host
      <4>1. host.active # None => connected /\ host.active = r
        BY <2>3 DEF IInv, ActiveIsReachable
      <4>2. QED
        BY <2>4, <3>2, <4>1 DEF Wire, CancelsMatch, CancelIsOut
    <3>3. QED
      BY <3>1, <3>2 DEF IInv, Typed
  <2>10. QED
    BY <2>6, <2>7, <2>8, <2>9 DEF Wire, NothingLeftBehind, OutputIsOwn
<1>12. QED
  BY <1>8, <1>9, <1>10, <1>11
LEMMA CancelWire ==
  ASSUME IInv, WellTyped, Wire, Cancel \/ \E r \in Requests : AdmitCancel(r)
  PROVE  Wire'
<1> USE DEF procVars, slotVars, callVars, childVars
<1>1. ASSUME NEW r \in Requests, AdmitCancel(r) PROVE Wire'
  <2> USE <1>1 DEF AdmitCancel
  <2>1. ~sent /\ cancelling = None
    BY DEF IInv, LocksAreHeld
  <2>2. /\ host'.active = r /\ host'.cancel_requested
        /\ host'.cancel_wire_sent = host.cancel_wire_sent
        /\ ~host.cancel_wire_sent
    BY DEF Wire, CancelsMatch, IInv, Typed
  <2>3. \A q \in Requests : PipeMatches(q) => PipeMatches(q)'
    BY <2>1, <2>2 DEF PipeMatches, Unserved, Served, Replied, Acked,
                      CancelIsOut, Cancels
  <2>4. Protocol'
    BY <2>3 DEF Wire, Protocol, Rests, Boots
  <2>5. CancelsMatch'
    BY <2>1, <2>2 DEF Wire, CancelsMatch, CancelIsOut
  <2>6. QED
    BY <2>4, <2>5 DEF Wire, AnswersAreOwn, ContentMatches, Responds,
                      NothingLeftBehind, OutputIsOwn
<1>2. CASE WithdrawCancel
  <2> USE <1>2 DEF WithdrawCancel
  <2>1. /\ host'.active = host.active
        /\ host'.cancel_wire_sent = host.cancel_wire_sent
        /\ ~host.cancel_wire_sent
    BY DEF Wire, CancelsMatch, IInv, Typed
  <2>2. \A q \in Requests : PipeMatches(q) => PipeMatches(q)'
    BY <2>1 DEF PipeMatches, Unserved, Served, Replied, Acked,
                CancelIsOut, Cancels
  <2>3. Protocol'
    BY <2>2 DEF Wire, Protocol, Rests, Boots
  <2>4. CancelsMatch'
    BY <2>1 DEF Wire, CancelsMatch, CancelIsOut
  <2>5. QED
    BY <2>3, <2>4 DEF Wire, AnswersAreOwn, ContentMatches, Responds,
                      NothingLeftBehind, OutputIsOwn
<1>3. CASE SendCancel
  <2> USE <1>3 DEF SendCancel, Running
  <2> DEFINE r == cancelling
  <2>1. r \in Requests /\ host.active = r /\ ~CancelIsOut
    BY DEF Wire, CancelsMatch, CancelIsOut, IInv, Typed
  <2>2. call[r] \in Exchanging
    <3>1. call[r] \in Reachable
      BY <2>1 DEF IInv, ActiveIsReachable
    <3>2. call[r] # "MISMATCH"
      BY <2>1 DEF Wire, CancelsMatch
    <3>3. QED
      BY <3>1, <3>2 DEF Reachable, Exchanging
  <2>3. \A q \in Requests : q # r => call[q] \notin Exchanging
    <3>1. \A q \in Requests : call[q] \in Exchanging => operation = q
      BY DEF IInv, OwnsOperation, InFlight, Exchanging, Steps
    <3>2. QED
      BY <2>1, <2>2, <3>1
  <2>4. \/ Unserved(r) \/ Served(r) \/ Replied(r)
    BY <2>1, <2>2 DEF Wire, Protocol, PipeMatches, Acked
  <2>5. CancelIsOut'
    BY DEF CancelIsOut
  <2>6. toChild' = Append(toChild, CancelOf(r))
    BY DEF CancelOf
  <2>7. CASE Unserved(r)
    <3>1. toChild' = <<Request(r), CancelOf(r)>>
      BY <2>1, <2>6, <2>7, Writes DEF Unserved
    <3>2. Unserved(r)'
      BY <2>5, <2>7, <3>1 DEF Unserved
    <3>3. QED
      BY <2>1, <2>2, <2>3, <3>2
      DEF Wire, Protocol, PipeMatches, AnswersAreOwn, CancelsMatch,
          CancelIsOut, ContentMatches, Responds, NothingLeftBehind, OutputIsOwn
  <2>8. CASE Served(r) \/ Replied(r)
    <3>1. toChild' = <<CancelOf(r)>>
      BY <2>1, <2>6, <2>8, Writes DEF Served, Replied, Cancels
    <3>2. Served(r)' \/ Replied(r)'
      BY <2>5, <2>8, <3>1 DEF Served, Replied, Cancels
    <3>3. QED
      BY <2>1, <2>2, <2>3, <3>2
      DEF Wire, Protocol, PipeMatches, AnswersAreOwn, CancelsMatch,
          CancelIsOut, ContentMatches, Responds, NothingLeftBehind, OutputIsOwn
  <2>9. QED
    BY <2>4, <2>7, <2>8
<1>4. CASE SendCancelFails
  BY <1>4, CutOffWire DEF SendCancelFails
<1>5. CASE ConfirmCancel
  <2> USE <1>5 DEF ConfirmCancel
  <2>1. /\ cancelling \in Requests /\ host.active = cancelling
        /\ host.cancel_requested /\ connected /\ lifecycle = "CANCEL"
    BY DEF Wire, CancelsMatch, IInv, LocksAreHeld, Typed
  <2>2. host' = [host EXCEPT !.cancel_wire_sent = TRUE]
    BY <2>1 DEF StillActive
  <2>3. /\ host'.active = host.active /\ host'.cancel_requested
        /\ host'.cancel_wire_sent
    BY <2>1, <2>2 DEF IInv, Typed
  <2>4. \A q \in Requests : PipeMatches(q) => PipeMatches(q)'
    BY <2>3 DEF PipeMatches, Unserved, Served, Replied, Acked,
                CancelIsOut, Cancels
  <2>5. Protocol'
    BY <2>1, <2>4 DEF Wire, Protocol, Rests
  <2>6. CancelsMatch'
    BY <2>3 DEF CancelsMatch, CancelIsOut
  <2>7. QED
    BY <2>5, <2>6 DEF Wire, AnswersAreOwn, ContentMatches, Responds,
                      NothingLeftBehind, OutputIsOwn
<1>6. QED
  BY <1>1, <1>2, <1>3, <1>4, <1>5 DEF Cancel

LEMMA StartWire ==
  ASSUME IInv, Wire, ClaimStart \/ Start \/ Close \/ CloseForced
  PROVE  Wire'
<1> USE DEF procVars, slotVars, callVars, cnclVars, childVars, lockVars
<1>1. CASE ClaimStart \/ AlreadyStarted
  BY <1>1, WireFrame DEF ClaimStart, AlreadyStarted
<1>2. CASE ReplaceModel \/ SpawnFails \/ StartFails \/ Close \/ CloseForced
  <2>1. ~sent
    BY <1>2 DEF ReplaceModel, SpawnFails, StartFails, Close, CloseForced,
                Quiet, Wire, CancelsMatch
  <2>2. QED
    BY <1>2, <2>1, CutOffWire
    DEF ReplaceModel, SpawnFails, StartFails, Close, CloseForced
<1>3. ASSUME operation = "START"
      PROVE  \A q \in Requests : call[q] \notin InFlight
  BY <1>3 DEF IInv, OwnsOperation
<1>4. CASE Spawn
  <2> USE <1>4 DEF Spawn, Quiet
  <2>1. ~sent /\ cancelling = None
    BY DEF IInv, LocksAreHeld
  <2>2. Protocol'
    BY <1>3 DEF Protocol, PipeMatches, Boots, Exchanging, InFlight, Steps
  <2>3. CancelsMatch'
    BY <2>1 DEF CancelsMatch, Inactive
  <2>4. ContentMatches'
    BY <1>3 DEF ContentMatches, Responds, InFlight, Steps
  <2>5. QED
    BY <2>2, <2>3, <2>4 DEF Wire, AnswersAreOwn, NothingLeftBehind, OutputIsOwn
<1>5. CASE Started
  <2> USE <1>5 DEF Started
  <2>1. operation = "START"
    BY DEF IInv, LocksAreHeld
  <2>2. ~sent
    BY DEF Wire, CancelsMatch
  <2>3. connected => Rests'
    <3>1. ASSUME connected PROVE toParent = <<[type |-> "READY", of |-> None]>>
                                 /\ Boots /\ child = "IDLE"
      BY <3>1 DEF Wire, Protocol, Boots
    <3>2. QED
      BY <3>1, Reads DEF Boots, Rests
  <2>4. Protocol'
    BY <1>3, <2>1, <2>3 DEF Protocol, PipeMatches, Exchanging, InFlight, Steps
  <2>5. CancelsMatch'
    BY <2>2 DEF Wire, CancelsMatch, CancelIsOut
  <2>6. ContentMatches'
    BY <1>3, <2>1 DEF ContentMatches, Responds, InFlight, Steps
  <2>7. QED
    BY <2>4, <2>5, <2>6 DEF Wire, AnswersAreOwn, NothingLeftBehind, OutputIsOwn
<1>6. QED
  BY <1>1, <1>2, <1>4, <1>5 DEF Start

\* A child that has something to do does it for the call in the exchange.
LEMMA ChildHasCall ==
  ASSUME IInv, Wire, connected,
         child \in {"INFER", "WRITE"} \/ toChild # <<>>
  PROVE  /\ lifecycle # "START"
         /\ \E r \in Requests :
               /\ call[r] \in Exchanging /\ host.active = r
               /\ Unserved(r) \/ Served(r) \/ Replied(r) \/ Acked(r)
BY DEF Wire, Protocol, PipeMatches, Boots, Rests

LEMMA ChildWire ==
  ASSUME IInv, WellTyped, Wire, Child
  PROVE  Wire'
<1> USE DEF Serving, parentVars, procVars, slotVars, childVars, ChildGoesTo
<1>1. CASE ChildReady
  <2> USE <1>1 DEF ChildReady, Reply
  <2>1. Boots /\ lifecycle = "START"
    BY DEF Wire, Protocol, PipeMatches, Rests, Unserved, Served, Replied, Acked
  <2>2. Boots'
    BY <2>1, Writes DEF Boots
  <2>3. \A q \in Requests : call[q] \notin InFlight
    BY <2>1 DEF IInv, LocksAreHeld, OwnsOperation
  <2>4. Protocol'
    BY <2>1, <2>2, <2>3
    DEF Protocol, PipeMatches, Exchanging, InFlight, Steps, lockVars, callVars
  <2>5. ContentMatches'
    BY <2>3 DEF ContentMatches, Responds, InFlight, Steps, callVars
  <2>6. QED
    BY <2>4, <2>5 DEF Wire, AnswersAreOwn, CancelsMatch, CancelIsOut,
                      NothingLeftBehind, OutputIsOwn, lockVars, callVars,
                      cnclVars
<1>2. CASE ChildReceives
  <2> USE <1>2 DEF ChildReceives, Reply
  <2>1. lifecycle # "START"
    BY ChildHasCall
  <2>2. PICK r \in Requests :
            /\ call[r] \in Exchanging
            /\ Unserved(r) \/ Served(r) \/ Replied(r) \/ Acked(r)
    BY ChildHasCall
  <2>3. CASE Unserved(r)
    <3>1. Head(toChild) = Request(r) /\ Tail(toChild) = Cancels(r)
      BY <2>3, Reads DEF Unserved, Cancels
    <3>2. child' = "INFER" /\ inferring' = r /\ toParent' = toParent
      BY <3>1 DEF Request
    <3>3. Served(r)'
      BY <2>3, <3>1, <3>2 DEF Unserved, Served, Cancels, CancelIsOut, callVars,
                              cnclVars
    <3>4. ~Responds(r)'
      BY <3>3 DEF Served, Responds
    <3>5. QED
      BY <2>1, <2>2, <3>3, <3>4, PipeStep
  <2>4. CASE Replied(r)
    <3>1. /\ CancelIsOut /\ Head(toChild) = CancelOf(r)
          /\ Tail(toChild) = <<>>
      BY <2>4, Reads DEF Replied, Cancels
    <3>2. /\ toParent' = Append(toParent, AckOf(r)) /\ toChild' = <<>>
          /\ UNCHANGED child
      BY <3>1 DEF CancelOf, AckOf
    <3>3. CASE call[r] = "AWAIT" /\ \E m \in AnswersOf(r) : toParent = <<m>>
      <4>1. PICK m \in AnswersOf(r) : toParent = <<m>>
        BY <3>3
      <4>2. toParent' = <<m, AckOf(r)>>
        BY <3>2, <4>1, Writes
      <4>3. Acked(r)'
        BY <2>4, <3>1, <3>2, <3>3, <4>2
        DEF Replied, Acked, CancelIsOut, callVars, cnclVars
      <4>4. ASSUME Responds(r)' PROVE content' = r
        <5>1. Len(toParent) = 1 /\ toParent[1] = m
          BY <4>1
        <5>2. Len(toParent') = 2 /\ toParent'[1] = m /\ toParent'[2] = AckOf(r)
          BY <4>2
        <5>3. m.type = "RESPONSE"
          BY <3>3, <4>4, <5>2 DEF Responds, AckOf, callVars
        <5>4. Responds(r)
          BY <3>3, <5>1, <5>3 DEF Responds
        <5>5. QED
          BY <5>4 DEF Wire, ContentMatches
      <4>5. QED
        BY <2>1, <2>2, <4>3, <4>4, PipeStep
    <3>4. CASE /\ call[r] \in {"ANSWERED", "AWAIT_ACK"} /\ toParent = <<>>
               /\ answer[r] \in AnswersOf(r)
      <4>1. toParent' = <<AckOf(r)>>
        BY <3>2, <3>4, Writes
      <4>2. Acked(r)'
        BY <2>4, <3>1, <3>2, <3>4, <4>1
        DEF Replied, Acked, CancelIsOut, callVars, cnclVars
      <4>3. Responds(r)' => content' = r
        BY <3>4 DEF Responds, Wire, ContentMatches, callVars
      <4>4. QED
        BY <2>1, <2>2, <4>2, <4>3, PipeStep
    <3>5. QED
      BY <2>4, <3>3, <3>4 DEF Replied
  <2>5. QED
    BY <2>2, <2>3, <2>4 DEF Served, Acked
<1>3. CASE ChildFails \/ ChildDrains \/ ChildResponds \/ ChildWriteFails
  <2> USE <1>3 DEF ChildFails, ChildDrains, ChildResponds, ChildWriteFails,
                   Reply
  <2>1. lifecycle # "START"
    BY ChildHasCall
  <2>2. PICK r \in Requests : call[r] \in Exchanging /\ Served(r)
    BY ChildHasCall DEF Unserved, Replied, Acked
  <2>3. /\ call[r] = "AWAIT" /\ inferring = r /\ toChild = Cancels(r)
        /\ toParent = <<>>
    BY <2>2 DEF Served
  <2>4. \A m : Append(toParent, m) = <<m>>
    BY <2>3, Writes
  <2>5. ASSUME NEW m \in AnswersOf(r), child' = "IDLE",
               toParent' = Append(toParent, m), UNCHANGED <<parentVars, toChild>>,
               m.type = "RESPONSE" => content' = r
        PROVE  Wire'
    <3>1. toParent' = <<m>>
      BY <2>4, <2>5
    <3>2. Replied(r)'
      BY <2>3, <2>5, <3>1 DEF Replied, Cancels, CancelIsOut, callVars, cnclVars
    <3>3. Len(toParent') = 1 /\ toParent'[1] = m
      BY <3>1
    <3>4. Responds(r)' => content' = r
      BY <2>3, <2>5, <3>3 DEF Responds, callVars
    <3>5. QED
      BY <2>1, <2>2, <2>5, <3>2, <3>4, PipeStep
  <2>6. CASE ChildFails \/ ChildWriteFails
    BY <2>3, <2>5, <2>6 DEF AnswersOf
  <2>7. CASE ChildResponds
    <3>1. [type |-> "RESPONSE", of |-> r] \in AnswersOf(r)
      BY DEF AnswersOf
    <3>2. QED
      BY <2>3, <2>5, <2>7, <3>1
  <2>8. CASE ChildDrains
    <3> DEFINE cancel == [type |-> "CANCEL", of |-> JobOf[inferring]]
               pending == {toChild[n] : n \in 1..Len(toChild)}
    <3>1. pending = IF CancelIsOut THEN {CancelOf(r)} ELSE {}
      BY <2>3 DEF Cancels
    <3>2. cancel = CancelOf(r)
      BY <2>3 DEF CancelOf
    <3>3. CASE ~CancelIsOut
      <4>1. /\ child' = "WRITE" /\ inferring' = r /\ toChild' = <<>>
            /\ toParent' = <<>> /\ UNCHANGED connected
        BY <2>3, <2>8, <3>1, <3>2, <3>3
      <4>2. Served(r)'
        BY <2>3, <2>8, <3>3, <4>1
        DEF Served, Cancels, CancelIsOut, callVars, cnclVars
      <4>3. ~Responds(r)'
        BY <4>2 DEF Served, Responds
      <4>4. QED
        BY <2>1, <2>2, <2>8, <4>1, <4>2, <4>3, PipeStep
    <3>4. CASE CancelIsOut
      <4>1. pending = {cancel}
        BY <3>1, <3>2, <3>4
      <4>2. /\ child' = "IDLE" /\ toParent' = Append(toParent, AckOf(r))
            /\ UNCHANGED procVars /\ toChild' = <<>>
        BY <2>3, <2>8, <4>1 DEF AckOf
      <4>3. toParent' = <<AckOf(r)>>
        BY <2>4, <4>2
      <4>4. Acked(r)'
        BY <2>3, <2>8, <3>4, <4>2, <4>3 DEF Acked, CancelIsOut, callVars, cnclVars
      <4>5. Len(toParent') = 1 /\ toParent'[1] = AckOf(r)
        BY <4>3
      <4>6. ~Responds(r)'
        BY <2>3, <2>8, <4>5 DEF Responds, AckOf, callVars
      <4>7. QED
        BY <2>1, <2>2, <2>8, <4>2, <4>4, <4>6, PipeStep
    <3>5. QED
      BY <3>3, <3>4
  <2>9. QED
    BY <2>6, <2>7, <2>8
<1>4. QED
  BY <1>1, <1>2, <1>3 DEF Child

LEMMA WireIsInductive == IInv /\ WellTyped /\ Wire /\ [Next]_vars => Wire'
<1> SUFFICES ASSUME IInv, WellTyped, Wire, [Next]_vars PROVE Wire'
  OBVIOUS
<1>1. ASSUME NEW r \in Requests, Segment(r) PROVE Wire'
  BY <1>1, PrepareWire, EndWire, ExchangeWire DEF Segment
<1>2. CASE (\E p \in alive : Dies(p)) \/ UNCHANGED vars
  BY <1>2, WireFrame DEF Dies, vars, lockVars, procVars, slotVars, callVars,
                         cnclVars, childVars
<1>3. QED
  BY <1>1, <1>2, CancelWire, StartWire, ChildWire DEF Next

LEMMA InitWire == Init => Wire
BY DEF Init, Wire, Protocol, AnswersAreOwn, CancelsMatch, ContentMatches,
       NothingLeftBehind, OutputIsOwn, Inactive

LEMMA WireHolds == Spec => []Wire
BY InitOk, Inductive, InitWellTyped, WellTypedIsInductive, InitWire,
   WireIsInductive, PTL DEF Spec

\* No cancel, failure, timeout, close or restart leaves a message behind for a
\* later request, whoever acts between the read of one and the next.
THEOREM PipeIsClean == Spec => []NothingLeftBehind
<1>1. Wire => NothingLeftBehind
  BY DEF Wire
<1>2. QED
  BY <1>1, WireHolds, PTL

\* The pixels a segment() returns are those made of its own frame.
THEOREM OutputsAreOwn == Spec => []OutputIsOwn
<1>1. Wire => OutputIsOwn
  BY DEF Wire
<1>2. QED
  BY <1>1, WireHolds, PTL

---------------------------------------------------------------------------
(* What computes the cuts (ExecutionProviders).  The property speaks of    *)
(* the session a frame meets; the invariant says how the child came to     *)
(* hold it, step by step of its launch and of its fallback.                *)

\* A provider is reported by the job whose end is not delivered yet, before that end.
SignalsFollowTheTask ==
    /\ \A i \in 1..Len(posted) : /\ posted[i].is = "provider" => posted[i].provider \in Providers
                                 /\ posted[i].is = "over" => i = Len(posted)
    /\ task.pc \in {"segments", "awaits"} => \A i \in 1..Len(posted) : posted[i].is = "provider"
    /\ task.pc \notin {"segments", "awaits", "over"} => posted = <<>>

\* A child reads its weight while it is launched for the job that starts it,
\* and afterwards only to fall back.
ChildFollowsTheTask ==
    /\ task.pc # "starts" /\ engine.pc # "off" =>
         engine.pc \notin {"ready", "failed"} /\ (engine.pc \in Looks => engine.reads = "frame")
    /\ task.pc = "starts" /\ engine.pc # "off" =>
         /\ engine.net = task.net /\ engine.asked = task.provider /\ engine.reads = "launch"
         /\ engine.pc \in Looks \cup {"ready", "failed"}
         /\ engine.pc = "ready" => engine.on # NoProvider

\* A session is built of bytes that were proven, and a fallback is the last.
SessionIsLoaded ==
    /\ engine.pc \in {"open", "read", "prove"} => engine.seen # 0
    /\ engine.pc = "build" => engine.bytes = "proven"
    /\ engine.on # NoProvider => engine.loaded = "proven" /\ engine.on \in {engine.asked, Cpu}
    /\ engine.life = "fell" /\ engine.pc # "off" => engine.on = Cpu /\ engine.pc \in {"again", "idle", "infers"}

\* The manager's handle is of the child that runs, and of the job that uses it.
HandleFollowsTheChild ==
    /\ handle.is = "live" /\ engine.pc # "off" /\ task.pc # "starts" =>
         /\ engine.net = handle.net /\ engine.asked = handle.asked /\ engine.on # NoProvider
         /\ handle.reported = engine.on \/ (engine.life = "fell" /\ engine.on = Cpu)
    /\ task.pc \in {"prepared", "segments", "awaits"} =>
         handle.is = "live" /\ handle.net = task.net /\ handle.asked = task.provider
    /\ task.pc \in {"segments", "awaits"} => prepared = handle

PickFollowsTheSignals ==
    /\ picked.pending # NoProvider => picked.said = picked.pending
    /\ SettingFollows

JobIsServed == SignalsFollowTheTask /\ ChildFollowsTheTask /\ SessionIsLoaded /\ HandleFollowsTheChild /\ PickFollowsTheSignals
ProvidersInvariant == ProvidersTypeOK /\ JobIsServed

LEMMA ProvidersStart == ProvidersInit => ProvidersInvariant
<1> SUFFICES ASSUME ProvidersInit PROVE ProvidersInvariant
  OBVIOUS
<1>1. ProvidersTypeOK
  BY ProvidersAssumption DEF ProvidersInit, ProvidersTypeOK, Providers, NoTask, NoHandle, Launched, NoWeight, WeightBytes,
     Picks, Tasks, Signals, Handles, Children
<1>2. JobIsServed
  BY ProvidersAssumption DEF ProvidersInit, JobIsServed, SignalsFollowTheTask, ChildFollowsTheTask, SessionIsLoaded,
     HandleFollowsTheChild, PickFollowsTheSignals, SettingFollows, NoTask, NoHandle, Launched, NoJobRuns, Providers
<1> QED
  BY <1>1, <1>2 DEF ProvidersInvariant

\* What a step of the child leaves alone.
LEMMA ChildSteps ==
  ASSUME ProvidersInvariant, TaskStays, ProvidersTypeOK', ChildFollowsTheTask', SessionIsLoaded', HandleFollowsTheChild'
  PROVE  ProvidersInvariant'
BY DEF ProvidersInvariant, JobIsServed, TaskStays, SignalsFollowTheTask, PickFollowsTheSignals, SettingFollows, NoJobRuns

\* The child after a step, which never changes what it was launched for.
EngineIs(pc, on, loaded, reads, life, seen, bytes, said) ==
    /\ engine' \in Children /\ engine'.net = engine.net /\ engine'.asked = engine.asked
    /\ engine'.pc = pc /\ engine'.on = on /\ engine'.loaded = loaded /\ engine'.reads = reads
    /\ engine'.life = life /\ engine'.seen = seen /\ engine'.bytes = bytes /\ engine'.answer = said

LEMMA PcIs ==
  ASSUME engine \in Children, NEW pc \in Looks \cup {"off", "ready", "failed", "idle", "infers", "again"}, engine' = [engine EXCEPT !.pc = pc]
  PROVE  EngineIs(pc, engine.on, engine.loaded, engine.reads, engine.life, engine.seen, engine.bytes, engine.answer)
BY DEF Children, EngineIs, Looks

LEMMA SeenIs ==
  ASSUME engine \in Children, NEW pc \in Looks \cup {"off", "ready", "failed", "idle", "infers", "again"}, NEW v \in 0..MaxWeightFiles, engine' = [engine EXCEPT !.pc = pc, !.seen = v]
  PROVE  EngineIs(pc, engine.on, engine.loaded, engine.reads, engine.life, v, engine.bytes, engine.answer)
BY DEF Children, EngineIs, Looks

LEMMA BytesAre ==
  ASSUME engine \in Children, NEW pc \in Looks \cup {"off", "ready", "failed", "idle", "infers", "again"}, NEW v \in WeightBytes, engine' = [engine EXCEPT !.pc = pc, !.bytes = v]
  PROVE  EngineIs(pc, engine.on, engine.loaded, engine.reads, engine.life, engine.seen, v, engine.answer)
BY DEF Children, EngineIs, Looks

LEMMA ReadIsLost ==
  ASSUME engine \in Children, engine' = [engine EXCEPT !.pc = "idle", !.reads = "launch", !.answer = "failed"]
  PROVE  EngineIs("idle", engine.on, engine.loaded, "launch", engine.life, engine.seen, engine.bytes, "failed")
BY DEF Children, EngineIs, Looks

LEMMA AnswerIs ==
  ASSUME engine \in Children, NEW pc \in Looks \cup {"off", "ready", "failed", "idle", "infers", "again"}, NEW v \in {"none", "frame", "failed"}, engine' = [engine EXCEPT !.pc = pc, !.answer = v]
  PROVE  EngineIs(pc, engine.on, engine.loaded, engine.reads, engine.life, engine.seen, engine.bytes, v)
BY DEF Children, EngineIs, Looks

LEMMA ReadsAgain ==
  ASSUME engine \in Children, engine' = [engine EXCEPT !.pc = "look", !.reads = "frame"]
  PROVE  EngineIs("look", engine.on, engine.loaded, "frame", engine.life, engine.seen, engine.bytes, engine.answer)
BY DEF Children, EngineIs, Looks

LEMMA SessionIs ==
  ASSUME engine \in Children, NEW pc \in Looks \cup {"off", "ready", "failed", "idle", "infers", "again"}, NEW v \in Providers, engine' = [[engine EXCEPT !.on = v, !.loaded = engine.bytes] EXCEPT !.pc = pc]
  PROVE  EngineIs(pc, v, engine.bytes, engine.reads, engine.life, engine.seen, engine.bytes, engine.answer)
BY DEF Children, EngineIs, Looks

LEMMA FallbackIs ==
  ASSUME engine \in Children, NEW v \in Providers, engine' = [[engine EXCEPT !.on = v, !.loaded = engine.bytes] EXCEPT !.pc = "again", !.reads = "launch", !.life = "fell"]
  PROVE  EngineIs("again", v, engine.bytes, "launch", "fell", engine.seen, engine.bytes, engine.answer)
BY DEF Children, EngineIs, Looks

Refused ==
    \/ engine.reads = "frame" /\ EngineIs("idle", engine.on, engine.loaded, "launch", engine.life, engine.seen, engine.bytes, "failed")
    \/ engine.reads = "launch" /\ EngineIs("failed", engine.on, engine.loaded, engine.reads, engine.life, engine.seen, engine.bytes, engine.answer)

LEMMA ReadFailsIs ==
  ASSUME engine \in Children, ReadFails
  PROVE  Refused
<1>1. engine.reads \in {"launch", "frame"}
  BY DEF Children
<1>2. CASE engine.reads = "frame"
  <2>1. engine' = [engine EXCEPT !.pc = "idle", !.reads = "launch", !.answer = "failed"]
    BY <1>2 DEF ReadFails
  <2> QED
    BY <1>2, <2>1, ReadIsLost DEF Refused
<1>3. CASE engine.reads = "launch"
  <2>1. engine' = [engine EXCEPT !.pc = "failed"]
    BY <1>3 DEF ReadFails
  <2> QED
    BY <1>3, <2>1, PcIs DEF Refused, Looks
<1> QED
  BY <1>1, <1>2, <1>3

LEMMA LookAtWeightHolds ==
  ASSUME ProvidersInvariant, LookAtWeight, TaskStays, UNCHANGED <<offered, weightAt, weightFile, spent>>
  PROVE  ProvidersInvariant'
<1> USE DEF ProvidersInvariant, JobIsServed, TaskStays
<1>0. engine \in Children /\ handle \in Handles /\ engine.asked \in Providers /\ engine.bytes \in WeightBytes
  BY DEF ProvidersTypeOK, Children
<1>f. Found \in 0..MaxWeightFiles
  <2>1. engine.net \in Nets /\ spent.files \in 0..MaxWeightFiles /\ weightAt \in [Nets -> 0..spent.files]
    BY <1>0 DEF ProvidersTypeOK, Children
  <2> QED
    BY <2>1, ProvidersAssumption DEF Found
<1>1. engine.pc = "look" /\ ((Found # 0 /\ EngineIs("open", engine.on, engine.loaded, engine.reads, engine.life, Found, engine.bytes, engine.answer)) \/ Refused)
  <2>1. CASE engine' = [engine EXCEPT !.pc = "open", !.seen = Found] /\ Found # 0
    BY <1>0, <2>1, <1>f, SeenIs DEF LookAtWeight, Looks
  <2>2. CASE ReadFails
    BY <1>0, <2>2, ReadFailsIs DEF LookAtWeight
  <2> QED
    BY <2>1, <2>2 DEF LookAtWeight
<1>2. ProvidersTypeOK'
  BY <1>1 DEF ProvidersTypeOK, EngineIs, Refused
<1>3. ChildFollowsTheTask'
  BY <1>0, <1>1, ProvidersAssumption DEF ChildFollowsTheTask, SessionIsLoaded, HandleFollowsTheChild, Looks, EngineIs, Refused, Providers
<1>4. SessionIsLoaded'
  BY <1>0, <1>1, ProvidersAssumption DEF ChildFollowsTheTask, SessionIsLoaded, HandleFollowsTheChild, Looks, EngineIs, Refused, Providers
<1>5. HandleFollowsTheChild'
  BY <1>0, <1>1, ProvidersAssumption DEF ChildFollowsTheTask, SessionIsLoaded, HandleFollowsTheChild, Looks, EngineIs, Refused, Providers
<1> QED
  BY <1>2, <1>3, <1>4, <1>5, ChildSteps

LEMMA OpenWeightHolds ==
  ASSUME ProvidersInvariant, OpenWeight, TaskStays, UNCHANGED <<offered, weightAt, weightFile, spent>>
  PROVE  ProvidersInvariant'
<1> USE DEF ProvidersInvariant, JobIsServed, TaskStays
<1>0. engine \in Children /\ handle \in Handles /\ engine.asked \in Providers /\ engine.bytes \in WeightBytes
  BY DEF ProvidersTypeOK, Children
<1>1. engine.pc = "open" /\ (EngineIs("read", engine.on, engine.loaded, engine.reads, engine.life, engine.seen, engine.bytes, engine.answer) \/ Refused)
  <2>1. CASE engine' = [engine EXCEPT !.pc = "read"]
    BY <1>0, <2>1, PcIs DEF OpenWeight, Looks
  <2>2. CASE ReadFails
    BY <1>0, <2>2, ReadFailsIs DEF OpenWeight
  <2> QED
    BY <2>1, <2>2 DEF OpenWeight
<1>2. ProvidersTypeOK'
  BY <1>1 DEF ProvidersTypeOK, EngineIs, Refused
<1>3. ChildFollowsTheTask'
  BY <1>0, <1>1, ProvidersAssumption DEF ChildFollowsTheTask, SessionIsLoaded, HandleFollowsTheChild, Looks, EngineIs, Refused, Providers
<1>4. SessionIsLoaded'
  BY <1>0, <1>1, ProvidersAssumption DEF ChildFollowsTheTask, SessionIsLoaded, HandleFollowsTheChild, Looks, EngineIs, Refused, Providers
<1>5. HandleFollowsTheChild'
  BY <1>0, <1>1, ProvidersAssumption DEF ChildFollowsTheTask, SessionIsLoaded, HandleFollowsTheChild, Looks, EngineIs, Refused, Providers
<1> QED
  BY <1>2, <1>3, <1>4, <1>5, ChildSteps

LEMMA ReadWeightHolds ==
  ASSUME ProvidersInvariant, ReadWeight, TaskStays, UNCHANGED <<offered, weightAt, weightFile, spent>>
  PROVE  ProvidersInvariant'
<1> USE DEF ProvidersInvariant, JobIsServed, TaskStays
<1>0. engine \in Children /\ handle \in Handles /\ engine.asked \in Providers /\ engine.bytes \in WeightBytes
  BY DEF ProvidersTypeOK, Children
<1>1. engine.pc = "read" /\ EngineIs("prove", engine.on, engine.loaded, engine.reads, engine.life, engine.seen, weightFile[engine.seen].bytes, engine.answer)
  <2>1. engine.pc = "read" /\ engine.seen \in 1..MaxWeightFiles
    BY <1>0 DEF ReadWeight, SessionIsLoaded, Children
  <2>2. weightFile[engine.seen].bytes \in WeightBytes
    BY <2>1 DEF ProvidersTypeOK
  <2> QED
    BY <1>0, <2>1, <2>2, BytesAre DEF ReadWeight, Looks
<1>2. ProvidersTypeOK'
  BY <1>1 DEF ProvidersTypeOK, EngineIs, Refused
<1>3. ChildFollowsTheTask'
  BY <1>0, <1>1, ProvidersAssumption DEF ChildFollowsTheTask, SessionIsLoaded, HandleFollowsTheChild, Looks, EngineIs, Refused, Providers
<1>4. SessionIsLoaded'
  BY <1>0, <1>1, ProvidersAssumption DEF ChildFollowsTheTask, SessionIsLoaded, HandleFollowsTheChild, Looks, EngineIs, Refused, Providers
<1>5. HandleFollowsTheChild'
  BY <1>0, <1>1, ProvidersAssumption DEF ChildFollowsTheTask, SessionIsLoaded, HandleFollowsTheChild, Looks, EngineIs, Refused, Providers
<1> QED
  BY <1>2, <1>3, <1>4, <1>5, ChildSteps

LEMMA ProveWeightHolds ==
  ASSUME ProvidersInvariant, ProveWeight, TaskStays, UNCHANGED <<offered, weightAt, weightFile, spent>>
  PROVE  ProvidersInvariant'
<1> USE DEF ProvidersInvariant, JobIsServed, TaskStays
<1>0. engine \in Children /\ handle \in Handles /\ engine.asked \in Providers /\ engine.bytes \in WeightBytes
  BY DEF ProvidersTypeOK, Children
<1>1. engine.pc = "prove" /\ ((engine.bytes = "proven" /\ EngineIs("build", engine.on, engine.loaded, engine.reads, engine.life, engine.seen, engine.bytes, engine.answer)) \/ Refused)
  <2>1. CASE engine' = [engine EXCEPT !.pc = "build"] /\ engine.bytes = "proven"
    BY <1>0, <2>1, PcIs DEF ProveWeight, Looks
  <2>2. CASE ReadFails
    BY <1>0, <2>2, ReadFailsIs DEF ProveWeight
  <2> QED
    BY <2>1, <2>2 DEF ProveWeight
<1>2. ProvidersTypeOK'
  BY <1>1 DEF ProvidersTypeOK, EngineIs, Refused
<1>3. ChildFollowsTheTask'
  BY <1>0, <1>1, ProvidersAssumption DEF ChildFollowsTheTask, SessionIsLoaded, HandleFollowsTheChild, Looks, EngineIs, Refused, Providers
<1>4. SessionIsLoaded'
  BY <1>0, <1>1, ProvidersAssumption DEF ChildFollowsTheTask, SessionIsLoaded, HandleFollowsTheChild, Looks, EngineIs, Refused, Providers
<1>5. HandleFollowsTheChild'
  BY <1>0, <1>1, ProvidersAssumption DEF ChildFollowsTheTask, SessionIsLoaded, HandleFollowsTheChild, Looks, EngineIs, Refused, Providers
<1> QED
  BY <1>2, <1>3, <1>4, <1>5, ChildSteps

LEMMA BuildSessionHolds ==
  ASSUME ProvidersInvariant, BuildSession, TaskStays, UNCHANGED <<offered, weightAt, weightFile, spent>>
  PROVE  ProvidersInvariant'
<1> USE DEF ProvidersInvariant, JobIsServed, TaskStays
<1>0. engine \in Children /\ handle \in Handles /\ engine.asked \in Providers /\ engine.bytes \in WeightBytes
  BY DEF ProvidersTypeOK, Children
<1>1. /\ engine.pc = "build" /\ engine.reads = "launch"
      /\ \/ EngineIs("ready", engine.asked, engine.bytes, engine.reads, engine.life, engine.seen, engine.bytes, engine.answer)
         \/ EngineIs("ready", Cpu, engine.bytes, engine.reads, engine.life, engine.seen, engine.bytes, engine.answer)
         \/ Refused
  <2>1. CASE engine' = [Session(engine.asked) EXCEPT !.pc = "ready"]
    BY <1>0, <2>1, SessionIs DEF BuildSession, Session
  <2>2. CASE engine' = [Session(Cpu) EXCEPT !.pc = "ready"]
    BY <1>0, <2>2, SessionIs DEF BuildSession, Session, Providers
  <2>3. CASE ReadFails
    BY <1>0, <2>3, ReadFailsIs DEF BuildSession
  <2> QED
    BY <2>1, <2>2, <2>3 DEF BuildSession
<1>2. ProvidersTypeOK'
  BY <1>1 DEF ProvidersTypeOK, EngineIs, Refused
<1>3. ChildFollowsTheTask'
  BY <1>0, <1>1, ProvidersAssumption DEF ChildFollowsTheTask, SessionIsLoaded, HandleFollowsTheChild, Looks, EngineIs, Refused, Providers
<1>4. SessionIsLoaded'
  BY <1>0, <1>1, ProvidersAssumption DEF ChildFollowsTheTask, SessionIsLoaded, HandleFollowsTheChild, Looks, EngineIs, Refused, Providers
<1>5. HandleFollowsTheChild'
  BY <1>0, <1>1, ProvidersAssumption DEF ChildFollowsTheTask, SessionIsLoaded, HandleFollowsTheChild, Looks, EngineIs, Refused, Providers
<1> QED
  BY <1>2, <1>3, <1>4, <1>5, ChildSteps

LEMMA FallBackHolds ==
  ASSUME ProvidersInvariant, FallBack, TaskStays, UNCHANGED <<offered, weightAt, weightFile, spent>>
  PROVE  ProvidersInvariant'
<1> USE DEF ProvidersInvariant, JobIsServed, TaskStays
<1>0. engine \in Children /\ handle \in Handles /\ engine.asked \in Providers /\ engine.bytes \in WeightBytes
  BY DEF ProvidersTypeOK, Children
<1>1. /\ engine.pc = "build" /\ engine.reads = "frame"
      /\ \/ EngineIs("again", Cpu, engine.bytes, "launch", "fell", engine.seen, engine.bytes, engine.answer)
         \/ Refused
  <2>1. CASE engine' = [Session(Cpu) EXCEPT !.pc = "again", !.reads = "launch", !.life = "fell"]
    BY <1>0, <2>1, FallbackIs DEF FallBack, Session, Providers
  <2>2. CASE ReadFails
    BY <1>0, <2>2, ReadFailsIs DEF FallBack
  <2> QED
    BY <2>1, <2>2 DEF FallBack
<1>2. ProvidersTypeOK'
  BY <1>1 DEF ProvidersTypeOK, EngineIs, Refused
<1>3. ChildFollowsTheTask'
  BY <1>0, <1>1, ProvidersAssumption DEF ChildFollowsTheTask, SessionIsLoaded, HandleFollowsTheChild, Looks, EngineIs, Refused, Providers
<1>4. SessionIsLoaded'
  BY <1>0, <1>1, ProvidersAssumption DEF ChildFollowsTheTask, SessionIsLoaded, HandleFollowsTheChild, Looks, EngineIs, Refused, Providers
<1>5. HandleFollowsTheChild'
  BY <1>0, <1>1, ProvidersAssumption DEF ChildFollowsTheTask, SessionIsLoaded, HandleFollowsTheChild, Looks, EngineIs, Refused, Providers
<1> QED
  BY <1>2, <1>3, <1>4, <1>5, ChildSteps

LEMMA InferHolds ==
  ASSUME ProvidersInvariant, Infer, TaskStays, UNCHANGED <<offered, weightAt, weightFile, spent>>
  PROVE  ProvidersInvariant'
<1> USE DEF ProvidersInvariant, JobIsServed, TaskStays
<1>0. engine \in Children /\ handle \in Handles /\ engine.asked \in Providers /\ engine.bytes \in WeightBytes
  BY DEF ProvidersTypeOK, Children
<1>1. /\ engine.pc \in {"infers", "again"}
      /\ \/ \E said \in {"frame", "failed"} : EngineIs("idle", engine.on, engine.loaded, engine.reads, engine.life, engine.seen, engine.bytes, said)
         \/ engine.on # Cpu /\ EngineIs("look", engine.on, engine.loaded, "frame", engine.life, engine.seen, engine.bytes, engine.answer)
  <2>1. CASE engine' = [engine EXCEPT !.pc = "idle", !.answer = "frame"]
    BY <1>0, <2>1, AnswerIs DEF Infer
  <2>2. CASE engine' = [engine EXCEPT !.pc = "idle", !.answer = "failed"]
    BY <1>0, <2>2, AnswerIs DEF Infer
  <2>3. CASE engine.on # Cpu /\ engine' = [engine EXCEPT !.pc = "look", !.reads = "frame"]
    BY <1>0, <2>3, ReadsAgain DEF Infer
  <2> QED
    BY <2>1, <2>2, <2>3 DEF Infer
<1>2. ProvidersTypeOK'
  BY <1>1 DEF ProvidersTypeOK, EngineIs, Refused
<1>3. ChildFollowsTheTask'
  BY <1>0, <1>1, ProvidersAssumption DEF ChildFollowsTheTask, SessionIsLoaded, HandleFollowsTheChild, Looks, EngineIs, Refused, Providers
<1>4. SessionIsLoaded'
  BY <1>0, <1>1, ProvidersAssumption DEF ChildFollowsTheTask, SessionIsLoaded, HandleFollowsTheChild, Looks, EngineIs, Refused, Providers
<1>5. HandleFollowsTheChild'
  BY <1>0, <1>1, ProvidersAssumption DEF ChildFollowsTheTask, SessionIsLoaded, HandleFollowsTheChild, Looks, EngineIs, Refused, Providers
<1> QED
  BY <1>2, <1>3, <1>4, <1>5, ChildSteps

LEMMA EngineStepHolds == ProvidersInvariant /\ EngineStep => ProvidersInvariant'
BY LookAtWeightHolds, OpenWeightHolds, ReadWeightHolds, ProveWeightHolds, BuildSessionHolds, FallBackHolds, InferHolds DEF EngineStep

LEMMA EngineDiesHolds == ProvidersInvariant /\ EngineDies => ProvidersInvariant'
<1> SUFFICES ASSUME ProvidersInvariant, EngineDies PROVE ProvidersInvariant'
  OBVIOUS
<1> USE DEF ProvidersInvariant, JobIsServed, TaskStays, EngineDies
<1>1. EngineIs("off", engine.on, engine.loaded, engine.reads, engine.life, engine.seen, engine.bytes, engine.answer)
  BY PcIs DEF ProvidersTypeOK
<1>2. ProvidersTypeOK'
  BY <1>1 DEF ProvidersTypeOK, EngineIs
<1>3. ChildFollowsTheTask' /\ SessionIsLoaded' /\ HandleFollowsTheChild'
  BY <1>1 DEF ChildFollowsTheTask, SessionIsLoaded, HandleFollowsTheChild, EngineIs
<1> QED
  BY <1>2, <1>3, ChildSteps

\* What the files do to a job is in the child's reads alone.
LEMMA FilesStep ==
  ASSUME ProvidersInvariant, UNCHANGED <<picked, task, posted, handle, prepared, engine>>, ProvidersTypeOK'
  PROVE  ProvidersInvariant'
BY DEF ProvidersInvariant, JobIsServed, SignalsFollowTheTask, ChildFollowsTheTask, SessionIsLoaded, HandleFollowsTheChild,
   PickFollowsTheSignals, SettingFollows, NoJobRuns

Spent == [files: 0..MaxWeightFiles, tampers: 0..MaxTampers, tasks: 0..MaxTasks, picks: 0..MaxPicks]
WeightFiles == [kind: {"file", "other"}, bytes: WeightBytes]

\* A new file at a weight's name.
LEMMA WeightIsPut ==
  ASSUME ProvidersTypeOK, NEW n \in Nets, NEW w \in WeightFiles, spent.files < MaxWeightFiles,
         weightFile' = [weightFile EXCEPT ![spent.files + 1] = w],
         weightAt' = [weightAt EXCEPT ![n] = spent.files + 1],
         spent' \in Spent, spent'.files = spent.files + 1
  PROVE  weightAt' \in [Nets -> 0..spent'.files] /\ weightFile' \in [1..MaxWeightFiles -> WeightFiles]
<1>1. spent.files \in Nat /\ weightAt \in [Nets -> 0..spent.files] /\ weightFile \in [1..MaxWeightFiles -> WeightFiles]
  BY ProvidersAssumption DEF ProvidersTypeOK, WeightFiles
<1>2. weightFile' \in [1..MaxWeightFiles -> WeightFiles]
  BY <1>1
<1>3. \A m \in Nets : weightAt'[m] \in 0..spent'.files
  BY <1>1
<1> QED
  BY <1>1, <1>2, <1>3

LEMMA FilesAreSpent ==
  ASSUME spent \in Spent, spent.files < MaxWeightFiles
  PROVE  LET s == [spent EXCEPT !.files = @ + 1] IN s \in Spent /\ s.files = spent.files + 1 /\ s.tampers = spent.tampers
BY ProvidersAssumption DEF Spent

LEMMA TampersAreSpent ==
  ASSUME spent \in Spent, spent.tampers < MaxTampers
  PROVE  LET s == [spent EXCEPT !.tampers = @ + 1] IN s \in Spent /\ s.files = spent.files /\ s.tampers = spent.tampers + 1
BY ProvidersAssumption DEF Spent

LEMMA BothAreSpent ==
  ASSUME spent \in Spent, spent.tampers < MaxTampers, spent.files < MaxWeightFiles
  PROVE  LET s == [spent EXCEPT !.files = @ + 1, !.tampers = @ + 1] IN s \in Spent /\ s.files = spent.files + 1
<1> DEFINE filed == [spent EXCEPT !.files = @ + 1]
<1>1. filed \in Spent /\ filed.files = spent.files + 1 /\ filed.tampers = spent.tampers
  BY FilesAreSpent
<1>2. [spent EXCEPT !.files = @ + 1, !.tampers = @ + 1] = [filed EXCEPT !.tampers = @ + 1]
  BY Zenon
<1> HIDE DEF filed
<1>3. LET s == [filed EXCEPT !.tampers = @ + 1] IN s \in Spent /\ s.files = filed.files
  BY <1>1, ProvidersAssumption DEF Spent
<1> QED
  BY <1>1, <1>2, <1>3

LEMMA TamperHolds == ProvidersInvariant /\ Tamper => ProvidersInvariant'
<1> SUFFICES ASSUME ProvidersInvariant, Tamper PROVE ProvidersInvariant'
  OBVIOUS
<1>0. ProvidersTypeOK /\ spent \in Spent /\ spent.tampers < MaxTampers
      /\ UNCHANGED <<offered, picked, task, posted, handle, prepared, engine>>
  BY DEF ProvidersInvariant, Tamper, TaskStays, Spent, ProvidersTypeOK
<1>1. spent' \in Spent /\ weightAt' \in [Nets -> 0..spent'.files] /\ weightFile' \in [1..MaxWeightFiles -> WeightFiles]
  <2>1. PICK n \in Nets :
          \/ /\ spent.files < MaxWeightFiles
             /\ \E bytes \in WeightBytes, kind \in {"file", "other"} :
                   weightFile' = [weightFile EXCEPT ![spent.files + 1] = [kind |-> kind, bytes |-> bytes]]
             /\ weightAt' = [weightAt EXCEPT ![n] = spent.files + 1]
             /\ spent' = [spent EXCEPT !.files = @ + 1, !.tampers = @ + 1]
          \/ /\ weightAt[n] # 0
             /\ \/ weightAt' = [weightAt EXCEPT ![n] = 0] /\ UNCHANGED weightFile
                \/ /\ \E bytes \in WeightBytes : weightFile' = [weightFile EXCEPT ![weightAt[n]].bytes = bytes]
                   /\ UNCHANGED weightAt
             /\ spent' = [spent EXCEPT !.tampers = @ + 1]
    BY DEF Tamper
  <2>2. CASE /\ spent.files < MaxWeightFiles
             /\ \E bytes \in WeightBytes, kind \in {"file", "other"} :
                   weightFile' = [weightFile EXCEPT ![spent.files + 1] = [kind |-> kind, bytes |-> bytes]]
             /\ weightAt' = [weightAt EXCEPT ![n] = spent.files + 1]
             /\ spent' = [spent EXCEPT !.files = @ + 1, !.tampers = @ + 1]
    <3>1. PICK bytes \in WeightBytes, kind \in {"file", "other"} :
            weightFile' = [weightFile EXCEPT ![spent.files + 1] = [kind |-> kind, bytes |-> bytes]]
      BY <2>2
    <3>2. [kind |-> kind, bytes |-> bytes] \in WeightFiles
      BY DEF WeightFiles
    <3>3. spent' \in Spent /\ spent'.files = spent.files + 1
      BY <1>0, <2>2, BothAreSpent
    <3> QED
      BY <1>0, <2>2, <3>1, <3>2, <3>3, WeightIsPut
  <2>3. CASE /\ \/ weightAt' = [weightAt EXCEPT ![n] = 0] /\ UNCHANGED weightFile
                \/ /\ \E bytes \in WeightBytes : weightFile' = [weightFile EXCEPT ![weightAt[n]].bytes = bytes]
                   /\ UNCHANGED weightAt
             /\ spent' = [spent EXCEPT !.tampers = @ + 1]
    <3>1. spent' \in Spent /\ spent'.files = spent.files
      BY <1>0, <2>3, TampersAreSpent
    <3>2. spent.files \in Nat /\ weightAt \in [Nets -> 0..spent.files] /\ weightFile \in [1..MaxWeightFiles -> WeightFiles]
      BY <1>0, ProvidersAssumption DEF ProvidersTypeOK, WeightFiles
    <3>3. ASSUME weightAt' = [weightAt EXCEPT ![n] = 0] PROVE weightAt' \in [Nets -> 0..spent'.files]
      BY <3>1, <3>2, <3>3
    <3>4. ASSUME NEW bytes \in WeightBytes, weightFile' = [weightFile EXCEPT ![weightAt[n]].bytes = bytes]
          PROVE  weightFile' \in [1..MaxWeightFiles -> WeightFiles]
      <4> DEFINE w == [weightFile[weightAt[n]] EXCEPT !.bytes = bytes]
      <4>1. ASSUME weightAt[n] \in 1..MaxWeightFiles PROVE w \in WeightFiles
        BY <3>2, <4>1 DEF WeightFiles
      <4>2. weightFile' = [weightFile EXCEPT ![weightAt[n]] = w]
        BY <3>4
      <4> HIDE DEF w
      <4> QED
        BY <3>2, <4>1, <4>2
    <3> QED
      BY <2>3, <3>1, <3>2, <3>3, <3>4
  <2> QED
    BY <2>1, <2>2, <2>3
<1>2. ProvidersTypeOK'
  BY <1>0, <1>1 DEF ProvidersTypeOK, Spent, WeightFiles
<1> QED
  BY <1>0, <1>2, FilesStep

---------------------------------------------------------------------------
(* The job and its signals *)

LEMMA TaskMoves ==
  ASSUME task \in Tasks, NEW pc \in {"none", "asks", "prepares", "launches", "starts", "prepared", "segments", "awaits", "rebuilds", "over"},
         TaskTo(pc)
  PROVE  task' \in Tasks /\ task'.pc = pc /\ task'.kind = task.kind /\ task'.net = task.net /\ task'.provider = task.provider
BY DEF Tasks, TaskTo

LEMMA SignalIsPosted ==
  ASSUME posted \in Seq(Signals), NEW s \in Signals, Post(s)
  PROVE  /\ posted' \in Seq(Signals) /\ Len(posted') = Len(posted) + 1 /\ posted'[Len(posted) + 1] = s
         /\ \A i \in 1..Len(posted) : posted'[i] = posted[i]
BY DEF Post

LEMMA OverIs ==
  ASSUME task \in Tasks, posted \in Seq(Signals), Over
  PROVE  /\ task' \in Tasks /\ task'.pc = "over" /\ task'.kind = task.kind /\ task'.net = task.net /\ task'.provider = task.provider
         /\ posted' \in Seq(Signals) /\ Len(posted') = Len(posted) + 1 /\ posted'[Len(posted) + 1].is = "over"
         /\ \A i \in 1..Len(posted) : posted'[i] = posted[i]
<1>1. [is |-> "over", provider |-> NoProvider] \in Signals
  BY DEF Signals
<1> QED
  BY <1>1, TaskMoves, SignalIsPosted DEF Over

\* A step of the worker that leaves the child, the handle and the files alone.
LEMMA JobMoves ==
  ASSUME ProvidersInvariant, task' \in Tasks, posted' \in Seq(Signals), SignalsFollowTheTask',
         UNCHANGED <<offered, picked, spent, handle, prepared, engine, weightAt, weightFile>>,
         task'.pc # "starts" /\ task.pc # "starts",
         task'.pc \in {"prepared", "segments", "awaits"} =>
            handle.is = "live" /\ handle.net = task'.net /\ handle.asked = task'.provider,
         task'.pc \in {"segments", "awaits"} => prepared = handle,
         (task.pc \in {"none", "asks"}) = (task'.pc \in {"none", "asks"})
  PROVE  ProvidersInvariant'
<1>1. ProvidersTypeOK'
  BY DEF ProvidersInvariant, ProvidersTypeOK
<1>2. ChildFollowsTheTask' /\ SessionIsLoaded' /\ HandleFollowsTheChild'
  BY DEF ProvidersInvariant, JobIsServed, ChildFollowsTheTask, SessionIsLoaded, HandleFollowsTheChild
<1>3. PickFollowsTheSignals'
  BY DEF ProvidersInvariant, JobIsServed, PickFollowsTheSignals, SettingFollows, NoJobRuns
<1> QED
  BY <1>1, <1>2, <1>3 DEF ProvidersInvariant, JobIsServed

\* A job is over: what it reported stays to be delivered.
LEMMA OverSignals ==
  ASSUME ProvidersInvariant, Over, task.pc # "over"
  PROVE  SignalsFollowTheTask'
<1>1. task \in Tasks /\ posted \in Seq(Signals) /\ SignalsFollowTheTask
  BY DEF ProvidersInvariant, JobIsServed, ProvidersTypeOK
<1>2. Len(posted) \in Nat
  BY <1>1
<1> QED
  BY <1>1, <1>2, OverIs DEF SignalsFollowTheTask

LEMMA ReuseHolds == ProvidersInvariant /\ Reuse => ProvidersInvariant'
<1> SUFFICES ASSUME ProvidersInvariant, Reuse PROVE ProvidersInvariant'
  OBVIOUS
<1>1. task \in Tasks /\ posted \in Seq(Signals) /\ SignalsFollowTheTask /\ task.pc = "prepares" /\ Reuses
      /\ UNCHANGED <<offered, picked, posted, spent, handle, prepared, engine, weightAt, weightFile>>
  BY DEF ProvidersInvariant, JobIsServed, ProvidersTypeOK, Reuse, TaskAt, WorkerOnly, ChildStays
<1>2. task' \in Tasks /\ task'.pc = "prepared" /\ task'.net = task.net /\ task'.provider = task.provider
  BY <1>1, TaskMoves DEF Reuse
<1>3. SignalsFollowTheTask'
  BY <1>1, <1>2 DEF SignalsFollowTheTask
<1> QED
  BY <1>1, <1>2, <1>3, JobMoves DEF Reuses

LEMMA DownloadHolds == ProvidersInvariant /\ Download => ProvidersInvariant'
<1> SUFFICES ASSUME ProvidersInvariant, Download PROVE ProvidersInvariant'
  OBVIOUS
<1>1. ProvidersTypeOK /\ task \in Tasks /\ posted \in Seq(Signals) /\ spent \in Spent /\ SignalsFollowTheTask /\ task.pc = "prepares"
      /\ UNCHANGED <<offered, picked, handle, prepared, engine>>
  BY DEF ProvidersInvariant, JobIsServed, ProvidersTypeOK, Download, TaskAt, Spent
<1>2. /\ task' \in Tasks /\ task'.pc \in {"launches", "over"} /\ posted' \in Seq(Signals)
      /\ SignalsFollowTheTask'
  <2>1. CASE TaskTo("launches") /\ UNCHANGED posted
    BY <1>1, <2>1, TaskMoves DEF SignalsFollowTheTask
  <2>2. CASE Over
    BY <1>1, <2>2, OverIs, OverSignals
  <2> QED
    BY <2>1, <2>2 DEF Download
<1>3. spent' \in Spent /\ weightAt' \in [Nets -> 0..spent'.files] /\ weightFile' \in [1..MaxWeightFiles -> WeightFiles]
  <2>1. CASE UNCHANGED <<weightAt, weightFile, spent>>
    BY <1>1, <2>1 DEF ProvidersTypeOK, WeightFiles
  <2>2. CASE /\ spent.files < MaxWeightFiles
             /\ weightFile' = [weightFile EXCEPT ![spent.files + 1] = ProvenFile]
             /\ weightAt' = [weightAt EXCEPT ![task.net] = spent.files + 1]
             /\ spent' = [spent EXCEPT !.files = @ + 1]
    <3>1. ProvenFile \in WeightFiles /\ task.net \in Nets
      BY <1>1 DEF ProvenFile, WeightFiles, WeightBytes, Tasks
    <3>2. spent' \in Spent /\ spent'.files = spent.files + 1
      BY <1>1, <2>2, FilesAreSpent
    <3> QED
      BY <1>1, <2>2, <3>1, <3>2, WeightIsPut
  <2> QED
    BY <2>1, <2>2 DEF Download
<1>4. ProvidersTypeOK'
  BY <1>1, <1>2, <1>3 DEF ProvidersTypeOK, Spent, WeightFiles
<1>5. ChildFollowsTheTask' /\ SessionIsLoaded' /\ HandleFollowsTheChild'
  BY <1>1, <1>2 DEF ProvidersInvariant, JobIsServed, ChildFollowsTheTask, SessionIsLoaded, HandleFollowsTheChild
<1>6. PickFollowsTheSignals'
  BY <1>1, <1>2 DEF ProvidersInvariant, JobIsServed, PickFollowsTheSignals, SettingFollows, NoJobRuns
<1> QED
  BY <1>2, <1>4, <1>5, <1>6 DEF ProvidersInvariant, JobIsServed

LEMMA LaunchHolds == ProvidersInvariant /\ Launch => ProvidersInvariant'
<1> SUFFICES ASSUME ProvidersInvariant, Launch PROVE ProvidersInvariant'
  OBVIOUS
<1>1. ProvidersTypeOK /\ task \in Tasks /\ SignalsFollowTheTask /\ task.pc = "launches" /\ task.net \in Nets /\ task.provider \in Providers
      /\ UNCHANGED <<offered, picked, posted, spent, handle, prepared, weightAt, weightFile>>
  BY DEF ProvidersInvariant, JobIsServed, ProvidersTypeOK, Launch, TaskAt, WorkerOnly, Tasks
<1>2. task' \in Tasks /\ task'.pc = "starts" /\ task'.net = task.net /\ task'.provider = task.provider
  BY <1>1, TaskMoves DEF Launch
<1>3. /\ engine' \in Children /\ engine'.pc = "look" /\ engine'.net = task.net /\ engine'.asked = task.provider
      /\ engine'.on = NoProvider /\ engine'.reads = "launch" /\ engine'.life = "asked"
  BY <1>1, ProvidersAssumption DEF Launch, Launched, Children, Looks, WeightBytes
<1>4. ProvidersTypeOK'
  BY <1>1, <1>2, <1>3 DEF ProvidersTypeOK
<1>5. SignalsFollowTheTask' /\ ChildFollowsTheTask' /\ SessionIsLoaded' /\ HandleFollowsTheChild'
  BY <1>1, <1>2, <1>3 DEF SignalsFollowTheTask, ChildFollowsTheTask, SessionIsLoaded, HandleFollowsTheChild, Looks
<1>6. PickFollowsTheSignals'
  BY <1>1, <1>2 DEF ProvidersInvariant, JobIsServed, PickFollowsTheSignals, SettingFollows, NoJobRuns
<1> QED
  BY <1>4, <1>5, <1>6 DEF ProvidersInvariant, JobIsServed

LEMMA ChildIsReadyHolds == ProvidersInvariant /\ ChildIsReady => ProvidersInvariant'
<1> SUFFICES ASSUME ProvidersInvariant, ChildIsReady PROVE ProvidersInvariant'
  OBVIOUS
<1> USE DEF ProvidersInvariant, JobIsServed
<1>1. /\ task \in Tasks /\ engine \in Children /\ task.pc = "starts" /\ engine.pc = "ready"
      /\ task.net \in Nets /\ task.provider \in Providers /\ engine.on \in Providers
      /\ engine.net = task.net /\ engine.asked = task.provider
      /\ UNCHANGED <<offered, picked, posted, spent, prepared, weightAt, weightFile>>
  BY DEF ProvidersTypeOK, ChildIsReady, TaskAt, WorkerOnly, Tasks, Children, ChildFollowsTheTask
<1>2. task' \in Tasks /\ task'.pc = "prepared" /\ task'.net = task.net /\ task'.provider = task.provider
  BY <1>1, TaskMoves DEF ChildIsReady
<1>3. EngineIs("idle", engine.on, engine.loaded, engine.reads, engine.life, engine.seen, engine.bytes, engine.answer)
  BY <1>1, PcIs DEF ChildIsReady
<1>4. handle' \in Handles /\ handle'.is = "live" /\ handle'.net = task.net /\ handle'.asked = task.provider /\ handle'.reported = engine.on
  BY <1>1 DEF ChildIsReady, Handles
<1>5. ProvidersTypeOK'
  BY <1>1, <1>2, <1>3, <1>4 DEF ProvidersTypeOK, EngineIs
<1>6. SignalsFollowTheTask'
  BY <1>1, <1>2 DEF SignalsFollowTheTask
<1>7. ChildFollowsTheTask' /\ SessionIsLoaded' /\ HandleFollowsTheChild'
  BY <1>1, <1>2, <1>3, <1>4, ProvidersAssumption DEF ChildFollowsTheTask, SessionIsLoaded, HandleFollowsTheChild, EngineIs, Looks, Providers
<1>8. PickFollowsTheSignals'
  BY <1>1, <1>2 DEF PickFollowsTheSignals, SettingFollows, NoJobRuns
<1> QED
  BY <1>5, <1>6, <1>7, <1>8

LEMMA LaunchFailsHolds == ProvidersInvariant /\ LaunchFails => ProvidersInvariant'
<1> SUFFICES ASSUME ProvidersInvariant, LaunchFails PROVE ProvidersInvariant'
  OBVIOUS
<1>1. ProvidersTypeOK /\ task \in Tasks /\ posted \in Seq(Signals) /\ engine \in Children /\ task.pc = "starts" /\ Over
      /\ handle' = NoHandle /\ engine' = [engine EXCEPT !.pc = "off"]
      /\ UNCHANGED <<offered, picked, spent, prepared, weightAt, weightFile>>
  BY DEF ProvidersInvariant, ProvidersTypeOK, LaunchFails, TaskAt, WorkerOnly
<1>2. task' \in Tasks /\ task'.pc = "over" /\ posted' \in Seq(Signals) /\ SignalsFollowTheTask'
  BY <1>1, OverIs, OverSignals
<1>3. EngineIs("off", engine.on, engine.loaded, engine.reads, engine.life, engine.seen, engine.bytes, engine.answer)
  BY <1>1, PcIs
<1>4. handle' \in Handles /\ handle'.is = "none"
  BY <1>1, ProvidersAssumption DEF NoHandle, Handles, Providers
<1>5. ProvidersTypeOK'
  BY <1>1, <1>2, <1>3, <1>4 DEF ProvidersTypeOK, EngineIs
<1>6. ChildFollowsTheTask' /\ SessionIsLoaded' /\ HandleFollowsTheChild'
  BY <1>1, <1>2, <1>3, <1>4 DEF ProvidersInvariant, JobIsServed, ChildFollowsTheTask, SessionIsLoaded, HandleFollowsTheChild, EngineIs
<1>7. PickFollowsTheSignals'
  BY <1>1, <1>2 DEF ProvidersInvariant, JobIsServed, PickFollowsTheSignals, SettingFollows, NoJobRuns
<1> QED
  BY <1>2, <1>5, <1>6, <1>7 DEF ProvidersInvariant, JobIsServed

LEMMA PreparedHolds == ProvidersInvariant /\ Prepared => ProvidersInvariant'
<1> SUFFICES ASSUME ProvidersInvariant, Prepared PROVE ProvidersInvariant'
  OBVIOUS
<1> USE DEF ProvidersInvariant, JobIsServed
<1>1. /\ task \in Tasks /\ posted \in Seq(Signals) /\ task.pc = "prepared" /\ handle \in Handles /\ handle.reported \in Providers
      /\ prepared' = handle /\ UNCHANGED <<offered, picked, spent, handle, engine, weightAt, weightFile>>
  BY DEF ProvidersTypeOK, Prepared, TaskAt, WorkerOnly, Handles
<1>2. task' \in Tasks /\ task'.pc = "segments" /\ task'.net = task.net /\ task'.provider = task.provider
  BY <1>1, TaskMoves DEF Prepared
<1> DEFINE signal == [is |-> "provider", provider |-> handle.reported]
<1>3. signal \in Signals /\ signal.is = "provider" /\ signal.provider \in Providers
  BY <1>1 DEF Signals
<1>4. Post(signal) /\ posted = <<>>
  BY <1>1 DEF Prepared, SignalsFollowTheTask
<1> HIDE DEF signal
<1>5. posted' \in Seq(Signals) /\ Len(posted') = 1 /\ posted'[1] = signal
  BY <1>1, <1>3, <1>4, SignalIsPosted
<1>6. ProvidersTypeOK'
  BY <1>1, <1>2, <1>5 DEF ProvidersTypeOK
<1>7. SignalsFollowTheTask'
  BY <1>2, <1>3, <1>5 DEF SignalsFollowTheTask
<1>8. ChildFollowsTheTask' /\ SessionIsLoaded' /\ HandleFollowsTheChild'
  BY <1>1, <1>2 DEF ChildFollowsTheTask, SessionIsLoaded, HandleFollowsTheChild
<1>9. PickFollowsTheSignals'
  BY <1>1, <1>2 DEF PickFollowsTheSignals, SettingFollows, NoJobRuns
<1> QED
  BY <1>6, <1>7, <1>8, <1>9

\* A frame's exchange: only the child's step changes, and the job's.
LEMMA FrameMoves ==
  ASSUME ProvidersInvariant, NEW pc \in {"idle", "infers", "off"}, NEW said \in {"none", "frame", "failed"},
         engine.pc \in {"idle", "infers"} \/ pc = "off",
         EngineIs(pc, engine.on, engine.loaded, engine.reads, engine.life, engine.seen, engine.bytes, said),
         UNCHANGED <<offered, picked, spent, handle, prepared, weightAt, weightFile>>,
         task.pc \in {"segments", "awaits"}, task' \in Tasks, task'.pc \in {"segments", "awaits", "over"},
         task'.net = task.net, task'.provider = task.provider,
         posted' \in Seq(Signals), SignalsFollowTheTask'
  PROVE  ProvidersInvariant'
<1> USE DEF ProvidersInvariant, JobIsServed
<1>1. ProvidersTypeOK'
  BY DEF ProvidersTypeOK, EngineIs
<1>2. ChildFollowsTheTask' /\ SessionIsLoaded' /\ HandleFollowsTheChild'
  BY DEF ChildFollowsTheTask, SessionIsLoaded, HandleFollowsTheChild, EngineIs, Looks
<1>3. PickFollowsTheSignals'
  BY DEF PickFollowsTheSignals, SettingFollows, NoJobRuns
<1> QED
  BY <1>1, <1>2, <1>3

LEMMA SendFrameHolds == ProvidersInvariant /\ SendFrame => ProvidersInvariant'
<1> SUFFICES ASSUME ProvidersInvariant, SendFrame PROVE ProvidersInvariant'
  OBVIOUS
<1>1. task \in Tasks /\ engine \in Children /\ posted \in Seq(Signals) /\ SignalsFollowTheTask /\ task.pc = "segments" /\ engine.pc = "idle"
      /\ UNCHANGED <<offered, picked, posted, spent, handle, prepared, weightAt, weightFile>>
  BY DEF ProvidersInvariant, JobIsServed, ProvidersTypeOK, SendFrame, TaskAt, WorkerOnly
<1>2. task' \in Tasks /\ task'.pc = "awaits" /\ task'.net = task.net /\ task'.provider = task.provider
  BY <1>1, TaskMoves DEF SendFrame
<1>3. EngineIs("infers", engine.on, engine.loaded, engine.reads, engine.life, engine.seen, engine.bytes, "none")
  BY <1>1, AnswerIs DEF SendFrame
<1>4. SignalsFollowTheTask'
  BY <1>1, <1>2 DEF SignalsFollowTheTask
<1> QED
  BY <1>1, <1>2, <1>3, <1>4, FrameMoves

LEMMA TakeFrameHolds == ProvidersInvariant /\ TakeFrame => ProvidersInvariant'
<1> SUFFICES ASSUME ProvidersInvariant, TakeFrame PROVE ProvidersInvariant'
  OBVIOUS
<1>1. task \in Tasks /\ posted \in Seq(Signals) /\ SignalsFollowTheTask /\ HandleFollowsTheChild /\ task.pc = "awaits"
      /\ UNCHANGED <<offered, picked, posted, spent, handle, prepared, engine, weightAt, weightFile>>
  BY DEF ProvidersInvariant, JobIsServed, ProvidersTypeOK, TakeFrame, TaskAt, WorkerOnly, ChildStays
<1>2. task' \in Tasks /\ task'.pc = "segments" /\ task'.net = task.net /\ task'.provider = task.provider
  BY <1>1, TaskMoves DEF TakeFrame
<1>3. SignalsFollowTheTask'
  BY <1>1, <1>2 DEF SignalsFollowTheTask
<1> QED
  BY <1>1, <1>2, <1>3, JobMoves DEF HandleFollowsTheChild

LEMMA FrameFailsHolds == ProvidersInvariant /\ FrameFails => ProvidersInvariant'
<1> SUFFICES ASSUME ProvidersInvariant, FrameFails PROVE ProvidersInvariant'
  OBVIOUS
<1>1. task \in Tasks /\ engine \in Children /\ posted \in Seq(Signals) /\ task.pc = "awaits" /\ Over
      /\ UNCHANGED <<offered, picked, spent, handle, prepared, weightAt, weightFile>>
  BY DEF ProvidersInvariant, ProvidersTypeOK, FrameFails, TaskAt, WorkerOnly
<1>2. task' \in Tasks /\ task'.pc = "over" /\ task'.net = task.net /\ task'.provider = task.provider
      /\ posted' \in Seq(Signals) /\ SignalsFollowTheTask'
  BY <1>1, OverIs, OverSignals
<1>3. CASE UNCHANGED engine
  BY <1>1, <1>2, <1>3, JobMoves
<1>4. CASE engine' = [engine EXCEPT !.pc = "off"]
  <2>1. EngineIs("off", engine.on, engine.loaded, engine.reads, engine.life, engine.seen, engine.bytes, engine.answer)
    BY <1>1, <1>4, PcIs
  <2>2. engine.answer \in {"none", "frame", "failed"}
    BY <1>1 DEF Children
  <2> QED
    BY <1>1, <1>2, <2>1, <2>2, FrameMoves
<1> QED
  BY <1>3, <1>4 DEF FrameFails

LEMMA SegmentsAreDoneHolds == ProvidersInvariant /\ SegmentsAreDone => ProvidersInvariant'
<1> SUFFICES ASSUME ProvidersInvariant, SegmentsAreDone PROVE ProvidersInvariant'
  OBVIOUS
<1>1. task \in Tasks /\ posted \in Seq(Signals) /\ task.pc = "segments" /\ Over
      /\ UNCHANGED <<offered, picked, spent, handle, prepared, engine, weightAt, weightFile>>
  BY DEF ProvidersInvariant, ProvidersTypeOK, SegmentsAreDone, TaskAt, WorkerOnly, ChildStays
<1> QED
  BY <1>1, OverIs, OverSignals, JobMoves

LEMMA RebuildHolds == ProvidersInvariant /\ Rebuild => ProvidersInvariant'
<1> SUFFICES ASSUME ProvidersInvariant, Rebuild PROVE ProvidersInvariant'
  OBVIOUS
<1>1. task \in Tasks /\ posted \in Seq(Signals) /\ SignalsFollowTheTask /\ task.pc = "rebuilds" /\ prepared.reported \in Providers
      /\ UNCHANGED <<offered, picked, spent, handle, prepared, engine, weightAt, weightFile>>
  BY DEF ProvidersInvariant, JobIsServed, ProvidersTypeOK, Rebuild, TaskAt, WorkerOnly, ChildStays, Handles
<1>2. CASE Over
  BY <1>1, <1>2, OverIs, OverSignals, JobMoves
<1>3. CASE TaskTo("over") /\ posted' = posted \o <<[is |-> "provider", provider |-> prepared.reported], [is |-> "over", provider |-> NoProvider]>>
  <2>1. task' \in Tasks /\ task'.pc = "over"
    BY <1>1, <1>3, TaskMoves
  <2> DEFINE signal == [is |-> "provider", provider |-> prepared.reported]
             last == [is |-> "over", provider |-> NoProvider]
  <2>2. signal \in Signals /\ last \in Signals /\ signal.is = "provider" /\ signal.provider \in Providers /\ last.is = "over"
    BY <1>1 DEF Signals
  <2>3. posted' = <<>> \o <<signal, last>>
    BY <1>1, <1>3 DEF SignalsFollowTheTask
  <2> HIDE DEF signal, last
  <2>4. <<signal, last>> \in Seq(Signals)
    BY <2>2
  <2>5. posted' = <<signal, last>>
    BY <2>3, <2>4, ConcatEmptySeq
  <2>6. posted' \in Seq(Signals) /\ Len(posted') = 2 /\ posted'[1] = signal /\ posted'[2] = last
    BY <2>2, <2>5
  <2>7. SignalsFollowTheTask'
    BY <2>1, <2>2, <2>6 DEF SignalsFollowTheTask
  <2> QED
    BY <1>1, <2>1, <2>6, <2>7, JobMoves
<1> QED
  BY <1>2, <1>3 DEF Rebuild

LEMMA JobStepHolds == ProvidersInvariant /\ JobStep => ProvidersInvariant'
BY ReuseHolds, DownloadHolds, LaunchHolds, ChildIsReadyHolds, LaunchFailsHolds, PreparedHolds, SendFrameHolds, TakeFrameHolds,
   FrameFailsHolds, SegmentsAreDoneHolds, RebuildHolds DEF JobStep

---------------------------------------------------------------------------
(* The settings *)

\* What a step of the GUI thread leaves alone.
LEMMA GuiMoves ==
  ASSUME ProvidersInvariant, GuiOnly, picked' \in Picks, task' \in Tasks, posted' \in Seq(Signals), spent' \in Spent,
         spent'.files = spent.files, SignalsFollowTheTask', PickFollowsTheSignals',
         task' = task \/ (task'.pc \notin {"starts", "prepared", "segments", "awaits"} /\ task.pc # "starts")
  PROVE  ProvidersInvariant'
<1> USE DEF ProvidersInvariant, JobIsServed
<1>1. ProvidersTypeOK'
  BY DEF ProvidersTypeOK, GuiOnly, Spent
<1>2. ChildFollowsTheTask' /\ SessionIsLoaded' /\ HandleFollowsTheChild'
  BY DEF ChildFollowsTheTask, SessionIsLoaded, HandleFollowsTheChild, GuiOnly
<1> QED
  BY <1>1, <1>2

LEMMA ArmedIs ==
  ASSUME NEW p \in Picks
  PROVE  /\ Armed(p) \in Picks /\ Armed(p).selected = p.selected /\ Armed(p).pending = p.pending /\ Armed(p).said = p.said
         /\ p.pending # NoProvider => Armed(p).timer = "set"
BY DEF Armed, Picks

LEMMA PickProviderHolds == ProvidersInvariant /\ PickProvider => ProvidersInvariant'
<1> SUFFICES ASSUME ProvidersInvariant, PickProvider PROVE ProvidersInvariant'
  OBVIOUS
<1>1. /\ picked \in Picks /\ task \in Tasks /\ posted \in Seq(Signals) /\ spent \in Spent /\ offered \subseteq Providers
      /\ SignalsFollowTheTask /\ PickFollowsTheSignals /\ GuiOnly /\ UNCHANGED <<task, posted>>
  BY DEF ProvidersInvariant, JobIsServed, ProvidersTypeOK, PickProvider, Spent
<1>2. PICK p \in Providers :
        picked' = Armed([picked EXCEPT !.selected = p, !.said = IF picked.pending = NoProvider THEN NoProvider ELSE @])
  BY <1>1 DEF PickProvider
<1> DEFINE next == [picked EXCEPT !.selected = p, !.said = IF picked.pending = NoProvider THEN NoProvider ELSE @]
<1>3. next \in Picks /\ next.pending = picked.pending /\ next.said = IF picked.pending = NoProvider THEN NoProvider ELSE picked.said
  BY <1>1 DEF Picks
<1>4. picked' = Armed(next)
  BY <1>2
<1> HIDE DEF next
<1>5. picked' \in Picks /\ picked'.pending = picked.pending
      /\ picked'.said = (IF picked.pending = NoProvider THEN NoProvider ELSE picked.said)
      /\ (picked.pending # NoProvider => picked'.timer = "set")
  BY <1>3, <1>4, ArmedIs
<1>6. spent' \in Spent /\ spent'.files = spent.files
  BY <1>1, ProvidersAssumption DEF PickProvider, Spent
<1>7. PickFollowsTheSignals'
  BY <1>1, <1>5 DEF PickFollowsTheSignals, SettingFollows
<1>8. SignalsFollowTheTask'
  BY <1>1 DEF SignalsFollowTheTask
<1> QED
  BY <1>1, <1>5, <1>6, <1>7, <1>8, GuiMoves

LEMMA ClickHolds == ProvidersInvariant /\ Click => ProvidersInvariant'
<1> SUFFICES ASSUME ProvidersInvariant, Click PROVE ProvidersInvariant'
  OBVIOUS
<1>1. /\ picked \in Picks /\ posted \in Seq(Signals) /\ spent \in Spent /\ task.pc = "none" /\ picked.selected \in Providers
      /\ SignalsFollowTheTask /\ PickFollowsTheSignals /\ GuiOnly /\ UNCHANGED <<picked, posted>>
  BY DEF ProvidersInvariant, JobIsServed, ProvidersTypeOK, Click, TaskAt, Spent, Picks
<1>2. task' \in Tasks /\ task'.pc = "asks"
  BY <1>1 DEF Click, Tasks
<1>3. spent' \in Spent /\ spent'.files = spent.files
  BY <1>1, ProvidersAssumption DEF Click, Spent
<1>4. SignalsFollowTheTask' /\ PickFollowsTheSignals'
  BY <1>1, <1>2 DEF SignalsFollowTheTask, PickFollowsTheSignals, SettingFollows, NoJobRuns
<1> QED
  BY <1>1, <1>2, <1>3, <1>4, GuiMoves

LEMMA AsksHolds == ProvidersInvariant /\ (Dismiss \/ Begin) => ProvidersInvariant'
<1> SUFFICES ASSUME ProvidersInvariant, Dismiss \/ Begin PROVE ProvidersInvariant'
  OBVIOUS
<1>1. /\ picked \in Picks /\ task \in Tasks /\ posted \in Seq(Signals) /\ spent \in Spent /\ task.pc = "asks"
      /\ SignalsFollowTheTask /\ PickFollowsTheSignals /\ GuiOnly /\ UNCHANGED <<picked, posted, spent>>
  BY DEF ProvidersInvariant, JobIsServed, ProvidersTypeOK, Dismiss, Begin, TaskAt, Spent
<1>2. PICK pc \in {"none", "rebuilds", "prepares"} : TaskTo(pc)
  BY DEF Dismiss, Begin
<1>3. task' \in Tasks /\ task'.pc \in {"none", "rebuilds", "prepares"}
  BY <1>1, <1>2, TaskMoves
<1>4. SignalsFollowTheTask' /\ PickFollowsTheSignals'
  BY <1>1, <1>3 DEF SignalsFollowTheTask, PickFollowsTheSignals, SettingFollows, NoJobRuns
<1> QED
  BY <1>1, <1>3, <1>4, GuiMoves

LEMMA DeliverSignalHolds == ProvidersInvariant /\ DeliverSignal => ProvidersInvariant'
<1> SUFFICES ASSUME ProvidersInvariant, DeliverSignal PROVE ProvidersInvariant'
  OBVIOUS
<1>1. /\ picked \in Picks /\ task \in Tasks /\ posted \in Seq(Signals) /\ spent \in Spent /\ posted # <<>> /\ posted' = Tail(posted)
      /\ SignalsFollowTheTask /\ PickFollowsTheSignals /\ GuiOnly /\ UNCHANGED spent
  BY DEF ProvidersInvariant, JobIsServed, ProvidersTypeOK, DeliverSignal, Spent
<1>2. /\ posted' \in Seq(Signals) /\ Len(posted') = Len(posted) - 1 /\ Len(posted) \in Nat \ {0} /\ Head(posted) = posted[1]
      /\ \A i \in 1..Len(posted') : posted'[i] = posted[i + 1]
  BY <1>1
<1>3. CASE Head(posted).is = "provider" /\ UNCHANGED task
           /\ picked' = [picked EXCEPT !.pending = Head(posted).provider, !.said = Head(posted).provider]
  <2>1. Head(posted).provider \in Providers /\ task.pc \in {"segments", "awaits", "over"}
    BY <1>1, <1>2, <1>3 DEF SignalsFollowTheTask
  <2>2. picked' \in Picks /\ picked'.pending = Head(posted).provider /\ picked'.said = Head(posted).provider
    BY <1>1, <1>3, <2>1 DEF Picks
  <2>3. SignalsFollowTheTask'
    BY <1>1, <1>2, <1>3, <2>1 DEF SignalsFollowTheTask
  <2>4. PickFollowsTheSignals'
    BY <1>3, <2>1, <2>2, ProvidersAssumption DEF PickFollowsTheSignals, SettingFollows, NoJobRuns, Providers
  <2> QED
    BY <1>1, <1>2, <1>3, <2>2, <2>3, <2>4, GuiMoves
<1>4. CASE Head(posted).is = "over" /\ TaskTo("none") /\ picked' = Armed(picked)
  <2>0. posted[1].is = "over" /\ 1 \in 1..Len(posted)
    BY <1>2, <1>4
  <2>1. task.pc = "over" /\ Len(posted) = 1
    BY <1>1, <2>0 DEF SignalsFollowTheTask
  <2>2. task' \in Tasks /\ task'.pc = "none"
    BY <1>1, <1>4, TaskMoves
  <2>3. /\ picked' \in Picks /\ picked'.selected = picked.selected /\ picked'.pending = picked.pending /\ picked'.said = picked.said
        /\ picked.pending # NoProvider => picked'.timer = "set"
    BY <1>1, <1>4, ArmedIs
  <2>4. SignalsFollowTheTask'
    <3>1. posted' = <<>>
      BY <1>2, <2>1
    <3> QED
      BY <2>2, <3>1 DEF SignalsFollowTheTask
  <2>5. PickFollowsTheSignals'
    BY <1>1, <2>3 DEF PickFollowsTheSignals, SettingFollows
  <2> QED
    BY <1>1, <1>2, <2>1, <2>2, <2>3, <2>4, <2>5, GuiMoves
<1> QED
  BY <1>3, <1>4 DEF DeliverSignal

LEMMA ReconcileHolds == ProvidersInvariant /\ Reconcile => ProvidersInvariant'
<1> SUFFICES ASSUME ProvidersInvariant, Reconcile PROVE ProvidersInvariant'
  OBVIOUS
<1>1. /\ picked \in Picks /\ task \in Tasks /\ posted \in Seq(Signals) /\ spent \in Spent
      /\ SignalsFollowTheTask /\ PickFollowsTheSignals /\ GuiOnly /\ UNCHANGED <<task, posted, spent>>
  BY DEF ProvidersInvariant, JobIsServed, ProvidersTypeOK, Reconcile, Spent
<1>2. SignalsFollowTheTask'
  BY <1>1 DEF SignalsFollowTheTask
<1>3. CASE (~NoJobRuns \/ picked.pending = NoProvider) /\ picked' = [picked EXCEPT !.timer = "off"]
  <2>1. picked' \in Picks /\ picked'.selected = picked.selected /\ picked'.pending = picked.pending /\ picked'.said = picked.said
    BY <1>1, <1>3 DEF Picks
  <2>2. PickFollowsTheSignals'
    BY <1>1, <1>3, <2>1 DEF PickFollowsTheSignals, SettingFollows, NoJobRuns
  <2> QED
    BY <1>1, <1>2, <2>1, <2>2, GuiMoves
<1>4. CASE /\ picked.pending # NoProvider
           /\ picked' = [picked EXCEPT !.timer = "off", !.pending = NoProvider, !.selected = picked.pending]
  <2>1. picked.pending \in Providers
    BY <1>1, <1>4 DEF Picks
  <2>2. picked' \in Picks /\ picked'.selected = picked.pending /\ picked'.pending = NoProvider /\ picked'.said = picked.said
    BY <1>1, <1>4, <2>1 DEF Picks
  <2>3. PickFollowsTheSignals'
    BY <1>1, <1>4, <2>2 DEF PickFollowsTheSignals, SettingFollows
  <2> QED
    BY <1>1, <1>2, <2>2, <2>3, GuiMoves
<1> QED
  BY <1>3, <1>4 DEF Reconcile

LEMMA ProvidersNextHolds == ProvidersInvariant /\ [ProvidersNext]_providerVars => ProvidersInvariant'
<1> SUFFICES ASSUME ProvidersInvariant, [ProvidersNext]_providerVars PROVE ProvidersInvariant'
  OBVIOUS
<1>1. CASE EngineStep \/ EngineDies \/ Tamper \/ JobStep
  BY <1>1, EngineStepHolds, EngineDiesHolds, TamperHolds, JobStepHolds
<1>2. CASE PickProvider \/ Click \/ Dismiss \/ Begin \/ DeliverSignal \/ Reconcile
  BY <1>2, PickProviderHolds, ClickHolds, AsksHolds, DeliverSignalHolds, ReconcileHolds
<1>3. CASE UNCHANGED providerVars
  <2>1. ProvidersTypeOK'
    BY <1>3 DEF ProvidersInvariant, ProvidersTypeOK, providerVars
  <2> QED
    BY <1>3, <2>1, FilesStep DEF providerVars
<1> QED
  BY <1>1, <1>2, <1>3 DEF ProvidersNext

\* A job's frames are computed by its model, from bytes that were proven, on its
\* provider or after a failure on the CPU; what is reported is what computes, and
\* it reaches the settings unless the user picks anew.
THEOREM WhatComputesIsWhatIsSaid == ProvidersSpec => []ProvidersCorrect
<1>1. ProvidersInvariant => ProvidersCorrect
  <2> SUFFICES ASSUME ProvidersInvariant
               PROVE  ProvidersCorrect
    OBVIOUS
  <2> USE DEF ProvidersInvariant, JobIsServed
  <2>1. ProvidersTypeOK /\ OnlyProvenIsLoaded /\ SettingFollows
    BY DEF OnlyProvenIsLoaded, SessionIsLoaded, PickFollowsTheSignals
  <2>2. FramesRunAsAsked /\ ReportIsOfTheSession
    BY DEF FramesRunAsAsked, ReportIsOfTheSession, SessionIsLoaded, HandleFollowsTheChild
  <2>3. FallbackIsForGood
    BY DEF FallbackIsForGood, SessionIsLoaded
  <2> QED
    BY <2>1, <2>2, <2>3 DEF ProvidersCorrect
<1>2. ProvidersSpec => []ProvidersInvariant
  BY ProvidersStart, ProvidersNextHolds, PTL DEF ProvidersSpec
<1> QED
  BY <1>1, <1>2, PTL
===========================================================================
