------------------------- MODULE SegmentationHost -------------------------
(***************************************************************************)
(* jobs/segmentation_host.py: the SegmentationClient the parent's threads  *)
(* share, the spawned child that serves it, and the pipe and shared-memory *)
(* slot between the two.                                                   *)
(*                                                                         *)
(* Threads that use the client at will: one per segment() call, one that   *)
(* cancels, one that starts or replaces the child, one that closes.  A     *)
(* locked region is one step unless another thread or the child can act    *)
(* inside it: cancel() and the start handshake hold their locks across     *)
(* steps, and a segment() that waits for the child holds only the          *)
(* operation.  Closing a pipe endpoint always works; stopping a process    *)
(* and unlinking a slot may fail.  Frames, options and sizes are the       *)
(* request's identity, and whether its frame needs the larger slot.        *)
(***************************************************************************)
EXTENDS Integers, FiniteSets, Sequences

CONSTANTS
    Requests,      \* segment() calls, each made at most once
    Jobs,          \* jobs whose frames the requests are
    JobOf,         \* [Requests -> Jobs]
    Large,         \* requests whose frame does not fit a small slot
    MaxChildren,   \* bound: processes ever spawned
    None

ASSUME HostConstants ==
    /\ JobOf \in [Requests -> Jobs]
    /\ Large \subseteq Requests
    /\ MaxChildren \in Nat
    /\ None \notin Requests \cup Jobs
                  \cup {"START", "CANCEL", "OUTPUT", "STALE", "FOREIGN"}
    /\ "START" \notin Requests

VARIABLES
    operation,     \* holder of _operation_lock
    wire,          \* holder of _wire_lock between steps
    lifecycle,     \* holder of _lifecycle_lock between steps
    process,       \* _process: the child it is a handle of, 0 for None
    connected,     \* _connection is not None
    spawned,       \* processes ever spawned
    alive,         \* processes that run
    slot, linked,  \* _slot, and the segments that exist; each is named for
                   \*    the request that had it created
    content,       \* whose output the slot holds
    host,          \* _active_job_id and _active_request_id, and their flags
    cancelling,    \* the request a cancel() has admitted, and has locked for
    sent,          \* its CancelRequest is on the wire
    accepted,      \* requests a cancel() returned True for
    call, answer,  \* where each segment() is, and the message it has received
    result,        \* how it ended
    child,         \* what the connected child does
    inferring,     \* and the request it does it for
    toChild, toParent  \* the two directions of the pipe

lockVars  == <<operation, wire, lifecycle>>
procVars  == <<process, connected, spawned, alive>>
slotVars  == <<slot, linked, content>>
callVars  == <<call, answer, result>>
cnclVars  == <<cancelling, sent, accepted>>
childVars == <<child, inferring, toChild, toParent>>
vars == <<lockVars, procVars, slotVars, host, callVars, cnclVars, childVars>>

Inactive == [active |-> None, request_sent |-> FALSE,
             cancel_requested |-> FALSE, cancel_wire_sent |-> FALSE]

Init ==
    /\ operation = None /\ wire = None /\ lifecycle = None
    /\ process = 0 /\ connected = FALSE /\ spawned = 0 /\ alive = {}
    /\ slot = None /\ linked = {} /\ content = None
    /\ host = Inactive
    /\ cancelling = None /\ sent = FALSE /\ accepted = {}
    /\ call = [r \in Requests |-> "READY"]
    /\ answer = [r \in Requests |-> None]
    /\ result = [r \in Requests |-> None]
    /\ child = "IDLE" /\ inferring = None /\ toChild = <<>> /\ toParent = <<>>

Running == process \in alive /\ connected

\* Bytes are readable, and so is the end of file of a child that has gone.
Readable == toParent # <<>> \/ process \notin alive

---------------------------------------------------------------------------
(* Discarding the process and the slot.  A part that cannot be released is *)
(* kept for the next attempt; the cleanup error is the caller's.           *)

\* Mutant: the handle of a process that would not stop is given up.
DiscardProcessForgets(stopped) ==
    /\ alive' = IF stopped THEN alive \ {process} ELSE alive
    /\ process' = 0
    /\ connected' = FALSE
    /\ toChild' = <<>> /\ toParent' = <<>>
    /\ UNCHANGED <<spawned, child, inferring>>

\* A closed pipe is no longer read.  A child asked to shut down that does not
\* is terminated, and killed, like one that was not asked.
DiscardProcess(stopped) ==
    /\ alive' = IF stopped THEN alive \ {process} ELSE alive
    /\ process' = IF process \in alive' THEN process ELSE 0
    /\ connected' = FALSE
    /\ toChild' = <<>> /\ toParent' = <<>>
    /\ UNCHANGED <<spawned, child, inferring>>

\* Mutant: the name is given up although the segment still exists.
DiscardSlotForgets(unlinked) ==
    /\ linked' = IF unlinked THEN linked \ {slot} ELSE linked
    /\ slot' = None
    /\ content' = None

DiscardSlot(unlinked) ==
    /\ linked' = IF unlinked THEN linked \ {slot} ELSE linked
    /\ slot' = IF slot \in linked' THEN slot ELSE None
    /\ content' = None

\* _discard_process_unlocked
Discard ==
    /\ \E stopped, unlinked \in BOOLEAN :
          DiscardProcess(stopped) /\ DiscardSlot(unlinked)
    /\ host' = Inactive

---------------------------------------------------------------------------
(* segment(image, request).                                                *)

GoTo(r, step) == call' = [call EXCEPT ![r] = step]

\* The call returns or raises; finally: the request is inactive and the
\* operation released.
EndCall(r, outcome) ==
    /\ GoTo(r, "DONE")
    /\ result' = [result EXCEPT ![r] = outcome]
    /\ operation' = None
    /\ host' = Inactive
    /\ UNCHANGED <<wire, lifecycle, answer>>

\* An error that invalidates the child: a crash, a timeout, a message that
\* should not be there.
Fail(r, outcome) == lifecycle = None /\ Discard /\ EndCall(r, outcome)

\* What is found on the pipe where nothing is expected: a left-over message,
\* or the end of file.
Unexpected == IF toParent # <<>> THEN "STALE" ELSE "ERROR"

SegmentBusy(r) ==
    /\ call[r] = "READY" /\ operation # None
    /\ GoTo(r, "DONE") /\ result' = [result EXCEPT ![r] = "BUSY"]
    /\ UNCHANGED <<lockVars, procVars, slotVars, host, answer, cnclVars,
                   childVars>>

\* _ensure_slot_unlocked: keep a slot that is large enough, else replace it,
\* which needs the old one to be gone.
FitsSlot(r) == slot # None /\ (r \in Large => slot \in Large)

ReplaceSlot(r) ==
    /\ linked' = (linked \ {slot}) \cup {r}
    /\ slot' = r

\* Validation, the slot, the pixels and the encoding of the request.
Prepare(r) ==
    /\ call[r] = "READY" /\ operation = None /\ lifecycle = None
    /\ Running /\ ~Readable
    /\ IF FitsSlot(r) THEN UNCHANGED <<slot, linked>> ELSE ReplaceSlot(r)
    /\ content' = None
    /\ operation' = r
    /\ GoTo(r, "PREPARED")
    /\ UNCHANGED <<wire, lifecycle, procVars, host, answer, result, cnclVars,
                   childVars>>

\* No live child ("explicit retry required"), a stale message, or a slot that
\* cannot be allocated or written.
PrepareFails(r) ==
    /\ call[r] = "READY" /\ operation = None
    /\ Fail(r, IF Running /\ Readable THEN Unexpected ELSE "ERROR")
    /\ UNCHANGED cnclVars

\* A malformed request or image is refused before anything is touched, and
\* a slot that cannot be replaced or allocated leaves the child alone.
PrepareRaises(r) ==
    /\ call[r] = "READY" /\ operation = None /\ lifecycle = None
    /\ \/ UNCHANGED slotVars
       \/ /\ Running /\ ~Readable /\ ~FitsSlot(r)
          /\ \E unlinked \in BOOLEAN : DiscardSlot(unlinked)
    /\ EndCall(r, "ERROR")
    /\ UNCHANGED <<procVars, cnclVars, childVars>>

\* Publication and transport, under the wire and the lifecycle lock.
SendRequest(r) ==
    /\ call[r] = "PREPARED" /\ wire = None /\ lifecycle = None
    /\ Running /\ ~Readable
    /\ host' = [Inactive EXCEPT !.active = r, !.request_sent = TRUE]
    /\ toChild' = Append(toChild, [type |-> "REQUEST", of |-> r])
    /\ GoTo(r, "AWAIT")
    /\ UNCHANGED <<lockVars, procVars, slotVars, answer, result, cnclVars,
                   child, inferring, toParent>>

\* The client was closed meanwhile, something is readable, or sending fails.
SendFails(r) ==
    /\ call[r] = "PREPARED" /\ wire = None
    /\ ~Running \/ Readable
    /\ Fail(r, IF Running THEN Unexpected ELSE "ERROR")
    /\ UNCHANGED cnclVars

\* Mutant: the message is kept without what it says it is.
ReceiveUndecoded(r) ==
    /\ call[r] \in {"AWAIT", "AWAIT_ACK"}
    /\ connected /\ toParent # <<>>
    /\ answer' = [answer EXCEPT ![r] = Head(toParent).of]
    /\ toParent' = Tail(toParent)
    /\ GoTo(r, IF call[r] = "AWAIT" THEN "ANSWERED" ELSE "ANSWERED_ACK")
    /\ UNCHANGED <<lockVars, procVars, slotVars, host, result, cnclVars,
                   child, inferring, toChild>>

\* _receive_child_unlocked: no lock is held.
Receive(r) ==
    /\ call[r] \in {"AWAIT", "AWAIT_ACK"}
    /\ connected /\ toParent # <<>>
    /\ answer' = [answer EXCEPT ![r] = Head(toParent)]
    /\ toParent' = Tail(toParent)
    /\ GoTo(r, IF call[r] = "AWAIT" THEN "ANSWERED" ELSE "ANSWERED_ACK")
    /\ UNCHANGED <<lockVars, procVars, slotVars, host, result, cnclVars,
                   child, inferring, toChild>>

\* Mutant: a request that times out leaves the child alone.
ReceiveFailsKeepsChild(r) ==
    /\ call[r] \in {"AWAIT", "AWAIT_ACK"} /\ lifecycle = None
    /\ EndCall(r, "ERROR")
    /\ UNCHANGED <<procVars, slotVars, cnclVars, childVars>>

\* The child is gone, the connection was closed, or the timeout is over.
ReceiveFails(r) ==
    /\ call[r] \in {"AWAIT", "AWAIT_ACK"}
    /\ Fail(r, "ERROR")
    /\ UNCHANGED cnclVars

Answered(r, step, types) == call[r] = step /\ answer[r].type \in types

\* Mutant: a cancel that was not seen can still be admitted.
SettleKeepsActive(r) ==
    /\ Answered(r, "ANSWERED", {"RESPONSE", "FAILURE"})
    /\ GoTo(r, IF answer[r].of # r THEN "MISMATCH"
               ELSE IF host.active = r /\ host.cancel_requested
                    THEN "AWAIT_ACK" ELSE "SETTLED")
    /\ UNCHANGED <<lockVars, procVars, slotVars, host, answer, result,
                   cnclVars, childVars>>

\* _cancel_is_pending, for an answer to this request: with a cancel admitted
\* the acknowledgement must come next; without one the request is closed to
\* cancels from here on.
Settle(r) ==
    /\ Answered(r, "ANSWERED", {"RESPONSE", "FAILURE"})
    /\ IF answer[r].of # r
       THEN GoTo(r, "MISMATCH") /\ UNCHANGED host
       ELSE IF host.active = r /\ host.cancel_requested
            THEN GoTo(r, "AWAIT_ACK") /\ UNCHANGED host
            ELSE GoTo(r, "SETTLED") /\ host' = [host EXCEPT !.active = None]
    /\ UNCHANGED <<lockVars, procVars, slotVars, answer, result, cnclVars,
                   childVars>>

\* The child reported a failure; only a protocol mismatch costs it its life.
RaiseFailure(r) ==
    /\ Answered(r, "SETTLED", {"FAILURE"})
    /\ \/ /\ EndCall(r, "ERROR")
          /\ UNCHANGED <<procVars, slotVars, childVars>>
       \/ Fail(r, "ERROR")
    /\ UNCHANGED cnclVars

\* The response is checked against the slot, then copied out of it.
Deliver(r) ==
    /\ Answered(r, "SETTLED", {"RESPONSE"}) /\ lifecycle = None
    /\ slot # None /\ connected /\ ~Readable
    /\ EndCall(r, IF content = r THEN "OUTPUT" ELSE "FOREIGN")
    /\ UNCHANGED <<procVars, slotVars, cnclVars, childVars>>

DeliverFails(r) ==
    /\ Answered(r, "SETTLED", {"RESPONSE"})
    /\ slot = None \/ ~connected \/ Readable
    /\ Fail(r, IF connected THEN Unexpected ELSE "ERROR")
    /\ UNCHANGED cnclVars

\* _raise_cancelled, under the state lock alone: was this asked for?
IsAck(r) == answer[r] = [type |-> "ACK", of |-> JobOf[r]]

CheckAck(r) ==
    /\ Answered(r, "ANSWERED", {"READY", "ACK"}) \/ call[r] = "ANSWERED_ACK"
    /\ IF /\ IsAck(r)
          /\ host.active = r /\ host.cancel_requested /\ host.cancel_wire_sent
       THEN GoTo(r, "ACKED") /\ host' = [host EXCEPT !.active = None]
       ELSE GoTo(r, "MISMATCH") /\ UNCHANGED host
    /\ UNCHANGED <<lockVars, procVars, slotVars, answer, result, cnclVars,
                   childVars>>

\* A protocol error costs the child its life.
RaiseMismatch(r) ==
    /\ call[r] = "MISMATCH"
    /\ Fail(r, IF IsAck(r) THEN "ERROR" ELSE "STALE")
    /\ UNCHANGED cnclVars

\* ... and nothing may follow it.
RaiseCancelled(r) ==
    /\ call[r] = "ACKED" /\ lifecycle = None
    /\ \/ /\ ~connected \/ ~Readable
          /\ EndCall(r, "CANCELLED")
          /\ UNCHANGED <<procVars, slotVars, childVars>>
       \/ /\ connected /\ Readable
          /\ Fail(r, Unexpected)
    /\ UNCHANGED cnclVars

Segment(r) ==
    \/ SegmentBusy(r) \/ Prepare(r) \/ PrepareFails(r) \/ PrepareRaises(r)
    \/ SendRequest(r) \/ SendFails(r)
    \/ Receive(r) \/ ReceiveFails(r)
    \/ Settle(r) \/ RaiseFailure(r) \/ Deliver(r) \/ DeliverFails(r)
    \/ CheckAck(r) \/ RaiseMismatch(r) \/ RaiseCancelled(r)

---------------------------------------------------------------------------
(* cancel(job_id), in a thread of its own.  One that returns False before  *)
(* it admits anything changes nothing.                                     *)

AdmitCancel(r) ==
    /\ wire = None
    /\ host.active = r /\ host.request_sent /\ ~host.cancel_requested
    /\ host' = [host EXCEPT !.cancel_requested = TRUE]
    /\ wire' = "CANCEL" /\ cancelling' = r
    /\ UNCHANGED <<operation, lifecycle, procVars, slotVars, callVars, sent,
                   accepted, childVars>>

\* _active_job_id is still the job that is being cancelled.
StillActive == host.active # None /\ JobOf[host.active] = JobOf[cancelling]

\* The child is no longer running: nothing was cancelled.
WithdrawCancel ==
    /\ cancelling # None /\ ~sent /\ lifecycle = None
    /\ ~Running
    /\ host' = IF StillActive THEN [host EXCEPT !.cancel_requested = FALSE]
                              ELSE host
    /\ wire' = None /\ cancelling' = None
    /\ UNCHANGED <<operation, lifecycle, procVars, slotVars, callVars, sent,
                   accepted, childVars>>

SendCancel ==
    /\ cancelling # None /\ ~sent /\ lifecycle = None
    /\ Running
    /\ toChild' = Append(toChild,
                         [type |-> "CANCEL", of |-> JobOf[cancelling]])
    /\ sent' = TRUE /\ lifecycle' = "CANCEL"
    /\ UNCHANGED <<operation, wire, procVars, slotVars, host, callVars,
                   cancelling, accepted, child, inferring, toParent>>

\* The pipe breaks under the cancel, which raises.
SendCancelFails ==
    /\ cancelling # None /\ ~sent /\ lifecycle = None
    /\ Running
    /\ Discard
    /\ wire' = None /\ cancelling' = None
    /\ UNCHANGED <<operation, lifecycle, callVars, sent, accepted>>

\* Mutant: the lifecycle lock is not given back.
ConfirmCancelKeepsLock ==
    /\ sent
    /\ host' = IF StillActive THEN [host EXCEPT !.cancel_wire_sent = TRUE]
                              ELSE host
    /\ accepted' = accepted \cup {cancelling}
    /\ wire' = None /\ cancelling' = None /\ sent' = FALSE
    /\ UNCHANGED <<operation, lifecycle, procVars, slotVars, callVars,
                   childVars>>

\* Only now is the acknowledgement expected; cancel() returns True.
ConfirmCancel ==
    /\ sent
    /\ host' = IF StillActive THEN [host EXCEPT !.cancel_wire_sent = TRUE]
                              ELSE host
    /\ accepted' = accepted \cup {cancelling}
    /\ wire' = None /\ lifecycle' = None /\ cancelling' = None /\ sent' = FALSE
    /\ UNCHANGED <<operation, procVars, slotVars, callVars, childVars>>

Cancel == \/ WithdrawCancel \/ SendCancel \/ SendCancelFails \/ ConfirmCancel

---------------------------------------------------------------------------
(* start(), replace_model() and close().                                   *)

Quiet == wire = None /\ lifecycle = None

ClaimStart ==
    /\ operation = None
    /\ operation' = "START"
    /\ UNCHANGED <<wire, lifecycle, procVars, slotVars, host, callVars,
                   cnclVars, childVars>>

\* replace_model: the old process is proven dead before anything is started.
ReplaceModel ==
    /\ operation = "START" /\ Quiet
    /\ Discard
    /\ operation' = IF process' = 0 /\ slot' = None THEN "START" ELSE None
    /\ UNCHANGED <<wire, lifecycle, callVars, cnclVars>>

AlreadyStarted ==
    /\ operation = "START" /\ Quiet /\ Running
    /\ operation' = None
    /\ UNCHANGED <<wire, lifecycle, procVars, slotVars, host, callVars,
                   cnclVars, childVars>>

\* What is left of the old child goes first; the locks stay held while the
\* new one starts up.
Spawn ==
    /\ operation = "START" /\ Quiet /\ ~Running
    /\ spawned < MaxChildren
    /\ spawned' = spawned + 1 /\ process' = spawned + 1
    /\ alive' = (alive \ {process}) \cup {spawned + 1}
    /\ connected' = TRUE
    /\ slot' = None /\ linked' = linked \ {slot} /\ content' = None
    /\ host' = Inactive
    /\ child' = "BOOT" /\ inferring' = None /\ toChild' = <<>>
    /\ toParent' = <<>>
    /\ wire' = "START" /\ lifecycle' = "START"
    /\ UNCHANGED <<operation, callVars, cnclVars>>

SpawnFails ==
    /\ operation = "START" /\ Quiet /\ ~Running
    /\ Discard
    /\ operation' = None
    /\ UNCHANGED <<wire, lifecycle, callVars, cnclVars>>

Started ==
    /\ lifecycle = "START"
    /\ toParent # <<>> /\ Head(toParent).type = "READY" /\ process \in alive
    /\ toParent' = Tail(toParent)
    /\ operation' = None /\ wire' = None /\ lifecycle' = None
    /\ UNCHANGED <<procVars, slotVars, host, callVars, cnclVars, child,
                   inferring, toChild>>

\* The child reports that it cannot prepare its model, exits, or is late.
StartFails ==
    /\ lifecycle = "START"
    /\ Discard
    /\ operation' = None /\ wire' = None /\ lifecycle' = None
    /\ UNCHANGED <<callVars, cnclVars>>

Start == \/ ReplaceModel \/ AlreadyStarted \/ Spawn \/ SpawnFails
         \/ Started \/ StartFails

Close ==
    /\ operation = None /\ Quiet
    /\ Discard
    /\ UNCHANGED <<lockVars, callVars, cnclVars>>

\* The operation is not given up within a second: the child is discarded
\* under whoever is using it.
CloseForced ==
    /\ operation # None /\ lifecycle = None
    /\ Discard
    /\ UNCHANGED <<lockVars, callVars, cnclVars>>

---------------------------------------------------------------------------
(* The child: _serve_segmentation_connection.  It sends WorkerReady, then  *)
(* serves one message after the other.                                     *)

Serving(step) == connected /\ process \in alive /\ child = step
Reply(type, of) == toParent' = Append(toParent, [type |-> type, of |-> of])
ChildGoesTo(step, r) == child' = step /\ inferring' = r
parentVars == <<lockVars, procVars, host, callVars, cnclVars>>

ChildReady ==
    /\ Serving("BOOT")
    /\ Reply("READY", None)
    /\ ChildGoesTo("IDLE", None)
    /\ UNCHANGED <<parentVars, slotVars, toChild>>

\* A cancel of a request that has been answered is acknowledged all the same.
ChildReceives ==
    /\ Serving("IDLE") /\ toChild # <<>>
    /\ toChild' = Tail(toChild)
    /\ LET m == Head(toChild)
       IN  IF m.type = "CANCEL"
           THEN Reply("ACK", m.of) /\ UNCHANGED <<child, inferring>>
           ELSE ChildGoesTo("INFER", m.of) /\ UNCHANGED toParent
    /\ UNCHANGED <<parentVars, slotVars>>

\* The slot cannot be attached or the inference raises: what else is on the
\* pipe is left for later.
ChildFails ==
    /\ Serving("INFER")
    /\ Reply("FAILURE", inferring)
    /\ ChildGoesTo("IDLE", None)
    /\ UNCHANGED <<parentVars, slotVars, toChild>>

\* The inference is over: a cancel of its job takes the place of the
\* response.  Any other message ends the child.
ChildDrains ==
    /\ Serving("INFER")
    /\ toChild' = <<>>
    /\ LET cancel == [type |-> "CANCEL", of |-> JobOf[inferring]]
           pending == {toChild[n] : n \in 1..Len(toChild)}
       IN  \/ /\ pending = {} /\ ChildGoesTo("WRITE", inferring)
              /\ UNCHANGED <<toParent, procVars>>
           \/ /\ pending = {cancel} /\ ChildGoesTo("IDLE", None)
              /\ Reply("ACK", cancel.of) /\ UNCHANGED procVars
           \/ /\ ~(pending \subseteq {cancel}) /\ alive' = alive \ {process}
              /\ UNCHANGED <<process, connected, spawned, child, inferring,
                             toParent>>
    /\ UNCHANGED <<lockVars, host, callVars, cnclVars, slotVars>>

\* Mutant: the pixels are not in the slot yet.
ChildRespondsFirst ==
    /\ Serving("WRITE")
    /\ Reply("RESPONSE", inferring)
    /\ ChildGoesTo("IDLE", None)
    /\ UNCHANGED <<parentVars, slotVars, toChild>>

ChildResponds ==
    /\ Serving("WRITE")
    /\ content' = inferring
    /\ Reply("RESPONSE", inferring)
    /\ ChildGoesTo("IDLE", None)
    /\ UNCHANGED <<parentVars, slot, linked, toChild>>

ChildWriteFails ==
    /\ Serving("WRITE")
    /\ Reply("FAILURE", inferring)
    /\ ChildGoesTo("IDLE", None)
    /\ UNCHANGED <<parentVars, slotVars, toChild>>

Dies(p) ==
    /\ alive' = alive \ {p}
    /\ UNCHANGED <<lockVars, process, connected, spawned, slotVars, host,
                   callVars, cnclVars, childVars>>

Child == \/ ChildReady \/ ChildReceives \/ ChildFails \/ ChildDrains
         \/ ChildResponds \/ ChildWriteFails

Next ==
    \/ \E r \in Requests : Segment(r) \/ AdmitCancel(r)
    \/ Cancel
    \/ ClaimStart \/ Start
    \/ Close \/ CloseForced
    \/ Child
    \/ \E p \in alive : Dies(p)

\* A thread inside the client goes on: its waits for the child end with their
\* timeouts.  The child owes nothing.
Fairness == /\ \A r \in Requests : WF_vars(call[r] # "READY" /\ Segment(r))
            /\ WF_vars(Cancel) /\ WF_vars(Start)

Spec == Init /\ [][Next]_vars

FairSpec == Spec /\ Fairness

---------------------------------------------------------------------------
(* Properties.                                                             *)

Steps == {"READY", "PREPARED", "AWAIT", "ANSWERED", "AWAIT_ACK",
          "ANSWERED_ACK", "SETTLED", "ACKED", "MISMATCH", "DONE"}
Outcomes == {"BUSY", "ERROR", "STALE", "FOREIGN", "OUTPUT", "CANCELLED"}
Replies == [type: {"READY"}, of: {None}] \cup [type: {"ACK"}, of: Jobs]
           \cup [type: {"RESPONSE", "FAILURE"}, of: Requests]
Commands == [type: {"REQUEST"}, of: Requests]
            \cup [type: {"CANCEL"}, of: Jobs]

\* Type correctness of the client, the child and what is between them.
TypeOK ==
    /\ operation \in Requests \cup {"START", None}
    /\ wire \in {"CANCEL", "START", None}
    /\ lifecycle \in {"CANCEL", "START", None}
    /\ process \in 0..MaxChildren /\ connected \in BOOLEAN
    /\ spawned \in 0..MaxChildren /\ alive \in SUBSET (1..MaxChildren)
    /\ slot \in Requests \cup {None} /\ linked \in SUBSET Requests
    /\ content \in Requests \cup {None}
    /\ host \in [active: Requests \cup {None}, request_sent: BOOLEAN,
                 cancel_requested: BOOLEAN, cancel_wire_sent: BOOLEAN]
    /\ cancelling \in Requests \cup {None} /\ sent \in BOOLEAN
    /\ accepted \in SUBSET Requests
    /\ call \in [Requests -> Steps]
    /\ answer \in [Requests -> Replies \cup {None}]
    /\ result \in [Requests -> Outcomes \cup {None}]
    /\ child \in {"BOOT", "IDLE", "INFER", "WRITE"}
    /\ inferring \in Requests \cup {None}
    /\ toChild \in Seq(Commands) /\ toParent \in Seq(Replies)

\* A child is never spawned beside another: every process that runs is the
\* one the client holds a handle of, although one may refuse to stop
\* (segmentation_host.py:360, "Prove the old process dead before starting").
OneChild == alive \subseteq {process}

\* "The parent owns and unlinks shared memory": no segment that exists is
\* forgotten, whichever cleanup step failed on the way.
NoLostSegment == linked \subseteq {slot}

\* No cancel, timeout, failure or close leaves a message behind for a later
\* request: the answers of an obedient child are never late, doubled or
\* another request's.
NothingLeftBehind == \A r \in Requests : result[r] # "STALE"

\* The pixels segment() returns are those the child made of its own frame,
\* not of an earlier frame in the same slot.
OutputIsOwn == \A r \in Requests : result[r] # "FOREIGN"

\* A cancel that returned True ends its request: its pixels are not returned,
\* even if the response was on the pipe before the cancel.
AcceptedCancelEndsRequest == \A r \in accepted : result[r] # "OUTPUT"

\* Every segment() returns, whatever the child, the cancelling thread and the
\* closing thread do, and so do the locks they hold.
CallsReturn == \A r \in Requests : call[r] # "READY" ~> call[r] = "DONE"
===========================================================================
