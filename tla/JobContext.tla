---------------------------- MODULE JobContext ----------------------------
(***************************************************************************)
(* jobs/context.py: the ExclusiveJobScheduler that owns at most one job,   *)
(* and the terminal transitions of each job's JobContext.                  *)
(*                                                                         *)
(* A transition and the scheduler release it triggers are one step: the    *)
(* code sets the terminal state under the context's lock and then calls    *)
(* the terminal sink, and between the two nothing can tell the difference  *)
(* (a cancel is refused already, a claim is refused still).                *)
(***************************************************************************)
EXTENDS FiniteSets

CONSTANTS JobIds, None

ASSUME NoneIsNoJob == None \notin JobIds

VARIABLES
    active,        \* ExclusiveJobScheduler._active
    terminal,      \* JobContext._terminal_state; ABSENT before the claim
    committed      \* jobs whose irreversible commit callback has run

vars == <<active, terminal, committed>>

TerminalStates == {"ABSENT", "RUNNING", "CANCEL_PENDING", "SUCCEEDED",
                   "FAILED", "CANCELLED"}
Ended == {"SUCCEEDED", "FAILED", "CANCELLED"}
Live(j) == terminal[j] \in {"RUNNING", "CANCEL_PENDING"}

\* CancellationState: requested follows the terminal state.
Requested(j) == terminal[j] \in {"CANCEL_PENDING", "CANCELLED"}

Init == /\ active = None
        /\ terminal = [j \in JobIds |-> "ABSENT"]
        /\ committed = {}

\* claim() raises JOB_ALREADY_RUNNING instead when a job is active.
Claim(j) == /\ active = None
            /\ terminal[j] = "ABSENT"
            /\ active' = j
            /\ terminal' = [terminal EXCEPT ![j] = "RUNNING"]
            /\ UNCHANGED committed

RequestCancel(j) == /\ terminal[j] = "RUNNING"
                    /\ terminal' = [terminal EXCEPT ![j] = "CANCEL_PENDING"]
                    /\ UNCHANGED <<active, committed>>

\* Mutant: a cancelled job is not released.
SettleKeepsCancelled(j, state) ==
    /\ terminal' = [terminal EXCEPT ![j] = state]
    /\ active' = IF active = j /\ state # "CANCELLED" THEN None ELSE active

Settle(j, state) == /\ terminal' = [terminal EXCEPT ![j] = state]
                    /\ active' = IF active = j THEN None ELSE active

\* checkpoint(), acknowledge_cancel() and commit_if_not_cancelled() all end a
\* pending cancellation.
AcknowledgeCancel(j) == /\ terminal[j] = "CANCEL_PENDING"
                        /\ Settle(j, "CANCELLED")
                        /\ UNCHANGED committed

\* Mutant: the commit runs before the cancellation is looked at.
CommitUnchecked(j) ==
    /\ Live(j)
    /\ Settle(j, IF Requested(j) THEN "CANCELLED" ELSE "SUCCEEDED")
    /\ committed' = committed \cup {j}

\* commit_if_not_cancelled() of a job nobody cancelled.
Commit(j) == /\ terminal[j] = "RUNNING"
             /\ Settle(j, "SUCCEEDED")
             /\ committed' = committed \cup {j}

\* Mutant: fail() does not look at the state.
FailUnchecked(j) == /\ terminal[j] # "ABSENT"
                    /\ Settle(j, "FAILED")
                    /\ UNCHANGED committed

Fail(j) == /\ terminal[j] = "RUNNING"
           /\ Settle(j, "FAILED")
           /\ UNCHANGED committed

Complete(j) == /\ terminal[j] = "RUNNING"
               /\ Settle(j, "SUCCEEDED")
               /\ UNCHANGED committed

Next == \E j \in JobIds :
            \/ Claim(j)
            \/ RequestCancel(j)
            \/ AcknowledgeCancel(j)
            \/ Commit(j)
            \/ Fail(j)
            \/ Complete(j)

Spec == Init /\ [][Next]_vars

---------------------------------------------------------------------------
(* Properties.                                                             *)

\* Type correctness of the scheduler and the contexts.
TypeOK == /\ active \in JobIds \cup {None}
          /\ terminal \in [JobIds -> TerminalStates]
          /\ committed \in SUBSET JobIds

\* The scheduler owns exactly the job that has not ended: no two jobs run at
\* once, and no ended job keeps the slot (context.py:446, "Own exactly one
\* modal heavy job until its safe terminal transition").
OwnsTheLiveJob == \A j \in JobIds : Live(j) <=> active = j

\* Cancellation and commit are linearized: a job that committed output is
\* SUCCEEDED, so one whose cancellation was accepted never publishes.
CancelledNeverCommits ==
    \A j \in committed : terminal[j] = "SUCCEEDED"

\* A terminal outcome is final, whatever the losing thread does next.
OutcomeIsFinal ==
    [][\A j \in JobIds :
          terminal[j] \in Ended => terminal'[j] = terminal[j]]_vars

\* What a context and its scheduler promise the service that commits and the
\* controller that cancels: one owner of the slot, one outcome, and no output of
\* a job whose cancellation was accepted.
ContextCorrect == [](OwnsTheLiveJob /\ CancelledNeverCommits) /\ OutcomeIsFinal
===========================================================================
