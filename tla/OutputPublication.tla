------------------------- MODULE OutputPublication -------------------------
(***************************************************************************)
(* AtomicOutputPublisher.publish of jobs/render.py, with the publication   *)
(* and recovery directories of jobs/workspace: how an encoded candidate    *)
(* takes the place of one output file.                                     *)
(*                                                                         *)
(* Writers are processes of the application that publish under one output  *)
(* name.  A writer takes a lock file that an anchor beside the output      *)
(* names, keeps the old output under two names of its own, stages a copy   *)
(* of its candidate, and renames that over the output; if what it then     *)
(* finds there is not its copy, it puts the old output back.  Names are    *)
(* entries of directories, files are nodes, and a file may have several    *)
(* names: where the file system can link, the kept old output is the same  *)
(* file.  A file is known by its node and bytes, as the code knows it by   *)
(* inode, size, time and hash.                                             *)
(*                                                                         *)
(* Every operation on the file system is a step, and each may fail; any    *)
(* check the code makes that does not hold fails the step as well.  The    *)
(* user, meanwhile, rewrites, replaces, removes or moves the output, or    *)
(* cleans the publication directory away.  The candidate is private to     *)
(* its job and does not change.                                            *)
(***************************************************************************)
EXTENDS Naturals, FiniteSets

CONSTANTS
    Writers,         \* processes that publish
    CanLink,         \* the file system links files
    MaxPublications, \* bound: publications
    MaxUserActions,  \* bound: what the user does to the output
    MaxDeaths,       \* bound: deaths of a writer
    RestoreAttempts, \* _MAX_ROLLBACK_RESTORE_ATTEMPTS
    NoValue

ASSUME PublicationConstants ==
    /\ CanLink \in BOOLEAN
    /\ {MaxPublications, MaxUserActions, MaxDeaths} \subseteq Nat
    /\ RestoreAttempts \in 1 .. 4
    /\ IsFiniteSet(Writers) /\ NoValue \notin Writers

VARIABLES
    named,      \* the file each name is a name of
    bytes,      \* what is in each file
    flock,      \* the writer that holds each file's lock
    generation, \* identity of the publication directory
    step,       \* where each writer is
    work,       \* what its call of publish holds
    disturbed,  \* writers whose output the user touched since they began
    budget      \* publications, user actions and deaths so far

publicationVars ==
    <<named, bytes, flock, generation, step, work, disturbed, budget>>

\* The output and where the user moves it; in the publication directory the
\* lock and the stage; in the recovery directory the old output, its shadow,
\* and what a rollback stages; the stages that are not yet installed.
Private == {"LOCK", "PUBLISH", "PUBLISH_PENDING"}
RestoreNames == <<"RESTORE_0", "RESTORE_1", "RESTORE_2", "RESTORE_3">>
OutputNames == {"OUTPUT", "MOVED", "ANCHOR", "RECOVERY", "RECOVERY_PENDING",
          "SHADOW", "SHADOW_PENDING"} \cup Private
         \cup {RestoreNames[n] : n \in 1 .. RestoreAttempts}

\* One for each name and each handle of a writer, and one more.
OutputNodes == 1 .. (Cardinality(OutputNames) + 5 * Cardinality(Writers) + 1)

\* Whole outputs are those of the jobs and of the user.
JobBytes(j)  == <<"JOB", j>>
UserBytes(n) == <<"USER", n>>
Outputs == {JobBytes(j) : j \in 1 .. MaxPublications}
           \cup {UserBytes(n) : n \in 0 .. MaxUserActions}

ASSUME NoValueIsNone ==
    NoValue \notin OutputNodes \cup [node : OutputNodes, bytes : Outputs]

TornBytes == <<"TORN", 0>>
AnchorFor(g, x) == <<"ANCHOR", g, x>>

Idle == [job |-> 0, replace |-> FALSE, lock |-> NoValue, anchor |-> NoValue,
         generation |-> 0, previous |-> NoValue, recovery |-> NoValue,
         slot |-> NoValue, tries |-> 0, outcome |-> NoValue]

PublicationInit ==
    /\ \E x \in {NoValue, 1} :
          named = [n \in OutputNames |-> IF n = "OUTPUT" THEN x ELSE NoValue]
    /\ bytes = [x \in OutputNodes |-> IF x = 1 THEN UserBytes(0) ELSE NoValue]
    /\ flock = [x \in OutputNodes |-> NoValue]
    /\ generation = 0
    /\ step = [w \in Writers |-> "IDLE"]
    /\ work = [w \in Writers |-> Idle]
    /\ disturbed = {}
    /\ budget = [jobs |-> 0, user |-> 0, deaths |-> 0]

---------------------------------------------------------------------------
LinksTo(x) == Cardinality({n \in OutputNames : named[n] = x})

HeldNodes(w) ==
    {work[w].lock, work[w].anchor, work[w].recovery, work[w].slot}
    \cup (IF work[w].previous = NoValue THEN {} ELSE {work[w].previous.node})

\* A new file gets the least node that has no name and is not open.
FreshNode ==
    LET free == {x \in OutputNodes :
                    LinksTo(x) = 0 /\ \A w \in Writers : x \notin HeldNodes(w)}
    IN  CHOOSE x \in free : \A y \in free : x <= y

\* _descriptor_bound_entry_matches
Matches(n, x, b) == named[n] = x /\ x # NoValue /\ bytes[x] = b

Rename(from, to) ==
    /\ named[from] # NoValue
    /\ named' = [named EXCEPT ![to] = named[from], ![from] = NoValue]

\* The transaction's directory is still the one it opened.
InDirectory(w) == generation = work[w].generation

\* AdvisoryFileLock.assert_owned
Owns(w) ==
    /\ InDirectory(w)
    /\ named["LOCK"] = work[w].lock
    /\ Matches("ANCHOR", work[w].anchor,
               AnchorFor(work[w].generation, work[w].lock))

Steps(w, from, to) == step[w] = from /\ step' = [step EXCEPT ![w] = to]
Holds(w, field, x) == work' = [work EXCEPT ![w][field] = x]
OutputCurrent(w) == Matches("OUTPUT", work[w].previous.node,
                            work[w].previous.bytes)

\* w lets go of all it holds; files without a name are gone then.
LetsGo(w) ==
    /\ work' = [work EXCEPT ![w] = Idle]
    /\ disturbed' = disturbed \ {w}
    /\ bytes' = [x \in OutputNodes |->
                    IF LinksTo(x) = 0
                       /\ \A v \in Writers \ {w} : x \notin HeldNodes(v)
                    THEN NoValue ELSE bytes[x]]
    /\ UNCHANGED <<named, generation>>

\* With its handles the locks of w are closed.
Released(w) == [x \in OutputNodes |-> IF flock[x] = w THEN NoValue ELSE flock[x]]

---------------------------------------------------------------------------
(* The transaction.                                                        *)

BeginPublication(w, replace) ==
    /\ Steps(w, "IDLE", "OPEN_LOCK")
    /\ budget.jobs < MaxPublications
    /\ budget' = [budget EXCEPT !.jobs = @ + 1]
    /\ work' = [work EXCEPT ![w] =
                   [Idle EXCEPT !.job = budget.jobs + 1, !.replace = replace,
                                !.generation = generation]]
    /\ UNCHANGED <<named, bytes, flock, generation, disturbed>>

\* An anchor that is there must name this directory and the lock in it;
\* without one the lock file is made, or opened if another writer made it.
OpenLock(w) ==
    /\ Steps(w, "OPEN_LOCK", "TAKE_LOCK")
    /\ InDirectory(w)
    /\ named["ANCHOR"] # NoValue =>
          /\ named["LOCK"] # NoValue
          /\ bytes[named["ANCHOR"]] = AnchorFor(generation, named["LOCK"])
    /\ LET x == IF named["LOCK"] = NoValue THEN FreshNode ELSE named["LOCK"]
       IN  /\ named' = [named EXCEPT !["LOCK"] = x]
           /\ work' = [work EXCEPT ![w].lock = x,
                                   ![w].anchor = named["ANCHOR"]]
    /\ UNCHANGED <<bytes, flock, generation, disturbed, budget>>

\* Mutant: the lock of another writer does not stop one.
TakeLockShared(w) ==
    /\ step[w] = "TAKE_LOCK"
    /\ InDirectory(w) /\ named["LOCK"] = work[w].lock
    /\ flock' = [flock EXCEPT ![work[w].lock] = w]
    /\ Steps(w, "TAKE_LOCK", IF work[w].anchor = NoValue THEN "MAKE_ANCHOR"
                                                      ELSE "ACQUIRED")
    /\ UNCHANGED <<named, bytes, generation, work, disturbed, budget>>

\* Nobody waits: a lock that is held fails the publication.
TakeLock(w) ==
    /\ step[w] = "TAKE_LOCK"
    /\ flock[work[w].lock] = NoValue
    /\ InDirectory(w) /\ named["LOCK"] = work[w].lock
    /\ flock' = [flock EXCEPT ![work[w].lock] = w]
    /\ Steps(w, "TAKE_LOCK", IF work[w].anchor = NoValue THEN "MAKE_ANCHOR"
                                                      ELSE "ACQUIRED")
    /\ UNCHANGED <<named, bytes, generation, work, disturbed, budget>>

\* The anchor is made, and written afterwards.
MakeAnchor(w) ==
    /\ Steps(w, "MAKE_ANCHOR", "WRITE_ANCHOR")
    /\ named["ANCHOR"] = NoValue
    /\ named' = [named EXCEPT !["ANCHOR"] = FreshNode]
    /\ bytes' = [bytes EXCEPT ![FreshNode] = TornBytes]
    /\ Holds(w, "anchor", FreshNode)
    /\ UNCHANGED <<flock, generation, disturbed, budget>>

WriteAnchor(w) ==
    /\ Steps(w, "WRITE_ANCHOR", "ACQUIRED")
    /\ bytes' = [bytes EXCEPT ![work[w].anchor] =
                    AnchorFor(work[w].generation, work[w].lock)]
    /\ UNCHANGED <<named, flock, generation, work, disturbed, budget>>

\* Mutant: the old output is noted, and not kept.
SnapshotOnly(w) ==
    /\ step[w] = "ACQUIRED" /\ Owns(w)
    /\ LET x == named["OUTPUT"]
       IN  IF work[w].replace /\ x # NoValue
           THEN Holds(w, "previous", [node |-> x, bytes |-> bytes[x]])
           ELSE UNCHANGED work
    /\ Steps(w, "ACQUIRED", "STAGE")
    /\ UNCHANGED <<named, bytes, flock, generation, disturbed, budget>>

\* _snapshot_existing_output, for the policy that replaces.
Snapshot(w) ==
    /\ step[w] = "ACQUIRED" /\ Owns(w)
    /\ LET x == named["OUTPUT"]
       IN  IF work[w].replace /\ x # NoValue
           THEN /\ Holds(w, "previous", [node |-> x, bytes |-> bytes[x]])
                /\ Steps(w, "ACQUIRED", "RECOVERY")
           ELSE UNCHANGED work /\ Steps(w, "ACQUIRED", "STAGE")
    /\ UNCHANGED <<named, bytes, flock, generation, disturbed, budget>>

---------------------------------------------------------------------------
(* Slots: files of the private directories under fixed names, each locked  *)
(* while it is in use.                                                     *)

\* Mutant: a slot is written over though it has another name.
RecyclableAlways(w, x) == flock[x] = NoValue

\* open_locked_slot and reset_for_write of a slot that is there.
Recyclable(w, x) ==
    /\ flock[x] = NoValue
    /\ LinksTo(x) = 1
    /\ work[w].previous # NoValue => x # work[w].previous.node

\* _stage_bound_recovery_copy: the slot is made or emptied, then written.
OpenSlot(w, name, from, to) ==
    /\ Steps(w, from, to)
    /\ LET x == IF named[name] = NoValue THEN FreshNode ELSE named[name]
       IN  /\ named[name] # NoValue => Recyclable(w, x)
           /\ named' = [named EXCEPT ![name] = x]
           /\ bytes' = [bytes EXCEPT ![x] = TornBytes]
           /\ flock' = [flock EXCEPT ![x] = w]
           /\ Holds(w, "slot", x)
    /\ UNCHANGED <<generation, disturbed, budget>>

FillSlot(w, b, from, to) ==
    /\ Steps(w, from, to)
    /\ bytes' = [bytes EXCEPT ![work[w].slot] = b]
    /\ UNCHANGED <<named, flock, generation, work, disturbed, budget>>

\* replace_owned: a file under the new name must be locked to be replaced.
InstallSlot(w, from_name, to_name, from, to) ==
    /\ Steps(w, from, to)
    /\ Owns(w)
    /\ named[from_name] = work[w].slot
    /\ named[to_name] \notin {NoValue, work[w].slot} => flock[named[to_name]] = NoValue
    /\ IF named[to_name] = work[w].slot THEN UNCHANGED named
       ELSE Rename(from_name, to_name)
    /\ UNCHANGED <<bytes, flock, generation, work, disturbed, budget>>

---------------------------------------------------------------------------
(* _prepare_durable_recovery and _prepare_recovery_shadow                  *)

\* The recovery is the old output already.
RecoveryMatches(w) ==
    Matches("RECOVERY", work[w].previous.node, work[w].previous.bytes)

KeepRecovery(w) ==
    /\ Steps(w, "RECOVERY", "SHADOW")
    /\ RecoveryMatches(w)
    /\ flock[named["RECOVERY"]] = NoValue /\ OutputCurrent(w)
    /\ flock' = [flock EXCEPT ![named["RECOVERY"]] = w]
    /\ Holds(w, "recovery", named["RECOVERY"])
    /\ UNCHANGED <<named, bytes, generation, disturbed, budget>>

\* A link to the output, or a pending one an earlier call left.
LinkRecovery(w) ==
    /\ Steps(w, "RECOVERY", "RECOVERY_STAGED")
    /\ ~RecoveryMatches(w)
    /\ Owns(w)
    /\ LET pending == "RECOVERY_PENDING"
           x == IF CanLink /\ named[pending] = NoValue THEN named["OUTPUT"]
                ELSE named[pending]
       IN  /\ x = work[w].previous.node /\ flock[x] = NoValue
           /\ bytes[x] = work[w].previous.bytes
           /\ named' = [named EXCEPT ![pending] = x]
           /\ flock' = [flock EXCEPT ![x] = w]
           /\ Holds(w, "slot", x)
    /\ UNCHANGED <<bytes, generation, disturbed, budget>>

\* Where it cannot be linked, the old output is copied.
CopyRecovery(w) ==
    \/ /\ step[w] = "RECOVERY" /\ ~RecoveryMatches(w) /\ Owns(w)
       /\ ~CanLink \/ named["RECOVERY_PENDING"] # NoValue
       /\ named["RECOVERY_PENDING"] # work[w].previous.node
       /\ OpenSlot(w, "RECOVERY_PENDING", "RECOVERY", "RECOVERY_COPY")
    \/ /\ step[w] = "RECOVERY_COPY"
       /\ bytes[work[w].previous.node] = work[w].previous.bytes
       /\ FillSlot(w, work[w].previous.bytes, "RECOVERY_COPY",
                   "RECOVERY_STAGED")

InstallRecovery(w) ==
    \/ /\ step[w] = "RECOVERY_STAGED"
       /\ OutputCurrent(w)
       /\ InstallSlot(w, "RECOVERY_PENDING", "RECOVERY", "RECOVERY_STAGED",
                      "RECOVERED")
    \/ /\ Steps(w, "RECOVERED", "SHADOW")
       /\ Matches("RECOVERY", work[w].slot, work[w].previous.bytes)
       /\ Holds(w, "recovery", work[w].slot)
       /\ UNCHANGED <<named, bytes, flock, generation, disturbed, budget>>

\* The shadow is a second name of the recovery, or a copy of it.
KeepShadow(w) ==
    /\ Steps(w, "SHADOW", "STAGE")
    /\ Owns(w)
    /\ Matches("SHADOW", work[w].recovery, work[w].previous.bytes)
    /\ OutputCurrent(w)
    /\ UNCHANGED <<named, bytes, flock, generation, work, disturbed, budget>>

LinkShadow(w) ==
    /\ Steps(w, "SHADOW", "SHADOW_STAGED")
    /\ Owns(w)
    /\ named["SHADOW"] # work[w].recovery
    /\ LET pending == "SHADOW_PENDING"
           x == IF CanLink /\ named[pending] = NoValue THEN named["RECOVERY"]
                ELSE named[pending]
       IN  /\ x = work[w].recovery /\ bytes[x] = work[w].previous.bytes
           /\ named' = [named EXCEPT ![pending] = x]
           /\ Holds(w, "slot", x)
    /\ UNCHANGED <<bytes, flock, generation, disturbed, budget>>

CopyShadow(w) ==
    \/ /\ step[w] = "SHADOW" /\ Owns(w)
       /\ named["SHADOW"] # work[w].recovery
       /\ ~CanLink \/ named["SHADOW_PENDING"] # NoValue
       /\ named["SHADOW_PENDING"] # work[w].recovery
       /\ OpenSlot(w, "SHADOW_PENDING", "SHADOW", "SHADOW_COPY")
    \/ /\ step[w] = "SHADOW_COPY"
       /\ bytes[work[w].recovery] = work[w].previous.bytes
       /\ FillSlot(w, work[w].previous.bytes, "SHADOW_COPY", "SHADOW_STAGED")

InstallShadow(w) ==
    \/ InstallSlot(w, "SHADOW_PENDING", "SHADOW", "SHADOW_STAGED", "SHADOWED")
    \/ /\ Steps(w, "SHADOWED", "STAGE")
       /\ Matches("SHADOW", work[w].slot, work[w].previous.bytes)
       /\ OutputCurrent(w)
       /\ UNCHANGED <<named, bytes, flock, generation, work, disturbed,
                      budget>>

PrepareRecovery(w) ==
    \/ KeepRecovery(w) \/ LinkRecovery(w) \/ CopyRecovery(w)
    \/ InstallRecovery(w)
    \/ KeepShadow(w) \/ LinkShadow(w) \/ CopyShadow(w) \/ InstallShadow(w)

---------------------------------------------------------------------------
(* _prepare_publication_stage, the commit and the rollback                 *)

StageCandidate(w) ==
    \/ /\ step[w] = "STAGE" /\ Owns(w)
       /\ OpenSlot(w, "PUBLISH_PENDING", "STAGE", "STAGE_COPY")
    \/ InDirectory(w)
       /\ FillSlot(w, JobBytes(work[w].job), "STAGE_COPY", "STAGE_FILLED")
    \/ InstallSlot(w, "PUBLISH_PENDING", "PUBLISH", "STAGE_FILLED", "STAGED")

\* Mutant: the policies that do not replace do.
CommitAlways(w) ==
    /\ step[w] = "STAGED" /\ Owns(w)
    /\ Matches("PUBLISH", work[w].slot, JobBytes(work[w].job))
    /\ Rename("PUBLISH", "OUTPUT")
    /\ Steps(w, "STAGED", "COMMITTED")
    /\ UNCHANGED <<bytes, flock, generation, work, disturbed, budget>>

\* One rename takes the stage to the output.
CommitOutput(w) ==
    /\ step[w] = "STAGED" /\ Owns(w)
    /\ Matches("PUBLISH", work[w].slot, JobBytes(work[w].job))
    /\ ~work[w].replace => named["OUTPUT"] = NoValue
    /\ Rename("PUBLISH", "OUTPUT")
    /\ Steps(w, "STAGED", "COMMITTED")
    /\ UNCHANGED <<bytes, flock, generation, work, disturbed, budget>>

\* _published_file_matches
Verify(w) ==
    /\ Steps(w, "COMMITTED", "CLOSE")
    /\ Matches("OUTPUT", work[w].slot, JobBytes(work[w].job)) /\ Owns(w)
    /\ Holds(w, "outcome", "PUBLISHED")
    /\ UNCHANGED <<named, bytes, flock, generation, disturbed, budget>>

Restoring == {"ROLLBACK", "RESTORE_COPY", "RESTORE_STAGED", "RESTORED"}

\* Mutant: a failure after the rename is not rolled back.
FailsForward(w) ==
    /\ step[w] \notin {"IDLE", "CLOSE"} \cup Restoring
    /\ Steps(w, step[w], "CLOSE")
    /\ Holds(w, "outcome", "RAISED")
    /\ UNCHANGED <<named, bytes, flock, generation, disturbed, budget>>

\* Any step may fail; from the rename on, a replaced output is put back.
StepFails(w) ==
    /\ step[w] \notin {"IDLE", "CLOSE"} \cup Restoring
    /\ IF step[w] \in {"STAGED", "COMMITTED"} /\ work[w].previous # NoValue
       THEN Steps(w, step[w], "ROLLBACK") /\ UNCHANGED work
       ELSE Steps(w, step[w], "CLOSE") /\ Holds(w, "outcome", "RAISED")
    /\ UNCHANGED <<named, bytes, flock, generation, disturbed, budget>>

\* _rollback_publication: each attempt copies the recovery to a slot of its
\* own and renames that over the output.
RestoreOutput(w) ==
    LET name == RestoreNames[work[w].tries + 1]
    IN  \/ /\ step[w] = "ROLLBACK" /\ Owns(w)
           /\ OpenSlot(w, name, "ROLLBACK", "RESTORE_COPY")
        \/ /\ step[w] = "RESTORE_COPY"
           /\ bytes[work[w].recovery] = work[w].previous.bytes
           /\ FillSlot(w, work[w].previous.bytes, "RESTORE_COPY",
                       "RESTORE_STAGED")
        \/ /\ step[w] = "RESTORE_STAGED" /\ Owns(w)
           /\ Rename(name, "OUTPUT")
           /\ Steps(w, "RESTORE_STAGED", "RESTORED")
           /\ UNCHANGED <<bytes, flock, generation, work, disturbed, budget>>
        \/ /\ Steps(w, "RESTORED", "CLOSE")
           /\ Matches("OUTPUT", work[w].slot, work[w].previous.bytes)
           /\ Holds(w, "outcome", "ROLLED_BACK")
           /\ UNCHANGED <<named, bytes, flock, generation, disturbed, budget>>

\* An attempt fails; after the last, the old output stays in the recovery.
RestoreFails(w) ==
    /\ step[w] \in Restoring
    /\ IF work[w].tries + 1 < RestoreAttempts /\ Owns(w)
       THEN /\ Steps(w, step[w], "ROLLBACK")
            /\ Holds(w, "tries", work[w].tries + 1)
       ELSE /\ Steps(w, step[w], "CLOSE")
            /\ Holds(w, "outcome", "CATASTROPHE")
    /\ UNCHANGED <<named, bytes, flock, generation, disturbed, budget>>

\* Mutant: the lock outlives the call that took it.
CloseLeakingLock(w) ==
    /\ Steps(w, "CLOSE", "IDLE")
    /\ LetsGo(w)
    /\ UNCHANGED <<flock, budget>>

\* What was held is let go; no file is removed.
ClosePublication(w) ==
    /\ Steps(w, "CLOSE", "IDLE")
    /\ LetsGo(w)
    /\ flock' = Released(w)
    /\ UNCHANGED budget

Die(w) ==
    /\ step[w] # "IDLE" /\ budget.deaths < MaxDeaths
    /\ budget' = [budget EXCEPT !.deaths = @ + 1]
    /\ step' = [step EXCEPT ![w] = "IDLE"]
    /\ LetsGo(w)
    /\ flock' = Released(w)

---------------------------------------------------------------------------
(* The user.                                                               *)

UserTouches ==
    /\ budget.user < MaxUserActions
    /\ budget' = [budget EXCEPT !.user = @ + 1]
    /\ disturbed' = {w \in Writers : step[w] # "IDLE"}
    /\ UNCHANGED <<flock, step, work>>

\* The output is written in place, replaced by another file, removed, moved
\* away, or moved away and replaced.
UserChangesOutput ==
    /\ UserTouches
    /\ LET b == UserBytes(budget.user + 1)
           x == named["OUTPUT"]
       IN  \/ /\ x # NoValue
              /\ bytes' = [bytes EXCEPT ![x] = b] /\ UNCHANGED named
           \/ /\ bytes' = [bytes EXCEPT ![FreshNode] = b]
              /\ named' = [named EXCEPT !["OUTPUT"] = FreshNode]
           \/ /\ x # NoValue
              /\ named' = [named EXCEPT !["OUTPUT"] = NoValue] /\ UNCHANGED bytes
           \/ Rename("OUTPUT", "MOVED") /\ UNCHANGED bytes
           \/ /\ x # NoValue
              /\ bytes' = [bytes EXCEPT ![FreshNode] = b]
              /\ named' = [named EXCEPT !["MOVED"] = x,
                                        !["OUTPUT"] = FreshNode]
    /\ UNCHANGED generation

\* .matteloop-publish is removed, with what is in it.
UserCleansDirectory ==
    /\ UserTouches
    /\ named["LOCK"] # NoValue
    /\ named' = [n \in OutputNames |-> IF n \in Private THEN NoValue ELSE named[n]]
    /\ generation' = generation + 1
    /\ UNCHANGED bytes

Publish(w) ==
    \/ \E replace \in BOOLEAN : BeginPublication(w, replace)
    \/ OpenLock(w) \/ TakeLock(w) \/ MakeAnchor(w) \/ WriteAnchor(w)
    \/ Snapshot(w) \/ PrepareRecovery(w) \/ StageCandidate(w)
    \/ CommitOutput(w) \/ Verify(w) \/ RestoreOutput(w)
    \/ StepFails(w) \/ RestoreFails(w) \/ ClosePublication(w) \/ Die(w)

PublicationNext ==
    \/ \E w \in Writers : Publish(w)
    \/ UserChangesOutput
    \/ UserCleansDirectory

PublicationSpec ==
    PublicationInit /\ [][PublicationNext]_publicationVars

---------------------------------------------------------------------------
\* Entries are files, a writer's slot is locked by it, and only a writer at
\* work holds anything.
PublicationTypeOK ==
    /\ named \in [OutputNames -> OutputNodes \cup {NoValue}]
    /\ flock \in [OutputNodes -> Writers \cup {NoValue}]
    /\ \A w \in Writers :
         step[w] = "IDLE" => /\ work[w] = Idle
                             /\ \A x \in OutputNodes : flock[x] # w

\* Whatever fails, dies or is cleaned away: what the user finds under the
\* output's name, or moved from there, is never half an output, although the
\* files the publisher writes may be links to it.
OutputsAreWhole ==
    \A n \in {"OUTPUT", "MOVED"} :
        named[n] # NoValue => bytes[named[n]] \in Outputs

Outside(w) ==
    step[w] \in {"IDLE", "OPEN_LOCK", "TAKE_LOCK", "MAKE_ANCHOR",
                 "WRITE_ANCHOR", "ACQUIRED", "CLOSE"}

\* Two writers are never both in the transaction of an output, even if the
\* directory with its lock was removed and made again in between.
OneTransaction ==
    \A v, w \in Writers :
        v # w => Outside(v) \/ Outside(w)

\* From the commit on, an output that was replaced can be had back from the
\* recovery directory, unless the user changed it at that time.
ReplacedIsKept ==
    \A w \in Writers :
        /\ step[w] \in {"STAGED", "COMMITTED"} \cup Restoring
        /\ work[w].previous # NoValue /\ w \notin disturbed
        => \E n \in {"RECOVERY", "SHADOW"} :
              named[n] # NoValue /\ bytes[named[n]] = work[w].previous.bytes

\* A replacement that failed, and left nobody to interfere with it, left the
\* old output; one that succeeded left its own.
OutcomeIsTrue ==
    \A w \in Writers :
        /\ step[w] = "CLOSE" /\ w \notin disturbed
        /\ work[w].outcome # "CATASTROPHE"
        => /\ work[w].previous # NoValue /\ work[w].outcome # "PUBLISHED" =>
                 /\ named["OUTPUT"] # NoValue
                 /\ bytes[named["OUTPUT"]] = work[w].previous.bytes
           /\ work[w].outcome = "PUBLISHED" =>
                 Matches("OUTPUT", work[w].slot, JobBytes(work[w].job))

\* No step of a writer destroys an output that is not its own candidate: one
\* that must not replace fills a name that is free at that moment, and one
\* that replaces has kept what it replaces, unless the user changed that at
\* the same time.
NothingIsDestroyed ==
    [][\A w \in Writers :
          /\ step[w] # step'[w] /\ w \notin disturbed
          /\ named["OUTPUT"] # NoValue
          /\ bytes[named["OUTPUT"]] # JobBytes(work[w].job)
          => \E n \in OutputNames :
                /\ named'[n] # NoValue
                /\ bytes'[named'[n]] = bytes[named["OUTPUT"]]]_publicationVars

\* Two writers and a user share an output: it stays whole, what is replaced
\* can be had back, and every outcome is the one that was reported.
PublicationCorrect ==
    /\ [](/\ PublicationTypeOK
          /\ OutputsAreWhole
          /\ OneTransaction
          /\ ReplacedIsKept
          /\ OutcomeIsTrue)
    /\ NothingIsDestroyed
=============================================================================
