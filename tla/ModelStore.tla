---------------------------- MODULE ModelStore ----------------------------
(***************************************************************************)
(* jobs/models/: the weights of each model on disk, the downloader that    *)
(* fetches and verifies them, and the ModelSessionManager that owns the    *)
(* one segmentation session.  Two instances of the application share the   *)
(* cache directory; the flight lock and the manager's lock are each        *)
(* process's own.  Every operation of a manager holds its lock to the end, *)
(* so an instance has one operation; who waits for it is not modelled.     *)
(*                                                                         *)
(* A cancelled download, a failing disk and a failing connection take the  *)
(* same way out, so that one disjunct stands for all of them.              *)
(*                                                                         *)
(* A file is its inode: two fields tell how much of the weight it holds    *)
(* and whether those bytes are the catalog's.                              *)
(***************************************************************************)
EXTENDS Naturals, FiniteSets

CONSTANTS Models, Shared, Owner, Other, Size, MaxFiles, MaxOps, NoModel

ASSUME ModelStoreAssumption ==
    /\ NoModel \notin Models /\ Owner # Other /\ Shared \in Models
    /\ Size \in Nat /\ MaxFiles \in Nat \ {0} /\ MaxOps \in [{Owner, Other} -> Nat]

VARIABLES
    files,    \* inode -> its content; 0 is no inode
    weight,   \* model -> the inode at <runtime filename>
    partial,  \* model -> the inode at <runtime filename>.part
    outdated, \* models with a weight in an obsolete rembg version
    op,       \* instance -> the manager operation under way
    ops,      \* instance -> operations started (at most MaxOps[i])
    session,  \* the owner's ModelSessionManager
    torn,     \* a process died in an operation
    taken,    \* history: models that lost a whole weight, to the user or to an
              \* instance that takes back what it promoted
    stuck     \* history: inodes that a removal which failed left at their name

modelVars == <<files, weight, partial, outdated, op, ops, session, torn, taken, stuck>>

Instances == {Owner, Other}
Inodes == 0..MaxFiles
Kinds == {"prepare", "fetch", "redownload", "remove", "outdated"}
Content == [got : 0..Size, good : BOOLEAN]
NoOp == [kind |-> "none", model |-> NoModel, pc |-> "idle", own |-> 0, rest |-> {}]
NoSession == [client |-> NoModel, running |-> FALSE, active |-> NoModel,
              cleanup |-> {}, pending |-> NoModel, closed |-> FALSE]

WholeWeight(f) == f # 0 /\ files[f].got = Size /\ files[f].good
Fresh(i) == {f \in 1..MaxFiles : \A m \in Models :
                f \notin {weight[m], partial[m]} /\ \A j \in Instances : op[j].own # f}

\* The cache as a former run left it: a weight, a torn or damaged file at its
\* name, or none; and an obsolete copy of each.
ModelInit ==
    /\ \E found \in {0, 1}, damaged \in BOOLEAN :
        /\ files = [f \in 1..MaxFiles |-> [got |-> IF f = 1 THEN Size ELSE 0, good |-> ~damaged]]
        /\ weight = [m \in Models |-> IF m = Shared THEN found ELSE 0]
    /\ partial = [m \in Models |-> 0]
    /\ outdated = Models
    /\ op = [i \in Instances |-> NoOp] /\ ops = [i \in Instances |-> 0]
    /\ session = NoSession /\ torn = FALSE /\ taken = {} /\ stuck = {}

OpGoes(i, pc) == op' = [op EXCEPT ![i].pc = pc]
OpAt(i, pc) == op[i].pc = pc
Model(i) == op[i].model

\* Mutant: weights still held by a client that would not close are removed.
RefusedIfClosed(i, kind, m) == i = Owner /\ session.closed

\* Each operation takes the manager's lock, and is refused once it is closed.
Refused(i, kind, m) == i = Owner /\
    \/ session.closed
    \/ kind = "prepare" /\ session.pending # NoModel
    \/ kind = "remove" /\ m \in session.cleanup

BeginOp(i, kind, m, pc) ==
    /\ OpAt(i, "idle") /\ ops[i] < MaxOps[i] /\ ~Refused(i, kind, m)
    /\ op' = [op EXCEPT ![i] = [NoOp EXCEPT !.kind = kind, !.model = m, !.pc = pc]]
    /\ ops' = [ops EXCEPT ![i] = @ + 1]
    /\ UNCHANGED <<files, weight, partial, outdated, session, torn, taken, stuck>>

\* A job asks for a model; a live session that has it is used as it is.
Prepare(m) == ~(session.active = m /\ session.running) /\ BeginOp(Owner, "prepare", m, "find")

\* The dialog's buttons, each refused while a job or another of them runs.
Reach(i) == IF i = Owner THEN Models ELSE {Shared}
Fetch(i) == \E m \in Reach(i) : BeginOp(i, "fetch", m, "find")
RemoveModel(m) == BeginOp(Owner, "remove", m, "remove")
DeleteOutdated == outdated # {} /\ BeginOp(Owner, "outdated", Shared, "outdated")

\* A batch takes the outdated models that are not cached, one after another.
NextInBatch(i, left) ==
    op' = [op EXCEPT ![i] = IF left = {} THEN NoOp ELSE
        [NoOp EXCEPT !.kind = "redownload", !.pc = "find",
                     !.model = CHOOSE m \in left : TRUE,
                     !.rest = left \ {CHOOSE m \in left : TRUE}]]
Redownload(i) ==
    LET batch == {m \in Reach(i) \cap outdated : weight[m] = 0} IN
    /\ OpAt(i, "idle") /\ ops[i] < MaxOps[i] /\ batch # {}
    /\ \A m \in batch : ~Refused(i, "redownload", m)
    /\ NextInBatch(i, batch) /\ ops' = [ops EXCEPT ![i] = @ + 1]
    /\ UNCHANGED <<files, weight, partial, outdated, session, torn, taken, stuck>>

OpEnds(i) == op' = [op EXCEPT ![i] = NoOp]
\* The way out of a download: it was cancelled, or the response or the disk
\* failed.
OpFails(i) == OpGoes(i, "cleanup")
Stays == UNCHANGED <<ops, session, torn, taken, stuck>>

\* _download_locked: a verified weight is used as it is; any other file at its
\* name goes.  Nothing is cleaned up when this or the next step fails.
FindWeight(i) ==
    /\ OpAt(i, "find")
    /\ \/ OpEnds(i) /\ UNCHANGED weight
       \/ WholeWeight(weight[Model(i)]) /\ OpGoes(i, "done") /\ UNCHANGED weight
       \/ /\ ~WholeWeight(weight[Model(i)]) /\ OpGoes(i, "stale")
          /\ weight' = [weight EXCEPT ![Model(i)] = 0]
    /\ UNCHANGED <<files, partial, outdated>> /\ Stays

RemoveStalePart(i) ==
    /\ OpAt(i, "stale")
    /\ \/ OpEnds(i) /\ UNCHANGED partial
       \/ OpGoes(i, "open") /\ partial' = [partial EXCEPT ![Model(i)] = 0]
    /\ UNCHANGED <<files, weight, outdated>> /\ Stays

\* The response fails, or is not of the catalog's length, or the part cannot
\* be created exclusively because another instance has one.
OpenPart(i) ==
    /\ OpAt(i, "open")
    /\ \/ OpFails(i) /\ UNCHANGED <<files, partial, stuck>>
       \/ /\ partial[Model(i)] = 0
          /\ \E f \in {g \in Fresh(i) : \A h \in Fresh(i) : g <= h} :
                /\ files' = [files EXCEPT ![f] = [got |-> 0, good |-> TRUE]]
                /\ partial' = [partial EXCEPT ![Model(i)] = f]
                /\ op' = [op EXCEPT ![i].pc = "write", ![i].own = f]
                /\ stuck' = stuck \ {f}
    /\ UNCHANGED <<weight, outdated, ops, session, torn, taken>>

\* Mutant: more than the catalog's bytes are taken.
WriteUnbounded(i) ==
    /\ OpAt(i, "write")
    /\ files' = [files EXCEPT ![op[i].own].got = @ + 1]
    /\ UNCHANGED <<weight, partial, outdated, op>> /\ Stays

\* One chunk, intact or not, or the connection fails.
WriteChunk(i) ==
    /\ OpAt(i, "write")
    /\ \/ OpFails(i) /\ UNCHANGED files
       \/ /\ files[op[i].own].got < Size
          /\ \E intact \in BOOLEAN :
                files' = [files EXCEPT ![op[i].own] = [got |-> @.got + 1, good |-> @.good /\ intact]]
          /\ UNCHANGED op
    /\ UNCHANGED <<weight, partial, outdated>> /\ Stays

\* The size and the digest of what was written.
VerifyDigest(i) ==
    /\ OpAt(i, "write")
    /\ WholeWeight(op[i].own)
    /\ OpGoes(i, "written")
    /\ UNCHANGED <<files, weight, partial, outdated>> /\ Stays

\* _validate_part_identity before the promotion.
ValidatePart(i) ==
    /\ OpAt(i, "written")
    /\ \/ OpFails(i)
       \/ partial[Model(i)] = op[i].own /\ OpGoes(i, "appeared")
    /\ UNCHANGED <<files, weight, partial, outdated>> /\ Stays

\* Another instance may have promoted the weight meanwhile.
UseAppeared(i) ==
    /\ OpAt(i, "appeared")
    /\ \/ OpFails(i) /\ UNCHANGED <<weight, partial>>
       \/ /\ WholeWeight(weight[Model(i)]) /\ OpGoes(i, "done")
          /\ partial' = [partial EXCEPT ![Model(i)] = 0] /\ UNCHANGED weight
       \/ /\ ~WholeWeight(weight[Model(i)]) /\ OpGoes(i, "promote")
          /\ weight' = [weight EXCEPT ![Model(i)] = 0] /\ UNCHANGED partial
    /\ UNCHANGED <<files, outdated>> /\ Stays

PromotePart(i) ==
    /\ OpAt(i, "promote")
    /\ \/ OpFails(i) /\ UNCHANGED <<weight, partial>>
       \/ /\ partial[Model(i)] # 0 /\ OpGoes(i, "validate")
          /\ weight' = [weight EXCEPT ![Model(i)] = partial[Model(i)]]
          /\ partial' = [partial EXCEPT ![Model(i)] = 0]
    /\ UNCHANGED <<files, outdated>> /\ Stays

\* Mutant: what was promoted is taken for what was verified.
TrustPromotion(i) ==
    /\ OpAt(i, "validate") /\ OpGoes(i, "done")
    /\ UNCHANGED <<files, weight, partial, outdated>> /\ Stays

\* What stands at the name now must be the inode whose bytes were verified, in a
\* directory that is synchronized and still at its own name: else it is taken
\* away again.  A directory that cannot be synchronized leaves the weight, and so
\* does a removal that fails.
ValidateWeight(i) ==
    LET m == Model(i) IN
    /\ OpAt(i, "validate")
    /\ \/ weight[m] = op[i].own /\ OpGoes(i, "done") /\ UNCHANGED <<weight, taken, stuck>>
       \/ /\ OpFails(i) /\ weight' = [weight EXCEPT ![m] = 0] /\ UNCHANGED stuck
          /\ taken' = IF WholeWeight(weight[m]) THEN taken \cup {m} ELSE taken
       \/ /\ OpFails(i) /\ UNCHANGED <<weight, taken>>
          /\ stuck' = IF weight[m] \in {0, op[i].own} THEN stuck ELSE stuck \cup {weight[m]}
    /\ UNCHANGED <<files, partial, outdated, ops, session, torn>>

\* Mutant: a failed download leaves its part.
CleanupNothing(i) ==
    /\ OpAt(i, "cleanup") /\ OpEnds(i)
    /\ UNCHANGED <<files, weight, partial, outdated>> /\ Stays

\* _cleanup_part takes whatever part is there, or raises.
CleanupPart(i) ==
    /\ OpAt(i, "cleanup") /\ OpEnds(i)
    /\ \/ partial' = [partial EXCEPT ![Model(i)] = 0] /\ UNCHANGED stuck
       \/ /\ partial[Model(i)] # 0 /\ stuck' = stuck \cup {partial[Model(i)]}
          /\ UNCHANGED partial
    /\ UNCHANGED <<files, weight, outdated, ops, session, torn, taken>>

\* fetch returns, and with it the lock.
Downloaded(i) ==
    /\ OpAt(i, "done") /\ op[i].kind \in {"fetch", "redownload"}
    /\ IF op[i].kind = "fetch" THEN OpEnds(i) ELSE OpGoes(i, "fetched")
    /\ UNCHANGED <<files, weight, partial, outdated>> /\ Stays

\* Mutant: a batch removes the old copies of every model it was asked for.
RemoveAllReplaced(i) ==
    /\ OpAt(i, "fetched") /\ outdated' = outdated \ ({Model(i)} \cup op[i].rest)
    /\ NextInBatch(i, op[i].rest)
    /\ UNCHANGED <<files, weight, partial>> /\ Stays

\* The batch takes the lock again to remove the model's obsolete copies; a
\* manager closed meanwhile refuses, which ends the batch, and so does a removal
\* that fails.
RemoveReplaced(i) ==
    /\ OpAt(i, "fetched")
    /\ \/ OpEnds(i) /\ UNCHANGED outdated
       \/ /\ ~Refused(i, "redownload", Model(i))
          /\ outdated' = outdated \ {Model(i)} /\ NextInBatch(i, op[i].rest)
    /\ UNCHANGED <<files, weight, partial>> /\ Stays

\* remove: the weight of any model, the session's included, but not of one
\* whose client may still run.  It may fail.
RemoveWeight(i) ==
    /\ OpAt(i, "remove") /\ OpEnds(i)
    /\ \/ weight' = [weight EXCEPT ![Model(i)] = 0] /\ taken' = taken \cup {Model(i)}
       \/ UNCHANGED <<weight, taken>>
    /\ UNCHANGED <<files, partial, outdated, ops, session, torn, stuck>>

\* The directories of the obsolete versions, as far as they can be removed.
RemoveObsolete(i) ==
    /\ OpAt(i, "outdated") /\ OpEnds(i) /\ outdated' \in SUBSET outdated
    /\ UNCHANGED <<files, weight, partial>> /\ Stays

\* A failed start or replacement closes the client; when that fails too, the
\* models it may still hold stay pending until a close succeeds.
FailSession(held, named) ==
    \/ session' = NoSession
    \/ session' = [NoSession EXCEPT !.client = session.client, !.running = session.running,
                                    !.cleanup = held, !.pending = named]

\* Mutant: a failed replacement keeps the session it had.
StartKeepsActive ==
    LET m == Model(Owner) IN
    /\ OpAt(Owner, "done") /\ op[Owner].kind = "prepare" /\ OpEnds(Owner)
    /\ \/ session' = [session EXCEPT !.client = m, !.running = TRUE, !.active = m]
       \/ session.client # NoModel /\ session' = [session EXCEPT !.client = m, !.running = FALSE]
    /\ UNCHANGED <<files, weight, partial, outdated, ops, torn, taken, stuck>>

\* prepare's second half: a client is made and started, or the running one
\* replaces its model.
StartSession ==
    LET m == Model(Owner) IN
    /\ OpAt(Owner, "done") /\ op[Owner].kind = "prepare" /\ OpEnds(Owner)
    /\ \/ session' = [session EXCEPT !.client = m, !.running = TRUE, !.active = m]
       \/ session.client = NoModel
            /\ \/ session' = NoSession
               \/ session' = [NoSession EXCEPT !.client = m, !.cleanup = {m}, !.pending = m]
       \/ session.client # NoModel /\ FailSession({m, session.active}, session.active)
    /\ UNCHANGED <<files, weight, partial, outdated, ops, torn, taken, stuck>>

ChildDies ==
    /\ session.running /\ session' = [session EXCEPT !.running = FALSE]
    /\ UNCHANGED <<files, weight, partial, outdated, op, ops, torn, taken, stuck>>

\* close: retried as long as a client is left.
CloseManager ==
    /\ op[Owner].pc \in {"idle", "fetched"} /\ (~session.closed \/ session.client # NoModel)
    /\ \/ session' = [NoSession EXCEPT !.closed = TRUE]
       \/ /\ session.client # NoModel
          /\ session' = [NoSession EXCEPT !.closed = TRUE, !.client = session.client,
                !.running = session.running,
                !.pending = IF session.pending # NoModel THEN session.pending ELSE session.active,
                !.cleanup = IF session.pending # NoModel THEN session.cleanup ELSE {session.active}]
    /\ UNCHANGED <<files, weight, partial, outdated, op, ops, torn, taken, stuck>>

\* The process dies in an operation; its next run starts with what is on disk.
InstanceDies(i) ==
    /\ ~torn /\ ~OpAt(i, "idle") /\ OpEnds(i) /\ torn' = TRUE
    /\ session' = IF i = Owner THEN NoSession ELSE session
    /\ UNCHANGED <<files, weight, partial, outdated, ops, taken, stuck>>

ModelStep(i) ==
    \/ Fetch(i) \/ Redownload(i) \/ RemoveReplaced(i)
    \/ FindWeight(i) \/ RemoveStalePart(i) \/ OpenPart(i)
    \/ WriteChunk(i) \/ VerifyDigest(i) \/ ValidatePart(i) \/ UseAppeared(i) \/ PromotePart(i)
    \/ ValidateWeight(i) \/ CleanupPart(i) \/ Downloaded(i) \/ RemoveWeight(i)
    \/ RemoveObsolete(i) \/ InstanceDies(i)

ModelNext == (\E i \in Instances : ModelStep(i)) \/ (\E m \in Models : Prepare(m) \/ RemoveModel(m))
             \/ DeleteOutdated \/ StartSession \/ ChildDies \/ CloseManager

ModelSpec == ModelInit /\ [][ModelNext]_modelVars

---------------------------------------------------------------------------
Pcs == {"idle", "find", "stale", "open", "write", "written", "appeared", "promote",
        "validate", "done", "cleanup", "remove", "outdated", "fetched"}

ModelTypeOK ==
    /\ files \in [1..MaxFiles -> Content] /\ outdated \subseteq Models
    /\ weight \in [Models -> Inodes] /\ partial \in [Models -> Inodes]
    /\ op \in [Instances -> [kind : Kinds \cup {"none"}, model : Models \cup {NoModel},
                             pc : Pcs, own : Inodes, rest : SUBSET Models]]
    /\ \A i \in Instances : ops[i] \in 0..MaxOps[i] /\ torn \in BOOLEAN /\ taken \subseteq Models
    /\ stuck \subseteq 1..MaxFiles
    /\ session \in [client : Models \cup {NoModel}, running : BOOLEAN,
                    active : Models \cup {NoModel}, cleanup : SUBSET Models,
                    pending : Models \cup {NoModel}, closed : BOOLEAN]

\* A file that is not the verified weight stands at a weight's name only if
\* it did at the start, or between an instance's promotion and its check of
\* what it promoted, or because the process died there, or because the download
\* that found it could not remove it, and raised (download.py:288-291).
NamedWeightsAreVerified ==
    torn \/ \A m \in Models : weight[m] > 1 =>
        \/ WholeWeight(weight[m]) \/ weight[m] \in stuck
        \/ \E i \in Instances : OpAt(i, "validate") /\ Model(i) = m

\* A download that ended, in success or not, left no part behind, unless the
\* removal of that very file failed, which the download raises
\* (download.py:307-312): also when two instances fetched the model at once and
\* removed each other's part.
NoPartIsLeft ==
    torn \/ \A m \in Models : partial[m] # 0 =>
        \/ partial[m] \in stuck
        \/ \E i \in Instances : Model(i) = m /\ op[i].pc \notin {"idle", "find", "done", "fetched", "remove"}

\* The manager's record of the active model is what its one client was last
\* told to run, and a client that failed to close is never the active one.
ActiveIsWhatRuns ==
    /\ session.active # NoModel => session.active = session.client /\ session.cleanup = {}
    /\ session.running /\ session.active = NoModel => session.client \in session.cleanup

\* No step removes the weights of a client that may still be running although
\* its close failed.
PendingWeightsStay ==
    [][\A m \in session.cleanup : op[Owner].kind = "remove" /\ Model(Owner) = m =>
        weight'[m] = weight[m]]_modelVars

\* "Each outdated copy is deleted once its replacement has been verified"
\* (ui/model_manager/_controller.py:154): a batch deletes the old copy of a
\* model only when a verified weight stands at the new one's name, unless it was
\* taken away again before the batch got there.
OldCopyOutlivesDownload ==
    [][\A m \in Models, i \in Instances :
        m \in outdated /\ m \notin outdated' /\ op[i].pc = "fetched" /\ op'[i].pc # "fetched" =>
            WholeWeight(weight[m]) \/ m \in taken]_modelVars

\* The weights on disk, the batch over the obsolete ones and the one session
\* agree, with two instances at work and a client that fails to close.
ModelStoreCorrect ==
    /\ [](/\ ModelTypeOK
          /\ NamedWeightsAreVerified
          /\ NoPartIsLeft
          /\ ActiveIsWhatRuns)
    /\ PendingWeightsStay
    /\ OldCopyOutlivesDownload
===========================================================================
