---------------------------- MODULE Migration ----------------------------
(***************************************************************************)
(* jobs/workspace_migration.py and its worker in                           *)
(* ui/workspace_controller.py: a cut set is moved from the output folder   *)
(* into the cache.  It is copied beside the cached sets, compared with     *)
(* what was read, renamed into place and then removed, while the user      *)
(* edits frames, a job promotes cuts, a second instance clears away what   *)
(* it takes for a dead copy, operations fail and the process dies.         *)
(*                                                                         *)
(* A frame is the number of times the user rewrote it; of a manifest only  *)
(* the pin matters.                                                        *)
(***************************************************************************)
EXTENDS Naturals, FiniteSets

CONSTANTS
    FrameNames,
    Absent,
    MaxRuns,      \* migrations the user asks for
    MaxRewrites,  \* frames the user rewrites in the legacy set
    MaxTroubles   \* operations that fail, and deaths of the process

CutFiles == FrameNames \cup {"manifest"}

ASSUME MigrationAssumption ==
    /\ {MaxRuns, MaxRewrites, MaxTroubles} \subseteq Nat
    /\ "manifest" \notin FrameNames
    /\ Absent \notin Nat \cup [CutFiles -> Nat \cup {Absent}]

VARIABLES
    tree,      \* place -> what is in the directory, file by file
    latest,    \* frame -> what the user saved last in the legacy set
    overtaken, \* frames rewritten while the set was being removed
    pinned,    \* the legacy set is pinned
    transform, \* the saved transform beside the sets of a root
    stage,     \* where migrate_cut_set is
    scanned,   \* the frames read from the legacy set
    copied,    \* the files that were copied
    found,     \* the cached set of the same key, if there was one
    outcome,   \* MigrationStatus
    sweeper,   \* the directory a second instance is removing
    runsLeft, rewritesLeft, troublesLeft

migrationVars == <<tree, latest, overtaken, pinned, transform, stage, scanned, copied,
                   found, outcome, sweeper, runsLeft, rewritesLeft, troublesLeft>>

CachePlaces == {"named", "keyed"}  \* <name>, and <key> as older versions named it
MigrationPlaces == {"source", "temporary"} \cup CachePlaces
Theirs == MaxRewrites + 1          \* a frame of another set
CutsOf(pin, version) == [f \in CutFiles |-> IF f = "manifest" THEN pin ELSE version]

Exists(p) == tree[p] # Absent
Readable(p) == Exists(p) /\ \A f \in CutFiles : tree[p][f] # Absent
FramesAt(p) == [f \in FrameNames |-> tree[p][f]]

MigrationInit ==
    /\ pinned \in BOOLEAN
    /\ \E other \in {Absent, CutsOf(0, Theirs)}, name \in CachePlaces :
         tree = [p \in MigrationPlaces |->
                   CASE p = "source" -> CutsOf(IF pinned THEN 1 ELSE 0, 0)
                     [] p = name -> other
                     [] OTHER -> Absent]
    /\ latest = [f \in FrameNames |-> 0] /\ overtaken = {}
    /\ \E s \in {"none", "legacy"}, c \in {"none", "cached"} :
         transform = [source |-> s, cache |-> c]
    /\ stage = "IDLE" /\ scanned = latest /\ copied = {} /\ found = "none" /\ outcome = "NONE" /\ sweeper = "none"
    /\ runsLeft = MaxRuns /\ rewritesLeft = MaxRewrites /\ troublesLeft = MaxTroubles

MigrationAt(s) == stage = s
GoesOn(s) == stage' = s /\ UNCHANGED outcome
EndsWith(status) == stage' = "IDLE" /\ outcome' = status
\* What a step of a migration leaves alone, and what only trouble changes.
InputsStay == UNCHANGED <<latest, overtaken, pinned, sweeper, runsLeft, rewritesLeft>>
Smoothly == InputsStay /\ UNCHANGED troublesLeft
Trouble == troublesLeft > 0 /\ troublesLeft' = troublesLeft - 1

\* The worker goes to the next set of its list, unless it was cancelled.  What
\* an earlier migration left in the cache is removed first.
StartMigration ==
    /\ MigrationAt("IDLE") /\ Exists("source")
    /\ runsLeft > 0 /\ runsLeft' = runsLeft - 1
    /\ stage' = "STALE" /\ outcome' = "NONE" /\ copied' = {}
    /\ UNCHANGED <<tree, latest, overtaken, pinned, transform, scanned, found, sweeper, rewritesLeft, troublesLeft>>

RemoveStale ==
    /\ MigrationAt("STALE")
    /\ tree' = [tree EXCEPT !["temporary"] = Absent]
    /\ GoesOn("READ") \/ EndsWith("CANCELLED")
    /\ Smoothly /\ UNCHANGED <<transform, scanned, copied, found>>

\* A set that lost its manifest, or a frame of it, is left where it is.
ReadLegacy ==
    /\ MigrationAt("READ")
    /\ IF Readable("source")
       THEN GoesOn("LOOK") /\ scanned' = FramesAt("source")
       ELSE /\ EndsWith(IF Exists("source") /\ tree["source"]["manifest"] # Absent
                        THEN "FAILED" ELSE "UNREADABLE")
            /\ UNCHANGED scanned
    /\ Smoothly /\ UNCHANGED <<tree, transform, copied, found>>

\* _existing_promoted_path: the directory of that key, under the older name
\* first.  A set whose manifest cannot be read has no key.
CachedSet ==
    IF Exists("keyed") THEN "keyed"
    ELSE IF Exists("named") /\ tree["named"]["manifest"] # Absent THEN "named" ELSE "none"

LookForKey ==
    /\ MigrationAt("LOOK") /\ found' = CachedSet
    /\ IF CachedSet = "none" THEN GoesOn("COPY") \/ EndsWith("NO_SPACE")
       ELSE IF ~Readable(CachedSet) THEN EndsWith("FAILED")
       ELSE IF FramesAt(CachedSet) # scanned THEN EndsWith("KEPT_BOTH")
       ELSE GoesOn("PIN")
    /\ Smoothly /\ UNCHANGED <<tree, transform, scanned, copied>>

\* Mutant: the cached set of the same frames is not pinned in its place.
PinNothing ==
    /\ MigrationAt("PIN") /\ GoesOn("SIDECAR")
    /\ Smoothly /\ UNCHANGED <<tree, transform, scanned, copied, found>>

\* set_pinned of the cached set, which stays when the legacy one goes; it
\* looks at the set again.
PinCached ==
    /\ MigrationAt("PIN")
    /\ IF pinned /\ tree[found]["manifest"] # 1
       THEN IF Readable(found)
            THEN GoesOn("SIDECAR") /\ tree' = [tree EXCEPT ![found]["manifest"] = 1]
            ELSE EndsWith("FAILED") /\ UNCHANGED tree
       ELSE GoesOn("SIDECAR") /\ UNCHANGED tree
    /\ Smoothly /\ UNCHANGED <<transform, scanned, copied, found>>

\* The manifest first, then the frames, as they are by now.
CopyFile(f) ==
    /\ MigrationAt("COPY") /\ f \notin copied /\ (copied = {} => f = "manifest")
    /\ IF tree["source"][f] = Absent \/ (copied # {} /\ ~Exists("temporary"))
       THEN EndsWith("FAILED") /\ UNCHANGED <<tree, copied>>
       ELSE /\ tree' = [tree EXCEPT !["temporary"] =
                          [g \in CutFiles |-> IF g = f THEN tree["source"][f]
                                              ELSE IF copied = {} THEN Absent ELSE tree["temporary"][g]]]
            /\ copied' = copied \cup {f}
            /\ GoesOn(IF copied' = CutFiles THEN "VERIFY" ELSE "COPY")
    /\ Smoothly /\ UNCHANGED <<transform, scanned, found>>

\* The copy is read again; it may hold a frame saved since the scan.
VerifyCopy ==
    /\ MigrationAt("VERIFY")
    /\ IF Readable("temporary") /\ FramesAt("temporary") = scanned
       THEN GoesOn("PUBLISH") /\ UNCHANGED tree
       ELSE EndsWith("FAILED") /\ tree' \in {tree, [tree EXCEPT !["temporary"] = Absent]}
    /\ Smoothly /\ UNCHANGED <<transform, scanned, copied, found>>

\* Mutant: the rename replaces what is there by now.
PublishOver ==
    /\ MigrationAt("PUBLISH") /\ Exists("temporary")
    /\ tree' = [tree EXCEPT !["named"] = tree["temporary"], !["temporary"] = Absent]
    /\ GoesOn("SIDECAR") /\ sweeper' = IF sweeper = "temporary" THEN "named" ELSE sweeper
    /\ UNCHANGED <<latest, overtaken, pinned, transform, scanned, copied, found, runsLeft, rewritesLeft,
                   troublesLeft>>

\* A rename onto a directory fails; a second instance goes on removing the
\* directory it holds open.
PublishCopy ==
    /\ MigrationAt("PUBLISH")
    /\ IF Exists("named") THEN EndsWith("KEPT_BOTH") /\ UNCHANGED <<tree, sweeper>>
       ELSE IF ~Exists("temporary") THEN EndsWith("FAILED") /\ UNCHANGED <<tree, sweeper>>
       ELSE /\ tree' = [tree EXCEPT !["named"] = tree["temporary"], !["temporary"] = Absent]
            /\ sweeper' = IF sweeper = "temporary" THEN "named" ELSE sweeper
            /\ GoesOn("SIDECAR")
    /\ UNCHANGED <<latest, overtaken, pinned, transform, scanned, copied, found, runsLeft, rewritesLeft,
                   troublesLeft>>

\* The saved transform of the legacy set replaces one in the cache.
CopySidecar ==
    /\ MigrationAt("SIDECAR")
    /\ transform' = IF transform.source = "legacy"
                    THEN [transform EXCEPT !.cache = "legacy"] ELSE transform
    /\ GoesOn("MATCH")
    /\ Smoothly /\ UNCHANGED <<tree, scanned, copied, found>>

\* Mutant: the legacy set is not looked at again before it goes.
MatchNothing ==
    /\ MigrationAt("MATCH") /\ GoesOn("REMOVE")
    /\ Smoothly /\ UNCHANGED <<tree, transform, scanned, copied, found>>

SourceMatches ==
    /\ MigrationAt("MATCH")
    /\ IF Readable("source") /\ FramesAt("source") = scanned THEN GoesOn("REMOVE")
       ELSE EndsWith(IF found = "none" THEN "MOVED_SOURCE_REMAINS" ELSE "KEPT_BOTH")
    /\ Smoothly /\ UNCHANGED <<tree, transform, scanned, copied, found>>

\* _remove_tree takes one file after another, in no order, and the directory last.
RemoveSource ==
    /\ MigrationAt("REMOVE")
    /\ \/ \E f \in CutFiles : /\ tree["source"][f] # Absent
                              /\ tree' = [tree EXCEPT !["source"][f] = Absent]
                              /\ GoesOn("REMOVE")
       \/ /\ \A f \in CutFiles : tree["source"][f] = Absent
          /\ tree' = [tree EXCEPT !["source"] = Absent]
          /\ GoesOn("FORGET")
    /\ Smoothly /\ UNCHANGED <<transform, scanned, copied, found>>

\* The sidecar goes last; empty directories above it go if they can.
RemoveSidecar ==
    /\ MigrationAt("FORGET")
    /\ transform' = IF transform.source = "legacy"
                    THEN [transform EXCEPT !.source = "removed"] ELSE transform
    /\ EndsWith(IF found = "none" THEN "MOVED" ELSE "REDUNDANT_REMOVED")
    /\ Smoothly /\ UNCHANGED <<tree, scanned, copied, found>>

\* The operation of a step raises: what the error is called depends on
\* whether the cache has the set by then.
MigrationFails ==
    /\ Trouble
    /\ \/ stage \in {"STALE", "READ", "LOOK", "PIN", "COPY", "VERIFY", "PUBLISH"} /\ EndsWith("FAILED")
       \/ stage = "READ" /\ EndsWith("UNREADABLE")
       \/ stage \in {"SIDECAR", "MATCH", "REMOVE", "FORGET"} /\ EndsWith("MOVED_SOURCE_REMAINS")
       \/ stage = "MATCH" /\ found # "none" /\ EndsWith("KEPT_BOTH")
    /\ InputsStay /\ UNCHANGED <<tree, transform, scanned, copied, found>>

\* The process dies; the next one offers what it finds.
MigrationDies ==
    /\ stage # "IDLE" /\ Trouble /\ EndsWith("NONE")
    /\ InputsStay /\ UNCHANGED <<tree, transform, scanned, copied, found>>

\* The user saves a frame of the legacy set from another program.
RewriteLegacyFrame(f) ==
    /\ Exists("source") /\ tree["source"][f] # Absent
    /\ rewritesLeft > 0 /\ rewritesLeft' = rewritesLeft - 1
    /\ latest' = [latest EXCEPT ![f] = @ + 1]
    /\ tree' = [tree EXCEPT !["source"][f] = latest[f] + 1]
    /\ overtaken' = IF MigrationAt("REMOVE") THEN overtaken \cup {f} ELSE overtaken
    /\ UNCHANGED <<pinned, transform, stage, scanned, copied, found, outcome, sweeper, runsLeft, troublesLeft>>

\* A job of the same key promotes its cuts under a name that is free.
JobPromotes ==
    /\ stage # "IDLE" /\ CachedSet = "none" /\ ~Exists("named") /\ Trouble
    /\ tree' = [tree EXCEPT !["named"] = CutsOf(0, Theirs)]
    /\ UNCHANGED <<transform, stage, scanned, copied, found, outcome>> /\ InputsStay

\* _remove_stale_migrations of a second instance takes the copy for a dead one.
\* It holds the directory: a rename does not stop it, but keeps the directory.
OtherSweeps ==
    /\ \/ Exists("temporary") /\ sweeper = "none" /\ Trouble /\ sweeper' = "temporary"
       \/ sweeper \in {"temporary", "named"} /\ UNCHANGED <<sweeper, troublesLeft>>
    /\ LET p == sweeper' IN
       /\ Exists(p)
       /\ \/ \E f \in CutFiles : /\ tree[p][f] # Absent
                                /\ tree' = [tree EXCEPT ![p][f] = Absent]
          \/ /\ p = "temporary" /\ \A f \in CutFiles : tree[p][f] = Absent
             /\ tree' = [tree EXCEPT ![p] = Absent]
    /\ UNCHANGED <<latest, overtaken, pinned, transform, stage, scanned, copied, found, outcome,
                   runsLeft, rewritesLeft>>

MigrationNext ==
    \/ StartMigration \/ RemoveStale \/ ReadLegacy \/ LookForKey \/ PinCached
    \/ \E f \in CutFiles : CopyFile(f)
    \/ VerifyCopy \/ PublishCopy \/ CopySidecar \/ SourceMatches
    \/ RemoveSource \/ RemoveSidecar \/ MigrationFails \/ MigrationDies
    \/ \E f \in FrameNames : RewriteLegacyFrame(f)
    \/ JobPromotes \/ OtherSweeps

MigrationSpec == MigrationInit /\ [][MigrationNext]_migrationVars
---------------------------------------------------------------------------
CutTrees == [CutFiles -> 0..Theirs \cup {Absent}] \cup {Absent}

MigrationTypeOK ==
    /\ tree \in [MigrationPlaces -> CutTrees]
    /\ latest \in [FrameNames -> 0..MaxRewrites] /\ overtaken \subseteq FrameNames
    /\ pinned \in BOOLEAN
    /\ transform \in [source : {"none", "legacy", "removed"}, cache : {"none", "cached", "legacy"}]
    /\ scanned \in [FrameNames -> 0..MaxRewrites] /\ copied \subseteq CutFiles /\ found \in CachePlaces \cup {"none"}
    /\ sweeper \in {"none", "temporary", "named"}

\* No second instance took the copy for a dead one.
NotSwept == sweeper = "none"

\* Every frame the user has saved in the legacy set is there or in the cache,
\* whatever failed and wherever the process died; but for one saved while
\* the set was being removed.
LegacyFramesAreKept ==
    NotSwept => \A f \in FrameNames \ overtaken :
        \E p \in {"source"} \cup CachePlaces : Exists(p) /\ tree[p][f] = latest[f]

\* So is the pin, and the saved transform.
PinIsKept ==
    NotSwept /\ pinned =>
        \E p \in {"source"} \cup CachePlaces : Exists(p) /\ tree[p]["manifest"] = 1
TransformIsKept == transform.source = "removed" => transform.cache = "legacy"

\* A set reported as moved is whole in the cache and gone from the folder; one
\* reported as kept has lost nothing.
ReportIsTrue ==
    /\ outcome \in {"MOVED", "REDUNDANT_REMOVED"} =>
         /\ ~Exists("source")
         /\ NotSwept => \E p \in CachePlaces :
               Readable(p) /\ \A f \in FrameNames \ overtaken : tree[p][f] = latest[f]
    /\ outcome \in {"KEPT_BOTH", "NO_SPACE"} => Readable("source")

\* A cached set that was there before is not written over.
CachedSetsStay ==
    [][\A p \in CachePlaces : NotSwept /\ Exists(p) => Exists(p)' /\ FramesAt(p)' = FramesAt(p)]_migrationVars

MigrationCorrect ==
    /\ [](MigrationTypeOK /\ LegacyFramesAreKept /\ PinIsKept /\ TransformIsKept /\ ReportIsTrue)
    /\ CachedSetsStay
===========================================================================
