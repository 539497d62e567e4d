---------------------------- MODULE MCStorage ----------------------------
(* The components that keep files, directories and jobs, for TLC: they      *)
(* share no state with one another, so a behaviour chooses one of them at   *)
(* the start, and only that one steps.                                      *)
EXTENDS JobContext, ModelStore, BoundDirectory, BoundEntries,
        CutPromotion, OutputPublication, Migration, TLC

VARIABLE component

CONSTANT o1

---------------------------------------------------------------------------
(* Values of the constants *)

\* ModelStore: what the owner starts, and the other instance.
MCMaxOps == [i \in {Owner, Other} |-> IF i = Owner THEN 2 ELSE 1]

\* CutPromotion: three jobs and two crashes, or two jobs, a crash, a rescan and
\* an edit or a misread directory.
MCPromotionBounds ==
    {[jobs |-> 3, edits |-> 0, scans |-> 0, reads |-> 0, crashes |-> 2],
     [jobs |-> 2, edits |-> 1, scans |-> 1, reads |-> 0, crashes |-> 1],
     [jobs |-> 2, edits |-> 0, scans |-> 1, reads |-> 1, crashes |-> 1]}

\* OutputPublication: the processes are alike.
Processes == Permutations(Writers)

---------------------------------------------------------------------------
(* One component at a time *)

Components == {"context", "models", "directory", "entries", "promotion", "publication", "migration"}

\* ModelStore: where no weight was found, what it would have held is of no matter.
OneAbsence == weight[Shared] = 0 => ~files[1].good

\* A component that was not chosen starts in one of its states.
Waits(c, start) == component # c => start

StorageInit ==
    /\ component \in Components
    /\ Init
    /\ ModelInit /\ OneAbsence /\ Waits("models", ~files[1].good /\ weight[Shared] = 0)
    /\ BoundInit /\ Waits("directory", platform = "posix")
    /\ EntriesInit /\ Waits("entries", windows)
    /\ PromotionInit /\ Waits("promotion", bounds.jobs = 3)
    /\ PublicationInit /\ Waits("publication", named["OUTPUT"] = 1)
    /\ MigrationInit /\ Waits("migration", pinned /\ tree["named"] = Absent /\ tree["keyed"] = Absent /\ transform = [source |-> "none", cache |-> "none"])

Waiting(c, state) == component # c => UNCHANGED state
OthersWait ==
    /\ Waiting("context", vars)
    /\ Waiting("models", modelVars)
    /\ Waiting("directory", boundVars)
    /\ Waiting("entries", entryVars)
    /\ Waiting("promotion", promotionVars)
    /\ Waiting("publication", publicationVars)
    /\ Waiting("migration", migrationVars)
    /\ UNCHANGED component

\* Bound: a writer dies, or the user changes the output.
OneTrouble == budget'.user + budget'.deaths <= 1

\* Bound: where all three operations begin, no process dies, no removal fails and
\* no client of the owner fails to close; with two of them everything may happen.
FewFaults ==
    (torn' \/ stuck' # {} \/ session'.cleanup # {}) => ops'[Other] = 0 \/ ops'[Owner] <= 1

\* CutPromotion: new sets have readable names, so that an opener keeps out of a
\* promotion only because it happens to; what comes of one that does not is the
\* run promotion_lock.
StorageNext ==
    \/ component = "context" /\ Next /\ OthersWait
    \/ component = "models" /\ ModelNext /\ FewFaults /\ OthersWait
    \/ component = "directory" /\ BoundNext /\ OthersWait
    \/ component = "entries" /\ EntriesNext /\ OthersWait
    \/ component = "promotion" /\ PromotionNext /\ PromotesAlone' /\ OthersWait
    \/ component = "publication" /\ PublicationNext /\ OneTrouble /\ OthersWait
    \/ component = "migration" /\ MigrationNext /\ OthersWait

storageVars == <<component, vars, modelVars, boundVars, entryVars, promotionVars, publicationVars,
                 migrationVars>>

StorageSpec == StorageInit /\ [][StorageNext]_storageVars
===========================================================================
