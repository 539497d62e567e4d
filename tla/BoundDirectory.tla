-------------------------- MODULE BoundDirectory --------------------------
(***************************************************************************)
(* jobs/workspace/_filesystem.py, jobs/models/cache_fs.py and the owners   *)
(* of failed closes in jobs/workspace/_runtime_helpers.py: a path is bound *)
(* by opening its components one below the other, while other processes    *)
(* rename the directories on it.  The path is <anchor>/<one>/<two>.        *)
(*                                                                         *)
(* POSIX keeps the last descriptor alone; Windows holds every handle, and  *)
(* whether its share mode lets the directory be renamed depends on why it  *)
(* was opened.  The kernel gives a closed handle's number to the next open.*)
(***************************************************************************)
EXTENDS Naturals, FiniteSets

CONSTANTS
    Binds,      \* bound directories, in the order they are made
    MaxHandles, \* the kernel's table
    Capacity,   \* MAX_DEFERRED_BOUND_DIRECTORY_CLOSES
    MaxFaults,  \* closes that fail
    MaxMoves    \* changes to the tree by others

ASSUME BoundDirectoryAssumption ==
    /\ {MaxHandles, Capacity, MaxFaults, MaxMoves} \subseteq Nat
    /\ Binds \subseteq Nat \ {0}

VARIABLES
    platform, \* "posix" or "windows"
    below,    \* directory -> the directory at the path's next component
    linked,   \* directories where that component is a link or junction
    table,    \* handle -> the directory it is open on and the bind that opened it
    bound,    \* bind -> the _BoundDirectory or BoundModelDirectory
    registry, \* _deferred_bound_directory_closes
    attached, \* error -> the owners attached to it
    closesLeft, movesLeft

boundVars == <<platform, below, linked, table, bound, registry, attached, closesLeft, movesLeft>>

Dirs == {"anchor", "one", "one2", "two", "two2"}
Closed == [dir |-> "none", by |-> 0]
Handles == 1..MaxHandles
Purposes == {"workspace", "publication", "cache"}
Unbound == [purpose |-> "workspace", pc |-> "none", held |-> {}, last |-> 0, cleanup |-> {}, entered |-> FALSE]

PathDirectory == below[below["anchor"]]
HeldBy(b) == bound[b].held \cup bound[b].cleanup
BoundTo(b) == table[bound[b].last].dir
FreeHandle == CHOOSE h \in Handles : table[h] = Closed /\ \A g \in 1..h - 1 : table[g] # Closed
CanOpen == \E h \in Handles : table[h] = Closed
Opened(b, dir) == table' = [table EXCEPT ![FreeHandle] = [dir |-> dir, by |-> b]]

BoundInit ==
    /\ platform \in {"posix", "windows"}
    /\ below = [d \in Dirs |-> CASE d = "anchor" -> "one" [] d = "one" -> "two"
                                 [] d = "one2" -> "two2" [] OTHER -> "none"]
    /\ linked = {} /\ table = [h \in Handles |-> Closed]
    /\ bound = [b \in Binds |-> Unbound]
    /\ registry = {} /\ attached = [e \in {"raised", "wrapped"} |-> {}]
    /\ closesLeft = MaxFaults /\ movesLeft = MaxMoves

\* Windows refuses to rename a directory that a handle without delete sharing
\* is open on: every one but the last of a publication parent.
Pinned(d) ==
    /\ platform = "windows"
    /\ \E h \in Handles : table[h].dir = d /\
         LET b == table[h].by IN
         ~(bound[b].purpose = "publication" /\ d \in {"two", "two2"})

\* Another process renames a directory of the path away and another one, or a
\* link to one, into its place.
Redirect(parent) ==
    /\ movesLeft > 0 /\ movesLeft' = movesLeft - 1
    /\ ~Pinned(below[parent])
    /\ linked' \in {linked \cup {parent}, linked \ {parent}}
    /\ \/ below' = below
       \/ below' = IF parent = "anchor"
                   THEN [below EXCEPT !["anchor"] = IF @ = "one" THEN "one2" ELSE "one"]
                   ELSE [below EXCEPT !["one"] = below["one2"], !["one2"] = below["one"]]
    /\ UNCHANGED <<platform, table, bound, registry, attached, closesLeft>>

\* open, _open_windows, _open_windows_publication, bind: the anchor is opened
\* by its full path.
OpenAnchor(b, purpose) ==
    /\ bound[b].pc = "none" /\ CanOpen /\ \A c \in Binds : c < b => bound[c].pc # "none"
    /\ Opened(b, "anchor")
    /\ bound' = [bound EXCEPT ![b] = [purpose |-> purpose, pc |-> "walking",
                                      held |-> {FreeHandle}, last |-> FreeHandle,
                                      cleanup |-> {}, entered |-> FALSE]]
    /\ UNCHANGED <<platform, below, linked, registry, attached, closesLeft, movesLeft>>

Walking(b) == bound[b].pc = "walking"
\* Mutant: the end is told by the directory that was there at first.
AtEndByDirectory(b) == BoundTo(b) = "two"
AtEnd(b) == BoundTo(b) \in {"two", "two2"}

\* Mutant: the bind on Windows keeps the last handle alone, as on POSIX.
OpenComponentKeepLast(b) ==
    /\ Walking(b) /\ ~AtEnd(b) /\ CanOpen
    /\ BoundTo(b) \notin linked
    /\ table' = [table EXCEPT ![FreeHandle] = [dir |-> below[BoundTo(b)], by |-> b],
                              ![bound[b].last] = Closed]
    /\ bound' = [bound EXCEPT ![b].held = {FreeHandle}, ![b].last = FreeHandle]
    /\ UNCHANGED <<platform, below, linked, registry, attached, closesLeft, movesLeft>>

\* The next component, opened relative to the last handle.  On POSIX the parent
\* is closed next; a close that fails leaves the child open and the parent, by
\* then released or not, to be closed once more.
OpenComponent(b) ==
    LET parent == bound[b].last
        down == [dir |-> below[BoundTo(b)], by |-> b] IN
    /\ Walking(b) /\ ~AtEnd(b) /\ CanOpen
    /\ IF BoundTo(b) \in linked \cup {"none"}
       THEN bound' = [bound EXCEPT ![b].pc = "failing"] /\ UNCHANGED <<table, closesLeft>>
       ELSE \/ /\ platform = "windows" /\ Opened(b, down.dir)
               /\ bound' = [bound EXCEPT ![b].held = @ \cup {FreeHandle}, ![b].last = FreeHandle]
               /\ UNCHANGED closesLeft
            \/ /\ platform = "posix"
               /\ table' = [table EXCEPT ![FreeHandle] = down, ![parent] = Closed]
               /\ bound' = [bound EXCEPT ![b].held = {FreeHandle}, ![b].last = FreeHandle]
               /\ UNCHANGED closesLeft
            \/ /\ platform = "posix" /\ closesLeft > 0 /\ closesLeft' = closesLeft - 1
               /\ \E released \in BOOLEAN :
                     table' = [table EXCEPT ![FreeHandle] = down,
                                            ![parent] = IF released THEN Closed ELSE @]
               /\ bound' = [bound EXCEPT ![b].pc = "failing"]
    /\ UNCHANGED <<platform, below, linked, registry, attached, movesLeft>>

Bound(b) ==
    /\ Walking(b) /\ AtEnd(b)
    /\ bound' = [bound EXCEPT ![b].pc = "bound", ![b].entered = TRUE]
    /\ UNCHANGED <<platform, below, linked, table, registry, attached, closesLeft, movesLeft>>

\* Each handle is closed, the failed closes among them set apart.  A failed
\* close leaves a Windows handle open; a descriptor may be gone.
Closing(hs, failed) ==
    /\ failed \subseteq hs /\ Cardinality(failed) <= closesLeft
    /\ closesLeft' = closesLeft - Cardinality(failed)
    /\ \E gone \in SUBSET failed :
         /\ platform = "windows" => gone = {}
         /\ table' = [h \in Handles |-> IF h \in (hs \ failed) \cup gone THEN Closed ELSE table[h]]

\* Mutant: an owner is dropped when the registry is full.
RetainIfRoom(b) ==
    /\ registry' = IF Cardinality(registry) < Capacity THEN registry \cup {b} ELSE registry
    /\ UNCHANGED attached

\* _retain_deferred_bound_directory_close: beyond its capacity an owner stays
\* with the error being raised.
Retain(b) ==
    IF b \in registry \/ Cardinality(registry) < Capacity
    THEN registry' = registry \cup {b} /\ UNCHANGED attached
    ELSE attached' = [attached EXCEPT !["raised"] = @ \cup {b}] /\ UNCHANGED registry

\* Mutant: after a failed close every handle is kept for another try.
RemainingAll(b, failed) == bound' = [bound EXCEPT ![b].pc = "closed"]

Remaining(b, failed) ==
    bound' = [bound EXCEPT ![b].pc = "closed",
                           ![b].held = @ \cap failed,
                           ![b].cleanup = @ \cap failed]

\* A bind that failed closes what it opened.  Only a publication parent
\* remembers the closes that failed.
UnwindBind(b) ==
    /\ bound[b].pc = "failing"
    /\ \E failed \in SUBSET HeldBy(b) :
         /\ Closing(HeldBy(b), failed)
         /\ IF bound[b].purpose = "publication" /\ platform = "windows"
            THEN /\ Remaining(b, failed)
                 /\ IF failed # {} THEN Retain(b) ELSE UNCHANGED <<registry, attached>>
            ELSE Remaining(b, {}) /\ UNCHANGED <<registry, attached>>
    /\ UNCHANGED <<platform, below, linked, movesLeft>>

\* Mutant: a close that succeeds after all leaves its owner in the registry.
ForgetNothing(b) == UNCHANGED <<registry, attached>>

\* close forgets an owner that has closed everything.
Forget(b) == registry' = registry \ {b} /\ UNCHANGED attached

\* close and __exit__: a _BoundDirectory keeps the handles whose close failed
\* and retains itself, if they are handles; a BoundModelDirectory has let them
\* go by then.
CloseBound(b) ==
    /\ bound[b].pc = "bound"
    /\ \E failed \in SUBSET HeldBy(b) :
         /\ Closing(HeldBy(b), failed)
         /\ IF bound[b].purpose = "cache"
            THEN Remaining(b, {}) /\ UNCHANGED <<registry, attached>>
            ELSE /\ Remaining(b, failed)
                 /\ IF failed = {} THEN Forget(b)
                    ELSE IF platform = "windows" THEN Retain(b)
                    ELSE UNCHANGED <<registry, attached>>
    /\ UNCHANGED <<platform, below, linked, movesLeft>>

\* open_child and open_publication_child of a Windows directory, when the child
\* turns out redirected: a handle that then fails to close is the parent's to
\* clean up.
FailChild(b) ==
    /\ bound[b].pc = "bound" /\ bound[b].purpose # "cache" /\ platform = "windows"
    /\ CanOpen /\ closesLeft > 0 /\ closesLeft' = closesLeft - 1
    /\ Opened(b, "child")
    /\ bound' = [bound EXCEPT ![b].cleanup = @ \cup {FreeHandle}]
    /\ UNCHANGED <<platform, below, linked, registry, attached, movesLeft>>

\* _drain_deferred_bound_directory_closes closes one owner after another, and
\* _drain_attached_bound_directory_closes those of one error.
DrainDeferred(b) ==
    /\ b \in registry
    /\ \E failed \in SUBSET HeldBy(b) :
         /\ Closing(HeldBy(b), failed) /\ Remaining(b, failed)
         /\ IF failed = {} THEN Forget(b) ELSE UNCHANGED <<registry, attached>>
    /\ UNCHANGED <<platform, below, linked, movesLeft>>

DrainAttached(b, e) ==
    /\ b \in attached[e]
    /\ \E failed \in SUBSET HeldBy(b) :
         /\ Closing(HeldBy(b), failed) /\ Remaining(b, failed)
         /\ registry' = IF failed = {} THEN registry \ {b} ELSE registry
         /\ attached' = IF failed = {} THEN [attached EXCEPT ![e] = @ \ {b}] ELSE attached
    /\ UNCHANGED <<platform, below, linked, movesLeft>>

\* transfer_deferred_bound_directory_closes: the error is translated.
Transfer ==
    /\ attached["raised"] # {}
    /\ attached' = [raised |-> {}, wrapped |-> attached["raised"] \cup attached["wrapped"]]
    /\ UNCHANGED <<platform, below, linked, table, bound, registry, closesLeft, movesLeft>>

\* assert_still_named succeeds: on POSIX the path must lead to the descriptor's
\* directory; Windows trusts its handles.
AssertStillNamed(b) ==
    /\ bound[b].pc = "bound"
    /\ platform = "posix" => BoundTo(b) = PathDirectory /\ below["anchor"] \notin linked

BoundStep(b) ==
    \/ \E purpose \in Purposes : OpenAnchor(b, purpose)
    \/ OpenComponent(b) \/ Bound(b) \/ UnwindBind(b) \/ CloseBound(b) \/ FailChild(b)
    \/ DrainDeferred(b) \/ \E e \in DOMAIN attached : DrainAttached(b, e)

BoundNext == (\E b \in Binds : BoundStep(b)) \/ Transfer
             \/ \E parent \in {"anchor", below["anchor"]} : Redirect(parent)

BoundSpec == BoundInit /\ [][BoundNext]_boundVars
---------------------------------------------------------------------------
BoundTypeOK ==
    /\ platform \in {"posix", "windows"} /\ linked \subseteq Dirs
    /\ DOMAIN below = Dirs /\ \A d \in Dirs : below[d] \in Dirs \cup {"none"}
    /\ table \in [Handles -> [dir : Dirs \cup {"none", "child"}, by : Binds \cup {0}]]
    /\ \A h \in Handles : table[h].dir = "none" <=> table[h].by = 0
    /\ \A b \in Binds :
         /\ bound[b].purpose \in Purposes /\ bound[b].entered \in BOOLEAN
         /\ bound[b].pc \in {"none", "walking", "failing", "bound", "closed"}
         /\ HeldBy(b) \subseteq Handles
    /\ registry \subseteq Binds /\ attached \in [{"raised", "wrapped"} -> SUBSET Binds]
    /\ closesLeft \in 0..MaxFaults /\ movesLeft \in 0..MaxMoves

\* On Windows no handle of a publication parent, nor of a workspace directory
\* that was bound, is forgotten while it is open: the walk, the directory, the
\* registry or an error still knows whom to ask for it.  A bind that fails on
\* the way to a workspace, and a model directory, do lose a handle whose close
\* fails.
OpenHandlesHaveAnOwner ==
    platform = "windows" => \A h \in Handles :
        LET b == table[h].by IN
        (b # 0 /\ bound[b].purpose # "cache" /\ (bound[b].purpose = "publication" \/ bound[b].entered)) =>
            /\ h \in HeldBy(b)
            /\ \/ bound[b].pc # "closed" \/ b \in registry
               \/ \E e \in DOMAIN attached : b \in attached[e]

\* On Windows no one holds the number of a handle that was closed, which would
\* by then be another's: a retried close closes its owner's handle.
HeldHandlesAreOwn ==
    platform = "windows" => \A b \in Binds : \A h \in HeldBy(b) : table[h].by = b

\* The registry is no larger than its capacity, and whoever is in it has a
\* handle left to close, however often and wherever it was drained.
RegistryHoldsOpenOwners ==
    /\ Cardinality(registry) <= Capacity
    /\ \A b \in registry : HeldBy(b) # {}

\* A directory asserted to be still named is the one its path leads to: on
\* Windows, where the assertion looks at the handles alone, because none of the
\* path's directories could be renamed since it was opened.  The last one of a
\* publication parent can.
AssertedIsNamed ==
    \A b \in Binds :
        AssertStillNamed(b) /\ ~(platform = "windows" /\ bound[b].purpose = "publication") =>
            BoundTo(b) = PathDirectory

\* Every handle of a walk is accounted for until it is closed, and a directory
\* that passes the assertion is the one its path leads to.
BoundCorrect ==
    /\ BoundTypeOK
    /\ OpenHandlesHaveAnOwner
    /\ HeldHandlesAreOwn
    /\ RegistryHoldsOpenOwners
    /\ AssertedIsNamed
===========================================================================
