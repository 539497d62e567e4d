--------------------------- MODULE Storage_proofs ---------------------------
(***************************************************************************)
(* The components that keep jobs, directories and files, as MCStorage      *)
(* gathers them; they share no state, and each has its own specification:  *)
(*                                                                         *)
(* - JobContext: the scheduler owns exactly the job that has not ended, a  *)
(*   cancelled job has committed nothing, and outcomes are final.          *)
(* - ModelStore: what stands at a weight's name was verified, downloads    *)
(*   leave nothing behind, and what a client may still use or a batch has  *)
(*   not replaced is not removed, for any number of models and files.      *)
(* - OutputPublication: the output is whole, a replaced one can be had     *)
(*   back, a writer is alone in its transaction, and its outcome is true,  *)
(*   for any number of writers, publications, attempts and user actions.   *)
(* - BoundDirectory: every handle is accounted for, and an assertion that  *)
(*   succeeds speaks of the directory the path leads to, for any number of *)
(*   binds, handles, failed closes and renamed directories.                *)
(* - BoundEntries: no operation takes away what it did not check or did    *)
(*   not make, for any number of names, nodes and calls.                   *)
(* - Migration: it loses no frame, pin or transform, writes over no cached *)
(*   set and reports what it did, for any number of frames, migrations,    *)
(*   edits and troubles.                                                   *)
(***************************************************************************)
EXTENDS JobContext, ModelStore, BoundDirectory, BoundEntries, OutputPublication, Migration,
        FiniteSetTheorems, WellFoundedInduction, TLAPS

-----------------------------------------------------------------------------
(* JobContext *)

LEMMA ContextTyping == Spec => []TypeOK
<1>1. Init => TypeOK
  BY DEF Init, TypeOK, TerminalStates
<1>2. TypeOK /\ [Next]_vars => TypeOK'
  BY DEF TypeOK, Next, vars, Claim, RequestCancel, AcknowledgeCancel, Commit,
         Fail, Complete, Settle, TerminalStates
<1> QED
  BY <1>1, <1>2, PTL DEF Spec

\* One step of the exclusivity: every transition out of RUNNING or
\* CANCEL_PENDING releases, and only the owner is in one of the two.
LEMMA OwnershipStep ==
    TypeOK /\ TypeOK' /\ OwnsTheLiveJob /\ [Next]_vars => OwnsTheLiveJob'
<1> SUFFICES ASSUME TypeOK, TypeOK', OwnsTheLiveJob, [Next]_vars
             PROVE  OwnsTheLiveJob'
  OBVIOUS
<1> USE NoneIsNoJob DEF TypeOK, OwnsTheLiveJob, Live
<1>1. ASSUME NEW j \in JobIds, Claim(j)
      PROVE  OwnsTheLiveJob'
  BY <1>1 DEF Claim
<1>2. ASSUME NEW j \in JobIds, RequestCancel(j)
      PROVE  OwnsTheLiveJob'
  BY <1>2 DEF RequestCancel
<1>3. ASSUME NEW j \in JobIds, NEW state \in Ended, Live(j), Settle(j, state)
      PROVE  OwnsTheLiveJob'
  BY <1>3 DEF Settle, Ended
<1>4. ASSUME NEW j \in JobIds,
             AcknowledgeCancel(j) \/ Commit(j) \/ Fail(j) \/ Complete(j)
      PROVE  OwnsTheLiveJob'
  BY <1>3, <1>4 DEF AcknowledgeCancel, Commit, Fail, Complete, Ended
<1>5. CASE UNCHANGED vars
  BY <1>5 DEF vars
<1> QED
  BY <1>1, <1>2, <1>4, <1>5 DEF Next

\* The scheduler owns exactly the job that has not ended (context.py:446).
THEOREM Ownership == Spec => []OwnsTheLiveJob
<1>1. Init => OwnsTheLiveJob
  BY NoneIsNoJob DEF Init, OwnsTheLiveJob, Live
<1> QED
  BY <1>1, ContextTyping, OwnershipStep, PTL DEF Spec

\* A job whose cancellation was accepted never publishes: the commit and the
\* cancel are linearized by the context's lock (context.py:358-385).
THEOREM CancelPrecludesCommit == Spec => []CancelledNeverCommits
<1>1. Init => CancelledNeverCommits
  BY DEF Init, CancelledNeverCommits
<1>2. TypeOK /\ CancelledNeverCommits /\ [Next]_vars => CancelledNeverCommits'
  BY DEF TypeOK, CancelledNeverCommits, Next, vars, Claim, RequestCancel,
         AcknowledgeCancel, Commit, Fail, Complete, Settle
<1> QED
  BY <1>1, <1>2, ContextTyping, PTL DEF Spec

\* No later call changes the outcome of a job that has ended.
THEOREM Finality == Spec => OutcomeIsFinal
<1>1. TypeOK /\ [Next]_vars =>
        [\A j \in JobIds :
            terminal[j] \in Ended => terminal'[j] = terminal[j]]_vars
  BY DEF TypeOK, Ended, Next, vars, Claim, RequestCancel, AcknowledgeCancel,
         Commit, Fail, Complete, Settle
<1> QED
  BY <1>1, ContextTyping, PTL DEF Spec, OutcomeIsFinal

\* The three together: what a run checks of a context and its scheduler.
THEOREM ContextKeepsItsPromise == Spec => ContextCorrect
BY Ownership, CancelPrecludesCommit, Finality, PTL DEF ContextCorrect

-----------------------------------------------------------------------------
(* BoundDirectory: the kernel's table *)

\* The lowest free handle exists where there is a free one.
LEMMA FreeHandleIsFree ==
    ASSUME CanOpen
    PROVE  FreeHandle \in Handles /\ table[FreeHandle] = Closed
<1> DEFINE Free == {h \in Handles : table[h] = Closed}
<1>1. Free # {} /\ Free \subseteq Nat
  BY BoundDirectoryAssumption DEF CanOpen, Handles
<1>2. PICK h \in Free : \A g \in Free : <<g, h>> \notin OpToRel(<, Nat)
  BY <1>1, WFMin, NatLessThanWellFounded
<1>3. \A g \in Free : ~(g < h)
  BY <1>1, <1>2 DEF OpToRel
<1>4. \A g \in 1..h - 1 : table[g] # Closed
  BY <1>3, BoundDirectoryAssumption DEF Handles
<1>5. \E h_1 \in Handles : table[h_1] = Closed /\ \A g \in 1..h_1 - 1 : table[g] # Closed
  BY <1>2, <1>4
<1> QED
  BY <1>5 DEF FreeHandle

-----------------------------------------------------------------------------
(* BoundDirectory: the inductive invariant *)

Records == [purpose : Purposes, pc : {"none", "walking", "failing", "bound", "closed"},
            held : SUBSET Handles, last : 0..MaxHandles, cleanup : SUBSET Handles,
            entered : BOOLEAN]
Entries == [dir : Dirs \cup {"none", "child"}, by : Binds \cup {0}]

\* The directories keep the shape of the path, whoever renames them.
Tree ==
    /\ below \in [Dirs -> Dirs \cup {"none"}] /\ linked \subseteq Dirs
    /\ below["anchor"] \in {"one", "one2"}
    /\ below["one"] \in {"two", "two2"} /\ below["one2"] \in {"two", "two2"}

BoundTyped ==
    /\ platform \in {"posix", "windows"} /\ Tree
    /\ table \in [Handles -> Entries]
    /\ \A h \in Handles : table[h].dir = "none" <=> table[h].by = 0
    /\ bound \in [Binds -> Records]
    /\ registry \subseteq Binds /\ attached \in [{"raised", "wrapped"} -> SUBSET Binds]
    /\ closesLeft \in 0..MaxFaults /\ movesLeft \in 0..MaxMoves

\* A walk, and what it bound, stand on a directory of the path.
Stands(b) ==
    bound[b].pc \in {"walking", "bound"} =>
        bound[b].last \in bound[b].held /\ table[bound[b].last].dir # "child"
Walks ==
    \A b \in Binds :
        /\ Stands(b)
        /\ bound[b].pc = "none" => HeldBy(b) = {}
        /\ bound[b].entered => bound[b].pc \in {"bound", "closed"}

\* Who waits in the registry or with an error has been closed once.
Waiting(b) == b \in registry \/ \E e \in {"raised", "wrapped"} : b \in attached[e]
Owners ==
    /\ IsFiniteSet(registry)
    /\ RegistryHoldsOpenOwners
    /\ \A b \in Binds : Waiting(b) => bound[b].pc = "closed"

\* Nobody waits on POSIX, where FailChild does not exist either.
OnPosix ==
    platform = "posix" =>
        /\ \A b \in Binds : ~Waiting(b)
        /\ \A h \in Handles : table[h].dir # "child"

\* Windows: an open handle is held by the bind that opened it, until that one
\* is closed; afterwards by those that must not forget it.
Remembers(b) == bound[b].purpose # "cache" /\ (bound[b].purpose = "publication" \/ bound[b].entered)
Owned ==
    \A h \in Handles : \A b \in Binds :
        table[h].by = b =>
            /\ bound[b].pc # "closed" => h \in HeldBy(b)
            /\ bound[b].pc = "closed" /\ Remembers(b) => h \in HeldBy(b) /\ Waiting(b)

\* Windows: the handles of a walk are on the path's own directories, and all
\* of them are still open.  A publication parent's last directory can move.
OnPath(b) ==
    LET dir == table[bound[b].last].dir IN
    bound[b].pc \in {"walking", "bound"} /\ bound[b].purpose # "publication" =>
        \/ dir = "anchor"
        \/ dir = below["anchor"]
        \/ dir = PathDirectory /\ \E g \in bound[b].held : table[g].dir = below["anchor"]

OnWindows ==
    platform = "windows" =>
        /\ HeldHandlesAreOwn
        /\ Owned
        /\ \A b \in Binds : OnPath(b) /\ (bound[b].pc = "bound" => AtEnd(b))

BoundInv == BoundTyped /\ Walks /\ Owners /\ OnPosix /\ OnWindows

LEMMA Corrects == ASSUME BoundInv PROVE BoundCorrect
<1>1. BoundTypeOK
  BY DEF BoundInv, BoundTyped, Tree, Records, Entries, BoundTypeOK, HeldBy
<1>2. OpenHandlesHaveAnOwner
  BY DEF BoundInv, BoundTyped, Entries, OnWindows, Owned, Remembers, Waiting, OpenHandlesHaveAnOwner
<1>3. HeldHandlesAreOwn
  BY DEF BoundInv, OnWindows, HeldHandlesAreOwn
<1>4. RegistryHoldsOpenOwners
  BY DEF BoundInv, Owners
<1>5. AssertedIsNamed
  <2> SUFFICES ASSUME NEW b \in Binds, AssertStillNamed(b),
                      ~(platform = "windows" /\ bound[b].purpose = "publication")
               PROVE  BoundTo(b) = PathDirectory
    BY DEF AssertedIsNamed
  <2>1. CASE platform = "posix"
    BY <2>1 DEF AssertStillNamed
  <2>2. CASE platform = "windows"
    BY <2>2 DEF AssertStillNamed, BoundInv, OnWindows, OnPath, AtEnd, BoundTo, BoundTyped, Tree
  <2> QED
    BY <2>1, <2>2 DEF BoundInv, BoundTyped
<1> QED
  BY <1>1, <1>2, <1>3, <1>4, <1>5 DEF BoundCorrect

-----------------------------------------------------------------------------
(* Closing *)

LEMMA CountOfHandles ==
    ASSUME NEW hs \in SUBSET Handles
    PROVE  IsFiniteSet(hs) /\ Cardinality(hs) \in Nat
<1>1. IsFiniteSet(Handles)
  BY FS_Interval, BoundDirectoryAssumption DEF Handles
<1> QED
  BY <1>1, FS_Subset, FS_CardinalityType

\* What Closing does to the table: it touches the owner's handles alone, and on
\* Windows exactly those whose close failed stay open.
LEMMA ClosingFacts ==
    ASSUME BoundTyped, NEW b \in Binds, NEW failed \in SUBSET HeldBy(b),
           Closing(HeldBy(b), failed)
    PROVE  /\ table' \in [Handles -> Entries]
           /\ closesLeft' \in 0..MaxFaults
           /\ \A h \in Handles : table'[h] = table[h] \/ table'[h] = Closed
           /\ \A h \in Handles : h \notin HeldBy(b) => table'[h] = table[h]
           /\ platform = "windows" =>
                 \A h \in HeldBy(b) : table'[h] = IF h \in failed THEN table[h] ELSE Closed
<1>1. HeldBy(b) \subseteq Handles /\ failed \subseteq Handles
  BY DEF BoundTyped, Records, HeldBy
<1>2. Cardinality(failed) \in Nat
  BY <1>1, CountOfHandles
<1>3. PICK gone \in SUBSET failed :
         /\ platform = "windows" => gone = {}
         /\ table' = [h \in Handles |-> IF h \in (HeldBy(b) \ failed) \cup gone THEN Closed ELSE table[h]]
  BY DEF Closing
<1>4. Closed \in Entries
  BY DEF Closed, Entries
<1>5. closesLeft' \in 0..MaxFaults
  BY <1>2, BoundDirectoryAssumption DEF Closing, BoundTyped
<1> QED
  BY <1>1, <1>3, <1>4, <1>5 DEF BoundTyped

\* An owner that closed its handles keeps those that failed, or gives all of
\* them up; what must not be forgotten is kept and waits to be closed again.
LEMMA LettingGo ==
    ASSUME BoundInv, NEW b \in Binds, NEW failed \in SUBSET HeldBy(b), NEW kept \in {failed, {}},
           Closing(HeldBy(b), failed), Remaining(b, kept),
           UNCHANGED <<platform, below, linked, movesLeft>>,
           registry' \subseteq Binds, attached' \in [{"raised", "wrapped"} -> SUBSET Binds],
           IsFiniteSet(registry'), Cardinality(registry') <= Capacity,
           \A c \in Binds \ {b} : (c \in registry' => c \in registry) /\ (Waiting(c)' <=> Waiting(c)),
           platform = "posix" => ~Waiting(b)',
           b \in registry' => kept # {},
           platform = "windows" /\ Remembers(b) /\ failed # {} => kept = failed /\ Waiting(b)'
    PROVE  BoundInv'
<1>0. /\ bound' = [bound EXCEPT ![b].pc = "closed", ![b].held = @ \cap kept,
                               ![b].cleanup = @ \cap kept]
      /\ bound \in [Binds -> Records] /\ bound' \in [Binds -> Records]
  <2>1. bound \in [Binds -> Records]
    BY DEF BoundInv, BoundTyped
  <2>2. bound' = [bound EXCEPT ![b] = [bound[b] EXCEPT !.pc = "closed", !.held = @ \cap kept,
                                                      !.cleanup = @ \cap kept]]
    BY <2>1 DEF Remaining
  <2>3. [bound[b] EXCEPT !.pc = "closed", !.held = @ \cap kept, !.cleanup = @ \cap kept] \in Records
    BY <2>1 DEF Records
  <2> QED
    BY <2>1, <2>2, <2>3 DEF Remaining
<1>1. /\ \A c \in Binds \ {b} : bound'[c] = bound[c] /\ HeldBy(c)' = HeldBy(c)
      /\ bound'[b].pc = "closed" /\ HeldBy(b)' = kept
      /\ bound'[b].purpose = bound[b].purpose /\ bound'[b].entered = bound[b].entered
  BY <1>0 DEF HeldBy, Records
<1>2. /\ table' \in [Handles -> Entries]
      /\ closesLeft' \in 0..MaxFaults
      /\ \A h \in Handles : table'[h] = table[h] \/ table'[h] = Closed
      /\ \A h \in Handles : h \notin HeldBy(b) => table'[h] = table[h]
      /\ platform = "windows" =>
            \A h \in HeldBy(b) : table'[h] = IF h \in failed THEN table[h] ELSE Closed
  BY ClosingFacts DEF BoundInv
<1>3. BoundTyped'
  BY <1>0, <1>2 DEF BoundInv, BoundTyped, Tree, Closed
<1>4. Walks'
  <2>1. ASSUME NEW c \in Binds
        PROVE  Stands(c)'
    <3>1. bound[c].pc \in {"walking", "bound"} => bound[c].last \in Handles
      BY <1>0 DEF BoundInv, Walks, Stands, Records
    <3> QED
      BY <1>1, <1>2, <3>1 DEF BoundInv, Walks, Stands, Closed
  <2> QED
    BY <1>1, <2>1 DEF BoundInv, Walks
<1>5. Owners'
  BY <1>1 DEF BoundInv, Owners, RegistryHoldsOpenOwners
<1>6. OnPosix'
  BY <1>2 DEF BoundInv, OnPosix, Closed
<1>7. OnWindows'
  <2> SUFFICES ASSUME platform = "windows"
               PROVE  HeldHandlesAreOwn' /\ Owned'
                      /\ \A c \in Binds : OnPath(c)' /\ (bound'[c].pc = "bound" => AtEnd(c)')
    BY DEF OnWindows, HeldHandlesAreOwn
  <2>0. /\ \A c \in Binds : \A h \in HeldBy(c) : h \in Handles /\ table[h].by = c
        /\ b # 0
    BY BoundDirectoryAssumption DEF BoundInv, OnWindows, HeldHandlesAreOwn, HeldBy, BoundTyped, Records
  <2>1. \A c \in Binds \ {b} : \A h \in HeldBy(c) : table'[h] = table[h]
    BY <1>2, <2>0
  <2>2. HeldHandlesAreOwn'
    BY <1>1, <1>2, <2>0, <2>1 DEF HeldHandlesAreOwn
  <2>3. Owned'
    <3> SUFFICES ASSUME NEW h \in Handles, NEW c \in Binds, table'[h].by = c
                 PROVE  /\ bound'[c].pc # "closed" => h \in HeldBy(c)'
                        /\ bound'[c].pc = "closed" /\ Remembers(c)' => h \in HeldBy(c)' /\ Waiting(c)'
      BY DEF Owned
    <3>1. c # 0 /\ table'[h] = table[h] /\ table[h].by = c
      BY <1>2, BoundDirectoryAssumption DEF Closed
    <3>2. CASE c # b
      BY <1>1, <3>1, <3>2 DEF BoundInv, OnWindows, Owned, Remembers
    <3>3. CASE c = b
      <4> SUFFICES ASSUME Remembers(b)
                   PROVE  h \in kept /\ Waiting(b)'
        BY <1>1, <3>3 DEF Remembers
      <4>1. h \in HeldBy(b)
        BY <3>1, <3>3 DEF BoundInv, OnWindows, Owned
      <4>2. h \in failed
        BY <4>1, <3>1, <3>3, <1>2 DEF Closed
      <4> QED
        BY <4>2
    <3> QED
      BY <3>2, <3>3
  <2>4. ASSUME NEW c \in Binds
        PROVE  OnPath(c)' /\ (bound'[c].pc = "bound" => AtEnd(c)')
    <3>1. CASE c = b
      BY <3>1, <1>1 DEF OnPath
    <3>2. CASE c # b
      <4>1. bound[c].pc \in {"walking", "bound"} => bound[c].last \in HeldBy(c)
        BY DEF BoundInv, Walks, Stands, HeldBy
      <4>2. \A h \in bound[c].held : table'[h] = table[h]
        BY <2>1, <3>2 DEF HeldBy
      <4> QED
        BY <1>1, <2>1, <3>2, <4>1, <4>2 DEF BoundInv, OnWindows, OnPath, AtEnd, BoundTo, PathDirectory
    <3> QED
      BY <3>1, <3>2
  <2> QED
    BY <2>2, <2>3, <2>4
<1> QED
  BY <1>3, <1>4, <1>5, <1>6, <1>7 DEF BoundInv

-----------------------------------------------------------------------------
(* Opening *)

LEMMA OpeningFacts ==
    ASSUME BoundInv, NEW b \in Binds, NEW dir \in Dirs \cup {"child"}, CanOpen, Opened(b, dir)
    PROVE  /\ FreeHandle \in Handles /\ table[FreeHandle] = Closed
           /\ table' \in [Handles -> Entries]
           /\ table'[FreeHandle] = [dir |-> dir, by |-> b]
           /\ \A h \in Handles : h # FreeHandle => table'[h] = table[h]
           /\ \A h \in Handles : table'[h].dir = "none" <=> table'[h].by = 0
           /\ platform = "windows" => \A c \in Binds : FreeHandle \notin HeldBy(c)
<1>1. FreeHandle \in Handles /\ table[FreeHandle] = Closed
  BY FreeHandleIsFree
<1>2. table' = [table EXCEPT ![FreeHandle] = [dir |-> dir, by |-> b]] /\ table \in [Handles -> Entries]
  BY DEF Opened, BoundInv, BoundTyped
<1>3. [dir |-> dir, by |-> b] \in Entries /\ b # 0 /\ dir # "none"
  BY BoundDirectoryAssumption DEF Entries, Dirs
<1>4. platform = "windows" => \A c \in Binds : FreeHandle \notin HeldBy(c)
  BY <1>1, BoundDirectoryAssumption DEF Closed, BoundInv, OnWindows, HeldHandlesAreOwn
<1> QED
  BY <1>1, <1>2, <1>3, <1>4 DEF BoundInv, BoundTyped

\* Windows: a handle that was just opened is its bind's own.
LEMMA OpeningIsOwned ==
    ASSUME BoundInv, platform = "windows", NEW b \in Binds, NEW dir \in Dirs \cup {"child"},
           CanOpen, Opened(b, dir),
           bound[b].pc # "closed", bound'[b].pc # "closed",
           HeldBy(b)' = HeldBy(b) \cup {FreeHandle},
           \A c \in Binds \ {b} : bound'[c] = bound[c],
           UNCHANGED <<registry, attached>>
    PROVE  HeldHandlesAreOwn' /\ Owned'
<1>1. \A c \in Binds \ {b} : HeldBy(c)' = HeldBy(c)
  BY DEF HeldBy
<1>2. \A c \in Binds : HeldBy(c) \subseteq Handles
  BY DEF BoundInv, BoundTyped, Records, HeldBy
<1> DEFINE new == FreeHandle
<1>0. /\ new \in Handles /\ table'[new].by = b
      /\ \A h \in Handles : h # new => table'[h] = table[h]
      /\ \A c \in Binds : new \notin HeldBy(c)
  <2>1. /\ new \in Handles /\ table'[new] = [dir |-> dir, by |-> b]
        /\ \A h \in Handles : h # new => table'[h] = table[h]
    BY OpeningFacts
  <2>2. \A c \in Binds : new \notin HeldBy(c)
    BY OpeningFacts
  <2> QED
    BY <2>1, <2>2
<1> HIDE DEF new
<1>5. HeldBy(b)' = HeldBy(b) \cup {new}
  BY DEF new
<1>6. \A c \in Binds : Waiting(c)' <=> Waiting(c)
  BY DEF Waiting
<1>3. HeldHandlesAreOwn'
  BY <1>0, <1>1, <1>2, <1>5 DEF BoundInv, OnWindows, HeldHandlesAreOwn
<1>4. Owned'
  <2> SUFFICES ASSUME NEW h \in Handles, NEW c \in Binds, table'[h].by = c
               PROVE  /\ bound'[c].pc # "closed" => h \in HeldBy(c)'
                      /\ bound'[c].pc = "closed" /\ Remembers(c)' => h \in HeldBy(c)' /\ Waiting(c)'
    BY DEF Owned
  <2>1. CASE h = new
    BY <2>1, <1>0, <1>5
  <2>2. CASE h # new /\ c # b
    BY <2>2, <1>0, <1>1, <1>6 DEF BoundInv, OnWindows, Owned, Remembers
  <2>3. CASE h # new /\ c = b
    <3>1. table[h].by = b
      BY <2>3, <1>0
    <3>2. h \in HeldBy(b)
      BY <3>1 DEF BoundInv, OnWindows, Owned
    <3> QED
      BY <2>3, <3>2, <1>5
  <2> QED
    BY <2>1, <2>2, <2>3
<1> QED
  BY <1>3, <1>4

\* What a bind opens is none of the handles the other binds stand on.
LEMMA OpeningKeepsOthers ==
    ASSUME BoundInv, NEW b \in Binds, NEW dir \in Dirs \cup {"child"}, CanOpen, Opened(b, dir),
           platform = "posix" => dir # "child",
           \A d \in Binds \ {b} : bound'[d] = bound[d], UNCHANGED <<platform, below>>,
           NEW c \in Binds \ {b}
    PROVE  /\ Stands(c)'
           /\ bound'[c].pc = "none" => HeldBy(c)' = {}
           /\ bound'[c].entered => bound'[c].pc \in {"bound", "closed"}
           /\ platform = "windows" => OnPath(c)' /\ (bound'[c].pc = "bound" => AtEnd(c)')
<1> DEFINE new == FreeHandle
<1>1. /\ new \in Handles /\ table'[new] = [dir |-> dir, by |-> b]
      /\ \A h \in Handles : h # new => table'[h] = table[h]
  BY OpeningFacts
<1>2. platform = "windows" => new \notin HeldBy(c)
  BY OpeningFacts
<1> HIDE DEF new
<1>3. bound'[c] = bound[c] /\ bound[c].held \subseteq Handles
  BY DEF BoundInv, BoundTyped, Records
<1>4. Stands(c)'
  <2>1. CASE platform = "windows"
    BY <2>1, <1>1, <1>2, <1>3 DEF BoundInv, Walks, Stands, HeldBy
  <2>2. CASE platform = "posix"
    BY <2>2, <1>1, <1>3 DEF BoundInv, Walks, Stands
  <2> QED
    BY <2>1, <2>2 DEF BoundInv, BoundTyped
<1>5. bound'[c].pc = "none" => HeldBy(c)' = {}
  BY <1>3 DEF BoundInv, Walks, HeldBy
<1>6. bound'[c].entered => bound'[c].pc \in {"bound", "closed"}
  BY <1>3 DEF BoundInv, Walks
<1>7. ASSUME platform = "windows"
      PROVE  OnPath(c)' /\ (bound'[c].pc = "bound" => AtEnd(c)')
  <2>1. \A h \in bound[c].held : table'[h] = table[h]
    BY <1>1, <1>2, <1>3, <1>7 DEF HeldBy
  <2>2. bound[c].pc \in {"walking", "bound"} => bound[c].last \in bound[c].held
    BY DEF BoundInv, Walks, Stands
  <2> QED
    BY <1>3, <1>7, <2>1, <2>2 DEF BoundInv, OnWindows, OnPath, AtEnd, BoundTo, PathDirectory
<1> QED
  BY <1>4, <1>5, <1>6, <1>7

-----------------------------------------------------------------------------
(* The steps *)

LEMMA OpensAnchor ==
    ASSUME BoundInv, NEW b \in Binds, NEW purpose \in Purposes, OpenAnchor(b, purpose)
    PROVE  BoundInv'
<1> DEFINE new == FreeHandle
           r == [purpose |-> purpose, pc |-> "walking", held |-> {new}, last |-> new,
                 cleanup |-> {}, entered |-> FALSE]
<1>1. CanOpen /\ Opened(b, "anchor") /\ "anchor" \in Dirs \cup {"child"} /\ bound[b].pc = "none"
  BY DEF OpenAnchor, Dirs
<1>2. /\ new \in Handles /\ table' \in [Handles -> Entries]
      /\ table'[new] = [dir |-> "anchor", by |-> b]
      /\ \A h \in Handles : h # new => table'[h] = table[h]
      /\ \A h \in Handles : table'[h].dir = "none" <=> table'[h].by = 0
  BY <1>1, OpeningFacts
<1> HIDE DEF new
<1>3. bound' = [bound EXCEPT ![b] = r]
  BY DEF OpenAnchor, new
<1>4. HeldBy(b) = {} /\ ~Waiting(b)
  BY <1>1 DEF BoundInv, Walks, Owners
<1>5. ASSUME NEW c \in Binds \ {b}
      PROVE  /\ Stands(c)'
             /\ bound'[c].pc = "none" => HeldBy(c)' = {}
             /\ bound'[c].entered => bound'[c].pc \in {"bound", "closed"}
             /\ platform = "windows" => OnPath(c)' /\ (bound'[c].pc = "bound" => AtEnd(c)')
  BY <1>1, <1>3, OpeningKeepsOthers DEF OpenAnchor
<1>6. r \in Records
  <2>1. new \in 0..MaxHandles
    BY <1>2, BoundDirectoryAssumption DEF Handles
  <2> QED
    BY <1>2, <2>1 DEF Records
<1>7. bound \in [Binds -> Records] /\ bound' \in [Binds -> Records] /\ bound'[b] = r
  BY <1>3, <1>6 DEF BoundInv, BoundTyped
<1>8. BoundTyped'
  BY <1>2, <1>7 DEF BoundInv, BoundTyped, Tree, OpenAnchor
<1>9. Walks'
  BY <1>2, <1>5, <1>7 DEF Walks, Stands
<1>10. Owners'
  <2>1. \A c \in Binds : Waiting(c)' <=> Waiting(c)
    BY DEF Waiting, OpenAnchor
  <2>2. \A c \in Binds \ {b} : bound'[c] = bound[c] /\ HeldBy(c)' = HeldBy(c)
    BY <1>3, <1>7 DEF HeldBy
  <2>3. b \notin registry
    BY <1>4 DEF Waiting
  <2> QED
    BY <1>4, <2>1, <2>2, <2>3 DEF BoundInv, BoundTyped, Owners, RegistryHoldsOpenOwners, OpenAnchor
<1>11. OnPosix'
  BY <1>2 DEF BoundInv, OnPosix, Waiting, OpenAnchor
<1>12. OnWindows'
  <2> SUFFICES ASSUME platform = "windows"
               PROVE  HeldHandlesAreOwn' /\ Owned'
                      /\ \A c \in Binds : OnPath(c)' /\ (bound'[c].pc = "bound" => AtEnd(c)')
    BY DEF OnWindows, HeldHandlesAreOwn, OpenAnchor
  <2>1. HeldBy(b)' = HeldBy(b) \cup {FreeHandle} /\ bound'[b].pc # "closed"
    BY <1>4, <1>7 DEF HeldBy, new
  <2>2. HeldHandlesAreOwn' /\ Owned'
    BY <1>1, <1>7, <1>3, <2>1, OpeningIsOwned DEF OpenAnchor
  <2>3. OnPath(b)' /\ bound'[b].pc # "bound"
    BY <1>2, <1>7 DEF OnPath
  <2> QED
    BY <1>5, <2>2, <2>3
<1> QED
  BY <1>8, <1>9, <1>10, <1>11, <1>12 DEF BoundInv

\* A walk ends: it is bound, or found a link and fails.
LEMMA WalkEnds ==
    ASSUME BoundInv, NEW b \in Binds, Walking(b), NEW p \in {"failing", "bound"}, NEW e \in BOOLEAN,
           e => p = "bound", p = "bound" => AtEnd(b),
           bound' = [bound EXCEPT ![b].pc = p, ![b].entered = e],
           UNCHANGED <<platform, below, linked, table, registry, attached, closesLeft, movesLeft>>
    PROVE  BoundInv'
<1>1. /\ bound \in [Binds -> Records] /\ bound' \in [Binds -> Records]
      /\ bound'[b] = [bound[b] EXCEPT !.pc = p, !.entered = e]
      /\ \A c \in Binds \ {b} : bound'[c] = bound[c]
  <2>1. bound \in [Binds -> Records]
    BY DEF BoundInv, BoundTyped
  <2>2. bound' = [bound EXCEPT ![b] = [bound[b] EXCEPT !.pc = p, !.entered = e]]
    BY <2>1
  <2>3. [bound[b] EXCEPT !.pc = p, !.entered = e] \in Records
    BY <2>1 DEF Records
  <2> QED
    BY <2>1, <2>2, <2>3
<1>2. /\ bound'[b].pc = p /\ bound'[b].entered = e /\ bound'[b].held = bound[b].held
      /\ bound'[b].last = bound[b].last /\ bound'[b].purpose = bound[b].purpose
      /\ bound'[b].cleanup = bound[b].cleanup
      /\ bound[b].pc = "walking" /\ p \notin {"none", "walking", "closed"}
  BY <1>1 DEF Records, Walking
<1>3. \A c \in Binds : HeldBy(c)' = HeldBy(c) /\ (Waiting(c)' <=> Waiting(c))
  BY <1>1, <1>2 DEF HeldBy, Waiting
<1>4. BoundTyped'
  BY <1>1 DEF BoundInv, BoundTyped, Tree
<1>5. Walks'
  BY <1>1, <1>2, <1>3 DEF BoundInv, Walks, Stands
<1>6. Owners' /\ OnPosix'
  BY <1>1, <1>2, <1>3 DEF BoundInv, BoundTyped, Owners, RegistryHoldsOpenOwners, OnPosix
<1>7. OnWindows'
  <2>1. platform = "windows" => HeldHandlesAreOwn'
    BY <1>3 DEF BoundInv, OnWindows, HeldHandlesAreOwn
  <2>2. platform = "windows" => Owned'
    BY <1>1, <1>2, <1>3 DEF BoundInv, OnWindows, Owned, Remembers
  <2>3. platform = "windows" => \A c \in Binds : OnPath(c)' /\ (bound'[c].pc = "bound" => AtEnd(c)')
    BY <1>1, <1>2 DEF BoundInv, OnWindows, OnPath, AtEnd, BoundTo, PathDirectory
  <2> QED
    BY <2>1, <2>2, <2>3 DEF OnWindows
<1> QED
  BY <1>4, <1>5, <1>6, <1>7 DEF BoundInv

\* The common part of the two steps that add a handle to those a bind has on
\* Windows.
LEMMA AddsHandle ==
    ASSUME BoundInv, NEW b \in Binds, NEW dir \in Dirs \cup {"child"}, CanOpen, Opened(b, dir),
           platform = "windows", bound[b].pc \in {"walking", "bound"},
           NEW r \in Records, bound' = [bound EXCEPT ![b] = r],
           r.held \cup r.cleanup = HeldBy(b) \cup {FreeHandle},
           r.pc = bound[b].pc, r.purpose = bound[b].purpose, r.entered = bound[b].entered,
           Stands(b)', OnPath(b)', r.pc = "bound" => AtEnd(b)',
           closesLeft' \in 0..MaxFaults,
           UNCHANGED <<platform, below, linked, registry, attached, movesLeft>>
    PROVE  BoundInv'
<1>1. /\ bound \in [Binds -> Records] /\ bound' \in [Binds -> Records] /\ bound'[b] = r
      /\ \A c \in Binds \ {b} : bound'[c] = bound[c] /\ HeldBy(c)' = HeldBy(c)
      /\ HeldBy(b)' = HeldBy(b) \cup {FreeHandle}
  BY DEF BoundInv, BoundTyped, HeldBy
<1>2. /\ table' \in [Handles -> Entries]
      /\ \A h \in Handles : table'[h].dir = "none" <=> table'[h].by = 0
  BY OpeningFacts
<1>3. ASSUME NEW c \in Binds \ {b}
      PROVE  /\ Stands(c)'
             /\ bound'[c].pc = "none" => HeldBy(c)' = {}
             /\ bound'[c].entered => bound'[c].pc \in {"bound", "closed"}
             /\ platform = "windows" => OnPath(c)' /\ (bound'[c].pc = "bound" => AtEnd(c)')
  BY <1>1, OpeningKeepsOthers
<1>4. BoundTyped'
  BY <1>1, <1>2 DEF BoundInv, BoundTyped, Tree
<1>5. Walks'
  BY <1>1, <1>3 DEF BoundInv, Walks
<1>6. \A c \in Binds : Waiting(c)' <=> Waiting(c)
  BY DEF Waiting
<1>7. Owners'
  <2>1. b \notin registry
    BY DEF BoundInv, Owners, Waiting
  <2> QED
    BY <1>1, <1>6, <2>1 DEF BoundInv, BoundTyped, Owners, RegistryHoldsOpenOwners
<1>8. OnPosix'
  BY DEF OnPosix
<1>9. OnWindows'
  <2>1. HeldHandlesAreOwn' /\ Owned'
    BY <1>1, OpeningIsOwned
  <2> QED
    BY <1>1, <1>3, <2>1 DEF OnWindows
<1> QED
  BY <1>4, <1>5, <1>7, <1>8, <1>9 DEF BoundInv

LEMMA FailsChild ==
    ASSUME BoundInv, NEW b \in Binds, FailChild(b)
    PROVE  BoundInv'
<1> DEFINE new == FreeHandle
           r == [bound[b] EXCEPT !.cleanup = @ \cup {new}]
<1>1. /\ CanOpen /\ Opened(b, "child") /\ platform = "windows" /\ bound[b].pc = "bound"
      /\ closesLeft' \in 0..MaxFaults
  BY BoundDirectoryAssumption DEF FailChild, BoundInv, BoundTyped
<1>2. /\ new \in Handles /\ \A h \in Handles : h # new => table'[h] = table[h]
      /\ new \notin HeldBy(b)
  BY <1>1, OpeningFacts
<1>3. bound[b] \in Records /\ bound \in [Binds -> Records]
  BY DEF BoundInv, BoundTyped
<1>4. r \in Records /\ r.held = bound[b].held /\ r.cleanup = bound[b].cleanup \cup {new}
      /\ r.last = bound[b].last /\ r.pc = bound[b].pc /\ r.purpose = bound[b].purpose
      /\ r.entered = bound[b].entered
  BY <1>2, <1>3 DEF Records
<1>5. bound' = [bound EXCEPT ![b] = r] /\ bound'[b] = r
  BY <1>3 DEF FailChild
<1>6. \A h \in bound[b].held : h \in Handles /\ table'[h] = table[h]
  BY <1>2, <1>3 DEF HeldBy, Records
<1>7. bound[b].last \in bound[b].held /\ Stands(b)'
  BY <1>1, <1>4, <1>5, <1>6 DEF BoundInv, Walks, Stands
<1>8. OnPath(b)' /\ AtEnd(b)'
  BY <1>1, <1>4, <1>5, <1>6, <1>7 DEF BoundInv, OnWindows, OnPath, AtEnd, BoundTo, PathDirectory, FailChild
<1> QED
  BY <1>1, <1>4, <1>5, <1>7, <1>8, AddsHandle DEF HeldBy, FailChild

LEMMA OpensComponent ==
    ASSUME BoundInv, NEW b \in Binds, OpenComponent(b)
    PROVE  BoundInv'
<1> DEFINE parent == bound[b].last
           down == [dir |-> below[BoundTo(b)], by |-> b]
           new == FreeHandle
<1>1. /\ bound[b].pc = "walking" /\ Walking(b) /\ ~AtEnd(b) /\ CanOpen
      /\ parent \in bound[b].held /\ table[parent].dir # "child"
  BY DEF OpenComponent, Walking, BoundInv, Walks, Stands
<1>2. bound[b] \in Records /\ bound \in [Binds -> Records] /\ parent \in Handles
      /\ table[parent] \in Entries /\ bound[b].entered = FALSE
  BY <1>1 DEF BoundInv, BoundTyped, Walks, Records
<1>3. CASE BoundTo(b) \in linked \cup {"none"}
  <2>1. bound' = [bound EXCEPT ![b].pc = "failing", ![b].entered = FALSE]
    <3>1. [bound[b] EXCEPT !.pc = "failing"] = [bound[b] EXCEPT !.pc = "failing", !.entered = FALSE]
      BY <1>2 DEF Records
    <3>2. bound' = [bound EXCEPT ![b] = [bound[b] EXCEPT !.pc = "failing"]]
      BY <1>2, <1>3 DEF OpenComponent
    <3> QED
      BY <1>2, <3>1, <3>2
  <2> QED
    BY <1>1, <1>3, <2>1, WalkEnds DEF OpenComponent
<1>4. CASE BoundTo(b) \notin linked \cup {"none"}
  <2>1. /\ BoundTo(b) \in {"anchor", "one", "one2"}
        /\ down.dir \in Dirs \ {"none", "child"}
    BY <1>1, <1>2, <1>4 DEF BoundTo, AtEnd, Entries, Dirs, BoundInv, BoundTyped, Tree
  <2>2. CASE platform = "windows" /\ Opened(b, down.dir)
                /\ bound' = [bound EXCEPT ![b].held = @ \cup {new}, ![b].last = new]
                /\ UNCHANGED closesLeft
    <3> DEFINE r == [bound[b] EXCEPT !.held = @ \cup {new}, !.last = new]
    <3>1. /\ new \in Handles /\ \A h \in Handles : h # new => table'[h] = table[h]
          /\ new \notin HeldBy(b) /\ table'[new] = [dir |-> down.dir, by |-> b]
      BY <1>1, <2>1, <2>2, OpeningFacts
    <3>7. new \in 0..MaxHandles
      BY <3>1, BoundDirectoryAssumption DEF Handles
    <3> HIDE DEF new
    <3>2. r \in Records /\ r.held = bound[b].held \cup {new} /\ r.cleanup = bound[b].cleanup
          /\ r.last = new /\ r.pc = bound[b].pc /\ r.purpose = bound[b].purpose
          /\ r.entered = bound[b].entered
      BY <1>2, <3>1, <3>7 DEF Records
    <3>3. bound' = [bound EXCEPT ![b] = r] /\ bound'[b] = r
      BY <1>2, <2>2 DEF new
    <3>4. Stands(b)'
      <4>1. bound'[b].last \in bound'[b].held /\ table'[bound'[b].last].dir = down.dir
        BY <3>1, <3>2, <3>3
      <4> QED
        BY <2>1, <4>1 DEF Stands
    <3>5. OnPath(b)'
      <4> SUFFICES ASSUME bound[b].purpose # "publication"
                   PROVE  \/ below[BoundTo(b)] = below["anchor"]
                          \/ /\ below[BoundTo(b)] = PathDirectory
                             /\ table'[parent].dir = below["anchor"]
        <5>1. /\ table'[bound'[b].last].dir = down.dir /\ parent \in bound'[b].held
              /\ bound'[b].purpose = bound[b].purpose /\ below' = below
          BY <1>1, <3>1, <3>2, <3>3 DEF OpenComponent
        <5> QED
          BY <5>1 DEF OnPath, PathDirectory
      <4>1. \/ BoundTo(b) = "anchor" \/ BoundTo(b) = below["anchor"]
            \/ BoundTo(b) = PathDirectory
        BY <1>1, <2>2 DEF BoundInv, OnWindows, OnPath, BoundTo
      <4>2. BoundTo(b) # PathDirectory
        BY <1>1 DEF BoundInv, BoundTyped, Tree, PathDirectory, AtEnd
      <4>3. table'[parent] = table[parent]
        BY <1>1, <1>2, <3>1 DEF HeldBy
      <4> QED
        BY <4>1, <4>2, <4>3 DEF BoundTo, PathDirectory
    <3>6. HeldBy(b) \cup {FreeHandle} = r.held \cup r.cleanup
      BY <3>2 DEF HeldBy, new
    <3> HIDE DEF r
    <3> QED
      BY <1>1, <2>1, <2>2, <3>2, <3>3, <3>4, <3>5, <3>6, AddsHandle DEF OpenComponent, BoundInv, BoundTyped
  <2>3. CASE platform = "posix"
    <3>1. new \in Handles /\ table[new] = Closed
      BY <1>1, FreeHandleIsFree
    <3> HIDE DEF new
    <3>2. down \in Entries /\ Closed \in Entries /\ down.dir # "none" /\ down.by # 0
      BY <2>1, BoundDirectoryAssumption DEF Entries, Closed
    <3>3. /\ table' \in [Handles -> Entries]
          /\ \A h \in Handles : table'[h] \in {table[h], Closed, down}
          /\ table'[new] \in {down, Closed}
          /\ new # parent => table'[new] = down
      BY <1>2, <2>3, <1>4, <3>1, <3>2 DEF OpenComponent, Opened, BoundInv, BoundTyped, new
    <3>4. closesLeft' \in 0..MaxFaults
      BY <1>4, <2>3, BoundDirectoryAssumption DEF OpenComponent, BoundInv, BoundTyped
    <3>5. /\ bound' \in [Binds -> Records]
          /\ \A c \in Binds \ {b} : bound'[c] = bound[c]
          /\ bound'[b].pc \in {"walking", "failing"} /\ bound'[b].entered = FALSE
          /\ bound'[b].pc = "walking" => bound'[b].held = {new} /\ bound'[b].last = new
      <4>1. CASE bound' = [bound EXCEPT ![b].held = {new}, ![b].last = new]
        <5>1. bound' = [bound EXCEPT ![b] = [bound[b] EXCEPT !.held = {new}, !.last = new]]
          BY <1>2, <4>1
        <5>2. [bound[b] EXCEPT !.held = {new}, !.last = new] \in Records
          <6>1. new \in 0..MaxHandles
            BY <3>1, BoundDirectoryAssumption DEF Handles
          <6> QED
            BY <1>2, <3>1, <6>1 DEF Records
        <5> QED
          BY <1>1, <1>2, <5>1, <5>2 DEF Records
      <4>2. CASE bound' = [bound EXCEPT ![b].pc = "failing"]
        <5>1. bound' = [bound EXCEPT ![b] = [bound[b] EXCEPT !.pc = "failing"]]
          BY <1>2, <4>2
        <5>2. [bound[b] EXCEPT !.pc = "failing"] \in Records
          BY <1>2 DEF Records
        <5> QED
          BY <1>1, <1>2, <5>1, <5>2 DEF Records
      <4> QED
        BY <1>4, <2>3, <4>1, <4>2 DEF OpenComponent, new
    <3>6. BoundTyped'
      BY <3>2, <3>3, <3>4, <3>5 DEF OpenComponent, BoundInv, BoundTyped, Tree, Closed
    <3>7. /\ \A c \in Binds \ {b} : HeldBy(c)' = HeldBy(c)
          /\ \A c \in Binds : ~Waiting(c)' /\ ~Waiting(c)
      BY <2>3, <3>5 DEF HeldBy, BoundInv, OnPosix, Waiting, OpenComponent
    <3>8. Walks'
      <4>1. \A h \in Handles : table'[h].dir # "child"
        BY <2>1, <2>3, <3>3 DEF BoundInv, OnPosix, Closed
      <4>2. \A c \in Binds : bound[c].pc \in {"walking", "bound"} => bound[c].last \in bound[c].held
        BY DEF BoundInv, Walks, Stands
      <4>3. \A c \in Binds : bound[c].held \subseteq Handles
        BY DEF BoundInv, BoundTyped, Records
      <4>4. \A c \in Binds : Stands(c)'
        BY <3>1, <3>5, <4>1, <4>2, <4>3 DEF Stands
      <4> QED
        BY <3>5, <3>7, <4>4 DEF BoundInv, Walks
    <3>9. Owners' /\ OnPosix'
      <4>1. registry' = registry /\ registry = {}
        BY <2>3, <3>7 DEF OpenComponent, BoundInv, BoundTyped, Waiting
      <4> QED
        BY <2>1, <2>3, <3>3, <3>7, <4>1 DEF BoundInv, Owners, RegistryHoldsOpenOwners, OnPosix, Closed
    <3> QED
      BY <2>3, <3>6, <3>8, <3>9 DEF BoundInv, OnWindows, OpenComponent
  <2> QED
    BY <1>4, <2>2, <2>3 DEF OpenComponent, BoundInv, BoundTyped
<1> QED
  BY <1>3, <1>4

\* The registry and the errors, as the closing steps change them.
LEMMA LessIsFewer ==
    ASSUME BoundInv, NEW b \in Binds
    PROVE  IsFiniteSet(registry \ {b}) /\ Cardinality(registry \ {b}) <= Capacity
<1>1. IsFiniteSet(registry) /\ Cardinality(registry) <= Capacity /\ Cardinality(registry) \in Nat
  BY FS_CardinalityType DEF BoundInv, Owners, RegistryHoldsOpenOwners
<1>2. /\ IsFiniteSet(registry \ {b}) /\ Cardinality(registry \ {b}) \in Nat
      /\ Cardinality(registry \ {b}) <= Cardinality(registry)
  BY <1>1, FS_Subset, FS_CardinalityType
<1> QED
  BY <1>1, <1>2, BoundDirectoryAssumption

LEMMA NobodyMoves ==
    ASSUME BoundInv, UNCHANGED <<registry, attached>>
    PROVE  /\ registry' \subseteq Binds /\ attached' \in [{"raised", "wrapped"} -> SUBSET Binds]
           /\ IsFiniteSet(registry') /\ Cardinality(registry') <= Capacity
           /\ \A c \in Binds : (c \in registry' => c \in registry) /\ (Waiting(c)' <=> Waiting(c))
           /\ \A c \in Binds : c \in registry' => Waiting(c)
           /\ platform = "posix" => \A c \in Binds : ~Waiting(c)'
BY DEF BoundInv, BoundTyped, Owners, RegistryHoldsOpenOwners, Waiting, OnPosix

LEMMA ForgetsOne ==
    ASSUME BoundInv, NEW b \in Binds, Forget(b)
    PROVE  /\ registry' \subseteq Binds /\ attached' \in [{"raised", "wrapped"} -> SUBSET Binds]
           /\ IsFiniteSet(registry') /\ Cardinality(registry') <= Capacity
           /\ \A c \in Binds \ {b} : (c \in registry' => c \in registry) /\ (Waiting(c)' <=> Waiting(c))
           /\ b \notin registry'
           /\ platform = "posix" => ~Waiting(b)'
<1>1. registry' = registry \ {b} /\ attached' = attached
  BY DEF Forget
<1>2. IsFiniteSet(registry') /\ Cardinality(registry') <= Capacity
  BY <1>1, LessIsFewer
<1> QED
  BY <1>1, <1>2 DEF BoundInv, BoundTyped, Waiting, OnPosix

LEMMA RetainWaits ==
    ASSUME BoundInv, NEW b \in Binds, Retain(b)
    PROVE  /\ registry' \subseteq Binds /\ attached' \in [{"raised", "wrapped"} -> SUBSET Binds]
           /\ IsFiniteSet(registry') /\ Cardinality(registry') <= Capacity
           /\ \A c \in Binds \ {b} : (c \in registry' => c \in registry) /\ (Waiting(c)' <=> Waiting(c))
           /\ Waiting(b)'
<1>1. IsFiniteSet(registry) /\ Cardinality(registry) <= Capacity /\ Cardinality(registry) \in Nat
  BY FS_CardinalityType DEF BoundInv, Owners, RegistryHoldsOpenOwners
<1>2. CASE b \in registry \/ Cardinality(registry) < Capacity
  <2>1. registry' = registry \cup {b} /\ attached' = attached
    BY <1>2 DEF Retain
  <2>2. IsFiniteSet(registry') /\ Cardinality(registry')
           = IF b \in registry THEN Cardinality(registry) ELSE Cardinality(registry) + 1
    BY <1>1, <2>1, FS_AddElement
  <2>3. Cardinality(registry') <= Capacity
    BY <1>1, <1>2, <2>2, BoundDirectoryAssumption
  <2> QED
    BY <2>1, <2>2, <2>3 DEF BoundInv, BoundTyped, Waiting
<1>3. CASE ~(b \in registry \/ Cardinality(registry) < Capacity)
  <2>1. registry' = registry /\ attached' = [attached EXCEPT !["raised"] = @ \cup {b}]
    BY <1>3 DEF Retain
  <2> QED
    BY <1>1, <2>1 DEF BoundInv, BoundTyped, Waiting
<1> QED
  BY <1>2, <1>3

LEMMA Unwinds ==
    ASSUME BoundInv, NEW b \in Binds, UnwindBind(b)
    PROVE  BoundInv'
<1>1. ~bound[b].entered /\ ~Waiting(b)
  BY DEF UnwindBind, BoundInv, Walks, Owners
<1>2. PICK failed \in SUBSET HeldBy(b) :
         /\ Closing(HeldBy(b), failed)
         /\ IF bound[b].purpose = "publication" /\ platform = "windows"
            THEN /\ Remaining(b, failed)
                 /\ IF failed # {} THEN Retain(b) ELSE UNCHANGED <<registry, attached>>
            ELSE Remaining(b, {}) /\ UNCHANGED <<registry, attached>>
  BY DEF UnwindBind
<1>3. CASE bound[b].purpose = "publication" /\ platform = "windows" /\ failed # {}
  BY <1>2, <1>3, LettingGo, RetainWaits DEF UnwindBind
<1>4. CASE bound[b].purpose = "publication" /\ platform = "windows" /\ failed = {}
  BY <1>1, <1>2, <1>4, LettingGo, NobodyMoves DEF UnwindBind
<1>5. CASE ~(bound[b].purpose = "publication" /\ platform = "windows")
  BY <1>1, <1>2, <1>5, LettingGo, NobodyMoves DEF UnwindBind, Remembers
<1> QED
  BY <1>3, <1>4, <1>5

LEMMA Closes ==
    ASSUME BoundInv, NEW b \in Binds, CloseBound(b)
    PROVE  BoundInv'
<1>1. ~Waiting(b)
  BY DEF CloseBound, BoundInv, Owners
<1>2. PICK failed \in SUBSET HeldBy(b) :
         /\ Closing(HeldBy(b), failed)
         /\ IF bound[b].purpose = "cache"
            THEN Remaining(b, {}) /\ UNCHANGED <<registry, attached>>
            ELSE /\ Remaining(b, failed)
                 /\ IF failed = {} THEN Forget(b)
                    ELSE IF platform = "windows" THEN Retain(b)
                    ELSE UNCHANGED <<registry, attached>>
  BY DEF CloseBound
<1>3. CASE bound[b].purpose = "cache"
  BY <1>1, <1>2, <1>3, LettingGo, NobodyMoves DEF CloseBound, Remembers
<1>4. CASE bound[b].purpose # "cache" /\ failed = {}
  BY <1>2, <1>4, LettingGo, ForgetsOne DEF CloseBound
<1>5. CASE bound[b].purpose # "cache" /\ failed # {} /\ platform = "windows"
  BY <1>2, <1>5, LettingGo, RetainWaits DEF CloseBound
<1>6. CASE bound[b].purpose # "cache" /\ failed # {} /\ platform # "windows"
  BY <1>1, <1>2, <1>6, LettingGo, NobodyMoves DEF CloseBound
<1> QED
  BY <1>3, <1>4, <1>5, <1>6

LEMMA DrainsRegistry ==
    ASSUME BoundInv, NEW b \in Binds, DrainDeferred(b)
    PROVE  BoundInv'
<1>1. b \in registry /\ Waiting(b) /\ platform # "posix"
  BY DEF DrainDeferred, BoundInv, OnPosix, Waiting
<1>2. PICK failed \in SUBSET HeldBy(b) :
         /\ Closing(HeldBy(b), failed) /\ Remaining(b, failed)
         /\ IF failed = {} THEN Forget(b) ELSE UNCHANGED <<registry, attached>>
  BY DEF DrainDeferred
<1>3. CASE failed = {}
  BY <1>1, <1>2, <1>3, LettingGo, ForgetsOne DEF DrainDeferred
<1>4. CASE failed # {}
  BY <1>1, <1>2, <1>4, LettingGo, NobodyMoves DEF DrainDeferred
<1> QED
  BY <1>3, <1>4

LEMMA DrainsError ==
    ASSUME BoundInv, NEW b \in Binds, NEW e \in {"raised", "wrapped"}, DrainAttached(b, e)
    PROVE  BoundInv'
<1>1. Waiting(b) /\ platform # "posix"
  BY DEF DrainAttached, BoundInv, OnPosix, Waiting
<1>2. PICK failed \in SUBSET HeldBy(b) :
         /\ Closing(HeldBy(b), failed) /\ Remaining(b, failed)
         /\ registry' = IF failed = {} THEN registry \ {b} ELSE registry
         /\ attached' = IF failed = {} THEN [attached EXCEPT ![e] = @ \ {b}] ELSE attached
  BY DEF DrainAttached
<1>3. CASE failed = {}
  <2>1. /\ registry' \subseteq Binds /\ IsFiniteSet(registry') /\ Cardinality(registry') <= Capacity
        /\ b \notin registry'
    BY <1>2, <1>3, LessIsFewer DEF BoundInv, BoundTyped
  <2>2. attached' \in [{"raised", "wrapped"} -> SUBSET Binds]
    BY <1>2, <1>3 DEF BoundInv, BoundTyped
  <2>3. \A c \in Binds \ {b} : (c \in registry' => c \in registry) /\ (Waiting(c)' <=> Waiting(c))
    BY <1>2, <1>3 DEF Waiting, BoundInv, BoundTyped
  <2> QED
    BY <1>1, <1>2, <1>3, <2>1, <2>2, <2>3, LettingGo DEF DrainAttached
<1>4. CASE failed # {}
  BY <1>1, <1>2, <1>4, LettingGo, NobodyMoves DEF DrainAttached
<1> QED
  BY <1>3, <1>4

LEMMA Transfers == ASSUME BoundInv, Transfer PROVE BoundInv'
<1>1. /\ UNCHANGED <<platform, below, linked, table, bound, registry, closesLeft, movesLeft>>
      /\ attached' = [raised |-> {}, wrapped |-> attached["raised"] \cup attached["wrapped"]]
  BY DEF Transfer
<1>2. /\ attached'["raised"] = {}
      /\ attached'["wrapped"] = attached["raised"] \cup attached["wrapped"]
      /\ attached' \in [{"raised", "wrapped"} -> SUBSET Binds]
  BY <1>1 DEF BoundInv, BoundTyped
<1>3. \A c \in Binds : Waiting(c)' <=> Waiting(c)
  BY <1>1, <1>2 DEF Waiting
<1>4. \A c \in Binds : HeldBy(c)' = HeldBy(c)
  BY <1>1 DEF HeldBy
<1>5. BoundTyped'
  BY <1>1, <1>2 DEF BoundInv, BoundTyped, Tree
<1>6. Walks' /\ Owners' /\ OnPosix'
  BY <1>1, <1>3, <1>4 DEF BoundInv, Walks, Stands, Owners, RegistryHoldsOpenOwners, OnPosix, BoundTyped
<1>7. OnWindows'
  BY <1>1, <1>3, <1>4 DEF BoundInv, OnWindows, HeldHandlesAreOwn, Owned, Remembers, OnPath, AtEnd,
                          BoundTo, PathDirectory
<1> QED
  BY <1>5, <1>6, <1>7 DEF BoundInv

\* Whoever renames a directory of the path finds those of a walk pinned.
LEMMA Redirects ==
    ASSUME BoundInv, NEW parent \in {"anchor", below["anchor"]}, Redirect(parent)
    PROVE  BoundInv'
<1>1. /\ UNCHANGED <<platform, table, bound, registry, attached, closesLeft>>
      /\ ~Pinned(below[parent])
      /\ \/ below' = below
         \/ below' = IF parent = "anchor"
                     THEN [below EXCEPT !["anchor"] = IF @ = "one" THEN "one2" ELSE "one"]
                     ELSE [below EXCEPT !["one"] = below["one2"], !["one2"] = below["one"]]
  BY DEF Redirect
<1>2. /\ parent \in {"anchor", "one", "one2"} /\ linked' \subseteq Dirs
      /\ movesLeft' \in 0..MaxMoves
  BY BoundDirectoryAssumption DEF Redirect, BoundInv, BoundTyped, Tree, Dirs
<1>3. Tree'
  BY <1>1, <1>2 DEF BoundInv, BoundTyped, Tree, Dirs
<1>4. \A c \in Binds : HeldBy(c)' = HeldBy(c) /\ (Waiting(c)' <=> Waiting(c))
  BY <1>1 DEF HeldBy, Waiting
<1>5. BoundTyped'
  BY <1>1, <1>2, <1>3 DEF BoundInv, BoundTyped
<1>6. Walks' /\ Owners' /\ OnPosix'
  BY <1>1, <1>4 DEF BoundInv, Walks, Stands, Owners, RegistryHoldsOpenOwners, OnPosix, BoundTyped
<1>7. ASSUME platform = "windows", NEW b \in Binds
      PROVE  OnPath(b)'
  <2> SUFFICES ASSUME bound[b].pc \in {"walking", "bound"}, bound[b].purpose # "publication"
               PROVE  OnPath(b)'
    BY <1>1 DEF OnPath
  <2> DEFINE dir == table[bound[b].last].dir
  <2>1. /\ bound[b].last \in bound[b].held /\ bound[b].held \subseteq Handles
        /\ \A h \in bound[b].held : table[h].by = b
    BY <1>7 DEF BoundInv, Walks, Stands, OnWindows, HeldHandlesAreOwn, HeldBy, BoundTyped, Records
  <2>2. \A h \in bound[b].held : below[parent] # table[h].dir
    BY <1>1, <1>7, <2>1 DEF Pinned
  <2>3. \/ dir = "anchor"
        \/ dir = below["anchor"]
        \/ dir = PathDirectory /\ \E g \in bound[b].held : table[g].dir = below["anchor"]
    BY <1>7 DEF BoundInv, OnWindows, OnPath
  <2>4. CASE dir = "anchor"
    BY <1>1, <2>4 DEF OnPath
  <2>5. CASE dir = below["anchor"]
    <3>1. parent # "anchor"
      BY <2>1, <2>2, <2>5
    <3>2. below'["anchor"] = below["anchor"]
      BY <1>1, <3>1 DEF BoundInv, BoundTyped, Tree, Dirs
    <3> QED
      BY <1>1, <2>5, <3>2 DEF OnPath
  <2>6. CASE dir = PathDirectory /\ \E g \in bound[b].held : table[g].dir = below["anchor"]
    <3>1. parent # "anchor" /\ parent # below["anchor"]
      BY <2>1, <2>2, <2>6 DEF PathDirectory
    <3> QED
      BY <3>1
  <2> QED
    BY <2>3, <2>4, <2>5, <2>6
<1>8. OnWindows'
  <2> SUFFICES ASSUME platform = "windows"
               PROVE  HeldHandlesAreOwn' /\ Owned'
                      /\ \A b \in Binds : OnPath(b)' /\ (bound'[b].pc = "bound" => AtEnd(b)')
    BY <1>1 DEF OnWindows, HeldHandlesAreOwn
  <2>1. HeldHandlesAreOwn' /\ Owned'
    BY <1>1, <1>4 DEF BoundInv, OnWindows, HeldHandlesAreOwn, Owned, Remembers
  <2>2. \A b \in Binds : bound'[b].pc = "bound" => AtEnd(b)'
    BY <1>1 DEF BoundInv, OnWindows, AtEnd, BoundTo
  <2> QED
    BY <1>7, <2>1, <2>2
<1> QED
  BY <1>5, <1>6, <1>8 DEF BoundInv

LEMMA Binding == ASSUME BoundInv, NEW b \in Binds, Bound(b) PROVE BoundInv'
<1>1. bound' = [bound EXCEPT ![b].pc = "bound", ![b].entered = TRUE]
  BY DEF Bound
<1> QED
  BY <1>1, WalkEnds DEF Bound

LEMMA BoundSteps == BoundInv /\ [BoundNext]_boundVars => BoundInv'
<1> SUFFICES ASSUME BoundInv, [BoundNext]_boundVars
             PROVE  BoundInv'
  OBVIOUS
<1>1. ASSUME NEW b \in Binds, BoundStep(b)
      PROVE  BoundInv'
  <2>1. DOMAIN attached = {"raised", "wrapped"}
    BY DEF BoundInv, BoundTyped
  <2> QED
    BY <1>1, <2>1, OpensAnchor, OpensComponent, Binding, Unwinds, Closes, FailsChild,
       DrainsRegistry, DrainsError DEF BoundStep
<1>2. CASE UNCHANGED boundVars
  <2>1. \A c \in Binds : HeldBy(c)' = HeldBy(c) /\ (Waiting(c)' <=> Waiting(c))
    BY <1>2 DEF boundVars, HeldBy, Waiting
  <2>2. BoundTyped' /\ Walks' /\ Owners' /\ OnPosix'
    BY <1>2, <2>1 DEF boundVars, BoundInv, BoundTyped, Tree, Walks, Stands, Owners,
                      RegistryHoldsOpenOwners, OnPosix
  <2>3. OnWindows'
    BY <1>2, <2>1 DEF boundVars, BoundInv, OnWindows, HeldHandlesAreOwn, Owned, Remembers, OnPath,
                      AtEnd, BoundTo, PathDirectory
  <2> QED
    BY <2>2, <2>3 DEF BoundInv
<1> QED
  BY <1>1, <1>2, Transfers, Redirects DEF BoundNext

LEMMA BoundStart == BoundInit => BoundInv
<1> SUFFICES ASSUME BoundInit
             PROVE  BoundInv
  OBVIOUS
<1>1. Tree /\ platform \in {"posix", "windows"}
  BY DEF BoundInit, Tree, Dirs
<1>2. /\ bound = [b \in Binds |-> Unbound] /\ table = [h \in Handles |-> Closed]
      /\ registry = {} /\ attached = [e \in {"raised", "wrapped"} |-> {}]
      /\ closesLeft \in 0..MaxFaults /\ movesLeft \in 0..MaxMoves
  BY BoundDirectoryAssumption DEF BoundInit
<1>3. /\ Unbound \in Records /\ Unbound.pc = "none" /\ Unbound.held \cup Unbound.cleanup = {}
      /\ ~Unbound.entered /\ Closed \in Entries /\ Closed.dir = "none" /\ Closed.by = 0
  BY BoundDirectoryAssumption DEF Unbound, Records, Purposes, Closed, Entries
<1>4. BoundTyped
  BY <1>1, <1>2, <1>3 DEF BoundTyped
<1>5. \A b \in Binds : ~Waiting(b) /\ HeldBy(b) = {}
  BY <1>2, <1>3 DEF Waiting, HeldBy
<1>6. Walks /\ OnPosix
  BY <1>2, <1>3, <1>5 DEF Walks, Stands, OnPosix
<1>7. Owners
  BY <1>2, <1>5, FS_EmptySet, BoundDirectoryAssumption DEF Owners, RegistryHoldsOpenOwners
<1>8. OnWindows
  <2>1. \A h \in Handles, b \in Binds : table[h].by # b
    BY <1>2, <1>3, BoundDirectoryAssumption
  <2> QED
    BY <1>2, <1>3, <1>5, <2>1 DEF OnWindows, HeldHandlesAreOwn, Owned, OnPath
<1> QED
  BY <1>4, <1>6, <1>7, <1>8 DEF BoundInv

\* Through failed closes, a full registry, translated errors and renamed
\* directories, no handle that must be closed is forgotten, no one closes
\* another's, and an assertion that succeeds tells the truth.
THEOREM HandlesAreAccountedFor == BoundSpec => []BoundCorrect
<1>1. BoundInv => BoundCorrect
  BY Corrects
<1> QED
  BY <1>1, BoundStart, BoundSteps, PTL DEF BoundSpec

-----------------------------------------------------------------------------
(* BoundEntries: what an operation takes away *)

\* What an operation holds open is a node that was made, and what was checked
\* is of the kind it accepts.
CallHolds ==
    /\ call.pc = "looked" => call.what \in {"unlink_regular", "unlink"} /\ call.name \in EntryNames
    /\ call.pc = "made" => call.name \in EntryNames
    /\ call.pc \in {"opened", "checked"} =>
         /\ windows /\ call.node \in Made /\ call.name \in EntryNames
         /\ call.what \in {"unlink_regular", "unlink", "rmdir", "read"} \cup Renames
         /\ call.what \in Renames => call.to \in EntryNames \ {call.name}
    /\ call.pc = "checked" => kindOf[call.node] \in Accepts(call.what)
EntriesInv == EntriesTypeOK /\ CallHolds

EntryCalls == [what : Operations \cup {"none"}, name : EntryNames \cup {"none"}, to : EntryNames \cup {"none"},
               pc : {"idle", "looked", "opened", "checked", "made"}, node : 0..MaxNodes,
               failed : BOOLEAN]

\* The next node is one that was not made.
LEMMA NextIsUnmade ==
    ASSUME Made # EntryNodes
    PROVE  NextNode \in EntryNodes \ Made
<1> DEFINE Free == EntryNodes \ Made
<1>1. Free # {} /\ Free \subseteq Nat
  BY BoundEntriesAssumption DEF Made, EntryNodes
<1>2. PICK n \in Free : \A k \in Free : <<k, n>> \notin OpToRel(<, Nat)
  BY <1>1, WFMin, NatLessThanWellFounded
<1>3. n \in Nat /\ \A k \in Free : k \in Nat /\ ~(k < n)
  BY <1>1, <1>2 DEF OpToRel
<1>4. \A k \in Free : n <= k
  BY <1>3
<1>5. \E m \in Free : \A k \in Free : m <= k
  BY <1>4
<1> QED
  BY <1>5 DEF NextNode

\* The calls as the records they are.
LEMMA CallBegins ==
    ASSUME NEW what \in Operations, NEW name \in EntryNames, NEW to \in EntryNames,
           NEW pc \in {"looked", "opened", "checked", "made"}, NEW node \in 0..MaxNodes,
           calls \in 0..MaxCalls, Call(what, name, to, pc, node)
    PROVE  /\ call.pc = "idle" /\ call' \in EntryCalls /\ calls' \in 0..MaxCalls
           /\ call'.what = what /\ call'.name = name /\ call'.to = to
           /\ call'.pc = pc /\ call'.node = node
<1>1. call' = [what |-> what, name |-> name, to |-> to, pc |-> pc, node |-> node, failed |-> FALSE]
  BY DEF Call, NoCall
<1>2. call.pc = "idle" /\ calls < MaxCalls /\ calls' = calls + 1
  BY DEF Call
<1> QED
  BY <1>1, <1>2, BoundEntriesAssumption DEF EntryCalls

LEMMA CallEnds ==
    ASSUME call.failed \in BOOLEAN, CallReturns \/ Raise
    PROVE  call' \in EntryCalls /\ call'.pc = "idle"
<1>1. \E f \in BOOLEAN : call' = [NoCall EXCEPT !.failed = f]
  BY DEF CallReturns, Raise
<1>2. \E f \in BOOLEAN : call' = [what |-> "none", name |-> "none", to |-> "none", pc |-> "idle", node |-> 0,
                                failed |-> f]
  BY <1>1 DEF NoCall
<1> QED
  BY <1>2, BoundEntriesAssumption DEF EntryCalls

LEMMA EntriesStart == EntriesInit => EntriesInv
<1> SUFFICES ASSUME EntriesInit
             PROVE  EntriesInv
  OBVIOUS
<1>1. NoCall \in EntryCalls /\ NoCall.pc = "idle"
  BY BoundEntriesAssumption DEF NoCall, EntryCalls
<1> QED
  BY <1>1, BoundEntriesAssumption DEF EntriesInit, EntriesInv, EntriesTypeOK, CallHolds, EntryCalls

\* Taking a node from its name, or moving it to another, gives no node two names.
LEMMA Moves ==
    ASSUME EntriesInv, NEW name \in EntryNames, NEW to,
           \/ entry' = [entry EXCEPT ![name] = 0]
           \/ /\ to \in EntryNames \ {name}
              /\ entry' = [entry EXCEPT ![name] = 0, ![to] = entry[name]]
           \/ UNCHANGED entry
    PROVE  /\ entry' \in [EntryNames -> 0..MaxNodes]
           /\ \A n \in EntryNames : entry'[n] \in Made \cup {0}
           /\ \A m, n \in EntryNames : m # n /\ entry'[m] = entry'[n] => entry'[m] = 0
<1>1. entry \in [EntryNames -> 0..MaxNodes] /\ 0 \in 0..MaxNodes
  BY BoundEntriesAssumption DEF EntriesInv, EntriesTypeOK
<1>2. entry' \in [EntryNames -> 0..MaxNodes]
  BY <1>1
<1>3. \A n \in EntryNames : entry'[n] \in {0, entry[n]} \/ (n = to /\ entry'[n] = entry[name] /\ entry'[name] = 0)
  BY <1>1
<1> QED
  BY <1>2, <1>3 DEF EntriesInv, EntriesTypeOK

\* Another process gives a name a node of its own, or none, and leaves the call alone.
LEMMA OthersStep == ASSUME EntriesInv, NEW name \in EntryNames, OtherProcess(name) PROVE EntriesInv'
<1> USE DEF OtherProcess
<1>1. UNCHANGED <<windows, call, calls>>
  OBVIOUS
<1>2. Made # EntryNodes => NextNode \in EntryNodes \ Made
  BY NextIsUnmade
<1>3. \A n \in Made : n \in Made' /\ kindOf'[n] = kindOf[n]
  BY <1>2 DEF EntriesInv, EntriesTypeOK, Made
<1>4. EntriesTypeOK'
  <2>1. CASE /\ UNCHANGED kindOf
             /\ \/ entry' = [entry EXCEPT ![name] = 0]
                \/ \E to \in EntryNames \ {name} : entry' = [entry EXCEPT ![name] = 0, ![to] = entry[name]]
    <3>1. /\ entry' \in [EntryNames -> 0..MaxNodes]
          /\ \A n \in EntryNames : entry'[n] \in Made \cup {0}
          /\ \A m, n \in EntryNames : m # n /\ entry'[m] = entry'[n] => entry'[m] = 0
      BY <2>1, Moves
    <3> QED
      BY <1>1, <2>1, <3>1 DEF EntriesInv, EntriesTypeOK, Made
  <2>2. ASSUME NEW k \in NodeKinds, Made # EntryNodes, kindOf' = [kindOf EXCEPT ![NextNode] = k],
               entry' = [entry EXCEPT ![name] = NextNode]
        PROVE  EntriesTypeOK'
    <3>1. NextNode \in Made' /\ NextNode \in 0..MaxNodes
      BY <1>2, <2>2 DEF EntriesInv, EntriesTypeOK, Made, NodeKinds, EntryNodes
    <3>2. \A n \in EntryNames : entry[n] # NextNode
      <4>1. NextNode \notin Made /\ NextNode # 0
        BY <1>2, <2>2, BoundEntriesAssumption DEF EntryNodes
      <4> QED
        BY <4>1 DEF EntriesInv, EntriesTypeOK
    <3>3. /\ entry' \in [EntryNames -> 0..MaxNodes] /\ kindOf' \in [EntryNodes -> NodeKinds \cup {"unmade"}]
          /\ \A n \in EntryNames : entry'[n] = IF n = name THEN NextNode ELSE entry[n]
      BY <1>2, <2>2, <3>1 DEF EntriesInv, EntriesTypeOK
    <3>4. \A m, n \in EntryNames : m # n /\ entry'[m] = entry'[n] => entry'[m] = 0
      BY <3>2, <3>3 DEF EntriesInv, EntriesTypeOK
    <3>5. \A n \in EntryNames : entry'[n] \in Made' \cup {0}
      BY <1>3, <3>1, <3>3 DEF EntriesInv, EntriesTypeOK
    <3> QED
      BY <1>1, <3>3, <3>4, <3>5 DEF EntriesInv, EntriesTypeOK
  <2> QED
    BY <2>1, <2>2
<1>5. CallHolds'
  BY <1>1, <1>3 DEF EntriesInv, CallHolds
<1> QED
  BY <1>4, <1>5 DEF EntriesInv

\* The operations look, open and check before they act.
LEMMA Opens ==
    ASSUME EntriesInv, NEW what \in Operations, NEW name \in EntryNames, NEW to \in EntryNames,
           LookAt(what, name) \/ OpenEntry(what, name, to)
    PROVE  EntriesInv'
<1> USE DEF EntriesInv, EntriesTypeOK
<1>1. UNCHANGED <<windows, entry, kindOf>>
  BY DEF LookAt, OpenEntry
<1>2. CASE LookAt(what, name)
  <2>1. Call(what, name, name, "looked", 0) /\ what \in {"unlink_regular", "unlink"}
    BY <1>2 DEF LookAt
  <2>2. /\ call' \in EntryCalls /\ calls' \in 0..MaxCalls
        /\ call'.what = what /\ call'.name = name /\ call'.pc = "looked"
    BY <2>1, CallBegins, BoundEntriesAssumption
  <2> QED
    BY <1>1, <2>1, <2>2 DEF EntryCalls, Made, CallHolds
<1>3. CASE OpenEntry(what, name, to)
  <2>1. windows /\ entry[name] \in Made /\ entry[name] \in 0..MaxNodes
    BY <1>3 DEF OpenEntry
  <2>2. CASE /\ call.pc = "looked" /\ call.what = what /\ call.name = name
             /\ call' = [call EXCEPT !.pc = "opened", !.node = entry[name]] /\ UNCHANGED calls
    <3>1. /\ call'.pc = "opened" /\ call'.node = entry[name]
          /\ call'.what = what /\ call'.name = name
      BY <2>2
    <3>2. call' \in EntryCalls
      BY <2>1, <2>2 DEF EntryCalls
    <3>3. what \in {"unlink_regular", "unlink"}
      BY <2>2 DEF CallHolds
    <3>4. what \notin Renames
      BY <3>3 DEF Renames
    <3>5. EntriesTypeOK'
      BY <1>1, <2>2, <3>2 DEF EntryCalls, Made
    <3>6. CallHolds'
      BY <1>1, <2>1, <3>1, <3>3, <3>4 DEF Made, CallHolds
    <3> QED
      BY <3>5, <3>6
  <2>3. CASE /\ what \in {"unlink", "rmdir", "read"} \cup Renames
             /\ (what \in Renames) = (name # to)
             /\ Call(what, name, to, "opened", entry[name])
    <3>1. /\ call' \in EntryCalls /\ calls' \in 0..MaxCalls
          /\ call'.what = what /\ call'.name = name /\ call'.to = to
          /\ call'.pc = "opened" /\ call'.node = entry[name]
      BY <2>1, <2>3, CallBegins
    <3>2. what \in Renames => name # to
      BY <2>3
    <3>3. EntriesTypeOK'
      BY <1>1, <3>1 DEF EntryCalls, Made
    <3>4. what \in {"unlink_regular", "unlink", "rmdir", "read"} \cup Renames
      BY <2>3
    <3>5. CallHolds'
      BY <1>1, <2>1, <3>1, <3>2, <3>4 DEF Made, CallHolds
    <3> QED
      BY <3>3, <3>5
  <2> QED
    BY <1>3, <2>2, <2>3 DEF OpenEntry
<1> QED
  BY <1>2, <1>3

LEMMA Checks == ASSUME EntriesInv, CheckOpened PROVE EntriesInv'
<1> USE DEF EntriesInv, EntriesTypeOK
<1>1. call.pc = "opened" /\ UNCHANGED <<windows, entry, kindOf, calls>>
  BY DEF CheckOpened
<1>2. CASE Raise
  <2>1. call' \in EntryCalls /\ call'.pc = "idle"
    BY <1>2, CallEnds
  <2> QED
    BY <1>1, <2>1 DEF EntryCalls, Made, CallHolds
<1>3. CASE CallGoes("checked") /\ kindOf[call.node] \in Accepts(call.what)
  <2>1. /\ call'.pc = "checked" /\ call'.what = call.what /\ call'.name = call.name
        /\ call'.to = call.to /\ call'.node = call.node
    BY <1>3 DEF CallGoes
  <2>2. call' \in EntryCalls
    BY <1>3 DEF CallGoes, EntryCalls
  <2>3. EntriesTypeOK'
    BY <1>1, <2>2 DEF EntryCalls, Made
  <2>4. kindOf'[call'.node] \in Accepts(call'.what)
    BY <1>1, <1>3, <2>1
  <2>5. CallHolds'
    BY <1>1, <2>1, <2>4 DEF CallHolds, Made
  <2> QED
    BY <2>3, <2>5
<1> QED
  BY <1>2, <1>3 DEF CheckOpened

\* How an operation ends: nothing is held, and each name has what it had, or
\* nothing, or what another name has no more.
LEMMA Ends ==
    ASSUME EntriesInv, UNCHANGED <<windows, kindOf>>, calls' \in 0..MaxCalls,
           CallReturns \/ Raise,
           entry' \in [EntryNames -> 0..MaxNodes],
           \A n \in EntryNames : entry'[n] \in Made \cup {0},
           \A m, n \in EntryNames : m # n /\ entry'[m] = entry'[n] => entry'[m] = 0
    PROVE  EntriesInv'
<1>1. call' \in EntryCalls /\ call'.pc = "idle"
  BY CallEnds DEF EntriesInv, EntriesTypeOK
<1>2. EntriesTypeOK'
  BY <1>1 DEF EntriesInv, EntriesTypeOK, EntryCalls, Made
<1> QED
  BY <1>1, <1>2 DEF EntriesInv, CallHolds

\* The same through the handle: the opened node leaves whatever name it has.
LEMMA HandleMoves ==
    ASSUME EntriesInv, call.node \in Made,
           \/ entry' = [n \in EntryNames |-> IF entry[n] = call.node THEN 0 ELSE entry[n]]
           \/ /\ call.to \in EntryNames
              /\ entry' = [n \in EntryNames |-> CASE n = call.to -> call.node
                                                  [] n # call.to /\ entry[n] = call.node -> 0
                                                  [] OTHER -> entry[n]]
    PROVE  /\ entry' \in [EntryNames -> 0..MaxNodes]
           /\ \A n \in EntryNames : entry'[n] \in Made \cup {0}
           /\ \A m, n \in EntryNames : m # n /\ entry'[m] = entry'[n] => entry'[m] = 0
<1>1. /\ entry \in [EntryNames -> 0..MaxNodes] /\ 0 \in 0..MaxNodes
      /\ call.node \in 0..MaxNodes /\ call.node # 0
  BY BoundEntriesAssumption DEF EntriesInv, EntriesTypeOK, Made, EntryNodes
<1>2. \A n \in EntryNames :
        \/ entry'[n] = call.node /\ n = call.to
        \/ entry'[n] = 0
        \/ entry'[n] = entry[n] /\ entry[n] # call.node
  OBVIOUS
<1>3. \A n \in EntryNames : entry'[n] \in 0..MaxNodes /\ entry'[n] \in Made \cup {0}
  BY <1>1, <1>2 DEF EntriesInv, EntriesTypeOK
<1>4. \A m, n \in EntryNames : m # n /\ entry'[m] = entry'[n] => entry'[m] = 0
  BY <1>1, <1>2 DEF EntriesInv, EntriesTypeOK
<1>5. entry' = [n \in EntryNames |-> entry'[n]]
  OBVIOUS
<1> QED
  BY <1>3, <1>4, <1>5

LEMMA Acts ==
    ASSUME EntriesInv, DeleteOpened \/ RenameOpened \/ ReadOpened \/ OpenFails \/ MadeIt
    PROVE  EntriesInv'
<1>1. UNCHANGED <<windows, kindOf, calls>> /\ (CallReturns \/ Raise)
  BY DEF DeleteOpened, RenameOpened, ReadOpened, OpenFails, MadeIt
<1>2. CASE UNCHANGED entry
  BY <1>1, <1>2, Ends DEF EntriesInv, EntriesTypeOK
<1>3. CASE DeleteOpened \/ RenameOpened
  <2>1. call.node \in Made /\ (call.what \in Renames => call.to \in EntryNames)
    BY <1>3 DEF DeleteOpened, RenameOpened, EntriesInv, CallHolds
  <2>2. \/ UNCHANGED entry
        \/ entry' = [n \in EntryNames |-> IF entry[n] = call.node THEN 0 ELSE entry[n]]
        \/ /\ call.to \in EntryNames
           /\ entry' = [n \in EntryNames |-> CASE n = call.to -> call.node
                                               [] n # call.to /\ entry[n] = call.node -> 0
                                               [] OTHER -> entry[n]]
    BY <1>3, <2>1 DEF DeleteOpened, RenameOpened
  <2> QED
    BY <1>1, <1>2, <2>1, <2>2, HandleMoves, Ends DEF EntriesInv, EntriesTypeOK
<1> QED
  BY <1>2, <1>3 DEF ReadOpened, OpenFails, MadeIt

LEMMA ActsByName ==
    ASSUME EntriesInv, NEW what \in Operations, NEW name \in EntryNames, NEW to \in EntryNames,
           RemoveByName(what, name) \/ ReplaceByName(name, to)
    PROVE  EntriesInv'
<1>1. UNCHANGED <<windows, kindOf>> /\ (CallReturns \/ Raise) /\ calls' \in 0..MaxCalls
  BY BoundEntriesAssumption DEF RemoveByName, ReplaceByName, EntriesInv, EntriesTypeOK
<1>2. \/ entry' = [entry EXCEPT ![name] = 0]
      \/ /\ to \in EntryNames \ {name}
         /\ entry' = [entry EXCEPT ![name] = 0, ![to] = entry[name]]
      \/ UNCHANGED entry
  BY DEF RemoveByName, ReplaceByName
<1> QED
  BY <1>1, <1>2, Moves, Ends

\* The rollback opens what the name has by now, for rmdir_at to look at.
LEMMA FlushesFail == ASSUME EntriesInv, FlushFails PROVE EntriesInv'
<1>1. UNCHANGED <<windows, entry, kindOf, calls>> /\ windows /\ call.name \in EntryNames
  BY DEF FlushFails, EntriesInv, CallHolds
<1>2. CASE Raise
  BY <1>1, <1>2, Ends DEF EntriesInv, EntriesTypeOK
<1>3. CASE /\ call.what = "mkdir" /\ entry[call.name] # 0
           /\ call' = [call EXCEPT !.what = "rmdir", !.pc = "opened", !.node = entry[call.name], !.failed = TRUE]
  <2>1. entry[call.name] \in Made /\ entry[call.name] \in 0..MaxNodes
    BY <1>1, <1>3 DEF EntriesInv, EntriesTypeOK
  <2>2. /\ call' \in EntryCalls /\ call'.what = "rmdir" /\ call'.pc = "opened"
        /\ call'.node = entry[call.name] /\ call'.name = call.name
    BY <1>3, <2>1 DEF EntriesInv, EntriesTypeOK, EntryCalls, Operations
  <2>3. "rmdir" \notin Renames
    BY DEF Renames
  <2>4. EntriesTypeOK'
    BY <1>1, <2>2 DEF EntriesInv, EntriesTypeOK, EntryCalls, Made
  <2>5. CallHolds'
    BY <1>1, <2>1, <2>2, <2>3 DEF CallHolds, Made
  <2> QED
    BY <2>4, <2>5 DEF EntriesInv
<1> QED
  BY <1>2, <1>3 DEF FlushFails

LEMMA Makes ==
    ASSUME EntriesInv, NEW what \in Operations, NEW name \in EntryNames,
           OpenNew(name) \/ MakeDirectory(what, name)
    PROVE  EntriesInv'
<1> USE DEF EntriesInv, EntriesTypeOK
<1>1. windows' = windows /\ "new" \in Operations
  BY DEF OpenNew, MakeDirectory, Operations
<1>2. ASSUME NEW node \in 0..MaxNodes, NEW kind \in Operations, Call(kind, name, name, "made", node)
      PROVE  call' \in EntryCalls /\ calls' \in 0..MaxCalls /\ call'.pc = "made" /\ call'.name = name
  BY <1>2, CallBegins
<1>3. CASE UNCHANGED <<entry, kindOf>> /\ Call(what, name, name, "made", entry[name])
  <2>1. call' \in EntryCalls /\ calls' \in 0..MaxCalls /\ call'.pc = "made" /\ call'.name = name
    BY <1>2, <1>3
  <2> QED
    BY <1>1, <1>3, <2>1 DEF EntryCalls, Made, CallHolds
<1>4. ASSUME NEW k \in {"file", "dir"}, NEW kind \in Operations, Made # EntryNodes,
             Call(kind, name, name, "made", NextNode),
             entry' = [entry EXCEPT ![name] = NextNode], kindOf' = [kindOf EXCEPT ![NextNode] = k]
      PROVE  EntriesInv'
  <2>1. NextNode \in EntryNodes \ Made
    BY <1>4, NextIsUnmade
  <2>2. NextNode \in 0..MaxNodes /\ NextNode # 0
    BY <2>1, BoundEntriesAssumption DEF EntryNodes
  <2>3. call' \in EntryCalls /\ calls' \in 0..MaxCalls /\ call'.pc = "made" /\ call'.name = name
    BY <1>2, <1>4, <2>2
  <2>4. /\ kindOf' \in [EntryNodes -> NodeKinds \cup {"unmade"}]
        /\ \A n \in Made \cup {0} : n \in Made' \cup {0}
        /\ NextNode \in Made'
    BY <1>4, <2>1 DEF Made, NodeKinds
  <2>5. entry' \in [EntryNames -> 0..MaxNodes]
    BY <1>4, <2>2
  <2>6. \A n \in EntryNames : entry'[n] = IF n = name THEN NextNode ELSE entry[n]
    BY <1>4
  <2>7. \A n \in EntryNames : entry[n] # NextNode
    BY <2>1, <2>2
  <2>8. \A m, n \in EntryNames : m # n /\ entry'[m] = entry'[n] => entry'[m] = 0
    BY <2>6, <2>7
  <2>9. \A n \in EntryNames : entry'[n] \in Made' \cup {0}
    BY <2>4, <2>6
  <2>10. EntriesTypeOK'
    BY <1>1, <2>3, <2>4, <2>5, <2>8, <2>9 DEF EntryCalls
  <2> QED
    BY <2>3, <2>10 DEF CallHolds
<1>5. CASE OpenNew(name)
  BY <1>1, <1>4, <1>5 DEF OpenNew
<1>6. CASE MakeDirectory(what, name)
  BY <1>3, <1>4, <1>6 DEF MakeDirectory
<1> QED
  BY <1>5, <1>6

LEMMA EntriesSteps == EntriesInv /\ [EntriesNext]_entryVars => EntriesInv'
<1> SUFFICES ASSUME EntriesInv, [EntriesNext]_entryVars
             PROVE  EntriesInv'
  OBVIOUS
<1>1. CASE UNCHANGED entryVars
  BY <1>1 DEF entryVars, EntriesInv, EntriesTypeOK, CallHolds, Made
<1>2. ASSUME NEW name \in EntryNames, EntryStep(name) PROVE EntriesInv'
  <2>1. "new" \in Operations
    BY DEF Operations
  <2> QED
    BY <1>2, <2>1, OthersStep, Opens, ActsByName, Makes DEF EntryStep
<1> QED
  BY <1>1, <1>2, Checks, Acts, FlushesFail DEF EntriesNext

\* What leaves its name in a step of an operation is the node it opened, or
\* what a rename replaces.
LEMMA TakesStep ==
    ASSUME EntriesInv, EntriesNext, NEW n \in EntryNames,
           call.pc # "idle", call' # call, entry[n] # 0, entry'[n] # entry[n]
    PROVE  \/ windows /\ entry[n] = call.node /\ kindOf[entry[n]] \in Accepts(call.what)
           \/ windows /\ n = call.to /\ call.what \in Renames /\ kindOf[entry[n]] # "dir"
           \/ ~windows /\ n = call.name /\ kindOf[entry[n]] # "dir"
<1>1. ~(\E name \in EntryNames : OtherProcess(name))
  BY DEF OtherProcess
<1>2. CASE DeleteOpened
  <2>1. entry[n] = call.node
    BY <1>2 DEF DeleteOpened
  <2> QED
    BY <1>2, <2>1 DEF DeleteOpened, EntriesInv, CallHolds
<1>3. CASE RenameOpened
  <2>1. /\ windows /\ call.what \in Renames /\ kindOf[call.node] \in Accepts(call.what)
        /\ \/ UNCHANGED entry
           \/ /\ KindAt(call.to) # "dir"
              /\ entry' = [m \in EntryNames |-> CASE m = call.to -> call.node
                                                  [] m # call.to /\ entry[m] = call.node -> 0
                                                  [] OTHER -> entry[m]]
    BY <1>3 DEF RenameOpened, EntriesInv, CallHolds
  <2>2. CASE n = call.to
    BY <2>1, <2>2 DEF KindAt
  <2>3. CASE n # call.to
    <3>1. entry[n] = call.node
      BY <2>1, <2>3
    <3> QED
      BY <2>1, <3>1
  <2> QED
    BY <2>2, <2>3
<1>4. ASSUME NEW name \in EntryNames, NEW what \in Operations, RemoveByName(what, name)
      PROVE  ~windows /\ n = call.name /\ kindOf[entry[n]] # "dir"
  BY <1>4 DEF RemoveByName, KindAt, EntriesInv, EntriesTypeOK, CallHolds
<1>5. ~(\E name \in EntryNames : OpenNew(name) \/ \E to \in EntryNames : ReplaceByName(name, to))
  BY DEF OpenNew, ReplaceByName, Call
<1>6. ~(\E name \in EntryNames, what \in Operations :
          LookAt(what, name) \/ MakeDirectory(what, name) \/ \E to \in EntryNames : OpenEntry(what, name, to))
  BY DEF LookAt, MakeDirectory, OpenEntry, Call
<1>7. ~(CheckOpened \/ ReadOpened \/ OpenFails \/ FlushFails \/ MadeIt)
  BY DEF CheckOpened, ReadOpened, OpenFails, FlushFails, MadeIt
<1> QED
  BY <1>1, <1>2, <1>3, <1>4, <1>5, <1>6, <1>7 DEF EntriesNext, EntryStep

\* Whatever another process puts at the names between the steps of an operation:
\* on Windows it takes away only the node it opened, and only one of the kind
\* it accepts, and renames over no directory.  That holds of the removal
\* after a failed mkdir too, which opens the name again and so may find another's
\* directory.  On POSIX the removal of an entry that was looked at may take
\* another one, but no directory.
THEOREM OnlyTheOpenedIsTaken == EntriesSpec => EntriesCorrect
<1>1. EntriesSpec => []EntriesInv
  BY EntriesStart, EntriesSteps, PTL DEF EntriesSpec
<1>2. EntriesInv /\ [EntriesNext]_entryVars =>
        [\A n \in EntryNames :
           call.pc # "idle" /\ call' # call /\ entry[n] # 0 /\ entry'[n] # entry[n] =>
               \/ windows /\ entry[n] = call.node /\ kindOf[entry[n]] \in Accepts(call.what)
               \/ windows /\ n = call.to /\ call.what \in Renames /\ kindOf[entry[n]] # "dir"
               \/ ~windows /\ n = call.name /\ kindOf[entry[n]] # "dir"]_entryVars
  BY TakesStep
<1>3. EntriesSpec => TakesWhatItOpened
  BY <1>1, <1>2, PTL DEF EntriesSpec, TakesWhatItOpened
<1>4. EntriesInv => EntriesTypeOK
  BY DEF EntriesInv
<1> QED
  BY <1>1, <1>3, <1>4, PTL DEF EntriesCorrect

-----------------------------------------------------------------------------
(* Migration: the inductive invariant *)

Versions == 0..Theirs \cup {Absent}
Pin == IF pinned THEN 1 ELSE 0
Stages == {"IDLE", "STALE", "READ", "LOOK", "PIN", "COPY", "VERIFY", "PUBLISH", "SIDECAR",
           "MATCH", "REMOVE", "FORGET"}

MigrationTyped ==
    /\ MigrationTypeOK /\ stage \in Stages
    /\ {runsLeft, rewritesLeft, troublesLeft} \subseteq Nat
    /\ \A f \in FrameNames : latest[f] + rewritesLeft <= MaxRewrites
    /\ stage # "IDLE" => outcome = "NONE"

\* A file of the legacy set is as the user saved it, or gone; until the
\* removal begins none is gone.
SourceIsTheUsers ==
    /\ Exists("source") =>
         /\ tree["source"]["manifest"] \in {Absent, Pin}
         /\ \A f \in FrameNames : tree["source"][f] \in {Absent, latest[f]}
    /\ stage \in {"LOOK", "PIN", "COPY", "VERIFY", "PUBLISH", "SIDECAR", "MATCH"} => Readable("source")
    /\ stage = "REMOVE" => Exists("source")
    /\ stage = "FORGET" => ~Exists("source")

\* The copy has the legacy pin; once compared, the frames that were scanned.
Copied ==
    /\ stage \in {"STALE", "READ", "LOOK"} => copied = {}
    /\ copied # {} => "manifest" \in copied
    /\ stage = "VERIFY" => copied # {}
    /\ stage \in {"COPY", "VERIFY"} /\ copied # {} /\ Exists("temporary") =>
         tree["temporary"]["manifest"] = Pin
    /\ stage = "PUBLISH" =>
         /\ found = "none" /\ Readable("temporary") /\ FramesAt("temporary") = scanned
         /\ tree["temporary"]["manifest"] = Pin
    /\ stage \in {"COPY", "VERIFY"} => found = "none"

\* A cached set that was found stays there, though a second instance may empty it.
Found == stage = "PIN" => found \in CachePlaces /\ Exists(found)

\* What the legacy set is about to be removed for is whole in the cache.
Destination == IF found = "none" THEN "named" ELSE found
Secured ==
    /\ stage \in {"PIN", "SIDECAR", "MATCH", "REMOVE", "FORGET"} =>
         Readable(Destination) /\ FramesAt(Destination) = scanned
    /\ stage \in {"SIDECAR", "MATCH", "REMOVE", "FORGET"} /\ pinned =>
         tree[Destination]["manifest"] = 1

\* No frame was saved since the comparison but those that were overtaken.
Compared ==
    stage \in {"REMOVE", "FORGET"} => \A f \in FrameNames \ overtaken : latest[f] = scanned[f]

TransformFollows ==
    /\ TransformIsKept
    /\ stage \in {"MATCH", "REMOVE", "FORGET"} /\ transform.source = "legacy" =>
         transform.cache = "legacy"

MigrationInv ==
    /\ MigrationTyped /\ SourceIsTheUsers /\ Found /\ Compared /\ TransformFollows
    /\ NotSwept => Copied /\ Secured
    /\ LegacyFramesAreKept /\ PinIsKept /\ ReportIsTrue

-----------------------------------------------------------------------------
(* The files of a directory *)

LEMMA Files ==
    ASSUME MigrationTyped, NEW p \in MigrationPlaces, Exists(p)
    PROVE  tree[p] \in [CutFiles -> Versions]
  BY DEF MigrationTyped, MigrationTypeOK, CutTrees, Versions, Exists

\* A directory with files is not a missing one.
LEMMA DirectoryIsThere ==
    ASSUME NEW dir \in [CutFiles -> Versions]
    PROVE  dir # Absent
<1>1. Versions \subseteq Nat \cup {Absent}
  BY MigrationAssumption DEF Versions, Theirs
<1> QED
  BY <1>1, MigrationAssumption

\* A frame is a file, and the manifest is none of the frames.
LEMMA FramesAreFiles ==
    /\ FrameNames \subseteq CutFiles /\ "manifest" \in CutFiles \ FrameNames
    /\ CachePlaces \subseteq MigrationPlaces /\ {"source", "temporary"} \subseteq MigrationPlaces
  BY MigrationAssumption DEF CutFiles, MigrationPlaces, CachePlaces

\* Where neither the legacy set nor the cache changes, both keep what they have.
LEMMA NothingMoves ==
    ASSUME MigrationInv, UNCHANGED <<latest, overtaken, pinned, sweeper>>,
           tree'["source"] = tree["source"], \A p \in CachePlaces : tree'[p] = tree[p]
    PROVE  LegacyFramesAreKept' /\ PinIsKept'
<1>1. LegacyFramesAreKept'
  <2>1. LegacyFramesAreKept
    BY DEF MigrationInv
  <2> QED
    BY <2>1 DEF LegacyFramesAreKept, NotSwept, Exists
<1>2. PinIsKept'
  BY DEF MigrationInv, PinIsKept, NotSwept, Exists
<1> QED
  BY <1>1, <1>2

-----------------------------------------------------------------------------
(* The steps that leave the legacy set and the cached sets alone *)

LEMMA Starts == ASSUME MigrationInv, StartMigration PROVE MigrationInv'
<1> USE DEF StartMigration, MigrationAt
<1>1. MigrationTyped'
  BY DEF MigrationInv, MigrationTyped, MigrationTypeOK, Stages
<1>2. SourceIsTheUsers'
  BY DEF MigrationInv, SourceIsTheUsers, Exists, Pin
<1>3. Found' /\ Compared' /\ TransformFollows'
  BY DEF MigrationInv, Found, Compared, TransformFollows, TransformIsKept
<1>4. Copied' /\ Secured'
  BY DEF Copied, Secured
<1>5. LegacyFramesAreKept' /\ PinIsKept'
  BY NothingMoves
<1>6. ReportIsTrue'
  BY DEF ReportIsTrue
<1> QED
  BY <1>1, <1>2, <1>3, <1>4, <1>5, <1>6 DEF MigrationInv

LEMMA RemovesStale == ASSUME MigrationInv, RemoveStale PROVE MigrationInv'
<1> USE DEF RemoveStale, MigrationAt, GoesOn, EndsWith, Smoothly, InputsStay
<1>1. /\ \A p \in {"source"} \cup CachePlaces : tree'[p] = tree[p]
      /\ tree' \in [MigrationPlaces -> CutTrees]
  BY FramesAreFiles DEF MigrationInv, MigrationTyped, MigrationTypeOK, CutTrees, CachePlaces
<1>2. MigrationTyped'
  BY <1>1 DEF MigrationInv, MigrationTyped, MigrationTypeOK, Stages
<1>3. SourceIsTheUsers'
  BY <1>1 DEF MigrationInv, SourceIsTheUsers, Exists, Pin
<1>4. Found' /\ Compared' /\ TransformFollows'
  BY DEF MigrationInv, Found, Compared, TransformFollows, TransformIsKept
<1>5. ASSUME NotSwept' PROVE Copied' /\ Secured'
  BY <1>5 DEF MigrationInv, NotSwept, Copied, Secured
<1>6. LegacyFramesAreKept' /\ PinIsKept'
  BY <1>1, NothingMoves
<1>7. ReportIsTrue'
  BY DEF ReportIsTrue, MigrationInv, MigrationTyped
<1> QED
  BY <1>2, <1>3, <1>4, <1>5, <1>6, <1>7 DEF MigrationInv

LEMMA Reads == ASSUME MigrationInv, ReadLegacy PROVE MigrationInv'
<1> USE DEF ReadLegacy, MigrationAt, GoesOn, EndsWith, Smoothly, InputsStay
<1>1. Readable("source") => FramesAt("source") \in [FrameNames -> 0..MaxRewrites]
  BY FramesAreFiles DEF MigrationInv, MigrationTyped, MigrationTypeOK, SourceIsTheUsers, Readable, FramesAt, Exists
<1>2. MigrationTyped'
  BY <1>1 DEF MigrationInv, MigrationTyped, MigrationTypeOK, Stages
<1>3. SourceIsTheUsers'
  BY DEF MigrationInv, SourceIsTheUsers, Exists, Readable, Pin
<1>4. Found' /\ Compared' /\ TransformFollows'
  BY DEF MigrationInv, Found, Compared, TransformFollows, TransformIsKept
<1>5. ASSUME NotSwept' PROVE Copied' /\ Secured'
  BY <1>5 DEF MigrationInv, NotSwept, Copied, Secured
<1>6. LegacyFramesAreKept' /\ PinIsKept'
  BY NothingMoves
<1>7. ReportIsTrue'
  BY DEF ReportIsTrue, MigrationInv, MigrationTyped
<1> QED
  BY <1>2, <1>3, <1>4, <1>5, <1>6, <1>7 DEF MigrationInv

LEMMA Looks == ASSUME MigrationInv, LookForKey PROVE MigrationInv'
<1> USE DEF LookForKey, MigrationAt, GoesOn, EndsWith, Smoothly, InputsStay, Exists
<1>1. CachedSet \in CachePlaces \cup {"none"} /\ (CachedSet # "none" => Exists(CachedSet))
  BY DEF CachedSet, CachePlaces
<1>2. MigrationTyped'
  BY <1>1 DEF MigrationInv, MigrationTyped, MigrationTypeOK, Stages
<1>3. SourceIsTheUsers'
  BY DEF MigrationInv, SourceIsTheUsers, Exists, Readable, Pin
<1>4. Found' /\ Compared' /\ TransformFollows'
  BY <1>1 DEF MigrationInv, Found, Compared, TransformFollows, TransformIsKept
<1>5. ASSUME NotSwept' PROVE Copied' /\ Secured'
  <2>1. Copied'
    BY <1>5 DEF MigrationInv, NotSwept, Copied
  <2>2. Secured'
    BY <1>5, <1>1 DEF Secured, Destination, Readable, Exists, FramesAt
  <2> QED
    BY <2>1, <2>2
<1>6. LegacyFramesAreKept' /\ PinIsKept'
  BY NothingMoves
<1>7. ReportIsTrue'
  BY DEF ReportIsTrue, MigrationInv, MigrationTyped, SourceIsTheUsers, Readable, Exists
<1> QED
  BY <1>2, <1>3, <1>4, <1>5, <1>6, <1>7 DEF MigrationInv

LEMMA Copies == ASSUME MigrationInv, NEW f \in CutFiles, CopyFile(f) PROVE MigrationInv'
<1> USE DEF CopyFile, MigrationAt, GoesOn, EndsWith, Smoothly, InputsStay
<1>1. /\ \A p \in {"source"} \cup CachePlaces : tree'[p] = tree[p]
      /\ tree' \in [MigrationPlaces -> CutTrees]
  <2>1. CASE UNCHANGED tree
    BY <2>1 DEF MigrationInv, MigrationTyped, MigrationTypeOK
  <2>2. CASE ~UNCHANGED tree
    <3> DEFINE new == [g \in CutFiles |-> IF g = f THEN tree["source"][f]
                                          ELSE IF copied = {} THEN Absent ELSE tree["temporary"][g]]
    <3>1. tree["source"] \in [CutFiles -> Versions]
      BY Files, FramesAreFiles DEF MigrationInv, SourceIsTheUsers, Readable
    <3>2. copied # {} => tree["temporary"] \in [CutFiles -> Versions]
      BY <2>2, Files, FramesAreFiles DEF MigrationInv
    <3>3. new \in [CutFiles -> Versions]
      BY <3>1, <3>2 DEF Versions
    <3>4. tree' = [tree EXCEPT !["temporary"] = new]
      BY <2>2
    <3> QED
      BY <3>3, <3>4, FramesAreFiles DEF MigrationInv, MigrationTyped, MigrationTypeOK, CutTrees, Versions, CachePlaces
  <2> QED
    BY <2>1, <2>2
<1>2. MigrationTyped'
  BY <1>1 DEF MigrationInv, MigrationTyped, MigrationTypeOK, Stages
<1>3. SourceIsTheUsers'
  BY <1>1, FramesAreFiles DEF MigrationInv, SourceIsTheUsers, Exists, Readable, Pin
<1>4. Found' /\ Compared' /\ TransformFollows'
  BY DEF MigrationInv, Found, Compared, TransformFollows, TransformIsKept
<1>5. ASSUME NotSwept' PROVE Copied' /\ Secured'
  <2>1. NotSwept
    BY <1>5 DEF NotSwept
  <2>2. CASE UNCHANGED <<tree, copied>>
    BY <2>1, <2>2 DEF MigrationInv, Copied, Secured
  <2>3. CASE ~UNCHANGED <<tree, copied>>
    <3>1. /\ copied' = copied \cup {f} /\ tree["source"][f] # Absent /\ stage' \in {"COPY", "VERIFY"}
          /\ tree'["temporary"]["manifest"] = IF "manifest" = f THEN tree["source"][f]
                                              ELSE IF copied = {} THEN Absent
                                              ELSE tree["temporary"]["manifest"]
      BY <2>3, FramesAreFiles DEF MigrationInv, MigrationTyped, MigrationTypeOK
    <3>2. tree["source"]["manifest"] = Pin
      BY FramesAreFiles DEF MigrationInv, SourceIsTheUsers, Readable
    <3>3. copied # {} => tree["temporary"]["manifest"] = Pin
      BY <2>1, <2>3 DEF MigrationInv, Copied
    <3>4. Copied'
      BY <2>1, <3>1, <3>2, <3>3 DEF MigrationInv, Copied, Pin
    <3> QED
      BY <3>1, <3>4 DEF Secured
  <2> QED
    BY <2>2, <2>3
<1>6. LegacyFramesAreKept' /\ PinIsKept'
  BY <1>1, NothingMoves
<1>7. ReportIsTrue'
  BY DEF ReportIsTrue, MigrationInv, MigrationTyped
<1> QED
  BY <1>2, <1>3, <1>4, <1>5, <1>6, <1>7 DEF MigrationInv

LEMMA Verifies == ASSUME MigrationInv, VerifyCopy PROVE MigrationInv'
<1> USE DEF VerifyCopy, MigrationAt, GoesOn, EndsWith, Smoothly, InputsStay
<1>1. /\ \A p \in {"source"} \cup CachePlaces : tree'[p] = tree[p]
      /\ tree' \in [MigrationPlaces -> CutTrees]
  BY FramesAreFiles DEF MigrationInv, MigrationTyped, MigrationTypeOK, CutTrees, CachePlaces
<1>2. MigrationTyped'
  BY <1>1 DEF MigrationInv, MigrationTyped, MigrationTypeOK, Stages
<1>3. SourceIsTheUsers'
  BY <1>1, FramesAreFiles DEF MigrationInv, SourceIsTheUsers, Exists, Readable, Pin
<1>4. Found' /\ Compared' /\ TransformFollows'
  BY DEF MigrationInv, Found, Compared, TransformFollows, TransformIsKept
<1>5. ASSUME NotSwept' PROVE Copied' /\ Secured'
  BY <1>5 DEF MigrationInv, NotSwept, Copied, Secured, Readable, Exists, FramesAt, Pin
<1>6. LegacyFramesAreKept' /\ PinIsKept'
  BY <1>1, NothingMoves
<1>7. ReportIsTrue'
  BY DEF ReportIsTrue, MigrationInv, MigrationTyped
<1> QED
  BY <1>2, <1>3, <1>4, <1>5, <1>6, <1>7 DEF MigrationInv

LEMMA CopiesSidecar == ASSUME MigrationInv, CopySidecar PROVE MigrationInv'
<1> USE DEF CopySidecar, MigrationAt, GoesOn, Smoothly, InputsStay
<1>1. MigrationTyped' /\ TransformFollows'
  BY DEF MigrationInv, MigrationTyped, MigrationTypeOK, Stages, TransformFollows, TransformIsKept
<1>2. SourceIsTheUsers'
  BY DEF MigrationInv, SourceIsTheUsers, Exists, Readable, Pin
<1>3. Found' /\ Compared'
  BY DEF Found, Compared
<1>4. ASSUME NotSwept' PROVE Copied' /\ Secured'
  BY <1>4 DEF MigrationInv, NotSwept, Copied, Secured, Destination, Readable, Exists, FramesAt
<1>5. LegacyFramesAreKept' /\ PinIsKept'
  BY NothingMoves
<1>6. ReportIsTrue'
  BY DEF ReportIsTrue, MigrationInv, MigrationTyped
<1> QED
  BY <1>1, <1>2, <1>3, <1>4, <1>5, <1>6 DEF MigrationInv

LEMMA FindsIt == ASSUME MigrationInv, SourceMatches PROVE MigrationInv'
<1> USE DEF SourceMatches, MigrationAt, GoesOn, EndsWith, Smoothly, InputsStay
<1>1. MigrationTyped' /\ Found' /\ TransformFollows'
  BY DEF MigrationInv, MigrationTyped, MigrationTypeOK, Stages, Found, TransformFollows, TransformIsKept
<1>2. SourceIsTheUsers'
  BY DEF MigrationInv, SourceIsTheUsers, Exists, Readable, Pin
<1>3. Compared'
  <2>1. ASSUME stage' = "REMOVE", NEW f \in FrameNames PROVE latest[f] = scanned[f]
    <3>1. tree["source"][f] = scanned[f] /\ tree["source"][f] # Absent
      BY <2>1, FramesAreFiles DEF Readable, FramesAt
    <3> QED
      BY <3>1 DEF MigrationInv, SourceIsTheUsers, Readable
  <2> QED
    BY <2>1 DEF Compared
<1>4. ASSUME NotSwept' PROVE Copied' /\ Secured'
  BY <1>4 DEF MigrationInv, NotSwept, Copied, Secured, Destination, Readable, Exists, FramesAt
<1>5. LegacyFramesAreKept' /\ PinIsKept'
  BY NothingMoves
<1>6. ReportIsTrue'
  BY DEF ReportIsTrue, MigrationInv, MigrationTyped, SourceIsTheUsers, Readable, Exists
<1> QED
  BY <1>1, <1>2, <1>3, <1>4, <1>5, <1>6 DEF MigrationInv

LEMMA Fails == ASSUME MigrationInv, MigrationFails \/ MigrationDies PROVE MigrationInv'
<1> USE DEF MigrationFails, MigrationDies, Trouble, EndsWith, InputsStay
<1>1. MigrationTyped' /\ TransformFollows'
  BY DEF MigrationInv, MigrationTyped, MigrationTypeOK, Stages, TransformFollows, TransformIsKept
<1>2. SourceIsTheUsers' /\ Found' /\ Compared'
  BY DEF MigrationInv, SourceIsTheUsers, Exists, Readable, Pin, Found, Compared
<1>3. ASSUME NotSwept' PROVE Copied' /\ Secured'
  BY <1>3 DEF MigrationInv, NotSwept, Copied, Secured
<1>4. LegacyFramesAreKept' /\ PinIsKept'
  BY NothingMoves
<1>5. ReportIsTrue'
  BY DEF ReportIsTrue, MigrationInv, SourceIsTheUsers, Readable, Exists
<1> QED
  BY <1>1, <1>2, <1>3, <1>4, <1>5 DEF MigrationInv
-----------------------------------------------------------------------------
(* The steps that change the cached sets or the legacy set *)

LEMMA Pins == ASSUME MigrationInv, PinCached PROVE MigrationInv'
<1> USE DEF PinCached, MigrationAt, GoesOn, EndsWith, Smoothly, InputsStay
<1>1. found \in CachePlaces /\ tree[found] \in [CutFiles -> Versions]
  BY Files, FramesAreFiles DEF MigrationInv, Found
<1>2. CASE UNCHANGED tree
  <2>1. MigrationTyped' /\ TransformFollows'
    BY <1>2 DEF MigrationInv, MigrationTyped, MigrationTypeOK, Stages, TransformFollows, TransformIsKept
  <2>2. SourceIsTheUsers' /\ Found' /\ Compared'
    BY <1>2 DEF MigrationInv, SourceIsTheUsers, Exists, Readable, Pin, Found, Compared
  <2>3. ASSUME NotSwept' PROVE Copied' /\ Secured'
    <3>1. stage' = "IDLE" \/ (stage' = "SIDECAR" /\ (pinned => tree[found]["manifest"] = 1))
      <4>1. CASE pinned /\ tree[found]["manifest"] # 1 /\ Readable(found)
        <5>1. tree'[found]["manifest"] = 1
          BY <1>1, <4>1, FramesAreFiles DEF MigrationInv, MigrationTyped, MigrationTypeOK
        <5> QED
          BY <1>2, <4>1, <5>1
      <4> QED
        BY <4>1
    <3>2. Copied'
      BY <2>3, <3>1 DEF MigrationInv, NotSwept, Copied
    <3>3. Secured'
      BY <1>1, <1>2, <2>3, <3>1 DEF MigrationInv, NotSwept, Secured, Destination, Readable, Exists, FramesAt, CachePlaces
    <3> QED
      BY <3>2, <3>3
  <2>4. LegacyFramesAreKept' /\ PinIsKept'
    BY <1>2, NothingMoves
  <2>5. ReportIsTrue'
    BY DEF ReportIsTrue, MigrationInv, MigrationTyped
  <2> QED
    BY <2>1, <2>2, <2>3, <2>4, <2>5 DEF MigrationInv
<1>3. CASE ~UNCHANGED tree
  <2> DEFINE new == [tree[found] EXCEPT !["manifest"] = 1]
  <2>1. tree' = [tree EXCEPT ![found] = new] /\ pinned /\ Readable(found) /\ stage' = "SIDECAR"
    BY <1>3
  <2>2. /\ new \in [CutFiles -> Versions] /\ new # Absent /\ new["manifest"] = 1
        /\ \A f \in FrameNames : new[f] = tree[found][f]
    <3>1. 1 \in Versions
      BY MigrationAssumption DEF Versions, Theirs
    <3>2. new \in [CutFiles -> Versions] /\ new["manifest"] = 1
      BY <1>1, <3>1, FramesAreFiles
    <3>3. \A f \in FrameNames : new[f] = tree[found][f]
      BY <1>1, FramesAreFiles
    <3> QED
      BY <3>2, <3>3, DirectoryIsThere
  <2>3. /\ tree' \in [MigrationPlaces -> CutTrees] /\ tree'[found] = new
        /\ \A p \in MigrationPlaces \ {found} : tree'[p] = tree[p]
        /\ found \notin {"source", "temporary", "none"}
    <3>1. new \in CutTrees
      BY <2>2 DEF CutTrees, Versions
    <3> QED
      BY <1>1, <2>1, <3>1, FramesAreFiles DEF MigrationInv, MigrationTyped, MigrationTypeOK, CachePlaces
  <2> HIDE DEF new
  <2>4. MigrationTyped' /\ TransformFollows'
    BY <2>1, <2>3 DEF MigrationInv, MigrationTyped, MigrationTypeOK, Stages, TransformFollows, TransformIsKept
  <2>5. SourceIsTheUsers' /\ Found' /\ Compared'
    BY <2>1, <2>3, FramesAreFiles DEF MigrationInv, SourceIsTheUsers, Exists, Readable, Pin, Found, Compared
  <2>6. ASSUME NotSwept' PROVE Copied' /\ Secured'
    <3>1. NotSwept
      BY <2>6 DEF NotSwept
    <3>2. \A f \in FrameNames : tree[found][f] = scanned[f] /\ tree[found][f] # Absent
      BY <3>1, <2>3, FramesAreFiles DEF MigrationInv, Secured, Destination, Readable, FramesAt
    <3>3. Readable(found)' /\ FramesAt(found)' = scanned
      BY <2>2, <2>3, <3>2, FramesAreFiles, MigrationAssumption
      DEF Readable, Exists, FramesAt, MigrationInv, MigrationTyped, MigrationTypeOK, CutFiles
    <3>4. Secured'
      BY <2>1, <2>2, <2>3, <3>3 DEF Secured, Destination, FramesAt, Readable, Exists
    <3>5. Copied'
      BY <2>1, <3>1 DEF MigrationInv, Copied
    <3> QED
      BY <3>4, <3>5
  <2>7. LegacyFramesAreKept'
    BY <1>1, <2>2, <2>3, FramesAreFiles DEF MigrationInv, LegacyFramesAreKept, NotSwept, Exists
  <2>8. PinIsKept'
    BY <1>1, <2>2, <2>3, FramesAreFiles DEF MigrationInv, PinIsKept, NotSwept, Exists
  <2>9. ReportIsTrue'
    BY <2>1 DEF ReportIsTrue, MigrationInv, MigrationTyped
  <2> QED
    BY <2>4, <2>5, <2>6, <2>7, <2>8, <2>9 DEF MigrationInv
<1> QED
  BY <1>2, <1>3

LEMMA Publishes == ASSUME MigrationInv, PublishCopy PROVE MigrationInv'
<1> USE DEF PublishCopy, MigrationAt, GoesOn, EndsWith
<1>1. CASE UNCHANGED tree
  <2>1. MigrationTyped' /\ TransformFollows'
    BY <1>1 DEF MigrationInv, MigrationTyped, MigrationTypeOK, Stages, TransformFollows, TransformIsKept
  <2>2. SourceIsTheUsers' /\ Found' /\ Compared'
    BY <1>1 DEF MigrationInv, SourceIsTheUsers, Exists, Readable, Pin, Found, Compared
  <2>3. stage' = "IDLE" /\ UNCHANGED <<sweeper, copied>> /\ outcome' \in {"KEPT_BOTH", "FAILED"}
    <3>1. CASE Exists("named") \/ ~Exists("temporary")
      BY <3>1
    <3>2. CASE ~Exists("named") /\ Exists("temporary")
      BY <1>1, <3>2, FramesAreFiles DEF MigrationInv, MigrationTyped, MigrationTypeOK, Exists, CachePlaces
    <3> QED
      BY <3>1, <3>2
  <2>4. ASSUME NotSwept' PROVE Copied' /\ Secured'
    BY <1>1, <2>3, <2>4 DEF MigrationInv, NotSwept, Copied, Secured
  <2>5. LegacyFramesAreKept' /\ PinIsKept'
    BY <1>1, <2>3, NothingMoves
  <2>6. ReportIsTrue'
    BY <1>1, <2>3 DEF ReportIsTrue, MigrationInv, MigrationTyped, SourceIsTheUsers, Readable, Exists
  <2> QED
    BY <2>1, <2>2, <2>4, <2>5, <2>6 DEF MigrationInv
<1>2. CASE ~UNCHANGED tree
  <2>1. /\ ~Exists("named") /\ Exists("temporary") /\ stage' = "SIDECAR" /\ UNCHANGED outcome
        /\ tree' = [tree EXCEPT !["named"] = tree["temporary"], !["temporary"] = Absent]
        /\ sweeper' = IF sweeper = "temporary" THEN "named" ELSE sweeper
    BY <1>2
  <2>2. /\ tree' \in [MigrationPlaces -> CutTrees] /\ tree'["named"] = tree["temporary"]
        /\ tree'["source"] = tree["source"] /\ tree'["keyed"] = tree["keyed"]
        /\ NotSwept' <=> NotSwept
    BY <2>1, FramesAreFiles DEF MigrationInv, MigrationTyped, MigrationTypeOK, CutTrees, CachePlaces, MigrationPlaces, NotSwept
  <2>3. MigrationTyped' /\ TransformFollows'
    BY <2>1, <2>2 DEF MigrationInv, MigrationTyped, MigrationTypeOK, Stages, TransformFollows, TransformIsKept
  <2>4. SourceIsTheUsers' /\ Found' /\ Compared'
    BY <2>1, <2>2 DEF MigrationInv, SourceIsTheUsers, Exists, Readable, Pin, Found, Compared
  <2>5. ASSUME NotSwept' PROVE Copied' /\ Secured'
    <3>1. /\ found = "none" /\ Readable("temporary") /\ FramesAt("temporary") = scanned
          /\ tree["temporary"]["manifest"] = Pin /\ (copied # {} => "manifest" \in copied)
      BY <2>2, <2>5 DEF MigrationInv, Copied
    <3>2. Copied'
      BY <2>1, <3>1 DEF Copied
    <3>3. Readable("named")' /\ FramesAt("named")' = scanned
      BY <2>2, <3>1 DEF Readable, Exists, FramesAt
    <3>4. pinned => tree'["named"]["manifest"] = 1
      BY <2>2, <3>1 DEF Pin
    <3>5. UNCHANGED <<scanned, found, pinned>> /\ found = "none"
      BY <3>1
    <3>6. Readable(Destination)' /\ FramesAt(Destination)' = scanned'
      BY <3>3, <3>5 DEF Destination
    <3>7. pinned' => tree'[Destination']["manifest"] = 1
      BY <3>4, <3>5 DEF Destination
    <3> QED
      BY <3>2, <3>6, <3>7 DEF Secured
  <2>6. LegacyFramesAreKept' /\ PinIsKept'
    BY <2>1, <2>2 DEF MigrationInv, LegacyFramesAreKept, PinIsKept, Exists, CachePlaces
  <2>7. ReportIsTrue'
    BY <2>1 DEF ReportIsTrue, MigrationInv, MigrationTyped
  <2> QED
    BY <2>3, <2>4, <2>5, <2>6, <2>7 DEF MigrationInv
<1> QED
  BY <1>1, <1>2
\* Whatever goes from the legacy set while it is removed is secured in the cache.
LEMMA Removes == ASSUME MigrationInv, RemoveSource PROVE MigrationInv'
<1> USE DEF RemoveSource, MigrationAt, GoesOn, Smoothly, InputsStay
<1> DEFINE Less(new) == /\ new \in [CutFiles -> Versions]
                        /\ \A g \in CutFiles : new[g] \in {Absent, tree["source"][g]}
<1>1. tree["source"] \in [CutFiles -> Versions]
  BY Files, FramesAreFiles DEF MigrationInv, SourceIsTheUsers
<1>2. \E new \in CutTrees : /\ tree' = [tree EXCEPT !["source"] = new]
                             /\ \/ Less(new) /\ stage' = "REMOVE"
                                \/ new = Absent /\ stage' = "FORGET"
  <2>1. ASSUME NEW f \in CutFiles, tree' = [tree EXCEPT !["source"][f] = Absent], stage' = "REMOVE"
        PROVE  \E new \in CutTrees : tree' = [tree EXCEPT !["source"] = new] /\ Less(new)
    <3> DEFINE new == [tree["source"] EXCEPT ![f] = Absent]
    <3>1. new \in [CutFiles -> Versions] /\ \A g \in CutFiles : new[g] \in {Absent, tree["source"][g]}
      BY <1>1 DEF Versions
    <3>2. new \in CutTrees /\ tree' = [tree EXCEPT !["source"] = new]
      BY <2>1, <3>1 DEF CutTrees, Versions
    <3> QED
      BY <3>1, <3>2
  <2>2. Absent \in CutTrees
    BY DEF CutTrees
  <2> QED
    BY <2>1, <2>2
<1>3. PICK new \in CutTrees : /\ tree' = [tree EXCEPT !["source"] = new]
                              /\ \/ Less(new) /\ stage' = "REMOVE"
                                 \/ new = Absent /\ stage' = "FORGET"
  BY <1>2
<1>4. /\ tree' \in [MigrationPlaces -> CutTrees] /\ tree'["source"] = new
      /\ \A p \in MigrationPlaces \ {"source"} : tree'[p] = tree[p]
  BY <1>3, FramesAreFiles DEF MigrationInv, MigrationTyped, MigrationTypeOK
<1>5. Less(new) => new # Absent
  BY DirectoryIsThere
<1>6. MigrationTyped' /\ Found' /\ TransformFollows'
  BY <1>3, <1>4 DEF MigrationInv, MigrationTyped, MigrationTypeOK, Stages, Found, TransformFollows, TransformIsKept
<1>7. SourceIsTheUsers'
  BY <1>3, <1>4, <1>5, FramesAreFiles DEF MigrationInv, SourceIsTheUsers, Exists, Pin
<1>8. Compared'
  BY <1>3 DEF MigrationInv, Compared
<1>9. ASSUME NotSwept PROVE Destination \in CachePlaces /\ Readable(Destination)
                            /\ FramesAt(Destination) = scanned
                            /\ (pinned => tree[Destination]["manifest"] = 1)
  BY <1>9 DEF MigrationInv, MigrationTyped, MigrationTypeOK, Secured, Destination, CachePlaces
<1>10. ASSUME NotSwept' PROVE Copied' /\ Secured'
  <2>1. NotSwept /\ Destination' = Destination /\ tree'[Destination] = tree[Destination]
    BY <1>4, <1>9, <1>10, FramesAreFiles DEF NotSwept, Destination, CachePlaces
  <2>2. Secured'
    BY <1>9, <2>1 DEF Secured, Readable, Exists, FramesAt
  <2>3. Copied'
    BY <1>3, <2>1 DEF MigrationInv, Copied
  <2> QED
    BY <2>2, <2>3
<1>11. LegacyFramesAreKept'
  <2>1. ASSUME NotSwept, NEW f \in FrameNames \ overtaken
        PROVE  Exists(Destination) /\ tree[Destination][f] = latest[f]
    <3>1. latest[f] = scanned[f]
      BY <2>1 DEF MigrationInv, Compared
    <3>2. scanned[f] = tree[Destination][f]
      BY <1>9, <2>1 DEF FramesAt
    <3> QED
      BY <1>9, <2>1, <3>1, <3>2 DEF Readable
  <2> QED
    BY <1>4, <1>9, <2>1, FramesAreFiles DEF LegacyFramesAreKept, NotSwept, Exists, CachePlaces
<1>12. PinIsKept'
  BY <1>4, <1>9, FramesAreFiles DEF PinIsKept, NotSwept, Readable, Exists, CachePlaces
<1>13. ReportIsTrue'
  BY DEF ReportIsTrue, MigrationInv, MigrationTyped
<1> QED
  BY <1>6, <1>7, <1>8, <1>10, <1>11, <1>12, <1>13 DEF MigrationInv

LEMMA Forgets == ASSUME MigrationInv, RemoveSidecar PROVE MigrationInv'
<1> USE DEF RemoveSidecar, MigrationAt, EndsWith, Smoothly, InputsStay
<1>1. MigrationTyped' /\ Found' /\ TransformFollows'
  BY DEF MigrationInv, MigrationTyped, MigrationTypeOK, Stages, Found, TransformFollows, TransformIsKept
<1>2. SourceIsTheUsers' /\ Compared'
  BY DEF MigrationInv, SourceIsTheUsers, Exists, Readable, Pin, Compared
<1>3. ASSUME NotSwept' PROVE Copied' /\ Secured'
  BY <1>3 DEF MigrationInv, NotSwept, Copied, Secured
<1>4. LegacyFramesAreKept' /\ PinIsKept'
  BY NothingMoves
<1>5. ReportIsTrue'
  <2>1. ~Exists("source")'
    BY DEF MigrationInv, SourceIsTheUsers, Exists
  <2>2. ASSUME NotSwept'
        PROVE  \E p \in CachePlaces :
                 Readable(p)' /\ \A f \in FrameNames \ overtaken' : tree'[p][f] = latest'[f]
    <3>1. Destination \in CachePlaces /\ Readable(Destination) /\ FramesAt(Destination) = scanned
      BY <2>2 DEF MigrationInv, NotSwept, MigrationTyped, MigrationTypeOK, Secured, Destination, CachePlaces
    <3>2. \A f \in FrameNames \ overtaken : tree[Destination][f] = latest[f]
      BY <3>1 DEF MigrationInv, Compared, FramesAt
    <3>3. UNCHANGED <<tree, latest, overtaken>>
      OBVIOUS
    <3> QED
      BY <3>1, <3>2, <3>3 DEF Readable, Exists
  <2> QED
    BY <2>1, <2>2 DEF ReportIsTrue
<1> QED
  BY <1>1, <1>2, <1>3, <1>4, <1>5 DEF MigrationInv
-----------------------------------------------------------------------------
(* The user, other jobs and other instances *)

LEMMA Rewrites == ASSUME MigrationInv, NEW f \in FrameNames, RewriteLegacyFrame(f) PROVE MigrationInv'
<1> USE DEF RewriteLegacyFrame, MigrationAt
<1> DEFINE version == latest[f] + 1
           new == [tree["source"] EXCEPT ![f] = version]
<1>1. /\ version \in 0..MaxRewrites /\ version \in Versions /\ version # Absent
      /\ \A g \in FrameNames : latest'[g] + rewritesLeft' <= MaxRewrites
      /\ latest' \in [FrameNames -> 0..MaxRewrites] /\ latest'[f] = version
      /\ \A g \in FrameNames \ {f} : latest'[g] = latest[g]
  <2>1. latest[f] \in Nat /\ rewritesLeft \in Nat /\ latest[f] + rewritesLeft <= MaxRewrites
    BY MigrationAssumption DEF MigrationInv, MigrationTyped, MigrationTypeOK
  <2>2. version \in 0..MaxRewrites
    BY <2>1, MigrationAssumption
  <2>3. version \in Versions /\ version # Absent
    BY <2>2, MigrationAssumption DEF Versions, Theirs
  <2>4. latest' \in [FrameNames -> 0..MaxRewrites] /\ latest'[f] = version
        /\ \A g \in FrameNames \ {f} : latest'[g] = latest[g]
    BY <2>2 DEF MigrationInv, MigrationTyped, MigrationTypeOK
  <2>5. \A g \in FrameNames : latest'[g] + rewritesLeft' <= MaxRewrites
    <3>1. rewritesLeft' = rewritesLeft - 1 /\ rewritesLeft > 0
      OBVIOUS
    <3>2. ASSUME NEW g \in FrameNames \ {f} PROVE latest'[g] + rewritesLeft' <= MaxRewrites
      <4>1. latest[g] \in Nat /\ latest[g] + rewritesLeft <= MaxRewrites
        BY MigrationAssumption DEF MigrationInv, MigrationTyped, MigrationTypeOK
      <4> QED
        BY <2>1, <2>4, <3>1, <4>1, MigrationAssumption
    <3>3. latest'[f] + rewritesLeft' <= MaxRewrites
      BY <2>1, <2>4, <3>1, MigrationAssumption
    <3> QED
      BY <3>2, <3>3
  <2> QED
    BY <2>2, <2>3, <2>4, <2>5
<1>2. /\ new \in [CutFiles -> Versions] /\ new # Absent /\ new["manifest"] = tree["source"]["manifest"]
      /\ new[f] = version /\ \A g \in CutFiles \ {f} : new[g] = tree["source"][g]
  <2>1. tree["source"] \in [CutFiles -> Versions]
    BY Files, FramesAreFiles DEF MigrationInv
  <2>2. new \in [CutFiles -> Versions]
    BY <1>1, <2>1
  <2>3. new # Absent
    BY <2>2, DirectoryIsThere
  <2> QED
    BY <2>1, <2>2, <2>3, FramesAreFiles
<1>3. /\ tree' \in [MigrationPlaces -> CutTrees] /\ tree'["source"] = new
      /\ \A p \in MigrationPlaces \ {"source"} : tree'[p] = tree[p]
  <2>1. tree' = [tree EXCEPT !["source"] = new]
    OBVIOUS
  <2>2. new \in CutTrees
    BY <1>2 DEF CutTrees, Versions
  <2> QED
    BY <2>1, <2>2, FramesAreFiles DEF MigrationInv, MigrationTyped, MigrationTypeOK
<1> HIDE DEF new, version
<1>4. MigrationTyped' /\ Found' /\ TransformFollows'
  <2>1. rewritesLeft' \in Nat /\ overtaken' \subseteq FrameNames
    BY DEF MigrationInv, MigrationTyped, MigrationTypeOK
  <2>2. MigrationTyped'
    BY <1>1, <1>3, <2>1 DEF MigrationInv, MigrationTyped, MigrationTypeOK, Stages
  <2>3. Found' /\ TransformFollows'
    BY <1>3, FramesAreFiles DEF MigrationInv, Found, Exists, CachePlaces, TransformFollows, TransformIsKept
  <2> QED
    BY <2>2, <2>3
<1>5. SourceIsTheUsers'
  <2>1. \A g \in CutFiles : tree["source"][g] # Absent => new[g] # Absent
    BY <1>1, <1>2
  <2>2. Readable("source") => Readable("source")'
    BY <1>2, <1>3, <2>1 DEF Readable, Exists
  <2>3. \A g \in FrameNames : new[g] \in {Absent, latest'[g]}
    BY <1>1, <1>2, FramesAreFiles DEF MigrationInv, SourceIsTheUsers
  <2>4. new["manifest"] \in {Absent, Pin}
    BY <1>2 DEF MigrationInv, SourceIsTheUsers
  <2>5. Pin' = Pin
    BY DEF Pin
  <2> QED
    BY <1>2, <1>3, <2>2, <2>3, <2>4, <2>5 DEF MigrationInv, SourceIsTheUsers, Exists
<1>6. Compared'
  BY <1>1 DEF MigrationInv, SourceIsTheUsers, Compared
<1>7. ASSUME NotSwept' PROVE Copied' /\ Secured'
  <2>1. NotSwept
    BY <1>7 DEF NotSwept
  <2>2. Copied'
    BY <1>3, <2>1, FramesAreFiles DEF MigrationInv, Copied, Readable, Exists, FramesAt, Pin
  <2>3. Destination \in CachePlaces /\ Destination' = Destination
    BY DEF MigrationInv, MigrationTyped, MigrationTypeOK, Destination, CachePlaces
  <2>4. tree'[Destination] = tree[Destination]
    BY <1>3, <2>3, FramesAreFiles DEF CachePlaces
  <2>5. Secured'
    BY <2>1, <2>3, <2>4 DEF MigrationInv, Secured, Readable, Exists, FramesAt
  <2> QED
    BY <2>2, <2>5
<1>8. LegacyFramesAreKept'
  BY <1>1, <1>2, <1>3, FramesAreFiles DEF MigrationInv, LegacyFramesAreKept, NotSwept, Exists, CachePlaces
<1>9. PinIsKept'
  BY <1>2, <1>3, FramesAreFiles DEF MigrationInv, PinIsKept, NotSwept, Exists, CachePlaces
<1>10. ReportIsTrue'
  <2>1. \A g \in CutFiles : tree["source"][g] # Absent => new[g] # Absent
    BY <1>1, <1>2
  <2> QED
    BY <1>2, <1>3, <2>1 DEF MigrationInv, ReportIsTrue, Readable, Exists
<1> QED
  BY <1>4, <1>5, <1>6, <1>7, <1>8, <1>9, <1>10 DEF MigrationInv

LEMMA Promotes == ASSUME MigrationInv, JobPromotes PROVE MigrationInv'
<1> USE DEF JobPromotes, InputsStay, Trouble
<1>1. CutsOf(0, Theirs) \in [CutFiles -> Versions] /\ CutsOf(0, Theirs) # Absent
  <2>1. CutsOf(0, Theirs) \in [CutFiles -> Versions]
    BY MigrationAssumption DEF CutsOf, Versions, Theirs
  <2> QED
    BY <2>1, DirectoryIsThere
<1>2. /\ tree' \in [MigrationPlaces -> CutTrees] /\ tree["named"] = Absent /\ Exists("named")'
      /\ \A p \in MigrationPlaces \ {"named"} : tree'[p] = tree[p]
  <2>1. CutsOf(0, Theirs) \in CutTrees
    BY <1>1 DEF CutTrees, Versions
  <2> QED
    BY <1>1, <2>1, FramesAreFiles DEF MigrationInv, MigrationTyped, MigrationTypeOK, Exists, CachePlaces
<1>3. MigrationTyped' /\ Found' /\ Compared' /\ TransformFollows'
  BY <1>2, FramesAreFiles
  DEF MigrationInv, MigrationTyped, MigrationTypeOK, Stages, Found, Exists, Compared, TransformFollows, TransformIsKept
<1>4. SourceIsTheUsers'
  BY <1>2, FramesAreFiles DEF MigrationInv, SourceIsTheUsers, Exists, Readable, Pin, CachePlaces
<1>5. ASSUME NotSwept' PROVE Copied' /\ Secured'
  <2>1. NotSwept
    BY <1>5 DEF NotSwept
  <2>2. Copied'
    BY <1>2, <2>1, FramesAreFiles DEF MigrationInv, Copied, Readable, Exists, FramesAt, Pin, CachePlaces
  <2>3. Destination \in CachePlaces /\ Destination' = Destination
    BY DEF MigrationInv, MigrationTyped, MigrationTypeOK, Destination, CachePlaces
  <2>4. Exists(Destination) => tree'[Destination] = tree[Destination]
    BY <1>2, <2>3, FramesAreFiles DEF CachePlaces, Exists
  <2>5. Secured'
    BY <2>1, <2>3, <2>4 DEF MigrationInv, Secured, Readable, Exists, FramesAt
  <2> QED
    BY <2>2, <2>5
<1>6. LegacyFramesAreKept' /\ PinIsKept'
  BY <1>2, FramesAreFiles DEF MigrationInv, LegacyFramesAreKept, PinIsKept, NotSwept, Exists, CachePlaces
<1>7. ReportIsTrue'
  BY DEF MigrationInv, MigrationTyped, ReportIsTrue
<1> QED
  BY <1>3, <1>4, <1>5, <1>6, <1>7 DEF MigrationInv

\* A second instance empties the copy, and the cached set it became; the
\* legacy set it does not touch.
LEMMA Sweeps == ASSUME MigrationInv, OtherSweeps PROVE MigrationInv'
<1> USE DEF OtherSweeps, Trouble
<1>1. sweeper' \in {"temporary", "named"}
  OBVIOUS
<1>2. /\ tree' \in [MigrationPlaces -> CutTrees] /\ tree'["source"] = tree["source"]
      /\ \A p \in CachePlaces : Exists(p) => Exists(p)'
  <2> DEFINE p == sweeper'
  <2>1. tree[p] \in [CutFiles -> Versions] /\ p \in MigrationPlaces /\ p # "source"
    BY <1>1, Files, FramesAreFiles DEF MigrationInv, CachePlaces
  <2>2. CASE tree' = [tree EXCEPT ![p] = Absent] /\ p = "temporary"
    BY <2>1, <2>2, FramesAreFiles DEF MigrationInv, MigrationTyped, MigrationTypeOK, CutTrees, Exists, CachePlaces
  <2>3. ASSUME NEW f \in CutFiles, tree' = [tree EXCEPT ![p][f] = Absent]
        PROVE  /\ tree' \in [MigrationPlaces -> CutTrees] /\ tree'["source"] = tree["source"]
               /\ \A q \in CachePlaces : Exists(q) => Exists(q)'
    <3> DEFINE new == [tree[p] EXCEPT ![f] = Absent]
    <3>1. new \in [CutFiles -> Versions]
      BY <2>1 DEF Versions
    <3>2. new \in CutTrees /\ new # Absent /\ tree' = [tree EXCEPT ![p] = new]
      BY <2>3, <3>1, DirectoryIsThere DEF CutTrees, Versions
    <3> HIDE DEF new
    <3> QED
      BY <2>1, <3>2, FramesAreFiles DEF MigrationInv, MigrationTyped, MigrationTypeOK, Exists
  <2> QED
    BY <2>2, <2>3
<1>3. UNCHANGED <<latest, overtaken, pinned, transform, stage, scanned, copied, found, outcome,
                  runsLeft, rewritesLeft>> /\ troublesLeft' \in Nat
  BY DEF MigrationInv, MigrationTyped
<1>4. MigrationTyped'
  BY <1>1, <1>2, <1>3 DEF MigrationInv, MigrationTyped, MigrationTypeOK, Stages
<1>5. SourceIsTheUsers' /\ Found' /\ Compared' /\ TransformFollows'
  BY <1>2, <1>3 DEF MigrationInv, SourceIsTheUsers, Exists, Readable, Pin, Found, Compared, TransformFollows,
                    TransformIsKept
<1>6. ~NotSwept'
  BY <1>1 DEF NotSwept
<1>7. ReportIsTrue'
  BY <1>2, <1>3, <1>6 DEF MigrationInv, ReportIsTrue, Readable, Exists
<1> QED
  BY <1>4, <1>5, <1>6, <1>7 DEF MigrationInv, LegacyFramesAreKept, PinIsKept
-----------------------------------------------------------------------------
(* The theorem *)

LEMMA MigrationSteps == MigrationInv /\ [MigrationNext]_migrationVars => MigrationInv'
<1> SUFFICES ASSUME MigrationInv, [MigrationNext]_migrationVars
             PROVE  MigrationInv'
  OBVIOUS
<1>1. CASE UNCHANGED migrationVars
  BY <1>1 DEF migrationVars, MigrationInv, MigrationTyped, MigrationTypeOK, SourceIsTheUsers, Found, Compared,
     TransformFollows, TransformIsKept, Copied, Secured, Destination, Readable, Exists, FramesAt, Pin,
     NotSwept, LegacyFramesAreKept, PinIsKept, ReportIsTrue
<1> QED
  BY <1>1, Starts, RemovesStale, Reads, Looks, Pins, Copies, Verifies, Publishes, CopiesSidecar,
     FindsIt, Removes, Forgets, Fails, Rewrites, Promotes, Sweeps DEF MigrationNext

LEMMA MigrationStart == MigrationInit => MigrationInv
<1> SUFFICES ASSUME MigrationInit
             PROVE  MigrationInv
  OBVIOUS
<1> USE MigrationAssumption DEF MigrationInit
<1>1. PICK other \in {Absent, CutsOf(0, Theirs)}, name \in CachePlaces :
         tree = [p \in MigrationPlaces |-> CASE p = "source" -> CutsOf(IF pinned THEN 1 ELSE 0, 0)
                                             [] p = name -> other
                                             [] OTHER -> Absent]
  OBVIOUS
<1>2. /\ \A pin \in {0, 1}, v \in {0, Theirs} : CutsOf(pin, v) \in [CutFiles -> Versions]
      /\ tree["source"] = CutsOf(IF pinned THEN 1 ELSE 0, 0)
  BY <1>1, FramesAreFiles DEF CutsOf, Versions, Theirs, CachePlaces
<1>3. tree \in [MigrationPlaces -> CutTrees]
  <2>1. \A pin \in {0, 1}, v \in {0, Theirs} : CutsOf(pin, v) \in CutTrees
    BY <1>2 DEF CutTrees, Versions
  <2>2. Absent \in CutTrees
    BY DEF CutTrees
  <2> QED
    BY <1>1, <2>1, <2>2
<1>4. MigrationTyped
  BY <1>3 DEF MigrationTyped, MigrationTypeOK, Stages, CachePlaces
<1>5. /\ Exists("source") /\ tree["source"]["manifest"] = Pin
      /\ \A f \in FrameNames : tree["source"][f] = 0
  <2>1. tree["source"] # Absent
    BY <1>2, DirectoryIsThere
  <2> QED
    BY <1>2, <2>1, FramesAreFiles DEF CutsOf, Exists, Pin
<1>6. SourceIsTheUsers /\ LegacyFramesAreKept
  BY <1>5 DEF SourceIsTheUsers, LegacyFramesAreKept, Readable
<1>7. PinIsKept
  BY <1>5 DEF PinIsKept, Pin
<1> QED
  BY <1>4, <1>6, <1>7 DEF MigrationInv, Found, Compared, TransformFollows, TransformIsKept, Copied, Secured,
     ReportIsTrue

\* A cached set is renamed over by nobody; its frames go only to a second instance.
LEMMA CachedSetsStep ==
    MigrationInv /\ [MigrationNext]_migrationVars =>
      [\A p \in CachePlaces : NotSwept /\ Exists(p) => Exists(p)' /\ FramesAt(p)' = FramesAt(p)]_migrationVars
<1> SUFFICES ASSUME MigrationInv, MigrationNext, NotSwept, NEW p \in CachePlaces, Exists(p)
             PROVE  Exists(p)' /\ FramesAt(p)' = FramesAt(p)
  OBVIOUS
<1>1. tree \in [MigrationPlaces -> CutTrees] /\ tree[p] \in [CutFiles -> Versions]
  BY Files, FramesAreFiles DEF MigrationInv, MigrationTyped, MigrationTypeOK
<1>2. ASSUME tree'[p] = tree[p] PROVE Exists(p)' /\ FramesAt(p)' = FramesAt(p)
  BY <1>2 DEF Exists, FramesAt
<1>3. CASE UNCHANGED tree
  BY <1>2, <1>3
<1>4. CASE PinCached
  <2>1. ASSUME tree' = [tree EXCEPT ![found]["manifest"] = 1], p = found
        PROVE  Exists(p)' /\ FramesAt(p)' = FramesAt(p)
    <3> DEFINE new == [tree[p] EXCEPT !["manifest"] = 1]
    <3>1. 1 \in Versions
      BY MigrationAssumption DEF Versions, Theirs
    <3>2. new \in [CutFiles -> Versions] /\ \A f \in FrameNames : new[f] = tree[p][f]
      BY <1>1, <3>1, FramesAreFiles
    <3>3. new # Absent
      BY <3>2, DirectoryIsThere
    <3>4. tree'[p] = new
      BY <1>1, <2>1, FramesAreFiles
    <3> QED
      BY <3>2, <3>3, <3>4 DEF Exists, FramesAt
  <2>2. tree' = [tree EXCEPT ![found]["manifest"] = 1] /\ p # found => tree'[p] = tree[p]
    BY <1>1, FramesAreFiles
  <2> QED
    BY <1>2, <1>3, <1>4, <2>1, <2>2 DEF PinCached
<1>5. ASSUME NEW f \in FrameNames, RewriteLegacyFrame(f) PROVE tree'[p] = tree[p]
  BY <1>1, <1>5, FramesAreFiles DEF RewriteLegacyFrame, CachePlaces
<1>6. CASE RemoveStale \/ VerifyCopy \/ RemoveSource
  BY <1>1, <1>2, <1>6, FramesAreFiles DEF RemoveStale, VerifyCopy, RemoveSource, CachePlaces
<1>7. ASSUME NEW f \in CutFiles, CopyFile(f) PROVE tree'[p] = tree[p]
  BY <1>1, <1>7, FramesAreFiles DEF CopyFile, CachePlaces
<1>8. CASE PublishCopy
  BY <1>1, <1>2, <1>8, FramesAreFiles DEF PublishCopy, CachePlaces, Exists
<1>9. CASE JobPromotes
  BY <1>1, <1>2, <1>9, FramesAreFiles DEF JobPromotes, CachePlaces, Exists
<1>10. CASE OtherSweeps
  <2>1. sweeper' = "temporary"
    BY <1>10 DEF OtherSweeps, NotSwept
  <2> QED
    BY <1>1, <1>2, <1>10, <2>1, FramesAreFiles DEF OtherSweeps, CachePlaces
<1> QED
  BY <1>2, <1>3, <1>4, <1>5, <1>6, <1>7, <1>8, <1>9, <1>10 DEF MigrationNext, StartMigration, ReadLegacy, LookForKey,
     CopySidecar, SourceMatches, RemoveSidecar, MigrationFails, MigrationDies

\* Whatever fails, dies, is edited or promoted meanwhile, a migration loses no
\* frame, no pin and no transform, writes over no cached set and reports what
\* it did, unless a second instance removed the copy.
THEOREM NothingIsLost == MigrationSpec => MigrationCorrect
<1>1. MigrationInv => MigrationTypeOK /\ LegacyFramesAreKept /\ PinIsKept /\ TransformIsKept /\ ReportIsTrue
  BY DEF MigrationInv, MigrationTyped, TransformFollows
<1>2. MigrationSpec => []MigrationInv
  BY MigrationStart, MigrationSteps, PTL DEF MigrationSpec
<1>3. MigrationSpec => CachedSetsStay
  BY <1>2, CachedSetsStep, PTL DEF MigrationSpec, CachedSetsStay
<1> QED
  BY <1>1, <1>2, <1>3, PTL DEF MigrationCorrect

-----------------------------------------------------------------------------
(* ModelStore *)

BeforePromotion == {"stale", "open", "write", "written", "appeared", "promote"}
HasPart == {"write", "written", "appeared", "promote", "cleanup"}

\* Who is at work has a model, from its part's creation on an inode that is its
\* own, and from the check of its bytes on a whole one.
Fetching ==
    \A i \in Instances :
        /\ op[i].pc # "idle" => Model(i) \in Models
        /\ op[i].pc = "idle" => op[i].kind = "none"
        /\ op[i].pc = "fetched" => op[i].kind = "redownload"
        /\ op[i].pc \in {"write", "written", "appeared", "promote", "validate"} => op[i].own # 0
        /\ op[i].pc \in {"written", "appeared", "promote", "validate"} => WholeWeight(op[i].own)
        /\ \A j \in Instances : i # j /\ op[i].own # 0 => op[i].own # op[j].own

\* A part is the one its instance made, or one whose removal failed.
PartsAreTheirs ==
    torn \/ \A m \in Models : partial[m] # 0 => partial[m] \in stuck \/
        \E i \in Instances : Model(i) = m /\ op[i].own = partial[m] /\ op[i].pc \in HasPart

\* While one instance promotes, the other has not put anything at the weight's
\* name and begun anew; once it has, the part there is the one to be promoted.
PromotingAlone ==
    \A i, j \in Instances : i # j /\ OpAt(j, "promote") =>
        /\ Model(i) = Model(j) /\ op[i].pc \in BeforePromotion => weight[Model(j)] = 0
        /\ weight[Model(j)] # 0 => partial[Model(j)] \in {0, op[j].own}

\* A weight a download ended with is there, or was taken away again.
FoundIsThere ==
    \A i \in Instances : op[i].pc \in {"done", "fetched"} =>
        WholeWeight(weight[Model(i)]) \/ Model(i) \in taken

\* A client is the active one or pending, and nothing is prepared or removed
\* that a pending one forbids.
SessionInv ==
    /\ ActiveIsWhatRuns
    /\ session.active # NoModel => session.pending = NoModel
    /\ session.pending = NoModel => session.cleanup = {}
    /\ session.client # NoModel => session.active # NoModel \/ session.pending # NoModel
    /\ op[Owner].kind = "prepare" => session.pending = NoModel
    /\ op[Owner].kind = "remove" => Model(Owner) \notin session.cleanup

ModelStoreInv ==
    /\ ModelTypeOK /\ ops \in [Instances -> Nat] /\ NamedWeightsAreVerified
    /\ Fetching /\ PartsAreTheirs /\ PromotingAlone /\ FoundIsThere /\ SessionInv

LEMMA OpIsRecord ==
    ASSUME ModelTypeOK, NEW i \in Instances
    PROVE  /\ op[i] = [kind |-> op[i].kind, model |-> op[i].model, pc |-> op[i].pc,
                       own |-> op[i].own, rest |-> op[i].rest]
           /\ op[i].pc \in Pcs /\ op[i].own \in Inodes /\ op[i].rest \subseteq Models
           /\ op[i].kind \in Kinds \cup {"none"} /\ op[i].model \in Models \cup {NoModel}
           /\ op \in [Instances -> [kind : Kinds \cup {"none"}, model : Models \cup {NoModel},
                             pc : Pcs, own : Inodes, rest : SUBSET Models]]
BY DEF ModelTypeOK

DownloadOps == [kind : Kinds \cup {"none"}, model : Models \cup {NoModel}, pc : Pcs, own : Inodes, rest : SUBSET Models]

\* The records an operation goes through.
LEMMA OpStays ==
    ASSUME NEW o \in DownloadOps, NEW pc \in Pcs, NEW f \in Inodes
    PROVE  [o EXCEPT !.pc = pc] \in DownloadOps /\ [o EXCEPT !.pc = pc, !.own = f] \in DownloadOps
BY DEF DownloadOps

LEMMA OpBegins ==
    ASSUME NEW kind \in Kinds, NEW m \in Models, NEW pc \in Pcs, NEW left \in SUBSET Models
    PROVE  /\ NoOp \in DownloadOps
           /\ [NoOp EXCEPT !.kind = kind, !.model = m, !.pc = pc] \in DownloadOps
           /\ [NoOp EXCEPT !.kind = kind, !.pc = pc, !.model = m, !.rest = left] \in DownloadOps
<1>1. 0 \in Inodes /\ "idle" \in Pcs
  BY ModelStoreAssumption DEF Inodes, Pcs
<1> QED
  BY <1>1 DEF DownloadOps, NoOp

\* Where a step of instance i leaves it; the other stays where it is.
LEMMA OpGoesTo ==
    ASSUME ModelTypeOK, NEW i \in Instances, NEW pc \in Pcs, OpGoes(i, pc)
    PROVE  /\ op'[i] = [op[i] EXCEPT !.pc = pc]
           /\ op'[i].pc = pc /\ op'[i].kind = op[i].kind /\ op'[i].own = op[i].own
           /\ op'[i].model = op[i].model /\ op'[i].rest = op[i].rest
           /\ \A j \in Instances : i # j => op'[j] = op[j]
BY DEF ModelTypeOK, OpGoes

LEMMA OpEndsAt ==
    ASSUME ModelTypeOK, NEW i \in Instances, OpEnds(i)
    PROVE  /\ op'[i] = NoOp /\ op'[i].pc = "idle" /\ op'[i].kind = "none" /\ op'[i].own = 0
           /\ op'[i].model = NoModel
           /\ \A j \in Instances : i # j => op'[j] = op[j]
BY DEF ModelTypeOK, OpEnds, NoOp

LEMMA BatchGoesOn ==
    ASSUME ModelTypeOK, NEW i \in Instances, NEW left \in SUBSET Models, NextInBatch(i, left)
    PROVE  /\ \A j \in Instances : i # j => op'[j] = op[j]
           /\ op'[i].own = 0
           /\ \/ left = {} /\ op'[i] = NoOp /\ op'[i].pc = "idle" /\ op'[i].kind = "none"
              \/ /\ op'[i].pc = "find" /\ op'[i].kind = "redownload"
                 /\ op'[i].model \in Models /\ op'[i].rest \subseteq Models
<1>1. CASE left = {}
  BY <1>1 DEF ModelTypeOK, NextInBatch, NoOp
<1>2. CASE left # {}
  <2> DEFINE m == CHOOSE m \in left : TRUE
  <2>1. m \in left
    BY <1>2
  <2>2. op'[i] = [NoOp EXCEPT !.kind = "redownload", !.pc = "find", !.model = m, !.rest = left \ {m}]
        /\ \A j \in Instances : i # j => op'[j] = op[j]
    BY <1>2 DEF ModelTypeOK, NextInBatch
  <2> HIDE DEF m
  <2> QED
    BY <2>1, <2>2 DEF NoOp
<1> QED
  BY <1>1, <1>2

\* What the steps do to the instance that takes them: its position and what it holds.
LEMMA ModelTyping ==
    ASSUME ModelStoreInv, ModelNext
    PROVE  ModelTypeOK' /\ ops' \in [Instances -> Nat]
<1> USE ModelStoreAssumption
<1>0. /\ ModelTypeOK /\ Fetching /\ ops \in [Instances -> Nat]
      /\ \A j \in Instances : ops[j] \in 0..MaxOps[j] /\ MaxOps[j] \in Nat
      /\ Instances # {} /\ torn \in BOOLEAN /\ taken \subseteq Models /\ Size \in Nat /\ MaxFiles \in Nat
      /\ stuck \subseteq 1..MaxFiles
  BY DEF ModelStoreInv, ModelTypeOK, Instances
<1> DEFINE OpType(v) == v \in [Instances -> [kind : Kinds \cup {"none"}, model : Models \cup {NoModel},
                             pc : Pcs, own : Inodes, rest : SUBSET Models]]
           DiskType == /\ files' \in [1..MaxFiles -> Content] /\ outdated' \subseteq Models
                       /\ weight' \in [Models -> Inodes] /\ partial' \in [Models -> Inodes]
           SessionType == session' \in [client : Models \cup {NoModel}, running : BOOLEAN,
                    active : Models \cup {NoModel}, cleanup : SUBSET Models,
                    pending : Models \cup {NoModel}, closed : BOOLEAN]
           OpsType == /\ ops' \in [Instances -> Nat] /\ \A j \in Instances : ops'[j] \in 0..MaxOps[j]
                      /\ torn' \in BOOLEAN /\ taken' \subseteq Models /\ stuck' \subseteq 1..MaxFiles
<1>1. SUFFICES OpType(op') /\ DiskType /\ SessionType /\ OpsType
  BY DEF ModelTypeOK
<1>2. /\ files \in [1..MaxFiles -> Content] /\ outdated \subseteq Models
      /\ weight \in [Models -> Inodes] /\ partial \in [Models -> Inodes] /\ OpType(op)
      /\ session \in [client : Models \cup {NoModel}, running : BOOLEAN,
                    active : Models \cup {NoModel}, cleanup : SUBSET Models,
                    pending : Models \cup {NoModel}, closed : BOOLEAN]
      /\ 0 \in Inodes
  BY <1>0 DEF ModelTypeOK, Inodes
<1>3. ASSUME NEW i \in Instances, NEW pc \in Pcs, OpGoes(i, pc) PROVE OpType(op')
  <2>1. op' = [op EXCEPT ![i] = [op[i] EXCEPT !.pc = pc]]
    BY <1>2, <1>3 DEF OpGoes
  <2>2. [op[i] EXCEPT !.pc = pc] \in DownloadOps
    BY <1>2, OpStays DEF DownloadOps
  <2> QED
    BY <1>2, <2>1, <2>2 DEF DownloadOps
<1>4. ASSUME NEW i \in Instances, OpEnds(i) PROVE OpType(op')
  BY <1>2, <1>4 DEF OpEnds, NoOp, Pcs, Inodes
<1>5. ASSUME NEW i \in Instances, NEW kind \in Kinds, NEW m \in Models, NEW pc \in Pcs, BeginOp(i, kind, m, pc)
      PROVE  OpType(op') /\ DiskType /\ SessionType /\ OpsType
  <2>1. [NoOp EXCEPT !.kind = kind, !.model = m, !.pc = pc] \in DownloadOps
    BY OpBegins
  <2>2. OpType(op')
    BY <1>2, <1>5, <2>1 DEF DownloadOps, BeginOp
  <2> QED
    BY <1>0, <1>2, <1>5, <2>2 DEF BeginOp
<1>6. ASSUME NEW i \in Instances, NEW left \in SUBSET Models, NextInBatch(i, left) PROVE OpType(op')
  <2>1. \/ op' = [op EXCEPT ![i] = NoOp]
        \/ \E m \in left : op' = [op EXCEPT ![i] = [NoOp EXCEPT !.kind = "redownload", !.pc = "find",
                     !.model = m, !.rest = left \ {m}]]
    BY <1>6 DEF NextInBatch
  <2>2. CASE op' = [op EXCEPT ![i] = NoOp]
    BY <1>4, <2>2 DEF OpEnds
  <2>3. ASSUME NEW m \in left, op' = [op EXCEPT ![i] = [NoOp EXCEPT !.kind = "redownload", !.pc = "find",
                     !.model = m, !.rest = left \ {m}]]
        PROVE  OpType(op')
    <3>1. "redownload" \in Kinds /\ "find" \in Pcs /\ m \in Models /\ left \ {m} \in SUBSET Models
      BY DEF Kinds, Pcs
    <3>2. [NoOp EXCEPT !.kind = "redownload", !.pc = "find", !.model = m, !.rest = left \ {m}] \in DownloadOps
      BY <3>1, OpBegins
    <3> QED
      BY <1>2, <2>3, <3>2 DEF DownloadOps
  <2> QED
    BY <2>1, <2>2, <2>3
<1>7. {"idle", "find", "stale", "open", "write", "written", "appeared", "promote",
        "validate", "done", "cleanup", "remove", "outdated", "fetched"} = Pcs
  BY DEF Pcs
<1>8. ASSUME NEW i \in Instances, OpFails(i) PROVE OpType(op')
  BY <1>3, <1>7, <1>8 DEF OpFails
<1>9. ASSUME UNCHANGED <<ops, torn>>, taken' \subseteq Models, stuck' \subseteq 1..MaxFiles PROVE OpsType
  BY <1>0, <1>9
<1>10. ASSUME UNCHANGED session PROVE SessionType
  BY <1>2, <1>10
<1>11. \A i \in Instances : ~OpAt(i, "idle") => Model(i) \in Models
  BY <1>0 DEF Fetching, OpAt
<1>12. ASSUME NEW i \in Instances, Fetch(i) \/ Redownload(i)
       PROVE  OpType(op') /\ DiskType /\ SessionType /\ OpsType
  <2>1. Reach(i) \subseteq Models /\ "fetch" \in Kinds /\ "find" \in Pcs
    BY DEF Reach, Kinds, Pcs
  <2>2. CASE Fetch(i)
    BY <1>5, <2>1, <2>2 DEF Fetch
  <2>3. CASE Redownload(i)
    <3>1. OpType(op')
      BY <1>6, <2>1, <2>3 DEF Redownload
    <3>2. OpsType
      BY <1>0, <2>3 DEF Redownload
    <3> QED
      BY <1>2, <2>3, <3>1, <3>2 DEF Redownload
  <2> QED
    BY <1>12, <2>2, <2>3
<1>13. ASSUME NEW i \in Instances, RemoveReplaced(i)
       PROVE  OpType(op') /\ DiskType /\ SessionType /\ OpsType
  <2>1. op[i].rest \subseteq Models
    BY <1>2
  <2>2. OpType(op')
    BY <1>4, <1>6, <1>13, <2>1 DEF RemoveReplaced
  <2> QED
    BY <1>0, <1>2, <1>13, <2>2 DEF RemoveReplaced, Stays
<1>14. ASSUME NEW i \in Instances, FindWeight(i) \/ RemoveStalePart(i)
       PROVE  OpType(op') /\ DiskType /\ SessionType /\ OpsType
  <2>1. OpType(op')
    BY <1>3, <1>4, <1>7, <1>14 DEF FindWeight, RemoveStalePart
  <2>2. OpsType /\ SessionType
    BY <1>0, <1>2, <1>14 DEF FindWeight, RemoveStalePart, Stays
  <2>3. UNCHANGED <<files, outdated>>
    BY <1>14 DEF FindWeight, RemoveStalePart
  <2>4. weight' \in [Models -> Inodes] /\ partial' \in [Models -> Inodes]
    <3>1. CASE FindWeight(i)
      BY <1>2, <3>1 DEF FindWeight
    <3>2. CASE RemoveStalePart(i)
      BY <1>2, <3>2 DEF RemoveStalePart
    <3> QED
      BY <1>14, <3>1, <3>2
  <2> QED
    BY <1>2, <2>1, <2>2, <2>3, <2>4
<1>15. ASSUME NEW i \in Instances, OpenPart(i)
       PROVE  OpType(op') /\ DiskType /\ SessionType /\ OpsType
  <2>1. Fresh(i) \subseteq 1..MaxFiles /\ Fresh(i) \subseteq Inodes
    BY <1>0 DEF Fresh, Inodes
  <2>2. \/ OpFails(i) /\ UNCHANGED <<files, partial, stuck>>
        \/ \E f \in Fresh(i) :
                /\ files' = [files EXCEPT ![f] = [got |-> 0, good |-> TRUE]]
                /\ partial' = [partial EXCEPT ![Model(i)] = f]
                /\ op' = [op EXCEPT ![i].pc = "write", ![i].own = f]
    BY <1>15 DEF OpenPart
  <2>3. [got |-> 0, good |-> TRUE] \in Content
    BY <1>0 DEF Content
  <2>4. OpType(op')
    <3>1. "write" \in Pcs
      BY DEF Pcs
    <3>2. ASSUME NEW f \in Fresh(i), op' = [op EXCEPT ![i].pc = "write", ![i].own = f] PROVE OpType(op')
      <4>1. op' = [op EXCEPT ![i] = [op[i] EXCEPT !.pc = "write", !.own = f]]
        BY <1>2, <3>2
      <4>2. [op[i] EXCEPT !.pc = "write", !.own = f] \in DownloadOps
        BY <1>2, <2>1, <3>1, OpStays DEF DownloadOps
      <4> QED
        BY <1>2, <4>1, <4>2 DEF DownloadOps
    <3> QED
      BY <1>8, <2>2, <3>2
  <2>5. files' \in [1..MaxFiles -> Content] /\ partial' \in [Models -> Inodes]
    <3>1. CASE UNCHANGED <<files, partial>>
      BY <1>2, <3>1
    <3>2. ASSUME NEW f \in Fresh(i), files' = [files EXCEPT ![f] = [got |-> 0, good |-> TRUE]],
                 partial' = [partial EXCEPT ![Model(i)] = f]
          PROVE  files' \in [1..MaxFiles -> Content] /\ partial' \in [Models -> Inodes]
      BY <1>2, <2>1, <2>3, <3>2
    <3> QED
      BY <2>2, <3>1, <3>2
  <2>6. UNCHANGED <<weight, outdated, ops, session, torn, taken>> /\ stuck' \subseteq stuck
    BY <1>15 DEF OpenPart
  <2> QED
    BY <1>0, <1>2, <2>4, <2>5, <2>6
<1>16. ASSUME NEW i \in Instances, WriteChunk(i)
       PROVE  OpType(op') /\ DiskType /\ SessionType /\ OpsType
  <2>1. op[i].own \in 1..MaxFiles
    BY <1>0, <1>2, <1>16 DEF Fetching, WriteChunk, OpAt, Inodes
  <2>2. files[op[i].own] \in Content
    BY <1>2, <2>1
  <2>3. files[op[i].own].got < Size => \A intact \in BOOLEAN :
            [got |-> files[op[i].own].got + 1, good |-> files[op[i].own].good /\ intact] \in Content
    BY <1>0, <2>2 DEF Content
  <2>4. files' \in [1..MaxFiles -> Content]
    <3>1. CASE UNCHANGED files
      BY <1>2, <3>1
    <3>2. ASSUME NEW intact \in BOOLEAN, files[op[i].own].got < Size,
                 files' = [files EXCEPT ![op[i].own] = [got |-> @.got + 1, good |-> @.good /\ intact]]
          PROVE  files' \in [1..MaxFiles -> Content]
      <4>1. files' = [files EXCEPT ![op[i].own] =
                        [got |-> files[op[i].own].got + 1, good |-> files[op[i].own].good /\ intact]]
        BY <1>2, <2>1, <3>2
      <4> QED
        BY <1>2, <2>3, <3>2, <4>1
    <3> QED
      BY <1>16, <3>1, <3>2 DEF WriteChunk
  <2>5. OpType(op')
    BY <1>2, <1>8, <1>16 DEF WriteChunk
  <2> QED
    BY <1>0, <1>2, <1>16, <2>4, <2>5 DEF WriteChunk, Stays
<1>17. ASSUME NEW i \in Instances, VerifyDigest(i) \/ ValidatePart(i) \/ UseAppeared(i) \/ PromotePart(i)
       PROVE  OpType(op') /\ DiskType /\ SessionType /\ OpsType
  <2>1. OpType(op')
    BY <1>3, <1>7, <1>8, <1>17 DEF VerifyDigest, ValidatePart, UseAppeared, PromotePart
  <2>2. OpsType /\ SessionType
    BY <1>0, <1>2, <1>17 DEF VerifyDigest, ValidatePart, UseAppeared, PromotePart, Stays
  <2>3. UNCHANGED <<files, outdated>>
    BY <1>17 DEF VerifyDigest, ValidatePart, UseAppeared, PromotePart
  <2>4. weight' \in [Models -> Inodes] /\ partial' \in [Models -> Inodes]
    <3>1. CASE VerifyDigest(i) \/ ValidatePart(i)
      BY <1>2, <3>1 DEF VerifyDigest, ValidatePart
    <3>2. CASE UseAppeared(i)
      BY <1>2, <3>2 DEF UseAppeared
    <3>3. CASE PromotePart(i)
      BY <1>2, <1>11, <3>3 DEF PromotePart, OpAt
    <3> QED
      BY <1>17, <3>1, <3>2, <3>3
  <2> QED
    BY <1>2, <2>1, <2>2, <2>3, <2>4
<1>18. ASSUME NEW i \in Instances, ValidateWeight(i) \/ CleanupPart(i) \/ Downloaded(i) \/ RemoveWeight(i)
       PROVE  OpType(op') /\ DiskType /\ SessionType /\ OpsType
  <2>1. OpType(op')
    BY <1>3, <1>4, <1>7, <1>8, <1>18 DEF ValidateWeight, CleanupPart, Downloaded, RemoveWeight
  <2>2. Model(i) \in Models
    BY <1>11, <1>18 DEF ValidateWeight, CleanupPart, Downloaded, RemoveWeight, OpAt
  <2>7. weight[Model(i)] \in Inodes /\ partial[Model(i)] \in Inodes /\ Inodes \ {0} = 1..MaxFiles
    BY <1>0, <1>2, <2>2 DEF Inodes
  <2>8. stuck' \subseteq 1..MaxFiles
    <3>1. CASE stuck' = stuck
      BY <1>0, <3>1
    <3>2. CASE ValidateWeight(i)
      BY <1>0, <2>7, <3>2 DEF ValidateWeight
    <3>3. CASE CleanupPart(i)
      BY <1>0, <2>7, <3>3 DEF CleanupPart
    <3> QED
      BY <1>18, <3>1, <3>2, <3>3 DEF Downloaded, RemoveWeight, Stays
  <2>3. OpsType /\ SessionType
    BY <1>0, <1>2, <1>18, <2>2, <2>8 DEF ValidateWeight, CleanupPart, Downloaded, RemoveWeight, Stays
  <2>4. UNCHANGED <<files, outdated>>
    BY <1>18 DEF ValidateWeight, CleanupPart, Downloaded, RemoveWeight
  <2>5. weight' \in [Models -> Inodes] /\ partial' \in [Models -> Inodes]
    <3>1. CASE ValidateWeight(i) \/ RemoveWeight(i)
      BY <1>2, <3>1 DEF ValidateWeight, RemoveWeight
    <3>2. CASE CleanupPart(i) \/ Downloaded(i)
      BY <1>2, <3>2 DEF CleanupPart, Downloaded
    <3> QED
      BY <1>18, <3>1, <3>2
  <2> QED
    BY <1>2, <2>1, <2>3, <2>4, <2>5
<1>19. ASSUME NEW i \in Instances, RemoveObsolete(i)
       PROVE  OpType(op') /\ DiskType /\ SessionType /\ OpsType
  BY <1>0, <1>2, <1>4, <1>19 DEF RemoveObsolete, Stays
<1>20. ASSUME NEW i \in Instances, InstanceDies(i)
       PROVE  OpType(op') /\ DiskType /\ SessionType /\ OpsType
  <2>1. SessionType
    BY <1>2, <1>20 DEF InstanceDies, NoSession
  <2> QED
    BY <1>0, <1>2, <1>4, <1>20, <2>1 DEF InstanceDies
<1>21. ASSUME NEW m \in Models, Prepare(m) \/ RemoveModel(m)
       PROVE  OpType(op') /\ DiskType /\ SessionType /\ OpsType
  BY <1>5, <1>7, <1>21 DEF Prepare, RemoveModel, Instances, Kinds
<1>22. CASE DeleteOutdated
  BY <1>5, <1>7, <1>22 DEF DeleteOutdated, Instances, Kinds
<1>23. CASE StartSession
  <2>1. Owner \in Instances /\ Model(Owner) \in Models
    BY <1>11, <1>23 DEF StartSession, OpAt, Instances
  <2>2. OpType(op')
    BY <1>4, <1>23, <2>1 DEF StartSession
  <2>3. session.client # NoModel /\ session.pending = NoModel => session.active \in Models
    BY <1>2 DEF ModelStoreInv, SessionInv
  <2>4. op[Owner].kind = "prepare" => session.pending = NoModel
    BY DEF ModelStoreInv, SessionInv
  <2>5. SessionType
    <3> DEFINE m == Model(Owner)
    <3>1. CASE session' = [session EXCEPT !.client = m, !.running = TRUE, !.active = m]
      BY <1>2, <2>1, <3>1
    <3>2. CASE session' = NoSession
      BY <3>2 DEF NoSession
    <3>3. CASE session' = [NoSession EXCEPT !.client = m, !.cleanup = {m}, !.pending = m]
      BY <2>1, <3>3 DEF NoSession
    <3>4. CASE session.client # NoModel /\ session' = [NoSession EXCEPT !.client = session.client,
                 !.running = session.running, !.cleanup = {m, session.active}, !.pending = session.active]
      <4>1. session.active \in Models
        BY <1>23, <2>3, <2>4, <3>4 DEF StartSession
      <4> QED
        BY <1>2, <2>1, <3>4, <4>1 DEF NoSession
    <3> QED
      BY <1>23, <3>1, <3>2, <3>3, <3>4 DEF StartSession, FailSession
  <2> QED
    BY <1>0, <1>2, <1>23, <2>2, <2>5 DEF StartSession
<1>24. CASE ChildDies
  BY <1>0, <1>2, <1>24 DEF ChildDies
<1>25. CASE CloseManager
  <2>1. session.client # NoModel /\ session.pending = NoModel => session.active \in Models
    BY <1>2 DEF ModelStoreInv, SessionInv
  <2>2. SessionType
    <3>1. CASE session' = [NoSession EXCEPT !.closed = TRUE]
      BY <3>1 DEF NoSession
    <3>2. CASE session' # [NoSession EXCEPT !.closed = TRUE]
      <4> DEFINE pending == IF session.pending # NoModel THEN session.pending ELSE session.active
                 cleanup == IF session.pending # NoModel THEN session.cleanup ELSE {session.active}
      <4>1. session' = [NoSession EXCEPT !.closed = TRUE, !.client = session.client,
                !.running = session.running, !.pending = pending, !.cleanup = cleanup]
            /\ session.client # NoModel
        BY <1>25, <3>2 DEF CloseManager
      <4>2. pending \in Models /\ cleanup \subseteq Models
        BY <1>2, <2>1, <4>1
      <4> HIDE DEF pending, cleanup
      <4> QED
        BY <1>2, <4>1, <4>2 DEF NoSession
    <3> QED
      BY <3>1, <3>2
  <2> QED
    BY <1>0, <1>2, <1>25, <2>2 DEF CloseManager
<1> QED
  BY <1>12, <1>13, <1>14, <1>15, <1>16, <1>17, <1>18, <1>19, <1>20, <1>21, <1>22, <1>23, <1>24, <1>25
     DEF ModelNext, ModelStep

\* A whole file that something names or holds stays whole.
LEMMA WholeStays ==
    ASSUME ModelStoreInv, ModelNext
    PROVE  \A f \in Inodes : WholeWeight(f) /\ (\A i \in Instances : f \notin Fresh(i))
               => files'[f].got = Size /\ files'[f].good
<1> SUFFICES ASSUME NEW f \in Inodes, WholeWeight(f), \A i \in Instances : f \notin Fresh(i)
             PROVE  files'[f].got = Size /\ files'[f].good
  OBVIOUS
<1>0. /\ files \in [1..MaxFiles -> Content] /\ f \in 1..MaxFiles
      /\ \A i \in Instances : op[i].own \in Inodes
  BY ModelStoreAssumption DEF ModelStoreInv, ModelTypeOK, WholeWeight, Inodes
<1>1. ASSUME files' = files \/ files'[f] = files[f] PROVE files'[f].got = Size /\ files'[f].good
  BY <1>1 DEF WholeWeight
<1>2. ASSUME NEW i \in Instances, OpenPart(i) PROVE files'[f].got = Size /\ files'[f].good
  <2>1. \/ UNCHANGED files
        \/ \E g \in Fresh(i) : files' = [files EXCEPT ![g] = [got |-> 0, good |-> TRUE]]
    BY <1>2 DEF OpenPart
  <2> QED
    BY <1>0, <1>1, <2>1
<1>3. ASSUME NEW i \in Instances, WriteChunk(i) PROVE files'[f].got = Size /\ files'[f].good
  <2>1. \/ UNCHANGED files
        \/ /\ files[op[i].own].got < Size
           /\ \E intact \in BOOLEAN :
                files' = [files EXCEPT ![op[i].own] = [got |-> @.got + 1, good |-> @.good /\ intact]]
    BY <1>3 DEF WriteChunk
  <2>2. files[f].got = Size /\ Size \in Nat
    BY ModelStoreAssumption DEF WholeWeight
  <2>3. files[op[i].own].got < Size => op[i].own # f
    BY <2>2
  <2>4. UNCHANGED files \/ files'[f] = files[f]
    BY <1>0, <2>1, <2>3
  <2> QED
    BY <1>1, <2>4
<1> QED
  BY <1>1, <1>2, <1>3 DEF ModelNext, ModelStep, Fetch, BeginOp, Redownload, RemoveReplaced, FindWeight, RemoveStalePart,
     VerifyDigest, ValidatePart, UseAppeared, PromotePart, ValidateWeight, CleanupPart, Downloaded, RemoveWeight,
     RemoveObsolete, InstanceDies, Prepare, RemoveModel, DeleteOutdated, StartSession, ChildDies, CloseManager, Stays

\* A named or held inode is not one that a download takes.
LEMMA TakenIsNotFresh ==
    ASSUME NEW i \in Instances
    PROVE  /\ \A m \in Models : weight[m] \notin Fresh(i) /\ partial[m] \notin Fresh(i)
           /\ \A j \in Instances : op[j].own \notin Fresh(i)
           /\ 0 \notin Fresh(i) /\ Fresh(i) \subseteq Inodes
BY ModelStoreAssumption DEF Fresh, Inodes

\* The instance a step belongs to, and where it leaves it: it begins, it goes
\* on from one step of its operation to the next, or it ends.
ModelMoves(i) ==
    /\ \A j \in Instances : i # j => op'[j] = op[j]
    /\ \/ op'[i] = op[i]
       \/ op'[i].pc = "idle" /\ op'[i].kind = "none" /\ op'[i].own = 0
       \/ /\ op'[i].pc \in {"find", "remove", "outdated"} /\ op'[i].own = 0 /\ op'[i].model \in Models
       \/ /\ op[i].pc # "idle" /\ op'[i].model = op[i].model /\ op'[i].kind = op[i].kind
          /\ \/ op'[i].own = op[i].own
                /\ <<op[i].pc, op'[i].pc>> \in {<<"find", "done">>, <<"find", "stale">>, <<"stale", "open">>,
                      <<"open", "cleanup">>, <<"write", "cleanup">>, <<"write", "written">>, <<"written", "cleanup">>,
                      <<"written", "appeared">>, <<"appeared", "cleanup">>, <<"appeared", "done">>,
                      <<"appeared", "promote">>, <<"promote", "cleanup">>, <<"promote", "validate">>,
                      <<"validate", "done">>, <<"validate", "cleanup">>, <<"done", "fetched">>}
                /\ (op'[i].pc = "written" => WholeWeight(op[i].own)) /\ (op'[i].pc = "fetched" => op[i].kind = "redownload")
             \/ op[i].pc = "open" /\ op'[i].pc = "write" /\ op'[i].own \in Fresh(i)

LEMMA Moving ==
    ASSUME ModelStoreInv, ModelNext
    PROVE  \E i \in Instances : ModelMoves(i)
<1>0. ModelTypeOK /\ Fetching /\ op \in [Instances -> DownloadOps] /\ Owner \in Instances
  BY DEF ModelStoreInv, ModelTypeOK, DownloadOps, Instances
<1>1. ASSUME NEW i \in Instances, NEW pc \in Pcs, OpGoes(i, pc), op[i].pc # "idle",
             <<op[i].pc, pc>> \in {<<"find", "done">>, <<"find", "stale">>, <<"stale", "open">>,
                      <<"open", "cleanup">>, <<"write", "cleanup">>, <<"write", "written">>, <<"written", "cleanup">>,
                      <<"written", "appeared">>, <<"appeared", "cleanup">>, <<"appeared", "done">>,
                      <<"appeared", "promote">>, <<"promote", "cleanup">>, <<"promote", "validate">>,
                      <<"validate", "done">>, <<"validate", "cleanup">>, <<"done", "fetched">>},
             pc = "written" => WholeWeight(op[i].own), pc = "fetched" => op[i].kind = "redownload"
      PROVE  ModelMoves(i)
  <2>1. /\ op'[i].pc = pc /\ op'[i].kind = op[i].kind /\ op'[i].own = op[i].own /\ op'[i].model = op[i].model
        /\ \A j \in Instances : i # j => op'[j] = op[j]
    BY <1>0, <1>1, OpGoesTo
  <2> QED
    BY <1>1, <2>1 DEF ModelMoves
<1>2. ASSUME NEW i \in Instances, OpEnds(i) PROVE ModelMoves(i)
  BY <1>0, <1>2, OpEndsAt DEF ModelMoves
<1>3. ASSUME NEW i \in Instances, NEW kind \in Kinds, NEW m \in Models,
             NEW pc \in {"find", "remove", "outdated"}, BeginOp(i, kind, m, pc)
      PROVE  ModelMoves(i)
  <2>1. /\ op'[i] = [NoOp EXCEPT !.kind = kind, !.model = m, !.pc = pc]
        /\ \A j \in Instances : i # j => op'[j] = op[j]
    BY <1>0, <1>3 DEF BeginOp
  <2> QED
    BY <2>1 DEF ModelMoves, NoOp
<1>4. ASSUME NEW i \in Instances, NEW left \in SUBSET Models, NextInBatch(i, left) PROVE ModelMoves(i)
  BY <1>0, <1>4, BatchGoesOn DEF ModelMoves
<1>5. UNCHANGED op => ModelMoves(Owner)
  BY DEF ModelMoves
<1>6. ASSUME NEW i \in Instances, UNCHANGED op PROVE ModelMoves(i)
  BY <1>6 DEF ModelMoves
<1>7. ASSUME NEW i \in Instances, Fetch(i) \/ Redownload(i) \/ RemoveReplaced(i) PROVE ModelMoves(i)
  <2>1. Reach(i) \subseteq Models /\ op[i].rest \subseteq Models
    BY <1>0, ModelStoreAssumption DEF Reach, DownloadOps
  <2>2. CASE Fetch(i)
    BY <1>3, <2>1, <2>2 DEF Fetch, Kinds
  <2>3. CASE Redownload(i)
    BY <1>4, <2>1, <2>3 DEF Redownload
  <2>4. CASE RemoveReplaced(i)
    BY <1>2, <1>4, <2>1, <2>4 DEF RemoveReplaced
  <2> QED
    BY <1>7, <2>2, <2>3, <2>4
<1>8. ASSUME NEW i \in Instances, OpenPart(i) PROVE ModelMoves(i)
  <2>1. CASE OpFails(i)
    BY <1>1, <1>8, <2>1 DEF OpFails, OpenPart, OpAt, Pcs
  <2>2. ASSUME NEW f \in Fresh(i), op' = [op EXCEPT ![i].pc = "write", ![i].own = f] PROVE ModelMoves(i)
    <3>1. /\ op'[i] = [op[i] EXCEPT !.pc = "write", !.own = f]
          /\ \A j \in Instances : i # j => op'[j] = op[j]
      BY <1>0, <2>2
    <3>2. op'[i].pc = "write" /\ op'[i].own = f /\ op'[i].model = op[i].model /\ op'[i].kind = op[i].kind
      BY <1>0, <3>1 DEF DownloadOps
    <3> QED
      BY <1>8, <3>1, <3>2 DEF ModelMoves, OpenPart, OpAt
  <2> QED
    BY <1>8, <2>1, <2>2 DEF OpenPart
<1>9. ASSUME NEW i \in Instances, FindWeight(i) \/ RemoveStalePart(i) PROVE ModelMoves(i)
  BY <1>1, <1>2, <1>9 DEF FindWeight, RemoveStalePart, OpAt, Pcs
<1>10. ASSUME NEW i \in Instances, WriteChunk(i) \/ VerifyDigest(i) \/ ValidatePart(i) PROVE ModelMoves(i)
  BY <1>1, <1>6, <1>10 DEF WriteChunk, VerifyDigest, ValidatePart, OpFails, OpAt, Pcs
<1>11. ASSUME NEW i \in Instances, UseAppeared(i) \/ PromotePart(i) \/ ValidateWeight(i) PROVE ModelMoves(i)
  BY <1>1, <1>11 DEF UseAppeared, PromotePart, ValidateWeight, OpFails, OpAt, Pcs
<1>12. ASSUME NEW i \in Instances, CleanupPart(i) \/ RemoveWeight(i) \/ RemoveObsolete(i) \/ InstanceDies(i)
       PROVE  ModelMoves(i)
  BY <1>2, <1>12 DEF CleanupPart, RemoveWeight, RemoveObsolete, InstanceDies
<1>13. ASSUME NEW i \in Instances, Downloaded(i) PROVE ModelMoves(i)
  BY <1>1, <1>2, <1>13 DEF Downloaded, OpAt, Pcs
<1>14. ASSUME NEW m \in Models, Prepare(m) \/ RemoveModel(m) PROVE ModelMoves(Owner)
  BY <1>0, <1>3, <1>14 DEF Prepare, RemoveModel, Kinds
<1>15. CASE DeleteOutdated
  BY <1>0, <1>3, <1>15, ModelStoreAssumption DEF DeleteOutdated, Kinds
<1>16. CASE StartSession
  BY <1>0, <1>2, <1>16 DEF StartSession
<1>17. CASE ChildDies \/ CloseManager
  BY <1>0, <1>5, <1>17 DEF ChildDies, CloseManager
<1> QED
  BY <1>0, <1>7, <1>8, <1>9, <1>10, <1>11, <1>12, <1>13, <1>14, <1>15, <1>16, <1>17 DEF ModelNext, ModelStep

LEMMA FetchingStep == ASSUME ModelStoreInv, ModelNext PROVE Fetching'
<1>0. Fetching /\ ModelTypeOK
  BY DEF ModelStoreInv
<1>1. PICK i \in Instances : ModelMoves(i)
  BY Moving
<1>2. \A j \in Instances : op[j].own \in Inodes
  BY <1>0, OpIsRecord
<1>3. ASSUME NEW j \in Instances, WholeWeight(op[j].own), op'[j].own = op[j].own PROVE WholeWeight(op[j].own)'
  BY <1>2, <1>3, WholeStays, TakenIsNotFresh DEF WholeWeight
<1>4. ASSUME NEW j \in Instances
      PROVE  /\ op'[j].pc # "idle" => op'[j].model \in Models
             /\ op'[j].pc = "idle" => op'[j].kind = "none"
             /\ op'[j].pc = "fetched" => op'[j].kind = "redownload"
             /\ op'[j].pc \in {"write", "written", "appeared", "promote", "validate"} => op'[j].own # 0
             /\ op'[j].pc \in {"written", "appeared", "promote", "validate"}
                  => WholeWeight(op[j].own) /\ op'[j].own = op[j].own
  <2>1. CASE op'[j] = op[j]
    BY <1>0, <2>1 DEF Fetching, Model
  <2>2. CASE op'[j].pc = "idle" /\ op'[j].kind = "none"
    BY <2>2
  <2>3. CASE op'[j].pc \in {"find", "remove", "outdated"} /\ op'[j].model \in Models
    BY <2>3
  <2>4. CASE op[j].pc = "open" /\ op'[j].pc = "write" /\ op'[j].own \in Fresh(j) /\ op'[j].model = op[j].model
    BY <1>0, <2>4, TakenIsNotFresh DEF Fetching, Model
  <2>5. CASE /\ op[j].pc # "idle" /\ op'[j].model = op[j].model /\ op'[j].kind = op[j].kind /\ op'[j].own = op[j].own
             /\ op[j].pc \in {"find", "stale", "open", "write", "written", "appeared", "promote", "validate", "done"}
             /\ op'[j].pc \notin {"idle", "write"}
             /\ op'[j].pc = "written" => WholeWeight(op[j].own)
             /\ op'[j].pc = "fetched" => op[j].kind = "redownload"
             /\ op'[j].pc \in {"appeared", "promote", "validate"} => op[j].pc \in {"written", "appeared", "promote"}
    <3>1. WholeWeight(op[j].own) => op[j].own # 0
      BY DEF WholeWeight
    <3> QED
      BY <1>0, <2>5, <3>1 DEF Fetching, Model
  <2> QED
    BY <1>1, <2>1, <2>2, <2>3, <2>4, <2>5 DEF ModelMoves
<1>5. ASSUME NEW j \in Instances, NEW k \in Instances, j # k, op'[j].own # 0 PROVE op'[j].own # op'[k].own
  BY <1>0, <1>1, <1>5, TakenIsNotFresh DEF ModelMoves, Fetching
<1>6. ASSUME NEW j \in Instances, op'[j].pc \in {"written", "appeared", "promote", "validate"}
      PROVE  WholeWeight(op[j].own)'
  BY <1>3, <1>4, <1>6
<1> QED
  BY <1>4, <1>5, <1>6 DEF Fetching, Model

\* Which weights and parts a step touches, each at the name of its model.
LEMMA WeightMoves ==
    ASSUME ModelStoreInv, ModelNext, NEW m \in Models
    PROVE  \/ weight'[m] = weight[m] \/ weight'[m] = 0
           \/ \E i \in Instances : OpAt(i, "promote") /\ PromotePart(i) /\ Model(i) = m
                /\ weight'[m] = partial[m] /\ partial'[m] = 0 /\ op'[i].pc = "validate"
                /\ op'[i].model = m
<1>0. /\ weight \in [Models -> Inodes] /\ partial \in [Models -> Inodes] /\ ModelTypeOK
  BY DEF ModelStoreInv, ModelTypeOK
<1>1. ASSUME NEW i \in Instances, FindWeight(i) \/ UseAppeared(i) \/ ValidateWeight(i) \/ RemoveWeight(i)
      PROVE  weight'[m] = weight[m] \/ weight'[m] = 0
  BY <1>0, <1>1 DEF FindWeight, UseAppeared, ValidateWeight, RemoveWeight
<1>2. ASSUME NEW i \in Instances, PromotePart(i), weight'[m] # weight[m]
      PROVE  /\ OpAt(i, "promote") /\ Model(i) = m /\ op'[i].pc = "validate" /\ op'[i].model = m
             /\ weight'[m] = partial[m] /\ partial'[m] = 0
  <2>1. OpAt(i, "promote") /\ OpGoes(i, "validate") /\ "validate" \in Pcs
    BY <1>2 DEF PromotePart, Pcs
  <2>2. /\ weight' = [weight EXCEPT ![Model(i)] = partial[Model(i)]]
        /\ partial' = [partial EXCEPT ![Model(i)] = 0]
    BY <1>2 DEF PromotePart
  <2>3. Model(i) = m
    BY <1>0, <1>2, <2>2
  <2>4. op'[i].pc = "validate" /\ op'[i].model = op[i].model
    BY <1>0, <2>1, OpGoesTo
  <2> QED
    BY <1>0, <2>1, <2>2, <2>3, <2>4 DEF Model
<1> QED
  BY <1>1, <1>2 DEF ModelNext, ModelStep, Fetch, BeginOp, Redownload, RemoveReplaced, RemoveStalePart, OpenPart, WriteChunk,
     VerifyDigest, ValidatePart, CleanupPart, Downloaded,
     RemoveObsolete, InstanceDies, Prepare, RemoveModel, DeleteOutdated, StartSession, ChildDies, CloseManager, Stays

\* A whole weight that stays at its name stays whole.
LEMMA WeightStaysWhole ==
    ASSUME ModelStoreInv, ModelNext, NEW m \in Models, WholeWeight(weight[m]), weight'[m] = weight[m]
    PROVE  WholeWeight(weight[m])'
<1>1. weight[m] \in Inodes
  BY DEF ModelStoreInv, ModelTypeOK
<1> QED
  BY <1>1, WholeStays, TakenIsNotFresh DEF WholeWeight

\* An instance moves by steps of its own.
OwnerStep == (\E m \in Models : Prepare(m) \/ RemoveModel(m)) \/ DeleteOutdated \/ StartSession

LEMMA StepsOfOne ==
    ASSUME ModelStoreInv, ModelNext, NEW i \in Instances, op'[i] # op[i]
    PROVE  ModelStep(i) \/ (i = Owner /\ OwnerStep)
<1>0. ModelTypeOK /\ op \in [Instances -> DownloadOps] /\ Owner \in Instances
  BY DEF ModelStoreInv, ModelTypeOK, DownloadOps, Instances
<1>1. ASSUME NEW j \in Instances, NEW v, op' = [op EXCEPT ![j] = v] PROVE i = j
  BY <1>0, <1>1
<1>2. ASSUME NEW j \in Instances, NEW pc, OpGoes(j, pc) PROVE i = j
  BY <1>0, <1>2 DEF OpGoes
<1>3. ASSUME NEW j \in Instances, OpEnds(j) PROVE i = j
  BY <1>1, <1>3 DEF OpEnds
<1>4. ASSUME NEW j \in Instances, NEW left, NextInBatch(j, left) PROVE i = j
  BY <1>1, <1>4 DEF NextInBatch
<1>5. ASSUME NEW j \in Instances, NEW kind, NEW m, NEW pc, BeginOp(j, kind, m, pc) PROVE i = j
  BY <1>1, <1>5 DEF BeginOp
<1>6. ASSUME NEW j \in Instances, OpenPart(j) PROVE i = j
  BY <1>0, <1>2, <1>6 DEF OpenPart, OpFails
<1>7. ASSUME NEW j \in Instances, ModelStep(j) PROVE i = j
  <2>1. CASE Fetch(j) \/ Redownload(j) \/ RemoveReplaced(j)
    BY <1>3, <1>4, <1>5, <2>1 DEF Fetch, Redownload, RemoveReplaced
  <2>2. CASE \/ FindWeight(j) \/ RemoveStalePart(j) \/ WriteChunk(j) \/ VerifyDigest(j) \/ ValidatePart(j)
             \/ UseAppeared(j) \/ PromotePart(j) \/ ValidateWeight(j)
    BY <1>2, <1>3, <2>2 DEF FindWeight, RemoveStalePart, WriteChunk, VerifyDigest, ValidatePart, UseAppeared, PromotePart,
       ValidateWeight, OpFails
  <2>3. CASE CleanupPart(j) \/ Downloaded(j) \/ RemoveWeight(j) \/ RemoveObsolete(j) \/ InstanceDies(j)
    BY <1>2, <1>3, <2>3 DEF CleanupPart, Downloaded, RemoveWeight, RemoveObsolete, InstanceDies
  <2> QED
    BY <1>6, <1>7, <2>1, <2>2, <2>3 DEF ModelStep
<1>8. ASSUME OwnerStep PROVE i = Owner
  BY <1>0, <1>3, <1>5, <1>8 DEF OwnerStep, Prepare, RemoveModel, DeleteOutdated, StartSession
<1> QED
  BY <1>7, <1>8 DEF ModelNext, ChildDies, CloseManager, OwnerStep

\* What a removal left stays noted as long as it is at a name.
LEMMA StuckStays ==
    ASSUME ModelStoreInv, ModelNext, NEW m \in Models
    PROVE  /\ weight[m] \in stuck => weight[m] \in stuck'
           /\ partial[m] \in stuck => partial[m] \in stuck'
<1>1. ASSUME NEW i \in Instances, OpenPart(i)
      PROVE  /\ weight[m] \in stuck => weight[m] \in stuck'
             /\ partial[m] \in stuck => partial[m] \in stuck'
  BY <1>1, TakenIsNotFresh DEF OpenPart
<1>2. ASSUME NEW i \in Instances, ValidateWeight(i) \/ CleanupPart(i) PROVE stuck \subseteq stuck'
  BY <1>2 DEF ValidateWeight, CleanupPart
<1> QED
  BY <1>1, <1>2 DEF ModelNext, ModelStep, Fetch, BeginOp, Redownload, RemoveReplaced, FindWeight, RemoveStalePart, WriteChunk,
     VerifyDigest, ValidatePart, UseAppeared, PromotePart, Downloaded, RemoveWeight,
     RemoveObsolete, InstanceDies, Prepare, RemoveModel, DeleteOutdated, StartSession, ChildDies, CloseManager, Stays

LEMMA WeightsStep == ASSUME ModelStoreInv, ModelNext PROVE NamedWeightsAreVerified'
<1>0. /\ NamedWeightsAreVerified /\ ModelTypeOK /\ Fetching /\ weight \in [Models -> Inodes]
  BY DEF ModelStoreInv, ModelTypeOK
<1>1. torn => torn'
  BY <1>0 DEF ModelNext, ModelStep, Fetch, BeginOp, Redownload, RemoveReplaced, FindWeight, RemoveStalePart, OpenPart, WriteChunk,
     VerifyDigest, ValidatePart, UseAppeared, PromotePart, ValidateWeight, CleanupPart, Downloaded, RemoveWeight,
     RemoveObsolete, InstanceDies, Prepare, RemoveModel, DeleteOutdated, StartSession, ChildDies, CloseManager, Stays
<1>2. SUFFICES ASSUME ~torn, ~torn', NEW m \in Models, weight'[m] > 1
               PROVE  \/ WholeWeight(weight[m])' \/ weight'[m] \in stuck'
                      \/ \E i \in Instances : op'[i].pc = "validate" /\ op'[i].model = m
  BY <1>1 DEF NamedWeightsAreVerified, OpAt, Model
<1>3. CASE \E i \in Instances : op'[i].pc = "validate" /\ op'[i].model = m
  BY <1>3
<1>4. CASE weight'[m] = 0
  BY <1>2, <1>4
<1>5. CASE weight'[m] = weight[m]
  <2>1. CASE WholeWeight(weight[m])
    BY <1>5, <2>1, WeightStaysWhole
  <2>2. ASSUME NEW i \in Instances, OpAt(i, "validate"), Model(i) = m, ~WholeWeight(weight[m])
        PROVE  weight'[m] \in stuck' \/ (op'[i].pc = "validate" /\ op'[i].model = m)
    <3>2. CASE op'[i] = op[i]
      BY <2>2, <3>2 DEF OpAt, Model
    <3>3. CASE op'[i] # op[i]
      <4>1. ValidateWeight(i) \/ InstanceDies(i)
        BY <2>2, <3>3, StepsOfOne DEF OpAt, ModelStep, OwnerStep, Fetch, BeginOp, Redownload, RemoveReplaced, FindWeight,
           RemoveStalePart, OpenPart, WriteChunk, VerifyDigest, ValidatePart, UseAppeared, PromotePart, CleanupPart,
           Downloaded, RemoveWeight, RemoveObsolete, Prepare, RemoveModel, DeleteOutdated, StartSession
      <4>2. ValidateWeight(i)
        BY <1>2, <4>1 DEF InstanceDies
      <4>3. weight[m] = op[i].own \/ weight'[m] \in stuck'
        BY <1>0, <1>2, <1>5, <2>2, <4>2 DEF ValidateWeight
      <4>4. weight[m] # op[i].own
        BY <1>0, <2>2 DEF Fetching, OpAt
      <4> QED
        BY <4>3, <4>4
    <3> QED
      BY <3>2, <3>3
  <2>3. CASE weight[m] \in stuck
    BY <1>0, <1>5, <2>3, StuckStays
  <2> QED
    BY <1>0, <1>2, <1>5, <2>1, <2>2, <2>3 DEF NamedWeightsAreVerified
<1> QED
  BY <1>3, <1>4, <1>5, WeightMoves

LEMMA PartMoves ==
    ASSUME ModelStoreInv, ModelNext, NEW m \in Models
    PROVE  \/ partial'[m] = partial[m] \/ partial'[m] = 0
           \/ \E i \in Instances : /\ OpAt(i, "open") /\ Model(i) = m
                /\ op'[i].pc = "write" /\ op'[i].own = partial'[m] /\ op'[i].model = m
<1>0. /\ ModelTypeOK /\ partial \in [Models -> Inodes] /\ op \in [Instances -> DownloadOps]
  BY DEF ModelStoreInv, ModelTypeOK, DownloadOps
<1>1. ASSUME NEW i \in Instances, RemoveStalePart(i) \/ UseAppeared(i) \/ PromotePart(i) \/ CleanupPart(i)
      PROVE  partial'[m] = partial[m] \/ partial'[m] = 0
  BY <1>0, <1>1 DEF RemoveStalePart, UseAppeared, PromotePart, CleanupPart
<1>2. ASSUME NEW i \in Instances, OpenPart(i), partial'[m] # partial[m]
      PROVE  /\ OpAt(i, "open") /\ Model(i) = m
             /\ op'[i].pc = "write" /\ op'[i].own = partial'[m] /\ op'[i].model = m
  <2>1. PICK f \in Fresh(i) : /\ partial' = [partial EXCEPT ![Model(i)] = f]
                              /\ op' = [op EXCEPT ![i].pc = "write", ![i].own = f]
    BY <1>2 DEF OpenPart
  <2>2. op'[i] = [op[i] EXCEPT !.pc = "write", !.own = f]
    BY <1>0, <2>1
  <2>3. op'[i].pc = "write" /\ op'[i].own = f /\ op'[i].model = Model(i)
    BY <1>0, <2>2 DEF DownloadOps, Model
  <2>4. Model(i) = m /\ partial'[m] = f
    BY <1>0, <1>2, <2>1
  <2> QED
    BY <1>2, <2>3, <2>4 DEF OpenPart
<1> QED
  BY <1>1, <1>2 DEF ModelNext, ModelStep, Fetch, BeginOp, Redownload, RemoveReplaced, FindWeight, WriteChunk,
     VerifyDigest, ValidatePart, ValidateWeight, Downloaded, RemoveWeight,
     RemoveObsolete, InstanceDies, Prepare, RemoveModel, DeleteOutdated, StartSession, ChildDies, CloseManager, Stays

LEMMA PartsStep == ASSUME ModelStoreInv, ModelNext PROVE PartsAreTheirs'
<1>0. /\ PartsAreTheirs /\ ModelTypeOK /\ Fetching /\ partial \in [Models -> Inodes] /\ op \in [Instances -> DownloadOps]
  BY DEF ModelStoreInv, ModelTypeOK, DownloadOps
<1>1. torn => torn'
  BY <1>0 DEF ModelNext, ModelStep, Fetch, BeginOp, Redownload, RemoveReplaced, FindWeight, RemoveStalePart, OpenPart, WriteChunk,
     VerifyDigest, ValidatePart, UseAppeared, PromotePart, ValidateWeight, CleanupPart, Downloaded, RemoveWeight,
     RemoveObsolete, InstanceDies, Prepare, RemoveModel, DeleteOutdated, StartSession, ChildDies, CloseManager, Stays
<1>2. SUFFICES ASSUME ~torn, ~torn', NEW m \in Models, partial'[m] # 0
               PROVE  \/ partial'[m] \in stuck'
                      \/ \E i \in Instances : op'[i].model = m /\ op'[i].own = partial'[m] /\ op'[i].pc \in HasPart
  BY <1>1 DEF PartsAreTheirs, Model
<1>3. CASE partial'[m] # partial[m]
  BY <1>2, <1>3, PartMoves DEF HasPart
<1>5. CASE partial'[m] = partial[m] /\ partial[m] \in stuck
  BY <1>5, StuckStays
<1>4. CASE partial'[m] = partial[m] /\ partial[m] \notin stuck
  <2>1. PICK i \in Instances : Model(i) = m /\ op[i].own = partial[m] /\ op[i].pc \in HasPart
    BY <1>0, <1>2, <1>4 DEF PartsAreTheirs
  <2>2. CASE op'[i] = op[i]
    BY <1>4, <2>1, <2>2 DEF Model
  <2>3. CASE op'[i] # op[i]
    <3>1. \/ WriteChunk(i) \/ VerifyDigest(i) \/ ValidatePart(i) \/ UseAppeared(i) \/ PromotePart(i) \/ CleanupPart(i)
          \/ InstanceDies(i)
      BY <2>1, <2>3, StepsOfOne DEF OpAt, HasPart, ModelStep, OwnerStep, Fetch, BeginOp, Redownload, RemoveReplaced, FindWeight,
           RemoveStalePart, OpenPart, ValidateWeight,
           Downloaded, RemoveWeight, RemoveObsolete, Prepare, RemoveModel, DeleteOutdated, StartSession
    <3>2. ~InstanceDies(i)
      BY <1>2 DEF InstanceDies
    <3>7. CASE CleanupPart(i)
      BY <1>0, <1>2, <1>4, <2>1, <3>7 DEF CleanupPart
    <3>3. ASSUME NEW pc \in HasPart, OpGoes(i, pc) PROVE op'[i].model = m /\ op'[i].own = partial'[m] /\ op'[i].pc \in HasPart
      BY <1>0, <1>4, <2>1, <3>3, OpGoesTo DEF HasPart, Pcs, Model
    <3>4. CASE WriteChunk(i) \/ VerifyDigest(i) \/ ValidatePart(i)
      BY <2>3, <3>3, <3>4 DEF WriteChunk, VerifyDigest, ValidatePart, OpFails, HasPart
    <3>5. CASE UseAppeared(i)
      BY <1>0, <1>2, <2>1, <3>3, <3>5 DEF UseAppeared, OpFails, HasPart
    <3>6. CASE PromotePart(i)
      BY <1>0, <1>2, <2>1, <3>3, <3>6 DEF PromotePart, OpFails, HasPart
    <3> QED
      BY <3>1, <3>2, <3>4, <3>5, <3>6, <3>7
  <2> QED
    BY <2>2, <2>3
<1> QED
  BY <1>3, <1>4, <1>5

\* One instance promotes: the other has not put anything at the weight's name
\* since, nor begun anew.
LEMMA PromotingStep == ASSUME ModelStoreInv, ModelNext PROVE PromotingAlone'
<1>0. /\ PromotingAlone /\ ModelTypeOK /\ Fetching /\ partial \in [Models -> Inodes] /\ weight \in [Models -> Inodes]
      /\ op \in [Instances -> DownloadOps]
  BY DEF ModelStoreInv, ModelTypeOK, DownloadOps
<1>1. SUFFICES ASSUME NEW i \in Instances, NEW j \in Instances, i # j, op'[j].pc = "promote", NEW m \in Models, op'[j].model = m
               PROVE  /\ op'[i].model = m /\ op'[i].pc \in BeforePromotion => weight'[m] = 0
                      /\ weight'[m] # 0 => partial'[m] \in {0, op'[j].own}
  <2>1. \A k \in Instances : op'[k].pc = "promote" => op'[k].model \in Models
    BY FetchingStep DEF Fetching, Model
  <2> QED
    BY <1>1, <2>1 DEF PromotingAlone, OpAt, Model
<1>2. CASE weight'[m] = 0
  BY <1>2
<1>3. ASSUME op[j].pc # "promote" PROVE weight'[m] = 0
  <2>1. op'[j] # op[j] /\ op'[j].pc = "promote"
    BY <1>1, <1>3
  <2>2. PICK k \in Instances : ModelMoves(k)
    BY Moving
  <2>3. k = j
    BY <2>1, <2>2 DEF ModelMoves
  <2>4. op[j].pc = "appeared" /\ op'[j].model = op[j].model
    BY <2>1, <2>2, <2>3 DEF ModelMoves
  <2>5. UseAppeared(j)
    <3>1. ~InstanceDies(j)
      BY <1>0, <2>1, OpEndsAt DEF InstanceDies
    <3> QED
      BY <2>1, <3>1, <2>4, StepsOfOne DEF OpAt, ModelStep, OwnerStep, Fetch, BeginOp, Redownload, RemoveReplaced, FindWeight,
       RemoveStalePart, OpenPart, WriteChunk, VerifyDigest, ValidatePart, PromotePart, ValidateWeight, CleanupPart, Downloaded,
       RemoveWeight, RemoveObsolete, Prepare, RemoveModel, DeleteOutdated, StartSession
  <2>6. \A pc \in Pcs : OpGoes(j, pc) => op'[j].pc = pc
    BY <1>0, OpGoesTo
  <2>7. "cleanup" \in Pcs /\ "done" \in Pcs
    BY DEF Pcs
  <2>8. weight' = [weight EXCEPT ![Model(j)] = 0]
    BY <2>1, <2>5, <2>6, <2>7 DEF UseAppeared, OpFails
  <2> QED
    BY <1>0, <1>1, <2>4, <2>8 DEF Model
<1>4. CASE op[j].pc = "promote" /\ weight'[m] # 0
  <2>1. op'[j] = op[j]
    <3>1. PICK k \in Instances : ModelMoves(k)
      BY Moving
    <3> QED
      BY <1>1, <1>4, <3>1 DEF ModelMoves
  <2>2. OpAt(j, "promote") /\ Model(j) = m
    BY <1>1, <1>4, <2>1 DEF OpAt, Model
  <2>3. PICK k \in Instances : ModelMoves(k)
    BY Moving
  <2>4. \A k2 \in Instances : op'[k2].pc \in {"validate", "write"} => k2 # j
    BY <1>1
  <2>5. \A k2 \in Instances : k2 = i \/ k2 = j
    BY <1>1 DEF Instances
  <2>6. CASE weight'[m] = weight[m]
    <3>1. ASSUME op'[i].model = m, op'[i].pc \in BeforePromotion PROVE FALSE
      <4>1. CASE op[i].pc \in BeforePromotion /\ op[i].model = m
        BY <1>0, <1>1, <1>4, <2>2, <2>6, <4>1 DEF PromotingAlone, OpAt, Model
      <4>2. CASE ~(op[i].pc \in BeforePromotion /\ op[i].model = m)
        <5>1. op'[i] # op[i]
          BY <3>1, <4>2
        <5>2. op[i].model = m /\ <<op[i].pc, op'[i].pc>> = <<"find", "stale">>
          BY <2>3, <3>1, <4>2, <5>1 DEF ModelMoves, BeforePromotion
        <5>3. FindWeight(i)
          BY <3>1, <5>1, <5>2, StepsOfOne, OpEndsAt, <1>0 DEF OpAt, ModelStep, OwnerStep, Fetch, BeginOp, Redownload, RemoveReplaced,
             RemoveStalePart, OpenPart, WriteChunk, VerifyDigest, ValidatePart, UseAppeared, PromotePart, ValidateWeight, CleanupPart,
             Downloaded, RemoveWeight, RemoveObsolete, InstanceDies, Prepare, RemoveModel, DeleteOutdated, StartSession
        <5>4. \A pc \in Pcs : OpGoes(i, pc) => op'[i].pc = pc
          BY <1>0, OpGoesTo
        <5>5. OpEnds(i) => op'[i].pc = "idle"
          BY <1>0, OpEndsAt
        <5>6. "done" \in Pcs
          BY DEF Pcs
        <5>7. weight' = [weight EXCEPT ![Model(i)] = 0]
          BY <5>2, <5>3, <5>4, <5>5, <5>6 DEF FindWeight
        <5> QED
          BY <1>0, <1>4, <5>2, <5>7 DEF Model
      <4> QED
        BY <4>1, <4>2
    <3>2. partial[m] \in {0, op[j].own}
      BY <1>0, <1>1, <1>4, <2>2, <2>6 DEF PromotingAlone
    <3>3. ~(OpAt(i, "open") /\ Model(i) = m)
      BY <1>0, <1>1, <1>4, <2>2, <2>6 DEF PromotingAlone, OpAt, BeforePromotion
    <3>4. partial'[m] = partial[m] \/ partial'[m] = 0
      BY <2>4, <2>5, <3>3, PartMoves
    <3> QED
      BY <2>1, <3>1, <3>2, <3>4
  <2>7. ASSUME NEW k2 \in Instances, partial'[m] = 0, op'[k2].pc = "validate"
        PROVE  partial'[m] = 0 /\ op'[i].pc = "validate"
    BY <2>4, <2>5, <2>7
  <2> QED
    BY <1>4, <2>6, <2>7, WeightMoves DEF BeforePromotion
<1> QED
  BY <1>2, <1>3, <1>4

\* A whole weight goes from its name only by what is noted in taken.
LEMMA WeightLost ==
    ASSUME ModelStoreInv, ModelNext, NEW m \in Models, WholeWeight(weight[m]), weight'[m] = 0
    PROVE  m \in taken'
<1>0. /\ ModelTypeOK /\ weight \in [Models -> Inodes] /\ weight'[m] # weight[m]
  BY DEF ModelStoreInv, ModelTypeOK, WholeWeight
<1>1. ASSUME NEW i \in Instances, FindWeight(i) \/ UseAppeared(i) PROVE FALSE
  BY <1>0, <1>1 DEF FindWeight, UseAppeared
<1>2. ASSUME NEW i \in Instances, PromotePart(i) PROVE FALSE
  BY <1>0, <1>2 DEF PromotePart
<1>3. ASSUME NEW i \in Instances, ValidateWeight(i) \/ RemoveWeight(i) PROVE m \in taken'
  BY <1>0, <1>3 DEF ValidateWeight, RemoveWeight
<1> QED
  BY <1>0, <1>1, <1>2, <1>3 DEF ModelNext, ModelStep, Fetch, BeginOp, Redownload, RemoveReplaced, RemoveStalePart, OpenPart, WriteChunk,
     VerifyDigest, ValidatePart, CleanupPart, Downloaded,
     RemoveObsolete, InstanceDies, Prepare, RemoveModel, DeleteOutdated, StartSession, ChildDies, CloseManager, Stays

LEMMA TakenStays == ASSUME ModelNext PROVE taken \subseteq taken'
BY DEF ModelNext, ModelStep, Fetch, BeginOp, Redownload, RemoveReplaced, FindWeight, RemoveStalePart, OpenPart, WriteChunk,
     VerifyDigest, ValidatePart, UseAppeared, PromotePart, ValidateWeight, CleanupPart, Downloaded, RemoveWeight,
     RemoveObsolete, InstanceDies, Prepare, RemoveModel, DeleteOutdated, StartSession, ChildDies, CloseManager, Stays

LEMMA FoundStep == ASSUME ModelStoreInv, ModelNext PROVE FoundIsThere'
<1>0. /\ FoundIsThere /\ PromotingAlone /\ ModelTypeOK /\ Fetching
      /\ partial \in [Models -> Inodes] /\ weight \in [Models -> Inodes] /\ op \in [Instances -> DownloadOps]
  BY DEF ModelStoreInv, ModelTypeOK, DownloadOps
<1>1. SUFFICES ASSUME NEW i \in Instances, op'[i].pc \in {"done", "fetched"}, NEW m \in Models, op'[i].model = m
               PROVE  WholeWeight(weight[m])' \/ m \in taken'
  <2>1. \A k \in Instances : op'[k].pc \in {"done", "fetched"} => op'[k].model \in Models
    BY FetchingStep DEF Fetching, Model
  <2>2. ASSUME NEW k \in Instances, NEW m \in Models, op'[k].model = m
        PROVE  (WholeWeight(weight[m]) \/ m \in taken)' <=> (WholeWeight(weight[Model(k)]) \/ Model(k) \in taken)'
    BY <2>2 DEF Model
  <2> QED
    BY <1>1, <2>1, <2>2 DEF FoundIsThere
<1>2. CASE op[i].pc \notin {"done", "fetched"}
  <2>1. PICK k \in Instances : ModelMoves(k)
    BY Moving
  <2>2. op'[i] # op[i] /\ k = i
    BY <1>1, <1>2, <2>1 DEF ModelMoves
  <2>3. op[i].pc \in {"find", "appeared", "validate"} /\ op[i].model = m /\ op'[i].pc = "done"
    BY <1>1, <1>2, <2>1, <2>2 DEF ModelMoves
  <2>4. ~InstanceDies(i) /\ ~OpEnds(i) /\ \A pc \in Pcs : OpGoes(i, pc) => op'[i].pc = pc
    BY <1>0, <2>3, OpGoesTo, OpEndsAt DEF InstanceDies
  <2>5. {"stale", "cleanup", "promote"} \subseteq Pcs
    BY DEF Pcs
  <2>6. FindWeight(i) \/ UseAppeared(i) \/ ValidateWeight(i)
    BY <2>2, <2>3, <2>4, StepsOfOne DEF OpAt, ModelStep, OwnerStep, Fetch, BeginOp, Redownload, RemoveReplaced,
       RemoveStalePart, OpenPart, WriteChunk, VerifyDigest, ValidatePart, PromotePart, CleanupPart, Downloaded,
       RemoveWeight, RemoveObsolete, Prepare, RemoveModel, DeleteOutdated, StartSession
  <2>7. WholeWeight(weight[m]) /\ weight' = weight
    <3>1. CASE FindWeight(i) \/ UseAppeared(i)
      BY <2>3, <2>4, <2>5, <3>1 DEF FindWeight, UseAppeared, OpFails, Model
    <3>2. CASE ValidateWeight(i)
      <4>1. weight[m] = op[i].own /\ weight' = weight /\ OpAt(i, "validate")
        BY <2>3, <2>4, <2>5, <3>2 DEF ValidateWeight, OpFails, Model
      <4> QED
        BY <1>0, <4>1 DEF Fetching, OpAt
    <3> QED
      BY <2>6, <3>1, <3>2
  <2> QED
    BY <2>7, WeightStaysWhole
<1>3. CASE op[i].pc \in {"done", "fetched"}
  <2>1. Model(i) = m
    <3>1. PICK k \in Instances : ModelMoves(k)
      BY Moving
    <3> QED
      BY <1>1, <1>3, <3>1 DEF ModelMoves, Model
  <2>2. CASE m \in taken
    BY <2>2, TakenStays
  <2>3. CASE WholeWeight(weight[m]) /\ weight'[m] = weight[m]
    BY <2>3, WeightStaysWhole
  <2>4. CASE WholeWeight(weight[m]) /\ weight'[m] = 0
    BY <2>4, WeightLost
  <2>5. ASSUME WholeWeight(weight[m]), NEW j \in Instances, OpAt(j, "promote"), PromotePart(j), Model(j) = m,
               weight'[m] = partial[m], weight'[m] # 0, op'[j].pc = "validate"
        PROVE  WholeWeight(weight[m])'
    <3>1. i # j /\ weight[m] # 0
      BY <1>3, <2>5 DEF OpAt, WholeWeight
    <3>2. weight'[m] = op[j].own
      BY <1>0, <2>5, <3>1 DEF PromotingAlone
    <3>3. WholeWeight(op[j].own) /\ op[j].own \in Inodes
      BY <1>0, <2>5, OpIsRecord DEF Fetching, OpAt
    <3> QED
      BY <2>5, <3>2, <3>3, WholeStays, TakenIsNotFresh DEF WholeWeight
  <2> QED
    BY <1>0, <1>3, <2>1, <2>2, <2>3, <2>4, <2>5, WeightMoves DEF FoundIsThere
<1> QED
  BY <1>2, <1>3

LEMMA SessionStep == ASSUME ModelStoreInv, ModelNext PROVE SessionInv'
<1>0. /\ SessionInv /\ ModelTypeOK /\ Fetching /\ op \in [Instances -> DownloadOps] /\ Owner \in Instances
      /\ NoModel \notin Models
      /\ session \in [client : Models \cup {NoModel}, running : BOOLEAN,
                    active : Models \cup {NoModel}, cleanup : SUBSET Models,
                    pending : Models \cup {NoModel}, closed : BOOLEAN]
  BY ModelStoreAssumption DEF ModelStoreInv, ModelTypeOK, DownloadOps, Instances
<1> DEFINE Rest == /\ ActiveIsWhatRuns
                   /\ session.active # NoModel => session.pending = NoModel
                   /\ session.pending = NoModel => session.cleanup = {}
                   /\ session.client # NoModel => session.active # NoModel \/ session.pending # NoModel
           Fits == /\ op[Owner].kind = "prepare" => session.pending = NoModel
                   /\ op[Owner].kind = "remove" => Model(Owner) \notin session.cleanup
<1>1. Rest /\ Fits
  BY <1>0 DEF SessionInv
<1>2. SUFFICES Rest' /\ Fits'
  BY DEF SessionInv
<1>3. CASE UNCHANGED session
  <2>1. Rest'
    BY <1>1, <1>3 DEF ActiveIsWhatRuns
  <2>2. ASSUME op'[Owner].kind = op[Owner].kind, op'[Owner].model = op[Owner].model PROVE Fits'
    BY <1>1, <1>3, <2>2 DEF Model
  <2>3. ASSUME op'[Owner].kind \notin {"prepare", "remove"} PROVE Fits'
    BY <2>3
  <2>4. ASSUME NEW i \in Instances, NEW kind, NEW m, NEW pc, BeginOp(i, kind, m, pc) PROVE Fits'
    <3>1. CASE i # Owner
      <4>1. op'[Owner] = op[Owner]
        BY <1>0, <2>4, <3>1 DEF BeginOp
      <4> QED
        BY <2>2, <4>1
    <3>2. CASE i = Owner
      <4>1. op'[Owner] = [NoOp EXCEPT !.kind = kind, !.model = m, !.pc = pc]
        BY <1>0, <2>4, <3>2 DEF BeginOp
      <4>2. op'[Owner].kind = kind /\ op'[Owner].model = m
        BY <4>1 DEF NoOp
      <4>3. ~Refused(Owner, kind, m)
        BY <2>4, <3>2 DEF BeginOp
      <4> QED
        BY <1>3, <4>2, <4>3 DEF Refused, Model
    <3> QED
      BY <3>1, <3>2
  <2>5. ASSUME NEW i \in Instances, NEW pc, OpGoes(i, pc) PROVE Fits'
    <3>1. op'[Owner].kind = op[Owner].kind /\ op'[Owner].model = op[Owner].model
      BY <1>0, <2>5 DEF OpGoes, DownloadOps
    <3> QED
      BY <2>2, <3>1
  <2>6. ASSUME NEW i \in Instances, OpEnds(i) PROVE Fits'
    <3>1. op'[Owner] = op[Owner] \/ op'[Owner].kind = "none"
      BY <1>0, <2>6, OpEndsAt
    <3> QED
      BY <2>2, <2>3, <3>1
  <2>7. ASSUME NEW i \in Instances, NEW left \in SUBSET Models, NextInBatch(i, left) PROVE Fits'
    <3>1. op'[Owner] = op[Owner] \/ op'[Owner].kind \in {"none", "redownload"}
      BY <1>0, <2>7, BatchGoesOn
    <3> QED
      BY <2>2, <2>3, <3>1
  <2>8. ASSUME NEW i \in Instances, OpenPart(i) PROVE Fits'
    <3>1. ASSUME NEW f, op' = [op EXCEPT ![i].pc = "write", ![i].own = f]
          PROVE  op'[Owner].kind = op[Owner].kind /\ op'[Owner].model = op[Owner].model
      BY <1>0, <3>1 DEF DownloadOps
    <3> QED
      BY <2>2, <2>5, <2>8, <3>1 DEF OpenPart, OpFails
  <2>9. UNCHANGED op => Fits'
    BY <2>2
  <2>10. ASSUME NEW i \in Instances, ModelStep(i) PROVE Fits'
    <3>1. CASE Fetch(i) \/ Redownload(i) \/ RemoveReplaced(i)
      <4>1. Reach(i) \subseteq Models /\ op[i].rest \subseteq Models
        BY <1>0, ModelStoreAssumption DEF Reach, DownloadOps
      <4> QED
        BY <2>4, <2>6, <2>7, <3>1, <4>1 DEF Fetch, Redownload, RemoveReplaced
    <3>2. CASE \/ FindWeight(i) \/ RemoveStalePart(i) \/ WriteChunk(i) \/ VerifyDigest(i) \/ ValidatePart(i)
               \/ UseAppeared(i) \/ PromotePart(i) \/ ValidateWeight(i)
      BY <2>5, <2>6, <2>9, <3>2 DEF FindWeight, RemoveStalePart, WriteChunk, VerifyDigest, ValidatePart, UseAppeared,
         PromotePart, ValidateWeight, OpFails
    <3>3. CASE CleanupPart(i) \/ Downloaded(i) \/ RemoveWeight(i) \/ RemoveObsolete(i) \/ InstanceDies(i)
      BY <2>5, <2>6, <3>3 DEF CleanupPart, Downloaded, RemoveWeight, RemoveObsolete, InstanceDies
    <3> QED
      BY <2>8, <2>10, <3>1, <3>2, <3>3 DEF ModelStep
  <2>11. ASSUME OwnerStep PROVE Fits'
    BY <1>0, <2>4, <2>6, <2>11 DEF OwnerStep, Prepare, RemoveModel, DeleteOutdated, StartSession
  <2> QED
    BY <2>1, <2>9, <2>10, <2>11 DEF ModelNext, OwnerStep, ChildDies, CloseManager
<1>4. CASE StartSession
  <2> DEFINE m == Model(Owner)
  <2>1. m \in Models /\ session.pending = NoModel /\ session.cleanup = {}
    BY <1>0, <1>1, <1>4 DEF StartSession, Fetching, OpAt
  <2>2. Fits'
    BY <1>0, <1>4, OpEndsAt DEF StartSession
  <2>3. CASE session' = [session EXCEPT !.client = m, !.running = TRUE, !.active = m]
    <3>1. Rest'
      BY <1>0, <2>1, <2>3 DEF ActiveIsWhatRuns
    <3> QED
      BY <2>2, <3>1
  <2>4. CASE session' = NoSession
    <3>1. Rest'
      BY <1>0, <2>1, <2>4 DEF ActiveIsWhatRuns, NoSession
    <3> QED
      BY <2>2, <3>1
  <2>5. CASE session' = [NoSession EXCEPT !.client = m, !.cleanup = {m}, !.pending = m]
    <3>1. Rest'
      BY <1>0, <2>1, <2>5 DEF ActiveIsWhatRuns, NoSession
    <3> QED
      BY <2>2, <3>1
  <2>6. CASE session.client # NoModel /\ session' = [NoSession EXCEPT !.client = session.client,
                 !.running = session.running, !.cleanup = {m, session.active}, !.pending = session.active]
    <3>1. session.active # NoModel /\ session.active = session.client
      BY <1>1, <2>1, <2>6 DEF ActiveIsWhatRuns
    <3>2. Rest'
      BY <1>0, <2>1, <2>6, <3>1 DEF ActiveIsWhatRuns, NoSession
    <3> QED
      BY <2>2, <3>2
  <2> QED
    BY <1>4, <2>3, <2>4, <2>5, <2>6 DEF StartSession, FailSession
<1>5. CASE ChildDies
  <2>1. /\ session'.client = session.client /\ session'.active = session.active /\ session'.pending = session.pending
        /\ session'.cleanup = session.cleanup /\ session'.running = FALSE /\ op' = op
    BY <1>0, <1>5 DEF ChildDies
  <2> QED
    BY <1>1, <2>1 DEF ActiveIsWhatRuns, Model
<1>6. CASE CloseManager
  <2>1. op[Owner].kind \notin {"prepare", "remove"} /\ op' = op
    BY <1>0, <1>6 DEF CloseManager, Fetching
  <2>2. CASE session' = [NoSession EXCEPT !.closed = TRUE]
    <3>1. session'.client = NoModel /\ session'.active = NoModel /\ session'.pending = NoModel
          /\ session'.cleanup = {} /\ session'.running = FALSE
      BY <2>2 DEF NoSession
    <3> QED
      BY <2>1, <3>1 DEF ActiveIsWhatRuns
  <2>3. CASE session' # [NoSession EXCEPT !.closed = TRUE]
    <3> DEFINE left == IF session.pending # NoModel THEN session.pending ELSE session.active
               held == IF session.pending # NoModel THEN session.cleanup ELSE {session.active}
    <3>1. session' = [NoSession EXCEPT !.closed = TRUE, !.client = session.client,
                !.running = session.running, !.pending = left, !.cleanup = held]
          /\ session.client # NoModel
      BY <1>6, <2>3 DEF CloseManager
    <3>2. left # NoModel /\ (session.running => session.client \in held)
      BY <1>1, <3>1 DEF ActiveIsWhatRuns
    <3> HIDE DEF left, held
    <3>3. session'.client = session.client /\ session'.active = NoModel /\ session'.pending = left
          /\ session'.cleanup = held /\ session'.running = session.running
      BY <3>1 DEF NoSession
    <3> QED
      BY <2>1, <3>2, <3>3 DEF ActiveIsWhatRuns
  <2> QED
    BY <2>2, <2>3
<1>7. ASSUME NEW i \in Instances, InstanceDies(i), session' = NoSession, i = Owner PROVE Rest' /\ Fits'
  <2>1. op'[Owner].kind = "none"
    BY <1>0, <1>7, OpEndsAt DEF InstanceDies
  <2>2. session'.client = NoModel /\ session'.active = NoModel /\ session'.pending = NoModel
          /\ session'.cleanup = {} /\ session'.running = FALSE
    BY <1>7 DEF NoSession
  <2> QED
    BY <2>1, <2>2 DEF ActiveIsWhatRuns
<1> QED
  BY <1>3, <1>4, <1>5, <1>6, <1>7 DEF ModelNext, ModelStep, Fetch, BeginOp, Redownload, RemoveReplaced, FindWeight, RemoveStalePart,
     OpenPart, WriteChunk, VerifyDigest, ValidatePart, UseAppeared, PromotePart, ValidateWeight, CleanupPart, Downloaded,
     RemoveWeight, RemoveObsolete, InstanceDies, Prepare, RemoveModel, DeleteOutdated, Stays

LEMMA ModelStoreStart == ASSUME ModelInit PROVE ModelStoreInv
<1>1. /\ \A i \in Instances : op[i] = NoOp /\ ops[i] = 0
      /\ \A m \in Models : partial[m] = 0
      /\ session = NoSession /\ torn = FALSE /\ taken = {} /\ stuck = {}
  BY DEF ModelInit
<1>2. PICK there \in {0, 1}, damaged \in BOOLEAN :
        /\ files = [f \in 1..MaxFiles |-> [got |-> IF f = 1 THEN Size ELSE 0, good |-> ~damaged]]
        /\ weight = [m \in Models |-> IF m = Shared THEN there ELSE 0]
  BY DEF ModelInit
<1>3. /\ weight \in [Models -> Inodes] /\ partial \in [Models -> Inodes] /\ outdated \subseteq Models
      /\ \A m \in Models : weight[m] \in {0, 1}
  BY <1>2, ModelStoreAssumption DEF ModelInit, Inodes
<1>4. files \in [1..MaxFiles -> Content]
  BY <1>2, ModelStoreAssumption DEF Content
<1>5. /\ op \in [Instances -> [kind : Kinds \cup {"none"}, model : Models \cup {NoModel},
                             pc : Pcs, own : Inodes, rest : SUBSET Models]]
      /\ ops \in [Instances -> Nat] /\ \A i \in Instances : ops[i] \in 0..MaxOps[i]
  BY ModelStoreAssumption DEF ModelInit, NoOp, Pcs, Inodes, Instances
<1>6. ModelTypeOK
  BY <1>1, <1>3, <1>4, <1>5 DEF ModelTypeOK, NoSession
<1>7. NamedWeightsAreVerified
  BY <1>3 DEF NamedWeightsAreVerified
<1>8. Fetching /\ PartsAreTheirs /\ PromotingAlone /\ FoundIsThere
  BY <1>1 DEF Fetching, PartsAreTheirs, PromotingAlone, FoundIsThere, NoOp, OpAt
<1>9. SessionInv
  BY <1>1 DEF SessionInv, ActiveIsWhatRuns, NoSession, NoOp, Instances
<1> QED
  BY <1>5, <1>6, <1>7, <1>8, <1>9 DEF ModelStoreInv

LEMMA ModelStoreSteps == ModelStoreInv /\ [ModelNext]_modelVars => ModelStoreInv'
<1>1. ASSUME ModelStoreInv, ModelNext PROVE ModelStoreInv'
  BY <1>1, ModelTyping, FetchingStep, WeightsStep, PartsStep, PromotingStep, FoundStep, SessionStep DEF ModelStoreInv
<1>2. ASSUME ModelStoreInv, UNCHANGED modelVars PROVE ModelStoreInv'
  <2> USE <1>2 DEF modelVars
  <2>1. ModelTypeOK' /\ (ops \in [Instances -> Nat])' /\ NamedWeightsAreVerified'
    BY DEF ModelStoreInv, ModelTypeOK, NamedWeightsAreVerified, WholeWeight, OpAt, Model
  <2>2. Fetching' /\ PartsAreTheirs' /\ PromotingAlone' /\ FoundIsThere'
    BY DEF ModelStoreInv, Fetching, PartsAreTheirs, PromotingAlone, FoundIsThere, WholeWeight, OpAt, Model
  <2>3. SessionInv'
    BY DEF ModelStoreInv, SessionInv, ActiveIsWhatRuns, Model
  <2> QED
    BY <2>1, <2>2, <2>3 DEF ModelStoreInv
<1> QED
  BY <1>1, <1>2

\* An obsolete copy goes at the end of a replacement that is there, or with all of them.
LEMMA OldCopyStep ==
    ASSUME ModelStoreInv, ModelNext, NEW m \in Models, NEW i \in Instances,
           m \in outdated, m \notin outdated', op[i].pc = "fetched", op'[i].pc # "fetched"
    PROVE  WholeWeight(weight[m]) \/ m \in taken
<1>1. op'[i] # op[i]
  OBVIOUS
<1>2. RemoveReplaced(i) \/ InstanceDies(i)
  BY <1>1, StepsOfOne DEF OpAt, ModelStep, OwnerStep, Fetch, BeginOp, Redownload, FindWeight, RemoveStalePart, OpenPart,
     WriteChunk, VerifyDigest, ValidatePart, UseAppeared, PromotePart, ValidateWeight, CleanupPart, Downloaded,
     RemoveWeight, RemoveObsolete, Prepare, RemoveModel, DeleteOutdated, StartSession
<1>3. Model(i) = m
  BY <1>2 DEF RemoveReplaced, InstanceDies
<1> QED
  BY <1>3 DEF ModelStoreInv, FoundIsThere

\* The weights on disk, the batch over the obsolete ones and the one session
\* agree, for any number of models, files and operations and with any removal
\* failing: a file at a weight's name was verified, or the download that found
\* it could not take it away; a part is left only by a removal that failed; the
\* active model is what runs; what an unclosed client may use is not removed;
\* and an obsolete copy goes last.
THEOREM WeightsAndSessionAgree == ModelSpec => ModelStoreCorrect
<1>1. ModelStoreInv => ModelTypeOK /\ NamedWeightsAreVerified /\ NoPartIsLeft /\ ActiveIsWhatRuns
  <2>1. ASSUME PartsAreTheirs PROVE NoPartIsLeft
    BY <2>1 DEF PartsAreTheirs, NoPartIsLeft, HasPart
  <2> QED
    BY <2>1 DEF ModelStoreInv, SessionInv
<1>2. ModelSpec => []ModelStoreInv
  BY ModelStoreStart, ModelStoreSteps, PTL DEF ModelSpec
<1>3. ModelStoreInv /\ [ModelNext]_modelVars =>
        [\A m \in session.cleanup : op[Owner].kind = "remove" /\ Model(Owner) = m => weight'[m] = weight[m]]_modelVars
  BY DEF ModelStoreInv, SessionInv
<1>4. ModelStoreInv /\ [ModelNext]_modelVars =>
        [\A m \in Models, i \in Instances :
            m \in outdated /\ m \notin outdated' /\ op[i].pc = "fetched" /\ op'[i].pc # "fetched" =>
                WholeWeight(weight[m]) \/ m \in taken]_modelVars
  BY OldCopyStep
<1>5. ModelSpec => PendingWeightsStay
  BY <1>2, <1>3, PTL DEF ModelSpec, PendingWeightsStay
<1>6. ModelSpec => OldCopyOutlivesDownload
  BY <1>2, <1>4, PTL DEF ModelSpec, OldCopyOutlivesDownload
<1> QED
  BY <1>1, <1>2, <1>5, <1>6, PTL DEF ModelStoreCorrect

-----------------------------------------------------------------------------
(* OutputPublication *)

NodeOrNone == OutputNodes \cup {NoValue}
AnyBytes == Outputs \cup {NoValue, TornBytes} \cup ({"ANCHOR"} \X Nat \X OutputNodes)
KeptOutputs == [node : OutputNodes, bytes : Outputs]

BeforeTransaction == {"OPEN_LOCK", "TAKE_LOCK", "MAKE_ANCHOR", "WRITE_ANCHOR", "ACQUIRED"}
Recovering == {"RECOVERY", "RECOVERY_COPY", "RECOVERY_STAGED", "RECOVERED"}
Shadowing == {"SHADOW", "SHADOW_COPY", "SHADOW_STAGED", "SHADOWED"}
Staging == {"STAGE", "STAGE_COPY", "STAGE_FILLED", "STAGED"}
PreCommit == Recovering \cup Shadowing \cup Staging
Transaction == PreCommit \cup {"COMMITTED"} \cup Restoring
PublicationSteps == {"IDLE", "CLOSE"} \cup BeforeTransaction \cup Transaction

Publications ==
    [job : 0..MaxPublications, replace : BOOLEAN, lock : NodeOrNone, anchor : NodeOrNone,
     generation : Nat, previous : KeptOutputs \cup {NoValue}, recovery : NodeOrNone, slot : NodeOrNone,
     tries : 0..(RestoreAttempts - 1), outcome : {NoValue, "PUBLISHED", "RAISED", "ROLLED_BACK", "CATASTROPHE"}]

PublicationTyped ==
    /\ PublicationTypeOK
    /\ bytes \in [OutputNodes -> AnyBytes] /\ generation \in Nat
    /\ step \in [Writers -> PublicationSteps] /\ disturbed \subseteq Writers
    /\ work \in [Writers -> Publications]
    /\ budget \in [jobs : 0..MaxPublications, user : 0..MaxUserActions, deaths : 0..MaxDeaths]

\* What a writer has at hand at each step.
HasAtStep(w) ==
    /\ step[w] # "IDLE" => work[w].job # 0
    /\ step[w] = "TAKE_LOCK" => work[w].lock # NoValue
    /\ step[w] \in BeforeTransaction => work[w].previous = NoValue
    /\ step[w] # "CLOSE" => work[w].outcome = NoValue
    /\ step[w] \in Recovering \cup Shadowing \cup Restoring => work[w].previous # NoValue
    /\ work[w].previous # NoValue => work[w].replace

\* A writer is in its transaction until it lets go, if it got that far.
InTransaction(w) ==
    \/ step[w] \in Transaction
    \/ step[w] = "CLOSE" /\ (work[w].previous # NoValue \/ work[w].outcome = "PUBLISHED")
HoldsLock(w) == InTransaction(w) \/ step[w] \in {"MAKE_ANCHOR", "WRITE_ANCHOR", "ACQUIRED"}

OneAtATime ==
    \A v, w \in Writers : v # w =>
        /\ ~(InTransaction(v) /\ InTransaction(w))
        /\ ~(step[v] = "WRITE_ANCHOR" /\ step[w] = "WRITE_ANCHOR")

\* The anchor is no other file, and nobody's slot.
AnchorApart ==
    named["ANCHOR"] # NoValue =>
        /\ \A n \in OutputNames : named[n] = named["ANCHOR"] => n = "ANCHOR"
        /\ \A w \in Writers : work[w].slot # named["ANCHOR"]

\* The lock a writer took is its own, and the anchor names it while a
\* transaction lasts, whatever becomes of the directory.
LockStands(w) ==
    /\ HoldsLock(w) => work[w].lock # NoValue /\ flock[work[w].lock] = w
    /\ step[w] = "WRITE_ANCHOR" => Matches("ANCHOR", work[w].anchor, TornBytes)
    /\ InTransaction(w) => Matches("ANCHOR", work[w].anchor, AnchorFor(work[w].generation, work[w].lock))

\* What a rollback renames over the output is a whole one.
RestoreName(w) == RestoreNames[work[w].tries + 1]
RestoreStands(w) ==
    /\ step[w] \in {"RESTORE_COPY", "RESTORE_STAGED"} =>
         work[w].slot # NoValue /\ named[RestoreName(w)] = work[w].slot
    /\ step[w] = "RESTORE_STAGED" => bytes[work[w].slot] \in Outputs

\* As long as the user has not touched the output: until the commit the old
\* output stands,
OutputStands(w) ==
    step[w] \in PreCommit =>
        IF work[w].previous # NoValue THEN OutputCurrent(w) ELSE work[w].replace => named["OUTPUT"] = NoValue

\* from its installation on the recovery is a copy of it,
RecoveryStands(w) ==
    step[w] \in Shadowing \cup Staging \cup {"COMMITTED"} \cup Restoring /\ work[w].previous # NoValue =>
        Matches("RECOVERY", work[w].recovery, work[w].previous.bytes)

\* a slot that is written has no other name,
OnlyAt(x, name) == x # NoValue /\ \A n \in OutputNames : named[n] = x => n = name
SlotStands(w) ==
    /\ step[w] = "STAGE_COPY" => OnlyAt(work[w].slot, "PUBLISH_PENDING")
    /\ step[w] = "RESTORE_COPY" => OnlyAt(work[w].slot, RestoreName(w))
    /\ step[w] = "RESTORE_STAGED" => bytes[work[w].slot] = work[w].previous.bytes

\* after the commit the output is the writer's, or the old one again,
CommitStands(w) ==
    /\ step[w] = "COMMITTED" => named["OUTPUT"] # NoValue /\ bytes[named["OUTPUT"]] = JobBytes(work[w].job)
    /\ step[w] \in Restoring =>
         named["OUTPUT"] # NoValue /\ bytes[named["OUTPUT"]] \in {JobBytes(work[w].job), work[w].previous.bytes}

\* and at the end it is the one the outcome tells of.
EndStands(w) ==
    step[w] = "CLOSE" /\ work[w].outcome # "CATASTROPHE" =>
       /\ work[w].previous # NoValue /\ work[w].outcome # "PUBLISHED" =>
            named["OUTPUT"] # NoValue /\ bytes[named["OUTPUT"]] = work[w].previous.bytes
       /\ work[w].outcome = "PUBLISHED" => Matches("OUTPUT", work[w].slot, JobBytes(work[w].job))

AsTheWriterLeftIt(w) ==
    OutputStands(w) /\ RecoveryStands(w) /\ SlotStands(w) /\ CommitStands(w) /\ EndStands(w)

WriterStands(w) ==
    /\ HasAtStep(w) /\ LockStands(w) /\ RestoreStands(w)
    /\ w \notin disturbed => AsTheWriterLeftIt(w)

PublicationInv ==
    /\ PublicationTyped /\ OutputsAreWhole /\ OneAtATime /\ AnchorApart
    /\ \A w \in Writers : WriterStands(w)

\* The names are apart from one another, and the nodes are no other values.
LEMMA NamesAreApart ==
    /\ {"OUTPUT", "MOVED", "ANCHOR", "RECOVERY", "RECOVERY_PENDING", "SHADOW", "SHADOW_PENDING", "LOCK", "PUBLISH",
        "PUBLISH_PENDING"} \subseteq OutputNames
    /\ \A t \in 0..(RestoreAttempts - 1) :
          /\ RestoreNames[t + 1] \in OutputNames
          /\ RestoreNames[t + 1] \notin {"OUTPUT", "MOVED", "ANCHOR", "RECOVERY", "RECOVERY_PENDING", "SHADOW",
                "SHADOW_PENDING", "LOCK", "PUBLISH", "PUBLISH_PENDING"}
<1>1. \A t \in 0..(RestoreAttempts - 1) : t + 1 \in 1..RestoreAttempts /\ t \in {0, 1, 2, 3}
  BY PublicationConstants
<1>2. \A t \in {0, 1, 2, 3} : RestoreNames[t + 1] \in {"RESTORE_0", "RESTORE_1", "RESTORE_2", "RESTORE_3"}
  BY DEF RestoreNames
<1> QED
  BY <1>1, <1>2 DEF OutputNames, Private

LEMMA ImageIsFinite ==
    ASSUME NEW S, IsFiniteSet(S), NEW T, NEW f \in [S -> T]
    PROVE  IsFiniteSet({f[x] : x \in S}) /\ Cardinality({f[x] : x \in S}) <= Cardinality(S)
<1>1. f \in Surjection(S, {f[x] : x \in S})
  BY DEF Surjection
<1> QED
  BY <1>1, FS_Surjection

LEMMA NamesAreFinite == IsFiniteSet(OutputNames)
<1>1. \A S, x : IsFiniteSet(S) => IsFiniteSet(S \cup {x})
  BY FS_AddElement
<1>2. IsFiniteSet({"OUTPUT", "MOVED", "ANCHOR"})
  <2>1. IsFiniteSet({"OUTPUT"})
    BY FS_Singleton
  <2>2. IsFiniteSet({"OUTPUT"} \cup {"MOVED"})
    BY <1>1, <2>1
  <2>3. IsFiniteSet(({"OUTPUT"} \cup {"MOVED"}) \cup {"ANCHOR"})
    BY <1>1, <2>2
  <2>4. ({"OUTPUT"} \cup {"MOVED"}) \cup {"ANCHOR"} = {"OUTPUT", "MOVED", "ANCHOR"}
    OBVIOUS
  <2> QED
    BY <2>3, <2>4
<1>3. IsFiniteSet({"RECOVERY", "RECOVERY_PENDING", "SHADOW", "SHADOW_PENDING"})
  <2>1. IsFiniteSet({"RECOVERY"} \cup {"RECOVERY_PENDING"})
    BY <1>1, FS_Singleton
  <2>2. IsFiniteSet(({"RECOVERY"} \cup {"RECOVERY_PENDING"}) \cup {"SHADOW"})
    BY <1>1, <2>1
  <2>3. IsFiniteSet((({"RECOVERY"} \cup {"RECOVERY_PENDING"}) \cup {"SHADOW"}) \cup {"SHADOW_PENDING"})
    BY <1>1, <2>2
  <2>4. (({"RECOVERY"} \cup {"RECOVERY_PENDING"}) \cup {"SHADOW"}) \cup {"SHADOW_PENDING"}
        = {"RECOVERY", "RECOVERY_PENDING", "SHADOW", "SHADOW_PENDING"}
    OBVIOUS
  <2> QED
    BY <2>3, <2>4
<1>4. IsFiniteSet(Private)
  <2>1. IsFiniteSet({"LOCK"} \cup {"PUBLISH"})
    BY <1>1, FS_Singleton
  <2>2. IsFiniteSet(({"LOCK"} \cup {"PUBLISH"}) \cup {"PUBLISH_PENDING"})
    BY <1>1, <2>1
  <2>3. ({"LOCK"} \cup {"PUBLISH"}) \cup {"PUBLISH_PENDING"} = Private
    BY DEF Private
  <2> QED
    BY <2>2, <2>3
<1>5. IsFiniteSet({RestoreNames[n] : n \in 1 .. RestoreAttempts})
  <2> DEFINE attempts == 1 .. RestoreAttempts
             places == {RestoreNames[n] : n \in 1 .. RestoreAttempts}
             f == [n \in attempts |-> RestoreNames[n]]
  <2>1. f \in [attempts -> places]
    OBVIOUS
  <2>2. {f[n] : n \in attempts} = places
    OBVIOUS
  <2>3. IsFiniteSet(attempts)
    BY PublicationConstants, FS_Interval
  <2>4. IsFiniteSet({f[n] : n \in attempts})
    <3> HIDE DEF f, attempts, places
    <3> QED
      BY <2>1, <2>3, ImageIsFinite
  <2> QED
    BY <2>2, <2>4
<1>6. IsFiniteSet({"OUTPUT", "MOVED", "ANCHOR"} \cup {"RECOVERY", "RECOVERY_PENDING", "SHADOW", "SHADOW_PENDING"})
  BY <1>2, <1>3, FS_Union
<1>7. IsFiniteSet(({"OUTPUT", "MOVED", "ANCHOR"} \cup {"RECOVERY", "RECOVERY_PENDING", "SHADOW", "SHADOW_PENDING"})
                  \cup Private)
  BY <1>4, <1>6, FS_Union
<1>8. IsFiniteSet((({"OUTPUT", "MOVED", "ANCHOR"} \cup {"RECOVERY", "RECOVERY_PENDING", "SHADOW", "SHADOW_PENDING"})
                  \cup Private) \cup {RestoreNames[n] : n \in 1 .. RestoreAttempts})
  BY <1>5, <1>7, FS_Union
<1>9. (({"OUTPUT", "MOVED", "ANCHOR"} \cup {"RECOVERY", "RECOVERY_PENDING", "SHADOW", "SHADOW_PENDING"})
                  \cup Private) \cup {RestoreNames[n] : n \in 1 .. RestoreAttempts} = OutputNames
  BY DEF OutputNames, Private
<1> QED
  BY <1>8, <1>9

\* LinksTo counts the names of a file.
LEMMA Links ==
    ASSUME NEW x
    PROVE  /\ LinksTo(x) = 0 <=> \A n \in OutputNames : named[n] # x
           /\ LinksTo(x) = 1 => \A m, n \in OutputNames : named[m] = x /\ named[n] = x => m = n
<1> DEFINE names == {n \in OutputNames : named[n] = x}
<1>1. IsFiniteSet(names)
  BY NamesAreFinite, FS_Subset
<1>2. Cardinality(names) = 0 <=> names = {}
  BY <1>1, FS_EmptySet
<1>3. Cardinality(names) = 1 <=> \E n : names = {n}
  BY <1>1, FS_Singleton
<1> QED
  BY <1>2, <1>3 DEF LinksTo

NodesHaveNumbers == OutputNodes \subseteq Nat /\ NoValue \notin OutputNodes
LEMMA Nodes == NodesHaveNumbers /\ NoValue \notin KeptOutputs /\ NoValue \notin Writers
BY NoValueIsNone, PublicationConstants DEF NodesHaveNumbers, KeptOutputs, OutputNodes

\* Names and handles never take up all nodes: a new file finds one.
LEMMA FreshIsFree ==
    ASSUME PublicationTyped
    PROVE  /\ FreshNode \in OutputNodes /\ FreshNode # NoValue
           /\ \A n \in OutputNames : named[n] # FreshNode
           /\ \A w \in Writers : FreshNode \notin HeldNodes(w)
<1> DEFINE free == {x \in OutputNodes : LinksTo(x) = 0 /\ \A w \in Writers : x \notin HeldNodes(w)}
<1>1. free # {}
  <2> DEFINE N == {named[n] : n \in OutputNames}
             Lock == [w \in Writers |-> work[w].lock]
             Anchor == [w \in Writers |-> work[w].anchor]
             Recovery == [w \in Writers |-> work[w].recovery]
             Slot == [w \in Writers |-> work[w].slot]
             Previous == [w \in Writers |-> IF work[w].previous = NoValue THEN NoValue ELSE work[w].previous.node]
             L == {Lock[w] : w \in Writers}
             A == {Anchor[w] : w \in Writers}
             R == {Recovery[w] : w \in Writers}
             S == {Slot[w] : w \in Writers}
             P == {Previous[w] : w \in Writers}
             used == ((((N \cup L) \cup A) \cup R) \cup S) \cup P
  <2>1. SUFFICES ASSUME OutputNodes \subseteq used PROVE FALSE
    <3>1. ASSUME NEW x \in OutputNodes, x \notin used PROVE x \in free
      <4>1. LinksTo(x) = 0
        BY <3>1, Links
      <4>2. ASSUME NEW w \in Writers PROVE x \notin HeldNodes(w)
        BY <3>1 DEF HeldNodes
      <4> QED
        BY <4>1, <4>2
    <3> QED
      BY <2>1, <3>1
  <2>2. IsFiniteSet(N) /\ Cardinality(N) <= Cardinality(OutputNames)
    <3>1. named \in [OutputNames -> OutputNodes \cup {NoValue}]
      BY DEF PublicationTyped, PublicationTypeOK
    <3> QED
      BY <3>1, NamesAreFinite, ImageIsFinite
  <2>3. IsFiniteSet(Writers)
    BY PublicationConstants
  <2>4. IsFiniteSet(L) /\ Cardinality(L) <= Cardinality(Writers)
    <3>1. Lock \in [Writers -> NodeOrNone]
      BY DEF PublicationTyped, Publications
    <3> HIDE DEF Lock
    <3> QED
      BY <2>3, <3>1, ImageIsFinite
  <2>5. IsFiniteSet(A) /\ Cardinality(A) <= Cardinality(Writers)
    <3>1. Anchor \in [Writers -> NodeOrNone]
      BY DEF PublicationTyped, Publications
    <3> HIDE DEF Anchor
    <3> QED
      BY <2>3, <3>1, ImageIsFinite
  <2>6. IsFiniteSet(R) /\ Cardinality(R) <= Cardinality(Writers)
    <3>1. Recovery \in [Writers -> NodeOrNone]
      BY DEF PublicationTyped, Publications
    <3> HIDE DEF Recovery
    <3> QED
      BY <2>3, <3>1, ImageIsFinite
  <2>7. IsFiniteSet(S) /\ Cardinality(S) <= Cardinality(Writers)
    <3>1. Slot \in [Writers -> NodeOrNone]
      BY DEF PublicationTyped, Publications
    <3> HIDE DEF Slot
    <3> QED
      BY <2>3, <3>1, ImageIsFinite
  <2>8. IsFiniteSet(P) /\ Cardinality(P) <= Cardinality(Writers)
    <3>1. Previous \in [Writers -> NodeOrNone]
      BY DEF PublicationTyped, Publications, KeptOutputs, NodeOrNone
    <3> HIDE DEF Previous
    <3> QED
      BY <2>3, <3>1, ImageIsFinite
  <2> HIDE DEF N, L, A, R, S, P
  <2>9. ASSUME NEW X, NEW Y, IsFiniteSet(X), IsFiniteSet(Y)
        PROVE  IsFiniteSet(X \cup Y) /\ Cardinality(X \cup Y) \in Nat
               /\ Cardinality(X \cup Y) <= Cardinality(X) + Cardinality(Y)
    <3>1. IsFiniteSet(X \cap Y)
      BY <2>9, FS_Intersection
    <3>2. Cardinality(X) \in Nat /\ Cardinality(Y) \in Nat /\ Cardinality(X \cap Y) \in Nat
      BY <2>9, <3>1, FS_CardinalityType
    <3>3. /\ IsFiniteSet(X \cup Y)
          /\ Cardinality(X \cup Y) = Cardinality(X) + Cardinality(Y) - Cardinality(X \cap Y)
      BY <2>9, FS_Union
    <3>4. Cardinality(X \cup Y) \in Nat
      BY <3>3, FS_CardinalityType
    <3> QED
      BY <3>2, <3>3, <3>4
  <2>10. /\ Cardinality(N) \in Nat /\ Cardinality(L) \in Nat /\ Cardinality(A) \in Nat /\ Cardinality(R) \in Nat
         /\ Cardinality(S) \in Nat /\ Cardinality(P) \in Nat
         /\ Cardinality(OutputNames) \in Nat /\ Cardinality(Writers) \in Nat
    BY <2>2, <2>3, <2>4, <2>5, <2>6, <2>7, <2>8, NamesAreFinite, FS_CardinalityType
  <2> DEFINE U1 == N \cup L
             U2 == U1 \cup A
             U3 == U2 \cup R
             U4 == U3 \cup S
  <2>11. IsFiniteSet(U1) /\ Cardinality(U1) \in Nat /\ Cardinality(U1) <= Cardinality(N) + Cardinality(L)
    BY <2>2, <2>4, <2>9
  <2>12. used = U4 \cup P
    OBVIOUS
  <2> HIDE DEF U1
  <2>13. IsFiniteSet(U2) /\ Cardinality(U2) \in Nat /\ Cardinality(U2) <= Cardinality(U1) + Cardinality(A)
    BY <2>5, <2>9, <2>11
  <2> HIDE DEF U2
  <2>14. IsFiniteSet(U3) /\ Cardinality(U3) \in Nat /\ Cardinality(U3) <= Cardinality(U2) + Cardinality(R)
    BY <2>6, <2>9, <2>13
  <2> HIDE DEF U3
  <2>15. IsFiniteSet(U4) /\ Cardinality(U4) \in Nat /\ Cardinality(U4) <= Cardinality(U3) + Cardinality(S)
    BY <2>7, <2>9, <2>14
  <2> HIDE DEF U4
  <2>16. IsFiniteSet(used) /\ Cardinality(used) \in Nat /\ Cardinality(used) <= Cardinality(U4) + Cardinality(P)
    BY <2>8, <2>9, <2>12, <2>15
  <2> HIDE DEF used
  <2>17. Cardinality(OutputNodes) <= Cardinality(used)
    BY <2>1, <2>16, FS_Subset
  <2>18. Cardinality(OutputNodes) = Cardinality(OutputNames) + 5 * Cardinality(Writers) + 1
    <3> DEFINE top == Cardinality(OutputNames) + 5 * Cardinality(Writers) + 1
    <3>1. top \in Int /\ 1 \in Int /\ ~(1 > top)
      BY <2>10
    <3>2. Cardinality(1..top) = top - 1 + 1
      BY <3>1, FS_Interval
    <3> QED
      BY <3>1, <3>2 DEF OutputNodes
  <2> QED
    BY <2>2, <2>4, <2>5, <2>6, <2>7, <2>8, <2>10, <2>11, <2>13, <2>14, <2>15, <2>16, <2>17, <2>18
<1>2. free \subseteq Nat
  BY DEF OutputNodes
<1>3. PICK n \in free : \A k \in free : <<k, n>> \notin OpToRel(<, Nat)
  BY <1>1, <1>2, WFMin, NatLessThanWellFounded
<1>4. \A k \in free : n <= k
  <2>1. n \in Nat /\ \A k \in free : k \in Nat /\ ~(k < n)
    BY <1>2, <1>3 DEF OpToRel
  <2> QED
    BY <2>1
<1>5. FreshNode \in free
  BY <1>4 DEF FreshNode
<1> QED
  BY <1>5, Links, Nodes DEF NodesHaveNumbers

\* What a writer notes leaves the rest of what it holds, and what others do.
OnlyTheWorkOf(w) ==
    /\ work' \in [Writers -> Publications]
    /\ \A v \in Writers \ {w} : work'[v] = work[v]
SameBegin(w) ==
    /\ work'[w].job = work[w].job /\ work'[w].replace = work[w].replace
    /\ work'[w].generation = work[w].generation
SameLock(w) == work'[w].lock = work[w].lock /\ work'[w].anchor = work[w].anchor
SamePrevious(w) == work'[w].previous = work[w].previous
SameRecovery(w) == work'[w].recovery = work[w].recovery
SameSlot(w) == work'[w].slot = work[w].slot
SameEnd(w) == work'[w].tries = work[w].tries /\ work'[w].outcome = work[w].outcome

LEMMA Begins ==
    ASSUME PublicationTyped, NEW w \in Writers, NEW replace \in BOOLEAN, BeginPublication(w, replace)
    PROVE  /\ OnlyTheWorkOf(w) /\ work'[w].job # 0 /\ work'[w].replace = replace
           /\ work'[w].lock = NoValue /\ work'[w].anchor = NoValue /\ work'[w].previous = NoValue
           /\ work'[w].slot = NoValue /\ work'[w].outcome = NoValue
<1>1. work \in [Writers -> Publications] /\ generation \in Nat /\ budget.jobs \in 0..MaxPublications
      /\ MaxPublications \in Nat /\ RestoreAttempts \in 1..4
  BY PublicationConstants DEF PublicationTyped
<1>2. budget.jobs + 1 \in 1..MaxPublications
  BY <1>1 DEF BeginPublication
<1>3. Idle \in Publications
  BY <1>1 DEF Idle, Publications, NodeOrNone
<1>a. 1..MaxPublications \subseteq 0..MaxPublications
  BY <1>1
<1>b. \A x \in 0..MaxPublications, g \in Nat, o \in Publications :
         [o EXCEPT !.job = x, !.replace = replace, !.generation = g] \in Publications
  BY <1>1 DEF Publications
<1> DEFINE first == [Idle EXCEPT !.job = budget.jobs + 1, !.replace = replace, !.generation = generation]
<1>4. first \in Publications
  <2> HIDE DEF first
  <2>1. \A x \in 0..MaxPublications : [Idle EXCEPT !.job = x, !.replace = replace, !.generation = generation] \in Publications
    BY <1>1, <1>3, <1>b
  <2>2. budget.jobs + 1 \in 0..MaxPublications
    BY <1>2, <1>a
  <2> QED
    BY <2>1, <2>2 DEF first
<1>5. /\ first.job = budget.jobs + 1 /\ first.replace = replace /\ first.lock = NoValue /\ first.anchor = NoValue
      /\ first.previous = NoValue /\ first.slot = NoValue /\ first.outcome = NoValue
  BY DEF Idle
<1>6. work' = [work EXCEPT ![w] = first]
  BY DEF BeginPublication
<1> HIDE DEF first
<1> QED
  BY <1>1, <1>2, <1>4, <1>5, <1>6 DEF OnlyTheWorkOf

LEMMA Notes ==
    ASSUME PublicationTyped, NEW w \in Writers, NEW x
    PROVE  /\ Holds(w, "anchor", x) /\ x \in NodeOrNone =>
                /\ OnlyTheWorkOf(w) /\ SameBegin(w) /\ SamePrevious(w) /\ SameRecovery(w) /\ SameSlot(w) /\ SameEnd(w)
                /\ work'[w].lock = work[w].lock /\ work'[w].anchor = x
           /\ Holds(w, "previous", x) /\ x \in KeptOutputs =>
                /\ OnlyTheWorkOf(w) /\ SameBegin(w) /\ SameLock(w) /\ SameRecovery(w) /\ SameSlot(w) /\ SameEnd(w)
                /\ work'[w].previous = x
           /\ Holds(w, "recovery", x) /\ x \in NodeOrNone =>
                /\ OnlyTheWorkOf(w) /\ SameBegin(w) /\ SameLock(w) /\ SamePrevious(w) /\ SameSlot(w) /\ SameEnd(w)
                /\ work'[w].recovery = x
           /\ Holds(w, "slot", x) /\ x \in NodeOrNone =>
                /\ OnlyTheWorkOf(w) /\ SameBegin(w) /\ SameLock(w) /\ SamePrevious(w) /\ SameRecovery(w) /\ SameEnd(w)
                /\ work'[w].slot = x
           /\ Holds(w, "tries", x) /\ x \in 0..(RestoreAttempts - 1) =>
                /\ OnlyTheWorkOf(w) /\ SameBegin(w) /\ SameLock(w) /\ SamePrevious(w) /\ SameRecovery(w) /\ SameSlot(w)
                /\ work'[w].tries = x /\ work'[w].outcome = work[w].outcome
           /\ Holds(w, "outcome", x) /\ x \in {"PUBLISHED", "RAISED", "ROLLED_BACK", "CATASTROPHE"} =>
                /\ OnlyTheWorkOf(w) /\ SameBegin(w) /\ SameLock(w) /\ SamePrevious(w) /\ SameRecovery(w) /\ SameSlot(w)
                /\ work'[w].tries = work[w].tries /\ work'[w].outcome = x
<1> USE DEF OnlyTheWorkOf, SameBegin, SameLock, SamePrevious, SameRecovery, SameSlot, SameEnd
<1>1. work \in [Writers -> Publications]
  BY DEF PublicationTyped
<1>2. Holds(w, "anchor", x) => work' = [work EXCEPT ![w].anchor = x]
  BY <1>1 DEF Holds, Publications
<1>3. Holds(w, "previous", x) => work' = [work EXCEPT ![w].previous = x]
  BY <1>1 DEF Holds, Publications
<1>4. Holds(w, "recovery", x) => work' = [work EXCEPT ![w].recovery = x]
  BY <1>1 DEF Holds, Publications
<1>5. Holds(w, "slot", x) => work' = [work EXCEPT ![w].slot = x]
  BY <1>1 DEF Holds, Publications
<1>6. Holds(w, "tries", x) => work' = [work EXCEPT ![w].tries = x]
  BY <1>1 DEF Holds, Publications
<1>7. Holds(w, "outcome", x) => work' = [work EXCEPT ![w].outcome = x]
  BY <1>1 DEF Holds, Publications
<1>8. Holds(w, "anchor", x) /\ x \in NodeOrNone =>
        [work[w] EXCEPT !.anchor = x] \in Publications
  BY <1>1 DEF Publications
<1>9. Holds(w, "previous", x) /\ x \in KeptOutputs => [work[w] EXCEPT !.previous = x] \in Publications
  BY <1>1 DEF Publications
<1>10. Holds(w, "recovery", x) /\ x \in NodeOrNone => [work[w] EXCEPT !.recovery = x] \in Publications
  BY <1>1 DEF Publications
<1>11. Holds(w, "slot", x) /\ x \in NodeOrNone => [work[w] EXCEPT !.slot = x] \in Publications
  BY <1>1 DEF Publications
<1>12. Holds(w, "tries", x) /\ x \in 0..(RestoreAttempts - 1) => [work[w] EXCEPT !.tries = x] \in Publications
  BY <1>1 DEF Publications
<1>13. Holds(w, "outcome", x) /\ x \in {"PUBLISHED", "RAISED", "ROLLED_BACK", "CATASTROPHE"}
        => [work[w] EXCEPT !.outcome = x] \in Publications
  BY <1>1 DEF Publications
<1>14. Holds(w, "anchor", x) /\ x \in NodeOrNone => OnlyTheWorkOf(w) /\ work'[w] = [work[w] EXCEPT !.anchor = x]
  BY <1>1, <1>2, <1>8
<1>15. Holds(w, "previous", x) /\ x \in KeptOutputs => OnlyTheWorkOf(w) /\ work'[w] = [work[w] EXCEPT !.previous = x]
  BY <1>1, <1>3, <1>9
<1>16. Holds(w, "recovery", x) /\ x \in NodeOrNone => OnlyTheWorkOf(w) /\ work'[w] = [work[w] EXCEPT !.recovery = x]
  BY <1>1, <1>4, <1>10
<1>17. Holds(w, "slot", x) /\ x \in NodeOrNone => OnlyTheWorkOf(w) /\ work'[w] = [work[w] EXCEPT !.slot = x]
  BY <1>1, <1>5, <1>11
<1>18. Holds(w, "tries", x) /\ x \in 0..(RestoreAttempts - 1)
        => OnlyTheWorkOf(w) /\ work'[w] = [work[w] EXCEPT !.tries = x]
  BY <1>1, <1>6, <1>12
<1>19. Holds(w, "outcome", x) /\ x \in {"PUBLISHED", "RAISED", "ROLLED_BACK", "CATASTROPHE"}
        => OnlyTheWorkOf(w) /\ work'[w] = [work[w] EXCEPT !.outcome = x]
  BY <1>1, <1>7, <1>13
<1> HIDE DEF OnlyTheWorkOf
<1> QED
  BY <1>1, <1>14, <1>15, <1>16, <1>17, <1>18, <1>19 DEF Publications

LEMMA TypedStep ==
    ASSUME PublicationTyped, NEW w \in Writers, NEW to \in PublicationSteps \ {"IDLE"},
           step' = [step EXCEPT ![w] = to], OnlyTheWorkOf(w),
           named' \in [OutputNames -> NodeOrNone], bytes' \in [OutputNodes -> AnyBytes],
           flock' \in [OutputNodes -> Writers \cup {NoValue}], \A x \in OutputNodes : flock'[x] \in {flock[x], w},
           UNCHANGED <<generation, disturbed>>,
           budget' \in [jobs : 0..MaxPublications, user : 0..MaxUserActions, deaths : 0..MaxDeaths]
    PROVE  PublicationTyped' /\ step'[w] = to /\ \A v \in Writers \ {w} : step'[v] = step[v]
<1>1. PublicationTypeOK' /\ step' \in [Writers -> PublicationSteps]
  BY DEF PublicationTyped, PublicationTypeOK, OnlyTheWorkOf, NodeOrNone
<1> QED
  BY <1>1 DEF PublicationTyped, OnlyTheWorkOf

\* A step of a writer leaves the others what they hold and have locked; the
\* anchor, once made, is written by its maker alone; and outside the
\* transaction nothing that has a name is moved or written.
OtherNames == OutputNames \ {"ANCHOR"}
FrameOf(w) ==
    /\ \A v \in Writers \ {w} : step'[v] = step[v] /\ work'[v] = work[v] /\ (v \in disturbed => v \in disturbed')
    /\ \A v \in Writers \ {w} : flock[work[v].lock] = v /\ work[v].lock # NoValue => flock'[work[v].lock] = v
    /\ named["ANCHOR"] # NoValue =>
         /\ named'["ANCHOR"] = named["ANCHOR"] /\ step'[w] # "WRITE_ANCHOR"
         /\ step[w] # "WRITE_ANCHOR" => bytes'[named["ANCHOR"]] = bytes[named["ANCHOR"]]
    /\ named["ANCHOR"] = NoValue => named'["ANCHOR"] \in {NoValue, FreshNode}
    /\ \A n \in OtherNames : named'[n] \in {NoValue, FreshNode} \/ \E m \in OtherNames : named'[n] = named[m]
    /\ named'["ANCHOR"] = FreshNode => \A n \in OtherNames : named'[n] = named[n]
    /\ \/ work'[w].slot \in {NoValue, work[w].slot} 
       \/ named'["ANCHOR"] # FreshNode /\ work'[w].slot = FreshNode
       \/ \E m \in OtherNames : work'[w].slot = named[m]
CalmOf(w) ==
    /\ \A n \in OutputNames \ {"LOCK", "ANCHOR"} : named'[n] = named[n]
    /\ named'["LOCK"] \in {named["LOCK"], FreshNode}
    /\ \A n \in OtherNames : named[n] # NoValue => bytes'[named[n]] = bytes[named[n]]
NothingLost(w) ==
    w \notin disturbed /\ named["OUTPUT"] # NoValue /\ bytes[named["OUTPUT"]] # JobBytes(work[w].job)
    => \E n \in OutputNames : named'[n] # NoValue /\ bytes'[named'[n]] = bytes[named["OUTPUT"]]

GoodStep(w) ==
    /\ PublicationTyped' /\ OutputsAreWhole' /\ FrameOf(w) /\ (~InTransaction(w) => CalmOf(w))
    /\ WriterStands(w)' /\ NothingLost(w)

LEMMA AnchorStays ==
    ASSUME PublicationInv, NEW w \in Writers, GoodStep(w) PROVE AnchorApart'
<1> SUFFICES ASSUME named'["ANCHOR"] # NoValue
             PROVE  /\ \A n \in OtherNames : named'[n] # named'["ANCHOR"]
                    /\ \A v \in Writers : work'[v].slot # named'["ANCHOR"]
  BY DEF AnchorApart, OtherNames
<1>1. PublicationTyped /\ AnchorApart /\ FrameOf(w) /\ "ANCHOR" \in OutputNames
  BY NamesAreApart DEF PublicationInv, GoodStep
<1>2. /\ FreshNode \in OutputNodes /\ FreshNode # NoValue /\ \A n \in OutputNames : named[n] # FreshNode
      /\ \A v \in Writers : work[v].slot # FreshNode
  BY <1>1, FreshIsFree DEF HeldNodes
<1>3. CASE named["ANCHOR"] # NoValue
  <2>1. named'["ANCHOR"] = named["ANCHOR"]
    BY <1>1, <1>3 DEF FrameOf
  <2>2. \A m \in OtherNames : named[m] # named["ANCHOR"]
    BY <1>1, <1>3 DEF AnchorApart, OtherNames
  <2>3. \A v \in Writers : work[v].slot # named["ANCHOR"]
    BY <1>1, <1>3 DEF AnchorApart
  <2>4. ASSUME NEW n \in OtherNames PROVE named'[n] # named["ANCHOR"]
    BY <1>1, <1>2, <1>3, <2>2 DEF FrameOf
  <2>5. ASSUME NEW v \in Writers PROVE work'[v].slot # named["ANCHOR"]
    BY <1>1, <1>2, <1>3, <2>2, <2>3 DEF FrameOf
  <2> QED
    BY <2>1, <2>4, <2>5
<1>4. CASE named["ANCHOR"] = NoValue
  <2>1. named'["ANCHOR"] = FreshNode
    BY <1>1, <1>4 DEF FrameOf
  <2>2. ASSUME NEW n \in OtherNames PROVE named'[n] # FreshNode
    BY <1>1, <1>2, <2>1 DEF FrameOf, OtherNames
  <2>3. ASSUME NEW v \in Writers PROVE work'[v].slot # FreshNode
    BY <1>1, <1>2, <2>1 DEF FrameOf, OtherNames
  <2> QED
    BY <2>1, <2>2, <2>3
<1> QED
  BY <1>3, <1>4

LEMMA OthersStand ==
    ASSUME PublicationInv, NEW w \in Writers, NEW v \in Writers \ {w}, GoodStep(w)
    PROVE  WriterStands(v)'
<1>1. PublicationTyped /\ AnchorApart /\ FrameOf(w) /\ OneAtATime /\ WriterStands(v) /\ WriterStands(w)
      /\ (~InTransaction(w) => CalmOf(w))
  BY DEF PublicationInv, GoodStep
<1>2. step'[v] = step[v] /\ work'[v] = work[v] /\ (v \in disturbed => v \in disturbed')
  BY <1>1 DEF FrameOf
<1>3. HasAtStep(v)'
  BY <1>1, <1>2 DEF WriterStands, HasAtStep
<1>4. InTransaction(v)' <=> InTransaction(v)
  BY <1>2 DEF InTransaction
<1>5. LockStands(v)'
  <2>1. step[w] = "WRITE_ANCHOR" => ~InTransaction(v) /\ step[v] # "WRITE_ANCHOR"
    <3>1. step[w] = "WRITE_ANCHOR" => bytes[named["ANCHOR"]] = TornBytes
      BY <1>1 DEF WriterStands, LockStands, Matches
    <3>2. InTransaction(v) => bytes[named["ANCHOR"]] = AnchorFor(work[v].generation, work[v].lock)
      BY <1>1 DEF WriterStands, LockStands, Matches
    <3>3. TornBytes # AnchorFor(work[v].generation, work[v].lock)
      BY DEF TornBytes, AnchorFor
    <3> QED
      BY <1>1, <3>1, <3>2, <3>3 DEF OneAtATime
  <2>2. ASSUME NEW b, Matches("ANCHOR", work[v].anchor, b), step[w] # "WRITE_ANCHOR"
        PROVE  Matches("ANCHOR", work[v].anchor, b)'
    BY <1>1, <1>2, <2>2 DEF Matches, FrameOf
  <2>3. HoldsLock(v)' => work'[v].lock # NoValue /\ flock'[work'[v].lock] = v
    BY <1>1, <1>2, <1>4 DEF WriterStands, LockStands, FrameOf, HoldsLock
  <2>4. step'[v] = "WRITE_ANCHOR" => Matches("ANCHOR", work[v].anchor, TornBytes)'
    BY <1>1, <1>2, <2>1, <2>2 DEF WriterStands, LockStands
  <2>5. InTransaction(v)' =>
          Matches("ANCHOR", work[v].anchor, AnchorFor(work[v].generation, work[v].lock))'
    <3>1. Matches("ANCHOR", work[v].anchor, AnchorFor(work[v].generation, work[v].lock)) /\ step[w] # "WRITE_ANCHOR"
          => Matches("ANCHOR", work[v].anchor, AnchorFor(work[v].generation, work[v].lock))'
      BY <1>1, <1>2 DEF Matches, FrameOf, AnchorFor
    <3> QED
      BY <1>1, <1>4, <2>1, <3>1 DEF WriterStands, LockStands
  <2> QED
    BY <1>2, <2>3, <2>4, <2>5 DEF LockStands, Matches
<1>6. CASE ~InTransaction(v)
  <2>1. step[v] \notin Transaction
    BY <1>6 DEF InTransaction
  <2>2. RestoreStands(v)'
    BY <1>2, <2>1 DEF RestoreStands, Transaction, Restoring
  <2>3. AsTheWriterLeftIt(v)'
    <3>1. step[v] = "CLOSE" => work[v].previous = NoValue /\ work[v].outcome # "PUBLISHED"
      BY <1>6 DEF InTransaction
    <3> QED
      BY <1>2, <2>1, <3>1 DEF AsTheWriterLeftIt, OutputStands, RecoveryStands, SlotStands, CommitStands, EndStands,
         Transaction, PreCommit, Restoring, Recovering, Shadowing, Staging
  <2> QED
    BY <1>3, <1>5, <2>2, <2>3 DEF WriterStands
<1>7. CASE InTransaction(v)
  <2>1. CalmOf(w)
    BY <1>1, <1>7 DEF OneAtATime
  <2>2. /\ \A n \in OutputNames \ {"LOCK", "ANCHOR"} : named'[n] = named[n]
        /\ \A n \in OutputNames \ {"LOCK", "ANCHOR"} : named[n] # NoValue => bytes'[named[n]] = bytes[named[n]]
        /\ named'["LOCK"] \in {named["LOCK"], FreshNode}
    BY <2>1 DEF CalmOf, OtherNames
  <2>3. {"OUTPUT", "RECOVERY", "PUBLISH_PENDING"} \subseteq OutputNames \ {"LOCK", "ANCHOR"}
    BY NamesAreApart
  <2>4. RestoreName(v) \in OutputNames \ {"LOCK", "ANCHOR"} /\ RestoreName(v)' = RestoreName(v)
    <3>1. work[v].tries \in 0..(RestoreAttempts - 1)
      BY <1>1 DEF PublicationTyped, Publications
    <3> QED
      BY <1>2, <3>1, NamesAreApart DEF RestoreName
  <2>5. RestoreStands(v)'
    BY <1>1, <1>2, <2>2, <2>4 DEF RestoreStands, WriterStands
  <2>6. ASSUME v \notin disturbed' PROVE AsTheWriterLeftIt(v)'
    <3>1. AsTheWriterLeftIt(v)
      BY <1>1, <1>2, <2>6 DEF WriterStands
    <3>2. ASSUME NEW x, NEW name, OnlyAt(x, name), x # FreshNode, NEW a \in OutputNodes, named["ANCHOR"] = a
          PROVE  OnlyAt(x, name)'
      BY <1>1, <2>2, <3>2 DEF OnlyAt, FrameOf
    <3>3. work[v].slot # FreshNode
      BY <1>1, FreshIsFree DEF HeldNodes
    <3>4. named["ANCHOR"] \in OutputNodes
      BY <1>1, <1>7, NamesAreApart
         DEF WriterStands, LockStands, Matches, PublicationTyped, PublicationTypeOK
    <3>5. OutputStands(v)'
      BY <1>2, <2>2, <2>3, <3>1 DEF AsTheWriterLeftIt, OutputStands, OutputCurrent, Matches
    <3>6. RecoveryStands(v)'
      BY <1>2, <2>2, <2>3, <3>1 DEF AsTheWriterLeftIt, RecoveryStands, Matches
    <3>7. SlotStands(v)'
      <4>1. OnlyAt(work[v].slot, "PUBLISH_PENDING") => OnlyAt(work[v].slot, "PUBLISH_PENDING")'
        BY <1>2, <3>2, <3>3, <3>4 DEF OnlyAt
      <4>2. OnlyAt(work[v].slot, RestoreName(v)) => OnlyAt(work[v].slot, RestoreName(v))'
        BY <1>2, <2>4, <3>2, <3>3, <3>4 DEF OnlyAt
      <4>3. step[v] = "RESTORE_STAGED" => bytes'[work[v].slot] = bytes[work[v].slot]
        BY <1>1, <2>2, <2>4 DEF WriterStands, RestoreStands
      <4> QED
        BY <1>2, <2>4, <3>1, <4>1, <4>2, <4>3 DEF AsTheWriterLeftIt, SlotStands, OnlyAt
    <3>8. CommitStands(v)'
      BY <1>2, <2>2, <2>3, <3>1 DEF AsTheWriterLeftIt, CommitStands, JobBytes
    <3>9. EndStands(v)'
      BY <1>2, <2>2, <2>3, <3>1 DEF AsTheWriterLeftIt, EndStands, Matches, JobBytes
    <3> QED
      BY <3>5, <3>6, <3>7, <3>8, <3>9 DEF AsTheWriterLeftIt
  <2> QED
    BY <1>3, <1>5, <2>5, <2>6 DEF WriterStands
<1> QED
  BY <1>6, <1>7

\* Two transactions would need one lock each under one anchor.
LEMMA OneStaysAtATime ==
    ASSUME PublicationInv, NEW w \in Writers, GoodStep(w) PROVE OneAtATime'
<1>1. \A v \in Writers : WriterStands(v)'
  BY OthersStand DEF GoodStep
<1>2. ASSUME NEW u \in Writers, NEW v \in Writers, u # v, InTransaction(u)', InTransaction(v)' PROVE FALSE
  <2>1. \A x \in {u, v} : /\ flock'[work'[x].lock] = x
                          /\ bytes'[named'["ANCHOR"]] = AnchorFor(work'[x].generation, work'[x].lock)
    <3>1. ASSUME NEW x \in {u, v} PROVE InTransaction(x)' /\ HoldsLock(x)' /\ LockStands(x)'
      BY <1>1, <1>2 DEF WriterStands, HoldsLock, InTransaction
    <3> QED
      BY <3>1 DEF LockStands, Matches
  <2>2. work'[u].lock = work'[v].lock
    <3>1. AnchorFor(work'[u].generation, work'[u].lock) = AnchorFor(work'[v].generation, work'[v].lock)
      BY <2>1
    <3> QED
      BY <3>1 DEF AnchorFor
  <2> QED
    BY <1>2, <2>1, <2>2
<1>3. ASSUME NEW u \in Writers, NEW v \in Writers, u # v, step'[u] = "WRITE_ANCHOR", step'[v] = "WRITE_ANCHOR"
      PROVE  FALSE
  <2>1. PublicationTyped /\ FrameOf(w) /\ OneAtATime /\ WriterStands(u) /\ WriterStands(v)
    BY DEF PublicationInv, GoodStep
  <2>2. \E x \in {u, v} : x # w /\ step[x] = "WRITE_ANCHOR"
    BY <1>3, <2>1 DEF FrameOf
  <2>3. named["ANCHOR"] # NoValue
    BY <2>1, <2>2 DEF WriterStands, LockStands, Matches
  <2>4. step'[w] # "WRITE_ANCHOR"
    BY <2>1, <2>3 DEF FrameOf
  <2> QED
    BY <1>3, <2>1, <2>4 DEF FrameOf, OneAtATime
<1> QED
  BY <1>2, <1>3 DEF OneAtATime

LEMMA GoodStepKeeps ==
    ASSUME PublicationInv, NEW w \in Writers, GoodStep(w) PROVE PublicationInv'
<1>1. \A v \in Writers : WriterStands(v)'
  BY OthersStand DEF GoodStep
<1> QED
  BY <1>1, OneStaysAtATime, AnchorStays DEF PublicationInv, GoodStep

\* The facts every step starts from.
LEMMA AtHand ==
    ASSUME PublicationInv, NEW w \in Writers
    PROVE  /\ work[w] \in Publications /\ work \in [Writers -> Publications]
           /\ named \in [OutputNames -> NodeOrNone] /\ bytes \in [OutputNodes -> AnyBytes]
           /\ flock \in [OutputNodes -> Writers \cup {NoValue}] /\ step \in [Writers -> PublicationSteps]
           /\ FreshNode \in OutputNodes /\ FreshNode # NoValue /\ \A n \in OutputNames : named[n] # FreshNode
           /\ \A v \in Writers : work[v].lock # FreshNode /\ work[v].slot # FreshNode
           /\ work[w].previous # NoValue =>
                /\ work[w].previous \in KeptOutputs /\ work[w].previous.node \in OutputNodes
                /\ work[w].previous.bytes \in Outputs /\ work[w].previous.node # FreshNode
           /\ work[w].lock \in NodeOrNone /\ work[w].slot \in NodeOrNone /\ work[w].recovery \in NodeOrNone
           /\ work[w].anchor \in NodeOrNone
           /\ work[w].job # 0 => JobBytes(work[w].job) \in Outputs
           /\ Outputs \subseteq AnyBytes /\ TornBytes \in AnyBytes
           /\ RestoreName(w) \in OutputNames \ {"OUTPUT", "MOVED", "ANCHOR", "RECOVERY", "RECOVERY_PENDING", "SHADOW",
                "SHADOW_PENDING", "LOCK", "PUBLISH", "PUBLISH_PENDING"}
           /\ PublicationTyped /\ OutputsAreWhole /\ AnchorApart /\ OneAtATime /\ WriterStands(w)
<1>1. PublicationTyped
  BY DEF PublicationInv
<1>2. work[w] \in Publications
  BY <1>1 DEF PublicationTyped
<1>3. \A v \in Writers : work[v].lock # FreshNode /\ work[v].slot # FreshNode /\ FreshNode \notin HeldNodes(v)
  BY <1>1, FreshIsFree DEF HeldNodes
<1>4. work[w].previous # NoValue =>
        /\ work[w].previous \in KeptOutputs /\ work[w].previous.node \in OutputNodes
        /\ work[w].previous.bytes \in Outputs
  BY <1>2 DEF Publications, KeptOutputs
<1>5. work[w].previous # NoValue => work[w].previous.node # FreshNode
  BY <1>3 DEF HeldNodes
<1>6. work[w].job # 0 => JobBytes(work[w].job) \in Outputs
  BY <1>2, PublicationConstants DEF Publications, Outputs
<1>7. RestoreName(w) \in OutputNames \ {"OUTPUT", "MOVED", "ANCHOR", "RECOVERY", "RECOVERY_PENDING", "SHADOW",
                "SHADOW_PENDING", "LOCK", "PUBLISH", "PUBLISH_PENDING"}
  <2>1. work[w].tries \in 0..(RestoreAttempts - 1)
    BY <1>2 DEF Publications
  <2> QED
    BY <2>1, NamesAreApart DEF RestoreName
<1>8. /\ work \in [Writers -> Publications]
      /\ named \in [OutputNames -> NodeOrNone] /\ bytes \in [OutputNodes -> AnyBytes]
      /\ flock \in [OutputNodes -> Writers \cup {NoValue}] /\ step \in [Writers -> PublicationSteps]
  BY <1>1 DEF PublicationTyped, PublicationTypeOK, NodeOrNone
<1>9. /\ work[w].lock \in NodeOrNone /\ work[w].slot \in NodeOrNone /\ work[w].recovery \in NodeOrNone
      /\ work[w].anchor \in NodeOrNone
  BY <1>2 DEF Publications
<1>10. Outputs \subseteq AnyBytes /\ TornBytes \in AnyBytes
  BY DEF AnyBytes
<1>11. OutputsAreWhole /\ AnchorApart /\ OneAtATime /\ WriterStands(w)
  BY DEF PublicationInv
<1> QED
  BY <1>1, <1>2, <1>3, <1>4, <1>5, <1>6, <1>7, <1>8, <1>9, <1>10, <1>11, FreshIsFree

\* A lock that is free, or of a new file, is nobody's.
LocksAreLeft(w) ==
    \A x \in OutputNodes : flock'[x] = flock[x] \/ (flock'[x] = w /\ (flock[x] = NoValue \/ x = FreshNode))
LEMMA LocksStay ==
    ASSUME PublicationInv, NEW w \in Writers, LocksAreLeft(w)
    PROVE  /\ \A v \in Writers : flock[work[v].lock] = v /\ work[v].lock # NoValue => flock'[work[v].lock] = v
           /\ \A x \in OutputNodes : flock'[x] \in {flock[x], w}
<1>1. \A v \in Writers : work[v].lock \in NodeOrNone /\ work[v].lock # FreshNode
  BY AtHand
<1> QED
  BY <1>1, Nodes DEF LocksAreLeft, NodeOrNone

\* A step that moves and writes nothing.
LEMMA Quiet ==
    ASSUME PublicationInv, NEW w \in Writers, NEW to \in PublicationSteps \ {"IDLE", "WRITE_ANCHOR"},
           step' = [step EXCEPT ![w] = to], OnlyTheWorkOf(w), work'[w].slot \in {NoValue, work[w].slot},
           LocksAreLeft(w), flock' \in [OutputNodes -> Writers \cup {NoValue}],
           UNCHANGED <<named, bytes, generation, disturbed>>,
           budget' \in [jobs : 0..MaxPublications, user : 0..MaxUserActions, deaths : 0..MaxDeaths]
    PROVE  /\ PublicationTyped' /\ OutputsAreWhole' /\ FrameOf(w) /\ CalmOf(w) /\ NothingLost(w) /\ step'[w] = to
           /\ \A x \in OutputNodes : flock[x] = w => flock'[x] = w
<1>1. PublicationTyped' /\ step'[w] = to /\ \A v \in Writers \ {w} : step'[v] = step[v]
  <2>1. named' \in [OutputNames -> NodeOrNone] /\ bytes' \in [OutputNodes -> AnyBytes] /\ PublicationTyped
    BY AtHand
  <2>2. \A x \in OutputNodes : flock'[x] \in {flock[x], w}
    BY LocksStay
  <2> QED
    BY <2>1, <2>2, TypedStep
<1>2. FrameOf(w)
  BY <1>1, LocksStay DEF FrameOf, OnlyTheWorkOf
<1>3. OutputsAreWhole' /\ CalmOf(w) /\ NothingLost(w)
  BY AtHand, NamesAreApart DEF OutputsAreWhole, CalmOf, NothingLost, OtherNames
<1>4. \A x \in OutputNodes : flock[x] = w => flock'[x] = w
  BY DEF LocksAreLeft
<1> QED
  BY <1>1, <1>2, <1>3, <1>4

LEMMA BeginsWell ==
    ASSUME PublicationInv, NEW w \in Writers, NEW replace \in BOOLEAN, BeginPublication(w, replace) PROVE GoodStep(w)
<1>1. PublicationTyped
  BY AtHand
<1>2. OnlyTheWorkOf(w) /\ work'[w].job # 0 /\ work'[w].replace = replace
      /\ work'[w].previous = NoValue /\ work'[w].slot = NoValue /\ work'[w].outcome = NoValue
  BY <1>1, Begins
<1>3. budget' \in [jobs : 0..MaxPublications, user : 0..MaxUserActions, deaths : 0..MaxDeaths]
  BY <1>1, PublicationConstants DEF BeginPublication, PublicationTyped
<1>4. /\ PublicationTyped' /\ OutputsAreWhole' /\ FrameOf(w) /\ CalmOf(w) /\ NothingLost(w)
      /\ step'[w] = "OPEN_LOCK"
  <2>1. "OPEN_LOCK" \in PublicationSteps \ {"IDLE", "WRITE_ANCHOR"}
    BY DEF PublicationSteps, BeforeTransaction
  <2>2. flock' \in [OutputNodes -> Writers \cup {NoValue}] /\ LocksAreLeft(w)
    BY AtHand DEF BeginPublication, LocksAreLeft
  <2> QED
    BY <1>2, <1>3, <2>1, <2>2, Quiet DEF BeginPublication, Steps
<1>5. WriterStands(w)'
  BY <1>2, <1>4 DEF WriterStands, HasAtStep, LockStands, RestoreStands, AsTheWriterLeftIt, OutputStands, RecoveryStands,
     SlotStands, CommitStands, EndStands, HoldsLock, InTransaction, BeforeTransaction, Transaction, PreCommit, Restoring,
     Recovering, Shadowing, Staging
<1> QED
  BY <1>4, <1>5 DEF GoodStep

\* Before its transaction a writer answers for its lock alone.
LEMMA NotYet ==
    ASSUME NEW w \in Writers, step'[w] \in BeforeTransaction, HasAtStep(w)',
           step'[w] \in {"MAKE_ANCHOR", "WRITE_ANCHOR", "ACQUIRED"} =>
               work'[w].lock # NoValue /\ flock'[work'[w].lock] = w,
           step'[w] = "WRITE_ANCHOR" => Matches("ANCHOR", work[w].anchor, TornBytes)'
    PROVE  WriterStands(w)'
<1>1. step'[w] \notin Transaction /\ step'[w] # "CLOSE"
  BY DEF BeforeTransaction, Transaction, PreCommit, Restoring, Recovering, Shadowing, Staging
<1>2. LockStands(w)'
  BY <1>1 DEF LockStands, HoldsLock, InTransaction
<1>3. RestoreStands(w)' /\ AsTheWriterLeftIt(w)'
  BY <1>1 DEF RestoreStands, AsTheWriterLeftIt, OutputStands, RecoveryStands, SlotStands, CommitStands, EndStands,
     Transaction, PreCommit, Restoring, Recovering, Shadowing, Staging
<1> QED
  BY <1>2, <1>3 DEF WriterStands

LEMMA OpensLock == ASSUME PublicationInv, NEW w \in Writers, OpenLock(w) PROVE GoodStep(w)
<1> DEFINE x == IF named["LOCK"] = NoValue THEN FreshNode ELSE named["LOCK"]
<1>1. /\ step[w] = "OPEN_LOCK" /\ step' = [step EXCEPT ![w] = "TAKE_LOCK"]
      /\ named' = [named EXCEPT !["LOCK"] = x]
      /\ work' = [work EXCEPT ![w].lock = x, ![w].anchor = named["ANCHOR"]]
      /\ UNCHANGED <<bytes, flock, generation, disturbed, budget>>
  BY DEF OpenLock, Steps
<1>2. x \in OutputNodes /\ x # NoValue /\ named["ANCHOR"] \in NodeOrNone
  BY AtHand, NamesAreApart, Nodes DEF NodeOrNone, NodesHaveNumbers
<1>3. /\ OnlyTheWorkOf(w) /\ work'[w].lock = x /\ SamePrevious(w) /\ SameSlot(w) /\ SameEnd(w)
      /\ work'[w].job = work[w].job /\ work'[w].replace = work[w].replace
  <2>1. work \in [Writers -> Publications]
    BY AtHand
  <2>2. [work[w] EXCEPT !.lock = x, !.anchor = named["ANCHOR"]] \in Publications
    BY <1>2, <2>1 DEF Publications, NodeOrNone
  <2>3. work'[w] = [work[w] EXCEPT !.lock = x, !.anchor = named["ANCHOR"]]
    BY <1>1, <2>1
  <2> QED
    BY <1>1, <2>1, <2>2, <2>3 DEF OnlyTheWorkOf, SamePrevious, SameSlot, SameEnd, Publications
<1> HIDE DEF x
<1>4. PublicationTyped' /\ step'[w] = "TAKE_LOCK" /\ \A v \in Writers \ {w} : step'[v] = step[v]
  <2>1. "TAKE_LOCK" \in PublicationSteps \ {"IDLE"}
    BY DEF PublicationSteps, BeforeTransaction
  <2>2. named' \in [OutputNames -> NodeOrNone] /\ bytes' \in [OutputNodes -> AnyBytes]
        /\ flock' \in [OutputNodes -> Writers \cup {NoValue}] /\ \A y \in OutputNodes : flock'[y] \in {flock[y], w}
    BY <1>1, <1>2, AtHand DEF NodeOrNone
  <2>3. PublicationTyped /\ budget' \in [jobs : 0..MaxPublications, user : 0..MaxUserActions, deaths : 0..MaxDeaths]
    BY <1>1, AtHand DEF PublicationTyped
  <2> QED
    BY <1>1, <1>3, <2>1, <2>2, <2>3, TypedStep
<1>5. named'["LOCK"] = x /\ \A n \in OutputNames \ {"LOCK"} : named'[n] = named[n]
  BY <1>1, AtHand, NamesAreApart
<1>6. FrameOf(w) /\ CalmOf(w)
  BY <1>1, <1>3, <1>4, <1>5, AtHand, NamesAreApart DEF FrameOf, CalmOf, OnlyTheWorkOf, SameSlot, OtherNames, x
<1>7. OutputsAreWhole' /\ NothingLost(w)
  BY <1>1, <1>5, AtHand, NamesAreApart DEF OutputsAreWhole, NothingLost
<1>8. WriterStands(w)'
  BY <1>1, <1>2, <1>3, <1>4, AtHand, NotYet, Nodes DEF WriterStands, HasAtStep, SamePrevious, SameEnd, BeforeTransaction,
     Recovering, Shadowing, Restoring
<1> QED
  BY <1>4, <1>6, <1>7, <1>8 DEF GoodStep

LEMMA TakesLock == ASSUME PublicationInv, NEW w \in Writers, TakeLock(w) PROVE GoodStep(w)
<1> DEFINE to == IF work[w].anchor = NoValue THEN "MAKE_ANCHOR" ELSE "ACQUIRED"
<1>1. /\ step[w] = "TAKE_LOCK" /\ step' = [step EXCEPT ![w] = to] /\ flock[work[w].lock] = NoValue
      /\ flock' = [flock EXCEPT ![work[w].lock] = w]
      /\ UNCHANGED <<named, bytes, generation, work, disturbed, budget>>
  BY DEF TakeLock, Steps
<1>2. work[w].lock \in OutputNodes
  BY <1>1, AtHand DEF WriterStands, HasAtStep, NodeOrNone
<1>3. to \in PublicationSteps \ {"IDLE", "WRITE_ANCHOR"} /\ to \in {"MAKE_ANCHOR", "ACQUIRED"}
  BY DEF PublicationSteps, BeforeTransaction
<1> HIDE DEF to
<1>4. /\ PublicationTyped' /\ OutputsAreWhole' /\ FrameOf(w) /\ CalmOf(w) /\ NothingLost(w)
      /\ step'[w] = to /\ flock'[work[w].lock] = w
  <2>1. LocksAreLeft(w) /\ flock' \in [OutputNodes -> Writers \cup {NoValue}] /\ flock'[work[w].lock] = w
    BY <1>1, <1>2, AtHand DEF LocksAreLeft
  <2>2. OnlyTheWorkOf(w)
    BY <1>1, AtHand DEF OnlyTheWorkOf
  <2>3. budget' \in [jobs : 0..MaxPublications, user : 0..MaxUserActions, deaths : 0..MaxDeaths]
    BY <1>1, AtHand DEF PublicationTyped
  <2> QED
    BY <1>1, <1>3, <2>1, <2>2, <2>3, Quiet
<1>5. WriterStands(w)'
  BY <1>1, <1>2, <1>3, <1>4, AtHand, NotYet, Nodes DEF WriterStands, HasAtStep, BeforeTransaction,
     Recovering, Shadowing, Restoring, NodesHaveNumbers
<1> QED
  BY <1>4, <1>5 DEF GoodStep

LEMMA MakesAnchor == ASSUME PublicationInv, NEW w \in Writers, MakeAnchor(w) PROVE GoodStep(w)
<1>1. /\ step[w] = "MAKE_ANCHOR" /\ step' = [step EXCEPT ![w] = "WRITE_ANCHOR"] /\ named["ANCHOR"] = NoValue
      /\ named' = [named EXCEPT !["ANCHOR"] = FreshNode] /\ bytes' = [bytes EXCEPT ![FreshNode] = TornBytes]
      /\ Holds(w, "anchor", FreshNode) /\ UNCHANGED <<flock, generation, disturbed, budget>>
  BY DEF MakeAnchor, Steps
<1>2. /\ OnlyTheWorkOf(w) /\ SameBegin(w) /\ SamePrevious(w) /\ SameSlot(w) /\ SameEnd(w)
      /\ work'[w].lock = work[w].lock /\ work'[w].anchor = FreshNode
  <2>1. FreshNode \in NodeOrNone /\ PublicationTyped
    BY AtHand DEF NodeOrNone
  <2> QED
    BY <1>1, <2>1, Notes
<1>3. PublicationTyped' /\ step'[w] = "WRITE_ANCHOR" /\ \A v \in Writers \ {w} : step'[v] = step[v]
  <2>1. "WRITE_ANCHOR" \in PublicationSteps \ {"IDLE"}
    BY DEF PublicationSteps, BeforeTransaction
  <2>2. named' \in [OutputNames -> NodeOrNone] /\ bytes' \in [OutputNodes -> AnyBytes]
        /\ flock' \in [OutputNodes -> Writers \cup {NoValue}] /\ \A y \in OutputNodes : flock'[y] \in {flock[y], w}
    BY <1>1, AtHand DEF NodeOrNone
  <2>3. PublicationTyped /\ budget' \in [jobs : 0..MaxPublications, user : 0..MaxUserActions, deaths : 0..MaxDeaths]
    BY <1>1, AtHand DEF PublicationTyped
  <2> QED
    BY <1>1, <1>2, <2>1, <2>2, <2>3, TypedStep
<1>4. /\ named'["ANCHOR"] = FreshNode /\ \A n \in OtherNames : named'[n] = named[n]
      /\ bytes'[FreshNode] = TornBytes /\ \A n \in OutputNames : bytes'[named[n]] = bytes[named[n]]
  BY <1>1, AtHand, NamesAreApart DEF OtherNames
<1>5. FrameOf(w) /\ CalmOf(w)
  BY <1>1, <1>2, <1>3, <1>4, AtHand, NamesAreApart DEF FrameOf, CalmOf, OnlyTheWorkOf, SameSlot, OtherNames
<1>6. OutputsAreWhole' /\ NothingLost(w)
  BY <1>1, <1>4, AtHand, NamesAreApart DEF OutputsAreWhole, NothingLost, OtherNames
<1>7. WriterStands(w)'
  <2>1. LockStands(w) /\ HasAtStep(w)
    BY AtHand DEF WriterStands
  <2>2. HasAtStep(w)'
    BY <1>1, <1>2, <1>3, <2>1 DEF HasAtStep, SameBegin, SamePrevious, SameEnd, BeforeTransaction,
       Recovering, Shadowing, Restoring
  <2>3. Matches("ANCHOR", work[w].anchor, TornBytes)'
    BY <1>2, <1>4, AtHand DEF Matches
  <2> QED
    BY <1>1, <1>2, <1>3, <2>1, <2>2, <2>3, NotYet DEF LockStands, HoldsLock, BeforeTransaction
<1> QED
  BY <1>3, <1>5, <1>6, <1>7 DEF GoodStep

LEMMA WritesAnchor == ASSUME PublicationInv, NEW w \in Writers, WriteAnchor(w) PROVE GoodStep(w)
<1> DEFINE b == AnchorFor(work[w].generation, work[w].lock)
<1>1. /\ step[w] = "WRITE_ANCHOR" /\ step' = [step EXCEPT ![w] = "ACQUIRED"]
      /\ bytes' = [bytes EXCEPT ![work[w].anchor] = b]
      /\ UNCHANGED <<named, flock, generation, work, disturbed, budget>>
  BY DEF WriteAnchor, Steps
<1>2. /\ work[w].lock # NoValue /\ flock[work[w].lock] = w /\ named["ANCHOR"] = work[w].anchor
      /\ work[w].anchor # NoValue
  BY <1>1, AtHand DEF WriterStands, LockStands, HoldsLock, Matches
<1>3. b \in AnyBytes
  BY <1>2, AtHand DEF AnyBytes, AnchorFor, Publications, NodeOrNone
<1> HIDE DEF b
<1>4. PublicationTyped' /\ step'[w] = "ACQUIRED" /\ \A v \in Writers \ {w} : step'[v] = step[v]
  <2>1. "ACQUIRED" \in PublicationSteps \ {"IDLE"}
    BY DEF PublicationSteps, BeforeTransaction
  <2>2. named' \in [OutputNames -> NodeOrNone] /\ bytes' \in [OutputNodes -> AnyBytes] /\ OnlyTheWorkOf(w)
        /\ flock' \in [OutputNodes -> Writers \cup {NoValue}] /\ \A y \in OutputNodes : flock'[y] \in {flock[y], w}
    BY <1>1, <1>3, AtHand DEF OnlyTheWorkOf
  <2>3. PublicationTyped /\ budget' \in [jobs : 0..MaxPublications, user : 0..MaxUserActions, deaths : 0..MaxDeaths]
    BY <1>1, AtHand DEF PublicationTyped
  <2> QED
    BY <1>1, <2>1, <2>2, <2>3, TypedStep
<1>5. \A n \in OtherNames : bytes'[named[n]] = bytes[named[n]]
  BY <1>1, <1>2, AtHand DEF AnchorApart, OtherNames
<1>6. FrameOf(w) /\ CalmOf(w)
  BY <1>1, <1>4, <1>5, AtHand, NamesAreApart DEF FrameOf, CalmOf, OtherNames
<1>7. OutputsAreWhole' /\ NothingLost(w)
  BY <1>1, <1>5, AtHand, NamesAreApart DEF OutputsAreWhole, NothingLost, OtherNames
<1>8. WriterStands(w)'
  <2>1. HasAtStep(w)
    BY AtHand DEF WriterStands
  <2>2. HasAtStep(w)'
    BY <1>1, <1>4, <2>1 DEF HasAtStep, BeforeTransaction, Recovering, Shadowing, Restoring
  <2> QED
    BY <1>1, <1>2, <1>4, <2>2, NotYet DEF BeforeTransaction
<1> QED
  BY <1>4, <1>6, <1>7, <1>8 DEF GoodStep

\* The lock and the anchor stand through a transaction.
LEMMA LockKept ==
    ASSUME PublicationInv, NEW w \in Writers, InTransaction(w) \/ (step[w] = "ACQUIRED" /\ Owns(w)),
           FrameOf(w), SameBegin(w), SameLock(w), \A x \in OutputNodes : flock[x] = w => flock'[x] = w,
           step'[w] # "WRITE_ANCHOR"
    PROVE  LockStands(w)'
<1>1. /\ Matches("ANCHOR", work[w].anchor, AnchorFor(work[w].generation, work[w].lock))
      /\ work[w].lock # NoValue /\ flock[work[w].lock] = w /\ work[w].lock \in NodeOrNone
      /\ step[w] # "WRITE_ANCHOR"
  BY AtHand DEF WriterStands, LockStands, HoldsLock, Owns, InTransaction, Transaction, PreCommit, Restoring,
     Recovering, Shadowing, Staging
<1>2. Matches("ANCHOR", work[w].anchor, AnchorFor(work[w].generation, work[w].lock))'
  BY <1>1 DEF Matches, FrameOf, SameBegin, SameLock, AnchorFor
<1>3. work'[w].lock # NoValue /\ flock'[work'[w].lock] = w
  BY <1>1 DEF SameLock, NodeOrNone
<1> QED
  BY <1>2, <1>3 DEF LockStands

\* What a step must leave, by where it leads.
LEMMA StandsBeforeCommit ==
    ASSUME NEW w \in Writers, step'[w] \in PreCommit, LockStands(w)', work'[w].job # 0,
           work'[w].outcome = NoValue, work'[w].previous = NoValue => step'[w] \in Staging,
           work'[w].previous # NoValue => work'[w].replace,
           w \notin disturbed' => OutputStands(w)' /\ RecoveryStands(w)' /\ SlotStands(w)'
    PROVE  WriterStands(w)'
<1>1. step'[w] \notin BeforeTransaction /\ step'[w] \notin Restoring /\ step'[w] \notin {"CLOSE", "COMMITTED", "IDLE"}
      /\ (step'[w] \in Recovering \cup Shadowing => step'[w] \notin Staging)
  BY DEF BeforeTransaction, PreCommit, Restoring, Recovering, Shadowing, Staging
<1>2. HasAtStep(w)'
  BY <1>1 DEF HasAtStep, BeforeTransaction
<1>3. RestoreStands(w)' /\ CommitStands(w)' /\ EndStands(w)'
  BY <1>1 DEF RestoreStands, CommitStands, EndStands, Restoring
<1> QED
  BY <1>2, <1>3 DEF WriterStands, AsTheWriterLeftIt

LEMMA Snapshots == ASSUME PublicationInv, NEW w \in Writers, Snapshot(w) PROVE GoodStep(w)
<1> DEFINE x == named["OUTPUT"]
           kept == [node |-> x, bytes |-> bytes[x]]
           taken1 == work[w].replace /\ x # NoValue
           to == IF taken1 THEN "RECOVERY" ELSE "STAGE"
<1>1. /\ step[w] = "ACQUIRED" /\ Owns(w) /\ step' = [step EXCEPT ![w] = to]
      /\ IF taken1 THEN Holds(w, "previous", kept) ELSE UNCHANGED work
      /\ UNCHANGED <<named, bytes, flock, generation, disturbed, budget>>
  BY DEF Snapshot, Steps
<1>2. taken1 => kept \in KeptOutputs /\ kept # NoValue /\ kept.node = x /\ kept.bytes = bytes[x]
  <2>1. x # NoValue => x \in OutputNodes /\ bytes[x] \in Outputs
    BY AtHand, NamesAreApart DEF OutputsAreWhole, NodeOrNone
  <2> QED
    BY <2>1, Nodes DEF KeptOutputs
<1>3. work[w].previous = NoValue /\ work[w].job # 0 /\ work[w].outcome = NoValue
  BY <1>1, AtHand DEF WriterStands, HasAtStep, BeforeTransaction
<1>4. /\ OnlyTheWorkOf(w) /\ SameBegin(w) /\ SameLock(w) /\ SameSlot(w) /\ SameEnd(w)
      /\ work'[w].previous = IF taken1 THEN kept ELSE NoValue
  <2>1. PublicationTyped
    BY AtHand
  <2>2. CASE taken1
    <3> HIDE DEF kept, taken1
    <3> QED
      BY <1>1, <1>2, <2>1, <2>2, Notes
  <2>3. CASE ~taken1
    BY <1>1, <1>3, <2>3, AtHand DEF OnlyTheWorkOf, SameBegin, SameLock, SameSlot, SameEnd
  <2> QED
    BY <2>2, <2>3
<1> HIDE DEF kept
<1>5. /\ PublicationTyped' /\ OutputsAreWhole' /\ FrameOf(w) /\ CalmOf(w) /\ NothingLost(w) /\ step'[w] = to
      /\ \A y \in OutputNodes : flock[y] = w => flock'[y] = w
  <2>1. to \in PublicationSteps \ {"IDLE", "WRITE_ANCHOR"}
    BY DEF PublicationSteps, Transaction, PreCommit, Recovering, Staging
  <2>2. LocksAreLeft(w) /\ flock' \in [OutputNodes -> Writers \cup {NoValue}]
    BY <1>1, AtHand DEF LocksAreLeft
  <2>3. budget' \in [jobs : 0..MaxPublications, user : 0..MaxUserActions, deaths : 0..MaxDeaths]
    BY <1>1, AtHand DEF PublicationTyped
  <2>4. work'[w].slot \in {NoValue, work[w].slot}
    BY <1>4 DEF SameSlot
  <2> HIDE DEF to
  <2> QED
    BY <1>1, <1>4, <2>1, <2>2, <2>3, <2>4, Quiet
<1>6. WriterStands(w)'
  <2>1. LockStands(w)'
    <3>1. step'[w] # "WRITE_ANCHOR"
      BY <1>5
    <3> QED
      BY <1>1, <1>4, <1>5, <3>1, LockKept
  <2>2. step'[w] \in PreCommit /\ (work'[w].previous = NoValue => step'[w] \in Staging)
    BY <1>2, <1>4, <1>5 DEF PreCommit, Recovering, Staging
  <2>3. OutputStands(w)' /\ RecoveryStands(w)' /\ SlotStands(w)'
    <3>1. CASE taken1
      BY <1>1, <1>2, <1>4, <1>5, <3>1 DEF OutputStands, OutputCurrent, Matches, RecoveryStands, SlotStands,
         Shadowing, Staging, Restoring
    <3>2. CASE ~taken1
      BY <1>1, <1>4, <1>5, <3>2 DEF OutputStands, RecoveryStands, SlotStands, SameBegin
    <3> QED
      BY <3>1, <3>2
  <2>4. work'[w].job # 0 /\ work'[w].outcome = NoValue /\ (work'[w].previous # NoValue => work'[w].replace)
    BY <1>3, <1>4 DEF SameBegin, SameEnd
  <2> QED
    BY <2>1, <2>2, <2>3, <2>4, StandsBeforeCommit
<1> QED
  BY <1>5, <1>6 DEF GoodStep

\* What has a name, or is another's, outlives the writer that lets go.
LEMMA LetsAllGo ==
    ASSUME PublicationInv, NEW w \in Writers, LetsGo(w), step' = [step EXCEPT ![w] = "IDLE"], flock' = Released(w),
           budget' \in [jobs : 0..MaxPublications, user : 0..MaxUserActions, deaths : 0..MaxDeaths]
    PROVE  GoodStep(w)
<1>1. /\ work' = [work EXCEPT ![w] = Idle] /\ disturbed' = disturbed \ {w}
      /\ UNCHANGED <<named, generation>>
      /\ bytes' = [x \in OutputNodes |-> IF LinksTo(x) = 0 /\ \A v \in Writers \ {w} : x \notin HeldNodes(v)
                                         THEN NoValue ELSE bytes[x]]
      /\ flock' = [x \in OutputNodes |-> IF flock[x] = w THEN NoValue ELSE flock[x]]
  BY DEF LetsGo, Released
<1>2. /\ Idle \in Publications /\ Idle.slot = NoValue /\ Idle.previous = NoValue /\ Idle.outcome = NoValue
  <2>1. Idle \in Publications
    BY PublicationConstants DEF Idle, Publications, NodeOrNone
  <2> QED
    BY <2>1 DEF Idle
<1>3. /\ work' \in [Writers -> Publications] /\ work'[w] = Idle /\ step'[w] = "IDLE"
      /\ \A v \in Writers \ {w} : work'[v] = work[v] /\ step'[v] = step[v]
      /\ step' \in [Writers -> PublicationSteps]
  BY <1>1, <1>2, AtHand DEF PublicationSteps
<1>4. \A n \in OutputNames : named[n] # NoValue => bytes'[named[n]] = bytes[named[n]]
  <2>1. ASSUME NEW n \in OutputNames, named[n] # NoValue PROVE LinksTo(named[n]) # 0 /\ named[n] \in OutputNodes
    BY <2>1, Links, AtHand DEF NodeOrNone
  <2> QED
    BY <1>1, <2>1
<1>5. PublicationTyped'
  <2>1. bytes' \in [OutputNodes -> AnyBytes]
    BY <1>1, AtHand DEF AnyBytes
  <2>2. flock' \in [OutputNodes -> Writers \cup {NoValue}] /\ named' \in [OutputNames -> OutputNodes \cup {NoValue}]
    BY <1>1, AtHand DEF NodeOrNone
  <2>3. \A v \in Writers : step'[v] = "IDLE" => work'[v] = Idle /\ \A x \in OutputNodes : flock'[x] # v
    <3>1. \A v \in Writers : step[v] = "IDLE" => work[v] = Idle /\ \A x \in OutputNodes : flock[x] # v
      BY AtHand DEF PublicationTyped, PublicationTypeOK
    <3> QED
      BY <1>1, <1>3, <3>1, Nodes
  <2>4. disturbed' \subseteq Writers /\ generation' \in Nat
    BY <1>1, AtHand DEF PublicationTyped
  <2> QED
    BY <1>3, <2>1, <2>2, <2>3, <2>4 DEF PublicationTyped, PublicationTypeOK
<1>6. FrameOf(w)
  <2>1. \A v \in Writers \ {w} : flock[work[v].lock] = v /\ work[v].lock # NoValue => flock'[work[v].lock] = v
    BY <1>1, AtHand DEF NodeOrNone
  <2> QED
    BY <1>1, <1>2, <1>3, <1>4, <2>1, NamesAreApart DEF FrameOf
<1>7. CalmOf(w)
  BY <1>1, <1>4, NamesAreApart DEF CalmOf, OtherNames
<1>8. OutputsAreWhole' /\ NothingLost(w)
  BY <1>1, <1>4, AtHand, NamesAreApart DEF OutputsAreWhole, NothingLost
<1>9. WriterStands(w)'
  BY <1>2, <1>3 DEF WriterStands, HasAtStep, LockStands, RestoreStands, AsTheWriterLeftIt, OutputStands, RecoveryStands,
     SlotStands, CommitStands, EndStands, HoldsLock, InTransaction, BeforeTransaction, Transaction, PreCommit, Restoring,
     Recovering, Shadowing, Staging
<1> QED
  BY <1>5, <1>6, <1>7, <1>8, <1>9 DEF GoodStep

LEMMA ClosesOrDies == ASSUME PublicationInv, NEW w \in Writers, ClosePublication(w) \/ Die(w) PROVE GoodStep(w)
<1>1. budget' \in [jobs : 0..MaxPublications, user : 0..MaxUserActions, deaths : 0..MaxDeaths]
  <2>1. budget \in [jobs : 0..MaxPublications, user : 0..MaxUserActions, deaths : 0..MaxDeaths] /\ MaxDeaths \in Nat
    BY AtHand, PublicationConstants DEF PublicationTyped
  <2> QED
    BY <2>1 DEF ClosePublication, Die
<1> QED
  BY <1>1, LetsAllGo DEF ClosePublication, Die, Steps

\* A slot that is opened is a file under its own name alone.
TransactionSteps == Transaction \cup {"CLOSE"}
SlotNames == OutputNames \ {"OUTPUT", "MOVED", "ANCHOR", "LOCK"}
SameWork(w) == SameBegin(w) /\ SameLock(w) /\ SamePrevious(w) /\ SameRecovery(w) /\ SameEnd(w)

LEMMA OpensSlot ==
    ASSUME PublicationInv, NEW w \in Writers, NEW name \in SlotNames, NEW from, NEW to \in TransactionSteps,
           OpenSlot(w, name, from, to), from \in Transaction
    PROVE  /\ PublicationTyped' /\ OutputsAreWhole' /\ FrameOf(w) /\ NothingLost(w)
           /\ step[w] = from /\ step'[w] = to /\ InTransaction(w)
           /\ OnlyTheWorkOf(w) /\ SameWork(w) /\ disturbed' = disturbed
           /\ \A n \in OutputNames \ {name} :
                 named'[n] = named[n] /\ (named[n] # NoValue => bytes'[named[n]] = bytes[named[n]])
           /\ named'[name] = work'[w].slot /\ OnlyAt(work[w].slot, name)'
           /\ \A x \in OutputNodes : flock[x] = w => flock'[x] = w
<1> DEFINE x == IF named[name] = NoValue THEN FreshNode ELSE named[name]
<1>1. /\ step[w] = from /\ step' = [step EXCEPT ![w] = to] /\ (named[name] # NoValue => Recyclable(w, x))
      /\ named' = [named EXCEPT ![name] = x] /\ bytes' = [bytes EXCEPT ![x] = TornBytes]
      /\ flock' = [flock EXCEPT ![x] = w] /\ Holds(w, "slot", x) /\ UNCHANGED <<generation, disturbed, budget>>
  BY DEF OpenSlot, Steps
<1>2. x \in OutputNodes /\ x # NoValue /\ x \in NodeOrNone /\ name \in OtherNames /\ name \in OutputNames
  BY AtHand, Nodes DEF NodeOrNone, NodesHaveNumbers, SlotNames, OtherNames
<1>3. \A n \in OutputNames \ {name} : named[n] # x
  <2>1. CASE named[name] = NoValue
    BY <2>1, AtHand
  <2>2. CASE named[name] # NoValue
    BY <1>1, <1>2, <2>2, Links DEF Recyclable
  <2> QED
    BY <2>1, <2>2
<1>4. x = FreshNode \/ (x = named[name] /\ flock[x] = NoValue)
  BY <1>1 DEF Recyclable
<1> HIDE DEF x
<1>5. OnlyTheWorkOf(w) /\ SameWork(w) /\ work'[w].slot = x
  <2>1. PublicationTyped
    BY AtHand
  <2> QED
    BY <1>1, <1>2, <2>1, Notes DEF SameWork
<1>6. \A n \in OutputNames \ {name} : named'[n] = named[n] /\ (named[n] # NoValue => bytes'[named[n]] = bytes[named[n]])
  BY <1>1, <1>3, AtHand
<1>7. named'[name] = x
  BY <1>1, <1>2, AtHand
<1>8. LocksAreLeft(w) /\ flock' \in [OutputNodes -> Writers \cup {NoValue}]
  BY <1>1, <1>2, <1>4, AtHand DEF LocksAreLeft
<1>9. PublicationTyped' /\ step'[w] = to /\ \A v \in Writers \ {w} : step'[v] = step[v]
  <2>1. to \in PublicationSteps \ {"IDLE"} 
    BY DEF PublicationSteps, TransactionSteps, Transaction, PreCommit, Recovering, Shadowing, Staging, Restoring
  <2>2. named' \in [OutputNames -> NodeOrNone] /\ bytes' \in [OutputNodes -> AnyBytes]
    BY <1>1, <1>2, AtHand
  <2>3. PublicationTyped /\ budget' \in [jobs : 0..MaxPublications, user : 0..MaxUserActions, deaths : 0..MaxDeaths]
    BY <1>1, AtHand DEF PublicationTyped
  <2>4. \A y \in OutputNodes : flock'[y] \in {flock[y], w}
    BY <1>8, LocksStay
  <2> QED
    BY <1>1, <1>5, <1>8, <2>1, <2>2, <2>3, <2>4, TypedStep
<1>10. FrameOf(w)
  <2>1. \A v \in Writers \ {w} : step'[v] = step[v] /\ work'[v] = work[v] /\ (v \in disturbed => v \in disturbed')
    BY <1>1, <1>5, <1>9 DEF OnlyTheWorkOf
  <2>2. \A v \in Writers \ {w} : flock[work[v].lock] = v /\ work[v].lock # NoValue => flock'[work[v].lock] = v
    BY <1>8, LocksStay
  <2>3. step'[w] # "WRITE_ANCHOR"
    BY <1>9 DEF TransactionSteps, Transaction, PreCommit, Recovering, Shadowing, Staging, Restoring
  <2>4. named'["ANCHOR"] = named["ANCHOR"] /\ named["ANCHOR"] # FreshNode
        /\ (named["ANCHOR"] # NoValue => bytes'[named["ANCHOR"]] = bytes[named["ANCHOR"]])
    BY <1>2, <1>6, AtHand, NamesAreApart DEF OtherNames
  <2>5. \A n \in OtherNames : named'[n] \in {NoValue, FreshNode} \/ \E m \in OtherNames : named'[n] = named[m]
    BY <1>2, <1>4, <1>6, <1>7 DEF OtherNames
  <2>6. work'[w].slot = FreshNode \/ \E m \in OtherNames : work'[w].slot = named[m]
    BY <1>2, <1>4, <1>5
  <2> QED
    BY <2>1, <2>2, <2>3, <2>4, <2>5, <2>6 DEF FrameOf
<1>11. OutputsAreWhole' /\ NothingLost(w)
  <2>1. {"OUTPUT", "MOVED"} \subseteq OutputNames \ {name}
    BY NamesAreApart DEF SlotNames
  <2> QED
    BY <1>6, <2>1, AtHand DEF OutputsAreWhole, NothingLost
<1>12. OnlyAt(work[w].slot, name)'
  BY <1>2, <1>3, <1>5, <1>6 DEF OnlyAt
<1>13. \A y \in OutputNodes : flock[y] = w => flock'[y] = w
  BY <1>8 DEF LocksAreLeft
<1> QED
  BY <1>1, <1>5, <1>6, <1>7, <1>9, <1>10, <1>11, <1>12, <1>13 DEF InTransaction

LEMMA FillsSlot ==
    ASSUME PublicationInv, NEW w \in Writers, NEW b \in Outputs, NEW from, NEW to \in TransactionSteps,
           FillSlot(w, b, from, to), from \in Transaction,
           w \notin disturbed /\ named["OUTPUT"] = work[w].slot => bytes[named["OUTPUT"]] = b
    PROVE  /\ PublicationTyped' /\ OutputsAreWhole' /\ FrameOf(w) /\ NothingLost(w)
           /\ step[w] = from /\ step'[w] = to /\ InTransaction(w)
           /\ work' = work /\ named' = named /\ flock' = flock /\ disturbed' = disturbed
           /\ \A x \in OutputNodes : bytes'[x] = IF x = work[w].slot THEN b ELSE bytes[x]
<1>1. /\ step[w] = from /\ step' = [step EXCEPT ![w] = to] /\ bytes' = [bytes EXCEPT ![work[w].slot] = b]
      /\ UNCHANGED <<named, flock, generation, work, disturbed, budget>>
  BY DEF FillSlot, Steps
<1>2. \A x \in OutputNodes : bytes'[x] = IF x = work[w].slot THEN b ELSE bytes[x]
  BY <1>1, AtHand
<1>3. PublicationTyped' /\ step'[w] = to /\ \A v \in Writers \ {w} : step'[v] = step[v]
  <2>1. to \in PublicationSteps \ {"IDLE"} 
    BY DEF PublicationSteps, TransactionSteps, Transaction, PreCommit, Recovering, Shadowing, Staging, Restoring
  <2>2. named' \in [OutputNames -> NodeOrNone] /\ bytes' \in [OutputNodes -> AnyBytes]
        /\ flock' \in [OutputNodes -> Writers \cup {NoValue}] /\ OnlyTheWorkOf(w)
        /\ \A y \in OutputNodes : flock'[y] \in {flock[y], w}
    BY <1>1, AtHand DEF OnlyTheWorkOf
  <2>3. PublicationTyped /\ budget' \in [jobs : 0..MaxPublications, user : 0..MaxUserActions, deaths : 0..MaxDeaths]
    BY <1>1, AtHand DEF PublicationTyped
  <2> QED
    BY <1>1, <2>1, <2>2, <2>3, TypedStep
<1>4. FrameOf(w)
  <2>1. step'[w] # "WRITE_ANCHOR"
    BY <1>3 DEF TransactionSteps, Transaction, PreCommit, Recovering, Shadowing, Staging, Restoring
  <2>2. named["ANCHOR"] # NoValue => bytes'[named["ANCHOR"]] = bytes[named["ANCHOR"]]
    BY <1>1, AtHand DEF AnchorApart
  <2> QED
    BY <1>1, <1>3, <2>1, <2>2, AtHand, NamesAreApart DEF FrameOf
<1>5. OutputsAreWhole' /\ NothingLost(w)
  <2>1. \A n \in OutputNames : named[n] # NoValue => named[n] \in OutputNodes
    BY AtHand DEF NodeOrNone
  <2> QED
    BY <1>1, <1>2, <2>1, AtHand, NamesAreApart DEF OutputsAreWhole, NothingLost
<1> QED
  BY <1>1, <1>2, <1>3, <1>4, <1>5 DEF InTransaction

\* A slot that is installed moves between names of its own.
LEMMA InstallsSlot ==
    ASSUME PublicationInv, NEW w \in Writers, NEW a \in SlotNames, NEW z \in SlotNames, NEW from,
           NEW to \in TransactionSteps, InstallSlot(w, a, z, from, to), from \in Transaction
    PROVE  /\ PublicationTyped' /\ OutputsAreWhole' /\ FrameOf(w) /\ NothingLost(w)
           /\ step[w] = from /\ step'[w] = to /\ InTransaction(w)
           /\ work' = work /\ bytes' = bytes /\ flock' = flock /\ disturbed' = disturbed
           /\ \A n \in OutputNames \ {a, z} : named'[n] = named[n]
<1>1. /\ step[w] = from /\ step' = [step EXCEPT ![w] = to]
      /\ UNCHANGED <<bytes, flock, generation, work, disturbed, budget>>
      /\ named' = named \/ named' = [named EXCEPT ![z] = named[a], ![a] = NoValue]
  BY DEF InstallSlot, Steps, Rename
<1>2. a \in OutputNames /\ z \in OutputNames /\ a \in OtherNames /\ z \in OtherNames
  BY DEF SlotNames, OtherNames
<1>3. /\ \A n \in OutputNames \ {a, z} : named'[n] = named[n]
      /\ named'[a] \in {named[a], NoValue} /\ named'[z] \in {named[z], named[a], NoValue}
  BY <1>1, <1>2, AtHand
<1>4. PublicationTyped' /\ step'[w] = to /\ \A v \in Writers \ {w} : step'[v] = step[v]
  <2>1. to \in PublicationSteps \ {"IDLE"} 
    BY DEF PublicationSteps, TransactionSteps, Transaction, PreCommit, Recovering, Shadowing, Staging, Restoring
  <2>2. named' \in [OutputNames -> NodeOrNone] /\ bytes' \in [OutputNodes -> AnyBytes]
        /\ flock' \in [OutputNodes -> Writers \cup {NoValue}] /\ OnlyTheWorkOf(w)
        /\ \A y \in OutputNodes : flock'[y] \in {flock[y], w}
    BY <1>1, <1>2, AtHand DEF OnlyTheWorkOf, NodeOrNone
  <2>3. PublicationTyped /\ budget' \in [jobs : 0..MaxPublications, user : 0..MaxUserActions, deaths : 0..MaxDeaths]
    BY <1>1, AtHand DEF PublicationTyped
  <2> QED
    BY <1>1, <2>1, <2>2, <2>3, TypedStep
<1>5. FrameOf(w)
  <2>1. step'[w] # "WRITE_ANCHOR"
    BY <1>4 DEF TransactionSteps, Transaction, PreCommit, Recovering, Shadowing, Staging, Restoring
  <2>2. named'["ANCHOR"] = named["ANCHOR"] /\ named["ANCHOR"] # FreshNode
    BY <1>2, <1>3, AtHand, NamesAreApart DEF OtherNames
  <2>3. \A n \in OtherNames : named'[n] = NoValue \/ \E m \in OtherNames : named'[n] = named[m]
    BY <1>2, <1>3 DEF OtherNames
  <2> QED
    BY <1>1, <1>4, <2>1, <2>2, <2>3 DEF FrameOf
<1>6. OutputsAreWhole' /\ NothingLost(w)
  <2>1. {"OUTPUT", "MOVED"} \subseteq OutputNames \ {a, z}
    BY NamesAreApart DEF SlotNames
  <2> QED
    BY <1>1, <1>3, <2>1, AtHand DEF OutputsAreWhole, NothingLost
<1> QED
  BY <1>1, <1>3, <1>4, <1>5, <1>6 DEF InTransaction

\* A step up to the commit that leaves the output, and the recovery once it
\* is there.
Keeps(n) == named'[n] = named[n] /\ (named[n] # NoValue => bytes'[named[n]] = bytes[named[n]])
LEMMA PreparesOn ==
    ASSUME PublicationInv, NEW w \in Writers, step[w] \in PreCommit, step'[w] \in PreCommit,
           step[w] \in Staging => step'[w] \in Staging,
           work[w].previous = NoValue => step'[w] \in Staging,
           PublicationTyped', OutputsAreWhole', FrameOf(w), NothingLost(w), disturbed' = disturbed,
           SameBegin(w), SameLock(w), SamePrevious(w), work'[w].outcome = work[w].outcome,
           \A x \in OutputNodes : flock[x] = w => flock'[x] = w,
           w \notin disturbed =>
             /\ Keeps("OUTPUT")
             /\ work[w].previous # NoValue /\ step'[w] \in Shadowing \cup Staging =>
                   Matches("RECOVERY", work[w].recovery, work[w].previous.bytes)'
             /\ step'[w] = "STAGE_COPY" => OnlyAt(work[w].slot, "PUBLISH_PENDING")'
    PROVE  GoodStep(w)
<1>1. InTransaction(w) /\ step'[w] # "WRITE_ANCHOR" /\ step[w] \notin {"IDLE", "CLOSE"}
      /\ step'[w] \notin {"COMMITTED"} \cup Restoring
  BY DEF InTransaction, Transaction, PreCommit, Recovering, Shadowing, Staging, Restoring
<1>2. LockStands(w)'
  BY <1>1, LockKept
<1>3. work[w].job # 0 /\ work[w].outcome = NoValue /\ (work[w].previous # NoValue => work[w].replace)
  BY <1>1, AtHand DEF WriterStands, HasAtStep
<1>4. ASSUME w \notin disturbed' PROVE OutputStands(w)' /\ RecoveryStands(w)' /\ SlotStands(w)'
  <2>1. OutputStands(w)
    BY <1>4, AtHand DEF WriterStands, AsTheWriterLeftIt
  <2>2. OutputStands(w)'
    BY <1>4, <2>1 DEF OutputStands, OutputCurrent, Matches, Keeps, SamePrevious, SameBegin
  <2>3. RecoveryStands(w)' /\ SlotStands(w)'
    BY <1>1, <1>4 DEF RecoveryStands, SlotStands, SamePrevious, Matches, Restoring
  <2> QED
    BY <2>2, <2>3
<1>5. WriterStands(w)'
  BY <1>2, <1>3, <1>4, StandsBeforeCommit DEF SameBegin, SamePrevious
<1> QED
  BY <1>1, <1>5 DEF GoodStep

LEMMA KeepsRecovery == ASSUME PublicationInv, NEW w \in Writers, KeepRecovery(w) PROVE GoodStep(w)
<1> DEFINE x == named["RECOVERY"]
<1>1. /\ step[w] = "RECOVERY" /\ step' = [step EXCEPT ![w] = "SHADOW"] /\ RecoveryMatches(w) /\ flock[x] = NoValue
      /\ flock' = [flock EXCEPT ![x] = w] /\ Holds(w, "recovery", x)
      /\ UNCHANGED <<named, bytes, generation, disturbed, budget>>
  BY DEF KeepRecovery, Steps
<1>2. x \in OutputNodes /\ x \in NodeOrNone
  BY <1>1, AtHand, NamesAreApart DEF RecoveryMatches, Matches, NodeOrNone
<1> HIDE DEF x
<1>3. OnlyTheWorkOf(w) /\ SameBegin(w) /\ SameLock(w) /\ SamePrevious(w) /\ SameSlot(w) /\ SameEnd(w)
      /\ work'[w].recovery = x
  <2>1. PublicationTyped
    BY AtHand
  <2> QED
    BY <1>1, <1>2, <2>1, Notes
<1>4. /\ PublicationTyped' /\ OutputsAreWhole' /\ FrameOf(w) /\ NothingLost(w) /\ step'[w] = "SHADOW"
      /\ \A y \in OutputNodes : flock[y] = w => flock'[y] = w
  <2>1. "SHADOW" \in PublicationSteps \ {"IDLE", "WRITE_ANCHOR"}
    BY DEF PublicationSteps, Transaction, PreCommit, Shadowing
  <2>2. LocksAreLeft(w) /\ flock' \in [OutputNodes -> Writers \cup {NoValue}]
    BY <1>1, <1>2, AtHand DEF LocksAreLeft
  <2>3. budget' \in [jobs : 0..MaxPublications, user : 0..MaxUserActions, deaths : 0..MaxDeaths]
    BY <1>1, AtHand DEF PublicationTyped
  <2>4. work'[w].slot \in {NoValue, work[w].slot}
    BY <1>3 DEF SameSlot
  <2> QED
    BY <1>1, <1>3, <2>1, <2>2, <2>3, <2>4, Quiet
<1>5. Matches("RECOVERY", work[w].recovery, work[w].previous.bytes)'
  BY <1>1, <1>3 DEF RecoveryMatches, Matches, x, SamePrevious
<1>6. step[w] \in PreCommit /\ step'[w] \in PreCommit /\ step[w] \notin Staging /\ work[w].previous # NoValue
  BY <1>1, <1>4, AtHand DEF PreCommit, Recovering, Shadowing, Staging, WriterStands, HasAtStep
<1>7. Keeps("OUTPUT")
  BY <1>1 DEF Keeps
<1> QED
  BY <1>1, <1>3, <1>4, <1>5, <1>6, <1>7, PreparesOn DEF SameEnd

\* A link under a pending name, and a lock on it if it needs one.
LinksTogether(w, name, x, to) ==
    /\ step' = [step EXCEPT ![w] = to] /\ named' = [named EXCEPT ![name] = x] /\ Holds(w, "slot", x)
    /\ flock' = flock \/ (flock[x] = NoValue /\ flock' = [flock EXCEPT ![x] = w])
    /\ UNCHANGED <<bytes, generation, disturbed, budget>>
LEMMA Pends ==
    ASSUME PublicationInv, NEW w \in Writers, NEW name \in SlotNames, NEW x \in OutputNodes,
           NEW to \in TransactionSteps, LinksTogether(w, name, x, to),
           \E m \in OtherNames : named[m] = x, step[w] \in Transaction
    PROVE  /\ PublicationTyped' /\ OutputsAreWhole' /\ FrameOf(w) /\ NothingLost(w) /\ step'[w] = to
           /\ OnlyTheWorkOf(w) /\ SameWork(w) /\ work'[w].slot = x
           /\ \A n \in OutputNames \ {name} : Keeps(n)
           /\ \A y \in OutputNodes : flock[y] = w => flock'[y] = w
<1> USE DEF LinksTogether
<1>1. OnlyTheWorkOf(w) /\ SameWork(w) /\ work'[w].slot = x
  <2>1. PublicationTyped /\ x \in NodeOrNone
    BY AtHand DEF NodeOrNone
  <2> QED
    BY <2>1, Notes DEF SameWork
<1>2. \A n \in OutputNames \ {name} : named'[n] = named[n]
  BY AtHand
<1>3. name \in OtherNames /\ name \in OutputNames /\ named'[name] = x
  BY AtHand DEF SlotNames, OtherNames
<1>4. LocksAreLeft(w) /\ flock' \in [OutputNodes -> Writers \cup {NoValue}]
  BY AtHand DEF LocksAreLeft
<1>5. PublicationTyped' /\ step'[w] = to /\ \A v \in Writers \ {w} : step'[v] = step[v]
  <2>1. to \in PublicationSteps \ {"IDLE"}
    BY DEF PublicationSteps, TransactionSteps, Transaction, PreCommit, Recovering, Shadowing, Staging, Restoring
  <2>2. named' \in [OutputNames -> NodeOrNone] /\ bytes' \in [OutputNodes -> AnyBytes]
    BY AtHand DEF NodeOrNone
  <2>3. PublicationTyped /\ budget' \in [jobs : 0..MaxPublications, user : 0..MaxUserActions, deaths : 0..MaxDeaths]
    BY AtHand DEF PublicationTyped
  <2>4. \A y \in OutputNodes : flock'[y] \in {flock[y], w}
    BY <1>4, LocksStay
  <2> QED
    BY <1>1, <1>4, <2>1, <2>2, <2>3, <2>4, TypedStep
<1>6. FrameOf(w)
  <2>1. \A v \in Writers \ {w} : step'[v] = step[v] /\ work'[v] = work[v] /\ (v \in disturbed => v \in disturbed')
    BY <1>1, <1>5 DEF OnlyTheWorkOf
  <2>2. \A v \in Writers \ {w} : flock[work[v].lock] = v /\ work[v].lock # NoValue => flock'[work[v].lock] = v
    BY <1>4, LocksStay
  <2>3. step'[w] # "WRITE_ANCHOR"
    BY <1>5 DEF TransactionSteps, Transaction, PreCommit, Recovering, Shadowing, Staging, Restoring
  <2>4. named'["ANCHOR"] = named["ANCHOR"] /\ named["ANCHOR"] # FreshNode
    BY <1>2, <1>3, AtHand, NamesAreApart DEF OtherNames
  <2>5. \A n \in OtherNames : \E k \in OtherNames : named'[n] = named[k]
    BY <1>2, <1>3 DEF OtherNames
  <2>6. \E k \in OtherNames : work'[w].slot = named[k]
    BY <1>1
  <2> QED
    BY <2>1, <2>2, <2>3, <2>4, <2>5, <2>6 DEF FrameOf
<1>7. OutputsAreWhole' /\ NothingLost(w)
  <2>1. {"OUTPUT", "MOVED"} \subseteq OutputNames \ {name}
    BY NamesAreApart DEF SlotNames
  <2> QED
    BY <1>2, <2>1, AtHand DEF OutputsAreWhole, NothingLost
<1>8. \A n \in OutputNames \ {name} : Keeps(n)
  BY <1>2 DEF Keeps
<1>9. \A y \in OutputNodes : flock[y] = w => flock'[y] = w
  BY <1>4 DEF LocksAreLeft
<1> QED
  BY <1>1, <1>5, <1>6, <1>7, <1>8, <1>9

LEMMA LinksRecovery == ASSUME PublicationInv, NEW w \in Writers, LinkRecovery(w) PROVE GoodStep(w)
<1> DEFINE x == IF CanLink /\ named["RECOVERY_PENDING"] = NoValue THEN named["OUTPUT"] ELSE named["RECOVERY_PENDING"]
<1>1. /\ step[w] = "RECOVERY" /\ step' = [step EXCEPT ![w] = "RECOVERY_STAGED"]
      /\ x = work[w].previous.node /\ flock[x] = NoValue
      /\ named' = [named EXCEPT !["RECOVERY_PENDING"] = x] /\ flock' = [flock EXCEPT ![x] = w]
      /\ Holds(w, "slot", x) /\ UNCHANGED <<bytes, generation, disturbed, budget>>
  BY DEF LinkRecovery, Steps
<1>2. \E m \in OtherNames : named[m] = x
  BY NamesAreApart DEF OtherNames
<1> HIDE DEF x
<1>3. work[w].previous # NoValue /\ step[w] \in Transaction /\ step[w] \in PreCommit /\ step[w] \notin Staging
  BY <1>1, AtHand DEF WriterStands, HasAtStep, Transaction, PreCommit, Recovering, Staging
<1>4. x \in OutputNodes /\ "RECOVERY_PENDING" \in SlotNames /\ "RECOVERY_STAGED" \in TransactionSteps
  BY <1>1, <1>3, AtHand, NamesAreApart DEF SlotNames, TransactionSteps, Transaction, PreCommit, Recovering
<1>5. /\ PublicationTyped' /\ OutputsAreWhole' /\ FrameOf(w) /\ NothingLost(w) /\ step'[w] = "RECOVERY_STAGED"
      /\ SameWork(w) /\ \A n \in OutputNames \ {"RECOVERY_PENDING"} : Keeps(n)
      /\ \A y \in OutputNodes : flock[y] = w => flock'[y] = w
  <2>1. LinksTogether(w, "RECOVERY_PENDING", x, "RECOVERY_STAGED")
    BY <1>1 DEF LinksTogether
  <2> QED
    BY <1>2, <1>3, <1>4, <2>1, Pends
<1>6. Keeps("OUTPUT")
  BY <1>5, NamesAreApart
<1>7. step'[w] \in PreCommit /\ step'[w] \notin Shadowing \cup Staging
  BY <1>5 DEF PreCommit, Recovering, Shadowing, Staging
<1> QED
  BY <1>1, <1>3, <1>5, <1>6, <1>7, PreparesOn DEF SameWork, SameEnd

\* The names of the slots, and where the steps lie.
LEMMA WhereStepsLie ==
    /\ {"RECOVERY", "RECOVERY_PENDING", "SHADOW", "SHADOW_PENDING", "PUBLISH", "PUBLISH_PENDING"} \subseteq SlotNames
    /\ "OUTPUT" \in OutputNames /\ "OUTPUT" \notin SlotNames /\ SlotNames \subseteq OutputNames
    /\ PreCommit \subseteq Transaction /\ Transaction \subseteq TransactionSteps
    /\ Recovering \cup Shadowing \cup Staging = PreCommit
    /\ Recovering \cap Staging = {} /\ Shadowing \cap Staging = {} /\ Recovering \cap Shadowing = {}
    /\ {"RECOVERY", "RECOVERY_COPY", "RECOVERY_STAGED", "RECOVERED"} \subseteq Recovering
    /\ {"SHADOW", "SHADOW_COPY", "SHADOW_STAGED", "SHADOWED"} \subseteq Shadowing
    /\ {"STAGE", "STAGE_COPY", "STAGE_FILLED", "STAGED"} \subseteq Staging
    /\ {"COMMITTED", "CLOSE"} \cup Restoring \subseteq TransactionSteps
<1>1. {"RECOVERY", "RECOVERY_PENDING", "SHADOW", "SHADOW_PENDING", "PUBLISH", "PUBLISH_PENDING"} \subseteq SlotNames
      /\ "OUTPUT" \in OutputNames /\ "OUTPUT" \notin SlotNames /\ SlotNames \subseteq OutputNames
  BY NamesAreApart DEF SlotNames
<1> QED
  BY <1>1 DEF TransactionSteps, Transaction, PreCommit, Recovering, Shadowing, Staging, Restoring

\* What is at hand before the commit.
LEMMA BeforeCommit ==
    ASSUME PublicationInv, NEW w \in Writers, step[w] \in PreCommit
    PROVE  /\ step[w] \in Recovering \cup Shadowing => work[w].previous # NoValue
           /\ work[w].job # 0
           /\ w \notin disturbed =>
                /\ work[w].previous # NoValue => OutputCurrent(w)
                /\ work[w].previous = NoValue /\ work[w].replace => named["OUTPUT"] = NoValue
                /\ work[w].previous # NoValue /\ step[w] \in Shadowing \cup Staging =>
                      Matches("RECOVERY", work[w].recovery, work[w].previous.bytes)
<1>1. WriterStands(w)
  BY AtHand
<1>2. HasAtStep(w) /\ (w \notin disturbed => OutputStands(w) /\ RecoveryStands(w))
  BY <1>1 DEF WriterStands, AsTheWriterLeftIt
<1>3. step[w] # "IDLE"
  BY DEF PreCommit, Recovering, Shadowing, Staging
<1> QED
  BY <1>2, <1>3 DEF HasAtStep, OutputStands, RecoveryStands

LEMMA CopiesRecovery == ASSUME PublicationInv, NEW w \in Writers, CopyRecovery(w) PROVE GoodStep(w)
<1> USE WhereStepsLie
<1>1. CASE /\ step[w] = "RECOVERY"
           /\ OpenSlot(w, "RECOVERY_PENDING", "RECOVERY", "RECOVERY_COPY")
  <2>1. step[w] \in PreCommit /\ work[w].previous # NoValue
    BY <1>1, BeforeCommit
  <2>2. /\ PublicationTyped' /\ OutputsAreWhole' /\ FrameOf(w) /\ NothingLost(w)
        /\ step'[w] = "RECOVERY_COPY" /\ SameWork(w) /\ disturbed' = disturbed
        /\ \A n \in OutputNames \ {"RECOVERY_PENDING"} : Keeps(n)
        /\ \A x \in OutputNodes : flock[x] = w => flock'[x] = w
    <3>1. "RECOVERY_PENDING" \in SlotNames /\ "RECOVERY_COPY" \in TransactionSteps /\ "RECOVERY" \in Transaction
      OBVIOUS
    <3> QED
      BY <1>1, <3>1, OpensSlot DEF Keeps
  <2> QED
    BY <1>1, <2>1, <2>2, PreparesOn DEF SameWork, SameEnd
<1>2. CASE /\ step[w] = "RECOVERY_COPY" /\ bytes[work[w].previous.node] = work[w].previous.bytes
           /\ FillSlot(w, work[w].previous.bytes, "RECOVERY_COPY", "RECOVERY_STAGED")
  <2>1. step[w] \in PreCommit /\ work[w].previous # NoValue /\ work[w].previous.bytes \in Outputs
        /\ (w \notin disturbed => OutputCurrent(w))
    BY <1>2, BeforeCommit, AtHand
  <2>2. w \notin disturbed => bytes[named["OUTPUT"]] = work[w].previous.bytes
    BY <2>1 DEF OutputCurrent, Matches
  <2>3. /\ PublicationTyped' /\ OutputsAreWhole' /\ FrameOf(w) /\ NothingLost(w)
        /\ step'[w] = "RECOVERY_STAGED" /\ work' = work /\ named' = named /\ flock' = flock /\ disturbed' = disturbed
        /\ \A x \in OutputNodes : bytes'[x] = IF x = work[w].slot THEN work[w].previous.bytes ELSE bytes[x]
    <3>1. "RECOVERY_STAGED" \in TransactionSteps /\ "RECOVERY_COPY" \in Transaction
      OBVIOUS
    <3> QED
      BY <1>2, <2>1, <2>2, <3>1, FillsSlot
  <2>4. w \notin disturbed => Keeps("OUTPUT")
    BY <2>2, <2>3, AtHand DEF Keeps, NodeOrNone
  <2> QED
    BY <1>2, <2>1, <2>3, <2>4, PreparesOn DEF SameBegin, SameLock, SamePrevious
<1> QED
  BY <1>1, <1>2 DEF CopyRecovery

LEMMA InstallsRecovery == ASSUME PublicationInv, NEW w \in Writers, InstallRecovery(w) PROVE GoodStep(w)
<1> USE WhereStepsLie
<1>1. CASE InstallSlot(w, "RECOVERY_PENDING", "RECOVERY", "RECOVERY_STAGED", "RECOVERED")
  <2>1. step[w] = "RECOVERY_STAGED"
    BY <1>1 DEF InstallSlot, Steps
  <2>2. step[w] \in PreCommit /\ work[w].previous # NoValue
    BY <2>1, BeforeCommit
  <2>3. /\ PublicationTyped' /\ OutputsAreWhole' /\ FrameOf(w) /\ NothingLost(w) /\ step'[w] = "RECOVERED"
        /\ work' = work /\ bytes' = bytes /\ flock' = flock /\ disturbed' = disturbed
        /\ \A n \in OutputNames \ {"RECOVERY_PENDING", "RECOVERY"} : named'[n] = named[n]
    <3>1. "RECOVERY_STAGED" \in Transaction /\ "RECOVERED" \in TransactionSteps
      OBVIOUS
    <3> QED
      BY <1>1, <3>1, InstallsSlot
  <2>4. Keeps("OUTPUT")
    BY <2>3 DEF Keeps
  <2> QED
    BY <2>1, <2>2, <2>3, <2>4, PreparesOn DEF SameBegin, SameLock, SamePrevious
<1>2. CASE /\ Steps(w, "RECOVERED", "SHADOW")
           /\ Matches("RECOVERY", work[w].slot, work[w].previous.bytes)
           /\ Holds(w, "recovery", work[w].slot)
           /\ UNCHANGED <<named, bytes, flock, generation, disturbed, budget>>
  <2>1. step[w] = "RECOVERED" /\ step' = [step EXCEPT ![w] = "SHADOW"]
    BY <1>2 DEF Steps
  <2>2. step[w] \in PreCommit /\ work[w].previous # NoValue
    BY <2>1, BeforeCommit
  <2>3. OnlyTheWorkOf(w) /\ SameBegin(w) /\ SameLock(w) /\ SamePrevious(w) /\ SameSlot(w) /\ SameEnd(w)
        /\ work'[w].recovery = work[w].slot
    <3>1. PublicationTyped /\ work[w].slot \in NodeOrNone
      BY AtHand
    <3> QED
      BY <1>2, <3>1, Notes
  <2>4. /\ PublicationTyped' /\ OutputsAreWhole' /\ FrameOf(w) /\ NothingLost(w) /\ step'[w] = "SHADOW"
        /\ \A y \in OutputNodes : flock[y] = w => flock'[y] = w
    <3>1. "SHADOW" \in PublicationSteps \ {"IDLE", "WRITE_ANCHOR"}
      BY DEF PublicationSteps, Transaction, PreCommit, Shadowing
    <3>2. LocksAreLeft(w) /\ flock' \in [OutputNodes -> Writers \cup {NoValue}]
      BY <1>2, AtHand DEF LocksAreLeft
    <3>3. budget' \in [jobs : 0..MaxPublications, user : 0..MaxUserActions, deaths : 0..MaxDeaths]
      BY <1>2, AtHand DEF PublicationTyped
    <3>4. work'[w].slot \in {NoValue, work[w].slot}
      BY <2>3 DEF SameSlot
    <3> QED
      BY <1>2, <2>1, <2>3, <3>1, <3>2, <3>3, <3>4, Quiet
  <2>5. Matches("RECOVERY", work[w].recovery, work[w].previous.bytes)' /\ Keeps("OUTPUT")
    BY <1>2, <2>3 DEF Matches, SamePrevious, Keeps
  <2> QED
    BY <1>2, <2>1, <2>2, <2>3, <2>4, <2>5, PreparesOn DEF SameEnd
<1> QED
  BY <1>1, <1>2 DEF InstallRecovery

\* With the shadow the recovery is prepared.
LEMMA EndsShadow ==
    ASSUME PublicationInv, NEW w \in Writers, step[w] \in Shadowing, step' = [step EXCEPT ![w] = "STAGE"],
           UNCHANGED <<named, bytes, flock, generation, work, disturbed, budget>>
    PROVE  GoodStep(w)
<1>1. /\ PublicationTyped' /\ OutputsAreWhole' /\ FrameOf(w) /\ NothingLost(w) /\ step'[w] = "STAGE"
      /\ \A y \in OutputNodes : flock[y] = w => flock'[y] = w
  <2>1. "STAGE" \in PublicationSteps \ {"IDLE", "WRITE_ANCHOR"}
    BY DEF PublicationSteps, Transaction, PreCommit, Staging
  <2>2. LocksAreLeft(w) /\ flock' \in [OutputNodes -> Writers \cup {NoValue}] /\ OnlyTheWorkOf(w)
    BY AtHand DEF LocksAreLeft, OnlyTheWorkOf
  <2>3. budget' \in [jobs : 0..MaxPublications, user : 0..MaxUserActions, deaths : 0..MaxDeaths]
    BY AtHand DEF PublicationTyped
  <2>4. work'[w].slot \in {NoValue, work[w].slot}
    OBVIOUS
  <2> QED
    BY <2>1, <2>2, <2>3, <2>4, Quiet
<1>2. w \notin disturbed => Matches("RECOVERY", work[w].recovery, work[w].previous.bytes)
  BY BeforeCommit, WhereStepsLie
<1>3. Keeps("OUTPUT") /\ (Matches("RECOVERY", work[w].recovery, work[w].previous.bytes)
                          => Matches("RECOVERY", work[w].recovery, work[w].previous.bytes)')
  BY DEF Keeps, Matches
<1>4. step[w] \in PreCommit /\ step'[w] \in PreCommit /\ step'[w] \in Staging
  BY <1>1, WhereStepsLie
<1>5. SameBegin(w) /\ SameLock(w) /\ SamePrevious(w) /\ work'[w].outcome = work[w].outcome
  BY DEF SameBegin, SameLock, SamePrevious
<1> QED
  BY <1>1, <1>2, <1>3, <1>4, <1>5, PreparesOn

LEMMA LinksShadow == ASSUME PublicationInv, NEW w \in Writers, LinkShadow(w) PROVE GoodStep(w)
<1> DEFINE x == IF CanLink /\ named["SHADOW_PENDING"] = NoValue THEN named["RECOVERY"] ELSE named["SHADOW_PENDING"]
<1>1. /\ step[w] = "SHADOW" /\ step' = [step EXCEPT ![w] = "SHADOW_STAGED"] /\ Owns(w)
      /\ x = work[w].recovery /\ bytes[x] = work[w].previous.bytes
      /\ named' = [named EXCEPT !["SHADOW_PENDING"] = x] /\ Holds(w, "slot", x)
      /\ UNCHANGED <<bytes, flock, generation, disturbed, budget>>
  BY DEF LinkShadow, Steps
<1>2. \E m \in OtherNames : named[m] = x
  BY NamesAreApart DEF OtherNames
<1> HIDE DEF x
<1>3. step[w] \in PreCommit /\ step[w] \in Transaction /\ step[w] \notin Staging /\ work[w].previous # NoValue
  BY <1>1, BeforeCommit, WhereStepsLie
<1>4. /\ PublicationTyped' /\ OutputsAreWhole' /\ FrameOf(w) /\ NothingLost(w) /\ step'[w] = "SHADOW_STAGED"
      /\ SameWork(w) /\ \A n \in OutputNames \ {"SHADOW_PENDING"} : Keeps(n)
      /\ \A y \in OutputNodes : flock[y] = w => flock'[y] = w
  <2>1. CASE x # NoValue
    <3>1. x \in OutputNodes /\ "SHADOW_PENDING" \in SlotNames /\ "SHADOW_STAGED" \in TransactionSteps
      BY <1>1, <2>1, AtHand, WhereStepsLie DEF NodeOrNone
    <3>2. LinksTogether(w, "SHADOW_PENDING", x, "SHADOW_STAGED")
      BY <1>1 DEF LinksTogether
    <3> QED
      BY <1>2, <1>3, <3>1, <3>2, Pends
  <2>2. CASE x = NoValue
    <3>1. named["SHADOW_PENDING"] = NoValue
      BY <2>2 DEF x
    <3>2. named' = named
      BY <1>1, <2>2, <3>1, AtHand
    <3>3. OnlyTheWorkOf(w) /\ SameWork(w) /\ work'[w].slot = NoValue
      <4>1. PublicationTyped /\ x \in NodeOrNone
        BY <2>2, AtHand DEF NodeOrNone
      <4> QED
        BY <1>1, <2>2, <4>1, Notes DEF SameWork
    <3>4. "SHADOW_STAGED" \in PublicationSteps \ {"IDLE", "WRITE_ANCHOR"}
      BY DEF PublicationSteps, Transaction, PreCommit, Shadowing
    <3>5. LocksAreLeft(w) /\ flock' \in [OutputNodes -> Writers \cup {NoValue}]
      BY <1>1, AtHand DEF LocksAreLeft
    <3>6. budget' \in [jobs : 0..MaxPublications, user : 0..MaxUserActions, deaths : 0..MaxDeaths]
      BY <1>1, AtHand DEF PublicationTyped
    <3>7. \A n \in OutputNames \ {"SHADOW_PENDING"} : Keeps(n)
      BY <1>1, <3>2 DEF Keeps
    <3> QED
      BY <1>1, <3>2, <3>3, <3>4, <3>5, <3>6, <3>7, Quiet
  <2> QED
    BY <2>1, <2>2
<1>5. step'[w] \in PreCommit /\ step'[w] \notin Staging
  BY <1>4, WhereStepsLie
<1>6. Keeps("OUTPUT") /\ Keeps("RECOVERY")
  BY <1>4, NamesAreApart
<1>7. w \notin disturbed => Matches("RECOVERY", work[w].recovery, work[w].previous.bytes)'
  <2>1. w \notin disturbed => Matches("RECOVERY", work[w].recovery, work[w].previous.bytes)
    BY <1>1, <1>3, BeforeCommit, WhereStepsLie
  <2> QED
    BY <1>4, <1>6, <2>1 DEF SameWork, SameRecovery, SamePrevious, Matches, Keeps
<1> QED
  BY <1>1, <1>3, <1>4, <1>5, <1>6, <1>7, PreparesOn, WhereStepsLie DEF SameWork, SameEnd

LEMMA CopiesShadow == ASSUME PublicationInv, NEW w \in Writers, CopyShadow(w) PROVE GoodStep(w)
<1> USE WhereStepsLie
<1>1. CASE OpenSlot(w, "SHADOW_PENDING", "SHADOW", "SHADOW_COPY")
  <2>1. step[w] = "SHADOW"
    BY <1>1 DEF OpenSlot, Steps
  <2>2. step[w] \in PreCommit /\ work[w].previous # NoValue
        /\ (w \notin disturbed => Matches("RECOVERY", work[w].recovery, work[w].previous.bytes))
    BY <2>1, BeforeCommit
  <2>3. /\ PublicationTyped' /\ OutputsAreWhole' /\ FrameOf(w) /\ NothingLost(w)
        /\ step'[w] = "SHADOW_COPY" /\ SameWork(w) /\ disturbed' = disturbed
        /\ \A n \in OutputNames \ {"SHADOW_PENDING"} : Keeps(n)
        /\ \A x \in OutputNodes : flock[x] = w => flock'[x] = w
    <3>1. "SHADOW_PENDING" \in SlotNames /\ "SHADOW_COPY" \in TransactionSteps /\ "SHADOW" \in Transaction
      OBVIOUS
    <3> QED
      BY <1>1, <3>1, OpensSlot DEF Keeps
  <2>4. Keeps("OUTPUT") /\ Keeps("RECOVERY")
    BY <2>3, NamesAreApart
  <2>5. w \notin disturbed => Matches("RECOVERY", work[w].recovery, work[w].previous.bytes)'
    BY <2>2, <2>3, <2>4 DEF SameWork, SameRecovery, SamePrevious, Matches, Keeps
  <2> QED
    BY <2>1, <2>2, <2>3, <2>4, <2>5, PreparesOn DEF SameWork, SameEnd
<1>2. CASE /\ step[w] = "SHADOW_COPY" /\ bytes[work[w].recovery] = work[w].previous.bytes
           /\ FillSlot(w, work[w].previous.bytes, "SHADOW_COPY", "SHADOW_STAGED")
  <2>1. step[w] \in PreCommit /\ work[w].previous # NoValue /\ work[w].previous.bytes \in Outputs
        /\ (w \notin disturbed => OutputCurrent(w) /\ Matches("RECOVERY", work[w].recovery, work[w].previous.bytes))
    BY <1>2, BeforeCommit, AtHand
  <2>2. w \notin disturbed => bytes[named["OUTPUT"]] = work[w].previous.bytes
    BY <2>1 DEF OutputCurrent, Matches
  <2>3. /\ PublicationTyped' /\ OutputsAreWhole' /\ FrameOf(w) /\ NothingLost(w)
        /\ step'[w] = "SHADOW_STAGED" /\ work' = work /\ named' = named /\ flock' = flock /\ disturbed' = disturbed
        /\ \A x \in OutputNodes : bytes'[x] = IF x = work[w].slot THEN work[w].previous.bytes ELSE bytes[x]
    <3>1. "SHADOW_STAGED" \in TransactionSteps /\ "SHADOW_COPY" \in Transaction
      OBVIOUS
    <3> QED
      BY <1>2, <2>1, <2>2, <3>1, FillsSlot
  <2>4. w \notin disturbed => Keeps("OUTPUT")
    BY <2>2, <2>3, AtHand DEF Keeps, NodeOrNone
  <2>5. w \notin disturbed => Matches("RECOVERY", work[w].recovery, work[w].previous.bytes)'
    BY <2>1, <2>3, AtHand DEF Matches, NodeOrNone
  <2> QED
    BY <1>2, <2>1, <2>3, <2>4, <2>5, PreparesOn DEF SameBegin, SameLock, SamePrevious
<1> QED
  BY <1>1, <1>2 DEF CopyShadow

LEMMA InstallsShadow == ASSUME PublicationInv, NEW w \in Writers, InstallShadow(w) \/ KeepShadow(w) PROVE GoodStep(w)
<1> USE WhereStepsLie
<1>1. CASE InstallSlot(w, "SHADOW_PENDING", "SHADOW", "SHADOW_STAGED", "SHADOWED")
  <2>1. step[w] = "SHADOW_STAGED"
    BY <1>1 DEF InstallSlot, Steps
  <2>2. step[w] \in PreCommit /\ work[w].previous # NoValue
        /\ (w \notin disturbed => Matches("RECOVERY", work[w].recovery, work[w].previous.bytes))
    BY <2>1, BeforeCommit
  <2>3. /\ PublicationTyped' /\ OutputsAreWhole' /\ FrameOf(w) /\ NothingLost(w) /\ step'[w] = "SHADOWED"
        /\ work' = work /\ bytes' = bytes /\ flock' = flock /\ disturbed' = disturbed
        /\ \A n \in OutputNames \ {"SHADOW_PENDING", "SHADOW"} : named'[n] = named[n]
    <3>1. "SHADOW_STAGED" \in Transaction /\ "SHADOWED" \in TransactionSteps
      OBVIOUS
    <3> QED
      BY <1>1, <3>1, InstallsSlot
  <2>4. Keeps("OUTPUT") /\ named'["RECOVERY"] = named["RECOVERY"]
    BY <2>3, NamesAreApart DEF Keeps
  <2>5. w \notin disturbed => Matches("RECOVERY", work[w].recovery, work[w].previous.bytes)'
    BY <2>2, <2>3, <2>4 DEF Matches
  <2> QED
    BY <2>1, <2>2, <2>3, <2>4, <2>5, PreparesOn DEF SameBegin, SameLock, SamePrevious
<1>2. CASE /\ Steps(w, "SHADOWED", "STAGE") \/ Steps(w, "SHADOW", "STAGE")
           /\ UNCHANGED <<named, bytes, flock, generation, work, disturbed, budget>>
  <2>1. step[w] \in Shadowing /\ step' = [step EXCEPT ![w] = "STAGE"]
    BY <1>2 DEF Steps
  <2> QED
    BY <1>2, <2>1, EndsShadow
<1> QED
  BY <1>1, <1>2 DEF InstallShadow, KeepShadow

LEMMA StagesCandidate == ASSUME PublicationInv, NEW w \in Writers, StageCandidate(w) PROVE GoodStep(w)
<1> USE WhereStepsLie
<1>1. CASE OpenSlot(w, "PUBLISH_PENDING", "STAGE", "STAGE_COPY")
  <2>1. step[w] = "STAGE"
    BY <1>1 DEF OpenSlot, Steps
  <2>2. step[w] \in PreCommit /\ (w \notin disturbed /\ work[w].previous # NoValue =>
            Matches("RECOVERY", work[w].recovery, work[w].previous.bytes))
    BY <2>1, BeforeCommit
  <2>3. /\ PublicationTyped' /\ OutputsAreWhole' /\ FrameOf(w) /\ NothingLost(w)
        /\ step'[w] = "STAGE_COPY" /\ SameWork(w) /\ disturbed' = disturbed
        /\ \A n \in OutputNames \ {"PUBLISH_PENDING"} : Keeps(n)
        /\ OnlyAt(work[w].slot, "PUBLISH_PENDING")'
        /\ \A x \in OutputNodes : flock[x] = w => flock'[x] = w
    <3>1. "PUBLISH_PENDING" \in SlotNames /\ "STAGE_COPY" \in TransactionSteps /\ "STAGE" \in Transaction
      OBVIOUS
    <3> QED
      BY <1>1, <3>1, OpensSlot DEF Keeps
  <2>4. Keeps("OUTPUT") /\ Keeps("RECOVERY")
    BY <2>3, NamesAreApart
  <2>5. w \notin disturbed /\ work[w].previous # NoValue =>
            Matches("RECOVERY", work[w].recovery, work[w].previous.bytes)'
    BY <2>2, <2>3, <2>4 DEF SameWork, SameRecovery, SamePrevious, Matches, Keeps
  <2> QED
    BY <2>1, <2>2, <2>3, <2>4, <2>5, PreparesOn DEF SameWork, SameEnd
<1>2. CASE FillSlot(w, JobBytes(work[w].job), "STAGE_COPY", "STAGE_FILLED")
  <2>1. step[w] = "STAGE_COPY"
    BY <1>2 DEF FillSlot, Steps
  <2>2. step[w] \in PreCommit /\ JobBytes(work[w].job) \in Outputs
        /\ (w \notin disturbed /\ work[w].previous # NoValue =>
              Matches("RECOVERY", work[w].recovery, work[w].previous.bytes))
    BY <2>1, BeforeCommit, AtHand
  <2>3. w \notin disturbed => OnlyAt(work[w].slot, "PUBLISH_PENDING")
    BY <2>1, AtHand DEF WriterStands, AsTheWriterLeftIt, SlotStands
  <2>4. w \notin disturbed => named["OUTPUT"] # work[w].slot /\ named["RECOVERY"] # work[w].slot
    BY <2>3, NamesAreApart DEF OnlyAt
  <2>5. /\ PublicationTyped' /\ OutputsAreWhole' /\ FrameOf(w) /\ NothingLost(w)
        /\ step'[w] = "STAGE_FILLED" /\ work' = work /\ named' = named /\ flock' = flock /\ disturbed' = disturbed
        /\ \A x \in OutputNodes : bytes'[x] = IF x = work[w].slot THEN JobBytes(work[w].job) ELSE bytes[x]
    <3>1. "STAGE_FILLED" \in TransactionSteps /\ "STAGE_COPY" \in Transaction
      OBVIOUS
    <3> QED
      BY <1>2, <2>2, <2>4, <3>1, FillsSlot
  <2>6. w \notin disturbed => Keeps("OUTPUT") /\ Keeps("RECOVERY")
    BY <2>4, <2>5, AtHand, NamesAreApart DEF Keeps, NodeOrNone
  <2>7. w \notin disturbed /\ work[w].previous # NoValue =>
            Matches("RECOVERY", work[w].recovery, work[w].previous.bytes)'
    BY <2>2, <2>5, <2>6 DEF Matches, Keeps
  <2> QED
    BY <2>1, <2>2, <2>5, <2>6, <2>7, PreparesOn DEF SameBegin, SameLock, SamePrevious
<1>3. CASE InstallSlot(w, "PUBLISH_PENDING", "PUBLISH", "STAGE_FILLED", "STAGED")
  <2>1. step[w] = "STAGE_FILLED"
    BY <1>3 DEF InstallSlot, Steps
  <2>2. step[w] \in PreCommit /\ (w \notin disturbed /\ work[w].previous # NoValue =>
            Matches("RECOVERY", work[w].recovery, work[w].previous.bytes))
    BY <2>1, BeforeCommit
  <2>3. /\ PublicationTyped' /\ OutputsAreWhole' /\ FrameOf(w) /\ NothingLost(w) /\ step'[w] = "STAGED"
        /\ work' = work /\ bytes' = bytes /\ flock' = flock /\ disturbed' = disturbed
        /\ \A n \in OutputNames \ {"PUBLISH_PENDING", "PUBLISH"} : named'[n] = named[n]
    <3>1. "STAGE_FILLED" \in Transaction /\ "STAGED" \in TransactionSteps
      OBVIOUS
    <3> QED
      BY <1>3, <3>1, InstallsSlot
  <2>4. Keeps("OUTPUT") /\ named'["RECOVERY"] = named["RECOVERY"]
    BY <2>3, NamesAreApart DEF Keeps
  <2>5. w \notin disturbed /\ work[w].previous # NoValue =>
            Matches("RECOVERY", work[w].recovery, work[w].previous.bytes)'
    BY <2>2, <2>3, <2>4 DEF Matches
  <2> QED
    BY <2>1, <2>2, <2>3, <2>4, <2>5, PreparesOn DEF SameBegin, SameLock, SamePrevious
<1> QED
  BY <1>1, <1>2, <1>3 DEF StageCandidate

\* A file of a private directory takes the place of the output.
TakesOver(w, name, from, to) ==
    /\ Rename(name, "OUTPUT") /\ Steps(w, from, to)
    /\ UNCHANGED <<bytes, flock, generation, work, disturbed, budget>>
LEMMA TakesPlace ==
    ASSUME PublicationInv, NEW w \in Writers, NEW name \in SlotNames, NEW from, NEW to \in TransactionSteps,
           TakesOver(w, name, from, to), from \in Transaction, bytes[named[name]] \in Outputs
    PROVE  /\ PublicationTyped' /\ OutputsAreWhole' /\ FrameOf(w)
           /\ step[w] = from /\ step'[w] = to /\ InTransaction(w)
           /\ work' = work /\ bytes' = bytes /\ flock' = flock /\ disturbed' = disturbed
           /\ named'["OUTPUT"] = named[name] /\ named[name] # NoValue
           /\ \A n \in OutputNames \ {name, "OUTPUT"} : named'[n] = named[n]
<1>1. /\ step[w] = from /\ step' = [step EXCEPT ![w] = to] /\ named[name] # NoValue
      /\ UNCHANGED <<bytes, flock, generation, work, disturbed, budget>>
      /\ named' = [named EXCEPT !["OUTPUT"] = named[name], ![name] = NoValue]
  BY DEF TakesOver, Steps, Rename
<1>2. name \in OutputNames /\ name \in OtherNames /\ name # "OUTPUT" /\ name # "MOVED"
      /\ {"OUTPUT", "MOVED", "ANCHOR"} \subseteq OutputNames
  BY NamesAreApart DEF SlotNames, OtherNames
<1>3. /\ named'["OUTPUT"] = named[name] /\ named'[name] = NoValue
      /\ \A n \in OutputNames \ {name, "OUTPUT"} : named'[n] = named[n]
  BY <1>1, <1>2, AtHand
<1>4. PublicationTyped' /\ step'[w] = to /\ \A v \in Writers \ {w} : step'[v] = step[v]
  <2>1. to \in PublicationSteps \ {"IDLE"}
    BY DEF PublicationSteps, TransactionSteps, Transaction, PreCommit, Recovering, Shadowing, Staging, Restoring
  <2>2. named' \in [OutputNames -> NodeOrNone] /\ bytes' \in [OutputNodes -> AnyBytes]
        /\ flock' \in [OutputNodes -> Writers \cup {NoValue}] /\ OnlyTheWorkOf(w)
        /\ \A y \in OutputNodes : flock'[y] \in {flock[y], w}
    BY <1>1, <1>2, AtHand DEF OnlyTheWorkOf, NodeOrNone
  <2>3. PublicationTyped /\ budget' \in [jobs : 0..MaxPublications, user : 0..MaxUserActions, deaths : 0..MaxDeaths]
    BY <1>1, AtHand DEF PublicationTyped
  <2> QED
    BY <1>1, <2>1, <2>2, <2>3, TypedStep
<1>5. FrameOf(w)
  <2>1. step'[w] # "WRITE_ANCHOR"
    BY <1>4 DEF TransactionSteps, Transaction, PreCommit, Recovering, Shadowing, Staging, Restoring
  <2>2. named'["ANCHOR"] = named["ANCHOR"] /\ named["ANCHOR"] # FreshNode
    BY <1>2, <1>3, AtHand DEF OtherNames
  <2>3. \A n \in OtherNames : named'[n] = NoValue \/ \E m \in OtherNames : named'[n] = named[m]
    BY <1>2, <1>3 DEF OtherNames
  <2> QED
    BY <1>1, <1>4, <2>1, <2>2, <2>3 DEF FrameOf
<1>6. OutputsAreWhole'
  BY <1>1, <1>2, <1>3, AtHand DEF OutputsAreWhole
<1> QED
  BY <1>1, <1>3, <1>4, <1>5, <1>6 DEF InTransaction

LEMMA StandsAfterCommit ==
    ASSUME NEW w \in Writers, step'[w] \in {"COMMITTED", "CLOSE"} \cup Restoring,
           HasAtStep(w)', LockStands(w)', RestoreStands(w)',
           w \notin disturbed' => RecoveryStands(w)' /\ SlotStands(w)' /\ CommitStands(w)' /\ EndStands(w)'
    PROVE  WriterStands(w)'
<1>1. OutputStands(w)'
  BY DEF OutputStands, PreCommit, Recovering, Shadowing, Staging, Restoring
<1> QED
  BY <1>1 DEF WriterStands, AsTheWriterLeftIt

LEMMA CommitsOutput == ASSUME PublicationInv, NEW w \in Writers, CommitOutput(w) PROVE GoodStep(w)
<1> USE WhereStepsLie
<1>1. /\ step[w] = "STAGED" /\ Matches("PUBLISH", work[w].slot, JobBytes(work[w].job))
      /\ (~work[w].replace => named["OUTPUT"] = NoValue) /\ TakesOver(w, "PUBLISH", "STAGED", "COMMITTED")
  BY DEF CommitOutput, TakesOver
<1>2. step[w] \in PreCommit /\ work[w].job # 0 /\ JobBytes(work[w].job) \in Outputs
  BY <1>1, BeforeCommit, AtHand
<1>3. w \notin disturbed =>
        /\ work[w].previous # NoValue =>
             OutputCurrent(w) /\ Matches("RECOVERY", work[w].recovery, work[w].previous.bytes)
        /\ work[w].previous = NoValue /\ work[w].replace => named["OUTPUT"] = NoValue
  BY <1>1, <1>2, BeforeCommit
<1>4. /\ PublicationTyped' /\ OutputsAreWhole' /\ FrameOf(w) /\ step'[w] = "COMMITTED" /\ InTransaction(w)
      /\ work' = work /\ bytes' = bytes /\ flock' = flock /\ disturbed' = disturbed
      /\ named'["OUTPUT"] = named["PUBLISH"] /\ named["PUBLISH"] # NoValue
      /\ \A n \in OutputNames \ {"PUBLISH", "OUTPUT"} : named'[n] = named[n]
  <2>1. bytes[named["PUBLISH"]] \in Outputs /\ "STAGED" \in Transaction /\ "COMMITTED" \in TransactionSteps
    BY <1>1, <1>2 DEF Matches
  <2> QED
    BY <1>1, <2>1, TakesPlace
<1>5. named'["RECOVERY"] = named["RECOVERY"] /\ "RECOVERY" \in OutputNames
  BY <1>4, NamesAreApart
<1>6. NothingLost(w)
  <2>1. SUFFICES ASSUME w \notin disturbed, named["OUTPUT"] # NoValue
                 PROVE  named'["RECOVERY"] # NoValue /\ bytes'[named'["RECOVERY"]] = bytes[named["OUTPUT"]]
    BY <1>5 DEF NothingLost
  <2>2. OutputCurrent(w) /\ Matches("RECOVERY", work[w].recovery, work[w].previous.bytes)
    BY <1>1, <1>3, <2>1
  <2> QED
    BY <1>4, <1>5, <2>2 DEF OutputCurrent, Matches
<1>7. WriterStands(w)'
  <2>1. HasAtStep(w)' /\ RestoreStands(w)'
    BY <1>1, <1>4, AtHand DEF WriterStands, HasAtStep, RestoreStands, BeforeTransaction, Recovering, Shadowing, Restoring
  <2>2. LockStands(w)'
    <3>1. step'[w] # "WRITE_ANCHOR" /\ SameBegin(w) /\ SameLock(w)
      BY <1>4 DEF SameBegin, SameLock
    <3> QED
      BY <1>4, <3>1, LockKept
  <2>3. w \notin disturbed' => RecoveryStands(w)' /\ SlotStands(w)' /\ CommitStands(w)' /\ EndStands(w)'
    <3>1. w \notin disturbed' => RecoveryStands(w)'
      BY <1>3, <1>4, <1>5 DEF RecoveryStands, Matches
    <3>2. SlotStands(w)' /\ CommitStands(w)' /\ EndStands(w)'
      BY <1>1, <1>4 DEF SlotStands, CommitStands, EndStands, Matches, Restoring, JobBytes
    <3> QED
      BY <3>1, <3>2
  <2> QED
    BY <1>4, <2>1, <2>2, <2>3, StandsAfterCommit
<1> QED
  BY <1>4, <1>6, <1>7 DEF GoodStep

\* A step that notes how far the call has come, or how it went.
Tells(w, to, field, x) ==
    /\ step' = [step EXCEPT ![w] = to] /\ Holds(w, field, x)
    /\ UNCHANGED <<named, bytes, flock, generation, disturbed, budget>>
LEMMA Telling ==
    ASSUME PublicationInv, NEW w \in Writers, NEW to \in TransactionSteps, NEW field, NEW x, Tells(w, to, field, x),
           \/ field = "outcome" /\ x \in {"PUBLISHED", "RAISED", "ROLLED_BACK", "CATASTROPHE"}
           \/ field = "tries" /\ x \in 0..(RestoreAttempts - 1)
    PROVE  /\ PublicationTyped' /\ OutputsAreWhole' /\ FrameOf(w) /\ CalmOf(w) /\ NothingLost(w) /\ step'[w] = to
           /\ named' = named /\ bytes' = bytes /\ flock' = flock /\ disturbed' = disturbed
           /\ SameBegin(w) /\ SameLock(w) /\ SamePrevious(w) /\ SameRecovery(w) /\ SameSlot(w)
           /\ field = "outcome" => work'[w].outcome = x /\ work'[w].tries = work[w].tries
           /\ field = "tries" => work'[w].tries = x /\ work'[w].outcome = work[w].outcome
<1>1. /\ OnlyTheWorkOf(w) /\ SameBegin(w) /\ SameLock(w) /\ SamePrevious(w) /\ SameRecovery(w) /\ SameSlot(w)
      /\ field = "outcome" => work'[w].outcome = x /\ work'[w].tries = work[w].tries
      /\ field = "tries" => work'[w].tries = x /\ work'[w].outcome = work[w].outcome
  <2>1. PublicationTyped
    BY AtHand
  <2>2. CASE field = "outcome"
    <3>1. Holds(w, "outcome", x) /\ x \in {"PUBLISHED", "RAISED", "ROLLED_BACK", "CATASTROPHE"}
      BY <2>2 DEF Tells
    <3> QED
      BY <2>1, <2>2, <3>1, Notes
  <2>3. CASE field = "tries"
    <3>1. Holds(w, "tries", x) /\ x \in 0..(RestoreAttempts - 1)
      BY <2>3 DEF Tells
    <3> QED
      BY <2>1, <2>3, <3>1, Notes
  <2> QED
    BY <2>2, <2>3
<1>2. to \in PublicationSteps \ {"IDLE", "WRITE_ANCHOR"}
  BY DEF PublicationSteps, TransactionSteps, Transaction, PreCommit, Recovering, Shadowing, Staging, Restoring
<1>3. LocksAreLeft(w) /\ flock' \in [OutputNodes -> Writers \cup {NoValue}]
  BY AtHand DEF LocksAreLeft, Tells
<1>4. budget' \in [jobs : 0..MaxPublications, user : 0..MaxUserActions, deaths : 0..MaxDeaths]
  BY AtHand DEF PublicationTyped, Tells
<1>5. work'[w].slot \in {NoValue, work[w].slot}
  BY <1>1 DEF SameSlot
<1>6. /\ PublicationTyped' /\ OutputsAreWhole' /\ FrameOf(w) /\ CalmOf(w) /\ NothingLost(w) /\ step'[w] = to
  BY <1>1, <1>2, <1>3, <1>4, <1>5, Quiet DEF Tells
<1> QED
  BY <1>1, <1>6 DEF Tells

LEMMA VerifiesOutput == ASSUME PublicationInv, NEW w \in Writers, Verify(w) PROVE GoodStep(w)
<1>1. /\ step[w] = "COMMITTED" /\ Tells(w, "CLOSE", "outcome", "PUBLISHED")
      /\ Matches("OUTPUT", work[w].slot, JobBytes(work[w].job)) /\ UNCHANGED <<named, bytes>>
  BY DEF Verify, Steps, Tells
<1>2. InTransaction(w) /\ "CLOSE" \in TransactionSteps
  BY <1>1 DEF InTransaction, Transaction, TransactionSteps
<1>3. /\ PublicationTyped' /\ OutputsAreWhole' /\ FrameOf(w) /\ CalmOf(w) /\ NothingLost(w) /\ step'[w] = "CLOSE"
      /\ named' = named /\ bytes' = bytes /\ flock' = flock /\ disturbed' = disturbed
      /\ SameBegin(w) /\ SameLock(w) /\ SamePrevious(w) /\ SameRecovery(w) /\ SameSlot(w)
      /\ work'[w].outcome = "PUBLISHED"
  BY <1>1, <1>2, Telling
<1>4. WriterStands(w)'
  <2>1. HasAtStep(w)' /\ RestoreStands(w)'
    BY <1>1, <1>3, AtHand DEF WriterStands, HasAtStep, RestoreStands, BeforeTransaction, Recovering, Shadowing, Restoring,
       SameBegin, SamePrevious
  <2>2. LockStands(w)'
    <3>1. step'[w] # "WRITE_ANCHOR" /\ \A x \in OutputNodes : flock[x] = w => flock'[x] = w
      BY <1>3
    <3> QED
      BY <1>2, <1>3, <3>1, LockKept
  <2>3. RecoveryStands(w)' /\ SlotStands(w)' /\ CommitStands(w)' /\ EndStands(w)'
    BY <1>1, <1>3 DEF RecoveryStands, SlotStands, CommitStands, EndStands, Matches, Restoring, Shadowing, Staging,
       JobBytes, SameSlot, SameBegin
  <2> QED
    BY <1>3, <2>1, <2>2, <2>3, StandsAfterCommit
<1> QED
  BY <1>3, <1>4 DEF GoodStep

\* A step fails: before the transaction, before the commit, or from it on.
LEMMA FailsOrRollsBack == ASSUME PublicationInv, NEW w \in Writers, StepFails(w) PROVE GoodStep(w)
<1>1. step[w] \notin {"IDLE", "CLOSE"} \cup Restoring /\ UNCHANGED <<named, bytes, flock, generation, disturbed, budget>>
  BY DEF StepFails
<1>2. HasAtStep(w) /\ LockStands(w) /\ step[w] \in PublicationSteps /\ work[w].outcome = NoValue
      /\ (w \notin disturbed => AsTheWriterLeftIt(w))
  BY <1>1, AtHand DEF WriterStands, HasAtStep
<1>3. CASE /\ step[w] \in {"STAGED", "COMMITTED"} /\ work[w].previous # NoValue
           /\ step' = [step EXCEPT ![w] = "ROLLBACK"] /\ UNCHANGED work
  <2>1. InTransaction(w)
    BY <1>3 DEF InTransaction, Transaction, PreCommit, Staging
  <2>2. /\ PublicationTyped' /\ OutputsAreWhole' /\ FrameOf(w) /\ NothingLost(w) /\ step'[w] = "ROLLBACK"
        /\ \A y \in OutputNodes : flock[y] = w => flock'[y] = w
    <3>1. "ROLLBACK" \in PublicationSteps \ {"IDLE", "WRITE_ANCHOR"}
      BY DEF PublicationSteps, Transaction, Restoring
    <3>2. LocksAreLeft(w) /\ flock' \in [OutputNodes -> Writers \cup {NoValue}] /\ OnlyTheWorkOf(w)
      BY <1>1, <1>3, AtHand DEF LocksAreLeft, OnlyTheWorkOf
    <3>3. budget' \in [jobs : 0..MaxPublications, user : 0..MaxUserActions, deaths : 0..MaxDeaths]
      BY <1>1, AtHand DEF PublicationTyped
    <3>4. work'[w].slot \in {NoValue, work[w].slot}
      BY <1>3
    <3> QED
      BY <1>1, <1>3, <3>1, <3>2, <3>3, <3>4, Quiet
  <2>3. HasAtStep(w)' /\ RestoreStands(w)'
    BY <1>2, <1>3, <2>2 DEF HasAtStep, RestoreStands, BeforeTransaction
  <2>4. LockStands(w)'
    <3>1. step'[w] # "WRITE_ANCHOR" /\ SameBegin(w) /\ SameLock(w)
      BY <1>3, <2>2 DEF SameBegin, SameLock
    <3> QED
      BY <2>1, <2>2, <3>1, LockKept
  <2>5. ASSUME w \notin disturbed' PROVE RecoveryStands(w)' /\ SlotStands(w)' /\ CommitStands(w)' /\ EndStands(w)'
    <3>1. OutputStands(w) /\ RecoveryStands(w) /\ CommitStands(w)
      BY <1>1, <1>2, <2>5 DEF AsTheWriterLeftIt
    <3>2. RecoveryStands(w)'
      BY <1>1, <1>3, <2>2, <3>1 DEF RecoveryStands, Matches, Staging
    <3>3. CommitStands(w)'
      BY <1>1, <1>3, <2>2, <3>1 DEF CommitStands, OutputStands, OutputCurrent, Matches, PreCommit, Staging, JobBytes
    <3>4. SlotStands(w)' /\ EndStands(w)'
      BY <2>2 DEF SlotStands, EndStands
    <3> QED
      BY <3>2, <3>3, <3>4
  <2>6. step'[w] \in {"COMMITTED", "CLOSE"} \cup Restoring
    BY <2>2 DEF Restoring
  <2> QED
    BY <2>1, <2>2, <2>3, <2>4, <2>5, <2>6, StandsAfterCommit DEF GoodStep
<1>4. CASE /\ ~(step[w] \in {"STAGED", "COMMITTED"} /\ work[w].previous # NoValue)
           /\ Tells(w, "CLOSE", "outcome", "RAISED")
  <2>1. /\ PublicationTyped' /\ OutputsAreWhole' /\ FrameOf(w) /\ CalmOf(w) /\ NothingLost(w) /\ step'[w] = "CLOSE"
        /\ named' = named /\ bytes' = bytes /\ flock' = flock /\ disturbed' = disturbed
        /\ SameBegin(w) /\ SameLock(w) /\ SamePrevious(w) /\ SameRecovery(w) /\ SameSlot(w)
        /\ work'[w].outcome = "RAISED"
    <3>1. "CLOSE" \in TransactionSteps
      BY DEF TransactionSteps
    <3> QED
      BY <1>4, <3>1, Telling
  <2>2. step[w] \in BeforeTransaction \cup PreCommit \cup {"COMMITTED"}
    BY <1>1, <1>2 DEF PublicationSteps, Transaction
  <2>3. work[w].previous # NoValue => step[w] \in PreCommit
    BY <1>2, <1>4, <2>2 DEF HasAtStep
  <2>4. HasAtStep(w)' /\ RestoreStands(w)'
    BY <1>1, <1>2, <2>1 DEF HasAtStep, RestoreStands, BeforeTransaction, Recovering, Shadowing, Restoring,
       SameBegin, SamePrevious
  <2>5. LockStands(w)'
    <3>1. step'[w] # "WRITE_ANCHOR" /\ \A x \in OutputNodes : flock[x] = w => flock'[x] = w
      BY <2>1
    <3>2. CASE work[w].previous # NoValue
      <4>1. InTransaction(w)
        BY <2>3, <3>2 DEF InTransaction, Transaction
      <4> QED
        BY <2>1, <3>1, <4>1, LockKept
    <3>3. CASE work[w].previous = NoValue
      BY <2>1, <3>3 DEF LockStands, HoldsLock, InTransaction, SamePrevious, Transaction, PreCommit, Recovering, Shadowing,
         Staging, Restoring
    <3> QED
      BY <3>2, <3>3
  <2>6. ASSUME w \notin disturbed' PROVE RecoveryStands(w)' /\ SlotStands(w)' /\ CommitStands(w)' /\ EndStands(w)'
    <3>1. OutputStands(w)
      BY <1>2, <2>1, <2>6 DEF AsTheWriterLeftIt
    <3>2. EndStands(w)'
      BY <2>1, <2>3, <3>1 DEF EndStands, OutputStands, OutputCurrent, Matches, SamePrevious
    <3>3. RecoveryStands(w)' /\ SlotStands(w)' /\ CommitStands(w)'
      BY <2>1 DEF RecoveryStands, SlotStands, CommitStands, Restoring, Shadowing, Staging
    <3> QED
      BY <3>2, <3>3
  <2> QED
    BY <2>1, <2>4, <2>5, <2>6, StandsAfterCommit DEF GoodStep
<1> QED
  BY <1>1, <1>3, <1>4 DEF StepFails, Steps, Tells

\* What is at hand while the old output is put back.
LEMMA WhileRestoring ==
    ASSUME PublicationInv, NEW w \in Writers, step[w] \in Restoring
    PROVE  /\ work[w].previous # NoValue /\ work[w].job # 0 /\ work[w].outcome = NoValue /\ work[w].replace
           /\ work[w].previous.bytes \in Outputs /\ RestoreName(w) \in SlotNames \ {"RECOVERY"}
           /\ InTransaction(w) /\ step[w] \in Transaction
           /\ w \notin disturbed =>
                /\ Matches("RECOVERY", work[w].recovery, work[w].previous.bytes)
                /\ named["OUTPUT"] # NoValue
                /\ bytes[named["OUTPUT"]] \in {JobBytes(work[w].job), work[w].previous.bytes}
<1>1. step[w] \notin {"IDLE", "CLOSE"} /\ step[w] \in Transaction /\ InTransaction(w)
  BY DEF Restoring, Transaction, InTransaction
<1>2. HasAtStep(w) /\ (w \notin disturbed => RecoveryStands(w) /\ CommitStands(w))
  BY AtHand DEF WriterStands, AsTheWriterLeftIt
<1>3. RestoreName(w) \in SlotNames \ {"RECOVERY"}
  BY AtHand DEF SlotNames
<1> QED
  BY <1>1, <1>2, <1>3, AtHand DEF HasAtStep, RecoveryStands, CommitStands

LEMMA RestoresOn ==
    ASSUME PublicationInv, NEW w \in Writers, step[w] \in Restoring, step'[w] \in Restoring,
           PublicationTyped', OutputsAreWhole', FrameOf(w), NothingLost(w), disturbed' = disturbed,
           SameWork(w), \A x \in OutputNodes : flock[x] = w => flock'[x] = w,
           RestoreStands(w)',
           w \notin disturbed =>
             /\ Keeps("RECOVERY") /\ SlotStands(w)' /\ named'["OUTPUT"] # NoValue
             /\ bytes'[named'["OUTPUT"]] \in {JobBytes(work[w].job), work[w].previous.bytes}
    PROVE  GoodStep(w)
<1>1. LockStands(w)'
  <2>1. step'[w] # "WRITE_ANCHOR" /\ SameBegin(w) /\ SameLock(w) /\ InTransaction(w)
    BY WhileRestoring DEF Restoring, SameWork
  <2> QED
    BY <2>1, LockKept
<1>2. step'[w] \notin {"IDLE", "CLOSE", "COMMITTED"} \cup BeforeTransaction
  BY DEF Restoring, BeforeTransaction
<1>3. HasAtStep(w)'
  BY <1>2, WhileRestoring DEF HasAtStep, BeforeTransaction, SameWork, SameBegin, SamePrevious, SameEnd
<1>4. ASSUME w \notin disturbed' PROVE RecoveryStands(w)' /\ SlotStands(w)' /\ CommitStands(w)' /\ EndStands(w)'
  <2>1. Matches("RECOVERY", work[w].recovery, work[w].previous.bytes)
    BY <1>4, WhileRestoring
  <2>2. RecoveryStands(w)'
    BY <1>4, <2>1 DEF RecoveryStands, Matches, Keeps, SameWork, SamePrevious, SameRecovery
  <2>3. CommitStands(w)' /\ EndStands(w)'
    BY <1>2, <1>4 DEF CommitStands, EndStands, SameWork, SamePrevious, SameBegin, JobBytes
  <2> QED
    BY <1>4, <2>2, <2>3
<1>5. WriterStands(w)'
  BY <1>1, <1>3, <1>4, StandsAfterCommit
<1> QED
  BY <1>5, WhileRestoring DEF GoodStep

LEMMA RestoresOutput == ASSUME PublicationInv, NEW w \in Writers, RestoreOutput(w) PROVE GoodStep(w)
<1> USE WhereStepsLie
<1>1. Restoring \subseteq Transaction /\ Transaction \subseteq TransactionSteps
      /\ {"ROLLBACK", "RESTORE_COPY", "RESTORE_STAGED", "RESTORED"} \subseteq Restoring
  BY DEF Transaction, Restoring
<1>2. CASE OpenSlot(w, RestoreName(w), "ROLLBACK", "RESTORE_COPY")
  <2>1. step[w] = "ROLLBACK"
    BY <1>2 DEF OpenSlot, Steps
  <2>2. step[w] \in Restoring
    BY <1>1, <2>1
  <2>3. /\ PublicationTyped' /\ OutputsAreWhole' /\ FrameOf(w) /\ NothingLost(w)
        /\ step'[w] = "RESTORE_COPY" /\ SameWork(w) /\ disturbed' = disturbed
        /\ \A n \in OutputNames \ {RestoreName(w)} : Keeps(n)
        /\ named'[RestoreName(w)] = work'[w].slot /\ OnlyAt(work[w].slot, RestoreName(w))'
        /\ \A x \in OutputNodes : flock[x] = w => flock'[x] = w
    <3>1. RestoreName(w) \in SlotNames /\ "RESTORE_COPY" \in TransactionSteps /\ "ROLLBACK" \in Transaction
      BY <1>1, <2>2, WhileRestoring
    <3>2. RestoreName(w)' = RestoreName(w)
      <4>1. SameEnd(w)
        BY <1>2, <3>1, OpensSlot DEF SameWork
      <4> QED
        BY <4>1 DEF SameEnd, RestoreName
    <3>3. /\ PublicationTyped' /\ OutputsAreWhole' /\ FrameOf(w) /\ NothingLost(w)
          /\ step'[w] = "RESTORE_COPY" /\ SameWork(w) /\ disturbed' = disturbed
          /\ \A n \in OutputNames \ {RestoreName(w)} : Keeps(n)
          /\ named'[RestoreName(w)] = work'[w].slot /\ work'[w].slot # NoValue
          /\ \A n \in OutputNames : named'[n] = work'[w].slot => n = RestoreName(w)
          /\ \A x \in OutputNodes : flock[x] = w => flock'[x] = w
      BY <1>2, <3>1, OpensSlot DEF Keeps, OnlyAt
    <3> QED
      BY <3>2, <3>3 DEF OnlyAt
  <2>4. Keeps("OUTPUT") /\ Keeps("RECOVERY")
    BY <2>2, <2>3, WhileRestoring, NamesAreApart
  <2>5. RestoreName(w)' = RestoreName(w)
    BY <2>3 DEF SameWork, SameEnd, RestoreName
  <2>6. RestoreStands(w)' /\ SlotStands(w)'
    BY <2>3, <2>5 DEF RestoreStands, SlotStands, OnlyAt
  <2>7. w \notin disturbed =>
             /\ named'["OUTPUT"] # NoValue
             /\ bytes'[named'["OUTPUT"]] \in {JobBytes(work[w].job), work[w].previous.bytes}
    BY <2>2, <2>4, WhileRestoring DEF Keeps
  <2>8. step'[w] \in Restoring
    BY <1>1, <2>3
  <2> QED
    BY <2>2, <2>3, <2>4, <2>6, <2>7, <2>8, RestoresOn
<1>3. CASE FillSlot(w, work[w].previous.bytes, "RESTORE_COPY", "RESTORE_STAGED")
  <2>1. step[w] = "RESTORE_COPY"
    BY <1>3 DEF FillSlot, Steps
  <2>2. step[w] \in Restoring
    BY <1>1, <2>1
  <2>3. RestoreStands(w) /\ (w \notin disturbed => SlotStands(w))
    BY AtHand DEF WriterStands, AsTheWriterLeftIt
  <2>4. work[w].slot # NoValue /\ named[RestoreName(w)] = work[w].slot
    BY <2>1, <2>3 DEF RestoreStands
  <2>5. w \notin disturbed => named["OUTPUT"] # work[w].slot /\ named["RECOVERY"] # work[w].slot
    BY <2>1, <2>2, <2>3, WhileRestoring, NamesAreApart DEF SlotStands, OnlyAt, SlotNames
  <2>6. /\ PublicationTyped' /\ OutputsAreWhole' /\ FrameOf(w) /\ NothingLost(w)
        /\ step'[w] = "RESTORE_STAGED" /\ work' = work /\ named' = named /\ flock' = flock /\ disturbed' = disturbed
        /\ \A x \in OutputNodes : bytes'[x] = IF x = work[w].slot THEN work[w].previous.bytes ELSE bytes[x]
    <3>1. "RESTORE_STAGED" \in TransactionSteps /\ "RESTORE_COPY" \in Transaction /\ work[w].previous.bytes \in Outputs
      BY <1>1, <2>2, WhileRestoring
    <3> QED
      BY <1>3, <2>5, <3>1, FillsSlot
  <2>7. bytes'[work[w].slot] = work[w].previous.bytes
    BY <2>4, <2>6, AtHand DEF NodeOrNone
  <2>8. w \notin disturbed => Keeps("OUTPUT") /\ Keeps("RECOVERY")
    BY <2>5, <2>6, AtHand, NamesAreApart DEF Keeps, NodeOrNone
  <2>9. RestoreStands(w)' /\ SlotStands(w)'
    BY <2>2, <2>4, <2>6, <2>7, WhileRestoring DEF RestoreStands, SlotStands, RestoreName
  <2>10. w \notin disturbed =>
             /\ named'["OUTPUT"] # NoValue
             /\ bytes'[named'["OUTPUT"]] \in {JobBytes(work[w].job), work[w].previous.bytes}
    BY <2>2, <2>8, WhileRestoring DEF Keeps
  <2>11. step'[w] \in Restoring /\ SameWork(w)
    BY <1>1, <2>6 DEF SameWork, SameBegin, SameLock, SamePrevious, SameRecovery, SameEnd
  <2> QED
    BY <2>2, <2>6, <2>8, <2>9, <2>10, <2>11, RestoresOn
<1>4. CASE TakesOver(w, RestoreName(w), "RESTORE_STAGED", "RESTORED")
  <2>1. step[w] = "RESTORE_STAGED"
    BY <1>4 DEF TakesOver, Steps
  <2>2. step[w] \in Restoring
    BY <1>1, <2>1
  <2>3. RestoreStands(w) /\ (w \notin disturbed => SlotStands(w))
    BY AtHand DEF WriterStands, AsTheWriterLeftIt
  <2>4. named[RestoreName(w)] = work[w].slot /\ bytes[work[w].slot] \in Outputs
        /\ (w \notin disturbed => bytes[work[w].slot] = work[w].previous.bytes)
    BY <2>1, <2>3 DEF RestoreStands, SlotStands
  <2>5. /\ PublicationTyped' /\ OutputsAreWhole' /\ FrameOf(w) /\ step'[w] = "RESTORED"
        /\ work' = work /\ bytes' = bytes /\ flock' = flock /\ disturbed' = disturbed
        /\ named'["OUTPUT"] = named[RestoreName(w)] /\ named[RestoreName(w)] # NoValue
        /\ \A n \in OutputNames \ {RestoreName(w), "OUTPUT"} : named'[n] = named[n]
    <3>1. RestoreName(w) \in SlotNames /\ "RESTORED" \in TransactionSteps /\ "RESTORE_STAGED" \in Transaction
          /\ bytes[named[RestoreName(w)]] \in Outputs
      BY <1>1, <2>2, <2>4, WhileRestoring
    <3> QED
      BY <1>4, <3>1, TakesPlace
  <2>6. Keeps("RECOVERY")
    BY <2>2, <2>5, WhileRestoring, NamesAreApart DEF Keeps
  <2>7. w \notin disturbed =>
             /\ named'["OUTPUT"] # NoValue /\ bytes'[named'["OUTPUT"]] = work[w].previous.bytes
    BY <2>4, <2>5
  <2>8. NothingLost(w)
    BY <2>2, <2>7, WhileRestoring DEF NothingLost
  <2>9. RestoreStands(w)' /\ SlotStands(w)'
    BY <2>5 DEF RestoreStands, SlotStands
  <2>10. step'[w] \in Restoring /\ SameWork(w) /\ \A x \in OutputNodes : flock[x] = w => flock'[x] = w
    BY <1>1, <2>5 DEF SameWork, SameBegin, SameLock, SamePrevious, SameRecovery, SameEnd
  <2> QED
    BY <2>2, <2>5, <2>6, <2>7, <2>8, <2>9, <2>10, RestoresOn
<1>5. CASE /\ step[w] = "RESTORED" /\ Matches("OUTPUT", work[w].slot, work[w].previous.bytes)
           /\ Tells(w, "CLOSE", "outcome", "ROLLED_BACK")
  <2>1. step[w] \in Restoring
    BY <1>1, <1>5
  <2>2. /\ PublicationTyped' /\ OutputsAreWhole' /\ FrameOf(w) /\ NothingLost(w) /\ step'[w] = "CLOSE"
        /\ named' = named /\ bytes' = bytes /\ flock' = flock /\ disturbed' = disturbed
        /\ SameBegin(w) /\ SameLock(w) /\ SamePrevious(w) /\ SameRecovery(w) /\ SameSlot(w)
        /\ work'[w].outcome = "ROLLED_BACK"
    <3>1. "CLOSE" \in TransactionSteps
      BY DEF TransactionSteps
    <3> QED
      BY <1>5, <3>1, Telling
  <2>3. HasAtStep(w)' /\ RestoreStands(w)'
    BY <2>1, <2>2, WhileRestoring DEF HasAtStep, RestoreStands, BeforeTransaction, SameBegin, SamePrevious
  <2>4. LockStands(w)'
    <3>1. step'[w] # "WRITE_ANCHOR" /\ InTransaction(w) /\ \A x \in OutputNodes : flock[x] = w => flock'[x] = w
      BY <2>1, <2>2, WhileRestoring
    <3> QED
      BY <2>2, <3>1, LockKept
  <2>5. RecoveryStands(w)' /\ SlotStands(w)' /\ CommitStands(w)' /\ EndStands(w)'
    BY <1>5, <2>2 DEF RecoveryStands, SlotStands, CommitStands, EndStands, Matches, Restoring, Shadowing, Staging,
       SamePrevious
  <2> QED
    BY <2>1, <2>2, <2>3, <2>4, <2>5, StandsAfterCommit, WhileRestoring DEF GoodStep
<1> QED
  BY <1>2, <1>3, <1>4, <1>5 DEF RestoreOutput, RestoreName, TakesOver, Tells, Steps

LEMMA RestoreAttemptFails == ASSUME PublicationInv, NEW w \in Writers, RestoreFails(w) PROVE GoodStep(w)
<1>1. step[w] \in Restoring
  BY DEF RestoreFails
<1>2. CASE work[w].tries + 1 < RestoreAttempts /\ Tells(w, "ROLLBACK", "tries", work[w].tries + 1)
  <2>1. work[w].tries + 1 \in 0..(RestoreAttempts - 1)
    BY <1>2, AtHand, PublicationConstants DEF Publications
  <2>2. /\ PublicationTyped' /\ OutputsAreWhole' /\ FrameOf(w) /\ NothingLost(w) /\ step'[w] = "ROLLBACK"
        /\ named' = named /\ bytes' = bytes /\ flock' = flock /\ disturbed' = disturbed
        /\ SameBegin(w) /\ SameLock(w) /\ SamePrevious(w) /\ SameRecovery(w) /\ SameSlot(w)
        /\ work'[w].outcome = work[w].outcome
    <3>1. "ROLLBACK" \in TransactionSteps
      BY DEF TransactionSteps, Transaction, Restoring
    <3> QED
      BY <1>2, <2>1, <3>1, Telling
  <2>3. HasAtStep(w)' /\ RestoreStands(w)'
    BY <1>1, <2>2, WhileRestoring DEF HasAtStep, RestoreStands, BeforeTransaction, SameBegin, SamePrevious
  <2>4. LockStands(w)'
    <3>1. step'[w] # "WRITE_ANCHOR" /\ InTransaction(w) /\ \A x \in OutputNodes : flock[x] = w => flock'[x] = w
      BY <1>1, <2>2, WhileRestoring
    <3> QED
      BY <2>2, <3>1, LockKept
  <2>5. ASSUME w \notin disturbed' PROVE RecoveryStands(w)' /\ SlotStands(w)' /\ CommitStands(w)' /\ EndStands(w)'
    BY <1>1, <2>2, <2>5, WhileRestoring DEF RecoveryStands, SlotStands, CommitStands, EndStands, Matches,
       SamePrevious, SameRecovery, SameBegin, JobBytes
  <2>6. step'[w] \in {"COMMITTED", "CLOSE"} \cup Restoring
    BY <2>2 DEF Restoring
  <2> QED
    BY <1>1, <2>2, <2>3, <2>4, <2>5, <2>6, StandsAfterCommit, WhileRestoring DEF GoodStep
<1>3. CASE Tells(w, "CLOSE", "outcome", "CATASTROPHE")
  <2>1. /\ PublicationTyped' /\ OutputsAreWhole' /\ FrameOf(w) /\ NothingLost(w) /\ step'[w] = "CLOSE"
        /\ named' = named /\ bytes' = bytes /\ flock' = flock /\ disturbed' = disturbed
        /\ SameBegin(w) /\ SameLock(w) /\ SamePrevious(w) /\ SameRecovery(w) /\ SameSlot(w)
        /\ work'[w].outcome = "CATASTROPHE"
    <3>1. "CLOSE" \in TransactionSteps
      BY DEF TransactionSteps
    <3> QED
      BY <1>3, <3>1, Telling
  <2>2. HasAtStep(w)' /\ RestoreStands(w)'
    BY <1>1, <2>1, WhileRestoring DEF HasAtStep, RestoreStands, BeforeTransaction, SameBegin, SamePrevious
  <2>3. LockStands(w)'
    <3>1. step'[w] # "WRITE_ANCHOR" /\ InTransaction(w) /\ \A x \in OutputNodes : flock[x] = w => flock'[x] = w
      BY <1>1, <2>1, WhileRestoring
    <3> QED
      BY <2>1, <3>1, LockKept
  <2>4. RecoveryStands(w)' /\ SlotStands(w)' /\ CommitStands(w)' /\ EndStands(w)'
    BY <2>1 DEF RecoveryStands, SlotStands, CommitStands, EndStands, Restoring, Shadowing, Staging
  <2> QED
    BY <1>1, <2>1, <2>2, <2>3, <2>4, StandsAfterCommit, WhileRestoring DEF GoodStep
<1> QED
  BY <1>1, <1>2, <1>3 DEF RestoreFails, Steps, Tells

\* The user: whoever is at work is disturbed, and the rest holds.
LEMMA UserStep == ASSUME PublicationInv, UserChangesOutput \/ UserCleansDirectory PROVE PublicationInv'
<1> DEFINE b == UserBytes(budget.user + 1)
           x == named["OUTPUT"]
<1>1. PublicationTyped /\ OutputsAreWhole /\ OneAtATime /\ AnchorApart /\ \A w \in Writers : WriterStands(w)
  BY DEF PublicationInv
<1>2. /\ named \in [OutputNames -> NodeOrNone] /\ bytes \in [OutputNodes -> AnyBytes]
      /\ FreshNode \in OutputNodes /\ FreshNode # NoValue /\ \A n \in OutputNames : named[n] # FreshNode
      /\ \A w \in Writers : work[w].slot # FreshNode
  BY <1>1, FreshIsFree DEF PublicationTyped, PublicationTypeOK, NodeOrNone, HeldNodes
<1>3. /\ disturbed' = {w \in Writers : step[w] # "IDLE"} /\ UNCHANGED <<flock, step, work>>
      /\ budget' = [budget EXCEPT !.user = @ + 1] /\ budget.user < MaxUserActions
  BY DEF UserChangesOutput, UserCleansDirectory, UserTouches
<1>4. b \in Outputs /\ b \in AnyBytes
  BY <1>1, <1>3, PublicationConstants DEF PublicationTyped, Outputs, AnyBytes
<1>5. \A w \in Writers : RestoreName(w)' = RestoreName(w)
         /\ RestoreName(w) \in OutputNames \ ({"OUTPUT", "MOVED"} \cup Private)
  <2>1. \A w \in Writers : work[w].tries \in 0..(RestoreAttempts - 1)
    BY <1>1 DEF PublicationTyped, Publications
  <2> QED
    BY <1>3, <2>1, NamesAreApart DEF RestoreName, Private
<1> HIDE DEF b
<1>6. /\ named' \in [OutputNames -> NodeOrNone] /\ bytes' \in [OutputNodes -> AnyBytes] /\ generation' \in Nat
      /\ \A n \in OutputNames \ ({"OUTPUT", "MOVED"} \cup Private) : named'[n] = named[n]
      /\ \A n \in {"OUTPUT", "MOVED"} : named'[n] \in {NoValue, FreshNode, x, named[n]}
      /\ \A n \in Private : named'[n] \in {NoValue, named[n]}
      /\ \A y \in OutputNodes : bytes'[y] # bytes[y] => bytes'[y] = b /\ (y = FreshNode \/ y = x)
      /\ named'["OUTPUT"] = FreshNode \/ named'["MOVED"] = FreshNode => bytes'[FreshNode] = b
  <2>1. {"OUTPUT", "MOVED"} \subseteq OutputNames /\ Private \subseteq OutputNames
        /\ "OUTPUT" \notin Private /\ "MOVED" \notin Private
    BY NamesAreApart DEF Private
  <2>2. CASE UserCleansDirectory
    <3>1. named' = [n \in OutputNames |-> IF n \in Private THEN NoValue ELSE named[n]]
          /\ generation' = generation + 1 /\ UNCHANGED bytes
      BY <2>2 DEF UserCleansDirectory
    <3> QED
      BY <1>1, <1>2, <2>1, <3>1 DEF PublicationTyped, NodeOrNone
  <2>3. CASE UserChangesOutput
    <3>1. generation' \in Nat
      BY <1>1, <2>3 DEF UserChangesOutput, PublicationTyped
    <3>2. CASE x # NoValue /\ bytes' = [bytes EXCEPT ![x] = b] /\ UNCHANGED named
      BY <1>2, <1>4, <2>1, <3>1, <3>2
    <3>3. CASE bytes' = [bytes EXCEPT ![FreshNode] = b] /\ named' = [named EXCEPT !["OUTPUT"] = FreshNode]
      BY <1>2, <1>4, <2>1, <3>1, <3>3 DEF NodeOrNone
    <3>4. CASE x # NoValue /\ named' = [named EXCEPT !["OUTPUT"] = NoValue] /\ UNCHANGED bytes
      BY <1>2, <1>4, <2>1, <3>1, <3>4 DEF NodeOrNone
    <3>5. CASE Rename("OUTPUT", "MOVED") /\ UNCHANGED bytes
      BY <1>2, <1>4, <2>1, <3>1, <3>5 DEF NodeOrNone, Rename
    <3>6. CASE x # NoValue /\ bytes' = [bytes EXCEPT ![FreshNode] = b]
               /\ named' = [named EXCEPT !["MOVED"] = x, !["OUTPUT"] = FreshNode]
      BY <1>2, <1>4, <2>1, <3>1, <3>6 DEF NodeOrNone
    <3> QED
      BY <2>3, <3>2, <3>3, <3>4, <3>5, <3>6 DEF UserChangesOutput, b
  <2> QED
    BY <2>2, <2>3
<1>7. PublicationTyped'
  <2>1. budget' \in [jobs : 0..MaxPublications, user : 0..MaxUserActions, deaths : 0..MaxDeaths]
    BY <1>1, <1>3, PublicationConstants DEF PublicationTyped
  <2> QED
    BY <1>1, <1>3, <1>6, <2>1 DEF PublicationTyped, PublicationTypeOK, NodeOrNone
<1>8. OutputsAreWhole'
  <2>1. ASSUME NEW n \in {"OUTPUT", "MOVED"}, named'[n] # NoValue PROVE bytes'[named'[n]] \in Outputs
    <3>1. named'[n] \in OutputNodes /\ named'[n] \in {FreshNode, x, named[n]}
      BY <1>6, <2>1, NamesAreApart DEF NodeOrNone
    <3>2. named'[n] # FreshNode => bytes[named'[n]] \in Outputs
      BY <1>1, <2>1, <3>1 DEF OutputsAreWhole
    <3> QED
      BY <1>4, <1>6, <2>1, <3>1, <3>2
  <2> QED
    BY <2>1 DEF OutputsAreWhole
<1>9. "ANCHOR" \in OutputNames \ ({"OUTPUT", "MOVED"} \cup Private) /\ {"OUTPUT", "MOVED"} \cup Private \subseteq OutputNames
  BY NamesAreApart DEF Private
<1>10. AnchorApart' /\ (named["ANCHOR"] # NoValue => bytes'[named["ANCHOR"]] = bytes[named["ANCHOR"]])
       /\ named'["ANCHOR"] = named["ANCHOR"]
  <2>1. named'["ANCHOR"] = named["ANCHOR"] /\ named["ANCHOR"] # FreshNode
    BY <1>2, <1>6, <1>9
  <2>2. named["ANCHOR"] # NoValue => named["ANCHOR"] # x /\ named["ANCHOR"] \in OutputNodes
    BY <1>1, <1>2, <1>9, NamesAreApart DEF AnchorApart, NodeOrNone
  <2>3. ASSUME named["ANCHOR"] # NoValue, NEW n \in OutputNames, named'[n] = named["ANCHOR"] PROVE n = "ANCHOR"
    <3>1. named'[n] \in {NoValue, FreshNode, x, named[n]}
      BY <1>6
    <3> QED
      BY <1>1, <2>1, <2>2, <2>3, <3>1 DEF AnchorApart
  <2>4. named["ANCHOR"] # NoValue => \A w \in Writers : work'[w].slot # named["ANCHOR"]
    BY <1>1, <1>3 DEF AnchorApart
  <2> QED
    BY <1>6, <2>1, <2>2, <2>3, <2>4 DEF AnchorApart
<1>11. OneAtATime'
  BY <1>1, <1>3 DEF OneAtATime, InTransaction
<1>12. ASSUME NEW w \in Writers PROVE WriterStands(w)'
  <2>1. HasAtStep(w)'
    BY <1>1, <1>3 DEF WriterStands, HasAtStep
  <2>2. LockStands(w)'
    <3>1. LockStands(w)
      BY <1>1 DEF WriterStands
    <3> QED
      BY <1>3, <1>10, <3>1 DEF LockStands, HoldsLock, InTransaction, Matches, AnchorFor
  <2>3. RestoreStands(w)'
    <3>1. RestoreStands(w)
      BY <1>1 DEF WriterStands
    <3>2. ASSUME step[w] = "RESTORE_STAGED" PROVE bytes'[work[w].slot] \in Outputs
      <4>1. work[w].slot \in OutputNodes /\ bytes[work[w].slot] \in Outputs
        BY <1>2, <1>5, <3>1, <3>2 DEF RestoreStands, NodeOrNone
      <4> QED
        BY <1>4, <1>6, <4>1
    <3> QED
      BY <1>3, <1>5, <1>6, <3>1, <3>2 DEF RestoreStands
  <2>4. ASSUME w \notin disturbed' PROVE AsTheWriterLeftIt(w)'
    <3>1. step'[w] = "IDLE"
      BY <1>3, <2>4
    <3> QED
      BY <3>1 DEF AsTheWriterLeftIt, OutputStands, RecoveryStands, SlotStands, CommitStands, EndStands,
         PreCommit, Restoring, Recovering, Shadowing, Staging
  <2> QED
    BY <2>1, <2>2, <2>3, <2>4 DEF WriterStands
<1> QED
  BY <1>7, <1>8, <1>10, <1>11, <1>12 DEF PublicationInv

LEMMA PublicationStart == ASSUME PublicationInit PROVE PublicationInv
<1>1. PICK x \in {NoValue, 1} : named = [n \in OutputNames |-> IF n = "OUTPUT" THEN x ELSE NoValue]
  BY DEF PublicationInit
<1>2. /\ bytes = [y \in OutputNodes |-> IF y = 1 THEN UserBytes(0) ELSE NoValue]
      /\ flock = [y \in OutputNodes |-> NoValue] /\ generation = 0 /\ step = [w \in Writers |-> "IDLE"]
      /\ work = [w \in Writers |-> Idle] /\ disturbed = {} /\ budget = [jobs |-> 0, user |-> 0, deaths |-> 0]
  BY DEF PublicationInit
<1>3. 1 \in OutputNodes
  <2>1. Cardinality(OutputNames) \in Nat /\ Cardinality(Writers) \in Nat
    BY NamesAreFinite, PublicationConstants, FS_CardinalityType
  <2> QED
    BY <2>1 DEF OutputNodes
<1>4. UserBytes(0) \in Outputs
  BY PublicationConstants DEF Outputs
<1>5. Idle \in Publications /\ Idle.slot = NoValue /\ Idle.previous = NoValue /\ Idle.outcome = NoValue
  <2>1. Idle \in Publications
    BY PublicationConstants DEF Idle, Publications, NodeOrNone
  <2> QED
    BY <2>1 DEF Idle
<1>6. PublicationTyped
  <2>1. bytes \in [OutputNodes -> AnyBytes]
    BY <1>2, <1>4 DEF AnyBytes
  <2>2. budget \in [jobs : 0..MaxPublications, user : 0..MaxUserActions, deaths : 0..MaxDeaths]
    BY <1>2, PublicationConstants
  <2>3. PublicationTypeOK
    BY <1>1, <1>2, <1>3, Nodes DEF PublicationTypeOK
  <2>4. step \in [Writers -> PublicationSteps] /\ work \in [Writers -> Publications]
    BY <1>2, <1>5 DEF PublicationSteps
  <2> QED
    BY <1>2, <2>1, <2>2, <2>3, <2>4 DEF PublicationTyped
<1>7. OutputsAreWhole /\ AnchorApart
  BY <1>1, <1>2, <1>3, <1>4, NamesAreApart DEF OutputsAreWhole, AnchorApart
<1>8. OneAtATime
  BY <1>2 DEF OneAtATime, InTransaction, Transaction, PreCommit, Restoring, Recovering, Shadowing, Staging
<1>9. ASSUME NEW w \in Writers PROVE WriterStands(w)
  BY <1>2, <1>5 DEF WriterStands, HasAtStep, LockStands, RestoreStands, AsTheWriterLeftIt, OutputStands, RecoveryStands,
     SlotStands, CommitStands, EndStands, HoldsLock, InTransaction, BeforeTransaction, Transaction, PreCommit, Restoring,
     Recovering, Shadowing, Staging
<1> QED
  BY <1>6, <1>7, <1>8, <1>9 DEF PublicationInv

LEMMA WriterSteps == ASSUME PublicationInv, NEW w \in Writers, Publish(w) PROVE GoodStep(w)
BY BeginsWell, OpensLock, TakesLock, MakesAnchor, WritesAnchor, Snapshots, KeepsRecovery, LinksRecovery, CopiesRecovery,
   InstallsRecovery, LinksShadow, CopiesShadow, InstallsShadow, StagesCandidate, CommitsOutput, VerifiesOutput,
   RestoresOutput, FailsOrRollsBack, RestoreAttemptFails, ClosesOrDies DEF Publish, PrepareRecovery

LEMMA PublicationKeeps == PublicationInv /\ [PublicationNext]_publicationVars => PublicationInv'
<1> SUFFICES ASSUME PublicationInv, [PublicationNext]_publicationVars PROVE PublicationInv'
  OBVIOUS
<1>1. ASSUME NEW w \in Writers, Publish(w) PROVE PublicationInv'
  BY <1>1, WriterSteps, GoodStepKeeps
<1>2. CASE UNCHANGED publicationVars
  <2>1. /\ named' = named /\ bytes' = bytes /\ flock' = flock /\ generation' = generation /\ step' = step
        /\ work' = work /\ disturbed' = disturbed /\ budget' = budget
    BY <1>2 DEF publicationVars
  <2>2. PublicationTyped' /\ OutputsAreWhole' /\ OneAtATime' /\ AnchorApart'
    BY <2>1 DEF PublicationInv, PublicationTyped, PublicationTypeOK, OutputsAreWhole, OneAtATime, InTransaction, AnchorApart
  <2>3. ASSUME NEW w \in Writers PROVE WriterStands(w)'
    <3>1. WriterStands(w)
      BY DEF PublicationInv
    <3>2. HasAtStep(w)' /\ LockStands(w)' /\ RestoreStands(w)'
      BY <2>1, <3>1 DEF WriterStands, HasAtStep, LockStands, HoldsLock, InTransaction, Matches, AnchorFor, RestoreStands,
         RestoreName
    <3>3. ASSUME w \notin disturbed PROVE AsTheWriterLeftIt(w)'
      BY <2>1, <3>1, <3>3 DEF WriterStands, AsTheWriterLeftIt, OutputStands, OutputCurrent, Matches, RecoveryStands,
         SlotStands, OnlyAt, RestoreName, CommitStands, EndStands, JobBytes
    <3> QED
      BY <2>1, <3>2, <3>3 DEF WriterStands
  <2> QED
    BY <2>2, <2>3 DEF PublicationInv
<1> QED
  BY <1>1, <1>2, UserStep DEF PublicationNext

\* No step of a writer destroys an output, unless the user is at it too.
LEMMA DestroysNothing ==
    PublicationInv /\ [PublicationNext]_publicationVars =>
      [\A w \in Writers :
          /\ step[w] # step'[w] /\ w \notin disturbed
          /\ named["OUTPUT"] # NoValue
          /\ bytes[named["OUTPUT"]] # JobBytes(work[w].job)
          => \E n \in OutputNames :
                /\ named'[n] # NoValue
                /\ bytes'[named'[n]] = bytes[named["OUTPUT"]]]_publicationVars
<1> SUFFICES ASSUME PublicationInv, [PublicationNext]_publicationVars, NEW w \in Writers, step[w] # step'[w]
             PROVE  NothingLost(w)
  BY DEF NothingLost
<1>1. ASSUME NEW v \in Writers, Publish(v) PROVE NothingLost(w)
  <2>1. GoodStep(v)
    BY <1>1, WriterSteps
  <2>2. v = w
    BY <2>1 DEF GoodStep, FrameOf
  <2> QED
    BY <2>1, <2>2 DEF GoodStep
<1>2. UserChangesOutput \/ UserCleansDirectory => UNCHANGED step
  BY DEF UserChangesOutput, UserCleansDirectory, UserTouches
<1> QED
  BY <1>1, <1>2 DEF PublicationNext, publicationVars

\* Whatever fails, dies or is cleaned away, for any number of writers,
\* publications, restore attempts and things the user does: the output is
\* whole, a replaced one can be had back, a writer is alone in its
\* transaction, and its outcome is true.
THEOREM OutputsAreKept == PublicationSpec => PublicationCorrect
<1>1. PublicationInv => PublicationTypeOK /\ OutputsAreWhole /\ OneTransaction /\ ReplacedIsKept /\ OutcomeIsTrue
  <2> SUFFICES ASSUME PublicationInv
               PROVE  PublicationTypeOK /\ OutputsAreWhole /\ OneTransaction /\ ReplacedIsKept /\ OutcomeIsTrue
    OBVIOUS
  <2>1. PublicationTypeOK /\ OutputsAreWhole /\ OneAtATime /\ step \in [Writers -> PublicationSteps]
    BY DEF PublicationInv, PublicationTyped
  <2>2. OneTransaction
    <3>1. \A w \in Writers : ~Outside(w) => InTransaction(w)
      BY <2>1 DEF Outside, InTransaction, PublicationSteps, BeforeTransaction
    <3> QED
      BY <2>1, <3>1 DEF OneTransaction, OneAtATime
  <2>3. \A w \in Writers : w \notin disturbed => RecoveryStands(w) /\ EndStands(w)
    BY DEF PublicationInv, WriterStands, AsTheWriterLeftIt
  <2>4. ReplacedIsKept
    BY <2>3 DEF ReplacedIsKept, RecoveryStands, Matches, Staging
  <2>5. OutcomeIsTrue
    BY <2>3 DEF OutcomeIsTrue, EndStands
  <2> QED
    BY <2>1, <2>2, <2>4, <2>5
<1> QED
  BY <1>1, PublicationStart, PublicationKeeps, DestroysNothing, PTL
     DEF PublicationSpec, PublicationCorrect, NothingIsDestroyed
=============================================================================
