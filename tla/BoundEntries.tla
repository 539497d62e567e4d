--------------------------- MODULE BoundEntries ---------------------------
(***************************************************************************)
(* The operations on the entries of a bound directory                      *)
(* (jobs/workspace/_filesystem.py, jobs/models/cache_fs.py), while another *)
(* process puts other things at the names.  On Windows an operation opens  *)
(* the entry, looks at what it opened and acts through that handle; on     *)
(* POSIX it looks, where it does, and acts by name.                        *)
(*                                                                         *)
(* A node is a file, a directory or a link, told apart by its number.      *)
(***************************************************************************)
EXTENDS Naturals, FiniteSets

CONSTANTS EntryNames, MaxNodes, MaxCalls

ASSUME BoundEntriesAssumption == {MaxNodes, MaxCalls} \subseteq Nat

VARIABLES
    windows, \* os.name == "nt"
    entry,   \* name -> node, 0 for none
    kindOf,  \* node -> what it is; nodes are made in order
    call,    \* the operation under way
    calls    \* operations started

entryVars == <<windows, entry, kindOf, call, calls>>

EntryNodes == 1..MaxNodes
NodeKinds == {"file", "dir", "link"}
Operations == {"unlink_regular", "unlink", "rmdir", "replace", "replace_publication",
               "replace_directory", "read", "new", "mkdir", "mkdir_exist_ok"}
NoCall == [what |-> "none", name |-> "none", to |-> "none", pc |-> "idle", node |-> 0, failed |-> FALSE]
Made == {n \in EntryNodes : kindOf[n] # "unmade"}
NextNode == CHOOSE n \in EntryNodes \ Made : \A k \in EntryNodes \ Made : n <= k
KindAt(name) == IF entry[name] = 0 THEN "none" ELSE kindOf[entry[name]]

\* What an operation accepts as the node it is to act on.
Accepts(what) ==
    CASE what \in {"unlink_regular", "replace", "replace_publication", "read"} -> {"file"}
      [] what = "unlink" -> {"file", "link"}
      [] what \in {"rmdir", "replace_directory"} -> {"dir"}
      [] OTHER -> NodeKinds

Renames == {"replace", "replace_publication", "replace_directory"}

EntriesInit ==
    /\ windows \in BOOLEAN /\ calls = 0 /\ call = NoCall
    /\ entry = [n \in EntryNames |-> 0] /\ kindOf = [n \in EntryNodes |-> "unmade"]

\* An entry being read and the source of a rename are opened without delete
\* sharing: nobody can take them from their name meanwhile.  A publication's
\* source and an entry to be removed are opened with it.
Unshared(name) ==
    /\ windows /\ call.pc \in {"opened", "checked"} /\ call.name = name /\ entry[name] = call.node
    /\ call.what \in {"replace", "replace_directory", "read"}

\* Another process removes what is at a name, renames it, or puts something there.
OtherProcess(name) ==
    /\ ~Unshared(name)
    /\ \/ entry[name] # 0 /\ entry' = [entry EXCEPT ![name] = 0] /\ UNCHANGED kindOf
       \/ /\ entry[name] # 0 /\ UNCHANGED kindOf
          /\ \E to \in EntryNames \ {name} :
                ~Unshared(to) /\ entry' = [entry EXCEPT ![name] = 0, ![to] = entry[name]]
       \/ \E k \in NodeKinds :
             /\ Made # EntryNodes
             /\ kindOf' = [kindOf EXCEPT ![NextNode] = k] /\ entry' = [entry EXCEPT ![name] = NextNode]
    /\ UNCHANGED <<windows, call, calls>>

CallGoes(pc) == call' = [call EXCEPT !.pc = pc]
Call(what, name, to, pc, node) ==
    /\ call.pc = "idle" /\ calls < MaxCalls /\ calls' = calls + 1
    /\ call' = [NoCall EXCEPT !.what = what, !.name = name, !.to = to, !.pc = pc, !.node = node]
CallReturns == call' = [NoCall EXCEPT !.failed = call.failed]
Raise == call' = [NoCall EXCEPT !.failed = TRUE]

\* unlink_regular and unlink_file_entry look at the entry by name first.
LookAt(what, name) ==
    /\ what \in {"unlink_regular", "unlink"} /\ KindAt(name) \in Accepts(what)
    /\ Call(what, name, name, "looked", 0) /\ UNCHANGED <<windows, entry, kindOf>>

\* _open_relative of an existing entry; the others need no look first.
OpenEntry(what, name, to) ==
    /\ windows /\ entry[name] # 0
    /\ \/ /\ call.pc = "looked" /\ call.what = what /\ call.name = name
          /\ call' = [call EXCEPT !.pc = "opened", !.node = entry[name]] /\ UNCHANGED calls
       \/ /\ what \in {"unlink", "rmdir", "read"} \cup Renames
          /\ (what \in Renames) = (name # to)
          /\ Call(what, name, to, "opened", entry[name])
    /\ UNCHANGED <<windows, entry, kindOf>>

\* Mutant: what was opened is not looked at.
CheckNothing == call.pc = "opened" /\ CallGoes("checked") /\ UNCHANGED <<windows, entry, kindOf, calls>>

\* file_attributes, _require_regular_file_handle: the handle's, not the name's.
CheckOpened ==
    /\ call.pc = "opened"
    /\ IF kindOf[call.node] \in Accepts(call.what) THEN CallGoes("checked") ELSE Raise
    /\ UNCHANGED <<windows, entry, kindOf, calls>>

\* The delete disposition of unlink_at and rmdir_at takes the opened node away
\* from whatever name it has by now, unless the system refuses; closing the
\* handle ends the call.
DeleteOpened ==
    /\ call.pc = "checked" /\ call.what \in {"unlink_regular", "unlink", "rmdir"}
    /\ \/ CallReturns /\ entry' = [n \in EntryNames |-> IF entry[n] = call.node THEN 0 ELSE entry[n]]
       \/ Raise /\ UNCHANGED entry
    /\ UNCHANGED <<windows, kindOf, calls>>

\* Mutant: the destination becomes another name of the source.
LinkOpened ==
    /\ call.pc = "checked" /\ call.what \in Renames /\ CallReturns
    /\ entry' = [entry EXCEPT ![call.to] = call.node]
    /\ UNCHANGED <<windows, kindOf, calls>>

\* Mutant: what is renamed is found by its name again.
RenameNamed ==
    /\ call.pc = "checked" /\ call.what \in Renames /\ CallReturns
    /\ entry' = [entry EXCEPT ![call.name] = 0, ![call.to] = entry[call.name]]
    /\ UNCHANGED <<windows, kindOf, calls>>

\* _replace_at renames the opened node, wherever it is by now, over what the
\* destination has; a directory there refuses it, and the system may.
RenameOpened ==
    /\ call.pc = "checked" /\ call.what \in Renames
    /\ \/ Raise /\ UNCHANGED entry
       \/ /\ KindAt(call.to) # "dir" /\ (call.what = "replace_directory" => entry[call.to] = 0)
          /\ CallReturns
          /\ entry' = [n \in EntryNames |-> CASE n = call.to -> call.node
                                              [] n # call.to /\ entry[n] = call.node -> 0
                                              [] OTHER -> entry[n]]
    /\ UNCHANGED <<windows, kindOf, calls>>

ReadOpened ==
    /\ call.pc = "checked" /\ call.what = "read" /\ CallReturns
    /\ UNCHANGED <<windows, entry, kindOf, calls>>

\* os.unlink and os.rmdir act on what is at the name by then; the kernel refuses
\* a directory to the one and everything else to the other.
RemoveByName(what, name) ==
    /\ ~windows /\ entry[name] # 0
    /\ \/ call.pc = "looked" /\ call.what = what /\ call.name = name /\ UNCHANGED calls
       \/ call.pc = "idle" /\ what \in {"unlink", "rmdir"} /\ calls < MaxCalls /\ calls' = calls + 1
    /\ IF (KindAt(name) = "dir") = (what = "rmdir")
       THEN CallReturns /\ entry' = [entry EXCEPT ![name] = 0]
       ELSE Raise /\ UNCHANGED entry
    /\ UNCHANGED <<windows, kindOf>>

\* os.replace within the descriptor's directory.
ReplaceByName(name, to) ==
    /\ ~windows /\ call.pc = "idle" /\ calls < MaxCalls /\ calls' = calls + 1
    /\ name # to /\ entry[name] # 0
    /\ IF KindAt(to) # "none" /\ (KindAt(name) = "dir") # (KindAt(to) = "dir")
       THEN Raise /\ UNCHANGED entry
       ELSE CallReturns /\ entry' = [entry EXCEPT ![name] = 0, ![to] = entry[name]]
    /\ UNCHANGED <<windows, kindOf>>

\* An entry that vanished, or another kind of failure of the open.
OpenFails ==
    /\ call.pc = "looked" /\ Raise /\ UNCHANGED <<windows, entry, kindOf, calls>>

\* O_CREAT | O_EXCL, FILE_CREATE: only where nothing is.
OpenNew(name) ==
    /\ entry[name] = 0 /\ Made # EntryNodes /\ Call("new", name, name, "made", NextNode)
    /\ entry' = [entry EXCEPT ![name] = NextNode] /\ kindOf' = [kindOf EXCEPT ![NextNode] = "file"]
    /\ UNCHANGED windows

\* mkdir and mkdir_at: one that exists is taken if it may be and is a directory.
MakeDirectory(what, name) ==
    /\ what \in {"mkdir", "mkdir_exist_ok"}
    /\ \/ /\ entry[name] = 0 /\ Made # EntryNodes /\ Call(what, name, name, "made", NextNode)
          /\ entry' = [entry EXCEPT ![name] = NextNode] /\ kindOf' = [kindOf EXCEPT ![NextNode] = "dir"]
       \/ /\ KindAt(name) = "dir" /\ what = "mkdir_exist_ok"
          /\ Call(what, name, name, "made", entry[name]) /\ UNCHANGED <<entry, kindOf>>
    /\ UNCHANGED windows

\* flush_directory_strict fails: a directory that cannot have been there before
\* is removed again, by rmdir_at, which opens what is at the name by now; the
\* call fails whatever comes of it.
FlushFails ==
    /\ call.pc = "made" /\ call.what \in {"mkdir", "mkdir_exist_ok"} /\ windows
    /\ \/ Raise
       \/ /\ call.what = "mkdir" /\ entry[call.name] # 0
          /\ call' = [call EXCEPT !.what = "rmdir", !.pc = "opened", !.node = entry[call.name], !.failed = TRUE]
    /\ UNCHANGED <<windows, entry, kindOf, calls>>

MadeIt == call.pc = "made" /\ CallReturns /\ UNCHANGED <<windows, entry, kindOf, calls>>

EntryStep(name) ==
    \/ OtherProcess(name) \/ OpenNew(name)
    \/ \E what \in Operations :
          \/ LookAt(what, name) \/ RemoveByName(what, name) \/ MakeDirectory(what, name)
          \/ \E to \in EntryNames : OpenEntry(what, name, to)
    \/ \E to \in EntryNames : ReplaceByName(name, to)

EntriesNext == (\E name \in EntryNames : EntryStep(name)) \/ CheckOpened \/ DeleteOpened \/ RenameOpened
               \/ ReadOpened \/ OpenFails \/ FlushFails \/ MadeIt

EntriesSpec == EntriesInit /\ [][EntriesNext]_entryVars

---------------------------------------------------------------------------
EntriesTypeOK ==
    /\ windows \in BOOLEAN /\ calls \in 0..MaxCalls
    /\ entry \in [EntryNames -> 0..MaxNodes] /\ kindOf \in [EntryNodes -> NodeKinds \cup {"unmade"}]
    /\ \A m, n \in EntryNames : m # n /\ entry[m] = entry[n] => entry[m] = 0
    /\ \A n \in EntryNames : entry[n] \in Made \cup {0}
    /\ call \in [what : Operations \cup {"none"}, name : EntryNames \cup {"none"}, to : EntryNames \cup {"none"},
                 pc : {"idle", "looked", "opened", "checked", "made"}, node : 0..MaxNodes,
                 failed : BOOLEAN]

\* On Windows an operation takes away the very node it opened, by whatever name
\* it goes by then, and one of the kind it accepts, whatever was put at the name
\* since; a rename puts it in the place of no directory.  That node need not be the one the caller
\* meant: the removal that undoes a failed mkdir opens the name again, and may
\* take a directory another process put there.  POSIX acts by name on what is
\* there by then: of a looked-up entry it promises only that it is no directory.
TakesWhatItOpened ==
    [][\A n \in EntryNames :
        call.pc # "idle" /\ call' # call /\ entry[n] # 0 /\ entry'[n] # entry[n] =>
            \/ windows /\ entry[n] = call.node /\ kindOf[entry[n]] \in Accepts(call.what)
            \/ windows /\ n = call.to /\ call.what \in Renames /\ kindOf[entry[n]] # "dir"
            \/ ~windows /\ n = call.name /\ kindOf[entry[n]] # "dir"]_entryVars

\* Another program changes the names between the steps of an operation: on
\* Windows the operation takes away only the node it opened and
\* looked at; on POSIX it may take another one, but no directory for a file.
EntriesCorrect ==
    /\ []EntriesTypeOK
    /\ TakesWhatItOpened
===========================================================================
