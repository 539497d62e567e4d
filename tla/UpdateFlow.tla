---------------------------- MODULE UpdateFlow ----------------------------
(***************************************************************************)
(* ui/update_controller.py, ui/update_workers.py, ui/update_velopack.py    *)
(* and updates.py: a release is found, its package is downloaded, verified *)
(* and put into the directory Velopack reads, and the update is armed when *)
(* the application quits.  A worker's signal waits in the GUI's queue      *)
(* between its emission and its handler, and its thread ends after that.   *)
(*                                                                         *)
(* The process may die and start again.  Any removal of a file may fail; a *)
(* package that could not be removed stays and is swept again.             *)
(***************************************************************************)
EXTENDS Naturals, FiniteSets

CONSTANTS MaxVersion, MaxInodes, MaxChecks, MaxStarts

ASSUME UpdateAssumption ==
    MaxVersion \in Nat \ {0} /\ {MaxInodes, MaxChecks, MaxStarts} \subseteq Nat

VARIABLES
    current, \* the version that runs; versions are 1..MaxVersion, 0 is none
    gui,     \* the UpdateController
    checkup, \* its check thread
    fetch,   \* its download thread
    package, \* version -> the inode at the package's name, 0 for none
    part,    \* version -> the inode at <name>.part
    whole,   \* the inodes that hold the feed's bytes
    stuck,   \* history: the versions whose part a removal that failed left
    busy,    \* a job is running
    process, \* where the process is in its life
    checks, starts

updateVars == <<current, gui, checkup, fetch, package, part, whole, stuck, busy, process, checks,
                starts>>

Versions == 1..MaxVersion
NoFetch == [pc |-> "none", version |-> 0, inode |-> 0, cancelled |-> FALSE, outcome |-> "none"]
NoCheckup == [pc |-> "none", startup |-> FALSE, outcome |-> "none", version |-> 0]

\* get_update_pending_restart: the newest package, by its name.
PendingIn(packages, running) ==
    LET newer == {v \in Versions : v > running /\ packages[v] # 0} IN
    IF newer = {} THEN 0 ELSE CHOOSE v \in newer : \A w \in newer : w <= v

\* __init__ and _restore_pending_update.
StartedGui(pending) ==
    [ready |-> pending, available |-> pending, offer |-> IF pending = 0 THEN "none" ELSE "ready",
     visible |-> pending # 0, shown |-> pending # 0, pendingOffer |-> FALSE,
     install |-> 0, armed |-> 0, stopped |-> TRUE]

UpdateInit ==
    /\ current = 1 /\ gui = StartedGui(0) /\ checkup = NoCheckup
    /\ fetch = NoFetch
    /\ package = [v \in Versions |-> 0] /\ part = package /\ whole = {} /\ stuck = {}
    /\ busy = FALSE /\ process = "running" /\ checks = 0 /\ starts = 1

Running == process = "running"
FreshInode(i) == i # fetch.inode /\ \A v \in Versions : i \notin {package[v], part[v]}
InProgress == checkup.pc # "none" \/ fetch.pc # "none"
FilesStay == UNCHANGED <<package, part, whole, stuck>>
LifeStays == UNCHANGED <<current, busy, process, checks, starts>>

\* _show_offer_dialog: never over a job.
Show(g, offer) == [g EXCEPT !.offer = offer, !.visible = @ \/ ~busy]
Quietly(g, offer) == [g EXCEPT !.offer = offer]
Hide(g) == [g EXCEPT !.offer = "none", !.visible = FALSE]

\* _present_startup_offer: once, and when no job runs.
Present(g, idle) ==
    IF g.pendingOffer /\ ~g.shown /\ g.offer # "none" /\ idle
    THEN [g EXCEPT !.pendingOffer = FALSE, !.shown = TRUE, !.visible = TRUE] ELSE g

\* Mutant: a check starts beside a download.
StartCheckAnyway(startup) ==
    /\ Running /\ checkup.pc = "none" /\ checks < MaxChecks /\ checks' = checks + 1
    /\ checkup' = [NoCheckup EXCEPT !.pc = "checking", !.startup = startup]
    /\ FilesStay /\ UNCHANGED <<current, gui, fetch, busy, process, starts>>

\* _start_check, from the settings or shortly after the start.
StartCheck(startup) ==
    /\ Running /\ ~InProgress /\ checks < MaxChecks /\ checks' = checks + 1
    /\ checkup' = [NoCheckup EXCEPT !.pc = "checking", !.startup = startup]
    /\ FilesStay /\ UNCHANGED <<current, gui, fetch, busy, process, starts>>

\* GitHubUpdateReader.check in its worker: a release newer than the current one.
CheckAnswers ==
    /\ checkup.pc = "checking"
    /\ \E v \in 0..MaxVersion, failed \in BOOLEAN :
          checkup' = [checkup EXCEPT !.pc = "signalled", !.version = v,
                        !.outcome = IF failed THEN "failed" ELSE IF v > current THEN "update" ELSE "none"]
    /\ FilesStay /\ LifeStays /\ UNCHANGED <<gui, fetch>>

\* Mutant: a failed check takes the offer away, whatever it is.
AfterCheckHidesReady(g, c) ==
    CASE c.outcome = "update" /\ g.ready = 0 ->
           LET a == [g EXCEPT !.available = c.version] IN
           IF c.startup THEN Present([Quietly(a, "available") EXCEPT !.pendingOffer = TRUE], ~busy)
           ELSE Show(a, "available")
      [] OTHER -> Hide(g)

\* _check_finished: a package that is ready stays the one that is offered.
AfterCheck(g, c) ==
    LET available == IF g.ready = 0 THEN c.version ELSE g.ready
        state == IF g.ready = 0 THEN "available" ELSE "ready"
        a == [g EXCEPT !.available = available] IN
    CASE c.outcome = "update" /\ c.startup ->
           Present([Quietly(a, state) EXCEPT !.pendingOffer = TRUE], ~busy)
      [] c.outcome = "update" /\ ~c.startup -> Show(a, state)
      [] c.outcome # "update" /\ g.ready = 0 -> Hide(g)
      [] OTHER -> g

CheckFinished ==
    /\ Running /\ checkup.pc = "signalled" /\ checkup' = [checkup EXCEPT !.pc = "ending"]
    /\ gui' = AfterCheck(gui, checkup)
    /\ FilesStay /\ LifeStays /\ UNCHANGED fetch

CheckThreadFinished ==
    /\ Running /\ checkup.pc = "ending" /\ checkup' = NoCheckup
    /\ FilesStay /\ LifeStays /\ UNCHANGED <<gui, fetch>>

\* start_download, from the buttons of an available or a failed offer.
StartDownload ==
    /\ Running /\ ~InProgress /\ gui.visible /\ gui.offer \in {"available", "failed"} /\ gui.available # 0
    /\ gui' = Show(gui, "downloading")
    /\ fetch' = [NoFetch EXCEPT !.pc = "open", !.version = gui.available]
    /\ FilesStay /\ LifeStays /\ UNCHANGED checkup

CancelDownload ==
    /\ Running /\ gui.offer = "downloading" /\ gui.visible /\ fetch.pc # "none"
    /\ fetch' = [fetch EXCEPT !.cancelled = TRUE]
    /\ FilesStay /\ LifeStays /\ UNCHANGED <<gui, checkup>>

Works(pc) == fetch.pc = pc
FetchGoes(pc) == fetch' = [fetch EXCEPT !.pc = pc]
\* What an exception is reported as: a cancelled download may fail before it sees that.
Outcomes == {"failed"} \cup (IF fetch.cancelled THEN {"cancelled"} ELSE {})
\* The way out of _download_package: cancelled, or a response or disk that failed.
GivesUp == \E outcome \in Outcomes : fetch' = [fetch EXCEPT !.pc = "unlink", !.outcome = outcome]
\* Nothing is cleaned up yet.
FailsEarly == \E outcome \in Outcomes : fetch' = [fetch EXCEPT !.pc = "signalled", !.outcome = outcome]

\* The feed is read, the stale part goes and a new one is written.
OpenUpdatePart ==
    /\ Works("open")
    /\ \/ FailsEarly /\ UNCHANGED <<part, stuck>>
       \/ GivesUp /\ part' = [part EXCEPT ![fetch.version] = 0] /\ stuck' = stuck \ {fetch.version}
       \/ /\ ~fetch.cancelled
          /\ \E n \in 1..MaxInodes :
                /\ FreshInode(n) /\ \A k \in 1..n - 1 : ~FreshInode(k)
                /\ part' = [part EXCEPT ![fetch.version] = n] /\ stuck' = stuck \ {fetch.version}
                /\ fetch' = [fetch EXCEPT !.pc = "write", !.inode = n]
    /\ whole' = whole \ {fetch'.inode}
    /\ LifeStays /\ UNCHANGED <<gui, checkup, package>>

\* Mutant: the digest is not compared with the feed's.
WriteUnverified ==
    /\ Works("write") /\ ~fetch.cancelled
    /\ \E good \in BOOLEAN : whole' = IF good THEN whole \cup {fetch.inode} ELSE whole
    /\ FetchGoes("replace")
    /\ LifeStays /\ UNCHANGED <<gui, checkup, package, part, stuck>>

\* Every chunk is written and hashed; the digest must be the feed's.
WriteVerified ==
    /\ Works("write")
    /\ \/ GivesUp /\ UNCHANGED whole
       \/ ~fetch.cancelled /\ FetchGoes("replace") /\ whole' = whole \cup {fetch.inode}
    /\ LifeStays /\ UNCHANGED <<gui, checkup, package, part, stuck>>

\* os.replace of whatever is at the part's name; the package stays there when
\* the directory cannot be synchronized after that.
ReplacePackage ==
    LET v == fetch.version IN
    /\ Works("replace")
    /\ \/ GivesUp /\ UNCHANGED <<package, part>>
       \/ /\ ~fetch.cancelled /\ part[v] # 0
          /\ fetch' \in {[fetch EXCEPT !.pc = "published"], [fetch EXCEPT !.pc = "unlink", !.outcome = "failed"]}
          /\ package' = [package EXCEPT ![v] = part[v]] /\ part' = [part EXCEPT ![v] = 0]
    /\ LifeStays /\ UNCHANGED <<gui, checkup, whole, stuck>>

\* Mutant: the part of a failed download is left.
KeepPart ==
    /\ Works("unlink") /\ FetchGoes("signalled")
    /\ LifeStays /\ FilesStay /\ UNCHANGED <<gui, checkup>>

\* A removal that raises is the failure that is reported.
UnlinkPart ==
    LET v == fetch.version IN
    /\ Works("unlink")
    /\ \/ FetchGoes("signalled") /\ part' = [part EXCEPT ![v] = 0] /\ UNCHANGED stuck
       \/ /\ fetch' = [fetch EXCEPT !.pc = "signalled", !.outcome = "failed"]
          /\ part[v] # 0 /\ stuck' = stuck \cup {v} /\ UNCHANGED part
    /\ LifeStays /\ UNCHANGED <<gui, checkup, package, whole>>

\* The worker asks Velopack for the pending update: another version, or none,
\* is a failure, and the package goes, if it can be removed.
AskPending ==
    LET v == fetch.version IN
    /\ Works("published")
    /\ \/ /\ PendingIn(package, current) = v
          /\ fetch' = [fetch EXCEPT !.pc = "signalled", !.outcome = "succeeded"] /\ UNCHANGED package
       \/ /\ fetch' = [fetch EXCEPT !.pc = "signalled", !.outcome = "failed"]
          /\ package' \in {package, [package EXCEPT ![v] = 0]}
    /\ LifeStays /\ UNCHANGED <<gui, checkup, part, whole, stuck>>

\* _download_succeeded, _download_failed, _download_cancelled.
DownloadAnswered ==
    /\ Running /\ Works("signalled") /\ FetchGoes("ending")
    /\ gui' = CASE fetch.outcome = "succeeded" ->
                     Show([gui EXCEPT !.ready = fetch.version, !.available = fetch.version], "ready")
                [] fetch.outcome = "failed" -> Show([gui EXCEPT !.ready = 0], "failed")
                [] OTHER -> Show(gui, "available")
    /\ FilesStay /\ LifeStays /\ UNCHANGED checkup

DownloadThreadFinished ==
    /\ Running /\ Works("ending")
    /\ fetch' = NoFetch
    /\ FilesStay /\ LifeStays /\ UNCHANGED <<gui, checkup>>

\* Mutant: the offer stays open when a job starts.
JobChangesUnderOffer ==
    /\ Running /\ busy' = ~busy
    /\ gui' = IF ~busy' THEN Present(gui, TRUE) ELSE gui
    /\ FilesStay /\ UNCHANGED <<checkup, fetch, current, process, checks, starts>>

\* _state_changed: a job starts or ends.
JobChanges ==
    /\ Running /\ busy' = ~busy
    /\ gui' = IF busy' THEN [gui EXCEPT !.visible = FALSE] ELSE Present(gui, TRUE)
    /\ FilesStay /\ UNCHANGED <<checkup, fetch, current, process, checks, starts>>

\* dismiss_offer, and show_offer from the shelf's arrow.
DismissOffer ==
    /\ Running /\ gui.visible /\ gui' = [gui EXCEPT !.visible = FALSE, !.pendingOffer = FALSE]
    /\ FilesStay /\ LifeStays /\ UNCHANGED <<checkup, fetch>>
ShowOffer ==
    /\ Running /\ ~gui.visible /\ gui.offer # "none" /\ ~busy /\ gui' = [gui EXCEPT !.visible = TRUE]
    /\ FilesStay /\ LifeStays /\ UNCHANGED <<checkup, fetch>>

\* install_and_restart: the window may refuse to close, and its root to be
\* written to.
InstallAndRestart ==
    /\ Running /\ gui.visible /\ gui.offer = "ready" /\ gui.ready # 0 /\ ~busy
    /\ \/ gui' = [gui EXCEPT !.install = gui.ready] /\ process' = "closing"
       \/ gui' \in {Show(gui, "failed"), Show(gui, "ready")} /\ UNCHANGED process
    /\ FilesStay /\ UNCHANGED <<checkup, fetch, current, busy, checks, starts>>

CloseWindow ==
    /\ Running /\ process' = "closing"
    /\ FilesStay /\ UNCHANGED <<gui, checkup, fetch, current, busy, checks, starts>>

\* shutdown: the workers are cancelled,
Shutdown ==
    /\ process = "closing" /\ process' = "stopping"
    /\ fetch' = [fetch EXCEPT !.cancelled = TRUE]
    /\ FilesStay /\ UNCHANGED <<gui, checkup, current, busy, checks, starts>>

WorkersEnded == checkup.pc # "checking" /\ fetch.pc \in {"none", "signalled", "ending"}

\* Mutant: a wait that ran out counts as an end.
ShutdownTrustsWait ==
    /\ process = "stopping" /\ process' = "stopped"
    /\ gui' = [gui EXCEPT !.stopped = TRUE]
    /\ FilesStay /\ UNCHANGED <<checkup, fetch, current, busy, checks, starts>>

\* and waited for, for a while.
ShutdownWaited ==
    /\ process = "stopping" /\ process' = "stopped"
    /\ gui' = [gui EXCEPT !.stopped = WorkersEnded]
    /\ FilesStay /\ UNCHANGED <<checkup, fetch, current, busy, checks, starts>>

\* arm_pending_install: also the other workers must have stopped, and the root
\* still be writable.
ArmPendingInstall ==
    /\ process = "stopped" /\ process' = "ended"
    /\ \/ gui' = [gui EXCEPT !.install = 0]
       \/ gui.install # 0 /\ gui.stopped /\ gui' = [gui EXCEPT !.install = 0, !.armed = gui.install]
    /\ FilesStay /\ UNCHANGED <<checkup, fetch, current, busy, checks, starts>>

Dies ==
    /\ process \notin {"ended", "dead"} /\ process' = "dead" /\ starts < MaxStarts
    /\ FilesStay /\ UNCHANGED <<gui, checkup, fetch, current, busy, checks, starts>>

\* _sweep_packages keeps the pending package, and what cannot be removed.
Swept(pending) ==
    \E packages \in SUBSET {v \in Versions : package[v] # 0}, parts \in SUBSET {v \in Versions : part[v] # 0} :
        /\ package' = [v \in Versions |-> IF v = pending \/ v \in packages THEN package[v] ELSE 0]
        /\ part' = [v \in Versions |-> IF v \in parts THEN part[v] ELSE 0]
        /\ stuck' = parts

\* The next start, after the update was applied if it was armed.  The pending
\* update is none when it cannot be read, or the directory not be swept.
StartAgain ==
    LET running == IF gui.armed # 0 THEN gui.armed ELSE current
        pending == PendingIn(package, running) IN
    /\ process \in {"ended", "dead"} /\ starts < MaxStarts /\ starts' = starts + 1
    /\ current' = running /\ Swept(pending) /\ \E read \in {0, pending} : gui' = StartedGui(read)
    /\ checkup' = NoCheckup /\ fetch' = NoFetch
    /\ busy' = FALSE /\ process' = "running" /\ UNCHANGED <<whole, checks>>

DownloadStep ==
    \/ OpenUpdatePart \/ WriteVerified \/ ReplacePackage \/ UnlinkPart \/ AskPending
    \/ DownloadThreadFinished
WorkersStep == process # "dead" /\ (CheckAnswers \/ DownloadStep)

UpdateNext ==
    \/ \E startup \in BOOLEAN : StartCheck(startup)
    \/ CheckFinished \/ CheckThreadFinished \/ StartDownload \/ CancelDownload \/ DownloadAnswered
    \/ JobChanges \/ DismissOffer \/ ShowOffer \/ InstallAndRestart \/ CloseWindow
    \/ Shutdown \/ ShutdownWaited \/ ArmPendingInstall \/ Dies \/ StartAgain
    \/ WorkersStep

UpdateSpec == UpdateInit /\ [][UpdateNext]_updateVars

---------------------------------------------------------------------------
UpdateTypeOK ==
    /\ current \in Versions /\ busy \in BOOLEAN
    /\ {gui.ready, gui.available, gui.install, gui.armed} \subseteq 0..MaxVersion
    /\ {gui.visible, gui.shown, gui.pendingOffer, gui.stopped} \subseteq BOOLEAN
    /\ gui.offer \in {"none", "available", "downloading", "ready", "failed"}
    /\ checkup.pc \in {"none", "checking", "signalled", "ending"}
    /\ fetch.pc \in {"none", "open", "write", "replace", "published", "unlink",
                    "signalled", "ending"}
    /\ package \in [Versions -> 0..MaxInodes] /\ part \in [Versions -> 0..MaxInodes]
    /\ process \in {"running", "closing", "stopping", "stopped", "ended", "dead"}
    /\ stuck \subseteq Versions
    \* one worker at a time, and an offer for every package that is ready
    /\ ~(checkup.pc # "none" /\ fetch.pc # "none")
    /\ gui.ready # 0 => gui.offer # "none"

\* The package that is ready to be installed, or armed, is on disk with the
\* feed's bytes, over crashes, retries and sweeps.
ReadyIsWhole ==
    process # "dead" =>
        \A v \in {gui.ready, gui.install, gui.armed} \ {0} :
            \/ package[v] \in whole \ {0}
            \* a retry of the same version removes it, if Velopack does not see it
            \/ v = gui.ready /\ fetch.version = v /\ fetch.outcome = "failed"

\* The update is armed only when no update worker of this process is left that
\* could still write the package: a thread that outlives the wait forbids it.
ArmedAfterWorkers == gui.armed # 0 => WorkersEnded

\* The offer is never open over a job, whenever the job, the check and the
\* download end.
NoOfferOverJob == ~(busy /\ gui.visible)

\* A part that no download works on is one whose removal failed, which the
\* download reports (updates.py:244) and the sweep of the next start only logs
\* (ui/update_velopack.py:105-110): cancels, failures and deaths leave no other,
\* and the file a new download of that version writes is its own.
NoPartAfterDownload ==
    process # "dead" =>
        /\ \A v \in Versions : part[v] # 0 =>
              v \in stuck \/ (fetch.version = v /\ fetch.pc \in {"write", "replace", "unlink"})
        /\ fetch.pc \in {"write", "replace"} => part[fetch.version] = fetch.inode

\* A check that fails or finds nothing leaves the offer of a ready package.
CheckKeepsReadyOffer ==
    [][gui.ready # 0 /\ checkup.pc = "signalled" /\ checkup'.pc = "ending" =>
        gui'.ready = gui.ready /\ gui'.offer \in {"ready", gui.offer}]_updateVars

\* What is offered, ready or armed is a whole package, over later checks,
\* cancelled downloads, jobs, deaths and restarts.
UpdateCorrect ==
    /\ [](/\ UpdateTypeOK
          /\ ReadyIsWhole
          /\ ArmedAfterWorkers
          /\ NoOfferOverJob
          /\ NoPartAfterDownload)
    /\ CheckKeepsReadyOffer
===========================================================================
