-------------------------- MODULE Interface_proofs --------------------------
(***************************************************************************)
(* What the dialogs and widgets that work beside the GUI thread show and    *)
(* leave on disk, for every value of the constants.                        *)
(***************************************************************************)
EXTENDS UpdateFlow, Playback, ResultStage, Timeline, Filmstrip, CropEditor,
        SequenceTheorems, FiniteSetTheorems, WellFoundedInduction, TLAPS

-----------------------------------------------------------------------------
(* Induction, with a set in the place of the predicate *)

LEMMA LeastNumber ==
    ASSUME NEW S \in SUBSET Nat, S # {}
    PROVE  \E m \in S : \A k \in S : m <= k
<1> DEFINE R == OpToRel(<, Nat)
<1>1. PICK m \in S : \A k \in S : ~(<<k, m>> \in R)
  BY NatLessThanWellFounded, WFMin
<1>2. ASSUME NEW k \in S
      PROVE  m <= k
  <2>1. m \in Nat /\ k \in Nat /\ <<k, m>> \in Nat \X Nat
    OBVIOUS
  <2>2. ~(<<k, m>>[1] < <<k, m>>[2])
    BY <1>1, <2>1 DEF OpToRel
  <2> QED
    BY <2>1, <2>2
<1> QED
  BY <1>2

LEMMA Induction ==
    ASSUME NEW S \in SUBSET Nat, 0 \in S, \A n \in S : n + 1 \in S
    PROVE  S = Nat
<1> DEFINE T == Nat \ S
<1> SUFFICES ASSUME T # {} PROVE FALSE
  OBVIOUS
<1>1. PICK m \in T : \A k \in T : m <= k
  BY LeastNumber
<1>2. m # 0 /\ m - 1 \in Nat /\ m - 1 \notin T
  BY <1>1
<1>3. m - 1 \in S
  BY <1>2
<1> QED
  BY <1>1, <1>3

-----------------------------------------------------------------------------
(* UpdateFlow: the inductive invariant *)

Guis == [ready : 0..MaxVersion, available : 0..MaxVersion,
         offer : {"none", "available", "downloading", "ready", "failed"},
         visible : BOOLEAN, shown : BOOLEAN, pendingOffer : BOOLEAN,
         install : 0..MaxVersion, armed : 0..MaxVersion, stopped : BOOLEAN]
Checkups == [pc : {"none", "checking", "signalled", "ending"}, startup : BOOLEAN,
             outcome : {"none", "failed", "update"}, version : 0..MaxVersion]
Fetches == [pc : {"none", "open", "write", "replace", "published", "unlink", "signalled", "ending"},
            version : 0..MaxVersion, inode : 0..MaxInodes, cancelled : BOOLEAN,
            outcome : {"none", "cancelled", "failed", "succeeded"}]
Packages == [Versions -> 0..MaxInodes]
UpdateTyped ==
    /\ current \in Versions /\ gui \in Guis /\ checkup \in Checkups /\ fetch \in Fetches
    /\ package \in Packages /\ part \in Packages /\ busy \in BOOLEAN /\ stuck \subseteq Versions
    /\ process \in {"running", "closing", "stopping", "stopped", "ended", "dead"}

\* Every package is whole; a part is the download's or one that could not be
\* removed, and what the download writes is at its name until it becomes a
\* package, which is after the digest was compared.
FilesInv ==
    /\ \A v \in Versions : package[v] # 0 => package[v] \in whole
    /\ \A v \in Versions : part[v] # 0 =>
          v \in stuck \/ (v = fetch.version /\ fetch.pc \in {"write", "replace", "unlink"})
    /\ fetch.pc \in {"write", "replace"} => part[fetch.version] = fetch.inode
    /\ fetch.pc = "replace" => fetch.inode \in whole
    /\ fetch.pc = "signalled" /\ fetch.outcome = "succeeded" => package[fetch.version] # 0

\* A download has a version, no check beside it, and the offer to itself until
\* its answer is handled.
WorkersInv ==
    /\ checkup.pc = "none" \/ fetch.pc = "none"
    /\ fetch.pc # "none" => fetch.version # 0
    /\ fetch.pc \in {"none", "open"} => fetch.inode = 0
    /\ fetch.outcome = "succeeded" => fetch.pc \in {"signalled", "ending"}
    /\ fetch.pc \notin {"none", "ending"} => gui.offer = "downloading"

\* What is ready stands on disk until a retry that failed is answered; what is to
\* be installed stands there, with no download left that could touch it.
NoDownload == fetch.pc \in {"none", "ending"}
OfferInv ==
    /\ ~(busy /\ gui.visible)
    /\ gui.ready # 0 =>
          /\ gui.offer # "none"
          /\ \/ package[gui.ready] # 0
             \/ fetch.version = gui.ready /\ fetch.outcome = "failed" /\ fetch.pc = "signalled"
    /\ gui.install # 0 =>
          /\ process \in {"closing", "stopping", "stopped", "dead"} /\ NoDownload
          /\ package[gui.install] # 0
    /\ gui.armed # 0 =>
          /\ process = "ended" /\ NoDownload /\ gui.stopped
          /\ package[gui.armed] # 0
    /\ process \in {"stopped", "ended"} /\ gui.stopped => WorkersEnded

UpdateInv == UpdateTyped /\ FilesInv /\ WorkersInv /\ OfferInv

UpdateSafe == UpdateTypeOK /\ ReadyIsWhole /\ ArmedAfterWorkers /\ NoOfferOverJob /\ NoPartAfterDownload

LEMMA UpdateIsSafe == UpdateInv => UpdateSafe
<1> SUFFICES ASSUME UpdateInv
             PROVE  UpdateSafe
  OBVIOUS
<1> USE DEF UpdateInv, UpdateTyped
<1>1. UpdateTypeOK
  BY DEF UpdateTypeOK, Guis, Checkups, Fetches, Packages, WorkersInv, OfferInv
<1>2. ReadyIsWhole
  <2>1. SUFFICES ASSUME NEW v \in {gui.ready, gui.install, gui.armed}, v # 0
                 PROVE  \/ package[v] \in whole \ {0}
                        \/ v = gui.ready /\ fetch.version = v /\ fetch.outcome = "failed"
    BY DEF ReadyIsWhole
  <2>2. v \in Versions
    BY <2>1, UpdateAssumption DEF Guis, Versions
  <2>3. \/ package[v] # 0
        \/ v = gui.ready /\ fetch.version = v /\ fetch.outcome = "failed"
    BY <2>1 DEF OfferInv
  <2> QED
    BY <2>2, <2>3 DEF FilesInv
<1>3. ArmedAfterWorkers /\ NoOfferOverJob /\ NoPartAfterDownload
  BY DEF ArmedAfterWorkers, NoOfferOverJob, NoPartAfterDownload, OfferInv, FilesInv
<1> QED
  BY <1>1, <1>2, <1>3 DEF UpdateSafe

-----------------------------------------------------------------------------
(* The offer *)

\* What a handler may make of the controller: the same facts about what is ready,
\* to be installed or armed, and an offer that is not open over a job.
Reoffered(g, h) ==
    /\ h \in Guis /\ \A x \in {"ready", "install", "armed", "stopped"} : h[x] = g[x]
    /\ h.visible => g.visible \/ ~busy

LEMMA ShowOffers ==
    ASSUME busy \in BOOLEAN, NEW g \in Guis,
           NEW offer \in {"none", "available", "downloading", "ready", "failed"}
    PROVE  /\ Reoffered(g, Show(g, offer)) /\ Show(g, offer).offer = offer
           /\ Reoffered(g, Quietly(g, offer)) /\ Quietly(g, offer).offer = offer
           /\ Reoffered(g, Hide(g)) /\ Hide(g).offer = "none"
  BY DEF Reoffered, Guis, Show, Quietly, Hide

LEMMA PresentOffers ==
    ASSUME NEW g \in Guis, NEW idle \in BOOLEAN
    PROVE  /\ Present(g, idle) \in Guis
           /\ \A x \in {"ready", "available", "offer", "install", "armed", "stopped"} :
                Present(g, idle)[x] = g[x]
           /\ Present(g, idle).visible => g.visible \/ idle
  BY DEF Present, Guis

LEMMA CheckOffers ==
    ASSUME busy \in BOOLEAN, NEW g \in Guis, NEW c \in Checkups, g.ready # 0 => g.offer # "none"
    PROVE  /\ Reoffered(g, AfterCheck(g, c))
           /\ g.ready # 0 => AfterCheck(g, c).offer \in {"ready", g.offer}
<1> DEFINE available == IF g.ready = 0 THEN c.version ELSE g.ready
           state == IF g.ready = 0 THEN "available" ELSE "ready"
           a == [g EXCEPT !.available = available]
           q == [Quietly(a, state) EXCEPT !.pendingOffer = TRUE]
<1>1. a \in Guis /\ Reoffered(g, a) /\ a.offer = g.offer /\ a.ready = g.ready
  BY DEF Reoffered, Guis, Checkups
<1>2. state \in {"none", "available", "downloading", "ready", "failed"} /\ (g.ready # 0 => state = "ready")
  OBVIOUS
<1> HIDE DEF a, state
<1>3. Reoffered(a, Quietly(a, state)) /\ Quietly(a, state).offer = state
      /\ Reoffered(a, Show(a, state)) /\ Show(a, state).offer = state /\ Reoffered(g, Hide(g))
  BY <1>1, <1>2, ShowOffers
<1>4. Reoffered(g, q) /\ q.offer = state
  BY <1>1, <1>3 DEF Reoffered, Guis
<1> HIDE DEF q
<1>5. Reoffered(g, Present(q, ~busy)) /\ Present(q, ~busy).offer = state
  <2> DEFINE idle == ~busy
  <2>1. q \in Guis /\ idle \in BOOLEAN /\ (idle => ~busy)
    BY <1>4 DEF Reoffered
  <2> HIDE DEF idle
  <2>2. /\ Present(q, idle) \in Guis
        /\ \A x \in {"ready", "offer", "install", "armed", "stopped"} : Present(q, idle)[x] = q[x]
        /\ Present(q, idle).visible => q.visible \/ idle
    BY <2>1, PresentOffers
  <2>3. Reoffered(g, Present(q, idle)) /\ Present(q, idle).offer = state
    BY <1>4, <2>1, <2>2 DEF Reoffered
  <2> QED
    BY <2>3 DEF idle
<1>6. Reoffered(g, Show(a, state))
  BY <1>1, <1>3 DEF Reoffered
<1>7. AfterCheck(g, c) = IF c.outcome = "update" THEN IF c.startup THEN Present(q, ~busy) ELSE Show(a, state)
                         ELSE IF g.ready = 0 THEN Hide(g) ELSE g
  BY DEF AfterCheck, a, state, q, Checkups
<1>8. Reoffered(g, g)
  BY DEF Reoffered
<1> QED
  BY <1>2, <1>3, <1>5, <1>6, <1>7, <1>8

-----------------------------------------------------------------------------
(* Checks, and what the user and the process do *)

\* Steps that leave the files and what the download is at alone.
SameFetch == \A x \in {"pc", "version", "inode", "outcome"} : fetch'[x] = fetch[x]
LEMMA FilesStand ==
    ASSUME FilesInv, SameFetch, UNCHANGED <<package, part, whole, stuck>>
    PROVE  FilesInv'
  BY DEF FilesInv, SameFetch

LEMMA CheckSteps ==
    ASSUME UpdateInv,
           (\E startup \in BOOLEAN : StartCheck(startup)) \/ CheckAnswers \/ CheckFinished \/ CheckThreadFinished
    PROVE  UpdateInv'
<1> USE DEF UpdateInv
<1>1. UNCHANGED <<current, fetch, package, part, whole, stuck, busy, process>> /\ SameFetch
  BY DEF StartCheck, CheckAnswers, CheckFinished, CheckThreadFinished, FilesStay, LifeStays, SameFetch
<1>2. FilesInv'
  BY <1>1, FilesStand
<1>3. /\ checkup' \in Checkups /\ (checkup'.pc = "none" \/ fetch.pc = "none")
      /\ checkup'.pc = "checking" => process = "running"
  <2>1. ASSUME NEW startup \in BOOLEAN, StartCheck(startup) 
        PROVE  /\ checkup' \in Checkups /\ (checkup'.pc = "none" \/ fetch.pc = "none")
               /\ checkup'.pc = "checking" => process = "running"
    <3>1. fetch.pc = "none" /\ process = "running"
      BY <2>1 DEF StartCheck, InProgress, Running
    <3>2. checkup' = [pc |-> "checking", startup |-> startup, outcome |-> "none", version |-> 0]
      BY <2>1 DEF StartCheck, NoCheckup
    <3> QED
      BY <3>1, <3>2, UpdateAssumption DEF Checkups
  <2>2. CASE CheckAnswers
    BY <2>2 DEF CheckAnswers, UpdateTyped, Checkups, WorkersInv
  <2>3. CASE CheckFinished
    BY <2>3 DEF CheckFinished, UpdateTyped, Checkups, WorkersInv
  <2>4. CASE CheckThreadFinished
    BY <2>4, UpdateAssumption DEF CheckThreadFinished, NoCheckup, Checkups
  <2> QED
    BY <2>1, <2>2, <2>3, <2>4
<1>4. /\ gui' \in Guis /\ \A x \in {"ready", "install", "armed", "stopped"} : gui'[x] = gui[x]
      /\ gui'.visible => gui.visible \/ ~busy
      /\ fetch.pc # "none" => gui' = gui
      /\ gui.ready # 0 => gui'.offer \in {"ready", gui.offer}
  <2>1. CASE CheckFinished
    <3>1. Reoffered(gui, gui') /\ (gui.ready # 0 => gui'.offer \in {"ready", gui.offer})
      BY <2>1, CheckOffers DEF CheckFinished, UpdateTyped, OfferInv
    <3> QED
      BY <2>1, <3>1 DEF CheckFinished, Reoffered, WorkersInv
  <2>2. CASE gui' = gui
    BY <2>2 DEF UpdateTyped, OfferInv
  <2> QED
    BY <2>1, <2>2 DEF StartCheck, CheckAnswers, CheckThreadFinished
<1>5. UpdateTyped'
  BY <1>1, <1>3, <1>4 DEF UpdateTyped
<1>6. WorkersInv'
  BY <1>1, <1>3, <1>4 DEF WorkersInv
<1>7. OfferInv'
  BY <1>1, <1>3, <1>4 DEF OfferInv, NoDownload, WorkersEnded
<1> QED
  BY <1>2, <1>5, <1>6, <1>7

\* The offer, the jobs and the end of the process.
LEMMA ControllerSteps ==
    ASSUME UpdateInv,
           \/ JobChanges \/ DismissOffer \/ ShowOffer \/ InstallAndRestart \/ CloseWindow
           \/ Shutdown \/ ShutdownWaited \/ ArmPendingInstall \/ Dies
    PROVE  UpdateInv'
<1> USE DEF UpdateInv
<1>1. UNCHANGED <<current, checkup, package, part, whole, stuck>> /\ SameFetch /\ fetch' \in Fetches
  <2>1. CASE Shutdown
    BY <2>1 DEF Shutdown, UpdateTyped, Fetches, SameFetch, FilesStay
  <2>2. CASE UNCHANGED <<current, checkup, fetch, package, part, whole, stuck>>
    BY <2>2 DEF UpdateTyped, SameFetch
  <2> QED
    BY <2>1, <2>2 DEF JobChanges, DismissOffer, ShowOffer, InstallAndRestart, CloseWindow,
       ShutdownWaited, ArmPendingInstall, Dies, FilesStay, LifeStays
<1>2. FilesInv'
  BY <1>1, FilesStand
<1>3. gui \in Guis /\ busy \in BOOLEAN
  BY DEF UpdateTyped
\* What only hides or shows the offer.
<1>4. ASSUME gui' \in Guis, \A x \in {"ready", "offer", "install", "armed", "stopped"} : gui'[x] = gui[x],
             busy' \in BOOLEAN, ~(busy' /\ gui'.visible),
             \/ process' = process
             \/ process' = "closing" /\ process = "running"
             \/ process' = "stopping" /\ process = "closing"
             \/ process' = "dead" /\ process # "ended"
      PROVE  UpdateTyped' /\ WorkersInv' /\ OfferInv'
  <2>1. UpdateTyped'
    BY <1>1, <1>4 DEF UpdateTyped
  <2>2. WorkersInv'
    BY <1>1, <1>4 DEF WorkersInv, SameFetch
  <2>3. OfferInv'
    BY <1>1, <1>4 DEF OfferInv, NoDownload, WorkersEnded, SameFetch
  <2> QED
    BY <2>1, <2>2, <2>3
<1>5. CASE JobChanges
  <2>1. busy' = ~busy /\ busy' \in BOOLEAN /\ process' = process
    BY <1>3, <1>5 DEF JobChanges
  <2>2. /\ gui' \in Guis /\ \A x \in {"ready", "offer", "install", "armed", "stopped"} : gui'[x] = gui[x]
        /\ ~(busy' /\ gui'.visible)
    <3>1. CASE busy'
      BY <1>3, <1>5, <3>1 DEF JobChanges, Guis
    <3>2. CASE ~busy'
      BY <1>3, <1>5, <3>2, PresentOffers DEF JobChanges
    <3> QED
      BY <3>1, <3>2
  <2> QED
    BY <1>2, <1>4, <2>1, <2>2
<1>6. CASE DismissOffer \/ ShowOffer
  <2>1. /\ gui' \in Guis /\ \A x \in {"ready", "offer", "install", "armed", "stopped"} : gui'[x] = gui[x]
        /\ process' = process /\ busy' = busy
    BY <1>3, <1>6 DEF DismissOffer, ShowOffer, Guis, LifeStays
  <2>2. ~(busy /\ gui'.visible)
    BY <1>3, <1>6 DEF DismissOffer, ShowOffer, Guis, OfferInv
  <2> QED
    BY <1>2, <1>3, <1>4, <2>1, <2>2
<1>7. CASE CloseWindow \/ Shutdown \/ Dies
  <2>1. gui' = gui /\ busy' = busy
    BY <1>7 DEF CloseWindow, Shutdown, Dies
  <2>2. \/ process' = "closing" /\ process = "running"
        \/ process' = "stopping" /\ process = "closing"
        \/ process' = "dead" /\ process # "ended"
    BY <1>7 DEF CloseWindow, Shutdown, Dies, Running
  <2> QED
    BY <1>2, <1>3, <1>4, <2>1, <2>2 DEF OfferInv
<1>8. CASE InstallAndRestart
  <2>1. /\ process = "running" /\ gui.offer = "ready" /\ gui.ready # 0 /\ ~busy /\ busy' = busy
        /\ NoDownload
    BY <1>8 DEF InstallAndRestart, Running, WorkersInv, NoDownload
  <2>2. package[gui.ready] # 0 /\ gui.armed = 0
    BY <2>1 DEF OfferInv, NoDownload
  <2>3. CASE gui' = [gui EXCEPT !.install = gui.ready] /\ process' = "closing"
    <3>1. /\ gui' \in Guis /\ gui'.install = gui.ready
          /\ \A x \in {"ready", "offer", "visible", "armed", "stopped"} : gui'[x] = gui[x]
      BY <1>3, <2>3 DEF Guis
    <3>2. UpdateTyped' /\ WorkersInv'
      BY <1>1, <2>1, <2>3, <3>1 DEF UpdateTyped, WorkersInv, SameFetch
    <3>3. OfferInv'
      BY <1>1, <2>1, <2>2, <2>3, <3>1 DEF OfferInv, NoDownload, WorkersEnded, SameFetch
    <3> QED
      BY <1>2, <3>2, <3>3
  <2>4. CASE gui' \in {Show(gui, "failed"), Show(gui, "ready")} /\ process' = process
    <3>1. Reoffered(gui, gui') /\ gui'.offer \in {"failed", "ready"}
      BY <1>3, <2>4, ShowOffers
    <3>2. UpdateTyped' /\ WorkersInv'
      BY <1>1, <2>1, <2>4, <3>1 DEF UpdateTyped, WorkersInv, SameFetch, Reoffered, NoDownload
    <3>3. OfferInv'
      BY <1>1, <2>1, <2>4, <3>1 DEF OfferInv, NoDownload, WorkersEnded, SameFetch, Reoffered
    <3> QED
      BY <1>2, <3>2, <3>3
  <2> QED
    BY <1>8, <2>3, <2>4 DEF InstallAndRestart
<1>9. CASE ShutdownWaited
  <2>1. gui' = [gui EXCEPT !.stopped = WorkersEnded] /\ process = "stopping" /\ process' = "stopped" /\ busy' = busy
    BY <1>9 DEF ShutdownWaited
  <2> DEFINE ended == WorkersEnded
  <2>2. ended \in BOOLEAN
    BY DEF WorkersEnded
  <2> HIDE DEF ended
  <2>3. /\ gui' \in Guis /\ (gui'.stopped <=> ended)
        /\ \A x \in {"ready", "offer", "visible", "install", "armed"} : gui'[x] = gui[x]
    BY <1>3, <2>1, <2>2 DEF Guis, ended
  <2>4. gui'.stopped => WorkersEnded'
    BY <1>1, <2>3 DEF ended, WorkersEnded, SameFetch
  <2>5. UpdateTyped' /\ WorkersInv'
    BY <1>1, <2>1, <2>3 DEF UpdateTyped, WorkersInv, SameFetch
  <2>6. OfferInv'
    BY <1>1, <2>1, <2>3, <2>4 DEF OfferInv, NoDownload, SameFetch
  <2> QED
    BY <1>2, <2>5, <2>6
<1>10. CASE ArmPendingInstall
  <2>1. /\ gui' \in Guis /\ gui'.install = 0 /\ process = "stopped" /\ process' = "ended" /\ busy' = busy
        /\ gui'.armed = gui.armed \/ (gui'.armed = gui.install /\ gui.install # 0 /\ gui.stopped)
        /\ \A x \in {"ready", "offer", "visible", "stopped"} : gui'[x] = gui[x]
    <3>1. CASE gui' = [gui EXCEPT !.install = 0]
      BY <1>3, <1>10, <3>1, UpdateAssumption DEF ArmPendingInstall, Guis
    <3>2. CASE gui.install # 0 /\ gui.stopped /\ gui' = [gui EXCEPT !.install = 0, !.armed = gui.install]
      <4>1. gui' \in Guis
        <5> DEFINE g == [gui EXCEPT !.install = 0]
        <5>1. 0 \in 0..MaxVersion /\ gui.install \in 0..MaxVersion
          BY <1>3, UpdateAssumption DEF Guis
        <5>2. g \in Guis
          BY <1>3, <5>1 DEF Guis
        <5>3. gui' = [g EXCEPT !.armed = gui.install]
          BY <3>2
        <5> HIDE DEF g
        <5> QED
          BY <5>1, <5>2, <5>3 DEF Guis
      <4>2. gui'.install = 0 /\ gui'.armed = gui.install
        BY <1>3, <3>2 DEF Guis
      <4>3. \A x \in {"ready", "offer", "visible", "stopped"} : gui'[x] = gui[x]
        BY <1>3, <3>2 DEF Guis
      <4>4. process = "stopped" /\ process' = "ended" /\ busy' = busy
        BY <1>10 DEF ArmPendingInstall
      <4> QED
        BY <3>2, <4>1, <4>2, <4>3, <4>4
    <3> QED
      BY <1>10, <3>1, <3>2 DEF ArmPendingInstall
  <2>2. UpdateTyped' /\ WorkersInv'
    BY <1>1, <2>1 DEF UpdateTyped, WorkersInv, SameFetch
  <2>3. OfferInv'
    BY <1>1, <2>1 DEF OfferInv, NoDownload, WorkersEnded, SameFetch
  <2> QED
    BY <1>2, <2>2, <2>3
<1> QED
  BY <1>2, <1>4, <1>5, <1>6, <1>7, <1>8, <1>9, <1>10

-----------------------------------------------------------------------------
(* Downloads *)

\* A step of the worker before its answer: nothing is armed, and only a failure
\* takes the package of its own version away.
LEMMA WorkerGoesOn ==
    ASSUME UpdateInv, fetch.pc \in {"open", "write", "replace", "published", "unlink"},
           UNCHANGED <<current, gui, checkup, busy, process>>,
           fetch' \in Fetches, fetch'.pc \notin {"none", "open", "ending"}, fetch'.version = fetch.version,
           fetch'.outcome = "succeeded" => fetch'.pc = "signalled",
           package' \in Packages, part' \in Packages, stuck' \subseteq Versions, FilesInv',
           \A v \in Versions : package[v] # 0 =>
             \/ package'[v] # 0
             \/ v = fetch.version /\ fetch'.pc = "signalled" /\ fetch'.outcome = "failed"
    PROVE  UpdateInv'
<1> USE DEF UpdateInv
<1>1. UpdateTyped'
  BY DEF UpdateTyped
<1>2. WorkersInv'
  BY DEF WorkersInv
<1>3. gui.install = 0 /\ gui.armed = 0 /\ ~(process \in {"stopped", "ended"} /\ gui.stopped)
  BY DEF OfferInv, NoDownload, WorkersEnded
<1>4. ASSUME gui.ready # 0
      PROVE  \/ package'[gui.ready] # 0
             \/ fetch'.version = gui.ready /\ fetch'.outcome = "failed" /\ fetch'.pc = "signalled"
  <2>1. gui.ready \in Versions
    BY <1>4, UpdateAssumption DEF UpdateTyped, Guis, Versions
  <2>2. package[gui.ready] # 0
    BY <1>4 DEF OfferInv
  <2> QED
    BY <2>1, <2>2
<1>5. OfferInv'
  BY <1>3, <1>4 DEF OfferInv
<1> QED
  BY <1>1, <1>2, <1>5

LEMMA LeastExists ==
    ASSUME NEW some \in SUBSET Nat, some # {}
    PROVE  \E n \in some : \A m \in some : n <= m
<1>1. PICK n \in some : \A m \in some : ~(<<m, n>> \in OpToRel(<, Nat))
  BY NatLessThanWellFounded, WFMin
<1>2. \A m \in some : ~(m < n)
  <2>1. SUFFICES ASSUME NEW m \in some, m < n
                 PROVE  FALSE
    OBVIOUS
  <2>2. <<m, n>> \in OpToRel(<, Nat)
    BY <2>1 DEF OpToRel
  <2> QED
    BY <1>1, <2>2
<1> QED
  BY <1>2

\* Of some versions, one is the newest.
LEMMA NewestExists ==
    ASSUME NEW some \in SUBSET Versions, some # {}
    PROVE  \E v \in some : \A w \in some : w <= v
<1> DEFINE older == {MaxVersion - v : v \in some}
<1>1. older \subseteq Nat /\ older # {}
  <2>1. \A v \in some : MaxVersion - v \in Nat
    BY UpdateAssumption DEF Versions
  <2> QED
    BY <2>1
<1> HIDE DEF older
<1>2. PICK n \in older : \A m \in older : n <= m
  BY <1>1, LeastExists
<1>3. PICK v \in some : n = MaxVersion - v
  BY DEF older
<1>4. \A w \in some : MaxVersion - v <= MaxVersion - w
  BY <1>2, <1>3 DEF older
<1> QED
  BY <1>4, UpdateAssumption DEF Versions

\* The pending update is a package that is there, and newer.
LEMMA PendingStands ==
    ASSUME NEW packages \in Packages, NEW running \in Versions
    PROVE  /\ PendingIn(packages, running) \in 0..MaxVersion
           /\ PendingIn(packages, running) # 0 =>
                PendingIn(packages, running) \in Versions /\ packages[PendingIn(packages, running)] # 0
<1> DEFINE newer == {v \in Versions : v > running /\ packages[v] # 0}
           pending == PendingIn(packages, running)
<1>1. 0 \in 0..MaxVersion /\ \A v \in Versions : v \in 0..MaxVersion
  BY UpdateAssumption DEF Versions
<1>2. newer # {} => \E v \in newer : \A w \in newer : w <= v
  <2> HIDE DEF newer
  <2>1. newer \in SUBSET Versions
    BY DEF newer
  <2> QED
    BY <2>1, NewestExists
<1>3. pending = 0 \/ pending \in newer
  BY <1>2 DEF PendingIn
<1> QED
  BY <1>1, <1>3

LEMMA DownloadSteps ==
    ASSUME UpdateInv,
           \/ OpenUpdatePart \/ WriteVerified \/ ReplacePackage \/ UnlinkPart \/ AskPending
    PROVE  UpdateInv'
<1> USE DEF UpdateInv
<1>1. /\ UNCHANGED <<current, gui, checkup, busy, process>>
      /\ fetch.pc \in {"open", "write", "replace", "published", "unlink"}
  BY DEF OpenUpdatePart, WriteVerified, ReplacePackage, UnlinkPart, AskPending, LifeStays, FilesStay, Works
<1>2. /\ fetch \in Fetches /\ package \in Packages /\ part \in Packages
      /\ fetch.version \in Versions /\ stuck \subseteq Versions
  BY <1>1, UpdateAssumption DEF UpdateTyped, Fetches, WorkersInv, Versions
<1>3. 0 \in 0..MaxInodes
  BY UpdateAssumption
<1>4. ASSUME GivesUp
      PROVE  /\ fetch' \in Fetches /\ fetch'.pc = "unlink" /\ fetch'.version = fetch.version
             /\ fetch'.inode = fetch.inode /\ fetch'.outcome # "succeeded"
  <2>1. PICK outcome \in {"cancelled", "failed"} : fetch' = [fetch EXCEPT !.pc = "unlink", !.outcome = outcome]
    BY <1>4 DEF GivesUp, Outcomes
  <2> QED
    BY <1>2, <2>1 DEF Fetches
<1>11. ASSUME FailsEarly
       PROVE  /\ fetch' \in Fetches /\ fetch'.pc = "signalled" /\ fetch'.version = fetch.version
              /\ fetch'.inode = fetch.inode /\ fetch'.outcome # "succeeded"
  <2>1. PICK outcome \in {"cancelled", "failed"} : fetch' = [fetch EXCEPT !.pc = "signalled", !.outcome = outcome]
    BY <1>11 DEF FailsEarly, Outcomes
  <2> QED
    BY <1>2, <2>1 DEF Fetches
<1>5. fetch.outcome # "succeeded"
  BY <1>1 DEF WorkersInv
<1>6. CASE OpenUpdatePart
  <2>1. fetch.pc = "open" /\ fetch.inode = 0 /\ package' = package /\ whole' = whole \ {fetch'.inode}
        /\ \A v \in Versions : part[v] # 0 => v \in stuck
    BY <1>6 DEF OpenUpdatePart, Works, WorkersInv, FilesInv
  <2>2. CASE GivesUp /\ part' = [part EXCEPT ![fetch.version] = 0] /\ stuck' = stuck \ {fetch.version}
    <3>1. part' \in Packages /\ \A v \in Versions : part'[v] # 0 => part'[v] = part[v] /\ v # fetch.version
      BY <1>2, <1>3, <2>2 DEF Packages
    <3>2. FilesInv'
      BY <1>4, <2>1, <2>2, <3>1 DEF FilesInv
    <3>3. stuck' \subseteq Versions
      BY <1>2, <2>2
    <3> QED
      BY <1>1, <1>2, <1>4, <2>1, <2>2, <3>1, <3>2, <3>3, WorkerGoesOn
  <2>4. CASE FailsEarly /\ UNCHANGED <<part, stuck>>
    <3>1. FilesInv'
      BY <1>11, <2>1, <2>4 DEF FilesInv
    <3> QED
      BY <1>1, <1>2, <1>11, <2>1, <2>4, <3>1, WorkerGoesOn
  <2>3. ASSUME NEW n \in 1..MaxInodes, FreshInode(n), part' = [part EXCEPT ![fetch.version] = n],
               stuck' = stuck \ {fetch.version}, fetch' = [fetch EXCEPT !.pc = "write", !.inode = n]
        PROVE  UpdateInv'
    <3>1. n \in 0..MaxInodes /\ n # 0 /\ \A v \in Versions : package[v] # n
      BY <2>3, UpdateAssumption DEF FreshInode
    <3>2. /\ fetch' \in Fetches /\ fetch'.pc = "write" /\ fetch'.version = fetch.version /\ fetch'.inode = n
          /\ fetch'.outcome # "succeeded"
      BY <1>2, <1>5, <2>1, <2>3, <3>1 DEF Fetches
    <3>3. part' \in Packages /\ part'[fetch.version] = n
          /\ \A v \in Versions : v # fetch.version => part'[v] = part[v]
      BY <1>2, <2>3, <3>1 DEF Packages
    <3>5. stuck' \subseteq Versions /\ \A v \in Versions : v # fetch.version /\ v \in stuck => v \in stuck'
      BY <1>2, <2>3
    <3>4. FilesInv'
      BY <2>1, <3>1, <3>2, <3>3, <3>5 DEF FilesInv
    <3> QED
      BY <1>1, <1>2, <2>1, <3>2, <3>3, <3>4, <3>5, WorkerGoesOn
  <2> QED
    BY <1>6, <2>2, <2>3, <2>4 DEF OpenUpdatePart
<1>7. CASE WriteVerified
  <2>1. fetch.pc = "write" /\ UNCHANGED <<package, part, stuck>>
    BY <1>7 DEF WriteVerified, Works
  <2>2. CASE GivesUp /\ whole' = whole
    <3>1. FilesInv'
      BY <1>4, <2>1, <2>2 DEF FilesInv
    <3> QED
      BY <1>1, <1>2, <1>4, <2>1, <2>2, <3>1, WorkerGoesOn
  <2>3. CASE FetchGoes("replace") /\ whole' = whole \cup {fetch.inode}
    <3>1. /\ fetch' \in Fetches /\ fetch'.pc = "replace" /\ fetch'.version = fetch.version
          /\ fetch'.inode = fetch.inode /\ fetch'.outcome # "succeeded"
      BY <1>2, <1>5, <2>1, <2>3 DEF FetchGoes, Fetches
    <3>2. FilesInv'
      BY <2>1, <2>3, <3>1 DEF FilesInv
    <3> QED
      BY <1>1, <1>2, <2>1, <3>1, <3>2, WorkerGoesOn
  <2> QED
    BY <1>7, <2>2, <2>3 DEF WriteVerified
<1>8. CASE ReplacePackage
  <2>1. fetch.pc = "replace" /\ whole' = whole /\ stuck' = stuck /\ fetch.inode \in whole
    BY <1>8 DEF ReplacePackage, Works, FilesInv
  <2>2. CASE GivesUp /\ UNCHANGED <<package, part>>
    <3>1. FilesInv'
      BY <1>4, <2>1, <2>2 DEF FilesInv
    <3> QED
      BY <1>1, <1>2, <1>4, <2>1, <2>2, <3>1, WorkerGoesOn
  <2>3. CASE /\ part[fetch.version] # 0
             /\ fetch' \in {[fetch EXCEPT !.pc = "published"], [fetch EXCEPT !.pc = "unlink", !.outcome = "failed"]}
             /\ package' = [package EXCEPT ![fetch.version] = part[fetch.version]]
             /\ part' = [part EXCEPT ![fetch.version] = 0]
    <3>1. /\ fetch' \in Fetches /\ fetch'.pc \in {"published", "unlink"} /\ fetch'.version = fetch.version
          /\ fetch'.outcome # "succeeded"
      BY <1>2, <1>5, <2>1, <2>3 DEF Fetches
    <3>2. part[fetch.version] = fetch.inode
      BY <2>1 DEF FilesInv
    <3>3. /\ package' \in Packages /\ part' \in Packages /\ package'[fetch.version] \in whole \ {0}
          /\ part'[fetch.version] = 0
          /\ \A v \in Versions : v # fetch.version => part'[v] = part[v] /\ package'[v] = package[v]
      BY <1>2, <1>3, <2>1, <2>3, <3>2 DEF Packages, FilesInv
    <3>4. FilesInv'
      BY <1>2, <2>1, <3>1, <3>3 DEF FilesInv
    <3> QED
      BY <1>1, <1>2, <2>1, <3>1, <3>3, <3>4, WorkerGoesOn
  <2> QED
    BY <1>8, <2>2, <2>3 DEF ReplacePackage
<1>9. CASE UnlinkPart
  <2>1. fetch.pc = "unlink" /\ UNCHANGED <<package, whole>>
    BY <1>9 DEF UnlinkPart, Works
  <2>2. CASE FetchGoes("signalled") /\ part' = [part EXCEPT ![fetch.version] = 0] /\ stuck' = stuck
    <3>1. /\ fetch' \in Fetches /\ fetch'.pc = "signalled" /\ fetch'.version = fetch.version
          /\ fetch'.outcome # "succeeded"
      BY <1>2, <1>5, <2>2 DEF FetchGoes, Fetches
    <3>2. part' \in Packages /\ part'[fetch.version] = 0
          /\ \A v \in Versions : v # fetch.version => part'[v] = part[v]
      BY <1>2, <1>3, <2>2 DEF Packages
    <3>3. FilesInv'
      BY <2>1, <2>2, <3>1, <3>2 DEF FilesInv
    <3> QED
      BY <1>1, <1>2, <2>1, <2>2, <3>1, <3>2, <3>3, WorkerGoesOn
  <2>3. CASE /\ fetch' = [fetch EXCEPT !.pc = "signalled", !.outcome = "failed"]
             /\ stuck' = stuck \cup {fetch.version} /\ part' = part
    <3>1. /\ fetch' \in Fetches /\ fetch'.pc = "signalled" /\ fetch'.version = fetch.version
          /\ fetch'.outcome = "failed"
      BY <1>2, <2>3 DEF Fetches
    <3>2. FilesInv'
      BY <2>1, <2>3, <3>1 DEF FilesInv
    <3>3. stuck' \subseteq Versions
      BY <1>2, <2>3
    <3> QED
      BY <1>1, <1>2, <2>1, <2>3, <3>1, <3>2, <3>3, WorkerGoesOn
  <2> QED
    BY <1>9, <2>2, <2>3 DEF UnlinkPart
<1>10. CASE AskPending
  <2>1. fetch.pc = "published" /\ UNCHANGED <<part, whole, stuck>> /\ \A v \in Versions : part[v] # 0 => v \in stuck
    BY <1>10 DEF AskPending, Works, FilesInv
  <2>2. CASE /\ PendingIn(package, current) = fetch.version /\ package' = package
             /\ fetch' = [fetch EXCEPT !.pc = "signalled", !.outcome = "succeeded"]
    <3>1. fetch' \in Fetches /\ fetch'.pc = "signalled" /\ fetch'.version = fetch.version
      BY <1>2, <2>2 DEF Fetches
    <3>2. package[fetch.version] # 0
      <4>1. current \in Versions /\ fetch.version # 0
        BY <1>1 DEF UpdateTyped, WorkersInv
      <4> QED
        BY <1>2, <2>2, <4>1, PendingStands
    <3>3. FilesInv'
      BY <2>1, <2>2, <3>1, <3>2 DEF FilesInv
    <3> QED
      BY <1>1, <1>2, <2>1, <2>2, <3>1, <3>3, WorkerGoesOn
  <2>3. CASE /\ package' \in {package, [package EXCEPT ![fetch.version] = 0]}
             /\ fetch' = [fetch EXCEPT !.pc = "signalled", !.outcome = "failed"]
    <3>1. /\ fetch' \in Fetches /\ fetch'.pc = "signalled" /\ fetch'.version = fetch.version
          /\ fetch'.outcome = "failed"
      BY <1>2, <2>3 DEF Fetches
    <3>2. package' \in Packages /\ package'[fetch.version] \in {package[fetch.version], 0}
          /\ \A v \in Versions : v # fetch.version => package'[v] = package[v]
      BY <1>2, <1>3, <2>3 DEF Packages
    <3>3. FilesInv'
      BY <2>1, <3>1, <3>2 DEF FilesInv
    <3> QED
      BY <1>1, <1>2, <2>1, <3>1, <3>2, <3>3, WorkerGoesOn
  <2> QED
    BY <1>10, <2>2, <2>3 DEF AskPending
<1> QED
  BY <1>6, <1>7, <1>8, <1>9, <1>10

\* The download's way in and out of the GUI thread.
LEMMA AnswerSteps ==
    ASSUME UpdateInv, StartDownload \/ CancelDownload \/ DownloadAnswered \/ DownloadThreadFinished
    PROVE  UpdateInv'
<1> USE DEF UpdateInv
<1>1. /\ UNCHANGED <<current, checkup, package, part, whole, stuck, busy, process>> /\ process = "running"
      /\ gui \in Guis /\ fetch \in Fetches /\ busy \in BOOLEAN
  BY DEF StartDownload, CancelDownload, DownloadAnswered, DownloadThreadFinished, FilesStay, LifeStays,
     Running, UpdateTyped
<1>2. gui.install = 0 /\ gui.armed = 0
  BY <1>1 DEF OfferInv
<1>3. CASE StartDownload
  <2>1. checkup.pc = "none" /\ fetch.pc = "none" /\ gui.available # 0
    BY <1>3 DEF StartDownload, InProgress
  <2>2. Reoffered(gui, gui') /\ gui'.offer = "downloading"
    BY <1>1, <1>3, ShowOffers DEF StartDownload
  <2>3. fetch' = [pc |-> "open", version |-> gui.available, inode |-> 0, cancelled |-> FALSE, outcome |-> "none"]
    BY <1>3 DEF StartDownload, NoFetch
  <2>4. fetch' \in Fetches
    BY <1>1, <2>3, UpdateAssumption DEF Guis, Fetches
  <2>5. UpdateTyped'
    BY <1>1, <2>2, <2>4 DEF UpdateTyped, Reoffered
  <2>6. FilesInv' /\ WorkersInv'
    BY <1>1, <2>1, <2>2, <2>3 DEF FilesInv, WorkersInv
  <2>7. OfferInv'
    BY <1>1, <1>2, <2>1, <2>2 DEF OfferInv, Reoffered
  <2> QED
    BY <2>5, <2>6, <2>7
<1>4. CASE CancelDownload
  <2>1. gui' = gui /\ fetch' \in Fetches /\ SameFetch
    BY <1>1, <1>4 DEF CancelDownload, Fetches, SameFetch
  <2>2. FilesInv'
    BY <1>1, <2>1, FilesStand
  <2>3. UpdateTyped' /\ WorkersInv'
    BY <1>1, <2>1 DEF UpdateTyped, WorkersInv, SameFetch
  <2>4. OfferInv'
    BY <1>1, <1>2, <2>1 DEF OfferInv, SameFetch
  <2> QED
    BY <2>2, <2>3, <2>4
<1>5. CASE DownloadAnswered
  <2>1. fetch.pc = "signalled"
    BY <1>5 DEF DownloadAnswered, Works
  <2>2. /\ fetch' \in Fetches /\ fetch'.pc = "ending" /\ fetch'.version = fetch.version
        /\ fetch'.outcome = fetch.outcome /\ fetch'.inode = fetch.inode
    BY <1>1, <1>5 DEF DownloadAnswered, FetchGoes, Fetches
  <2>3. FilesInv' /\ checkup'.pc = "none" /\ fetch.version # 0
    BY <1>1, <2>1, <2>2 DEF FilesInv, WorkersInv
  <2>4. WorkersInv'
    BY <2>2, <2>3 DEF WorkersInv
  <2>5. /\ gui' \in Guis /\ gui'.install = 0 /\ gui'.armed = 0
        /\ gui'.visible => gui.visible \/ ~busy
        /\ gui'.ready # 0 => gui'.offer # "none" /\ package[gui'.ready] # 0
    <3>1. CASE fetch.outcome = "succeeded"
      <4> DEFINE g == [gui EXCEPT !.ready = fetch.version, !.available = fetch.version]
      <4>1. g \in Guis /\ g.install = 0 /\ g.armed = 0 /\ g.visible = gui.visible /\ g.ready = fetch.version
        BY <1>1, <1>2 DEF Guis, Fetches
      <4>2. gui' = Show(g, "ready")
        BY <1>5, <3>1 DEF DownloadAnswered
      <4> HIDE DEF g
      <4>3. Reoffered(g, gui') /\ gui'.offer = "ready"
        BY <1>1, <4>1, <4>2, ShowOffers
      <4>4. package[fetch.version] # 0
        BY <2>1, <3>1 DEF FilesInv
      <4> QED
        BY <4>1, <4>3, <4>4 DEF Reoffered
    <3>2. CASE fetch.outcome = "failed"
      <4> DEFINE g == [gui EXCEPT !.ready = 0]
      <4>1. g \in Guis /\ g.install = 0 /\ g.armed = 0 /\ g.visible = gui.visible /\ g.ready = 0
        BY <1>1, <1>2, UpdateAssumption DEF Guis
      <4>2. gui' = Show(g, "failed")
        BY <1>5, <3>2 DEF DownloadAnswered
      <4> HIDE DEF g
      <4>3. Reoffered(g, gui')
        BY <1>1, <4>1, <4>2, ShowOffers
      <4> QED
        BY <4>1, <4>3 DEF Reoffered
    <3>3. CASE fetch.outcome \notin {"succeeded", "failed"}
      <4>1. gui' = Show(gui, "available")
        BY <1>5, <3>3 DEF DownloadAnswered
      <4>2. Reoffered(gui, gui') /\ gui'.offer = "available"
        BY <1>1, <4>1, ShowOffers
      <4> QED
        BY <1>2, <3>3, <4>2 DEF Reoffered, OfferInv
    <3> QED
      BY <3>1, <3>2, <3>3
  <2>6. UpdateTyped'
    BY <1>1, <2>2, <2>5 DEF UpdateTyped
  <2>7. OfferInv'
    BY <1>1, <2>5 DEF OfferInv
  <2> QED
    BY <2>3, <2>4, <2>6, <2>7
<1>6. CASE DownloadThreadFinished
  <2>1. fetch.pc = "ending" /\ fetch' = NoFetch /\ gui' = gui
    BY <1>6 DEF DownloadThreadFinished, Works
  <2>2. fetch' \in Fetches /\ fetch'.pc = "none" /\ fetch'.inode = 0 /\ fetch'.outcome = "none"
    BY <2>1, UpdateAssumption DEF NoFetch, Fetches
  <2>3. UpdateTyped' /\ FilesInv' /\ WorkersInv'
    BY <1>1, <2>1, <2>2 DEF UpdateTyped, FilesInv, WorkersInv
  <2>4. OfferInv'
    BY <1>1, <1>2, <2>1 DEF OfferInv
  <2> QED
    BY <2>3, <2>4
<1> QED
  BY <1>3, <1>4, <1>5, <1>6

-----------------------------------------------------------------------------
(* The starts *)

\* A start with nothing, or with what the sweep kept and what it could not remove.
LEMMA Starts ==
    ASSUME NEW pending \in 0..MaxVersion,
           current' \in Versions, gui' = StartedGui(pending), checkup' = NoCheckup, fetch' = NoFetch,
           package' \in Packages, part' \in Packages, process' = "running", busy' = FALSE,
           pending # 0 => package'[pending] # 0, stuck' \subseteq Versions,
           \A v \in Versions : (part'[v] # 0 => v \in stuck') /\ (package'[v] # 0 => package'[v] \in whole')
    PROVE  UpdateInv'
<1> USE DEF UpdateInv
<1>1. 0 \in 0..MaxVersion /\ 0 \in 0..MaxInodes
  BY UpdateAssumption
<1>2. fetch' \in Fetches /\ fetch'.pc = "none" /\ fetch'.inode = 0 /\ fetch'.outcome = "none"
  BY <1>1 DEF NoFetch, Fetches
<1>3. checkup' \in Checkups /\ checkup'.pc = "none"
  BY <1>1 DEF NoCheckup, Checkups
<1>4. /\ gui' \in Guis /\ gui'.ready = pending /\ gui'.install = 0 /\ gui'.armed = 0
      /\ pending # 0 => gui'.offer # "none"
  BY <1>1 DEF StartedGui, Guis
<1>5. UpdateTyped' /\ FilesInv' /\ WorkersInv'
  BY <1>2, <1>3, <1>4 DEF UpdateTyped, FilesInv, WorkersInv
<1>6. OfferInv'
  BY <1>4 DEF OfferInv
<1> QED
  BY <1>5, <1>6

LEMMA UpdateStarts == UpdateInit => UpdateInv
<1> SUFFICES ASSUME UpdateInit
             PROVE  UpdateInv
  OBVIOUS
<1> USE DEF UpdateInv, UpdateInit
<1>1. 0 \in 0..MaxVersion /\ 0 \in 0..MaxInodes /\ 1 \in Versions
  BY UpdateAssumption DEF Versions
<1>2. fetch \in Fetches /\ fetch.pc = "none" /\ fetch.inode = 0 /\ fetch.outcome = "none"
  BY <1>1 DEF NoFetch, Fetches
<1>3. checkup \in Checkups /\ checkup.pc = "none"
  BY <1>1 DEF NoCheckup, Checkups
<1>4. gui \in Guis /\ gui.ready = 0 /\ gui.install = 0 /\ gui.armed = 0
  BY <1>1 DEF StartedGui, Guis
<1>5. /\ package \in Packages /\ part \in Packages /\ \A v \in Versions : package[v] = 0 /\ part[v] = 0
      /\ stuck = {}
  BY <1>1 DEF Packages
<1>6. UpdateTyped /\ FilesInv /\ WorkersInv
  BY <1>1, <1>2, <1>3, <1>4, <1>5 DEF UpdateTyped, FilesInv, WorkersInv
<1>7. OfferInv
  BY <1>4 DEF OfferInv
<1> QED
  BY <1>6, <1>7

LEMMA StartsAgain ==
    ASSUME UpdateInv, StartAgain
    PROVE  UpdateInv'
<1> DEFINE running == IF gui.armed # 0 THEN gui.armed ELSE current
           pending == PendingIn(package, running)
<1>1. package \in Packages /\ running \in Versions
  BY UpdateAssumption DEF UpdateInv, UpdateTyped, Guis, Versions
<1>2. /\ current' = running /\ (\E read \in {0, pending} : gui' = StartedGui(read)) /\ Swept(pending)
      /\ checkup' = NoCheckup /\ fetch' = NoFetch /\ busy' = FALSE /\ process' = "running" /\ whole' = whole
  BY DEF StartAgain
<1> HIDE DEF running
<1>3. pending \in 0..MaxVersion /\ (pending # 0 => pending \in Versions /\ package[pending] # 0)
  BY <1>1, PendingStands
<1> HIDE DEF pending
<1>4. /\ package' \in Packages /\ part' \in Packages /\ (pending # 0 => package'[pending] # 0)
      /\ stuck' \subseteq Versions
      /\ \A v \in Versions : (part'[v] # 0 => v \in stuck') /\ (package'[v] # 0 => package'[v] = package[v])
  <2>1. PICK packages \in SUBSET {v \in Versions : package[v] # 0}, parts \in SUBSET {v \in Versions : part[v] # 0} :
        /\ package' = [v \in Versions |-> IF v = pending \/ v \in packages THEN package[v] ELSE 0]
        /\ part' = [v \in Versions |-> IF v \in parts THEN part[v] ELSE 0]
        /\ stuck' = parts
    BY <1>2 DEF Swept
  <2>2. part \in Packages /\ 0 \in 0..MaxInodes
    BY UpdateAssumption DEF UpdateInv, UpdateTyped
  <2>3. package' \in Packages /\ part' \in Packages
    BY <1>1, <2>1, <2>2 DEF Packages
  <2> QED
    BY <1>1, <1>3, <2>1, <2>3
<1>5. \A v \in Versions : package'[v] # 0 => package'[v] \in whole'
  BY <1>2, <1>4 DEF UpdateInv, FilesInv
<1>6. PICK read \in {0, pending} : gui' = StartedGui(read)
  BY <1>2
<1>7. read \in 0..MaxVersion /\ (read # 0 => package'[read] # 0)
  BY <1>3, <1>4, <1>6, UpdateAssumption
<1> QED
  BY <1>1, <1>2, <1>4, <1>5, <1>6, <1>7, Starts

LEMMA UpdateGoesOn == UpdateInv /\ [UpdateNext]_updateVars => UpdateInv'
<1> SUFFICES ASSUME UpdateInv, [UpdateNext]_updateVars
             PROVE  UpdateInv'
  OBVIOUS
<1>1. CASE UNCHANGED updateVars
  BY <1>1 DEF updateVars, UpdateInv, UpdateTyped, FilesInv, WorkersInv, OfferInv, NoDownload, WorkersEnded
<1>2. CASE UpdateNext
  BY <1>2, CheckSteps, ControllerSteps, DownloadSteps, AnswerSteps, StartsAgain
  DEF UpdateNext, WorkersStep, DownloadStep
<1> QED
  BY <1>1, <1>2

\* A check that fails or finds nothing leaves the offer of a ready package: its
\* answer is the only step from a signalled check to an ending one.
LEMMA ReadyOfferKept ==
    ASSUME UpdateInv, UpdateNext, gui.ready # 0, checkup.pc = "signalled", checkup'.pc = "ending"
    PROVE  gui'.ready = gui.ready /\ gui'.offer \in {"ready", gui.offer}
<1>1. CheckFinished
  <2>1. ASSUME NEW startup \in BOOLEAN, StartCheck(startup)
        PROVE  FALSE
    BY <2>1 DEF StartCheck, InProgress
  <2>2. CASE CheckAnswers \/ CheckThreadFinished
    BY <2>2 DEF CheckAnswers, CheckThreadFinished
  <2>3. CASE StartAgain
    BY <2>3 DEF StartAgain, NoCheckup
  <2>4. CASE checkup' = checkup
    BY <2>4
  <2>5. CASE \/ StartDownload \/ CancelDownload \/ DownloadAnswered \/ JobChanges \/ DismissOffer \/ ShowOffer
             \/ InstallAndRestart \/ CloseWindow \/ Shutdown \/ ShutdownWaited \/ ArmPendingInstall \/ Dies
    BY <2>4, <2>5 DEF StartDownload, CancelDownload, DownloadAnswered, JobChanges, DismissOffer, ShowOffer,
       InstallAndRestart, CloseWindow, Shutdown, ShutdownWaited, ArmPendingInstall, Dies
  <2>6. CASE DownloadStep
    BY <2>4, <2>6 DEF DownloadStep, OpenUpdatePart, WriteVerified, ReplacePackage, UnlinkPart, AskPending,
       DownloadThreadFinished
  <2> QED
    BY <2>1, <2>2, <2>3, <2>5, <2>6 DEF UpdateNext, WorkersStep
<1>2. /\ gui \in Guis /\ checkup \in Checkups /\ busy \in BOOLEAN /\ gui.offer # "none"
      /\ gui' = AfterCheck(gui, checkup)
  BY <1>1 DEF CheckFinished, UpdateInv, UpdateTyped, OfferInv
<1>3. Reoffered(gui, gui') /\ gui'.offer \in {"ready", gui.offer}
  BY <1>2, CheckOffers
<1> QED
  BY <1>3 DEF Reoffered

\* What is offered, ready or armed is a whole package, over later checks,
\* cancelled downloads, jobs, deaths and restarts: the controller
\* (ui/update_controller.py) and the downloader (updates.py) together, whatever
\* removal fails; a part that stays is one whose removal failed.
THEOREM OnlyWholeUpdates == UpdateSpec => UpdateCorrect
<1>1. UpdateInv => UpdateSafe
  BY UpdateIsSafe
<1>2. UpdateInit => UpdateInv
  BY UpdateStarts
<1>3. UpdateInv /\ [UpdateNext]_updateVars => UpdateInv'
  BY UpdateGoesOn
<1>4. UpdateInv /\ [UpdateNext]_updateVars =>
        [gui.ready # 0 /\ checkup.pc = "signalled" /\ checkup'.pc = "ending" =>
           gui'.ready = gui.ready /\ gui'.offer \in {"ready", gui.offer}]_updateVars
  BY ReadyOfferKept
<1> QED
  BY <1>1, <1>2, <1>3, <1>4, PTL DEF UpdateSpec, UpdateCorrect, UpdateSafe, CheckKeepsReadyOffer

-----------------------------------------------------------------------------
(* Playback: the inductive invariant *)

Shots == FrameTimes \cup {Nothing}
Ranges == Windows \cup {<<0, 2 * FrameCount>>, Everything}
Showns == [video : Videos, ready : BOOLEAN, job : BOOLEAN, head : 0..LatestPosition,
           window : Windows \cup {<<0, 2 * FrameCount>>}, due : BOOLEAN]
Players == [playing : BOOLEAN, active : 0..MaxPlays, visible : Shots, release : BOOLEAN, pressed : BOOLEAN,
            suspended : BOOLEAN, resume : BOOLEAN, video : 0..2, selection : BOOLEAN]
PlayWorkers == [pc : {"none", "open", "pull", "window", "pace", "seek", "hold", "publish", "announce", "close",
                      "signal", "done"},
                range : Ranges, comes : 0..Nothing, item : Shots, fresh : BOOLEAN, yielded : 0..2,
                sought : Ranges, late : Nat, outcome : {"none", "failed", "ended"}, stop : BOOLEAN]
Views == [shown : Showns, player : Players, held : 0..MaxPlays, plays : [Sessions -> PlayWorkers]]

\* The workers: all but the active session's were told to stop, what one decodes
\* next is a frame, and a session that was not used has left nothing.
Decoding(g) ==
    \A s \in Sessions :
       /\ g.plays[s].pc # "open" => g.plays[s].comes \in Shots
       /\ g.plays[s].pc = "none" => mailbox[s] = Nothing
       /\ s # g.player.active /\ g.plays[s].pc \notin {"none", "done"} => g.plays[s].stop

\* The controller: a session is active while it plays and is not suspended.
Controlled(g) ==
    /\ g.player.active # 0 <=> g.player.playing /\ ~g.player.suspended
    /\ g.player.active # 0 => g.plays[g.player.active].pc # "none"
    /\ g.player.suspended <=> g.player.resume
    /\ g.player.suspended => g.player.playing /\ g.player.pressed
    /\ g.player.playing \/ g.player.release => g.player.video # 0

\* The slot of the active session is announced.
Announced(g) ==
    g.player.active # 0 /\ mailbox[g.player.active] # Nothing =>
        sent[g.player.active].frame \/ g.plays[g.player.active].pc = "announce"

Kept(g) == g \in Views /\ Decoding(g) /\ Controlled(g) /\ Announced(g)
HeldFor(g) == g.held # 0 => (g.player.playing /\ ~g.player.suspended) \/ g.player.release
Stands(g) ==
    g.player.playing \/ g.player.release =>
        g.player.video = g.shown.video /\ g.shown.ready /\ ~g.shown.job
Steady(g) == Kept(g) /\ HeldFor(g) /\ Stands(g)

PostTyped ==
    /\ mailbox \in [Sessions -> Shots]
    /\ sent \in [Sessions -> [frame : BOOLEAN, outcome : {"none", "failed", "ended"}]]
PlaybackInv == Steady(Gui) /\ PostTyped /\ edits \in 0..MaxPlaybackEdits

-----------------------------------------------------------------------------
(* What the controller does to its view *)

\* A session that was started stays where it is: the GUI thread only tells it to
\* stop, or what to loop.
Undisturbed(g, h) ==
    \A s \in Sessions : g.plays[s].pc # "none" => h.plays[s].pc = g.plays[s].pc

LEMMA StopsTheWorker ==
    ASSUME NEW g, Kept(g)
    PROVE  LET h == StopWorker(g) IN
           /\ Kept(h) /\ ~h.player.playing /\ h.player.active = 0
           /\ h.shown = g.shown /\ h.held = g.held
           /\ h.player.visible = g.player.visible /\ h.player.release = g.player.release
           /\ h.player.video = g.player.video /\ Undisturbed(g, h)
<1> DEFINE h == StopWorker(g)
<1> USE DEF Kept
<1> DEFINE p == g.player
           q == [p EXCEPT !.active = 0, !.playing = FALSE, !.suspended = FALSE, !.resume = FALSE]
           workers == InterruptedWorker(g.plays, p.active)
<1>4. g.shown \in Showns /\ p \in Players /\ g.held \in 0..MaxPlays /\ g.plays \in [Sessions -> PlayWorkers]
  BY DEF Views
<1>5. h = [g EXCEPT !.player = q, !.plays = workers]
  BY DEF StopWorker, Views
<1>6. /\ workers \in [Sessions -> PlayWorkers]
      /\ \A s \in Sessions : /\ workers[s].pc = g.plays[s].pc /\ workers[s].comes = g.plays[s].comes
                             /\ (g.plays[s].stop \/ s = p.active) => workers[s].stop
  <2>1. CASE p.active = 0
    BY <1>4, <2>1 DEF InterruptedWorker, Sessions
  <2>2. CASE p.active # 0
    <3> DEFINE v == g.plays[p.active]
               w == [v EXCEPT !.stop = TRUE]
    <3>1. p.active \in Sessions
      BY <1>4, <2>2 DEF Players, Sessions
    <3>4. v \in PlayWorkers
      BY <1>4, <3>1
    <3> HIDE DEF v
    <3>2. w \in PlayWorkers /\ w.pc = v.pc /\ w.comes = v.comes /\ w.stop
      BY <3>4 DEF PlayWorkers
    <3>3. workers = [g.plays EXCEPT ![p.active] = w]
      BY <2>2 DEF InterruptedWorker, v
    <3> HIDE DEF w, workers, p
    <3> QED
      BY <1>4, <3>1, <3>2, <3>3 DEF v
  <2> QED
    BY <2>1, <2>2
<1>7. /\ q \in Players /\ ~q.playing /\ q.active = 0 /\ ~q.suspended /\ ~q.resume
      /\ q.visible = p.visible /\ q.release = p.release /\ q.video = p.video
  <2>1. 0 \in 0..MaxPlays
    BY PlaybackAssumption
  <2> QED
    BY <1>4, <2>1 DEF Players
<1> HIDE DEF h, q, workers
<1>1. /\ h \in Views /\ ~h.player.playing /\ h.player.active = 0 /\ ~h.player.suspended /\ ~h.player.resume
      /\ h.shown = g.shown /\ h.held = g.held /\ h.player.visible = g.player.visible
      /\ h.player.release = g.player.release /\ h.player.video = g.player.video
  BY <1>4, <1>5, <1>6, <1>7 DEF Views
<1>2. \A s \in Sessions : /\ h.plays[s].pc = g.plays[s].pc /\ h.plays[s].comes = g.plays[s].comes
                          /\ (g.plays[s].stop \/ s = g.player.active) => h.plays[s].stop
  <2>1. h.plays = workers
    BY <1>4, <1>5 DEF Views
  <2> QED
    BY <1>6, <2>1
<1>3. Decoding(h) /\ Controlled(h) /\ Announced(h)
  BY <1>1, <1>2 DEF Decoding, Controlled, Announced
<1> QED
  BY <1>1, <1>2, <1>3 DEF h, Undisturbed

LEMMA ReleasesHolds ==
    ASSUME NEW g, Kept(g)
    PROVE  LET h == ReleaseHolds(g) IN
           /\ Kept(h) /\ HeldFor(h) /\ ~h.player.release
           /\ h.player.playing = g.player.playing /\ h.shown = g.shown
           /\ h.player.video = g.player.video /\ Undisturbed(g, h)
<1> DEFINE h == ReleaseHolds(g)
<1> USE DEF Kept
<1>1. /\ h \in Views /\ h.held = 0 /\ ~h.player.release /\ h.shown = g.shown /\ h.plays = g.plays
      /\ \A x \in {"playing", "active", "pressed", "suspended", "resume", "video"} : h.player[x] = g.player[x]
  <2> DEFINE p == g.player
             q == [p EXCEPT !.release = FALSE, !.visible = Nothing]
  <2>1. g.shown \in Showns /\ p \in Players /\ g.held \in 0..MaxPlays /\ g.plays \in [Sessions -> PlayWorkers]
    BY DEF Views
  <2>2. h = [g EXCEPT !.player = q, !.held = 0]
    BY DEF ReleaseHolds, Views
  <2>3. /\ q \in Players /\ ~q.release
        /\ \A x \in {"playing", "active", "pressed", "suspended", "resume", "video"} : q[x] = p[x]
    BY <2>1 DEF Players, Shots
  <2>4. 0 \in 0..MaxPlays
    BY PlaybackAssumption
  <2> HIDE DEF h, q
  <2> QED
    BY <2>1, <2>2, <2>3, <2>4 DEF Views
<1>2. Decoding(h) /\ Controlled(h) /\ Announced(h) /\ HeldFor(h)
  BY <1>1 DEF Decoding, Controlled, Announced, HeldFor
<1> QED
  BY <1>1, <1>2 DEF Undisturbed

LEMMA SyncsRange ==
    ASSUME NEW g, Kept(g)
    PROVE  LET h == SyncRange(g) IN
           /\ Kept(h) /\ (HeldFor(g) => HeldFor(h)) /\ (Stands(g) => Stands(h))
           /\ h.player = g.player /\ h.shown = g.shown /\ Undisturbed(g, h)
<1> DEFINE h == SyncRange(g)
<1> USE DEF Kept
<1>1. CASE g.player.active = 0 \/ ~g.player.selection
  BY <1>1 DEF SyncRange, Undisturbed
<1>2. CASE g.player.active # 0 /\ g.player.selection
  <2>1. h = [g EXCEPT !.plays[g.player.active].range = g.shown.window]
    BY <1>2 DEF SyncRange
  <2>2. /\ h \in Views /\ h.player = g.player /\ h.shown = g.shown /\ h.held = g.held
        /\ \A s \in Sessions : /\ h.plays[s].pc = g.plays[s].pc /\ h.plays[s].comes = g.plays[s].comes
                               /\ h.plays[s].stop = g.plays[s].stop
    <3> DEFINE a == g.player.active
               w == [g.plays[a] EXCEPT !.range = g.shown.window]
               workers == [g.plays EXCEPT ![a] = w]
    <3>1. g.shown \in Showns /\ g.player \in Players /\ g.held \in 0..MaxPlays /\ g.plays \in [Sessions -> PlayWorkers]
      BY DEF Views
    <3>2. a \in Sessions /\ g.shown.window \in Ranges
      BY <1>2, <3>1 DEF Players, Sessions, Showns, Ranges
    <3>3. h = [g EXCEPT !.plays = workers]
      BY <2>1 DEF Views
    <3>4. w \in PlayWorkers /\ w.pc = g.plays[a].pc /\ w.comes = g.plays[a].comes /\ w.stop = g.plays[a].stop
      BY <3>1, <3>2 DEF PlayWorkers
    <3> HIDE DEF w
    <3>5. /\ workers \in [Sessions -> PlayWorkers]
          /\ \A s \in Sessions : /\ workers[s].pc = g.plays[s].pc /\ workers[s].comes = g.plays[s].comes
                                 /\ workers[s].stop = g.plays[s].stop
      BY <3>1, <3>4
    <3> HIDE DEF h, workers
    <3> QED
      BY <3>1, <3>3, <3>5 DEF Views
  <2>3. g.player.active \in Sessions
    BY <1>2 DEF Views, Players, Sessions
  <2>4. Decoding(h) /\ Controlled(h) /\ Announced(h)
    BY <2>2, <2>3 DEF Decoding, Controlled, Announced
  <2> QED
    BY <2>2, <2>4 DEF HeldFor, Stands, Undisturbed
<1> QED
  BY <1>1, <1>2

LEMMA ChangesState ==
    ASSUME NEW g, Kept(g), HeldFor(g)
    PROVE  LET h == StateChanged(g) IN
           Steady(h) /\ h.shown = g.shown /\ (h.player.playing => g.player.playing) /\ Undisturbed(g, h)
<1> DEFINE replaced == g.player.video # 0 /\ g.shown.video # g.player.video
           stops == (g.player.playing \/ g.player.release) /\ (replaced \/ ~g.shown.ready \/ g.shown.job)
           still == IF g.player.playing THEN StopWorker(g) ELSE g
           stopped == IF stops THEN ReleaseHolds(still) ELSE g
           named == [stopped EXCEPT !.player.video = IF replaced THEN 0 ELSE @]
<1>1. Kept(still) /\ ~still.player.playing /\ still.shown = g.shown /\ still.player.video = g.player.video
      /\ Undisturbed(g, still)
  BY StopsTheWorker DEF Kept, Undisturbed
<1> HIDE DEF still
<1>2. Kept(stopped) /\ HeldFor(stopped) /\ stopped.shown = g.shown /\ stopped.player.video = g.player.video
      /\ (stopped.player.playing => g.player.playing)
      /\ Undisturbed(g, stopped)
      /\ IF stops THEN ~stopped.player.playing /\ ~stopped.player.release
         ELSE stopped = g
  <2>1. CASE stops
    <3>1. stopped = ReleaseHolds(still)
      BY <2>1
    <3> HIDE DEF stops, stopped
    <3>2. Kept(stopped) /\ HeldFor(stopped) /\ ~stopped.player.release /\ ~stopped.player.playing
          /\ stopped.shown = g.shown /\ stopped.player.video = g.player.video /\ Undisturbed(g, stopped)
      BY <1>1, <3>1, ReleasesHolds DEF Undisturbed
    <3> QED
      BY <2>1, <3>2
  <2>2. CASE ~stops
    BY <2>2 DEF Undisturbed
  <2> QED
    BY <2>1, <2>2
<1>3. stops \/ ~(g.player.playing \/ g.player.release) \/ (~replaced /\ g.shown.ready /\ ~g.shown.job)
  OBVIOUS
<1>4. replaced => g.player.video # 0 /\ g.shown.video # g.player.video
  OBVIOUS
<1>5. ~replaced /\ g.player.video # 0 => g.shown.video = g.player.video
  OBVIOUS
<1>6. stopped \in Views
  BY <1>2 DEF Kept
<1>7. StateChanged(g) = SyncRange(named)
  BY DEF StateChanged, still
<1>8. replaced \in BOOLEAN /\ stops \in BOOLEAN
  BY DEF Kept, Views, Players, Showns
<1> HIDE DEF replaced, stops, stopped
<1>9. /\ named \in Views /\ named.held = stopped.held /\ named.shown = stopped.shown /\ named.plays = stopped.plays
      /\ named.player.video = (IF replaced THEN 0 ELSE stopped.player.video)
      /\ \A x \in {"playing", "active", "release", "pressed", "suspended", "resume"} :
            named.player[x] = stopped.player[x]
  BY <1>6 DEF Views, Players
<1>10. named.player.playing \/ named.player.release => ~stops /\ ~replaced /\ stopped = g
  BY <1>2, <1>3, <1>9
<1> HIDE DEF named
<1>11. Decoding(named) /\ Announced(named)
  BY <1>2, <1>9 DEF Kept, Decoding, Announced
<1>12. Controlled(named)
  BY <1>2, <1>9, <1>10 DEF Kept, Controlled
<1>13. HeldFor(named)
  BY <1>2, <1>9 DEF HeldFor
<1>14. Stands(named)
  BY <1>2, <1>3, <1>5, <1>9, <1>10, <1>12 DEF Stands, Controlled
<1>15. Undisturbed(g, named)
  BY <1>2, <1>9 DEF Undisturbed
<1>16. Kept(named)
  BY <1>9, <1>11, <1>12 DEF Kept
<1>17. Steady(SyncRange(named)) /\ SyncRange(named).player = named.player /\ SyncRange(named).shown = g.shown
  BY <1>2, <1>9, <1>13, <1>14, <1>16, SyncsRange DEF Steady
<1>18. Undisturbed(g, SyncRange(named))
  BY <1>15, <1>16, SyncsRange DEF Undisturbed
<1> QED
  BY <1>2, <1>7, <1>9, <1>17, <1>18

LEMMA MovesHead ==
    ASSUME NEW g, Kept(g), HeldFor(g), NEW head \in 0..LatestPosition
    PROVE  LET h == HeadMoves(g, head) IN
           /\ h = g \/ Steady(h)
           /\ h.player.playing => g.player.playing
           /\ h.shown.video = g.shown.video
           /\ Undisturbed(g, h)
<1> DEFINE moved == [g EXCEPT !.shown.head = head, !.shown.due = TRUE]
<1>1. HeadMoves(g, head) = g \/ HeadMoves(g, head) = StateChanged(moved)
  BY DEF HeadMoves
<1>2. /\ moved \in Views /\ moved.player = g.player /\ moved.held = g.held /\ moved.plays = g.plays
      /\ moved.shown.video = g.shown.video
  <2> DEFINE there == [g.shown EXCEPT !.head = head, !.due = TRUE]
  <2>1. g.shown \in Showns /\ g.player \in Players /\ g.held \in 0..MaxPlays /\ g.plays \in [Sessions -> PlayWorkers]
    BY DEF Kept, Views
  <2>2. moved = [g EXCEPT !.shown = there]
    BY DEF Kept, Views
  <2>3. there \in Showns /\ there.video = g.shown.video
    BY <2>1 DEF Showns
  <2> HIDE DEF moved, there
  <2> QED
    BY <2>1, <2>2, <2>3 DEF Kept, Views
<1> HIDE DEF moved
<1>3. Kept(moved) /\ HeldFor(moved)
  BY <1>2 DEF Kept, Decoding, Controlled, Announced, HeldFor
<1>4. /\ Steady(StateChanged(moved)) /\ (StateChanged(moved).player.playing => g.player.playing)
      /\ StateChanged(moved).shown.video = g.shown.video /\ Undisturbed(g, StateChanged(moved))
  BY <1>2, <1>3, ChangesState DEF Undisturbed
<1> QED
  BY <1>1, <1>4 DEF Undisturbed

LEMMA Pauses ==
    ASSUME NEW g, Steady(g)
    PROVE  Steady(Pause(g)) /\ ~Pause(g).player.playing /\ Pause(g).shown.video = g.shown.video /\ Undisturbed(g, Pause(g))
<1>1. CASE ~g.player.playing
  BY <1>1 DEF Pause, Undisturbed
<1>2. CASE g.player.playing
  <2> DEFINE stopped == StopWorker(g)
             waits == [stopped EXCEPT !.player.release = TRUE]
             after == HeadMoves(waits, stopped.player.visible)
  <2>1. Kept(stopped) /\ ~stopped.player.playing /\ stopped.player.active = 0 /\ stopped.player.video # 0
        /\ stopped.shown = g.shown /\ Undisturbed(g, stopped)
    BY <1>2, StopsTheWorker DEF Steady, Kept, Controlled
  <2>2. Pause(g) = Finish(stopped)
    BY <1>2 DEF Pause
  <2> HIDE DEF stopped
  <2>3. /\ Steady(ReleaseHolds(stopped)) /\ ~ReleaseHolds(stopped).player.playing
        /\ ReleaseHolds(stopped).shown = g.shown /\ Undisturbed(g, ReleaseHolds(stopped))
    BY <2>1, ReleasesHolds DEF Steady, Stands, Undisturbed
  <2>4. waits \in Views /\ waits.shown = stopped.shown /\ waits.held = stopped.held /\ waits.plays = stopped.plays
        /\ waits.player.release
        /\ \A x \in {"playing", "active", "pressed", "suspended", "resume", "video"} : waits.player[x] = stopped.player[x]
    <3> DEFINE q == [stopped.player EXCEPT !.release = TRUE]
    <3>1. stopped.shown \in Showns /\ stopped.player \in Players /\ stopped.held \in 0..MaxPlays
          /\ stopped.plays \in [Sessions -> PlayWorkers]
      BY <2>1 DEF Kept, Views
    <3>2. waits = [stopped EXCEPT !.player = q]
      BY <2>1 DEF Kept, Views
    <3>3. q \in Players /\ q.release
          /\ \A x \in {"playing", "active", "pressed", "suspended", "resume", "video"} : q[x] = stopped.player[x]
      BY <3>1 DEF Players
    <3> HIDE DEF waits, q
    <3> QED
      BY <2>1, <3>1, <3>2, <3>3 DEF Kept, Views
  <2> HIDE DEF waits
  <2>5. Kept(waits) /\ HeldFor(waits) /\ ~waits.player.playing /\ Undisturbed(g, waits)
    BY <2>1, <2>4 DEF Kept, Decoding, Controlled, Announced, HeldFor, Undisturbed
  <2>6. CASE stopped.player.visible = Nothing
    BY <2>2, <2>3, <2>6 DEF Finish
  <2>7. CASE stopped.player.visible # Nothing
    <3>1. stopped.player.visible \in 0..LatestPosition
      BY <2>1, <2>7, PlaybackAssumption DEF Kept, Views, Players, Shots, FrameTimes, LatestPosition
    <3>2. /\ (after = waits \/ Steady(after)) /\ ~after.player.playing
          /\ after.shown.video = g.shown.video /\ Undisturbed(g, after)
      BY <2>1, <2>4, <2>5, <3>1, MovesHead DEF Undisturbed
    <3>3. Kept(after)
      BY <2>5, <3>2 DEF Steady
    <3>4. Finish(stopped) = IF after.shown = stopped.shown THEN ReleaseHolds(after) ELSE after
      BY <2>7 DEF Finish, waits
    <3> HIDE DEF after
    <3>5. /\ Steady(ReleaseHolds(after)) /\ ~ReleaseHolds(after).player.playing
          /\ ReleaseHolds(after).shown.video = g.shown.video /\ Undisturbed(g, ReleaseHolds(after))
      BY <3>2, <3>3, ReleasesHolds DEF Steady, Stands, Undisturbed
    <3> QED
      BY <2>2, <2>4, <3>2, <3>4, <3>5
  <2> QED
    BY <2>6, <2>7
<1> QED
  BY <1>1, <1>2 DEF Steady, Kept, Views, Players

LEMMA MovesByUser ==
    ASSUME NEW g, Steady(g)
    PROVE  Kept(UserMoved(g)) /\ HeldFor(UserMoved(g)) /\ Stands(UserMoved(g)) /\ Undisturbed(g, UserMoved(g))
<1>1. CASE g.player.release
  BY <1>1, ReleasesHolds DEF UserMoved, Steady, Stands
<1>2. CASE ~g.player.release /\ g.player.playing /\ g.player.pressed /\ ~g.player.suspended
  <2> DEFINE h == UserMoved(g)
             q == [g.player EXCEPT !.active = 0, !.visible = Nothing, !.suspended = TRUE, !.resume = TRUE]
  <2>1. g.player.active # 0 /\ g.player.active \in Sessions
    BY <1>2 DEF Steady, Kept, Controlled, Views, Players, Sessions
  <2>2. g.shown \in Showns /\ g.player \in Players /\ g.plays \in [Sessions -> PlayWorkers] /\ 0 \in 0..MaxPlays
    BY PlaybackAssumption DEF Steady, Kept, Views
  <2> DEFINE w == [g.plays[g.player.active] EXCEPT !.stop = TRUE]
             workers == [g.plays EXCEPT ![g.player.active] = w]
  <2>3. h = [g EXCEPT !.plays = workers, !.player = q, !.held = 0]
    BY <1>2, <2>1 DEF UserMoved, InterruptedWorker, Steady, Kept, Views
  <2>4. /\ q \in Players /\ q.active = 0 /\ q.suspended /\ q.resume
        /\ \A x \in {"playing", "pressed", "release", "video"} : q[x] = g.player[x]
    BY <2>2 DEF Players, Shots
  <2>5. w \in PlayWorkers /\ w.pc = g.plays[g.player.active].pc /\ w.comes = g.plays[g.player.active].comes /\ w.stop
    <3> DEFINE v == g.plays[g.player.active]
    <3>1. v \in PlayWorkers
      BY <2>1, <2>2
    <3> HIDE DEF v
    <3>2. [v EXCEPT !.stop = TRUE] \in PlayWorkers /\ [v EXCEPT !.stop = TRUE].pc = v.pc
          /\ [v EXCEPT !.stop = TRUE].comes = v.comes /\ [v EXCEPT !.stop = TRUE].stop
      BY <3>1 DEF PlayWorkers
    <3> QED
      BY <3>2 DEF v
  <2> HIDE DEF w, q
  <2>6. /\ workers \in [Sessions -> PlayWorkers]
        /\ \A s \in Sessions : /\ workers[s].pc = g.plays[s].pc /\ workers[s].comes = g.plays[s].comes
                               /\ s # g.player.active => workers[s] = g.plays[s]
                               /\ s = g.player.active => workers[s].stop
    BY <2>1, <2>2, <2>5
  <2> HIDE DEF h, workers
  <2>7. h \in Views /\ h.player = q /\ h.held = 0 /\ h.shown = g.shown /\ h.plays = workers
    BY <2>2, <2>3, <2>4, <2>6 DEF Steady, Kept, Views
  <2>8. Decoding(h)
    BY <2>4, <2>6, <2>7 DEF Decoding, Steady, Kept
  <2>9. Controlled(h) /\ Announced(h) /\ HeldFor(h) /\ Stands(h)
    BY <1>2, <2>4, <2>7 DEF Controlled, Announced, HeldFor, Stands, Steady, Kept
  <2> QED
    BY <2>6, <2>7, <2>8, <2>9 DEF h, Kept, Undisturbed
<1>3. CASE ~g.player.release /\ ~(g.player.playing /\ g.player.pressed /\ ~g.player.suspended)
  <2>1. UserMoved(g) = g
    BY <1>3 DEF UserMoved
  <2> QED
    BY <2>1 DEF Steady, Undisturbed
<1> QED
  BY <1>1, <1>2, <1>3 DEF Steady, Kept, Views, Players

-----------------------------------------------------------------------------
(* The playback worker *)

LEMMA ShotsAreTimes ==
    /\ FrameTimes \subseteq 0..LatestPosition /\ LatestPosition \in FrameTimes /\ 0 \in FrameTimes
    /\ LatestPosition \in Nat /\ LatestPosition < Nothing /\ Nothing \in Nat /\ Nothing \notin FrameTimes
    /\ Shots \subseteq 0..Nothing /\ 0 \in Shots /\ Nothing \in Shots
    /\ \A w \in Ranges : w[1] \in 0..Nothing
<1>1. /\ FrameTimes \subseteq 0..LatestPosition /\ LatestPosition \in FrameTimes /\ 0 \in FrameTimes
      /\ LatestPosition \in Nat /\ LatestPosition < Nothing /\ Nothing \in Nat
  <2>1. FrameCount - 1 \in 0..(FrameCount - 1) /\ 0 \in 0..(FrameCount - 1)
    BY PlaybackAssumption
  <2>2. LatestPosition \in FrameTimes /\ 0 \in FrameTimes
    BY <2>1 DEF FrameTimes, LatestPosition
  <2>3. LatestPosition \in Nat /\ LatestPosition < Nothing /\ Nothing \in Nat
    BY PlaybackAssumption DEF LatestPosition, Nothing
  <2>4. \A i \in 0..(FrameCount - 1) : 2 * i \in 0..LatestPosition
    BY PlaybackAssumption DEF LatestPosition
  <2>5. FrameTimes \subseteq 0..LatestPosition
    BY <2>4 DEF FrameTimes
  <2> QED
    BY <2>2, <2>3, <2>5
<1>2. Nothing \notin FrameTimes /\ Shots \subseteq 0..Nothing /\ 0 \in Shots /\ Nothing \in Shots
  BY <1>1 DEF Shots
<1>3. ASSUME NEW w \in Ranges
      PROVE  w[1] \in 0..Nothing
  <2>1. CASE w \in Windows
    <3>1. w[1] \in Marks
      BY <2>1, PlaybackAssumption
    <3>2. 0..(2 * FrameCount) \subseteq 0..Nothing
      BY PlaybackAssumption DEF Nothing
    <3> QED
      BY <3>1, <3>2, PlaybackAssumption
  <2>2. CASE w = <<0, 2 * FrameCount>> \/ w = Everything
    BY <1>1, <2>2 DEF Everything
  <2> QED
    BY <2>1, <2>2 DEF Ranges
<1> QED
  BY <1>1, <1>2, <1>3

\* Every time has a frame that is shown at it.
LEMMA OwnerIsAFrame ==
    ASSUME NEW target \in Nat
    PROVE  OwnerOf(target) \in Shots
<1>1. PICK i \in 0..(FrameCount - 1) : 2 * i <= target /\ \A j \in 0..(FrameCount - 1) : 2 * j <= target => j <= i
  <2>1. CASE target < 2 * FrameCount
    <3>1. target \div 2 \in 0..(FrameCount - 1) /\ 2 * (target \div 2) <= target /\ target < 2 * (target \div 2) + 2
      BY <2>1, PlaybackAssumption
    <3> QED
      BY <3>1, PlaybackAssumption
  <2>2. CASE target >= 2 * FrameCount
    BY <2>2, PlaybackAssumption
  <2> QED
    BY <2>1, <2>2, PlaybackAssumption
<1>2. 2 * i \in FrameTimes \cup {0} /\ 2 * i <= target /\ \A f \in FrameTimes : f <= target => f <= 2 * i
  BY <1>1, PlaybackAssumption DEF FrameTimes
<1>3. OwnerOf(target) \in FrameTimes \cup {0}
  BY <1>2 DEF OwnerOf
<1> QED
  BY <1>3, ShotsAreTimes DEF Shots

\* A worker that was started goes on: it keeps being told to stop, and announces
\* what it leaves in its slot.
LEMMA WorkerSteps ==
    ASSUME PlaybackInv, NEW s \in Sessions, NEW w \in PlayWorkers, WorkerGoes(s, w), PostTyped',
           plays[s].pc \notin {"none", "done"}, w.pc \notin {"none", "open"}, w.comes \in Shots,
           w.pc = "done" \/ (plays[s].stop => w.stop),
           mailbox'[s] # Nothing /\ s = player.active => sent'[s].frame \/ w.pc = "announce",
           \A t \in Sessions : t # s => mailbox'[t] = mailbox[t] /\ sent'[t].frame = sent[t].frame
    PROVE  PlaybackInv'
<1> USE DEF PlaybackInv, Steady, Kept
<1>1. /\ player' = player /\ held' = held /\ shown' = shown /\ edits' = edits
      /\ plays' = [plays EXCEPT ![s] = w]
  BY DEF WorkerGoes
<1>2. /\ player \in Players /\ held \in 0..MaxPlays /\ shown \in Showns /\ plays \in [Sessions -> PlayWorkers]
  BY DEF Gui, Views
<1>3. /\ plays' \in [Sessions -> PlayWorkers] /\ plays'[s] = w
      /\ \A t \in Sessions : t # s => plays'[t] = plays[t]
  BY <1>1, <1>2
<1>4. Views' = Views /\ Gui' \in Views
  BY <1>1, <1>2, <1>3 DEF Gui, Views, Showns, Players, PlayWorkers
<1>5. Decoding(Gui)'
  BY <1>1, <1>3 DEF Gui, Decoding
<1>6. player.active # 0 => player.active \in Sessions
  BY <1>2 DEF Players, Sessions
<1>7. Controlled(Gui)'
  BY <1>1, <1>3, <1>6 DEF Gui, Controlled
<1>8. Announced(Gui)'
  BY <1>1, <1>3, <1>6 DEF Gui, Announced
<1>9. HeldFor(Gui)' /\ Stands(Gui)'
  BY <1>1 DEF Gui, HeldFor, Stands
<1> QED
  BY <1>1, <1>4, <1>5, <1>7, <1>8, <1>9

\* Most steps leave the slot and the signals alone.
LEMMA QuietSteps ==
    ASSUME PlaybackInv, NEW s \in Sessions, NEW w \in PlayWorkers, WorkerGoes(s, w), PostStays,
           plays[s].pc \notin {"none", "done", "announce"}, w.pc \notin {"none", "open"}, w.comes \in Shots,
           w.pc = "done" \/ (plays[s].stop => w.stop)
    PROVE  PlaybackInv'
<1>1. mailbox' = mailbox /\ sent' = sent /\ PostTyped'
  BY DEF PostStays, PlaybackInv, PostTyped
<1>2. s = player.active /\ mailbox[s] # Nothing => sent[s].frame
  BY DEF PlaybackInv, Steady, Kept, Announced, Gui, Sessions
<1> QED
  BY <1>1, <1>2, WorkerSteps

LEMMA IdleIsTyped == IdlePlay \in PlayWorkers /\ IdlePlay.comes = 0 /\ 0 \in Shots
<1>1. Everything \in Ranges /\ Nothing \in Shots /\ 0 \in 0..Nothing /\ 0 \in Shots
  BY ShotsAreTimes DEF Ranges
<1> HIDE DEF Everything
<1> QED
  BY <1>1 DEF IdlePlay, PlayWorkers

LEMMA EndsWorker ==
    ASSUME NEW w \in PlayWorkers, NEW outcome \in {"none", "failed", "ended"}
    PROVE  /\ SessionEnds(w, outcome) \in PlayWorkers /\ SessionEnds(w, outcome).pc = "close"
           /\ SessionEnds(w, outcome).comes \in Shots /\ SessionEnds(w, outcome).stop = w.stop
<1>1. IdlePlay \in PlayWorkers /\ IdlePlay.comes = 0
  BY IdleIsTyped
<1>2. SessionEnds(w, outcome) = [IdlePlay EXCEPT !.pc = "close", !.outcome = outcome, !.stop = w.stop]
  BY DEF SessionEnds
<1>3. w.stop \in BOOLEAN
  BY DEF PlayWorkers
<1> DEFINE stop == w.stop
<1> HIDE DEF stop
<1>4. /\ [IdlePlay EXCEPT !.pc = "close", !.outcome = outcome, !.stop = stop] \in PlayWorkers
      /\ [IdlePlay EXCEPT !.pc = "close", !.outcome = outcome, !.stop = stop].pc = "close"
      /\ [IdlePlay EXCEPT !.pc = "close", !.outcome = outcome, !.stop = stop].comes = 0
      /\ [IdlePlay EXCEPT !.pc = "close", !.outcome = outcome, !.stop = stop].stop = stop
  BY <1>1, <1>3 DEF PlayWorkers, stop
<1> QED
  BY <1>2, <1>4, ShotsAreTimes DEF stop

LEMMA SeeksWorker ==
    ASSUME NEW w \in PlayWorkers, NEW target \in Nat
    PROVE  /\ Seeked(w, target) \in PlayWorkers /\ Seeked(w, target).pc = "pull"
           /\ Seeked(w, target).comes \in Shots /\ Seeked(w, target).stop = w.stop
<1> DEFINE owner == OwnerOf(target)
<1>1. owner \in Shots /\ owner \in 0..Nothing
  BY OwnerIsAFrame, ShotsAreTimes
<1> HIDE DEF owner
<1>2. Seeked(w, target) = [w EXCEPT !.pc = "pull", !.comes = owner, !.fresh = TRUE, !.yielded = 0]
  BY DEF Seeked, owner
<1> DEFINE v == Seeked(w, target)
<1> HIDE DEF v
<1>3. v \in PlayWorkers
  <2>1. ASSUME NEW n \in 0..2
        PROVE  [w EXCEPT !.pc = "pull", !.comes = owner, !.fresh = TRUE, !.yielded = n] \in PlayWorkers
    BY <1>1 DEF PlayWorkers
  <2>2. 0 \in 0..2
    OBVIOUS
  <2> QED
    BY <1>2, <2>1, <2>2 DEF v
<1>4. v.pc = "pull" /\ v.comes = owner /\ v.stop = w.stop
  BY <1>2 DEF PlayWorkers, v
<1> QED
  BY <1>1, <1>3, <1>4 DEF v

LEMMA DecidesWorker ==
    ASSUME NEW w \in PlayWorkers, NEW window \in Ranges, w.comes \in Shots
    PROVE  /\ Decided(w, window) \in PlayWorkers /\ Decided(w, window).pc \in {"pace", "close", "seek"}
           /\ Decided(w, window).comes \in Shots /\ Decided(w, window).stop = w.stop
           /\ Decided(w, window).pc = "seek" =>
                ~Fits(w, window) /\ window # Everything /\ Decided(w, window).sought = window
<1>1. CASE Fits(w, window)
  <2>1. Decided(w, window) = [w EXCEPT !.pc = "pace", !.fresh = FALSE, !.yielded = IF @ = 2 THEN 2 ELSE @ + 1]
    BY <1>1 DEF Decided
  <2>2. (IF w.yielded = 2 THEN 2 ELSE w.yielded + 1) \in 0..2
    BY DEF PlayWorkers
  <2> QED
    BY <2>1, <2>2 DEF PlayWorkers
<1>2. CASE ~Fits(w, window) /\ window = Everything
  <2>1. Decided(w, window) = SessionEnds(w, "ended")
    BY <1>2 DEF Decided
  <2> QED
    BY <2>1, EndsWorker
<1>3. CASE ~Fits(w, window) /\ window # Everything
  <2>1. Decided(w, window) = [w EXCEPT !.pc = "seek", !.sought = window, !.item = Nothing]
    BY <1>3 DEF Decided
  <2> QED
    BY <1>3, <2>1 DEF PlayWorkers, Shots
<1> QED
  BY <1>1, <1>2, <1>3

LEMMA WorkerKeepsInv ==
    ASSUME PlaybackInv, NEW s \in Sessions, WorkerStep(s)
    PROVE  PlaybackInv'
<1> DEFINE w == plays[s]
<1>1. w \in PlayWorkers /\ (w.pc # "open" => w.comes \in Shots) /\ PostTyped
  BY DEF PlaybackInv, Steady, Kept, Views, Gui, Decoding
<1>2. w.comes \in Nat /\ w.range \in Ranges /\ w.sought \in Ranges /\ w.sought[1] \in Nat /\ w.stop \in BOOLEAN
      /\ w.outcome \in {"none", "failed", "ended"} /\ w.late \in Nat
  BY <1>1, ShotsAreTimes DEF PlayWorkers
<1>3. \A outcome \in {"none", "failed", "ended"} :
        /\ SessionEnds(w, outcome) \in PlayWorkers /\ SessionEnds(w, outcome).pc = "close"
        /\ SessionEnds(w, outcome).comes \in Shots /\ SessionEnds(w, outcome).stop = w.stop
  BY <1>1, EndsWorker
<1>4. ASSUME NEW outcome \in {"none", "failed", "ended"}, WorkerGoes(s, SessionEnds(w, outcome)), PostStays,
             w.pc \notin {"none", "done", "announce"}
      PROVE  PlaybackInv'
  BY <1>3, <1>4, QuietSteps
<1>5. ASSUME DecodeFails(s), w.pc \notin {"none", "done", "announce"}
      PROVE  PlaybackInv'
  BY <1>4, <1>5 DEF DecodeFails
\* A worker that was changed in these fields alone.
<1>6. ASSUME NEW v \in PlayWorkers, WorkerGoes(s, v), PostStays, w.pc \notin {"none", "done", "announce"},
             v.pc \notin {"none", "open"}, v.comes \in Shots, w.stop => v.stop
      PROVE  PlaybackInv'
  BY <1>6, QuietSteps
<1>7. CASE OpenDecoder(s)
  <2>1. CASE WorkerGoes(s, Seeked(w, w.comes)) /\ PostStays
    BY <1>1, <1>2, <1>6, <1>7, <2>1, SeeksWorker DEF OpenDecoder
  <2> QED
    BY <1>5, <1>7, <2>1 DEF OpenDecoder
<1>8. CASE PullFrame(s)
  <2> DEFINE after == IF w.comes = Nothing THEN w.comes ELSE FrameAfter(w.comes)
  <2>1. w.pc = "pull" /\ w.comes \in Shots /\ after \in Shots /\ after \in 0..Nothing
    BY <1>1, <1>8, ShotsAreTimes DEF PullFrame, FrameAfter, Shots
  <2>2. CASE WorkerGoes(s, [w EXCEPT !.pc = "window", !.item = w.comes,
                               !.comes = IF @ = Nothing THEN @ ELSE FrameAfter(@)]) /\ PostStays
    <3> DEFINE v == [w EXCEPT !.pc = "window", !.item = w.comes, !.comes = after]
    <3>1. WorkerGoes(s, v)
      BY <2>2
    <3> HIDE DEF after
    <3>2. v \in PlayWorkers /\ v.pc = "window" /\ v.comes = after /\ v.stop = w.stop
      BY <1>1, <2>1 DEF PlayWorkers
    <3> QED
      BY <1>6, <2>1, <2>2, <3>1, <3>2
  <2> QED
    BY <1>5, <1>8, <2>1, <2>2 DEF PullFrame
<1>9. CASE ReadWindow(s)
  <2>1. w.pc = "window" /\ w.comes \in Shots /\ PostStays
    BY <1>1, <1>9 DEF ReadWindow
  <2>2. CASE WorkerGoes(s, SessionEnds(w, "none"))
    BY <1>4, <2>1, <2>2
  <2>3. CASE WorkerGoes(s, [w EXCEPT !.pc = "hold"])
    <3>1. [w EXCEPT !.pc = "hold"] \in PlayWorkers /\ [w EXCEPT !.pc = "hold"].pc = "hold"
          /\ [w EXCEPT !.pc = "hold"].comes = w.comes /\ [w EXCEPT !.pc = "hold"].stop = w.stop
      BY <1>1 DEF PlayWorkers
    <3> QED
      BY <1>6, <2>1, <2>3, <3>1
  <2>4. CASE WorkerGoes(s, Decided(w, w.range))
    BY <1>1, <1>2, <1>6, <2>1, <2>4, DecidesWorker
  <2> QED
    BY <1>9, <2>2, <2>3, <2>4 DEF ReadWindow
<1>10. CASE HoldWhile(s)
  <2>1. w.pc = "hold" /\ w.comes \in Shots /\ PostStays
    BY <1>1, <1>10 DEF HoldWhile
  <2>2. CASE WorkerGoes(s, SessionEnds(w, "none"))
    BY <1>4, <2>1, <2>2
  <2>3. CASE WorkerGoes(s, Decided([w EXCEPT !.late = 0], w.range))
    <3> DEFINE v == [w EXCEPT !.late = 0]
    <3>1. v \in PlayWorkers /\ v.comes = w.comes /\ v.stop = w.stop
      BY <1>1 DEF PlayWorkers
    <3> HIDE DEF v
    <3>2. Decided(v, w.range) \in PlayWorkers /\ Decided(v, w.range).pc \in {"pace", "close", "seek"}
          /\ Decided(v, w.range).comes \in Shots /\ Decided(v, w.range).stop = w.stop
      BY <1>2, <2>1, <3>1, DecidesWorker
    <3> QED
      BY <1>6, <2>1, <2>3, <3>2 DEF v
  <2> QED
    BY <1>10, <2>2, <2>3 DEF HoldWhile
<1>11. CASE LoopBack(s)
  <2>1. w.pc = "seek" /\ PostStays
    BY <1>11 DEF LoopBack, DecodeFails
  <2>2. CASE WorkerGoes(s, SessionEnds(w, "none"))
    BY <1>4, <2>1, <2>2
  <2>3. CASE WorkerGoes(s, [Seeked(w, w.sought[1]) EXCEPT !.late = 0])
    <3> DEFINE u == Seeked(w, w.sought[1])
    <3>1. u \in PlayWorkers /\ u.pc = "pull" /\ u.comes \in Shots /\ u.stop = w.stop
      BY <1>1, <1>2, SeeksWorker
    <3> HIDE DEF u
    <3> DEFINE v == [u EXCEPT !.late = 0]
    <3>2. v \in PlayWorkers /\ v.pc = "pull" /\ v.comes \in Shots /\ v.stop = w.stop
      BY <3>1 DEF PlayWorkers
    <3> HIDE DEF v
    <3>3. WorkerGoes(s, v)
      BY <2>3 DEF u, v
    <3> QED
      BY <1>6, <2>1, <3>2, <3>3
  <2> QED
    BY <1>5, <1>11, <2>1, <2>2, <2>3 DEF LoopBack
<1>12. CASE PaceFrame(s)
  <2>1. w.pc = "pace" /\ PostStays /\ w.comes \in Shots
    BY <1>1, <1>12 DEF PaceFrame
  <2>2. CASE WorkerGoes(s, SessionEnds(w, "none"))
    BY <1>4, <2>1, <2>2
  <2>3. CASE WorkerGoes(s, [w EXCEPT !.pc = "pull", !.item = Nothing, !.late = @ + 1])
    <3> DEFINE late == w.late + 1
               v == [w EXCEPT !.pc = "pull", !.item = Nothing, !.late = late]
    <3>1. late \in Nat /\ WorkerGoes(s, v)
      BY <1>2, <2>3
    <3> HIDE DEF late
    <3>2. v \in PlayWorkers /\ v.pc = "pull" /\ v.comes = w.comes /\ v.stop = w.stop
      BY <1>1, <3>1, ShotsAreTimes DEF PlayWorkers
    <3> QED
      BY <1>6, <2>1, <3>1, <3>2
  <2>4. CASE WorkerGoes(s, [w EXCEPT !.pc = "publish", !.late = 0])
    <3> DEFINE v == [w EXCEPT !.pc = "publish", !.late = 0]
    <3>1. v \in PlayWorkers /\ v.pc = "publish" /\ v.comes = w.comes /\ v.stop = w.stop
      BY <1>1 DEF PlayWorkers
    <3> QED
      BY <1>6, <2>1, <2>4, <3>1
  <2> QED
    BY <1>12, <2>2, <2>3, <2>4 DEF PaceFrame
<1>13. CASE PutFrame(s)
  <2> DEFINE pc == IF mailbox[s] = Nothing THEN "announce" ELSE "pull"
             v == [w EXCEPT !.pc = pc, !.item = Nothing]
  <2>1. w.pc = "publish" /\ w.comes \in Shots /\ w.item \in Shots /\ WorkerGoes(s, v)
        /\ mailbox' = [mailbox EXCEPT ![s] = w.item] /\ sent' = sent
    BY <1>1, <1>13 DEF PutFrame, PlayWorkers
  <2>2. pc \in {"announce", "pull"} /\ (pc # "announce" => mailbox[s] # Nothing)
    OBVIOUS
  <2> HIDE DEF pc
  <2>3. v \in PlayWorkers /\ v.pc = pc /\ v.comes = w.comes /\ v.stop = w.stop
    BY <1>1, <2>2, ShotsAreTimes DEF PlayWorkers
  <2> HIDE DEF v
  <2>4. PostTyped' /\ \A t \in Sessions : t # s => mailbox'[t] = mailbox[t] /\ sent'[t].frame = sent[t].frame
    BY <1>1, <2>1 DEF PostTyped
  <2>5. s = player.active /\ mailbox[s] # Nothing => sent[s].frame
    BY <2>1 DEF PlaybackInv, Steady, Kept, Announced, Gui, Sessions
  <2> QED
    BY <2>1, <2>2, <2>3, <2>4, <2>5, WorkerSteps
<1>14. CASE ConvertFails(s)
  BY <1>5, <1>14 DEF ConvertFails
<1>15. CASE KeepUnpublished(s)
  <2> DEFINE v == [w EXCEPT !.pc = "pull", !.item = Nothing]
  <2>1. w.pc = "publish" /\ w.comes \in Shots /\ WorkerGoes(s, v) /\ PostStays
    BY <1>1, <1>15 DEF KeepUnpublished
  <2>2. v \in PlayWorkers /\ v.pc = "pull" /\ v.comes = w.comes /\ v.stop = w.stop
    BY <1>1, ShotsAreTimes DEF PlayWorkers
  <2> QED
    BY <1>6, <2>1, <2>2
<1>16. CASE Announce(s)
  <2> DEFINE v == [w EXCEPT !.pc = "pull"]
  <2>1. w.pc = "announce" /\ w.comes \in Shots /\ WorkerGoes(s, v) /\ mailbox' = mailbox
        /\ sent' = [sent EXCEPT ![s].frame = TRUE]
    BY <1>1, <1>16 DEF Announce
  <2>2. v \in PlayWorkers /\ v.pc = "pull" /\ v.comes = w.comes /\ v.stop = w.stop
    BY <1>1 DEF PlayWorkers
  <2> HIDE DEF v
  <2>3. PostTyped' /\ sent'[s].frame
        /\ \A t \in Sessions : t # s => mailbox'[t] = mailbox[t] /\ sent'[t].frame = sent[t].frame
    BY <1>1, <2>1 DEF PostTyped
  <2> QED
    BY <2>1, <2>2, <2>3, WorkerSteps
<1>17. CASE CloseDecoder(s)
  <2>1. PICK failed \in BOOLEAN :
          WorkerGoes(s, [w EXCEPT !.pc = "signal", !.outcome = IF failed /\ @ # "none" THEN "failed" ELSE @])
    BY <1>17 DEF CloseDecoder
  <2> DEFINE outcome == IF failed /\ w.outcome # "none" THEN "failed" ELSE w.outcome
             v == [w EXCEPT !.pc = "signal", !.outcome = outcome]
  <2>2. w.pc = "close" /\ PostStays /\ w.comes \in Shots /\ outcome \in {"none", "failed", "ended"}
    BY <1>1, <1>2, <1>17 DEF CloseDecoder
  <2>3. WorkerGoes(s, v)
    BY <2>1
  <2> HIDE DEF outcome
  <2>4. v \in PlayWorkers /\ v.pc = "signal" /\ v.comes = w.comes /\ v.stop = w.stop
    BY <1>1, <2>2 DEF PlayWorkers
  <2> QED
    BY <1>6, <2>2, <2>3, <2>4
<1>18. CASE SignalOutcome(s)
  <2> DEFINE v == [IdlePlay EXCEPT !.pc = "done"]
             outcome == IF w.stop THEN "none" ELSE w.outcome
  <2>1. w.pc = "signal" /\ WorkerGoes(s, v) /\ mailbox' = mailbox /\ sent' = [sent EXCEPT ![s].outcome = outcome]
        /\ outcome \in {"none", "failed", "ended"}
    BY <1>2, <1>18 DEF SignalOutcome
  <2>2. v \in PlayWorkers /\ v.pc = "done" /\ v.comes \in Shots
    BY IdleIsTyped DEF PlayWorkers
  <2> HIDE DEF v, outcome
  <2>3. PostTyped' /\ \A t \in Sessions : mailbox'[t] = mailbox[t] /\ sent'[t].frame = sent[t].frame
    BY <1>1, <2>1 DEF PostTyped
  <2>4. s = player.active /\ mailbox[s] # Nothing => sent[s].frame
    BY <2>1 DEF PlaybackInv, Steady, Kept, Announced, Gui, Sessions
  <2> QED
    BY <2>1, <2>2, <2>3, <2>4, WorkerSteps
<1> QED
  BY <1>7, <1>8, <1>9, <1>10, <1>11, <1>12, <1>13, <1>14, <1>15, <1>16, <1>17, <1>18 DEF WorkerStep

-----------------------------------------------------------------------------
(* The events of the GUI thread *)

LEMMA GuiIsSteady ==
    ASSUME PlaybackInv
    PROVE  /\ Steady(Gui) /\ Kept(Gui) /\ HeldFor(Gui) /\ Stands(Gui) /\ PostTyped
           /\ Gui.player = player /\ Gui.shown = shown /\ Gui.plays = plays /\ Gui.held = held
           /\ player \in Players /\ shown \in Showns /\ plays \in [Sessions -> PlayWorkers] /\ held \in 0..MaxPlays
  BY DEF PlaybackInv, Steady, Kept, Gui, Views

\* No handler moves a session that was started.
PlaysStay == \A s \in Sessions : plays[s].pc # "none" => plays'[s].pc = plays[s].pc

\* A handler goes to a steady view; an announcement that it takes is of an empty
\* slot or of a session that is not active.
LEMMA GuiBecomes ==
    ASSUME NEW h, Steady(h), Undisturbed(Gui, h), GuiGoes(h), PostTyped', edits' \in 0..MaxPlaybackEdits,
           \A t \in Sessions :
              /\ mailbox'[t] \in {mailbox[t], Nothing}
              /\ t = h.player.active /\ mailbox'[t] # Nothing => (sent[t].frame => sent'[t].frame)
    PROVE  PlaybackInv' /\ PlaysStay
<1> USE DEF Steady, Kept
<1>1. player' = h.player /\ held' = h.held /\ shown' = h.shown /\ plays' = h.plays
  BY DEF GuiGoes
<1>2. Gui' \in Views
  BY <1>1 DEF Gui, Views
<1>3. Decoding(Gui)'
  BY <1>1 DEF Gui, Decoding
<1>4. Controlled(Gui)'
  BY <1>1 DEF Gui, Controlled
<1>5. h.player.active # 0 => h.player.active \in Sessions
  BY DEF Views, Players, Sessions
<1>6. Announced(Gui)'
  BY <1>1, <1>5 DEF Gui, Announced
<1>7. HeldFor(Gui)' /\ Stands(Gui)'
  BY <1>1 DEF Gui, HeldFor, Stands
<1>8. PlaysStay
  BY <1>1 DEF Undisturbed, PlaysStay, Gui
<1> QED
  BY <1>2, <1>3, <1>4, <1>6, <1>7, <1>8 DEF PlaybackInv, Views, Showns, Players, PlayWorkers

LEMMA GuiGoesOn ==
    ASSUME PlaybackInv, NEW h, Steady(h), Undisturbed(Gui, h), GuiGoes(h), PostStays, edits' \in 0..MaxPlaybackEdits
    PROVE  PlaybackInv' /\ PlaysStay
<1>1. mailbox' = mailbox /\ sent' = sent /\ PostTyped'
  BY DEF PostStays, PlaybackInv, PostTyped
<1> QED
  BY <1>1, GuiBecomes

LEMMA EditsStay ==
    ASSUME PlaybackInv, EditAllowed \/ edits' = edits
    PROVE  edits' \in 0..MaxPlaybackEdits
  BY PlaybackAssumption DEF EditAllowed, PlaybackInv

\* What another module of the application makes of the state that is shown.
LEMMA ShowsAnother ==
    ASSUME NEW g, Kept(g), HeldFor(g), NEW there \in Showns
    PROVE  LET h == [g EXCEPT !.shown = there] IN
           /\ Kept(h) /\ HeldFor(h) /\ h.player = g.player /\ h.shown = there
           /\ Steady(StateChanged(h)) /\ Undisturbed(g, h) /\ Undisturbed(g, StateChanged(h))
<1> DEFINE h == [g EXCEPT !.shown = there]
<1>1. h \in Views /\ h.player = g.player /\ h.held = g.held /\ h.plays = g.plays /\ h.shown = there
  BY DEF Kept, Views
<1> HIDE DEF h
<1>2. Kept(h) /\ HeldFor(h)
  BY <1>1 DEF Kept, Decoding, Controlled, Announced, HeldFor
<1>3. Steady(StateChanged(h)) /\ Undisturbed(h, StateChanged(h))
  BY <1>2, ChangesState
<1>4. Undisturbed(g, h) /\ Undisturbed(g, StateChanged(h))
  BY <1>1, <1>3 DEF Undisturbed
<1> QED
  BY <1>1, <1>2, <1>3, <1>4 DEF h

\* What only changes the controller's flags.
LEMMA ChangesPlayer ==
    ASSUME NEW g, g \in Views, NEW q \in Players
    PROVE  LET h == [g EXCEPT !.player = q] IN
           h \in Views /\ h.player = q /\ h.held = g.held /\ h.plays = g.plays /\ h.shown = g.shown
  BY DEF Views

LEMMA CapsTime ==
    ASSUME NEW pts \in Nat
    PROVE  Capped(pts) \in 0..LatestPosition
  BY ShotsAreTimes DEF Capped

LEMMA StartIsATime ==
    ASSUME NEW g \in Views, NEW resume
    PROVE  StartFrom(g, resume) \in 0..Nothing
<1>1. g.shown.head \in 0..Nothing /\ g.shown.window[1] \in 0..Nothing /\ 0 \in 0..Nothing
  <2>1. g.shown.window \in Ranges /\ g.shown.head \in 0..LatestPosition
    BY DEF Views, Showns, Ranges
  <2> QED
    BY <2>1, ShotsAreTimes
<1> DEFINE head == IF g.shown.head >= LatestPosition /\ ~resume THEN 0 ELSE g.shown.head
<1>2. head \in 0..Nothing
  BY <1>1
<1>3. StartFrom(g, resume) \in {head, g.shown.window[1]}
  BY DEF StartFrom
<1> HIDE DEF head
<1> QED
  BY <1>1, <1>2, <1>3

LEMMA PlaysSession ==
    ASSUME NEW g \in Views, NEW resume, NEW s \in Sessions, Decoding(g), g.player.active = 0,
           g.plays[s].pc = "none", g.shown.ready, ~g.shown.job
    PROVE  Steady(Play(g, resume, s)) /\ Undisturbed(g, Play(g, resume, s))
<1> DEFINE h == Play(g, resume, s)
           start == StartFrom(g, resume)
           range == IF g.player.selection THEN g.shown.window ELSE Everything
           w == [IdlePlay EXCEPT !.pc = "open", !.comes = start, !.range = range]
           workers == [g.plays EXCEPT ![s] = w]
           video == g.shown.video
           q == [g.player EXCEPT !.playing = TRUE, !.active = s, !.visible = Nothing, !.release = FALSE,
                                 !.suspended = FALSE, !.resume = FALSE, !.video = video]
<1>1. h = [g EXCEPT !.plays = workers, !.player = q]
  BY DEF Play, Views
<1>2. /\ g.shown \in Showns /\ g.player \in Players /\ g.held \in 0..MaxPlays /\ g.plays \in [Sessions -> PlayWorkers]
      /\ start \in 0..Nothing /\ range \in Ranges
  BY StartIsATime DEF Views, Showns, Ranges
<1> HIDE DEF start, range
<1>3. w \in PlayWorkers /\ w.pc = "open"
  BY <1>2, IdleIsTyped DEF PlayWorkers
<1>4. video \in 0..2 /\ video # 0 /\ s \in 0..MaxPlays /\ s # 0 /\ Nothing \in Shots
  BY <1>2 DEF Showns, Videos, Sessions, Shots
<1> HIDE DEF video
<1>5. q \in Players
  BY <1>2, <1>4 DEF Players
<1>6. q.playing /\ q.active = s /\ ~q.release /\ ~q.suspended /\ ~q.resume /\ q.video = video
  BY <1>2 DEF Players
<1> HIDE DEF w, q
<1>7. workers \in [Sessions -> PlayWorkers] /\ workers[s] = w
      /\ \A t \in Sessions : t # s => workers[t] = g.plays[t]
  BY <1>2, <1>3
<1> HIDE DEF workers, h
<1>8. h \in Views /\ h.player = q /\ h.plays = workers /\ h.shown = g.shown
  BY <1>1, <1>2, <1>5, <1>7 DEF Views
<1>9. Decoding(h)
  BY <1>3, <1>6, <1>7, <1>8 DEF Decoding, Sessions
<1>10. Controlled(h) /\ HeldFor(h)
  BY <1>3, <1>4, <1>6, <1>7, <1>8 DEF Controlled, HeldFor
<1>11. Announced(h)
  BY <1>6, <1>8 DEF Announced, Decoding
<1>12. Stands(h)
  BY <1>6, <1>8 DEF Stands, video
<1> QED
  BY <1>7, <1>8, <1>9, <1>10, <1>11, <1>12 DEF Steady, Kept, h, Undisturbed

\* Signals of a worker.
LEMMA SignalSteps ==
    ASSUME PlaybackInv, NEW s \in Sessions, FrameAvailable(s) \/ OutcomeArrives(s)
    PROVE  PlaybackInv' /\ PlaysStay
<1>1. edits' \in 0..MaxPlaybackEdits
  BY DEF FrameAvailable, OutcomeArrives, MarkerHandles, PlaybackInv
<1>2. CASE FrameAvailable(s)
  <2>1. sent' = [sent EXCEPT ![s].frame = FALSE]
    BY <1>2 DEF FrameAvailable
  <2>2. CASE s # player.active
    <3>1. GuiGoes(Gui) /\ mailbox' = mailbox
      BY <1>2, <2>2 DEF FrameAvailable
    <3>2. PostTyped' /\ \A t \in Sessions : t # s => sent'[t] = sent[t]
      BY <2>1, <3>1, GuiIsSteady DEF PostTyped
    <3> QED
      BY <1>1, <2>2, <3>1, <3>2, GuiIsSteady, GuiBecomes DEF Undisturbed
  <2>3. CASE s = player.active
    <3> DEFINE seen == Capped(mailbox[s])
               q == [player EXCEPT !.visible = seen]
               h == [Gui EXCEPT !.held = s, !.player = q]
    <3>1. mailbox' = [mailbox EXCEPT ![s] = Nothing] /\ GuiGoes(h)
      BY <1>2, <2>3 DEF FrameAvailable, Gui
    <3>2. seen \in Shots
      BY GuiIsSteady, ShotsAreTimes DEF PostTyped, Capped, Shots
    <3> HIDE DEF seen
    <3>3. q \in Players /\ \A x \in {"playing", "active", "release", "pressed", "suspended", "resume", "video"} :
                               q[x] = player[x]
      BY <3>2, GuiIsSteady DEF Players
    <3> HIDE DEF q
    <3>4. h \in Views /\ h.player = q /\ h.held = s /\ h.shown = shown /\ h.plays = plays
      <4>1. s \in 0..MaxPlays
        BY DEF Sessions
      <4>2. Gui \in Views
        BY GuiIsSteady DEF Kept
      <4> QED
        BY <3>3, <4>1, <4>2, GuiIsSteady DEF Views
    <3> HIDE DEF h
    <3>5. Decoding(h) /\ Controlled(h) /\ Announced(h) /\ Stands(h)
      BY <3>3, <3>4, GuiIsSteady DEF Kept, Decoding, Controlled, Announced, Stands
    <3>6. HeldFor(h)
      BY <2>3, <3>3, <3>4, GuiIsSteady DEF Kept, Controlled, HeldFor, Sessions
    <3>7. PostTyped' /\ mailbox'[s] = Nothing /\ \A t \in Sessions : t # s => mailbox'[t] = mailbox[t] /\ sent'[t] = sent[t]
      BY <2>1, <3>1, GuiIsSteady, ShotsAreTimes DEF PostTyped
    <3> QED
      BY <1>1, <2>3, <3>1, <3>3, <3>4, <3>5, <3>6, <3>7, GuiIsSteady, GuiBecomes DEF Steady, Kept, Undisturbed
  <2> QED
    BY <2>2, <2>3
<1>3. CASE OutcomeArrives(s)
  <2>1. sent' = [sent EXCEPT ![s].outcome = "none"] /\ mailbox' = mailbox
    BY <1>3 DEF OutcomeArrives
  <2>2. PostTyped' /\ \A t \in Sessions : sent'[t].frame = sent[t].frame
    BY <2>1, GuiIsSteady DEF PostTyped
  <2>3. ASSUME NEW h, Steady(h), Undisturbed(Gui, h), GuiGoes(h)
        PROVE  PlaybackInv' /\ PlaysStay
    BY <1>1, <2>1, <2>2, <2>3, GuiBecomes
  <2>4. PICK last \in FrameTimes \cup {Nothing} :
          GuiGoes(IF s # player.active THEN Gui
                  ELSE Pause(IF sent[s].outcome = "ended" /\ last # Nothing
                             THEN [Gui EXCEPT !.player.visible = last] ELSE Gui))
    BY <1>3 DEF OutcomeArrives
  <2> DEFINE q == [player EXCEPT !.visible = last]
             h == [Gui EXCEPT !.player = q]
  <2>5. q \in Players /\ \A x \in {"playing", "active", "release", "pressed", "suspended", "resume", "video"} :
                             q[x] = player[x]
    BY GuiIsSteady DEF Players, Shots
  <2>6. h = [Gui EXCEPT !.player.visible = last]
    BY DEF Gui
  <2> HIDE DEF q
  <2>7. h \in Views /\ h.player = q /\ h.held = held /\ h.shown = shown /\ h.plays = plays
    BY <2>5, GuiIsSteady, ChangesPlayer DEF Kept
  <2> HIDE DEF h
  <2>8. Steady(h)
    BY <2>5, <2>7, GuiIsSteady DEF Steady, Kept, Decoding, Controlled, Announced, HeldFor, Stands
  <2>9. Steady(Pause(h)) /\ Steady(Pause(Gui)) /\ Steady(Gui)
    BY <2>8, Pauses, GuiIsSteady
  <2>10. Undisturbed(Gui, Pause(h)) /\ Undisturbed(Gui, Pause(Gui)) /\ Undisturbed(Gui, Gui)
    BY <2>7, <2>8, Pauses, GuiIsSteady DEF Undisturbed
  <2> QED
    BY <2>3, <2>4, <2>6, <2>9, <2>10
<1> QED
  BY <1>2, <1>3

\* The button, the marker and the buttons of the inspector.
LEMMA UserSteps ==
    ASSUME PlaybackInv,
           Toggle \/ PressMarker \/ DragMarker \/ ReleaseMarker \/ ToggleSelection \/ ChangeWindow \/ StepOneFrame
    PROVE  PlaybackInv' /\ PlaysStay
<1>1. edits' \in 0..MaxPlaybackEdits /\ PostStays
  BY EditsStay DEF Toggle, PressMarker, DragMarker, ReleaseMarker, ToggleSelection, ChangeWindow, StepOneFrame, EditAllowed
<1>2. ASSUME NEW h, Steady(h), Undisturbed(Gui, h), GuiGoes(h)
      PROVE  PlaybackInv' /\ PlaysStay
  BY <1>1, <1>2, GuiGoesOn
<1>3. CASE Toggle
  <2>1. CASE player.playing /\ GuiGoes(Pause(Gui))
    BY <1>2, <2>1, GuiIsSteady, Pauses
  <2>2. ASSUME ~player.playing, NEW s \in Sessions, Unused(s), GuiGoes(Play(Gui, FALSE, s))
        PROVE  PlaybackInv' /\ PlaysStay
    <3>1. player.active = 0
      BY <2>2, GuiIsSteady DEF Kept, Controlled
    <3>2. plays[s].pc = "none" /\ shown.ready /\ ~shown.job
      BY <1>3, <2>2 DEF Unused, Toggle
    <3>3. Steady(Play(Gui, FALSE, s)) /\ Undisturbed(Gui, Play(Gui, FALSE, s))
      BY <3>1, <3>2, GuiIsSteady, PlaysSession DEF Kept
    <3> QED
      BY <1>2, <2>2, <3>3
  <2> QED
    BY <1>3, <2>1, <2>2 DEF Toggle
<1>4. CASE PressMarker
  <2> DEFINE q == [player EXCEPT !.pressed = TRUE]
             h == [Gui EXCEPT !.player = q]
  <2>1. GuiGoes(h)
    BY <1>4 DEF PressMarker, Gui
  <2>2. q \in Players /\ q.pressed /\ \A x \in {"playing", "active", "release", "suspended", "resume", "video"} :
                             q[x] = player[x]
    BY GuiIsSteady DEF Players
  <2> HIDE DEF q
  <2>3. h \in Views /\ h.player = q /\ h.held = held /\ h.shown = shown /\ h.plays = plays
    BY <2>2, GuiIsSteady, ChangesPlayer DEF Kept
  <2> HIDE DEF h
  <2>4. Steady(h)
    BY <2>2, <2>3, GuiIsSteady DEF Steady, Kept, Decoding, Controlled, Announced, HeldFor, Stands
  <2> QED
    BY <1>2, <2>1, <2>3, <2>4, GuiIsSteady DEF Undisturbed
<1>5. CASE DragMarker
  <2>1. PICK m \in Marks : GuiGoes(HeadMoves(UserMoved(Gui), Capped(m)))
    BY <1>5 DEF DragMarker
  <2>2. Capped(m) \in 0..LatestPosition
    <3>1. m \in Nat
      BY PlaybackAssumption
    <3> QED
      BY <3>1, CapsTime
  <2>3. Kept(UserMoved(Gui)) /\ HeldFor(UserMoved(Gui)) /\ Stands(UserMoved(Gui)) /\ Undisturbed(Gui, UserMoved(Gui))
    BY GuiIsSteady, MovesByUser
  <2>4. Steady(HeadMoves(UserMoved(Gui), Capped(m))) /\ Undisturbed(Gui, HeadMoves(UserMoved(Gui), Capped(m)))
    BY <2>2, <2>3, MovesHead DEF Steady, Undisturbed
  <2> QED
    BY <1>2, <2>1, <2>4
<1>6. CASE ReleaseMarker
  <2> DEFINE q == [player EXCEPT !.pressed = FALSE, !.resume = FALSE]
             g == [Gui EXCEPT !.player = q]
  <2>1. g = [Gui EXCEPT !.player.pressed = FALSE, !.player.resume = FALSE]
    BY DEF Gui
  <2>2. q \in Players /\ ~q.pressed /\ ~q.resume
        /\ \A x \in {"playing", "active", "release", "suspended", "video"} : q[x] = player[x]
    BY GuiIsSteady DEF Players
  <2> HIDE DEF q
  <2>3. g \in Views /\ g.player = q /\ g.held = held /\ g.shown = shown /\ g.plays = plays
    BY <2>2, GuiIsSteady, ChangesPlayer DEF Kept
  <2>4. \/ (~player.resume \/ ~CanPlay(g)) /\ GuiGoes(g)
        \/ player.resume /\ \E s \in Sessions : Unused(s) /\ GuiGoes(Play(g, TRUE, s))
    BY <1>6, <2>1 DEF ReleaseMarker
  <2> HIDE DEF g
  <2>5. player.resume => /\ player.suspended /\ player.playing /\ player.active = 0
                         /\ shown.ready /\ ~shown.job
    BY GuiIsSteady DEF Kept, Controlled, Stands
  <2>6. Decoding(g)
    BY <2>2, <2>3, GuiIsSteady DEF Kept, Decoding
  <2>7. CASE (~player.resume \/ ~CanPlay(g)) /\ GuiGoes(g)
    <3>1. ~player.resume /\ ~player.suspended
      BY <2>2, <2>3, <2>5, <2>7, GuiIsSteady DEF CanPlay, Kept, Controlled
    <3>2. Steady(g)
      BY <2>2, <2>3, <2>6, <3>1, GuiIsSteady DEF Steady, Kept, Controlled, Announced, HeldFor, Stands
    <3> QED
      BY <1>2, <2>3, <2>7, <3>2, GuiIsSteady DEF Undisturbed
  <2>8. ASSUME player.resume, NEW s \in Sessions, Unused(s), GuiGoes(Play(g, TRUE, s))
        PROVE  PlaybackInv' /\ PlaysStay
    <3>1. plays[s].pc = "none"
      BY <2>8 DEF Unused
    <3>2. Steady(Play(g, TRUE, s)) /\ Undisturbed(g, Play(g, TRUE, s))
      BY <2>2, <2>3, <2>5, <2>6, <2>8, <3>1, PlaysSession
    <3>3. Undisturbed(Gui, Play(g, TRUE, s))
      BY <2>3, <3>2, GuiIsSteady DEF Undisturbed
    <3> QED
      BY <1>2, <2>8, <3>2, <3>3
  <2> QED
    BY <2>4, <2>7, <2>8
<1>7. CASE ToggleSelection
  <2> DEFINE on == ~player.selection
             q == [player EXCEPT !.selection = on]
             g == [Gui EXCEPT !.player = q]
             range == IF on THEN shown.window ELSE Everything
  <2>1. on \in BOOLEAN /\ range \in Ranges
    BY GuiIsSteady DEF Players, Showns, Ranges
  <2>2. g = [Gui EXCEPT !.player.selection = on]
    BY DEF Gui
  <2>3. GuiGoes(IF player.active = 0 THEN g ELSE [g EXCEPT !.plays[player.active].range = range])
    BY <1>7, <2>2 DEF ToggleSelection
  <2> HIDE DEF on, range
  <2>4. q \in Players /\ \A x \in {"playing", "active", "release", "pressed", "suspended", "resume", "video"} :
                             q[x] = player[x]
    BY <2>1, GuiIsSteady DEF Players
  <2> HIDE DEF q
  <2>5. g \in Views /\ g.player = q /\ g.held = held /\ g.shown = shown /\ g.plays = plays
    BY <2>4, GuiIsSteady, ChangesPlayer DEF Kept
  <2> HIDE DEF g
  <2>6. Steady(g)
    BY <2>4, <2>5, GuiIsSteady DEF Steady, Kept, Decoding, Controlled, Announced, HeldFor, Stands
  <2>7. CASE player.active = 0
    BY <1>2, <2>3, <2>5, <2>6, <2>7, GuiIsSteady DEF Undisturbed
  <2>8. CASE player.active # 0
    <3> DEFINE a == player.active
               v == plays[a]
               w == [v EXCEPT !.range = range]
               workers == [plays EXCEPT ![a] = w]
               h == [g EXCEPT !.plays = workers]
    <3>1. a \in Sessions /\ v \in PlayWorkers
      BY <2>8, GuiIsSteady DEF Players, Sessions
    <3>2. h = [g EXCEPT !.plays[a].range = range]
      BY <2>5 DEF Views
    <3> HIDE DEF v
    <3>3. w \in PlayWorkers /\ w.pc = v.pc /\ w.comes = v.comes /\ w.stop = v.stop
      BY <2>1, <3>1 DEF PlayWorkers
    <3> HIDE DEF w
    <3>4. /\ workers \in [Sessions -> PlayWorkers]
          /\ \A s \in Sessions : /\ workers[s].pc = plays[s].pc /\ workers[s].comes = plays[s].comes
                                 /\ workers[s].stop = plays[s].stop
      BY <3>1, <3>3, GuiIsSteady DEF v
    <3> HIDE DEF workers
    <3>5. h \in Views /\ h.player = q /\ h.held = held /\ h.shown = shown /\ h.plays = workers
      BY <2>5, <3>4 DEF Views
    <3> HIDE DEF h
    <3>6. Decoding(h) /\ Controlled(h) /\ Announced(h) /\ HeldFor(h) /\ Stands(h)
      BY <2>5, <2>6, <3>1, <3>4, <3>5, <2>4 DEF Steady, Kept, Decoding, Controlled, Announced, HeldFor, Stands
    <3>7. Steady(h) /\ GuiGoes(h)
      BY <2>3, <2>8, <3>2, <3>5, <3>6 DEF Steady, Kept
    <3>8. Undisturbed(Gui, h)
      BY <3>4, <3>5, GuiIsSteady DEF Undisturbed
    <3> QED
      BY <1>2, <3>7, <3>8
  <2> QED
    BY <2>7, <2>8
<1>8. CASE ChangeWindow
  <2>1. PICK w \in Windows : GuiGoes(StateChanged([Gui EXCEPT !.shown.window = w]))
    BY <1>8 DEF ChangeWindow
  <2> DEFINE there == [shown EXCEPT !.window = w]
  <2>2. there \in Showns
    BY GuiIsSteady DEF Showns
  <2>3. [Gui EXCEPT !.shown.window = w] = [Gui EXCEPT !.shown = there]
    BY DEF Gui
  <2> HIDE DEF there
  <2>4. Steady(StateChanged([Gui EXCEPT !.shown = there])) /\ Undisturbed(Gui, StateChanged([Gui EXCEPT !.shown = there]))
    BY <2>2, GuiIsSteady, ShowsAnother
  <2> QED
    BY <1>2, <2>1, <2>3, <2>4
<1>9. CASE StepOneFrame
  <2> DEFINE g == Pause(Gui)
  <2>1. Steady(g) /\ Undisturbed(Gui, g)
    BY GuiIsSteady, Pauses
  <2> HIDE DEF g
  <2>2. Capped(g.shown.head + 2) \in 0..LatestPosition
    <3>1. g.shown.head + 2 \in Nat
      BY <2>1, ShotsAreTimes DEF Steady, Kept, Views, Showns
    <3> QED
      BY <3>1, CapsTime
  <2>3. Steady(HeadMoves(g, Capped(g.shown.head + 2))) /\ Undisturbed(Gui, HeadMoves(g, Capped(g.shown.head + 2)))
    BY <2>1, <2>2, MovesHead DEF Steady, Undisturbed
  <2>4. GuiGoes(HeadMoves(g, Capped(g.shown.head + 2)))
    BY <1>9 DEF StepOneFrame, g
  <2> QED
    BY <1>2, <2>3, <2>4
<1> QED
  BY <1>3, <1>4, <1>5, <1>6, <1>7, <1>8, <1>9

\* The still, and what the other modules of the application do.
LEMMA StateSteps ==
    ASSUME PlaybackInv, StillArrives \/ StillFails \/ StartJob \/ EndJob \/ ReplaceVideo \/ VideoLoads
    PROVE  PlaybackInv' /\ PlaysStay
<1>1. edits' \in 0..MaxPlaybackEdits /\ PostStays
  BY EditsStay DEF StillArrives, StillFails, StartJob, EndJob, ReplaceVideo, VideoLoads, MarkerHandles, EditAllowed,
                   PlaybackInv
<1>2. ASSUME NEW h, Steady(h), Undisturbed(Gui, h), GuiGoes(h)
      PROVE  PlaybackInv' /\ PlaysStay
  BY <1>1, <1>2, GuiGoesOn
<1>3. ASSUME NEW there \in Showns, GuiGoes(StateChanged([Gui EXCEPT !.shown = there]))
      PROVE  PlaybackInv' /\ PlaysStay
  <2>1. /\ Steady(StateChanged([Gui EXCEPT !.shown = there]))
        /\ Undisturbed(Gui, StateChanged([Gui EXCEPT !.shown = there]))
    BY GuiIsSteady, ShowsAnother
  <2> QED
    BY <1>2, <1>3, <2>1
<1> DEFINE settled == [shown EXCEPT !.due = FALSE]
           g == [Gui EXCEPT !.shown = settled]
<1>4. settled \in Showns /\ settled.video = shown.video /\ settled.ready = shown.ready /\ settled.job = shown.job
  BY GuiIsSteady DEF Showns
<1>5. g = [Gui EXCEPT !.shown.due = FALSE]
  BY DEF Gui
<1> HIDE DEF settled
<1>6. Kept(g) /\ HeldFor(g) /\ g.player = player /\ g.shown = settled /\ Undisturbed(Gui, g)
  BY <1>4, GuiIsSteady, ShowsAnother
<1> HIDE DEF g
<1>7. Stands(g)
  BY <1>4, <1>6, GuiIsSteady DEF Stands
<1>8. CASE StillArrives
  <2>1. GuiGoes(StateChanged(IF player.release THEN ReleaseHolds(g) ELSE g))
    BY <1>5, <1>8 DEF StillArrives
  <2>2. Kept(ReleaseHolds(g)) /\ HeldFor(ReleaseHolds(g)) /\ Undisturbed(g, ReleaseHolds(g))
    BY <1>6, ReleasesHolds
  <2>3. /\ Steady(StateChanged(ReleaseHolds(g))) /\ Undisturbed(ReleaseHolds(g), StateChanged(ReleaseHolds(g)))
        /\ Steady(StateChanged(g)) /\ Undisturbed(g, StateChanged(g))
    BY <1>6, <2>2, ChangesState
  <2>4. Undisturbed(Gui, StateChanged(ReleaseHolds(g))) /\ Undisturbed(Gui, StateChanged(g))
    BY <1>6, <2>2, <2>3 DEF Undisturbed
  <2> QED
    BY <1>2, <2>1, <2>3, <2>4
<1>9. CASE StillFails
  <2>1. GuiGoes(g)
    BY <1>5, <1>9 DEF StillFails
  <2> QED
    BY <1>2, <1>6, <1>7, <2>1 DEF Steady
\* Playback is paused first.
<1> DEFINE paused == Pause(Gui)
<1>10. Steady(paused) /\ Undisturbed(Gui, paused) /\ paused.shown \in Showns /\ paused \in Views
  BY GuiIsSteady, Pauses DEF Steady, Kept, Views
<1> HIDE DEF paused
<1>11. ASSUME NEW there \in Showns, GuiGoes(StateChanged([paused EXCEPT !.shown = there]))
       PROVE  PlaybackInv' /\ PlaysStay
  <2>1. /\ Steady(StateChanged([paused EXCEPT !.shown = there]))
        /\ Undisturbed(paused, StateChanged([paused EXCEPT !.shown = there]))
    BY <1>10, ShowsAnother DEF Steady
  <2>2. Undisturbed(Gui, StateChanged([paused EXCEPT !.shown = there]))
    BY <1>10, <2>1 DEF Undisturbed
  <2> QED
    BY <1>2, <1>11, <2>1, <2>2
<1>12. CASE StartJob
  <2> DEFINE there == [paused.shown EXCEPT !.job = TRUE]
  <2>1. there \in Showns
    BY <1>10 DEF Showns
  <2>2. GuiGoes(StateChanged([paused EXCEPT !.shown = there]))
    BY <1>10, <1>12 DEF StartJob, paused, Views
  <2> QED
    BY <1>11, <2>1, <2>2
<1>13. CASE EndJob
  <2> DEFINE there == [shown EXCEPT !.job = FALSE]
  <2>1. there \in Showns
    BY GuiIsSteady DEF Showns
  <2>2. GuiGoes(StateChanged([Gui EXCEPT !.shown = there]))
    BY <1>13 DEF EndJob, Gui
  <2> QED
    BY <1>3, <2>1, <2>2
<1>14. CASE ReplaceVideo
  <2> DEFINE there == [paused.shown EXCEPT !.video = @ + 1, !.ready = FALSE, !.due = FALSE]
  <2>1. GuiGoes(StateChanged([paused EXCEPT !.shown = there]))
    BY <1>10, <1>14 DEF ReplaceVideo, paused, Views
  <2>2. there \in Showns
    <3>1. paused.shown.video = shown.video
      BY GuiIsSteady, Pauses DEF paused
    <3> DEFINE video == paused.shown.video + 1
    <3>2. video \in Videos
      BY <1>14, <3>1 DEF ReplaceVideo
    <3> HIDE DEF video
    <3>3. there = [paused.shown EXCEPT !.video = video, !.ready = FALSE, !.due = FALSE]
      BY DEF video
    <3> QED
      BY <1>10, <3>2, <3>3 DEF Showns
  <2> QED
    BY <1>11, <2>1, <2>2
<1>15. CASE VideoLoads
  <2> DEFINE window == <<0, 2 * FrameCount>>
             there == [shown EXCEPT !.ready = TRUE, !.head = 0, !.window = window]
  <2>1. GuiGoes(StateChanged([Gui EXCEPT !.shown = there]))
    BY <1>15 DEF VideoLoads, Gui
  <2>2. window \in Windows \cup {<<0, 2 * FrameCount>>} /\ 0 \in 0..LatestPosition
    BY ShotsAreTimes
  <2> HIDE DEF window
  <2>3. there \in Showns
    BY <2>2, GuiIsSteady DEF Showns
  <2> QED
    BY <1>3, <2>1, <2>3
<1> QED
  BY <1>8, <1>9, <1>12, <1>13, <1>14, <1>15

-----------------------------------------------------------------------------
(* Playback: the specification *)

LEMMA PlaybackStarts == PlaybackInit => PlaybackInv
<1> SUFFICES ASSUME PlaybackInit
             PROVE  PlaybackInv
  OBVIOUS
<1>1. IdlePlay \in PlayWorkers /\ IdlePlay.pc = "none" /\ IdlePlay.comes \in Shots
  BY IdleIsTyped DEF IdlePlay
<1>2. /\ plays = [s \in Sessions |-> IdlePlay] /\ mailbox = [s \in Sessions |-> Nothing]
      /\ player = StillPlayer /\ held = 0 /\ edits = 0
      /\ sent = [s \in Sessions |-> [frame |-> FALSE, outcome |-> "none"]]
  BY DEF PlaybackInit
<1> HIDE DEF IdlePlay
<1>3. plays \in [Sessions -> PlayWorkers] /\ \A s \in Sessions : plays[s].pc = "none" /\ plays[s].comes \in Shots /\ mailbox[s] = Nothing
  BY <1>1, <1>2
<1>4. 0 \in 0..MaxPlays /\ 0 \in 0..2 /\ 0 \in 0..MaxPlaybackEdits /\ Nothing \in Shots /\ 1 \in Videos
      /\ 0 \in 0..LatestPosition
  BY PlaybackAssumption, ShotsAreTimes DEF Shots, Videos
<1>5. player \in Players /\ player.active = 0 /\ ~player.playing /\ ~player.suspended /\ ~player.resume /\ ~player.release
  BY <1>2, <1>4 DEF StillPlayer, Players
<1>6. shown \in Showns
  <2> DEFINE window == <<0, 2 * FrameCount>>
  <2>1. window \in Windows \cup {<<0, 2 * FrameCount>>}
    OBVIOUS
  <2>2. shown = [video |-> 1, ready |-> TRUE, job |-> FALSE, head |-> 0, window |-> window, due |-> FALSE]
    BY DEF PlaybackInit
  <2> HIDE DEF window
  <2> QED
    BY <1>4, <2>1, <2>2 DEF Showns
<1>7. Gui \in Views /\ Gui.player = player /\ Gui.plays = plays /\ Gui.held = 0
  BY <1>2, <1>3, <1>4, <1>5, <1>6 DEF Gui, Views
<1>8. Decoding(Gui) /\ Controlled(Gui) /\ Announced(Gui) /\ HeldFor(Gui) /\ Stands(Gui)
  <2>1. Decoding(Gui)
    BY <1>3, <1>7 DEF Decoding
  <2>2. Controlled(Gui) /\ Announced(Gui)
    BY <1>5, <1>7 DEF Controlled, Announced
  <2>3. HeldFor(Gui) /\ Stands(Gui)
    BY <1>5, <1>7 DEF HeldFor, Stands
  <2> QED
    BY <2>1, <2>2, <2>3
<1>9. PostTyped
  BY <1>2, <1>4 DEF PostTyped
<1> QED
  BY <1>2, <1>4, <1>7, <1>8, <1>9 DEF PlaybackInv, Steady, Kept

\* The events of the GUI thread leave the sessions where they are.
LEMMA EventsGoOn ==
    ASSUME PlaybackInv, PlaybackNext
    PROVE  PlaybackInv' /\ (PlaysStay \/ \E s \in Sessions : WorkerStep(s))
<1>1. ASSUME NEW s \in Sessions, WorkerStep(s)
      PROVE  PlaybackInv'
  BY <1>1, WorkerKeepsInv
<1>2. ASSUME NEW s \in Sessions, FrameAvailable(s) \/ OutcomeArrives(s)
      PROVE  PlaybackInv' /\ PlaysStay
  BY <1>2, SignalSteps
<1>3. CASE Toggle \/ PressMarker \/ DragMarker \/ ReleaseMarker \/ ToggleSelection \/ ChangeWindow \/ StepOneFrame
  BY <1>3, UserSteps
<1>4. CASE StillArrives \/ StillFails \/ StartJob \/ EndJob \/ ReplaceVideo \/ VideoLoads
  BY <1>4, StateSteps
<1> QED
  BY <1>1, <1>2, <1>3, <1>4 DEF PlaybackNext

LEMMA PlaybackGoesOn == PlaybackInv /\ [PlaybackNext]_playbackVars => PlaybackInv'
<1>1. ASSUME PlaybackInv, UNCHANGED playbackVars
      PROVE  PlaybackInv'
  <2>1. /\ shown' = shown /\ player' = player /\ held' = held /\ plays' = plays /\ mailbox' = mailbox
        /\ sent' = sent /\ edits' = edits
    BY <1>1 DEF playbackVars
  <2>2. Gui' = Gui /\ PostTyped' /\ edits' \in 0..MaxPlaybackEdits
    BY <1>1, <2>1 DEF Gui, PostTyped, PlaybackInv
  <2>3. Steady(Gui)'
    BY <1>1, <2>1, <2>2 DEF PlaybackInv, Steady, Kept, Decoding, Controlled, Announced, HeldFor, Stands, Views,
                            Showns, Players, PlayWorkers
  <2> QED
    BY <2>2, <2>3 DEF PlaybackInv
<1> QED
  BY <1>1, EventsGoOn

PlaybackSafe ==
    /\ PlaybackTypeOK
    /\ HoldsHaveAReason
    /\ HeldIsOfTheShownVideo
    /\ OnlyTheActiveSessionRuns
    /\ FramesAreAnnounced
    /\ SuspendedResumes

LEMMA PlaybackIsSafe == PlaybackInv => PlaybackSafe
<1> SUFFICES ASSUME PlaybackInv
             PROVE  PlaybackSafe
  OBVIOUS
<1> USE GuiIsSteady
<1>1. PlaybackTypeOK
  BY DEF PlaybackTypeOK, PlaybackInv, PostTyped, Players, Showns, PlayWorkers, Shots
<1>2. HoldsHaveAReason
  BY DEF HoldsHaveAReason, HeldFor
<1>3. HeldIsOfTheShownVideo
  BY <1>2 DEF HoldsHaveAReason, HeldIsOfTheShownVideo, Stands
<1>4. OnlyTheActiveSessionRuns
  BY DEF OnlyTheActiveSessionRuns, Kept, Decoding
<1>5. FramesAreAnnounced
  BY DEF FramesAreAnnounced, Kept, Announced
<1>6. SuspendedResumes
  BY DEF SuspendedResumes, Kept, Controlled
<1> QED
  BY <1>1, <1>2, <1>3, <1>4, <1>5, <1>6 DEF PlaybackSafe

\* A loop is sought only by the worker that read its window.
LEMMA SeeksOnce ==
    ASSUME PlaybackInv, NEW s \in Sessions, WorkerStep(s), NEW t \in Sessions,
           plays[t].pc = "window", plays'[t].pc = "seek", plays[t].sought = plays'[t].sought
    PROVE  plays[t].yielded > 1
<1>1. plays \in [Sessions -> PlayWorkers]
  BY GuiIsSteady
<1>2. s = t
  <2>1. \E w : WorkerGoes(s, w)
    BY DEF WorkerStep, OpenDecoder, PullFrame, ReadWindow, HoldWhile, LoopBack, PaceFrame, PutFrame, ConvertFails,
           KeepUnpublished, Announce, CloseDecoder, SignalOutcome, DecodeFails
  <2>2. PICK w : plays' = [plays EXCEPT ![s] = w]
    BY <2>1 DEF WorkerGoes
  <2> QED
    BY <1>1, <2>2
<1> DEFINE w == plays[t]
<1>3. w \in PlayWorkers /\ w.pc = "window" /\ w.range \in Ranges /\ w.yielded \in 0..2 /\ w.comes \in Shots
  BY <1>1, GuiIsSteady DEF PlayWorkers, Kept, Decoding
<1>4. ReadWindow(t)
  BY <1>2, <1>3 DEF WorkerStep, OpenDecoder, PullFrame, HoldWhile, LoopBack, PaceFrame, PutFrame, ConvertFails,
                    KeepUnpublished, Announce, CloseDecoder, SignalOutcome
<1>5. SessionEnds(w, "none").pc = "close"
  BY <1>3, EndsWorker
<1>6. [w EXCEPT !.pc = "hold"].pc = "hold"
  BY <1>3 DEF PlayWorkers
<1>7. /\ Decided(w, w.range).pc = "seek" =>
            ~Fits(w, w.range) /\ w.range # Everything /\ Decided(w, w.range).sought = w.range
  BY <1>3, DecidesWorker
<1>8. plays'[t] = CASE w.stop -> SessionEnds(w, "none")
                    [] ~w.stop /\ ~Fits(w, w.range) /\ w.range # Everything /\ w.yielded <= 1 /\ w.sought = w.range ->
                         [w EXCEPT !.pc = "hold"]
                    [] OTHER -> Decided(w, w.range)
  BY <1>1, <1>4 DEF ReadWindow, WorkerGoes
<1> HIDE DEF w
<1>9. plays'[t] = Decided(w, w.range) /\ ~(~w.stop /\ ~Fits(w, w.range) /\ w.range # Everything /\ w.yielded <= 1 /\ w.sought = w.range)
      /\ ~w.stop
  BY <1>5, <1>6, <1>8
<1>10. w.yielded > 1
  BY <1>3, <1>7, <1>9 DEF w
<1> QED
  BY <1>10 DEF w

LEMMA LoopsReplay ==
    ASSUME PlaybackInv, PlaybackNext, NEW t \in Sessions,
           plays[t].pc = "window", plays'[t].pc = "seek", plays[t].sought = plays'[t].sought
    PROVE  plays[t].yielded > 1
<1>1. ~PlaysStay
  BY DEF PlaysStay
<1> QED
  BY <1>1, EventsGoOn, SeeksOnce

LEMMA LoopsGoOn ==
    PlaybackInv /\ [PlaybackNext]_playbackVars =>
      [\A s \in Sessions : plays[s].pc = "window" /\ plays'[s].pc = "seek" /\ plays[s].sought = plays'[s].sought =>
           plays[s].yielded > 1]_playbackVars
  BY LoopsReplay

\* However play, pause, drags, stills, jobs, other videos and the late frames of
\* stopped workers interleave: the canvas holds a frame only for a reason that
\* goes away again, of the video that is shown; every worker but the active
\* session's was told to stop; the slot of the active one is announced, so the
\* picture goes on; a drag that suspended playback resumes it; and a loop seeks
\* back only when it has something to replay
\* (ui/playback_controller.py, jobs/playback.py).
THEOREM CanvasFollowsPlayback == PlaybackSpec => PlaybackCorrect
<1>1. PlaybackInit => PlaybackInv
  BY PlaybackStarts
<1>2. PlaybackInv => PlaybackSafe
  BY PlaybackIsSafe
<1>3. PlaybackInv /\ [PlaybackNext]_playbackVars => PlaybackInv'
  BY PlaybackGoesOn
<1>4. PlaybackInv /\ [PlaybackNext]_playbackVars =>
        [\A s \in Sessions : plays[s].pc = "window" /\ plays'[s].pc = "seek" /\ plays[s].sought = plays'[s].sought =>
             plays[s].yielded > 1]_playbackVars
  BY LoopsGoOn
<1> QED
  BY <1>1, <1>2, <1>3, <1>4, PTL DEF PlaybackSpec, PlaybackCorrect, PlaybackSafe, LoopsReplaySomething

-----------------------------------------------------------------------------
(* The transform stage: the inductive invariant *)

Cuts == CutSets \cup {NoCut}
AnyCrop == Crops \cup Framings
AnyFraming == Framings \cup {0}
KeptRanges == Nat \X Nat
Facts == [cut : Cuts, framing : AnyFraming]
Askeds == [framing : Framings, crop : AnyCrop, keep : KeptRanges, edited : BOOLEAN, scan : BOOLEAN, job : Cuts,
           applied : AnyCrop]
Stages == [cut : Cuts, version : 0..1, facts : Facts, debounce : BOOLEAN, reread : BOOLEAN, cropping : BOOLEAN,
           failed : BOOLEAN]
Analysers == [live : BOOLEAN, pc : {"runs", "ok", "failed"}, cut : CutSets, reread : BOOLEAN, version : 0..1,
              framing : AnyFraming]
Loaders == [live : BOOLEAN, pc : {"runs", "ok", "failed"}, cut : CutSets, version : 0..1, framing : AnyFraming,
            crop : AnyCrop]
Pictures == [cut : Cuts, version : 0..1, framing : AnyFraming, crop : AnyCrop, cached : Nat]
Screens == [frames : Pictures, kept : KeptRanges, trimmed : BOOLEAN, index : 0..CacheLimit, placed : BOOLEAN,
            playing : BOOLEAN, timer : BOOLEAN]
StageViews == [asked : Askeds, stage : Stages, analyses : SUBSET Analysers, loads : SUBSET Loaders, screen : Screens]

Alive(workers) == \E w \in workers : w.live
OneAlive(workers) == \A v, w \in workers : v.live /\ w.live => v = w

\* The live analysis is of the open cut as it is framed, and reads again what is
\* to be read again.
Analysing(g) ==
    /\ OneAlive(g.analyses)
    /\ \A w \in g.analyses : w.live =>
          /\ g.stage.cut = w.cut /\ w.cut # NoCut /\ w.framing = g.asked.framing
          /\ w.reread = g.stage.reread
    /\ g.stage.reread => Alive(g.analyses)

\* Facts are of a cut; without an analysis they are those of the open one.
Known(g) ==
    /\ g.stage.facts # NoFacts => g.stage.facts.cut # NoCut /\ g.stage.cut # NoCut
    /\ ~Alive(g.analyses) /\ g.stage.facts # NoFacts =>
          g.stage.facts = [cut |-> g.stage.cut, framing |-> g.asked.framing]

\* Frames are loaded and shown of facts.
Loading(g) ==
    /\ OneAlive(g.loads)
    /\ g.stage.facts = NoFacts => g.screen.frames = NoFrames /\ ~g.stage.debounce /\ ~Alive(g.loads)

AsAsked(g, x) ==
    x.cut = g.stage.cut /\ x.version = g.stage.version /\ x.framing = g.asked.framing /\ x.crop = g.asked.crop
\* With nothing ahead of it that starts another, a load is of what is asked for.
Followed(g) ==
    ~Alive(g.analyses) /\ g.stage.facts # NoFacts /\ ~g.stage.debounce /\ ~g.stage.cropping =>
        /\ \A w \in g.loads : w.live => AsAsked(g, w)
        /\ ~Alive(g.loads) /\ ~g.stage.failed => AsAsked(g, g.screen.frames)

\* The player stands on a frame it may play, and ticks while it plays.
Plays(s) ==
    /\ s.frames # NoFrames => (s.placed <=> Playable(s) # {})
    /\ s.placed => s.index \in Playable(s)
    /\ s.playing = s.timer

StageStands(g) == g \in StageViews /\ Analysing(g) /\ Known(g) /\ Loading(g) /\ Followed(g) /\ Plays(g.screen)
StageInv ==
    /\ StageStands(Here)
    /\ onDisk \in [CutSets -> 0..1] /\ sidecar \in [CutSets -> AnyCrop]

-----------------------------------------------------------------------------
(* What the player makes of frames and of a kept range *)

LEMMA FirstIsOneOf ==
    ASSUME NEW indices \in SUBSET (0..CacheLimit), indices # {}
    PROVE  FirstOf(indices) \in indices
<1>1. indices \in SUBSET Nat
  BY ResultStageAssumption
<1>2. \E i \in indices : \A j \in indices : i <= j
  BY <1>1, LeastExists
<1> QED
  BY <1>2 DEF FirstOf

LEMMA PlayableIsCached == \A s : Playable(s) \in SUBSET (0..CacheLimit)
  BY DEF Playable

\* What is placed stands on its first frame.
LEMMA Places ==
    ASSUME NEW s \in Screens, s.playing = s.timer
    PROVE  Placed(s) \in Screens /\ Plays(Placed(s)) /\ Placed(s).frames = s.frames
<1> DEFINE placed == Playable(s) # {}
           index == IF Playable(s) = {} THEN 0 ELSE FirstOf(Playable(s))
           t == Placed(s)
<1>1. index \in 0..CacheLimit /\ (placed => index \in Playable(s))
  BY FirstIsOneOf, PlayableIsCached, ResultStageAssumption
<1>2. t = [s EXCEPT !.placed = placed, !.index = index] /\ placed \in BOOLEAN
  BY DEF Placed
<1> HIDE DEF index, placed, t
<1>3. t \in Screens /\ t.placed = placed /\ t.index = index /\ t.frames = s.frames /\ t.kept = s.kept
      /\ t.trimmed = s.trimmed /\ t.playing = t.timer
  BY <1>1, <1>2 DEF Screens
<1>4. Playable(t) = Playable(s)
  BY <1>3 DEF Playable
<1> QED
  BY <1>1, <1>3, <1>4 DEF Plays, placed, t

LEMMA SetsFrames ==
    ASSUME NEW s \in Screens, Plays(s), NEW frames \in Pictures
    PROVE  LET t == SetFrames(s, frames) IN t \in Screens /\ Plays(t) /\ t.frames = frames
<1>1. CASE frames = NoFrames
  <2>1. 0 \in 0..CacheLimit /\ <<0, 0>> \in KeptRanges
    BY ResultStageAssumption DEF KeptRanges
  <2> DEFINE kept == <<0, 0>>
  <2>2. EmptyScreen = [frames |-> NoFrames, kept |-> kept, trimmed |-> FALSE, index |-> 0, placed |-> FALSE,
                       playing |-> FALSE, timer |-> FALSE]
    BY DEF EmptyScreen
  <2> HIDE DEF kept
  <2>3. EmptyScreen \in Screens /\ EmptyScreen.frames = frames /\ ~EmptyScreen.placed
        /\ EmptyScreen.playing = EmptyScreen.timer
    BY <1>1, <2>1, <2>2 DEF Screens, kept
  <2> QED
    BY <1>1, <2>3 DEF SetFrames, Plays
<1>2. CASE frames # NoFrames
  <2> DEFINE trimmed == IF s.frames = NoFrames THEN FALSE ELSE s.trimmed
             t == [s EXCEPT !.frames = frames, !.trimmed = trimmed]
  <2>1. trimmed \in BOOLEAN
    BY DEF Screens
  <2>2. SetFrames(s, frames) = Placed(t)
    BY <1>2 DEF SetFrames
  <2> HIDE DEF trimmed
  <2>3. t \in Screens /\ t.frames = frames /\ t.playing = t.timer
    BY <2>1 DEF Screens, Plays
  <2> HIDE DEF t
  <2> QED
    BY <2>2, <2>3, Places
<1> QED
  BY <1>1, <1>2

LEMMA KeepsRange ==
    ASSUME NEW s \in Screens, Plays(s), NEW kept \in KeptRanges
    PROVE  LET t == SetKeptRange(s, kept) IN t \in Screens /\ Plays(t) /\ t.frames = s.frames
<1>1. CASE s.frames = NoFrames
  BY <1>1 DEF SetKeptRange
<1>2. CASE s.frames # NoFrames
  <2> DEFINE t == [s EXCEPT !.kept = kept, !.trimmed = TRUE]
  <2>1. t \in Screens /\ t.frames = s.frames /\ t.placed = s.placed /\ t.index = s.index /\ t.playing = t.timer
    BY DEF Screens, Plays
  <2>2. SetKeptRange(s, kept) = IF s.placed /\ s.index \in Playable(t) THEN t ELSE Placed(t)
    BY <1>2 DEF SetKeptRange
  <2> HIDE DEF t
  <2>3. Placed(t) \in Screens /\ Plays(Placed(t)) /\ Placed(t).frames = t.frames
    BY <2>1, Places
  <2>4. ASSUME s.placed, s.index \in Playable(t)
        PROVE  Plays(t)
    BY <2>1, <2>4 DEF Plays
  <2> QED
    BY <2>1, <2>2, <2>3, <2>4
<1> QED
  BY <1>1, <1>2

LEMMA KeptIsTyped ==
    ASSUME NEW keep \in KeptRanges, NEW cut \in CutSets
    PROVE  KeptOf(keep, FrameTotal[cut]) \in KeptRanges /\ CachedOf(cut) \in Nat
<1>1. FrameTotal[cut] \in Nat /\ CacheLimit \in Nat
  BY ResultStageAssumption
<1>2. keep[1] \in Nat /\ keep[2] \in Nat
  BY DEF KeptRanges
<1>3. \A a, b \in Nat : Lesser(a, b) \in Nat
  BY DEF Lesser
<1> QED
  BY <1>1, <1>2, <1>3 DEF KeptOf, CachedOf, KeptRanges

-----------------------------------------------------------------------------
(* What the controller of the stage does to its view *)

LEMMA NothingIsTyped ==
    /\ NoFacts \in Facts /\ NoFrames \in Pictures /\ 0 \in AnyFraming /\ 0 \in AnyCrop /\ 0 \in 0..1
    /\ NoFacts.cut = NoCut /\ <<0, 9>> \in KeptRanges
  BY ResultStageAssumption DEF NoFacts, NoFrames, Facts, Pictures, AnyFraming, AnyCrop, Cuts, KeptRanges

LEMMA SupersededAreTyped ==
    /\ \A workers \in SUBSET Analysers : SupersededAnalyses(workers) \in SUBSET Analysers /\ ~Alive(SupersededAnalyses(workers))
    /\ \A workers \in SUBSET Loaders : SupersededLoads(workers) \in SUBSET Loaders /\ ~Alive(SupersededLoads(workers))
<1>1. ASSUME NEW w \in Analysers
      PROVE  [live |-> FALSE, pc |-> w.pc, cut |-> w.cut, reread |-> FALSE, version |-> 0, framing |-> 0] \in Analysers
  BY NothingIsTyped DEF Analysers
<1>2. ASSUME NEW w \in Loaders
      PROVE  [live |-> FALSE, pc |-> w.pc, cut |-> w.cut, version |-> 0, framing |-> 0, crop |-> 0] \in Loaders
  BY NothingIsTyped DEF Loaders
<1>3. ASSUME NEW workers \in SUBSET Analysers
      PROVE  SupersededAnalyses(workers) \in SUBSET Analysers /\ ~Alive(SupersededAnalyses(workers))
  BY <1>1 DEF SupersededAnalyses, Alive
<1>4. ASSUME NEW workers \in SUBSET Loaders
      PROVE  SupersededLoads(workers) \in SUBSET Loaders /\ ~Alive(SupersededLoads(workers))
  BY <1>2 DEF SupersededLoads, Alive
<1> QED
  BY <1>3, <1>4

\* An analysis is started of the open cut, and hands on what is to be reread.
LEMMA Schedules ==
    ASSUME NEW g \in StageViews, g.stage.cut # NoCut, NEW reread \in BOOLEAN
    PROVE  LET h == ScheduleFacts(g, reread) IN
           /\ h \in StageViews /\ h.asked = g.asked /\ h.loads = g.loads /\ h.screen = g.screen
           /\ \A x \in {"cut", "version", "facts", "debounce", "cropping", "failed"} : h.stage[x] = g.stage[x]
           /\ Analysing(h) /\ Alive(h.analyses)
<1> DEFINE h == ScheduleFacts(g, reread)
           again == reread \/ g.stage.reread
           cut == g.stage.cut
           version == g.stage.version
           framing == g.asked.framing
           w == [live |-> TRUE, pc |-> "runs", cut |-> cut, reread |-> again, version |-> version, framing |-> framing]
           there == [g.stage EXCEPT !.reread = again]
           workers == SupersededAnalyses(g.analyses) \cup {w}
<1>1. /\ g.asked \in Askeds /\ g.stage \in Stages /\ g.analyses \in SUBSET Analysers
      /\ cut \in CutSets /\ version \in 0..1 /\ framing \in AnyFraming /\ again \in BOOLEAN
  BY DEF StageViews, Stages, Askeds, Cuts, AnyFraming
<1>2. h = [g EXCEPT !.stage = there, !.analyses = workers]
  BY DEF ScheduleFacts, StageViews
<1> HIDE DEF again, cut, version, framing
<1>3. w \in Analysers /\ w.live /\ w.cut = cut /\ w.framing = framing /\ w.reread = again
  BY <1>1 DEF Analysers
<1>4. there \in Stages /\ there.reread = again
      /\ \A x \in {"cut", "version", "facts", "debounce", "cropping", "failed"} : there[x] = g.stage[x]
  BY <1>1 DEF Stages
<1> HIDE DEF w, there
<1>5. workers \in SUBSET Analysers /\ w \in workers /\ \A v \in workers : v.live => v = w
  BY <1>1, <1>3, SupersededAreTyped DEF Alive
<1> HIDE DEF workers, h
<1>6. /\ h \in StageViews /\ h.asked = g.asked /\ h.loads = g.loads /\ h.screen = g.screen
      /\ h.stage = there /\ h.analyses = workers
  BY <1>2, <1>4, <1>5 DEF StageViews
<1>7. Alive(h.analyses) /\ OneAlive(h.analyses)
  BY <1>3, <1>5, <1>6 DEF Alive, OneAlive
<1>8. Analysing(h)
  BY <1>3, <1>4, <1>5, <1>6, <1>7 DEF Analysing, cut, framing
<1> QED
  BY <1>4, <1>6, <1>7, <1>8 DEF h

LEMMA CancelsLoads ==
    ASSUME NEW g \in StageViews
    PROVE  LET h == CancelLoad(g) IN
           /\ h \in StageViews /\ h.asked = g.asked /\ h.analyses = g.analyses /\ h.screen = g.screen
           /\ \A x \in {"cut", "version", "facts", "reread", "cropping", "failed"} : h.stage[x] = g.stage[x]
           /\ ~h.stage.debounce /\ ~Alive(h.loads)
<1> DEFINE h == CancelLoad(g)
           there == [g.stage EXCEPT !.debounce = FALSE]
           workers == SupersededLoads(g.loads)
<1>1. h = [g EXCEPT !.stage = there, !.loads = workers]
  BY DEF CancelLoad, StageViews
<1>2. there \in Stages /\ ~there.debounce
      /\ \A x \in {"cut", "version", "facts", "reread", "cropping", "failed"} : there[x] = g.stage[x]
  BY DEF StageViews, Stages
<1>3. workers \in SUBSET Loaders /\ ~Alive(workers)
  BY SupersededAreTyped DEF StageViews
<1> HIDE DEF h, there, workers
<1>4. /\ h \in StageViews /\ h.asked = g.asked /\ h.analyses = g.analyses /\ h.screen = g.screen
      /\ h.stage = there /\ h.loads = workers
  BY <1>1, <1>2, <1>3 DEF StageViews
<1> QED
  BY <1>2, <1>3, <1>4 DEF h

\* Frames are loaded of the facts, as the cut is cropped.
LEMMA StartsLoading ==
    ASSUME NEW g \in StageViews, g.stage.cut # NoCut, g.stage.facts # NoFacts, ~g.stage.reread
    PROVE  LET h == StartFrameLoad(g) IN
           /\ h \in StageViews /\ h.asked = g.asked /\ h.analyses = g.analyses /\ h.screen = g.screen
           /\ \A x \in {"cut", "version", "facts", "reread", "cropping"} : h.stage[x] = g.stage[x]
           /\ ~h.stage.debounce /\ OneAlive(h.loads) /\ Alive(h.loads)
           /\ \A w \in h.loads : w.live => /\ w.cut = g.stage.cut /\ w.version = g.stage.version
                                           /\ w.framing = g.stage.facts.framing /\ w.crop = g.asked.crop
<1> DEFINE h == StartFrameLoad(g)
           c == CancelLoad(g)
           cut == g.stage.cut
           version == g.stage.version
           framing == g.stage.facts.framing
           itsCrop == g.asked.crop
           w == [live |-> TRUE, pc |-> "runs", cut |-> cut, version |-> version, framing |-> framing, crop |-> itsCrop]
           there == [c.stage EXCEPT !.failed = FALSE]
           workers == c.loads \cup {w}
<1>1. /\ c \in StageViews /\ c.asked = g.asked /\ c.analyses = g.analyses /\ c.screen = g.screen
      /\ \A x \in {"cut", "version", "facts", "reread", "cropping"} : c.stage[x] = g.stage[x]
      /\ ~c.stage.debounce /\ ~Alive(c.loads)
  BY CancelsLoads
<1>2. h = [c EXCEPT !.stage.failed = FALSE, !.loads = @ \cup {w}]
  BY DEF StartFrameLoad
<1> HIDE DEF c
<1>3. h = [c EXCEPT !.stage = there, !.loads = workers]
  BY <1>1, <1>2 DEF StageViews
<1>4. cut \in CutSets /\ version \in 0..1 /\ framing \in AnyFraming /\ itsCrop \in AnyCrop
  BY DEF StageViews, Stages, Askeds, Facts, Cuts
<1> HIDE DEF cut, version, framing, itsCrop
<1>5. w \in Loaders /\ w.live /\ w.cut = cut /\ w.version = version /\ w.framing = framing /\ w.crop = itsCrop
  BY <1>4 DEF Loaders
<1>6. there \in Stages /\ \A x \in {"cut", "version", "facts", "debounce", "reread", "cropping"} : there[x] = c.stage[x]
  BY <1>1 DEF StageViews, Stages
<1> HIDE DEF w, there
<1>7. workers \in SUBSET Loaders /\ w \in workers /\ \A v \in workers : v.live => v = w
  BY <1>1, <1>5 DEF Alive, StageViews
<1> HIDE DEF workers, h
<1>8. /\ h \in StageViews /\ h.asked = c.asked /\ h.analyses = c.analyses /\ h.screen = c.screen
      /\ h.stage = there /\ h.loads = workers
  BY <1>1, <1>3, <1>6, <1>7 DEF StageViews
<1>9. OneAlive(h.loads) /\ Alive(h.loads)
  BY <1>5, <1>7, <1>8 DEF OneAlive, Alive
<1>10. \A v \in h.loads : v.live => v.cut = cut /\ v.version = version /\ v.framing = framing /\ v.crop = itsCrop
  BY <1>5, <1>7, <1>8
<1> QED
  BY <1>1, <1>6, <1>8, <1>9, <1>10 DEF h, cut, version, framing, itsCrop

\* The facts are dropped, with the frames and what loads them.
LEMMA Forgets ==
    ASSUME NEW g \in StageViews, Plays(g.screen)
    PROVE  LET h == SetFacts(g, NoFacts) IN
           /\ h \in StageViews /\ h.asked = g.asked /\ h.analyses = g.analyses
           /\ \A x \in {"cut", "version", "reread", "cropping", "failed"} : h.stage[x] = g.stage[x]
           /\ h.stage.facts = NoFacts /\ Loading(h) /\ Plays(h.screen)
<1> DEFINE h == SetFacts(g, NoFacts)
           there == [g.stage EXCEPT !.facts = NoFacts]
           e == [g EXCEPT !.stage = there]
           c == CancelLoad(e)
           blank == SetFrames(c.screen, NoFrames)
<1>1. e = [g EXCEPT !.stage.facts = NoFacts]
  BY DEF StageViews
<1>2. there \in Stages /\ there.facts = NoFacts
      /\ \A x \in {"cut", "version", "reread", "cropping", "failed"} : there[x] = g.stage[x]
  BY NothingIsTyped DEF StageViews, Stages
<1> HIDE DEF there
<1>3. e \in StageViews /\ e.stage = there /\ e.asked = g.asked /\ e.analyses = g.analyses /\ e.screen = g.screen
  BY <1>2 DEF StageViews
<1>4. h = [c EXCEPT !.screen = blank]
  BY <1>1, <1>2, <1>3 DEF SetFacts, SyncFrames
<1> HIDE DEF e
<1>5. /\ c \in StageViews /\ c.asked = g.asked /\ c.analyses = g.analyses /\ c.screen = g.screen
      /\ \A x \in {"cut", "version", "facts", "reread", "cropping", "failed"} : c.stage[x] = there[x]
      /\ ~c.stage.debounce /\ ~Alive(c.loads)
  BY <1>3, CancelsLoads
<1> HIDE DEF c
<1>6. blank \in Screens /\ Plays(blank) /\ blank.frames = NoFrames
  BY <1>5, NothingIsTyped, SetsFrames DEF StageViews
<1> HIDE DEF blank, h
<1>7. /\ h \in StageViews /\ h.asked = c.asked /\ h.analyses = c.analyses /\ h.stage = c.stage /\ h.loads = c.loads
      /\ h.screen = blank
  BY <1>4, <1>5, <1>6 DEF StageViews
<1>8. Loading(h)
  BY <1>5, <1>6, <1>7 DEF Loading, OneAlive, Alive
<1> QED
  BY <1>2, <1>5, <1>6, <1>7, <1>8 DEF h

\* New facts are of the open cut: its frames are loaded at once.
LEMMA Learns ==
    ASSUME NEW g \in StageViews, g.stage.cut # NoCut, ~g.stage.reread, NEW facts \in Facts, facts # NoFacts
    PROVE  LET h == SetFacts(g, facts) IN
           /\ h \in StageViews /\ h.asked = g.asked /\ h.analyses = g.analyses /\ h.screen = g.screen
           /\ \A x \in {"cut", "version", "reread", "cropping"} : h.stage[x] = g.stage[x]
           /\ h.stage.facts = facts /\ ~h.stage.debounce /\ OneAlive(h.loads) /\ Alive(h.loads)
           /\ \A w \in h.loads : w.live => /\ w.cut = g.stage.cut /\ w.version = g.stage.version
                                           /\ w.framing = facts.framing /\ w.crop = g.asked.crop
<1> DEFINE there == [g.stage EXCEPT !.facts = facts]
           e == [g EXCEPT !.stage = there]
<1>1. e = [g EXCEPT !.stage.facts = facts]
  BY DEF StageViews
<1>2. there \in Stages /\ there.facts = facts
      /\ \A x \in {"cut", "version", "reread", "cropping", "failed"} : there[x] = g.stage[x]
  BY DEF StageViews, Stages
<1> HIDE DEF there
<1>3. e \in StageViews /\ e.stage = there /\ e.asked = g.asked /\ e.analyses = g.analyses /\ e.screen = g.screen
  BY <1>2 DEF StageViews
<1>4. SetFacts(g, facts) = StartFrameLoad(e)
  BY <1>1, <1>2, <1>3 DEF SetFacts, SyncFrames
<1> HIDE DEF e
<1> QED
  BY <1>2, <1>3, <1>4, StartsLoading

\* What follows an edit of the parameters: the kept range is shown, and frames
\* that no longer fit are loaded after a quiet period.
LEMMA ShowsEdits ==
    ASSUME NEW a \in StageViews, Plays(a.screen), a.stage.facts # NoFacts => a.stage.facts.cut # NoCut
    PROVE  LET h == IF a.stage.facts = NoFacts THEN a
                    ELSE [a EXCEPT !.screen = SetKeptRange(@, KeptOf(a.asked.keep, FrameTotal[a.stage.facts.cut]))] IN
           /\ h \in StageViews /\ h.asked = a.asked /\ h.analyses = a.analyses /\ h.loads = a.loads
           /\ h.stage = a.stage /\ Plays(h.screen) /\ h.screen.frames = a.screen.frames
<1>1. CASE a.stage.facts = NoFacts
  BY <1>1
<1>2. CASE a.stage.facts # NoFacts
  <2> DEFINE kept == KeptOf(a.asked.keep, FrameTotal[a.stage.facts.cut])
             shows == SetKeptRange(a.screen, kept)
  <2>1. kept \in KeptRanges
    <3>1. a.stage.facts.cut \in CutSets /\ a.asked.keep \in KeptRanges
      BY <1>2 DEF StageViews, Stages, Facts, Cuts, Askeds
    <3> QED
      BY <3>1, KeptIsTyped
  <2>2. [a EXCEPT !.screen = SetKeptRange(@, kept)] = [a EXCEPT !.screen = shows]
    OBVIOUS
  <2> HIDE DEF kept
  <2>3. shows \in Screens /\ Plays(shows) /\ shows.frames = a.screen.frames
    BY <2>1, KeepsRange DEF StageViews
  <2> HIDE DEF shows
  <2> DEFINE h == [a EXCEPT !.screen = shows]
  <2>4. /\ h \in StageViews /\ h.asked = a.asked /\ h.analyses = a.analyses /\ h.loads = a.loads
        /\ h.stage = a.stage /\ Plays(h.screen) /\ h.screen.frames = a.screen.frames
    BY <2>3 DEF StageViews
  <2> QED
    BY <1>2, <2>2, <2>4 DEF kept
<1> QED
  BY <1>1, <1>2

LEMMA SyncsLater ==
    ASSUME NEW a \in StageViews, a.stage.cut # NoCut, a.stage.facts # NoFacts
    PROVE  LET h == SyncFrames(a, FALSE) IN
           /\ h \in StageViews /\ h.asked = a.asked /\ h.analyses = a.analyses /\ h.loads = a.loads
           /\ h.screen = a.screen /\ h.stage.debounce
           /\ \A x \in {"cut", "version", "facts", "reread", "cropping", "failed"} : h.stage[x] = a.stage[x]
<1> DEFINE h == SyncFrames(a, FALSE)
           there == [a.stage EXCEPT !.debounce = TRUE]
<1>1. h = [a EXCEPT !.stage = there]
  BY DEF SyncFrames, StageViews
<1>2. there \in Stages /\ there.debounce
      /\ \A x \in {"cut", "version", "facts", "reread", "cropping", "failed"} : there[x] = a.stage[x]
  BY DEF StageViews, Stages
<1> HIDE DEF there, h
<1>3. /\ h \in StageViews /\ h.asked = a.asked /\ h.analyses = a.analyses /\ h.loads = a.loads /\ h.stage = there
      /\ h.screen = a.screen
  BY <1>1, <1>2 DEF StageViews
<1> QED
  BY <1>2, <1>3 DEF h

\* An edit of the parameters, by whatever means.
LEMMA EditsKeepTheStage ==
    ASSUME NEW b, StageStands(b), NEW new \in Askeds
    PROVE  LET h == ParametersChanged([b EXCEPT !.asked = new], b.asked) IN StageStands(h) /\ h.asked = new
<1> DEFINE g == [b EXCEPT !.asked = new]
           framed == new.framing # b.asked.framing
           scanned == (b.asked.scan /\ ~new.scan /\ new.edited) \/ (new.edited /\ ~b.asked.edited)
           a == IF framed \/ scanned THEN ScheduleFacts(g, scanned) ELSE g
           sync == a.stage.facts # NoFacts /\ ~framed /\ ~b.stage.cropping /\ new.crop # b.asked.crop
           h == ParametersChanged(g, b.asked)
<1> USE DEF StageStands
<1>1. /\ g \in StageViews /\ g.asked = new /\ g.stage = b.stage /\ g.analyses = b.analyses /\ g.loads = b.loads
      /\ g.screen = b.screen
  BY DEF StageViews
<1>2. scanned \in BOOLEAN
  BY DEF StageViews, Askeds
<1> HIDE DEF g, scanned
<1>3. /\ a \in StageViews /\ a.asked = new /\ a.loads = b.loads /\ a.screen = b.screen /\ Analysing(a)
      /\ \A x \in {"cut", "version", "facts", "debounce", "cropping", "failed"} : a.stage[x] = b.stage[x]
      /\ Alive(a.analyses) \/ (a.analyses = b.analyses /\ (framed => b.stage.cut = NoCut))
  <2>1. CASE (framed \/ scanned) /\ b.stage.cut # NoCut
    BY <1>1, <1>2, <2>1, Schedules
  <2>2. CASE (framed \/ scanned) /\ b.stage.cut = NoCut
    <3>1. a = g
      BY <1>1, <2>2 DEF ScheduleFacts
    <3>2. Analysing(g)
      BY <1>1, <2>2 DEF Analysing, Alive
    <3> QED
      BY <1>1, <2>2, <3>1, <3>2
  <2>3. CASE ~(framed \/ scanned)
    <3>1. a = g
      BY <2>3
    <3>2. Analysing(g)
      BY <1>1, <2>3 DEF Analysing
    <3> QED
      BY <1>1, <2>3, <3>1, <3>2
  <2> QED
    BY <2>1, <2>2, <2>3
<1> DEFINE c == IF a.stage.facts = NoFacts THEN a
                ELSE [a EXCEPT !.screen = SetKeptRange(@, KeptOf(a.asked.keep, FrameTotal[a.stage.facts.cut]))]
<1>4. h = IF sync THEN SyncFrames(c, FALSE) ELSE c
  BY <1>1, <1>3 DEF ParametersChanged, scanned
<1> HIDE DEF a, framed, h
<1>5. a.stage.facts # NoFacts => a.stage.facts.cut # NoCut /\ a.stage.cut # NoCut
  BY <1>3 DEF Known
<1>6. /\ c \in StageViews /\ c.asked = a.asked /\ c.analyses = a.analyses /\ c.loads = a.loads
      /\ c.stage = a.stage /\ Plays(c.screen) /\ c.screen.frames = a.screen.frames
  <2>1. Plays(a.screen)
    BY <1>3
  <2> QED
    BY <1>3, <1>5, <2>1, ShowsEdits
<1> HIDE DEF c
<1>7. /\ h \in StageViews /\ h.asked = a.asked /\ h.analyses = a.analyses /\ h.loads = a.loads
      /\ Plays(h.screen) /\ h.screen.frames = a.screen.frames
      /\ \A x \in {"cut", "version", "facts", "reread", "cropping", "failed"} : h.stage[x] = a.stage[x]
      /\ h.stage.debounce <=> (sync \/ a.stage.debounce)
  <2>1. CASE ~sync
    BY <1>4, <1>6, <2>1
  <2>2. CASE sync
    <3>1. c.stage.cut # NoCut /\ c.stage.facts # NoFacts
      BY <1>5, <1>6, <2>2
    <3>2. h = SyncFrames(c, FALSE)
      BY <1>4, <2>2
    <3>3. /\ h \in StageViews /\ h.asked = c.asked /\ h.analyses = c.analyses /\ h.loads = c.loads
          /\ h.screen = c.screen /\ h.stage.debounce
          /\ \A x \in {"cut", "version", "facts", "reread", "cropping", "failed"} : h.stage[x] = c.stage[x]
      BY <1>6, <3>1, <3>2, SyncsLater
    <3> QED
      BY <1>6, <2>2, <3>3
  <2> QED
    BY <2>1, <2>2
<1>8. Analysing(h)
  BY <1>3, <1>7 DEF Analysing
<1>9. Known(h)
  BY <1>3, <1>7 DEF Known, framed
<1>10. Loading(h)
  BY <1>3, <1>7 DEF Loading
<1>11. Followed(h)
  <2>1. SUFFICES ASSUME ~Alive(h.analyses), h.stage.facts # NoFacts, ~h.stage.debounce, ~h.stage.cropping
                 PROVE  /\ \A w \in h.loads : w.live => AsAsked(h, w)
                        /\ ~Alive(h.loads) /\ ~h.stage.failed => AsAsked(h, h.screen.frames)
    BY DEF Followed
  <2>2. a.analyses = b.analyses /\ ~framed
    BY <1>3, <1>7, <2>1 DEF Known
  <2>3. new.crop = b.asked.crop /\ ~a.stage.debounce
    BY <1>3, <1>7, <2>1, <2>2
  <2>4. \A x : AsAsked(h, x) <=> AsAsked(b, x)
    BY <1>3, <1>7, <2>2, <2>3 DEF AsAsked, framed
  <2> QED
    BY <1>3, <1>7, <2>1, <2>2, <2>3, <2>4 DEF Followed
<1> QED
  BY <1>3, <1>7, <1>8, <1>9, <1>10, <1>11 DEF h, g

\* The crop is clamped while an analysis hands in its facts.
LEMMA Recrops ==
    ASSUME NEW g \in StageViews, Plays(g.screen), NEW itsCrop \in AnyCrop,
           g.stage.facts # NoFacts => g.stage.facts.cut # NoCut /\ g.stage.cut # NoCut
    PROVE  LET h == ParametersChanged([g EXCEPT !.asked.crop = itsCrop], g.asked) IN
           /\ h \in StageViews /\ h.analyses = g.analyses /\ h.asked.framing = g.asked.framing /\ Plays(h.screen)
           /\ \A x \in {"cut", "version", "facts", "reread", "cropping"} : h.stage[x] = g.stage[x]
<1> DEFINE new == [g.asked EXCEPT !.crop = itsCrop]
           a == [g EXCEPT !.asked = new]
           sync == a.stage.facts # NoFacts /\ ~g.stage.cropping /\ new.crop # g.asked.crop
           c == IF a.stage.facts = NoFacts THEN a
                ELSE [a EXCEPT !.screen = SetKeptRange(@, KeptOf(a.asked.keep, FrameTotal[a.stage.facts.cut]))]
           h == ParametersChanged([g EXCEPT !.asked.crop = itsCrop], g.asked)
<1>1. new \in Askeds /\ new.framing = g.asked.framing /\ new.scan = g.asked.scan /\ new.edited = g.asked.edited
  BY DEF StageViews, Askeds
<1>2. a = [g EXCEPT !.asked.crop = itsCrop]
  BY DEF StageViews
<1> HIDE DEF new
<1>3. /\ a \in StageViews /\ a.asked = new /\ a.stage = g.stage /\ a.analyses = g.analyses /\ a.screen = g.screen
  BY <1>1 DEF StageViews
<1> HIDE DEF a
<1>4. h = IF sync THEN SyncFrames(c, FALSE) ELSE c
  <2>1. h = ParametersChanged(a, g.asked)
    BY <1>2
  <2>2. a.asked = new /\ a.stage = g.stage
    BY <1>3
  <2>3. /\ a.asked.framing = g.asked.framing
        /\ ~((g.asked.scan /\ ~a.asked.scan /\ a.asked.edited) \/ (a.asked.edited /\ ~g.asked.edited))
    BY <1>1, <2>2
  <2>4. sync = (a.stage.facts # NoFacts /\ ~a.stage.cropping /\ a.asked.crop # g.asked.crop)
    BY <2>2
  <2> HIDE DEF sync, h
  <2> QED
    BY <2>1, <2>3, <2>4 DEF ParametersChanged
<1> HIDE DEF h
<1>5. /\ c \in StageViews /\ c.asked = a.asked /\ c.analyses = a.analyses /\ c.stage = a.stage /\ Plays(c.screen)
  BY <1>3, ShowsEdits
<1> HIDE DEF c
<1>6. CASE ~sync
  BY <1>1, <1>3, <1>4, <1>5, <1>6 DEF h
<1>7. CASE sync
  <2>1. c.stage.cut # NoCut /\ c.stage.facts # NoFacts
    BY <1>3, <1>5, <1>7
  <2>2. h = SyncFrames(c, FALSE)
    BY <1>4, <1>7
  <2>3. /\ h \in StageViews /\ h.asked = c.asked /\ h.analyses = c.analyses /\ h.loads = c.loads
        /\ h.screen = c.screen /\ h.stage.debounce
        /\ \A x \in {"cut", "version", "facts", "reread", "cropping", "failed"} : h.stage[x] = c.stage[x]
    BY <1>5, <2>1, <2>2, SyncsLater
  <2> QED
    BY <1>1, <1>3, <1>5, <2>3 DEF h
<1> QED
  BY <1>6, <1>7

-----------------------------------------------------------------------------
(* The steps of the transform stage *)

LEMMA HereStands ==
    ASSUME StageInv
    PROVE  /\ StageStands(Here) /\ Here \in StageViews
           /\ Here.asked = asked /\ Here.stage = stage /\ Here.analyses = analyses /\ Here.loads = loads
           /\ Here.screen = screen
           /\ asked \in Askeds /\ stage \in Stages /\ analyses \in SUBSET Analysers /\ loads \in SUBSET Loaders
           /\ screen \in Screens /\ Plays(screen)
           /\ onDisk \in [CutSets -> 0..1] /\ sidecar \in [CutSets -> AnyCrop]
  BY DEF StageInv, StageStands, Here, StageViews

LEMMA StageBecomes ==
    ASSUME NEW h, StageStands(h), StageGoes(h), onDisk' \in [CutSets -> 0..1], sidecar' \in [CutSets -> AnyCrop]
    PROVE  StageInv'
<1>1. Here' = h
  BY DEF StageGoes, StageStands, StageViews, Here
<1>2. StageStands(Here')
  BY <1>1
<1>3. StageStands(Here)'
  BY <1>2 DEF StageStands, StageViews, Askeds, Stages, Analysers, Loaders, Screens, Pictures, Facts
<1> QED
  BY <1>3 DEF StageInv, AnyCrop

LEMMA StageGoesOn ==
    ASSUME StageInv, NEW h, StageStands(h), StageGoes(h), DiskStays
    PROVE  StageInv'
<1>1. onDisk' \in [CutSets -> 0..1] /\ sidecar' \in [CutSets -> AnyCrop]
  BY HereStands DEF DiskStays
<1> QED
  BY <1>1, StageBecomes

\* Workers that go on, or leave without being live.
LEMMA AnalysesGoOn ==
    ASSUME NEW g, StageStands(g), NEW workers \in SUBSET Analysers, OneAlive(workers), Alive(g.analyses) => Alive(workers),
           \A v \in workers : v.live =>
              \E u \in g.analyses : u.live /\ v.cut = u.cut /\ v.framing = u.framing /\ v.reread = u.reread
    PROVE  StageStands([g EXCEPT !.analyses = workers])
<1> DEFINE h == [g EXCEPT !.analyses = workers]
<1>1. h \in StageViews /\ h.asked = g.asked /\ h.stage = g.stage /\ h.analyses = workers /\ h.loads = g.loads
      /\ h.screen = g.screen
  BY DEF StageStands, StageViews
<1> HIDE DEF h
<1>2. Alive(h.analyses) <=> Alive(g.analyses)
  BY <1>1 DEF Alive
<1>3. Analysing(h)
  BY <1>1, <1>2 DEF StageStands, Analysing
<1>4. Known(h) /\ Loading(h) /\ Plays(h.screen)
  BY <1>1, <1>2 DEF StageStands, Known, Loading
<1>5. Followed(h)
  BY <1>1, <1>2 DEF StageStands, Followed, AsAsked
<1> QED
  BY <1>1, <1>3, <1>4, <1>5 DEF StageStands, h

LEMMA LoadsGoOn ==
    ASSUME NEW g, StageStands(g), NEW workers \in SUBSET Loaders, OneAlive(workers), Alive(g.loads) => Alive(workers),
           \A v \in workers : v.live =>
              \E u \in g.loads : u.live /\ v.cut = u.cut /\ v.version = u.version /\ v.framing = u.framing /\ v.crop = u.crop
    PROVE  StageStands([g EXCEPT !.loads = workers])
<1> DEFINE h == [g EXCEPT !.loads = workers]
<1>1. h \in StageViews /\ h.asked = g.asked /\ h.stage = g.stage /\ h.analyses = g.analyses /\ h.loads = workers
      /\ h.screen = g.screen
  BY DEF StageStands, StageViews
<1> HIDE DEF h
<1>2. Alive(h.loads) <=> Alive(g.loads)
  BY <1>1 DEF Alive
<1>3. Analysing(h) /\ Known(h) /\ Loading(h) /\ Plays(h.screen)
  BY <1>1, <1>2 DEF StageStands, Analysing, Known, Loading
<1>4. Followed(h)
  BY <1>1, <1>2 DEF StageStands, Followed, AsAsked
<1> QED
  BY <1>1, <1>3, <1>4 DEF StageStands, h

\* What is asked for changes in nothing that frames depend on.
LEMMA AsksElse ==
    ASSUME NEW g, StageStands(g), NEW new \in Askeds, new.framing = g.asked.framing, new.crop = g.asked.crop
    PROVE  StageStands([g EXCEPT !.asked = new])
<1> DEFINE h == [g EXCEPT !.asked = new]
<1>1. h \in StageViews /\ h.asked = new /\ h.stage = g.stage /\ h.analyses = g.analyses /\ h.loads = g.loads
      /\ h.screen = g.screen
  BY DEF StageStands, StageViews
<1> HIDE DEF h
<1>2. Analysing(h) /\ Known(h) /\ Loading(h) /\ Plays(h.screen)
  BY <1>1 DEF StageStands, Analysing, Known, Loading
<1>3. Followed(h)
  BY <1>1 DEF StageStands, Followed, AsAsked
<1> QED
  BY <1>1, <1>2, <1>3 DEF StageStands, h

LEMMA ShowsElse ==
    ASSUME NEW g, StageStands(g), NEW s \in Screens, Plays(s), s.frames = g.screen.frames
    PROVE  StageStands([g EXCEPT !.screen = s])
<1> DEFINE h == [g EXCEPT !.screen = s]
<1>1. h \in StageViews /\ h.asked = g.asked /\ h.stage = g.stage /\ h.analyses = g.analyses /\ h.loads = g.loads
      /\ h.screen = s
  BY DEF StageStands, StageViews
<1> HIDE DEF h
<1>2. Analysing(h) /\ Known(h) /\ Loading(h) /\ Plays(h.screen)
  BY <1>1 DEF StageStands, Analysing, Known, Loading
<1>3. Followed(h)
  BY <1>1 DEF StageStands, Followed, AsAsked
<1> QED
  BY <1>1, <1>2, <1>3 DEF StageStands, h

\* The live one gives the facts of the open cut, as it is framed.
LEMMA FactsComeIn ==
    ASSUME StageInv, NEW w \in analyses, w.live, w.pc = "ok"
    PROVE  StageStands([FactsReady(w) EXCEPT !.analyses = @ \ {w}])
<1> DEFINE version == IF w.reread THEN w.version ELSE stage.version
           reread == IF w.reread THEN FALSE ELSE stage.reread
           there == [stage EXCEPT !.version = version, !.reread = reread]
           a == [Here EXCEPT !.stage = there]
           fitted == FittingCrop(asked.crop, w.framing)
           b == IF fitted = a.asked.crop \/ a.asked.job # NoCut THEN a
                ELSE ParametersChanged([a EXCEPT !.asked.crop = fitted], a.asked)
           c == SetFacts(b, FactsOf(w))
           workers == analyses \ {w}
           h == [c EXCEPT !.analyses = workers]
<1>1. /\ w \in Analysers /\ w.cut = stage.cut /\ stage.cut # NoCut /\ w.framing = asked.framing
      /\ w.reread = stage.reread /\ stage.version \in 0..1 /\ w.version \in 0..1 /\ stage.reread \in BOOLEAN
      /\ OneAlive(analyses)
  BY HereStands DEF StageStands, Analysing, Stages, Analysers
<1>2. version \in 0..1 /\ reread = FALSE
  BY <1>1
<1>3. FactsReady(w) = c
  <2> DEFINE Learnt(v) ==
               SetFacts(IF FittingCrop(v.asked.crop, w.framing) = v.asked.crop \/ v.asked.job # NoCut THEN v
                        ELSE ParametersChanged([v EXCEPT !.asked.crop = FittingCrop(v.asked.crop, w.framing)], v.asked),
                        FactsOf(w))
             read == [Here EXCEPT !.stage.version = IF w.reread THEN w.version ELSE @,
                                  !.stage.reread = IF w.reread THEN FALSE ELSE @]
  <2>1. FactsReady(w) = Learnt(read)
    BY DEF FactsReady
  <2>2. read = a /\ a.asked = asked
    BY DEF Here
  <2> HIDE DEF read, a
  <2> QED
    BY <2>1, <2>2
<1> HIDE DEF version, reread
<1>4. /\ there \in Stages /\ ~there.reread
      /\ \A x \in {"cut", "facts", "debounce", "cropping", "failed"} : there[x] = stage[x]
  BY <1>2, HereStands DEF Stages
<1> HIDE DEF there
<1>5. /\ a \in StageViews /\ a.asked = asked /\ a.stage = there /\ a.analyses = analyses /\ a.screen = screen
  BY <1>4, HereStands DEF StageViews
<1> HIDE DEF a
<1>6. fitted \in AnyCrop
  <2>1. asked.crop \in AnyCrop /\ w.framing \in AnyCrop
    BY <1>1, HereStands DEF Askeds, AnyCrop
  <2> QED
    BY <2>1 DEF FittingCrop, Lesser
<1> HIDE DEF fitted
<1>7. a.stage.facts # NoFacts => a.stage.facts.cut # NoCut /\ a.stage.cut # NoCut
  BY <1>4, <1>5, HereStands DEF StageStands, Known
<1>8. /\ b \in StageViews /\ b.analyses = analyses /\ b.asked.framing = asked.framing /\ Plays(b.screen)
      /\ b.stage.cut = stage.cut /\ ~b.stage.reread
  <2>1. CASE fitted = a.asked.crop \/ a.asked.job # NoCut
    BY <1>4, <1>5, <2>1, HereStands
  <2>2. CASE ~(fitted = a.asked.crop \/ a.asked.job # NoCut)
    <3> DEFINE d == ParametersChanged([a EXCEPT !.asked.crop = fitted], a.asked)
    <3>1. Plays(a.screen)
      BY <1>5, HereStands
    <3>2. /\ d \in StageViews /\ d.analyses = a.analyses /\ d.asked.framing = a.asked.framing /\ Plays(d.screen)
          /\ d.stage.cut = a.stage.cut /\ d.stage.reread = a.stage.reread
      BY <1>5, <1>6, <1>7, <3>1, Recrops
    <3>3. b = d
      BY <2>2
    <3> HIDE DEF b, d
    <3> QED
      BY <1>4, <1>5, <3>2, <3>3
  <2> QED
    BY <2>1, <2>2
<1> HIDE DEF b
<1>9. FactsOf(w) \in Facts /\ FactsOf(w).cut = stage.cut /\ FactsOf(w).framing = asked.framing
      /\ FactsOf(w) = [cut |-> stage.cut, framing |-> asked.framing] /\ FactsOf(w) # NoFacts
  BY <1>1, NothingIsTyped DEF FactsOf, Analysers, Facts, Cuts
<1> DEFINE facts == FactsOf(w)
<1> HIDE DEF facts
<1>10. /\ c \in StageViews /\ c.asked = b.asked /\ c.analyses = analyses /\ c.screen = b.screen
       /\ c.stage.cut = stage.cut /\ ~c.stage.reread /\ c.stage.facts = facts
       /\ ~c.stage.debounce /\ OneAlive(c.loads) /\ Alive(c.loads)
       /\ \A v \in c.loads : v.live => /\ v.cut = c.stage.cut /\ v.version = c.stage.version
                                       /\ v.framing = facts.framing /\ v.crop = c.asked.crop
  BY <1>1, <1>8, <1>9, Learns DEF facts
<1> HIDE DEF c
<1>11. workers \in SUBSET Analysers /\ ~Alive(workers)
  BY <1>1, HereStands DEF OneAlive, Alive
<1> HIDE DEF workers, h
<1>12. /\ h \in StageViews /\ h.asked = c.asked /\ h.stage = c.stage /\ h.analyses = workers /\ h.loads = c.loads
       /\ h.screen = c.screen
  BY <1>10, <1>11 DEF StageViews, h
<1>13. Analysing(h)
  BY <1>10, <1>11, <1>12 DEF Analysing, OneAlive, Alive
<1>14. Known(h)
  BY <1>1, <1>8, <1>9, <1>10, <1>12 DEF Known, facts
<1>15. Loading(h)
  BY <1>9, <1>10, <1>12 DEF Loading, facts
<1>16. Followed(h)
  BY <1>8, <1>9, <1>10, <1>12 DEF Followed, AsAsked, facts
<1>17. Plays(h.screen)
  BY <1>8, <1>10, <1>12
<1>18. h = [FactsReady(w) EXCEPT !.analyses = @ \ {w}]
  BY <1>3, <1>10 DEF h, workers
<1> QED
  BY <1>12, <1>13, <1>14, <1>15, <1>16, <1>17, <1>18 DEF StageStands

LEMMA FactsFail ==
    ASSUME StageInv, NEW w \in analyses, w.live
    PROVE  StageStands([SetFacts([Here EXCEPT !.stage.reread = FALSE], NoFacts) EXCEPT !.analyses = @ \ {w}])
<1> DEFINE there == [stage EXCEPT !.reread = FALSE]
           a == [Here EXCEPT !.stage = there]
           c == SetFacts(a, NoFacts)
           workers == analyses \ {w}
           h == [c EXCEPT !.analyses = workers]
<1>1. a = [Here EXCEPT !.stage.reread = FALSE]
  BY DEF Here
<1>2. there \in Stages /\ ~there.reread
  BY HereStands DEF Stages
<1> HIDE DEF there
<1>3. a \in StageViews /\ a.asked = asked /\ a.stage = there /\ a.analyses = analyses /\ a.screen = screen
  BY <1>2, HereStands DEF StageViews
<1> HIDE DEF a
<1>4. /\ c \in StageViews /\ c.asked = asked /\ c.analyses = analyses /\ ~c.stage.reread
      /\ c.stage.facts = NoFacts /\ Loading(c) /\ Plays(c.screen)
  BY <1>2, <1>3, HereStands, Forgets
<1> HIDE DEF c
<1>5. workers \in SUBSET Analysers /\ ~Alive(workers)
  BY HereStands DEF StageStands, Analysing, OneAlive, Alive
<1> HIDE DEF workers, h
<1>6. /\ h \in StageViews /\ h.asked = c.asked /\ h.stage = c.stage /\ h.analyses = workers /\ h.loads = c.loads
      /\ h.screen = c.screen
  BY <1>4, <1>5 DEF StageViews, h
<1>7. Analysing(h)
  BY <1>4, <1>5, <1>6 DEF Analysing, OneAlive, Alive
<1>8. Known(h) /\ Loading(h) /\ Followed(h) /\ Plays(h.screen)
  BY <1>4, <1>6 DEF Known, Loading, Followed
<1>9. h = [SetFacts([Here EXCEPT !.stage.reread = FALSE], NoFacts) EXCEPT !.analyses = @ \ {w}]
  BY <1>1, <1>4 DEF h, c, workers
<1> QED
  BY <1>6, <1>7, <1>8, <1>9 DEF StageStands

LEMMA AnalysisSteps ==
    ASSUME StageInv, FactsArrive \/ AnalysisRuns
    PROVE  StageInv'
<1>1. CASE FactsArrive
  <2>1. PICK w \in analyses :
          /\ w.pc # "runs" /\ DiskStays
          /\ LET rest == [Here EXCEPT !.analyses = @ \ {w}] IN
             CASE ~w.live -> StageGoes(rest)
               [] w.live /\ w.pc = "failed" ->
                    StageGoes([SetFacts([Here EXCEPT !.stage.reread = FALSE], NoFacts) EXCEPT !.analyses = @ \ {w}])
               [] OTHER -> StageGoes([FactsReady(w) EXCEPT !.analyses = @ \ {w}])
    BY <1>1 DEF FactsArrive
  <2>2. w \in Analysers
    BY HereStands
  <2>3. CASE ~w.live
    <3> DEFINE workers == analyses \ {w}
    <3>1. StageGoes([Here EXCEPT !.analyses = workers])
      BY <2>1, <2>3 DEF Here
    <3>2. workers \in SUBSET Analysers /\ \A v \in analyses : v.live => v \in workers
      BY <2>3, HereStands
    <3>3. OneAlive(workers) /\ (Alive(analyses) => Alive(workers)) /\ workers \subseteq analyses
      BY <3>2, HereStands DEF StageStands, Analysing, OneAlive, Alive
    <3> HIDE DEF workers
    <3>4. StageStands([Here EXCEPT !.analyses = workers])
      BY <3>2, <3>3, HereStands, AnalysesGoOn
    <3> QED
      BY <2>1, <3>1, <3>4, StageGoesOn
  <2>4. CASE w.live /\ w.pc = "failed"
    BY <2>1, <2>4, FactsFail, StageGoesOn
  <2>5. CASE w.live /\ w.pc = "ok"
    <3>1. StageGoes([FactsReady(w) EXCEPT !.analyses = @ \ {w}])
      BY <2>1, <2>5
    <3> QED
      BY <2>1, <2>5, <3>1, FactsComeIn, StageGoesOn
  <2> QED
    BY <2>1, <2>2, <2>3, <2>4, <2>5 DEF Analysers
<1>2. CASE AnalysisRuns
  <2>1. PICK w \in analyses, pc \in {"ok", "failed"} :
          /\ DiskStays /\ UNCHANGED <<asked, stage, loads, screen, stageEdits>>
          /\ analyses' = (analyses \ {w}) \cup
                (IF w.live THEN {[w EXCEPT !.pc = pc, !.version = IF w.reread THEN onDisk[w.cut] ELSE @]}
                 ELSE {x \in {[w EXCEPT !.pc = pc]} : pc = "ok"})
    BY <1>2 DEF AnalysisRuns
  <2>2. w \in Analysers /\ analyses \in SUBSET Analysers
    BY HereStands
  <2> DEFINE h == [Here EXCEPT !.analyses = analyses']
  <2>3. StageGoes(h)
    BY <2>1 DEF StageGoes, Here
  <2>4. ASSUME analyses' \in SUBSET Analysers, OneAlive(analyses'), Alive(analyses) => Alive(analyses'),
               \A v \in analyses' : v.live =>
                  \E u \in analyses : u.live /\ v.cut = u.cut /\ v.framing = u.framing /\ v.reread = u.reread
        PROVE  StageInv'
    <3> DEFINE workers == analyses'
    <3> HIDE DEF workers
    <3>1. StageStands([Here EXCEPT !.analyses = workers])
      BY <2>4, HereStands, AnalysesGoOn DEF workers
    <3> QED
      BY <2>1, <2>3, <3>1, StageGoesOn DEF workers
  <2>5. CASE w.live
    <3> DEFINE version == IF w.reread THEN onDisk[w.cut] ELSE w.version
               v == [w EXCEPT !.pc = pc, !.version = version]
    <3>1. version \in 0..1
      BY <2>2, HereStands DEF Analysers
    <3>2. analyses' = (analyses \ {w}) \cup {v}
      BY <2>1, <2>5
    <3> HIDE DEF version
    <3>3. v \in Analysers /\ v.live /\ v.cut = w.cut /\ v.framing = w.framing /\ v.reread = w.reread
      BY <2>2, <2>5, <3>1 DEF Analysers
    <3> HIDE DEF v
    <3>4. \A u \in analyses : u.live => u = w
      BY <2>5, HereStands DEF StageStands, Analysing, OneAlive
    <3>5. analyses' \in SUBSET Analysers /\ OneAlive(analyses') /\ Alive(analyses')
      BY <2>2, <3>2, <3>3, <3>4 DEF OneAlive, Alive
    <3>6. \A x \in analyses' : x.live => x = v
      BY <3>2, <3>4
    <3> QED
      BY <2>4, <2>5, <3>3, <3>5, <3>6
  <2>6. CASE ~w.live
    <3> DEFINE v == [w EXCEPT !.pc = pc]
    <3>1. v \in Analysers /\ ~v.live
      BY <2>2, <2>6 DEF Analysers
    <3>2. analyses' \subseteq (analyses \ {w}) \cup {v} /\ analyses \ {w} \subseteq analyses'
      BY <2>1, <2>6
    <3> HIDE DEF v
    <3>3. analyses' \in SUBSET Analysers /\ \A x \in analyses' : x.live => x \in analyses
      BY <2>2, <3>1, <3>2
    <3>4. OneAlive(analyses') /\ (Alive(analyses) => Alive(analyses'))
      BY <2>6, <3>2, <3>3, HereStands DEF StageStands, Analysing, OneAlive, Alive
    <3> QED
      BY <2>4, <3>3, <3>4
  <2> QED
    BY <2>5, <2>6
<1> QED
  BY <1>1, <1>2

\* The frames of the live load are shown: those that are asked for, unless
\* something is ahead that loads them again.
LEMMA FramesComeIn ==
    ASSUME StageInv, NEW w \in loads, w.live
    PROVE  LET frames == FramesOf(w)
               h == [[Here EXCEPT !.loads = @ \ {w}] EXCEPT
                        !.screen = SetKeptRange(SetFrames(@, frames), KeptOf(asked.keep, FrameTotal[stage.facts.cut]))] IN
           StageStands(h)
<1> DEFINE frames == FramesOf(w)
           kept == KeptOf(asked.keep, FrameTotal[stage.facts.cut])
           first == SetFrames(screen, frames)
           shows == SetKeptRange(first, kept)
           workers == loads \ {w}
           h == [Here EXCEPT !.loads = workers, !.screen = shows]
<1>1. w \in Loaders /\ stage.facts # NoFacts
  BY HereStands DEF StageStands, Loading, Alive
<1>2. frames \in Pictures /\ frames.cut = w.cut /\ frames.version = w.version /\ frames.framing = w.framing
      /\ frames.crop = w.crop
  <2>1. CachedOf(w.cut) \in Nat
    BY <1>1, KeptIsTyped, NothingIsTyped DEF Loaders
  <2> DEFINE cached == CachedOf(w.cut)
  <2> HIDE DEF cached
  <2>2. frames = [cut |-> w.cut, version |-> w.version, framing |-> w.framing, crop |-> w.crop, cached |-> cached]
    BY DEF FramesOf, cached
  <2> QED
    BY <1>1, <2>1, <2>2 DEF Loaders, Pictures, Cuts, cached
<1> HIDE DEF frames
<1>3. kept \in KeptRanges
  <2>1. stage.facts.cut \in CutSets /\ asked.keep \in KeptRanges
    BY <1>1, HereStands DEF StageStands, Known, Stages, Facts, Cuts, Askeds
  <2> QED
    BY <2>1, KeptIsTyped
<1> HIDE DEF kept
<1>4. first \in Screens /\ Plays(first) /\ first.frames = frames
  BY <1>2, HereStands, SetsFrames
<1> HIDE DEF first
<1>5. shows \in Screens /\ Plays(shows) /\ shows.frames = frames
  BY <1>3, <1>4, KeepsRange
<1> HIDE DEF shows
<1>6. workers \in SUBSET Loaders /\ ~Alive(workers)
  BY HereStands DEF StageStands, Loading, OneAlive, Alive
<1> HIDE DEF workers
<1>7. /\ h \in StageViews /\ h.asked = asked /\ h.stage = stage /\ h.analyses = analyses /\ h.loads = workers
      /\ h.screen = shows
  BY <1>5, <1>6, HereStands DEF StageViews
<1> HIDE DEF h
<1>8. Analysing(h) /\ Known(h)
  BY <1>7, HereStands DEF StageStands, Analysing, Known
<1>9. Loading(h)
  BY <1>1, <1>6, <1>7 DEF Loading, OneAlive, Alive
<1>10. Followed(h)
  BY <1>2, <1>5, <1>6, <1>7, HereStands DEF StageStands, Followed, AsAsked, Alive
<1>11. StageStands(h)
  BY <1>5, <1>7, <1>8, <1>9, <1>10 DEF StageStands
<1>12. [[Here EXCEPT !.loads = @ \ {w}] EXCEPT !.screen = SetKeptRange(SetFrames(@, frames), kept)] = h
  BY DEF h, Here, workers, shows, first
<1> QED
  BY <1>11, <1>12 DEF kept, frames

\* The quiet period ends.
LEMMA LoadsAfterQuiet ==
    ASSUME StageInv
    PROVE  StageStands(StartFrameLoad([Here EXCEPT !.stage.debounce = FALSE]))
<1> DEFINE there == [stage EXCEPT !.debounce = FALSE]
           a == [Here EXCEPT !.stage = there]
           h == StartFrameLoad(a)
<1>1. a = [Here EXCEPT !.stage.debounce = FALSE]
  BY DEF Here
<1>2. there \in Stages /\ ~there.debounce
      /\ \A x \in {"cut", "version", "facts", "reread", "cropping", "failed"} : there[x] = stage[x]
  BY HereStands DEF Stages
<1> HIDE DEF there
<1>3. /\ a \in StageViews /\ a.asked = asked /\ a.stage = there /\ a.analyses = analyses /\ a.loads = loads
      /\ a.screen = screen
  BY <1>2, HereStands DEF StageViews
<1> HIDE DEF a
<1>4. Analysing(a) /\ Known(a) /\ Loading(a) /\ Plays(a.screen)
  BY <1>2, <1>3, HereStands DEF StageStands, Analysing, Known, Loading
<1>5. CASE a.stage.cut = NoCut \/ a.stage.facts = NoFacts \/ a.stage.reread
  <2>1. h = a
    BY <1>5 DEF StartFrameLoad
  <2>2. Followed(a)
    BY <1>4, <1>5 DEF Followed, Analysing, Known
  <2> QED
    BY <1>1, <1>3, <1>4, <2>1, <2>2 DEF StageStands, h
<1>6. CASE a.stage.cut # NoCut /\ a.stage.facts # NoFacts /\ ~a.stage.reread
  <2>1. /\ h \in StageViews /\ h.asked = a.asked /\ h.analyses = a.analyses /\ h.screen = a.screen
        /\ \A x \in {"cut", "version", "facts", "reread", "cropping"} : h.stage[x] = a.stage[x]
        /\ ~h.stage.debounce /\ OneAlive(h.loads) /\ Alive(h.loads)
        /\ \A w \in h.loads : w.live => /\ w.cut = a.stage.cut /\ w.version = a.stage.version
                                        /\ w.framing = a.stage.facts.framing /\ w.crop = a.asked.crop
    BY <1>3, <1>6, StartsLoading
  <2> HIDE DEF h
  <2>2. Analysing(h) /\ Known(h) /\ Loading(h) /\ Plays(h.screen)
    BY <1>4, <1>6, <2>1 DEF Analysing, Known, Loading
  <2>3. Followed(h)
    <3>1. ~Alive(h.analyses) => a.stage.facts.framing = a.asked.framing
      BY <1>4, <1>6, <2>1 DEF Known
    <3> QED
      BY <2>1, <3>1 DEF Followed, AsAsked
  <2> QED
    BY <1>1, <2>1, <2>2, <2>3 DEF StageStands, h
<1> QED
  BY <1>5, <1>6

LEMMA LoadSteps ==
    ASSUME StageInv, LoadRuns \/ FramesArrive \/ DebounceFires
    PROVE  StageInv'
<1>1. CASE LoadRuns
  <2>1. PICK w \in loads, pc \in {"ok", "failed"} :
          /\ DiskStays /\ UNCHANGED <<asked, stage, analyses, screen, stageEdits>>
          /\ loads' = (loads \ {w}) \cup (IF w.live \/ pc = "ok" THEN {[w EXCEPT !.pc = pc]} ELSE {})
    BY <1>1 DEF LoadRuns
  <2> DEFINE v == [w EXCEPT !.pc = pc]
             workers == loads'
  <2>2. w \in Loaders /\ loads \in SUBSET Loaders
    BY HereStands
  <2>3. v \in Loaders /\ v.live = w.live /\ v.cut = w.cut /\ v.version = w.version /\ v.framing = w.framing
        /\ v.crop = w.crop
    BY <2>2 DEF Loaders
  <2>4. /\ workers \subseteq (loads \ {w}) \cup {v} /\ loads \ {w} \subseteq workers
        /\ (w.live => v \in workers)
    BY <2>1
  <2>5. StageGoes([Here EXCEPT !.loads = loads'])
    BY <2>1 DEF StageGoes, Here
  <2> HIDE DEF v, workers
  <2>6. workers \in SUBSET Loaders /\ (Alive(loads) => Alive(workers))
    BY <2>2, <2>3, <2>4 DEF Alive
  <2>7. OneAlive(workers)
    <3>1. \A x, y \in loads : x.live /\ y.live => x = y
      BY HereStands DEF StageStands, Loading, OneAlive
    <3> QED
      BY <2>3, <2>4, <3>1 DEF OneAlive
  <2>8. \A x \in workers : x.live =>
          \E u \in loads : u.live /\ x.cut = u.cut /\ x.version = u.version /\ x.framing = u.framing /\ x.crop = u.crop
    BY <2>3, <2>4
  <2>9. StageStands([Here EXCEPT !.loads = workers])
    BY <2>6, <2>7, <2>8, HereStands, LoadsGoOn
  <2> QED
    BY <2>1, <2>5, <2>9, StageGoesOn DEF workers
<1>2. CASE FramesArrive
  <2>1. PICK w \in loads :
          /\ w.pc # "runs" /\ DiskStays
          /\ LET rest == [Here EXCEPT !.loads = @ \ {w}]
                 frames == FramesOf(w) IN
             StageGoes(CASE ~w.live -> rest
                         [] w.live /\ w.pc = "failed" -> [rest EXCEPT !.stage.failed = TRUE]
                         [] OTHER -> [rest EXCEPT !.screen = SetKeptRange(SetFrames(@, frames),
                                                               KeptOf(asked.keep, FrameTotal[stage.facts.cut]))])
    BY <1>2 DEF FramesArrive
  <2>2. w \in Loaders
    BY HereStands
  <2> DEFINE workers == loads \ {w}
  <2>3. [Here EXCEPT !.loads = @ \ {w}] = [Here EXCEPT !.loads = workers]
    BY DEF Here
  <2>4. workers \in SUBSET Loaders /\ OneAlive(workers) /\ (~w.live /\ Alive(loads) => Alive(workers))
        /\ workers \subseteq loads
    BY HereStands DEF StageStands, Loading, OneAlive, Alive
  <2> HIDE DEF workers
  <2>5. CASE ~w.live
    <3>1. StageStands([Here EXCEPT !.loads = workers])
      BY <2>4, <2>5, HereStands, LoadsGoOn
    <3> QED
      BY <2>1, <2>3, <2>5, <3>1, StageGoesOn
  <2>6. CASE w.live /\ w.pc = "failed"
    <3> DEFINE there == [stage EXCEPT !.failed = TRUE]
               h == [Here EXCEPT !.loads = workers, !.stage = there]
    <3>1. StageGoes(h)
      <4>1. [[Here EXCEPT !.loads = workers] EXCEPT !.stage.failed = TRUE] = h
        BY DEF Here
      <4> QED
        BY <2>1, <2>3, <2>6, <4>1
    <3>2. there \in Stages /\ there.failed
          /\ \A x \in {"cut", "version", "facts", "reread", "cropping", "debounce"} : there[x] = stage[x]
      BY HereStands DEF Stages
    <3>3. stage.facts # NoFacts /\ ~Alive(workers)
      BY <2>6, HereStands DEF StageStands, Loading, OneAlive, Alive, workers
    <3> HIDE DEF there, h
    <3>4. /\ h \in StageViews /\ h.asked = asked /\ h.stage = there /\ h.analyses = analyses /\ h.loads = workers
          /\ h.screen = screen
      BY <2>4, <3>2, HereStands DEF StageViews, h
    <3>5. Analysing(h) /\ Known(h) /\ Loading(h) /\ Plays(h.screen)
      BY <2>4, <3>2, <3>3, <3>4, HereStands DEF StageStands, Analysing, Known, Loading
    <3>6. Followed(h)
      BY <3>2, <3>3, <3>4 DEF Followed, Alive
    <3> QED
      BY <2>1, <3>1, <3>4, <3>5, <3>6, StageGoesOn DEF StageStands
  <2>7. CASE w.live /\ w.pc # "failed"
    BY <2>1, <2>7, FramesComeIn, StageGoesOn
  <2> QED
    BY <2>5, <2>6, <2>7
<1>3. CASE DebounceFires
  BY <1>3, LoadsAfterQuiet, StageGoesOn DEF DebounceFires
<1> QED
  BY <1>1, <1>2, <1>3

\* A job ends and its cut is opened.
LEMMA Opens ==
    ASSUME StageInv, asked.job # NoCut, NEW version \in 0..1
    PROVE  StageStands(ScheduleFacts([Here EXCEPT !.stage.cut = asked.job, !.stage.version = version,
                                         !.asked.job = NoCut, !.asked.applied = 0], asked.edited))
<1> DEFINE cut == asked.job
           there == [stage EXCEPT !.cut = cut, !.version = version]
           new == [asked EXCEPT !.job = NoCut, !.applied = 0]
           a == [Here EXCEPT !.stage = there, !.asked = new]
           h == ScheduleFacts(a, asked.edited)
<1>1. a = [Here EXCEPT !.stage.cut = cut, !.stage.version = version, !.asked.job = NoCut, !.asked.applied = 0]
  BY DEF Here
<1>2. cut \in Cuts /\ cut # NoCut /\ asked.edited \in BOOLEAN
  BY HereStands DEF Askeds
<1> HIDE DEF cut
<1>3. there \in Stages /\ there.cut = cut
      /\ \A x \in {"facts", "debounce", "reread", "cropping", "failed"} : there[x] = stage[x]
  BY <1>2, HereStands DEF Stages
<1>4. new \in Askeds
  BY HereStands, NothingIsTyped DEF Askeds, Cuts
<1> HIDE DEF there, new
<1>5. /\ a \in StageViews /\ a.asked = new /\ a.stage = there /\ a.loads = loads /\ a.screen = screen
  BY <1>3, <1>4, HereStands DEF StageViews
<1> HIDE DEF a
<1>6. /\ h \in StageViews /\ h.asked = a.asked /\ h.loads = a.loads /\ h.screen = a.screen
      /\ \A x \in {"cut", "version", "facts", "debounce", "cropping", "failed"} : h.stage[x] = a.stage[x]
      /\ Analysing(h) /\ Alive(h.analyses)
  BY <1>2, <1>3, <1>5, Schedules
<1> HIDE DEF h
<1>7. Known(h)
  BY <1>2, <1>3, <1>5, <1>6, HereStands DEF StageStands, Known
<1>8. Loading(h) /\ Followed(h) /\ Plays(h.screen)
  BY <1>3, <1>5, <1>6, HereStands DEF StageStands, Loading, Followed
<1> QED
  BY <1>1, <1>6, <1>7, <1>8 DEF StageStands, h, cut

\* The source is replaced.
LEMMA Closes ==
    ASSUME StageInv, NEW new \in Askeds
    PROVE  StageStands(CloseCut([Here EXCEPT !.asked = new]))
<1> DEFINE there == [stage EXCEPT !.cut = NoCut, !.reread = FALSE]
           workers == SupersededAnalyses(analyses)
           a == [Here EXCEPT !.asked = new, !.stage = there, !.analyses = workers]
           h == SetFacts(a, NoFacts)
<1>1. CloseCut([Here EXCEPT !.asked = new]) = h
  BY DEF CloseCut, Here
<1>2. there \in Stages /\ there.cut = NoCut /\ ~there.reread
  BY HereStands DEF Stages, Cuts
<1>3. workers \in SUBSET Analysers /\ ~Alive(workers)
  BY HereStands, SupersededAreTyped
<1> HIDE DEF there, workers
<1>4. /\ a \in StageViews /\ a.stage = there /\ a.analyses = workers /\ a.screen = screen
  BY <1>2, <1>3, HereStands DEF StageViews
<1> HIDE DEF a
<1>5. /\ h \in StageViews /\ h.asked = a.asked /\ h.analyses = a.analyses
      /\ \A x \in {"cut", "version", "reread", "cropping", "failed"} : h.stage[x] = a.stage[x]
      /\ h.stage.facts = NoFacts /\ Loading(h) /\ Plays(h.screen)
  BY <1>4, HereStands, Forgets
<1> HIDE DEF h
<1>6. Analysing(h) /\ Known(h) /\ Followed(h)
  BY <1>2, <1>3, <1>4, <1>5 DEF Analysing, Known, Followed, OneAlive, Alive
<1> QED
  BY <1>1, <1>5, <1>6 DEF StageStands

\* The crop overlay is entered, or left.
LEMMA TogglesCrop ==
    ASSUME StageInv, stage.facts # NoFacts
    PROVE  LET g == [Here EXCEPT !.stage.cropping = ~@] IN StageStands(IF stage.cropping THEN SyncFrames(g, FALSE) ELSE g)
<1> DEFINE on == ~stage.cropping
           there == [stage EXCEPT !.cropping = on]
           g == [Here EXCEPT !.stage = there]
           h == SyncFrames(g, FALSE)
<1>1. g = [Here EXCEPT !.stage.cropping = ~@]
  BY DEF Here
<1>2. on \in BOOLEAN
  BY HereStands DEF Stages
<1> HIDE DEF on
<1>3. there \in Stages /\ there.cropping = on
      /\ \A x \in {"cut", "version", "facts", "debounce", "reread", "failed"} : there[x] = stage[x]
  BY <1>2, HereStands DEF Stages
<1> HIDE DEF there
<1>4. /\ g \in StageViews /\ g.asked = asked /\ g.stage = there /\ g.analyses = analyses /\ g.loads = loads
      /\ g.screen = screen
  BY <1>3, HereStands DEF StageViews
<1> HIDE DEF g
<1>5. Analysing(g) /\ Known(g) /\ Loading(g) /\ Plays(g.screen)
  BY <1>3, <1>4, HereStands DEF StageStands, Analysing, Known, Loading
<1>6. CASE stage.cropping
  <2>1. g.stage.cut # NoCut /\ g.stage.facts # NoFacts
    BY <1>3, <1>4, <1>5 DEF Known
  <2>2. /\ h \in StageViews /\ h.asked = g.asked /\ h.analyses = g.analyses /\ h.loads = g.loads
        /\ h.screen = g.screen /\ h.stage.debounce
        /\ \A x \in {"cut", "version", "facts", "reread", "cropping", "failed"} : h.stage[x] = g.stage[x]
    BY <1>4, <2>1, SyncsLater
  <2> HIDE DEF h
  <2>3. Analysing(h) /\ Known(h) /\ Loading(h) /\ Followed(h) /\ Plays(h.screen)
    BY <1>5, <2>1, <2>2 DEF Analysing, Known, Loading, Followed
  <2> QED
    BY <1>1, <1>6, <2>2, <2>3 DEF StageStands, h
<1>7. CASE ~stage.cropping
  <2>1. there.cropping = TRUE
    BY <1>3, <1>7 DEF on
  <2>2. Followed(g)
    BY <1>4, <2>1 DEF Followed
  <2> QED
    BY <1>1, <1>4, <1>5, <1>7, <2>2 DEF StageStands
<1> QED
  BY <1>6, <1>7

LEMMA RenderSteps ==
    ASSUME StageInv, StartRender \/ StartRebuild \/ OpenArtifact \/ CancelRender
    PROVE  StageInv'
<1>1. ASSUME NEW new \in Askeds, new.framing = asked.framing, new.crop = asked.crop,
             StageGoes([Here EXCEPT !.asked = new]), DiskStays
      PROVE  StageInv'
  <2>1. StageStands([Here EXCEPT !.asked = new])
    BY <1>1, HereStands, AsksElse
  <2> QED
    BY <1>1, <2>1, StageGoesOn
<1>2. asked.crop \in AnyCrop /\ asked.edited \in BOOLEAN
  BY HereStands DEF Askeds
<1>3. CASE StartRender
  <2>1. PICK c \in CutSets : StageGoes([Here EXCEPT !.asked.job = c, !.asked.applied = asked.crop])
    BY <1>3 DEF StartRender
  <2> DEFINE itsCrop == asked.crop
             new == [asked EXCEPT !.job = c, !.applied = itsCrop]
  <2>2. [Here EXCEPT !.asked.job = c, !.asked.applied = asked.crop] = [Here EXCEPT !.asked = new]
    BY DEF Here
  <2> HIDE DEF itsCrop
  <2>3. new \in Askeds /\ new.framing = asked.framing /\ new.crop = asked.crop
    BY <1>2, HereStands DEF Askeds, Cuts, itsCrop
  <2> HIDE DEF new
  <2> QED
    BY <1>1, <1>3, <2>1, <2>2, <2>3 DEF StartRender
<1>4. CASE StartRebuild
  <2>1. PICK c \in CutSets :
          LET itsCrop == CASE stage.cut = c -> asked.crop
                        [] stage.cut # c /\ stage.facts.cut = c -> FittingCrop(sidecar[c], stage.facts.framing)
                        [] OTHER -> sidecar[c] IN
          StageGoes(ParametersChanged([Here EXCEPT !.asked.job = c, !.asked.applied = itsCrop, !.asked.crop = itsCrop], asked))
    BY <1>4 DEF StartRebuild
  <2> DEFINE itsCrop == CASE stage.cut = c -> asked.crop
                       [] stage.cut # c /\ stage.facts.cut = c -> FittingCrop(sidecar[c], stage.facts.framing)
                       [] OTHER -> sidecar[c]
             new == [asked EXCEPT !.job = c, !.applied = itsCrop, !.crop = itsCrop]
  <2>2. itsCrop \in AnyCrop
    <3>1. sidecar[c] \in AnyCrop /\ stage.facts.framing \in AnyCrop
      BY HereStands, NothingIsTyped DEF Stages, Facts, AnyFraming, AnyCrop
    <3>2. FittingCrop(sidecar[c], stage.facts.framing) \in AnyCrop
      BY <3>1 DEF FittingCrop, Lesser
    <3> QED
      BY <1>2, <3>1, <3>2
  <2>3. StageGoes(ParametersChanged([Here EXCEPT !.asked.job = c, !.asked.applied = itsCrop, !.asked.crop = itsCrop], asked))
    BY <2>1
  <2> HIDE DEF itsCrop
  <2>4. [Here EXCEPT !.asked.job = c, !.asked.applied = itsCrop, !.asked.crop = itsCrop] = [Here EXCEPT !.asked = new]
    BY DEF Here
  <2>5. new \in Askeds
    BY <2>2, HereStands DEF Askeds, Cuts
  <2> HIDE DEF new
  <2>6. StageStands(ParametersChanged([Here EXCEPT !.asked = new], asked))
    BY <2>5, HereStands, EditsKeepTheStage
  <2> QED
    BY <1>4, <2>3, <2>4, <2>6, StageGoesOn DEF StartRebuild
<1>5. CASE OpenArtifact
  <2>1. asked.job # NoCut /\ UNCHANGED onDisk /\ sidecar' = [sidecar EXCEPT ![asked.job] = asked.applied]
        /\ StageGoes(ScheduleFacts([Here EXCEPT !.stage.cut = asked.job, !.stage.version = onDisk[asked.job],
                                       !.asked.job = NoCut, !.asked.applied = 0], asked.edited))
    BY <1>5 DEF OpenArtifact
  <2>2. asked.job \in CutSets /\ asked.applied \in AnyCrop
    BY <2>1, HereStands DEF Askeds, Cuts
  <2>3. onDisk[asked.job] \in 0..1 /\ onDisk' \in [CutSets -> 0..1] /\ sidecar' \in [CutSets -> AnyCrop]
    BY <2>1, <2>2, HereStands
  <2> QED
    BY <2>1, <2>3, Opens, StageBecomes
<1>6. CASE CancelRender
  <2> DEFINE new == [asked EXCEPT !.job = NoCut, !.applied = 0]
  <2>1. [Here EXCEPT !.asked.job = NoCut, !.asked.applied = 0] = [Here EXCEPT !.asked = new]
    BY DEF Here
  <2>2. new \in Askeds /\ new.framing = asked.framing /\ new.crop = asked.crop
    BY HereStands, NothingIsTyped DEF Askeds, Cuts
  <2> HIDE DEF new
  <2> QED
    BY <1>1, <1>6, <2>1, <2>2 DEF CancelRender
<1> QED
  BY <1>3, <1>4, <1>5, <1>6

LEMMA EditSteps ==
    ASSUME StageInv,
           EditParameters \/ ToggleCropEdit \/ ReplaceSource \/ EditFiles \/ ScanStarts \/ ScanEnds
    PROVE  StageInv'
<1>1. ASSUME NEW new \in Askeds, StageGoes(ParametersChanged([Here EXCEPT !.asked = new], asked)), DiskStays
      PROVE  StageInv'
  <2>1. StageStands(ParametersChanged([Here EXCEPT !.asked = new], asked))
    BY HereStands, EditsKeepTheStage
  <2> QED
    BY <1>1, <2>1, StageGoesOn
<1>2. CASE EditParameters
  <2>1. ASSUME NEW f \in Framings, StageGoes(ParametersChanged([Here EXCEPT !.asked.framing = f], asked))
        PROVE  StageInv'
    <3> DEFINE new == [asked EXCEPT !.framing = f]
    <3>1. [Here EXCEPT !.asked.framing = f] = [Here EXCEPT !.asked = new] /\ new \in Askeds
      BY HereStands DEF Here, Askeds
    <3> HIDE DEF new
    <3> QED
      BY <1>1, <1>2, <2>1, <3>1 DEF EditParameters
  <2>2. ASSUME NEW c \in Crops, StageGoes(ParametersChanged([Here EXCEPT !.asked.crop = c], asked))
        PROVE  StageInv'
    <3> DEFINE new == [asked EXCEPT !.crop = c]
    <3>1. [Here EXCEPT !.asked.crop = c] = [Here EXCEPT !.asked = new] /\ new \in Askeds
      BY HereStands DEF Here, Askeds, AnyCrop
    <3> HIDE DEF new
    <3> QED
      BY <1>1, <1>2, <2>2, <3>1 DEF EditParameters
  <2>3. ASSUME NEW k \in Keeps, StageGoes(ParametersChanged([Here EXCEPT !.asked.keep = k], asked))
        PROVE  StageInv'
    <3> DEFINE new == [asked EXCEPT !.keep = k]
    <3>1. k \in KeptRanges
      BY ResultStageAssumption DEF KeptRanges
    <3>2. [Here EXCEPT !.asked.keep = k] = [Here EXCEPT !.asked = new] /\ new \in Askeds
      BY <3>1, HereStands DEF Here, Askeds
    <3> HIDE DEF new
    <3> QED
      BY <1>1, <1>2, <2>3, <3>2 DEF EditParameters
  <2> QED
    BY <1>2, <2>1, <2>2, <2>3 DEF EditParameters
<1>3. CASE ToggleCropEdit
  <2>1. stage.facts # NoFacts /\ DiskStays
        /\ LET g == [Here EXCEPT !.stage.cropping = ~@] IN
           StageGoes(IF stage.cropping THEN SyncFrames(g, FALSE) ELSE g)
    BY <1>3 DEF ToggleCropEdit
  <2> QED
    BY <2>1, TogglesCrop, StageGoesOn
<1>4. CASE ReplaceSource
  <2> DEFINE keep == <<0, 9>>
             new == [asked EXCEPT !.crop = 0, !.keep = keep, !.edited = FALSE, !.scan = FALSE]
  <2>1. [Here EXCEPT !.asked.crop = 0, !.asked.keep = <<0, 9>>, !.asked.edited = FALSE, !.asked.scan = FALSE]
          = [Here EXCEPT !.asked = new]
    BY DEF Here
  <2>2. keep \in KeptRanges
    BY NothingIsTyped
  <2> HIDE DEF keep
  <2>3. new \in Askeds
    BY <2>2, HereStands, NothingIsTyped DEF Askeds
  <2> HIDE DEF new
  <2> QED
    BY <1>4, <2>1, <2>3, Closes, StageGoesOn DEF ReplaceSource
<1>5. CASE EditFiles
  <2>1. PICK c \in CutSets : onDisk' = [onDisk EXCEPT ![c] = 1]
    BY <1>5 DEF EditFiles
  <2>2. onDisk' \in [CutSets -> 0..1] /\ sidecar' \in [CutSets -> AnyCrop]
    BY <1>5, <2>1, HereStands DEF EditFiles
  <2>3. StageGoes(Here)
    BY <1>5 DEF EditFiles, StageGoes, Here
  <2> QED
    BY <2>2, <2>3, HereStands, StageBecomes
<1>6. CASE ScanStarts
  <2> DEFINE new == [asked EXCEPT !.scan = TRUE]
  <2>1. [Here EXCEPT !.asked.scan = TRUE] = [Here EXCEPT !.asked = new]
    BY DEF Here
  <2>2. new \in Askeds /\ new.framing = asked.framing /\ new.crop = asked.crop
    BY HereStands DEF Askeds
  <2> HIDE DEF new
  <2>3. StageStands([Here EXCEPT !.asked = new])
    BY <2>2, HereStands, AsksElse
  <2> QED
    BY <1>6, <2>1, <2>3, StageGoesOn DEF ScanStarts
<1>7. CASE ScanEnds
  <2> DEFINE edited == onDisk[stage.cut] = 1
             new == [asked EXCEPT !.scan = FALSE, !.edited = edited]
  <2>1. [Here EXCEPT !.asked.scan = FALSE, !.asked.edited = edited] = [Here EXCEPT !.asked = new] /\ edited \in BOOLEAN
    BY DEF Here
  <2>2. StageGoes(ParametersChanged([Here EXCEPT !.asked.scan = FALSE, !.asked.edited = edited], asked)) /\ DiskStays
    BY <1>7 DEF ScanEnds
  <2> HIDE DEF edited
  <2>3. new \in Askeds
    BY <2>1, HereStands DEF Askeds
  <2> HIDE DEF new
  <2> QED
    BY <1>1, <2>1, <2>2, <2>3
<1> QED
  BY <1>2, <1>3, <1>4, <1>5, <1>6, <1>7

LEMMA PlayerSteps ==
    ASSUME StageInv, PressPlay \/ PresentPreview \/ Advance
    PROVE  StageInv'
<1>1. ASSUME NEW s \in Screens, Plays(s), s.frames = screen.frames, StageGoes([Here EXCEPT !.screen = s]), DiskStays
      PROVE  StageInv'
  <2>1. StageStands([Here EXCEPT !.screen = s])
    BY <1>1, HereStands, ShowsElse
  <2> QED
    BY <1>1, <2>1, StageGoesOn
<1>2. ASSUME NEW on \in BOOLEAN
      PROVE  LET s == [screen EXCEPT !.playing = on, !.timer = on] IN
             s \in Screens /\ Plays(s) /\ s.frames = screen.frames
  <2> DEFINE s == [screen EXCEPT !.playing = on, !.timer = on]
  <2>1. /\ s \in Screens /\ s.frames = screen.frames /\ s.placed = screen.placed /\ s.index = screen.index
        /\ s.kept = screen.kept /\ s.trimmed = screen.trimmed /\ s.playing = s.timer
    BY HereStands DEF Screens
  <2> HIDE DEF s
  <2>2. Playable(s) = Playable(screen)
    BY <2>1 DEF Playable
  <2>3. Plays(s)
    BY <2>1, <2>2, HereStands DEF Plays
  <2> QED
    BY <2>1, <2>3 DEF s
<1>3. Paused(screen) \in Screens /\ Plays(Paused(screen)) /\ Paused(screen).frames = screen.frames
  BY <1>2 DEF Paused
<1>4. CASE PressPlay
  <2> DEFINE s == [screen EXCEPT !.playing = TRUE, !.timer = TRUE]
  <2>1. s \in Screens /\ Plays(s) /\ s.frames = screen.frames
    BY <1>2
  <2>2. DiskStays /\ StageGoes([Here EXCEPT !.screen = IF screen.playing THEN Paused(screen)
                                                        ELSE IF Playable(screen) = {} THEN screen ELSE s])
    BY <1>4 DEF PressPlay, Here
  <2> HIDE DEF s
  <2>3. screen \in Screens /\ Plays(screen)
    BY HereStands
  <2> QED
    BY <1>1, <1>3, <2>1, <2>2, <2>3
<1>5. CASE PresentPreview
  <2>1. DiskStays /\ StageGoes([Here EXCEPT !.screen = Paused(screen)])
    BY <1>5 DEF PresentPreview, Here
  <2> QED
    BY <1>1, <1>3, <2>1
<1>6. CASE Advance
  <2> DEFINE next == {i \in Playable(screen) : i = screen.index + 1}
             index == FirstOf(IF next # {} THEN next ELSE Playable(screen))
             s == [screen EXCEPT !.index = index]
  <2>1. DiskStays /\ StageGoes([Here EXCEPT !.screen = IF Playable(screen) = {} \/ ~screen.placed THEN Paused(screen)
                                                        ELSE s])
    BY <1>6 DEF Advance, Here
  <2>2. ASSUME Playable(screen) # {}
        PROVE  s \in Screens /\ Plays(s) /\ s.frames = screen.frames
    <3>1. index \in Playable(screen) /\ index \in 0..CacheLimit
      BY <2>2, FirstIsOneOf, PlayableIsCached
    <3> HIDE DEF index
    <3>2. /\ s \in Screens /\ s.frames = screen.frames /\ s.placed = screen.placed /\ s.index = index
          /\ s.kept = screen.kept /\ s.trimmed = screen.trimmed /\ s.playing = screen.playing /\ s.timer = screen.timer
      BY <3>1, HereStands DEF Screens
    <3> HIDE DEF s
    <3>3. Playable(s) = Playable(screen)
      BY <3>2 DEF Playable
    <3> QED
      BY <3>1, <3>2, <3>3, HereStands DEF Plays
  <2> HIDE DEF s
  <2> QED
    BY <1>1, <1>3, <2>1, <2>2
<1> QED
  BY <1>4, <1>5, <1>6

-----------------------------------------------------------------------------
(* The transform stage: the specification *)

LEMMA StageStarts == ResultStageInit => StageInv
<1> SUFFICES ASSUME ResultStageInit
             PROVE  StageInv
  OBVIOUS
<1>1. PICK f \in Framings : asked = [framing |-> f, crop |-> 0, keep |-> <<0, 9>>, edited |-> FALSE, scan |-> FALSE,
                                      job |-> NoCut, applied |-> 0]
  BY DEF ResultStageInit
<1>2. /\ stage = [cut |-> NoCut, version |-> 0, facts |-> NoFacts, debounce |-> FALSE, reread |-> FALSE,
                  cropping |-> FALSE, failed |-> FALSE]
      /\ analyses = {} /\ loads = {} /\ screen = EmptyScreen
      /\ onDisk = [c \in CutSets |-> 0] /\ sidecar = [c \in CutSets |-> 0]
  BY DEF ResultStageInit
<1>3. asked \in Askeds
  <2> DEFINE keep == <<0, 9>>
  <2>1. keep \in KeptRanges
    BY NothingIsTyped
  <2>2. asked = [framing |-> f, crop |-> 0, keep |-> keep, edited |-> FALSE, scan |-> FALSE, job |-> NoCut, applied |-> 0]
    BY <1>1
  <2> HIDE DEF keep
  <2> QED
    BY <2>1, <2>2, NothingIsTyped DEF Askeds, Cuts
<1>4. stage \in Stages
  <2> HIDE DEF NoFacts
  <2> QED
    BY <1>2, NothingIsTyped DEF Stages, Cuts
<1>5. screen \in Screens /\ screen.frames = NoFrames /\ ~screen.placed /\ screen.playing = screen.timer
  <2> DEFINE kept == <<0, 0>>
  <2>1. kept \in KeptRanges /\ 0 \in 0..CacheLimit
    BY ResultStageAssumption DEF KeptRanges
  <2>2. screen = [frames |-> NoFrames, kept |-> kept, trimmed |-> FALSE, index |-> 0, placed |-> FALSE,
                  playing |-> FALSE, timer |-> FALSE]
    BY <1>2 DEF EmptyScreen
  <2> HIDE DEF kept, NoFrames
  <2> QED
    BY <2>1, <2>2, NothingIsTyped DEF Screens
<1>6. /\ Here \in StageViews /\ Here.stage = stage /\ Here.analyses = {} /\ Here.loads = {} /\ Here.screen = screen
  BY <1>2, <1>3, <1>4, <1>5 DEF Here, StageViews
<1>7. Analysing(Here) /\ Known(Here) /\ Followed(Here)
  BY <1>2, <1>6 DEF Analysing, Known, Followed, OneAlive, Alive
<1>8. Loading(Here) /\ Plays(Here.screen)
  BY <1>2, <1>5, <1>6 DEF Loading, Plays, OneAlive, Alive
<1>9. onDisk \in [CutSets -> 0..1] /\ sidecar \in [CutSets -> AnyCrop]
  BY <1>2, NothingIsTyped
<1> QED
  BY <1>6, <1>7, <1>8, <1>9 DEF StageInv, StageStands

LEMMA StageKeepsOn == StageInv /\ [ResultStageNext]_stageVars => StageInv'
<1>1. ASSUME StageInv, UNCHANGED stageVars
      PROVE  StageInv'
  <2>1. StageGoes(Here) /\ DiskStays
    BY <1>1 DEF stageVars, StageGoes, Here, DiskStays
  <2> QED
    BY <1>1, <2>1, HereStands, StageGoesOn
<1> QED
  BY <1>1, AnalysisSteps, LoadSteps, RenderSteps, EditSteps, PlayerSteps DEF ResultStageNext

LEMMA OneIsCounted ==
    ASSUME NEW workers, OneAlive(workers)
    PROVE  Cardinality({w \in workers : w.live}) <= 1
<1>1. CASE ~Alive(workers)
  <2>1. {w \in workers : w.live} = {}
    BY <1>1 DEF Alive
  <2> QED
    BY <2>1, FS_EmptySet
<1>2. CASE Alive(workers)
  <2>1. PICK w \in workers : {v \in workers : v.live} = {w}
    BY <1>2 DEF Alive, OneAlive
  <2> QED
    BY <2>1, FS_Singleton
<1> QED
  BY <1>1, <1>2

LEMMA StageIsSafe == StageInv => ResultStageCorrect
<1> SUFFICES ASSUME StageInv
             PROVE  ResultStageCorrect
  OBVIOUS
<1> USE HereStands
<1>1. ResultStageTypeOK
  <2>1. OneAlive(analyses) /\ OneAlive(loads)
    BY DEF StageStands, Analysing, Loading
  <2> QED
    BY <2>1, OneIsCounted DEF ResultStageTypeOK, Askeds, Stages, Screens, Cuts, AnyCrop
<1>2. ClosedCutStaysClosed
  BY DEF ClosedCutStaysClosed, StageStands, Analysing, Known, Loading, Alive
<1>3. SettledFactsAreCurrent
  BY DEF SettledFactsAreCurrent, StageStands, Analysing, Known, Alive
<1>4. SettledFramesAreCurrent
  BY DEF SettledFramesAreCurrent, StageStands, Followed, AsAsked, Alive
<1>5. EditedFilesAreReread
  BY DEF EditedFilesAreReread, StageStands, Analysing, Alive
<1>6. PlayheadIsPlayable /\ LoopTicks
  BY DEF PlayheadIsPlayable, LoopTicks, Plays, Screens
<1> QED
  BY <1>1, <1>2, <1>3, <1>4, <1>5, <1>6 DEF ResultStageCorrect

\* However cuts are opened and closed, framed, cropped and edited by other
\* programs while their facts are computed and their frames loaded: once the
\* workers are done the facts and the frames are those of the open cut as it is
\* asked for, nothing of a closed cut comes back, edited files are read again,
\* and the player stands on a frame it may play and ticks as long as it plays
\* (ui/transform_stage.py, ui/result_player.py).
THEOREM StageShowsTheCut == ResultStageSpec => []ResultStageCorrect
<1>1. ResultStageInit => StageInv
  BY StageStarts
<1>2. StageInv /\ [ResultStageNext]_stageVars => StageInv'
  BY StageKeepsOn
<1>3. StageInv => ResultStageCorrect
  BY StageIsSafe
<1> QED
  BY <1>1, <1>2, <1>3, PTL DEF ResultStageSpec

-----------------------------------------------------------------------------
(* Timeline: the inductive invariant *)

Timelines == [length : Nat, start : Nat, end : Nat, playhead : Nat, rate : 1..Second, generation : Nat]
\* A timeline the editor can have, at a rate some of the offered ones do not exceed.
SoundTimeline(t) ==
    /\ t \in Timelines /\ Constructible(t) /\ t.playhead <= LastFrameOf(t)
    /\ \E r \in OutputRates : r <= t.rate
TimelineOfReady ==
    /\ load \in [id : 0..MaxTimelineLoads, clip : Clips \cup {"none"},
                 phase : {"empty", "loading", "ready", "error"}]
    /\ load.phase \in {"loading", "ready"} => load.id # 0 /\ load.clip \in Clips
    /\ timeline = NoTimeline \/ (load.phase = "ready" /\ SoundTimeline(timeline))

\* The shown frame is of a generation the playhead had, and of its newest only
\* where the playhead stands.
ShownFrame ==
    IF load.phase = "ready"
    THEN /\ sourceFrame.id = load.id /\ sourceFrame.generation \in 0..timeline.generation
         /\ sourceFrame.generation = timeline.generation => sourceFrame.at = timeline.playhead
    ELSE sourceFrame = NoFrame

\* So are the workers of this source, and one that was not asked to stop works on the newest.
WorkerOf(w, l, t) ==
    /\ w \in [id : 1..l.id, generation : Nat, at : Nat, cancelled : BOOLEAN, posted : BOOLEAN]
    /\ w.id = l.id =>
          /\ l.phase = "ready" /\ w.generation <= t.generation
          /\ w.generation = t.generation => w.at = t.playhead
    /\ ~w.cancelled => w.id = l.id /\ w.generation = t.generation

\* A frame that is not the newest is waited for, or could not be decoded.
FrameIsOnItsWay ==
    load.phase = "ready" =>
        \/ sourceFrame.generation = timeline.generation
        \/ frameTimer
        \/ \E w \in decoders : ~w.cancelled
        \/ missed = [id |-> load.id, generation |-> timeline.generation]

RatesInv ==
    /\ rate \in 1..MaxRate /\ \E r \in OutputRates : r <= rate
    /\ RatesAgree

TimelineInv ==
    /\ TimelineOfReady /\ ShownFrame /\ FrameIsOnItsWay /\ RatesInv
    /\ \A w \in decoders : WorkerOf(w, load, timeline)
    /\ {frameTimer, jobRuns} \subseteq BOOLEAN

-----------------------------------------------------------------------------
(* Timeline: numbers *)

\* What a quotient is, of numbers.
LEMMA Quotients ==
    ASSUME NEW a \in Nat, NEW b \in Nat \ {0}
    PROVE  a \div b \in Nat /\ b * (a \div b) <= a /\ a < b * (a \div b) + b
  OBVIOUS

LEMMA LessByFactor ==
    ASSUME NEW a \in Nat, NEW b \in Nat, NEW c \in Nat, c * a < c * b
    PROVE  a < b
  OBVIOUS

LEMMA ProductsGrow ==
    ASSUME NEW a \in Nat, NEW b \in Nat, NEW c \in Nat, a <= b
    PROVE  a * c <= b * c
  OBVIOUS

\* TimelineState takes no rate above Second.
LEMMA RatesAreBounded ==
    /\ Second \in Nat \ {0} /\ MaxRate \in 1..Second
    /\ \A r \in 1..MaxRate : r \in 1..Second
    /\ \A r \in OutputRates : r \in 1..MaxRate /\ r \in 1..Second
<1>1. Second \in Nat \ {0} /\ MaxRate \in 1..Second /\ OutputRates \subseteq 1..MaxRate
  BY TimelineAssumption
<1> QED
  BY <1>1

\* A rate has an interval, and a higher one none that is longer.
LEMMA Intervals ==
    ASSUME NEW r \in 1..Second
    PROVE  Interval(r) \in Nat \ {0} /\ r * Interval(r) <= Second /\ Second < r * Interval(r) + r
<1>1. Second \in Nat /\ r \in Nat \ {0}
  BY TimelineAssumption
<1>2. Interval(r) \in Nat /\ r * Interval(r) <= Second /\ Second < r * Interval(r) + r
  BY <1>1, Quotients DEF Interval
<1>3. Interval(r) # 0
  BY <1>1, <1>2
<1> QED
  BY <1>2, <1>3

LEMMA HigherRatesAreDenser ==
    ASSUME NEW r \in 1..Second, NEW s \in 1..Second, r <= s
    PROVE  Interval(s) <= Interval(r)
<1>1. Second \in Nat /\ r \in Nat /\ s \in Nat
  BY TimelineAssumption
<1>2. Interval(r) \in Nat /\ Interval(s) \in Nat /\ s * Interval(s) <= Second /\ Second < r * Interval(r) + r
  BY Intervals
<1> DEFINE a == Interval(s)
           b == Interval(r)
<1> HIDE DEF a, b
<1>3. a \in Nat /\ b \in Nat /\ s * a <= Second /\ Second < r * b + r
  BY <1>2 DEF a, b
<1>4. r * a <= s * a
  BY <1>1, <1>3, ProductsGrow
<1>5. r * a < r * (b + 1)
  <2>1. r * (b + 1) = r * b + r
    BY <1>1, <1>3
  <2>2. r * a \in Nat /\ s * a \in Nat /\ r * b \in Nat
    BY <1>1, <1>3
  <2> QED
    BY <1>1, <1>3, <1>4, <2>1, <2>2
<1>6. a < b + 1
  BY <1>1, <1>3, <1>5, LessByFactor
<1> QED
  BY <1>3, <1>6 DEF a, b

\* Clamped stays between its bounds.
LEMMA ClampedLies ==
    ASSUME NEW v \in Int, NEW low \in Int, NEW high \in Int, low <= high
    PROVE  Clamped(v, low, high) \in low..high
<1>1. Max({v, low}) \in Int /\ Max({v, low}) >= low /\ Max({v, low}) \in {v, low}
  <2>1. CASE v >= low
    BY <2>1 DEF Max
  <2>2. CASE v < low
    BY <2>2 DEF Max
  <2> QED
    BY <2>1, <2>2
<1> DEFINE m == Max({v, low})
<1> HIDE DEF m
<1>2. m \in Int /\ m >= low
  BY <1>1 DEF m
<1>3. Min({m, high}) \in low..high
  <2>1. CASE m <= high
    BY <2>1, <1>2 DEF Min
  <2>2. CASE m > high
    BY <2>2, <1>2 DEF Min
  <2> QED
    BY <2>1, <2>2, <1>2
<1> QED
  BY <1>3 DEF m, Clamped

LEMMA LastFrames ==
    ASSUME NEW t, t.length \in Nat, t.length > 0
    PROVE  LastFrameOf(t) \in 0..t.length
<1> DEFINE x == t.length
           y == x - SourceFrame
<1>1. x \in Nat /\ y \in Int /\ y < x
  BY TimelineAssumption
<1> HIDE DEF x, y
<1>2. Max({0, y}) \in 0..x
  <2>1. CASE y >= 0
    BY <1>1, <2>1 DEF Max
  <2>2. CASE y < 0
    BY <1>1, <2>2 DEF Max
  <2> QED
    BY <1>1, <2>1, <2>2
<1> QED
  BY <1>2 DEF x, y, LastFrameOf

\* A clip too short for the rate has a raised one, at which it has a frame.
LEMMA RaisedExists ==
    ASSUME NEW length \in Nat \ {0}
    PROVE  \E r \in 1..Second : r * length >= Second /\ (r - 1) * length < Second
<1> DEFINE enough == {n \in Nat : n * length >= Second}
<1>1. Second \in Nat \ {0} /\ Second \in enough /\ enough \subseteq Nat
  <2>1. Second \in Nat \ {0}
    BY TimelineAssumption
  <2>2. Second * length >= Second
    BY <2>1
  <2> QED
    BY <2>1, <2>2
<1>2. PICK n \in enough : \A m \in enough : n <= m
  <2> HIDE DEF enough
  <2> QED
    BY <1>1, LeastExists
<1>3. n \in Nat /\ n * length >= Second /\ n <= Second
  BY <1>1, <1>2
<1>4. n # 0
  BY <1>1, <1>3
<1>5. n - 1 \in Nat /\ ~(n - 1 \in enough)
  <2>1. n - 1 \in Nat /\ ~(n <= n - 1)
    BY <1>3, <1>4
  <2> HIDE DEF enough
  <2> QED
    BY <1>2, <2>1
<1>6. ~((n - 1) * length >= Second)
  BY <1>5
<1>7. (n - 1) * length \in Nat
  BY <1>5
<1>8. n \in 1..Second /\ (n - 1) * length < Second
  BY <1>1, <1>3, <1>4, <1>6, <1>7
<1> HIDE DEF enough
<1> QED
  BY <1>3, <1>8

\* timeline_from_metadata: the timeline of a clip is sound, and at the rate that
\* was asked for where the clip has a frame of it.
LEMMA LoadedIsSound ==
    ASSUME NEW clip \in Clips, NEW requested \in 1..MaxRate, NEW r \in OutputRates, r <= requested,
           TimelineOf(clip, requested) # NoTimeline
    PROVE  LET t == TimelineOf(clip, requested)
           IN  /\ SoundTimeline(t) /\ t.playhead = 0 /\ t.generation = 0
               /\ t.length >= Interval(r) => t.rate = requested
<1> DEFINE length == ClipLength[clip]
           raised == CHOOSE n \in 1..Second : n * length >= Second /\ (n - 1) * length < Second
           t == TimelineOf(clip, requested)
<1>1. length \in Nat \ {0} /\ Second \in Nat \ {0} /\ r \in 1..Second /\ requested \in 1..Second
  BY TimelineAssumption, RatesAreBounded
<1>2. raised \in 1..Second /\ raised * length >= Second
  <2> HIDE DEF length
  <2>1. \E n \in 1..Second : n * length >= Second /\ (n - 1) * length < Second
    BY <1>1, RaisedExists
  <2> QED
    BY <2>1
<1>3. /\ t.length = length /\ t.start = 0 /\ t.end = length /\ t.playhead = 0 /\ t.generation = 0
      /\ t.rate = IF length < Interval(requested) THEN raised ELSE requested
      /\ t = [length |-> length, start |-> 0, end |-> length, playhead |-> 0, generation |-> 0, rate |-> t.rate]
      /\ ~(length < Interval(requested) /\ raised > MaxRate)
  BY DEF TimelineOf
<1> HIDE DEF length, raised, t
<1>4. t.rate \in 1..Second /\ t.rate \in 1..MaxRate /\ Interval(t.rate) <= length /\ requested <= t.rate
  <2>1. CASE length < Interval(requested)
    <3>1. t.rate = raised
      BY <1>3, <2>1
    <3>2. raised \in 1..MaxRate
      BY <1>2, <1>3, <2>1, RatesAreBounded
    <3>3. Interval(raised) \in Nat /\ raised * Interval(raised) <= Second
      BY <1>2, Intervals
    <3>4. Interval(requested) \in Nat /\ requested * Interval(requested) <= Second
      BY <1>1, Intervals
    <3> DEFINE q == Interval(raised)
               p == Interval(requested)
    <3> HIDE DEF p, q
    <3>5. q \in Nat /\ p \in Nat /\ raised * q <= Second /\ requested * p <= Second /\ length + 1 <= p
      BY <2>1, <3>3, <3>4, <1>1 DEF p, q
    <3>6. q <= length
      <4>1. SUFFICES ASSUME length + 1 <= q
                     PROVE  FALSE
        BY <1>1, <3>5
      <4>2. (length + 1) * raised <= q * raised
        BY <4>1, <1>1, <1>2, <3>5, ProductsGrow
      <4>3. (length + 1) * raised = raised * length + raised /\ q * raised = raised * q
        BY <1>1, <1>2, <3>5
      <4>4. raised * length \in Nat /\ raised * q \in Nat
        BY <1>1, <1>2, <3>5
      <4> QED
        BY <4>2, <4>3, <4>4, <1>1, <1>2, <3>5
    <3>7. requested <= raised
      <4>1. SUFFICES ASSUME raised <= requested
                     PROVE  FALSE
        BY <1>2
      <4>2. raised * p <= requested * p
        BY <4>1, <1>2, <3>5, ProductsGrow
      <4>3. (length + 1) * raised <= p * raised
        BY <1>1, <1>2, <3>5, ProductsGrow
      <4>4. (length + 1) * raised = raised * length + raised /\ p * raised = raised * p
        BY <1>1, <1>2, <3>5
      <4>5. raised * length \in Nat /\ raised * p \in Nat /\ requested * p \in Nat
        BY <1>1, <1>2, <3>5
      <4> QED
        BY <4>2, <4>3, <4>4, <4>5, <1>1, <1>2, <3>5
    <3> QED
      BY <3>1, <3>6, <3>7, <3>2, <1>2 DEF q
  <2>2. CASE ~(length < Interval(requested))
    <3>1. Interval(requested) \in Nat
      BY <1>1, Intervals
    <3> QED
      BY <1>1, <1>3, <2>2, <3>1, RatesAreBounded
  <2> QED
    BY <2>1, <2>2
<1>5. t \in Timelines
  BY <1>1, <1>3, <1>4 DEF Timelines
<1>6. Constructible(t)
  <2>1. Interval(t.rate) \in Nat
    BY <1>4, Intervals
  <2> QED
    BY <1>1, <1>3, <1>4, <2>1 DEF Constructible
<1>7. t.playhead <= LastFrameOf(t)
  BY <1>1, <1>3, LastFrames
<1>8. r <= t.rate
  BY <1>1, <1>4
<1>9. ASSUME t.length >= Interval(r)
      PROVE  t.rate = requested
  <2>1. Interval(requested) <= Interval(r) /\ Interval(requested) \in Nat /\ Interval(r) \in Nat
    BY <1>1, HigherRatesAreDenser, Intervals
  <2> QED
    BY <1>1, <1>3, <1>9, <2>1
<1> QED
  BY <1>3, <1>5, <1>6, <1>7, <1>8, <1>9 DEF SoundTimeline, t

-----------------------------------------------------------------------------
(* Timeline: edits *)

AnyEvents == [kind : {"playhead", "start", "end", "length", "step", "start_here", "end_here", "reset"}, at : Int]

LEMMA StampsAreTimes == Stamps \subseteq Nat /\ EditorEvents \subseteq AnyEvents
<1>1. Stamps \subseteq Nat
  BY TimelineAssumption DEF Stamps
<1>2. {-1, 1} \subseteq Int /\ {0} \subseteq Int
  OBVIOUS
<1>3. [kind : {"playhead", "start", "end", "length"}, at : Stamps] \subseteq AnyEvents
  <2>1. Stamps \subseteq Int
    BY <1>1
  <2> QED
    BY <2>1 DEF AnyEvents
<1>4. [kind : {"step"}, at : {-1, 1}] \subseteq AnyEvents
  BY <1>2 DEF AnyEvents
<1>5. [kind : {"start_here", "end_here", "reset"}, at : {0}] \subseteq AnyEvents
  BY <1>2 DEF AnyEvents
<1> QED
  BY <1>1, <1>3, <1>4, <1>5 DEF EditorEvents

LEMMA PointersSendEvents ==
    ASSUME NEW target, NEW at \in Stamps
    PROVE  PointerEvent(target, at) \in AnyEvents
<1>1. at \in Int
  BY StampsAreTimes
<1> QED
  BY <1>1 DEF PointerEvent, AnyEvents

\* Only the playhead's own events move it, and they begin a generation.
Generations(t, u, e) ==
    IF e.kind \in {"playhead", "step"} THEN u.generation = t.generation + 1
    ELSE u.generation = t.generation /\ u.playhead = t.playhead
KeepsLength(t, u) == u.length = t.length /\ u.rate = t.rate

LEMMA MovesPlayheadOnly ==
    ASSUME NEW t, SoundTimeline(t), NEW at \in Int
    PROVE  LET u == MovePlayhead(t, at)
           IN  SoundTimeline(u) /\ KeepsLength(t, u) /\ u.generation = t.generation + 1
<1> DEFINE u == MovePlayhead(t, at)
           head == Clamped(at, 0, LastFrameOf(t))
<1>1. t \in Timelines /\ Constructible(t) /\ \E r \in OutputRates : r <= t.rate
  BY DEF SoundTimeline
<1>2. t.length \in Nat /\ t.length > 0
  BY <1>1 DEF Timelines, Constructible
<1>3. LastFrameOf(t) \in 0..t.length
  BY <1>2, LastFrames
<1>4. head \in 0..LastFrameOf(t)
  <2>1. 0 \in Int /\ LastFrameOf(t) \in Int /\ 0 <= LastFrameOf(t)
    BY <1>2, <1>3
  <2> QED
    BY <2>1, ClampedLies
<1>5. u = [t EXCEPT !.playhead = head, !.generation = @ + 1]
  BY DEF MovePlayhead
<1> HIDE DEF head, u
<1>6. /\ u.playhead = head /\ u.generation = t.generation + 1
      /\ u.length = t.length /\ u.start = t.start /\ u.end = t.end /\ u.rate = t.rate
      /\ u = [length |-> t.length, start |-> t.start, end |-> t.end, playhead |-> head, rate |-> t.rate,
              generation |-> t.generation + 1]
  BY <1>1, <1>5 DEF Timelines
<1>7. u \in Timelines /\ head \in Nat /\ head <= t.length
  BY <1>1, <1>2, <1>3, <1>4, <1>6 DEF Timelines
<1>8. Constructible(u)
  BY <1>1, <1>6, <1>7 DEF Constructible
<1>9. u.playhead <= LastFrameOf(u)
  BY <1>3, <1>4, <1>6 DEF LastFrameOf
<1> QED
  BY <1>1, <1>6, <1>7, <1>8, <1>9 DEF SoundTimeline, KeepsLength, u

RangeOf(t, start, end) == [t EXCEPT !.start = start, !.end = end]
KeepsPlayhead(t, u) ==
    SoundTimeline(u) /\ KeepsLength(t, u) /\ u.generation = t.generation /\ u.playhead = t.playhead

\* A range with the same playhead and rate, within the clip, is sound as long as
\* an output frame fits.
LEMMA OtherRangeIsSound ==
    ASSUME NEW t, SoundTimeline(t), NEW start \in Nat, NEW end \in Nat,
           end <= t.length, end - start >= Interval(t.rate)
    PROVE  KeepsPlayhead(t, RangeOf(t, start, end))
<1> DEFINE u == RangeOf(t, start, end)
<1>1. t \in Timelines /\ Constructible(t) /\ t.playhead <= LastFrameOf(t) /\ \E r \in OutputRates : r <= t.rate
  BY DEF SoundTimeline
<1>2. /\ u.length = t.length /\ u.start = start /\ u.end = end /\ u.rate = t.rate
      /\ u.generation = t.generation /\ u.playhead = t.playhead /\ u \in Timelines
  BY <1>1 DEF Timelines, RangeOf
<1> HIDE DEF u
<1>3. Interval(t.rate) \in Nat \ {0}
  BY <1>1, Intervals DEF Timelines
<1>4. Constructible(u)
  BY <1>1, <1>2, <1>3 DEF Constructible, Timelines
<1>5. LastFrameOf(u) = LastFrameOf(t)
  BY <1>2 DEF LastFrameOf
<1> QED
  BY <1>1, <1>2, <1>4, <1>5 DEF SoundTimeline, KeepsLength, KeepsPlayhead, u

\* SetStart and SetEnd leave room for an output frame.
LEMMA BoundsLeaveAFrame ==
    ASSUME NEW t, SoundTimeline(t), NEW at \in Int
    PROVE  KeepsPlayhead(t, SetStart(t, at)) /\ KeepsPlayhead(t, SetEnd(t, at))
<1>1. t \in Timelines /\ Constructible(t) /\ Interval(t.rate) \in Nat \ {0}
  BY Intervals DEF SoundTimeline, Timelines
<1> DEFINE i == Interval(t.rate)
           from == Clamped(at, 0, t.end - i)
           to == Clamped(at, t.start + i, t.length)
<1> HIDE DEF i
<1>2. /\ i \in Nat \ {0} /\ t.start \in Nat /\ t.end \in Nat /\ t.length \in Nat
      /\ t.end <= t.length /\ t.end - t.start >= i
  BY <1>1 DEF i, Constructible, Timelines
<1>3. from \in 0..(t.end - i) /\ to \in (t.start + i)..t.length
  <2>1. 0 \in Int /\ t.end - i \in Int /\ 0 <= t.end - i
    BY <1>2
  <2>2. t.start + i \in Int /\ t.start + i <= t.length /\ t.length \in Int
    BY <1>2
  <2> QED
    BY <2>1, <2>2, ClampedLies
<1> HIDE DEF from, to
<1>4. /\ from \in Nat /\ t.end - from >= Interval(t.rate)
      /\ to \in Nat /\ to <= t.length /\ to - t.start >= Interval(t.rate)
  BY <1>2, <1>3 DEF i
<1>5. SetStart(t, at) = RangeOf(t, from, t.end)
  BY <1>1 DEF SetStart, from, i, Timelines, RangeOf
<1>6. SetEnd(t, at) = RangeOf(t, t.start, to)
  BY <1>1 DEF SetEnd, to, i, Timelines, RangeOf
<1>7. KeepsPlayhead(t, RangeOf(t, from, t.end))
  BY <1>2, <1>4, OtherRangeIsSound
<1>8. KeepsPlayhead(t, RangeOf(t, t.start, to))
  BY <1>2, <1>4, OtherRangeIsSound
<1> QED
  BY <1>5, <1>6, <1>7, <1>8

LEMMA EditsKeepItSound ==
    ASSUME NEW t, SoundTimeline(t), NEW e \in AnyEvents
    PROVE  LET u == UpdateTimeline(t, e) IN SoundTimeline(u) /\ KeepsLength(t, u) /\ Generations(t, u, e)
<1> DEFINE u == UpdateTimeline(t, e)
<1>1. e.at \in Int /\ t \in Timelines
  BY DEF AnyEvents, SoundTimeline
<1>2. CASE e.kind = "playhead"
  <2>1. u = MovePlayhead(t, e.at)
    BY <1>2 DEF UpdateTimeline
  <2> QED
    BY <1>1, <1>2, <2>1, MovesPlayheadOnly DEF Generations
<1>3. CASE e.kind = "step"
  <2>1. t.playhead + e.at * SourceFrame \in Int
    BY <1>1, TimelineAssumption DEF Timelines
  <2>2. u = MovePlayhead(t, t.playhead + e.at * SourceFrame)
    BY <1>3 DEF UpdateTimeline
  <2> QED
    BY <1>3, <2>1, <2>2, MovesPlayheadOnly DEF Generations
<1>4. CASE e.kind \in {"start", "start_here"}
  <2>1. PICK at \in Int : u = SetStart(t, at)
    BY <1>1, <1>4 DEF UpdateTimeline, Timelines
  <2> QED
    BY <1>4, <2>1, BoundsLeaveAFrame DEF Generations, KeepsPlayhead
<1>5. CASE e.kind \in {"end", "end_here"}
  <2>1. PICK at \in Int : u = SetEnd(t, at)
    BY <1>1, <1>5 DEF UpdateTimeline, Timelines
  <2> QED
    BY <1>5, <2>1, BoundsLeaveAFrame DEF Generations, KeepsPlayhead
<1>6. CASE e.kind = "length"
  <2> DEFINE end == Min({t.length, t.start + e.at})
             fits == e.at > 0 /\ end - t.start >= Interval(t.rate)
  <2>1. u = IF fits THEN [t EXCEPT !.end = end] ELSE t
    BY <1>6 DEF UpdateTimeline
  <2>2. CASE ~fits
    BY <1>6, <2>1, <2>2 DEF KeepsLength, Generations
  <2>3. CASE fits
    <3>1. t.length \in Nat /\ t.start \in Nat /\ t.start + e.at \in Nat
      BY <1>1, <2>3 DEF Timelines
    <3>2. end \in Nat /\ end <= t.length
      <4>1. CASE t.length <= t.start + e.at
        BY <3>1, <4>1 DEF Min
      <4>2. CASE t.length > t.start + e.at
        BY <3>1, <4>2 DEF Min
      <4> QED
        BY <3>1, <4>1, <4>2
    <3> HIDE DEF end
    <3>3. u = RangeOf(t, t.start, end)
      BY <2>1, <2>3, <1>1 DEF Timelines, RangeOf
    <3>4. KeepsPlayhead(t, RangeOf(t, t.start, end))
      BY <2>3, <3>1, <3>2, OtherRangeIsSound
    <3> QED
      BY <1>6, <3>3, <3>4 DEF Generations, KeepsPlayhead
  <2> QED
    BY <2>2, <2>3
<1>7. CASE e.kind = "reset"
  <2>1. u = RangeOf(t, 0, t.length)
    BY <1>7 DEF UpdateTimeline, RangeOf
  <2>2. t.length \in Nat /\ t.length - 0 >= Interval(t.rate) /\ t.length <= t.length
    <3>1. Interval(t.rate) \in Nat
      BY <1>1, Intervals DEF Timelines
    <3> QED
      BY <1>1, <3>1 DEF SoundTimeline, Constructible, Timelines
  <2>3. KeepsPlayhead(t, RangeOf(t, 0, t.length))
    BY <2>2, OtherRangeIsSound
  <2> QED
    BY <1>7, <2>1, <2>3 DEF Generations, KeepsPlayhead
<1> QED
  BY <1>2, <1>3, <1>4, <1>5, <1>6, <1>7 DEF AnyEvents

-----------------------------------------------------------------------------
(* Timeline: the steps *)

\* The playhead of u is that of t, or of a later generation.
Follows(t, u) ==
    u.generation > t.generation \/ (u.generation = t.generation /\ u.playhead = t.playhead)
SameWorker(v, w) == /\ v.id = w.id /\ v.generation = w.generation /\ v.at = w.at
                    /\ v \in [id : Nat, generation : Nat, at : Nat, cancelled : BOOLEAN, posted : BOOLEAN]

\* A worker that is stopped, or goes on with the same timeline, is still one.
LEMMA StoppedWorkers ==
    ASSUME NEW l, l.id \in Nat, NEW w, NEW t, t.generation \in Nat, WorkerOf(w, l, t),
           NEW u, u.generation \in Nat, Follows(t, u), NEW v, SameWorker(v, w), v.cancelled
    PROVE  WorkerOf(v, l, u)
  BY DEF WorkerOf, Follows, SameWorker

LEMMA CancelsWorkers ==
    ASSUME NEW l, l.id \in Nat, NEW t, t.generation \in Nat, \A w \in decoders : WorkerOf(w, l, t),
           NEW u, u.generation \in Nat, Follows(t, u)
    PROVE  \A v \in CancelFrameThreads : WorkerOf(v, l, u)
<1>1. SUFFICES ASSUME NEW w \in decoders
               PROVE  WorkerOf([w EXCEPT !.cancelled = TRUE], l, u)
  BY DEF CancelFrameThreads
<1>2. WorkerOf(w, l, t)
  OBVIOUS
<1>3. w \in [id : Nat, generation : Nat, at : Nat, cancelled : BOOLEAN, posted : BOOLEAN]
  BY <1>2 DEF WorkerOf
<1>4. SameWorker([w EXCEPT !.cancelled = TRUE], w) /\ [w EXCEPT !.cancelled = TRUE].cancelled
  BY <1>3 DEF SameWorker
<1> QED
  BY <1>2, <1>4, StoppedWorkers

LEMMA NewWorker ==
    ASSUME TimelineOfReady, load.phase = "ready", NEW t \in Timelines
    PROVE  WorkerOf(Decoder(t), load, t) /\ ~Decoder(t).cancelled
  BY DEF WorkerOf, Decoder, TimelineOfReady, Timelines

\* Decoding the playhead leaves one worker that was not asked to stop.
LEMMA Decodes ==
    ASSUME TimelineInv, load.phase = "ready", timeline # NoTimeline, NEW u \in Timelines, Follows(timeline, u)
    PROVE  /\ \A w \in DecodeCurrentPlayhead(u) : WorkerOf(w, load, u)
           /\ u # NoTimeline => \E w \in DecodeCurrentPlayhead(u) : ~w.cancelled
<1>1. timeline \in Timelines /\ load.id \in Nat
  BY DEF TimelineInv, TimelineOfReady, SoundTimeline
<1>2. \A w \in decoders : WorkerOf(w, load, timeline)
  BY DEF TimelineInv
<1>3. \A v \in CancelFrameThreads : WorkerOf(v, load, u)
  BY <1>1, <1>2, CancelsWorkers DEF Timelines
<1>4. u # NoTimeline
  BY DEF Timelines, NoTimeline, TimelineAssumption
<1>5. DecodeCurrentPlayhead(u) = CancelFrameThreads \cup {Decoder(u)}
  BY <1>4 DEF DecodeCurrentPlayhead
<1> QED
  BY <1>3, <1>5, NewWorker DEF TimelineInv

\* A ready source keeps its timeline's length; the rates agree as they did.
LEMMA RatesGoOn ==
    ASSUME RatesInv, timeline # NoTimeline, KeepsLength(timeline, timeline'), rate' = rate
    PROVE  RatesInv'
  BY DEF RatesInv, RatesAgree, KeepsLength

LEMMA EditStep ==
    ASSUME TimelineInv, NEW e \in AnyEvents, EditTimeline(e)
    PROVE  TimelineInv' /\ UNCHANGED sourceFrame
<1>1. load.phase = "ready" /\ SoundTimeline(timeline) /\ timeline # NoTimeline
  BY DEF EditTimeline, TimelineInv, TimelineOfReady
<1>2. /\ timeline' = UpdateTimeline(timeline, e)
      /\ UNCHANGED <<load, rate, sourceFrame, missed, jobRuns>>
      /\ e.kind = "step" => frameTimer' = FALSE /\ decoders' = DecodeCurrentPlayhead(timeline')
      /\ e.kind = "playhead" => frameTimer' = TRUE /\ decoders' = CancelFrameThreads
      /\ e.kind \notin {"step", "playhead"} => UNCHANGED <<frameTimer, decoders>>
  BY DEF EditTimeline
<1>3. SoundTimeline(timeline') /\ KeepsLength(timeline, timeline') /\ Generations(timeline, timeline', e)
  BY <1>1, <1>2, EditsKeepItSound
<1>4. timeline \in Timelines /\ timeline' \in Timelines /\ Follows(timeline, timeline')
  <2>1. timeline \in Timelines /\ timeline' \in Timelines
    BY <1>1, <1>3 DEF SoundTimeline
  <2>2. timeline.generation \in Nat
    BY <2>1 DEF Timelines
  <2>3. CASE e.kind \in {"playhead", "step"}
    BY <1>3, <2>1, <2>2, <2>3 DEF Follows, Generations
  <2>4. CASE e.kind \notin {"playhead", "step"}
    BY <1>3, <2>1, <2>4 DEF Follows, Generations
  <2> QED
    BY <2>3, <2>4
<1>5. TimelineOfReady'
  BY <1>1, <1>2, <1>3 DEF TimelineInv, TimelineOfReady
<1>6. ShownFrame'
  BY <1>1, <1>2, <1>3, <1>4 DEF TimelineInv, ShownFrame, Generations, Timelines
<1>7. RatesInv'
  BY <1>1, <1>2, <1>3, RatesGoOn DEF TimelineInv
<1>8. CASE e.kind = "step"
  <2>1. timeline' # NoTimeline
    BY <1>4 DEF Timelines, NoTimeline
  <2>2. /\ \A w \in decoders' : WorkerOf(w, load, timeline')
        /\ \E w \in decoders' : ~w.cancelled
    BY <1>1, <1>2, <1>4, <1>8, <2>1, Decodes
  <2> QED
    BY <1>2, <1>5, <1>6, <1>7, <1>8, <2>2 DEF TimelineInv, FrameIsOnItsWay
<1>9. CASE e.kind = "playhead"
  <2>1. \A w \in decoders' : WorkerOf(w, load, timeline')
    BY <1>2, <1>4, <1>9, CancelsWorkers DEF TimelineInv, TimelineOfReady, Timelines
  <2> QED
    BY <1>2, <1>5, <1>6, <1>7, <1>9, <2>1 DEF TimelineInv, FrameIsOnItsWay
<1>10. CASE e.kind \notin {"step", "playhead"}
  <2>1. timeline'.generation = timeline.generation /\ timeline'.playhead = timeline.playhead
    BY <1>3, <1>10 DEF Generations
  <2>2. \A w \in decoders' : WorkerOf(w, load, timeline')
    BY <1>2, <1>10, <2>1 DEF TimelineInv, WorkerOf
  <2>3. FrameIsOnItsWay'
    BY <1>2, <1>10, <2>1 DEF TimelineInv, FrameIsOnItsWay
  <2> QED
    BY <1>2, <1>5, <1>6, <1>7, <1>10, <2>2, <2>3 DEF TimelineInv
<1> QED
  BY <1>2, <1>8, <1>9, <1>10

\* ChangeRate and ResetRate leave both rates the same, where the range has a frame.
LEMMA RateStep ==
    ASSUME TimelineInv, (\E r \in OutputRates : ChangeRate(r)) \/ ResetRate
    PROVE  TimelineInv' /\ UNCHANGED sourceFrame
<1>1. timeline # NoTimeline => load.phase = "ready" /\ SoundTimeline(timeline) /\ timeline \in Timelines
  BY DEF TimelineInv, TimelineOfReady, SoundTimeline
<1>2. UNCHANGED <<load, sourceFrame, frameTimer, decoders, missed, jobRuns>>
  BY DEF ChangeRate, ResetRate
<1>3. PICK r \in 1..MaxRate :
          /\ timeline' = AtRate(r)
          /\ timeline # NoTimeline => timeline.end - timeline.start >= Interval(r)
          /\ \E s \in OutputRates : s <= r
          /\ rate' = r
  <2>1. CASE \E r \in OutputRates : ChangeRate(r)
    <3>1. PICK r \in OutputRates : ChangeRate(r)
      BY <2>1
    <3>2. r \in 1..MaxRate /\ r <= r
      BY RatesAreBounded
    <3> QED
      BY <3>1, <3>2 DEF ChangeRate, TakesRate
  <2>2. CASE ResetRate
    <3>1. DefaultRate \in OutputRates /\ DefaultRate \in 1..MaxRate /\ DefaultRate <= DefaultRate
      BY TimelineAssumption, RatesAreBounded
    <3>2. CASE TakesRate(DefaultRate)
      BY <2>2, <3>1, <3>2 DEF ResetRate, TakesRate
    <3>3. CASE ~TakesRate(DefaultRate)
      <4>1. timeline # NoTimeline /\ SoundTimeline(timeline) /\ timeline \in Timelines
        BY <1>1, <3>3 DEF TakesRate
      <4>2. AtRate(timeline.rate) = timeline /\ timeline' = timeline /\ rate' = timeline.rate
        <5>1. [timeline EXCEPT !.rate = timeline.rate] = timeline
          BY <4>1 DEF Timelines
        <5> QED
          BY <2>2, <3>3, <4>1, <5>1 DEF AtRate, ResetRate
      <4> QED
        BY <4>1, <4>2 DEF SoundTimeline, Constructible
    <3> QED
      BY <3>2, <3>3
  <2> QED
    BY <2>1, <2>2
<1>4. rate' = r
  BY <1>3
<1>5. CASE timeline = NoTimeline
  <2>1. timeline' = NoTimeline
    BY <1>3, <1>5 DEF AtRate
  <2>2. TimelineOfReady' /\ ShownFrame' /\ FrameIsOnItsWay' /\ RatesInv'
    BY <1>2, <1>3, <1>5, <2>1 DEF TimelineInv, TimelineOfReady, ShownFrame, FrameIsOnItsWay, RatesInv, RatesAgree
  <2>3. \A w \in decoders' : WorkerOf(w, load', timeline')
    BY <1>2, <1>5, <2>1 DEF TimelineInv
  <2> QED
    BY <1>2, <2>2, <2>3 DEF TimelineInv
<1>6. CASE timeline # NoTimeline
  <2>1. timeline' = [timeline EXCEPT !.rate = r]
    BY <1>3, <1>6 DEF AtRate
  <2>2. /\ timeline' \in Timelines /\ timeline'.rate = r
        /\ timeline'.length = timeline.length /\ timeline'.start = timeline.start /\ timeline'.end = timeline.end
        /\ timeline'.playhead = timeline.playhead /\ timeline'.generation = timeline.generation
    BY <1>1, <1>6, <2>1, RatesAreBounded DEF Timelines
  <2>3. SoundTimeline(timeline')
    BY <1>1, <1>3, <1>6, <2>2 DEF SoundTimeline, Constructible, LastFrameOf
  <2>4. TimelineOfReady'
    BY <1>1, <1>2, <1>6, <2>3 DEF TimelineInv, TimelineOfReady
  <2>5. RatesInv'
    BY <1>3, <1>4, <2>2 DEF RatesInv, RatesAgree
  <2>6. ShownFrame' /\ FrameIsOnItsWay'
    BY <1>2, <2>2 DEF TimelineInv, ShownFrame, FrameIsOnItsWay
  <2>7. \A w \in decoders' : WorkerOf(w, load', timeline')
    BY <1>2, <2>2 DEF TimelineInv, WorkerOf
  <2> QED
    BY <1>2, <2>4, <2>5, <2>6, <2>7 DEF TimelineInv
<1> QED
  BY <1>2, <1>5, <1>6

LEMMA LoadStep ==
    ASSUME TimelineInv, NEW clip \in Clips, StartSourceLoad(clip)
    PROVE  TimelineInv' /\ sourceFrame' = NoFrame
<1>1. /\ load.id < MaxTimelineLoads
      /\ frameTimer' = FALSE /\ decoders' = CancelFrameThreads
      /\ load' = [id |-> load.id + 1, clip |-> clip, phase |-> "loading"]
      /\ timeline' = NoTimeline /\ sourceFrame' = NoFrame
      /\ UNCHANGED <<rate, missed, jobRuns>>
  BY DEF StartSourceLoad
<1>2. load.id \in 0..MaxTimelineLoads /\ MaxTimelineLoads \in Nat
  BY TimelineAssumption DEF TimelineInv, TimelineOfReady
<1>3. TimelineOfReady' /\ ShownFrame' /\ FrameIsOnItsWay'
  BY <1>1, <1>2 DEF TimelineOfReady, ShownFrame, FrameIsOnItsWay
<1>4. RatesInv'
  BY <1>1 DEF TimelineInv, RatesInv, RatesAgree
<1>5. \A v \in decoders' : WorkerOf(v, load', timeline')
  <2>1. SUFFICES ASSUME NEW w \in decoders
                 PROVE  WorkerOf([w EXCEPT !.cancelled = TRUE], load', timeline')
    BY <1>1 DEF CancelFrameThreads
  <2>2. w \in [id : 1..load.id, generation : Nat, at : Nat, cancelled : BOOLEAN, posted : BOOLEAN]
    BY DEF TimelineInv, WorkerOf
  <2>3. load'.id = load.id + 1 /\ w.id \in 1..load'.id /\ w.id # load'.id
    BY <1>1, <1>2, <2>2
  <2>4. /\ [w EXCEPT !.cancelled = TRUE] \in
              [id : 1..load'.id, generation : Nat, at : Nat, cancelled : BOOLEAN, posted : BOOLEAN]
        /\ [w EXCEPT !.cancelled = TRUE].id # load'.id /\ [w EXCEPT !.cancelled = TRUE].cancelled
    BY <2>2, <2>3
  <2> QED
    BY <2>4 DEF WorkerOf
<1> QED
  BY <1>1, <1>3, <1>4, <1>5 DEF TimelineInv

LEMMA AnswerStep ==
    ASSUME TimelineInv, SourceAnswers
    PROVE  TimelineInv' /\ sourceFrame'.generation = 0 /\ sourceFrame.generation = 0
<1>1. /\ load.phase = "loading"
      /\ UNCHANGED <<rate, frameTimer, decoders, missed, jobRuns>>
  BY DEF SourceAnswers
<1>2. /\ load.id \in 1..MaxTimelineLoads /\ load.clip \in Clips
      /\ load = [id |-> load.id, clip |-> load.clip, phase |-> "loading"]
      /\ sourceFrame = NoFrame /\ timeline = NoTimeline
      /\ rate \in 1..MaxRate
      /\ load \in [id : 0..MaxTimelineLoads, clip : Clips \cup {"none"},
                 phase : {"empty", "loading", "ready", "error"}]
  BY <1>1, TimelineAssumption DEF TimelineInv, TimelineOfReady, ShownFrame, RatesInv
<1>3. load'.id = load.id /\ load'.clip = load.clip /\ load'.phase \in {"ready", "error"}
      /\ load' \in [id : 0..MaxTimelineLoads, clip : Clips \cup {"none"},
                 phase : {"empty", "loading", "ready", "error"}]
  BY <1>2 DEF SourceAnswers
<1>4. \A w \in decoders' : WorkerOf(w, load', timeline')
  <2>1. SUFFICES ASSUME NEW w \in decoders
                 PROVE  WorkerOf(w, load', timeline')
    BY <1>1
  <2>2. WorkerOf(w, load, timeline)
    BY DEF TimelineInv
  <2>3. w.id # load.id /\ w.cancelled
    BY <1>1, <2>2 DEF WorkerOf
  <2> QED
    BY <1>3, <2>2, <2>3 DEF WorkerOf
<1>5. CASE load'.phase = "ready"
  <2>1. /\ timeline' = TimelineOf(load.clip, rate)
        /\ sourceFrame' = [id |-> load.id, generation |-> 0, at |-> 0]
    BY <1>2, <1>5 DEF SourceAnswers
  <2>2. PICK r \in OutputRates : r <= rate
    BY DEF TimelineInv, RatesInv
  <2>3. CASE timeline' = NoTimeline
    <3>1. timeline'.generation = 0 /\ timeline'.playhead = 0
      BY <2>3 DEF NoTimeline
    <3>2. TimelineOfReady'
      BY <1>2, <1>3, <1>5, <2>3 DEF TimelineOfReady
    <3>3. ShownFrame' /\ FrameIsOnItsWay'
      BY <1>3, <1>5, <2>1, <3>1 DEF ShownFrame, FrameIsOnItsWay
    <3>4. RatesInv'
      BY <1>1, <2>3 DEF TimelineInv, RatesInv, RatesAgree
    <3> QED
      BY <1>1, <1>2, <1>4, <2>1, <3>2, <3>3, <3>4 DEF TimelineInv, NoFrame
  <2>4. CASE timeline' # NoTimeline
    <3>1. /\ SoundTimeline(timeline') /\ timeline'.playhead = 0 /\ timeline'.generation = 0
          /\ timeline'.length >= Interval(r) => timeline'.rate = rate
      BY <1>2, <2>1, <2>2, <2>4, LoadedIsSound
    <3>2. TimelineOfReady'
      BY <1>2, <1>3, <1>5, <3>1 DEF TimelineOfReady
    <3>3. ShownFrame' /\ FrameIsOnItsWay'
      BY <1>3, <1>5, <2>1, <3>1 DEF ShownFrame, FrameIsOnItsWay
    <3>4. RatesInv'
      BY <1>1, <2>2, <3>1 DEF TimelineInv, RatesInv, RatesAgree
    <3> QED
      BY <1>1, <1>2, <1>4, <2>1, <3>2, <3>3, <3>4 DEF TimelineInv, NoFrame
  <2> QED
    BY <2>3, <2>4
<1>6. CASE load'.phase = "error"
  <2>1. UNCHANGED <<timeline, sourceFrame>>
    BY <1>2, <1>6 DEF SourceAnswers
  <2>2. TimelineOfReady' /\ ShownFrame' /\ FrameIsOnItsWay' /\ RatesInv'
    BY <1>1, <1>2, <1>3, <1>6, <2>1
      DEF TimelineInv, TimelineOfReady, ShownFrame, FrameIsOnItsWay, RatesInv, RatesAgree
  <2> QED
    BY <1>1, <1>2, <1>4, <2>1, <2>2 DEF TimelineInv, NoFrame
<1> QED
  BY <1>3, <1>5, <1>6

LEMMA TimeoutStep ==
    ASSUME TimelineInv, FrameTimeout \/ LockEditor
    PROVE  TimelineInv' /\ UNCHANGED sourceFrame
<1>1. UNCHANGED <<load, timeline, rate, sourceFrame, missed>>
  BY DEF FrameTimeout, LockEditor
<1>2. TimelineOfReady' /\ ShownFrame' /\ RatesInv'
  BY <1>1 DEF TimelineInv, TimelineOfReady, ShownFrame, RatesInv, RatesAgree
<1>3. CASE FrameTimeout
  <2>1. frameTimer' = FALSE /\ decoders' = DecodeCurrentPlayhead(timeline) /\ UNCHANGED jobRuns
    BY <1>3 DEF FrameTimeout
  <2>2. CASE load.phase = "ready" /\ timeline # NoTimeline
    <3>1. timeline \in Timelines /\ Follows(timeline, timeline) /\ timeline # NoTimeline
      BY <2>2 DEF TimelineInv, TimelineOfReady, SoundTimeline, Timelines, Follows, NoTimeline, Constructible
    <3>2. (\A w \in decoders' : WorkerOf(w, load, timeline)) /\ \E w \in decoders' : ~w.cancelled
      BY <2>1, <2>2, <3>1, Decodes
    <3> QED
      BY <1>1, <1>2, <2>1, <3>2 DEF TimelineInv, FrameIsOnItsWay
  <2>3. CASE ~(load.phase = "ready" /\ timeline # NoTimeline)
    <3>1. decoders' = decoders
      BY <2>1, <2>3 DEF DecodeCurrentPlayhead
    <3>2. load.phase = "ready" => sourceFrame.generation = timeline.generation
      BY <2>3 DEF TimelineInv, ShownFrame, NoTimeline
    <3> QED
      BY <1>1, <1>2, <2>1, <2>3, <3>1, <3>2 DEF TimelineInv, FrameIsOnItsWay
  <2> QED
    BY <2>2, <2>3
<1>4. CASE LockEditor
  <2>1. jobRuns' = ~jobRuns /\ UNCHANGED <<frameTimer, decoders>>
    BY <1>4 DEF LockEditor
  <2> QED
    BY <1>1, <1>2, <2>1 DEF TimelineInv, FrameIsOnItsWay
<1> QED
  BY <1>1, <1>3, <1>4

\* A worker posts its frame, or ends without one.
LEMMA DecodeStep ==
    ASSUME TimelineInv, NEW w \in decoders, DecodeSourceFrame(w)
    PROVE  TimelineInv' /\ UNCHANGED sourceFrame
<1>1. UNCHANGED <<load, timeline, rate, sourceFrame, frameTimer, jobRuns>>
  BY DEF DecodeSourceFrame
<1>2. TimelineOfReady' /\ ShownFrame' /\ RatesInv'
  BY <1>1 DEF TimelineInv, TimelineOfReady, ShownFrame, RatesInv, RatesAgree
<1>3. WorkerOf(w, load, timeline)
  BY DEF TimelineInv
<1> DEFINE done == [w EXCEPT !.posted = TRUE]
<1>4. WorkerOf(done, load, timeline) /\ done.cancelled = w.cancelled
  BY <1>3 DEF WorkerOf
<1> HIDE DEF done
<1>5. CASE decoders' = (decoders \ {w}) \cup {done} /\ UNCHANGED missed
  <2>1. \A v \in decoders' : WorkerOf(v, load, timeline)
    BY <1>4, <1>5 DEF TimelineInv
  <2>2. (\E v \in decoders : ~v.cancelled) => \E v \in decoders' : ~v.cancelled
    BY <1>4, <1>5
  <2> QED
    BY <1>1, <1>2, <1>5, <2>1, <2>2 DEF TimelineInv, FrameIsOnItsWay
<1>6. CASE /\ decoders' = decoders \ {w}
           /\ missed' = IF w.cancelled THEN missed ELSE [id |-> w.id, generation |-> w.generation]
  <2>1. CASE w.cancelled
    BY <1>1, <1>2, <1>6, <2>1 DEF TimelineInv, FrameIsOnItsWay
  <2>2. CASE ~w.cancelled
    <3>1. missed' = [id |-> load.id, generation |-> timeline.generation]
      BY <1>3, <1>6, <2>2 DEF WorkerOf
    <3> QED
      BY <1>1, <1>2, <1>6, <3>1 DEF TimelineInv, FrameIsOnItsWay
  <2> QED
    BY <1>4, <2>1, <2>2, <1>3 DEF WorkerOf
<1> QED
  BY <1>1, <1>5, <1>6 DEF DecodeSourceFrame, done

\* A posted frame is shown only where it is of the newest generation.
LEMMA DecodedStep ==
    ASSUME TimelineInv, NEW w \in decoders, FrameDecoded(w)
    PROVE  TimelineInv' /\ (UNCHANGED sourceFrame \/ sourceFrame'.generation >= sourceFrame.generation)
<1> DEFINE isNewest == load.phase = "ready" /\ load.id = w.id
                         /\ timeline # NoTimeline /\ timeline.generation = w.generation
<1>1. /\ UNCHANGED <<load, timeline, rate, frameTimer, missed, jobRuns>>
      /\ decoders' = decoders \ {w}
      /\ sourceFrame' = IF isNewest THEN [id |-> w.id, generation |-> w.generation, at |-> w.at] ELSE sourceFrame
  BY DEF FrameDecoded
<1>2. TimelineOfReady' /\ RatesInv' /\ \A v \in decoders' : WorkerOf(v, load', timeline')
  BY <1>1 DEF TimelineInv, TimelineOfReady, RatesInv, RatesAgree
<1>3. WorkerOf(w, load, timeline)
  BY DEF TimelineInv
<1>4. CASE isNewest
  <2>1. sourceFrame' = [id |-> load.id, generation |-> timeline.generation, at |-> timeline.playhead]
    BY <1>1, <1>3, <1>4 DEF WorkerOf
  <2>2. timeline.generation \in Nat
    BY <1>4 DEF TimelineInv, TimelineOfReady, SoundTimeline, Timelines
  <2>3. ShownFrame' /\ FrameIsOnItsWay'
    BY <1>1, <1>4, <2>1, <2>2 DEF ShownFrame, FrameIsOnItsWay
  <2>4. sourceFrame'.generation >= sourceFrame.generation
    BY <1>4, <2>1, <2>2 DEF TimelineInv, ShownFrame
  <2> QED
    BY <1>1, <1>2, <2>3, <2>4 DEF TimelineInv
<1>5. CASE ~isNewest
  <2>1. UNCHANGED sourceFrame
    BY <1>1, <1>5
  <2>2. ShownFrame'
    BY <1>1, <2>1 DEF TimelineInv, ShownFrame
  <2>3. FrameIsOnItsWay'
    <3>1. CASE timeline = NoTimeline
      BY <1>1, <2>1, <3>1 DEF TimelineInv, ShownFrame, FrameIsOnItsWay, NoTimeline
    <3>2. CASE timeline # NoTimeline
      <4>1. load.phase = "ready" => w.cancelled
        BY <1>3, <1>5, <3>2 DEF WorkerOf
      <4> QED
        BY <1>1, <2>1, <4>1 DEF TimelineInv, FrameIsOnItsWay
    <3> QED
      BY <3>1, <3>2
  <2> QED
    BY <1>1, <1>2, <2>1, <2>2, <2>3 DEF TimelineInv
<1> QED
  BY <1>4, <1>5

-----------------------------------------------------------------------------
(* Timeline: the theorem *)

TimelineSafe == TimelineTypeOK /\ RangeKeepsAFrame /\ SettledFrameIsThePlayheads /\ RatesAgree

LEMMA TimelineStarts == TimelineInit => TimelineInv
<1> SUFFICES ASSUME TimelineInit
             PROVE  TimelineInv
  OBVIOUS
<1>1. TimelineOfReady /\ ShownFrame /\ FrameIsOnItsWay
  BY TimelineAssumption DEF TimelineInit, TimelineOfReady, ShownFrame, FrameIsOnItsWay, NoLoad
<1>2. rate \in 1..MaxRate /\ rate \in OutputRates /\ rate <= rate
  BY RatesAreBounded DEF TimelineInit
<1>3. RatesInv
  BY <1>2 DEF TimelineInit, RatesInv, RatesAgree
<1> QED
  BY <1>1, <1>3 DEF TimelineInit, TimelineInv

LEMMA TimelineGoesOn ==
    TimelineInv /\ [TimelineNext]_timelineVars =>
        TimelineInv' /\ (sourceFrame'.id = sourceFrame.id => sourceFrame'.generation >= sourceFrame.generation)
<1> DEFINE Newer == sourceFrame'.id = sourceFrame.id => sourceFrame'.generation >= sourceFrame.generation
<1> SUFFICES ASSUME TimelineInv, [TimelineNext]_timelineVars
             PROVE  TimelineInv' /\ Newer
  OBVIOUS
<1>1. sourceFrame.generation \in Nat /\ (sourceFrame.id = 0 => sourceFrame.generation = 0)
  BY DEF TimelineInv, TimelineOfReady, ShownFrame, SoundTimeline, Timelines, NoFrame
<1>2. UNCHANGED sourceFrame => Newer
  BY <1>1
<1>3. ASSUME NEW clip \in Clips, StartSourceLoad(clip)
      PROVE  TimelineInv' /\ Newer
  BY <1>1, <1>3, LoadStep DEF NoFrame
<1>4. CASE SourceAnswers
  BY <1>4, AnswerStep
<1>5. CASE UseTimeline
  <2>1. PICK e \in AnyEvents : EditTimeline(e)
    BY <1>5, PointersSendEvents, StampsAreTimes DEF UseTimeline
  <2> QED
    BY <1>2, <2>1, EditStep
<1>6. CASE (\E r \in OutputRates : ChangeRate(r)) \/ ResetRate
  BY <1>2, <1>6, RateStep
<1>7. CASE FrameTimeout \/ LockEditor
  BY <1>2, <1>7, TimeoutStep
<1>8. ASSUME NEW w \in decoders, DecodeSourceFrame(w)
      PROVE  TimelineInv' /\ Newer
  BY <1>2, <1>8, DecodeStep
<1>9. ASSUME NEW w \in decoders, FrameDecoded(w)
      PROVE  TimelineInv' /\ Newer
  BY <1>2, <1>9, DecodedStep
<1>10. CASE UNCHANGED timelineVars
  BY <1>2, <1>10 DEF timelineVars, TimelineInv, TimelineOfReady, ShownFrame, FrameIsOnItsWay, RatesInv, RatesAgree
<1> QED
  BY <1>3, <1>4, <1>5, <1>6, <1>7, <1>8, <1>9, <1>10 DEF TimelineNext

LEMMA TimelineIsSafe == TimelineInv => TimelineSafe
<1> SUFFICES ASSUME TimelineInv
             PROVE  TimelineSafe
  OBVIOUS
<1>1. timeline # NoTimeline => timeline.rate \in 1..MaxRate /\ timeline.generation \in Nat
  BY DEF TimelineInv, TimelineOfReady, SoundTimeline, Timelines, Constructible, NoTimeline
<1>2. TimelineTypeOK
  <2>1. timeline.rate \in 0..MaxRate /\ (timeline # NoTimeline => load.phase = "ready")
    BY <1>1, RatesAreBounded DEF TimelineInv, TimelineOfReady, NoTimeline
  <2>2. sourceFrame.id \in 0..load.id /\ sourceFrame.generation \in Nat
    BY <1>1 DEF TimelineInv, TimelineOfReady, ShownFrame, NoFrame
  <2>3. \A w \in decoders : w.id \in 1..load.id /\ {w.cancelled, w.posted} \subseteq BOOLEAN
    BY DEF TimelineInv, WorkerOf
  <2> QED
    BY <2>1, <2>2, <2>3 DEF TimelineTypeOK, TimelineInv, TimelineOfReady, RatesInv
<1>3. RangeKeepsAFrame
  BY DEF TimelineInv, TimelineOfReady, SoundTimeline, RangeKeepsAFrame
<1>4. SettledFrameIsThePlayheads
  BY DEF TimelineInv, ShownFrame, FrameIsOnItsWay, SettledFrameIsThePlayheads
<1> QED
  BY <1>2, <1>3, <1>4 DEF TimelineInv, RatesInv, TimelineSafe

\* Whatever the user edits while frames are decoded and the source is replaced, the
\* timeline can be built, its rate is the one requests have, and the frame that
\* settles is the playhead's: ui/controller.py, core/timeline.py, core/timeline_reducer.py.
THEOREM FrameFollowsThePlayhead == TimelineSpec => TimelineCorrect
<1>1. TimelineSpec => []TimelineInv
  BY TimelineStarts, TimelineGoesOn, PTL DEF TimelineSpec
<1>2. TimelineInv => TimelineSafe
  BY TimelineIsSafe
<1>3. TimelineInv /\ [TimelineNext]_timelineVars =>
          [sourceFrame'.id = sourceFrame.id => sourceFrame'.generation >= sourceFrame.generation]_timelineVars
  BY TimelineGoesOn
<1> QED
  BY <1>1, <1>2, <1>3, PTL DEF TimelineSpec, TimelineCorrect, OlderFrameNeverReturns, TimelineSafe
-----------------------------------------------------------------------------
(* Filmstrip: the inductive invariant *)

\* The directory and the indexes do not matter to what is shown.
IsBatch(b) ==
    /\ b = [source |-> b.source, layout |-> b.layout, cancelled |-> b.cancelled, phase |-> b.phase,
            sample |-> b.sample, cached |-> b.cached, index |-> b.index, fingerprint |-> b.fingerprint, alone |-> b.alone,
            failed |-> b.failed]
    /\ b.layout \in Layouts /\ b.cancelled \in BOOLEAN
    /\ b.phase \in {"start", "get", "decode", "put", "done"} /\ b.sample \in 1..b.layout.count
    /\ b.phase = "start" => b.sample = 1
    /\ b.phase = "done" /\ ~b.cancelled => b.sample = b.layout.count
\* The samples a worker is through with.
Handled(b) == IF b.phase = "done" THEN 1..b.layout.count ELSE 1..b.sample - 1

IsFilm(f) ==
    /\ f = [source |-> f.source, layout |-> f.layout, generation |-> f.generation,
            signature |-> f.signature, samples |-> f.samples]
    /\ f.layout \in Layouts

Batches ==
    /\ Len(batches) \in 0..MaxBatches
    /\ batches = [g \in 1..Len(batches) |-> batches[g]]
    /\ \A g \in 1..Len(batches) : IsBatch(batches[g])

\* The strip belongs to the last worker, which was not asked to stop.
StripIsOfTheLast ==
    /\ IsFilm(film) /\ film.generation = Len(batches)
    /\ IF film.source = NoSource THEN film.samples = {}
       ELSE /\ Len(batches) # 0 /\ film.signature = LayoutSignature(film.source, film.layout)
            /\ film.samples = 1..film.layout.count
            /\ batches[Len(batches)].source = film.source /\ batches[Len(batches)].layout = film.layout
            /\ ~batches[Len(batches)].cancelled

\* A result is a picture of its worker's source, in its layout.
IsOfItsBatch(x, bs) ==
    /\ x.generation \in 1..Len(bs) /\ x.source = bs[x.generation].source
    /\ x.image = Image(x.source.revision, x.image.sample, bs[x.generation].layout)
TilesInv ==
    /\ \A x \in thumbnails : IsOfItsBatch(x, batches)
    /\ DOMAIN pixmaps \subseteq film.samples /\ TilesShowTheSource

\* What the last worker is through with is shown, on its way, or could not be decoded.
Arrives(s, failures, results) ==
    \/ s \in failures \/ s \in DOMAIN pixmaps
    \/ \E x \in results : x.generation = film.generation /\ x.image.sample = s
StripInv ==
    film.source # NoSource =>
        \A s \in Handled(batches[Len(batches)]) : Arrives(s, batches[Len(batches)].failed, thumbnails)

FilmInv == Batches /\ StripIsOfTheLast /\ TilesInv /\ StripInv

-----------------------------------------------------------------------------
(* Filmstrip: workers and their sequence *)

SameBatch(b, c) == c.source = b.source /\ c.layout = b.layout /\ c.cancelled = b.cancelled
\* What the step of worker g makes of what it is through with.
Advances(g, b, c) ==
    /\ IsBatch(c) /\ SameBatch(b, c) /\ b.failed \subseteq c.failed
    /\ ~b.cancelled => \A s \in Handled(c) :
          s \in Handled(b) \/ s \in c.failed \/ \E x \in thumbnails' : x.generation = g /\ x.image.sample = s

LEMMA LayoutsCount == \A l \in Layouts : l.count \in Nat \ {0}
  BY FilmstripAssumption

LEMMA FollowingAdvances ==
    ASSUME NEW b, IsBatch(b), b.phase \notin {"start", "done"}
    PROVE  LET c == Following(b)
           IN  /\ IsBatch(c) /\ SameBatch(b, c) /\ c.failed = b.failed
               /\ ~b.cancelled => \A s \in Handled(c) : s \in Handled(b) \/ s = b.sample
<1> DEFINE c == Following(b)
<1>1. b.layout.count \in Nat \ {0} /\ b.sample \in 1..b.layout.count
  BY LayoutsCount DEF IsBatch
<1>2. CASE b.cancelled \/ b.sample = b.layout.count
  <2>1. c = [b EXCEPT !.phase = "done", !.index = << >>]
    BY <1>2 DEF Following
  <2> HIDE DEF c
  <2>2. /\ c.source = b.source /\ c.layout = b.layout /\ c.cancelled = b.cancelled /\ c.phase = "done"
        /\ c.sample = b.sample /\ c.failed = b.failed
        /\ c = [source |-> c.source, layout |-> c.layout, cancelled |-> c.cancelled, phase |-> c.phase,
                sample |-> c.sample, cached |-> c.cached, index |-> c.index, fingerprint |-> c.fingerprint, alone |-> c.alone,
                failed |-> c.failed]
    BY <2>1 DEF IsBatch
  <2>3. IsBatch(c)
    BY <1>2, <2>2 DEF IsBatch
  <2>4. ~b.cancelled => \A s \in Handled(c) : s \in Handled(b) \/ s = b.sample
    BY <1>1, <1>2, <2>2 DEF Handled
  <2> QED
    BY <2>2, <2>3, <2>4 DEF SameBatch, c
<1>3. CASE ~(b.cancelled \/ b.sample = b.layout.count)
  <2>1. c = [b EXCEPT !.phase = "get", !.sample = @ + 1]
    BY <1>3 DEF Following
  <2> HIDE DEF c
  <2>2. /\ c.source = b.source /\ c.layout = b.layout /\ c.cancelled = b.cancelled /\ c.phase = "get"
        /\ c.sample = b.sample + 1 /\ c.failed = b.failed
        /\ c = [source |-> c.source, layout |-> c.layout, cancelled |-> c.cancelled, phase |-> c.phase,
                sample |-> c.sample, cached |-> c.cached, index |-> c.index, fingerprint |-> c.fingerprint, alone |-> c.alone,
                failed |-> c.failed]
    BY <2>1 DEF IsBatch
  <2>3. c.sample \in 1..b.layout.count
    BY <1>1, <1>3, <2>2
  <2>4. IsBatch(c)
    BY <2>2, <2>3 DEF IsBatch
  <2>5. ~b.cancelled => \A s \in Handled(c) : s \in Handled(b) \/ s = b.sample
    BY <1>1, <2>2 DEF Handled
  <2> QED
    BY <2>2, <2>4, <2>5 DEF SameBatch, c
<1> QED
  BY <1>2, <1>3

\* Its index and its failures are not what makes a batch.
LEMMA AnyIndex ==
    ASSUME NEW b, IsBatch(b), NEW index
    PROVE  LET c == [b EXCEPT !.index = index]
           IN  IsBatch(c) /\ SameBatch(b, c) /\ c.phase = b.phase /\ c.sample = b.sample /\ c.failed = b.failed
<1> DEFINE c == [b EXCEPT !.index = index]
<1>1. /\ c.source = b.source /\ c.layout = b.layout /\ c.cancelled = b.cancelled /\ c.phase = b.phase
      /\ c.sample = b.sample /\ c.failed = b.failed
      /\ c = [source |-> c.source, layout |-> c.layout, cancelled |-> c.cancelled, phase |-> c.phase,
              sample |-> c.sample, cached |-> c.cached, index |-> c.index, fingerprint |-> c.fingerprint, alone |-> c.alone,
              failed |-> c.failed]
  BY DEF IsBatch
<1> HIDE DEF c
<1> QED
  BY <1>1 DEF IsBatch, SameBatch, c

Used(b, index, alone) == [b EXCEPT !.index = index, !.alone = alone]
LEMMA AnyUse ==
    ASSUME NEW b, IsBatch(b), NEW index, NEW alone
    PROVE  LET c == Used(b, index, alone)
           IN  IsBatch(c) /\ SameBatch(b, c) /\ c.phase = b.phase /\ c.sample = b.sample /\ c.failed = b.failed
<1> DEFINE c == Used(b, index, alone)
<1>1. c = [b EXCEPT !.index = index, !.alone = alone]
  BY DEF Used
<1> HIDE DEF c
<1>2. /\ c.source = b.source /\ c.layout = b.layout /\ c.cancelled = b.cancelled /\ c.phase = b.phase
      /\ c.sample = b.sample /\ c.failed = b.failed
      /\ c = [source |-> c.source, layout |-> c.layout, cancelled |-> c.cancelled, phase |-> c.phase,
              sample |-> c.sample, cached |-> c.cached, index |-> c.index, fingerprint |-> c.fingerprint,
              alone |-> c.alone, failed |-> c.failed]
  BY <1>1 DEF IsBatch
<1> QED
  BY <1>2 DEF IsBatch, SameBatch, c

LEMMA AnyFailures ==
    ASSUME NEW b, IsBatch(b), NEW failures
    PROVE  LET c == [b EXCEPT !.failed = failures]
           IN  IsBatch(c) /\ SameBatch(b, c) /\ c.phase = b.phase /\ c.sample = b.sample /\ c.failed = failures
<1> DEFINE c == [b EXCEPT !.failed = failures]
<1>1. /\ c.source = b.source /\ c.layout = b.layout /\ c.cancelled = b.cancelled /\ c.phase = b.phase
      /\ c.sample = b.sample /\ c.failed = failures
      /\ c = [source |-> c.source, layout |-> c.layout, cancelled |-> c.cancelled, phase |-> c.phase,
              sample |-> c.sample, cached |-> c.cached, index |-> c.index, fingerprint |-> c.fingerprint, alone |-> c.alone,
              failed |-> c.failed]
  BY DEF IsBatch
<1> HIDE DEF c
<1> QED
  BY <1>1 DEF IsBatch, SameBatch, c

Phased(b, phase, index) == [b EXCEPT !.phase = phase, !.index = index]
LEMMA AnyPhase ==
    ASSUME NEW b, IsBatch(b), NEW index, NEW phase \in {"get", "decode", "put", "done"},
           phase = "done" => b.cancelled
    PROVE  LET c == Phased(b, phase, index)
           IN  IsBatch(c) /\ SameBatch(b, c) /\ c.phase = phase /\ c.sample = b.sample /\ c.failed = b.failed
<1> DEFINE c == Phased(b, phase, index)
<1>1. c = [b EXCEPT !.phase = phase, !.index = index]
  BY DEF Phased
<1> HIDE DEF c
<1>2. /\ c.source = b.source /\ c.layout = b.layout /\ c.cancelled = b.cancelled /\ c.phase = phase
      /\ c.sample = b.sample /\ c.failed = b.failed
      /\ c = [source |-> c.source, layout |-> c.layout, cancelled |-> c.cancelled, phase |-> c.phase,
              sample |-> c.sample, cached |-> c.cached, index |-> c.index, fingerprint |-> c.fingerprint, alone |-> c.alone,
              failed |-> c.failed]
  BY <1>1 DEF IsBatch
<1> QED
  BY <1>2 DEF IsBatch, SameBatch, c

\* A batch, with any sample, is asked to stop.
LEMMA SupersededIsBatch ==
    ASSUME NEW b, IsBatch(b)
    PROVE  LET c == [b EXCEPT !.cancelled = TRUE]
           IN  IsBatch(c) /\ c.source = b.source /\ c.layout = b.layout
<1> DEFINE yes == TRUE
           c == [b EXCEPT !.cancelled = yes]
<1>1. yes = TRUE /\ yes \in BOOLEAN
  OBVIOUS
<1> HIDE DEF yes
<1>2. /\ c.source = b.source /\ c.layout = b.layout /\ c.cancelled = yes /\ c.phase = b.phase
      /\ c.sample = b.sample /\ c.failed = b.failed
      /\ c = [source |-> c.source, layout |-> c.layout, cancelled |-> c.cancelled, phase |-> c.phase,
              sample |-> c.sample, cached |-> c.cached, index |-> c.index, fingerprint |-> c.fingerprint, alone |-> c.alone,
              failed |-> c.failed]
  BY DEF IsBatch
<1> HIDE DEF c
<1>3. IsBatch(c) /\ c.source = b.source /\ c.layout = b.layout
  BY <1>1, <1>2 DEF IsBatch
<1> QED
  BY <1>3 DEF c, yes

\* A function on 1..n is a sequence of n values.
LEMMA FunctionIsSequence ==
    ASSUME NEW n \in Nat, NEW f, f = [i \in 1..n |-> f[i]]
    PROVE  Len(f) = n /\ DOMAIN f = 1..n /\ f \in Seq({f[i] : i \in 1..n})
<1>1. f \in [1..n -> {f[i] : i \in 1..n}]
  OBVIOUS
<1> QED
  BY <1>1

LEMMA AppendedSequence ==
    ASSUME NEW n \in Nat, NEW f, f = [i \in 1..n |-> f[i]], NEW x
    PROVE  LET h == Append(f, x)
           IN  /\ Len(h) = n + 1 /\ h = [i \in 1..n + 1 |-> h[i]] /\ h[n + 1] = x
               /\ \A i \in 1..n : h[i] = f[i]
<1> DEFINE all == {f[i] : i \in 1..n} \cup {x}
           h == Append(f, x)
<1>1. Len(f) = n /\ f \in Seq({f[i] : i \in 1..n})
  BY FunctionIsSequence
<1>2. f \in Seq(all) /\ x \in all
  <2>1. f \in [1..n -> all]
    OBVIOUS
  <2> HIDE DEF all
  <2>2. f \in Seq(all)
    BY <2>1
  <2> QED
    BY <2>2 DEF all
<1> HIDE DEF all
<1>3. /\ h \in Seq(all) /\ Len(h) = n + 1 /\ h[n + 1] = x
      /\ \A i \in 1..n : h[i] = f[i]
  BY <1>1, <1>2, AppendProperties
<1>4. h = [i \in 1..n + 1 |-> h[i]]
  BY <1>3, LenProperties
<1> QED
  BY <1>3, <1>4

-----------------------------------------------------------------------------
(* Filmstrip: the steps of a worker *)

\* Where no worker loses what it is, and the last loses nothing it is through with,
\* the strip goes on.
LEMMA WorkersGoOn ==
    ASSUME FilmInv, UNCHANGED <<film, pixmaps>>,
           Len(batches') = Len(batches), batches' = [g \in 1..Len(batches) |-> batches'[g]],
           \A g \in 1..Len(batches) : Advances(g, batches[g], batches'[g]),
           thumbnails \subseteq thumbnails',
           \A x \in thumbnails' : IsOfItsBatch(x, batches)
    PROVE  FilmInv'
<1> DEFINE n == Len(batches)
<1>1. n \in Nat /\ n \in 0..MaxBatches
  BY DEF FilmInv, Batches
<1>2. Batches'
  BY <1>1 DEF Batches, Advances
<1>3. StripIsOfTheLast'
  <2>1. n # 0 => SameBatch(batches[n], batches'[n])
    BY <1>1 DEF Advances
  <2> QED
    BY <1>1, <2>1 DEF FilmInv, StripIsOfTheLast, SameBatch
<1>4. TilesInv'
  <2>1. ASSUME NEW x \in thumbnails'
        PROVE  IsOfItsBatch(x, batches')
    <3>1. x.generation \in 1..n /\ IsOfItsBatch(x, batches)
      BY DEF IsOfItsBatch
    <3>2. SameBatch(batches[x.generation], batches'[x.generation])
      BY <3>1 DEF Advances
    <3> QED
      BY <3>1, <3>2 DEF IsOfItsBatch, SameBatch
  <2> QED
    BY <2>1 DEF FilmInv, TilesInv, TilesShowTheSource
<1>5. StripInv'
  <2>1. SUFFICES ASSUME film.source # NoSource, NEW s \in Handled(batches'[n])
                 PROVE  Arrives(s, batches'[n].failed, thumbnails')
    BY DEF StripInv, Arrives
  <2>2. n \in 1..n /\ ~batches[n].cancelled /\ film.generation = n
    BY <1>1, <2>1 DEF FilmInv, StripIsOfTheLast
  <2>3. Advances(n, batches[n], batches'[n])
    BY <2>2
  <2>4. s \in Handled(batches[n]) => Arrives(s, batches[n].failed, thumbnails)
    BY <2>1 DEF FilmInv, StripInv
  <2> QED
    BY <2>1, <2>2, <2>3, <2>4 DEF Advances, Arrives
<1> QED
  BY <1>2, <1>3, <1>4, <1>5 DEF FilmInv

\* One worker steps.
LEMMA WorkerSteppedOn ==
    ASSUME FilmInv, UNCHANGED <<film, pixmaps>>, NEW g \in 1..Len(batches), NEW c,
           Step(g, c), Advances(g, batches[g], c),
           thumbnails \subseteq thumbnails',
           \A x \in thumbnails' : IsOfItsBatch(x, batches)
    PROVE  FilmInv'
<1> DEFINE n == Len(batches)
<1>1. n \in Nat /\ batches = [h \in 1..n |-> batches[h]]
  BY DEF FilmInv, Batches
<1> HIDE DEF n
<1>2. /\ batches' = [h \in 1..n |-> batches'[h]] /\ batches'[g] = c
      /\ \A h \in 1..n : h # g => batches'[h] = batches[h]
  BY <1>1 DEF Step, n
<1>3. Len(batches') = n
  BY <1>1, <1>2, FunctionIsSequence
<1>4. ASSUME NEW h \in 1..n
      PROVE  Advances(h, batches[h], batches'[h])
  <2>1. CASE h = g
    BY <1>2, <2>1
  <2>2. CASE h # g
    <3>1. IsBatch(batches[h])
      BY DEF FilmInv, Batches, n
    <3> QED
      BY <1>2, <2>2, <3>1 DEF Advances, SameBatch
  <2> QED
    BY <2>1, <2>2
<1> QED
  BY <1>2, <1>3, <1>4, WorkersGoOn DEF n

LEMMA ResultIsOfItsBatch ==
    ASSUME FilmInv, NEW g \in 1..Len(batches)
    PROVE  LET x == Result(g, batches[g].source.revision)
           IN  IsOfItsBatch(x, batches) /\ x.generation = g /\ x.image.sample = batches[g].sample
  BY DEF Result, Image, IsOfItsBatch

LEMMA OpenStep ==
    ASSUME FilmInv, NEW g \in 1..Len(batches), OpenCache(g)
    PROVE  FilmInv'
<1> DEFINE n == Len(batches)
           b == batches[g]
<1>1. n \in Nat /\ batches = [h \in 1..n |-> batches[h]] /\ DOMAIN batches = 1..n
  BY FunctionIsSequence DEF FilmInv, Batches
<1> HIDE DEF n
<1>2. /\ b.phase = "start" /\ UNCHANGED <<film, pixmaps, thumbnails>>
      /\ \E cached, index, alone : Begins(g, cached, index, alone)
  BY DEF OpenCache
<1> PICK cached, index, alone : Begins(g, cached, index, alone)
  BY <1>2
<1>3. batches' = [h \in 1..n |->
            IF h = g THEN [b EXCEPT !.phase = "get", !.cached = cached, !.index = index,
                                    !.fingerprint = sourceOnDisk, !.alone = alone]
            ELSE [batches[h] EXCEPT !.alone = FALSE]]
  BY <1>1 DEF Begins
<1>4. batches' = [h \in 1..n |-> batches'[h]] /\ Len(batches') = n
  <2>1. batches' = [h \in 1..n |-> batches'[h]]
    BY <1>3
  <2> QED
    BY <1>1, <2>1, FunctionIsSequence
<1>5. ASSUME NEW h \in 1..n
      PROVE  Advances(h, batches[h], batches'[h])
  <2> DEFINE c == batches'[h]
  <2>1. IsBatch(batches[h])
    BY DEF FilmInv, Batches, n
  <2>2. CASE h = g
    <3>1. c = [b EXCEPT !.phase = "get", !.cached = cached, !.index = index,
                        !.fingerprint = sourceOnDisk, !.alone = alone]
      BY <1>3, <2>2
    <3> HIDE DEF c
    <3>2. IsBatch(b)
      BY <2>1, <2>2
    <3>3. /\ c.source = b.source /\ c.layout = b.layout /\ c.cancelled = b.cancelled /\ c.phase = "get"
          /\ c.sample = b.sample /\ c.failed = b.failed
          /\ c = [source |-> c.source, layout |-> c.layout, cancelled |-> c.cancelled, phase |-> c.phase,
                  sample |-> c.sample, cached |-> c.cached, index |-> c.index, fingerprint |-> c.fingerprint, alone |-> c.alone,
                  failed |-> c.failed]
      BY <3>1, <3>2 DEF IsBatch
    <3> HIDE DEF b
    <3>4. IsBatch(c) /\ SameBatch(b, c)
      BY <3>2, <3>3 DEF IsBatch, SameBatch
    <3>5. Handled(c) = Handled(b)
      BY <1>2, <3>3 DEF Handled
    <3> QED
      BY <2>2, <3>3, <3>4, <3>5 DEF Advances, b, c
  <2>3. CASE h # g
    <3> DEFINE d == batches[h]
    <3>1. c = [d EXCEPT !.alone = FALSE]
      BY <1>3, <2>3
    <3> HIDE DEF c, d
    <3>2. IsBatch(d)
      BY <2>1 DEF d
    <3>3. /\ c.source = d.source /\ c.layout = d.layout /\ c.cancelled = d.cancelled /\ c.phase = d.phase
          /\ c.sample = d.sample /\ c.failed = d.failed
          /\ c = [source |-> c.source, layout |-> c.layout, cancelled |-> c.cancelled, phase |-> c.phase,
                  sample |-> c.sample, cached |-> c.cached, index |-> c.index, fingerprint |-> c.fingerprint, alone |-> c.alone,
                  failed |-> c.failed]
      BY <3>1, <3>2 DEF IsBatch
    <3>4. IsBatch(c) /\ SameBatch(d, c)
      BY <3>2, <3>3 DEF IsBatch, SameBatch
    <3>5. Handled(c) = Handled(d)
      BY <3>3 DEF Handled
    <3> QED
      BY <3>3, <3>4, <3>5 DEF Advances, d, c
  <2> QED
    BY <2>2, <2>3
<1>6. \A x \in thumbnails' : IsOfItsBatch(x, batches)
  BY <1>2 DEF FilmInv, TilesInv
<1>7. thumbnails \subseteq thumbnails'
  BY <1>2
<1> QED
  BY <1>2, <1>4, <1>5, <1>6, <1>7, WorkersGoOn DEF n

\* A thumbnail that was found, decoded or unlisted: the worker is through with its sample.
LEMMA SampleIsHandled ==
    ASSUME FilmInv, NEW g \in 1..Len(batches), batches[g].phase \notin {"start", "done"}, NEW b,
           IsBatch(b), SameBatch(batches[g], b), b.sample = batches[g].sample,
           b.phase \notin {"start", "done"}, batches[g].failed \subseteq b.failed,
           b.sample \in b.failed \/ \E x \in thumbnails' : x.generation = g /\ x.image.sample = b.sample
    PROVE  Advances(g, batches[g], Following(b))
<1> DEFINE a == batches[g]
           c == Following(b)
<1>1. /\ IsBatch(c) /\ SameBatch(b, c) /\ c.failed = b.failed
      /\ ~b.cancelled => \A s \in Handled(c) : s \in Handled(b) \/ s = b.sample
  BY FollowingAdvances
<1>2. Handled(b) = Handled(a)
  BY DEF Handled
<1>3. SameBatch(a, c)
  BY <1>1 DEF SameBatch
<1>4. a.cancelled = b.cancelled
  BY DEF SameBatch
<1> HIDE DEF a, c
<1> QED
  BY <1>1, <1>2, <1>3, <1>4 DEF Advances, a, c

LEMMA GetStep ==
    ASSUME FilmInv, NEW g \in 1..Len(batches), GetThumbnail(g)
    PROVE  FilmInv'
<1> DEFINE b == batches[g]
           found == Result(g, b.source.revision)
<1>1. IsBatch(b) /\ \A x \in thumbnails : IsOfItsBatch(x, batches)
  BY DEF FilmInv, Batches, TilesInv
<1>2. b.phase = "get" /\ UNCHANGED <<film, pixmaps>>
  BY DEF GetThumbnail
<1> DEFINE index == Evict(Touched(b.index, Key(b)), Touched(directory, Key(b))).index
           unlisted == Without(b.index, {Key(b)})
<1>3. \/ b.cancelled /\ Step(g, Phased(b, "done", << >>)) /\ UNCHANGED thumbnails
      \/ Step(g, Following([b EXCEPT !.index = index])) /\ thumbnails' = thumbnails \cup {found}
      \/ \E i, alone : Step(g, [b EXCEPT !.phase = "decode", !.index = i, !.alone = alone]) /\ UNCHANGED thumbnails
      \/ Step(g, Phased(b, "decode", unlisted)) /\ UNCHANGED thumbnails
  <2>1. [b EXCEPT !.phase = "decode", !.index = Without(@, {Key(b)})] = Phased(b, "decode", unlisted)
    BY <1>1 DEF IsBatch, Phased
  <2>2. [b EXCEPT !.phase = "done", !.index = << >>] = Phased(b, "done", << >>)
    BY DEF Phased
  <2> QED
    BY <2>1, <2>2 DEF GetThumbnail
<1> HIDE DEF index, unlisted
<1>4. CASE b.cancelled /\ Step(g, Phased(b, "done", << >>)) /\ UNCHANGED thumbnails
  <2> DEFINE c == Phased(b, "done", << >>)
  <2>1. Step(g, c) /\ UNCHANGED thumbnails
    BY <1>4
  <2> HIDE DEF b
  <2>2. IsBatch(c) /\ SameBatch(b, c) /\ c.phase = "done" /\ c.sample = b.sample /\ c.failed = b.failed
    BY <1>1, <1>4, AnyPhase
  <2> HIDE DEF c
  <2>3. Advances(g, b, c)
    BY <1>1, <1>4, <2>2 DEF Advances, IsBatch, SameBatch
  <2> QED
    BY <1>1, <1>2, <2>1, <2>3, WorkerSteppedOn DEF b
<1>5. CASE Step(g, Following([b EXCEPT !.index = index])) /\ thumbnails' = thumbnails \cup {found}
  <2> DEFINE c == [b EXCEPT !.index = index]
  <2>1. Step(g, Following(c)) /\ thumbnails' = thumbnails \cup {found}
    BY <1>5
  <2>2. IsBatch(c) /\ SameBatch(b, c) /\ c.phase = b.phase /\ c.sample = b.sample /\ c.failed = b.failed
    BY <1>1, AnyIndex
  <2>3. IsOfItsBatch(found, batches) /\ found.generation = g /\ found.image.sample = b.sample
    BY ResultIsOfItsBatch
  <2> HIDE DEF c, found
  <2>4. Advances(g, b, Following(c))
    BY <1>2, <2>1, <2>2, <2>3, SampleIsHandled
  <2> QED
    BY <1>1, <1>2, <2>1, <2>3, <2>4, WorkerSteppedOn
<1>6. ASSUME NEW c, Step(g, c), UNCHANGED thumbnails, IsBatch(c), SameBatch(b, c), c.phase = "decode",
             c.sample = b.sample, c.failed = b.failed
      PROVE  FilmInv'
  <2>1. Handled(c) = Handled(b)
    BY <1>2, <1>6 DEF Handled
  <2>2. Advances(g, b, c)
    BY <1>6, <2>1 DEF Advances
  <2> QED
    BY <1>1, <1>2, <1>6, <2>2, WorkerSteppedOn
<1>7. CASE Step(g, Phased(b, "decode", unlisted)) /\ UNCHANGED thumbnails
  <2> DEFINE c == Phased(b, "decode", unlisted)
  <2>1. IsBatch(c) /\ SameBatch(b, c) /\ c.phase = "decode" /\ c.sample = b.sample /\ c.failed = b.failed
    BY <1>1, AnyPhase
  <2>2. Step(g, c) /\ UNCHANGED thumbnails
    BY <1>7
  <2> HIDE DEF b, c
  <2> QED
    BY <1>6, <2>1, <2>2
<1>8. ASSUME NEW i, NEW alone, Step(g, [b EXCEPT !.phase = "decode", !.index = i, !.alone = alone]), UNCHANGED thumbnails
      PROVE  FilmInv'
  <2> DEFINE d == Phased(b, "decode", i)
             c == [b EXCEPT !.phase = "decode", !.index = i, !.alone = alone]
  <2>1. IsBatch(d) /\ SameBatch(b, d) /\ d.phase = "decode" /\ d.sample = b.sample /\ d.failed = b.failed
    BY <1>1, AnyPhase
  <2> DEFINE e == Used(d, i, alone)
  <2>2. e = c
    BY <1>1 DEF Phased, Used, IsBatch
  <2> HIDE DEF d
  <2>3. IsBatch(e) /\ SameBatch(d, e) /\ e.phase = d.phase /\ e.sample = d.sample /\ e.failed = d.failed
    BY <2>1, AnyUse
  <2>4. Step(g, c)
    BY <1>8
  <2> HIDE DEF b, c, e
  <2>5. IsBatch(c) /\ SameBatch(b, c) /\ c.phase = "decode" /\ c.sample = b.sample /\ c.failed = b.failed
    BY <2>1, <2>2, <2>3 DEF SameBatch
  <2> QED
    BY <1>6, <1>8, <2>4, <2>5
<1> QED
  BY <1>3, <1>4, <1>5, <1>7, <1>8

LEMMA GenerateStep ==
    ASSUME FilmInv, NEW g \in 1..Len(batches), GenerateThumbnail(g)
    PROVE  FilmInv'
<1> DEFINE b == batches[g]
<1>1. IsBatch(b) /\ \A x \in thumbnails : IsOfItsBatch(x, batches)
  BY DEF FilmInv, Batches, TilesInv
<1>2. b.phase = "decode" /\ UNCHANGED <<film, pixmaps, thumbnails>>
  BY DEF GenerateThumbnail
<1>3. CASE Step(g, [b EXCEPT !.phase = "put"])
  <2> DEFINE c == [b EXCEPT !.phase = "put"]
  <2>1. /\ c.source = b.source /\ c.layout = b.layout /\ c.cancelled = b.cancelled /\ c.phase = "put"
        /\ c.sample = b.sample /\ c.failed = b.failed
        /\ c = [source |-> c.source, layout |-> c.layout, cancelled |-> c.cancelled, phase |-> c.phase,
                sample |-> c.sample, cached |-> c.cached, index |-> c.index, fingerprint |-> c.fingerprint, alone |-> c.alone,
                failed |-> c.failed]
    BY <1>1 DEF IsBatch
  <2>2. Step(g, c)
    BY <1>3
  <2> HIDE DEF c
  <2>3. Handled(c) = Handled(b)
    BY <1>2, <2>1 DEF Handled
  <2>4. Advances(g, b, c)
    BY <1>1, <2>1, <2>3 DEF Advances, IsBatch, SameBatch
  <2> QED
    BY <1>1, <1>2, <2>2, <2>4, WorkerSteppedOn
<1>4. CASE Step(g, Following([b EXCEPT !.failed = @ \cup {b.sample}]))
  <2> DEFINE failures == b.failed \cup {b.sample}
             c == [b EXCEPT !.failed = failures]
  <2>1. Step(g, Following(c))
    BY <1>1, <1>4 DEF IsBatch
  <2>2. b.failed \subseteq failures /\ b.sample \in failures
    OBVIOUS
  <2> HIDE DEF failures
  <2>3. IsBatch(c) /\ SameBatch(b, c) /\ c.phase = b.phase /\ c.sample = b.sample /\ c.failed = failures
    BY <1>1, AnyFailures
  <2> HIDE DEF c
  <2>4. Advances(g, b, Following(c))
    BY <1>2, <2>2, <2>3, SampleIsHandled
  <2> QED
    BY <1>1, <1>2, <1>4, <2>1, <2>4, WorkerSteppedOn
<1> QED
  BY <1>3, <1>4 DEF GenerateThumbnail

LEMMA PutStep ==
    ASSUME FilmInv, NEW g \in 1..Len(batches), PutThumbnail(g)
    PROVE  FilmInv'
<1> DEFINE b == batches[g]
           posted == Result(g, b.source.revision)
           index == Evict(Touched(b.index, Key(b)), Touched(directory, Key(b))).index
<1>1. IsBatch(b) /\ \A x \in thumbnails : IsOfItsBatch(x, batches)
  BY DEF FilmInv, Batches, TilesInv
<1>2. b.phase = "put" /\ thumbnails' = thumbnails \cup {posted} /\ UNCHANGED <<film, pixmaps>>
      /\ \/ Step(g, Following([b EXCEPT !.index = index]))
         \/ \E i, alone : Step(g, Following([b EXCEPT !.index = i, !.alone = alone]))
         \/ Step(g, Following(b))
  BY DEF PutThumbnail
<1>3. IsOfItsBatch(posted, batches) /\ posted.generation = g /\ posted.image.sample = b.sample
  BY ResultIsOfItsBatch
<1> HIDE DEF posted, index
<1>4. PICK c : /\ IsBatch(c) /\ SameBatch(b, c) /\ c.phase = b.phase /\ c.sample = b.sample /\ c.failed = b.failed
               /\ Step(g, Following(c))
  <2>1. CASE Step(g, Following(b))
    BY <1>1, <2>1 DEF SameBatch
  <2>2. CASE Step(g, Following([b EXCEPT !.index = index]))
    <3> DEFINE c == [b EXCEPT !.index = index]
    <3>1. IsBatch(c) /\ SameBatch(b, c) /\ c.phase = b.phase /\ c.sample = b.sample /\ c.failed = b.failed
      BY <1>1, AnyIndex
    <3>2. Step(g, Following(c))
      BY <2>2
    <3> HIDE DEF c
    <3> QED
      BY <3>1, <3>2
  <2>3. CASE \E i, alone : Step(g, Following([b EXCEPT !.index = i, !.alone = alone]))
    <3> PICK i, alone : Step(g, Following([b EXCEPT !.index = i, !.alone = alone]))
      BY <2>3
    <3> DEFINE c == Used(b, i, alone)
    <3>1. IsBatch(c) /\ SameBatch(b, c) /\ c.phase = b.phase /\ c.sample = b.sample /\ c.failed = b.failed
      BY <1>1, AnyUse
    <3>2. Step(g, Following(c))
      BY DEF Used
    <3> HIDE DEF c
    <3> QED
      BY <3>1, <3>2
  <2> QED
    BY <1>2, <2>1, <2>2, <2>3
<1>5. Advances(g, b, Following(c))
  BY <1>2, <1>3, <1>4, SampleIsHandled
<1>6. \A x \in thumbnails' : IsOfItsBatch(x, batches)
  BY <1>1, <1>2, <1>3
<1>7. thumbnails \subseteq thumbnails'
  BY <1>1, <1>2
<1> QED
  BY <1>2, <1>4, <1>5, <1>6, <1>7, WorkerSteppedOn

-----------------------------------------------------------------------------
(* Filmstrip: the steps of the widget *)

\* A result that is shown is the picture of its sample; one that is not is no longer wanted.
LEMMA ReadyStep ==
    ASSUME FilmInv, NEW x \in thumbnails, ThumbnailReady(x)
    PROVE  FilmInv'
<1> DEFINE s == x.image.sample
           asWanted == /\ film.source # NoSource /\ x.source = film.source
                     /\ x.generation = film.generation /\ s \in film.samples
<1>1. /\ thumbnails' = thumbnails \ {x} /\ UNCHANGED <<film, batches>>
      /\ pixmaps' = IF asWanted THEN [t \in DOMAIN pixmaps \cup {s} |-> IF t = s THEN x.image ELSE pixmaps[t]]
                    ELSE pixmaps
  BY DEF ThumbnailReady
<1>2. Batches' /\ StripIsOfTheLast'
  BY <1>1 DEF FilmInv, Batches, StripIsOfTheLast
<1>3. IsOfItsBatch(x, batches) /\ \A y \in thumbnails' : IsOfItsBatch(y, batches)
  BY <1>1 DEF FilmInv, TilesInv
<1>4. asWanted => x.image = Image(film.source.revision, s, film.layout)
  BY <1>3 DEF FilmInv, StripIsOfTheLast, IsOfItsBatch
<1>5. TilesInv'
  <2>1. CASE asWanted
    <3>1. DOMAIN pixmaps' = DOMAIN pixmaps \cup {s} /\ s \in film.samples
      BY <1>1, <2>1
    <3>2. \A t \in DOMAIN pixmaps' : pixmaps'[t] = Image(film.source.revision, t, film.layout)
      BY <1>1, <1>4, <2>1 DEF FilmInv, TilesInv, TilesShowTheSource
    <3> HIDE DEF asWanted, s
    <3> QED
      BY <1>1, <1>3, <3>1, <3>2 DEF FilmInv, TilesInv, TilesShowTheSource
  <2>2. CASE ~asWanted
    <3>1. pixmaps' = pixmaps
      BY <1>1, <2>2
    <3> QED
      BY <1>1, <1>3, <3>1 DEF FilmInv, TilesInv, TilesShowTheSource
  <2> QED
    BY <2>1, <2>2
<1>6. StripInv'
  <2> DEFINE b == batches[Len(batches)]
  <2>1. SUFFICES ASSUME film.source # NoSource, NEW t \in Handled(b)
                 PROVE  \/ t \in b.failed \/ t \in DOMAIN pixmaps'
                        \/ \E y \in thumbnails' : y.generation = film.generation /\ y.image.sample = t
    BY <1>1 DEF StripInv, Arrives
  <2>2. /\ IsBatch(b) /\ b.layout = film.layout /\ b.source = film.source
        /\ film.samples = 1..b.layout.count /\ film.generation = Len(batches)
    BY <2>1 DEF FilmInv, Batches, StripIsOfTheLast
  <2>3. t \in film.samples
    <3>1. b.layout.count \in Nat /\ b.sample \in 1..b.layout.count
      BY <2>2, LayoutsCount DEF IsBatch
    <3> HIDE DEF b
    <3> QED
      BY <2>1, <2>2, <3>1 DEF Handled
  <2>4. Arrives(t, b.failed, thumbnails)
    BY <2>1 DEF FilmInv, StripInv
  <2>5. DOMAIN pixmaps \subseteq DOMAIN pixmaps' /\ (asWanted => s \in DOMAIN pixmaps')
    BY <1>1
  <2>6. CASE x.generation = film.generation /\ s = t
    <3>1. asWanted
      BY <1>3, <2>1, <2>2, <2>3, <2>6 DEF IsOfItsBatch
    <3> QED
      BY <2>5, <2>6, <3>1
  <2>7. CASE ~(x.generation = film.generation /\ s = t)
    BY <1>1, <2>4, <2>5, <2>7 DEF Arrives
  <2> QED
    BY <2>6, <2>7
<1> QED
  BY <1>2, <1>5, <1>6 DEF FilmInv

\* The workers that are asked to stop are what they were.
LEMMA SupersedesAll ==
    ASSUME FilmInv
    PROVE  LET bs == Superseded(batches)
           IN  /\ bs = [g \in 1..Len(batches) |-> bs[g]] /\ Len(bs) = Len(batches)
               /\ \A g \in 1..Len(batches) :
                     IsBatch(bs[g]) /\ bs[g].source = batches[g].source /\ bs[g].layout = batches[g].layout
<1> DEFINE n == Len(batches)
           bs == Superseded(batches)
<1>1. n \in Nat /\ DOMAIN batches = 1..n /\ \A g \in 1..n : IsBatch(batches[g])
  BY FunctionIsSequence DEF FilmInv, Batches
<1> HIDE DEF n
<1>2. bs = [g \in 1..n |-> [batches[g] EXCEPT !.cancelled = TRUE]]
  BY <1>1 DEF Superseded
<1> HIDE DEF bs
<1>3. bs = [g \in 1..n |-> bs[g]] /\ \A g \in 1..n : bs[g] = [batches[g] EXCEPT !.cancelled = TRUE]
  BY <1>2
<1>4. Len(bs) = n
  BY <1>1, <1>3, FunctionIsSequence
<1>5. ASSUME NEW g \in 1..n
      PROVE  IsBatch(bs[g]) /\ bs[g].source = batches[g].source /\ bs[g].layout = batches[g].layout
  <2> DEFINE b == batches[g]
             c == [b EXCEPT !.cancelled = TRUE]
  <2>1. IsBatch(b) /\ bs[g] = c
    BY <1>1, <1>3
  <2> HIDE DEF b
  <2>2. IsBatch(c) /\ c.source = b.source /\ c.layout = b.layout
    BY <2>1, SupersededIsBatch
  <2> HIDE DEF c
  <2> QED
    BY <2>1, <2>2 DEF b
<1> QED
  BY <1>3, <1>4, <1>5 DEF n, bs

\* A result stays its batch's when the workers are asked to stop, and when one more starts.
LEMMA ResultsStay ==
    ASSUME FilmInv, NEW bs, Len(batches) <= Len(bs), Len(bs) \in Nat,
           \A g \in 1..Len(batches) : bs[g].source = batches[g].source /\ bs[g].layout = batches[g].layout
    PROVE  \A x \in thumbnails : IsOfItsBatch(x, bs)
<1>1. Len(batches) \in Nat
  BY DEF FilmInv, Batches
<1> QED
  BY <1>1 DEF FilmInv, TilesInv, IsOfItsBatch

LEMMA StartStep ==
    ASSUME FilmInv, NEW source, source # NoSource, NEW layout \in Layouts, StartThumbnails(source, layout),
           UNCHANGED thumbnails
    PROVE  FilmInv'
<1> DEFINE n == Len(batches)
           bs == Superseded(batches)
           b == ThumbnailBatch(source, layout)
<1>1. n \in Nat /\ n + 1 \in 0..MaxBatches
  <2>1. n \in 0..MaxBatches /\ n < MaxBatches /\ MaxBatches \in Nat
    BY FilmstripAssumption DEF FilmInv, Batches, StartThumbnails
  <2> QED
    BY <2>1
<1>2. /\ film' = [film EXCEPT !.source = source, !.layout = layout, !.generation = n + 1,
                    !.signature = LayoutSignature(source, layout), !.samples = FilmstripTimestamps(layout)]
      /\ pixmaps' = << >> /\ batches' = Append(bs, b)
  BY DEF StartThumbnails
<1>3. /\ bs = [g \in 1..n |-> bs[g]] /\ Len(bs) = n
      /\ \A g \in 1..n : IsBatch(bs[g]) /\ bs[g].source = batches[g].source /\ bs[g].layout = batches[g].layout
  BY SupersedesAll
<1>4. /\ IsBatch(b) /\ b.source = source /\ b.layout = layout /\ ~b.cancelled
      /\ b.phase = "start" /\ b.sample = 1 /\ Handled(b) = {}
  <2>1. layout.count \in Nat \ {0}
    BY LayoutsCount
  <2> QED
    BY <2>1 DEF ThumbnailBatch, IsBatch, Handled
<1> HIDE DEF n, bs, b
<1>5. /\ Len(batches') = n + 1 /\ batches' = [g \in 1..n + 1 |-> batches'[g]] /\ batches'[n + 1] = b
      /\ \A g \in 1..n : batches'[g] = bs[g]
  BY <1>1, <1>2, <1>3, AppendedSequence
<1>6. Batches'
  <2>1. \A g \in 1..n + 1 : IsBatch(batches'[g])
    BY <1>1, <1>3, <1>4, <1>5
  <2> QED
    BY <1>1, <1>5, <2>1 DEF Batches
<1>7. /\ film'.source = source /\ film'.layout = layout /\ film'.generation = n + 1
      /\ film'.signature = LayoutSignature(source, layout) /\ film'.samples = 1..layout.count
      /\ IsFilm(film')
  BY <1>2 DEF FilmInv, StripIsOfTheLast, IsFilm, FilmstripTimestamps
<1>8. StripIsOfTheLast'
  BY <1>1, <1>4, <1>5, <1>7 DEF StripIsOfTheLast
<1>9. \A x \in thumbnails' : IsOfItsBatch(x, batches')
  BY <1>1, <1>3, <1>5, ResultsStay DEF n
<1>10. TilesInv'
  BY <1>2, <1>9 DEF TilesInv, TilesShowTheSource
<1>11. StripInv'
  BY <1>4, <1>5 DEF StripInv
<1> QED
  BY <1>6, <1>8, <1>10, <1>11 DEF FilmInv

LEMMA NothingStep ==
    ASSUME FilmInv, PresentNothing
    PROVE  FilmInv'
<1> DEFINE n == Len(batches)
<1>1. /\ film' = [film EXCEPT !.source = NoSource, !.samples = {}]
      /\ pixmaps' = << >> /\ batches' = Superseded(batches) /\ UNCHANGED thumbnails
  BY DEF PresentNothing
<1>2. /\ batches' = [g \in 1..n |-> batches'[g]] /\ Len(batches') = n
      /\ \A g \in 1..n :
            IsBatch(batches'[g]) /\ batches'[g].source = batches[g].source /\ batches'[g].layout = batches[g].layout
  BY <1>1, SupersedesAll
<1>3. n \in Nat
  BY DEF FilmInv, Batches
<1>4. Batches'
  BY <1>1, <1>2 DEF FilmInv, Batches
<1>5. film'.source = NoSource /\ film'.samples = {} /\ film'.generation = n /\ IsFilm(film')
  BY <1>1 DEF FilmInv, StripIsOfTheLast, IsFilm
<1>6. \A x \in thumbnails' : IsOfItsBatch(x, batches')
  BY <1>1, <1>2, <1>3, ResultsStay
<1>7. StripIsOfTheLast' /\ StripInv'
  BY <1>2, <1>5 DEF StripIsOfTheLast, StripInv
<1>8. TilesInv'
  BY <1>1, <1>6 DEF TilesInv, TilesShowTheSource
<1> QED
  BY <1>4, <1>7, <1>8 DEF FilmInv

LEMMA ResizeStep ==
    ASSUME FilmInv, NEW layout \in Layouts, ResizeFilm(layout)
    PROVE  FilmInv'
<1>1. layout # film.layout /\ UNCHANGED thumbnails
  BY DEF ResizeFilm
<1>2. CASE film.source # NoSource
  <2>1. LayoutSignature(film.source, layout) # film.signature
    BY <1>1, <1>2 DEF FilmInv, StripIsOfTheLast, LayoutSignature
  <2>2. StartThumbnails(film.source, layout)
    BY <1>2, <2>1 DEF ResizeFilm
  <2> QED
    BY <1>1, <1>2, <2>2, StartStep
<1>3. CASE film.source = NoSource
  <2>1. film' = [film EXCEPT !.layout = layout] /\ UNCHANGED <<pixmaps, batches>>
    BY <1>3 DEF ResizeFilm
  <2>2. /\ film'.source = NoSource /\ film'.samples = film.samples /\ film'.generation = film.generation
        /\ IsFilm(film')
    BY <1>3, <2>1 DEF FilmInv, StripIsOfTheLast, IsFilm
  <2>3. film.samples = {} /\ DOMAIN pixmaps = {}
    BY <1>3 DEF FilmInv, StripIsOfTheLast, TilesInv
  <2>4. Batches' /\ StripIsOfTheLast' /\ StripInv'
    BY <1>1, <1>3, <2>1, <2>2 DEF FilmInv, Batches, StripIsOfTheLast, StripInv
  <2>5. TilesInv'
    BY <1>1, <2>1, <2>2, <2>3 DEF FilmInv, TilesInv, TilesShowTheSource
  <2> QED
    BY <2>4, <2>5 DEF FilmInv
<1> QED
  BY <1>2, <1>3

-----------------------------------------------------------------------------
(* Filmstrip: the theorem *)

LEMMA FilmStarts == FilmInit => FilmInv
<1> SUFFICES ASSUME FilmInit
             PROVE  FilmInv
  OBVIOUS
<1>1. PICK layout \in Layouts :
         film = [source |-> NoSource, layout |-> layout, generation |-> 0,
                 signature |-> <<0, layout>>, samples |-> {}]
  BY DEF FilmInit
<1>2. /\ pixmaps = << >> /\ batches = << >> /\ thumbnails = {}
      /\ Len(batches) = 0 /\ MaxBatches \in Nat
  BY FilmstripAssumption DEF FilmInit
<1>3. Batches
  BY <1>2 DEF Batches
<1>4. StripIsOfTheLast /\ StripInv
  BY <1>1, <1>2 DEF StripIsOfTheLast, StripInv, IsFilm
<1>5. TilesInv
  BY <1>2 DEF TilesInv, TilesShowTheSource
<1> QED
  BY <1>3, <1>4, <1>5 DEF FilmInv

LEMMA FilmGoesOn == FilmInv /\ [FilmNext]_filmVars => FilmInv'
<1> SUFFICES ASSUME FilmInv, [FilmNext]_filmVars
             PROVE  FilmInv'
  OBVIOUS
<1>1. DOMAIN batches = 1..Len(batches) /\ Len(batches) \in Nat
  BY FunctionIsSequence DEF FilmInv, Batches
<1>2. CASE PresentSource
  <2> DEFINE source == [id |-> Len(batches) + 1, revision |-> sourceOnDisk]
  <2>1. source # NoSource
    BY <1>1 DEF NoSource
  <2>2. StartThumbnails(source, film.layout) /\ UNCHANGED thumbnails
    BY <1>2 DEF PresentSource
  <2>3. film.layout \in Layouts
    BY DEF FilmInv, StripIsOfTheLast, IsFilm
  <2> HIDE DEF source
  <2> QED
    BY <2>1, <2>2, <2>3, StartStep
<1>3. CASE PresentNothing
  BY <1>3, NothingStep
<1>4. CASE \E layout \in Layouts : ResizeFilm(layout)
  BY <1>4, ResizeStep
<1>5. CASE RewriteSource \/ UNCHANGED filmVars
  <2>1. UNCHANGED <<film, pixmaps, batches, thumbnails>>
    BY <1>5 DEF RewriteSource, filmVars
  <2> QED
    BY <2>1 DEF FilmInv, Batches, StripIsOfTheLast, TilesInv, TilesShowTheSource, StripInv, Arrives
<1>6. CASE \E x \in thumbnails : ThumbnailReady(x)
  BY <1>6, ReadyStep
<1>7. CASE \E g \in DOMAIN batches : OpenCache(g)
  BY <1>1, <1>7, OpenStep
<1>8. CASE \E g \in DOMAIN batches : GetThumbnail(g)
  BY <1>1, <1>8, GetStep
<1>9. CASE \E g \in DOMAIN batches : GenerateThumbnail(g)
  BY <1>1, <1>9, GenerateStep
<1>10. CASE \E g \in DOMAIN batches : PutThumbnail(g)
  BY <1>1, <1>10, PutStep
<1> QED
  BY <1>2, <1>3, <1>4, <1>5, <1>6, <1>7, <1>8, <1>9, <1>10 DEF FilmNext

LEMMA StripIsFull == FilmInv => TilesShowTheSource /\ StripFillsUp
<1> SUFFICES ASSUME FilmInv, film.source # NoSource, batches[film.generation].phase = "done",
                    ~\E x \in thumbnails : x.generation = film.generation,
                    NEW s \in film.samples \ batches[film.generation].failed
             PROVE  s \in DOMAIN pixmaps
  BY DEF FilmInv, TilesInv, StripFillsUp
<1>1. film.generation = Len(batches) /\ film.samples = 1..film.layout.count
      /\ batches[film.generation].layout = film.layout
  BY DEF FilmInv, StripIsOfTheLast
<1>2. s \in Handled(batches[Len(batches)])
  BY <1>1 DEF Handled
<1> QED
  BY <1>1, <1>2 DEF FilmInv, StripInv, Arrives

-----------------------------------------------------------------------------
(* Filmstrip: the cache directory *)

IsSequence(s) == Len(s) \in Nat /\ s = [i \in 1..Len(s) |-> s[i]]
NoTwice(s) == IsSequence(s) /\ \A i, j \in 1..Len(s) : s[i] = s[j] => i = j

\* What Without has kept of the first n images.
KeepsUpTo(f, images, gone, n) ==
    f = [k \in 0..n |-> IF k = 0 THEN << >>
                        ELSE IF images[k] \in gone THEN f[k - 1] ELSE Append(f[k - 1], images[k])]

LEMMA OneMoreIsKept ==
    ASSUME NEW images, NEW gone, NEW n \in Nat, NEW f, KeepsUpTo(f, images, gone, n)
    PROVE  \E h : KeepsUpTo(h, images, gone, n + 1)
<1> DEFINE last == IF images[n + 1] \in gone THEN f[n] ELSE Append(f[n], images[n + 1])
           h == [k \in 0..n + 1 |-> IF k = n + 1 THEN last ELSE f[k]]
<1>1. ASSUME NEW k \in 0..n + 1
      PROVE  h[k] = IF k = 0 THEN << >>
                    ELSE IF images[k] \in gone THEN h[k - 1] ELSE Append(h[k - 1], images[k])
  <2> HIDE DEF last
  <2>1. CASE k = n + 1
    <3>1. h[k] = last /\ h[k - 1] = f[n] /\ k # 0
      BY <2>1
    <3> HIDE DEF h
    <3> QED
      BY <2>1, <3>1 DEF last
  <2>2. CASE k # n + 1
    <3>1. k \in 0..n /\ h[k] = f[k] /\ (k # 0 => k - 1 \in 0..n /\ h[k - 1] = f[k - 1])
      BY <2>2
    <3>2. f[k] = IF k = 0 THEN << >>
                 ELSE IF images[k] \in gone THEN f[k - 1] ELSE Append(f[k - 1], images[k])
      BY <3>1 DEF KeepsUpTo
    <3> HIDE DEF h
    <3> QED
      BY <3>1, <3>2
  <2> QED
    BY <2>1, <2>2
<1>2. h = [k \in 0..n + 1 |-> h[k]]
  OBVIOUS
<1> HIDE DEF h
<1>3. KeepsUpTo(h, images, gone, n + 1)
  BY <1>1, <1>2 DEF KeepsUpTo
<1> QED
  BY <1>3

LEMMA WithoutKeeps ==
    ASSUME NEW images, Len(images) \in Nat, NEW gone
    PROVE  \E f : KeepsUpTo(f, images, gone, Len(images)) /\ Without(images, gone) = f[Len(images)]
<1> DEFINE S == {n \in Nat : \E f : KeepsUpTo(f, images, gone, n)}
<1>1. 0 \in S
  <2> DEFINE f == [k \in 0..0 |-> << >>]
  <2>1. KeepsUpTo(f, images, gone, 0)
    BY DEF KeepsUpTo
  <2> QED
    BY <2>1
<1>2. ASSUME NEW n \in S
      PROVE  n + 1 \in S
  BY OneMoreIsKept
<1>3. S = Nat
  <2> HIDE DEF S
  <2> QED
    BY <1>1, <1>2, Induction DEF S
<1>4. PICK f : KeepsUpTo(f, images, gone, Len(images))
  BY <1>3
<1> QED
  BY <1>4 DEF KeepsUpTo, Without

LEMMA KeptIsNoTwice ==
    ASSUME NEW images, NoTwice(images), NEW gone
    PROVE  /\ NoTwice(Without(images, gone))
           /\ \A i \in 1..Len(Without(images, gone)) : \E m \in 1..Len(images) :
                 Without(images, gone)[i] = images[m] /\ images[m] \notin gone
<1> DEFINE n == Len(images)
           Well(t, k) == NoTwice(t) /\ \A i \in 1..Len(t) : \E m \in 1..k : t[i] = images[m] /\ images[m] \notin gone
<1>1. PICK f : KeepsUpTo(f, images, gone, n) /\ Without(images, gone) = f[n]
  BY WithoutKeeps DEF NoTwice, IsSequence
<1>2. n \in Nat
  BY DEF NoTwice, IsSequence
<1> HIDE DEF n
<1>3. \A k \in 0..n : f[k] = IF k = 0 THEN << >>
                             ELSE IF images[k] \in gone THEN f[k - 1] ELSE Append(f[k - 1], images[k])
  BY <1>1 DEF KeepsUpTo
<1> DEFINE S == {k \in Nat : k <= n => Well(f[k], k)}
<1>4. 0 \in S
  <2>1. f[0] = << >>
    BY <1>2, <1>3
  <2>2. Well(<< >>, 0)
    BY DEF NoTwice, IsSequence
  <2> HIDE DEF Well
  <2> QED
    BY <2>1, <2>2
<1>5. ASSUME NEW k \in S
      PROVE  k + 1 \in S
  <2> SUFFICES ASSUME k + 1 <= n
               PROVE  Well(f[k + 1], k + 1)
    OBVIOUS
  <2>1. Well(f[k], k) /\ k \in Nat /\ k + 1 \in 0..n /\ k + 1 # 0 /\ (k + 1) - 1 = k
    BY <1>2
  <2> DEFINE t == f[k]
  <2>2. f[k + 1] = IF images[k + 1] \in gone THEN t ELSE Append(t, images[k + 1])
    BY <1>3, <2>1
  <2> HIDE DEF t, S
  <2>3. CASE images[k + 1] \in gone
    <3>1. Well(t, k + 1)
      BY <2>1 DEF t
    <3> HIDE DEF Well
    <3> QED
      BY <2>2, <2>3, <3>1
  <2>4. CASE images[k + 1] \notin gone
    <3> DEFINE u == Append(t, images[k + 1])
    <3>1. NoTwice(t) /\ (\A i \in 1..Len(t) : \E m \in 1..k : t[i] = images[m] /\ images[m] \notin gone)
      BY <2>1 DEF t
    <3>2. Len(u) = Len(t) + 1 /\ Len(t) \in Nat /\ u = [i \in 1..Len(t) + 1 |-> IF i = Len(t) + 1 THEN images[k + 1] ELSE t[i]]
      <4>1. t \in Seq({t[i] : i \in 1..Len(t)} \cup {images[k + 1]})
        BY <3>1 DEF NoTwice, IsSequence
      <4> QED
        BY <4>1
    <3> HIDE DEF u
    <3>3. \A i \in 1..Len(t) : u[i] = t[i]
      BY <3>2
    <3>4. u[Len(t) + 1] = images[k + 1]
      BY <3>2
    <3>5. \A i \in 1..Len(t) : t[i] # images[k + 1]
      BY <2>1, <3>1, <1>2 DEF NoTwice, n
    <3>6. NoTwice(u)
      <4>1. ASSUME NEW i \in 1..Len(u), NEW j \in 1..Len(u), u[i] = u[j]
            PROVE  i = j
        BY <3>1, <3>2, <3>3, <3>4, <3>5, <4>1 DEF NoTwice
      <4>2. IsSequence(u)
        BY <3>2 DEF IsSequence
      <4> QED
        BY <4>1, <4>2 DEF NoTwice
    <3>7. ASSUME NEW i \in 1..Len(u)
          PROVE  \E m \in 1..k + 1 : u[i] = images[m] /\ images[m] \notin gone
      <4>1. CASE i = Len(t) + 1
        BY <2>1, <2>4, <3>4, <4>1
      <4>2. CASE i # Len(t) + 1
        <5>1. i \in 1..Len(t)
          BY <3>2, <4>2
        <5> QED
          BY <2>1, <3>1, <3>3, <5>1
      <4> QED
        BY <4>1, <4>2
    <3>8. Well(u, k + 1)
      BY <3>6, <3>7
    <3> HIDE DEF Well
    <3> QED
      BY <2>2, <2>4, <3>8 DEF u
  <2> QED
    BY <2>3, <2>4
<1>6. S = Nat
  <2> HIDE DEF S, Well
  <2>1. S \subseteq Nat
    BY DEF S
  <2> QED
    BY <1>4, <1>5, <2>1, Induction
<1>7. Well(f[n], n)
  <2> HIDE DEF Well
  <2> QED
    BY <1>2, <1>6
<1> QED
  BY <1>1, <1>7 DEF n

LEMMA NothingToKeepOut ==
    ASSUME NEW images, NoTwice(images), NEW gone, \A i \in 1..Len(images) : images[i] \notin gone
    PROVE  Without(images, gone) = images
<1> DEFINE n == Len(images)
<1>1. PICK f : KeepsUpTo(f, images, gone, n) /\ Without(images, gone) = f[n]
  BY WithoutKeeps DEF NoTwice, IsSequence
<1>2. n \in Nat /\ images = [i \in 1..n |-> images[i]]
  BY DEF NoTwice, IsSequence
<1> HIDE DEF n
<1>3. \A k \in 0..n : f[k] = IF k = 0 THEN << >>
                             ELSE IF images[k] \in gone THEN f[k - 1] ELSE Append(f[k - 1], images[k])
  BY <1>1 DEF KeepsUpTo
<1> DEFINE S == {k \in Nat : k <= n => f[k] = [i \in 1..k |-> images[i]]}
<1>4. 0 \in S
  <2>1. f[0] = << >>
    <3>1. 0 \in 0..n
      BY <1>2
    <3> QED
      BY <1>3, <3>1
  <2> QED
    BY <2>1
<1>5. ASSUME NEW k \in S
      PROVE  k + 1 \in S
  <2> SUFFICES ASSUME k + 1 <= n
               PROVE  f[k + 1] = [i \in 1..k + 1 |-> images[i]]
    OBVIOUS
  <2>1. k \in Nat /\ k + 1 \in 0..n /\ k + 1 # 0 /\ (k + 1) - 1 = k /\ k + 1 \in 1..n /\ k <= n
    BY <1>2
  <2>2. f[k + 1] = Append(f[k], images[k + 1])
    BY <1>3, <2>1 DEF n
  <2> DEFINE t == [i \in 1..k |-> images[i]]
  <2>3. f[k] = t
    BY <2>1
  <2>4. Append(t, images[k + 1]) = [i \in 1..k + 1 |-> images[i]]
    <3>1. t \in Seq({images[i] : i \in 1..k + 1}) /\ Len(t) = k
      BY <2>1
    <3> HIDE DEF t
    <3>2. Append(t, images[k + 1]) = [i \in 1..k + 1 |-> IF i = k + 1 THEN images[k + 1] ELSE t[i]]
      BY <3>1
    <3> QED
      BY <2>1, <3>2 DEF t
  <2> QED
    BY <2>2, <2>3, <2>4
<1>6. S = Nat
  <2> HIDE DEF S
  <2>1. S \subseteq Nat
    BY DEF S
  <2> QED
    BY <1>4, <1>5, <2>1, Induction
<1> QED
  BY <1>1, <1>2, <1>6

\* What is kept of a sequence without a prefix of it is the rest of it.
Rest(s, from, k) == [i \in 1..k - from + 1 |-> s[i + from - 1]]

LEMMA RestGrows ==
    ASSUME NEW s, NEW from \in Nat, NEW k \in Nat, 1 <= from, from <= k + 1
    PROVE  Append(Rest(s, from, k), s[k + 1]) = Rest(s, from, k + 1)
<1> DEFINE t == Rest(s, from, k)
           m == k - from + 1
<1>1. m \in Nat /\ t = [i \in 1..m |-> s[i + from - 1]]
  BY DEF Rest
<1>2. m + from = k + 1
  OBVIOUS
<1>3. Rest(s, from, k + 1) = [i \in 1..m + 1 |-> s[i + from - 1]]
  BY DEF Rest
<1> HIDE DEF t, m
<1>4. t \in Seq({t[i] : i \in 1..m}) /\ Len(t) = m
  <2>1. t = [i \in 1..m |-> t[i]]
    BY <1>1
  <2>2. t \in [1..m -> {t[i] : i \in 1..m}]
    BY <2>1
  <2>3. t \in Seq({t[i] : i \in 1..m}) /\ DOMAIN t = 1..m
    BY <1>1, <2>2, SeqDef, ZenonT(40)
  <2> QED
    BY <1>1, <2>3, LenProperties
<1>5. Append(t, s[k + 1]) = [i \in 1..m + 1 |-> IF i = m + 1 THEN s[k + 1] ELSE t[i]]
  BY <1>4
<1>6. ASSUME NEW i \in 1..m + 1
      PROVE  (IF i = m + 1 THEN s[k + 1] ELSE t[i]) = s[i + from - 1]
  <2>1. CASE i = m + 1
    <3>1. i + from - 1 = k + 1
      BY <1>1, <1>2, <2>1
    <3> QED
      BY <2>1, <3>1
  <2>2. CASE i # m + 1
    BY <1>1, <2>2
  <2> QED
    BY <2>1, <2>2
<1> QED
  BY <1>3, <1>5, <1>6 DEF t

LEMMA RestOfSequence ==
    ASSUME NEW images, NoTwice(images), NEW from \in 1..Len(images) + 1
    PROVE  /\ SubSeq(images, from, Len(images)) = Rest(images, from, Len(images))
           /\ \A k \in 1..Len(images) : images[k] \in ToSet(SubSeq(images, 1, from - 1)) <=> k < from
<1> DEFINE n == Len(images)
<1>1. n \in Nat /\ images \in Seq({images[i] : i \in 1..n}) /\ from \in 1..n + 1
  BY DEF NoTwice, IsSequence
<1>2. SubSeq(images, from, n) = Rest(images, from, n)
  <2>1. SubSeq(images, from, n) = [i \in 1..n - from + 1 |-> images[i + from - 1]]
    BY <1>1
  <2> QED
    BY <2>1 DEF Rest
<1> DEFINE t == SubSeq(images, 1, from - 1)
<1>3. t = [i \in 1..from - 1 |-> images[i]]
  <2>1. t = [i \in 1..(from - 1) - 1 + 1 |-> images[i + 1 - 1]]
    BY <1>1
  <2> HIDE DEF t, n
  <2> QED
    BY <1>1, <2>1
<1> HIDE DEF t
<1>4. ToSet(t) = {images[i] : i \in 1..from - 1}
  BY <1>3 DEF ToSet
<1>5. ASSUME NEW k \in 1..n
      PROVE  images[k] \in ToSet(t) <=> k < from
  <2>1. ASSUME k < from PROVE images[k] \in ToSet(t)
    BY <1>1, <1>4, <2>1
  <2>2. ASSUME images[k] \in ToSet(t) PROVE k < from
    <3>1. PICK i \in 1..from - 1 : images[k] = images[i]
      BY <1>4, <2>2
    <3>2. i \in 1..n /\ i < from
      BY <1>1, <3>1
    <3> QED
      BY <3>1, <3>2 DEF NoTwice
  <2> QED
    BY <2>1, <2>2
<1> QED
  BY <1>2, <1>5 DEF t

LEMMA RestIsKept ==
    ASSUME NEW images, NoTwice(images), NEW from \in 1..Len(images) + 1
    PROVE  Without(images, ToSet(SubSeq(images, 1, from - 1))) = SubSeq(images, from, Len(images))
<1> DEFINE n == Len(images)
           gone == ToSet(SubSeq(images, 1, from - 1))
<1>1. PICK f : KeepsUpTo(f, images, gone, n) /\ Without(images, gone) = f[n]
  BY WithoutKeeps DEF NoTwice, IsSequence
<1>2. n \in Nat /\ from \in 1..n + 1 /\ from \in Nat /\ from >= 1
  BY DEF NoTwice, IsSequence
<1>3. SubSeq(images, from, n) = Rest(images, from, n) /\ \A k \in 1..n : images[k] \in gone <=> k < from
  BY RestOfSequence
<1> HIDE DEF n, gone
<1>4. \A k \in 0..n : f[k] = IF k = 0 THEN << >>
                             ELSE IF images[k] \in gone THEN f[k - 1] ELSE Append(f[k - 1], images[k])
  BY <1>1 DEF KeepsUpTo
<1>5. Rest(images, from, from - 1) = << >>
  BY <1>2 DEF Rest
<1> DEFINE S == {k \in Nat : k <= n => f[k] = IF k < from THEN << >> ELSE Rest(images, from, k)}
<1>6. 0 \in S
  <2>1. f[0] = << >>
    BY <1>2, <1>4
  <2> QED
    BY <1>2, <2>1
<1>7. ASSUME NEW k \in S
      PROVE  k + 1 \in S
  <2> SUFFICES ASSUME k + 1 <= n
               PROVE  f[k + 1] = IF k + 1 < from THEN << >> ELSE Rest(images, from, k + 1)
    OBVIOUS
  <2>1. k \in Nat /\ k + 1 \in 0..n /\ k + 1 # 0 /\ (k + 1) - 1 = k /\ k + 1 \in 1..n /\ k <= n
    BY <1>2
  <2>2. f[k] = IF k < from THEN << >> ELSE Rest(images, from, k)
    BY <2>1
  <2> HIDE DEF S
  <2>3. f[k + 1] = IF images[k + 1] \in gone THEN f[k] ELSE Append(f[k], images[k + 1])
    BY <1>4, <2>1
  <2>4. CASE k + 1 < from
    BY <1>2, <1>3, <2>1, <2>2, <2>3, <2>4
  <2>5. CASE k + 1 >= from
    <3>1. f[k] = Rest(images, from, k)
      <4>1. CASE k < from
        <5>1. k = from - 1
          BY <1>2, <2>1, <2>5, <4>1
        <5> QED
          BY <1>5, <2>2, <4>1, <5>1
      <4>2. CASE k >= from
        BY <1>2, <2>1, <2>2, <4>2
      <4> QED
        BY <1>2, <2>1, <4>1, <4>2
    <3>2. images[k + 1] \notin gone
      BY <1>2, <1>3, <2>1, <2>5
    <3>3. Append(Rest(images, from, k), images[k + 1]) = Rest(images, from, k + 1)
      BY <1>2, <2>1, <2>5, RestGrows
    <3> QED
      BY <1>2, <2>1, <2>3, <2>5, <3>1, <3>2, <3>3
  <2> QED
    BY <1>2, <2>1, <2>4, <2>5
<1>8. S = Nat
  <2> HIDE DEF S
  <2>1. S \subseteq Nat
    BY DEF S
  <2> QED
    BY <1>6, <1>7, <2>1, Induction
<1>9. f[n] = Rest(images, from, n)
  <2>1. f[n] = IF n < from THEN << >> ELSE Rest(images, from, n)
    BY <1>2, <1>8
  <2>2. n < from => n = from - 1
    BY <1>2
  <2> QED
    BY <1>2, <1>5, <2>1, <2>2
<1> QED
  BY <1>1, <1>3, <1>9 DEF gone, n

-----------------------------------------------------------------------------
(* Filmstrip: the limit *)

LEMMA NoBytes == BytesOf(<< >>) = 0
<1> DEFINE Sums(it, images) == it = [s \in SUBSET (DOMAIN images) |-> IF s = {} THEN 0 ELSE
                 it[s \ {CHOOSE y \in s : TRUE}] + images[CHOOSE y \in s : TRUE].layout.cost]
<1>1. BytesOf(<< >>) = (CHOOSE it : it = [s \in SUBSET (DOMAIN << >>) |-> IF s = {} THEN 0 ELSE
                 it[s \ {CHOOSE y \in s : TRUE}] + << >>[CHOOSE y \in s : TRUE].layout.cost])[DOMAIN << >>]
  BY DEF BytesOf, FoldSeq, FoldFunction, FoldFunctionOnSet, MapThenFoldSet
<1> DEFINE zero == [s \in SUBSET (DOMAIN << >>) |-> 0]
<1>2. Sums(zero, << >>)
  OBVIOUS
<1> HIDE DEF Sums, zero
<1>3. \A it : Sums(it, << >>) => it[DOMAIN << >>] = 0
  BY DEF Sums
<1>4. BytesOf(<< >>) = (CHOOSE it : Sums(it, << >>))[DOMAIN << >>]
  BY <1>1 DEF Sums
<1> QED
  BY <1>2, <1>3, <1>4

LEMMA LeastIsMin ==
    ASSUME NEW K \in SUBSET Nat, K # {}
    PROVE  Min(K) \in K
<1>1. PICK m \in K : \A k \in K : m <= k
  BY LeastNumber
<1> QED
  BY <1>1 DEF Min

LEMMA EvictedIsWithinLimit ==
    ASSUME NEW images, NoTwice(images)
    PROVE  /\ Evict(images, images).images = Evict(images, images).index
           /\ BytesOf(Evict(images, images).index) <= DirectoryLimit
<1> DEFINE n == Len(images)
           K == {k \in 1..n + 1 : BytesOf(SubSeq(images, k, n)) <= DirectoryLimit}
           from == Min(K)
<1>1. n \in Nat /\ DirectoryLimit \in Nat
  BY FilmstripAssumption DEF NoTwice, IsSequence
<1>2. SubSeq(images, n + 1, n) = << >>
  <2>1. images \in Seq({images[i] : i \in 1..n})
    BY DEF NoTwice, IsSequence
  <2> QED
    BY <1>1, <2>1
<1>3. n + 1 \in K
  <2> HIDE DEF n
  <2>1. BytesOf(SubSeq(images, n + 1, n)) = 0
    BY <1>2, NoBytes
  <2> QED
    BY <1>1, <2>1
<1>4. from \in K
  <2>1. K \in SUBSET Nat
    BY <1>1
  <2> HIDE DEF K
  <2> QED
    BY <1>3, <2>1, LeastIsMin
<1>5. /\ Evict(images, images).index = SubSeq(images, from, n)
      /\ Evict(images, images).images = Without(images, ToSet(SubSeq(images, 1, from - 1)))
  BY DEF Evict
<1> HIDE DEF from
<1> QED
  BY <1>4, <1>5, RestIsKept

LEMMA TouchedIsNoTwice ==
    ASSUME NEW images, NoTwice(images), NEW i
    PROVE  NoTwice(Touched(images, i))
<1> DEFINE t == Without(images, {i})
           u == Append(t, i)
<1>1. NoTwice(t) /\ \A k \in 1..Len(t) : t[k] # i
  BY KeptIsNoTwice
<1>2. Touched(images, i) = u
  BY DEF Touched
<1> HIDE DEF t
<1>3. Len(t) \in Nat /\ t = [k \in 1..Len(t) |-> t[k]]
  BY <1>1 DEF NoTwice, IsSequence
<1>4. Len(u) = Len(t) + 1 /\ u = [k \in 1..Len(t) + 1 |-> u[k]] /\ u[Len(t) + 1] = i /\ \A k \in 1..Len(t) : u[k] = t[k]
  BY <1>3, AppendedSequence
<1> HIDE DEF u
<1>5. ASSUME NEW j \in 1..Len(u), NEW k \in 1..Len(u), u[j] = u[k]
      PROVE  j = k
  <2>1. /\ j \in 1..Len(t) \/ (j = Len(t) + 1 /\ u[j] = i)
        /\ k \in 1..Len(t) \/ (k = Len(t) + 1 /\ u[k] = i)
    BY <1>3, <1>4
  <2>2. \A m \in 1..Len(t) : u[m] # i
    BY <1>1, <1>4
  <2>3. CASE j \in 1..Len(t) /\ k \in 1..Len(t)
    <3>1. t[j] = t[k]
      BY <1>4, <1>5, <2>3
    <3> QED
      BY <1>1, <2>3, <3>1 DEF NoTwice
  <2> QED
    BY <1>5, <2>1, <2>2, <2>3
<1> QED
  BY <1>2, <1>3, <1>4, <1>5 DEF NoTwice, IsSequence

LEMMA EvictedIsNoTwice ==
    ASSUME NEW index, NEW images, NoTwice(images)
    PROVE  NoTwice(Evict(index, images).images)
<1>1. \E gone : Evict(index, images).images = Without(images, gone)
  BY DEF Evict
<1> QED
  BY <1>1, KeptIsNoTwice

LEMMA PartlyEvictedIsNoTwice ==
    ASSUME NEW index, NEW images, NoTwice(images), NEW left \in PartlyEvicted(index, images)
    PROVE  NoTwice(left.images)
<1>1. \E gone : left.images = Without(images, gone)
  BY DEF PartlyEvicted
<1> QED
  BY <1>1, KeptIsNoTwice

LEMMA FailedUseIsNoTwice ==
    ASSUME NEW b, NoTwice(directory), NEW left \in FailedUse(b)
    PROVE  NoTwice(left.images)
<1> DEFINE images == Touched(directory, Key(b))
<1>1. NoTwice(images)
  BY TouchedIsNoTwice
<1>2. left.images = directory \/ \E index : left \in PartlyEvicted(index, images)
  BY DEF FailedUse
<1> HIDE DEF images
<1> QED
  BY <1>1, <1>2, PartlyEvictedIsNoTwice

\* The index of a worker that is alone in the directory is the directory.
CacheInv ==
    /\ NoTwice(directory)
    /\ \A g \in 1..Len(batches) : batches[g].alone =>
          /\ \A o \in 1..Len(batches) : o # g => batches[o].phase \in {"start", "done"}
          /\ batches[g].phase # "start" /\ batches[g].cached
          /\ batches[g].phase # "done" => batches[g].index = directory
          /\ BytesOf(directory) <= DirectoryLimit

LEMMA CacheStep ==
    ASSUME FilmInv, CacheInv, NEW g \in 1..Len(batches), batches[g].phase \notin {"start", "done"}, NEW c, Step(g, c),
           c.alone => batches[g].alone, c.cached = batches[g].cached, c.phase # "start", NoTwice(directory'),
           c.alone => (c.phase # "done" => c.index = directory') /\ BytesOf(directory') <= DirectoryLimit
    PROVE  CacheInv'
<1> DEFINE n == Len(batches)
<1>1. n \in Nat /\ DOMAIN batches = 1..n /\ batches = [h \in 1..n |-> batches[h]]
  BY FunctionIsSequence DEF FilmInv, Batches
<1>2. batches' = [h \in 1..n |-> IF h = g THEN c ELSE batches[h]]
  BY <1>1 DEF Step
<1>3. batches' = [h \in 1..n |-> batches'[h]]
  BY <1>2
<1>4. Len(batches') = n
  BY <1>1, <1>3, FunctionIsSequence
<1>5. batches'[g] = c /\ \A h \in 1..n : h # g => batches'[h] = batches[h]
  BY <1>2
<1>6. ASSUME NEW h \in 1..n, batches'[h].alone
      PROVE  h = g /\ \A o \in 1..n : o # h => batches'[o].phase \in {"start", "done"}
  <2>1. h = g
    BY <1>5, <1>6 DEF CacheInv
  <2> QED
    BY <1>5, <1>6, <2>1 DEF CacheInv
<1> QED
  BY <1>4, <1>5, <1>6 DEF CacheInv

LEMMA FollowingIsAlone ==
    ASSUME NEW b, IsBatch(b), b.phase # "start"
    PROVE  LET c == Following(b)
           IN  c.alone = b.alone /\ c.cached = b.cached /\ c.phase # "start" /\ (c.phase # "done" => c.index = b.index)
<1> DEFINE c == Following(b)
<1>1. CASE b.cancelled \/ b.sample = b.layout.count
  <2>1. c = [b EXCEPT !.phase = "done", !.index = << >>]
    BY <1>1 DEF Following
  <2> HIDE DEF c
  <2>2. c.alone = b.alone /\ c.cached = b.cached /\ c.phase = "done"
    BY <2>1 DEF IsBatch
  <2> QED
    BY <2>2 DEF c
<1>2. CASE ~(b.cancelled \/ b.sample = b.layout.count)
  <2>1. c = [b EXCEPT !.phase = "get", !.sample = b.sample + 1]
    BY <1>2 DEF Following, IsBatch
  <2> HIDE DEF c
  <2>2. c.alone = b.alone /\ c.cached = b.cached /\ c.phase = "get" /\ c.index = b.index
    BY <2>1 DEF IsBatch
  <2> QED
    BY <2>2 DEF c
<1> QED
  BY <1>1, <1>2

\* A step that touches a thumbnail in the directory and in the index.
LEMMA TouchStep ==
    ASSUME FilmInv, CacheInv, NEW g \in 1..Len(batches), batches[g].phase \notin {"start", "done"}, NEW i,
           LET left == Evict(Touched(batches[g].index, i), Touched(directory, i))
           IN  directory' = left.images /\ Step(g, Following([batches[g] EXCEPT !.index = left.index]))
    PROVE  CacheInv'
<1> DEFINE b == batches[g]
           d == Touched(directory, i)
           left == Evict(Touched(b.index, i), d)
           index == left.index
           e == [b EXCEPT !.index = index]
           c == Following(e)
<1>1. IsBatch(b) /\ NoTwice(d)
  BY TouchedIsNoTwice DEF FilmInv, Batches, CacheInv
<1>2. directory' = left.images /\ Step(g, c)
  OBVIOUS
<1>3. NoTwice(directory')
  BY <1>1, <1>2, EvictedIsNoTwice
<1>4. b.alone => index = directory' /\ BytesOf(directory') <= DirectoryLimit
  <2> SUFFICES ASSUME b.alone
               PROVE  index = directory' /\ BytesOf(directory') <= DirectoryLimit
    OBVIOUS
  <2>1. b.index = directory
    BY DEF CacheInv
  <2>2. left = Evict(d, d)
    BY <2>1
  <2> HIDE DEF d, left
  <2> QED
    BY <1>1, <1>2, <2>2, EvictedIsWithinLimit
<1> HIDE DEF index, left, d
<1>5. IsBatch(e) /\ e.phase = b.phase /\ e.index = index /\ e.alone = b.alone /\ e.cached = b.cached
  <2>1. IsBatch(e) /\ e.phase = b.phase
    BY <1>1, AnyIndex
  <2>2. e.index = index /\ e.alone = b.alone /\ e.cached = b.cached
    BY <1>1 DEF IsBatch
  <2> QED
    BY <2>1, <2>2
<1> HIDE DEF e
<1>6. c.alone = e.alone /\ c.cached = e.cached /\ c.phase # "start" /\ (c.phase # "done" => c.index = e.index)
  BY <1>5, FollowingIsAlone
<1> HIDE DEF c
<1> QED
  BY <1>2, <1>3, <1>4, <1>5, <1>6, CacheStep

LEMMA CacheGet ==
    ASSUME FilmInv, CacheInv, NEW g \in 1..Len(batches), GetThumbnail(g)
    PROVE  CacheInv'
<1> DEFINE b == batches[g]
           key == Key(b)
<1>1. IsBatch(b) /\ b.phase = "get" /\ NoTwice(directory)
  BY DEF FilmInv, Batches, GetThumbnail, CacheInv
<1>2. b.alone => b.index = directory /\ b.cached /\ BytesOf(directory) <= DirectoryLimit
  BY <1>1 DEF CacheInv
<1> DEFINE hit == b.cached /\ key \in ToSet(directory)
           unlisted == Without(b.index, {key})
           atEnd == [b EXCEPT !.phase = "done", !.index = << >>]
           asMiss == [b EXCEPT !.phase = "decode", !.index = unlisted]
           Touches == LET left == Evict(Touched(b.index, key), Touched(directory, key))
                      IN  directory' = left.images /\ Step(g, Following([b EXCEPT !.index = left.index]))
           Fails == \E left \in FailedUse(b) :
                      /\ directory' = left.images
                      /\ Step(g, [b EXCEPT !.phase = "decode", !.index = left.index, !.alone = FALSE])
<1>3. \/ UNCHANGED directory /\ Step(g, atEnd)
      \/ Touches
      \/ Fails
      \/ ~hit /\ UNCHANGED directory /\ Step(g, asMiss)
  BY <1>1 DEF GetThumbnail, IsBatch
<1>4. CASE UNCHANGED directory /\ Step(g, atEnd)
  <2> DEFINE c == atEnd
  <2>1. Step(g, c) /\ UNCHANGED directory
    BY <1>4
  <2>2. c.alone = b.alone /\ c.cached = b.cached /\ c.phase = "done"
    BY <1>1 DEF IsBatch
  <2> HIDE DEF c
  <2> QED
    BY <1>1, <1>2, <2>1, <2>2, CacheStep
<1>5. CASE Touches
  <2>1. LET left == Evict(Touched(b.index, key), Touched(directory, key))
        IN  directory' = left.images /\ Step(g, Following([b EXCEPT !.index = left.index]))
    BY <1>5
  <2> HIDE DEF key
  <2> QED
    BY <1>1, <2>1, TouchStep
<1>6. CASE Fails
  <2> PICK left \in FailedUse(b) :
              /\ directory' = left.images
              /\ Step(g, [b EXCEPT !.phase = "decode", !.index = left.index, !.alone = FALSE])
    BY <1>6
  <2>1. NoTwice(directory')
    BY <1>1, FailedUseIsNoTwice
  <2> DEFINE c == [b EXCEPT !.phase = "decode", !.index = left.index, !.alone = FALSE]
  <2>2. Step(g, c)
    OBVIOUS
  <2>3. ~c.alone /\ c.cached = b.cached /\ c.phase = "decode"
    BY <1>1 DEF IsBatch
  <2> HIDE DEF c
  <2> QED
    BY <1>1, <2>1, <2>2, <2>3, CacheStep
<1>7. CASE ~hit /\ UNCHANGED directory /\ Step(g, asMiss)
  <2> DEFINE index == unlisted
             c == [b EXCEPT !.phase = "decode", !.index = index]
  <2>1. Step(g, c) /\ UNCHANGED directory
    BY <1>7
  <2>2. b.alone => index = directory
    <3> SUFFICES ASSUME b.alone
                 PROVE  index = directory
      OBVIOUS
    <3>1. \A i \in 1..Len(directory) : directory[i] \notin {key}
      BY <1>1, <1>2, <1>7, FunctionIsSequence DEF ToSet, NoTwice, IsSequence
    <3> HIDE DEF key
    <3> QED
      BY <1>1, <1>2, <3>1, NothingToKeepOut
  <2> HIDE DEF index
  <2>3. c.alone = b.alone /\ c.cached = b.cached /\ c.phase = "decode" /\ c.index = index
    BY <1>1 DEF IsBatch
  <2> HIDE DEF c
  <2> QED
    BY <1>1, <1>2, <2>1, <2>2, <2>3, CacheStep
<1> QED
  BY <1>3, <1>4, <1>5, <1>6, <1>7

LEMMA CacheGenerate ==
    ASSUME FilmInv, CacheInv, NEW g \in 1..Len(batches), GenerateThumbnail(g)
    PROVE  CacheInv'
<1> DEFINE b == batches[g]
<1>1. IsBatch(b) /\ b.phase = "decode" /\ NoTwice(directory) /\ UNCHANGED directory
  BY DEF FilmInv, Batches, GenerateThumbnail, CacheInv
<1>2. b.alone => b.index = directory /\ BytesOf(directory) <= DirectoryLimit
  BY <1>1 DEF CacheInv
<1>3. CASE Step(g, [b EXCEPT !.phase = "put"])
  <2> DEFINE c == [b EXCEPT !.phase = "put"]
  <2>1. c.alone = b.alone /\ c.cached = b.cached /\ c.phase = "put" /\ c.index = b.index
    BY <1>1 DEF IsBatch
  <2>2. Step(g, c)
    BY <1>3
  <2> HIDE DEF c
  <2> QED
    BY <1>1, <1>2, <2>1, <2>2, CacheStep
<1>4. CASE Step(g, Following([b EXCEPT !.failed = @ \cup {b.sample}]))
  <2> DEFINE failures == b.failed \cup {b.sample}
             e == [b EXCEPT !.failed = failures]
             c == Following(e)
  <2>1. Step(g, c)
    BY <1>1, <1>4 DEF IsBatch
  <2>2. b.failed \subseteq failures
    OBVIOUS
  <2> HIDE DEF failures
  <2>3. IsBatch(e) /\ e.phase = b.phase
    BY <1>1, <2>2, AnyFailures
  <2>4. e.alone = b.alone /\ e.cached = b.cached /\ e.index = b.index
    BY <1>1 DEF IsBatch
  <2> HIDE DEF e
  <2>5. c.alone = e.alone /\ c.cached = e.cached /\ c.phase # "start" /\ (c.phase # "done" => c.index = e.index)
    BY <1>1, <2>3, FollowingIsAlone
  <2> HIDE DEF c
  <2> QED
    BY <1>1, <1>2, <2>1, <2>4, <2>5, CacheStep
<1> QED
  BY <1>3, <1>4 DEF GenerateThumbnail

LEMMA CachePut ==
    ASSUME FilmInv, CacheInv, NEW g \in 1..Len(batches), PutThumbnail(g)
    PROVE  CacheInv'
<1> DEFINE b == batches[g]
           key == Key(b)
<1>1. IsBatch(b) /\ b.phase = "put" /\ NoTwice(directory)
  BY DEF FilmInv, Batches, PutThumbnail, CacheInv
<1>2. b.alone => b.index = directory /\ BytesOf(directory) <= DirectoryLimit
  BY <1>1 DEF CacheInv
<1>3. \/ LET left == Evict(Touched(b.index, key), Touched(directory, key))
         IN  directory' = left.images /\ Step(g, Following([b EXCEPT !.index = left.index]))
      \/ Step(g, Following(b)) /\ UNCHANGED directory
      \/ \E left \in FailedUse(b) :
            directory' = left.images /\ Step(g, Following([b EXCEPT !.index = left.index, !.alone = FALSE]))
  BY DEF PutThumbnail
<1> HIDE DEF key
<1>4. CASE Step(g, Following(b)) /\ UNCHANGED directory
  <2> DEFINE c == Following(b)
  <2>1. c.alone = b.alone /\ c.cached = b.cached /\ c.phase # "start" /\ (c.phase # "done" => c.index = b.index)
    BY <1>1, FollowingIsAlone
  <2>2. Step(g, c)
    BY <1>4
  <2> HIDE DEF c
  <2> QED
    BY <1>1, <1>2, <1>4, <2>1, <2>2, CacheStep
<1>5. CASE \E left \in FailedUse(b) :
              directory' = left.images /\ Step(g, Following([b EXCEPT !.index = left.index, !.alone = FALSE]))
  <2> DEFINE no == FALSE
  <2>1. ~no /\ \E left \in FailedUse(b) :
                  directory' = left.images /\ Step(g, Following(Used(b, left.index, no)))
    BY <1>5 DEF Used
  <2> HIDE DEF no
  <2> PICK left \in FailedUse(b) :
              directory' = left.images /\ Step(g, Following(Used(b, left.index, no)))
    BY <2>1
  <2>2. NoTwice(directory')
    BY <1>1, FailedUseIsNoTwice
  <2> DEFINE e == Used(b, left.index, no)
             c == Following(e)
  <2>3. Step(g, c)
    OBVIOUS
  <2>4. ~e.alone /\ e.cached = b.cached
    BY <1>1, <2>1 DEF IsBatch, Used
  <2>5. IsBatch(e) /\ e.phase = b.phase
    BY <1>1, AnyUse
  <2> HIDE DEF e
  <2>6. c.alone = e.alone /\ c.cached = e.cached /\ c.phase # "start"
    BY <1>1, <2>5, FollowingIsAlone
  <2> HIDE DEF c
  <2> QED
    BY <1>1, <2>2, <2>3, <2>4, <2>6, CacheStep
<1> QED
  BY <1>1, <1>3, <1>4, <1>5, TouchStep

\* A worker gets the cache, and is alone in it where the others are idle, or goes without.
LEMMA CacheOpen ==
    ASSUME FilmInv, CacheInv, NEW g \in 1..Len(batches), OpenCache(g)
    PROVE  CacheInv'
<1> DEFINE n == Len(batches)
           b == batches[g]
           left == Evict(directory, directory)
           idle == \A o \in DOMAIN batches : ~Busy(o)
<1>1. n \in Nat /\ DOMAIN batches = 1..n
  BY FunctionIsSequence DEF FilmInv, Batches
<1>2. \A h \in 1..n : IsBatch(batches[h])
  BY DEF FilmInv, Batches
<1>3. NoTwice(directory)
  BY DEF CacheInv
<1>4. PICK cached, index, alone :
         /\ Begins(g, cached, index, alone) /\ NoTwice(directory')
         /\ alone => cached /\ idle /\ index = directory' /\ BytesOf(directory') <= DirectoryLimit
  <2>1. CASE directory' = left.images /\ Begins(g, TRUE, left.index, idle)
    <3>1. NoTwice(left.images) /\ left.index = left.images /\ BytesOf(left.images) <= DirectoryLimit
      BY <1>3, EvictedIsNoTwice, EvictedIsWithinLimit
    <3> DEFINE kept == left.index
    <3>2. kept = directory' /\ NoTwice(directory') /\ BytesOf(directory') <= DirectoryLimit /\ Begins(g, TRUE, kept, idle)
      BY <2>1, <3>1
    <3> HIDE DEF idle, kept
    <3> WITNESS TRUE, kept, idle
    <3> QED
      BY <3>2
  <2>2. CASE /\ directory' \in {directory} \cup {kept.images : kept \in PartlyEvicted(directory, directory)}
             /\ Begins(g, FALSE, << >>, FALSE)
    <3>1. NoTwice(directory')
      BY <1>3, <2>2, PartlyEvictedIsNoTwice
    <3> QED
      BY <2>2, <3>1
  <2> QED
    BY <2>1, <2>2 DEF OpenCache
<1>5. alone => \A o \in 1..n : o # g => batches[o].phase \in {"start", "done"}
  BY <1>1, <1>4 DEF Busy
<1> HIDE DEF n, left, idle
<1> DEFINE c == [b EXCEPT !.phase = "get", !.cached = cached, !.index = index, !.fingerprint = sourceOnDisk,
                          !.alone = alone]
<1>6. batches' = [h \in 1..n |-> IF h = g THEN c ELSE [batches[h] EXCEPT !.alone = FALSE]]
  BY <1>1, <1>4 DEF Begins
<1>7. c.phase = "get" /\ c.index = index /\ (c.alone => alone) /\ (cached => c.cached)
  BY <1>2 DEF IsBatch, n
<1>8. ASSUME NEW h \in 1..n, h # g
      PROVE  batches'[h].phase = batches[h].phase /\ ~batches'[h].alone
  <2> DEFINE d == [batches[h] EXCEPT !.alone = FALSE]
  <2>1. batches'[h] = d
    BY <1>6, <1>8
  <2>2. d.phase = batches[h].phase /\ ~d.alone
    BY <1>2 DEF IsBatch
  <2> HIDE DEF d
  <2> QED
    BY <2>1, <2>2
<1>9. batches'[g] = c
  BY <1>6 DEF n
<1>10. Len(batches') = n
  <2>1. batches' = [h \in 1..n |-> batches'[h]]
    BY <1>6
  <2> QED
    BY <1>1, <2>1, FunctionIsSequence DEF n
<1> HIDE DEF c
<1> QED
  BY <1>4, <1>5, <1>7, <1>8, <1>9, <1>10 DEF CacheInv, n

\* New workers start, and earlier ones are asked to stop.
LEMMA CacheStart ==
    ASSUME FilmInv, CacheInv, UNCHANGED directory, NEW m \in Nat, Len(batches) <= m, Len(batches') = m,
           \A h \in 1..Len(batches) : batches'[h] = [batches[h] EXCEPT !.cancelled = TRUE],
           \A h \in 1..m : h \in 1..Len(batches) \/ (batches'[h].phase = "start" /\ ~batches'[h].alone)
    PROVE  CacheInv'
<1>1. Len(batches) \in Nat /\ \A h \in 1..Len(batches) : IsBatch(batches[h])
  BY DEF FilmInv, Batches
<1>2. ASSUME NEW h \in 1..Len(batches)
      PROVE  /\ batches'[h].phase = batches[h].phase /\ batches'[h].alone = batches[h].alone
             /\ batches'[h].index = batches[h].index /\ batches'[h].cached = batches[h].cached
  <2> DEFINE c == [batches[h] EXCEPT !.cancelled = TRUE]
  <2>1. /\ c.phase = batches[h].phase /\ c.alone = batches[h].alone /\ c.index = batches[h].index
        /\ c.cached = batches[h].cached
    BY <1>1 DEF IsBatch
  <2>2. batches'[h] = c
    OBVIOUS
  <2> HIDE DEF c
  <2> QED
    BY <2>1, <2>2
<1>3. ASSUME NEW g \in 1..m, batches'[g].alone
      PROVE  /\ \A o \in 1..m : o # g => batches'[o].phase \in {"start", "done"}
             /\ batches'[g].phase # "start" /\ batches'[g].cached
             /\ batches'[g].phase # "done" => batches'[g].index = directory
             /\ BytesOf(directory) <= DirectoryLimit
  <2>1. g \in 1..Len(batches) /\ batches[g].alone
    BY <1>2, <1>3
  <2> QED
    BY <1>2, <2>1 DEF CacheInv
<1> QED
  BY <1>3 DEF CacheInv

LEMMA CacheStarted ==
    ASSUME FilmInv, CacheInv, UNCHANGED directory, NEW source, NEW layout, StartThumbnails(source, layout)
    PROVE  CacheInv'
<1> DEFINE n == Len(batches)
           old == Superseded(batches)
           new == ThumbnailBatch(source, layout)
<1>1. n \in Nat /\ DOMAIN batches = 1..n
  BY FunctionIsSequence DEF FilmInv, Batches
<1> HIDE DEF n
<1>2. old = [h \in 1..n |-> [batches[h] EXCEPT !.cancelled = TRUE]]
  BY <1>1 DEF Superseded
<1>3. batches' = Append(old, new)
  BY DEF StartThumbnails
<1>4. new.phase = "start" /\ ~new.alone
  BY DEF ThumbnailBatch
<1>5. old = [h \in 1..n |-> old[h]] /\ \A h \in 1..n : old[h] = [batches[h] EXCEPT !.cancelled = TRUE]
  BY <1>2
<1> HIDE DEF old, new
<1>6. Len(batches') = n + 1 /\ batches'[n + 1] = new /\ \A h \in 1..n : batches'[h] = old[h]
  BY <1>1, <1>3, <1>5, AppendedSequence
<1> QED
  <2>1. n + 1 \in Nat /\ n <= n + 1
    BY <1>1
  <2>3. ASSUME NEW h \in 1..n
        PROVE  batches'[h] = [batches[h] EXCEPT !.cancelled = TRUE]
    <3>1. batches'[h] = old[h] /\ old[h] = [batches[h] EXCEPT !.cancelled = TRUE]
      BY <1>5, <1>6
    <3> QED
      BY <3>1
  <2>2. ASSUME NEW h \in 1..n + 1
        PROVE  h \in 1..n \/ (batches'[h].phase = "start" /\ ~batches'[h].alone)
    <3>1. h \in 1..n \/ h = n + 1
      BY <1>1
    <3> QED
      BY <1>4, <1>6, <3>1
  <2> QED
    BY <1>6, <2>1, <2>2, <2>3, CacheStart DEF n

LEMMA CacheGoesOn == FilmInv /\ CacheInv /\ [FilmNext]_filmVars => CacheInv'
<1> SUFFICES ASSUME FilmInv, CacheInv, [FilmNext]_filmVars
             PROVE  CacheInv'
  OBVIOUS
<1>1. DOMAIN batches = 1..Len(batches) /\ Len(batches) \in Nat /\ batches = [h \in 1..Len(batches) |-> batches[h]]
  BY FunctionIsSequence DEF FilmInv, Batches
<1>2. CASE UNCHANGED <<batches, directory>>
  BY <1>2 DEF CacheInv
<1>3. CASE PresentSource
  BY <1>3, CacheStarted DEF PresentSource
<1>4. CASE PresentNothing
  <2>1. batches' = [h \in 1..Len(batches) |-> [batches[h] EXCEPT !.cancelled = TRUE]] /\ UNCHANGED directory
    BY <1>1, <1>4 DEF PresentNothing, Superseded
  <2>2. batches' = [h \in 1..Len(batches) |-> batches'[h]]
        /\ \A h \in 1..Len(batches) : batches'[h] = [batches[h] EXCEPT !.cancelled = TRUE]
    BY <2>1
  <2>3. Len(batches') = Len(batches)
    BY <1>1, <2>2, FunctionIsSequence
  <2> QED
    BY <1>1, <2>1, <2>2, <2>3, CacheStart
<1>5. CASE \E layout \in Layouts : ResizeFilm(layout)
  <2>1. UNCHANGED directory /\ (UNCHANGED batches \/ \E source, layout : StartThumbnails(source, layout))
    BY <1>5 DEF ResizeFilm
  <2> QED
    BY <1>2, <2>1, CacheStarted
<1>6. CASE RewriteSource \/ UNCHANGED filmVars
  BY <1>2, <1>6 DEF RewriteSource, filmVars
<1>7. CASE \E x \in thumbnails : ThumbnailReady(x)
  BY <1>2, <1>7 DEF ThumbnailReady
<1>8. CASE \E g \in DOMAIN batches : OpenCache(g)
  BY <1>1, <1>8, CacheOpen
<1>9. CASE \E g \in DOMAIN batches : GetThumbnail(g)
  BY <1>1, <1>9, CacheGet
<1>10. CASE \E g \in DOMAIN batches : GenerateThumbnail(g)
  BY <1>1, <1>10, CacheGenerate
<1>11. CASE \E g \in DOMAIN batches : PutThumbnail(g)
  BY <1>1, <1>11, CachePut
<1> QED
  BY <1>3, <1>4, <1>5, <1>6, <1>7, <1>8, <1>9, <1>10, <1>11 DEF FilmNext

LEMMA CacheIsWithinLimit == FilmInv /\ CacheInv => FilmTypeOK /\ WithinLimitWhenAlone
<1> SUFFICES ASSUME FilmInv, CacheInv
             PROVE  FilmTypeOK /\ WithinLimitWhenAlone
  OBVIOUS
<1>1. DOMAIN batches = 1..Len(batches)
  BY FunctionIsSequence DEF FilmInv, Batches
<1>2. Len(directory) = Cardinality(ToSet(directory))
  <2> DEFINE n == Len(directory)
  <2>1. n \in Nat /\ directory = [i \in 1..n |-> directory[i]] /\ DOMAIN directory = 1..n
    BY FunctionIsSequence DEF CacheInv, NoTwice, IsSequence
  <2>2. ToSet(directory) = {directory[i] : i \in 1..n}
    BY <2>1 DEF ToSet
  <2>3. directory \in Bijection(1..n, ToSet(directory))
    BY <2>1, <2>2 DEF CacheInv, NoTwice, Bijection, Injection, Surjection, IsInjective
  <2>4. Cardinality(ToSet(directory)) = n
    <3>1. ExistsBijection(1..n, ToSet(directory))
      BY <2>3 DEF ExistsBijection
    <3> HIDE DEF n
    <3> QED
      BY <2>1, <3>1, FS_CountingElements
  <2> QED
    BY <2>4
<1>3. FilmTypeOK
  <2>1. film.layout \in Layouts /\ film.generation \in 0..MaxBatches /\ DOMAIN pixmaps \subseteq film.samples
    BY DEF FilmInv, StripIsOfTheLast, IsFilm, Batches, TilesInv
  <2>2. \A g \in DOMAIN batches : batches[g].phase \in {"start", "get", "decode", "put", "done"}
                                   /\ batches[g].sample \in 1..batches[g].layout.count
    BY <1>1 DEF FilmInv, Batches, IsBatch
  <2> QED
    BY <1>2, <2>1, <2>2 DEF FilmTypeOK
<1>4. WithinLimitWhenAlone
  BY <1>1 DEF CacheInv, WithinLimitWhenAlone
<1> QED
  BY <1>3, <1>4

LEMMA CacheStarts == FilmInit => CacheInv
  BY DEF FilmInit, CacheInv, NoTwice, IsSequence

\* Every tile shows the picture of its own sample, layout and version of the file, the
\* strip fills up, whatever other workers do to the cache directory meanwhile, and
\* the directory is within its limit while one worker uses it: ui/timeline.py,
\* jobs/thumbnails.py, jobs/cache.py.
THEOREM StripFillsWithItsSource == FilmSpec => []FilmstripCorrect
<1>1. FilmInit => FilmInv /\ CacheInv
  BY FilmStarts, CacheStarts
<1>2. FilmInv /\ CacheInv /\ [FilmNext]_filmVars => (FilmInv /\ CacheInv)'
  BY FilmGoesOn, CacheGoesOn
<1>3. FilmInv /\ CacheInv => FilmstripCorrect
  BY StripIsFull, CacheIsWithinLimit DEF FilmstripCorrect
<1> QED
  BY <1>1, <1>2, <1>3, PTL DEF FilmSpec

-----------------------------------------------------------------------------
(* CropEditor: the inductive invariant *)

FrameSizes == (Nat \ {0}) \X (Nat \ {0})
WholeCrops == [x : Int, y : Int, w : Int, h : Int]
ValidCrops == {c \in WholeCrops : IsValid(c)}
CropViews == [size : FrameSizes, crop : ValidCrops]
CropTargets == CropHandles \cup {"crop"}
Canvases == [kind : {"source", "result"}, rotation : {0, 90, 180, 270}, on : BOOLEAN, lock : Ratios \cup {<<0, 0>>},
             view : CropViews \cup {NoView}, focused : CropTargets, dragged : CropTargets \cup {"none"},
             from : CropViews \cup {NoView}]

CropTyped ==
    /\ cutFacts \in FrameSizes /\ crop \in ValidCrops \cup {NoCrop} /\ canvas \in Canvases
    /\ wanted \in [framing : FramingSpecs, resize : {wanted.resize}, job : BOOLEAN, video : CropVideos]
    /\ wanted.resize.width \in Nat /\ wanted.resize.height \in Nat

\* A drag is of the focused handle, and from a crop that was shown.
PressInv ==
    /\ canvas.dragged \in {canvas.focused, "none"}
    /\ IF canvas.dragged = "none" THEN canvas.from = NoView ELSE canvas.from \in CropViews

StagedInv == (staged.crop = NoCrop \/ IsValid(staged.crop)) /\ StagedFits

CropInv == CropTyped /\ PressInv /\ OverlayIsCurrent /\ StagedInv /\ DragHasNoDrift

-----------------------------------------------------------------------------
(* CropEditor: numbers *)

LEMMA LargerOfTwo ==
    ASSUME NEW a \in Int, NEW b \in Int
    PROVE  Max({a, b}) \in {a, b} /\ Max({a, b}) >= a /\ Max({a, b}) >= b
<1>1. CASE a >= b
  BY <1>1 DEF Max
<1>2. CASE a < b
  BY <1>2 DEF Max
<1> QED
  BY <1>1, <1>2

LEMMA SmallerOfTwo ==
    ASSUME NEW a \in Int, NEW b \in Int
    PROVE  Min({a, b}) \in {a, b} /\ Min({a, b}) <= a /\ Min({a, b}) <= b
<1>1. CASE a <= b
  BY <1>1 DEF Min
<1>2. CASE a > b
  BY <1>2 DEF Min
<1> QED
  BY <1>1, <1>2

LEMMA BoundedLies ==
    ASSUME NEW v \in Int, NEW low \in Int, NEW high \in Int
    PROVE  /\ Bounded(v, low, high) \in Int /\ Bounded(v, low, high) <= high
           /\ low <= high => Bounded(v, low, high) >= low
           /\ low <= v /\ v <= high => Bounded(v, low, high) = v
<1>1. Max({v, low}) \in {v, low} /\ Max({v, low}) >= v /\ Max({v, low}) >= low
  BY LargerOfTwo
<1> DEFINE m == Max({v, low})
<1> HIDE DEF m
<1>2. m \in Int /\ m \in {v, low} /\ m >= v /\ m >= low
  BY <1>1 DEF m
<1>3. Min({m, high}) \in {m, high} /\ Min({m, high}) <= m /\ Min({m, high}) <= high
  BY <1>2, SmallerOfTwo
<1>4. Bounded(v, low, high) = Min({m, high})
  BY DEF Bounded, m
<1> QED
  BY <1>2, <1>3, <1>4

LEMMA RoundedBetween ==
    ASSUME NEW n \in Int, NEW d \in Nat \ {0}
    PROVE  /\ RoundHalfUp(n, d) \in Int
           /\ 2 * (d * RoundHalfUp(n, d)) <= 2 * n + d /\ 2 * n + d < 2 * (d * RoundHalfUp(n, d)) + 2 * d
<1> DEFINE a == 2 * n + d
           q == a \div (2 * d)
<1>1. a \in Int /\ 2 * d \in Nat \ {0}
  OBVIOUS
<1>2. q \in Int /\ (2 * d) * q <= a /\ a < (2 * d) * q + 2 * d
  <2> HIDE DEF a
  <2> QED
    BY <1>1
<1>3. (2 * d) * q = 2 * (d * q)
  <2> HIDE DEF q
  <2> QED
    BY <1>2
<1> QED
  BY <1>2, <1>3 DEF RoundHalfUp

\* What is at least so many times the divisor is rounded to at least that many.
LEMMA RoundedAbove ==
    ASSUME NEW n \in Nat, NEW d \in Nat \ {0}, NEW t \in Nat, n >= t * d
    PROVE  RoundHalfUp(n, d) >= t
<1> DEFINE v == RoundHalfUp(n, d)
<1>1. v \in Int /\ 2 * n + d < 2 * (d * v) + 2 * d
  BY RoundedBetween
<1> HIDE DEF v
<1>2. SUFFICES ASSUME v + 1 <= t
               PROVE  FALSE
  BY <1>1 DEF v
<1>3. (v + 1) * d <= t * d
  BY <1>1, <1>2
<1>4. (v + 1) * d = d * v + d /\ d * v \in Int /\ t * d \in Int
  BY <1>1
<1> QED
  BY <1>1, <1>3, <1>4

LEMMA RoundedBelow ==
    ASSUME NEW n \in Nat, NEW d \in Nat \ {0}, NEW t \in Nat, n <= t * d
    PROVE  RoundHalfUp(n, d) <= t
<1> DEFINE v == RoundHalfUp(n, d)
<1>1. v \in Int /\ 2 * (d * v) <= 2 * n + d
  BY RoundedBetween
<1> HIDE DEF v
<1>2. SUFFICES ASSUME v >= t + 1
               PROVE  FALSE
  BY <1>1 DEF v
<1>3. (t + 1) * d <= v * d
  BY <1>1, <1>2
<1>4. (t + 1) * d = t * d + d /\ v * d = d * v /\ d * v \in Int /\ t * d \in Int
  BY <1>1
<1> QED
  BY <1>1, <1>3, <1>4

-----------------------------------------------------------------------------
(* CropEditor: crops *)

LEMMA NothingIsNoCrop == NoCrop \notin ValidCrops /\ NoView \notin CropViews
<1>1. NoCrop.w = 0 /\ NoView.size = <<0, 0>>
  BY DEF NoCrop, CropSpec, NoView
<1> QED
  BY <1>1 DEF ValidCrops, IsValid, CropViews, FrameSizes

LEMMA SizesCount ==
    ASSUME NEW size \in FrameSizes
    PROVE  /\ size[1] \in Nat \ {0} /\ size[2] \in Nat \ {0} /\ size = <<size[1], size[2]>>
  BY DEF FrameSizes

LEMMA WholeFrameIsValid ==
    ASSUME NEW size \in FrameSizes
    PROVE  WholeFrame(size) \in ValidCrops /\ FitsIn(WholeFrame(size), size)
  BY SizesCount DEF WholeFrame, CropSpec, ValidCrops, WholeCrops, IsValid, FitsIn

LEMMA ViewsAreShown ==
    ASSUME NEW size \in FrameSizes, NEW c \in ValidCrops \cup {NoCrop}
    PROVE  /\ ViewOf(c, size) \in CropViews /\ ViewOf(c, size).size = size
           /\ c # NoCrop => ViewOf(c, size).crop = c
           /\ c = NoCrop => ViewOf(c, size).crop = WholeFrame(size)
  BY WholeFrameIsValid, NothingIsNoCrop DEF ViewOf, CropViews

LEMMA SideLies ==
    ASSUME NEW v \in Int, NEW n \in Int, 1 <= n
    PROVE  Bounded(v, 1, n) \in Int /\ 1 <= Bounded(v, 1, n) /\ Bounded(v, 1, n) <= n
           /\ (1 <= v /\ v <= n => Bounded(v, 1, n) = v)
  BY BoundedLies

LEMMA HighestLies ==
    ASSUME NEW v \in Int, NEW low \in Int, NEW high \in Int
    PROVE  Bounded(v, low, high) \in Int /\ Bounded(v, low, high) <= high
           /\ (low <= v /\ v <= high => Bounded(v, low, high) = v)
  BY BoundedLies

LEMMA MovedLies ==
    ASSUME NEW v \in Int, NEW n \in Int
    PROVE  Bounded(v, 0, n) \in Int /\ Bounded(v, 0, n) <= n
           /\ (0 <= v /\ v <= n => Bounded(v, 0, n) = v)
  BY BoundedLies

LEMMA OriginLies ==
    ASSUME NEW v \in Int, NEW n \in Int, 0 <= n
    PROVE  Bounded(v, 0, n) \in Int /\ 0 <= Bounded(v, 0, n) /\ Bounded(v, 0, n) <= n
           /\ (0 <= v /\ v <= n => Bounded(v, 0, n) = v)
  BY BoundedLies

\* A clamped crop is in the frame, and a crop that is in it stays as it is.
LEMMA ClampedFits ==
    ASSUME NEW c \in WholeCrops, NEW size \in FrameSizes
    PROVE  /\ ClampCrop(c, size) \in ValidCrops /\ FitsIn(ClampCrop(c, size), size)
           /\ IsValid(c) /\ FitsIn(c, size) => ClampCrop(c, size) = c
<1> DEFINE w == Bounded(c.w, 1, size[1])
           h == Bounded(c.h, 1, size[2])
           x == Bounded(c.x, 0, size[1] - w)
           y == Bounded(c.y, 0, size[2] - h)
<1>1. size[1] \in Nat \ {0} /\ size[2] \in Nat \ {0}
  BY SizesCount
<1>2. c.x \in Int /\ c.y \in Int /\ c.w \in Int /\ c.h \in Int
  BY DEF WholeCrops
<1>11. c = CropSpec(c.x, c.y, c.w, c.h)
  BY DEF WholeCrops, CropSpec
<1>3. w \in Int /\ 1 <= w /\ w <= size[1] /\ (1 <= c.w /\ c.w <= size[1] => w = c.w)
  <2>1. 1 \in Int /\ size[1] \in Int /\ size[2] \in Int /\ 1 <= size[1] /\ 1 <= size[2]
    BY <1>1
  <2> QED
    BY <1>2, <2>1, SideLies
<1>4. h \in Int /\ 1 <= h /\ h <= size[2] /\ (1 <= c.h /\ c.h <= size[2] => h = c.h)
  <2>1. 1 \in Int /\ size[1] \in Int /\ size[2] \in Int /\ 1 <= size[1] /\ 1 <= size[2]
    BY <1>1
  <2> QED
    BY <1>2, <2>1, SideLies
<1> HIDE DEF w, h
<1>5. size[1] - w \in Int /\ 0 <= size[1] - w /\ size[2] - h \in Int /\ 0 <= size[2] - h
  BY <1>1, <1>3, <1>4
<1>6. x \in Int /\ 0 <= x /\ x <= size[1] - w /\ (0 <= c.x /\ c.x <= size[1] - w => x = c.x)
  BY <1>2, <1>5, OriginLies
<1>7. y \in Int /\ 0 <= y /\ y <= size[2] - h /\ (0 <= c.y /\ c.y <= size[2] - h => y = c.y)
  BY <1>2, <1>5, OriginLies
<1> HIDE DEF x, y
<1>8. ClampCrop(c, size) = CropSpec(x, y, w, h)
  BY DEF ClampCrop, x, y, w, h
<1>9. CropSpec(x, y, w, h) \in ValidCrops /\ FitsIn(CropSpec(x, y, w, h), size)
  BY <1>1, <1>3, <1>4, <1>6, <1>7 DEF CropSpec, ValidCrops, WholeCrops, IsValid, FitsIn
<1>10. ASSUME IsValid(c), FitsIn(c, size)
       PROVE  CropSpec(x, y, w, h) = c
  <2>1. w = c.w /\ h = c.h
    BY <1>1, <1>2, <1>3, <1>4, <1>10 DEF IsValid, FitsIn
  <2>2. x = c.x /\ y = c.y
    BY <1>1, <1>2, <1>6, <1>7, <1>10, <2>1 DEF IsValid, FitsIn
  <2> QED
    BY <1>11, <2>1, <2>2
<1> QED
  BY <1>8, <1>9, <1>10

-----------------------------------------------------------------------------
(* CropEditor: nudges and aspects *)

LEMMA ResizedIsWhole ==
    ASSUME NEW c \in ValidCrops, NEW target \in CropHandles, NEW d \in Int \X Int, NEW size \in FrameSizes
    PROVE  /\ ResizeCrop(c, target, d, size) \in WholeCrops
           /\ FitsIn(c, size) => FitsIn(ResizeCrop(c, target, d, size), size)
           /\ FitsIn(c, size) /\ d = <<0, 0>> => ResizeCrop(c, target, d, size) = c
<1> DEFINE left == IF target \in West THEN Bounded(c.x + d[1], 0, c.x + c.w - 1) ELSE c.x
           right == IF target \in East THEN Bounded(c.x + c.w + d[1], left + 1, size[1]) ELSE c.x + c.w
           top == IF target \in North THEN Bounded(c.y + d[2], 0, c.y + c.h - 1) ELSE c.y
           bottom == IF target \in South THEN Bounded(c.y + c.h + d[2], top + 1, size[2]) ELSE c.y + c.h
<1>1. size[1] \in Int /\ size[2] \in Int /\ d[1] \in Int /\ d[2] \in Int
  BY SizesCount
<1>2. c.x \in Int /\ c.y \in Int /\ c.w \in Int /\ c.h \in Int /\ 0 <= c.x /\ 0 <= c.y /\ 1 <= c.w /\ 1 <= c.h
  BY DEF ValidCrops, WholeCrops, IsValid
<1>3. c = CropSpec(c.x, c.y, c.w, c.h)
  BY DEF ValidCrops, WholeCrops, CropSpec
<1>4. c.x + d[1] \in Int /\ c.y + d[2] \in Int /\ c.x + c.w + d[1] \in Int /\ c.y + c.h + d[2] \in Int
  BY <1>1, <1>2
<1>5. c.x + c.w - 1 \in Int /\ c.y + c.h - 1 \in Int /\ 0 <= c.x + c.w - 1 /\ 0 <= c.y + c.h - 1
  BY <1>2
<1>6. left \in Int /\ 0 <= left /\ left <= c.x + c.w - 1 /\ (d[1] = 0 => left = c.x)
  <2>1. CASE target \in West
    <3>1. Bounded(c.x + d[1], 0, c.x + c.w - 1) \in Int /\ 0 <= Bounded(c.x + d[1], 0, c.x + c.w - 1)
          /\ Bounded(c.x + d[1], 0, c.x + c.w - 1) <= c.x + c.w - 1
          /\ (0 <= c.x + d[1] /\ c.x + d[1] <= c.x + c.w - 1 => Bounded(c.x + d[1], 0, c.x + c.w - 1) = c.x + d[1])
      BY <1>4, <1>5, OriginLies
    <3>2. left = Bounded(c.x + d[1], 0, c.x + c.w - 1)
      BY <2>1
    <3> HIDE DEF left
    <3> QED
      BY <1>1, <1>2, <3>1, <3>2
  <2>2. CASE target \notin West
    <3>1. left = c.x
      BY <2>2
    <3> HIDE DEF left
    <3> QED
      BY <1>2, <3>1
  <2> QED
    BY <2>1, <2>2
<1>7. top \in Int /\ 0 <= top /\ top <= c.y + c.h - 1 /\ (d[2] = 0 => top = c.y)
  <2>1. CASE target \in North
    <3>1. Bounded(c.y + d[2], 0, c.y + c.h - 1) \in Int /\ 0 <= Bounded(c.y + d[2], 0, c.y + c.h - 1)
          /\ Bounded(c.y + d[2], 0, c.y + c.h - 1) <= c.y + c.h - 1
          /\ (0 <= c.y + d[2] /\ c.y + d[2] <= c.y + c.h - 1 => Bounded(c.y + d[2], 0, c.y + c.h - 1) = c.y + d[2])
      BY <1>4, <1>5, OriginLies
    <3>2. top = Bounded(c.y + d[2], 0, c.y + c.h - 1)
      BY <2>1
    <3> HIDE DEF top
    <3> QED
      BY <1>1, <1>2, <3>1, <3>2
  <2>2. CASE target \notin North
    <3>1. top = c.y
      BY <2>2
    <3> HIDE DEF top
    <3> QED
      BY <1>2, <3>1
  <2> QED
    BY <2>1, <2>2
<1> HIDE DEF left, top
<1>8. /\ right \in Int /\ (c.x + c.w <= size[1] => right <= size[1])
      /\ c.x + c.w <= size[1] /\ d[1] = 0 => right = c.x + c.w
  <2>1. CASE target \in East
    <3> DEFINE low == left + 1
               v == c.x + c.w + d[1]
               high == size[1]
    <3>1. low \in Int /\ v \in Int /\ high \in Int
      BY <1>1, <1>4, <1>6
    <3>2. right = Bounded(v, low, high)
      BY <2>1
    <3> HIDE DEF low, v, high, right
    <3>3. right \in Int /\ right <= high /\ (low <= v /\ v <= high => right = v)
      BY <3>1, <3>2, HighestLies
    <3> QED
      BY <1>1, <1>2, <1>6, <3>3 DEF low, v, high
  <2>2. CASE target \notin East
    <3>1. right = c.x + c.w
      BY <2>2
    <3> HIDE DEF right
    <3> QED
      BY <1>2, <3>1
  <2> QED
    BY <2>1, <2>2
<1>9. /\ bottom \in Int /\ (c.y + c.h <= size[2] => bottom <= size[2])
      /\ c.y + c.h <= size[2] /\ d[2] = 0 => bottom = c.y + c.h
  <2>1. CASE target \in South
    <3> DEFINE low == top + 1
               v == c.y + c.h + d[2]
               high == size[2]
    <3>1. low \in Int /\ v \in Int /\ high \in Int
      BY <1>1, <1>4, <1>7
    <3>2. bottom = Bounded(v, low, high)
      BY <2>1
    <3> HIDE DEF low, v, high, bottom
    <3>3. bottom \in Int /\ bottom <= high /\ (low <= v /\ v <= high => bottom = v)
      BY <3>1, <3>2, HighestLies
    <3> QED
      BY <1>1, <1>2, <1>7, <3>3 DEF low, v, high
  <2>2. CASE target \notin South
    <3>1. bottom = c.y + c.h
      BY <2>2
    <3> HIDE DEF bottom
    <3> QED
      BY <1>2, <3>1
  <2> QED
    BY <2>1, <2>2
<1>10. ResizeCrop(c, target, d, size) = CropSpec(left, top, right - left, bottom - top)
  BY DEF ResizeCrop, left, right, top, bottom
<1> HIDE DEF right, bottom
<1>11. CropSpec(left, top, right - left, bottom - top) \in WholeCrops
  BY <1>6, <1>7, <1>8, <1>9 DEF CropSpec, WholeCrops
<1>12. FitsIn(c, size) => c.x + c.w <= size[1] /\ c.y + c.h <= size[2]
  BY DEF FitsIn
<1>13. FitsIn(c, size) => FitsIn(CropSpec(left, top, right - left, bottom - top), size)
  BY <1>1, <1>6, <1>7, <1>8, <1>9, <1>12 DEF CropSpec, FitsIn
<1>14. ASSUME FitsIn(c, size), d = <<0, 0>>
       PROVE  CropSpec(left, top, right - left, bottom - top) = c
  <2>1. d[1] = 0 /\ d[2] = 0
    BY <1>14
  <2>2. left = c.x /\ top = c.y /\ right = c.x + c.w /\ bottom = c.y + c.h
    BY <1>6, <1>7, <1>8, <1>9, <1>12, <1>14, <2>1
  <2>3. right - left = c.w /\ bottom - top = c.h
    BY <1>2, <2>2
  <2> QED
    BY <1>3, <2>2, <2>3
<1> QED
  BY <1>10, <1>11, <1>13, <1>14

LEMMA MovedIsWhole ==
    ASSUME NEW c \in ValidCrops, NEW d \in Int \X Int, NEW size \in FrameSizes
    PROVE  /\ MoveCrop(c, d, size) \in WholeCrops
           /\ FitsIn(c, size) => FitsIn(MoveCrop(c, d, size), size)
           /\ FitsIn(c, size) /\ d = <<0, 0>> => MoveCrop(c, d, size) = c
<1> DEFINE x == Bounded(c.x + d[1], 0, size[1] - c.w)
           y == Bounded(c.y + d[2], 0, size[2] - c.h)
<1>1. size[1] \in Int /\ size[2] \in Int /\ d[1] \in Int /\ d[2] \in Int
  BY SizesCount
<1>2. c.x \in Int /\ c.y \in Int /\ c.w \in Int /\ c.h \in Int /\ 0 <= c.x /\ 0 <= c.y /\ 1 <= c.w /\ 1 <= c.h
  BY DEF ValidCrops, WholeCrops, IsValid
<1>3. c = CropSpec(c.x, c.y, c.w, c.h)
  BY DEF ValidCrops, WholeCrops, CropSpec
<1>4. c.x + d[1] \in Int /\ c.y + d[2] \in Int /\ size[1] - c.w \in Int /\ size[2] - c.h \in Int /\ 0 \in Int
  BY <1>1, <1>2
<1>5. x \in Int /\ x <= size[1] - c.w /\ (0 <= c.x + d[1] /\ c.x + d[1] <= size[1] - c.w => x = c.x + d[1])
  <2>1. c.x + d[1] \in Int /\ size[1] - c.w \in Int
    BY <1>4
  <2> QED
    BY <2>1, MovedLies
<1>6. y \in Int /\ y <= size[2] - c.h /\ (0 <= c.y + d[2] /\ c.y + d[2] <= size[2] - c.h => y = c.y + d[2])
  <2>1. c.y + d[2] \in Int /\ size[2] - c.h \in Int
    BY <1>4
  <2> QED
    BY <2>1, MovedLies
<1>7. MoveCrop(c, d, size) = CropSpec(x, y, c.w, c.h)
  BY DEF MoveCrop
<1> HIDE DEF x, y
<1>8. CropSpec(x, y, c.w, c.h) \in WholeCrops
  BY <1>2, <1>5, <1>6 DEF CropSpec, WholeCrops
<1>9. FitsIn(CropSpec(x, y, c.w, c.h), size)
  BY <1>1, <1>2, <1>5, <1>6 DEF CropSpec, FitsIn
<1>10. ASSUME FitsIn(c, size), d = <<0, 0>>
       PROVE  CropSpec(x, y, c.w, c.h) = c
  <2>1. d[1] = 0 /\ d[2] = 0 /\ c.x + c.w <= size[1] /\ c.y + c.h <= size[2]
    BY <1>10 DEF FitsIn
  <2>2. x = c.x /\ y = c.y
    BY <1>1, <1>2, <1>5, <1>6, <2>1
  <2> QED
    BY <1>3, <2>2
<1> QED
  BY <1>7, <1>8, <1>9, <1>10

LEMMA NudgedIsWhole ==
    ASSUME NEW c \in ValidCrops, NEW target \in CropTargets, NEW d \in Int \X Int, NEW size \in FrameSizes
    PROVE  /\ NudgeCrop(c, target, d, size) \in WholeCrops
           /\ FitsIn(c, size) => FitsIn(NudgeCrop(c, target, d, size), size)
           /\ FitsIn(c, size) /\ d = <<0, 0>> => NudgeCrop(c, target, d, size) = c
<1>1. CASE target = "crop"
  BY <1>1, MovedIsWhole DEF NudgeCrop
<1>2. CASE target # "crop"
  <2>1. target \in CropHandles
    BY <1>2 DEF CropTargets
  <2> QED
    BY <1>2, <2>1, ResizedIsWhole DEF NudgeCrop
<1> QED
  BY <1>1, <1>2

LEMMA OfTwo ==
    ASSUME NEW a \in Int, NEW b \in Int
    PROVE  Max({a, b}) \in Int /\ Min({a, b}) \in Int
<1>1. Max({a, b}) \in {a, b} /\ Min({a, b}) \in {a, b}
  BY LargerOfTwo, SmallerOfTwo
<1> QED
  BY <1>1

LEMMA RoundedIsInt ==
    ASSUME NEW a \in Int, NEW n \in Nat \ {0}, NEW d \in Nat \ {0}
    PROVE  RoundHalfUp(a * n, d) \in Int
<1>1. a * n \in Int
  OBVIOUS
<1> QED
  BY <1>1, RoundedBetween

LEMMA CornerIsWhole ==
    ASSUME NEW c \in WholeCrops, NEW ratio \in Ratios, NEW target
    PROVE  FitCorner(c, ratio, target) \in WholeCrops
<1> DEFINE widthFor == RoundHalfUp(c.h * ratio[1], ratio[2])
           heightFor == RoundHalfUp(c.w * ratio[2], ratio[1])
           byWidth == AbsOf(widthFor - c.w) <= AbsOf(heightFor - c.h)
           w == IF byWidth THEN Max({1, widthFor}) ELSE c.w
           h == IF byWidth THEN c.h ELSE Max({1, heightFor})
<1>1. ratio[1] \in Nat \ {0} /\ ratio[2] \in Nat \ {0}
  BY CropEditorAssumption
<1>2. c.x \in Int /\ c.y \in Int /\ c.w \in Int /\ c.h \in Int
  BY DEF WholeCrops
<1>3. widthFor \in Int /\ heightFor \in Int
  BY <1>1, <1>2, RoundedIsInt
<1> HIDE DEF widthFor, heightFor
<1>4. Max({1, widthFor}) \in Int /\ Max({1, heightFor}) \in Int
  BY <1>3, OfTwo
<1> HIDE DEF byWidth
<1>5. w \in Int /\ h \in Int
  BY <1>2, <1>4
<1>6. FitCorner(c, ratio, target)
        = CropSpec(IF target \in West THEN c.x + c.w - w ELSE c.x, IF target \in North THEN c.y + c.h - h ELSE c.y, w, h)
  BY DEF FitCorner, w, h, byWidth, widthFor, heightFor
<1> HIDE DEF w, h
<1> QED
  BY <1>2, <1>5, <1>6 DEF CropSpec, WholeCrops

LEMMA CenteredOriginIsInt ==
    ASSUME NEW origin \in Int, NEW old \in Int, NEW new \in Int, NEW extent \in Int
    PROVE  CenteredOrigin(origin, old, new, extent) \in Int
<1>1. old - new \in Int /\ 2 \in Nat \ {0} /\ 0 \in Int /\ extent - new \in Int
  OBVIOUS
<1>2. RoundHalfUp(old - new, 2) \in Int
  BY <1>1, RoundedBetween
<1>3. origin + RoundHalfUp(old - new, 2) \in Int
  BY <1>2
<1>4. Max({0, extent - new}) \in Int
  BY <1>1, OfTwo
<1> QED
  BY <1>3, <1>4, MovedLies DEF CenteredOrigin

LEMMA EdgeIsWhole ==
    ASSUME NEW c \in WholeCrops, NEW ratio \in Ratios, NEW target, NEW size \in FrameSizes
    PROVE  FitEdge(c, ratio, target, size) \in WholeCrops
<1>1. ratio[1] \in Nat \ {0} /\ ratio[2] \in Nat \ {0}
  BY CropEditorAssumption
<1>2. c.x \in Int /\ c.y \in Int /\ c.w \in Int /\ c.h \in Int
  BY DEF WholeCrops
<1>3. size[1] \in Int /\ size[2] \in Int
  BY SizesCount
<1> DEFINE h == Max({1, Min({size[2], RoundHalfUp(c.w * ratio[2], ratio[1])})})
           w == Max({1, Min({size[1], RoundHalfUp(c.h * ratio[1], ratio[2])})})
<1>4. h \in Int
  <2> DEFINE v == RoundHalfUp(c.w * ratio[2], ratio[1])
             lower == Min({size[2], v})
  <2>1. v \in Int
    BY <1>1, <1>2, RoundedIsInt
  <2> HIDE DEF v
  <2>2. lower \in Int
    BY <1>3, <2>1, OfTwo
  <2> HIDE DEF lower
  <2>3. Max({1, lower}) \in Int
    BY <2>2, OfTwo
  <2> QED
    BY <2>3 DEF lower, v
<1>5. w \in Int
  <2> DEFINE v == RoundHalfUp(c.h * ratio[1], ratio[2])
             lower == Min({size[1], v})
  <2>1. v \in Int
    BY <1>1, <1>2, RoundedIsInt
  <2> HIDE DEF v
  <2>2. lower \in Int
    BY <1>3, <2>1, OfTwo
  <2> HIDE DEF lower
  <2>3. Max({1, lower}) \in Int
    BY <2>2, OfTwo
  <2> QED
    BY <2>3 DEF lower, v
<1>6. FitEdge(c, ratio, target, size)
        = IF target \in {"east", "west"} THEN CropSpec(c.x, CenteredOrigin(c.y, c.h, h, size[2]), c.w, h)
          ELSE CropSpec(CenteredOrigin(c.x, c.w, w, size[1]), c.y, w, c.h)
  BY DEF FitEdge
<1> HIDE DEF w, h
<1>7. CenteredOrigin(c.y, c.h, h, size[2]) \in Int
  BY <1>2, <1>3, <1>4, CenteredOriginIsInt
<1>8. CenteredOrigin(c.x, c.w, w, size[1]) \in Int
  BY <1>2, <1>3, <1>5, CenteredOriginIsInt
<1> QED
  BY <1>2, <1>4, <1>5, <1>6, <1>7, <1>8 DEF CropSpec, WholeCrops

\* A crop that was fitted to an aspect and is valid is in the frame.
LEMMA FittedFits ==
    ASSUME NEW c \in ValidCrops, NEW ratio \in Ratios, NEW target \in CropTargets, NEW size \in FrameSizes
    PROVE  LET fitted == FitCropAspect(c, ratio, target, size)
           IN  fitted \in WholeCrops /\ (IsValid(fitted) => FitsIn(fitted, size))
<1>1. PICK f \in WholeCrops : FitCropAspect(c, ratio, target, size) = IF IsValid(f) THEN ClampCrop(f, size) ELSE f
  <2>1. c \in WholeCrops /\ "crop" \notin Corners
    BY DEF ValidCrops, Corners
  <2>2. CASE target = "crop"
    BY <2>1, <2>2 DEF FitCropAspect
  <2>3. CASE target \in Corners
    <3>1. FitCorner(c, ratio, target) \in WholeCrops
      BY <2>1, CornerIsWhole
    <3>2. target # "crop"
      BY <2>1, <2>3
    <3> QED
      BY <2>3, <3>1, <3>2 DEF FitCropAspect
  <2>4. CASE target # "crop" /\ target \notin Corners
    <3>1. FitEdge(c, ratio, target, size) \in WholeCrops
      BY <2>1, EdgeIsWhole
    <3> QED
      BY <2>4, <3>1 DEF FitCropAspect
  <2> QED
    BY <2>2, <2>3, <2>4
<1>2. ClampCrop(f, size) \in ValidCrops /\ FitsIn(ClampCrop(f, size), size)
  BY ClampedFits
<1> QED
  BY <1>1, <1>2 DEF ValidCrops

LEMMA CenteredIsValid ==
    ASSUME NEW ratio \in Ratios, NEW size \in FrameSizes
    PROVE  CenteredCrop(ratio, size) \in ValidCrops
<1>1. ratio[1] \in Nat \ {0} /\ ratio[2] \in Nat \ {0} /\ size[1] \in Int /\ size[2] \in Int
  BY CropEditorAssumption, SizesCount
<1> DEFINE heightFor == RoundHalfUp(size[1] * ratio[2], ratio[1])
           widthFor == RoundHalfUp(size[2] * ratio[1], ratio[2])
           w == IF heightFor <= size[2] THEN size[1] ELSE Max({1, widthFor})
           h == IF heightFor <= size[2] THEN Max({1, heightFor}) ELSE size[2]
<1>2. heightFor \in Int /\ widthFor \in Int
  BY <1>1, RoundedIsInt
<1> HIDE DEF heightFor, widthFor
<1>3. Max({1, widthFor}) \in Int /\ Max({1, heightFor}) \in Int
  BY <1>2, OfTwo
<1>4. w \in Int /\ h \in Int
  BY <1>1, <1>3
<1>5. CenteredCrop(ratio, size) = ClampCrop(CropSpec((size[1] - w) \div 2, (size[2] - h) \div 2, w, h), size)
  BY DEF CenteredCrop, heightFor, widthFor
<1> HIDE DEF w, h
<1>6. (size[1] - w) \div 2 \in Int /\ (size[2] - h) \div 2 \in Int
  BY <1>1, <1>4
<1>7. CropSpec((size[1] - w) \div 2, (size[2] - h) \div 2, w, h) \in WholeCrops
  BY <1>4, <1>6 DEF CropSpec, WholeCrops
<1> QED
  BY <1>5, <1>7, ClampedFits

-----------------------------------------------------------------------------
(* CropEditor: where a crop is drawn *)

LEMMA Apart ==
    ASSUME NEW a \in Int, NEW b \in Int
    PROVE  AbsOf(a - b) \in Int /\ (a <= b => AbsOf(a - b) = b - a) /\ (b <= a => AbsOf(a - b) = a - b)
  BY DEF AbsOf

LEMMA EndsOfTwo ==
    ASSUME NEW a \in Int, NEW b \in Int
    PROVE  (a <= b => Min({a, b}) = a) /\ (b <= a => Min({a, b}) = b)
<1>1. Min({a, b}) \in {a, b} /\ Min({a, b}) <= a /\ Min({a, b}) <= b
  BY SmallerOfTwo
<1> DEFINE m == Min({a, b})
<1> HIDE DEF m
<1>2. m \in {a, b} /\ m <= a /\ m <= b
  BY <1>1 DEF m
<1>3. (a <= b => m = a) /\ (b <= a => m = b)
  BY <1>2
<1> QED
  BY <1>3 DEF m

RectOf(p, q) == CropSpec(Min({p[1], q[1]}), Min({p[2], q[2]}), AbsOf(p[1] - q[1]), AbsOf(p[2] - q[2]))
\* Two opposite corners of a rectangle.
Opposite(p, q, x, y, w, h) ==
    /\ p[1] \in {x, x + w} /\ q[1] \in {x, x + w} /\ p[1] # q[1]
    /\ p[2] \in {y, y + h} /\ q[2] \in {y, y + h} /\ p[2] # q[2]

\* Opposite corners make the rectangle, whichever they are.
LEMMA SpannedRect ==
    ASSUME NEW x \in Int, NEW y \in Int, NEW w \in Nat, NEW h \in Nat, NEW p, NEW q, Opposite(p, q, x, y, w, h)
    PROVE  RectOf(p, q) = CropSpec(x, y, w, h)
<1> DEFINE a == p[1]
           b == q[1]
           c == p[2]
           e == q[2]
<1>1. a \in Int /\ b \in Int /\ c \in Int /\ e \in Int
  BY DEF Opposite
<1>2. (a = x /\ b = x + w) \/ (a = x + w /\ b = x)
  BY DEF Opposite
<1>3. (c = y /\ e = y + h) \/ (c = y + h /\ e = y)
  BY DEF Opposite
<1> HIDE DEF a, b, c, e
<1>4. Min({a, b}) = x /\ AbsOf(a - b) = w
  <2>1. /\ a <= b => Min({a, b}) = a
        /\ b <= a => Min({a, b}) = b
    BY <1>1, EndsOfTwo
  <2>2. (a <= b => AbsOf(a - b) = b - a) /\ (b <= a => AbsOf(a - b) = a - b)
    BY <1>1, Apart
  <2> QED
    BY <1>1, <1>2, <2>1, <2>2
<1>5. Min({c, e}) = y /\ AbsOf(c - e) = h
  <2>1. /\ c <= e => Min({c, e}) = c
        /\ e <= c => Min({c, e}) = e
    BY <1>1, EndsOfTwo
  <2>2. (c <= e => AbsOf(c - e) = e - c) /\ (e <= c => AbsOf(c - e) = c - e)
    BY <1>1, Apart
  <2> QED
    BY <1>1, <1>3, <2>1, <2>2
<1> QED
  BY <1>4, <1>5 DEF a, b, c, e, RectOf

\* A raw rectangle that is in the raw frame is not moved before it is turned back.
LEMMA DrawnFromRaw ==
    ASSUME NEW c, NEW rotation, NEW size, NEW x \in Nat, NEW y \in Nat, NEW w \in Nat, NEW h \in Nat,
           NEW across \in Nat, NEW down \in Nat, x + w <= across, y + h <= down,
           RawRect(c, rotation, size) = CropSpec(x, y, w, h), RawSize(rotation, size) = <<across, down>>,
           NEW p, NEW q, p = Rotate(<<x, y>>, rotation, size), q = Rotate(<<x + w, y + h>>, rotation, size)
    PROVE  DrawnRect(c, rotation, size) = RectOf(p, q)
<1> DEFINE raw == RawRect(c, rotation, size)
           extent == RawSize(rotation, size)
           wide == Min({raw.w, extent[1]})
           high == Min({raw.h, extent[2]})
           left == Bounded(raw.x, 0, extent[1] - wide)
           top == Bounded(raw.y, 0, extent[2] - high)
           drawn == CropSpec(left, top, wide, high)
<1>1. raw.x = x /\ raw.y = y /\ raw.w = w /\ raw.h = h /\ extent[1] = across /\ extent[2] = down
  BY DEF CropSpec
<1>2. DrawnRect(c, rotation, size) = MapRect(drawn, LAMBDA z : Rotate(z, rotation, size))
  BY DEF DrawnRect
<1> HIDE DEF raw, extent
<1>3. wide = w
  <2>1. w \in Int /\ across \in Int /\ w <= across
    OBVIOUS
  <2>2. Min({w, across}) = w
    BY <2>1, EndsOfTwo
  <2> QED
    BY <1>1, <2>2
<1>4. high = h
  <2>1. h \in Int /\ down \in Int /\ h <= down
    OBVIOUS
  <2>2. Min({h, down}) = h
    BY <2>1, EndsOfTwo
  <2> QED
    BY <1>1, <2>2
<1> HIDE DEF wide, high
<1>5. left = x
  <2> DEFINE n == across - w
  <2>1. x \in Int /\ n \in Int /\ 0 <= x /\ x <= n
    OBVIOUS
  <2>2. left = Bounded(x, 0, n)
    BY <1>1, <1>3
  <2> HIDE DEF n, left
  <2> QED
    BY <2>1, <2>2, MovedLies
<1>6. top = y
  <2> DEFINE n == down - h
  <2>1. y \in Int /\ n \in Int /\ 0 <= y /\ y <= n
    OBVIOUS
  <2>2. top = Bounded(y, 0, n)
    BY <1>1, <1>4
  <2> HIDE DEF n, top
  <2> QED
    BY <2>1, <2>2, MovedLies
<1> HIDE DEF left, top
<1>7. drawn.x = x /\ drawn.y = y /\ drawn.x + drawn.w = x + w /\ drawn.y + drawn.h = y + h
  BY <1>3, <1>4, <1>5, <1>6 DEF CropSpec
<1> HIDE DEF drawn
<1> QED
  BY <1>2, <1>7 DEF MapRect, RectOf

LEMMA RawSpan ==
    ASSUME NEW c \in ValidCrops, NEW rotation, NEW size, NEW p, NEW q,
           p = Unrotate(<<c.x, c.y>>, rotation, size), q = Unrotate(<<c.x + c.w, c.y + c.h>>, rotation, size)
    PROVE  RawRect(c, rotation, size) = RectOf(p, q)
  BY DEF RawRect, MapRect, RectOf

LEMMA DrawnIsTheCrop ==
    ASSUME NEW c \in ValidCrops, NEW size \in FrameSizes, NEW rotation \in {0, 90, 180, 270}, FitsIn(c, size)
    PROVE  DrawnRect(c, rotation, size) = c
<1> DEFINE x == c.x
           y == c.y
           w == c.w
           h == c.h
           across == size[1]
           down == size[2]
<1>1. x \in Nat /\ y \in Nat /\ w \in Nat \ {0} /\ h \in Nat \ {0} /\ c = CropSpec(x, y, w, h)
  BY DEF ValidCrops, WholeCrops, IsValid, CropSpec
<1>2. across \in Nat /\ down \in Nat /\ x + w <= across /\ y + h <= down /\ size = <<across, down>>
  BY SizesCount DEF FitsIn
<1>3. CASE rotation = 0
  <2> DEFINE left == x
             top == y
             wide == w
             high == h
             p == <<x, y>>
             q == <<x + w, y + h>>
             u == <<left, top>>
             v == <<left + wide, top + high>>
  <2>1. /\ p = Unrotate(<<x, y>>, rotation, size) /\ q = Unrotate(<<x + w, y + h>>, rotation, size)
        /\ u = Rotate(<<left, top>>, rotation, size) /\ v = Rotate(<<left + wide, top + high>>, rotation, size)
        /\ RawSize(rotation, size) = <<across, down>>
    BY <1>2, <1>3 DEF Unrotate, Rotate, RawSize
  <2>2. /\ left \in Nat /\ top \in Nat /\ wide \in Nat \ {0} /\ high \in Nat \ {0}
        /\ left + wide <= across /\ top + high <= down
    BY <1>1, <1>2
  <2>3. Opposite(p, q, left, top, wide, high)
    BY <1>1, <1>2 DEF Opposite
  <2>4. Opposite(u, v, x, y, w, h)
    BY <1>1, <1>2 DEF Opposite
  <2> HIDE DEF left, top, wide, high, p, q, u, v
  <2>5. RawRect(c, rotation, size) = CropSpec(left, top, wide, high)
    <3>1. RawRect(c, rotation, size) = RectOf(p, q)
      BY <2>1, RawSpan
    <3>2. left \in Int /\ top \in Int /\ wide \in Nat /\ high \in Nat
      BY <2>2
    <3> QED
      BY <2>3, <3>1, <3>2, SpannedRect
  <2>6. DrawnRect(c, rotation, size) = RectOf(u, v)
    BY <1>2, <2>1, <2>2, <2>5, DrawnFromRaw
  <2>7. RectOf(u, v) = CropSpec(x, y, w, h)
    <3>1. x \in Int /\ y \in Int /\ w \in Nat /\ h \in Nat
      BY <1>1
    <3> QED
      BY <2>4, <3>1, SpannedRect
  <2> QED
    BY <1>1, <2>6, <2>7
<1>4. CASE rotation = 90
  <2> DEFINE left == y
             top == across - x - w
             wide == h
             high == w
             p == <<y, across - x>>
             q == <<y + h, across - (x + w)>>
             u == <<across - top, left>>
             v == <<across - (top + high), left + wide>>
  <2>1. /\ p = Unrotate(<<x, y>>, rotation, size) /\ q = Unrotate(<<x + w, y + h>>, rotation, size)
        /\ u = Rotate(<<left, top>>, rotation, size) /\ v = Rotate(<<left + wide, top + high>>, rotation, size)
        /\ RawSize(rotation, size) = <<down, across>>
    BY <1>2, <1>4 DEF Unrotate, Rotate, RawSize
  <2>2. /\ left \in Nat /\ top \in Nat /\ wide \in Nat \ {0} /\ high \in Nat \ {0}
        /\ left + wide <= down /\ top + high <= across
    BY <1>1, <1>2
  <2>3. Opposite(p, q, left, top, wide, high)
    BY <1>1, <1>2 DEF Opposite
  <2>4. Opposite(u, v, x, y, w, h)
    BY <1>1, <1>2 DEF Opposite
  <2> HIDE DEF left, top, wide, high, p, q, u, v
  <2>5. RawRect(c, rotation, size) = CropSpec(left, top, wide, high)
    <3>1. RawRect(c, rotation, size) = RectOf(p, q)
      BY <2>1, RawSpan
    <3>2. left \in Int /\ top \in Int /\ wide \in Nat /\ high \in Nat
      BY <2>2
    <3> QED
      BY <2>3, <3>1, <3>2, SpannedRect
  <2>6. DrawnRect(c, rotation, size) = RectOf(u, v)
    BY <1>2, <2>1, <2>2, <2>5, DrawnFromRaw
  <2>7. RectOf(u, v) = CropSpec(x, y, w, h)
    <3>1. x \in Int /\ y \in Int /\ w \in Nat /\ h \in Nat
      BY <1>1
    <3> QED
      BY <2>4, <3>1, SpannedRect
  <2> QED
    BY <1>1, <2>6, <2>7
<1>5. CASE rotation = 180
  <2> DEFINE left == across - x - w
             top == down - y - h
             wide == w
             high == h
             p == <<across - x, down - y>>
             q == <<across - (x + w), down - (y + h)>>
             u == <<across - left, down - top>>
             v == <<across - (left + wide), down - (top + high)>>
  <2>1. /\ p = Unrotate(<<x, y>>, rotation, size) /\ q = Unrotate(<<x + w, y + h>>, rotation, size)
        /\ u = Rotate(<<left, top>>, rotation, size) /\ v = Rotate(<<left + wide, top + high>>, rotation, size)
        /\ RawSize(rotation, size) = <<across, down>>
    BY <1>2, <1>5 DEF Unrotate, Rotate, RawSize
  <2>2. /\ left \in Nat /\ top \in Nat /\ wide \in Nat \ {0} /\ high \in Nat \ {0}
        /\ left + wide <= across /\ top + high <= down
    BY <1>1, <1>2
  <2>3. Opposite(p, q, left, top, wide, high)
    BY <1>1, <1>2 DEF Opposite
  <2>4. Opposite(u, v, x, y, w, h)
    BY <1>1, <1>2 DEF Opposite
  <2> HIDE DEF left, top, wide, high, p, q, u, v
  <2>5. RawRect(c, rotation, size) = CropSpec(left, top, wide, high)
    <3>1. RawRect(c, rotation, size) = RectOf(p, q)
      BY <2>1, RawSpan
    <3>2. left \in Int /\ top \in Int /\ wide \in Nat /\ high \in Nat
      BY <2>2
    <3> QED
      BY <2>3, <3>1, <3>2, SpannedRect
  <2>6. DrawnRect(c, rotation, size) = RectOf(u, v)
    BY <1>2, <2>1, <2>2, <2>5, DrawnFromRaw
  <2>7. RectOf(u, v) = CropSpec(x, y, w, h)
    <3>1. x \in Int /\ y \in Int /\ w \in Nat /\ h \in Nat
      BY <1>1
    <3> QED
      BY <2>4, <3>1, SpannedRect
  <2> QED
    BY <1>1, <2>6, <2>7
<1>6. CASE rotation = 270
  <2> DEFINE left == down - y - h
             top == x
             wide == h
             high == w
             p == <<down - y, x>>
             q == <<down - (y + h), x + w>>
             u == <<top, down - left>>
             v == <<top + high, down - (left + wide)>>
  <2>1. /\ p = Unrotate(<<x, y>>, rotation, size) /\ q = Unrotate(<<x + w, y + h>>, rotation, size)
        /\ u = Rotate(<<left, top>>, rotation, size) /\ v = Rotate(<<left + wide, top + high>>, rotation, size)
        /\ RawSize(rotation, size) = <<down, across>>
    BY <1>2, <1>6 DEF Unrotate, Rotate, RawSize
  <2>2. /\ left \in Nat /\ top \in Nat /\ wide \in Nat \ {0} /\ high \in Nat \ {0}
        /\ left + wide <= down /\ top + high <= across
    BY <1>1, <1>2
  <2>3. Opposite(p, q, left, top, wide, high)
    BY <1>1, <1>2 DEF Opposite
  <2>4. Opposite(u, v, x, y, w, h)
    BY <1>1, <1>2 DEF Opposite
  <2> HIDE DEF left, top, wide, high, p, q, u, v
  <2>5. RawRect(c, rotation, size) = CropSpec(left, top, wide, high)
    <3>1. RawRect(c, rotation, size) = RectOf(p, q)
      BY <2>1, RawSpan
    <3>2. left \in Int /\ top \in Int /\ wide \in Nat /\ high \in Nat
      BY <2>2
    <3> QED
      BY <2>3, <3>1, <3>2, SpannedRect
  <2>6. DrawnRect(c, rotation, size) = RectOf(u, v)
    BY <1>2, <2>1, <2>2, <2>5, DrawnFromRaw
  <2>7. RectOf(u, v) = CropSpec(x, y, w, h)
    <3>1. x \in Int /\ y \in Int /\ w \in Nat /\ h \in Nat
      BY <1>1
    <3> QED
      BY <2>4, <3>1, SpannedRect
  <2> QED
    BY <1>1, <2>6, <2>7
<1> QED
  BY <1>3, <1>4, <1>5, <1>6

-----------------------------------------------------------------------------
(* CropEditor: what is staged *)

\* A scaled frame that covers its canvas, or lies on it.
PlanLies(p) ==
    \A i \in {1, 2} :
       \/ p.offset[i] <= 0 /\ p.offset[i] + p.scaled[i] >= p.canvas[i]
       \/ p.offset[i] >= 0 /\ p.offset[i] + p.scaled[i] <= p.canvas[i]

LEMMA ScaledAlong ==
    ASSUME NEW n \in Nat \ {0}, NEW t \in Nat
    PROVE  RoundHalfUp(n * t, n) = t
<1> DEFINE z == n * t
           v == RoundHalfUp(z, n)
<1>1. z \in Nat /\ z = t * n
  OBVIOUS
<1> HIDE DEF z
<1>2. t * n <= z /\ t * n >= z
  <2>1. t * n \in Nat
    OBVIOUS
  <2> QED
    BY <1>1, <2>1
<1>3. v >= t /\ v <= t /\ v \in Int
  BY <1>1, <1>2, RoundedAbove, RoundedBelow, RoundedBetween
<1> HIDE DEF v
<1>4. v = t
  BY <1>3
<1> QED
  BY <1>4 DEF v, z

\* Each side of a scaled size is the target's or, when the other decides, on the side asked for.
LEMMA ScaledSides ==
    ASSUME NEW size \in FrameSizes, NEW target \in Nat \X Nat, NEW covers \in BOOLEAN
    PROVE  LET scaled == ScaledTo(size, target, covers)
           IN  /\ scaled[1] \in Int /\ scaled[2] \in Int
               /\ covers => scaled[1] >= target[1] /\ scaled[2] >= target[2]
               /\ ~covers => scaled[1] <= target[1] /\ scaled[2] <= target[2]
<1> DEFINE a == size[1]
           b == size[2]
           s == target[1]
           t == target[2]
<1>1. a \in Nat \ {0} /\ b \in Nat \ {0} /\ s \in Nat /\ t \in Nat
  BY SizesCount
<1>2. WidthDecides(size, target, covers) = IF covers THEN s * b >= t * a ELSE s * b <= t * a
  BY DEF WidthDecides
<1>3. ScaledTo(size, target, covers) = IF WidthDecides(size, target, covers)
                                       THEN <<RoundHalfUp(a * s, a), RoundHalfUp(b * s, a)>>
                                       ELSE <<RoundHalfUp(a * t, b), RoundHalfUp(b * t, b)>>
  BY DEF ScaledTo, Scaled
<1> HIDE DEF a, b, s, t
<1>4. RoundHalfUp(a * s, a) = s /\ RoundHalfUp(b * t, b) = t
  BY <1>1, ScaledAlong
<1> DEFINE down == b * s
           across == a * t
<1>5. down \in Nat /\ across \in Nat /\ down = s * b /\ across = t * a
  BY <1>1
<1> HIDE DEF down, across
<1>6. RoundHalfUp(down, a) \in Int /\ RoundHalfUp(across, b) \in Int
  <2>1. down \in Int /\ across \in Int
    BY <1>5
  <2> QED
    BY <1>1, <2>1, RoundedBetween
<1>7. /\ down >= t * a => RoundHalfUp(down, a) >= t
      /\ down <= t * a => RoundHalfUp(down, a) <= t
  BY <1>1, <1>5, RoundedAbove, RoundedBelow
<1>8. /\ across >= s * b => RoundHalfUp(across, b) >= s
      /\ across <= s * b => RoundHalfUp(across, b) <= s
  BY <1>1, <1>5, RoundedAbove, RoundedBelow
<1>9. CASE WidthDecides(size, target, covers)
  <2>1. ScaledTo(size, target, covers) = <<s, RoundHalfUp(down, a)>>
    BY <1>3, <1>4, <1>9 DEF down
  <2>2. IF covers THEN down >= t * a ELSE down <= t * a
    BY <1>2, <1>5, <1>9
  <2> QED
    BY <1>1, <1>6, <1>7, <2>1, <2>2 DEF s, t
<1>10. CASE ~WidthDecides(size, target, covers)
  <2>1. ScaledTo(size, target, covers) = <<RoundHalfUp(across, b), t>>
    BY <1>3, <1>4, <1>10 DEF across
  <2>2. IF covers THEN across >= s * b ELSE across <= s * b
    <3>1. IF covers THEN ~(down >= across) ELSE ~(down <= across)
      BY <1>2, <1>5, <1>10
    <3>2. IF covers THEN across >= down ELSE across <= down
      BY <1>5, <3>1
    <3> QED
      BY <1>5, <3>2
  <2> QED
    BY <1>1, <1>6, <1>8, <2>1, <2>2 DEF s, t
<1> QED
  BY <1>9, <1>10

LEMMA SamePlanLies ==
    ASSUME NEW size, size[1] \in Int, size[2] \in Int
    PROVE  PlanLies(Plan(size, size, <<0, 0>>))
  BY DEF Plan, PlanLies

LEMMA ResizeLies ==
    ASSUME NEW size \in FrameSizes, NEW r, r.width \in Nat, r.height \in Nat
    PROVE  PlanLies(ResolveResize(size, r))
<1> DEFINE target == <<r.width, r.height>>
           fitted == ScaledTo(size, target, FALSE)
           covered == ScaledTo(size, target, TRUE)
           byWidth == Scaled(size, r.width, size[1])
           byHeight == Scaled(size, r.height, size[2])
           covering == Plan(covered, target, <<-((covered[1] - target[1]) \div 2), -((covered[2] - target[2]) \div 2)>>)
           padded == Plan(fitted, target, <<(target[1] - fitted[1]) \div 2, (target[2] - fitted[2]) \div 2>>)
<1>1. target \in Nat \X Nat /\ target[1] \in Nat /\ target[2] \in Nat
  OBVIOUS
<1>2. fitted[1] \in Int /\ fitted[2] \in Int /\ fitted[1] <= target[1] /\ fitted[2] <= target[2]
  BY <1>1, ScaledSides
<1>3. covered[1] \in Int /\ covered[2] \in Int /\ covered[1] >= target[1] /\ covered[2] >= target[2]
  BY <1>1, ScaledSides
<1>4. byWidth[1] \in Int /\ byWidth[2] \in Int /\ byHeight[1] \in Int /\ byHeight[2] \in Int
  <2>1. /\ size[1] * r.width \in Int /\ size[2] * r.width \in Int
        /\ size[1] * r.height \in Int /\ size[2] * r.height \in Int
    BY SizesCount
  <2>2. size[1] \in Nat \ {0} /\ size[2] \in Nat \ {0}
    BY SizesCount
  <2>3. /\ RoundHalfUp(size[1] * r.width, size[1]) \in Int /\ RoundHalfUp(size[2] * r.width, size[1]) \in Int
        /\ RoundHalfUp(size[1] * r.height, size[2]) \in Int /\ RoundHalfUp(size[2] * r.height, size[2]) \in Int
    BY <2>1, <2>2, RoundedBetween
  <2> QED
    BY <2>3 DEF Scaled
<1>5. ResolveResize(size, r) \in {Plan(byWidth, byWidth, <<0, 0>>), Plan(byHeight, byHeight, <<0, 0>>),
                                  Plan(target, target, <<0, 0>>), covering, padded, Plan(fitted, fitted, <<0, 0>>)}
  BY DEF ResolveResize
<1> HIDE DEF target, fitted, covered, byWidth, byHeight
<1>6. PlanLies(covering)
  <2>1. \A i \in {1, 2} : LET o == -((covered[i] - target[i]) \div 2) IN o <= 0 /\ o + covered[i] >= target[i]
    BY <1>1, <1>3
  <2> QED
    BY <2>1 DEF Plan, PlanLies
<1>7. PlanLies(padded)
  <2>1. \A i \in {1, 2} : LET o == (target[i] - fitted[i]) \div 2 IN o >= 0 /\ o + fitted[i] <= target[i]
    BY <1>1, <1>2
  <2> QED
    BY <2>1 DEF Plan, PlanLies
<1>8. /\ PlanLies(Plan(byWidth, byWidth, <<0, 0>>)) /\ PlanLies(Plan(byHeight, byHeight, <<0, 0>>))
      /\ PlanLies(Plan(target, target, <<0, 0>>)) /\ PlanLies(Plan(fitted, fitted, <<0, 0>>))
  BY <1>1, <1>2, <1>4, SamePlanLies
<1> QED
  BY <1>5, <1>6, <1>7, <1>8

LEMMA FramedIsSize ==
    ASSUME NEW f \in FramingSpecs, NEW video \in CropVideos
    PROVE  FramedSize(f, video) \in FrameSizes /\ video \in FrameSizes
<1> DEFINE size == FramedSize(f, video)
<1>1. size \in Nat \X Nat /\ size[1] >= MinFinal /\ size[2] >= MinFinal /\ MinFinal \in Nat /\ MinFinal > 0
  BY FramingsAreAccepted, CropEditorAssumption
<1> HIDE DEF size
<1>2. size \in FrameSizes
  BY <1>1 DEF FrameSizes
<1>3. video \in FrameSizes
  BY CropEditorAssumption DEF FrameSizes
<1> QED
  BY <1>2, <1>3 DEF size

LEMMA StagingFits ==
    ASSUME CropTyped, StagedInv, StageFrames
    PROVE  StagedInv'
<1> DEFINE framed == FramedSize(wanted.framing, wanted.video)
           c == IF crop = NoCrop THEN crop ELSE ClampCrop(crop, framed)
           size == IF c = NoCrop THEN framed ELSE <<c.w, c.h>>
           resized == wanted.resize.width + wanted.resize.height > 0
           plan == IF resized THEN ResolveResize(size, wanted.resize) ELSE Plan(size, size, <<0, 0>>)
<1>1. framed \in FrameSizes
  BY FramedIsSize DEF CropTyped
<1>2. staged' \in {NotStaged, [crop |-> c, framed |-> framed, plan |-> plan, resized |-> resized]}
  BY DEF StageFrames
<1> HIDE DEF framed, resized
<1>3. c = NoCrop \/ (c \in ValidCrops /\ FitsIn(c, framed))
  <2>1. CASE crop = NoCrop
    BY <2>1
  <2>2. CASE crop # NoCrop
    <3>1. crop \in WholeCrops
      BY <2>2 DEF CropTyped, ValidCrops
    <3> QED
      BY <1>1, <2>2, <3>1, ClampedFits
  <2> QED
    BY <2>1, <2>2
<1> HIDE DEF c
<1>4. size \in FrameSizes
  <2>1. c \in ValidCrops => <<c.w, c.h>> \in FrameSizes
    BY DEF ValidCrops, WholeCrops, IsValid, FrameSizes
  <2> QED
    BY <1>1, <1>3, <2>1
<1> HIDE DEF size
<1>5. PlanLies(plan)
  <2>1. PlanLies(ResolveResize(size, wanted.resize))
    BY <1>4, ResizeLies DEF CropTyped
  <2>2. PlanLies(Plan(size, size, <<0, 0>>))
    <3>1. size[1] \in Int /\ size[2] \in Int
      BY <1>4, SizesCount
    <3> QED
      BY <3>1, SamePlanLies
  <2> QED
    BY <2>1, <2>2
<1> HIDE DEF plan
<1>6. PlanLies(NotStaged.plan) /\ NotStaged.crop = NoCrop
  <2>1. PlanLies(Plan(<<0, 0>>, <<0, 0>>, <<0, 0>>))
    BY SamePlanLies
  <2> QED
    BY <2>1 DEF NotStaged
<1>7. /\ staged'.crop = NoCrop \/ IsValid(staged'.crop)
      /\ staged'.crop # NoCrop => FitsIn(staged'.crop, staged'.framed)
      /\ PlanLies(staged'.plan)
  BY <1>2, <1>3, <1>5, <1>6 DEF ValidCrops
<1> QED
  BY <1>7 DEF StagedInv, StagedFits, PlanLies

-----------------------------------------------------------------------------
(* CropEditor: steps of the canvas *)

LEMMA WhatIsShown ==
    ASSUME CropTyped, OverlayIsCurrent, canvas.on
    PROVE  /\ canvas.view \in CropViews /\ canvas.view.size = cutFacts /\ canvas.view = ViewOf(crop, cutFacts)
           /\ crop # NoCrop => canvas.view.crop = crop
           /\ crop = NoCrop => canvas.view.crop = WholeFrame(cutFacts)
  BY ViewsAreShown DEF CropTyped, OverlayIsCurrent

LEMMA CandidateFits ==
    ASSUME canvas \in Canvases, NEW view \in CropViews, canvas.view \in CropViews,
           NEW target \in CropTargets, NEW d \in Int \X Int
    PROVE  LET c == CandidateCrop(view, target, d)
           IN  /\ c \in WholeCrops
               /\ IsValid(c) /\ view.size = canvas.view.size /\ FitsIn(view.crop, view.size)
                     => FitsIn(c, canvas.view.size)
               /\ canvas.lock = <<0, 0>> /\ FitsIn(view.crop, view.size) /\ d = <<0, 0>> => c = view.crop
<1> DEFINE nudged == NudgeCrop(view.crop, target, d, view.size)
           fitted == FitCropAspect(nudged, canvas.lock, target, canvas.view.size)
<1>1. view.crop \in ValidCrops /\ view.size \in FrameSizes /\ canvas.view.size \in FrameSizes
  BY DEF CropViews
<1>2. /\ nudged \in WholeCrops /\ (FitsIn(view.crop, view.size) => FitsIn(nudged, view.size))
      /\ FitsIn(view.crop, view.size) /\ d = <<0, 0>> => nudged = view.crop
  BY <1>1, NudgedIsWhole
<1>3. CandidateCrop(view, target, d) = IF canvas.lock = <<0, 0>> \/ ~IsValid(nudged) THEN nudged ELSE fitted
  BY DEF CandidateCrop
<1> HIDE DEF nudged
<1>4. CASE canvas.lock = <<0, 0>> \/ ~IsValid(nudged)
  BY <1>2, <1>3, <1>4
<1>5. CASE canvas.lock # <<0, 0>> /\ IsValid(nudged)
  <2>1. canvas.lock \in Ratios /\ nudged \in ValidCrops
    BY <1>2, <1>5 DEF Canvases, ValidCrops
  <2>2. fitted \in WholeCrops /\ (IsValid(fitted) => FitsIn(fitted, canvas.view.size))
    BY <1>1, <2>1, FittedFits
  <2> QED
    BY <1>3, <1>5, <2>2
<1> QED
  BY <1>4, <1>5

LEMMA ReviewedCanvas ==
    ASSUME canvas \in Canvases, NEW v \in CropViews \cup {NoView}
    PROVE  LET c == [canvas EXCEPT !.view = v]
           IN  /\ c \in Canvases /\ c.view = v /\ c.on = canvas.on /\ c.focused = canvas.focused
               /\ c.dragged = canvas.dragged /\ c.from = canvas.from /\ c.lock = canvas.lock /\ c.kind = canvas.kind
  BY DEF Canvases

\* What PresentCrop makes of the canvas.
LEMMA Presented ==
    ASSUME CropTyped, NEW c \in ValidCrops \cup {NoCrop}, NEW size \in FrameSizes, NEW stored \in ValidCrops \cup {NoCrop},
           PresentCrop(stored, ViewOf(c, size))
    PROVE  /\ crop' = stored /\ canvas' \in Canvases /\ canvas'.on = canvas.on /\ canvas'.focused = canvas.focused
           /\ canvas'.dragged = canvas.dragged /\ canvas'.from = canvas.from /\ canvas'.lock = canvas.lock
           /\ canvas.on => canvas'.view = ViewOf(c, size)
<1>1. ViewOf(c, size) \in CropViews
  BY ViewsAreShown
<1> DEFINE v == IF canvas.on THEN ViewOf(c, size) ELSE canvas.view
<1>2. v \in CropViews \cup {NoView}
  BY <1>1 DEF CropTyped, Canvases
<1>3. crop' = stored /\ canvas' = [canvas EXCEPT !.view = v]
  BY DEF PresentCrop
<1> HIDE DEF v
<1>4. canvas \in Canvases
  BY DEF CropTyped
<1>5. /\ canvas' \in Canvases /\ canvas'.view = v /\ canvas'.on = canvas.on /\ canvas'.focused = canvas.focused
      /\ canvas'.dragged = canvas.dragged /\ canvas'.from = canvas.from /\ canvas'.lock = canvas.lock
  BY <1>2, <1>3, <1>4, ReviewedCanvas
<1> QED
  BY <1>3, <1>5 DEF v

CanvasStays ==
    /\ canvas' \in Canvases /\ canvas'.on = canvas.on /\ canvas'.focused = canvas.focused
    /\ canvas'.dragged = canvas.dragged /\ canvas'.from = canvas.from /\ canvas'.lock = canvas.lock

\* What an edit of the canvas makes of the crop and the overlay.
LEMMA EmittedCrop ==
    ASSUME CropTyped, OverlayIsCurrent, canvas.on, NEW c \in ValidCrops, Emit(c, canvas.view), UNCHANGED cutFacts
    PROVE  /\ CanvasStays /\ crop' \in ValidCrops \cup {NoCrop} /\ OverlayIsCurrent'
           /\ crop' # crop /\ FitsIn(c, cutFacts) => FitsIn(crop', cutFacts)
           /\ FitsIn(c, cutFacts) /\ ~wanted.job => canvas'.view.crop = c
<1> DEFINE taken == IF IsResult THEN c ELSE ClampCrop(c, cutFacts)
<1>1. cutFacts \in FrameSizes /\ c \in WholeCrops /\ IsValid(c) /\ canvas \in Canvases
  BY DEF CropTyped, ValidCrops
<1>2. taken \in ValidCrops /\ (FitsIn(c, cutFacts) => taken = c)
  BY <1>1, ClampedFits
<1>3. IF c = canvas.view.crop \/ wanted.job THEN UNCHANGED <<crop, canvas>> ELSE PresentCrop(taken, ViewOf(taken, cutFacts))
  BY DEF Emit
<1> HIDE DEF taken
<1>4. CASE c = canvas.view.crop \/ wanted.job
  <2>1. crop' = crop /\ canvas' = canvas
    BY <1>3, <1>4
  <2>2. crop \in ValidCrops \cup {NoCrop}
    BY DEF CropTyped
  <2>3. OverlayIsCurrent'
    BY <2>1 DEF OverlayIsCurrent
  <2> QED
    BY <1>1, <1>4, <2>1, <2>2, <2>3 DEF CanvasStays
<1>5. CASE ~(c = canvas.view.crop \/ wanted.job)
  <2>1. PresentCrop(taken, ViewOf(taken, cutFacts))
    BY <1>3, <1>5
  <2>2. /\ crop' = taken /\ CanvasStays /\ (canvas.on => canvas'.view = ViewOf(taken, cutFacts))
    BY <1>1, <1>2, <2>1, Presented DEF CanvasStays
  <2>3. OverlayIsCurrent'
    BY <2>2 DEF OverlayIsCurrent
  <2>4. ViewOf(taken, cutFacts).crop = taken
    BY <1>1, <1>2, NothingIsNoCrop, ViewsAreShown
  <2> QED
    BY <1>2, <2>2, <2>3, <2>4
<1> QED
  BY <1>4, <1>5

-----------------------------------------------------------------------------
(* CropEditor: the steps keep the invariant *)

LEMMA HalvesAreInt ==
    ASSUME NEW v \in Int
    PROVE  RoundedHalves(v) \in Int
  BY DEF RoundedHalves

LEMMA NoHalves == RoundedHalves(0) = 0
  BY DEF RoundedHalves

\* What a handler leaves that touches neither the drag nor what is staged.
LEMMA QuietEdit ==
    ASSUME CropInv, NEW by, by # "drag", NEW at, NEW raised, Noted(by, at, raised), UNCHANGED staged,
           canvas' \in Canvases, canvas'.focused = canvas.focused, canvas'.dragged = canvas.dragged, canvas'.from = canvas.from
    PROVE  PressInv' /\ StagedInv' /\ DragHasNoDrift'
<1>1. PressInv'
  BY DEF CropInv, PressInv
<1>2. StagedInv'
  BY DEF CropInv, StagedInv, StagedFits
<1>3. lastEdit'.by = by
  BY DEF Noted
<1>4. DragHasNoDrift'
  BY <1>3 DEF DragHasNoDrift
<1> QED
  BY <1>1, <1>2, <1>4

LEMMA PressHandleKeeps ==
    ASSUME CropInv, PressHandle
    PROVE  CropInv'
<1> USE DEF CropInv
<1>1. PICK target \in CropTargets : canvas' = [canvas EXCEPT !.focused = target, !.dragged = target, !.from = canvas.view]
  BY DEF PressHandle, CropTargets
<1>2. canvas \in Canvases /\ canvas.view \in CropViews
  BY DEF CropTyped, Canvases, PressHandle
<1>3. /\ canvas' \in Canvases /\ canvas'.on = canvas.on /\ canvas'.view = canvas.view
      /\ canvas'.focused = target /\ canvas'.dragged = target /\ canvas'.from = canvas.view
  BY <1>1, <1>2, ZenonT(40) DEF Canvases
<1>4. UNCHANGED <<crop, cutFacts, wanted, staged>> /\ lastEdit'.by = "press"
  BY DEF PressHandle, OtherStays, Noted
<1>5. CropTyped'
  BY <1>3, <1>4 DEF CropTyped
<1>6. target # "none"
  BY DEF CropTargets, CropHandles, West, East
<1>7. PressInv'
  BY <1>2, <1>3, <1>6 DEF PressInv
<1>8. OverlayIsCurrent'
  BY <1>3, <1>4 DEF OverlayIsCurrent
<1>9. StagedInv' /\ DragHasNoDrift'
  BY <1>4 DEF StagedInv, StagedFits, DragHasNoDrift
<1> QED
  BY <1>5, <1>7, <1>8, <1>9

\* An edit of the canvas, of a handle and an offset, from a crop that was shown.
LEMMA CanvasEdit ==
    ASSUME CropInv, canvas.on, NEW view \in CropViews, NEW target \in CropTargets, NEW d \in Int \X Int,
           UNCHANGED <<cutFacts, wanted, staged>>,
           LET c == CandidateCrop(view, target, d)
           IN  IF IsValid(c) THEN Emit(c, canvas.view) ELSE UNCHANGED <<crop, canvas>>
    PROVE  /\ CropTyped' /\ CanvasStays /\ OverlayIsCurrent'
           /\ view.size = cutFacts /\ FitsIn(view.crop, cutFacts) /\ crop' # crop => FitsIn(crop', cutFacts)
           /\ (/\ view.size = cutFacts /\ FitsIn(view.crop, cutFacts) /\ canvas.lock = <<0, 0>>
               /\ ~wanted.job /\ d = <<0, 0>>)
                 => canvas'.view.crop = view.crop
<1> DEFINE c == CandidateCrop(view, target, d)
<1>1. CropTyped /\ OverlayIsCurrent /\ canvas \in Canvases
  BY DEF CropInv, CropTyped
<1>2. canvas.view \in CropViews /\ canvas.view.size = cutFacts
  BY <1>1, WhatIsShown
<1>3. /\ c \in WholeCrops
      /\ IsValid(c) /\ view.size = cutFacts /\ FitsIn(view.crop, cutFacts) => FitsIn(c, cutFacts)
      /\ canvas.lock = <<0, 0>> /\ view.size = cutFacts /\ FitsIn(view.crop, cutFacts) /\ d = <<0, 0>> => c = view.crop
  BY <1>1, <1>2, CandidateFits
<1>4. IF IsValid(c) THEN Emit(c, canvas.view) ELSE UNCHANGED <<crop, canvas>>
  OBVIOUS
<1>5. IsValid(view.crop)
  BY DEF CropViews, ValidCrops
<1> HIDE DEF c
<1>6. CASE IsValid(c)
  <2>1. c \in ValidCrops /\ Emit(c, canvas.view)
    BY <1>3, <1>4, <1>6 DEF ValidCrops
  <2>2. /\ CanvasStays /\ crop' \in ValidCrops \cup {NoCrop} /\ OverlayIsCurrent'
        /\ crop' # crop /\ FitsIn(c, cutFacts) => FitsIn(crop', cutFacts)
        /\ FitsIn(c, cutFacts) /\ ~wanted.job => canvas'.view.crop = c
    BY <1>1, <2>1, EmittedCrop
  <2>3. CropTyped'
    BY <1>1, <2>2 DEF CropTyped, CanvasStays
  <2> QED
    BY <1>3, <1>6, <2>2, <2>3
<1>7. CASE ~IsValid(c)
  <2>1. UNCHANGED <<crop, canvas>>
    BY <1>4, <1>7
  <2>2. CropTyped' /\ CanvasStays /\ OverlayIsCurrent'
    BY <1>1, <2>1 DEF CropTyped, CanvasStays, OverlayIsCurrent
  <2> QED
    BY <1>3, <1>5, <1>7, <2>1, <2>2
<1> QED
  BY <1>6, <1>7

LEMMA MovePointerKeeps ==
    ASSUME CropInv, MovePointer
    PROVE  /\ CropInv'
           /\ canvas.from.size = cutFacts /\ FitsIn(canvas.from.crop, cutFacts) /\ crop' # crop => FitsIn(crop', cutFacts)
<1>1. PICK offset \in Pointers : Drag(offset)
  BY DEF MovePointer
<1> DEFINE d == <<RoundedHalves(offset[1]), RoundedHalves(offset[2])>>
           c == CandidateCrop(canvas.from, canvas.dragged, d)
<1>2. d \in Int \X Int /\ (offset = <<0, 0>> => d = <<0, 0>>)
  <2>1. offset[1] \in Int /\ offset[2] \in Int
    BY CropEditorAssumption
  <2>2. offset = <<0, 0>> => offset[1] = 0 /\ offset[2] = 0
    OBVIOUS
  <2> QED
    BY <2>1, <2>2, HalvesAreInt, NoHalves
<1>3. /\ UNCHANGED <<cutFacts, wanted, staged>> /\ canvas.on /\ canvas.dragged # "none"
      /\ CropTyped /\ OverlayIsCurrent /\ PressInv /\ canvas \in Canvases
  BY DEF MovePointer, OtherStays, CropInv, CropTyped
<1>4. canvas.from \in CropViews /\ canvas.dragged \in CropTargets
  BY <1>3 DEF PressInv, Canvases
<1>5. /\ lastEdit' = [by |-> "drag", at |-> offset, raised |-> ~IsValid(c)]
      /\ IF IsValid(c) THEN Emit(c, canvas.view) ELSE UNCHANGED <<crop, canvas>>
  BY <1>1 DEF Drag, Noted
<1> HIDE DEF d
<1>6. /\ CropTyped' /\ CanvasStays /\ OverlayIsCurrent'
      /\ canvas.from.size = cutFacts /\ FitsIn(canvas.from.crop, cutFacts) /\ crop' # crop => FitsIn(crop', cutFacts)
      /\ (/\ canvas.from.size = cutFacts /\ FitsIn(canvas.from.crop, cutFacts) /\ canvas.lock = <<0, 0>>
          /\ ~wanted.job /\ d = <<0, 0>>)
            => canvas'.view.crop = canvas.from.crop
  BY <1>2, <1>3, <1>4, <1>5, CanvasEdit
<1>7. PressInv'
  BY <1>3, <1>6 DEF PressInv, CanvasStays
<1>8. StagedInv'
  BY <1>3 DEF CropInv, StagedInv, StagedFits
<1>9. canvas'.on => canvas'.view.size = cutFacts
  <2>1. cutFacts \in FrameSizes /\ crop' \in ValidCrops \cup {NoCrop}
    BY <1>3, <1>6 DEF CropTyped
  <2> QED
    BY <1>3, <1>6, <2>1, ViewsAreShown DEF OverlayIsCurrent
<1>10. DragHasNoDrift'
  <2>1. SUFFICES ASSUME lastEdit'.at = <<0, 0>>, canvas'.lock = <<0, 0>>, ~wanted'.job,
                        canvas'.from.size = canvas'.view.size, FitsIn(canvas'.from.crop, canvas'.from.size)
                 PROVE  canvas'.view.crop = canvas'.from.crop
    BY DEF DragHasNoDrift
  <2>2. canvas'.from = canvas.from /\ canvas'.lock = canvas.lock /\ canvas'.on
    BY <1>3, <1>6 DEF CanvasStays
  <2>3. offset = <<0, 0>> /\ canvas.from.size = cutFacts
    BY <1>5, <1>9, <2>1, <2>2
  <2> QED
    BY <1>2, <1>3, <1>6, <2>1, <2>2, <2>3
<1> QED
  BY <1>6, <1>7, <1>8, <1>10 DEF CropInv

LEMMA PressArrowKeeps ==
    ASSUME CropInv, PressArrow
    PROVE  CropInv' /\ (FitsIn(canvas.view.crop, cutFacts) /\ crop' # crop => FitsIn(crop', cutFacts))
<1>1. PICK d \in {<<-1, 0>>, <<1, 0>>, <<0, -1>>, <<0, 1>>} :
         LET c == CandidateCrop(canvas.view, canvas.focused, d) IN
         Noted("key", <<0, 0>>, ~IsValid(c)) /\ IF IsValid(c) THEN Emit(c, canvas.view) ELSE UNCHANGED <<crop, canvas>>
  BY DEF PressArrow
<1> DEFINE c == CandidateCrop(canvas.view, canvas.focused, d)
<1>2. /\ UNCHANGED <<cutFacts, wanted, staged>> /\ canvas.on
      /\ CropTyped /\ OverlayIsCurrent /\ canvas.focused \in CropTargets
  BY DEF PressArrow, OtherStays, CropInv, CropTyped, Canvases
<1>3. canvas.view \in CropViews /\ canvas.view.size = cutFacts
  BY <1>2, WhatIsShown
<1>4. d \in Int \X Int
  OBVIOUS
<1>5. Noted("key", <<0, 0>>, ~IsValid(c)) /\ IF IsValid(c) THEN Emit(c, canvas.view) ELSE UNCHANGED <<crop, canvas>>
  BY <1>1
<1>6. /\ CropTyped' /\ CanvasStays /\ OverlayIsCurrent'
      /\ FitsIn(canvas.view.crop, cutFacts) /\ crop' # crop => FitsIn(crop', cutFacts)
  BY <1>2, <1>3, <1>4, <1>5, CanvasEdit
<1>7. PressInv' /\ StagedInv' /\ DragHasNoDrift'
  BY <1>2, <1>5, <1>6, QuietEdit DEF CanvasStays
<1> QED
  BY <1>6, <1>7 DEF CropInv

LEMMA ReleaseHandleKeeps ==
    ASSUME CropInv, ReleaseHandle
    PROVE  CropInv'
<1>1. canvas \in Canvases /\ canvas' = [canvas EXCEPT !.dragged = "none", !.from = NoView]
  BY DEF ReleaseHandle, CropInv, CropTyped
<1>2. /\ canvas' \in Canvases /\ canvas'.on = canvas.on /\ canvas'.view = canvas.view
      /\ canvas'.focused = canvas.focused /\ canvas'.dragged = "none" /\ canvas'.from = NoView
  BY <1>1, ZenonT(40) DEF Canvases
<1>3. UNCHANGED <<crop, cutFacts, wanted, staged>> /\ lastEdit'.by = "release"
  BY DEF ReleaseHandle, OtherStays, Noted
<1>4. CropTyped'
  BY <1>2, <1>3 DEF CropInv, CropTyped
<1>5. PressInv' /\ DragHasNoDrift'
  BY <1>2, <1>3 DEF PressInv, DragHasNoDrift
<1>6. OverlayIsCurrent' /\ StagedInv'
  BY <1>2, <1>3 DEF CropInv, OverlayIsCurrent, StagedInv, StagedFits
<1> QED
  BY <1>4, <1>5, <1>6 DEF CropInv

\* The crop becomes one that is valid and the overlay shows it.
LEMMA PresentingKeeps ==
    ASSUME CropInv, NEW by, by # "drag", NEW stored \in ValidCrops \cup {NoCrop}, NEW c \in ValidCrops \cup {NoCrop},
           cutFacts' \in FrameSizes, PresentCrop(stored, ViewOf(c, cutFacts')), ViewOf(c, cutFacts') = ViewOf(stored, cutFacts'),
           Noted(by, <<0, 0>>, FALSE), UNCHANGED staged, wanted' = [wanted EXCEPT !.video = wanted'.video],
           wanted'.video \in CropVideos
    PROVE  CropInv'
<1>1. /\ crop' = stored /\ canvas' \in Canvases /\ canvas'.on = canvas.on /\ canvas'.focused = canvas.focused
      /\ canvas'.dragged = canvas.dragged /\ canvas'.from = canvas.from /\ canvas'.lock = canvas.lock
      /\ canvas.on => canvas'.view = ViewOf(c, cutFacts')
  BY Presented DEF CropInv
<1>2. /\ wanted'.framing = wanted.framing /\ wanted'.resize = wanted.resize
      /\ wanted' \in [framing : FramingSpecs, resize : {wanted.resize}, job : BOOLEAN, video : CropVideos]
  BY DEF CropInv, CropTyped
<1>3. CropTyped'
  BY <1>1, <1>2 DEF CropInv, CropTyped
<1>4. OverlayIsCurrent'
  BY <1>1 DEF OverlayIsCurrent
<1>5. PressInv' /\ StagedInv' /\ DragHasNoDrift'
  BY <1>1, QuietEdit
<1> QED
  BY <1>3, <1>4, <1>5 DEF CropInv

\* Handlers that leave the crop, the canvas and the facts alone.
LEMMA ParametersKeep ==
    ASSUME CropInv, NEW by, by # "drag", Noted(by, <<0, 0>>, FALSE), UNCHANGED <<crop, canvas, cutFacts>>, StagedInv',
           wanted' \in [framing : FramingSpecs, resize : {wanted'.resize}, job : BOOLEAN, video : CropVideos],
           wanted'.resize.width \in Nat, wanted'.resize.height \in Nat
    PROVE  CropInv'
<1>1. CropTyped' /\ PressInv' /\ OverlayIsCurrent'
  BY DEF CropInv, CropTyped, PressInv, OverlayIsCurrent
<1>2. DragHasNoDrift'
  BY DEF Noted, DragHasNoDrift
<1> QED
  BY <1>1, <1>2 DEF CropInv

LEMMA ResetCropKeeps ==
    ASSUME CropInv, ResetCrop
    PROVE  CropInv'
<1>1. cutFacts' \in FrameSizes /\ cutFacts' = cutFacts /\ UNCHANGED <<wanted, staged>>
  BY DEF ResetCrop, OtherStays, CropInv, CropTyped
<1>2. PresentCrop(WholeFrame(cutFacts), ViewOf(NoCrop, cutFacts')) /\ Noted("reset", <<0, 0>>, FALSE)
  BY <1>1 DEF ResetCrop
<1>3. WholeFrame(cutFacts) \in ValidCrops \cup {NoCrop} /\ ViewOf(NoCrop, cutFacts') = ViewOf(WholeFrame(cutFacts), cutFacts')
  BY <1>1, WholeFrameIsValid DEF ViewOf
<1>4. wanted' = [wanted EXCEPT !.video = wanted'.video] /\ wanted'.video \in CropVideos
  BY <1>1 DEF CropInv, CropTyped
<1> QED
  BY <1>1, <1>2, <1>3, <1>4, PresentingKeeps

LEMMA LoadVideoKeeps ==
    ASSUME CropInv, LoadVideo
    PROVE  CropInv'
<1>1. PICK video \in CropVideos :
         /\ cutFacts' = video /\ wanted' = [wanted EXCEPT !.video = video]
         /\ crop' = WholeFrame(video) /\ canvas' = [canvas EXCEPT !.view = ViewOf(NoCrop, video)]
  BY DEF LoadVideo
<1>2. cutFacts' \in FrameSizes
  BY <1>1, FramedIsSize DEF CropInv, CropTyped
<1>3. ViewOf(NoCrop, cutFacts') = ViewOf(WholeFrame(cutFacts'), cutFacts') /\ ViewOf(NoCrop, cutFacts') \in CropViews
  BY <1>2, WholeFrameIsValid, ViewsAreShown DEF ViewOf
<1>4. WholeFrame(cutFacts') \in ValidCrops
  BY <1>2, WholeFrameIsValid
<1>5. canvas \in Canvases /\ UNCHANGED staged /\ Noted("load", <<0, 0>>, FALSE)
  BY DEF LoadVideo, CropInv, CropTyped
<1>6. /\ canvas' \in Canvases /\ canvas'.view = ViewOf(NoCrop, cutFacts') /\ canvas'.on = canvas.on
      /\ canvas'.focused = canvas.focused /\ canvas'.dragged = canvas.dragged /\ canvas'.from = canvas.from
  BY <1>1, <1>3, <1>5, ReviewedCanvas
<1>7. PressInv' /\ StagedInv' /\ DragHasNoDrift'
  BY <1>5, <1>6, QuietEdit
<1>8. OverlayIsCurrent'
  BY <1>1, <1>3, <1>6 DEF OverlayIsCurrent
<1>9. CropTyped'
  BY <1>1, <1>2, <1>4, <1>6 DEF CropInv, CropTyped
<1> QED
  BY <1>7, <1>8, <1>9 DEF CropInv

LEMMA ToggleOverlayKeeps ==
    ASSUME CropInv, ToggleOverlay
    PROVE  CropInv'
<1> DEFINE v == IF canvas.on THEN NoView ELSE ViewOf(crop, cutFacts)
<1>1. canvas' = [canvas EXCEPT !.on = ~canvas.on, !.view = v]
  BY DEF ToggleOverlay
<1>2. canvas \in Canvases /\ crop \in ValidCrops \cup {NoCrop} /\ cutFacts \in FrameSizes
  BY DEF CropInv, CropTyped
<1>3. v \in CropViews \cup {NoView} /\ (~canvas.on => v = ViewOf(crop, cutFacts))
  BY <1>2, ViewsAreShown
<1> HIDE DEF v
<1> DEFINE shows == ~canvas.on
<1>9. shows \in BOOLEAN /\ canvas' = [canvas EXCEPT !.on = shows, !.view = v]
  BY <1>1
<1>10. shows = ~canvas.on
  OBVIOUS
<1> HIDE DEF shows
<1>4. /\ canvas' \in Canvases /\ canvas'.view = v /\ canvas'.on = shows
      /\ canvas'.focused = canvas.focused /\ canvas'.dragged = canvas.dragged /\ canvas'.from = canvas.from
  <2>1. canvas'.view = v /\ canvas'.focused = canvas.focused /\ canvas'.dragged = canvas.dragged /\ canvas'.from = canvas.from
    BY <1>2, <1>9 DEF Canvases
  <2>2. canvas' \in Canvases
    <3>1. [canvas EXCEPT !.on = shows] \in Canvases
      BY <1>2, <1>9 DEF Canvases
    <3>2. canvas' = [[canvas EXCEPT !.on = shows] EXCEPT !.view = v]
      BY <1>9, Zenon
    <3> QED
      BY <1>3, <3>1, <3>2, ZenonT(40) DEF Canvases
  <2>3. canvas'.on = shows
    BY <1>2, <1>9 DEF Canvases
  <2> QED
    BY <2>1, <2>2, <2>3
<1>5. UNCHANGED <<crop, cutFacts, wanted, staged>> /\ Noted("toggle", <<0, 0>>, FALSE)
  BY DEF ToggleOverlay, OtherStays
<1>6. PressInv' /\ StagedInv' /\ DragHasNoDrift'
  BY <1>4, <1>5, QuietEdit
<1>7. CropTyped'
  BY <1>4, <1>5 DEF CropInv, CropTyped
<1>8. OverlayIsCurrent'
  BY <1>3, <1>4, <1>5, <1>10 DEF OverlayIsCurrent
<1> QED
  BY <1>6, <1>7, <1>8 DEF CropInv

LEMMA ChooseAspectKeeps ==
    ASSUME CropInv, ChooseAspect
    PROVE  CropInv'
<1>1. /\ UNCHANGED <<cutFacts, wanted, staged>> /\ Noted("aspect", <<0, 0>>, FALSE)
      /\ canvas \in Canvases /\ crop \in ValidCrops \cup {NoCrop} /\ cutFacts \in FrameSizes /\ OverlayIsCurrent
  BY DEF ChooseAspect, OtherStays, CropInv, CropTyped
<1>2. CASE \E ratio \in Ratios \ {canvas.lock} :
             LET c == CenteredCrop(ratio, cutFacts) IN
             /\ crop' = c
             /\ canvas' = [canvas EXCEPT !.lock = ratio, !.view = IF canvas.on /\ c # crop THEN ViewOf(c, cutFacts) ELSE @]
  <2>1. PICK ratio \in Ratios :
             LET c == CenteredCrop(ratio, cutFacts) IN
             /\ crop' = c
             /\ canvas' = [canvas EXCEPT !.lock = ratio, !.view = IF canvas.on /\ c # crop THEN ViewOf(c, cutFacts) ELSE @]
    BY <1>2
  <2> DEFINE c == CenteredCrop(ratio, cutFacts)
             v == IF canvas.on /\ c # crop THEN ViewOf(c, cutFacts) ELSE canvas.view
  <2>2. c \in ValidCrops
    BY <1>1, CenteredIsValid
  <2>3. crop' = c /\ canvas' = [canvas EXCEPT !.lock = ratio, !.view = v]
    BY <2>1
  <2> HIDE DEF c
  <2>4. v \in CropViews \cup {NoView} /\ (canvas.on => v = ViewOf(c, cutFacts))
    BY <1>1, <2>2, ViewsAreShown DEF OverlayIsCurrent, Canvases
  <2> HIDE DEF v
  <2>5. /\ canvas' \in Canvases /\ canvas'.view = v /\ canvas'.on = canvas.on
        /\ canvas'.focused = canvas.focused /\ canvas'.dragged = canvas.dragged /\ canvas'.from = canvas.from
    BY <1>1, <2>3, <2>4, ZenonT(40) DEF Canvases
  <2>6. PressInv' /\ StagedInv' /\ DragHasNoDrift'
    BY <1>1, <2>5, QuietEdit
  <2>7. CropTyped'
    BY <1>1, <2>2, <2>3, <2>5 DEF CropInv, CropTyped
  <2>8. OverlayIsCurrent'
    BY <1>1, <2>3, <2>4, <2>5 DEF OverlayIsCurrent
  <2> QED
    BY <2>6, <2>7, <2>8 DEF CropInv
<1>3. CASE canvas.lock # <<0, 0>> /\ canvas' = [canvas EXCEPT !.lock = <<0, 0>>] /\ UNCHANGED crop
  <2>1. /\ canvas' \in Canvases /\ canvas'.view = canvas.view /\ canvas'.on = canvas.on
        /\ canvas'.focused = canvas.focused /\ canvas'.dragged = canvas.dragged /\ canvas'.from = canvas.from
    BY <1>1, <1>3 DEF Canvases
  <2>2. PressInv' /\ StagedInv' /\ DragHasNoDrift'
    BY <1>1, <2>1, QuietEdit
  <2>3. CropTyped' /\ OverlayIsCurrent'
    BY <1>1, <1>3, <2>1 DEF CropInv, CropTyped, OverlayIsCurrent
  <2> QED
    BY <2>2, <2>3 DEF CropInv
<1> QED
  BY <1>2, <1>3 DEF ChooseAspect

\* What the spin boxes show of a crop is one that CropSpec accepts.
LEMMA ShownIsValid ==
    ASSUME NEW c \in ValidCrops \cup {NoCrop}, NEW size \in FrameSizes
    PROVE  Shown(c, size) \in ValidCrops
<1> DEFINE e == IF c = NoCrop THEN WholeFrame(size) ELSE c
           x == Bounded(e.x, 0, size[1] - 1)
           y == Bounded(e.y, 0, size[2] - 1)
           w == Bounded(e.w, 1, size[1])
           h == Bounded(e.h, 1, size[2])
<1>1. size[1] \in Nat \ {0} /\ size[2] \in Nat \ {0}
  BY SizesCount
<1>2. e \in ValidCrops
  BY WholeFrameIsValid
<1> HIDE DEF e
<1>3. e.x \in Int /\ e.y \in Int /\ e.w \in Int /\ e.h \in Int
  BY <1>2 DEF ValidCrops, WholeCrops
<1>4. size[1] - 1 \in Int /\ 0 <= size[1] - 1 /\ size[2] - 1 \in Int /\ 0 <= size[2] - 1
      /\ size[1] \in Int /\ size[2] \in Int /\ 1 <= size[1] /\ 1 <= size[2]
  BY <1>1
<1>5. x \in Int /\ 0 <= x /\ y \in Int /\ 0 <= y
  BY <1>3, <1>4, OriginLies
<1>6. w \in Int /\ 1 <= w /\ h \in Int /\ 1 <= h
  BY <1>3, <1>4, SideLies
<1> HIDE DEF x, y, w, h
<1>7. Shown(c, size) = CropSpec(x, y, w, h)
  BY DEF Shown, e, x, y, w, h
<1> QED
  BY <1>5, <1>6, <1>7 DEF CropSpec, ValidCrops, WholeCrops, IsValid

LEMMA EditFieldKeeps ==
    ASSUME CropInv, EditField
    PROVE  CropInv'
<1> DEFINE s == Shown(crop, cutFacts)
<1>1. /\ UNCHANGED <<cutFacts, wanted, staged>> /\ Noted("field", <<0, 0>>, FALSE)
      /\ crop \in ValidCrops \cup {NoCrop} /\ cutFacts \in FrameSizes
  BY DEF EditField, OtherStays, CropInv, CropTyped
<1>2. s \in ValidCrops
  BY <1>1, ShownIsValid
<1>3. PICK c \in {[s EXCEPT !.x = v] : v \in 0..(cutFacts[1] - 1)} \cup {[s EXCEPT !.y = v] : v \in 0..(cutFacts[2] - 1)}
                 \cup {[s EXCEPT !.w = v] : v \in 1..cutFacts[1]} \cup {[s EXCEPT !.h = v] : v \in 1..cutFacts[2]} :
         PresentCrop(c, ViewOf(c, cutFacts))
  BY DEF EditField
<1> HIDE DEF s
<1>4. cutFacts[1] \in Int /\ cutFacts[2] \in Int
  BY <1>1, SizesCount
<1>5. c \in ValidCrops
  <2>1. \A v \in 0..(cutFacts[1] - 1) : [s EXCEPT !.x = v] \in ValidCrops
    BY <1>2, <1>4 DEF ValidCrops, WholeCrops, IsValid
  <2>2. \A v \in 0..(cutFacts[2] - 1) : [s EXCEPT !.y = v] \in ValidCrops
    BY <1>2, <1>4 DEF ValidCrops, WholeCrops, IsValid
  <2>3. \A v \in 1..cutFacts[1] : [s EXCEPT !.w = v] \in ValidCrops
    BY <1>2, <1>4 DEF ValidCrops, WholeCrops, IsValid
  <2>4. \A v \in 1..cutFacts[2] : [s EXCEPT !.h = v] \in ValidCrops
    BY <1>2, <1>4 DEF ValidCrops, WholeCrops, IsValid
  <2> QED
    BY <1>3, <2>1, <2>2, <2>3, <2>4
<1>6. PresentCrop(c, ViewOf(c, cutFacts')) /\ cutFacts' \in FrameSizes
  BY <1>1, <1>3
<1>7. wanted' = [wanted EXCEPT !.video = wanted'.video] /\ wanted'.video \in CropVideos
  BY <1>1 DEF CropInv, CropTyped
<1> QED
  BY <1>1, <1>5, <1>6, <1>7, PresentingKeeps

LEMMA ChooseResizeKeeps ==
    ASSUME CropInv, ChooseResize
    PROVE  CropInv'
<1>1. PICK r \in Resizes : wanted' = [wanted EXCEPT !.resize = r]
  BY DEF ChooseResize
<1>2. UNCHANGED <<crop, canvas, cutFacts, staged>> /\ Noted("resize", <<0, 0>>, FALSE)
  BY DEF ChooseResize
<1>3. /\ wanted' \in [framing : FramingSpecs, resize : {wanted'.resize}, job : BOOLEAN, video : CropVideos]
      /\ wanted'.resize = r
  BY <1>1 DEF CropInv, CropTyped
<1>4. r.width \in Nat /\ r.height \in Nat
  BY CropEditorAssumption
<1>5. StagedInv'
  BY <1>2 DEF CropInv, StagedInv, StagedFits
<1> QED
  BY <1>2, <1>3, <1>4, <1>5, ParametersKeep

LEMMA EditFramingKeeps ==
    ASSUME CropInv, EditFraming
    PROVE  CropInv'
<1>1. PICK f \in FramingSpecs : wanted' = [wanted EXCEPT !.framing = f]
  BY DEF EditFraming
<1>2. UNCHANGED <<crop, canvas, cutFacts, staged>> /\ Noted("framing", <<0, 0>>, FALSE)
  BY DEF EditFraming
<1>3. /\ wanted' \in [framing : FramingSpecs, resize : {wanted'.resize}, job : BOOLEAN, video : CropVideos]
      /\ wanted'.resize.width \in Nat /\ wanted'.resize.height \in Nat
  BY <1>1 DEF CropInv, CropTyped
<1>4. StagedInv'
  BY <1>2 DEF CropInv, StagedInv, StagedFits
<1> QED
  BY <1>2, <1>3, <1>4, ParametersKeep

LEMMA FactsAreReadyKeeps ==
    ASSUME CropInv, FactsAreReady
    PROVE  CropInv'
<1> DEFINE size == FramedSize(wanted.framing, wanted.video)
           c == IF crop = NoCrop \/ wanted.job THEN crop ELSE ClampCrop(crop, size)
<1>1. size \in FrameSizes /\ crop \in ValidCrops \cup {NoCrop}
  BY FramedIsSize DEF CropInv, CropTyped
<1>2. c \in ValidCrops \cup {NoCrop}
  <2>1. crop # NoCrop => crop \in WholeCrops
    BY <1>1 DEF ValidCrops
  <2> QED
    BY <1>1, <2>1, ClampedFits
<1>3. /\ cutFacts' = size /\ PresentCrop(c, ViewOf(c, size)) /\ UNCHANGED <<wanted, staged>> /\ Noted("facts", <<0, 0>>, FALSE)
  BY DEF FactsAreReady, TakeFacts
<1> HIDE DEF c, size
<1>4. cutFacts' \in FrameSizes /\ PresentCrop(c, ViewOf(c, cutFacts'))
  BY <1>1, <1>3
<1>5. wanted' = [wanted EXCEPT !.video = wanted'.video] /\ wanted'.video \in CropVideos
  BY <1>3 DEF CropInv, CropTyped
<1> QED
  BY <1>2, <1>3, <1>4, <1>5, PresentingKeeps

LEMMA JobStepsKeep ==
    ASSUME CropInv, StartCropJob \/ EndCropJob
    PROVE  CropInv'
<1>1. PICK job \in BOOLEAN : wanted' = [wanted EXCEPT !.job = job]
  BY DEF StartCropJob, EndCropJob
<1>2. UNCHANGED <<crop, canvas, cutFacts>>
  BY DEF StartCropJob, EndCropJob
<1>3. /\ wanted' \in [framing : FramingSpecs, resize : {wanted'.resize}, job : BOOLEAN, video : CropVideos]
      /\ wanted'.resize.width \in Nat /\ wanted'.resize.height \in Nat
  BY <1>1 DEF CropInv, CropTyped
<1>4. StagedInv'
  <2>1. CASE StageFrames
    BY <2>1, StagingFits DEF CropInv
  <2>2. CASE UNCHANGED staged
    BY <2>2 DEF CropInv, StagedInv, StagedFits
  <2> QED
    BY <2>1, <2>2 DEF StartCropJob, EndCropJob
<1>5. PICK by \in {"job", "idle"} : Noted(by, <<0, 0>>, FALSE)
  BY DEF StartCropJob, EndCropJob
<1> QED
  BY <1>2, <1>3, <1>4, <1>5, ParametersKeep

LEMMA CropEditorStarts ==
    ASSUME CropEditorInit
    PROVE  CropInv
<1>1. PICK video \in CropVideos, f \in FramingSpecs, rotation \in Rotations, kind \in {"source", "result"} :
         /\ wanted = [framing |-> f, resize |-> [width |-> 0, height |-> 0, mismatch |-> "keep"], job |-> FALSE, video |-> video]
         /\ cutFacts = IF kind = "result" THEN FramedSize(f, video) ELSE video
         /\ crop = IF kind = "result" THEN NoCrop ELSE WholeFrame(video)
         /\ canvas = [kind |-> kind, rotation |-> rotation, on |-> kind = "source", lock |-> <<0, 0>>,
                      view |-> IF kind = "source" THEN [size |-> video, crop |-> WholeFrame(video)] ELSE NoView,
                      focused |-> "crop", dragged |-> "none", from |-> NoView]
  BY DEF CropEditorInit
<1>2. FramedSize(f, video) \in FrameSizes /\ video \in FrameSizes
  BY FramedIsSize
<1>3. WholeFrame(video) \in ValidCrops /\ WholeFrame(video) # NoCrop
  BY <1>2, WholeFrameIsValid, NothingIsNoCrop
<1>4. [size |-> video, crop |-> WholeFrame(video)] \in CropViews
  BY <1>2, <1>3 DEF CropViews
<1> DEFINE v == IF kind = "source" THEN [size |-> video, crop |-> WholeFrame(video)] ELSE NoView
           on == kind = "source"
<1>5. v \in CropViews \cup {NoView} /\ on \in BOOLEAN /\ rotation \in {0, 90, 180, 270} /\ "crop" \in CropTargets
  BY <1>4, CropEditorAssumption DEF CropTargets
<1> HIDE DEF v
<1>6. canvas = [kind |-> kind, rotation |-> rotation, on |-> on, lock |-> <<0, 0>>, view |-> v,
                focused |-> "crop", dragged |-> "none", from |-> NoView]
  BY <1>1 DEF v
<1> HIDE DEF on
<1>7. canvas \in Canvases
  BY <1>5, <1>6 DEF Canvases
<1>8. CropTyped
  BY <1>1, <1>2, <1>3, <1>7 DEF CropTyped
<1>9. PressInv
  BY <1>6 DEF PressInv
<1>10. OverlayIsCurrent
  BY <1>1, <1>3 DEF OverlayIsCurrent, ViewOf
<1>11. StagedInv
  <2>1. staged.crop = NoCrop /\ staged.plan = Plan(<<0, 0>>, <<0, 0>>, <<0, 0>>)
    BY DEF CropEditorInit, NotStaged
  <2>2. PlanLies(Plan(<<0, 0>>, <<0, 0>>, <<0, 0>>))
    BY SamePlanLies
  <2> QED
    BY <2>1, <2>2 DEF StagedInv, StagedFits, PlanLies
<1>12. DragHasNoDrift
  BY DEF CropEditorInit, DragHasNoDrift
<1> QED
  BY <1>8, <1>9, <1>10, <1>11, <1>12 DEF CropInv

LEMMA CropEditorKeeps ==
    ASSUME CropInv, [CropEditorNext]_cropVars
    PROVE  CropInv'
<1>1. CASE PressHandle
  BY <1>1, PressHandleKeeps
<1>2. CASE MovePointer
  BY <1>2, MovePointerKeeps
<1>3. CASE ReleaseHandle
  BY <1>3, ReleaseHandleKeeps
<1>4. CASE PressArrow
  BY <1>4, PressArrowKeeps
<1>5. CASE ResetCrop
  BY <1>5, ResetCropKeeps
<1>6. CASE LoadVideo
  BY <1>6, LoadVideoKeeps
<1>7. CASE ToggleOverlay
  BY <1>7, ToggleOverlayKeeps
<1>8. CASE ChooseAspect
  BY <1>8, ChooseAspectKeeps
<1>9. CASE EditField
  BY <1>9, EditFieldKeeps
<1>10. CASE ChooseResize
  BY <1>10, ChooseResizeKeeps
<1>11. CASE EditFraming
  BY <1>11, EditFramingKeeps
<1>12. CASE FactsAreReady
  BY <1>12, FactsAreReadyKeeps
<1>13. CASE StartCropJob \/ EndCropJob
  BY <1>13, JobStepsKeep
<1>14. CASE UNCHANGED cropVars
  BY <1>14 DEF cropVars, CropInv, CropTyped, PressInv, OverlayIsCurrent, StagedInv, StagedFits, DragHasNoDrift
<1> QED
  BY <1>1, <1>2, <1>3, <1>4, <1>5, <1>6, <1>7, <1>8, <1>9, <1>10, <1>11, <1>12, <1>13, <1>14 DEF CropEditorNext

\* Only the canvas makes a crop, and a drag of one frame starts in that frame.
LEMMA CanvasMakesFittingCrops ==
    ASSUME CropInv, [CropEditorNext]_cropVars, lastEdit'.by \in {"drag", "key"}, crop' # crop,
           FitsIn(canvas.view.crop, cutFacts), FitsIn(canvas.from.crop, cutFacts),
           canvas.from \in {NoView} \cup [size : {cutFacts}, crop : {canvas.from.crop}]
    PROVE  FitsIn(crop', cutFacts)
<1>1. CASE MovePointer
  <2>1. canvas.from \in CropViews
    BY <1>1 DEF CropInv, PressInv, MovePointer
  <2>2. canvas.from.size = cutFacts
    BY <2>1, NothingIsNoCrop
  <2> QED
    BY <1>1, <2>2, MovePointerKeeps
<1>2. CASE PressArrow
  BY <1>2, PressArrowKeeps
<1>3. CASE ~MovePointer /\ ~PressArrow
  <2>1. CASE UNCHANGED cropVars
    BY <2>1 DEF cropVars
  <2> DEFINE others == {"press", "release", "reset", "load", "toggle", "aspect", "field", "resize", "framing", "facts", "job", "idle"}
  <2>2. CASE CropEditorNext
    <3>1. PressHandle => lastEdit'.by \in others
      BY DEF PressHandle, Noted
    <3>2. ReleaseHandle => lastEdit'.by \in others
      BY DEF ReleaseHandle, Noted
    <3>3. ResetCrop => lastEdit'.by \in others
      BY DEF ResetCrop, Noted
    <3>4. LoadVideo => lastEdit'.by \in others
      BY DEF LoadVideo, Noted
    <3>5. ToggleOverlay => lastEdit'.by \in others
      BY DEF ToggleOverlay, Noted
    <3>6. ChooseAspect => lastEdit'.by \in others
      <4>1. ChooseAspect => Noted("aspect", <<0, 0>>, FALSE)
        BY Zenon DEF ChooseAspect
      <4> QED
        BY <4>1 DEF Noted
    <3>7. EditField => lastEdit'.by \in others
      BY DEF EditField, Noted
    <3>8. ChooseResize => lastEdit'.by \in others
      BY DEF ChooseResize, Noted
    <3>9. EditFraming => lastEdit'.by \in others
      BY DEF EditFraming, Noted
    <3>10. FactsAreReady => lastEdit'.by \in others
      <4>1. FactsAreReady => Noted("facts", <<0, 0>>, FALSE)
        BY Zenon DEF FactsAreReady
      <4> QED
        BY <4>1 DEF Noted
    <3>11. StartCropJob => lastEdit'.by \in others
      BY DEF StartCropJob, Noted
    <3>12. EndCropJob => lastEdit'.by \in others
      BY DEF EndCropJob, Noted
    <3> QED
      BY <1>3, <2>2, <3>1, <3>2, <3>3, <3>4, <3>5, <3>6, <3>7, <3>8, <3>9, <3>10, <3>11, <3>12 DEF CropEditorNext
  <2> QED
    BY <2>1, <2>2
<1> QED
  BY <1>1, <1>2, <1>3

\* Crop editing is right for every video, framing, aspect ratio, resize, pointer and turn
\* (ui/crop_canvas.py, core/crop.py, jobs/transform_stage.py): what the overlay shows is the
\* stored crop in the present frame and is drawn where it crops; a drag that comes back
\* restores the crop it began with; drags and keys never leave the frame; what the encoder
\* is handed lies in the framed frame, and its scaled frame covers the canvas or lies on it.
THEOREM CropIsShownAndStaged == CropEditorSpec => CropEditorCorrect
<1>1. CropEditorInit => CropInv
  BY CropEditorStarts
<1>2. CropInv /\ [CropEditorNext]_cropVars => CropInv'
  BY CropEditorKeeps
<1>3. CropInv => CropTypeOK /\ OverlayIsCurrent /\ DrawnWhereItCrops /\ DragHasNoDrift /\ StagedFits
  <2> SUFFICES ASSUME CropInv
               PROVE  CropTypeOK /\ OverlayIsCurrent /\ DrawnWhereItCrops /\ DragHasNoDrift /\ StagedFits
    OBVIOUS
  <2>1. canvas \in Canvases /\ (crop = NoCrop \/ IsValid(crop)) /\ CropTyped
    BY DEF CropInv, CropTyped, ValidCrops
  <2>2. CropTypeOK
    BY <2>1 DEF CropInv, PressInv, StagedInv, CropTypeOK, Canvases, CropTargets
  <2>3. DrawnWhereItCrops
    <3>1. canvas.on => canvas.view.crop \in ValidCrops /\ canvas.view.size \in FrameSizes
      BY <2>1, WhatIsShown DEF CropInv, CropViews
    <3>2. canvas.rotation \in {0, 90, 180, 270}
      BY <2>1 DEF Canvases
    <3> QED
      BY <3>1, <3>2, DrawnIsTheCrop DEF DrawnWhereItCrops
  <2> QED
    BY <2>2, <2>3 DEF CropInv, StagedInv
<1>4. CropInv /\ [CropEditorNext]_cropVars
        => [ /\ lastEdit'.by \in {"drag", "key"} /\ crop' # crop
             /\ FitsIn(canvas.view.crop, cutFacts) /\ canvas.from \in {NoView} \cup [size : {cutFacts}, crop : {canvas.from.crop}]
             /\ FitsIn(canvas.from.crop, cutFacts)
             => FitsIn(crop', cutFacts) ]_cropVars
  BY CanvasMakesFittingCrops
<1> QED
  BY <1>1, <1>2, <1>3, <1>4, PTL DEF CropEditorSpec, CropEditorCorrect, CanvasKeepsCropInside
=============================================================================
