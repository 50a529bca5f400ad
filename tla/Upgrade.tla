-------------------------------- MODULE Upgrade --------------------------------
(***************************************************************************)
(* Self-upgrade: a terminal asks GitHub for the latest release, offers it, *)
(* replaces its own binary on a goroutine while the user may go elsewhere, *)
(* and re-executes itself; the new binary may first sync its catalog.      *)
(* Results come back as messages to whatever screen is active by then.     *)
(* Several terminals may run, and each may be killed at any step.          *)
(***************************************************************************)
EXTENDS Naturals, FiniteSets

CONSTANTS Terminals,
          Places,      \* directories that may hold a capiko-ai
          Brewed,      \* those under a Cellar
          GoBins,      \* those go install writes to
          MaxRelease,  \* releases are 1..MaxRelease
          Jobs,        \* slots for the goroutines of one terminal
          MaxMoves     \* bound on launches, new releases and ends of the cooldown

ASSUME ConstantsAssumption ==
  /\ MaxRelease \in Nat \ {0, 1} /\ MaxMoves \in Nat
  /\ Brewed \subseteq Places /\ GoBins \subseteq Places /\ Brewed \cap GoBins = {}

VARIABLES published,  \* the latest release on GitHub, which may be withdrawn
          binary,     \* what is installed in each place
          found,      \* the place that PATH finds first
          cooled,     \* the last check is less than updateCheckCooldown old
          catalog,    \* the release whose catalog is in Copilot's home
          term,       \* the terminals
          job,        \* their goroutines; a child of brew or go outlives them
          lone,       \* history: since the last launch only one of all these ran
          windows,    \* the operating system
          moves

vars == <<published, binary, found, cooled, catalog, term, job, lone, windows, moves>>
------------------------------------------------------------------------------
Releases == 1..MaxRelease
NoRelease == 0

(* What a download yields: the asset, the one of another build of the same *)
(* release, or a part.  The signature covers the checksums of one build.   *)
Assets == {"built", "rebuilt", "cut"}
VerifyCosign(sums, sig, cert) == sums # "cut" /\ sig = sums /\ cert = sums

VerifyChecksum(archive, sums) == archive = sums

IsNewer(current, latest) == latest > current

DetectMethod(place) ==
  IF place \in Brewed THEN "brew" ELSE IF place \in GoBins THEN "go" ELSE "binary"

(* A terminal.                                                             *)
UpgradeScreens == {"confirm", "upToDate", "applying", "syncing", "synced", "failed"}
Terms == [pc : {"off", "launch", "wait", "menu", "prompt", "screen", "quit"}, place : Places,
          release : Releases \cup {NoRelease}, latest : Releases \cup {NoRelease},
          touched : BOOLEAN, screen : UpgradeScreens \cup {"none", "other"}, withSync : BOOLEAN,
          offered : Releases \cup {NoRelease}, flag : BOOLEAN, owed : BOOLEAN,
          detecting : BOOLEAN, checking : BOOLEAN]
Off == [pc |-> "off", place |-> CHOOSE p \in Places : TRUE, release |-> NoRelease,
        latest |-> NoRelease, touched |-> FALSE, screen |-> "none", withSync |-> FALSE,
        offered |-> NoRelease, flag |-> FALSE, owed |-> FALSE, detecting |-> FALSE,
        checking |-> FALSE]

(* A goroutine, or the child it waits for.                                 *)
Steps == {"none", "child", "download", "swap", "done", "failed", "sync", "synced", "unsynced"}
JobTypes == [step : Steps, place : Places, release : Releases \cup {NoRelease}, whole : BOOLEAN]
NoJob == [step |-> "none", place |-> Off.place, release |-> NoRelease, whole |-> TRUE]

Init ==
  /\ published = 2
  /\ \E there \in SUBSET Places :
       binary = [p \in Places |-> [release |-> IF p \in there THEN 1 ELSE NoRelease, whole |-> TRUE]]
  /\ found \in {p \in Places : binary[p].release # NoRelease}
  /\ cooled = FALSE
  /\ catalog = NoRelease
  /\ term = [t \in Terminals |-> Off]
  /\ job = [t \in Terminals |-> [j \in Jobs |-> NoJob]]
  /\ lone = TRUE
  /\ windows \in BOOLEAN
  /\ moves = 0

At(t, pc) == term[t].pc = pc
Shows(t, screens) == At(t, "screen") /\ term[t].screen \in screens
Menu(t) == [term[t] EXCEPT !.pc = "menu", !.screen = "none", !.withSync = FALSE,
                          !.offered = NoRelease]
Become(t, new) == term' = [term EXCEPT ![t] = new]
Working(t, j) == job[t][j].step # "none"
Move == moves < MaxMoves /\ moves' = moves + 1

outside == <<published, found, windows>>
machine == <<binary, cooled, catalog>>

(* The goroutines of a process end with it, except a child of brew or go.  *)
Orphaned(t) ==
  [job EXCEPT ![t] = [j \in Jobs |->
     IF job[t][j].step = "child" THEN job[t][j] ELSE NoJob]]
------------------------------------------------------------------------------
(* The user starts a capiko-ai.                                            *)
Launch(t) ==
  /\ At(t, "off") /\ Move
  /\ \E p \in Places :
       /\ binary[p].release # NoRelease
       /\ Become(t, [Off EXCEPT !.pc = "launch", !.place = p, !.release = binary[p].release])
  /\ lone' = /\ \A u \in Terminals \ {t} : At(u, "off")
             /\ \A u \in Terminals, j \in Jobs : ~Working(u, j)
  /\ UNCHANGED <<outside, machine, job>>

Started(t) == [term[t] EXCEPT !.pc = "wait", !.flag = FALSE, !.owed = FALSE,
                              !.detecting = TRUE, !.checking = TRUE]

(* The flag stays in the environment.                                      *)
MutStart(t) ==
  /\ At(t, "launch")
  /\ Become(t, [Started(t) EXCEPT !.flag = term[t].flag])
  /\ catalog' \in IF term[t].flag THEN {term[t].release, catalog} ELSE {catalog}
  /\ UNCHANGED <<outside, binary, cooled, job, lone, moves>>

(* main: postUpgradeSync, which may fail, then the TUI.                    *)
Start(t) ==
  /\ At(t, "launch")
  /\ Become(t, Started(t))
  /\ catalog' \in IF term[t].flag THEN {term[t].release, catalog} ELSE {catalog}
  /\ UNCHANGED <<outside, binary, cooled, job, lone, moves>>

(* detectCmd answers, late perhaps, and the menu replaces what is shown.   *)
(* A program that has been told to quit quits all the same.                *)
Detected(t) ==
  /\ term[t].detecting /\ ~At(t, "quit")
  /\ Become(t, [Menu(t) EXCEPT !.detecting = FALSE])
  /\ UNCHANGED <<outside, machine, job, lone, moves>>

(* checkLatestCmd: nothing is looked up, or known, within the cooldown.    *)
CheckLatest(t) ==
  /\ term[t].checking
  /\ \E answers \in BOOLEAN :
       LET latest == IF ~cooled /\ answers /\ IsNewer(term[t].release, published)
                     THEN published ELSE NoRelease
           asks == latest # NoRelease /\ At(t, "menu") /\ ~term[t].touched
       IN  /\ cooled' = (cooled \/ answers)
           /\ Become(t, [term[t] EXCEPT !.checking = FALSE, !.latest = latest,
                                        !.pc = IF asks THEN "prompt" ELSE @])
  /\ UNCHANGED <<outside, binary, catalog, job, lone, moves>>

(* The menu, or "Update now" of the prompt, opens an upgrade screen.       *)
OpenUpgrade(t, withSync) ==
  /\ At(t, "menu") \/ (At(t, "prompt") /\ ~withSync)
  /\ Become(t, [term[t] EXCEPT !.pc = "screen", !.touched = TRUE, !.withSync = withSync,
                  !.offered = term[t].latest,
                  !.screen = IF term[t].latest = NoRelease /\ ~withSync THEN "upToDate"
                             ELSE "confirm"])
  /\ UNCHANGED <<outside, machine, job, lone, moves>>

OpenOther(t) ==
  /\ At(t, "menu")
  /\ Become(t, [term[t] EXCEPT !.pc = "screen", !.touched = TRUE, !.screen = "other"])
  /\ UNCHANGED <<outside, machine, job, lone, moves>>

KeepCurrent(t) ==
  /\ At(t, "prompt")
  /\ Become(t, Menu(t))
  /\ UNCHANGED <<outside, machine, job, lone, moves>>

(* q and esc leave a screen also while its goroutine runs.                 *)
Back(t) ==
  /\ At(t, "screen")
  /\ Become(t, [Menu(t) EXCEPT !.detecting = TRUE])
  /\ UNCHANGED <<outside, machine, job, lone, moves>>

Spawn(t, new) ==
  \E j \in Jobs : ~Working(t, j) /\ job' = [job EXCEPT ![t][j] = new]

(* y or enter; a binary is not replaced on Windows.                        *)
Confirm(t) ==
  LET me == term[t]
      method == DetectMethod(me.place)
      step == IF method # "binary" THEN "child" ELSE IF windows THEN "failed" ELSE "download"
  IN  /\ Shows(t, {"confirm"})
      /\ IF me.withSync /\ me.offered = NoRelease
         THEN /\ Become(t, [me EXCEPT !.screen = "syncing"])
              /\ Spawn(t, [NoJob EXCEPT !.step = "sync", !.release = me.release])
         ELSE /\ Become(t, [me EXCEPT !.screen = "applying"])
              /\ Spawn(t, [NoJob EXCEPT !.step = step, !.place = me.place, !.release = me.offered])
      /\ UNCHANGED <<outside, machine, lone, moves>>
------------------------------------------------------------------------------
Step(t, j, step) == job' = [job EXCEPT ![t][j] = [NoJob EXCEPT !.step = step]]

(* The archive, its checksums, their signature and certificate come one by *)
(* one, and the release may be built again between them.                   *)
Download(t, j) ==
  /\ job[t][j].step = "download"
  /\ \/ Step(t, j, "failed")
     \/ \E archive, sums, sig, cert \in Assets :
          /\ VerifyCosign(sums, sig, cert) /\ VerifyChecksum(archive, sums)
          /\ job' = [job EXCEPT ![t][j].step = "swap", ![t][j].whole = archive # "cut"]
  /\ UNCHANGED <<outside, machine, term, lone, moves>>

Install(place, release, whole) ==
  binary' = [binary EXCEPT ![place] = [release |-> release, whole |-> whole]]

(* The binary is written in place, and may be left half-written.           *)
MutReplaceExecutable(t, j) ==
  /\ job[t][j].step = "swap"
  /\ \/ Step(t, j, "failed") /\ Install(job[t][j].place, job[t][j].release, FALSE)
     \/ Step(t, j, "done") /\ Install(job[t][j].place, job[t][j].release, job[t][j].whole)
  /\ UNCHANGED <<outside, cooled, catalog, term, lone, moves>>

(* A temporary file of its own name, filled, made executable, renamed.     *)
ReplaceExecutable(t, j) ==
  /\ job[t][j].step = "swap"
  /\ \/ Step(t, j, "failed") /\ UNCHANGED binary
     \/ Step(t, j, "done") /\ Install(job[t][j].place, job[t][j].release, job[t][j].whole)
  /\ UNCHANGED <<outside, cooled, catalog, term, lone, moves>>

(* brew upgrades to what its tap has, if anything newer; go to the release.*)
Child(t, j) ==
  LET place == job[t][j].place
      end(step) == IF At(t, "off") \/ term[t].pc \in {"launch", "wait"}
                   THEN job' = [job EXCEPT ![t][j] = NoJob] ELSE Step(t, j, step)
  IN  /\ job[t][j].step = "child"
      /\ \/ end("failed") /\ UNCHANGED binary
         \/ /\ end("done")
            /\ IF place \in GoBins THEN Install(place, job[t][j].release, TRUE)
               ELSE \E r \in Releases : /\ r >= binary[place].release
                                        /\ r <= published \/ r = binary[place].release
                                        /\ Install(place, r, TRUE)
      /\ UNCHANGED <<outside, cooled, catalog, term, lone, moves>>

(* RunSync, with the catalog the running process was built with.           *)
RunSync(t, j) ==
  /\ job[t][j].step = "sync"
  /\ \/ Step(t, j, "synced") /\ catalog' = job[t][j].release
     \/ Step(t, j, "unsynced") /\ UNCHANGED catalog
  /\ UNCHANGED <<outside, binary, cooled, term, lone, moves>>

(* The result goes to the active screen.  Any upgrade screen takes it for  *)
(* its own, whatever the user has confirmed there; other screens drop it.  *)
Deliver(t, j) ==
  LET step == job[t][j].step
      me == term[t]
      to(screen) == IF Shows(t, UpgradeScreens) THEN [me EXCEPT !.screen = screen] ELSE me
  IN  /\ step \in {"done", "failed", "synced", "unsynced"}
      /\ ~At(t, "off")
      /\ Become(t, CASE step = "synced" -> to("synced")
                     [] step \in {"failed", "unsynced"} -> to("failed")
                     [] step = "done" -> IF Shows(t, UpgradeScreens) THEN [me EXCEPT !.pc = "quit"]
                                         ELSE me)
      /\ job' = [job EXCEPT ![t][j] = NoJob]
      /\ UNCHANGED <<outside, machine, lone, moves>>

(* The flag is put into the environment, and the process re-executes what  *)
(* PATH finds, or itself if that fails; on Windows it just ends.           *)
Restart(t) ==
  LET me == term[t]
      again(p) == [Off EXCEPT !.pc = "launch", !.place = p, !.release = binary[p].release,
                              !.flag = me.flag \/ me.withSync, !.owed = me.withSync]
  IN  /\ At(t, "quit")
      /\ IF windows THEN Become(t, Off) ELSE \E p \in {found, me.place} : Become(t, again(p))
      /\ job' = Orphaned(t)
      /\ lone' = (lone /\ \A j \in Jobs : job[t][j].step # "child")
      /\ UNCHANGED <<outside, machine, moves>>

(* The user quits, or the process is killed.                               *)
Quit(t) ==
  /\ ~At(t, "off")
  /\ Become(t, Off)
  /\ job' = Orphaned(t)
  /\ UNCHANGED <<outside, machine, lone, moves>>

(* The world.                                                              *)
Publish ==
  /\ Move
  /\ published' \in Releases \ {published}
  /\ UNCHANGED <<machine, found, windows, term, job, lone>>

CooldownEnds ==
  /\ cooled /\ Move
  /\ cooled' = FALSE
  /\ UNCHANGED <<outside, binary, catalog, term, job, lone>>

Terminal(t) ==
  \/ Launch(t) \/ Start(t) \/ Detected(t) \/ CheckLatest(t)
  \/ OpenOther(t) \/ KeepCurrent(t) \/ Back(t) \/ Confirm(t) \/ Restart(t) \/ Quit(t)
  \/ \E withSync \in BOOLEAN : OpenUpgrade(t, withSync)

Goroutine(t, j) ==
  Download(t, j) \/ ReplaceExecutable(t, j) \/ Child(t, j) \/ RunSync(t, j) \/ Deliver(t, j)

Next ==
  \/ Publish \/ CooldownEnds
  \/ \E t \in Terminals : Terminal(t) \/ \E j \in Jobs : Goroutine(t, j)

Spec == Init /\ [][Next]_vars
------------------------------------------------------------------------------
(* Every variable has its type.                                            *)
TypeOK ==
  /\ published \in Releases /\ found \in Places
  /\ binary \in [Places -> [release : Releases \cup {NoRelease}, whole : BOOLEAN]]
  /\ cooled \in BOOLEAN /\ lone \in BOOLEAN /\ windows \in BOOLEAN
  /\ catalog \in Releases \cup {NoRelease}
  /\ term \in [Terminals -> Terms]
  /\ job \in [Terminals -> [Jobs -> JobTypes]]
  /\ moves \in 0..MaxMoves

(* Whatever is downloaded, killed, lost or withdrawn, a binary is only     *)
(* ever replaced by a whole build; and as long as one terminal runs at a   *)
(* time, with no child left over, by one of no older release.              *)
UpgradesAreSound ==
  [][\A p \in Places :
       binary'[p] # binary[p]
         => binary'[p].whole /\ (lone => binary'[p].release >= binary[p].release)]_vars

(* A new process syncs on its own only when the restart that made it came  *)
(* from an "Upgrade + sync" screen, however many upgrades came before.     *)
SyncOncePerUpgrade ==
  \A t \in Terminals : At(t, "launch") /\ term[t].flag => term[t].owed
==============================================================================
