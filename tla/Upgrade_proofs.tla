----------------------------- MODULE Upgrade_proofs -----------------------------
(***************************************************************************)
(* Proofs about the self-upgrade, for any number of terminals, places,     *)
(* releases and goroutines: what replaces a binary is whole, with one      *)
(* terminal at a time it is never older, and a sync after the restart is   *)
(* owed by the upgrade that caused the restart.                            *)
(***************************************************************************)
EXTENDS Upgrade, TLAPS

(* A terminal: its flag is owed, and what it offers is newer than itself.  *)
TermOK(me) ==
  /\ me.flag => me.pc = "launch" /\ me.owed
  /\ me.checking => me.latest = NoRelease
  /\ me.latest # NoRelease => me.latest > me.release
  /\ me.offered \in {NoRelease, me.latest}
  /\ me.screen = "confirm" /\ ~me.withSync => me.offered # NoRelease
  /\ me.pc \in {"off", "launch"} => ~me.detecting /\ ~me.checking /\ me.latest = NoRelease

(* A goroutine: what it is about to install is whole, and not where brew   *)
(* installs unless it is brew.                                             *)
JobOK(it) ==
  /\ it.step = "swap" => it.whole
  /\ it.step \in {"download", "swap"} => it.place \notin Brewed
  /\ it.step = "child" => it.place \in Brewed \cup GoBins

Upgrading(t, j) == job[t][j].step \in {"child", "download", "swap"}

(* While one terminal runs at a time, its goroutines install what it has   *)
(* found to be the latest, and nothing else is installed where it is.      *)
LoneInv ==
  lone =>
    /\ \A t, u \in Terminals : ~At(t, "off") /\ ~At(u, "off") => t = u
    /\ \A t, u \in Terminals, j, k \in Jobs :
         Upgrading(t, j) /\ Upgrading(u, k)
           => job[t][j].place = job[u][k].place /\ job[t][j].release = job[u][k].release
    /\ \A t \in Terminals, j \in Jobs :
         Upgrading(t, j) /\ job[t][j].place \notin Brewed
           => binary[job[t][j].place].release <= job[t][j].release
    /\ \A t, u \in Terminals, j \in Jobs :
         ~At(t, "off") /\ Upgrading(u, j)
           => /\ u = t /\ job[u][j].place = term[t].place
              /\ job[u][j].release = term[t].latest /\ term[t].latest # NoRelease
    /\ \A t \in Terminals :
         ~At(t, "off") /\ term[t].place \notin Brewed
           => \/ binary[term[t].place].release = term[t].release
              \/ /\ term[t].latest # NoRelease
                 /\ binary[term[t].place].release = term[t].latest

IInv ==
  /\ TypeOK /\ LoneInv
  /\ \A t \in Terminals : TermOK(term[t])
  /\ \A t \in Terminals, j \in Jobs : JobOK(job[t][j])

Binaries == [release : Releases \cup {NoRelease}, whole : BOOLEAN]
------------------------------------------------------------------------------
LEMMA ReleaseFacts ==
  /\ Releases \subseteq Nat \ {0} /\ NoRelease = 0 /\ NoRelease \notin Releases
  /\ 1 \in Releases /\ 2 \in Releases
  /\ \A r \in Releases \cup {NoRelease} : r \in Nat
BY ConstantsAssumption DEF Releases, NoRelease

LEMMA OffTyped ==
  ASSUME NEW p \in Places
  PROVE  /\ Off \in Terms /\ TermOK(Off) /\ Off.pc = "off" /\ Off.latest = NoRelease
         /\ NoJob \in JobTypes /\ JobOK(NoJob) /\ NoJob.step = "none"
<1>1. Off.place \in Places
  BY DEF Off
<1>2. Off \in Terms
  BY <1>1, ReleaseFacts DEF Off, Terms, UpgradeScreens
<1>3. NoJob \in JobTypes
  BY <1>1, ReleaseFacts DEF NoJob, JobTypes, Steps
<1> QED BY <1>2, <1>3, ReleaseFacts DEF Off, NoJob, TermOK, JobOK

LEMMA InitIInv == Init => IInv
<1> SUFFICES ASSUME Init PROVE IInv
  OBVIOUS
<1>1. found \in Places
  BY DEF Init
<1>2. PICK there \in SUBSET Places :
        binary = [p \in Places |-> [release |-> IF p \in there THEN 1 ELSE NoRelease, whole |-> TRUE]]
  BY DEF Init
<1>3. binary \in [Places -> Binaries]
  BY <1>2, ReleaseFacts DEF Binaries
<1>4. /\ \A t \in Terminals : term[t] = Off
      /\ \A t \in Terminals, j \in Jobs : job[t][j] = NoJob
      /\ term \in [Terminals -> Terms] /\ job \in [Terminals -> [Jobs -> JobTypes]]
  BY <1>1, OffTyped DEF Init
<1>5. TypeOK
  <2>1. published \in Releases /\ catalog \in Releases \cup {NoRelease} /\ moves \in 0..MaxMoves
    BY ReleaseFacts, ConstantsAssumption DEF Init
  <2>2. cooled \in BOOLEAN /\ lone \in BOOLEAN /\ windows \in BOOLEAN
    BY DEF Init
  <2> QED BY <1>1, <1>3, <1>4, <2>1, <2>2 DEF TypeOK, Binaries
<1>6. LoneInv
  BY <1>1, <1>4, OffTyped DEF LoneInv, At, Upgrading
<1> QED BY <1>1, <1>4, <1>5, <1>6, OffTyped DEF IInv

(* A terminal changes.                                                     *)
LEMMA BecomeFacts ==
  ASSUME IInv, NEW t \in Terminals, NEW new \in Terms, Become(t, new), TermOK(new)
  PROVE  /\ term' \in [Terminals -> Terms] /\ term'[t] = new
         /\ \A u \in Terminals \ {t} : term'[u] = term[u]
         /\ \A u \in Terminals : TermOK(term'[u])
BY DEF IInv, TypeOK, Become

(* A goroutine changes.                                                    *)
LEMMA JobFacts ==
  ASSUME IInv, NEW t \in Terminals, NEW j \in Jobs, NEW new \in JobTypes, JobOK(new),
         job' = [job EXCEPT ![t][j] = new]
  PROVE  /\ job' \in [Terminals -> [Jobs -> JobTypes]] /\ job'[t][j] = new
         /\ \A u \in Terminals, k \in Jobs : u # t \/ k # j => job'[u][k] = job[u][k]
         /\ \A u \in Terminals, k \in Jobs : JobOK(job'[u][k])
<1>1. job' \in [Terminals -> [Jobs -> JobTypes]] /\ job'[t][j] = new
      /\ \A u \in Terminals, k \in Jobs : u # t \/ k # j => job'[u][k] = job[u][k]
  BY DEF IInv, TypeOK
<1> QED BY <1>1 DEF IInv

(* A terminal ends, and most of its goroutines.                            *)
LEMMA OrphanedFacts ==
  ASSUME IInv, NEW t \in Terminals, job' = Orphaned(t)
  PROVE  /\ job' \in [Terminals -> [Jobs -> JobTypes]]
         /\ \A u \in Terminals, k \in Jobs : JobOK(job'[u][k])
         /\ \A u \in Terminals, k \in Jobs : Upgrading(u, k)' => job'[u][k] = job[u][k]
         /\ \A k \in Jobs : Upgrading(t, k)' => job[t][k].step = "child"
<1> DEFINE left == [j \in Jobs |-> IF job[t][j].step = "child" THEN job[t][j] ELSE NoJob]
<1>1. job' = [job EXCEPT ![t] = left] /\ TypeOK
  BY DEF Orphaned, IInv
<1>2. NoJob \in JobTypes /\ JobOK(NoJob) /\ NoJob.step = "none"
  BY <1>1, OffTyped DEF TypeOK
<1>3. left \in [Jobs -> JobTypes]
  BY <1>1, <1>2 DEF TypeOK
<1>4. /\ job' \in [Terminals -> [Jobs -> JobTypes]] /\ job'[t] = left
      /\ \A u \in Terminals \ {t} : job'[u] = job[u]
  BY <1>1, <1>3 DEF TypeOK
<1>5. \A k \in Jobs : (left[k] = job[t][k] /\ job[t][k].step = "child") \/ left[k] = NoJob
  OBVIOUS
<1> HIDE DEF left
<1> QED BY <1>2, <1>4, <1>5 DEF IInv, Upgrading

(* Steps that install nothing and begin no upgrade.                        *)
LEMMA Calm ==
  ASSUME IInv, TypeOK', UNCHANGED <<binary, lone>>,
         \A t \in Terminals : TermOK(term'[t]),
         \A t \in Terminals, j \in Jobs : JobOK(job'[t][j]),
         \A t \in Terminals :
           ~At(t, "off")' => /\ ~At(t, "off") /\ term'[t].place = term[t].place
                             /\ term'[t].release = term[t].release
                             /\ term[t].latest = NoRelease \/ term'[t].latest = term[t].latest,
         \A t \in Terminals, j \in Jobs :
           Upgrading(t, j)' => /\ Upgrading(t, j) /\ job'[t][j].place = job[t][j].place
                               /\ job'[t][j].release = job[t][j].release
  PROVE  IInv'
<1>1. LoneInv /\ TypeOK
  BY DEF IInv
<1>2. LoneInv'
  <2> SUFFICES ASSUME lone' PROVE LoneInv'
    BY DEF LoneInv
  <2>1. lone
    OBVIOUS
  <2>2. \A t, u \in Terminals : ~At(t, "off")' /\ ~At(u, "off")' => t = u
    BY <1>1, <2>1 DEF LoneInv
  <2>3. \A t, u \in Terminals, j, k \in Jobs :
          Upgrading(t, j)' /\ Upgrading(u, k)'
            => job'[t][j].place = job'[u][k].place /\ job'[t][j].release = job'[u][k].release
    BY <1>1, <2>1 DEF LoneInv
  <2>4. \A t \in Terminals, j \in Jobs :
          Upgrading(t, j)' /\ job'[t][j].place \notin Brewed
            => binary'[job'[t][j].place].release <= job'[t][j].release
    BY <1>1, <2>1 DEF LoneInv
  <2>5. \A t, u \in Terminals, j \in Jobs :
          ~At(t, "off")' /\ Upgrading(u, j)'
            => /\ u = t /\ job'[u][j].place = term'[t].place
               /\ job'[u][j].release = term'[t].latest /\ term'[t].latest # NoRelease
    BY <1>1, <2>1 DEF LoneInv
  <2>6. \A t \in Terminals :
          ~At(t, "off")' /\ term'[t].place \notin Brewed
            => \/ binary'[term'[t].place].release = term'[t].release
               \/ /\ term'[t].latest # NoRelease
                  /\ binary'[term'[t].place].release = term'[t].latest
    BY <1>1, <2>1 DEF LoneInv
  <2> QED BY <2>2, <2>3, <2>4, <2>5, <2>6 DEF LoneInv
<1> QED BY <1>2 DEF IInv

(* A step of one terminal alone.                                           *)
LEMMA TermIInv ==
  ASSUME IInv, NEW t \in Terminals, NEW new \in Terms, Become(t, new), TermOK(new),
         ~At(t, "off"), new.place = term[t].place, new.release = term[t].release,
         term[t].latest = NoRelease \/ new.latest = term[t].latest,
         cooled' \in BOOLEAN, catalog' \in Releases \cup {NoRelease},
         UNCHANGED <<outside, binary, job, lone, moves>>
  PROVE  IInv'
<1>1. /\ term' \in [Terminals -> Terms] /\ term'[t] = new
      /\ \A u \in Terminals \ {t} : term'[u] = term[u]
      /\ \A u \in Terminals : TermOK(term'[u])
  BY BecomeFacts
<1>2. TypeOK'
  BY <1>1 DEF IInv, TypeOK, outside
<1>3. \A u \in Terminals, k \in Jobs : JobOK(job'[u][k])
  BY DEF IInv
<1>4. \A u \in Terminals :
        ~At(u, "off")' => /\ ~At(u, "off") /\ term'[u].place = term[u].place
                          /\ term'[u].release = term[u].release
                          /\ term[u].latest = NoRelease \/ term'[u].latest = term[u].latest
  BY <1>1 DEF At
<1>5. \A u \in Terminals, k \in Jobs :
        Upgrading(u, k)' => /\ Upgrading(u, k) /\ job'[u][k].place = job[u][k].place
                            /\ job'[u][k].release = job[u][k].release
  BY DEF Upgrading
<1> QED BY <1>1, <1>2, <1>3, <1>4, <1>5, Calm

LEMMA TermFacts ==
  ASSUME IInv, NEW t \in Terminals
  PROVE  term[t] \in Terms /\ TermOK(term[t])
BY DEF IInv, TypeOK

LEMMA MenuFacts ==
  ASSUME IInv, NEW t \in Terminals, ~At(t, "launch")
  PROVE  /\ Menu(t) \in Terms /\ TermOK(Menu(t)) /\ ~Menu(t).flag
         /\ Menu(t).place = term[t].place /\ Menu(t).release = term[t].release
         /\ Menu(t).latest = term[t].latest /\ Menu(t).pc = "menu"
<1> DEFINE me == term[t]
           new == [me EXCEPT !.pc = "menu", !.screen = "none", !.withSync = FALSE,
                             !.offered = NoRelease]
<1>1. me \in Terms /\ TermOK(me) /\ me.pc # "launch"
  BY TermFacts DEF At
<1>2. Menu(t) = new
  BY DEF Menu
<1>3. /\ new \in Terms /\ new.pc = "menu" /\ new.screen = "none" /\ new.offered = NoRelease
      /\ new.place = me.place /\ new.release = me.release /\ new.latest = me.latest
      /\ new.flag = me.flag /\ new.owed = me.owed
      /\ new.detecting = me.detecting /\ new.checking = me.checking
  BY <1>1, ReleaseFacts DEF Terms
<1> HIDE DEF new
<1>4. TermOK(new) /\ ~new.flag
  BY <1>1, <1>3 DEF TermOK
<1> QED BY <1>2, <1>3, <1>4

LEMMA StartIInv ==
  ASSUME IInv, NEW t \in Terminals, Start(t)
  PROVE  IInv'
<1> DEFINE me == term[t]
           new == Started(t)
<1>1. me \in Terms /\ TermOK(me) /\ me.pc = "launch"
  BY TermFacts DEF Start, At
<1>2. /\ new \in Terms /\ new.pc = "wait" /\ new.screen = me.screen /\ new.offered = me.offered
      /\ new.place = me.place /\ new.release = me.release /\ new.latest = me.latest
      /\ new.flag = FALSE /\ new.withSync = me.withSync
  BY <1>1 DEF Terms, Started
<1>3. new.detecting = TRUE /\ new.checking = TRUE
  BY <1>1 DEF Terms, Started
<1> HIDE DEF new
<1>4. TermOK(new)
  BY <1>1, <1>2, <1>3 DEF TermOK
<1>5. /\ Become(t, new) /\ UNCHANGED <<outside, binary, cooled, job, lone, moves>>
      /\ catalog' \in Releases \cup {NoRelease} /\ cooled' \in BOOLEAN
  BY <1>1 DEF Start, new, IInv, TypeOK, Terms
<1> QED BY <1>1, <1>2, <1>4, <1>5, TermIInv DEF At

LEMMA DetectedIInv ==
  ASSUME IInv, NEW t \in Terminals, Detected(t)
  PROVE  IInv'
<1> DEFINE menu == Menu(t)
           new == [menu EXCEPT !.detecting = FALSE]
<1>1. /\ term[t].detecting /\ Become(t, new) /\ UNCHANGED <<outside, machine, job, lone, moves>>
  BY DEF Detected
<1>2. ~At(t, "off") /\ ~At(t, "launch")
  BY <1>1, TermFacts DEF TermOK, At
<1>3. /\ menu \in Terms /\ TermOK(menu) /\ ~menu.flag
      /\ menu.place = term[t].place /\ menu.release = term[t].release
      /\ menu.latest = term[t].latest /\ menu.pc = "menu"
  BY <1>2, MenuFacts
<1> HIDE DEF menu
<1>4. /\ new \in Terms /\ new.place = menu.place /\ new.release = menu.release
      /\ new.latest = menu.latest /\ new.pc = menu.pc
      /\ new.flag = menu.flag /\ new.owed = menu.owed /\ new.offered = menu.offered
      /\ new.screen = menu.screen /\ new.withSync = menu.withSync /\ new.checking = menu.checking
  BY <1>3 DEF Terms
<1> HIDE DEF new
<1>5. TermOK(new)
  BY <1>3, <1>4 DEF TermOK
<1>6. cooled' \in BOOLEAN /\ catalog' \in Releases \cup {NoRelease}
  BY <1>1 DEF IInv, TypeOK, machine
<1> QED BY <1>1, <1>2, <1>3, <1>4, <1>5, <1>6, TermIInv DEF machine

LEMMA CheckLatestIInv ==
  ASSUME IInv, NEW t \in Terminals, CheckLatest(t)
  PROVE  IInv'
<1> DEFINE me == term[t]
<1>1. /\ me.checking /\ me \in Terms /\ TermOK(me)
      /\ UNCHANGED <<outside, binary, catalog, job, lone, moves>>
  BY TermFacts DEF CheckLatest
<1>2. PICK answers \in BOOLEAN :
        LET latest == IF ~cooled /\ answers /\ IsNewer(me.release, published)
                      THEN published ELSE NoRelease
            asks == latest # NoRelease /\ At(t, "menu") /\ ~me.touched
        IN  /\ cooled' = (cooled \/ answers)
            /\ Become(t, [me EXCEPT !.checking = FALSE, !.latest = latest,
                                    !.pc = IF asks THEN "prompt" ELSE @])
  BY DEF CheckLatest
<1> DEFINE latest == IF ~cooled /\ answers /\ IsNewer(me.release, published)
                     THEN published ELSE NoRelease
           pc == IF latest # NoRelease /\ At(t, "menu") /\ ~me.touched THEN "prompt" ELSE me.pc
           new == [me EXCEPT !.checking = FALSE, !.latest = latest, !.pc = pc]
<1>3. latest \in Releases \cup {NoRelease} /\ (latest # NoRelease => latest > me.release)
  BY DEF IInv, TypeOK, IsNewer
<1>4. pc = me.pc \/ pc = "prompt"
  OBVIOUS
<1>5. Become(t, new) /\ cooled' = (cooled \/ answers)
  BY <1>2
<1>6. me.latest = NoRelease /\ me.offered = NoRelease /\ me.pc \notin {"off", "launch"} /\ ~me.flag
  BY <1>1 DEF TermOK
<1> HIDE DEF latest, pc
<1>7. /\ new \in Terms /\ new.place = me.place /\ new.release = me.release
      /\ new.latest = latest /\ new.pc = pc /\ new.checking = FALSE
      /\ new.flag = me.flag /\ new.owed = me.owed /\ new.offered = me.offered
      /\ new.screen = me.screen /\ new.withSync = me.withSync
  BY <1>1, <1>3, <1>4 DEF Terms
<1> HIDE DEF new
<1>8. TermOK(new)
  BY <1>1, <1>3, <1>4, <1>6, <1>7 DEF TermOK
<1>9. cooled' \in BOOLEAN /\ catalog' \in Releases \cup {NoRelease}
  BY <1>1, <1>5 DEF IInv, TypeOK
<1> QED BY <1>1, <1>5, <1>6, <1>7, <1>8, <1>9, TermIInv DEF At

LEMMA OpenUpgradeIInv ==
  ASSUME IInv, NEW t \in Terminals, NEW withSync \in BOOLEAN, OpenUpgrade(t, withSync)
  PROVE  IInv'
<1> DEFINE me == term[t]
           shown == IF me.latest = NoRelease /\ ~withSync THEN "upToDate" ELSE "confirm"
           new == [me EXCEPT !.pc = "screen", !.touched = TRUE, !.withSync = withSync,
                             !.offered = me.latest, !.screen = shown]
<1>1. /\ me \in Terms /\ TermOK(me) /\ me.pc \in {"menu", "prompt"}
      /\ Become(t, new) /\ UNCHANGED <<outside, machine, job, lone, moves>>
  BY TermFacts DEF OpenUpgrade, At
<1>2. shown \in UpgradeScreens /\ (shown = "confirm" /\ ~withSync => me.latest # NoRelease)
  BY DEF UpgradeScreens
<1> HIDE DEF shown
<1>3. /\ new \in Terms /\ new.place = me.place /\ new.release = me.release
      /\ new.latest = me.latest /\ new.pc = "screen" /\ new.checking = me.checking
      /\ new.flag = me.flag /\ new.owed = me.owed /\ new.offered = me.latest
      /\ new.screen = shown /\ new.withSync = withSync
  BY <1>1, <1>2 DEF Terms
<1> HIDE DEF new
<1>4. TermOK(new)
  BY <1>1, <1>2, <1>3 DEF TermOK
<1>5. cooled' \in BOOLEAN /\ catalog' \in Releases \cup {NoRelease}
  BY <1>1 DEF IInv, TypeOK, machine
<1> QED BY <1>1, <1>3, <1>4, <1>5, TermIInv DEF At, machine

LEMMA OpenOtherIInv ==
  ASSUME IInv, NEW t \in Terminals, OpenOther(t)
  PROVE  IInv'
<1> DEFINE me == term[t]
           new == [me EXCEPT !.pc = "screen", !.touched = TRUE, !.screen = "other"]
<1>1. /\ me \in Terms /\ TermOK(me) /\ me.pc = "menu"
      /\ Become(t, new) /\ UNCHANGED <<outside, machine, job, lone, moves>>
  BY TermFacts DEF OpenOther, At
<1>2. /\ new \in Terms /\ new.place = me.place /\ new.release = me.release
      /\ new.latest = me.latest /\ new.pc = "screen" /\ new.checking = me.checking
      /\ new.flag = me.flag /\ new.owed = me.owed /\ new.offered = me.offered
      /\ new.screen = "other"
  BY <1>1 DEF Terms
<1> HIDE DEF new
<1>3. TermOK(new)
  BY <1>1, <1>2 DEF TermOK
<1>4. cooled' \in BOOLEAN /\ catalog' \in Releases \cup {NoRelease}
  BY <1>1 DEF IInv, TypeOK, machine
<1> QED BY <1>1, <1>2, <1>3, <1>4, TermIInv DEF At, machine

LEMMA KeepCurrentIInv ==
  ASSUME IInv, NEW t \in Terminals, KeepCurrent(t)
  PROVE  IInv'
<1>1. /\ ~At(t, "launch") /\ ~At(t, "off") /\ Become(t, Menu(t))
      /\ UNCHANGED <<outside, machine, job, lone, moves>>
  BY DEF KeepCurrent, At
<1>2. cooled' \in BOOLEAN /\ catalog' \in Releases \cup {NoRelease}
  BY <1>1 DEF IInv, TypeOK, machine
<1> QED BY <1>1, <1>2, MenuFacts, TermIInv DEF machine

LEMMA BackIInv ==
  ASSUME IInv, NEW t \in Terminals, Back(t)
  PROVE  IInv'
<1> DEFINE menu == Menu(t)
           new == [menu EXCEPT !.detecting = TRUE]
<1>1. /\ ~At(t, "off") /\ ~At(t, "launch") /\ Become(t, new)
      /\ UNCHANGED <<outside, machine, job, lone, moves>>
  BY DEF Back, At
<1>2. /\ menu \in Terms /\ TermOK(menu) /\ ~menu.flag
      /\ menu.place = term[t].place /\ menu.release = term[t].release
      /\ menu.latest = term[t].latest /\ menu.pc = "menu"
  BY <1>1, MenuFacts
<1> HIDE DEF menu
<1>3. /\ new \in Terms /\ new.place = menu.place /\ new.release = menu.release
      /\ new.latest = menu.latest /\ new.pc = menu.pc
      /\ new.flag = menu.flag /\ new.owed = menu.owed /\ new.offered = menu.offered
      /\ new.screen = menu.screen /\ new.withSync = menu.withSync /\ new.checking = menu.checking
  BY <1>2 DEF Terms
<1> HIDE DEF new
<1>4. TermOK(new)
  BY <1>2, <1>3 DEF TermOK
<1>5. cooled' \in BOOLEAN /\ catalog' \in Releases \cup {NoRelease}
  BY <1>1 DEF IInv, TypeOK, machine
<1> QED BY <1>1, <1>2, <1>3, <1>4, <1>5, TermIInv DEF machine

(* A new process, when nothing else runs if lone is to hold.               *)
LEMMA FreshLone ==
  ASSUME IInv, TypeOK', NEW t \in Terminals, UNCHANGED binary,
         At(t, "off")' \/ binary[term'[t].place].release = term'[t].release,
         lone' => /\ \A u \in Terminals \ {t} : At(u, "off")'
                  /\ \A u \in Terminals, j \in Jobs : ~Upgrading(u, j)'
  PROVE  LoneInv'
<1> SUFFICES ASSUME lone' PROVE LoneInv'
  BY DEF LoneInv
<1>1. \A u \in Terminals, j \in Jobs : ~Upgrading(u, j)'
  OBVIOUS
<1>2. \A u, v \in Terminals : ~At(u, "off")' /\ ~At(v, "off")' => u = v
  OBVIOUS
<1>3. \A u \in Terminals :
        ~At(u, "off")' /\ term'[u].place \notin Brewed
          => binary'[term'[u].place].release = term'[u].release
  OBVIOUS
<1> QED BY <1>1, <1>2, <1>3 DEF LoneInv

LEMMA LaunchIInv ==
  ASSUME IInv, NEW t \in Terminals, Launch(t)
  PROVE  IInv'
<1>1. /\ At(t, "off") /\ UNCHANGED <<outside, machine, job>> /\ moves' \in 0..MaxMoves
      /\ lone' = /\ \A u \in Terminals \ {t} : At(u, "off")
                 /\ \A u \in Terminals, j \in Jobs : ~Working(u, j)
  BY ConstantsAssumption DEF Launch, Move, IInv, TypeOK
<1>2. PICK p \in Places :
        Become(t, [Off EXCEPT !.pc = "launch", !.place = p, !.release = binary[p].release])
  BY DEF Launch
<1> DEFINE off == Off
           new == [off EXCEPT !.pc = "launch", !.place = p, !.release = binary[p].release]
<1>3. /\ off \in Terms /\ TermOK(off) /\ off.pc = "off" /\ off.latest = NoRelease
  BY OffTyped
<1>4. binary[p].release \in Releases \cup {NoRelease}
  BY DEF IInv, TypeOK
<1>5. Become(t, new)
  BY <1>2
<1> HIDE DEF off
<1>6. /\ new \in Terms /\ new.pc = "launch" /\ new.place = p /\ new.release = binary[p].release
      /\ new.latest = NoRelease /\ new.flag = off.flag /\ new.owed = off.owed
      /\ new.detecting = off.detecting /\ new.checking = off.checking
      /\ new.offered = off.offered /\ new.screen = off.screen /\ new.withSync = off.withSync
  BY <1>3, <1>4 DEF Terms
<1> HIDE DEF new
<1>7. TermOK(new)
  BY <1>3, <1>6 DEF TermOK
<1>8. /\ term' \in [Terminals -> Terms] /\ term'[t] = new
      /\ \A u \in Terminals \ {t} : term'[u] = term[u]
      /\ \A u \in Terminals : TermOK(term'[u])
  BY <1>5, <1>6, <1>7, BecomeFacts
<1>9. TypeOK'
  BY <1>1, <1>8 DEF IInv, TypeOK, outside, machine
<1>10. \A u \in Terminals, k \in Jobs : JobOK(job'[u][k])
  BY <1>1 DEF IInv
<1>11. LoneInv'
  <2>1. binary[term'[t].place].release = term'[t].release /\ UNCHANGED binary
    BY <1>1, <1>6, <1>8 DEF machine
  <2>2. lone' => /\ \A u \in Terminals \ {t} : At(u, "off")'
                 /\ \A u \in Terminals, j \in Jobs : ~Upgrading(u, j)'
    BY <1>1, <1>8 DEF At, Working, Upgrading
  <2> QED BY <1>9, <2>1, <2>2, FreshLone
<1> QED BY <1>8, <1>9, <1>10, <1>11 DEF IInv

LEMMA RestartIInv ==
  ASSUME IInv, NEW t \in Terminals, Restart(t)
  PROVE  IInv'
<1> DEFINE me == term[t]
           off == Off
           again(p) == [off EXCEPT !.pc = "launch", !.place = p, !.release = binary[p].release,
                                   !.flag = me.flag \/ me.withSync, !.owed = me.withSync]
<1>1. /\ me.pc = "quit" /\ me \in Terms /\ TermOK(me) /\ UNCHANGED <<outside, machine, moves>>
      /\ lone' = (lone /\ \A j \in Jobs : job[t][j].step # "child") /\ job' = Orphaned(t)
  BY TermFacts DEF Restart, At
<1>2. Become(t, off) \/ \E p \in {found, me.place} : Become(t, again(p))
  BY DEF Restart
<1>3. off \in Terms /\ TermOK(off) /\ off.pc = "off" /\ off.latest = NoRelease
  BY <1>1, OffTyped DEF Terms
<1> HIDE DEF off
<1>4. /\ job' \in [Terminals -> [Jobs -> JobTypes]]
      /\ \A u \in Terminals, k \in Jobs : JobOK(job'[u][k])
      /\ \A u \in Terminals, k \in Jobs : Upgrading(u, k)' => job'[u][k] = job[u][k]
      /\ \A k \in Jobs : Upgrading(t, k)' => job[t][k].step = "child"
  BY <1>1, OrphanedFacts
<1>5. PICK new \in Terms :
        /\ Become(t, new) /\ TermOK(new)
        /\ new.pc = "off" \/ binary[new.place].release = new.release
  <2>1. CASE Become(t, off)
    BY <2>1, <1>3
  <2>2. CASE \E p \in {found, me.place} : Become(t, again(p))
    <3>1. PICK p \in {found, me.place} : Become(t, again(p))
      BY <2>2
    <3>2. p \in Places /\ binary[p].release \in Releases \cup {NoRelease}
      BY <1>1 DEF Terms, IInv, TypeOK
    <3> DEFINE flag == me.flag \/ me.withSync
               new == [off EXCEPT !.pc = "launch", !.place = p, !.release = binary[p].release,
                                  !.flag = flag, !.owed = me.withSync]
    <3>0. flag \in BOOLEAN /\ (flag => me.withSync) /\ me.withSync \in BOOLEAN
      BY <1>1 DEF TermOK, Terms
    <3> HIDE DEF flag
    <3>3. /\ new \in Terms /\ new.pc = "launch" /\ new.place = p
          /\ new.release = binary[p].release /\ new.latest = NoRelease
          /\ new.flag = flag /\ new.owed = me.withSync
          /\ new.detecting = off.detecting /\ new.checking = off.checking
          /\ new.offered = off.offered /\ new.screen = off.screen /\ new.withSync = off.withSync
      BY <1>3, <3>2, <3>0 DEF Terms
    <3>4. Become(t, new)
      BY <3>1 DEF flag
    <3> HIDE DEF new
    <3>5. TermOK(new)
      BY <1>3, <3>0, <3>3 DEF TermOK
    <3> QED BY <3>3, <3>4, <3>5
  <2> QED BY <1>2, <2>1, <2>2
<1>6. /\ term' \in [Terminals -> Terms] /\ term'[t] = new
      /\ \A u \in Terminals \ {t} : term'[u] = term[u]
      /\ \A u \in Terminals : TermOK(term'[u])
  BY <1>5, BecomeFacts
<1>7. TypeOK'
  BY <1>1, <1>4, <1>6 DEF IInv, TypeOK, outside, machine
<1>8. lone' => /\ \A u \in Terminals \ {t} : At(u, "off")'
               /\ \A u \in Terminals, j \in Jobs : ~Upgrading(u, j)'
  <2> SUFFICES ASSUME lone' PROVE /\ \A u \in Terminals \ {t} : At(u, "off")'
                                  /\ \A u \in Terminals, j \in Jobs : ~Upgrading(u, j)'
    OBVIOUS
  <2>1. ~At(t, "off") /\ LoneInv /\ lone
    BY <1>1 DEF At, IInv
  <2>2. \A u \in Terminals \ {t} : At(u, "off")
    BY <2>1 DEF LoneInv
  <2>3. \A u \in Terminals, j \in Jobs : Upgrading(u, j) => u = t
    BY <2>1 DEF LoneInv
  <2>4. \A u \in Terminals, j \in Jobs : Upgrading(u, j)' => Upgrading(u, j)
    BY <1>4 DEF Upgrading
  <2>5. \A j \in Jobs : ~Upgrading(t, j)'
    BY <1>1, <1>4
  <2> QED BY <1>6, <2>2, <2>3, <2>4, <2>5 DEF At
<1>9. LoneInv'
  BY <1>1, <1>5, <1>6, <1>7, <1>8, FreshLone DEF At, machine
<1> QED BY <1>4, <1>6, <1>7, <1>9 DEF IInv

LEMMA QuitIInv ==
  ASSUME IInv, NEW t \in Terminals, Quit(t)
  PROVE  IInv'
<1>1. /\ Become(t, Off) /\ job' = Orphaned(t) /\ UNCHANGED <<outside, machine, lone, moves>>
  BY DEF Quit
<1>2. Off \in Terms /\ TermOK(Off) /\ Off.pc = "off"
  BY TermFacts, OffTyped DEF Terms
<1>3. /\ term' \in [Terminals -> Terms] /\ term'[t] = Off
      /\ \A u \in Terminals \ {t} : term'[u] = term[u]
      /\ \A u \in Terminals : TermOK(term'[u])
  BY <1>1, <1>2, BecomeFacts
<1>4. /\ job' \in [Terminals -> [Jobs -> JobTypes]]
      /\ \A u \in Terminals, k \in Jobs : JobOK(job'[u][k])
      /\ \A u \in Terminals, k \in Jobs : Upgrading(u, k)' => job'[u][k] = job[u][k]
  BY <1>1, OrphanedFacts
<1>5. TypeOK'
  BY <1>1, <1>3, <1>4 DEF IInv, TypeOK, outside, machine
<1>6. \A u \in Terminals :
        ~At(u, "off")' => /\ ~At(u, "off") /\ term'[u].place = term[u].place
                          /\ term'[u].release = term[u].release
                          /\ term[u].latest = NoRelease \/ term'[u].latest = term[u].latest
  BY <1>2, <1>3 DEF At
<1>7. \A u \in Terminals, k \in Jobs :
        Upgrading(u, k)' => /\ Upgrading(u, k) /\ job'[u][k].place = job[u][k].place
                            /\ job'[u][k].release = job[u][k].release
  BY <1>4 DEF Upgrading
<1> QED BY <1>1, <1>3, <1>4, <1>5, <1>6, <1>7, Calm DEF machine
------------------------------------------------------------------------------
(* A goroutine that is at an upgrade no more, or at the same one.          *)
LEMMA JobIInv ==
  ASSUME IInv, NEW t \in Terminals, NEW j \in Jobs, NEW new \in JobTypes, JobOK(new),
         job' = [job EXCEPT ![t][j] = new],
         new.step \in {"child", "download", "swap"}
           => /\ Upgrading(t, j) /\ new.place = job[t][j].place /\ new.release = job[t][j].release,
         NEW to \in Terms, Become(t, to), TermOK(to),
         to.pc # "off" => /\ ~At(t, "off") /\ to.place = term[t].place
                          /\ to.release = term[t].release /\ to.latest = term[t].latest,
         cooled' \in BOOLEAN, catalog' \in Releases \cup {NoRelease},
         UNCHANGED <<outside, binary, lone, moves>>
  PROVE  IInv'
<1>1. /\ job' \in [Terminals -> [Jobs -> JobTypes]] /\ job'[t][j] = new
      /\ \A u \in Terminals, k \in Jobs : u # t \/ k # j => job'[u][k] = job[u][k]
      /\ \A u \in Terminals, k \in Jobs : JobOK(job'[u][k])
  BY JobFacts
<1>2. /\ term' \in [Terminals -> Terms] /\ term'[t] = to
      /\ \A u \in Terminals \ {t} : term'[u] = term[u]
      /\ \A u \in Terminals : TermOK(term'[u])
  BY BecomeFacts
<1>3. TypeOK'
  BY <1>1, <1>2 DEF IInv, TypeOK, outside
<1>4. \A u \in Terminals :
        ~At(u, "off")' => /\ ~At(u, "off") /\ term'[u].place = term[u].place
                          /\ term'[u].release = term[u].release
                          /\ term[u].latest = NoRelease \/ term'[u].latest = term[u].latest
  BY <1>2 DEF At
<1>5. \A u \in Terminals, k \in Jobs :
        Upgrading(u, k)' => /\ Upgrading(u, k) /\ job'[u][k].place = job[u][k].place
                            /\ job'[u][k].release = job[u][k].release
  BY <1>1 DEF Upgrading
<1> QED BY <1>1, <1>2, <1>3, <1>4, <1>5, Calm

(* What Step leaves behind.                                                *)
LEMMA SteppedFacts ==
  ASSUME IInv, NEW t \in Terminals, NEW step \in Steps \ {"child", "download", "swap"}
  PROVE  LET new == [NoJob EXCEPT !.step = step]
         IN  new \in JobTypes /\ JobOK(new) /\ new.step = step
<1> DEFINE no == NoJob
           new == [no EXCEPT !.step = step]
<1>1. no \in JobTypes
  BY TermFacts, OffTyped DEF Terms
<1> HIDE DEF no
<1>2. new \in JobTypes /\ new.step = step
  BY <1>1 DEF JobTypes
<1> HIDE DEF new
<1>3. JobOK(new)
  BY <1>2 DEF JobOK
<1> QED BY <1>2, <1>3 DEF new, no

LEMMA StepOnlyIInv ==
  ASSUME IInv, NEW t \in Terminals, NEW j \in Jobs,
         NEW step \in Steps \ {"child", "download", "swap"}, Step(t, j, step),
         cooled' \in BOOLEAN, catalog' \in Releases \cup {NoRelease},
         UNCHANGED <<outside, binary, term, lone, moves>>
  PROVE  IInv'
<1> DEFINE new == [NoJob EXCEPT !.step = step]
<1>1. new \in JobTypes /\ JobOK(new) /\ new.step = step
  BY SteppedFacts
<1>2. job' = [job EXCEPT ![t][j] = new]
  BY DEF Step
<1>3. term[t] \in Terms /\ TermOK(term[t]) /\ Become(t, term[t])
  BY TermFacts DEF Become, IInv, TypeOK
<1> HIDE DEF new
<1> QED BY <1>1, <1>2, <1>3, JobIInv DEF At

LEMMA DownloadIInv ==
  ASSUME IInv, NEW t \in Terminals, NEW j \in Jobs, Download(t, j)
  PROVE  IInv'
<1> DEFINE it == job[t][j]
<1>1. it.step = "download" /\ it \in JobTypes /\ JobOK(it)
      /\ UNCHANGED <<outside, machine, term, lone, moves>>
  BY DEF Download, IInv, TypeOK
<1>2. cooled' \in BOOLEAN /\ catalog' \in Releases \cup {NoRelease} /\ UNCHANGED binary
  BY <1>1 DEF IInv, TypeOK, machine
<1>3. CASE Step(t, j, "failed")
  BY <1>1, <1>2, <1>3, StepOnlyIInv DEF Steps
<1>4. CASE \E archive, sums, sig, cert \in Assets :
             /\ VerifyCosign(sums, sig, cert) /\ VerifyChecksum(archive, sums)
             /\ job' = [job EXCEPT ![t][j].step = "swap", ![t][j].whole = archive # "cut"]
  <2>1. PICK archive, sums, sig, cert \in Assets :
             /\ VerifyCosign(sums, sig, cert) /\ VerifyChecksum(archive, sums)
             /\ job' = [job EXCEPT ![t][j].step = "swap", ![t][j].whole = archive # "cut"]
    BY <1>4
  <2>2. archive # "cut"
    BY <2>1 DEF VerifyCosign, VerifyChecksum
  <2> DEFINE new == [it EXCEPT !.step = "swap", !.whole = TRUE]
  <2>3. job' = [job EXCEPT ![t][j] = new]
    BY <2>1, <2>2 DEF IInv, TypeOK
  <2>4. /\ new \in JobTypes /\ new.step = "swap" /\ new.whole /\ new.place = it.place
        /\ new.release = it.release
    BY <1>1 DEF JobTypes, Steps
  <2> HIDE DEF new
  <2>5. JobOK(new)
    BY <1>1, <2>4 DEF JobOK
  <2>6. term[t] \in Terms /\ TermOK(term[t]) /\ Become(t, term[t])
    BY <1>1, TermFacts DEF Become, IInv, TypeOK
  <2> QED BY <1>1, <1>2, <2>3, <2>4, <2>5, <2>6, JobIInv DEF Upgrading, At
<1> QED BY <1>3, <1>4 DEF Download

LEMMA RunSyncIInv ==
  ASSUME IInv, NEW t \in Terminals, NEW j \in Jobs, RunSync(t, j)
  PROVE  IInv'
<1>1. /\ UNCHANGED <<outside, binary, cooled, term, lone, moves>>
      /\ Step(t, j, "synced") \/ Step(t, j, "unsynced")
      /\ catalog' \in {job[t][j].release, catalog}
  BY DEF RunSync
<1>2. cooled' \in BOOLEAN /\ catalog' \in Releases \cup {NoRelease}
  BY <1>1 DEF IInv, TypeOK, JobTypes
<1> QED BY <1>1, <1>2, StepOnlyIInv DEF Steps

LEMMA DeliverIInv ==
  ASSUME IInv, NEW t \in Terminals, NEW j \in Jobs, Deliver(t, j)
  PROVE  IInv'
<1> DEFINE me == term[t]
           step == job[t][j].step
           no == NoJob
<1>1. /\ me \in Terms /\ TermOK(me) /\ me.pc # "off" /\ job' = [job EXCEPT ![t][j] = no]
      /\ step \in {"done", "failed", "synced", "unsynced"}
      /\ UNCHANGED <<outside, machine, lone, moves>>
  BY TermFacts DEF Deliver, At
<1>2. cooled' \in BOOLEAN /\ catalog' \in Releases \cup {NoRelease} /\ UNCHANGED binary
  BY <1>1 DEF IInv, TypeOK, machine
<1>3. no \in JobTypes /\ JobOK(no) /\ no.step = "none"
  BY <1>1, OffTyped DEF Terms
<1> HIDE DEF no
<1>4. \/ Become(t, me)
      \/ me.pc = "screen" /\ \E screen \in {"synced", "failed"} :
                                Become(t, [me EXCEPT !.screen = screen])
      \/ me.pc = "screen" /\ Become(t, [me EXCEPT !.pc = "quit"])
  BY <1>1 DEF Deliver, Shows, At
<1>5. CASE Become(t, me)
  BY <1>1, <1>2, <1>3, <1>5, JobIInv DEF At
<1>6. CASE me.pc = "screen" /\ \E screen \in {"synced", "failed"} :
                                  Become(t, [me EXCEPT !.screen = screen])
  <2>1. PICK screen \in {"synced", "failed"} : Become(t, [me EXCEPT !.screen = screen])
    BY <1>6
  <2> DEFINE new == [me EXCEPT !.screen = screen]
  <2>2. /\ new \in Terms /\ new.pc = me.pc /\ new.place = me.place /\ new.release = me.release
        /\ new.latest = me.latest /\ new.screen = screen /\ new.offered = me.offered
        /\ new.flag = me.flag /\ new.owed = me.owed /\ new.detecting = me.detecting
        /\ new.checking = me.checking
    BY <1>1 DEF Terms, UpgradeScreens
  <2>3. Become(t, new)
    BY <2>1
  <2> HIDE DEF new
  <2>4. TermOK(new)
    BY <1>1, <2>2 DEF TermOK
  <2> QED BY <1>1, <1>2, <1>3, <2>2, <2>3, <2>4, JobIInv DEF At
<1>7. CASE me.pc = "screen" /\ Become(t, [me EXCEPT !.pc = "quit"])
  <2> DEFINE new == [me EXCEPT !.pc = "quit"]
  <2>1. /\ new \in Terms /\ new.pc = "quit" /\ new.place = me.place /\ new.release = me.release
        /\ new.latest = me.latest /\ new.screen = me.screen /\ new.offered = me.offered
        /\ new.flag = me.flag /\ new.owed = me.owed /\ new.detecting = me.detecting
        /\ new.checking = me.checking /\ new.withSync = me.withSync
    BY <1>1 DEF Terms
  <2>2. Become(t, new)
    BY <1>7
  <2> HIDE DEF new
  <2>3. TermOK(new)
    BY <1>1, <1>7, <2>1 DEF TermOK
  <2> QED BY <1>1, <1>2, <1>3, <1>7, <2>1, <2>2, <2>3, JobIInv DEF At
<1> QED BY <1>4, <1>5, <1>6, <1>7

(* An upgrade begins: what the screen offers is the latest.                *)
LEMMA ConfirmIInv ==
  ASSUME IInv, NEW t \in Terminals, Confirm(t)
  PROVE  IInv'
<1> DEFINE me == term[t]
           method == DetectMethod(me.place)
           step == IF method # "binary" THEN "child" ELSE IF windows THEN "failed" ELSE "download"
           no == NoJob
<1>1. /\ me.pc = "screen" /\ me.screen = "confirm" /\ me \in Terms /\ TermOK(me)
      /\ UNCHANGED <<outside, machine, lone, moves>>
  BY TermFacts DEF Confirm, Shows, At
<1>2. cooled' \in BOOLEAN /\ catalog' \in Releases \cup {NoRelease} /\ UNCHANGED binary
  BY <1>1 DEF IInv, TypeOK, machine
<1>3. no \in JobTypes /\ JobOK(no) /\ no.step = "none"
  BY <1>1, OffTyped DEF Terms
<1> DEFINE shows(screen) == [me EXCEPT !.screen = screen]
<1>4. ASSUME NEW screen \in {"syncing", "applying"}
      PROVE  /\ shows(screen) \in Terms /\ TermOK(shows(screen)) /\ shows(screen).pc = "screen"
             /\ shows(screen).place = me.place /\ shows(screen).release = me.release
             /\ shows(screen).latest = me.latest
  <2> DEFINE new == shows(screen)
  <2>1. /\ new \in Terms /\ new.pc = me.pc /\ new.place = me.place /\ new.release = me.release
        /\ new.latest = me.latest /\ new.screen = screen /\ new.offered = me.offered
        /\ new.flag = me.flag /\ new.owed = me.owed /\ new.detecting = me.detecting
        /\ new.checking = me.checking
    BY <1>1 DEF Terms, UpgradeScreens
  <2> HIDE DEF shows
  <2>2. TermOK(new)
    BY <1>1, <2>1 DEF TermOK
  <2> QED BY <1>1, <2>1, <2>2
<1>5. CASE me.withSync /\ me.offered = NoRelease
  <2>1. PICK j \in Jobs : job' = [job EXCEPT ![t][j] = [no EXCEPT !.step = "sync", !.release = me.release]]
    BY <1>5 DEF Confirm, Spawn
  <2> DEFINE new == [no EXCEPT !.step = "sync", !.release = me.release]
  <2>2. new \in JobTypes /\ new.step = "sync"
    BY <1>1, <1>3 DEF JobTypes, Steps, Terms
  <2>3. job' = [job EXCEPT ![t][j] = new] /\ Become(t, shows("syncing"))
    BY <1>5, <2>1 DEF Confirm
  <2> HIDE DEF new, shows
  <2>4. JobOK(new)
    BY <2>2 DEF JobOK
  <2>5. shows("syncing").pc = "screen" /\ ~At(t, "off")
    BY <1>1, <1>4 DEF At
  <2> QED BY <1>1, <1>2, <1>4, <2>2, <2>3, <2>4, <2>5, JobIInv
<1>6. CASE ~(me.withSync /\ me.offered = NoRelease)
  <2>1. PICK j \in Jobs :
          job' = [job EXCEPT ![t][j] = [no EXCEPT !.step = step, !.place = me.place,
                                                  !.release = me.offered]]
    BY <1>6 DEF Confirm, Spawn
  <2>2. /\ step \in Steps /\ (step = "child" => me.place \in Brewed \cup GoBins)
        /\ (step = "download" => me.place \notin Brewed) /\ step # "swap"
    BY DEF Steps, DetectMethod
  <2> DEFINE new == [no EXCEPT !.step = step, !.place = me.place, !.release = me.offered]
  <2>3. job' = [job EXCEPT ![t][j] = new] /\ Become(t, shows("applying"))
    BY <1>6, <2>1 DEF Confirm
  <2> HIDE DEF step
  <2>4. new \in JobTypes /\ new.step = step /\ new.place = me.place /\ new.release = me.offered
    BY <1>1, <1>3, <2>2 DEF JobTypes, Terms
  <2> HIDE DEF new, shows
  <2>5. JobOK(new)
    BY <2>2, <2>4 DEF JobOK
  <2>6. me.offered = me.latest /\ me.latest # NoRelease /\ me.latest > me.release
    BY <1>1, <1>6 DEF TermOK
  <2>7. /\ job' \in [Terminals -> [Jobs -> JobTypes]] /\ job'[t][j] = new
        /\ \A u \in Terminals, k \in Jobs : u # t \/ k # j => job'[u][k] = job[u][k]
        /\ \A u \in Terminals, k \in Jobs : JobOK(job'[u][k])
    BY <2>3, <2>4, <2>5, JobFacts
  <2>8. /\ term' \in [Terminals -> Terms] /\ term'[t] = shows("applying")
        /\ \A u \in Terminals \ {t} : term'[u] = term[u]
        /\ \A u \in Terminals : TermOK(term'[u])
    BY <1>4, <2>3, BecomeFacts
  <2>9. TypeOK'
    BY <1>1, <2>7, <2>8 DEF IInv, TypeOK, outside, machine
  <2>10. LoneInv'
    <3> SUFFICES ASSUME lone' PROVE LoneInv'
      BY DEF LoneInv
    <3>1. LoneInv /\ lone /\ ~At(t, "off") /\ UNCHANGED binary /\ TypeOK
      BY <1>1, <1>2 DEF At, IInv
    <3>2. \A u \in Terminals : At(u, "off")' <=> At(u, "off")
      BY <1>1, <1>4, <2>8 DEF At
    <3>3. \A u \in Terminals : /\ term'[u].place = term[u].place
                               /\ term'[u].release = term[u].release
                               /\ term'[u].latest = term[u].latest
      BY <1>4, <2>8
    <3>4. \A u \in Terminals, k \in Jobs :
            Upgrading(u, k)' => /\ u = t /\ job'[u][k].place = me.place
                                /\ job'[u][k].release = me.latest
      BY <2>4, <2>6, <2>7, <3>1 DEF LoneInv, Upgrading
    <3>5. me.place \notin Brewed => binary[me.place].release <= me.latest
      <4>1. me.release \in Releases \cup {NoRelease} /\ me.latest \in Releases \cup {NoRelease}
        BY <1>1 DEF Terms
      <4>2. me.release \in Nat /\ me.latest \in Nat
        BY <4>1, ReleaseFacts
      <4> QED BY <2>6, <3>1, <4>2 DEF LoneInv
    <3>6. \A u, v \in Terminals : ~At(u, "off")' /\ ~At(v, "off")' => u = v
      BY <3>1, <3>2 DEF LoneInv
    <3>7. \A u, v \in Terminals, k, l \in Jobs :
            Upgrading(u, k)' /\ Upgrading(v, l)'
              => job'[u][k].place = job'[v][l].place /\ job'[u][k].release = job'[v][l].release
      BY <3>4
    <3>8. \A u \in Terminals, k \in Jobs :
            Upgrading(u, k)' /\ job'[u][k].place \notin Brewed
              => binary'[job'[u][k].place].release <= job'[u][k].release
      BY <3>1, <3>4, <3>5
    <3>9. \A u, v \in Terminals, k \in Jobs :
            ~At(u, "off")' /\ Upgrading(v, k)'
              => /\ v = u /\ job'[v][k].place = term'[u].place
                 /\ job'[v][k].release = term'[u].latest /\ term'[u].latest # NoRelease
      BY <2>6, <3>1, <3>2, <3>3, <3>4 DEF LoneInv
    <3>10. \A u \in Terminals :
             ~At(u, "off")' /\ term'[u].place \notin Brewed
               => \/ binary'[term'[u].place].release = term'[u].release
                  \/ /\ term'[u].latest # NoRelease
                     /\ binary'[term'[u].place].release = term'[u].latest
      BY <3>1, <3>2, <3>3 DEF LoneInv
    <3> QED BY <3>6, <3>7, <3>8, <3>9, <3>10 DEF LoneInv
  <2> QED BY <2>7, <2>8, <2>9, <2>10 DEF IInv
<1> QED BY <1>5, <1>6

(* A goroutine ends with what it was to install in place.                  *)
LEMMA InstalledIInv ==
  ASSUME IInv, NEW t \in Terminals, NEW j \in Jobs, Upgrading(t, j),
         NEW new \in JobTypes, JobOK(new), new.step \notin {"child", "download", "swap"},
         job' = [job EXCEPT ![t][j] = new],
         NEW r \in Releases \cup {NoRelease}, NEW whole \in BOOLEAN,
         Install(job[t][j].place, r, whole),
         job[t][j].place \in Brewed \/ r = job[t][j].release,
         UNCHANGED <<outside, cooled, catalog, term, lone, moves>>
  PROVE  IInv'
<1> DEFINE it == job[t][j]
<1>1. /\ job' \in [Terminals -> [Jobs -> JobTypes]] /\ job'[t][j] = new
      /\ \A u \in Terminals, k \in Jobs : u # t \/ k # j => job'[u][k] = job[u][k]
      /\ \A u \in Terminals, k \in Jobs : JobOK(job'[u][k])
  BY JobFacts
<1>2. /\ it \in JobTypes /\ it.place \in Places /\ TypeOK
  BY DEF IInv, TypeOK, JobTypes
<1>3. /\ binary' \in [Places -> Binaries] /\ binary'[it.place].release = r
      /\ \A p \in Places \ {it.place} : binary'[p] = binary[p]
  BY <1>2 DEF Install, TypeOK, Binaries
<1>4. TypeOK'
  BY <1>1, <1>2, <1>3 DEF TypeOK, outside, Binaries
<1>5. LoneInv'
  <2> SUFFICES ASSUME lone' PROVE LoneInv'
    BY DEF LoneInv
  <2>1. LoneInv /\ lone
    BY DEF IInv
  <2>2. \A u \in Terminals, k \in Jobs :
          Upgrading(u, k)' => Upgrading(u, k) /\ job'[u][k] = job[u][k]
    BY <1>1 DEF Upgrading
  <2>3. \A u \in Terminals, k \in Jobs :
          Upgrading(u, k)' => job[u][k].place = it.place /\ job[u][k].release = it.release
    BY <2>1, <2>2 DEF LoneInv
  <2>4. \A u \in Terminals :
          ~At(u, "off") => /\ it.place = term[u].place /\ it.release = term[u].latest
                           /\ term[u].latest # NoRelease
    BY <2>1 DEF LoneInv
  <2>5. it.release \in Nat
    BY <1>2, ReleaseFacts DEF JobTypes
  <2>6. \A u, v \in Terminals : ~At(u, "off")' /\ ~At(v, "off")' => u = v
    BY <2>1 DEF LoneInv, At
  <2>7. \A u, v \in Terminals, k, l \in Jobs :
          Upgrading(u, k)' /\ Upgrading(v, l)'
            => job'[u][k].place = job'[v][l].place /\ job'[u][k].release = job'[v][l].release
    BY <2>2, <2>3
  <2>8. \A u \in Terminals, k \in Jobs :
          Upgrading(u, k)' /\ job'[u][k].place \notin Brewed
            => binary'[job'[u][k].place].release <= job'[u][k].release
    BY <1>3, <2>2, <2>3, <2>5
  <2>9. \A u, v \in Terminals, k \in Jobs :
          ~At(u, "off")' /\ Upgrading(v, k)'
            => /\ v = u /\ job'[v][k].place = term'[u].place
               /\ job'[v][k].release = term'[u].latest /\ term'[u].latest # NoRelease
    BY <2>1, <2>2 DEF LoneInv, At
  <2>10. \A u \in Terminals :
           ~At(u, "off")' /\ term'[u].place \notin Brewed
             => \/ binary'[term'[u].place].release = term'[u].release
                \/ /\ term'[u].latest # NoRelease
                   /\ binary'[term'[u].place].release = term'[u].latest
    BY <1>3, <2>4 DEF At
  <2> QED BY <2>6, <2>7, <2>8, <2>9, <2>10 DEF LoneInv
<1> QED BY <1>1, <1>4, <1>5 DEF IInv

LEMMA ReplaceExecutableIInv ==
  ASSUME IInv, NEW t \in Terminals, NEW j \in Jobs, ReplaceExecutable(t, j)
  PROVE  IInv'
<1> DEFINE it == job[t][j]
<1>1. /\ it.step = "swap" /\ it \in JobTypes /\ UNCHANGED <<outside, cooled, catalog, term, lone, moves>>
  BY DEF ReplaceExecutable, IInv, TypeOK
<1>2. CASE Step(t, j, "failed") /\ UNCHANGED binary
  <2>1. cooled' \in BOOLEAN /\ catalog' \in Releases \cup {NoRelease}
    BY <1>1 DEF IInv, TypeOK
  <2> QED BY <1>1, <1>2, <2>1, StepOnlyIInv DEF Steps
<1>3. CASE Step(t, j, "done") /\ Install(it.place, it.release, it.whole)
  <2> DEFINE new == [NoJob EXCEPT !.step = "done"]
  <2>1. new \in JobTypes /\ JobOK(new) /\ new.step = "done"
    BY SteppedFacts DEF Steps
  <2>2. job' = [job EXCEPT ![t][j] = new]
    BY <1>3 DEF Step
  <2> HIDE DEF new
  <2>3. Upgrading(t, j) /\ it.release \in Releases \cup {NoRelease} /\ it.whole \in BOOLEAN
    BY <1>1 DEF Upgrading, JobTypes
  <2> QED BY <1>1, <1>3, <2>1, <2>2, <2>3, InstalledIInv
<1> QED BY <1>2, <1>3 DEF ReplaceExecutable

LEMMA ChildIInv ==
  ASSUME IInv, NEW t \in Terminals, NEW j \in Jobs, Child(t, j)
  PROVE  IInv'
<1> DEFINE it == job[t][j]
<1>1. /\ it.step = "child" /\ it \in JobTypes /\ JobOK(it)
      /\ UNCHANGED <<outside, cooled, catalog, term, lone, moves>>
  BY DEF Child, IInv, TypeOK
<1>2. PICK new \in JobTypes :
        /\ JobOK(new) /\ new.step \notin {"child", "download", "swap"}
        /\ job' = [job EXCEPT ![t][j] = new]
  <2>1. \/ job' = [job EXCEPT ![t][j] = NoJob]
        \/ \E step \in {"failed", "done"} : Step(t, j, step)
    BY DEF Child
  <2>2. CASE job' = [job EXCEPT ![t][j] = NoJob]
    BY <2>2, TermFacts, OffTyped DEF Terms
  <2>3. ASSUME NEW step \in {"failed", "done"}, Step(t, j, step)
        PROVE  \E new \in JobTypes :
                 /\ JobOK(new) /\ new.step \notin {"child", "download", "swap"}
                 /\ job' = [job EXCEPT ![t][j] = new]
    <3> DEFINE new == [NoJob EXCEPT !.step = step]
    <3>1. new \in JobTypes /\ JobOK(new) /\ new.step = step
      BY SteppedFacts DEF Steps
    <3>2. job' = [job EXCEPT ![t][j] = new]
      BY <2>3 DEF Step
    <3> HIDE DEF new
    <3> QED BY <3>1, <3>2
  <2> QED BY <2>1, <2>2, <2>3
<1>3. CASE UNCHANGED binary
  <2>1. cooled' \in BOOLEAN /\ catalog' \in Releases \cup {NoRelease}
    BY <1>1 DEF IInv, TypeOK
  <2>2. term[t] \in Terms /\ TermOK(term[t]) /\ Become(t, term[t])
    BY <1>1, TermFacts DEF Become, IInv, TypeOK
  <2> QED BY <1>1, <1>2, <1>3, <2>1, <2>2, JobIInv DEF At
<1>4. CASE \E r \in Releases \cup {NoRelease} :
             /\ Install(it.place, r, TRUE) /\ (it.place \in Brewed \/ r = it.release)
  <2>1. PICK r \in Releases \cup {NoRelease} :
             /\ Install(it.place, r, TRUE) /\ (it.place \in Brewed \/ r = it.release)
    BY <1>4
  <2>2. Upgrading(t, j)
    BY <1>1 DEF Upgrading
  <2> QED BY <1>1, <1>2, <2>1, <2>2, InstalledIInv
<1>5. it.place \in GoBins => it.place \notin Brewed
  BY ConstantsAssumption
<1>6. it.place \in Brewed \cup GoBins /\ it.release \in Releases \cup {NoRelease}
  BY <1>1 DEF JobOK, JobTypes
<1> QED BY <1>3, <1>4, <1>5, <1>6 DEF Child

LEMMA IdleIInv ==
  ASSUME IInv, published' \in Releases, moves' \in 0..MaxMoves, cooled' \in BOOLEAN,
         UNCHANGED <<binary, catalog, found, windows, term, job, lone>>
  PROVE  IInv'
<1>1. TypeOK'
  BY DEF IInv, TypeOK
<1>2. LoneInv'
  BY DEF IInv, LoneInv, At, Upgrading
<1> QED BY <1>1, <1>2 DEF IInv

LEMMA StepIInv == IInv /\ [Next]_vars => IInv'
<1> SUFFICES ASSUME IInv, [Next]_vars PROVE IInv'
  OBVIOUS
<1>1. published \in Releases /\ moves \in 0..MaxMoves /\ cooled \in BOOLEAN
  BY DEF IInv, TypeOK
<1>2. CASE Publish
  <2>1. published' \in Releases /\ moves' \in 0..MaxMoves
        /\ UNCHANGED <<machine, found, windows, term, job, lone>>
    BY <1>1, <1>2, ConstantsAssumption DEF Publish, Move
  <2> QED BY <1>1, <2>1, IdleIInv DEF machine
<1>3. CASE CooldownEnds
  <2>1. moves' \in 0..MaxMoves /\ cooled' = FALSE
        /\ UNCHANGED <<outside, binary, catalog, term, job, lone>>
    BY <1>1, <1>3, ConstantsAssumption DEF CooldownEnds, Move
  <2> QED BY <1>1, <2>1, IdleIInv DEF outside
<1>4. ASSUME NEW t \in Terminals, Terminal(t) PROVE IInv'
  BY <1>4, LaunchIInv, StartIInv, DetectedIInv, CheckLatestIInv, OpenOtherIInv, KeepCurrentIInv,
     BackIInv, ConfirmIInv, RestartIInv, QuitIInv, OpenUpgradeIInv DEF Terminal
<1>5. ASSUME NEW t \in Terminals, NEW j \in Jobs, Goroutine(t, j) PROVE IInv'
  BY <1>5, DownloadIInv, ReplaceExecutableIInv, ChildIInv, RunSyncIInv, DeliverIInv DEF Goroutine
<1>6. CASE UNCHANGED vars
  BY <1>1, <1>6, IdleIInv DEF vars
<1> QED BY <1>2, <1>3, <1>4, <1>5, <1>6 DEF Next
------------------------------------------------------------------------------
(* The inductive invariant holds in every reachable state.                 *)
THEOREM Invariance == Spec => []IInv
<1> QED BY InitIInv, StepIInv, PTL DEF Spec

(* Terminals, goroutines and what is installed have their types.           *)
THEOREM TypeCorrect == Spec => []TypeOK
<1>1. IInv => TypeOK
  BY DEF IInv
<1> QED BY <1>1, Invariance, PTL

(* main.go: the sync after a restart is owed by the upgrade before it.     *)
THEOREM SyncOncePerUpgradeAlways == Spec => []SyncOncePerUpgrade
<1>1. IInv => SyncOncePerUpgrade
  BY DEF IInv, TermOK, SyncOncePerUpgrade
<1> QED BY <1>1, Invariance, PTL

(* What one goroutine installs is whole, and by lone rights not older.     *)
LEMMA GoroutineInstalls ==
  ASSUME IInv, NEW t \in Terminals, NEW j \in Jobs, Goroutine(t, j),
         NEW p \in Places, binary'[p] # binary[p]
  PROVE  binary'[p].whole /\ (lone => binary'[p].release >= binary[p].release)
<1> DEFINE it == job[t][j]
<1>1. /\ it \in JobTypes /\ JobOK(it) /\ LoneInv /\ TypeOK
  BY DEF IInv, TypeOK
<1>2. ReplaceExecutable(t, j) \/ Child(t, j)
  BY DEF Goroutine, Download, RunSync, Deliver, machine
<1>3. PICK r \in Releases \cup {NoRelease} :
        /\ Install(it.place, r, TRUE)
        /\ \/ it.place \in Brewed /\ r >= binary[it.place].release
           \/ it.place \notin Brewed /\ r = it.release
  <2>1. CASE ReplaceExecutable(t, j)
    <3>1. it.step = "swap" /\ Install(it.place, it.release, it.whole)
      BY <2>1 DEF ReplaceExecutable
    <3>2. it.whole = TRUE /\ it.place \notin Brewed
      BY <1>1, <3>1 DEF JobOK, JobTypes
    <3> QED BY <1>1, <3>1, <3>2 DEF JobTypes
  <2>2. CASE Child(t, j)
    <3>1. it.place \in Brewed \cup GoBins /\ (it.place \in GoBins => it.place \notin Brewed)
      BY <1>1, <2>2, ConstantsAssumption DEF Child, JobOK
    <3> QED BY <1>1, <2>2, <3>1 DEF Child, JobTypes
  <2> QED BY <1>2, <2>1, <2>2
<1>4. p = it.place /\ binary'[p] = [release |-> r, whole |-> TRUE]
  BY <1>1, <1>3 DEF Install, TypeOK
<1>5. lone /\ it.place \notin Brewed => binary[it.place].release <= it.release
  BY <1>1, <1>2 DEF LoneInv, Upgrading, ReplaceExecutable, Child
<1>6. binary[p].release \in Nat /\ it.release \in Nat /\ r \in Nat
  <2>1. /\ binary[p].release \in Releases \cup {NoRelease}
        /\ it.release \in Releases \cup {NoRelease}
    BY <1>1 DEF TypeOK, JobTypes
  <2> QED BY <2>1, ReleaseFacts
<1> QED BY <1>3, <1>4, <1>5, <1>6

(* upgrade.go: a replaced binary is whole, and a terminal that runs alone  *)
(* replaces it by no older release.                                        *)
THEOREM UpgradesAreSoundAlways == Spec => UpgradesAreSound
<1>1. IInv /\ [Next]_vars
        => [\A p \in Places :
              binary'[p] # binary[p]
                => binary'[p].whole /\ (lone => binary'[p].release >= binary[p].release)]_vars
  <2> SUFFICES ASSUME IInv, Next, NEW p \in Places, binary'[p] # binary[p]
               PROVE  binary'[p].whole /\ (lone => binary'[p].release >= binary[p].release)
    OBVIOUS
  <2>1. ~Publish /\ ~CooldownEnds /\ \A t \in Terminals : ~Terminal(t)
    BY DEF Publish, CooldownEnds, Terminal, Launch, Start, Detected, CheckLatest, OpenOther,
           KeepCurrent, Back, Confirm, Restart, Quit, OpenUpgrade, machine
  <2> QED BY <2>1, GoroutineInstalls DEF Next
<1> QED BY <1>1, Invariance, PTL DEF Spec, UpgradesAreSound
=============================================================================
