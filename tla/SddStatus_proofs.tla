---------------------------- MODULE SddStatus_proofs ----------------------------
(***************************************************************************)
(* Proofs about the SDD status engine, for any number of sessions, changes *)
(* and tasks: the dependency graph and its table of phases name the first  *)
(* gap of every folder there can be, and what a session acts on is the     *)
(* answer for the folder as it is, unless somebody has overtaken it.       *)
(***************************************************************************)
EXTENDS SddStatus, TLAPS

(* What the engine has read of a change nobody has touched since.          *)
ReadsTrue(s) ==
  /\ At(s, "act") /\ session[s].change = None => session[s].next \in Blocked
  /\ At(s, "export") => session[s].change = None
  /\ At(s, "artifacts") \/ At(s, "tasks") \/ At(s, "report")
       => session[s].change # None /\ session[s].store = "openspec"
  /\ ~session[s].overtaken
       => LET f == files[session[s].change]
              read == session[s].read
          IN  /\ At(s, "artifacts") \/ At(s, "tasks") \/ At(s, "report") => f # None
              /\ At(s, "tasks") \/ At(s, "report") => read.state = f.state
              /\ At(s, "report") => read.total = f.total /\ read.completed = f.completed

Acts(s) ==
  At(s, "act") /\ session[s].change # None /\ ~session[s].overtaken
    => FirstGap(Folder(session[s].store, session[s].change), session[s].next)

IInv == TypeOK /\ \A s \in Sessions : ReadsTrue(s) /\ Acts(s)
------------------------------------------------------------------------------
LEMMA EmptyIsFolder == Empty \in Folders
BY ConstantsAssumption DEF Empty, Folders, Readings, Artifacts, Planning, ArtifactStates

(* The graph of dependencies and the table over it find the first gap.     *)
LEMMA RouteIsFirstGap ==
  ASSUME NEW f \in Folders
  PROVE  FirstGap(f, Route(f)) /\ Route(f) \in Answers
<1> DEFINE st == f.state
           core == CoreReady(st, f.total)
           d == ResolveDependencies(st, f.total, f.completed, f.passing)
           n == Route(f)
<1>1. /\ st \in [Artifacts -> ArtifactStates] /\ f.total \in Nat /\ f.completed \in Nat
      /\ f.completed <= f.total /\ f.passing \in BOOLEAN
      /\ f.passing => st["verifyReport"] = "done"
      /\ f.total > 0 => st["tasks"] = "done"
  BY ConstantsAssumption DEF Folders, Readings
<1>2. /\ d.proposal = PlanningDependency(TRUE, st["proposal"])
      /\ d.specs = PlanningDependency(st["proposal"] = "done", st["specs"])
      /\ d.design = PlanningDependency(st["proposal"] = "done", st["design"])
      /\ d.tasks = PlanningDependency(st["specs"] = "done" /\ st["design"] = "done", st["tasks"])
      /\ d.apply = ResolveApplyState(core, f.total, f.completed)
      /\ d.verify = ResolveVerify(st, core, f.total > 0 /\ f.completed = f.total, f.passing)
  BY DEF ResolveDependencies
<1>3. n = ResolveNextRecommended(d)
  BY DEF Route
<1>4. core <=> /\ st["proposal"] = "done" /\ st["specs"] = "done"
               /\ st["design"] = "done" /\ st["tasks"] = "done" /\ f.total > 0
  BY DEF CoreReady, Planning
<1>5. /\ Finished(f)[1] <=> st["proposal"] = "done"
      /\ Finished(f)[2] <=> st["specs"] = "done"
      /\ Finished(f)[3] <=> st["design"] = "done"
      /\ Finished(f)[4] <=> st["tasks"] = "done"
      /\ Finished(f)[5] <=> f.completed = f.total
      /\ Finished(f)[6] <=> f.passing
      /\ ~Finished(f)[7]
  BY DEF Finished
<1>6. /\ Order[1] = "propose" /\ Order[2] = "spec" /\ Order[3] = "design" /\ Order[4] = "tasks"
      /\ Order[5] = "apply" /\ Order[6] = "verify" /\ Order[7] = "archive"
  BY DEF Order
<1>7. \A i \in 1..7 : Order[i] \in Answers
  BY DEF Answers
<1>8. CASE st["proposal"] # "done"
  <2>1. n = Order[1]
    BY <1>8, <1>2, <1>3, <1>6 DEF PlanningDependency, ResolveNextRecommended
  <2> QED BY <2>1, <1>5, <1>7, <1>8 DEF FirstGap
<1>9. CASE st["proposal"] = "done" /\ st["specs"] # "done"
  <2>1. n = Order[2]
    BY <1>9, <1>2, <1>3, <1>6 DEF PlanningDependency, ResolveNextRecommended
  <2>2. \A j \in 1..1 : Finished(f)[j]
    BY <1>5, <1>9
  <2> QED BY <2>1, <2>2, <1>5, <1>7, <1>9 DEF FirstGap
<1>10. CASE st["proposal"] = "done" /\ st["specs"] = "done" /\ st["design"] # "done"
  <2>1. n = Order[3]
    BY <1>10, <1>2, <1>3, <1>6 DEF PlanningDependency, ResolveNextRecommended
  <2>2. \A j \in 1..2 : Finished(f)[j]
    <3>1. \A j \in 1..2 : j = 1 \/ j = 2
      OBVIOUS
    <3> QED BY <3>1, <1>5, <1>10
  <2> QED BY <2>1, <2>2, <1>5, <1>7, <1>10 DEF FirstGap
<1>11. CASE /\ st["proposal"] = "done" /\ st["specs"] = "done" /\ st["design"] = "done"
            /\ st["tasks"] # "done"
  <2>1. n = Order[4]
    BY <1>11, <1>2, <1>3, <1>6 DEF PlanningDependency, ResolveNextRecommended
  <2>2. \A j \in 1..3 : Finished(f)[j]
    <3>1. \A j \in 1..3 : j = 1 \/ j = 2 \/ j = 3
      OBVIOUS
    <3> QED BY <3>1, <1>5, <1>11
  <2> QED BY <2>1, <2>2, <1>5, <1>7, <1>11 DEF FirstGap
<1>12. CASE /\ st["proposal"] = "done" /\ st["specs"] = "done" /\ st["design"] = "done"
            /\ st["tasks"] = "done"
  <2>1. \A j \in 1..4 : Finished(f)[j]
    <3>1. \A j \in 1..4 : j = 1 \/ j = 2 \/ j = 3 \/ j = 4
      OBVIOUS
    <3> QED BY <3>1, <1>5, <1>12
  <2>2. /\ d.proposal = "all_done" /\ d.specs = "all_done" /\ d.design = "all_done"
        /\ d.tasks = "all_done"
    BY <1>12, <1>2 DEF PlanningDependency
  <2>3. n = IF d.apply = "ready" THEN "apply"
            ELSE IF d.verify = "ready" THEN "verify"
            ELSE IF d.verify = "all_done" /\ d.apply = "all_done" THEN "archive"
            ELSE "resolve-blockers"
    BY <1>3, <2>2 DEF ResolveNextRecommended
  <2>4. CASE f.total = 0
    <3>1. ~core
      BY <2>4, <1>4
    <3>2. d.apply = "blocked" /\ d.verify = "blocked"
      BY <1>2, <3>1 DEF ResolveApplyState, ResolveVerify
    <3>3. n = "resolve-blockers"
      BY <2>3, <3>2
    <3> QED BY <3>3, <2>1, <2>4 DEF FirstGap, Answers
  <2>5. CASE f.total > 0 /\ f.completed # f.total
    <3>1. n = Order[5]
      BY <2>5, <1>2, <1>4, <1>6, <1>12, <2>3 DEF ResolveApplyState
    <3> QED BY <3>1, <2>1, <1>5, <1>7, <2>5 DEF FirstGap
  <2>6. CASE f.total > 0 /\ f.completed = f.total
    <3>1. core
      BY <2>6, <1>4, <1>12
    <3>2. d.apply = "all_done"
      BY <1>2, <2>6, <3>1 DEF ResolveApplyState
    <3>3. \A j \in 1..5 : Finished(f)[j]
      <4>1. \A j \in 1..5 : j \in 1..4 \/ j = 5
        OBVIOUS
      <4> QED BY <4>1, <2>1, <1>5, <2>6
    <3>4. CASE ~f.passing
      <4>1. d.verify = "ready"
        BY <1>2, <3>1, <3>4, <2>6 DEF ResolveVerify
      <4>2. n = Order[6]
        BY <4>1, <3>2, <2>3, <1>6
      <4> QED BY <4>2, <3>3, <1>5, <1>7, <2>6, <3>4 DEF FirstGap
    <3>5. CASE f.passing
      <4>1. d.verify = "all_done"
        BY <1>1, <1>2, <3>1, <3>5, <2>6 DEF ResolveVerify
      <4>2. n = Order[7]
        BY <4>1, <3>2, <2>3, <1>6
      <4>3. \A j \in 1..6 : Finished(f)[j]
        <5>1. \A j \in 1..6 : j \in 1..5 \/ j = 6
          OBVIOUS
        <5> QED BY <5>1, <3>3, <1>5, <3>5
      <4> QED BY <4>2, <4>3, <1>5, <1>7, <2>6 DEF FirstGap
    <3> QED BY <3>4, <3>5
  <2> QED BY <2>4, <2>5, <2>6, <1>1
<1> QED BY <1>8, <1>9, <1>10, <1>11, <1>12

LEMMA FolderFields ==
  ASSUME NEW f \in Folders
  PROVE  /\ f.state \in [Artifacts -> ArtifactStates]
         /\ f.total \in 0..MaxTasks /\ f.completed \in 0..MaxTasks /\ f.passing \in BOOLEAN
         /\ f.completed <= f.total
         /\ f.total > 0 => f.state["tasks"] = "done"
         /\ f.passing => f.state["verifyReport"] = "done"
         /\ f = [state |-> f.state, total |-> f.total, completed |-> f.completed,
                 passing |-> f.passing]
BY DEF Folders, Readings

LEMMA FolderOf ==
  ASSUME NEW st \in [Artifacts -> ArtifactStates], NEW n \in 0..MaxTasks, NEW k \in 0..n,
         NEW p \in BOOLEAN,
         n > 0 => st["tasks"] = "done", p => st["verifyReport"] = "done"
  PROVE  [state |-> st, total |-> n, completed |-> k, passing |-> p] \in Folders
<1>1. k \in 0..MaxTasks /\ k <= n
  BY ConstantsAssumption
<1> QED BY <1>1 DEF Folders, Readings

LEMMA WriteIsFolder ==
  ASSUME NEW f \in Folders, NEW a \in Artifacts
  PROVE  /\ Write(f, a) \in Folders
         /\ Write(f, a).state[a] = "done"
<1> DEFINE st == [f.state EXCEPT ![a] = "done"]
<1>1. Write(f, a) = [state |-> st, total |-> f.total, completed |-> f.completed,
                     passing |-> f.passing]
  BY FolderFields DEF Write
<1>2. /\ st \in [Artifacts -> ArtifactStates] /\ st[a] = "done"
      /\ \A b \in Artifacts : f.state[b] = "done" => st[b] = "done"
  BY FolderFields DEF ArtifactStates
<1>3. "tasks" \in Artifacts /\ "verifyReport" \in Artifacts
  BY DEF Artifacts, Planning
<1>4. f.completed \in 0..f.total
  BY FolderFields, ConstantsAssumption
<1> HIDE DEF st
<1>5. [state |-> st, total |-> f.total, completed |-> f.completed, passing |-> f.passing]
        \in Folders
  BY <1>2, <1>3, <1>4, FolderFields, FolderOf
<1> QED BY <1>1, <1>2, <1>5

LEMMA TicksAreFolder ==
  ASSUME NEW f \in Folders, f.state["tasks"] = "done", NEW n \in 0..MaxTasks, NEW k \in 0..n
  PROVE  [f EXCEPT !.total = n, !.completed = k] \in Folders
<1> DEFINE g == [f EXCEPT !.total = n, !.completed = k]
<1>1. k \in 0..MaxTasks /\ k <= n
  BY ConstantsAssumption
<1>2. g \in Readings
  BY <1>1 DEF Folders, Readings
<1>3. g.total = n /\ g.completed = k /\ g.state = f.state /\ g.passing = f.passing
  BY <1>1 DEF Folders, Readings
<1> HIDE DEF g
<1> QED BY <1>1, <1>2, <1>3, FolderFields DEF Folders, Readings

LEMMA PassIsFolder ==
  ASSUME NEW f \in Folders, f.state["verifyReport"] = "done"
  PROVE  [f EXCEPT !.passing = TRUE] \in Folders
<1> DEFINE g == [f EXCEPT !.passing = TRUE]
<1>1. g \in Readings
  BY DEF Folders, Readings
<1>2. g.total = f.total /\ g.completed = f.completed /\ g.state = f.state
  BY DEF Folders, Readings
<1> HIDE DEF g
<1> QED BY <1>1, <1>2, FolderFields DEF Folders, Readings

(* A phase makes a folder of a folder.                                     *)
LEMMA WorkedIsFolder ==
  ASSUME NEW f \in Folders, NEW phase, NEW g \in Worked(f, phase)
  PROVE  g \in Folders
<1>0. "proposal" \in Artifacts /\ "specs" \in Artifacts /\ "design" \in Artifacts
      /\ "tasks" \in Artifacts /\ "applyProgress" \in Artifacts /\ "verifyReport" \in Artifacts
  BY DEF Artifacts, Planning
<1>1. CASE phase = "propose"
  BY <1>0, <1>1, WriteIsFolder DEF Worked
<1>2. CASE phase = "spec"
  BY <1>0, <1>2, WriteIsFolder DEF Worked
<1>3. CASE phase = "design"
  BY <1>0, <1>3, WriteIsFolder DEF Worked
<1>4. CASE phase \in {"tasks", "resolve-blockers"}
  <2> DEFINE w == Write(f, "tasks")
  <2>1. PICK n \in 1..MaxTasks : g = [w EXCEPT !.total = n, !.completed = 0]
    BY <1>4 DEF Worked
  <2>2. w \in Folders /\ w.state["tasks"] = "done"
    BY <1>0, WriteIsFolder
  <2> HIDE DEF w
  <2>3. n \in 0..MaxTasks /\ 0 \in 0..n
    BY ConstantsAssumption
  <2> QED BY <2>1, <2>2, <2>3, TicksAreFolder
<1>5. CASE phase = "apply"
  <2> DEFINE w == Write(f, "applyProgress")
  <2>1. PICK n \in 0..f.total : g = [w EXCEPT !.completed = n]
    BY <1>5 DEF Worked
  <2>2. w \in Folders /\ w.total = f.total
    BY <1>0, WriteIsFolder, FolderFields DEF Write
  <2> HIDE DEF w
  <2>3. g = [state |-> w.state, total |-> w.total, completed |-> n, passing |-> w.passing]
    BY <2>1, <2>2, FolderFields
  <2> QED BY <2>2, <2>3, FolderFields, FolderOf
<1>6. CASE phase = "verify"
  <2> DEFINE w == Write(f, "verifyReport")
  <2>1. g = [w EXCEPT !.passing = TRUE]
    BY <1>6 DEF Worked
  <2>2. w \in Folders /\ w.state["verifyReport"] = "done"
    BY <1>0, WriteIsFolder
  <2> HIDE DEF w
  <2> QED BY <2>1, <2>2, PassIsFolder
<1>7. CASE phase \notin {"propose", "spec", "design", "tasks", "resolve-blockers", "apply", "verify"}
  BY <1>7 DEF Worked
<1> QED BY <1>1, <1>2, <1>3, <1>4, <1>5, <1>6, <1>7
------------------------------------------------------------------------------
LEMMA EmptyIsReading == Empty \in Readings
BY EmptyIsFolder DEF Folders

LEMMA IdleTyped == Idle \in SessionStates
BY EmptyIsReading DEF Idle, SessionStates, Steps, Answers, Blocked

LEMMA AnswerTyped ==
  ASSUME NEW s \in Sessions, session[s] \in SessionStates, NEW next \in Answers
  PROVE  /\ Answer(s, next) \in SessionStates
         /\ Answer(s, next).pc = "act" /\ Answer(s, next).next = next
         /\ Answer(s, next).change = session[s].change
         /\ Answer(s, next).store = session[s].store
         /\ Answer(s, next).overtaken = session[s].overtaken
BY EmptyIsReading DEF Answer, SessionStates, Steps

(* What Set does: one session changes.                                     *)
LEMMA SetSession ==
  ASSUME TypeOK, NEW s \in Sessions, NEW new \in SessionStates, Set(s, new)
  PROVE  /\ session' \in [Sessions -> SessionStates]
         /\ session'[s] = new
         /\ \A q \in Sessions \ {s} : session'[q] = session[q]
BY DEF TypeOK, Set

(* What Overtake does: one may return, the others notice.                  *)
LEMMA OvertakeSessions ==
  ASSUME TypeOK, NEW store, NEW c, NEW except, session' = Overtake(store, c, except)
  PROVE  /\ session' \in [Sessions -> SessionStates]
         /\ \A q \in Sessions :
              \/ q = except /\ session'[q] = Idle
              \/ /\ session'[q] = [session[q] EXCEPT !.overtaken = session'[q].overtaken]
                 /\ ~session'[q].overtaken
                      => ~session[q].overtaken
                         /\ ~(session[q].store = store /\ session[q].change = c)
<1>1. ASSUME NEW q \in Sessions, q # except
      PROVE  /\ session'[q] \in SessionStates
             /\ session'[q] = [session[q] EXCEPT !.overtaken = session'[q].overtaken]
             /\ ~session'[q].overtaken
                  => ~session[q].overtaken
                     /\ ~(session[q].store = store /\ session[q].change = c)
  <2> DEFINE b == session[q].overtaken \/ (session[q].store = store /\ session[q].change = c)
  <2>1. session'[q] = [session[q] EXCEPT !.overtaken = b]
    BY <1>1 DEF Overtake
  <2>2. session[q] \in SessionStates /\ b \in BOOLEAN
    BY DEF TypeOK
  <2> HIDE DEF b
  <2>3. session'[q] \in SessionStates /\ session'[q].overtaken = b
    BY <2>1, <2>2 DEF SessionStates
  <2> QED BY <2>1, <2>3 DEF b
<1>2. \A q \in Sessions : q = except => session'[q] = Idle
  BY DEF Overtake
<1>3. session' = [q \in Sessions |-> session'[q]]
  BY DEF Overtake
<1> QED BY <1>1, <1>2, <1>3, IdleTyped
------------------------------------------------------------------------------
LEMMA TypeFacts ==
  ASSUME TypeOK
  PROVE  /\ \A c \in Changes : files[c] = None \/ files[c] \in Folders
         /\ \A c \in Changes : memory[c] = None \/ memory[c] \in Folders
         /\ \A s \in Sessions :
              /\ session[s] \in SessionStates
              /\ session[s].change \in Changes \cup {None}
              /\ session[s].store \in {"openspec", "engram"}
              /\ session[s].next \in Answers
              /\ session[s].read \in Readings
              /\ session[s].overtaken \in BOOLEAN
BY DEF TypeOK, SessionStates

LEMMA InitIInv == Init => IInv
<1> SUFFICES ASSUME Init PROVE IInv
  OBVIOUS
<1>1. TypeOK
  <2>1. files \in [Changes -> Folders \cup {None}]
    BY EmptyIsFolder DEF Init
  <2> QED BY <2>1, IdleTyped, ConstantsAssumption DEF Init, TypeOK
<1>2. \A s \in Sessions : session[s] = Idle
  BY DEF Init
<1>3. \A s \in Sessions : ReadsTrue(s) /\ Acts(s)
  BY <1>2 DEF ReadsTrue, Acts, At, Idle
<1> QED BY <1>1, <1>3 DEF IInv

(* A step of one session that leaves the artifacts alone.                  *)
LEMMA OneSession ==
  ASSUME IInv, NEW s \in Sessions, NEW new \in SessionStates, Set(s, new),
         UNCHANGED <<files, memory, edits>>,
         new.pc = "act" /\ new.change = None => new.next \in Blocked,
         new.pc = "export" => new.change = None,
         new.pc \in {"artifacts", "tasks", "report"}
           => new.change # None /\ new.store = "openspec",
         ~new.overtaken =>
           /\ new.pc \in {"artifacts", "tasks", "report"} => files[new.change] # None
           /\ new.pc \in {"tasks", "report"} => new.read.state = files[new.change].state
           /\ new.pc = "report" => /\ new.read.total = files[new.change].total
                                   /\ new.read.completed = files[new.change].completed
           /\ new.pc = "act" /\ new.change # None
                => FirstGap(Folder(new.store, new.change), new.next)
  PROVE  IInv'
<1>1. TypeOK
  BY DEF IInv
<1>2. /\ session' \in [Sessions -> SessionStates] /\ session'[s] = new
      /\ \A q \in Sessions \ {s} : session'[q] = session[q]
  BY <1>1, SetSession
<1>3. TypeOK'
  BY <1>1, <1>2 DEF TypeOK
<1>4. ReadsTrue(s)' /\ Acts(s)'
  BY <1>2 DEF ReadsTrue, Acts, At, Folder
<1>5. ASSUME NEW q \in Sessions, q # s PROVE ReadsTrue(q)' /\ Acts(q)'
  <2>1. session'[q] = session[q] /\ ReadsTrue(q) /\ Acts(q)
    BY <1>2, <1>5 DEF IInv
  <2> QED BY <2>1 DEF ReadsTrue, Acts, At, Folder
<1> QED BY <1>3, <1>4, <1>5 DEF IInv

LEMMA AskIInv ==
  ASSUME IInv, NEW s \in Sessions, NEW requested \in Changes \cup {None}, Ask(s, requested)
  PROVE  IInv'
<1> DEFINE asked == [Idle EXCEPT !.asked = requested]
<1>1. UNCHANGED <<files, memory, edits>>
  BY DEF Ask
<1>2. Idle \in SessionStates
  BY IdleTyped
<1>3. CASE \E c \in Pick(Active, requested) :
             Set(s, [asked EXCEPT !.pc = "artifacts", !.change = c])
  <2>1. PICK c \in Pick(Active, requested) :
               Set(s, [asked EXCEPT !.pc = "artifacts", !.change = c])
    BY <1>3
  <2>2. c \in Changes /\ files[c] # None
    BY DEF Pick, Active
  <2> DEFINE new == [asked EXCEPT !.pc = "artifacts", !.change = c]
  <2>3. /\ new \in SessionStates /\ new.pc = "artifacts" /\ new.change = c
        /\ new.store = "openspec"
    BY <1>2, <2>2 DEF SessionStates, Steps, Idle
  <2>4. Set(s, new)
    BY <2>1
  <2> HIDE DEF new
  <2> QED BY <1>1, <2>2, <2>3, <2>4, ConstantsAssumption, OneSession
<1>4. ASSUME NEW new \in SessionStates, Set(s, new), new.pc \in {"act", "export"},
             new.change = None, new.next \in Blocked
      PROVE  IInv'
  BY <1>1, <1>4, OneSession
<1>5. CASE Set(s, [Idle EXCEPT !.pc = "act", !.next = "select-change"])
  <2> DEFINE new == [Idle EXCEPT !.pc = "act", !.next = "select-change"]
  <2>1. /\ new \in SessionStates /\ new.pc = "act" /\ new.change = None
        /\ new.next = "select-change"
    BY <1>2 DEF SessionStates, Steps, Idle, Answers, Blocked
  <2>2. Set(s, new)
    BY <1>5
  <2> HIDE DEF new
  <2> QED BY <1>4, <2>1, <2>2 DEF Blocked
<1>6. CASE Set(s, [asked EXCEPT !.pc = "export"])
  <2> DEFINE new == [asked EXCEPT !.pc = "export"]
  <2>1. /\ new \in SessionStates /\ new.pc = "export" /\ new.change = None
        /\ new.next = "sdd-new"
    BY <1>2 DEF SessionStates, Steps, Idle, Answers, Blocked
  <2>2. Set(s, new)
    BY <1>6
  <2> HIDE DEF new
  <2> QED BY <1>4, <2>1, <2>2 DEF Blocked
<1>7. CASE Set(s, [Idle EXCEPT !.pc = "act"])
  <2> DEFINE new == [Idle EXCEPT !.pc = "act"]
  <2>1. new \in SessionStates /\ new.pc = "act" /\ new.change = None /\ new.next = "sdd-new"
    BY <1>2 DEF SessionStates, Steps, Idle, Answers, Blocked
  <2>2. Set(s, new)
    BY <1>7
  <2> HIDE DEF new
  <2> QED BY <1>4, <2>1, <2>2 DEF Blocked
<1> QED BY <1>3, <1>5, <1>6, <1>7 DEF Ask

LEMMA ReadArtifactsIInv ==
  ASSUME IInv, NEW s \in Sessions, ReadArtifacts(s)
  PROVE  IInv'
<1> DEFINE f == files[session[s].change]
           st == IF f = None THEN Empty.state ELSE f.state
           new == [session[s] EXCEPT !.pc = "tasks", !.read.state = st]
<1>1. /\ TypeOK /\ ReadsTrue(s) /\ At(s, "artifacts")
      /\ Set(s, new) /\ UNCHANGED <<files, memory, edits>>
  BY DEF IInv, ReadArtifacts
<1>2. session[s].change \in Changes /\ session[s].store = "openspec"
  BY <1>1, TypeFacts DEF ReadsTrue
<1>3. f = None \/ f \in Folders
  BY <1>1, <1>2, TypeFacts
<1>4. st \in [Artifacts -> ArtifactStates]
  BY <1>3, FolderFields, EmptyIsReading DEF Readings
<1>5. session[s] \in SessionStates
  BY <1>1, TypeFacts
<1> HIDE DEF st
<1>6. /\ new \in SessionStates /\ new.pc = "tasks" /\ new.change = session[s].change
      /\ new.store = session[s].store /\ new.read.state = st
      /\ new.overtaken = session[s].overtaken
  BY <1>4, <1>5 DEF SessionStates, Steps, Readings
<1>7. ~new.overtaken => f # None /\ st = f.state
  BY <1>1, <1>6 DEF ReadsTrue, At, st
<1> HIDE DEF new
<1> QED BY <1>1, <1>2, <1>6, <1>7, ConstantsAssumption, OneSession

LEMMA ReadTasksIInv ==
  ASSUME IInv, NEW s \in Sessions, ReadTasks(s)
  PROVE  IInv'
<1> DEFINE f == files[session[s].change]
           none == f = None \/ session[s].read.state["tasks"] = "missing"
           n == IF none THEN 0 ELSE f.total
           k == IF none THEN 0 ELSE f.completed
           new == [session[s] EXCEPT !.pc = "report", !.read.total = n, !.read.completed = k]
<1>1. /\ TypeOK /\ ReadsTrue(s) /\ At(s, "tasks")
      /\ Set(s, new) /\ UNCHANGED <<files, memory, edits>>
  BY DEF IInv, ReadTasks
<1>2. session[s].change \in Changes /\ session[s].store = "openspec"
  BY <1>1, TypeFacts DEF ReadsTrue
<1>3. f = None \/ f \in Folders
  BY <1>1, <1>2, TypeFacts
<1>4. n \in 0..MaxTasks /\ k \in 0..MaxTasks
  BY <1>3, FolderFields, ConstantsAssumption
<1>5. session[s] \in SessionStates
  BY <1>1, TypeFacts
<1>6. ~session[s].overtaken =>
        f # None /\ session[s].read.state = f.state /\ n = f.total /\ k = f.completed
  <2> SUFFICES ASSUME ~session[s].overtaken
               PROVE  f # None /\ session[s].read.state = f.state /\ n = f.total /\ k = f.completed
    OBVIOUS
  <2>1. f # None /\ session[s].read.state = f.state
    BY <1>1 DEF ReadsTrue, At
  <2>2. f.state["tasks"] = "missing" => f.total = 0 /\ f.completed = 0
    BY <1>3, <2>1, FolderFields, ConstantsAssumption
  <2> QED BY <2>1, <2>2
<1> HIDE DEF n, k
<1>7. /\ new \in SessionStates /\ new.pc = "report" /\ new.change = session[s].change
      /\ new.store = session[s].store /\ new.read.state = session[s].read.state
      /\ new.read.total = n /\ new.read.completed = k
      /\ new.overtaken = session[s].overtaken
  BY <1>4, <1>5 DEF SessionStates, Steps, Readings
<1> HIDE DEF new
<1> QED BY <1>1, <1>2, <1>6, <1>7, ConstantsAssumption, OneSession

LEMMA ReadReportIInv ==
  ASSUME IInv, NEW s \in Sessions, ReadReport(s)
  PROVE  IInv'
<1> DEFINE f == files[session[s].change]
           p == f # None /\ session[s].read.state["verifyReport"] # "missing" /\ f.passing
           read == [session[s].read EXCEPT !.passing = p]
           new == Answer(s, Route(read))
<1>1. /\ TypeOK /\ ReadsTrue(s) /\ At(s, "report")
      /\ Set(s, new) /\ UNCHANGED <<files, memory, edits>>
  BY DEF IInv, ReadReport
<1>2. session[s].change \in Changes /\ session[s].store = "openspec"
  BY <1>1, TypeFacts DEF ReadsTrue
<1>3. f = None \/ f \in Folders
  BY <1>1, <1>2, TypeFacts
<1>4. session[s] \in SessionStates /\ session[s].read \in Readings
  BY <1>1, TypeFacts
<1>5. Route(read) \in Answers
  <2>1. Route(read) \in {"propose", "spec", "design", "tasks", "apply", "verify", "archive",
                         "resolve-blockers"}
    BY DEF Route, ResolveNextRecommended
  <2>2. \A i \in 1..7 : Order[i] \in Answers
    BY DEF Answers
  <2>3. \A x \in {"propose", "spec", "design", "tasks", "apply", "verify", "archive"} :
          \E i \in 1..7 : x = Order[i]
    BY DEF Order
  <2> QED BY <2>1, <2>2, <2>3 DEF Answers
<1>6. /\ new \in SessionStates /\ new.pc = "act" /\ new.next = Route(read)
      /\ new.change = session[s].change /\ new.store = session[s].store
      /\ new.overtaken = session[s].overtaken
  BY <1>4, <1>5, AnswerTyped
<1>7. ASSUME ~session[s].overtaken
      PROVE  f \in Folders /\ Route(read) = Route(f)
  <2>1. /\ f # None /\ f \in Folders /\ session[s].read.state = f.state
        /\ session[s].read.total = f.total /\ session[s].read.completed = f.completed
    BY <1>1, <1>3, <1>7 DEF ReadsTrue, At
  <2>2. f.passing \in BOOLEAN /\ (f.passing => f.state["verifyReport"] = "done")
    BY <2>1, FolderFields
  <2>3. p \in BOOLEAN /\ (p <=> f.passing)
    BY <1>3, <2>1, <2>2
  <2>4. p = f.passing
    BY <2>2, <2>3, Zenon
  <2> HIDE DEF p
  <2>5. /\ read.state = f.state /\ read.total = f.total /\ read.completed = f.completed
        /\ read.passing = f.passing
    BY <1>4, <2>1, <2>4 DEF Readings
  <2> HIDE DEF read, f
  <2> QED BY <2>1, <2>5, Zenon DEF Route
<1>8. ~new.overtaken => FirstGap(Folder(new.store, new.change), new.next)
  BY <1>2, <1>6, <1>7, RouteIsFirstGap DEF Folder
<1> HIDE DEF new
<1> QED BY <1>1, <1>2, <1>6, <1>8, ConstantsAssumption, OneSession

LEMMA ExportIInv ==
  ASSUME IInv, NEW s \in Sessions, Export(s)
  PROVE  IInv'
<1> DEFINE requested == session[s].asked
<1>1. TypeOK /\ ReadsTrue(s) /\ At(s, "export") /\ UNCHANGED <<files, memory, edits>>
  BY DEF IInv, Export
<1>2. session[s] \in SessionStates
  BY <1>1, TypeFacts
<1>3. ASSUME NEW next \in Blocked, Set(s, Answer(s, next)), session[s].change = None
      PROVE  IInv'
  <2> DEFINE new == Answer(s, next)
  <2>1. next \in Answers
    BY DEF Answers
  <2>2. new \in SessionStates /\ new.pc = "act" /\ new.next = next /\ new.change = None
    BY <1>2, <1>3, <2>1, AnswerTyped
  <2>3. Set(s, new)
    BY <1>3
  <2> HIDE DEF new
  <2> QED BY <1>1, <2>2, <2>3, OneSession
<1>4. ASSUME NEW c \in Pick(Remembered, requested),
             Set(s, [Answer(s, Route(memory[c])) EXCEPT !.change = c, !.store = "engram"])
      PROVE  IInv'
  <2> DEFINE answer == Answer(s, Route(memory[c]))
             new == [answer EXCEPT !.change = c, !.store = "engram"]
  <2>1. c \in Changes /\ memory[c] \in Folders
    BY <1>1, TypeFacts DEF Pick, Remembered
  <2>2. FirstGap(memory[c], Route(memory[c])) /\ Route(memory[c]) \in Answers
    BY <2>1, RouteIsFirstGap
  <2>3. answer \in SessionStates /\ answer.pc = "act" /\ answer.next = Route(memory[c])
    BY <1>2, <2>2, AnswerTyped
  <2> HIDE DEF answer
  <2>4. /\ new \in SessionStates /\ new.pc = "act" /\ new.next = Route(memory[c])
        /\ new.change = c /\ new.store = "engram"
    BY <2>1, <2>3 DEF SessionStates
  <2>5. Set(s, new)
    BY <1>4 DEF answer
  <2>6. FirstGap(Folder(new.store, new.change), new.next)
    BY <2>2, <2>4 DEF Folder
  <2> HIDE DEF new
  <2> QED BY <1>1, <2>1, <2>4, <2>5, <2>6, ConstantsAssumption, OneSession
<1>5. "sdd-new" \in Blocked /\ "select-change" \in Blocked
  BY DEF Blocked
<1>6. session[s].change = None
  BY <1>1 DEF IInv, ReadsTrue
<1> QED BY <1>3, <1>4, <1>5, <1>6 DEF Export

LEMMA LeaveIInv ==
  ASSUME IInv, NEW s \in Sessions, Leave(s)
  PROVE  IInv'
<1>1. Set(s, Idle) /\ UNCHANGED <<files, memory, edits>>
  BY DEF Leave
<1>2. Idle.pc = "idle"
  BY DEF Idle
<1> QED BY <1>1, <1>2, IdleTyped, OneSession

(* A step of the agents or the user that touches one change in a store.    *)
LEMMA Touching ==
  ASSUME IInv, TypeOK', NEW store, NEW c \in Changes, NEW except,
         session' = Overtake(store, c, except),
         \/ /\ store = "openspec" /\ UNCHANGED memory
            /\ \A d \in Changes \ {c} : files'[d] = files[d]
         \/ /\ store = "engram" /\ UNCHANGED files
            /\ \A d \in Changes \ {c} : memory'[d] = memory[d]
  PROVE  IInv'
<1>1. TypeOK /\ \A q \in Sessions : ReadsTrue(q) /\ Acts(q)
  BY DEF IInv
<1> SUFFICES ASSUME NEW q \in Sessions PROVE ReadsTrue(q)' /\ Acts(q)'
  BY DEF IInv
<1>2. CASE session'[q] = Idle
  BY <1>2 DEF ReadsTrue, Acts, At, Idle
<1>3. CASE /\ session'[q] = [session[q] EXCEPT !.overtaken = session'[q].overtaken]
           /\ ~session'[q].overtaken
                => ~session[q].overtaken /\ ~(session[q].store = store /\ session[q].change = c)
  <2>1. session[q] \in SessionStates /\ session[q].change \in Changes \cup {None}
        /\ session[q].store \in {"openspec", "engram"}
    BY <1>1, TypeFacts
  <2>2. /\ session'[q].pc = session[q].pc /\ session'[q].change = session[q].change
        /\ session'[q].store = session[q].store /\ session'[q].next = session[q].next
        /\ session'[q].read = session[q].read
    BY <1>3, <2>1 DEF SessionStates
  <2>3. ASSUME ~session'[q].overtaken, session[q].change # None
        PROVE  Folder(session[q].store, session[q].change)'
                 = Folder(session[q].store, session[q].change)
    BY <1>3, <2>1, <2>2, <2>3 DEF Folder
  <2>4. ASSUME ~session'[q].overtaken, session[q].change # None, session[q].store = "openspec"
        PROVE  files'[session[q].change] = files[session[q].change]
    BY <1>3, <2>1, <2>4
  <2>5. Acts(q)'
    BY <1>1, <1>3, <2>2, <2>3 DEF Acts, At
  <2>6. ReadsTrue(q)'
    BY <1>1, <1>3, <2>2, <2>4 DEF ReadsTrue, At
  <2> QED BY <2>5, <2>6
<1> QED BY <1>1, <1>2, <1>3, OvertakeSessions

LEMMA PerformIInv ==
  ASSUME IInv, NEW s \in Sessions, Perform(s)
  PROVE  IInv'
<1> DEFINE c == session[s].change
           f == IF files[c] # None THEN files[c] ELSE Folder(session[s].store, c)
           phase == session[s].next
           before == IF f = None THEN Empty ELSE f
<1>1. /\ TypeOK /\ ReadsTrue(s) /\ At(s, "act") /\ phase \notin Blocked
      /\ session' = Overtake("openspec", c, s) /\ UNCHANGED <<memory, edits>>
  BY DEF IInv, Perform
<1>2. c \in Changes
  BY <1>1, TypeFacts DEF ReadsTrue
<1>3. f = None \/ f \in Folders
  BY <1>1, <1>2, TypeFacts DEF Folder
<1>4. before \in Folders
  BY <1>3, EmptyIsFolder
<1>5. \/ files' = [files EXCEPT ![c] = None]
      \/ files' = files
      \/ \E g \in Worked(before, phase) : files' = [files EXCEPT ![c] = g]
  BY DEF Perform
<1>6. \E g \in Folders \cup {None} : files' = [files EXCEPT ![c] = g]
  <2>1. CASE files' = files
    BY <1>1, <1>2, <2>1 DEF TypeOK
  <2> QED BY <1>4, <1>5, <2>1, WorkedIsFolder
<1>7. TypeOK'
  <2>1. session' \in [Sessions -> SessionStates]
    BY <1>1, OvertakeSessions
  <2> QED BY <1>1, <1>6, <2>1 DEF TypeOK
<1>8. \A d \in Changes \ {c} : files'[d] = files[d]
  BY <1>1, <1>6 DEF TypeOK
<1> QED BY <1>1, <1>2, <1>7, <1>8, Touching

LEMMA EditIInv ==
  ASSUME IInv, NEW c \in Changes, Edit(c)
  PROVE  IInv'
<1>1. /\ TypeOK /\ edits < MaxEdits /\ edits' = edits + 1
      /\ session' = Overtake("openspec", c, None) /\ UNCHANGED memory
  BY DEF IInv, Edit
<1>2. PICK g \in Folders \cup {None} : files' = [files EXCEPT ![c] = g]
  BY EmptyIsFolder DEF Edit, Touched
<1>3. TypeOK'
  <2>1. session' \in [Sessions -> SessionStates]
    BY <1>1, OvertakeSessions
  <2>2. edits' \in 0..MaxEdits
    BY <1>1, ConstantsAssumption DEF TypeOK
  <2> QED BY <1>1, <1>2, <2>1, <2>2 DEF TypeOK
<1>4. \A d \in Changes \ {c} : files'[d] = files[d]
  BY <1>1, <1>2 DEF TypeOK
<1> QED BY <1>1, <1>3, <1>4, Touching

LEMMA ShareIInv ==
  ASSUME IInv, NEW c \in Changes, Share(c)
  PROVE  IInv'
<1>1. /\ TypeOK /\ edits < MaxEdits /\ edits' = edits + 1 /\ files[c] # None
      /\ memory' = [memory EXCEPT ![c] = files[c]]
      /\ session' = Overtake("engram", c, None) /\ UNCHANGED files
  BY DEF IInv, Share
<1>2. files[c] \in Folders
  BY <1>1, TypeFacts
<1>3. TypeOK'
  <2>1. session' \in [Sessions -> SessionStates]
    BY <1>1, OvertakeSessions
  <2>2. edits' \in 0..MaxEdits
    BY <1>1, ConstantsAssumption DEF TypeOK
  <2> QED BY <1>1, <1>2, <2>1, <2>2 DEF TypeOK
<1>4. \A d \in Changes \ {c} : memory'[d] = memory[d]
  BY <1>1 DEF TypeOK
<1> QED BY <1>1, <1>3, <1>4, Touching

LEMMA StepIInv == IInv /\ [Next]_vars => IInv'
<1> SUFFICES ASSUME IInv, [Next]_vars PROVE IInv'
  OBVIOUS
<1>1. ASSUME NEW s \in Sessions, Engine(s) PROVE IInv'
  BY <1>1, ReadArtifactsIInv, ReadTasksIInv, ReadReportIInv, ExportIInv, PerformIInv, LeaveIInv
     DEF Engine
<1>2. ASSUME NEW s \in Sessions, NEW requested \in Changes \cup {None}, Ask(s, requested)
      PROVE  IInv'
  BY <1>2, AskIInv
<1>3. ASSUME NEW c \in Changes, Edit(c) \/ Share(c) PROVE IInv'
  BY <1>3, EditIInv, ShareIInv
<1>4. CASE UNCHANGED vars
  BY <1>4 DEF vars, IInv, TypeOK, ReadsTrue, Acts, At, Folder
<1> QED BY <1>1, <1>2, <1>3, <1>4 DEF Next
------------------------------------------------------------------------------
(* The inductive invariant: what the engine has read so far of a change    *)
(* that nobody has touched is what is in its folder, and the answer an     *)
(* agent acts on is the first gap of it (internal/sddstatus/status.go).    *)
THEOREM Invariance == Spec => []IInv
BY InitIInv, StepIInv, PTL DEF Spec

(* Folders, observations and sessions keep their types.                    *)
THEOREM TypeCorrect == Spec => []TypeOK
<1>1. IInv => TypeOK
  BY DEF IInv
<1> QED BY <1>1, Invariance, PTL

(* Every answer that nothing has overtaken names the first phase whose     *)
(* result the change does not show, whichever store it comes from: for any *)
(* number of sessions, changes, tasks and edits.                           *)
THEOREM RoutesToFirstGapAlways == Spec => []RoutesToFirstGap
<1>1. IInv => RoutesToFirstGap
  BY DEF IInv, Acts, RoutesToFirstGap
<1> QED BY <1>1, Invariance, PTL
=============================================================================
