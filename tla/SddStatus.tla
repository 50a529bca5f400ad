------------------------------- MODULE SddStatus -------------------------------
(***************************************************************************)
(* The SDD status engine (internal/sddstatus): `sdd-status' lists the      *)
(* changes under openspec/changes, reads the artifacts of one, and names   *)
(* the next phase; when no folder fits it falls back to the observations   *)
(* in Engram.  A coordinating agent performs the phase it is told, and     *)
(* asks again.  Sessions of several agents and the user work on the same   *)
(* files, and the engine reads them one by one.                            *)
(***************************************************************************)
EXTENDS Naturals, FiniteSets

CONSTANTS Sessions,  \* agents, each of which asks the engine and acts on its answer
          Changes,   \* names of changes
          None,      \* no change, no folder
          MaxTasks,  \* bound on the checkboxes of a tasks.md
          MaxEdits   \* bound on edits of the user and phases done badly

ASSUME ConstantsAssumption ==
  /\ None \notin Changes
  /\ MaxTasks \in Nat \ {0} /\ MaxEdits \in Nat

VARIABLES files,    \* the folder of each change under openspec/changes
          memory,   \* the observations sdd/<change>/... in Engram
          session,  \* what each session has been told, or the engine has read for it
          edits

vars == <<files, memory, session, edits>>
------------------------------------------------------------------------------
(* Artifacts.                                                              *)
Planning == {"proposal", "specs", "design", "tasks"}
Artifacts == Planning \cup {"applyProgress", "verifyReport"}
ArtifactStates == {"missing", "partial", "done"}

(* The artifacts of a change, the checkboxes in its tasks.md, and whether  *)
(* its report is clearly passing.  A blank file has neither.               *)
Readings == [state : [Artifacts -> ArtifactStates],
             total : 0..MaxTasks, completed : 0..MaxTasks, passing : BOOLEAN]
Folders ==
  {f \in Readings :
     /\ f.completed <= f.total
     /\ f.total > 0 => f.state["tasks"] = "done"
     /\ f.passing => f.state["verifyReport"] = "done"}

Empty == [state |-> [a \in Artifacts |-> "missing"], total |-> 0, completed |-> 0,
          passing |-> FALSE]

(* The state machine of phases.                                            *)
CoreReady(state, total) == (\A a \in Planning : state[a] = "done") /\ total > 0

ResolveApplyState(coreReady, total, completed) ==
  IF ~coreReady THEN "blocked" ELSE IF completed = total THEN "all_done" ELSE "ready"

PlanningDependency(prereqsDone, own) ==
  IF own = "done" THEN "all_done" ELSE IF prereqsDone THEN "ready" ELSE "blocked"

(* A done report settles verification whatever it says.                    *)
MutResolveVerify(state, coreReady, allComplete, passing) ==
  IF state["verifyReport"] = "done" /\ coreReady /\ allComplete THEN "all_done"
  ELSE IF coreReady /\ (allComplete \/ state["applyProgress"] = "done") THEN "ready" ELSE "blocked"

ResolveVerify(state, coreReady, allComplete, passing) ==
  IF state["verifyReport"] = "done" /\ coreReady /\ allComplete /\ passing THEN "all_done"
  ELSE IF coreReady /\ (allComplete \/ state["applyProgress"] = "done") THEN "ready" ELSE "blocked"

ResolveDependencies(state, total, completed, passing) ==
  LET coreReady == CoreReady(state, total)
      apply == ResolveApplyState(coreReady, total, completed)
      verify == ResolveVerify(state, coreReady, total > 0 /\ completed = total, passing)
  IN  [proposal |-> PlanningDependency(TRUE, state["proposal"]),
       specs    |-> PlanningDependency(state["proposal"] = "done", state["specs"]),
       design   |-> PlanningDependency(state["proposal"] = "done", state["design"]),
       tasks    |-> PlanningDependency(state["specs"] = "done" /\ state["design"] = "done",
                                       state["tasks"]),
       apply    |-> apply,
       verify   |-> verify,
       archive  |-> IF verify = "all_done" THEN "ready" ELSE "blocked"]

(* Verification comes before implementation.                               *)
MutResolveNextRecommended(d) ==
  IF d.proposal = "ready" THEN "propose"
  ELSE IF d.specs = "ready" THEN "spec"
  ELSE IF d.design = "ready" THEN "design"
  ELSE IF d.tasks = "ready" THEN "tasks"
  ELSE IF d.verify = "ready" THEN "verify"
  ELSE IF d.apply = "ready" THEN "apply"
  ELSE IF d.verify = "all_done" /\ d.apply = "all_done" THEN "archive"
  ELSE "resolve-blockers"

ResolveNextRecommended(d) ==
  IF d.proposal = "ready" THEN "propose"
  ELSE IF d.specs = "ready" THEN "spec"
  ELSE IF d.design = "ready" THEN "design"
  ELSE IF d.tasks = "ready" THEN "tasks"
  ELSE IF d.apply = "ready" THEN "apply"
  ELSE IF d.verify = "ready" THEN "verify"
  ELSE IF d.verify = "all_done" /\ d.apply = "all_done" THEN "archive"
  ELSE "resolve-blockers"

Route(f) ==
  ResolveNextRecommended(ResolveDependencies(f.state, f.total, f.completed, f.passing))

(* The reference: the phases in order, and which of them a folder shows to *)
(* be finished.                                                            *)
Order == <<"propose", "spec", "design", "tasks", "apply", "verify", "archive">>
Finished(f) ==
  <<f.state["proposal"] = "done", f.state["specs"] = "done", f.state["design"] = "done",
    f.state["tasks"] = "done", f.completed = f.total, f.passing, FALSE>>

FirstGap(f, next) ==
  \/ /\ next = "resolve-blockers"
     /\ f.total = 0 /\ \A i \in 1..4 : Finished(f)[i]
  \/ \E i \in 1..7 :
       /\ next = Order[i]
       /\ ~Finished(f)[i] /\ \A j \in 1..(i - 1) : Finished(f)[j]
       /\ i > 4 => f.total > 0
------------------------------------------------------------------------------
(* A session: what the engine has read so far, then its answer.  overtaken *)
(* is history: the change was touched since the engine began to read it.   *)
Blocked == {"sdd-new", "select-change"}
Answers == {Order[i] : i \in 1..7} \cup {"resolve-blockers"} \cup Blocked
Steps == {"idle", "artifacts", "tasks", "report", "export", "act"}
SessionStates ==
  [pc : Steps, asked : Changes \cup {None}, change : Changes \cup {None},
   store : {"openspec", "engram"}, read : Readings, next : Answers, overtaken : BOOLEAN]

Idle == [pc |-> "idle", asked |-> None, change |-> None, store |-> "openspec", read |-> Empty,
         next |-> "sdd-new", overtaken |-> FALSE]

Init ==
  /\ files \in [Changes -> {None, Empty}]
  /\ memory \in [Changes -> {None}]
  /\ session = [s \in Sessions |-> Idle]
  /\ edits = 0

At(s, pc) == session[s].pc = pc
Active == {c \in Changes : files[c] # None}
Remembered == {c \in Changes : memory[c] # None}
Set(s, new) == session' = [session EXCEPT ![s] = new]
Answer(s, next) == [session[s] EXCEPT !.pc = "act", !.asked = None, !.read = Empty, !.next = next]

(* selectChange: the change that was asked for, or the only one.           *)
Pick(changes, requested) == {c \in changes : c = requested \/ (requested = None /\ changes = {c})}

(* Resolve lists the folders; without a match it may turn to Engram.       *)
Ask(s, requested) ==
  LET asked == [Idle EXCEPT !.asked = requested]
  IN  /\ At(s, "idle")
      /\ \/ \E c \in Pick(Active, requested) :
              Set(s, [asked EXCEPT !.pc = "artifacts", !.change = c])
         \/ /\ requested = None /\ Cardinality(Active) > 1
            /\ Set(s, [Idle EXCEPT !.pc = "act", !.next = "select-change"])
         \/ /\ Pick(Active, requested) = {} /\ ~(requested = None /\ Cardinality(Active) > 1)
            /\ Set(s, [asked EXCEPT !.pc = "export"]) \/ Set(s, [Idle EXCEPT !.pc = "act"])
      /\ UNCHANGED <<files, memory, edits>>

ReadArtifacts(s) ==
  LET f == files[session[s].change]
  IN  /\ At(s, "artifacts")
      /\ Set(s, [session[s] EXCEPT !.pc = "tasks",
                   !.read.state = IF f = None THEN Empty.state ELSE f.state])
      /\ UNCHANGED <<files, memory, edits>>

(* A file that was missing is not read again.                              *)
ReadTasks(s) ==
  LET f == files[session[s].change]
      none == f = None \/ session[s].read.state["tasks"] = "missing"
  IN  /\ At(s, "tasks")
      /\ Set(s, [session[s] EXCEPT !.pc = "report",
                   !.read.total = IF none THEN 0 ELSE f.total,
                   !.read.completed = IF none THEN 0 ELSE f.completed])
      /\ UNCHANGED <<files, memory, edits>>

ReadReport(s) ==
  LET f == files[session[s].change]
      read == [session[s].read EXCEPT !.passing =
                 f # None /\ session[s].read.state["verifyReport"] # "missing" /\ f.passing]
  IN  /\ At(s, "report")
      /\ Set(s, Answer(s, Route(read)))
      /\ UNCHANGED <<files, memory, edits>>

(* resolveEngramStatus: one export holds all observations; it may fail.    *)
Export(s) ==
  LET requested == session[s].asked
  IN  /\ At(s, "export")
      /\ \/ Set(s, Answer(s, "sdd-new"))
         \/ /\ requested = None /\ Cardinality(Remembered) > 1
            /\ Set(s, Answer(s, "select-change"))
         \/ \E c \in Pick(Remembered, requested) :
              Set(s, [Answer(s, Route(memory[c])) EXCEPT
                        !.change = c, !.store = "engram"])
      /\ UNCHANGED <<files, memory, edits>>
------------------------------------------------------------------------------
(* The agents and the user, who are not part of the program.               *)
Overtake(store, c, except) ==
  [s \in Sessions |->
     IF s = except THEN Idle
     ELSE [session[s] EXCEPT !.overtaken = @ \/ (session[s].store = store /\ session[s].change = c)]]

(* What a phase makes of a folder when it succeeds.                        *)
Write(f, a) == [f EXCEPT !.state[a] = "done"]
Worked(f, phase) ==
  CASE phase = "propose" -> {Write(f, "proposal")}
    [] phase = "spec" -> {Write(f, "specs")}
    [] phase = "design" -> {Write(f, "design")}
    [] phase \in {"tasks", "resolve-blockers"} ->
         {[Write(f, "tasks") EXCEPT !.total = n, !.completed = 0] : n \in 1..MaxTasks}
    [] phase = "apply" ->
         {[Write(f, "applyProgress") EXCEPT !.completed = n] :
            n \in {m \in 0..f.total : m > f.completed \/ m = f.total}}
    [] phase = "verify" -> {[Write(f, "verifyReport") EXCEPT !.passing = TRUE]}
    [] OTHER -> {f}

(* Writing any one artifact, or ticking and opening tasks.                 *)
Touched(f) ==
  {g \in Folders :
     \E a \in Artifacts, new \in ArtifactStates :
       /\ g.state = [f.state EXCEPT ![a] = new]
       /\ a # "tasks" => g.total = f.total /\ g.completed = f.completed
       /\ a # "verifyReport" => g.passing = f.passing}

Folder(store, c) == IF store = "openspec" THEN files[c] ELSE memory[c]

(* An agent performs the phase.  Engram is only read: what it remembers of *)
(* a change goes on as a folder, and a folder that is gone is only         *)
(* proposed anew.  An archived change leaves openspec/changes.             *)
Perform(s) ==
  LET c == session[s].change
      f == IF files[c] # None THEN files[c] ELSE Folder(session[s].store, c)
      phase == session[s].next
  IN  /\ At(s, "act") /\ phase \notin Blocked
      /\ IF phase = "archive" THEN files' = [files EXCEPT ![c] = None]
         ELSE IF f = None /\ phase # "propose" THEN UNCHANGED files
         ELSE \E g \in Worked(IF f = None THEN Empty ELSE f, phase) : files' = [files EXCEPT ![c] = g]
      /\ session' = Overtake("openspec", c, s)
      /\ UNCHANGED <<memory, edits>>

Leave(s) ==
  /\ At(s, "act") /\ session[s].next \in Blocked
  /\ Set(s, Idle)
  /\ UNCHANGED <<files, memory, edits>>

(* The user edits, makes or moves a folder, or a phase leaves a mess.      *)
Edit(c) ==
  /\ edits < MaxEdits
  /\ edits' = edits + 1
  /\ \E f \in IF files[c] = None THEN {Empty} ELSE Touched(files[c]) \cup {None} :
       files' = [files EXCEPT ![c] = f]
  /\ session' = Overtake("openspec", c, None)
  /\ UNCHANGED memory

(* Artifacts are shared: another machine's observations arrive.            *)
Share(c) ==
  /\ edits < MaxEdits
  /\ edits' = edits + 1
  /\ files[c] # None
  /\ memory' = [memory EXCEPT ![c] = files[c]]
  /\ session' = Overtake("engram", c, None)
  /\ UNCHANGED files

Engine(s) ==
  \/ ReadArtifacts(s) \/ ReadTasks(s) \/ ReadReport(s) \/ Export(s)
  \/ Perform(s) \/ Leave(s)

Next ==
  \/ \E s \in Sessions : Engine(s) \/ \E requested \in Changes \cup {None} : Ask(s, requested)
  \/ \E c \in Changes : Edit(c) \/ Share(c)

(* The engine answers, an agent acts on its answer, and no change is       *)
(* forgotten.                                                              *)
Fairness ==
  /\ \A s \in Sessions : WF_vars(Engine(s))
  /\ \A c \in Changes : SF_vars(\E s \in Sessions : Ask(s, c))

Spec == Init /\ [][Next]_vars /\ Fairness
------------------------------------------------------------------------------
(* Every variable has its type, and a folder is one that can exist.        *)
TypeOK ==
  /\ files \in [Changes -> Folders \cup {None}]
  /\ memory \in [Changes -> Folders \cup {None}]
  /\ session \in [Sessions -> SessionStates]
  /\ edits \in 0..MaxEdits

(* Whichever store it comes from, an answer that nothing has overtaken     *)
(* names the first phase in order whose result the change does not show:   *)
(* a change is archived only when all of its phases are finished.          *)
RoutesToFirstGap ==
  \A s \in Sessions :
    At(s, "act") /\ session[s].change # None /\ ~session[s].overtaken
      => FirstGap(Folder(session[s].store, session[s].change), session[s].next)

(* However often the user undoes, empties and reopens what is finished,    *)
(* agents that follow the engine archive every active change.              *)
FollowedToArchive ==
  \A c \in Changes : files[c] # None ~> files[c] = None
==============================================================================
