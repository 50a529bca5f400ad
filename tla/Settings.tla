-------------------------------- MODULE Settings --------------------------------
(***************************************************************************)
(* The settings capiko keeps in ~/.capiko/state.json and wires into files  *)
(* it shares with the user: blocks of copilot-instructions.md, entries of  *)
(* mcp-config.json and mcp.json, Copilot hook files, blocks of git hooks.  *)
(* Each screen or command is a program: a sequence of steps, each of which *)
(* reads a whole file and writes it back with one section changed.         *)
(* Nothing locks a file, a step may fail, and a process may die between    *)
(* any two steps.  state.json is one more shared file, its fields sections.*)
(***************************************************************************)
EXTENDS Sequences, Naturals

CONSTANTS Procs,        \* capiko processes
          Interactive,  \* those that show the terminal UI
          Repos,        \* repositories a command may run in
          Personas,
          Absent,       \* no such section, no such file
          MaxMoves      \* bound on commands and edits, a last sync apart

ASSUME ConstantsAssumption ==
  MaxMoves \in Nat /\ Interactive \subseteq Procs /\ "none" \notin Personas

VARIABLES disk,    \* the content of every section of every file
          routed,  \* how the agent catalog of a process is routed
          cmd,     \* the command a process runs
          todo,    \* the steps it still has to take
          buf,     \* what it has read and not written back yet
          blind,   \* it went on past an error
          alone,   \* history: no other process ran since it started
          before,  \* history: the settings when a sync started alone
          synced,  \* history: a sync or a repair, run alone, was the last to end
          calm,    \* history: no error, crash, overlap, edit or purge behind it
          moves

run == <<cmd, todo, buf, blind>>
history == <<alone, before, synced, calm>>
vars == <<disk, routed, run, history, moves>>
------------------------------------------------------------------------------
(* Sections.  A section is named by its file and its key in that file; the *)
(* sections of a shared file are read and written together.                *)
Block(n) == <<"instructions", n>>
Server(n) == <<"mcp", n>>
Field(n) == <<"state", n>>
CopilotHook(n) == <<"hooks", n>>
GitHook(r, n) == <<r, n>>
Gate(r, n) == <<r, n>>
Workspace(r) == <<r, "mcp.json">>
UserMcp == <<"home", "mcp.json">>
Modules == <<"home", "modules">>
Agents == <<"home", "agents">>

SharedFiles == {"state", "instructions", "mcp"}
Files == SharedFiles \cup {"hooks", "home"} \cup Repos

HookFiles == <<"guardrails", "sessioncheck", "sessionprobe", "promptcapture", "toolmonitor">>
HookNames == {HookFiles[i] : i \in 1..5}
GitHookNames == {"pre-commit", "post-commit", "post-merge", "pre-push"}
GateNames == {"pre-commit gate", "pre-push gate"}
Switches == {"trigger", "efficiency", "headroom", "odd", "modular"}
FieldNames == Switches \cup {"persona", "models", "efforts", "workflow", "engram",
                             "hooks", "team", "cga", "agents"}

Keys(f) ==
  CASE f = "state" -> FieldNames
    [] f = "instructions" -> {"persona", "sdd", "odd", "trigger", "memory", "headroom", "efficiency"}
    [] f = "mcp" -> {"engram", "headroom"}
    [] f = "hooks" -> HookNames
    [] f = "home" -> {"mcp.json", "modules", "agents"}
    [] OTHER -> GitHookNames \cup GateNames \cup {"mcp.json"}

(* The keys in one file with a section: of the git hooks, the review gate  *)
(* shares pre-commit with CGA and pre-push with the team's memory.         *)
SharedHooks == {{"pre-commit", "pre-commit gate"}, {"pre-push", "pre-push gate"}}
Together(c) ==
  IF c[1] \in SharedFiles THEN Keys(c[1])
  ELSE {c[2]} \cup UNION {K \in SharedHooks : c[1] \in Repos /\ c[2] \in K}
Shared(c) == Together(c) # {c[2]}

Sections == UNION {{f} \X Keys(f) : f \in Files}

Assignments == {"none", "default", "custom"}
Routings == {"plain", "custom"}
Postures == {"off", "warn", "strict"}
Scopes == {"off", "workspace", "user"}
Layouts == [rdd : BOOLEAN, modular : BOOLEAN]

(* The engram record names one project, the base name of its repository.  *)
FieldValues(n) ==
  CASE n \in Switches -> BOOLEAN
    [] n = "persona" -> Personas \cup {"none"}
    [] n \in {"models", "efforts"} -> Assignments
    [] n = "workflow" -> {"none", "sdd", "odd"}
    [] n = "engram" -> [on : BOOLEAN, scope : Scopes, at : Repos \cup {Absent}]
    [] n = "hooks" -> Postures
    [] n = "team" -> [on : BOOLEAN, at : Repos, conflict : BOOLEAN] \cup {Absent}
    [] n = "cga" -> [on : BOOLEAN, at : Repos] \cup {Absent}
    [] n = "agents" -> Routings \cup {Absent}

Contents(f, n) ==
  CASE f = "state" -> FieldValues(n)
    [] <<f, n>> = Agents -> Routings \cup {Absent}
    [] <<f, n>> = Block("persona") -> Personas \cup {Absent}
    [] <<f, n>> = Block("sdd") -> (Assignments \X Assignments) \cup {Absent}
    [] <<f, n>> = Block("odd") -> Layouts \cup {Absent}
    [] <<f, n>> = Modules -> BOOLEAN \cup {Absent}
    [] <<f, n>> = CopilotHook("guardrails") -> {"warn", "strict", Absent}
    [] f \in Repos /\ n = "pre-commit" -> Personas \cup {"none", Absent}
    [] OTHER -> {"on", Absent}

(* A repository is not one of the files above, and Absent not a content.   *)
ASSUME NamesAssumption ==
  /\ Repos \cap {"state", "instructions", "mcp", "hooks", "home"} = {}
  /\ Absent \notin {"on"} \cup Routings \cup Postures \cup Personas \cup {"none"}
  /\ Absent \notin BOOLEAN /\ Absent \notin Assignments \X Assignments
  /\ Absent \notin Layouts \cup [on : BOOLEAN, at : Repos]
  /\ Absent \notin [on : BOOLEAN, at : Repos, conflict : BOOLEAN]

EmptyState ==
  [n \in FieldNames |->
     CASE n \in Switches -> FALSE
       [] n = "engram" -> [on |-> FALSE, scope |-> "off", at |-> Absent]
       [] n = "hooks" -> "off"
       [] n \in {"team", "cga", "agents"} -> Absent
       [] OTHER -> "none"]

EmptyDisk ==
  [f \in Files |-> IF f = "state" THEN EmptyState ELSE [n \in Keys(f) |-> Absent]]

At(d, c) == d[c[1]][c[2]]
St(d, n) == d["state"][n]
Idle(p) == cmd[p] = "none"
AllIdle == \A p \in Procs : Idle(p)

(* A default assignment strips the model line, none adds none.             *)
WithRouting(models) == IF models = "custom" THEN "custom" ELSE "plain"
------------------------------------------------------------------------------
(* Steps and programs.                                                     *)
Put(c, v) == <<[do |-> "put", at |-> c, val |-> v]>>
Drop(c) == Put(c, Absent)
Record(n, v) == Put(Field(n), v)
Wipe == <<[do |-> "wipe"]>>
Load(plan) == <<[do |-> "load", plan |-> plan, at |-> Absent]>>
LoadIn(plan, r) == <<[do |-> "load", plan |-> plan, at |-> r]>>
When(b, program) == IF b THEN program ELSE <<>>
Wired(on) == IF on THEN "on" ELSE Absent

ApplyPersona(v) == Put(Block("persona"), v) \o Record("persona", v)

ApplyOutputEfficiency(on) == Put(Block("efficiency"), Wired(on)) \o Record("efficiency", on)

ApplyTriggerRules(on) == Put(Block("trigger"), Wired(on)) \o Record("trigger", on)

ApplyMemoryProtocol(on) == Put(Block("memory"), Wired(on))

(* The efforts stand for the efforts, strict TDD and the fallback models.  *)
ApplySDD(models, efforts) ==
  Put(Block("sdd"), <<models, efforts>>) \o Record("models", models) \o Record("efforts", efforts)

(* The layout is not passed on: the flag is reset.                         *)
MutApplyODD(rdd, modular) ==
  Put(Block("odd"), [rdd |-> rdd, modular |-> FALSE]) \o Drop(Modules)
    \o Record("odd", TRUE) \o Record("modular", FALSE)

ApplyODD(rdd, modular) ==
  Put(Block("odd"), [rdd |-> rdd, modular |-> modular])
    \o Put(Modules, IF modular THEN rdd ELSE Absent)
    \o Record("odd", TRUE) \o Record("modular", modular)

MigrateSddToOdd == Drop(Block("sdd"))

(* The record is saved before the entry is merged.                         *)
MutApplyEngram(rec) == Record("engram", rec) \o Put(Server("engram"), "on")
ApplyEngram(rec) == Put(Server("engram"), "on") \o Record("engram", rec)

DisableEngram(r, rec) ==
  Drop(Server("engram")) \o Drop(Workspace(r)) \o Drop(UserMcp)
    \o ApplyMemoryProtocol(FALSE) \o Record("engram", rec)

(* The record is saved before the guidance and the editor are wired.       *)
ApplyEngramConfig(r, rec) ==
  IF ~rec.on THEN DisableEngram(r, rec)
  ELSE ApplyEngram(rec) \o ApplyMemoryProtocol(TRUE)
         \o When(rec.scope = "workspace", Put(Workspace(r), "on"))
         \o When(rec.scope = "user", Put(UserMcp, "on"))

(* Disabling forgets the guidance that was paired with the server.         *)
MutApplyHeadroom(on) ==
  Put(Server("headroom"), Wired(on)) \o When(on, Put(Block("headroom"), "on"))
    \o Record("headroom", on)

ApplyHeadroom(on) ==
  Put(Server("headroom"), Wired(on)) \o Put(Block("headroom"), Wired(on)) \o Record("headroom", on)

ApplyTeamSync(r, conflict) ==
  When(~conflict, Put(GitHook(r, "post-merge"), "on") \o Put(GitHook(r, "pre-push"), "on"))
    \o Record("team", [on |-> TRUE, at |-> r, conflict |-> conflict])

DisableTeamSync(r) ==
  Drop(GitHook(r, "post-merge")) \o Drop(GitHook(r, "pre-push"))
    \o Record("team", [on |-> FALSE, at |-> r, conflict |-> FALSE])

(* The guardrails file is rewritten with the posture, also when it is off. *)
MutApplyCopilotHooks(posture) ==
  Put(CopilotHook("guardrails"), posture) \o Record("hooks", posture)

ApplyCopilotHooks(posture) ==
  LET hook(i) == CopilotHook(HookFiles[i])
      on == Wired(posture # "off")
  IN  Put(hook(1), IF posture = "off" THEN Absent ELSE posture)
        \o Put(hook(2), on) \o Put(hook(3), on) \o Put(hook(4), on) \o Put(hook(5), on)
        \o Record("hooks", posture)

(* The hook is frozen with the persona recorded when it is rendered.       *)
WriteCGA(r, persona) ==
  Put(GitHook(r, "pre-commit"), persona) \o Put(GitHook(r, "post-commit"), "on")
    \o Record("cga", [on |-> TRUE, at |-> r])

DisableCGA(r) ==
  Drop(GitHook(r, "pre-commit")) \o Drop(GitHook(r, "post-commit"))
    \o Record("cga", [on |-> FALSE, at |-> r])

(* review gate install, and uninstall.                                     *)
WriteGate(r, v) == Put(Gate(r, "pre-commit gate"), v) \o Put(Gate(r, "pre-push gate"), v)

SwitchToSDD ==
  Drop(Block("odd")) \o Drop(Modules) \o ApplySDD("default", "default") \o Record("workflow", "sdd")

SwitchToODD == Drop(Block("sdd")) \o Load("odd")

OrDefault(assignment) == IF assignment = "none" THEN "default" ELSE assignment

(* Everything but the engram record is taken to follow the MCP server.     *)
MutSyncPlan(d) ==
  When(St(d, "persona") # "none", ApplyPersona(St(d, "persona")))
    \o (IF St(d, "workflow") = "sdd"
        THEN ApplySDD(OrDefault(St(d, "models")), OrDefault(St(d, "efforts")))
        ELSE When(~St(d, "odd") /\ St(d, "models") # "none", MigrateSddToOdd)
               \o ApplyODD(St(d, "trigger"), St(d, "modular")))
    \o When(St(d, "trigger"), ApplyTriggerRules(TRUE))
    \o When(St(d, "engram").on, ApplyEngram(St(d, "engram")))
    \o When(St(d, "efficiency"), ApplyOutputEfficiency(TRUE))
    \o When(St(d, "headroom"), ApplyHeadroom(TRUE))
    \o When(St(d, "hooks") # "off", ApplyCopilotHooks(St(d, "hooks")))
    \o When(St(d, "cga") # Absent /\ St(d, "cga").on, LoadIn("cga", St(d, "cga").at))

(* The second half of RunSync, from the settings d it has loaded.          *)
SyncPlan(d) ==
  When(St(d, "persona") # "none", ApplyPersona(St(d, "persona")))
    \o (IF St(d, "workflow") = "sdd"
        THEN ApplySDD(OrDefault(St(d, "models")), OrDefault(St(d, "efforts")))
        ELSE When(~St(d, "odd") /\ St(d, "models") # "none", MigrateSddToOdd)
               \o ApplyODD(St(d, "trigger"), St(d, "modular")))
    \o When(St(d, "trigger"), ApplyTriggerRules(TRUE))
    \o When(St(d, "engram").on, ApplyEngram(St(d, "engram")) \o ApplyMemoryProtocol(TRUE))
    \o When(St(d, "efficiency"), ApplyOutputEfficiency(TRUE))
    \o When(St(d, "headroom"), ApplyHeadroom(TRUE))
    \o When(St(d, "hooks") # "off", ApplyCopilotHooks(St(d, "hooks")))
    \o When(St(d, "cga") # Absent /\ St(d, "cga").on, LoadIn("cga", St(d, "cga").at))

(* PurgeAll in repository r.                                               *)
PurgePlan(d, r) ==
  When(St(d, "agents") # Absent, Drop(Agents))
    \o Drop(Block("persona")) \o Drop(Block("sdd")) \o Drop(Block("memory"))
    \o Drop(Block("trigger")) \o Drop(Block("headroom")) \o Drop(Block("efficiency"))
    \o Drop(Server("engram")) \o Drop(Server("headroom"))
    \o Drop(CopilotHook("guardrails")) \o Drop(CopilotHook("sessioncheck"))
    \o Drop(CopilotHook("sessionprobe"))
    \o Drop(Workspace(r)) \o Drop(UserMcp)
    \o Drop(GitHook(r, "pre-commit")) \o Drop(GitHook(r, "post-commit"))
    \o Drop(GitHook(r, "post-merge")) \o Drop(GitHook(r, "pre-push"))
    \o WriteGate(r, Absent)
    \o Wipe

(* What follows a load that succeeds, and what follows one that fails.     *)
Loaded(step, d) ==
  CASE step.plan = "sync" -> SyncPlan(d)
    [] step.plan = "odd" -> ApplyODD(St(d, "trigger"), St(d, "modular")) \o Record("workflow", "odd")
    [] step.plan = "seed" -> When(~St(d, "odd"), ApplyODD(St(d, "trigger"), St(d, "modular")))
    [] step.plan = "cga" -> WriteCGA(step.at, St(d, "persona"))
    [] step.plan = "purge" -> PurgePlan(d, step.at)

Unloaded(step) ==
  CASE step.plan = "sync" -> <<>>
    [] step.plan = "odd" -> ApplyODD(FALSE, FALSE) \o Record("workflow", "odd")
    [] step.plan = "seed" -> <<>>
    [] step.plan = "cga" -> WriteCGA(step.at, "none")
    [] step.plan = "purge" -> PurgePlan(EmptyDisk, step.at)
------------------------------------------------------------------------------
(* A fresh home, one upgraded from an SDD release, or one with a layout    *)
(* that was edited by hand.                                                *)
Init ==
  /\ \E legacy, modular \in BOOLEAN :
       LET assignment == IF legacy THEN "custom" ELSE "none"
       IN  /\ ~(legacy /\ modular)
           /\ disk = [EmptyDisk EXCEPT
                        !["state"]["modular"] = modular,
                        !["state"]["models"] = assignment,
                        !["state"]["efforts"] = assignment,
                        !["instructions"]["sdd"] = IF legacy THEN <<"custom", "custom">> ELSE Absent]
  /\ routed = [p \in Procs |-> WithRouting(St(disk, "models"))]
  /\ cmd = [p \in Procs |-> "none"]
  /\ todo = [p \in Procs |-> <<>>]
  /\ buf = [p \in Procs |-> <<>>]
  /\ blind = [p \in Procs |-> FALSE]
  /\ alone = [p \in Procs |-> FALSE]
  /\ before = EmptyState
  /\ synced = "none"
  /\ calm = TRUE
  /\ moves = 0

Syncs == {"sync", "repair"}

OthersIdle(p) == \A q \in Procs \ {p} : Idle(q)

(* Process p starts a program; screens let a program run on behind them,   *)
(* and a second capiko may run beside the first.                           *)
Begin(p, verb, program) ==
  /\ moves < MaxMoves \/ (moves = MaxMoves /\ verb \in Syncs /\ AllIdle)
  /\ moves' = moves + 1
  /\ Idle(p)
  /\ cmd' = [cmd EXCEPT ![p] = verb]
  /\ todo' = [todo EXCEPT ![p] = program]
  /\ blind' = [blind EXCEPT ![p] = FALSE]
  /\ alone' = [q \in Procs |-> IF q = p THEN OthersIdle(p) ELSE FALSE]
  /\ before' = IF verb \in Syncs THEN disk["state"] ELSE EmptyState
  /\ synced' = "none"
  /\ calm' = (calm /\ OthersIdle(p))
  /\ UNCHANGED <<disk, routed, buf>>

PersonaScreen(p) ==
  \E v \in Personas, efficiency \in BOOLEAN :
    Begin(p, "apply", ApplyPersona(v) \o ApplyOutputEfficiency(efficiency))

SDDScreen(p) ==
  \E m, e \in {"default", "custom"} :
    Begin(p, "apply", ApplySDD(m, e) \o ApplyTriggerRules(TRUE))

WorkflowScreen(p) ==
  \/ St(disk, "workflow") # "sdd" /\ Begin(p, "apply", SwitchToSDD)
  \/ St(disk, "workflow") = "sdd" /\ Begin(p, "apply", SwitchToODD)

EngramScreen(p) ==
  \E r \in Repos : \E rec \in [on : BOOLEAN, scope : Scopes, at : {r}] :
    Begin(p, "apply", ApplyEngramConfig(r, rec))

HeadroomScreen(p) == \E on \in BOOLEAN : Begin(p, "apply", ApplyHeadroom(on))

TeamSyncScreen(p) ==
  \E r \in Repos :
    \/ \E conflict \in BOOLEAN : Begin(p, "apply", ApplyTeamSync(r, conflict))
    \/ Begin(p, "apply", DisableTeamSync(r))

CopilotHooksScreen(p) ==
  \E posture \in Postures : Begin(p, "apply", ApplyCopilotHooks(posture))

CGAScreen(p) ==
  \E r \in Repos :
    \/ Begin(p, "apply", LoadIn("cga", r))
    \/ Begin(p, "apply", DisableCGA(r))

ReviewGate(p) ==
  \E r \in Repos, v \in {"on", Absent} : Begin(p, "apply", WriteGate(r, v))

(* seedODD, after the first `install'.                                     *)
Install(p) == Begin(p, "apply", Load("seed"))

(* RunSync, with the agents as the process has routed them.                *)
RunSync(routing) == Put(Agents, routing) \o Record("agents", routing) \o Load("sync")

Sync(p) == Begin(p, "sync", RunSync(routed[p]))

(* What `doctor' and `sync --auto-repair' look for among these settings.   *)
StaleAgents(d) == St(d, "agents") # WithRouting(St(d, "models"))
StaleEngram(d) == St(d, "engram").on /\ At(d, Server("engram")) = Absent
StaleHeadroom(d) == St(d, "headroom") /\ At(d, Server("headroom")) = Absent

(* The agents are written as they were routed when the process started.    *)
MutRepair(p) ==
  /\ StaleAgents(disk) \/ StaleEngram(disk)
  /\ Begin(p, "repair", RunSync(routed[p]))

(* repairDrift reads the settings again, and ignores headroom.             *)
Repair(p) ==
  /\ StaleAgents(disk) \/ StaleEngram(disk)
  /\ Begin(p, "repair", RunSync(WithRouting(St(disk, "models"))))

Purge(p) == \E r \in Repos : Begin(p, "purge", LoadIn("purge", r))

(* A new process routes the agent catalog by the models recorded.          *)
Launch(p) ==
  /\ Idle(p)
  /\ routed' = [routed EXCEPT ![p] = WithRouting(St(disk, "models"))]
  /\ UNCHANGED <<disk, run, history, moves>>

(* The user deletes a section of a file, or the file.                      *)
Edit ==
  /\ moves < MaxMoves /\ moves' = moves + 1
  /\ AllIdle
  /\ \E f \in Files \ {"state"} : \E n \in Keys(f) :
       /\ disk[f][n] # Absent
       /\ disk' = [disk EXCEPT ![f][n] = Absent]
  /\ synced' = "none"
  /\ calm' = FALSE
  /\ UNCHANGED <<routed, run, alone, before>>
------------------------------------------------------------------------------
Head1(p) == Head(todo[p])
Puts(p) == todo[p] # <<>> /\ Head1(p).do = "put"

(* A shared file is read before it is rewritten.                           *)
Read(p) ==
  /\ Puts(p)
  /\ Shared(Head1(p).at)
  /\ buf[p] = <<>>
  /\ buf' = [buf EXCEPT ![p] = [n \in Together(Head1(p).at) |-> disk[Head1(p).at[1]][n]]]
  /\ UNCHANGED <<disk, routed, cmd, todo, blind, history, moves>>

(* What is so already is left alone; state.json, and a hook with a block   *)
(* to set, are written all the same.                                       *)
LeftAlone(c, v, old) ==
  old = v /\ c[1] # "state" /\ (c[1] \in Repos => v = Absent)

(* The file is renamed into place: what was read, and one section changed. *)
Write(p) ==
  /\ Puts(p)
  /\ LET c == Head1(p).at
         v == Head1(p).val
         was == IF Shared(c) THEN buf[p] ELSE disk[c[1]]
     IN  /\ Shared(c) => buf[p] # <<>>
         /\ disk' = IF LeftAlone(c, v, was[c[2]]) THEN disk
                    ELSE [disk EXCEPT ![c[1]] =
                           [n \in Keys(c[1]) |-> IF n = c[2] THEN v
                                                 ELSE IF n \in Together(c) THEN was[n]
                                                 ELSE disk[c[1]][n]]]
  /\ buf' = [buf EXCEPT ![p] = <<>>]
  /\ todo' = [todo EXCEPT ![p] = Tail(@)]
  /\ UNCHANGED <<routed, cmd, blind, history, moves>>

(* ~/.capiko is removed with the state file.                               *)
RemoveHome(p) ==
  /\ todo[p] # <<>> /\ Head1(p).do = "wipe"
  /\ disk' = [disk EXCEPT !["state"] = EmptyState]
  /\ todo' = [todo EXCEPT ![p] = Tail(@)]
  /\ UNCHANGED <<routed, cmd, buf, blind, history, moves>>

LoadState(p) ==
  /\ todo[p] # <<>> /\ Head1(p).do = "load"
  /\ \/ /\ todo' = [todo EXCEPT ![p] = Loaded(Head1(p), disk) \o Tail(@)]
        /\ UNCHANGED blind
     \/ /\ todo' = [todo EXCEPT ![p] = Unloaded(Head1(p)) \o Tail(@)]
        /\ blind' = [blind EXCEPT ![p] = TRUE]
  /\ UNCHANGED <<disk, routed, cmd, buf, history, moves>>

Ended(p, done) ==
  /\ cmd' = [cmd EXCEPT ![p] = "none"]
  /\ todo' = [todo EXCEPT ![p] = <<>>]
  /\ buf' = [buf EXCEPT ![p] = <<>>]
  /\ blind' = [blind EXCEPT ![p] = FALSE]
  /\ alone' = [alone EXCEPT ![p] = FALSE]
  /\ synced' = IF done /\ cmd[p] \in Syncs /\ alone[p] /\ ~blind[p] THEN cmd[p] ELSE "none"
  /\ calm' = (calm /\ done /\ ~blind[p] /\ cmd[p] # "purge")
  /\ UNCHANGED <<disk, routed, before, moves>>

Finish(p) ==
  /\ ~Idle(p)
  /\ todo[p] = <<>>
  /\ Ended(p, TRUE)

(* A step fails and the command with it, or the process is killed.         *)
Fail(p) == todo[p] # <<>> /\ cmd[p] # "purge" /\ Ended(p, FALSE)
Crash(p) == cmd[p] = "purge" /\ Ended(p, FALSE)

(* Purge turns the error of a step into a warning.                         *)
Warn(p) ==
  /\ todo[p] # <<>> /\ cmd[p] = "purge"
  /\ todo' = [todo EXCEPT ![p] = Tail(@)]
  /\ buf' = [buf EXCEPT ![p] = <<>>]
  /\ blind' = [blind EXCEPT ![p] = TRUE]
  /\ UNCHANGED <<disk, routed, cmd, history, moves>>

Screen(p) ==
  \/ PersonaScreen(p) \/ SDDScreen(p) \/ WorkflowScreen(p) \/ EngramScreen(p)
  \/ HeadroomScreen(p) \/ TeamSyncScreen(p) \/ CopilotHooksScreen(p) \/ CGAScreen(p)

Start(p) ==
  \/ p \in Interactive /\ Screen(p)
  \/ ReviewGate(p) \/ Install(p) \/ Sync(p) \/ Repair(p) \/ Purge(p) \/ Launch(p)

Step(p) ==
  \/ Read(p) \/ Write(p) \/ RemoveHome(p) \/ LoadState(p)
  \/ Finish(p) \/ Fail(p) \/ Crash(p) \/ Warn(p)

Next == Edit \/ \E p \in Procs : Start(p) \/ Step(p)
Spec == Init /\ [][Next]_vars
------------------------------------------------------------------------------
(* Every variable has its type, and what a process is about to write back *)
(* is the file its next step is about.                                     *)
TypeOK ==
  /\ DOMAIN disk = Files
  /\ \A f \in Files : /\ DOMAIN disk[f] = Keys(f)
                      /\ \A n \in Keys(f) : disk[f][n] \in Contents(f, n)
  /\ routed \in [Procs -> Routings]
  /\ \A p \in Procs : buf[p] # <<>> => Puts(p) /\ DOMAIN buf[p] = Together(Head1(p).at)
  /\ blind \in [Procs -> BOOLEAN] /\ alone \in [Procs -> BOOLEAN]
  /\ \A n \in FieldNames : before[n] \in FieldValues(n)
  /\ synced \in Syncs \cup {"none"} /\ calm \in BOOLEAN
  /\ moves \in 0..(MaxMoves + 1)

Where(b, S) == IF b THEN S ELSE {}

TeamClaims(d) ==
  Where(St(d, "team") # Absent /\ St(d, "team").on /\ ~St(d, "team").conflict,
        {GitHook(St(d, "team").at, n) : n \in {"post-merge", "pre-push"}})

EditorClaims(d) ==
  LET rec == St(d, "engram")
  IN  Where(rec.on /\ rec.scope = "workspace" /\ rec.at # Absent, {Workspace(rec.at)})
        \cup Where(rec.on /\ rec.scope = "user", {UserMcp})

(* The sections that the settings recorded in d say capiko has wired.      *)
Claims(d) ==
  UNION {Where(St(d, "agents") # Absent, {Agents}),
         Where(St(d, "persona") # "none", {Block("persona")}),
         Where(St(d, "workflow") # "none", {Block(St(d, "workflow"))}),
         Where(St(d, "trigger"), {Block("trigger")}),
         Where(St(d, "efficiency"), {Block("efficiency")}),
         Where(St(d, "headroom"), {Block("headroom"), Server("headroom")}),
         Where(St(d, "engram").on, {Server("engram"), Block("memory")}),
         EditorClaims(d),
         Where(St(d, "hooks") # "off", {CopilotHook(n) : n \in HookNames}),
         TeamClaims(d),
         Where(St(d, "cga") # Absent /\ St(d, "cga").on,
               {GitHook(St(d, "cga").at, n) : n \in {"pre-commit", "post-commit"}})}

(* What ApplyEngramConfig wires after it has recorded it.                  *)
Late == {Block("memory"), UserMcp} \cup {Workspace(r) : r \in Repos}

(* The settings never claim a section before it is on disk, Engram's       *)
(* guidance and its entry in the editor apart: a command that runs alone   *)
(* records what it has wired, whenever it is killed.                       *)
ClaimsFollowWrites ==
  [][(\A p \in Procs : Idle(p) \/ alone[p])
       => \A c \in Claims(disk') \ (Claims(disk) \cup Late) : At(disk', c) # Absent]_vars

(* Whatever earlier commands left behind, half done, overlapping or undone *)
(* by the user: a sync that ran alone to its end has made the files say    *)
(* what the settings say, the review hook with the persona of now.  It     *)
(* leaves alone the hooks of the team's memory, and the editor's entry.    *)
SyncConverges ==
  synced # "none" =>
    /\ \A c \in Claims(disk) \ (TeamClaims(disk) \cup EditorClaims(disk)) : At(disk, c) # Absent
    /\ At(disk, Agents) = St(disk, "agents")
    /\ St(disk, "persona") # "none" => At(disk, Block("persona")) = St(disk, "persona")
    /\ IF St(disk, "workflow") = "sdd"
       THEN At(disk, Block("sdd")) = <<St(disk, "models"), St(disk, "efforts")>>
       ELSE /\ At(disk, Block("odd")) = [rdd |-> St(disk, "trigger"), modular |-> St(disk, "modular")]
            /\ At(disk, Modules) = IF St(disk, "modular") THEN St(disk, "trigger") ELSE Absent
    /\ St(disk, "hooks") # "off" => At(disk, CopilotHook("guardrails")) = St(disk, "hooks")
    /\ St(disk, "cga") # Absent /\ St(disk, "cga").on
         => At(disk, GitHook(St(disk, "cga").at, "pre-commit")) = St(disk, "persona")

(* A sync that ran alone saves every record again and changes no choice of *)
(* the user: the SDD assignments get their defaults, ODD becomes seeded.   *)
SyncKeepsChoices ==
  synced # "none" =>
    /\ \A n \in FieldNames \ {"models", "efforts", "odd", "agents"} :
          St(disk, n) = before[n]
    /\ \A n \in {"models", "efforts"} :
          St(disk, n) = IF St(disk, "workflow") = "sdd" THEN OrDefault(before[n])
                        ELSE before[n]
    /\ St(disk, "odd") = (before["odd"] \/ St(disk, "workflow") # "sdd")

Exact ==
  {Block(n) : n \in {"persona", "trigger", "memory", "headroom", "efficiency"}}
    \cup {Server(n) : n \in Keys("mcp")} \cup {CopilotHook(n) : n \in HookNames}

(* As long as no command failed or overlapped another and the user edited  *)
(* nothing, every section the settings claim is there, in hooks that other *)
(* commands write to as well, and the blocks, servers and Copilot hooks of *)
(* Exact, and Engram's guidance, are there only if the settings claim them *)
(* (workflow blocks, git hooks and the editor's entry may stay behind).    *)
CalmAgreement ==
  calm /\ AllIdle =>
    /\ \A c \in Claims(disk) : At(disk, c) # Absent
    /\ \A c \in Exact : At(disk, c) # Absent => c \in Claims(disk)

(* A repair that ran alone leaves nothing the next doctor would warn of    *)
(* and sync again for, though RunSync assigns models of its own.           *)
RepairCures ==
  synced = "repair" => ~StaleAgents(disk) /\ ~StaleEngram(disk) /\ ~StaleHeadroom(disk)

(* PurgeAll "removes every trace of capiko from the system": when nothing  *)
(* has failed, overlapped or been edited, no section of capiko is left but *)
(* in repositories it does not run in.                                     *)
PurgeLeavesNothing ==
  [][\A p \in Procs :
       cmd[p] = "purge" /\ todo[p] = <<>> /\ ~blind[p] /\ calm /\ cmd'[p] = "none"
         => \A c \in Sections : c[1] \in Repos \cup {"state"} \/ At(disk, c) = Absent]_vars
==============================================================================
