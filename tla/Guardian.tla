-------------------------------- MODULE Guardian --------------------------------
(***************************************************************************)
(* The Guardian Angel: a pre-commit hook asks Copilot for a verdict on the *)
(* staged diff and appends its findings to a log, a post-commit hook puts  *)
(* the commit into the last entry, `cga learn' turns findings that recur   *)
(* in the log into rules the user approves, and applying the hook freezes  *)
(* the rules in its script.  The worktrees of a repository share hooks and *)
(* log; nothing is locked, and every process may be killed at any step.    *)
(***************************************************************************)
EXTENDS Naturals, Sequences, FiniteSets

CONSTANTS Worktrees,    \* where the user commits, one commit at a time in each
          Learners,     \* runs of `cga learn'
          Findings,     \* severity and normalized description of a finding
          Absent,       \* no such value
          Torn,         \* a rules file that does not parse
          Threshold,    \* cgaLearnThreshold
          RulesCap,     \* LearnedRulesCap
          RotationCap,  \* entries a rotation keeps
          MaxCommits,   \* bound on commits tried
          MaxLearns,    \* bound on runs of `cga learn'
          MaxBusy       \* bound on commits and runs under way at once

ASSUME ConstantsAssumption ==
  /\ IsFiniteSet(Findings)
  /\ Threshold \in Nat \ {0} /\ RulesCap \in Nat /\ RotationCap \in Nat \ {0}
  /\ MaxCommits \in Nat /\ MaxLearns \in Nat /\ MaxBusy \in Nat

VARIABLES hook,     \* the script in .git/hooks, frozen when it was applied
          log,      \* cga-findings.jsonl, a sequence of lines or Absent
          store,    \* learned-rules.json, a set of rules or Torn
          commit,   \* the commit under way in each worktree
          learner,  \* the state of each run of `cga learn'
          approved, \* history: the rules the user approved
          logged,   \* history: the reviews appended, in order; Absent after an
                    \* overlap or a write that was cut short
          commits, learns

vars == <<hook, log, store, commit, learner, approved, logged, commits, learns>>
------------------------------------------------------------------------------
(* An answer of Copilot: the object with a verdict that the prompt asks    *)
(* for, the same within prose, or something that ParseVerdict does not     *)
(* decode because it is cut off or because a field has the wrong type.     *)
(* top is the verdict of the object, more the verdict of another entry in  *)
(* the text, nested or beside it.  Answers of several objects are left out.*)
Forms == {"object", "wrapped", "cut", "mistyped"}
Verdicts == {"PASS", "FAIL", "pass", "fail", "FAIL ", "other", "none"}
Answers == [form : Forms, top : Verdicts, more : Verdicts]

(* strings.TrimSpace and strings.ToUpper.                                  *)
Reading(v) ==
  CASE v \in {"PASS", "pass"} -> "PASS"
    [] v \in {"FAIL", "fail", "FAIL "} -> "FAIL"
    [] OTHER -> "ambiguous"

Decodes(r) == r.form \in {"object", "wrapped"}
ParseVerdict(r) == IF Decodes(r) THEN Reading(r.top) ELSE "ambiguous"

(* The script asks jq, which reads one object however its fields are typed *)
(* and prints the verdict as it is.  If it prints nothing, or there is no  *)
(* jq, grep looks for verdicts of letters anywhere in the text, and a      *)
(* single one is turned into upper case.                                   *)
Letters(v) == v \notin {"none", "FAIL "}
Grep(r) ==
  CASE Letters(r.top) /\ ~Letters(r.more) -> Reading(r.top)
    [] Letters(r.more) /\ ~Letters(r.top) -> Reading(r.more)
    [] OTHER -> "ambiguous"
Parses(r) == r.form \in {"object", "mistyped"}
ScriptVerdict(r, jq) ==
  IF jq /\ Parses(r) /\ r.top # "none" THEN r.top ELSE Grep(r)

(* An ambiguous verdict is let through whatever the policy.                *)
MutLetsThrough(strict, verdict) == verdict # "FAIL"
LetsThrough(strict, verdict) == verdict = "PASS" \/ (verdict # "FAIL" /\ ~strict)

(* The answer says PASS: as ParseVerdict reads it, if it decodes and has   *)
(* no other verdict, and otherwise somewhere.                              *)
SaysPass(r) ==
  IF Decodes(r) /\ r.more = "none" THEN ParseVerdict(r) = "PASS"
                                   ELSE "PASS" \in {Reading(r.top), Reading(r.more)}

(* What the script hears from an answer, with jq reading it or not.        *)
Said(r, jq) == [verdict |-> ScriptVerdict(r, jq), pass |-> SaysPass(r)]
Parsed == {Said(r, TRUE) : r \in {a \in Answers : Parses(a)}}
Heard == {Said(r, jq) : r \in Answers, jq \in BOOLEAN}

(* A line of the log: an entry with its newline, or what is left of one,   *)
(* of no known review, when the disk is full.                              *)
Entries == [id : 0..MaxCommits, found : SUBSET Findings, sha : 0..MaxCommits, ended : BOOLEAN]
Pending == 0
Cut == [id |-> 0, found |-> {}, sha |-> Pending, ended |-> FALSE]
Readable(line) == line.id # 0

ASSUME AbsentAssumption == Absent \notin Seq(Entries)

(* Text that is added behind a line without its newline goes on with it,   *)
(* and makes one of it that nothing reads.                                 *)
Added(lines, line) ==
  IF lines = <<>> \/ lines[Len(lines)].ended THEN Append(lines, line)
  ELSE [lines EXCEPT ![Len(lines)] = [Cut EXCEPT !.ended = line.ended]]

(* What a write that the full disk cuts short may add.                     *)
CutShort(lines, line) ==
  {lines, Added(lines, Cut), Added(lines, [line EXCEPT !.ended = FALSE])}

LastN(s, n) == IF Len(s) <= n THEN s ELSE SubSeq(s, Len(s) - n + 1, Len(s))
(* All lines but the last, as head and wc count them.                      *)
AllButLast(s) ==
  SubSeq(s, 1, Len(s) - IF s # <<>> /\ ~s[Len(s)].ended THEN 2 ELSE 1)
Ids(s) == [i \in 1..Len(s) |-> s[i].id]

(* A commit under way: the step it is at, its number, whether the hook     *)
(* lets it through, whether that breaks the strict policy, and the         *)
(* temporary file of the hook.                                             *)
NoCommit == [pc |-> "idle", id |-> 0, pass |-> FALSE, breach |-> FALSE, tmp |-> <<>>]
CommitSteps == {"idle", "rotate", "move", "decide", "post", "patch", "replace"}
Commits == [pc : CommitSteps, id : 0..MaxCommits, pass : BOOLEAN, breach : BOOLEAN,
            tmp : Seq(Entries)]

(* Rules.                                                                  *)
Rules == [finding : Findings, evidence : Nat, at : 0..MaxLearns]
FindingsOf(rules) == {r.finding : r \in rules}

(* Distinct log entries with the finding.                                  *)
Evidence(entries, f) == Cardinality({i \in 1..Len(entries) : f \in entries[i].found})

(* A finding that was seen at all is a pattern.                            *)
MutDetectPatterns(evidence) == {f \in Findings : evidence[f] > 0}
DetectPatterns(evidence) == {f \in Findings : evidence[f] >= Threshold}

(* Nothing is ever retired.                                                *)
MutCheckRetirement(rules, patterns) == rules
CheckRetirement(rules, patterns) == {r \in rules : r.finding \in patterns}

(* The results EnforceCap may have: the least evidence goes, then the      *)
(* oldest approval.                                                        *)
Outranks(r, s) == r.evidence > s.evidence \/ (r.evidence = s.evidence /\ r.at >= s.at)
Trimmed(rules) ==
  IF Cardinality(rules) <= RulesCap THEN {rules}
  ELSE {kept \in SUBSET rules : /\ Cardinality(kept) = RulesCap
                                /\ \A r \in kept, s \in rules \ kept : Outranks(r, s)}

NoLearner == [pc |-> "idle", evidence |-> [f \in Findings |-> 0], candidates |-> {},
              learned |-> {}]
LearnSteps == {"idle", "load", "ask", "save", "fill"}
LearnerStates == [pc : LearnSteps, evidence : [Findings -> Nat],
                  candidates : SUBSET Findings, learned : SUBSET Rules]
------------------------------------------------------------------------------
Init ==
  /\ \E strict \in BOOLEAN : hook = [strict |-> strict, rules |-> {}]
  /\ log = Absent
  /\ store = {}
  /\ commit = [w \in Worktrees |-> NoCommit]
  /\ learner = [l \in Learners |-> NoLearner]
  /\ approved = {}
  /\ logged = <<>>
  /\ commits = 0
  /\ learns = 0

At(w, pc) == commit[w].pc = pc
AtL(l, pc) == learner[l].pc = pc
Free ==
  Cardinality({w \in Worktrees : ~At(w, "idle")}) + Cardinality({l \in Learners : ~AtL(l, "idle")})
    < MaxBusy
Goto(w, pc) == commit' = [commit EXCEPT ![w].pc = pc, ![w].tmp = <<>>]
Done(w) == commit' = [commit EXCEPT ![w] = NoCommit]

(* applyCGA: the configure screen, or the sync that re-applies it.         *)
ApplyCGA ==
  /\ store # Torn
  /\ \E strict \in BOOLEAN : hook' = [strict |-> strict, rules |-> store]
  /\ UNCHANGED <<log, store, commit, learner, approved, logged, commits, learns>>

(* A review that passes, or blocks, and what it appends to the log.        *)
Begin(w, pc, pass, breach) ==
  /\ At(w, "idle") /\ Free
  /\ commits < MaxCommits
  /\ commits' = commits + 1
  /\ commit' = [commit EXCEPT ![w] =
       [NoCommit EXCEPT !.pc = pc, !.id = commits + 1, !.pass = pass, !.breach = breach]]
  /\ UNCHANGED <<hook, store, learner, approved, learns>>

(* Overlapping commits end the history of the log.                         *)
Extended(ids) ==
  IF logged # Absent /\ \A w \in Worktrees : At(w, "idle") THEN logged \o ids ELSE Absent

Lines == IF log = Absent THEN <<>> ELSE log
NewLine(found) == [id |-> commits + 1, found |-> found, sha |-> Pending, ended |-> TRUE]
Through(said) == LetsThrough(hook.strict, said.verdict)
Breach(said) == hook.strict /\ Through(said) /\ ~said.pass

(* Copilot answers, and jq can read the answer, which is appended.         *)
Review(w) ==
  /\ \E said \in Parsed, found \in SUBSET Findings :
       /\ Begin(w, "rotate", Through(said), Breach(said))
       /\ log' = Added(Lines, NewLine(found))
  /\ logged' = Extended(<<commits + 1>>)

(* The disk is full: a warning, and no rotation.                           *)
AppendFails(w) ==
  /\ \E said \in Parsed, found \in SUBSET Findings :
       /\ Begin(w, "decide", Through(said), Breach(said))
       /\ log' \in CutShort(Lines, NewLine(found))
  /\ logged' = Absent

(* Without jq, or when the log cannot be opened, there is no entry; a      *)
(* blocked commit then changes nothing.                                    *)
ReviewUnlogged(w) ==
  /\ \E said \in Heard : Through(said) /\ Begin(w, "post", TRUE, Breach(said))
  /\ logged' = Extended(<<>>)
  /\ UNCHANGED log

(* No staged diff; copilot fails or times out, and the policy is not       *)
(* strict; or git commit --no-verify, after which post-commit still runs.  *)
Unreviewed(w) ==
  /\ Begin(w, "post", TRUE, FALSE)
  /\ logged' = Extended(<<>>)
  /\ UNCHANGED log

(* Logging never blocks a commit: the failure of mktemp, tail, wc, jq or   *)
(* mv leaves the log as it is.                                             *)
LogFails(w) ==
  /\ \/ commit[w].pc \in {"rotate", "move"} /\ Goto(w, "decide")
     \/ commit[w].pc \in {"patch", "replace"} /\ Done(w)
  /\ UNCHANGED <<hook, log, store, learner, approved, logged, commits, learns>>

(* Rotation keeps one entry less than the cap.                             *)
MutRotate(w) ==
  /\ At(w, "rotate")
  /\ commit' = [commit EXCEPT ![w].pc = "move", ![w].tmp = LastN(Lines, RotationCap - 1)]
  /\ UNCHANGED <<hook, log, store, learner, approved, logged, commits, learns>>

Rotate(w) ==
  /\ At(w, "rotate")
  /\ commit' = [commit EXCEPT ![w].pc = "move", ![w].tmp = LastN(Lines, RotationCap)]
  /\ UNCHANGED <<hook, log, store, learner, approved, logged, commits, learns>>

MoveLog(w) ==
  /\ At(w, "move")
  /\ log' = commit[w].tmp
  /\ Goto(w, "decide")
  /\ UNCHANGED <<hook, store, learner, approved, logged, commits, learns>>

(* A commit the hook lets through may still be given up by git.            *)
Decide(w) ==
  /\ At(w, "decide")
  /\ \/ commit[w].pass /\ Goto(w, "post")
     \/ Done(w)
  /\ UNCHANGED <<hook, log, store, learner, approved, logged, commits, learns>>

(* The post-commit hook reads the last line, and HEAD.                     *)
Last == Lines[Len(Lines)]
ReadLast(w) ==
  /\ At(w, "post")
  /\ IF Lines # <<>> /\ Readable(Last) /\ Last.sha = Pending
     THEN commit' = [commit EXCEPT ![w].pc = "patch",
                       ![w].tmp = <<[Last EXCEPT !.sha = commit[w].id, !.ended = TRUE]>>]
     ELSE Done(w)
  /\ UNCHANGED <<hook, log, store, learner, approved, logged, commits, learns>>

(* It copies all lines but the last of the log as it is then.              *)
Patch(w) ==
  /\ At(w, "patch")
  /\ commit' = [commit EXCEPT ![w].pc = "replace", ![w].tmp = AllButLast(Lines) \o @]
  /\ UNCHANGED <<hook, log, store, learner, approved, logged, commits, learns>>

(* It does not look whether the disk was full: head may have copied a part *)
(* only, and the line may follow that whole, in part or not at all.        *)
PatchFails(w) ==
  /\ At(w, "patch")
  /\ \E n \in 0..Len(AllButLast(Lines)) :
       LET kept == SubSeq(Lines, 1, n)
       IN  \E copied \in {kept, Added(kept, Cut)} :
             \E lines \in CutShort(copied, commit[w].tmp[1]) \cup {Added(copied, commit[w].tmp[1])} :
               commit' = [commit EXCEPT ![w].pc = "replace", ![w].tmp = lines]
  /\ logged' = Absent
  /\ UNCHANGED <<hook, log, store, learner, approved, commits, learns>>

Replace(w) ==
  /\ At(w, "replace")
  /\ log' = commit[w].tmp
  /\ Done(w)
  /\ UNCHANGED <<hook, store, learner, approved, logged, commits, learns>>

Kill(w) ==
  /\ ~At(w, "idle")
  /\ Done(w)
  /\ UNCHANGED <<hook, log, store, learner, approved, logged, commits, learns>>
------------------------------------------------------------------------------
Quit(l) == learner' = [learner EXCEPT ![l] = NoLearner]

(* cgaLearn reads the log and skips the lines it cannot; without a log     *)
(* there is nothing to learn.                                              *)
ReadLog(l) ==
  /\ AtL(l, "idle") /\ Free
  /\ log # Absent
  /\ learns < MaxLearns
  /\ learns' = learns + 1
  /\ learner' = [learner EXCEPT ![l] =
       [NoLearner EXCEPT !.pc = "load", !.evidence = [f \in Findings |-> Evidence(log, f)]]]
  /\ UNCHANGED <<hook, log, store, commit, approved, logged, commits>>

LoadRules(l) ==
  LET patterns == DetectPatterns(learner[l].evidence)
      active == CheckRetirement(store, patterns)
      candidates == patterns \ FindingsOf(active)
  IN  /\ AtL(l, "load")
      /\ IF store = Torn \/ (patterns = {} /\ store = {})
         THEN Quit(l)
         ELSE learner' = [learner EXCEPT ![l].pc = IF candidates = {} THEN "save" ELSE "ask",
                            ![l].candidates = candidates, ![l].learned = active]
      /\ UNCHANGED <<hook, log, store, commit, approved, logged, commits, learns>>

Approve(l, f) ==
  LET rule == [finding |-> f, evidence |-> learner[l].evidence[f], at |-> learns]
  IN  /\ learner' = [learner EXCEPT ![l].learned = @ \cup {rule}, ![l].candidates = @ \ {f}]
      /\ approved' = approved \cup {rule}

Reject(l, f) ==
  /\ learner' = [learner EXCEPT ![l].candidates = @ \ {f}]
  /\ UNCHANGED approved

Answer(l) ==
  /\ AtL(l, "ask")
  /\ \E f \in learner[l].candidates : Approve(l, f) \/ Reject(l, f)
  /\ UNCHANGED <<hook, log, store, commit, logged, commits, learns>>

EnforceCap(l) ==
  /\ AtL(l, "ask") /\ learner[l].candidates = {}
  /\ \E kept \in Trimmed(learner[l].learned) :
       learner' = [learner EXCEPT ![l].pc = "save", ![l].learned = kept]
  /\ UNCHANGED <<hook, log, store, commit, approved, logged, commits, learns>>

(* SaveLearnedRules truncates the file and fills it.                       *)
Truncate(l) ==
  /\ AtL(l, "save")
  /\ store' = Torn
  /\ learner' = [learner EXCEPT ![l].pc = "fill"]
  /\ UNCHANGED <<hook, log, commit, approved, logged, commits, learns>>

(* Over what another run has written meanwhile, a shorter text leaves a    *)
(* tail that does not parse.                                               *)
Fill(l) ==
  /\ AtL(l, "fill")
  /\ \/ store' = learner[l].learned
     \/ store \notin {Torn, learner[l].learned} /\ store' = Torn
  /\ Quit(l)
  /\ UNCHANGED <<hook, log, commit, approved, logged, commits, learns>>

Abort(l) ==
  /\ ~AtL(l, "idle")
  /\ Quit(l)
  /\ UNCHANGED <<hook, log, store, commit, approved, logged, commits, learns>>

(* The user deletes a rules file that does not parse.                      *)
DeleteStore ==
  /\ store = Torn
  /\ store' = {}
  /\ UNCHANGED <<hook, log, commit, learner, approved, logged, commits, learns>>

Committing(w) ==
  \/ Review(w) \/ AppendFails(w) \/ ReviewUnlogged(w) \/ Unreviewed(w)
  \/ LogFails(w) \/ Rotate(w) \/ MoveLog(w) \/ Decide(w)
  \/ ReadLast(w) \/ Patch(w) \/ PatchFails(w) \/ Replace(w) \/ Kill(w)

Learning(l) ==
  \/ ReadLog(l) \/ LoadRules(l) \/ Answer(l) \/ EnforceCap(l)
  \/ Truncate(l) \/ Fill(l) \/ Abort(l)

Next ==
  \/ ApplyCGA \/ DeleteStore
  \/ \E w \in Worktrees : Committing(w)
  \/ \E l \in Learners : Learning(l)

Spec == Init /\ [][Next]_vars
------------------------------------------------------------------------------
(* Every variable has its type.                                            *)
TypeOK ==
  /\ hook.strict \in BOOLEAN /\ hook.rules \subseteq Rules
  /\ log # Absent => log \in Seq(Entries)
  /\ store # Torn => store \subseteq Rules
  /\ commit \in [Worktrees -> Commits]
  /\ learner \in [Learners -> LearnerStates]
  /\ approved \subseteq Rules
  /\ logged # Absent => logged \in Seq(1..MaxCommits)
  /\ commits \in 0..MaxCommits /\ learns \in 0..MaxLearns

(* The rules in force, in the file and in the hook.                        *)
Earned(rules) ==
  /\ rules \subseteq approved
  /\ \A r \in rules : r.evidence >= Threshold
  /\ \A r, s \in rules : r.finding = s.finding => r = s
  /\ IsFiniteSet(rules) /\ Cardinality(rules) <= RulesCap

(* However runs of `learn' overlap or die, each rule in the file and in    *)
(* the hook was approved by the user for a finding seen often enough; no   *)
(* finding has two rules, and there are never more rules than the cap.     *)
RulesEarned ==
  /\ store # Torn => Earned(store)
  /\ Earned(hook.rules)

(* Under the strict policy the script lets nothing through, an empty diff  *)
(* and --no-verify apart, but an answer that says PASS: however it is      *)
(* spelled or wrapped and with or without jq, what passes is what          *)
(* ParseVerdict reads as PASS, unless the answer does not decode or has    *)
(* another verdict in it.  Those pass on a PASS that stands anywhere in    *)
(* the text, though ParseVerdict would call them ambiguous.                *)
StrictLetsOnlyPass ==
  \A w \in Worktrees : ~commit[w].breach

(* As long as no two commits overlap and no write to the log is cut short, *)
(* rotation and patching lose no recent review and never repeat or reorder *)
(* one, whatever is killed and whatever else fails.                        *)
LogKeepsRecent ==
  logged # Absent =>
    /\ Len(Lines) <= Len(logged)
    /\ Ids(Lines) = LastN(logged, Len(Lines))
    /\ Len(Lines) >= IF Len(logged) < RotationCap THEN Len(logged) ELSE RotationCap

(* A run saves only rules whose findings still recur in the log it read.   *)
LearnRetires ==
  [][\A l \in Learners :
       AtL(l, "fill") /\ AtL(l, "idle")' /\ store' \notin {store, Torn}
         => FindingsOf(store') \subseteq DetectPatterns(learner[l].evidence)]_vars
==============================================================================
