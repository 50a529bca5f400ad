---------------------------- MODULE Guardian_proofs ----------------------------
(***************************************************************************)
(* Proofs about the Guardian Angel, for any number of worktrees, learners, *)
(* findings and commits: a rule is earned at every step between the log    *)
(* and the hook, whatever overlaps or dies, what a strict hook lets        *)
(* through says PASS, and the log keeps the recent reviews as long as      *)
(* commits do not overlap and no write to it is cut short.                 *)
(***************************************************************************)
EXTENDS Guardian, FiniteSetTheorems, SequenceTheorems, TLAPS

(* The log is absent or a sequence of lines.                               *)
LogOK == log # Absent => log \in Seq(Entries)

(* The commits, and the learners, which change different variables.        *)
CommitsOK ==
  /\ LogOK
  /\ commit \in [Worktrees -> Commits]
  /\ \A w \in Worktrees : At(w, "patch") => commit[w].tmp # <<>>
  /\ logged # Absent => logged \in Seq(1..MaxCommits)
  /\ commits \in 0..MaxCommits

LearningOK ==
  /\ hook.strict \in BOOLEAN /\ hook.rules \subseteq Rules
  /\ store # Torn => store \subseteq Rules
  /\ learner \in [Learners -> LearnerStates]
  /\ approved \subseteq Rules
  /\ learns \in 0..MaxLearns

(* What a run of `learn' holds before it saves.                            *)
Asking(l) ==
  LET me == learner[l]
  IN  /\ me.learned \subseteq approved /\ IsFiniteSet(me.learned)
      /\ \A r \in me.learned : r.evidence >= Threshold
      /\ \A r, q \in me.learned : r.finding = q.finding => r = q
      /\ me.candidates \subseteq DetectPatterns(me.evidence) \ FindingsOf(me.learned)

(* The findings of its rules recur in the log it has read.                 *)
Recurs(l) == FindingsOf(learner[l].learned) \subseteq DetectPatterns(learner[l].evidence)

Holds(l) ==
  /\ AtL(l, "ask") => Asking(l)
  /\ AtL(l, "save") \/ AtL(l, "fill") => Earned(learner[l].learned)
  /\ AtL(l, "ask") \/ AtL(l, "save") \/ AtL(l, "fill") => Recurs(l)

LearnInv == LearningOK /\ RulesEarned /\ \A l \in Learners : Holds(l)

IInv == CommitsOK /\ LearnInv /\ StrictLetsOnlyPass
------------------------------------------------------------------------------
LEMMA NoCommitTyped == NoCommit \in Commits
<1>1. <<>> \in Seq(Entries)
  BY EmptySeq
<1> QED BY <1>1, ConstantsAssumption DEF NoCommit, Commits, CommitSteps

LEMMA LastNTyped ==
  ASSUME NEW S, NEW s \in Seq(S), NEW n \in Nat
  PROVE  LastN(s, n) \in Seq(S)
<1>1. Len(s) \in Nat /\ \A i \in 1..Len(s) : s[i] \in S
  BY LenProperties, ElementOfSeq
<1>2. CASE Len(s) <= n
  BY <1>2 DEF LastN
<1>3. CASE ~(Len(s) <= n)
  <2> DEFINE m == Len(s) - n + 1
  <2>1. m \in Int /\ Len(s) \in Int /\ m >= 1
    BY <1>1, <1>3
  <2>2. \A i \in m..Len(s) : s[i] \in S
    BY <1>1, <2>1
  <2> HIDE DEF m
  <2>3. SubSeq(s, m, Len(s)) \in Seq(S)
    BY <2>1, <2>2, SubSeqProperties
  <2> QED BY <1>3, <2>3 DEF LastN, m
<1> QED BY <1>2, <1>3

LEMMA AllButLastTyped ==
  ASSUME NEW s \in Seq(Entries)
  PROVE  AllButLast(s) \in Seq(Entries)
<1> DEFINE k == Len(s) - IF s # <<>> /\ ~s[Len(s)].ended THEN 2 ELSE 1
<1>1. Len(s) \in Nat /\ \A i \in 1..Len(s) : s[i] \in Entries
  BY LenProperties, ElementOfSeq
<1>2. k \in Int /\ \A i \in 1..k : s[i] \in Entries
  BY <1>1
<1> HIDE DEF k
<1>3. SubSeq(s, 1, k) \in Seq(Entries)
  BY <1>2, SubSeqProperties
<1> QED BY <1>3 DEF AllButLast, k

LEMMA AllButLastShorter ==
  ASSUME NEW s \in Seq(Entries)
  PROVE  Len(AllButLast(s)) \in Nat /\ Len(AllButLast(s)) <= Len(s)
<1> DEFINE k == Len(s) - IF s # <<>> /\ ~s[Len(s)].ended THEN 2 ELSE 1
<1>1. Len(s) \in Nat /\ \A i \in 1..Len(s) : s[i] \in Entries
  BY LenProperties, ElementOfSeq
<1>2. k \in Int /\ k <= Len(s) /\ \A i \in 1..k : s[i] \in Entries
  BY <1>1
<1> HIDE DEF k
<1>3. Len(SubSeq(s, 1, k)) = IF 1 <= k THEN k - 1 + 1 ELSE 0
  BY <1>2, SubSeqProperties
<1> QED BY <1>1, <1>2, <1>3 DEF AllButLast, k

LEMMA PrefixTyped ==
  ASSUME NEW s \in Seq(Entries), NEW n \in Nat, n <= Len(s)
  PROVE  SubSeq(s, 1, n) \in Seq(Entries)
<1>1. Len(s) \in Nat /\ \A i \in 1..n : s[i] \in Entries
  BY LenProperties, ElementOfSeq
<1> QED BY <1>1, SubSeqProperties

(* What a write adds to the log, whole or cut short, are lines.            *)
LEMMA CutTyped == Cut \in Entries
BY ConstantsAssumption DEF Cut, Entries, Pending

LEMMA AddedTyped ==
  ASSUME NEW lines \in Seq(Entries), NEW line \in Entries
  PROVE  Added(lines, line) \in Seq(Entries)
<1>1. CASE lines = <<>> \/ lines[Len(lines)].ended
  BY <1>1 DEF Added
<1>2. CASE ~(lines = <<>> \/ lines[Len(lines)].ended)
  <2> DEFINE e == [Cut EXCEPT !.ended = line.ended]
  <2>1. e \in Entries
    BY CutTyped DEF Entries
  <2>2. Len(lines) \in 1..Len(lines)
    BY <1>2, EmptySeq
  <2> HIDE DEF e
  <2>3. [lines EXCEPT ![Len(lines)] = e] \in Seq(Entries)
    BY <2>1, <2>2, ExceptSeq
  <2> QED BY <1>2, <2>3 DEF Added, e
<1> QED BY <1>1, <1>2

LEMMA CutShortTyped ==
  ASSUME NEW lines \in Seq(Entries), NEW line \in Entries
  PROVE  CutShort(lines, line) \subseteq Seq(Entries)
<1>1. [line EXCEPT !.ended = FALSE] \in Entries
  BY DEF Entries
<1> QED BY <1>1, CutTyped, AddedTyped DEF CutShort

LEMMA LinesTyped == LogOK => Lines \in Seq(Entries)
BY EmptySeq DEF LogOK, Lines

(* A sequence of lines is a log.                                           *)
LEMMA LogIsLines == ASSUME log \in Seq(Entries) PROVE Lines = log
BY AbsentAssumption DEF Lines

(* If the script hears PASS, the answer says so.                           *)
LEMMA PassIsSaid ==
  ASSUME NEW r \in Answers, NEW jq \in BOOLEAN, ScriptVerdict(r, jq) = "PASS"
  PROVE  SaysPass(r)
<1>1. r.top \in Verdicts /\ r.more \in Verdicts
  BY DEF Answers
<1>2. CASE r.top = "PASS" /\ jq /\ Parses(r)
  BY <1>2 DEF SaysPass, ParseVerdict, Reading
<1>3. CASE ~(jq /\ Parses(r) /\ r.top # "none")
  <2>1. \/ Letters(r.top) /\ ~Letters(r.more) /\ Reading(r.top) = "PASS"
        \/ Letters(r.more) /\ ~Letters(r.top) /\ Reading(r.more) = "PASS"
    BY <1>3 DEF ScriptVerdict, Grep
  <2>2. ~Letters("none")
    BY DEF Letters
  <2> QED BY <2>1, <2>2 DEF SaysPass, ParseVerdict
<1> QED BY <1>2, <1>3 DEF ScriptVerdict

(* No answer makes a strict hook break its policy.                         *)
LEMMA NoBreach ==
  ASSUME LearningOK, NEW said \in Heard
  PROVE  ~Breach(said) /\ Through(said) \in BOOLEAN /\ Breach(said) \in BOOLEAN
<1>1. PICK r \in Answers, jq \in BOOLEAN : said = Said(r, jq)
  BY DEF Heard
<1>2. said.verdict = ScriptVerdict(r, jq) /\ said.pass = SaysPass(r)
  BY <1>1 DEF Said
<1>3. ASSUME hook.strict, Through(said) PROVE said.pass
  <2>1. ScriptVerdict(r, jq) = "PASS"
    BY <1>2, <1>3 DEF Through, LetsThrough, LearningOK
  <2> QED BY <1>2, <2>1, PassIsSaid
<1>4. ~Breach(said)
  BY <1>3 DEF Breach
<1> QED BY <1>4 DEF Through, LetsThrough, Breach

(* What jq reads is heard.                                                 *)
LEMMA ParsedIsHeard == Parsed \subseteq Heard
<1> SUFFICES ASSUME NEW said \in Parsed PROVE said \in Heard
  OBVIOUS
<1>1. PICK r \in Answers : said = Said(r, TRUE)
  BY DEF Parsed
<1>2. \E a \in Answers, jq \in BOOLEAN : said = Said(a, jq)
  BY <1>1
<1> QED BY <1>2 DEF Heard
------------------------------------------------------------------------------
(* A step of one commit, and one that begins.                              *)
LEMMA OneCommit ==
  ASSUME IInv, NEW w \in Worktrees, NEW new \in Commits, ~new.breach,
         commit' = [commit EXCEPT ![w] = new], new.pc = "patch" => new.tmp # <<>>,
         LogOK', commits' \in 0..MaxCommits,
         logged' # Absent => logged' \in Seq(1..MaxCommits),
         UNCHANGED <<hook, store, learner, approved, learns>>
  PROVE  IInv'
<1>1. CommitsOK'
  BY DEF IInv, CommitsOK, At
<1>2. StrictLetsOnlyPass'
  BY DEF IInv, CommitsOK, StrictLetsOnlyPass
<1>3. LearnInv'
  BY DEF IInv, LearnInv, LearningOK, RulesEarned, Earned, Holds, Recurs, Asking, AtL
<1> QED BY <1>1, <1>2, <1>3 DEF IInv

LEMMA ExtendedTyped ==
  ASSUME CommitsOK, NEW ids \in Seq(1..MaxCommits)
  PROVE  Extended(ids) # Absent => Extended(ids) \in Seq(1..MaxCommits)
BY ConcatProperties DEF CommitsOK, Extended

LEMMA BeginIInv ==
  ASSUME IInv, NEW w \in Worktrees, NEW pc \in CommitSteps \ {"patch"}, NEW pass \in BOOLEAN,
         NEW breach \in BOOLEAN, ~breach, Begin(w, pc, pass, breach),
         LogOK',
         logged' # Absent => logged' \in Seq(1..MaxCommits)
  PROVE  IInv'
<1> DEFINE new == [NoCommit EXCEPT !.pc = pc, !.id = commits + 1, !.pass = pass, !.breach = breach]
<1>1. commits + 1 \in 0..MaxCommits
  BY ConstantsAssumption DEF Begin, IInv, CommitsOK
<1>2. new \in Commits /\ new.breach = breach /\ new.pc = pc
  BY <1>1, NoCommitTyped DEF Commits
<1>3. commit' = [commit EXCEPT ![w] = new] /\ commits' = commits + 1
      /\ UNCHANGED <<hook, store, learner, approved, learns>>
  BY DEF Begin
<1> HIDE DEF new
<1> QED BY <1>1, <1>2, <1>3, OneCommit

LEMMA ReviewIInv ==
  ASSUME IInv, NEW w \in Worktrees, Review(w) \/ AppendFails(w)
  PROVE  IInv'
<1>1. PICK said \in Parsed, found \in SUBSET Findings, pc \in {"rotate", "decide"} :
        /\ Begin(w, pc, Through(said), Breach(said))
        /\ log' \in CutShort(Lines, NewLine(found)) \cup {Added(Lines, NewLine(found))}
  BY DEF Review, AppendFails
<1>2. ~Breach(said) /\ Through(said) \in BOOLEAN /\ Breach(said) \in BOOLEAN
  BY NoBreach, ParsedIsHeard DEF IInv, LearnInv
<1>3. commits + 1 \in 1..MaxCommits
  BY <1>1, ConstantsAssumption DEF Begin, IInv, CommitsOK
<1>4. NewLine(found) \in Entries
  BY <1>3, ConstantsAssumption DEF NewLine, Entries, Pending
<1>5. LogOK'
  BY <1>1, <1>4, LinesTyped, AddedTyped, CutShortTyped DEF IInv, CommitsOK, LogOK
<1>6. <<commits + 1>> \in Seq(1..MaxCommits)
  BY <1>3
<1>7. logged' # Absent => logged' \in Seq(1..MaxCommits)
  BY <1>6, ExtendedTyped DEF Review, AppendFails, IInv
<1>8. pc \in CommitSteps \ {"patch"}
  BY DEF CommitSteps
<1> QED BY <1>1, <1>2, <1>5, <1>7, <1>8, BeginIInv

LEMMA UnloggedIInv ==
  ASSUME IInv, NEW w \in Worktrees, ReviewUnlogged(w) \/ Unreviewed(w)
  PROVE  IInv'
<1>1. LogOK'
  BY DEF ReviewUnlogged, Unreviewed, IInv, CommitsOK, LogOK
<1>2. <<>> \in Seq(1..MaxCommits)
  BY EmptySeq
<1>3. logged' # Absent => logged' \in Seq(1..MaxCommits)
  BY <1>2, ExtendedTyped DEF ReviewUnlogged, Unreviewed, IInv
<1>4. "post" \in CommitSteps \ {"patch"}
  BY DEF CommitSteps
<1>5. CASE ReviewUnlogged(w)
  <2>1. PICK said \in Heard : Begin(w, "post", TRUE, Breach(said))
    BY <1>5 DEF ReviewUnlogged
  <2>2. ~Breach(said) /\ Breach(said) \in BOOLEAN
    BY NoBreach DEF IInv, LearnInv
  <2> QED BY <1>1, <1>3, <1>4, <2>1, <2>2, BeginIInv
<1>6. CASE Unreviewed(w)
  <2>1. Begin(w, "post", TRUE, FALSE)
    BY <1>6 DEF Unreviewed
  <2> QED BY <1>1, <1>3, <1>4, <2>1, BeginIInv
<1> QED BY <1>5, <1>6

(* Each remaining step of a commit moves on, with entries of the log, or   *)
(* ends it.                                                                *)
LEMMA MovesOn ==
  ASSUME IInv, NEW w \in Worktrees, NEW pc \in CommitSteps, NEW tmp \in Seq(Entries),
         commit' = [commit EXCEPT ![w] = [commit[w] EXCEPT !.pc = pc, !.tmp = tmp]],
         pc = "patch" => tmp # <<>>,
         LogOK', logged' = logged \/ logged' = Absent,
         UNCHANGED <<hook, store, learner, approved, commits, learns>>
  PROVE  IInv'
<1> DEFINE new == [commit[w] EXCEPT !.pc = pc, !.tmp = tmp]
<1>1. commit[w] \in Commits /\ ~commit[w].breach
  BY DEF IInv, CommitsOK, StrictLetsOnlyPass
<1>2. new \in Commits /\ ~new.breach /\ (new.pc = "patch" => new.tmp # <<>>)
  BY <1>1 DEF Commits
<1>3. commit' = [commit EXCEPT ![w] = new]
  OBVIOUS
<1>4. commits' \in 0..MaxCommits /\ (logged' # Absent => logged' \in Seq(1..MaxCommits))
  BY DEF IInv, CommitsOK
<1> HIDE DEF new
<1> QED BY <1>2, <1>3, <1>4, OneCommit

LEMMA Ends ==
  ASSUME IInv, NEW w \in Worktrees, Done(w), LogOK',
         UNCHANGED <<hook, store, learner, approved, logged, commits, learns>>
  PROVE  IInv'
<1>1. NoCommit \in Commits /\ ~NoCommit.breach /\ NoCommit.pc # "patch"
  BY NoCommitTyped DEF NoCommit
<1>2. commits' \in 0..MaxCommits /\ (logged' # Absent => logged' \in Seq(1..MaxCommits))
  BY DEF IInv, CommitsOK
<1> QED BY <1>1, <1>2, OneCommit DEF Done

LEMMA CommittingIInv ==
  ASSUME IInv, NEW w \in Worktrees, Committing(w)
  PROVE  IInv'
<1>1. /\ LogOK /\ Lines \in Seq(Entries)
      /\ commit[w] \in Commits /\ commit[w].tmp \in Seq(Entries)
      /\ commit[w].id \in 0..MaxCommits /\ commit \in [Worktrees -> Commits]
  BY LinesTyped DEF IInv, CommitsOK, Commits
<1>2. <<>> \in Seq(Entries)
  BY EmptySeq
<1>3. "move" \in CommitSteps /\ "decide" \in CommitSteps /\ "post" \in CommitSteps
      /\ "patch" \in CommitSteps /\ "replace" \in CommitSteps
  BY DEF CommitSteps
<1>4. ASSUME NEW pc \in CommitSteps, pc # "patch", Goto(w, pc), LogOK',
             UNCHANGED <<hook, store, learner, approved, logged, commits, learns>>
      PROVE  IInv'
  <2>1. commit' = [commit EXCEPT ![w] = [commit[w] EXCEPT !.pc = pc, !.tmp = <<>>]]
    BY <1>1, <1>4 DEF Goto, Commits
  <2> QED BY <1>2, <1>4, <2>1, MovesOn
<1>5. UNCHANGED log => LogOK'
  BY <1>1 DEF LogOK
<1>6. CASE LogFails(w)
  BY <1>3, <1>4, <1>5, <1>6, Ends DEF LogFails
<1>7. CASE Rotate(w)
  <2>1. LastN(Lines, RotationCap) \in Seq(Entries)
    BY <1>1, LastNTyped, ConstantsAssumption
  <2>2. commit' = [commit EXCEPT ![w] = [commit[w] EXCEPT !.pc = "move",
                                           !.tmp = LastN(Lines, RotationCap)]]
    BY <1>1, <1>7 DEF Rotate, Commits
  <2> QED BY <1>3, <1>5, <1>7, <2>1, <2>2, MovesOn DEF Rotate
<1>8. CASE MoveLog(w)
  BY <1>1, <1>3, <1>4, <1>8 DEF MoveLog, LogOK
<1>9. CASE Decide(w)
  BY <1>3, <1>4, <1>5, <1>9, Ends DEF Decide
<1>10. CASE ReadLast(w)
  <2>1. CASE Lines # <<>> /\ Readable(Last) /\ Last.sha = Pending
    <3> DEFINE line == [Last EXCEPT !.sha = commit[w].id, !.ended = TRUE]
    <3>1. Len(Lines) \in 1..Len(Lines)
      BY <1>1, <2>1, EmptySeq
    <3>2. Last \in Entries
      BY <1>1, <3>1, ElementOfSeq DEF Last
    <3>3. line \in Entries
      BY <1>1, <3>2 DEF Entries
    <3> HIDE DEF line
    <3>4. <<line>> \in Seq(Entries) /\ <<line>> # <<>>
      BY <3>3
    <3>5. commit' = [commit EXCEPT ![w] = [commit[w] EXCEPT !.pc = "patch", !.tmp = <<line>>]]
      BY <1>1, <1>10, <2>1 DEF ReadLast, Commits, line
    <3> QED BY <1>3, <1>5, <1>10, <3>4, <3>5, MovesOn DEF ReadLast
  <2>2. CASE ~(Lines # <<>> /\ Readable(Last) /\ Last.sha = Pending)
    BY <1>5, <1>10, <2>2, Ends DEF ReadLast
  <2> QED BY <2>1, <2>2
<1>11. CASE Patch(w)
  <2> DEFINE lines == AllButLast(Lines) \o commit[w].tmp
  <2>1. lines \in Seq(Entries)
    BY <1>1, AllButLastTyped, ConcatProperties
  <2>2. commit' = [commit EXCEPT ![w] = [commit[w] EXCEPT !.pc = "replace", !.tmp = lines]]
    BY <1>1, <1>11 DEF Patch, Commits
  <2> HIDE DEF lines
  <2> QED BY <1>3, <1>5, <1>11, <2>1, <2>2, MovesOn DEF Patch
<1>12. CASE PatchFails(w)
  <2>1. PICK line : line = commit[w].tmp[1]
    OBVIOUS
  <2>2. line \in Entries
    <3>1. commit[w].tmp # <<>>
      BY <1>12 DEF PatchFails, IInv, CommitsOK
    <3>2. 1 \in 1..Len(commit[w].tmp)
      BY <1>1, <3>1, EmptySeq
    <3> QED BY <1>1, <2>1, <3>2, ElementOfSeq
  <2>3. PICK n \in 0..Len(AllButLast(Lines)) :
          LET kept == SubSeq(Lines, 1, n)
          IN  \E copied \in {kept, Added(kept, Cut)} :
                \E lines \in CutShort(copied, line) \cup {Added(copied, line)} :
                  commit' = [commit EXCEPT ![w].pc = "replace", ![w].tmp = lines]
    BY <1>12, <2>1 DEF PatchFails
  <2>4. n \in Nat /\ n <= Len(Lines)
    BY <1>1, <2>3, AllButLastShorter
  <2>5. SubSeq(Lines, 1, n) \in Seq(Entries)
    BY <1>1, <2>4, PrefixTyped
  <2>6. PICK copied \in {SubSeq(Lines, 1, n), Added(SubSeq(Lines, 1, n), Cut)} :
          \E lines \in CutShort(copied, line) \cup {Added(copied, line)} :
            commit' = [commit EXCEPT ![w].pc = "replace", ![w].tmp = lines]
    BY <2>3
  <2>7. copied \in Seq(Entries)
    BY <2>5, <2>6, CutTyped, AddedTyped
  <2>8. PICK lines \in CutShort(copied, line) \cup {Added(copied, line)} :
          commit' = [commit EXCEPT ![w].pc = "replace", ![w].tmp = lines]
    BY <2>6
  <2>9. lines \in Seq(Entries)
    BY <2>2, <2>7, <2>8, AddedTyped, CutShortTyped
  <2>10. commit' = [commit EXCEPT ![w] = [commit[w] EXCEPT !.pc = "replace", !.tmp = lines]]
    BY <1>1, <2>8 DEF Commits
  <2> QED BY <1>3, <1>5, <1>12, <2>9, <2>10, MovesOn DEF PatchFails
<1>13. CASE Replace(w)
  BY <1>1, <1>13, Ends DEF Replace, LogOK
<1>14. CASE Kill(w)
  BY <1>5, <1>14, Ends DEF Kill
<1> QED BY <1>6, <1>7, <1>8, <1>9, <1>10, <1>11, <1>12, <1>13, <1>14, ReviewIInv, UnloggedIInv
        DEF Committing
------------------------------------------------------------------------------
LEMMA NoLearnerTyped == NoLearner \in LearnerStates
BY DEF NoLearner, LearnerStates, LearnSteps

LEMMA EarnedSubset ==
  ASSUME NEW rules, Earned(rules), NEW kept \in SUBSET rules
  PROVE  Earned(kept)
BY FS_Subset, FS_CardinalityType, ConstantsAssumption DEF Earned

(* A step of one run that touches neither the rules nor the hook.          *)
LEMMA OneLearner ==
  ASSUME IInv, NEW l \in Learners, NEW new \in LearnerStates,
         learner' = [learner EXCEPT ![l] = new],
         approved \subseteq approved', approved' \subseteq Rules, learns' \in 0..MaxLearns,
         store' = Torn \/ (Earned(store') /\ store' \subseteq Rules),
         Holds(l)',
         UNCHANGED <<hook, log, commit, logged, commits>>
  PROVE  IInv'
<1>1. CommitsOK' /\ StrictLetsOnlyPass'
  BY DEF IInv, CommitsOK, LogOK, At, StrictLetsOnlyPass
<1>2. LearningOK'
  BY DEF IInv, LearnInv, LearningOK
<1>3. RulesEarned'
  <2>1. Earned(hook.rules)'
    BY DEF IInv, LearnInv, RulesEarned, Earned
  <2>2. store' # Torn => Earned(store)'
    BY DEF Earned
  <2> QED BY <2>1, <2>2 DEF RulesEarned
<1>4. ASSUME NEW k \in Learners, k # l PROVE Holds(k)'
  <2>1. learner'[k] = learner[k] /\ Holds(k)
    BY <1>4 DEF IInv, LearnInv, LearningOK
  <2> QED BY <2>1 DEF Holds, Recurs, AtL, Asking, Earned
<1> QED BY <1>1, <1>2, <1>3, <1>4 DEF IInv, LearnInv

LEMMA ReadLogIInv ==
  ASSUME IInv, NEW l \in Learners, ReadLog(l)
  PROVE  IInv'
<1> DEFINE ev == [f \in Findings |-> Evidence(log, f)]
           new == [NoLearner EXCEPT !.pc = "load", !.evidence = ev]
<1>1. log \in Seq(Entries)
  BY DEF ReadLog, IInv, CommitsOK, LogOK
<1>2. ev \in [Findings -> Nat]
  <2> SUFFICES ASSUME NEW f \in Findings PROVE Evidence(log, f) \in Nat
    OBVIOUS
  <2>1. Len(log) \in Nat
    BY <1>1, LenProperties
  <2> DEFINE seen == {i \in 1..Len(log) : f \in log[i].found}
  <2>2. IsFiniteSet(1..Len(log)) /\ seen \in SUBSET (1..Len(log))
    BY <2>1, FS_Interval
  <2>3. IsFiniteSet(seen)
    BY <2>2, FS_Subset
  <2> QED BY <2>3, FS_CardinalityType DEF Evidence
<1> HIDE DEF ev
<1>3. new \in LearnerStates /\ new.pc = "load"
  BY <1>2, NoLearnerTyped DEF LearnerStates, LearnSteps
<1>4. learner' = [learner EXCEPT ![l] = new]
  BY DEF ReadLog, ev
<1> HIDE DEF new
<1>5. Holds(l)'
  BY <1>3, <1>4 DEF Holds, AtL, IInv, LearnInv, LearningOK
<1>6. learns' \in 0..MaxLearns
  BY ConstantsAssumption DEF ReadLog, IInv, LearnInv, LearningOK
<1>7. /\ UNCHANGED <<hook, log, store, commit, approved, logged, commits>>
      /\ store = Torn \/ (Earned(store) /\ store \subseteq Rules)
      /\ approved \subseteq Rules
  BY DEF ReadLog, IInv, LearnInv, LearningOK, RulesEarned
<1> QED BY <1>3, <1>4, <1>5, <1>6, <1>7, OneLearner

(* All other steps leave the number of runs alone.                         *)
LEMMA LearnerMoves ==
  ASSUME IInv, NEW l \in Learners, NEW new \in LearnerStates,
         learner' = [learner EXCEPT ![l] = new],
         approved \subseteq approved', approved' \subseteq Rules,
         store' = store \/ store' = Torn \/ (Earned(store') /\ store' \subseteq Rules),
         Holds(l)',
         UNCHANGED <<hook, log, commit, logged, commits, learns>>
  PROVE  IInv'
<1>1. learns' \in 0..MaxLearns
  BY DEF IInv, LearnInv, LearningOK
<1>2. store' = Torn \/ (Earned(store') /\ store' \subseteq Rules)
  BY DEF IInv, LearnInv, LearningOK, RulesEarned
<1> QED BY <1>1, <1>2, OneLearner

LEMMA QuitHolds ==
  ASSUME IInv, NEW l \in Learners, Quit(l)
  PROVE  Holds(l)' /\ learner' = [learner EXCEPT ![l] = NoLearner]
BY DEF Quit, Holds, AtL, NoLearner, IInv, LearnInv, LearningOK

LEMMA LoadRulesIInv ==
  ASSUME IInv, NEW l \in Learners, LoadRules(l)
  PROVE  IInv'
<1> DEFINE me == learner[l]
           patterns == DetectPatterns(me.evidence)
           active == CheckRetirement(store, patterns)
           candidates == patterns \ FindingsOf(active)
           pc == IF candidates = {} THEN "save" ELSE "ask"
           new == [me EXCEPT !.pc = pc, !.candidates = candidates, !.learned = active]
<1>1. /\ me \in LearnerStates /\ learner \in [Learners -> LearnerStates] /\ approved \subseteq Rules
      /\ store # Torn => store \subseteq Rules /\ Earned(store)
  BY DEF IInv, LearnInv, LearningOK, RulesEarned
<1>2. UNCHANGED <<hook, log, store, commit, approved, logged, commits, learns>>
  BY DEF LoadRules
<1>3. CASE Quit(l)
  BY <1>1, <1>2, <1>3, NoLearnerTyped, QuitHolds, LearnerMoves
<1>4. CASE ~Quit(l)
  <2>1. store # Torn /\ learner' = [learner EXCEPT ![l] = new]
    <3>1. /\ IF store = Torn \/ (patterns = {} /\ store = {})
             THEN Quit(l)
             ELSE learner' = [learner EXCEPT ![l].pc = pc, ![l].candidates = candidates,
                                             ![l].learned = active]
      BY DEF LoadRules
    <3>2. /\ store # Torn
          /\ learner' = [learner EXCEPT ![l].pc = pc, ![l].candidates = candidates,
                                        ![l].learned = active]
      BY <1>4, <3>1
    <3> HIDE DEF pc, candidates, active
    <3> QED BY <1>1, <3>2 DEF LearnerStates
  <2>2. active \in SUBSET store /\ Earned(active)
    BY <1>1, <2>1, EarnedSubset DEF CheckRetirement
  <2>3. candidates \subseteq Findings /\ pc \in LearnSteps
    BY DEF DetectPatterns, LearnSteps
  <2>4. active \subseteq Rules /\ FindingsOf(active) \subseteq patterns
    BY <1>1, <2>1, <2>2 DEF CheckRetirement, FindingsOf
  <2> HIDE DEF active
  <2>5. /\ new \in LearnerStates /\ new.pc = pc /\ new.candidates = candidates
        /\ new.learned = active /\ new.evidence = me.evidence
    BY <1>1, <2>3, <2>4 DEF LearnerStates
  <2> HIDE DEF new
  <2>6. learner'[l] = new
    BY <1>1, <2>1
  <2>7. Holds(l)'
    BY <1>2, <2>2, <2>4, <2>5, <2>6 DEF Holds, Recurs, AtL, Asking, Earned
  <2> QED BY <1>1, <1>2, <2>1, <2>5, <2>7, LearnerMoves
<1> QED BY <1>3, <1>4

LEMMA AnswerIInv ==
  ASSUME IInv, NEW l \in Learners, Answer(l)
  PROVE  IInv'
<1> DEFINE me == learner[l]
<1>1. /\ me \in LearnerStates /\ learner \in [Learners -> LearnerStates] /\ approved \subseteq Rules
      /\ Asking(l) /\ Recurs(l) /\ me.pc = "ask" /\ learns \in 0..MaxLearns
  BY DEF IInv, LearnInv, LearningOK, Holds, Answer, AtL
<1>2. PICK f \in me.candidates : Approve(l, f) \/ Reject(l, f)
  BY DEF Answer
<1>3. UNCHANGED <<hook, log, store, commit, logged, commits, learns>>
  BY DEF Answer
<1>4. f \in Findings /\ me.evidence[f] >= Threshold /\ f \notin FindingsOf(me.learned)
  BY <1>1 DEF LearnerStates, Asking, DetectPatterns
<1>5. CASE Approve(l, f)
  <2> DEFINE rule == [finding |-> f, evidence |-> me.evidence[f], at |-> learns]
             learned == me.learned \cup {rule}
             candidates == me.candidates \ {f}
             new == [me EXCEPT !.learned = learned, !.candidates = candidates]
  <2>1. rule \in Rules /\ rule.finding = f /\ rule.evidence = me.evidence[f]
    BY <1>1, <1>4 DEF Rules, LearnerStates
  <2>2. approved' = approved \cup {rule}
    BY <1>5 DEF Approve
  <2>3. learner' = [learner EXCEPT ![l].learned = @ \cup {rule}, ![l].candidates = @ \ {f}]
    BY <1>5 DEF Approve
  <2> HIDE DEF rule
  <2>4. learner' = [learner EXCEPT ![l] = new]
    BY <1>1, <2>3 DEF LearnerStates
  <2>5. IsFiniteSet(learned)
    BY <1>1, FS_AddElement DEF Asking
  <2>6. \A r \in me.learned : r.finding # f
    BY <1>4 DEF FindingsOf
  <2>7. /\ \A r \in learned : r.evidence >= Threshold
        /\ \A r, q \in learned : r.finding = q.finding => r = q
    BY <1>1, <1>4, <2>1, <2>6 DEF Asking
  <2>8. /\ candidates \subseteq DetectPatterns(me.evidence) \ FindingsOf(learned)
        /\ FindingsOf(learned) \subseteq DetectPatterns(me.evidence)
    BY <1>1, <2>1 DEF Asking, Recurs, FindingsOf
  <2>9. learned \subseteq approved' /\ approved' \subseteq Rules /\ learned \subseteq Rules
    BY <1>1, <2>1, <2>2 DEF Asking
  <2> HIDE DEF learned, candidates
  <2>10. /\ new \in LearnerStates /\ new.pc = "ask" /\ new.learned = learned
         /\ new.candidates = candidates /\ new.evidence = me.evidence
    <3>1. candidates \subseteq Findings
      BY <1>1 DEF LearnerStates, candidates
    <3> QED BY <1>1, <2>9, <3>1 DEF LearnerStates
  <2> HIDE DEF new
  <2>11. learner'[l] = new
    BY <1>1, <2>4
  <2>12. Holds(l)'
    BY <2>5, <2>7, <2>8, <2>9, <2>10, <2>11 DEF Holds, Recurs, AtL, Asking
  <2> QED BY <1>3, <2>2, <2>4, <2>9, <2>10, <2>12, LearnerMoves
<1>6. CASE Reject(l, f)
  <2> DEFINE candidates == me.candidates \ {f}
             new == [me EXCEPT !.candidates = candidates]
  <2>1. learner' = [learner EXCEPT ![l].candidates = @ \ {f}] /\ approved' = approved
    BY <1>6 DEF Reject
  <2>2. learner' = [learner EXCEPT ![l] = new]
    BY <1>1, <2>1 DEF LearnerStates
  <2>3. /\ new \in LearnerStates /\ new.pc = "ask" /\ new.learned = me.learned
        /\ new.candidates = candidates /\ new.evidence = me.evidence
    BY <1>1 DEF LearnerStates
  <2> HIDE DEF new
  <2>4. learner'[l] = new
    BY <1>1, <2>2
  <2>5. Holds(l)'
    BY <1>1, <2>1, <2>3, <2>4 DEF Holds, Recurs, AtL, Asking
  <2> QED BY <1>1, <1>3, <2>1, <2>2, <2>3, <2>5, LearnerMoves
<1> QED BY <1>2, <1>5, <1>6

LEMMA EnforceCapIInv ==
  ASSUME IInv, NEW l \in Learners, EnforceCap(l)
  PROVE  IInv'
<1> DEFINE me == learner[l]
<1>1. /\ me \in LearnerStates /\ learner \in [Learners -> LearnerStates] /\ approved \subseteq Rules
      /\ Asking(l) /\ Recurs(l)
  BY DEF IInv, LearnInv, LearningOK, Holds, EnforceCap, AtL
<1>2. UNCHANGED <<hook, log, store, commit, approved, logged, commits, learns>>
  BY DEF EnforceCap
<1>3. PICK kept \in Trimmed(me.learned) :
        learner' = [learner EXCEPT ![l].pc = "save", ![l].learned = kept]
  BY DEF EnforceCap
<1> DEFINE new == [me EXCEPT !.pc = "save", !.learned = kept]
<1>4. kept \subseteq me.learned /\ Cardinality(kept) <= RulesCap
  <2>1. CASE Cardinality(me.learned) <= RulesCap
    BY <2>1 DEF Trimmed
  <2>2. CASE ~(Cardinality(me.learned) <= RulesCap)
    BY <2>2, ConstantsAssumption DEF Trimmed
  <2> QED BY <2>1, <2>2
<1>5. Earned(kept) /\ FindingsOf(kept) \subseteq DetectPatterns(me.evidence)
  <2>1. Earned(kept)
    BY <1>1, <1>4, FS_Subset DEF Asking, Earned
  <2> QED BY <1>1, <1>4, <2>1 DEF Recurs, FindingsOf
<1>6. learner' = [learner EXCEPT ![l] = new]
  BY <1>1, <1>3 DEF LearnerStates
<1>7. /\ new \in LearnerStates /\ new.pc = "save" /\ new.learned = kept
      /\ new.evidence = me.evidence
  BY <1>1, <1>4 DEF LearnerStates, LearnSteps
<1> HIDE DEF new
<1>8. Holds(l)'
  BY <1>1, <1>2, <1>5, <1>6, <1>7 DEF Holds, Recurs, AtL, Earned
<1> QED BY <1>1, <1>2, <1>6, <1>7, <1>8, LearnerMoves

LEMMA TruncateIInv ==
  ASSUME IInv, NEW l \in Learners, Truncate(l)
  PROVE  IInv'
<1> DEFINE me == learner[l]
           new == [me EXCEPT !.pc = "fill"]
<1>1. /\ me \in LearnerStates /\ learner \in [Learners -> LearnerStates] /\ approved \subseteq Rules
      /\ Earned(me.learned) /\ Recurs(l)
  BY DEF IInv, LearnInv, LearningOK, Holds, Truncate, AtL
<1>2. store' = Torn /\ UNCHANGED <<hook, log, commit, approved, logged, commits, learns>>
      /\ learner' = [learner EXCEPT ![l].pc = "fill"]
  BY DEF Truncate
<1>3. learner' = [learner EXCEPT ![l] = new]
  BY <1>1, <1>2 DEF LearnerStates
<1>4. /\ new \in LearnerStates /\ new.pc = "fill" /\ new.learned = me.learned
      /\ new.evidence = me.evidence
  BY <1>1 DEF LearnerStates, LearnSteps
<1> HIDE DEF new
<1>5. Holds(l)'
  BY <1>1, <1>2, <1>3, <1>4 DEF Holds, Recurs, AtL, Earned
<1> QED BY <1>1, <1>2, <1>3, <1>4, <1>5, LearnerMoves

LEMMA FillIInv ==
  ASSUME IInv, NEW l \in Learners, Fill(l)
  PROVE  IInv'
<1>1. /\ learner[l] \in LearnerStates /\ approved \subseteq Rules /\ Earned(learner[l].learned)
  BY DEF IInv, LearnInv, LearningOK, Holds, Fill, AtL
<1>2. learner[l].learned \subseteq Rules
  BY <1>1 DEF LearnerStates
<1>3. /\ store' = learner[l].learned \/ store' = Torn
      /\ Quit(l) /\ UNCHANGED <<hook, log, commit, approved, logged, commits, learns>>
  BY DEF Fill
<1> QED BY <1>1, <1>2, <1>3, NoLearnerTyped, QuitHolds, LearnerMoves

LEMMA AbortIInv ==
  ASSUME IInv, NEW l \in Learners, Abort(l)
  PROVE  IInv'
<1>1. approved \subseteq Rules
  BY DEF IInv, LearnInv, LearningOK
<1>2. Quit(l) /\ UNCHANGED <<hook, log, store, commit, approved, logged, commits, learns>>
  BY DEF Abort
<1> QED BY <1>1, <1>2, NoLearnerTyped, QuitHolds, LearnerMoves
------------------------------------------------------------------------------
LEMMA StoreIInv ==
  ASSUME IInv, ApplyCGA \/ DeleteStore
  PROVE  IInv'
<1>1. UNCHANGED <<log, commit, learner, approved, logged, commits, learns>>
  BY DEF ApplyCGA, DeleteStore
<1>2. CommitsOK' /\ StrictLetsOnlyPass'
  BY <1>1 DEF IInv, CommitsOK, LogOK, At, StrictLetsOnlyPass
<1>3. \A l \in Learners : Holds(l)'
  BY <1>1 DEF IInv, LearnInv, Holds, Recurs, AtL, Asking, Earned
<1>4. CASE ApplyCGA
  <2>1. PICK strict \in BOOLEAN : hook' = [strict |-> strict, rules |-> store]
    BY <1>4 DEF ApplyCGA
  <2>2. store # Torn /\ store' = store
    BY <1>4 DEF ApplyCGA
  <2>3. LearningOK' /\ RulesEarned'
    BY <1>1, <2>1, <2>2 DEF IInv, LearnInv, LearningOK, RulesEarned, Earned
  <2> QED BY <1>2, <1>3, <2>3 DEF IInv, LearnInv
<1>5. CASE DeleteStore
  <2>1. store' = {} /\ hook' = hook
    BY <1>5 DEF DeleteStore
  <2>2. LearningOK' /\ RulesEarned'
    BY <1>1, <2>1, FS_EmptySet, ConstantsAssumption
       DEF IInv, LearnInv, LearningOK, RulesEarned, Earned
  <2> QED BY <1>2, <1>3, <2>2 DEF IInv, LearnInv
<1> QED BY <1>4, <1>5

LEMMA InitIInv == Init => IInv
<1> SUFFICES ASSUME Init PROVE IInv
  OBVIOUS
<1>1. <<>> \in Seq(Entries) /\ <<>> \in Seq(1..MaxCommits)
  BY EmptySeq
<1>2. CommitsOK
  BY <1>1, NoCommitTyped, ConstantsAssumption DEF Init, CommitsOK, LogOK, At, NoCommit
<1>3. StrictLetsOnlyPass
  BY DEF Init, StrictLetsOnlyPass, NoCommit
<1>4. \A l \in Learners : Holds(l)
  BY DEF Init, Holds, AtL, NoLearner
<1>5. LearningOK /\ RulesEarned
  BY NoLearnerTyped, FS_EmptySet, ConstantsAssumption
     DEF Init, LearningOK, RulesEarned, Earned
<1> QED BY <1>2, <1>3, <1>4, <1>5 DEF IInv, LearnInv

LEMMA StepIInv == IInv /\ [Next]_vars => IInv'
<1> SUFFICES ASSUME IInv, [Next]_vars PROVE IInv'
  OBVIOUS
<1>1. ASSUME NEW l \in Learners, Learning(l) PROVE IInv'
  BY <1>1, ReadLogIInv, LoadRulesIInv, AnswerIInv, EnforceCapIInv, TruncateIInv, FillIInv,
     AbortIInv DEF Learning
<1>2. CASE UNCHANGED vars
  BY <1>2 DEF vars, IInv, CommitsOK, LogOK, At, StrictLetsOnlyPass, LearnInv, LearningOK, RulesEarned,
              Earned, Holds, Recurs, AtL, Asking
<1> QED BY <1>1, <1>2, CommittingIInv, StoreIInv DEF Next
------------------------------------------------------------------------------
(* The log, and what will replace it, hold the recent part of the history  *)
(* ids, in order and without a gap.                                        *)
Recent(s, ids) ==
  /\ Len(s) <= Len(ids)
  /\ \A i \in 1..Len(s) : s[i].id = ids[Len(ids) - Len(s) + i] /\ s[i].ended
  /\ Len(s) >= IF Len(ids) < RotationCap THEN Len(ids) ELSE RotationCap

(* What one commit holds for the log while no other is under way.          *)
Ready(w) ==
  /\ At(w, "move") \/ At(w, "replace") => Recent(commit[w].tmp, logged)
  /\ At(w, "patch") =>
       /\ Lines # <<>>
       /\ \E e \in Entries : commit[w].tmp = <<e>> /\ e.id = Last.id /\ e.ended

LogInv ==
  logged # Absent =>
    /\ \A v, w \in Worktrees : ~At(v, "idle") /\ ~At(w, "idle") => v = w
    /\ Recent(Lines, logged)
    /\ \A w \in Worktrees : Ready(w)

LEMMA RecentAppended ==
  ASSUME NEW s \in Seq(Entries), NEW ids \in Seq(1..MaxCommits), Recent(s, ids),
         NEW e \in Entries, NEW id \in 1..MaxCommits, e.id = id, e.ended
  PROVE  Recent(Append(s, e), ids \o <<id>>)
<1>1. /\ Len(s) \in Nat /\ Len(ids) \in Nat /\ <<id>> \in Seq(1..MaxCommits)
      /\ Len(<<id>>) = 1 /\ <<id>>[1] = id
  BY LenProperties
<1>2. /\ Len(ids \o <<id>>) = Len(ids) + 1
      /\ \A i \in 1..Len(ids) + 1 :
           (ids \o <<id>>)[i] = IF i <= Len(ids) THEN ids[i] ELSE <<id>>[i - Len(ids)]
  BY <1>1, ConcatProperties
<1>3. /\ Len(Append(s, e)) = Len(s) + 1
      /\ \A i \in 1..Len(s) + 1 : Append(s, e)[i] = IF i <= Len(s) THEN s[i] ELSE e
  BY <1>1
<1>4. \A i \in 1..Len(s) + 1 :
        Append(s, e)[i].id = (ids \o <<id>>)[(Len(ids) + 1) - (Len(s) + 1) + i]
  <2> SUFFICES ASSUME NEW i \in 1..Len(s) + 1
               PROVE  Append(s, e)[i].id = (ids \o <<id>>)[(Len(ids) + 1) - (Len(s) + 1) + i]
    OBVIOUS
  <2> DEFINE j == (Len(ids) + 1) - (Len(s) + 1) + i
  <2>1. j \in 1..Len(ids) + 1 /\ j = Len(ids) - Len(s) + i /\ (j <= Len(ids) <=> i <= Len(s))
        /\ (i = Len(s) + 1 => j - Len(ids) = 1)
    <3>1. Len(s) <= Len(ids)
      BY DEF Recent
    <3>2. ASSUME NEW a \in Nat, NEW b \in Nat, a <= b, NEW k \in 1..a + 1
          PROVE  LET c == (b + 1) - (a + 1) + k
                 IN  c \in 1..b + 1 /\ c = b - a + k /\ (c <= b <=> k <= a)
                     /\ (k = a + 1 => c - b = 1)
      BY <3>2
    <3> QED BY <1>1, <3>1, <3>2
  <2> HIDE DEF j
  <2>2. CASE i <= Len(s)
    <3>1. s[i].id = ids[j]
      BY <1>1, <2>1, <2>2 DEF Recent
    <3> QED BY <1>2, <1>3, <2>1, <2>2, <3>1 DEF j
  <2>3. CASE ~(i <= Len(s))
    <3>1. j - Len(ids) = 1
      <4>1. i = Len(s) + 1
        BY <1>1, <2>3
      <4> QED BY <2>1, <4>1
    <3>2. (ids \o <<id>>)[j] = id
      BY <1>1, <1>2, <2>1, <2>3, <3>1
    <3> QED BY <1>3, <2>3, <3>2 DEF j
  <2> QED BY <2>2, <2>3
<1>5. /\ Len(s) + 1 <= Len(ids) + 1
      /\ Len(s) + 1 >= IF Len(ids) + 1 < RotationCap THEN Len(ids) + 1 ELSE RotationCap
  <2>1. /\ Len(s) <= Len(ids) /\ RotationCap \in Nat
        /\ Len(s) >= IF Len(ids) < RotationCap THEN Len(ids) ELSE RotationCap
    BY ConstantsAssumption DEF Recent
  <2> QED BY <1>1, <2>1
<1> DEFINE t == Append(s, e)
           jds == ids \o <<id>>
<1>6. Len(t) = Len(s) + 1 /\ Len(jds) = Len(ids) + 1
  BY <1>2, <1>3
<1>7. \A i \in 1..Len(s) + 1 :
        t[i].id = jds[(Len(ids) + 1) - (Len(s) + 1) + i] /\ t[i].ended
  BY <1>3, <1>4 DEF Recent
<1> HIDE DEF t, jds
<1>8. Recent(t, jds)
  BY <1>5, <1>6, <1>7 DEF Recent
<1> QED BY <1>8 DEF t, jds

LEMMA RecentRotated ==
  ASSUME NEW s \in Seq(Entries), NEW ids \in Seq(1..MaxCommits), Recent(s, ids)
  PROVE  Recent(LastN(s, RotationCap), ids)
<1> DEFINE m == Len(s) - RotationCap + 1
           t == SubSeq(s, m, Len(s))
<1>1. Len(s) \in Nat /\ Len(ids) \in Nat /\ RotationCap \in Nat \ {0}
      /\ \A i \in 1..Len(s) : s[i] \in Entries
  BY LenProperties, ElementOfSeq, ConstantsAssumption
<1>2. CASE Len(s) <= RotationCap
  BY <1>2 DEF LastN
<1>3. CASE ~(Len(s) <= RotationCap)
  <2>1. m \in Int /\ Len(s) \in Int /\ m >= 1 /\ m <= Len(s) /\ Len(s) - m + 1 = RotationCap
    BY <1>1, <1>3
  <2>2. \A i \in m..Len(s) : s[i] \in Entries
    BY <1>1, <2>1
  <2>3. m = Len(s) - RotationCap + 1
    OBVIOUS
  <2> HIDE DEF m
  <2>4. Len(t) = RotationCap /\ \A i \in 1..RotationCap : t[i] = s[m + i - 1]
    BY <2>1, <2>2, SubSeqProperties
  <2>5. ASSUME NEW i \in 1..RotationCap
        PROVE  t[i].id = ids[Len(ids) - RotationCap + i] /\ t[i].ended
    <3>1. /\ m + i - 1 \in 1..Len(s)
          /\ Len(ids) - Len(s) + (m + i - 1) = Len(ids) - RotationCap + i
      BY <1>1, <1>3, <2>3
    <3>2. s[m + i - 1].id = ids[Len(ids) - RotationCap + i] /\ s[m + i - 1].ended
      BY <3>1 DEF Recent
    <3> QED BY <2>4, <3>2
  <2> HIDE DEF t
  <2>6. Recent(t, ids)
    BY <1>1, <1>3, <2>4, <2>5 DEF Recent
  <2> QED BY <1>3, <2>6 DEF LastN, t, m
<1> QED BY <1>2, <1>3

LEMMA RecentPatched ==
  ASSUME NEW s \in Seq(Entries), s # <<>>, NEW ids \in Seq(1..MaxCommits), Recent(s, ids),
         NEW e \in Entries, e.id = s[Len(s)].id, e.ended
  PROVE  Recent(AllButLast(s) \o <<e>>, ids)
<1> DEFINE k == Len(s) - 1
           t == AllButLast(s)
<1>1. Len(s) \in Nat \ {0} /\ \A i \in 1..Len(s) : s[i] \in Entries
  BY EmptySeq, ElementOfSeq
<1>2. k \in Nat /\ k = Len(s) - 1 /\ \A i \in 1..k : s[i] \in Entries
  BY <1>1
<1> HIDE DEF k
<1>3. t \in Seq(Entries) /\ Len(t) = k /\ \A i \in 1..k : t[i] = s[i]
  <2>1. /\ SubSeq(s, 1, k) \in Seq(Entries)
        /\ Len(SubSeq(s, 1, k)) = IF 1 <= k THEN k - 1 + 1 ELSE 0
        /\ \A i \in 1..k - 1 + 1 : SubSeq(s, 1, k)[i] = s[1 + i - 1]
    BY <1>2, SubSeqProperties
  <2>2. t = SubSeq(s, 1, k)
    <3>1. s[Len(s)].ended
      BY <1>1 DEF Recent
    <3> QED BY <3>1 DEF AllButLast, k
  <2> QED BY <1>2, <2>1, <2>2
<1> HIDE DEF t
<1>4. <<e>> \in Seq(Entries) /\ Len(<<e>>) = 1 /\ <<e>>[1] = e
  OBVIOUS
<1>5. /\ Len(t \o <<e>>) = k + 1
      /\ \A i \in 1..k + 1 : (t \o <<e>>)[i] = IF i <= k THEN t[i] ELSE <<e>>[i - k]
  BY <1>3, <1>4, ConcatProperties
<1>6. ASSUME NEW i \in 1..Len(s) PROVE (t \o <<e>>)[i].id = s[i].id /\ (t \o <<e>>)[i].ended
  <2>1. CASE i <= k
    <3>1. i \in 1..k /\ i \in 1..k + 1 /\ s[i].ended
      BY <1>1, <1>2, <2>1 DEF Recent
    <3> QED BY <1>3, <1>5, <2>1, <3>1
  <2>2. CASE ~(i <= k)
    <3>1. i = Len(s) /\ i - k = 1 /\ i \in 1..k + 1
      BY <1>1, <1>2, <2>2
    <3>2. (t \o <<e>>)[i] = e
      BY <1>4, <1>5, <2>2, <3>1
    <3> QED BY <3>1, <3>2
  <2> QED BY <2>1, <2>2
<1>7. Len(t \o <<e>>) = Len(s)
  BY <1>1, <1>2, <1>5
<1>8. Recent(t \o <<e>>, ids)
  BY <1>6, <1>7 DEF Recent
<1> QED BY <1>8 DEF t

(* The two forms of the property.                                          *)
LEMMA RecentIsLastN ==
  ASSUME NEW s \in Seq(Entries), NEW ids \in Seq(1..MaxCommits), Recent(s, ids)
  PROVE  Ids(s) = LastN(ids, Len(s))
<1> DEFINE n == Len(s)
           m == Len(ids) - n + 1
           t == LastN(ids, n)
<1>1. /\ n \in Nat /\ Len(ids) \in Nat /\ n <= Len(ids)
      /\ \A i \in 1..Len(ids) : ids[i] \in 1..MaxCommits
      /\ \A i \in 1..n : s[i].id = ids[Len(ids) - n + i] /\ s[i].id \in 1..MaxCommits
  <2>1. n \in Nat /\ Len(ids) \in Nat /\ n <= Len(ids)
    BY LenProperties DEF Recent
  <2>2. \A i \in 1..Len(ids) : ids[i] \in 1..MaxCommits
    BY ElementOfSeq
  <2>3. \A i \in 1..n : s[i].id = ids[Len(ids) - n + i]
    BY DEF Recent
  <2> HIDE DEF n
  <2>4. \A i \in 1..n : Len(ids) - n + i \in 1..Len(ids)
    BY <2>1
  <2> QED BY <2>1, <2>2, <2>3, <2>4
<1>2. Ids(s) = [i \in 1..n |-> s[i].id]
  BY DEF Ids
<1> HIDE DEF n
<1>3. Ids(s) \in Seq(1..MaxCommits) /\ Len(Ids(s)) = n /\ \A i \in 1..n : Ids(s)[i] = s[i].id
  BY <1>1, <1>2
<1>4. t \in Seq(1..MaxCommits) /\ Len(t) = n /\ \A i \in 1..n : t[i] = ids[Len(ids) - n + i]
  <2>1. CASE Len(ids) <= n
    <3>1. t = ids
      BY <2>1 DEF LastN
    <3>2. n \in Nat /\ Len(ids) \in Nat /\ n <= Len(ids)
      BY <1>1
    <3>3. Len(ids) = n
      BY <2>1, <3>2
    <3>4. \A i \in 1..n : Len(ids) - n + i = i
      BY <3>2, <3>3
    <3> HIDE DEF t
    <3> QED BY <1>1, <3>1, <3>3, <3>4
  <2>2. CASE ~(Len(ids) <= n)
    <3>1. m \in Int /\ Len(ids) \in Int /\ m >= 1 /\ m <= Len(ids) + 1
      BY <1>1, <2>2
    <3>2. \A i \in m..Len(ids) : ids[i] \in 1..MaxCommits
      BY <1>1, <3>1
    <3> DEFINE u == SubSeq(ids, m, Len(ids))
    <3>3. m = Len(ids) - n + 1
      OBVIOUS
    <3> HIDE DEF m
    <3>4. /\ u \in Seq(1..MaxCommits)
          /\ Len(u) = IF m <= Len(ids) THEN Len(ids) - m + 1 ELSE 0
          /\ \A i \in 1..Len(ids) - m + 1 : u[i] = ids[m + i - 1]
      BY <3>1, <3>2, SubSeqProperties
    <3>5. Len(ids) - m + 1 = n /\ \A i \in 1..n : m + i - 1 = Len(ids) - n + i
      BY <1>1, <3>3
    <3>6. t = u
      BY <2>2 DEF LastN, m
    <3> HIDE DEF u, t
    <3>7. Len(u) = n
      BY <1>1, <3>1, <3>4, <3>5
    <3> QED BY <3>4, <3>5, <3>6, <3>7
  <2> QED BY <2>1, <2>2
<1> HIDE DEF t
<1>5. Ids(s) = t
  BY <1>1, <1>3, <1>4, SeqEqual
<1> QED BY <1>5 DEF t, n

(* A commit begins: the history goes on only if no other is under way.     *)
LEMMA BeginLogInv ==
  ASSUME IInv, LogInv, NEW w \in Worktrees, NEW pc, NEW pass, NEW breach,
         pc \in {"rotate", "post"}, Begin(w, pc, pass, breach), logged' # Absent,
         \A v \in Worktrees : At(v, "idle"), Recent(Lines', logged')
  PROVE  LogInv'
<1>1. commit \in [Worktrees -> Commits] /\ commit'[w].pc = pc
      /\ \A v \in Worktrees : v # w => commit'[v] = commit[v]
  BY DEF IInv, CommitsOK, Begin, NoCommit
<1>2. \A v \in Worktrees : v # w => At(v, "idle")'
  BY <1>1 DEF At
<1>3. \A v \in Worktrees : Ready(v)'
  BY <1>1, <1>2 DEF Ready, At
<1> QED BY <1>2, <1>3 DEF LogInv

(* A line that is added where every line ends is a line of its own.        *)
LEMMA AddedRecent ==
  ASSUME NEW s \in Seq(Entries), NEW ids, Recent(s, ids), NEW e
  PROVE  Added(s, e) = Append(s, e)
<1>1. CASE s # <<>>
  <2>1. Len(s) \in 1..Len(s)
    BY <1>1, EmptySeq
  <2> QED BY <2>1 DEF Recent, Added
<1>2. CASE s = <<>>
  BY <1>2 DEF Added
<1> QED BY <1>1, <1>2

LEMMA BeginningLogInv ==
  ASSUME IInv, LogInv, NEW w \in Worktrees,
         Review(w) \/ AppendFails(w) \/ ReviewUnlogged(w) \/ Unreviewed(w)
  PROVE  LogInv'
<1> SUFFICES ASSUME logged' # Absent PROVE LogInv'
  BY DEF LogInv
<1>0. ~AppendFails(w)
  BY DEF AppendFails
<1>1. /\ logged # Absent /\ \A v \in Worktrees : At(v, "idle")
      /\ Lines \in Seq(Entries) /\ logged \in Seq(1..MaxCommits) /\ commits \in 0..MaxCommits
      /\ Recent(Lines, logged)
  BY <1>0, LinesTyped DEF Review, ReviewUnlogged, Unreviewed, Extended, IInv, CommitsOK, LogInv
<1>2. CASE Review(w)
  <2>1. PICK said \in Parsed, found \in SUBSET Findings :
          /\ Begin(w, "rotate", Through(said), Breach(said))
          /\ log' = Added(Lines, NewLine(found))
    BY <1>2 DEF Review
  <2>2. commits + 1 \in 1..MaxCommits
    BY <1>1, <2>1, ConstantsAssumption DEF Begin
  <2>3. PICK e : e = NewLine(found)
    OBVIOUS
  <2>4. e \in Entries /\ e.id = commits + 1 /\ e.ended
    BY <2>2, <2>3, ConstantsAssumption DEF NewLine, Entries, Pending
  <2>5. log' = Append(Lines, e)
    BY <1>1, <2>1, <2>3, AddedRecent
  <2>6. log' \in Seq(Entries)
    BY <1>1, <2>4, <2>5
  <2>7. Lines' = log'
    BY <2>6, AbsentAssumption DEF Lines
  <2>8. logged' = logged \o <<commits + 1>>
    BY <1>1, <1>2 DEF Review, Extended
  <2>9. Recent(Lines', logged')
    BY <1>1, <2>2, <2>4, <2>5, <2>7, <2>8, RecentAppended
  <2> QED BY <1>1, <2>1, <2>9, BeginLogInv
<1>3. CASE ReviewUnlogged(w) \/ Unreviewed(w)
  <2>1. PICK pass, breach : Begin(w, "post", pass, breach)
    BY <1>3 DEF ReviewUnlogged, Unreviewed
  <2>2. Lines' = Lines /\ logged' = logged \o <<>>
    BY <1>1, <1>3 DEF ReviewUnlogged, Unreviewed, Extended, Lines
  <2>3. logged' = logged
    BY <1>1, <2>2, ConcatEmptySeq
  <2> QED BY <1>1, <2>1, <2>2, <2>3, BeginLogInv
<1> QED BY <1>0, <1>2, <1>3

(* Every other step is of a commit under way, the only one.                *)
LEMMA MovesLogInv ==
  ASSUME IInv, LogInv, NEW w \in Worktrees, ~At(w, "idle"), logged' = logged \/ logged' = Absent,
         commit' = [commit EXCEPT ![w] = commit'[w]],
         logged' # Absent => Recent(Lines', logged) /\ Ready(w)'
  PROVE  LogInv'
<1> SUFFICES ASSUME logged' # Absent PROVE LogInv'
  BY DEF LogInv
<1>1. \A v \in Worktrees : v # w => At(v, "idle")
  BY DEF LogInv
<1>2. \A v \in Worktrees : v # w => commit'[v] = commit[v]
  BY DEF IInv, CommitsOK
<1>3. \A v \in Worktrees : v # w => At(v, "idle")'
  BY <1>1, <1>2 DEF At
<1>4. \A v \in Worktrees : Ready(v)'
  BY <1>3 DEF Ready, At
<1> QED BY <1>3, <1>4 DEF LogInv

LEMMA CommittingLogInv ==
  ASSUME IInv, LogInv, NEW w \in Worktrees, Committing(w)
  PROVE  LogInv'
<1>1. /\ LogOK /\ Lines \in Seq(Entries) /\ commit[w] \in Commits /\ commit[w].tmp \in Seq(Entries)
      /\ commit[w].id \in 0..MaxCommits /\ commit \in [Worktrees -> Commits]
      /\ logged # Absent => logged \in Seq(1..MaxCommits)
      /\ UNCHANGED log => Lines' = Lines
      /\ log' \in Seq(Entries) => Lines' = log'
  BY LinesTyped, AbsentAssumption DEF IInv, CommitsOK, Commits, Lines
<1>2. logged # Absent => Recent(Lines, logged) /\ Ready(w)
  BY DEF LogInv
<1>3. ASSUME NEW pc \in {"decide", "post"}, Goto(w, pc), ~At(w, "idle"), logged' = logged,
             logged # Absent => Recent(Lines', logged)
      PROVE  LogInv'
  <2>1. commit'[w].pc = pc /\ commit' = [commit EXCEPT ![w] = commit'[w]]
    BY <1>1, <1>3 DEF Goto, Commits
  <2>2. Ready(w)'
    BY <2>1 DEF Ready, At
  <2> QED BY <1>3, <2>1, <2>2, MovesLogInv
<1>4. ASSUME Done(w), ~At(w, "idle"), logged' = logged,
             logged # Absent => Recent(Lines', logged)
      PROVE  LogInv'
  <2>1. commit'[w].pc = "idle" /\ commit' = [commit EXCEPT ![w] = commit'[w]]
    BY <1>1, <1>4 DEF Done, NoCommit
  <2>2. Ready(w)'
    BY <2>1 DEF Ready, At
  <2> QED BY <1>4, <2>1, <2>2, MovesLogInv
<1>5. CASE LogFails(w) \/ Decide(w) \/ Kill(w)
  BY <1>1, <1>2, <1>3, <1>4, <1>5 DEF LogFails, Decide, Kill, At
<1>6. CASE Rotate(w)
  <2>1. /\ commit'[w].pc = "move" /\ commit'[w].tmp = LastN(Lines, RotationCap)
        /\ commit' = [commit EXCEPT ![w] = commit'[w]]
    BY <1>1, <1>6 DEF Rotate, Commits
  <2>2. ~At(w, "idle") /\ Lines' = Lines /\ logged' = logged
    BY <1>1, <1>6 DEF Rotate, At
  <2>3. logged # Absent => Ready(w)'
    BY <1>1, <1>2, <2>1, <2>2, RecentRotated DEF Ready, At
  <2> QED BY <1>2, <2>1, <2>2, <2>3, MovesLogInv
<1>7. CASE MoveLog(w)
  BY <1>1, <1>2, <1>3, <1>7 DEF MoveLog, Ready, At
<1>8. CASE ReadLast(w)
  <2>1. CASE Lines # <<>> /\ Readable(Last) /\ Last.sha = Pending
    <3> DEFINE line == [Last EXCEPT !.sha = commit[w].id, !.ended = TRUE]
    <3>1. Len(Lines) \in 1..Len(Lines)
      BY <1>1, <2>1, EmptySeq
    <3>2. Last \in Entries
      BY <1>1, <3>1, ElementOfSeq DEF Last
    <3>3. line \in Entries /\ line.id = Last.id /\ line.ended
      BY <1>1, <3>2 DEF Entries
    <3>4. commit' = [commit EXCEPT ![w].pc = "patch", ![w].tmp = <<line>>]
      BY <1>8, <2>1 DEF ReadLast
    <3> HIDE DEF line
    <3>5. /\ commit'[w].pc = "patch" /\ commit'[w].tmp = <<line>>
          /\ commit' = [commit EXCEPT ![w] = commit'[w]]
      BY <1>1, <3>4 DEF Commits
    <3>6. ~At(w, "idle") /\ Lines' = Lines /\ logged' = logged
      BY <1>1, <1>8 DEF ReadLast, At
    <3>7. Last' = Last
      BY <3>6 DEF Last
    <3>8. Ready(w)'
      BY <2>1, <3>3, <3>5, <3>6, <3>7 DEF Ready, At
    <3> QED BY <1>2, <3>5, <3>6, <3>8, MovesLogInv
  <2>2. CASE ~(Lines # <<>> /\ Readable(Last) /\ Last.sha = Pending)
    BY <1>1, <1>2, <1>4, <1>8, <2>2 DEF ReadLast, At
  <2> QED BY <2>1, <2>2
<1>9. CASE Patch(w)
  <2>1. /\ commit'[w].pc = "replace" /\ commit'[w].tmp = AllButLast(Lines) \o commit[w].tmp
        /\ commit' = [commit EXCEPT ![w] = commit'[w]]
    BY <1>1, <1>9 DEF Patch, Commits
  <2>2. ~At(w, "idle") /\ Lines' = Lines /\ logged' = logged
    BY <1>1, <1>9 DEF Patch, At
  <2>3. ASSUME logged # Absent PROVE Ready(w)'
    <3>1. PICK e \in Entries : commit[w].tmp = <<e>> /\ e.id = Last.id /\ e.ended
      BY <1>2, <1>9, <2>3 DEF Patch, Ready, At
    <3>2. Lines # <<>>
      BY <1>2, <1>9, <2>3 DEF Patch, Ready, At
    <3>3. Recent(AllButLast(Lines) \o commit[w].tmp, logged)
      BY <1>1, <1>2, <2>3, <3>1, <3>2, RecentPatched DEF Last
    <3> QED BY <2>1, <2>2, <3>3 DEF Ready, At
  <2> QED BY <1>2, <2>1, <2>2, <2>3, MovesLogInv
<1>10. CASE PatchFails(w)
  <2>1. logged' = Absent
    BY <1>10 DEF PatchFails
  <2> QED BY <2>1 DEF LogInv
<1>11. CASE Replace(w)
  BY <1>1, <1>2, <1>4, <1>11 DEF Replace, Ready, At
<1> QED BY <1>5, <1>6, <1>7, <1>8, <1>9, <1>10, <1>11, BeginningLogInv DEF Committing

LEMMA StepLogInv == IInv /\ LogInv /\ [Next]_vars => LogInv'
<1> SUFFICES ASSUME IInv, LogInv, [Next]_vars PROVE LogInv'
  OBVIOUS
<1>1. CASE UNCHANGED <<log, commit, logged>>
  BY <1>1 DEF LogInv, Recent, Ready, At, Lines, Last
<1>2. ApplyCGA \/ DeleteStore \/ (\E l \in Learners : Learning(l)) \/ UNCHANGED vars
        => UNCHANGED <<log, commit, logged>>
  BY DEF ApplyCGA, DeleteStore, Learning, ReadLog, LoadRules, Answer, EnforceCap, Truncate,
         Fill, Abort, vars
<1> QED BY <1>1, <1>2, CommittingLogInv DEF Next

LEMMA InitLogInv == Init => LogInv
<1> SUFFICES ASSUME Init PROVE LogInv
  OBVIOUS
<1>1. Lines = <<>> /\ logged = <<>> /\ \A w \in Worktrees : commit[w].pc = "idle"
  BY DEF Init, NoCommit, Lines
<1>2. Recent(<<>>, <<>>)
  BY EmptySeq, ConstantsAssumption DEF Recent
<1> QED BY <1>1, <1>2 DEF LogInv, Ready, At

------------------------------------------------------------------------------
(* The inductive invariant: commits and learners keep their types, and     *)
(* what a run of `learn' holds between loading and saving is earned        *)
(* (internal/cga, cmd/capiko-ai/cga.go).                                   *)
THEOREM Invariance == Spec => []IInv
BY InitIInv, StepIInv, PTL DEF Spec

(* Log, rules, hook, commits and learners keep their types.                *)
THEOREM TypeCorrect == Spec => []TypeOK
<1>1. IInv => TypeOK
  BY DEF IInv, CommitsOK, LogOK, LearnInv, LearningOK, TypeOK
<1> QED BY <1>1, Invariance, PTL

(* However many runs of `learn' overlap or die, each rule in the file and  *)
(* in the hook was approved for a finding seen at least Threshold times,   *)
(* no finding has two rules, and the cap holds.                            *)
THEOREM RulesEarnedAlways == Spec => []RulesEarned
<1>1. IInv => RulesEarned
  BY DEF IInv, LearnInv
<1> QED BY <1>1, Invariance, PTL

(* With the strict policy in the hook, no commit passes an answer that     *)
(* does not say PASS: one that decodes and has one verdict passes only if  *)
(* ParseVerdict reads PASS, any other only if PASS stands somewhere in it  *)
(* (the script of hook.go; not all that ParseVerdict would demand).        *)
THEOREM StrictLetsOnlyPassAlways == Spec => []StrictLetsOnlyPass
<1>1. IInv => StrictLetsOnlyPass
  BY DEF IInv
<1> QED BY <1>1, Invariance, PTL

(* A run of `learn' saves only rules whose findings still recur in the log *)
(* it has read, though others may have saved theirs meanwhile.             *)
THEOREM LearnRetiresAlways == Spec => LearnRetires
<1>1. ASSUME IInv, [Next]_vars, NEW l \in Learners,
             AtL(l, "fill"), AtL(l, "idle")', store' \notin {store, Torn}
      PROVE  FindingsOf(store') \subseteq DetectPatterns(learner[l].evidence)
  <2>1. learner'[l] # learner[l]
    BY <1>1 DEF AtL
  <2>2. Recurs(l) /\ learner \in [Learners -> LearnerStates]
    BY <1>1 DEF IInv, LearnInv, LearningOK, Holds
  <2>3. ~(ApplyCGA \/ DeleteStore \/ UNCHANGED vars)
    BY <2>1 DEF ApplyCGA, DeleteStore, vars
  <2>4. ASSUME NEW w \in Worktrees, Committing(w) PROVE FALSE
    BY <1>1, <2>4 DEF Committing, Review, AppendFails, ReviewUnlogged, Unreviewed, LogFails, Rotate,
         MoveLog, Decide, ReadLast, Patch, PatchFails, Replace, Kill, Begin
  <2>5. PICK k \in Learners : Learning(k)
    BY <1>1, <2>3, <2>4 DEF Next
  <2>6. k = l
    BY <2>1, <2>2, <2>5 DEF Learning, ReadLog, LoadRules, Answer, Approve, Reject, EnforceCap,
         Truncate, Fill, Abort, Quit
  <2>7. store' = learner[l].learned
    BY <1>1, <2>5, <2>6 DEF Learning, ReadLog, LoadRules, Answer, EnforceCap, Truncate, Fill,
         Abort, AtL
  <2> QED BY <2>2, <2>7 DEF Recurs
<1>2. IInv /\ [Next]_vars
        => [\A l \in Learners :
              AtL(l, "fill") /\ AtL(l, "idle")' /\ store' \notin {store, Torn}
                => FindingsOf(store') \subseteq DetectPatterns(learner[l].evidence)]_vars
  BY <1>1
<1> QED BY <1>2, Invariance, PTL DEF Spec, LearnRetires

(* While no two commits overlap and no write to the log is cut short, it   *)
(* holds the reviews appended last, in order, and none that rotation       *)
(* should have kept is missing, whatever is killed between the steps of    *)
(* the two hooks and whatever else in them fails.                          *)
THEOREM LogKeepsRecentAlways == Spec => []LogKeepsRecent
<1>1. IInv /\ LogInv => LogKeepsRecent
  <2> SUFFICES ASSUME IInv, LogInv, logged # Absent
               PROVE  /\ Len(Lines) <= Len(logged)
                      /\ Ids(Lines) = LastN(logged, Len(Lines))
                      /\ Len(Lines) >= IF Len(logged) < RotationCap THEN Len(logged) ELSE RotationCap
    BY DEF LogKeepsRecent
  <2>1. Lines \in Seq(Entries) /\ logged \in Seq(1..MaxCommits) /\ Recent(Lines, logged)
    BY LinesTyped DEF IInv, CommitsOK, LogInv
  <2>2. Ids(Lines) = LastN(logged, Len(Lines))
    BY <2>1, RecentIsLastN
  <2> QED BY <2>1, <2>2 DEF Recent
<1>2. Spec => []LogInv
  BY InitLogInv, StepLogInv, Invariance, PTL DEF Spec
<1> QED BY <1>1, <1>2, Invariance, PTL
=============================================================================
