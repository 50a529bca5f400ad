---------------------------- MODULE Settings_proofs ----------------------------
(***************************************************************************)
(* What is proved of the settings, and of the saves they are kept by, for  *)
(* any processes, repositories, personas and number of commands.           *)
(*                                                                         *)
(* A command is a program of puts and at most one load at its end.  What a *)
(* program of puts makes of a disk is decided by the last put of each      *)
(* section (Runs), and a program is made of pieces that each change only   *)
(* what one setting is about (Does).  So a command that runs alone leads   *)
(* from the disk of every moment to the same disk (Underway), where what   *)
(* is recorded is wired, and which a sync has made converge (Rested).      *)
(*                                                                         *)
(* A put replaces its file in one step.  That the save behind it does is   *)
(* proved at the end, of the specification of SaveFile.                    *)
(***************************************************************************)
EXTENDS Settings, SaveFile, SequenceTheorems, TLAPS

(* Disks, and a disk with one section written.                             *)
IsDisk(d) ==
  /\ d = [f \in Files |-> [n \in Keys(f) |-> d[f][n]]]
  /\ \A f \in Files : \A n \in Keys(f) : d[f][n] \in Contents(f, n)

Written(d, c, v) == [d EXCEPT ![c[1]] = [d[c[1]] EXCEPT ![c[2]] = v]]

(* A section is a file and a key of it.                                     *)
LEMMA SectionPair ==
  ASSUME NEW f \in Files, NEW n \in Keys(f)
  PROVE  <<f, n>> \in Sections
BY DEF Sections

LEMMA SectionParts ==
  ASSUME NEW c \in Sections
  PROVE  c[1] \in Files /\ c[2] \in Keys(c[1]) /\ c = <<c[1], c[2]>>
BY DEF Sections

(* What is in a section is one of its contents.                             *)
LEMMA DiskAt ==
  ASSUME NEW d, IsDisk(d), NEW c \in Sections
  PROVE  At(d, c) \in Contents(c[1], c[2])
BY SectionParts DEF At, IsDisk

(* Writing one section changes that section and no other.                   *)
LEMMA WrittenFacts ==
  ASSUME NEW d, IsDisk(d), NEW c \in Sections, NEW v \in Contents(c[1], c[2])
  PROVE  /\ IsDisk(Written(d, c, v))
         /\ At(Written(d, c, v), c) = v
         /\ \A b \in Sections \ {c} : At(Written(d, c, v), b) = At(d, b)
<1>1. c[1] \in Files /\ c[2] \in Keys(c[1]) /\ c = <<c[1], c[2]>>
  BY SectionParts
<1> DEFINE e == Written(d, c, v)
<1>2. DOMAIN d = Files /\ \A f \in Files : DOMAIN d[f] = Keys(f)
  BY DEF IsDisk
<1>3. e = [f \in Files |-> [n \in Keys(f) |-> IF <<f, n>> = c THEN v ELSE d[f][n]]]
  <2>1. ASSUME NEW f \in Files
        PROVE  e[f] = [n \in Keys(f) |-> IF <<f, n>> = c THEN v ELSE d[f][n]]
    <3>1. CASE f = c[1]
      <4>1. e[f] = [d[f] EXCEPT ![c[2]] = v]
        BY <1>1, <1>2, <3>1 DEF Written
      <4> QED BY <4>1, <1>1, <1>2, <3>1
    <3>2. CASE f # c[1]
      <4>1. e[f] = d[f]
        BY <1>1, <1>2, <3>2 DEF Written
      <4>2. d[f] = [n \in Keys(f) |-> d[f][n]]
        BY DEF IsDisk
      <4> QED BY <4>1, <4>2, <1>1, <3>2
    <3> QED BY <3>1, <3>2
  <2>2. DOMAIN e = Files
    BY <1>2 DEF Written
  <2>3. e = [f \in Files |-> e[f]]
    BY <1>2 DEF Written
  <2> HIDE DEF e
  <2> QED BY <2>1, <2>3
<1> HIDE DEF e
<1>4. \A f \in Files : \A n \in Keys(f) : e[f][n] = IF <<f, n>> = c THEN v ELSE d[f][n]
  BY <1>3
<1>5. IsDisk(e)
  BY <1>1, <1>3, <1>4 DEF IsDisk
<1>6. At(e, c) = v /\ \A b \in Sections \ {c} : At(e, b) = At(d, b)
  BY <1>1, <1>4, SectionParts DEF At
<1> QED BY <1>5, <1>6 DEF e

(* Two disks with the same sections are the same disk.                      *)
LEMMA SameDisk ==
  ASSUME NEW d, IsDisk(d), NEW e, IsDisk(e), \A c \in Sections : At(d, c) = At(e, c)
  PROVE  d = e
<1>1. \A f \in Files : \A n \in Keys(f) : d[f][n] = e[f][n]
  <2> SUFFICES ASSUME NEW f \in Files, NEW n \in Keys(f) PROVE d[f][n] = e[f][n]
    OBVIOUS
  <2>1. At(d, <<f, n>>) = At(e, <<f, n>>)
    BY SectionPair
  <2> QED BY <2>1 DEF At
<1>2. \A f \in Files : [n \in Keys(f) |-> d[f][n]] = [n \in Keys(f) |-> e[f][n]]
  BY <1>1
<1> QED BY <1>2 DEF IsDisk
------------------------------------------------------------------------------
(* Steps, by what they do.                                                 *)
PutSteps == UNION {[do : {"put"}, at : {c}, val : Contents(c[1], c[2])] : c \in Sections}
PlainLoads(plans) == [do : {"load"}, plan : plans, at : {Absent}]
LoadsIn(plan) == [do : {"load"}, plan : {plan}, at : Repos]
Wipes == [do : {"wipe"}]

Straight == Seq(PutSteps)

(* The steps of a program of puts.                                          *)
LEMMA PutIsStraight ==
  ASSUME NEW c \in Sections, NEW v \in Contents(c[1], c[2])
  PROVE  Put(c, v) \in Straight /\ [do |-> "put", at |-> c, val |-> v] \in PutSteps
<1>1. [do |-> "put", at |-> c, val |-> v] \in PutSteps
  BY DEF PutSteps
<1> QED BY <1>1 DEF Put, Straight

LEMMA PutStepFacts ==
  ASSUME NEW s \in PutSteps
  PROVE  s.do = "put" /\ s.at \in Sections /\ s.val \in Contents(s.at[1], s.at[2])
BY DEF PutSteps

(* What the settings claim, field by field.                                *)
EditorOf(v) ==
  Where(v.on /\ v.scope = "workspace" /\ v.at # Absent, {Workspace(v.at)})
    \cup Where(v.on /\ v.scope = "user", {UserMcp})

ClaimsOf(n, v) ==
  CASE n = "agents" -> Where(v # Absent, {Agents})
    [] n = "persona" -> Where(v # "none", {Block("persona")})
    [] n = "workflow" -> Where(v # "none", {Block(v)})
    [] n = "trigger" -> Where(v, {Block("trigger")})
    [] n = "efficiency" -> Where(v, {Block("efficiency")})
    [] n = "headroom" -> Where(v, {Block("headroom"), Server("headroom")})
    [] n = "engram" -> Where(v.on, {Server("engram"), Block("memory")}) \cup EditorOf(v)
    [] n = "hooks" -> Where(v # "off", {CopilotHook(h) : h \in HookNames})
    [] n = "team" -> Where(v # Absent /\ v.on /\ ~v.conflict,
                           {GitHook(v.at, h) : h \in {"post-merge", "pre-push"}})
    [] n = "cga" -> Where(v # Absent /\ v.on,
                          {GitHook(v.at, h) : h \in {"pre-commit", "post-commit"}})
    [] OTHER -> {}

(* The claims of a disk are the claims of its fields.                       *)
LEMMA ClaimsByField ==
  ASSUME NEW d
  PROVE  \A c : c \in Claims(d) <=> \E n \in FieldNames : c \in ClaimsOf(n, St(d, n))
<1>1. EditorClaims(d) = EditorOf(St(d, "engram"))
  BY DEF EditorClaims, EditorOf
<1> QED BY <1>1 DEF Claims, TeamClaims, ClaimsOf, Where, FieldNames, Switches

(* A program of puts runs on disk d, undisturbed, to disk e: the last put   *)
(* of a section decides.  No step records what is not wired by then, what  *)
(* Engram wires late apart.                                                *)
Leads(d, prog, e) ==
  \A c \in Sections :
    \/ \E i \in 1..Len(prog) :
         /\ prog[i].at = c /\ prog[i].val = At(e, c)
         /\ \A j \in (i+1)..Len(prog) : prog[j].at # c
    \/ /\ \A i \in 1..Len(prog) : prog[i].at # c
       /\ At(d, c) = At(e, c)

(* Section c is wired when step i of prog is due, if d is the disk now.    *)
WiredBy(d, prog, i, c) ==
  \/ /\ At(d, c) # Absent
     /\ \A k \in 1..(i-1) : prog[k].at = c => prog[k].val # Absent
  \/ \E j \in 1..(i-1) :
       /\ prog[j].at = c /\ prog[j].val # Absent
       /\ \A k \in (j+1)..(i-1) : prog[k].at = c => prog[k].val # Absent

Honest(d, prog) ==
  \A i \in 1..Len(prog) :
    prog[i].at[1] = "state" =>
      \A c \in ClaimsOf(prog[i].at[2], prog[i].val) \ Late : c \in Sections => WiredBy(d, prog, i, c)

Runs(d, prog, e) ==
  /\ IsDisk(d) /\ IsDisk(e) /\ prog \in Straight
  /\ Leads(d, prog, e) /\ Honest(d, prog)

(* Programs that run: nothing, one put, and one program after another.      *)
LEMMA RunsNothing ==
  ASSUME NEW d, IsDisk(d)
  PROVE  Runs(d, <<>>, d)
<1>1. <<>> \in Straight
  BY DEF Straight
<1> QED BY <1>1 DEF Runs, Leads, Honest

LEMMA RunsToItself ==
  ASSUME NEW d, NEW e, Runs(d, <<>>, e)
  PROVE  d = e
<1>1. IsDisk(d) /\ IsDisk(e) /\ \A c \in Sections : At(d, c) = At(e, c)
  BY DEF Runs, Leads
<1> QED BY <1>1, SameDisk

(* A put runs, if what it records is on disk already.                       *)
LEMMA RunsPut ==
  ASSUME NEW d, IsDisk(d), NEW c \in Sections, NEW v \in Contents(c[1], c[2]),
         c[1] = "state" => \A b \in ClaimsOf(c[2], v) \ Late : At(d, b) # Absent
  PROVE  Runs(d, Put(c, v), Written(d, c, v))
<1> DEFINE e == Written(d, c, v)
           prog == Put(c, v)
<1>1. IsDisk(e) /\ At(e, c) = v /\ \A b \in Sections \ {c} : At(e, b) = At(d, b)
  BY WrittenFacts
<1>2. prog \in Straight
  BY PutIsStraight
<1>3. Len(prog) = 1 /\ prog[1].at = c /\ prog[1].val = v
  BY DEF Put
<1> HIDE DEF e, prog
<1>4. Leads(d, prog, e)
  <2> SUFFICES ASSUME NEW b \in Sections
               PROVE  \/ \E i \in 1..Len(prog) :
                           /\ prog[i].at = b /\ prog[i].val = At(e, b)
                           /\ \A j \in (i+1)..Len(prog) : prog[j].at # b
                      \/ /\ \A i \in 1..Len(prog) : prog[i].at # b
                         /\ At(d, b) = At(e, b)
    BY DEF Leads
  <2>1. CASE b = c
    BY <1>1, <1>3, <2>1
  <2>2. CASE b # c
    BY <1>1, <1>3, <2>2
  <2> QED BY <2>1, <2>2
<1>5. Honest(d, prog)
  BY <1>3 DEF Honest, WiredBy
<1> QED BY <1>1, <1>2, <1>4, <1>5 DEF Runs, e, prog

LEMMA ConcatFacts ==
  ASSUME NEW s \in Straight, NEW t \in Straight
  PROVE  /\ s \o t \in Straight /\ Len(s \o t) = Len(s) + Len(t)
         /\ Len(s) \in Nat /\ Len(t) \in Nat
         /\ \A i \in 1..Len(s) : (s \o t)[i] = s[i]
         /\ \A i \in 1..Len(t) : (s \o t)[Len(s) + i] = t[i]
<1>1. /\ s \o t \in Straight /\ Len(s \o t) = Len(s) + Len(t)
      /\ \A i \in 1..(Len(s) + Len(t)) :
           (s \o t)[i] = IF i <= Len(s) THEN s[i] ELSE t[i - Len(s)]
  BY ConcatProperties DEF Straight
<1>2. Len(s) \in Nat /\ Len(t) \in Nat
  BY DEF Straight
<1>3. \A i \in 1..Len(s) : (s \o t)[i] = s[i]
  BY <1>1, <1>2
<1>4. ASSUME NEW i \in 1..Len(t)
      PROVE  (s \o t)[Len(s) + i] = t[i]
  <2>1. /\ Len(s) + i \in 1..(Len(s) + Len(t)) /\ ~(Len(s) + i <= Len(s))
        /\ Len(s) + i - Len(s) = i
    BY <1>2
  <2> QED BY <1>1, <2>1
<1> QED BY <1>1, <1>2, <1>3, <1>4

(* What the first program has wired may be recorded by the second.          *)
LEMMA RunsConcat ==
  ASSUME NEW d, NEW s, NEW e, NEW t, NEW f, Runs(d, s, e), Runs(e, t, f)
  PROVE  Runs(d, s \o t, f)
<1> DEFINE u == s \o t
           m == Len(s)
           n == Len(t)
<1>1. s \in Straight /\ t \in Straight /\ IsDisk(d) /\ IsDisk(f)
  BY DEF Runs
<1>2. /\ u \in Straight /\ Len(u) = m + n /\ m \in Nat /\ n \in Nat
      /\ \A i \in 1..m : u[i] = s[i]
      /\ \A i \in 1..n : u[m + i] = t[i]
  BY <1>1, ConcatFacts
<1> HIDE DEF u, m, n
<1>3. \A k \in (m+1)..(m+n) : k - m \in 1..n /\ u[k] = t[k - m]
  BY <1>2
<1>4. Leads(d, u, f)
  <2> SUFFICES ASSUME NEW c \in Sections
               PROVE  \/ \E i \in 1..(m+n) :
                           /\ u[i].at = c /\ u[i].val = At(f, c)
                           /\ \A j \in (i+1)..(m+n) : u[j].at # c
                      \/ /\ \A i \in 1..(m+n) : u[i].at # c
                         /\ At(d, c) = At(f, c)
    BY <1>2 DEF Leads
  <2>1. CASE \E i \in 1..n : /\ t[i].at = c /\ t[i].val = At(f, c)
                             /\ \A j \in (i+1)..n : t[j].at # c
    <3>1. PICK i \in 1..n : /\ t[i].at = c /\ t[i].val = At(f, c)
                            /\ \A j \in (i+1)..n : t[j].at # c
      BY <2>1
    <3>2. m + i \in 1..(m+n) /\ u[m+i].at = c /\ u[m+i].val = At(f, c)
      BY <1>2, <3>1
    <3>3. ASSUME NEW j \in (m+i+1)..(m+n) PROVE u[j].at # c
      <4>1. j \in (m+1)..(m+n) /\ j - m \in (i+1)..n
        BY <1>2
      <4> QED BY <1>3, <3>1, <4>1
    <3> QED BY <3>2, <3>3
  <2>2. CASE (\A i \in 1..n : t[i].at # c) /\ At(e, c) = At(f, c)
    <3>1. \A j \in (m+1)..(m+n) : u[j].at # c
      BY <1>3, <2>2
    <3>2. CASE \E i \in 1..m : /\ s[i].at = c /\ s[i].val = At(e, c)
                               /\ \A j \in (i+1)..m : s[j].at # c
      <4>1. PICK i \in 1..m : /\ s[i].at = c /\ s[i].val = At(e, c)
                              /\ \A j \in (i+1)..m : s[j].at # c
        BY <3>2
      <4>2. i \in 1..(m+n) /\ u[i].at = c /\ u[i].val = At(f, c)
        BY <1>2, <2>2, <4>1
      <4>3. \A j \in (i+1)..(m+n) : u[j].at # c
        <5> TAKE j \in (i+1)..(m+n)
        <5>1. j \in (i+1)..m \/ j \in (m+1)..(m+n)
          BY <1>2
        <5> QED BY <1>2, <3>1, <4>1, <5>1
      <4> QED BY <4>2, <4>3
    <3>3. CASE (\A i \in 1..m : s[i].at # c) /\ At(d, c) = At(e, c)
      <4>1. \A i \in 1..(m+n) : i \in 1..m \/ i \in (m+1)..(m+n)
        BY <1>2
      <4> QED BY <1>2, <2>2, <3>1, <3>3, <4>1
    <3>4. Leads(d, s, e)
      BY DEF Runs
    <3> QED BY <3>2, <3>3, <3>4 DEF Leads, m
  <2>3. Leads(e, t, f)
    BY DEF Runs
  <2> QED BY <2>1, <2>2, <2>3 DEF Leads, n
<1>5. Honest(d, u)
  <2> SUFFICES ASSUME NEW i \in 1..(m+n), u[i].at[1] = "state",
                      NEW c \in ClaimsOf(u[i].at[2], u[i].val) \ Late, c \in Sections
               PROVE  WiredBy(d, u, i, c)
    BY <1>2 DEF Honest
  <2>1. CASE i \in 1..m
    <3>1. WiredBy(d, s, i, c)
      BY <1>2, <2>1 DEF Runs, Honest, m
    <3>2. \A k \in 1..(i-1) : u[k] = s[k]
      BY <1>2, <2>1
    <3>3. i \in Nat
      OBVIOUS
    <3> QED BY <3>1, <3>2, <3>3 DEF WiredBy
  <2>2. CASE i \in (m+1)..(m+n)
    <3> DEFINE h == i - m
    <3>1. h \in 1..n /\ u[i] = t[h]
      BY <1>3, <2>2
    <3>2. WiredBy(e, t, h, c)
      BY <3>1 DEF Runs, Honest, n
    <3>3. \A k \in (m+1)..(i-1) : k - m \in 1..(h-1) /\ u[k] = t[k - m]
      BY <1>2, <1>3, <2>2
    <3>4. CASE \E j \in 1..(h-1) :
                 /\ t[j].at = c /\ t[j].val # Absent
                 /\ \A k \in (j+1)..(h-1) : t[k].at = c => t[k].val # Absent
      <4>1. PICK j \in 1..(h-1) :
                 /\ t[j].at = c /\ t[j].val # Absent
                 /\ \A k \in (j+1)..(h-1) : t[k].at = c => t[k].val # Absent
        BY <3>4
      <4>2. m + j \in 1..(i-1) /\ u[m+j].at = c /\ u[m+j].val # Absent
        <5>1. j \in 1..n /\ j \in Nat /\ i \in Nat /\ h \in Nat /\ i = m + h
          BY <1>2, <2>2, <3>1
        <5>2. u[m + j] = t[j]
          BY <1>2, <5>1
        <5>3. m + j \in 1..(i-1)
          BY <1>2, <5>1
        <5> QED BY <4>1, <5>2, <5>3
      <4>3. \A k \in (m+j+1)..(i-1) : u[k].at = c => u[k].val # Absent
        BY <1>2, <3>1, <3>3, <4>1
      <4> QED BY <4>2, <4>3 DEF WiredBy
    <3>5. CASE At(e, c) # Absent /\ \A k \in 1..(h-1) : t[k].at = c => t[k].val # Absent
      <4>1. \A k \in (m+1)..(i-1) : u[k].at = c => u[k].val # Absent
        BY <3>3, <3>5
      <4>2. CASE \E j \in 1..m : /\ s[j].at = c /\ s[j].val = At(e, c)
                                 /\ \A k \in (j+1)..m : s[k].at # c
        <5>1. PICK j \in 1..m : /\ s[j].at = c /\ s[j].val = At(e, c)
                                /\ \A k \in (j+1)..m : s[k].at # c
          BY <4>2
        <5>2. j \in 1..(i-1) /\ u[j].at = c /\ u[j].val # Absent
          <6>1. u[j] = s[j]
            BY <1>2
          <6>2. j \in 1..(i-1)
            BY <1>2, <2>2
          <6> QED BY <3>5, <5>1, <6>1, <6>2
        <5>3. \A k \in (j+1)..(i-1) : u[k].at = c => u[k].val # Absent
          <6> TAKE k \in (j+1)..(i-1)
          <6>1. k \in (j+1)..m \/ k \in (m+1)..(i-1)
            BY <1>2
          <6> QED BY <1>2, <4>1, <5>1, <6>1
        <5> QED BY <5>2, <5>3 DEF WiredBy
      <4>3. CASE (\A k \in 1..m : s[k].at # c) /\ At(d, c) = At(e, c)
        <5>1. \A k \in 1..(i-1) : k \in 1..m \/ k \in (m+1)..(i-1)
          BY <1>2
        <5>2. \A k \in 1..(i-1) : u[k].at = c => u[k].val # Absent
          BY <1>2, <4>1, <4>3, <5>1
        <5> QED BY <3>5, <4>3, <5>2 DEF WiredBy
      <4>4. Leads(d, s, e)
        BY DEF Runs
      <4> QED BY <4>2, <4>3, <4>4 DEF Leads, m
    <3> QED BY <3>2, <3>4, <3>5 DEF WiredBy
  <2>3. i \in 1..m \/ i \in (m+1)..(m+n)
    BY <1>2
  <2> QED BY <2>1, <2>2, <2>3
<1> QED BY <1>1, <1>2, <1>4, <1>5 DEF Runs, u

(* The first step of a run.                                                *)
LEMMA RunsFirst ==
  ASSUME NEW d, NEW prog, NEW e, Runs(d, prog, e), prog # <<>>
  PROVE  LET s == Head(prog)
             f == Written(d, s.at, s.val)
         IN  /\ s \in PutSteps
             /\ Runs(f, Tail(prog), e)
             /\ s.at[1] = "state" =>
                  \A c \in ClaimsOf(s.at[2], s.val) \ Late : c \in Sections => At(d, c) # Absent
<1> DEFINE s == Head(prog)
           f == Written(d, s.at, s.val)
           t == Tail(prog)
           n == Len(prog)
<1>1. prog \in Straight /\ IsDisk(d) /\ IsDisk(e) /\ Leads(d, prog, e) /\ Honest(d, prog)
  BY DEF Runs
<1>2. /\ s \in PutSteps /\ s = prog[1] /\ t \in Straight /\ n \in Nat \ {0}
      /\ Len(t) = n - 1 /\ \A i \in 1..(n-1) : t[i] = prog[i+1]
  BY <1>1 DEF Straight
<1>3. s.at \in Sections /\ s.val \in Contents(s.at[1], s.at[2])
  BY <1>2, PutStepFacts
<1>4. IsDisk(f) /\ At(f, s.at) = s.val /\ \A b \in Sections \ {s.at} : At(f, b) = At(d, b)
  BY <1>1, <1>3, WrittenFacts
<1>5. \A i \in 2..n : i - 1 \in 1..(n-1) /\ prog[i] = t[i-1]
  BY <1>2
<1> HIDE DEF s, f, t, n
<1>6. Leads(f, t, e)
  <2> SUFFICES ASSUME NEW c \in Sections
               PROVE  \/ \E i \in 1..(n-1) :
                           /\ t[i].at = c /\ t[i].val = At(e, c)
                           /\ \A j \in (i+1)..(n-1) : t[j].at # c
                      \/ /\ \A i \in 1..(n-1) : t[i].at # c
                         /\ At(f, c) = At(e, c)
    BY <1>2 DEF Leads
  <2>1. CASE \E i \in 1..n : /\ prog[i].at = c /\ prog[i].val = At(e, c)
                             /\ \A j \in (i+1)..n : prog[j].at # c
    <3>1. PICK i \in 1..n : /\ prog[i].at = c /\ prog[i].val = At(e, c)
                            /\ \A j \in (i+1)..n : prog[j].at # c
      BY <2>1
    <3>2. CASE i = 1
      <4>1. \A j \in 1..(n-1) : t[j].at # c
        BY <1>2, <3>1, <3>2
      <4>2. At(f, c) = At(e, c)
        BY <1>2, <1>4, <3>1, <3>2
      <4> QED BY <4>1, <4>2
    <3>3. CASE i # 1
      <4>1. i - 1 \in 1..(n-1) /\ t[i-1].at = c /\ t[i-1].val = At(e, c)
        BY <1>2, <1>5, <3>1, <3>3
      <4>2. \A j \in (i-1+1)..(n-1) : t[j].at # c
        BY <1>2, <3>1, <3>3
      <4> QED BY <4>1, <4>2
    <3> QED BY <3>2, <3>3
  <2>2. CASE (\A i \in 1..n : prog[i].at # c) /\ At(d, c) = At(e, c)
    BY <1>2, <1>4, <2>2
  <2> QED BY <1>1, <2>1, <2>2 DEF Leads, n
<1>7. Honest(f, t)
  <2> SUFFICES ASSUME NEW i \in 1..(n-1), t[i].at[1] = "state",
                      NEW c \in ClaimsOf(t[i].at[2], t[i].val) \ Late, c \in Sections
               PROVE  WiredBy(f, t, i, c)
    BY <1>2 DEF Honest
  <2>1. i + 1 \in 1..n /\ prog[i+1] = t[i]
    BY <1>2
  <2>2. WiredBy(d, prog, i + 1, c)
    BY <1>1, <2>1 DEF Honest, n
  <2>3. \A k \in 1..(i-1) : t[k] = prog[k+1]
    BY <1>2
  <2>4. CASE At(d, c) # Absent /\ \A k \in 1..i : prog[k].at = c => prog[k].val # Absent
    <3>1. At(f, c) # Absent
      BY <1>2, <1>4, <2>4
    <3>2. \A k \in 1..(i-1) : t[k].at = c => t[k].val # Absent
      BY <2>3, <2>4
    <3> QED BY <3>1, <3>2 DEF WiredBy
  <2>5. CASE \E j \in 1..i : /\ prog[j].at = c /\ prog[j].val # Absent
                             /\ \A k \in (j+1)..i : prog[k].at = c => prog[k].val # Absent
    <3>1. PICK j \in 1..i : /\ prog[j].at = c /\ prog[j].val # Absent
                            /\ \A k \in (j+1)..i : prog[k].at = c => prog[k].val # Absent
      BY <2>5
    <3>2. CASE j = 1
      <4>1. At(f, c) # Absent
        BY <1>2, <1>4, <3>1, <3>2
      <4>2. \A k \in 1..(i-1) : t[k].at = c => t[k].val # Absent
        BY <2>3, <3>1, <3>2
      <4> QED BY <4>1, <4>2 DEF WiredBy
    <3>3. CASE j # 1
      <4>1. j - 1 \in 1..(i-1) /\ t[j-1].at = c /\ t[j-1].val # Absent
        BY <2>3, <3>1, <3>3
      <4>2. \A k \in (j-1+1)..(i-1) : t[k].at = c => t[k].val # Absent
        BY <2>3, <3>1, <3>3
      <4> QED BY <4>1, <4>2 DEF WiredBy
    <3> QED BY <3>2, <3>3
  <2>6. i + 1 - 1 = i
    OBVIOUS
  <2> QED BY <2>2, <2>4, <2>5, <2>6 DEF WiredBy
<1>8. ASSUME s.at[1] = "state", NEW c \in ClaimsOf(s.at[2], s.val) \ Late, c \in Sections
      PROVE  At(d, c) # Absent
  <2>1. 1 \in 1..n /\ 1..(1-1) = {}
    BY <1>2
  <2>2. WiredBy(d, prog, 1, c)
    BY <1>1, <1>2, <1>8, <2>1 DEF Honest, n
  <2> QED BY <2>1, <2>2 DEF WiredBy
<1>9. Runs(f, t, e)
  BY <1>1, <1>2, <1>4, <1>6, <1>7 DEF Runs
<1> QED BY <1>2, <1>8, <1>9 DEF s, f, t
------------------------------------------------------------------------------
(* The setting that a section is about.                                    *)
Owner(c) ==
  CASE c[1] = "state" -> IF c[2] \in {"models", "efforts", "odd", "modular"} THEN "workflow" ELSE c[2]
    [] c[1] = "instructions" -> CASE c[2] \in {"sdd", "odd"} -> "workflow"
                                  [] c[2] = "memory" -> "engram"
                                  [] OTHER -> c[2]
    [] c[1] = "mcp" -> c[2]
    [] c[1] = "hooks" -> "hooks"
    [] c[1] = "home" -> CASE c[2] = "agents" -> "agents"
                          [] c[2] = "modules" -> "workflow"
                          [] OTHER -> "engram"
    [] OTHER -> CASE c[2] \in {"post-merge", "pre-push"} -> "team"
                  [] c[2] \in {"pre-commit", "post-commit"} -> "cga"
                  [] c[2] \in GateNames -> "gate"
                  [] OTHER -> "engram"

(* Where each setting has its sections, and what these may contain.         *)
LEMMA FieldPlaces ==
  /\ \A n \in FieldNames : /\ Field(n) \in Sections
                           /\ Contents(Field(n)[1], Field(n)[2]) = FieldValues(n)
                           /\ Field(n)[1] = "state" /\ Field(n)[2] = n
                           /\ \A d : At(d, Field(n)) = St(d, n)
  /\ \A n \in FieldNames \ {"models", "efforts", "odd", "modular"} : Owner(Field(n)) = n
  /\ \A n \in {"models", "efforts", "odd", "modular"} : Owner(Field(n)) = "workflow"
<1>1. Keys("state") = FieldNames /\ "state" \in Files
  BY DEF Keys, Files, SharedFiles
<1>2. \A n \in FieldNames : Contents("state", n) = FieldValues(n)
  BY NamesAssumption DEF Contents, Block, Agents, Modules, CopilotHook
<1>3. \A n \in FieldNames : /\ Field(n) \in Sections
                             /\ Contents(Field(n)[1], Field(n)[2]) = FieldValues(n)
                             /\ Field(n)[1] = "state" /\ Field(n)[2] = n
                             /\ \A d : At(d, Field(n)) = St(d, n)
  BY <1>1, <1>2, SectionPair DEF Field, At, St
<1>4. \A n : Owner(Field(n)) = IF n \in {"models", "efforts", "odd", "modular"} THEN "workflow" ELSE n
  BY DEF Owner, Field
<1> QED BY <1>3, <1>4

LEMMA BlockPlaces ==
  /\ \A n \in Keys("instructions") : /\ Block(n) \in Sections /\ Block(n)[1] = "instructions"
                                     /\ Block(n)[2] = n
  /\ \A n \in {"persona", "trigger", "headroom", "efficiency"} : Owner(Block(n)) = n
  /\ Owner(Block("memory")) = "engram"
  /\ Owner(Block("sdd")) = "workflow" /\ Owner(Block("odd")) = "workflow"
  /\ Contents("instructions", "persona") = Personas \cup {Absent}
  /\ Contents("instructions", "sdd") = (Assignments \X Assignments) \cup {Absent}
  /\ Contents("instructions", "odd") = Layouts \cup {Absent}
  /\ \A n \in {"trigger", "headroom", "efficiency", "memory"} :
        Contents("instructions", n) = {"on", Absent}
<1>1. \A n \in Keys("instructions") : Block(n) \in Sections /\ Block(n)[1] = "instructions"
                                      /\ Block(n)[2] = n
  BY SectionPair DEF Block, Files, SharedFiles
<1>2. /\ \A n \in {"persona", "trigger", "headroom", "efficiency"} : Owner(Block(n)) = n
      /\ Owner(Block("memory")) = "engram"
      /\ Owner(Block("sdd")) = "workflow" /\ Owner(Block("odd")) = "workflow"
  BY DEF Owner, Block
<1>3. /\ Contents("instructions", "persona") = Personas \cup {Absent}
      /\ Contents("instructions", "sdd") = (Assignments \X Assignments) \cup {Absent}
      /\ Contents("instructions", "odd") = Layouts \cup {Absent}
      /\ \A n \in {"trigger", "headroom", "efficiency", "memory"} :
            Contents("instructions", n) = {"on", Absent}
  BY NamesAssumption DEF Contents, Block, Agents, Modules, CopilotHook
<1> QED BY <1>1, <1>2, <1>3

LEMMA OtherPlaces ==
  /\ \A n \in Keys("mcp") : /\ Server(n) \in Sections /\ Server(n)[1] = "mcp" /\ Server(n)[2] = n
                            /\ Contents("mcp", n) = {"on", Absent}
  /\ Owner(Server("engram")) = "engram" /\ Owner(Server("headroom")) = "headroom"
  /\ \A n \in HookNames : /\ CopilotHook(n) \in Sections /\ CopilotHook(n)[1] = "hooks"
                          /\ CopilotHook(n)[2] = n /\ Owner(CopilotHook(n)) = "hooks"
  /\ Contents("hooks", "guardrails") = {"warn", "strict", Absent}
  /\ \A n \in HookNames \ {"guardrails"} : Contents("hooks", n) = {"on", Absent}
  /\ UserMcp \in Sections /\ UserMcp = <<"home", "mcp.json">> /\ Owner(UserMcp) = "engram"
  /\ Contents("home", "mcp.json") = {"on", Absent}
  /\ Modules \in Sections /\ Modules = <<"home", "modules">> /\ Owner(Modules) = "workflow"
  /\ Contents("home", "modules") = BOOLEAN \cup {Absent}
  /\ Agents \in Sections /\ Agents = <<"home", "agents">> /\ Owner(Agents) = "agents"
  /\ Contents("home", "agents") = Routings \cup {Absent}
<1>1. \A n \in Keys("mcp") : /\ Server(n) \in Sections /\ Server(n)[1] = "mcp" /\ Server(n)[2] = n
                             /\ Contents("mcp", n) = {"on", Absent}
  BY SectionPair, NamesAssumption
  DEF Server, Files, SharedFiles, Contents, Block, Agents, Modules, CopilotHook
<1>2. Owner(Server("engram")) = "engram" /\ Owner(Server("headroom")) = "headroom"
  BY DEF Owner, Server
<1>3. \A n \in HookNames : /\ CopilotHook(n) \in Sections /\ CopilotHook(n)[1] = "hooks"
                           /\ CopilotHook(n)[2] = n /\ Owner(CopilotHook(n)) = "hooks"
  BY SectionPair DEF CopilotHook, Files, Keys, Owner
<1>4. /\ Contents("hooks", "guardrails") = {"warn", "strict", Absent}
      /\ \A n \in HookNames \ {"guardrails"} : Contents("hooks", n) = {"on", Absent}
  BY NamesAssumption DEF Contents, Block, Agents, Modules, CopilotHook
<1>5. Keys("home") = {"mcp.json", "modules", "agents"}
  BY DEF Keys
<1>6. /\ UserMcp \in Sections /\ UserMcp = <<"home", "mcp.json">> /\ Owner(UserMcp) = "engram"
      /\ Modules \in Sections /\ Modules = <<"home", "modules">> /\ Owner(Modules) = "workflow"
      /\ Agents \in Sections /\ Agents = <<"home", "agents">> /\ Owner(Agents) = "agents"
  BY <1>5, SectionPair DEF UserMcp, Modules, Agents, Owner, Files
<1>7. /\ Contents("home", "mcp.json") = {"on", Absent}
      /\ Contents("home", "modules") = BOOLEAN \cup {Absent}
      /\ Contents("home", "agents") = Routings \cup {Absent}
  BY NamesAssumption DEF Contents, Block, Agents, Modules, CopilotHook
<1> QED BY <1>1, <1>2, <1>3, <1>4, <1>6, <1>7

LEMMA RepoPlaces ==
  ASSUME NEW r \in Repos
  PROVE  /\ r \in Files /\ r \notin {"state", "instructions", "mcp", "hooks", "home"}
         /\ \A n \in GitHookNames \cup {"mcp.json"} :
               GitHook(r, n) \in Sections /\ GitHook(r, n) = <<r, n>>
         /\ Workspace(r) = GitHook(r, "mcp.json") /\ Owner(Workspace(r)) = "engram"
         /\ \A n \in {"post-merge", "pre-push"} : Owner(GitHook(r, n)) = "team"
         /\ \A n \in {"pre-commit", "post-commit"} : Owner(GitHook(r, n)) = "cga"
         /\ Contents(r, "pre-commit") = Personas \cup {"none", Absent}
         /\ \A n \in {"post-commit", "post-merge", "pre-push", "mcp.json"} :
               Contents(r, n) = {"on", Absent}
         /\ \A n \in GateNames : /\ Gate(r, n) \in Sections /\ Gate(r, n) = <<r, n>>
                                  /\ Owner(Gate(r, n)) = "gate"
                                  /\ Contents(r, n) = {"on", Absent}
<1>1. r \in Files /\ r \notin {"state", "instructions", "mcp", "hooks", "home"}
  BY NamesAssumption DEF Files
<1>2. Keys(r) = GitHookNames \cup GateNames \cup {"mcp.json"}
  BY <1>1 DEF Keys
<1>3. \A n \in GitHookNames \cup {"mcp.json"} :
         GitHook(r, n) \in Sections /\ GitHook(r, n) = <<r, n>>
  BY <1>1, <1>2, SectionPair DEF GitHook
<1>4. /\ Workspace(r) = GitHook(r, "mcp.json") /\ Owner(Workspace(r)) = "engram"
      /\ \A n \in {"post-merge", "pre-push"} : Owner(GitHook(r, n)) = "team"
      /\ \A n \in {"pre-commit", "post-commit"} : Owner(GitHook(r, n)) = "cga"
  BY <1>1 DEF Workspace, GitHook, Owner, GateNames
<1>5. /\ Contents(r, "pre-commit") = Personas \cup {"none", Absent}
      /\ \A n \in {"post-commit", "post-merge", "pre-push", "mcp.json"} :
            Contents(r, n) = {"on", Absent}
  BY <1>1 DEF Contents, Block, Agents, Modules, CopilotHook
<1>6. ASSUME NEW n \in GateNames
      PROVE  /\ Gate(r, n) \in Sections /\ Gate(r, n) = <<r, n>> /\ Owner(Gate(r, n)) = "gate"
             /\ Contents(r, n) = {"on", Absent}
  <2>1. Gate(r, n) \in Sections /\ Gate(r, n) = <<r, n>>
    BY <1>1, <1>2, SectionPair DEF Gate
  <2>2. Owner(Gate(r, n)) = "gate"
    BY <1>1 DEF Gate, Owner, GateNames
  <2>3. Contents(r, n) = {"on", Absent}
    BY <1>1 DEF Contents, Block, Agents, Modules, CopilotHook, GateNames
  <2> QED BY <2>1, <2>2, <2>3
<1> QED BY <1>1, <1>3, <1>4, <1>5, <1>6

(* The claims of a setting are sections about that setting.                *)
LEMMA ClaimsOwned ==
  ASSUME NEW n \in FieldNames, NEW v \in FieldValues(n), NEW c \in ClaimsOf(n, v)
  PROVE  c \in Sections /\ Owner(c) = n /\ c[1] # "state"
<1>1. CASE n = "agents"
  BY <1>1, OtherPlaces DEF ClaimsOf, Where
<1>2. CASE n \in {"persona", "trigger", "efficiency"}
  BY <1>2, BlockPlaces DEF ClaimsOf, Where, Keys
<1>3. CASE n = "workflow"
  BY <1>3, BlockPlaces DEF ClaimsOf, Where, Keys, FieldValues, Switches
<1>4. CASE n = "headroom"
  BY <1>4, BlockPlaces, OtherPlaces DEF ClaimsOf, Where, Keys
<1>5. CASE n = "engram"
  <2>1. v \in [on : BOOLEAN, scope : Scopes, at : Repos \cup {Absent}]
    BY <1>5 DEF FieldValues, Switches
  <2>2. c \in Where(v.on, {Server("engram"), Block("memory")}) \/ c \in EditorOf(v)
    BY <1>5 DEF ClaimsOf
  <2>3. c \in {Server("engram"), Block("memory"), UserMcp} \/ \E r \in Repos : c = Workspace(r)
    BY <2>1, <2>2 DEF Where, EditorOf
  <2>4. ASSUME NEW r \in Repos PROVE Workspace(r) \in Sections /\ Owner(Workspace(r)) = "engram"
                                     /\ Workspace(r)[1] # "state"
    BY RepoPlaces
  <2> QED BY <1>5, <2>3, <2>4, OtherPlaces, BlockPlaces DEF Keys
<1>6. CASE n = "hooks"
  BY <1>6, OtherPlaces DEF ClaimsOf, Where
<1>7. CASE n = "team"
  <2>1. v.at \in Repos /\ c \in {GitHook(v.at, h) : h \in {"post-merge", "pre-push"}}
    BY <1>7 DEF ClaimsOf, Where, FieldValues, Switches
  <2> QED BY <1>7, <2>1, RepoPlaces DEF GitHookNames
<1>8. CASE n = "cga"
  <2>1. v.at \in Repos /\ c \in {GitHook(v.at, h) : h \in {"pre-commit", "post-commit"}}
    BY <1>8 DEF ClaimsOf, Where, FieldValues, Switches
  <2> QED BY <1>8, <2>1, RepoPlaces DEF GitHookNames
<1>9. CASE n \in {"models", "efforts", "odd", "modular"}
  BY <1>9 DEF ClaimsOf
<1> QED
  BY <1>1, <1>2, <1>3, <1>4, <1>5, <1>6, <1>7, <1>8, <1>9 DEF FieldNames, Switches
------------------------------------------------------------------------------
(* What is recorded of one setting agrees with what is wired for it.       *)
ExactOf(n) == {c \in Exact : Owner(c) = n}

Backed(d, n) == \A c \in ClaimsOf(n, St(d, n)) : At(d, c) # Absent

Agrees(d, n) ==
  /\ Backed(d, n)
  /\ \A c \in ExactOf(n) : At(d, c) # Absent => c \in ClaimsOf(n, St(d, n))

Owners == FieldNames \ {"models", "efforts", "odd", "modular"}

(* A section that tells whether a setting is on belongs to one setting.     *)
LEMMA ExactOwned ==
  \A c \in Exact : c \in Sections /\ Owner(c) \in Owners
<1> SUFFICES ASSUME NEW c \in Exact PROVE c \in Sections /\ Owner(c) \in Owners
  OBVIOUS
<1>1. CASE c \in {Block(n) : n \in {"persona", "trigger", "memory", "headroom", "efficiency"}}
  BY <1>1, BlockPlaces DEF Keys, Owners, FieldNames, Switches
<1>2. CASE c \in {Server(n) : n \in Keys("mcp")}
  BY <1>2, OtherPlaces DEF Keys, Owners, FieldNames, Switches
<1>3. CASE c \in {CopilotHook(n) : n \in HookNames}
  BY <1>3, OtherPlaces DEF Owners, FieldNames, Switches
<1> QED BY <1>1, <1>2, <1>3 DEF Exact

(* The details of a workflow claim nothing of their own.                    *)
LEMMA NoClaims ==
  \A n \in FieldNames \ Owners : \A v : ClaimsOf(n, v) = {} /\ ExactOf(n) = {}
BY ExactOwned DEF ClaimsOf, ExactOf, Owners

(* A program that changes nothing but what setting n is about.             *)
SameBut(d, e, n) == \A c \in Sections : Owner(c) # n => At(e, c) = At(d, c)
Does(d, prog, e, n) == Runs(d, prog, e) /\ SameBut(d, e, n)

(* The pieces of a program: no step, a put, a removal, a record.            *)
LEMMA DoesNothing ==
  ASSUME NEW d, IsDisk(d), NEW n
  PROVE  Does(d, <<>>, d, n)
BY RunsNothing DEF Does, SameBut

LEMMA DoesPut ==
  ASSUME NEW d, IsDisk(d), NEW c \in Sections, NEW v \in Contents(c[1], c[2]),
         c[1] = "state" => \A b \in ClaimsOf(c[2], v) \ Late : At(d, b) # Absent
  PROVE  /\ Does(d, Put(c, v), Written(d, c, v), Owner(c))
         /\ IsDisk(Written(d, c, v))
         /\ At(Written(d, c, v), c) = v
         /\ \A b \in Sections : b # c => At(Written(d, c, v), b) = At(d, b)
BY RunsPut, WrittenFacts DEF Does, SameBut

LEMMA DoesDrop ==
  ASSUME NEW d, IsDisk(d), NEW c \in Sections, c[1] # "state", Absent \in Contents(c[1], c[2])
  PROVE  /\ Does(d, Drop(c), Written(d, c, Absent), Owner(c))
         /\ IsDisk(Written(d, c, Absent))
         /\ At(Written(d, c, Absent), c) = Absent
         /\ \A b \in Sections : b # c => At(Written(d, c, Absent), b) = At(d, b)
BY DoesPut DEF Drop

LEMMA DoesRecord ==
  ASSUME NEW d, IsDisk(d), NEW n \in FieldNames, NEW v \in FieldValues(n),
         \A b \in ClaimsOf(n, v) \ Late : At(d, b) # Absent
  PROVE  LET e == Written(d, Field(n), v)
         IN  /\ Does(d, Record(n, v), e, Owner(Field(n)))
             /\ IsDisk(e) /\ St(e, n) = v
             /\ \A b \in Sections : b # Field(n) => At(e, b) = At(d, b)
             /\ \A m \in FieldNames \ {n} : St(e, m) = St(d, m)
<1> DEFINE e == Written(d, Field(n), v)
<1>1. /\ Field(n) \in Sections /\ v \in Contents(Field(n)[1], Field(n)[2])
      /\ Field(n)[1] = "state" /\ Field(n)[2] = n
      /\ \A m \in FieldNames \ {n} : Field(m) # Field(n) /\ Field(m) \in Sections
  BY FieldPlaces
<1>2. /\ Does(d, Put(Field(n), v), e, Owner(Field(n)))
      /\ IsDisk(e) /\ At(e, Field(n)) = v
      /\ \A b \in Sections : b # Field(n) => At(e, b) = At(d, b)
  BY <1>1, DoesPut
<1> HIDE DEF e
<1>3. St(e, n) = v /\ \A m \in FieldNames \ {n} : St(e, m) = St(d, m)
  BY <1>1, <1>2, FieldPlaces
<1> QED BY <1>2, <1>3 DEF e, Record

(* Two pieces about one setting are one piece.                              *)
LEMMA DoesConcat ==
  ASSUME NEW d, NEW s, NEW e, NEW t, NEW f, NEW n, Does(d, s, e, n), Does(e, t, f, n)
  PROVE  Does(d, s \o t, f, n)
BY RunsConcat DEF Does, SameBut

(* What has nothing to do with setting n still agrees.                     *)
LEMMA AgreementKept ==
  ASSUME NEW d, NEW e, NEW n, SameBut(d, e, n), IsDisk(d), NEW m \in FieldNames, m # n,
         Agrees(d, m)
  PROVE  Agrees(e, m)
<1>1. CASE m \in Owners
  <2>1. St(e, m) = St(d, m) /\ St(d, m) \in FieldValues(m)
    BY <1>1, FieldPlaces, DiskAt DEF SameBut, Owners
  <2>2. \A c \in ClaimsOf(m, St(d, m)) \cup ExactOf(m) : At(e, c) = At(d, c)
    BY <2>1, ClaimsOwned, ExactOwned DEF SameBut, ExactOf
  <2> QED BY <2>1, <2>2 DEF Agrees, Backed
<1>2. CASE m \notin Owners
  BY <1>2, NoClaims DEF Agrees, Backed, Owners, FieldNames
<1> QED BY <1>1, <1>2

(* A piece about one setting leaves the other settings recorded as they     *)
(* are.                                                                     *)
LEMMA SettingsKept ==
  ASSUME NEW d, NEW e, NEW n, SameBut(d, e, n)
  PROVE  /\ \A m \in Owners \ {n} : St(e, m) = St(d, m)
         /\ n # "workflow" =>
              \A m \in {"models", "efforts", "odd", "modular"} : St(e, m) = St(d, m)
BY FieldPlaces DEF SameBut, Owners, FieldNames, Switches

(* Calm: every setting agrees.                                             *)
AllAgree(d) == \A n \in FieldNames : Agrees(d, n)

(* If all settings agreed, and that of a piece does after it, all of them   *)
(* do.                                                                      *)
LEMMA AgreeAgain ==
  ASSUME NEW d, NEW e, NEW n \in FieldNames, NEW prog, Does(d, prog, e, n), AllAgree(d),
         Agrees(e, n)
  PROVE  AllAgree(e)
BY AgreementKept DEF AllAgree, Does, Runs
------------------------------------------------------------------------------
(* Each part of a command, run on disk d: what it changes, what it leaves, *)
(* and that what it recorded agrees with what it wired.                    *)
LEMMA ExactSections ==
  /\ \A n \in {"persona", "trigger", "efficiency"} : ExactOf(n) = {Block(n)}
  /\ ExactOf("headroom") = {Block("headroom"), Server("headroom")}
  /\ ExactOf("engram") = {Server("engram"), Block("memory")}
  /\ ExactOf("hooks") = {CopilotHook(n) : n \in HookNames}
  /\ \A n \in {"agents", "workflow", "team", "cga"} : ExactOf(n) = {}
<1>1. /\ \A n \in {"persona", "trigger", "headroom", "efficiency"} : Owner(Block(n)) = n
      /\ Owner(Block("memory")) = "engram"
      /\ Owner(Server("engram")) = "engram" /\ Owner(Server("headroom")) = "headroom"
      /\ \A n \in HookNames : Owner(CopilotHook(n)) = "hooks"
  BY BlockPlaces, OtherPlaces
<1> QED BY <1>1 DEF ExactOf, Exact, Keys

(* applyPersona writes the block, then records the choice.                  *)
LEMMA PersonaApplied ==
  ASSUME NEW d, IsDisk(d), NEW v \in Personas
  PROVE  \E e : /\ Does(d, ApplyPersona(v), e, "persona")
                /\ St(e, "persona") = v /\ At(e, Block("persona")) = v
                /\ Agrees(e, "persona")
<1> DEFINE e1 == Written(d, Block("persona"), v)
           e2 == Written(e1, Field("persona"), v)
<1>1. /\ Block("persona") \in Sections /\ Block("persona")[1] = "instructions"
      /\ v \in Contents(Block("persona")[1], Block("persona")[2])
      /\ Owner(Block("persona")) = "persona"
  BY BlockPlaces DEF Keys
<1>2. /\ Does(d, Put(Block("persona"), v), e1, "persona")
      /\ IsDisk(e1) /\ At(e1, Block("persona")) = v
  BY <1>1, DoesPut
<1>3. "persona" \in FieldNames /\ v \in FieldValues("persona") /\ v # Absent /\ v # "none"
  BY ConstantsAssumption, NamesAssumption DEF FieldNames, FieldValues, Switches
<1>4. ClaimsOf("persona", v) = {Block("persona")}
  BY <1>3 DEF ClaimsOf, Where
<1> HIDE DEF e1
<1>5. /\ Does(e1, Record("persona", v), e2, "persona") /\ St(e2, "persona") = v
      /\ \A b \in Sections : b # Field("persona") => At(e2, b) = At(e1, b)
  BY <1>2, <1>3, <1>4, DoesRecord, FieldPlaces
<1> HIDE DEF e2
<1>6. At(e2, Block("persona")) = v
  BY <1>1, <1>2, <1>5, FieldPlaces, <1>3
<1>7. Agrees(e2, "persona")
  BY <1>3, <1>4, <1>5, <1>6, ExactSections DEF Agrees, Backed
<1> QED BY <1>2, <1>5, <1>6, <1>7, DoesConcat DEF ApplyPersona

(* The two settings that are one block of the instructions.                *)
LEMMA SwitchApplied ==
  ASSUME NEW d, IsDisk(d), NEW n \in {"efficiency", "trigger"}, NEW on \in BOOLEAN
  PROVE  \E e : /\ Does(d, Put(Block(n), Wired(on)) \o Record(n, on), e, n)
                /\ St(e, n) = on /\ Agrees(e, n)
<1> DEFINE e1 == Written(d, Block(n), Wired(on))
           e2 == Written(e1, Field(n), on)
<1>1. /\ Block(n) \in Sections /\ Block(n)[1] = "instructions"
      /\ Wired(on) \in Contents(Block(n)[1], Block(n)[2])
      /\ Owner(Block(n)) = n
  BY BlockPlaces DEF Keys, Wired
<1>2. /\ Does(d, Put(Block(n), Wired(on)), e1, n)
      /\ IsDisk(e1) /\ At(e1, Block(n)) = Wired(on)
  BY <1>1, DoesPut
<1>3. n \in FieldNames /\ on \in FieldValues(n) /\ Owner(Field(n)) = n
      /\ (Wired(on) # Absent <=> on)
  BY NamesAssumption, FieldPlaces DEF FieldNames, FieldValues, Switches, Wired
<1>4. ClaimsOf(n, on) = IF on THEN {Block(n)} ELSE {}
  BY DEF ClaimsOf, Where
<1> HIDE DEF e1
<1>5. /\ Does(e1, Record(n, on), e2, n) /\ St(e2, n) = on
      /\ \A b \in Sections : b # Field(n) => At(e2, b) = At(e1, b)
  BY <1>2, <1>3, <1>4, DoesRecord
<1> HIDE DEF e2
<1>6. At(e2, Block(n)) = Wired(on)
  BY <1>1, <1>2, <1>5, FieldPlaces, <1>3
<1>7. Agrees(e2, n)
  BY <1>3, <1>4, <1>5, <1>6, ExactSections DEF Agrees, Backed
<1> QED BY <1>2, <1>5, <1>7, DoesConcat

(* applyHeadroom writes or removes the block and the server.                *)
LEMMA HeadroomApplied ==
  ASSUME NEW d, IsDisk(d), NEW on \in BOOLEAN
  PROVE  \E e : /\ Does(d, ApplyHeadroom(on), e, "headroom")
                /\ St(e, "headroom") = on /\ Agrees(e, "headroom")
<1> DEFINE e1 == Written(d, Server("headroom"), Wired(on))
           e2 == Written(e1, Block("headroom"), Wired(on))
           e3 == Written(e2, Field("headroom"), on)
<1>1. /\ Block("headroom") \in Sections /\ Block("headroom")[1] = "instructions"
      /\ Wired(on) \in Contents(Block("headroom")[1], Block("headroom")[2])
      /\ Owner(Block("headroom")) = "headroom"
      /\ Server("headroom") \in Sections /\ Server("headroom")[1] = "mcp"
      /\ Wired(on) \in Contents(Server("headroom")[1], Server("headroom")[2])
      /\ Owner(Server("headroom")) = "headroom"
      /\ Server("headroom") # Block("headroom")
  BY BlockPlaces, OtherPlaces DEF Keys, Wired
<1>2. /\ Does(d, Put(Server("headroom"), Wired(on)), e1, "headroom")
      /\ IsDisk(e1) /\ At(e1, Server("headroom")) = Wired(on)
  BY <1>1, DoesPut
<1> HIDE DEF e1
<1>3. /\ Does(e1, Put(Block("headroom"), Wired(on)), e2, "headroom")
      /\ IsDisk(e2) /\ At(e2, Block("headroom")) = Wired(on)
      /\ At(e2, Server("headroom")) = Wired(on)
  BY <1>1, <1>2, DoesPut
<1> HIDE DEF e2
<1>4. "headroom" \in FieldNames /\ on \in FieldValues("headroom")
      /\ Owner(Field("headroom")) = "headroom" /\ Field("headroom")[1] = "state"
      /\ (Wired(on) # Absent <=> on)
  BY NamesAssumption, FieldPlaces DEF FieldNames, FieldValues, Switches, Wired
<1>5. ClaimsOf("headroom", on) = IF on THEN {Block("headroom"), Server("headroom")} ELSE {}
  BY DEF ClaimsOf, Where
<1>6. /\ Does(e2, Record("headroom", on), e3, "headroom") /\ St(e3, "headroom") = on
      /\ \A b \in Sections : b # Field("headroom") => At(e3, b) = At(e2, b)
  BY <1>3, <1>4, <1>5, DoesRecord
<1> HIDE DEF e3
<1>7. At(e3, Block("headroom")) = Wired(on) /\ At(e3, Server("headroom")) = Wired(on)
  BY <1>1, <1>3, <1>4, <1>6
<1>8. Agrees(e3, "headroom")
  BY <1>4, <1>5, <1>6, <1>7, ExactSections DEF Agrees, Backed
<1>9. Does(d, Put(Server("headroom"), Wired(on)) \o Put(Block("headroom"), Wired(on)), e2, "headroom")
  BY <1>2, <1>3, DoesConcat
<1> QED BY <1>6, <1>8, <1>9, DoesConcat DEF ApplyHeadroom

LEMMA EngramPlaces ==
  /\ Server("engram") \in Sections /\ Server("engram")[1] = "mcp"
  /\ Contents(Server("engram")[1], Server("engram")[2]) = {"on", Absent}
  /\ Owner(Server("engram")) = "engram"
  /\ Block("memory") \in Sections /\ Block("memory")[1] = "instructions"
  /\ Contents(Block("memory")[1], Block("memory")[2]) = {"on", Absent}
  /\ Owner(Block("memory")) = "engram"
  /\ UserMcp \in Sections /\ UserMcp[1] = "home"
  /\ Contents(UserMcp[1], UserMcp[2]) = {"on", Absent}
  /\ Owner(UserMcp) = "engram"
  /\ Field("engram") \in Sections /\ Field("engram")[1] = "state"
  /\ Owner(Field("engram")) = "engram"
  /\ "engram" \in FieldNames
  /\ \A r \in Repos : /\ Workspace(r) \in Sections
                      /\ Workspace(r)[1] \notin {"mcp", "instructions", "home", "state"}
                      /\ Contents(Workspace(r)[1], Workspace(r)[2]) = {"on", Absent}
                      /\ Owner(Workspace(r)) = "engram"
<1>1. \A r \in Repos : /\ Workspace(r) \in Sections
                       /\ Workspace(r)[1] \notin {"mcp", "instructions", "home", "state"}
                       /\ Contents(Workspace(r)[1], Workspace(r)[2]) = {"on", Absent}
                       /\ Owner(Workspace(r)) = "engram"
  BY RepoPlaces
<1>2. "engram" \in FieldNames
  BY DEF FieldNames
<1>3. /\ Server("engram") \in Sections /\ Server("engram")[1] = "mcp"
      /\ Contents(Server("engram")[1], Server("engram")[2]) = {"on", Absent}
      /\ Owner(Server("engram")) = "engram"
      /\ UserMcp \in Sections /\ UserMcp[1] = "home"
      /\ Contents(UserMcp[1], UserMcp[2]) = {"on", Absent}
      /\ Owner(UserMcp) = "engram"
  BY OtherPlaces DEF Keys
<1>4. /\ Block("memory") \in Sections /\ Block("memory")[1] = "instructions"
      /\ Contents(Block("memory")[1], Block("memory")[2]) = {"on", Absent}
      /\ Owner(Block("memory")) = "engram"
  BY BlockPlaces DEF Keys
<1> QED BY <1>1, <1>2, <1>3, <1>4, FieldPlaces

(* Engram agrees if the server and the protocol are there when it is on,    *)
(* and its entry in the editor.                                             *)
LEMMA EngramAgrees ==
  ASSUME NEW d, NEW rec \in FieldValues("engram"), St(d, "engram") = rec,
         At(d, Server("engram")) = Wired(rec.on), At(d, Block("memory")) = Wired(rec.on),
         \A c \in EditorOf(rec) : At(d, c) # Absent
  PROVE  Agrees(d, "engram")
<1>1. rec.on \in BOOLEAN /\ (Wired(rec.on) # Absent <=> rec.on)
  BY NamesAssumption DEF FieldValues, Switches, Wired
<1>2. /\ ClaimsOf("engram", rec) =
            (IF rec.on THEN {Server("engram"), Block("memory")} ELSE {}) \cup EditorOf(rec)
      /\ ~rec.on => EditorOf(rec) = {}
  BY DEF ClaimsOf, Where, EditorOf
<1> QED BY <1>1, <1>2, ExactSections DEF Agrees, Backed

(* applyEngram and the memory protocol.                                     *)
LEMMA EngramOn ==
  ASSUME NEW d, IsDisk(d), NEW rec \in FieldValues("engram"), rec.on
  PROVE  \E e : /\ Does(d, ApplyEngram(rec) \o ApplyMemoryProtocol(TRUE), e, "engram")
                /\ St(e, "engram") = rec /\ At(e, Server("engram")) = "on"
                /\ At(e, Block("memory")) = "on"
                /\ \A c \in Sections \ {Server("engram"), Block("memory"), Field("engram")} :
                     At(e, c) = At(d, c)
<1> DEFINE e1 == Written(d, Server("engram"), "on")
           e2 == Written(e1, Field("engram"), rec)
           e3 == Written(e2, Block("memory"), "on")
<1>1. /\ Does(d, Put(Server("engram"), "on"), e1, "engram")
      /\ IsDisk(e1) /\ At(e1, Server("engram")) = "on"
      /\ \A b \in Sections : b # Server("engram") => At(e1, b) = At(d, b)
  BY EngramPlaces, DoesPut
<1> HIDE DEF e1
<1>2. \A b \in ClaimsOf("engram", rec) \ Late : At(e1, b) # Absent
  <2>1. EditorOf(rec) \subseteq Late /\ Block("memory") \in Late
    BY DEF EditorOf, Where, Late, FieldValues, Switches
  <2>2. ClaimsOf("engram", rec) = {Server("engram"), Block("memory")} \cup EditorOf(rec)
    BY DEF ClaimsOf, Where
  <2> QED BY <1>1, <2>1, <2>2, NamesAssumption
<1>3. /\ Does(e1, Record("engram", rec), e2, "engram") /\ IsDisk(e2) /\ St(e2, "engram") = rec
      /\ \A b \in Sections : b # Field("engram") => At(e2, b) = At(e1, b)
  BY <1>1, <1>2, EngramPlaces, DoesRecord
<1> HIDE DEF e2
<1>4. /\ Does(e2, Put(Block("memory"), "on"), e3, "engram") /\ IsDisk(e3)
      /\ At(e3, Block("memory")) = "on"
      /\ \A b \in Sections : b # Block("memory") => At(e3, b) = At(e2, b)
  BY <1>3, EngramPlaces, DoesPut
<1> HIDE DEF e3
<1>5. At(e3, Server("engram")) = "on" /\ St(e3, "engram") = rec
  BY <1>1, <1>3, <1>4, EngramPlaces, FieldPlaces
<1>6. \A c \in Sections \ {Server("engram"), Block("memory"), Field("engram")} : At(e3, c) = At(d, c)
  BY <1>1, <1>3, <1>4
<1>7. Does(d, ApplyEngram(rec), e2, "engram")
  BY <1>1, <1>3, DoesConcat DEF ApplyEngram
<1>8. Does(d, ApplyEngram(rec) \o ApplyMemoryProtocol(TRUE), e3, "engram")
  BY <1>4, <1>7, DoesConcat DEF ApplyMemoryProtocol, Wired
<1> QED BY <1>4, <1>5, <1>6, <1>8

(* disableEngram takes the server out of every editor it may be in.         *)
LEMMA EngramOff ==
  ASSUME NEW d, IsDisk(d), NEW rec \in FieldValues("engram"), ~rec.on, NEW r \in Repos
  PROVE  \E e : Does(d, DisableEngram(r, rec), e, "engram") /\ Agrees(e, "engram")
<1> DEFINE e1 == Written(d, Server("engram"), Absent)
           e2 == Written(e1, Workspace(r), Absent)
           e3 == Written(e2, UserMcp, Absent)
           e4 == Written(e3, Block("memory"), Absent)
           e5 == Written(e4, Field("engram"), rec)
<1>1. /\ Does(d, Drop(Server("engram")), e1, "engram")
      /\ IsDisk(e1) /\ At(e1, Server("engram")) = Absent
  BY EngramPlaces, DoesDrop
<1> HIDE DEF e1
<1>2. /\ Does(e1, Drop(Workspace(r)), e2, "engram")
      /\ IsDisk(e2) /\ At(e2, Server("engram")) = Absent
  <2>1. /\ Workspace(r) \in Sections /\ Workspace(r)[1] # "state"
        /\ Absent \in Contents(Workspace(r)[1], Workspace(r)[2])
        /\ Owner(Workspace(r)) = "engram"
        /\ Server("engram") # Workspace(r) /\ Server("engram") \in Sections
    BY EngramPlaces
  <2>2. /\ Does(e1, Drop(Workspace(r)), e2, Owner(Workspace(r))) /\ IsDisk(e2)
        /\ \A b \in Sections : b # Workspace(r) => At(e2, b) = At(e1, b)
    BY <1>1, <2>1, DoesDrop
  <2> QED BY <1>1, <2>1, <2>2
<1> HIDE DEF e2
<1>3. /\ Does(e2, Drop(UserMcp), e3, "engram")
      /\ IsDisk(e3) /\ At(e3, Server("engram")) = Absent
  BY <1>2, EngramPlaces, DoesDrop
<1> HIDE DEF e3
<1>4. /\ Does(e3, Drop(Block("memory")), e4, "engram")
      /\ IsDisk(e4) /\ At(e4, Server("engram")) = Absent /\ At(e4, Block("memory")) = Absent
  BY <1>3, EngramPlaces, DoesDrop
<1> HIDE DEF e4
<1>5. ClaimsOf("engram", rec) = {} /\ EditorOf(rec) = {}
  BY DEF ClaimsOf, Where, EditorOf
<1>6. /\ Does(e4, Record("engram", rec), e5, "engram") /\ St(e5, "engram") = rec
      /\ \A b \in Sections : b # Field("engram") => At(e5, b) = At(e4, b)
  BY <1>4, <1>5, EngramPlaces, DoesRecord
<1> HIDE DEF e5
<1>7. At(e5, Server("engram")) = Absent /\ At(e5, Block("memory")) = Absent
  BY <1>4, <1>6, EngramPlaces
<1>8. Agrees(e5, "engram")
  BY <1>5, <1>6, <1>7, EngramAgrees DEF Wired
<1>9. ApplyMemoryProtocol(FALSE) = Drop(Block("memory"))
  BY DEF ApplyMemoryProtocol, Wired, Drop
<1>10. Does(d, Drop(Server("engram")) \o Drop(Workspace(r)), e2, "engram")
  BY <1>1, <1>2, DoesConcat
<1>11. Does(d, Drop(Server("engram")) \o Drop(Workspace(r)) \o Drop(UserMcp), e3, "engram")
  BY <1>3, <1>10, DoesConcat
<1>12. Does(d, Drop(Server("engram")) \o Drop(Workspace(r)) \o Drop(UserMcp)
                 \o ApplyMemoryProtocol(FALSE), e4, "engram")
  BY <1>4, <1>9, <1>11, DoesConcat
<1>13. Does(d, DisableEngram(r, rec), e5, "engram")
  BY <1>6, <1>12, DoesConcat DEF DisableEngram
<1> QED BY <1>8, <1>13

(* applyEngramConfig: one or the other, and the editor of a scope.          *)
LEMMA EngramConfigured ==
  ASSUME NEW d, IsDisk(d), NEW rec \in FieldValues("engram"), NEW r \in Repos, rec.at = r
  PROVE  \E e : Does(d, ApplyEngramConfig(r, rec), e, "engram") /\ Agrees(e, "engram")
<1>1. CASE ~rec.on
  BY <1>1, EngramOff DEF ApplyEngramConfig
<1>2. CASE rec.on
  <2> DEFINE base == ApplyEngram(rec) \o ApplyMemoryProtocol(TRUE)
             in == When(rec.scope = "workspace", Put(Workspace(r), "on"))
             at == When(rec.scope = "user", Put(UserMcp, "on"))
  <2>1. PICK e : /\ Does(d, base, e, "engram")
                 /\ St(e, "engram") = rec /\ At(e, Server("engram")) = "on"
                 /\ At(e, Block("memory")) = "on" /\ IsDisk(e)
    BY <1>2, EngramOn DEF Does, Runs
  <2>2. \A c \in {Workspace(r), UserMcp} :
           c \notin {Server("engram"), Block("memory"), Field("engram")}
    BY EngramPlaces
  <2> HIDE DEF base
  <2>3. PICK f : /\ Does(e, in, f, "engram") /\ IsDisk(f)
                 /\ \A c \in {Server("engram"), Block("memory"), Field("engram")} :
                      At(f, c) = At(e, c)
                 /\ rec.scope = "workspace" => At(f, Workspace(r)) = "on"
    <3>1. CASE rec.scope = "workspace"
      <4>1. /\ Does(e, Put(Workspace(r), "on"), Written(e, Workspace(r), "on"), "engram")
            /\ IsDisk(Written(e, Workspace(r), "on"))
            /\ At(Written(e, Workspace(r), "on"), Workspace(r)) = "on"
            /\ \A b \in Sections : b # Workspace(r) => At(Written(e, Workspace(r), "on"), b) = At(e, b)
        BY <2>1, EngramPlaces, DoesPut
      <4> QED BY <2>2, <3>1, <4>1, EngramPlaces DEF When
    <3>2. CASE rec.scope # "workspace"
      <4>1. Does(e, <<>>, e, "engram")
        BY <2>1, DoesNothing
      <4> QED BY <2>1, <3>2, <4>1 DEF When
    <3> QED BY <3>1, <3>2
  <2> HIDE DEF in
  <2>4. PICK g : /\ Does(f, at, g, "engram")
                 /\ \A c \in {Server("engram"), Block("memory"), Field("engram")} :
                      At(g, c) = At(f, c)
                 /\ rec.scope = "user" => At(g, UserMcp) = "on"
                 /\ rec.scope # "user" => g = f
    <3>1. CASE rec.scope = "user"
      <4>1. /\ Does(f, Put(UserMcp, "on"), Written(f, UserMcp, "on"), "engram")
            /\ At(Written(f, UserMcp, "on"), UserMcp) = "on"
            /\ \A b \in Sections : b # UserMcp => At(Written(f, UserMcp, "on"), b) = At(f, b)
        BY <2>3, EngramPlaces, DoesPut
      <4> QED BY <2>2, <3>1, <4>1, EngramPlaces DEF When
    <3>2. CASE rec.scope # "user"
      <4>1. Does(f, <<>>, f, "engram")
        BY <2>3, DoesNothing
      <4> QED BY <3>2, <4>1 DEF When
    <3> QED BY <3>1, <3>2
  <2> HIDE DEF at
  <2>5. St(g, "engram") = rec /\ At(g, Server("engram")) = "on" /\ At(g, Block("memory")) = "on"
    BY <2>1, <2>3, <2>4, EngramPlaces, FieldPlaces
  <2>6. Agrees(g, "engram")
    <3>1. \A c \in EditorOf(rec) : \/ rec.scope = "workspace" /\ c = Workspace(r)
                                   \/ rec.scope = "user" /\ c = UserMcp
      BY DEF EditorOf, Where
    <3>2. \A c \in EditorOf(rec) : At(g, c) = "on"
      BY <2>3, <2>4, <3>1
    <3> QED BY <1>2, <2>5, <3>2, NamesAssumption, EngramAgrees DEF Wired
  <2>7. Does(d, base \o in, f, "engram")
    BY <2>1, <2>3, DoesConcat
  <2>8. Does(d, base \o in \o at, g, "engram")
    BY <2>4, <2>7, DoesConcat
  <2>9. ApplyEngramConfig(r, rec) = base \o in \o at
    BY <1>2 DEF ApplyEngramConfig, base, in, at
  <2> QED BY <2>6, <2>8, <2>9
<1> QED BY <1>1, <1>2

(* applyCopilotHooks writes or removes each hook file of a posture.         *)
LEMMA HooksApplied ==
  ASSUME NEW d, IsDisk(d), NEW posture \in Postures
  PROVE  \E e : /\ Does(d, ApplyCopilotHooks(posture), e, "hooks")
                /\ St(e, "hooks") = posture
                /\ posture # "off" => At(e, CopilotHook("guardrails")) = posture
                /\ Agrees(e, "hooks")
<1> DEFINE hook(i) == CopilotHook(HookFiles[i])
           on == Wired(posture # "off")
           first == IF posture = "off" THEN Absent ELSE posture
           e1 == Written(d, hook(1), first)
           e2 == Written(e1, hook(2), on)
           e3 == Written(e2, hook(3), on)
           e4 == Written(e3, hook(4), on)
           e5 == Written(e4, hook(5), on)
           e6 == Written(e5, Field("hooks"), posture)
<1>1. /\ HookFiles[1] = "guardrails"
      /\ \A i \in 1..5 : HookFiles[i] \in HookNames
      /\ \A i \in 2..5 : HookFiles[i] # "guardrails"
      /\ \A i, j \in 1..5 : i # j => HookFiles[i] # HookFiles[j]
      /\ HookNames = {HookFiles[1], HookFiles[2], HookFiles[3], HookFiles[4], HookFiles[5]}
  BY DEF HookFiles, HookNames
<1>2. /\ first \in Contents("hooks", "guardrails") /\ (first # Absent <=> posture # "off")
      /\ on \in {"on", Absent} /\ (on # Absent <=> posture # "off")
  BY NamesAssumption, OtherPlaces DEF Postures, Wired
<1>3. /\ \A i \in 1..5 : hook(i) \in Sections /\ hook(i)[1] = "hooks" /\ Owner(hook(i)) = "hooks"
      /\ first \in Contents(hook(1)[1], hook(1)[2])
      /\ \A i \in 2..5 : on \in Contents(hook(i)[1], hook(i)[2])
      /\ \A i, j \in 1..5 : i # j => hook(i) # hook(j)
  BY <1>1, <1>2, OtherPlaces
<1>4. {CopilotHook(n) : n \in HookNames} = {hook(1), hook(2), hook(3), hook(4), hook(5)}
  BY <1>1
<1>5. hook(1) = CopilotHook("guardrails")
  BY <1>1
<1> HIDE DEF hook, on, first
<1>6. Does(d, Put(hook(1), first), e1, "hooks") /\ IsDisk(e1) /\ At(e1, hook(1)) = first
  BY <1>3, DoesPut
<1> HIDE DEF e1
<1>7. /\ Does(e1, Put(hook(2), on), e2, "hooks") /\ IsDisk(e2)
      /\ At(e2, hook(1)) = first /\ At(e2, hook(2)) = on
  BY <1>3, <1>6, DoesPut
<1> HIDE DEF e2
<1>8. /\ Does(e2, Put(hook(3), on), e3, "hooks") /\ IsDisk(e3)
      /\ At(e3, hook(1)) = first /\ At(e3, hook(2)) = on /\ At(e3, hook(3)) = on
  BY <1>3, <1>7, DoesPut
<1> HIDE DEF e3
<1>9. /\ Does(e3, Put(hook(4), on), e4, "hooks") /\ IsDisk(e4)
      /\ At(e4, hook(1)) = first
      /\ \A i \in 2..4 : At(e4, hook(i)) = on
  <2>1. /\ Does(e3, Put(hook(4), on), e4, "hooks") /\ IsDisk(e4) /\ At(e4, hook(4)) = on
        /\ \A b \in Sections : b # hook(4) => At(e4, b) = At(e3, b)
    BY <1>3, <1>8, DoesPut
  <2>2. \A i \in 1..3 : hook(i) # hook(4) /\ hook(i) \in Sections
    BY <1>3
  <2>3. \A i \in 2..4 : i = 2 \/ i = 3 \/ i = 4
    OBVIOUS
  <2> QED BY <1>8, <2>1, <2>2, <2>3
<1> HIDE DEF e4
<1>10. /\ Does(e4, Put(hook(5), on), e5, "hooks") /\ IsDisk(e5)
       /\ At(e5, hook(1)) = first
       /\ \A i \in 2..5 : At(e5, hook(i)) = on
  <2>1. /\ Does(e4, Put(hook(5), on), e5, "hooks") /\ IsDisk(e5) /\ At(e5, hook(5)) = on
        /\ \A b \in Sections : b # hook(5) => At(e5, b) = At(e4, b)
    BY <1>3, <1>9, DoesPut
  <2>2. \A i \in 1..4 : hook(i) # hook(5) /\ hook(i) \in Sections
    BY <1>3
  <2>3. \A i \in 2..5 : i \in 2..4 \/ i = 5
    OBVIOUS
  <2> QED BY <1>9, <2>1, <2>2, <2>3
<1> HIDE DEF e5
<1>11. "hooks" \in FieldNames /\ posture \in FieldValues("hooks") /\ Owner(Field("hooks")) = "hooks"
       /\ Field("hooks")[1] = "state"
  BY FieldPlaces DEF FieldNames, FieldValues, Switches
<1>12. /\ (posture # "off") =>
            ClaimsOf("hooks", posture) = {hook(1), hook(2), hook(3), hook(4), hook(5)}
       /\ (posture = "off") => ClaimsOf("hooks", posture) = {}
  <2>1. ClaimsOf("hooks", posture) = Where(posture # "off", {CopilotHook(n) : n \in HookNames})
    BY DEF ClaimsOf
  <2> QED BY <2>1, <1>4 DEF Where
<1>13. /\ Does(e5, Record("hooks", posture), e6, "hooks") /\ St(e6, "hooks") = posture
       /\ \A b \in Sections : b # Field("hooks") => At(e6, b) = At(e5, b)
  BY <1>2, <1>10, <1>11, <1>12, DoesRecord
<1> HIDE DEF e6
<1>14. At(e6, hook(1)) = first /\ \A i \in 2..5 : At(e6, hook(i)) = on
  <2>1. \A i \in 1..5 : hook(i) # Field("hooks")
    BY <1>3, <1>11
  <2> QED BY <1>3, <1>10, <1>13, <2>1
<1>15. Agrees(e6, "hooks")
  <2>1. ExactOf("hooks") = {hook(1), hook(2), hook(3), hook(4), hook(5)}
    BY <1>4, ExactSections
  <2>2. \A c \in ExactOf("hooks") : At(e6, c) # Absent <=> posture # "off"
    BY <1>2, <1>14, <2>1
  <2> QED BY <1>12, <1>13, <2>1, <2>2 DEF Agrees, Backed
<1>16. posture # "off" => At(e6, CopilotHook("guardrails")) = posture
  BY <1>5, <1>14 DEF first
<1>17. Does(d, Put(hook(1), first) \o Put(hook(2), on), e2, "hooks")
  BY <1>6, <1>7, DoesConcat
<1>18. Does(d, Put(hook(1), first) \o Put(hook(2), on) \o Put(hook(3), on), e3, "hooks")
  BY <1>8, <1>17, DoesConcat
<1>19. Does(d, Put(hook(1), first) \o Put(hook(2), on) \o Put(hook(3), on) \o Put(hook(4), on),
            e4, "hooks")
  BY <1>9, <1>18, DoesConcat
<1>20. Does(d, Put(hook(1), first) \o Put(hook(2), on) \o Put(hook(3), on) \o Put(hook(4), on)
                 \o Put(hook(5), on), e5, "hooks")
  BY <1>10, <1>19, DoesConcat
<1>21. Does(d, ApplyCopilotHooks(posture), e6, "hooks")
  BY <1>13, <1>20, DoesConcat DEF ApplyCopilotHooks, hook, on, first
<1> QED BY <1>13, <1>15, <1>16, <1>21

(* The records of the two settings that are wired in a repository.          *)
LEMMA HookRecords ==
  ASSUME NEW r \in Repos, NEW on \in BOOLEAN
  PROVE  /\ [on |-> on, at |-> r] \in FieldValues("cga") \ {Absent}
         /\ \A conflict \in BOOLEAN :
              [on |-> on, at |-> r, conflict |-> conflict] \in FieldValues("team") \ {Absent}
<1>1. /\ FieldValues("cga") = [on : BOOLEAN, at : Repos] \cup {Absent}
      /\ FieldValues("team") = [on : BOOLEAN, at : Repos, conflict : BOOLEAN] \cup {Absent}
  BY DEF FieldValues, Switches
<1>2. /\ [on |-> on, at |-> r] \in [on : BOOLEAN, at : Repos]
      /\ \A conflict \in BOOLEAN :
           [on |-> on, at |-> r, conflict |-> conflict] \in [on : BOOLEAN, at : Repos, conflict : BOOLEAN]
  OBVIOUS
<1> QED BY <1>1, <1>2, NamesAssumption

(* A pair of git hooks of one repository, and what is recorded of it.      *)
LEMMA GitHooksPut ==
  ASSUME NEW d, IsDisk(d), NEW r \in Repos, NEW n \in {"team", "cga"},
         NEW a, NEW b, NEW v, NEW w,
         <<a, b>> = IF n = "team" THEN <<"post-merge", "pre-push">> ELSE <<"pre-commit", "post-commit">>,
         v \in Contents(r, a), w \in Contents(r, b)
  PROVE  \E e : /\ Does(d, Put(GitHook(r, a), v) \o Put(GitHook(r, b), w), e, n) /\ IsDisk(e)
                /\ At(e, GitHook(r, a)) = v /\ At(e, GitHook(r, b)) = w
<1> DEFINE e1 == Written(d, GitHook(r, a), v)
           e2 == Written(e1, GitHook(r, b), w)
<1>1. a \in GitHookNames /\ b \in GitHookNames /\ a # b
      /\ (n = "team" => a = "post-merge" /\ b = "pre-push")
      /\ (n = "cga" => a = "pre-commit" /\ b = "post-commit")
  BY DEF GitHookNames
<1>2. /\ GitHook(r, a) \in Sections /\ GitHook(r, b) \in Sections
      /\ GitHook(r, a) = <<r, a>> /\ GitHook(r, b) = <<r, b>> /\ r # "state"
      /\ Owner(GitHook(r, a)) = n /\ Owner(GitHook(r, b)) = n
  BY <1>1, RepoPlaces
<1>3. /\ v \in Contents(GitHook(r, a)[1], GitHook(r, a)[2]) /\ GitHook(r, a)[1] # "state"
      /\ w \in Contents(GitHook(r, b)[1], GitHook(r, b)[2]) /\ GitHook(r, b)[1] # "state"
      /\ GitHook(r, a) # GitHook(r, b)
  BY <1>1, <1>2
<1>4. /\ Does(d, Put(GitHook(r, a), v), e1, n) /\ IsDisk(e1) /\ At(e1, GitHook(r, a)) = v
  BY <1>2, <1>3, DoesPut
<1> HIDE DEF e1
<1>5. /\ Does(e1, Put(GitHook(r, b), w), e2, n) /\ IsDisk(e2) /\ At(e2, GitHook(r, b)) = w
      /\ At(e2, GitHook(r, a)) = v
  BY <1>2, <1>3, <1>4, DoesPut
<1> HIDE DEF e2
<1> QED BY <1>4, <1>5, DoesConcat

(* What team sync records agrees if its hooks are in the recorded           *)
(* repository.                                                              *)
LEMMA TeamRecorded ==
  ASSUME NEW d, IsDisk(d), NEW v \in FieldValues("team"), v # Absent,
         v.on /\ ~v.conflict => /\ At(d, GitHook(v.at, "post-merge")) # Absent
                                /\ At(d, GitHook(v.at, "pre-push")) # Absent
  PROVE  \E e : Does(d, Record("team", v), e, "team") /\ Agrees(e, "team")
<1>1. "team" \in FieldNames /\ Owner(Field("team")) = "team" /\ Field("team")[1] = "state"
  BY FieldPlaces DEF FieldNames
<1>2. \A c \in ClaimsOf("team", v) : c \in Sections /\ c # Field("team") /\ At(d, c) # Absent
  <2>1. \A c \in ClaimsOf("team", v) : c \in Sections /\ c # Field("team")
    BY <1>1, ClaimsOwned
  <2>2. ClaimsOf("team", v) = Where(v # Absent /\ v.on /\ ~v.conflict,
                                    {GitHook(v.at, h) : h \in {"post-merge", "pre-push"}})
    BY DEF ClaimsOf
  <2> QED BY <2>1, <2>2 DEF Where
<1> DEFINE e == Written(d, Field("team"), v)
<1>3. /\ Does(d, Record("team", v), e, "team") /\ St(e, "team") = v
      /\ \A b \in Sections : b # Field("team") => At(e, b) = At(d, b)
  BY <1>1, <1>2, DoesRecord
<1> HIDE DEF e
<1>4. Agrees(e, "team")
  BY <1>2, <1>3, ExactSections DEF Agrees, Backed
<1> QED BY <1>3, <1>4

(* applyTeamSync, also where hooks of others are in its way.                *)
LEMMA TeamApplied ==
  ASSUME NEW d, IsDisk(d), NEW r \in Repos, NEW conflict \in BOOLEAN
  PROVE  \E e : Does(d, ApplyTeamSync(r, conflict), e, "team") /\ Agrees(e, "team")
<1> DEFINE v == [on |-> TRUE, at |-> r, conflict |-> conflict]
           hooks == When(~conflict, Put(GitHook(r, "post-merge"), "on") \o Put(GitHook(r, "pre-push"), "on"))
<1>1. v \in FieldValues("team") /\ v # Absent
  BY HookRecords
<1>2. PICK e1 : /\ Does(d, hooks, e1, "team") /\ IsDisk(e1)
                /\ ~conflict => /\ At(e1, GitHook(r, "post-merge")) = "on"
                                /\ At(e1, GitHook(r, "pre-push")) = "on"
  <2>1. CASE conflict
    BY <2>1, DoesNothing DEF When
  <2>2. CASE ~conflict
    <3>1. \E e1 : /\ Does(d, Put(GitHook(r, "post-merge"), "on") \o Put(GitHook(r, "pre-push"), "on"),
                          e1, "team")
                  /\ IsDisk(e1)
                  /\ At(e1, GitHook(r, "post-merge")) = "on"
                  /\ At(e1, GitHook(r, "pre-push")) = "on"
      BY GitHooksPut, RepoPlaces
    <3> QED BY <2>2, <3>1 DEF When
  <2> QED BY <2>1, <2>2
<1>3. PICK e2 : Does(e1, Record("team", v), e2, "team") /\ Agrees(e2, "team")
  BY <1>1, <1>2, NamesAssumption, TeamRecorded
<1> QED BY <1>2, <1>3, DoesConcat DEF ApplyTeamSync

LEMMA TeamDisabled ==
  ASSUME NEW d, IsDisk(d), NEW r \in Repos
  PROVE  \E e : Does(d, DisableTeamSync(r), e, "team") /\ Agrees(e, "team")
<1> DEFINE v == [on |-> FALSE, at |-> r, conflict |-> FALSE]
<1>1. v \in FieldValues("team") /\ v # Absent
  BY HookRecords
<1>2. PICK e1 : /\ Does(d, Drop(GitHook(r, "post-merge")) \o Drop(GitHook(r, "pre-push")), e1, "team")
                /\ IsDisk(e1)
  BY GitHooksPut, RepoPlaces DEF Drop
<1>3. PICK e2 : Does(e1, Record("team", v), e2, "team") /\ Agrees(e2, "team")
  BY <1>1, <1>2, TeamRecorded
<1> QED BY <1>2, <1>3, DoesConcat DEF DisableTeamSync

(* What the review hook records agrees, in the same way.                    *)
LEMMA CGARecorded ==
  ASSUME NEW d, IsDisk(d), NEW v \in FieldValues("cga"), v # Absent,
         v.on => /\ At(d, GitHook(v.at, "pre-commit")) # Absent
                 /\ At(d, GitHook(v.at, "post-commit")) # Absent
  PROVE  \E e : /\ Does(d, Record("cga", v), e, "cga") /\ Agrees(e, "cga") /\ St(e, "cga") = v
                /\ \A b \in Sections : b[1] # "state" => At(e, b) = At(d, b)
<1>1. "cga" \in FieldNames /\ Owner(Field("cga")) = "cga" /\ Field("cga")[1] = "state"
  BY FieldPlaces DEF FieldNames
<1>2. \A c \in ClaimsOf("cga", v) : c \in Sections /\ c # Field("cga") /\ At(d, c) # Absent
  <2>1. \A c \in ClaimsOf("cga", v) : c \in Sections /\ c # Field("cga")
    BY <1>1, ClaimsOwned
  <2>2. ClaimsOf("cga", v) = Where(v # Absent /\ v.on,
                                   {GitHook(v.at, h) : h \in {"pre-commit", "post-commit"}})
    BY DEF ClaimsOf
  <2> QED BY <2>1, <2>2 DEF Where
<1> DEFINE e == Written(d, Field("cga"), v)
<1>3. /\ Does(d, Record("cga", v), e, "cga") /\ St(e, "cga") = v
      /\ \A b \in Sections : b # Field("cga") => At(e, b) = At(d, b)
  BY <1>1, <1>2, DoesRecord
<1> HIDE DEF e
<1>4. Agrees(e, "cga")
  BY <1>2, <1>3, ExactSections DEF Agrees, Backed
<1> QED BY <1>1, <1>3, <1>4

(* applyCGA writes both hooks with the persona and records the repository.  *)
LEMMA CGAWritten ==
  ASSUME NEW d, IsDisk(d), NEW r \in Repos, NEW persona \in Personas \cup {"none"}
  PROVE  \E e : /\ Does(d, WriteCGA(r, persona), e, "cga") /\ Agrees(e, "cga")
                /\ St(e, "cga") = [on |-> TRUE, at |-> r]
                /\ At(e, GitHook(r, "pre-commit")) = persona
<1> DEFINE v == [on |-> TRUE, at |-> r]
<1>1. v \in FieldValues("cga") /\ v # Absent
  BY HookRecords
<1>2. PICK e1 : /\ Does(d, Put(GitHook(r, "pre-commit"), persona)
                             \o Put(GitHook(r, "post-commit"), "on"), e1, "cga")
                /\ IsDisk(e1)
                /\ At(e1, GitHook(r, "pre-commit")) = persona
                /\ At(e1, GitHook(r, "post-commit")) = "on"
  BY GitHooksPut, RepoPlaces
<1>3. persona # Absent /\ "on" # Absent
  BY NamesAssumption
<1>4. PICK e2 : /\ Does(e1, Record("cga", v), e2, "cga") /\ Agrees(e2, "cga") /\ St(e2, "cga") = v
                /\ \A b \in Sections : b[1] # "state" => At(e2, b) = At(e1, b)
  BY <1>1, <1>2, <1>3, CGARecorded
<1>5. At(e2, GitHook(r, "pre-commit")) = persona
  <2>1. GitHook(r, "pre-commit") \in Sections /\ GitHook(r, "pre-commit")[1] # "state"
    BY RepoPlaces DEF GitHookNames
  <2> QED BY <1>2, <1>4, <2>1
<1> QED BY <1>2, <1>4, <1>5, DoesConcat DEF WriteCGA

LEMMA CGADisabled ==
  ASSUME NEW d, IsDisk(d), NEW r \in Repos
  PROVE  \E e : Does(d, DisableCGA(r), e, "cga") /\ Agrees(e, "cga")
<1> DEFINE v == [on |-> FALSE, at |-> r]
<1>1. v \in FieldValues("cga") /\ v # Absent
  BY HookRecords
<1>2. PICK e1 : /\ Does(d, Drop(GitHook(r, "pre-commit")) \o Drop(GitHook(r, "post-commit")), e1, "cga")
                /\ IsDisk(e1)
  BY GitHooksPut, RepoPlaces DEF Drop
<1>3. PICK e2 : Does(e1, Record("cga", v), e2, "cga") /\ Agrees(e2, "cga")
  BY <1>1, <1>2, CGARecorded
<1> QED BY <1>2, <1>3, DoesConcat DEF DisableCGA

LEMMA WorkflowPlaces ==
  /\ {Block("sdd"), Block("odd"), Modules} \subseteq Sections
  /\ Block("sdd")[1] = "instructions" /\ Block("odd")[1] = "instructions" /\ Modules[1] = "home"
  /\ Block("sdd") # Block("odd") /\ Modules \notin {Block("sdd"), Block("odd")}
  /\ \A c \in {Block("sdd"), Block("odd"), Modules} : Owner(c) = "workflow"
  /\ \A n \in FieldNames : Field(n) \notin {Block("sdd"), Block("odd"), Modules}
  /\ Contents(Block("sdd")[1], Block("sdd")[2]) = (Assignments \X Assignments) \cup {Absent}
  /\ Contents(Block("odd")[1], Block("odd")[2]) = Layouts \cup {Absent}
  /\ Contents(Modules[1], Modules[2]) = BOOLEAN \cup {Absent}
  /\ \A n \in {"workflow", "models", "efforts", "odd", "modular"} :
        n \in FieldNames /\ Owner(Field(n)) = "workflow"
  /\ \A n \in {"models", "efforts"} : FieldValues(n) = Assignments
  /\ \A n \in {"odd", "modular"} : FieldValues(n) = BOOLEAN
  /\ FieldValues("workflow") = {"none", "sdd", "odd"}
<1>1. /\ {Block("sdd"), Block("odd"), Modules} \subseteq Sections
      /\ Block("sdd")[1] = "instructions" /\ Block("odd")[1] = "instructions" /\ Modules[1] = "home"
      /\ Block("sdd")[2] = "sdd" /\ Block("odd")[2] = "odd"
      /\ \A c \in {Block("sdd"), Block("odd"), Modules} : Owner(c) = "workflow"
  BY BlockPlaces, OtherPlaces DEF Keys
<1>2. /\ Contents(Block("sdd")[1], Block("sdd")[2]) = (Assignments \X Assignments) \cup {Absent}
      /\ Contents(Block("odd")[1], Block("odd")[2]) = Layouts \cup {Absent}
      /\ Contents(Modules[1], Modules[2]) = BOOLEAN \cup {Absent}
  BY <1>1, BlockPlaces, OtherPlaces
<1>3. \A n \in {"workflow", "models", "efforts", "odd", "modular"} :
         n \in FieldNames /\ Owner(Field(n)) = "workflow"
  BY FieldPlaces DEF FieldNames, Switches
<1>4. /\ \A n \in {"models", "efforts"} : FieldValues(n) = Assignments
      /\ \A n \in {"odd", "modular"} : FieldValues(n) = BOOLEAN
      /\ FieldValues("workflow") = {"none", "sdd", "odd"}
  BY DEF FieldValues, Switches
<1>5. \A n \in FieldNames : Field(n) \notin {Block("sdd"), Block("odd"), Modules}
  BY <1>1, FieldPlaces
<1> QED BY <1>1, <1>2, <1>3, <1>4, <1>5

(* The workflow agrees if the block of the one recorded is there.           *)
LEMMA WorkflowAgrees ==
  ASSUME NEW d
  PROVE  Agrees(d, "workflow") <=>
           (St(d, "workflow") # "none" => At(d, Block(St(d, "workflow"))) # Absent)
BY ExactSections DEF Agrees, Backed, ClaimsOf, Where

(* applySDD: the block, the models and the efforts.                         *)
LEMMA SDDApplied ==
  ASSUME NEW d, IsDisk(d), NEW m \in Assignments, NEW k \in Assignments
  PROVE  \E e : /\ Does(d, ApplySDD(m, k), e, "workflow") /\ IsDisk(e)
                /\ St(e, "models") = m /\ St(e, "efforts") = k
                /\ At(e, Block("sdd")) = <<m, k>>
                /\ \A n \in {"workflow", "odd", "modular"} : St(e, n) = St(d, n)
                /\ \A c \in {Block("odd"), Modules} : At(e, c) = At(d, c)
                /\ At(e, Block("sdd")) # Absent
<1> DEFINE e1 == Written(d, Block("sdd"), <<m, k>>)
           e2 == Written(e1, Field("models"), m)
           e3 == Written(e2, Field("efforts"), k)
<1>1. <<m, k>> \in Contents(Block("sdd")[1], Block("sdd")[2]) /\ <<m, k>> # Absent
  BY WorkflowPlaces, NamesAssumption
<1>2. /\ Does(d, Put(Block("sdd"), <<m, k>>), e1, "workflow") /\ IsDisk(e1)
      /\ At(e1, Block("sdd")) = <<m, k>>
      /\ \A b \in Sections : b # Block("sdd") => At(e1, b) = At(d, b)
  <2>1. Block("sdd") \in Sections /\ Block("sdd")[1] # "state" /\ Owner(Block("sdd")) = "workflow"
    BY WorkflowPlaces
  <2> QED BY <1>1, <2>1, DoesPut
<1> HIDE DEF e1
<1>3. \A v : ClaimsOf("models", v) = {} /\ ClaimsOf("efforts", v) = {}
  BY DEF ClaimsOf
<1>4. /\ Does(e1, Record("models", m), e2, "workflow") /\ IsDisk(e2) /\ St(e2, "models") = m
      /\ \A b \in Sections : b # Field("models") => At(e2, b) = At(e1, b)
      /\ \A n \in FieldNames \ {"models"} : St(e2, n) = St(e1, n)
  BY <1>2, <1>3, WorkflowPlaces, DoesRecord
<1> HIDE DEF e2
<1>5. /\ Does(e2, Record("efforts", k), e3, "workflow") /\ IsDisk(e3) /\ St(e3, "efforts") = k
      /\ \A b \in Sections : b # Field("efforts") => At(e3, b) = At(e2, b)
      /\ \A n \in FieldNames \ {"efforts"} : St(e3, n) = St(e2, n)
  BY <1>3, <1>4, WorkflowPlaces, DoesRecord
<1> HIDE DEF e3
<1>6. \A n \in FieldNames : St(e1, n) = St(d, n)
  BY <1>2, WorkflowPlaces, FieldPlaces
<1>7. /\ St(e3, "models") = m
      /\ \A n \in {"workflow", "odd", "modular"} : St(e3, n) = St(d, n)
  BY <1>4, <1>5, <1>6, WorkflowPlaces
<1>8. /\ At(e3, Block("sdd")) = <<m, k>>
      /\ \A c \in {Block("odd"), Modules} : At(e3, c) = At(d, c)
  BY <1>2, <1>4, <1>5, WorkflowPlaces
<1>9. Does(d, Put(Block("sdd"), <<m, k>>) \o Record("models", m), e2, "workflow")
  BY <1>2, <1>4, DoesConcat
<1>10. Does(d, ApplySDD(m, k), e3, "workflow")
  BY <1>5, <1>9, DoesConcat DEF ApplySDD
<1> QED BY <1>1, <1>5, <1>7, <1>8, <1>10

(* The ODD block and its modules, with and without RDD and the layout.     *)
ODDLayout(rdd, modular) == [rdd |-> rdd, modular |-> modular]
ODDModules(rdd, modular) == IF modular THEN rdd ELSE Absent

LEMMA ODDApplied ==
  ASSUME NEW d, IsDisk(d), NEW rdd \in BOOLEAN, NEW modular \in BOOLEAN
  PROVE  \E e : /\ Does(d, ApplyODD(rdd, modular), e, "workflow") /\ IsDisk(e)
                /\ St(e, "odd") /\ St(e, "modular") = modular
                /\ At(e, Block("odd")) = ODDLayout(rdd, modular)
                /\ At(e, Modules) = ODDModules(rdd, modular)
                /\ \A n \in {"workflow", "models", "efforts"} : St(e, n) = St(d, n)
                /\ At(e, Block("sdd")) = At(d, Block("sdd"))
                /\ At(e, Block("odd")) # Absent
<1> DEFINE v == [rdd |-> rdd, modular |-> modular]
           w == IF modular THEN rdd ELSE Absent
           on == TRUE
           e1 == Written(d, Block("odd"), v)
           e2 == Written(e1, Modules, w)
           e3 == Written(e2, Field("odd"), on)
           e4 == Written(e3, Field("modular"), modular)
<1>1. v \in Contents(Block("odd")[1], Block("odd")[2]) /\ v # Absent
      /\ w \in Contents(Modules[1], Modules[2]) /\ on \in BOOLEAN
  BY WorkflowPlaces, NamesAssumption DEF Layouts
<1> HIDE DEF v, w, on
<1>2. /\ Does(d, Put(Block("odd"), v), e1, "workflow") /\ IsDisk(e1)
      /\ At(e1, Block("odd")) = v
      /\ \A b \in Sections : b # Block("odd") => At(e1, b) = At(d, b)
  <2>1. Block("odd") \in Sections /\ Block("odd")[1] # "state" /\ Owner(Block("odd")) = "workflow"
    BY WorkflowPlaces
  <2> QED BY <1>1, <2>1, DoesPut
<1> HIDE DEF e1
<1>3. /\ Does(e1, Put(Modules, w), e2, "workflow") /\ IsDisk(e2)
      /\ At(e2, Modules) = w
      /\ \A b \in Sections : b # Modules => At(e2, b) = At(e1, b)
  <2>1. Modules \in Sections /\ Modules[1] # "state" /\ Owner(Modules) = "workflow"
    BY WorkflowPlaces
  <2> QED BY <1>1, <1>2, <2>1, DoesPut
<1> HIDE DEF e2
<1>4. \A x : ClaimsOf("odd", x) = {} /\ ClaimsOf("modular", x) = {}
  BY DEF ClaimsOf
<1>5. /\ Does(e2, Record("odd", on), e3, "workflow") /\ IsDisk(e3) /\ St(e3, "odd") = on
      /\ \A b \in Sections : b # Field("odd") => At(e3, b) = At(e2, b)
      /\ \A n \in FieldNames \ {"odd"} : St(e3, n) = St(e2, n)
  <2>1. /\ "odd" \in FieldNames /\ Owner(Field("odd")) = "workflow"
        /\ on \in FieldValues("odd")
    BY <1>1, WorkflowPlaces
  <2> QED BY <1>3, <1>4, <2>1, DoesRecord
<1> HIDE DEF e3
<1>6. /\ Does(e3, Record("modular", modular), e4, "workflow") /\ IsDisk(e4)
      /\ St(e4, "modular") = modular
      /\ \A b \in Sections : b # Field("modular") => At(e4, b) = At(e3, b)
      /\ \A n \in FieldNames \ {"modular"} : St(e4, n) = St(e3, n)
  BY <1>4, <1>5, WorkflowPlaces, DoesRecord
<1> HIDE DEF e4
<1>7. \A n \in FieldNames : St(e2, n) = St(d, n)
  BY <1>2, <1>3, WorkflowPlaces, FieldPlaces
<1>8. /\ St(e4, "odd") = on
      /\ \A n \in {"workflow", "models", "efforts"} : St(e4, n) = St(d, n)
  BY <1>5, <1>6, <1>7, WorkflowPlaces
<1>9. /\ At(e4, Block("odd")) = v /\ At(e4, Modules) = w
      /\ At(e4, Block("sdd")) = At(d, Block("sdd"))
  BY <1>2, <1>3, <1>5, <1>6, WorkflowPlaces
<1>10. Does(d, Put(Block("odd"), v) \o Put(Modules, w), e2, "workflow")
  BY <1>2, <1>3, DoesConcat
<1>11. Does(d, Put(Block("odd"), v) \o Put(Modules, w) \o Record("odd", on), e3, "workflow")
  BY <1>5, <1>10, DoesConcat
<1>12. Does(d, ApplyODD(rdd, modular), e4, "workflow")
  BY <1>6, <1>11, DoesConcat DEF ApplyODD, v, w, on
<1>13. /\ At(e4, Block("odd")) = ODDLayout(rdd, modular) /\ At(e4, Block("odd")) # Absent
       /\ At(e4, Modules) = ODDModules(rdd, modular)
  BY <1>1, <1>9 DEF ODDLayout, ODDModules, v, w
<1>14. St(e4, "odd")
  BY <1>8 DEF on
<1> QED BY <1>6, <1>8, <1>9, <1>12, <1>13, <1>14

(* The other workflow's block and the modules go away.                      *)
LEMMA BlockDropped ==
  ASSUME NEW d, IsDisk(d), NEW c \in {Block("sdd"), Block("odd"), Modules}
  PROVE  \E e : /\ Does(d, Drop(c), e, "workflow") /\ IsDisk(e) /\ At(e, c) = Absent
                /\ \A b \in Sections : b # c => At(e, b) = At(d, b)
                /\ \A n \in FieldNames : St(e, n) = St(d, n)
<1> DEFINE e == Written(d, c, Absent)
<1>1. c \in Sections /\ c[1] # "state" /\ Owner(c) = "workflow" /\ Absent \in Contents(c[1], c[2])
  BY WorkflowPlaces
<1>2. /\ Does(d, Drop(c), e, "workflow") /\ IsDisk(e) /\ At(e, c) = Absent
      /\ \A b \in Sections : b # c => At(e, b) = At(d, b)
  BY <1>1, DoesDrop
<1> HIDE DEF e
<1>3. \A n \in FieldNames : St(e, n) = St(d, n)
  BY <1>2, WorkflowPlaces, FieldPlaces
<1> QED BY <1>2, <1>3

(* The workflow is recorded when its block is there.                        *)
LEMMA WorkflowRecorded ==
  ASSUME NEW d, IsDisk(d), NEW v \in {"sdd", "odd"}, At(d, Block(v)) # Absent
  PROVE  \E e : Does(d, Record("workflow", v), e, "workflow") /\ Agrees(e, "workflow")
<1> DEFINE e == Written(d, Field("workflow"), v)
<1>1. ClaimsOf("workflow", v) = {Block(v)}
  BY DEF ClaimsOf, Where
<1>2. /\ Does(d, Record("workflow", v), e, "workflow") /\ St(e, "workflow") = v
      /\ \A b \in Sections : b # Field("workflow") => At(e, b) = At(d, b)
  BY <1>1, WorkflowPlaces, DoesRecord
<1> HIDE DEF e
<1>3. At(e, Block(v)) # Absent
  BY <1>2, WorkflowPlaces
<1> QED BY <1>2, <1>3, WorkflowAgrees

(* A switch of workflow writes one block, drops the other and records it.   *)
LEMMA SwitchedToSDD ==
  ASSUME NEW d, IsDisk(d)
  PROVE  \E e : Does(d, SwitchToSDD, e, "workflow") /\ Agrees(e, "workflow")
<1>1. PICK e1 : Does(d, Drop(Block("odd")), e1, "workflow") /\ IsDisk(e1)
  BY BlockDropped
<1>2. PICK e2 : Does(e1, Drop(Modules), e2, "workflow") /\ IsDisk(e2)
  BY <1>1, BlockDropped
<1>3. PICK e3 : /\ Does(e2, ApplySDD("default", "default"), e3, "workflow") /\ IsDisk(e3)
                /\ At(e3, Block("sdd")) # Absent
  BY <1>2, SDDApplied DEF Assignments
<1>4. PICK e4 : Does(e3, Record("workflow", "sdd"), e4, "workflow") /\ Agrees(e4, "workflow")
  BY <1>3, WorkflowRecorded
<1>5. Does(d, Drop(Block("odd")) \o Drop(Modules), e2, "workflow")
  BY <1>1, <1>2, DoesConcat
<1>6. Does(d, Drop(Block("odd")) \o Drop(Modules) \o ApplySDD("default", "default"), e3, "workflow")
  BY <1>3, <1>5, DoesConcat
<1> QED BY <1>4, <1>6, DoesConcat DEF SwitchToSDD

LEMMA SwitchedToODD ==
  ASSUME NEW d, IsDisk(d), NEW rdd \in BOOLEAN, NEW modular \in BOOLEAN
  PROVE  \E e : /\ Does(d, ApplyODD(rdd, modular) \o Record("workflow", "odd"), e, "workflow")
                /\ Agrees(e, "workflow")
<1>1. PICK e1 : /\ Does(d, ApplyODD(rdd, modular), e1, "workflow") /\ IsDisk(e1)
                /\ At(e1, Block("odd")) # Absent
  BY ODDApplied
<1>2. PICK e2 : Does(e1, Record("workflow", "odd"), e2, "workflow") /\ Agrees(e2, "workflow")
  BY <1>1, WorkflowRecorded
<1> QED BY <1>1, <1>2, DoesConcat

(* The agents are written, then recorded with their routing.                *)
LEMMA AgentsRouted ==
  ASSUME NEW d, IsDisk(d), NEW routing \in Routings
  PROVE  \E e : /\ Does(d, Put(Agents, routing) \o Record("agents", routing), e, "agents")
                /\ IsDisk(e) /\ Agrees(e, "agents")
                /\ St(e, "agents") = routing /\ At(e, Agents) = routing
<1> DEFINE e1 == Written(d, Agents, routing)
           e2 == Written(e1, Field("agents"), routing)
<1>1. /\ Agents \in Sections /\ Agents[1] = "home" /\ Owner(Agents) = "agents"
      /\ routing \in Contents(Agents[1], Agents[2]) /\ routing # Absent
  BY OtherPlaces, NamesAssumption
<1>2. /\ Does(d, Put(Agents, routing), e1, "agents") /\ IsDisk(e1) /\ At(e1, Agents) = routing
  BY <1>1, DoesPut
<1> HIDE DEF e1
<1>3. "agents" \in FieldNames /\ routing \in FieldValues("agents")
      /\ Owner(Field("agents")) = "agents" /\ Field("agents")[1] = "state"
  BY FieldPlaces DEF FieldNames, FieldValues, Switches
<1>4. ClaimsOf("agents", routing) = {Agents}
  BY <1>1 DEF ClaimsOf, Where
<1>5. /\ Does(e1, Record("agents", routing), e2, "agents") /\ IsDisk(e2)
      /\ St(e2, "agents") = routing
      /\ \A b \in Sections : b # Field("agents") => At(e2, b) = At(e1, b)
  BY <1>1, <1>2, <1>3, <1>4, DoesRecord
<1> HIDE DEF e2
<1>6. At(e2, Agents) = routing
  BY <1>1, <1>2, <1>3, <1>5
<1>7. Agrees(e2, "agents")
  BY <1>1, <1>4, <1>5, <1>6, ExactSections DEF Agrees, Backed
<1> QED BY <1>2, <1>5, <1>6, <1>7, DoesConcat
------------------------------------------------------------------------------
(* What a sync has made of setting n.                                      *)
CGAOn(d) == St(d, "cga") # Absent /\ St(d, "cga").on

ODDWired(d) ==
  /\ At(d, Block("odd")) = ODDLayout(St(d, "trigger"), St(d, "modular"))
  /\ At(d, Modules) = ODDModules(St(d, "trigger"), St(d, "modular"))

(* The editor's entry of Engram is not renewed by a sync.                   *)
Renewed(d, n) == \A c \in ClaimsOf(n, St(d, n)) \ EditorOf(St(d, "engram")) : At(d, c) # Absent

Converges(d, n) ==
  /\ Renewed(d, n)
  /\ n = "agents" => At(d, Agents) = St(d, "agents")
  /\ n = "persona" => (St(d, "persona") # "none" => At(d, Block("persona")) = St(d, "persona"))
  /\ n = "workflow" => IF St(d, "workflow") = "sdd"
                       THEN At(d, Block("sdd")) = <<St(d, "models"), St(d, "efforts")>>
                       ELSE ODDWired(d)
  /\ n = "hooks" => (St(d, "hooks") # "off" => At(d, CopilotHook("guardrails")) = St(d, "hooks"))
  /\ n = "cga" => (CGAOn(d) => At(d, GitHook(St(d, "cga").at, "pre-commit")) = St(d, "persona"))

SettingsSame(d, e) == \A n \in Owners : St(e, n) = St(d, n)

(* What a sync has made of one setting is not undone by a piece of another. *)
LEMMA ConvergenceKept ==
  ASSUME NEW d, NEW e, NEW m, SameBut(d, e, m), IsDisk(d), SettingsSame(d, e),
         NEW n \in Owners, n # m, Converges(d, n)
  PROVE  Converges(e, n)
<1>1. /\ n \in FieldNames /\ St(e, n) = St(d, n) /\ St(d, n) \in FieldValues(n)
      /\ \A k \in Owners : St(e, k) = St(d, k)
  BY FieldPlaces, DiskAt DEF SettingsSame, Owners
<1>2. Renewed(e, n)
  <2>1. St(e, "engram") = St(d, "engram")
    BY <1>1 DEF Owners, FieldNames
  <2> QED BY <1>1, <2>1, ClaimsOwned DEF SameBut, Renewed, Converges
<1>3. n = "agents" => At(e, Agents) = St(e, "agents")
  BY <1>1, OtherPlaces DEF SameBut, Converges
<1>4. n = "persona" => (St(e, "persona") # "none" => At(e, Block("persona")) = St(e, "persona"))
  BY <1>1, BlockPlaces DEF SameBut, Converges, Keys
<1>5. ASSUME n = "workflow"
      PROVE  IF St(e, "workflow") = "sdd"
             THEN At(e, Block("sdd")) = <<St(e, "models"), St(e, "efforts")>>
             ELSE ODDWired(e)
  <2>1. \A c \in {Block("sdd"), Block("odd"), Modules} : At(e, c) = At(d, c)
    BY <1>5, WorkflowPlaces DEF SameBut
  <2>2. \A k \in {"models", "efforts", "modular"} : St(e, k) = St(d, k)
    BY <1>5, SettingsKept
  <2>3. St(e, "trigger") = St(d, "trigger")
    BY <1>1 DEF Owners, FieldNames, Switches
  <2>4. IF St(d, "workflow") = "sdd"
        THEN At(d, Block("sdd")) = <<St(d, "models"), St(d, "efforts")>>
        ELSE ODDWired(d)
    BY <1>5 DEF Converges
  <2> QED BY <1>1, <1>5, <2>1, <2>2, <2>3, <2>4 DEF ODDWired
<1>7. n = "hooks" => (St(e, "hooks") # "off" => At(e, CopilotHook("guardrails")) = St(e, "hooks"))
  <2>1. CopilotHook("guardrails") \in Sections /\ Owner(CopilotHook("guardrails")) = "hooks"
    BY OtherPlaces DEF HookNames, HookFiles
  <2> QED BY <1>1, <2>1 DEF SameBut, Converges
<1>8. ASSUME n = "cga", CGAOn(e)
      PROVE  At(e, GitHook(St(e, "cga").at, "pre-commit")) = St(e, "persona")
  <2>1. St(e, "persona") = St(d, "persona") /\ St(e, "cga") = St(d, "cga")
    BY <1>1, <1>8 DEF Owners, FieldNames
  <2>2. St(d, "cga").at \in Repos
    BY <1>1, <1>8, <2>1 DEF CGAOn, FieldValues, Switches
  <2>3. LET c == GitHook(St(d, "cga").at, "pre-commit") IN c \in Sections /\ Owner(c) = "cga"
    BY <2>2, RepoPlaces DEF GitHookNames
  <2> QED BY <1>8, <2>1, <2>3 DEF SameBut, Converges, CGAOn
<1> QED BY <1>2, <1>3, <1>4, <1>5, <1>7, <1>8 DEF Converges

(* One part of a sync: program prog, about setting n, run on d.            *)
Refreshes(d, prog, e, n) ==
  /\ Does(d, prog, e, n) /\ IsDisk(e)
  /\ SettingsSame(d, e)
  /\ Converges(e, n)
  /\ Agrees(d, n) => Agrees(e, n)

(* A piece that leaves its setting recorded as it was, and agreeing,        *)
(* refreshes it.                                                            *)
LEMMA RefreshesPlain ==
  ASSUME NEW d, IsDisk(d), NEW prog, NEW e, NEW n \in Owners \ {"workflow", "cga", "agents", "engram"},
         Does(d, prog, e, n), St(e, n) = St(d, n), Agrees(e, n),
         n = "persona" => At(e, Block("persona")) = St(e, "persona"),
         n = "hooks" => At(e, CopilotHook("guardrails")) = St(e, "hooks")
  PROVE  Refreshes(d, prog, e, n)
<1>1. SettingsSame(d, e)
  BY SettingsKept DEF SettingsSame, Does
<1> QED BY <1>1 DEF Refreshes, Converges, Agrees, Backed, Renewed, Does, Runs

(* So does no piece, if there is nothing to do.                             *)
LEMMA RefreshesNothing ==
  ASSUME NEW d, IsDisk(d), NEW n \in Owners, Converges(d, n)
  PROVE  Refreshes(d, <<>>, d, n)
BY DoesNothing DEF Refreshes, SettingsSame

(* What RunSync re-applies, setting by setting.                             *)
LEMMA PersonaRefreshed ==
  ASSUME NEW d, IsDisk(d), NEW v, v = St(d, "persona")
  PROVE  \E e : Refreshes(d, When(v # "none", ApplyPersona(v)), e, "persona")
<1>1. "persona" \in Owners \ {"workflow", "cga", "agents", "engram"}
  BY DEF Owners, FieldNames
<1>2. CASE v = "none"
  <2>1. Converges(d, "persona")
    BY <1>2 DEF Converges, Renewed, ClaimsOf, Where
  <2> QED BY <1>1, <1>2, <2>1, RefreshesNothing DEF When
<1>3. CASE v # "none"
  <2>1. v \in Personas
    <3>1. "persona" \in FieldNames /\ FieldValues("persona") = Personas \cup {"none"}
      BY DEF FieldNames, FieldValues, Switches
    <3>2. v \in FieldValues("persona")
      BY <3>1, FieldPlaces, DiskAt
    <3> QED BY <1>3, <3>1, <3>2
  <2>2. PICK e : /\ Does(d, ApplyPersona(v), e, "persona")
                 /\ St(e, "persona") = v /\ At(e, Block("persona")) = v
                 /\ Agrees(e, "persona")
    BY <2>1, PersonaApplied
  <2>3. Refreshes(d, ApplyPersona(v), e, "persona")
    BY <1>1, <2>2, RefreshesPlain
  <2> QED BY <1>3, <2>3 DEF When
<1> QED BY <1>2, <1>3

LEMMA SwitchRefreshed ==
  ASSUME NEW d, IsDisk(d), NEW n \in {"efficiency", "trigger"}, NEW v, v = St(d, n)
  PROVE  \E e : Refreshes(d, When(v, Put(Block(n), Wired(TRUE)) \o Record(n, TRUE)), e, n)
<1>1. n \in Owners \ {"workflow", "cga", "agents", "engram"} /\ v \in BOOLEAN
      /\ n \notin {"persona", "engram", "hooks", "agents", "workflow", "cga"}
  <2>1. n \in FieldNames /\ FieldValues(n) = BOOLEAN
    BY DEF FieldNames, FieldValues, Switches
  <2>2. v \in FieldValues(n)
    BY <2>1, FieldPlaces, DiskAt
  <2> QED BY <2>1, <2>2 DEF Owners
<1>2. CASE ~v
  <2>1. ClaimsOf(n, v) = {}
    BY <1>2 DEF ClaimsOf, Where
  <2>2. Converges(d, n)
    BY <1>1, <2>1 DEF Converges, Renewed
  <2> QED BY <1>1, <1>2, <2>2, RefreshesNothing DEF When
<1>3. CASE v
  <2>1. v = TRUE
    BY <1>1, <1>3
  <2>2. PICK e : /\ Does(d, Put(Block(n), Wired(TRUE)) \o Record(n, TRUE), e, n)
                 /\ St(e, n) = TRUE /\ Agrees(e, n)
    BY SwitchApplied
  <2>3. Refreshes(d, Put(Block(n), Wired(TRUE)) \o Record(n, TRUE), e, n)
    BY <1>1, <2>1, <2>2, RefreshesPlain
  <2> QED BY <1>3, <2>3 DEF When
<1> QED BY <1>2, <1>3, <1>1

LEMMA HeadroomRefreshed ==
  ASSUME NEW d, IsDisk(d), NEW v, v = St(d, "headroom")
  PROVE  \E e : Refreshes(d, When(v, ApplyHeadroom(TRUE)), e, "headroom")
<1>1. "headroom" \in Owners \ {"workflow", "cga", "agents", "engram"} /\ v \in BOOLEAN
  <2>1. "headroom" \in FieldNames /\ FieldValues("headroom") = BOOLEAN
    BY DEF FieldNames, FieldValues, Switches
  <2>2. v \in FieldValues("headroom")
    BY <2>1, FieldPlaces, DiskAt
  <2> QED BY <2>1, <2>2 DEF Owners
<1>2. CASE ~v
  <2>1. ClaimsOf("headroom", v) = {}
    BY <1>2 DEF ClaimsOf, Where
  <2>2. Converges(d, "headroom")
    BY <2>1 DEF Converges, Renewed
  <2> QED BY <1>1, <1>2, <2>2, RefreshesNothing DEF When
<1>3. CASE v
  <2>1. v = TRUE
    BY <1>1, <1>3
  <2>2. PICK e : /\ Does(d, ApplyHeadroom(TRUE), e, "headroom")
                 /\ St(e, "headroom") = TRUE /\ Agrees(e, "headroom")
    BY HeadroomApplied
  <2>3. Refreshes(d, ApplyHeadroom(TRUE), e, "headroom")
    BY <1>1, <2>1, <2>2, RefreshesPlain
  <2> QED BY <1>3, <2>3 DEF When
<1> QED BY <1>2, <1>3, <1>1

LEMMA EngramRefreshed ==
  ASSUME NEW d, IsDisk(d), NEW v, v = St(d, "engram")
  PROVE  \E e : Refreshes(d, When(v.on, ApplyEngram(v) \o ApplyMemoryProtocol(TRUE)), e, "engram")
<1>1. "engram" \in Owners /\ v \in FieldValues("engram")
  <2>1. "engram" \in FieldNames
    BY DEF FieldNames
  <2>2. v \in FieldValues("engram")
    BY <2>1, FieldPlaces, DiskAt
  <2> QED BY <2>1, <2>2 DEF Owners
<1>2. CASE ~v.on
  <2>1. ClaimsOf("engram", v) = {}
    BY <1>2 DEF ClaimsOf, Where, EditorOf
  <2>2. Converges(d, "engram")
    BY <2>1 DEF Converges, Renewed
  <2> QED BY <1>1, <1>2, <2>2, RefreshesNothing DEF When
<1>3. CASE v.on
  <2>1. PICK e : /\ Does(d, ApplyEngram(v) \o ApplyMemoryProtocol(TRUE), e, "engram")
                 /\ St(e, "engram") = v /\ At(e, Server("engram")) = "on"
                 /\ At(e, Block("memory")) = "on"
                 /\ \A c \in Sections \ {Server("engram"), Block("memory"), Field("engram")} :
                      At(e, c) = At(d, c)
    BY <1>1, <1>3, EngramOn
  <2>2. ClaimsOf("engram", v) = {Server("engram"), Block("memory")} \cup EditorOf(v)
    BY <1>3 DEF ClaimsOf, Where
  <2>3. Converges(e, "engram")
    BY <2>1, <2>2, NamesAssumption DEF Converges, Renewed
  <2>4. ASSUME Agrees(d, "engram") PROVE Agrees(e, "engram")
    <3>1. \A c \in ClaimsOf("engram", v) : c \in Sections /\ c[1] # "state" /\ At(d, c) # Absent
      BY <1>1, <2>4, ClaimsOwned DEF Agrees, Backed, Owners
    <3>2. \A c \in ClaimsOf("engram", v) : At(e, c) # Absent
      BY <2>1, <3>1, EngramPlaces, NamesAssumption
    <3>3. Server("engram") \in ClaimsOf("engram", v) /\ Block("memory") \in ClaimsOf("engram", v)
      BY <2>2
    <3> QED BY <2>1, <3>2, <3>3, ExactSections DEF Agrees, Backed
  <2>5. SettingsSame(d, e)
    BY <2>1, SettingsKept DEF SettingsSame, Does
  <2>6. Refreshes(d, ApplyEngram(v) \o ApplyMemoryProtocol(TRUE), e, "engram")
    BY <2>1, <2>3, <2>4, <2>5 DEF Refreshes, Does, Runs
  <2> QED BY <1>3, <2>6 DEF When
<1> QED BY <1>2, <1>3

LEMMA HooksRefreshed ==
  ASSUME NEW d, IsDisk(d), NEW v, v = St(d, "hooks")
  PROVE  \E e : Refreshes(d, When(v # "off", ApplyCopilotHooks(v)), e, "hooks")
<1>1. "hooks" \in Owners \ {"workflow", "cga", "agents", "engram"} /\ v \in Postures
  <2>1. "hooks" \in FieldNames /\ FieldValues("hooks") = Postures
    BY DEF FieldNames, FieldValues, Switches
  <2>2. v \in FieldValues("hooks")
    BY <2>1, FieldPlaces, DiskAt
  <2> QED BY <2>1, <2>2 DEF Owners
<1>2. CASE v = "off"
  <2>1. Converges(d, "hooks")
    BY <1>2 DEF Converges, Renewed, ClaimsOf, Where
  <2> QED BY <1>1, <1>2, <2>1, RefreshesNothing DEF When
<1>3. CASE v # "off"
  <2>1. PICK e : /\ Does(d, ApplyCopilotHooks(v), e, "hooks")
                 /\ St(e, "hooks") = v /\ At(e, CopilotHook("guardrails")) = v
                 /\ Agrees(e, "hooks")
    BY <1>1, <1>3, HooksApplied
  <2>2. Refreshes(d, ApplyCopilotHooks(v), e, "hooks")
    BY <1>1, <2>1, RefreshesPlain
  <2> QED BY <1>3, <2>2 DEF When
<1> QED BY <1>2, <1>3

WorkflowPlan(d) ==
  IF St(d, "workflow") = "sdd"
  THEN ApplySDD(OrDefault(St(d, "models")), OrDefault(St(d, "efforts")))
  ELSE When(~St(d, "odd") /\ St(d, "models") # "none", MigrateSddToOdd)
         \o ApplyODD(St(d, "trigger"), St(d, "modular"))

(* What a sync that began with the settings of d chooses by itself.        *)
Chosen(d, e) ==
  /\ SettingsSame(d, e) /\ St(e, "modular") = St(d, "modular")
  /\ \A n \in {"models", "efforts"} :
        St(e, n) = IF St(d, "workflow") = "sdd" THEN OrDefault(St(d, n)) ELSE St(d, n)
  /\ St(e, "odd") = (St(d, "odd") \/ St(d, "workflow") # "sdd")

(* The values a setting may have.                                           *)
LEMMA SettingTypes ==
  ASSUME NEW d, IsDisk(d)
  PROVE  /\ \A n \in Switches : St(d, n) \in BOOLEAN
         /\ \A n \in {"models", "efforts"} : St(d, n) \in Assignments
         /\ St(d, "workflow") \in {"none", "sdd", "odd"}
         /\ St(d, "persona") \in Personas \cup {"none"}
         /\ St(d, "cga") \in [on : BOOLEAN, at : Repos] \cup {Absent}
<1>1. \A n \in FieldNames : St(d, n) \in FieldValues(n)
  BY FieldPlaces, DiskAt
<1>2. /\ \A n \in Switches : n \in FieldNames /\ FieldValues(n) = BOOLEAN
      /\ \A n \in {"models", "efforts"} : n \in FieldNames /\ FieldValues(n) = Assignments
      /\ "workflow" \in FieldNames /\ FieldValues("workflow") = {"none", "sdd", "odd"}
      /\ "persona" \in FieldNames /\ FieldValues("persona") = Personas \cup {"none"}
      /\ "cga" \in FieldNames /\ FieldValues("cga") = [on : BOOLEAN, at : Repos] \cup {Absent}
  BY DEF FieldNames, FieldValues, Switches
<1> QED BY <1>1, <1>2

(* RunSync re-applies SDD with default models, or seeds or re-applies ODD.  *)
LEMMA WorkflowRefreshed ==
  ASSUME NEW d, IsDisk(d), NEW d0, \A n \in FieldNames : St(d0, n) = St(d, n)
  PROVE  \E e : Refreshes(d, WorkflowPlan(d0), e, "workflow") /\ Chosen(d, e)
<1>1. /\ "workflow" \in Owners
      /\ {"workflow", "models", "efforts", "odd", "modular", "trigger"} \subseteq FieldNames
      /\ \A n \in {"workflow", "models", "efforts", "odd", "modular", "trigger"} : St(d0, n) = St(d, n)
  BY DEF Owners, FieldNames, Switches
<1>2. /\ St(d, "models") \in Assignments /\ St(d, "efforts") \in Assignments
      /\ St(d, "trigger") \in BOOLEAN /\ St(d, "modular") \in BOOLEAN /\ St(d, "odd") \in BOOLEAN
      /\ St(d, "workflow") \in {"none", "sdd", "odd"}
  BY SettingTypes DEF Switches
<1>3. CASE St(d, "workflow") = "sdd"
  <2> DEFINE m == OrDefault(St(d, "models"))
             k == OrDefault(St(d, "efforts"))
  <2>1. m \in Assignments /\ k \in Assignments
    BY <1>2 DEF OrDefault, Assignments
  <2>2. PICK e : /\ Does(d, ApplySDD(m, k), e, "workflow") /\ IsDisk(e)
                 /\ St(e, "models") = m /\ St(e, "efforts") = k
                 /\ At(e, Block("sdd")) = <<m, k>>
                 /\ \A n \in {"workflow", "odd", "modular"} : St(e, n) = St(d, n)
                 /\ At(e, Block("sdd")) # Absent
    BY <2>1, SDDApplied
  <2>3. SettingsSame(d, e)
    BY <2>2, SettingsKept DEF SettingsSame, Does
  <2>4. Chosen(d, e)
    BY <1>2, <1>3, <2>2, <2>3 DEF Chosen
  <2>5. Backed(e, "workflow")
    BY <1>3, <2>2 DEF Backed, ClaimsOf, Where
  <2>6. Converges(e, "workflow") /\ Agrees(e, "workflow")
    BY <1>3, <2>2, <2>5, ExactSections DEF Converges, Agrees, Backed, Renewed
  <2>7. WorkflowPlan(d0) = ApplySDD(m, k)
    BY <1>1, <1>3 DEF WorkflowPlan
  <2> QED BY <2>2, <2>3, <2>4, <2>6, <2>7 DEF Refreshes
<1>4. CASE St(d, "workflow") # "sdd"
  <2> DEFINE migrate == When(~St(d, "odd") /\ St(d, "models") # "none", MigrateSddToOdd)
  <2>1. PICK e1 : /\ Does(d, migrate, e1, "workflow") /\ IsDisk(e1)
                  /\ \A n \in FieldNames : St(e1, n) = St(d, n)
    <3>1. CASE ~St(d, "odd") /\ St(d, "models") # "none"
      BY <3>1, BlockDropped DEF When, MigrateSddToOdd
    <3>2. CASE ~(~St(d, "odd") /\ St(d, "models") # "none")
      BY <3>2, DoesNothing DEF When
    <3> QED BY <3>1, <3>2
  <2> HIDE DEF migrate
  <2> DEFINE odd == ApplyODD(St(d, "trigger"), St(d, "modular"))
  <2>2. PICK e : /\ Does(e1, odd, e, "workflow") /\ IsDisk(e)
                 /\ St(e, "odd") /\ St(e, "modular") = St(d, "modular")
                 /\ At(e, Block("odd")) = ODDLayout(St(d, "trigger"), St(d, "modular"))
                 /\ At(e, Modules) = ODDModules(St(d, "trigger"), St(d, "modular"))
                 /\ \A n \in {"workflow", "models", "efforts"} : St(e, n) = St(e1, n)
                 /\ At(e, Block("odd")) # Absent
    BY <1>2, <2>1, ODDApplied
  <2> HIDE DEF odd
  <2>3. Does(d, migrate \o odd, e, "workflow")
    BY <2>1, <2>2, DoesConcat
  <2>4. /\ St(e, "workflow") = St(d, "workflow")
        /\ St(e, "models") = St(d, "models") /\ St(e, "efforts") = St(d, "efforts")
    BY <1>1, <2>1, <2>2
  <2>5. SettingsSame(d, e)
    BY <2>3, <2>4, SettingsKept DEF SettingsSame, Does
  <2>6. Chosen(d, e)
    <3>1. St(e, "odd") \in BOOLEAN
      BY <2>2, SettingTypes DEF Switches
    <3>2. St(e, "odd") = TRUE
      BY <2>2, <3>1
    <3> QED BY <1>4, <2>2, <2>4, <2>5, <3>2 DEF Chosen
  <2>7. Backed(e, "workflow")
    BY <1>2, <1>4, <2>2, <2>4 DEF Backed, ClaimsOf, Where
  <2>8. St(e, "trigger") = St(d, "trigger")
    BY <2>5 DEF SettingsSame, Owners, FieldNames, Switches
  <2>9. Converges(e, "workflow") /\ Agrees(e, "workflow")
    BY <1>4, <2>2, <2>4, <2>7, <2>8, ExactSections DEF Converges, Agrees, Backed, Renewed, ODDWired
  <2>10. WorkflowPlan(d0) = migrate \o odd
    BY <1>1, <1>4 DEF WorkflowPlan, migrate, odd
  <2> QED BY <2>2, <2>3, <2>5, <2>6, <2>9, <2>10 DEF Refreshes
<1> QED BY <1>3, <1>4

(* All of a sync but the review hook, which is loaded for by itself.       *)
SyncBody(d) ==
  When(St(d, "persona") # "none", ApplyPersona(St(d, "persona")))
    \o WorkflowPlan(d)
    \o When(St(d, "trigger"), ApplyTriggerRules(TRUE))
    \o When(St(d, "engram").on, ApplyEngram(St(d, "engram")) \o ApplyMemoryProtocol(TRUE))
    \o When(St(d, "efficiency"), ApplyOutputEfficiency(TRUE))
    \o When(St(d, "headroom"), ApplyHeadroom(TRUE))
    \o When(St(d, "hooks") # "off", ApplyCopilotHooks(St(d, "hooks")))

(* A sync is its settings, and a load for the review hook.                  *)
LEMMA SyncPlanParts ==
  ASSUME NEW d
  PROVE  SyncPlan(d) = SyncBody(d) \o When(CGAOn(d), LoadIn("cga", St(d, "cga").at))
BY Zenon DEF SyncPlan, SyncBody, WorkflowPlan, CGAOn

(* Programs that converge on the settings N, from d to e.                  *)
Aligns(d, prog, e, N) ==
  /\ Runs(d, prog, e)
  /\ SettingsSame(d, e)
  /\ \A n \in N : Converges(e, n)
  /\ AllAgree(d) => AllAgree(e)

(* One more setting is refreshed.                                           *)
LEMMA AlignsNext ==
  ASSUME NEW d, NEW s, NEW e, NEW N, N \subseteq Owners, Aligns(d, s, e, N),
         NEW t, NEW f, NEW n \in Owners, Refreshes(e, t, f, n)
  PROVE  Aligns(d, s \o t, f, N \cup {n})
<1>1. Runs(d, s \o t, f)
  BY RunsConcat DEF Aligns, Refreshes, Does
<1>2. SettingsSame(d, f)
  BY DEF Aligns, Refreshes, SettingsSame
<1>3. \A m \in N \ {n} : Converges(f, m)
  BY ConvergenceKept DEF Aligns, Refreshes, Does, Runs
<1>4. AllAgree(d) => AllAgree(f)
  <2>1. SUFFICES ASSUME AllAgree(d) PROVE AllAgree(f)
    OBVIOUS
  <2>2. AllAgree(e)
    BY <2>1 DEF Aligns
  <2>3. Agrees(f, n) /\ Does(e, t, f, n) /\ n \in FieldNames
    BY <2>2 DEF Refreshes, AllAgree, Owners
  <2> QED BY <2>2, <2>3, AgreeAgain
<1> QED BY <1>1, <1>2, <1>3, <1>4 DEF Aligns, Refreshes

SyncedOwners == {"persona", "workflow", "trigger", "engram", "efficiency", "headroom", "hooks"}

(* All settings but the review hook are refreshed, one after the other.     *)
LEMMA SyncBodyRuns ==
  ASSUME NEW d, IsDisk(d), NEW A \in SUBSET {"agents"}, \A n \in A : Converges(d, n)
  PROVE  \E e : /\ Aligns(d, SyncBody(d), e, A \cup SyncedOwners) /\ Chosen(d, e) /\ IsDisk(e)
                /\ St(e, "cga") = St(d, "cga")
<1> DEFINE P == When(St(d, "persona") # "none", ApplyPersona(St(d, "persona")))
           W == WorkflowPlan(d)
           T == When(St(d, "trigger"), ApplyTriggerRules(TRUE))
           G == When(St(d, "engram").on, ApplyEngram(St(d, "engram")) \o ApplyMemoryProtocol(TRUE))
           F == When(St(d, "efficiency"), ApplyOutputEfficiency(TRUE))
           H == When(St(d, "headroom"), ApplyHeadroom(TRUE))
           K == When(St(d, "hooks") # "off", ApplyCopilotHooks(St(d, "hooks")))
<1>1. /\ SyncedOwners \subseteq Owners /\ SyncedOwners \subseteq FieldNames
      /\ A \subseteq Owners /\ A \subseteq FieldNames /\ "persona" \notin A /\ "cga" \in Owners
  BY DEF SyncedOwners, Owners, FieldNames, Switches
<1>2. PICK e1 : Refreshes(d, P, e1, "persona")
  BY PersonaRefreshed
<1>3. Aligns(d, P, e1, A \cup {"persona"}) /\ \A n \in FieldNames : St(d, n) = St(e1, n)
  <2>1. \A n \in A : Converges(e1, n)
    BY <1>1, <1>2, ConvergenceKept DEF Refreshes, Does
  <2>2. AllAgree(d) => AllAgree(e1)
    BY <1>1, <1>2, AgreeAgain DEF Refreshes, AllAgree, SyncedOwners
  <2>3. \A n \in FieldNames : St(d, n) = St(e1, n)
    BY <1>2, SettingsKept DEF Refreshes, Does, SettingsSame, Owners, FieldNames
  <2> QED BY <1>2, <2>1, <2>2, <2>3 DEF Aligns, Refreshes, Does
<1> HIDE DEF P
<1>4. PICK e2 : Refreshes(e1, W, e2, "workflow") /\ Chosen(e1, e2)
  BY <1>2, <1>3, WorkflowRefreshed DEF Refreshes
<1> HIDE DEF W
<1>5. Aligns(d, P \o W, e2, A \cup {"persona"} \cup {"workflow"}) /\ Chosen(d, e2) /\ IsDisk(e2)
  <2>1. Aligns(d, P \o W, e2, A \cup {"persona"} \cup {"workflow"})
    BY <1>1, <1>3, <1>4, AlignsNext DEF SyncedOwners
  <2>3. \A n \in FieldNames : St(d, n) = St(e1, n)
    BY <1>3
  <2>4. Chosen(d, e2)
    BY <1>4, <2>3 DEF Chosen, SettingsSame, Owners, FieldNames, Switches
  <2> QED BY <1>4, <2>1, <2>4 DEF Refreshes
<1>6. PICK e3 : Refreshes(e2, T, e3, "trigger")
  <2>1. St(d, "trigger") = St(e2, "trigger")
    BY <1>1, <1>5 DEF Aligns, SettingsSame, SyncedOwners
  <2> QED BY <1>5, <2>1, SwitchRefreshed DEF ApplyTriggerRules
<1> HIDE DEF T
<1>7. Aligns(d, P \o W \o T, e3, A \cup {"persona"} \cup {"workflow"} \cup {"trigger"}) /\ IsDisk(e3)
  BY <1>1, <1>5, <1>6, AlignsNext DEF SyncedOwners, Refreshes
<1>8. PICK e4 : Refreshes(e3, G, e4, "engram")
  <2>1. St(d, "engram") = St(e3, "engram")
    BY <1>1, <1>7 DEF Aligns, SettingsSame, SyncedOwners
  <2> QED BY <1>7, <2>1, EngramRefreshed
<1> HIDE DEF G
<1>9. Aligns(d, P \o W \o T \o G, e4, A \cup {"persona"} \cup {"workflow"} \cup {"trigger"} \cup {"engram"})
      /\ IsDisk(e4)
  BY <1>1, <1>7, <1>8, AlignsNext DEF SyncedOwners, Refreshes
<1>10. PICK e5 : Refreshes(e4, F, e5, "efficiency")
  <2>1. St(d, "efficiency") = St(e4, "efficiency")
    BY <1>1, <1>9 DEF Aligns, SettingsSame, SyncedOwners
  <2> QED BY <1>9, <2>1, SwitchRefreshed DEF ApplyOutputEfficiency
<1> HIDE DEF F
<1>11. Aligns(d, P \o W \o T \o G \o F, e5,
              A \cup {"persona"} \cup {"workflow"} \cup {"trigger"} \cup {"engram"} \cup {"efficiency"})
       /\ IsDisk(e5)
  BY <1>1, <1>9, <1>10, AlignsNext DEF SyncedOwners, Refreshes
<1>12. PICK e6 : Refreshes(e5, H, e6, "headroom")
  <2>1. St(d, "headroom") = St(e5, "headroom")
    BY <1>1, <1>11 DEF Aligns, SettingsSame, SyncedOwners
  <2> QED BY <1>11, <2>1, HeadroomRefreshed
<1> HIDE DEF H
<1>13. Aligns(d, P \o W \o T \o G \o F \o H, e6,
              A \cup {"persona"} \cup {"workflow"} \cup {"trigger"} \cup {"engram"} \cup {"efficiency"}
                \cup {"headroom"})
       /\ IsDisk(e6)
  BY <1>1, <1>11, <1>12, AlignsNext DEF SyncedOwners, Refreshes
<1>14. PICK e7 : Refreshes(e6, K, e7, "hooks")
  <2>1. St(d, "hooks") = St(e6, "hooks")
    BY <1>1, <1>13 DEF Aligns, SettingsSame, SyncedOwners
  <2> QED BY <1>13, <2>1, HooksRefreshed
<1> HIDE DEF K
<1>15. Aligns(d, P \o W \o T \o G \o F \o H \o K, e7,
              A \cup {"persona"} \cup {"workflow"} \cup {"trigger"} \cup {"engram"} \cup {"efficiency"}
                \cup {"headroom"} \cup {"hooks"})
       /\ IsDisk(e7)
  BY <1>1, <1>13, <1>14, AlignsNext DEF SyncedOwners, Refreshes
<1>16. A \cup {"persona"} \cup {"workflow"} \cup {"trigger"} \cup {"engram"} \cup {"efficiency"}
         \cup {"headroom"} \cup {"hooks"} = A \cup SyncedOwners
  BY DEF SyncedOwners
<1>17. \A n \in {"models", "efforts", "odd", "modular"} : St(e7, n) = St(e2, n)
  BY <1>6, <1>8, <1>10, <1>12, <1>14, SettingsKept DEF Refreshes, Does
<1>18. Chosen(d, e7)
  BY <1>5, <1>15, <1>17 DEF Chosen, Aligns
<1>19. St(e7, "cga") = St(d, "cga")
  BY <1>1, <1>15 DEF Aligns, SettingsSame
<1> QED BY <1>15, <1>16, <1>18, <1>19 DEF SyncBody, P, W, T, G, F, H, K
------------------------------------------------------------------------------
(* A command that has begun has puts left, and then at most one load.      *)
LoadsOf(v) ==
  CASE v = "apply" -> PlainLoads({"odd", "seed"}) \cup LoadsIn("cga")
    [] v \in Syncs -> PlainLoads({"sync"}) \cup LoadsIn("cga")
    [] OTHER -> {}

Rests(v) == {<<>>} \cup {<<s>> : s \in LoadsOf(v)}

Plan(d, prog, v, body, rest, e) ==
  prog = body \o rest /\ Runs(d, body, e) /\ rest \in Rests(v)

(* After the puts every setting agrees, if a calm command began with that: *)
(* the switch to ODD drops the SDD block and leaves the rest to its load.  *)
Agreeing(e, rest) ==
  \A n \in FieldNames : Agrees(e, n) \/ (n = "workflow" /\ rest = Load("odd"))

ChosenFrom(b, e) ==
  /\ \A n \in Owners \ {"agents"} : St(e, n) = b[n]
  /\ St(e, "modular") = b["modular"]
  /\ \A n \in {"models", "efforts"} :
        St(e, n) = IF b["workflow"] = "sdd" THEN OrDefault(b[n]) ELSE b[n]
  /\ St(e, "odd") = (b["odd"] \/ b["workflow"] # "sdd")

(* What a sync that began with the settings b has made of them.            *)
Settled(b, v, e) ==
  /\ v = "repair" => St(e, "agents") = WithRouting(b["models"])
  /\ \A n \in SyncedOwners \cup {"agents"} : Converges(e, n)
  /\ ChosenFrom(b, e)

Syncing(b, v, e, rest) ==
  /\ rest = Load("sync") =>
       /\ v = "repair" => St(e, "agents") = WithRouting(b["models"])
       /\ Converges(e, "agents")
       /\ \A n \in FieldNames \ {"agents"} : St(e, n) = b[n]
  /\ rest # Load("sync") =>
       /\ Settled(b, v, e)
       /\ rest = <<>> => Converges(e, "cga")
       /\ rest # <<>> => CGAOn(e) /\ rest = LoadIn("cga", St(e, "cga").at)

(* Each load is another step.                                               *)
LEMMA LoadsDiffer ==
  /\ Load("odd") # <<>> /\ Load("sync") # <<>> /\ Load("seed") # <<>>
  /\ Load("seed") # Load("odd") /\ Load("seed") # Load("sync")
  /\ \A r : /\ LoadIn("cga", r) # <<>> /\ LoadIn("cga", r) # Load("sync")
            /\ LoadIn("cga", r) # Load("odd")
BY DEF Load, LoadIn

(* The loads that a command may end with.                                   *)
LEMMA RestsKnown ==
  /\ \A v : <<>> \in Rests(v)
  /\ Load("odd") \in Rests("apply") /\ Load("seed") \in Rests("apply")
  /\ \A v \in Syncs : Load("sync") \in Rests(v)
  /\ \A v \in Syncs \cup {"apply"}, r \in Repos : LoadIn("cga", r) \in Rests(v)
<1>1. /\ [do |-> "load", plan |-> "odd", at |-> Absent] \in LoadsOf("apply")
      /\ [do |-> "load", plan |-> "seed", at |-> Absent] \in LoadsOf("apply")
  BY DEF LoadsOf, PlainLoads, Syncs
<1>2. \A v \in Syncs : [do |-> "load", plan |-> "sync", at |-> Absent] \in LoadsOf(v)
  BY DEF LoadsOf, PlainLoads, Syncs
<1>3. \A v \in Syncs \cup {"apply"}, r \in Repos : [do |-> "load", plan |-> "cga", at |-> r] \in LoadsOf(v)
  BY DEF LoadsOf, LoadsIn, Syncs
<1> QED BY <1>1, <1>2, <1>3 DEF Rests, Load, LoadIn

(* A program of puts is a plan, and so is a load alone.                     *)
LEMMA NothingAfter ==
  ASSUME NEW d, NEW prog, NEW e, Runs(d, prog, e), NEW v
  PROVE  Plan(d, prog, v, prog, <<>>, e)
<1>1. prog \o <<>> = prog
  BY ConcatEmptySeq DEF Runs, Straight
<1> QED BY <1>1, RestsKnown DEF Plan

LEMMA NothingBefore ==
  ASSUME NEW d, IsDisk(d), NEW v, NEW s \in LoadsOf(v)
  PROVE  Plan(d, <<s>>, v, <<>>, <<s>>, d)
<1>1. <<>> \o <<s>> = <<s>>
  <2>1. <<s>> \in Seq({s})
    OBVIOUS
  <2> QED BY <2>1, ConcatEmptySeq
<1> QED BY <1>1, RunsNothing DEF Plan, Rests

(* What RunSync does with the state it has loaded.                          *)
LEMMA SyncLoaded ==
  ASSUME NEW d, IsDisk(d), NEW v \in Syncs, NEW b
  PROVE  \E body, rest, e :
            /\ Plan(d, SyncPlan(d), v, body, rest, e)
            /\ AllAgree(d) => Agreeing(e, rest)
            /\ Syncing(b, v, d, Load("sync")) => Syncing(b, v, e, rest)
<1> DEFINE A == {n \in {"agents"} : Converges(d, n)}
           rest == When(CGAOn(d), LoadIn("cga", St(d, "cga").at))
<1>1. A \in SUBSET {"agents"} /\ \A n \in A : Converges(d, n)
  OBVIOUS
<1>2. PICK e : /\ Aligns(d, SyncBody(d), e, A \cup SyncedOwners) /\ Chosen(d, e) /\ IsDisk(e)
               /\ St(e, "cga") = St(d, "cga")
  BY <1>1, SyncBodyRuns
<1>3. CGAOn(d) => St(d, "cga").at \in Repos
  <2>1. St(d, "cga") \in [on : BOOLEAN, at : Repos] \cup {Absent}
    BY SettingTypes
  <2> QED BY <2>1 DEF CGAOn
<1>4. /\ rest \in Rests(v) /\ rest # Load("sync") /\ rest # Load("odd")
      /\ ~CGAOn(d) => rest = <<>>
      /\ CGAOn(d) => rest = LoadIn("cga", St(d, "cga").at) /\ rest # <<>>
  BY <1>3, RestsKnown, LoadsDiffer DEF When
<1>5. Plan(d, SyncPlan(d), v, SyncBody(d), rest, e)
  BY <1>2, <1>4, SyncPlanParts DEF Plan, Aligns
<1> HIDE DEF rest
<1>6. AllAgree(d) => Agreeing(e, rest)
  BY <1>2 DEF Aligns, AllAgree, Agreeing
<1>7. ASSUME Syncing(b, v, d, Load("sync"))
      PROVE  Syncing(b, v, e, rest)
  <2>1. /\ v = "repair" => St(d, "agents") = WithRouting(b["models"])
        /\ Converges(d, "agents")
        /\ \A n \in FieldNames \ {"agents"} : St(d, n) = b[n]
    BY <1>7 DEF Syncing
  <2>2. \A n \in SyncedOwners \cup {"agents"} : Converges(e, n)
    BY <1>2, <2>1 DEF Aligns
  <2>3. SettingsSame(d, e) /\ "agents" \in Owners /\ Owners \subseteq FieldNames
        /\ {"models", "efforts", "odd", "modular", "workflow"} \subseteq FieldNames
    BY <1>2 DEF Aligns, Owners, FieldNames, Switches
  <2>4. v = "repair" => St(e, "agents") = WithRouting(b["models"])
    BY <2>1, <2>3 DEF SettingsSame
  <2>5. ChosenFrom(b, e)
    BY <1>2, <2>1, <2>3 DEF ChosenFrom, Chosen, SettingsSame
  <2>6. ~CGAOn(d) => Converges(e, "cga")
    BY <1>2 DEF CGAOn, Converges, Renewed, ClaimsOf, Where
  <2>7. CGAOn(d) <=> CGAOn(e)
    BY <1>2 DEF CGAOn
  <2> QED BY <1>2, <1>4, <2>2, <2>4, <2>5, <2>6, <2>7 DEF Syncing, Settled
<1> QED BY <1>5, <1>6, <1>7

(* The review hook is written with the persona of the state loaded for it.  *)
LEMMA CGALoaded ==
  ASSUME NEW d, IsDisk(d), NEW v, NEW r \in Repos, NEW persona \in Personas \cup {"none"}, NEW b
  PROVE  \E body, rest, e :
            /\ Plan(d, WriteCGA(r, persona), v, body, rest, e)
            /\ AllAgree(d) => Agreeing(e, rest)
            /\ (persona = St(d, "persona") /\ Syncing(b, v, d, LoadIn("cga", r))) =>
                  Syncing(b, v, e, rest)
<1>1. PICK e : /\ Does(d, WriteCGA(r, persona), e, "cga") /\ Agrees(e, "cga")
               /\ St(e, "cga") = [on |-> TRUE, at |-> r]
               /\ At(e, GitHook(r, "pre-commit")) = persona
  BY CGAWritten
<1>2. Plan(d, WriteCGA(r, persona), v, WriteCGA(r, persona), <<>>, e)
  BY <1>1, NothingAfter DEF Does
<1>3. AllAgree(d) => Agreeing(e, <<>>)
  BY <1>1, AgreeAgain DEF AllAgree, Agreeing, FieldNames
<1>4. ASSUME persona = St(d, "persona"), Syncing(b, v, d, LoadIn("cga", r))
      PROVE  Syncing(b, v, e, <<>>)
  <2>1. Settled(b, v, d) /\ CGAOn(d) /\ LoadIn("cga", r) = LoadIn("cga", St(d, "cga").at)
    BY <1>4, LoadsDiffer DEF Syncing
  <2>2. St(d, "cga").at = r
    BY <2>1 DEF LoadIn
  <2>3. St(d, "cga") = St(e, "cga")
    <3>1. St(d, "cga") \in [on : BOOLEAN, at : Repos]
      BY <2>1, SettingTypes DEF CGAOn
    <3>2. St(d, "cga").on = TRUE
      BY <2>1, <3>1 DEF CGAOn
    <3> QED BY <1>1, <2>2, <3>1, <3>2
  <2>4. SettingsSame(d, e)
    BY <1>1, <2>3, SettingsKept DEF SettingsSame, Does
  <2>5. /\ SyncedOwners \cup {"agents"} \subseteq Owners \ {"cga"} /\ "agents" \in Owners
        /\ "persona" \in Owners
    BY DEF SyncedOwners, Owners, FieldNames, Switches
  <2>6. \A n \in SyncedOwners \cup {"agents"} : Converges(e, n)
    BY <1>1, <2>1, <2>4, <2>5, ConvergenceKept DEF Settled, Does
  <2>7. \A n \in {"models", "efforts", "odd", "modular"} : St(e, n) = St(d, n)
    BY <1>1, SettingsKept DEF Does
  <2>8. ChosenFrom(b, e)
    BY <2>1, <2>4, <2>7 DEF Settled, ChosenFrom, SettingsSame
  <2>9. Converges(e, "cga")
    BY <1>1, <1>4, <2>4, <2>5 DEF Converges, Agrees, Backed, Renewed, SettingsSame
  <2>10. v = "repair" => St(e, "agents") = WithRouting(b["models"])
    BY <2>1, <2>4, <2>5 DEF Settled, SettingsSame
  <2> QED BY <2>6, <2>8, <2>9, <2>10, LoadsDiffer DEF Syncing, Settled
<1> QED BY <1>2, <1>3, <1>4

(* A switch to ODD goes by the state, or by the defaults if it cannot be    *)
(* read.                                                                    *)
LEMMA ODDLoaded ==
  ASSUME NEW d, IsDisk(d), NEW rdd \in BOOLEAN, NEW modular \in BOOLEAN
  PROVE  \E body, rest, e :
            /\ Plan(d, ApplyODD(rdd, modular) \o Record("workflow", "odd"), "apply", body, rest, e)
            /\ Agreeing(d, Load("odd")) => Agreeing(e, rest)
<1>1. PICK e : /\ Does(d, ApplyODD(rdd, modular) \o Record("workflow", "odd"), e, "workflow")
               /\ Agrees(e, "workflow")
  BY SwitchedToODD
<1>2. Plan(d, ApplyODD(rdd, modular) \o Record("workflow", "odd"), "apply",
           ApplyODD(rdd, modular) \o Record("workflow", "odd"), <<>>, e)
  BY <1>1, NothingAfter DEF Does
<1>3. Agreeing(d, Load("odd")) => Agreeing(e, <<>>)
  BY <1>1, AgreementKept DEF Agreeing, Does
<1> QED BY <1>2, <1>3

(* Opening the workflow screen seeds ODD once.                              *)
LEMMA SeedLoaded ==
  ASSUME NEW d, IsDisk(d)
  PROVE  \E body, rest, e :
            /\ Plan(d, When(~St(d, "odd"), ApplyODD(St(d, "trigger"), St(d, "modular"))), "apply",
                    body, rest, e)
            /\ AllAgree(d) => Agreeing(e, rest)
<1> DEFINE prog == When(~St(d, "odd"), ApplyODD(St(d, "trigger"), St(d, "modular")))
<1>1. "workflow" \in FieldNames /\ St(d, "workflow") \in {"none", "sdd", "odd"}
      /\ St(d, "trigger") \in BOOLEAN /\ St(d, "modular") \in BOOLEAN
  BY SettingTypes DEF FieldNames, Switches
<1>2. PICK e : Runs(d, prog, e) /\ (AllAgree(d) => AllAgree(e))
  <2>1. CASE St(d, "odd")
    BY <2>1, RunsNothing DEF When
  <2>2. CASE ~St(d, "odd")
    <3>1. PICK e : /\ Does(d, ApplyODD(St(d, "trigger"), St(d, "modular")), e, "workflow")
                   /\ \A n \in {"workflow", "models", "efforts"} : St(e, n) = St(d, n)
                   /\ At(e, Block("sdd")) = At(d, Block("sdd"))
                   /\ At(e, Block("odd")) # Absent
      BY <1>1, ODDApplied
    <3>2. Agrees(d, "workflow") => Agrees(e, "workflow")
      BY <1>1, <3>1, WorkflowAgrees
    <3>3. AllAgree(d) => AllAgree(e)
      BY <1>1, <3>1, <3>2, AgreeAgain DEF AllAgree
    <3> QED BY <2>2, <3>1, <3>3 DEF When, Does
  <2> QED BY <2>1, <2>2
<1>3. Plan(d, prog, "apply", prog, <<>>, e)
  BY <1>2, NothingAfter
<1> QED BY <1>2, <1>3 DEF AllAgree, Agreeing

(* What a screen or a command starts with, on disk d.                      *)
Starts(d, prog, v, b) ==
  \E body, rest, e :
     /\ Plan(d, prog, v, body, rest, e)
     /\ AllAgree(d) => Agreeing(e, rest)
     /\ v \in Syncs => Syncing(b, v, e, rest)

(* A screen that applies one setting starts a plan, and two settings do.    *)
LEMMA OneSettingStarts ==
  ASSUME NEW d, IsDisk(d), NEW n \in FieldNames, NEW prog, NEW b,
         \E e : Does(d, prog, e, n) /\ Agrees(e, n)
  PROVE  Starts(d, prog, "apply", b)
<1>1. PICK e : Does(d, prog, e, n) /\ Agrees(e, n)
  OBVIOUS
<1>2. AllAgree(d) => Agreeing(e, <<>>)
  BY <1>1, AgreeAgain DEF AllAgree, Agreeing
<1>3. Plan(d, prog, "apply", prog, <<>>, e)
  BY <1>1, NothingAfter DEF Does
<1> QED BY <1>2, <1>3 DEF Starts, Syncs

LEMMA TwoSettingsStart ==
  ASSUME NEW d, IsDisk(d), NEW n \in FieldNames, NEW m \in FieldNames, NEW s, NEW t, NEW b,
         \E e : Does(d, s, e, n) /\ Agrees(e, n),
         \A e : IsDisk(e) => \E f : Does(e, t, f, m) /\ Agrees(f, m)
  PROVE  Starts(d, s \o t, "apply", b)
<1>1. PICK e : Does(d, s, e, n) /\ Agrees(e, n)
  OBVIOUS
<1>2. PICK f : Does(e, t, f, m) /\ Agrees(f, m)
  BY <1>1 DEF Does, Runs
<1>3. Runs(d, s \o t, f)
  BY <1>1, <1>2, RunsConcat DEF Does
<1>4. AllAgree(d) => AllAgree(f)
  BY <1>1, <1>2, AgreeAgain
<1>5. Plan(d, s \o t, "apply", s \o t, <<>>, f)
  BY <1>3, NothingAfter
<1> QED BY <1>4, <1>5 DEF Starts, Syncs, AllAgree, Agreeing

(* A screen that first loads the state starts a plan.                       *)
LEMMA LoadStarts ==
  ASSUME NEW d, IsDisk(d), NEW b, NEW rest, NEW s \in LoadsOf("apply"), rest = <<s>>
  PROVE  Starts(d, rest, "apply", b)
BY NothingBefore DEF Starts, Syncs, AllAgree, Agreeing

LEMMA WorkflowStarts ==
  ASSUME NEW d, IsDisk(d), NEW b
  PROVE  Starts(d, SwitchToSDD, "apply", b) /\ Starts(d, SwitchToODD, "apply", b)
<1>1. Starts(d, SwitchToSDD, "apply", b)
  BY SwitchedToSDD, OneSettingStarts DEF FieldNames
<1>2. PICK e : Does(d, Drop(Block("sdd")), e, "workflow")
  BY BlockDropped
<1>3. Plan(d, SwitchToODD, "apply", Drop(Block("sdd")), Load("odd"), e)
  BY <1>2, RestsKnown DEF SwitchToODD, Plan, Does
<1>4. AllAgree(d) => Agreeing(e, Load("odd"))
  BY <1>2, AgreementKept DEF AllAgree, Agreeing, Does, Runs
<1> QED BY <1>1, <1>3, <1>4 DEF Starts, Syncs

(* Every screen starts a plan.                                              *)
LEMMA ScreenStarts ==
  ASSUME NEW d, IsDisk(d), NEW b
  PROVE  /\ \A v \in Personas, on \in BOOLEAN :
               Starts(d, ApplyPersona(v) \o ApplyOutputEfficiency(on), "apply", b)
         /\ \A m, k \in {"default", "custom"} :
               Starts(d, ApplySDD(m, k) \o ApplyTriggerRules(TRUE), "apply", b)
         /\ \A r \in Repos : \A rec \in [on : BOOLEAN, scope : Scopes, at : {r}] :
               Starts(d, ApplyEngramConfig(r, rec), "apply", b)
         /\ \A on \in BOOLEAN : Starts(d, ApplyHeadroom(on), "apply", b)
         /\ \A r \in Repos, conflict \in BOOLEAN : Starts(d, ApplyTeamSync(r, conflict), "apply", b)
         /\ \A r \in Repos : Starts(d, DisableTeamSync(r), "apply", b)
         /\ \A posture \in Postures : Starts(d, ApplyCopilotHooks(posture), "apply", b)
         /\ \A r \in Repos : /\ Starts(d, LoadIn("cga", r), "apply", b)
                             /\ Starts(d, DisableCGA(r), "apply", b)
         /\ Starts(d, Load("seed"), "apply", b)
<1>1. {"persona", "efficiency", "trigger", "workflow", "engram", "headroom", "team", "hooks", "cga"}
        \subseteq FieldNames
  BY DEF FieldNames, Switches
<1>2. ASSUME NEW v \in Personas, NEW on \in BOOLEAN
      PROVE  Starts(d, ApplyPersona(v) \o ApplyOutputEfficiency(on), "apply", b)
  <2>1. \E e : Does(d, ApplyPersona(v), e, "persona") /\ Agrees(e, "persona")
    BY PersonaApplied
  <2>2. \A e : IsDisk(e) => \E f : Does(e, ApplyOutputEfficiency(on), f, "efficiency") /\ Agrees(f, "efficiency")
    BY SwitchApplied DEF ApplyOutputEfficiency
  <2> QED BY <1>1, <2>1, <2>2, TwoSettingsStart
<1>3. ASSUME NEW m \in {"default", "custom"}, NEW k \in {"default", "custom"}
      PROVE  Starts(d, ApplySDD(m, k) \o ApplyTriggerRules(TRUE), "apply", b)
  <2>1. m \in Assignments /\ k \in Assignments
    BY DEF Assignments
  <2>2. PICK e : /\ Does(d, ApplySDD(m, k), e, "workflow")
                 /\ At(e, Block("sdd")) # Absent
                 /\ \A n \in {"workflow", "odd", "modular"} : St(e, n) = St(d, n)
                 /\ \A c \in {Block("odd"), Modules} : At(e, c) = At(d, c)
    BY <2>1, SDDApplied
  <2>3. Agrees(d, "workflow") => Agrees(e, "workflow")
    <3>1. St(d, "workflow") \in {"none", "sdd", "odd"}
      BY SettingTypes
    <3> QED BY <2>2, <3>1, WorkflowAgrees
  <2>4. PICK f : Does(e, ApplyTriggerRules(TRUE), f, "trigger") /\ Agrees(f, "trigger")
    BY <2>2, SwitchApplied DEF ApplyTriggerRules, Does, Runs
  <2>5. AllAgree(d) => AllAgree(f)
    <3>1. AllAgree(d) => AllAgree(e)
      BY <1>1, <2>2, <2>3, AgreeAgain DEF AllAgree
    <3> QED BY <1>1, <2>4, <3>1, AgreeAgain
  <2>6. Runs(d, ApplySDD(m, k) \o ApplyTriggerRules(TRUE), f)
    BY <2>2, <2>4, RunsConcat DEF Does
  <2> QED BY <2>5, <2>6, NothingAfter DEF Starts, Syncs, AllAgree, Agreeing
<1>4. ASSUME NEW r \in Repos, NEW rec \in [on : BOOLEAN, scope : Scopes, at : {r}]
      PROVE  Starts(d, ApplyEngramConfig(r, rec), "apply", b)
  <2>1. rec \in FieldValues("engram") /\ rec.at = r
    BY DEF FieldValues, Switches
  <2> QED BY <1>1, <2>1, EngramConfigured, OneSettingStarts
<1>5. ASSUME NEW on \in BOOLEAN PROVE Starts(d, ApplyHeadroom(on), "apply", b)
  BY <1>1, HeadroomApplied, OneSettingStarts
<1>6. ASSUME NEW r \in Repos, NEW conflict \in BOOLEAN
      PROVE  Starts(d, ApplyTeamSync(r, conflict), "apply", b)
  BY <1>1, TeamApplied, OneSettingStarts
<1>7. ASSUME NEW r \in Repos PROVE Starts(d, DisableTeamSync(r), "apply", b)
  BY <1>1, TeamDisabled, OneSettingStarts
<1>8. ASSUME NEW posture \in Postures PROVE Starts(d, ApplyCopilotHooks(posture), "apply", b)
  BY <1>1, HooksApplied, OneSettingStarts
<1>9. ASSUME NEW r \in Repos
      PROVE  Starts(d, LoadIn("cga", r), "apply", b) /\ Starts(d, DisableCGA(r), "apply", b)
  <2>1. [do |-> "load", plan |-> "cga", at |-> r] \in LoadsOf("apply")
    BY DEF LoadsOf, LoadsIn, Syncs
  <2>2. Starts(d, LoadIn("cga", r), "apply", b)
    BY <2>1, LoadStarts DEF LoadIn
  <2> QED BY <1>1, <2>2, CGADisabled, OneSettingStarts
<1>10. Starts(d, Load("seed"), "apply", b)
  <2>1. [do |-> "load", plan |-> "seed", at |-> Absent] \in LoadsOf("apply")
    BY DEF LoadsOf, PlainLoads, Syncs
  <2> QED BY <2>1, LoadStarts DEF Load
<1> QED BY <1>2, <1>3, <1>4, <1>5, <1>6, <1>7, <1>8, <1>9, <1>10

(* The blocks of the review gate are recorded nowhere.                      *)
LEMMA GateStarts ==
  ASSUME NEW d, IsDisk(d), NEW b, NEW r \in Repos, NEW v \in {"on", Absent}
  PROVE  Starts(d, WriteGate(r, v), "apply", b)
<1> DEFINE c1 == Gate(r, "pre-commit gate")
           c2 == Gate(r, "pre-push gate")
           e1 == Written(d, c1, v)
           e2 == Written(e1, c2, v)
<1>1. \A n \in GateNames : /\ Gate(r, n) \in Sections /\ Gate(r, n)[1] # "state"
                            /\ v \in Contents(Gate(r, n)[1], Gate(r, n)[2])
                            /\ Owner(Gate(r, n)) = "gate"
  BY RepoPlaces
<1>2. "pre-commit gate" \in GateNames /\ "pre-push gate" \in GateNames
  BY DEF GateNames
<1>3. /\ c1 \in Sections /\ c1[1] # "state" /\ v \in Contents(c1[1], c1[2]) /\ Owner(c1) = "gate"
      /\ c2 \in Sections /\ c2[1] # "state" /\ v \in Contents(c2[1], c2[2]) /\ Owner(c2) = "gate"
  BY <1>1, <1>2
<1>4. WriteGate(r, v) = Put(c1, v) \o Put(c2, v)
  BY DEF WriteGate
<1> HIDE DEF c1, c2
<1>5. Does(d, Put(c1, v), e1, "gate") /\ IsDisk(e1)
  BY <1>3, DoesPut
<1> HIDE DEF e1
<1>6. Does(e1, Put(c2, v), e2, "gate")
  BY <1>3, <1>5, DoesPut
<1> HIDE DEF e2
<1>7. Does(d, WriteGate(r, v), e2, "gate")
  BY <1>4, <1>5, <1>6, DoesConcat
<1>8. "gate" \notin FieldNames
  BY DEF FieldNames, Switches
<1>9. AllAgree(d) => Agreeing(e2, <<>>)
  BY <1>7, <1>8, AgreementKept DEF AllAgree, Agreeing, Does
<1>10. Plan(d, WriteGate(r, v), "apply", WriteGate(r, v), <<>>, e2)
  BY <1>7, NothingAfter DEF Does
<1> QED BY <1>9, <1>10 DEF Starts, Syncs

(* So do sync and repair, with the agents or without them.                  *)
LEMMA RunSyncStarts ==
  ASSUME NEW d, IsDisk(d), NEW v \in Syncs, NEW routing \in Routings,
         v = "repair" => routing = WithRouting(St(d, "models"))
  PROVE  Starts(d, RunSync(routing), v, d["state"])
<1> DEFINE body == Put(Agents, routing) \o Record("agents", routing)
<1>1. PICK e : /\ Does(d, body, e, "agents") /\ IsDisk(e) /\ Agrees(e, "agents")
               /\ St(e, "agents") = routing /\ At(e, Agents) = routing
  BY AgentsRouted
<1>2. Plan(d, RunSync(routing), v, body, Load("sync"), e)
  BY <1>1, RestsKnown DEF RunSync, Plan, Does
<1> HIDE DEF body
<1>3. AllAgree(d) => Agreeing(e, Load("sync"))
  BY <1>1, AgreeAgain DEF AllAgree, Agreeing, FieldNames
<1>4. \A n \in FieldNames \ {"agents"} : St(e, n) = d["state"][n]
  BY <1>1, SettingsKept DEF Does, Owners, St
<1>5. Converges(e, "agents")
  BY <1>1 DEF Converges, Agrees, Backed, Renewed
<1>6. Syncing(d["state"], v, e, Load("sync"))
  BY <1>1, <1>4, <1>5 DEF Syncing, St
<1> QED BY <1>2, <1>3, <1>6 DEF Starts
------------------------------------------------------------------------------
(* The inductive invariant.                                                *)
Verbs == {"none", "apply", "purge"} \cup Syncs

(* Purge writes no field of the state: it removes the file.                *)
PurgeSteps == {s \in PutSteps : s.at[1] # "state"} \cup LoadsIn("purge") \cup Wipes

StepsOf(v) ==
  CASE v = "none" -> {}
    [] v = "purge" -> PurgeSteps
    [] OTHER -> PutSteps \cup LoadsOf(v)

Whole(f, w) == w = [n \in Keys(f) |-> w[n]] /\ \A n \in Keys(f) : w[n] \in Contents(f, n)

Copied(c, w) ==
  w = [n \in Together(c) |-> w[n]] /\ \A n \in Together(c) : w[n] \in Contents(c[1], n)

Reading(p) ==
  buf[p] # <<>> => Puts(p) /\ Copied(Head1(p).at, buf[p])

Typed ==
  /\ IsDisk(disk)
  /\ routed \in [Procs -> Routings] /\ cmd \in [Procs -> Verbs]
  /\ DOMAIN todo = Procs /\ \A p \in Procs : todo[p] \in Seq(StepsOf(cmd[p]))
  /\ DOMAIN buf = Procs /\ \A p \in Procs : Reading(p)
  /\ blind \in [Procs -> BOOLEAN] /\ alone \in [Procs -> BOOLEAN]
  /\ \A n \in FieldNames : before[n] \in FieldValues(n)
  /\ synced \in Syncs \cup {"none"} /\ calm \in BOOLEAN
  /\ moves \in 0..(MaxMoves + 1)

(* A process that has run alone is the only one that runs, calm is not     *)
(* broken by another, and what the only one has read is what is on disk.   *)
Solo(p) ==
  /\ alone[p] => ~Idle(p) /\ OthersIdle(p)
  /\ calm /\ ~Idle(p) => alone[p]
  /\ alone[p] /\ buf[p] # <<>> =>
       buf[p] = [n \in Together(Head1(p).at) |-> disk[Head1(p).at[1]][n]]

(* Where the puts of a command that has run alone lead, undisturbed.       *)
Underway(p) ==
  alone[p] /\ cmd[p] # "purge" =>
    \E body, rest, e :
       /\ Plan(disk, todo[p], cmd[p], body, rest, e)
       /\ calm /\ ~blind[p] => Agreeing(e, rest)
       /\ cmd[p] \in Syncs /\ ~blind[p] => Syncing(before, cmd[p], e, rest)

Rested ==
  /\ synced # "none" => AllIdle /\ Settled(before, synced, disk) /\ Converges(disk, "cga")
  /\ calm /\ AllIdle => AllAgree(disk)

IInv ==
  /\ Typed
  /\ \A p \in Procs : Solo(p) /\ Underway(p)
  /\ Rested

(* The steps of a plan are steps of its command.                            *)
LEMMA StepsOfPlan ==
  ASSUME NEW v \in Verbs \ {"none", "purge"}, NEW d, NEW prog, NEW body, NEW rest, NEW e,
         Plan(d, prog, v, body, rest, e)
  PROVE  prog \in Seq(StepsOf(v))
<1>1. StepsOf(v) = PutSteps \cup LoadsOf(v)
  BY DEF StepsOf
<1>2. body \in Seq(StepsOf(v))
  BY <1>1, SeqMonotonic DEF Plan, Runs, Straight
<1>3. rest \in Seq(StepsOf(v))
  <2>1. CASE rest = <<>>
    BY <2>1, EmptySeq
  <2>2. CASE rest # <<>>
    <3>1. PICK s \in LoadsOf(v) : rest = <<s>>
      BY <2>2 DEF Plan, Rests
    <3>2. s \in StepsOf(v)
      BY <1>1
    <3> HIDE DEF StepsOf
    <3> QED BY <3>1, <3>2
  <2> QED BY <2>1, <2>2
<1> QED BY <1>2, <1>3, ConcatProperties DEF Plan

LEMMA StepKinds ==
  /\ \A s \in PutSteps : s.do = "put"
  /\ \A v : \A s \in LoadsOf(v) : s.do = "load"
  /\ \A s \in Wipes : s.do = "wipe"
<1>1. \A plans : \A s \in PlainLoads(plans) : s.do = "load"
  BY DEF PlainLoads
<1>2. \A plan : \A s \in LoadsIn(plan) : s.do = "load"
  BY DEF LoadsIn
<1>3. ASSUME NEW v, NEW s \in LoadsOf(v) PROVE s.do = "load"
  <2>1. s \in PlainLoads({"odd", "seed"}) \/ s \in PlainLoads({"sync"}) \/ s \in LoadsIn("cga")
    BY DEF LoadsOf, Syncs
  <2> QED BY <1>1, <1>2, <2>1
<1> QED BY <1>3, PutStepFacts DEF Wipes

(* The next step of a plan is a put, or its load once the puts are made.   *)
LEMMA NextOfPlan ==
  ASSUME NEW v \in Verbs \ {"none", "purge"}, NEW d, NEW prog, NEW body, NEW rest, NEW e,
         Plan(d, prog, v, body, rest, e), prog # <<>>
  PROVE  /\ body # <<>> => /\ Head(prog) = Head(body) /\ Head(prog).do = "put"
                           /\ Tail(prog) = Tail(body) \o rest
         /\ body = <<>> => /\ d = e /\ prog = rest /\ rest = <<Head(prog)>>
                           /\ Head(prog) \in LoadsOf(v) /\ Head(prog).do = "load"
                           /\ Tail(prog) = <<>>
<1>1. body \in Seq(PutSteps) /\ prog = body \o rest
  BY DEF Plan, Runs, Straight
<1>2. rest = <<>> \/ \E s \in LoadsOf(v) : rest = <<s>>
  BY DEF Plan, Rests
<1>3. ASSUME body # <<>>
      PROVE  Head(prog) = Head(body) /\ Head(body) \in PutSteps /\ Tail(prog) = Tail(body) \o rest
  <2> DEFINE S == PutSteps \cup LoadsOf(v)
  <2>1. body \in Seq(S) /\ rest \in Seq(S) /\ prog \in Seq(S)
    <3>1. body \in Seq(S)
      BY <1>1, SeqMonotonic
    <3>2. rest \in Seq(S)
      <4>1. CASE rest = <<>>
        BY <4>1, EmptySeq
      <4>2. CASE \E s \in LoadsOf(v) : rest = <<s>>
        <5>1. PICK s \in LoadsOf(v) : rest = <<s>>
          BY <4>2
        <5>2. s \in S
          OBVIOUS
        <5> HIDE DEF S
        <5> QED BY <5>1, <5>2
      <4> QED BY <1>2, <4>1, <4>2
    <3> QED BY <1>1, <3>1, <3>2, ConcatProperties
  <2> HIDE DEF S
  <2>2. /\ Head(body) = body[1] /\ Head(prog) = prog[1]
        /\ Len(body) \in Nat \ {0} /\ Len(rest) \in Nat
        /\ Len(prog) = Len(body) + Len(rest)
        /\ \A i \in 1..(Len(body) + Len(rest)) :
             prog[i] = IF i <= Len(body) THEN body[i] ELSE rest[i - Len(body)]
    BY <1>1, <1>3, <2>1, ConcatProperties, EmptySeq
  <2>3. Head(prog) = Head(body)
    BY <2>2
  <2>4. /\ Tail(body) \in Seq(S) /\ Len(Tail(body)) = Len(body) - 1
        /\ \A i \in 1..(Len(body) - 1) : Tail(body)[i] = body[i+1]
        /\ Tail(prog) \in Seq(S) /\ Len(Tail(prog)) = Len(prog) - 1
        /\ \A i \in 1..(Len(prog) - 1) : Tail(prog)[i] = prog[i+1]
    BY <1>3, <2>1, HeadTailProperties
  <2>5. /\ Tail(body) \o rest \in Seq(S)
        /\ Len(Tail(body) \o rest) = Len(body) - 1 + Len(rest)
        /\ \A i \in 1..(Len(body) - 1 + Len(rest)) :
             (Tail(body) \o rest)[i] =
               IF i <= Len(body) - 1 THEN Tail(body)[i] ELSE rest[i - (Len(body) - 1)]
    BY <2>1, <2>4, ConcatProperties
  <2>6. ASSUME NEW i \in 1..Len(Tail(prog)) PROVE Tail(prog)[i] = (Tail(body) \o rest)[i]
    <3>1. /\ i \in 1..(Len(body) - 1 + Len(rest)) /\ i + 1 \in 1..(Len(body) + Len(rest))
          /\ Tail(prog)[i] = prog[i+1]
      BY <2>2, <2>4
    <3>2. CASE i <= Len(body) - 1
      <4>1. i \in 1..(Len(body) - 1) /\ i + 1 <= Len(body)
        BY <2>2, <3>1, <3>2
      <4> QED BY <2>2, <2>4, <2>5, <3>1, <3>2, <4>1
    <3>3. CASE ~(i <= Len(body) - 1)
      <4>1. ~(i + 1 <= Len(body)) /\ i + 1 - Len(body) = i - (Len(body) - 1)
        BY <2>2, <3>1, <3>3
      <4> QED BY <2>2, <2>5, <3>1, <3>3, <4>1
    <3> QED BY <3>2, <3>3
  <2>7. Len(Tail(prog)) = Len(Tail(body) \o rest)
    BY <2>2, <2>4, <2>5
  <2>8. Tail(prog) = Tail(body) \o rest
    BY <2>4, <2>5, <2>6, <2>7, SeqEqual
  <2> QED BY <1>1, <1>3, <2>3, <2>8, HeadTailProperties
<1>4. ASSUME body = <<>>
      PROVE  /\ d = e /\ prog = rest
             /\ \E s \in LoadsOf(v) : rest = <<s>>
  <2>1. d = e
    BY <1>4, RunsToItself DEF Plan
  <2>2. <<>> \o rest = rest
    <3>1. CASE rest = <<>>
      <4>1. <<>> \in Seq({})
        BY EmptySeq
      <4> QED BY <3>1, <4>1, ConcatEmptySeq
    <3>2. CASE \E s \in LoadsOf(v) : rest = <<s>>
      <4>1. PICK s : rest = <<s>>
        BY <3>2
      <4>2. rest \in Seq({s})
        BY <4>1
      <4> QED BY <4>2, ConcatEmptySeq
    <3> QED BY <1>2, <3>1, <3>2
  <2> QED BY <1>1, <1>2, <1>4, <2>1, <2>2
<1>5. \A s : Head(<<s>>) = s /\ Tail(<<s>>) = <<>>
  OBVIOUS
<1> QED BY <1>3, <1>4, <1>5, StepKinds

(* What a load leaves to do are steps of the same command.                 *)
LEMMA PurgeDrops ==
  ASSUME NEW c \in Sections, c[1] # "state", Absent \in Contents(c[1], c[2])
  PROVE  Drop(c) \in Seq(PurgeSteps)
<1>1. [do |-> "put", at |-> c, val |-> Absent] \in PurgeSteps
  BY PutIsStraight DEF PurgeSteps
<1> HIDE DEF PurgeSteps
<1> QED BY <1>1 DEF Drop, Put

(* Purge removes sections, and then the directory.                          *)
LEMMA PurgePlanned ==
  ASSUME NEW d, NEW r \in Repos
  PROVE  PurgePlan(d, r) \in Seq(PurgeSteps)
<1> DEFINE P == Seq(PurgeSteps)
<1>1. \A s \in P, t \in P : s \o t \in P
  BY ConcatProperties
<1>2. /\ Drop(Agents) \in P /\ Drop(UserMcp) \in P
  BY PurgeDrops, OtherPlaces
<1>3. \A n \in Keys("mcp") : Drop(Server(n)) \in P
  BY PurgeDrops, OtherPlaces
<1>4. \A n \in HookNames : Drop(CopilotHook(n)) \in P
  <2>1. \A n \in HookNames : Absent \in Contents("hooks", n)
    BY OtherPlaces
  <2> QED BY <2>1, PurgeDrops, OtherPlaces
<1>5. \A n \in Keys("instructions") \ {"odd"} : Drop(Block(n)) \in P
  <2>1. \A n \in Keys("instructions") \ {"odd"} : Absent \in Contents("instructions", n)
    BY BlockPlaces DEF Keys
  <2> QED BY <2>1, PurgeDrops, BlockPlaces
<1>6. \A n \in GitHookNames : Drop(GitHook(r, n)) \in P
  <2>1. \A n \in GitHookNames : /\ GitHook(r, n) \in Sections /\ GitHook(r, n)[1] = r
                                /\ GitHook(r, n)[2] = n
    BY RepoPlaces
  <2>2. r # "state" /\ \A n \in GitHookNames : Absent \in Contents(r, n)
    BY RepoPlaces DEF GitHookNames
  <2> QED BY <2>1, <2>2, PurgeDrops
<1>7. Drop(Workspace(r)) \in P
  BY EngramPlaces, PurgeDrops
<1>13. WriteGate(r, Absent) \in P
  <2>1. \A n \in GateNames : Drop(Gate(r, n)) \in P
    BY RepoPlaces, PurgeDrops
  <2>2. Drop(Gate(r, "pre-commit gate")) \in P /\ Drop(Gate(r, "pre-push gate")) \in P
    BY <2>1 DEF GateNames
  <2> QED BY <1>1, <2>2 DEF WriteGate, Drop
<1>8. Wipe \in P
  <2>1. [do |-> "wipe"] \in PurgeSteps
    BY DEF PurgeSteps, Wipes
  <2> HIDE DEF PurgeSteps
  <2> QED BY <2>1 DEF Wipe
<1>9. When(St(d, "agents") # Absent, Drop(Agents)) \in P
  BY <1>2, EmptySeq DEF When
<1>10. /\ Drop(Block("persona")) \in P /\ Drop(Block("sdd")) \in P /\ Drop(Block("memory")) \in P
       /\ Drop(Block("trigger")) \in P /\ Drop(Block("headroom")) \in P
       /\ Drop(Block("efficiency")) \in P
       /\ Drop(Server("engram")) \in P /\ Drop(Server("headroom")) \in P
  BY <1>3, <1>5 DEF Keys
<1>11. /\ Drop(CopilotHook("guardrails")) \in P /\ Drop(CopilotHook("sessioncheck")) \in P
       /\ Drop(CopilotHook("sessionprobe")) \in P
  <2>1. HookFiles[1] = "guardrails" /\ HookFiles[2] = "sessioncheck" /\ HookFiles[3] = "sessionprobe"
    BY DEF HookFiles
  <2>2. {HookFiles[1], HookFiles[2], HookFiles[3]} \subseteq HookNames
    BY DEF HookNames
  <2> QED BY <1>4, <2>1, <2>2
<1>12. /\ Drop(GitHook(r, "pre-commit")) \in P /\ Drop(GitHook(r, "post-commit")) \in P
       /\ Drop(GitHook(r, "post-merge")) \in P /\ Drop(GitHook(r, "pre-push")) \in P
  BY <1>6 DEF GitHookNames
<1> HIDE DEF P
<1> QED BY <1>1, <1>2, <1>7, <1>8, <1>9, <1>10, <1>11, <1>12, <1>13 DEF PurgePlan, P

(* The only program a load has after it, and what that load is.            *)
LEMMA LoadsAre ==
  ASSUME NEW v \in Verbs \ {"none", "purge"}, NEW s \in LoadsOf(v)
  PROVE  \/ v \in Syncs /\ s.plan = "sync" /\ <<s>> = Load("sync")
         \/ v = "apply" /\ s.plan = "odd" /\ <<s>> = Load("odd")
         \/ v = "apply" /\ s.plan = "seed" /\ <<s>> = Load("seed")
         \/ s.plan = "cga" /\ s.at \in Repos /\ <<s>> = LoadIn("cga", s.at)
<1>1. CASE s \in LoadsIn("cga")
  BY <1>1 DEF LoadsIn, LoadIn
<1>2. CASE s \in PlainLoads({"sync"}) /\ v \in Syncs
  BY <1>2 DEF PlainLoads, Load
<1>3. CASE s \in PlainLoads({"odd", "seed"}) /\ v = "apply"
  <2>1. s.plan \in {"odd", "seed"} /\ s = [do |-> "load", plan |-> s.plan, at |-> Absent]
    BY <1>3 DEF PlainLoads
  <2> QED BY <1>3, <2>1 DEF Load
<1> QED BY <1>1, <1>2, <1>3 DEF LoadsOf, Verbs, Syncs

(* A load leaves a plan, which leads where the load was to lead.            *)
LEMMA LoadedPlan ==
  ASSUME NEW d, IsDisk(d), NEW v \in Verbs \ {"none", "purge"}, NEW s \in LoadsOf(v), NEW b
  PROVE  \E body, rest, e :
            /\ Plan(d, Loaded(s, d), v, body, rest, e)
            /\ Agreeing(d, <<s>>) => Agreeing(e, rest)
            /\ v \in Syncs /\ Syncing(b, v, d, <<s>>) => Syncing(b, v, e, rest)
<1>1. CASE v \in Syncs /\ s.plan = "sync" /\ <<s>> = Load("sync")
  <2>1. Loaded(s, d) = SyncPlan(d)
    BY <1>1 DEF Loaded
  <2>2. Agreeing(d, <<s>>) => AllAgree(d)
    BY <1>1, LoadsDiffer DEF Agreeing, AllAgree, Load
  <2> QED BY <1>1, <2>1, <2>2, SyncLoaded
<1>2. CASE v = "apply" /\ s.plan = "odd" /\ <<s>> = Load("odd")
  <2>1. Loaded(s, d) = ApplyODD(St(d, "trigger"), St(d, "modular")) \o Record("workflow", "odd")
    BY <1>2 DEF Loaded
  <2>2. St(d, "trigger") \in BOOLEAN /\ St(d, "modular") \in BOOLEAN
    BY SettingTypes DEF Switches
  <2> QED BY <1>2, <2>1, <2>2, ODDLoaded DEF Syncs
<1>3. CASE v = "apply" /\ s.plan = "seed" /\ <<s>> = Load("seed")
  <2>1. Loaded(s, d) = When(~St(d, "odd"), ApplyODD(St(d, "trigger"), St(d, "modular")))
    BY <1>3 DEF Loaded
  <2>2. Agreeing(d, <<s>>) => AllAgree(d)
    BY <1>3, LoadsDiffer DEF Agreeing, AllAgree
  <2> QED BY <1>3, <2>1, <2>2, SeedLoaded DEF Syncs
<1>4. CASE s.plan = "cga" /\ s.at \in Repos /\ <<s>> = LoadIn("cga", s.at)
  <2>1. Loaded(s, d) = WriteCGA(s.at, St(d, "persona"))
    BY <1>4 DEF Loaded
  <2>2. Agreeing(d, <<s>>) => AllAgree(d)
    BY <1>4, LoadsDiffer DEF Agreeing, AllAgree
  <2>3. St(d, "persona") \in Personas \cup {"none"}
    BY SettingTypes
  <2> QED BY <1>4, <2>1, <2>2, <2>3, CGALoaded
<1> QED BY <1>1, <1>2, <1>3, <1>4, LoadsAre

(* A load that fails leaves a plan too: the code goes on with what it has.  *)
LEMMA UnloadedPlan ==
  ASSUME NEW d, IsDisk(d), NEW v \in Verbs \ {"none", "purge"}, NEW s \in LoadsOf(v)
  PROVE  \E body, rest, e : Plan(d, Unloaded(s), v, body, rest, e)
<1>1. CASE s.plan = "sync" \/ s.plan = "seed"
  <2>1. Unloaded(s) = <<>>
    BY <1>1 DEF Unloaded
  <2> QED BY <2>1, RunsNothing, NothingAfter
<1>2. CASE v = "apply" /\ s.plan = "odd"
  <2>1. Unloaded(s) = ApplyODD(FALSE, FALSE) \o Record("workflow", "odd")
    BY <1>2 DEF Unloaded
  <2> QED BY <1>2, <2>1, ODDLoaded
<1>3. CASE s.plan = "cga" /\ s.at \in Repos
  <2>1. Unloaded(s) = WriteCGA(s.at, "none")
    BY <1>3 DEF Unloaded
  <2> QED BY <1>3, <2>1, CGALoaded
<1> QED BY <1>1, <1>2, <1>3, LoadsAre

(* So a command has steps of its own left, whatever the load has read.     *)
LEMMA LoadsTyped ==
  ASSUME NEW d, IsDisk(d), NEW v \in Verbs, NEW s \in StepsOf(v), s.do = "load"
  PROVE  Loaded(s, d) \in Seq(StepsOf(v)) /\ Unloaded(s) \in Seq(StepsOf(v))
<1>1. CASE v = "none"
  BY <1>1 DEF StepsOf
<1>2. CASE v = "purge"
  <2>1. StepsOf(v) = PurgeSteps
    BY <1>2 DEF StepsOf
  <2>2. s \in LoadsIn("purge")
    BY <2>1, StepKinds DEF PurgeSteps
  <2>3. s.plan = "purge" /\ s.at \in Repos
    BY <2>2 DEF LoadsIn
  <2>4. Loaded(s, d) = PurgePlan(d, s.at) /\ Unloaded(s) = PurgePlan(EmptyDisk, s.at)
    BY <2>3 DEF Loaded, Unloaded
  <2> QED BY <2>1, <2>3, <2>4, PurgePlanned
<1>3. CASE v \notin {"none", "purge"}
  <2>1. StepsOf(v) = PutSteps \cup LoadsOf(v)
    BY <1>3 DEF StepsOf
  <2>2. s \in LoadsOf(v)
    BY <2>1, StepKinds
  <2>3. Loaded(s, d) \in Seq(StepsOf(v))
    BY <1>3, <2>2, LoadedPlan, StepsOfPlan
  <2>4. Unloaded(s) \in Seq(StepsOf(v))
    BY <1>3, <2>2, UnloadedPlan, StepsOfPlan
  <2> QED BY <2>3, <2>4
<1> QED BY <1>1, <1>2, <1>3
------------------------------------------------------------------------------
(* Every step keeps the invariant.                                         *)
LEMMA EmptyStateTyped ==
  /\ \A n \in FieldNames : EmptyState[n] \in FieldValues(n)
  /\ \A n \in FieldNames : ClaimsOf(n, EmptyState[n]) = {}
<1>1. ASSUME NEW n \in FieldNames
      PROVE  EmptyState[n] \in FieldValues(n) /\ ClaimsOf(n, EmptyState[n]) = {}
  <2>1. CASE n \in Switches
    <3>1. EmptyState[n] = FALSE
      BY <2>1 DEF EmptyState, Switches
    <3>2. FieldValues(n) = BOOLEAN
      BY <2>1 DEF FieldValues, Switches
    <3>3. ClaimsOf(n, FALSE) = {}
      BY <2>1 DEF ClaimsOf, Where, Switches
    <3> QED BY <3>1, <3>2, <3>3
  <2>2. CASE n = "engram"
    BY <2>2 DEF EmptyState, FieldValues, ClaimsOf, EditorOf, Where, Switches, Scopes
  <2>3. CASE n = "hooks"
    BY <2>3 DEF EmptyState, FieldValues, ClaimsOf, Where, Switches, Postures
  <2>4. CASE n \in {"team", "cga", "agents"}
    BY <2>4 DEF EmptyState, FieldValues, ClaimsOf, Where, Switches
  <2>5. CASE n \in {"persona", "workflow", "models", "efforts"}
    BY <2>5 DEF EmptyState, FieldValues, ClaimsOf, Where, Switches, Assignments
  <2> QED BY <2>1, <2>2, <2>3, <2>4, <2>5 DEF FieldNames
<1> QED BY <1>1

LEMMA IdleHasNoSteps ==
  ASSUME Typed, NEW p \in Procs, Idle(p)
  PROVE  todo[p] = <<>> /\ buf[p] = <<>>
<1>1. todo[p] \in Seq({})
  BY DEF Typed, Idle, StepsOf
<1>2. ASSUME todo[p] # <<>> PROVE FALSE
  <2>1. Len(todo[p]) \in Nat \ {0}
    BY <1>1, <1>2, EmptySeq
  <2>2. 1 \in 1..Len(todo[p])
    BY <2>1
  <2> QED BY <1>1, <2>2, ElementOfSeq
<1> QED BY <1>2 DEF Typed, Reading, Puts

(* While somebody runs, no sync has rested, and nobody else is alone.       *)
LEMMA RestedAlone ==
  ASSUME IInv, NEW p \in Procs, ~Idle(p)
  PROVE  synced = "none" /\ ~AllIdle /\ \A q \in Procs \ {p} : ~alone[q]
BY DEF IInv, Rested, AllIdle, Solo, OthersIdle

(* A command begins: it is alone if all others are idle.                    *)
LEMMA BeginKeeps ==
  ASSUME IInv, NEW p \in Procs, NEW v \in Verbs \ {"none"}, NEW prog, Begin(p, v, prog),
         v = "purge" => prog \in Seq(PurgeSteps),
         v # "purge" => Starts(disk, prog, v, disk["state"])
  PROVE  IInv'
<1> USE DEF IInv
<1>1. /\ Idle(p) /\ cmd' = [cmd EXCEPT ![p] = v] /\ todo' = [todo EXCEPT ![p] = prog]
      /\ blind' = [blind EXCEPT ![p] = FALSE] /\ UNCHANGED <<disk, routed, buf>>
      /\ alone' = [q \in Procs |-> IF q = p THEN OthersIdle(p) ELSE FALSE]
      /\ before' = IF v \in Syncs THEN disk["state"] ELSE EmptyState
      /\ synced' = "none" /\ calm' = (calm /\ OthersIdle(p))
      /\ moves' = moves + 1 /\ moves <= MaxMoves
  BY ConstantsAssumption DEF Begin, Typed
<1>2. prog \in Seq(StepsOf(v))
  <2>1. CASE v = "purge"
    BY <2>1 DEF StepsOf
  <2>2. CASE v # "purge"
    BY <2>2, StepsOfPlan DEF Starts
  <2> QED BY <2>1, <2>2
<1>3. /\ cmd'[p] = v /\ todo'[p] = prog /\ ~blind'[p] /\ buf'[p] = <<>>
      /\ \A q \in Procs \ {p} : cmd'[q] = cmd[q] /\ todo'[q] = todo[q] /\ buf'[q] = buf[q]
  <2>1. buf[p] = <<>>
    BY <1>1, IdleHasNoSteps
  <2> QED BY <1>1, <2>1 DEF Typed
<1>4. Typed'
  <2>1. IsDisk(disk)' /\ (routed \in [Procs -> Routings])'
    BY <1>1 DEF Typed
  <2>2. /\ (cmd \in [Procs -> Verbs])' /\ (DOMAIN todo = Procs)'
        /\ \A q \in Procs : todo'[q] \in Seq(StepsOf(cmd'[q]))
    BY <1>1, <1>2, <1>3 DEF Typed
  <2>3. (DOMAIN buf = Procs)' /\ \A q \in Procs : Reading(q)'
    BY <1>1, <1>3 DEF Typed, Reading, Puts, Head1
  <2>4. (blind \in [Procs -> BOOLEAN])'
    BY <1>1 DEF Typed
  <2>5. (alone \in [Procs -> BOOLEAN])'
    BY <1>1 DEF OthersIdle
  <2>6. \A n \in FieldNames : before'[n] \in FieldValues(n)
    <3>1. \A n \in FieldNames : disk["state"][n] \in FieldValues(n)
      BY FieldPlaces, DiskAt DEF Typed, St
    <3> QED BY <1>1, <3>1, EmptyStateTyped
  <2>7. (calm \in BOOLEAN)' /\ (synced \in Syncs \cup {"none"})'
    BY <1>1 DEF Typed, OthersIdle
  <2>8. (moves \in 0..(MaxMoves + 1))'
    BY <1>1, ConstantsAssumption DEF Typed
  <2> QED BY <2>1, <2>2, <2>3, <2>4, <2>5, <2>6, <2>7, <2>8 DEF Typed
<1>5. ASSUME NEW q \in Procs PROVE Solo(q)'
  <2>1. ASSUME alone'[q] PROVE q = p /\ OthersIdle(p)' /\ ~Idle(p)'
    BY <1>1, <1>3, <2>1 DEF OthersIdle, Idle
  <2>2. ASSUME calm', ~Idle(q)' PROVE alone'[q]
    BY <1>1, <1>3, <2>2 DEF OthersIdle, Idle
  <2> QED BY <1>3, <2>1, <2>2 DEF Solo
<1>6. ASSUME NEW q \in Procs PROVE Underway(q)'
  <2> SUFFICES ASSUME alone'[q], cmd'[q] # "purge"
               PROVE  \E body, rest, e :
                        /\ Plan(disk', todo'[q], cmd'[q], body, rest, e)
                        /\ calm' /\ ~blind'[q] => Agreeing(e, rest)
                        /\ cmd'[q] \in Syncs /\ ~blind'[q] => Syncing(before', cmd'[q], e, rest)
    BY DEF Underway
  <2>1. q = p /\ OthersIdle(p) /\ v # "purge"
    BY <1>1, <1>3
  <2>2. PICK body, rest, e : /\ Plan(disk, prog, v, body, rest, e)
                             /\ AllAgree(disk) => Agreeing(e, rest)
                             /\ v \in Syncs => Syncing(disk["state"], v, e, rest)
    BY <2>1 DEF Starts
  <2>3. calm' => AllAgree(disk)
    BY <1>1, <2>1 DEF Rested, AllIdle, OthersIdle
  <2> QED BY <1>1, <1>3, <2>1, <2>2, <2>3
<1>7. Rested'
  BY <1>1, <1>3 DEF Rested, AllIdle, Idle
<1> QED BY <1>4, <1>5, <1>6, <1>7

(* Every screen and command that starts.                                    *)
LEMMA StartKeeps ==
  ASSUME IInv, NEW p \in Procs, Start(p), ~Launch(p)
  PROVE  IInv'
<1>1. IsDisk(disk) /\ routed[p] \in Routings
  BY DEF IInv, Typed
<1>2. {"apply", "purge", "sync", "repair"} = Verbs \ {"none"} /\ {"sync", "repair"} = Syncs
  BY DEF Verbs, Syncs
<1>3. CASE PersonaScreen(p)
  BY <1>1, <1>2, <1>3, BeginKeeps, ScreenStarts DEF PersonaScreen
<1>4. CASE SDDScreen(p)
  BY <1>1, <1>2, <1>4, BeginKeeps, ScreenStarts DEF SDDScreen
<1>5. CASE WorkflowScreen(p)
  BY <1>1, <1>2, <1>5, BeginKeeps, WorkflowStarts DEF WorkflowScreen
<1>6. CASE EngramScreen(p)
  BY <1>1, <1>2, <1>6, BeginKeeps, ScreenStarts DEF EngramScreen
<1>7. CASE HeadroomScreen(p)
  BY <1>1, <1>2, <1>7, BeginKeeps, ScreenStarts DEF HeadroomScreen
<1>8. CASE TeamSyncScreen(p)
  BY <1>1, <1>2, <1>8, BeginKeeps, ScreenStarts DEF TeamSyncScreen
<1>9. CASE CopilotHooksScreen(p)
  BY <1>1, <1>2, <1>9, BeginKeeps, ScreenStarts DEF CopilotHooksScreen
<1>10. CASE CGAScreen(p)
  BY <1>1, <1>2, <1>10, BeginKeeps, ScreenStarts DEF CGAScreen
<1>11. CASE Install(p)
  BY <1>1, <1>2, <1>11, BeginKeeps, ScreenStarts DEF Install
<1>15. CASE ReviewGate(p)
  BY <1>1, <1>2, <1>15, BeginKeeps, GateStarts DEF ReviewGate
<1>12. CASE Sync(p)
  BY <1>1, <1>2, <1>12, BeginKeeps, RunSyncStarts DEF Sync
<1>13. CASE Repair(p)
  <2>1. WithRouting(St(disk, "models")) \in Routings
    BY DEF WithRouting, Routings
  <2> QED BY <1>1, <1>2, <1>13, <2>1, BeginKeeps, RunSyncStarts DEF Repair
<1>14. CASE Purge(p)
  <2>1. PICK r \in Repos : Begin(p, "purge", LoadIn("purge", r))
    BY <1>14 DEF Purge
  <2>2. LoadIn("purge", r) \in Seq(PurgeSteps)
    <3>1. [do |-> "load", plan |-> "purge", at |-> r] \in PurgeSteps
      BY DEF PurgeSteps, LoadsIn
    <3> HIDE DEF PurgeSteps
    <3> QED BY <3>1 DEF LoadIn
  <2> QED BY <1>2, <2>1, <2>2, BeginKeeps
<1> QED BY <1>3, <1>4, <1>5, <1>6, <1>7, <1>8, <1>9, <1>10, <1>11, <1>12, <1>13, <1>14,
           <1>15
        DEF Start, Screen

LEMMA LaunchKeeps ==
  ASSUME IInv, NEW p \in Procs, Launch(p)
  PROVE  IInv'
<1>1. UNCHANGED <<disk, cmd, todo, buf, blind, alone, before, synced, calm, moves>>
      /\ routed' = [routed EXCEPT ![p] = WithRouting(St(disk, "models"))]
  BY DEF Launch, run, history
<1>2. WithRouting(St(disk, "models")) \in Routings
  BY DEF WithRouting, Routings
<1>3. Typed'
  BY <1>1, <1>2 DEF IInv, Typed, Reading, Puts, Head1
<1>4. \A q \in Procs : Solo(q)' /\ Underway(q)'
  BY <1>1 DEF IInv, Solo, Underway, Idle, OthersIdle, Head1
<1>5. Rested'
  BY <1>1 DEF IInv, Rested, AllIdle, Idle
<1> QED BY <1>3, <1>4, <1>5 DEF IInv

(* The user edits only what is at rest, and is not calm.                    *)
LEMMA EditKeeps ==
  ASSUME IInv, Edit
  PROVE  IInv'
<1>0. PICK f \in Files \ {"state"} : \E n \in Keys(f) : disk' = [disk EXCEPT ![f][n] = Absent]
  BY DEF Edit
<1>1. PICK n \in Keys(f) : disk' = [disk EXCEPT ![f][n] = Absent]
  BY <1>0
<1>2. /\ AllIdle /\ synced' = "none" /\ calm' = FALSE /\ moves < MaxMoves /\ moves' = moves + 1
      /\ UNCHANGED <<routed, cmd, todo, buf, blind, alone, before>>
  BY DEF Edit, run
<1>3. IsDisk(disk)'
  <2>1. Absent \in Contents(f, n)
    BY <1>1 DEF Contents
  <2>2. <<f, n>> \in Sections
    BY SectionPair
  <2>3. disk' = Written(disk, <<f, n>>, Absent)
    BY <1>1 DEF IInv, Typed, IsDisk, Written
  <2> QED BY <2>1, <2>2, <2>3, WrittenFacts DEF IInv, Typed
<1>4. Typed'
  <2>1. (moves \in 0..(MaxMoves + 1))'
    BY <1>2, ConstantsAssumption DEF IInv, Typed
  <2>2. \A q \in Procs : Reading(q)'
    BY <1>2 DEF IInv, Typed, Reading, Puts, Head1
  <2>3. (calm \in BOOLEAN)' /\ (synced \in Syncs \cup {"none"})'
    BY <1>2
  <2> QED BY <1>2, <1>3, <2>1, <2>2, <2>3 DEF IInv, Typed
<1>5. ASSUME NEW q \in Procs PROVE Solo(q)' /\ Underway(q)'
  <2>1. Idle(q) /\ ~alone[q]
    BY <1>2 DEF IInv, Solo, AllIdle
  <2> QED BY <1>2, <2>1 DEF Solo, Underway, Idle
<1>6. Rested'
  BY <1>2 DEF Rested
<1> QED BY <1>4, <1>5, <1>6 DEF IInv

(* What one process does leaves the others' part of the invariant.          *)
LEMMA OthersKeep ==
  ASSUME IInv, NEW p \in Procs, ~Idle(p), calm' => calm,
         \A q \in Procs \ {p} : cmd'[q] = cmd[q] /\ alone'[q] = alone[q]
  PROVE  \A q \in Procs \ {p} : Solo(q)' /\ Underway(q)'
<1> SUFFICES ASSUME NEW q \in Procs \ {p} PROVE Solo(q)' /\ Underway(q)'
  OBVIOUS
<1>1. ~alone[q] /\ ~alone'[q]
  BY RestedAlone
<1>2. calm /\ ~Idle(q) => alone[q]
  BY DEF IInv, Solo
<1> QED BY <1>1, <1>2 DEF Solo, Underway, Idle

(* The step that a process takes next is one of its command's.             *)
LEMMA NextStep ==
  ASSUME IInv, NEW p \in Procs, todo[p] # <<>>
  PROVE  /\ ~Idle(p) /\ cmd[p] \in Verbs \ {"none"}
         /\ Head1(p) \in StepsOf(cmd[p]) /\ Tail(todo[p]) \in Seq(StepsOf(cmd[p]))
         /\ Head1(p).do # "put" => buf[p] = <<>>
         /\ Head1(p).do = "put" =>
              /\ Head1(p) \in PutSteps
              /\ cmd[p] = "purge" => Head1(p).at[1] # "state"
<1>1. ~Idle(p) /\ cmd[p] \in Verbs \ {"none"}
  BY IdleHasNoSteps DEF IInv, Typed, Idle
<1>2. Head1(p) \in StepsOf(cmd[p]) /\ Tail(todo[p]) \in Seq(StepsOf(cmd[p]))
  BY HeadTailProperties DEF IInv, Typed, Head1
<1>3. Head1(p).do # "put" => buf[p] = <<>>
  BY DEF IInv, Typed, Reading, Puts
<1>4. ASSUME Head1(p).do = "put"
      PROVE  Head1(p) \in PutSteps /\ (cmd[p] = "purge" => Head1(p).at[1] # "state")
  <2>1. CASE cmd[p] = "purge"
    <3>1. Head1(p) \in PurgeSteps
      BY <1>2, <2>1 DEF StepsOf
    <3>2. Head1(p) \notin LoadsIn("purge") /\ Head1(p) \notin Wipes
      BY <1>4 DEF LoadsIn, Wipes
    <3> QED BY <3>1, <3>2 DEF PurgeSteps
  <2>2. CASE cmd[p] # "purge"
    BY <1>1, <1>2, <1>4, <2>2, StepKinds DEF StepsOf
  <2> QED BY <2>1, <2>2
<1> QED BY <1>1, <1>2, <1>3, <1>4

(* A section is one of those that are read and written with it.             *)
LEMMA TogetherFacts ==
  ASSUME NEW c \in Sections
  PROVE  c[2] \in Together(c) /\ Together(c) \subseteq Keys(c[1])
<1>1. c[1] \in Files /\ c[2] \in Keys(c[1])
  BY SectionParts
<1>2. ASSUME c[1] \in Repos PROVE GitHookNames \cup GateNames \subseteq Keys(c[1])
  BY <1>2, NamesAssumption DEF Keys
<1> QED BY <1>1, <1>2 DEF Together, SharedHooks, GitHookNames, GateNames

LEMMA ReadKeeps ==
  ASSUME IInv, NEW p \in Procs, Read(p)
  PROVE  IInv'
<1> DEFINE c == Head1(p).at
           w == [n \in Together(c) |-> disk[c[1]][n]]
<1>1. /\ todo[p] # <<>> /\ Head1(p).do = "put"
      /\ buf' = [buf EXCEPT ![p] = w]
      /\ UNCHANGED <<disk, routed, cmd, todo, blind, alone, before, synced, calm, moves>>
  BY DEF Read, Puts, history
<1>2. /\ buf'[p] = w /\ DOMAIN buf' = Procs
      /\ \A q \in Procs \ {p} : buf'[q] = buf[q]
  BY <1>1 DEF IInv, Typed
<1>3. ~Idle(p) /\ c \in Sections
  BY <1>1, NextStep, PutStepFacts
<1>4. Typed'
  <2>1. Copied(c, w)
    BY <1>3, TogetherFacts, SectionParts DEF IInv, Typed, IsDisk, Copied
  <2> HIDE DEF w
  <2>2. \A q \in Procs : Reading(q)'
    BY <1>1, <1>2, <2>1 DEF IInv, Typed, Reading, Puts, Head1
  <2> QED BY <1>1, <1>2, <2>2 DEF IInv, Typed
<1>5. \A q \in Procs \ {p} : Solo(q)' /\ Underway(q)'
  BY <1>1, <1>3, OthersKeep
<1>6. Solo(p)' /\ Underway(p)'
  BY <1>1, <1>2 DEF IInv, Solo, Underway, Idle, OthersIdle, Head1
<1>7. Rested'
  BY <1>1, <1>3, RestedAlone DEF Rested, AllIdle, Idle
<1> QED BY <1>4, <1>5, <1>6, <1>7 DEF IInv

(* What a write makes of a file: one section is new, those that were read   *)
(* with it are as they were read.                                           *)
RowOf(d, c, v, was) ==
  [n \in Keys(c[1]) |-> IF n = c[2] THEN v ELSE IF n \in Together(c) THEN was[n] ELSE d[c[1]][n]]

(* A file that is written back from an old copy leaves a disk.              *)
LEMMA StaleWrite ==
  ASSUME NEW d, IsDisk(d), NEW c \in Sections, NEW was, NEW v \in Contents(c[1], c[2]),
         \A n \in Together(c) : was[n] \in Contents(c[1], n)
  PROVE  IsDisk([d EXCEPT ![c[1]] = RowOf(d, c, v, was)])
<1> DEFINE w == RowOf(d, c, v, was)
           u == [d EXCEPT ![c[1]] = w]
<1>1. c[1] \in Files /\ c[2] \in Keys(c[1])
  BY SectionParts
<1>2. DOMAIN u = Files /\ u[c[1]] = w /\ \A f \in Files \ {c[1]} : u[f] = d[f]
  BY <1>1 DEF IsDisk
<1>3. u = [f \in Files |-> u[f]]
  BY <1>1 DEF IsDisk
<1>4. w = [n \in Keys(c[1]) |-> w[n]] /\ \A n \in Keys(c[1]) : w[n] \in Contents(c[1], n)
  BY <1>1 DEF RowOf, IsDisk
<1> HIDE DEF u, w
<1>5. \A f \in Files : u[f] = [n \in Keys(f) |-> u[f][n]]
  <2> SUFFICES ASSUME NEW f \in Files PROVE u[f] = [n \in Keys(f) |-> u[f][n]]
    OBVIOUS
  <2>1. CASE f = c[1]
    BY <1>2, <1>4, <2>1
  <2>2. CASE f # c[1]
    BY <1>2, <2>2 DEF IsDisk
  <2> QED BY <2>1, <2>2
<1>6. \A f \in Files : \A n \in Keys(f) : u[f][n] \in Contents(f, n)
  BY <1>2, <1>4 DEF IsDisk
<1> QED BY <1>3, <1>5, <1>6 DEF IsDisk, u, w

(* What a write makes of the disk, if it does not leave it alone.           *)
LEMMA WriteFacts ==
  ASSUME IInv, NEW p \in Procs, Write(p)
  PROVE  LET c == Head1(p).at
             v == Head1(p).val
         IN  \E was : /\ was = IF Shared(c) THEN buf[p] ELSE disk[c[1]]
                      /\ \A n \in Together(c) : was[n] \in Contents(c[1], n)
                      /\ \/ disk' = disk /\ was[c[2]] = v
                         \/ disk' = [disk EXCEPT ![c[1]] = RowOf(disk, c, v, was)]
                      /\ Shared(c) => buf[p] # <<>>
<1> DEFINE c == Head1(p).at
           v == Head1(p).val
           was == IF Shared(c) THEN buf[p] ELSE disk[c[1]]
<1>1. /\ Puts(p) /\ (Shared(c) => buf[p] # <<>>)
      /\ disk' = IF LeftAlone(c, v, was[c[2]]) THEN disk
                 ELSE [disk EXCEPT ![c[1]] = RowOf(disk, c, v, was)]
  BY DEF Write, RowOf
<1>2. c \in Sections
  BY <1>1, NextStep, PutStepFacts DEF Puts
<1>3. \A n \in Together(c) : was[n] \in Contents(c[1], n)
  <2>1. CASE Shared(c)
    BY <1>1, <2>1 DEF IInv, Typed, Reading, Copied
  <2>2. CASE ~Shared(c)
    BY <1>2, <2>2, TogetherFacts, SectionParts DEF IInv, Typed, IsDisk
  <2> QED BY <2>1, <2>2
<1>4. LeftAlone(c, v, was[c[2]]) => was[c[2]] = v
  BY DEF LeftAlone
<1> QED BY <1>1, <1>3, <1>4

(* A process that has run alone changes one section, as its step says.     *)
LEMMA WriteAlone ==
  ASSUME IInv, NEW p \in Procs, Write(p), alone[p]
  PROVE  disk' = Written(disk, Head1(p).at, Head1(p).val)
<1> DEFINE c == Head1(p).at
           v == Head1(p).val
<1>1. PICK was : /\ was = IF Shared(c) THEN buf[p] ELSE disk[c[1]]
                 /\ \/ disk' = disk /\ was[c[2]] = v
                    \/ disk' = [disk EXCEPT ![c[1]] = RowOf(disk, c, v, was)]
                 /\ Shared(c) => buf[p] # <<>>
  BY WriteFacts
<1>2. c \in Sections /\ v \in Contents(c[1], c[2]) /\ IsDisk(disk)
  BY NextStep, PutStepFacts DEF Write, Puts, IInv, Typed
<1>3. c[1] \in Files /\ c[2] \in Keys(c[1]) /\ c[2] \in Together(c) /\ Together(c) \subseteq Keys(c[1])
  BY <1>2, SectionParts, TogetherFacts
<1>4. \A n \in Together(c) : was[n] = disk[c[1]][n]
  <2>1. CASE Shared(c)
    <3>1. was = [n \in Together(c) |-> disk[c[1]][n]]
      BY <1>1, <2>1 DEF IInv, Solo
    <3> QED BY <3>1
  <2>2. CASE ~Shared(c)
    BY <1>1, <2>2
  <2> QED BY <2>1, <2>2
<1> SUFFICES disk' = Written(disk, c, v)
  OBVIOUS
<1> HIDE DEF c, v
<1>5. disk[c[1]] = [n \in Keys(c[1]) |-> disk[c[1]][n]] /\ disk = [f \in Files |-> disk[f]]
  BY <1>2, <1>3 DEF IsDisk
<1>6. CASE disk' = disk /\ was[c[2]] = v
  <2>1. [disk[c[1]] EXCEPT ![c[2]] = v] = disk[c[1]]
    BY <1>3, <1>4, <1>5, <1>6
  <2> QED BY <1>3, <1>5, <1>6, <2>1 DEF Written
<1>7. CASE disk' = [disk EXCEPT ![c[1]] = RowOf(disk, c, v, was)]
  <2>1. RowOf(disk, c, v, was) = [n \in Keys(c[1]) |-> IF n = c[2] THEN v ELSE disk[c[1]][n]]
    BY <1>4 DEF RowOf
  <2>2. [disk[c[1]] EXCEPT ![c[2]] = v] = [n \in Keys(c[1]) |-> IF n = c[2] THEN v ELSE disk[c[1]][n]]
    BY <1>3, <1>5
  <2> QED BY <1>7, <2>1, <2>2 DEF Written
<1> QED BY <1>1, <1>6, <1>7

(* A write: of one that is alone, it is the next put of its plan.           *)
LEMMA WriteKeeps ==
  ASSUME IInv, NEW p \in Procs, Write(p)
  PROVE  IInv'
<1> DEFINE s == Head1(p)
<1>1. /\ todo[p] # <<>> /\ s.do = "put"
      /\ buf' = [buf EXCEPT ![p] = <<>>] /\ todo' = [todo EXCEPT ![p] = Tail(todo[p])]
      /\ UNCHANGED <<routed, cmd, blind, alone, before, synced, calm, moves>>
  BY DEF Write, Puts, history
<1>2. /\ ~Idle(p) /\ cmd[p] \in Verbs \ {"none"} /\ s \in PutSteps
      /\ Tail(todo[p]) \in Seq(StepsOf(cmd[p]))
  BY <1>1, NextStep
<1>3. s.at \in Sections /\ s.val \in Contents(s.at[1], s.at[2])
  BY <1>2, PutStepFacts
<1>5. IsDisk(disk)'
  <2>1. PICK was : /\ \A n \in Together(s.at) : was[n] \in Contents(s.at[1], n)
                   /\ \/ disk' = disk
                      \/ disk' = [disk EXCEPT ![s.at[1]] = RowOf(disk, s.at, s.val, was)]
    BY WriteFacts
  <2>2. IsDisk(disk)
    BY DEF IInv, Typed
  <2> HIDE DEF s
  <2>3. IsDisk([disk EXCEPT ![s.at[1]] = RowOf(disk, s.at, s.val, was)])
    BY <1>3, <2>1, <2>2, StaleWrite
  <2> QED BY <2>1, <2>2, <2>3
<1>6. /\ buf'[p] = <<>> /\ todo'[p] = Tail(todo[p]) /\ DOMAIN buf' = Procs /\ DOMAIN todo' = Procs
      /\ \A q \in Procs \ {p} : buf'[q] = buf[q] /\ todo'[q] = todo[q]
  BY <1>1 DEF IInv, Typed
<1>7. Typed'
  <2>1. \A q \in Procs : Reading(q)'
    BY <1>1, <1>6 DEF IInv, Typed, Reading, Puts, Head1
  <2>2. \A q \in Procs : todo'[q] \in Seq(StepsOf(cmd'[q]))
    BY <1>1, <1>2, <1>6 DEF IInv, Typed
  <2> QED BY <1>1, <1>5, <1>6, <2>1, <2>2 DEF IInv, Typed
<1>8. \A q \in Procs \ {p} : Solo(q)' /\ Underway(q)'
  BY <1>1, <1>2, OthersKeep
<1>9. Solo(p)'
  BY <1>1, <1>6 DEF IInv, Solo, Idle, OthersIdle
<1>10. Underway(p)'
  <2> SUFFICES ASSUME alone[p], cmd[p] # "purge"
               PROVE  \E body, rest, e :
                        /\ Plan(disk', todo'[p], cmd[p], body, rest, e)
                        /\ calm /\ ~blind[p] => Agreeing(e, rest)
                        /\ cmd[p] \in Syncs /\ ~blind[p] => Syncing(before, cmd[p], e, rest)
    BY <1>1 DEF Underway
  <2>1. PICK body, rest, e :
          /\ Plan(disk, todo[p], cmd[p], body, rest, e)
          /\ calm /\ ~blind[p] => Agreeing(e, rest)
          /\ cmd[p] \in Syncs /\ ~blind[p] => Syncing(before, cmd[p], e, rest)
    BY DEF IInv, Underway
  <2>2. body # <<>> /\ Head(body) = s /\ Tail(todo[p]) = Tail(body) \o rest
    <3>1. /\ body # <<>> => Head(todo[p]) = Head(body) /\ Tail(todo[p]) = Tail(body) \o rest
          /\ body = <<>> => Head(todo[p]).do = "load"
      BY <1>1, <1>2, <2>1, NextOfPlan
    <3> QED BY <1>1, <3>1 DEF Head1
  <2>3. Runs(Written(disk, s.at, s.val), Tail(body), e)
    BY <2>1, <2>2, RunsFirst DEF Plan
  <2>4. Plan(disk', todo'[p], cmd[p], Tail(body), rest, e)
    BY <1>6, <2>1, <2>2, <2>3, WriteAlone DEF Plan
  <2> QED BY <2>1, <2>4
<1>11. Rested'
  BY <1>1, <1>2, RestedAlone DEF Rested, AllIdle, Idle
<1> QED BY <1>7, <1>8, <1>9, <1>10, <1>11 DEF IInv

(* The end of a purge removes the state.                                    *)
LEMMA RemoveHomeKeeps ==
  ASSUME IInv, NEW p \in Procs, RemoveHome(p)
  PROVE  IInv'
<1>1. /\ todo[p] # <<>> /\ Head1(p).do = "wipe"
      /\ disk' = [disk EXCEPT !["state"] = EmptyState]
      /\ todo' = [todo EXCEPT ![p] = Tail(todo[p])]
      /\ UNCHANGED <<routed, cmd, buf, blind, alone, before, synced, calm, moves>>
  BY DEF RemoveHome, history
<1>2. /\ ~Idle(p) /\ buf[p] = <<>> /\ cmd[p] \in Verbs \ {"none"}
      /\ Head1(p) \in StepsOf(cmd[p]) /\ Tail(todo[p]) \in Seq(StepsOf(cmd[p]))
  BY <1>1, NextStep
<1>3. IsDisk(disk)'
  <2>1. /\ "state" \in Files /\ Keys("state") = FieldNames
        /\ \A n \in FieldNames : Contents("state", n) = FieldValues(n)
    <3>1. Keys("state") = FieldNames /\ "state" \in Files
      BY DEF Keys, Files, SharedFiles
    <3> QED BY <3>1, FieldPlaces DEF Field
  <2>2. EmptyState = [n \in FieldNames |-> EmptyState[n]]
    BY DEF EmptyState
  <2>3. Whole("state", EmptyState)
    BY <2>1, <2>2, EmptyStateTyped DEF Whole
  <2>4. /\ DOMAIN disk' = Files /\ disk'["state"] = EmptyState
        /\ \A f \in Files \ {"state"} : disk'[f] = disk[f]
        /\ disk' = [f \in Files |-> disk'[f]]
    BY <1>1, <2>1 DEF IInv, Typed, IsDisk
  <2>5. \A f \in Files : disk'[f] = [n \in Keys(f) |-> disk'[f][n]]
    <3> SUFFICES ASSUME NEW f \in Files PROVE disk'[f] = [n \in Keys(f) |-> disk'[f][n]]
      OBVIOUS
    <3>1. CASE f = "state"
      BY <2>3, <2>4, <3>1 DEF Whole
    <3>2. CASE f # "state"
      BY <2>4, <3>2 DEF IInv, Typed, IsDisk
    <3> QED BY <3>1, <3>2
  <2>6. \A f \in Files : \A n \in Keys(f) : disk'[f][n] \in Contents(f, n)
    BY <2>3, <2>4 DEF IInv, Typed, IsDisk, Whole
  <2> QED BY <2>4, <2>5, <2>6 DEF IsDisk
<1>4. /\ todo'[p] = Tail(todo[p]) /\ DOMAIN todo' = Procs
      /\ \A q \in Procs \ {p} : todo'[q] = todo[q]
  BY <1>1 DEF IInv, Typed
<1>5. Typed'
  <2>1. \A q \in Procs : Reading(q)'
    BY <1>1, <1>2, <1>4 DEF IInv, Typed, Reading, Puts, Head1
  <2>2. \A q \in Procs : todo'[q] \in Seq(StepsOf(cmd'[q]))
    BY <1>1, <1>2, <1>4 DEF IInv, Typed
  <2> QED BY <1>1, <1>3, <1>4, <2>1, <2>2 DEF IInv, Typed
<1>6. \A q \in Procs \ {p} : Solo(q)' /\ Underway(q)'
  BY <1>1, <1>2, OthersKeep
<1>7. Solo(p)'
  BY <1>1, <1>2 DEF IInv, Solo, Idle, OthersIdle
<1>8. cmd[p] = "purge"
  <2> SUFFICES ASSUME cmd[p] # "purge" PROVE FALSE
    OBVIOUS
  <2> QED BY <1>1, <1>2, StepKinds DEF StepsOf
<1>9. Underway(p)' /\ Rested'
  BY <1>1, <1>2, <1>8, RestedAlone DEF Underway, Rested, AllIdle, Idle
<1> QED BY <1>5, <1>6, <1>7, <1>9 DEF IInv

(* A plan without steps has come to where it led.                           *)
LEMMA PlanDone ==
  ASSUME NEW d, NEW v, NEW body, NEW rest, NEW e, Plan(d, <<>>, v, body, rest, e)
  PROVE  body = <<>> /\ rest = <<>> /\ d = e
<1> DEFINE S == PutSteps \cup LoadsOf(v)
<1>1. body \in Seq(S)
  BY SeqMonotonic DEF Plan, Runs, Straight
<1>2. rest \in Seq(S)
  <2>1. CASE rest = <<>>
    BY <2>1, EmptySeq
  <2>2. CASE rest # <<>>
    <3>1. PICK s \in LoadsOf(v) : rest = <<s>>
      BY <2>2 DEF Plan, Rests
    <3>2. s \in S
      OBVIOUS
    <3> HIDE DEF S
    <3> QED BY <3>1, <3>2
  <2> QED BY <2>1, <2>2
<1> HIDE DEF S
<1>3. body = <<>> /\ rest = <<>>
  <2>1. body \o rest = <<>>
    BY DEF Plan
  <2> QED BY <1>1, <1>2, <2>1, ConcatEqualIffEmpty
<1> QED BY <1>3, RunsToItself DEF Plan

(* A load: the plan goes on with what it leaves.                            *)
LEMMA LoadStateKeeps ==
  ASSUME IInv, NEW p \in Procs, LoadState(p)
  PROVE  IInv'
<1> DEFINE s == Head1(p)
           prog == IF blind' = blind /\ todo' = [todo EXCEPT ![p] = Loaded(s, disk) \o Tail(todo[p])]
                   THEN Loaded(s, disk) ELSE Unloaded(s)
<1>1. /\ todo[p] # <<>> /\ s.do = "load"
      /\ \/ /\ prog = Loaded(s, disk) /\ UNCHANGED blind
         \/ /\ prog = Unloaded(s) /\ blind' = [blind EXCEPT ![p] = TRUE]
      /\ todo' = [todo EXCEPT ![p] = prog \o Tail(todo[p])]
      /\ UNCHANGED <<disk, routed, cmd, buf, alone, before, synced, calm, moves>>
  BY DEF LoadState, history
<1> HIDE DEF prog
<1>2. /\ ~Idle(p) /\ buf[p] = <<>> /\ cmd[p] \in Verbs \ {"none"}
      /\ s \in StepsOf(cmd[p]) /\ Tail(todo[p]) \in Seq(StepsOf(cmd[p]))
  BY <1>1, NextStep
<1>3. IsDisk(disk) /\ cmd[p] \in Verbs
  BY DEF IInv, Typed
<1>4. prog \in Seq(StepsOf(cmd[p])) /\ prog \o Tail(todo[p]) \in Seq(StepsOf(cmd[p]))
  BY <1>1, <1>2, <1>3, LoadsTyped, ConcatProperties
<1>5. /\ todo'[p] = prog \o Tail(todo[p]) /\ DOMAIN todo' = Procs
      /\ \A q \in Procs \ {p} : todo'[q] = todo[q]
  BY <1>1 DEF IInv, Typed
<1>6. Typed'
  <2>1. \A q \in Procs : Reading(q)'
    BY <1>1, <1>2, <1>5 DEF IInv, Typed, Reading, Puts, Head1
  <2>2. \A q \in Procs : todo'[q] \in Seq(StepsOf(cmd'[q]))
    BY <1>1, <1>4, <1>5 DEF IInv, Typed
  <2>3. (blind \in [Procs -> BOOLEAN])'
    BY <1>1 DEF IInv, Typed
  <2> QED BY <1>1, <1>5, <2>1, <2>2, <2>3 DEF IInv, Typed
<1>7. \A q \in Procs \ {p} : Solo(q)' /\ Underway(q)'
  BY <1>1, <1>2, OthersKeep
<1>8. Solo(p)'
  BY <1>1, <1>2 DEF IInv, Solo, Idle, OthersIdle
<1>9. Underway(p)'
  <2> SUFFICES ASSUME alone[p], cmd[p] # "purge"
               PROVE  \E body, rest, e :
                        /\ Plan(disk, todo'[p], cmd[p], body, rest, e)
                        /\ calm /\ ~blind'[p] => Agreeing(e, rest)
                        /\ cmd[p] \in Syncs /\ ~blind'[p] => Syncing(before, cmd[p], e, rest)
    BY <1>1 DEF Underway
  <2>1. PICK body, rest, e :
          /\ Plan(disk, todo[p], cmd[p], body, rest, e)
          /\ calm /\ ~blind[p] => Agreeing(e, rest)
          /\ cmd[p] \in Syncs /\ ~blind[p] => Syncing(before, cmd[p], e, rest)
    BY DEF IInv, Underway
  <2>2. disk = e /\ rest = <<s>> /\ s \in LoadsOf(cmd[p]) /\ Tail(todo[p]) = <<>>
    <3>1. body # <<>> => Head(todo[p]).do = "put"
      BY <1>1, <1>2, <2>1, NextOfPlan
    <3>2. body = <<>>
      BY <1>1, <3>1 DEF Head1
    <3> QED BY <1>1, <1>2, <2>1, <3>2, NextOfPlan DEF Head1
  <2>3. todo'[p] = prog
    BY <1>4, <1>5, <2>2, ConcatEmptySeq
  <2>4. CASE prog = Loaded(s, disk) /\ UNCHANGED blind
    <3>1. PICK body2, rest2, e2 :
            /\ Plan(disk, prog, cmd[p], body2, rest2, e2)
            /\ Agreeing(disk, <<s>>) => Agreeing(e2, rest2)
            /\ cmd[p] \in Syncs /\ Syncing(before, cmd[p], disk, <<s>>) =>
                 Syncing(before, cmd[p], e2, rest2)
      BY <1>2, <1>3, <2>2, <2>4, LoadedPlan
    <3> QED BY <2>1, <2>2, <2>3, <2>4, <3>1
  <2>5. CASE prog = Unloaded(s) /\ blind' = [blind EXCEPT ![p] = TRUE]
    <3>1. blind'[p]
      BY <2>5 DEF IInv, Typed
    <3> QED BY <1>2, <1>3, <2>2, <2>3, <2>5, <3>1, UnloadedPlan
  <2> QED BY <1>1, <2>4, <2>5
<1>10. Rested'
  BY <1>1, <1>2, RestedAlone DEF Rested, AllIdle, Idle
<1> QED BY <1>6, <1>7, <1>8, <1>9, <1>10 DEF IInv

(* A command ends, by itself or killed; a lone sync then rests.             *)
LEMMA EndedKeeps ==
  ASSUME IInv, NEW p \in Procs, NEW done \in BOOLEAN, Ended(p, done), ~Idle(p),
         done => todo[p] = <<>>
  PROVE  IInv'
<1>1. /\ cmd' = [cmd EXCEPT ![p] = "none"] /\ todo' = [todo EXCEPT ![p] = <<>>]
      /\ buf' = [buf EXCEPT ![p] = <<>>] /\ blind' = [blind EXCEPT ![p] = FALSE]
      /\ alone' = [alone EXCEPT ![p] = FALSE]
      /\ synced' = IF done /\ cmd[p] \in Syncs /\ alone[p] /\ ~blind[p] THEN cmd[p] ELSE "none"
      /\ calm' = (calm /\ done /\ ~blind[p] /\ cmd[p] # "purge")
      /\ UNCHANGED <<disk, routed, before, moves>>
  BY DEF Ended
<1>2. /\ cmd'[p] = "none" /\ todo'[p] = <<>> /\ buf'[p] = <<>> /\ ~blind'[p] /\ ~alone'[p]
      /\ DOMAIN todo' = Procs /\ DOMAIN buf' = Procs
      /\ \A q \in Procs \ {p} : /\ cmd'[q] = cmd[q] /\ todo'[q] = todo[q] /\ buf'[q] = buf[q]
                                /\ alone'[q] = alone[q]
  BY <1>1 DEF IInv, Typed
<1>3. Typed'
  <2>1. \A q \in Procs : Reading(q)'
    BY <1>2 DEF IInv, Typed, Reading, Puts, Head1
  <2>2. \A q \in Procs : todo'[q] \in Seq(StepsOf(cmd'[q]))
    <3>1. <<>> \in Seq(StepsOf("none"))
      BY EmptySeq
    <3> QED BY <1>2, <3>1 DEF IInv, Typed
  <2>3. /\ (blind \in [Procs -> BOOLEAN])' /\ (alone \in [Procs -> BOOLEAN])'
        /\ (cmd \in [Procs -> Verbs])'
    BY <1>1 DEF IInv, Typed, Verbs
  <2>4. (synced \in Syncs \cup {"none"})'
    BY <1>1
  <2>5. (calm \in BOOLEAN)'
    BY <1>1
  <2> QED BY <1>1, <1>2, <2>1, <2>2, <2>3, <2>4, <2>5 DEF IInv, Typed
<1>4. \A q \in Procs \ {p} : Solo(q)' /\ Underway(q)'
  BY <1>1, <1>2, OthersKeep
<1>5. Solo(p)' /\ Underway(p)'
  BY <1>2 DEF Solo, Underway, Idle
<1>6. ASSUME done, alone[p], ~blind[p], cmd[p] # "purge"
      PROVE  /\ AllIdle'
             /\ calm => AllAgree(disk)
             /\ cmd[p] \in Syncs => Settled(before, cmd[p], disk) /\ Converges(disk, "cga")
  <2>1. AllIdle'
    BY <1>2, <1>6 DEF IInv, Solo, AllIdle, OthersIdle, Idle
  <2>2. PICK body, rest, e :
          /\ Plan(disk, todo[p], cmd[p], body, rest, e)
          /\ calm /\ ~blind[p] => Agreeing(e, rest)
          /\ cmd[p] \in Syncs /\ ~blind[p] => Syncing(before, cmd[p], e, rest)
    BY <1>6 DEF IInv, Underway
  <2>3. rest = <<>> /\ disk = e
    BY <1>6, <2>2, PlanDone
  <2>4. calm => AllAgree(disk)
    BY <1>6, <2>2, <2>3, LoadsDiffer DEF Agreeing, AllAgree
  <2>5. cmd[p] \in Syncs => Settled(before, cmd[p], disk) /\ Converges(disk, "cga")
    BY <1>6, <2>2, <2>3, LoadsDiffer DEF Syncing
  <2> QED BY <2>1, <2>4, <2>5
<1>7. Rested'
  <2>1. ASSUME synced' # "none"
        PROVE  (AllIdle /\ Settled(before, synced, disk) /\ Converges(disk, "cga"))'
    BY <1>1, <1>6, <2>1 DEF Syncs
  <2>2. ASSUME calm', AllIdle' PROVE AllAgree(disk)'
    <3>1. calm /\ done /\ ~blind[p] /\ cmd[p] # "purge"
      BY <1>1, <2>2
    <3>2. alone[p]
      BY <3>1 DEF IInv, Solo
    <3> QED BY <1>1, <1>6, <3>1, <3>2
  <2> QED BY <2>1, <2>2 DEF Rested
<1> QED BY <1>3, <1>4, <1>5, <1>7 DEF IInv

(* An error that is only warned of: the purge goes on, and is blind.        *)
LEMMA WarnKeeps ==
  ASSUME IInv, NEW p \in Procs, Warn(p)
  PROVE  IInv'
<1>1. /\ todo[p] # <<>> /\ cmd[p] = "purge"
      /\ todo' = [todo EXCEPT ![p] = Tail(todo[p])]
      /\ buf' = [buf EXCEPT ![p] = <<>>] /\ blind' = [blind EXCEPT ![p] = TRUE]
      /\ UNCHANGED <<disk, routed, cmd, alone, before, synced, calm, moves>>
  BY DEF Warn, history
<1>2. ~Idle(p) /\ Tail(todo[p]) \in Seq(StepsOf(cmd[p]))
  BY <1>1, NextStep
<1>3. /\ todo'[p] = Tail(todo[p]) /\ buf'[p] = <<>> /\ DOMAIN todo' = Procs /\ DOMAIN buf' = Procs
      /\ \A q \in Procs \ {p} : todo'[q] = todo[q] /\ buf'[q] = buf[q]
  BY <1>1 DEF IInv, Typed
<1>4. Typed'
  <2>1. \A q \in Procs : Reading(q)'
    BY <1>1, <1>3 DEF IInv, Typed, Reading, Puts, Head1
  <2>2. \A q \in Procs : todo'[q] \in Seq(StepsOf(cmd'[q]))
    BY <1>1, <1>2, <1>3 DEF IInv, Typed
  <2>3. (blind \in [Procs -> BOOLEAN])'
    BY <1>1 DEF IInv, Typed
  <2> QED BY <1>1, <1>3, <2>1, <2>2, <2>3 DEF IInv, Typed
<1>5. \A q \in Procs \ {p} : Solo(q)' /\ Underway(q)'
  BY <1>1, <1>2, OthersKeep
<1>6. Solo(p)'
  BY <1>1, <1>3 DEF IInv, Solo, Idle, OthersIdle
<1>7. Underway(p)' /\ Rested'
  BY <1>1, <1>2, RestedAlone DEF Underway, Rested, AllIdle, Idle
<1> QED BY <1>4, <1>5, <1>6, <1>7 DEF IInv

(* Every step of a process.                                                 *)
LEMMA StepKeeps ==
  ASSUME IInv, NEW p \in Procs, Step(p)
  PROVE  IInv'
<1>1. CASE Finish(p)
  BY <1>1, EndedKeeps DEF Finish
<1>2. CASE Fail(p)
  BY <1>2, EndedKeeps, NextStep DEF Fail
<1>3. CASE Crash(p)
  BY <1>3, EndedKeeps DEF Crash, Idle
<1> QED BY <1>1, <1>2, <1>3, ReadKeeps, WriteKeeps, RemoveHomeKeeps, LoadStateKeeps, WarnKeeps
        DEF Step

(* A fresh home agrees, and so does one that an SDD release has left.       *)
LEMMA InitIInv ==
  ASSUME Init
  PROVE  IInv
<1>1. PICK legacy \in BOOLEAN, modular \in BOOLEAN :
        LET assignment == IF legacy THEN "custom" ELSE "none"
        IN  disk = [EmptyDisk EXCEPT
                      !["state"]["modular"] = modular,
                      !["state"]["models"] = assignment,
                      !["state"]["efforts"] = assignment,
                      !["instructions"]["sdd"] = IF legacy THEN <<"custom", "custom">> ELSE Absent]
  BY DEF Init
<1> DEFINE a == IF legacy THEN "custom" ELSE "none"
           w == IF legacy THEN <<"custom", "custom">> ELSE Absent
           d1 == Written(EmptyDisk, Field("modular"), modular)
           d2 == Written(d1, Field("models"), a)
           d3 == Written(d2, Field("efforts"), a)
           d4 == Written(d3, Block("sdd"), w)
<1>2. IsDisk(EmptyDisk)
  <2>1. \A f \in Files \ {"state"} : \A n \in Keys(f) : Absent \in Contents(f, n)
    BY DEF Contents
  <2>2. /\ "state" \in Files /\ Keys("state") = FieldNames
        /\ \A n \in FieldNames : Contents("state", n) = FieldValues(n)
    <3>1. Keys("state") = FieldNames /\ "state" \in Files
      BY DEF Keys, Files, SharedFiles
    <3> QED BY <3>1, FieldPlaces DEF Field
  <2>3. EmptyState = [n \in FieldNames |-> EmptyState[n]]
    BY DEF EmptyState
  <2>4. /\ EmptyDisk = [f \in Files |-> EmptyDisk[f]] /\ EmptyDisk["state"] = EmptyState
        /\ \A f \in Files \ {"state"} : EmptyDisk[f] = [n \in Keys(f) |-> Absent]
    BY <2>2 DEF EmptyDisk
  <2>5. \A f \in Files : EmptyDisk[f] = [n \in Keys(f) |-> EmptyDisk[f][n]]
    <3> SUFFICES ASSUME NEW f \in Files PROVE EmptyDisk[f] = [n \in Keys(f) |-> EmptyDisk[f][n]]
      OBVIOUS
    <3>1. CASE f = "state"
      BY <2>2, <2>3, <2>4, <3>1
    <3>2. CASE f # "state"
      BY <2>4, <3>2
    <3> QED BY <3>1, <3>2
  <2>6. \A f \in Files : \A n \in Keys(f) : EmptyDisk[f][n] \in Contents(f, n)
    <3> SUFFICES ASSUME NEW f \in Files, NEW n \in Keys(f) PROVE EmptyDisk[f][n] \in Contents(f, n)
      OBVIOUS
    <3>1. CASE f = "state"
      BY <2>2, <2>4, <3>1, EmptyStateTyped
    <3>2. CASE f # "state"
      BY <2>1, <2>4, <3>2
    <3> QED BY <3>1, <3>2
  <2> QED BY <2>4, <2>5, <2>6 DEF IsDisk
<1>3. /\ \A n \in {"modular", "models", "efforts"} :
           /\ n \in FieldNames /\ Field(n) \in Sections
           /\ Contents(Field(n)[1], Field(n)[2]) = FieldValues(n)
      /\ modular \in FieldValues("modular") /\ a \in FieldValues("models") /\ a \in FieldValues("efforts")
      /\ Block("sdd") \in Sections /\ w \in Contents(Block("sdd")[1], Block("sdd")[2])
  <2>1. /\ {"modular", "models", "efforts"} \subseteq FieldNames
        /\ FieldValues("modular") = BOOLEAN
        /\ FieldValues("models") = Assignments /\ FieldValues("efforts") = Assignments
    BY DEF FieldNames, FieldValues, Switches
  <2>2. a \in Assignments /\ w \in (Assignments \X Assignments) \cup {Absent}
    BY DEF Assignments
  <2> QED BY <2>1, <2>2, FieldPlaces, WorkflowPlaces
<1> HIDE DEF a, w
<1>4. IsDisk(d1) /\ \A b \in Sections : b # Field("modular") => At(d1, b) = At(EmptyDisk, b)
  BY <1>2, <1>3, WrittenFacts
<1> HIDE DEF d1
<1>5. IsDisk(d2) /\ \A b \in Sections : b # Field("models") => At(d2, b) = At(d1, b)
  BY <1>3, <1>4, WrittenFacts
<1> HIDE DEF d2
<1>6. IsDisk(d3) /\ \A b \in Sections : b # Field("efforts") => At(d3, b) = At(d2, b)
  BY <1>3, <1>5, WrittenFacts
<1> HIDE DEF d3
<1>7. IsDisk(d4) /\ \A b \in Sections : b # Block("sdd") => At(d4, b) = At(d3, b)
  BY <1>3, <1>6, WrittenFacts
<1> HIDE DEF d4
<1>8. disk = d4
  BY <1>1 DEF d1, d2, d3, d4, a, w, Written, Field, Block
<1>9. IsDisk(disk)
  BY <1>7, <1>8
<1>10. \A b \in Sections : b \notin {Field("modular"), Field("models"), Field("efforts"), Block("sdd")}
                             => At(disk, b) = At(EmptyDisk, b)
  BY <1>4, <1>5, <1>6, <1>7, <1>8
<1>11. AllAgree(disk)
  <2> SUFFICES ASSUME NEW n \in FieldNames PROVE Agrees(disk, n)
    BY DEF AllAgree
  <2>1. CASE n \notin Owners
    BY <2>1, NoClaims DEF Agrees, Backed, Owners, FieldNames
  <2>2. CASE n \in Owners
    <3>1. St(disk, n) = EmptyState[n]
      <4>1. Field(n) \notin {Field("modular"), Field("models"), Field("efforts"), Block("sdd")}
        BY <2>2, FieldPlaces, WorkflowPlaces DEF Owners
      <4>2. At(disk, Field(n)) = At(EmptyDisk, Field(n))
        BY <1>10, <4>1, FieldPlaces
      <4>3. EmptyDisk["state"] = EmptyState
        BY DEF EmptyDisk, Files, SharedFiles
      <4> QED BY <4>2, <4>3, FieldPlaces DEF St
    <3>2. ClaimsOf(n, St(disk, n)) = {}
      BY <3>1, EmptyStateTyped
    <3>3. \A f \in Files \ {"state"} : \A k \in Keys(f) : At(EmptyDisk, <<f, k>>) = Absent
      BY DEF EmptyDisk, At
    <3>4. \A c \in Exact : At(disk, c) = Absent
      <4>2. \A c \in Exact : c \in Sections /\ c[1] # "state" /\ Owner(c) # "workflow"
        <5>1. ASSUME NEW c \in {Block(k) : k \in {"persona", "trigger", "memory", "headroom", "efficiency"}}
              PROVE  c[1] # "state" /\ Owner(c) # "workflow"
          BY BlockPlaces DEF Keys
        <5>2. ASSUME NEW c \in {Server(k) : k \in Keys("mcp")}
              PROVE  c[1] # "state" /\ Owner(c) # "workflow"
          BY OtherPlaces DEF Keys
        <5>3. ASSUME NEW c \in {CopilotHook(k) : k \in HookNames}
              PROVE  c[1] # "state" /\ Owner(c) # "workflow"
          BY OtherPlaces
        <5> QED BY <5>1, <5>2, <5>3, ExactOwned DEF Exact
      <4>3. ASSUME NEW c \in Exact
            PROVE  At(disk, c) = Absent
        <5>1. /\ c \in Sections /\ c[1] # "state"
              /\ c \notin {Field("modular"), Field("models"), Field("efforts"), Block("sdd")}
          BY <4>2, WorkflowPlaces, FieldPlaces
        <5>2. c[1] \in Files /\ c[2] \in Keys(c[1]) /\ c = <<c[1], c[2]>>
          BY <5>1, SectionParts
        <5> QED BY <1>10, <3>3, <5>1, <5>2
      <4> QED BY <4>3
    <3> QED BY <3>2, <3>4 DEF Agrees, Backed, ExactOf
  <2> QED BY <2>1, <2>2
<1>12. /\ cmd = [p \in Procs |-> "none"] /\ todo = [p \in Procs |-> <<>>]
       /\ buf = [p \in Procs |-> <<>>] /\ blind = [p \in Procs |-> FALSE]
       /\ alone = [p \in Procs |-> FALSE] /\ before = EmptyState
       /\ synced = "none" /\ calm = TRUE /\ moves = 0
       /\ routed = [p \in Procs |-> WithRouting(St(disk, "models"))]
  BY DEF Init
<1>13. Typed
  <2>1. routed \in [Procs -> Routings]
    <3>1. WithRouting(St(disk, "models")) \in Routings
      BY DEF WithRouting, Routings
    <3> QED BY <1>12, <3>1
  <2>2. \A p \in Procs : todo[p] \in Seq(StepsOf(cmd[p]))
    <3>1. <<>> \in Seq(StepsOf("none"))
      BY EmptySeq
    <3> QED BY <1>12, <3>1
  <2>3. moves \in 0..(MaxMoves + 1)
    BY <1>12, ConstantsAssumption
  <2>4. \A p \in Procs : Reading(p)
    BY <1>12 DEF Reading
  <2>5. cmd \in [Procs -> Verbs]
    BY <1>12 DEF Verbs
  <2>6. \A n \in FieldNames : before[n] \in FieldValues(n)
    BY <1>12, EmptyStateTyped
  <2> QED BY <1>9, <1>12, <2>1, <2>2, <2>3, <2>4, <2>5, <2>6 DEF Typed
<1>14. \A p \in Procs : Solo(p) /\ Underway(p)
  BY <1>12 DEF Solo, Underway, Idle
<1>15. Rested
  BY <1>11, <1>12 DEF Rested
<1> QED BY <1>13, <1>14, <1>15 DEF IInv

(* Every step of the specification.                                         *)
LEMMA StepIInv ==
  ASSUME IInv, [Next]_vars
  PROVE  IInv'
<1>1. CASE Edit
  BY <1>1, EditKeeps
<1>2. ASSUME NEW p \in Procs, Start(p) \/ Step(p)
      PROVE  IInv'
  <2>1. CASE Launch(p)
    BY <2>1, LaunchKeeps
  <2>2. CASE Start(p) /\ ~Launch(p)
    BY <2>2, StartKeeps
  <2>3. CASE Step(p)
    BY <2>3, StepKeeps
  <2> QED BY <1>2, <2>1, <2>2, <2>3
<1>3. CASE UNCHANGED vars
  <2>1. UNCHANGED <<disk, routed, cmd, todo, buf, blind, alone, before, synced, calm, moves>>
    BY <1>3 DEF vars, run, history
  <2>2. Typed'
    BY <2>1 DEF IInv, Typed, Reading, Puts, Head1
  <2>3. \A q \in Procs : Solo(q)' /\ Underway(q)'
    BY <2>1 DEF IInv, Solo, Underway, Idle, OthersIdle, Head1
  <2>4. Rested'
    BY <2>1 DEF IInv, Rested, AllIdle, Idle
  <2> QED BY <2>2, <2>3, <2>4 DEF IInv
<1> QED BY <1>1, <1>2, <1>3 DEF Next

(* The inductive invariant of the settings.                                *)
THEOREM Invariance == Spec => []IInv
BY InitIInv, StepIInv, PTL DEF Spec
------------------------------------------------------------------------------
(* Every variable has its type, and what a process is about to write back  *)
(* is the file its next step is about, for any processes, repositories,    *)
(* personas and number of commands.                                        *)
THEOREM TypeOKAlways == Spec => []TypeOK
<1>1. ASSUME IInv PROVE TypeOK
  <2>1. DOMAIN disk = Files /\ \A f \in Files : DOMAIN disk[f] = Keys(f)
    BY <1>1 DEF IInv, Typed, IsDisk
  <2>2. \A f \in Files : \A n \in Keys(f) : disk[f][n] \in Contents(f, n)
    BY <1>1 DEF IInv, Typed, IsDisk
  <2>3. \A p \in Procs : buf[p] # <<>> => Puts(p) /\ DOMAIN buf[p] = Together(Head1(p).at)
    BY <1>1 DEF IInv, Typed, Reading, Copied
  <2> QED BY <1>1, <2>1, <2>2, <2>3 DEF IInv, Typed, TypeOK
<1> QED BY <1>1, Invariance, PTL

(* As long as no command failed or overlapped another and the user edited  *)
(* nothing, every section the settings claim is there, and no block,       *)
(* server or Copilot hook of Exact is there unless the settings claim it.  *)
THEOREM CalmAgreementAlways == Spec => []CalmAgreement
<1>1. ASSUME IInv PROVE CalmAgreement
  <2> SUFFICES ASSUME calm, AllIdle
               PROVE  /\ \A c \in Claims(disk) : At(disk, c) # Absent
                      /\ \A c \in Exact : At(disk, c) # Absent => c \in Claims(disk)
    BY DEF CalmAgreement
  <2>1. AllAgree(disk)
    BY <1>1 DEF IInv, Rested
  <2>2. \A c \in Claims(disk) : At(disk, c) # Absent
    BY <2>1, ClaimsByField DEF AllAgree, Agrees, Backed
  <2>3. ASSUME NEW c \in Exact, At(disk, c) # Absent PROVE c \in Claims(disk)
    <3>1. Owner(c) \in FieldNames /\ c \in ExactOf(Owner(c))
      BY ExactOwned DEF Owners, ExactOf
    <3>2. c \in ClaimsOf(Owner(c), St(disk, Owner(c)))
      BY <2>1, <2>3, <3>1 DEF AllAgree, Agrees
    <3> QED BY <3>1, <3>2, ClaimsByField
  <2> QED BY <2>2, <2>3
<1> QED BY <1>1, Invariance, PTL

(* Whatever earlier commands left behind, half done, overlapping or undone *)
(* by the user: a sync that ran alone to its end has made the files say    *)
(* what the settings say, all but the hooks of the team's memory and the   *)
(* editor's entry of Engram, which RunSync leaves as it found them.        *)
THEOREM SyncConvergesAlways == Spec => []SyncConverges
<1>1. ASSUME IInv PROVE SyncConverges
  <2> SUFFICES ASSUME synced # "none" PROVE SyncConverges
    BY DEF SyncConverges
  <2>1. \A n \in Owners \ {"team"} : Converges(disk, n)
    <3>1. Owners \ {"team"} = SyncedOwners \cup {"agents", "cga"}
      BY DEF Owners, SyncedOwners, FieldNames, Switches
    <3> QED BY <1>1, <3>1 DEF IInv, Rested, Settled
  <2>2. ASSUME NEW c \in Claims(disk) \ (TeamClaims(disk) \cup EditorClaims(disk))
        PROVE  At(disk, c) # Absent
    <3>4. EditorClaims(disk) = EditorOf(St(disk, "engram"))
      BY DEF EditorClaims, EditorOf
    <3>1. PICK n \in FieldNames : c \in ClaimsOf(n, St(disk, n))
      BY ClaimsByField
    <3>2. ClaimsOf("team", St(disk, "team")) = TeamClaims(disk)
      BY DEF ClaimsOf, TeamClaims
    <3>3. n \in Owners \ {"team"}
      BY <3>1, <3>2, NoClaims
    <3> QED BY <2>1, <3>1, <3>3, <3>4 DEF Converges, Renewed
  <2>3. {"agents", "persona", "workflow", "hooks", "cga"} \subseteq Owners \ {"team"}
    BY DEF Owners, FieldNames
  <2>4. /\ At(disk, Agents) = St(disk, "agents")
        /\ St(disk, "persona") # "none" => At(disk, Block("persona")) = St(disk, "persona")
        /\ St(disk, "hooks") # "off" => At(disk, CopilotHook("guardrails")) = St(disk, "hooks")
        /\ St(disk, "cga") # Absent /\ St(disk, "cga").on
             => At(disk, GitHook(St(disk, "cga").at, "pre-commit")) = St(disk, "persona")
    BY <2>1, <2>3 DEF Converges, CGAOn
  <2>5. IF St(disk, "workflow") = "sdd"
        THEN At(disk, Block("sdd")) = <<St(disk, "models"), St(disk, "efforts")>>
        ELSE ODDWired(disk)
    BY <2>1, <2>3 DEF Converges
  <2>6. ODDWired(disk) =>
          /\ At(disk, Block("odd")) = [rdd |-> St(disk, "trigger"), modular |-> St(disk, "modular")]
          /\ At(disk, Modules) = IF St(disk, "modular") THEN St(disk, "trigger") ELSE Absent
    BY DEF ODDWired, ODDLayout, ODDModules
  <2> QED BY <2>2, <2>4, <2>5, <2>6 DEF SyncConverges
<1> QED BY <1>1, Invariance, PTL

(* A sync that ran alone saves every record again and changes no choice of *)
(* the user.                                                               *)
THEOREM SyncKeepsChoicesAlways == Spec => []SyncKeepsChoices
<1>1. ASSUME IInv PROVE SyncKeepsChoices
  <2> SUFFICES ASSUME synced # "none" PROVE SyncKeepsChoices
    BY DEF SyncKeepsChoices
  <2>1. ChosenFrom(before, disk)
    BY <1>1 DEF IInv, Rested, Settled
  <2>2. FieldNames \ {"models", "efforts", "odd", "agents"} = (Owners \ {"agents"}) \cup {"modular"}
        /\ "workflow" \in Owners \ {"agents"}
    BY DEF Owners, FieldNames, Switches
  <2> QED BY <2>1, <2>2 DEF ChosenFrom, SyncKeepsChoices
<1> QED BY <1>1, Invariance, PTL

(* A repair that ran alone leaves nothing the next doctor would warn of,   *)
(* the default models that the sync in it assigns included.                *)
THEOREM RepairCuresAlways == Spec => []RepairCures
<1>1. ASSUME IInv PROVE RepairCures
  <2> SUFFICES ASSUME synced = "repair"
               PROVE  ~StaleAgents(disk) /\ ~StaleEngram(disk) /\ ~StaleHeadroom(disk)
    BY DEF RepairCures
  <2>1. Settled(before, "repair", disk)
    BY <1>1 DEF IInv, Rested
  <2>2. ~StaleAgents(disk)
    <3>1. St(disk, "agents") = WithRouting(before["models"])
      BY <2>1 DEF Settled
    <3>2. St(disk, "models") \in {before["models"], OrDefault(before["models"])}
      BY <2>1 DEF Settled, ChosenFrom
    <3>3. WithRouting(OrDefault(before["models"])) = WithRouting(before["models"])
      BY DEF WithRouting, OrDefault
    <3> QED BY <3>1, <3>2, <3>3 DEF StaleAgents
  <2>3. Renewed(disk, "engram") /\ Renewed(disk, "headroom")
    BY <2>1 DEF Settled, Converges, SyncedOwners
  <2>6. Server("engram") \notin EditorOf(St(disk, "engram"))
        /\ Server("headroom") \notin EditorOf(St(disk, "engram"))
    <3>1. St(disk, "engram") \in [on : BOOLEAN, scope : Scopes, at : Repos \cup {Absent}]
      <4>1. "engram" \in FieldNames
            /\ FieldValues("engram") = [on : BOOLEAN, scope : Scopes, at : Repos \cup {Absent}]
        BY DEF FieldNames, FieldValues, Switches
      <4>2. Field("engram") \in Sections /\ At(disk, Field("engram")) = St(disk, "engram")
            /\ Contents(Field("engram")[1], Field("engram")[2]) = FieldValues("engram")
        BY <4>1, FieldPlaces
      <4>3. IsDisk(disk)
        BY <1>1 DEF IInv, Typed
      <4> QED BY <4>1, <4>2, <4>3, DiskAt
    <3>2. \A r \in Repos : Workspace(r)[1] # "mcp"
      BY EngramPlaces
    <3>3. UserMcp[1] = "home" /\ Server("engram")[1] = "mcp" /\ Server("headroom")[1] = "mcp"
      BY OtherPlaces DEF Keys
    <3> QED BY <3>1, <3>2, <3>3 DEF EditorOf, Where
  <2>4. St(disk, "engram").on => Server("engram") \in ClaimsOf("engram", St(disk, "engram"))
    BY DEF ClaimsOf, Where
  <2>5. St(disk, "headroom") => Server("headroom") \in ClaimsOf("headroom", St(disk, "headroom"))
    BY DEF ClaimsOf, Where
  <2> QED BY <2>2, <2>3, <2>4, <2>5, <2>6 DEF StaleEngram, StaleHeadroom, Renewed
<1> QED BY <1>1, Invariance, PTL

(* What is claimed is read off the state, and who records has written it.  *)
LEMMA ClaimsOfState ==
  ASSUME NEW d, NEW e, \A n \in FieldNames : St(e, n) = St(d, n)
  PROVE  Claims(e) \ Claims(d) = {}
BY ClaimsByField

(* A lone write claims nothing that is not on disk.                         *)
LEMMA WriteClaims ==
  ASSUME IInv, NEW p \in Procs, Write(p), alone[p] \/ Idle(p),
         NEW c \in Claims(disk') \ (Claims(disk) \cup Late)
  PROVE  At(disk', c) # Absent
<1> DEFINE s == Head1(p)
<1>1. todo[p] # <<>> /\ s.do = "put"
  BY DEF Write, Puts
<1>2. /\ alone[p] /\ cmd[p] \in Verbs \ {"none"} /\ s \in PutSteps
      /\ cmd[p] = "purge" => s.at[1] # "state"
  BY <1>1, NextStep
<1>3. s.at \in Sections /\ s.val \in Contents(s.at[1], s.at[2]) /\ IsDisk(disk)
  BY <1>2, PutStepFacts DEF IInv, Typed
<1>4. /\ disk' = Written(disk, s.at, s.val) /\ IsDisk(disk')
      /\ At(disk', s.at) = s.val
      /\ \A b \in Sections \ {s.at} : At(disk', b) = At(disk, b)
  BY <1>2, <1>3, WriteAlone, WrittenFacts
<1> HIDE DEF s
<1>5. s.at[1] = "state"
  <2> SUFFICES ASSUME s.at[1] # "state" PROVE FALSE
    OBVIOUS
  <2>1. \A n \in FieldNames : St(disk', n) = St(disk, n)
    BY <1>4, FieldPlaces
  <2> QED BY <2>1, ClaimsOfState
<1>6. PICK n \in FieldNames : c \in ClaimsOf(n, St(disk', n))
  BY ClaimsByField
<1>7. St(disk', n) # St(disk, n)
  BY <1>6, ClaimsByField
<1>8. Field(n) = s.at
  BY <1>4, <1>7, FieldPlaces
<1>9. n = s.at[2] /\ St(disk', n) = s.val /\ c \in ClaimsOf(s.at[2], s.val)
  BY <1>4, <1>6, <1>8, FieldPlaces
<1>10. c \in Sections /\ c[1] # "state"
  <2>1. s.val \in FieldValues(n)
    BY <1>3, <1>8, FieldPlaces
  <2> QED BY <1>9, <2>1, ClaimsOwned
<1>11. At(disk, c) # Absent
  <2>1. PICK body, rest, e : Plan(disk, todo[p], cmd[p], body, rest, e)
    BY <1>2, <1>5 DEF IInv, Underway
  <2>2. body # <<>> /\ Head(body) = s
    <3>1. /\ body # <<>> => Head(todo[p]) = Head(body)
          /\ body = <<>> => Head(todo[p]).do = "load"
      BY <1>1, <1>2, <1>5, <2>1, NextOfPlan
    <3> QED BY <1>1, <3>1 DEF Head1, s
  <2> QED BY <1>5, <1>9, <1>10, <2>1, <2>2, RunsFirst DEF Plan
<1> QED BY <1>4, <1>5, <1>10, <1>11

(* The settings never claim a section before it is on disk, Engram's       *)
(* guidance and its entry in the editor apart, which ApplyEngramConfig     *)
(* wires after it has recorded them: a command that runs alone records     *)
(* what it has wired, whenever it is killed.                               *)
THEOREM ClaimsFollowWritesAlways == Spec => ClaimsFollowWrites
<1>1. ASSUME IInv, [Next]_vars
      PROVE  [(\A p \in Procs : Idle(p) \/ alone[p])
                => \A c \in Claims(disk') \ (Claims(disk) \cup Late) : At(disk', c) # Absent]_vars
  <2> SUFFICES ASSUME Next, \A p \in Procs : Idle(p) \/ alone[p],
                      NEW c \in Claims(disk') \ (Claims(disk) \cup Late)
               PROVE  At(disk', c) # Absent
    BY <1>1
  <2>1. CASE Edit
    <3>1. PICK f \in Files \ {"state"} : \E n \in Keys(f) : disk' = [disk EXCEPT ![f][n] = Absent]
      BY <2>1 DEF Edit
    <3>2. disk'["state"] = disk["state"]
      BY <3>1
    <3> QED BY <3>2, ClaimsOfState DEF St
  <2>2. ASSUME NEW p \in Procs, Write(p) PROVE At(disk', c) # Absent
    BY <1>1, <2>2, WriteClaims
  <2>3. ASSUME NEW p \in Procs, RemoveHome(p) PROVE FALSE
    <3>1. disk'["state"] = EmptyState
      BY <1>1, <2>3 DEF RemoveHome, IInv, Typed, IsDisk, Files, SharedFiles
    <3>2. \A n \in FieldNames : ClaimsOf(n, St(disk', n)) = {}
      BY <3>1, EmptyStateTyped DEF St
    <3> QED BY <3>2, ClaimsByField
  <2>4. CASE UNCHANGED disk
    BY <2>4
  <2>5. ASSUME NEW p \in Procs, Start(p) PROVE UNCHANGED disk
    BY <2>5 DEF Start, Screen, PersonaScreen, SDDScreen, WorkflowScreen, EngramScreen, HeadroomScreen,
         TeamSyncScreen, CopilotHooksScreen, CGAScreen, ReviewGate, Install, Sync, Repair, Purge, Launch, Begin
  <2>6. ASSUME NEW p \in Procs, Step(p), ~Write(p), ~RemoveHome(p) PROVE UNCHANGED disk
    BY <2>6 DEF Step, Read, LoadState, Finish, Fail, Crash, Warn, Ended
  <2> QED BY <2>1, <2>2, <2>3, <2>4, <2>5, <2>6 DEF Next
<1> QED BY <1>1, Invariance, PTL DEF Spec, ClaimsFollowWrites
------------------------------------------------------------------------------
(* The save of one file through one temporary name, and nothing locked.    *)

(* Who runs alone, and that nobody else is under way while it matters.     *)
SoleInv ==
  /\ \A s \in Savers : sole[s] => ~SaverAt(s, "idle") /\ NoOtherSave(s)
  /\ last # Unknown => \A s \in Savers : ~SaverAt(s, "idle") => sole[s]

(* The two names, and who is made executable.                              *)
NamesInv ==
  /\ tmp # 0 => tmp # target
  /\ kind # "hook" => \A i \in Inodes : inode[i].exec = FALSE
  /\ \A s \in Savers : SaverAt(s, "chmod") => kind = "hook"

(* What a save that runs alone has made of the temporary file.             *)
Mine(s) ==
  /\ saver[s].text \in Texts
  /\ tmp # 0
  /\ SaverAt(s, "fill") => saver[s].fd = tmp /\ inode[tmp].text = 0
  /\ SaverAt(s, "chmod") \/ SaverAt(s, "rename") => inode[tmp].text = saver[s].text
  /\ SaverAt(s, "rename") => inode[tmp].exec = (kind = "hook")

SaveInv ==
  /\ SaveTypeOK /\ SoleInv /\ NamesInv /\ SavesAreAtomic
  /\ \A s \in Savers : sole[s] => Mine(s)

SaverTypes == [pc : SaveSteps, text : Texts \cup {0}, fd : Inodes \cup {0}]
InodeTypes == [text : Texts \cup {0, Torn}, exec : BOOLEAN]
------------------------------------------------------------------------------
(* Nothing is saved, and the file is not there.                             *)
LEMMA InitSaveInv == SaveInit => SaveInv
<1> SUFFICES ASSUME SaveInit PROVE SaveInv
  OBVIOUS
<1>1. Blank \in InodeTypes /\ NoSave \in SaverTypes
  BY DEF Blank, NoSave, InodeTypes, SaverTypes, SaveSteps
<1>2. SaveTypeOK
  BY <1>1, SaveAssumption DEF SaveInit, SaveTypeOK, InodeTypes, SaverTypes
<1> QED BY <1>2 DEF SaveInit, SaveInv, SoleInv, NamesInv, SavesAreAtomic, SaverAt, NoSave, Blank

(* What a save that begins changes of the savers.                          *)
LEMMA BegunFacts ==
  ASSUME SaveInv, NEW s \in Savers, SaverAt(s, "idle"), NEW text \in Texts, NEW i \in Inodes,
         Begun(s, text, i)
  PROVE  /\ saver' \in [Savers -> SaverTypes] /\ sole' \in [Savers -> BOOLEAN]
         /\ saver'[s] = [pc |-> "fill", text |-> text, fd |-> i]
         /\ \A q \in Savers \ {s} : saver'[q] = saver[q] /\ ~sole'[q]
         /\ sole'[s] = NoOtherSave(s)
         /\ last' \in Texts \cup {0, Unknown} /\ saves' \in 0..MaxSaves
         /\ last' # Unknown => last' = last /\ NoOtherSave(s)
         /\ kind' = kind /\ target' = target
<1>1. SaveTypeOK
  BY DEF SaveInv
<1>2. [pc |-> "fill", text |-> text, fd |-> i] \in SaverTypes
  BY DEF SaverTypes, SaveSteps
<1>3. saver' = [saver EXCEPT ![s] = [pc |-> "fill", text |-> text, fd |-> i]]
      /\ sole' = [q \in Savers |-> IF q = s THEN NoOtherSave(s) ELSE FALSE]
      /\ last' = (IF NoOtherSave(s) THEN last ELSE Unknown)
      /\ saves < MaxSaves /\ saves' = saves + 1
      /\ kind' = kind /\ target' = target
  BY DEF Begun
<1>4. NoOtherSave(s) \in BOOLEAN
  BY DEF NoOtherSave
<1>5. sole' \in [Savers -> BOOLEAN] /\ sole'[s] = NoOtherSave(s)
      /\ \A q \in Savers \ {s} : ~sole'[q]
  BY <1>3, <1>4
<1>6. saves' \in 0..MaxSaves
  BY <1>1, <1>3, SaveAssumption DEF SaveTypeOK
<1> QED BY <1>1, <1>2, <1>3, <1>5, <1>6 DEF SaveTypeOK, SaverTypes

(* A save that begins truncates the file of that name, or makes one.        *)
LEMMA OpenKeeps ==
  ASSUME SaveInv, NEW s \in Savers, Open(s)
  PROVE  SaveInv'
<1>1. SaveTypeOK /\ SoleInv /\ NamesInv /\ SavesAreAtomic /\ SaverAt(s, "idle")
  BY DEF SaveInv, Open
<1>2. PICK text \in Texts :
        \/ /\ tmp # 0
           /\ inode' = [inode EXCEPT ![tmp].text = 0]
           /\ UNCHANGED tmp
           /\ Begun(s, text, tmp)
        \/ /\ tmp = 0
           /\ \E i \in Free : /\ inode' = [inode EXCEPT ![i] = Blank]
                              /\ tmp' = i
                              /\ Begun(s, text, i)
  BY DEF Open
<1>3. PICK i \in Inodes :
        /\ tmp' = i /\ i # target /\ Begun(s, text, i)
        /\ inode' \in [Inodes -> InodeTypes]
        /\ inode'[i].text = 0
        /\ \A j \in Inodes \ {i} : inode'[j] = inode[j]
        /\ inode'[i].exec \in {inode[i].exec, FALSE}
  <2>1. CASE tmp # 0 /\ inode' = [inode EXCEPT ![tmp].text = 0] /\ tmp' = tmp /\ Begun(s, text, tmp)
    BY <1>1, <2>1 DEF SaveTypeOK, NamesInv, InodeTypes
  <2>2. ASSUME NEW i \in Free, inode' = [inode EXCEPT ![i] = Blank], tmp' = i, Begun(s, text, i)
        PROVE  /\ i \in Inodes /\ i # target
               /\ inode' \in [Inodes -> InodeTypes]
               /\ inode'[i].text = 0 /\ inode'[i].exec = FALSE
               /\ \A j \in Inodes \ {i} : inode'[j] = inode[j]
    <3>1. Blank \in InodeTypes /\ Blank.text = 0 /\ Blank.exec = FALSE
      BY DEF Blank, InodeTypes
    <3> QED BY <1>1, <2>2, <3>1 DEF SaveTypeOK, Free, InodeTypes
  <2> QED BY <1>2, <2>1, <2>2
<1>4. /\ saver' \in [Savers -> SaverTypes] /\ sole' \in [Savers -> BOOLEAN]
      /\ saver'[s] = [pc |-> "fill", text |-> text, fd |-> i]
      /\ \A q \in Savers \ {s} : saver'[q] = saver[q] /\ ~sole'[q]
      /\ sole'[s] = NoOtherSave(s)
      /\ last' \in Texts \cup {0, Unknown} /\ saves' \in 0..MaxSaves
      /\ last' # Unknown => last' = last /\ NoOtherSave(s)
      /\ kind' = kind /\ target' = target
  BY <1>1, <1>3, BegunFacts
<1>5. i # 0 /\ saver'[s].pc = "fill" /\ saver'[s].text = text /\ saver'[s].fd = i
  BY <1>4, SaveAssumption DEF Inodes
<1>6. SaveTypeOK'
  BY <1>1, <1>3, <1>4 DEF SaveTypeOK, InodeTypes, SaverTypes
<1>7. SoleInv'
  <2>1. ~SaverAt(s, "idle")' /\ (NoOtherSave(s) => NoOtherSave(s)')
    BY <1>4, <1>5 DEF SaverAt, NoOtherSave
  <2>2. \A q \in Savers : sole'[q] => q = s /\ NoOtherSave(s)
    BY <1>4
  <2>3. ASSUME last' # Unknown, NEW q \in Savers, ~SaverAt(q, "idle")' PROVE sole'[q]
    <3>1. NoOtherSave(s) /\ sole'[s]
      BY <1>4, <2>3
    <3>2. q = s
      BY <2>1, <2>3, <3>1 DEF NoOtherSave
    <3> QED BY <3>1, <3>2
  <2> QED BY <2>1, <2>2, <2>3 DEF SoleInv
<1>8. NamesInv'
  <2>1. tmp' # 0 => tmp' # target'
    BY <1>3, <1>4
  <2>2. kind' # "hook" => \A j \in Inodes : inode'[j].exec = FALSE
    BY <1>1, <1>3, <1>4 DEF NamesInv
  <2>3. ASSUME NEW q \in Savers, SaverAt(q, "chmod")' PROVE kind' = "hook"
    <3>1. q # s
      BY <1>5, <2>3 DEF SaverAt
    <3> QED BY <1>1, <1>4, <2>3, <3>1 DEF NamesInv, SaverAt
  <2> QED BY <2>1, <2>2, <2>3 DEF NamesInv
<1>9. SavesAreAtomic'
  BY <1>1, <1>3, <1>4 DEF SavesAreAtomic, SaveTypeOK
<1>10. \A q \in Savers : sole'[q] => Mine(q)'
  BY <1>3, <1>4, <1>5 DEF Mine, SaverAt
<1> QED BY <1>6, <1>7, <1>8, <1>9, <1>10 DEF SaveInv

(* A step inside a save: another save is alone only if this one is not     *)
(* under way.                                                              *)
LEMMA OtherSavers ==
  ASSUME SaveInv, NEW s \in Savers, ~SaverAt(s, "idle")
  PROVE  /\ \A q \in Savers \ {s} : ~sole[q]
         /\ last # Unknown => sole[s]
         /\ sole[s] => Mine(s) /\ \A q \in Savers \ {s} : SaverAt(q, "idle")
BY DEF SaveInv, SoleInv, NoOtherSave

(* Whatever a save does that is not alone, nobody is promised anything.    *)
LEMMA FillKeeps ==
  ASSUME SaveInv, NEW s \in Savers, Fill(s)
  PROVE  SaveInv'
<1> DEFINE fd == saver[s].fd
           pc == IF kind = "hook" THEN "chmod" ELSE "rename"
<1>1. SaveTypeOK /\ SoleInv /\ NamesInv /\ SavesAreAtomic /\ SaverAt(s, "fill") /\ ~SaverAt(s, "idle")
  BY DEF SaveInv, Fill, SaverAt
<1>2. PICK text \in Over(inode[fd].text, saver[s].text) :
        inode' = [inode EXCEPT ![fd].text = text]
  BY DEF Fill
<1>3. saver' = [saver EXCEPT ![s].pc = pc, ![s].fd = 0]
      /\ UNCHANGED <<kind, target, tmp, sole, last, saves>>
  BY DEF Fill
<1>4. text \in Texts \cup {0, Torn}
  BY <1>1 DEF Over, SaveTypeOK
<1>5. /\ saver' \in [Savers -> SaverTypes]
      /\ saver'[s].pc = pc /\ saver'[s].text = saver[s].text
      /\ \A q \in Savers \ {s} : saver'[q] = saver[q]
  <2>1. saver \in [Savers -> SaverTypes] /\ pc \in SaveSteps
    BY <1>1 DEF SaveTypeOK, SaverTypes, SaveSteps
  <2>2. saver' = [saver EXCEPT ![s].pc = pc, ![s].fd = 0]
    BY <1>3
  <2> HIDE DEF pc
  <2> QED BY <2>1, <2>2 DEF SaverTypes
<1>6. /\ inode' \in [Inodes -> InodeTypes]
      /\ \A i \in Inodes : inode'[i].exec = inode[i].exec
      /\ \A i \in Inodes : i # fd => inode'[i] = inode[i]
      /\ fd \in Inodes => inode'[fd].text = text
  BY <1>1, <1>2, <1>4 DEF SaveTypeOK, InodeTypes
<1>7. SaveTypeOK'
  BY <1>1, <1>3, <1>5, <1>6 DEF SaveTypeOK, SaverTypes, InodeTypes
<1>8. SoleInv'
  BY <1>1, <1>3, <1>5 DEF SoleInv, SaverAt, NoOtherSave
<1>9. NamesInv'
  BY <1>1, <1>3, <1>5, <1>6 DEF NamesInv, SaverAt
<1>10. ASSUME sole[s]
       PROVE  Mine(s)' /\ fd # target
  <2>1. /\ saver[s].text \in Texts /\ tmp # 0 /\ fd = tmp /\ inode[tmp].text = 0
    BY <1>1, <1>10, OtherSavers DEF Mine
  <2>2. text = saver[s].text
    BY <2>1, SaveAssumption DEF Over, Texts
  <2>3. tmp \in Inodes
    BY <1>1, <2>1 DEF SaveTypeOK
  <2>4. inode'[tmp].text = saver[s].text
    BY <1>6, <2>1, <2>2, <2>3
  <2>5. pc = "rename" => kind # "hook" /\ inode'[tmp].exec = FALSE
    BY <1>1, <1>6, <2>3 DEF NamesInv
  <2>6. tmp # target
    BY <1>1, <2>1 DEF NamesInv
  <2>7. pc = "rename" => inode'[tmp].exec = (kind = "hook")
    BY <2>5
  <2>8. pc # "fill" /\ saver'[s].pc = pc /\ saver'[s].text = saver[s].text
    BY <1>5
  <2> HIDE DEF pc
  <2>9. Mine(s)'
    BY <1>3, <2>1, <2>4, <2>7, <2>8 DEF Mine, SaverAt
  <2> QED BY <2>1, <2>6, <2>9
<1>11. SavesAreAtomic'
  <2> SUFFICES ASSUME last' # Unknown PROVE SavesAreAtomic'
    BY DEF SavesAreAtomic
  <2>1. last # Unknown /\ fd # target
    BY <1>1, <1>3, <1>10, OtherSavers
  <2>2. target # 0 => inode'[target] = inode[target]
    BY <1>1, <1>6, <2>1 DEF SaveTypeOK
  <2> QED BY <1>1, <1>3, <2>2 DEF SavesAreAtomic
<1>12. \A q \in Savers : sole'[q] => Mine(q)'
  BY <1>1, <1>3, <1>10, OtherSavers
<1> QED BY <1>7, <1>8, <1>9, <1>11, <1>12 DEF SaveInv

(* The temporary hook is made executable.                                   *)
LEMMA ChmodKeeps ==
  ASSUME SaveInv, NEW s \in Savers, Chmod(s)
  PROVE  SaveInv'
<1>1. SaveTypeOK /\ SoleInv /\ NamesInv /\ SavesAreAtomic /\ SaverAt(s, "chmod") /\ ~SaverAt(s, "idle")
  BY DEF SaveInv, Chmod, SaverAt
<1>2. tmp # 0 /\ inode' = [inode EXCEPT ![tmp].exec = TRUE]
      /\ saver' = [saver EXCEPT ![s].pc = "rename"]
      /\ UNCHANGED <<kind, target, tmp, sole, last, saves>>
  BY DEF Chmod
<1>3. tmp \in Inodes /\ tmp # target /\ kind = "hook"
  BY <1>1, <1>2 DEF SaveTypeOK, NamesInv
<1>4. /\ saver' \in [Savers -> SaverTypes]
      /\ saver'[s].pc = "rename" /\ saver'[s].text = saver[s].text
      /\ \A q \in Savers \ {s} : saver'[q] = saver[q]
  BY <1>1, <1>2 DEF SaveTypeOK, SaverTypes, SaveSteps
<1>5. /\ inode' \in [Inodes -> InodeTypes]
      /\ inode'[tmp].text = inode[tmp].text /\ inode'[tmp].exec = TRUE
      /\ \A i \in Inodes : i # tmp => inode'[i] = inode[i]
  BY <1>1, <1>2, <1>3 DEF SaveTypeOK, InodeTypes
<1>6. SaveTypeOK'
  BY <1>1, <1>2, <1>4, <1>5 DEF SaveTypeOK, SaverTypes, InodeTypes
<1>7. SoleInv'
  BY <1>1, <1>2, <1>4 DEF SoleInv, SaverAt, NoOtherSave
<1>8. NamesInv'
  BY <1>1, <1>2, <1>3, <1>4 DEF NamesInv, SaverAt
<1>9. SavesAreAtomic'
  BY <1>1, <1>2, <1>3, <1>5 DEF SavesAreAtomic, SaveTypeOK
<1>10. ASSUME sole[s] PROVE Mine(s)'
  <2>1. saver[s].text \in Texts /\ inode[tmp].text = saver[s].text
    BY <1>1, <1>10, OtherSavers DEF Mine
  <2>2. saver'[s].pc = "rename" /\ saver'[s].text = saver[s].text /\ tmp' = tmp /\ kind' = kind
    BY <1>2, <1>4
  <2> QED BY <1>2, <1>3, <1>5, <2>1, <2>2 DEF Mine, SaverAt
<1>11. \A q \in Savers : sole'[q] => Mine(q)'
  BY <1>1, <1>2, <1>10, OtherSavers
<1> QED BY <1>6, <1>7, <1>8, <1>9, <1>11 DEF SaveInv

(* A save that returns, with or without an error.                          *)
LEMMA ReturnFacts ==
  ASSUME SaveInv, NEW s \in Savers, ~SaverAt(s, "idle"), Return(s)
  PROVE  /\ saver' \in [Savers -> SaverTypes] /\ sole' \in [Savers -> BOOLEAN]
         /\ SaverAt(s, "idle")' /\ \A q \in Savers \ {s} : saver'[q] = saver[q]
         /\ \A q \in Savers : ~sole'[q]
         /\ sole[s] => \A q \in Savers : SaverAt(q, "idle")'
<1>1. SaveTypeOK
  BY DEF SaveInv
<1>2. NoSave \in SaverTypes /\ NoSave.pc = "idle"
  BY DEF NoSave, SaverTypes, SaveSteps
<1>3. saver' = [saver EXCEPT ![s] = NoSave] /\ sole' = [sole EXCEPT ![s] = FALSE]
  BY DEF Return
<1>4. /\ saver' \in [Savers -> SaverTypes] /\ sole' \in [Savers -> BOOLEAN]
      /\ saver'[s] = NoSave /\ ~sole'[s]
      /\ \A q \in Savers \ {s} : saver'[q] = saver[q] /\ sole'[q] = sole[q]
  BY <1>1, <1>2, <1>3 DEF SaveTypeOK, SaverTypes
<1>5. \A q \in Savers : ~sole'[q]
  BY <1>4, OtherSavers
<1>6. SaverAt(s, "idle")'
  BY <1>2, <1>4 DEF SaverAt
<1>7. sole[s] => \A q \in Savers : SaverAt(q, "idle")'
  BY <1>4, <1>6, OtherSavers DEF SaverAt
<1> QED BY <1>4, <1>5, <1>6, <1>7

(* A save cut short leaves a torn temporary file.                           *)
LEMMA CutShortKeeps ==
  ASSUME SaveInv, NEW s \in Savers, CutShort(s)
  PROVE  SaveInv'
<1> DEFINE fd == saver[s].fd
<1>1. SaveTypeOK /\ SoleInv /\ NamesInv /\ SavesAreAtomic /\ SaverAt(s, "fill") /\ ~SaverAt(s, "idle")
  BY DEF SaveInv, CutShort, SaverAt
<1>2. inode' = [inode EXCEPT ![fd].text = Torn] /\ Return(s)
      /\ UNCHANGED <<kind, target, tmp, last, saves>>
  BY DEF CutShort
<1>3. /\ saver' \in [Savers -> SaverTypes] /\ sole' \in [Savers -> BOOLEAN]
      /\ SaverAt(s, "idle")' /\ \A q \in Savers \ {s} : saver'[q] = saver[q]
      /\ \A q \in Savers : ~sole'[q]
      /\ sole[s] => \A q \in Savers : SaverAt(q, "idle")'
  BY <1>1, <1>2, ReturnFacts
<1>4. /\ inode' \in [Inodes -> InodeTypes]
      /\ \A i \in Inodes : inode'[i].exec = inode[i].exec
      /\ \A i \in Inodes : i # fd => inode'[i] = inode[i]
  BY <1>1, <1>2 DEF SaveTypeOK, InodeTypes
<1>5. SaveTypeOK'
  BY <1>1, <1>2, <1>3, <1>4 DEF SaveTypeOK, SaverTypes, InodeTypes
<1>6. SoleInv'
  BY <1>1, <1>2, <1>3, OtherSavers DEF SoleInv
<1>7. NamesInv'
  BY <1>1, <1>2, <1>3, <1>4 DEF NamesInv, SaverAt
<1>8. SavesAreAtomic'
  <2> SUFFICES ASSUME last' # Unknown PROVE SavesAreAtomic'
    BY DEF SavesAreAtomic
  <2>1. tmp # 0 /\ fd = tmp /\ tmp # target
    BY <1>1, <1>2, OtherSavers DEF Mine, NamesInv
  <2>2. target # 0 => inode'[target] = inode[target]
    BY <1>1, <1>4, <2>1 DEF SaveTypeOK
  <2> QED BY <1>1, <1>2, <2>2 DEF SavesAreAtomic
<1> QED BY <1>3, <1>5, <1>6, <1>7, <1>8 DEF SaveInv

(* The temporary file becomes the file.                                     *)
LEMMA RenameKeeps ==
  ASSUME SaveInv, NEW s \in Savers, Rename(s)
  PROVE  SaveInv'
<1>1. SaveTypeOK /\ SoleInv /\ NamesInv /\ SaverAt(s, "rename") /\ ~SaverAt(s, "idle")
  BY DEF SaveInv, Rename, SaverAt
<1>2. tmp # 0 /\ target' = tmp /\ tmp' = 0 /\ Return(s)
      /\ last' = (IF sole[s] THEN saver[s].text ELSE Unknown)
      /\ UNCHANGED <<kind, inode, saves>>
  BY DEF Rename
<1>3. /\ saver' \in [Savers -> SaverTypes] /\ sole' \in [Savers -> BOOLEAN]
      /\ SaverAt(s, "idle")' /\ \A q \in Savers \ {s} : saver'[q] = saver[q]
      /\ \A q \in Savers : ~sole'[q]
      /\ sole[s] => \A q \in Savers : SaverAt(q, "idle")'
  BY <1>1, <1>2, ReturnFacts
<1>4. ASSUME sole[s]
      PROVE  last' \in Texts /\ inode[tmp].text = last' /\ inode[tmp].exec = (kind = "hook")
  BY <1>1, <1>2, <1>4, OtherSavers DEF Mine
<1>5. tmp \in Inodes /\ last' \in Texts \cup {0, Unknown}
  BY <1>1, <1>2, <1>4 DEF SaveTypeOK
<1>6. SaveTypeOK'
  BY <1>1, <1>2, <1>3, <1>5 DEF SaveTypeOK, SaverTypes, InodeTypes
<1>7. SoleInv'
  BY <1>2, <1>3 DEF SoleInv
<1>8. NamesInv'
  BY <1>1, <1>2, <1>3 DEF NamesInv, SaverAt
<1>9. SavesAreAtomic'
  <2> SUFFICES ASSUME last' # Unknown
               PROVE  /\ last' # 0 /\ target' # 0
                      /\ inode'[target'] = [text |-> last', exec |-> kind' = "hook"]
    BY DEF SavesAreAtomic
  <2>1. sole[s]
    BY <1>2
  <2>2. inode[tmp] \in InodeTypes
    BY <1>1, <1>5 DEF SaveTypeOK, InodeTypes
  <2>3. inode[tmp].text = last' /\ inode[tmp].exec = (kind = "hook") /\ last' \in Texts
    BY <1>4, <2>1
  <2>4. inode[tmp] = [text |-> last', exec |-> kind = "hook"]
    BY <2>2, <2>3 DEF InodeTypes
  <2> QED BY <1>2, <2>3, <2>4, SaveAssumption DEF Texts
<1> QED BY <1>3, <1>6, <1>7, <1>8, <1>9 DEF SaveInv

(* An error or a kill.                                                      *)
LEMMA QuitKeeps ==
  ASSUME SaveInv, NEW s \in Savers, Quit(s)
  PROVE  SaveInv'
<1>1. SaveTypeOK /\ SoleInv /\ NamesInv /\ SavesAreAtomic /\ ~SaverAt(s, "idle")
  BY DEF SaveInv, Quit
<1>2. tmp' \in {tmp, 0} /\ Return(s) /\ UNCHANGED <<kind, inode, target, last, saves>>
  BY DEF Quit
<1>3. /\ saver' \in [Savers -> SaverTypes] /\ sole' \in [Savers -> BOOLEAN]
      /\ SaverAt(s, "idle")' /\ \A q \in Savers \ {s} : saver'[q] = saver[q]
      /\ \A q \in Savers : ~sole'[q]
      /\ sole[s] => \A q \in Savers : SaverAt(q, "idle")'
  BY <1>1, <1>2, ReturnFacts
<1>4. SaveTypeOK'
  BY <1>1, <1>2, <1>3 DEF SaveTypeOK, SaverTypes, InodeTypes
<1>5. SoleInv'
  BY <1>1, <1>2, <1>3, OtherSavers DEF SoleInv
<1>6. NamesInv'
  BY <1>1, <1>2, <1>3 DEF NamesInv, SaverAt
<1>7. SavesAreAtomic'
  BY <1>1, <1>2 DEF SavesAreAtomic
<1> QED BY <1>3, <1>4, <1>5, <1>6, <1>7 DEF SaveInv

(* A hook that is left with nothing is removed.                             *)
LEMMA RemoveKeeps ==
  ASSUME SaveInv, NEW s \in Savers, Remove(s)
  PROVE  SaveInv'
<1>1. SaveTypeOK /\ SoleInv /\ NamesInv /\ SaverAt(s, "idle")
  BY DEF SaveInv, Remove
<1>2. /\ saves < MaxSaves /\ saves' = saves + 1 /\ target' = 0
      /\ last' = (IF NoOtherSave(s) THEN 0 ELSE Unknown)
      /\ sole' = [q \in Savers |-> FALSE]
      /\ UNCHANGED <<kind, inode, tmp, saver>>
  BY DEF Remove
<1>3. saves' \in 0..MaxSaves
  BY <1>1, <1>2, SaveAssumption DEF SaveTypeOK
<1>4. SaveTypeOK'
  BY <1>1, <1>2, <1>3 DEF SaveTypeOK
<1>5. SoleInv'
  BY <1>1, <1>2 DEF SoleInv, SaverAt, NoOtherSave
<1>6. NamesInv'
  BY <1>1, <1>2 DEF NamesInv, SaverAt
<1>7. SavesAreAtomic'
  BY <1>2 DEF SavesAreAtomic
<1> QED BY <1>2, <1>4, <1>5, <1>6, <1>7 DEF SaveInv

(* Every step of a save.                                                    *)
LEMMA StepSaveInv == SaveInv /\ [SaveNext]_saveVars => SaveInv'
<1> SUFFICES ASSUME SaveInv, [SaveNext]_saveVars PROVE SaveInv'
  OBVIOUS
<1>1. CASE SaveNext
  BY <1>1, OpenKeeps, FillKeeps, CutShortKeeps, ChmodKeeps, RenameKeeps, QuitKeeps, RemoveKeeps DEF SaveNext
<1>2. CASE UNCHANGED saveVars
  BY <1>2 DEF saveVars, SaveInv, SaveTypeOK, SoleInv, NamesInv, SavesAreAtomic, Mine, SaverAt, NoOtherSave
<1> QED BY <1>1, <1>2
------------------------------------------------------------------------------
(* The inductive invariant of saves through one temporary name.            *)
THEOREM SaveInvariance == SaveSpec => []SaveInv
BY InitSaveInv, StepSaveInv, PTL DEF SaveSpec

(* A save that ran alone has replaced the file with its text, whatever was *)
(* killed before or is killed after it (the `.tmp' and rename of state.go, *)
(* mode.go, githooks.go, instructions.go, copilothooks and engram).        *)
THEOREM SavesAreAtomicAlways == SaveSpec => []SavesAreAtomic
<1>1. SaveInv => SavesAreAtomic
  BY DEF SaveInv
<1> QED BY <1>1, SaveInvariance, PTL
==============================================================================
