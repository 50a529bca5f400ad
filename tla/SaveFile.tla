-------------------------------- MODULE SaveFile --------------------------------
(***************************************************************************)
(* How capiko replaces a file it shares with other processes: state.json,  *)
(* the kill switch's mode records, instruction files, MCP configurations,  *)
(* Copilot and git hooks.  The new content goes to <path>.tmp, which is    *)
(* then renamed over <path>.  Nothing is locked and every saver uses the   *)
(* same temporary name, so the model has the inodes behind the two names.  *)
(***************************************************************************)
EXTENDS Naturals, FiniteSets

CONSTANTS Savers,    \* processes that save the file
          MaxText,   \* texts are 1..MaxText, a text being its length
          MaxSaves,  \* bound on saves and removals
          Torn,      \* a text that nobody has written
          Unknown    \* savers have overlapped

ASSUME SaveAssumption ==
  /\ IsFiniteSet(Savers)
  /\ MaxText \in Nat \ {0} /\ MaxSaves \in Nat
  /\ Torn \notin Nat /\ Unknown \notin Nat

VARIABLES kind,    \* which of the files it is
          inode,   \* content and permission behind each inode
          target,  \* the inode that <path> names, 0 if there is none
          tmp,     \* the inode that <path>.tmp names
          saver,   \* the step of each save, its text and its open file
          sole,   \* history: no other save has run beside it
          last,    \* history: the text of the last save that succeeded alone
          saves

saveVars == <<kind, inode, target, tmp, saver, sole, last, saves>>
------------------------------------------------------------------------------
Kinds == {"parsed",  \* state.json, MCP configurations: loaded before a save
          "plain",   \* mode records, instruction files, Copilot hooks
          "hook"}    \* git hooks: made executable, removed with the last block

Inodes == 1..(Cardinality(Savers) + 2)
Texts == 1..MaxText
Blank == [text |-> 0, exec |-> FALSE]
NoSave == [pc |-> "idle", text |-> 0, fd |-> 0]
SaveSteps == {"idle", "fill", "chmod", "rename"}

SaveInit ==
  /\ kind \in Kinds
  /\ inode = [i \in Inodes |-> Blank]
  /\ target = 0 /\ tmp = 0
  /\ saver = [s \in Savers |-> NoSave]
  /\ sole = [s \in Savers |-> FALSE]
  /\ last = 0
  /\ saves = 0

SaverAt(s, pc) == saver[s].pc = pc
NoOtherSave(s) == \A q \in Savers \ {s} : SaverAt(q, "idle")
Free == {i \in Inodes : i \notin {target, tmp} /\ \A s \in Savers : saver[s].fd # i}

(* A file that is parsed before it is saved must be absent or parse.       *)
Loads == kind # "parsed" \/ target \in {0} \cup {i \in Inodes : inode[i].text \in Texts}

Begun(s, text, i) ==
  /\ saver' = [saver EXCEPT ![s] = [pc |-> "fill", text |-> text, fd |-> i]]
  /\ sole' = [q \in Savers |-> IF q = s THEN NoOtherSave(s) ELSE FALSE]
  /\ last' = IF NoOtherSave(s) THEN last ELSE Unknown
  /\ saves < MaxSaves /\ saves' = saves + 1
  /\ UNCHANGED <<kind, target>>

(* What a killed save has left is not truncated.                           *)
MutOpen(s) ==
  /\ SaverAt(s, "idle") /\ Loads
  /\ \E text \in Texts :
       \/ tmp # 0 /\ Begun(s, text, tmp) /\ UNCHANGED <<inode, tmp>>
       \/ /\ tmp = 0
          /\ \E i \in Free : /\ \A j \in Free : i <= j
                             /\ inode' = [inode EXCEPT ![i] = Blank]
                             /\ tmp' = i
                             /\ Begun(s, text, i)

(* os.WriteFile creates the temporary file, or truncates the one there is. *)
Open(s) ==
  /\ SaverAt(s, "idle") /\ Loads
  /\ \E text \in Texts :
       \/ /\ tmp # 0
          /\ inode' = [inode EXCEPT ![tmp].text = 0]
          /\ UNCHANGED tmp
          /\ Begun(s, text, tmp)
       \/ /\ tmp = 0
          /\ \E i \in Free : /\ \A j \in Free : i <= j
                             /\ inode' = [inode EXCEPT ![i] = Blank]
                             /\ tmp' = i
                             /\ Begun(s, text, i)

(* What is in a file after it was overwritten from its beginning.          *)
Over(old, new) == IF old = Torn THEN {new, Torn} ELSE IF old <= new THEN {new} ELSE {Torn}

(* It writes to the open file, whatever that is called by now.             *)
Fill(s) ==
  /\ SaverAt(s, "fill")
  /\ \E text \in Over(inode[saver[s].fd].text, saver[s].text) :
       inode' = [inode EXCEPT ![saver[s].fd].text = text]
  /\ saver' = [saver EXCEPT ![s].pc = IF kind = "hook" THEN "chmod" ELSE "rename", ![s].fd = 0]
  /\ UNCHANGED <<kind, target, tmp, sole, last, saves>>

Return(s) ==
  /\ saver' = [saver EXCEPT ![s] = NoSave]
  /\ sole' = [sole EXCEPT ![s] = FALSE]

(* The disk is full, or the process is killed in the middle.               *)
CutShort(s) ==
  /\ SaverAt(s, "fill")
  /\ inode' = [inode EXCEPT ![saver[s].fd].text = Torn]
  /\ Return(s)
  /\ UNCHANGED <<kind, target, tmp, last, saves>>

Chmod(s) ==
  /\ SaverAt(s, "chmod") /\ tmp # 0
  /\ inode' = [inode EXCEPT ![tmp].exec = TRUE]
  /\ saver' = [saver EXCEPT ![s].pc = "rename"]
  /\ UNCHANGED <<kind, target, tmp, sole, last, saves>>

Rename(s) ==
  /\ SaverAt(s, "rename") /\ tmp # 0
  /\ target' = tmp
  /\ tmp' = 0
  /\ last' = IF sole[s] THEN saver[s].text ELSE Unknown
  /\ Return(s)
  /\ UNCHANGED <<kind, inode, saves>>

(* An error or a kill; a chmod that fails takes the temporary file away.   *)
Quit(s) ==
  /\ ~SaverAt(s, "idle")
  /\ tmp' \in IF SaverAt(s, "chmod") THEN {tmp, 0} ELSE {tmp}
  /\ Return(s)
  /\ UNCHANGED <<kind, inode, target, last, saves>>

(* RemoveBlock removes a hook that would be left with nothing.             *)
Remove(s) ==
  /\ kind = "hook" /\ SaverAt(s, "idle")
  /\ saves < MaxSaves /\ saves' = saves + 1
  /\ target' = 0
  /\ last' = IF NoOtherSave(s) THEN 0 ELSE Unknown
  /\ sole' = [q \in Savers |-> FALSE]
  /\ UNCHANGED <<kind, inode, tmp, saver>>

SaveNext ==
  \E s \in Savers :
    Open(s) \/ Fill(s) \/ CutShort(s) \/ Chmod(s) \/ Rename(s) \/ Quit(s) \/ Remove(s)

SaveSpec == SaveInit /\ [][SaveNext]_saveVars
------------------------------------------------------------------------------
(* Every variable has its type: a save in hand has an inode open, or none. *)
SaveTypeOK ==
  /\ kind \in Kinds
  /\ inode \in [Inodes -> [text : Texts \cup {0, Torn}, exec : BOOLEAN]]
  /\ target \in Inodes \cup {0} /\ tmp \in Inodes \cup {0}
  /\ saver \in [Savers -> [pc : SaveSteps, text : Texts \cup {0}, fd : Inodes \cup {0}]]
  /\ sole \in [Savers -> BOOLEAN]
  /\ last \in Texts \cup {0, Unknown}
  /\ saves \in 0..MaxSaves

(* "A crash mid-write can never leave a corrupt file": after a save that   *)
(* ran alone, and until savers overlap, the file is what that save wrote,  *)
(* executable if it is a hook, whatever is killed or fails then and        *)
(* whatever earlier overlaps and crashes have left under the two names.    *)
SavesAreAtomic ==
  last # Unknown =>
    IF last = 0 THEN target = 0
    ELSE target # 0 /\ inode[target] = [text |-> last, exec |-> kind = "hook"]
==============================================================================
