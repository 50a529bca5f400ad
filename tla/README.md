# A verification project for capiko-ai

TLA+ modules that model what capiko-ai does to files it shares with other
processes and with the user: the review-driven delivery, the installation and
restoration of its catalog, the settings it wires into configuration files, the
guardian's hooks and rules, the SDD status engine and the self-upgrade; TLC
configurations that check them on small instances, and proofs checked by TLAPS
that hold for every instance.  Paths below are relative to the repository.

capiko-ai is a command-line program.  Every verb is a short-lived process:
several terminals, several worktrees of one clone, git hooks and the terminal UI
run it at the same time over the same files.  Nothing but files, one flock and
git connects the processes, so the hard behaviour is in what they read, when
they write, and where they die.

## The system

| Component | Source | State it keeps | Operations | Modelled in |
|---|---|---|---|---|
| Review lifecycle | `internal/rdd/lifecycle.go` | none (a table) | `ValidateTransition`, `IsTerminal` | `Lifecycle` |
| Review authority store | `internal/reviewstore/store.go`, `lock.go` | `review-state.json`, `review-receipt.json`, their `.tmp` files, the flock on `.lock` | `LoadState`, `SaveState`, `LoadReceipt`, `WriteReceipt` | `ReviewStore`, `ReviewAuthority` |
| Review verbs | `cmd/capiko-ai/review.go` | the record in the memory of a process | `review start`, `capture-result`, `finalize`, `correct`, `mode` | `Review`, `ReviewRecord`, `ReviewPromise` |
| Candidate, classifier, comparison | `internal/rdd`, `internal/reviewstore/identity.go`, `ancestry.go`, `gitcmd.go` | none (pure, over git's trees) | `BuildIdentity`, `BuildIdentityFromCommit`, `Classify`, `SelectLenses`, `Compare` | `Candidate` |
| Kill switch | `internal/rdd/killswitch.go`, `internal/reviewstore/mode.go` | one mode record per clone, one global | `ResolveMode`, `review mode enable/disable`, `SaveModeRecord` | `Review`, `Delivery`, `SaveFile` |
| Delivery gates | `internal/rddgate`, `review validate`, `review gate` | none of their own | the pre-commit and the pre-push gate, install, uninstall | `Delivery` |
| Git hook blocks | `internal/githooks`, `internal/instructions` | hook and instruction files with blocks of several owners | `WriteBlock`, `RemoveBlock`, `Inject`, `Write` | `Settings`, `SaveFile`, `Delivery` |
| Guardian angel (CGA) | `internal/cga`, `internal/cgastore`, `cmd/capiko-ai/cga.go`, `internal/tui/codereview.go` | the hook scripts, `cga-findings.jsonl`, `learned-rules.json` | review of a diff, log, rotation, patch, the learn loop | `Guardian`, `Settings` |
| State store | `internal/state/state.go` | `state.json` | load, record, save | `Settings`, `SaveFile`, `Installer` |
| Settings and their wiring | `internal/tui/*.go`, `internal/engram`, `internal/headroom`, `internal/odd`, `internal/trigger`, `internal/copilothooks`, `cmd/capiko-ai/doctor.go` | sections of `copilot-instructions.md`, `mcp-config.json`, `mcp.json`, Copilot hook files, git hooks | apply, disable, switch workflow, sync, repair, purge | `Settings` |
| Install, sync, reconcile, uninstall | `internal/reconcile`, `internal/tui/sync.go`, `internal/drift`, `cmd/capiko-ai/install.go` and others | skills, agents and instruction files on disk | plan, backup, write, record, purge | `Installer`, `Settings` |
| Backup | `internal/backup/backup.go` | a directory per backup with a manifest | create, list, restore, delete | `Backup`, `Installer` |
| SDD status engine | `internal/sddstatus` | none: it reads `openspec/changes` and Engram | `Resolve` | `SddStatus` |
| Release and self-upgrade | `internal/release`, `internal/tui/upgrade.go`, `update.go`, `updateprompt.go`, `cmd/capiko-ai/main.go` | the binary, the restart flag in the environment | check, download, verify, replace, restart, sync | `Upgrade` |
| Terminal UI | `internal/tui` | a screen and the goroutines it started | keys, messages | `Settings`, `Upgrade`, `Installer` (partly) |
| Doctor, diagnostics | `internal/doctor`, `internal/sysinfo`, `internal/sessionreport` and others | append-only logs | checks, reports, `--repair` | `Settings` (drift and repair only) |
| Catalog, personas, templates | `internal/catalog`, `internal/persona`, `internal/sdd` and others | none (embedded texts) | rendering | data of `Settings` |

How they interact.  A review verb reads the kill switch, asks git for the
candidate, loads the record without a lock, changes it in memory and saves it
with the flock: the store is shared memory with a version compare.  A verb that
brings the review to its end writes the receipt, once.  The gates run inside
`git commit` and `git push`, read the kill switch and the receipt, build the
candidate from the index or from a commit, and compare.  The store, the receipt
and the mode record lie in the common git directory and are shared by all
worktrees.  The installing commands share three things on disk: the catalog's
files under `~/.copilot`, the record of them in `state.json`, and the backups;
none of them is changed together with another, so every failure leaves them apart.
Every setting is wired the same way: a section of some file is rewritten, then a
field of `state.json`; both files have other sections, of other settings and of
the user, and are read, changed and replaced as a whole.  Hooks put capiko's
scripts into git's and Copilot's own processes.  The terminal UI runs commands on
goroutines, and their results come back to whatever screen is active by then.

What is hard, and the properties that make each part right:

* **Store.**  Two processes save what they derived from one version; a process
  dies between truncating the temporary file and the rename; the lock is held by
  somebody who failed.  It is right when no file is ever torn, no update is
  lost, the freeze is respected, the receipt is written once, and the lock is
  always given up; in one sentence, when it implements an atomic versioned
  record (`ReviewAuthority`).
* **Verbs.**  The record is read long before it is saved, `finalize` and
  `correct` save several times on the way, and the mode can change in between.
  They are right when every verdict on disk is earned, one process issues the
  receipt, and all processes together go through one sequential review
  (`ReviewPromise`).
* **Gates.**  A digest may be missing, a push names several refs, the two gates
  look at different things, the index moves under the hook.  They are right when
  what they let through shows the same files with the same hunks as the reviewed
  candidate, and when they agree.
* **Installer.**  A command plans from the record or from what the TUI saw, copies
  what it will touch, changes item after item, and records last; it may fail or
  die after any of these, and the user edits files, upgrades and restores in
  between.  It is right when what a command changed is in its backup, a restore
  that succeeds brings it back, nothing is recorded that was not written, and
  nothing is removed that was not installed.
* **Settings.**  A command reads a file, changes its own section and writes the
  whole file back, then records the choice; another command, a crash or the user
  comes between any two steps.  It is right when a lone command records only what it
  has wired (Engram's guidance and its entry in the editor are recorded first), when a
  sync that runs alone afterwards makes files and settings agree again without
  changing a choice (but for the team's hooks and the editor's entry, which no sync
  re-applies), and when a repair leaves nothing to repair.
* **Files.**  All savers use one temporary name and no lock.  It is right when a
  save that ran alone is whole and stays, whatever crashes and overlaps were before.
* **Guardian.**  Two parsers read the verdict; log and rules are shared by
  worktrees and by runs of `learn` that hold them across prompts.  It is right when
  the strict hook lets through no answer that does not say `PASS`, rules are earned, and a
  recent review is lost only where commits overlap or the disk is full.
* **Status engine.**  It reads one file after the other while agents write them.
  It is right when, of files nobody touched meanwhile, it names the first phase
  whose result is missing, and when following it brings a change to the archive.
* **Upgrade.**  A goroutine replaces the running binary while the user leaves the
  screen; releases come and go; a flag in the environment asks the next process for
  a sync.  It is right when a binary is only replaced by a whole and, alone, no older
  one, and a process syncs on its own only when an "Upgrade + sync" screen restarted it
  (which may be for the late result of a plain upgrade, see Divergences).

## The modules

```
Lifecycle      <- ReviewStore   (implements ReviewAuthority)  <- MCReviewStore, ReviewStore_proofs
Lifecycle, Candidate <- ReviewRecord <- ReviewPromise
                        ReviewRecord <- Review (implements ReviewPromise) <- MCReview, Review_proofs
Candidate      <- Delivery                                    <- MCDelivery, Delivery_proofs
Backup         <- Installer                                   <- MCInstaller, Installer_proofs
Settings                                                      <- MCSettings
Settings, SaveFile                                            <- Settings_proofs
Guardian                                                      <- MCGuardian, Guardian_proofs
SddStatus                                                     <- SddStatus_proofs
Upgrade                                                       <- Upgrade_proofs
```

**`Lifecycle`** is the transition table with `ValidateTransition`.

**`ReviewStore`** has the files, the flock and, per process, where it is (`pc`),
the record it read or committed last (`base`) and the one it is about to write
(`new`).  `LoadState` reads without the lock.  `CallSaveState` begins a save of
any record that carries the version read: the caller is arbitrary here, so what
is shown holds whatever the verbs do.  Then come the steps of the code, each one
an action since a process can be killed or overtaken after it: `Acquire`
(blocks), `CheckState` (reads the file again, compares versions, checks the
freeze), `Truncate` and `Fill` (the two effects of `os.WriteFile`), `RenameState`,
`Unlock`.  `IOError` is any system call that fails under the lock, `Exit` a
process that ends or is killed: the kernel then drops its flock and the
temporary file stays as it was left.  `WriteReceipt` shares the steps.

**`ReviewAuthority`** is what callers rely on: a record replaced only by one
that carries the next version and respects the freeze, a receipt written once.
`record` and `receipt` have the same names in both modules, so the mapping is the
identity.

**`Candidate`** holds the pure functions.  A tree is a function from paths to
contents; hashes are collision free, so a tree hash is the tree and a subject hash
is the identity.  What `git diff` shows is a constant: `Hunks(a, b)` are the hunks from one
content to another as `git patch-id` digests them, without blanks and line numbers,
and `Renames(a, b)` the moves it detects between two trees.  `PatchId` is built from
these alone, so two changes of different texts may have one patch-id, as in git.
`Lookups` are the two git commands whose failure the code takes for an answer:
`RepositoryID` then is the directory's name, and `BuildIdentityFromCommit` compares
with the empty tree.  `GateEvidence` takes the set of digests whose git command
failed.  `Compare` and `AcceptedRelations` are the gates' policy.

**`ReviewRecord`** says what each verb makes of the record it has read, apart
from files and processes.  Of a lens result only the paths its findings name
are kept: nothing else of it is ever read by the code.  A record in
`unreviewed` is a possible initial file (`Legacy`): `LoadState` gives a record
without a state that value.

**`Review`** runs the verbs by processes that interleave.  A verb is split where
it reads or writes something others can change: `StartMode` (the kill switch),
`StartBuild` (git), `StartLoad` (the record), then `Save`; `CaptureLoad`,
`CaptureResult`; `FinalizeLoad`; `CorrectLoad`, `CorrectMode`, `CorrectBuild`; `Advance`
is one `advanceState`, and `WriteReceipt` the end.  A save is one step here:
that is what the store's theorem `ImplementsAuthorityAlways` allows.  `Decline`
is every way a verb ends before it has something to save, `Refused` a save that
the store refuses, and `Abort` a crash or an error on the way through the saves.

**`ReviewPromise`** is one sequential review without processes: begin, capture,
proceed, correct, issue.  `Review` maps its record to it with the version left
out.

**`Delivery`** has the working copy, the branch, the receipt, the clone's mode,
the installed hooks, and the git command that is under way with the step its
gate is at.  `Commits`, `Amends`, `Pushes` and `Stage` are git and the user;
`GateMode`, `GateReceipt`, `GateCompare` are `reviewValidate`.  git releases the
index while its hooks run and reads it again after them, hence `Stage` is always
possible and leaves the command "overtaken".  `GateCompare` builds and compares each
`Target`, the index or a pushed tip, and each of the git commands this takes may fail.
`blind` are the tips whose parent was not found; `vetted`, the tips the gate let be
pushed apart from those, is a history variable.

**`Backup`** says what a backup holds: the items it lists, which of them existed,
and the copies, a file's under the base name of its path (`Label`).
`WithSnapshot` is one round of `snapshotSkills` or `snapshotFiles`, `Saved` what
`Restore` makes of an item, `Cuts` what an interrupted `Delete` leaves.  Two
fields are history: `before`, the disk when the backup was begun, and `whole`.

**`Installer`** runs one command at a time.  `Install`, `Uninstall`, `Select`, `Sync`,
`Instructions`, `Restore` and `Purge` compute the plan of the function of that name;
then all share the steps: `Snapshot` copies one more item, `Publish` writes the
manifest, `Touch` and `Complete` are the begin and the end of the work on one item
(a file is truncated before it is written, a skill is several files), `Skip` leaves
what needs no work, `Refuse` is `validateFilePath`, and `RecordSkills`, `RecordAgents`,
`RecordScoped` are the saves of the state.  `Fail` is any system call that fails, and
what each command then still does; `End` returns, or kills the process wherever
it is.  `Reapply` is the part of `RunSync` that runs `installInstructions` again.
Content is the release that wrote it, a text of the user, `Torn` or `Absent`.
`wrote` is a history variable: the releases of an item that were written to the end.

**`Settings`** has one variable for the disk: a function from files to functions
from keys to contents.  A key is a block of `copilot-instructions.md`, a server of
`mcp-config.json` or of an `mcp.json`, a Copilot hook file, a block of a git hook of
a repository, or a field of `state.json`.  `Together` are the sections of one shared
file; in a repository the block of the review gate (`Gate`) shares pre-commit with
CGA and pre-push with the team's memory.  A command is a program, a sequence of steps
that `Put`, `Drop` and `Record` build in the order the code has them
(`ApplyEngram`, `ApplyODD`, `SyncPlan`, `PurgePlan`, and so on, each named for its
function).  A process runs its program by `Read` and `Write`: the file is read into
`buf`, and later written back as a whole with one section changed, so what others
wrote in between is lost, as in the code (git hooks included; a section
that says so already is left alone, but in `state.json` and in hooks, `LeftAlone`).  `LoadState` is a load whose result
decides the rest of the program (`Loaded`, or `Unloaded` when the load fails and the
code goes on with what it has).  `Fail`, `Crash` and `Warn` are errors and kills;
`Finish` the end.  `routed` is the routing of the agent catalog that `main` computes
once at launch.  `alone`, `before`, `synced` and `calm` are history.

**`SaveFile`** is below `Settings`, where a `Write` replaces the file in one step: it
shows of which saves that is true.  It has the inodes behind `<path>` and `<path>.tmp`.  `Open` truncates or
creates the inode the temporary name has, `Fill` writes at its own descriptor,
`CutShort` writes a part, `Chmod` is the hook's, `Rename` moves whatever the temporary
name has by then, `Remove` removes a hook file, and `Quit` is an error or a kill.  A
text is its length, so that a write into an inode another saver has filled gives
a mixture (`Over`).  `kind` tells files that are loaded before a save from those
that are not, and hooks from both.

**`Guardian`** runs the pre-commit and post-commit scripts in each worktree, step by
step where the shell calls another program on the log: `Review` (verdict and append),
`Rotate`, `MoveLog`, `Decide` (git goes on or not), `ReadLast`, `Patch`, `Replace`.
Every one can be killed or can fail: `LogFails` is a failure that leaves the log alone,
`AppendFails` and `PatchFails` are writes that a full disk cuts short, which leave a
torn line (`Cut`, `Added`) or a truncated temporary file that is moved over the log.  `learn` reads the log, loads the rules, holds
both while it asks (`Approve`, `Reject`), trims to the cap and writes the rules in
place (`Truncate`, `Fill`), hence `Torn`.  An answer has a form (a clean object, one within prose, cut off, or with
a mistyped field), a verdict and perhaps another one elsewhere in the text.
`ParseVerdict` is what Go makes of it, `ScriptVerdict` what jq and the fallback `Grep` do.

**`SddStatus`** has the folder of each change as what the engine can see of it: the
state of six artifacts, the checkboxes of `tasks.md`, and whether the report is
clearly passing.  `Ask` lists and picks a change, `ReadArtifacts`, `ReadTasks` and
`ReadReport` read one part each, and the last one answers; `Export` is the fallback to
Engram.  `ResolveDependencies` and `ResolveNextRecommended` are the functions of the
code; `FirstGap` is the reference they are compared with.  `Perform` is an agent that
does the phase it was told, `Edit` and `Share` are everybody else.

**`Upgrade`** has the places that may hold a binary, the terminals with their screen
and flags, and the goroutines of each.  `CheckLatest`, `Detected` and `Deliver` are
messages, which go to the screen active by then; `Confirm` starts a goroutine,
`Download`, `ReplaceExecutable`, `Child` and `RunSync` are its steps; `Restart` re-executes
what PATH finds.  `Assets` are whole builds and cut ones; checksums and signatures
are compared with those of one build.  `lone` and `owed` are history.

`MC...` modules give the constants.  Operators named `Mut...` are what a
plausible bug would make of the definition next to them; no specification uses
them, they show that each property would notice.

## The runs

| Run | Question | Bounds |
|---|---|---|
| `ReviewStore` | Are the files whole, no update lost, the flock always given up, and is the protocol an atomic record? | 2 processes, versions to 2, 2 frozen values, 2 outcomes |
| `Review_safety` | Is every verdict earned, the receipt true, and is it all one sequential review? | 2 processes, 2 paths, 2 lenses, 4 working copies of 2 tiers |
| `Review_liveness` | Does an undisturbed review ever rest half-way or without a receipt? | as safety |
| `Delivery_safety` | Is what a gate let through the reviewed change, and do the gates agree? | 2 paths, files of two parts (6 contents and none), 3 approvals, one recorded when the origin lookup had failed, 3 stageable trees, 2 commits |
| `Installer_safety` | Is what a command changed in its backup, does a restore undo it, is each record earned, does a success mean what it says, and is nothing removed that was not installed? | a skill, an agent, an instruction file outside the configuration directory, 2 releases, 2 backups, 4 moves of the user |
| `Settings_safety` | Does a lone command record only what it wired, does a sync converge and keep the choices, does a repair cure? | 2 processes (one of them a terminal UI), 2 repositories, 2 commands or edits and a last sync or repair |
| `Settings_purge` | Does purge remove every trace, as purge_headless.go says? (no) | 1 process, 2 repositories, 2 commands |
| `SaveFile` | Is a save that ran alone whole, and does it stay? | 3 savers, 2 texts, 5 saves or removals, 3 kinds of file |
| `Guardian_safety` | Are the rules earned, does strict let through only what says `PASS`, does the log keep the latest reviews, are rules retired? | 2 worktrees, 2 learners, 2 findings, threshold 2, caps 1, 2 commits and 2 learns, 2 of them at once |
| `SddStatus` | Does the engine name the first gap, and does following it end in the archive? | 1 agent, 2 changes, 2 tasks, 1 edit, Engram |
| `Upgrade` | Is the binary always whole and never older, and is the sync owed? | 1 terminal, a Cellar, a Go bin and a plain directory, 3 releases, 2 goroutines, 3 moves of the world |
| `Installer_restore` | Does every restore return to the captured state? (not with two instruction directories) | 2 instruction files with one base name, 2 texts, 2 moves |

Why the bounds are enough.  A race over the record needs two processes; a third
adds nothing the version compare can tell apart, and the proofs cover any number.
Versions 0 to 2 let a process commit, be overtaken and try again.  Tier 1
mandates one lens and tier 4 all, so two lenses distinguish the first capture
from the last; of two paths one can be in a finding's scope and the other out of it.
In `Review` three contents are absence, a text, and another text.  In `Delivery` a file
has two parts, further apart than the context of a hunk: of the first there is an old
text, a new one and the new one with other blanks, of the second an old text and one
that others have advanced to.  So a base can advance in the very file the
review changed, which git's patch-id does not see, and a file can be moved to
the critical path.  Two commits are the least with a base advance, an
amend and a push of several refs.  The commands of the installer treat each item
by itself, so one of each kind and their order tell the kinds apart; four moves
are an installation, an upgrade or an edit, a second command that fails, and a
restore, and the proofs cover any number.  Symmetry is taken over processes, in
`Settings` over repositories, and only where no liveness is checked.

In `Settings` a lost update needs two programs over one file; the third command, a
sync or a repair, starts when all are idle and meets what they left, so every
state that two commands can leave behind, overlapping, killed or edited, is a
starting point of `SyncConverges`.  Two repositories are needed because the state
records one workspace for a setting that may be wired in many.  In `SaveFile` the
third saver comes when two have already mixed their texts; a text is its length,
and a shorter one over a longer one is the case that leaves a tail.  In `Guardian`
a threshold of two and a cap of one are the least that can be missed and
exceeded, and two commits with a rotation to one entry make the log drop one; two at once are
the least that overlap, whether commits or runs of `learn`.  In
`SddStatus` one agent asks about two changes, since answers for different agents
do not depend on each other; one edit can undo, empty, reopen or remove anything,
and the proof covers any number of agents and edits.  In `Upgrade` a release can
be published, withdrawn and replaced by an older one within three moves; two
goroutines are the least for a result that comes late, and the proof covers any
number of terminals, which one run could not hold.

Deadlock is checked in every run of the review and the gates.  The installer
stops when the user has done all `MaxMoves` things, and so do `Settings`, `SaveFile`,
`Guardian` and `Upgrade` when their bound on commands, saves, commits and moves is
used up: it is not checked there.  It is checked in `SddStatus`.

**What the violations show.**

* `Installer_restore`: the copies of two files with one base name overwrite each other,
  and a restore that reports success gives one file the content of the other.
* `Settings_purge`: Copilot hooks are enabled and purged, nothing else happens, and
  the hook files of prompt capture and tool monitor stay.  So do the ODD block and
  the ODD modules: purge has a list of its own of what capiko writes, and they are
  not on it.

**Fairness.**  In `ReviewStore`, a call that has begun keeps running: weak
fairness of `Save(p)` for each process.  Nothing in `SaveState` waits but the
flock, and its holder runs too or dies.  Loads, new calls, errors and crashes
are never required.  In `Review`, `Undisturbed` has no `Abort`, and weak fairness
of `Step(p)`: liveness after a crash does not hold (see Divergences), and
no user is required to start a verb.  In `SddStatus`, an answer that has begun is given
and an agent that was told a phase performs it: weak fairness of `Engine(s)`, a program
that runs to its end and a coordinating agent whose instructions are to act on the
answer.  Strong fairness of asking about each change by its name says that no change
is forgotten; with less, two changes and one agent, the agent may for ever work on the
other one, as the code allows.  A phase need not succeed at once: `apply` may tick any
number of boxes, and edits are bounded, not fair.

## Divergences observed

Places where the code and what the repository says of it differ, or where the code does
what its reader may not expect, met while the modules were written.  The first two are the violating runs above; the others can be
read off the modules at the named action.

* backup.go:276, two files of one base name (`Installer_restore`).
* purge_headless.go:161, what purge leaves (`Settings_purge`).
* store.go:198: `SaveState` compares the version and the frozen fields only, while
  lifecycle.go:54-56 says "store validates before write".  All verbs validate
  themselves, so nothing goes wrong today (`ReviewStore!CallSaveState` is arbitrary).
* review.go:673: each `advanceState` saves, so a process that dies in `finalize` leaves
  `evidence_classified`, `fixing`, `ready_final_verification` or `final_verifying`, from
  which no verb starts; review.go:669-672 says that this does not happen (`Review!Abort`).
* review.go:605: a tier-0 candidate mandates no lens.  Only a capture freezes the
  findings, and every capture is refused, so the review stays in `reviewing`, though
  review.go:527-528 says it goes on "when every mandated lens has been captured".
* review.go:1246: the gates never read the receipt's outcome, so they admit the
  candidate of an invalidated review, of which lifecycle.go:47-49 says that it is no
  longer valid; and after a correction the receipt still names the frozen
  candidate, so they block the tree that was approved (`Delivery!GateCompare`).
* sync.go:31: the backup of a sync lists the skills and the sync overwrites the
  agents too; architecture.md:46-48 and README.md:244 promise a snapshot of every change.
* reconcile.go:230: removals come first and are recorded last; when the save fails the
  state claims what is gone, which reconcile.go:191-193 says cannot be (`Installer!Fail`).
* state.go:244, mode.go:45: "a crash mid-write can never leave a corrupt" file.
  With one saver it cannot; two savers of one file can leave a mixture of both
  texts, and a hook that is not executable (`SaveFile!Rename`).
* hook.go:90-93: hook.go:37-38 says that grep is for when jq is unavailable, but the script
  runs it on any text jq gets no verdict from.  A `PASS` anywhere in an answer that is cut
  off, or beside an object without a verdict of its own, then passes the strict hook, and
  jq itself reads objects with mistyped fields or a second verdict.  verdict.go:75-77 says of
  such answers "never a silent PASS", and `ParseVerdict` calls those that do not decode
  ambiguous.  `StrictLetsOnlyPass` states the exception (`Guardian!SaysPass`).
* hook.go:204-208: `mv` runs whether `head` and `printf` have failed or not, so when the
  disk is full the log is replaced by a part of itself; an append that stops half-way
  (hook.go:144) leaves a torn line, and the next entry is glued to it
  (`Guardian!PatchFails`, `AppendFails`).  `LogKeepsRecent` excludes both.
* hook.go:90: jq gives the verdict as it is, so a lower-case `pass` in clean JSON is
  ambiguous to the script and a pass to `ParseVerdict`; strict mode then blocks it.
* hook.go:160-165: the last entry of the log gets the hash of whatever commit comes
  next, also of one that was not reviewed, when the reviewed commit was given up.
* cgastore.go:54: the rules are written in place; a half-written file makes `learn`, the
  screen and `RunSync` fail until the user deletes it (`Guardian!DeleteStore`).
* cga.go:284: a `learn` that was overtaken while it asked saves over the other's
  rules: an approved rule is lost or a retired one comes back.
* doctor.go:483: "run sync to migrate" an SDD block; `RunSync` migrates only while ODD
  was never seeded.
* main.go:212: agents are routed by the models recorded at launch, so a change of
  models in the TUI leaves agents that doctor reports as drifted.
* sync.go:65: a `state.json` that cannot be read makes `RunSync` skip every setting and
  report success.
* state.go:49-51: the team's memory is recorded "so sync can re-apply its git-hook
  blocks"; `RunSync` never does, and it does not re-apply the editor's entry of Engram
  either.  `SyncConverges` leaves out both (`Settings!SyncPlan`, `TeamClaims`, `EditorClaims`).
* engram.go:88-101: Engram is recorded with its scope before the memory block and the
  editor's entry are wired, so a crash leaves a record that nothing supports.  A sync
  restores the block, nothing the entry.  `ClaimsFollowWrites` leaves these out (`Late`).
* githooks.go:27-49: a hook file is read, changed and written back without a lock.  In an
  overlap the block of the review gate or of the team's memory is lost, and nothing
  restores it: the gate then lets everything through.
* identity.go:117-122: whatever `rev-parse` of the parent fails for, the commit is taken
  for the first one, though the comment there speaks of a commit without a parent; a
  pushed tip is then compared with all of its tree (`Delivery`'s `blind`).  A failing lookup of
  the origin (identity.go:53-60, 104-110) names the repository after its directory: a gate
  then blocks, and a receipt recorded that way blocks later, working gates.
* codereview.go, teamsync.go: one record for a setting that may be wired in many
  repositories; disabling or re-applying it reaches the last one only.
* update.go: within the cooldown nothing is looked up, and the upgrade screen then
  says that the latest version is installed (`Upgrade!CheckLatest`, `OpenUpgrade`).
* upgrade.go (TUI): a screen that is left while it applies loses its result, or a
  screen opened later takes it for its own and restarts, with a sync if that
  screen is an "Upgrade + sync" one, though the upgrade was not (`Upgrade!Deliver`).
* review.go:429: the kill switch is read first and the record much later; a verb goes on
  under a mode that has changed meanwhile (`Review!StartMode`).
* backup.go:175, purge_headless.go:127: a user's file that an install has replaced and a restore has
  brought back is removed by a later uninstall, as it has a catalog name.
* status.go:145: an answer whose reads an agent's writes came between may name a phase
  later than the first gap; `RoutesToFirstGap` speaks of answers that were not overtaken.
* upgrade.go (release) 274-291: on Windows `Restart` does nothing, and the sync that
  was asked for is forgotten.

## The proofs

All of them are for any number of processes, any paths, contents, lenses, trees
and versions, from the named assumptions on the constants (null values are
distinct from the values they stand for; `EmptyTree` is a tree; `LensRisk` is a lens;
a receipt of `Delivery` names a tier that is not 0 and is that of its candidate, both
of which `VerdictJustified` gives for the receipts that `Review` writes).

* **`ReviewStore_proofs`**: `IInv` adds to types and `NeverTorn` that the flock is
  held by exactly the process in the critical section (`LockInv`), that a version
  names one record (`VersionIdentifies`: whoever holds a record with the version on
  disk holds the record on disk), and what a process in the middle of a save has
  established (`SaveInv`).  `NeverTorn` alone is not inductive: `RenameState`
  publishes the temporary file, which is whole only because nobody else writes it
  while the flock is held.  From `IInv` follow `NeverTornAlways`,
  `NoLostUpdateAlways` and the refinement `ImplementsAuthorityAlways`.
* **`Review_proofs`**: `IInv` says what a process holds *while its version is the
  one on disk* (`ReadsInv`).  Once another process has committed, all of it may be
  false and harmless, since the store will refuse it.  With it a save or an advance
  keeps `VerdictJustified`, one process reaches the receipt (`OneReceiptWriter`) and
  `ReceiptTellsTruth` is stable.  `ImplementsPromiseAlways` is the refinement of
  the sequential review: each save is one of its steps, every other action a stutter.
* **`Delivery_proofs`**: `GateSound` is about the comparison alone: whichever git
  digest commands fail during it, an admitted candidate is one of the repository the
  receipt names and shows the same files with the same hunks, since both patch-ids were
  there and equal.  Nothing is assumed of `Hunks`, and of `Renames` only that it
  relates changed paths.  A tip whose parent was not found was compared as another
  candidate, so nothing follows for it (`blind`).  `IInv` carries it through the steps: a gate past its receipt
  works with the one on disk, and what it admitted is still what git is about to
  record (`GateInv`); what was admitted stays admitted (`HistoryInv`).
  `GatedIsReviewedAlways` and `GatesAgreeAlways` follow.

* **`Installer_proofs`**: for any catalog, instruction directories, releases and number
  of commands, failures, kills and edits, from assumptions that only say that kinds
  of items are disjoint and that only instruction files can share a base name.
  `Undoable` is not inductive: a command may touch an item only because its backup
  lists it (`BackupInv`), and the backup is right only because nothing changed
  between the first copy and the last (`WithSnapshotIsExact`).  `RestoreInv` says what a
  restore has already brought back, `LedgerInv` that what a command has acted on was
  written to the end, from which the record of it is earned.  `SucceededAlways` needs
  another invariant, `ProgressInv`: what a command still has to do and what it is done with
  are together its whole plan, so a command that comes to its end without an error
  has recorded all of it.

* **`Settings_proofs`**: the invariant has to say where the rest of a command leads,
  whatever part of it is done.  It does so in three layers.
  A program of puts *runs* from one disk to another (`Runs`): the last put of a section
  decides what is in it, and no step records what is not wired by then.  Runs
  compose (`RunsConcat`), and what is left of a run after its first step is a run
  (`RunsFirst`).  A *piece* (`Does`) is a run that changes only what one setting is about
  (`Owner`), so what it does cannot disturb the others (`AgreementKept`, `ConvergenceKept`).
  There is a lemma for each function that applies, disables or refreshes a setting: what
  it recorded agrees with what it wired (`Agrees`), and after a sync the sections say what the
  settings say (`Converges`), but for those that no sync re-applies.  A *plan* (`Plan`) is a run and then at most one load, and
  whatever the load finds, or does not, makes another plan (`LoadedPlan`, `UnloadedPlan`).
  `IInv` then says: a process that has run alone is the only one that runs and has read
  what is on disk (`Solo`); the rest of its command is a plan from the disk of now to
  one where all agrees, or where a sync has converged (`Underway`); and when such a
  sync is over, that is what is on disk (`Rested`).  A command that overlapped another is
  not spoken of at all: it may leave anything, and `SyncConvergesAlways` holds because a
  later sync that runs alone starts a plan on every disk.  `Typed` is needed with it:
  what a process has read and is about to write back is a whole file.
  From `IInv` follow `TypeOKAlways`, `CalmAgreementAlways`, `SyncConvergesAlways`,
  `SyncKeepsChoicesAlways` and `RepairCuresAlways`; for `ClaimsFollowWritesAlways` each step is
  looked at: a lone command records only at the head of a run, and the sections in `Late`,
  which are wired after that, are the exception.  The assumptions on constants
  are that `Absent` is not a content and that no repository is one of the files
  under the home directory that have a name of their own (`NamesAssumption`).

  The module also proves `SavesAreAtomicAlways` of `SaveFile`, the atomic replacement that a
  put of `Settings` takes for granted.  `SaveInv` adds to types
  that the two names never share an inode (`NamesInv`), and what a saver that runs alone
  has made of the temporary file so far (`Mine`), whatever it found there; from it the
  theorem follows for any number of savers, texts and earlier overlaps.
* **`SddStatus_proofs`**: `RouteIsFirstGap` is about the functions alone: for every
  folder, the dependency graph and the table over it name the first gap.  `IInv` says
  that what has been read so far of a change nobody has touched is what is in its
  folder.  `RoutesToFirstGapAlways` follows for any agents, changes and edits.
* **`Guardian_proofs`**: `IInv` carries through `learn` what it holds: its candidates are
  patterns, the rules in its hands are earned, and those on disk too, as `Fill`
  replaces the file by what one run holds.  `StrictLetsOnlyPassAlways` rests on a
  case analysis of what is heard of an answer: a script verdict of `PASS`, by jq or by grep, is
  a `PASS` of the parser, or of an answer that does not decode or has another verdict.  `LearnRetiresAlways` follows
  from `Recurs`, a part of `IInv`.  `LogKeepsRecentAlways` has an invariant of its own,
  `LogInv`: until commits overlap or a write is cut short, at most one is under way, every line
  is whole, and the temporary file it is
  going to put in place of the log holds the recent reviews as the log does (`Recent`).
* **`Upgrade_proofs`**: a binary is never replaced by an older one because the offer was
  newer than the running process, and while one terminal runs alone (`LoneInv`) the
  binary in its place is the one it was started from, or was put there by its own
  goroutine.  `TermOK` says that a process that is
  launched with the flag owes the sync to the screen that restarted it.  `SyncOncePerUpgradeAlways` and `UpgradesAreSoundAlways` follow.

Only model-checked: `LockReleased`, `HalfwayIsLeft`, `EndedIsIssued` and
`FollowedToArchive` (liveness is beyond the prover), and the two violations.

## What is left out, and why

JSON, formatting, time stamps and messages: no property speaks of them.  A record
that does not parse stands for every corrupt file.  `PolicyHash` is always empty and
`ChangedPathsModesDigest` is a function of the two trees.  The evidence of a gate
always has a merge base, so `Compare`'s branch for none is not reached.
`escalated` is in the table and unreachable: the production seams always approve.
The global mode record is a constant, the file system is local, and a rename is
atomic.  HEAD and the index are read in one step in `BuildIdentity`, though the code
uses two git commands.  Which hunks and renames git finds is git's: the theorems hold
for any, the run for hunks that compare two parts of a file.  An amended commit is
compared with the commit it replaces, a tip whose parent git failed to look up with the
empty tree, and the commits below a pushed tip are not looked at: the properties of
`Delivery` say so.

`Installer` runs one command at a time and lets the user edit files only between
commands: the code has no lock that would ensure it, so two terminals, or a selector left with `q`
while it still applies, are outside of what its properties say.  `state.json` is
loaded and saved in one step.  A store or backup directory that cannot be found
(the `nil` cases) is left out.  A deletion of a backup that stops half-way leaves
one that is listed, and a restore of it may report success with a part of a skill:
`RestoreUndoes` excludes it.  `Covered` states which changes `Undoable` speaks of: not those
of `restore` and `purge`, which take no backup, nor the agents of `sync`.  Restore
refuses every file outside the configuration directory, so a backup of instruction
files in `COPILOT_CUSTOM_INSTRUCTIONS_DIRS` is never restored to the end, although
the comment at backup.go:219-221 speaks of a second allowed root.  The instruction
blocks, MCP entries and hooks that `RunSync` re-applies and purge removes are in
`Settings`, on a disk of its own: what a sync does to skills and agents and what it
does to settings touch different files, and share only the order of its steps.

`Settings` abstracts the content of a section to what decides whether it is right:
the persona, the models and efforts, on or off.  `TeamSync` and the review hook are
wired in one of two repositories, whose base names, all that the record of Engram keeps,
are taken to differ.  Backups of the files are not in it: `CreateFiles`
is in `Installer`.  A screen applies what was on disk when its key was pressed.  The
user edits only when all commands are idle and only removes sections.

`SaveFile` treats a crash of the process, not of the machine: the page cache
survives, and `fsync`, which the code never calls, is left out.

`Guardian` leaves out the prompt, the listing of the findings, the hash of the diff
and the copy of the rules in Engram.  Time of approval is the number of the run.  An answer of
several objects one after the other, which jq reads one by one, is left out.  A log
line of more than 64 KB, which `ParseLog` refuses, is not modelled.

`SddStatus` reads the six artifact files in one step, then the tasks, then the report.
The markdown patterns are abstracted to counts and a flag.  The structured
`Dependencies` of the answer are in it, its texts are not.  Engram is only read.

`Upgrade` leaves out the advisory, the notes of a release, time-outs other than as
failures, and the command `capiko-ai upgrade`, which upgrades Engram.  Signatures are
never forged.

Not modelled: the checks of `doctor` and the diagnostics (`sysinfo`, `sessionreport`,
`sessionlog`, `clilog`), which read files and print, or append to logs nothing reads
back; the skill registry and the embedded catalog, personas and templates, which are
texts and their rendering; the views, cursors and menus of the UI; flags, prompts
and output of the commands; the wrappers that start Engram, Copilot or git, but for what
their callers do with a failure.  None of these keeps state that another part reads.
