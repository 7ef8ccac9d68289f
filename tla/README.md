# Formal models of the Flyspeck/Candle project tooling

This directory holds TLA+ modules, TLC configurations and TLAPS proofs about the
programs of this repository that keep state across failures. The proofs of
Flyspeck themselves live in other repositories; what is here collects,
supervises and archives the evidence, and its correctness is mostly a matter of
crashes, restarts, orphaned processes and the order of system calls.

`PROJECT.json` maps every definition to the source lines it stands for.

## 1. Inventory

### 1.1 Parts of the system

| Part | Source | State | Operations |
|---|---|---|---|
| Terminal publication | `run-top100-reference-sweeps.py` 236-387, 866-893, 1161-1236 | names, bytes, modes and links in an evidence directory; what of them is synced | `publish_terminal`, `finish_link_publication`, `recover_link_alias`, `recover_attempt_publication` |
| Collection contract | same, 625-727, 1239-1313 | `collection-contract.json`, pending names with nonces | `build_contract`, `recover_contract_publication` |
| Sweep controller | same, 1045-1704 | lock file, attempt directories, `receipt.json`, `status.json` | `run`, `scan_all`, `scan_target`, `collect_target`, `write_aggregate` |
| Controlled process groups | same, 780-851 | `ACTIVE_PROCESS`, `PENDING_SIGNAL`, signal mask, the group | `run_process`, `terminate_and_wait`, `controller_signal_handler` |
| Export supervisor | `run-restartable-flyspeck-export.sh` | state directory, `run.conf`, `status.tsv`, images, logs, trace | fresh run, resume, generation loop, recovery, pruning, replay |
| Report finalizer | `finalize-top100-report.py` | staging directory, archive | `archive`, `Stager.capture`, the validators, post-flight, rename |
| Compatibility inventory | `inventory_compatibility.py`, `compare-compatibility-inventory-pins.py`, `direct-compatibility-closure.py`, `triage_compatibility.py`, `validate_compatibility_ledger.py`, `update-compatibility-inventory.sh`, `check-compatibility-ledger.sh` | seven generated files and the digests of five of them in `ledger.json` | scan, triage, delta, closure, validation |
| Needs-failure oracle | `flyspeck_needs_failure_oracle.ml` | tables of one minimized load | `run_control_flow`, with its cases beside it |
| Lock verification, sampler, summary, smoke tests | `verify-lock.sh`, `sample-flyspeck-run.sh`, `summarize-flyspeck-run.sh`, `test-*` | none, or an append-only sample file | comparisons, sampling |

### 1.2 How they interact

The sweep controller takes an `flock`, starts the collector and the validator as
process groups that inherit the lock's descriptor, and publishes one receipt per
attempt. Whatever a controller leaves is only ever read by a later controller:
`scan_all` is the recovery, the audit and the planning step at once. The export
supervisor and its producer share `status.tsv`, the trace and the image
directory, and have no channel but exit codes.

The finalizer reads some hundred files one after the other: two reports and their
transcripts, the committed execution contract and source closure, the approval
and its reference runs, the linked build, and a receipt whose digest is given on
its command line. Nothing keeps other processes from changing these files, the
heads of two Git checkouts, or the destination meanwhile; another finalizer may
work for the same destination.

The programs of the compatibility inventory share files only. The update script
scans a checkout, then triages the findings and compares them with an earlier
inventory; the closure is written by a command of its own; a person records the
digests in `ledger.json`; the check script reads all of it again, file by file.
There is no lock, and every output is truncated before it is written.

### 1.3 What is hard

* Crashes between system calls, and power losses that keep any subset of the
  unsynced names and attributes (publication, contract, directories).
* Orphans: a SIGKILL of the controller does not end the group it has started.
* Members of a group that outlive its leader: nobody waits for them or signals them,
  and they may write to an attempt that was recorded and reported.
* A report that must stay true although its subject is still being written.
* A deadline, a signal, and the end of the leader and of other members of a
  process group, in every order.
* Evidence that no later run accepts: the code fails closed, so a single
  unexpected state stops the collection for good.
* Two files (`receipt.json`, `status.json`), or a status, an image and a trace,
  that are written at different times.
* A bounded number of generations, the last of which may be the good one.
* A validation of many files that takes minutes, whose conclusion is about bytes
  that may have been replaced since.
* Digests of files that state digests of files: which file fixes which other one,
  and whether one piece of evidence can be presented twice.
* Seven artifacts of three programs that must be of one generation, with a kill
  possible inside each write.
* A masker that must not lose its place in any construct of three dialects.

### 1.4 What makes each part correct

* Publication: a terminal name stands for whole, read-only, durable bytes; it is
  given at most once; what was reported without a receipt never gets one;
  recovery accepts whatever faults can leave.
* Contract: never a choice between two complete contracts; no run collects
  before its contract is durable; all runs collect under one.
* Controller: one writer; reports agree with the evidence for ever, and only a process
  that outlived its leader can add to an attempt that was reported; the status
  is never ahead of the receipt; exit status 0 means closed; the same command
  resumes; the receipt is eventually closed.
* Process groups: a leader is left behind at one point of the code only; the wait ends.
* Supervisor: images stay behind the trace; one remains; complete means whole;
  a run with an image gets to its end.
* Finalizer: an archive is whole, appears once and never changes; it holds exactly
  the evidence the receipt authorizes; every transcript in it is one process, the
  reference runs are two, and both saw the theorems that the archive claims.
* Inventory: an accepted check has seen one generation; each finding is code; no
  physical equality (`==` or `!=`) or custom call of a source with findings lacks its review; what the
  generator writes is accepted.

## 2. Modules

| Module | Models | Corresponds to |
|---|---|---|
| `EvidenceDirectory` | a directory under POSIX calls, kills and power losses (external) | `cache` is what processes see, `disk` what is certainly durable; a file has bytes, a mode and names |
| `LinkPublication` | publication and alias recovery, one action per system call | `pc` is the position in the Python code, `job` the inode and terminal name |
| `OneShotReceipt` | abstract: one receipt, consistent reports | - |
| `AttemptPublication` | one attempt directory over all its life | extends `LinkPublication`; `verdict` is what the last scan reported |
| `AttemptPublication_proofs`, `EvidenceDirectory_proofs` | proofs | - |
| `ContractAgreement` | abstract: one contract for all runs | - |
| `ContractPublication` | the contract over several runs | extends `LinkPublication`; `todo` and `complete` are the recovery loop, `expected` the inputs of the run, `admitted` a history variable |
| `MCContract` | symmetry of the nonces for TLC | - |
| `SweepLedger` | abstract: an append-only ledger of attempts in a fixed order | - |
| `SweepController` | `run()` by several controllers | `pc`, `view` (last scan), `work`, `record` (artifacts as hashed), `validated`, `leaving` are local variables of `run`; `evidence`, `receipt`, `status`, `temporary` are the artifact root; `child` is the leader and what goes with it, `members` what has outlived it, `lock` the open descriptors |
| `MCSweep` | symmetry of the controllers for TLC | - |
| `ControlledChild` | `run_process` and the handlers | `pc`, `active`, `pending`, `blocked` are the Python state, `leader`, `member`, `piped` the group |
| `ExportSupervisor` | the export script and its producer | `pc`, `generation`, `restored`, `checkpoint` are the script, `producer` the process, the rest the state directory |
| `ExportSupervisor_proofs` | proofs | - |
| `ContractPublication_proofs`, `SweepController_proofs`, `ControlledChild_proofs` | proofs | - |
| `GreatEvidence` | all validators of the finalizer | predicates on a bundle `b`, with one field for every source the finalizer captures; `Requires` says which are evaluated after which capture |
| `ArchiveStore` | abstract: nothing, then one whole archive for ever | - |
| `ArchivePublication` | `archive()` by several finalizers | `pc` and `turn` are the position in the code, `reading` the versions an open file has had, `staged` the captured ones, `seen` what the preflight remembers, `stage` the stage directory; `disk`, `head` and `dest` are the world |
| `ArchivePublication_proofs` | proofs, of the finalizer and of what its validators amount to | - |
| `MCArchive` | two targets, three files and 55 versions of the evidence, spelled out | - |
| `InventoryScan` | `mask_noncode` and `scan_text` | `Masked` and `Findings` are what the scanner computes; `LexedCode` is the reference lexer they are compared with |
| `InventoryPipeline` | the update, closure and check scripts | `gen` is the update script, `chk` the check and what it has read, `art` the generated files, `inputs` the reviewed files, `repo` the checkout |
| `InventoryPipeline_proofs` | proofs, of the scanner and of the scripts | - |
| `MCInventory` | three sources, 17 texts of all constructs | - |

Composition: `AttemptPublication` and `ContractPublication` instantiate the same
publication steps. `SweepController` takes one publication as one step, which is
what the refinements `ImplementsOneShot` and `ImplementsAgreement` justify, and
takes `run_process` as the end of a leader, with or without members that go on;
`ControlledChild` looks into its steps.
`ArchivePublication` extends `GreatEvidence` and evaluates its predicates on
what is staged at that moment, and `InventoryPipeline` extends `InventoryScan` in
the same way.

Abstractions: bytes of a receipt are a count of writes (`Size`); a target run is
a number; the artifacts of an attempt are a count of writes (`bytes`), and what
a receipt records of them is the count at the time they were hashed (`recorded`);
`late` says that a process has written to the attempt that outlived the leader of its
group, and is read by properties only; a contract is a
model value; all checks of git state, schemas and artifact semantics are one
choice between success and failure; an offset of the trace is a position between
boundaries. Host names, JSON layout and messages are left out.

`SweepController` and surviving members. The artifacts are hashed before the validator is
started (`StartValidator`), or when a failure is recorded (`RecordFailure`), and published
later with what was hashed then; a member may write before, between and after. A read that
a write falls into is an error of `stable_bytes`: `Disturbed` lets a hash or a scan fail
where such a member is alive. A scan reads one file after the other and is one step here:
a write to an attempt that the scan has already passed has the effect of a write after the
scan, one to an attempt that it has not reached that of a write before it, and what is said
of bytes is said of one attempt at a time. Members that
hold the controller's pipes keep `run_process` from returning and are the subject of
`ControlledChild`; those of `SweepController` have their output elsewhere. Members ignore
the signals sent to their group or are signalled no more, whichever the code comes to. A
handled signal between the expiry of a deadline and the SIGKILL for it leaves the leader
itself alive (`Signal`).

The finalizer: SHA-256 is taken to be injective, so that where a file states the
digest of another the model states the content. Shapes of JSON objects, formats of
dates and digests, and the hard-link check of `Stager.capture` are left out, and
the tolerance of a sum of floating-point times is an equality. A source is a file
or a family of files that are captured in a row; a family may be captured with its
first file from before a change and the others from after it. The replay by
the captured validator is external: what `run_captured_reference_replay` relies on.

The captured families are functions with the members the code enumerates: the
validators require that the captured sources are those of the audited targets
(`SourcesMatch`), the transcripts those of the results (`RunAccepted`) and the
references those the approval names (`ApprovalAccepted`), because the finalizer captures
exactly these. `ContentAssumption` says the same of what the world may hold: a family is
a function, the tools and linked outputs have the names the command line and
`LINKED_OUTPUTS` give them, and a transcript is a sequence of lines.

The inventory: a text is a sequence of tokens, one for each piece of syntax the
scanner tells apart, instead of characters (the marks of `{id|` and `|id}` are two tokens,
because a quoted string ends at its own mark only); a digest is the content; a
findings file is given by the sources whose findings it lists. A JSON file that was
truncated and not yet written is `Torn`, and is no document at all: readers fail on it.
A torn findings file is a shorter one, since its lines stand alone. The generator reads
the inputs of one command in one step, and the check evaluates each file when it
has read it. `TextAssumption`, `ReviewAssumption` and `WorldAssumption` say of the constants
what a repository is: texts are sequences of tokens, a commit has contents of the scanned
files, sets of rules and of earlier findings are finite, and the contents and the rules that an
edit or an amendment brings are among the known ones. The shapes of the operands of a physical equality, file names and path
keys, imported ledgers, related artifacts and the strata of the closure are left out.

The definitions marked as bugs ("A bug: ...") are the mutations of `PROJECT.json`.
No specification uses them.

## 3. Runs

| Run | Bounds | Shows |
|---|---|---|
| `attempt` | one directory, both receipts, `Size` 2, any number of kills and power losses | `NoTruncatedReceipt`, `NeverWedged`, `CountedIsDurable`, refinement of `OneShotReceipt` |
| `contract` | 2 nonces, 2 contracts, `Size` 2, any number of runs, kills, power losses | `OneCompleteContract`, `ReadyIsDurable`, `RefusedWithCause`, refinement of `ContractAgreement` |
| `contract_wedge` | 3 nonces, kills and power losses | violates `RefusedForConflict` |
| `sweep` | 2 interchangeable controllers, 2 runs, `MaxBytes` 1, 2 faults (`Budget`) other than power losses | `OneWriter`, `ReportedIsFrozen`, `StatusIsBehind`, `ZeroMeansClosed`, `ScansAccept`, refinement of `SweepLedger` |
| `sweep_live` | the same with 1 fault, which may be a power loss | `EventuallyClosed` |
| `sweep_power` | 1 power loss | violates `ScansAccept` |
| `child` | 4 signals, leader and member may ignore TERM | `LeaderLeftOnlyAtExpiry`, `ReturnsUnlessHeld` |
| `child_hangs` | the same | violates `ProcessReturns` |
| `export` | trace of 4 positions, 4 generations, 3 faults | `ImagesAreBehindTrace`, `NeverWithoutImage`, `CompleteIsWhole`, `ImagedRunsFinish` |
| `export_limit` | 3 generations, no fault | violates `LimitMeansIncomplete` |
| `archive` | 2 finalizers, 13 sources, 55 versions of the evidence, 3 outside events from the good one and 1 from each other | `ArchiveIsAuthorized`, `SuccessIsArchived`, `NoStageLeft`, `ArchivedRunsAreDistinct`, `ArchivedIdentityIsWitnessed`, `ArchivedProcessesAreWhole`, `ArchivedInputsAreUsed`, refinement of `ArchiveStore` |
| `inventory` | 3 sources of the 3 dialects, 2 working commits with 2 outside events, 17 further texts, one check | `OneGeneration`, `FindingsAreCode`, `ReviewedOnce`, `InStepIsAccepted` |

Why the bounds are enough. Two writes distinguish an empty, a partial and a
whole receipt. Two nonces allow an interrupted publication and a second one,
three allow two interrupted ones. Two controllers are a running one and a later
or competing one; with two runs there is a first, a next and a gap; two faults
give an orphan and then another failure or signal, or a member that outlives its leader and
then another fault, and `Attempts` is
`Budget + 1` because every further attempt at a run follows a fault. One write (`MaxBytes`)
is before the artifacts are hashed or after, which is all that matters for a scan. A member
outlives a leader as a fault of its own, and no leader leaves more than one; the safety
run takes the controllers as interchangeable (`Interchangeable`), 1.1 million states. One signal
is blocked, one handled, one kills, and one is spare. With four positions there are up to three
boundaries, so that there is an image before the restored one, the restored one and a
newer one; four generations are enough for a trace without faults and too few
for some with three, so that both ends are reached.

In `archive`, an outside event is the launch or the kill of a finalizer, an edit of
a source, a checkout or a directory made at the destination: three are two finalizers and a
change between two steps of one of them, or one finalizer and two changes. Of the
55 versions, three are genuine (a second commit and a second set of runs are what
sources change to and mix with), and 52 are each wrong in one way that one
requirement of the code is there for: a result, process or transcript presented
twice, a fingerprint before the link, an approval of another closure and so on.
Everything that states the digest of a changed file states the digest of the
change, so that nothing but that requirement stands between the evidence and the archive.
Two targets that share one of three files are the least with a shared
source, a private source and two processes. The finalizers are interchangeable
(symmetry); only safety properties are checked there.

In `inventory`, two outside events are a kill in one generation and an edit in the
next, or an edit and an amended review. The working texts have findings of every
kind of triage; an edit may keep the size of a file, or remove its last
finding. The 17 further texts put each construct of the masker (nested comments,
escapes, quotations, VHL lines, character literals, type variables, unclosed
constructs) around or before a finding. One check per behaviour is enough because a
check changes nothing; one generator at a time is a bound.

Deadlock is checked in all runs but those of `ControlledChild`, where
`run_process` ends and the processes with it, `archive`, where the finalizers have ended,
and `inventory`, where nothing is looked at after the check has ended.

### 3.1 Fairness

`AttemptPublication` and `ContractPublication` state safety only.
`SweepController` assumes that a live controller goes on, that the leader of a process
group ends or is ended by its deadline, and that the operator runs the command again;
the number of faults is bounded by `Budget`, so `EventuallyClosed` says that
finitely many faults leave nothing that stops the collection, with three exceptions that the
property names: the gap of a power loss (`sweep_power`), an attempt that was changed after it
was recorded, and a member that outlived its leader and never ends. Nothing is assumed to
end such a member, because nothing in the code does. `ControlledChild`
assumes that the controller and its timers go on and that TERM ends a process
that does not ignore it; it does not assume that a process ends by itself.
`ExportSupervisor` assumes that the script and the producer go on (both are under
`timeout 86400`) and that the command is run again. `ArchivePublication` and
`InventoryPipeline` state safety only: nothing there waits or is retried.

### 3.2 What the violations are

1. `contract_wedge`. SIGKILL between `fchmod(0444)` and the second `fsync` of the
   pending contract; the next run finds mode 0444 and the right bytes, links
   it without another `fsync` of the inode, and collects; a power loss reverts
   the mode to 0600; from then on `require_publication_file` refuses the
   contract. The published *bytes* are never lost (`ReadyIsDurable`): only the
   mode is.
2. `sweep_power`. `ensure_new_directory` never syncs the parent, so a power loss
   may keep the directory of a later run and lose that of an earlier one; the
   scan refuses the gap. File systems that commit directory entries together
   with the files below them hide this.
3. `child_hangs`: `signal_process_group` sends nothing once the leader was seen to
   be gone, so a member that holds the pipes is never ended by the deadline. The
   inherited lock still protects the evidence.
4. `export_limit`: the message "generation limit reached without completion" for
   a complete trace.

Some states the models reach have no run of their own, because the code refuses or
tolerates them: an older image that a stop has saved from deletion, and an
export that was interrupted before its first image and is not resumed.

Where the properties of the controller name an exception, the code has it:

* `docs/s1-reference-two-sweep-runbook.md:125-126` says "Handled `TERM` and `HUP` terminate
  and wait for the active process group before the controller releases its lock." The
  controller waits for the leader and the pipes only. A member with its output elsewhere
  goes on when it ignores the signal, or gets none because its leader is gone (line 781).
  And a signal between the expiry of the deadline and line 842 raises
  `ControllerInterrupted` inside an `except` block, where no other clause of the `try` catches
  it: the leader has been sent that signal and is not waited for
  (`LeaderLeftOnlyAtExpiry`). In all these cases the lock stays held by whoever is left
  (`OneWriter`).
* A member that outlived its leader can write to an attempt after its artifacts were hashed.
  Every later scan then refuses the attempt, as `validate_recorded_artifact` (905) should;
  `ReportedIsFrozen`, `ZeroMeansClosed` and `ScansAccept` say that this is the only way in
  which reported evidence changes, or in which a scan refuses, and that it adds to the bytes of
  that attempt without touching a receipt. `seal_artifact` does not prevent it: a mode change
  leaves open descriptors writable.

### 3.3 What the inventory model shows of the code

These are limits of the properties, which are stated so that they hold:

* The check hashes the artifacts for the ledger and reads the triage, the findings
  and the manifest again afterwards. `OneGeneration` therefore speaks of the closure
  only if the findings that were read last are those that were validated: a
  regenerated closure that fits findings written in between is accepted. The triage is
  compared with a second reading of the findings (`validate_compatibility_ledger.py:415`),
  so `OneGeneration` speaks of its records and not of the digest it states: the digest may be
  that of a later file with the same findings to review.
* `findings.jsonl` has no end mark. A torn file that ends with a line is a shorter
  findings file; only the digest and the counts in the summary tell them apart.
* The `triage` member of the pin delta is compared by nobody.
* Only sources with findings are hashed again. A change that leaves the size and number
  of files alone and is in a file without findings is seen by `git status` only, which is
  asked earlier than the files are read.
* OCaml lexes string literals inside comments; `mask_noncode` does not. A comment that
  holds a string with a comment mark in it ends elsewhere for the two. The reference lexer
  `LexedCode` follows the repository's description of the masker here.
* Two custom calls with one ledger ID are accepted by the generator and refused by
  the validator; `InStepIsAccepted` leaves them out.

## 4. Proofs

All theorems are checked by TLAPS with Z3, Zenon and LS4, without assumptions
other than the `ASSUME`s on the constants and, where it is said below, that power is not lost.

`AttemptPublication_proofs` proves, for every `Size` and every set of faults:
`Typing`, `ReceiptsAreWhole`, `ScansResume`, `CountedReceiptsAreDurable`, and
`Refinement` (`Spec => ImplementsOneShot`). The four invariants are not inductive:
a power loss can bring back any name or attribute that was not synced, so the
invariant `IInv` says of every terminal name and every position of the code what
the *disk* already has: bytes are synced before the mode can be 0444 in the cache, the mode
is synced before a terminal name can exist, and the terminal name is synced
before its alias may disappear from the cache. `EvidenceDirectory_proofs` states
once what each system call and `LosePower` does to the observations of a
directory. For the refinement, `receipt` is the receipt on disk: the abstract
`Publish` happens at the directory sync after the link, and `Report` at the
classification by a scan.

`ExportSupervisor_proofs` proves `Typing`, `ImagesStayRestorable`,
`AnImageRemains` and `CompleteTracesAreWhole` for every length of the trace, limit
and number of faults. The strengthening says that the recorded boundary covers
every image whenever it can be cut back to (`BoundaryCoversImages`), that a
working producer was restored from the newest image (`WorksFromNewest`), that a
boundary is recorded before its image (`BoundaryBeforeImage`), and what each
position of the script knows (`ControlFlow`, `NothingYet`).

`ContractPublication_proofs` proves, for any number of nonces, contracts, writes and
faults: `Typing`, `OneContract`, `ReadyIsOnDisk`, `RefusalsHaveCause` and
`RunsAgree` (`Spec => ImplementsAgreement`). None of them is inductive. `IInv` adds
what the names say of each other (`NamesInv`: the contract on disk is the one in
the cache, and a name that is on disk only is never a second contract), what the
attributes say (`InodesInv`: a sealed or linked inode has all its bytes, in the cache
and on disk), that there is one sealed or linked inode at most (`OneSealed`), and
what each position of `publish_terminal`, of the alias recovery and of the recovery
loop knows (`PublishInv`, `LinkInv`, `LoopInv`). The crux is that the loop has seen
every complete pending name before it decides, so that a new contract is staged
only when nothing is sealed. For the refinement, the contract is chosen when its
name reaches the disk: by a directory sync, which need not be one of the publication
that linked it, or by a power loss that happens to keep it.

`SweepController_proofs` proves `Typing` and `WritersExclude` for any numbers of
controllers, runs, writes and faults, from `LockInv`: whoever may write
holds the lock, orphans and surviving members through the descriptor they inherited, and
one invocation at most does. `ReportsAreFrozen`, `StatusFollows`, `ZeroIsFinal`,
`ScansRefuseLateChangesOnly` and `RefinesLedger` (`Spec => ImplementsLedger`) assume that power losses are not
among the faults (`ASSUME "power" \notin Faults`): `sweep_power` is the
counterexample to `ScansAccept` without it. Their `LedgerInv` says that an attempt that is being
collected, by a controller or an orphan, is open and not yet reported (`OpenInv`), how far the view of the last
scan may be behind the evidence at each position (`ViewInv`, `WorkInv`), that what was hashed
is what is there but for late writes (`RecordInv`), and that a success the status knows is in
the receipt (`StatusInv`). A member may write at any of these positions; what makes the
invariant hold is that all it says of bytes is up to such writes (`StillHolds`), which only
grow.

`ControlledChild_proofs` proves `Typing` and `LeaderIsLeftAtExpiryOnly` for any number of
signals: once the SIGKILL for a deadline was sent the leader is gone
(`KilledAtDeadline`), so that only a signal that comes before it can leave one behind.

`ArchivePublication_proofs` proves `Typing`, `SuccessLasts`, `StagesRemoved` and
`PublishesOnce` (`Spec => StoreSpec`) for any finalizers, contents and number
of outside events, and `InputsAreUsed`, `IdentityIsWitnessed`, `RunsAreDistinct`,
`ProcessesAreWhole`, `ReceiptFixesArchive` and `OnlyAuthorizedIsArchived` about what is
published. The idea is `Vetted(c, k, h)`: the
k-th requirement holds of the first k captures. A check is evaluated on what has
been staged, and nothing that is staged is staged again, so `CaptureInv` says that a
finalizer at its n-th capture has vetted all before it, and `DestinationInv`
that all were vetted for a published archive, whatever the sources hold now. The
lemmas on `GreatEvidence` then say what the requirements amount to for any numbers of
targets, files, requests and lines:

* `ProcessesAreWhole`. The validator checks counts and positions of marker lines; the
  property runs an automaton over the transcript. `AcceptedTranscriptIsWhole` writes down
  the state of the automaton at every line from the positions of the markers, and
  `FollowsMoves` shows by induction over the lines that the automaton is there.
* `ReceiptFixesArchive`. The receipt names the reports, these the contract, the
  transcripts and the sources, the approval its references, and so on: `FixedBy` is what the
  receipt says of every file, and each field of it is one of the requirements.
* `OnlyAuthorizedIsArchived`. Two bundles fixed by one receipt are equal (`FixedOnce`), so
  what is archived is the authorized version, whatever was edited, checked out or
  overtaken in between. Its condition is `OwnEvidence`: the
  receipt of the authorized version describes its own reports, approval and outputs. Without it
  there is nothing to show, because the archive is then what the receipt describes and
  not what lies beside it. The run checks `ArchiveIsAuthorized` without the condition, and
  `GenuineAssumption` of `MCArchive` evaluates it for the genuine versions.

`InventoryPipeline_proofs` proves all properties of the inventory for any sources, texts,
commits, rules, reviews, edits and kills.

* `ScannerFollowsLexer`: for every text and dialect, the code the masker leaves is the code
  of the reference lexer. The masker jumps from a construct to its end, the lexer reads token
  by token. `ConstructSpan` shows for each construct that a lexer that enters it leaves it
  exactly at the end the masker computes (nested comments by the least position where the
  depth is zero, strings by the parity of the backslashes), and an induction over the positions
  that the lexer is in code wherever the loop stops to test.
* `PipelineTypes` is about types only: positions, domains and known values, and not about
  which files are torn. It and `AcceptedFitsTogether`, `AcceptedFindingsAreCode`,
  `AcceptedIsReviewedOnce` and `WrittenIsAccepted` (`TypeOK`, `OneGeneration`, `FindingsAreCode`,
  `ReviewedOnce`, `InStepIsAccepted`) rest on `IInv`. `OnDisk` says that each
  artifact is torn or is what its generator computes from some findings and inputs
  (`Whole`), which a kill at any point keeps; `GenTyped` that so is whatever is still to be written;
  `Vetted` that everything a check has read was whole and met its requirement at that time,
  which no later step changes, since a check keeps what it has read; `ChkTyped` that it has read a
  prefix of its list. The properties of an accepted check follow from `Vetted` alone: for
  example, a whole delta with the digest of the findings is the delta of those findings.
  `ReviewedOnce` needs the scanner as well: `ScannerFollowsLexer` puts a finding at every
  review word of the code, and the equal counts of `Covers` make its review the only one.
* For `WrittenIsAccepted`, `Undisturbed` says that a check nobody disturbs has read what is
  on disk, and that this is in step; `InStepHolds` shows requirement by requirement that
  what the generators compute passes the validator.

Induction over numbers is done from finite sets: an interval has a least element with any
property that some element has (`LeastElement`, from the well-foundedness of strict inclusion
on finite sets), which gives `IntervalInduction`, and with it recursive functions on an interval are
defined everywhere (`Recursion`).

Model-checked only: liveness (`EventuallyClosed`, `ReturnsUnlessHeld`, `ImagedRunsFinish`),
which needs fairness and ENABLED, and `ArchiveIsAuthorized` for versions whose receipt is not
their own. Every other property of a passing run is proved; `ScansAccept` and the
other theorems of the controller named above, if power is not lost.

## 5. Not modelled, and why

* Git provenance, schema checks and artifact semantics (`validate_git_repository`,
  `validate_manifest`, `validate_artifact_semantics`): functions of files that
  nobody in this system writes; each is one nondeterministic failure.
* The collector, the validator, HOL Light, the producer and DMTCP: not in the
  repository. They appear as environment actions.
* Two producers on one trace after a SIGKILL of the export supervisor, and the
  race for a fresh lock file: listed as hazards with the reason.
* `verify-lock.sh`, the sampler and the summary: no state that anything depends on.
* The tests, smoke tests and demonstration scripts of the repository: they exercise the
  programs that are modelled here.
* `flyspeck_needs_failure_oracle.ml`: a straight-line transcription of the loader's
  control flow that runs all of its own cases (`check_case`); the loader itself is not in
  the repository.
* The dopen corpus check, and the DMTCP wrapper: one pass over their input, no state.
* The operand shapes, path keys, imported ledgers, related artifacts and closure strata of
  the inventory: functions of single records, with no order or fault to go wrong.
* Two generators at once in the inventory: nothing prevents it, and the check would
  see torn files as it does after a kill.

## 6. Plan

Done, in this order: publication and attempt; its proofs; contract; controller;
process groups; export supervisor and its proofs; finalizer; inventory; the proofs of
the contract, the controller, the process groups, the finalizer and the inventory.

What would be worth adding:

1. The collection path in detail: how `recorded` and the sealing of artifacts relate to a
   surviving member of the process group, by composing `ControlledChild` with an attempt.
2. `InventoryPipeline` with two generators, and with the related artifacts and imported
   ledgers of `validate_compatibility_ledger.py`.
3. What the summary says of the findings (`Counts`, `Listing`) in an accepted check, as a property
   of its own, for torn findings files that end with a line.
