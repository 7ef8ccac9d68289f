------------------------- MODULE ArchivePublication -------------------------
(***************************************************************************)
(* archive() of the report finalizer: it captures every source of the      *)
(* evidence into a private stage directory, checks the staged bytes as it  *)
(* goes, writes the generated files, looks at the checkouts and tools once *)
(* more, and renames the stage to the destination.  Other processes change *)
(* the sources, move the Git heads and create the destination meanwhile,   *)
(* other finalizers run for the same destination, and any of them may be   *)
(* killed.                                                                 *)
(*                                                                         *)
(* A source is a file or a family of files captured in a row.  Its states  *)
(* are versions; Content gives the content of a source at a version.       *)
(***************************************************************************)
EXTENDS GreatEvidence

CONSTANTS
    Finalizers,
    Versions,
    Changes,        \* bound: the versions to which sources and heads are changed
    Content(_, _),  \* Content(s, v): what source s holds at version v
    Commit(_, _),   \* Commit(r, v): the commit of repository r at version v
    Budget(_)       \* bound: outside events in a behaviour that starts at version v

ASSUME ArchiveAssumption ==
    /\ Changes \subseteq Versions
    /\ \A v \in Versions : Budget(v) \in Nat

VARIABLES
    disk,        \* the version each source has now
    head,        \* the version each repository has committed at HEAD
    authorized,  \* the version of the receipt whose digest is on the command line
    dest,        \* what lies at the destination
    pc,          \* where each finalizer is
    turn,        \* the capture each finalizer is at
    reading,     \* the versions the open source had since it was opened
    staged,      \* the versions captured: of its first file, of the others
    seen,        \* project commit and tools at the preflight
    stage,       \* each finalizer's stage directory
    budget       \* outside events left

vars == <<disk, head, authorized, dest, pc, turn, reading, staged, seen, stage, budget>>

CaptureOrder ==
    <<"tools", "receipt", "report1", "report2", "contract", "validator", "sources",
      "approval", "references", "logs1", "logs2", "linked", "outputs">>

Sources == {CaptureOrder[k] : k \in DOMAIN CaptureOrder}

Repositories == {"candle", "project"}

Tracked == {"contract", "validator", "sources", "approval", "references"}

\* The captures that validate_committed_snapshot compares with HEAD.
Committed == {"contract", "validator", "sources", "approval"}

Families == {"tools", "contract", "sources", "references", "logs1", "logs2", "outputs"}

\* A family is a function of its file names, and a transcript a sequence of lines.
ASSUME ContentAssumption ==
    \A v \in Versions :
        /\ \A s \in Families :
            Content(s, v) = [k \in DOMAIN Content(s, v) |-> Content(s, v)[k]]
        /\ DOMAIN Content("tools", v) = {"finalizer", "python", "git"}
        /\ DOMAIN Content("outputs", v) = LinkedOutputs \cup {"direct", "patch"}
        /\ \A s \in {"logs1", "logs2"} : \A i \in DOMAIN Content(s, v) :
            LET log == Content(s, v)[i] IN
            Len(log) \in Nat /\ DOMAIN log = 1..Len(log)

Absent == [kind |-> "absent", by |-> "nobody", bytes |-> <<>>, whole |-> FALSE]

EmptyDirectory == [Absent EXCEPT !.kind = "empty"]

Trying ==
    {"open", "read", "check", "head", "status", "write", "project", "absent",
     "rename", "sync"}

Ended == {"done", "failed", "killed"}

Init ==
    /\ authorized \in Versions
    /\ disk = [s \in Sources |-> authorized]
    /\ head = [r \in Repositories |-> authorized]
    /\ dest = Absent
    /\ pc = [f \in Finalizers |-> "idle"]
    /\ turn = [f \in Finalizers |-> 1]
    /\ reading = [f \in Finalizers |-> {}]
    /\ staged = [f \in Finalizers |-> [s \in Sources |-> <<>>]]
    /\ seen = [f \in Finalizers |-> <<>>]
    /\ stage = [f \in Finalizers |-> "none"]
    /\ budget = Budget(authorized)

----------------------------------------------------------------------------
(* What has been captured                                                  *)

\* A family one of whose files was read before a change and the others after it.
Blend(x, y) ==
    LET one == CHOOSE k \in DOMAIN x : TRUE IN
    [k \in DOMAIN x |-> IF k = one \/ k \notin DOMAIN y THEN x[k] ELSE y[k]]

Captured(s, c) ==
    IF c[1] = c[2] THEN Content(s, c[1])
    ELSE Blend(Content(s, c[1]), Content(s, c[2]))

Bundle(c) == [s \in {q \in Sources : c[q] # <<>>} |-> Captured(s, c[s])]

Current(f) == CaptureOrder[turn[f]]

Goto(f, step) == pc' = [pc EXCEPT ![f] = step]

Continue(f, condition, step) == Goto(f, IF condition THEN step ELSE "abort")

----------------------------------------------------------------------------
(* The finalizer                                                           *)

Outside == <<disk, head, authorized, budget>>

Private == <<turn, reading, staged, seen, stage>>

ProjectClean ==
    Content("tools", disk["tools"]).finalizer
        = Content("tools", head["project"]).finalizer

\* The destination is absent, the project clean; its commit and the tools are
\* remembered.
Preflight(f) ==
    /\ pc[f] = "preflight"
    /\ Goto(f, IF dest.kind = "absent" /\ ProjectClean THEN "mkdtemp" ELSE "failed")
    /\ seen' = [seen EXCEPT ![f] =
                    <<Commit("project", head["project"]), disk["tools"]>>]
    /\ UNCHANGED <<Outside, dest, turn, reading, staged, stage>>

MakeStage(f) ==
    /\ pc[f] = "mkdtemp"
    /\ \E made \in BOOLEAN :
        /\ stage' = [stage EXCEPT ![f] = IF made THEN "filling" ELSE "none"]
        /\ Goto(f, IF made THEN "open" ELSE "failed")
    /\ UNCHANGED <<Outside, dest, turn, reading, staged, seen>>

\* Stager.capture, up to the first fstat.
Open(f) ==
    /\ pc[f] = "open"
    /\ reading' = [reading EXCEPT ![f] = {disk[Current(f)]}]
    /\ Goto(f, "read")
    /\ UNCHANGED <<Outside, dest, turn, staged, seen, stage>>

\* A single file that changed since it was opened is refused; the files of a
\* family may be read before and after a change without any changing meanwhile.
Capturable(f) == Cardinality(reading[f]) = 1 \/ Current(f) \in Families

\* Stager.capture, from the last read on.
Close(f) ==
    /\ pc[f] = "read"
    /\ Capturable(f)
    /\ \E c \in reading[f] \X reading[f] :
        staged' = [staged EXCEPT ![f][Current(f)] = c]
    /\ reading' = [reading EXCEPT ![f] = {}]
    /\ Goto(f, "check")
    /\ UNCHANGED <<Outside, dest, turn, seen, stage>>

ChangedWhileCaptured(f) ==
    /\ pc[f] = "read"
    /\ Cardinality(reading[f]) > 1
    /\ reading' = [reading EXCEPT ![f] = {}]
    /\ Goto(f, "abort")
    /\ UNCHANGED <<Outside, dest, turn, staged, seen, stage>>

Acceptable(f) ==
    LET s == Current(f)
        b == Bundle(staged[f]) IN
    /\ s = "tools" => b.tools = Content("tools", seen[f][2])
    /\ s = "receipt" => b.receipt = Content("receipt", authorized)
    /\ s \in Committed => b[s] = Content(s, head["candle"])
    /\ Requires(s, b, seen[f][1], Content("outputs", disk["outputs"])["cake"])

AfterCheck(f) ==
    IF Current(f) = "report2" THEN "head"
    ELSE IF turn[f] = Len(CaptureOrder) THEN "write" ELSE "open"

\* A bug: the position survives an early return at the last capture.
CheckAgain(f) ==
    /\ pc[f] = "check"
    /\ Continue(f, Acceptable(f), AfterCheck(f))
    /\ turn' = [turn EXCEPT ![f] = turn[f] + IF turn[f] = Len(CaptureOrder) THEN 2 ELSE 1]
    /\ UNCHANGED <<Outside, dest, reading, staged, seen, stage>>

\* What the finalizer requires of the bytes it has just staged.
Check(f) ==
    /\ pc[f] = "check"
    /\ Continue(f, Acceptable(f), AfterCheck(f))
    /\ turn' = [turn EXCEPT ![f] = turn[f] + 1]
    /\ UNCHANGED <<Outside, dest, reading, staged, seen, stage>>

\* validate_git_checkout: the revision ...
GitHead(f) ==
    /\ pc[f] = "head"
    /\ Continue(f, Commit("candle", head["candle"]) = Bundle(staged[f]).report1.head,
                "status")
    /\ UNCHANGED <<Outside, dest, Private>>

CandleClean ==
    \A s \in Tracked : Content(s, disk[s]) = Content(s, head["candle"])

\* ... and, by a Git process of its own, the worktree.
GitStatus(f) ==
    /\ pc[f] = "status"
    /\ Continue(f, CandleClean,
                IF turn[f] <= Len(CaptureOrder) THEN "open" ELSE "project")
    /\ UNCHANGED <<Outside, dest, Private>>

\* The projections, bundle.json and SHA256SUMS.
WriteGenerated(f) ==
    /\ pc[f] = "write"
    /\ stage' = [stage EXCEPT ![f] = "whole"]
    /\ Goto(f, "head")
    /\ UNCHANGED <<Outside, dest, turn, reading, staged, seen>>

\* The project checkout and the tools are what the preflight saw.
Postflight(f) ==
    /\ pc[f] = "project"
    /\ Continue(f,
        /\ Commit("project", head["project"]) = seen[f][1]
        /\ ProjectClean
        /\ Content("tools", disk["tools"]) = Content("tools", seen[f][2]), "absent")
    /\ UNCHANGED <<Outside, dest, Private>>

ConfirmAbsent(f) ==
    /\ pc[f] = "absent"
    /\ Continue(f, dest.kind = "absent", "rename")
    /\ UNCHANGED <<Outside, dest, Private>>

\* rename(2) of a directory: an empty directory is replaced, anything else that
\* appeared since ConfirmAbsent is an error.
Replaceable == dest.kind \in {"absent", "empty"}

ArchiveOf(f) ==
    [kind |-> "archive", by |-> f, bytes |-> staged[f], whole |-> stage[f] = "whole"]

\* A bug: whatever lies at the destination is replaced.
ReplaceAnything(f) ==
    /\ pc[f] = "rename"
    /\ Goto(f, "sync")
    /\ dest' = ArchiveOf(f)
    /\ stage' = [stage EXCEPT ![f] = "none"]
    /\ UNCHANGED <<Outside, turn, reading, staged, seen>>

\* os.rename(stage, destination).
Rename(f) ==
    /\ pc[f] = "rename"
    /\ Continue(f, Replaceable, "sync")
    /\ dest' = IF Replaceable THEN ArchiveOf(f) ELSE dest
    /\ stage' = [stage EXCEPT ![f] = IF Replaceable THEN "none" ELSE stage[f]]
    /\ UNCHANGED <<Outside, turn, reading, staged, seen>>

SyncParent(f) ==
    /\ pc[f] = "sync"
    /\ Goto(f, "done")
    /\ UNCHANGED <<Outside, dest, Private>>

\* Any call of the try block may raise: a Git command, the replay or the
\* provenance helper fails or times out, a read or a write fails, an interrupt.
Raise(f) ==
    /\ pc[f] \in Trying
    /\ reading' = [reading EXCEPT ![f] = {}]
    /\ Goto(f, "abort")
    /\ UNCHANGED <<Outside, dest, turn, staged, seen, stage>>

\* A bug: a failing finalizer removes its destination too.
CleanUpDestination(f) ==
    /\ pc[f] = "abort"
    /\ dest' = Absent
    /\ stage' = [stage EXCEPT ![f] = "none"]
    /\ Goto(f, "failed")
    /\ UNCHANGED <<Outside, turn, reading, staged, seen>>

\* A bug: a stage that is complete is kept for inspection.
KeepWholeStage(f) ==
    /\ pc[f] = "abort"
    /\ stage' = [stage EXCEPT ![f] = IF stage[f] = "whole" THEN "whole" ELSE "none"]
    /\ Goto(f, "failed")
    /\ UNCHANGED <<Outside, dest, turn, reading, staged, seen>>

\* except BaseException: rmtree ignores its errors.
CleanUp(f) ==
    /\ pc[f] = "abort"
    /\ \E left \in {"none", "leftover"} :
        stage' = [stage EXCEPT ![f] = IF stage[f] = "none" THEN "none" ELSE left]
    /\ Goto(f, "failed")
    /\ UNCHANGED <<Outside, dest, turn, reading, staged, seen>>

Step(f) ==
    \/ Preflight(f) \/ MakeStage(f) \/ Open(f) \/ Close(f) \/ ChangedWhileCaptured(f)
    \/ Check(f) \/ GitHead(f) \/ GitStatus(f) \/ WriteGenerated(f) \/ Postflight(f)
    \/ ConfirmAbsent(f) \/ Rename(f) \/ SyncParent(f) \/ Raise(f) \/ CleanUp(f)

----------------------------------------------------------------------------
(* The rest of the world                                                   *)

Spend == budget > 0 /\ budget' = budget - 1

\* Sources in S now have version v; a finalizer that has one open sees it.
Replace(S, v) ==
    /\ disk' = [s \in Sources |-> IF s \in S THEN v ELSE disk[s]]
    /\ reading' = [f \in Finalizers |->
                    IF pc[f] = "read" /\ Current(f) \in S
                    THEN reading[f] \cup {v} ELSE reading[f]]

Launch(f) ==
    /\ Spend
    /\ pc[f] = "idle"
    /\ Goto(f, "preflight")
    /\ UNCHANGED <<disk, head, authorized, dest, Private>>

\* Some process writes a source.
Edit(s, v) ==
    /\ Spend
    /\ disk[s] # v
    /\ Replace({s}, v)
    /\ UNCHANGED <<head, authorized, dest, pc, turn, staged, seen, stage>>

\* The Candle checkout, or the project, moves to another commit.
CheckOut(r, v) ==
    /\ Spend
    /\ head[r] # v
    /\ head' = [head EXCEPT ![r] = v]
    /\ Replace(IF r = "candle" THEN Tracked ELSE {"tools"}, v)
    /\ UNCHANGED <<authorized, dest, pc, turn, staged, seen, stage>>

\* A directory appears at the destination.
MakeDirectory ==
    /\ Spend
    /\ dest = Absent
    /\ dest' = EmptyDirectory
    /\ UNCHANGED <<disk, head, authorized, pc, Private>>

Kill(f) ==
    /\ Spend
    /\ pc[f] \in Trying \cup {"preflight", "mkdtemp", "abort"}
    /\ Goto(f, "killed")
    /\ reading' = [reading EXCEPT ![f] = {}]
    /\ UNCHANGED <<disk, head, authorized, dest, turn, staged, seen, stage>>

World ==
    \/ \E f \in Finalizers : Launch(f) \/ Kill(f)
    \/ \E s \in Sources, v \in Changes : Edit(s, v)
    \/ \E r \in Repositories, v \in Changes : CheckOut(r, v)
    \/ MakeDirectory

Next == World \/ \E f \in Finalizers : Step(f)

Spec == Init /\ [][Next]_vars

----------------------------------------------------------------------------
(* Properties                                                              *)

CapturePairs == {<<>>} \cup (Versions \X Versions)

\* The type of the state (archive, 1847-2175).
TypeOK ==
    /\ disk \in [Sources -> Versions]
    /\ head \in [Repositories -> Versions]
    /\ authorized \in Versions
    /\ dest.kind \in {"absent", "empty", "archive"}
    /\ pc \in [Finalizers -> Trying \cup Ended \cup {"idle", "preflight", "mkdtemp", "abort"}]
    /\ turn \in [Finalizers -> 1..(Len(CaptureOrder) + 1)]
    /\ reading \in [Finalizers -> SUBSET Versions]
    /\ staged \in [Finalizers -> [Sources -> CapturePairs]]
    /\ stage \in [Finalizers -> {"none", "filling", "whole", "leftover"}]
    /\ budget \in Nat

Archived == dest.kind = "archive"

ArchiveBundle == Bundle(dest.bytes)

\* Whatever changed, moved or was overtaken meanwhile, a published archive has
\* every source exactly as the receipt named on the command line authorized it:
\* no mixture of versions, none from another commit (archive, Stager.capture and
\* the digest bindings of the validators).
ArchiveIsAuthorized ==
    Archived => \A s \in Sources :
        /\ dest.bytes[s] # <<>>
        /\ Captured(s, dest.bytes[s]) = Content(s, authorized)

\* What receipt says of every file of b.
FixedBy(receipt, b) ==
    LET report == receipt.reports[1]
        audited == report.contract.manifest IN
    /\ b.receipt = receipt
    /\ b.linked = receipt.linked
    /\ b.approval = receipt.approval
    /\ b.contract = report.contract
    /\ b.tools.finalizer = receipt.project.finalizer
    /\ b.tools.python = receipt.tools.python
    /\ b.tools.git = receipt.tools.git
    /\ \A k \in LinkedOutputs : b.outputs[k] = receipt.linked.outputs[k]
    /\ b.outputs["direct"] = receipt.linked.manifest
    /\ b.outputs["patch"] = receipt.linked.patch
    /\ DOMAIN b.sources = UNION {ToSet(audited[i].files) : i \in 1..TargetCount}
    /\ \A i \in 1..TargetCount : \A f \in ToSet(audited[i].files) :
        b.sources[f] = audited[i].hash[f]
    /\ DOMAIN b.references = ArtifactPaths(receipt.approval)
    /\ \A r \in Runs :
        /\ Report(b, r) = receipt.reports[r]
        /\ DOMAIN Logs(b, r) = 1..TargetCount
        /\ \A i \in 1..TargetCount :
            LET artifacts == receipt.approval.targets[i].runs[r].artifacts IN
            /\ Logs(b, r)[i] = receipt.reports[r].results[i].transcript
            /\ b.validator = artifacts["plan"].text.collector
            /\ \A k \in AllKinds : b.references[artifacts[k].path] = artifacts[k].text

\* The sources at version v are the ones that the receipt at version v is about.
OwnEvidence(v) == FixedBy(Content("receipt", v), [s \in Sources |-> Content(s, v)])

\* The archive was renamed whole, and a finalizer that reports success left its
\* own archive in place, also when two run for one destination (archive,
\* 2138-2171).
SuccessIsArchived ==
    /\ Archived => dest.whole
    /\ \A f \in Finalizers : pc[f] = "done" => Archived /\ dest.by = f

\* A finalizer that ended by itself has no stage directory left, unless rmtree
\* itself failed (archive, 2172-2175).
NoStageLeft ==
    \A f \in Finalizers :
        pc[f] \in {"done", "failed"} => stage[f] \in {"none", "leftover"}

\* No transcript of a published archive stands for two results, and the reference
\* runs of a target are two (validate_report_and_capture_logs,
\* validate_approval_and_capture, archive 2008-2017).
ArchivedRunsAreDistinct == Archived => DistinctEvidence(ArchiveBundle)

\* In a published archive both Candle runs and both reference runs of each target
\* show the same theorems and the same kernel state.
ArchivedIdentityIsWitnessed == Archived => WitnessedIdentity(ArchiveBundle)

\* Each transcript of a published archive is the output of one complete process
\* that verified its link before it printed any fingerprint (validate_transcript).
ArchivedProcessesAreWhole == Archived => OneProcessEach(ArchiveBundle)

\* All runs of a published archive used the executable, sources and validator
\* archived with them.
ArchivedInputsAreUsed == Archived => SameInputs(ArchiveBundle)

Store ==
    INSTANCE ArchiveStore WITH
        None <- <<>>,
        Whole <- Finalizers \X [Sources -> Versions \X Versions],
        archive <- IF Archived THEN <<dest.by, dest.bytes>> ELSE <<>>

\* The destination goes from nothing to one whole archive, once (archive, 2164-2171).
StoreSpec == Store!Spec

=============================================================================
