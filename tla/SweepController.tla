-------------------------- MODULE SweepController --------------------------
(***************************************************************************)
(* run(): the two-sweep reference collection under one artifact root, by   *)
(* several invocations of the controller at once or one after the other.   *)
(* A run of the controller takes the lock, recovers, scans all evidence,   *)
(* writes the aggregate receipt and status, and collects the first pending *)
(* target run, in a loop, until all are complete or one fails.             *)
(*                                                                         *)
(* The lock is an flock on an open file description that the controller    *)
(* passes to every process group it starts: it is held until the last      *)
(* process of them is gone.  The groups of a killed controller live on as  *)
(* orphans and write into the attempt directory they were started for.  So *)
(* does a member of a group that outlives the group's leader, whether the  *)
(* controller is alive or not: run_process waits for the leader and for    *)
(* the pipes only, and a group without its leader is signalled no more.    *)
(*                                                                         *)
(* The receipts of an attempt and the contract are published and recovered *)
(* in one step here; AttemptPublication and ContractPublication show that  *)
(* this is what their system calls amount to.                              *)
(***************************************************************************)
EXTENDS Naturals, FiniteSets

CONSTANTS Controllers, \* the processes that invocations of the command run in
          Runs,        \* SWEEP_COUNT * EXPECTED_TARGETS, in sweep, target order
          MaxBytes,    \* bound: writes of a collector into its attempt
          Budget,      \* bound: faults in a behaviour
          Faults       \* "kill", "signal", "process", "member" or "power"

ASSUME SweepAssumption ==
    /\ Runs \in Nat \ {0} /\ MaxBytes \in Nat /\ Budget \in Nat
    /\ Faults \subseteq {"kill", "signal", "process", "member", "power"}

\* Every attempt at a run but the first follows a fault.
Attempts == 1..(Budget + 1)

VARIABLES
    evidence,  \* per run and attempt number, the attempt directory
    receipt,   \* receipt.json: the evidence as the writer of it saw it
    status,    \* status.json: the receipt it is bound to
    temporary, \* which of .receipt.json.new and .status.json.new exist
    pc,        \* where each controller is
    view,      \* what its last scan_all returned
    work,      \* the run and the attempt it is collecting
    record,    \* the artifacts of that attempt as it has hashed them
    validated, \* its validation_cache
    leaving,   \* whether it returns 1 after the next aggregate
    child,     \* the process group it has started, alive also when it is dead
    members,   \* processes that outlived the leader: kind and attempt
    lock,      \* who keeps its lock's file description open
    result,    \* what its last invocation returned
    faults     \* how many faults there were

aggregate == <<receipt, status, temporary>>
local == <<view, work, record, validated, leaving>>
groups == <<child, members>>
vars == <<evidence, aggregate, pc, local, groups, lock, result, faults>>

States == {"absent", "open", "success", "failure"}

Slots == (1..Runs) \X Attempts

\* An attempt directory: how it ended, its artifacts, the artifacts as its
\* receipt records them, and whether a process that outlived the leader of its
\* group has written to it, which no guard reads.
Directory ==
    [state : States, bytes : 0..MaxBytes, recorded : 0..MaxBytes, late : BOOLEAN]

Absent == [state |-> "absent", bytes |-> 0, recorded |-> 0, late |-> FALSE]

NoEvidence == [slot \in Slots |-> Absent]

Positions ==
    {"exited", "flock", "recover", "scan", "revalidating", "stageReceipt",
     "replaceReceipt", "stageStatus", "replaceStatus", "done", "fail", "mkdir",
     "start", "collecting", "validate", "validating", "recordFailure",
     "publishSuccess", "publishFailure"}

Init ==
    /\ evidence = NoEvidence
    /\ receipt = NoEvidence /\ status = NoEvidence /\ temporary = {}
    /\ pc = [c \in Controllers |-> "exited"]
    /\ view = [c \in Controllers |-> NoEvidence]
    /\ work = [c \in Controllers |-> <<1, 1>>]
    /\ record = [c \in Controllers |-> 0]
    /\ validated = [c \in Controllers |-> {}]
    /\ leaving = [c \in Controllers |-> FALSE]
    /\ child = [c \in Controllers |-> "none"]
    /\ members = [c \in Controllers |-> {}]
    /\ lock = [c \in Controllers |-> {}]
    /\ result = [c \in Controllers |-> "none"]
    /\ faults = 0

----------------------------------------------------------------------------
(* What a scan computes                                                    *)

Present(e, r) == { n \in Attempts : e[<<r, n>>].state # "absent" }

Successes(e, r) == { n \in Attempts : e[<<r, n>>].state = "success" }

Complete(e, r) == Successes(e, r) # {}

Closed(e) == \A r \in 1..Runs : Complete(e, r)

\* scan_target: attempts are numbered from 1, and a success is the last one.
Numbered(e) ==
    \A r \in 1..Runs :
        /\ Present(e, r) = 1..Cardinality(Present(e, r))
        /\ \A n \in Successes(e, r) : \A m \in Present(e, r) : m <= n

\* scan_all: the complete runs come before the pending ones.
WithoutGap(e) ==
    \A r \in 1..Runs : Complete(e, r) => \A q \in 1..(r - 1) : Complete(e, q)

\* The artifacts below a receipt are the ones that it records.
Unchanged(e) ==
    \A slot \in Slots :
        e[slot].state \in {"success", "failure"} => e[slot].bytes = e[slot].recorded

Accepted(e) == Numbered(e) /\ WithoutGap(e) /\ Unchanged(e)

----------------------------------------------------------------------------
(* Processes                                                               *)

Goto(c, place) == pc' = [pc EXCEPT ![c] = place]

\* The controller is gone: its descriptor of the lock file is closed.
Exit(c, code) ==
    /\ Goto(c, "exited")
    /\ result' = [result EXCEPT ![c] = code]
    /\ lock' = [lock EXCEPT ![c] = @ \ {"controller"}]

\* A bug: close_fds without pass_fds.
SpawnedWithoutLock(c) == lock' = lock

\* A process group is started with the lock's descriptor in pass_fds.
Spawned(c) == lock' = [lock EXCEPT ![c] = @ \cup {"child"}]

Start(c, kind) ==
    /\ child' = [child EXCEPT ![c] = kind]
    /\ Spawned(c)
    /\ UNCHANGED members

\* The lock's descriptor is open in a group as long as a process of it lives.
ReleasedUnless(c, quiet) ==
    lock' = [lock EXCEPT ![c] = IF quiet = {} THEN @ \ {"child"} ELSE @]

\* The group is gone, what has outlived the leaders of it or of earlier ones
\* is not.
Reap(c) ==
    /\ child' = [child EXCEPT ![c] = "none"]
    /\ ReleasedUnless(c, members[c])
    /\ UNCHANGED members

\* A file that changes while it is read is an error of stable_bytes.
Disturbed(c, slot) == <<"collect", slot>> \in members[c]

\* One more of the faults that a behaviour may have.
Fault(kind) ==
    /\ kind \in Faults /\ faults < Budget
    /\ faults' = faults + 1

----------------------------------------------------------------------------
(* run(), up to the first scan                                             *)

Launch(c) ==
    /\ pc[c] = "exited" /\ child[c] = "none" /\ members[c] = {}
    /\ Goto(c, "flock")
    /\ result' = [result EXCEPT ![c] = "none"]
    /\ UNCHANGED <<evidence, aggregate, local, groups, lock, faults>>

\* LOCK_EX | LOCK_NB, refused while any open description is locked.
Flock(c) ==
    /\ pc[c] = "flock"
    /\ \/ /\ \A other \in Controllers : lock[other] = {}
          /\ lock' = [lock EXCEPT ![c] = {"controller"}]
          /\ Goto(c, "recover")
          /\ UNCHANGED result
       \/ /\ \E other \in Controllers : lock[other] # {}
          /\ Exit(c, "1")
    /\ UNCHANGED <<evidence, aggregate, local, groups, faults>>

\* A bug: the temporaries of a killed controller are left to stop the next.
KeepTemporaries(c) ==
    /\ pc[c] = "recover"
    /\ validated' = [validated EXCEPT ![c] = {}]
    /\ leaving' = [leaving EXCEPT ![c] = FALSE]
    /\ Goto(c, "scan")
    /\ UNCHANGED <<evidence, aggregate, view, work, record, groups, lock, result, faults>>

\* A bug: what was interrupted gets a failure receipt from the next run.
FailInterrupted(c) ==
    /\ pc[c] = "recover"
    /\ evidence' = [slot \in Slots |->
                        IF evidence[slot].state # "open" THEN evidence[slot]
                        ELSE [evidence[slot] EXCEPT !.state = "failure",
                                                    !.recorded = evidence[slot].bytes]]
    /\ temporary' = {}
    /\ validated' = [validated EXCEPT ![c] = {}]
    /\ leaving' = [leaving EXCEPT ![c] = FALSE]
    /\ Goto(c, "scan")
    /\ UNCHANGED <<receipt, status, view, work, record, groups, lock, result, faults>>

\* recover_atomic_temporaries; the contract; ensure_sweep_directories.
Recover(c) ==
    /\ pc[c] = "recover"
    /\ temporary' = {}
    /\ validated' = [validated EXCEPT ![c] = {}]
    /\ leaving' = [leaving EXCEPT ![c] = FALSE]
    /\ Goto(c, "scan")
    /\ UNCHANGED <<evidence, receipt, status, view, work, record, groups, lock,
                   result, faults>>

----------------------------------------------------------------------------
(* scan_all and write_aggregate                                            *)

Unvalidated(c) ==
    { slot \in Slots : evidence[slot].state = "success" } \ validated[c]

\* validate_success_receipt runs the validator for a success that this
\* invocation has not validated.
Revalidate(c) ==
    /\ pc[c] = "scan" /\ Accepted(evidence) /\ Unvalidated(c) # {}
    /\ Start(c, "validate")
    /\ Goto(c, "revalidating")
    /\ UNCHANGED <<evidence, aggregate, local, result, faults>>

\* A validation that fails ends the invocation without a new aggregate.
EndRevalidation(c) ==
    /\ pc[c] = "revalidating" /\ child[c] = "none"
    /\ \/ /\ \E slot \in Unvalidated(c) :
                 validated' = [validated EXCEPT ![c] = @ \cup {slot}]
          /\ Goto(c, "scan")
          /\ UNCHANGED <<lock, result, faults>>
       \/ /\ Fault("process")
          /\ Exit(c, "1")
          /\ UNCHANGED validated
    /\ UNCHANGED <<evidence, aggregate, view, work, record, leaving, groups>>

Scan(c) ==
    /\ pc[c] = "scan"
    /\ \/ /\ Accepted(evidence) /\ Unvalidated(c) = {}
          /\ view' = [view EXCEPT ![c] = evidence]
          /\ Goto(c, "stageReceipt")
          /\ UNCHANGED <<lock, result>>
       \/ /\ ~Accepted(evidence) \/ \E slot \in Slots : Disturbed(c, slot)
          /\ Exit(c, "1")
          /\ UNCHANGED view
    /\ UNCHANGED <<evidence, aggregate, work, record, validated, leaving, groups,
                   faults>>

\* exclusive_write of the temporary: refused when one was left behind.
Stage(c, name, place, next) ==
    /\ pc[c] = place
    /\ \/ /\ name \notin temporary
          /\ temporary' = temporary \cup {name}
          /\ Goto(c, next)
          /\ UNCHANGED <<lock, result>>
       \/ /\ name \in temporary
          /\ Exit(c, "1")
          /\ UNCHANGED temporary
    /\ UNCHANGED <<evidence, receipt, status, local, groups, faults>>

\* A bug: the status is replaced before the receipt it is bound to.
StatusFirst(c) ==
    /\ pc[c] = "stageReceipt"
    /\ status' = view[c]
    /\ Goto(c, "replaceReceipt")
    /\ UNCHANGED <<evidence, receipt, temporary, local, groups, lock, result, faults>>

StageReceipt(c) == Stage(c, "receipt", "stageReceipt", "replaceReceipt")

\* os.replace and the directory sync after it.
ReplaceReceipt(c) ==
    /\ pc[c] = "replaceReceipt"
    /\ receipt' = view[c]
    /\ temporary' = temporary \ {"receipt"}
    /\ Goto(c, "stageStatus")
    /\ UNCHANGED <<evidence, status, local, groups, lock, result, faults>>

StageStatus(c) == Stage(c, "status", "stageStatus", "replaceStatus")

\* A bug: the loop ends as soon as a run has ended well.
ReturnEarly(c) ==
    /\ pc[c] = "replaceStatus"
    /\ status' = view[c]
    /\ temporary' = temporary \ {"status"}
    /\ Goto(c, IF leaving[c] THEN "fail"
               ELSE IF validated[c] # {} THEN "done" ELSE "mkdir")
    /\ UNCHANGED <<evidence, receipt, local, groups, lock, result, faults>>

\* The status is bound to the receipt this invocation has just written.
ReplaceStatus(c) ==
    /\ pc[c] = "replaceStatus"
    /\ status' = view[c]
    /\ temporary' = temporary \ {"status"}
    /\ Goto(c, IF leaving[c] THEN "fail"
               ELSE IF Closed(view[c]) THEN "done" ELSE "mkdir")
    /\ UNCHANGED <<evidence, receipt, local, groups, lock, result, faults>>

\* return 1 after a failed attempt, and the final validate_environment.
Return(c) ==
    /\ \/ pc[c] = "fail" /\ Exit(c, "1") /\ UNCHANGED faults
       \/ pc[c] = "done" /\ Exit(c, "0") /\ UNCHANGED faults
       \/ pc[c] = "done" /\ Fault("process") /\ Exit(c, "1")
    /\ UNCHANGED <<evidence, aggregate, local, groups>>

----------------------------------------------------------------------------
(* next_pending and collect_target                                         *)

\* A bug: a run that has failed gives way to the others.
AnyPending(c, slot) ==
    /\ ~Complete(view[c], slot[1])
    /\ slot[2] = Cardinality(Present(view[c], slot[1])) + 1

\* The first pending run of the receipt, and one more than its attempts.
NextPending(c, slot) ==
    /\ ~Complete(view[c], slot[1])
    /\ \A q \in 1..(slot[1] - 1) : Complete(view[c], q)
    /\ slot[2] = Cardinality(Present(view[c], slot[1])) + 1

MakeAttempt(c, slot) ==
    /\ pc[c] = "mkdir"
    /\ NextPending(c, slot)
    /\ \/ /\ evidence[slot].state = "absent"
          /\ evidence' = [evidence EXCEPT ![slot].state = "open"]
          /\ work' = [work EXCEPT ![c] = slot]
          /\ Goto(c, "start")
          /\ UNCHANGED <<lock, result>>
       \/ /\ evidence[slot].state # "absent"
          /\ Exit(c, "1")
          /\ UNCHANGED <<evidence, work>>
    /\ UNCHANGED <<aggregate, view, record, validated, leaving, groups, faults>>

\* A CollectionFailure that leaves no receipt: scan, aggregate, return 1.
GiveUp(c) ==
    /\ leaving' = [leaving EXCEPT ![c] = TRUE]
    /\ Goto(c, "scan")

StartCollector(c) ==
    /\ pc[c] = "start"
    /\ Start(c, "collect")
    /\ Goto(c, "collecting")
    /\ UNCHANGED <<evidence, aggregate, local, result, faults>>

\* validate_environment or Popen fails before a process exists.
CannotStart(c) ==
    /\ pc[c] = "start"
    /\ Fault("process")
    /\ GiveUp(c)
    /\ UNCHANGED <<evidence, aggregate, view, work, record, validated, groups, lock,
                   result>>

\* The deadline: the group is killed and its leader waited for.
Deadline(c) ==
    /\ pc[c] \in {"collecting", "validating"} /\ child[c] # "none"
    /\ Fault("process")
    /\ Reap(c)
    /\ Goto(c, "recordFailure")
    /\ UNCHANGED <<evidence, aggregate, local, result>>

\* The collector's leader has ended; collect.stdout and collect.stderr are
\* written first, and nothing is recorded when that is impossible.
EndCollector(c) ==
    /\ pc[c] = "collecting" /\ child[c] = "none"
    /\ \/ Goto(c, "validate") /\ UNCHANGED <<leaving, faults>>
       \/ Fault("process") /\ Goto(c, "recordFailure") /\ UNCHANGED leaving
       \/ Fault("process") /\ GiveUp(c)
    /\ UNCHANGED <<evidence, aggregate, view, work, record, validated, groups, lock,
                   result>>

\* The artifacts are hashed once, before the validator is started.
StartValidator(c) ==
    /\ pc[c] = "validate"
    /\ \/ /\ Start(c, "validate")
          /\ record' = [record EXCEPT ![c] = evidence[work[c]].bytes]
          /\ Goto(c, "validating")
       \/ /\ Disturbed(c, work[c])
          /\ Goto(c, "recordFailure")
          /\ UNCHANGED <<groups, lock, record>>
    /\ UNCHANGED <<evidence, aggregate, view, work, validated, leaving, result, faults>>

EndValidator(c) ==
    /\ pc[c] = "validating" /\ child[c] = "none"
    /\ \/ Goto(c, "publishSuccess") /\ UNCHANGED faults
       \/ Fault("process") /\ Goto(c, "recordFailure")
    /\ UNCHANGED <<evidence, aggregate, local, groups, lock, result>>

\* failure_artifacts seals and hashes what there is of a failed attempt.
RecordFailure(c) ==
    /\ pc[c] = "recordFailure"
    /\ \/ /\ record' = [record EXCEPT ![c] = evidence[work[c]].bytes]
          /\ Goto(c, "publishFailure")
          /\ UNCHANGED leaving
       \/ /\ Disturbed(c, work[c])
          /\ GiveUp(c)
          /\ UNCHANGED record
    /\ UNCHANGED <<evidence, aggregate, view, work, validated, groups, lock, result,
                   faults>>

\* A bug: the record covers the pending receipt, which is about to go.
RecordPending(c, outcome) ==
    evidence' = [evidence EXCEPT ![work[c]].state = outcome,
                                 ![work[c]].recorded = record[c] + 1]

\* A receipt names the artifacts as they were when they were hashed.
Publish(c, outcome) ==
    evidence' = [evidence EXCEPT ![work[c]].state = outcome,
                                 ![work[c]].recorded = record[c]]

PublishSuccess(c) ==
    /\ pc[c] = "publishSuccess"
    /\ Publish(c, "success")
    /\ validated' = [validated EXCEPT ![c] = @ \cup {work[c]}]
    /\ Goto(c, "scan")
    /\ UNCHANGED <<aggregate, view, work, record, leaving, groups, lock, result,
                   faults>>

PublishFailure(c) ==
    /\ pc[c] = "publishFailure"
    /\ Publish(c, "failure")
    /\ GiveUp(c)
    /\ UNCHANGED <<aggregate, view, work, record, validated, groups, lock, result, faults>>

----------------------------------------------------------------------------
(* Process groups, and the environment                                     *)

\* A collector writes artifacts, whether or not its controller is alive.
ChildWrites(c) ==
    /\ child[c] = "collect" /\ evidence[work[c]].bytes < MaxBytes
    /\ evidence' = [evidence EXCEPT ![work[c]].bytes = @ + 1]
    /\ UNCHANGED <<aggregate, pc, local, groups, lock, result, faults>>

\* The leader ends, and nobody of its group is left.
ChildExits(c) ==
    /\ child[c] # "none"
    /\ Reap(c)
    /\ UNCHANGED <<evidence, aggregate, pc, local, result, faults>>

\* The leader ends, by itself or by TERM, and a member that has its output
\* elsewhere lives on.
LeaderExits(c) ==
    /\ child[c] # "none"
    /\ Fault("member")
    /\ child' = [child EXCEPT ![c] = "none"]
    /\ members' = [members EXCEPT ![c] = @ \cup {<<child[c], work[c]>>}]
    /\ UNCHANGED <<evidence, aggregate, pc, local, lock, result>>

\* It writes what its collector had it write, before or after that is hashed.
MemberWrites(c) ==
    /\ \E slot \in Slots :
           /\ <<"collect", slot>> \in members[c] /\ evidence[slot].bytes < MaxBytes
           /\ evidence' = [evidence EXCEPT ![slot].bytes = @ + 1, ![slot].late = TRUE]
    /\ UNCHANGED <<aggregate, pc, local, groups, lock, result, faults>>

MemberEnds(c) ==
    /\ \E member \in members[c] :
           /\ members' = [members EXCEPT ![c] = @ \ {member}]
           /\ ReleasedUnless(c, IF child[c] = "none" THEN members[c] \ {member}
                                ELSE members[c])
    /\ UNCHANGED <<evidence, aggregate, pc, local, child, result, faults>>

\* SIGKILL of the controller: its process group is orphaned.
Kill(c) ==
    /\ pc[c] # "exited"
    /\ Fault("kill")
    /\ Exit(c, "killed")
    /\ UNCHANGED <<evidence, aggregate, local, groups>>

\* TERM or HUP: the group is terminated and its leader waited for, and the
\* controller's descriptor is closed; but between the expiry of a deadline and
\* the SIGKILL for it the leader is sent TERM and not waited for.
Signal(c) ==
    /\ pc[c] # "exited"
    /\ Fault("signal")
    /\ Goto(c, "exited")
    /\ result' = [result EXCEPT ![c] = "signal"]
    /\ child' = [child EXCEPT ![c] = "none"] \/ UNCHANGED child
    /\ lock' = [lock EXCEPT ![c] = IF child'[c] = "none" /\ members[c] = {} THEN {}
                                  ELSE @ \ {"controller"}]
    /\ UNCHANGED <<evidence, aggregate, local, members>>

\* No process survives.  What publications left is on disk, but no mkdir of
\* a sweep, target or attempt directory is ever synced in its parent.
PowerLoss ==
    /\ Fault("power")
    /\ \E lost \in SUBSET Slots :
           evidence' = [slot \in Slots |->
                            IF slot \in lost THEN Absent ELSE evidence[slot]]
    /\ temporary' \in SUBSET temporary
    /\ pc' = [c \in Controllers |-> "exited"]
    /\ child' = [c \in Controllers |-> "none"]
    /\ members' = [c \in Controllers |-> {}]
    /\ lock' = [c \in Controllers |-> {}]
    /\ result' = [c \in Controllers |-> "none"]
    /\ UNCHANGED <<receipt, status, local>>

\* What a live controller does by itself.
Step(c) ==
    \/ Flock(c) \/ Recover(c)
    \/ Revalidate(c) \/ EndRevalidation(c) \/ Scan(c)
    \/ StageReceipt(c) \/ ReplaceReceipt(c)
    \/ StageStatus(c) \/ ReplaceStatus(c)
    \/ Return(c)
    \/ \E slot \in Slots : MakeAttempt(c, slot)
    \/ StartCollector(c) \/ CannotStart(c) \/ Deadline(c) \/ EndCollector(c)
    \/ StartValidator(c) \/ EndValidator(c)
    \/ RecordFailure(c) \/ PublishSuccess(c) \/ PublishFailure(c)

\* What the processes do that a controller c has started.
GroupStep(c) ==
    ChildWrites(c) \/ ChildExits(c) \/ LeaderExits(c) \/ MemberWrites(c) \/ MemberEnds(c)

Next ==
    \/ \E c \in Controllers :
           \/ Launch(c)
           \/ Step(c)
           \/ GroupStep(c)
           \/ Kill(c)
           \/ Signal(c)
    \/ PowerLoss

\* A live controller goes on, the leader of a group ends by itself or is ended,
\* and the operator runs the command again.  Nothing ends a member that has
\* outlived its leader.
Fairness ==
    \A c \in Controllers :
        WF_vars(Launch(c)) /\ WF_vars(Step(c)) /\ WF_vars(ChildExits(c))

Spec == Init /\ [][Next]_vars /\ Fairness

----------------------------------------------------------------------------
(* Properties                                                              *)

TypeOK ==
    /\ evidence \in [Slots -> Directory]
    /\ receipt \in [Slots -> Directory] /\ status \in [Slots -> Directory]
    /\ temporary \subseteq {"receipt", "status"}
    /\ pc \in [Controllers -> Positions]
    /\ view \in [Controllers -> [Slots -> Directory]]
    /\ work \in [Controllers -> Slots]
    /\ record \in [Controllers -> 0..MaxBytes]
    /\ validated \in [Controllers -> SUBSET Slots]
    /\ leaving \in [Controllers -> BOOLEAN]
    /\ child \in [Controllers -> {"none", "collect", "validate"}]
    /\ members \in [Controllers -> SUBSET ({"collect", "validate"} \X Slots)]
    /\ lock \in [Controllers -> SUBSET {"controller", "child"}]
    /\ result \in [Controllers -> {"none", "0", "1", "killed", "signal"}]
    /\ faults \in 0..Budget

\* Whoever may write below the artifact root: an invocation that has taken
\* the lock, a process group, orphaned or not, or what is left of one.
Writers ==
    { c \in Controllers :
          pc[c] \notin {"exited", "flock"} \/ child[c] # "none" \/ members[c] # {} }

\* Neither SIGKILL nor a group that outlives its leader lets a second controller
\* in while what the first one has started can still write
\* (test_sigkill_orphans_keep_lock_...).
OneWriter == Cardinality(Writers) <= 1

\* The attempt is as it was, but for the writes of a process that outlived the
\* leader of its group.
StillHolds(now, then) ==
    \/ now = then
    \/ /\ now.late /\ then.bytes < now.bytes
       /\ now.state = then.state /\ now.recorded = then.recorded

\* Every row of the published aggregate agrees with the evidence below it:
\* nothing that was reported, an interrupted attempt included, is changed by a
\* later run, by an orphan, by a group that a signal has left at the expiry of a
\* deadline, or by a retry.  Only a process that outlived the leader of its own
\* group adds to its own attempt; no receipt and no record of it changes.
ReportedIsFrozen ==
    \A slot \in Slots :
        receipt[slot].state # "absent" => StillHolds(evidence[slot], receipt[slot])

\* The status never claims a run complete that the receipt beside it lacks,
\* whatever was killed between the two replacements.
StatusIsBehind ==
    \A r \in 1..Runs : Complete(status, r) => Complete(receipt, r)

\* Exit status 0 is the last word: all runs are complete on disk, and the receipt
\* and the status both say what is there, but for what a process adds that
\* outlived its leader.
ZeroMeansClosed ==
    \A c \in Controllers :
        result[c] = "0" =>
            /\ Closed(evidence)
            /\ \A slot \in Slots : /\ StillHolds(evidence[slot], receipt[slot])
                                  /\ StillHolds(evidence[slot], status[slot])

\* What is recorded of an artifact is not more than what is there, and less only
\* when a process that outlived its leader has written to the attempt.
OnlyLateChanges(e) ==
    \A slot \in Slots :
        e[slot].state \in {"success", "failure"} =>
            /\ e[slot].recorded <= e[slot].bytes
            /\ e[slot].late \/ e[slot].recorded = e[slot].bytes

\* No invocation is turned away by the evidence that earlier ones, killed or
\* not, have left, and the same command always resumes: the one thing that a
\* scan may refuse is an attempt that a process has written to which outlived
\* its leader, and that it does not end.
ScansAccept ==
    \A c \in Controllers :
        pc[c] = "scan" =>
            Numbered(evidence) /\ WithoutGap(evidence) /\ OnlyLateChanges(evidence)

Ledger(e) == [r \in 1..Runs |-> [n \in Attempts |-> e[<<r, n>>].state]]

Promise == INSTANCE SweepLedger WITH
               ledger <- Ledger(evidence), report <- Ledger(receipt)

\* The artifact root implements the ledger.
ImplementsLedger == Promise!Spec

\* When the faults have an end, running the command again closes the receipt,
\* with a status that says so.  Three things stop it: a gap among the
\* directories, which a power loss can leave, an attempt that was changed after
\* it was recorded, and a process that outlived its leader and never ends, which
\* keeps the lock.
EventuallyClosed ==
    \/ <>(Closed(receipt) /\ status = receipt)
    \/ <>~Accepted(evidence)
    \/ \E c \in Controllers : <>[](members[c] # {})

=============================================================================
