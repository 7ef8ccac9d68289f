------------------------- MODULE AttemptPublication -------------------------
(***************************************************************************)
(* The receipts of one attempt directory, from the end of the collector to *)
(* the last scan of it: collect_target publishes success.json or           *)
(* failure.json, the controller may be killed and the machine may lose     *)
(* power between any two system calls, and every later run of the          *)
(* controller recovers the directory and reports the attempt (scan_target).*)
(*                                                                         *)
(* success.json is published through .success.json.pending only, and       *)
(* failure.json through .failure.json.pending, so inodes and terminal      *)
(* names are both named after the kind of receipt.                         *)
(***************************************************************************)
EXTENDS LinkPublication

CONSTANT Faults \* what may happen to the controller: "kill", "power"

VARIABLE verdict \* what the last completed scan reported, "none" before it

vars == <<cache, disk, pc, job, verdict>>

Kinds == {"success", "failure"}

ASSUME AttemptAssumption ==
    /\ Inodes = Kinds
    /\ Terminals = Kinds
    /\ Faults \subseteq {"kill", "power"}

Job(k) == [inode |-> k, terminal |-> k]

RecoverStep(k) == IF k = "success" THEN "recoverSuccess" ELSE "recoverFailure"

AfterRecover(k) == IF k = "success" THEN "recoverFailure" ELSE "classify"

Positions ==
    PublishSteps \cup AliasSteps \cup
    {"collect", "recoverSuccess", "recoverFailure", "syncInterrupted",
     "classify", "reported", "refused", "down"}

Init ==
    /\ cache = EmptyDirectory
    /\ disk = EmptyDirectory
    /\ pc = "collect"
    /\ job = Job("success")
    /\ verdict = "none"

----------------------------------------------------------------------------
(* collect_target, once its processes have ended                           *)

\* The outcome is settled: publish a success or a failure receipt.
StartReceipt(k) ==
    /\ pc = "collect"
    /\ job' = Job(k)
    /\ pc' = "open"
    /\ UNCHANGED <<cache, disk, verdict>>

\* A CollectionFailure before the try block: no receipt, and a scan follows.
LeaveWithoutReceipt ==
    /\ pc = "collect"
    /\ pc' = "recoverSuccess"
    /\ UNCHANGED <<cache, disk, job, verdict>>

\* run() scans the attempt after collect_target, whichever way it ended.
FinishReceipt == SyncUnlink("recoverSuccess") /\ UNCHANGED verdict

----------------------------------------------------------------------------
(* scan_target on this attempt                                             *)

\* recover_attempt_publication, up to its first change of the directory.
RecoverPublication(k) ==
    /\ pc = RecoverStep(k)
    /\ \/ \* nothing pending: a terminal must be an ordinary sealed file
          /\ k \notin cache.pending
          /\ Require(HasTerminal(cache, k) => cache.mode[k] = "0444",
                     AfterRecover(k))
          /\ UNCHANGED <<cache, job>>
       \/ \* both names: the two links of one inode, or a conflict
          /\ k \in cache.pending /\ HasTerminal(cache, k)
          /\ Require(cache.terminal[k] = k /\ cache.mode[k] = "0444",
                     "aliasSync")
          /\ job' = Job(k)
          /\ UNCHANGED cache
       \/ \* pending only: kept as evidence, without write permission
          /\ PendingOnly(cache, k) /\ ~HasTerminal(cache, k)
          /\ pc' = IF cache.mode[k] = "0600" THEN "syncInterrupted"
                                             ELSE AfterRecover(k)
          /\ cache' = IF cache.mode[k] = "0600" THEN Chmodded(cache, k, "0400")
                                                ELSE cache
          /\ job' = Job(k)
    /\ UNCHANGED <<disk, verdict>>

\* seal_artifact's fsync and sync_parent_directory.
SyncInterrupted ==
    /\ pc = "syncInterrupted"
    /\ disk' = [FileSynced(job.inode) EXCEPT
                    !.pending = cache.pending, !.terminal = cache.terminal]
    /\ pc' = AfterRecover(job.inode)
    /\ UNCHANGED <<cache, job, verdict>>

RecoverAlias ==
    /\ SyncAlias \/ UnlinkAlias \/ SyncUnlinkedAlias(AfterRecover(job.inode))
    /\ UNCHANGED verdict

\* reject_cross_type_publications, validate_attempt_entries, and the test
\* for two terminals; a receipt that is reported must parse.
Coherent ==
    /\ \A k, other \in Kinds :
           k # other =>
               /\ ~(k \in cache.pending /\ other \in cache.pending)
               /\ ~(HasTerminal(cache, k) /\ other \in cache.pending)
               /\ ~(HasTerminal(cache, k) /\ HasTerminal(cache, other))
    /\ \A k \in Kinds : ~Aliased(cache, k)
    /\ \A k \in Kinds : HasTerminal(cache, k) => IsComplete(cache, k)

\* A bug: a complete pending receipt counts like a published one.
CountPending ==
    LET found == { k \in Kinds : \/ HasTerminal(cache, k)
                                 \/ k \in cache.pending /\ cache.mode[k] = "0444" }
    IN  /\ pc = "classify"
        /\ Require(Coherent, "reported")
        /\ verdict' = IF ~Coherent THEN verdict
                      ELSE IF found = {} THEN "interrupted"
                      ELSE CHOOSE k \in found : TRUE
        /\ UNCHANGED <<cache, disk, job>>

\* The rest of scan_target.  An attempt without a receipt is interrupted,
\* and what is left of it is sealed and synced.
Classify ==
    LET found == { k \in Kinds : HasTerminal(cache, k) }
    IN  /\ pc = "classify"
        /\ Require(Coherent, "reported")
        /\ verdict' = IF ~Coherent THEN verdict
                      ELSE IF found = {} THEN "interrupted"
                      ELSE CHOOSE k \in found : TRUE
        /\ disk' = IF Coherent /\ found = {}
                   THEN [disk EXCEPT
                           !.data = [i \in Inodes |->
                               IF i \in cache.pending THEN cache.data[i] ELSE @[i]],
                           !.mode = [i \in Inodes |->
                               IF i \in cache.pending THEN cache.mode[i] ELSE @[i]]]
                   ELSE disk
        /\ UNCHANGED <<cache, job>>

\* The next attempt, of this or of another target, is followed by a scan.
Rescan ==
    /\ pc = "reported"
    /\ pc' = "recoverSuccess"
    /\ UNCHANGED <<cache, disk, job, verdict>>

----------------------------------------------------------------------------
(* The environment                                                         *)

\* SIGKILL at any point, an unhandled exception, or TERM and HUP, whose
\* exception can be raised wherever finish_link_publication and
\* recover_link_alias do not mask it.
Kill ==
    /\ "kill" \in Faults
    /\ pc # "down"
    /\ pc' = "down"
    /\ UNCHANGED <<cache, disk, job, verdict>>

PowerLoss ==
    /\ "power" \in Faults
    /\ pc' = "down"
    /\ LosePower
    /\ UNCHANGED <<job, verdict>>

\* The operator runs the same command again.
Restart ==
    /\ pc = "down"
    /\ pc' = "recoverSuccess"
    /\ UNCHANGED <<cache, disk, job, verdict>>

Publishing == PublishStep /\ UNCHANGED verdict

Next ==
    \/ \E k \in Kinds : StartReceipt(k)
    \/ LeaveWithoutReceipt
    \/ Publishing
    \/ FinishReceipt
    \/ \E k \in Kinds : RecoverPublication(k)
    \/ SyncInterrupted
    \/ RecoverAlias
    \/ Classify
    \/ Rescan
    \/ Kill
    \/ PowerLoss
    \/ Restart

Spec == Init /\ [][Next]_vars

----------------------------------------------------------------------------
(* Properties                                                              *)

TypeOK ==
    /\ cache \in Directory
    /\ disk \in Directory
    /\ pc \in Positions
    /\ job \in [inode : Kinds, terminal : Kinds]
    /\ verdict \in Kinds \cup {"none", "interrupted"}

\* Whatever faults hit publish_terminal or the recovery, and in whatever
\* order, a receipt that has its terminal name has all its bytes and is
\* read-only: no reader and no later run ever meets a truncated receipt.
NoTruncatedReceipt ==
    \A k \in Kinds :
        HasTerminal(cache, k) =>
            /\ cache.terminal[k] = k
            /\ IsComplete(cache, k)
            /\ cache.mode[k] = "0444"

\* scan_target never fails closed on what kills, power losses and earlier
\* scans left behind, so that running the command again always resumes.
NeverWedged == pc # "refused"

\* A receipt whose pending alias is gone is on stable storage: this is what
\* lets a scan count it without syncing anything.
CountedIsDurable ==
    \A k \in Kinds :
        HasTerminal(cache, k) /\ k \notin cache.pending =>
            /\ disk.terminal[k] = k
            /\ disk.data[k] = Size
            /\ disk.mode[k] = "0444"

DurableReceipt ==
    IF disk.terminal["success"] # NoInode THEN "success"
    ELSE IF disk.terminal["failure"] # NoInode THEN "failure"
    ELSE "none"

OneShot == INSTANCE OneShotReceipt WITH
               receipt <- DurableReceipt, reported <- verdict

\* The directory implements the promise of OneShotReceipt.
ImplementsOneShot == OneShot!Spec

=============================================================================
