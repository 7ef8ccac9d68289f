-------------------------- MODULE ExportSupervisor --------------------------
(***************************************************************************)
(* run-restartable-flyspeck-export.sh: one state directory, one output     *)
(* trace, and the generations of a producer that writes the trace.  A      *)
(* generation runs until it has recorded a boundary in status.tsv and has  *)
(* been checkpointed and killed, until the trace is complete, or until it  *)
(* fails; the supervisor then restores the newest image.  The same command *)
(* is run again after an interruption.                                     *)
(*                                                                         *)
(* The producer and DMTCP are not part of the repository.  They are        *)
(* modelled from what the script requires of them: the order of boundary,  *)
(* status and image, and a restore that truncates before it continues.     *)
(***************************************************************************)
EXTENDS Naturals

CONSTANTS Total,          \* length of a whole trace, in boundary positions
          MaxGenerations, \* max_generations
          Budget,         \* bound: faults in a behaviour
          Faults          \* which faults: "stop", "failure"

ASSUME ExportAssumption ==
    /\ Total \in Nat \ {0} /\ MaxGenerations \in Nat \ {0} /\ Budget \in Nat
    /\ Faults \subseteq {"stop", "failure"}

VARIABLES
    stateDir,   \* the state directory and run.conf
    status,     \* status.tsv: phase and byte offset
    output,     \* length of the trace
    images,     \* boundaries of the images on disk; a later image is further
    logs,       \* the highest number of a generation log
    pc,         \* where the supervisor is
    generation, \* its loop variable
    restored,   \* boundary of the image this generation was restored from
    checkpoint, \* boundary of the image that is now at that image's path
    producer,   \* the producer process
    result,     \* how the last invocation of the command has ended
    faults      \* how many faults there were

disk == <<stateDir, status, output, images, logs>>
image == <<restored, checkpoint>>
vars == <<disk, pc, generation, image, producer, result, faults>>

Positions == {"exited", "check", "config", "initial", "loop", "running",
              "recover", "prune", "finish", "clean"}

Results == {"none", "0", "invalid", "refused", "shorter", "limit", "failed",
            "stopped"}

Init ==
    /\ stateDir = "absent"
    /\ status = [phase |-> "none", offset |-> 0]
    /\ output = 0 /\ images = {} /\ logs = 0
    /\ pc = "exited" /\ generation = 0 /\ restored = 0 /\ checkpoint = 0
    /\ producer = "none" /\ result = "none" /\ faults = 0

----------------------------------------------------------------------------
(* The supervisor                                                          *)

Goto(place) == pc' = place /\ UNCHANGED result

Exit(code) == pc' = "exited" /\ result' = code

Restartable == status.phase \in {"checkpoint", "resumed"}

\* A bug: sort -n without -r.
Oldest(file) == file \in images /\ \A other \in images : other >= file

\* latest_checkpoint.
Newest(file) == file \in images /\ \A other \in images : other <= file

Fault(kind) ==
    /\ kind \in Faults /\ faults < Budget
    /\ faults' = faults + 1

Launch ==
    /\ pc = "exited" /\ producer = "none"
    /\ pc' = "check" /\ result' = "none"
    /\ UNCHANGED <<disk, generation, image, producer, faults>>

\* A fresh run: mkdir -p, with run.conf still to be written.
Fresh ==
    /\ pc = "check" /\ stateDir = "absent"
    /\ stateDir' = "bare"
    /\ Goto("config")
    /\ UNCHANGED <<status, output, images, logs, generation, image, producer,
                   faults>>

\* run.conf, then run_initial_generation.
WriteConfig ==
    /\ pc = "config"
    /\ stateDir' = "ready"
    /\ restored' = 0 /\ checkpoint' = 0
    /\ producer' = "running"
    /\ Goto("initial")
    /\ UNCHANGED <<status, output, images, logs, generation, faults>>

\* set -e: an initial generation that fails ends the command.
EndInitial ==
    /\ pc = "initial"
    /\ \/ producer = "ended" /\ generation' = 1 /\ Goto("loop")
       \/ producer = "failed" /\ Exit("failed") /\ UNCHANGED generation
    /\ producer' = "none"
    /\ UNCHANGED <<disk, image, faults>>

\* A resumed run goes on after the last generation that has a log.
Resume ==
    /\ pc = "check" /\ stateDir # "absent"
    /\ \/ stateDir = "bare" /\ Exit("invalid") /\ UNCHANGED generation
       \/ stateDir = "ready" /\ generation' = logs + 1 /\ Goto("loop")
    /\ UNCHANGED <<disk, image, producer, faults>>

\* The loop ends at the limit, or on a status that says complete.
EndLoop ==
    /\ pc = "loop"
    /\ \/ generation > MaxGenerations /\ Exit("limit")
       \/ /\ generation <= MaxGenerations /\ status.phase = "complete"
          /\ Goto("finish")
    /\ UNCHANGED <<disk, generation, image, producer, faults>>

\* No restartable boundary, or no image to restart from.
Refuse ==
    /\ pc = "loop" /\ generation <= MaxGenerations
    /\ status.phase # "complete"
    /\ ~Restartable \/ images = {}
    /\ Exit("refused")
    /\ UNCHANGED <<disk, generation, image, producer, faults>>

\* A bug: one generation more than the limit allows.
RestartBeyond ==
    /\ pc = "loop" /\ generation <= MaxGenerations + 1
    /\ Restartable
    /\ \E file \in images :
           Newest(file) /\ restored' = file /\ checkpoint' = file
    /\ logs' = generation
    /\ producer' = "restoring"
    /\ Goto("running")
    /\ UNCHANGED <<stateDir, status, output, images, generation, faults>>

\* run_restart_generation, which creates the log of the generation.
Restart ==
    /\ pc = "loop" /\ generation <= MaxGenerations
    /\ Restartable
    /\ \E file \in images :
           Newest(file) /\ restored' = file /\ checkpoint' = file
    /\ logs' = generation
    /\ producer' = "restoring"
    /\ Goto("running")
    /\ UNCHANGED <<stateDir, status, output, images, generation, faults>>

EndGeneration ==
    /\ pc = "running"
    /\ \/ producer = "ended" /\ Goto("prune")
       \/ producer = "failed" /\ Goto("recover")
    /\ producer' = "none"
    /\ UNCHANGED <<disk, generation, image, faults>>

\* A bug: the trace is cut back whatever the status says.
CutAnyway ==
    /\ pc = "recover"
    /\ output' = restored
    /\ generation' = generation + 1
    /\ Goto("loop")
    /\ UNCHANGED <<stateDir, status, images, logs, image, producer, faults>>

\* A failed generation: back to the recorded boundary, and once more.
Recover ==
    /\ pc = "recover"
    /\ \/ /\ ~Restartable
          /\ Exit("failed")
          /\ UNCHANGED <<output, generation>>
       \/ /\ Restartable /\ output < status.offset
          /\ Exit("shorter")
          /\ UNCHANGED <<output, generation>>
       \/ /\ Restartable /\ output >= status.offset
          /\ output' = status.offset
          /\ generation' = generation + 1
          /\ Goto("loop")
    /\ UNCHANGED <<stateDir, status, images, logs, image, producer, faults>>

\* A bug: the path of the restored image is removed unconditionally.
PruneAnyway ==
    /\ pc = "prune"
    /\ images' = images \ {checkpoint}
    /\ generation' = generation + 1
    /\ Goto("loop")
    /\ UNCHANGED <<stateDir, status, output, logs, image, producer, faults>>

\* The path of the restored image is removed once the trace is complete or
\* the newest image is at another path.
Prune ==
    /\ pc = "prune"
    /\ \/ /\ status.phase = "complete" \/ (images # {} /\ ~Newest(checkpoint))
          /\ images' = images \ {checkpoint}
       \/ /\ status.phase # "complete" /\ (images = {} \/ Newest(checkpoint))
          /\ UNCHANGED images
    /\ generation' = generation + 1
    /\ Goto("loop")
    /\ UNCHANGED <<stateDir, status, output, logs, image, producer, faults>>

\* Structural inspection, SHA256SUMS, replay and summary.
Finish ==
    /\ pc = "finish"
    /\ \/ Goto("clean") /\ UNCHANGED faults
       \/ Fault("failure") /\ Exit("failed")
    /\ UNCHANGED <<disk, generation, image, producer>>

\* The images are removed, unless CANDLE_KEEP_FINAL_CHECKPOINT says no.
Clean ==
    /\ pc = "clean"
    /\ images' \in {images, {}}
    /\ Exit("0")
    /\ UNCHANGED <<stateDir, status, output, logs, generation, image, producer,
                   faults>>

----------------------------------------------------------------------------
(* The producer under DMTCP                                                *)

\* restore_pft_stream_checkpoint: what is after the boundary is cut off, ...
CutTail ==
    /\ producer = "restoring"
    /\ output' = restored
    /\ producer' = "resuming"
    /\ UNCHANGED <<stateDir, status, images, logs, pc, generation, image,
                   result, faults>>

\* ... and the status says that the generation goes on from there.
SayResumed ==
    /\ producer = "resuming"
    /\ status' = [phase |-> "resumed", offset |-> restored]
    /\ producer' = "running"
    /\ UNCHANGED <<stateDir, output, images, logs, pc, generation, image,
                   result, faults>>

Write ==
    /\ producer = "running" /\ output < Total
    /\ output' = output + 1
    /\ UNCHANGED <<stateDir, status, images, logs, pc, generation, image,
                   producer, result, faults>>

\* The boundary is recorded before DMTCP is asked for the image.
RecordBoundary ==
    /\ producer = "running" /\ restored < output /\ output < Total
    /\ status' = [phase |-> "checkpoint", offset |-> output]
    /\ producer' = "requested"
    /\ UNCHANGED <<stateDir, output, images, logs, pc, generation, image,
                   result, faults>>

\* Checkpoint and kill: the image is at a path of its own, or it replaces
\* the one that was restored.
TakeImage ==
    /\ producer = "requested"
    /\ \/ images' = images \cup {output} /\ UNCHANGED checkpoint
       \/ /\ restored > 0
          /\ images' = (images \ {checkpoint}) \cup {output}
          /\ checkpoint' = output
    /\ producer' = "ended"
    /\ UNCHANGED <<stateDir, status, output, logs, pc, generation, restored,
                   result, faults>>

CompleteTrace ==
    /\ producer = "running" /\ output = Total
    /\ status' = [phase |-> "complete", offset |-> output]
    /\ producer' = "completed"
    /\ UNCHANGED <<stateDir, output, images, logs, pc, generation, image,
                   result, faults>>

EndProducer ==
    /\ producer = "completed"
    /\ producer' = "ended"
    /\ UNCHANGED <<disk, pc, generation, image, result, faults>>

Alive == {"restoring", "resuming", "running", "requested", "completed"}

Fail ==
    /\ producer \in Alive
    /\ Fault("failure")
    /\ producer' = "failed"
    /\ UNCHANGED <<disk, pc, generation, image, result>>

\* A reboot, or a signal to a supervisor whose cleanup quits the producer.
Stop ==
    /\ pc # "exited"
    /\ Fault("stop")
    /\ Exit("stopped")
    /\ producer' = "none"
    /\ UNCHANGED <<disk, generation, image>>

Supervisor ==
    \/ Fresh \/ WriteConfig \/ EndInitial \/ Resume
    \/ EndLoop \/ Refuse \/ Restart \/ EndGeneration
    \/ Recover \/ Prune \/ Finish \/ Clean

Producer ==
    \/ CutTail \/ SayResumed \/ Write \/ RecordBoundary
    \/ TakeImage \/ CompleteTrace \/ EndProducer

Next == Launch \/ Supervisor \/ Producer \/ Fail \/ Stop

\* Neither process hangs (timeout 86400), and the command is run again.
Fairness == WF_vars(Launch) /\ WF_vars(Supervisor) /\ WF_vars(Producer)

Spec == Init /\ [][Next]_vars /\ Fairness

----------------------------------------------------------------------------
(* Properties                                                              *)

TypeOK ==
    /\ stateDir \in {"absent", "bare", "ready"}
    /\ status \in [phase : {"none", "checkpoint", "resumed", "complete"},
                   offset : 0..Total]
    /\ output \in 0..Total
    /\ images \subseteq 1..Total
    /\ logs \in 0..MaxGenerations
    /\ pc \in Positions
    /\ generation \in 0..(MaxGenerations + 1)
    /\ restored \in 0..Total /\ checkpoint \in 0..Total
    /\ producer \in Alive \cup {"none", "ended", "failed"}
    /\ result \in Results
    /\ faults \in 0..Budget

\* Every image on disk can be restored at any time: the trace still holds all
\* of what was written before its boundary, whatever was cut off since, so a
\* restore never extends the trace with bytes that nobody wrote.
ImagesAreBehindTrace == \A file \in images : file <= output

\* A trace that is not complete keeps an image to go on from: once a first
\* generation has ended well, pruning never removes the last one.
\* (latest_checkpoint and the comparison before the deletion, 304-309.)
NeverWithoutImage == restored > 0 => images # {} \/ status.phase = "complete"

\* Exit status 0 and a status that says complete stand for a whole trace.
CompleteIsWhole ==
    result = "0" \/ status.phase = "complete" =>
        status.phase = "complete" /\ output = Total

\* Once there is an image, the command run again and again ends with a
\* complete trace or at the limit: no failure, stop or retry before the limit
\* ends where it cannot go on.
ImagedRunsFinish == images # {} ~> result \in {"0", "limit"}

\* "generation limit reached without completion": what the message says.
LimitMeansIncomplete == result = "limit" => status.phase # "complete"

=============================================================================
