----------------------- MODULE ExportSupervisor_proofs -----------------------
(***************************************************************************)
(* Type correctness and the three safety invariants of ExportSupervisor,   *)
(* for every length of the trace, limit on generations and sequence of     *)
(* faults.                                                                 *)
(***************************************************************************)
EXTENDS ExportSupervisor, TLAPS

\* A producer that may still write to the trace or to the status.
Working == {"restoring", "resuming", "running", "requested"}

\* The recorded boundary covers every image, so that cutting the trace back
\* to it leaves all of them restorable.
BoundaryCoversImages == Restartable => \A file \in images : file <= status.offset

\* A producer was restored from the newest image, and no trace is complete
\* while it works.
WorksFromNewest ==
    producer \in Working =>
        /\ \A file \in images : file <= restored
        /\ status.phase # "complete"

\* The boundary is on disk before the image that it describes.
BoundaryBeforeImage ==
    producer = "requested" =>
        /\ status = [phase |-> "checkpoint", offset |-> output]
        /\ restored < output

\* Where the supervisor is, and what it knows there.
ControlFlow ==
    /\ producer # "none" => pc \in {"initial", "running"}
    /\ pc # "exited" => result = "none"
    /\ pc \in {"finish", "clean"} => status.phase = "complete"
    /\ pc = "config" => stateDir = "bare"
    /\ pc \in {"running", "recover", "prune"} => generation <= MaxGenerations

\* Before run.conf is there, nothing else is.
NothingYet ==
    stateDir # "ready" =>
        images = {} /\ status.phase = "none" /\ producer = "none" /\ restored = 0

IInv ==
    /\ TypeOK
    /\ ImagesAreBehindTrace
    /\ NeverWithoutImage
    /\ CompleteIsWhole
    /\ BoundaryCoversImages
    /\ WorksFromNewest
    /\ BoundaryBeforeImage
    /\ ControlFlow
    /\ NothingYet

----------------------------------------------------------------------------

\* A run begins with no state directory, no image and no process.
LEMMA InitIInv == Init => IInv
<1> SUFFICES ASSUME Init PROVE IInv
  OBVIOUS
<1>1. TypeOK
  BY ExportAssumption DEF Init, TypeOK, Positions, Results
<1>2. ImagesAreBehindTrace /\ NeverWithoutImage /\ CompleteIsWhole
  BY DEF Init, ImagesAreBehindTrace, NeverWithoutImage, CompleteIsWhole
<1>3. BoundaryCoversImages /\ WorksFromNewest /\ BoundaryBeforeImage
  BY DEF Init, BoundaryCoversImages, Restartable, WorksFromNewest, Working,
         BoundaryBeforeImage
<1>4. ControlFlow /\ NothingYet
  BY DEF Init, ControlFlow, NothingYet
<1> QED
  BY <1>1, <1>2, <1>3, <1>4 DEF IInv

\* Up to the loop, only the producer of the initial generation is started.
LEMMA StartsPreserve ==
  ASSUME IInv, Launch \/ Fresh \/ WriteConfig \/ EndInitial \/ Resume
  PROVE  IInv'
<1> USE ExportAssumption DEF IInv, Restartable, Working, Alive, disk, image
<1>1. CASE Launch
  BY <1>1 DEF Launch, TypeOK, ImagesAreBehindTrace, NeverWithoutImage,
         CompleteIsWhole, BoundaryCoversImages, WorksFromNewest,
         BoundaryBeforeImage, ControlFlow, NothingYet, Positions, Results
<1>2. CASE Fresh
  BY <1>2 DEF Fresh, Goto, TypeOK, ImagesAreBehindTrace, NeverWithoutImage,
         CompleteIsWhole, BoundaryCoversImages, WorksFromNewest,
         BoundaryBeforeImage, ControlFlow, NothingYet, Positions, Results
<1>3. CASE WriteConfig
  BY <1>3 DEF WriteConfig, Goto, TypeOK, ImagesAreBehindTrace,
         NeverWithoutImage, CompleteIsWhole, BoundaryCoversImages,
         WorksFromNewest, BoundaryBeforeImage, ControlFlow, NothingYet,
         Positions, Results
<1>4. CASE EndInitial
  BY <1>4 DEF EndInitial, Goto, Exit, TypeOK, ImagesAreBehindTrace,
         NeverWithoutImage, CompleteIsWhole, BoundaryCoversImages,
         WorksFromNewest, BoundaryBeforeImage, ControlFlow, NothingYet,
         Positions, Results
<1>5. CASE Resume
  BY <1>5 DEF Resume, Goto, Exit, TypeOK, ImagesAreBehindTrace,
         NeverWithoutImage, CompleteIsWhole, BoundaryCoversImages,
         WorksFromNewest, BoundaryBeforeImage, ControlFlow, NothingYet,
         Positions, Results
<1> QED
  BY <1>1, <1>2, <1>3, <1>4, <1>5

\* The loop restarts from the newest image, and cuts back to the boundary.
LEMMA LoopPreserves ==
  ASSUME IInv, EndLoop \/ Refuse \/ Restart \/ EndGeneration \/ Recover
  PROVE  IInv'
<1> USE ExportAssumption DEF IInv, Restartable, Working, Alive, disk, image
<1>1. CASE EndLoop
  BY <1>1 DEF EndLoop, Goto, Exit, TypeOK, ImagesAreBehindTrace,
         NeverWithoutImage, CompleteIsWhole, BoundaryCoversImages,
         WorksFromNewest, BoundaryBeforeImage, ControlFlow, NothingYet,
         Positions, Results
<1>2. CASE Refuse
  BY <1>2 DEF Refuse, Exit, TypeOK, ImagesAreBehindTrace, NeverWithoutImage,
         CompleteIsWhole, BoundaryCoversImages, WorksFromNewest,
         BoundaryBeforeImage, ControlFlow, NothingYet, Positions, Results
<1>3. CASE Restart
  BY <1>3 DEF Restart, Goto, Newest, TypeOK, ImagesAreBehindTrace,
         NeverWithoutImage, CompleteIsWhole, BoundaryCoversImages,
         WorksFromNewest, BoundaryBeforeImage, ControlFlow, NothingYet,
         Positions, Results
<1>4. CASE EndGeneration
  BY <1>4 DEF EndGeneration, Goto, TypeOK, ImagesAreBehindTrace,
         NeverWithoutImage, CompleteIsWhole, BoundaryCoversImages,
         WorksFromNewest, BoundaryBeforeImage, ControlFlow, NothingYet,
         Positions, Results
<1>5. CASE Recover
  BY <1>5 DEF Recover, Goto, Exit, TypeOK, ImagesAreBehindTrace,
         NeverWithoutImage, CompleteIsWhole, BoundaryCoversImages,
         WorksFromNewest, BoundaryBeforeImage, ControlFlow, NothingYet,
         Positions, Results
<1> QED
  BY <1>1, <1>2, <1>3, <1>4, <1>5

\* A restored image is removed only when a newer one is there to restore, or
\* when the trace is complete.
LEMMA PrunePreserves == IInv /\ Prune => IInv'
<1> SUFFICES ASSUME IInv, Prune PROVE IInv'
  OBVIOUS
<1>1. images' \subseteq images
  BY DEF Prune
<1>2. images # {} => images' # {} \/ status.phase = "complete"
  <2>1. CASE images' = images
    BY <2>1
  <2>2. CASE images # {} /\ ~Newest(checkpoint) /\ images' = images \ {checkpoint}
    <3>1. \E file \in images : file # checkpoint
      <4>1. CASE checkpoint \notin images
        BY <2>2, <4>1
      <4>2. CASE checkpoint \in images
        <5>1. PICK file \in images : ~(file <= checkpoint)
          BY <2>2, <4>2 DEF Newest
        <5>2. file # checkpoint
          BY <5>1, ExportAssumption DEF IInv, TypeOK
        <5> QED
          BY <5>2
      <4> QED
        BY <4>1, <4>2
    <3> QED
      BY <2>2, <3>1
  <2>3. CASE status.phase = "complete"
    BY <2>3
  <2> QED
    BY <2>1, <2>2, <2>3 DEF Prune
<1>3. UNCHANGED <<stateDir, status, output, logs, restored, checkpoint, producer,
                  result, faults>>
  BY DEF Prune, Goto, image
<1>4. generation' = generation + 1 /\ pc = "prune" /\ pc' = "loop"
  BY DEF Prune, Goto
<1>5. TypeOK'
  BY <1>1, <1>3, <1>4, ExportAssumption DEF IInv, TypeOK, ControlFlow, Positions
<1>6. ImagesAreBehindTrace' /\ NeverWithoutImage' /\ CompleteIsWhole'
  BY <1>1, <1>2, <1>3
     DEF IInv, ImagesAreBehindTrace, NeverWithoutImage, CompleteIsWhole
<1>7. BoundaryCoversImages' /\ WorksFromNewest' /\ BoundaryBeforeImage'
  BY <1>1, <1>3
     DEF IInv, BoundaryCoversImages, WorksFromNewest, BoundaryBeforeImage,
         Restartable, Working
<1>8. ControlFlow' /\ NothingYet'
  BY <1>1, <1>3, <1>4 DEF IInv, ControlFlow, NothingYet
<1> QED
  BY <1>5, <1>6, <1>7, <1>8 DEF IInv

\* After the loop the images go, and only a complete trace gets there.
LEMMA FinishPreserves ==
  ASSUME IInv, Finish \/ Clean
  PROVE  IInv'
<1> USE ExportAssumption DEF IInv, Restartable, Working, Alive, disk, image
<1>1. CASE Finish
  BY <1>1 DEF Finish, Goto, Exit, Fault, TypeOK, ImagesAreBehindTrace,
         NeverWithoutImage, CompleteIsWhole, BoundaryCoversImages,
         WorksFromNewest, BoundaryBeforeImage, ControlFlow, NothingYet,
         Positions, Results
<1>2. CASE Clean
  BY <1>2 DEF Clean, Exit, TypeOK, ImagesAreBehindTrace, NeverWithoutImage,
         CompleteIsWhole, BoundaryCoversImages, WorksFromNewest,
         BoundaryBeforeImage, ControlFlow, NothingYet, Positions, Results
<1> QED
  BY <1>1, <1>2

\* The producer works beyond the newest image until it ends or is stopped.
LEMMA ProducerPreserves ==
  ASSUME IInv, CutTail \/ SayResumed \/ Write \/ RecordBoundary \/ CompleteTrace \/
         EndProducer \/ Fail \/ Stop
  PROVE  IInv'
<1> USE ExportAssumption DEF IInv, Restartable, Working, Alive, disk, image
<1>1. CASE CutTail
  BY <1>1 DEF CutTail, TypeOK, ImagesAreBehindTrace, NeverWithoutImage,
         CompleteIsWhole, BoundaryCoversImages, WorksFromNewest,
         BoundaryBeforeImage, ControlFlow, NothingYet, Positions, Results
<1>2. CASE SayResumed
  BY <1>2 DEF SayResumed, TypeOK, ImagesAreBehindTrace, NeverWithoutImage,
         CompleteIsWhole, BoundaryCoversImages, WorksFromNewest,
         BoundaryBeforeImage, ControlFlow, NothingYet, Positions, Results
<1>3. CASE Write
  BY <1>3 DEF Write, TypeOK, ImagesAreBehindTrace, NeverWithoutImage,
         CompleteIsWhole, BoundaryCoversImages, WorksFromNewest,
         BoundaryBeforeImage, ControlFlow, NothingYet, Positions, Results
<1>4. CASE RecordBoundary
  BY <1>4 DEF RecordBoundary, TypeOK, ImagesAreBehindTrace, NeverWithoutImage,
         CompleteIsWhole, BoundaryCoversImages, WorksFromNewest,
         BoundaryBeforeImage, ControlFlow, NothingYet, Positions, Results
<1>5. CASE CompleteTrace
  BY <1>5 DEF CompleteTrace, TypeOK, ImagesAreBehindTrace, NeverWithoutImage,
         CompleteIsWhole, BoundaryCoversImages, WorksFromNewest,
         BoundaryBeforeImage, ControlFlow, NothingYet, Positions, Results
<1>6. CASE EndProducer
  BY <1>6 DEF EndProducer, TypeOK, ImagesAreBehindTrace, NeverWithoutImage,
         CompleteIsWhole, BoundaryCoversImages, WorksFromNewest,
         BoundaryBeforeImage, ControlFlow, NothingYet, Positions, Results
<1>7. CASE Fail
  BY <1>7 DEF Fail, Fault, TypeOK, ImagesAreBehindTrace, NeverWithoutImage,
         CompleteIsWhole, BoundaryCoversImages, WorksFromNewest,
         BoundaryBeforeImage, ControlFlow, NothingYet, Positions, Results
<1>8. CASE Stop
  BY <1>8 DEF Stop, Exit, Fault, TypeOK, ImagesAreBehindTrace,
         NeverWithoutImage, CompleteIsWhole, BoundaryCoversImages,
         WorksFromNewest, BoundaryBeforeImage, ControlFlow, NothingYet,
         Positions, Results
<1> QED
  BY <1>1, <1>2, <1>3, <1>4, <1>5, <1>6, <1>7, <1>8

\* The image of a recorded boundary is ahead of the others and not ahead of
\* the trace, at whichever path it is.
LEMMA TakeImagePreserves == IInv /\ TakeImage => IInv'
<1> SUFFICES ASSUME IInv, TakeImage PROVE IInv'
  OBVIOUS
<1>1. /\ producer = "requested" /\ producer' = "ended"
      /\ status = [phase |-> "checkpoint", offset |-> output]
      /\ restored < output
      /\ UNCHANGED <<stateDir, status, output, logs, pc, generation, restored,
                     result, faults>>
  BY DEF TakeImage, IInv, BoundaryBeforeImage
<1>2. output \in images' /\ images' \subseteq images \cup {output}
  BY DEF TakeImage
<1>3. checkpoint' \in {checkpoint, output}
  BY DEF TakeImage
<1>4. \A file \in images' : file <= output
  BY <1>1, <1>2, ExportAssumption DEF IInv, TypeOK, ImagesAreBehindTrace
<1>5. TypeOK'
  BY <1>1, <1>2, <1>3, ExportAssumption DEF IInv, TypeOK
<1>6. ImagesAreBehindTrace' /\ NeverWithoutImage' /\ CompleteIsWhole'
  BY <1>1, <1>2, <1>4
     DEF IInv, ImagesAreBehindTrace, NeverWithoutImage, CompleteIsWhole
<1>7. BoundaryCoversImages' /\ WorksFromNewest' /\ BoundaryBeforeImage'
  BY <1>1, <1>4 DEF BoundaryCoversImages, WorksFromNewest, BoundaryBeforeImage,
                    Working
<1>8. ControlFlow' /\ NothingYet'
  BY <1>1 DEF IInv, ControlFlow, NothingYet
<1> QED
  BY <1>5, <1>6, <1>7, <1>8 DEF IInv

\* Nothing changes, nothing is lost.
LEMMA StutterPreserves == IInv /\ UNCHANGED vars => IInv'
  BY DEF vars, disk, image, IInv, TypeOK, ImagesAreBehindTrace, NeverWithoutImage,
         CompleteIsWhole, BoundaryCoversImages, WorksFromNewest,
         BoundaryBeforeImage, ControlFlow, NothingYet, Restartable, Working

\* The inductive invariant holds in every state of every run of the command.
THEOREM Invariance == Spec => []IInv
<1>1. IInv /\ [Next]_vars => IInv'
  BY StartsPreserve, LoopPreserves, PrunePreserves, FinishPreserves,
     ProducerPreserves, TakeImagePreserves, StutterPreserves
     DEF Next, Supervisor, Producer
<1> QED
  BY InitIInv, <1>1, PTL DEF Spec

\* The phase, the offsets and the generation numbers stay in their ranges: no
\* log is numbered beyond max_generations (267-269).
THEOREM Typing == Spec => []TypeOK
<1>1. IInv => TypeOK
  BY DEF IInv
<1> QED
  BY Invariance, <1>1, PTL

\* Whatever fails or stops, no truncation (297) and no restore cuts the trace
\* to less than an image that is still on disk.
THEOREM ImagesStayRestorable == Spec => []ImagesAreBehindTrace
<1>1. IInv => ImagesAreBehindTrace
  BY DEF IInv
<1> QED
  BY Invariance, <1>1, PTL

\* The deletion of a restored image (304-309) never removes the last one of a
\* trace that is not complete.
THEOREM AnImageRemains == Spec => []NeverWithoutImage
<1>1. IInv => NeverWithoutImage
  BY DEF IInv
<1> QED
  BY Invariance, <1>1, PTL

\* A status that says complete, and exit status 0, stand for a whole trace
\* that no later recovery has cut.
THEOREM CompleteTracesAreWhole == Spec => []CompleteIsWhole
<1>1. IInv => CompleteIsWhole
  BY DEF IInv
<1> QED
  BY Invariance, <1>1, PTL

=============================================================================
