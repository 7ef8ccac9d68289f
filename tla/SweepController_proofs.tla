----------------------- MODULE SweepController_proofs -----------------------
(***************************************************************************)
(* For any number of controllers, target runs, writes and faults: type     *)
(* correctness of SweepController and that at most one invocation, or what *)
(* is left of its process groups, may write below the artifact root; and,  *)
(* unless power is lost, that what was reported is frozen, that exit       *)
(* status 0 means completion, and that every scan accepts what earlier     *)
(* runs have left, but for what a process adds to its own attempt that has *)
(* outlived the leader of its group; and that the artifact root implements *)
(* SweepLedger, whatever such processes do.                                *)
(***************************************************************************)
EXTENDS SweepController, FiniteSetTheorems, TLAPS

\* Positions at which a controller has no process group.
Childless ==
    {"flock", "recover", "scan", "stageReceipt", "replaceReceipt", "stageStatus",
     "replaceStatus", "done", "fail", "mkdir", "start", "validate",
     "recordFailure", "publishSuccess", "publishFailure"}

\* The lock is kept by whoever may write, and by one invocation at most.
LockInv ==
    /\ \A c \in Controllers :
        /\ pc[c] \notin {"exited", "flock"} => "controller" \in lock[c]
        /\ child[c] # "none" \/ members[c] # {} => "child" \in lock[c]
        /\ pc[c] \in Childless => child[c] = "none"
    /\ \A c, d \in Controllers : lock[c] # {} /\ lock[d] # {} => c = d

----------------------------------------------------------------------------
(* The lock                                                                *)

\* Nobody holds the lock at first.
LEMMA InitLock == Init => TypeOK /\ LockInv
<1> SUFFICES ASSUME Init PROVE TypeOK /\ LockInv
  OBVIOUS
<1>1. NoEvidence \in [Slots -> Directory]
  BY SweepAssumption DEF NoEvidence, Absent, Directory, States
<1>2. <<1, 1>> \in Slots
  BY SweepAssumption DEF Slots, Attempts
<1>3. TypeOK
  BY <1>1, <1>2, SweepAssumption DEF Init, TypeOK, Positions
<1>4. LockInv
  BY DEF Init, LockInv, Childless
<1> QED
  BY <1>3, <1>4

\* The steps of run() up to a scan and through the aggregate.
LEMMA AggregateKeepsTypes ==
  ASSUME TypeOK, NEW c \in Controllers,
         \/ Flock(c) \/ Recover(c) \/ Revalidate(c) \/ EndRevalidation(c) \/ Scan(c)
         \/ StageReceipt(c) \/ ReplaceReceipt(c) \/ StageStatus(c) \/ ReplaceStatus(c)
         \/ Return(c)
  PROVE  TypeOK'
<1>t. TypeOK
  OBVIOUS
<1>evidence. evidence \in [Slots -> Directory]
  BY DEF TypeOK
<1>temporary. temporary \subseteq {"receipt", "status"}
  BY DEF TypeOK
<1>pc. pc \in [Controllers -> Positions]
  BY DEF TypeOK
<1>view. view \in [Controllers -> [Slots -> Directory]]
  BY DEF TypeOK
<1>work. work \in [Controllers -> Slots]
  BY DEF TypeOK
<1>record. record \in [Controllers -> 0..MaxBytes]
  BY DEF TypeOK
<1>members. members \in [Controllers -> SUBSET ({"collect", "validate"} \X Slots)]
  BY DEF TypeOK
<1>validated. validated \in [Controllers -> SUBSET Slots]
  BY DEF TypeOK
<1>leaving. leaving \in [Controllers -> BOOLEAN]
  BY DEF TypeOK
<1>child. child \in [Controllers -> {"none", "collect", "validate"}]
  BY DEF TypeOK
<1>lock. lock \in [Controllers -> SUBSET {"controller", "child"}]
  BY DEF TypeOK
<1>result. result \in [Controllers -> {"none", "0", "1", "killed", "signal"}]
  BY DEF TypeOK
<1>faults. faults \in 0..Budget
  BY DEF TypeOK
<1>receipt. receipt \in [Slots -> Directory]
  BY DEF TypeOK
<1>status. status \in [Slots -> Directory]
  BY DEF TypeOK
<1>1. CASE Flock(c)
  <2>1. pc' \in [Controllers -> Positions]
    BY <1>1, <1>pc DEF Flock, Goto, Exit, Positions
  <2>2. lock' \in [Controllers -> SUBSET {"controller", "child"}]
    BY <1>1, <1>lock DEF Flock, Goto, Exit
  <2>3. result' \in [Controllers -> {"none", "0", "1", "killed", "signal"}]
    BY <1>1, <1>result DEF Flock, Goto, Exit
  <2>4. UNCHANGED <<evidence, receipt, status, temporary, view, work, record, validated, leaving, child, members, faults>>
    BY <1>1 DEF Flock, aggregate, local, groups
  <2> QED
    BY <1>t, <2>1, <2>2, <2>3, <2>4 DEF TypeOK
<1>2. CASE Recover(c)
  <2>1. temporary' \subseteq {"receipt", "status"}
    BY <1>2, <1>temporary DEF Recover
  <2>2. pc' \in [Controllers -> Positions]
    BY <1>2, <1>pc DEF Recover, Goto, Exit, Positions
  <2>3. validated' \in [Controllers -> SUBSET Slots]
    BY <1>2, <1>validated, <1>work DEF Recover
  <2>4. leaving' \in [Controllers -> BOOLEAN]
    BY <1>2, <1>leaving DEF Recover
  <2>5. UNCHANGED <<evidence, receipt, status, view, work, record, child, members, lock, result, faults>>
    BY <1>2 DEF Recover, aggregate, local, groups
  <2> QED
    BY <1>t, <2>1, <2>2, <2>3, <2>4, <2>5 DEF TypeOK
<1>3. CASE Revalidate(c)
  <2>1. pc' \in [Controllers -> Positions]
    BY <1>3, <1>pc DEF Revalidate, Start, Spawned, Goto, Exit, Positions
  <2>2. child' \in [Controllers -> {"none", "collect", "validate"}]
    BY <1>3, <1>child DEF Revalidate, Start, Spawned
  <2>3. lock' \in [Controllers -> SUBSET {"controller", "child"}]
    BY <1>3, <1>lock DEF Revalidate, Start, Spawned, Goto, Exit
  <2>4. UNCHANGED <<evidence, receipt, status, temporary, view, work, record, validated, leaving, members, result, faults>>
    BY <1>3 DEF Revalidate, Start, Spawned, aggregate, local, groups
  <2> QED
    BY <1>t, <2>1, <2>2, <2>3, <2>4 DEF TypeOK
<1>4. CASE EndRevalidation(c)
  <2>1. pc' \in [Controllers -> Positions]
    BY <1>4, <1>pc DEF EndRevalidation, Unvalidated, Goto, Exit, Positions
  <2>2. validated' \in [Controllers -> SUBSET Slots]
    BY <1>4, <1>validated, <1>work DEF EndRevalidation, Unvalidated
  <2>3. lock' \in [Controllers -> SUBSET {"controller", "child"}]
    BY <1>4, <1>lock DEF EndRevalidation, Unvalidated, Goto, Exit
  <2>4. result' \in [Controllers -> {"none", "0", "1", "killed", "signal"}]
    BY <1>4, <1>result DEF EndRevalidation, Unvalidated, Goto, Exit
  <2>5. faults' \in 0..Budget
    BY <1>4, <1>faults, SweepAssumption DEF EndRevalidation, Unvalidated, Fault
  <2>6. UNCHANGED <<evidence, receipt, status, temporary, view, work, record, leaving, child, members>>
    BY <1>4 DEF EndRevalidation, Unvalidated, aggregate, local, groups
  <2> QED
    BY <1>t, <2>1, <2>2, <2>3, <2>4, <2>5, <2>6 DEF TypeOK
<1>5. CASE Scan(c)
  <2>1. pc' \in [Controllers -> Positions]
    BY <1>5, <1>pc DEF Scan, Goto, Exit, Positions
  <2>2. view' \in [Controllers -> [Slots -> Directory]]
    BY <1>5, <1>view, <1>evidence DEF Scan
  <2>3. lock' \in [Controllers -> SUBSET {"controller", "child"}]
    BY <1>5, <1>lock DEF Scan, Goto, Exit
  <2>4. result' \in [Controllers -> {"none", "0", "1", "killed", "signal"}]
    BY <1>5, <1>result DEF Scan, Goto, Exit
  <2>5. UNCHANGED <<evidence, receipt, status, temporary, work, record, validated, leaving, child, members, faults>>
    BY <1>5 DEF Scan, aggregate, local, groups
  <2> QED
    BY <1>t, <2>1, <2>2, <2>3, <2>4, <2>5 DEF TypeOK
<1>6. CASE StageReceipt(c)
  <2>1. temporary' \subseteq {"receipt", "status"}
    BY <1>6, <1>temporary DEF StageReceipt, Stage
  <2>2. pc' \in [Controllers -> Positions]
    BY <1>6, <1>pc DEF StageReceipt, Stage, Goto, Exit, Positions
  <2>3. lock' \in [Controllers -> SUBSET {"controller", "child"}]
    BY <1>6, <1>lock DEF StageReceipt, Stage, Goto, Exit
  <2>4. result' \in [Controllers -> {"none", "0", "1", "killed", "signal"}]
    BY <1>6, <1>result DEF StageReceipt, Stage, Goto, Exit
  <2>5. UNCHANGED <<evidence, receipt, status, view, work, record, validated, leaving, child, members, faults>>
    BY <1>6 DEF StageReceipt, Stage, aggregate, local, groups
  <2> QED
    BY <1>t, <2>1, <2>2, <2>3, <2>4, <2>5 DEF TypeOK
<1>7. CASE ReplaceReceipt(c)
  <2>1. receipt' \in [Slots -> Directory]
    BY <1>7, <1>receipt, <1>view DEF ReplaceReceipt
  <2>2. temporary' \subseteq {"receipt", "status"}
    BY <1>7, <1>temporary DEF ReplaceReceipt
  <2>3. pc' \in [Controllers -> Positions]
    BY <1>7, <1>pc DEF ReplaceReceipt, Goto, Exit, Positions
  <2>4. UNCHANGED <<evidence, status, view, work, record, validated, leaving, child, members, lock, result, faults>>
    BY <1>7 DEF ReplaceReceipt, aggregate, local, groups
  <2> QED
    BY <1>t, <2>1, <2>2, <2>3, <2>4 DEF TypeOK
<1>8. CASE StageStatus(c)
  <2>1. temporary' \subseteq {"receipt", "status"}
    BY <1>8, <1>temporary DEF StageStatus, Stage
  <2>2. pc' \in [Controllers -> Positions]
    BY <1>8, <1>pc DEF StageStatus, Stage, Goto, Exit, Positions
  <2>3. lock' \in [Controllers -> SUBSET {"controller", "child"}]
    BY <1>8, <1>lock DEF StageStatus, Stage, Goto, Exit
  <2>4. result' \in [Controllers -> {"none", "0", "1", "killed", "signal"}]
    BY <1>8, <1>result DEF StageStatus, Stage, Goto, Exit
  <2>5. UNCHANGED <<evidence, receipt, status, view, work, record, validated, leaving, child, members, faults>>
    BY <1>8 DEF StageStatus, Stage, aggregate, local, groups
  <2> QED
    BY <1>t, <2>1, <2>2, <2>3, <2>4, <2>5 DEF TypeOK
<1>9. CASE ReplaceStatus(c)
  <2>1. status' \in [Slots -> Directory]
    BY <1>9, <1>status, <1>view DEF ReplaceStatus
  <2>2. temporary' \subseteq {"receipt", "status"}
    BY <1>9, <1>temporary DEF ReplaceStatus
  <2>3. pc' \in [Controllers -> Positions]
    BY <1>9, <1>pc DEF ReplaceStatus, Goto, Exit, Positions
  <2>4. UNCHANGED <<evidence, receipt, view, work, record, validated, leaving, child, members, lock, result, faults>>
    BY <1>9 DEF ReplaceStatus, aggregate, local, groups
  <2> QED
    BY <1>t, <2>1, <2>2, <2>3, <2>4 DEF TypeOK
<1>10. CASE Return(c)
  <2>1. pc' \in [Controllers -> Positions]
    BY <1>10, <1>pc DEF Return, Goto, Exit, Positions
  <2>2. lock' \in [Controllers -> SUBSET {"controller", "child"}]
    BY <1>10, <1>lock DEF Return, Goto, Exit
  <2>3. result' \in [Controllers -> {"none", "0", "1", "killed", "signal"}]
    BY <1>10, <1>result DEF Return, Goto, Exit
  <2>4. faults' \in 0..Budget
    BY <1>10, <1>faults, SweepAssumption DEF Return, Fault
  <2>5. UNCHANGED <<evidence, receipt, status, temporary, view, work, record, validated, leaving, child, members>>
    BY <1>10 DEF Return, aggregate, local, groups
  <2> QED
    BY <1>t, <2>1, <2>2, <2>3, <2>4, <2>5 DEF TypeOK
<1> QED
  BY <1>1, <1>2, <1>3, <1>4, <1>5, <1>6, <1>7, <1>8, <1>9, <1>10

\* The steps of collect_target.
LEMMA CollectionKeepsTypes ==
  ASSUME TypeOK, NEW c \in Controllers,
         \/ \E slot \in Slots : MakeAttempt(c, slot)
         \/ StartCollector(c) \/ CannotStart(c) \/ Deadline(c) \/ EndCollector(c)
         \/ StartValidator(c) \/ EndValidator(c) \/ RecordFailure(c)
         \/ PublishSuccess(c) \/ PublishFailure(c)
  PROVE  TypeOK'
<1>t. TypeOK
  OBVIOUS
<1>evidence. evidence \in [Slots -> Directory]
  BY DEF TypeOK
<1>pc. pc \in [Controllers -> Positions]
  BY DEF TypeOK
<1>work. work \in [Controllers -> Slots]
  BY DEF TypeOK
<1>record. record \in [Controllers -> 0..MaxBytes]
  BY DEF TypeOK
<1>members. members \in [Controllers -> SUBSET ({"collect", "validate"} \X Slots)]
  BY DEF TypeOK
<1>validated. validated \in [Controllers -> SUBSET Slots]
  BY DEF TypeOK
<1>leaving. leaving \in [Controllers -> BOOLEAN]
  BY DEF TypeOK
<1>child. child \in [Controllers -> {"none", "collect", "validate"}]
  BY DEF TypeOK
<1>lock. lock \in [Controllers -> SUBSET {"controller", "child"}]
  BY DEF TypeOK
<1>result. result \in [Controllers -> {"none", "0", "1", "killed", "signal"}]
  BY DEF TypeOK
<1>faults. faults \in 0..Budget
  BY DEF TypeOK
<1>bytes. evidence[work[c]].bytes \in 0..MaxBytes
  BY <1>evidence, <1>work DEF Directory
<1>1. CASE StartCollector(c)
  <2>1. pc' \in [Controllers -> Positions]
    BY <1>1, <1>pc DEF StartCollector, Start, Spawned, Goto, Exit, Positions
  <2>2. child' \in [Controllers -> {"none", "collect", "validate"}]
    BY <1>1, <1>child DEF StartCollector, Start, Spawned
  <2>3. lock' \in [Controllers -> SUBSET {"controller", "child"}]
    BY <1>1, <1>lock DEF StartCollector, Start, Spawned, Goto, Exit
  <2>4. UNCHANGED <<evidence, receipt, status, temporary, view, work, record, validated, leaving, members, result, faults>>
    BY <1>1 DEF StartCollector, Start, Spawned, aggregate, local, groups
  <2> QED
    BY <1>t, <2>1, <2>2, <2>3, <2>4 DEF TypeOK
<1>2. CASE CannotStart(c)
  <2>1. pc' \in [Controllers -> Positions]
    BY <1>2, <1>pc DEF CannotStart, GiveUp, Goto, Exit, Positions
  <2>2. leaving' \in [Controllers -> BOOLEAN]
    BY <1>2, <1>leaving DEF CannotStart, GiveUp
  <2>3. faults' \in 0..Budget
    BY <1>2, <1>faults, SweepAssumption DEF CannotStart, GiveUp, Fault
  <2>4. UNCHANGED <<evidence, receipt, status, temporary, view, work, record, validated, child, members, lock, result>>
    BY <1>2 DEF CannotStart, GiveUp, aggregate, local, groups
  <2> QED
    BY <1>t, <2>1, <2>2, <2>3, <2>4 DEF TypeOK
<1>3. CASE Deadline(c)
  <2>1. pc' \in [Controllers -> Positions]
    BY <1>3, <1>pc DEF Deadline, Reap, Goto, Exit, Positions
  <2>2. child' \in [Controllers -> {"none", "collect", "validate"}]
    BY <1>3, <1>child DEF Deadline, Reap
  <2>3. lock' \in [Controllers -> SUBSET {"controller", "child"}]
    BY <1>3, <1>lock DEF Deadline, Reap, ReleasedUnless
  <2>4. faults' \in 0..Budget
    BY <1>3, <1>faults, SweepAssumption DEF Deadline, Reap, Fault
  <2>5. UNCHANGED <<evidence, receipt, status, temporary, view, work, record, validated, leaving, members, result>>
    BY <1>3 DEF Deadline, Reap, aggregate, local, groups
  <2> QED
    BY <1>t, <2>1, <2>2, <2>3, <2>4, <2>5 DEF TypeOK
<1>4. CASE EndCollector(c)
  <2>1. pc' \in [Controllers -> Positions]
    BY <1>4, <1>pc DEF EndCollector, GiveUp, Goto, Exit, Positions
  <2>2. leaving' \in [Controllers -> BOOLEAN]
    BY <1>4, <1>leaving DEF EndCollector, GiveUp
  <2>3. faults' \in 0..Budget
    BY <1>4, <1>faults, SweepAssumption DEF EndCollector, GiveUp, Fault
  <2>4. UNCHANGED <<evidence, receipt, status, temporary, view, work, record, validated, child, members, lock, result>>
    BY <1>4 DEF EndCollector, GiveUp, aggregate, local, groups
  <2> QED
    BY <1>t, <2>1, <2>2, <2>3, <2>4 DEF TypeOK
<1>5. CASE StartValidator(c)
  <2>1. pc' \in [Controllers -> Positions]
    BY <1>5, <1>pc DEF StartValidator, Goto, Positions
  <2>2. child' \in [Controllers -> {"none", "collect", "validate"}]
    BY <1>5, <1>child DEF StartValidator, Start, groups
  <2>3. lock' \in [Controllers -> SUBSET {"controller", "child"}]
    BY <1>5, <1>lock DEF StartValidator, Start, Spawned
  <2>4. record' \in [Controllers -> 0..MaxBytes]
    BY <1>5, <1>record, <1>bytes DEF StartValidator
  <2>5. UNCHANGED <<evidence, receipt, status, temporary, view, work, validated, leaving, members, result, faults>>
    BY <1>5 DEF StartValidator, Start, aggregate, groups
  <2> QED
    BY <1>t, <2>1, <2>2, <2>3, <2>4, <2>5 DEF TypeOK
<1>10. CASE RecordFailure(c)
  <2>1. pc' \in [Controllers -> Positions]
    BY <1>10, <1>pc DEF RecordFailure, GiveUp, Goto, Positions
  <2>2. leaving' \in [Controllers -> BOOLEAN]
    BY <1>10, <1>leaving DEF RecordFailure, GiveUp
  <2>3. record' \in [Controllers -> 0..MaxBytes]
    BY <1>10, <1>record, <1>bytes DEF RecordFailure
  <2>4. UNCHANGED <<evidence, receipt, status, temporary, view, work, validated, child, members, lock, result, faults>>
    BY <1>10 DEF RecordFailure, aggregate, groups
  <2> QED
    BY <1>t, <2>1, <2>2, <2>3, <2>4 DEF TypeOK
<1>6. CASE EndValidator(c)
  <2>1. pc' \in [Controllers -> Positions]
    BY <1>6, <1>pc DEF EndValidator, Goto, Exit, Positions
  <2>2. faults' \in 0..Budget
    BY <1>6, <1>faults, SweepAssumption DEF EndValidator, Fault
  <2>3. UNCHANGED <<evidence, receipt, status, temporary, view, work, record, validated, leaving, child, members, lock, result>>
    BY <1>6 DEF EndValidator, aggregate, local, groups
  <2> QED
    BY <1>t, <2>1, <2>2, <2>3 DEF TypeOK
<1>7. CASE PublishSuccess(c)
  <2>1. evidence' \in [Slots -> Directory]
    BY <1>7, <1>evidence, <1>work, <1>record DEF PublishSuccess, Publish, Directory, States
  <2>2. pc' \in [Controllers -> Positions]
    BY <1>7, <1>pc DEF PublishSuccess, Publish, Goto, Exit, Positions
  <2>3. validated' \in [Controllers -> SUBSET Slots]
    BY <1>7, <1>validated, <1>work DEF PublishSuccess, Publish
  <2>4. UNCHANGED <<receipt, status, temporary, view, work, record, leaving, child, members, lock, result, faults>>
    BY <1>7 DEF PublishSuccess, Publish, aggregate, local, groups
  <2> QED
    BY <1>t, <2>1, <2>2, <2>3, <2>4 DEF TypeOK
<1>8. CASE PublishFailure(c)
  <2>1. evidence' \in [Slots -> Directory]
    BY <1>8, <1>evidence, <1>work, <1>record DEF PublishFailure, Publish, GiveUp, Directory, States
  <2>2. pc' \in [Controllers -> Positions]
    BY <1>8, <1>pc DEF PublishFailure, Publish, GiveUp, Goto, Exit, Positions
  <2>3. leaving' \in [Controllers -> BOOLEAN]
    BY <1>8, <1>leaving DEF PublishFailure, Publish, GiveUp
  <2>4. UNCHANGED <<receipt, status, temporary, view, work, record, validated, child, members, lock, result, faults>>
    BY <1>8 DEF PublishFailure, Publish, GiveUp, aggregate, local, groups
  <2> QED
    BY <1>t, <2>1, <2>2, <2>3, <2>4 DEF TypeOK
<1>9. ASSUME NEW slot \in Slots, MakeAttempt(c, slot) PROVE TypeOK'
  <2>1. [evidence[slot] EXCEPT !.state = "open"] \in Directory
    BY <1>evidence DEF Directory, States
  <2>2. evidence' \in [Slots -> Directory]
    BY <1>9, <1>evidence, <2>1 DEF MakeAttempt
  <2>3. work' \in [Controllers -> Slots]
    BY <1>9, <1>work DEF MakeAttempt
  <2>4. pc' \in [Controllers -> Positions]
    BY <1>9, <1>pc DEF MakeAttempt, Goto, Exit, Positions
  <2>5. /\ lock' \in [Controllers -> SUBSET {"controller", "child"}]
        /\ result' \in [Controllers -> {"none", "0", "1", "killed", "signal"}]
    BY <1>9, <1>lock, <1>result DEF MakeAttempt, Exit
  <2>6. UNCHANGED <<receipt, status, temporary, view, record, validated, leaving, child, members, faults>>
    BY <1>9 DEF MakeAttempt, aggregate, groups
  <2> QED
    BY <1>t, <2>2, <2>3, <2>4, <2>5, <2>6 DEF TypeOK
<1> QED
  BY <1>1, <1>2, <1>3, <1>4, <1>5, <1>6, <1>7, <1>8, <1>9, <1>10

\* Launches, process groups and faults.
LEMMA EnvironmentKeepsTypes ==
  ASSUME TypeOK,
         \/ \E c \in Controllers :
                Launch(c) \/ GroupStep(c) \/ Kill(c) \/ Signal(c)
         \/ PowerLoss
  PROVE  TypeOK'
<1>t. TypeOK
  OBVIOUS
<1>evidence. evidence \in [Slots -> Directory]
  BY DEF TypeOK
<1>pc. pc \in [Controllers -> Positions]
  BY DEF TypeOK
<1>work. work \in [Controllers -> Slots]
  BY DEF TypeOK
<1>members. members \in [Controllers -> SUBSET ({"collect", "validate"} \X Slots)]
  BY DEF TypeOK
<1>child. child \in [Controllers -> {"none", "collect", "validate"}]
  BY DEF TypeOK
<1>lock. lock \in [Controllers -> SUBSET {"controller", "child"}]
  BY DEF TypeOK
<1>result. result \in [Controllers -> {"none", "0", "1", "killed", "signal"}]
  BY DEF TypeOK
<1>faults. faults \in 0..Budget
  BY DEF TypeOK
<1>1. ASSUME NEW c \in Controllers, Launch(c) PROVE TypeOK'
  <2>1. pc' \in [Controllers -> Positions]
    BY <1>1, <1>pc DEF Launch, Goto, Exit, Positions
  <2>2. result' \in [Controllers -> {"none", "0", "1", "killed", "signal"}]
    BY <1>1, <1>result DEF Launch, Goto, Exit
  <2>3. UNCHANGED <<evidence, receipt, status, temporary, view, work, record, validated, leaving, child, members, lock, faults>>
    BY <1>1 DEF Launch, aggregate, local, groups
  <2> QED
    BY <1>t, <2>1, <2>2, <2>3 DEF TypeOK
<1>2. ASSUME NEW c \in Controllers, ChildWrites(c) PROVE TypeOK'
  <2>1. evidence' \in [Slots -> Directory]
    <3>1. work[c] \in Slots
      BY <1>work
    <3>2. [evidence[work[c]] EXCEPT !.bytes = @ + 1] \in Directory
      BY <1>2, <1>evidence, <3>1, SweepAssumption DEF ChildWrites, Directory
    <3> QED
      BY <1>2, <1>evidence, <3>1, <3>2 DEF ChildWrites
  <2>2. UNCHANGED <<receipt, status, temporary, pc, view, work, record, validated, leaving, child, members, lock, result, faults>>
    BY <1>2 DEF ChildWrites, aggregate, local, groups
  <2> QED
    BY <1>t, <2>1, <2>2 DEF TypeOK
<1>3. ASSUME NEW c \in Controllers, ChildExits(c) PROVE TypeOK'
  <2>1. child' \in [Controllers -> {"none", "collect", "validate"}]
    BY <1>3, <1>child DEF ChildExits, Reap
  <2>2. lock' \in [Controllers -> SUBSET {"controller", "child"}]
    BY <1>3, <1>lock DEF ChildExits, Reap, ReleasedUnless
  <2>3. UNCHANGED <<evidence, receipt, status, temporary, pc, view, work, record, validated, leaving, members, result, faults>>
    BY <1>3 DEF ChildExits, Reap, aggregate, local
  <2> QED
    BY <1>t, <2>1, <2>2, <2>3 DEF TypeOK
<1>7. ASSUME NEW c \in Controllers, LeaderExits(c) PROVE TypeOK'
  <2>1. child' \in [Controllers -> {"none", "collect", "validate"}]
    BY <1>7, <1>child DEF LeaderExits
  <2>2. members' \in [Controllers -> SUBSET ({"collect", "validate"} \X Slots)]
    <3>1. <<child[c], work[c]>> \in {"collect", "validate"} \X Slots
      BY <1>7, <1>child, <1>work DEF LeaderExits
    <3> QED
      BY <1>7, <1>members, <3>1 DEF LeaderExits
  <2>3. faults' \in 0..Budget
    BY <1>7, <1>faults, SweepAssumption DEF LeaderExits, Fault
  <2>4. UNCHANGED <<evidence, receipt, status, temporary, pc, view, work, record, validated, leaving, lock, result>>
    BY <1>7 DEF LeaderExits, aggregate, local
  <2> QED
    BY <1>t, <2>1, <2>2, <2>3, <2>4 DEF TypeOK
<1>8. ASSUME NEW c \in Controllers, MemberWrites(c) PROVE TypeOK'
  <2>1. PICK slot \in Slots :
          /\ evidence[slot].bytes < MaxBytes
          /\ evidence' = [evidence EXCEPT ![slot].bytes = @ + 1, ![slot].late = TRUE]
    BY <1>8 DEF MemberWrites
  <2>2. [evidence[slot] EXCEPT !.bytes = @ + 1, !.late = TRUE] \in Directory
    <3>1. evidence[slot] \in Directory
      BY <1>evidence
    <3>2. evidence[slot].bytes + 1 \in 0..MaxBytes
      BY <2>1, <3>1, SweepAssumption DEF Directory
    <3> QED
      BY <3>1, <3>2 DEF Directory
  <2>3. evidence' \in [Slots -> Directory]
    <3>1. evidence' = [evidence EXCEPT ![slot] =
                          [evidence[slot] EXCEPT !.bytes = @ + 1, !.late = TRUE]]
      BY <1>evidence, <2>1 DEF Directory
    <3> QED
      BY <1>evidence, <2>2, <3>1
  <2>4. UNCHANGED <<receipt, status, temporary, pc, view, work, record, validated, leaving, child, members, lock, result, faults>>
    BY <1>8 DEF MemberWrites, aggregate, local, groups
  <2> QED
    BY <1>t, <2>3, <2>4 DEF TypeOK
<1>9. ASSUME NEW c \in Controllers, MemberEnds(c) PROVE TypeOK'
  <2>1. members' \in [Controllers -> SUBSET ({"collect", "validate"} \X Slots)]
    BY <1>9, <1>members DEF MemberEnds
  <2>2. lock' \in [Controllers -> SUBSET {"controller", "child"}]
    BY <1>9, <1>lock DEF MemberEnds, ReleasedUnless
  <2>3. UNCHANGED <<evidence, receipt, status, temporary, pc, view, work, record, validated, leaving, child, result, faults>>
    BY <1>9 DEF MemberEnds, aggregate, local
  <2> QED
    BY <1>t, <2>1, <2>2, <2>3 DEF TypeOK
<1>4. ASSUME NEW c \in Controllers, Kill(c) PROVE TypeOK'
  <2>1. pc' \in [Controllers -> Positions]
    BY <1>4, <1>pc DEF Kill, Goto, Exit, Positions
  <2>2. lock' \in [Controllers -> SUBSET {"controller", "child"}]
    BY <1>4, <1>lock DEF Kill, Goto, Exit
  <2>3. result' \in [Controllers -> {"none", "0", "1", "killed", "signal"}]
    BY <1>4, <1>result DEF Kill, Goto, Exit
  <2>4. faults' \in 0..Budget
    BY <1>4, <1>faults, SweepAssumption DEF Kill, Fault
  <2>5. UNCHANGED <<evidence, receipt, status, temporary, view, work, record, validated, leaving, child, members>>
    BY <1>4 DEF Kill, aggregate, local, groups
  <2> QED
    BY <1>t, <2>1, <2>2, <2>3, <2>4, <2>5 DEF TypeOK
<1>5. ASSUME NEW c \in Controllers, Signal(c) PROVE TypeOK'
  <2>1. pc' \in [Controllers -> Positions]
    BY <1>5, <1>pc DEF Signal, Goto, Exit, Positions
  <2>2. child' \in [Controllers -> {"none", "collect", "validate"}]
    BY <1>5, <1>child DEF Signal
  <2>3. lock' \in [Controllers -> SUBSET {"controller", "child"}]
    BY <1>5, <1>lock DEF Signal, Goto, Exit
  <2>4. result' \in [Controllers -> {"none", "0", "1", "killed", "signal"}]
    BY <1>5, <1>result DEF Signal, Goto, Exit
  <2>5. faults' \in 0..Budget
    BY <1>5, <1>faults, SweepAssumption DEF Signal, Fault
  <2>6. UNCHANGED <<evidence, receipt, status, temporary, view, work, record, validated, leaving, members>>
    BY <1>5 DEF Signal, aggregate, local, groups
  <2> QED
    BY <1>t, <2>1, <2>2, <2>3, <2>4, <2>5, <2>6 DEF TypeOK
<1>6. CASE PowerLoss
  <2>1. Absent \in Directory
    BY SweepAssumption DEF Absent, Directory, States
  <2>2. evidence' \in [Slots -> Directory]
    BY <1>6, <1>evidence, <2>1 DEF PowerLoss
  <2>3. pc' \in [Controllers -> Positions]
    BY <1>6 DEF PowerLoss, Positions
  <2>4. faults' \in 0..Budget
    BY <1>6, <1>faults, SweepAssumption DEF PowerLoss, Fault
  <2> QED
    BY <1>6, <1>t, <2>2, <2>3, <2>4 DEF PowerLoss, TypeOK, local
<1> QED
  BY <1>1, <1>2, <1>3, <1>4, <1>5, <1>6, <1>7, <1>8, <1>9 DEF GroupStep

\* A step of c: what LockInv requires of it.
LEMMA LockStep ==
  ASSUME LockInv, NEW c \in Controllers,
         \A d \in Controllers : d # c =>
            /\ pc'[d] = pc[d] /\ lock'[d] = lock[d]
            /\ child'[d] = child[d] /\ members'[d] = members[d],
         pc'[c] \notin {"exited", "flock"} => "controller" \in lock'[c],
         child'[c] # "none" \/ members'[c] # {} => "child" \in lock'[c],
         pc'[c] \in Childless => child'[c] = "none",
         lock'[c] # {} => lock[c] # {} \/ \A d \in Controllers : lock[d] = {}
  PROVE  LockInv'
  BY DEF LockInv

\* The lock is taken when nobody keeps it, a process group keeps it as well, and
\* a controller passes it on or gives it up with its own descriptor only.
LEMMA ControllerKeepsLock ==
  ASSUME TypeOK, LockInv, NEW c \in Controllers,
         \/ Launch(c) \/ Step(c) \/ GroupStep(c) \/ Kill(c) \/ Signal(c)
  PROVE  LockInv'
<1>0. /\ pc \in [Controllers -> Positions]
      /\ child \in [Controllers -> {"none", "collect", "validate"}]
      /\ lock \in [Controllers -> SUBSET {"controller", "child"}]
      /\ pc[c] \notin {"exited", "flock"} => "controller" \in lock[c]
      /\ members \in [Controllers -> SUBSET ({"collect", "validate"} \X Slots)]
      /\ child[c] # "none" \/ members[c] # {} => "child" \in lock[c]
      /\ pc[c] \in Childless => child[c] = "none"
  BY DEF TypeOK, LockInv
<1> USE DEF Goto, Childless, groups
<1>1. CASE Flock(c)
  BY <1>0, <1>1, LockStep DEF Flock, Exit
<1>2. CASE Recover(c)
  BY <1>0, <1>2, LockStep DEF Recover
<1>3. CASE Revalidate(c)
  BY <1>0, <1>3, LockStep DEF Revalidate, Start, Spawned
<1>4. CASE EndRevalidation(c)
  BY <1>0, <1>4, LockStep DEF EndRevalidation, Exit
<1>5. CASE Scan(c)
  BY <1>0, <1>5, LockStep DEF Scan, Exit
<1>6. CASE StageReceipt(c)
  BY <1>0, <1>6, LockStep DEF StageReceipt, Stage, Exit
<1>7. CASE ReplaceReceipt(c)
  BY <1>0, <1>7, LockStep DEF ReplaceReceipt
<1>8. CASE StageStatus(c)
  BY <1>0, <1>8, LockStep DEF StageStatus, Stage, Exit
<1>9. CASE ReplaceStatus(c)
  BY <1>0, <1>9, LockStep DEF ReplaceStatus
<1>10. CASE Return(c)
  BY <1>0, <1>10, LockStep DEF Return, Exit
<1>11. CASE StartCollector(c)
  BY <1>0, <1>11, LockStep DEF StartCollector, Start, Spawned
<1>12. CASE CannotStart(c)
  BY <1>0, <1>12, LockStep DEF CannotStart, GiveUp
<1>13. CASE Deadline(c)
  BY <1>0, <1>13, LockStep DEF Deadline, Reap, ReleasedUnless
<1>14. CASE EndCollector(c)
  BY <1>0, <1>14, LockStep DEF EndCollector, GiveUp
<1>15. CASE StartValidator(c)
  BY <1>0, <1>15, LockStep DEF StartValidator, Start, Spawned
<1>16. CASE EndValidator(c)
  BY <1>0, <1>16, LockStep DEF EndValidator
<1>17. CASE PublishSuccess(c)
  BY <1>0, <1>17, LockStep DEF PublishSuccess
<1>18. CASE PublishFailure(c)
  BY <1>0, <1>18, LockStep DEF PublishFailure, GiveUp
<1>19. CASE Launch(c)
  BY <1>0, <1>19, LockStep DEF Launch
<1>20. CASE ChildWrites(c)
  BY <1>0, <1>20, LockStep DEF ChildWrites
<1>21. CASE ChildExits(c)
  BY <1>0, <1>21, LockStep DEF ChildExits, Reap, ReleasedUnless
<1>22. CASE Kill(c)
  BY <1>0, <1>22, LockStep DEF Kill, Exit
<1>23. CASE Signal(c)
  BY <1>0, <1>23, LockStep DEF Signal
<1>24. ASSUME NEW slot \in Slots, MakeAttempt(c, slot) PROVE LockInv'
  BY <1>0, <1>24, LockStep DEF MakeAttempt, Exit
<1>25. CASE RecordFailure(c)
  BY <1>0, <1>25, LockStep DEF RecordFailure, GiveUp
<1>26. CASE LeaderExits(c)
  BY <1>0, <1>26, LockStep DEF LeaderExits
<1>27. CASE MemberWrites(c)
  BY <1>0, <1>27, LockStep DEF MemberWrites
<1>28. CASE MemberEnds(c)
  BY <1>0, <1>28, LockStep DEF MemberEnds, ReleasedUnless
<1> QED
  BY <1>1, <1>2, <1>3, <1>4, <1>5, <1>6, <1>7, <1>8, <1>9, <1>10, <1>11, <1>12, <1>13, <1>14,
     <1>15, <1>16, <1>17, <1>18, <1>19, <1>20, <1>21, <1>22, <1>23, <1>24, <1>25, <1>26,
     <1>27, <1>28 DEF Step, GroupStep

\* Every step, power losses included, preserves the types and the lock.
LEMMA LockPreserved == TypeOK /\ LockInv /\ [Next]_vars => TypeOK' /\ LockInv'
<1> SUFFICES ASSUME TypeOK, LockInv, [Next]_vars PROVE TypeOK' /\ LockInv'
  OBVIOUS
<1>1. CASE UNCHANGED vars
  BY <1>1 DEF vars, aggregate, local, groups, TypeOK, LockInv
<1>2. CASE PowerLoss
  <2>1. LockInv'
    BY <1>2 DEF PowerLoss, LockInv, Childless
  <2> QED
    BY <1>2, <2>1, EnvironmentKeepsTypes
<1>3. ASSUME NEW c \in Controllers,
             Launch(c) \/ Step(c) \/ GroupStep(c) \/ Kill(c) \/ Signal(c)
      PROVE  TypeOK' /\ LockInv'
  <2>1. CASE Step(c)
    BY <2>1, AggregateKeepsTypes, CollectionKeepsTypes, ControllerKeepsLock DEF Step
  <2>2. CASE ~Step(c)
    BY <1>3, <2>2, EnvironmentKeepsTypes, ControllerKeepsLock
  <2> QED
    BY <2>1, <2>2
<1> QED
  BY <1>1, <1>2, <1>3 DEF Next

\* Type correctness, and who keeps the lock, whatever fails (run, 1641-1790).
THEOREM LockInvariance == Spec => [](TypeOK /\ LockInv)
  BY InitLock, LockPreserved, PTL DEF Spec

\* The type of the state (run, 1641-1790).
THEOREM Typing == Spec => []TypeOK
  BY LockInvariance, PTL

\* Two writers keep the lock, so they are one.
LEMMA WritersAgree ==
  ASSUME TypeOK, LockInv, NEW c \in Writers, NEW d \in Writers
  PROVE  c = d
  BY DEF TypeOK, LockInv, Writers

\* At most one invocation, or what is left of its process groups, may write below
\* the artifact root, for any number of invocations and whatever fails, power
\* included (run, 1641-1668; run_process, 817-851).
THEOREM WritersExclude == Spec => []OneWriter
<1>1. ASSUME TypeOK, LockInv PROVE OneWriter
  <2>1. CASE Writers = {}
    BY <2>1, FS_EmptySet DEF OneWriter
  <2>2. CASE Writers # {}
    <3>1. PICK c \in Writers : TRUE
      BY <2>2
    <3>2. Writers = {c}
      BY <1>1, <3>1, WritersAgree
    <3> QED
      BY <3>2, FS_Singleton DEF OneWriter
  <2> QED
    BY <2>1, <2>2
<1> QED
  BY LockInvariance, <1>1, PTL

----------------------------------------------------------------------------
(* The ledger, when no power is lost                                       *)

\* collect_target: the attempt of work is the newest of the first pending run.
Working ==
    {"start", "collecting", "validate", "validating", "recordFailure",
     "publishSuccess", "publishFailure"}

\* Between the record of its artifacts and the receipt.
Recording == {"validating", "publishSuccess", "publishFailure"}

\* Between a scan and the next change of the evidence.
Viewing ==
    {"stageReceipt", "replaceReceipt", "stageStatus", "replaceStatus", "done", "fail",
     "mkdir"}

\* Whoever writes an attempt writes one that has no receipt and that nobody has
\* reported.
OpenInv ==
    \A c \in Controllers :
        pc[c] \in Working \/ child[c] = "collect" =>
            evidence[work[c]].state = "open" /\ receipt[work[c]].state = "absent"

\* What a scan has seen is still there when it is reported and used.
ViewInv ==
    \A c \in Controllers :
        /\ pc[c] \in Viewing =>
               \A slot \in Slots : StillHolds(evidence[slot], view[c][slot])
        /\ pc[c] \in {"stageStatus", "replaceStatus", "done", "fail", "mkdir"} =>
               receipt = view[c]
        /\ pc[c] \in {"done", "fail", "mkdir"} => status = view[c]
        /\ pc[c] = "done" => Closed(evidence)

\* The newest attempt at run r, whose predecessors are all complete.
Newest(e, r, n) ==
    /\ ~Complete(e, r)
    /\ \A q \in 1..(r - 1) : Complete(e, q)
    /\ \A m \in Present(e, r) : m <= n

WorkInv ==
    \A c \in Controllers :
        pc[c] \in Working => Newest(evidence, work[c][1], work[c][2])

\* What c has hashed is still there, but for what outlived its leader.
RecordInv ==
    \A c \in Controllers :
        /\ pc[c] \in Recording =>
               /\ record[c] <= evidence[work[c]].bytes
               /\ evidence[work[c]].late \/ record[c] = evidence[work[c]].bytes
        /\ pc[c] = "validating" => child[c] # "collect"

\* What earlier invocations leave.
Orderly(e) == Numbered(e) /\ WithoutGap(e) /\ OnlyLateChanges(e)

\* No success is in the status and not in the receipt.
StatusInv ==
    \A slot \in Slots : status[slot].state = "success" => receipt[slot].state = "success"

LedgerInv ==
    /\ OpenInv /\ ViewInv /\ WorkInv /\ RecordInv /\ StatusInv
    /\ ReportedIsFrozen /\ ZeroMeansClosed
    /\ Orderly(evidence)

\* What follows from the states of the attempts alone.
LEMMA SameStates ==
  ASSUME NEW e, NEW f, NEW r \in 1..Runs,
         \A slot \in Slots : e[slot].state = f[slot].state
  PROVE  /\ Present(e, r) = Present(f, r)
         /\ Successes(e, r) = Successes(f, r)
         /\ Complete(e, r) = Complete(f, r)
<1>1. \A n \in Attempts : e[<<r, n>>].state = f[<<r, n>>].state
  BY DEF Slots
<1>2. Present(e, r) = Present(f, r) /\ Successes(e, r) = Successes(f, r)
  BY <1>1 DEF Present, Successes
<1> QED
  BY <1>2 DEF Complete

\* All runs are complete, or not, by the states alone.
LEMMA SameClosed ==
  ASSUME NEW e, NEW f, \A slot \in Slots : e[slot].state = f[slot].state
  PROVE  Closed(e) = Closed(f)
<1>1. ASSUME NEW r \in 1..Runs PROVE Complete(e, r) = Complete(f, r)
  BY <1>1, SameStates
<1> QED
  BY <1>1 DEF Closed

\* An attempt that still holds has not changed its state.
LEMMA HoldingStates ==
  ASSUME NEW e, NEW f, \A slot \in Slots : StillHolds(e[slot], f[slot])
  PROVE  \A slot \in Slots : e[slot].state = f[slot].state
  BY DEF StillHolds

\* An empty artifact root satisfies the invariant.
LEMMA InitLedger == Init => LedgerInv
<1> SUFFICES ASSUME Init PROVE LedgerInv
  OBVIOUS
<1>1. \A slot \in Slots : evidence[slot].state = "absent" /\ receipt[slot].state = "absent"
                          /\ status[slot].state = "absent"
  BY DEF Init, NoEvidence, Absent
<1>2. \A r \in 1..Runs, n \in Attempts : <<r, n>> \in Slots
  BY DEF Slots
<1>3. \A r \in 1..Runs : Present(evidence, r) = {} /\ Successes(evidence, r) = {}
  BY <1>1, <1>2 DEF Present, Successes
<1>4. Numbered(evidence)
  BY <1>3, FS_EmptySet DEF Numbered
<1>5. WithoutGap(evidence) /\ OnlyLateChanges(evidence)
  BY <1>1, <1>3 DEF WithoutGap, Complete, OnlyLateChanges
<1>6. OpenInv /\ ViewInv /\ WorkInv /\ RecordInv /\ StatusInv
  BY <1>1 DEF Init, OpenInv, ViewInv, WorkInv, RecordInv, StatusInv, Working, Viewing, Recording
<1>7. ReportedIsFrozen /\ ZeroMeansClosed
  BY <1>1 DEF Init, ReportedIsFrozen, ZeroMeansClosed
<1> QED
  BY <1>4, <1>5, <1>6, <1>7 DEF LedgerInv, Orderly

\* A step of c that changes neither the evidence nor what is reported of it.
LEMMA QuietStep ==
  ASSUME LedgerInv, NEW c \in Controllers,
         UNCHANGED <<evidence, receipt, status, view, work>>,
         \A d \in Controllers : d # c =>
            /\ pc'[d] = pc[d] /\ child'[d] = child[d]
            /\ record'[d] = record[d] /\ result'[d] = result[d],
         evidence[work[c]].bytes \in Nat,
         pc'[c] \in Working => pc[c] \in Working,
         pc'[c] \in Recording =>
            \/ record'[c] = evidence[work[c]].bytes
            \/ (pc[c] \in Recording /\ record'[c] = record[c]),
         pc'[c] = "validating" =>
            child'[c] # "collect" \/ (pc[c] = "validating" /\ child'[c] = child[c]),
         child'[c] = "collect" => child[c] = "collect" \/ pc[c] \in Working,
         pc'[c] \in Viewing => pc[c] \in Viewing,
         pc'[c] \in {"stageStatus", "replaceStatus"} =>
            pc[c] \in {"stageStatus", "replaceStatus"},
         pc'[c] \in {"done", "fail", "mkdir"} => pc'[c] = pc[c],
         result'[c] = "0" => result[c] = "0" \/ pc[c] = "done"
  PROVE  LedgerInv'
<1>1. OpenInv'
  BY DEF LedgerInv, OpenInv
<1>2. ViewInv'
  BY DEF LedgerInv, ViewInv
<1>3. WorkInv'
  BY DEF LedgerInv, WorkInv
<1>4. StatusInv' /\ ReportedIsFrozen' /\ Orderly(evidence)'
  BY DEF LedgerInv, StatusInv, ReportedIsFrozen
<1>5. ZeroMeansClosed'
  BY DEF LedgerInv, ZeroMeansClosed, ViewInv, Viewing
<1>6. RecordInv'
  BY DEF LedgerInv, RecordInv
<1> QED
  BY <1>1, <1>2, <1>3, <1>4, <1>5, <1>6 DEF LedgerInv

\* The steps that change neither the evidence nor what is published.
LEMMA QuietSteps ==
  ASSUME TypeOK, LedgerInv, NEW c \in Controllers,
         \/ Launch(c) \/ Flock(c) \/ Recover(c) \/ Revalidate(c) \/ EndRevalidation(c)
         \/ StageReceipt(c) \/ StageStatus(c) \/ Return(c) \/ StartCollector(c) \/ CannotStart(c)
         \/ Deadline(c) \/ EndCollector(c) \/ StartValidator(c) \/ EndValidator(c)
         \/ RecordFailure(c) \/ ChildExits(c) \/ LeaderExits(c) \/ MemberEnds(c)
         \/ Kill(c) \/ Signal(c)
  PROVE  LedgerInv'
<1>0. /\ pc \in [Controllers -> Positions]
      /\ child \in [Controllers -> {"none", "collect", "validate"}]
      /\ result \in [Controllers -> {"none", "0", "1", "killed", "signal"}]
      /\ record \in [Controllers -> 0..MaxBytes]
  BY DEF TypeOK
<1>b. evidence[work[c]].bytes \in Nat
  BY DEF TypeOK, Directory
<1> USE <1>b DEF Goto, Working, Viewing, Recording, aggregate, local, groups
<1>1. CASE Launch(c)
  BY <1>0, <1>1, QuietStep DEF Launch
<1>2. CASE Flock(c)
  BY <1>0, <1>2, QuietStep DEF Flock, Exit
<1>3. CASE Recover(c)
  BY <1>0, <1>3, QuietStep DEF Recover
<1>4. CASE Revalidate(c)
  BY <1>0, <1>4, QuietStep DEF Revalidate, Start, Spawned
<1>5. CASE EndRevalidation(c)
  BY <1>0, <1>5, QuietStep DEF EndRevalidation, Exit
<1>6. CASE StageReceipt(c)
  BY <1>0, <1>6, QuietStep DEF StageReceipt, Stage, Exit
<1>7. CASE StageStatus(c)
  BY <1>0, <1>7, QuietStep DEF StageStatus, Stage, Exit
<1>8. CASE Return(c)
  BY <1>0, <1>8, QuietStep DEF Return, Exit
<1>9. CASE StartCollector(c)
  BY <1>0, <1>9, QuietStep DEF StartCollector, Start
<1>10. CASE CannotStart(c)
  BY <1>0, <1>10, QuietStep DEF CannotStart, GiveUp
<1>11. CASE Deadline(c)
  BY <1>0, <1>11, QuietStep DEF Deadline, Reap
<1>12. CASE EndCollector(c)
  BY <1>0, <1>12, QuietStep DEF EndCollector, GiveUp
<1>13. CASE StartValidator(c)
  BY <1>0, <1>13, QuietStep DEF StartValidator, Start
<1>14. CASE EndValidator(c)
  BY <1>0, <1>14, QuietStep DEF EndValidator
<1>15. CASE ChildExits(c)
  BY <1>0, <1>15, QuietStep DEF ChildExits, Reap
<1>16. CASE Kill(c)
  BY <1>0, <1>16, QuietStep DEF Kill, Exit
<1>17. CASE Signal(c)
  BY <1>0, <1>17, QuietStep DEF Signal
<1>18. CASE RecordFailure(c)
  BY <1>0, <1>18, QuietStep DEF RecordFailure, GiveUp
<1>19. CASE LeaderExits(c)
  BY <1>0, <1>19, QuietStep DEF LeaderExits
<1>20. CASE MemberEnds(c)
  BY <1>0, <1>20, QuietStep DEF MemberEnds
<1> QED
  BY <1>1, <1>2, <1>3, <1>4, <1>5, <1>6, <1>7, <1>8, <1>9, <1>10, <1>11, <1>12, <1>13, <1>14,
     <1>15, <1>16, <1>17, <1>18, <1>19, <1>20

\* Who writes is alone: the others are not at work and have no process group.
LEMMA Alone ==
  ASSUME TypeOK, LockInv, NEW c \in Controllers, NEW d \in Controllers, d # c,
         pc[c] \notin {"exited", "flock"} \/ child[c] # "none"
  PROVE  pc[d] \in {"exited", "flock"} /\ child[d] = "none"
  BY DEF LockInv

\* A scan that is refused ends the invocation; one that is not sees the evidence.
LEMMA ScanPreserves ==
  ASSUME TypeOK, LockInv, LedgerInv, NEW c \in Controllers, Scan(c)
  PROVE  LedgerInv'
<1>0. /\ pc \in [Controllers -> Positions]
      /\ view \in [Controllers -> [Slots -> Directory]]
      /\ result \in [Controllers -> {"none", "0", "1", "killed", "signal"}]
  BY DEF TypeOK
<1>b. evidence[work[c]].bytes \in Nat
  BY DEF TypeOK, Directory
<1>1. CASE Exit(c, "1") /\ UNCHANGED view
  BY <1>0, <1>b, <1>1, QuietStep
     DEF Scan, Exit, Goto, Working, Viewing, Recording, aggregate, groups
<1>2. CASE ~(Exit(c, "1") /\ UNCHANGED view)
  <2>1. /\ UNCHANGED <<evidence, receipt, status, work, record, child, result>>
        /\ pc' = [pc EXCEPT ![c] = "stageReceipt"]
        /\ view' = [view EXCEPT ![c] = evidence]
    BY <1>2 DEF Scan, Goto, aggregate, groups
  <2>2. OpenInv' /\ WorkInv' /\ RecordInv'
    BY <1>0, <2>1 DEF LedgerInv, OpenInv, WorkInv, RecordInv, Working, Recording
  <2>3. ViewInv'
    BY <1>0, <2>1 DEF LedgerInv, ViewInv, Viewing, StillHolds
  <2>4. StatusInv' /\ ReportedIsFrozen' /\ ZeroMeansClosed' /\ Orderly(evidence)'
    BY <1>0, <2>1 DEF LedgerInv, StatusInv, ReportedIsFrozen, ZeroMeansClosed
  <2> QED
    BY <2>2, <2>3, <2>4 DEF LedgerInv
<1> QED
  BY <1>1, <1>2

\* The new receipt is the evidence as it still is.
LEMMA ReceiptPreserves ==
  ASSUME TypeOK, LockInv, LedgerInv, NEW c \in Controllers, ReplaceReceipt(c)
  PROVE  LedgerInv'
<1>1. /\ UNCHANGED <<evidence, status, view, work, record, child, result>>
      /\ receipt' = view[c]
      /\ pc[c] = "replaceReceipt" /\ pc' = [pc EXCEPT ![c] = "stageStatus"]
      /\ pc \in [Controllers -> Positions]
      /\ child[c] = "none"
  BY DEF ReplaceReceipt, Goto, local, groups, TypeOK, LockInv, Childless
<1>2. \A slot \in Slots : StillHolds(evidence[slot], view[c][slot])
  BY <1>1 DEF LedgerInv, ViewInv, Viewing
<1>3. \A d \in Controllers : d # c => pc[d] \in {"exited", "flock"} /\ child[d] = "none"
  BY <1>1, Alone
<1>4. OpenInv'
  BY <1>1, <1>3 DEF OpenInv, Working
<1>5. WorkInv' /\ RecordInv'
  BY <1>1, <1>3 DEF WorkInv, RecordInv, Working, Recording
<1>6. ViewInv'
  BY <1>1, <1>2, <1>3 DEF LedgerInv, ViewInv, Viewing
<1>7. \A slot \in Slots : evidence[slot].state = view[c][slot].state
  BY <1>2, HoldingStates
<1>8. StatusInv'
  <2>1. ASSUME NEW slot \in Slots, status[slot].state = "success"
        PROVE  evidence[slot].state = "success"
    BY <2>1 DEF LedgerInv, StatusInv, ReportedIsFrozen, StillHolds
  <2> QED
    BY <1>1, <1>7, <2>1 DEF StatusInv
<1>9. ReportedIsFrozen' /\ Orderly(evidence)'
  BY <1>1, <1>2 DEF LedgerInv, ReportedIsFrozen
<1>10. ZeroMeansClosed'
  BY <1>1, <1>2 DEF LedgerInv, ZeroMeansClosed
<1> QED
  BY <1>4, <1>5, <1>6, <1>8, <1>9, <1>10 DEF LedgerInv

\* The new status is bound to the receipt that this invocation has just written.
LEMMA StatusPreserves ==
  ASSUME TypeOK, LockInv, LedgerInv, NEW c \in Controllers, ReplaceStatus(c)
  PROVE  LedgerInv'
<1> DEFINE next == IF leaving[c] THEN "fail" ELSE IF Closed(view[c]) THEN "done" ELSE "mkdir"
<1>1. /\ UNCHANGED <<evidence, receipt, view, work, record, child, result>>
      /\ status' = view[c]
      /\ pc[c] = "replaceStatus" /\ pc' = [pc EXCEPT ![c] = next]
      /\ pc \in [Controllers -> Positions]
      /\ child[c] = "none"
  BY DEF ReplaceStatus, Goto, local, groups, TypeOK, LockInv, Childless
<1>2. receipt = view[c] /\ \A slot \in Slots : StillHolds(evidence[slot], view[c][slot])
  BY <1>1 DEF LedgerInv, ViewInv, Viewing
<1>3. \A d \in Controllers : d # c => pc[d] \in {"exited", "flock"} /\ child[d] = "none"
  BY <1>1, Alone
<1>4. next \in {"fail", "done", "mkdir"} /\ (next = "done" => Closed(evidence))
  <2>1. Closed(evidence) <=> Closed(view[c])
    <3>1. \A slot \in Slots : evidence[slot].state = view[c][slot].state
      BY <1>2, HoldingStates
    <3> QED
      BY <3>1, SameClosed
  <2> QED
    BY <2>1
<1> HIDE DEF next
<1>5. OpenInv'
  BY <1>1, <1>3, <1>4 DEF OpenInv, Working
<1>6. WorkInv' /\ RecordInv'
  BY <1>1, <1>3, <1>4 DEF WorkInv, RecordInv, Working, Recording
<1>7. ViewInv'
  BY <1>1, <1>2, <1>3, <1>4 DEF LedgerInv, ViewInv, Viewing
<1>8. StatusInv' /\ ReportedIsFrozen' /\ Orderly(evidence)'
  BY <1>1, <1>2 DEF LedgerInv, StatusInv, ReportedIsFrozen
<1>9. ZeroMeansClosed'
  BY <1>1, <1>2 DEF LedgerInv, ZeroMeansClosed
<1> QED
  BY <1>5, <1>6, <1>7, <1>8, <1>9 DEF LedgerInv

\* A write keeps the order of the attempts.
LEMMA WritesKeepOrder ==
  ASSUME TypeOK, LedgerInv, UNCHANGED <<pc, work>>,
         \A slot \in Slots : evidence'[slot].state = evidence[slot].state
  PROVE  /\ WorkInv' /\ Numbered(evidence)' /\ WithoutGap(evidence)'
         /\ Closed(evidence)' <=> Closed(evidence)
<1>0. ASSUME NEW r \in 1..Runs
      PROVE  /\ Present(evidence', r) = Present(evidence, r)
             /\ Successes(evidence', r) = Successes(evidence, r)
             /\ Complete(evidence', r) = Complete(evidence, r)
  BY SameStates
<1>1. \A r \in 1..Runs : /\ Present(evidence, r)' = Present(evidence, r)
                         /\ Successes(evidence, r)' = Successes(evidence, r)
                         /\ Complete(evidence, r)' <=> Complete(evidence, r)
  BY <1>0 DEF Present, Successes, Complete
<1>2. WorkInv'
  <2>1. \A d \in Controllers : work[d] \in Slots /\ work[d][1] \in 1..Runs
    BY DEF TypeOK, Slots
  <2>2. ASSUME NEW r \in 1..Runs, NEW n, Newest(evidence, r, n)
        PROVE  Newest(evidence, r, n)'
    BY <1>1, <2>2, SweepAssumption DEF Newest
  <2> QED
    BY <2>1, <2>2 DEF LedgerInv, WorkInv
<1>3. Numbered(evidence)' /\ WithoutGap(evidence)'
  BY <1>1, SweepAssumption DEF LedgerInv, Orderly, Numbered, WithoutGap
<1>4. Closed(evidence)' <=> Closed(evidence)
  <2>1. Closed(evidence') = Closed(evidence)
    BY SameClosed
  <2> QED
    BY <2>1 DEF Closed, Complete, Successes
<1> QED
  BY <1>2, <1>3, <1>4

\* The bytes of an attempt without a receipt are nobody's record.
LEMMA WritePreserves ==
  ASSUME TypeOK, LockInv, LedgerInv, NEW c \in Controllers, ChildWrites(c)
  PROVE  LedgerInv'
<1>1. /\ UNCHANGED <<receipt, status, view, work, record, child, result, pc>>
      /\ child[c] = "collect"
      /\ evidence' = [evidence EXCEPT ![work[c]].bytes = @ + 1]
      /\ evidence \in [Slots -> Directory] /\ work[c] \in Slots
  BY DEF ChildWrites, aggregate, local, groups, TypeOK
<1>2. evidence[work[c]].state = "open" /\ receipt[work[c]].state = "absent"
  BY <1>1 DEF LedgerInv, OpenInv
<1>3. /\ \A slot \in Slots : evidence'[slot].state = evidence[slot].state
      /\ \A slot \in Slots : slot # work[c] => evidence'[slot] = evidence[slot]
  BY <1>1 DEF Directory
<1>4. WorkInv' /\ Numbered(evidence)' /\ WithoutGap(evidence)'
  BY <1>1, <1>3, WritesKeepOrder
<1>5. OnlyLateChanges(evidence)'
  BY <1>2, <1>3 DEF LedgerInv, Orderly, OnlyLateChanges
<1>6. \A d \in Controllers : d # c => pc[d] \in {"exited", "flock"} /\ child[d] = "none"
  BY <1>1, Alone
<1>7. pc[c] \notin Viewing \cup Recording
  BY <1>1 DEF LockInv, LedgerInv, RecordInv, Childless, Viewing, Recording
<1>8. OpenInv'
  BY <1>1, <1>3 DEF LedgerInv, OpenInv, TypeOK
<1>9. ViewInv' /\ RecordInv'
  BY <1>1, <1>6, <1>7 DEF ViewInv, RecordInv, Viewing, Recording
<1>10. StatusInv' /\ ReportedIsFrozen'
  BY <1>1, <1>2, <1>3 DEF LedgerInv, StatusInv, ReportedIsFrozen
<1>11. ZeroMeansClosed'
  <2>1. \A d \in Controllers : result[d] # "0"
    BY <1>1, <1>2 DEF LedgerInv, ZeroMeansClosed, StillHolds
  <2> QED
    BY <1>1, <2>1 DEF ZeroMeansClosed
<1> QED
  BY <1>4, <1>5, <1>8, <1>9, <1>10, <1>11 DEF LedgerInv, Orderly

\* What still holds does so after a late write.
LEMMA HoldsWhenLate ==
  ASSUME NEW old \in Directory, NEW new \in Directory, NEW then \in Directory,
         StillHolds(old, then), new = old \/ (new.late /\ StillHolds(new, old))
  PROVE  StillHolds(new, then)
  BY SweepAssumption DEF StillHolds, Directory

\* What a process adds that outlived its leader is marked as late.
LEMMA LateWritePreserves ==
  ASSUME TypeOK, TypeOK', LedgerInv, NEW c \in Controllers, MemberWrites(c)
  PROVE  LedgerInv'
<1>1. /\ UNCHANGED <<receipt, status, view, work, record, child, result, pc>>
      /\ evidence \in [Slots -> Directory] /\ evidence' \in [Slots -> Directory]
      /\ receipt \in [Slots -> Directory] /\ status \in [Slots -> Directory]
      /\ view \in [Controllers -> [Slots -> Directory]]
      /\ work \in [Controllers -> Slots] /\ record \in [Controllers -> 0..MaxBytes]
  BY DEF MemberWrites, aggregate, local, groups, TypeOK
<1>2. PICK slot \in Slots :
        evidence' = [evidence EXCEPT ![slot].bytes = @ + 1, ![slot].late = TRUE]
  BY DEF MemberWrites
<1>3. /\ evidence'[slot].state = evidence[slot].state
      /\ evidence'[slot].recorded = evidence[slot].recorded
      /\ evidence'[slot].late
      /\ evidence[slot].bytes < evidence'[slot].bytes
      /\ \A s \in Slots : s # slot => evidence'[s] = evidence[s]
  BY <1>1, <1>2, SweepAssumption DEF Directory
<1>4. \A s \in Slots : \/ evidence'[s] = evidence[s]
                       \/ evidence'[s].late /\ StillHolds(evidence'[s], evidence[s])
  BY <1>3 DEF StillHolds
<1>5. \A s \in Slots : evidence'[s].state = evidence[s].state
  BY <1>3
<1>6. ASSUME NEW s \in Slots, NEW then \in Directory, StillHolds(evidence[s], then)
      PROVE  StillHolds(evidence'[s], then)
  BY <1>1, <1>4, <1>6, HoldsWhenLate
<1>7. /\ WorkInv' /\ Numbered(evidence)' /\ WithoutGap(evidence)'
      /\ Closed(evidence)' <=> Closed(evidence)
  BY <1>1, <1>5, WritesKeepOrder
<1>8. OpenInv'
  BY <1>1, <1>5 DEF LedgerInv, OpenInv
<1>9. ViewInv'
  BY <1>1, <1>6, <1>7 DEF LedgerInv, ViewInv
<1>10. RecordInv'
  <2>1. ASSUME NEW d \in Controllers, pc[d] \in Recording
        PROVE  /\ record[d] <= evidence'[work[d]].bytes
               /\ evidence'[work[d]].late \/ record[d] = evidence'[work[d]].bytes
    <3>1. /\ record[d] <= evidence[work[d]].bytes
          /\ evidence[work[d]].late \/ record[d] = evidence[work[d]].bytes
      BY <2>1 DEF LedgerInv, RecordInv
    <3>2. /\ record[d] \in Nat /\ work[d] \in Slots
          /\ evidence[work[d]].bytes \in Nat /\ evidence'[work[d]].bytes \in Nat
      BY <1>1, SweepAssumption DEF Directory
    <3>3. CASE work[d] = slot
      BY <1>3, <3>1, <3>2, <3>3
    <3>4. CASE work[d] # slot
      BY <1>3, <3>1, <3>2, <3>4
    <3> QED
      BY <3>3, <3>4
  <2> QED
    BY <1>1, <2>1 DEF LedgerInv, RecordInv
<1>11. OnlyLateChanges(evidence)'
  <2>1. ASSUME NEW s \in Slots, evidence'[s].state \in {"success", "failure"}
        PROVE  /\ evidence'[s].recorded <= evidence'[s].bytes
               /\ evidence'[s].late \/ evidence'[s].recorded = evidence'[s].bytes
    <3>1. /\ evidence[s].recorded <= evidence[s].bytes
          /\ evidence[s].late \/ evidence[s].recorded = evidence[s].bytes
      BY <1>5, <2>1 DEF LedgerInv, Orderly, OnlyLateChanges
    <3>2. /\ evidence[s].recorded \in Nat
          /\ evidence[s].bytes \in Nat /\ evidence'[s].bytes \in Nat
      BY <1>1, SweepAssumption DEF Directory
    <3> QED
      BY <1>3, <3>1, <3>2
  <2> QED
    BY <2>1 DEF OnlyLateChanges
<1>12. StatusInv' /\ ReportedIsFrozen'
  BY <1>1, <1>6 DEF LedgerInv, StatusInv, ReportedIsFrozen
<1>13. ZeroMeansClosed'
  BY <1>1, <1>6, <1>7 DEF LedgerInv, ZeroMeansClosed
<1> QED
  BY <1>7, <1>8, <1>9, <1>10, <1>11, <1>12, <1>13 DEF LedgerInv, Orderly

\* The attempts of a run are numbered without a gap.
LEMMA PresentBefore ==
  ASSUME Numbered(evidence), NEW r \in 1..Runs, NEW n \in Attempts,
         n = Cardinality(Present(evidence, r)) + 1
  PROVE  /\ Present(evidence, r) = 1..(n - 1)
         /\ \A m \in Attempts : evidence[<<r, m>>].state # "absent" <=> m < n
<1>1. Cardinality(Present(evidence, r)) \in Nat
  <2>1. IsFiniteSet(Attempts)
    BY SweepAssumption, FS_Interval DEF Attempts
  <2>2. Present(evidence, r) \subseteq Attempts
    BY DEF Present
  <2> QED
    BY <2>1, <2>2, FS_Subset, FS_CardinalityType
<1>2. Present(evidence, r) = 1..(n - 1)
  BY <1>1 DEF Numbered
<1>3. ASSUME NEW m \in Attempts PROVE m \in Present(evidence, r) <=> m < n
  <2>1. m \in Nat /\ m >= 1 /\ n \in Nat /\ n >= 1
    BY SweepAssumption DEF Attempts
  <2>2. m \in 1..(n - 1) <=> m < n
    BY <2>1
  <2> QED
    BY <1>2, <2>2
<1> QED
  BY <1>2, <1>3 DEF Present

\* The attempt that is made is the next one of the first pending run.
LEMMA NewAttempt ==
  ASSUME TypeOK, Orderly(evidence), NEW slot \in Slots,
         ~Complete(evidence, slot[1]),
         \A q \in 1..(slot[1] - 1) : Complete(evidence, q),
         slot[2] = Cardinality(Present(evidence, slot[1])) + 1,
         evidence' = [evidence EXCEPT ![slot].state = "open"]
  PROVE  Orderly(evidence)' /\ Newest(evidence, slot[1], slot[2])'
<1> DEFINE r == slot[1]
           n == slot[2]
<1>1. /\ evidence \in [Slots -> Directory]
      /\ r \in 1..Runs /\ n \in Attempts /\ slot = <<r, n>>
      /\ n \in Nat /\ n >= 1
  BY SweepAssumption DEF TypeOK, Slots, Attempts
<1>2. Present(evidence, r) = 1..(n - 1) /\ Successes(evidence, r) = {}
  BY <1>1, PresentBefore DEF Complete, Orderly
<1>3. evidence[slot].state = "absent"
  BY <1>1, <1>2 DEF Present
<1>4. /\ evidence'[slot].state = "open"
      /\ \A s \in Slots : s # slot => evidence'[s] = evidence[s]
  BY <1>1 DEF Directory
<1>5. \A q \in 1..Runs, m \in Attempts : <<q, m>> \in Slots /\ (<<q, m>> = slot <=> q = r /\ m = n)
  BY <1>1 DEF Slots
<1> HIDE DEF r, n
<1>6. Present(evidence, r)' = Present(evidence, r) \cup {n}
  BY <1>1, <1>3, <1>4, <1>5 DEF Present
<1>7. \A q \in 1..Runs : q # r => Present(evidence, q)' = Present(evidence, q)
  BY <1>4, <1>5 DEF Present
<1>8. \A q \in 1..Runs : /\ Successes(evidence, q)' = Successes(evidence, q)
                         /\ Complete(evidence, q)' <=> Complete(evidence, q)
  <2>1. ASSUME NEW q \in 1..Runs, NEW m \in Attempts
        PROVE  evidence'[<<q, m>>].state = "success" <=> evidence[<<q, m>>].state = "success"
    BY <1>3, <1>4, <1>5
  <2> QED
    BY <2>1 DEF Successes, Complete
<1>9. Present(evidence, r)' = 1..n
  <2>1. 1..n = 1..(n - 1) \cup {n}
    BY <1>1
  <2> QED
    BY <1>2, <1>6, <2>1
<1>10. Cardinality(1..n) = n
  BY <1>1, FS_Interval DEF Attempts
<1>11. Numbered(evidence)'
  <2> SUFFICES ASSUME NEW q \in 1..Runs
               PROVE  /\ Present(evidence, q)' = 1..Cardinality(Present(evidence, q)')
                      /\ \A k \in Successes(evidence, q)' : \A m \in Present(evidence, q)' : m <= k
    BY DEF Numbered
  <2>1. CASE q = r
    BY <1>2, <1>8, <1>9, <1>10, <2>1
  <2>2. CASE q # r
    BY <1>7, <1>8, <2>2 DEF Orderly, Numbered
  <2> QED
    BY <2>1, <2>2
<1>12. WithoutGap(evidence)'
  <2>1. \A q \in 1..Runs : \A p \in 1..(q - 1) : p \in 1..Runs
    BY SweepAssumption
  <2> QED
    BY <1>8, <2>1 DEF Orderly, WithoutGap
<1>13. OnlyLateChanges(evidence)'
  BY <1>4 DEF Orderly, OnlyLateChanges
<1>14. Newest(evidence, r, n)'
  <2>1. ~Complete(evidence, r) /\ \A q \in 1..(r - 1) : Complete(evidence, q) /\ q \in 1..Runs
    BY <1>1, SweepAssumption DEF r
  <2>2. ~Complete(evidence, r)' /\ \A q \in 1..(r - 1) : Complete(evidence, q)'
    BY <1>1, <1>8, <2>1
  <2>3. \A m \in Present(evidence, r)' : m <= n
    BY <1>1, <1>9
  <2> QED
    BY <2>2, <2>3 DEF Newest
<1> QED
  BY <1>11, <1>12, <1>13, <1>14 DEF Orderly, r, n

\* What is pending in the receipt is pending in the evidence.
LEMMA PendingStill ==
  ASSUME NEW c \in Controllers, NEW slot \in Slots, NextPending(c, slot),
         \A s \in Slots : evidence[s].state = view[c][s].state
  PROVE  /\ ~Complete(evidence, slot[1])
         /\ \A q \in 1..(slot[1] - 1) : Complete(evidence, q)
         /\ slot[2] = Cardinality(Present(evidence, slot[1])) + 1
<1>1. slot[1] \in 1..Runs /\ \A q \in 1..(slot[1] - 1) : q \in 1..Runs
  BY SweepAssumption DEF Slots
<1>2. ASSUME NEW r \in 1..Runs
      PROVE  /\ Present(evidence, r) = Present(view[c], r)
             /\ Complete(evidence, r) = Complete(view[c], r)
  BY SameStates
<1> QED
  BY <1>1, <1>2 DEF NextPending

\* An attempt is made only where the evidence as it still is has none, and no
\* invocation has reported all runs complete.
LEMMA AttemptPreserves ==
  ASSUME TypeOK, LockInv, LedgerInv, NEW c \in Controllers, NEW slot \in Slots,
         MakeAttempt(c, slot)
  PROVE  LedgerInv'
<1>0. /\ pc \in [Controllers -> Positions] /\ work \in [Controllers -> Slots]
      /\ result \in [Controllers -> {"none", "0", "1", "killed", "signal"}]
      /\ evidence \in [Slots -> Directory]
      /\ pc[c] = "mkdir" /\ child[c] = "none"
      /\ evidence[work[c]].bytes \in Nat
  BY DEF TypeOK, LockInv, Childless, MakeAttempt, Directory
<1>1. CASE evidence[slot].state # "absent"
  BY <1>0, <1>1, QuietStep
     DEF MakeAttempt, Exit, Goto, Working, Viewing, Recording, aggregate, groups
<1>2. CASE evidence[slot].state = "absent"
  <2>1. /\ UNCHANGED <<receipt, status, view, record, child, result>>
        /\ evidence' = [evidence EXCEPT ![slot].state = "open"]
        /\ work' = [work EXCEPT ![c] = slot]
        /\ pc' = [pc EXCEPT ![c] = "start"]
        /\ NextPending(c, slot)
    BY <1>2 DEF MakeAttempt, Goto, aggregate, groups
  <2>2. receipt = view[c] /\ \A s \in Slots : evidence[s].state = receipt[s].state
    BY <1>0, HoldingStates DEF LedgerInv, ViewInv, Viewing
  <2>n. /\ ~Complete(evidence, slot[1])
        /\ \A q \in 1..(slot[1] - 1) : Complete(evidence, q)
        /\ slot[2] = Cardinality(Present(evidence, slot[1])) + 1
    BY <2>1, <2>2, PendingStill
  <2>3. Orderly(evidence)' /\ Newest(evidence, slot[1], slot[2])'
    BY <2>1, <2>n, NewAttempt DEF LedgerInv
  <2>4. \A d \in Controllers : d # c => pc[d] \in {"exited", "flock"} /\ child[d] = "none"
    BY <1>0, Alone
  <2>5. /\ evidence'[slot].state = "open"
        /\ \A s \in Slots : s # slot => evidence'[s] = evidence[s]
    BY <1>0, <2>1 DEF Directory
  <2>6. OpenInv'
    BY <1>0, <1>2, <2>1, <2>2, <2>4, <2>5 DEF OpenInv, Working
  <2>7. ViewInv'
    BY <1>0, <2>1, <2>4 DEF ViewInv, Viewing
  <2>8. WorkInv' /\ RecordInv'
    BY <1>0, <2>1, <2>3, <2>4 DEF WorkInv, RecordInv, Working, Recording
  <2>9. StatusInv' /\ ReportedIsFrozen'
    BY <1>2, <2>1, <2>2, <2>5 DEF LedgerInv, StatusInv, ReportedIsFrozen
  <2>10. ZeroMeansClosed'
    <3>1. ~Closed(evidence)
      BY <2>n DEF Closed, Slots
    <3> QED
      BY <2>1, <3>1 DEF LedgerInv, ZeroMeansClosed
  <2> QED
    BY <2>3, <2>6, <2>7, <2>8, <2>9, <2>10 DEF LedgerInv
<1> QED
  BY <1>1, <1>2

\* A receipt ends the newest attempt of the first pending run.
LEMMA SettledAttempt ==
  ASSUME TypeOK, Orderly(evidence), NEW c \in Controllers, NEW slot \in Slots,
         NEW outcome \in {"success", "failure"},
         Newest(evidence, slot[1], slot[2]), evidence[slot].state = "open",
         record[c] <= evidence[slot].bytes,
         evidence[slot].late \/ record[c] = evidence[slot].bytes,
         evidence' = [evidence EXCEPT ![slot].state = outcome, ![slot].recorded = record[c]]
  PROVE  Orderly(evidence)'
<1> DEFINE r == slot[1]
           n == slot[2]
<1>1. /\ evidence \in [Slots -> Directory]
      /\ r \in 1..Runs /\ n \in Attempts /\ slot = <<r, n>>
  BY DEF TypeOK, Slots
<1>2. /\ evidence'[slot].state = outcome
      /\ evidence'[slot].recorded <= evidence'[slot].bytes
      /\ evidence'[slot].late \/ evidence'[slot].recorded = evidence'[slot].bytes
      /\ \A s \in Slots : s # slot => evidence'[s] = evidence[s]
  BY <1>1 DEF Directory
<1>3. \A q \in 1..Runs, m \in Attempts : <<q, m>> \in Slots /\ (<<q, m>> = slot <=> q = r /\ m = n)
  BY <1>1 DEF Slots
<1>4. ~Complete(evidence, r) /\ (\A q \in 1..(r - 1) : Complete(evidence, q))
      /\ \A m \in Present(evidence, r) : m <= n
  BY DEF Newest
<1> HIDE DEF r, n
<1>5. \A q \in 1..Runs : Present(evidence, q)' = Present(evidence, q)
  <2>1. ASSUME NEW q \in 1..Runs, NEW m \in Attempts
        PROVE  evidence'[<<q, m>>].state # "absent" <=> evidence[<<q, m>>].state # "absent"
    BY <1>2, <1>3
  <2> QED
    BY <2>1 DEF Present
<1>6. \A q \in 1..Runs : q # r => Successes(evidence, q)' = Successes(evidence, q)
  BY <1>2, <1>3 DEF Successes
<1>7. Successes(evidence, r)' \subseteq {n}
  BY <1>1, <1>2, <1>3, <1>4 DEF Successes, Complete
<1>8. \A q \in 1..Runs : Complete(evidence, q) => Complete(evidence, q)'
  BY <1>4, <1>6 DEF Complete
<1>9. Numbered(evidence)'
  <2> SUFFICES ASSUME NEW q \in 1..Runs
               PROVE  /\ Present(evidence, q)' = 1..Cardinality(Present(evidence, q)')
                      /\ \A k \in Successes(evidence, q)' : \A m \in Present(evidence, q)' : m <= k
    BY DEF Numbered
  <2>1. CASE q = r
    BY <1>4, <1>5, <1>7, <2>1 DEF Orderly, Numbered
  <2>2. CASE q # r
    BY <1>5, <1>6, <2>2 DEF Orderly, Numbered
  <2> QED
    BY <2>1, <2>2
<1>10. WithoutGap(evidence)'
  <2> SUFFICES ASSUME NEW q \in 1..Runs, Complete(evidence, q)', NEW p \in 1..(q - 1)
               PROVE  Complete(evidence, p)'
    BY DEF WithoutGap
  <2>1. p \in 1..Runs
    BY SweepAssumption
  <2>2. CASE q = r
    BY <1>4, <1>8, <2>1, <2>2
  <2>3. CASE q # r
    BY <1>6, <1>8, <2>1, <2>3 DEF Complete, Orderly, WithoutGap
  <2> QED
    BY <2>2, <2>3
<1>11. OnlyLateChanges(evidence)'
  BY <1>2 DEF Orderly, OnlyLateChanges
<1> QED
  BY <1>9, <1>10, <1>11 DEF Orderly

\* Nobody has reported the attempt that gets its receipt.
LEMMA PublishPreserves ==
  ASSUME TypeOK, LockInv, LedgerInv, NEW c \in Controllers,
         PublishSuccess(c) \/ PublishFailure(c)
  PROVE  LedgerInv'
<1>1. PICK outcome \in {"success", "failure"} :
        evidence' = [evidence EXCEPT ![work[c]].state = outcome,
                                     ![work[c]].recorded = record[c]]
  BY DEF PublishSuccess, PublishFailure, Publish
<1>2. /\ UNCHANGED <<receipt, status, view, work, record, child, result>>
      /\ pc[c] \in {"publishSuccess", "publishFailure"}
      /\ pc' = [pc EXCEPT ![c] = "scan"]
      /\ pc \in [Controllers -> Positions] /\ work[c] \in Slots
      /\ evidence \in [Slots -> Directory]
      /\ child[c] = "none"
  BY DEF PublishSuccess, PublishFailure, GiveUp, Goto, aggregate, groups, TypeOK, LockInv,
         Childless
<1>3. /\ evidence[work[c]].state = "open" /\ receipt[work[c]].state = "absent"
      /\ Newest(evidence, work[c][1], work[c][2])
      /\ record[c] <= evidence[work[c]].bytes
      /\ evidence[work[c]].late \/ record[c] = evidence[work[c]].bytes
  BY <1>2 DEF LedgerInv, OpenInv, WorkInv, RecordInv, Working, Recording
<1>4. \A d \in Controllers : d # c => pc[d] \in {"exited", "flock"} /\ child[d] = "none"
  BY <1>2, Alone
<1>5. \A s \in Slots : s # work[c] => evidence'[s] = evidence[s]
  BY <1>1, <1>2
<1>6. OpenInv'
  BY <1>2, <1>4 DEF OpenInv, Working
<1>7. ViewInv'
  BY <1>2, <1>4 DEF ViewInv, Viewing
<1>8. WorkInv' /\ RecordInv'
  BY <1>2, <1>4 DEF WorkInv, RecordInv, Working, Recording
<1>9. StatusInv' /\ ReportedIsFrozen'
  BY <1>2, <1>3, <1>5 DEF LedgerInv, StatusInv, ReportedIsFrozen
<1>10. ZeroMeansClosed'
  <2>1. \A d \in Controllers : result[d] # "0"
    BY <1>2, <1>3 DEF LedgerInv, ZeroMeansClosed, StillHolds
  <2> QED
    BY <1>2, <2>1 DEF ZeroMeansClosed
<1>11. Orderly(evidence)'
  <2>1. Orderly(evidence)
    BY DEF LedgerInv
  <2> QED
    BY <1>1, <1>2, <1>3, <2>1, SettledAttempt
<1> QED
  BY <1>6, <1>7, <1>8, <1>9, <1>10, <1>11 DEF LedgerInv

\* The safety of the artifact root, as one inductive invariant.
THEOREM LedgerInvariance ==
  ASSUME "power" \notin Faults
  PROVE  Spec => []LedgerInv
<1>1. ASSUME TypeOK, TypeOK', LockInv, LedgerInv, [Next]_vars PROVE LedgerInv'
  <2>1. CASE UNCHANGED vars
    BY <1>1, <2>1 DEF vars, aggregate, local, groups, LedgerInv, OpenInv, ViewInv, WorkInv,
       RecordInv, StatusInv, ReportedIsFrozen, ZeroMeansClosed
  <2>2. ~PowerLoss
    BY DEF PowerLoss, Fault
  <2>3. ASSUME NEW c \in Controllers,
               Launch(c) \/ Step(c) \/ GroupStep(c) \/ Kill(c) \/ Signal(c)
        PROVE  LedgerInv'
    BY <1>1, <2>3, QuietSteps, ScanPreserves, ReceiptPreserves, StatusPreserves,
       AttemptPreserves, PublishPreserves, WritePreserves, LateWritePreserves
       DEF Step, GroupStep
  <2> QED
    BY <1>1, <2>1, <2>2, <2>3 DEF Next
<1> QED
  BY <1>1, InitLedger, LockInvariance, PTL DEF Spec

\* Every row of the published aggregate stays what the evidence below it says, for
\* any number of invocations, orphans and retries, unless power is lost, but for
\* what a process adds to its own attempt that has outlived the leader of its group
\* (collect_target, 1499-1640; write_aggregate, 1451-1482).
THEOREM ReportsAreFrozen == ASSUME "power" \notin Faults PROVE Spec => []ReportedIsFrozen
<1>1. LedgerInv => ReportedIsFrozen
  BY DEF LedgerInv
<1> QED
  BY LedgerInvariance, <1>1, PTL

\* The status never claims a run complete that the receipt beside it lacks
\* (write_aggregate, 1451-1482).
THEOREM StatusFollows == ASSUME "power" \notin Faults PROVE Spec => []StatusIsBehind
<1>1. ASSUME LedgerInv, NEW r \in 1..Runs, Complete(status, r) PROVE Complete(receipt, r)
  <2>1. PICK n \in Attempts : status[<<r, n>>].state = "success"
    BY <1>1 DEF Complete, Successes
  <2>2. receipt[<<r, n>>].state = "success"
    BY <1>1, <2>1 DEF LedgerInv, StatusInv, Slots
  <2> QED
    BY <2>2 DEF Complete, Successes
<1>2. LedgerInv => StatusIsBehind
  BY <1>1 DEF StatusIsBehind
<1> QED
  BY LedgerInvariance, <1>2, PTL

\* An invocation that has returned 0 has left a complete artifact root, and no later
\* one changes it; what a process may still add that outlived its leader leaves every
\* state and every record as it is (run, 1705-1718).
THEOREM ZeroIsFinal == ASSUME "power" \notin Faults PROVE Spec => []ZeroMeansClosed
<1>1. LedgerInv => ZeroMeansClosed
  BY DEF LedgerInv
<1> QED
  BY LedgerInvariance, <1>1, PTL

\* A scan finds in what earlier invocations, killed or not, have left nothing to
\* refuse but the attempts that a process has added to which outlived its leader
\* (scan_all).
THEOREM ScansRefuseLateChangesOnly == ASSUME "power" \notin Faults PROVE Spec => []ScansAccept
<1>1. LedgerInv => ScansAccept
  BY DEF LedgerInv, ScansAccept, Orderly
<1> QED
  BY LedgerInvariance, <1>1, PTL

----------------------------------------------------------------------------
(* The artifact root implements the ledger                                 *)

\* Two ledgers are equal when their entries are.
LEMMA EqualLedgers ==
  ASSUME NEW e, NEW f,
         \A slot \in Slots : e[slot].state = f[slot].state
  PROVE  Ledger(e) = Ledger(f)
<1>1. ASSUME NEW r \in 1..Runs, NEW n \in Attempts
      PROVE  e[<<r, n>>].state = f[<<r, n>>].state
  BY DEF Slots
<1>2. ASSUME NEW r \in 1..Runs
      PROVE  [n \in Attempts |-> e[<<r, n>>].state] = [n \in Attempts |-> f[<<r, n>>].state]
  BY <1>1
<1> QED
  BY <1>2 DEF Ledger

\* A change of one attempt is a change of one entry.
LEMMA LedgerUpdate ==
  ASSUME NEW slot \in Slots, NEW state,
         evidence'[slot].state = state,
         \A s \in Slots : s # slot => evidence'[s].state = evidence[s].state
  PROVE  Ledger(evidence)' = [Ledger(evidence) EXCEPT ![slot[1]][slot[2]] = state]
<1> DEFINE r == slot[1]
           n == slot[2]
           row == [Ledger(evidence)[r] EXCEPT ![n] = state]
<1>1. slot = <<r, n>> /\ r \in 1..Runs /\ n \in Attempts
  BY DEF Slots
<1> HIDE DEF r, n
<1>2. ASSUME NEW q \in 1..Runs, NEW m \in Attempts, q # r \/ m # n
      PROVE  evidence'[<<q, m>>].state = evidence[<<q, m>>].state
  BY <1>1, <1>2 DEF Slots
<1>3. Ledger(evidence)'[r] = row
  BY <1>1, <1>2 DEF Ledger
<1>4. ASSUME NEW q \in 1..Runs, q # r PROVE Ledger(evidence)'[q] = Ledger(evidence)[q]
  <2>1. [m \in Attempts |-> evidence'[<<q, m>>].state] = [m \in Attempts |-> evidence[<<q, m>>].state]
    BY <1>2, <1>4
  <2> QED
    BY <2>1 DEF Ledger
<1>5. /\ Ledger(evidence)' = [q \in 1..Runs |-> Ledger(evidence)'[q]]
      /\ Ledger(evidence) = [q \in 1..Runs |-> Ledger(evidence)[q]]
  BY DEF Ledger
<1>6. Ledger(evidence)' = [Ledger(evidence) EXCEPT ![r] = row]
  <2> HIDE DEF row
  <2> QED
    BY <1>1, <1>3, <1>4, <1>5
<1> QED
  BY <1>6 DEF r, n

\* Attempts are opened in order, settled while unreported, and reported as they are.
LEMMA LedgerStep ==
  ASSUME TypeOK, LockInv, LedgerInv, [Next]_vars, "power" \notin Faults
  PROVE  [Promise!Next]_<<Ledger(evidence), Ledger(receipt)>>
<1>0. evidence \in [Slots -> Directory] /\ work \in [Controllers -> Slots]
  BY DEF TypeOK
<1>1. ASSUME NEW c \in Controllers, NEW slot \in Slots, MakeAttempt(c, slot),
             evidence' # evidence
      PROVE  Promise!Next
  <2>1. /\ UNCHANGED receipt /\ pc[c] = "mkdir"
        /\ evidence' = [evidence EXCEPT ![slot].state = "open"]
        /\ NextPending(c, slot)
    BY <1>1 DEF MakeAttempt, aggregate
  <2>2. receipt = view[c] /\ \A s \in Slots : evidence[s].state = receipt[s].state
    BY <2>1, HoldingStates DEF LedgerInv, ViewInv, Viewing
  <2>3. slot[1] \in 1..Runs /\ slot[2] \in Attempts
    BY DEF Slots
  <2>4. /\ ~Complete(evidence, slot[1])
        /\ \A q \in 1..(slot[1] - 1) : Complete(evidence, q) /\ q \in 1..Runs
        /\ slot[2] = Cardinality(Present(evidence, slot[1])) + 1
    BY <2>1, <2>2, <2>3, PendingStill, SweepAssumption
  <2>5. ASSUME NEW q \in 1..Runs
        PROVE  Promise!Succeeded(Ledger(evidence), q) <=> Complete(evidence, q)
    <3>1. \A n \in Attempts : Ledger(evidence)[q][n] = evidence[<<q, n>>].state
      BY DEF Ledger
    <3> QED
      BY <3>1 DEF Promise!Succeeded, Complete, Successes
  <2>6. Promise!Fresh(Ledger(evidence), slot[1], slot[2])
    <3>1. \A n \in Attempts : Ledger(evidence)[slot[1]][n] = evidence[<<slot[1], n>>].state
      BY <2>3 DEF Ledger
    <3>2. \A m \in Attempts : evidence[<<slot[1], m>>].state # "absent" <=> m < slot[2]
      BY <2>3, <2>4, PresentBefore DEF LedgerInv, Orderly
    <3> QED
      BY <3>1, <3>2 DEF Promise!Fresh
  <2>7. Ledger(evidence)' = [Ledger(evidence) EXCEPT ![slot[1]][slot[2]] = "open"]
    <3>1. /\ evidence'[slot].state = "open"
          /\ \A s \in Slots : s # slot => evidence'[s].state = evidence[s].state
      BY <1>0, <2>1 DEF Directory
    <3> QED
      BY <3>1, LedgerUpdate
  <2>8. Ledger(receipt) = Ledger(evidence) /\ Ledger(receipt)' = Ledger(receipt)
    <3>1. Ledger(evidence) = Ledger(receipt)
      BY <2>2, EqualLedgers
    <3> QED
      BY <2>1, <3>1 DEF Ledger
  <2>9. Promise!Open(slot[1], slot[2])
    BY <2>3, <2>4, <2>5, <2>6, <2>7, <2>8 DEF Promise!Open
  <2> QED
    BY <2>3, <2>9 DEF Promise!Next
<1>2. ASSUME NEW c \in Controllers, PublishSuccess(c) \/ PublishFailure(c)
      PROVE  Promise!Next
  <2>1. PICK outcome \in {"success", "failure"} :
          evidence' = [evidence EXCEPT ![work[c]].state = outcome,
                                       ![work[c]].recorded = record[c]]
    BY <1>2 DEF PublishSuccess, PublishFailure, Publish
  <2>2. pc[c] \in Working /\ UNCHANGED receipt /\ work[c] \in Slots
    BY <1>0, <1>2 DEF PublishSuccess, PublishFailure, aggregate, Working
  <2>3. evidence[work[c]].state = "open" /\ receipt[work[c]].state = "absent"
    BY <2>2 DEF LedgerInv, OpenInv
  <2>4. work[c][1] \in 1..Runs /\ work[c][2] \in Attempts /\ work[c] = <<work[c][1], work[c][2]>>
    BY <2>2 DEF Slots
  <2>5. Ledger(evidence)' = [Ledger(evidence) EXCEPT ![work[c][1]][work[c][2]] = outcome]
    <3>1. /\ evidence'[work[c]].state = outcome
          /\ \A s \in Slots : s # work[c] => evidence'[s].state = evidence[s].state
      BY <1>0, <2>1, <2>2 DEF Directory
    <3> QED
      BY <2>2, <3>1, LedgerUpdate
  <2>6. /\ Ledger(evidence)[work[c][1]][work[c][2]] = "open"
        /\ Ledger(receipt)[work[c][1]][work[c][2]] = "absent"
    BY <2>3, <2>4 DEF Ledger
  <2>7. Ledger(receipt)' = Ledger(receipt)
    BY <2>2 DEF Ledger
  <2>8. Promise!Settle(work[c][1], work[c][2], outcome)
    BY <2>5, <2>6, <2>7 DEF Promise!Settle
  <2> QED
    BY <2>4, <2>8 DEF Promise!Next, Promise!Outcomes
<1>3. ASSUME NEW c \in Controllers, ReplaceReceipt(c) PROVE Promise!Next
  <2>1. /\ receipt' = view[c] /\ UNCHANGED evidence
        /\ \A s \in Slots : evidence[s].state = view[c][s].state
    BY <1>3, HoldingStates DEF ReplaceReceipt, LedgerInv, ViewInv, Viewing
  <2>2. Ledger(view[c]) = Ledger(evidence)
    BY <2>1, EqualLedgers
  <2>3. Ledger(receipt)' = Ledger(evidence) /\ Ledger(evidence)' = Ledger(evidence)
    BY <2>1, <2>2 DEF Ledger
  <2> QED
    BY <2>3 DEF Promise!Next, Promise!Report
<1>4. ASSUME NEW c \in Controllers, ChildWrites(c) \/ MemberWrites(c)
      PROVE  UNCHANGED <<Ledger(evidence), Ledger(receipt)>>
  <2>1. UNCHANGED receipt
    BY <1>4 DEF ChildWrites, MemberWrites, aggregate
  <2>2. \A slot \in Slots : evidence'[slot].state = evidence[slot].state
    <3>1. CASE ChildWrites(c)
      BY <1>0, <3>1 DEF ChildWrites, Directory
    <3>2. CASE MemberWrites(c)
      BY <1>0, <3>2 DEF MemberWrites, Directory
    <3> QED
      BY <1>4, <3>1, <3>2
  <2>3. Ledger(evidence') = Ledger(evidence)
    BY <2>2, EqualLedgers
  <2> QED
    BY <2>1, <2>3 DEF Ledger
<1>5. CASE UNCHANGED <<evidence, receipt>>
  BY <1>5 DEF Ledger
<1>6. \/ UNCHANGED <<evidence, receipt>>
      \/ \E c \in Controllers :
            \/ \E slot \in Slots : MakeAttempt(c, slot) /\ evidence' # evidence
            \/ PublishSuccess(c) \/ PublishFailure(c) \/ ReplaceReceipt(c)
            \/ ChildWrites(c) \/ MemberWrites(c)
  <2>1. ~PowerLoss
    BY DEF PowerLoss, Fault
  <2>2. ASSUME NEW c \in Controllers,
               Step(c), ~ReplaceReceipt(c), ~PublishSuccess(c), ~PublishFailure(c)
        PROVE  \/ UNCHANGED <<evidence, receipt>>
               \/ \E slot \in Slots : MakeAttempt(c, slot) /\ evidence' # evidence
    BY <2>2 DEF Step, Flock, Recover, Revalidate, EndRevalidation, Scan, StageReceipt,
                StageStatus, Stage, ReplaceStatus, Return, MakeAttempt, StartCollector,
                CannotStart, Deadline, EndCollector, StartValidator, EndValidator,
                RecordFailure, aggregate
  <2>3. ASSUME NEW c \in Controllers,
               \/ Launch(c) \/ Kill(c) \/ Signal(c)
               \/ ChildExits(c) \/ LeaderExits(c) \/ MemberEnds(c)
        PROVE  UNCHANGED <<evidence, receipt>>
    BY <2>3 DEF Launch, ChildExits, LeaderExits, MemberEnds, Kill, Signal, aggregate
  <2>4. CASE UNCHANGED vars
    BY <2>4 DEF vars, aggregate
  <2> QED
    BY <2>1, <2>2, <2>3, <2>4 DEF Next, GroupStep
<1> QED
  BY <1>1, <1>2, <1>3, <1>4, <1>5, <1>6

\* The artifact root implements SweepLedger: whatever is killed or fails, and
\* however many invocations there are, and whatever processes do that outlive the
\* leaders of their groups, attempts are opened in order, settled once and reported
\* as they are, unless power is lost (run, 1641-1790).
THEOREM RefinesLedger == ASSUME "power" \notin Faults PROVE Spec => ImplementsLedger
<1>1. Init => Promise!Init
  BY DEF Init, NoEvidence, Absent, Ledger, Slots, Promise!Init, Promise!Unused
<1> QED
  BY <1>1, LedgerStep, LedgerInvariance, LockInvariance, PTL
     DEF Spec, ImplementsLedger, Promise!Spec

=============================================================================
