----------------------- MODULE ControlledChild_proofs -----------------------
(***************************************************************************)
(* Type correctness of ControlledChild, and which way out of run_process   *)
(* may leave the leader of the group running, for any number of signals    *)
(* and whatever the processes ignore.                                      *)
(***************************************************************************)
EXTENDS ControlledChild, TLAPS

\* The kill after a deadline, and the one after the grace period, leave no leader;
\* a signal that interrupts what follows them finds none to wait for.
KilledAtDeadline ==
    pc \in {"timedOut", "timedOutWait", "leavingWait"} => ~Alive(leader)

IInv == TypeOK /\ LeaderLeftOnlyAtExpiry /\ KilledAtDeadline

----------------------------------------------------------------------------

\* Before Popen there is no process.
LEMMA InitIInv == Init => IInv
<1> SUFFICES ASSUME Init PROVE IInv
  OBVIOUS
<1>1. signals \in 0..MaxSignals
  BY ChildAssumption DEF Init
<1>2. active <=> pc \notin {"popen", "returned", "exited", "abandoned"}
  BY Zenon DEF Init
<1>3. TypeOK
  BY <1>1, <1>2 DEF Init, TypeOK, ProcessStates
<1>4. LeaderLeftOnlyAtExpiry /\ KilledAtDeadline
  BY DEF Init, LeaderLeftOnlyAtExpiry, KilledAtDeadline, Alive
<1> QED
  BY <1>3, <1>4 DEF IInv

\* The group is signalled only while its leader runs, and no process comes back.
LEMMA SignalsEndProcesses ==
  ASSUME IInv, TerminateGroup \/ KillGroup
  PROVE  /\ leader' \in ProcessStates /\ member' \in ProcessStates
         /\ ~Alive(leader) => ~Alive(leader')
         /\ leader' # "running"
         /\ KillGroup => ~Alive(leader')
  BY DEF IInv, TypeOK, TerminateGroup, KillGroup, Terminated, Killed, Alive,
         ProcessStates

\* run_process leaves only when communicate() has returned.
LEMMA ControllingPreserves == IInv /\ Controlling => IInv'
<1> SUFFICES ASSUME IInv, Controlling PROVE IInv'
  OBVIOUS
<1> USE ChildAssumption DEF IInv, TypeOK, LeaderLeftOnlyAtExpiry, KilledAtDeadline
<1>1. CASE Popen
  BY <1>1 DEF Popen, ProcessStates, Alive
<1>2. CASE Unmask
  <2>1. CASE blocked
    BY <1>2, <2>1, SignalsEndProcesses DEF Unmask
  <2>2. CASE ~blocked
    BY <1>2, <2>2 DEF Unmask
  <2> QED
    BY <2>1, <2>2
<1>3. CASE Communicate
  BY <1>3 DEF Communicate, Drained, processes
<1>4. CASE Deadline
  BY <1>4 DEF Deadline, processes
<1>8. CASE KillExpired
  BY <1>8, SignalsEndProcesses DEF KillExpired
<1>5. CASE TerminateAndWait
  BY <1>5, SignalsEndProcesses DEF TerminateAndWait
<1>6. CASE GracePeriod
  BY <1>6, SignalsEndProcesses DEF GracePeriod
<1>7. CASE Waited
  BY <1>7 DEF Waited, Drained, processes
<1> QED
  BY <1>1, <1>2, <1>3, <1>4, <1>5, <1>6, <1>7, <1>8 DEF Controlling

\* A signal takes the controller out of run_process only where the leader has
\* been waited for or killed before, or where the deadline has just expired.
LEMMA HandlerPreserves ==
  ASSUME IInv, SignalBlocked \/ FirstSignal \/ SecondSignal
  PROVE  IInv'
<1> USE ChildAssumption DEF IInv, TypeOK, LeaderLeftOnlyAtExpiry, KilledAtDeadline, Signalled
<1>1. CASE SignalBlocked
  BY <1>1 DEF SignalBlocked, processes
<1>2. CASE FirstSignal
  <2>1. CASE active
    <3>1. pc \in {"communicate", "expired", "timedOut", "timedOutWait"}
      BY <1>2, <2>1 DEF FirstSignal
    <3>2. /\ leader' \in ProcessStates /\ member' \in ProcessStates
          /\ pc \in {"timedOut", "timedOutWait"} => ~Alive(leader')
          /\ leader' # "running"
      BY <1>2, <2>1, <3>1, SignalsEndProcesses DEF FirstSignal
    <3>3. CASE pc = "communicate"
      <4>1. active' = TRUE
        BY <1>2, <3>3 DEF FirstSignal
      <4> QED
        BY <1>2, <3>2, <3>3, <4>1 DEF FirstSignal
    <3>4. CASE pc # "communicate"
      <4>1. active' = FALSE
        BY <1>2, <3>4 DEF FirstSignal
      <4> QED
        BY <1>2, <3>2, <3>4, <4>1 DEF FirstSignal
    <3> QED
      BY <3>3, <3>4
  <2>2. CASE ~active
    BY <1>2, <2>2 DEF FirstSignal
  <2> QED
    BY <2>1, <2>2
<1>3. CASE SecondSignal
  <2>1. CASE active
    BY <1>3, <2>1, SignalsEndProcesses DEF SecondSignal
  <2>2. CASE ~active
    BY <1>3, <2>2 DEF SecondSignal
  <2> QED
    BY <2>1, <2>2
<1> QED
  BY <1>1, <1>2, <1>3

\* What the processes do by themselves starts no leader.
LEMMA GroupPreserves ==
  ASSUME IInv, (\E kind \in Members : LeaderStarts(kind)) \/ LeaderEnds \/ MemberEnds
  PROVE  IInv'
<1> USE ChildAssumption DEF IInv, TypeOK, LeaderLeftOnlyAtExpiry, KilledAtDeadline,
                            ProcessStates, Alive
<1>1. CASE \E kind \in Members : LeaderStarts(kind)
  <2>1. PICK kind \in Members : LeaderStarts(kind)
    BY <1>1
  <2>2. (piped' = TRUE) \/ (piped' = FALSE)
    BY <2>1 DEF LeaderStarts
  <2> QED
    BY <2>1, <2>2 DEF LeaderStarts
<1>2. CASE LeaderEnds
  BY <1>2 DEF LeaderEnds
<1>3. CASE MemberEnds
  BY <1>3 DEF MemberEnds
<1> QED
  BY <1>1, <1>2, <1>3

\* The inductive invariant of every run of run_process.
THEOREM Invariance == Spec => []IInv
<1>1. IInv /\ UNCHANGED vars => IInv'
  BY DEF IInv, TypeOK, LeaderLeftOnlyAtExpiry, KilledAtDeadline, Alive, vars
<1>2. IInv /\ [Next]_vars => IInv'
  BY <1>1, ControllingPreserves, HandlerPreserves, GroupPreserves DEF Next
<1> QED
  BY InitIInv, <1>2, PTL DEF Spec

\* ACTIVE_PROCESS is set exactly while a group is being waited for (817-851),
\* however many signals arrive.
THEOREM Typing == Spec => []TypeOK
<1>1. IInv => TypeOK
  BY DEF IInv
<1> QED
  BY Invariance, <1>1, PTL

\* run_process leaves the collector or the validator running only when a signal
\* comes between the expiry of the deadline and the SIGKILL for it, and then only
\* one that was sent TERM: at no other time, and for no number of signals
\* (837-851, 788-808).
THEOREM LeaderIsLeftAtExpiryOnly == Spec => []LeaderLeftOnlyAtExpiry
<1>1. IInv => LeaderLeftOnlyAtExpiry
  BY DEF IInv
<1> QED
  BY Invariance, <1>1, PTL

=============================================================================
