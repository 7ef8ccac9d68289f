-------------------------- MODULE ControlledChild --------------------------
(***************************************************************************)
(* run_process: one process group under the controller's deadline and its  *)
(* TERM and HUP handler.  The group has a leader, the process that the     *)
(* controller has started, and may have a member, a process started by the *)
(* leader (the collector starts HOL Light).  All of them have the lock's   *)
(* descriptor open; the leader, and the member unless its output was       *)
(* redirected, have the controller's pipes open.                           *)
(*                                                                         *)
(* communicate() returns when the pipes are at their end and the leader is *)
(* gone.  A group is only signalled while poll() finds the leader running. *)
(* SIGKILL ends a process at once, SIGTERM after a while, or never when it *)
(* is ignored.                                                             *)
(***************************************************************************)
EXTENDS Naturals

CONSTANTS MaxSignals,    \* bound: TERM and HUP signals that the controller gets
          Members,       \* what a leader may start: "quiet" or "piped" members
          Stubborn       \* which of "leader", "member" may ignore TERM

ASSUME ChildAssumption ==
    /\ MaxSignals \in Nat
    /\ Members \subseteq {"quiet", "piped"}
    /\ Stubborn \subseteq {"leader", "member"}

VARIABLES
    pc,      \* where the controller is in run_process
    leader,  \* "none", "running", "terminated" (TERM was sent) or "gone"
    member,  \* the same for the member
    piped,   \* whether the member has the controller's pipes open
    active,  \* ACTIVE_PROCESS is set
    pending, \* PENDING_SIGNAL is set
    blocked, \* a signal is waiting for the mask to be lifted
    signals  \* how many signals there were

vars == <<pc, leader, member, piped, active, pending, blocked, signals>>

processes == <<leader, member, piped>>

ProcessStates == {"none", "running", "terminated", "gone"}

Init ==
    /\ pc = "popen"
    /\ leader = "none" /\ member = "none" /\ piped = FALSE
    /\ active = FALSE /\ pending = FALSE /\ blocked = FALSE
    /\ signals = 0

Alive(process) == process \in {"running", "terminated"}

\* What communicate() waits for.
Drained == ~Alive(leader) /\ ~(piped /\ Alive(member))

----------------------------------------------------------------------------
(* Signals sent to the group                                               *)

Terminated(process) == IF process = "running" THEN "terminated" ELSE process

Killed(process) == IF Alive(process) THEN "gone" ELSE process

\* signal_process_group: nothing is sent when poll() finds the leader gone.
TerminateGroup ==
    /\ leader' = IF Alive(leader) THEN Terminated(leader) ELSE leader
    /\ member' = IF Alive(leader) THEN Terminated(member) ELSE member

KillGroup ==
    /\ leader' = IF Alive(leader) THEN Killed(leader) ELSE leader
    /\ member' = IF Alive(leader) THEN Killed(member) ELSE member

----------------------------------------------------------------------------
(* run_process                                                             *)

\* Popen and ACTIVE_PROCESS, with the handled signals blocked.
Popen ==
    /\ pc = "popen"
    /\ leader' = "running"
    /\ active' = TRUE
    /\ pc' = "unmask"
    /\ UNCHANGED <<member, piped, pending, blocked, signals>>

\* The mask is restored; a signal that came meanwhile is handled here.
Unmask ==
    /\ pc = "unmask"
    /\ blocked' = FALSE
    /\ IF blocked
       THEN /\ pending' = TRUE
            /\ TerminateGroup
            /\ pc' = "interrupted"
       ELSE /\ pc' = "communicate"
            /\ UNCHANGED <<pending, leader, member>>
    /\ UNCHANGED <<piped, active, signals>>

Communicate ==
    /\ pc = "communicate" /\ Drained
    /\ pc' = "returned"
    /\ active' = FALSE
    /\ UNCHANGED <<processes, pending, blocked, signals>>

\* The wall deadline: TimeoutExpired is raised, and nothing is sent as yet.
Deadline ==
    /\ pc = "communicate" /\ ~Drained
    /\ pc' = "expired"
    /\ UNCHANGED <<processes, active, pending, blocked, signals>>

\* except TimeoutExpired: terminate_and_wait(process, SIGKILL).
KillExpired ==
    /\ pc = "expired"
    /\ KillGroup
    /\ pc' = "timedOut"
    /\ UNCHANGED <<piped, active, pending, blocked, signals>>

\* A bug: the signal is sent on, and the controller does not wait.
LeaveAtOnce ==
    /\ pc = "interrupted"
    /\ TerminateGroup
    /\ pc' = "exited"
    /\ active' = FALSE
    /\ UNCHANGED <<piped, pending, blocked, signals>>

\* except ControllerInterrupted: terminate_and_wait(process, PENDING_SIGNAL).
TerminateAndWait ==
    /\ pc = "interrupted"
    /\ TerminateGroup
    /\ pc' = "leaving"
    /\ UNCHANGED <<piped, active, pending, blocked, signals>>

\* A bug: whoever ignores TERM is waited for.
KeepWaiting ==
    /\ pc \in {"timedOut", "leaving"} /\ ~Drained
    /\ pc' = IF pc = "timedOut" THEN "timedOutWait" ELSE "leavingWait"
    /\ UNCHANGED <<processes, active, pending, blocked, signals>>

\* communicate(timeout=5) expires: SIGKILL, and communicate() without end.
GracePeriod ==
    /\ pc \in {"timedOut", "leaving"} /\ ~Drained
    /\ KillGroup
    /\ pc' = IF pc = "timedOut" THEN "timedOutWait" ELSE "leavingWait"
    /\ UNCHANGED <<piped, active, pending, blocked, signals>>

\* A bug: ACTIVE_PROCESS keeps the process that was waited for.
StayActive ==
    /\ pc \in {"timedOut", "timedOutWait", "leaving", "leavingWait"} /\ Drained
    /\ pc' = IF pc \in {"timedOut", "timedOutWait"} THEN "returned" ELSE "exited"
    /\ UNCHANGED <<processes, active, pending, blocked, signals>>

\* terminate_and_wait returns: to collect_target after a deadline, and out
\* of the controller after a signal.
Waited ==
    /\ pc \in {"timedOut", "timedOutWait", "leaving", "leavingWait"} /\ Drained
    /\ pc' = IF pc \in {"timedOut", "timedOutWait"} THEN "returned" ELSE "exited"
    /\ active' = FALSE
    /\ UNCHANGED <<processes, pending, blocked, signals>>

Controlling ==
    \/ Popen \/ Unmask \/ Communicate \/ Deadline \/ KillExpired
    \/ TerminateAndWait \/ GracePeriod \/ Waited

----------------------------------------------------------------------------
(* controller_signal_handler                                               *)

Signalled == signals < MaxSignals /\ signals' = signals + 1

\* Blocked signals wait; several of them are one.
SignalBlocked ==
    /\ pc \in {"popen", "unmask"}
    /\ Signalled
    /\ blocked' = TRUE
    /\ UNCHANGED <<pc, processes, active, pending>>

\* The first signal goes on to the active group and raises, out of
\* communicate() or out of the handling of a deadline, which nothing catches:
\* there, TERM is all that a leader which was not killed yet has got.
FirstSignal ==
    /\ pc \in {"communicate", "expired", "timedOut", "timedOutWait", "returned"}
    /\ ~pending
    /\ Signalled
    /\ pending' = TRUE
    /\ IF active THEN TerminateGroup ELSE UNCHANGED <<leader, member>>
    /\ pc' = IF pc = "communicate" THEN "interrupted"
             ELSE IF pc = "expired" THEN "abandoned" ELSE "exited"
    /\ active' = (pc = "communicate")
    /\ UNCHANGED <<piped, blocked>>

\* A second one kills the group.
SecondSignal ==
    /\ pending /\ pc \notin {"exited", "abandoned"}
    /\ Signalled
    /\ IF active THEN KillGroup ELSE UNCHANGED <<leader, member>>
    /\ UNCHANGED <<pc, piped, active, pending, blocked>>

----------------------------------------------------------------------------
(* The group                                                               *)

LeaderStarts(kind) ==
    /\ leader = "running" /\ member = "none" /\ kind \in Members
    /\ member' = "running"
    /\ piped' = (kind = "piped")
    /\ UNCHANGED <<pc, leader, active, pending, blocked, signals>>

\* A process ends by itself; a leader may do so before its member.
LeaderEnds ==
    /\ Alive(leader)
    /\ leader' = "gone"
    /\ UNCHANGED <<pc, member, piped, active, pending, blocked, signals>>

MemberEnds ==
    /\ Alive(member)
    /\ member' = "gone"
    /\ UNCHANGED <<pc, leader, piped, active, pending, blocked, signals>>

\* TERM has its effect on a process that does not ignore it.
LeaderTerminates ==
    /\ leader = "terminated" /\ "leader" \notin Stubborn
    /\ LeaderEnds

MemberTerminates ==
    /\ member = "terminated" /\ "member" \notin Stubborn
    /\ MemberEnds

Next ==
    \/ Controlling
    \/ SignalBlocked \/ FirstSignal \/ SecondSignal
    \/ \E kind \in Members : LeaderStarts(kind)
    \/ LeaderEnds \/ MemberEnds

\* The controller and its timers go on and TERM arrives; nothing says that a
\* process ends when it is not made to.
Fairness ==
    /\ WF_vars(Controlling)
    /\ WF_vars(LeaderTerminates) /\ WF_vars(MemberTerminates)

Spec == Init /\ [][Next]_vars /\ Fairness

----------------------------------------------------------------------------
(* Properties                                                              *)

\* ACTIVE_PROCESS is set exactly while a group is being waited for: a later
\* signal must not be sent to a process group that is gone.
TypeOK ==
    /\ pc \in {"popen", "unmask", "communicate", "expired", "timedOut",
               "timedOutWait", "interrupted", "leaving", "leavingWait",
               "returned", "exited", "abandoned"}
    /\ leader \in ProcessStates /\ member \in ProcessStates
    /\ piped \in BOOLEAN /\ active \in BOOLEAN
    /\ pending \in BOOLEAN /\ blocked \in BOOLEAN
    /\ signals \in 0..MaxSignals
    /\ active <=> pc \notin {"popen", "returned", "exited", "abandoned"}

\* A way out of run_process leaves the collector or the validator running only
\* where a signal comes between the expiry of the deadline and the SIGKILL for
\* it, and then only one that was sent TERM: no deadline that is handled, no
\* signal before or after that window, and no number of signals does.
LeaderLeftOnlyAtExpiry ==
    /\ pc \in {"returned", "exited"} => ~Alive(leader)
    /\ pc = "abandoned" => leader # "running"

\* "... so the controller can terminate the entire process group if the inner
\* controller does not return."  A started group does not hold up the
\* controller for ever.
ProcessReturns == <>(pc \in {"returned", "exited", "abandoned"})

\* The one way to wait for ever: the leader is gone, and a member that holds
\* the controller's pipes never ends.
ReturnsUnlessHeld ==
    \/ ProcessReturns
    \/ <>[](~Alive(leader) /\ piped /\ Alive(member))

=============================================================================
