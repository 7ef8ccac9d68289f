------------------------ MODULE ContractPublication ------------------------
(***************************************************************************)
(* The collection contract of an artifact root, from the start of a run of *)
(* the controller to the point where the run may collect under it:         *)
(* recover_contract_publication, and the publication that follows when no  *)
(* contract is found.  Runs come one after the other (the controller lock, *)
(* see SweepController), possibly with different inputs; each can be       *)
(* killed, and the machine can lose power, between any two system calls.   *)
(*                                                                         *)
(* Every publication stages its bytes under a name with a fresh nonce, so  *)
(* Inodes is the set of nonces that are ever drawn: it bounds the number   *)
(* of publications that are started.                                       *)
(***************************************************************************)
EXTENDS LinkPublication, FiniteSets

CONSTANTS Contracts, \* what build_contract can return
          Faults     \* what may happen to the controller: "kill", "power"

VARIABLES expected, \* the contract of the current run
          content,  \* the contract staged under each nonce, "none" if unused
          todo,     \* the pending names the recovery loop has not looked at
          complete, \* the complete pending names the loop has found
          admitted  \* history: the contracts that runs have collected under

vars == <<cache, disk, pc, job, expected, content, todo, complete, admitted>>
run == <<expected, content, admitted>>
loop == <<todo, complete>>

ASSUME ContractAssumption ==
    /\ Terminals = {"contract"}
    /\ Inodes # {} /\ Contracts # {} /\ "none" \notin Contracts
    /\ Faults \subseteq {"kill", "power"}

Contract(d) == d.terminal["contract"]

NoJob == [inode |-> NoInode, terminal |-> "contract"]

Positions ==
    PublishSteps \cup AliasSteps \cup
    {"scan", "syncInterrupted", "decide", "ready", "refused", "down"}

Init ==
    /\ cache = EmptyDirectory
    /\ disk = EmptyDirectory
    /\ pc = "down"
    /\ job = NoJob
    /\ expected \in Contracts
    /\ content = [i \in Inodes |-> "none"]
    /\ todo = {} /\ complete = {}
    /\ admitted = {}

\* The bytes of i are those of the contract c.
Says(i, c) == IsComplete(cache, i) /\ content[i] = c

----------------------------------------------------------------------------
(* recover_contract_publication                                            *)

\* A run starts, with the inputs of the previous one or with others.
StartRun(c) ==
    /\ pc \in {"down", "ready", "refused"}
    /\ pc' = "scan"
    /\ expected' = c
    /\ todo' = cache.pending
    /\ complete' = {}
    /\ UNCHANGED <<cache, disk, job, content, admitted>>

\* The loop meets the alias of the terminal name and leaves it for later.
SkipAlias(i) ==
    /\ Contract(cache) = i
    /\ pc' = pc
    /\ UNCHANGED <<cache, complete, job>>

\* The loop meets a pending name that a crash left before its seal, ...
SealInterrupted(i) ==
    /\ PendingOnly(cache, i) /\ cache.mode[i] = "0600"
    /\ cache' = Chmodded(cache, i, "0400")
    /\ job' = [inode |-> i, terminal |-> "contract"]
    /\ pc' = "syncInterrupted"
    /\ UNCHANGED complete

\* ... one that an earlier recovery has sealed, ...
SkipInterrupted(i) ==
    /\ PendingOnly(cache, i) /\ cache.mode[i] = "0400"
    /\ pc' = pc
    /\ UNCHANGED <<cache, complete, job>>

\* A bug: the bytes of a complete pending contract are not compared.
TakeAny(i) ==
    /\ PendingOnly(cache, i) /\ cache.mode[i] = "0444"
    /\ pc' = pc
    /\ complete' = complete \cup {i}
    /\ UNCHANGED <<cache, job>>

\* ... or a complete one, which must say what this run would publish.
TakeComplete(i) ==
    /\ PendingOnly(cache, i) /\ cache.mode[i] = "0444"
    /\ Require(Says(i, expected), "scan")
    /\ complete' = complete \cup {i}
    /\ UNCHANGED <<cache, job>>

LookAt(i) ==
    /\ pc = "scan" /\ i \in todo
    /\ todo' = todo \ {i}
    /\ SkipAlias(i) \/ SealInterrupted(i) \/ SkipInterrupted(i) \/ TakeComplete(i)
    /\ UNCHANGED <<disk, run>>

SyncInterrupted ==
    /\ pc = "syncInterrupted"
    /\ disk' = [FileSynced(job.inode) EXCEPT
                    !.pending = cache.pending, !.terminal = cache.terminal]
    /\ pc' = "scan"
    /\ UNCHANGED <<cache, job, run, loop>>

\* A bug: the second name of the published contract is left alone.
ForgetAlias ==
    /\ pc = "scan" /\ todo = {}
    /\ pc' = "decide"
    /\ UNCHANGED <<cache, disk, job, run, loop>>

\* After the loop: recover_link_alias, whose files must be sealed.
EndLoop ==
    LET i == Contract(cache)
    IN  /\ pc = "scan" /\ todo = {}
        /\ IF i \in cache.pending
           THEN /\ Require(cache.mode[i] = "0444" /\ IsComplete(cache, i), "aliasSync")
                /\ job' = [inode |-> i, terminal |-> "contract"]
           ELSE /\ pc' = "decide"
                /\ UNCHANGED job
        /\ UNCHANGED <<cache, disk, run, loop>>

RecoverAlias ==
    /\ SyncAlias \/ UnlinkAlias \/ SyncUnlinkedAlias("decide")
    /\ UNCHANGED <<run, loop>>

\* Every way into the rest of the run goes with the contract it was found
\* or published with.
Admitting == admitted' = IF pc' = "ready" THEN admitted \cup {expected} ELSE admitted

\* A bug: the published contract is not compared with the inputs of the run.
AcceptAny ==
    /\ pc = "decide" /\ HasTerminal(cache, "contract")
    /\ pc' = "ready"
    /\ Admitting
    /\ UNCHANGED <<cache, disk, job, expected, content, loop>>

\* The published contract is the one this run would publish, and the only one.
AcceptTerminal ==
    /\ pc = "decide" /\ HasTerminal(cache, "contract")
    /\ Require(/\ Contract(cache) \notin cache.pending
               /\ cache.mode[Contract(cache)] = "0444"
               /\ Says(Contract(cache), expected)
               /\ complete = {}, "ready")
    /\ Admitting
    /\ UNCHANGED <<cache, disk, job, expected, content, loop>>

\* A complete pending contract is published under its own nonce.
FinishComplete ==
    /\ pc = "decide" /\ ~HasTerminal(cache, "contract") /\ complete # {}
    /\ Require(Cardinality(complete) = 1, "link")
    /\ job' = [inode |-> CHOOSE i \in complete : TRUE, terminal |-> "contract"]
    /\ UNCHANGED <<cache, disk, run, loop>>

----------------------------------------------------------------------------
(* run(): publish_terminal, when the recovery has found no contract        *)

\* A bug: the recovery found a complete contract, and it is not finished.
PublishAnother(i) ==
    /\ pc = "decide" /\ ~HasTerminal(cache, "contract")
    /\ content[i] = "none"
    /\ content' = [content EXCEPT ![i] = expected]
    /\ job' = [inode |-> i, terminal |-> "contract"]
    /\ pc' = "open"
    /\ UNCHANGED <<cache, disk, expected, admitted, loop>>

PublishFresh(i) ==
    /\ pc = "decide" /\ ~HasTerminal(cache, "contract") /\ complete = {}
    /\ content[i] = "none"
    /\ content' = [content EXCEPT ![i] = expected]
    /\ job' = [inode |-> i, terminal |-> "contract"]
    /\ pc' = "open"
    /\ UNCHANGED <<cache, disk, expected, admitted, loop>>

Publishing == PublishStep /\ UNCHANGED <<run, loop>>

FinishContract ==
    /\ SyncUnlink("ready")
    /\ Admitting
    /\ UNCHANGED <<expected, content, loop>>

----------------------------------------------------------------------------
(* The environment                                                         *)

\* The process is gone, and its local variables with it.
Forgotten ==
    /\ pc' = "down"
    /\ job' = NoJob
    /\ todo' = {} /\ complete' = {}

Kill ==
    /\ "kill" \in Faults
    /\ Forgotten
    /\ UNCHANGED <<cache, disk, run>>

PowerLoss ==
    /\ "power" \in Faults
    /\ Forgotten
    /\ LosePower
    /\ UNCHANGED run

Next ==
    \/ \E c \in Contracts : StartRun(c)
    \/ \E i \in Inodes : LookAt(i)
    \/ SyncInterrupted
    \/ EndLoop
    \/ RecoverAlias
    \/ AcceptTerminal
    \/ FinishComplete
    \/ \E i \in Inodes : PublishFresh(i)
    \/ Publishing
    \/ FinishContract
    \/ Kill
    \/ PowerLoss

Spec == Init /\ [][Next]_vars

----------------------------------------------------------------------------
(* Properties                                                              *)

TypeOK ==
    /\ cache \in Directory
    /\ disk \in Directory
    /\ pc \in Positions
    /\ job \in Jobs \cup {NoJob}
    /\ expected \in Contracts
    /\ content \in [Inodes -> Contracts \cup {"none"}]
    /\ todo \subseteq Inodes
    /\ complete \subseteq Inodes
    /\ admitted \subseteq Contracts

\* However many runs were started, killed and started again with whatever
\* inputs, there is never a choice between two complete contracts, staged or
\* published: the two refusals for it ("multiple complete ...", "complete
\* pending contract conflicts ...") are never needed.
OneCompleteContract ==
    Cardinality({ i \in Inodes :
        /\ i \in cache.pending \/ Linked(cache, i)
        /\ cache.mode[i] = "0444" }) <= 1

\* A run is turned away only because a contract with other inputs has been
\* staged or published here: "The same command resumes" after any fault.
RefusedForConflict ==
    pc = "refused" =>
        \E i \in Inodes :
            /\ i \in cache.pending \/ Linked(cache, i)
            /\ content[i] # expected

\* The only other cause that faults can leave: the published contract has lost
\* the mode that a kill had left unsynced before the recovery published it.
RefusedWithCause ==
    pc = "refused" =>
        \/ \E i \in Inodes :
               /\ i \in cache.pending \/ Linked(cache, i)
               /\ content[i] # expected
        \/ HasTerminal(cache, "contract") /\ cache.mode[Contract(cache)] # "0444"

\* A run that may collect has its contract on stable storage, whole: what it
\* collects can never be found later without the contract it belongs to.
ReadyIsDurable ==
    pc = "ready" =>
        /\ Contract(disk) # NoInode
        /\ disk.data[Contract(disk)] = Size
        /\ content[Contract(disk)] = expected

Agreement == INSTANCE ContractAgreement WITH
    chosen <- IF HasTerminal(disk, "contract") THEN content[Contract(disk)] ELSE "none"

\* All runs that ever collect do so under one contract.
ImplementsAgreement == Agreement!Spec

=============================================================================
