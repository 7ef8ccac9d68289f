--------------------- MODULE ContractPublication_proofs ---------------------
(***************************************************************************)
(* For any number of nonces, any contracts, any number of writes and any   *)
(* set of faults: the inductive invariant of ContractPublication, its      *)
(* safety properties, and that all runs agree on one contract.             *)
(***************************************************************************)
EXTENDS ContractPublication, EvidenceDirectory_proofs, FiniteSetTheorems

\* A contract that a later run would find complete, staged or published.
Sealed(i) ==
    \/ i \in cache.pending /\ cache.mode[i] = "0444"
    \/ Contract(cache) = i

\* Names and attributes, whatever the run is doing.
NamesInv ==
    /\ Contract(disk) # NoInode => Contract(cache) = Contract(disk)
    /\ Contract(cache) # NoInode /\ Contract(disk) = NoInode =>
           Contract(cache) \in cache.pending
    /\ \A i \in disk.pending : i \in cache.pending \/ Contract(cache) = i

InodesInv ==
    \A i \in Inodes :
        /\ disk.mode[i] = "0444" => cache.mode[i] = "0444"
        /\ cache.mode[i] = "0444" \/ Contract(cache) = i =>
               cache.data[i] = Size /\ disk.data[i] = Size
        /\ content[i] = "none" =>
               /\ i \notin cache.pending /\ Contract(cache) # i
               /\ cache.mode[i] = "0600" /\ disk.mode[i] = "0600"

OneSealed == \A i, j \in Inodes : Sealed(i) /\ Sealed(j) => i = j

DirInv == NamesInv /\ InodesInv /\ OneSealed

\* What holds between two system calls of a publication ...
PublishInv ==
    /\ pc \in PublishSteps \cup AliasSteps \cup {"syncInterrupted"} => job \in Jobs
    /\ pc \in PublishSteps => content[job.inode] = expected
    /\ pc \in {"open", "write", "seal"} => \A i \in Inodes : ~Sealed(i)
    /\ pc = "open" => job.inode \notin cache.pending /\ cache.mode[job.inode] = "0600"
    /\ pc \in {"write", "seal", "syncSeal", "syncName", "link"} =>
           job.inode \in cache.pending /\ Contract(cache) = NoInode
    /\ pc = "open" => Contract(cache) = NoInode
    /\ pc = "seal" => cache.data[job.inode] = Size /\ disk.data[job.inode] = Size
    /\ pc \in {"syncSeal", "syncName", "link", "syncLink", "unlink", "syncUnlink"} \cup AliasSteps =>
           cache.mode[job.inode] = "0444"

\* ... and between those of its last steps and of the alias recovery.
LinkInv ==
    /\ pc \in {"syncLink", "unlink", "aliasSync", "aliasUnlink"} =>
           job.inode \in cache.pending /\ Contract(cache) = job.inode
    /\ pc \in {"unlink", "aliasUnlink", "syncUnlink", "aliasSyncUnlink"} =>
           Contract(disk) = job.inode
    /\ pc \in {"syncUnlink", "aliasSyncUnlink"} => job.inode \notin cache.pending

Looping == {"scan", "syncInterrupted", "decide"} \cup AliasSteps

\* The recovery loop has seen all pending names that are not left to do.
LoopInv ==
    /\ pc \in Looping =>
           /\ \A i \in complete :
                  /\ i \in cache.pending /\ Contract(cache) # i
                  /\ cache.mode[i] = "0444" /\ content[i] = expected
           /\ \A i \in cache.pending :
                  cache.mode[i] = "0444" /\ Contract(cache) # i => i \in todo \cup complete
    /\ pc \in {"scan", "syncInterrupted"} => todo \subseteq cache.pending
    /\ pc \in {"decide"} \cup AliasSteps => todo = {}
    /\ pc = "decide" => Contract(cache) \notin cache.pending

ReadyInv == pc = "ready" => Contract(disk) # NoInode /\ content[Contract(disk)] = expected

IInv == TypeOK /\ DirInv /\ PublishInv /\ LinkInv /\ LoopInv /\ ReadyInv /\ RefusedWithCause

----------------------------------------------------------------------------
(* Facts about the only terminal name                                      *)

\* A directory's contract is one of its inodes or missing.
LEMMA ContractFacts ==
  ASSUME NEW d \in Directory
  PROVE  /\ Contract(d) \in Inodes \cup {NoInode}
         /\ \A i \in Inodes : Linked(d, i) <=> Contract(d) = i
         /\ \A i \in Inodes : PendingOnly(d, i) <=> i \in d.pending /\ Contract(d) # i
         /\ HasTerminal(d, "contract") <=> Contract(d) # NoInode
         /\ NoInode \notin d.pending
         /\ d.pending \subseteq Inodes
  BY ContractAssumption, DirectoryAssumption
     DEF Contract, Directory, Linked, PendingOnly, HasTerminal

\* The jobs are the nonces.
LEMMA JobFacts ==
  ASSUME job \in Jobs
  PROVE  job.inode \in Inodes /\ job.terminal = "contract" /\ job.inode # NoInode
  BY ContractAssumption, DirectoryAssumption DEF Jobs

\* The invariant holds in an empty artifact root.
LEMMA InitIInv == Init => IInv
<1> SUFFICES ASSUME Init PROVE IInv
  OBVIOUS
<1>1. Contract(EmptyDirectory) = NoInode
  BY EmptyFacts, ContractAssumption DEF Contract
<1>2. /\ EmptyDirectory.pending = {} /\ EmptyDirectory \in Directory
      /\ \A i \in Inodes : EmptyDirectory.mode[i] = "0600"
  BY EmptyFacts
<1>3. TypeOK
  BY <1>2 DEF Init, TypeOK, Positions
<1>4. DirInv
  BY <1>1, <1>2, DirectoryAssumption DEF Init, DirInv, NamesInv, InodesInv, OneSealed, Sealed
<1>5. PublishInv /\ LinkInv /\ LoopInv
  BY DEF Init, PublishInv, LinkInv, LoopInv, PublishSteps, AliasSteps, Looping
<1>6. ReadyInv /\ RefusedWithCause
  BY DEF Init, ReadyInv, RefusedWithCause
<1> QED
  BY <1>3, <1>4, <1>5, <1>6 DEF IInv

----------------------------------------------------------------------------
(* Types                                                                   *)

\* The directories stay directories, and the job a job.
LEMMA DirectoriesTyped ==
  ASSUME TypeOK, PublishInv, [Next]_vars
  PROVE  cache' \in Directory /\ disk' \in Directory /\ job' \in Jobs \cup {NoJob}
<1>0. cache \in Directory /\ disk \in Directory /\ job \in Jobs \cup {NoJob}
  BY DEF TypeOK
<1>1. "0400" \in Modes /\ "0444" \in Modes
  BY DEF Modes
<1>2. NamesSynced \in Directory
  BY <1>0, NamesSyncedFacts
<1>3. ASSUME NEW i \in Inodes
      PROVE  [inode |-> i, terminal |-> "contract"] \in Jobs
  BY ContractAssumption DEF Jobs
<1>4. CASE \E c \in Contracts : StartRun(c)
  BY <1>0, <1>4 DEF StartRun
<1>5. ASSUME NEW i \in Inodes, LookAt(i)
      PROVE  cache' \in Directory /\ disk' \in Directory /\ job' \in Jobs \cup {NoJob}
  <2>1. Chmodded(cache, i, "0400") \in Directory
    BY <1>0, <1>1, ChmoddedFacts
  <2> QED
    BY <1>0, <1>3, <1>5, <2>1
       DEF LookAt, SkipAlias, SealInterrupted, SkipInterrupted, TakeComplete
<1>6. CASE SyncInterrupted
  <2>1. job \in Jobs
    BY <1>6 DEF SyncInterrupted, PublishInv
  <2>2. /\ FileSynced(job.inode) \in Directory /\ job.inode \in Inodes
        /\ disk' = [FileSynced(job.inode) EXCEPT
                      !.pending = cache.pending, !.terminal = cache.terminal]
    BY <1>0, <1>6, <2>1, JobFacts, FileSyncedFacts DEF SyncInterrupted
  <2>3. disk' \in Directory
    BY <1>0, <2>2 DEF Directory
  <2> QED
    BY <1>0, <1>6, <2>3 DEF SyncInterrupted
<1>7. CASE EndLoop
  <2>1. Contract(cache) \in cache.pending => Contract(cache) \in Inodes
    BY <1>0, ContractFacts
  <2> QED
    BY <1>0, <1>3, <1>7, <2>1 DEF EndLoop
<1>8. CASE RecoverAlias
  <2>1. job \in Jobs
    BY <1>8 DEF RecoverAlias, SyncAlias, UnlinkAlias, SyncUnlinkedAlias, PublishInv, AliasSteps
  <2>2. Unlinked(cache, job.inode) \in Directory
    BY <1>0, <2>1, JobFacts, UnlinkedFacts
  <2> QED
    BY <1>0, <1>2, <1>8, <2>2 DEF RecoverAlias, SyncAlias, UnlinkAlias, SyncUnlinkedAlias
<1>9. CASE AcceptTerminal
  BY <1>0, <1>9 DEF AcceptTerminal
<1>10. CASE FinishComplete
  <2>1. (CHOOSE i \in complete : TRUE) \in Inodes
    BY <1>10 DEF FinishComplete, TypeOK
  <2> QED
    BY <1>0, <1>3, <1>10, <2>1 DEF FinishComplete
<1>11. CASE \E i \in Inodes : PublishFresh(i)
  BY <1>0, <1>3, <1>11 DEF PublishFresh
<1>12. CASE Publishing
  <2>1. job \in Jobs
    BY <1>12 DEF Publishing, PublishStep, OpenPending, WritePending, SyncPending, SealPending,
                SyncSeal, SyncPendingName, LinkTerminal, SyncLink, UnlinkPending, PublishInv, PublishSteps
  <2>2. /\ job.inode \in Inodes /\ job.terminal \in Terminals
        /\ Created(cache, job.inode) \in Directory
        /\ ~IsComplete(cache, job.inode) => Written(cache, job.inode) \in Directory
        /\ FileSynced(job.inode) \in Directory
        /\ Chmodded(cache, job.inode, "0444") \in Directory
        /\ LinkedAs(cache, job.inode, job.terminal) \in Directory
        /\ Unlinked(cache, job.inode) \in Directory
    BY <1>0, <1>1, <2>1, JobFacts, ContractAssumption, CreatedFacts, WrittenFacts, FileSyncedFacts,
       ChmoddedFacts, LinkedAsFacts, UnlinkedFacts DEF IsComplete
  <2> QED
    BY <1>0, <1>2, <1>12, <2>2
       DEF Publishing, PublishStep, OpenPending, WritePending, SyncPending, SealPending,
           SyncSeal, SyncPendingName, LinkTerminal, SyncLink, UnlinkPending
<1>13. CASE FinishContract
  BY <1>0, <1>2, <1>13 DEF FinishContract, SyncUnlink
<1>14. CASE Kill
  BY <1>0, <1>14 DEF Kill, Forgotten
<1>15. CASE PowerLoss
  BY <1>0, <1>15, PowerFacts DEF PowerLoss, Forgotten
<1>16. CASE UNCHANGED vars
  BY <1>0, <1>16 DEF vars
<1> QED
  BY <1>4, <1>5, <1>6, <1>7, <1>8, <1>9, <1>10, <1>11, <1>12, <1>13, <1>14, <1>15, <1>16 DEF Next

\* Every variable keeps its type.
LEMMA TypesPreserved == ASSUME TypeOK, PublishInv, [Next]_vars PROVE TypeOK'
<1>1. cache' \in Directory /\ disk' \in Directory /\ job' \in Jobs \cup {NoJob}
  BY DirectoriesTyped
<1>2. pc' \in Positions
  <2>1. pc \in Positions
    BY DEF TypeOK
  <2> QED
    BY <2>1 DEF Next, vars, StartRun, LookAt, SkipAlias, SealInterrupted, SkipInterrupted,
           TakeComplete, SyncInterrupted, EndLoop, RecoverAlias, SyncAlias, UnlinkAlias,
           SyncUnlinkedAlias, AcceptTerminal, FinishComplete, PublishFresh, Publishing, PublishStep,
           OpenPending, WritePending, SyncPending, SealPending, SyncSeal, SyncPendingName,
           LinkTerminal, SyncLink, UnlinkPending, FinishContract, SyncUnlink, Kill, PowerLoss,
           Forgotten, Require, Positions, PublishSteps, AliasSteps
<1>3. expected' \in Contracts /\ admitted' \subseteq Contracts
  <2>1. expected \in Contracts /\ admitted \subseteq Contracts
    BY DEF TypeOK
  <2> QED
    BY <2>1 DEF Next, vars, run, StartRun, LookAt, SyncInterrupted, EndLoop, RecoverAlias,
           AcceptTerminal, FinishComplete, PublishFresh, Publishing, FinishContract, Admitting,
           Kill, PowerLoss
<1>4. content' \in [Inodes -> Contracts \cup {"none"}]
  <2>1. content \in [Inodes -> Contracts \cup {"none"}] /\ expected \in Contracts
    BY DEF TypeOK
  <2>2. CASE \E i \in Inodes : PublishFresh(i)
    BY <2>1, <2>2 DEF PublishFresh
  <2>3. CASE ~\E i \in Inodes : PublishFresh(i)
    BY <2>1, <2>3 DEF Next, vars, run, StartRun, LookAt, SyncInterrupted, EndLoop, RecoverAlias,
           AcceptTerminal, FinishComplete, Publishing, FinishContract, Kill, PowerLoss
  <2> QED
    BY <2>2, <2>3
<1>5. todo' \subseteq Inodes /\ complete' \subseteq Inodes
  <2>1. todo \subseteq Inodes /\ complete \subseteq Inodes /\ cache.pending \subseteq Inodes
    BY DEF TypeOK, Directory
  <2> QED
    BY <2>1 DEF Next, vars, loop, StartRun, LookAt, SkipAlias, SealInterrupted, SkipInterrupted,
           TakeComplete, SyncInterrupted, EndLoop, RecoverAlias, AcceptTerminal, FinishComplete,
           PublishFresh, Publishing, FinishContract, Kill, PowerLoss, Forgotten
<1> QED
  BY <1>1, <1>2, <1>3, <1>4, <1>5 DEF TypeOK

----------------------------------------------------------------------------
(* Steps that leave the directory alone                                    *)

\* Nothing that is said of the directory changes while it does not.
LEMMA SameDirectory ==
  ASSUME DirInv, UNCHANGED <<cache, disk, content>>
  PROVE  DirInv'
  BY DEF DirInv, NamesInv, InodesInv, OneSealed, Sealed, Contract

\* A new run looks at every pending name.
LEMMA StartPreserves == ASSUME IInv, NEW c \in Contracts, StartRun(c) PROVE IInv'
<1>1. /\ UNCHANGED <<cache, disk, job, content, admitted>>
      /\ pc' = "scan" /\ todo' = cache.pending /\ complete' = {}
  BY DEF StartRun
<1>2. TypeOK' /\ DirInv'
  BY <1>1, SameDirectory, TypesPreserved DEF IInv, Next
<1>3. PublishInv' /\ LinkInv' /\ ReadyInv' /\ RefusedWithCause'
  BY <1>1 DEF PublishInv, LinkInv, ReadyInv, RefusedWithCause, PublishSteps, AliasSteps
<1>4. LoopInv'
  BY <1>1 DEF LoopInv, Looping, AliasSteps
<1> QED
  BY <1>2, <1>3, <1>4 DEF IInv

\* A kill leaves the directory as it is.
LEMMA KillPreserves == ASSUME IInv, Kill PROVE IInv'
<1>1. /\ UNCHANGED <<cache, disk, expected, content, admitted>>
      /\ pc' = "down" /\ todo' = {} /\ complete' = {}
  BY DEF Kill, Forgotten, run
<1>2. TypeOK' /\ DirInv'
  BY <1>1, SameDirectory, TypesPreserved DEF IInv, Next
<1>3. PublishInv' /\ LinkInv' /\ ReadyInv' /\ RefusedWithCause' /\ LoopInv'
  BY <1>1 DEF PublishInv, LinkInv, ReadyInv, RefusedWithCause, PublishSteps, AliasSteps,
              LoopInv, Looping
<1> QED
  BY <1>2, <1>3 DEF IInv

\* What any directory that a power loss leaves shows.
LEMMA PowerPreserves == ASSUME IInv, PowerLoss PROVE IInv'
<1>1. /\ pc' = "down" /\ todo' = {} /\ complete' = {}
      /\ UNCHANGED <<expected, content, admitted>> /\ LosePower
      /\ cache \in Directory /\ disk \in Directory
  BY DEF PowerLoss, Forgotten, run, IInv, TypeOK
<1>2. /\ cache' \in Directory /\ disk' = cache'
      /\ cache'.pending \subseteq cache.pending \cup disk.pending
      /\ Contract(cache') \in {Contract(cache), Contract(disk)}
      /\ \A i \in Inodes :
             /\ cache'.data[i] \in {cache.data[i]} \cup disk.data[i]..cache.data[i]
             /\ cache'.mode[i] \in {cache.mode[i], disk.mode[i]}
  BY <1>1, PowerFacts, ContractAssumption DEF Contract
<1>3. TypeOK'
  BY TypesPreserved DEF IInv, Next
<1>4. NamesInv'
  BY <1>2 DEF NamesInv, Contract
<1>5. ASSUME NEW i \in Inodes, Sealed(i)' PROVE Sealed(i)
  <2>1. /\ cache'.mode[i] = "0444" => cache.mode[i] = "0444"
        /\ i \in cache'.pending => i \in cache.pending \/ Contract(cache) = i
        /\ Contract(cache') = i => Contract(cache) = i
    BY <1>2, DirectoryAssumption DEF IInv, DirInv, NamesInv, InodesInv
  <2>2. (i \in cache'.pending /\ cache'.mode[i] = "0444") \/ Contract(cache') = i
    BY <1>5 DEF Sealed, Contract
  <2> QED
    BY <2>1, <2>2 DEF Sealed
<1>6. OneSealed'
  BY <1>5 DEF OneSealed, IInv, DirInv
<1>7. Contract(cache') = Contract(cache) \/ Contract(cache') = NoInode
  BY <1>2 DEF IInv, DirInv, NamesInv
<1>8. InodesInv'
  <2> SUFFICES ASSUME NEW i \in Inodes
      PROVE  /\ cache'.mode[i] = "0444" \/ Contract(cache') = i =>
                    cache'.data[i] = Size
             /\ content[i] = "none" =>
                    /\ i \notin cache'.pending /\ Contract(cache') # i
                    /\ cache'.mode[i] = "0600"
    BY <1>1, <1>2 DEF InodesInv, Contract
  <2>1. /\ disk.mode[i] = "0444" => cache.mode[i] = "0444"
        /\ cache.mode[i] = "0444" \/ Contract(cache) = i =>
               cache.data[i] = Size /\ disk.data[i] = Size
        /\ content[i] = "none" =>
               /\ i \notin cache.pending /\ Contract(cache) # i
               /\ cache.mode[i] = "0600" /\ disk.mode[i] = "0600"
    BY DEF IInv, DirInv, InodesInv
  <2>2. cache'.mode[i] = "0444" \/ Contract(cache') = i => cache'.data[i] = Size
    <3>1. SUFFICES ASSUME cache'.mode[i] = "0444" \/ Contract(cache') = i
                   PROVE  cache.data[i] = Size /\ disk.data[i] = Size
      BY <1>2, DirectoryAssumption
    <3> QED
      BY <1>2, <1>7, <2>1, <3>1, DirectoryAssumption
  <2>3. content[i] = "none" => cache'.mode[i] = "0600"
    BY <1>2, <2>1
  <2>4. content[i] = "none" => i \notin cache'.pending /\ Contract(cache') # i
    BY <1>2, <1>7, <2>1, DirectoryAssumption DEF IInv, DirInv, NamesInv
  <2> QED
    BY <2>2, <2>3, <2>4
<1>9. PublishInv' /\ LinkInv' /\ ReadyInv' /\ RefusedWithCause' /\ LoopInv'
  BY <1>1 DEF PublishInv, LinkInv, ReadyInv, RefusedWithCause, PublishSteps, AliasSteps,
              LoopInv, Looping
<1> QED
  BY <1>3, <1>4, <1>6, <1>8, <1>9 DEF IInv, DirInv

----------------------------------------------------------------------------
(* The recovery loop                                                       *)

\* A pending name without its seal is sealed as interrupted: it stays pending and
\* never looks complete.
LEMMA SealInterruptedPreserves ==
  ASSUME IInv, NEW i \in Inodes, LookAt(i), SealInterrupted(i)
  PROVE  IInv'
<1>0. cache \in Directory /\ "0400" \in Modes
  BY DEF IInv, TypeOK, Modes
<1>1. /\ pc = "scan" /\ pc' = "syncInterrupted" /\ todo' = todo \ {i}
      /\ UNCHANGED <<disk, expected, content, admitted, complete>>
      /\ i \in cache.pending /\ Contract(cache) # i /\ cache.mode[i] = "0600"
      /\ job' = [inode |-> i, terminal |-> "contract"]
  BY <1>0, ContractFacts DEF LookAt, SealInterrupted, run
<1>2. /\ cache'.pending = cache.pending /\ cache'.data = cache.data
      /\ Contract(cache') = Contract(cache)
      /\ cache'.mode[i] = "0400"
      /\ \A j \in Inodes : j # i => cache'.mode[j] = cache.mode[j]
  <2>1. /\ cache' = Chmodded(cache, i, "0400") /\ cache.mode \in [Inodes -> Modes]
    BY <1>0 DEF SealInterrupted, Directory
  <2>2. /\ cache'.pending = cache.pending /\ cache'.data = cache.data
        /\ cache'.terminal = cache.terminal
        /\ cache'.mode = [cache.mode EXCEPT ![i] = "0400"]
    BY <1>0, <2>1, ChmoddedFacts
  <2> QED
    BY <2>1, <2>2 DEF Contract
<1>3. TypeOK'
  BY TypesPreserved DEF IInv, Next
<1>4. NamesInv'
  BY <1>1, <1>2 DEF IInv, DirInv, NamesInv, Contract
<1>5. InodesInv'
  BY <1>1, <1>2 DEF IInv, DirInv, InodesInv, Contract
<1>6. OneSealed'
  <2>1. \A j \in Inodes : Sealed(j)' => Sealed(j)
    BY <1>2 DEF Sealed, Contract
  <2> QED
    BY <2>1 DEF IInv, DirInv, OneSealed
<1>7. PublishInv'
  <2>1. job' \in Jobs
    BY <1>1, ContractAssumption DEF Jobs
  <2> QED
    BY <1>1, <2>1 DEF PublishInv, PublishSteps, AliasSteps
<1>8. LinkInv' /\ ReadyInv' /\ RefusedWithCause'
  BY <1>1 DEF LinkInv, ReadyInv, RefusedWithCause
<1>9. LoopInv'
  <2>1. cache.pending \subseteq Inodes /\ complete \subseteq Inodes
    BY <1>0, ContractFacts DEF IInv, TypeOK
  <2> QED
    BY <1>1, <1>2, <2>1 DEF IInv, LoopInv, Looping, AliasSteps, Contract
<1> QED
  BY <1>3, <1>4, <1>5, <1>6, <1>7, <1>8, <1>9 DEF IInv, DirInv

\* The other turns of the loop leave the directory alone.
LEMMA LookPreserves == ASSUME IInv, NEW i \in Inodes, LookAt(i) PROVE IInv'
<1>0. cache \in Directory
  BY DEF IInv, TypeOK
<1>1. CASE SealInterrupted(i)
  BY <1>1, SealInterruptedPreserves
<1>2. CASE SkipAlias(i) \/ SkipInterrupted(i) \/ TakeComplete(i)
  <2>1. /\ pc = "scan" /\ todo' = todo \ {i} /\ i \in todo
        /\ UNCHANGED <<cache, disk, job, expected, content, admitted>>
    BY <1>2 DEF LookAt, SkipAlias, SkipInterrupted, TakeComplete, run
  <2>2. TypeOK' /\ DirInv'
    BY <2>1, SameDirectory, TypesPreserved DEF IInv, Next
  <2>3. pc' \in {"scan", "refused"}
    BY <1>2, <2>1 DEF SkipAlias, SkipInterrupted, TakeComplete, Require
  <2>4. PublishInv' /\ LinkInv' /\ ReadyInv'
    BY <2>3 DEF PublishInv, LinkInv, ReadyInv, PublishSteps, AliasSteps
  <2>5. CASE SkipAlias(i) \/ SkipInterrupted(i)
    <3>1. /\ pc' = "scan" /\ complete' = complete
          /\ Contract(cache) = i \/ cache.mode[i] = "0400"
      BY <2>1, <2>5 DEF SkipAlias, SkipInterrupted
    <3>2. LoopInv'
      BY <2>1, <3>1 DEF IInv, LoopInv, Looping, AliasSteps
    <3> QED
      BY <2>2, <2>4, <3>1, <3>2 DEF IInv, RefusedWithCause
  <2>6. CASE TakeComplete(i)
    <3>1. /\ i \in cache.pending /\ Contract(cache) # i /\ cache.mode[i] = "0444"
          /\ complete' = complete \cup {i}
          /\ pc' = IF IsComplete(cache, i) /\ content[i] = expected THEN "scan" ELSE "refused"
      BY <1>0, <2>6, ContractFacts DEF TakeComplete, Require, Says
    <3>2. IsComplete(cache, i)
      BY <3>1 DEF IInv, DirInv, InodesInv, IsComplete
    <3>3. LoopInv'
      BY <2>1, <3>1 DEF IInv, LoopInv, Looping, AliasSteps
    <3>4. RefusedWithCause'
      BY <2>1, <3>1, <3>2 DEF RefusedWithCause
    <3> QED
      BY <2>2, <2>4, <3>3, <3>4 DEF IInv
  <2> QED
    BY <1>2, <2>5, <2>6
<1> QED
  BY <1>1, <1>2 DEF LookAt

\* The mode of an interrupted name is made durable, and all names with it.
LEMMA SyncInterruptedPreserves == ASSUME IInv, SyncInterrupted PROVE IInv'
<1>0. cache \in Directory /\ disk \in Directory
  BY DEF IInv, TypeOK
<1>1. /\ pc = "syncInterrupted" /\ pc' = "scan" /\ job \in Jobs
      /\ UNCHANGED <<cache, job, expected, content, admitted, todo, complete>>
  BY DEF SyncInterrupted, run, loop, IInv, PublishInv
<1>2. /\ Contract(disk') = Contract(cache) /\ disk'.pending = cache.pending
      /\ \A i \in Inodes :
             /\ disk'.data[i] \in {disk.data[i], cache.data[i]}
             /\ disk'.mode[i] \in {disk.mode[i], cache.mode[i]}
  <2>1. disk' = [FileSynced(job.inode) EXCEPT
                   !.pending = cache.pending, !.terminal = cache.terminal]
    BY DEF SyncInterrupted
  <2>2. /\ FileSynced(job.inode) \in Directory
        /\ FileSynced(job.inode).data = [disk.data EXCEPT ![job.inode] = cache.data[job.inode]]
        /\ FileSynced(job.inode).mode = [disk.mode EXCEPT ![job.inode] = cache.mode[job.inode]]
    BY <1>0, <1>1, JobFacts, FileSyncedFacts
  <2>3. /\ disk'.pending = cache.pending /\ disk'.terminal = cache.terminal
        /\ disk'.data = FileSynced(job.inode).data /\ disk'.mode = FileSynced(job.inode).mode
    BY <2>1, <2>2 DEF Directory
  <2>4. disk.data \in [Inodes -> 0..Size] /\ disk.mode \in [Inodes -> Modes]
    BY <1>0 DEF Directory
  <2> QED
    BY <2>2, <2>3, <2>4 DEF Contract
<1>3. TypeOK'
  BY TypesPreserved DEF IInv, Next
<1>4. NamesInv'
  BY <1>1, <1>2 DEF NamesInv, Contract
<1>5. InodesInv' /\ OneSealed'
  BY <1>1, <1>2 DEF IInv, DirInv, InodesInv, OneSealed, Sealed, Contract
<1>6. PublishInv' /\ LinkInv' /\ ReadyInv' /\ RefusedWithCause'
  BY <1>1 DEF PublishInv, LinkInv, ReadyInv, RefusedWithCause, PublishSteps, AliasSteps
<1>7. LoopInv'
  BY <1>1 DEF IInv, LoopInv, Looping, AliasSteps
<1> QED
  BY <1>3, <1>4, <1>5, <1>6, <1>7 DEF IInv, DirInv

\* After the loop a second name of the contract is seen, or there is none.
LEMMA EndLoopPreserves == ASSUME IInv, EndLoop PROVE IInv'
<1>0. cache \in Directory
  BY DEF IInv, TypeOK
<1>1. /\ pc = "scan" /\ todo = {}
      /\ UNCHANGED <<cache, disk, expected, content, admitted, todo, complete>>
  BY DEF EndLoop, run, loop
<1>2. TypeOK' /\ DirInv'
  BY <1>1, SameDirectory, TypesPreserved DEF IInv, Next
<1>3. CASE Contract(cache) \notin cache.pending
  <2>1. pc' = "decide" /\ UNCHANGED job
    BY <1>3 DEF EndLoop
  <2>2. PublishInv' /\ LinkInv' /\ ReadyInv' /\ RefusedWithCause'
    BY <2>1 DEF PublishInv, LinkInv, ReadyInv, RefusedWithCause, PublishSteps, AliasSteps
  <2>3. LoopInv'
    BY <1>1, <1>3, <2>1 DEF IInv, LoopInv, Looping, AliasSteps
  <2> QED
    BY <1>2, <2>2, <2>3 DEF IInv
<1>4. CASE Contract(cache) \in cache.pending
  <2>1. /\ Contract(cache) \in Inodes /\ HasTerminal(cache, "contract")
        /\ job' = [inode |-> Contract(cache), terminal |-> "contract"]
        /\ pc' = IF cache.mode[Contract(cache)] = "0444" /\ IsComplete(cache, Contract(cache))
                 THEN "aliasSync" ELSE "refused"
    BY <1>0, <1>4, ContractFacts DEF EndLoop, Require
  <2>2. IsComplete(cache, Contract(cache))
    BY <2>1 DEF IInv, DirInv, InodesInv, IsComplete
  <2>3. job' \in Jobs
    BY <2>1, ContractAssumption DEF Jobs
  <2>4. CASE pc' = "aliasSync"
    <3>1. PublishInv' /\ LinkInv'
      BY <1>1, <1>4, <2>1, <2>3, <2>4 DEF PublishInv, LinkInv, PublishSteps, AliasSteps
    <3>2. ReadyInv' /\ RefusedWithCause'
      BY <2>4 DEF ReadyInv, RefusedWithCause
    <3>3. LoopInv'
      BY <1>1, <2>4 DEF IInv, LoopInv, Looping, AliasSteps
    <3> QED
      BY <1>2, <3>1, <3>2, <3>3 DEF IInv
  <2>5. CASE pc' = "refused"
    <3>1. PublishInv' /\ LinkInv' /\ ReadyInv' /\ LoopInv'
      BY <2>5 DEF PublishInv, LinkInv, ReadyInv, LoopInv, Looping, PublishSteps, AliasSteps
    <3>2. cache.mode[Contract(cache)] # "0444"
      BY <2>1, <2>2, <2>5
    <3>3. RefusedWithCause'
      BY <1>1, <2>1, <3>2 DEF RefusedWithCause, HasTerminal, Contract
    <3> QED
      BY <1>2, <3>1, <3>3 DEF IInv
  <2> QED
    BY <2>1, <2>4, <2>5
<1> QED
  BY <1>3, <1>4

\* The alias is removed when both names are durable.
LEMMA AliasPreserves == ASSUME IInv, RecoverAlias PROVE IInv'
<1>0. cache \in Directory /\ disk \in Directory
  BY DEF IInv, TypeOK
<1>1. /\ pc \in AliasSteps /\ job \in Jobs /\ todo = {}
      /\ UNCHANGED <<job, expected, content, admitted, todo, complete>>
  BY DEF RecoverAlias, SyncAlias, UnlinkAlias, SyncUnlinkedAlias, run, loop, AliasSteps,
         IInv, PublishInv, LoopInv
<1>2. job.inode \in Inodes /\ job.terminal = "contract" /\ cache.mode[job.inode] = "0444"
  BY <1>1, JobFacts DEF IInv, PublishInv
<1>3. TypeOK'
  BY TypesPreserved DEF IInv, Next
<1>4. NamesSynced.pending = cache.pending /\ NamesSynced.terminal = cache.terminal
      /\ NamesSynced.data = disk.data /\ NamesSynced.mode = disk.mode
  BY <1>0, NamesSyncedFacts
<1>5. CASE SyncAlias
  <2>1. /\ pc = "aliasSync" /\ pc' = "aliasUnlink" /\ UNCHANGED cache
        /\ disk'.pending = cache.pending /\ Contract(disk') = Contract(cache)
        /\ disk'.data = disk.data /\ disk'.mode = disk.mode
    BY <1>4, <1>5 DEF SyncAlias, Contract
  <2>2. DirInv'
    BY <1>1, <2>1 DEF IInv, DirInv, NamesInv, InodesInv, OneSealed, Sealed, Contract
  <2>3. PublishInv' /\ LinkInv'
    BY <1>1, <1>2, <2>1 DEF IInv, PublishInv, LinkInv, PublishSteps, AliasSteps, Contract
  <2>4. LoopInv' /\ ReadyInv' /\ RefusedWithCause'
    BY <1>1, <2>1 DEF IInv, LoopInv, Looping, AliasSteps, ReadyInv, RefusedWithCause
  <2> QED
    BY <1>3, <2>2, <2>3, <2>4 DEF IInv
<1>6. CASE UnlinkAlias
  <2>1. /\ pc = "aliasUnlink" /\ pc' = "aliasSyncUnlink" /\ UNCHANGED disk
        /\ cache'.pending = cache.pending \ {job.inode}
        /\ Contract(cache') = Contract(cache)
        /\ cache'.data = cache.data /\ cache'.mode = cache.mode
        /\ Contract(cache) = job.inode /\ Contract(disk) = job.inode
    BY <1>0, <1>2, <1>6, UnlinkedFacts DEF UnlinkAlias, Contract, IInv, LinkInv
  <2>2. NamesInv'
    BY <1>2, <2>1, JobFacts, <1>1 DEF IInv, DirInv, NamesInv, Contract
  <2>3. InodesInv' /\ OneSealed'
    BY <1>1, <2>1 DEF IInv, DirInv, InodesInv, OneSealed, Sealed, Contract
  <2>4. PublishInv' /\ LinkInv'
    BY <1>1, <1>2, <2>1 DEF IInv, PublishInv, LinkInv, PublishSteps, AliasSteps, Contract
  <2>5. LoopInv' /\ ReadyInv' /\ RefusedWithCause'
    BY <1>1, <2>1 DEF IInv, LoopInv, Looping, AliasSteps, ReadyInv, RefusedWithCause, Contract
  <2> QED
    BY <1>3, <2>2, <2>3, <2>4, <2>5 DEF IInv, DirInv
<1>7. CASE SyncUnlinkedAlias("decide")
  <2>1. /\ pc = "aliasSyncUnlink" /\ UNCHANGED cache
        /\ disk'.pending = cache.pending /\ Contract(disk') = Contract(cache)
        /\ disk'.data = disk.data /\ disk'.mode = disk.mode
        /\ pc' = IF Published(cache, "contract") THEN "decide" ELSE "refused"
    BY <1>2, <1>4, <1>7 DEF SyncUnlinkedAlias, Contract, Require
  <2>2. DirInv'
    BY <1>1, <2>1 DEF IInv, DirInv, NamesInv, InodesInv, OneSealed, Sealed, Contract
  <2>3. Contract(cache) = job.inode /\ job.inode \notin cache.pending /\ job.inode # NoInode
    BY <1>1, <2>1, JobFacts DEF IInv, DirInv, NamesInv, LinkInv
  <2>4. Published(cache, "contract")
    BY <1>2, <2>3 DEF Published, HasTerminal, IInv, DirInv, InodesInv, IsComplete, Contract
  <2>5. pc' = "decide"
    BY <2>1, <2>4
  <2>6. PublishInv' /\ LinkInv' /\ ReadyInv' /\ RefusedWithCause'
    BY <2>5 DEF PublishInv, LinkInv, PublishSteps, AliasSteps, ReadyInv, RefusedWithCause
  <2>7. LoopInv'
    BY <1>1, <2>1, <2>3, <2>5 DEF IInv, LoopInv, Looping, AliasSteps, Contract
  <2> QED
    BY <1>3, <2>2, <2>6, <2>7 DEF IInv
<1> QED
  BY <1>5, <1>6, <1>7 DEF RecoverAlias

----------------------------------------------------------------------------
(* What follows the loop                                                   *)

\* A complete pending contract and a published one are the same one.
LEMMA NoSecondComplete ==
  ASSUME IInv, pc = "decide"
  PROVE  /\ \A i, j \in complete : i = j
         /\ Contract(cache) # NoInode => complete = {}
<1>1. cache \in Directory /\ complete \subseteq Inodes
  BY DEF IInv, TypeOK
<1>2. \A i \in complete : Sealed(i) /\ Contract(cache) # i
  BY DEF IInv, LoopInv, Looping, Sealed
<1>3. Contract(cache) # NoInode => Contract(cache) \in Inodes /\ Sealed(Contract(cache))
  BY <1>1, ContractFacts DEF Sealed
<1> QED
  BY <1>1, <1>2, <1>3 DEF IInv, DirInv, OneSealed

\* The run accepts what an earlier one has published, or is refused with a cause.
LEMMA AcceptPreserves == ASSUME IInv, AcceptTerminal PROVE IInv'
<1> DEFINE t == Contract(cache)
<1>0. cache \in Directory /\ disk \in Directory
  BY DEF IInv, TypeOK
<1>1. /\ pc = "decide" /\ HasTerminal(cache, "contract")
      /\ UNCHANGED <<cache, disk, job, expected, content, todo, complete>>
      /\ pc' = IF /\ t \notin cache.pending /\ cache.mode[t] = "0444"
                  /\ Says(t, expected) /\ complete = {}
               THEN "ready" ELSE "refused"
  BY DEF AcceptTerminal, loop, Require
<1>2. t \in Inodes /\ t # NoInode /\ t \notin cache.pending /\ complete = {} /\ IsComplete(cache, t)
  BY <1>0, <1>1, ContractFacts, NoSecondComplete
     DEF IInv, LoopInv, DirInv, InodesInv, IsComplete
<1>3. Contract(disk) = t
  BY <1>2 DEF IInv, DirInv, NamesInv
<1>4. TypeOK' /\ DirInv'
  BY <1>1, SameDirectory, TypesPreserved DEF IInv, Next
<1>5. PublishInv' /\ LinkInv' /\ LoopInv'
  BY <1>1 DEF PublishInv, LinkInv, LoopInv, Looping, PublishSteps, AliasSteps
<1>6. ReadyInv'
  BY <1>1, <1>2, <1>3 DEF ReadyInv, Says, Contract
<1>7. RefusedWithCause'
  <2>1. pc' = "refused" => cache.mode[t] # "0444" \/ content[t] # expected
    BY <1>1, <1>2 DEF Says
  <2>2. Linked(cache, t)
    BY <1>0, <1>2, ContractFacts
  <2> QED
    BY <1>1, <1>2, <2>1, <2>2 DEF RefusedWithCause, Contract
<1> QED
  BY <1>4, <1>5, <1>6, <1>7 DEF IInv

\* The one complete contract that is pending gets its name.
LEMMA FinishPreserves == ASSUME IInv, FinishComplete PROVE IInv'
<1>0. cache \in Directory /\ complete \subseteq Inodes
  BY DEF IInv, TypeOK
<1>1. /\ pc = "decide" /\ ~HasTerminal(cache, "contract") /\ complete # {}
      /\ UNCHANGED <<cache, disk, expected, content, admitted, todo, complete>>
      /\ pc' = IF Cardinality(complete) = 1 THEN "link" ELSE "refused"
      /\ job' = [inode |-> CHOOSE i \in complete : TRUE, terminal |-> "contract"]
  BY DEF FinishComplete, run, loop, Require
<1>2. PICK i \in complete : i = CHOOSE j \in complete : TRUE
  BY <1>1
<1>3. complete = {i}
  BY <1>1, NoSecondComplete
<1>4. pc' = "link"
  BY <1>1, <1>3, FS_Singleton
<1>5. TypeOK' /\ DirInv'
  BY <1>1, SameDirectory, TypesPreserved DEF IInv, Next
<1>6. /\ job' \in Jobs /\ job'.inode = i /\ i \in cache.pending /\ cache.mode[i] = "0444"
      /\ content[i] = expected /\ Contract(cache) = NoInode
  BY <1>0, <1>1, <1>2, ContractFacts, ContractAssumption DEF Jobs, IInv, LoopInv, Looping
<1>7. PublishInv'
  BY <1>1, <1>4, <1>6 DEF PublishInv, PublishSteps, AliasSteps, Contract
<1>8. LinkInv' /\ LoopInv' /\ ReadyInv' /\ RefusedWithCause'
  BY <1>4 DEF LinkInv, LoopInv, Looping, AliasSteps, ReadyInv, RefusedWithCause
<1> QED
  BY <1>5, <1>7, <1>8 DEF IInv

\* A new contract is staged when there is none to finish.
LEMMA PublishFreshPreserves ==
  ASSUME IInv, NEW i \in Inodes, PublishFresh(i)
  PROVE  IInv'
<1>0. cache \in Directory /\ content \in [Inodes -> Contracts \cup {"none"}] /\ expected \in Contracts
  BY DEF IInv, TypeOK
<1>1. /\ pc = "decide" /\ pc' = "open" /\ Contract(cache) = NoInode /\ complete = {} /\ todo = {}
      /\ content[i] = "none" /\ content' = [content EXCEPT ![i] = expected]
      /\ job' = [inode |-> i, terminal |-> "contract"]
      /\ UNCHANGED <<cache, disk, expected, admitted, todo, complete>>
  BY <1>0, ContractFacts DEF PublishFresh, loop, IInv, LoopInv
<1>2. TypeOK'
  BY TypesPreserved DEF IInv, Next
<1>3. DirInv'
  <2>1. \A j \in Inodes : content'[j] = "none" => content[j] = "none"
    BY <1>0, <1>1, ContractAssumption
  <2> QED
    BY <1>1, <2>1 DEF IInv, DirInv, NamesInv, InodesInv, OneSealed, Sealed, Contract
<1>4. \A j \in Inodes : ~Sealed(j)
  BY <1>1, DirectoryAssumption DEF IInv, LoopInv, Looping, Sealed
<1>5. /\ job' \in Jobs /\ job'.inode = i /\ content'[i] = expected
      /\ i \notin cache.pending /\ cache.mode[i] = "0600"
  BY <1>0, <1>1, ContractAssumption DEF Jobs, IInv, DirInv, InodesInv
<1>6. PublishInv'
  BY <1>1, <1>4, <1>5 DEF PublishInv, PublishSteps, AliasSteps, Contract, Sealed
<1>7. LinkInv' /\ LoopInv' /\ ReadyInv' /\ RefusedWithCause'
  BY <1>1 DEF LinkInv, LoopInv, Looping, AliasSteps, ReadyInv, RefusedWithCause
<1> QED
  BY <1>2, <1>3, <1>6, <1>7 DEF IInv

----------------------------------------------------------------------------
(* publish_terminal                                                        *)

\* What every step of a publication knows.
LEMMA AtPublishing ==
  ASSUME IInv, Publishing
  PROVE  /\ pc \in PublishSteps \ {"syncUnlink"} /\ TypeOK'
         /\ UNCHANGED <<job, expected, content, admitted, todo, complete>>
         /\ cache \in Directory /\ disk \in Directory
         /\ job \in Jobs /\ job.inode \in Inodes /\ job.inode # NoInode /\ job.terminal = "contract"
         /\ content[job.inode] = expected /\ content[job.inode] # "none"
<1>1. /\ pc \in PublishSteps \ {"syncUnlink"}
      /\ UNCHANGED <<job, expected, content, admitted, todo, complete>>
  BY DEF Publishing, PublishStep, OpenPending, WritePending, SyncPending, SealPending, SyncSeal,
         SyncPendingName, LinkTerminal, SyncLink, UnlinkPending, PublishSteps, run, loop
<1>2. job \in Jobs /\ content[job.inode] = expected
  BY <1>1 DEF IInv, PublishInv
<1>3. cache \in Directory /\ disk \in Directory /\ expected \in Contracts
  BY DEF IInv, TypeOK
<1>4. TypeOK'
  BY TypesPreserved DEF IInv, Next
<1> QED
  BY <1>1, <1>2, <1>3, <1>4, JobFacts, ContractAssumption

\* A step of a publication that goes on leaves the rest of the run where it was.
LEMMA PublishingGoesOn ==
  ASSUME pc' \in PublishSteps
  PROVE  LoopInv' /\ ReadyInv' /\ RefusedWithCause'
  BY DEF LoopInv, Looping, AliasSteps, ReadyInv, RefusedWithCause, PublishSteps

\* The pending name is always a new one, and there is nothing beside it.
LEMMA OpenPreserves == ASSUME IInv, Publishing, OpenPending PROVE IInv'
<1> DEFINE i == job.inode
<1>1. /\ pc = "open" /\ i \notin cache.pending /\ cache.mode[i] = "0600"
      /\ Contract(cache) = NoInode /\ \A j \in Inodes : ~Sealed(j)
  BY DEF OpenPending, IInv, PublishInv
<1>2. /\ pc' = "write" /\ cache' = Created(cache, i) /\ UNCHANGED disk
  BY <1>1, AtPublishing DEF OpenPending, Require, HasTerminal, Contract
<1>3. /\ cache'.pending = cache.pending \cup {i} /\ Contract(cache') = Contract(cache)
      /\ cache'.data = cache.data /\ cache'.mode = cache.mode
  BY <1>2, AtPublishing, CreatedFacts DEF Contract
<1>4. DirInv'
  BY <1>1, <1>2, <1>3, AtPublishing DEF IInv, DirInv, NamesInv, InodesInv, OneSealed, Sealed, Contract
<1>5. PublishInv' /\ LinkInv'
  BY <1>1, <1>2, <1>3, AtPublishing DEF IInv, PublishInv, LinkInv, PublishSteps, AliasSteps, Sealed, Contract
<1>6. pc' \in PublishSteps
  BY <1>2 DEF PublishSteps
<1> QED
  BY <1>4, <1>5, <1>6, AtPublishing, PublishingGoesOn DEF IInv

\* The bytes that grow are those of a name without a seal.
LEMMA WritePreserves == ASSUME IInv, Publishing, WritePending PROVE IInv'
<1> DEFINE i == job.inode
<1>1. /\ pc = "write" /\ pc' = "write" /\ i \in cache.pending /\ UNCHANGED disk
      /\ Contract(cache) = NoInode /\ \A j \in Inodes : ~Sealed(j)
      /\ cache' = Written(cache, i) /\ cache.data[i] # Size
  BY DEF WritePending, IInv, PublishInv, IsComplete
<1>2. /\ cache'.pending = cache.pending /\ Contract(cache') = Contract(cache)
      /\ cache'.mode = cache.mode
      /\ \A j \in Inodes : j # i => cache'.data[j] = cache.data[j]
  <2>1. /\ cache'.pending = cache.pending /\ cache'.terminal = cache.terminal
        /\ cache'.mode = cache.mode /\ cache'.data = [cache.data EXCEPT ![i] = @ + 1]
    BY <1>1, AtPublishing, WrittenFacts
  <2>2. cache.data \in [Inodes -> 0..Size]
    BY AtPublishing DEF Directory
  <2> QED
    BY <2>1, <2>2 DEF Contract
<1>3. cache.mode[i] # "0444"
  BY <1>1, AtPublishing DEF Sealed
<1>4. NamesInv' /\ OneSealed'
  BY <1>1, <1>2, AtPublishing DEF IInv, DirInv, NamesInv, OneSealed, Sealed, Contract
<1>5. InodesInv'
  BY <1>1, <1>2, <1>3, AtPublishing DEF IInv, DirInv, InodesInv, Contract
<1>6. PublishInv' /\ LinkInv'
  BY <1>1, <1>2, AtPublishing DEF IInv, PublishInv, LinkInv, PublishSteps, AliasSteps, Sealed, Contract
<1>7. pc' \in PublishSteps
  BY <1>1 DEF PublishSteps
<1> QED
  BY <1>4, <1>5, <1>6, <1>7, AtPublishing, PublishingGoesOn DEF IInv, DirInv

\* What a sync of the file that is being published changes.
LEMMA FileSyncedHere ==
  ASSUME cache \in Directory, disk \in Directory, NEW i \in Inodes, disk' = FileSynced(i)
  PROVE  /\ disk'.pending = disk.pending /\ Contract(disk') = Contract(disk)
         /\ disk'.data[i] = cache.data[i] /\ disk'.mode[i] = cache.mode[i]
         /\ \A j \in Inodes : j # i => /\ disk'.data[j] = disk.data[j]
                                       /\ disk'.mode[j] = disk.mode[j]
<1>1. /\ disk'.pending = disk.pending /\ disk'.terminal = disk.terminal
      /\ disk'.data = [disk.data EXCEPT ![i] = cache.data[i]]
      /\ disk'.mode = [disk.mode EXCEPT ![i] = cache.mode[i]]
  BY FileSyncedFacts
<1>2. disk.data \in [Inodes -> 0..Size] /\ disk.mode \in [Inodes -> Modes]
  BY DEF Directory
<1> QED
  BY <1>1, <1>2 DEF Contract

\* The bytes are on disk before the mode says that they are complete.
LEMMA SyncPreserves == ASSUME IInv, Publishing, SyncPending PROVE IInv'
<1> DEFINE i == job.inode
<1>1. /\ pc = "write" /\ pc' = "seal" /\ i \in cache.pending /\ UNCHANGED cache
      /\ Contract(cache) = NoInode /\ \A j \in Inodes : ~Sealed(j)
      /\ disk' = FileSynced(i) /\ cache.data[i] = Size
  BY DEF SyncPending, IInv, PublishInv, IsComplete
<1>2. /\ disk'.pending = disk.pending /\ Contract(disk') = Contract(disk)
      /\ disk'.data[i] = Size /\ disk'.mode[i] = cache.mode[i]
      /\ \A j \in Inodes : j # i => disk'.data[j] = disk.data[j] /\ disk'.mode[j] = disk.mode[j]
  BY <1>1, AtPublishing, FileSyncedHere
<1>3. DirInv'
  BY <1>1, <1>2, AtPublishing DEF IInv, DirInv, NamesInv, InodesInv, OneSealed, Sealed, Contract
<1>4. PublishInv' /\ LinkInv'
  BY <1>1, <1>2, AtPublishing DEF IInv, PublishInv, LinkInv, PublishSteps, AliasSteps, Sealed, Contract
<1>5. pc' \in PublishSteps
  BY <1>1 DEF PublishSteps
<1> QED
  BY <1>3, <1>4, <1>5, AtPublishing, PublishingGoesOn DEF IInv

\* The seal makes the one complete contract.
LEMMA SealPreserves == ASSUME IInv, Publishing, SealPending PROVE IInv'
<1> DEFINE i == job.inode
<1>1. /\ pc = "seal" /\ pc' = "syncSeal" /\ i \in cache.pending /\ UNCHANGED disk
      /\ Contract(cache) = NoInode /\ \A j \in Inodes : ~Sealed(j)
      /\ cache' = Chmodded(cache, i, "0444")
      /\ cache.data[i] = Size /\ disk.data[i] = Size
  BY DEF SealPending, IInv, PublishInv
<1>2. /\ cache'.pending = cache.pending /\ Contract(cache') = Contract(cache)
      /\ cache'.data = cache.data /\ cache'.mode[i] = "0444"
      /\ \A j \in Inodes : j # i => cache'.mode[j] = cache.mode[j]
  <2>1. /\ cache'.pending = cache.pending /\ cache'.terminal = cache.terminal
        /\ cache'.data = cache.data /\ cache'.mode = [cache.mode EXCEPT ![i] = "0444"]
    BY <1>1, AtPublishing, ChmoddedFacts DEF Modes
  <2>2. cache.mode \in [Inodes -> Modes] /\ i \in Inodes
    BY AtPublishing DEF Directory
  <2> QED
    BY <2>1, <2>2 DEF Contract
<1>3. NamesInv' /\ InodesInv'
  BY <1>1, <1>2, AtPublishing DEF IInv, DirInv, NamesInv, InodesInv, Contract
<1>4. OneSealed'
  <2>1. \A j \in Inodes : Sealed(j)' => j = i
    BY <1>1, <1>2, AtPublishing DEF Sealed, Contract
  <2> QED
    BY <2>1 DEF OneSealed
<1>5. PublishInv' /\ LinkInv'
  BY <1>1, <1>2, AtPublishing DEF IInv, PublishInv, LinkInv, PublishSteps, AliasSteps, Contract
<1>6. pc' \in PublishSteps
  BY <1>1 DEF PublishSteps
<1> QED
  BY <1>3, <1>4, <1>5, <1>6, AtPublishing, PublishingGoesOn DEF IInv, DirInv

\* The seal and then the pending name reach the disk.
LEMMA SyncSealPreserves ==
  ASSUME IInv, Publishing, SyncSeal \/ SyncPendingName
  PROVE  IInv'
<1> DEFINE i == job.inode
<1>1. /\ i \in cache.pending /\ UNCHANGED cache /\ Contract(cache) = NoInode
      /\ cache.mode[i] = "0444"
  BY DEF SyncSeal, SyncPendingName, IInv, PublishInv
<1>2. pc' \in {"syncName", "link"}
  BY DEF SyncSeal, SyncPendingName
<1>3. /\ disk'.pending \in {disk.pending, cache.pending}
      /\ Contract(disk') \in {Contract(disk), Contract(cache)}
      /\ \A j \in Inodes : /\ disk'.data[j] \in {disk.data[j], cache.data[j]}
                           /\ disk'.mode[j] \in {disk.mode[j], cache.mode[j]}
  <2>1. CASE SyncSeal
    BY <2>1, AtPublishing, FileSyncedHere DEF SyncSeal
  <2>2. CASE SyncPendingName
    BY <2>2, AtPublishing, NamesSyncedFacts DEF SyncPendingName, Contract
  <2> QED
    BY <2>1, <2>2
<1>4. DirInv'
  BY <1>1, <1>3, AtPublishing DEF IInv, DirInv, NamesInv, InodesInv, OneSealed, Sealed, Contract
<1>5. PublishInv' /\ LinkInv'
  BY <1>1, <1>2, AtPublishing DEF IInv, PublishInv, LinkInv, PublishSteps, AliasSteps, Contract
<1>6. pc' \in PublishSteps
  BY <1>2 DEF PublishSteps
<1> QED
  BY <1>4, <1>5, <1>6, AtPublishing, PublishingGoesOn DEF IInv

\* The link never meets another contract.
LEMMA LinkPreserves == ASSUME IInv, Publishing, LinkTerminal PROVE IInv'
<1> DEFINE i == job.inode
<1>1. /\ pc = "link" /\ i \in cache.pending /\ Contract(cache) = NoInode
      /\ cache.mode[i] = "0444" /\ UNCHANGED disk
  BY DEF LinkTerminal, IInv, PublishInv
<1>2. /\ cache.data[i] = Size /\ disk.data[i] = Size
  BY <1>1, AtPublishing DEF IInv, DirInv, InodesInv
<1>3. ReadyToLink
  BY <1>1, <1>2, AtPublishing, ContractFacts DEF ReadyToLink, IsComplete, HasTerminal, Contract
<1>4. pc' = "syncLink" /\ cache' = LinkedAs(cache, i, "contract")
  BY <1>3, AtPublishing DEF LinkTerminal, Require
<1>5. /\ cache'.pending = cache.pending /\ Contract(cache') = i
      /\ cache'.data = cache.data /\ cache'.mode = cache.mode
  <2>1. /\ cache'.pending = cache.pending /\ cache'.data = cache.data /\ cache'.mode = cache.mode
        /\ cache'.terminal = [cache.terminal EXCEPT !["contract"] = i]
    BY <1>4, AtPublishing, LinkedAsFacts, ContractAssumption
  <2>2. cache.terminal \in [Terminals -> Inodes \cup {NoInode}] /\ "contract" \in Terminals
    BY AtPublishing, ContractAssumption DEF Directory
  <2> QED
    BY <2>1, <2>2 DEF Contract
<1>6. NamesInv'
  BY <1>1, <1>5, AtPublishing, ContractFacts DEF IInv, DirInv, NamesInv, Contract
<1>7. InodesInv'
  BY <1>1, <1>2, <1>5, AtPublishing DEF IInv, DirInv, InodesInv, Contract
<1>8. OneSealed'
  <2>1. \A j \in Inodes : Sealed(j)' => Sealed(j)
    BY <1>1, <1>5 DEF Sealed, Contract
  <2> QED
    BY <2>1 DEF OneSealed, IInv, DirInv
<1>9. PublishInv' /\ LinkInv'
  BY <1>1, <1>4, <1>5, AtPublishing DEF IInv, PublishInv, LinkInv, PublishSteps, AliasSteps, Contract
<1>10. pc' \in PublishSteps
  BY <1>4 DEF PublishSteps
<1> QED
  BY <1>6, <1>7, <1>8, <1>9, <1>10, AtPublishing, PublishingGoesOn DEF IInv, DirInv

\* Both names reach the disk before one is removed.
LEMMA SyncLinkPreserves == ASSUME IInv, Publishing, SyncLink PROVE IInv'
<1> DEFINE i == job.inode
<1>1. /\ pc = "syncLink" /\ i \in cache.pending /\ Contract(cache) = i
      /\ cache.mode[i] = "0444" /\ UNCHANGED cache
  BY DEF SyncLink, IInv, PublishInv, LinkInv
<1>2. cache.data[i] = Size
  BY <1>1, AtPublishing DEF IInv, DirInv, InodesInv
<1>3. pc' = "unlink" /\ disk' = NamesSynced
  BY <1>1, <1>2, AtPublishing DEF SyncLink, Require, IsComplete, Contract
<1>4. /\ disk'.pending = cache.pending /\ Contract(disk') = Contract(cache)
      /\ disk'.data = disk.data /\ disk'.mode = disk.mode
  BY <1>3, AtPublishing, NamesSyncedFacts DEF Contract
<1>5. DirInv'
  BY <1>1, <1>4, AtPublishing DEF IInv, DirInv, NamesInv, InodesInv, OneSealed, Sealed, Contract
<1>6. PublishInv' /\ LinkInv'
  BY <1>1, <1>3, <1>4, AtPublishing DEF IInv, PublishInv, LinkInv, PublishSteps, AliasSteps, Contract
<1>7. pc' \in PublishSteps
  BY <1>3 DEF PublishSteps
<1> QED
  BY <1>5, <1>6, <1>7, AtPublishing, PublishingGoesOn DEF IInv

\* The pending name is removed once the terminal name is durable.
LEMMA UnlinkPreserves == ASSUME IInv, Publishing, UnlinkPending PROVE IInv'
<1> DEFINE i == job.inode
<1>1. /\ pc = "unlink" /\ pc' = "syncUnlink" /\ UNCHANGED disk
      /\ Contract(cache) = i /\ Contract(disk) = i /\ cache.mode[i] = "0444"
      /\ cache' = Unlinked(cache, i)
  BY DEF UnlinkPending, IInv, PublishInv, LinkInv
<1>2. /\ cache'.pending = cache.pending \ {i} /\ Contract(cache') = Contract(cache)
      /\ cache'.data = cache.data /\ cache'.mode = cache.mode
  BY <1>1, AtPublishing, UnlinkedFacts DEF Contract
<1>3. DirInv'
  BY <1>1, <1>2, AtPublishing DEF IInv, DirInv, NamesInv, InodesInv, OneSealed, Sealed, Contract
<1>4. PublishInv' /\ LinkInv'
  BY <1>1, <1>2, AtPublishing DEF IInv, PublishInv, LinkInv, PublishSteps, AliasSteps, Contract
<1>5. pc' \in PublishSteps
  BY <1>1 DEF PublishSteps
<1> QED
  BY <1>3, <1>4, <1>5, AtPublishing, PublishingGoesOn DEF IInv

\* Every step of publish_terminal.
LEMMA PublishingPreserves == ASSUME IInv, Publishing PROVE IInv'
  BY OpenPreserves, WritePreserves, SyncPreserves, SealPreserves, SyncSealPreserves, LinkPreserves,
     SyncLinkPreserves, UnlinkPreserves DEF Publishing, PublishStep

\* The run that has published its contract goes on with it on the disk.
LEMMA FinishContractPreserves == ASSUME IInv, FinishContract PROVE IInv'
<1> DEFINE i == job.inode
<1>0. cache \in Directory /\ disk \in Directory
  BY DEF IInv, TypeOK
<1>1. /\ pc = "syncUnlink" /\ UNCHANGED <<cache, job, expected, content, todo, complete>>
      /\ disk' = NamesSynced
      /\ pc' = IF Published(cache, job.terminal) THEN "ready" ELSE "refused"
  BY DEF FinishContract, SyncUnlink, Require, loop
<1>2. /\ job \in Jobs /\ i \in Inodes /\ job.terminal = "contract" /\ i # NoInode
      /\ content[i] = expected /\ cache.mode[i] = "0444"
      /\ Contract(disk) = i /\ i \notin cache.pending
  BY <1>1, JobFacts DEF IInv, PublishInv, LinkInv, PublishSteps
<1>3. Contract(cache) = i
  BY <1>2 DEF IInv, DirInv, NamesInv
<1>4. /\ disk'.pending = cache.pending /\ Contract(disk') = i
      /\ disk'.data = disk.data /\ disk'.mode = disk.mode
  BY <1>0, <1>1, <1>3, NamesSyncedFacts DEF Contract
<1>5. Published(cache, job.terminal)
  BY <1>2, <1>3 DEF Published, HasTerminal, IInv, DirInv, InodesInv, IsComplete, Contract
<1>6. pc' = "ready"
  BY <1>1, <1>5
<1>7. TypeOK'
  BY TypesPreserved DEF IInv, Next
<1>8. DirInv'
  BY <1>1, <1>3, <1>4 DEF IInv, DirInv, NamesInv, InodesInv, OneSealed, Sealed, Contract
<1>9. PublishInv' /\ LinkInv' /\ LoopInv' /\ RefusedWithCause'
  BY <1>6 DEF PublishInv, LinkInv, LoopInv, Looping, PublishSteps, AliasSteps, RefusedWithCause
<1>10. ReadyInv'
  BY <1>1, <1>2, <1>4 DEF ReadyInv, Contract
<1> QED
  BY <1>7, <1>8, <1>9, <1>10 DEF IInv

\* Every step keeps the invariant.
LEMMA Inductive == ASSUME IInv, [Next]_vars PROVE IInv'
<1>1. ASSUME UNCHANGED vars PROVE IInv'
  <2>1. UNCHANGED <<cache, disk, pc, job, expected, content, todo, complete, admitted>>
    BY <1>1 DEF vars
  <2>2. TypeOK' /\ DirInv'
    BY <2>1, SameDirectory, TypesPreserved DEF IInv
  <2>3. PublishInv' /\ LinkInv'
    BY <2>1 DEF IInv, PublishInv, LinkInv, Sealed, Contract
  <2>4. LoopInv' /\ ReadyInv' /\ RefusedWithCause'
    BY <2>1 DEF IInv, LoopInv, ReadyInv, RefusedWithCause, Contract, Linked, HasTerminal
  <2> QED
    BY <2>2, <2>3, <2>4 DEF IInv
<1> QED
  BY <1>1, StartPreserves, LookPreserves, SyncInterruptedPreserves, EndLoopPreserves, AliasPreserves,
     AcceptPreserves, FinishPreserves, PublishFreshPreserves, PublishingPreserves,
     FinishContractPreserves, KillPreserves, PowerPreserves DEF Next

----------------------------------------------------------------------------
(* Theorems                                                                *)

\* The invariant holds in every reachable state.
THEOREM Invariance == Spec => []IInv
<1>1. IInv /\ [Next]_vars => IInv'
  BY Inductive
<1> QED
  BY InitIInv, <1>1, PTL DEF Spec

\* Every variable keeps its type, the positions and the directories included.
THEOREM Typing == Spec => []TypeOK
<1>1. IInv => TypeOK
  BY DEF IInv
<1> QED
  BY Invariance, <1>1, PTL

\* Whatever was started, killed and started again, and whatever a power loss
\* took: at most one complete contract is staged or published.
THEOREM OneContract == Spec => []OneCompleteContract
<1>1. IInv => OneCompleteContract
  <2> SUFFICES ASSUME IInv PROVE OneCompleteContract
    OBVIOUS
  <2> DEFINE sealed == { i \in Inodes :
        /\ i \in cache.pending \/ Linked(cache, i)
        /\ cache.mode[i] = "0444" }
  <2>1. cache \in Directory
    BY DEF IInv, TypeOK
  <2>2. \A i \in sealed : i \in Inodes /\ Sealed(i)
    BY <2>1, ContractFacts DEF Sealed
  <2>3. \A i, j \in sealed : i = j
    BY <2>2 DEF IInv, DirInv, OneSealed
  <2>4. CASE sealed = {}
    BY <2>4, FS_EmptySet DEF OneCompleteContract
  <2>5. CASE sealed # {}
    <3>1. PICK i : i \in sealed
      BY <2>5
    <3>2. sealed = {i}
      BY <2>3, <3>1
    <3>3. Cardinality(sealed) = 1
      BY <3>2, FS_Singleton
    <3> QED
      BY <3>3 DEF OneCompleteContract
  <2> QED
    BY <2>4, <2>5
<1> QED
  BY Invariance, <1>1, PTL

\* A run that may collect has its own contract, whole, on stable storage.
THEOREM ReadyIsOnDisk == Spec => []ReadyIsDurable
<1>1. IInv => ReadyIsDurable
  <2> SUFFICES ASSUME IInv, pc = "ready"
               PROVE  /\ Contract(disk) # NoInode
                      /\ disk.data[Contract(disk)] = Size
                      /\ content[Contract(disk)] = expected
    BY DEF ReadyIsDurable
  <2>1. Contract(disk) # NoInode /\ content[Contract(disk)] = expected
    BY DEF IInv, ReadyInv
  <2>2. Contract(disk) \in Inodes /\ Contract(cache) = Contract(disk)
    BY <2>1, ContractFacts DEF IInv, TypeOK, DirInv, NamesInv
  <2> QED
    BY <2>1, <2>2 DEF IInv, DirInv, InodesInv
<1> QED
  BY Invariance, <1>1, PTL

\* A refused run has a cause that an operator can find: a contract with other
\* inputs, or a published one that lost its mode with the power.
THEOREM RefusalsHaveCause == Spec => []RefusedWithCause
<1>1. IInv => RefusedWithCause
  BY DEF IInv
<1> QED
  BY Invariance, <1>1, PTL

----------------------------------------------------------------------------
(* The refinement of ContractAgreement                                     *)

\* The contract on the disk never goes away or changes, and when there is none
\* yet, the next one is the one that processes see.
LEMMA DiskContract ==
  ASSUME IInv, [Next]_vars
  PROVE  \/ Contract(disk') = Contract(disk)
         \/ /\ Contract(disk) = NoInode
            /\ Contract(disk') = Contract(cache)
            /\ UNCHANGED <<content, admitted>>
<1>0. /\ cache \in Directory /\ disk \in Directory
      /\ Contract(disk) # NoInode => Contract(cache) = Contract(disk)
  BY DEF IInv, TypeOK, DirInv, NamesInv
<1> SUFFICES ASSUME Contract(disk') # Contract(disk)
             PROVE  /\ Contract(disk') = Contract(cache)
                    /\ UNCHANGED <<content, admitted>>
  BY <1>0
<1>1. Contract(NamesSynced) = Contract(cache)
  BY <1>0, NamesSyncedFacts DEF Contract
<1>2. disk' # disk
  BY DEF Contract
<1>3. CASE SyncInterrupted
  <2>1. job.inode \in Inodes
    BY <1>3, JobFacts DEF SyncInterrupted, IInv, PublishInv
  <2>2. disk'.terminal = cache.terminal
    <3>1. /\ FileSynced(job.inode) \in Directory
          /\ disk' = [FileSynced(job.inode) EXCEPT
                        !.pending = cache.pending, !.terminal = cache.terminal]
      BY <1>0, <1>3, <2>1, FileSyncedFacts DEF SyncInterrupted
    <3> QED
      BY <3>1 DEF Directory
  <2> QED
    BY <1>3, <2>2 DEF SyncInterrupted, run, Contract
<1>4. CASE RecoverAlias
  BY <1>1, <1>2, <1>4 DEF RecoverAlias, SyncAlias, UnlinkAlias, SyncUnlinkedAlias, run
<1>5. CASE Publishing
  <2>1. job.inode \in Inodes /\ UNCHANGED <<content, admitted>>
    BY <1>5, AtPublishing
  <2>2. Contract(FileSynced(job.inode)) = Contract(disk)
    BY <1>0, <2>1, FileSyncedFacts DEF Contract
  <2> QED
    BY <1>1, <1>2, <1>5, <2>1, <2>2
       DEF Publishing, PublishStep, OpenPending, WritePending, SyncPending, SealPending,
           SyncSeal, SyncPendingName, LinkTerminal, SyncLink, UnlinkPending
<1>6. CASE FinishContract
  <2>1. Contract(disk) = job.inode /\ job.inode # NoInode
    BY <1>6, JobFacts DEF FinishContract, SyncUnlink, IInv, PublishInv, LinkInv, PublishSteps
  <2>2. Contract(disk') = Contract(cache)
    BY <1>1, <1>6 DEF FinishContract, SyncUnlink
  <2> QED
    BY <1>0, <2>1, <2>2
<1>7. CASE PowerLoss
  <2>1. LosePower /\ UNCHANGED <<content, admitted>>
    BY <1>7 DEF PowerLoss, run
  <2>2. Contract(disk') \in {Contract(cache), Contract(disk)}
    BY <1>0, <2>1, PowerFacts, ContractAssumption DEF Contract
  <2> QED
    BY <2>1, <2>2
<1> QED
  BY <1>2, <1>3, <1>4, <1>5, <1>6, <1>7
     DEF Next, vars, StartRun, LookAt, EndLoop, AcceptTerminal, FinishComplete, PublishFresh, Kill

\* The bytes of a contract on the disk are never staged again.
LEMMA ContentStays ==
  ASSUME IInv, [Next]_vars, NEW i \in Inodes, Contract(cache) = i
  PROVE  content'[i] = content[i] /\ content[i] \in Contracts
<1>1. content \in [Inodes -> Contracts \cup {"none"}]
  BY DEF IInv, TypeOK
<1>2. content[i] # "none"
  BY DEF IInv, DirInv, InodesInv
<1>3. CASE \E j \in Inodes : PublishFresh(j)
  BY <1>1, <1>2, <1>3 DEF PublishFresh
<1>4. CASE UNCHANGED content
  BY <1>1, <1>2, <1>4
<1> QED
  BY <1>3, <1>4 DEF Next, vars, run, StartRun, LookAt, SyncInterrupted, EndLoop, RecoverAlias,
     AcceptTerminal, FinishComplete, Publishing, FinishContract, Kill, PowerLoss

\* A run that gets ready does so under the contract on the disk.
LEMMA AdmittedOnes ==
  ASSUME IInv, [Next]_vars, admitted' # admitted
  PROVE  /\ Contract(disk) # NoInode /\ Contract(disk') = Contract(disk)
         /\ content' = content
         /\ admitted' = admitted \cup {content[Contract(disk)]}
<1>1. IInv'
  BY Inductive
<1>2. AcceptTerminal \/ FinishContract
  BY DEF Next, vars, run, StartRun, LookAt, SyncInterrupted, EndLoop, RecoverAlias,
     FinishComplete, PublishFresh, Publishing, Kill, PowerLoss
<1>3. /\ pc' = "ready" /\ UNCHANGED <<content, expected>>
      /\ admitted' = admitted \cup {expected}
  BY <1>2 DEF AcceptTerminal, FinishContract, Admitting
<1>4. Contract(disk') # NoInode /\ content[Contract(disk')] = expected
  BY <1>1, <1>3 DEF IInv, ReadyInv, Contract
<1>5. Contract(disk) = Contract(disk')
  BY <1>3, <1>4, DiskContract
<1> QED
  BY <1>3, <1>4, <1>5

\* Through any number of runs, kills and power losses one contract is chosen for
\* the artifact root, once it is durable, and all runs that collect are under it.
THEOREM RunsAgree == Spec => ImplementsAgreement
<1> DEFINE chosen == IF HasTerminal(disk, "contract") THEN content[Contract(disk)] ELSE "none"
<1>1. Init => Agreement!Init
  <2>1. Init => ~HasTerminal(disk, "contract")
    BY EmptyFacts, ContractAssumption DEF Init, HasTerminal
  <2> QED
    BY <2>1 DEF Init, Agreement!Init
<1>2. IInv /\ [Next]_vars => [Agreement!Next]_<<chosen, admitted>>
  <2> SUFFICES ASSUME IInv, [Next]_vars PROVE [Agreement!Next]_<<chosen, admitted>>
    OBVIOUS
  <2>1. /\ disk \in Directory /\ disk' \in Directory /\ cache \in Directory
        /\ Contract(disk) # NoInode => Contract(cache) = Contract(disk)
    BY Inductive DEF IInv, TypeOK, DirInv, NamesInv
  <2>2. /\ chosen = IF Contract(disk) # NoInode THEN content[Contract(disk)] ELSE "none"
        /\ chosen' = IF Contract(disk') # NoInode THEN content'[Contract(disk')] ELSE "none"
    BY DEF HasTerminal, Contract
  <2>3. Contract(disk) # NoInode =>
           content'[Contract(disk)] = content[Contract(disk)] /\ content[Contract(disk)] \in Contracts
    BY <2>1, ContractFacts, ContentStays
  <2>4. CASE Contract(disk') = Contract(disk)
    <3>1. chosen' = chosen
      BY <2>2, <2>3, <2>4
    <3>2. CASE admitted' = admitted
      BY <3>1, <3>2
    <3>3. CASE admitted' # admitted
      <4>1. chosen # "none" /\ admitted' = admitted \cup {chosen}
        BY <2>2, <2>3, <3>3, AdmittedOnes, ContractAssumption
      <4>2. Agreement!Admit
        BY <3>1, <4>1 DEF Agreement!Admit
      <4> QED
        BY <4>2 DEF Agreement!Next
    <3> QED
      BY <3>2, <3>3
  <2>5. CASE Contract(disk') # Contract(disk)
    <3>1. /\ Contract(disk) = NoInode /\ Contract(disk') = Contract(cache)
          /\ UNCHANGED <<content, admitted>> /\ Contract(cache) # NoInode
      BY <2>5, DiskContract
    <3>2. Contract(cache) \in Inodes
      BY <2>1, <3>1, ContractFacts
    <3>3. content[Contract(cache)] \in Contracts
      BY <3>2, ContentStays
    <3>4. Agreement!Choose(content[Contract(cache)])
      BY <2>2, <3>1 DEF Agreement!Choose
    <3> QED
      BY <3>3, <3>4 DEF Agreement!Next
  <2> QED
    BY <2>4, <2>5
<1> QED
  BY Invariance, <1>1, <1>2, PTL DEF Spec, ImplementsAgreement, Agreement!Spec

=============================================================================
