---------------------- MODULE AttemptPublication_proofs ----------------------
(***************************************************************************)
(* For every number of writes per receipt and every set of faults: the     *)
(* inductive invariant of AttemptPublication, the safety properties it     *)
(* implies, and that the directory implements OneShotReceipt.              *)
(***************************************************************************)
EXTENDS AttemptPublication, EvidenceDirectory_proofs

\* A kind that has a name in the directory, now or after a power loss.
Touched(k) ==
    \/ k \in cache.pending \cup disk.pending
    \/ HasTerminal(cache, k) \/ HasTerminal(disk, k)

\* The bytes and the mode of k are what a reader may rely on, and durable.
Firm(k) ==
    /\ cache.data[k] = Size /\ disk.data[k] = Size
    /\ cache.mode[k] = "0444" /\ disk.mode[k] = "0444"

\* Names and attributes, whatever the controller is doing.
DirInv ==
    \A k \in Kinds :
        /\ cache.terminal[k] \in {k, NoInode}
        /\ disk.terminal[k] \in {k, NoInode}
        /\ HasTerminal(cache, k) => Firm(k)
        /\ HasTerminal(disk, k) => HasTerminal(cache, k)
        /\ HasTerminal(cache, k) /\ ~HasTerminal(disk, k) => k \in cache.pending
        /\ cache.mode[k] = "0444" \/ disk.mode[k] = "0444" =>
               cache.data[k] = Size /\ disk.data[k] = Size

\* Only one kind of receipt is ever started in an attempt.
OneKind ==
    /\ ~(Touched("success") /\ Touched("failure"))
    /\ pc \in PublishSteps =>
           \A k \in Kinds : Touched(k) => k = job.terminal

\* What holds between two system calls of a publication ...
PublishInv ==
    /\ pc \in {"collect", "open"} =>
           cache = EmptyDirectory /\ disk = EmptyDirectory
    /\ pc \in PublishSteps \cup AliasSteps => job.inode = job.terminal
    /\ pc \in {"write", "seal", "syncSeal", "syncName", "link"} =>
           job.inode \in cache.pending /\ ~HasTerminal(cache, job.terminal)
    /\ pc = "seal" =>
           cache.data[job.inode] = Size /\ disk.data[job.inode] = Size
    /\ pc = "syncSeal" => cache.mode[job.inode] = "0444"
    /\ pc \in {"syncName", "link"} => Firm(job.inode)

\* ... and between those of its last steps and of the alias recovery.
LinkInv ==
    /\ pc \in {"syncLink", "unlink", "aliasSync", "aliasUnlink"} =>
           job.inode \in cache.pending /\ HasTerminal(cache, job.terminal)
    /\ pc \in {"unlink", "aliasUnlink"} => HasTerminal(disk, job.terminal)
    /\ pc \in {"syncUnlink", "aliasSyncUnlink"} =>
           job.inode \notin cache.pending /\ HasTerminal(disk, job.terminal)
    /\ pc = "syncInterrupted" => ~HasTerminal(cache, job.inode)

\* What the scan has already settled, and what it has reported.
ScanInv ==
    /\ pc \in {"recoverFailure", "classify", "reported"} => ~Aliased(cache, "success")
    /\ pc \in {"classify", "reported"} => ~Aliased(cache, "failure")
    /\ pc = "syncInterrupted" /\ job.inode = "failure" => ~Aliased(cache, "success")
    /\ pc \in AliasSteps /\ job.inode = "failure" => ~Aliased(cache, "success")
    /\ pc # "refused"

VerdictInv ==
    /\ pc \in PublishSteps \cup {"collect"} => verdict = "none"
    /\ verdict = "interrupted" => \A k \in Kinds : ~HasTerminal(cache, k)
    /\ \A k \in Kinds : verdict = k => HasTerminal(disk, k)

IInv == TypeOK /\ DirInv /\ OneKind /\ PublishInv /\ LinkInv /\ ScanInv /\ VerdictInv

----------------------------------------------------------------------------

\* The invariant holds in an empty attempt directory.
LEMMA Initial == Init => IInv
<1> SUFFICES ASSUME Init PROVE IInv
  OBVIOUS
<1> USE AttemptAssumption DEF Init, Kinds, HasTerminal
<1>1. TypeOK
  BY EmptyFacts DEF TypeOK, Positions, Job
<1>2. DirInv /\ OneKind
  BY EmptyFacts, DirectoryAssumption DEF DirInv, OneKind, Touched, PublishSteps
<1>3. PublishInv /\ LinkInv /\ ScanInv /\ VerdictInv
  BY EmptyFacts DEF PublishInv, LinkInv, ScanInv, VerdictInv, PublishSteps,
                    AliasSteps, Job
<1> QED
  BY <1>1, <1>2, <1>3 DEF IInv

----------------------------------------------------------------------------
(* The steps of publish_terminal and finish_link_publication.              *)

\* The O_EXCL creation finds neither name: nothing was published before.
LEMMA OpenStep ==
    ASSUME IInv, OpenPending, UNCHANGED verdict
    PROVE  IInv'
<1> USE AttemptAssumption DEF Kinds
<1>0. /\ cache \in Directory /\ disk \in Directory
      /\ job.inode \in Inodes /\ job.terminal \in Terminals
      /\ job \in [inode : Kinds, terminal : Kinds]
  BY DEF IInv, TypeOK
<1>r. ~HasTerminal(cache, job.terminal) /\ job.inode \notin cache.pending
  BY <1>0, EmptyFacts DEF IInv, PublishInv, OpenPending, HasTerminal
<1>1. /\ cache' \in Directory
      /\ cache'.pending = cache.pending \cup {job.inode}
      /\ cache'.terminal = cache.terminal
      /\ cache'.data = cache.data
      /\ cache'.mode = cache.mode
      /\ disk' = disk
  BY <1>0, <1>r, CreatedFacts DEF OpenPending, Require
<1>2. TypeOK'
  BY <1>0, <1>r, <1>1, EmptyFacts
  DEF IInv, TypeOK, OpenPending, Require, Positions, PublishSteps, AliasSteps
<1>3. DirInv'
  BY <1>0, <1>r, <1>1, EmptyFacts, DirectoryAssumption
  DEF IInv, DirInv, PublishInv, LinkInv, OpenPending, Require, HasTerminal,
      Firm, Directory, PublishSteps, AliasSteps
<1>4. OneKind'
  BY <1>0, <1>r, <1>1, EmptyFacts
  DEF IInv, OneKind, PublishInv, LinkInv, OpenPending, Require, Touched,
      HasTerminal, PublishSteps, AliasSteps
<1>5. PublishInv' /\ LinkInv'
  BY <1>0, <1>r, <1>1, EmptyFacts, DirectoryAssumption
  DEF IInv, DirInv, PublishInv, LinkInv, OpenPending, Require, HasTerminal,
      Firm, Directory, PublishSteps, AliasSteps
<1>6. ScanInv' /\ VerdictInv'
  BY <1>0, <1>r, <1>1, EmptyFacts
  DEF IInv, DirInv, PublishInv, LinkInv, ScanInv, VerdictInv, OneKind, Touched,
      OpenPending, Require, HasTerminal, Firm, PublishSteps, AliasSteps,
      Aliased, Linked
<1> QED
  BY <1>2, <1>3, <1>4, <1>5, <1>6 DEF IInv

\* Writing touches the bytes of an inode that is neither sealed nor linked.
LEMMA WriteStep ==
    ASSUME IInv, WritePending, UNCHANGED verdict
    PROVE  IInv'
<1> USE AttemptAssumption DEF Kinds
<1>0. /\ cache \in Directory /\ disk \in Directory
      /\ job.inode \in Inodes /\ job.terminal \in Terminals
      /\ job \in [inode : Kinds, terminal : Kinds]
  BY DEF IInv, TypeOK
<1>r. cache.data[job.inode] # Size
  BY DEF WritePending, IsComplete
<1>1. /\ cache' \in Directory
      /\ cache'.pending = cache.pending
      /\ cache'.terminal = cache.terminal
      /\ cache'.data = [cache.data EXCEPT ![job.inode] = @ + 1]
      /\ cache'.mode = cache.mode
      /\ disk' = disk
  BY <1>0, <1>r, WrittenFacts DEF WritePending, IsComplete
<1>2. TypeOK'
  BY <1>0, <1>r, <1>1
  DEF IInv, TypeOK, WritePending, IsComplete, Positions, PublishSteps,
      AliasSteps
<1>3. DirInv'
  BY <1>0, <1>r, <1>1, DirectoryAssumption
  DEF IInv, DirInv, PublishInv, LinkInv, WritePending, IsComplete, HasTerminal,
      Firm, Directory, PublishSteps, AliasSteps
<1>4. OneKind'
  BY <1>0, <1>r, <1>1
  DEF IInv, OneKind, PublishInv, LinkInv, WritePending, IsComplete, Touched,
      HasTerminal, PublishSteps, AliasSteps
<1>5. PublishInv' /\ LinkInv'
  BY <1>0, <1>r, <1>1, DirectoryAssumption
  DEF IInv, DirInv, PublishInv, LinkInv, WritePending, IsComplete, HasTerminal,
      Firm, Directory, PublishSteps, AliasSteps
<1>6. ScanInv' /\ VerdictInv'
  BY <1>0, <1>r, <1>1
  DEF IInv, DirInv, PublishInv, LinkInv, ScanInv, VerdictInv, OneKind, Touched,
      WritePending, IsComplete, HasTerminal, Firm, PublishSteps, AliasSteps,
      Aliased, Linked
<1> QED
  BY <1>2, <1>3, <1>4, <1>5, <1>6 DEF IInv

\* The first fsync: from here on the bytes are durable.
LEMMA SyncPendingStep ==
    ASSUME IInv, SyncPending, UNCHANGED verdict
    PROVE  IInv'
<1> USE AttemptAssumption DEF Kinds
<1>0. /\ cache \in Directory /\ disk \in Directory
      /\ job.inode \in Inodes /\ job.terminal \in Terminals
      /\ job \in [inode : Kinds, terminal : Kinds]
  BY DEF IInv, TypeOK
<1>1. /\ cache' = cache
      /\ disk' \in Directory
      /\ disk'.pending = disk.pending
      /\ disk'.terminal = disk.terminal
      /\ disk'.data = [disk.data EXCEPT ![job.inode] = cache.data[job.inode]]
      /\ disk'.mode = [disk.mode EXCEPT ![job.inode] = cache.mode[job.inode]]
  BY <1>0, FileSyncedFacts DEF SyncPending, IsComplete
<1>2. TypeOK'
  BY <1>0, <1>1
  DEF IInv, TypeOK, SyncPending, IsComplete, Positions, PublishSteps,
      AliasSteps
<1>3. DirInv'
  BY <1>0, <1>1, DirectoryAssumption
  DEF IInv, DirInv, PublishInv, LinkInv, SyncPending, IsComplete, HasTerminal,
      Firm, Directory, PublishSteps, AliasSteps
<1>4. OneKind'
  BY <1>0, <1>1
  DEF IInv, OneKind, PublishInv, LinkInv, SyncPending, IsComplete, Touched,
      HasTerminal, PublishSteps, AliasSteps
<1>5. PublishInv' /\ LinkInv'
  BY <1>0, <1>1, DirectoryAssumption
  DEF IInv, DirInv, PublishInv, LinkInv, SyncPending, IsComplete, HasTerminal,
      Firm, Directory, PublishSteps, AliasSteps
<1>6. ScanInv' /\ VerdictInv'
  BY <1>0, <1>1
  DEF IInv, DirInv, PublishInv, LinkInv, ScanInv, VerdictInv, OneKind, Touched,
      SyncPending, IsComplete, HasTerminal, Firm, PublishSteps, AliasSteps,
      Aliased, Linked
<1> QED
  BY <1>2, <1>3, <1>4, <1>5, <1>6 DEF IInv

\* The mode may promise complete bytes because they are durable.
LEMMA SealStep ==
    ASSUME IInv, SealPending, UNCHANGED verdict
    PROVE  IInv'
<1> USE AttemptAssumption DEF Kinds
<1>0. /\ cache \in Directory /\ disk \in Directory
      /\ job.inode \in Inodes /\ job.terminal \in Terminals
      /\ job \in [inode : Kinds, terminal : Kinds]
      /\ "0444" \in Modes
  BY DEF IInv, TypeOK, Modes
<1>1. /\ cache' \in Directory
      /\ cache'.pending = cache.pending
      /\ cache'.terminal = cache.terminal
      /\ cache'.data = cache.data
      /\ cache'.mode = [cache.mode EXCEPT ![job.inode] = "0444"]
      /\ disk' = disk
  BY <1>0, ChmoddedFacts DEF SealPending
<1>2. TypeOK'
  BY <1>0, <1>1
  DEF IInv, TypeOK, SealPending, Positions, PublishSteps, AliasSteps
<1>3. DirInv'
  BY <1>0, <1>1, DirectoryAssumption
  DEF IInv, DirInv, PublishInv, LinkInv, SealPending, HasTerminal, Firm,
      Directory, PublishSteps, AliasSteps
<1>4. OneKind'
  BY <1>0, <1>1
  DEF IInv, OneKind, PublishInv, LinkInv, SealPending, Touched, HasTerminal,
      PublishSteps, AliasSteps
<1>5. PublishInv' /\ LinkInv'
  BY <1>0, <1>1, DirectoryAssumption
  DEF IInv, DirInv, PublishInv, LinkInv, SealPending, HasTerminal, Firm,
      Directory, PublishSteps, AliasSteps
<1>6. ScanInv' /\ VerdictInv'
  BY <1>0, <1>1
  DEF IInv, DirInv, PublishInv, LinkInv, ScanInv, VerdictInv, OneKind, Touched,
      SealPending, HasTerminal, Firm, PublishSteps, AliasSteps, Aliased, Linked
<1> QED
  BY <1>2, <1>3, <1>4, <1>5, <1>6 DEF IInv

\* The second fsync: from here on the pending inode is firm.
LEMMA SyncSealStep ==
    ASSUME IInv, SyncSeal, UNCHANGED verdict
    PROVE  IInv'
<1> USE AttemptAssumption DEF Kinds
<1>0. /\ cache \in Directory /\ disk \in Directory
      /\ job.inode \in Inodes /\ job.terminal \in Terminals
      /\ job \in [inode : Kinds, terminal : Kinds]
  BY DEF IInv, TypeOK
<1>1. /\ cache' = cache
      /\ disk' \in Directory
      /\ disk'.pending = disk.pending
      /\ disk'.terminal = disk.terminal
      /\ disk'.data = [disk.data EXCEPT ![job.inode] = cache.data[job.inode]]
      /\ disk'.mode = [disk.mode EXCEPT ![job.inode] = cache.mode[job.inode]]
  BY <1>0, FileSyncedFacts DEF SyncSeal
<1>2. TypeOK'
  BY <1>0, <1>1 DEF IInv, TypeOK, SyncSeal, Positions, PublishSteps, AliasSteps
<1>3. DirInv'
  BY <1>0, <1>1, DirectoryAssumption
  DEF IInv, DirInv, PublishInv, LinkInv, SyncSeal, HasTerminal, Firm,
      Directory, PublishSteps, AliasSteps
<1>4. OneKind'
  BY <1>0, <1>1
  DEF IInv, OneKind, PublishInv, LinkInv, SyncSeal, Touched, HasTerminal,
      PublishSteps, AliasSteps
<1>5. PublishInv' /\ LinkInv'
  BY <1>0, <1>1, DirectoryAssumption
  DEF IInv, DirInv, PublishInv, LinkInv, SyncSeal, HasTerminal, Firm,
      Directory, PublishSteps, AliasSteps
<1>6. ScanInv' /\ VerdictInv'
  BY <1>0, <1>1
  DEF IInv, DirInv, PublishInv, LinkInv, ScanInv, VerdictInv, OneKind, Touched,
      SyncSeal, HasTerminal, Firm, PublishSteps, AliasSteps, Aliased, Linked
<1> QED
  BY <1>2, <1>3, <1>4, <1>5, <1>6 DEF IInv

\* The pending name becomes durable before it is linked.
LEMMA SyncNameStep ==
    ASSUME IInv, SyncPendingName, UNCHANGED verdict
    PROVE  IInv'
<1> USE AttemptAssumption DEF Kinds
<1>0. /\ cache \in Directory /\ disk \in Directory
      /\ job.inode \in Inodes /\ job.terminal \in Terminals
      /\ job \in [inode : Kinds, terminal : Kinds]
  BY DEF IInv, TypeOK
<1>1. /\ cache' = cache
      /\ disk' \in Directory
      /\ disk'.pending = cache.pending
      /\ disk'.terminal = cache.terminal
      /\ disk'.data = disk.data
      /\ disk'.mode = disk.mode
  BY <1>0, NamesSyncedFacts DEF SyncPendingName
<1>2. TypeOK'
  BY <1>0, <1>1
  DEF IInv, TypeOK, SyncPendingName, Positions, PublishSteps, AliasSteps
<1>3. DirInv'
  BY <1>0, <1>1, DirectoryAssumption
  DEF IInv, DirInv, PublishInv, LinkInv, SyncPendingName, HasTerminal, Firm,
      Directory, PublishSteps, AliasSteps
<1>4. OneKind'
  BY <1>0, <1>1
  DEF IInv, OneKind, PublishInv, LinkInv, SyncPendingName, Touched,
      HasTerminal, PublishSteps, AliasSteps
<1>5. PublishInv' /\ LinkInv'
  BY <1>0, <1>1, DirectoryAssumption
  DEF IInv, DirInv, PublishInv, LinkInv, SyncPendingName, HasTerminal, Firm,
      Directory, PublishSteps, AliasSteps
<1>6. ScanInv' /\ VerdictInv'
  BY <1>0, <1>1
  DEF IInv, DirInv, PublishInv, LinkInv, ScanInv, VerdictInv, OneKind, Touched,
      SyncPendingName, HasTerminal, Firm, PublishSteps, AliasSteps, Aliased,
      Linked
<1> QED
  BY <1>2, <1>3, <1>4, <1>5, <1>6 DEF IInv

\* The link succeeds, and what gets the terminal name is firm.
LEMMA LinkStep ==
    ASSUME IInv, LinkTerminal, UNCHANGED verdict
    PROVE  IInv'
<1>0. /\ cache \in Directory /\ disk \in Directory
      /\ job.inode \in Inodes /\ job.terminal \in Terminals
      /\ job \in [inode : Kinds, terminal : Kinds]
  BY AttemptAssumption DEF IInv, TypeOK, Kinds
<1>r. ReadyToLink
  BY <1>0, DirectoryAssumption, AttemptAssumption
  DEF IInv, DirInv, PublishInv, ReadyToLink, PendingOnly, Linked, LinkTerminal,
      HasTerminal, Firm, IsComplete, OneKind, Touched, PublishSteps,
      AliasSteps, Kinds
<1>s. /\ cache' = LinkedAs(cache, job.inode, job.terminal)
      /\ disk' = disk /\ job' = job /\ pc = "link" /\ pc' = "syncLink"
  BY <1>r DEF LinkTerminal, Require
<1>1. /\ cache' \in Directory
      /\ cache'.pending = cache.pending
      /\ cache'.terminal = [cache.terminal EXCEPT ![job.terminal] = job.inode]
      /\ cache'.data = cache.data
      /\ cache'.mode = cache.mode
      /\ disk' = disk
  BY <1>0, <1>s, LinkedAsFacts
<1>2. TypeOK'
  BY <1>0, <1>s, <1>1, AttemptAssumption
  DEF IInv, TypeOK, LinkTerminal, Positions, PublishSteps, AliasSteps
<1>3. DirInv'
  BY <1>0, <1>s, <1>1, AttemptAssumption, DirectoryAssumption
  DEF IInv, DirInv, PublishInv, LinkInv, LinkTerminal, HasTerminal, Firm,
      Directory, PublishSteps, AliasSteps, Kinds
<1>4. OneKind'
  <2>1. Touched(job.inode)
    BY <1>0, <1>s DEF IInv, PublishInv, Touched
  <2>2. ASSUME NEW k \in Kinds, Touched(k)' PROVE Touched(k)
    BY <2>2, <2>1, <1>0, <1>1, <1>s, AttemptAssumption
    DEF IInv, PublishInv, Touched, HasTerminal, Directory, PublishSteps,
        AliasSteps
  <2> QED
    BY <1>0, <1>s, <1>1, <2>1, <2>2, AttemptAssumption
    DEF IInv, OneKind, Kinds, PublishSteps
<1>5. PublishInv' /\ LinkInv'
  BY <1>0, <1>s, <1>1, AttemptAssumption, DirectoryAssumption
  DEF IInv, DirInv, PublishInv, LinkInv, LinkTerminal, HasTerminal, Firm,
      Directory, PublishSteps, AliasSteps, Kinds
<1>6. ScanInv' /\ VerdictInv'
  BY <1>0, <1>s, <1>1, AttemptAssumption
  DEF IInv, DirInv, PublishInv, LinkInv, ScanInv, VerdictInv, OneKind, Touched,
      LinkTerminal, HasTerminal, Firm, PublishSteps, AliasSteps, Aliased,
      Linked, Kinds
<1> QED
  BY <1>2, <1>3, <1>4, <1>5, <1>6 DEF IInv

\* Both names become durable while the alias still exists.
LEMMA SyncLinkStep ==
    ASSUME IInv, SyncLink, UNCHANGED verdict
    PROVE  IInv'
<1> USE AttemptAssumption DEF Kinds
<1>0. /\ cache \in Directory /\ disk \in Directory
      /\ job.inode \in Inodes /\ job.terminal \in Terminals
      /\ job \in [inode : Kinds, terminal : Kinds]
  BY DEF IInv, TypeOK
<1>r. /\ job.inode \in cache.pending
      /\ cache.terminal[job.terminal] = job.inode
      /\ cache.mode[job.inode] = "0444"
      /\ IsComplete(cache, job.inode)
  BY <1>0
  DEF IInv, DirInv, PublishInv, LinkInv, SyncLink, HasTerminal, Firm,
      IsComplete, PublishSteps
<1>1. /\ cache' = cache
      /\ disk' \in Directory
      /\ disk'.pending = cache.pending
      /\ disk'.terminal = cache.terminal
      /\ disk'.data = disk.data
      /\ disk'.mode = disk.mode
  BY <1>0, <1>r, NamesSyncedFacts DEF SyncLink, Require, IsComplete
<1>2. TypeOK'
  BY <1>0, <1>r, <1>1
  DEF IInv, TypeOK, SyncLink, Require, IsComplete, Positions, PublishSteps,
      AliasSteps
<1>3. DirInv'
  BY <1>0, <1>r, <1>1, DirectoryAssumption
  DEF IInv, DirInv, PublishInv, LinkInv, SyncLink, Require, IsComplete,
      HasTerminal, Firm, Directory, PublishSteps, AliasSteps
<1>4. OneKind'
  BY <1>0, <1>r, <1>1
  DEF IInv, OneKind, PublishInv, LinkInv, SyncLink, Require, IsComplete,
      Touched, HasTerminal, PublishSteps, AliasSteps
<1>5. PublishInv' /\ LinkInv'
  BY <1>0, <1>r, <1>1, DirectoryAssumption
  DEF IInv, DirInv, PublishInv, LinkInv, SyncLink, Require, IsComplete,
      HasTerminal, Firm, Directory, PublishSteps, AliasSteps
<1>6. ScanInv' /\ VerdictInv'
  BY <1>0, <1>r, <1>1
  DEF IInv, DirInv, PublishInv, LinkInv, ScanInv, VerdictInv, OneKind, Touched,
      SyncLink, Require, IsComplete, HasTerminal, Firm, PublishSteps,
      AliasSteps, Aliased, Linked
<1> QED
  BY <1>2, <1>3, <1>4, <1>5, <1>6 DEF IInv

\* The alias goes only when the terminal name is durable.
LEMMA UnlinkStep ==
    ASSUME IInv, UnlinkPending, UNCHANGED verdict
    PROVE  IInv'
<1> USE AttemptAssumption DEF Kinds
<1>0. /\ cache \in Directory /\ disk \in Directory
      /\ job.inode \in Inodes /\ job.terminal \in Terminals
      /\ job \in [inode : Kinds, terminal : Kinds]
  BY DEF IInv, TypeOK
<1>1. /\ cache' \in Directory
      /\ cache'.pending = cache.pending \ {job.inode}
      /\ cache'.terminal = cache.terminal
      /\ cache'.data = cache.data
      /\ cache'.mode = cache.mode
      /\ disk' = disk
  BY <1>0, UnlinkedFacts DEF UnlinkPending
<1>2. TypeOK'
  BY <1>0, <1>1
  DEF IInv, TypeOK, UnlinkPending, Positions, PublishSteps, AliasSteps
<1>3. DirInv'
  BY <1>0, <1>1, DirectoryAssumption
  DEF IInv, DirInv, PublishInv, LinkInv, UnlinkPending, HasTerminal, Firm,
      Directory, PublishSteps, AliasSteps
<1>4. OneKind'
  BY <1>0, <1>1
  DEF IInv, OneKind, PublishInv, LinkInv, UnlinkPending, Touched, HasTerminal,
      PublishSteps, AliasSteps
<1>5. PublishInv' /\ LinkInv'
  BY <1>0, <1>1, DirectoryAssumption
  DEF IInv, DirInv, PublishInv, LinkInv, UnlinkPending, HasTerminal, Firm,
      Directory, PublishSteps, AliasSteps
<1>6. ScanInv' /\ VerdictInv'
  BY <1>0, <1>1
  DEF IInv, DirInv, PublishInv, LinkInv, ScanInv, VerdictInv, OneKind, Touched,
      UnlinkPending, HasTerminal, Firm, PublishSteps, AliasSteps, Aliased,
      Linked
<1> QED
  BY <1>2, <1>3, <1>4, <1>5, <1>6 DEF IInv

\* The last sync finds the receipt published.
LEMMA FinishStep ==
    ASSUME IInv, FinishReceipt
    PROVE  IInv'
<1> USE AttemptAssumption DEF Kinds
<1>0. /\ cache \in Directory /\ disk \in Directory
      /\ job.inode \in Inodes /\ job.terminal \in Terminals
      /\ job \in [inode : Kinds, terminal : Kinds]
  BY DEF IInv, TypeOK
<1>1. /\ cache' = cache
      /\ disk' \in Directory
      /\ disk'.pending = cache.pending
      /\ disk'.terminal = cache.terminal
      /\ disk'.data = disk.data
      /\ disk'.mode = disk.mode
  BY <1>0, NamesSyncedFacts
  DEF FinishReceipt, SyncUnlink, Require, Published, IsComplete
<1>2. TypeOK'
  BY <1>0, <1>1
  DEF IInv, TypeOK, FinishReceipt, SyncUnlink, Require, Published, IsComplete,
      Positions, PublishSteps, AliasSteps
<1>3. DirInv'
  BY <1>0, <1>1, DirectoryAssumption
  DEF IInv, DirInv, PublishInv, LinkInv, FinishReceipt, SyncUnlink, Require,
      Published, IsComplete, HasTerminal, Firm, Directory, PublishSteps,
      AliasSteps
<1>4. OneKind'
  BY <1>0, <1>1
  DEF IInv, OneKind, PublishInv, LinkInv, FinishReceipt, SyncUnlink, Require,
      Published, IsComplete, Touched, HasTerminal, PublishSteps, AliasSteps
<1>5. PublishInv' /\ LinkInv'
  BY <1>0, <1>1, DirectoryAssumption
  DEF IInv, DirInv, PublishInv, LinkInv, FinishReceipt, SyncUnlink, Require,
      Published, IsComplete, HasTerminal, Firm, Directory, PublishSteps,
      AliasSteps
<1>6. ScanInv' /\ VerdictInv'
  BY <1>0, <1>1
  DEF IInv, DirInv, PublishInv, LinkInv, ScanInv, VerdictInv, OneKind, Touched,
      FinishReceipt, SyncUnlink, Require, Published, IsComplete, HasTerminal,
      Firm, PublishSteps, AliasSteps, Aliased, Linked
<1> QED
  BY <1>2, <1>3, <1>4, <1>5, <1>6 DEF IInv

----------------------------------------------------------------------------
(* The steps of recover_link_alias.                                        *)

\* Recovery makes both names durable, whatever was before the crash.
LEMMA SyncAliasStep ==
    ASSUME IInv, SyncAlias, UNCHANGED verdict
    PROVE  IInv'
<1> USE AttemptAssumption DEF Kinds
<1>0. /\ cache \in Directory /\ disk \in Directory
      /\ job.inode \in Inodes /\ job.terminal \in Terminals
      /\ job \in [inode : Kinds, terminal : Kinds]
  BY DEF IInv, TypeOK
<1>1. /\ cache' = cache
      /\ disk' \in Directory
      /\ disk'.pending = cache.pending
      /\ disk'.terminal = cache.terminal
      /\ disk'.data = disk.data
      /\ disk'.mode = disk.mode
  BY <1>0, NamesSyncedFacts DEF SyncAlias
<1>2. TypeOK'
  BY <1>0, <1>1 DEF IInv, TypeOK, SyncAlias, Positions, PublishSteps, AliasSteps
<1>3. DirInv'
  BY <1>0, <1>1, DirectoryAssumption
  DEF IInv, DirInv, PublishInv, LinkInv, SyncAlias, HasTerminal, Firm,
      Directory, PublishSteps, AliasSteps
<1>4. OneKind'
  BY <1>0, <1>1
  DEF IInv, OneKind, PublishInv, LinkInv, SyncAlias, Touched, HasTerminal,
      PublishSteps, AliasSteps
<1>5. PublishInv' /\ LinkInv'
  BY <1>0, <1>1, DirectoryAssumption
  DEF IInv, DirInv, PublishInv, LinkInv, SyncAlias, HasTerminal, Firm,
      Directory, PublishSteps, AliasSteps
<1>6. ScanInv' /\ VerdictInv'
  BY <1>0, <1>1
  DEF IInv, DirInv, PublishInv, LinkInv, ScanInv, VerdictInv, OneKind, Touched,
      SyncAlias, HasTerminal, Firm, PublishSteps, AliasSteps, Aliased, Linked
<1> QED
  BY <1>2, <1>3, <1>4, <1>5, <1>6 DEF IInv

\* Recovery, too, unlinks only the alias of a durable terminal name.
LEMMA UnlinkAliasStep ==
    ASSUME IInv, UnlinkAlias, UNCHANGED verdict
    PROVE  IInv'
<1> USE AttemptAssumption DEF Kinds
<1>0. /\ cache \in Directory /\ disk \in Directory
      /\ job.inode \in Inodes /\ job.terminal \in Terminals
      /\ job \in [inode : Kinds, terminal : Kinds]
  BY DEF IInv, TypeOK
<1>1. /\ cache' \in Directory
      /\ cache'.pending = cache.pending \ {job.inode}
      /\ cache'.terminal = cache.terminal
      /\ cache'.data = cache.data
      /\ cache'.mode = cache.mode
      /\ disk' = disk
  BY <1>0, UnlinkedFacts DEF UnlinkAlias
<1>2. TypeOK'
  BY <1>0, <1>1
  DEF IInv, TypeOK, UnlinkAlias, Positions, PublishSteps, AliasSteps
<1>3. DirInv'
  BY <1>0, <1>1, DirectoryAssumption
  DEF IInv, DirInv, PublishInv, LinkInv, UnlinkAlias, HasTerminal, Firm,
      Directory, PublishSteps, AliasSteps
<1>4. OneKind'
  BY <1>0, <1>1
  DEF IInv, OneKind, PublishInv, LinkInv, UnlinkAlias, Touched, HasTerminal,
      PublishSteps, AliasSteps
<1>5. PublishInv' /\ LinkInv'
  BY <1>0, <1>1, DirectoryAssumption
  DEF IInv, DirInv, PublishInv, LinkInv, UnlinkAlias, HasTerminal, Firm,
      Directory, PublishSteps, AliasSteps
<1>6. ScanInv' /\ VerdictInv'
  BY <1>0, <1>1
  DEF IInv, DirInv, PublishInv, LinkInv, ScanInv, VerdictInv, OneKind, Touched,
      UnlinkAlias, HasTerminal, Firm, PublishSteps, AliasSteps, Aliased, Linked
<1> QED
  BY <1>2, <1>3, <1>4, <1>5, <1>6 DEF IInv

\* Recovery ends with a published receipt, and the scan goes on.
LEMMA SyncUnlinkedAliasStep ==
    ASSUME IInv, SyncUnlinkedAlias(AfterRecover(job.inode)), UNCHANGED verdict
    PROVE  IInv'
<1> USE AttemptAssumption DEF Kinds
<1>0. /\ cache \in Directory /\ disk \in Directory
      /\ job.inode \in Inodes /\ job.terminal \in Terminals
      /\ job \in [inode : Kinds, terminal : Kinds]
  BY DEF IInv, TypeOK
<1>1. /\ cache' = cache
      /\ disk' \in Directory
      /\ disk'.pending = cache.pending
      /\ disk'.terminal = cache.terminal
      /\ disk'.data = disk.data
      /\ disk'.mode = disk.mode
  BY <1>0, NamesSyncedFacts
  DEF SyncUnlinkedAlias, Require, Published, IsComplete, AfterRecover
<1>2. TypeOK'
  BY <1>0, <1>1
  DEF IInv, TypeOK, SyncUnlinkedAlias, Require, Published, IsComplete,
      AfterRecover, Positions, PublishSteps, AliasSteps
<1>3. DirInv'
  BY <1>0, <1>1, DirectoryAssumption
  DEF IInv, DirInv, PublishInv, LinkInv, SyncUnlinkedAlias, Require, Published,
      IsComplete, AfterRecover, HasTerminal, Firm, Directory, PublishSteps,
      AliasSteps
<1>4. OneKind'
  BY <1>0, <1>1
  DEF IInv, OneKind, PublishInv, LinkInv, SyncUnlinkedAlias, Require,
      Published, IsComplete, AfterRecover, Touched, HasTerminal, PublishSteps,
      AliasSteps
<1>5. PublishInv' /\ LinkInv'
  BY <1>0, <1>1, DirectoryAssumption
  DEF IInv, DirInv, PublishInv, LinkInv, SyncUnlinkedAlias, Require, Published,
      IsComplete, AfterRecover, HasTerminal, Firm, Directory, PublishSteps,
      AliasSteps
<1>6. ScanInv' /\ VerdictInv'
  BY <1>0, <1>1
  DEF IInv, DirInv, PublishInv, LinkInv, ScanInv, VerdictInv, OneKind, Touched,
      SyncUnlinkedAlias, Require, Published, IsComplete, AfterRecover,
      HasTerminal, Firm, PublishSteps, AliasSteps, Aliased, Linked
<1> QED
  BY <1>2, <1>3, <1>4, <1>5, <1>6 DEF IInv

----------------------------------------------------------------------------
(* The other steps of the controller, and the environment.                 *)

\* Steps that move the controller and leave the directory alone.
LEMMA ControlStep ==
    ASSUME IInv,
           \/ \E k \in Kinds : StartReceipt(k)
           \/ LeaveWithoutReceipt \/ Rescan \/ Kill \/ Restart
           \/ UNCHANGED vars
    PROVE  IInv'
<1>1. cache' = cache /\ disk' = disk /\ verdict' = verdict
  BY DEF StartReceipt, LeaveWithoutReceipt, Rescan, Kill, Restart, vars
<1>2. \/ pc' = pc /\ job' = job
      \/ pc = "collect" /\ pc' = "open" /\ \E k \in Kinds : job' = Job(k)
      \/ job' = job /\ pc' \in {"recoverSuccess", "down"}
  BY DEF StartReceipt, LeaveWithoutReceipt, Rescan, Kill, Restart, vars
<1>3. TypeOK'
  BY <1>1, <1>2 DEF IInv, TypeOK, Positions, PublishSteps, Job
<1>4. DirInv'
  BY <1>1 DEF IInv, DirInv, HasTerminal, Firm
<1>5. OneKind'
  BY <1>1, <1>2, EmptyFacts, AttemptAssumption
  DEF IInv, OneKind, PublishInv, Touched, HasTerminal, PublishSteps, Kinds
<1>6. PublishInv' /\ LinkInv'
  BY <1>1, <1>2
  DEF IInv, PublishInv, LinkInv, HasTerminal, Firm, PublishSteps, AliasSteps, Job
<1>7. ScanInv' /\ VerdictInv'
  BY <1>1, <1>2
  DEF IInv, ScanInv, VerdictInv, HasTerminal, Aliased, Linked, PublishSteps,
      AliasSteps
<1> QED
  BY <1>3, <1>4, <1>5, <1>6, <1>7 DEF IInv

\* The four things the scan can find under the names of one kind.
LEMMA RecoverStepLemma ==
    ASSUME IInv, NEW k \in Kinds, RecoverPublication(k)
    PROVE  IInv'
<1> USE AttemptAssumption DEF Kinds
<1>0. /\ cache \in Directory /\ disk \in Directory
      /\ k \in Inodes /\ k \in Terminals /\ "0400" \in Modes
      /\ job \in [inode : Kinds, terminal : Kinds]
      /\ disk' = disk /\ verdict' = verdict /\ pc = RecoverStep(k)
      /\ RecoverStep(k) \in {"recoverSuccess", "recoverFailure"}
  BY DEF IInv, TypeOK, Modes, RecoverPublication, RecoverStep
<1>1. CASE k \notin cache.pending
  <2>1. cache' = cache /\ job' = job /\ pc' = AfterRecover(k)
    BY <1>1, <1>0
    DEF RecoverPublication, Require, IInv, DirInv, Firm, HasTerminal, PendingOnly
  <2>2. TypeOK' /\ DirInv' /\ OneKind' /\ PublishInv' /\ LinkInv'
    BY <2>1, <1>0
    DEF IInv, TypeOK, DirInv, OneKind, PublishInv, LinkInv, AfterRecover,
        Positions, PublishSteps, AliasSteps, Touched, HasTerminal, Firm
  <2>3. ScanInv' /\ VerdictInv'
    BY <2>1, <1>0, <1>1
    DEF IInv, ScanInv, VerdictInv, AfterRecover, RecoverStep, PublishSteps,
        AliasSteps, HasTerminal, Aliased, Linked
  <2> QED
    BY <2>2, <2>3 DEF IInv
<1>2. CASE k \in cache.pending /\ HasTerminal(cache, k)
  <2>1. cache' = cache /\ job' = Job(k) /\ pc' = "aliasSync"
    BY <1>2, <1>0
    DEF RecoverPublication, Require, IInv, DirInv, Firm, HasTerminal,
        PendingOnly, Linked
  <2>2. TypeOK' /\ DirInv' /\ OneKind' /\ PublishInv' /\ LinkInv'
    BY <2>1, <1>0, <1>2
    DEF IInv, TypeOK, DirInv, OneKind, PublishInv, LinkInv, AfterRecover, Job,
        Positions, PublishSteps, AliasSteps, Touched, HasTerminal, Firm
  <2>3. ScanInv' /\ VerdictInv'
    BY <2>1, <1>0, <1>2
    DEF IInv, ScanInv, VerdictInv, AfterRecover, RecoverStep, Job, PublishSteps,
        AliasSteps, HasTerminal, Aliased, Linked
  <2> QED
    BY <2>2, <2>3 DEF IInv
<1>3. CASE k \in cache.pending /\ ~HasTerminal(cache, k) /\ cache.mode[k] # "0600"
  <2>1. cache' = cache /\ job' = Job(k) /\ pc' = AfterRecover(k)
    BY <1>3, <1>0 DEF RecoverPublication, Require, HasTerminal
  <2>2. TypeOK' /\ DirInv' /\ OneKind' /\ PublishInv' /\ LinkInv'
    BY <2>1, <1>0, <1>3
    DEF IInv, TypeOK, DirInv, OneKind, PublishInv, LinkInv, AfterRecover, Job,
        Positions, PublishSteps, AliasSteps, Touched, HasTerminal, Firm
  <2>3. ~Aliased(cache, k)
    BY <1>3, <1>0, DirectoryAssumption
    DEF Aliased, Linked, HasTerminal, IInv, DirInv
  <2>4. ScanInv' /\ VerdictInv'
    BY <2>1, <1>0, <1>3, <2>3
    DEF IInv, ScanInv, VerdictInv, AfterRecover, RecoverStep, Job, PublishSteps,
        AliasSteps, HasTerminal, Aliased, Linked
  <2> QED
    BY <2>2, <2>4 DEF IInv
<1>4. CASE k \in cache.pending /\ ~HasTerminal(cache, k) /\ cache.mode[k] = "0600"
  <2>0. /\ cache' = Chmodded(cache, k, "0400")
        /\ job' = Job(k) /\ pc' = "syncInterrupted"
    BY <1>4, <1>0 DEF RecoverPublication, HasTerminal
  <2>1. /\ cache' \in Directory
        /\ cache'.pending = cache.pending
        /\ cache'.terminal = cache.terminal
        /\ cache'.data = cache.data
        /\ cache'.mode = [cache.mode EXCEPT ![k] = "0400"]
    BY <2>0, <1>0, ChmoddedFacts
  <2>2. TypeOK' /\ OneKind' /\ PublishInv' /\ LinkInv'
    BY <2>0, <2>1, <1>0, <1>4
    DEF IInv, TypeOK, OneKind, PublishInv, LinkInv, AfterRecover, Job, Positions,
        PublishSteps, AliasSteps, Touched, HasTerminal, Firm
  <2>3. DirInv'
    BY <2>0, <2>1, <1>0, <1>4 DEF IInv, DirInv, HasTerminal, Firm, Directory
  <2>4. ScanInv' /\ VerdictInv'
    BY <2>0, <2>1, <1>0, <1>4
    DEF IInv, ScanInv, VerdictInv, RecoverStep, Job, PublishSteps, AliasSteps,
        HasTerminal, Aliased, Linked
  <2> QED
    BY <2>2, <2>3, <2>4 DEF IInv
<1> QED
  BY <1>1, <1>2, <1>3, <1>4

\* The interrupted pending receipt, and its name, become durable.
LEMMA SyncInterruptedStep ==
    ASSUME IInv, SyncInterrupted
    PROVE  IInv'
<1> USE AttemptAssumption DEF Kinds
<1>0. /\ cache \in Directory /\ disk \in Directory
      /\ job.inode \in Inodes
      /\ job \in [inode : Kinds, terminal : Kinds]
      /\ cache' = cache /\ verdict' = verdict /\ job' = job
      /\ pc = "syncInterrupted" /\ pc' = AfterRecover(job.inode)
  BY DEF IInv, TypeOK, SyncInterrupted
<1>1. /\ disk' \in Directory
      /\ disk'.pending = cache.pending
      /\ disk'.terminal = cache.terminal
      /\ disk'.data = [disk.data EXCEPT ![job.inode] = cache.data[job.inode]]
      /\ disk'.mode = [disk.mode EXCEPT ![job.inode] = cache.mode[job.inode]]
  <2>1. disk' = [FileSynced(job.inode) EXCEPT
                     !.pending = cache.pending, !.terminal = cache.terminal]
    BY DEF SyncInterrupted
  <2>2. ASSUME NEW f \in Directory,
               disk' = [f EXCEPT !.pending = cache.pending,
                                 !.terminal = cache.terminal]
        PROVE  /\ disk' \in Directory
               /\ disk'.pending = cache.pending
               /\ disk'.terminal = cache.terminal
               /\ disk'.data = f.data
               /\ disk'.mode = f.mode
    BY <2>2, <1>0 DEF Directory
  <2> QED
    BY <2>1, <2>2, <1>0, FileSyncedFacts
<1>2. TypeOK' /\ OneKind' /\ PublishInv' /\ LinkInv'
  BY <1>0, <1>1
  DEF IInv, TypeOK, OneKind, PublishInv, LinkInv, AfterRecover, Positions,
      PublishSteps, AliasSteps, Touched, HasTerminal
<1>3. DirInv'
  BY <1>0, <1>1 DEF IInv, DirInv, LinkInv, HasTerminal, Firm, Directory
<1>4. ~Aliased(cache, job.inode)
  BY <1>0, DirectoryAssumption
  DEF IInv, LinkInv, DirInv, Aliased, Linked, HasTerminal
<1>5. ScanInv' /\ VerdictInv'
  <2>1. pc' \in {"recoverFailure", "classify"}
    BY <1>0 DEF AfterRecover
  <2>2. ~Aliased(cache, "success")
    BY <1>0, <1>4 DEF IInv, ScanInv
  <2>3. pc' = "classify" => ~Aliased(cache, "failure")
    BY <1>0, <1>4 DEF AfterRecover
  <2>4. ScanInv'
    BY <2>1, <2>2, <2>3, <1>0 DEF ScanInv, Aliased, Linked, AliasSteps
  <2>5. VerdictInv'
    BY <2>1, <1>0, <1>1
    DEF IInv, VerdictInv, DirInv, HasTerminal, PublishSteps
  <2> QED
    BY <2>4, <2>5
<1> QED
  BY <1>2, <1>3, <1>5 DEF IInv

\* The scan finds a coherent attempt, and reports what is on stable storage.
LEMMA ClassifyStep ==
    ASSUME IInv, Classify
    PROVE  /\ IInv'
           /\ DurableReceipt' = DurableReceipt
           /\ verdict' = IF DurableReceipt = "none" THEN "interrupted"
                                                    ELSE DurableReceipt
<1> USE AttemptAssumption DEF Kinds
<1>0. /\ cache \in Directory /\ disk \in Directory
      /\ job \in [inode : Kinds, terminal : Kinds]
      /\ cache' = cache /\ job' = job
      /\ pc = "classify"
  BY DEF IInv, TypeOK, Classify
<1>1. \A k \in Kinds : ~Aliased(cache, k)
  BY <1>0 DEF IInv, ScanInv
<1>2. Coherent
  BY <1>0, <1>1 DEF IInv, Coherent, OneKind, Touched, DirInv, Firm, IsComplete
<1>3. \A k \in Kinds : HasTerminal(cache, k) <=> HasTerminal(disk, k)
  BY <1>0, <1>1 DEF IInv, DirInv, Aliased, Linked, HasTerminal
<1>4. ~(HasTerminal(cache, "success") /\ HasTerminal(cache, "failure"))
  BY DEF IInv, OneKind, Touched
<1>5. pc' = "reported"
  BY <1>2 DEF Classify, Require
<1>6. CASE \E k \in Kinds : HasTerminal(cache, k)
  <2>1. disk' = disk
    BY <1>2, <1>6 DEF Classify
  <2>2. PICK k \in Kinds : HasTerminal(cache, k)
    BY <1>6
  <2>3. { j \in Kinds : HasTerminal(cache, j) } = {k}
    BY <2>2, <1>4
  <2>4. verdict' = k
    BY <1>2, <2>3 DEF Classify
  <2>5. DurableReceipt = k /\ DurableReceipt' = DurableReceipt
    BY <2>1, <2>2, <1>3, <1>4 DEF DurableReceipt, HasTerminal
  <2>6. TypeOK' /\ DirInv' /\ OneKind' /\ PublishInv' /\ LinkInv'
    BY <2>1, <2>4, <1>0, <1>5
    DEF IInv, TypeOK, DirInv, OneKind, PublishInv, LinkInv, Positions,
        PublishSteps, AliasSteps, Touched, HasTerminal, Firm
  <2>7. ScanInv' /\ VerdictInv'
    BY <2>1, <2>2, <2>4, <1>0, <1>1, <1>3, <1>5
    DEF IInv, ScanInv, VerdictInv, PublishSteps, AliasSteps, HasTerminal,
        Aliased, Linked
  <2> QED
    BY <2>4, <2>5, <2>6, <2>7 DEF IInv
<1>7. CASE \A k \in Kinds : ~HasTerminal(cache, k)
  <2>0. { j \in Kinds : HasTerminal(cache, j) } = {}
    BY <1>7
  <2>1. verdict' = "interrupted"
    BY <1>2, <2>0 DEF Classify
  <2>2. disk' = [disk EXCEPT
                  !.data = [i \in Inodes |->
                      IF i \in cache.pending THEN cache.data[i] ELSE @[i]],
                  !.mode = [i \in Inodes |->
                      IF i \in cache.pending THEN cache.mode[i] ELSE @[i]]]
    BY <1>2, <2>0 DEF Classify
  <2>3. /\ disk' \in Directory
        /\ disk'.pending = disk.pending
        /\ disk'.terminal = disk.terminal
        /\ \A i \in Inodes : /\ disk'.data[i] \in {disk.data[i], cache.data[i]}
                             /\ disk'.mode[i] \in {disk.mode[i], cache.mode[i]}
    BY <2>2, <1>0 DEF Directory
  <2>4. DurableReceipt = "none" /\ DurableReceipt' = DurableReceipt
    BY <2>3, <1>3, <1>7 DEF DurableReceipt, HasTerminal
  <2>5. TypeOK' /\ OneKind' /\ PublishInv' /\ LinkInv'
    BY <2>1, <2>3, <1>0, <1>5
    DEF IInv, TypeOK, OneKind, PublishInv, LinkInv, Positions, PublishSteps,
        AliasSteps, Touched, HasTerminal
  <2>6. DirInv'
    BY <2>3, <1>0, <1>3, <1>7 DEF IInv, DirInv, HasTerminal, Firm
  <2>7. ScanInv' /\ VerdictInv'
    BY <2>1, <2>3, <1>0, <1>1, <1>5, <1>7
    DEF IInv, ScanInv, VerdictInv, PublishSteps, AliasSteps, HasTerminal,
        Aliased, Linked
  <2> QED
    BY <2>1, <2>4, <2>5, <2>6, <2>7 DEF IInv
<1> QED
  BY <1>6, <1>7

\* What was firm stays firm, and nothing durable is lost.
LEMMA PowerStep ==
    ASSUME IInv, PowerLoss
    PROVE  IInv'
<1> USE AttemptAssumption DEF Kinds
<1>0. /\ cache \in Directory /\ disk \in Directory
      /\ job \in [inode : Kinds, terminal : Kinds]
      /\ verdict' = verdict /\ job' = job /\ pc' = "down"
      /\ LosePower
  BY DEF IInv, TypeOK, PowerLoss
<1>1. /\ cache' \in Directory /\ disk' = cache'
      /\ cache'.pending \subseteq cache.pending \cup disk.pending
      /\ \A k \in Kinds :
             /\ cache'.terminal[k] \in {cache.terminal[k], disk.terminal[k]}
             /\ cache'.data[k] \in {cache.data[k]} \cup disk.data[k]..cache.data[k]
             /\ cache'.mode[k] \in {cache.mode[k], disk.mode[k]}
  BY <1>0, PowerFacts
<1>2. TypeOK'
  BY <1>0, <1>1 DEF IInv, TypeOK, Positions
<1>3. \A k \in Kinds :
          cache.data[k] = Size /\ disk.data[k] = Size => cache'.data[k] = Size
  BY <1>0, <1>1, DirectoryAssumption DEF Directory
<1>4. DirInv'
  BY <1>0, <1>1, <1>3 DEF IInv, DirInv, HasTerminal, Firm
<1>5. OneKind'
  BY <1>0, <1>1 DEF IInv, OneKind, Touched, HasTerminal, PublishSteps
<1>6. PublishInv' /\ LinkInv'
  BY <1>0 DEF PublishInv, LinkInv, PublishSteps, AliasSteps
<1>7. ScanInv' /\ VerdictInv'
  BY <1>0, <1>1
  DEF IInv, ScanInv, VerdictInv, DirInv, HasTerminal, PublishSteps, AliasSteps
<1> QED
  BY <1>2, <1>4, <1>5, <1>6, <1>7 DEF IInv

----------------------------------------------------------------------------
(* The invariant, and the safety properties.                               *)

\* Every system call, kill, restart and power loss preserves the invariant.
LEMMA Inductive == IInv /\ [Next]_vars => IInv'
<1> SUFFICES ASSUME IInv, [Next]_vars PROVE IInv'
  OBVIOUS
<1>1. CASE \/ \E k \in Kinds : StartReceipt(k)
           \/ LeaveWithoutReceipt \/ Rescan \/ Kill \/ Restart
           \/ UNCHANGED vars
  BY <1>1, ControlStep
<1>2. CASE Publishing
  BY <1>2, OpenStep, WriteStep, SyncPendingStep, SealStep, SyncSealStep,
     SyncNameStep, LinkStep, SyncLinkStep, UnlinkStep
  DEF Publishing, PublishStep
<1>3. CASE FinishReceipt
  BY <1>3, FinishStep
<1>4. CASE \E k \in Kinds : RecoverPublication(k)
  BY <1>4, RecoverStepLemma
<1>5. CASE SyncInterrupted
  BY <1>5, SyncInterruptedStep
<1>6. CASE RecoverAlias
  BY <1>6, SyncAliasStep, UnlinkAliasStep, SyncUnlinkedAliasStep DEF RecoverAlias
<1>7. CASE Classify
  BY <1>7, ClassifyStep
<1>8. CASE PowerLoss
  BY <1>8, PowerStep
<1> QED
  BY <1>1, <1>2, <1>3, <1>4, <1>5, <1>6, <1>7, <1>8 DEF Next

\* The inductive invariant holds in every reachable state.
THEOREM Invariance == Spec => []IInv
BY Initial, Inductive, PTL DEF Spec

\* The variables of AttemptPublication keep their types.
THEOREM Typing == Spec => []TypeOK
<1>1. IInv => TypeOK
  BY DEF IInv
<1> QED
  BY <1>1, Invariance, PTL

\* Whatever the faults, for receipts of every length: a receipt that has its
\* terminal name is complete and read-only.
THEOREM ReceiptsAreWhole == Spec => []NoTruncatedReceipt
<1>1. IInv => NoTruncatedReceipt
  BY DEF IInv, DirInv, NoTruncatedReceipt, Firm, IsComplete, HasTerminal
<1> QED
  BY <1>1, Invariance, PTL

\* scan_target never fails closed on what faults and scans left behind.
THEOREM ScansResume == Spec => []NeverWedged
<1>1. IInv => NeverWedged
  BY DEF IInv, ScanInv, NeverWedged
<1> QED
  BY <1>1, Invariance, PTL

\* A receipt without a pending alias survives every later power loss.
THEOREM CountedReceiptsAreDurable == Spec => []CountedIsDurable
<1>1. IInv => CountedIsDurable
  BY DEF IInv, DirInv, CountedIsDurable, Firm, HasTerminal
<1> QED
  BY <1>1, Invariance, PTL

----------------------------------------------------------------------------
(* The directory implements OneShotReceipt.                                *)

\* Durable receipts only appear, and only those that already have their name.
DiskGrows ==
    \A k \in Kinds : /\ HasTerminal(disk, k) => HasTerminal(disk, k)'
                     /\ HasTerminal(disk, k)' => HasTerminal(cache, k)

\* Only a scan changes what is reported.
LEMMA ReportIsClassify == [Next]_vars => Classify \/ verdict' = verdict
BY DEF Next, StartReceipt, LeaveWithoutReceipt, Rescan, Kill, Restart, vars,
       Publishing, FinishReceipt, RecoverPublication, SyncInterrupted,
       RecoverAlias, PowerLoss

\* Outside of a scan, terminal receipts on the disk only appear.
LEMMA DiskGrowsStep == IInv /\ [Next]_vars => Classify \/ DiskGrows
<1> SUFFICES ASSUME IInv, [Next]_vars, ~Classify PROVE DiskGrows
  OBVIOUS
<1> USE AttemptAssumption DEF Kinds
<1>0. cache \in Directory /\ disk \in Directory /\ job.inode \in Inodes
  BY DEF IInv, TypeOK
<1>1. \A k \in Kinds : HasTerminal(disk, k) => HasTerminal(cache, k)
  BY DEF IInv, DirInv
<1>2. CASE disk'.terminal \in {disk.terminal, cache.terminal}
  BY <1>1, <1>2 DEF DiskGrows, HasTerminal
<1>3. CASE PowerLoss
  <2>1. \A k \in Kinds : disk'.terminal[k] \in {cache.terminal[k], disk.terminal[k]}
    BY <1>0, <1>3, PowerFacts DEF PowerLoss
  <2> QED
    BY <2>1, <1>1 DEF DiskGrows, HasTerminal
<1>4. CASE disk' = disk
  BY <1>2, <1>4
<1>5. CASE disk' = NamesSynced
  BY <1>2, <1>5, <1>0, NamesSyncedFacts
<1>6. CASE disk' = FileSynced(job.inode)
  BY <1>2, <1>6, <1>0, FileSyncedFacts
<1>7. CASE SyncInterrupted
  <2>1. disk' = [FileSynced(job.inode) EXCEPT
                     !.pending = cache.pending, !.terminal = cache.terminal]
    BY <1>7 DEF SyncInterrupted
  <2>2. disk'.terminal = cache.terminal
    BY <2>1, <1>0, FileSyncedFacts DEF Directory
  <2> QED
    BY <2>2, <1>2
<1>8. CASE Publishing
  <2>1. disk' \in {disk, NamesSynced, FileSynced(job.inode)}
    BY <1>8
    DEF Publishing, PublishStep, OpenPending, WritePending, SyncPending,
        SealPending, SyncSeal, SyncPendingName, LinkTerminal, SyncLink,
        UnlinkPending
  <2> QED
    BY <2>1, <1>4, <1>5, <1>6
<1>9. CASE FinishReceipt \/ RecoverAlias
  BY <1>9, <1>4, <1>5
  DEF FinishReceipt, SyncUnlink, RecoverAlias, SyncAlias, UnlinkAlias,
      SyncUnlinkedAlias
<1>10. CASE \/ \E k \in Kinds : StartReceipt(k)
            \/ \E k \in Kinds : RecoverPublication(k)
            \/ LeaveWithoutReceipt \/ Rescan \/ Kill \/ Restart
            \/ UNCHANGED vars
  BY <1>10, <1>4
  DEF StartReceipt, RecoverPublication, LeaveWithoutReceipt, Rescan, Kill,
      Restart, vars
<1> QED
  BY <1>3, <1>7, <1>8, <1>9, <1>10 DEF Next

\* Every step of the controller, of a crash or of a recovery is a step of the
\* promise, or none of its business.
LEMMA StepRefines ==
    ASSUME IInv, IInv', [Next]_vars
    PROVE  OneShot!Next \/ UNCHANGED <<DurableReceipt, verdict>>
<1> USE AttemptAssumption DEF Kinds
<1>1. CASE Classify
  BY <1>1, ClassifyStep DEF OneShot!Next, OneShot!Report
<1>2. CASE ~Classify /\ DurableReceipt' = DurableReceipt
  BY <1>2, ReportIsClassify
<1>3. CASE ~Classify /\ DurableReceipt' # DurableReceipt
  <2>1. verdict' = verdict /\ DiskGrows
    BY <1>3, ReportIsClassify, DiskGrowsStep
  <2>2. PICK k \in Kinds : HasTerminal(disk, k)' /\ ~HasTerminal(disk, k)
    BY <1>3, <2>1 DEF DurableReceipt, DiskGrows, HasTerminal
  <2>3. \A j \in Kinds : j # k => ~HasTerminal(disk, j)' /\ ~HasTerminal(disk, j)
    BY <2>2, <2>1 DEF IInv, OneKind, Touched, DiskGrows
  <2>4. DurableReceipt = "none" /\ DurableReceipt' = k
    BY <2>2, <2>3 DEF DurableReceipt, HasTerminal
  <2>5. HasTerminal(cache, k)
    BY <2>1, <2>2 DEF DiskGrows
  <2>6. verdict = "none"
    BY <2>2, <2>3, <2>5 DEF IInv, VerdictInv, TypeOK
  <2> QED
    BY <2>1, <2>4, <2>6 DEF OneShot!Next, OneShot!Publish
<1> QED
  BY <1>1, <1>2, <1>3

\* One attempt directory, under every interleaving of its publication with
\* kills, power losses and recoveries, keeps the promise of OneShotReceipt:
\* one receipt at most, and every report of the attempt the same.
THEOREM Refinement == Spec => ImplementsOneShot
<1>1. Init => OneShot!Init
  BY EmptyFacts, AttemptAssumption DEF Init, OneShot!Init, DurableReceipt, Kinds
<1>2. IInv /\ IInv' /\ [Next]_vars => [OneShot!Next]_<<DurableReceipt, verdict>>
  BY StepRefines
<1> QED
  BY <1>1, <1>2, Invariance, PTL DEF Spec, ImplementsOneShot, OneShot!Spec

=============================================================================
