---------------------- MODULE EvidenceDirectory_proofs ----------------------
(***************************************************************************)
(* What every system call of EvidenceDirectory does to the fields of a     *)
(* well-typed directory, and what a power loss may leave of it.            *)
(***************************************************************************)
EXTENDS EvidenceDirectory, TLAPS

\* What each system call does to the fields of a well-typed directory.
LEMMA CreatedFacts ==
    ASSUME NEW d \in Directory, NEW i \in Inodes
    PROVE  /\ Created(d, i) \in Directory
           /\ Created(d, i).pending = d.pending \cup {i}
           /\ Created(d, i).terminal = d.terminal
           /\ Created(d, i).data = d.data
           /\ Created(d, i).mode = d.mode
BY DEF Directory, Created

\* A write changes the data of one inode.
LEMMA WrittenFacts ==
    ASSUME NEW d \in Directory, NEW i \in Inodes, d.data[i] # Size
    PROVE  /\ Written(d, i) \in Directory
           /\ Written(d, i).pending = d.pending
           /\ Written(d, i).terminal = d.terminal
           /\ Written(d, i).data = [d.data EXCEPT ![i] = @ + 1]
           /\ Written(d, i).mode = d.mode
<1>1. d.data[i] + 1 \in 0..Size
  BY DirectoryAssumption DEF Directory
<1>2. QED
  BY <1>1 DEF Directory, Written

\* A chmod changes the mode of one inode.
LEMMA ChmoddedFacts ==
    ASSUME NEW d \in Directory, NEW i \in Inodes, NEW m \in Modes
    PROVE  /\ Chmodded(d, i, m) \in Directory
           /\ Chmodded(d, i, m).pending = d.pending
           /\ Chmodded(d, i, m).terminal = d.terminal
           /\ Chmodded(d, i, m).data = d.data
           /\ Chmodded(d, i, m).mode = [d.mode EXCEPT ![i] = m]
BY DEF Directory, Chmodded

\* A link adds a terminal name.
LEMMA LinkedAsFacts ==
    ASSUME NEW d \in Directory, NEW i \in Inodes, NEW k \in Terminals
    PROVE  /\ LinkedAs(d, i, k) \in Directory
           /\ LinkedAs(d, i, k).pending = d.pending
           /\ LinkedAs(d, i, k).terminal = [d.terminal EXCEPT ![k] = i]
           /\ LinkedAs(d, i, k).data = d.data
           /\ LinkedAs(d, i, k).mode = d.mode
BY DEF Directory, LinkedAs

\* An unlink removes a pending name.
LEMMA UnlinkedFacts ==
    ASSUME NEW d \in Directory, NEW i \in Inodes
    PROVE  /\ Unlinked(d, i) \in Directory
           /\ Unlinked(d, i).pending = d.pending \ {i}
           /\ Unlinked(d, i).terminal = d.terminal
           /\ Unlinked(d, i).data = d.data
           /\ Unlinked(d, i).mode = d.mode
BY DEF Directory, Unlinked

\* fsync of a file makes its data and mode durable.
LEMMA FileSyncedFacts ==
    ASSUME cache \in Directory, disk \in Directory, NEW i \in Inodes
    PROVE  /\ FileSynced(i) \in Directory
           /\ FileSynced(i).pending = disk.pending
           /\ FileSynced(i).terminal = disk.terminal
           /\ FileSynced(i).data = [disk.data EXCEPT ![i] = cache.data[i]]
           /\ FileSynced(i).mode = [disk.mode EXCEPT ![i] = cache.mode[i]]
BY DEF Directory, FileSynced

\* fsync of the directory makes its names durable.
LEMMA NamesSyncedFacts ==
    ASSUME cache \in Directory, disk \in Directory
    PROVE  /\ NamesSynced \in Directory
           /\ NamesSynced.pending = cache.pending
           /\ NamesSynced.terminal = cache.terminal
           /\ NamesSynced.data = disk.data
           /\ NamesSynced.mode = disk.mode
BY DEF Directory, NamesSynced

\* The empty directory is a directory.
LEMMA EmptyFacts ==
    /\ EmptyDirectory \in Directory
    /\ EmptyDirectory.pending = {}
    /\ \A k \in Terminals : EmptyDirectory.terminal[k] = NoInode
    /\ \A i \in Inodes : EmptyDirectory.data[i] = 0 /\ EmptyDirectory.mode[i] = "0600"
BY DirectoryAssumption DEF Directory, EmptyDirectory, Modes

\* What a power loss may leave of a well-typed directory.
LEMMA PowerFacts ==
    ASSUME cache \in Directory, disk \in Directory, LosePower
    PROVE  /\ cache' \in Directory /\ disk' = cache'
           /\ cache.pending \cap disk.pending \subseteq cache'.pending
           /\ cache'.pending \subseteq cache.pending \cup disk.pending
           /\ \A k \in Terminals :
                  cache'.terminal[k] \in {cache.terminal[k], disk.terminal[k]}
           /\ \A i \in Inodes :
                  /\ cache'.data[i] \in {cache.data[i]} \cup disk.data[i]..cache.data[i]
                  /\ cache'.mode[i] \in {cache.mode[i], disk.mode[i]}
<1>1. PICK p \in SUBSET (cache.pending \cup disk.pending) :
        /\ cache.pending \cap disk.pending \subseteq p
        /\ \E t \in [Terminals -> Inodes \cup {NoInode}] :
            /\ \A k \in Terminals : t[k] \in {cache.terminal[k], disk.terminal[k]}
            /\ \E a \in [Inodes -> 0..Size], m \in [Inodes -> Modes] :
                /\ \A i \in Inodes :
                       /\ a[i] \in {cache.data[i]} \cup disk.data[i]..cache.data[i]
                       /\ m[i] \in {cache.mode[i], disk.mode[i]}
                /\ cache' = [pending |-> p, terminal |-> t, data |-> a, mode |-> m]
                /\ disk' = cache'
  BY DEF LosePower
<1>2. PICK t \in [Terminals -> Inodes \cup {NoInode}] :
        /\ \A k \in Terminals : t[k] \in {cache.terminal[k], disk.terminal[k]}
        /\ \E a \in [Inodes -> 0..Size], m \in [Inodes -> Modes] :
            /\ \A i \in Inodes :
                   /\ a[i] \in {cache.data[i]} \cup disk.data[i]..cache.data[i]
                   /\ m[i] \in {cache.mode[i], disk.mode[i]}
            /\ cache' = [pending |-> p, terminal |-> t, data |-> a, mode |-> m]
            /\ disk' = cache'
  BY <1>1
<1>3. PICK a \in [Inodes -> 0..Size], m \in [Inodes -> Modes] :
        /\ \A i \in Inodes :
               /\ a[i] \in {cache.data[i]} \cup disk.data[i]..cache.data[i]
               /\ m[i] \in {cache.mode[i], disk.mode[i]}
        /\ cache' = [pending |-> p, terminal |-> t, data |-> a, mode |-> m]
        /\ disk' = cache'
  BY <1>2
<1>4. p \in SUBSET Inodes
  BY DEF Directory
<1>5. cache' \in Directory
  BY <1>2, <1>3, <1>4 DEF Directory
<1>6. QED
  BY <1>1, <1>2, <1>3, <1>5

=============================================================================
