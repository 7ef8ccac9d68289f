------------------------- MODULE EvidenceDirectory -------------------------
(***************************************************************************)
(* One private (mode 0700) evidence directory, as the system calls made by *)
(* run-top100-reference-sweeps.py see it.  Nothing here is code of the     *)
(* repository: it is what the code relies on, namely link(2), unlink(2),   *)
(* fchmod(2), write(2) and fsync(2) on a file and on a directory.          *)
(*                                                                         *)
(* An inode is named after the pending name it was created under: pending  *)
(* names are either fixed and used once per directory, or carry a fresh    *)
(* 32-byte nonce, so the two are in bijection.  "cache" is what processes  *)
(* see; "disk" is what is known to be on stable storage.  Killing a        *)
(* process leaves both alone.  A power loss replaces both by a directory   *)
(* in which every name and every attribute of an inode that was not synced *)
(* has independently kept either its old or its new value.                 *)
(***************************************************************************)
EXTENDS Naturals

CONSTANTS Inodes,    \* the inodes that may be created, one per pending name
          Terminals, \* the terminal names, each to be published at most once
          NoInode,   \* the value of a name that does not exist
          Size       \* how many write(2) calls the bytes of a receipt take

ASSUME DirectoryAssumption ==
    /\ NoInode \notin Inodes
    /\ Size \in Nat \ {0}

VARIABLES cache, \* the directory as every process sees it
          disk   \* the directory as it is known to survive a power loss

Modes == {"0600", "0400", "0444"}

Directory ==
    [pending  : SUBSET Inodes,
     terminal : [Terminals -> Inodes \cup {NoInode}],
     data     : [Inodes -> 0..Size],
     mode     : [Inodes -> Modes]]

EmptyDirectory ==
    [pending  |-> {},
     terminal |-> [k \in Terminals |-> NoInode],
     data     |-> [i \in Inodes |-> 0],
     mode     |-> [i \in Inodes |-> "0600"]]

----------------------------------------------------------------------------
(* What can be observed of a directory d.                                  *)

HasTerminal(d, k) == d.terminal[k] # NoInode

IsComplete(d, i) == d.data[i] = Size

Linked(d, i) == \E k \in Terminals : d.terminal[k] = i

\* The two names of one inode: st_nlink = 2.
Aliased(d, i) == i \in d.pending /\ Linked(d, i)

\* A pending name that is the only link of its inode: st_nlink = 1.
PendingOnly(d, i) == i \in d.pending /\ ~Linked(d, i)

----------------------------------------------------------------------------
(* System calls, as functions of a directory.                              *)

\* O_CREAT | O_EXCL.  An inode that was never created has no bytes and the
\* mode it will be created with, and no name is ever created twice.
Created(d, i) == [d EXCEPT !.pending = @ \cup {i}]

Written(d, i) == [d EXCEPT !.data[i] = @ + 1]

Chmodded(d, i, m) == [d EXCEPT !.mode[i] = m]

LinkedAs(d, i, k) == [d EXCEPT !.terminal[k] = i]

Unlinked(d, i) == [d EXCEPT !.pending = @ \ {i}]

\* fsync of a file: its bytes and its mode, but no name of it, are on disk.
FileSynced(i) ==
    [disk EXCEPT !.data[i] = cache.data[i], !.mode[i] = cache.mode[i]]

\* fsync of the directory: its names, but no inode's attributes, are on disk.
NamesSynced ==
    [disk EXCEPT !.pending = cache.pending, !.terminal = cache.terminal]

----------------------------------------------------------------------------

\* A power loss: every name and attribute keeps its old or its new value, and
\* a file that was growing keeps some prefix of what was written.
LosePower ==
    \E p \in SUBSET (cache.pending \cup disk.pending) :
        /\ cache.pending \cap disk.pending \subseteq p
        /\ \E t \in [Terminals -> Inodes \cup {NoInode}] :
            /\ \A k \in Terminals : t[k] \in {cache.terminal[k], disk.terminal[k]}
            /\ \E a \in [Inodes -> 0..Size], m \in [Inodes -> Modes] :
                /\ \A i \in Inodes :
                       /\ a[i] \in {cache.data[i]} \cup disk.data[i]..cache.data[i]
                       /\ m[i] \in {cache.mode[i], disk.mode[i]}
                /\ cache' = [pending |-> p, terminal |-> t, data |-> a, mode |-> m]
                /\ disk' = cache'

=============================================================================
