-------------------------- MODULE LinkPublication --------------------------
(***************************************************************************)
(* publish_terminal, finish_link_publication and recover_link_alias: how   *)
(* the sweep controller gives a receipt its terminal name, one system call *)
(* per action.  The steps are shared by the attempt receipts               *)
(* (AttemptPublication) and the collection contract (ContractPublication), *)
(* which say what starts a publication and what follows it.                *)
(***************************************************************************)
EXTENDS EvidenceDirectory

VARIABLES pc,  \* the controller's position
          job  \* the inode and the terminal name it is working on

PublishSteps == {"open", "write", "seal", "syncSeal", "syncName",
                 "link", "syncLink", "unlink", "syncUnlink"}
AliasSteps   == {"aliasSync", "aliasUnlink", "aliasSyncUnlink"}

Jobs == [inode : Inodes, terminal : Terminals]

\* require(): go on when the condition holds, and fail closed otherwise.
Require(condition, next) == pc' = IF condition THEN next ELSE "refused"

----------------------------------------------------------------------------
(* publish_terminal                                                        *)

\* Neither name exists; O_EXCL creation of the pending name, mode 0600.
OpenPending ==
    LET fresh == /\ ~HasTerminal(cache, job.terminal)
                 /\ job.inode \notin cache.pending
    IN  /\ pc = "open"
        /\ Require(fresh, "write")
        /\ cache' = IF fresh THEN Created(cache, job.inode) ELSE cache
        /\ UNCHANGED <<disk, job>>

\* A bug: the loop does not stop at the end of the bytes.
WriteAnyway ==
    /\ pc = "write"
    /\ cache' = Written(cache, job.inode)
    /\ UNCHANGED <<disk, pc, job>>

\* One turn of the "while view" loop.
WritePending ==
    /\ pc = "write"
    /\ ~IsComplete(cache, job.inode)
    /\ cache' = Written(cache, job.inode)
    /\ UNCHANGED <<disk, pc, job>>

\* The first fsync: the bytes are durable before the mode says so.
SyncPending ==
    /\ pc = "write"
    /\ IsComplete(cache, job.inode)
    /\ disk' = FileSynced(job.inode)
    /\ pc' = "seal"
    /\ UNCHANGED <<cache, job>>

SealPending ==
    /\ pc = "seal"
    /\ cache' = Chmodded(cache, job.inode, "0444")
    /\ pc' = "syncSeal"
    /\ UNCHANGED <<disk, job>>

\* A bug: the mode is not made durable before the link.
NoSyncSeal ==
    /\ pc = "syncSeal"
    /\ pc' = "syncName"
    /\ UNCHANGED <<cache, disk, job>>

\* The second fsync makes the mode durable.
SyncSeal ==
    /\ pc = "syncSeal"
    /\ disk' = FileSynced(job.inode)
    /\ pc' = "syncName"
    /\ UNCHANGED <<cache, job>>

SyncPendingName ==
    /\ pc = "syncName"
    /\ disk' = NamesSynced
    /\ pc' = "link"
    /\ UNCHANGED <<cache, job>>

----------------------------------------------------------------------------
(* finish_link_publication                                                 *)

ReadyToLink ==
    /\ PendingOnly(cache, job.inode)
    /\ cache.mode[job.inode] = "0444"
    /\ IsComplete(cache, job.inode)
    /\ ~HasTerminal(cache, job.terminal)

\* os.link never replaces: an existing terminal is an error, not a victim.
LinkTerminal ==
    /\ pc = "link"
    /\ Require(ReadyToLink, "syncLink")
    /\ cache' = IF ReadyToLink THEN LinkedAs(cache, job.inode, job.terminal)
                               ELSE cache
    /\ UNCHANGED <<disk, job>>

\* A bug: the alias is removed before the directory was synced.
NoSyncLink ==
    /\ pc = "syncLink"
    /\ pc' = "unlink"
    /\ UNCHANGED <<cache, disk, job>>

\* Both names are the inode, twice linked; then the directory is synced.
SyncLink ==
    LET linked == /\ job.inode \in cache.pending
                  /\ cache.terminal[job.terminal] = job.inode
                  /\ cache.mode[job.inode] = "0444"
                  /\ IsComplete(cache, job.inode)
    IN  /\ pc = "syncLink"
        /\ Require(linked, "unlink")
        /\ disk' = IF linked THEN NamesSynced ELSE disk
        /\ UNCHANGED <<cache, job>>

UnlinkPending ==
    /\ pc = "unlink"
    /\ cache' = Unlinked(cache, job.inode)
    /\ pc' = "syncUnlink"
    /\ UNCHANGED <<disk, job>>

\* The terminal name as finish_link_publication leaves it: one link, sealed.
Published(d, k) ==
    /\ HasTerminal(d, k)
    /\ d.terminal[k] \notin d.pending
    /\ d.mode[d.terminal[k]] = "0444"
    /\ IsComplete(d, d.terminal[k])

SyncUnlink(next) ==
    /\ pc = "syncUnlink"
    /\ disk' = NamesSynced
    /\ Require(Published(cache, job.terminal), next)
    /\ UNCHANGED <<cache, job>>

\* What publish_terminal does up to its last directory sync.
PublishStep ==
    \/ OpenPending
    \/ WritePending
    \/ SyncPending
    \/ SealPending
    \/ SyncSeal
    \/ SyncPendingName
    \/ LinkTerminal
    \/ SyncLink
    \/ UnlinkPending

----------------------------------------------------------------------------
(* recover_link_alias                                                      *)

\* A bug: recovery removes the alias at once.
NoSyncAlias ==
    /\ pc = "aliasSync"
    /\ pc' = "aliasUnlink"
    /\ UNCHANGED <<cache, disk, job>>

\* The crash window between link and unlink: sync both names first.
SyncAlias ==
    /\ pc = "aliasSync"
    /\ disk' = NamesSynced
    /\ pc' = "aliasUnlink"
    /\ UNCHANGED <<cache, job>>

UnlinkAlias ==
    /\ pc = "aliasUnlink"
    /\ cache' = Unlinked(cache, job.inode)
    /\ pc' = "aliasSyncUnlink"
    /\ UNCHANGED <<disk, job>>

SyncUnlinkedAlias(next) ==
    /\ pc = "aliasSyncUnlink"
    /\ disk' = NamesSynced
    /\ Require(Published(cache, job.terminal), next)
    /\ UNCHANGED <<cache, job>>

=============================================================================
