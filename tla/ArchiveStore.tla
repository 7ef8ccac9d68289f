---------------------------- MODULE ArchiveStore ----------------------------
(***************************************************************************)
(* What a destination of the finalizer promises to its readers: nothing is *)
(* there until one whole archive of the authorized evidence is, and from   *)
(* then on that archive never changes.                                     *)
(***************************************************************************)
CONSTANTS
    Whole,  \* the archives that may be published
    None

VARIABLE archive

Init == archive = None

Publish ==
    /\ archive = None
    /\ archive' \in Whole

Next == Publish

Spec == Init /\ [][Next]_archive

=============================================================================
