--------------------------- MODULE OneShotReceipt ---------------------------
(***************************************************************************)
(* What an attempt directory promises to its readers: at most one receipt  *)
(* is ever published, it never changes, and every report made about the    *)
(* attempt says the same thing, namely which receipt there is, or that the *)
(* attempt was interrupted and has none.                                   *)
(***************************************************************************)

CONSTANT Kinds \* the receipts an attempt can end with; "none" and "interrupted" are not among them

VARIABLES receipt,  \* the receipt on stable storage, or "none"
          reported  \* what the last report said, "none" before the first

Init == receipt = "none" /\ reported = "none"

\* Once an attempt was reported, nothing is published in it any more.
Publish(k) ==
    /\ receipt = "none" /\ reported = "none"
    /\ receipt' = k
    /\ UNCHANGED reported

Report ==
    /\ reported' = IF receipt = "none" THEN "interrupted" ELSE receipt
    /\ UNCHANGED receipt

Next == Report \/ \E k \in Kinds : Publish(k)

Spec == Init /\ [][Next]_<<receipt, reported>>

=============================================================================
