------------------------- MODULE ContractAgreement -------------------------
(***************************************************************************)
(* What collection-contract.json promises: one contract is chosen for an   *)
(* artifact root, and every run that gets past the recovery of it collects *)
(* under that contract, whatever its own inputs were.                      *)
(***************************************************************************)

CONSTANT Contracts \* what the inputs of a run can amount to; never "none"

VARIABLES chosen,  \* the contract of the artifact root, "none" before it
          admitted \* the contracts that runs have collected under

Init == chosen = "none" /\ admitted = {}

Choose(c) ==
    /\ chosen = "none"
    /\ chosen' = c
    /\ UNCHANGED admitted

Admit ==
    /\ chosen # "none"
    /\ admitted' = admitted \cup {chosen}
    /\ UNCHANGED chosen

Next == Admit \/ \E c \in Contracts : Choose(c)

Spec == Init /\ [][Next]_<<chosen, admitted>>

=============================================================================
