----------------------------- MODULE MCContract -----------------------------
(* The nonces are interchangeable: no property tells two of them apart.    *)
EXTENDS ContractPublication, TLC

Nonces == Permutations(Inodes)

=============================================================================
