---------------------------- MODULE SweepLedger ----------------------------
(***************************************************************************)
(* What an artifact root promises to those who read its aggregate receipt: *)
(* a ledger of attempts in a fixed order of runs, to which entries are     *)
(* only added, and a report of it.  An attempt that was reported without a *)
(* receipt stays without one, and nobody starts an attempt before all the  *)
(* earlier ones were reported.                                             *)
(***************************************************************************)
EXTENDS Naturals

CONSTANTS Runs,    \* how many target runs have to succeed, in this order
          Attempts \* the numbers an attempt can have

Outcomes == {"success", "failure"}

VARIABLES ledger, \* per run and attempt number: "absent", "open" or an outcome
          report  \* the ledger as it was last reported

Unused == [r \in 1..Runs |-> [n \in Attempts |-> "absent"]]

Init == ledger = Unused /\ report = Unused

Succeeded(l, r) == \E n \in Attempts : l[r][n] = "success"

\* The first attempt number that run r has not used.
Fresh(l, r, n) == \A m \in Attempts : l[r][m] # "absent" <=> m < n

Open(r, n) ==
    /\ report = ledger
    /\ ~Succeeded(ledger, r) /\ \A q \in 1..(r - 1) : Succeeded(ledger, q)
    /\ Fresh(ledger, r, n)
    /\ ledger' = [ledger EXCEPT ![r][n] = "open"]
    /\ UNCHANGED report

Settle(r, n, outcome) ==
    /\ ledger[r][n] = "open" /\ report[r][n] = "absent"
    /\ ledger' = [ledger EXCEPT ![r][n] = outcome]
    /\ UNCHANGED report

Report == report' = ledger /\ UNCHANGED ledger

Next ==
    \/ Report
    \/ \E r \in 1..Runs, n \in Attempts :
           Open(r, n) \/ \E outcome \in Outcomes : Settle(r, n, outcome)

Spec == Init /\ [][Next]_<<ledger, report>>

=============================================================================
