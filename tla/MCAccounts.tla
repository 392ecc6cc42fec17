------------------------------ MODULE MCAccounts ------------------------------
(* Small instances of Accounts. *)
EXTENDS Accounts, TLC

CONSTANTS m1, m2

MCRiskSteps == <<1>>
MCRetryDelays == <<1, 2>>

OneModel == {m1 :> "some", m1 :> "nothing"}

Symmetry == Permutations(Reqs) \cup Permutations(Routes)

=============================================================================
