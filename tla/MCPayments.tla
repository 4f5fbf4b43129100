----------------------------- MODULE MCPayments -----------------------------
(***************************************************************************)
(* PremiumPayments for TLC: tasks of a kind are interchangeable, and so    *)
(* are users that are all registered.                                      *)
(***************************************************************************)
EXTENDS PremiumPayments, TLC

TaskSymmetry == Permutations(Stars) \cup Permutations(Receipts) \cup Permutations(Reviews)
                \cup Permutations(Grants) \cup Permutations(Revokes)
=============================================================================
