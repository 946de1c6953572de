----------------------------- MODULE MCApproval -----------------------------
EXTENDS Approval, TLC
CONSTANTS a1, a2, three, four, five
MCOwnerOf == [x \in Args |-> IF x = five THEN "wife" ELSE "husband"]
MCSymmetry == Permutations(Actions)
=============================================================================
