--------------------------- MODULE MCLoanOrigination ---------------------------
EXTENDS LoanOrigination, TLC

\* Applications, and approvals, are interchangeable.
Symmetry == Permutations(Apps) \cup Permutations(Requests)
===============================================================================
