------------------------------- MODULE MCAuth -------------------------------
(* Small instances of Auth: one of its sessions, where nobody asks for codes, *)
(* and one of its codes, where there are no accounts.                         *)
EXTENDS Auth, TLC

SessionSymmetry == Permutations(Users) \cup Permutations(Passwords)
                       \cup Permutations(Tokens) \cup Permutations(Requests)

CodeSymmetry == Permutations(CodeRequests)

=============================================================================
