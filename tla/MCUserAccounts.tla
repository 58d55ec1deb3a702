-------------------------- MODULE MCUserAccounts --------------------------
(* UserAccounts on small instances: the requests that accept JSON are      *)
(* interchangeable, and so are addresses, passwords, and the spellings     *)
(* without blanks.                                                         *)
EXTENDS UserAccounts, TLC

Interchangeable ==
    Permutations(Requests \ Picky) \cup Permutations(Addresses)
        \cup Permutations(Passwords)
        \cup Permutations(Spellings \ (Padded \cup Hidden))
=============================================================================
