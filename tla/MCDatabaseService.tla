------------------------- MODULE MCDatabaseService -------------------------
(* DatabaseService on small instances: connections are interchangeable, and *)
(* so are options.                                                          *)
EXTENDS DatabaseService, TLC

(* Who may be cancelled nests as deep as there are scopes, the others twice. *)
Budgets == [r \in Requests |-> IF r \in Cancellable THEN MaxScopes ELSE 2]

Interchangeable == Permutations(Connections) \cup Permutations(Options)
=============================================================================
