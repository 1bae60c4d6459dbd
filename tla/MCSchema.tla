------------------------------ MODULE MCSchema ------------------------------
(* Instances of SchemaBootstrap: two workers and one oauth-migrate command. *)
EXTENDS SchemaBootstrap

CONSTANTS w1, w2, m1

\* A rolling deployment: the first worker still runs the previous version.
Mixed == [p \in Proc |-> IF p = w1 THEN 1 ELSE IF p = w2 THEN 2 ELSE 3]

\* Every process runs the version of this repository.
Same == [p \in Proc |-> 1]
=============================================================================
