-------------------------- MODULE GrantRefinement --------------------------
(***************************************************************************)
(* OAuthGrants implements GrantLife: the rows the requests leave behind,   *)
(* read as the holder of each grant's right.                               *)
(***************************************************************************)
EXTENDS GrantProperties

\* An ended grant is told from one that was never issued and from every holder.
ASSUME HolderKinds == Absent \notin Code \cup Token \cup {None}

\* The code's row has been committed at some time.
WasIssued(c) == IF AutoCommit THEN origin[c] # None ELSE c \in Delivered

\* While an autocommit request carries the right, the code or token it was taken from
\* still stands for it.
Holder(c) ==
  IF committed[c] # Absent THEN c
  ELSE IF LiveTokens(c) # {} THEN CHOOSE t \in LiveTokens(c) : TRUE
  ELSE IF \E r \in Req : Carries(r, c) THEN job[CHOOSE r \in Req : Carries(r, c)].key
  ELSE IF WasIssued(c) THEN Absent ELSE None

\* Tokens that have been stored, or whose request failed before it could.
WasStored(t) ==
  IF AutoCommit THEN t \in generated /\ ~\E r \in Req : pc[r] = "chain" /\ job[r].new = t
                ELSE t \in Delivered

Life == INSTANCE GrantLife WITH right  <- [c \in Code |-> Holder(c)],
                                used   <- {t \in Token : WasStored(t)},
                                Nobody <- None, Ended <- Absent

\* The detailed specification implements the abstract one.
ImplementsGrantLife == Life!Spec
=============================================================================
