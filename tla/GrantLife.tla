----------------------------- MODULE GrantLife -----------------------------
(***************************************************************************)
(* What the authorization server promises about a grant, with no request,  *)
(* row or lock in sight: an authorization code is issued once, the right   *)
(* it carries is handed on to one refresh token after another, and once    *)
(* ended it never comes back.  Any number of grants may end at once.       *)
(***************************************************************************)
CONSTANTS Code, Token, Nobody, Ended

VARIABLES right,   \* [Code -> its holder: the code itself or a token]
          used     \* tokens that have held a right, or never will

Init ==
  /\ right = [c \in Code |-> Nobody]
  /\ used = {}

Issue(c) ==
  /\ right[c] = Nobody
  /\ right' = [right EXCEPT ![c] = c]
  /\ UNCHANGED used

HandOn(c, t) ==
  /\ right[c] \notin {Nobody, Ended}
  /\ t \notin used
  /\ right' = [right EXCEPT ![c] = t]
  /\ used' = used \cup {t}

\* The tokens of T, about to take over, are lost with the rights.
End(C, T) ==
  /\ \A c \in C : right[c] \notin {Nobody, Ended}
  /\ right' = [c \in Code |-> IF c \in C THEN Ended ELSE right[c]]
  /\ used' = used \cup T

Next ==
  \/ \E c \in Code : Issue(c) \/ \E t \in Token : HandOn(c, t)
  \/ \E C \in SUBSET Code, T \in SUBSET Token : End(C, T)

Spec == Init /\ [][Next]_<<right, used>>
=============================================================================
