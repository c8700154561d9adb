-------------------------- MODULE RefreshFamilies --------------------------
(***************************************************************************)
(* What the refresh token store promises, without indices, maps or         *)
(* tombstones: a family is opened once, has at most one current token,     *)
(* moves from token to token, and once it has lost its token or has been   *)
(* revoked it never has one again.  RefreshStore implements this.          *)
(***************************************************************************)
CONSTANTS Token, FamilyId, None

VARIABLES
    opened,   \* families that were ever given a token
    current,  \* family -> its one exchangeable token, or None
    revoked   \* families revoked for good

vars == <<opened, current, revoked>>

Init ==
    /\ opened = {}
    /\ current = [f \in FamilyId |-> None]
    /\ revoked = {}

\* The first token of a family.
Open(f, t) ==
    /\ f \notin opened
    /\ opened' = opened \cup {f}
    /\ current' = [current EXCEPT ![f] = t]
    /\ UNCHANGED revoked

\* Rotation and its rollback: the family's token is replaced.
Move(f, t) ==
    /\ current[f] # None
    /\ f \notin revoked
    /\ current' = [current EXCEPT ![f] = t]
    /\ UNCHANGED <<opened, revoked>>

Cleared(F) == [f \in FamilyId |-> IF f \in F THEN None ELSE current[f]]

\* Families lose their token without a mark: expiry, compensation, or the
\* clean-up after a client changed its secret.
Lose(F) ==
    /\ current' = Cleared(F)
    /\ UNCHANGED <<opened, revoked>>

\* Families are revoked: exactly those lose their token.
Revoke(F) ==
    /\ revoked' = revoked \cup F
    /\ current' = Cleared(F)
    /\ UNCHANGED opened

Next ==
    \/ \E f \in FamilyId, t \in Token : Open(f, t) \/ Move(f, t)
    \/ \E F \in SUBSET FamilyId : Lose(F) \/ Revoke(F)

Spec == Init /\ [][Next]_vars

=============================================================================
