----------------------- MODULE RefreshStoreRefinement -----------------------
(***************************************************************************)
(* RefreshStore implements RefreshFamilies: the families opened are those  *)
(* of the tokens issued, a family's current token is its live one, and the *)
(* families revoked are those with an epitaph.                             *)
(***************************************************************************)
EXTENDS RefreshStore

Opened == {Family(t) : t \in {u \in Token : Known(u)}}

Current == [f \in FamilyId |->
    IF \E t \in live : Family(t) = f
    THEN CHOOSE t \in live : Family(t) = f
    ELSE None]

Families == INSTANCE RefreshFamilies
    WITH opened <- Opened, current <- Current, revoked <- epitaph

\* The scripts, indices and all, do what RefreshFamilies says: a family that
\* has lost its token, or was revoked, never has one again.
ImplementsFamilies == Families!Spec

=============================================================================
