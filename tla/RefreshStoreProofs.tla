------------------------- MODULE RefreshStoreProofs -------------------------
(***************************************************************************)
(* IInv is an inductive invariant of RefreshStore, for any sets of tokens, *)
(* users and clients and any batch size; the safety properties follow, and *)
(* so does that RefreshStore implements RefreshFamilies.                   *)
(***************************************************************************)
EXTENDS RefreshStoreRefinement, TLAPS

-----------------------------------------------------------------------------
(* Families and payloads. *)

\* A family is told by the token it is named after, and never mistaken for the
\* scope of a single token.
LEMMA FamilyIds ==
    ASSUME NEW t \in Token
    PROVE  /\ FamilyOf(t) \in FamilyId
           /\ FamilyOf(t).of = t
           /\ FamilyOf(t).kind = "uuid"
           /\ LegacyScope(t) \in FamilyId
           /\ LegacyScope(t).kind = "legacy"
BY DEF FamilyOf, LegacyScope, FamilyId

\* What is stored under a token that was issued.
LEMMA KnownTyped ==
    ASSUME TypeOK, NEW t \in Token, Known(t)
    PROVE  /\ record[t] \in Payload
           /\ GrantOf(t) \in Grant
           /\ GrantOf(t).client \in Client
           /\ Family(t) \in FamilyId
           /\ Family(t).of \in Token
           /\ record[t].parent \in Token \cup {None}
BY DEF TypeOK, Known, GrantOf, Family, Payload, Grant, FamilyId

LEMMA LiveKnown ==
    ASSUME TypeOK, NEW t \in live
    PROVE  t \in Token /\ Known(t)
BY DEF TypeOK

-----------------------------------------------------------------------------
(* Steps that issue no token. *)

\* A step that only takes tokens out of the store and its indices keeps the
\* indices sound and the lineage intact.
LEMMA Shrinking ==
    ASSUME IInv, TypeOK',
           record' = record,
           live' \subseteq live,
           \A c \in Client : clientIdx'[c] \subseteq clientIdx[c],
           \A g \in Grant : grantIdx'[g] \subseteq grantIdx[g],
           \A f \in FamilyId : familyIdx'[f] \subseteq familyIdx[f],
           \A t \in Token : tokenFamily'[t] \in {tokenFamily[t], NoFamily},
           \A f \in epitaph' : f \in epitaph \/ f.kind # "uuid" \/ Known(f.of)
    PROVE  IndexSound' /\ LiveAlone' /\ Lineage'
<1>. USE DEF Known, GrantOf, Family
<1>1. IndexSound'
  BY DEF IInv, IndexSound
<1>2. LiveAlone'
  <2>. SUFFICES ASSUME NEW s \in live', NEW t \in Token,
                       Known(t)', Family(t)' = Family(s)', Reached(t)'
                PROVE  t = s
    BY DEF LiveAlone
  <2>1. s \in live /\ Known(t) /\ Family(t) = Family(s)
    OBVIOUS
  <2>2. GrantOf(t) \in Grant /\ GrantOf(t).client \in Client /\ Family(t) \in FamilyId
    BY <2>1, KnownTyped DEF IInv
  <2>3. Reached(t)
    BY <2>2 DEF Reached
  <2>. QED
    BY <2>1, <2>3 DEF IInv, LiveAlone
<1>3. Lineage'
  BY DEF IInv, Lineage
<1>. QED
  BY <1>1, <1>2, <1>3

LEMMA ExpireKeeps ==
    ASSUME IInv, NEW t \in Token, Expire(t)
    PROVE  IInv'
<1>. USE DEF Expire, indices
<1>1. TypeOK'
  BY DEF IInv, TypeOK, Known
<1>2. IndexSound' /\ LiveAlone' /\ Lineage'
  BY <1>1, Shrinking
<1>3. RevokedFamilyHasNoLive' /\ IndexComplete'
  BY DEF IInv, RevokedFamilyHasNoLive, IndexComplete, Family, GrantOf
<1>4. ReplayIsEvident'
  BY DEF IInv, ReplayIsEvident, Family, Known
<1>. QED
  BY <1>1, <1>2, <1>3, <1>4 DEF IInv

LEMMA ExpireTombstoneKeeps ==
    ASSUME IInv, NEW t \in Token, ExpireTombstone(t)
    PROVE  IInv'
<1>. USE DEF ExpireTombstone, indices
<1>1. TypeOK'
  BY DEF IInv, TypeOK, Known
<1>2. IndexSound' /\ LiveAlone' /\ Lineage'
  BY <1>1, Shrinking
<1>3. RevokedFamilyHasNoLive' /\ IndexComplete'
  BY DEF IInv, RevokedFamilyHasNoLive, IndexComplete, Family, GrantOf
<1>4. ReplayIsEvident'
  BY DEF IInv, TypeOK, ReplayIsEvident, Family, Known
<1>. QED
  BY <1>1, <1>2, <1>3, <1>4 DEF IInv

\* Taking one token out of every index.
LEMMA UnindexShrinks ==
    ASSUME TypeOK, NEW t \in Token, Known(t), Unindex(t, record[t])
    PROVE  /\ clientIdx' \in [Client -> SUBSET Token]
           /\ grantIdx' \in [Grant -> SUBSET Token]
           /\ familyIdx' \in [FamilyId -> SUBSET Token]
           /\ tokenFamily' \in [Token -> FamilyId \cup {NoFamily}]
           /\ \A c \in Client : clientIdx[c] \ {t} \subseteq clientIdx'[c]
           /\ \A g \in Grant : grantIdx[g] \ {t} \subseteq grantIdx'[g]
           /\ \A f \in FamilyId : familyIdx[f] \ {t} \subseteq familyIdx'[f]
           /\ \A c \in Client : clientIdx'[c] \subseteq clientIdx[c]
           /\ \A g \in Grant : grantIdx'[g] \subseteq grantIdx[g]
           /\ \A f \in FamilyId : familyIdx'[f] \subseteq familyIdx[f]
           /\ \A s \in Token : tokenFamily'[s] = IF s = t THEN NoFamily ELSE tokenFamily[s]
BY DEF TypeOK, Unindex

LEMMA RemoveKeeps ==
    ASSUME IInv, NEW t \in Token, Remove(t)
    PROVE  IInv'
<1>. USE DEF Remove
<1>0. TypeOK /\ Known(t) /\ Unindex(t, record[t])
  BY DEF IInv
<1>1. TypeOK'
  BY <1>0, UnindexShrinks DEF TypeOK, Known
<1>2. IndexSound' /\ LiveAlone' /\ Lineage'
  BY <1>0, <1>1, UnindexShrinks, Shrinking
<1>3. RevokedFamilyHasNoLive'
  BY DEF IInv, RevokedFamilyHasNoLive, Family
<1>4. IndexComplete'
  <2>. SUFFICES ASSUME NEW s \in live'
                PROVE  /\ s \in clientIdx'[GrantOf(s).client]
                       /\ s \in grantIdx'[GrantOf(s)]
                       /\ s \in familyIdx'[Family(s)]
                       /\ tokenFamily'[s] = Family(s)
    BY DEF IndexComplete, GrantOf, Family
  <2>1. s \in live /\ s # t /\ s \in Token
    BY <1>0 DEF TypeOK
  <2>2. GrantOf(s) \in Grant /\ GrantOf(s).client \in Client /\ Family(s) \in FamilyId
    BY <1>0, <2>1, LiveKnown, KnownTyped
  <2>. QED
    BY <1>0, <2>1, <2>2, UnindexShrinks DEF IInv, IndexComplete
<1>5. ReplayIsEvident'
  BY DEF IInv, ReplayIsEvident, Family, Known
<1>. QED
  BY <1>1, <1>2, <1>3, <1>4, <1>5 DEF IInv

LEMMA TakeKeeps ==
    ASSUME IInv, NEW t \in Token, Take(t)
    PROVE  IInv'
<1>. USE DEF Take
<1>0. TypeOK /\ Known(t) /\ Unindex(t, record[t])
  BY LiveKnown DEF IInv
<1>1. Dead("Consumed", Family(t)) \in Tombstone
  BY <1>0, KnownTyped DEF Dead, Tombstone, State
<1>2. TypeOK'
  BY <1>0, <1>1, UnindexShrinks DEF TypeOK, Known
<1>3. IndexSound' /\ LiveAlone' /\ Lineage'
  BY <1>0, <1>2, UnindexShrinks, Shrinking
<1>4. RevokedFamilyHasNoLive'
  BY DEF IInv, RevokedFamilyHasNoLive, Family
<1>5. IndexComplete'
  <2>. SUFFICES ASSUME NEW s \in live'
                PROVE  /\ s \in clientIdx'[GrantOf(s).client]
                       /\ s \in grantIdx'[GrantOf(s)]
                       /\ s \in familyIdx'[Family(s)]
                       /\ tokenFamily'[s] = Family(s)
    BY DEF IndexComplete, GrantOf, Family
  <2>1. s \in live /\ s # t /\ s \in Token
    BY <1>0 DEF TypeOK
  <2>2. GrantOf(s) \in Grant /\ GrantOf(s).client \in Client /\ Family(s) \in FamilyId
    BY <1>0, <2>1, LiveKnown, KnownTyped
  <2>. QED
    BY <1>0, <2>1, <2>2, UnindexShrinks DEF IInv, IndexComplete
<1>6. ReplayIsEvident'
  BY <1>0 DEF IInv, TypeOK, ReplayIsEvident, Family, Known
<1>. QED
  BY <1>2, <1>3, <1>4, <1>5, <1>6 DEF IInv

\* Who a family revocation reaches: tokens of the scope, and the one submitted.
LEMMA DoomedBelong ==
    ASSUME IInv, NEW scope \in FamilyId, NEW t \in Token, NEW s \in Doomed(scope, t)
    PROVE  s \in Token /\ (s = t \/ (Known(s) /\ Family(s) = scope))
BY DEF IInv, TypeOK, IndexSound, Doomed

LEMMA RevokeKeeps ==
    ASSUME IInv, NEW t \in Token, NEW state \in State, Revoke(t, state)
    PROVE  IInv'
<1>0. TypeOK /\ Known(t)
  BY DEF IInv, Revoke
<1>a. Family(t).of \in Token /\ Family(t) # LegacyScope(t)
  BY <1>0, KnownTyped, FamilyIds DEF IInv, Lineage
<1>1. PICK scope \in {Family(t), LegacyScope(t)} :
        /\ RevokeFamily(scope, GrantOf(t), t, state)
        /\ scope = LegacyScope(t) => \A s \in live : Family(s) # Family(t)
  BY <1>a DEF Revoke
<1>2. /\ scope \in FamilyId
      /\ GrantOf(t) \in Grant
      /\ scope = Family(t) \/ scope.kind # "uuid"
  BY <1>0, KnownTyped, FamilyIds
<1>. DEFINE doomed == Doomed(scope, t)
<1>3. /\ live' = live \ doomed
      /\ tomb' = [s \in Token |-> IF s \in doomed THEN Dead(state, scope) ELSE tomb[s]]
      /\ clientIdx' = [clientIdx EXCEPT ![GrantOf(t).client] = @ \ doomed]
      /\ grantIdx' = [grantIdx EXCEPT ![GrantOf(t)] = @ \ doomed]
      /\ familyIdx' = [familyIdx EXCEPT ![scope] = {}]
      /\ tokenFamily' = [s \in Token |-> IF s \in doomed THEN NoFamily ELSE tokenFamily[s]]
      /\ epitaph' = epitaph \cup {scope}
      /\ UNCHANGED record
  BY <1>1 DEF RevokeFamily
<1>4. doomed \subseteq Token /\ t \in doomed
  BY <1>2, DoomedBelong DEF Doomed
<1>. HIDE DEF doomed
<1>5. Dead(state, scope) \in Tombstone
  BY <1>2 DEF Dead, Tombstone
<1>6. TypeOK'
  BY <1>0, <1>2, <1>3, <1>5 DEF TypeOK, Known
<1>7. IndexSound' /\ LiveAlone' /\ Lineage'
  <2>1. \A f \in epitaph' : f \in epitaph \/ f.kind # "uuid" \/ Known(f.of)
    BY <1>0, <1>2, <1>3, KnownTyped DEF IInv, Lineage
  <2>2. /\ \A c \in Client : clientIdx'[c] \subseteq clientIdx[c]
        /\ \A g \in Grant : grantIdx'[g] \subseteq grantIdx[g]
        /\ \A f \in FamilyId : familyIdx'[f] \subseteq familyIdx[f]
        /\ \A s \in Token : tokenFamily'[s] \in {tokenFamily[s], NoFamily}
    BY <1>0, <1>3 DEF TypeOK
  <2>. QED
    BY <1>3, <1>6, <2>1, <2>2, Shrinking
\* A token that stays is neither in the scope nor of the family of t.
<1>8. ASSUME NEW s \in live'
      PROVE  /\ s \in live /\ s \in Token /\ s \notin doomed
             /\ Family(s) # scope /\ Family(s) # Family(t)
  <2>1. s \in live /\ s \in Token /\ s \notin doomed
    BY <1>3, <1>0 DEF TypeOK
  <2>2. Family(s) # Family(t)
    BY <1>1, <2>1 DEF IInv, IndexComplete, doomed, Doomed
  <2>3. CASE scope = LegacyScope(t)
    <3>1. Known(s) /\ Family(s) = FamilyOf(Family(s).of) /\ Family(s).of \in Token
      BY <1>0, <2>1, LiveKnown, KnownTyped DEF IInv, Lineage
    <3>. QED
      BY <2>1, <2>2, <2>3, <3>1, FamilyIds
  <2>. QED
    BY <1>1, <2>1, <2>2, <2>3
<1>9. RevokedFamilyHasNoLive'
  BY <1>3, <1>8 DEF IInv, RevokedFamilyHasNoLive, Family
<1>10. IndexComplete'
  <2>. SUFFICES ASSUME NEW s \in live'
                PROVE  /\ s \in clientIdx'[GrantOf(s).client]
                       /\ s \in grantIdx'[GrantOf(s)]
                       /\ s \in familyIdx'[Family(s)]
                       /\ tokenFamily'[s] = Family(s)
    BY <1>3 DEF IndexComplete, GrantOf, Family
  <2>1. GrantOf(s) \in Grant /\ GrantOf(s).client \in Client /\ Family(s) \in FamilyId
    BY <1>0, <1>8, LiveKnown, KnownTyped
  <2>2. s \in clientIdx[GrantOf(s).client] /\ s \in grantIdx[GrantOf(s)]
        /\ s \in familyIdx[Family(s)] /\ tokenFamily[s] = Family(s)
    BY <1>8 DEF IInv, IndexComplete
  <2>. QED
    BY <1>0, <1>3, <1>8, <2>1, <2>2 DEF TypeOK
<1>11. ReplayIsEvident'
  <2>. SUFFICES ASSUME NEW s \in live', NEW x \in Token \ {s},
                       Known(x), Family(x) = Family(s), tomb'[x] # None
                PROVE  tomb'[x] = Dead("Consumed", Family(s))
    BY <1>3 DEF ReplayIsEvident, Family, Known
  <2>1. x \notin doomed
    BY <1>2, <1>8, DoomedBelong DEF doomed
  <2>. QED
    BY <1>3, <1>8, <2>1 DEF IInv, ReplayIsEvident
<1>. QED
  BY <1>6, <1>7, <1>9, <1>10, <1>11 DEF IInv

\* What find_family_id finds is the family of the token, or nothing.
LEMMA LocatedFamilyIsOwn ==
    ASSUME IInv, NEW t \in Token
    PROVE  \/ LocatedFamily(t) = NoFamily
           \/ /\ Known(t)
              /\ LocatedFamily(t) \in FamilyId
              /\ LocatedFamily(t) = Family(t)
<1>1. CASE t \in live
  BY <1>1, LiveKnown, KnownTyped DEF IInv, LocatedFamily
<1>2. CASE t \notin live /\ tokenFamily[t] # NoFamily
  BY <1>2, KnownTyped DEF IInv, IndexSound, LocatedFamily
<1>3. CASE /\ t \notin live /\ tokenFamily[t] = NoFamily
           /\ \E f \in FamilyId : t \in familyIdx[f]
  BY <1>3 DEF IInv, IndexSound, LocatedFamily
<1>4. CASE /\ t \notin live /\ tokenFamily[t] = NoFamily
           /\ ~\E f \in FamilyId : t \in familyIdx[f]
  BY <1>4 DEF LocatedFamily
<1>. QED
  BY <1>1, <1>2, <1>3, <1>4

\* No token that stays belongs to the family of a token an index leads to.
LEMMA StayingFamily ==
    ASSUME IInv, NEW t \in Token, Known(t), Reached(t), NEW s \in live, s # t
    PROVE  /\ Family(s) # Family(t)
           /\ Family(s) # ScopeOf(LocatedFamily(t), t)
<1>1. Family(s) # Family(t)
  BY DEF IInv, LiveAlone
<1>2. Family(s).kind = "uuid"
  <2>1. Known(s) /\ Family(s) = FamilyOf(Family(s).of) /\ Family(s).of \in Token
    BY LiveKnown, KnownTyped DEF IInv, Lineage
  <2>. QED
    BY <2>1, FamilyIds
<1>. QED
  BY <1>1, <1>2, FamilyIds, LocatedFamilyIsOwn DEF ScopeOf

LEMMA RevokeGrantBatchKeeps ==
    ASSUME IInv, NEW g \in Grant, RevokeGrantBatch(g)
    PROVE  IInv'
<1>0. TypeOK /\ g.client \in Client
  BY DEF IInv, Grant
<1>1. PICK B \in SUBSET grantIdx[g] :
        /\ live' = live \ B
        /\ tomb' = [t \in Token |-> IF t \in B THEN Dead("ExplicitRevoke", NoFamily)
                                               ELSE tomb[t]]
        /\ epitaph' = epitaph \cup {ScopeOf(LocatedFamily(t), t) : t \in B}
        /\ familyIdx' = [f \in FamilyId |->
                            familyIdx[f] \ {t \in B : LocatedFamily(t) = f}]
        /\ tokenFamily' = [t \in Token |-> IF t \in B THEN NoFamily
                                                      ELSE tokenFamily[t]]
        /\ clientIdx' = [clientIdx EXCEPT ![g.client] = @ \ B]
        /\ grantIdx' = [grantIdx EXCEPT ![g] = @ \ B]
        /\ UNCHANGED record
  BY DEF RevokeGrantBatch, Batches
<1>2. \A t \in B : t \in Token /\ Known(t) /\ GrantOf(t) = g /\ Reached(t)
  BY <1>0 DEF TypeOK, IInv, IndexSound, Reached
<1>3. \A t \in B : /\ ScopeOf(LocatedFamily(t), t) \in FamilyId
                   /\ \/ ScopeOf(LocatedFamily(t), t) = Family(t)
                      \/ ScopeOf(LocatedFamily(t), t).kind # "uuid"
  BY <1>2, LocatedFamilyIsOwn, FamilyIds DEF ScopeOf
<1>4. Dead("ExplicitRevoke", NoFamily) \in Tombstone
  BY DEF Dead, Tombstone, State
<1>5. TypeOK'
  BY <1>0, <1>1, <1>3, <1>4 DEF TypeOK, Known
<1>6. IndexSound' /\ LiveAlone' /\ Lineage'
  <2>1. \A f \in epitaph' : f \in epitaph \/ f.kind # "uuid" \/ Known(f.of)
    BY <1>0, <1>1, <1>2, <1>3, KnownTyped DEF IInv, Lineage
  <2>2. /\ \A c \in Client : clientIdx'[c] \subseteq clientIdx[c]
        /\ \A h \in Grant : grantIdx'[h] \subseteq grantIdx[h]
        /\ \A f \in FamilyId : familyIdx'[f] \subseteq familyIdx[f]
        /\ \A s \in Token : tokenFamily'[s] \in {tokenFamily[s], NoFamily}
    BY <1>0, <1>1 DEF TypeOK
  <2>. QED
    BY <1>1, <1>5, <2>1, <2>2, Shrinking
<1>7. ASSUME NEW s \in live'
      PROVE  /\ s \in live /\ s \in Token /\ s \notin B
             /\ \A t \in B : Family(s) # Family(t) /\ Family(s) # ScopeOf(LocatedFamily(t), t)
  BY <1>0, <1>1, <1>2, StayingFamily DEF TypeOK
<1>8. RevokedFamilyHasNoLive'
  BY <1>1, <1>7 DEF IInv, RevokedFamilyHasNoLive, Family
<1>9. IndexComplete'
  <2>. SUFFICES ASSUME NEW s \in live'
                PROVE  /\ s \in clientIdx'[GrantOf(s).client]
                       /\ s \in grantIdx'[GrantOf(s)]
                       /\ s \in familyIdx'[Family(s)]
                       /\ tokenFamily'[s] = Family(s)
    BY <1>1 DEF IndexComplete, GrantOf, Family
  <2>1. GrantOf(s) \in Grant /\ GrantOf(s).client \in Client /\ Family(s) \in FamilyId
    BY <1>0, <1>7, LiveKnown, KnownTyped
  <2>2. s \in clientIdx[GrantOf(s).client] /\ s \in grantIdx[GrantOf(s)]
        /\ s \in familyIdx[Family(s)] /\ tokenFamily[s] = Family(s)
    BY <1>7 DEF IInv, IndexComplete
  <2>. QED
    BY <1>0, <1>1, <1>7, <2>1, <2>2 DEF TypeOK
<1>10. ReplayIsEvident'
  <2>. SUFFICES ASSUME NEW s \in live', NEW x \in Token \ {s},
                       Known(x), Family(x) = Family(s), tomb'[x] # None
                PROVE  tomb'[x] = Dead("Consumed", Family(s))
    BY <1>1 DEF ReplayIsEvident, Family, Known
  <2>1. x \notin B
    BY <1>7
  <2>. QED
    BY <1>1, <1>7, <2>1 DEF IInv, ReplayIsEvident
<1>. QED
  BY <1>5, <1>6, <1>8, <1>9, <1>10 DEF IInv

LEMMA RevokeClientBatchKeeps ==
    ASSUME IInv, NEW c \in Client, RevokeClientBatch(c)
    PROVE  IInv'
<1>0. TypeOK
  BY DEF IInv
<1>1. PICK B \in SUBSET clientIdx[c] :
        /\ live' = live \ B
        /\ tomb' = [t \in Token |-> IF t \in B THEN None ELSE tomb[t]]
        /\ familyIdx' = [f \in FamilyId |->
                            familyIdx[f] \ {t \in B : LocatedFamily(t) = f}]
        /\ tokenFamily' = [t \in Token |-> IF t \in B THEN NoFamily
                                                      ELSE tokenFamily[t]]
        /\ grantIdx' = [g \in Grant |->
                           grantIdx[g] \ {t \in B \cap live : GrantOf(t) = g}]
        /\ clientIdx' = [clientIdx EXCEPT ![c] = @ \ B]
        /\ UNCHANGED <<record, epitaph>>
  BY DEF RevokeClientBatch, Batches
<1>2. TypeOK'
  BY <1>0, <1>1 DEF TypeOK, Known
<1>3. IndexSound' /\ LiveAlone' /\ Lineage'
  <2>1. /\ \A d \in Client : clientIdx'[d] \subseteq clientIdx[d]
        /\ \A g \in Grant : grantIdx'[g] \subseteq grantIdx[g]
        /\ \A f \in FamilyId : familyIdx'[f] \subseteq familyIdx[f]
        /\ \A s \in Token : tokenFamily'[s] \in {tokenFamily[s], NoFamily}
    BY <1>0, <1>1 DEF TypeOK
  <2>. QED
    BY <1>1, <1>2, <2>1, Shrinking
<1>4. RevokedFamilyHasNoLive'
  BY <1>1 DEF IInv, RevokedFamilyHasNoLive, Family
<1>5. IndexComplete'
  <2>. SUFFICES ASSUME NEW s \in live'
                PROVE  /\ s \in clientIdx'[GrantOf(s).client]
                       /\ s \in grantIdx'[GrantOf(s)]
                       /\ s \in familyIdx'[Family(s)]
                       /\ tokenFamily'[s] = Family(s)
    BY <1>1 DEF IndexComplete, GrantOf, Family
  <2>1. s \in live /\ s \in Token /\ s \notin B
    BY <1>0, <1>1 DEF TypeOK
  <2>2. GrantOf(s) \in Grant /\ GrantOf(s).client \in Client /\ Family(s) \in FamilyId
    BY <1>0, <2>1, LiveKnown, KnownTyped
  <2>3. s \in clientIdx[GrantOf(s).client] /\ s \in grantIdx[GrantOf(s)]
        /\ s \in familyIdx[Family(s)] /\ tokenFamily[s] = Family(s)
    BY <2>1 DEF IInv, IndexComplete
  <2>. QED
    BY <1>0, <1>1, <2>1, <2>2, <2>3 DEF TypeOK
<1>6. ReplayIsEvident'
  BY <1>0, <1>1 DEF IInv, TypeOK, ReplayIsEvident, Family, Known
<1>. QED
  BY <1>2, <1>3, <1>4, <1>5, <1>6 DEF IInv

-----------------------------------------------------------------------------
(* Steps that write a token. *)

\* A fresh token opens a family no other token is in.
LEMMA FreshFamily ==
    ASSUME IInv, NEW t \in Token, ~Known(t)
    PROVE  /\ FamilyOf(t) \notin epitaph
           /\ \A s \in Token : Known(s) => Family(s) # FamilyOf(t)
<1>1. FamilyOf(t) \notin epitaph
  BY FamilyIds DEF IInv, Lineage
<1>2. ASSUME NEW s \in Token, Known(s)
      PROVE  Family(s) # FamilyOf(t)
  BY <1>2, FamilyIds DEF IInv, Lineage
<1>. QED
  BY <1>1, <1>2

LEMMA SaveKeeps ==
    ASSUME IInv, NEW t \in Token, NEW g \in Grant, Save(t, g)
    PROVE  IInv'
<1>. DEFINE p == [grant |-> g, family |-> FamilyOf(t), parent |-> None]
<1>0. TypeOK /\ ~Known(t) /\ t \notin live /\ g.client \in Client
  BY DEF IInv, TypeOK, Save, Grant
<1>1. /\ p \in Payload /\ p # None
      /\ p.grant = g /\ p.family = FamilyOf(t) /\ p.parent = None
  BY FamilyIds, NonePayloadAssumption DEF Payload
<1>2. /\ record' = [record EXCEPT ![t] = p]
      /\ live' = live \cup {t}
      /\ clientIdx' = [clientIdx EXCEPT ![g.client] = @ \cup {t}]
      /\ grantIdx' = [grantIdx EXCEPT ![g] = @ \cup {t}]
      /\ familyIdx' = [familyIdx EXCEPT ![FamilyOf(t)] = @ \cup {t}]
      /\ tokenFamily' = [tokenFamily EXCEPT ![t] = FamilyOf(t)]
      /\ UNCHANGED <<tomb, epitaph>>
  BY DEF Save
<1>. HIDE DEF p
<1>3. TypeOK'
  BY <1>0, <1>1, <1>2, FamilyIds DEF TypeOK, Known
<1>4. \A s \in Token : record'[s] = IF s = t THEN p ELSE record[s]
  BY <1>0, <1>2 DEF TypeOK
<1>5. IndexSound'
  BY <1>0, <1>1, <1>2, <1>4, FamilyIds DEF IInv, IndexSound, TypeOK, Known, GrantOf, Family
<1>6. LiveAlone'
  <2>. SUFFICES ASSUME NEW s \in live', NEW x \in Token,
                       Known(x)', Family(x)' = Family(s)', Reached(x)', x # s
                PROVE  FALSE
    BY DEF LiveAlone
  <2>1. s \in Token
    BY <1>3, LiveKnown DEF TypeOK
  <2>2. CASE x = t
    BY <1>0, <1>1, <1>2, <1>4, <2>1, <2>2, FreshFamily, LiveKnown DEF Family
  <2>3. CASE s = t
    BY <1>0, <1>1, <1>4, <2>3, FreshFamily DEF Family, Known
  <2>4. CASE x # t /\ s # t
    <3>1. s \in live /\ Known(x) /\ Family(x) = Family(s)
      BY <1>2, <1>4, <2>1, <2>4 DEF Known, Family
    <3>2. GrantOf(x) \in Grant /\ GrantOf(x).client \in Client /\ Family(x) \in FamilyId
      BY <1>0, <3>1, KnownTyped
    <3>3. Reached(x)
      BY <1>0, <1>2, <1>4, <2>4, <3>2 DEF TypeOK, Reached, GrantOf, Family
    <3>. QED
      BY <3>1, <3>3 DEF IInv, LiveAlone
  <2>. QED
    BY <2>2, <2>3, <2>4
<1>7. Lineage'
  <2>1. \A s \in Token : Known(s) => Known(s)'
    BY <1>1, <1>4 DEF Known
  <2>2. ASSUME NEW s \in Token, Known(s)'
        PROVE  Family(s)' = FamilyOf(Family(s)'.of) /\ record'[Family(s)'.of] # None
    BY <1>0, <1>1, <1>4, <2>1, <2>2, FamilyIds, KnownTyped DEF IInv, Lineage, Known, Family
  <2>3. ASSUME NEW s \in Token, Known(s)', record'[s].parent # None
        PROVE  /\ Known(record[s].parent)'
               /\ record'[s] = record[s]
               /\ Family(record[s].parent)' = Family(s)'
               /\ GrantOf(record[s].parent)' = GrantOf(s)'
    <3>1. s # t /\ Known(s) /\ record[s].parent # None
      BY <1>1, <1>4, <2>3 DEF Known
    <3>2. record[s].parent \in Token
      BY <1>0, <3>1, KnownTyped
    <3>. QED
      BY <1>0, <1>4, <3>1, <3>2 DEF IInv, Lineage, Known, Family, GrantOf
  <2>4. \A f \in epitaph' : f.kind = "uuid" => Known(f.of)'
    BY <1>2, <2>1, <1>0 DEF IInv, Lineage, TypeOK, FamilyId
  <2>. QED
    BY <2>2, <2>3, <2>4 DEF Lineage, Known, Family, GrantOf
<1>8. RevokedFamilyHasNoLive'
  BY <1>0, <1>1, <1>2, <1>4, FreshFamily, LiveKnown DEF IInv, RevokedFamilyHasNoLive, Family
<1>9. IndexComplete'
  <2>. SUFFICES ASSUME NEW s \in live'
                PROVE  /\ s \in clientIdx'[GrantOf(s)'.client]
                       /\ s \in grantIdx'[GrantOf(s)']
                       /\ s \in familyIdx'[Family(s)']
                       /\ tokenFamily'[s] = Family(s)'
    BY DEF IndexComplete
  <2>1. CASE s = t
    BY <1>0, <1>1, <1>2, <1>4, <2>1, FamilyIds DEF TypeOK, GrantOf, Family
  <2>2. CASE s # t
    <3>1. s \in live /\ s \in Token /\ Known(s)
      BY <1>0, <1>2, <2>2, LiveKnown
    <3>2. GrantOf(s)' = GrantOf(s) /\ Family(s)' = Family(s)
      BY <1>4, <2>2, <3>1 DEF GrantOf, Family
    <3>3. GrantOf(s) \in Grant /\ GrantOf(s).client \in Client /\ Family(s) \in FamilyId
      BY <1>0, <3>1, KnownTyped
    <3>. QED
      BY <1>0, <1>2, <2>2, <3>1, <3>2, <3>3 DEF IInv, IndexComplete, TypeOK
  <2>. QED
    BY <2>1, <2>2
<1>10. ReplayIsEvident'
  <2>. SUFFICES ASSUME NEW s \in live', NEW x \in Token \ {s},
                       Known(x)', Family(x)' = Family(s)', tomb'[x] # None
                PROVE  tomb'[x] = Dead("Consumed", Family(s)')
    BY DEF ReplayIsEvident
  <2>1. s \in Token
    BY <1>3, LiveKnown DEF TypeOK
  <2>2. x # t /\ s # t
    BY <1>0, <1>1, <1>2, <1>4, <2>1, FreshFamily, LiveKnown DEF Family, Known
  <2>. QED
    BY <1>2, <1>4, <2>1, <2>2 DEF IInv, ReplayIsEvident, Family, Known
<1>. QED
  BY <1>3, <1>5, <1>6, <1>7, <1>8, <1>9, <1>10 DEF IInv

\* The rotation script, whichever way round it is used: p is stored under new,
\* belongs to the family of old, and descends from its kin.
LEMMA ExchangeKeeps ==
    ASSUME IInv, NEW old \in Token, NEW new \in Token, NEW p \in Payload,
           Exchange(old, new, p),
           p.grant = GrantOf(old), p.family = Family(old),
           record' = [record EXCEPT ![new] = p],
           Known(new) => record[new] = p,
           p.parent # None => /\ Known(p.parent)
                              /\ GrantOf(p.parent) = p.grant
                              /\ Family(p.parent) = p.family
    PROVE  IInv'
<1>0. /\ TypeOK /\ old \in live /\ Known(old) /\ p.family \notin epitaph
      /\ p # None /\ p.grant \in Grant /\ p.grant.client \in Client
      /\ p.family \in FamilyId /\ p.parent \in Token \cup {None}
  BY LiveKnown, NonePayloadAssumption
     DEF IInv, Exchange, RotationOutcome, Payload, Grant
<1>1. /\ live' = (live \ {old}) \cup {new}
      /\ clientIdx' = [clientIdx EXCEPT ![p.grant.client] = (@ \ {old}) \cup {new}]
      /\ grantIdx' = [grantIdx EXCEPT ![p.grant] = (@ \ {old}) \cup {new}]
      /\ familyIdx' = [familyIdx EXCEPT ![p.family] = (@ \ {old}) \cup {new}]
      /\ tokenFamily' = [tokenFamily EXCEPT ![old] = NoFamily, ![new] = p.family]
      /\ tomb' = [tomb EXCEPT ![old] = Dead("Consumed", p.family)]
      /\ epitaph' = epitaph
  BY DEF Exchange, Swap, Reindex, Replaced, Consume
<1>2. \A s \in Token : record'[s] = IF s = new THEN p ELSE record[s]
  BY <1>0 DEF TypeOK
<1>3. \A s \in Token : Known(s) => Known(s)' /\ record'[s] = record[s]
  BY <1>0, <1>2 DEF Known
<1>4. TypeOK'
  <2>1. Dead("Consumed", p.family) \in Tombstone
    BY <1>0 DEF Dead, Tombstone, State
  <2>. QED
    BY <1>0, <1>1, <1>2, <2>1 DEF TypeOK, Known
<1>5. IndexSound'
  BY <1>0, <1>1, <1>2, <1>3 DEF IInv, IndexSound, TypeOK, Known, GrantOf, Family
\* Whoever else is live belongs to another family.
<1>6. ASSUME NEW s \in live', s # new
      PROVE  /\ s \in live /\ s \in Token /\ s # old /\ Known(s)
             /\ Family(s) # p.family
  <2>1. s \in live /\ s \in Token /\ s # old /\ Known(s)
    BY <1>0, <1>1, <1>6, LiveKnown
  <2>2. Reached(old)
    BY <1>0 DEF IInv, IndexComplete, Reached
  <2>. QED
    BY <1>0, <2>1, <2>2 DEF IInv, LiveAlone
<1>7. ASSUME NEW x \in Token, x # new, x # old, Known(x), Reached(x)'
      PROVE  Reached(x)
  <2>1. GrantOf(x) \in Grant /\ GrantOf(x).client \in Client /\ Family(x) \in FamilyId
    BY <1>0, <1>7, KnownTyped
  <2>2. GrantOf(x)' = GrantOf(x) /\ Family(x)' = Family(x)
    BY <1>3, <1>7 DEF GrantOf, Family
  <2>. QED
    BY <1>0, <1>1, <1>7, <2>1, <2>2 DEF Reached, TypeOK
<1>8. LiveAlone'
  <2>. SUFFICES ASSUME NEW s \in live', NEW x \in Token,
                       Known(x)', Family(x)' = Family(s)', Reached(x)', x # s
                PROVE  FALSE
    BY DEF LiveAlone
  <2>1. CASE s = new
    <3>1. Known(x) /\ Family(x) = p.family /\ x # new
      BY <1>2, <2>1 DEF Known, Family
    <3>2. CASE x = old
      BY <1>0, <1>1, <1>3, <3>1, <3>2 DEF Reached, TypeOK, GrantOf, Family
    <3>3. CASE x # old
      BY <1>0, <1>7, <3>1, <3>3 DEF IInv, LiveAlone
    <3>. QED
      BY <3>2, <3>3
  <2>2. CASE s # new
    <3>1. s \in live /\ s \in Token /\ Known(s) /\ Family(s) # p.family
          /\ Family(s)' = Family(s)
      BY <1>3, <1>6, <2>2 DEF Family
    <3>2. x # new /\ x # old /\ Known(x) /\ Family(x) = Family(s)
      BY <1>0, <1>2, <3>1 DEF Known, Family
    <3>. QED
      BY <1>7, <3>1, <3>2 DEF IInv, LiveAlone
  <2>. QED
    BY <2>1, <2>2
<1>9. Lineage'
  <2>1. ASSUME NEW s \in Token, Known(s)'
        PROVE  \E u \in Token : /\ Known(u) /\ Family(u) = Family(s)'
    BY <1>0, <1>2, <2>1 DEF Known, Family
  <2>2. ASSUME NEW s \in Token, Known(s)'
        PROVE  Family(s)' = FamilyOf(Family(s)'.of) /\ record'[Family(s)'.of] # None
    BY <1>0, <1>3, <2>1, <2>2, KnownTyped DEF IInv, Lineage, Known
  <2>3. ASSUME NEW s \in Token, Known(s)', record'[s].parent # None
        PROVE  /\ Known(record'[s].parent)
               /\ record'[s].parent \in Token
               /\ GrantOf(record'[s].parent) = GrantOf(s)'
               /\ Family(record'[s].parent) = Family(s)'
    <3>1. CASE s = new
      BY <1>0, <1>2, <2>3, <3>1 DEF GrantOf, Family
    <3>2. CASE s # new
      BY <1>0, <1>2, <2>3, <3>2, KnownTyped DEF IInv, Lineage, Known, GrantOf, Family
    <3>. QED
      BY <3>1, <3>2
  <2>4. \A f \in epitaph' : f.kind = "uuid" => record'[f.of] # None
    BY <1>0, <1>1, <1>3 DEF IInv, Lineage, TypeOK, FamilyId, Known
  <2>. QED
    BY <1>3, <2>2, <2>3, <2>4 DEF Lineage, Known, Family, GrantOf
<1>10. RevokedFamilyHasNoLive'
  <2>. SUFFICES ASSUME NEW s \in live'
                PROVE  Family(s)' \notin epitaph
    BY <1>1 DEF RevokedFamilyHasNoLive
  <2>. QED
    BY <1>0, <1>2, <1>3, <1>6 DEF IInv, RevokedFamilyHasNoLive, Family
<1>11. IndexComplete'
  <2>. SUFFICES ASSUME NEW s \in live'
                PROVE  /\ s \in clientIdx'[GrantOf(s)'.client]
                       /\ s \in grantIdx'[GrantOf(s)']
                       /\ s \in familyIdx'[Family(s)']
                       /\ tokenFamily'[s] = Family(s)'
    BY DEF IndexComplete
  <2>1. CASE s = new
    BY <1>0, <1>1, <1>2, <2>1 DEF TypeOK, GrantOf, Family
  <2>2. CASE s # new
    <3>1. s \in live /\ s \in Token /\ s # old /\ Known(s)
      BY <1>6, <2>2
    <3>2. GrantOf(s)' = GrantOf(s) /\ Family(s)' = Family(s)
      BY <1>3, <3>1 DEF GrantOf, Family
    <3>3. GrantOf(s) \in Grant /\ GrantOf(s).client \in Client /\ Family(s) \in FamilyId
      BY <1>0, <3>1, KnownTyped
    <3>. QED
      BY <1>0, <1>1, <2>2, <3>1, <3>2, <3>3 DEF IInv, IndexComplete, TypeOK
  <2>. QED
    BY <2>1, <2>2
<1>12. ReplayIsEvident'
  <2>. SUFFICES ASSUME NEW s \in live', NEW x \in Token \ {s},
                       Known(x)', Family(x)' = Family(s)', tomb'[x] # None
                PROVE  tomb'[x] = Dead("Consumed", Family(s)')
    BY DEF ReplayIsEvident
  <2>1. CASE s = new
    <3>1. Known(x) /\ Family(x) = p.family /\ Family(s)' = p.family
      BY <1>2, <2>1 DEF Known, Family
    <3>. QED
      BY <1>0, <1>1, <3>1 DEF IInv, ReplayIsEvident, TypeOK
  <2>2. CASE s # new
    <3>1. s \in live /\ s \in Token /\ Known(s) /\ Family(s) # p.family
          /\ Family(s)' = Family(s)
      BY <1>3, <1>6, <2>2 DEF Family
    <3>2. x # new /\ x # old /\ Known(x) /\ Family(x) = Family(s)
      BY <1>0, <1>2, <3>1 DEF Known, Family
    <3>. QED
      BY <1>1, <3>1, <3>2 DEF IInv, ReplayIsEvident
  <2>. QED
    BY <2>1, <2>2
<1>. QED
  BY <1>4, <1>5, <1>8, <1>9, <1>10, <1>11, <1>12 DEF IInv

LEMMA RotateKeeps ==
    ASSUME IInv, NEW old \in Token, NEW new \in Token, Rotate(old, new)
    PROVE  IInv'
<1>. DEFINE p == [record[old] EXCEPT !.parent = old]
<1>1. TypeOK /\ Known(old) /\ record[old] \in Payload
  BY KnownTyped DEF IInv, Rotate
<1>2. /\ p \in Payload /\ p.grant = GrantOf(old) /\ p.family = Family(old)
      /\ p.parent = old
  BY <1>1 DEF Payload, GrantOf, Family
<1>3. ~Known(new) /\ Exchange(old, new, p) /\ record' = [record EXCEPT ![new] = p]
  BY DEF Rotate
<1>. HIDE DEF p
<1>. QED
  BY <1>1, <1>2, <1>3, ExchangeKeeps

LEMMA RollbackKeeps ==
    ASSUME IInv, NEW issued \in Token, Rollback(issued)
    PROVE  IInv'
<1>. DEFINE parent == record[issued].parent
<1>1. TypeOK /\ Known(issued) /\ parent # None /\ parent \in Token
  BY KnownTyped DEF IInv, Rollback
<1>2. /\ Known(parent) /\ record[parent] \in Payload
      /\ record[parent].grant = GrantOf(issued)
      /\ record[parent].family = Family(issued)
  BY <1>1, KnownTyped DEF IInv, Lineage, GrantOf, Family
<1>3. record[parent].parent # None =>
        /\ Known(record[parent].parent)
        /\ GrantOf(record[parent].parent) = record[parent].grant
        /\ Family(record[parent].parent) = record[parent].family
  BY <1>1, <1>2 DEF IInv, Lineage, GrantOf, Family
<1>4. Exchange(issued, parent, record[parent]) /\ record' = [record EXCEPT ![parent] = record[parent]]
  BY <1>1 DEF Rollback, TypeOK
<1>. HIDE DEF parent
<1>. QED
  BY <1>1, <1>2, <1>3, <1>4, ExchangeKeeps

-----------------------------------------------------------------------------
(* The theorems. *)

LEMMA InitIInv == Init => IInv
BY NonePayloadAssumption
   DEF Init, IInv, TypeOK, RevokedFamilyHasNoLive, IndexComplete, IndexSound,
       LiveAlone, Lineage, ReplayIsEvident, Known

LEMMA NextIInv == IInv /\ [Next]_vars => IInv'
<1>. SUFFICES ASSUME IInv, [Next]_vars
              PROVE  IInv'
  OBVIOUS
<1>1. CASE UNCHANGED vars
  BY <1>1 DEF vars, indices, IInv, TypeOK, RevokedFamilyHasNoLive, IndexComplete,
       IndexSound, LiveAlone, Lineage, ReplayIsEvident, Reached, Known, GrantOf, Family
<1>2. CASE \E t \in Token, g \in Grant : Save(t, g)
  BY <1>2, SaveKeeps
<1>3. CASE \E old, new \in Token : Rotate(old, new)
  BY <1>3, RotateKeeps
<1>4. CASE \E t \in Token : Rollback(t)
  BY <1>4, RollbackKeeps
<1>5. CASE \E t \in Token : Remove(t)
  BY <1>5, RemoveKeeps
<1>6. CASE \E t \in Token : Take(t)
  BY <1>6, TakeKeeps
<1>7. CASE \E t \in Token : Revoke(t, "FamilyRevoked") \/ Revoke(t, "ExplicitRevoke")
  BY <1>7, RevokeKeeps DEF State
<1>8. CASE \E g \in Grant : RevokeGrantBatch(g)
  BY <1>8, RevokeGrantBatchKeeps
<1>9. CASE \E c \in Client : RevokeClientBatch(c)
  BY <1>9, RevokeClientBatchKeeps
<1>10. CASE \E t \in Token : Expire(t)
  BY <1>10, ExpireKeeps
<1>11. CASE \E t \in Token : ExpireTombstone(t)
  BY <1>11, ExpireTombstoneKeeps
<1>. QED
  BY <1>1, <1>2, <1>3, <1>4, <1>5, <1>6, <1>7, <1>8, <1>9, <1>10, <1>11 DEF Next

\* Every reachable store satisfies the inductive invariant.
THEOREM Invariance == Spec => []IInv
BY InitIInv, NextIInv, PTL DEF Spec

\* The store has its types, whatever the scripts and the clock do.
THEOREM TypeCorrect == Spec => []TypeOK
<1>1. IInv => TypeOK
  BY DEF IInv
<1>. QED
  BY <1>1, Invariance, PTL

\* A family never has two exchangeable tokens: rotation and its roll-back
\* replace one token by another (#290).
THEOREM OneLive == Spec => []OneLivePerFamily
<1>1. IInv => OneLivePerFamily
  <2>. SUFFICES ASSUME IInv, NEW s \in live, NEW t \in live, Family(s) = Family(t)
                PROVE  s = t
    BY DEF OneLivePerFamily
  <2>1. t \in Token /\ Known(t) /\ Reached(t)
    BY LiveKnown DEF IInv, IndexComplete, Reached
  <2>. QED
    BY <2>1 DEF IInv, LiveAlone
<1>. QED
  BY <1>1, Invariance, PTL

\* A revoked family has no exchangeable token, for any order of rotations,
\* roll-backs and revocations (#295, #418).
THEOREM RevokedIsDead == Spec => []RevokedFamilyHasNoLive
<1>1. IInv => RevokedFamilyHasNoLive
  BY DEF IInv
<1>. QED
  BY <1>1, Invariance, PTL

\* No index ever loses a live token: a revocation by client, grant or family
\* reaches them all.
THEOREM IndicesReachAll == Spec => []IndexComplete
<1>1. IInv => IndexComplete
  BY DEF IInv
<1>. QED
  BY <1>1, Invariance, PTL

\* While a family has a live token, what tombstones it has denounce a replay of
\* every other token of the family.
THEOREM EvidenceIsSound == Spec => []ReplayIsEvident
<1>1. IInv => ReplayIsEvident
  BY DEF IInv
<1>. QED
  BY <1>1, Invariance, PTL

\* A step erases the tombstone of a token whose family has another live token
\* only when the tombstone's time is up.
LEMMA StepKeepsEvidence ==
    ASSUME IInv, Next, NEW t \in Token, tomb[t] # None, tomb'[t] = None,
           NEW s \in live \ {t}, Family(s) = Family(t)
    PROVE  ExpireTombstone(t)
<1>0. TypeOK /\ tomb \in [Token -> Tombstone \cup {None}]
  BY DEF IInv, TypeOK
<1>1. \A state \in State, f \in FamilyId \cup {NoFamily} : Dead(state, f) # None
  BY NoneTombstoneAssumption DEF Dead, Tombstone
<1>2. CASE tomb' = tomb
  BY <1>2
<1>3. CASE \E old \in live, f \in FamilyId : tomb' = [tomb EXCEPT ![old] = Dead("Consumed", f)]
  BY <1>0, <1>1, <1>3 DEF TypeOK, State
<1>4. CASE \E B \in SUBSET Token, state \in State, f \in FamilyId \cup {NoFamily} :
             tomb' = [x \in Token |-> IF x \in B THEN Dead(state, f) ELSE tomb[x]]
  BY <1>0, <1>1, <1>4
<1>6. CASE \E x \in Token, g \in Grant : Save(x, g)
  BY <1>2, <1>6 DEF Save
<1>7. ASSUME NEW old \in Token, NEW new \in Token, NEW p \in Payload, Exchange(old, new, p)
      PROVE  ExpireTombstone(t)
  <2>1. old \in live /\ p.family \in FamilyId
    BY <1>7 DEF Exchange, RotationOutcome, Payload
  <2>. QED
    BY <1>3, <1>7, <2>1 DEF Exchange, Consume
<1>8. ASSUME NEW old \in Token, NEW new \in Token, Rotate(old, new)
      PROVE  ExpireTombstone(t)
  <2>1. [record[old] EXCEPT !.parent = old] \in Payload
    BY <1>0, <1>8, KnownTyped DEF Rotate, Payload
  <2>. QED
    BY <1>7, <1>8, <2>1 DEF Rotate
<1>9. ASSUME NEW issued \in Token, Rollback(issued)
      PROVE  ExpireTombstone(t)
  <2>1. record[issued].parent \in Token /\ record[record[issued].parent] \in Payload
    BY <1>0, <1>9, KnownTyped DEF Rollback, IInv, Lineage
  <2>. QED
    BY <1>7, <1>9, <2>1 DEF Rollback
<1>10. CASE \E x \in Token : Remove(x) \/ Expire(x)
  BY <1>2, <1>10 DEF Remove, Expire
<1>11. CASE \E x \in Token : Take(x)
  BY <1>0, <1>3, <1>11, LiveKnown, KnownTyped DEF Take
<1>12. ASSUME NEW x \in Token, NEW state \in State, Revoke(x, state)
       PROVE  ExpireTombstone(t)
  <2>1. Known(x) /\ Family(x) \in FamilyId /\ LegacyScope(x) \in FamilyId
    BY <1>0, <1>12, KnownTyped, FamilyIds DEF Revoke
  <2>2. PICK scope \in FamilyId : RevokeFamily(scope, GrantOf(x), x, state)
    BY <1>12, <2>1 DEF Revoke
  <2>3. Doomed(scope, x) \subseteq Token
    BY DoomedBelong
  <2>. QED
    BY <1>4, <2>2, <2>3 DEF RevokeFamily
<1>13. CASE \E g \in Grant : RevokeGrantBatch(g)
  <2>1. PICK g \in Grant : \E B \in SUBSET grantIdx[g] :
          tomb' = [x \in Token |-> IF x \in B THEN Dead("ExplicitRevoke", NoFamily)
                                             ELSE tomb[x]]
    BY <1>13 DEF RevokeGrantBatch, Batches
  <2>2. grantIdx[g] \subseteq Token
    BY <1>0 DEF TypeOK
  <2>. QED
    BY <1>4, <2>1, <2>2 DEF State
<1>14. CASE \E c \in Client : RevokeClientBatch(c)
  <2>1. PICK c \in Client : \E B \in SUBSET clientIdx[c] :
          tomb' = [x \in Token |-> IF x \in B THEN None ELSE tomb[x]]
    BY <1>14 DEF RevokeClientBatch, Batches
  <2>2. t \in clientIdx[c]
    BY <1>0, <2>1 DEF TypeOK
  <2>3. Known(t) /\ Reached(t)
    BY <2>2 DEF IInv, IndexSound, Reached
  <2>. QED
    BY <2>3 DEF IInv, LiveAlone
<1>15. CASE \E x \in Token : ExpireTombstone(x)
  <2>1. PICK x \in Token : ExpireTombstone(x)
    BY <1>15
  <2>2. x = t
    BY <1>0, <2>1 DEF ExpireTombstone
  <2>. QED
    BY <2>1, <2>2
<1>. QED
  BY <1>6, <1>8, <1>9, <1>10, <1>11, <1>12, <1>13, <1>14, <1>15 DEF Next, State

\* No script erases the evidence against a token whose family lives on (#356).
THEOREM EvidenceKept == Spec => EvidenceIsKept
<1>1. IInv /\ [Next]_vars =>
        [\A t \in Token :
            (/\ tomb[t] # None
             /\ tomb'[t] = None
             /\ \E s \in live \ {t} : Family(s) = Family(t))
                => ExpireTombstone(t)]_vars
  BY StepKeepsEvidence
<1>. QED
  BY <1>1, Invariance, PTL DEF Spec, EvidenceIsKept

-----------------------------------------------------------------------------
(* RefreshStore implements RefreshFamilies.  A step that writes a token     *)
(* opens or moves a family; any other step clears the current token of a    *)
(* set of families.  First: the current token of a family.                  *)

LEMMA CurrentIsLive ==
    ASSUME IInv, NEW t \in live
    PROVE  Family(t) \in FamilyId /\ Current[Family(t)] = t
<1>1. Known(t) /\ t \in Token /\ Family(t) \in FamilyId
  BY LiveKnown, KnownTyped DEF IInv
<1>2. \A s \in live : Family(s) = Family(t) => s = t
  <2>1. Reached(t)
    BY <1>1 DEF IInv, IndexComplete, Reached
  <2>. QED
    BY <1>1, <2>1 DEF IInv, LiveAlone
<1>. QED
  BY <1>1, <1>2 DEF Current

LEMMA NoCurrent ==
    ASSUME NEW f \in FamilyId, \A t \in live : Family(t) # f
    PROVE  Current[f] = None
BY DEF Current

\* The same in the state after a step.
LEMMA CurrentIsLiveNext ==
    ASSUME IInv', NEW t \in live'
    PROVE  Family(t)' \in FamilyId /\ Current'[Family(t)'] = t
<1>1. Known(t)' /\ t \in Token /\ Family(t)' \in FamilyId
  BY DEF IInv, TypeOK, Known, Family, Payload
<1>2. \A s \in live' : Family(s)' = Family(t)' => s = t
  <2>1. Reached(t)'
    BY <1>1 DEF IInv, IndexComplete, Reached
  <2>. QED
    BY <1>1, <2>1 DEF IInv, LiveAlone
<1>. QED
  BY <1>1, <1>2 DEF Current

LEMMA NoCurrentNext ==
    ASSUME NEW f \in FamilyId, \A t \in live' : Family(t)' # f
    PROVE  Current'[f] = None
BY DEF Current

LEMMA CurrentExtensional ==
    ASSUME NEW c \in [FamilyId -> Token \cup {None}],
           \A f \in FamilyId : Current'[f] = c[f]
    PROVE  Current' = c
BY DEF Current

LEMMA CurrentTyped == IInv => Current \in [FamilyId -> Token \cup {None}]
<1>. SUFFICES ASSUME IInv, NEW f \in FamilyId
              PROVE  Current[f] \in Token \cup {None}
  BY DEF Current
<1>1. CASE \E t \in live : Family(t) = f
  BY <1>1, CurrentIsLive, LiveKnown DEF IInv
<1>2. CASE ~\E t \in live : Family(t) = f
  BY <1>2, NoCurrent
<1>. QED
  BY <1>1, <1>2

-----------------------------------------------------------------------------
(* Steps that take tokens away. *)

LEMMA Clearing ==
    ASSUME IInv, IInv', record' = record, live' \subseteq live,
           NEW F \in SUBSET FamilyId,
           \A t \in live \ live' : Family(t) \in F,
           \A t \in live' : Family(t) \notin F
    PROVE  Opened' = Opened /\ Current' = Families!Cleared(F)
<1>1. Opened' = Opened
  BY DEF Opened, Family, Known
<1>2. \A t : Family(t)' = Family(t)
  BY DEF Family
<1>3. ASSUME NEW f \in FamilyId
      PROVE  Current'[f] = IF f \in F THEN None ELSE Current[f]
  <2>1. CASE f \in F
    BY <1>2, <2>1, NoCurrentNext
  <2>2. CASE f \notin F /\ \E t \in live : Family(t) = f
    <3>1. PICK t \in live : Family(t) = f
      BY <2>2
    <3>2. t \in live'
      BY <2>2, <3>1
    <3>. QED
      BY <1>2, <2>2, <3>1, <3>2, CurrentIsLive, CurrentIsLiveNext
  <2>3. CASE f \notin F /\ ~\E t \in live : Family(t) = f
    BY <1>2, <2>3, NoCurrent, NoCurrentNext
  <2>. QED
    BY <2>1, <2>2, <2>3
<1>4. Families!Cleared(F) = [f \in FamilyId |-> IF f \in F THEN None ELSE Current[f]]
  BY DEF Families!Cleared
<1>. QED
  BY <1>1, <1>3, <1>4, CurrentTyped, CurrentExtensional

\* Without a new epitaph, the step loses the families of the tokens it takes.
LEMMA Losing ==
    ASSUME IInv, IInv', record' = record, live' \subseteq live, epitaph' = epitaph
    PROVE  Families!Next
<1>. DEFINE F == {Family(t) : t \in live \ live'}
<1>1. F \in SUBSET FamilyId
  BY CurrentIsLive
<1>2. \A t \in live' : Family(t) \notin F
  BY CurrentIsLive
<1>3. Opened' = Opened /\ Current' = Families!Cleared(F)
  BY <1>1, <1>2, Clearing
<1>. QED
  BY <1>1, <1>3 DEF Families!Next, Families!Lose

LEMMA Revoking ==
    ASSUME IInv, IInv', record' = record, live' \subseteq live,
           NEW F \in SUBSET FamilyId, epitaph' = epitaph \cup F,
           \A t \in live \ live' : Family(t) \in F
    PROVE  Families!Next
<1>1. \A t \in live' : Family(t) \notin F
  BY DEF IInv, RevokedFamilyHasNoLive, Family
<1>2. Opened' = Opened /\ Current' = Families!Cleared(F)
  BY <1>1, Clearing
<1>. QED
  BY <1>2 DEF Families!Next, Families!Revoke

-----------------------------------------------------------------------------
(* Steps that write a token. *)

LEMMA Opening ==
    ASSUME IInv, IInv', NEW t \in Token, NEW g \in Grant, Save(t, g)
    PROVE  Families!Next
<1>0. TypeOK /\ ~Known(t) /\ t \notin live /\ FamilyOf(t) \in FamilyId
  BY FamilyIds DEF IInv, TypeOK, Save
<1>1. /\ \A s \in Token \ {t} : record'[s] = record[s]
      /\ record'[t] # None
      /\ Family(t)' = FamilyOf(t)
      /\ live' = live \cup {t}
      /\ epitaph' = epitaph
  BY <1>0, NonePayloadAssumption, FamilyIds DEF Save, TypeOK, Family, Payload
<1>2. \A s \in Token : Known(s) => s # t /\ Family(s)' = Family(s) /\ Family(s) # FamilyOf(t)
  BY <1>0, <1>1, FreshFamily DEF Family
<1>3. Opened' = Opened \cup {FamilyOf(t)}
  <2>1. {u \in Token : Known(u)}' = {u \in Token : Known(u)} \cup {t}
    BY <1>0, <1>1 DEF Known
  <2>. QED
    BY <1>1, <1>2, <2>1 DEF Opened
<1>4. FamilyOf(t) \notin Opened
  BY <1>2 DEF Opened
<1>5. Current' = [Current EXCEPT ![FamilyOf(t)] = t]
  <2>1. ASSUME NEW f \in FamilyId
        PROVE  Current'[f] = IF f = FamilyOf(t) THEN t ELSE Current[f]
    <3>1. CASE f = FamilyOf(t)
      BY <1>1, <3>1, CurrentIsLiveNext
    <3>2. CASE f # FamilyOf(t) /\ \E s \in live : Family(s) = f
      BY <1>0, <1>1, <1>2, <3>2, LiveKnown, CurrentIsLive, CurrentIsLiveNext
    <3>3. CASE f # FamilyOf(t) /\ ~\E s \in live : Family(s) = f
      BY <1>0, <1>1, <1>2, <3>3, LiveKnown, NoCurrent, NoCurrentNext
    <3>. QED
      BY <3>1, <3>2, <3>3
  <2>. DEFINE c == [Current EXCEPT ![FamilyOf(t)] = t]
  <2>2. /\ c \in [FamilyId -> Token \cup {None}]
        /\ \A f \in FamilyId : c[f] = IF f = FamilyOf(t) THEN t ELSE Current[f]
    BY CurrentTyped
  <2>. HIDE DEF c
  <2>3. Current' = c
    BY <2>1, <2>2, CurrentExtensional
  <2>. QED
    BY <2>3 DEF c
<1>. QED
  BY <1>0, <1>1, <1>3, <1>4, <1>5 DEF Families!Next, Families!Open

LEMMA MovingFamily ==
    ASSUME IInv, IInv', NEW old \in Token, NEW new \in Token, NEW p \in Payload,
           Exchange(old, new, p), p.family = Family(old),
           record' = [record EXCEPT ![new] = p],
           Known(new) => record[new] = p
    PROVE  Families!Next
<1>0. /\ TypeOK /\ old \in live /\ Known(old) /\ p.family \in FamilyId
      /\ p.family \notin epitaph /\ p # None
  BY LiveKnown, NonePayloadAssumption DEF IInv, Exchange, RotationOutcome, Payload
<1>1. /\ \A s \in Token : record'[s] = IF s = new THEN p ELSE record[s]
      /\ live' = (live \ {old}) \cup {new}
      /\ epitaph' = epitaph
      /\ Family(new)' = p.family
  BY <1>0 DEF Exchange, Swap, Replaced, TypeOK, Family
<1>2. \A s \in Token : Known(s) => Family(s)' = Family(s) /\ record'[s] # None
  BY <1>0, <1>1 DEF Known, Family
<1>3. Opened' = Opened
  <2>1. {u \in Token : Known(u)}' = {u \in Token : Known(u)} \cup {new}
    BY <1>0, <1>1, <1>2 DEF Known
  <2>. QED
    BY <1>0, <1>1, <1>2, <2>1 DEF Opened
<1>4. Current[p.family] = old /\ old # None
  BY <1>0, CurrentIsLive, NoneTombstoneAssumption
<1>5. Current' = [Current EXCEPT ![p.family] = new]
  <2>1. ASSUME NEW f \in FamilyId
        PROVE  Current'[f] = IF f = p.family THEN new ELSE Current[f]
    <3>1. CASE f = p.family
      BY <1>1, <3>1, CurrentIsLiveNext
    <3>2. CASE f # p.family /\ \E s \in live : Family(s) = f
      <4>1. PICK s \in live : Family(s) = f
        BY <3>2
      <4>2. s # old /\ s \in live' /\ Family(s)' = f
        BY <1>0, <1>1, <1>2, <3>2, <4>1, LiveKnown
      <4>. QED
        BY <3>2, <4>1, <4>2, CurrentIsLive, CurrentIsLiveNext
    <3>3. CASE f # p.family /\ ~\E s \in live : Family(s) = f
      BY <1>0, <1>1, <1>2, <3>3, LiveKnown, NoCurrent, NoCurrentNext
    <3>. QED
      BY <3>1, <3>2, <3>3
  <2>. DEFINE c == [Current EXCEPT ![p.family] = new]
  <2>2. /\ c \in [FamilyId -> Token \cup {None}]
        /\ \A f \in FamilyId : c[f] = IF f = p.family THEN new ELSE Current[f]
    BY CurrentTyped
  <2>. HIDE DEF c
  <2>3. Current' = c
    BY <2>1, <2>2, CurrentExtensional
  <2>. QED
    BY <2>3 DEF c
<1>. QED
  BY <1>0, <1>1, <1>3, <1>4, <1>5 DEF Families!Next, Families!Move

-----------------------------------------------------------------------------
(* The refinement. *)

LEMMA InitRefines == Init => Families!Init
<1>. SUFFICES ASSUME Init
              PROVE  Families!Init
  OBVIOUS
<1>1. Opened = {}
  BY DEF Init, Opened, Known
<1>2. Current = [f \in FamilyId |-> None]
  BY DEF Init, Current
<1>. QED
  BY <1>1, <1>2 DEF Init, Families!Init

LEMMA NextRefines == IInv /\ IInv' /\ [Next]_vars => [Families!Next]_(Families!vars)
<1>. SUFFICES ASSUME IInv, IInv', [Next]_vars
              PROVE  Families!Next \/ UNCHANGED Families!vars
  OBVIOUS
<1>0. TypeOK
  BY DEF IInv
<1>1. CASE UNCHANGED vars
  BY <1>1 DEF vars, Families!vars, Opened, Current, Family, Known
<1>2. CASE \E t \in Token, g \in Grant : Save(t, g)
  BY <1>2, Opening
<1>3. ASSUME NEW old \in Token, NEW new \in Token, Rotate(old, new)
      PROVE  Families!Next
  <2>. DEFINE p == [record[old] EXCEPT !.parent = old]
  <2>1. p \in Payload /\ p.family = Family(old)
    BY <1>0, <1>3, KnownTyped DEF Rotate, Payload, Family
  <2>2. ~Known(new) /\ Exchange(old, new, p) /\ record' = [record EXCEPT ![new] = p]
    BY <1>3 DEF Rotate
  <2>. HIDE DEF p
  <2>. QED
    BY <2>1, <2>2, MovingFamily
<1>4. ASSUME NEW issued \in Token, Rollback(issued)
      PROVE  Families!Next
  <2>. DEFINE parent == record[issued].parent
  <2>1. Known(issued) /\ parent # None /\ parent \in Token
    BY <1>0, <1>4, KnownTyped DEF Rollback
  <2>2. Known(parent) /\ record[parent] \in Payload /\ record[parent].family = Family(issued)
    BY <1>0, <2>1, KnownTyped DEF IInv, Lineage, Family
  <2>3. /\ Exchange(issued, parent, record[parent])
        /\ record' = [record EXCEPT ![parent] = record[parent]]
    BY <1>0, <1>4, <2>1 DEF Rollback, TypeOK
  <2>. HIDE DEF parent
  <2>. QED
    BY <2>1, <2>2, <2>3, MovingFamily
<1>5. CASE \E t \in Token : Remove(t) \/ Take(t) \/ Expire(t) \/ ExpireTombstone(t)
  BY <1>5, Losing DEF Remove, Take, Expire, ExpireTombstone
<1>6. CASE \E c \in Client : RevokeClientBatch(c)
  BY <1>6, Losing DEF RevokeClientBatch
<1>7. ASSUME NEW t \in Token, NEW state \in State, Revoke(t, state)
      PROVE  Families!Next
  <2>1. Known(t) /\ Family(t) \in FamilyId /\ LegacyScope(t) \in FamilyId
        /\ Family(t) # LegacyScope(t)
    BY <1>0, <1>7, KnownTyped, FamilyIds DEF Revoke, IInv, Lineage
  <2>2. PICK scope \in {Family(t), LegacyScope(t)} :
          /\ RevokeFamily(scope, GrantOf(t), t, state)
          /\ scope = LegacyScope(t) => \A s \in live : Family(s) # Family(t)
    BY <1>7, <2>1 DEF Revoke
  <2>3. /\ record' = record /\ live' = live \ Doomed(scope, t)
        /\ epitaph' = epitaph \cup {scope}
    BY <2>2 DEF RevokeFamily
  <2>4. \A s \in live \ live' : Family(s) = scope
    BY <2>1, <2>2, <2>3, DoomedBelong
  <2>. QED
    BY <2>1, <2>3, <2>4, Revoking
<1>8. ASSUME NEW g \in Grant, RevokeGrantBatch(g)
      PROVE  Families!Next
  <2>1. PICK B \in SUBSET grantIdx[g] :
          /\ live' = live \ B /\ record' = record
          /\ epitaph' = epitaph \cup {ScopeOf(LocatedFamily(t), t) : t \in B}
    BY <1>8 DEF RevokeGrantBatch, Batches
  <2>2. \A t \in B : t \in Token /\ ScopeOf(LocatedFamily(t), t) \in FamilyId
    BY <1>0, LocatedFamilyIsOwn, FamilyIds DEF TypeOK, ScopeOf
  <2>3. \A t \in B : t \in live => ScopeOf(LocatedFamily(t), t) = Family(t)
    BY CurrentIsLive, NoFamilyAssumption DEF LocatedFamily, ScopeOf
  <2>. DEFINE F == {ScopeOf(LocatedFamily(t), t) : t \in B}
  <2>4. /\ F \in SUBSET FamilyId /\ epitaph' = epitaph \cup F
        /\ record' = record /\ live' \subseteq live
        /\ \A t \in live \ live' : Family(t) \in F
    BY <2>1, <2>2, <2>3
  <2>. HIDE DEF F
  <2>. QED
    BY <2>4, Revoking
<1>. QED
  BY <1>1, <1>2, <1>3, <1>4, <1>5, <1>6, <1>7, <1>8 DEF Next, State

\* The store implements RefreshFamilies: whatever the scripts do to keys,
\* indices and tombstones, a family only opens once, moves from one token to
\* the next, and stays dead when it has died.
THEOREM Refinement == Spec => ImplementsFamilies
<1>1. IInv /\ IInv' /\ [Next]_vars => [Families!Next]_(Families!vars)
  BY NextRefines
<1>. QED
  BY <1>1, InitRefines, Invariance, PTL DEF Spec, ImplementsFamilies, Families!Spec

=============================================================================
