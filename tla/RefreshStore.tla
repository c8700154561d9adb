---------------------------- MODULE RefreshStore ----------------------------
(***************************************************************************)
(* The Redis store of refresh tokens: every Lua script of                  *)
(* oauth/refresh_store_scripts.rs is one atomic action.                    *)
(*                                                                         *)
(* A token is stored under its hash.  Beside the primary key the scripts   *)
(* keep three index sets (per client, per grant, per family), a map from   *)
(* token to family, one tombstone per dead token and one epitaph per       *)
(* revoked family.  A grant is a pair of user and client; a family is the  *)
(* chain of tokens that rotation derives from one authorization code.      *)
(*                                                                         *)
(* Payloads carry more than the scripts read; see RefreshExchange for the  *)
(* secret version, session epoch and consent version.  A token written     *)
(* before families existed cannot be exchanged any more (the exchange      *)
(* fails closed on it), so every stored token has a family here; the       *)
(* per-token scope of a tombstone without one is kept.                     *)
(*                                                                         *)
(* Operators that a comment calls a mutant are wrong on purpose: no action *)
(* uses them, they name the bugs the properties were tried against.        *)
(***************************************************************************)
EXTENDS Naturals, FiniteSets

CONSTANTS
    Token,      \* refresh token values the random generator may produce
    User,
    Client,
    BatchSize,  \* members one revocation batch may take (128 in the code)
    NoFamily,   \* the empty family_id
    None        \* an absent key

ASSUME BatchAssumption == BatchSize \in Nat \ {0}

Grant == [user : User, client : Client]

\* A family drawn for the first token of a grant, and the scope of one token
\* that has no family: FamilyScope, "legacy-token:{hash}".
FamilyOf(root) == [kind |-> "uuid", of |-> root]
LegacyScope(t) == [kind |-> "legacy", of |-> t]
FamilyId == [kind : {"uuid", "legacy"}, of : Token]

ASSUME NoFamilyAssumption == NoFamily \notin FamilyId

Payload == [grant : Grant, family : FamilyId, parent : Token \cup {None}]
ASSUME NonePayloadAssumption == None \notin Payload

State == {"Consumed", "ExplicitRevoke", "FamilyRevoked"}
Tombstone == [state : State, family : FamilyId \cup {NoFamily}]
ASSUME NoneTombstoneAssumption == None \notin Tombstone /\ None \notin Token

VARIABLES
    record,       \* payload each token was generated with, None before
    live,         \* tokens whose primary key exists
    tomb,         \* tombstone of each token
    clientIdx,    \* client -> tokens
    grantIdx,     \* grant  -> tokens
    familyIdx,    \* family -> tokens
    tokenFamily,  \* token  -> family, the map that outlives the primary key
    epitaph       \* families marked family_revoked

indices == <<clientIdx, grantIdx, familyIdx, tokenFamily>>
vars == <<record, live, tomb, indices, epitaph>>

GrantOf(t) == record[t].grant
Family(t) == record[t].family
Known(t) == record[t] # None

TypeOK ==
    /\ record \in [Token -> Payload \cup {None}]
    /\ live \subseteq {t \in Token : Known(t)}
    /\ tomb \in [Token -> Tombstone \cup {None}]
    /\ clientIdx \in [Client -> SUBSET Token]
    /\ grantIdx \in [Grant -> SUBSET Token]
    /\ familyIdx \in [FamilyId -> SUBSET Token]
    /\ tokenFamily \in [Token -> FamilyId \cup {NoFamily}]
    /\ epitaph \subseteq FamilyId

Init ==
    /\ record = [t \in Token |-> None]
    /\ live = {}
    /\ tomb = [t \in Token |-> None]
    /\ clientIdx = [c \in Client |-> {}]
    /\ grantIdx = [g \in Grant |-> {}]
    /\ familyIdx = [f \in FamilyId |-> {}]
    /\ tokenFamily = [t \in Token |-> NoFamily]
    /\ epitaph = {}

-----------------------------------------------------------------------------
(* Index maintenance shared by the scripts. *)

\* SREM from the client, grant and family index of p, DEL of the map entry.
Unindex(t, p) ==
    /\ clientIdx' = [clientIdx EXCEPT ![p.grant.client] = @ \ {t}]
    /\ grantIdx' = [grantIdx EXCEPT ![p.grant] = @ \ {t}]
    /\ familyIdx' = [familyIdx EXCEPT ![p.family] = @ \ {t}]
    /\ tokenFamily' = [tokenFamily EXCEPT ![t] = NoFamily]

\* SREM old, SADD new in the three indices, and the map entry.
Replaced(S, old, new) == (S \ {old}) \cup {new}

\* Mutants: the successor is missing from an index.
ReindexWithoutGrant(old, new, p) ==
    /\ clientIdx' = [clientIdx EXCEPT ![p.grant.client] = Replaced(@, old, new)]
    /\ grantIdx' = [grantIdx EXCEPT ![p.grant] = @ \ {old}]
    /\ familyIdx' = [familyIdx EXCEPT ![p.family] = Replaced(@, old, new)]
    /\ tokenFamily' = [tokenFamily EXCEPT ![old] = NoFamily, ![new] = p.family]

ReindexWithoutClient(old, new, p) ==
    /\ clientIdx' = [clientIdx EXCEPT ![p.grant.client] = @ \ {old}]
    /\ grantIdx' = [grantIdx EXCEPT ![p.grant] = Replaced(@, old, new)]
    /\ familyIdx' = [familyIdx EXCEPT ![p.family] = Replaced(@, old, new)]
    /\ tokenFamily' = [tokenFamily EXCEPT ![old] = NoFamily, ![new] = p.family]

Reindex(old, new, p) ==
    /\ clientIdx' = [clientIdx EXCEPT ![p.grant.client] = Replaced(@, old, new)]
    /\ grantIdx' = [grantIdx EXCEPT ![p.grant] = Replaced(@, old, new)]
    /\ familyIdx' = [familyIdx EXCEPT ![p.family] = Replaced(@, old, new)]
    /\ tokenFamily' = [tokenFamily EXCEPT ![old] = NoFamily, ![new] = p.family]

\* The tombstone of a dead token.
Dead(state, family) == [state |-> state, family |-> family]

-----------------------------------------------------------------------------
(* Writes. *)

\* save: the first token of a fresh family.  The script does not look at the
\* epitaph: the family was drawn a moment ago.
Save(t, g) ==
    /\ ~Known(t)
    /\ record' = [record EXCEPT ![t] =
            [grant |-> g, family |-> FamilyOf(t), parent |-> None]]
    /\ live' = live \cup {t}
    /\ clientIdx' = [clientIdx EXCEPT ![g.client] = @ \cup {t}]
    /\ grantIdx' = [grantIdx EXCEPT ![g] = @ \cup {t}]
    /\ familyIdx' = [familyIdx EXCEPT ![FamilyOf(t)] = @ \cup {t}]
    /\ tokenFamily' = [tokenFamily EXCEPT ![t] = FamilyOf(t)]
    /\ UNCHANGED <<tomb, epitaph>>

\* The admission test of the rotation script: the family's epitaph first,
\* then the primary key of the token to replace.  Mutant: the primary key is
\* not looked at.
RotationOutcomeUnchecked(old, p) ==
    IF p.family \in epitaph THEN "FamilyRevoked" ELSE "Rotated"

RotationOutcome(old, p) ==
    IF p.family \in epitaph THEN "FamilyRevoked"
    ELSE IF old \notin live THEN "KeyMissing"
    ELSE "Rotated"

\* Mutant: the new key is written, the old one stays.
SwapKeepingOld(old, new) == live' = live \cup {new}

Swap(old, new) == live' = Replaced(live, old, new)

\* The tombstone of the token replaced.  Mutants: it does not name the family;
\* a roll-back clears the tombstone of the token it restores.
ConsumeNameless(old, new, p) == tomb' = [tomb EXCEPT ![old] = Dead("Consumed", NoFamily)]

ConsumeAndClear(old, new, p) ==
    tomb' = [tomb EXCEPT ![old] = Dead("Consumed", p.family), ![new] = None]

Consume(old, new, p) == tomb' = [tomb EXCEPT ![old] = Dead("Consumed", p.family)]

\* What the rotation script writes once it admits the change of old for new,
\* p being the payload stored under new.
Exchange(old, new, p) ==
    /\ RotationOutcome(old, p) = "Rotated"
    /\ Swap(old, new)
    /\ Reindex(old, new, p)
    /\ Consume(old, new, p)
    /\ UNCHANGED epitaph

\* rotate_if_matches: the successor inherits grant and family.
Rotate(old, new) ==
    /\ Known(old)
    /\ ~Known(new)
    /\ LET p == [record[old] EXCEPT !.parent = old]
       IN  /\ Exchange(old, new, p)
           /\ record' = [record EXCEPT ![new] = p]

\* rollback_rotation: the same script the other way round.  The tombstone of
\* the restored token stays behind.
Rollback(issued) ==
    /\ Known(issued)
    /\ record[issued].parent # None
    /\ Exchange(issued, record[issued].parent, record[record[issued].parent])
    /\ UNCHANGED record

\* remove: delete one token.  The payload is read in a call of its own before
\* the script runs, so the script may find the token already gone.
Remove(t) ==
    /\ Known(t)
    /\ live' = live \ {t}
    /\ Unindex(t, record[t])
    /\ UNCHANGED <<record, tomb, epitaph>>

\* take_if_matches: consume one token and keep the evidence.
Take(t) ==
    /\ t \in live
    /\ live' = live \ {t}
    /\ Unindex(t, record[t])
    /\ tomb' = [tomb EXCEPT ![t] = Dead("Consumed", Family(t))]
    /\ UNCHANGED <<record, epitaph>>

-----------------------------------------------------------------------------
(* Revocation. *)

\* FamilyScope::new and resolve_family_identifier: without a family, a token is
\* a scope of its own.
ScopeOf(family, t) == IF family = NoFamily THEN LegacyScope(t) ELSE family

\* The tokens a family revocation kills.  Mutant: the submitted one alone.
DoomedAlone(scope, submitted) == {submitted}

Doomed(scope, submitted) == familyIdx[scope] \cup {submitted}

\* revoke_family: kills every indexed member, the submitted token, and leaves
\* the epitaph.  The second call on a scope finds the epitaph and does nothing.
RevokeFamily(scope, g, submitted, state) ==
    LET doomed == Doomed(scope, submitted)
    IN  /\ scope \notin epitaph
        /\ live' = live \ doomed
        /\ tomb' = [t \in Token |-> IF t \in doomed THEN Dead(state, scope)
                                                    ELSE tomb[t]]
        /\ clientIdx' = [clientIdx EXCEPT ![g.client] = @ \ doomed]
        /\ grantIdx' = [grantIdx EXCEPT ![g] = @ \ doomed]
        /\ familyIdx' = [familyIdx EXCEPT ![scope] = {}]
        /\ tokenFamily' = [t \in Token |-> IF t \in doomed THEN NoFamily
                                                           ELSE tokenFamily[t]]
        /\ epitaph' = epitaph \cup {scope}
        /\ UNCHANGED record

\* find_family_id of the batch scripts: the payload when the primary key is
\* there, the map after that, a scan of the family indices at last.
LocatedFamily(t) ==
    IF t \in live THEN Family(t)
    ELSE IF tokenFamily[t] # NoFamily THEN tokenFamily[t]
    ELSE IF \E f \in FamilyId : t \in familyIdx[f]
         THEN CHOOSE f \in FamilyId : t \in familyIdx[f]
    ELSE NoFamily

\* SRANDMEMBER: any batch of the largest size allowed.
Batches(S) ==
    {B \in SUBSET S : Cardinality(B) = IF Cardinality(S) < BatchSize
                                       THEN Cardinality(S) ELSE BatchSize}

\* One batch of revoke_grant_tokens.
RevokeGrantBatch(g) ==
    \E B \in Batches(grantIdx[g]) :
        /\ B # {}
        /\ live' = live \ B
        /\ tomb' = [t \in Token |-> IF t \in B THEN Dead("ExplicitRevoke", NoFamily)
                                               ELSE tomb[t]]
        /\ epitaph' = epitaph \cup {ScopeOf(LocatedFamily(t), t) : t \in B}
        /\ familyIdx' = [f \in FamilyId |->
                            familyIdx[f] \ {t \in B : LocatedFamily(t) = f}]
        /\ tokenFamily' = [t \in Token |-> IF t \in B THEN NoFamily
                                                      ELSE tokenFamily[t]]
        /\ clientIdx' = [clientIdx EXCEPT ![g.client] = @ \ B]
        /\ grantIdx' = [grantIdx EXCEPT ![g] = @ \ B]
        /\ UNCHANGED record

\* One batch of revoke_client_tokens: no tombstone, no epitaph, and the grant
\* index is reached through the payload, so a member whose primary key is gone
\* stays in it.
RevokeClientBatch(c) ==
    \E B \in Batches(clientIdx[c]) :
        /\ B # {}
        /\ live' = live \ B
        /\ tomb' = [t \in Token |-> IF t \in B THEN None ELSE tomb[t]]
        /\ familyIdx' = [f \in FamilyId |->
                            familyIdx[f] \ {t \in B : LocatedFamily(t) = f}]
        /\ tokenFamily' = [t \in Token |-> IF t \in B THEN NoFamily
                                                      ELSE tokenFamily[t]]
        /\ grantIdx' = [g \in Grant |->
                           grantIdx[g] \ {t \in B \cap live : GrantOf(t) = g}]
        /\ clientIdx' = [clientIdx EXCEPT ![c] = @ \ B]
        /\ UNCHANGED <<record, epitaph>>

-----------------------------------------------------------------------------
(* Redis itself. *)

\* The primary key reaches its TTL (sliding or absolute deadline) or is
\* evicted.  The indices, the map and the epitaph carry the absolute lifetime
\* and are renewed by every write, so they outlive it.
Expire(t) ==
    /\ t \in live
    /\ live' = live \ {t}
    /\ UNCHANGED <<record, tomb, indices, epitaph>>

\* A tombstone reaches its TTL, the sliding lifetime of a token.
ExpireTombstone(t) ==
    /\ tomb[t] # None
    /\ tomb' = [tomb EXCEPT ![t] = None]
    /\ UNCHANGED <<record, live, indices, epitaph>>

-----------------------------------------------------------------------------

\* A replay or an explicit revocation names the family of the submitted token,
\* read from its payload or its tombstone some time before.  A tombstone that
\* revoke_grant_tokens left has no family and resolves to the token's own scope;
\* by the time there is one to read, the family has no live token.
Revoke(t, state) ==
    /\ Known(t)
    /\ \/ RevokeFamily(Family(t), GrantOf(t), t, state)
       \/ /\ \A s \in live : Family(s) # Family(t)
          /\ RevokeFamily(LegacyScope(t), GrantOf(t), t, state)

Next ==
    \/ \E t \in Token, g \in Grant : Save(t, g)
    \/ \E old, new \in Token : Rotate(old, new)
    \/ \E t \in Token : Rollback(t)
    \/ \E t \in Token : Remove(t)
    \/ \E t \in Token : Take(t)
    \/ \E t \in Token : Revoke(t, "FamilyRevoked")   \* after a replay
    \/ \E t \in Token : Revoke(t, "ExplicitRevoke")  \* /oauth/revoke
    \/ \E g \in Grant : RevokeGrantBatch(g)
    \/ \E c \in Client : RevokeClientBatch(c)
    \/ \E t \in Token : Expire(t)
    \/ \E t \in Token : ExpireTombstone(t)

Spec == Init /\ [][Next]_vars

-----------------------------------------------------------------------------
(* Properties. *)

\* A family never has two tokens that can be exchanged: neither rotation nor
\* its rollback leaves the old token beside the new one (#290).
OneLivePerFamily ==
    \A s, t \in live : Family(s) = Family(t) => s = t

\* No token of a revoked family can be exchanged, whatever rotation was under
\* way when the family was revoked (#295, #418).
RevokedFamilyHasNoLive ==
    \A t \in live : Family(t) \notin epitaph

\* Every index reaches every live token, so that a revocation by client, by
\* grant or by family misses none; the map names the family of each.
IndexComplete ==
    \A t \in live :
        /\ t \in clientIdx[GrantOf(t).client]
        /\ t \in grantIdx[GrantOf(t)]
        /\ t \in familyIdx[Family(t)]
        /\ tokenFamily[t] = Family(t)

\* A family with a live token has told on every other token it ever had: the
\* tombstone of each, as long as it lasts, says Consumed and names the family,
\* so that a second use of the token finds what to revoke.
ReplayIsEvident ==
    \A s \in live : \A t \in Token \ {s} :
        (Known(t) /\ Family(t) = Family(s) /\ tomb[t] # None)
            => tomb[t] = Dead("Consumed", Family(s))

\* Only the passing of its TTL erases the tombstone of a token whose family
\* still has a live token: no script does (#356).
EvidenceIsKept ==
    [][\A t \in Token :
        (/\ tomb[t] # None
         /\ tomb'[t] = None
         /\ \E s \in live \ {t} : Family(s) = Family(t))
            => ExpireTombstone(t)]_vars

-----------------------------------------------------------------------------
(* The inductive invariant behind them, proved in RefreshStoreProofs. *)

\* The indices and the map hold tokens that were issued, where they belong.
IndexSound ==
    /\ \A c \in Client : \A t \in clientIdx[c] : Known(t) /\ GrantOf(t).client = c
    /\ \A g \in Grant : \A t \in grantIdx[g] : Known(t) /\ GrantOf(t) = g
    /\ \A f \in FamilyId : \A t \in familyIdx[f] : Known(t) /\ Family(t) = f
    /\ \A t \in Token : tokenFamily[t] # NoFamily => Known(t) /\ tokenFamily[t] = Family(t)

\* Some index or the map still leads to t.
Reached(t) ==
    \/ t \in clientIdx[GrantOf(t).client]
    \/ t \in grantIdx[GrantOf(t)]
    \/ t \in familyIdx[Family(t)]
    \/ tokenFamily[t] # NoFamily

\* Of a family with a live token, the indices and the map know that token only:
\* what a script finds in them is the live token or belongs to a dead family.
LiveAlone ==
    \A s \in live, t \in Token :
        (Known(t) /\ Family(t) = Family(s) /\ Reached(t)) => t = s

\* Families begin with the token they are named after, and are revoked later;
\* a successor inherits grant and family.
Lineage ==
    /\ \A t \in Token : Known(t) =>
          /\ Family(t) = FamilyOf(Family(t).of)
          /\ Known(Family(t).of)
    /\ \A t \in Token : (Known(t) /\ record[t].parent # None) =>
          /\ Known(record[t].parent)
          /\ Family(record[t].parent) = Family(t)
          /\ GrantOf(record[t].parent) = GrantOf(t)
    /\ \A f \in epitaph : f.kind = "uuid" => Known(f.of)

\* The invariants above with what makes them inductive.
IInv ==
    /\ TypeOK
    /\ RevokedFamilyHasNoLive
    /\ IndexComplete
    /\ IndexSound
    /\ LiveAlone
    /\ Lineage
    /\ ReplayIsEvident

=============================================================================
