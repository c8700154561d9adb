--------------------------- MODULE RefreshExchange ---------------------------
(***************************************************************************)
(* The token endpoint's refresh grant (refresh_use_case.rs) and the        *)
(* revocation endpoint (revocation_handler.rs) as concurrent requests over *)
(* the store of RefreshStore, while a user revokes or renews a consent, an *)
(* administrator changes a client secret, and a user's session epoch       *)
(* advances.                                                               *)
(*                                                                         *)
(* A request is a sequence of calls to Redis and PostgreSQL; anything may  *)
(* happen between two of them.  What was read (consent version, outcome of *)
(* a script, family of a tombstone) stays in the request.  Operators that  *)
(* a comment calls a mutant belong to no action, as in RefreshStore.       *)
(***************************************************************************)
EXTENDS RefreshStore

CONSTANTS
    Request,      \* requests, each handled once
    Faults,       \* what may go wrong, a subset of FaultKind
    MaxFamilies,  \* bound: authorization codes exchanged
    MaxSecret,    \* bound: secret versions of a client
    MaxEpoch,     \* bound: session epochs of a user
    MaxConsent    \* bound: consent versions of a grant

FaultKind == {
    "read",     \* a read or an audit write fails, the request sees the error
    "stall",    \* PostgreSQL drops an issuance guard held for too long
    "redis",    \* a script's reply is lost, whether it ran or not
    "crash",    \* the process handling a request dies
    "cleanup",  \* a best-effort clean-up of Redis fails
    "expiry"}   \* primary keys and tombstones reach their TTL

ASSUME FaultsAssumption == Faults \subseteq FaultKind
ASSUME BoundAssumption ==
    {MaxFamilies, MaxSecret, MaxEpoch, MaxConsent} \subseteq Nat \ {0}

VARIABLES
    stamp,      \* token -> secret version, session epoch and consent version
                \* it was issued under (the last is not in the payload)
    disclosed,  \* tokens some client has received
    secret,     \* client -> client_secret_version
    sweeping,   \* clients whose tokens are being deleted, revoke_client_tokens
    swept,      \* client -> last secret version whose sweep ran to its end
    epoch,      \* user   -> users.session_epoch
    consent,    \* grant  -> state_version and revoked_at
    cutting,    \* grants being cut, revoke_grant_tokens
    cut,        \* grant  -> consent version of the last revocation; 0: none
    req         \* request -> where it is and what it has read

worldVars == <<secret, sweeping, swept, epoch, consent, cutting, cut>>
exchangeVars == <<vars, stamp, disclosed, worldVars, req>>

UserOf(t) == GrantOf(t).user

Outcome == {"none", "Rotated", "KeyMissing", "FamilyRevoked", "Error"}

\* Where a request is: the call it makes next.
Place == {"idle", "find", "tombstone", "gate", "epoch", "fence", "rotate",
          "release", "confirmEpoch", "confirmConsent", "audit", "rollback",
          "revoke", "done", "crashed"}

\* How it ended: "ok" carries the successor to the client, "revoked" has put
\* an end to the family, "invalid" found no token and nothing to revoke.
Result == {"none", "ok", "denied", "invalid", "revoked", "restored",
           "notRestorable", "unavailable"}

Idle == [pc |-> "idle", kind |-> "none", client |-> None, secret |-> 0,
         token |-> None, next |-> None, consent |-> 0, guard |-> "none",
         outcome |-> "none", scope |-> NoFamily, result |-> "none"]

ExchangeTypeOK ==
    /\ TypeOK
    /\ stamp \in [Token -> [secret : 0..MaxSecret, epoch : 0..MaxEpoch,
                            consent : 0..MaxConsent]]
    /\ disclosed \subseteq Token
    /\ secret \in [Client -> 1..MaxSecret]
    /\ swept \in [Client -> 0..MaxSecret]
    /\ sweeping \subseteq Client
    /\ epoch \in [User -> 1..MaxEpoch]
    /\ consent \in [Grant -> [version : 1..MaxConsent, revoked : BOOLEAN]]
    /\ cutting \subseteq Grant
    /\ cut \in [Grant -> 0..MaxConsent]
    /\ req \in [Request ->
            [pc : Place, kind : {"none", "exchange", "revocation"},
             client : Client \cup {None}, secret : 0..MaxSecret,
             token : Token \cup {None}, next : Token \cup {None},
             consent : 0..MaxConsent, guard : {"none", "held", "lost"},
             outcome : Outcome, scope : FamilyId \cup {NoFamily},
             result : Result]]

ExchangeInit ==
    /\ Init
    /\ stamp = [t \in Token |-> [secret |-> 0, epoch |-> 0, consent |-> 0]]
    /\ disclosed = {}
    /\ secret = [c \in Client |-> 1]
    /\ sweeping = {}
    /\ swept = [c \in Client |-> 0]
    /\ epoch = [u \in User |-> 1]
    /\ consent = [g \in Grant |-> [version |-> 1, revoked |-> FALSE]]
    /\ cutting = {}
    /\ cut = [g \in Grant |-> 0]
    /\ req = [r \in Request |-> Idle]

-----------------------------------------------------------------------------
(* Moving a request. *)

At(r, place) == req[r].pc = place

Goto(r, place) == req' = [req EXCEPT ![r].pc = place]

\* The request answers; what it read is forgotten.
Ended(q, result) ==
    [Idle EXCEPT !.pc = "done", !.kind = q.kind, !.client = q.client,
                 !.token = q.token, !.next = q.next, !.result = result]

Finish(r, result) == req' = [req EXCEPT ![r] = Ended(@, result)]

\* A call that reads, or fails without any effect on the store.
NoStoreChange == UNCHANGED <<vars, stamp, disclosed, worldVars>>

May(fault) == fault \in Faults

\* A script of the store: it answers; or its reply is lost after it ran; or it
\* never ran.  Script is the effect, Answered and Lost what the request does.
Call(Script, Answered, Lost) ==
    \/ Script /\ Answered
    \/ May("redis") /\ Script /\ Lost
    \/ May("redis") /\ UNCHANGED vars /\ Lost

-----------------------------------------------------------------------------
(* The refresh grant, exchange_refresh_token. *)

\* A client authenticates with its current secret and presents a token that
\* some client has been given.
Start(r, kind, c, t) ==
    /\ At(r, "idle")
    /\ t \in disclosed
    /\ req' = [req EXCEPT ![r] = [Idle EXCEPT !.pc = "find", !.kind = kind,
                  !.client = c, !.secret = secret[c], !.token = t]]
    /\ NoStoreChange

\* find, then the checks that need the payload only: secret version, client.
Find(r) ==
    LET t == req[r].token
        own == GrantOf(t).client = req[r].client
        bound == stamp[t].secret = req[r].secret
    IN  /\ At(r, "find")
        /\ req[r].kind = "exchange"
        /\ \/ t \notin live /\ Goto(r, "tombstone")
           \/ t \in live /\ bound /\ own /\ Goto(r, "gate")
           \/ t \in live /\ ~(bound /\ own) /\ Finish(r, "denied")
        /\ NoStoreChange

\* effective_grant_scopes: the consent must not be revoked; its version is kept.
Gate(r) ==
    LET g == GrantOf(req[r].token)
    IN  /\ At(r, "gate")
        /\ \/ consent[g].revoked /\ Finish(r, "denied")
           \/ /\ ~consent[g].revoked
              /\ req' = [req EXCEPT ![r].pc = "epoch",
                                    ![r].consent = consent[g].version]
        /\ NoStoreChange

\* active_user_epoch against the epoch in the payload.
CheckEpoch(r) ==
    LET t == req[r].token
    IN  /\ At(r, "epoch")
        /\ \/ stamp[t].epoch = epoch[UserOf(t)] /\ Goto(r, "fence")
           \/ stamp[t].epoch # epoch[UserOf(t)] /\ Finish(r, "denied")
        /\ NoStoreChange

\* acquire_issuance_guard: a shared lock on the client row, given only while
\* the secret is the one the request authenticated with.
Fence(r) ==
    LET c == req[r].client
    IN  /\ At(r, "fence")
        /\ \/ /\ secret[c] = req[r].secret
              /\ req' = [req EXCEPT ![r].pc = "rotate", ![r].guard = "held"]
           \/ secret[c] # req[r].secret /\ Finish(r, "denied")
        /\ NoStoreChange

\* What the successor is stamped with: it inherits the epoch of the token and
\* takes the secret version the request authenticated with.  Mutant: the epoch
\* is read again.
SuccessorStampRefreshed(r) ==
    [secret |-> req[r].secret, epoch |-> epoch[UserOf(req[r].token)],
     consent |-> req[r].consent]

SuccessorStamp(r) ==
    [secret |-> req[r].secret, epoch |-> stamp[req[r].token].epoch,
     consent |-> req[r].consent]

\* rotate_if_matches_at.
RotateIfMatches(r) ==
    LET t == req[r].token
        outcome == RotationOutcome(t, record[t])
    IN  /\ At(r, "rotate")
        /\ UNCHANGED <<disclosed, worldVars>>
        /\ \/ \E new \in Token :
                /\ Rotate(t, new)
                /\ stamp' = [stamp EXCEPT ![new] = SuccessorStamp(r)]
                /\ \E o \in {"Rotated"} \cup (IF May("redis") THEN {"Error"} ELSE {}) :
                      req' = [req EXCEPT ![r].pc = "release", ![r].outcome = o,
                                         ![r].next = new]
           \/ /\ outcome # "Rotated"
              /\ req' = [req EXCEPT ![r].pc = "release", ![r].outcome = outcome]
              /\ UNCHANGED <<vars, stamp>>
           \/ /\ May("redis")
              /\ req' = [req EXCEPT ![r].pc = "release", ![r].outcome = "Error"]
              /\ UNCHANGED <<vars, stamp>>

\* Where a request goes when the token was gone by the time of the rotation: it
\* may have been consumed meanwhile.  Mutant: it is just invalid.
VanishedIsInvalid(r) ==
    req' = [req EXCEPT ![r] = Ended(@, "invalid")]

Vanished(r) ==
    req' = [req EXCEPT ![r].pc = "tombstone", ![r].guard = "none"]

\* The issuance guard is released.  When PostgreSQL has dropped it, or the
\* commit fails, a rotation is rolled back and any other outcome is an error.
Release(r) ==
    LET q == req[r]
        go(place) == req' = [req EXCEPT ![r].pc = place, ![r].guard = "none"]
    IN  /\ At(r, "release")
        /\ \/ /\ q.guard = "held"
              /\ \/ q.outcome = "Rotated" /\ go("confirmEpoch")
                 \/ q.outcome = "KeyMissing" /\ Vanished(r)
                 \/ q.outcome = "FamilyRevoked" /\ Finish(r, "invalid")
                 \/ q.outcome = "Error" /\ Finish(r, "unavailable")
           \/ /\ q.guard = "lost" \/ May("read")
              /\ \/ q.outcome = "Rotated" /\ go("rollback")
                 \/ q.outcome # "Rotated" /\ Finish(r, "unavailable")
        /\ NoStoreChange

\* confirm_after_rotation: the epoch again, under the user lock.
ConfirmEpoch(r) ==
    LET t == req[r].token
        same == stamp[t].epoch = epoch[UserOf(t)]
    IN  /\ At(r, "confirmEpoch")
        /\ \/ same /\ Goto(r, "confirmConsent")
           \/ (~same \/ May("read")) /\ Goto(r, "rollback")
        /\ NoStoreChange

\* confirm_consent_after_rotation: the consent row again.
ConsentUnchanged(r) ==
    LET c == consent[GrantOf(req[r].token)]
    IN  ~c.revoked /\ c.version = req[r].consent

\* Mutant: the request answers 503 and leaves the successor behind.
ConfirmConsentOrphaning(r) ==
    /\ At(r, "confirmConsent")
    /\ \/ ConsentUnchanged(r) /\ Goto(r, "audit")
       \/ (~ConsentUnchanged(r) \/ May("read")) /\ Finish(r, "unavailable")
    /\ NoStoreChange

ConfirmConsent(r) ==
    /\ At(r, "confirmConsent")
    /\ \/ ConsentUnchanged(r) /\ Goto(r, "audit")
       \/ (~ConsentUnchanged(r) \/ May("read")) /\ Goto(r, "rollback")
    /\ NoStoreChange

\* The audit record is written, and only then does the response leave.
Audit(r) ==
    /\ At(r, "audit")
    /\ \/ Finish(r, "ok") /\ disclosed' = disclosed \cup {req[r].next}
       \/ May("read") /\ Goto(r, "rollback") /\ UNCHANGED disclosed
    /\ UNCHANGED <<vars, stamp, worldVars>>

\* Mutants: the successor is deleted and nothing restored; the token presented
\* is written back whatever has happened to its family.
RollBackByRemoval(r) ==
    /\ At(r, "rollback")
    /\ Remove(req[r].next)
    /\ Finish(r, "notRestorable")
    /\ UNCHANGED <<stamp, disclosed, worldVars>>

RollBackUnchecked(r) ==
    /\ At(r, "rollback")
    /\ live' = (live \ {req[r].next}) \cup {req[r].token}
    /\ Finish(r, "restored")
    /\ UNCHANGED <<record, tomb, clientIdx, grantIdx, familyIdx, tokenFamily,
                   epitaph, stamp, disclosed, worldVars>>

\* rollback_rotation: the successor is swapped back for the token presented,
\* unless it is gone or the family is revoked.
RollBack(r) ==
    LET q == req[r]
        restorable == RotationOutcome(q.next, record[q.token]) = "Rotated"
    IN  /\ At(r, "rollback")
        /\ \/ restorable /\ Call(Rollback(q.next), Finish(r, "restored"),
                                 Finish(r, "unavailable"))
           \/ ~restorable /\ Call(UNCHANGED vars, Finish(r, "notRestorable"),
                                  Finish(r, "unavailable"))
        /\ UNCHANGED <<stamp, disclosed, worldVars>>

-----------------------------------------------------------------------------
(* A token that is not stored any more, and the revocation endpoint. *)

\* Mutant: any tombstone of the client's own token is a replay.
ReplayedInAnyState(r) == tomb[req[r].token] # None /\ GrantOf(req[r].token).client = req[r].client

\* dispose_by_tombstone for an exchange: only a token its own client has
\* consumed is a replay.
Replayed(r) ==
    LET t == req[r].token
    IN  /\ tomb[t] # None
        /\ GrantOf(t).client = req[r].client
        /\ tomb[t].state = "Consumed"

\* resolve_revocable_grant: any tombstone of the client's own token will do.
Revocable(r) ==
    LET t == req[r].token
    IN  tomb[t] # None /\ GrantOf(t).client = req[r].client

ReadTombstone(r) ==
    LET t == req[r].token
        doomed == IF req[r].kind = "exchange" THEN Replayed(r) ELSE Revocable(r)
    IN  /\ At(r, "tombstone")
        /\ \/ /\ doomed
              /\ req' = [req EXCEPT ![r].pc = "revoke",
                            ![r].scope = ScopeOf(tomb[t].family, t)]
           \/ ~doomed /\ Finish(r, "invalid")
        /\ NoStoreChange

\* try_revoke_refresh_token: a stored token names its family if it is the
\* client's own; another client's token is silently not found.
FindRevocable(r) ==
    LET t == req[r].token
        own == GrantOf(t).client = req[r].client
    IN  /\ At(r, "find")
        /\ req[r].kind = "revocation"
        /\ \/ t \notin live /\ Goto(r, "tombstone")
           \/ t \in live /\ own
              /\ req' = [req EXCEPT ![r].pc = "revoke", ![r].scope = Family(t)]
           \/ t \in live /\ ~own /\ Finish(r, "invalid")
        /\ NoStoreChange

\* revoke_family, after a replay or on request.  Mutant: the error of a script
\* that did not answer is swallowed.
RevokeByScopeUnheard(r) ==
    LET q == req[r]
        state == IF q.kind = "exchange" THEN "FamilyRevoked" ELSE "ExplicitRevoke"
        script == IF q.scope \in epitaph THEN UNCHANGED vars
                  ELSE RevokeFamily(q.scope, GrantOf(q.token), q.token, state)
    IN  /\ At(r, "revoke")
        /\ Call(script, Finish(r, "revoked"), Finish(r, "revoked"))
        /\ UNCHANGED <<stamp, disclosed, worldVars>>

RevokeByScope(r) ==
    LET q == req[r]
        state == IF q.kind = "exchange" THEN "FamilyRevoked" ELSE "ExplicitRevoke"
        script == IF q.scope \in epitaph THEN UNCHANGED vars
                  ELSE RevokeFamily(q.scope, GrantOf(q.token), q.token, state)
    IN  /\ At(r, "revoke")
        /\ Call(script, Finish(r, "revoked"), Finish(r, "unavailable"))
        /\ UNCHANGED <<stamp, disclosed, worldVars>>

-----------------------------------------------------------------------------
(* Failures. *)

\* A read fails before the token is touched: the request answers 503.
GiveUp(r) ==
    /\ May("read")
    /\ req[r].pc \in {"find", "tombstone", "gate", "epoch", "fence"}
    /\ Finish(r, "unavailable")
    /\ NoStoreChange

\* The process dies: locks go with its connections, nothing else is undone.
Crash(r) ==
    /\ May("crash")
    /\ req[r].pc \notin {"idle", "done", "crashed"}
    /\ req' = [req EXCEPT ![r] = [Ended(@, "none") EXCEPT !.pc = "crashed"]]
    /\ NoStoreChange

\* idle_in_transaction_session_timeout: PostgreSQL drops the guard while the
\* request waits for Redis.
LoseGuard(r) ==
    /\ May("stall")
    /\ req[r].guard = "held"
    /\ req' = [req EXCEPT ![r].guard = "lost"]
    /\ NoStoreChange

\* A primary key or a tombstone reaches its TTL.
ReachTTL(t) ==
    /\ May("expiry")
    /\ Expire(t) \/ ExpireTombstone(t)
    /\ UNCHANGED <<stamp, disclosed, worldVars, req>>

-----------------------------------------------------------------------------
(* What happens around the requests. *)

\* An authorization code is exchanged (CodeExchange has the steps): a new
\* family, stamped with the versions of the moment.
IssueGrant(t, g) ==
    /\ Cardinality({s \in Token : Known(s) /\ Family(s) = FamilyOf(s)})
           < MaxFamilies
    /\ ~consent[g].revoked
    /\ Save(t, g)
    /\ stamp' = [stamp EXCEPT ![t] =
            [secret |-> secret[g.client], epoch |-> epoch[g.user],
             consent |-> consent[g].version]]
    /\ disclosed' = disclosed \cup {t}
    /\ UNCHANGED <<worldVars, req>>

\* revoke_authoritative: the consent row is revoked; a second call finds it
\* revoked and returns before any clean-up.
RevokeConsent(g) ==
    /\ ~consent[g].revoked
    /\ consent[g].version < MaxConsent
    /\ consent' = [consent EXCEPT ![g] = [version |-> @.version + 1,
                                          revoked |-> TRUE]]
    /\ cutting' = cutting \cup {g}
    /\ cut' = [cut EXCEPT ![g] = consent[g].version + 1]
    /\ UNCHANGED <<vars, stamp, disclosed, secret, sweeping, swept, epoch, req>>

\* revoke_grant_tokens: one batch after the other until the index is empty.
CutGrant(g) ==
    /\ g \in cutting
    /\ RevokeGrantBatch(g)
    /\ cutting' = IF grantIdx'[g] = {} THEN cutting \ {g} ELSE cutting
    /\ UNCHANGED <<stamp, disclosed, secret, sweeping, swept, epoch, consent, cut, req>>

\* Mutant: the revocation ends with tokens left in the index.
EndCutEarly(g) ==
    /\ g \in cutting
    /\ cutting' = cutting \ {g}
    /\ UNCHANGED <<vars, stamp, disclosed, secret, sweeping, swept, epoch,
                   consent, cut, req>>

\* The first batch finds nothing to do; or the best effort fails.
EndCut(g) ==
    /\ g \in cutting
    /\ grantIdx[g] = {} \/ May("cleanup") \/ May("crash")
    /\ cutting' = cutting \ {g}
    /\ UNCHANGED <<vars, stamp, disclosed, secret, sweeping, swept, epoch,
                   consent, cut, req>>

\* upsert_consent: the user agrees again.
GrantConsent(g) ==
    /\ consent[g].version < MaxConsent
    /\ consent' = [consent EXCEPT ![g] = [version |-> @.version + 1,
                                          revoked |-> FALSE]]
    /\ UNCHANGED <<vars, stamp, disclosed, secret, sweeping, swept, epoch,
                   cutting, cut, req>>

\* update_client_secret_if_version waits for every guard on the row.
RotateSecret(c) ==
    /\ secret[c] < MaxSecret
    /\ \A r \in Request : ~(req[r].client = c /\ req[r].guard = "held")
    /\ secret' = [secret EXCEPT ![c] = @ + 1]
    /\ sweeping' = sweeping \cup {c}
    /\ UNCHANGED <<vars, stamp, disclosed, swept, epoch, consent, cutting, cut, req>>

\* revoke_client_tokens, until the client's index is empty.
SweepClient(c) ==
    /\ c \in sweeping
    /\ RevokeClientBatch(c)
    /\ UNCHANGED <<stamp, disclosed, secret, sweeping, swept, epoch, consent,
                   cutting, cut, req>>

EndSweep(c) ==
    /\ c \in sweeping
    /\ sweeping' = sweeping \ {c}
    /\ \/ clientIdx[c] = {} /\ swept' = [swept EXCEPT ![c] = secret[c]]
       \/ clientIdx[c] # {} /\ (May("cleanup") \/ May("crash")) /\ UNCHANGED swept
    /\ UNCHANGED <<vars, stamp, disclosed, secret, epoch, consent, cutting, cut, req>>

\* A password change, a TOTP reset or a disabled account.
BumpEpoch(u) ==
    /\ epoch[u] < MaxEpoch
    /\ epoch' = [epoch EXCEPT ![u] = @ + 1]
    /\ UNCHANGED <<vars, stamp, disclosed, secret, sweeping, swept, consent,
                   cutting, cut, req>>

-----------------------------------------------------------------------------
Step(r) ==
    \/ Find(r) \/ Gate(r) \/ CheckEpoch(r) \/ Fence(r) \/ RotateIfMatches(r) \/ Release(r)
    \/ ConfirmEpoch(r) \/ ConfirmConsent(r) \/ Audit(r) \/ RollBack(r)
    \/ ReadTombstone(r) \/ FindRevocable(r) \/ RevokeByScope(r)

World ==
    \/ \E t \in Token : ReachTTL(t)
    \/ \E t \in Token, g \in Grant : IssueGrant(t, g)
    \/ \E g \in Grant : RevokeConsent(g) \/ CutGrant(g) \/ EndCut(g) \/ GrantConsent(g)
    \/ \E c \in Client : RotateSecret(c) \/ SweepClient(c) \/ EndSweep(c)
    \/ \E u \in User : BumpEpoch(u)

ExchangeNext ==
    \/ \E r \in Request : Step(r) \/ GiveUp(r) \/ Crash(r) \/ LoseGuard(r)
    \/ \E r \in Request, kind \in {"exchange", "revocation"}, c \in Client, t \in Token :
            Start(r, kind, c, t)
    \/ World

ExchangeSpec == ExchangeInit /\ [][ExchangeNext]_exchangeVars

\* The scheduler runs every request and every clean-up to its end.
LiveSpec ==
    /\ ExchangeSpec
    /\ \A r \in Request : WF_exchangeVars(Step(r))
    /\ \A g \in Grant : WF_exchangeVars(CutGrant(g) \/ EndCut(g))
    /\ \A c \in Client : WF_exchangeVars(SweepClient(c) \/ EndSweep(c))

-----------------------------------------------------------------------------
(* Properties. *)

Exchanges(result) ==
    {r \in Request : req[r].kind = "exchange" /\ req[r].result = result}

\* A token buys one successor at most, however many requests present it at
\* once, fail half-way or put it back.
SingleUse ==
    \A r, s \in Exchanges("ok") : req[r].token = req[s].token => r = s

\* A request that still runs, or that could not know how its script ended.
Responsible(r) ==
    \/ req[r].pc \notin {"idle", "done"}
    \/ May("redis") /\ req[r].result = "unavailable"

\* No successor is left in the store that the client never received (#290):
\* whoever stops after the rotation takes it back.
NoOrphan ==
    \A t \in live : t \in disclosed \/ \E r \in Request : req[r].next = t /\ Responsible(r)

\* A sweep of the client's tokens reaches t.  It takes the tokens issued under
\* the new secret too, as long as it runs.
SweptAway(t) ==
    LET c == GrantOf(t).client
    IN  secret[c] > stamp[t].secret \/ c \in sweeping \/ swept[c] >= stamp[t].secret

\* A failing request does not cost the client its grant: unless the family was
\* revoked or its client's secret changed, the client holds a token that can be
\* exchanged, or a request that will hand one out or put one back is running.
ClientKeepsAToken ==
    \A t \in disclosed :
        \/ Family(t) \in epitaph
        \/ SweptAway(t)
        \/ \E s \in live :
              /\ Family(s) = Family(t)
              /\ \/ s \in disclosed
                 \/ \E r \in Request : req[r].next = s /\ Responsible(r)

\* When one request got a successor for a token, another one that presents the
\* token and is turned away as unknown has put an end to the family, or found
\* an end put to it: reuse is detected in every interleaving.
ReuseIsDetected ==
    \A r \in Exchanges("ok"), s \in Exchanges("invalid") :
        (req[r].token = req[s].token /\ req[s].client = GrantOf(req[s].token).client)
            => Family(req[s].token) \in epitaph

\* A client that is told its token is unknown, or was used before, is left with
\* nothing: no token of the family lives on.  This is how a successor that
\* nobody received comes to its end, because the reply of the rotation was lost
\* or the process died before the response: the client tries the token again,
\* and the refusal takes the successor with it.
NothingOutlivesARefusal ==
    \A r \in Exchanges("invalid") \cup Exchanges("revoked") :
        req[r].client = GrantOf(req[r].token).client
            => \A t \in live : Family(t) # Family(req[r].token)

\* Only a token that another request did rotate is taken for a replay: a
\* revoked, swept or never issued token raises no alarm (#356, #418).
NoFalseAlarm ==
    \A r \in Exchanges("revoked") :
        \E s \in Request \ {r} : req[s].token = req[r].token /\ req[s].next # None

\* When revoke_grant_tokens has run to its end, every token issued under a
\* consent the user has revoked is dead, a rotation or a roll-back that was
\* under way meanwhile included (#418).
DisconnectIsComplete ==
    \A t \in live \cap disclosed :
        GrantOf(t) \in cutting \/ stamp[t].consent > cut[GrantOf(t)]

\* "Disconnect means disconnected, the credential must be deleted": a user who
\* disconnects an application and agrees to it again later does not bring the
\* old tokens back to life.
ReconsentStartsAfresh ==
    \A t \in live \cap disclosed :
        \/ GrantOf(t) \in cutting
        \/ consent[GrantOf(t)].revoked
        \/ stamp[t].consent > cut[GrantOf(t)]

\* When revoke_client_tokens has run to its end, no token issued under an older
\* client secret is alive in a client's hands.
SweepIsComplete ==
    \A t \in live \cap disclosed : stamp[t].secret >= swept[GrantOf(t).client]

\* Rotation does not launder a token: a token that passes the checks of secret
\* version and epoch comes from a family opened under both.
NoLaundering ==
    \A t \in live :
        LET root == stamp[Family(t).of]
        IN  /\ stamp[t].secret = secret[GrantOf(t).client]
                => root.secret = secret[GrantOf(t).client]
            /\ stamp[t].epoch = epoch[UserOf(t)] => root.epoch = epoch[UserOf(t)]

\* Every step is a step of the store: the invariants of RefreshStore hold here.
ImplementsStore == Spec

\* Once the user disconnects, every token from before dies, whatever requests
\* are under way.
DisconnectTakesEffect ==
    \A g \in Grant : \A v \in 1..MaxConsent :
        (cut[g] = v) ~> (\A t \in live : GrantOf(t) = g => stamp[t].consent > v)

=============================================================================
