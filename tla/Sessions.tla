------------------------------ MODULE Sessions ------------------------------
(***************************************************************************)
(* The browser sessions of one user: the rows PostgreSQL is the authority  *)
(* for (sessions/store/), the outbox that carries their changes to the     *)
(* projection in Redis (sessions/outbox*.rs), and the lookup that turns a  *)
(* cookie into a session and a role (sessions/store/postgres_find.rs).     *)
(*                                                                         *)
(* A transaction that holds its locks from its first read to its commit is *)
(* one action.  The one that does not fit is the delivery of a sync entry: *)
(* it keeps the row lock over a call to Redis, and is several.             *)
(***************************************************************************)
EXTENDS Naturals, FiniteSets

CONSTANTS
    Session,      \* rows of user_sessions; an identity is used once
    Worker,       \* instances that run the outbox worker
    Finder,       \* requests that carry a session cookie
    None,
    SessionFaults,
    MaxSessions,  \* max_concurrent_sessions
    MaxAttempts,  \* SessionOutboxPolicy.max_attempts
    MaxEpoch,     \* bound: session epochs of the user
    MaxSyncs,     \* bound: sync entries of a session
    MaxClaims     \* bound: claims of an outbox entry

SessionFaultKind == {
    "refuse",   \* a call to Redis fails and has no effect
    "lost",     \* a call to Redis takes effect and its reply is lost
    "write",    \* PostgreSQL refuses the terminal write of a delivery
    "slow",     \* a lease of five minutes runs out under a worker that lives
    "crash"}    \* an instance dies in the middle of a delivery

ASSUME SessionFaultsAssumption == SessionFaults \subseteq SessionFaultKind
ASSUME SessionBoundAssumption ==
    {MaxSessions, MaxAttempts, MaxEpoch, MaxSyncs, MaxClaims} \subseteq Nat \ {0}
ASSUME NoSessionAssumption == None \notin Session

VARIABLES
    epoch,      \* users.session_epoch
    enabled,    \* users.status = 'active'
    role,       \* users.role: "user" or "owner"
    row,        \* session -> its row
    outbox,     \* entry   -> its delivery
    keys,       \* sessions whose key exists in Redis
    marker,     \* the revocation epoch in Redis, 0 when there is none
    courier,    \* worker  -> where its delivery is
    finder      \* request -> where its lookup is

userVars == <<epoch, enabled, role>>
storeVars == <<userVars, row, outbox>>
redisVars == <<keys, marker>>
sessionVars == <<storeVars, redisVars, courier, finder>>

\* The entries of session_outbox.  A session is revoked once and an epoch is
\* reached once; the sync entries of a session are numbered.
Sync(s, n) == [op |-> "sync_session", session |-> s, number |-> n]
Revoke(s) == [op |-> "revoke_session", session |-> s, number |-> 0]
RevokeUser(g) == [op |-> "revoke_user", session |-> None, number |-> g]

Entry == {Sync(s, n) : s \in Session, n \in 1..MaxSyncs}
            \cup {Revoke(s) : s \in Session} \cup {RevokeUser(g) : g \in 2..MaxEpoch}

\* A row remembers the role the user had when it was written; that part is the
\* specification's own and no action reads it.
NoRow == [state |-> "none", epoch |-> 0, payload |-> FALSE, syncs |-> 0, role |-> "user"]
NoDelivery == [pc |-> "idle", entry |-> None, claim |-> 0]
NoLookup == [pc |-> "idle", session |-> None, role |-> "user"]

Role == {"user", "owner"}
EntryState == {"none", "ready", "later", "done", "dead", "buried"}
NoEntry == [state |-> "none", claims |-> 0]

SessionTypeOK ==
    /\ epoch \in 1..MaxEpoch /\ enabled \in BOOLEAN /\ role \in Role
    /\ row \in [Session -> [state : {"none", "live", "revoked", "expired"}, epoch : 0..MaxEpoch,
                            payload : BOOLEAN, syncs : 0..MaxSyncs, role : Role]]
    /\ outbox \in [Entry -> [state : EntryState, claims : 0..MaxClaims]]
    /\ keys \subseteq Session
    /\ marker \in 0..MaxEpoch
    /\ courier \in [Worker -> [pc : {"idle", "apply", "set", "delete", "advance", "complete", "fail"},
                               entry : Entry \cup {None}, claim : 0..MaxClaims]]
    /\ finder \in [Finder -> [pc : {"idle", "payload", "recheck", "renew", "found", "absent"},
                              session : Session \cup {None}, role : Role]]

\* A session of before the payload column may be there from the start: its
\* payload is only in Redis.
SessionInit ==
    /\ epoch = 1 /\ enabled = TRUE /\ role = "user"
    /\ \E old \in {{}} \cup {{s} : s \in Session} :
          /\ row = [s \in Session |-> IF s \in old THEN [NoRow EXCEPT !.state = "live", !.epoch = 1]
                                      ELSE NoRow]
          /\ keys = old
    /\ outbox = [e \in Entry |-> NoEntry]
    /\ marker = 0
    /\ courier = [w \in Worker |-> NoDelivery]
    /\ finder = [f \in Finder |-> NoLookup]

MayFail(fault) == fault \in SessionFaults

\* The conditions every query repeats: not revoked, not expired, not idle for too
\* long, of the user's epoch or a later one, and the user is active.
Active(s) == row[s].state = "live" /\ row[s].epoch >= epoch /\ enabled

ActiveSessions == {s \in Session : Active(s)}

\* Mutant: the sync entry reads its row without FOR UPDATE.
LockedByNobody(s) == FALSE

\* The row lock a sync entry holds from its read to the answer of Redis.
Locked(s) == \E w \in Worker : courier[w].pc = "set" /\ courier[w].entry.session = s

\* INSERT INTO session_outbox, in the transaction of the change it announces.
Enqueue(entries) ==
    outbox' = [e \in Entry |-> IF e \in entries THEN [outbox[e] EXCEPT !.state = "ready"]
                               ELSE outbox[e]]

Announce(rows, entries) == row' = rows /\ Enqueue(entries)

Revoked(rows, victims) ==
    [s \in Session |-> IF s \in victims THEN [rows[s] EXCEPT !.state = "revoked"] ELSE rows[s]]

-----------------------------------------------------------------------------
(* Transactions on the rows. *)

\* evict_overflow_sessions: the surplus, oldest first.  created_at comes from the
\* clock of the instance, so which sessions are oldest is left open.
Surplus ==
    LET excess == Cardinality(ActiveSessions) + 1
    IN  {victims \in SUBSET ActiveSessions :
            Cardinality(victims) = IF excess > MaxSessions THEN excess - MaxSessions ELSE 0}

\* save_with_metadata, once its checks have passed: evict, insert, announce.
SaveSession(s) ==
    /\ row[s].state = "none"
    /\ \E victims \in Surplus :
          /\ \A v \in victims : ~Locked(v)
          /\ Announce([Revoked(row, victims) EXCEPT
                          ![s] = [state |-> "live", epoch |-> epoch, payload |-> TRUE,
                                  syncs |-> 1, role |-> role]],
                      {Sync(s, 1)} \cup {Revoke(v) : v \in victims})

\* The external login and the administration bind no epoch (SessionEpochBinding::Current).
Save(s) ==
    /\ enabled
    /\ SaveSession(s)
    /\ UNCHANGED <<userVars, redisVars, courier, finder>>

\* revoke_by_token_hash and revoke_for_user: a row is revoked once, and only then
\* is there something to announce.
RevokeSession(s) ==
    /\ row[s].state \in {"live", "expired"} /\ ~Locked(s)
    /\ Announce(Revoked(row, {s}), {Revoke(s)})
    /\ UNCHANGED <<userVars, redisVars, courier, finder>>

\* revoke_all_for_user_in_transaction.
RevokeAll ==
    LET victims == {s \in Session : row[s].state \in {"live", "expired"}}
    IN  /\ epoch < MaxEpoch
        /\ \A s \in victims : ~Locked(s)
        /\ epoch' = epoch + 1
        /\ Announce(Revoked(row, victims),
                    {RevokeUser(epoch + 1)} \cup {Revoke(s) : s \in victims})

\* revoke_all_for_user, and the role and status writes that revoke with it
\* (users/repository/role_guard.rs).
SignOutEverywhere == RevokeAll /\ UNCHANGED <<enabled, role, redisVars, courier, finder>>

ChangeRole ==
    /\ RevokeAll
    /\ role' \in Role \ {role}
    /\ UNCHANGED <<enabled, redisVars, courier, finder>>

DisableUser ==
    /\ enabled /\ RevokeAll
    /\ enabled' = FALSE
    /\ UNCHANGED <<role, redisVars, courier, finder>>

EnableUser ==
    /\ ~enabled
    /\ enabled' = TRUE
    /\ UNCHANGED <<epoch, role, row, outbox, redisVars, courier, finder>>

\* A session reaches its absolute or its idle limit.  The key was written with a
\* TTL of the time that was left, so it is gone as well.
ExpireSession(s) ==
    /\ row[s].state = "live"
    /\ row' = [row EXCEPT ![s].state = "expired"]
    /\ keys' = keys \ {s}
    /\ UNCHANGED <<userVars, outbox, marker, courier, finder>>

-----------------------------------------------------------------------------
(* The lookup: find_authenticated_with_metadata. *)

Looking(f, place) == finder' = [finder EXCEPT ![f].pc = place]

\* load_active_by_token_hash: liveness and role in one statement, without a lock.
\* Whether the session is due for renewal is a matter of time.
FindReads(f, s) ==
    /\ finder[f].pc = "idle" /\ row[s].state # "none"
    /\ \E due \in BOOLEAN :
          finder' = [finder EXCEPT ![f] =
             [pc |-> CASE ~Active(s) -> "absent"
                       [] Active(s) /\ ~row[s].payload -> "payload"
                       [] Active(s) /\ row[s].payload /\ due -> "renew"
                       [] Active(s) /\ row[s].payload /\ ~due -> "found",
              session |-> s, role |-> role]]
    /\ UNCHANGED <<storeVars, redisVars, courier>>

\* resolve_session_payload: no key and no answer are both "no session".
PayloadReads(f) ==
    /\ finder[f].pc = "payload"
    /\ \/ finder[f].session \in keys /\ Looking(f, "recheck")
       \/ finder[f].session \notin keys /\ Looking(f, "absent")
       \/ MayFail("refuse") /\ Looking(f, "absent")
    /\ UNCHANGED <<storeVars, redisVars, courier>>

\* Mutant: once Redis has answered only the role is looked up again.
RoleReadLater(f) ==
    /\ finder[f].pc = "recheck"
    /\ finder' = [finder EXCEPT ![f].pc = "found", ![f].role = role]
    /\ UNCHANGED <<storeVars, redisVars, courier>>

\* session_still_active, after the call to Redis.
FindRechecks(f) ==
    /\ finder[f].pc = "recheck"
    /\ IF Active(finder[f].session) THEN Looking(f, "found") \/ Looking(f, "renew")
                                    ELSE Looking(f, "absent")
    /\ UNCHANGED <<storeVars, redisVars, courier>>

\* renew_session_activity, under the row lock: the payload moves to PostgreSQL and
\* the new deadline is announced, unless another request did it first.
FindRenews(f) ==
    LET s == finder[f].session IN
    /\ finder[f].pc = "renew" /\ ~Locked(s)
    /\ \/ ~Active(s) /\ Looking(f, "absent") /\ UNCHANGED <<row, outbox>>
       \/ Active(s) /\ Looking(f, "found")
          /\ \/ UNCHANGED <<row, outbox>>
             \/ /\ row[s].syncs < MaxSyncs
                /\ Announce([row EXCEPT ![s].payload = TRUE, ![s].syncs = @ + 1],
                            {Sync(s, row[s].syncs + 1)})
    /\ UNCHANGED <<userVars, redisVars, courier>>

\* The request is answered; another takes its place.
FindAnswers(f) ==
    /\ finder[f].pc \in {"found", "absent"}
    /\ finder' = [finder EXCEPT ![f] = NoLookup]
    /\ UNCHANGED <<storeVars, redisVars, courier>>

-----------------------------------------------------------------------------
(* The outbox worker: process_pending_outbox. *)

Moving(w, place) == courier' = [courier EXCEPT ![w].pc = place]

\* A call to Redis by worker w: it answers, it runs unanswered, or it fails.
Ask(w, Effect, place) ==
    \/ Effect /\ Moving(w, place)
    \/ MayFail("lost") /\ Effect /\ Moving(w, "fail")
    \/ MayFail("refuse") /\ UNCHANGED redisVars /\ Moving(w, "fail")

\* claim_outbox.  The order of the ids decides nothing once two instances claim
\* and a failure puts an entry back, so any ready entry may be next.
Claim(w, e) ==
    /\ courier[w].pc = "idle" /\ outbox[e].state = "ready"
    /\ outbox[e].claims < MaxClaims
    /\ outbox' = [outbox EXCEPT ![e] = [state |-> "later", claims |-> @.claims + 1]]
    /\ courier' = [courier EXCEPT ![w] = [pc |-> "apply", entry |-> e,
                                          claim |-> outbox[e].claims + 1]]
    /\ UNCHANGED <<userVars, row, redisVars, finder>>

\* A delivery of e under its latest claim is still on its way.
InHand(e) == \E w \in Worker : courier[w].entry = e /\ courier[w].claim = outbox[e].claims

\* available_at passes: the end of a lease or of a pause after a failure.
Due(e) ==
    /\ outbox[e].state = "later"
    /\ InHand(e) => MayFail("slow")
    /\ outbox' = [outbox EXCEPT ![e].state = "ready"]
    /\ UNCHANGED <<userVars, row, redisVars, courier, finder>>

\* apply_outbox on sync_session: read the row under FOR UPDATE.
SyncReads(w) ==
    LET s == courier[w].entry.session IN
    /\ courier[w].pc = "apply" /\ courier[w].entry.op = "sync_session"
    /\ ~Locked(s)
    /\ \/ ~Active(s) /\ Ask(w, keys' = keys \ {s} /\ UNCHANGED marker, "complete")
       \/ Active(s) /\ ~row[s].payload /\ Moving(w, "complete") /\ UNCHANGED redisVars
       \/ Active(s) /\ row[s].payload /\ Moving(w, "set") /\ UNCHANGED redisVars
    /\ UNCHANGED <<storeVars, finder>>

\* CONDITIONAL_SESSION_SET, then COMMIT, which gives the row lock back.
SyncSets(w) ==
    LET s == courier[w].entry.session IN
    /\ courier[w].pc = "set"
    /\ Ask(w, /\ keys' = IF marker > row[s].epoch THEN keys ELSE keys \cup {s}
              /\ UNCHANGED marker, "complete")
    /\ UNCHANGED <<storeVars, finder>>

\* apply_outbox on revoke_session.
RevokeDeletes(w) ==
    /\ courier[w].pc = "apply" /\ courier[w].entry.op = "revoke_session"
    /\ Ask(w, keys' = keys \ {courier[w].entry.session} /\ UNCHANGED marker, "complete")
    /\ UNCHANGED <<storeVars, finder>>

\* apply_outbox on revoke_user.  The rows of earlier epochs are a set that no
\* longer grows, so reading them and deleting their keys is one step.
UserDeletes(w) ==
    /\ courier[w].pc = "apply" /\ courier[w].entry.op = "revoke_user"
    /\ Ask(w, /\ keys' = {s \in keys : row[s].epoch >= courier[w].entry.number}
              /\ UNCHANGED marker, "advance")
    /\ UNCHANGED <<storeVars, finder>>

\* ADVANCE_REVOCATION_EPOCH.
UserAdvances(w) ==
    LET g == courier[w].entry.number IN
    /\ courier[w].pc = "advance"
    /\ Ask(w, marker' = (IF marker < g THEN g ELSE marker) /\ UNCHANGED keys, "complete")
    /\ UNCHANGED <<storeVars, finder>>

\* Only the latest claim settles an entry.
Settle(w, state) ==
    LET e == courier[w].entry IN
    /\ outbox' = IF outbox[e].claims = courier[w].claim
                    THEN [outbox EXCEPT ![e].state = state] ELSE outbox
    /\ courier' = [courier EXCEPT ![w] = NoDelivery]

Complete(w) ==
    /\ courier[w].pc = "complete"
    /\ \/ Settle(w, "done")
       \/ /\ MayFail("write") /\ courier[w].claim < MaxClaims
          /\ courier' = [courier EXCEPT ![w] = NoDelivery]
          /\ UNCHANGED outbox
    /\ UNCHANGED <<userVars, row, redisVars, finder>>

\* record_delivery_failure.
RecordFailure(w) ==
    /\ courier[w].pc = "fail"
    /\ Settle(w, IF courier[w].claim >= MaxAttempts THEN "dead" ELSE "later")
    /\ UNCHANGED <<userVars, row, redisVars, finder>>

\* The instance dies; its transaction and its row lock go with it.
CourierCrashes(w) ==
    /\ MayFail("crash") /\ courier[w].pc # "idle"
    /\ outbox[courier[w].entry].claims < MaxClaims
    /\ courier' = [courier EXCEPT ![w] = NoDelivery]
    /\ UNCHANGED <<storeVars, redisVars, finder>>

\* prune_settled_outbox, one row at a time; each kind has its own retention.
PruneEntry(e) ==
    /\ \/ outbox[e].state = "done" /\ outbox' = [outbox EXCEPT ![e] = NoEntry]
       \/ outbox[e].state = "dead" /\ outbox' = [outbox EXCEPT ![e].state = "buried"]
    /\ UNCHANGED <<userVars, row, redisVars, courier, finder>>

Deliver(w) ==
    SyncReads(w) \/ SyncSets(w) \/ RevokeDeletes(w) \/ UserDeletes(w) \/ UserAdvances(w)
        \/ Complete(w) \/ RecordFailure(w)

OutboxNext ==
    \/ \E w \in Worker : Deliver(w) \/ CourierCrashes(w) \/ \E e \in Entry : Claim(w, e)
    \/ \E e \in Entry : Due(e) \/ PruneEntry(e)

RowNext ==
    \/ SignOutEverywhere \/ ChangeRole \/ DisableUser \/ EnableUser
    \/ \E s \in Session : Save(s) \/ RevokeSession(s) \/ ExpireSession(s)

FindNext ==
    \E f \in Finder :
       \/ PayloadReads(f) \/ FindRechecks(f) \/ FindRenews(f) \/ FindAnswers(f)
       \/ \E s \in Session : FindReads(f, s)

SessionNext == RowNext \/ FindNext \/ OutboxNext

SessionSpec == SessionInit /\ [][SessionNext]_sessionVars

-----------------------------------------------------------------------------
(* Properties. *)

\* Once every entry has been delivered, and none was given up, Redis knows no
\* session that was revoked: no order of two workers, no delivery that runs again
\* after its lease and no crash brings a revoked session back (outbox.rs:191).
Delivered == \A e \in Entry : outbox[e].state \in {"none", "done"}

RedisForgets == Delivered => \A s \in keys : row[s].state # "revoked"

\* A lookup never pairs a session with a role the user had not when the session
\* was written: a promotion is no promotion of the cookies of before (#646).
RoleIsNotInherited ==
    \A f \in Finder : finder[f].pc = "found" => finder[f].role = row[finder[f].session].role

=============================================================================
