------------------------ MODULE AuthorizationRequests ------------------------
(***************************************************************************)
(* src/oauth/request_store*.rs: the authorization requests that wait in    *)
(* Redis for a decision of the user.  Each is a key with a lifetime; its   *)
(* name is also in an index of its client and in a global one, keys that   *)
(* expire too and that the capacity is counted by.  A Lua script is one    *)
(* step.  The two keys of the global index are written together and the    *)
(* stored counts are never read: one index stands for each.                *)
(***************************************************************************)
EXTENDS Naturals, FiniteSets, FiniteSetsExt

CONSTANTS
    AuthRequest,    \* request_id, a UUID: saved for the first time once
    Client,
    ClientOf,       \* the client of each request
    Browser,        \* browser sessions, by token hash
    Unbound,        \* no session
    MaxPerClient,   \* max_pending_requests_per_client
    MaxGlobal,      \* max_pending_requests_global
    Lifetimes,      \* values of pending_request_ttl_seconds
    MaxSecond,      \* bound of the time
    MaxRebind       \* bound of cas_revision

All == "all"      \* the index that no client has

ASSUME RequestsAssumption ==
    /\ AuthRequest # {} /\ ClientOf \in [AuthRequest -> Client]
    /\ Unbound \notin Browser /\ All \notin Client
    /\ {MaxPerClient, MaxGlobal, MaxSecond, MaxRebind} \subseteq Nat
    /\ Lifetimes \subseteq Nat \ {0} /\ Lifetimes # {}

VARIABLES
    second,         \* the time of Redis
    lifetime,       \* the setting
    saved,          \* request -> its key
    index           \* client or "all" -> its index

requestVars == <<second, lifetime, saved, index>>

NoIndex == [ids |-> {}, ends |-> 0]
New == [state |-> "new", revision |-> 0, session |-> Unbound, ends |-> 0]

RequestsInit ==
    /\ second = 0 /\ lifetime \in Lifetimes
    /\ saved = [r \in AuthRequest |-> New]
    /\ index = [i \in Client \cup {All} |-> NoIndex]

Kept(r) == saved[r].state = "kept"

\* Mutant: EXPIRE as Redis has it, which also shortens.
Overwrites(old, new) == new

\* expire_at_least
AtLeast(old, new) == IF old < new THEN new ELSE old

\* An index that loses its last name is deleted.
Named(ids, ends) == IF ids = {} THEN NoIndex ELSE [ids |-> ids, ends |-> ends]

\* release: the name leaves both indices, which live on for the lifetime of now.
Released(r) ==
    [i \in DOMAIN index |->
        IF i \in {ClientOf[r], All}
        THEN Named(index[i].ids \ {r}, AtLeast(index[i].ends, second + lifetime))
        ELSE index[i]]

\* PENDING_CAPACITY_SCRIPT, up to the count: names without a key are released, and
\* the indices of what is left live as long as that.
Lapsed(r) == {q \in index[ClientOf[r]].ids \cup index[All].ids : ~Kept(q)}

Swept(r, ttl) ==
    LET mine == {ClientOf[r], All}
        stay == {saved[q].ends : q \in index[ClientOf[r]].ids \ Lapsed(r)}
    IN [i \in DOMAIN index |->
            Named(index[i].ids \ Lapsed(r),
                  CASE i \in mine -> AtLeast(index[i].ends, Max(stay \cup {second + ttl}))
                    [] i \notin mine /\ index[i].ids \cap Lapsed(r) # {} ->
                            AtLeast(index[i].ends, second + ttl)
                    [] OTHER -> index[i].ends)]

Fits(r) ==
    /\ Cardinality(index[ClientOf[r]].ids \ Lapsed(r)) < MaxPerClient
    /\ Cardinality(index[All].ids \ Lapsed(r)) < MaxGlobal

\* save_limited: the key and both names, where there is room.
Keep(r, revision, session, ttl) ==
    /\ ~Kept(r) /\ Fits(r)
    /\ saved' = [saved EXCEPT ![r] =
           [state |-> "kept", revision |-> revision, session |-> session, ends |-> second + ttl]]
    /\ index' = [i \in DOMAIN index |->
           IF i \in {ClientOf[r], All}
           THEN [ids |-> Swept(r, ttl)[i].ids \cup {r},
                 ends |-> AtLeast(Swept(r, ttl)[i].ends, second + ttl)]
           ELSE Swept(r, ttl)[i]]

NoRoom(r, ttl) == ~Kept(r) /\ ~Fits(r) /\ index' = Swept(r, ttl) /\ UNCHANGED saved

\* Mutant: only the natural key is compared.
SameRequest(r, revision) == Kept(r)

\* same_cas_identity
SameIdentity(r, revision) == Kept(r) /\ saved[r].revision = revision

\* PENDING_TAKE_IF_MATCHES_SCRIPT, of a request read at this revision.
TakeRequest(r, revision) ==
    /\ SameIdentity(r, revision)
    /\ saved' = [saved EXCEPT ![r].state = "taken"]
    /\ index' = Released(r)

\* Neither script finds it: it is gone, or another one by now.
Misses(r, revision) ==
    /\ ~SameIdentity(r, revision)
    /\ index' = IF Kept(r) THEN index ELSE Released(r)
    /\ UNCHANGED saved

\* PENDING_REPLACE_SCRIPT: a request that the index lost needs room again.
Replace(r, revision, session) ==
    /\ SameIdentity(r, revision) /\ revision < MaxRebind
    /\ r \in index[All].ids \/
           /\ Cardinality(index[ClientOf[r]].ids) < MaxPerClient
           /\ Cardinality(index[All].ids) < MaxGlobal
    /\ saved' = [saved EXCEPT ![r].revision = @ + 1, ![r].session = session]
    /\ index' = [i \in DOMAIN index |->
           IF i \in {ClientOf[r], All}
           THEN [ids |-> index[i].ids \cup {r}, ends |-> AtLeast(index[i].ends, second + lifetime)]
           ELSE index[i]]

\* authorize_request, save_and_redirect_to_ui: the request is saved for the session
\* the browser has, if any.
Authorize(r, session) ==
    /\ saved[r].state = "new"
    /\ Keep(r, 0, session, lifetime) \/ NoRoom(r, lifetime)
    /\ UNCHANGED <<second, lifetime>>

ChangeLifetime ==
    /\ lifetime' \in Lifetimes \ {lifetime}
    /\ UNCHANGED <<second, saved, index>>

\* Redis deletes what has expired.
SecondPasses ==
    /\ second < MaxSecond /\ second' = second + 1
    /\ saved' = [r \in AuthRequest |->
           IF Kept(r) /\ saved[r].ends <= second' THEN [saved[r] EXCEPT !.state = "gone"]
           ELSE saved[r]]
    /\ index' = [i \in DOMAIN index |-> IF index[i].ends <= second' THEN NoIndex ELSE index[i]]
    /\ UNCHANGED lifetime

RequestsTypeOK ==
    /\ second \in 0..MaxSecond /\ lifetime \in Lifetimes
    /\ saved \in [AuthRequest -> [state : {"new", "kept", "taken", "gone"},
           revision : 0..MaxRebind, session : Browser \cup {Unbound}, ends : Nat]]
    /\ \A i \in DOMAIN index : index[i].ids \subseteq AuthRequest /\ index[i].ends \in Nat

\* Whatever is saved, taken, put back with what is left of its lifetime or expires,
\* and whatever lifetime the settings give: a request that is there is counted in
\* both indices, and no more are there than the limits admit.
CapacityIsKept ==
    LET there == {r \in AuthRequest : Kept(r)} IN
    /\ there \subseteq index[All].ids /\ Cardinality(there) <= MaxGlobal
    /\ \A c \in Client :
           LET its == {r \in there : ClientOf[r] = c}
           IN its \subseteq index[c].ids /\ Cardinality(its) <= MaxPerClient
=============================================================================
