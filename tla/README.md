# A TLA+ verification of chenxing-auth

chenxing-auth is an OAuth 2.0 / OpenID Connect authorization server in Rust. It
keeps its authoritative state in PostgreSQL and the state that must be fast or
must expire (authorization codes and requests, refresh tokens, tombstones, quota
counters, session projections, caches) in Redis, where everything that has to be
atomic is a Lua script; signing keys are files in a directory. Several instances
serve the same databases. No transaction spans two of them, so nearly every
guarantee of the system rests on the order in which a request does its calls, on
what it reads again after a write, on what it locks, and on what it takes back
when a later call fails. That is what this project models.

This directory holds TLA+ modules translated from the source, TLC configurations
that check them on small instances, and theorems with proofs that TLAPS checks.
`PROJECT.json` maps every definition to the lines it stands for and lists
components, runs, mutants, findings, hazards and theorems. All source paths
below are relative to the crate's `src/` directory.

## 1. The system

### 1.1 Components

| Component | State | What is hard | Modelled by |
|---|---|---|---|
| Refresh token store (`oauth/refresh_store*.rs`) | primary keys, three index sets, token-to-family map, tombstones, epitaphs in Redis | the scripts must agree on five structures with different lifetimes | `RefreshStore`, `RefreshFamilies` |
| Refresh grant (`oauth/refresh_use_case*.rs`), revocation endpoint (`oauth/revocation_handler.rs`) | one request | everything may change between two calls, every call may fail | `RefreshExchange` |
| Consents (`oauth/revoke_consent_use_case.rs`, `consents/`) | versioned row | best-effort deletion of tokens after the commit | `RefreshExchange`, `CodeExchange`, `Decisions` |
| Client secrets (`clients/service/rotation.rs`, `authentication.rs`) | versioned row, row lock held by requests | requests in flight with the old secret; locks PostgreSQL drops | `RefreshExchange`, `CodeExchange` |
| Code grant (`oauth/token_use_case*.rs`, `authorization_code_handlers.rs`) | code in Redis, one request | compensation over three stores, each part of which can fail | `CodeExchange` |
| Quota (`oauth/quota*.rs`) | counters, hashes of claims, refund ledger in Redis | exactly one of redeemed and refunded; periods that end | `QuotaLedger`, `CodeExchange` |
| Authorization requests, decisions, consent cache (`oauth/request_store*.rs`, `authorization_decision_use_case.rs`, `request_binding.rs`, `consent_cache.rs`) | single-use requests with shared indices, versioned cache | restorations, rebinds, late back-fills, indices with lifetimes of their own | `AuthorizationRequests`, `Decisions` |
| Sessions (`sessions/`) | rows and epochs in PostgreSQL, copies in Redis, outbox with leases | entries applied twice or out of order, lookups in two reads | `Sessions` |
| Login and factors (`users/login_use_case.rs`, `auth_factors/`) | tickets, challenges, TOTP claims, factor rows | a credential is replaced while a login rests on it | `Login`, `PasskeyPolicy` |
| Users, invitation codes, administration (`users/repository/`, `invitation_codes.rs`, `admin/`) | user rows, locks | lock order; the last owner; the actor's standing at the commit | `Management` |
| Email change and its mail (`users/*/email_change.rs`, `notifications/`) | challenge rows with slots, outbox with claims | budgets with attempts in flight, late terminal writes | `EmailChange` |
| Signing keys (`keys/`) | key files, journals, memory of each instance | crashes between file writes, several instances, clock skew | `Keys` |
| Resource services (`resource_services/`) | bindings, operations with leases, revocation outbox, a remote provider | answers that are lost or late; two parties on one operation | `ResourceBindings` |
| Wallet, codes, plans, add-ons (`wallet/`, `plans/`) | balances, codes, idempotency rows | waiting for locks while what was read lapses; repeated requests | `Wallet` |
| Issuer and passkey settings (`settings/`, issuer parts of `admin/`) | settings rows, a copy in each instance | stale copies, registrations under way while the policy changes | `PasskeyPolicy` |

Not modelled, each with its reason in `PROJECT.json`: external identity
providers, the authentication limiter, registration and lookup of clients,
userinfo, ID tokens, PKCE and rate limits, audit, migrations and the database
layer, supervision of workers, configuration, routing, the front end. Most of
the repository's lines are of that kind; the definitions of the modules map to
about a sixth of its implementation lines, so this is a verification of the
stateful core and not of the whole program.

### 1.2 How they interact

    browser --authorize/decide--> requests (Redis) -> consent row -> consent cache (Redis)
                                     \--code-----> quota, codes (Redis)
    client --code----> token endpoint --take+claim--> codes, quota (Redis)
                          |  \--save-------------> refresh store (Redis)
                          |--guard (row lock)----> client row (PostgreSQL)
                          |--confirm-------------> consent row, session row
    client --refresh-> token endpoint --rotate----> refresh store
    client --revoke--> revocation endpoint -------> refresh store
    user   --disconnect--> consent row, then refresh store by grant, then cache
    user   --login, password, factors--> user row (epoch), session rows
    admin  --roles, issuer, passkeys, secrets--> rows under locks
    rows   --outboxes--> Redis copies of sessions, SMTP, resource providers
    keys   --directory lock--> files, read by every instance
    clock  --> TTLs, leases, midnight, end of month, key activation

The parts share the databases and the outboxes; there are no callbacks. The
session epoch and the consent version are the values by which one part notices
what another did: each module reads and advances them itself, and how they move
elsewhere is an action of its environment. The unit of interleaving is one
statement, one transaction (split where it waits for a lock or calls another
store) or one script, which is the grain of the modules' actions.

### 1.3 Properties that make it correct

* A refresh token family has one exchangeable token; a revoked family has none,
  whatever was under way; every revocation reaches every live token. A second use
  of a token is detected in every interleaving, and nothing else is taken for one.
* A request that fails leaves neither a token nobody holds nor a client without
  one; an authorization code gives one grant, and the quota counts what was
  redeemed or may still be.
* Disconnecting an application, changing a secret or a credential and ending a
  session reach the requests already running.
* A request for authorization is decided once, by the session it was bound to; a
  renewed consent is not refused because of an older revocation.
* Redis forgets revoked sessions in any order of deliveries; a session rests on
  credentials that are still the account's.
* There is always an owner; management writes are covered until their commit.
* The directory of keys recovers from any crash and keeps a key while tokens
  signed with it are valid.
* No grant at a resource provider is left with nobody to revoke it; the wallet
  sells everything once and nothing that lapsed.

`PROJECT.json` lists under "hazards" where each of these can go wrong, line by
line, with the property that would notice.

## 2. The modules

Operators that a comment calls a mutant are used by no action: each stands for a
plausible bug, and a property of a run fails when it takes the place of the
definition before which it stands. Bounds of counters appear in guards, as
constants named `Max...`.

### 2.1 RefreshStore, RefreshFamilies, RefreshStoreRefinement

`record` is the payload a token was generated with (grant, family, parent),
`live` the set of primary keys, `tomb` the tombstones, `clientIdx`, `grantIdx`,
`familyIdx` and `tokenFamily` the indices, `epitaph` the families marked
revoked. Each script of `refresh_store_scripts.rs` is one action:

| Script or call | Action |
|---|---|
| SAVE | `Save` |
| ROTATE_IF_MATCHES, forward | `Rotate`, admission in `RotationOutcome`, effect in `Exchange` |
| ROTATE_IF_MATCHES, backward | `Rollback` |
| REMOVE, TAKE | `Remove`, `Take` |
| REVOKE_FAMILY | `RevokeFamily`, through `Revoke` |
| REVOKE_GRANT_TOKENS, REVOKE_CLIENT_TOKENS, one batch | `RevokeGrantBatch`, `RevokeClientBatch` |
| TTLs | `Expire`, `ExpireTombstone` |

A batch is any subset of the index of the size SRANDMEMBER returns. Index sets,
the map and epitaphs live as long as the absolute lifetime of a token and are
renewed by every write, so they outlive the keys they lead to; their expiry is
not modelled. Tokens from before families existed cannot be exchanged any more
(the code fails closed on them), so stored tokens have families; scopes of single
tokens remain for tombstones without a family.

`RefreshFamilies` is what the store promises: a family is opened, moves its
current token, loses it or is revoked, and never has one again.
`RefreshStoreRefinement` is the mapping: the current token of a family is its
live one.

### 2.2 RefreshExchange

EXTENDS `RefreshStore`: the requests act on its variables through its scripts. A
request has a program counter, named after the call it makes next, and what it
has read. The actions follow `exchange_refresh_token` and the handlers of a
missing token and of `/oauth/revoke` call by call. `Call` gives a script its three
endings: it answers, it ran and the reply is lost, it did not run. `Faults` says
which failures a run allows. `stamp` holds what the payload carries (secret
version, epoch) and, for the properties, the consent version; `disclosed` is what
clients have received.

The rest of the world is one action per event: a code is exchanged
(`IssueGrant`), the consent is revoked, cut off in batches and granted again, the
secret is rotated while no request holds the guard and swept in batches, the
epoch advances.

Left out: scopes, the issuer generation (constant while one issuer is
configured), the signing of access tokens, the deny list of access tokens.

### 2.3 QuotaLedger and CodeExchange

`QuotaLedger` has one operator per script, over the counters, the two hashes of
claims, the ZSET `pending`, the record keys and `lasting`, the days whose hash
was given the lifetime of the month by a restoration. A reservation is named
after the code it pays for. Days are numbered; `Midnight` removes what expires.

`CodeExchange` has three kinds of process. Issuing a code: `TakeQuota`,
`ScheduleRefund`, `SaveCode`, `AuditCode`, and the way back `TakeBackCode`,
`RefundCode`. Exchanging it: `Start` to `Audit`, and the way back `Remove`,
`RestoreCode`, `Reschedule`, where `reason` in the request distinguishes the
three compensations of the code (`compensate_authorization_code_exchange`, a
withdrawn consent, an unconfirmed consent). The refund worker: `Scan`,
`ReadRecord`, `RefundDue`, `Drop`, one item a pass, each read acted on later. A
request that is refused and leaves nothing behind may be made again by the
client, which is why few requests are enough. The application's clock and the
TTL of the code's key are separate (`Expire`, `KeyExpires`), because the exchange
checks both. Counters, period keys and reservations are those of one client.

Left out: exempt clients (the same path without the ledger), scores of the ZSET
in whole seconds from before an upgrade, malformed records, the issuer
generation, scopes, token signing. The deletions after a disconnect and after a
secret rotation always succeed here; their failure is the subject of
`RefreshExchange`.

### 2.4 AuthorizationRequests and Decisions

`AuthorizationRequests` is the store of pending requests: `saved` has the key of
each request (revision, bound session, end), `index` the names counted for each
client and for all, with the index's own end. The Lua scripts are `Keep` and
`NoRoom` (PENDING_CAPACITY and the save), `TakeRequest`, `Misses`, `Replace`;
`AtLeast` is `expire_at_least`. The lifetime is a setting that changes.

`Decisions` EXTENDS it with the processes: an authorization with or without an
earlier consent (`AskUser`, `AskGranted`), a decision from `Find` and `Consume`
over the session check, the consent row, the cache and the code (`Issue`) or back
(`Restore`), the rebinding of a request in two steps, sign-outs; and the consent:
`Disconnect` commits, `PublishRevocation` writes the cache later, `CheckReads`
and `CheckFills` are a refresh or userinfo request that reads and back-fills.
`VerdictExpires` assumes that the TTL of the cache (300 s, `consent_cache.rs:62-67`)
outlasts every write under way.

Left out: the reauthentication fence, the holder cookie, scopes, the issuer
generation, several users, the quota (`CodeExchange`), the failover and the
cache-only mode of the cache.

### 2.5 Sessions and Login

`Sessions`: `row` the rows of a user's sessions, `epoch`, `role`, `enabled` the
user row, `outbox` the entries with claims and leases, `keys` and `marker` what
Redis has, `courier` the workers, `finder` the lookups. A transaction on rows is
one action; the delivery of a sync entry holds the row lock over its Redis calls
and is several. `Deliver` and what it leads to follow `outbox*.rs`, a lookup reads
the payload and the row in two steps (`FindReads`, `PayloadReads`, `FindRechecks`).

`Login` EXTENDS it with the requests of `login_use_case.rs` and `auth_factors/`:
password, ticket, TOTP code with its claimed time steps, passkey, enrolment; and
the operations that replace a credential meanwhile. A credential is named by the
epoch in which it was set, which is exact because replacing one always starts a
new epoch. `proof` records what was shown for a session.

Left out: idle and absolute expiry, metadata, retention, the TTL of the marker;
wrong passwords and codes with the failure limits they run into.

### 2.6 Management and EmailChange

`Management`: users by id, session cookies, one invitation code, and the
transactions of `role_guard.rs`, `owner_bootstrap.rs`, `management_actor.rs` and
`invitation_codes.rs`, which lock as they go: `holder` says who has a lock, an
action takes one, `Commit` writes what the transaction decided.

`EmailChange`: challenges with reserved slots and failed attempts, confirmations
(`ReserveSlot`, `VerifyCode`, `RecordWrongCode`, `ReleaseSlot`, `CompleteChange`),
and the mail outbox with claims, generations, leases and terminal writes.
Left out: SMTP, encryption, address policy.

### 2.7 Keys

`dir` is the directory: key files, the active pointer, retirement records, the
published key that waits, the journal of a revocation. `task` is the operation
that holds the lock: loading is a row of phases, each of which decides a list of
atomic writes, and a crash or a failed write falls between any two of them. `mem`
is what each instance signs and verifies with. Time is true time plus a skew per
instance. `ASSUME KeysAssumption` has the production constraints (a positive
activation delay, longer than the lag of a synchronisation; skews within the
allowance), that an instance exists and that `None` is no number, record or
instance, and one constraint that the code does not check: retention covers the
token lifetime and the lag of a synchronisation.

Left out: the in-memory manager, the migration of the single-file layout, damaged
records, waiting for the lock.

### 2.8 ResourceBindings

One user and one provider row. `binding`, `operation`, `outbox` are the tables;
`call` the user's requests, each a transaction, a call to the provider, another
transaction; `revoker` the workers; `remote` the provider, which is external and
does what `docs/account-provider-v1/protocol.md` promises; `stray` are requests
that timed out here and have not arrived there. A refresh token is its generation
at the provider. Left out: snapshots, scopes, exchange tickets.

### 2.9 Wallet

An order is one PostgreSQL transaction that begins (which fixes NOW()), waits for
the user row (`Admit`), waits for the plan, add-on or code row (`LockOffer`,
`LockCode`), and writes. Administrators credit, edit, archive and disable, and
assign a plan to any end or none. `credited` and `spent` are the books. Left out:
the default plan, several plans, the expiry of idempotency rows after 24 h,
batches of codes, overflow.

### 2.10 PasskeyPolicy

The issuer row with its generation, the copy of each instance (`runtime`,
`reread`), importers at start-up, administrators who write the issuer or the
passkey setting under the advisory lock, registrations of passkeys that start and
end at any instance, accounts with their factors. Left out: pending and blank
rows of older versions, explicit relying parties in the environment, the
confirmation flag, the cache of security limits, e-mail and registration settings.

### 2.11 Modules with proofs

`RefreshStoreProofs` (with `RefreshStoreRefinement`), `RefreshExchangeProofs`,
`CodeExchangeProofs`, `DecisionsProofs` (with `AuthorizationRequests`),
`AccountsProofs` (`Management`, `Sessions` with `Login`, `EmailChange`),
`PasskeyPolicyProofs`, `ServicesProofs` (`Wallet`, `ResourceBindings`),
`KeysProofs`. Each EXTENDS its components and TLAPS; section 4 has their arguments.

## 3. The runs

Properties are stated, with the behaviour of the code they are about, above their
definitions. Deadlock checking is off: requests are handled once and counters are
bounded, so each instance comes to rest.

| Run | States | Properties |
|---|---|---|
| `refresh_store` | 37,306 | `OneLivePerFamily`, `RevokedFamilyHasNoLive`, `IndexComplete`, `ReplayIsEvident`, `EvidenceIsKept`, `ImplementsFamilies`: the scripts in any order on any arguments |
| `exchange_races` | 468,437 | `SingleUse`, `NoOrphan`, `ClientKeepsAToken`, `ReuseIsDetected`, `NoFalseAlarm`, `DisconnectIsComplete`: three requests race for the tokens of one client while reads fail and guards are dropped |
| `exchange_faults` | 202,396 | `SweepIsComplete`, `NoLaundering`, `NothingOutlivesARefusal`, `ImplementsStore`: two requests of two clients under failing reads, dropped guards, lost replies, crashes and failing clean-ups |
| `exchange_ends` | 362,304 | `DisconnectTakesEffect`, under fairness, while reads fail and keys and tombstones reach their TTL |
| `exchange_revival` | violation | `ReconsentStartsAfresh`, finding 1 |
| `code_quota` | 613,728 | `QuotaIsOwned`, `LiveCodeIsRedeemable`, `UnusedQuotaReturns` (fairness): two codes over a day's end |
| `code_faults` | 3,372,110 | `CodeIsHeldOnce`, `DisconnectCoversExchanges`, `SweepCoversExchanges`: two clients race for one code under every fault |
| `code_month_end` | violation | `LiveCodeIsRedeemable`, finding 2 |
| `code_lost_reply` | violation | `RedeemedIsCharged`, finding 3 |
| `accounts` | 1,259,740 | `RedisForgets`, `RoleIsNotInherited`, `SessionsAreProven`, `OwnerRemains`, `WritesAreCovered`, `LeaseIsExclusive`, `RightCodeIsNotShutOut`, `PasskeysKeepTheirParty`, `NobodyIsStranded` |
| `owner_guard_circle` | violation | `NobodyWaitsInACircle`, finding 4 |
| `services` | 1,743,305 | `DirectoryRecovers`, `KeysOutliveTokens`, `EveryGrantIsAccountedFor`, `BooksBalance`, `NothingLapsedIsSold`, `CapacityIsKept`, `DecidedOnceByItsHolder`, `RenewedGrantIsHonoured` |

`accounts` and `services` put components that share no variable side by side: a
variable `focus`, chosen at the start, says which one moves, so that the states
add up instead of multiplying. Where one component is too large for a run, several
foci explore different parts of it.

### 3.1 Bounds, and why they are enough

* Tokens: 3 is a family with a consumed token, a live one and a successor, or two
  families; 4 in `exchange_races` lets three requests interfere in one family,
  where two rotations are rolled back and the third goes through. `BatchSize` 2
  leaves members behind in an index of 3, so that something happens between two
  batches.
* Requests: a replay needs two, a replay racing a rotation that is taken back
  needs three. In `code_quota` one client that may retry is enough: before it
  takes the code a second exchange only reads, and the script that takes the
  code looks at everything again. Two race in `code_faults`.
* Codes: two in `code_quota`, so that a counter at zero does not hide a refund
  too many. Two days, so that a claim outlives the counter of its day.
* Consent versions: 3 is granted, revoked, granted again. Secret versions and
  epochs: 2, before and after.
* Faults differ from run to run because the promises do. What a compensation
  promises about the quota or about an orphan can only hold when Redis tells
  what it did; what a revocation promises has to hold in any case.
* TTLs. `NothingOutlivesARefusal` needs tombstones that last (4.2), so
  `exchange_faults` has everything but TTLs; keys and tombstones reach them in
  `refresh_store` and, between the steps of requests, in `exchange_ends`.
* `accounts`. `login`: two logins race for one account that starts with one
  factor at most; sessions are named in turn. `outbox`: two workers, whole life of
  one session's entries, changes of the user. `find`: one lookup beside changes of
  the user. `management`: two transactions over two users, one cookie. `confirm`:
  two challenges, two attempts, a limit of two. `deliver`: two workers; a change
  replaces another, one confirmation of the first. `import`: one importer of a
  value the instances may or may not serve, one administrator, registrations of
  first factors, generation up to 2, where only i1 rereads and stops. `issuer`:
  two administrators of i1, generation up to 3, only i2 rereads, nobody stops.
  `policy`: one instance, two administrators of the setting, one registration.
  A row that brings nothing new is not reread.
* `services`. `recovery`: 2 keys, time up to 2, two faults of which the second
  falls into a roll-back, only the first instance rotates. `rotation`: 3 keys,
  time up to 5, a fault only while expired keys are collected, the administrator
  asks the first instance. `relink`: two bindings in a row while the provider
  stays enabled; `refresh`: two requests at once; `revoke`: two workers at once.
  `redeem`: two transactions of two customers; `buy`: two of one customer while
  the offer changes once. `capacity`: four requests under limits of 2 and 3, of
  which r1 is decided and put back while the lifetime changes. `decide`: one
  request, two deciders, two sessions, time stands still. `consent`: decisions of
  r1 and a consented r2 in turn, two disconnections, versions up to 3.
  Where things are interchangeable the one named first is used first.

The theorems of section 4 have none of these restrictions: each invariant they
state holds for every value of the constants and without any focus.

Type invariants are not part of the runs where a theorem proves them
(`RefreshStore`, `RefreshExchange`, `Management`, `Sessions` with `Login`,
`EmailChange`, `Wallet`, `ResourceBindings`, `Keys`, and as `Types` of the proof modules
of `Decisions` and `PasskeyPolicy`).

### 3.2 Fairness

`LiveSpec` of `RefreshExchange` has weak fairness on the next step of each
request and on the loops that clean up: the async runtime polls every ready
future, and the loops run in the request that started them. A process that dies
would void it, so runs with liveness have no crashes. `LiveSpec` of
`CodeExchange` adds the refund worker of each instance, which the supervisor
keeps running on an interval. Nothing is assumed fair that a user, a client or
the clock does.

### 3.3 Mutants

Each property of each passing run is paired with a mutated definition that
stands for a plausible bug, such as a successor missing from one index, a
roll-back that clears the tombstone, a guard whose loss goes unnoticed, a
restoration that forgets the claims, an EXPIRE that shortens, a journal cleared
before the key it names is removed. TLC refutes the property under every one.

## 4. The proofs

All theorems hold for every value of the constants. Assumptions are those the
modules name: bounds are natural numbers (positive where it matters), markers for
"none" are not members of what they mark, and where the configuration of the
program promises something (`KeysAssumption`, `RequestsAssumption`) it is stated
and TLC evaluates it in the runs. No finiteness of the constant sets is assumed:
sets whose cardinality matters are finite by construction, and the invariants say
so. Each section names the inductive invariant and why the property needs it.

### 4.1 The refresh token store

| Theorem of `RefreshStoreProofs` | States |
|---|---|
| `Invariance` | `Spec => []IInv` |
| `TypeCorrect` | `Spec => []TypeOK` |
| `OneLive`, `RevokedIsDead`, `IndicesReachAll`, `EvidenceIsSound`, `EvidenceKept` | `OneLivePerFamily`, `RevokedFamilyHasNoLive`, `IndexComplete`, `ReplayIsEvident`, `EvidenceIsKept` |
| `Refinement` | `Spec => ImplementsFamilies` |

None of the properties is inductive by itself, and the strengthening shows why
the store is right:

* a family revocation kills what the family index holds, so `IndexComplete` is
  needed for `RevokedFamilyHasNoLive`;
* rotation moves one entry in each index, which keeps `IndexComplete` only if the
  token replaced is the only one of its family the indices know: `LiveAlone`,
  from which `OneLivePerFamily` follows;
* the batch scripts delete what an index holds, whatever family it has, so
  `IndexSound` says that indices hold tokens of their client, grant and family;
* a roll-back writes the payload of a parent under the epitaph test of the
  family, which is right because `Lineage` ties a token to the family, grant and
  root of its parent;
* `ReplayIsEvident` is what reuse detection finds: with a live token in the
  family, every other tombstone names the family and says Consumed. A batch that
  writes tombstones without a family does so only for families it leaves dead.

The refinement maps `Rotate` and `Rollback` to `Move`, `Save` to `Open`,
revocations to `Revoke`, and the rest to `Lose` or a stutter.

### 4.2 The concurrent requests

`RefreshExchangeProofs` proves `ExchangeInvariance` (`EInv`), `ExchangeTypeCorrect`,
the nine invariants of the runs (`SingleUseHolds`, `NoOrphanHolds`,
`ClientKeepsATokenHolds`, `ReuseIsDetectedHolds`, `NoFalseAlarmHolds`,
`DisconnectIsCompleteHolds`, `SweepIsCompleteHolds`, `NoLaunderingHolds`,
`NothingOutlivesARefusalHolds`) and
`StoreImplemented` (`ImplementsStore`: every behaviour of the requests is one of
the store, so section 4.1 holds for them; its `IInv` is used throughout).

`EInv` has, beside `IInv` and types, a part per kind of knowledge: `Fit` (what a
request knows by its place: whose token it has, what it has read, what it owes to
a roll-back), `Successors` and `Once` (who may have written a token), `Tombs` and
`Stamps` (what tombstones and payloads say about requests), `Evident` (what is left
of a token that is gone), `Cuts` and `Sweeps`
(what loops that are under way have still to reach), `Holdings` (what clients
have) and `NoOrphan`. The proof splits the steps by what they do to the store:
those that leave it (`Quiet`), those that only take away (`Steady`), and the three
that write, `IssueGrant`, the rotation and the roll-back, which are taken part by
part.

`NothingOutlivesARefusal` is what becomes of a successor nobody received, because
the reply of the rotation was lost or the process died before the response. Nobody
undoes it, and it stays redeemable until its client tries again: the tombstone of
the old token makes that attempt a replay, which revokes the family. The case that
needs an argument is a refusal without a revocation: the token was found neither
in the store nor consumed. `Evident` says that, while tombstones last, every token
issued is alive, in evidence, or the last of a family that is dead, because a step
that only takes a token away finds no other of its family (`LastOfItsFamily`).

Four of the properties do not hold under every fault, and the theorems say under
which: `ClientKeepsAToken` without expiring keys, failing clean-ups and dying
processes; `ReuseIsDetected` and `NothingOutlivesARefusal` without expiring
tombstones; `DisconnectIsComplete`
without failing or dying clean-ups (finding 1 is what happens otherwise). The
others hold for any `Faults`.

### 4.3 Authorization codes

`CodeExchangeProofs` proves `CodeHeldOnce` (`CodeIsHeldOnce`) and what a reader
wants from it, `RedeemedOnce` (one answered request per code) and `OneGrant` (one
living refresh token per code). Neither of the latter is inductive: a request that
has taken the code and not saved yet has no token, and one whose token could not
be removed has no answer. `Holds` names all the ways a request can have what the
code bought, and `Held` says that a code is in Redis or held by one request.
`RestoreCode` is the step that needs the rest of `Held` (`RequestSound`): the
request that restores is the only holder, and holds through its program counter
alone, because `Remove` leads there only when the token is known to be gone. A
crash keeps the code in the hands of the dead request exactly as long as its
token lives. The counters of `QuotaLedger` play no part.

`AllCovered` extends `Held` for `DisconnectCovers` (`DisconnectCoversExchanges`)
and `SweepCovers` (`SweepCoversExchanges`), again under any faults. It says that
the rows a request compares with are never behind the deletions (`RowsAhead`: the
last cut is older than a consent in force, the last sweep no younger than the
secret), that a held guard keeps the secret as the request has read it, and that a
token whose request is past `Release`, or past `Confirm`, is covered from there on
(`Covered`). Each deletion reaches what lives when it begins; each of the two steps
lets nothing through that an earlier deletion was meant to reach. A guard that
PostgreSQL dropped is harmless because `Release` notices it.

The quota needs Redis to answer and processes to live: `Reliable` says that
`Faults` has no "refuse", "lost" or "crash" (reads may fail, guards be dropped and
sessions end). `Accounted` is then inductive. `ClaimSound(c)` follows the quota of
one code: its claim is in the ledger or its unit is used, never both; a code that
is being exchanged keeps the record that names it, so a restoration finds both
hashes; and before it expires nobody else touches either. `PassSound(w)`: a worker
has only what was due, and deletes a record only after the claim. `CountersSound`
equates the counter with the cardinality of the set of owners, which is finite
whatever `Code` is, and says that the counters of other months are 0; that no month
comes back is arithmetic on `MonthOf` (`MonthsGrow`, `OverStaysOver`). Theorems:
`QuotaOwned` (`QuotaIsOwned`); `CurrentCodeRedeemable`, and within one month
`LiveCodeRedeemable` (`LiveCodeIsRedeemable`): the end of the month is the only
exception there is (finding 2); `RedeemedCharged` (`RedeemedIsCharged`): finding 3
needs a failure of Redis or a crash.

### 4.4 Requests, decisions and the consent cache

`DecisionsProofs` rests on `Types`. Three invariants are independent:

* `GrantsStand`, for `GrantsAreHonoured` (`RenewedGrantIsHonoured`). Nobody who is
  about to write the cache has a version ahead of the row (`NoneAhead`), a
  delivered grant was a version of the row (`WasGranted`), and the cache or the
  row vouches for it (`Honours`). Every step moves the row forward and replaces a
  verdict by no older one, or removes it when nobody is about to write
  (`ConsentMoves`); this is where the guard of `VerdictExpires` is needed.
* `HeldOnce`, for `DecidedOnce` (`DecidedOnceByItsHolder`). A decision that has
  taken a request holds it alone and remembers the session it was bound to
  (`HolderSound`, `Alone`); one that has only read it compares a revision that
  never repeats (`TakerSound`), since every rebind advances it; an outcome
  settles it.
* `Capacity`, for `CapacityIsAlwaysKept` (`CapacityIsKept`). The property says how
  many requests there are; what is inductive is that each is named in both
  indices and ends no later than they do, and that an index is finite and within
  its limit. Since no step shortens the life of an index that keeps a name
  (`Eases`), Redis never forgets an index before the requests it counts. The
  arithmetic needs that `Max` of a finite set is one of its members
  (`GreatestIn`), proved by well-foundedness, since induction over sets is not
  available.

### 4.5 Accounts

`AccountsProofs` has three parts.

`Management`: `ManagementIInv` = types, `Sound(t)` for every transaction (its
course, the rows it holds, the owners it counted), and `OwnerRemains`. A step
moves one transaction, and everything another knows is about rows that one has
locked (`Bystander`). That the last owner stays follows from `Counted`: the owners
a transaction counted are no more than those whose rows it has locked, whatever
happened between its statements. Theorems `ManagementTypeCorrect`,
`OwnerAlwaysRemains`, `WritesAlwaysCovered`.

`Sessions` and `Login`, over `AccountSpec`, in which the steps of both occur in
any order (TLC explores them in three parts): `SessionIInv` says how rows, outbox
and Redis go together. For `RedisForgets` the row lock held over the Redis call is
what matters (`CourierSound`); the marker is not needed for it. `AccountIInv` adds
what logins know: what a request was shown is of now unless an epoch has begun
since (`RecordSound`, `TicketSound`, `Proven`). Every replacement of a credential
begins a new epoch, which voids what all others know (`EpochTurns`, `Fades`); the
cases left are those within an epoch. Theorems `AccountInvariance`,
`AccountTypeCorrect`, `RedisAlwaysForgets`, `RoleIsNeverInherited`,
`SessionsAlwaysProven`.

`EmailChange`: a code that is looked at holds its slot, and only the owner of the
last slot can exhaust a challenge (`SlotsKept`); a challenge is closed by as many
recorded failures as are allowed, and one that had them has slots while it is open
(`BudgetSound`), because whoever gives back the last slot closes it; no two workers have the same
generation of a claim (`ClaimsDiffer`). Theorems `MailTypeCorrect`,
`RightCodeIsNeverShutOut`, `LeaseIsAlwaysExclusive`.

### 4.6 Passkeys

`PasskeyPolicyProofs`: `PartiesAreKept` (`PasskeysKeepTheirParty`) follows from
`PartyInv`: copies and registrations carry an issuer with its generation, a
generation has one issuer, and a passkey is stored only under the generation of
the row. The advisory lock is not needed for it. `NobodyIsEverStranded`
(`NobodyIsStranded`) does need the lock: from the administrator's check to the
commit nobody else may store a passkey, and `watched` has only accounts that were
found with something else (`Watch`); one that is enabled in between is not among
them (section 5, Factors).

### 4.7 Services

`ServicesProofs`, wallet: the user row is locked from the admission of a
transaction to its end, so what it knows of its customer stays true until it
writes (`Entitled` in `OrdersSound`); of two transactions with one key the second
is admitted after the first ended and finds its receipt. `Books` has the property
and that the sets counted are finite; `Sales` that versions only grow. Theorems
`WalletInvariance`, `WalletTypeCorrect`, `BooksAlwaysBalance`,
`NothingLapsedIsEverSold`.

Bindings: an answer may be lost while the provider acted, and a request that timed
out may arrive later, so the invariant speaks of what the provider would still
accept. `RowsSound`: rows are numbered in order, one is live, an entry of the
outbox exists only after its row is gone. `RequestSound`: whatever a request under
way may still cause at the provider is watched, by the live binding or by its
entry, under the identity the request goes to (`Addressed`, `Tracked`).
`AnswerSound`: an answer on its way has the newest token and nobody else knows it,
which is why its loss is the only way to mislay one. `RevokerSound`: a worker may
be overdue, but never asks another identity while its entry waits. Theorems
`BindingInvariance`, `BindingTypeCorrect`, `EveryGrantIsAlwaysAccountedFor`.

### 4.8 Keys

`KeysProofs`: `KeysInvariant` (`KInv`), `KeysTypeCorrect`, `DirectoryAlwaysRecovers`
(`DirectoryRecovers`) and `KeysAlwaysOutliveTokens` (`KeysOutliveTokens`). The
invariant has two halves.

The first is about files. `Coherent` says what the directory may look like at any
moment, also one that a crash leaves: a pointer leads to a key, a journaled
revocation can be finished (`Journaled`), neither the active nor a published key
has a retirement record while one is published, and nothing is numbered beyond the
keys generated. `Course` says what the operation
that holds the lock has still to write, for each phase of the load and each stage
after it (`Finishing`, `Activating`, `Pointing`, `Recording`, `Pruning`,
`Publishing`, `RollingBack`, `Committing`, `Converging`). Two kinds of lemmas
carry it: what a phase decides to write is a row its predicate describes
(`RevocationWritesAre` and its likes), and a row of that kind begins with a file
that is `Lawful` and leaves a row of that kind (`FinishingGoesOn` and its likes).
A lawful file keeps the directory coherent, written or not (`WriteIsCoherent`), so
crashes and failed writes need no argument of their own; only the pruning goes on
after a failed write, and may then skip the record of a key it could not remove
(`PruningSkips`).

`DirectoryRecovers` speaks of a load run to its end. A row of writes is a
recursive function of its length; `AppliedInSteps` unrolls it, and the first write
after which the row were not as it should be cannot exist (`FirstFailure`, since
induction is out of reach). So each phase leaves a directory that is coherent and
ready for the next (`PassGoesWell`), and after the fifth the journal is cleared,
whence no revoked key is left (`LoadedRecovers`).

The second half is about clocks. A key retires at the time of one instance and is
collected at the time of another, and is used meanwhile by instances that have not
synchronised since. `Running` has the lag of each instance, `Tokens` that a token
lives at most its lifetime and that its key is in the directory, and `Aged` bounds
the tokens of a retired key by its record: lag plus lifetime, and no healthy
instance still signs with it that has synchronised since. An active key has no record,
a journaled replacement is about to lose its own (`Returns`), so neither is bound.
`Since` relates the time an operation read when it began to snapshots and tokens,
which is why a record stamped with it says enough, although time has passed and
other instances may have signed since. Collection waits for
retention plus the skew allowance, hence for the last of these tokens. `Shared` is
for instances verifying for each other while no revocation was requested: the
activation delay exceeds the lag, so a published key is in every healthy snapshot
before one signs with it. A revocation changes keys at once, which is why that
part does not hold then; `KeysAssumption` is used where it is needed, the
retention against lifetime and lag in `Tokens`, the delay against the lag in
`Shared`.

### 4.9 What is only model-checked

* Liveness (`DisconnectTakesEffect`, `UnusedQuotaReturns`): out of
  the prover's reach, like everything about ENABLED. All other properties of the
  passing runs are stated by a theorem.

## 5. Findings

1. `exchange_revival`: the deletion of refresh tokens after a disconnect is
   attempted once. If it fails and the user agrees to the application again, the
   tokens from before can be exchanged again (the consent row is active, and the
   payload does not carry the consent version), although
   `oauth/refresh_store_revocation.rs:155-157` says that a disconnect cuts off
   and that the credentials must be deleted.
2. `code_month_end`: `oauth/quota.rs:61-62` says that the pending record outlives
   the month boundary for codes that cross it; `SCHEDULE_REFUND` lets it expire at
   the boundary, and so do the claims. A metered code issued in the last minutes
   of a month cannot be redeemed after midnight, though it is stored and
   unexpired.
3. `code_lost_reply`: `oauth/store.rs:188-190` says that the quota of a redeemed
   code is kept. When the restoring script runs and its reply is lost, the
   request schedules the refund once more; if the restored code is redeemed in
   between, the worker gives its unit back.
4. `owner_guard_circle`: `users/repository/role_guard.rs:10-11` and `60-61` say
   that the fixed order of locks excludes an inversion. A target that is no active
   owner is locked after all owners, even when its id is lower, and an owner
   demoted meanwhile stays locked by who waited for it: two transactions can wait
   for each other. PostgreSQL aborts one of them; no guarantee on roles is lost.

Observations made while modelling, which no run is about:

* Codes. The sweep after a secret rotation also kills tokens issued under the new
  secret while it runs. When the refresh token cannot be removed in a compensation
  the code stays taken, which the code explains, and the refund is not scheduled
  again (`oauth/token_use_case_support.rs:338`), which the sibling path does. The
  epitaph test of the rotation script is a second line of defence.
* Requests. `restore_pending` ignores that there was no room, and restores the
  lifetime measured at the consumption. A consented request that is put back is
  known to no browser and only takes up capacity.
* Secret rotation. The secret is derived from scope, key, request and key id, and
  the idempotency row lives 24 h: using a key again later yields the same old
  secret, and a replay after a newer rotation answers with one that is no longer
  valid (`clients/service/rotation.rs:124`, the one hazard without a property).
* Keys. `revocation_generation` is stored and never read, although the docs make
  signing depend on having observed it; `journal::record` may return an error
  after the record is on disk, against the comment of `commit_to_disk`; the grace
  period must exceed the token lifetime by the lag of a synchronisation, because
  another instance signs with the old key that long; `now` is read before the
  blocking lock; the fallback for a missing replacement cannot be reached.
* Resources. `refresh_for_sync` uses a new idempotency key each time, while
  `docs/account-provider-v1/protocol.md:143` and `:120` forbid answering an
  ambiguous response with a new operation; two synchronisations of one generation
  overwrite each other although `sync.rs:143` speaks of a CAS; `update_provider`
  calls the provider inside its transaction, against `service.rs:1`.
* Wallet. `assign_purchased_plan` and `disable` use NOW() as of BEGIN, so waiting
  for a lock shortens a period.
* Factors. A late `clear_totp_replay` may erase a newer claim. Removing TOTP asks
  nothing about a disabled passkey policy, so an account can become passkey-only
  after passkeys were disabled; the way back is
  `insert_totp_factor_for_passkey_recovery`, and `NobodyIsStranded` is therefore
  about the moment of disabling. Enabling an account takes no lock of the policy
  and asks nothing either: an account enabled between the administrator's check
  and the commit may have nothing but a passkey, and has the same way back.
* E-mail change. A slot is given while the recorded failures and the slots are
  each below the limit; migration 0042 dropped the limit on their sum, so a code
  may be tried up to twice the limit less one times. A slot whose instance died
  is never given back, and keeps a challenge open whose budget is used up.
* Issuer. Two concurrent imports of the same first issuer both find no row and the
  second INSERT fails, although `settings/issuer.rs:123` allows repeating it. An
  issuer the cookie policy refuses can be stored by an import. A registration
  started under another stored passkey setting is inserted after the setting
  changed, so `PasskeysKeepTheirParty` is about deployments without one. Settings
  writes lock the actor's user row before the policy lock, passkey insertions and
  resets the other way round.
* Limits. Two writes of the security limits at one instance may be cached in the
  opposite order of their commits, and staleness is counted from the store.
  In the authentication limiter, a reservation granted while Redis is down is
  never counted, and a lost reply of a reservation leaves its lease for 15
  minutes.
* Other. External login binds no epoch, so signing out everywhere between its
  resolution and its save does not stop it; workers set the phase Running
  unconditionally; a mail may go out twice, as `notifications/outbox.rs:245` says.

## 6. What is left

Models: idempotent replays of a secret rotation; the authentication limiter;
external identity providers' bindings.
