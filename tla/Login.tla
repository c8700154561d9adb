-------------------------------- MODULE Login --------------------------------
(***************************************************************************)
(* How one user comes by a session: a password (users/login_use_case.rs)   *)
(* or a passkey (auth_factors/passkey_discoverable.rs), the TOTP code that *)
(* may have to follow (auth_factors/totp_service.rs), the session written  *)
(* at the end (auth_factors/session.rs), and the operations that meanwhile *)
(* replace the password or a factor.  The rows are those of Sessions.      *)
(*                                                                         *)
(* A password, a TOTP secret and a passkey are named after the session     *)
(* epoch in which they were set: replacing one always starts a new epoch.  *)
(* Only correct passwords and codes are entered: the failure limits that   *)
(* the wrong ones run into are not modelled.                               *)
(***************************************************************************)
EXTENDS Sessions

CONSTANTS
    Request,      \* HTTP requests of the user's browsers
    Step          \* time steps of TOTP codes

VARIABLES
    password,   \* the epoch in which the password was set
    factor,     \* the epoch in which the TOTP factor was enrolled, 0 when there is none
    passkey,    \* the same for the passkey
    request,    \* request -> where it is
    ticket,     \* the login ticket that will be presented, if any
    challenge,  \* a passkey challenge is pending
    pending,    \* the request whose TOTP enrollment is pending, or None
    claimed,    \* time steps claimed in Redis
    clearing,   \* removals of the factor that have yet to clear the claims
    proof       \* session -> what was shown for it (specification only)

accountVars == <<password, factor, passkey>>
secondVars == <<ticket, challenge, pending, claimed, clearing>>
loginVars == <<accountVars, secondVars, proof, request>>
vars == <<sessionVars, loginVars>>

\* Tickets and challenges know nothing of each other, so one of each is followed:
\* the one a browser comes back with.
NoTicket == [live |-> FALSE, epoch |-> 0, shown |-> 0]
NoProof == [via |-> "none", shown |-> 0, secret |-> 0, owed |-> FALSE]

Fresh == [pc |-> "idle", via |-> "none", epoch |-> 0, shown |-> 0, secret |-> 0,
          ticket |-> FALSE, session |-> None]

RequestPlace ==
    {"idle", "methods", "secret", "claim", "migrate", "take", "primary", "second", "ticket",
     "write", "epoch", "challenge", "persist", "enroll", "reserve", "insert", "audit"}

TypeOK ==
    /\ SessionTypeOK
    /\ password \in 1..MaxEpoch /\ factor \in 0..MaxEpoch /\ passkey \in 0..MaxEpoch
    /\ request \in [Request -> [pc : RequestPlace, via : {"none", "password", "passkey"},
                                epoch : 0..MaxEpoch, shown : 0..MaxEpoch, secret : 0..MaxEpoch,
                                ticket : BOOLEAN,
                                session : Session \cup {None}]]
    /\ ticket \in [live : BOOLEAN, epoch : 0..MaxEpoch, shown : 0..MaxEpoch]
    /\ challenge \in BOOLEAN
    /\ pending \in Request \cup {None}
    /\ claimed \subseteq Step
    /\ clearing \in 0..MaxEpoch
    /\ proof \in [Session -> [via : {"none", "password", "passkey"}, shown : 0..MaxEpoch,
                              secret : 0..MaxEpoch, owed : BOOLEAN]]

Init ==
    /\ SessionInit
    /\ password = 1 /\ factor \in 0..1 /\ passkey \in 0..1
    /\ request = [r \in Request |-> Fresh]
    /\ ticket = NoTicket
    /\ challenge = FALSE /\ pending = None /\ claimed = {} /\ clearing = 0
    /\ proof = [s \in Session |-> NoProof]

-----------------------------------------------------------------------------
(* A request moves; what it leaves alone. *)

Goes(r, place) == request' = [request EXCEPT ![r].pc = place]

\* The request is answered, one way or the other, and makes room for another.
EndsRequest(r) == request' = [request EXCEPT ![r] = Fresh]

Quiet == UNCHANGED sessionVars

NothingElse == Quiet /\ UNCHANGED <<accountVars, secondVars, proof>>

\* UserService::authenticate: the hash and the session epoch come from one row.
Authenticate(r) ==
    /\ request[r].pc = "idle" /\ enabled
    /\ request' = [request EXCEPT ![r] = [Fresh EXCEPT !.pc = "methods", !.via = "password",
                                          !.epoch = epoch, !.shown = password]]
    /\ NothingElse

\* decide_login: without a TOTP factor the password is enough; with one, the code
\* comes in the same request or is asked for with a ticket.
DecideLogin(r) ==
    /\ request[r].pc = "methods"
    /\ \/ factor = 0 /\ Goes(r, "primary")
       \/ factor # 0 /\ (Goes(r, "secret") \/ Goes(r, "ticket"))
    /\ NothingElse

-----------------------------------------------------------------------------
(* Login tickets. *)

\* create_login_ticket compares the epoch of the authentication with the user's.
CheckTicketEpoch(r) ==
    /\ request[r].pc = "ticket"
    /\ IF request[r].epoch = epoch THEN Goes(r, "write") ELSE EndsRequest(r)
    /\ NothingElse

\* The ticket carries the epoch of the authentication, not the one of now.
WriteTicket(r) ==
    /\ request[r].pc = "write"
    /\ \/ ticket' = [live |-> TRUE, epoch |-> request[r].epoch, shown |-> request[r].shown]
       \/ ticket.live /\ UNCHANGED ticket
    /\ EndsRequest(r)
    /\ Quiet /\ UNCHANGED <<accountVars, challenge, pending, claimed, clearing, proof>>

\* verify_totp_login, find_for_holder: a ticket of an older epoch is no ticket.
PresentTicket(r) ==
    /\ request[r].pc = "idle"
    /\ ticket.live /\ ticket.epoch = epoch
    /\ request' = [request EXCEPT ![r] = [Fresh EXCEPT !.pc = "secret", !.via = "password",
                                          !.epoch = ticket.epoch, !.shown = ticket.shown,
                                          !.ticket = TRUE]]
    /\ NothingElse

\* take_for_holder: Redis deletes the ticket, then the epoch is looked up; when
\* that fails the ticket is written back for another try.
TakeTicket(r) ==
    LET there == ticket.live /\ ticket.epoch = request[r].epoch
        Take == there /\ ticket' = NoTicket
    IN  /\ request[r].pc = "take"
        /\ \/ Take /\ IF ticket.epoch = epoch THEN Goes(r, "second") ELSE EndsRequest(r)
           \/ ~there /\ EndsRequest(r) /\ UNCHANGED ticket
           \/ MayFail("write") /\ there /\ EndsRequest(r) /\ UNCHANGED ticket
           \/ MayFail("lost") /\ Take /\ EndsRequest(r)
        /\ Quiet /\ UNCHANGED <<accountVars, challenge, pending, claimed, clearing, proof>>

-----------------------------------------------------------------------------
(* TOTP codes. *)

\* find_totp_secret, and the code is checked against the secret that was read.
ReadSecret(r) ==
    /\ request[r].pc = "secret"
    /\ IF factor = 0 THEN EndsRequest(r)
       ELSE request' = [request EXCEPT ![r].pc = "claim", ![r].secret = factor]
    /\ NothingElse

\* claim_totp_timestep: SET NX on user and time step, one primitive for logins and
\* enrollments.  A claim whose reply is lost is spent.
ClaimStep(r, t, place) ==
    /\ \/ /\ t \notin claimed
          /\ claimed' = claimed \cup {t}
          /\ Goes(r, place) \/ (MayFail("lost") /\ EndsRequest(r))
       \/ t \in claimed /\ EndsRequest(r) /\ UNCHANGED claimed
    /\ Quiet /\ UNCHANGED <<accountVars, ticket, challenge, pending, clearing, proof>>

ClaimCode(r) ==
    request[r].pc = "claim" /\ \E t \in Step : ClaimStep(r, t, "migrate")

\* reencrypt_totp_secret_if_needed: a secret under a retired key is replaced by
\* compare-and-set.  A row that is gone ends the login; a row with another content
\* counts as the work of a concurrent request.
MigrateSecret(r) ==
    /\ request[r].pc = "migrate"
    /\ \/ factor = 0 /\ EndsRequest(r)
       \/ Goes(r, IF request[r].ticket THEN "take" ELSE "second")
    /\ NothingElse

-----------------------------------------------------------------------------
(* Passkeys: the discoverable ceremony. *)

StartPasskey(r) ==
    /\ request[r].pc = "idle" /\ ~challenge
    /\ challenge' = TRUE
    /\ Quiet /\ UNCHANGED <<accountVars, ticket, pending, claimed, clearing, proof, request>>

\* finish_discoverable_passkey_authentication: the challenge is there, and the
\* credential read from the database has signed it.
VerifyPasskey(r) ==
    /\ request[r].pc = "idle" /\ challenge /\ passkey # 0
    /\ request' = [request EXCEPT ![r] = [Fresh EXCEPT !.pc = "epoch", !.via = "passkey",
                                          !.shown = passkey]]
    /\ NothingElse

\* find_active_session_epoch, after the credential was read.
ReadEpoch(r) ==
    /\ request[r].pc = "epoch"
    /\ IF enabled THEN request' = [request EXCEPT ![r].pc = "challenge", ![r].epoch = epoch]
       ELSE EndsRequest(r)
    /\ NothingElse

TakeChallenge(r) ==
    /\ request[r].pc = "challenge"
    /\ IF challenge THEN Goes(r, "persist") ELSE EndsRequest(r)
    /\ challenge' = FALSE
    /\ Quiet /\ UNCHANGED <<accountVars, ticket, pending, claimed, clearing, proof>>

\* persist_passkey_authentication, by the identity of the row that was read; a row
\* that is gone ends the login, a database error gives the challenge back.
PersistPasskey(r) ==
    /\ request[r].pc = "persist"
    /\ \/ /\ IF passkey = request[r].shown
                THEN Goes(r, "primary")
                ELSE EndsRequest(r)
          /\ UNCHANGED challenge
       \/ MayFail("write") /\ EndsRequest(r)
          /\ challenge' = TRUE
    /\ Quiet /\ UNCHANGED <<accountVars, ticket, pending, claimed, clearing, proof>>

-----------------------------------------------------------------------------
(* The session: issue_session. *)

Proves(r, s) ==
    proof' = [proof EXCEPT ![s] = [via |-> request[r].via, shown |-> request[r].shown,
                                   secret |-> request[r].secret, owed |-> factor # 0]]

\* save_authenticated: the epoch is compared under the locks of the write.
SaveVerified(r) ==
    /\ request[r].pc = "second"
    /\ \/ /\ enabled /\ request[r].epoch = epoch
          /\ \E s \in Session :
                /\ SaveSession(s) /\ Proves(r, s)
                /\ request' = [request EXCEPT ![r].pc = "audit", ![r].session = s]
       \/ /\ ~enabled \/ request[r].epoch # epoch
          /\ EndsRequest(r) /\ UNCHANGED <<row, outbox, proof>>
    /\ UNCHANGED <<userVars, redisVars, courier, finder, accountVars, secondVars>>

\* Mutant: what was true when the methods were read is not looked at again.
SavePrimaryUnchecked(r) ==
    /\ request[r].pc = "primary" /\ enabled /\ request[r].epoch = epoch
    /\ \E s \in Session :
          /\ SaveSession(s) /\ Proves(r, s)
          /\ request' = [request EXCEPT ![r].pc = "audit", ![r].session = s]
    /\ UNCHANGED <<userVars, redisVars, courier, finder, accountVars, secondVars>>

\* save_primary_factor_authenticated: a factor enrolled since the methods were read
\* turns the login into one that needs a code.
SavePrimary(r) ==
    /\ request[r].pc = "primary"
    /\ \/ /\ enabled /\ request[r].epoch = epoch /\ factor = 0
          /\ \E s \in Session :
                /\ SaveSession(s) /\ Proves(r, s)
                /\ request' = [request EXCEPT ![r].pc = "audit", ![r].session = s]
       \/ /\ enabled /\ request[r].epoch = epoch /\ factor # 0
          /\ IF request[r].via = "password" THEN Goes(r, "ticket") ELSE EndsRequest(r)
          /\ UNCHANGED <<row, outbox, proof>>
       \/ /\ ~enabled \/ request[r].epoch # epoch
          /\ EndsRequest(r) /\ UNCHANGED <<row, outbox, proof>>
    /\ UNCHANGED <<userVars, redisVars, courier, finder, accountVars, secondVars>>

\* The login is audited and the failure counter cleared; when either fails the
\* session is taken back, as far as the database lets it.
AuditLogin(r) ==
    LET s == request[r].session IN
    /\ request[r].pc = "audit"
    /\ \/ EndsRequest(r) /\ Quiet
       \/ /\ MayFail("write") /\ EndsRequest(r)
          /\ \/ RevokeSession(s)
             \/ Quiet
    /\ UNCHANGED <<accountVars, secondVars, proof>>

-----------------------------------------------------------------------------
(* Enrolling and removing factors, changing the password. *)

NoRequestMoves == UNCHANGED <<request, proof>>

\* start_session_totp_enrollment: the pending secret is reserved with SET NX.
StartEnrollment(r) ==
    /\ request[r].pc = "idle" /\ factor = 0 /\ pending = None /\ ActiveSessions # {}
    /\ pending' = r
    /\ request' = [request EXCEPT ![r] = [Fresh EXCEPT !.pc = "enroll", !.epoch = epoch,
                                          !.secret = epoch]]
    /\ Quiet /\ UNCHANGED <<accountVars, ticket, challenge, claimed, clearing, proof>>

\* confirm_session_totp_enrollment: the code is claimed, the pending enrollment
\* taken, and the factor written if epoch and account still allow it.
ClaimEnrollment(r) ==
    /\ request[r].pc = "enroll"
    /\ \E t \in Step : ClaimStep(r, t, "reserve")

TakeEnrollment(r) ==
    /\ request[r].pc = "reserve"
    /\ IF pending = r THEN Goes(r, "insert") ELSE EndsRequest(r)
    /\ pending' = IF pending = r THEN None ELSE pending
    /\ Quiet /\ UNCHANGED <<accountVars, ticket, challenge, claimed, clearing, proof>>

\* insert_authenticated_totp_factor.
InsertFactor(r) ==
    /\ request[r].pc = "insert"
    /\ \/ /\ enabled /\ request[r].epoch = epoch /\ factor = 0
          /\ factor' = request[r].secret /\ EndsRequest(r)
       \/ /\ ~enabled \/ request[r].epoch # epoch \/ factor # 0
          /\ EndsRequest(r) /\ UNCHANGED factor
    /\ Quiet /\ UNCHANGED <<password, passkey, secondVars, proof>>

\* The key of a pending enrollment, a ticket or a claim runs out.
ForgetPending ==
    /\ pending # None
    /\ pending' = None
    /\ Quiet /\ NoRequestMoves
    /\ UNCHANGED <<accountVars, ticket, challenge, claimed, clearing>>

\* change_password_and_revoke_all; the epoch it was authenticated with is compared
\* under the locks, so it is the current one.
ChangePassword ==
    /\ RevokeAll /\ password' = epoch + 1
    /\ NoRequestMoves
    /\ UNCHANGED <<enabled, role, redisVars, courier, finder, factor, passkey, secondVars>>

\* remove_own_factor and reset_totp_factor: revocation and removal in one commit,
\* and the claims are cleared when it has gone through.
RemoveTotp ==
    /\ factor # 0
    /\ RevokeAll /\ factor' = 0 /\ clearing' = clearing + 1
    /\ NoRequestMoves
    /\ UNCHANGED <<enabled, role, redisVars, courier, finder, password, passkey, ticket, challenge,
                   pending, claimed>>

ClearReplay ==
    /\ clearing > 0
    /\ clearing' = clearing - 1
    /\ \/ claimed' = {}
       \/ MayFail("refuse") /\ UNCHANGED claimed
    /\ Quiet /\ NoRequestMoves
    /\ UNCHANGED <<accountVars, ticket, challenge, pending>>

RemovePasskeys ==
    /\ passkey # 0
    /\ RevokeAll /\ passkey' = 0
    /\ NoRequestMoves
    /\ UNCHANGED <<enabled, role, redisVars, courier, finder, password, factor, secondVars>>

\* insert_authenticated_passkey_with_generation, from a session.
RegisterPasskey ==
    /\ passkey = 0 /\ ActiveSessions # {}
    /\ passkey' = epoch
    /\ Quiet /\ NoRequestMoves
    /\ UNCHANGED <<password, factor, secondVars>>

Logout(s) == RevokeSession(s) /\ UNCHANGED loginVars

LoginNext ==
    \/ \E r \in Request :
          \/ Authenticate(r) \/ DecideLogin(r) \/ CheckTicketEpoch(r) \/ WriteTicket(r)
          \/ TakeTicket(r) \/ ReadSecret(r) \/ ClaimCode(r) \/ MigrateSecret(r)
          \/ StartPasskey(r) \/ ReadEpoch(r) \/ TakeChallenge(r) \/ PersistPasskey(r)
          \/ SaveVerified(r) \/ SavePrimary(r) \/ AuditLogin(r)
          \/ StartEnrollment(r) \/ ClaimEnrollment(r) \/ TakeEnrollment(r) \/ InsertFactor(r)
          \/ PresentTicket(r) \/ VerifyPasskey(r)
    \/ ChangePassword \/ RemoveTotp \/ ClearReplay \/ RemovePasskeys \/ RegisterPasskey
    \/ ForgetPending
    \/ \E s \in Session : Logout(s)

LoginSpec == Init /\ [][LoginNext]_vars

-----------------------------------------------------------------------------
(* Properties. *)

\* Whatever is replaced while a login is on its way, an active session rests on the
\* password or passkey of now and, where the account had a TOTP factor when the
\* session was written, on a code of the factor of now (#274, #331).
SessionsAreProven ==
    \A s \in ActiveSessions :
       /\ proof[s].via = "password" => proof[s].shown = password
       /\ proof[s].via = "passkey" => proof[s].shown = passkey
       /\ proof[s].owed => proof[s].secret = factor

=============================================================================
