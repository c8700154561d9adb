---------------------------- MODULE CodeExchange ----------------------------
(***************************************************************************)
(* The life of a metered authorization code: it is issued against the      *)
(* quota (authorization_code_handlers.rs), exchanged for a refresh token   *)
(* (token_use_case*.rs) or left to expire, and paid back by the refund     *)
(* worker (quota_refund.rs).  One user, one session and one client; the    *)
(* scripts of the quota are those of QuotaLedger.                          *)
(*                                                                         *)
(* An attempt at the exchange writes one refresh token at most, which      *)
(* therefore needs no name.  An exempt client's code takes the same way    *)
(* without the ledger.  Operators that a comment calls a mutant belong to  *)
(* no action.                                                              *)
(***************************************************************************)
EXTENDS QuotaLedger

CONSTANTS
    Request,      \* requests of the client; one that was refused is made again
    Worker,       \* instances that run the refund worker
    None,
    Faults,       \* what may go wrong, a subset of FaultKind
    MaxSecret,    \* bound: secret versions of the client
    MaxConsent    \* bound: consent versions of the grant

FaultKind == {
    "read",     \* a read fails, or PostgreSQL refuses a release or an audit write
    "stall",    \* PostgreSQL drops an issuance guard held for too long
    "refuse",   \* a call to Redis fails and has no effect
    "lost",     \* a call to Redis takes effect and its reply is lost
    "crash",    \* the process handling a request dies
    "logout"}   \* the session ends, by a logout or a new session epoch

ASSUME FaultsAssumption == Faults \subseteq FaultKind
ASSUME BoundAssumption == {MaxSecret, MaxConsent} \subseteq Nat \ {0}
ASSUME NoneAssumption == None \notin Code

VARIABLES
    stored,     \* codes whose key exists
    expired,    \* codes past their expires_at
    token,      \* request -> the refresh token it saved: none, live or gone
    issue,      \* code    -> where its issuance is
    req,        \* request -> where it is and what it has read
    worker,     \* instance -> where its pass is
    session,    \* the user's session is active
    secret, sweeping, swept,   \* client secret, as in RefreshExchange
    consent, cutting, cut      \* consent row, as in RefreshExchange

redisVars == <<ledgerVars, stored, token>>
worldVars == <<session, secret, sweeping, swept, consent, cutting, cut>>
vars == <<redisVars, expired, issue, req, worker, worldVars>>

IssuePlace == {"none", "schedule", "save", "audit", "take", "refund", "issued", "failed"}

Place == {"idle", "find", "session", "gate", "fence", "take", "save", "release",
          "confirm", "publish", "audit", "remove", "restore", "reschedule", "done",
          "crashed"}

\* Why a refresh token is taken back: the exchange failed and the code is to be
\* restored; the consent is withdrawn; or the consent could not be read.
Reason == {"none", "failed", "withdrawn", "unconfirmed"}

\* How a request ended: "withdrawn" has spent the code on a consent that is gone,
\* "failed" could not take back all it did.
Result == {"none", "ok", "withdrawn", "failed"}

Idle == [pc |-> "idle", code |-> None, secret |-> 0, consent |-> 0,
         guard |-> "none", reason |-> "none", result |-> "none"]

Attempt ==
    [pc : Place, code : Code \cup {None}, secret : 0..MaxSecret, consent : 0..MaxConsent,
     guard : {"none", "held", "lost"}, reason : Reason, result : Result]

ControlTypeOK ==
    /\ stored \subseteq Code
    /\ expired \subseteq Code
    /\ token \in [Request -> {"none", "live", "gone"}]
    /\ issue \in [Code -> IssuePlace]
    /\ req \in [Request -> Attempt]
    /\ worker \in [Worker -> [pc : {"scan", "record", "refund", "drop"},
                              code : Code \cup {None}]]
    /\ session \in BOOLEAN
    /\ secret \in 1..MaxSecret /\ swept \in 0..MaxSecret /\ sweeping \in BOOLEAN
    /\ consent \in [version : 1..MaxConsent, revoked : BOOLEAN]
    /\ cut \in 0..MaxConsent /\ cutting \in BOOLEAN

TypeOK == LedgerTypeOK /\ ControlTypeOK

Init ==
    /\ LedgerInit
    /\ stored = {}
    /\ expired = {}
    /\ token = [r \in Request |-> "none"]
    /\ issue = [c \in Code |-> "none"]
    /\ req = [r \in Request |-> Idle]
    /\ worker = [w \in Worker |-> [pc |-> "scan", code |-> None]]
    /\ session = TRUE
    /\ secret = 1 /\ sweeping = FALSE /\ swept = 0
    /\ consent = [version |-> 1, revoked |-> FALSE] /\ cutting = FALSE /\ cut = 0

May(fault) == fault \in Faults

\* A call to Redis: it answers; it runs and its reply is lost; or it fails.
Call(Script, Answered, Failed) ==
    \/ Script /\ Answered
    \/ May("lost") /\ Script /\ Failed
    \/ May("refuse") /\ UNCHANGED redisVars /\ Failed

-----------------------------------------------------------------------------
(* Issuing a code, issue_authorization_code_result. *)

Issuing(c, place) == issue' = [issue EXCEPT ![c] = place]

NoRequest == UNCHANGED <<expired, req, worker, worldVars>>

\* consume_with_limits_and_reservation_at.  When the reply is lost nobody knows
\* the reservation, and its quota comes back with the end of the period.
TakeQuota(c) ==
    /\ issue[c] = "none"
    /\ \/ Call(Consume(c) /\ UNCHANGED <<stored, token>>, Issuing(c, "schedule"),
               Issuing(c, "failed"))
       \/ ~WithinLimits /\ Issuing(c, "failed") /\ UNCHANGED redisVars
    /\ NoRequest

ScheduleRefund(c) ==
    /\ issue[c] = "schedule"
    /\ Call(Schedule(c) /\ UNCHANGED <<stored, token>>, Issuing(c, "save"),
            Issuing(c, "take"))
    /\ NoRequest

SaveCode(c) ==
    /\ issue[c] = "save"
    /\ Call(stored' = stored \cup {c} /\ UNCHANGED <<ledgerVars, token>>,
            Issuing(c, "audit"), Issuing(c, "take"))
    /\ NoRequest

\* The audit record is written, and the redirect carries the code to the client.
AuditCode(c) ==
    /\ issue[c] = "audit"
    /\ \/ Issuing(c, "issued")
       \/ May("read") /\ Issuing(c, "take")
    /\ UNCHANGED redisVars
    /\ NoRequest

\* remove_authorization_code_after_failure: the quota is given back only when
\* Redis has said that the code is gone.
TakeBackCode(c) ==
    /\ issue[c] = "take"
    /\ Call(stored' = stored \ {c} /\ UNCHANGED <<ledgerVars, token>>,
            Issuing(c, "refund"), Issuing(c, "failed"))
    /\ NoRequest

RefundCode(c) ==
    /\ issue[c] = "refund"
    /\ Call(Refund(c) /\ UNCHANGED <<stored, token>>, Issuing(c, "failed"),
            Issuing(c, "failed"))
    /\ NoRequest

Issue(c) ==
    \/ TakeQuota(c) \/ ScheduleRefund(c) \/ SaveCode(c) \/ AuditCode(c)
    \/ TakeBackCode(c) \/ RefundCode(c)

-----------------------------------------------------------------------------
(* Exchanging it, exchange_code. *)

At(r, place) == req[r].pc = place

Goto(r, place) == req' = [req EXCEPT ![r].pc = place]

\* A request that is refused and leaves nothing behind may be made again.
Refuse(r) == req' = [req EXCEPT ![r] = Idle]

\* What the refresh token is stamped with stays in the record of the request.
Finish(r, result) ==
    req' = [req EXCEPT ![r].pc = "done", ![r].guard = "none", ![r].reason = "none",
                       ![r].result = result]

NoIssue == UNCHANGED <<expired, issue, worker, worldVars>>
NoRedis == UNCHANGED redisVars

Start(r, c) ==
    /\ At(r, "idle")
    /\ issue[c] = "issued"
    /\ req' = [req EXCEPT ![r] = [Idle EXCEPT !.pc = "find", !.code = c,
                                              !.secret = secret]]
    /\ NoRedis /\ NoIssue

\* find and validate_code_binding.
Find(r) ==
    /\ At(r, "find")
    /\ \/ req[r].code \in stored \ expired /\ Goto(r, "session")
       \/ req[r].code \notin stored \ expired /\ Refuse(r)
    /\ NoRedis /\ NoIssue

\* active_user_epoch and authorization_code_session_binding.
CheckSession(r) ==
    /\ At(r, "session")
    /\ \/ session /\ Goto(r, "gate")
       \/ ~session /\ Refuse(r)
    /\ NoRedis /\ NoIssue

Gate(r) ==
    /\ At(r, "gate")
    /\ \/ consent.revoked /\ Refuse(r)
       \/ /\ ~consent.revoked
          /\ req' = [req EXCEPT ![r].pc = "fence", ![r].consent = consent.version]
    /\ NoRedis /\ NoIssue

Fence(r) ==
    /\ At(r, "fence")
    /\ \/ /\ secret = req[r].secret
          /\ req' = [req EXCEPT ![r].pc = "take", ![r].guard = "held"]
       \/ secret # req[r].secret /\ Refuse(r)
    /\ NoRedis /\ NoIssue

\* take_if_matches_with_quota_cancel: code and claim go together or not at all.
Takeable(c) == c \in stored /\ Claimable(c)

TakeCode(r) ==
    LET c == req[r].code
    IN  /\ At(r, "take")
        /\ \/ /\ Takeable(c)
              /\ Call(Claim(c) /\ stored' = stored \ {c} /\ UNCHANGED token,
                      Goto(r, "save"), Refuse(r))
           \/ ~Takeable(c) /\ Refuse(r) /\ NoRedis
        /\ NoIssue

\* From here on the exchange is taken back step by step.
TakeBack(r, reason) ==
    req' = [req EXCEPT ![r].pc = "remove", ![r].guard = "none", ![r].reason = reason]

Save(r) ==
    /\ At(r, "save")
    /\ Call(token' = [token EXCEPT ![r] = "live"] /\ UNCHANGED <<ledgerVars, stored>>,
            Goto(r, "release"), TakeBack(r, "failed"))
    /\ NoIssue

\* Mutant: a guard that PostgreSQL has dropped goes unnoticed.
ReleaseUnnoticed(r) ==
    /\ At(r, "release")
    /\ req' = [req EXCEPT ![r].pc = "confirm", ![r].guard = "none"]
    /\ NoRedis /\ NoIssue

Release(r) ==
    /\ At(r, "release")
    /\ \/ /\ req[r].guard = "held"
          /\ req' = [req EXCEPT ![r].pc = "confirm", ![r].guard = "none"]
       \/ (req[r].guard = "lost" \/ May("read")) /\ TakeBack(r, "failed")
    /\ NoRedis /\ NoIssue

\* confirm_consent_after_persist.  Mutant: a renewed consent is as good.
ConsentAnyVersion(r) == ~consent.revoked

ConsentUnchanged(r) == ~consent.revoked /\ consent.version = req[r].consent

Confirm(r) ==
    /\ At(r, "confirm")
    /\ \/ ConsentUnchanged(r) /\ Goto(r, "publish")
       \/ ~ConsentUnchanged(r) /\ TakeBack(r, "withdrawn")
       \/ May("read") /\ TakeBack(r, "unconfirmed")
    /\ NoRedis /\ NoIssue

\* finalize_authorization_code_exchange: the tokens are signed and the session
\* is read again under its lock.
Publish(r) ==
    /\ At(r, "publish")
    /\ \/ session /\ Goto(r, "audit")
       \/ (~session \/ May("read")) /\ TakeBack(r, "failed")
    /\ NoRedis /\ NoIssue

Audit(r) ==
    /\ At(r, "audit")
    /\ \/ Finish(r, "ok")
       \/ May("read") /\ TakeBack(r, "failed")
    /\ NoRedis /\ NoIssue

\* discard_issued_refresh and the first half of
\* compensate_authorization_code_exchange: the code comes back only when the
\* refresh token is known to be gone.  Mutant: in any case.
AfterFailedRemovalRestoring(r) == Goto(r, "restore")

AfterFailedRemoval(r) ==
    \/ req[r].reason = "failed" /\ Finish(r, "failed")
    \/ req[r].reason = "unconfirmed" /\ Goto(r, "reschedule")
    \/ req[r].reason = "withdrawn" /\ Finish(r, "withdrawn")

Remove(r) ==
    LET gone == IF token[r] = "live" THEN "gone" ELSE token[r]
        answered == \/ req[r].reason = "withdrawn" /\ Finish(r, "withdrawn")
                    \/ req[r].reason # "withdrawn" /\ Goto(r, "restore")
    IN  /\ At(r, "remove")
        /\ Call(token' = [token EXCEPT ![r] = gone] /\ UNCHANGED <<ledgerVars, stored>>,
                answered, AfterFailedRemoval(r))
        /\ NoIssue

\* restore_authorization_code_and_quota, with what is left of the code's TTL.
RestoreCode(r) ==
    LET c == req[r].code
    IN  /\ At(r, "restore")
        /\ Call(/\ Restore(c)
                /\ stored' = IF c \in expired THEN stored ELSE stored \cup {c}
                /\ UNCHANGED token,
                Refuse(r), Goto(r, "reschedule"))
        /\ NoIssue

\* reschedule_authorization_quota_refund, whose failure is only logged.
Reschedule(r) ==
    /\ At(r, "reschedule")
    /\ Call(Restore(req[r].code) /\ UNCHANGED <<stored, token>>,
            Finish(r, "failed"), Finish(r, "failed"))
    /\ NoIssue

\* A read fails before the code is touched: the request is answered with 503.
GiveUp(r) ==
    /\ May("read")
    /\ req[r].pc \in {"find", "session", "gate", "fence"}
    /\ Refuse(r)
    /\ NoRedis /\ NoIssue

Crash(r) ==
    /\ May("crash")
    /\ req[r].pc \notin {"idle", "done", "crashed"}
    /\ req' = [req EXCEPT ![r].pc = "crashed", ![r].guard = "none"]
    /\ NoRedis /\ NoIssue

LoseGuard(r) ==
    /\ May("stall")
    /\ req[r].guard = "held"
    /\ req' = [req EXCEPT ![r].guard = "lost"]
    /\ NoRedis /\ NoIssue

Step(r) ==
    \/ Find(r) \/ CheckSession(r) \/ Gate(r) \/ Fence(r) \/ TakeCode(r) \/ Save(r)
    \/ Release(r) \/ Confirm(r) \/ Publish(r) \/ Audit(r) \/ Remove(r)
    \/ RestoreCode(r) \/ Reschedule(r)

-----------------------------------------------------------------------------
(* The refund worker, run_refund_worker_pass: what it found due may have been  *)
(* redeemed since.  A pass treats its items one after the other; a pass here   *)
(* has one.                                                                    *)

Working(w, pc, c) == worker' = [worker EXCEPT ![w] = [pc |-> pc, code |-> c]]

NoProcess == UNCHANGED <<expired, issue, req, worldVars>>

\* Mutant: the members are taken before they are due.
DueAtOnce(c) == c \in pending

Due(c) == c \in pending \cap expired

Scan(w) ==
    /\ worker[w].pc = "scan"
    /\ \E c \in Code : Due(c) /\ Working(w, "record", c)
    /\ NoRedis /\ NoProcess

ReadRecord(w) ==
    LET c == worker[w].code
    IN  /\ worker[w].pc = "record"
        /\ \/ c \in records /\ Working(w, "refund", c) /\ NoRedis
           \/ /\ c \notin records
              /\ Call(DropMember(c) /\ UNCHANGED <<stored, token>>,
                      Working(w, "scan", None), Working(w, "scan", None))
        /\ NoProcess

RefundDue(w) ==
    LET c == worker[w].code
    IN  /\ worker[w].pc = "refund"
        /\ Call(RefundPending(c) /\ UNCHANGED <<stored, token>>,
                Working(w, IF Refunds(c) THEN "drop" ELSE "scan",
                        IF Refunds(c) THEN c ELSE None),
                Working(w, "scan", None))
        /\ NoProcess

Drop(w) ==
    /\ worker[w].pc = "drop"
    /\ Call(DropRecord(worker[w].code) /\ UNCHANGED <<stored, token>>,
            Working(w, "scan", None), Working(w, "scan", None))
    /\ NoProcess

Work(w) == Scan(w) \/ ReadRecord(w) \/ RefundDue(w) \/ Drop(w)

-----------------------------------------------------------------------------
(* Time, and what happens around the requests. *)

NoStep == UNCHANGED <<issue, req, worker>>

\* The clock reaches expires_at; the key goes within the second.
Expire(c) ==
    /\ issue[c] # "none"
    /\ c \notin expired
    /\ expired' = expired \cup {c}
    /\ UNCHANGED <<redisVars, worldVars>> /\ NoStep

KeyExpires(c) ==
    /\ c \in stored \cap expired
    /\ stored' = stored \ {c}
    /\ UNCHANGED <<ledgerVars, token, expired, worldVars>> /\ NoStep

NextDay == Midnight /\ UNCHANGED <<stored, token, expired, worldVars>> /\ NoStep

Logout ==
    /\ May("logout")
    /\ session
    /\ session' = FALSE
    /\ UNCHANGED <<redisVars, expired, secret, sweeping, swept, consent, cutting, cut>>
    /\ NoStep

RevokeConsent ==
    /\ ~consent.revoked
    /\ consent.version < MaxConsent
    /\ consent' = [version |-> consent.version + 1, revoked |-> TRUE]
    /\ cut' = consent.version + 1
    /\ cutting' = TRUE
    /\ UNCHANGED <<redisVars, expired, session, secret, sweeping, swept>> /\ NoStep

GrantConsent ==
    /\ consent.version < MaxConsent
    /\ consent' = [version |-> consent.version + 1, revoked |-> FALSE]
    /\ UNCHANGED <<redisVars, expired, session, secret, sweeping, swept, cutting, cut>>
    /\ NoStep

RotateSecret ==
    /\ secret < MaxSecret
    /\ \A r \in Request : req[r].guard # "held"
    /\ secret' = secret + 1
    /\ sweeping' = TRUE
    /\ UNCHANGED <<redisVars, expired, session, swept, consent, cutting, cut>> /\ NoStep

\* revoke_grant_tokens and revoke_client_tokens delete in batches, here of one,
\* until their index is empty.  What comes of their failure is the subject of
\* RefreshExchange.
Delete(r) ==
    /\ sweeping \/ cutting
    /\ token[r] = "live"
    /\ token' = [token EXCEPT ![r] = "gone"]
    /\ UNCHANGED <<ledgerVars, stored, expired, worldVars>> /\ NoStep

NoneLive == \A r \in Request : token[r] # "live"

EndCut ==
    /\ cutting /\ NoneLive
    /\ cutting' = FALSE
    /\ UNCHANGED <<redisVars, expired, session, secret, sweeping, swept, consent, cut>>
    /\ NoStep

EndSweep ==
    /\ sweeping /\ NoneLive
    /\ sweeping' = FALSE
    /\ swept' = secret
    /\ UNCHANGED <<redisVars, expired, session, secret, consent, cutting, cut>> /\ NoStep

World ==
    \/ \E c \in Code : Expire(c) \/ KeyExpires(c)
    \/ \E r \in Request : Delete(r)
    \/ NextDay \/ Logout \/ RevokeConsent \/ GrantConsent \/ RotateSecret
    \/ EndCut \/ EndSweep

Next ==
    \/ \E c \in Code : Issue(c)
    \/ \E r \in Request : Step(r) \/ GiveUp(r) \/ Crash(r) \/ LoseGuard(r)
    \/ \E r \in Request, c \in Code : Start(r, c)
    \/ \E w \in Worker : Work(w)
    \/ World

Spec == Init /\ [][Next]_vars

\* Requests run to their end, and the worker of every instance is scheduled.
LiveSpec ==
    /\ Spec
    /\ \A r \in Request : WF_vars(Step(r))
    /\ \A w \in Worker : WF_vars(Work(w))

-----------------------------------------------------------------------------
(* What holds whatever fails. *)

Redeeming(c) == {r \in Request : req[r].code = c /\ req[r].result = "ok"}

\* A code is redeemed once: however requests, restorations and lost replies
\* interleave, at most one request that presented it is answered with tokens.
SingleRedemption == \A c \in Code : Cardinality(Redeeming(c)) <= 1

\* Compensation is fail-closed (#290): at no moment do two refresh tokens live
\* that come from one code, disclosed or not.
OneGrantPerCode ==
    \A c \in Code : Cardinality({r \in Request : req[r].code = c /\ token[r] = "live"}) <= 1

\* What a code bought, or may still buy, is in the hands of r: an exchange under
\* way that has not put the code back, a live token, or an answer with tokens.
Holding == {"save", "release", "confirm", "publish", "audit", "remove", "restore"}

Holds(r, c) ==
    /\ req[r].code = c
    /\ \/ req[r].pc \in Holding
       \/ token[r] = "live"
       \/ req[r].result = "ok"

\* A code is in Redis, or one request holds it, never both and never two: no
\* failure and no lost reply makes a compensation return what is still held.
CodeIsHeldOnce ==
    \A c \in Code :
        /\ \A r, s \in Request : Holds(r, c) /\ Holds(s, c) => r = s
        /\ c \in stored => \A r \in Request : ~Holds(r, c)

\* What makes it inductive: codes reach requests once they are issued, tokens
\* live between Save and Remove, and only a request that is done has a result.
Tokenless == {"idle", "find", "session", "gate", "fence", "take", "save", "restore"}

RequestSound(r) ==
    /\ req[r].pc = "idle" <=> req[r].code = None
    /\ req[r].code # None => issue[req[r].code] = "issued"
    /\ req[r].pc \in Tokenless => token[r] # "live"
    /\ req[r].result # "none" => req[r].pc = "done"

Held == ControlTypeOK /\ CodeIsHeldOnce /\ \A r \in Request : RequestSound(r)

Disclosed(r) == req[r].result = "ok" /\ token[r] = "live"

\* Disconnecting an application reaches the codes being exchanged: once its
\* deletions are over, no token lives that was given out under the consent that
\* was withdrawn, even if the consent was granted anew in between.
DisconnectCoversExchanges ==
    \A r \in Request : Disclosed(r) => cutting \/ req[r].consent > cut

\* So does a rotation of the client secret: the issuance guard makes it wait for
\* the exchanges under way, and one that lost its guard answers with nothing.
SweepCoversExchanges ==
    \A r \in Request : Disclosed(r) => sweeping \/ req[r].secret >= swept

\* What makes both inductive: the rows a request compares with never fall behind
\* the deletions, a held guard keeps the secret as it was read, and a token whose
\* request came past Release or Confirm is covered from there on.
RowsAhead ==
    /\ swept <= secret
    /\ cut <= consent.version
    /\ consent.revoked \/ cut < consent.version

Covered(r) ==
    /\ req[r].guard = "held" =>
            req[r].pc \in {"take", "save", "release"} /\ req[r].secret = secret
    /\ req[r].pc \in {"confirm", "publish", "audit"} \/ req[r].result = "ok" =>
            token[r] # "live" \/ sweeping \/ req[r].secret >= swept
    /\ req[r].pc \in {"publish", "audit"} \/ req[r].result = "ok" =>
            token[r] # "live" \/ cutting \/ req[r].consent > cut

AllCovered == Held /\ RowsAhead /\ \A r \in Request : Covered(r)

-----------------------------------------------------------------------------
(* What holds as long as Redis answers and processes live. *)

\* The exchange has taken the code and is not over.
Underway(c) ==
    \E r \in Request :
        /\ req[r].code = c
        /\ req[r].pc \in Holding \cup {"reschedule"}

Spent(c) == \E r \in Request : req[r].code = c /\ req[r].result \in {"ok", "withdrawn"}

\* The counter of the month is exact: each unit belongs to a reservation that
\* may still be given back, to an exchange under way, or to a code that was
\* spent.  No unit leaks, and none is given back twice or after redemption.
Owned(c) ==
    /\ born[c] > 0
    /\ ~MonthOver(c)
    /\ c \in monthClaims \/ Underway(c) \/ Spent(c)

QuotaIsOwned == monthUsed[MonthOf(today)] = Cardinality({c \in Code : Owned(c)})

\* A client that presents an unexpired code that Redis still has can redeem it:
\* the worker never takes the claim of a live code.
LiveCodeIsRedeemable ==
    \A c \in stored \ expired : issue[c] = "issued" => Claimable(c)

\* What makes both inductive, over any number of months.
Reliable == Faults \cap {"refuse", "lost", "crash"} = {}

\* The claim of a code is in the ledger or its unit is used, never both; a claim
\* that is to come back finds the record that names it.
Used(c) == Underway(c) \/ Spent(c)

ClaimSound(c) ==
    /\ c \in monthClaims \cup records => born[c] > 0 /\ ~MonthOver(c)
    /\ c \in dayClaims => c \in monthClaims
    /\ c \in monthClaims \cup stored => ~Used(c)
    /\ Underway(c) => ~Spent(c) /\ (MonthOver(c) \/ c \in records)
    /\ c \in pending \cup expired => issue[c] # "none"
    /\ issue[c] = "none" => born[c] = 0
    /\ issue[c] \notin {"none", "failed"} => born[c] > 0
    /\ issue[c] = "schedule" =>
            /\ c \notin pending
            /\ MonthOver(c) \/ c \in monthClaims
    /\ issue[c] \in {"save", "audit", "issued"} =>
            c \in expired \/ MonthOver(c) \/ Used(c) \/ c \in monthClaims \cap records

\* The worker has what it found due, and deletes the record of a claim that is gone.
PassSound(w) ==
    LET c == worker[w].code
    IN  worker[w].pc # "scan" =>
            /\ c \in expired /\ issue[c] # "schedule"
            /\ worker[w].pc = "drop" => c \notin monthClaims /\ ~Underway(c)

Answering(r) ==
    /\ req[r].pc \notin {"reschedule", "crashed"}
    /\ req[r].result # "failed"

CountersSound ==
    /\ today \in Day
    /\ born \in [Code -> 0..MaxDay] /\ \A c \in Code : born[c] <= today
    /\ monthUsed \in [Month -> Nat]
    /\ \A m \in Month : m # MonthOf(today) => monthUsed[m] = 0
    /\ IsFiniteSet({c \in Code : Owned(c)})
    /\ QuotaIsOwned

Books ==
    /\ CountersSound
    /\ \A c \in Code : ClaimSound(c)
    /\ \A w \in Worker : PassSound(w)
    /\ \A r \in Request : Answering(r)

Accounted == Held /\ Books

\* The unit of a code that was redeemed stays taken to the end of its month.
RedeemedIsCharged ==
    monthUsed[MonthOf(today)] >=
        Cardinality({c \in Code : born[c] > 0 /\ ~MonthOver(c) /\ Redeeming(c) # {}})

\* The unit of a code that expires unused comes back, even if the code was taken
\* and restored before.
UnusedQuotaReturns ==
    \A c \in Code : (issue[c] = "issued" /\ c \in monthClaims \cap expired)
                        ~> c \notin monthClaims

=============================================================================
