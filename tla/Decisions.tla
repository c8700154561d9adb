------------------------------ MODULE Decisions ------------------------------
(***************************************************************************)
(* The decision of a user about an authorization request, and the consent  *)
(* it leaves (src/oauth/authorization_decision_use_case.rs,                *)
(* request_binding.rs, issue_preconsented_request of handlers.rs,          *)
(* consent_cache.rs).  A decision reads the request, takes it, and answers *)
(* it or puts it back; meanwhile the browser may bind it to another        *)
(* session, the session end, and the user disconnect the application.  The *)
(* row of the consent is the authority, its cached verdict is written      *)
(* afterwards by whoever changed or read the row.  One user.               *)
(***************************************************************************)
EXTENDS AuthorizationRequests, Sequences

CONSTANTS
    Decider,        \* HTTP requests that decide, or authorize with a consent
    Disconnecter,   \* HTTP requests that disconnect an application
    MaxConsent      \* bound of state_version

VARIABLES
    active,         \* sessions that authenticate
    shown,          \* requests whose id a browser has got
    decision,       \* decider -> where it is
    rebind,         \* bind_pending_request, between its two steps
    consent,        \* client -> row of user_consents; version 0: no row
    verdict,        \* client -> key of the cache; version 0: no key
    disconnect,     \* disconnecter -> what it has to publish
    check,          \* is_revoked, between its read and its back-fill
    decided,        \* request -> its outcomes, in order
    promised        \* client -> the newest grant a delivered code rests on

consentVars == <<consent, verdict, disconnect, check, promised>>
browserVars == <<active, shown, rebind>>
decisionVars == <<browserVars, decision, consentVars, decided>>

NoDecision ==
    [pc |-> "idle", request |-> CHOOSE r \in AuthRequest : TRUE, session |-> Unbound,
     answer |-> "approve", revision |-> 0, bound |-> Unbound, left |-> 0,
     version |-> 0, granted |-> FALSE]
NoRebind == [request |-> {}, session |-> Unbound, revision |-> 0]
NoState == [client |-> {}, version |-> 0, granted |-> FALSE]

DecisionsInit ==
    /\ active = Browser /\ shown = {}
    /\ decision = [d \in Decider |-> NoDecision]
    /\ rebind = NoRebind
    /\ consent = [c \in Client |-> [version |-> 0, granted |-> FALSE]]
    /\ verdict = [c \in Client |-> [version |-> 0, granted |-> FALSE]]
    /\ disconnect = [x \in Disconnecter |-> NoState]
    /\ check = NoState
    /\ decided = [r \in AuthRequest |-> <<>>]
    /\ promised = [c \in Client |-> 0]

---------------------------------------------------------------------------
\* What several steps do.

\* Mutant: SET.
LastWins(c, version) == TRUE

\* CONSENT_STATE_UPDATE_SCRIPT accepts.
NoNewer(c, version) == verdict[c].version <= version

Writes(c, state) ==
    verdict' = IF NoNewer(c, state.version)
               THEN [verdict EXCEPT ![c] = [version |-> state.version, granted |-> state.granted]]
               ELSE verdict

Of(d) == ClientOf[decision[d].request]
MovesTo(d, pc) == decision' = [decision EXCEPT ![d].pc = pc]
Finishes(d) == decision' = [decision EXCEPT ![d] = NoDecision]

Outcome(d, outcome) ==
    decided' = [decided EXCEPT ![decision[d].request] = Append(@,
        [outcome |-> outcome, by |-> decision[d].session, bound |-> decision[d].bound])]

---------------------------------------------------------------------------
\* From the request to its outcome.

\* save_and_redirect_to_ui
AskUser(r, session) ==
    /\ session \in active \cup {Unbound}
    /\ Authorize(r, session)
    /\ shown' = IF Kept(r)' THEN shown \cup {r} ELSE shown
    /\ UNCHANGED <<active, rebind, decision, consentVars, decided>>

\* issue_preconsented_request: has_scopes saw the consent; the request is saved, and
\* taken in another step.
AskGranted(d, r, session) ==
    /\ decision[d].pc = "idle" /\ session \in active /\ consent[ClientOf[r]].granted
    /\ Authorize(r, session)
    /\ decision' = IF Kept(r)'
                   THEN [decision EXCEPT ![d] = [NoDecision EXCEPT !.pc = "take",
                            !.request = r, !.session = session, !.answer = "granted"]]
                   ELSE decision
    /\ UNCHANGED <<browserVars, consentVars, decided>>

\* decide_authorization: a request bound to another session is refused.
Find(d, r, session, answer) ==
    /\ decision[d].pc = "idle" /\ r \in shown /\ Kept(r)
    /\ session \in active /\ saved[r].session = session
    /\ decision' = [decision EXCEPT ![d] = [NoDecision EXCEPT !.pc = "take", !.request = r,
           !.session = session, !.answer = answer, !.revision = saved[r].revision]]
    /\ UNCHANGED <<requestVars, browserVars, consentVars, decided>>

\* take_if_matches_with_ttl
Consume(d) ==
    LET r == decision[d].request
        next == CASE decision[d].answer = "approve" -> "session"
                  [] decision[d].answer = "granted" -> "read"
                  [] decision[d].answer = "deny" -> "deny"
    IN /\ decision[d].pc = "take"
       /\ \/ /\ TakeRequest(r, decision[d].revision)
             /\ decision' = [decision EXCEPT ![d].pc = next, ![d].bound = saved[r].session,
                                             ![d].left = saved[r].ends - second]
          \/ Misses(r, decision[d].revision) /\ Finishes(d)
       /\ UNCHANGED <<second, lifetime, browserVars, consentVars, decided>>

Deny(d) ==
    /\ decision[d].pc = "deny" /\ Outcome(d, "denied") /\ Finishes(d)
    /\ UNCHANGED <<requestVars, browserVars, consentVars>>

\* session_still_active
CheckSession(d) ==
    /\ decision[d].pc = "session"
    /\ \/ decision[d].session \in active /\ MovesTo(d, "save")
       \/ MovesTo(d, "restore")
    /\ UNCHANGED <<requestVars, browserVars, consentVars, decided>>

\* upsert_consent; it may have been committed although it reports an error.
SaveConsent(d) ==
    LET c == Of(d)
    IN /\ decision[d].pc = "save"
       /\ \/ /\ consent[c].version < MaxConsent
             /\ consent' = [consent EXCEPT ![c] = [version |-> @.version + 1, granted |-> TRUE]]
             /\ MovesTo(d, "read") \/ MovesTo(d, "restore")
          \/ MovesTo(d, "restore") /\ UNCHANGED consent
       /\ UNCHANGED <<requestVars, browserVars, verdict, disconnect, check, promised, decided>>

\* issue_authorization_code_result, up to consent_state.  A consented request is not
\* put back when the session is at fault.
ReadConsent(d) ==
    LET row == consent[Of(d)]
    IN /\ decision[d].pc = "read"
       /\ \/ decision' = [decision EXCEPT ![d].pc = "sync", ![d].version = row.version,
                                          ![d].granted = row.granted]
          \/ MovesTo(d, "restore")
          \/ decision[d].answer = "granted" /\ Finishes(d)
       /\ UNCHANGED <<requestVars, browserVars, consentVars, decided>>

\* refresh_from_database
SyncCache(d) ==
    /\ decision[d].pc = "sync"
    /\ \/ Writes(Of(d), decision[d]) /\ (MovesTo(d, "issue") \/ MovesTo(d, "restore"))
       \/ UNCHANGED verdict /\ MovesTo(d, "restore")
    /\ UNCHANGED <<requestVars, browserVars, consent, disconnect, check, promised, decided>>

\* The code goes out; or the quota, a store or the audit fails, and it is removed.
Issue(d) ==
    /\ decision[d].pc = "issue"
    /\ \/ /\ Finishes(d) /\ Outcome(d, "approved")
          /\ promised' = IF decision[d].granted /\ promised[Of(d)] < decision[d].version
                         THEN [promised EXCEPT ![Of(d)] = decision[d].version]
                         ELSE promised
       \/ MovesTo(d, "restore") /\ UNCHANGED <<decided, promised>>
    /\ UNCHANGED <<requestVars, browserVars, consent, verdict, disconnect, check>>

\* restore_pending, with the lifetime that was left when it was taken; where there is
\* no room it is dropped without a word.
Restore(d) ==
    LET r == decision[d].request  left == decision[d].left
    IN /\ decision[d].pc = "restore" /\ Finishes(d)
       /\ Keep(r, decision[d].revision, decision[d].bound, left) \/ NoRoom(r, left)
       /\ UNCHANGED <<second, lifetime, browserVars, consentVars, decided>>

\* The process or its last reply is lost; restore_pending only logs an error.
Dies(d) ==
    /\ decision[d].pc # "idle" /\ Finishes(d)
    /\ UNCHANGED <<requestVars, browserVars, consentVars, decided>>

\* bind_pending_request of the browser that holds the request, in two steps.
BindReads(r, session) ==
    /\ rebind = NoRebind /\ r \in shown /\ Kept(r)
    /\ session \in active /\ saved[r].session # session
    /\ rebind' = [request |-> {r}, session |-> session, revision |-> saved[r].revision]
    /\ UNCHANGED <<requestVars, active, shown, decision, consentVars, decided>>

BindReplaces ==
    /\ rebind # NoRebind /\ rebind' = NoRebind
    /\ \E r \in rebind.request :
           \/ Replace(r, rebind.revision, rebind.session)
           \/ Misses(r, rebind.revision)
           \/ UNCHANGED <<saved, index>>
    /\ UNCHANGED <<second, lifetime, active, shown, decision, consentVars, decided>>

SignsOut(session) ==
    /\ session \in active /\ active' = active \ {session}
    /\ UNCHANGED <<requestVars, shown, rebind, decision, consentVars, decided>>

---------------------------------------------------------------------------
\* The consent and its cached verdict.

\* soft_revoke
Disconnect(x, c) ==
    /\ disconnect[x] = NoState /\ consent[c].granted /\ consent[c].version < MaxConsent
    /\ consent' = [consent EXCEPT ![c] = [version |-> @.version + 1, granted |-> FALSE]]
    /\ disconnect' = [disconnect EXCEPT ![x] =
           [client |-> {c}, version |-> consent[c].version + 1, granted |-> FALSE]]
    /\ UNCHANGED <<requestVars, browserVars, decision, verdict, check, promised, decided>>

\* publish_revocation, at the end of revoke_consent; best effort.
PublishRevocation(x) ==
    /\ disconnect[x] # NoState /\ disconnect' = [disconnect EXCEPT ![x] = NoState]
    /\ (\E c \in disconnect[x].client : Writes(c, disconnect[x])) \/ UNCHANGED verdict
    /\ UNCHANGED <<requestVars, browserVars, decision, consent, check, promised, decided>>

\* is_revoked, of a refresh or a userinfo request: a cached revocation ends it, else
\* the row is read and written back.
CheckReads(c) ==
    /\ check = NoState /\ consent[c].version > 0
    /\ verdict[c].version > 0 => verdict[c].granted
    /\ check' = [client |-> {c}, version |-> consent[c].version, granted |-> consent[c].granted]
    /\ UNCHANGED <<requestVars, browserVars, decision, consent, verdict, disconnect, promised,
                   decided>>

CheckFills ==
    /\ check # NoState /\ check' = NoState
    /\ (\E c \in check.client : Writes(c, check)) \/ UNCHANGED verdict
    /\ UNCHANGED <<requestVars, browserVars, decision, consent, disconnect, promised, decided>>

\* CONSENT_STATE_CACHE_TTL_SECONDS, which every write that was under way outlasts not.
VerdictExpires(c) ==
    /\ verdict[c].version > 0
    /\ \A x \in Disconnecter : c \notin disconnect[x].client
    /\ c \notin check.client
    /\ \A d \in Decider : decision[d].pc = "sync" => Of(d) # c
    /\ verdict' = [verdict EXCEPT ![c] = [version |-> 0, granted |-> FALSE]]
    /\ UNCHANGED <<requestVars, browserVars, decision, consent, disconnect, check, promised,
                   decided>>

DecisionsNext ==
    \/ (ChangeLifetime \/ SecondPasses) /\ UNCHANGED decisionVars
    \/ \E r \in AuthRequest, session \in Browser \cup {Unbound} : AskUser(r, session)
    \/ \E r \in AuthRequest, session \in Browser :
           \/ BindReads(r, session)
           \/ \E d \in Decider :
                  AskGranted(d, r, session)
                  \/ \E answer \in {"approve", "deny"} : Find(d, r, session, answer)
    \/ BindReplaces
    \/ \E d \in Decider :
           \/ Consume(d) \/ Deny(d) \/ CheckSession(d) \/ SaveConsent(d) \/ ReadConsent(d)
           \/ SyncCache(d) \/ Issue(d) \/ Restore(d) \/ Dies(d)
    \/ \E session \in Browser : SignsOut(session)
    \/ \E c \in Client : CheckReads(c) \/ VerdictExpires(c)
    \/ \E x \in Disconnecter : PublishRevocation(x) \/ \E c \in Client : Disconnect(x, c)
    \/ CheckFills

DecisionsSpec ==
    /\ RequestsInit /\ DecisionsInit
    /\ [][DecisionsNext]_<<requestVars, decisionVars>>

DecisionsTypeOK ==
    /\ active \subseteq Browser /\ shown \subseteq AuthRequest
    /\ \A d \in Decider :
           /\ decision[d].pc \in {"idle", "take", "session", "save", "read", "sync", "issue",
                                  "restore", "deny"}
           /\ decision[d].request \in AuthRequest
           /\ {decision[d].session, decision[d].bound} \subseteq Browser \cup {Unbound}
    /\ \A state \in {consent[c] : c \in Client} \cup {verdict[c] : c \in Client} :
           state.version \in 0..MaxConsent /\ state.granted \in BOOLEAN

\* Two decisions of one request, a rebind of its browser, a sign-out, and a request
\* put back in between: it has at most one outcome, and that of the session it was
\* bound to when it was taken, which its code inherits.
DecidedOnceByItsHolder ==
    \A r \in AuthRequest :
        /\ Len(decided[r]) <= 1
        /\ \A i \in 1..Len(decided[r]) : decided[r][i].by = decided[r][i].bound

\* Disconnections published late and back-fills of an older read: the cache, which
\* refuses without asking the database, never holds a revocation that is older than
\* a grant a code was delivered for.
RenewedGrantIsHonoured ==
    \A c \in Client :
        verdict[c].version > 0 /\ ~verdict[c].granted => verdict[c].version > promised[c]
=============================================================================
