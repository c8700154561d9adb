--------------------------- MODULE DecisionsProofs ---------------------------
(***************************************************************************)
(* The properties of AuthorizationRequests and Decisions, for any          *)
(* requests, sessions, deciders and clients, whatever the limits.  Types   *)
(* is the type invariant.  On it rests GrantsStand, by which the cache     *)
(* honours every grant a code was delivered for: a step only ever moves    *)
(* the row forward, lets nobody write a revocation the row has not just    *)
(* been at, and replaces a verdict by no older one or removes it when      *)
(* nobody is about to write (ConsentMoves).  HeldOnce, by which a taken    *)
(* request has one holder, the session it was bound to, until its one      *)
(* outcome.  And Capacity: an index names every request that is there,     *)
(* outlives it, and never has more names than its limit.                   *)
(***************************************************************************)
EXTENDS Decisions, FiniteSetTheorems, WellFoundedInduction, TLAPS

---------------------------------------------------------------------------
\* The types.

Stages == {"idle", "take", "session", "save", "read", "sync", "issue", "restore", "deny"}
Someone == Browser \cup {Unbound}

RequestType ==
    [state : {"new", "kept", "taken", "gone"}, revision : Nat, session : Someone, ends : Int]
DecisionType ==
    [pc : Stages, request : AuthRequest, session : Someone,
     answer : {"approve", "deny", "granted"}, revision : Nat, bound : Someone,
     left : Int, version : Nat, granted : BOOLEAN]
RowType == [version : Nat, granted : BOOLEAN]
StateType == [client : SUBSET Client, version : Nat, granted : BOOLEAN]

RequestTypes == second \in Int /\ lifetime \in Nat /\ saved \in [AuthRequest -> RequestType]
DecisionTypes ==
    /\ decision \in [Decider -> DecisionType]
    /\ rebind \in [request : SUBSET AuthRequest, session : Someone, revision : Nat]
ConsentTypes ==
    /\ consent \in [Client -> RowType] /\ verdict \in [Client -> RowType]
    /\ disconnect \in [Disconnecter -> StateType] /\ check \in StateType
    /\ promised \in [Client -> Nat]
Types == RequestTypes /\ DecisionTypes /\ ConsentTypes

allVars == <<requestVars, decisionVars>>

LEMMA NoDecisionType == NoDecision \in DecisionType
<1>1. (CHOOSE r \in AuthRequest : TRUE) \in AuthRequest
  BY RequestsAssumption
<1> QED
  BY <1>1 DEF NoDecision, DecisionType, Stages, Someone

LEMMA TypesInit == RequestsInit /\ DecisionsInit => Types
<1> SUFFICES ASSUME RequestsInit, DecisionsInit PROVE Types
  OBVIOUS
<1>1. RequestTypes
  BY RequestsAssumption DEF RequestsInit, RequestTypes, RequestType, New, Someone
<1>2. decision \in [Decider -> DecisionType]
  BY NoDecisionType DEF DecisionsInit
<1>3. DecisionTypes
  BY <1>2 DEF DecisionsInit, DecisionTypes, NoRebind, Someone
<1>4. ConsentTypes
  BY DEF DecisionsInit, ConsentTypes, RowType, StateType, NoState
<1> QED
  BY <1>1, <1>3, <1>4 DEF Types

\* What a step does to the store of requests.
RequestStep ==
    \/ ChangeLifetime \/ SecondPasses \/ BindReplaces
    \/ \E r \in AuthRequest, s \in Someone : Authorize(r, s)
    \/ \E d \in Decider : Consume(d) \/ Restore(d)
    \/ UNCHANGED requestVars

LEMMA RequestSteps == [DecisionsNext]_allVars => RequestStep
<1> SUFFICES ASSUME [DecisionsNext]_allVars PROVE RequestStep
  OBVIOUS
<1>1. ASSUME NEW r \in AuthRequest, NEW s \in Browser \cup {Unbound}, AskUser(r, s)
      PROVE  RequestStep
  BY <1>1 DEF AskUser, RequestStep, Someone
<1>2. ASSUME NEW d \in Decider, NEW r \in AuthRequest, NEW s \in Browser, AskGranted(d, r, s)
      PROVE  RequestStep
  BY <1>2 DEF AskGranted, RequestStep, Someone
<1>3. ASSUME NEW d \in Decider, NEW r \in AuthRequest, NEW s \in Browser,
             NEW a \in {"approve", "deny"}, Find(d, r, s, a)
      PROVE  RequestStep
  BY <1>3 DEF Find, RequestStep
<1>4. ASSUME NEW r \in AuthRequest, NEW s \in Browser, BindReads(r, s) PROVE RequestStep
  BY <1>4 DEF BindReads, RequestStep
<1>5. ASSUME NEW d \in Decider,
             \/ Consume(d) \/ Deny(d) \/ CheckSession(d) \/ SaveConsent(d) \/ ReadConsent(d)
             \/ SyncCache(d) \/ Issue(d) \/ Restore(d) \/ Dies(d)
      PROVE  RequestStep
  BY <1>5 DEF Deny, CheckSession, SaveConsent, ReadConsent, SyncCache, Issue, Dies, RequestStep
<1>6. ASSUME NEW s \in Browser, SignsOut(s) PROVE RequestStep
  BY <1>6 DEF SignsOut, RequestStep
<1>7. ASSUME NEW c \in Client, CheckReads(c) \/ VerdictExpires(c) PROVE RequestStep
  BY <1>7 DEF CheckReads, VerdictExpires, RequestStep
<1>8. ASSUME NEW x \in Disconnecter,
             PublishRevocation(x) \/ \E c \in Client : Disconnect(x, c)
      PROVE  RequestStep
  BY <1>8 DEF Disconnect, PublishRevocation, RequestStep
<1>9. CASE ChangeLifetime \/ SecondPasses \/ BindReplaces
  BY <1>9 DEF RequestStep
<1>10. CASE CheckFills \/ UNCHANGED allVars
  BY <1>10 DEF CheckFills, allVars, RequestStep
<1> QED
  BY <1>1, <1>2, <1>3, <1>4, <1>5, <1>6, <1>7, <1>8, <1>9, <1>10 DEF DecisionsNext

LEMMA Rebound ==
    ASSUME NEW q \in RequestType, NEW s \in Someone
    PROVE  [q EXCEPT !.revision = @ + 1, !.session = s] \in RequestType
<1>1. ASSUME NEW n \in Nat PROVE [q EXCEPT !.revision = n, !.session = s] \in RequestType
  BY DEF RequestType
<1>2. q.revision + 1 \in Nat
  BY DEF RequestType
<1> QED
  BY <1>1, <1>2

LEMMA Ended ==
    ASSUME NEW q \in RequestType, NEW state \in {"taken", "gone"}
    PROVE  [q EXCEPT !.state = state] \in RequestType
  BY DEF RequestType

LEMMA RequestTypesNext == Types /\ [DecisionsNext]_allVars => RequestTypes'
<1> SUFFICES ASSUME Types, [DecisionsNext]_allVars PROVE RequestTypes'
  OBVIOUS
<1>0. /\ second \in Int /\ lifetime \in Nat /\ saved \in [AuthRequest -> RequestType]
      /\ decision \in [Decider -> DecisionType]
      /\ rebind \in [request : SUBSET AuthRequest, session : Someone, revision : Nat]
  BY DEF Types, RequestTypes, DecisionTypes
<1> USE <1>0 DEF RequestTypes
<1>k. ASSUME NEW r \in AuthRequest, NEW n \in Nat, NEW s \in Someone, NEW t \in Int,
             Keep(r, n, s, t), UNCHANGED <<second, lifetime>>
      PROVE  RequestTypes'
  BY <1>k DEF Keep, RequestType
<1>1. CASE ChangeLifetime
  BY <1>1, RequestsAssumption DEF ChangeLifetime
<1>2. CASE SecondPasses
  <2>1. second' \in Int /\ lifetime' \in Nat
    BY <1>2 DEF SecondPasses
  <2>2. ASSUME NEW r \in AuthRequest PROVE saved'[r] \in RequestType
    <3>1. saved[r] \in RequestType
      OBVIOUS
    <3>2. saved'[r] = saved[r] \/ saved'[r] = [saved[r] EXCEPT !.state = "gone"]
      BY <1>2 DEF SecondPasses
    <3> QED
      BY <3>1, <3>2, Ended
  <2>3. saved' = [r \in AuthRequest |-> saved'[r]]
    BY <1>2 DEF SecondPasses
  <2> QED
    BY <2>1, <2>2, <2>3
<1>3. ASSUME NEW r \in AuthRequest, NEW s \in Someone, Authorize(r, s)
      PROVE  RequestTypes'
  <2>1. Keep(r, 0, s, lifetime) \/ UNCHANGED saved
    BY <1>3 DEF Authorize, NoRoom
  <2>2. UNCHANGED <<second, lifetime>>
    BY <1>3 DEF Authorize
  <2> QED
    BY <2>1, <2>2, <1>k
<1>4. ASSUME NEW d \in Decider, Consume(d) PROVE RequestTypes'
  <2>1. decision[d].request \in AuthRequest
    BY DEF DecisionType
  <2>2. UNCHANGED <<second, lifetime>>
    BY <1>4 DEF Consume
  <2>3. \/ saved' = [saved EXCEPT ![decision[d].request].state = "taken"]
        \/ UNCHANGED saved
    BY <1>4 DEF Consume, TakeRequest, Misses
  <2>4. [saved[decision[d].request] EXCEPT !.state = "taken"] \in RequestType
    BY <2>1, Ended
  <2> QED
    BY <2>1, <2>2, <2>3, <2>4
<1>6. ASSUME NEW d \in Decider, Restore(d) PROVE RequestTypes'
  <2>1. decision[d] \in DecisionType
    OBVIOUS
  <2>2. UNCHANGED <<second, lifetime>>
    BY <1>6 DEF Restore
  <2>3. \/ Keep(decision[d].request, decision[d].revision, decision[d].bound, decision[d].left)
        \/ UNCHANGED saved
    BY <1>6 DEF Restore, NoRoom
  <2> QED
    BY <2>1, <2>2, <2>3, <1>k DEF DecisionType
<1>7. CASE BindReplaces
  <2>1. UNCHANGED <<second, lifetime>>
    BY <1>7 DEF BindReplaces
  <2>2. \A r \in rebind.request : r \in AuthRequest
    BY <1>0
  <2>3. ASSUME NEW r \in AuthRequest, Replace(r, rebind.revision, rebind.session)
        PROVE  saved' \in [AuthRequest -> RequestType]
    <3>1. saved[r] \in RequestType /\ rebind.session \in Someone
      BY <1>0
    <3>2. saved' = [saved EXCEPT ![r] =
              [saved[r] EXCEPT !.revision = @ + 1, !.session = rebind.session]]
      BY <2>3 DEF Replace
    <3> QED
      BY <1>0, <3>1, <3>2, Rebound
  <2>4. \/ UNCHANGED saved
        \/ \E r \in rebind.request : Replace(r, rebind.revision, rebind.session)
    BY <1>7 DEF BindReplaces, Misses
  <2> QED
    BY <2>1, <2>2, <2>3, <2>4
<1>8. CASE UNCHANGED requestVars
  BY <1>8 DEF requestVars
<1> QED
  BY <1>1, <1>2, <1>3, <1>4, <1>6, <1>7, <1>8, RequestSteps DEF RequestStep

---------------------------------------------------------------------------
LEMMA Moved ==
    ASSUME NEW q \in DecisionType, NEW pc \in Stages
    PROVE  [q EXCEPT !.pc = pc] \in DecisionType
  BY DEF DecisionType

LEMMA Started ==
    ASSUME NEW r \in AuthRequest, NEW s \in Someone,
           NEW a \in {"approve", "deny", "granted"}, NEW n \in Nat
    PROVE  /\ [NoDecision EXCEPT !.pc = "take", !.request = r, !.session = s, !.answer = a]
                  \in DecisionType
           /\ [NoDecision EXCEPT !.pc = "take", !.request = r, !.session = s, !.answer = a,
                                 !.revision = n] \in DecisionType
           /\ [NoDecision EXCEPT !.pc = "take", !.request = r, !.session = s, !.answer = a].pc
                  = "take"
           /\ [NoDecision EXCEPT !.pc = "take", !.request = r, !.session = s, !.answer = a,
                                 !.revision = n].pc = "take"
  BY NoDecisionType DEF DecisionType, Stages

LEMMA Taken ==
    ASSUME NEW q \in DecisionType, NEW pc \in Stages, NEW s \in Someone, NEW t \in Int
    PROVE  [q EXCEPT !.pc = pc, !.bound = s, !.left = t] \in DecisionType
  BY DEF DecisionType

LEMMA TakenAs ==
    ASSUME NEW q \in DecisionType, NEW pc, NEW s, NEW t
    PROVE  LET p == [q EXCEPT !.pc = pc, !.bound = s, !.left = t]
           IN p.pc = pc /\ p.bound = s /\ p.request = q.request /\ p.session = q.session
              /\ p.revision = q.revision
  BY DEF DecisionType

LEMMA HasRead ==
    ASSUME NEW q \in DecisionType, NEW n \in Nat, NEW g \in BOOLEAN
    PROVE  [q EXCEPT !.pc = "sync", !.version = n, !.granted = g] \in DecisionType
  BY DEF DecisionType, Stages

LEMMA DecisionNext ==
    ASSUME Types, NEW d \in Decider,
           \/ \E r \in AuthRequest, s \in Browser : AskGranted(d, r, s)
           \/ \E r \in AuthRequest, s \in Browser, a \in {"approve", "deny"} : Find(d, r, s, a)
           \/ Consume(d) \/ Deny(d) \/ CheckSession(d) \/ SaveConsent(d) \/ ReadConsent(d)
           \/ SyncCache(d) \/ Issue(d) \/ Restore(d) \/ Dies(d)
    PROVE  \E q \in DecisionType : decision' = [decision EXCEPT ![d] = q]
<1>0. /\ decision \in [Decider -> DecisionType] /\ saved \in [AuthRequest -> RequestType]
      /\ second \in Int /\ decision[d] \in DecisionType /\ consent \in [Client -> RowType]
      /\ decision[d].request \in AuthRequest
  BY DEF Types, RequestTypes, DecisionTypes, ConsentTypes, DecisionType
<1>n. decision' = [decision EXCEPT ![d] = NoDecision]
      => \E q \in DecisionType : decision' = [decision EXCEPT ![d] = q]
  BY NoDecisionType
<1>m. ASSUME NEW pc \in Stages, MovesTo(d, pc)
      PROVE  \E q \in DecisionType : decision' = [decision EXCEPT ![d] = q]
  <2>1. decision' = [decision EXCEPT ![d] = [decision[d] EXCEPT !.pc = pc]]
    BY <1>m DEF MovesTo
  <2> QED
    BY <1>0, <2>1, Moved
<1>u. UNCHANGED decision => \E q \in DecisionType : decision' = [decision EXCEPT ![d] = q]
  <2>1. decision = [decision EXCEPT ![d] = decision[d]]
    BY <1>0
  <2> QED
    BY <1>0, <2>1
<1>1. ASSUME NEW r \in AuthRequest, NEW s \in Browser, AskGranted(d, r, s)
      PROVE  \E q \in DecisionType : decision' = [decision EXCEPT ![d] = q]
  <2>1. \/ UNCHANGED decision
        \/ decision' = [decision EXCEPT ![d] = [NoDecision EXCEPT !.pc = "take",
                            !.request = r, !.session = s, !.answer = "granted"]]
    BY <1>1 DEF AskGranted
  <2> QED
    BY <2>1, <1>u, Started DEF Someone
<1>2. ASSUME NEW r \in AuthRequest, NEW s \in Browser, NEW a \in {"approve", "deny"},
             Find(d, r, s, a)
      PROVE  \E q \in DecisionType : decision' = [decision EXCEPT ![d] = q]
  <2>1. decision' = [decision EXCEPT ![d] = [NoDecision EXCEPT !.pc = "take", !.request = r,
           !.session = s, !.answer = a, !.revision = saved[r].revision]]
    BY <1>2 DEF Find
  <2>2. saved[r].revision \in Nat
    BY <1>0 DEF RequestType
  <2> QED
    BY <2>1, <2>2, Started DEF Someone
<1>3. CASE Consume(d)
  <2>1. \/ decision' = [decision EXCEPT ![d] = NoDecision]
        \/ \E pc \in {"session", "read", "deny"} :
              decision' = [decision EXCEPT ![d].pc = pc,
                               ![d].bound = saved[decision[d].request].session,
                               ![d].left = saved[decision[d].request].ends - second]
    BY <1>3, <1>0 DEF Consume, Finishes, DecisionType
  <2>2. /\ saved[decision[d].request].session \in Someone
        /\ saved[decision[d].request].ends - second \in Int
    BY <1>0 DEF RequestType
  <2>3. ASSUME NEW pc \in {"session", "read", "deny"},
               decision' = [decision EXCEPT ![d].pc = pc,
                               ![d].bound = saved[decision[d].request].session,
                               ![d].left = saved[decision[d].request].ends - second]
        PROVE  \E q \in DecisionType : decision' = [decision EXCEPT ![d] = q]
    <3>1. decision' = [decision EXCEPT ![d] = [decision[d] EXCEPT !.pc = pc,
                               !.bound = saved[decision[d].request].session,
                               !.left = saved[decision[d].request].ends - second]]
      BY <2>3
    <3> QED
      BY <1>0, <2>2, <3>1, Taken DEF Stages
  <2> QED
    BY <2>1, <2>3, <1>n
<1>4. CASE Deny(d)
  BY <1>4, <1>n DEF Deny, Finishes
<1>5. CASE CheckSession(d)
  BY <1>5, <1>m DEF CheckSession, Stages
<1>6. CASE SaveConsent(d)
  BY <1>6, <1>m DEF SaveConsent, Stages
<1>7. CASE ReadConsent(d)
  <2>1. \/ decision' = [decision EXCEPT ![d].pc = "sync",
               ![d].version = consent[Of(d)].version, ![d].granted = consent[Of(d)].granted]
        \/ MovesTo(d, "restore")
        \/ decision' = [decision EXCEPT ![d] = NoDecision]
    BY <1>7 DEF ReadConsent, Finishes
  <2>2. CASE decision' = [decision EXCEPT ![d].pc = "sync",
               ![d].version = consent[Of(d)].version, ![d].granted = consent[Of(d)].granted]
    <3>1. decision' = [decision EXCEPT ![d] = [decision[d] EXCEPT !.pc = "sync",
               !.version = consent[Of(d)].version, !.granted = consent[Of(d)].granted]]
      BY <2>2
    <3>2. consent[Of(d)].version \in Nat /\ consent[Of(d)].granted \in BOOLEAN
      BY <1>0, RequestsAssumption DEF Of, RowType
    <3> QED
      BY <1>0, <3>1, <3>2, HasRead
  <2> QED
    BY <2>1, <2>2, <1>m, <1>n DEF Stages
<1>8. CASE SyncCache(d)
  BY <1>8, <1>m DEF SyncCache, Stages
<1>9. CASE Issue(d)
  BY <1>9, <1>m, <1>n DEF Issue, Finishes, Stages
<1>10. CASE Restore(d) \/ Dies(d)
  BY <1>10, <1>n DEF Restore, Dies, Finishes
<1> QED
  BY <1>1, <1>2, <1>3, <1>4, <1>5, <1>6, <1>7, <1>8, <1>9, <1>10

---------------------------------------------------------------------------
\* The steps of a decision, and those of everything else.
Decides(d) ==
    \/ \E r \in AuthRequest, s \in Browser : AskGranted(d, r, s)
    \/ \E r \in AuthRequest, s \in Browser, a \in {"approve", "deny"} : Find(d, r, s, a)
    \/ Consume(d) \/ Deny(d) \/ CheckSession(d) \/ SaveConsent(d) \/ ReadConsent(d)
    \/ SyncCache(d) \/ Issue(d) \/ Restore(d) \/ Dies(d)

Elsewhere ==
    \/ (ChangeLifetime \/ SecondPasses) /\ UNCHANGED decisionVars
    \/ \E r \in AuthRequest, s \in Someone : AskUser(r, s)
    \/ \E r \in AuthRequest, s \in Browser : BindReads(r, s)
    \/ BindReplaces
    \/ \E s \in Browser : SignsOut(s)
    \/ \E c \in Client : CheckReads(c) \/ VerdictExpires(c)
    \/ \E x \in Disconnecter : PublishRevocation(x) \/ \E c \in Client : Disconnect(x, c)
    \/ CheckFills \/ UNCHANGED allVars

LEMMA Steps == [DecisionsNext]_allVars => Elsewhere \/ \E d \in Decider : Decides(d)
<1> SUFFICES ASSUME [DecisionsNext]_allVars PROVE Elsewhere \/ \E d \in Decider : Decides(d)
  OBVIOUS
<1> DEFINE Goal == Elsewhere \/ \E d \in Decider : Decides(d)
<1>1. ASSUME NEW d \in Decider, Decides(d) PROVE Goal
  BY <1>1
<1>2. CASE Elsewhere
  BY <1>2
<1>3. ASSUME NEW d \in Decider, NEW r \in AuthRequest, NEW s \in Browser, AskGranted(d, r, s)
      PROVE  Goal
  BY <1>3 DEF Decides
<1>4. ASSUME NEW d \in Decider, NEW r \in AuthRequest, NEW s \in Browser,
             NEW a \in {"approve", "deny"}, Find(d, r, s, a)
      PROVE  Goal
  BY <1>4 DEF Decides
<1>5. ASSUME NEW d \in Decider,
             \/ Consume(d) \/ Deny(d) \/ CheckSession(d) \/ SaveConsent(d) \/ ReadConsent(d)
             \/ SyncCache(d) \/ Issue(d) \/ Restore(d) \/ Dies(d)
      PROVE  Goal
  BY <1>5 DEF Decides
<1>6. ASSUME NEW r \in AuthRequest, NEW s \in Browser \cup {Unbound}, AskUser(r, s) PROVE Goal
  BY <1>6 DEF Elsewhere, Someone
<1>7. ASSUME NEW r \in AuthRequest, NEW s \in Browser, BindReads(r, s) PROVE Goal
  BY <1>7 DEF Elsewhere
<1>8. ASSUME \/ (ChangeLifetime \/ SecondPasses) /\ UNCHANGED decisionVars
             \/ BindReplaces
             \/ \E s \in Browser : SignsOut(s)
             \/ \E c \in Client : CheckReads(c) \/ VerdictExpires(c)
             \/ \E x \in Disconnecter : PublishRevocation(x) \/ \E c \in Client : Disconnect(x, c)
             \/ CheckFills \/ UNCHANGED allVars
      PROVE  Goal
  BY <1>8 DEF Elsewhere
<1> HIDE DEF Goal
<1>9. Goal
  BY <1>3, <1>4, <1>5, <1>6, <1>7, <1>8 DEF DecisionsNext
<1> QED
  BY <1>9 DEF Goal

LEMMA DecisionUnchanged == Elsewhere => UNCHANGED decision /\ UNCHANGED decided
<1> SUFFICES ASSUME Elsewhere PROVE UNCHANGED decision /\ UNCHANGED decided
  OBVIOUS
<1> USE DEF decisionVars, allVars
<1>1. ASSUME NEW r \in AuthRequest, NEW s \in Someone, AskUser(r, s) \/ BindReads(r, s)
      PROVE  UNCHANGED decision /\ UNCHANGED decided
  BY <1>1 DEF AskUser, BindReads
<1>2. ASSUME NEW x \in Disconnecter, NEW c \in Client, Disconnect(x, c)
      PROVE  UNCHANGED decision /\ UNCHANGED decided
  BY <1>2 DEF Disconnect
<1> QED
  BY <1>1, <1>2 DEF Elsewhere, BindReplaces, SignsOut, CheckReads, VerdictExpires,
     PublishRevocation, CheckFills, Someone

LEMMA DecisionTypesNext == Types /\ [DecisionsNext]_allVars => DecisionTypes'
<1> SUFFICES ASSUME Types, [DecisionsNext]_allVars PROVE DecisionTypes'
  OBVIOUS
<1>0. /\ saved \in [AuthRequest -> RequestType]
      /\ decision \in [Decider -> DecisionType]
      /\ rebind \in [request : SUBSET AuthRequest, session : Someone, revision : Nat]
  BY DEF Types, RequestTypes, DecisionTypes
<1>1. decision' \in [Decider -> DecisionType]
  <2>1. CASE Elsewhere
    BY <1>0, <2>1, DecisionUnchanged
  <2>2. ASSUME NEW d \in Decider, Decides(d) PROVE decision' \in [Decider -> DecisionType]
    BY <1>0, <2>2, DecisionNext DEF Decides
  <2> QED
    BY <2>1, <2>2, Steps
<1>2. rebind' \in [request : SUBSET AuthRequest, session : Someone, revision : Nat]
  <2>1. ASSUME NEW r \in AuthRequest, NEW s \in Browser, BindReads(r, s)
        PROVE  rebind' \in [request : SUBSET AuthRequest, session : Someone, revision : Nat]
    <3>1. saved[r].revision \in Nat
      BY <1>0 DEF RequestType
    <3> QED
      BY <2>1, <3>1 DEF BindReads, Someone
  <2>2. CASE BindReplaces
    BY <2>2 DEF BindReplaces, NoRebind, Someone
  <2>3. ASSUME NEW d \in Decider, Decides(d) PROVE UNCHANGED rebind
    BY <2>3 DEF Decides, AskGranted, Find, Consume, Deny, CheckSession, SaveConsent,
       ReadConsent, SyncCache, Issue, Restore, Dies, browserVars
  <2>4. CASE Elsewhere /\ ~BindReplaces /\ ~(\E r \in AuthRequest, s \in Browser : BindReads(r, s))
    BY <1>0, <2>4 DEF Elsewhere, AskUser, SignsOut, CheckReads, VerdictExpires,
       PublishRevocation, Disconnect, CheckFills, browserVars, decisionVars, allVars
  <2> QED
    BY <1>0, <2>1, <2>2, <2>3, <2>4, Steps
<1> QED
  BY <1>1, <1>2 DEF DecisionTypes

---------------------------------------------------------------------------
\* What the consents and their verdicts do in a step.

\* Somebody is about to write into the cache that version w of the consent of c is
\* a revocation.
RevocationOf(c, w) ==
    \/ \E x \in Disconnecter :
           c \in disconnect[x].client /\ disconnect[x].version = w /\ ~disconnect[x].granted
    \/ c \in check.client /\ check.version = w /\ ~check.granted
    \/ \E d \in Decider :
           decision[d].pc = "sync" /\ Of(d) = c /\ decision[d].version = w /\ ~decision[d].granted

\* The row has been at what is about to be written.
NoneAhead(c) ==
    \A w \in Nat : RevocationOf(c, w) =>
        w <= consent[c].version /\ (w = consent[c].version => ~consent[c].granted)

\* Version v of the row is, or was, a grant.
WasGranted(c, v) ==
    /\ v <= consent[c].version /\ (v = consent[c].version => consent[c].granted)
    /\ ~RevocationOf(c, v)

\* The cache does not contradict it with an older revocation, and will not.
Honours(c, v) ==
    /\ verdict[c].version > 0 /\ ~verdict[c].granted => verdict[c].version > v
    /\ \A w \in Nat : RevocationOf(c, w) => w > v \/ verdict[c].version >= v

ConsentMoves(c) ==
    /\ consent'[c] = consent[c] \/ consent'[c].version = consent[c].version + 1
    /\ \A w \in Nat : RevocationOf(c, w)' =>
           RevocationOf(c, w) \/ (w = consent'[c].version /\ ~consent'[c].granted)
    /\ \/ verdict'[c] = verdict[c]
       \/ /\ verdict[c].version <= verdict'[c].version
          /\ verdict'[c].granted \/ RevocationOf(c, verdict'[c].version)
       \/ verdict'[c].version = 0 /\ \A w \in Nat : ~RevocationOf(c, w)'

LEMMA NoneAheadKept ==
    ASSUME ConsentTypes, ConsentTypes', NEW c \in Client, ConsentMoves(c), NoneAhead(c)
    PROVE  NoneAhead(c)'
<1>1. consent[c] \in RowType /\ consent'[c] \in RowType
  BY DEF ConsentTypes
<1> QED
  BY <1>1 DEF ConsentMoves, NoneAhead, RowType

LEMMA WasGrantedKept ==
    ASSUME ConsentTypes, ConsentTypes', NEW c \in Client, NEW v \in Nat,
           ConsentMoves(c), WasGranted(c, v)
    PROVE  WasGranted(c, v)'
<1>1. consent[c] \in RowType /\ consent'[c] \in RowType
  BY DEF ConsentTypes
<1> QED
  BY <1>1 DEF ConsentMoves, WasGranted, RowType

LEMMA HonoursKept ==
    ASSUME ConsentTypes, ConsentTypes', NEW c \in Client, NEW v \in Nat,
           ConsentMoves(c), WasGranted(c, v), Honours(c, v)
    PROVE  Honours(c, v)'
<1>1. /\ consent[c] \in RowType /\ consent'[c] \in RowType
      /\ verdict[c] \in RowType /\ verdict'[c] \in RowType
  BY DEF ConsentTypes
<1>2. WasGranted(c, v)'
  BY WasGrantedKept
<1>3. ASSUME NEW w \in Nat, RevocationOf(c, w)'
      PROVE  w > v \/ RevocationOf(c, w)
  BY <1>1, <1>2, <1>3 DEF ConsentMoves, WasGranted, RowType
<1>4. CASE verdict'[c] = verdict[c]
  BY <1>1, <1>3, <1>4 DEF Honours, RowType
<1>5. CASE /\ verdict[c].version <= verdict'[c].version
           /\ verdict'[c].granted \/ RevocationOf(c, verdict'[c].version)
  <2>1. verdict'[c].version > 0 /\ ~verdict'[c].granted => verdict'[c].version > v
    BY <1>1, <1>5 DEF Honours, WasGranted, RowType
  <2>2. ASSUME NEW w \in Nat, RevocationOf(c, w)' PROVE w > v \/ verdict'[c].version >= v
    BY <1>1, <1>3, <1>5, <2>2 DEF Honours, RowType
  <2> QED
    BY <2>1, <2>2 DEF Honours
<1>6. CASE verdict'[c].version = 0 /\ \A w \in Nat : ~RevocationOf(c, w)'
  BY <1>6 DEF Honours
<1> QED
  BY <1>4, <1>5, <1>6 DEF ConsentMoves

---------------------------------------------------------------------------
\* The steps that leave the consents alone and bring no decision to the cache.
Quiet ==
    /\ UNCHANGED consentVars
    /\ \A d \in Decider : decision'[d].pc \in {"sync", "issue"} => decision'[d] = decision[d]

Eventful ==
    \/ \E d \in Decider : SaveConsent(d) \/ ReadConsent(d) \/ SyncCache(d) \/ Issue(d)
    \/ \E x \in Disconnecter : PublishRevocation(x) \/ \E c \in Client : Disconnect(x, c)
    \/ \E c \in Client : CheckReads(c) \/ VerdictExpires(c)
    \/ CheckFills

LEMMA OnlyOneMoves ==
    ASSUME DecisionTypes, NEW d \in Decider, NEW q, decision' = [decision EXCEPT ![d] = q]
    PROVE  decision'[d] = q /\ \A e \in Decider : e # d => decision'[e] = decision[e]
  BY DEF DecisionTypes

LEMMA MovesAway ==
    ASSUME DecisionTypes, NEW d \in Decider, NEW pc \in {"save", "read", "restore", "issue"},
           MovesTo(d, pc)
    PROVE  /\ decision'[d] = [decision[d] EXCEPT !.pc = pc]
           /\ decision'[d].pc = pc
           /\ \A e \in Decider : e # d => decision'[e] = decision[e]
<1>1. decision[d] \in DecisionType
  BY DEF DecisionTypes
<1> QED
  BY <1>1 DEF MovesTo, DecisionTypes, DecisionType

LEMMA FinishesIdle ==
    ASSUME DecisionTypes, NEW d \in Decider, Finishes(d)
    PROVE  /\ decision'[d] = NoDecision /\ decision'[d].pc = "idle"
           /\ \A e \in Decider : e # d => decision'[e] = decision[e]
  BY DEF Finishes, DecisionTypes, NoDecision

LEMMA QuietMove ==
    ASSUME DecisionTypes, NEW d \in Decider, NEW q, decision' = [decision EXCEPT ![d] = q],
           q.pc \notin {"sync", "issue"}, UNCHANGED consentVars
    PROVE  Quiet
  BY OnlyOneMoves DEF Quiet

LEMMA QuietSteps ==
    ASSUME Types, [DecisionsNext]_allVars
    PROVE  Quiet \/ Eventful
<1> USE DEF Types
<1>1. ASSUME Elsewhere, ~Eventful PROVE Quiet
  <2>1. UNCHANGED decision
    BY <1>1, DecisionUnchanged
  <2>2. UNCHANGED consentVars
    BY <1>1 DEF Elsewhere, Eventful, AskUser, BindReads, BindReplaces, SignsOut,
       decisionVars, allVars
  <2> QED
    BY <2>1, <2>2 DEF Quiet
<1>2. ASSUME NEW d \in Decider, Decides(d), ~Eventful PROVE Quiet
  <2>1. UNCHANGED consentVars
    BY <1>2 DEF Decides, Eventful, AskGranted, Find, Consume, Deny, CheckSession, Restore, Dies
  <2> USE <2>1
  <2>2. ASSUME NEW r \in AuthRequest, NEW s \in Browser, AskGranted(d, r, s)
        PROVE  Quiet
    <3> DEFINE q == [NoDecision EXCEPT !.pc = "take", !.request = r, !.session = s,
                                       !.answer = "granted"]
    <3>1. decision' = decision \/ decision' = [decision EXCEPT ![d] = q]
      BY <2>2 DEF AskGranted
    <3>2. q.pc = "take"
      BY Started DEF Someone
    <3> HIDE DEF q
    <3> QED
      BY <3>1, <3>2, QuietMove DEF Quiet
  <2>3. ASSUME NEW r \in AuthRequest, NEW s \in Browser, NEW a \in {"approve", "deny"},
               Find(d, r, s, a)
        PROVE  Quiet
    <3> DEFINE q == [NoDecision EXCEPT !.pc = "take", !.request = r, !.session = s,
                                       !.answer = a, !.revision = saved[r].revision]
    <3>1. decision' = [decision EXCEPT ![d] = q]
      BY <2>3 DEF Find
    <3>2. saved[r].revision \in Nat
      BY DEF Types, RequestTypes, RequestType
    <3>3. q.pc = "take"
      BY NoDecisionType DEF DecisionType
    <3> HIDE DEF q
    <3> QED
      BY <3>1, <3>3, QuietMove
  <2>4. CASE Consume(d)
    <3>1. decision[d] \in DecisionType
      BY DEF DecisionTypes
    <3>2. \/ Finishes(d)
          \/ \E pc \in {"session", "read", "deny"} :
                decision' = [decision EXCEPT ![d].pc = pc,
                                 ![d].bound = saved[decision[d].request].session,
                                 ![d].left = saved[decision[d].request].ends - second]
      BY <2>4, <3>1 DEF Consume, DecisionType
    <3>3. ASSUME NEW pc \in {"session", "read", "deny"},
                 decision' = [decision EXCEPT ![d].pc = pc,
                                 ![d].bound = saved[decision[d].request].session,
                                 ![d].left = saved[decision[d].request].ends - second]
          PROVE  Quiet
      <4> DEFINE q == [decision[d] EXCEPT !.pc = pc,
                               !.bound = saved[decision[d].request].session,
                               !.left = saved[decision[d].request].ends - second]
      <4>1. decision' = [decision EXCEPT ![d] = q]
        BY <3>3
      <4>2. q.pc = pc
        BY <3>1, TakenAs
      <4> HIDE DEF q
      <4> QED
        BY <4>1, <4>2, QuietMove
    <3> QED
      BY <3>2, <3>3, FinishesIdle DEF Quiet
  <2>5. CASE Deny(d) \/ Restore(d) \/ Dies(d)
    BY <2>1, <2>5, FinishesIdle DEF Deny, Restore, Dies, Quiet
  <2>6. CASE CheckSession(d)
    BY <2>1, <2>6, MovesAway DEF CheckSession, Quiet
  <2> QED
    BY <1>2, <2>2, <2>3, <2>4, <2>5, <2>6 DEF Decides, Eventful
<1> QED
  BY <1>1, <1>2, Steps

LEMMA Written ==
    ASSUME ConsentTypes, NEW c \in Client, NEW state, state.version \in Nat,
           state.granted \in BOOLEAN, Writes(c, state) \/ UNCHANGED verdict
    PROVE  /\ verdict' \in [Client -> RowType]
           /\ \A e \in Client :
                  \/ verdict'[e] = verdict[e]
                  \/ /\ e = c /\ verdict[e].version <= state.version
                     /\ verdict'[e].version = state.version
                     /\ verdict'[e].granted = state.granted
  BY DEF ConsentTypes, Writes, NoNewer, RowType

---------------------------------------------------------------------------
LEMMA ConsentTypesNext == Types /\ [DecisionsNext]_allVars => ConsentTypes'
<1> SUFFICES ASSUME Types, [DecisionsNext]_allVars PROVE ConsentTypes'
  OBVIOUS
<1>0. /\ consent \in [Client -> RowType] /\ verdict \in [Client -> RowType]
      /\ disconnect \in [Disconnecter -> StateType] /\ check \in StateType
      /\ promised \in [Client -> Nat]
      /\ decision \in [Decider -> DecisionType]
      /\ \A d \in Decider : Of(d) \in Client /\ decision[d].version \in Nat
                            /\ decision[d].granted \in BOOLEAN
  BY RequestsAssumption DEF Types, ConsentTypes, DecisionTypes, Of, DecisionType
<1>1. CASE Quiet
  BY <1>0, <1>1 DEF Quiet, consentVars, ConsentTypes
<1>2. ASSUME NEW d \in Decider, SaveConsent(d) PROVE ConsentTypes'
  <2>1. UNCHANGED <<verdict, disconnect, check, promised>>
    BY <1>2 DEF SaveConsent
  <2>2. \/ UNCHANGED consent
        \/ consent' = [consent EXCEPT ![Of(d)] = [version |-> @.version + 1, granted |-> TRUE]]
    BY <1>2 DEF SaveConsent
  <2>3. consent[Of(d)].version + 1 \in Nat
    BY <1>0 DEF RowType
  <2>4. [version |-> consent[Of(d)].version + 1, granted |-> TRUE] \in RowType
    BY <2>3 DEF RowType
  <2>5. consent' \in [Client -> RowType]
    BY <1>0, <2>2, <2>4
  <2> QED
    BY <1>0, <2>1, <2>5 DEF ConsentTypes
<1>3. ASSUME NEW d \in Decider, ReadConsent(d) PROVE ConsentTypes'
  BY <1>0, <1>3 DEF ReadConsent, consentVars, ConsentTypes
<1>4. ASSUME NEW d \in Decider, SyncCache(d) PROVE ConsentTypes'
  <2>1. UNCHANGED <<consent, disconnect, check, promised>>
    BY <1>4 DEF SyncCache
  <2>2. Writes(Of(d), decision[d]) \/ UNCHANGED verdict
    BY <1>4 DEF SyncCache
  <2>3. verdict' \in [Client -> RowType]
    BY <1>0, <2>2, Written DEF ConsentTypes
  <2> QED
    BY <1>0, <2>1, <2>3 DEF ConsentTypes
<1>5. ASSUME NEW d \in Decider, Issue(d) PROVE ConsentTypes'
  <2>1. UNCHANGED <<consent, verdict, disconnect, check>>
    BY <1>5 DEF Issue
  <2>2. \/ UNCHANGED promised
        \/ promised' = [promised EXCEPT ![Of(d)] = decision[d].version]
    BY <1>5 DEF Issue
  <2> QED
    BY <1>0, <2>1, <2>2 DEF ConsentTypes
<1>6. ASSUME NEW x \in Disconnecter, NEW c \in Client, Disconnect(x, c) PROVE ConsentTypes'
  <2>1. UNCHANGED <<verdict, check, promised>>
    BY <1>6 DEF Disconnect
  <2>2. consent' = [consent EXCEPT ![c] = [version |-> @.version + 1, granted |-> FALSE]]
    BY <1>6 DEF Disconnect
  <2>3. disconnect' = [disconnect EXCEPT ![x] =
           [client |-> {c}, version |-> consent[c].version + 1, granted |-> FALSE]]
    BY <1>6 DEF Disconnect
  <2>4. consent[c].version + 1 \in Nat
    BY <1>0 DEF RowType
  <2>5. consent' \in [Client -> RowType]
    BY <1>0, <2>2, <2>4 DEF RowType
  <2>6. disconnect' \in [Disconnecter -> StateType]
    BY <1>0, <2>3, <2>4 DEF StateType
  <2> QED
    BY <1>0, <2>1, <2>5, <2>6 DEF ConsentTypes
<1>7. ASSUME NEW x \in Disconnecter, PublishRevocation(x) PROVE ConsentTypes'
  <2>1. UNCHANGED <<consent, check, promised>>
    BY <1>7 DEF PublishRevocation
  <2>2. disconnect' \in [Disconnecter -> StateType]
    BY <1>0, <1>7 DEF PublishRevocation, NoState, StateType
  <2>3. \/ UNCHANGED verdict
        \/ \E c \in disconnect[x].client : Writes(c, disconnect[x])
    BY <1>7 DEF PublishRevocation
  <2>4. verdict' \in [Client -> RowType]
    <3>1. disconnect[x] \in StateType
      BY <1>0
    <3> QED
      BY <1>0, <2>3, <3>1, Written DEF ConsentTypes, StateType
  <2> QED
    BY <1>0, <2>1, <2>2, <2>4 DEF ConsentTypes
<1>8. ASSUME NEW c \in Client, CheckReads(c) PROVE ConsentTypes'
  <2>1. consent[c] \in RowType
    BY <1>0
  <2> QED
    BY <1>0, <1>8, <2>1 DEF CheckReads, ConsentTypes, StateType, RowType
<1>9. ASSUME NEW c \in Client, VerdictExpires(c) PROVE ConsentTypes'
  BY <1>0, <1>9 DEF VerdictExpires, ConsentTypes, RowType
<1>10. CASE CheckFills
  <2>1. UNCHANGED <<consent, disconnect, promised>>
    BY <1>10 DEF CheckFills
  <2>2. check' \in StateType
    BY <1>10 DEF CheckFills, NoState, StateType
  <2>3. UNCHANGED verdict \/ \E c \in check.client : Writes(c, check)
    BY <1>10 DEF CheckFills
  <2>4. verdict' \in [Client -> RowType]
    BY <1>0, <2>3, Written DEF ConsentTypes, StateType
  <2> QED
    BY <1>0, <2>1, <2>2, <2>4 DEF ConsentTypes
<1> QED
  BY <1>1, <1>2, <1>3, <1>4, <1>5, <1>6, <1>7, <1>8, <1>9, <1>10, QuietSteps DEF Eventful

LEMMA TypesNext == Types /\ [DecisionsNext]_allVars => Types'
  BY RequestTypesNext, DecisionTypesNext, ConsentTypesNext DEF Types

---------------------------------------------------------------------------
\* A decision that leaves a stage or keeps it adds no revocation.
NoNewReader == \A d \in Decider : decision'[d].pc = "sync" => decision'[d] = decision[d]

LEMMA SameWriters ==
    ASSUME NEW c \in Client, NEW w \in Nat, UNCHANGED <<disconnect, check>>, NoNewReader,
           RevocationOf(c, w)'
    PROVE  RevocationOf(c, w)
  BY DEF RevocationOf, Of, NoNewReader

LEMMA MoveOf ==
    ASSUME Types, [DecisionsNext]_allVars, NEW c \in Client
    PROVE  ConsentMoves(c)
<1>0. /\ ConsentTypes /\ DecisionTypes
      /\ consent \in [Client -> RowType] /\ verdict \in [Client -> RowType]
      /\ disconnect \in [Disconnecter -> StateType] /\ check \in StateType
      /\ decision \in [Decider -> DecisionType]
      /\ \A d \in Decider : Of(d) \in Client /\ decision[d].version \in Nat
                            /\ decision[d].granted \in BOOLEAN
  BY RequestsAssumption DEF Types, ConsentTypes, DecisionTypes, Of, DecisionType
<1>s. ASSUME UNCHANGED <<disconnect, check>>, NoNewReader,
             consent'[c] = consent[c] \/ consent'[c].version = consent[c].version + 1,
             \/ verdict'[c] = verdict[c]
             \/ /\ verdict[c].version <= verdict'[c].version
                /\ verdict'[c].granted \/ RevocationOf(c, verdict'[c].version)
      PROVE  ConsentMoves(c)
  BY <1>s, SameWriters DEF ConsentMoves
<1>1. CASE Quiet
  <2>1. UNCHANGED <<consent, verdict, disconnect, check>> /\ NoNewReader
    BY <1>1 DEF Quiet, consentVars, NoNewReader
  <2> QED
    BY <2>1, <1>s
<1>2. ASSUME NEW d \in Decider, SaveConsent(d) PROVE ConsentMoves(c)
  <2>1. UNCHANGED <<verdict, disconnect, check>>
    BY <1>2 DEF SaveConsent
  <2>2. NoNewReader
    BY <1>0, <1>2, MovesAway DEF SaveConsent, NoNewReader
  <2>3. consent'[c] = consent[c] \/ consent'[c].version = consent[c].version + 1
    BY <1>0, <1>2 DEF SaveConsent
  <2> QED
    BY <2>1, <2>2, <2>3, <1>s
<1>3. ASSUME NEW d \in Decider, ReadConsent(d) PROVE ConsentMoves(c)
  <2>1. UNCHANGED <<consent, verdict, disconnect, check>>
    BY <1>3 DEF ReadConsent, consentVars
  <2>2. decision[d] \in DecisionType
    BY <1>0
  <2>3. CASE MovesTo(d, "restore") \/ Finishes(d)
    <3>1. NoNewReader
      BY <1>0, <2>3, MovesAway, FinishesIdle DEF NoNewReader
    <3> QED
      BY <2>1, <3>1, <1>s
  <2>4. CASE ~(MovesTo(d, "restore") \/ Finishes(d))
    <3>1. decision' = [decision EXCEPT ![d].pc = "sync", ![d].version = consent[Of(d)].version,
                                       ![d].granted = consent[Of(d)].granted]
      BY <1>3, <2>4 DEF ReadConsent
    <3>2. \A e \in Decider : e # d => decision'[e] = decision[e]
      BY <1>0, <3>1
    <3>3. /\ decision'[d].request = decision[d].request
          /\ decision'[d].version = consent[Of(d)].version
          /\ decision'[d].granted = consent[Of(d)].granted
      BY <1>0, <2>2, <3>1 DEF DecisionType
    <3>4. ASSUME NEW w \in Nat, RevocationOf(c, w)'
          PROVE  RevocationOf(c, w) \/ (w = consent'[c].version /\ ~consent'[c].granted)
      BY <2>1, <3>2, <3>3, <3>4 DEF RevocationOf, Of
    <3> QED
      BY <2>1, <3>4 DEF ConsentMoves
  <2> QED
    BY <2>3, <2>4
<1>4. ASSUME NEW d \in Decider, SyncCache(d) PROVE ConsentMoves(c)
  <2>1. UNCHANGED <<consent, disconnect, check>> /\ decision[d].pc = "sync"
    BY <1>4 DEF SyncCache
  <2>2. NoNewReader
    BY <1>0, <1>4, MovesAway DEF SyncCache, NoNewReader
  <2>3. Writes(Of(d), decision[d]) \/ UNCHANGED verdict
    BY <1>4 DEF SyncCache
  <2>4. \/ verdict'[c] = verdict[c]
        \/ /\ Of(d) = c /\ verdict[c].version <= decision[d].version
           /\ verdict'[c].version = decision[d].version
           /\ verdict'[c].granted = decision[d].granted
    BY <1>0, <2>3, Written
  <2>5. \/ verdict'[c] = verdict[c]
        \/ /\ verdict[c].version <= verdict'[c].version
           /\ verdict'[c].granted \/ RevocationOf(c, verdict'[c].version)
    BY <2>1, <2>4 DEF RevocationOf
  <2> QED
    BY <2>1, <2>2, <2>5, <1>s
<1>5. ASSUME NEW d \in Decider, Issue(d) PROVE ConsentMoves(c)
  <2>1. UNCHANGED <<consent, verdict, disconnect, check>>
    BY <1>5 DEF Issue
  <2>2. NoNewReader
    BY <1>0, <1>5, MovesAway, FinishesIdle DEF Issue, NoNewReader
  <2> QED
    BY <2>1, <2>2, <1>s
<1>6. ASSUME NEW x \in Disconnecter, NEW k \in Client, Disconnect(x, k) PROVE ConsentMoves(c)
  <2>1. UNCHANGED <<verdict, check, decision>>
    BY <1>6 DEF Disconnect
  <2>2. consent'[c] = consent[c] \/ consent'[c].version = consent[c].version + 1
    BY <1>0, <1>6 DEF Disconnect
  <2>3. /\ disconnect'[x].client = {k}
        /\ disconnect'[x].version = consent'[k].version /\ ~consent'[k].granted
        /\ \A y \in Disconnecter : y # x => disconnect'[y] = disconnect[y]
    BY <1>0, <1>6 DEF Disconnect
  <2>4. ASSUME NEW w \in Nat, RevocationOf(c, w)'
        PROVE  RevocationOf(c, w) \/ (w = consent'[c].version /\ ~consent'[c].granted)
    BY <2>1, <2>3, <2>4 DEF RevocationOf, Of
  <2> QED
    BY <2>1, <2>2, <2>4 DEF ConsentMoves
<1>7. ASSUME NEW x \in Disconnecter, PublishRevocation(x) PROVE ConsentMoves(c)
  <2>1. UNCHANGED <<consent, check, decision>>
    BY <1>7 DEF PublishRevocation
  <2>2. disconnect' = [disconnect EXCEPT ![x] = NoState]
    BY <1>7 DEF PublishRevocation
  <2>3. ASSUME NEW w \in Nat, RevocationOf(c, w)' PROVE RevocationOf(c, w)
    BY <1>0, <2>1, <2>2, <2>3 DEF RevocationOf, Of, NoState
  <2>4. \/ UNCHANGED verdict
        \/ \E k \in disconnect[x].client : Writes(k, disconnect[x])
    BY <1>7 DEF PublishRevocation
  <2>5. \A k \in disconnect[x].client : k \in Client
    BY <1>0 DEF StateType
  <2>6. disconnect[x].version \in Nat /\ disconnect[x].granted \in BOOLEAN
    BY <1>0 DEF StateType
  <2>7. \/ verdict'[c] = verdict[c]
        \/ /\ c \in disconnect[x].client /\ verdict[c].version <= disconnect[x].version
           /\ verdict'[c].version = disconnect[x].version
           /\ verdict'[c].granted = disconnect[x].granted
    BY <1>0, <2>4, <2>5, <2>6, Written
  <2>8. \/ verdict'[c] = verdict[c]
        \/ /\ verdict[c].version <= verdict'[c].version
           /\ verdict'[c].granted \/ RevocationOf(c, verdict'[c].version)
    BY <2>7 DEF RevocationOf
  <2> QED
    BY <2>1, <2>3, <2>8 DEF ConsentMoves
<1>8. ASSUME NEW k \in Client, CheckReads(k) PROVE ConsentMoves(c)
  <2>1. UNCHANGED <<consent, verdict, disconnect, decision>>
    BY <1>8 DEF CheckReads
  <2>2. /\ check'.client = {k} /\ check'.version = consent[k].version
        /\ check'.granted = consent[k].granted
    BY <1>8 DEF CheckReads
  <2>3. ASSUME NEW w \in Nat, RevocationOf(c, w)'
        PROVE  RevocationOf(c, w) \/ (w = consent'[c].version /\ ~consent'[c].granted)
    BY <2>1, <2>2, <2>3 DEF RevocationOf, Of
  <2> QED
    BY <2>1, <2>3 DEF ConsentMoves
<1>9. ASSUME NEW k \in Client, VerdictExpires(k) PROVE ConsentMoves(c)
  <2>1. UNCHANGED <<consent, disconnect, check, decision>>
    BY <1>9 DEF VerdictExpires
  <2>2. CASE k = c
    <3>1. verdict'[c].version = 0
      BY <1>0, <1>9, <2>2 DEF VerdictExpires
    <3>2. \A w \in Nat : ~RevocationOf(c, w)'
      BY <2>1, <1>9, <2>2 DEF VerdictExpires, RevocationOf, Of
    <3> QED
      BY <2>1, <3>1, <3>2 DEF ConsentMoves
  <2>3. CASE k # c
    <3>1. verdict'[c] = verdict[c]
      BY <1>0, <1>9, <2>3 DEF VerdictExpires
    <3> QED
      BY <2>1, <3>1, <1>s DEF NoNewReader
  <2> QED
    BY <2>2, <2>3
<1>10. CASE CheckFills
  <2>1. UNCHANGED <<consent, disconnect, decision>> /\ check' = NoState
    BY <1>10 DEF CheckFills
  <2>2. ASSUME NEW w \in Nat, RevocationOf(c, w)' PROVE RevocationOf(c, w)
    BY <2>1, <2>2 DEF RevocationOf, Of, NoState
  <2>3. UNCHANGED verdict \/ \E k \in check.client : Writes(k, check)
    BY <1>10 DEF CheckFills
  <2>4. \/ verdict'[c] = verdict[c]
        \/ /\ c \in check.client /\ verdict[c].version <= check.version
           /\ verdict'[c].version = check.version /\ verdict'[c].granted = check.granted
    BY <1>0, <2>3, Written DEF StateType
  <2>5. \/ verdict'[c] = verdict[c]
        \/ /\ verdict[c].version <= verdict'[c].version
           /\ verdict'[c].granted \/ RevocationOf(c, verdict'[c].version)
    BY <2>4 DEF RevocationOf
  <2> QED
    BY <2>1, <2>2, <2>5 DEF ConsentMoves
<1> QED
  BY <1>1, <1>2, <1>3, <1>4, <1>5, <1>6, <1>7, <1>8, <1>9, <1>10, QuietSteps DEF Eventful

---------------------------------------------------------------------------
\* What a code that is about to go out, or has gone out, rests on.
RestsOn(d, c, v) == decision[d].granted /\ Of(d) = c /\ decision[d].version = v

GrantStands(c, v) ==
    /\ promised[c] = v => WasGranted(c, v) /\ Honours(c, v)
    /\ \A d \in Decider : RestsOn(d, c, v) =>
           /\ decision[d].pc \in {"sync", "issue"} => WasGranted(c, v)
           /\ decision[d].pc = "issue" => Honours(c, v)

GrantsStand ==
    /\ \A c \in Client : NoneAhead(c)
    /\ \A c \in Client, v \in Nat \ {0} : GrantStands(c, v)

LEMMA GrantsInit == RequestsInit /\ DecisionsInit => GrantsStand
<1> SUFFICES ASSUME RequestsInit, DecisionsInit PROVE GrantsStand
  OBVIOUS
<1>1. \A d \in Decider : decision[d].pc = "idle"
  BY DEF DecisionsInit, NoDecision
<1>2. \A c \in Client : promised[c] = 0
  BY DEF DecisionsInit
<1>3. \A c \in Client, w \in Nat : ~RevocationOf(c, w)
  BY <1>1 DEF DecisionsInit, RevocationOf, NoState
<1>4. \A c \in Client : NoneAhead(c)
  BY <1>3 DEF NoneAhead
<1>5. \A c \in Client, v \in Nat \ {0} : GrantStands(c, v)
  BY <1>1, <1>2 DEF GrantStands
<1> QED
  BY <1>4, <1>5 DEF GrantsStand

LEMMA GrantsNext ==
    ASSUME Types, GrantsStand, [DecisionsNext]_allVars
    PROVE  GrantsStand'
<1>t. Types'
  BY TypesNext
<1>0. /\ ConsentTypes /\ ConsentTypes' /\ DecisionTypes
      /\ consent \in [Client -> RowType] /\ verdict \in [Client -> RowType]
      /\ promised \in [Client -> Nat]
      /\ decision \in [Decider -> DecisionType]
      /\ \A d \in Decider : Of(d) \in Client /\ decision[d].version \in Nat
                            /\ decision[d].granted \in BOOLEAN
  BY <1>t, RequestsAssumption DEF Types, ConsentTypes, DecisionTypes, Of, DecisionType
<1>m. \A c \in Client : ConsentMoves(c)
  BY MoveOf
<1>1. \A c \in Client : NoneAhead(c)'
  BY <1>0, <1>m, NoneAheadKept DEF GrantsStand
<1>2. ASSUME NEW c \in Client, NEW v \in Nat, WasGranted(c, v)
      PROVE  WasGranted(c, v)' /\ (Honours(c, v) => Honours(c, v)')
  BY <1>0, <1>m, <1>2, WasGrantedKept, HonoursKept
<1> SUFFICES ASSUME NEW c \in Client, NEW v \in Nat \ {0} PROVE GrantStands(c, v)'
  BY <1>1 DEF GrantsStand
<1>3. GrantStands(c, v)
  BY DEF GrantsStand
<1> DEFINE Stands(d) ==
    RestsOn(d, c, v)' =>
        /\ decision'[d].pc \in {"sync", "issue"} => WasGranted(c, v)'
        /\ decision'[d].pc = "issue" => Honours(c, v)'
\* What stays where it is, or goes anywhere but into these two stages.
<1>d. ASSUME NEW d \in Decider,
             decision'[d] = decision[d] \/ decision'[d].pc \notin {"sync", "issue"}
      PROVE  Stands(d)
  <2>1. CASE decision'[d] = decision[d]
    <3>1. RestsOn(d, c, v)' => RestsOn(d, c, v)
      BY <2>1 DEF RestsOn, Of
    <3> QED
      BY <2>1, <3>1, <1>2, <1>3 DEF GrantStands
  <2> QED
    BY <1>d, <2>1
<1>p. UNCHANGED promised => (promised'[c] = v => WasGranted(c, v)' /\ Honours(c, v)')
  BY <1>2, <1>3 DEF GrantStands
<1>g. (\A d \in Decider : Stands(d)) /\ (promised'[c] = v => WasGranted(c, v)' /\ Honours(c, v)')
      => GrantStands(c, v)'
  BY DEF GrantStands
<1> HIDE DEF Stands
<1>4. CASE Quiet
  BY <1>4, <1>d, <1>p, <1>g DEF Quiet, consentVars
<1>5. ASSUME NEW e \in Decider, SaveConsent(e) PROVE GrantStands(c, v)'
  <2>1. UNCHANGED promised
    BY <1>5 DEF SaveConsent
  <2>2. \A d \in Decider : Stands(d)
    BY <1>0, <1>d, <1>5, MovesAway DEF SaveConsent
  <2> QED
    BY <2>1, <2>2, <1>p, <1>g
<1>6. ASSUME NEW e \in Decider, ReadConsent(e) PROVE GrantStands(c, v)'
  <2>1. UNCHANGED promised /\ UNCHANGED consent
    BY <1>6 DEF ReadConsent, consentVars
  <2>2. CASE MovesTo(e, "restore") \/ Finishes(e)
    <3>1. \A d \in Decider : Stands(d)
      BY <1>0, <1>d, <2>2, MovesAway, FinishesIdle
    <3> QED
      BY <2>1, <3>1, <1>p, <1>g
  <2>3. CASE ~(MovesTo(e, "restore") \/ Finishes(e))
    <3>1. decision' = [decision EXCEPT ![e].pc = "sync", ![e].version = consent[Of(e)].version,
                                       ![e].granted = consent[Of(e)].granted]
      BY <1>6, <2>3 DEF ReadConsent
    <3>2. \A d \in Decider : d # e => decision'[d] = decision[d]
      BY <1>0, <3>1
    <3>3. decision[e] \in DecisionType /\ consent[c] \in RowType
      BY <1>0
    <3>4. /\ decision'[e].request = decision[e].request /\ decision'[e].pc = "sync"
          /\ decision'[e].version = consent[Of(e)].version
          /\ decision'[e].granted = consent[Of(e)].granted
      BY <1>0, <3>1, <3>3 DEF DecisionType
    <3>5. ASSUME RestsOn(e, c, v)' PROVE WasGranted(c, v)'
      <4>1. v = consent'[c].version /\ consent'[c].granted
        BY <2>1, <3>4, <3>5 DEF RestsOn, Of
      <4>2. ~RevocationOf(c, v)'
        BY <1>1, <4>1 DEF NoneAhead
      <4> QED
        BY <2>1, <3>3, <4>1, <4>2 DEF WasGranted, RowType
    <3>6. Stands(e)
      BY <3>4, <3>5 DEF Stands
    <3>7. \A d \in Decider : Stands(d)
      BY <1>d, <3>2, <3>6
    <3> QED
      BY <2>1, <3>7, <1>p, <1>g
  <2> QED
    BY <2>2, <2>3
<1>7. ASSUME NEW e \in Decider, SyncCache(e) PROVE GrantStands(c, v)'
  <2>1. UNCHANGED promised
    BY <1>7 DEF SyncCache
  <2>2. \A d \in Decider : d # e => decision'[d] = decision[d]
    BY <1>0, <1>7, MovesAway DEF SyncCache
  <2>3. CASE MovesTo(e, "restore")
    <3>1. \A d \in Decider : Stands(d)
      BY <1>0, <1>d, <2>2, <2>3, MovesAway
    <3> QED
      BY <2>1, <3>1, <1>p, <1>g
  <2>4. CASE ~MovesTo(e, "restore")
    <3>1. MovesTo(e, "issue") /\ Writes(Of(e), decision[e]) /\ decision[e].pc = "sync"
      BY <1>7, <2>4 DEF SyncCache
    <3>2. decision[e] \in DecisionType
      BY <1>0
    <3>3. /\ decision'[e].request = decision[e].request
          /\ decision'[e].version = decision[e].version
          /\ decision'[e].granted = decision[e].granted
      BY <1>0, <3>1, <3>2, MovesAway DEF DecisionType
    <3>4. ASSUME RestsOn(e, c, v)' PROVE WasGranted(c, v)' /\ Honours(c, v)'
      <4>1. RestsOn(e, c, v)
        BY <3>3, <3>4 DEF RestsOn, Of
      <4>2. WasGranted(c, v)
        BY <1>3, <3>1, <4>1 DEF GrantStands
      <4>3. \/ verdict'[c] = verdict[c] /\ verdict[c].version > v
            \/ verdict'[c].version = v /\ verdict'[c].granted
        <5>1. Of(e) = c /\ decision[e].version = v /\ decision[e].granted /\ verdict[c] \in RowType
          BY <1>0, <4>1 DEF RestsOn
        <5>2. verdict' = IF verdict[c].version <= v
                         THEN [verdict EXCEPT ![c] = [version |-> v, granted |-> decision[e].granted]]
                         ELSE verdict
          BY <3>1, <5>1 DEF Writes, NoNewer
        <5> QED
          BY <1>0, <5>1, <5>2 DEF RowType
      <4>4. Honours(c, v)'
        BY <1>0, <4>3 DEF Honours, RowType
      <4> QED
        BY <1>2, <4>2, <4>4
    <3>5. Stands(e)
      BY <3>4 DEF Stands
    <3>6. \A d \in Decider : Stands(d)
      BY <1>d, <2>2, <3>5
    <3> QED
      BY <2>1, <3>6, <1>p, <1>g
  <2> QED
    BY <2>3, <2>4
<1>8. ASSUME NEW e \in Decider, Issue(e) PROVE GrantStands(c, v)'
  <2>1. \A d \in Decider : Stands(d)
    BY <1>0, <1>d, <1>8, MovesAway, FinishesIdle DEF Issue
  <2>2. ASSUME promised'[c] = v PROVE WasGranted(c, v)' /\ Honours(c, v)'
    <3>1. promised[c] = v \/ (RestsOn(e, c, v) /\ decision[e].pc = "issue")
      BY <1>0, <1>8, <2>2 DEF Issue, RestsOn
    <3> QED
      BY <1>2, <1>3, <3>1 DEF GrantStands
  <2> QED
    BY <2>1, <2>2, <1>g
<1>9. ASSUME \/ \E x \in Disconnecter : PublishRevocation(x) \/ \E k \in Client : Disconnect(x, k)
             \/ \E k \in Client : CheckReads(k) \/ VerdictExpires(k)
             \/ CheckFills
      PROVE  GrantStands(c, v)'
  <2>1. UNCHANGED decision /\ UNCHANGED promised
    BY <1>9 DEF PublishRevocation, Disconnect, CheckReads, VerdictExpires, CheckFills
  <2>2. \A d \in Decider : Stands(d)
    BY <1>d, <2>1
  <2> QED
    BY <2>1, <2>2, <1>p, <1>g
<1> QED
  BY <1>4, <1>5, <1>6, <1>7, <1>8, <1>9, QuietSteps DEF Eventful

\* CONSENT_STATE_UPDATE_SCRIPT refuses an older state, so publications and back-fills
\* in any order (consent_cache.rs) never leave a revocation in the cache that is older
\* than a grant for which a code went out.  VerdictExpires needs its guard: a key that
\* expired under a write still under way would be replaced by an older state.
THEOREM GrantsAreHonoured == DecisionsSpec => []RenewedGrantIsHonoured
<1>1. RequestsInit /\ DecisionsInit => Types /\ GrantsStand
  BY TypesInit, GrantsInit
<1>2. Types /\ GrantsStand /\ [DecisionsNext]_<<requestVars, decisionVars>>
      => (Types /\ GrantsStand)'
  BY TypesNext, GrantsNext DEF allVars
<1>3. Types /\ GrantsStand => RenewedGrantIsHonoured
  <2> SUFFICES ASSUME Types, GrantsStand, NEW c \in Client,
                      verdict[c].version > 0, ~verdict[c].granted
               PROVE  verdict[c].version > promised[c]
    BY DEF RenewedGrantIsHonoured
  <2>1. promised[c] \in Nat
    BY DEF Types, ConsentTypes
  <2>2. promised[c] # 0 => Honours(c, promised[c])
    BY <2>1 DEF GrantsStand, GrantStands
  <2> QED
    BY <2>1, <2>2 DEF Honours
<1> QED
  BY <1>1, <1>2, <1>3, PTL DEF DecisionsSpec

---------------------------------------------------------------------------
\* Who has taken a request, and what is known of it.
Holds(d) == decision[d].pc \notin {"idle", "take"}

TakerSound(d) ==
    LET r == decision[d].request IN
    /\ saved[r].state # "new" /\ decision[d].revision <= saved[r].revision
    /\ decision[d].revision = saved[r].revision => saved[r].session = decision[d].session

HolderSound(d) ==
    LET r == decision[d].request IN
    /\ saved[r].state = "taken" /\ decided[r] = <<>>
    /\ decision[d].revision = saved[r].revision
    /\ decision[d].bound = saved[r].session /\ decision[d].bound = decision[d].session

Sound(d) == (decision[d].pc = "take" => TakerSound(d)) /\ (Holds(d) => HolderSound(d))

Alone ==
    \A d, e \in Decider :
        Holds(d) /\ Holds(e) /\ decision[d].request = decision[e].request => d = e

ByItsHolder(s, o) == [outcome |-> o, by |-> s, bound |-> s]

Settled(r) ==
    \/ decided[r] = <<>>
    \/ /\ saved[r].state = "taken"
       /\ \E s \in Someone, o \in {"approved", "denied"} : decided[r] = <<ByItsHolder(s, o)>>

HeldOnce ==
    /\ decided = [r \in AuthRequest |-> decided[r]]
    /\ \A d \in Decider : Sound(d)
    /\ Alone
    /\ \A r \in AuthRequest : Settled(r)

\* A request never gets younger, and keeps its session while it keeps its revision.
Ages(r) ==
    \/ saved[r].state = "new"
    \/ /\ saved'[r].state # "new" /\ saved'[r].revision >= saved[r].revision
       /\ saved'[r].revision = saved[r].revision => saved'[r].session = saved[r].session

Stays(r) == saved'[r] = saved[r] \/ saved[r].state # "taken"

LEMMA HeldInit == RequestsInit /\ DecisionsInit => HeldOnce
<1> SUFFICES ASSUME RequestsInit, DecisionsInit PROVE HeldOnce
  OBVIOUS
<1>1. \A d \in Decider : decision[d].pc = "idle"
  BY DEF DecisionsInit, NoDecision
<1>2. decided = [r \in AuthRequest |-> <<>>]
  BY DEF DecisionsInit
<1> QED
  BY <1>1, <1>2 DEF HeldOnce, Sound, Alone, Settled, Holds

LEMMA RequestsAge ==
    ASSUME Types, HeldOnce, [DecisionsNext]_allVars, NEW r \in AuthRequest
    PROVE  Ages(r) /\ (Stays(r) \/ \E d \in Decider : Restore(d) /\ decision[d].request = r)
<1>0. /\ saved \in [AuthRequest -> RequestType] /\ saved[r] \in RequestType
      /\ decision \in [Decider -> DecisionType]
      /\ rebind.request \subseteq AuthRequest
  BY DEF Types, RequestTypes, DecisionTypes
<1>1. CASE ChangeLifetime \/ UNCHANGED requestVars
  BY <1>0, <1>1 DEF ChangeLifetime, requestVars, Ages, Stays, RequestType
<1>2. CASE SecondPasses
  <2>1. \/ saved'[r] = saved[r]
        \/ Kept(r) /\ saved'[r] = [saved[r] EXCEPT !.state = "gone"]
    BY <1>2 DEF SecondPasses
  <2> QED
    BY <1>0, <2>1 DEF Ages, Stays, Kept, RequestType
<1>3. CASE BindReplaces
  <2>1. \/ UNCHANGED saved
        \/ \E q \in AuthRequest : Replace(q, rebind.revision, rebind.session)
    BY <1>0, <1>3 DEF BindReplaces, Misses
  <2>2. ASSUME NEW q \in AuthRequest, Replace(q, rebind.revision, rebind.session)
        PROVE  \/ saved'[r] = saved[r]
               \/ /\ Kept(r) /\ saved'[r].state = saved[r].state
                  /\ saved'[r].revision = saved[r].revision + 1
    <3>1. /\ Kept(q)
          /\ saved' = [saved EXCEPT ![q] =
                 [[saved[q] EXCEPT !.revision = @ + 1] EXCEPT !.session = rebind.session]]
      BY <2>2 DEF Replace, SameIdentity
    <3>2. q # r => saved'[r] = saved[r]
      BY <1>0, <3>1
    <3>3. CASE q = r
      <4>1. saved'[r] = [[saved[r] EXCEPT !.revision = @ + 1] EXCEPT !.session = rebind.session]
        BY <1>0, <3>1, <3>3
      <4> QED
        BY <1>0, <3>1, <3>3, <4>1 DEF RequestType
    <3> QED
      BY <3>2, <3>3
  <2> QED
    BY <1>0, <2>1, <2>2 DEF Ages, Stays, Kept, RequestType
<1>4. ASSUME NEW q \in AuthRequest, NEW s \in Someone, Authorize(q, s)
      PROVE  Ages(r) /\ Stays(r)
  <2>1. saved[q].state = "new"
    BY <1>4 DEF Authorize
  <2>2. q # r => saved'[r] = saved[r]
    BY <1>0, <1>4 DEF Authorize, Keep, NoRoom
  <2> QED
    BY <1>0, <2>1, <2>2 DEF Ages, Stays, RequestType
<1>5. ASSUME NEW d \in Decider, Consume(d) PROVE Ages(r) /\ Stays(r)
  <2>1. \/ UNCHANGED saved
        \/ /\ Kept(decision[d].request)
           /\ saved' = [saved EXCEPT ![decision[d].request].state = "taken"]
    BY <1>5 DEF Consume, TakeRequest, Misses, SameIdentity
  <2>2. \/ saved'[r] = saved[r]
        \/ Kept(r) /\ saved'[r] = [saved[r] EXCEPT !.state = "taken"]
    BY <1>0, <2>1
  <2> QED
    BY <1>0, <2>2 DEF Ages, Stays, Kept, RequestType
<1>6. ASSUME NEW d \in Decider, Restore(d)
      PROVE  Ages(r) /\ (Stays(r) \/ decision[d].request = r)
  <2>1. HolderSound(d)
    BY <1>6 DEF HeldOnce, Sound, Holds, Restore
  <2>2. CASE UNCHANGED saved
    BY <1>0, <2>2 DEF Ages, Stays, RequestType
  <2>3. CASE ~UNCHANGED saved
    <3>1. saved' = [saved EXCEPT ![decision[d].request] =
               [state |-> "kept", revision |-> decision[d].revision,
                session |-> decision[d].bound, ends |-> second + decision[d].left]]
      BY <1>6, <2>3 DEF Restore, Keep, NoRoom
    <3>2. decision[d].request # r => saved'[r] = saved[r]
      BY <1>0, <3>1
    <3>3. ASSUME decision[d].request = r PROVE Ages(r)
      <4>1. saved'[r] = [state |-> "kept", revision |-> decision[d].revision,
                         session |-> decision[d].bound, ends |-> second + decision[d].left]
        BY <1>0, <3>1, <3>3
      <4>2. /\ saved'[r].state = "kept" /\ saved'[r].revision = saved[r].revision
            /\ saved'[r].session = saved[r].session
        <5>1. decision[d].revision = saved[r].revision /\ decision[d].bound = saved[r].session
          BY <2>1, <3>3 DEF HolderSound
        <5>2. /\ saved'[r].state = "kept" /\ saved'[r].revision = decision[d].revision
              /\ saved'[r].session = decision[d].bound
          BY <4>1
        <5> QED
          BY <5>1, <5>2
      <4> QED
        BY <1>0, <4>2 DEF Ages, RequestType
    <3> QED
      BY <1>0, <3>2, <3>3 DEF Ages, Stays, RequestType
  <2> QED
    BY <2>2, <2>3
<1> QED
  BY <1>1, <1>2, <1>3, <1>4, <1>5, <1>6, RequestSteps DEF RequestStep

LEMMA TakerKept ==
    ASSUME Types, Types', NEW e \in Decider, TakerSound(e), decision'[e] = decision[e],
           Ages(decision[e].request)
    PROVE  TakerSound(e)'
<1>1. /\ decision[e] \in DecisionType
      /\ saved[decision[e].request] \in RequestType /\ saved'[decision[e].request] \in RequestType
  BY DEF Types, RequestTypes, DecisionTypes, DecisionType
<1> QED
  BY <1>1 DEF TakerSound, Ages, RequestType, DecisionType

LEMMA HolderKept ==
    ASSUME NEW e \in Decider, HolderSound(e), decision'[e] = decision[e],
           saved'[decision[e].request] = saved[decision[e].request],
           decided'[decision[e].request] = decided[decision[e].request]
    PROVE  HolderSound(e)'
  BY DEF HolderSound

\* A step of decision d, as far as the request it holds goes.
LEMMA HeldStep ==
    ASSUME Types, HeldOnce, [DecisionsNext]_allVars, NEW d \in Decider,
           \A e \in Decider : e # d => decision'[e] = decision[e],
           decided' = [q \in AuthRequest |-> decided'[q]],
           \A q \in AuthRequest :
               /\ Stays(q) \/ (Holds(d) /\ q = decision[d].request)
               /\ \/ decided'[q] = decided[q]
                  \/ Holds(d) /\ q = decision[d].request /\ Settled(q)',
           Sound(d)',
           Holds(d)' => /\ decision'[d].request = decision[d].request
                        /\ Holds(d) \/ saved[decision[d].request].state # "taken"
    PROVE  HeldOnce'
<1>t. Types'
  BY TypesNext
<1>0. /\ \A e \in Decider : decision[e].request \in AuthRequest
      /\ \A q \in AuthRequest : Ages(q)
  BY RequestsAge DEF Types, DecisionTypes, DecisionType
<1>1. ASSUME NEW e \in Decider, e # d PROVE Sound(e)'
  <2>1. Sound(e) /\ decision'[e] = decision[e]
    BY <1>1 DEF HeldOnce
  <2>2. CASE decision[e].pc = "take"
    <3>1. TakerSound(e)'
      BY <1>t, <1>0, <2>1, <2>2, TakerKept DEF Sound
    <3> QED
      BY <2>1, <2>2, <3>1 DEF Sound, Holds
  <2>3. CASE Holds(e)
    <3>1. HolderSound(e)
      BY <2>1, <2>3 DEF Sound
    <3>2. ~(Holds(d) /\ decision[e].request = decision[d].request)
      BY <1>1, <2>3 DEF HeldOnce, Alone
    <3>3. saved'[decision[e].request] = saved[decision[e].request]
      BY <1>0, <3>1, <3>2 DEF Stays, HolderSound
    <3>4. decided'[decision[e].request] = decided[decision[e].request]
      BY <1>0, <3>2
    <3>5. HolderSound(e)'
      BY <2>1, <3>1, <3>3, <3>4, HolderKept
    <3> QED
      BY <2>1, <2>3, <3>5 DEF Sound, Holds
  <2>4. CASE decision[e].pc = "idle"
    BY <2>1, <2>4 DEF Sound, Holds
  <2> QED
    BY <2>2, <2>3, <2>4 DEF Holds
<1>2. \A e \in Decider : Sound(e)'
  BY <1>1
<1>3. ASSUME NEW e \in Decider, e # d, Holds(e)', Holds(d)'
      PROVE  decision'[e].request # decision'[d].request
  <2>1. decision'[e] = decision[e] /\ Holds(e) /\ HolderSound(e)
    BY <1>3 DEF Holds, HeldOnce, Sound
  <2> QED
    BY <1>3, <2>1 DEF HeldOnce, Alone, HolderSound
<1>4. ASSUME NEW e \in Decider, NEW f \in Decider, e # d, f # d, Holds(e)', Holds(f)',
             decision'[e].request = decision'[f].request
      PROVE  e = f
  BY <1>4 DEF HeldOnce, Alone, Holds
<1>5. Alone'
  BY <1>3, <1>4 DEF Alone
<1>6. ASSUME NEW q \in AuthRequest PROVE Settled(q)'
  <2>1. CASE decided'[q] = decided[q] /\ decided[q] # <<>>
    <3>1. Settled(q) /\ saved[q].state = "taken"
      BY <2>1 DEF HeldOnce, Settled
    <3>2. ~(Holds(d) /\ q = decision[d].request)
      BY <2>1 DEF HeldOnce, Sound, HolderSound
    <3>3. saved'[q] = saved[q]
      BY <3>1, <3>2 DEF Stays
    <3> QED
      BY <2>1, <3>1, <3>3 DEF Settled
  <2>2. CASE decided'[q] = <<>>
    BY <2>2 DEF Settled
  <2> QED
    BY <2>1, <2>2
<1> QED
  BY <1>2, <1>5, <1>6 DEF HeldOnce

LEMMA HeldElsewhere ==
    ASSUME Types, HeldOnce, [DecisionsNext]_allVars, Elsewhere
    PROVE  HeldOnce'
<1>t. Types'
  BY TypesNext
<1>1. UNCHANGED <<decision, decided>>
  BY DecisionUnchanged
<1>2. \A e \in Decider : decision[e].request \in AuthRequest
  BY DEF Types, DecisionTypes, DecisionType
<1>3. ASSUME NEW d \in Decider, Restore(d) PROVE HeldOnce'
  <2>1. decision[d].pc = "restore" /\ decision'[d].pc = "idle"
    BY <1>3, FinishesIdle DEF Restore, Types
  <2> QED
    BY <1>1, <2>1
<1>4. CASE \A d \in Decider : ~Restore(d)
  <2>1. \A q \in AuthRequest : Ages(q) /\ Stays(q)
    BY <1>4, RequestsAge
  <2>2. ASSUME NEW e \in Decider PROVE Sound(e)'
    <3>1. Sound(e) /\ decision'[e] = decision[e]
      BY <1>1 DEF HeldOnce
    <3>2. decision[e].pc = "take" => TakerSound(e)'
      BY <1>t, <1>2, <2>1, <3>1, TakerKept DEF Sound
    <3>3. Holds(e) => HolderSound(e)'
      <4>1. Holds(e) => saved'[decision[e].request] = saved[decision[e].request]
        BY <1>2, <2>1, <3>1 DEF Sound, HolderSound, Stays
      <4> QED
        BY <1>1, <3>1, <4>1, HolderKept DEF Sound
    <3> QED
      BY <3>1, <3>2, <3>3 DEF Sound, Holds
  <2>3. Alone'
    BY <1>1 DEF HeldOnce, Alone, Holds
  <2>4. ASSUME NEW q \in AuthRequest PROVE Settled(q)'
    BY <1>1, <2>1 DEF HeldOnce, Settled, Stays
  <2> QED
    BY <1>1, <2>2, <2>3, <2>4 DEF HeldOnce
<1> QED
  BY <1>3, <1>4

LEMMA HeldNext == Types /\ HeldOnce /\ [DecisionsNext]_allVars => HeldOnce'
<1> SUFFICES ASSUME Types, HeldOnce, [DecisionsNext]_allVars PROVE HeldOnce'
  OBVIOUS
<1>1. CASE Elsewhere
  BY <1>1, HeldElsewhere
<1>2. ASSUME NEW d \in Decider, Decides(d) PROVE HeldOnce'
  <2>0. /\ decision \in [Decider -> DecisionType] /\ decision[d] \in DecisionType
        /\ saved \in [AuthRequest -> RequestType] /\ decision[d].request \in AuthRequest
        /\ DecisionTypes /\ decided = [r \in AuthRequest |-> decided[r]] /\ Sound(d)
    BY DEF Types, RequestTypes, DecisionTypes, DecisionType, HeldOnce
  <2>a. \A e \in Decider : e # d => decision'[e] = decision[e]
    BY <1>2, <2>0, DecisionNext, OnlyOneMoves DEF Decides
  <2>b. ASSUME NEW q \in AuthRequest
        PROVE  Stays(q) \/ (Holds(d) /\ q = decision[d].request)
    <3>1. ASSUME NEW e \in Decider, Restore(e) PROVE e = d /\ Holds(d)
      <4>1. decision[e].pc = "restore" /\ decision'[e].pc = "idle"
        BY <2>0, <3>1, FinishesIdle DEF Restore
      <4> QED
        BY <2>a, <4>1 DEF Holds
    <3> QED
      BY <3>1, RequestsAge
  \* A step that decides nothing.
  <2>c. ASSUME UNCHANGED decided, Sound(d)',
               Holds(d)' => /\ decision'[d].request = decision[d].request
                            /\ Holds(d) \/ saved[decision[d].request].state # "taken"
        PROVE  HeldOnce'
    BY <2>0, <2>a, <2>b, <2>c, HeldStep
  <2>d. ASSUME UNCHANGED decided, Finishes(d) PROVE HeldOnce'
    <3>1. decision'[d].pc = "idle"
      BY <2>0, <2>d, FinishesIdle
    <3> QED
      BY <2>c, <2>d, <3>1 DEF Sound, Holds
  \* A step of its holder that leaves the store alone.
  <2>e. ASSUME UNCHANGED <<decided, saved>>, Holds(d),
               decision'[d].request = decision[d].request,
               decision'[d].revision = decision[d].revision,
               decision'[d].bound = decision[d].bound,
               decision'[d].session = decision[d].session,
               decision'[d].pc # "take"
        PROVE  HeldOnce'
    <3>1. Sound(d)'
      BY <2>0, <2>e DEF Sound, HolderSound
    <3> QED
      BY <2>c, <2>e, <3>1
  <2>f. ASSUME UNCHANGED <<decided, saved>>, Holds(d),
               NEW pc \in {"save", "read", "restore", "issue"}, MovesTo(d, pc)
        PROVE  HeldOnce'
    <3>1. decision'[d] = [decision[d] EXCEPT !.pc = pc]
      BY <2>0, <2>f, MovesAway
    <3> QED
      BY <2>0, <2>e, <2>f, <3>1 DEF DecisionType
  <2>g. ASSUME Holds(d), Finishes(d), UNCHANGED saved,
               NEW o \in {"approved", "denied"}, Outcome(d, o)
        PROVE  HeldOnce'
    <3>0. PICK r \in AuthRequest : r = decision[d].request
      BY <2>0
    <3>1. HolderSound(d)
      BY <2>0, <2>g DEF Sound
    <3>2. decided' = [decided EXCEPT ![r] = Append(@, [outcome |-> o, by |-> decision[d].session,
                                                       bound |-> decision[d].bound])]
      BY <2>g, <3>0 DEF Outcome
    <3>3. decided'[r] = <<ByItsHolder(decision[d].session, o)>>
      <4>1. decided[r] = <<>> /\ decision[d].bound = decision[d].session
        BY <3>0, <3>1 DEF HolderSound
      <4>2. decided'[r] = Append(decided[r], ByItsHolder(decision[d].session, o))
        BY <2>0, <3>2, <4>1 DEF ByItsHolder
      <4>3. Append(<<>>, ByItsHolder(decision[d].session, o))
                = <<ByItsHolder(decision[d].session, o)>>
        OBVIOUS
      <4> QED
        BY <4>1, <4>2, <4>3
    <3>4. Settled(r)'
      BY <2>0, <2>g, <3>0, <3>1, <3>3 DEF Settled, HolderSound, DecisionType
    <3>5. \A q \in AuthRequest : q # r => decided'[q] = decided[q]
      BY <2>0, <3>2
    <3>6. decided' = [q \in AuthRequest |-> decided'[q]]
      BY <2>0, <3>2
    <3>7. decision'[d].pc = "idle"
      BY <2>0, <2>g, FinishesIdle
    <3>8. Sound(d)' /\ ~Holds(d)'
      BY <3>7 DEF Sound, Holds
    <3> QED
      BY <2>a, <2>b, <2>g, <3>0, <3>4, <3>5, <3>6, <3>8, HeldStep
  <2>1. ASSUME NEW r \in AuthRequest, NEW s \in Browser, AskGranted(d, r, s) PROVE HeldOnce'
    <3>1. UNCHANGED decided /\ decision[d].pc = "idle" /\ Authorize(r, s)
      BY <2>1 DEF AskGranted
    <3>2. CASE Kept(r)'
      <4>1. decision' = [decision EXCEPT ![d] = [NoDecision EXCEPT !.pc = "take",
                            !.request = r, !.session = s, !.answer = "granted"]]
        BY <2>1, <3>2 DEF AskGranted
      <4>2. /\ decision'[d].pc = "take" /\ decision'[d].request = r
            /\ decision'[d].session = s /\ decision'[d].revision = 0
        BY <2>0, <4>1, NoDecisionType DEF NoDecision, DecisionType
      <4>3. saved' = [saved EXCEPT ![r] =
                [state |-> "kept", revision |-> 0, session |-> s, ends |-> second + lifetime]]
        BY <3>1, <3>2 DEF Authorize, Keep, NoRoom, Kept
      <4>4. saved'[r].state = "kept" /\ saved'[r].revision = 0 /\ saved'[r].session = s
        BY <2>0, <4>3
      <4>5. TakerSound(d)'
        BY <4>2, <4>4 DEF TakerSound
      <4> QED
        BY <2>c, <3>1, <4>2, <4>5 DEF Sound, Holds
    <3>3. CASE ~Kept(r)'
      <4>1. UNCHANGED decision
        BY <2>1, <3>3 DEF AskGranted
      <4> QED
        BY <2>c, <3>1, <4>1 DEF Sound, Holds
    <3> QED
      BY <3>2, <3>3
  <2>2. ASSUME NEW r \in AuthRequest, NEW s \in Browser, NEW a \in {"approve", "deny"},
               Find(d, r, s, a)
        PROVE  HeldOnce'
    <3>1. /\ UNCHANGED decided /\ UNCHANGED saved
          /\ Kept(r) /\ saved[r].session = s /\ decision[d].pc = "idle"
      BY <2>2 DEF Find, requestVars
    <3>2. decision' = [decision EXCEPT ![d] = [NoDecision EXCEPT !.pc = "take", !.request = r,
           !.session = s, !.answer = a, !.revision = saved[r].revision]]
      BY <2>2 DEF Find
    <3>3. /\ decision'[d].pc = "take" /\ decision'[d].request = r
          /\ decision'[d].session = s /\ decision'[d].revision = saved[r].revision
      BY <2>0, <3>2, NoDecisionType DEF DecisionType
    <3>4. TakerSound(d)'
      BY <2>0, <3>1, <3>3 DEF TakerSound, Kept, RequestType
    <3> QED
      BY <2>c, <3>1, <3>3, <3>4 DEF Sound, Holds
  <2>3. CASE Consume(d)
    <3> DEFINE r == decision[d].request
    <3>1. UNCHANGED decided /\ decision[d].pc = "take"
      BY <2>3 DEF Consume
    <3>2. CASE Finishes(d)
      BY <2>d, <3>1, <3>2
    <3>3. CASE ~Finishes(d)
      <4>1. /\ TakeRequest(r, decision[d].revision)
            /\ \E pc \in {"session", "read", "deny"} :
                 decision' = [decision EXCEPT ![d].pc = pc, ![d].bound = saved[r].session,
                                              ![d].left = saved[r].ends - second]
        BY <2>0, <2>3, <3>3 DEF Consume, DecisionType
      <4>2. /\ decision'[d].pc \in {"session", "read", "deny"}
            /\ decision'[d].request = r /\ decision'[d].bound = saved[r].session
            /\ decision'[d].revision = decision[d].revision
            /\ decision'[d].session = decision[d].session
        BY <2>0, <4>1 DEF DecisionType
      <4>3. /\ saved[r].state = "kept" /\ saved[r].revision = decision[d].revision
            /\ saved' = [saved EXCEPT ![r].state = "taken"]
        BY <4>1 DEF TakeRequest, SameIdentity, Kept
      <4>4. /\ saved'[r].state = "taken" /\ saved'[r].revision = saved[r].revision
            /\ saved'[r].session = saved[r].session
        BY <2>0, <4>3 DEF RequestType
      <4>5. decided[r] = <<>>
        BY <2>0, <4>3 DEF HeldOnce, Settled
      <4>6. saved[r].session = decision[d].session
        BY <2>0, <3>1, <4>3 DEF Sound, TakerSound
      <4>7. HolderSound(d)'
        BY <3>1, <4>2, <4>3, <4>4, <4>5, <4>6 DEF HolderSound
      <4> QED
        BY <2>c, <3>1, <4>2, <4>3, <4>7 DEF Sound
    <3> QED
      BY <3>2, <3>3
  <2>4. CASE Deny(d)
    BY <2>4, <2>g DEF Deny, requestVars, Holds
  <2>5. CASE CheckSession(d)
    BY <2>5, <2>f DEF CheckSession, requestVars, Holds
  <2>6. CASE SaveConsent(d)
    BY <2>6, <2>f DEF SaveConsent, requestVars, Holds
  <2>7. CASE ReadConsent(d)
    <3>1. UNCHANGED <<decided, saved>> /\ Holds(d)
      BY <2>7 DEF ReadConsent, requestVars, Holds
    <3>2. CASE ~(MovesTo(d, "restore") \/ Finishes(d))
      <4>1. decision' = [decision EXCEPT ![d].pc = "sync", ![d].version = consent[Of(d)].version,
                                         ![d].granted = consent[Of(d)].granted]
        BY <2>7, <3>2 DEF ReadConsent
      <4>2. /\ decision'[d].request = decision[d].request
            /\ decision'[d].revision = decision[d].revision
            /\ decision'[d].bound = decision[d].bound
            /\ decision'[d].session = decision[d].session /\ decision'[d].pc = "sync"
        BY <2>0, <4>1 DEF DecisionType
      <4> QED
        BY <2>e, <3>1, <4>2
    <3> QED
      BY <2>d, <2>f, <3>1, <3>2
  <2>8. CASE SyncCache(d)
    BY <2>8, <2>f DEF SyncCache, requestVars, Holds
  <2>9. CASE Issue(d)
    <3>1. UNCHANGED saved /\ Holds(d)
      BY <2>9 DEF Issue, requestVars, Holds
    <3>2. \/ Finishes(d) /\ Outcome(d, "approved")
          \/ MovesTo(d, "restore") /\ UNCHANGED decided
      BY <2>9 DEF Issue
    <3> QED
      BY <2>f, <2>g, <3>1, <3>2
  <2>10. CASE Restore(d) \/ Dies(d)
    BY <2>10, <2>d DEF Restore, Dies
  <2> QED
    BY <1>2, <2>1, <2>2, <2>3, <2>4, <2>5, <2>6, <2>7, <2>8, <2>9, <2>10 DEF Decides
<1> QED
  BY <1>1, <1>2, Steps

\* A request is taken by the revision and the session its decision has read
\* (PENDING_TAKE_IF_MATCHES_SCRIPT) and put back only by who holds it, so approvals and
\* denials of several tabs, rebinds and failed issues never give it two outcomes, nor one
\* by a session it was not bound to (authorization_decision_use_case.rs).
THEOREM DecidedOnce == DecisionsSpec => []DecidedOnceByItsHolder
<1>1. RequestsInit /\ DecisionsInit => Types /\ HeldOnce
  BY TypesInit, HeldInit
<1>2. Types /\ HeldOnce /\ [DecisionsNext]_<<requestVars, decisionVars>>
      => (Types /\ HeldOnce)'
  BY TypesNext, HeldNext DEF allVars
<1>3. HeldOnce => DecidedOnceByItsHolder
  <2> SUFFICES ASSUME HeldOnce, NEW r \in AuthRequest
               PROVE  /\ Len(decided[r]) <= 1
                      /\ \A i \in 1..Len(decided[r]) : decided[r][i].by = decided[r][i].bound
    BY DEF DecidedOnceByItsHolder
  <2>1. CASE decided[r] = <<>>
    BY <2>1
  <2>2. ASSUME NEW s, NEW o, decided[r] = <<ByItsHolder(s, o)>>
        PROVE  /\ Len(decided[r]) <= 1
               /\ \A i \in 1..Len(decided[r]) : decided[r][i].by = decided[r][i].bound
    BY <2>2 DEF ByItsHolder
  <2> QED
    BY <2>1, <2>2 DEF HeldOnce, Settled
<1> QED
  BY <1>1, <1>2, <1>3, PTL DEF DecisionsSpec

---------------------------------------------------------------------------
\* The capacity: what an index says of the requests that are there.  It has every
\* one of them, lives as long as they do, and is never over its limit.

Mine(r) == {ClientOf[r], All}
Limit(i) == IF i = All THEN MaxGlobal ELSE MaxPerClient
IndexType == [ids : SUBSET AuthRequest, ends : Int]

Bounded == \A i \in Client \cup {All} :
    IsFiniteSet(index[i].ids) /\ Cardinality(index[i].ids) <= Limit(i)
Indexed == \A r \in AuthRequest : Kept(r) =>
    \A i \in Mine(r) : r \in index[i].ids /\ saved[r].ends <= index[i].ends
Capacity == index \in [Client \cup {All} -> IndexType] /\ Bounded /\ Indexed

\* The maximum of a finite set, by the well-founded order of its subsets: {y > u} is
\* least where u is greatest.
LEMMA GreatestIn ==
    ASSUME NEW S \in SUBSET Int, IsFiniteSet(S), S # {}
    PROVE  Max(S) \in S
<1> DEFINE Above(u) == {y \in S : y > u}
           T == {Above(u) : u \in S}
<1>1. T \subseteq FiniteSubsetsOf(S)
  <2> SUFFICES ASSUME NEW u \in S PROVE Above(u) \in FiniteSubsetsOf(S)
    OBVIOUS
  <2>1. Above(u) \in SUBSET S
    OBVIOUS
  <2>2. IsFiniteSet(Above(u))
    <3> HIDE DEF Above
    <3> QED
      BY <2>1, FS_Subset
  <2> QED
    BY <2>1, <2>2 DEF FiniteSubsetsOf
<1>2. T # {}
  OBVIOUS
<1>3. PICK x \in T : \A y \in T : ~ (<<y, x>> \in StrictSubsetOrdering(S))
  <2> HIDE DEF T
  <2> QED
    BY <1>1, <1>2, FS_StrictSubsetOrderingWellFounded, WFMin
<1>4. PICK u \in S : x = Above(u)
  OBVIOUS
<1>5. \A v \in S : u >= v
  <2> SUFFICES ASSUME NEW v \in S, v > u PROVE FALSE
    OBVIOUS
  <2>1. Above(v) \subseteq Above(u) /\ Above(u) \subseteq S
    <3>1. \A y \in S : y > v => y > u
      BY v \in Int, u \in Int
    <3> QED
      BY <3>1
  <2>2. v \in Above(u) /\ v \notin Above(v)
    OBVIOUS
  <2>3. <<Above(v), Above(u)>> \in StrictSubsetOrdering(S)
    BY <2>1, <2>2 DEF StrictSubsetOrdering
  <2> QED
    BY <1>3, <1>4, <2>3
<1> QED
  BY <1>5 DEF Max

LEMMA EndsOf ==
    ASSUME Types, NEW ids \in SUBSET AuthRequest, IsFiniteSet(ids)
    PROVE  IsFiniteSet({saved[q].ends : q \in ids}) /\ {saved[q].ends : q \in ids} \subseteq Int
<1> DEFINE f == [q \in ids |-> saved[q].ends]
<1>1. f \in Surjection(ids, {saved[q].ends : q \in ids})
  BY DEF Surjection
<1>2. IsFiniteSet({saved[q].ends : q \in ids})
  BY <1>1, FS_Surjection
<1> QED
  BY <1>2 DEF Types, RequestTypes, RequestType

\* What a step may do to the index i: nothing is added, and while a name stays the index
\* lives as long.
Eases(i) ==
    /\ index'[i].ids \subseteq index[i].ids
    /\ index'[i].ids # {} => index'[i].ends >= index[i].ends
    /\ \A q \in AuthRequest :
           Kept(q)' /\ i \in Mine(q) /\ q \in index[i].ids => q \in index'[i].ids

LEMMA CapacityEased ==
    ASSUME Types, Capacity, index' \in [Client \cup {All} -> IndexType],
           \A i \in Client \cup {All} : Eases(i),
           \A q \in AuthRequest : Kept(q)' => Kept(q) /\ saved'[q].ends = saved[q].ends
    PROVE  Capacity'
<1>1. Bounded'
  <2> SUFFICES ASSUME NEW i \in Client \cup {All}
               PROVE  IsFiniteSet(index'[i].ids) /\ Cardinality(index'[i].ids) <= Limit(i)
    BY DEF Bounded, Limit
  <2>1. IsFiniteSet(index[i].ids) /\ Cardinality(index[i].ids) <= Limit(i)
    BY DEF Capacity, Bounded
  <2>2. index'[i].ids \in SUBSET index[i].ids
    BY DEF Eases
  <2>3. Limit(i) \in Nat
    BY RequestsAssumption DEF Limit
  <2>4. /\ IsFiniteSet(index'[i].ids)
        /\ Cardinality(index'[i].ids) <= Cardinality(index[i].ids)
    BY <2>1, <2>2, FS_Subset
  <2> QED
    BY <2>1, <2>3, <2>4, FS_CardinalityType
<1>2. Indexed'
  <2> SUFFICES ASSUME NEW q \in AuthRequest, Kept(q)', NEW i \in Mine(q)
               PROVE  q \in index'[i].ids /\ saved'[q].ends <= index'[i].ends
    BY DEF Indexed, Mine
  <2>1. i \in Client \cup {All}
    BY RequestsAssumption DEF Mine
  <2>2. q \in index[i].ids /\ saved[q].ends <= index[i].ends
    BY DEF Capacity, Indexed
  <2>3. q \in index'[i].ids /\ index'[i].ends >= index[i].ends
    BY <2>1, <2>2 DEF Eases
  <2>4. saved'[q].ends = saved[q].ends /\ saved[q].ends \in Int
    BY DEF Types, RequestTypes, RequestType
  <2>5. index[i].ends \in Int /\ index'[i].ends \in Int
    BY <2>1 DEF Capacity, IndexType
  <2> QED
    BY <2>2, <2>3, <2>4, <2>5
<1> QED
  BY <1>1, <1>2 DEF Capacity

LEMMA AtLeastIs ==
    ASSUME NEW m \in Int, NEW n \in Int
    PROVE  AtLeast(m, n) \in Int /\ AtLeast(m, n) >= m /\ AtLeast(m, n) >= n
  BY DEF AtLeast

LEMMA NamedIs ==
    ASSUME NEW ids \in SUBSET AuthRequest, NEW n \in Int
    PROVE  /\ Named(ids, n) \in IndexType /\ Named(ids, n).ids = ids
           /\ ids # {} => Named(ids, n).ends = n
  BY DEF Named, NoIndex, IndexType

LEMMA SweptIs ==
    ASSUME Types, Capacity, NEW r \in AuthRequest, NEW ttl \in Int
    PROVE  /\ Swept(r, ttl) \in [Client \cup {All} -> IndexType]
           /\ \A i \in Client \cup {All} :
                  /\ Swept(r, ttl)[i].ids = index[i].ids \ Lapsed(r)
                  /\ Swept(r, ttl)[i].ids # {} => Swept(r, ttl)[i].ends >= index[i].ends
<1> DEFINE stay == {saved[q].ends : q \in index[ClientOf[r]].ids \ Lapsed(r)}
           ends(i) ==
               CASE i \in Mine(r) -> AtLeast(index[i].ends, Max(stay \cup {second + ttl}))
                 [] i \notin Mine(r) /\ index[i].ids \cap Lapsed(r) # {} ->
                        AtLeast(index[i].ends, second + ttl)
                 [] OTHER -> index[i].ends
<1>0. /\ second + ttl \in Int /\ ClientOf[r] \in Client
      /\ index \in [Client \cup {All} -> IndexType]
  BY RequestsAssumption DEF Types, RequestTypes, Capacity
<1>1. IsFiniteSet(stay) /\ stay \subseteq Int
  <2>1. IsFiniteSet(index[ClientOf[r]].ids) /\ index[ClientOf[r]].ids \subseteq AuthRequest
    BY <1>0 DEF Capacity, Bounded, IndexType
  <2>2. IsFiniteSet(index[ClientOf[r]].ids \ Lapsed(r))
    BY <2>1, FS_Difference
  <2> QED
    BY <2>1, <2>2, EndsOf
<1>2. Max(stay \cup {second + ttl}) \in Int
  <2> HIDE DEF stay
  <2>1. IsFiniteSet(stay \cup {second + ttl})
    BY <1>1, FS_AddElement
  <2> QED
    BY <1>0, <1>1, <2>1, GreatestIn
<1>3. ASSUME NEW i \in Client \cup {All}
      PROVE  ends(i) \in Int /\ ends(i) >= index[i].ends
  <2>1. index[i].ends \in Int
    BY <1>0 DEF IndexType
  <2> DEFINE top == Max(stay \cup {second + ttl})
  <2>2. top \in Int
    BY <1>2
  <2>3. AtLeast(index[i].ends, top) \in Int /\ AtLeast(index[i].ends, top) >= index[i].ends
    <3> HIDE DEF top
    <3> QED
      BY <2>1, <2>2, AtLeastIs
  <2>4. AtLeast(index[i].ends, second + ttl) \in Int
        /\ AtLeast(index[i].ends, second + ttl) >= index[i].ends
    BY <1>0, <2>1, AtLeastIs
  <2>5. CASE i \in Mine(r)
    BY <2>3, <2>5
  <2>6. CASE i \notin Mine(r) /\ index[i].ids \cap Lapsed(r) # {}
    BY <2>4, <2>6
  <2>7. CASE i \notin Mine(r) /\ ~(index[i].ids \cap Lapsed(r) # {})
    BY <2>1, <2>7
  <2> QED
    BY <2>5, <2>6, <2>7
<1>4. Swept(r, ttl) = [i \in Client \cup {All} |-> Named(index[i].ids \ Lapsed(r), ends(i))]
  BY <1>0 DEF Swept, Mine
<1> HIDE DEF ends
<1>5. ASSUME NEW i \in Client \cup {All}
      PROVE  /\ Named(index[i].ids \ Lapsed(r), ends(i)) \in IndexType
             /\ Named(index[i].ids \ Lapsed(r), ends(i)).ids = index[i].ids \ Lapsed(r)
             /\ index[i].ids \ Lapsed(r) # {}
                => Named(index[i].ids \ Lapsed(r), ends(i)).ends >= index[i].ends
  <2>1. index[i].ids \ Lapsed(r) \in SUBSET AuthRequest
    BY <1>0 DEF IndexType
  <2> QED
    BY <1>3, <2>1, NamedIs
<1> QED
  BY <1>4, <1>5

LEMMA Sized ==
    ASSUME Capacity, NEW r \in AuthRequest, Fits(r), NEW i \in Mine(r),
           NEW ids \in SUBSET (index[i].ids \ Lapsed(r))
    PROVE  IsFiniteSet(ids \cup {r}) /\ Cardinality(ids \cup {r}) <= Limit(i)
<1> DEFINE left == index[i].ids \ Lapsed(r)
<1>1. i \in Client \cup {All} /\ Limit(i) \in Nat
  BY RequestsAssumption DEF Mine, Limit
<1>2. IsFiniteSet(left)
  BY <1>1, FS_Difference DEF Capacity, Bounded
<1>3. Cardinality(left) \in Nat /\ Cardinality(left) < Limit(i)
  <2>1. Cardinality(left) \in Nat
    BY <1>2, FS_CardinalityType
  <2>2. Cardinality(left) < Limit(i)
    BY RequestsAssumption DEF Fits, Mine, Limit
  <2> QED
    BY <2>1, <2>2
<1> HIDE DEF left
<1>4. ids \in SUBSET left
  BY DEF left
<1>5. IsFiniteSet(ids) /\ Cardinality(ids) <= Cardinality(left)
  BY <1>2, <1>4, FS_Subset
<1>6. Cardinality(ids) \in Nat
  BY <1>5, FS_CardinalityType
<1>7. /\ IsFiniteSet(ids \cup {r})
      /\ Cardinality(ids \cup {r}) = IF r \in ids THEN Cardinality(ids) ELSE Cardinality(ids) + 1
  BY <1>5, FS_AddElement
<1> QED
  BY <1>1, <1>3, <1>5, <1>6, <1>7

\* save_limited keeps the capacity, whatever lifetime the request gets.
LEMMA KeepKeeps ==
    ASSUME Types, Capacity, NEW r \in AuthRequest, NEW n, NEW s, NEW ttl \in Int,
           Keep(r, n, s, ttl), UNCHANGED <<second, lifetime>>
    PROVE  Capacity'
<1> DEFINE f == Swept(r, ttl)
<1>0. /\ index \in [Client \cup {All} -> IndexType] /\ saved \in [AuthRequest -> RequestType]
      /\ second + ttl \in Int /\ Mine(r) \subseteq Client \cup {All}
  BY RequestsAssumption DEF Types, RequestTypes, Capacity, Mine
<1>1. /\ f \in [Client \cup {All} -> IndexType]
      /\ \A i \in Client \cup {All} :
             /\ f[i].ids = index[i].ids \ Lapsed(r)
             /\ f[i].ids # {} => f[i].ends >= index[i].ends
  BY SweptIs
<1>2. index' = [i \in Client \cup {All} |->
           IF i \in Mine(r)
           THEN [ids |-> f[i].ids \cup {r}, ends |-> AtLeast(f[i].ends, second + ttl)]
           ELSE f[i]]
  BY <1>0 DEF Keep, Mine
<1> HIDE DEF f
<1>3. ASSUME NEW i \in Client \cup {All}
      PROVE  f[i].ends \in Int /\ f[i].ids \in SUBSET AuthRequest /\ f[i] \in IndexType
  BY <1>1 DEF IndexType
<1>4. ASSUME NEW i \in Mine(r)
      PROVE  /\ index'[i].ids = f[i].ids \cup {r} /\ index'[i].ends \in Int
             /\ index'[i].ends >= f[i].ends /\ index'[i].ends >= second + ttl
  <2>1. f[i].ends \in Int
    BY <1>0, <1>3
  <2>2. /\ AtLeast(f[i].ends, second + ttl) \in Int
        /\ AtLeast(f[i].ends, second + ttl) >= f[i].ends
        /\ AtLeast(f[i].ends, second + ttl) >= second + ttl
    BY <1>0, <2>1, AtLeastIs
  <2> QED
    BY <1>0, <1>2, <2>2
<1>5. ASSUME NEW i \in (Client \cup {All}) \ Mine(r) PROVE index'[i] = f[i]
  BY <1>2
<1>6. index' \in [Client \cup {All} -> IndexType]
  <2> SUFFICES ASSUME NEW i \in Client \cup {All} PROVE index'[i] \in IndexType
    BY <1>2
  <2>1. CASE i \in Mine(r)
    <3>1. index'[i] = [ids |-> f[i].ids \cup {r}, ends |-> AtLeast(f[i].ends, second + ttl)]
      BY <1>2, <2>1
    <3> QED
      BY <3>1, <2>1, <1>3, <1>4 DEF IndexType
  <2> QED
    BY <2>1, <1>3, <1>5
<1>7. Bounded'
  <2> SUFFICES ASSUME NEW i \in Client \cup {All}
               PROVE  IsFiniteSet(index'[i].ids) /\ Cardinality(index'[i].ids) <= Limit(i)
    BY DEF Bounded, Limit
  <2>1. CASE i \in Mine(r)
    <3>1. index'[i].ids = f[i].ids \cup {r}
      BY <1>4, <2>1
    <3>2. f[i].ids \in SUBSET (index[i].ids \ Lapsed(r)) /\ Fits(r)
      BY <1>1 DEF Keep
    <3>3. \A ids \in SUBSET (index[i].ids \ Lapsed(r)) :
              IsFiniteSet(ids \cup {r}) /\ Cardinality(ids \cup {r}) <= Limit(i)
      BY <2>1, <3>2, Sized
    <3> QED
      BY <3>1, <3>2, <3>3
  <2>2. CASE i \notin Mine(r)
    <3>1. IsFiniteSet(index[i].ids) /\ Cardinality(index[i].ids) <= Limit(i)
      BY DEF Capacity, Bounded
    <3>2. index'[i].ids \in SUBSET index[i].ids
      BY <1>1, <1>5, <2>2
    <3>3. /\ IsFiniteSet(index'[i].ids)
          /\ Cardinality(index'[i].ids) <= Cardinality(index[i].ids)
      BY <3>1, <3>2, FS_Subset
    <3>4. Limit(i) \in Nat
      BY RequestsAssumption DEF Limit
    <3> QED
      BY <3>1, <3>3, <3>4, FS_CardinalityType
  <2> QED
    BY <2>1, <2>2
<1>8. Indexed'
  <2> SUFFICES ASSUME NEW q \in AuthRequest, Kept(q)', NEW i \in Mine(q)
               PROVE  q \in index'[i].ids /\ saved'[q].ends <= index'[i].ends
    BY DEF Indexed, Mine
  <2>0. i \in Client \cup {All}
    BY RequestsAssumption DEF Mine
  <2>1. CASE q = r
    <3>1. saved'[q].ends = second + ttl
      BY <2>1, <1>0 DEF Keep
    <3> QED
      BY <2>1, <3>1, <1>4, <1>0
  <2>2. CASE q # r
    <3>1. saved'[q] = saved[q] /\ Kept(q)
      BY <2>2, <1>0 DEF Keep, Kept
    <3>2. q \in index[i].ids /\ saved[q].ends <= index[i].ends
      BY <3>1 DEF Capacity, Indexed
    <3>3. q \in f[i].ids
      BY <1>1, <2>0, <3>1, <3>2 DEF Lapsed
    <3>4. f[i].ends >= index[i].ends
      BY <1>1, <2>0, <3>3
    <3>5. saved[q].ends \in Int /\ index[i].ends \in Int /\ f[i].ends \in Int
      BY <1>0, <1>3, <2>0 DEF RequestType, IndexType
    <3>6. q \in index'[i].ids /\ index'[i].ends \in Int /\ index'[i].ends >= f[i].ends
      BY <1>4, <1>5, <2>0, <3>3, <3>5
    <3> QED
      BY <3>1, <3>2, <3>4, <3>5, <3>6
  <2> QED
    BY <2>1, <2>2
<1> QED
  BY <1>6, <1>7, <1>8 DEF Capacity

LEMMA NoRoomKeeps ==
    ASSUME Types, Capacity, NEW r \in AuthRequest, NEW ttl \in Int, NoRoom(r, ttl)
    PROVE  Capacity'
<1>1. index' = Swept(r, ttl) /\ UNCHANGED saved
  BY DEF NoRoom
<1>2. index' \in [Client \cup {All} -> IndexType]
  BY <1>1, SweptIs
<1>3. ASSUME NEW i \in Client \cup {All} PROVE Eases(i)
  <2>1. index'[i].ids = index[i].ids \ Lapsed(r)
        /\ (index'[i].ids # {} => index'[i].ends >= index[i].ends)
    BY <1>1, SweptIs
  <2>2. \A q \in AuthRequest : Kept(q)' => q \notin Lapsed(r)
    BY <1>1 DEF Kept, Lapsed
  <2> QED
    BY <2>1, <2>2 DEF Eases
<1>4. \A q \in AuthRequest : Kept(q)' => Kept(q) /\ saved'[q].ends = saved[q].ends
  BY <1>1 DEF Kept
<1> QED
  BY <1>2, <1>3, <1>4, CapacityEased

\* release takes one name away, of a request that is no longer there.
LEMMA ReleasedKeeps ==
    ASSUME Types, Capacity, NEW r \in AuthRequest, index' = Released(r), ~Kept(r)',
           \A q \in AuthRequest : Kept(q)' => Kept(q) /\ saved'[q].ends = saved[q].ends
    PROVE  Capacity'
<1>0. second + lifetime \in Int /\ index \in [Client \cup {All} -> IndexType]
  BY DEF Types, RequestTypes, Capacity
<1>1. index' = [i \in Client \cup {All} |->
           IF i \in Mine(r)
           THEN Named(index[i].ids \ {r}, AtLeast(index[i].ends, second + lifetime))
           ELSE index[i]]
  BY <1>0 DEF Released, Mine
<1>2. ASSUME NEW i \in Client \cup {All}
      PROVE  index'[i] \in IndexType /\ Eases(i)
  <2>1. index[i].ids \ {r} \in SUBSET AuthRequest /\ index[i].ends \in Int
    BY <1>0 DEF IndexType
  <2> DEFINE ends == AtLeast(index[i].ends, second + lifetime)
  <2>2. ends \in Int /\ ends >= index[i].ends
    BY <1>0, <2>1, AtLeastIs
  <2> HIDE DEF ends
  <2>3. CASE i \in Mine(r)
    <3>1. index'[i] = Named(index[i].ids \ {r}, ends)
      BY <1>1, <2>3 DEF ends
    <3>2. index'[i] \in IndexType /\ index'[i].ids = index[i].ids \ {r}
          /\ (index'[i].ids # {} => index'[i].ends = ends)
      BY <3>1, <2>1, <2>2, NamedIs
    <3> QED
      BY <2>2, <3>2 DEF Eases
  <2>4. CASE i \notin Mine(r)
    <3>1. index'[i] = index[i]
      BY <1>1, <2>4
    <3> QED
      BY <1>0, <2>1, <3>1 DEF Eases
  <2> QED
    BY <2>3, <2>4
<1>3. index' \in [Client \cup {All} -> IndexType]
  BY <1>1, <1>2
<1> QED
  BY <1>2, <1>3, CapacityEased

\* PENDING_REPLACE_SCRIPT: both indices have the request still, so they get no longer.
LEMMA ReplaceKeeps ==
    ASSUME Types, Capacity, NEW r \in AuthRequest, NEW n, NEW s, Replace(r, n, s),
           UNCHANGED <<second, lifetime>>
    PROVE  Capacity'
<1>0. /\ second + lifetime \in Int /\ index \in [Client \cup {All} -> IndexType]
      /\ saved \in [AuthRequest -> RequestType] /\ Mine(r) \subseteq Client \cup {All}
  BY RequestsAssumption DEF Types, RequestTypes, Capacity, Mine
<1>1. Kept(r)
  BY DEF Replace, SameIdentity
<1>2. \A q \in AuthRequest : Kept(q)' => Kept(q) /\ saved'[q].ends = saved[q].ends
  BY <1>0 DEF Replace, Kept, RequestType
<1>3. index' = [i \in Client \cup {All} |->
           IF i \in Mine(r)
           THEN [ids |-> index[i].ids \cup {r}, ends |-> AtLeast(index[i].ends, second + lifetime)]
           ELSE index[i]]
  BY <1>0 DEF Replace, Mine
<1>4. ASSUME NEW i \in Client \cup {All}
      PROVE  index'[i] \in IndexType /\ Eases(i)
  <2>1. index[i].ids \in SUBSET AuthRequest /\ index[i].ends \in Int
    BY <1>0 DEF IndexType
  <2> DEFINE ends == AtLeast(index[i].ends, second + lifetime)
  <2>2. ends \in Int /\ ends >= index[i].ends
    BY <1>0, <2>1, AtLeastIs
  <2> HIDE DEF ends
  <2>3. CASE i \in Mine(r)
    <3>1. index'[i] = [ids |-> index[i].ids \cup {r}, ends |-> ends]
      BY <1>3, <2>3 DEF ends
    <3>2. r \in index[i].ids
      BY <1>1, <2>3 DEF Capacity, Indexed
    <3>3. index'[i].ids = index[i].ids /\ index'[i].ends = ends
      BY <3>1, <3>2
    <3>4. index'[i] \in IndexType
      BY <2>1, <2>2, <3>1, <3>2 DEF IndexType
    <3> QED
      BY <2>2, <3>3, <3>4 DEF Eases
  <2>4. CASE i \notin Mine(r)
    <3>1. index'[i] = index[i]
      BY <1>3, <2>4
    <3> QED
      BY <1>0, <2>1, <3>1 DEF Eases
  <2> QED
    BY <2>3, <2>4
<1>5. index' \in [Client \cup {All} -> IndexType]
  BY <1>3, <1>4
<1> QED
  BY <1>2, <1>4, <1>5, CapacityEased

\* An index is deleted after the requests it names.
LEMMA TimeKeeps ==
    ASSUME Types, Capacity, SecondPasses
    PROVE  Capacity'
<1>0. /\ second \in Int /\ second' = second + 1 /\ saved \in [AuthRequest -> RequestType]
      /\ index \in [Client \cup {All} -> IndexType]
  BY DEF Types, RequestTypes, Capacity, SecondPasses
<1>1. index' = [i \in Client \cup {All} |->
           IF index[i].ends <= second' THEN NoIndex ELSE index[i]]
  BY <1>0 DEF SecondPasses
<1>2. ASSUME NEW q \in AuthRequest, Kept(q)'
      PROVE  Kept(q) /\ saved'[q].ends = saved[q].ends /\ ~(saved[q].ends <= second')
  <2>1. saved'[q] = IF Kept(q) /\ saved[q].ends <= second' THEN [saved[q] EXCEPT !.state = "gone"]
                    ELSE saved[q]
    BY DEF SecondPasses
  <2>2. CASE Kept(q) /\ saved[q].ends <= second'
    <3>1. saved'[q] = [saved[q] EXCEPT !.state = "gone"] /\ saved[q] \in RequestType
      BY <1>0, <2>1, <2>2
    <3>2. saved'[q].state = "gone"
      BY <3>1 DEF RequestType
    <3> QED
      BY <1>2, <3>2 DEF Kept
  <2>3. CASE ~(Kept(q) /\ saved[q].ends <= second')
    BY <1>2, <2>1, <2>3 DEF Kept
  <2> QED
    BY <2>2, <2>3
<1>3. ASSUME NEW i \in Client \cup {All}
      PROVE  index'[i] \in IndexType /\ Eases(i)
  <2>1. index[i] \in IndexType /\ index[i].ids \in SUBSET AuthRequest /\ index[i].ends \in Int
    BY <1>0 DEF IndexType
  <2>2. CASE index[i].ends <= second'
    <3>1. index'[i] = NoIndex
      BY <1>1, <2>2
    <3>2. ASSUME NEW q \in AuthRequest, Kept(q)', i \in Mine(q) PROVE FALSE
      <4>1. Kept(q) /\ ~(saved[q].ends <= second') /\ saved[q].ends \in Int
        BY <1>0, <1>2, <3>2 DEF RequestType
      <4>2. saved[q].ends <= index[i].ends
        BY <3>2, <4>1 DEF Capacity, Indexed
      <4> QED
        BY <1>0, <2>1, <2>2, <4>1, <4>2
    <3> QED
      BY <3>1, <3>2 DEF NoIndex, IndexType, Eases
  <2>3. CASE ~(index[i].ends <= second')
    <3>1. index'[i] = index[i]
      BY <1>1, <2>3
    <3> QED
      BY <2>1, <3>1 DEF Eases
  <2> QED
    BY <2>2, <2>3
<1>4. index' \in [Client \cup {All} -> IndexType]
  BY <1>1, <1>3
<1> QED
  BY <1>2, <1>3, <1>4, CapacityEased

LEMMA MissesKeeps ==
    ASSUME Types, Capacity, NEW r \in AuthRequest, NEW n, Misses(r, n)
    PROVE  Capacity'
<1>1. UNCHANGED saved /\ index' = IF Kept(r) THEN index ELSE Released(r)
  BY DEF Misses
<1>2. CASE Kept(r)
  BY <1>1, <1>2 DEF Capacity, Bounded, Indexed, Kept, Limit
<1>3. CASE ~Kept(r)
  BY <1>1, <1>3, ReleasedKeeps DEF Kept
<1> QED
  BY <1>2, <1>3

LEMMA CapacityNext == Types /\ Capacity /\ [DecisionsNext]_allVars => Capacity'
<1> SUFFICES ASSUME Types, Capacity, [DecisionsNext]_allVars PROVE Capacity'
  OBVIOUS
<1>0. /\ second \in Int /\ lifetime \in Nat /\ saved \in [AuthRequest -> RequestType]
      /\ decision \in [Decider -> DecisionType]
      /\ rebind \in [request : SUBSET AuthRequest, session : Someone, revision : Nat]
  BY DEF Types, RequestTypes, DecisionTypes
<1>s. ASSUME UNCHANGED <<saved, index>> PROVE Capacity'
  BY <1>s DEF Capacity, Bounded, Indexed, Kept, Limit
<1>1. CASE ChangeLifetime
  BY <1>1, <1>s DEF ChangeLifetime
<1>2. CASE SecondPasses
  BY <1>2, TimeKeeps
<1>3. ASSUME NEW r \in AuthRequest, NEW s \in Someone, Authorize(r, s) PROVE Capacity'
  <2>1. UNCHANGED <<second, lifetime>> /\ (Keep(r, 0, s, lifetime) \/ NoRoom(r, lifetime))
    BY <1>3 DEF Authorize
  <2>2. lifetime \in Int
    BY <1>0
  <2> QED
    BY <2>1, <2>2, KeepKeeps, NoRoomKeeps
<1>4. ASSUME NEW d \in Decider, Consume(d) PROVE Capacity'
  <2>1. PICK r \in AuthRequest, n \in Nat : r = decision[d].request /\ n = decision[d].revision
    BY <1>0 DEF DecisionType
  <2>2. TakeRequest(r, n) \/ Misses(r, n)
    BY <1>4, <2>1 DEF Consume
  <2>3. CASE TakeRequest(r, n)
    <3>1. saved' = [saved EXCEPT ![r].state = "taken"] /\ index' = Released(r)
      BY <2>3 DEF TakeRequest
    <3>2. saved[r] \in RequestType
      BY <1>0, <2>1
    <3>3. ~Kept(r)'
      BY <1>0, <3>1, <3>2 DEF Kept, RequestType
    <3>4. \A q \in AuthRequest : Kept(q)' => Kept(q) /\ saved'[q].ends = saved[q].ends
      BY <1>0, <3>1, <3>3 DEF Kept
    <3> QED
      BY <3>1, <3>3, <3>4, ReleasedKeeps
  <2> QED
    BY <2>1, <2>2, <2>3, MissesKeeps
<1>5. ASSUME NEW d \in Decider, Restore(d) PROVE Capacity'
  <2>1. decision[d].request \in AuthRequest /\ decision[d].left \in Int
    BY <1>0 DEF DecisionType
  <2>2. /\ UNCHANGED <<second, lifetime>>
        /\ \/ Keep(decision[d].request, decision[d].revision, decision[d].bound, decision[d].left)
           \/ NoRoom(decision[d].request, decision[d].left)
    BY <1>5 DEF Restore
  <2> QED
    BY <2>1, <2>2, KeepKeeps, NoRoomKeeps
<1>6. CASE BindReplaces
  <2>1. UNCHANGED <<second, lifetime>> /\ rebind.request \subseteq AuthRequest
    BY <1>0, <1>6 DEF BindReplaces
  <2>2. PICK r \in rebind.request : \/ Replace(r, rebind.revision, rebind.session)
                                    \/ Misses(r, rebind.revision)
                                    \/ UNCHANGED <<saved, index>>
    BY <1>6 DEF BindReplaces
  <2> QED
    BY <2>1, <2>2, ReplaceKeeps, MissesKeeps, <1>s
<1>7. CASE UNCHANGED requestVars
  BY <1>7, <1>s DEF requestVars
<1> QED
  BY <1>1, <1>2, <1>3, <1>4, <1>5, <1>6, <1>7, RequestSteps DEF RequestStep

LEMMA CapacityInit == RequestsInit => Capacity
<1> SUFFICES ASSUME RequestsInit PROVE Capacity
  OBVIOUS
<1>1. ASSUME NEW i \in Client \cup {All}
      PROVE  IsFiniteSet(index[i].ids) /\ Cardinality(index[i].ids) <= Limit(i)
  <2>1. Limit(i) \in Nat
    BY RequestsAssumption DEF Limit
  <2>2. index[i].ids = {}
    BY DEF RequestsInit, NoIndex
  <2> QED
    BY <2>1, <2>2, FS_EmptySet
<1>2. Bounded
  BY <1>1 DEF Bounded
<1> QED
  BY <1>2 DEF RequestsInit, NoIndex, New, Kept, Capacity, IndexType, Indexed

\* The lifetime of an index is never shortened and the names of requests that expired
\* are released (PENDING_CAPACITY_SCRIPT, expire_at_least), so an index is never
\* forgotten before a request it counts, and save_limited, restore_pending and the
\* rebind admit no more requests than the limits.
THEOREM CapacityIsAlwaysKept == DecisionsSpec => []CapacityIsKept
<1>1. RequestsInit /\ DecisionsInit => Types /\ Capacity
  BY TypesInit, CapacityInit
<1>2. Types /\ Capacity /\ [DecisionsNext]_<<requestVars, decisionVars>>
      => (Types /\ Capacity)'
  BY TypesNext, CapacityNext DEF allVars
<1>3. Capacity => CapacityIsKept
  <2> SUFFICES ASSUME Capacity PROVE CapacityIsKept
    OBVIOUS
  <2>1. ASSUME NEW i \in Client \cup {All},
               NEW ids \in SUBSET {r \in AuthRequest : Kept(r) /\ i \in Mine(r)}
        PROVE  ids \subseteq index[i].ids /\ Cardinality(ids) <= Limit(i)
    <3>1. ids \in SUBSET index[i].ids
      BY DEF Capacity, Indexed
    <3>2. IsFiniteSet(index[i].ids) /\ Cardinality(index[i].ids) <= Limit(i)
      BY DEF Capacity, Bounded
    <3>3. IsFiniteSet(ids) /\ Cardinality(ids) <= Cardinality(index[i].ids)
      BY <3>1, <3>2, FS_Subset
    <3>4. Limit(i) \in Nat
      BY RequestsAssumption DEF Limit
    <3> QED
      BY <3>1, <3>2, <3>3, <3>4, FS_CardinalityType
  <2>2. /\ {r \in AuthRequest : Kept(r)} \subseteq index[All].ids
        /\ Cardinality({r \in AuthRequest : Kept(r)}) <= MaxGlobal
    BY <2>1 DEF Mine, Limit
  <2>3. ASSUME NEW c \in Client
        PROVE  LET its == {r \in {r \in AuthRequest : Kept(r)} : ClientOf[r] = c}
               IN its \subseteq index[c].ids /\ Cardinality(its) <= MaxPerClient
    BY <2>1, RequestsAssumption DEF Mine, Limit
  <2> QED
    BY <2>2, <2>3 DEF CapacityIsKept
<1> QED
  BY <1>1, <1>2, <1>3, PTL DEF DecisionsSpec
=============================================================================
