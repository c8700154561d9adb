------------------------ MODULE RefreshExchangeProofs ------------------------
(***************************************************************************)
(* The requests of RefreshExchange keep the properties of that module, for *)
(* any number of requests, tokens, users and clients and any bounds, under *)
(* whatever set of faults each property stands.  EInv is the inductive     *)
(* invariant: what a request knows and owes by the place it has come to,   *)
(* and what the store, the tombstones and the stamps say about the         *)
(* requests.                                                               *)
(***************************************************************************)
EXTENDS RefreshExchange, RefreshStoreProofs

-----------------------------------------------------------------------------
(* What is known of one request; q is its record. *)

RequestRecord ==
    [pc : Place, kind : {"none", "exchange", "revocation"},
     client : Client \cup {None}, secret : 0..MaxSecret,
     token : Token \cup {None}, next : Token \cup {None},
     consent : 0..MaxConsent, guard : {"none", "held", "lost"},
     outcome : Outcome, scope : FamilyId \cup {NoFamily},
     result : Result]

\* The token a family began with.
Root(t) == Family(t).of

\* The request has exchanged its token, and has neither put it back nor given
\* up: it will hand the successor out, has done so, or has died with it.
Rotated(q) == q.next # None /\ q.result \in {"none", "ok"}

\* The places before the rotation, and those between it and the answer.
Early == {"find", "tombstone", "gate", "epoch", "fence", "rotate", "revoke"}
Late == {"confirmEpoch", "confirmConsent", "audit", "rollback"}

Controlled(q) ==
    /\ q.pc = "idle" => q = Idle
    /\ q.pc # "idle" =>
          q.token \in disclosed /\ q.client \in Client /\ q.kind \in {"exchange", "revocation"}
    /\ q.pc \in Early => q.next = None /\ q.result = "none"
    /\ q.pc \in Late => q.next # None /\ q.result = "none"
    /\ q.pc = "release" =>
          /\ q.result = "none"
          /\ q.outcome = "Rotated" => q.next # None
          /\ q.outcome \in {"KeyMissing", "FamilyRevoked"} => q.next = None
          /\ q.outcome \in {"Rotated", "KeyMissing", "FamilyRevoked"} \/ May("redis")
    /\ q.guard = "held" => q.pc \in {"rotate", "release"}
    /\ q.pc = "crashed" => q.result = "none"
    /\ q.pc = "done" => q.result # "none"
    /\ q.result \in {"denied", "invalid", "revoked"} => q.next = None
    /\ q.result = "ok" => q.next # None

\* No token of family f can be exchanged.
FamilyDead(f) == \A s \in live : Family(s) # f

\* Nobody can bring t back.
Spent(t) == t \notin live /\ \A r \in Request : Rotated(req[r]) => req[r].token # t

\* A tombstone, and what a request read in one, names the family of its token
\* or comes too late to matter.
Finished(t) == FamilyDead(Family(t)) /\ Spent(t)
Scope(t, f) == f = Family(t) \/ (f \in {NoFamily, LegacyScope(t)} /\ Finished(t))

Scoped(q) == q.pc = "revoke" => q.scope # NoFamily /\ Scope(q.token, q.scope)

\* Somebody exchanged t; or t is a successor that was put back.
Exchanged(t) == \E s \in Request : req[s].token = t /\ req[s].next # None
TakenBack(t) ==
    \E s \in Request : req[s].next = t /\ req[s].result \in {"restored", "unavailable"}

\* A request takes its token for a replay only if somebody exchanged it.
Alarmed(q) ==
    q.kind = "exchange" =>
        ((q.pc = "revoke" \/ q.result = "revoked") => Exchanged(q.token))

\* What a request has read of its token is true of the family.
StampsRead(q) ==
    /\ q.pc \in {"gate", "epoch", "fence", "rotate"} =>
          stamp[q.token].secret = q.secret
    /\ q.pc \in {"epoch", "fence", "rotate"} =>
          q.consent >= stamp[Root(q.token)].consent

\* While tombstones last, whoever finds a token gone finds out why, or its family
\* has come to an end; and who is turned away leaves nothing of the family.
InEvidence(t) == Family(t) \in epitaph \/ tomb[t] = Dead("Consumed", Family(t))

Witnessed(q) ==
    /\ Rotated(q) => InEvidence(q.token)
    /\ (q.pc = "tombstone" \/ (q.pc = "release" /\ q.outcome = "KeyMissing")) =>
          (InEvidence(q.token) \/ Finished(q.token))
    /\ q.pc = "release" /\ q.outcome = "FamilyRevoked" => Family(q.token) \in epitaph
    /\ q.kind = "exchange" /\ q.result = "invalid" /\ GrantOf(q.token).client = q.client =>
          (Family(q.token) \in epitaph \/ Finished(q.token))
    /\ q.kind = "exchange" /\ q.result = "revoked" =>
          (Family(q.token) \in epitaph \/ Finished(q.token))

\* Responsible, of a record: somebody answers for the successor.
Answers(q) == q.pc \notin {"idle", "done"} \/ (May("redis") /\ q.result = "unavailable")

Owes(q) == q.next \in live => q.next \in disclosed \/ Answers(q)

Fit(q) ==
    /\ Controlled(q) /\ Scoped(q) /\ Alarmed(q)
    /\ StampsRead(q) /\ (May("expiry") \/ Witnessed(q)) /\ Owes(q)

Requests == \A r \in Request : Fit(req[r])

-----------------------------------------------------------------------------
(* What is known of the tokens. *)

DisclosedKnown == \A t \in disclosed : Known(t)

\* A successor belongs to one request, which alone may hand it out.
Successors == \A r \in Request : req[r].next # None =>
    /\ Known(req[r].next) /\ record[req[r].next].parent = req[r].token
    /\ req[r].next \in disclosed => req[r].result = "ok"
    /\ \A s \in Request : req[s].next = req[r].next => s = r

\* A token that was exchanged is gone, from every index too, and nobody else
\* has exchanged it.
Once == \A r \in Request : Rotated(req[r]) =>
    /\ req[r].token \notin live /\ ~Reached(req[r].token)
    /\ \A s \in Request : Rotated(req[s]) /\ req[s].token = req[r].token => s = r

Tombs == \A t \in Token : tomb[t] # None =>
    /\ Known(t) /\ Scope(t, tomb[t].family)
    /\ tomb[t].state = "Consumed" => Exchanged(t) \/ TakenBack(t)

\* While tombstones last, every token issued is alive, or in evidence, or the
\* last of a family that is dead.
Evident == May("expiry") \/ \A t \in Token :
    Known(t) => t \in live \/ InEvidence(t) \/ Finished(t)

\* A family keeps its grant and the stamps it began with; of the consent the
\* version may grow.
Stamps == \A t \in Token : Known(t) =>
    /\ GrantOf(Root(t)) = GrantOf(t)
    /\ stamp[t].secret = stamp[Root(t)].secret
    /\ stamp[t].epoch = stamp[Root(t)].epoch
    /\ stamp[t].consent >= stamp[Root(t)].consent
    /\ stamp[t].secret <= secret[GrantOf(t).client]
    /\ stamp[Root(t)].consent <= consent[GrantOf(t)].version

\* A family with a token was opened after the last cut, or is being cut.
Cuts ==
    /\ \A g \in Grant :
          /\ cut[g] <= consent[g].version
          /\ ~consent[g].revoked => cut[g] < consent[g].version
    /\ May("cleanup") \/ May("crash") \/ \A s \in live :
          GrantOf(s) \in cutting \/ stamp[Root(s)].consent > cut[GrantOf(s)]

\* And after the last sweep that ran to its end.
Sweeps ==
    /\ \A c \in Client : swept[c] <= secret[c]
    /\ \A s \in live : stamp[Root(s)].secret >= swept[GrantOf(s).client]

\* Families of tokens somebody holds are alive, unless there is a reason.
Holdings == May("expiry") \/ May("cleanup") \/ May("crash") \/ \A t \in disclosed :
    Family(t) \in epitaph \/ SweptAway(t) \/ ~FamilyDead(Family(t))

EInv ==
    /\ IInv /\ ExchangeTypeOK /\ DisclosedKnown
    /\ Requests /\ Successors /\ Once /\ Tombs /\ Evident
    /\ Stamps /\ Cuts /\ Sweeps /\ Holdings /\ NoOrphan

-----------------------------------------------------------------------------
(* What no step undoes. *)

LEMMA Parts ==
    ASSUME EInv
    PROVE  /\ IInv /\ TypeOK /\ ExchangeTypeOK /\ DisclosedKnown
           /\ Requests /\ Successors /\ Once /\ Tombs /\ Evident
           /\ Stamps /\ Cuts /\ Sweeps /\ Holdings /\ NoOrphan
BY DEF EInv, IInv

\* A request that has begun presents a token that was issued; a successor was
\* issued too.
LEMMA TokensOfRequests ==
    ASSUME EInv, NEW r \in Request
    PROVE  /\ req \in [Request -> RequestRecord]
           /\ req[r] \in RequestRecord
           /\ Fit(req[r])
           /\ req[r].pc # "idle" =>
                /\ req[r].token \in Token /\ req[r].token \in disclosed
                /\ Known(req[r].token)
           /\ req[r].next # None =>
                /\ req[r].pc # "idle"
                /\ req[r].next \in Token /\ Known(req[r].next)
<1>1. req \in [Request -> RequestRecord] /\ req[r] \in RequestRecord /\ disclosed \subseteq Token
  BY DEF EInv, ExchangeTypeOK, RequestRecord
<1>2. Fit(req[r])
  BY DEF EInv, Requests
<1>3. req[r].pc = "idle" => req[r].next = None
  BY <1>2 DEF Fit, Controlled, Idle
<1>4. req[r].pc # "idle" => req[r].token \in disclosed
  BY <1>2 DEF Fit, Controlled
<1>. QED
  BY <1>1, <1>2, <1>3, <1>4 DEF EInv, DisclosedKnown, Successors, RequestRecord

\* A step forgets nothing: what was issued keeps its payload and its stamps,
\* what is dead stays dead, and evidence stays until it no longer matters.
Steady ==
    /\ \A t \in Token : Known(t) => record'[t] = record[t] /\ stamp'[t] = stamp[t]
    /\ epitaph \subseteq epitaph'
    /\ disclosed \subseteq disclosed'
    /\ \A t \in Token : Known(t) =>
          /\ Spent(t) => Spent(t)'
          /\ Finished(t) => Finished(t)'
          /\ Exchanged(t) => Exchanged(t)'
          /\ TakenBack(t) => TakenBack(t)'
          /\ InEvidence(t) => InEvidence(t)' \/ Finished(t)' \/ May("expiry")
    /\ live' \subseteq Token
    /\ \A t \in live' \ live : t \in disclosed' \/ ~Known(t)

LEMMA KnownSteady ==
    ASSUME EInv, Steady, NEW t \in Token, Known(t)
    PROVE  /\ Known(t)'
           /\ Family(t)' = Family(t) /\ GrantOf(t)' = GrantOf(t)
           /\ Root(t) \in Token /\ Known(Root(t)) /\ Root(t)' = Root(t)
           /\ stamp'[t] = stamp[t] /\ stamp'[Root(t)] = stamp[Root(t)]
<1>1. Root(t) \in Token /\ Known(Root(t))
  BY Parts, KnownTyped DEF IInv, Lineage, Root
<1>. QED
  BY <1>1 DEF Steady, Known, Family, GrantOf, Root

\* What a request that does not move knows stays true.
LEMMA ScopeLasts ==
    ASSUME EInv, Steady, NEW t \in Token, Known(t), NEW f, Scope(t, f)
    PROVE  Scope(t, f)'
BY KnownSteady DEF Steady, Scope, LegacyScope

LEMMA FitLasts ==
    ASSUME EInv, Steady, NEW q \in RequestRecord, Fit(q),
           q.next # None => Known(q.next),
           Rotated(q) => ~Spent(q.token)'
    PROVE  Fit(q)'
<1>. DEFINE t == q.token
<1>0. None \notin live'
  BY NoneTombstoneAssumption DEF Steady
<1>1. Controlled(q)
  BY DEF Fit
<1>2. CASE q.pc = "idle"
  <2>1. q = Idle
    BY <1>1, <1>2 DEF Controlled
  <2>. QED
    BY <1>0, <2>1 DEF Fit, Controlled, Scoped, Alarmed, StampsRead, Witnessed, Owes,
          Rotated, Idle, Early, Late
<1>3. CASE q.pc # "idle"
  <2>1. t \in Token /\ t \in disclosed /\ Known(t)
    BY <1>1, <1>3, Parts DEF Controlled, DisclosedKnown, ExchangeTypeOK
  <2>2. /\ Known(t)' /\ Family(t)' = Family(t) /\ GrantOf(t)' = GrantOf(t)
        /\ Root(t)' = Root(t) /\ stamp'[t] = stamp[t] /\ stamp'[Root(t)] = stamp[Root(t)]
    BY <2>1, KnownSteady
  <2>3. Controlled(q)'
    BY <1>1 DEF Steady, Controlled
  <2>4. Scoped(q)'
    BY <2>1, ScopeLasts DEF Fit, Scoped
  <2>5. Alarmed(q)'
    BY <2>1 DEF Fit, Alarmed, Steady
  <2>6. StampsRead(q)'
    BY <2>2 DEF Fit, StampsRead
  <2>7. May("expiry") \/ Witnessed(q)'
    <3>. SUFFICES ASSUME ~May("expiry") PROVE Witnessed(q)'
      OBVIOUS
    <3>1. Witnessed(q)
      BY DEF Fit
    <3>2. InEvidence(t) => InEvidence(t)' \/ Finished(t)'
      BY <2>1 DEF Steady
    <3>3. /\ Finished(t) => Finished(t)'
          /\ Family(t) \in epitaph => Family(t)' \in epitaph'
          /\ Finished(t)' => Spent(t)'
      BY <2>1, <2>2 DEF Steady, Finished
    <3>. QED
      BY <2>2, <3>1, <3>2, <3>3 DEF Witnessed, Rotated
  <2>8. Owes(q)'
    BY <1>0 DEF Fit, Owes, Steady, Answers
  <2>. QED
    BY <2>3, <2>4, <2>5, <2>6, <2>7, <2>8 DEF Fit
<1>. QED
  BY <1>2, <1>3

-----------------------------------------------------------------------------
(* Steps that issue no token. *)

\* Requests move on, and answer once.
Moving ==
    \A r \in Request :
        /\ \/ req'[r] = req[r]
           \/ /\ req[r].result = "none"
              /\ req'[r].next = req[r].next
              /\ req[r].pc = "idle" \/ req'[r].token = req[r].token
              /\ Rotated(req'[r]) => Rotated(req[r])
        /\ req'[r].next \in disclosed' \ disclosed => req'[r].result = "ok"

\* The store may lose tokens; a successor may be handed out.
Quiet ==
    /\ Moving
    /\ UNCHANGED <<record, stamp>>
    /\ live' \subseteq live
    /\ \A t \in Token : Known(t) /\ Reached(t)' => Reached(t)
    /\ epitaph \subseteq epitaph'
    /\ disclosed \subseteq disclosed'
    /\ \A t \in disclosed' \ disclosed :
          t \in Token /\ Known(t) /\ \E u \in disclosed : Family(u) = Family(t)

\* A tombstone that changes names what it should, or the token is of no use to
\* anybody; and it is no claim that the token was exchanged.
TombsHold ==
    \A t \in Token : tomb'[t] # tomb[t] =>
        /\ tomb'[t] # None =>
              Known(t) /\ Scope(t, tomb[t].family)' /\ tomb'[t].state # "Consumed"
        /\ May("expiry") \/ Finished(t)' \/ Family(t) \in epitaph'

\* Quiet steps undo nothing.
LEMMA QuietLasts ==
    ASSUME EInv, Quiet, NEW t \in Token, Known(t)
    PROVE  /\ Family(t)' = Family(t) /\ GrantOf(t)' = GrantOf(t)
           /\ Spent(t) => Spent(t)'
           /\ Finished(t) => Finished(t)'
           /\ Exchanged(t) => Exchanged(t)'
           /\ TakenBack(t) => TakenBack(t)'
<1>1. \A s : Family(s)' = Family(s) /\ GrantOf(s)' = GrantOf(s)
  BY DEF Quiet, Family, GrantOf
<1>2. Spent(t) => Spent(t)'
  <2>. SUFFICES ASSUME Spent(t), NEW r \in Request, Rotated(req'[r])
                PROVE  req'[r].token # t
    BY DEF Quiet, Spent
  <2>1. req[r].next # None => req[r].pc # "idle"
    BY TokensOfRequests
  <2>. QED
    BY <2>1 DEF Quiet, Moving, Spent, Rotated
<1>3. Finished(t) => Finished(t)'
  BY <1>1, <1>2 DEF Finished, FamilyDead, Quiet
<1>4. Exchanged(t) => Exchanged(t)'
  <2>. SUFFICES ASSUME NEW s \in Request, req[s].token = t, req[s].next # None
                PROVE  req'[s].token = t /\ req'[s].next # None
    BY DEF Exchanged
  <2>1. req[s].pc # "idle"
    BY TokensOfRequests
  <2>. QED
    BY <2>1 DEF Quiet, Moving
<1>5. TakenBack(t) => TakenBack(t)'
  BY DEF TakenBack, Quiet, Moving
<1>. QED
  BY <1>1, <1>2, <1>3, <1>4, <1>5

LEMMA QuietIsSteady ==
    ASSUME EInv, Quiet, TombsHold
    PROVE  Steady
<1>1. ASSUME NEW t \in Token, Known(t), InEvidence(t)
      PROVE  InEvidence(t)' \/ Finished(t)' \/ May("expiry")
  BY <1>1, QuietLasts DEF InEvidence, Quiet, TombsHold, Dead
<1>2. live' \subseteq Token
  BY Parts DEF Quiet, TypeOK
<1>. QED
  BY <1>1, <1>2, QuietLasts DEF Steady, Quiet

\* Who takes the live token of a family away leaves nothing of it.
LEMMA LastOfItsFamily ==
    ASSUME EInv, Quiet, NEW t \in live, t \notin live'
    PROVE  Finished(t)'
<1>1. t \in Token /\ Known(t) /\ Family(t)' = Family(t)
  BY LiveKnown, QuietLasts, Parts
<1>2. ASSUME NEW s \in live'
      PROVE  Family(s)' # Family(t)'
  <2>1. s \in live /\ s \in Token /\ Known(s) /\ Family(s)' = Family(s)
    BY <1>2, LiveKnown, QuietLasts, Parts DEF Quiet
  <2>2. Family(s) = Family(t) => s = t
    BY <1>1, <2>1, Parts DEF IInv, LiveAlone, IndexComplete, Reached
  <2>. QED
    BY <1>1, <2>1, <2>2
<1>3. ASSUME NEW r \in Request, Rotated(req'[r])
      PROVE  req'[r].token # t
  <2>1. Rotated(req[r])
    BY <1>3 DEF Quiet, Moving
  <2>2. req[r].token \notin live /\ req[r].pc # "idle"
    BY <2>1, TokensOfRequests, Parts DEF Once, Rotated
  <2>. QED
    BY <2>2 DEF Quiet, Moving
<1>. QED
  BY <1>2, <1>3 DEF Finished, FamilyDead, Spent

\* A sweep takes all tokens of a family, or none.
LEMMA SweptTogether ==
    ASSUME EInv, NEW t \in Token, NEW u \in Token, Known(t), Known(u),
           Family(t) = Family(u)
    PROVE  /\ GrantOf(t) = GrantOf(u)
           /\ stamp[t].secret = stamp[u].secret
           /\ SweptAway(t) <=> SweptAway(u)
BY DEF EInv, Stamps, Root, SweptAway

LEMMA QuietKeeps ==
    ASSUME EInv, Quiet, TombsHold,
           \A r \in Request : req'[r] = req[r] \/ Fit(req[r])',
           \A t \in Token : Known(t) /\ SweptAway(t) =>
                SweptAway(t)' \/ May("cleanup") \/ May("crash"),
           \A t \in live \ live' :
                May("expiry") \/ Family(t) \in epitaph' \/ SweptAway(t)
    PROVE  DisclosedKnown' /\ Requests' /\ Successors' /\ Once' /\ Tombs' /\ Evident' /\ Holdings' /\ NoOrphan'
<1>0. Steady
  BY QuietIsSteady
<1>1. DisclosedKnown'
  BY Parts DEF Quiet, DisclosedKnown, Known
<1>2. Requests'
  <2>. SUFFICES ASSUME NEW r \in Request, NEW q, q = req[r], q = req'[r]
                PROVE  Fit(q)'
    BY DEF Requests
  <2>1. Rotated(q) => ~Spent(q.token)'
    BY DEF Spent
  <2>2. q \in RequestRecord /\ Fit(q) /\ (q.next # None => Known(q.next))
    BY TokensOfRequests
  <2>. QED
    BY <1>0, <2>1, <2>2, FitLasts
<1>3. Successors'
  <2>. SUFFICES ASSUME NEW r \in Request, req'[r].next # None
                PROVE  /\ record[req'[r].next] # None
                       /\ record[req'[r].next].parent = req'[r].token
                       /\ req'[r].next \in disclosed' => req'[r].result = "ok"
                       /\ \A s \in Request : req'[s].next = req'[r].next => s = r
    BY DEF Quiet, Successors, Known
  <2>1. req[r].next # None /\ req'[r].next = req[r].next /\ req'[r].token = req[r].token
    BY TokensOfRequests DEF Quiet, Moving
  <2>2. /\ \A s \in Request : req'[s].next = req[s].next
    BY DEF Quiet, Moving
  <2>3. req'[r].next \in disclosed' => req'[r].result = "ok"
    BY <2>1, Parts DEF Quiet, Moving, Successors
  <2>. QED
    BY <2>1, <2>2, <2>3, Parts DEF Successors, Known
<1>4. Once'
  <2>. SUFFICES ASSUME NEW r \in Request, Rotated(req'[r])
                PROVE  /\ req'[r].token \notin live' /\ ~Reached(req[r].token)'
                       /\ \A s \in Request :
                            Rotated(req'[s]) /\ req'[s].token = req'[r].token => s = r
    BY DEF Once
  <2>1. ASSUME NEW s \in Request, Rotated(req'[s])
        PROVE  /\ Rotated(req[s]) /\ req'[s].token = req[s].token
               /\ req[s].token \in Token /\ Known(req[s].token)
    <3>1. Rotated(req[s])
      BY <2>1 DEF Quiet, Moving
    <3>2. req[s].pc # "idle"
      BY <3>1, TokensOfRequests DEF Rotated
    <3>. QED
      BY <3>1, <3>2, TokensOfRequests DEF Quiet, Moving
  <2>. QED
    BY <2>1, Parts DEF Quiet, Once
<1>5. Tombs'
  <2>. SUFFICES ASSUME NEW t \in Token, tomb'[t] # None
                PROVE  /\ Known(t)' /\ Scope(t, tomb[t].family)'
                       /\ tomb'[t].state = "Consumed" => Exchanged(t)' \/ TakenBack(t)'
    BY DEF Tombs
  <2>1. CASE tomb'[t] = tomb[t]
    <3>1. PICK f : f = tomb[t].family
      OBVIOUS
    <3>2. Known(t) /\ Scope(t, f)
      BY <2>1, <3>1, Parts DEF Tombs
    <3>3. Scope(t, f)'
      BY <1>0, <3>2, ScopeLasts
    <3>4. Scope(t, tomb[t].family)'
      BY <2>1, <3>1, <3>3
    <3>. QED
      BY <1>0, <2>1, <3>2, <3>4, KnownSteady, Parts DEF Tombs, Steady
  <2>2. CASE tomb'[t] # tomb[t]
    BY <1>0, <2>2, KnownSteady DEF TombsHold
  <2>. QED
    BY <2>1, <2>2
<1>6. Holdings'
  <2>. SUFFICES ASSUME ~May("expiry"), ~May("cleanup"), ~May("crash"),
                       NEW t \in disclosed'
                PROVE  Family(t)' \in epitaph' \/ SweptAway(t)' \/ ~FamilyDead(Family(t))'
    BY DEF Holdings
  <2>1. PICK u \in disclosed : Family(u) = Family(t) /\ Known(t)
    BY Parts DEF Quiet, DisclosedKnown
  <2>2. /\ t \in Token /\ u \in Token /\ Known(u)
        /\ Family(t)' = Family(t)
    BY <2>1, Parts DEF DisclosedKnown, ExchangeTypeOK, Quiet, Family
  <2>3. CASE Family(u) \in epitaph
    BY <2>1, <2>2, <2>3 DEF Quiet
  <2>4. CASE SweptAway(u)
    BY <2>1, <2>2, <2>4, SweptTogether
  <2>5. CASE ~FamilyDead(Family(u))
    <3>1. PICK s \in live : Family(s) = Family(t)
      BY <2>1, <2>5 DEF FamilyDead
    <3>2. s \in Token /\ Known(s) /\ Family(s)' = Family(t)'
      BY <2>2, <3>1, LiveKnown, QuietLasts, Parts
    <3>3. CASE s \in live'
      BY <3>2, <3>3 DEF FamilyDead
    <3>4. CASE s \notin live'
      BY <2>1, <2>2, <3>1, <3>2, <3>4, SweptTogether
    <3>. QED
      BY <3>3, <3>4
  <2>. QED
    BY <2>1, <2>3, <2>4, <2>5, Parts DEF Holdings
<1>7. NoOrphan'
  <2>. SUFFICES ASSUME NEW t \in live', t \notin disclosed'
                PROVE  \E r \in Request : req'[r].next = t /\ Responsible(r)'
    BY DEF NoOrphan
  <2>1. PICK r \in Request : req[r].next = t
    BY Parts DEF NoOrphan, Quiet
  <2>2. req'[r].next = t
    BY <2>1 DEF Quiet, Moving
  <2>3. Fit(req[r])'
    BY <1>2 DEF Requests
  <2>. QED
    BY <2>2, <2>3 DEF Fit, Owes, Answers, Responsible
<1>8. Evident'
  <2>. SUFFICES ASSUME ~May("expiry"), NEW t \in Token, Known(t), t \notin live'
                PROVE  InEvidence(t)' \/ Finished(t)'
    BY DEF Evident, Quiet, Known
  <2>1. CASE t \in live
    BY <2>1, LastOfItsFamily
  <2>2. CASE t \notin live
    BY <1>0, <2>2, Parts DEF Evident, Steady
  <2>. QED
    BY <2>1, <2>2
<1>. QED
  BY <1>1, <1>2, <1>3, <1>4, <1>5, <1>6, <1>7, <1>8

\* Stamps and versions when the world stands still.
LEMMA WorldStill ==
    ASSUME EInv, UNCHANGED <<record, stamp, secret, sweeping, swept, consent, cut>>,
           live' \subseteq live, cutting \subseteq cutting'
    PROVE  /\ Stamps' /\ Cuts' /\ Sweeps'
           /\ \A t \in Token : SweptAway(t) => SweptAway(t)'
<1>. USE DEF GrantOf, Family, Root, Known
<1>1. Stamps'
  BY Parts DEF Stamps
<1>2. Cuts'
  BY Parts DEF Cuts
<1>3. Sweeps'
  BY Parts DEF Sweeps
<1>4. ASSUME NEW t \in Token, SweptAway(t)
      PROVE  SweptAway(t)'
  BY <1>4 DEF SweptAway
<1>. QED
  BY <1>1, <1>2, <1>3, <1>4

LEMMA RequestTyped ==
    ASSUME ExchangeTypeOK, NEW r \in Request, NEW q \in RequestRecord,
           req' = [req EXCEPT ![r] = q]
    PROVE  /\ req' \in [Request -> RequestRecord]
           /\ req'[r] = q
           /\ \A s \in Request \ {r} : req'[s] = req[s]
BY DEF ExchangeTypeOK, RequestRecord

LEMMA StoreStill ==
    ASSUME IInv, UNCHANGED vars
    PROVE  IInv'
BY NextIInv

\* The steps of a request that leave the store alone.
LEMMA RequestMoves ==
    ASSUME EInv, NEW r \in Request, NEW q \in RequestRecord,
           req' = [req EXCEPT ![r] = q], NoStoreChange,
           req[r].result = "none",
           q.next = req[r].next,
           req[r].pc = "idle" \/ q.token = req[r].token,
           Rotated(q) => Rotated(req[r]),
           Fit(q)
    PROVE  EInv'
<1>1. /\ UNCHANGED vars
      /\ UNCHANGED <<record, live, tomb, indices, epitaph>>
      /\ UNCHANGED <<stamp, disclosed, secret, sweeping, swept, epoch, consent, cutting, cut>>
  BY DEF NoStoreChange, worldVars, vars
<1>2. IInv'
  BY <1>1, Parts, StoreStill
<1>3. req' \in [Request -> RequestRecord] /\ req'[r] = q
      /\ \A s \in Request \ {r} : req'[s] = req[s]
  BY Parts, RequestTyped
<1>4. ExchangeTypeOK'
  BY <1>1, <1>2, <1>3, Parts DEF ExchangeTypeOK, RequestRecord, IInv
<1>5. Moving
  BY <1>1, <1>3 DEF Moving
<1>6. Quiet
  BY <1>1, <1>5 DEF Quiet, indices, Reached, GrantOf, Family
<1>7. TombsHold
  BY <1>1 DEF TombsHold
<1>8. Fit(q)'
  <2>1. Rotated(q) => ~Spent(q.token)'
    BY <1>3 DEF Spent
  <2>2. q.next # None => Known(q.next)
    BY TokensOfRequests
  <2>. QED
    BY <1>6, <1>7, <2>1, <2>2, QuietIsSteady, FitLasts
<1>9. \A s \in Request : req'[s] = req[s] \/ Fit(req[s])'
  BY <1>3, <1>8
<1>10. Stamps' /\ Cuts' /\ Sweeps' /\ \A t \in Token : SweptAway(t) => SweptAway(t)'
  BY <1>1, WorldStill
<1>11. DisclosedKnown' /\ Requests' /\ Successors' /\ Once' /\ Tombs' /\ Evident' /\ Holdings' /\ NoOrphan'
  BY <1>1, <1>6, <1>7, <1>9, <1>10, QuietKeeps
<1>. QED
  BY <1>2, <1>4, <1>10, <1>11 DEF EInv

-----------------------------------------------------------------------------
(* The reads and the answers of a request. *)

LEMMA IdleTyped ==
    /\ MaxSecret \in Nat \ {0} /\ MaxEpoch \in Nat \ {0} /\ MaxConsent \in Nat \ {0}
    /\ Idle \in RequestRecord
<1>1. MaxSecret \in Nat \ {0} /\ MaxEpoch \in Nat \ {0} /\ MaxConsent \in Nat \ {0}
  BY BoundAssumption
<1>2. 0 \in 0..MaxSecret /\ 0 \in 0..MaxConsent
  BY <1>1
<1>. QED
  BY <1>1, <1>2 DEF RequestRecord, Idle, Place, Outcome, Result

\* A request that goes on answers for its successor.
LEMMA GoesOn ==
    ASSUME EInv, NEW r \in Request, NEW q \in RequestRecord,
           req' = [req EXCEPT ![r] = q], NoStoreChange,
           req[r].result = "none", q.result = "none",
           q.pc \notin {"idle", "done"},
           q.next = req[r].next,
           req[r].pc = "idle" \/ q.token = req[r].token,
           Controlled(q), Scoped(q), Alarmed(q), StampsRead(q),
           May("expiry") \/ Witnessed(q)
    PROVE  EInv'
<1>1. Rotated(q) => Rotated(req[r])
  BY DEF Rotated
<1>2. Fit(q)
  BY DEF Fit, Owes, Answers
<1>. QED
  BY <1>1, <1>2, RequestMoves

\* A request that answers has no successor in the store, or could not know how
\* its script ended.
LEMMA AnswersWith ==
    ASSUME EInv, NEW r \in Request, NEW result \in Result \ {"none", "ok"},
           Finish(r, result), NoStoreChange,
           req[r].pc \notin {"idle", "done"}, req[r].result = "none",
           result \in {"denied", "invalid", "revoked"} => req[r].next = None,
           result = "revoked" => Exchanged(req[r].token) \/ req[r].kind # "exchange",
           result \in {"invalid", "revoked"} =>
                \/ May("expiry") \/ req[r].kind # "exchange"
                \/ result = "invalid" /\ GrantOf(req[r].token).client # req[r].client
                \/ Family(req[r].token) \in epitaph \/ Finished(req[r].token),
           req[r].next \in live => May("redis") /\ result = "unavailable"
    PROVE  EInv'
<1>1. PICK q : q = Ended(req[r], result)
  OBVIOUS
<1>2. /\ q \in RequestRecord /\ req' = [req EXCEPT ![r] = q]
      /\ q.pc = "done" /\ q.result = result /\ q.next = req[r].next
      /\ q.token = req[r].token /\ q.kind = req[r].kind /\ q.client = req[r].client
      /\ q.guard = "none"
  <2>1. req[r] \in RequestRecord /\ 0 \in 0..MaxSecret /\ 0 \in 0..MaxConsent
    BY TokensOfRequests, IdleTyped
  <2>. QED
    BY <1>1, <2>1 DEF Finish, Ended, Idle, RequestRecord, Place, Outcome
<1>3. Fit(req[r]) /\ Controlled(req[r])
  BY TokensOfRequests DEF Fit
<1>4. Controlled(q) /\ Scoped(q) /\ StampsRead(q)
  BY <1>2, <1>3 DEF Controlled, Scoped, StampsRead, Early, Late
<1>5. Alarmed(q) /\ Owes(q)
  BY <1>2 DEF Alarmed, Owes, Answers
<1>6. May("expiry") \/ Witnessed(q)
  BY <1>2 DEF Witnessed, Rotated
<1>7. Fit(q)
  BY <1>4, <1>5, <1>6 DEF Fit
<1>8. ~Rotated(q)
  BY <1>2 DEF Rotated
<1>. QED
  BY <1>2, <1>7, <1>8, RequestMoves

\* A token that is gone is in evidence, or its family is dead.
LEMMA GoneTokens ==
    ASSUME EInv, NEW t \in Token, Known(t), t \notin live
    PROVE  May("expiry") \/ InEvidence(t) \/ Finished(t)
BY Parts DEF Evident

LEMMA StartKeeps ==
    ASSUME EInv, NEW r \in Request, NEW kind \in {"exchange", "revocation"},
           NEW c \in Client, NEW t \in Token, Start(r, kind, c, t)
    PROVE  EInv'
<1>1. PICK q : q = [Idle EXCEPT !.pc = "find", !.kind = kind,
                       !.client = c, !.secret = secret[c], !.token = t]
  OBVIOUS
<1>2. req[r].pc = "idle" /\ req[r] = Idle
  BY TokensOfRequests DEF Start, At, Fit, Controlled
<1>3. secret[c] \in 0..MaxSecret
  BY Parts, IdleTyped DEF ExchangeTypeOK
<1>4. /\ q \in RequestRecord /\ req' = [req EXCEPT ![r] = q] /\ NoStoreChange
      /\ q.pc = "find" /\ q.kind = kind /\ q.client = c /\ q.token = t
      /\ q.result = "none" /\ q.next = None /\ q.guard = "none"
  <2>1. 0 \in 0..MaxConsent
    BY IdleTyped
  <2>. QED
    BY <1>1, <1>3, <2>1 DEF Start, RequestRecord, Idle, Place, Outcome, Result
<1>5. Controlled(q) /\ Scoped(q) /\ Alarmed(q) /\ StampsRead(q) /\ Witnessed(q)
  BY <1>4 DEF Start, Controlled, Scoped, Alarmed, StampsRead, Witnessed, Rotated, Early, Late
<1>. QED
  <2>1. req[r].result = "none" /\ req[r].next = None
    BY <1>2 DEF Idle
  <2>. QED
    BY <1>2, <1>4, <1>5, <2>1, GoesOn

\* Going on to another call, with what that call relies on.
LEMMA Onward ==
    ASSUME EInv, NEW r \in Request, NEW q \in RequestRecord,
           req' = [req EXCEPT ![r] = q], NoStoreChange,
           req[r].pc \notin {"idle", "done"}, req[r].result = "none",
           q.pc \in Early \cup Late,
           q.token = req[r].token, q.next = req[r].next, q.kind = req[r].kind,
           q.client = req[r].client, q.secret = req[r].secret, q.result = req[r].result,
           q.guard = "held" => q.pc = "rotate",
           q.pc \in Early => q.next = None,
           q.pc \in Late => q.next # None,
           q.pc \in {"gate", "epoch", "fence", "rotate"} => stamp[q.token].secret = q.secret,
           q.pc \in {"epoch", "fence", "rotate"} =>
                q.consent >= stamp[Root(q.token)].consent,
           q.pc = "tombstone" =>
                May("expiry") \/ InEvidence(q.token) \/ Finished(q.token),
           q.pc = "revoke" =>
                /\ q.scope # NoFamily /\ Scope(q.token, q.scope)
                /\ q.kind = "exchange" => Exchanged(q.token)
    PROVE  EInv'
<1>1. Fit(req[r])
  BY TokensOfRequests
<1>2. Controlled(q) /\ Scoped(q) /\ Alarmed(q) /\ StampsRead(q)
  BY <1>1 DEF Fit, Controlled, Scoped, Alarmed, StampsRead, Early, Late
<1>3. May("expiry") \/ Witnessed(q)
  BY <1>1 DEF Fit, Witnessed, Rotated, Early, Late
<1>4. q.pc \notin {"idle", "done"}
  BY DEF Early, Late
<1>. QED
  BY <1>2, <1>3, <1>4, GoesOn

\* What a request knows at an early place, and at a late one.
LEMMA EarlyRequest ==
    ASSUME EInv, NEW r \in Request, req[r].pc \in Early
    PROVE  /\ req \in [Request -> RequestRecord] /\ req[r] \in RequestRecord
           /\ req[r].guard = "held" => req[r].pc = "rotate"
           /\ req[r].next = None /\ req[r].result = "none" /\ req[r].next \notin live
           /\ req[r].pc \notin {"idle", "done"}
           /\ req[r].token \in Token /\ req[r].token \in disclosed /\ Known(req[r].token)
           /\ GrantOf(req[r].token) \in Grant
           /\ StampsRead(req[r]) /\ Scoped(req[r]) /\ Alarmed(req[r])
           /\ May("expiry") \/ Witnessed(req[r])
<1>1. None \notin live
  BY Parts, NoneTombstoneAssumption DEF TypeOK
<1>. QED
  BY <1>1, TokensOfRequests, KnownTyped, Parts DEF Fit, Controlled, Early

LEMMA LateRequest ==
    ASSUME EInv, NEW r \in Request,
           req[r].pc \in Late \/ (req[r].pc = "release" /\ req[r].outcome = "Rotated")
    PROVE  /\ req \in [Request -> RequestRecord] /\ req[r] \in RequestRecord
           /\ Rotated(req[r])
           /\ req[r].pc \in Late => req[r].guard # "held"
           /\ req[r].next \in Token /\ Known(req[r].next) /\ req[r].next \notin disclosed
           /\ record[req[r].next].parent = req[r].token
           /\ GrantOf(req[r].token) = GrantOf(req[r].next)
           /\ Family(req[r].token) = Family(req[r].next)
           /\ req[r].result = "none"
           /\ req[r].pc \notin {"idle", "done"}
           /\ req[r].token \in Token /\ req[r].token \in disclosed /\ Known(req[r].token)
<1>1. /\ req[r].next # None /\ req[r].result = "none" /\ req[r].pc \notin {"idle", "done"}
      /\ req[r].pc \in Late => req[r].guard # "held"
  BY TokensOfRequests DEF Fit, Controlled, Late
<1>2. /\ req[r].next \notin disclosed /\ record[req[r].next].parent = req[r].token
      /\ req[r].token \in Token
  BY <1>1, TokensOfRequests, Parts DEF Successors
<1>3. req[r].token # None
  BY <1>2, NoneTombstoneAssumption
<1>. QED
  BY <1>1, <1>2, <1>3, TokensOfRequests, Parts DEF Rotated, IInv, Lineage

LEMMA FindKeeps ==
    ASSUME EInv, NEW r \in Request, Find(r)
    PROVE  EInv'
<1>1. req[r].pc = "find" /\ req[r].pc \in Early /\ NoStoreChange
  BY DEF Find, At, Early
<1>2. CASE req[r].token \notin live /\ Goto(r, "tombstone")
  <2>1. PICK q : q = [req[r] EXCEPT !.pc = "tombstone"]
    OBVIOUS
  <2>2. q \in RequestRecord
    BY <1>1, <2>1, EarlyRequest DEF RequestRecord, Place
  <2>. QED
    BY <1>1, <1>2, <2>1, <2>2, EarlyRequest, GoneTokens, Onward DEF Goto, Early, Late, RequestRecord
<1>3. CASE stamp[req[r].token].secret = req[r].secret /\ Goto(r, "gate")
  <2>1. PICK q : q = [req[r] EXCEPT !.pc = "gate"]
    OBVIOUS
  <2>2. q \in RequestRecord
    BY <1>1, <2>1, EarlyRequest DEF RequestRecord, Place
  <2>. QED
    BY <1>1, <1>3, <2>1, <2>2, EarlyRequest, Onward DEF Goto, Early, Late, RequestRecord
<1>4. CASE Finish(r, "denied")
  BY <1>1, <1>4, EarlyRequest, AnswersWith DEF Result
<1>. QED
  BY <1>2, <1>3, <1>4 DEF Find

\* Changing two fields of a request is changing the request.
LEMMA TwoFields ==
    ASSUME EInv, NEW r \in Request, NEW place, NEW x
    PROVE  /\ [req EXCEPT ![r].pc = place, ![r].consent = x]
                = [req EXCEPT ![r] = [req[r] EXCEPT !.pc = place, !.consent = x]]
           /\ [req EXCEPT ![r].pc = place, ![r].guard = x]
                = [req EXCEPT ![r] = [req[r] EXCEPT !.pc = place, !.guard = x]]
           /\ [req EXCEPT ![r].pc = place, ![r].scope = x]
                = [req EXCEPT ![r] = [req[r] EXCEPT !.pc = place, !.scope = x]]
<1>1. req \in [Request -> RequestRecord]
  BY TokensOfRequests
<1>. QED
  BY <1>1

Alike(p, q, place) ==
    /\ p \in RequestRecord /\ p.pc = place
    /\ p.kind = q.kind /\ p.client = q.client /\ p.secret = q.secret
    /\ p.token = q.token /\ p.next = q.next /\ p.result = q.result
    /\ p.outcome = q.outcome

LEMMA RootStamps ==
    ASSUME EInv, NEW t \in Token, Known(t)
    PROVE  /\ Root(t) \in Token /\ Known(Root(t))
           /\ GrantOf(Root(t)) = GrantOf(t) /\ GrantOf(t) \in Grant
           /\ consent[GrantOf(t)].version >= stamp[Root(t)].consent
           /\ stamp[Root(t)].consent \in 0..MaxConsent
<1>1. /\ TypeOK /\ Family(t) \in FamilyId /\ Root(t) \in Token /\ Known(Root(t))
      /\ Family(t) = FamilyOf(Root(t))
  BY Parts, KnownTyped DEF IInv, Lineage, Root
<1>. QED
  BY <1>1, KnownTyped, Parts, IdleTyped DEF Stamps, ExchangeTypeOK

LEMMA GateKeeps ==
    ASSUME EInv, NEW r \in Request, Gate(r)
    PROVE  EInv'
<1>1. req[r].pc = "gate" /\ req[r].pc \in Early /\ NoStoreChange
  BY DEF Gate, At, Early
<1>2. CASE Finish(r, "denied")
  BY <1>1, <1>2, EarlyRequest, AnswersWith DEF Result
<1>3. CASE req' = [req EXCEPT ![r].pc = "epoch",
                              ![r].consent = consent[GrantOf(req[r].token)].version]
  <2>1. PICK q : q = [req[r] EXCEPT !.pc = "epoch",
                                    !.consent = consent[GrantOf(req[r].token)].version]
    OBVIOUS
  <2>2. consent[GrantOf(req[r].token)].version \in 1..MaxConsent
    BY <1>1, EarlyRequest, Parts DEF ExchangeTypeOK
  <2>3. req' = [req EXCEPT ![r] = q]
    BY <1>3, <2>1, TwoFields
  <2>4. Alike(q, req[r], "epoch") /\ q.guard = req[r].guard
        /\ q.consent = consent[GrantOf(req[r].token)].version
    <3>1. consent[GrantOf(req[r].token)].version \in 0..MaxConsent
      BY <2>2, IdleTyped
    <3>. QED
      <4>1. req[r] \in RequestRecord /\ "epoch" \in Place
        BY <1>1, EarlyRequest DEF Place
      <4>. QED
        BY <2>1, <3>1, <4>1 DEF RequestRecord, Alike
  <2>5. q.consent >= stamp[Root(q.token)].consent
    BY <1>1, <2>2, <2>4, EarlyRequest, RootStamps DEF Alike
  <2>. QED
    BY <1>1, <2>3, <2>4, <2>5, EarlyRequest, Onward DEF Early, Late, Alike, StampsRead
<1>. QED
  BY <1>2, <1>3 DEF Gate

LEMMA CheckEpochKeeps ==
    ASSUME EInv, NEW r \in Request, CheckEpoch(r)
    PROVE  EInv'
<1>1. req[r].pc = "epoch" /\ req[r].pc \in Early /\ NoStoreChange
  BY DEF CheckEpoch, At, Early
<1>2. CASE Finish(r, "denied")
  BY <1>1, <1>2, EarlyRequest, AnswersWith DEF Result
<1>3. CASE Goto(r, "fence")
  <2>1. PICK q : q = [req[r] EXCEPT !.pc = "fence"]
    OBVIOUS
  <2>2. q \in RequestRecord
    BY <1>1, <2>1, EarlyRequest DEF RequestRecord, Place
  <2>. QED
    BY <1>1, <1>3, <2>1, <2>2, EarlyRequest, Onward
       DEF Goto, Early, Late, RequestRecord, StampsRead
<1>. QED
  BY <1>2, <1>3 DEF CheckEpoch

LEMMA FenceKeeps ==
    ASSUME EInv, NEW r \in Request, Fence(r)
    PROVE  EInv'
<1>1. req[r].pc = "fence" /\ req[r].pc \in Early /\ NoStoreChange
  BY DEF Fence, At, Early
<1>2. CASE Finish(r, "denied")
  BY <1>1, <1>2, EarlyRequest, AnswersWith DEF Result
<1>3. CASE req' = [req EXCEPT ![r].pc = "rotate", ![r].guard = "held"]
  <2>1. PICK q : q = [req[r] EXCEPT !.pc = "rotate", !.guard = "held"]
    OBVIOUS
  <2>2. req' = [req EXCEPT ![r] = q]
    BY <1>3, <2>1, TwoFields
  <2>3. Alike(q, req[r], "rotate") /\ q.consent = req[r].consent
    <3>1. req[r] \in RequestRecord /\ "rotate" \in Place
      BY <1>1, EarlyRequest DEF Place
    <3>. QED
      BY <2>1, <3>1 DEF RequestRecord, Alike
  <2>. QED
    BY <1>1, <2>2, <2>3, EarlyRequest, Onward DEF Early, Late, Alike, StampsRead
<1>. QED
  BY <1>2, <1>3 DEF Fence

\* Going back to take the successor out again, or on to hand it out.
LEMMA LateOnward ==
    ASSUME EInv, NEW r \in Request, NEW place \in Late, NEW guard \in {"none", "lost"},
           req[r].pc \in Late \/ (req[r].pc = "release" /\ req[r].outcome = "Rotated"),
           req' = [req EXCEPT ![r].pc = place, ![r].guard = guard], NoStoreChange
    PROVE  EInv'
<1>1. PICK q : q = [req[r] EXCEPT !.pc = place, !.guard = guard]
  OBVIOUS
<1>2. req' = [req EXCEPT ![r] = q]
  BY <1>1, TwoFields
<1>3. Alike(q, req[r], place) /\ q.guard = guard
  <2>1. req[r] \in RequestRecord /\ place \in Place /\ guard \in {"none", "held", "lost"}
    BY LateRequest DEF Place, Late
  <2>. QED
    BY <1>1, <2>1 DEF RequestRecord, Alike
<1>4. req[r].next # None /\ req[r].result = "none" /\ req[r].pc \notin {"idle", "done"}
  BY LateRequest DEF Rotated
<1>5. q.pc \in Late /\ q.pc \notin Early /\ q.guard # "held"
  BY <1>3 DEF Alike, Early, Late
<1>6. q.pc \notin {"gate", "epoch", "fence", "rotate", "tombstone", "revoke"}
  BY <1>5 DEF Early
<1>. QED
  BY <1>2, <1>3, <1>4, <1>5, <1>6, Onward DEF Alike

LEMMA LateGoto ==
    ASSUME EInv, NEW r \in Request, NEW place \in Late, req[r].pc \in Late,
           Goto(r, place), NoStoreChange
    PROVE  EInv'
<1>1. req \in [Request -> RequestRecord] /\ req[r].guard \in {"none", "lost"}
  BY LateRequest DEF RequestRecord
<1>2. req' = [req EXCEPT ![r].pc = place, ![r].guard = req[r].guard]
  BY <1>1 DEF Goto, RequestRecord
<1>. QED
  BY <1>1, <1>2, LateOnward

LEMMA ConfirmsKeep ==
    ASSUME EInv, NEW r \in Request, ConfirmEpoch(r) \/ ConfirmConsent(r)
    PROVE  EInv'
<1>1. /\ req[r].pc \in Late /\ NoStoreChange
      /\ \E place \in Late : Goto(r, place)
  BY DEF ConfirmEpoch, ConfirmConsent, At, Late
<1>. QED
  BY <1>1, LateGoto

LEMMA ReleaseKeeps ==
    ASSUME EInv, NEW r \in Request, Release(r)
    PROVE  EInv'
<1>1. req[r].pc = "release" /\ NoStoreChange
  BY DEF Release, At
<1>2. /\ req \in [Request -> RequestRecord] /\ req[r] \in RequestRecord
      /\ Controlled(req[r])
      /\ May("expiry") \/ Witnessed(req[r])
      /\ req[r].token \in Token /\ Known(req[r].token)
  BY <1>1, TokensOfRequests DEF Fit
<1>3. /\ req[r].result = "none" /\ None \notin live
      /\ req[r].outcome \in {"KeyMissing", "FamilyRevoked"} => req[r].next = None
      /\ req[r].outcome \in {"Rotated", "KeyMissing", "FamilyRevoked"} \/ May("redis")
  BY <1>1, <1>2, Parts, NoneTombstoneAssumption DEF Controlled, TypeOK
<1>4. CASE req[r].outcome = "Rotated" /\ \E place \in {"confirmEpoch", "rollback"} :
             req' = [req EXCEPT ![r].pc = place, ![r].guard = "none"]
  BY <1>1, <1>4, LateOnward DEF Late
<1>5. CASE req[r].outcome = "KeyMissing" /\ Vanished(r)
  <2>1. PICK q : q = [req[r] EXCEPT !.pc = "tombstone", !.guard = "none"]
    OBVIOUS
  <2>2. q \in RequestRecord /\ req' = [req EXCEPT ![r] = q]
    BY <1>2, <1>5, <2>1 DEF RequestRecord, Place, Vanished
  <2>3. May("expiry") \/ InEvidence(req[r].token) \/ Finished(req[r].token)
    BY <1>1, <1>2, <1>5 DEF Witnessed
  <2>. QED
    BY <1>1, <1>2, <1>3, <1>5, <2>1, <2>2, <2>3, Onward DEF Early, Late, RequestRecord
<1>6. CASE req[r].outcome = "FamilyRevoked" /\ Finish(r, "invalid")
  <2>1. May("expiry") \/ Family(req[r].token) \in epitaph
    BY <1>1, <1>2, <1>6 DEF Witnessed
  <2>. QED
    BY <1>1, <1>3, <1>6, <2>1, AnswersWith DEF Result
<1>7. CASE req[r].outcome # "Rotated" /\ Finish(r, "unavailable")
  BY <1>1, <1>3, <1>7, AnswersWith DEF Result
<1>. QED
  BY <1>4, <1>5, <1>6, <1>7 DEF Release

LEMMA ReadTombstoneKeeps ==
    ASSUME EInv, NEW r \in Request, ReadTombstone(r)
    PROVE  EInv'
<1>. DEFINE t == req[r].token
<1>1. req[r].pc = "tombstone" /\ req[r].pc \in Early /\ NoStoreChange
  BY DEF ReadTombstone, At, Early
<1>2. /\ req \in [Request -> RequestRecord] /\ req[r] \in RequestRecord
      /\ req[r].guard # "held" /\ t \in Token /\ t \in disclosed /\ Known(t)
      /\ req[r].next = None /\ req[r].result = "none" /\ req[r].next \notin live
      /\ May("expiry") \/ InEvidence(t) \/ Finished(t)
  BY <1>1, EarlyRequest DEF Witnessed
<1>3. CASE /\ req[r].kind = "exchange" => Replayed(r)
           /\ req[r].kind # "exchange" => Revocable(r)
           /\ req' = [req EXCEPT ![r].pc = "revoke",
                                 ![r].scope = ScopeOf(tomb[t].family, t)]
  <2>1. PICK q : q = [req[r] EXCEPT !.pc = "revoke", !.scope = ScopeOf(tomb[t].family, t)]
    OBVIOUS
  <2>2. tomb[t] # None /\ tomb[t] \in Tombstone /\ Scope(t, tomb[t].family)
    BY <1>2, <1>3, Parts DEF Replayed, Revocable, TypeOK, Tombs
  <2>3. /\ ScopeOf(tomb[t].family, t) \in FamilyId
        /\ Scope(t, ScopeOf(tomb[t].family, t))
    BY <1>2, <2>2, FamilyIds, KnownTyped, Parts, NoFamilyAssumption
       DEF ScopeOf, Scope, Tombstone
  <2>4. req[r].kind = "exchange" => Exchanged(t)
    <3>1. SUFFICES ASSUME req[r].kind = "exchange" PROVE ~TakenBack(t)
      BY <1>2, <1>3, Parts DEF Replayed, Tombs
    <3>. QED
      BY <1>2, Parts, NoneTombstoneAssumption DEF TakenBack, Successors
  <2>5. q \in RequestRecord /\ req' = [req EXCEPT ![r] = q]
    <3>1. req' = [req EXCEPT ![r] = q]
      BY <1>3, <2>1, TwoFields
    <3>. QED
      BY <1>2, <2>1, <2>3, <3>1 DEF RequestRecord, Place
  <2>6. q.scope # NoFamily /\ Scope(q.token, q.scope)
    BY <1>2, <2>1, <2>3, NoFamilyAssumption DEF RequestRecord
  <2>7. q.token = t /\ q.pc = "revoke" /\ q.next = None
    BY <1>2, <2>1 DEF RequestRecord
  <2>. QED
    BY <1>1, <1>2, <2>1, <2>4, <2>5, <2>6, <2>7, Onward DEF Early, Late, RequestRecord
<1>4. CASE Finish(r, "invalid") /\ (req[r].kind = "exchange" => ~Replayed(r))
  <2>1. \/ May("expiry") \/ req[r].kind # "exchange"
        \/ GrantOf(t).client # req[r].client
        \/ Family(t) \in epitaph \/ Finished(t)
    <3>1. Dead("Consumed", Family(t)) # None /\ Dead("Consumed", Family(t)).state = "Consumed"
      BY <1>2, KnownTyped, Parts, NoneTombstoneAssumption DEF Dead, Tombstone, State
    <3>. QED
      BY <1>2, <1>4, <3>1 DEF Replayed, InEvidence
  <2>. QED
    BY <1>1, <1>2, <1>4, <2>1, AnswersWith DEF Result
<1>. QED
  BY <1>3, <1>4 DEF ReadTombstone

LEMMA FindRevocableKeeps ==
    ASSUME EInv, NEW r \in Request, FindRevocable(r)
    PROVE  EInv'
<1>. DEFINE t == req[r].token
<1>1. /\ req[r].pc = "find" /\ req[r].pc \in Early /\ NoStoreChange
      /\ req[r].kind = "revocation"
  BY DEF FindRevocable, At, Early
<1>2. CASE t \notin live /\ Goto(r, "tombstone")
  <2>1. PICK q : q = [req[r] EXCEPT !.pc = "tombstone"]
    OBVIOUS
  <2>2. q \in RequestRecord
    BY <1>1, <2>1, EarlyRequest DEF RequestRecord, Place
  <2>. QED
    BY <1>1, <1>2, <2>1, <2>2, EarlyRequest, GoneTokens, Onward DEF Goto, Early, Late, RequestRecord
<1>3. CASE req' = [req EXCEPT ![r].pc = "revoke", ![r].scope = Family(t)]
  <2>1. PICK q : q = [req[r] EXCEPT !.pc = "revoke", !.scope = Family(t)]
    OBVIOUS
  <2>2. Family(t) \in FamilyId /\ Family(t) # NoFamily
    BY <1>1, EarlyRequest, KnownTyped, Parts, NoFamilyAssumption
  <2>3. req' = [req EXCEPT ![r] = q]
    BY <1>3, <2>1, TwoFields
  <2>4. Alike(q, req[r], "revoke") /\ q.guard = req[r].guard /\ q.scope = Family(t)
    <3>1. req[r] \in RequestRecord /\ "revoke" \in Place
      BY <1>1, EarlyRequest DEF Place
    <3>. QED
      BY <2>1, <2>2, <3>1 DEF RequestRecord, Alike
  <2>. QED
    BY <1>1, <2>2, <2>3, <2>4, EarlyRequest, Onward DEF Early, Late, Alike, Scope
<1>4. CASE Finish(r, "invalid")
  BY <1>1, <1>4, EarlyRequest, AnswersWith DEF Result
<1>. QED
  BY <1>2, <1>3, <1>4 DEF FindRevocable

LEMMA GiveUpKeeps ==
    ASSUME EInv, NEW r \in Request, GiveUp(r)
    PROVE  EInv'
<1>1. req[r].pc \in Early /\ NoStoreChange /\ Finish(r, "unavailable")
  BY DEF GiveUp, Early
<1>. QED
  BY <1>1, EarlyRequest, AnswersWith DEF Result

LEMMA CrashKeeps ==
    ASSUME EInv, NEW r \in Request, Crash(r)
    PROVE  EInv'
<1>1. PICK q : q = [Ended(req[r], "none") EXCEPT !.pc = "crashed"]
  OBVIOUS
<1>2. /\ req[r].pc \notin {"idle", "done", "crashed"} /\ NoStoreChange
      /\ req[r] \in RequestRecord /\ Fit(req[r])
  BY TokensOfRequests DEF Crash
<1>3. req[r].result = "none"
  BY <1>2 DEF Fit, Controlled, Early, Late, RequestRecord, Place
<1>4. /\ q \in RequestRecord /\ req' = [req EXCEPT ![r] = q]
      /\ q.pc = "crashed" /\ q.result = "none" /\ q.next = req[r].next
      /\ q.token = req[r].token /\ q.kind = req[r].kind /\ q.client = req[r].client
      /\ q.guard # "held"
  <2>1. 0 \in 0..MaxSecret /\ 0 \in 0..MaxConsent
    BY IdleTyped
  <2>2. /\ q = [pc |-> "crashed", kind |-> req[r].kind, client |-> req[r].client,
                 secret |-> 0, token |-> req[r].token, next |-> req[r].next, consent |-> 0,
                 guard |-> "none", outcome |-> "none", scope |-> NoFamily, result |-> "none"]
        /\ req' = [req EXCEPT ![r] = q]
    BY <1>1, <1>2 DEF Crash, Ended, Idle
  <2>3. /\ req[r].kind \in {"none", "exchange", "revocation"}
        /\ req[r].client \in Client \cup {None} /\ req[r].token \in Token \cup {None}
        /\ req[r].next \in Token \cup {None}
    BY <1>2 DEF RequestRecord
  <2>. QED
    BY <2>1, <2>2, <2>3 DEF RequestRecord, Place, Outcome, Result
<1>5. Controlled(q) /\ Scoped(q) /\ Alarmed(q) /\ StampsRead(q)
  BY <1>2, <1>4 DEF Fit, Controlled, Scoped, Alarmed, StampsRead, Early, Late
<1>6. May("expiry") \/ Witnessed(q)
  BY <1>2, <1>3, <1>4 DEF Fit, Witnessed, Rotated
<1>. QED
  BY <1>2, <1>3, <1>4, <1>5, <1>6, GoesOn

LEMMA LoseGuardKeeps ==
    ASSUME EInv, NEW r \in Request, LoseGuard(r)
    PROVE  EInv'
<1>1. PICK q : q = [req[r] EXCEPT !.guard = "lost"]
  OBVIOUS
<1>2. /\ req[r].guard = "held" /\ NoStoreChange /\ req \in [Request -> RequestRecord]
      /\ req[r] \in RequestRecord /\ Fit(req[r])
  BY TokensOfRequests DEF LoseGuard
<1>3. /\ q \in RequestRecord /\ req' = [req EXCEPT ![r] = q]
      /\ q.pc = req[r].pc /\ q.result = req[r].result /\ q.next = req[r].next
      /\ q.token = req[r].token /\ q.kind = req[r].kind /\ q.client = req[r].client
      /\ q.guard # "held"
      /\ q.scope = req[r].scope /\ q.outcome = req[r].outcome
      /\ q.consent = req[r].consent /\ q.secret = req[r].secret
  BY <1>1, <1>2 DEF LoseGuard, RequestRecord
<1>4. req[r].pc \notin {"idle", "done"} /\ req[r].result = "none"
  BY <1>2 DEF Fit, Controlled, Early
<1>5. Controlled(q) /\ Scoped(q) /\ Alarmed(q) /\ StampsRead(q)
  BY <1>2, <1>3, <1>4 DEF Fit, Controlled, Scoped, Alarmed, StampsRead, Early, Late
<1>6. May("expiry") \/ Witnessed(q)
  BY <1>2, <1>3 DEF Fit, Witnessed, Rotated
<1>. QED
  BY <1>2, <1>3, <1>4, <1>5, <1>6, GoesOn

-----------------------------------------------------------------------------
(* Steps of the world around the requests. *)

\* The versions, and what is being cut or swept, are of their types.
WorldTypeOK ==
    /\ secret \in [Client -> 1..MaxSecret] /\ swept \in [Client -> 0..MaxSecret]
    /\ sweeping \subseteq Client /\ cutting \subseteq Grant
    /\ epoch \in [User -> 1..MaxEpoch]
    /\ consent \in [Grant -> [version : 1..MaxConsent, revoked : BOOLEAN]]
    /\ cut \in [Grant -> 0..MaxConsent]

LEMMA WorldTyped ==
    ASSUME EInv
    PROVE  /\ WorldTypeOK
           /\ stamp \in [Token -> [secret : 0..MaxSecret, epoch : 0..MaxEpoch,
                                   consent : 0..MaxConsent]]
           /\ MaxSecret \in Nat /\ MaxEpoch \in Nat /\ MaxConsent \in Nat
           /\ \A t \in Token : Known(t) =>
                /\ GrantOf(t) \in Grant /\ GrantOf(t).client \in Client
                /\ Root(t) \in Token
           /\ live \subseteq Token /\ \A s \in live : Known(s)
BY Parts, IdleTyped, RootStamps, KnownTyped DEF ExchangeTypeOK, TypeOK, WorldTypeOK

\* The world moves, the store and the requests stand still.
LEMMA WorldMoves ==
    ASSUME EInv, UNCHANGED <<vars, stamp, disclosed, req>>,
           WorldTypeOK', Stamps', Cuts', Sweeps',
           \A t \in Token : Known(t) /\ SweptAway(t) =>
                SweptAway(t)' \/ May("cleanup") \/ May("crash")
    PROVE  EInv'
<1>1. UNCHANGED <<record, live, tomb, indices, epitaph>>
  BY DEF vars
<1>2. IInv'
  BY Parts, StoreStill
<1>3. ExchangeTypeOK'
  BY <1>1, <1>2, Parts DEF ExchangeTypeOK, WorldTypeOK, IInv
<1>4. Quiet /\ TombsHold
  BY <1>1 DEF Quiet, Moving, TombsHold, indices, Reached, GrantOf, Family
<1>5. DisclosedKnown' /\ Requests' /\ Successors' /\ Once' /\ Tombs' /\ Evident' /\ Holdings' /\ NoOrphan'
  BY <1>1, <1>4, QuietKeeps
<1>. QED
  BY <1>2, <1>3, <1>5 DEF EInv

LEMMA RevokeConsentKeeps ==
    ASSUME EInv, NEW g \in Grant, RevokeConsent(g)
    PROVE  EInv'
<1>. USE DEF RevokeConsent, GrantOf, Family, Root, Known, vars
<1>1. /\ consent[g].version \in Nat /\ consent[g].version + 1 \in 1..MaxConsent
      /\ \A h \in Grant : consent'[h] =
            IF h = g THEN [version |-> consent[g].version + 1, revoked |-> TRUE] ELSE consent[h]
  BY WorldTyped DEF WorldTypeOK
<1>2. WorldTypeOK'
  BY <1>1, WorldTyped DEF WorldTypeOK
<1>3. Stamps'
  <2>. SUFFICES ASSUME NEW t \in Token, Known(t)
                PROVE  stamp[Root(t)].consent <= consent'[GrantOf(t)].version
    BY WorldTyped, Parts DEF Stamps
  <2>1. GrantOf(t) \in Grant /\ Root(t) \in Token /\ consent[GrantOf(t)].version \in Nat
        /\ stamp[Root(t)].consent \in Nat
        /\ stamp[Root(t)].consent <= consent[GrantOf(t)].version
    BY WorldTyped, Parts DEF WorldTypeOK, Stamps
  <2>. QED
    BY <1>1, <2>1
<1>4. Cuts'
  BY <1>1, WorldTyped, Parts DEF Cuts, WorldTypeOK
<1>5. Sweeps'
  BY Parts DEF Sweeps
<1>6. \A t \in Token : SweptAway(t) => SweptAway(t)'
  BY DEF SweptAway
<1>. QED
  BY <1>2, <1>3, <1>4, <1>5, <1>6, WorldMoves

LEMMA GrantConsentKeeps ==
    ASSUME EInv, NEW g \in Grant, GrantConsent(g)
    PROVE  EInv'
<1>. USE DEF GrantConsent, GrantOf, Family, Root, Known, vars
<1>1. /\ consent[g].version \in Nat /\ consent[g].version + 1 \in 1..MaxConsent
      /\ \A h \in Grant : consent'[h] =
            IF h = g THEN [version |-> consent[g].version + 1, revoked |-> FALSE] ELSE consent[h]
  BY WorldTyped DEF WorldTypeOK
<1>2. WorldTypeOK'
  BY <1>1, WorldTyped DEF WorldTypeOK
<1>3. Stamps'
  <2>. SUFFICES ASSUME NEW t \in Token, Known(t)
                PROVE  stamp[Root(t)].consent <= consent'[GrantOf(t)].version
    BY WorldTyped, Parts DEF Stamps
  <2>1. GrantOf(t) \in Grant /\ Root(t) \in Token /\ consent[GrantOf(t)].version \in Nat
        /\ stamp[Root(t)].consent \in Nat
        /\ stamp[Root(t)].consent <= consent[GrantOf(t)].version
    BY WorldTyped, Parts DEF WorldTypeOK, Stamps
  <2>. QED
    BY <1>1, <2>1
<1>4. Cuts'
  BY <1>1, WorldTyped, Parts DEF Cuts, WorldTypeOK
<1>5. Sweeps'
  BY Parts DEF Sweeps
<1>6. \A t \in Token : SweptAway(t) => SweptAway(t)'
  BY DEF SweptAway
<1>. QED
  BY <1>2, <1>3, <1>4, <1>5, <1>6, WorldMoves

\* A cut ends when the index of its grant is empty, and then no token is left.
LEMMA EndCutKeeps ==
    ASSUME EInv, NEW g \in Grant, EndCut(g)
    PROVE  EInv'
<1>. USE DEF EndCut, GrantOf, Family, Root, Known, vars
<1>1. WorldTypeOK'
  BY WorldTyped DEF WorldTypeOK
<1>2. Stamps'
  BY WorldTyped, Parts DEF Stamps
<1>3. Cuts'
  BY WorldTyped, Parts DEF Cuts, IInv, IndexComplete
<1>4. Sweeps'
  BY Parts DEF Sweeps
<1>5. \A t \in Token : SweptAway(t) => SweptAway(t)'
  BY DEF SweptAway
<1>. QED
  BY <1>1, <1>2, <1>3, <1>4, <1>5, WorldMoves

LEMMA RotateSecretKeeps ==
    ASSUME EInv, NEW c \in Client, RotateSecret(c)
    PROVE  EInv'
<1>. USE DEF RotateSecret, GrantOf, Family, Root, Known, vars
<1>1. WorldTypeOK'
  BY WorldTyped DEF WorldTypeOK
<1>2. Stamps'
  BY WorldTyped, Parts DEF Stamps, WorldTypeOK
<1>3. Cuts'
  BY WorldTyped, Parts DEF Cuts
<1>4. Sweeps'
  BY WorldTyped, Parts DEF Sweeps, WorldTypeOK
<1>5. \A t \in Token : Known(t) /\ SweptAway(t) => SweptAway(t)'
  BY WorldTyped DEF SweptAway, WorldTypeOK
<1>. QED
  BY <1>1, <1>2, <1>3, <1>4, <1>5, WorldMoves

\* A sweep that ends because the client's index is empty leaves no token of it.
LEMMA EndSweepKeeps ==
    ASSUME EInv, NEW c \in Client, EndSweep(c)
    PROVE  EInv'
<1>. USE DEF EndSweep, GrantOf, Family, Root, Known, vars
<1>1. WorldTypeOK'
  BY WorldTyped DEF WorldTypeOK
<1>2. Stamps'
  BY WorldTyped, Parts DEF Stamps
<1>3. Cuts'
  BY WorldTyped, Parts DEF Cuts
<1>4. Sweeps'
  BY WorldTyped, Parts DEF Sweeps, WorldTypeOK, IInv, IndexComplete
<1>5. \A t \in Token : Known(t) /\ SweptAway(t) =>
            SweptAway(t)' \/ May("cleanup") \/ May("crash")
  BY WorldTyped, Parts DEF SweptAway, WorldTypeOK, Stamps
<1>. QED
  BY <1>1, <1>2, <1>3, <1>4, <1>5, WorldMoves

LEMMA BumpEpochKeeps ==
    ASSUME EInv, NEW u \in User, BumpEpoch(u)
    PROVE  EInv'
<1>. USE DEF BumpEpoch, GrantOf, Family, Root, Known, vars
<1>1. WorldTypeOK'
  BY WorldTyped DEF WorldTypeOK
<1>2. UNCHANGED <<record, stamp, secret, sweeping, swept, consent, cut, live, cutting>>
  OBVIOUS
<1>. QED
  BY <1>1, <1>2, WorldStill, WorldMoves

-----------------------------------------------------------------------------
(* Steps of the store that issue nothing. *)

\* The store loses tokens, requests and cuts follow.
LEMMA StoreShrinks ==
    ASSUME EInv, IInv', Quiet, TombsHold, Cuts',
           req' \in [Request -> RequestRecord],
           UNCHANGED <<secret, sweeping, swept, epoch, consent, cut>>,
           cutting' \subseteq Grant,
           \A r \in Request : req'[r] = req[r] \/ Fit(req[r])',
           \A t \in live \ live' :
                May("expiry") \/ Family(t) \in epitaph' \/ SweptAway(t)
    PROVE  EInv'
<1>1. disclosed' \subseteq Token
  BY Parts DEF Quiet, ExchangeTypeOK
<1>2. ExchangeTypeOK'
  BY <1>1, Parts DEF ExchangeTypeOK, RequestRecord, IInv, Quiet
<1>3. Stamps' /\ Sweeps' /\ \A t \in Token : SweptAway(t) => SweptAway(t)'
  <2>. USE DEF GrantOf, Family, Root, Known, Quiet
  <2>1. Stamps'
    BY Parts DEF Stamps
  <2>2. Sweeps'
    BY Parts DEF Sweeps
  <2>. QED
    BY <2>1, <2>2 DEF SweptAway
<1>4. DisclosedKnown' /\ Requests' /\ Successors' /\ Once' /\ Tombs' /\ Evident' /\ Holdings' /\ NoOrphan'
  BY <1>3, QuietKeeps
<1>. QED
  BY <1>2, <1>3, <1>4 DEF EInv

LEMMA AuditKeeps ==
    ASSUME EInv, NEW r \in Request, Audit(r)
    PROVE  EInv'
<1>. DEFINE t == req[r].token
            n == req[r].next
<1>1. req[r].pc = "audit" /\ req[r].pc \in Late
  BY DEF Audit, At, Late
<1>2. /\ req \in [Request -> RequestRecord] /\ req[r] \in RequestRecord /\ Fit(req[r])
      /\ Rotated(req[r]) /\ n # None
      /\ n \in Token /\ Known(n) /\ n \notin disclosed /\ Family(n) = Family(t)
      /\ req[r].result = "none" /\ t \in Token /\ t \in disclosed /\ Known(t)
  BY <1>1, LateRequest, TokensOfRequests DEF Rotated
<1>3. CASE Goto(r, "rollback") /\ UNCHANGED disclosed
  <2>1. NoStoreChange
    BY <1>3 DEF Audit, NoStoreChange
  <2>. QED
    BY <1>1, <1>3, <2>1, LateGoto DEF Late
<1>4. CASE Finish(r, "ok") /\ disclosed' = disclosed \cup {n}
  <2>1. PICK q : q = Ended(req[r], "ok")
    OBVIOUS
  <2>2. /\ q \in RequestRecord /\ req' = [req EXCEPT ![r] = q]
        /\ q.pc = "done" /\ q.result = "ok" /\ q.next = n
        /\ q.token = t /\ q.kind = req[r].kind /\ q.client = req[r].client
        /\ q.guard = "none"
    <3>1. 0 \in 0..MaxSecret /\ 0 \in 0..MaxConsent
      BY IdleTyped
    <3>2. /\ q = [pc |-> "done", kind |-> req[r].kind, client |-> req[r].client,
                   secret |-> 0, token |-> req[r].token, next |-> req[r].next, consent |-> 0,
                   guard |-> "none", outcome |-> "none", scope |-> NoFamily, result |-> "ok"]
          /\ req' = [req EXCEPT ![r] = q]
      BY <1>4, <2>1 DEF Finish, Ended, Idle
    <3>3. /\ req[r].kind \in {"none", "exchange", "revocation"}
          /\ req[r].client \in Client \cup {None} /\ req[r].token \in Token \cup {None}
          /\ req[r].next \in Token \cup {None}
      BY <1>2 DEF RequestRecord
    <3>. QED
      BY <3>1, <3>2, <3>3 DEF RequestRecord, Place, Outcome, Result
  <2>3. /\ UNCHANGED vars /\ UNCHANGED <<record, live, tomb, indices, epitaph, stamp>>
        /\ UNCHANGED <<secret, sweeping, swept, epoch, consent, cutting, cut>>
    BY DEF Audit, vars, worldVars
  <2>4. /\ req' \in [Request -> RequestRecord] /\ req'[r] = q
        /\ \A s \in Request \ {r} : req'[s] = req[s]
    BY <2>2, Parts, RequestTyped
  <2>5. Moving
    <3>1. \A s \in Request \ {r} : req[s].next # n
      BY <1>2, Parts DEF Successors
    <3>. QED
      BY <1>2, <1>4, <2>2, <2>4, <3>1 DEF Moving, Rotated
  <2>6. Quiet /\ TombsHold
    BY <1>2, <1>4, <2>3, <2>5 DEF Quiet, TombsHold, indices, Reached, GrantOf, Family
  <2>7. Fit(q)'
    <3>1. InEvidence(q.token) => InEvidence(q.token)'
      BY <2>3 DEF InEvidence, Family
    <3>2. (May("expiry") \/ Witnessed(q)')
      BY <1>2, <2>2, <3>1 DEF Fit, Witnessed, Rotated
    <3>3. Controlled(q)'
      BY <1>1, <1>2, <1>4, <2>2 DEF Fit, Controlled, Early, Late
    <3>4. Scoped(q)' /\ Alarmed(q)' /\ StampsRead(q)' /\ Owes(q)'
      BY <1>4, <2>2 DEF Scoped, Alarmed, StampsRead, Owes
    <3>. QED
      BY <3>2, <3>3, <3>4 DEF Fit
  <2>8. \A s \in Request : req'[s] = req[s] \/ Fit(req[s])'
    BY <2>4, <2>7
  <2>9. IInv' /\ Cuts'
    BY <2>3, Parts, StoreStill, WorldStill
  <2>. QED
    BY <2>3, <2>4, <2>6, <2>8, <2>9, WorldTyped, StoreShrinks DEF WorldTypeOK
<1>. QED
  BY <1>3, <1>4 DEF Audit

\* Indices that shrink lead nowhere new.
LEMMA ReachedShrinks ==
    ASSUME EInv, record' = record,
           \A c \in Client : clientIdx'[c] \subseteq clientIdx[c],
           \A g \in Grant : grantIdx'[g] \subseteq grantIdx[g],
           \A f \in FamilyId : familyIdx'[f] \subseteq familyIdx[f],
           \A t \in Token : tokenFamily'[t] \in {tokenFamily[t], NoFamily},
           NEW t \in Token, Known(t), Reached(t)'
    PROVE  Reached(t)
<1>1. GrantOf(t) \in Grant /\ GrantOf(t).client \in Client /\ Family(t) \in FamilyId
  BY KnownTyped, Parts
<1>. QED
  BY <1>1 DEF Reached, GrantOf, Family

\* A token that an index leads to is the last of its family: with it gone,
\* nobody can bring it or its family back.
LEMMA ReachedIsLast ==
    ASSUME EInv, record' = record, live' \subseteq live, req' = req,
           NEW t \in Token, Known(t), Reached(t), t \notin live'
    PROVE  Finished(t)'
<1>1. \A s \in live' : Family(s) # Family(t)
  BY Parts DEF IInv, LiveAlone
<1>2. Spent(t)'
  BY Parts DEF Spent, Once
<1>. QED
  BY <1>1, <1>2 DEF Finished, FamilyDead, Family

\* Batches, expiry: the requests do not notice.
LEMMA Unnoticed ==
    ASSUME EInv, IInv', TombsHold, Cuts',
           UNCHANGED <<record, stamp, disclosed, req>>,
           UNCHANGED <<secret, sweeping, swept, epoch, consent, cut>>,
           cutting' \subseteq Grant,
           live' \subseteq live, epitaph \subseteq epitaph',
           \A c \in Client : clientIdx'[c] \subseteq clientIdx[c],
           \A g \in Grant : grantIdx'[g] \subseteq grantIdx[g],
           \A f \in FamilyId : familyIdx'[f] \subseteq familyIdx[f],
           \A t \in Token : tokenFamily'[t] \in {tokenFamily[t], NoFamily},
           \A t \in live \ live' :
                May("expiry") \/ Family(t) \in epitaph' \/ SweptAway(t)
    PROVE  EInv'
<1>1. Moving
  BY DEF Moving
<1>2. Quiet
  BY <1>1, ReachedShrinks DEF Quiet
<1>3. req' \in [Request -> RequestRecord]
  BY Parts DEF ExchangeTypeOK, RequestRecord
<1>. QED
  BY <1>2, <1>3, StoreShrinks

LEMMA ReachTTLKeeps ==
    ASSUME EInv, NEW t \in Token, ReachTTL(t)
    PROVE  EInv'
<1>1. /\ May("expiry")
      /\ Expire(t) \/ ExpireTombstone(t)
      /\ UNCHANGED <<stamp, disclosed, req, record, epitaph>>
      /\ UNCHANGED <<clientIdx, grantIdx, familyIdx, tokenFamily>>
      /\ UNCHANGED <<secret, sweeping, swept, epoch, consent, cutting, cut>>
      /\ live' \subseteq live
  BY DEF ReachTTL, worldVars, Expire, ExpireTombstone, indices
<1>2. IInv'
  BY <1>1, Parts, ExpireKeeps, ExpireTombstoneKeeps
<1>3. TombsHold
  <2>1. CASE tomb' = tomb
    BY <2>1 DEF TombsHold
  <2>2. CASE tomb' = [tomb EXCEPT ![t] = None]
    <3>1. \A x \in Token : tomb'[x] # tomb[x] => tomb'[x] = None
      BY <2>2, Parts DEF TypeOK
    <3>. QED
      BY <1>1, <3>1 DEF TombsHold
  <2>. QED
    BY <1>1, <2>1, <2>2 DEF Expire, ExpireTombstone
<1>4. Cuts'
  BY <1>1, WorldStill
<1>. QED
  BY <1>1, <1>2, <1>3, <1>4, WorldTyped, Unnoticed DEF ReachTTL, WorldTypeOK

LEMMA CutGrantKeeps ==
    ASSUME EInv, NEW g \in Grant, CutGrant(g)
    PROVE  EInv'
<1>0. TypeOK /\ g.client \in Client
  BY Parts DEF Grant
<1>1. /\ RevokeGrantBatch(g) /\ g \in cutting
      /\ cutting' = IF grantIdx'[g] = {} THEN cutting \ {g} ELSE cutting
      /\ UNCHANGED <<stamp, disclosed, secret, sweeping, swept, epoch, consent, cut, req>>
  BY DEF CutGrant
<1>2. IInv'
  BY <1>1, Parts, RevokeGrantBatchKeeps
<1>3. PICK B \in SUBSET grantIdx[g] :
        /\ live' = live \ B
        /\ tomb' = [t \in Token |-> IF t \in B THEN Dead("ExplicitRevoke", NoFamily)
                                               ELSE tomb[t]]
        /\ epitaph' = epitaph \cup {ScopeOf(LocatedFamily(t), t) : t \in B}
        /\ familyIdx' = [f \in FamilyId |->
                            familyIdx[f] \ {t \in B : LocatedFamily(t) = f}]
        /\ tokenFamily' = [t \in Token |-> IF t \in B THEN NoFamily
                                                      ELSE tokenFamily[t]]
        /\ clientIdx' = [clientIdx EXCEPT ![g.client] = @ \ B]
        /\ grantIdx' = [grantIdx EXCEPT ![g] = @ \ B]
        /\ UNCHANGED record
  BY <1>1 DEF RevokeGrantBatch, Batches
<1>4. \A t \in B : t \in Token /\ Known(t) /\ Reached(t) /\ t \notin live'
  BY <1>0, <1>3, Parts DEF TypeOK, IInv, IndexSound, Reached
<1>5. \A t \in B : Finished(t)'
  BY <1>1, <1>3, <1>4, ReachedIsLast
<1>6. TombsHold
  <2>. SUFFICES ASSUME NEW t \in Token, tomb'[t] # tomb[t]
                PROVE  /\ Known(t) /\ Scope(t, tomb[t].family)' /\ tomb'[t].state # "Consumed"
                       /\ Finished(t)'
    BY DEF TombsHold
  <2>1. t \in B /\ tomb'[t].family = NoFamily /\ tomb'[t].state = "ExplicitRevoke"
    BY <1>3 DEF Dead
  <2>. QED
    BY <1>4, <1>5, <2>1 DEF Scope
<1>7. Cuts'
  <2>1. \A s \in live' : GrantOf(s)' = g => g \in cutting'
    BY <1>1, <1>2 DEF IInv, IndexComplete
  <2>2. \A s \in live' : s \in live /\ GrantOf(s)' = GrantOf(s) /\ Root(s)' = Root(s)
    BY <1>3 DEF GrantOf, Root, Family
  <2>. QED
    BY <1>1, <2>1, <2>2, Parts DEF Cuts
<1>8. /\ \A c \in Client : clientIdx'[c] \subseteq clientIdx[c]
      /\ \A h \in Grant : grantIdx'[h] \subseteq grantIdx[h]
      /\ \A f \in FamilyId : familyIdx'[f] \subseteq familyIdx[f]
      /\ \A t \in Token : tokenFamily'[t] \in {tokenFamily[t], NoFamily}
  BY <1>0, <1>3 DEF TypeOK
\* Whoever is killed leaves the epitaph of its family.
<1>9. \A t \in live \ live' : Family(t) \in epitaph'
  <2>. SUFFICES ASSUME NEW t \in live, t \in B
                PROVE  Family(t) \in epitaph'
    BY <1>3
  <2>1. LocatedFamily(t) = Family(t) /\ Family(t) \in FamilyId
    BY <1>0, <1>4, KnownTyped DEF LocatedFamily
  <2>2. ScopeOf(LocatedFamily(t), t) = Family(t)
    BY <2>1, NoFamilyAssumption DEF ScopeOf
  <2>. QED
    BY <1>3, <2>2
<1>10. cutting' \subseteq Grant /\ live' \subseteq live /\ epitaph \subseteq epitaph'
  BY <1>1, <1>3, WorldTyped DEF WorldTypeOK
<1>. QED
  BY <1>1, <1>2, <1>3, <1>6, <1>7, <1>8, <1>9, <1>10, Unnoticed

LEMMA SweepClientKeeps ==
    ASSUME EInv, NEW c \in Client, SweepClient(c)
    PROVE  EInv'
<1>0. TypeOK
  BY Parts
<1>1. /\ RevokeClientBatch(c) /\ c \in sweeping
      /\ UNCHANGED <<stamp, disclosed, secret, sweeping, swept, epoch, consent, cutting, cut, req>>
  BY DEF SweepClient
<1>2. IInv'
  BY <1>1, Parts, RevokeClientBatchKeeps
<1>3. PICK B \in SUBSET clientIdx[c] :
        /\ live' = live \ B
        /\ tomb' = [t \in Token |-> IF t \in B THEN None ELSE tomb[t]]
        /\ familyIdx' = [f \in FamilyId |->
                            familyIdx[f] \ {t \in B : LocatedFamily(t) = f}]
        /\ tokenFamily' = [t \in Token |-> IF t \in B THEN NoFamily
                                                      ELSE tokenFamily[t]]
        /\ grantIdx' = [g \in Grant |->
                           grantIdx[g] \ {t \in B \cap live : GrantOf(t) = g}]
        /\ clientIdx' = [clientIdx EXCEPT ![c] = @ \ B]
        /\ UNCHANGED <<record, epitaph>>
  BY <1>1 DEF RevokeClientBatch, Batches
<1>4. \A t \in B : /\ t \in Token /\ Known(t) /\ GrantOf(t).client = c
                   /\ Reached(t) /\ t \notin live'
  BY <1>0, <1>3, Parts DEF TypeOK, IInv, IndexSound, Reached
<1>5. \A t \in B : Finished(t)'
  BY <1>1, <1>3, <1>4, ReachedIsLast
<1>6. TombsHold
  BY <1>3, <1>5 DEF TombsHold
<1>7. Cuts'
  BY <1>1, <1>3, WorldStill
<1>8. /\ \A d \in Client : clientIdx'[d] \subseteq clientIdx[d]
      /\ \A g \in Grant : grantIdx'[g] \subseteq grantIdx[g]
      /\ \A f \in FamilyId : familyIdx'[f] \subseteq familyIdx[f]
      /\ \A t \in Token : tokenFamily'[t] \in {tokenFamily[t], NoFamily}
  BY <1>0, <1>3 DEF TypeOK
<1>9. \A t \in live \ live' : SweptAway(t)
  BY <1>1, <1>3, <1>4 DEF SweptAway
<1>10. cutting' \subseteq Grant /\ live' \subseteq live /\ epitaph \subseteq epitaph'
  BY <1>1, <1>3, WorldTyped DEF WorldTypeOK
<1>. QED
  BY <1>1, <1>2, <1>3, <1>6, <1>7, <1>8, <1>9, <1>10, Unnoticed

\* What a request revokes: a family of the store, and its step is Revoke.
LEMMA ScopedRevocation ==
    ASSUME EInv, NEW r \in Request, req[r].pc = "revoke", req[r].scope \notin epitaph,
           NEW state \in {"FamilyRevoked", "ExplicitRevoke"},
           RevokeFamily(req[r].scope, GrantOf(req[r].token), req[r].token, state)
    PROVE  /\ req[r].token \in Token /\ Known(req[r].token)
           /\ req[r].scope \in FamilyId /\ Scope(req[r].token, req[r].scope)
           /\ Revoke(req[r].token, state)
<1>1. /\ req[r].token \in Token /\ Known(req[r].token)
      /\ req[r].scope \in FamilyId /\ Scope(req[r].token, req[r].scope)
      /\ req[r].scope # NoFamily
  BY EarlyRequest DEF Early, Scoped, RequestRecord
<1>. QED
  BY <1>1 DEF Revoke, Scope, Finished, FamilyDead

LEMMA RevokeByScopeKeeps ==
    ASSUME EInv, NEW r \in Request, RevokeByScope(r)
    PROVE  EInv'
<1>. DEFINE state == IF req[r].kind = "exchange" THEN "FamilyRevoked" ELSE "ExplicitRevoke"
<1>1. req[r].pc = "revoke" /\ req[r].pc \in Early
  BY DEF RevokeByScope, At, Early
<1>2. PICK t : t = req[r].token
  OBVIOUS
<1>3. /\ req[r] \in RequestRecord /\ req[r].next = None /\ req[r].result = "none"
      /\ None \notin live
      /\ t \in Token /\ t \in disclosed /\ Known(t) /\ Alarmed(req[r])
      /\ req[r].pc \notin {"idle", "done"}
  BY <1>1, <1>2, EarlyRequest
<1>4. PICK result \in {"revoked", "unavailable"} :
        /\ Finish(r, result)
        /\ result = "revoked" => \/ req[r].scope \in epitaph
                                 \/ RevokeFamily(req[r].scope, GrantOf(t), t, state)
  BY <1>2 DEF RevokeByScope, Call
<1>5. CASE UNCHANGED vars
  <2>1. NoStoreChange
    BY <1>5 DEF RevokeByScope, NoStoreChange
  <2>2. result = "revoked" => Family(t) \in epitaph \/ Finished(t)
    <3>1. result = "revoked" => req[r].scope \in epitaph
      BY <1>4, <1>5 DEF RevokeFamily, vars
    <3>2. Scope(t, req[r].scope)
      BY <1>1, <1>2, EarlyRequest DEF Scoped
    <3>. QED
      BY <3>1, <3>2 DEF Scope
  <2>. QED
    BY <1>1, <1>3, <1>2, <1>4, <2>1, <2>2, AnswersWith DEF Result, Alarmed
<1>6. CASE /\ req[r].scope \notin epitaph
           /\ RevokeFamily(req[r].scope, GrantOf(t), t, state)
  <2>1. PICK scope \in FamilyId : scope = req[r].scope
    BY <1>1, <1>2, <1>6, ScopedRevocation
  <2>2. Revoke(t, state) /\ Scope(t, scope)
    BY <1>1, <1>2, <1>6, <2>1, ScopedRevocation
  <2>. DEFINE doomed == Doomed(scope, t)
  <2>3. /\ live' = live \ doomed
        /\ tomb' = [s \in Token |-> IF s \in doomed THEN Dead(state, scope) ELSE tomb[s]]
        /\ clientIdx' = [clientIdx EXCEPT ![GrantOf(t).client] = @ \ doomed]
        /\ grantIdx' = [grantIdx EXCEPT ![GrantOf(t)] = @ \ doomed]
        /\ familyIdx' = [familyIdx EXCEPT ![scope] = {}]
        /\ tokenFamily' = [s \in Token |-> IF s \in doomed THEN NoFamily ELSE tokenFamily[s]]
        /\ epitaph' = epitaph \cup {scope}
        /\ UNCHANGED record
        /\ UNCHANGED <<stamp, disclosed, secret, sweeping, swept, epoch, consent, cutting, cut>>
    BY <1>6, <2>1 DEF RevokeFamily, RevokeByScope, worldVars
  <2>4. \A s \in doomed : s \in Token /\ (s = t \/ (Known(s) /\ Family(s) = scope))
    BY <1>3, Parts, DoomedBelong
  <2>. HIDE DEF doomed
  <2>5. IInv' /\ TypeOK
    BY <1>3, <2>2, Parts, RevokeKeeps DEF State
  <2>6. PICK q : q = Ended(req[r], result)
    OBVIOUS
  <2>7. /\ q \in RequestRecord /\ req' = [req EXCEPT ![r] = q]
        /\ q.pc = "done" /\ q.result = result /\ q.next = None /\ q.token = t
        /\ q.kind = req[r].kind /\ q.client = req[r].client /\ q.guard = "none"
    <3>1. 0 \in 0..MaxSecret /\ 0 \in 0..MaxConsent
      BY IdleTyped
    <3>2. /\ q = [pc |-> "done", kind |-> req[r].kind, client |-> req[r].client,
                   secret |-> 0, token |-> req[r].token, next |-> req[r].next, consent |-> 0,
                   guard |-> "none", outcome |-> "none", scope |-> NoFamily, result |-> result]
          /\ req' = [req EXCEPT ![r] = q]
      BY <1>4, <2>6 DEF Finish, Ended, Idle
    <3>3. /\ req[r].kind \in {"none", "exchange", "revocation"}
          /\ req[r].client \in Client \cup {None} /\ req[r].token \in Token \cup {None}
      BY <1>3 DEF RequestRecord
    <3>. QED
      BY <1>2, <1>3, <3>1, <3>2, <3>3 DEF RequestRecord, Place, Outcome, Result
  <2>8. /\ req' \in [Request -> RequestRecord] /\ req'[r] = q
        /\ \A s \in Request \ {r} : req'[s] = req[s]
    BY <2>7, Parts, RequestTyped
  <2>9. Quiet
    <3>1. Moving
      BY <1>2, <1>3, <2>3, <2>7, <2>8 DEF Moving, Rotated
    <3>2. /\ \A d \in Client : clientIdx'[d] \subseteq clientIdx[d]
          /\ \A g \in Grant : grantIdx'[g] \subseteq grantIdx[g]
          /\ \A f \in FamilyId : familyIdx'[f] \subseteq familyIdx[f]
          /\ \A s \in Token : tokenFamily'[s] \in {tokenFamily[s], NoFamily}
      BY <2>3, <2>5 DEF TypeOK
    <3>3. \A s \in Token : Known(s) /\ Reached(s)' => Reached(s)
      BY <2>3, <3>2, ReachedShrinks
    <3>. QED
      BY <2>3, <3>1, <3>3 DEF Quiet
  <2>10. /\ Family(t)' = Family(t) /\ Scope(t, scope)'
         /\ Exchanged(t) => Exchanged(t)'
         /\ \A s \in Token : Known(s) => Family(s)' = Family(s)
    BY <1>3, <2>2, <2>9, QuietLasts DEF Scope, LegacyScope
  <2>11. TombsHold
    <3>. SUFFICES ASSUME NEW s \in Token, tomb'[s] # tomb[s]
                  PROVE  /\ Known(s) /\ Scope(s, tomb[s].family)' /\ tomb'[s].state # "Consumed"
                         /\ Finished(s)' \/ Family(s) \in epitaph'
      BY DEF TombsHold
    <3>1. s \in doomed /\ tomb'[s].family = scope /\ tomb'[s].state # "Consumed"
      BY <2>3 DEF Dead
    <3>2. CASE s = t
      BY <1>3, <2>3, <2>10, <3>1, <3>2 DEF Scope
    <3>3. CASE Known(s) /\ Family(s) = scope
      BY <2>3, <2>10, <3>1, <3>3 DEF Scope
    <3>. QED
      BY <2>4, <3>1, <3>2, <3>3
  <2>12. Fit(q)'
    <3>1. None \notin live'
      BY <1>3, <2>3
    <3>2. Alarmed(q)'
      BY <1>1, <1>3, <2>7, <2>10, <1>2 DEF Alarmed
    <3>3. Controlled(q)'
      BY <1>1, <1>2, <1>3, <2>3, <2>7, TokensOfRequests DEF Fit, Controlled, Early, Late
    <3>4. Scoped(q)' /\ StampsRead(q)' /\ Owes(q)'
      BY <2>7, <3>1 DEF Scoped, StampsRead, Owes
    <3>5. Family(t)' \in epitaph' \/ Finished(t)'
      BY <2>3, <2>10 DEF Scope
    <3>6. Witnessed(q)'
      BY <2>7, <3>5 DEF Witnessed, Rotated
    <3>. QED
      BY <3>2, <3>3, <3>4, <3>6 DEF Fit
  <2>13. \A s \in Request : req'[s] = req[s] \/ Fit(req[s])'
    BY <2>8, <2>12
  <2>14. Cuts'
    BY <2>3, WorldStill
  <2>15. \A s \in live \ live' : Family(s) \in epitaph'
    BY <2>2, <2>3, <2>4 DEF Scope, Finished, Spent
  <2>. QED
    BY <2>3, <2>5, <2>8, <2>9, <2>11, <2>13, <2>14, <2>15, WorldTyped, StoreShrinks DEF WorldTypeOK
<1>. QED
  BY <1>2, <1>5, <1>6 DEF RevokeByScope, Call

-----------------------------------------------------------------------------
(* Steps that write a token. *)

\* A request that stands still keeps what it knows.
LEMMA StandingFit ==
    ASSUME EInv, Steady, NEW r \in Request, req'[r] = req[r]
    PROVE  Fit(req[r])'
<1>1. PICK q : q = req[r]
  OBVIOUS
<1>2. q \in RequestRecord /\ Fit(q) /\ (q.next # None => Known(q.next))
  BY <1>1, TokensOfRequests
<1>3. Rotated(q) => ~Spent(q.token)'
  BY <1>1 DEF Spent
<1>4. Fit(q)'
  BY <1>2, <1>3, FitLasts
<1>. QED
  BY <1>1, <1>4

\* Tombstones that stay keep their claims.
LEMMA StandingTomb ==
    ASSUME EInv, Steady, NEW t \in Token, tomb'[t] = tomb[t], tomb'[t] # None
    PROVE  /\ Known(t)' /\ Scope(t, tomb[t].family)'
           /\ tomb'[t].state = "Consumed" => Exchanged(t)' \/ TakenBack(t)'
<1>1. PICK f : f = tomb[t].family
  OBVIOUS
<1>2. Known(t) /\ Scope(t, f)
  BY <1>1, Parts DEF Tombs
<1>3. Scope(t, f)'
  BY <1>2, ScopeLasts
<1>4. Scope(t, tomb[t].family)'
  BY <1>1, <1>3
<1>. QED
  BY <1>2, <1>4, KnownSteady, Parts DEF Tombs, Steady

LEMMA IssueGrantKeeps ==
    ASSUME EInv, NEW t \in Token, NEW g \in Grant, IssueGrant(t, g)
    PROVE  EInv'
<1>. DEFINE p == [grant |-> g, family |-> FamilyOf(t), parent |-> None]
            v == [secret |-> secret[g.client], epoch |-> epoch[g.user],
                  consent |-> consent[g].version]
<1>0. /\ TypeOK /\ ExchangeTypeOK /\ ~Known(t) /\ Save(t, g)
      /\ g.client \in Client /\ g.user \in User
      /\ ~consent[g].revoked
  BY Parts DEF IssueGrant, Save, Grant
<1>1. /\ record' = [record EXCEPT ![t] = p]
      /\ live' = live \cup {t}
      /\ clientIdx' = [clientIdx EXCEPT ![g.client] = @ \cup {t}]
      /\ grantIdx' = [grantIdx EXCEPT ![g] = @ \cup {t}]
      /\ familyIdx' = [familyIdx EXCEPT ![FamilyOf(t)] = @ \cup {t}]
      /\ tokenFamily' = [tokenFamily EXCEPT ![t] = FamilyOf(t)]
      /\ UNCHANGED <<tomb, epitaph>>
  BY <1>0 DEF Save
<1>2. /\ stamp' = [stamp EXCEPT ![t] = v]
      /\ disclosed' = disclosed \cup {t}
      /\ UNCHANGED <<secret, sweeping, swept, epoch, consent, cutting, cut, req>>
  BY DEF IssueGrant, worldVars
<1>3. /\ v.secret = secret[g.client] /\ v.epoch = epoch[g.user]
      /\ v.consent = consent[g].version
      /\ p.grant = g /\ p.family = FamilyOf(t)
  OBVIOUS
<1>4. /\ v \in [secret : 0..MaxSecret, epoch : 0..MaxEpoch, consent : 0..MaxConsent]
      /\ p # None
  <2>1. /\ secret[g.client] \in 0..MaxSecret /\ epoch[g.user] \in 0..MaxEpoch
        /\ consent[g].version \in 0..MaxConsent
    BY <1>0, IdleTyped DEF ExchangeTypeOK
  <2>2. p \in Payload
    BY FamilyIds DEF Payload
  <2>. QED
    BY <2>1, <2>2, NonePayloadAssumption
<1>. HIDE DEF p, v
<1>5. /\ \A x \in Token : record'[x] = IF x = t THEN p ELSE record[x]
      /\ \A x \in Token : stamp'[x] = IF x = t THEN v ELSE stamp[x]
      /\ FamilyOf(t).of = t
  BY <1>0, <1>1, <1>2, FamilyIds DEF TypeOK, ExchangeTypeOK
\* Whoever was issued before is another token, of another family.
<1>6. ASSUME NEW x \in Token, Known(x)
      PROVE  /\ x # t /\ Known(x)' /\ Family(x)' = Family(x) /\ GrantOf(x)' = GrantOf(x)
             /\ stamp'[x] = stamp[x] /\ Family(x) # FamilyOf(t)
             /\ Root(x)' = Root(x) /\ Root(x) \in Token /\ Known(Root(x)) /\ Root(x) # t
             /\ stamp'[Root(x)] = stamp[Root(x)] /\ record'[Root(x)] = record[Root(x)]
  <2>1. x # t /\ Root(x) \in Token /\ Known(Root(x)) /\ Root(x) # t
    BY <1>0, <1>6, RootStamps
  <2>. QED
    BY <1>0, <1>5, <1>6, <2>1, FreshFamily, Parts DEF Known, Family, GrantOf, Root
<1>7. /\ Known(t)' /\ Family(t)' = FamilyOf(t) /\ GrantOf(t)' = g /\ Root(t)' = t
      /\ stamp'[t] = v
  BY <1>3, <1>4, <1>5 DEF Known, Family, GrantOf, Root
<1>8. \A x \in live' : x = t \/ (x \in live /\ x \in Token /\ Known(x))
  BY <1>0, <1>1, LiveKnown
<1>9. Steady
  <2>1. ASSUME NEW x \in Token, Known(x)
        PROVE  /\ Spent(x) => Spent(x)'
               /\ Finished(x) => Finished(x)'
               /\ Exchanged(x) => Exchanged(x)'
               /\ TakenBack(x) => TakenBack(x)'
               /\ InEvidence(x) => InEvidence(x)'
    <3>1. Spent(x) => Spent(x)'
      BY <1>1, <1>2, <1>6, <2>1 DEF Spent
    <3>2. FamilyDead(Family(x)) => FamilyDead(Family(x))'
      BY <1>6, <1>7, <1>8, <2>1 DEF FamilyDead
    <3>3. InEvidence(x) => InEvidence(x)'
      BY <1>1, <1>6, <2>1 DEF InEvidence
    <3>4. /\ Exchanged(x) => Exchanged(x)'
          /\ TakenBack(x) => TakenBack(x)'
      BY <1>2 DEF Exchanged, TakenBack
    <3>. QED
      BY <3>1, <3>2, <3>3, <3>4 DEF Finished
  <2>2. \A x \in Token : Known(x) => record'[x] = record[x] /\ stamp'[x] = stamp[x]
    BY <1>5, <1>6
  <2>3. live' \subseteq Token /\ \A x \in live' \ live : ~Known(x)
    BY <1>0, <1>1, <1>8
  <2>. QED
    BY <1>1, <1>2, <2>1, <2>2, <2>3 DEF Steady
<1>10. IInv'
  BY <1>0, Parts, SaveKeeps
<1>11. ExchangeTypeOK'
  <2>1. stamp' \in [Token -> [secret : 0..MaxSecret, epoch : 0..MaxEpoch,
                              consent : 0..MaxConsent]]
    BY <1>0, <1>2, <1>4 DEF ExchangeTypeOK
  <2>. QED
    BY <1>0, <1>2, <1>10, <2>1 DEF ExchangeTypeOK, IInv
<1>12. DisclosedKnown'
  BY <1>2, <1>6, <1>7, Parts DEF DisclosedKnown, ExchangeTypeOK
<1>13. Requests'
  BY <1>2, <1>9, StandingFit DEF Requests
<1>14. Successors'
  <2>. SUFFICES ASSUME NEW r \in Request, req[r].next # None
                PROVE  /\ Known(req[r].next)' /\ record'[req[r].next].parent = req[r].token
                       /\ req[r].next \in disclosed' => req[r].result = "ok"
                       /\ \A s \in Request : req[s].next = req[r].next => s = r
    BY <1>2 DEF Successors, Known
  <2>1. req[r].next \in Token /\ Known(req[r].next)
    BY TokensOfRequests
  <2>. QED
    BY <1>2, <1>5, <1>6, <2>1, Parts DEF Successors
<1>15. Once'
  <2>. SUFFICES ASSUME NEW r \in Request, Rotated(req[r])
                PROVE  /\ req[r].token \notin live' /\ ~Reached(req[r].token)'
                       /\ \A s \in Request : Rotated(req[s]) /\ req[s].token = req[r].token => s = r
    BY <1>2 DEF Once
  <2>1. PICK x : x = req[r].token
    OBVIOUS
  <2>2. x \in Token /\ Known(x) /\ x \notin live /\ ~Reached(x)
    BY <2>1, TokensOfRequests, Parts DEF Rotated, Once
  <2>3. ~Reached(x)'
    <3>1. GrantOf(x) \in Grant /\ GrantOf(x).client \in Client /\ Family(x) \in FamilyId
      BY <1>0, <2>2, KnownTyped
    <3>2. x # t /\ Family(x)' = Family(x) /\ GrantOf(x)' = GrantOf(x)
      BY <1>6, <2>2
    <3>. QED
      BY <1>0, <1>1, <2>2, <3>1, <3>2 DEF TypeOK, Reached
  <2>. QED
    BY <1>1, <1>2, <1>6, <2>1, <2>2, <2>3, Parts DEF Once
<1>16. Tombs'
  BY <1>1, <1>9, StandingTomb DEF Tombs
<1>17. Stamps'
  <2>. SUFFICES ASSUME NEW x \in Token, Known(x)'
                PROVE  /\ GrantOf(Root(x))' = GrantOf(x)'
                       /\ stamp'[x].secret = stamp'[Root(x)'].secret
                       /\ stamp'[x].epoch = stamp'[Root(x)'].epoch
                       /\ stamp'[x].consent >= stamp'[Root(x)'].consent
                       /\ stamp'[x].secret <= secret[GrantOf(x)'.client]
                       /\ stamp'[Root(x)'].consent <= consent[GrantOf(x)'].version
    BY <1>2 DEF Stamps
  <2>1. CASE x = t
    <3>1. GrantOf(Root(x))' = GrantOf(x)'
      BY <1>7, <2>1 DEF GrantOf
    <3>2. v.consent \in Nat /\ v.secret \in Nat
      BY <1>4, IdleTyped
    <3>. QED
      BY <1>3, <1>7, <2>1, <3>1, <3>2
  <2>2. CASE x # t
    <3>1. Known(x)
      BY <1>5, <2>2 DEF Known
    <3>2. GrantOf(Root(x))' = GrantOf(Root(x))
      BY <1>6, <3>1 DEF GrantOf
    <3>. QED
      BY <1>6, <3>1, <3>2, Parts DEF Stamps
  <2>. QED
    BY <2>1, <2>2
<1>18. Cuts'
  <2>. SUFFICES ASSUME ~May("cleanup"), ~May("crash"), NEW s \in live'
                PROVE  GrantOf(s)' \in cutting \/ stamp'[Root(s)'].consent > cut[GrantOf(s)']
    BY <1>2, Parts DEF Cuts
  <2>1. CASE s = t
    <3>1. cut[g] < consent[g].version
      BY <1>0, Parts DEF Cuts
    <3>. QED
      BY <1>3, <1>7, <2>1, <3>1, <1>0 DEF ExchangeTypeOK
  <2>2. CASE s # t
    BY <1>6, <1>8, <2>2, Parts DEF Cuts
  <2>. QED
    BY <2>1, <2>2
<1>19. Sweeps'
  <2>. SUFFICES ASSUME NEW s \in live'
                PROVE  stamp'[Root(s)'].secret >= swept[GrantOf(s)'.client]
    BY <1>2, Parts DEF Sweeps
  <2>1. CASE s = t
    BY <1>0, <1>3, <1>7, <2>1, Parts, IdleTyped DEF Sweeps, ExchangeTypeOK
  <2>2. CASE s # t
    BY <1>6, <1>8, <2>2, Parts DEF Sweeps
  <2>. QED
    BY <2>1, <2>2
<1>20. Holdings'
  <2>. SUFFICES ASSUME ~May("expiry"), ~May("cleanup"), ~May("crash"), NEW x \in disclosed'
                PROVE  Family(x)' \in epitaph' \/ SweptAway(x)' \/ ~FamilyDead(Family(x))'
    BY DEF Holdings
  <2>1. CASE x = t
    BY <1>1, <2>1 DEF FamilyDead
  <2>2. CASE x # t
    <3>1. x \in disclosed /\ x \in Token /\ Known(x)
      BY <1>0, <1>2, <2>2, Parts DEF DisclosedKnown, ExchangeTypeOK
    <3>2. SweptAway(x) => SweptAway(x)'
      BY <1>2, <1>6, <3>1 DEF SweptAway
    <3>3. ~FamilyDead(Family(x)) => ~FamilyDead(Family(x))'
      BY <1>0, <1>1, <1>6, <3>1, LiveKnown DEF FamilyDead
    <3>. QED
      BY <1>1, <1>6, <3>1, <3>2, <3>3, Parts DEF Holdings
  <2>. QED
    BY <2>1, <2>2
<1>21. NoOrphan'
  BY <1>1, <1>2, Parts DEF NoOrphan, Responsible
<1>22. Evident'
  <2>. SUFFICES ASSUME ~May("expiry"), NEW x \in Token, Known(x)', x \notin live'
                PROVE  InEvidence(x)' \/ Finished(x)'
    BY DEF Evident
  <2>1. Known(x) /\ x \notin live
    BY <1>1, <1>5 DEF Known
  <2>. QED
    BY <1>9, <2>1, Parts DEF Evident, Steady
<1>. QED
  BY <1>10, <1>11, <1>12, <1>13, <1>14, <1>15, <1>16, <1>17, <1>18, <1>19, <1>20, <1>21, <1>22
     DEF EInv

\* No index leads to a token it did not lead to before, except a new one.
NowhereNew == \A x \in Token : Known(x) /\ Reached(x)' => Reached(x)

\* The payload of the successor of t.
Heir(t) == [record[t] EXCEPT !.parent = t]

\* What the request does to its record.
Turned(q, o, new) == [q EXCEPT !.pc = "release", !.outcome = o, !.next = new]

\* What the request and the store look like after the rotation.
Told(r, t, new, o) ==
    /\ t \in live /\ Known(t) /\ t # new
    /\ t \in disclosed /\ ~Known(new)
    /\ live' = (live \ {t}) \cup {new}
    /\ tomb' = [tomb EXCEPT ![t] = Dead("Consumed", Family(t))]
    /\ epitaph' = epitaph
    /\ req' \in [Request -> RequestRecord]
    /\ \A s \in Request \ {r} : req'[s] = req[s]
    /\ req[r].next = None
    /\ req'[r].next = new /\ req'[r].token = t /\ req'[r].result = "none"
    /\ req'[r].pc = "release" /\ req'[r].outcome = o
    /\ req'[r].kind = req[r].kind /\ req'[r].client = req[r].client
    /\ \A x \in Token : record'[x] = IF x = new THEN Heir(t)
                                                ELSE record[x]
    /\ Heir(t) \in Payload
    /\ ~Reached(t)'
    /\ NowhereNew

LEMMA RotationTold ==
    ASSUME EInv, NEW r \in Request, req[r].pc = "rotate",
           NEW t \in Token, t = req[r].token,
           NEW new \in Token, Rotate(t, new), NEW o \in {"Rotated", "Error"},
           req' = [req EXCEPT ![r] = Turned(req[r], o, new)]
    PROVE  Told(r, t, new, o)
<1>1. /\ t \in Token /\ t \in disclosed /\ Known(t) /\ req \in [Request -> RequestRecord]
      /\ req[r] \in RequestRecord /\ req[r].next = None /\ req[r].result = "none"
      /\ TypeOK /\ record[t] \in Payload
  BY EarlyRequest, Parts, KnownTyped DEF Early
<1>. DEFINE p == Heir(t)
<1>2. p \in Payload /\ p.grant = GrantOf(t) /\ p.family = Family(t)
      /\ p.grant \in Grant /\ p.grant.client \in Client /\ p.family \in FamilyId
  BY <1>1, KnownTyped DEF Heir, Payload, GrantOf, Family
<1>3. ~Known(new) /\ Exchange(t, new, p) /\ record' = [record EXCEPT ![new] = p]
  BY <1>1 DEF Rotate, Heir
<1>. HIDE DEF p
<1>4. /\ t \in live /\ t # new
      /\ live' = (live \ {t}) \cup {new}
      /\ clientIdx' = [clientIdx EXCEPT ![p.grant.client] = (@ \ {t}) \cup {new}]
      /\ grantIdx' = [grantIdx EXCEPT ![p.grant] = (@ \ {t}) \cup {new}]
      /\ familyIdx' = [familyIdx EXCEPT ![p.family] = (@ \ {t}) \cup {new}]
      /\ tokenFamily' = [tokenFamily EXCEPT ![t] = NoFamily, ![new] = p.family]
      /\ tomb' = [tomb EXCEPT ![t] = Dead("Consumed", Family(t))]
      /\ epitaph' = epitaph
  BY <1>1, <1>2, <1>3 DEF Exchange, RotationOutcome, Swap, Reindex, Replaced, Consume
<1>5. \A x \in Token : record'[x] = IF x = new THEN p ELSE record[x]
  BY <1>1, <1>3 DEF TypeOK
<1>6. /\ req' \in [Request -> RequestRecord]
      /\ \A s \in Request \ {r} : req'[s] = req[s]
      /\ req'[r].next = new /\ req'[r].token = t /\ req'[r].result = "none"
      /\ req'[r].pc = "release" /\ req'[r].outcome = o
      /\ req'[r].kind = req[r].kind /\ req'[r].client = req[r].client
  <2>1. PICK q : q = Turned(req[r], o, new)
    OBVIOUS
  <2>2. req' = [req EXCEPT ![r] = q]
    BY <2>1
  <2>3. q \in RequestRecord
    <3>1. "release" \in Place /\ o \in Outcome /\ new \in Token \cup {None}
      BY DEF Place, Outcome
    <3>. QED
      BY <1>1, <2>1, <3>1 DEF Turned, RequestRecord
  <2>4. /\ q.next = new /\ q.token = t /\ q.result = "none" /\ q.pc = "release"
        /\ q.outcome = o /\ q.kind = req[r].kind /\ q.client = req[r].client
    BY <1>1, <2>1 DEF Turned, RequestRecord
  <2>5. req' \in [Request -> RequestRecord] /\ req'[r] = q
        /\ \A s \in Request \ {r} : req'[s] = req[s]
    BY <2>2, <2>3, Parts, RequestTyped
  <2>. QED
    BY <2>4, <2>5
<1>7. ~Reached(t)'
  <2>1. GrantOf(t)' = p.grant /\ Family(t)' = p.family
    BY <1>1, <1>2, <1>4, <1>5 DEF GrantOf, Family
  <2>. QED
    BY <1>1, <1>2, <1>4, <2>1 DEF Reached, TypeOK
<1>8. ASSUME NEW x \in Token, Known(x), Reached(x)'
      PROVE  Reached(x)
  <2>1. x # new /\ GrantOf(x)' = GrantOf(x) /\ Family(x)' = Family(x)
    BY <1>3, <1>5, <1>8 DEF GrantOf, Family
  <2>2. GrantOf(x) \in Grant /\ GrantOf(x).client \in Client /\ Family(x) \in FamilyId
    BY <1>1, <1>8, KnownTyped
  <2>. QED
    BY <1>1, <1>2, <1>4, <1>8, <2>1, <2>2 DEF Reached, TypeOK
<1>. QED
  BY <1>1, <1>2, <1>3, <1>4, <1>5, <1>6, <1>7, <1>8 DEF p, NowhereNew, Told

LEMMA SuccessorKeeps ==
    ASSUME EInv, NEW r \in Request, req[r].pc = "rotate", NEW new \in Token,
           Rotate(req[r].token, new),
           stamp' = [stamp EXCEPT ![new] = SuccessorStamp(r)],
           NEW o \in {"Rotated", "Error"}, o = "Rotated" \/ May("redis"),
           req' = [req EXCEPT ![r] = Turned(req[r], o, new)],
           UNCHANGED <<disclosed, worldVars>>
    PROVE  EInv'
<1>1. PICK t \in Token : t = req[r].token /\ Rotate(t, new)
  BY TokensOfRequests
<1>0. Told(r, t, new, o)
  BY <1>1, RotationTold
<1>. DEFINE p == Heir(t)
<1>2. /\ t \in live /\ t \in Token /\ Known(t) /\ t # new
      /\ t \in disclosed /\ ~Known(new)
      /\ live' = (live \ {t}) \cup {new}
      /\ tomb' = [tomb EXCEPT ![t] = Dead("Consumed", Family(t))]
      /\ epitaph' = epitaph
      /\ req' \in [Request -> RequestRecord]
      /\ \A s \in Request \ {r} : req'[s] = req[s]
      /\ req[r].next = None
      /\ req'[r].next = new /\ req'[r].token = t /\ req'[r].result = "none"
      /\ req'[r].pc = "release" /\ req'[r].outcome = o
      /\ req'[r].kind = req[r].kind /\ req'[r].client = req[r].client
      /\ \A x \in Token : record'[x] = IF x = new THEN p ELSE record[x]
      /\ p \in Payload
      /\ ~Reached(t)'
      /\ NowhereNew
  BY <1>0 DEF Told
<1>3. /\ TypeOK /\ ExchangeTypeOK /\ new # None /\ StampsRead(req[r]) /\ Controlled(req[r])
      /\ disclosed' = disclosed
      /\ UNCHANGED <<secret, sweeping, swept, epoch, consent, cutting, cut>>
  BY Parts, TokensOfRequests, NoneTombstoneAssumption DEF worldVars, Fit
<1>4. p # None /\ p.grant = GrantOf(t) /\ p.family = Family(t) /\ p.parent = t
  <2>1. record[t] \in Payload
    BY <1>2, <1>3, KnownTyped
  <2>. QED
    BY <1>1, <1>2, <2>1, NonePayloadAssumption DEF Heir, Payload, GrantOf, Family
<1>. HIDE DEF p
<1>5. PICK v : v = SuccessorStamp(r)
  OBVIOUS
<1>6. /\ v \in [secret : 0..MaxSecret, epoch : 0..MaxEpoch, consent : 0..MaxConsent]
      /\ v.secret = stamp[t].secret /\ v.epoch = stamp[t].epoch
      /\ v.consent >= stamp[Root(t)].consent
  <2>1. /\ req[r].secret = stamp[t].secret /\ req[r].consent >= stamp[Root(t)].consent
    BY <1>1, <1>3 DEF StampsRead
  <2>2. stamp[t] \in [secret : 0..MaxSecret, epoch : 0..MaxEpoch, consent : 0..MaxConsent]
    BY <1>2, <1>3 DEF ExchangeTypeOK
  <2>3. req[r].consent \in 0..MaxConsent
    BY TokensOfRequests DEF RequestRecord
  <2>4. v = [secret |-> stamp[t].secret, epoch |-> stamp[t].epoch, consent |-> req[r].consent]
    BY <1>1, <1>5, <2>1 DEF SuccessorStamp
  <2>. QED
    BY <2>1, <2>2, <2>3, <2>4
<1>7. \A x \in Token : stamp'[x] = IF x = new THEN v ELSE stamp[x]
  BY <1>3, <1>5 DEF ExchangeTypeOK
\* Whoever was issued before stays as it was.
<1>8. ASSUME NEW x \in Token, Known(x)
      PROVE  /\ x # new /\ Known(x)' /\ Family(x)' = Family(x) /\ GrantOf(x)' = GrantOf(x)
             /\ record'[x] = record[x] /\ stamp'[x] = stamp[x]
             /\ Root(x)' = Root(x) /\ Root(x) \in Token /\ Known(Root(x)) /\ Root(x) # new
             /\ stamp'[Root(x)] = stamp[Root(x)] /\ GrantOf(Root(x))' = GrantOf(Root(x))
  <2>1. x # new /\ Root(x) \in Token /\ Known(Root(x)) /\ Root(x) # new
    BY <1>2, <1>8, RootStamps
  <2>. QED
    BY <1>2, <1>7, <1>8, <2>1 DEF Known, Family, GrantOf, Root
<1>9. /\ Known(new)' /\ Family(new)' = Family(t) /\ GrantOf(new)' = GrantOf(t)
      /\ Root(new)' = Root(t) /\ stamp'[new] = v /\ record'[new].parent = t
  BY <1>2, <1>4, <1>7 DEF Known, Family, GrantOf, Root
<1>10. \A x \in live' : x = new \/ (x \in live /\ x # t /\ x \in Token /\ Known(x))
  BY <1>2, <1>3, LiveKnown
<1>11. Steady
  <2>1. ASSUME NEW x \in Token, Known(x)
        PROVE  /\ Spent(x) => Spent(x)'
               /\ Finished(x) => Finished(x)'
               /\ Exchanged(x) => Exchanged(x)'
               /\ TakenBack(x) => TakenBack(x)'
               /\ InEvidence(x) => InEvidence(x)'
    <3>1. Spent(x) => Spent(x)'
      <4>. SUFFICES ASSUME Spent(x) PROVE Spent(x)'
        OBVIOUS
      <4>1. x # t /\ x \notin live'
        BY <1>2, <1>8, <2>1 DEF Spent
      <4>2. \A s \in Request : Rotated(req'[s]) => req'[s].token # x
        BY <1>2, <4>1 DEF Spent
      <4>. QED
        BY <4>1, <4>2 DEF Spent
    <3>2. FamilyDead(Family(x)) => FamilyDead(Family(x))'
      BY <1>2, <1>8, <1>9, <1>10, <2>1 DEF FamilyDead
    <3>3. InEvidence(x) => InEvidence(x)'
      BY <1>2, <1>3, <1>8, <2>1 DEF InEvidence, TypeOK
    <3>4. Exchanged(x) => Exchanged(x)'
      BY <1>2 DEF Exchanged
    <3>5. TakenBack(x) => TakenBack(x)'
      <4>1. x # None
        BY <2>1, NoneTombstoneAssumption
      <4>. QED
        BY <1>2, <4>1 DEF TakenBack
    <3>. QED
      BY <3>1, <3>2, <3>3, <3>4, <3>5 DEF Finished
  <2>2. \A x \in Token : Known(x) => record'[x] = record[x] /\ stamp'[x] = stamp[x]
    BY <1>8
  <2>3. live' \subseteq Token /\ \A x \in live' \ live : ~Known(x)
    BY <1>2, <1>3 DEF TypeOK
  <2>. QED
    BY <1>2, <1>3, <2>1, <2>2, <2>3 DEF Steady
<1>12. IInv'
  BY <1>2, <1>1, Parts, RotateKeeps
<1>13. ExchangeTypeOK'
  <2>1. stamp' \in [Token -> [secret : 0..MaxSecret, epoch : 0..MaxEpoch,
                              consent : 0..MaxConsent]]
    BY <1>3, <1>5, <1>6 DEF ExchangeTypeOK
  <2>. QED
    BY <1>2, <1>3, <1>12, <2>1 DEF ExchangeTypeOK, IInv, RequestRecord
<1>14. DisclosedKnown'
  BY <1>3, <1>8, Parts DEF DisclosedKnown, ExchangeTypeOK
<1>15. Requests'
  <2>1. ASSUME NEW s \in Request \ {r} PROVE Fit(req[s])'
    BY <1>2, <1>11, StandingFit
  <2>2. PICK q : q = req'[r]
    OBVIOUS
  <2>3. Fit(q)'
    <3>1. Controlled(q)'
      BY <1>1, <1>2, <1>3, <2>2 DEF Controlled, Early, Late
    <3>2. Scoped(q)' /\ Alarmed(q)' /\ StampsRead(q)' /\ Owes(q)'
      BY <1>2, <2>2 DEF Scoped, Alarmed, StampsRead, Owes, Answers
    <3>3. InEvidence(t)'
      BY <1>2, <1>3, <1>8 DEF InEvidence, TypeOK
    <3>4. Witnessed(q)'
      BY <1>2, <2>2, <3>3 DEF Witnessed
    <3>. QED
      BY <3>1, <3>2, <3>4 DEF Fit
  <2>. QED
    BY <2>1, <2>2, <2>3 DEF Requests
<1>16. Successors'
  <2>. SUFFICES ASSUME NEW s \in Request, req'[s].next # None
                PROVE  /\ record'[req'[s].next] # None
                       /\ record'[req'[s].next].parent = req'[s].token
                       /\ req'[s].next \in disclosed => req'[s].result = "ok"
                       /\ \A x \in Request : req'[x].next = req'[s].next => x = s
    BY <1>3 DEF Successors, Known
  <2>1. \A x \in Request \ {r} : req[x].next # new
    BY <1>2, <1>3, TokensOfRequests
  <2>2. CASE s = r
    BY <1>2, <1>3, <1>9, <2>1, <2>2, Parts DEF DisclosedKnown, Known
  <2>3. CASE s # r
    <3>1. req[s].next \in Token /\ Known(req[s].next) /\ req'[s] = req[s]
      BY <1>2, <2>3, TokensOfRequests
    <3>. QED
      BY <1>2, <1>3, <1>8, <2>1, <2>3, <3>1, Parts DEF Successors, Known
  <2>. QED
    BY <2>2, <2>3
<1>17. Once'
  <2>. SUFFICES ASSUME NEW s \in Request, Rotated(req'[s])
                PROVE  /\ req'[s].token \notin live' /\ ~Reached(req[s].token)'
                       /\ \A x \in Request : Rotated(req'[x]) /\ req'[x].token = req'[s].token => x = s
    BY DEF Once
  <2>1. \A x \in Request \ {r} : Rotated(req[x]) => req[x].token # t
    BY <1>2, Parts DEF Once
  <2>2. CASE s = r
    BY <1>2, <2>1, <2>2
  <2>3. CASE s # r
    <3>1. PICK x : x = req[s].token /\ x = req'[s].token
      BY <1>2, <2>3
    <3>2. x \in Token /\ Known(x) /\ x \notin live /\ ~Reached(x) /\ Rotated(req[s])
      BY <1>2, <2>3, <3>1, TokensOfRequests, Parts DEF Rotated, Once
    <3>3. ~Reached(x)' /\ x \notin live'
      BY <1>2, <1>8, <3>2 DEF NowhereNew
    <3>. QED
      BY <1>2, <2>1, <2>3, <3>1, <3>2, <3>3, Parts DEF Once
  <2>. QED
    BY <2>2, <2>3
<1>18. Tombs'
  <2>. SUFFICES ASSUME NEW x \in Token, tomb'[x] # None
                PROVE  /\ Known(x)' /\ Scope(x, tomb[x].family)'
                       /\ tomb'[x].state = "Consumed" => Exchanged(x)' \/ TakenBack(x)'
    BY DEF Tombs
  <2>1. CASE x = t
    <3>1. tomb'[t].family = Family(t) /\ Family(t)' = Family(t)
      BY <1>2, <1>3, <1>8 DEF Dead, TypeOK
    <3>2. Scope(t, tomb[t].family)'
      BY <3>1 DEF Scope
    <3>3. Exchanged(t)'
      BY <1>2, <1>3 DEF Exchanged
    <3>. QED
      BY <1>2, <1>8, <2>1, <3>2, <3>3
  <2>2. CASE x # t
    <3>1. tomb'[x] = tomb[x]
      BY <1>2, <1>3, <2>2 DEF TypeOK
    <3>. QED
      BY <1>11, <3>1, StandingTomb
  <2>. QED
    BY <2>1, <2>2
<1>19. Stamps'
  <2>. SUFFICES ASSUME NEW x \in Token, Known(x)'
                PROVE  /\ GrantOf(Root(x))' = GrantOf(x)'
                       /\ stamp'[x].secret = stamp'[Root(x)'].secret
                       /\ stamp'[x].epoch = stamp'[Root(x)'].epoch
                       /\ stamp'[x].consent >= stamp'[Root(x)'].consent
                       /\ stamp'[x].secret <= secret[GrantOf(x)'.client]
                       /\ stamp'[Root(x)'].consent <= consent[GrantOf(x)'].version
    BY <1>3 DEF Stamps
  <2>1. CASE x = new
    <3>1. GrantOf(Root(x))' = GrantOf(Root(t))
      <4>1. GrantOf(Root(t))' = GrantOf(Root(t)) /\ Root(x)' = Root(t)' /\ Root(t)' = Root(t)
        BY <1>2, <1>8, <1>9, <2>1
      <4>. QED
        BY <4>1 DEF GrantOf
    <3>. QED
      BY <1>2, <1>6, <1>8, <1>9, <2>1, <3>1, Parts DEF Stamps
  <2>2. CASE x # new
    <3>1. Known(x)
      BY <1>2, <2>2 DEF Known
    <3>2. GrantOf(Root(x))' = GrantOf(Root(x))
      BY <1>8, <3>1
    <3>. QED
      BY <1>8, <3>1, <3>2, Parts DEF Stamps
  <2>. QED
    BY <2>1, <2>2
<1>20. Cuts'
  <2>. SUFFICES ASSUME ~May("cleanup"), ~May("crash"), NEW s \in live'
                PROVE  GrantOf(s)' \in cutting \/ stamp'[Root(s)'].consent > cut[GrantOf(s)']
    BY <1>3, Parts DEF Cuts
  <2>. QED
    BY <1>2, <1>8, <1>9, <1>10, Parts DEF Cuts
<1>21. Sweeps'
  <2>. SUFFICES ASSUME NEW s \in live'
                PROVE  stamp'[Root(s)'].secret >= swept[GrantOf(s)'.client]
    BY <1>3, Parts DEF Sweeps
  <2>. QED
    BY <1>2, <1>8, <1>9, <1>10, Parts DEF Sweeps
<1>22. Holdings'
  <2>. SUFFICES ASSUME ~May("expiry"), ~May("cleanup"), ~May("crash"), NEW x \in disclosed
                PROVE  Family(x)' \in epitaph' \/ SweptAway(x)' \/ ~FamilyDead(Family(x))'
    BY <1>3 DEF Holdings
  <2>1. x \in Token /\ Known(x)
    BY <1>3, Parts DEF DisclosedKnown, ExchangeTypeOK
  <2>2. SweptAway(x) => SweptAway(x)'
    BY <1>3, <1>8, <2>1 DEF SweptAway
  <2>3. ~FamilyDead(Family(x)) => ~FamilyDead(Family(x))'
    <3>. SUFFICES ASSUME NEW s \in live, Family(s) = Family(x)
                  PROVE  \E u \in live' : Family(u)' = Family(x)'
      BY DEF FamilyDead
    <3>1. CASE s = t
      BY <1>2, <1>8, <1>9, <2>1, <3>1
    <3>2. CASE s # t
      BY <1>2, <1>3, <1>8, <2>1, <3>2, LiveKnown
    <3>. QED
      BY <3>1, <3>2
  <2>. QED
    BY <1>2, <1>8, <2>1, <2>2, <2>3, Parts DEF Holdings
<1>23. NoOrphan'
  <2>. SUFFICES ASSUME NEW x \in live', x \notin disclosed
                PROVE  \E s \in Request : req'[s].next = x /\ Responsible(s)'
    BY <1>3 DEF NoOrphan
  <2>1. CASE x = new
    BY <1>2, <2>1 DEF Responsible
  <2>2. CASE x # new
    <3>1. x \in live /\ x # None
      BY <1>3, <1>10, <2>2, NoneTombstoneAssumption
    <3>2. PICK s \in Request : req[s].next = x /\ Responsible(s)
      BY <3>1, Parts DEF NoOrphan
    <3>. QED
      BY <1>2, <3>1, <3>2 DEF Responsible
  <2>. QED
    BY <2>1, <2>2
<1>24. Evident'
  <2>. SUFFICES ASSUME ~May("expiry"), NEW x \in Token, Known(x)', x \notin live'
                PROVE  InEvidence(x)' \/ Finished(x)'
    BY DEF Evident
  <2>1. CASE x = t
    BY <1>2, <1>3, <1>8, <2>1 DEF InEvidence, TypeOK
  <2>2. CASE x # t
    <3>1. Known(x) /\ x \notin live
      BY <1>2, <2>2 DEF Known
    <3>. QED
      BY <1>11, <3>1, Parts DEF Evident, Steady
  <2>. QED
    BY <2>1, <2>2
<1>. QED
  BY <1>12, <1>13, <1>14, <1>15, <1>16, <1>17, <1>18, <1>19, <1>20, <1>21, <1>22, <1>23, <1>24
     DEF EInv

\* A rotation that was turned away, or never reached Redis.
LEMMA TurnedAwayKeeps ==
    ASSUME EInv, NEW r \in Request, req[r].pc = "rotate",
           NEW outcome \in {"KeyMissing", "FamilyRevoked", "Error"},
           outcome = "KeyMissing" => req[r].token \notin live,
           outcome = "FamilyRevoked" => Family(req[r].token) \in epitaph,
           outcome = "Error" => May("redis"),
           req' = [req EXCEPT ![r].pc = "release", ![r].outcome = outcome],
           NoStoreChange
    PROVE  EInv'
<1>1. /\ req \in [Request -> RequestRecord] /\ req[r] \in RequestRecord
      /\ Controlled(req[r]) /\ req[r].next = None /\ req[r].result = "none"
      /\ req[r].token \in Token /\ Known(req[r].token) /\ None \notin live
      /\ May("expiry") \/ Witnessed(req[r])
  BY EarlyRequest, TokensOfRequests, Parts, NoneTombstoneAssumption DEF Early, Fit, TypeOK
<1>2. PICK q : q = [req[r] EXCEPT !.pc = "release", !.outcome = outcome]
  OBVIOUS
<1>3. /\ q \in RequestRecord /\ q.pc = "release" /\ q.outcome = outcome
      /\ q.next = None /\ q.result = "none" /\ q.token = req[r].token
      /\ q.kind = req[r].kind /\ q.client = req[r].client
  <2>1. "release" \in Place /\ outcome \in Outcome
    BY DEF Place, Outcome
  <2>. QED
    BY <1>1, <1>2, <2>1 DEF RequestRecord
<1>4. req' = [req EXCEPT ![r] = q]
  BY <1>1, <1>2
<1>5. Controlled(q)
  BY <1>1, <1>3 DEF Controlled, Early, Late
<1>6. Scoped(q) /\ Alarmed(q) /\ StampsRead(q)
  BY <1>3 DEF Scoped, Alarmed, StampsRead
<1>7. May("expiry") \/ Witnessed(q)
  <2>1. outcome = "KeyMissing" =>
            May("expiry") \/ InEvidence(req[r].token) \/ Finished(req[r].token)
    BY <1>1, GoneTokens
  <2>. QED
    BY <1>3, <2>1 DEF Witnessed, Rotated
<1>. QED
  BY <1>1, <1>3, <1>4, <1>5, <1>6, <1>7, GoesOn

LEMMA RotateIfMatchesKeeps ==
    ASSUME EInv, NEW r \in Request, RotateIfMatches(r)
    PROVE  EInv'
<1>1. req[r].pc = "rotate" /\ UNCHANGED <<disclosed, worldVars>>
  BY DEF RotateIfMatches, At
<1>2. req[r].token \in Token /\ Known(req[r].token) /\ req \in [Request -> RequestRecord]
      /\ req[r] \in RequestRecord
  BY <1>1, EarlyRequest DEF Early
<1>3. CASE \E new \in Token :
             /\ Rotate(req[r].token, new)
             /\ stamp' = [stamp EXCEPT ![new] = SuccessorStamp(r)]
             /\ \E o \in {"Rotated"} \cup (IF May("redis") THEN {"Error"} ELSE {}) :
                   req' = [req EXCEPT ![r].pc = "release", ![r].outcome = o,
                                      ![r].next = new]
  <2>1. PICK new \in Token, o \in {"Rotated", "Error"} :
             /\ Rotate(req[r].token, new)
             /\ stamp' = [stamp EXCEPT ![new] = SuccessorStamp(r)]
             /\ o = "Rotated" \/ May("redis")
             /\ req' = [req EXCEPT ![r].pc = "release", ![r].outcome = o, ![r].next = new]
    BY <1>3
  <2>2. req' = [req EXCEPT ![r] = Turned(req[r], o, new)]
    BY <1>2, <2>1 DEF Turned
  <2>. QED
    BY <1>1, <2>1, <2>2, SuccessorKeeps
<1>4. CASE \E outcome \in {"KeyMissing", "FamilyRevoked", "Error"} :
             /\ outcome = "KeyMissing" => req[r].token \notin live
             /\ outcome = "FamilyRevoked" => Family(req[r].token) \in epitaph
             /\ outcome = "Error" => May("redis")
             /\ req' = [req EXCEPT ![r].pc = "release", ![r].outcome = outcome]
             /\ UNCHANGED <<vars, stamp>>
  <2>1. NoStoreChange
    BY <1>1, <1>4 DEF NoStoreChange
  <2>. QED
    BY <1>1, <1>4, <2>1, TurnedAwayKeeps
<1>. QED
  BY <1>3, <1>4 DEF RotateIfMatches, RotationOutcome, Family

\* What the request and the store look like when the token is back.
Restored(r, t, new, result) ==
    /\ new \in live /\ new # t /\ Known(new)
    /\ live' = (live \ {new}) \cup {t}
    /\ tomb' = [tomb EXCEPT ![new] = Dead("Consumed", Family(new))]
    /\ UNCHANGED <<record, epitaph>>
    /\ req' \in [Request -> RequestRecord]
    /\ \A s \in Request \ {r} : req'[s] = req[s]
    /\ req'[r].next = new /\ req'[r].token = t /\ req'[r].result = result
    /\ req'[r].pc = "done" /\ req'[r].guard = "none"
    /\ req'[r].kind = req[r].kind /\ req'[r].client = req[r].client
    /\ \A x \in Token \ {t} : Known(x) /\ Reached(x)' => Reached(x)

LEMMA RestorationTold ==
    ASSUME EInv, NEW r \in Request, req[r].pc = "rollback",
           NEW t \in Token, t = req[r].token, NEW new \in Token, new = req[r].next,
           Rollback(new), NEW result \in {"restored", "unavailable"}, Finish(r, result)
    PROVE  Restored(r, t, new, result)
<1>1. /\ t \in disclosed /\ Known(t) /\ req[r] \in RequestRecord /\ TypeOK
      /\ Known(new) /\ new \notin disclosed /\ new # t /\ record[new].parent = t
      /\ GrantOf(t) = GrantOf(new) /\ Family(t) = Family(new)
  BY LateRequest, Parts DEF Late
<1>. DEFINE p == record[t]
<1>2. p \in Payload /\ p.grant = GrantOf(t) /\ p.family = Family(t)
      /\ p.grant \in Grant /\ p.grant.client \in Client /\ p.family \in FamilyId
  BY <1>1, KnownTyped DEF Payload, GrantOf, Family
<1>3. Exchange(new, t, p) /\ record' = record
  BY <1>1 DEF Rollback
<1>. HIDE DEF p
<1>4. /\ new \in live
      /\ live' = (live \ {new}) \cup {t}
      /\ clientIdx' = [clientIdx EXCEPT ![p.grant.client] = (@ \ {new}) \cup {t}]
      /\ grantIdx' = [grantIdx EXCEPT ![p.grant] = (@ \ {new}) \cup {t}]
      /\ familyIdx' = [familyIdx EXCEPT ![p.family] = (@ \ {new}) \cup {t}]
      /\ tokenFamily' = [tokenFamily EXCEPT ![new] = NoFamily, ![t] = p.family]
      /\ tomb' = [tomb EXCEPT ![new] = Dead("Consumed", Family(new))]
      /\ epitaph' = epitaph
  BY <1>1, <1>2, <1>3 DEF Exchange, RotationOutcome, Swap, Reindex, Replaced, Consume
<1>5. PICK q : q = Ended(req[r], result)
  OBVIOUS
<1>6. /\ q \in RequestRecord /\ req' = [req EXCEPT ![r] = q]
      /\ q.pc = "done" /\ q.result = result /\ q.next = new /\ q.token = t
      /\ q.kind = req[r].kind /\ q.client = req[r].client /\ q.guard = "none"
  <2>1. 0 \in 0..MaxSecret /\ 0 \in 0..MaxConsent
    BY IdleTyped
  <2>2. /\ q = [pc |-> "done", kind |-> req[r].kind, client |-> req[r].client,
                 secret |-> 0, token |-> req[r].token, next |-> req[r].next, consent |-> 0,
                 guard |-> "none", outcome |-> "none", scope |-> NoFamily, result |-> result]
        /\ req' = [req EXCEPT ![r] = q]
    BY <1>5 DEF Finish, Ended, Idle
  <2>3. /\ req[r].kind \in {"none", "exchange", "revocation"}
        /\ req[r].client \in Client \cup {None} /\ req[r].token \in Token \cup {None}
        /\ req[r].next \in Token \cup {None}
    BY <1>1 DEF RequestRecord
  <2>. QED
    BY <2>1, <2>2, <2>3 DEF RequestRecord, Place, Outcome, Result
<1>7. /\ req' \in [Request -> RequestRecord] /\ req'[r] = q
      /\ \A s \in Request \ {r} : req'[s] = req[s]
  BY <1>6, Parts, RequestTyped
<1>8. ASSUME NEW x \in Token \ {t}, Known(x), Reached(x)'
      PROVE  Reached(x)
  <2>1. GrantOf(x)' = GrantOf(x) /\ Family(x)' = Family(x)
    BY <1>3 DEF GrantOf, Family
  <2>2. GrantOf(x) \in Grant /\ GrantOf(x).client \in Client /\ Family(x) \in FamilyId
    BY <1>1, <1>8, KnownTyped
  <2>. QED
    BY <1>1, <1>2, <1>4, <1>8, <2>1, <2>2 DEF Reached, TypeOK
<1>. QED
  BY <1>1, <1>3, <1>4, <1>6, <1>7, <1>8 DEF Restored

LEMMA RestorationKeeps ==
    ASSUME EInv, NEW r \in Request, req[r].pc = "rollback",
           Rollback(req[r].next), NEW result \in {"restored", "unavailable"},
           Finish(r, result), result = "unavailable" => May("redis"),
           UNCHANGED <<stamp, disclosed, worldVars>>
    PROVE  EInv'
<1>1. /\ req[r].token \in Token /\ req[r].next \in Token
      /\ req[r].token \in disclosed /\ Known(req[r].token) /\ Known(req[r].next)
      /\ req[r].next \notin disclosed /\ Rotated(req[r])
      /\ GrantOf(req[r].token) = GrantOf(req[r].next)
      /\ Family(req[r].token) = Family(req[r].next)
      /\ req[r].result = "none"
  BY LateRequest DEF Late
<1>2. PICK t \in Token, new \in Token : t = req[r].token /\ new = req[r].next /\ Rollback(new)
  BY <1>1
<1>3. Restored(r, t, new, result)
  BY <1>2, RestorationTold
<1>4. /\ new \in live /\ new # t /\ Known(new) /\ Known(t) /\ t \in disclosed
      /\ new \notin disclosed /\ GrantOf(t) = GrantOf(new) /\ Family(t) = Family(new)
      /\ live' = (live \ {new}) \cup {t}
      /\ tomb' = [tomb EXCEPT ![new] = Dead("Consumed", Family(new))]
      /\ UNCHANGED <<record, epitaph>>
      /\ req' \in [Request -> RequestRecord]
      /\ \A s \in Request \ {r} : req'[s] = req[s]
      /\ req'[r].next = new /\ req'[r].token = t /\ req'[r].result = result
      /\ req'[r].pc = "done" /\ req'[r].guard = "none"
      /\ req'[r].kind = req[r].kind /\ req'[r].client = req[r].client
      /\ \A x \in Token \ {t} : Known(x) /\ Reached(x)' => Reached(x)
  BY <1>1, <1>2, <1>3 DEF Restored
<1>5. /\ TypeOK /\ ExchangeTypeOK /\ new # None /\ Controlled(req[r])
      /\ UNCHANGED <<stamp, disclosed, secret, sweeping, swept, epoch, consent, cutting, cut>>
  BY Parts, TokensOfRequests, NoneTombstoneAssumption DEF worldVars, Fit
<1>6. \A x : /\ Known(x) <=> Known(x)'
             /\ Family(x)' = Family(x) /\ GrantOf(x)' = GrantOf(x) /\ Root(x)' = Root(x)
  BY <1>4 DEF Known, Family, GrantOf, Root
<1>7. \A s \in Request : Rotated(req'[s]) => s # r /\ Rotated(req[s])
  BY <1>4 DEF Rotated
\* The family has no more tokens than before, and no fewer.
<1>8. \A x : FamilyDead(Family(x)) <=> FamilyDead(Family(x))'
  BY <1>4, <1>6 DEF FamilyDead
<1>9. Steady
  <2>1. ASSUME NEW x \in Token, Known(x)
        PROVE  /\ Spent(x) => Spent(x)'
               /\ Exchanged(x) => Exchanged(x)'
               /\ TakenBack(x) => TakenBack(x)'
               /\ InEvidence(x) => InEvidence(x)'
    <3>1. Spent(x) => Spent(x)'
      <4>. SUFFICES ASSUME Spent(x) PROVE Spent(x)'
        OBVIOUS
      <4>1. x # t /\ x \notin live'
        BY <1>1, <1>2, <1>4 DEF Spent
      <4>2. \A s \in Request : Rotated(req'[s]) => req'[s].token # x
        BY <1>4, <1>7 DEF Spent
      <4>. QED
        BY <4>1, <4>2 DEF Spent
    <3>2. InEvidence(x) => InEvidence(x)'
      BY <1>4, <1>5, <1>6 DEF InEvidence, TypeOK
    <3>3. Exchanged(x) => Exchanged(x)'
      BY <1>2, <1>4 DEF Exchanged
    <3>4. TakenBack(x) => TakenBack(x)'
      BY <1>1, <1>4 DEF TakenBack
    <3>. QED
      BY <3>1, <3>2, <3>3, <3>4
  <2>2. \A x \in Token : Known(x) => (Finished(x) => Finished(x)')
    BY <1>8, <2>1 DEF Finished
  <2>3. live' \subseteq Token /\ \A x \in live' \ live : x \in disclosed'
    BY <1>4, <1>5 DEF TypeOK
  <2>. QED
    BY <1>4, <1>5, <2>1, <2>2, <2>3 DEF Steady
<1>10. IInv'
  BY <1>2, Parts, RollbackKeeps
<1>11. ExchangeTypeOK'
  BY <1>4, <1>5, <1>10 DEF ExchangeTypeOK, IInv, RequestRecord
<1>12. DisclosedKnown'
  BY <1>5, <1>6, Parts DEF DisclosedKnown
<1>13. Requests'
  <2>1. ASSUME NEW s \in Request \ {r} PROVE Fit(req[s])'
    BY <1>4, <1>9, StandingFit
  <2>2. PICK q : q = req'[r]
    OBVIOUS
  <2>3. Fit(q)'
    <3>1. Controlled(q)'
      BY <1>2, <1>4, <1>5, <2>2, LateRequest DEF Controlled, Early, Late
    <3>2. Scoped(q)' /\ Alarmed(q)' /\ StampsRead(q)' /\ Witnessed(q)'
      BY <1>4, <2>2 DEF Scoped, Alarmed, StampsRead, Witnessed, Rotated
    <3>3. Owes(q)'
      BY <1>4, <2>2 DEF Owes
    <3>. QED
      BY <3>1, <3>2, <3>3 DEF Fit
  <2>. QED
    BY <2>1, <2>2, <2>3 DEF Requests
<1>14. Successors'
  <2>1. \A s \in Request : req'[s].next = req[s].next /\ req'[s].token = req[s].token
                           /\ (s = r \/ req'[s].result = req[s].result)
    BY <1>2, <1>4
  <2>. QED
    BY <1>2, <1>4, <1>5, <2>1, Parts DEF Successors, Known
<1>15. Once'
  <2>. SUFFICES ASSUME NEW s \in Request, Rotated(req'[s])
                PROVE  /\ req'[s].token \notin live' /\ ~Reached(req[s].token)'
                       /\ \A x \in Request : Rotated(req'[x]) /\ req'[x].token = req'[s].token => x = s
    BY DEF Once
  <2>1. PICK x : x = req[s].token /\ x = req'[s].token
    BY <1>4, <1>7
  <2>2. x \in Token /\ Known(x) /\ x \notin live /\ ~Reached(x) /\ Rotated(req[s]) /\ s # r
    BY <1>7, <2>1, TokensOfRequests, Parts DEF Rotated, Once
  <2>3. x # t
    BY <1>1, <1>2, <2>1, <2>2, Parts DEF Once
  <2>4. ~Reached(x)' /\ x \notin live'
    BY <1>4, <2>2, <2>3
  <2>. QED
    BY <1>4, <1>7, <2>1, <2>2, <2>4, Parts DEF Once
<1>16. Tombs'
  <2>. SUFFICES ASSUME NEW x \in Token, tomb'[x] # None
                PROVE  /\ Known(x)' /\ Scope(x, tomb[x].family)'
                       /\ tomb'[x].state = "Consumed" => Exchanged(x)' \/ TakenBack(x)'
    BY DEF Tombs
  <2>1. CASE x = new
    <3>1. tomb'[new].family = Family(new) /\ Family(new)' = Family(new)
      BY <1>4, <1>5, <1>6 DEF Dead, TypeOK
    <3>2. Scope(new, tomb[new].family)'
      BY <3>1 DEF Scope
    <3>3. TakenBack(new)'
      BY <1>4 DEF TakenBack
    <3>. QED
      BY <1>4, <1>6, <2>1, <3>2, <3>3
  <2>2. CASE x # new
    <3>1. tomb'[x] = tomb[x]
      BY <1>4, <1>5, <2>2 DEF TypeOK
    <3>. QED
      BY <1>9, <3>1, StandingTomb
  <2>. QED
    BY <2>1, <2>2
<1>17. Stamps'
  BY <1>4, <1>5, Parts DEF Stamps, Known, Root, Family, GrantOf
<1>18. Cuts'
  <2>. SUFFICES ASSUME ~May("cleanup"), ~May("crash"), NEW s \in live'
                PROVE  GrantOf(s)' \in cutting \/ stamp[Root(s)'].consent > cut[GrantOf(s)']
    BY <1>5, Parts DEF Cuts
  <2>1. Root(t) = Root(new)
    BY <1>4 DEF Root
  <2>. QED
    BY <1>4, <1>6, <2>1, Parts DEF Cuts
<1>19. Sweeps'
  <2>. SUFFICES ASSUME NEW s \in live'
                PROVE  stamp[Root(s)'].secret >= swept[GrantOf(s)'.client]
    BY <1>5, Parts DEF Sweeps
  <2>1. Root(t) = Root(new)
    BY <1>4 DEF Root
  <2>. QED
    BY <1>4, <1>6, <2>1, Parts DEF Sweeps
<1>20. Holdings'
  <2>. SUFFICES ASSUME ~May("expiry"), ~May("cleanup"), ~May("crash"), NEW x \in disclosed
                PROVE  Family(x)' \in epitaph' \/ SweptAway(x)' \/ ~FamilyDead(Family(x))'
    BY <1>5 DEF Holdings
  <2>1. SweptAway(x) => SweptAway(x)'
    BY <1>5, <1>6 DEF SweptAway
  <2>. QED
    BY <1>4, <1>6, <1>8, <2>1, Parts DEF Holdings
<1>21. NoOrphan'
  <2>. SUFFICES ASSUME NEW x \in live', x \notin disclosed
                PROVE  \E s \in Request : req'[s].next = x /\ Responsible(s)'
    BY <1>5 DEF NoOrphan
  <2>1. x \in live /\ x # new
    BY <1>4
  <2>2. PICK s \in Request : req[s].next = x /\ Responsible(s)
    BY <2>1, Parts DEF NoOrphan
  <2>. QED
    BY <1>2, <1>4, <2>1, <2>2 DEF Responsible
<1>22. Evident'
  <2>. SUFFICES ASSUME ~May("expiry"), NEW x \in Token, Known(x)', x \notin live'
                PROVE  InEvidence(x)' \/ Finished(x)'
    BY DEF Evident
  <2>1. CASE x = new
    BY <1>4, <1>5, <1>6, <2>1 DEF InEvidence, TypeOK
  <2>2. CASE x # new
    <3>1. Known(x) /\ x \notin live
      BY <1>4, <1>6, <2>2
    <3>. QED
      BY <1>9, <3>1, Parts DEF Evident, Steady
  <2>. QED
    BY <2>1, <2>2
<1>. QED
  BY <1>10, <1>11, <1>12, <1>13, <1>14, <1>15, <1>16, <1>17, <1>18, <1>19, <1>20, <1>21, <1>22
     DEF EInv

LEMMA RollBackKeeps ==
    ASSUME EInv, NEW r \in Request, RollBack(r)
    PROVE  EInv'
<1>1. /\ req[r].pc = "rollback" /\ req[r].pc \in Late
      /\ UNCHANGED <<stamp, disclosed, worldVars>>
  BY DEF RollBack, At, Late
<1>2. /\ req[r].result = "none" /\ req[r].pc \notin {"idle", "done"}
      /\ Family(req[r].token) = Family(req[r].next)
  BY <1>1, LateRequest
<1>3. CASE \E result \in {"restored", "unavailable"} :
             /\ Rollback(req[r].next) /\ Finish(r, result)
             /\ result = "unavailable" => May("redis")
  BY <1>1, <1>3, RestorationKeeps
<1>4. CASE UNCHANGED vars /\ May("redis") /\ Finish(r, "unavailable")
  <2>1. NoStoreChange
    BY <1>1, <1>4 DEF NoStoreChange
  <2>. QED
    BY <1>1, <1>2, <1>4, <2>1, AnswersWith DEF Result
<1>5. CASE /\ RotationOutcome(req[r].next, record[req[r].token]) # "Rotated"
           /\ UNCHANGED vars /\ Finish(r, "notRestorable")
  <2>1. NoStoreChange
    BY <1>1, <1>5 DEF NoStoreChange
  <2>2. req[r].next \notin live
    BY <1>2, <1>5, Parts DEF RotationOutcome, Family, IInv, RevokedFamilyHasNoLive
  <2>. QED
    BY <1>1, <1>2, <1>5, <2>1, <2>2, AnswersWith DEF Result
<1>. QED
  BY <1>3, <1>4, <1>5 DEF RollBack, Call

-----------------------------------------------------------------------------
(* EInv is inductive. *)

LEMMA InitEInv == ExchangeInit => EInv
<1>. SUFFICES ASSUME ExchangeInit PROVE EInv
  OBVIOUS
<1>1. /\ record = [t \in Token |-> None] /\ live = {} /\ tomb = [t \in Token |-> None]
      /\ disclosed = {} /\ req = [r \in Request |-> Idle]
      /\ stamp = [t \in Token |-> [secret |-> 0, epoch |-> 0, consent |-> 0]]
      /\ secret = [c \in Client |-> 1] /\ sweeping = {} /\ swept = [c \in Client |-> 0]
      /\ epoch = [u \in User |-> 1] /\ cutting = {} /\ cut = [g \in Grant |-> 0]
      /\ consent = [g \in Grant |-> [version |-> 1, revoked |-> FALSE]]
  BY DEF ExchangeInit, Init
<1>2. IInv
  BY InitIInv DEF ExchangeInit
<1>3. MaxSecret \in Nat \ {0} /\ MaxEpoch \in Nat \ {0} /\ MaxConsent \in Nat \ {0}
  BY IdleTyped
<1>4. ExchangeTypeOK
  <2>1. req \in [Request -> RequestRecord]
    BY <1>1, IdleTyped
  <2>. QED
    BY <1>1, <1>2, <1>3, <2>1 DEF ExchangeTypeOK, RequestRecord, IInv
<1>5. Requests
  <2>1. Fit(Idle)
    BY <1>1 DEF Fit, Controlled, Scoped, Alarmed, StampsRead, Witnessed, Owes, Rotated,
                Idle, Early, Late
  <2>. QED
    BY <1>1, <2>1 DEF Requests
<1>6. Successors /\ Once
  <2>1. Idle.next = None
    BY DEF Idle
  <2>. QED
    BY <1>1, <2>1 DEF Successors, Once, Rotated
<1>7. DisclosedKnown /\ Tombs /\ Evident /\ Stamps /\ Holdings /\ NoOrphan
  BY <1>1 DEF DisclosedKnown, Tombs, Evident, Stamps, Holdings, NoOrphan, Known
<1>8. Cuts /\ Sweeps
  BY <1>1 DEF Cuts, Sweeps
<1>. QED
  BY <1>2, <1>4, <1>5, <1>6, <1>7, <1>8 DEF EInv

LEMMA StandsStill ==
    ASSUME EInv, UNCHANGED exchangeVars
    PROVE  EInv'
<1>. USE DEF Known, Family, GrantOf, Root
<1>1. /\ NoStoreChange /\ req' = req
      /\ UNCHANGED <<record, live, tomb, indices, epitaph>>
      /\ UNCHANGED <<stamp, disclosed, secret, sweeping, swept, epoch, consent, cutting, cut>>
  BY DEF exchangeVars, NoStoreChange, vars, worldVars
<1>2. IInv'
  BY <1>1, Parts, StoreStill DEF NoStoreChange
<1>3. Quiet /\ TombsHold
  BY <1>1 DEF Quiet, Moving, TombsHold, indices, Reached
<1>4. req' \in [Request -> RequestRecord]
  BY <1>1, Parts DEF ExchangeTypeOK, RequestRecord
<1>5. Cuts' /\ cutting' \subseteq Grant
  BY <1>1, Parts DEF Cuts, ExchangeTypeOK
<1>. QED
  BY <1>1, <1>2, <1>3, <1>4, <1>5, StoreShrinks

LEMMA NextEInv == EInv /\ [ExchangeNext]_exchangeVars => EInv'
<1>. SUFFICES ASSUME EInv, [ExchangeNext]_exchangeVars PROVE EInv'
  OBVIOUS
<1>1. ASSUME NEW r \in Request, Step(r) \/ GiveUp(r) \/ Crash(r) \/ LoseGuard(r)
      PROVE  EInv'
  BY <1>1, FindKeeps, GateKeeps, CheckEpochKeeps, FenceKeeps, RotateIfMatchesKeeps,
     ReleaseKeeps, ConfirmsKeep, AuditKeeps, RollBackKeeps, ReadTombstoneKeeps,
     FindRevocableKeeps, RevokeByScopeKeeps, GiveUpKeeps, CrashKeeps, LoseGuardKeeps
     DEF Step
<1>2. ASSUME NEW r \in Request, NEW kind \in {"exchange", "revocation"},
             NEW c \in Client, NEW t \in Token, Start(r, kind, c, t)
      PROVE  EInv'
  BY <1>2, StartKeeps
<1>3. ASSUME World PROVE EInv'
  BY <1>3, ReachTTLKeeps, IssueGrantKeeps, RevokeConsentKeeps, CutGrantKeeps, EndCutKeeps,
     GrantConsentKeeps, RotateSecretKeeps, SweepClientKeeps, EndSweepKeeps, BumpEpochKeeps
     DEF World
<1>4. CASE UNCHANGED exchangeVars
  BY <1>4, StandsStill
<1>. QED
  BY <1>1, <1>2, <1>3, <1>4 DEF ExchangeNext

-----------------------------------------------------------------------------
(* Every step of the requests and of the world is a step of the store. *)

LEMMA RequestStepsOfTheStore ==
    ASSUME EInv, NEW r \in Request, Step(r) \/ GiveUp(r) \/ Crash(r) \/ LoseGuard(r)
    PROVE  [Next]_vars
<1>1. CASE NoStoreChange \/ Audit(r)
  BY <1>1 DEF NoStoreChange, Audit
<1>2. CASE RotateIfMatches(r)
  <2>1. req[r].token \in Token
    BY <1>2, EarlyRequest DEF RotateIfMatches, At, Early
  <2>2. UNCHANGED vars \/ \E new \in Token : Rotate(req[r].token, new)
    BY <1>2 DEF RotateIfMatches
  <2>. QED
    BY <2>1, <2>2 DEF Next
<1>3. CASE RollBack(r)
  <2>1. req[r].next \in Token
    BY <1>3, LateRequest DEF RollBack, At, Late
  <2>2. UNCHANGED vars \/ Rollback(req[r].next)
    BY <1>3 DEF RollBack, Call
  <2>. QED
    BY <2>1, <2>2 DEF Next
<1>4. CASE RevokeByScope(r)
  <2>. DEFINE state == IF req[r].kind = "exchange" THEN "FamilyRevoked" ELSE "ExplicitRevoke"
  <2>1. \/ UNCHANGED vars
        \/ /\ req[r].scope \notin epitaph
           /\ RevokeFamily(req[r].scope, GrantOf(req[r].token), req[r].token, state)
    BY <1>4 DEF RevokeByScope, Call
  <2>2. req[r].pc = "revoke"
    BY <1>4 DEF RevokeByScope, At
  <2>. QED
    BY <2>1, <2>2, ScopedRevocation DEF Next
<1>. QED
  BY <1>1, <1>2, <1>3, <1>4
     DEF Step, GiveUp, Crash, LoseGuard, Find, Gate, CheckEpoch, Fence, Release,
         ConfirmEpoch, ConfirmConsent, ReadTombstone, FindRevocable

LEMMA StepsOfTheStore ==
    ASSUME EInv, [ExchangeNext]_exchangeVars
    PROVE  [Next]_vars
<1>1. CASE \E r \in Request : Step(r) \/ GiveUp(r) \/ Crash(r) \/ LoseGuard(r)
  BY <1>1, RequestStepsOfTheStore
<1>2. CASE \E r \in Request, kind \in {"exchange", "revocation"}, c \in Client, t \in Token :
             Start(r, kind, c, t)
  BY <1>2 DEF Start, NoStoreChange
<1>3. CASE World
  BY <1>3 DEF World, ReachTTL, IssueGrant, RevokeConsent, CutGrant, EndCut, GrantConsent,
              RotateSecret, SweepClient, EndSweep, BumpEpoch, Next
<1>4. CASE UNCHANGED exchangeVars
  BY <1>4 DEF exchangeVars
<1>. QED
  BY <1>1, <1>2, <1>3, <1>4 DEF ExchangeNext

-----------------------------------------------------------------------------
(* The theorems. *)

\* EInv holds in every reachable state: what each request knows and owes by its
\* place, and what the store says about the requests.
THEOREM ExchangeInvariance == ExchangeSpec => []EInv
<1>1. ExchangeInit => EInv
  BY InitEInv
<1>2. EInv /\ [ExchangeNext]_exchangeVars => EInv'
  BY NextEInv
<1>. QED
  BY <1>1, <1>2, PTL DEF ExchangeSpec

\* The state of the requests, the versions and the store is well-formed.
THEOREM ExchangeTypeCorrect == ExchangeSpec => []ExchangeTypeOK
<1>1. EInv => ExchangeTypeOK
  BY DEF EInv
<1>. QED
  BY <1>1, ExchangeInvariance, PTL

\* A token buys one successor at most, under any faults.
THEOREM SingleUseHolds == ExchangeSpec => []SingleUse
<1>1. ASSUME EInv PROVE SingleUse
  <2>1. \A r \in Request : req[r].result = "ok" => Rotated(req[r])
    BY <1>1, TokensOfRequests DEF Rotated, Fit, Controlled
  <2>. QED
    BY <1>1, <2>1, Parts DEF SingleUse, Exchanges, Once
<1>. QED
  BY <1>1, ExchangeInvariance, PTL

\* No successor stays in the store that nobody received or answers for, under
\* any faults.
THEOREM NoOrphanHolds == ExchangeSpec => []NoOrphan
<1>1. EInv => NoOrphan
  BY DEF EInv
<1>. QED
  BY <1>1, ExchangeInvariance, PTL

\* Unless keys expire, a clean-up fails or a process dies, a client keeps a
\* token of every family that was not revoked, whatever else goes wrong.
THEOREM ClientKeepsATokenHolds ==
    ASSUME ~May("expiry"), ~May("cleanup"), ~May("crash")
    PROVE  ExchangeSpec => []ClientKeepsAToken
<1>1. ASSUME EInv PROVE ClientKeepsAToken
  BY <1>1, Parts DEF Holdings, ClientKeepsAToken, FamilyDead, NoOrphan
<1>. QED
  BY <1>1, ExchangeInvariance, PTL

\* As long as tombstones last, the second presentation of a token that bought a
\* successor ends its family, in every interleaving.
THEOREM ReuseIsDetectedHolds ==
    ASSUME ~May("expiry")
    PROVE  ExchangeSpec => []ReuseIsDetected
<1>1. ASSUME EInv PROVE ReuseIsDetected
  <2>. SUFFICES ASSUME NEW r \in Exchanges("ok"), NEW s \in Exchanges("invalid"),
                       req[r].token = req[s].token,
                       req[s].client = GrantOf(req[s].token).client
                PROVE  Family(req[s].token) \in epitaph
    BY DEF ReuseIsDetected
  <2>1. Rotated(req[r]) /\ r \in Request /\ s \in Request
    BY <1>1, TokensOfRequests DEF Exchanges, Rotated, Fit, Controlled
  <2>2. Witnessed(req[s])
    BY <1>1, <2>1, TokensOfRequests DEF Fit
  <2>. QED
    BY <2>1, <2>2 DEF Witnessed, Exchanges, Finished, Spent
<1>. QED
  BY <1>1, ExchangeInvariance, PTL

\* As long as tombstones last, a client that is turned away with a token of its
\* own leaves no token of the family alive, a successor that a lost reply or a
\* dead process kept from it included, under any other faults.
THEOREM NothingOutlivesARefusalHolds ==
    ASSUME ~May("expiry")
    PROVE  ExchangeSpec => []NothingOutlivesARefusal
<1>1. ASSUME EInv PROVE NothingOutlivesARefusal
  <2>. SUFFICES ASSUME NEW r \in Exchanges("invalid") \cup Exchanges("revoked"),
                       req[r].client = GrantOf(req[r].token).client,
                       NEW t \in live
                PROVE  Family(t) # Family(req[r].token)
    BY DEF NothingOutlivesARefusal
  <2>1. Witnessed(req[r])
    BY <1>1, TokensOfRequests DEF Fit, Exchanges
  <2>2. Family(req[r].token) \in epitaph \/ Finished(req[r].token)
    BY <2>1 DEF Witnessed, Exchanges
  <2>3. Family(t) \notin epitaph
    BY <1>1, Parts DEF IInv, RevokedFamilyHasNoLive
  <2>. QED
    BY <2>2, <2>3 DEF Finished, FamilyDead
<1>. QED
  BY <1>1, ExchangeInvariance, PTL

\* Only a token that another request did rotate raises an alarm, under any
\* faults.
THEOREM NoFalseAlarmHolds == ExchangeSpec => []NoFalseAlarm
<1>1. ASSUME EInv PROVE NoFalseAlarm
  <2>. SUFFICES ASSUME NEW r \in Exchanges("revoked")
                PROVE  \E s \in Request \ {r} :
                          req[s].token = req[r].token /\ req[s].next # None
    BY DEF NoFalseAlarm
  <2>1. Exchanged(req[r].token) /\ req[r].next = None
    BY <1>1, TokensOfRequests DEF Exchanges, Fit, Alarmed, Controlled
  <2>. QED
    BY <2>1 DEF Exchanged
<1>. QED
  BY <1>1, ExchangeInvariance, PTL

\* Unless the clean-up fails or its process dies, no token from before a
\* disconnection is alive in a client's hands once revoke_grant_tokens has run
\* to its end.
THEOREM DisconnectIsCompleteHolds ==
    ASSUME ~May("cleanup"), ~May("crash")
    PROVE  ExchangeSpec => []DisconnectIsComplete
<1>1. ASSUME EInv PROVE DisconnectIsComplete
  <2>. SUFFICES ASSUME NEW t \in live, GrantOf(t) \notin cutting
                PROVE  stamp[t].consent > cut[GrantOf(t)]
    BY DEF DisconnectIsComplete
  <2>1. t \in Token /\ Known(t)
    BY <1>1, Parts, LiveKnown
  <2>2. /\ stamp[t].consent >= stamp[Root(t)].consent
        /\ stamp[Root(t)].consent > cut[GrantOf(t)]
    BY <1>1, <2>1, Parts DEF Cuts, Stamps
  <2>3. Root(t) \in Token /\ GrantOf(t) \in Grant
    BY <1>1, <2>1, RootStamps
  <2>4. stamp[t].consent \in Nat /\ stamp[Root(t)].consent \in Nat /\ cut[GrantOf(t)] \in Nat
    BY <1>1, <2>1, <2>3, Parts, IdleTyped DEF ExchangeTypeOK
  <2>. QED
    BY <2>2, <2>4
<1>. QED
  BY <1>1, ExchangeInvariance, PTL

\* When a sweep has run to its end, no token from before it is alive in a
\* client's hands, under any faults.
THEOREM SweepIsCompleteHolds == ExchangeSpec => []SweepIsComplete
<1>1. ASSUME EInv PROVE SweepIsComplete
  <2>. SUFFICES ASSUME NEW t \in live
                PROVE  stamp[t].secret >= swept[GrantOf(t).client]
    BY DEF SweepIsComplete
  <2>1. t \in Token /\ Known(t)
    BY <1>1, Parts, LiveKnown
  <2>. QED
    BY <1>1, <2>1, Parts DEF Sweeps, Stamps
<1>. QED
  BY <1>1, ExchangeInvariance, PTL

\* Rotation does not launder a token: one that passes the checks of secret
\* version and epoch comes from a family opened under both.
THEOREM NoLaunderingHolds == ExchangeSpec => []NoLaundering
<1>1. ASSUME EInv PROVE NoLaundering
  <2>1. \A t \in live : t \in Token /\ Known(t)
    BY <1>1, Parts, LiveKnown
  <2>. QED
    BY <1>1, <2>1, Parts DEF Stamps, Root, NoLaundering
<1>. QED
  BY <1>1, ExchangeInvariance, PTL

\* The requests and the world use the store by its scripts only: every
\* behaviour is one of RefreshStore, whose theorems hold here too.
THEOREM StoreImplemented == ExchangeSpec => ImplementsStore
<1>1. ExchangeInit => Init
  BY DEF ExchangeInit
<1>2. EInv /\ [ExchangeNext]_exchangeVars => [Next]_vars
  BY StepsOfTheStore
<1>. QED
  BY <1>1, <1>2, ExchangeInvariance, PTL DEF ExchangeSpec, ImplementsStore, Spec

=============================================================================
