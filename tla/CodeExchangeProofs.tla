------------------------- MODULE CodeExchangeProofs -------------------------
(***************************************************************************)
(* What holds for any codes, requests and workers and any limits.          *)
(*                                                                         *)
(* Whatever subset of the faults may happen, Held is an inductive          *)
(* invariant of CodeExchange, so a code gives one grant and is redeemed    *)
(* once; and so is AllCovered, so no exchange slips through a              *)
(* disconnection or a rotation.                                            *)
(*                                                                         *)
(* As long as Redis answers and processes live (Reliable), so is           *)
(* Accounted: the counter of the month is the number of codes that own a   *)
(* unit of it, and what a code has of its quota - the claim, or the use -  *)
(* is the business of the one request or worker that is at it.             *)
(***************************************************************************)
EXTENDS CodeExchange, FiniteSetTheorems, TLAPS

LEMMA Bounds == MaxSecret \in Nat \ {0} /\ MaxConsent \in Nat \ {0}
BY BoundAssumption

LEMMA IdleAttempt ==
    /\ Idle \in Attempt
    /\ Idle.pc = "idle" /\ Idle.code = None /\ Idle.result = "none"
BY Bounds DEF Idle, Attempt, Place, Reason, Result

-----------------------------------------------------------------------------
(* Steps that hand no code over. *)

\* What a step that leaves the requests and their tokens alone has to respect.
LEMMA Aside ==
    ASSUME Held, ControlTypeOK', UNCHANGED <<req, token>>,
           \A c \in stored' : c \in stored \/ issue[c] # "issued",
           \A c \in Code : issue[c] = "issued" => issue'[c] = "issued"
    PROVE  Held'
<1>1. ASSUME NEW r \in Request, NEW c \in Code
      PROVE  Holds(r, c)' <=> Holds(r, c)
  BY DEF Holds
<1>2. \A r \in Request, c \in Code : Holds(r, c) => issue[c] = "issued"
  BY NoneAssumption DEF Held, RequestSound, Holds
<1>3. CodeIsHeldOnce'
  BY <1>1, <1>2 DEF Held, CodeIsHeldOnce
<1>4. ASSUME NEW r \in Request PROVE RequestSound(r)'
  BY DEF Held, ControlTypeOK, Attempt, RequestSound
<1>. QED
  BY <1>3, <1>4 DEF Held

\* And a step of one request that takes no code out of Redis and puts none back.
LEMMA Alone ==
    ASSUME Held, ControlTypeOK', NEW r \in Request, UNCHANGED <<stored, issue>>,
           \A s \in Request \ {r} : req'[s] = req[s] /\ token'[s] = token[s],
           RequestSound(r)',
           \A c \in Code : Holds(r, c)' => Holds(r, c)
    PROVE  Held'
<1>1. ASSUME NEW s \in Request, NEW c \in Code, Holds(s, c)'
      PROVE  Holds(s, c)
  BY <1>1 DEF Holds
<1>2. CodeIsHeldOnce'
  BY <1>1 DEF Held, CodeIsHeldOnce
<1>3. ASSUME NEW s \in Request PROVE RequestSound(s)'
  BY DEF Held, RequestSound
<1>. QED
  BY <1>2, <1>3 DEF Held

-----------------------------------------------------------------------------
(* Issuing, the worker and the world. *)

LEMMA IssueKeeps ==
    ASSUME Held, NEW c \in Code, Issue(c)
    PROVE  Held'
<1>. USE DEF Issuing, NoRequest, Call, redisVars, worldVars, IssuePlace
<1>1. /\ UNCHANGED <<expired, req, worker, worldVars, token>>
      /\ issue' \in [Code -> IssuePlace]
      /\ issue[c] # "issued"
      /\ \A d \in Code \ {c} : issue'[d] = issue[d]
      /\ stored' \subseteq stored \cup {c}
  <2>0. issue \in [Code -> IssuePlace]
    BY DEF Held, ControlTypeOK
  <2>1. CASE TakeQuota(c)
    BY <2>0, <2>1 DEF TakeQuota
  <2>2. CASE ScheduleRefund(c)
    BY <2>0, <2>2 DEF ScheduleRefund
  <2>3. CASE SaveCode(c)
    BY <2>0, <2>3 DEF SaveCode
  <2>4. CASE AuditCode(c)
    BY <2>0, <2>4 DEF AuditCode
  <2>5. CASE TakeBackCode(c)
    BY <2>0, <2>5 DEF TakeBackCode
  <2>6. CASE RefundCode(c)
    BY <2>0, <2>6 DEF RefundCode
  <2>. QED
    BY <2>1, <2>2, <2>3, <2>4, <2>5, <2>6 DEF Issue
<1>2. ControlTypeOK'
  BY <1>1 DEF Held, ControlTypeOK
<1>. QED
  BY <1>1, <1>2, Aside

LEMMA WorkKeeps ==
    ASSUME Held, NEW w \in Worker, Work(w)
    PROVE  Held'
<1>. USE DEF Working, NoProcess, NoRedis, Call, redisVars, worldVars
<1>0. /\ worker \in [Worker -> [pc : {"scan", "record", "refund", "drop"},
                                code : Code \cup {None}]]
      /\ worker[w].code \in Code \cup {None}
  BY DEF Held, ControlTypeOK
<1>1. /\ UNCHANGED <<expired, issue, req, worldVars, stored, token>>
      /\ \E pc \in {"scan", "record", "refund", "drop"}, c \in Code \cup {None} :
            worker' = [worker EXCEPT ![w] = [pc |-> pc, code |-> c]]
  <2>1. CASE Scan(w)
    BY <2>1 DEF Scan
  <2>2. CASE ReadRecord(w)
    BY <1>0, <2>2 DEF ReadRecord
  <2>3. CASE RefundDue(w)
    BY <1>0, <2>3 DEF RefundDue
  <2>4. CASE Drop(w)
    BY <1>0, <2>4 DEF Drop
  <2>. QED
    BY <2>1, <2>2, <2>3, <2>4 DEF Work
<1>2. ControlTypeOK'
  BY <1>0, <1>1 DEF Held, ControlTypeOK
<1>. QED
  BY <1>1, <1>2, Aside

LEMMA DeleteKeeps ==
    ASSUME Held, NEW r \in Request, Delete(r)
    PROVE  Held'
<1>. USE DEF Delete, NoStep, worldVars
<1>1. ControlTypeOK'
  BY DEF Held, ControlTypeOK
<1>2. /\ \A s \in Request \ {r} : req'[s] = req[s] /\ token'[s] = token[s]
      /\ token'[r] = "gone"
  BY DEF Held, ControlTypeOK
<1>3. RequestSound(r)'
  BY <1>2 DEF Held, RequestSound
<1>4. \A c \in Code : Holds(r, c)' => Holds(r, c)
  BY <1>2 DEF Holds
<1>. QED
  BY <1>1, <1>2, <1>3, <1>4, Alone

LEMMA WorldKeeps ==
    ASSUME Held, World
    PROVE  Held'
<1>. USE DEF NoStep, redisVars, worldVars
<1>1. CASE \E c \in Code : Expire(c) \/ KeyExpires(c)
  <2>1. ControlTypeOK' /\ UNCHANGED <<req, token, issue>> /\ stored' \subseteq stored
    BY <1>1 DEF Held, ControlTypeOK, Expire, KeyExpires
  <2>. QED
    BY <2>1, Aside
<1>2. CASE \E r \in Request : Delete(r)
  BY <1>2, DeleteKeeps
<1>3. CASE NextDay \/ Logout
  <2>1. ControlTypeOK' /\ UNCHANGED <<req, token, issue, stored>>
    BY <1>3 DEF Held, ControlTypeOK, NextDay, Logout
  <2>. QED
    BY <2>1, Aside
<1>4. CASE RevokeConsent \/ GrantConsent
  <2>1. MaxConsent \in Nat /\ consent.version \in 1..MaxConsent
    BY Bounds DEF Held, ControlTypeOK
  <2>2. UNCHANGED <<req, token, issue, stored>>
    BY <1>4 DEF RevokeConsent, GrantConsent
  <2>3. ControlTypeOK'
    <3>1. consent' \in [version : 1..MaxConsent, revoked : BOOLEAN]
      <4>1. consent.version < MaxConsent
        BY <1>4 DEF RevokeConsent, GrantConsent
      <4>2. consent.version + 1 \in 1..MaxConsent
        BY <2>1, <4>1
      <4>3. \E b \in BOOLEAN : consent' = [version |-> consent.version + 1, revoked |-> b]
        BY <1>4 DEF RevokeConsent, GrantConsent
      <4>. QED
        BY <4>2, <4>3
    <3>2. cut' \in 0..MaxConsent
      BY <1>4, <2>1 DEF Held, ControlTypeOK, RevokeConsent, GrantConsent
    <3>3. cutting' \in BOOLEAN
      BY <1>4 DEF Held, ControlTypeOK, RevokeConsent, GrantConsent
    <3>4. /\ UNCHANGED <<stored, expired, token, issue, req, worker>>
          /\ UNCHANGED <<session, secret, swept, sweeping>>
      BY <1>4 DEF RevokeConsent, GrantConsent
    <3>. QED
      BY <3>1, <3>2, <3>3, <3>4 DEF Held, ControlTypeOK
  <2>. QED
    BY <2>2, <2>3, Aside
<1>5. CASE RotateSecret \/ EndCut \/ EndSweep
  <2>1. UNCHANGED <<req, token, issue, stored>>
    BY <1>5 DEF RotateSecret, EndCut, EndSweep
  <2>2. ControlTypeOK'
    <3>1. secret' \in 1..MaxSecret /\ swept' \in 0..MaxSecret
      BY <1>5, Bounds DEF Held, ControlTypeOK, RotateSecret, EndCut, EndSweep
    <3>2. sweeping' \in BOOLEAN /\ cutting' \in BOOLEAN
      BY <1>5 DEF Held, ControlTypeOK, RotateSecret, EndCut, EndSweep
    <3>3. /\ UNCHANGED <<stored, expired, token, issue, req, worker>>
          /\ UNCHANGED <<session, consent, cut>>
      BY <1>5 DEF RotateSecret, EndCut, EndSweep
    <3>. QED
      BY <3>1, <3>2, <3>3 DEF Held, ControlTypeOK
  <2>. QED
    BY <2>1, <2>2, Aside
<1>. QED
  BY <1>1, <1>2, <1>3, <1>4, <1>5 DEF World

-----------------------------------------------------------------------------
(* What the steps of a request do to its record. *)

LEMMA GotoMoves ==
    ASSUME Held, NEW r \in Request, NEW place \in Place, Goto(r, place)
    PROVE  /\ req' \in [Request -> Attempt]
           /\ \A s \in Request \ {r} : req'[s] = req[s]
           /\ req'[r].pc = place
           /\ req'[r].code = req[r].code
           /\ req'[r].result = req[r].result
BY DEF Held, ControlTypeOK, Attempt, Goto

LEMMA TakeBackMoves ==
    ASSUME Held, NEW r \in Request, NEW reason \in Reason, TakeBack(r, reason)
    PROVE  /\ req' \in [Request -> Attempt]
           /\ \A s \in Request \ {r} : req'[s] = req[s]
           /\ req'[r].pc = "remove"
           /\ req'[r].code = req[r].code
           /\ req'[r].result = req[r].result
<1>. DEFINE x == [req[r] EXCEPT !.pc = "remove", !.guard = "none", !.reason = reason]
<1>1. req \in [Request -> Attempt] /\ req[r] \in Attempt
  BY DEF Held, ControlTypeOK
<1>2. x \in Attempt /\ x.pc = "remove" /\ x.code = req[r].code /\ x.result = req[r].result
  BY <1>1 DEF Attempt, Place
<1>3. req' = [req EXCEPT ![r] = x]
  BY <1>1 DEF TakeBack
<1>. QED
  BY <1>1, <1>2, <1>3

LEMMA FinishMoves ==
    ASSUME Held, NEW r \in Request, NEW result \in Result, Finish(r, result)
    PROVE  /\ req' \in [Request -> Attempt]
           /\ \A s \in Request \ {r} : req'[s] = req[s]
           /\ req'[r].pc = "done"
           /\ req'[r].code = req[r].code
           /\ req'[r].result = result
<1>. DEFINE x == [req[r] EXCEPT !.pc = "done", !.guard = "none", !.reason = "none",
                                !.result = result]
<1>1. req \in [Request -> Attempt] /\ req[r] \in Attempt
  BY DEF Held, ControlTypeOK
<1>2. x \in Attempt /\ x.pc = "done" /\ x.code = req[r].code /\ x.result = result
  BY <1>1 DEF Attempt, Place, Reason
<1>3. req' = [req EXCEPT ![r] = x]
  BY <1>1 DEF Finish
<1>. QED
  BY <1>1, <1>2, <1>3

LEMMA RefuseMoves ==
    ASSUME Held, NEW r \in Request, Refuse(r)
    PROVE  /\ req' \in [Request -> Attempt]
           /\ \A s \in Request \ {r} : req'[s] = req[s]
           /\ req'[r].pc = "idle"
           /\ req'[r].code = None
           /\ req'[r].result = "none"
BY IdleAttempt DEF Held, ControlTypeOK, Refuse

\* A request goes on with the same code.
LEMMA OnKeeps ==
    ASSUME Held, NEW r \in Request, NoIssue, stored' = stored,
           req' \in [Request -> Attempt],
           token' \in [Request -> {"none", "live", "gone"}],
           \A s \in Request \ {r} : req'[s] = req[s] /\ token'[s] = token[s],
           req[r].pc # "idle", req'[r].pc # "idle",
           req'[r].code = req[r].code,
           req'[r].pc \in Tokenless => token'[r] # "live",
           req'[r].result # "none" => req'[r].pc = "done",
           req'[r].pc \in Holding \/ token'[r] = "live" \/ req'[r].result = "ok"
              => req[r].pc \in Holding \/ token[r] = "live" \/ req[r].result = "ok"
    PROVE  Held'
<1>1. ControlTypeOK'
  BY DEF Held, ControlTypeOK, NoIssue, worldVars
<1>2. RequestSound(r)'
  BY DEF Held, RequestSound, NoIssue
<1>3. \A c \in Code : Holds(r, c)' => Holds(r, c)
  BY DEF Holds
<1>. QED
  BY <1>1, <1>2, <1>3, Alone DEF NoIssue

\* A request that saved no token is refused.
LEMMA RefuseKeeps ==
    ASSUME Held, NEW r \in Request, NoIssue, stored' \subseteq stored, token' = token,
           token[r] # "live", Refuse(r)
    PROVE  Held'
<1>1. ControlTypeOK'
  BY RefuseMoves DEF Held, ControlTypeOK, NoIssue, worldVars
<1>2. RequestSound(r)'
  BY RefuseMoves DEF Held, RequestSound, NoIssue
<1>3. \A s \in Request, c \in Code : Holds(s, c)' => Holds(s, c)
  BY RefuseMoves, NoneAssumption DEF Holds
<1>4. CodeIsHeldOnce'
  BY <1>3 DEF Held, CodeIsHeldOnce
<1>5. ASSUME NEW s \in Request PROVE RequestSound(s)'
  BY <1>2, RefuseMoves DEF Held, RequestSound, NoIssue
<1>. QED
  BY <1>1, <1>4, <1>5 DEF Held

-----------------------------------------------------------------------------
(* The steps of a request. *)

LEMMA StartKeeps ==
    ASSUME Held, NEW r \in Request, NEW c \in Code, Start(r, c)
    PROVE  Held'
<1>. DEFINE x == [Idle EXCEPT !.pc = "find", !.code = c, !.secret = secret]
<1>1. /\ At(r, "idle") /\ issue[c] = "issued"
      /\ req' = [req EXCEPT ![r] = x]
      /\ UNCHANGED <<stored, token>> /\ NoIssue
  BY DEF Start, NoRedis, redisVars
<1>2. /\ x \in Attempt /\ x.pc = "find" /\ x.code = c /\ x.result = "none"
  <2>1. secret \in 0..MaxSecret
    BY Bounds DEF Held, ControlTypeOK
  <2>. QED
    BY <2>1, IdleAttempt DEF Attempt, Place
<1>3. /\ req' \in [Request -> Attempt] /\ req'[r] = x
      /\ \A s \in Request \ {r} : req'[s] = req[s]
  BY <1>1, <1>2 DEF Held, ControlTypeOK
<1>4. token[r] # "live"
  BY <1>1 DEF Held, RequestSound, At, Tokenless
<1>5. ControlTypeOK'
  BY <1>1, <1>3 DEF Held, ControlTypeOK, NoIssue, worldVars
<1>6. RequestSound(r)'
  BY <1>1, <1>2, <1>3, <1>4, NoneAssumption DEF RequestSound, NoIssue
<1>7. \A d \in Code : ~Holds(r, d)'
  BY <1>1, <1>2, <1>3, <1>4 DEF Holds, Holding
<1>. QED
  BY <1>1, <1>3, <1>5, <1>6, <1>7, Alone DEF NoIssue

\* The reads before the code is taken.
LEMMA ReadKeeps ==
    ASSUME Held, NEW r \in Request,
           Find(r) \/ CheckSession(r) \/ Gate(r) \/ Fence(r) \/ GiveUp(r)
    PROVE  Held'
<1>. DEFINE x == [req[r] EXCEPT !.pc = "fence", !.consent = consent.version]
            y == [req[r] EXCEPT !.pc = "take", !.guard = "held"]
<1>1. /\ UNCHANGED <<stored, token>> /\ NoIssue
      /\ req[r].pc \in {"find", "session", "gate", "fence"}
      /\ \/ Refuse(r) \/ Goto(r, "session") \/ Goto(r, "gate")
         \/ req' = [req EXCEPT ![r] = x] \/ req' = [req EXCEPT ![r] = y]
  BY DEF Held, ControlTypeOK, Attempt, Find, CheckSession, Gate, Fence, GiveUp, NoRedis, redisVars, At
<1>2. /\ token[r] # "live" /\ req[r].result = "none"
      /\ req[r] \in Attempt /\ req \in [Request -> Attempt]
      /\ token \in [Request -> {"none", "live", "gone"}]
      /\ consent.version \in 0..MaxConsent
  BY <1>1, Bounds DEF Held, RequestSound, Tokenless, ControlTypeOK
<1>3. CASE Refuse(r)
  BY <1>1, <1>2, <1>3, RefuseKeeps
<1>4. CASE ~Refuse(r)
  <2>1. /\ req' \in [Request -> Attempt]
        /\ \A s \in Request \ {r} : req'[s] = req[s]
        /\ req'[r].pc \in {"session", "gate", "fence", "take"}
        /\ req'[r].code = req[r].code
        /\ req'[r].result = "none"
    <3>1. CASE Goto(r, "session") \/ Goto(r, "gate")
      BY <1>2, <3>1, GotoMoves DEF Place
    <3>2. CASE req' = [req EXCEPT ![r] = x] \/ req' = [req EXCEPT ![r] = y]
      <4>1. x \in Attempt /\ y \in Attempt
        BY <1>2 DEF Attempt, Place
      <4>2. /\ x.pc = "fence" /\ x.code = req[r].code /\ x.result = "none"
            /\ y.pc = "take" /\ y.code = req[r].code /\ y.result = "none"
        BY <1>2 DEF Attempt
      <4>. QED
        BY <1>2, <3>2, <4>1, <4>2
    <3>. QED
      BY <1>1, <1>4, <3>1, <3>2
  <2>. QED
    BY <1>1, <1>2, <2>1, OnKeeps DEF Holding
<1>. QED
  BY <1>3, <1>4

\* The script takes the code out of Redis and gives it to one request.
LEMMA TakeCodeKeeps ==
    ASSUME Held, NEW r \in Request, TakeCode(r)
    PROVE  Held'
<1>. DEFINE c == req[r].code
<1>1. /\ req[r].pc = "take" /\ token[r] # "live" /\ req[r].result = "none"
      /\ UNCHANGED token /\ NoIssue
  BY DEF Held, RequestSound, Tokenless, TakeCode, Call, At, NoRedis, redisVars
<1>2. CASE Refuse(r)
  <2>1. stored' \subseteq stored
    BY DEF TakeCode, Call, redisVars, NoRedis
  <2>. QED
    BY <1>1, <1>2, <2>1, RefuseKeeps
<1>3. CASE ~Refuse(r)
  <2>1. c \in stored /\ stored' = stored \ {c} /\ Goto(r, "save")
    BY <1>3 DEF TakeCode, Call, Takeable
  <2>2. /\ req' \in [Request -> Attempt]
        /\ \A s \in Request \ {r} : req'[s] = req[s]
        /\ req'[r].pc = "save" /\ req'[r].code = c /\ req'[r].result = "none"
    BY <1>1, <2>1, GotoMoves DEF Place
  <2>3. ControlTypeOK'
    BY <1>1, <2>1, <2>2 DEF Held, ControlTypeOK, NoIssue, worldVars
  <2>4. \A s \in Request : ~Holds(s, c)
    BY <2>1 DEF Held, CodeIsHeldOnce, ControlTypeOK
  <2>5. /\ \A s \in Request \ {r}, d \in Code : Holds(s, d)' => Holds(s, d)
        /\ \A d \in Code : Holds(r, d)' => d = c
    BY <1>1, <2>2 DEF Holds
  <2>6. CodeIsHeldOnce'
    BY <2>1, <2>4, <2>5 DEF Held, CodeIsHeldOnce
  <2>7. ASSUME NEW s \in Request PROVE RequestSound(s)'
    BY <1>1, <2>2 DEF Held, RequestSound, NoIssue
  <2>. QED
    BY <2>3, <2>6, <2>7 DEF Held
<1>. QED
  BY <1>2, <1>3

LEMMA SaveKeeps ==
    ASSUME Held, NEW r \in Request, Save(r)
    PROVE  Held'
<1>1. /\ req[r].pc = "save" /\ req[r].result = "none"
      /\ UNCHANGED stored /\ NoIssue
      /\ token' \in [Request -> {"none", "live", "gone"}]
      /\ \A s \in Request \ {r} : token'[s] = token[s]
      /\ Goto(r, "release") \/ TakeBack(r, "failed")
  BY DEF Held, ControlTypeOK, RequestSound, Save, Call, At, redisVars
<1>2. /\ req' \in [Request -> Attempt]
      /\ \A s \in Request \ {r} : req'[s] = req[s]
      /\ req'[r].pc \in {"release", "remove"}
      /\ req'[r].code = req[r].code /\ req'[r].result = "none"
  BY <1>1, GotoMoves, TakeBackMoves DEF Place, Reason
<1>. QED
  BY <1>1, <1>2, OnKeeps DEF Holding, Tokenless

\* From the saved token to the answer.
LEMMA AnswerKeeps ==
    ASSUME Held, NEW r \in Request, Release(r) \/ Confirm(r) \/ Publish(r) \/ Audit(r)
    PROVE  Held'
<1>. DEFINE x == [req[r] EXCEPT !.pc = "confirm", !.guard = "none"]
<1>1. /\ UNCHANGED <<stored, token>> /\ NoIssue
      /\ req[r].pc \in {"release", "confirm", "publish", "audit"}
      /\ \/ Goto(r, "publish") \/ Goto(r, "audit") \/ Finish(r, "ok")
         \/ \E reason \in Reason : TakeBack(r, reason)
         \/ req' = [req EXCEPT ![r] = x]
  BY DEF Held, ControlTypeOK, Attempt, Release, Confirm, Publish, Audit, NoRedis, redisVars, At, Reason
<1>2. /\ req[r].result = "none"
      /\ req[r] \in Attempt /\ req \in [Request -> Attempt]
      /\ token \in [Request -> {"none", "live", "gone"}]
  BY <1>1 DEF Held, RequestSound, ControlTypeOK
<1>3. /\ req' \in [Request -> Attempt]
      /\ \A s \in Request \ {r} : req'[s] = req[s]
      /\ req'[r].pc \in {"confirm", "publish", "audit", "remove", "done"}
      /\ req'[r].code = req[r].code
      /\ req'[r].result # "none" => req'[r].pc = "done"
  <2>1. CASE Goto(r, "publish") \/ Goto(r, "audit")
    BY <1>2, <2>1, GotoMoves DEF Place
  <2>2. CASE Finish(r, "ok") \/ \E reason \in Reason : TakeBack(r, reason)
    BY <1>2, <2>2, FinishMoves, TakeBackMoves DEF Result
  <2>3. CASE req' = [req EXCEPT ![r] = x]
    <3>1. x \in Attempt /\ x.pc = "confirm" /\ x.code = req[r].code /\ x.result = "none"
      BY <1>2 DEF Attempt, Place
    <3>. QED
      BY <1>2, <2>3, <3>1
  <2>. QED
    BY <1>1, <2>1, <2>2, <2>3
<1>. QED
  BY <1>1, <1>2, <1>3, OnKeeps DEF Holding, Tokenless

LEMMA RemoveKeeps ==
    ASSUME Held, NEW r \in Request, Remove(r)
    PROVE  Held'
<1>1. /\ req[r].pc = "remove" /\ req[r].result = "none"
      /\ UNCHANGED stored /\ NoIssue
      /\ token' \in [Request -> {"none", "live", "gone"}]
      /\ \A s \in Request \ {r} : token'[s] = token[s]
  BY DEF Held, ControlTypeOK, RequestSound, Remove, Call, At, redisVars
<1>2. \/ Goto(r, "restore") /\ token'[r] # "live"
      \/ Goto(r, "reschedule")
      \/ Finish(r, "withdrawn") \/ Finish(r, "failed")
  BY DEF Held, ControlTypeOK, Remove, Call, AfterFailedRemoval
<1>3. /\ req' \in [Request -> Attempt]
      /\ \A s \in Request \ {r} : req'[s] = req[s]
      /\ \/ req'[r].pc = "restore" /\ token'[r] # "live"
         \/ req'[r].pc \in {"reschedule", "done"}
      /\ req'[r].code = req[r].code
      /\ req'[r].result # "none" => req'[r].pc = "done"
  BY <1>1, <1>2, GotoMoves, FinishMoves DEF Place, Result
<1>. QED
  BY <1>1, <1>3, OnKeeps DEF Holding, Tokenless

\* The holder whose token is gone puts the code back and is the holder no more.
LEMMA RestoreCodeKeeps ==
    ASSUME Held, NEW r \in Request, RestoreCode(r)
    PROVE  Held'
<1>. DEFINE c == req[r].code
<1>1. /\ req[r].pc = "restore" /\ token[r] # "live" /\ req[r].result = "none"
      /\ UNCHANGED token /\ NoIssue
      /\ stored' \in {stored, stored \cup {c}}
      /\ Refuse(r) \/ Goto(r, "reschedule")
  BY DEF Held, RequestSound, Tokenless, RestoreCode, Call, At, redisVars
<1>2. c \in Code /\ issue[c] = "issued"
  BY <1>1 DEF Held, RequestSound, ControlTypeOK, Attempt
<1>3. /\ req' \in [Request -> Attempt]
      /\ \A s \in Request \ {r} : req'[s] = req[s]
      /\ \/ req'[r].pc = "idle" /\ req'[r].code = None
         \/ req'[r].pc = "reschedule" /\ req'[r].code = c
      /\ req'[r].result = "none"
  BY <1>1, RefuseMoves, GotoMoves DEF Place
<1>4. ControlTypeOK'
  BY <1>1, <1>2, <1>3 DEF Held, ControlTypeOK, NoIssue, worldVars
<1>5. \A s \in Request : Holds(s, c) => s = r
  BY <1>1, <1>2 DEF Held, CodeIsHeldOnce, Holds, Holding
<1>6. /\ \A s \in Request \ {r}, d \in Code : Holds(s, d)' => Holds(s, d)
      /\ \A d \in Code : ~Holds(r, d)'
  BY <1>1, <1>3 DEF Holds, Holding
<1>7. CodeIsHeldOnce'
  BY <1>1, <1>5, <1>6 DEF Held, CodeIsHeldOnce
<1>8. ASSUME NEW s \in Request PROVE RequestSound(s)'
  BY <1>1, <1>2, <1>3, NoneAssumption DEF Held, RequestSound, NoIssue
<1>. QED
  BY <1>4, <1>7, <1>8 DEF Held

LEMMA RescheduleKeeps ==
    ASSUME Held, NEW r \in Request, Reschedule(r)
    PROVE  Held'
<1>1. /\ req[r].pc = "reschedule" /\ UNCHANGED <<stored, token>> /\ NoIssue
      /\ Finish(r, "failed")
  BY DEF Reschedule, Call, At, redisVars
<1>2. /\ token \in [Request -> {"none", "live", "gone"}]
  BY DEF Held, ControlTypeOK
<1>3. /\ req' \in [Request -> Attempt]
      /\ \A s \in Request \ {r} : req'[s] = req[s]
      /\ req'[r].pc = "done" /\ req'[r].code = req[r].code /\ req'[r].result = "failed"
  BY <1>1, FinishMoves DEF Result
<1>. QED
  BY <1>1, <1>2, <1>3, OnKeeps DEF Holding, Tokenless

\* A process that dies leaves its token behind, and the code stays held through it.
LEMMA FaultKeeps ==
    ASSUME Held, NEW r \in Request, Crash(r) \/ LoseGuard(r)
    PROVE  Held'
<1>. DEFINE x == [req[r] EXCEPT !.pc = "crashed", !.guard = "none"]
            y == [req[r] EXCEPT !.guard = "lost"]
<1>0. /\ req[r] \in Attempt /\ req \in [Request -> Attempt]
      /\ token \in [Request -> {"none", "live", "gone"}]
  BY DEF Held, ControlTypeOK
<1>1. UNCHANGED <<stored, token, issue>> /\ NoIssue
  BY DEF Crash, LoseGuard, NoRedis, redisVars, NoIssue
<1>2. CASE Crash(r)
  <2>1. x \in Attempt /\ x.pc = "crashed" /\ x.code = req[r].code
        /\ x.result = req[r].result
    BY <1>0 DEF Attempt, Place
  <2>2. req[r].pc # "idle" /\ req[r].result = "none" /\ req' = [req EXCEPT ![r] = x]
    BY <1>0, <1>2 DEF Held, RequestSound, Crash
  <2>. QED
    BY <1>0, <1>1, <2>1, <2>2, OnKeeps DEF Holding, Tokenless
<1>3. CASE LoseGuard(r)
  <2>1. /\ y \in Attempt /\ y.pc = req[r].pc /\ y.code = req[r].code
        /\ y.result = req[r].result
    BY <1>0 DEF Attempt
  <2>2. req' = [req EXCEPT ![r] = y]
    BY <1>0, <1>3 DEF LoseGuard
  <2>3. /\ req' \in [Request -> Attempt] /\ req'[r] = y
        /\ \A s \in Request \ {r} : req'[s] = req[s]
    BY <1>0, <2>1, <2>2
  <2>4. ControlTypeOK'
    BY <1>1, <2>3 DEF Held, ControlTypeOK, NoIssue, worldVars
  <2>5. RequestSound(r)'
    BY <1>1, <2>1, <2>3 DEF Held, RequestSound
  <2>6. \A c \in Code : Holds(r, c)' => Holds(r, c)
    BY <1>1, <2>1, <2>3 DEF Holds
  <2>. QED
    BY <1>1, <2>3, <2>4, <2>5, <2>6, Alone
<1>. QED
  BY <1>2, <1>3

-----------------------------------------------------------------------------
(* The theorems. *)

LEMMA InitHeld == Init => Held
<1>. SUFFICES ASSUME Init PROVE Held
  OBVIOUS
<1>1. Idle \in Attempt /\ Idle.pc = "idle" /\ Idle.code = None /\ Idle.result = "none"
  BY IdleAttempt
<1>2. ControlTypeOK
  <2>1. session \in BOOLEAN /\ sweeping \in BOOLEAN /\ cutting \in BOOLEAN
    BY DEF Init
  <2>2. secret \in 1..MaxSecret /\ swept \in 0..MaxSecret /\ cut \in 0..MaxConsent
    BY Bounds DEF Init
  <2>3. consent \in [version : 1..MaxConsent, revoked : BOOLEAN]
    <3>1. 1 \in 1..MaxConsent /\ consent = [version |-> 1, revoked |-> FALSE]
      BY Bounds DEF Init
    <3>. QED
      BY <3>1
  <2>4. /\ worker \in [Worker -> [pc : {"scan", "record", "refund", "drop"},
                                   code : Code \cup {None}]]
        /\ req \in [Request -> Attempt]
        /\ issue \in [Code -> IssuePlace]
        /\ token \in [Request -> {"none", "live", "gone"}]
        /\ stored \subseteq Code /\ expired \subseteq Code
    BY <1>1 DEF Init, IssuePlace
  <2>. QED
    BY <2>1, <2>2, <2>3, <2>4 DEF ControlTypeOK
<1>3. CodeIsHeldOnce /\ \A r \in Request : RequestSound(r)
  BY <1>1 DEF Init, CodeIsHeldOnce, RequestSound, Holds, Holding
<1>. QED
  BY <1>2, <1>3 DEF Held

LEMMA StepHeld == Held /\ [Next]_vars => Held'
<1>. SUFFICES ASSUME Held, [Next]_vars PROVE Held'
  OBVIOUS
<1>1. ASSUME NEW c \in Code, Issue(c) PROVE Held'
  BY <1>1, IssueKeeps
<1>2. ASSUME NEW r \in Request, Step(r) \/ GiveUp(r) \/ Crash(r) \/ LoseGuard(r)
      PROVE  Held'
  BY <1>2, ReadKeeps, TakeCodeKeeps, SaveKeeps, AnswerKeeps, RemoveKeeps,
     RestoreCodeKeeps, RescheduleKeeps, FaultKeeps DEF Step
<1>3. ASSUME NEW r \in Request, NEW c \in Code, Start(r, c) PROVE Held'
  BY <1>3, StartKeeps
<1>4. ASSUME NEW w \in Worker, Work(w) PROVE Held'
  BY <1>4, WorkKeeps
<1>5. CASE World
  BY <1>5, WorldKeeps
<1>6. CASE UNCHANGED vars
  <2>1. UNCHANGED <<stored, token, issue, req>> /\ ControlTypeOK'
    BY <1>6 DEF vars, redisVars, worldVars, Held, ControlTypeOK
  <2>. QED
    BY <2>1, Aside
<1>. QED
  BY <1>1, <1>2, <1>3, <1>4, <1>5, <1>6 DEF Next

\* Whatever fails and however the requests interleave, a code is in Redis or in
\* the hands of one request: no compensation returns what is still held.
THEOREM CodeHeldOnce == Spec => []CodeIsHeldOnce
<1>1. Held => CodeIsHeldOnce
  BY DEF Held
<1>. QED
  BY <1>1, InitHeld, StepHeld, PTL DEF Spec

\* A set without two different elements is finite and has one at most.
LEMMA AtMostOne ==
    ASSUME NEW S, \A x, y \in S : x = y
    PROVE  Cardinality(S) <= 1
<1>1. CASE S = {}
  BY <1>1, FS_EmptySet
<1>2. CASE S # {}
  <2>1. PICK x \in S : S = {x}
    BY <1>2
  <2>. QED
    BY <2>1, FS_Singleton
<1>. QED
  BY <1>1, <1>2

\* Two requests that present one code are never both answered with tokens.
THEOREM RedeemedOnce == Spec => []SingleRedemption
<1>1. ASSUME Held PROVE SingleRedemption
  <2>. SUFFICES ASSUME NEW c \in Code PROVE Cardinality(Redeeming(c)) <= 1
    BY DEF SingleRedemption
  <2>1. \A r, s \in Redeeming(c) : r = s
    BY <1>1 DEF Held, CodeIsHeldOnce, Redeeming, Holds
  <2>. QED
    BY <2>1, AtMostOne
<1>. QED
  BY <1>1, InitHeld, StepHeld, PTL DEF Spec

\* Two refresh tokens that come from one code never live at once, whether they
\* were disclosed or are the remains of an exchange that failed.
THEOREM OneGrant == Spec => []OneGrantPerCode
<1>1. ASSUME Held PROVE OneGrantPerCode
  <2>. SUFFICES ASSUME NEW c \in Code
                PROVE  Cardinality({r \in Request : req[r].code = c /\ token[r] = "live"}) <= 1
    BY DEF OneGrantPerCode
  <2>. DEFINE S == {r \in Request : req[r].code = c /\ token[r] = "live"}
  <2>1. \A r, s \in S : r = s
    BY <1>1 DEF Held, CodeIsHeldOnce, Holds
  <2>. HIDE DEF S
  <2>2. Cardinality(S) <= 1
    BY <2>1, AtMostOne
  <2>. QED
    BY <2>2 DEF S
<1>. QED
  BY <1>1, InitHeld, StepHeld, PTL DEF Spec

-----------------------------------------------------------------------------
(* Disconnection and rotation: AllCovered is inductive as well. *)

\* A step that leaves the rows, the requests and their tokens alone.
LEMMA CoveredAside ==
    ASSUME AllCovered, UNCHANGED <<req, token, secret, sweeping, swept>>,
           UNCHANGED <<consent, cutting, cut>>
    PROVE  RowsAhead' /\ \A r \in Request : Covered(r)'
<1>1. RowsAhead'
  BY DEF AllCovered, RowsAhead
<1>2. ASSUME NEW r \in Request PROVE Covered(r)'
  BY DEF AllCovered, Covered
<1>. QED
  BY <1>1, <1>2

\* A step of one request.
LEMMA CoveredAlone ==
    ASSUME AllCovered, NEW r \in Request, NoIssue,
           \A s \in Request \ {r} : req'[s] = req[s] /\ token'[s] = token[s],
           Covered(r)'
    PROVE  RowsAhead' /\ \A s \in Request : Covered(s)'
<1>1. UNCHANGED <<secret, sweeping, swept, consent, cutting, cut>>
  BY DEF NoIssue, worldVars
<1>2. RowsAhead'
  BY <1>1 DEF AllCovered, RowsAhead
<1>3. ASSUME NEW s \in Request PROVE Covered(s)'
  BY <1>1 DEF AllCovered, Covered
<1>. QED
  BY <1>2, <1>3

\* One that is not on its way to an answer has nothing to cover.
LEMMA NothingToCover ==
    ASSUME NEW r \in Request, req'[r].guard # "held",
           req'[r].pc \notin {"confirm", "publish", "audit"}, req'[r].result # "ok"
    PROVE  Covered(r)'
BY DEF Covered

LEMMA WorldCovers ==
    ASSUME AllCovered, World
    PROVE  RowsAhead' /\ \A r \in Request : Covered(r)'
<1>. USE DEF NoStep, redisVars, worldVars
<1>0. /\ \A r \in Request : req[r].secret \in Nat /\ req[r].consent \in Nat
      /\ secret \in Nat /\ swept \in Nat /\ consent.version \in Nat /\ cut \in Nat
  BY Bounds DEF AllCovered, Held, ControlTypeOK, Attempt
<1>1. CASE \E c \in Code : Expire(c) \/ KeyExpires(c)
  BY <1>1, CoveredAside DEF Expire, KeyExpires
<1>2. CASE NextDay \/ Logout
  BY <1>2, CoveredAside DEF NextDay, Logout
<1>3. CASE \E r \in Request : Delete(r)
  <2>1. PICK d \in Request : Delete(d)
    BY <1>3
  <2>2. /\ UNCHANGED <<req, secret, sweeping, swept, consent, cutting, cut>>
        /\ \A r \in Request : token'[r] = "live" => token[r] = "live"
    BY <2>1 DEF Delete, AllCovered, Held, ControlTypeOK
  <2>3. RowsAhead'
    BY <2>2 DEF AllCovered, RowsAhead
  <2>4. ASSUME NEW r \in Request PROVE Covered(r)'
    BY <2>2 DEF AllCovered, Covered
  <2>. QED
    BY <2>3, <2>4
<1>4. CASE RevokeConsent
  <2>1. /\ UNCHANGED <<req, token, secret, sweeping, swept>>
        /\ consent'.version = consent.version + 1 /\ consent'.revoked
        /\ cut' = consent.version + 1 /\ cutting'
    BY <1>4 DEF RevokeConsent
  <2>2. RowsAhead'
    BY <1>0, <2>1 DEF AllCovered, RowsAhead
  <2>3. ASSUME NEW r \in Request PROVE Covered(r)'
    BY <2>1 DEF AllCovered, Covered
  <2>. QED
    BY <2>2, <2>3
<1>5. CASE GrantConsent
  <2>1. /\ UNCHANGED <<req, token, secret, sweeping, swept, cutting, cut>>
        /\ consent'.version = consent.version + 1
    BY <1>5 DEF GrantConsent
  <2>2. RowsAhead'
    BY <1>0, <2>1 DEF AllCovered, RowsAhead
  <2>3. ASSUME NEW r \in Request PROVE Covered(r)'
    BY <2>1 DEF AllCovered, Covered
  <2>. QED
    BY <2>2, <2>3
<1>6. CASE RotateSecret
  <2>1. /\ UNCHANGED <<req, token, swept, consent, cutting, cut>>
        /\ secret' = secret + 1 /\ sweeping'
        /\ \A r \in Request : req[r].guard # "held"
    BY <1>6 DEF RotateSecret
  <2>2. RowsAhead'
    BY <1>0, <2>1 DEF AllCovered, RowsAhead
  <2>3. ASSUME NEW r \in Request PROVE Covered(r)'
    BY <2>1 DEF AllCovered, Covered
  <2>. QED
    BY <2>2, <2>3
<1>7. CASE EndCut \/ EndSweep
  <2>1. /\ UNCHANGED <<req, token, secret, consent, cut>>
        /\ \A r \in Request : token[r] # "live"
        /\ swept' \in {swept, secret}
    BY <1>7 DEF EndCut, EndSweep, NoneLive
  <2>2. RowsAhead'
    BY <1>0, <2>1 DEF AllCovered, RowsAhead
  <2>3. ASSUME NEW r \in Request PROVE Covered(r)'
    BY <2>1 DEF AllCovered, Covered
  <2>. QED
    BY <2>2, <2>3
<1>. QED
  BY <1>1, <1>2, <1>3, <1>4, <1>5, <1>6, <1>7 DEF World

-----------------------------------------------------------------------------
(* What the steps of a request do to what it has read. *)

LEMMA GotoKeepsReads ==
    ASSUME Held, NEW r \in Request, NEW place \in Place, Goto(r, place)
    PROVE  /\ req'[r].guard = req[r].guard
           /\ req'[r].secret = req[r].secret
           /\ req'[r].consent = req[r].consent
BY DEF Held, ControlTypeOK, Attempt, Goto

LEMMA TakeBackKeepsReads ==
    ASSUME Held, NEW r \in Request, NEW reason \in Reason, TakeBack(r, reason)
    PROVE  req'[r].guard = "none"
<1>. DEFINE x == [req[r] EXCEPT !.pc = "remove", !.guard = "none", !.reason = reason]
<1>1. req \in [Request -> Attempt] /\ req[r] \in Attempt
  BY DEF Held, ControlTypeOK
<1>2. x.guard = "none"
  BY <1>1 DEF Attempt
<1>3. req' = [req EXCEPT ![r] = x]
  BY <1>1 DEF TakeBack
<1>. QED
  BY <1>1, <1>2, <1>3

LEMMA FinishKeepsReads ==
    ASSUME Held, NEW r \in Request, NEW result \in Result, Finish(r, result)
    PROVE  /\ req'[r].guard = "none"
           /\ req'[r].secret = req[r].secret
           /\ req'[r].consent = req[r].consent
<1>. DEFINE x == [req[r] EXCEPT !.pc = "done", !.guard = "none", !.reason = "none",
                                !.result = result]
<1>1. req \in [Request -> Attempt] /\ req[r] \in Attempt
  BY DEF Held, ControlTypeOK
<1>2. x.guard = "none" /\ x.secret = req[r].secret /\ x.consent = req[r].consent
  BY <1>1 DEF Attempt
<1>3. req' = [req EXCEPT ![r] = x]
  BY <1>1 DEF Finish
<1>. QED
  BY <1>1, <1>2, <1>3

LEMMA RefuseCovers ==
    ASSUME Held, NEW r \in Request, Refuse(r)
    PROVE  Covered(r)' /\ \A s \in Request \ {r} : req'[s] = req[s]
<1>1. req'[r] = Idle /\ \A s \in Request \ {r} : req'[s] = req[s]
  BY DEF Held, ControlTypeOK, Refuse
<1>. QED
  BY <1>1 DEF Covered, Idle

LEMMA TakeBackCovers ==
    ASSUME Held, NEW r \in Request, NEW reason \in Reason, TakeBack(r, reason),
           req[r].result = "none"
    PROVE  Covered(r)' /\ \A s \in Request \ {r} : req'[s] = req[s]
BY TakeBackMoves, TakeBackKeepsReads, NothingToCover

\* And what it means for a request between two places with nothing to cover.
LEMMA GotoCovers ==
    ASSUME AllCovered, NEW r \in Request, NEW place \in Place, Goto(r, place),
           req[r].guard # "held", req[r].result = "none",
           place \notin {"confirm", "publish", "audit"}
    PROVE  Covered(r)' /\ \A s \in Request \ {r} : req'[s] = req[s]
<1>1. Held
  BY DEF AllCovered
<1>. QED
  BY <1>1, GotoMoves, GotoKeepsReads, NothingToCover

LEMMA FinishCovers ==
    ASSUME Held, NEW r \in Request, NEW result \in Result, Finish(r, result),
           result # "ok"
    PROVE  Covered(r)' /\ \A s \in Request \ {r} : req'[s] = req[s]
BY FinishMoves, FinishKeepsReads, NothingToCover

\* Only a request that is done has a result, and a guard is held at three places.
LEMMA Unanswered ==
    ASSUME AllCovered, NEW r \in Request, req[r].pc # "done"
    PROVE  /\ req[r].result = "none"
           /\ req[r].pc \notin {"take", "save", "release"} => req[r].guard # "held"
BY DEF AllCovered, Held, RequestSound, Covered

-----------------------------------------------------------------------------
(* The steps of a request. *)

LEMMA StartCovers ==
    ASSUME AllCovered, NEW r \in Request, NEW c \in Code, Start(r, c)
    PROVE  RowsAhead' /\ \A s \in Request : Covered(s)'
<1>. DEFINE x == [Idle EXCEPT !.pc = "find", !.code = c, !.secret = secret]
<1>1. req' = [req EXCEPT ![r] = x] /\ UNCHANGED token /\ NoIssue
  BY DEF Start, NoRedis, redisVars
<1>2. req'[r] = x /\ \A s \in Request \ {r} : req'[s] = req[s]
  BY <1>1 DEF AllCovered, Held, ControlTypeOK
<1>3. x.guard = "none" /\ x.pc = "find" /\ x.result = "none"
  BY DEF Idle
<1>4. Covered(r)'
  BY <1>2, <1>3, NothingToCover
<1>. QED
  BY <1>1, <1>2, <1>4, CoveredAlone

LEMMA ReadCovers ==
    ASSUME AllCovered, NEW r \in Request,
           Find(r) \/ CheckSession(r) \/ Gate(r) \/ Fence(r) \/ GiveUp(r)
    PROVE  RowsAhead' /\ \A s \in Request : Covered(s)'
<1>. DEFINE x == [req[r] EXCEPT !.pc = "fence", !.consent = consent.version]
            y == [req[r] EXCEPT !.pc = "take", !.guard = "held"]
<1>1. /\ UNCHANGED token /\ NoIssue
      /\ req[r].pc \in {"find", "session", "gate", "fence"}
      /\ \/ Refuse(r) \/ Goto(r, "session") \/ Goto(r, "gate")
         \/ req' = [req EXCEPT ![r] = x]
         \/ secret = req[r].secret /\ req' = [req EXCEPT ![r] = y]
  BY DEF AllCovered, Held, ControlTypeOK, Attempt, Find, CheckSession, Gate, Fence,
         GiveUp, NoRedis, redisVars, At
<1>2. /\ Held /\ req[r].result = "none" /\ req[r].guard # "held"
      /\ req[r] \in Attempt /\ req \in [Request -> Attempt]
  BY <1>1, Unanswered DEF AllCovered, Held, ControlTypeOK
<1>3. Covered(r)' /\ \A s \in Request \ {r} : req'[s] = req[s]
  <2>1. CASE Refuse(r) \/ Goto(r, "session") \/ Goto(r, "gate")
    BY <1>2, <2>1, RefuseCovers, GotoCovers DEF Place
  <2>2. CASE req' = [req EXCEPT ![r] = x]
    <3>1. x.guard # "held" /\ x.pc = "fence" /\ x.result = "none"
      BY <1>2 DEF Attempt
    <3>2. req'[r] = x /\ \A s \in Request \ {r} : req'[s] = req[s]
      BY <1>2, <2>2
    <3>. QED
      BY <3>1, <3>2, NothingToCover
  <2>3. CASE secret = req[r].secret /\ req' = [req EXCEPT ![r] = y]
    <3>1. y.pc = "take" /\ y.result = "none" /\ y.secret = req[r].secret
      BY <1>2 DEF Attempt
    <3>2. req'[r] = y /\ \A s \in Request \ {r} : req'[s] = req[s]
      BY <1>2, <2>3
    <3>3. secret' = secret
      BY <1>1 DEF NoIssue, worldVars
    <3>. QED
      BY <2>3, <3>1, <3>2, <3>3 DEF Covered
  <2>. QED
    BY <1>1, <2>1, <2>2, <2>3
<1>. QED
  BY <1>1, <1>3, CoveredAlone

\* With the code in hand the request keeps its guard, and the secret it was read with.
LEMMA HandCovers ==
    ASSUME AllCovered, NEW r \in Request, TakeCode(r) \/ Save(r)
    PROVE  RowsAhead' /\ \A s \in Request : Covered(s)'
<1>1. /\ req[r].pc \in {"take", "save"} /\ NoIssue
      /\ \A s \in Request \ {r} : token'[s] = token[s]
      /\ \/ Refuse(r) \/ TakeBack(r, "failed")
         \/ Goto(r, "save") \/ Goto(r, "release")
  BY DEF AllCovered, Held, ControlTypeOK, TakeCode, Save, Call, At, NoRedis, redisVars
<1>2. Held /\ req[r].result = "none"
  BY <1>1, Unanswered DEF AllCovered
<1>3. Covered(r)' /\ \A s \in Request \ {r} : req'[s] = req[s]
  <2>1. CASE Refuse(r) \/ TakeBack(r, "failed")
    BY <1>2, <2>1, RefuseCovers, TakeBackCovers DEF Reason
  <2>2. CASE Goto(r, "save") \/ Goto(r, "release")
    <3>1. /\ req'[r].pc \in {"save", "release"} /\ req'[r].result = "none"
          /\ req'[r].guard = req[r].guard /\ req'[r].secret = req[r].secret
          /\ \A s \in Request \ {r} : req'[s] = req[s]
      BY <1>2, <2>2, GotoMoves, GotoKeepsReads DEF Place
    <3>2. secret' = secret /\ (req[r].guard = "held" => req[r].secret = secret)
      BY <1>1 DEF NoIssue, worldVars, AllCovered, Covered
    <3>. QED
      BY <3>1, <3>2 DEF Covered
  <2>. QED
    BY <1>1, <2>1, <2>2
<1>. QED
  BY <1>1, <1>3, CoveredAlone

\* The secret a held guard protects is not behind the last sweep.
LEMMA ReleaseCovers ==
    ASSUME AllCovered, NEW r \in Request, Release(r)
    PROVE  RowsAhead' /\ \A s \in Request : Covered(s)'
<1>. DEFINE x == [req[r] EXCEPT !.pc = "confirm", !.guard = "none"]
<1>1. /\ req[r].pc = "release" /\ UNCHANGED token /\ NoIssue
      /\ \/ req[r].guard = "held" /\ req' = [req EXCEPT ![r] = x]
         \/ TakeBack(r, "failed")
  BY DEF AllCovered, Held, ControlTypeOK, Attempt, Release, At, NoRedis, redisVars
<1>2. /\ Held /\ req[r].result = "none"
      /\ req[r] \in Attempt /\ req \in [Request -> Attempt]
  BY <1>1, Unanswered DEF AllCovered, Held, ControlTypeOK
<1>3. Covered(r)' /\ \A s \in Request \ {r} : req'[s] = req[s]
  <2>1. CASE TakeBack(r, "failed")
    BY <1>2, <2>1, TakeBackCovers DEF Reason
  <2>2. CASE req[r].guard = "held" /\ req' = [req EXCEPT ![r] = x]
    <3>1. /\ x.guard = "none" /\ x.pc = "confirm" /\ x.result = "none"
          /\ x.secret = req[r].secret
      BY <1>2 DEF Attempt
    <3>2. req'[r] = x /\ \A s \in Request \ {r} : req'[s] = req[s]
      BY <1>2, <2>2
    <3>3. req[r].secret = secret /\ swept <= secret /\ swept' = swept
      BY <1>1, <2>2 DEF AllCovered, Covered, RowsAhead, NoIssue, worldVars
    <3>4. secret \in Nat /\ swept \in Nat
      BY Bounds DEF AllCovered, Held, ControlTypeOK
    <3>. QED
      BY <3>1, <3>2, <3>3, <3>4 DEF Covered
  <2>. QED
    BY <1>1, <2>1, <2>2
<1>. QED
  BY <1>1, <1>3, CoveredAlone

\* The consent that is confirmed is younger than every disconnection.
LEMMA ConfirmCovers ==
    ASSUME AllCovered, NEW r \in Request, Confirm(r) \/ Publish(r) \/ Audit(r)
    PROVE  RowsAhead' /\ \A s \in Request : Covered(s)'
<1>1. /\ req[r].pc \in {"confirm", "publish", "audit"} /\ UNCHANGED token /\ NoIssue
      /\ \/ ConsentUnchanged(r) /\ req[r].pc = "confirm" /\ Goto(r, "publish")
         \/ req[r].pc = "publish" /\ Goto(r, "audit")
         \/ req[r].pc = "audit" /\ Finish(r, "ok")
         \/ \E reason \in Reason : TakeBack(r, reason)
  BY DEF Confirm, Publish, Audit, At, NoRedis, redisVars, Reason
<1>2. Held /\ req[r].result = "none" /\ req[r].guard # "held"
  BY <1>1, Unanswered DEF AllCovered
<1>3. UNCHANGED <<secret, sweeping, swept, consent, cutting, cut>>
  BY <1>1 DEF NoIssue, worldVars
<1>4. Covered(r)' /\ \A s \in Request \ {r} : req'[s] = req[s]
  <2>1. CASE \E reason \in Reason : TakeBack(r, reason)
    BY <1>2, <2>1, TakeBackCovers
  <2>2. CASE ConsentUnchanged(r) /\ req[r].pc = "confirm" /\ Goto(r, "publish")
    <3>1. /\ req'[r].pc = "publish" /\ req'[r].result = "none"
          /\ req'[r].guard # "held" /\ req'[r].secret = req[r].secret
          /\ req'[r].consent = req[r].consent
          /\ \A s \in Request \ {r} : req'[s] = req[s]
      BY <1>2, <2>2, GotoMoves, GotoKeepsReads DEF Place
    <3>2. cut < req[r].consent
      BY <2>2 DEF AllCovered, RowsAhead, ConsentUnchanged
    <3>3. cut \in Nat /\ req[r].consent \in Nat
      BY Bounds DEF AllCovered, Held, ControlTypeOK, Attempt
    <3>4. token[r] # "live" \/ sweeping \/ req[r].secret >= swept
      BY <1>1 DEF AllCovered, Covered
    <3>. QED
      BY <1>1, <1>3, <3>1, <3>2, <3>3, <3>4 DEF Covered
  <2>3. CASE req[r].pc \in {"publish", "audit"} /\ (Goto(r, "audit") \/ Finish(r, "ok"))
    <3>1. /\ req'[r].guard # "held" /\ req'[r].secret = req[r].secret
          /\ req'[r].consent = req[r].consent
          /\ \A s \in Request \ {r} : req'[s] = req[s]
      BY <1>2, <2>3, GotoMoves, GotoKeepsReads, FinishMoves, FinishKeepsReads
         DEF Place, Result
    <3>2. /\ token[r] # "live" \/ sweeping \/ req[r].secret >= swept
          /\ token[r] # "live" \/ cutting \/ req[r].consent > cut
      BY <2>3 DEF AllCovered, Covered
    <3>. QED
      BY <1>1, <1>3, <3>1, <3>2 DEF Covered
  <2>. QED
    BY <1>1, <2>1, <2>2, <2>3
<1>. QED
  BY <1>1, <1>4, CoveredAlone

LEMMA TakingBackCovers ==
    ASSUME AllCovered, NEW r \in Request, Remove(r) \/ RestoreCode(r) \/ Reschedule(r)
    PROVE  RowsAhead' /\ \A s \in Request : Covered(s)'
<1>1. /\ req[r].pc \in {"remove", "restore", "reschedule"} /\ NoIssue
      /\ \A s \in Request \ {r} : token'[s] = token[s]
      /\ \/ Refuse(r) \/ Goto(r, "restore") \/ Goto(r, "reschedule")
         \/ Finish(r, "withdrawn") \/ Finish(r, "failed")
  BY DEF AllCovered, Held, ControlTypeOK, Remove, RestoreCode, Reschedule, Call, At,
         AfterFailedRemoval, redisVars
<1>2. Held /\ req[r].result = "none" /\ req[r].guard # "held"
  BY <1>1, Unanswered DEF AllCovered
<1>3. Covered(r)' /\ \A s \in Request \ {r} : req'[s] = req[s]
  BY <1>1, <1>2, RefuseCovers, GotoCovers, FinishCovers DEF Place, Result
<1>. QED
  BY <1>1, <1>3, CoveredAlone

LEMMA FaultCovers ==
    ASSUME AllCovered, NEW r \in Request, Crash(r) \/ LoseGuard(r)
    PROVE  RowsAhead' /\ \A s \in Request : Covered(s)'
<1>. DEFINE x == [req[r] EXCEPT !.pc = "crashed", !.guard = "none"]
            y == [req[r] EXCEPT !.guard = "lost"]
<1>0. req[r] \in Attempt /\ req \in [Request -> Attempt]
  BY DEF AllCovered, Held, ControlTypeOK
<1>1. UNCHANGED token /\ NoIssue
  BY DEF Crash, LoseGuard, NoRedis, redisVars
<1>2. Covered(r)' /\ \A s \in Request \ {r} : req'[s] = req[s]
  <2>1. CASE Crash(r)
    <3>1. x.pc = "crashed" /\ x.guard = "none" /\ x.result = req[r].result
      BY <1>0 DEF Attempt
    <3>2. req' = [req EXCEPT ![r] = x] /\ req[r].result = "none"
      BY <1>0, <2>1, Unanswered DEF Crash
    <3>3. req'[r] = x /\ \A s \in Request \ {r} : req'[s] = req[s]
      BY <1>0, <3>2
    <3>. QED
      BY <3>1, <3>2, <3>3, NothingToCover
  <2>2. CASE LoseGuard(r)
    <3>1. y.guard = "lost" /\ y.pc = req[r].pc /\ y.result = req[r].result
      BY <1>0 DEF Attempt
    <3>2. req' = [req EXCEPT ![r] = y] /\ req[r].guard = "held"
      BY <1>0, <2>2 DEF LoseGuard
    <3>3. req'[r] = y /\ \A s \in Request \ {r} : req'[s] = req[s]
      BY <1>0, <3>2
    <3>4. req[r].pc \in {"take", "save", "release"}
      BY <3>2 DEF AllCovered, Covered
    <3>5. req[r].result = "none"
      BY <3>4, Unanswered
    <3>. QED
      BY <3>1, <3>3, <3>4, <3>5, NothingToCover
  <2>. QED
    BY <2>1, <2>2
<1>. QED
  BY <1>1, <1>2, CoveredAlone

-----------------------------------------------------------------------------
(* Its theorems. *)

LEMMA InitCovered == Init => AllCovered
<1>. SUFFICES ASSUME Init PROVE AllCovered
  OBVIOUS
<1>1. RowsAhead
  BY DEF Init, RowsAhead
<1>2. \A r \in Request : Covered(r)
  BY DEF Init, Covered, Idle
<1>. QED
  BY <1>1, <1>2, InitHeld DEF AllCovered

LEMMA StepCovered == AllCovered /\ [Next]_vars => AllCovered'
<1>. SUFFICES ASSUME AllCovered, [Next]_vars PROVE AllCovered'
  OBVIOUS
<1>1. Held'
  BY StepHeld DEF AllCovered
<1>2. RowsAhead' /\ \A r \in Request : Covered(r)'
  <2>1. ASSUME NEW c \in Code, Issue(c)
        PROVE  RowsAhead' /\ \A r \in Request : Covered(r)'
    <3>1. UNCHANGED <<req, worldVars, token>>
      BY <2>1 DEF Issue, TakeQuota, ScheduleRefund, SaveCode, AuditCode, TakeBackCode,
                  RefundCode, Call, NoRequest, redisVars, Consume, Schedule, Refund
    <3>. QED
      BY <3>1, CoveredAside DEF worldVars
  <2>2. ASSUME NEW w \in Worker, Work(w)
        PROVE  RowsAhead' /\ \A r \in Request : Covered(r)'
    <3>1. UNCHANGED <<req, worldVars, token>>
      BY <2>2 DEF Work, Scan, ReadRecord, RefundDue, Drop, Call, NoProcess, NoRedis,
                  redisVars
    <3>. QED
      BY <3>1, CoveredAside DEF worldVars
  <2>3. ASSUME NEW r \in Request, Step(r) \/ GiveUp(r) \/ Crash(r) \/ LoseGuard(r)
        PROVE  RowsAhead' /\ \A s \in Request : Covered(s)'
    BY <2>3, ReadCovers, HandCovers, ReleaseCovers, ConfirmCovers, TakingBackCovers,
       FaultCovers DEF Step
  <2>4. ASSUME NEW r \in Request, NEW c \in Code, Start(r, c)
        PROVE  RowsAhead' /\ \A s \in Request : Covered(s)'
    BY <2>4, StartCovers
  <2>5. CASE World
    BY <2>5, WorldCovers
  <2>6. CASE UNCHANGED vars
    BY <2>6, CoveredAside DEF vars, redisVars, worldVars
  <2>. QED
    BY <2>1, <2>2, <2>3, <2>4, <2>5, <2>6 DEF Next
<1>. QED
  BY <1>1, <1>2 DEF AllCovered

\* Once the deletions of a disconnection are over, no token lives that an
\* exchange gave out under the withdrawn consent, whatever was granted since and
\* wherever the exchange stood.
THEOREM DisconnectCovers == Spec => []DisconnectCoversExchanges
<1>1. AllCovered => DisconnectCoversExchanges
  BY DEF AllCovered, Covered, DisconnectCoversExchanges, Disclosed
<1>. QED
  BY <1>1, InitCovered, StepCovered, PTL DEF Spec

\* Once the sweep of a rotation is over, no token lives that an exchange gave out
\* to a client that knew an older secret, even if PostgreSQL dropped its guard.
THEOREM SweepCovers == Spec => []SweepCoversExchanges
<1>1. AllCovered => SweepCoversExchanges
  BY DEF AllCovered, Covered, SweepCoversExchanges, Disclosed
<1>. QED
  BY <1>1, InitCovered, StepCovered, PTL DEF Spec

-----------------------------------------------------------------------------
(* The quota, as long as Redis answers and processes live.  Months follow one  *)
(* another.                                                                    *)

LEMMA Period == MaxDay \in Nat \ {0} /\ DaysPerMonth \in Nat \ {0}
BY PeriodAssumption

LEMMA MonthsGrow ==
    ASSUME NEW d \in Nat \ {0}, NEW e \in Nat \ {0}, d <= e
    PROVE  MonthOf(d) \in Int /\ MonthOf(e) \in Int /\ MonthOf(d) <= MonthOf(e)
BY Period DEF MonthOf

\* A reservation whose month is over stays so.
LEMMA OverStaysOver ==
    ASSUME Accounted, NEW c \in Code, born[c] > 0, today' = today + 1,
           UNCHANGED born, MonthOver(c)
    PROVE  MonthOver(c)'
<1>1. /\ born[c] \in Nat \ {0} /\ born[c] <= today
      /\ today \in Nat \ {0} /\ today + 1 \in Nat \ {0}
  BY Period DEF Accounted, Books, CountersSound, Day
<1>2. /\ MonthOf(born[c]) <= MonthOf(today) /\ MonthOf(today) <= MonthOf(today + 1)
      /\ MonthOf(born[c]) \in Int /\ MonthOf(today) \in Int /\ MonthOf(today + 1) \in Int
  BY <1>1, MonthsGrow
<1>3. MonthOf(born[c]) # MonthOf(today)
  BY DEF MonthOver
<1>4. MonthOf(born[c]) # MonthOf(today + 1)
  BY <1>2, <1>3
<1>. QED
  BY <1>4 DEF MonthOver

-----------------------------------------------------------------------------
(* What a step leaves alone. *)

Works(r, c) == req[r].code = c /\ req[r].pc \in Holding \cup {"reschedule"}
Spends(r, c) == req[r].code = c /\ req[r].result \in {"ok", "withdrawn"}

LEMMA Users ==
    ASSUME NEW c \in Code
    PROVE  /\ Underway(c) <=> \E r \in Request : Works(r, c)
           /\ Spent(c) <=> \E r \in Request : Spends(r, c)
           /\ Used(c) <=> Underway(c) \/ Spent(c)
BY DEF Underway, Spent, Used, Works, Spends

LEMMA NobodyMoves ==
    ASSUME NEW c \in Code, UNCHANGED req
    PROVE  (Underway(c)' <=> Underway(c)) /\ (Spent(c)' <=> Spent(c))
BY DEF Underway, Spent

LEMMA CodeAside ==
    ASSUME NEW c \in Code, ClaimSound(c),
           today' = today, born'[c] = born[c], issue'[c] = issue[c],
           c \in monthClaims' <=> c \in monthClaims, c \in dayClaims' <=> c \in dayClaims,
           c \in records' <=> c \in records, c \in pending' <=> c \in pending,
           c \in stored' <=> c \in stored, c \in expired' <=> c \in expired,
           Underway(c)' <=> Underway(c), Spent(c)' <=> Spent(c)
    PROVE  ClaimSound(c)' /\ (Owned(c)' <=> Owned(c))
<1>1. MonthOver(c)' <=> MonthOver(c)
  BY DEF MonthOver
<1>. QED
  BY <1>1 DEF ClaimSound, Owned, Used

LEMMA PassAside ==
    ASSUME NEW w \in Worker, PassSound(w), worker'[w] = worker[w],
           expired \subseteq expired',
           \A c \in expired : issue[c] # "schedule" => issue'[c] # "schedule",
           \A c \in expired : c \notin monthClaims /\ ~Underway(c)
                                => c \notin monthClaims' /\ ~Underway(c)'
    PROVE  PassSound(w)'
<1>. DEFINE c == worker[w].code
<1>1. SUFFICES ASSUME worker[w].pc # "scan"
               PROVE  /\ c \in expired' /\ issue'[c] # "schedule"
                      /\ worker[w].pc = "drop" => c \notin monthClaims' /\ ~Underway(c)'
  BY DEF PassSound
<1>2. c \in expired /\ issue[c] # "schedule"
  BY <1>1 DEF PassSound
<1>3. worker[w].pc = "drop" => c \notin monthClaims /\ ~Underway(c)
  BY <1>1 DEF PassSound
<1>. QED
  BY <1>2, <1>3

LEMMA CountsStay ==
    ASSUME Accounted, UNCHANGED <<today, born, monthUsed>>,
           \A c \in Code : Owned(c)' <=> Owned(c)
    PROVE  CountersSound'
<1>1. {c \in Code : Owned(c)'} = {c \in Code : Owned(c)}
  OBVIOUS
<1>. QED
  BY <1>1 DEF Accounted, Books, CountersSound, QuotaIsOwned

\* A unit is added together with its owner.
LEMMA UnitTaken ==
    ASSUME Accounted, NEW c \in Code, ~Owned(c), Owned(c)', Consume(c),
           \A d \in Code \ {c} : Owned(d)' <=> Owned(d)
    PROVE  CountersSound'
<1>. DEFINE S == {d \in Code : Owned(d)}
            m == MonthOf(today)
<1>1. /\ IsFiniteSet(S) /\ monthUsed[m] = Cardinality(S) /\ c \notin S
      /\ monthUsed \in [Month -> Nat] /\ today \in Day
      /\ born \in [Code -> 0..MaxDay] /\ \A d \in Code : born[d] <= today
      /\ \A n \in Month : n # m => monthUsed[n] = 0
  BY DEF Accounted, Books, CountersSound, QuotaIsOwned
<1>2. {d \in Code : Owned(d)'} = S \cup {c}
  OBVIOUS
<1>3. IsFiniteSet(S \cup {c}) /\ Cardinality(S \cup {c}) = Cardinality(S) + 1
  BY <1>1, FS_AddElement
<1>4. m \in Month /\ today \in 0..MaxDay /\ today <= today
  BY <1>1, Period DEF Month, Day
<1>5. /\ today' = today /\ born' = [born EXCEPT ![c] = today]
      /\ monthUsed' = [monthUsed EXCEPT ![m] = @ + 1]
  BY DEF Consume
<1>6. born' \in [Code -> 0..MaxDay] /\ \A d \in Code : born'[d] <= today'
  BY <1>1, <1>4, <1>5
<1>7. /\ monthUsed' \in [Month -> Nat] /\ monthUsed'[m] = Cardinality(S) + 1
      /\ \A n \in Month : n # m => monthUsed'[n] = 0
  BY <1>1, <1>4, <1>5
<1>. QED
  BY <1>1, <1>2, <1>3, <1>5, <1>6, <1>7 DEF CountersSound, QuotaIsOwned

\* A unit is given back for a claim, and its owner goes with it.
LEMMA UnitGivenBack ==
    ASSUME Accounted, NEW c \in Code, GiveBack(c), UNCHANGED <<today, born, req>>
    PROVE  CountersSound'
<1>. DEFINE S == {d \in Code : Owned(d)}
            m == MonthOf(today)
<1>1. /\ IsFiniteSet(S) /\ monthUsed[m] = Cardinality(S)
      /\ monthUsed \in [Month -> Nat] /\ today \in Day
      /\ \A n \in Month : n # m => monthUsed[n] = 0
      /\ ClaimSound(c)
  BY DEF Accounted, Books, CountersSound, QuotaIsOwned
<1>2. \A d \in Code : (MonthOver(d)' <=> MonthOver(d)) /\ (Underway(d)' <=> Underway(d))
                      /\ (Spent(d)' <=> Spent(d))
  BY NobodyMoves DEF MonthOver
<1>3. monthClaims' = monthClaims \ {c}
  BY DEF GiveBack
<1>4. CASE c \notin monthClaims
  <2>1. \A d \in Code : Owned(d)' <=> Owned(d)
    BY <1>2, <1>3, <1>4 DEF Owned
  <2>2. monthUsed' = [monthUsed EXCEPT ![MonthOf(born[c])] = @]
    BY <1>4 DEF GiveBack
  <2>3. monthUsed' = monthUsed
    BY <1>1, <2>2
  <2>. QED
    BY <2>1, <2>3, CountsStay
<1>5. CASE c \in monthClaims
  <2>1. born[c] > 0 /\ ~MonthOver(c) /\ ~Used(c) /\ MonthOf(born[c]) = m
    BY <1>1, <1>5 DEF ClaimSound, MonthOver
  <2>2. Owned(c) /\ ~Owned(c)'
    BY <1>2, <1>3, <1>5, <2>1 DEF Owned, Used
  <2>3. \A d \in Code \ {c} : Owned(d)' <=> Owned(d)
    BY <1>2, <1>3 DEF Owned
  <2>4. {d \in Code : Owned(d)'} = S \ {c} /\ c \in S
    BY <2>2, <2>3
  <2>5. /\ IsFiniteSet(S \ {c}) /\ Cardinality(S \ {c}) = Cardinality(S) - 1
        /\ Cardinality(S) \in Nat /\ Cardinality(S \ {c}) \in Nat
    BY <1>1, <2>4, FS_RemoveElement, FS_CardinalityType
  <2>6. m \in Month
    BY <1>1 DEF Month
  <2>7. monthUsed' = [monthUsed EXCEPT ![m] = IF @ > 0 THEN @ - 1 ELSE @]
    BY <1>5, <2>1 DEF GiveBack
  <2>8. /\ monthUsed' \in [Month -> Nat] /\ monthUsed'[m] = Cardinality(S) - 1
        /\ \A n \in Month : n # m => monthUsed'[n] = 0
    BY <1>1, <2>5, <2>6, <2>7
  <2>9. born' \in [Code -> 0..MaxDay] /\ \A d \in Code : born'[d] <= today'
    BY DEF Accounted, Books, CountersSound
  <2>. QED
    BY <1>1, <2>4, <2>5, <2>8, <2>9 DEF CountersSound, QuotaIsOwned
<1>. QED
  BY <1>4, <1>5

-----------------------------------------------------------------------------
(* Issuing a code. *)

LEMMA IssueFrame ==
    ASSUME Accounted, NEW c \in Code, NoRequest, issue[c] # "issued",
           UNCHANGED today,
           issue'[c] = "schedule" => c \notin expired,
           c \in monthClaims' => c \in monthClaims \/ c \notin expired,
           \A d \in Code \ {c} :
               /\ issue'[d] = issue[d] /\ born'[d] = born[d]
               /\ d \in monthClaims' <=> d \in monthClaims
               /\ d \in dayClaims' <=> d \in dayClaims
               /\ d \in records' <=> d \in records
               /\ d \in pending' <=> d \in pending
               /\ d \in stored' <=> d \in stored
    PROVE  /\ ~Used(c) /\ ~Used(c)' /\ ~Underway(c)'
           /\ \A d \in Code \ {c} : ClaimSound(d)' /\ (Owned(d)' <=> Owned(d))
           /\ \A w \in Worker : PassSound(w)'
           /\ \A r \in Request : Answering(r)'
<1>1. UNCHANGED <<req, worker, expired>> /\ expired \subseteq Code
  BY DEF NoRequest, Accounted, Held, ControlTypeOK
<1>2. ~Used(c)
  BY NoneAssumption DEF Accounted, Held, RequestSound, Used, Underway, Spent
<1>3. ~Used(c)' /\ ~Underway(c)'
  BY <1>1, <1>2, NobodyMoves DEF Used
<1>4. ASSUME NEW d \in Code \ {c} PROVE ClaimSound(d)' /\ (Owned(d)' <=> Owned(d))
  <2>1. ClaimSound(d) /\ d \in Code /\ (d \in expired' <=> d \in expired)
    BY <1>1 DEF Accounted, Books
  <2>. QED
    BY <1>1, <2>1, NobodyMoves, CodeAside
<1>5. ASSUME NEW w \in Worker PROVE PassSound(w)'
  <2>1. PassSound(w) /\ worker'[w] = worker[w] /\ expired \subseteq expired'
    BY <1>1 DEF Accounted, Books
  <2>2. \A d \in expired : issue[d] # "schedule" => issue'[d] # "schedule"
    BY <1>1
  <2>3. \A d \in expired : d \notin monthClaims /\ ~Underway(d)
                             => d \notin monthClaims' /\ ~Underway(d)'
    BY <1>1, NobodyMoves
  <2>. QED
    BY <2>1, <2>2, <2>3, PassAside
<1>6. ASSUME NEW r \in Request PROVE Answering(r)'
  BY <1>1 DEF Accounted, Books, Answering
<1>. QED
  BY <1>2, <1>3, <1>4, <1>5, <1>6

LEMMA TakeQuotaAccounts ==
    ASSUME Reliable, Accounted, NEW c \in Code, TakeQuota(c)
    PROVE  Books'
<1>0. issue \in [Code -> IssuePlace] /\ ClaimSound(c)
  BY DEF Accounted, Books, Held, ControlTypeOK
<1>1. issue[c] = "none" /\ NoRequest
  BY DEF TakeQuota
<1>2. born[c] = 0 /\ c \notin monthClaims \cup records \cup dayClaims \cup pending \cup expired
  BY <1>0, <1>1 DEF ClaimSound
<1>3. /\ born \in [Code -> 0..MaxDay] /\ today \in Nat \ {0}
  BY Period DEF Accounted, Books, CountersSound, Day
<1>4. CASE Consume(c) /\ UNCHANGED <<stored, token>> /\ Issuing(c, "schedule")
  <2>1. /\ UNCHANGED <<today, pending, records, stored>>
        /\ monthClaims' = monthClaims \cup {c} /\ dayClaims' = dayClaims \cup {c}
        /\ born'[c] = today /\ issue'[c] = "schedule"
        /\ \A d \in Code \ {c} : born'[d] = born[d] /\ issue'[d] = issue[d]
    BY <1>0, <1>3, <1>4 DEF Consume, Issuing
  <2>2. /\ ~Used(c) /\ ~Used(c)' /\ ~Underway(c)'
        /\ \A d \in Code \ {c} : ClaimSound(d)' /\ (Owned(d)' <=> Owned(d))
        /\ \A w \in Worker : PassSound(w)'
        /\ \A r \in Request : Answering(r)'
    BY <1>1, <1>2, <2>1, IssueFrame
  <2>3. ~MonthOver(c)'
    BY <2>1 DEF MonthOver
  <2>4. ~Owned(c) /\ Owned(c)'
    BY <1>2, <1>3, <2>1, <2>3 DEF Owned
  <2>5. ClaimSound(c)'
    BY <1>2, <1>3, <2>1, <2>2, <2>3 DEF ClaimSound, NoRequest
  <2>6. CountersSound'
    BY <1>4, <2>2, <2>4, UnitTaken
  <2>. QED
    BY <2>2, <2>5, <2>6 DEF Books
<1>5. CASE UNCHANGED redisVars /\ Issuing(c, "failed")
  <2>1. /\ UNCHANGED <<today, born, monthUsed, monthClaims, dayClaims, records, pending,
                       stored>>
        /\ issue'[c] = "failed" /\ \A d \in Code \ {c} : issue'[d] = issue[d]
    BY <1>0, <1>5 DEF redisVars, ledgerVars, Issuing
  <2>2. /\ ~Used(c) /\ ~Used(c)' /\ ~Underway(c)'
        /\ \A d \in Code \ {c} : ClaimSound(d)' /\ (Owned(d)' <=> Owned(d))
        /\ \A w \in Worker : PassSound(w)'
        /\ \A r \in Request : Answering(r)'
    BY <1>1, <2>1, IssueFrame
  <2>3. ClaimSound(c)' /\ ~Owned(c) /\ ~Owned(c)'
    BY <1>2, <2>1, <2>2 DEF ClaimSound, Owned
  <2>. QED
    BY <2>1, <2>2, <2>3, CountsStay DEF Books
<1>. QED
  BY <1>4, <1>5 DEF TakeQuota, Call, May, Reliable

LEMMA ScheduleRefundAccounts ==
    ASSUME Reliable, Accounted, NEW c \in Code, ScheduleRefund(c)
    PROVE  Books'
<1>0. issue \in [Code -> IssuePlace] /\ ClaimSound(c)
  BY DEF Accounted, Books, Held, ControlTypeOK
<1>1. /\ issue[c] = "schedule" /\ NoRequest
      /\ Schedule(c) /\ UNCHANGED <<stored, token>> /\ Issuing(c, "save")
  BY DEF ScheduleRefund, Call, May, Reliable
<1>2. /\ UNCHANGED <<today, born, monthUsed, monthClaims, dayClaims, stored>>
      /\ pending' = pending \cup {c}
      /\ records' = IF MonthOver(c) THEN records \ {c} ELSE records \cup {c}
      /\ issue'[c] = "save" /\ \A d \in Code \ {c} : issue'[d] = issue[d]
  BY <1>0, <1>1 DEF Schedule, Issuing
<1>3. /\ ~Used(c) /\ ~Used(c)' /\ ~Underway(c)'
      /\ \A d \in Code \ {c} : ClaimSound(d)' /\ (Owned(d)' <=> Owned(d))
      /\ \A w \in Worker : PassSound(w)'
      /\ \A r \in Request : Answering(r)'
  BY <1>1, <1>2, IssueFrame
<1>4. MonthOver(c)' <=> MonthOver(c)
  BY <1>2 DEF MonthOver
<1>5. ClaimSound(c)'
  <2>1. /\ c \in monthClaims => born[c] > 0 /\ ~MonthOver(c)
        /\ c \in dayClaims => c \in monthClaims
        /\ c \notin stored \/ ~Used(c)
        /\ born[c] > 0
        /\ MonthOver(c) \/ c \in monthClaims
    BY <1>0, <1>1 DEF ClaimSound
  <2>2. /\ c \in monthClaims' \cup records' => born'[c] > 0 /\ ~MonthOver(c)'
        /\ MonthOver(c)' \/ c \in monthClaims' \cap records'
    BY <1>2, <1>4, <2>1
  <2>. QED
    BY <1>2, <1>3, <2>1, <2>2 DEF ClaimSound
<1>6. Owned(c)' <=> Owned(c)
  BY <1>2, <1>3, <1>4 DEF Owned, Used
<1>7. CountersSound'
  BY <1>2, <1>3, <1>6, CountsStay
<1>. QED
  BY <1>3, <1>5, <1>7 DEF Books

LEMMA SaveCodeAccounts ==
    ASSUME Reliable, Accounted, NEW c \in Code, SaveCode(c) \/ AuditCode(c) \/ TakeBackCode(c)
    PROVE  Books'
<1>0. issue \in [Code -> IssuePlace] /\ ClaimSound(c)
  BY DEF Accounted, Books, Held, ControlTypeOK
<1>1. /\ UNCHANGED ledgerVars /\ NoRequest
      /\ \/ issue[c] = "save" /\ Issuing(c, "audit")
         \/ issue[c] = "audit" /\ (Issuing(c, "issued") \/ Issuing(c, "take"))
         \/ issue[c] = "take" /\ Issuing(c, "refund")
      /\ \A d \in Code \ {c} : d \in stored' <=> d \in stored
  BY DEF SaveCode, AuditCode, TakeBackCode, Call, May, Reliable, redisVars
<1>2. /\ UNCHANGED <<today, born, monthUsed, monthClaims, dayClaims, records, pending>>
      /\ issue[c] \notin {"none", "failed", "issued", "schedule"}
      /\ issue'[c] \notin {"none", "failed", "schedule"}
      /\ issue'[c] \in {"audit", "issued"} => issue[c] \in {"save", "audit"}
      /\ \A d \in Code \ {c} : issue'[d] = issue[d]
  BY <1>0, <1>1 DEF ledgerVars, Issuing
<1>3. /\ ~Used(c) /\ ~Used(c)' /\ ~Underway(c)'
      /\ \A d \in Code \ {c} : ClaimSound(d)' /\ (Owned(d)' <=> Owned(d))
      /\ \A w \in Worker : PassSound(w)'
      /\ \A r \in Request : Answering(r)'
  BY <1>1, <1>2, IssueFrame
<1>4. (MonthOver(c)' <=> MonthOver(c)) /\ expired' = expired
  BY <1>1, <1>2 DEF MonthOver, NoRequest
<1>5. ClaimSound(c)'
  <2>1. /\ c \in monthClaims' \cup records' => born'[c] > 0 /\ ~MonthOver(c)'
        /\ c \in dayClaims' => c \in monthClaims'
        /\ born'[c] > 0
    BY <1>0, <1>2, <1>4 DEF ClaimSound
  <2>2. issue'[c] \in {"save", "audit", "issued"} =>
            c \in expired' \/ MonthOver(c)' \/ c \in monthClaims' \cap records'
    BY <1>0, <1>1, <1>2, <1>3, <1>4 DEF ClaimSound, Issuing
  <2>. QED
    BY <1>2, <1>3, <2>1, <2>2 DEF ClaimSound
<1>6. Owned(c)' <=> Owned(c)
  BY <1>2, <1>3, <1>4 DEF Owned, Used
<1>7. CountersSound'
  BY <1>2, <1>3, <1>6, CountsStay
<1>. QED
  BY <1>3, <1>5, <1>7 DEF Books

LEMMA RefundCodeAccounts ==
    ASSUME Reliable, Accounted, NEW c \in Code, RefundCode(c)
    PROVE  Books'
<1>0. issue \in [Code -> IssuePlace] /\ ClaimSound(c)
  BY DEF Accounted, Books, Held, ControlTypeOK
<1>1. /\ issue[c] = "refund" /\ NoRequest
      /\ Refund(c) /\ UNCHANGED <<stored, token>> /\ Issuing(c, "failed")
  BY DEF RefundCode, Call, May, Reliable
<1>2. /\ UNCHANGED <<today, born, records, pending, stored>> /\ GiveBack(c)
      /\ dayClaims' = dayClaims \ {c} /\ monthClaims' = monthClaims \ {c}
      /\ issue'[c] = "failed" /\ \A d \in Code \ {c} : issue'[d] = issue[d]
  BY <1>0, <1>1 DEF Refund, GiveBack, Issuing
<1>3. /\ ~Used(c) /\ ~Used(c)' /\ ~Underway(c)'
      /\ \A d \in Code \ {c} : ClaimSound(d)' /\ (Owned(d)' <=> Owned(d))
      /\ \A w \in Worker : PassSound(w)'
      /\ \A r \in Request : Answering(r)'
  BY <1>1, <1>2, IssueFrame
<1>4. MonthOver(c)' <=> MonthOver(c)
  BY <1>2 DEF MonthOver
<1>5. ClaimSound(c)'
  BY <1>0, <1>2, <1>3, <1>4 DEF ClaimSound
<1>6. CountersSound'
  BY <1>1, <1>2, UnitGivenBack DEF NoRequest
<1>. QED
  BY <1>3, <1>5, <1>6 DEF Books

LEMMA IssueAccounts ==
    ASSUME Reliable, Accounted, NEW c \in Code, Issue(c)
    PROVE  Books'
BY TakeQuotaAccounts, ScheduleRefundAccounts, SaveCodeAccounts, RefundCodeAccounts DEF Issue

-----------------------------------------------------------------------------
(* The refund worker. *)

LEMMA WorkAccounts ==
    ASSUME Reliable, Accounted, NEW w \in Worker, Work(w)
    PROVE  Books'
<1>c. PICK c : c = worker[w].code
  OBVIOUS
<1>. USE <1>c
<1>0. /\ worker \in [Worker -> [pc : {"scan", "record", "refund", "drop"},
                                code : Code \cup {None}]]
      /\ expired \subseteq Code
      /\ \A d \in Code : ClaimSound(d)
      /\ \A v \in Worker : PassSound(v)
  BY DEF Accounted, Books, Held, ControlTypeOK
<1>1. UNCHANGED <<expired, issue, req, stored, today, born>>
  BY DEF Work, Scan, ReadRecord, RefundDue, Drop, Call, NoRedis, NoProcess, redisVars,
         ledgerVars, May, Reliable, DropMember, DropRecord, RefundPending
<1>2. \A d \in Code : /\ (Underway(d)' <=> Underway(d)) /\ (Spent(d)' <=> Spent(d))
                      /\ (MonthOver(d)' <=> MonthOver(d))
  BY <1>1, NobodyMoves DEF MonthOver
<1>3. \A r \in Request : Answering(r)'
  BY <1>1 DEF Accounted, Books, Answering
<1>4. worker[w].pc # "scan" => c \in Code /\ c \in expired /\ issue[c] # "schedule"
  BY <1>0 DEF PassSound
\* No claim is added, the record goes only with the claim, and the other passes
\* keep what they know.
<1>5. SUFFICES /\ CountersSound'
               /\ \A d \in Code : ClaimSound(d)'
               /\ PassSound(w)'
               /\ \A v \in Worker \ {w} : worker'[v] = worker[v]
               /\ monthClaims' \subseteq monthClaims
  <2>1. ASSUME NEW v \in Worker \ {w}, worker'[v] = worker[v],
               monthClaims' \subseteq monthClaims
        PROVE  PassSound(v)'
    <3>1. /\ v \in Worker /\ PassSound(v) /\ expired \subseteq expired'
          /\ \A d \in expired : issue[d] # "schedule" => issue'[d] # "schedule"
      BY <1>0, <1>1
    <3>2. \A d \in expired : d \notin monthClaims /\ ~Underway(d)
                               => d \notin monthClaims' /\ ~Underway(d)'
      BY <1>0, <1>2, <2>1
    <3>. QED
      BY <2>1, <3>1, <3>2, PassAside
  <2>. QED
    BY <1>3, <2>1 DEF Books
<1>6. CASE UNCHANGED ledgerVars /\ (Scan(w) \/ ReadRecord(w))
  <2>1. UNCHANGED <<today, born, monthUsed, monthClaims, dayClaims, records, pending>>
    BY <1>6 DEF ledgerVars
  <2>2. \A d \in Code : ClaimSound(d)' /\ (Owned(d)' <=> Owned(d))
    BY <1>0, <1>1, <1>2, <2>1, CodeAside
  <2>3. PICK pc \in {"scan", "record", "refund"}, d \in Code \cup {None} :
            /\ worker' = [worker EXCEPT ![w] = [pc |-> pc, code |-> d]]
            /\ pc # "scan" => d \in expired /\ issue[d] # "schedule"
    <3>1. CASE Scan(w)
      <4>1. PICK d \in Code : Due(d) /\ Working(w, "record", d)
        BY <3>1 DEF Scan
      <4>2. d \in expired /\ issue[d] # "schedule"
        BY <1>0, <4>1 DEF Due, ClaimSound
      <4>. QED
        BY <4>1, <4>2 DEF Working
    <3>2. CASE ReadRecord(w)
      <4>1. worker[w].pc = "record" /\ (Working(w, "refund", c) \/ Working(w, "scan", None))
        BY <3>2 DEF ReadRecord, Call, May, Reliable
      <4>. QED
        BY <1>0, <1>4, <4>1 DEF Working
    <3>. QED
      BY <1>6, <3>1, <3>2
  <2>4. worker'[w] = [pc |-> pc, code |-> d] /\ \A v \in Worker \ {w} : worker'[v] = worker[v]
    BY <1>0, <2>3
  <2>5. PassSound(w)'
    BY <1>1, <2>3, <2>4 DEF PassSound
  <2>6. CountersSound'
    BY <2>1, <2>2, CountsStay
  <2>. QED
    BY <2>1, <2>2, <2>4, <2>5, <2>6
<1>7. CASE DropMember(c) /\ worker[w].pc # "scan" /\ Working(w, "scan", None)
  <2>1. /\ UNCHANGED <<today, born, monthUsed, monthClaims, dayClaims, records>>
        /\ pending' = pending \ {c}
    BY <1>7 DEF DropMember
  <2>2. \A d \in Code \ {c} : ClaimSound(d)' /\ (Owned(d)' <=> Owned(d))
    BY <1>0, <1>1, <1>2, <2>1, CodeAside
  <2>3. ClaimSound(c)' /\ (Owned(c)' <=> Owned(c))
    BY <1>0, <1>1, <1>2, <1>4, <1>7, <2>1 DEF ClaimSound, Owned, Used
  <2>4. PassSound(w)' /\ \A v \in Worker \ {w} : worker'[v] = worker[v]
    BY <1>0, <1>7 DEF Working, PassSound
  <2>. QED
    BY <2>1, <2>2, <2>3, <2>4, CountsStay
<1>8. CASE worker[w].pc = "refund" /\ RefundDue(w)
  <2>1. /\ RefundPending(c)
        /\ \/ Refunds(c) /\ Working(w, "drop", c)
           \/ ~Refunds(c) /\ Working(w, "scan", None)
    BY <1>8 DEF RefundDue, Call, May, Reliable
  <2>2. c \in Code /\ c \in expired /\ issue[c] # "schedule" /\ ClaimSound(c)
    BY <1>0, <1>4, <1>8
  <2>3. /\ UNCHANGED records
        /\ \A d \in Code \ {c} :
             /\ d \in monthClaims' <=> d \in monthClaims
             /\ d \in dayClaims' <=> d \in dayClaims
             /\ d \in pending' <=> d \in pending
        /\ monthClaims' \subseteq monthClaims /\ dayClaims' \subseteq dayClaims
        /\ pending' \subseteq pending
        /\ c \in dayClaims' => c \in monthClaims'
    BY <2>1, <2>2 DEF RefundPending, GiveBack, ledgerVars, ClaimSound
  <2>4. \A d \in Code \ {c} : ClaimSound(d)'
    BY <1>0, <1>1, <1>2, <2>3, CodeAside
  <2>5. ClaimSound(c)'
    BY <1>1, <1>2, <2>2, <2>3 DEF ClaimSound, Used
  <2>6. CountersSound'
    <3>1. CASE GiveBack(c)
      BY <1>1, <2>2, <3>1, UnitGivenBack
    <3>2. CASE UNCHANGED ledgerVars
      <4>1. \A d \in Code : Owned(d)' <=> Owned(d)
        BY <1>2, <3>2 DEF ledgerVars, Owned
      <4>. QED
        BY <3>2, <4>1, CountsStay DEF ledgerVars
    <3>. QED
      BY <2>1, <3>1, <3>2 DEF RefundPending
  <2>7. PassSound(w)'
    <3>1. CASE Working(w, "scan", None)
      BY <1>0, <3>1 DEF Working, PassSound
    <3>2. CASE Refunds(c) /\ Working(w, "drop", c)
      <4>1. worker'[w] = [pc |-> "drop", code |-> c]
        BY <1>0, <3>2 DEF Working
      <4>2. c \in monthClaims /\ ~Underway(c)
        BY <2>2, <3>2 DEF Refunds, ClaimSound, Used
      <4>3. c \notin monthClaims'
        BY <2>1, <3>2 DEF RefundPending, Refunds, GiveBack
      <4>. QED
        BY <1>1, <1>2, <2>2, <4>1, <4>2, <4>3 DEF PassSound
    <3>. QED
      BY <2>1, <3>1, <3>2
  <2>8. \A v \in Worker \ {w} : worker'[v] = worker[v]
    BY <1>0, <2>1 DEF Working
  <2>. QED
    BY <2>3, <2>4, <2>5, <2>6, <2>7, <2>8
<1>9. CASE Drop(w)
  <2>1. worker[w].pc = "drop" /\ DropRecord(c) /\ Working(w, "scan", None)
    BY <1>9 DEF Drop, Call, May, Reliable
  <2>2. /\ UNCHANGED <<today, born, monthUsed, monthClaims, dayClaims, pending>>
        /\ records' = records \ {c}
    BY <2>1 DEF DropRecord
  <2>3. c \notin monthClaims /\ ~Underway(c)
    BY <1>0, <2>1 DEF PassSound
  <2>4. \A d \in Code \ {c} : ClaimSound(d)' /\ (Owned(d)' <=> Owned(d))
    BY <1>0, <1>1, <1>2, <2>2, CodeAside
  <2>5. ClaimSound(c)' /\ (Owned(c)' <=> Owned(c))
    BY <1>0, <1>1, <1>2, <1>4, <2>1, <2>2, <2>3 DEF ClaimSound, Owned, Used
  <2>6. PassSound(w)' /\ \A v \in Worker \ {w} : worker'[v] = worker[v]
    BY <1>0, <2>1 DEF Working, PassSound
  <2>. QED
    BY <2>2, <2>4, <2>5, <2>6, CountsStay
<1>. QED
  <2>1. CASE Scan(w)
    BY <1>6, <2>1 DEF Scan, NoRedis, redisVars
  <2>2. CASE ReadRecord(w)
    BY <1>6, <1>7, <2>2 DEF ReadRecord, NoRedis, redisVars, Call, May, Reliable
  <2>3. CASE RefundDue(w)
    BY <1>8, <2>3 DEF RefundDue
  <2>. QED
    BY <1>9, <2>1, <2>2, <2>3 DEF Work

-----------------------------------------------------------------------------
(* A request: what it uses, it has taken. *)

\* A step that neither takes a code nor puts one back.
LEMMA StepFrame ==
    ASSUME Accounted, NEW r \in Request, UNCHANGED <<ledgerVars, stored>>, NoIssue,
           \A s \in Request \ {r} : req'[s] = req[s],
           \A c \in Code : (Works(r, c)' <=> Works(r, c)) /\ (Spends(r, c)' <=> Spends(r, c)),
           Answering(r)'
    PROVE  Books'
<1>1. /\ UNCHANGED <<today, born, monthUsed, monthClaims, dayClaims, records, pending>>
      /\ UNCHANGED <<issue, expired, worker, stored>> /\ expired \subseteq Code
  BY DEF ledgerVars, NoIssue, Accounted, Held, ControlTypeOK
<1>2. ASSUME NEW c \in Code
      PROVE  (Underway(c)' <=> Underway(c)) /\ (Spent(c)' <=> Spent(c))
  BY DEF Underway, Spent, Works, Spends
<1>3. ASSUME NEW c \in Code PROVE ClaimSound(c)' /\ (Owned(c)' <=> Owned(c))
  BY <1>1, <1>2, CodeAside DEF Accounted, Books
<1>4. ASSUME NEW w \in Worker PROVE PassSound(w)'
  BY <1>1, <1>2, PassAside DEF Accounted, Books
<1>5. ASSUME NEW s \in Request PROVE Answering(s)'
  BY DEF Accounted, Books, Answering
<1>. QED
  BY <1>1, <1>3, <1>4, <1>5, CountsStay DEF Books

\* Who uses a code uses it alone.
LEMMA OneWorks ==
    ASSUME Accounted, NEW r \in Request, NEW c \in Code, Works(r, c)
    PROVE  /\ \A s \in Request : Works(s, c) => s = r
           /\ \A s \in Request : ~Spends(s, c)
<1>1. Underway(c) /\ ClaimSound(c)
  BY Users DEF Accounted, Books
<1>2. ASSUME NEW s \in Request, Works(s, c) PROVE Holds(s, c)
  BY <1>2 DEF Accounted, Books, Answering, Works, Holds
<1>3. \A s \in Request : Works(s, c) => s = r
  BY <1>2 DEF Accounted, Held, CodeIsHeldOnce
<1>4. ~Spent(c)
  BY <1>1 DEF ClaimSound
<1>. QED
  BY <1>3, <1>4, Users

LEMMA StartAccounts ==
    ASSUME Accounted, NEW r \in Request, NEW c \in Code, Start(r, c)
    PROVE  Books'
<1>. DEFINE x == [Idle EXCEPT !.pc = "find", !.code = c, !.secret = secret]
<1>1. /\ req[r].pc = "idle" /\ req' = [req EXCEPT ![r] = x]
      /\ UNCHANGED <<ledgerVars, stored>> /\ NoIssue
  BY DEF Start, At, NoRedis, redisVars
<1>2. req'[r] = x /\ \A s \in Request \ {r} : req'[s] = req[s]
  BY <1>1 DEF Accounted, Held, ControlTypeOK
<1>3. x.pc = "find" /\ x.result = "none"
  BY DEF Idle
<1>4. req[r].result = "none"
  BY <1>1 DEF Accounted, Held, RequestSound
<1>5. Answering(r)'
  BY <1>2, <1>3 DEF Answering
<1>6. \A d \in Code : /\ ~Works(r, d) /\ ~Works(r, d)' /\ ~Spends(r, d) /\ ~Spends(r, d)'
  BY <1>1, <1>2, <1>3, <1>4 DEF Works, Spends, Holding
<1>. QED
  BY <1>1, <1>2, <1>5, <1>6, StepFrame

\* Before it has the code, and from the code to the answer, a request goes from
\* place to place.
LEMMA MoveAccounts ==
    ASSUME Accounted, NEW r \in Request, UNCHANGED <<ledgerVars, stored>>, NoIssue,
           \A s \in Request \ {r} : req'[s] = req[s],
           req[r].result = "none", req'[r].result = "none",
           \/ /\ req[r].pc \notin Holding \cup {"reschedule"}
              /\ req'[r].pc \notin Holding \cup {"reschedule", "crashed"}
           \/ req'[r].code = req[r].code /\ req[r].pc \in Holding /\ req'[r].pc \in Holding
    PROVE  Books'
<1>1. \A c \in Code : /\ Works(r, c)' <=> Works(r, c)
                      /\ Spends(r, c)' <=> Spends(r, c)
  BY DEF Works, Spends
<1>2. Answering(r)'
  BY DEF Answering, Holding
<1>. QED
  BY <1>1, <1>2, StepFrame

LEMMA ReadAccounts ==
    ASSUME Accounted, NEW r \in Request,
           Find(r) \/ CheckSession(r) \/ Gate(r) \/ Fence(r) \/ GiveUp(r)
    PROVE  Books'
<1>. DEFINE x == [req[r] EXCEPT !.pc = "fence", !.consent = consent.version]
            y == [req[r] EXCEPT !.pc = "take", !.guard = "held"]
<1>1. /\ UNCHANGED <<ledgerVars, stored>> /\ NoIssue
      /\ req[r].pc \in {"find", "session", "gate", "fence"}
      /\ \/ Refuse(r) \/ Goto(r, "session") \/ Goto(r, "gate")
         \/ req' = [req EXCEPT ![r] = x] \/ req' = [req EXCEPT ![r] = y]
  BY DEF Accounted, Held, ControlTypeOK, Attempt, Find, CheckSession, Gate, Fence,
         GiveUp, NoRedis, redisVars, At
<1>2. /\ Held /\ req[r].result = "none"
      /\ req[r] \in Attempt /\ req \in [Request -> Attempt]
  BY <1>1 DEF Accounted, Held, RequestSound, ControlTypeOK
<1>3. /\ \A s \in Request \ {r} : req'[s] = req[s]
      /\ req'[r].pc \in {"idle", "session", "gate", "fence", "take"}
      /\ req'[r].result = "none"
  <2>1. CASE Refuse(r) \/ Goto(r, "session") \/ Goto(r, "gate")
    BY <1>2, <2>1, RefuseMoves, GotoMoves DEF Place
  <2>2. CASE req' = [req EXCEPT ![r] = x] \/ req' = [req EXCEPT ![r] = y]
    <3>1. x.pc = "fence" /\ x.result = "none" /\ y.pc = "take" /\ y.result = "none"
      BY <1>2 DEF Attempt
    <3>. QED
      BY <1>2, <2>2, <3>1
  <2>. QED
    BY <1>1, <2>1, <2>2
<1>. QED
  BY <1>1, <1>2, <1>3, MoveAccounts DEF Holding

LEMMA TakeCodeAccounts ==
    ASSUME Reliable, Accounted, NEW r \in Request, TakeCode(r)
    PROVE  Books'
<1>c. PICK c : c = req[r].code
  OBVIOUS
<1>. USE <1>c
<1>1. /\ req[r].pc = "take" /\ req[r].result = "none" /\ NoIssue /\ Held
      /\ \/ Takeable(c) /\ Claim(c) /\ stored' = stored \ {c} /\ Goto(r, "save")
         \/ UNCHANGED <<ledgerVars, stored>> /\ Refuse(r)
  BY DEF Accounted, Held, RequestSound, TakeCode, Call, May, Reliable, At, NoRedis, redisVars
<1>2. CASE UNCHANGED <<ledgerVars, stored>> /\ Refuse(r)
  BY <1>1, <1>2, RefuseMoves, MoveAccounts DEF Holding
<1>3. CASE Takeable(c) /\ Claim(c) /\ stored' = stored \ {c} /\ Goto(r, "save")
  <2>1. /\ req'[r].pc = "save" /\ req'[r].code = c /\ req'[r].result = "none"
        /\ \A s \in Request \ {r} : req'[s] = req[s]
    BY <1>1, <1>3, GotoMoves DEF Place
  <2>2. /\ UNCHANGED <<today, born, monthUsed, records, issue, expired, worker>>
        /\ monthClaims' = monthClaims \ {c} /\ dayClaims' = dayClaims \ {c}
        /\ pending' = pending \ {c} /\ expired \subseteq Code
    BY <1>1, <1>3 DEF Claim, NoIssue, Held, ControlTypeOK
  <2>3. c \in Code /\ c \in stored /\ ClaimSound(c) /\ issue[c] = "issued"
    BY <1>1, <1>3, NoneAssumption DEF Takeable, Held, ControlTypeOK, RequestSound, Accounted, Books
  <2>4. /\ c \in monthClaims /\ c \in records /\ ~Used(c)
        /\ born[c] > 0 /\ ~MonthOver(c)
    BY <1>3, <2>3 DEF Takeable, Claimable, ClaimSound
  <2>5. \A d \in Code : MonthOver(d)' <=> MonthOver(d)
    BY <2>2 DEF MonthOver
  <2>6. /\ \A d \in Code \ {c} : Underway(d)' <=> Underway(d)
        /\ \A d \in Code : Spent(d)' <=> Spent(d)
        /\ Underway(c)'
    BY <1>1, <2>1 DEF Underway, Spent, Holding
  <2>7. ASSUME NEW d \in Code \ {c} PROVE ClaimSound(d)' /\ (Owned(d)' <=> Owned(d))
    <3>1. ClaimSound(d) /\ d \in Code
      BY DEF Accounted, Books
    <3>. QED
      BY <1>3, <2>2, <2>6, <3>1, CodeAside
  <2>8. ClaimSound(c)'
    BY <1>3, <2>2, <2>3, <2>4, <2>5, <2>6 DEF ClaimSound, Used
  <2>9. Owned(c)' <=> Owned(c)
    BY <2>2, <2>3, <2>4, <2>5, <2>6 DEF Owned
  <2>10. ASSUME NEW w \in Worker PROVE PassSound(w)'
    <3>1. PassSound(w)
      BY DEF Accounted, Books
    <3>2. \A d \in expired : d \notin monthClaims /\ ~Underway(d)
                               => d \notin monthClaims' /\ ~Underway(d)'
      BY <2>2, <2>4, <2>6
    <3>. QED
      BY <2>2, <3>1, <3>2, PassAside
  <2>11. ASSUME NEW s \in Request PROVE Answering(s)'
    BY <2>1 DEF Accounted, Books, Answering
  <2>. QED
    BY <2>2, <2>7, <2>8, <2>9, <2>10, <2>11, CountsStay DEF Books
<1>. QED
  BY <1>1, <1>2, <1>3

LEMMA UseAccounts ==
    ASSUME Reliable, Accounted, NEW r \in Request,
           Save(r) \/ Release(r) \/ Confirm(r) \/ Publish(r)
             \/ (Audit(r) /\ ~Finish(r, "ok"))
             \/ (Remove(r) /\ Goto(r, "restore")) \/ LoseGuard(r)
    PROVE  Books'
<1>. DEFINE x == [req[r] EXCEPT !.pc = "confirm", !.guard = "none"]
            y == [req[r] EXCEPT !.guard = "lost"]
<1>1. /\ UNCHANGED <<ledgerVars, stored>> /\ NoIssue
      /\ \/ /\ req[r].pc \in Holding
            /\ \/ Goto(r, "release") \/ Goto(r, "publish") \/ Goto(r, "audit")
               \/ Goto(r, "restore") \/ \E reason \in Reason : TakeBack(r, reason)
               \/ req' = [req EXCEPT ![r] = x]
         \/ req' = [req EXCEPT ![r] = y]
  <2>1. CASE Save(r)
    BY <2>1 DEF Save, Call, May, Reliable, At, Holding
  <2>2. CASE Release(r)
    BY <2>2 DEF Accounted, Held, ControlTypeOK, Attempt, Release, At, Holding, NoRedis,
                redisVars, Reason
  <2>3. CASE Confirm(r) \/ Publish(r)
    BY <2>3 DEF Confirm, Publish, At, Holding, NoRedis, redisVars, Reason
  <2>4. CASE Audit(r) /\ ~Finish(r, "ok")
    BY <2>4 DEF Audit, At, Holding, NoRedis, redisVars, Reason
  <2>5. CASE Remove(r) /\ Goto(r, "restore")
    BY <2>5 DEF Remove, Call, May, Reliable, At, Holding
  <2>6. CASE LoseGuard(r)
    BY <2>6 DEF LoseGuard, NoRedis, redisVars, Accounted, Held, ControlTypeOK, Attempt
  <2>. QED
    BY <2>1, <2>2, <2>3, <2>4, <2>5, <2>6
<1>2. /\ Held /\ req[r] \in Attempt /\ req \in [Request -> Attempt]
      /\ req[r].pc \in Holding => req[r].result = "none"
  BY DEF Accounted, Held, RequestSound, ControlTypeOK, Holding
<1>3. CASE req' = [req EXCEPT ![r] = y]
  <2>1. y.pc = req[r].pc /\ y.code = req[r].code /\ y.result = req[r].result
    BY <1>2 DEF Attempt
  <2>2. req'[r] = y /\ \A s \in Request \ {r} : req'[s] = req[s]
    BY <1>2, <1>3
  <2>3. \A c \in Code : (Works(r, c)' <=> Works(r, c)) /\ (Spends(r, c)' <=> Spends(r, c))
    BY <2>1, <2>2 DEF Works, Spends
  <2>4. Answering(r)'
    BY <2>1, <2>2 DEF Accounted, Books, Answering
  <2>. QED
    BY <1>1, <2>2, <2>3, <2>4, StepFrame
<1>4. CASE req[r].pc \in Holding /\ req' # [req EXCEPT ![r] = y]
  <2>1. /\ \A s \in Request \ {r} : req'[s] = req[s]
        /\ req'[r].pc \in Holding /\ req'[r].code = req[r].code
        /\ req'[r].result = "none"
    <3>1. CASE req' = [req EXCEPT ![r] = x]
      <4>1. x.pc = "confirm" /\ x.code = req[r].code /\ x.result = "none"
        BY <1>2, <1>4 DEF Attempt
      <4>. QED
        BY <1>2, <3>1, <4>1 DEF Holding
    <3>2. CASE req' # [req EXCEPT ![r] = x]
      BY <1>1, <1>2, <1>4, <3>2, GotoMoves, TakeBackMoves DEF Place, Holding
    <3>. QED
      BY <3>1, <3>2
  <2>. QED
    BY <1>1, <1>2, <1>4, <2>1, MoveAccounts
<1>. QED
  BY <1>1, <1>3, <1>4

\* The code is spent: the answer, or a consent withdrawn meanwhile, ends its use.
LEMMA SpendAccounts ==
    ASSUME Accounted, NEW r \in Request, NEW result \in {"ok", "withdrawn"},
           UNCHANGED <<ledgerVars, stored>>, NoIssue, Finish(r, result),
           req[r].pc \in Holding
    PROVE  Books'
<1>c. PICK c : c = req[r].code
  OBVIOUS
<1>. USE <1>c
<1>1. Held /\ result \in Result
  BY DEF Accounted, Result
<1>2. /\ req'[r].pc = "done" /\ req'[r].code = c /\ req'[r].result = result
      /\ \A s \in Request \ {r} : req'[s] = req[s]
  BY <1>1, FinishMoves
<1>3. c \in Code /\ Works(r, c) /\ ClaimSound(c)
  BY DEF Accounted, Books, Held, RequestSound, ControlTypeOK, Attempt, Works, Holding
<1>4. /\ UNCHANGED <<today, born, monthUsed, monthClaims, dayClaims, records, pending>>
      /\ UNCHANGED <<issue, expired, worker, stored>> /\ expired \subseteq Code
      /\ \A d \in Code : MonthOver(d)' <=> MonthOver(d)
  BY DEF ledgerVars, NoIssue, Accounted, Held, ControlTypeOK, MonthOver
<1>5. \A s \in Request : Works(s, c) => s = r
  BY <1>3, OneWorks
<1>6. /\ \A d \in Code \ {c} : (Underway(d)' <=> Underway(d)) /\ (Spent(d)' <=> Spent(d))
      /\ ~Underway(c)' /\ Spent(c)'
  <2>1. ~Underway(c)' /\ Spent(c)'
    BY <1>2, <1>5 DEF Underway, Spent, Works, Holding
  <2>2. \A d \in Code \ {c} : ~Works(r, d) /\ ~Works(r, d)' /\ ~Spends(r, d) /\ ~Spends(r, d)'
    BY <1>2 DEF Works, Spends
  <2>3. \A s \in Request \ {r}, d \in Code : /\ Works(s, d)' <=> Works(s, d)
                                             /\ Spends(s, d)' <=> Spends(s, d)
    BY <1>2 DEF Works, Spends
  <2>4. \A d \in Code \ {c} : (Underway(d)' <=> Underway(d)) /\ (Spent(d)' <=> Spent(d))
    BY <2>2, <2>3 DEF Underway, Spent, Works, Spends
  <2>. QED
    BY <2>1, <2>4
<1>7. Underway(c)
  BY <1>3, Users
<1>8. ASSUME NEW d \in Code \ {c} PROVE ClaimSound(d)' /\ (Owned(d)' <=> Owned(d))
  BY <1>4, <1>6, CodeAside DEF Accounted, Books
<1>9. ClaimSound(c)' /\ (Owned(c)' <=> Owned(c))
  BY <1>3, <1>4, <1>6, <1>7 DEF ClaimSound, Owned, Used
<1>10. ASSUME NEW w \in Worker PROVE PassSound(w)'
  <2>1. \A d \in expired : d \notin monthClaims /\ ~Underway(d)
                             => d \notin monthClaims' /\ ~Underway(d)'
    BY <1>4, <1>6
  <2>. QED
    BY <1>4, <2>1, PassAside DEF Accounted, Books
<1>11. ASSUME NEW s \in Request PROVE Answering(s)'
  BY <1>2 DEF Accounted, Books, Answering
<1>. QED
  BY <1>4, <1>8, <1>9, <1>10, <1>11, CountsStay DEF Books

\* A code that was taken for nothing comes back with its claim.
LEMMA RestoreCodeAccounts ==
    ASSUME Reliable, Accounted, NEW r \in Request, RestoreCode(r)
    PROVE  Books'
<1>c. PICK c : c = req[r].code
  OBVIOUS
<1>. USE <1>c
<1>1. /\ req[r].pc = "restore" /\ NoIssue /\ Held
      /\ Restore(c) /\ stored' \in {stored, stored \cup {c}} /\ Refuse(r)
  BY DEF Accounted, RestoreCode, Call, May, Reliable, At
<1>2. /\ req'[r].pc = "idle" /\ req'[r].code = None /\ req'[r].result = "none"
      /\ \A s \in Request \ {r} : req'[s] = req[s]
  BY <1>1, RefuseMoves
<1>3. c \in Code /\ Works(r, c) /\ ClaimSound(c) /\ issue[c] = "issued"
  BY <1>1 DEF Accounted, Books, Held, RequestSound, ControlTypeOK, Attempt, Works, Holding
<1>4. /\ UNCHANGED <<today, born, monthUsed, records, issue, expired, worker>>
      /\ pending' = pending \cup {c} /\ expired \subseteq Code
      /\ monthClaims' = IF c \in records THEN monthClaims \cup {c} ELSE monthClaims
      /\ dayClaims' = IF c \in records THEN dayClaims \cup {c} ELSE dayClaims
      /\ \A d \in Code : MonthOver(d)' <=> MonthOver(d)
  BY <1>1 DEF Restore, NoIssue, Held, ControlTypeOK, MonthOver
<1>5. /\ \A s \in Request : Works(s, c) => s = r
      /\ \A s \in Request : ~Spends(s, c)
  BY <1>3, OneWorks
<1>6. /\ \A d \in Code \ {c} : (Underway(d)' <=> Underway(d)) /\ (Spent(d)' <=> Spent(d))
      /\ ~Underway(c)' /\ ~Spent(c)'
  <2>1. \A d \in Code : ~Works(r, d)' /\ ~Spends(r, d)'
    BY <1>2, NoneAssumption DEF Works, Spends, Holding
  <2>2. \A d \in Code \ {c} : ~Works(r, d) /\ ~Spends(r, d)
    BY DEF Works, Spends
  <2>3. \A s \in Request \ {r}, d \in Code : /\ Works(s, d)' <=> Works(s, d)
                                             /\ Spends(s, d)' <=> Spends(s, d)
    BY <1>2 DEF Works, Spends
  <2>4. ~Underway(c)' /\ ~Spent(c)'
    BY <1>3, <1>5, <2>1, <2>3 DEF Underway, Spent, Works, Spends
  <2>5. \A d \in Code \ {c} : (Underway(d)' <=> Underway(d)) /\ (Spent(d)' <=> Spent(d))
    BY <2>1, <2>2, <2>3 DEF Underway, Spent, Works, Spends
  <2>. QED
    BY <2>4, <2>5
<1>7. Underway(c)
  BY <1>3, Users
<1>8. ASSUME NEW d \in Code \ {c} PROVE ClaimSound(d)' /\ (Owned(d)' <=> Owned(d))
  <2>1. ClaimSound(d) /\ d \in Code
    BY DEF Accounted, Books
  <2>. QED
    BY <1>1, <1>4, <1>6, <2>1, CodeAside
<1>9. /\ born[c] > 0
      /\ c \in records => ~MonthOver(c)
      /\ MonthOver(c) \/ c \in records
      /\ c \in monthClaims => ~MonthOver(c)
  BY <1>3, <1>7 DEF ClaimSound
<1>10. ClaimSound(c)'
  BY <1>3, <1>4, <1>6, <1>9 DEF ClaimSound, Used
<1>11. Owned(c)' <=> Owned(c)
  BY <1>3, <1>4, <1>6, <1>7, <1>9 DEF Owned
<1>12. ASSUME NEW w \in Worker PROVE PassSound(w)'
  <2>1. \A d \in expired : d \notin monthClaims /\ ~Underway(d)
                             => d \notin monthClaims' /\ ~Underway(d)'
    BY <1>4, <1>6, <1>7
  <2>. QED
    BY <1>4, <2>1, PassAside DEF Accounted, Books
<1>13. ASSUME NEW s \in Request PROVE Answering(s)'
  BY <1>2 DEF Accounted, Books, Answering
<1>. QED
  BY <1>4, <1>8, <1>10, <1>11, <1>12, <1>13, CountsStay DEF Books

LEMMA RequestAccounts ==
    ASSUME Reliable, Accounted, NEW r \in Request,
           Step(r) \/ GiveUp(r) \/ Crash(r) \/ LoseGuard(r)
    PROVE  Books'
<1>1. ~Crash(r) /\ ~Reschedule(r)
  BY DEF Crash, May, Reliable, Reschedule, At, Accounted, Books, Answering
<1>2. CASE Audit(r) /\ Finish(r, "ok")
  BY <1>2, SpendAccounts DEF Audit, At, Holding, NoRedis, redisVars
<1>3. CASE Remove(r) /\ ~Goto(r, "restore")
  <2>1. /\ UNCHANGED <<ledgerVars, stored>> /\ NoIssue /\ Finish(r, "withdrawn")
        /\ req[r].pc \in Holding
    BY <1>3 DEF Remove, Call, May, Reliable, At, Holding
  <2>. QED
    BY <2>1, SpendAccounts
<1>. QED
  BY <1>1, <1>2, <1>3, ReadAccounts, TakeCodeAccounts, UseAccounts, RestoreCodeAccounts
     DEF Step

-----------------------------------------------------------------------------
(* Time, and what happens around the requests. *)

\* What leaves ledger, requests and issuances alone, and adds no code to Redis.
LEMMA ClockAccounts ==
    ASSUME Accounted, UNCHANGED <<ledgerVars, issue, req, worker>>,
           stored' \subseteq stored, expired \subseteq expired', expired' \subseteq Code,
           \A c \in expired' : c \in expired \/ issue[c] # "none"
    PROVE  Books'
<1>1. /\ UNCHANGED <<today, born, monthUsed, monthClaims, dayClaims, records, pending>>
      /\ expired \subseteq Code
  BY DEF ledgerVars
<1>2. \A c \in Code : /\ (Underway(c)' <=> Underway(c)) /\ (Spent(c)' <=> Spent(c))
                      /\ (MonthOver(c)' <=> MonthOver(c))
  BY <1>1, NobodyMoves DEF MonthOver
<1>3. ASSUME NEW c \in Code PROVE ClaimSound(c)' /\ (Owned(c)' <=> Owned(c))
  <2>1. ClaimSound(c)
    BY DEF Accounted, Books
  <2>. QED
    BY <1>1, <1>2, <2>1 DEF ClaimSound, Owned, Used
<1>4. ASSUME NEW w \in Worker PROVE PassSound(w)'
  <2>1. \A c \in expired : c \notin monthClaims /\ ~Underway(c)
                             => c \notin monthClaims' /\ ~Underway(c)'
    BY <1>1, <1>2
  <2>. QED
    BY <2>1, PassAside DEF Accounted, Books
<1>5. ASSUME NEW r \in Request PROVE Answering(r)'
  BY DEF Accounted, Books, Answering
<1>. QED
  BY <1>1, <1>3, <1>4, <1>5, CountsStay DEF Books

\* At midnight the counter of a month that ends goes with all it was owned by.
LEMMA NextDayAccounts ==
    ASSUME Accounted, NextDay
    PROVE  Books'
<1>0. /\ today \in Day /\ born \in [Code -> 0..MaxDay]
      /\ \A c \in Code : born[c] <= today
      /\ monthUsed \in [Month -> Nat]
      /\ \A m \in Month : m # MonthOf(today) => monthUsed[m] = 0
      /\ IsFiniteSet({c \in Code : Owned(c)})
      /\ monthUsed[MonthOf(today)] = Cardinality({c \in Code : Owned(c)})
  BY DEF Accounted, Books, CountersSound, QuotaIsOwned
<1>1. /\ today < MaxDay /\ today' = today + 1
      /\ monthUsed' = [m \in Month |-> IF m = MonthOf(today + 1) THEN monthUsed[m] ELSE 0]
      /\ UNCHANGED <<born, pending, stored, token, expired, issue, req, worker>>
      /\ expired \subseteq Code
  BY DEF NextDay, Midnight, NoStep, Accounted, Held, ControlTypeOK
<1>2. /\ today' \in Day /\ today \in Nat \ {0} /\ today + 1 \in Nat \ {0}
      /\ \A c \in Code : born[c] \in Nat /\ born[c] <= today'
  BY <1>0, <1>1, Period DEF Day
<1>3. \A c \in Code : (Underway(c)' <=> Underway(c)) /\ (Spent(c)' <=> Spent(c))
  BY <1>1, NobodyMoves
<1>4. \A c \in Code : born[c] > 0 /\ MonthOver(c) => MonthOver(c)'
  BY <1>1, OverStaysOver
<1>5. ASSUME NEW c \in Code
      PROVE  /\ c \in monthClaims' <=> c \in monthClaims /\ (born[c] = 0 \/ ~MonthOver(c)')
             /\ c \in records' <=> c \in records /\ (born[c] = 0 \/ ~MonthOver(c)')
             /\ c \in dayClaims' => c \in dayClaims /\ (born[c] = 0 \/ ~MonthOver(c)')
  BY <1>1, <1>2 DEF NextDay, Midnight, MonthOver
<1>6. ASSUME NEW c \in Code PROVE ClaimSound(c)'
  <2>1. ClaimSound(c)
    BY DEF Accounted, Books
  <2>2. /\ c \in monthClaims' \cup records' => born'[c] > 0 /\ ~MonthOver(c)'
        /\ c \in dayClaims' => c \in monthClaims'
        /\ c \in monthClaims' \cup stored' => ~Used(c)'
    BY <1>1, <1>2, <1>3, <1>5, <2>1 DEF ClaimSound, Used
  <2>3. Underway(c)' => ~Spent(c)' /\ (MonthOver(c)' \/ c \in records')
    <3>1. Underway(c) => issue[c] = "issued"
      BY NoneAssumption DEF Accounted, Held, RequestSound, Underway
    <3>2. Underway(c) => born[c] > 0 /\ ~Spent(c) /\ (MonthOver(c) \/ c \in records)
      BY <2>1, <3>1 DEF ClaimSound
    <3>. QED
      BY <1>2, <1>3, <1>4, <1>5, <3>2
  <2>4. issue'[c] = "schedule" => MonthOver(c)' \/ c \in monthClaims'
    BY <1>1, <1>4, <1>5, <2>1 DEF ClaimSound
  <2>5. issue'[c] \in {"save", "audit", "issued"} =>
            c \in expired' \/ MonthOver(c)' \/ Used(c)' \/ c \in monthClaims' \cap records'
    BY <1>1, <1>3, <1>4, <1>5, <2>1 DEF ClaimSound, Used
  <2>. QED
    BY <1>1, <2>1, <2>2, <2>3, <2>4, <2>5 DEF ClaimSound
<1>7. ASSUME NEW w \in Worker PROVE PassSound(w)'
  <2>1. \A c \in expired : c \notin monthClaims /\ ~Underway(c)
                             => c \notin monthClaims' /\ ~Underway(c)'
    BY <1>1, <1>3, <1>5
  <2>. QED
    BY <1>1, <2>1, PassAside DEF Accounted, Books
<1>8. ASSUME NEW r \in Request PROVE Answering(r)'
  BY <1>1 DEF Accounted, Books, Answering
<1>9. CountersSound'
  <2>1. /\ monthUsed' \in [Month -> Nat]
        /\ \A m \in Month : m # MonthOf(today') => monthUsed'[m] = 0
        /\ MonthOf(today') \in Month
        /\ monthUsed'[MonthOf(today')] = monthUsed[MonthOf(today')]
    BY <1>0, <1>1, <1>2 DEF Month
  <2>2. CASE MonthOf(today') = MonthOf(today)
    <3>1. \A c \in Code : MonthOver(c)' <=> MonthOver(c)
      BY <1>1, <2>2 DEF MonthOver
    <3>2. \A c \in Code : c \in monthClaims => ~MonthOver(c)
      BY DEF Accounted, Books, ClaimSound
    <3>3. \A c \in Code : Owned(c)' <=> Owned(c)
      BY <1>1, <1>3, <1>5, <3>1, <3>2 DEF Owned
    <3>4. {c \in Code : Owned(c)'} = {c \in Code : Owned(c)}
      BY <3>3
    <3>. QED
      BY <1>0, <1>1, <1>2, <2>1, <2>2, <3>4 DEF CountersSound, QuotaIsOwned
  <2>3. CASE MonthOf(today') # MonthOf(today)
    <3>1. ASSUME NEW c \in Code, born[c] > 0 PROVE MonthOver(c)'
      <4>1. /\ MonthOf(born[c]) <= MonthOf(today) /\ MonthOf(today) <= MonthOf(today + 1)
            /\ MonthOf(born[c]) \in Int /\ MonthOf(today) \in Int /\ MonthOf(today + 1) \in Int
        BY <1>0, <1>2, <3>1, MonthsGrow
      <4>2. MonthOf(born[c]) # MonthOf(today + 1)
        BY <1>1, <2>3, <4>1
      <4>. QED
        BY <1>1, <4>2 DEF MonthOver
    <3>2. {c \in Code : Owned(c)'} = {}
      BY <1>1, <3>1 DEF Owned
    <3>3. monthUsed'[MonthOf(today')] = 0
      BY <1>0, <2>1, <2>3
    <3>4. IsFiniteSet({}) /\ Cardinality({}) = 0
      BY FS_EmptySet
    <3>. QED
      BY <1>0, <1>1, <1>2, <2>1, <3>2, <3>3, <3>4 DEF CountersSound, QuotaIsOwned
  <2>. QED
    BY <2>2, <2>3
<1>. QED
  BY <1>6, <1>7, <1>8, <1>9 DEF Books

LEMMA WorldAccounts ==
    ASSUME Accounted, World
    PROVE  Books'
<1>. USE DEF NoStep, redisVars, worldVars
<1>0. expired \subseteq Code
  BY DEF Accounted, Held, ControlTypeOK
<1>1. CASE \E c \in Code : Expire(c) \/ KeyExpires(c)
  BY <1>0, <1>1, ClockAccounts DEF Expire, KeyExpires
<1>2. CASE \E r \in Request : Delete(r)
  BY <1>0, <1>2, ClockAccounts DEF Delete
<1>3. CASE NextDay
  BY <1>3, NextDayAccounts
<1>4. CASE Logout \/ RevokeConsent \/ GrantConsent \/ RotateSecret \/ EndCut \/ EndSweep
  <2>1. UNCHANGED <<ledgerVars, issue, req, worker, stored, expired>>
    BY <1>4 DEF Logout, RevokeConsent, GrantConsent, RotateSecret, EndCut, EndSweep
  <2>. QED
    BY <1>0, <2>1, ClockAccounts
<1>. QED
  BY <1>1, <1>2, <1>3, <1>4 DEF World

-----------------------------------------------------------------------------
(* Its theorems. *)

LEMMA InitAccounted == Init => Accounted
<1>. SUFFICES ASSUME Init PROVE Accounted
  OBVIOUS
<1>1. CountersSound
  <2>1. today \in Day /\ today = 1
    BY Period DEF Init, LedgerInit, Day
  <2>2. born \in [Code -> 0..MaxDay] /\ \A c \in Code : born[c] = 0
    BY Period DEF Init, LedgerInit
  <2>3. /\ monthUsed \in [Month -> Nat] /\ \A m \in Month : monthUsed[m] = 0
        /\ MonthOf(today) \in Month
    BY <2>1 DEF Init, LedgerInit, Month
  <2>4. {c \in Code : Owned(c)} = {}
    BY <2>2 DEF Owned
  <2>5. IsFiniteSet({}) /\ Cardinality({}) = 0
    BY FS_EmptySet
  <2>. QED
    BY <2>1, <2>2, <2>3, <2>4, <2>5 DEF CountersSound, QuotaIsOwned
<1>2. \A r \in Request : req[r].pc = "idle" /\ req[r].result = "none"
  BY IdleAttempt DEF Init
<1>3. ASSUME NEW c \in Code PROVE ClaimSound(c)
  <2>1. ~Underway(c) /\ ~Spent(c)
    BY <1>2 DEF Underway, Spent, Holding
  <2>. QED
    BY <2>1 DEF Init, LedgerInit, ClaimSound, Used
<1>4. ASSUME NEW w \in Worker PROVE PassSound(w)
  BY DEF Init, PassSound
<1>5. ASSUME NEW r \in Request PROVE Answering(r)
  BY <1>2 DEF Answering
<1>. QED
  BY <1>1, <1>3, <1>4, <1>5, InitHeld DEF Accounted, Books

LEMMA StepAccounted == Reliable /\ Accounted /\ [Next]_vars => Accounted'
<1>. SUFFICES ASSUME Reliable, Accounted, [Next]_vars PROVE Accounted'
  OBVIOUS
<1>1. Held'
  BY StepHeld DEF Accounted
<1>2. CASE UNCHANGED vars
  <2>1. /\ UNCHANGED <<ledgerVars, issue, req, worker, stored, expired>>
        /\ expired \subseteq Code
    BY <1>2 DEF vars, redisVars, Accounted, Held, ControlTypeOK
  <2>. QED
    BY <1>1, <2>1, ClockAccounts DEF Accounted
<1>3. CASE Next
  <2>1. Books'
    BY <1>3, IssueAccounts, RequestAccounts, StartAccounts, WorkAccounts, WorldAccounts
       DEF Next
  <2>. QED
    BY <1>1, <2>1 DEF Accounted
<1>. QED
  BY <1>2, <1>3

LEMMA AlwaysAccounted ==
    ASSUME Reliable
    PROVE  Spec => []Accounted
<1>1. Accounted /\ [Next]_vars => Accounted'
  BY StepAccounted
<1>. QED
  BY <1>1, InitAccounted, PTL DEF Spec

\* Without an unanswered call to Redis and without a crash the counter of the
\* month is exact at any time, over any number of months: no unit leaks, and none
\* is given back twice or after redemption.
THEOREM QuotaOwned == Reliable => (Spec => []QuotaIsOwned)
<1>. SUFFICES ASSUME Reliable PROVE Spec => []QuotaIsOwned
  OBVIOUS
<1>1. Accounted => QuotaIsOwned
  BY DEF Accounted, Books, CountersSound
<1>. QED
  BY <1>1, AlwaysAccounted, PTL

\* The unit of a redeemed code stays taken to the end of its month: what the
\* lost reply of Redis breaks (the finding at code_lost_reply), nothing else does.
THEOREM RedeemedCharged == Reliable => (Spec => []RedeemedIsCharged)
<1>. SUFFICES ASSUME Reliable PROVE Spec => []RedeemedIsCharged
  OBVIOUS
<1>1. ASSUME Accounted PROVE RedeemedIsCharged
  <2>. DEFINE S == {c \in Code : Owned(c)}
              T == {c \in Code : born[c] > 0 /\ ~MonthOver(c) /\ Redeeming(c) # {}}
  <2>1. IsFiniteSet(S) /\ monthUsed[MonthOf(today)] = Cardinality(S)
    BY <1>1 DEF Accounted, Books, CountersSound, QuotaIsOwned
  <2>2. T \subseteq S
    BY DEF Redeeming, Owned, Spent
  <2>3. /\ IsFiniteSet(T) /\ Cardinality(T) <= Cardinality(S)
        /\ Cardinality(S) \in Nat /\ Cardinality(T) \in Nat
    BY <2>1, <2>2, FS_Subset, FS_CardinalityType
  <2>. QED
    BY <2>1, <2>3 DEF RedeemedIsCharged
<1>. QED
  BY <1>1, AlwaysAccounted, PTL

\* The worker never takes the claim of a live code: one that Redis has can be
\* redeemed, until it expires or the month of its reservation is over.
THEOREM CurrentCodeRedeemable ==
    Reliable => (Spec => [](\A c \in stored \ expired :
                               issue[c] = "issued" /\ ~MonthOver(c) => Claimable(c)))
<1>. SUFFICES ASSUME Reliable
              PROVE  Spec => [](\A c \in stored \ expired :
                                   issue[c] = "issued" /\ ~MonthOver(c) => Claimable(c))
  OBVIOUS
<1>1. ASSUME Accounted, NEW c \in stored \ expired, issue[c] = "issued", ~MonthOver(c)
      PROVE  Claimable(c)
  <2>1. ClaimSound(c)
    BY <1>1 DEF Accounted, Books, Held, ControlTypeOK
  <2>. QED
    BY <1>1, <2>1 DEF ClaimSound, Claimable
<1>2. Accounted => \A c \in stored \ expired :
                      issue[c] = "issued" /\ ~MonthOver(c) => Claimable(c)
  BY <1>1
<1>. QED
  BY <1>2, AlwaysAccounted, PTL

\* So within one month, which is what the finding at code_month_end is about,
\* every stored and unexpired code that was issued can be redeemed.
THEOREM LiveCodeRedeemable ==
    Reliable /\ MaxDay <= DaysPerMonth => (Spec => []LiveCodeIsRedeemable)
<1>. SUFFICES ASSUME Reliable, MaxDay <= DaysPerMonth
              PROVE  Spec => []LiveCodeIsRedeemable
  OBVIOUS
<1>1. \A d \in Day : MonthOf(d) = 1
  BY Period DEF Day, MonthOf
<1>2. ASSUME Accounted, NEW c \in stored \ expired, issue[c] = "issued"
      PROVE  ~MonthOver(c)
  <2>1. c \in Code /\ ClaimSound(c) /\ today \in Day /\ born[c] \in 0..MaxDay
    BY <1>2 DEF Accounted, Books, CountersSound, Held, ControlTypeOK
  <2>2. born[c] \in Day
    BY <1>2, <2>1, Period DEF ClaimSound, Day
  <2>. QED
    BY <1>1, <2>1, <2>2 DEF MonthOver
<1>3. Accounted /\ (\A c \in stored \ expired :
                        issue[c] = "issued" /\ ~MonthOver(c) => Claimable(c))
        => LiveCodeIsRedeemable
  BY <1>2 DEF LiveCodeIsRedeemable
<1>. QED
  BY <1>3, AlwaysAccounted, CurrentCodeRedeemable, PTL

=============================================================================
