----------------------------- MODULE EmailChange -----------------------------
(***************************************************************************)
(* The change of an email address (users/service/email_change.rs and       *)
(* users/repository/email_change.rs) and the outbox that mails its codes   *)
(* and its alerts (notifications/outbox*.rs), for one account.             *)
(*                                                                         *)
(* Nothing but PostgreSQL is shared: an action is a transaction or one     *)
(* statement of its own, and SMTP is called between two of them.           *)
(***************************************************************************)
EXTENDS Naturals, FiniteSets

CONSTANTS
    Challenge,        \* rows of user_email_change_challenges
    Attempt,          \* requests that confirm with a code
    Sender,           \* instances of the email worker
    Nothing,          \* the absence of a challenge or of an entry
    MailFaults,       \* what may go wrong: "write", "smtp", "slow", "crash"
    AttemptLimit,     \* EMAIL_CHANGE_FAILED_ATTEMPT_LIMIT
    MaxTries,         \* MAX_ATTEMPTS
    MaxLeases,        \* bound: claims of one entry
    MaxCredential     \* bound: session epochs of the account

ASSUME MailBoundAssumption ==
    {AttemptLimit, MaxTries, MaxLeases, MaxCredential} \subseteq Nat \ {0}
ASSUME MailFaultAssumption == MailFaults \subseteq {"write", "smtp", "slow", "crash"}
ASSUME NothingAssumption == Nothing \notin Challenge

VARIABLES
    credential,  \* users.session_epoch and the status
    change,   \* challenge -> its row
    attempt,     \* confirmation -> how far it is
    mail,        \* entry -> its row of email_outbox
    sender       \* worker -> the entry in its hands

changeVars == <<credential, change, attempt>>
mailVars == <<changeVars, mail, sender>>

\* UNIQUE (challenge_id, kind).
CodeMail(c) == [kind |-> "verification_code", challenge |-> c]
AlertMail(c) == [kind |-> "email_change_security_alert", challenge |-> c]
Codes == {CodeMail(c) : c \in Challenge}
Mail == Codes \cup {AlertMail(c) : c \in Challenge}

\* slots is active_attempt_ids; in_flight_attempts is its cardinality.
NoChallenge == [state |-> "none", epoch |-> 0, expired |-> FALSE, failed |-> 0, slots |-> {}]
NoAttempt == [pc |-> "idle", challenge |-> Nothing]
NoMail == [state |-> "none", generation |-> 0, token |-> FALSE]
AtRest == [pc |-> "idle", mail |-> Nothing, generation |-> 0, overdue |-> FALSE]

MailTypeOK ==
    /\ credential \in [epoch : 1..MaxCredential, active : BOOLEAN]
    /\ change \in [Challenge -> [state : {"none", "open", "replaced", "exhausted", "used"},
                                    epoch : 0..MaxCredential, expired : BOOLEAN,
                                    failed : 0..AttemptLimit, slots : SUBSET Attempt]]
    /\ \A c \in Challenge : Cardinality(change[c].slots) <= AttemptLimit
    /\ attempt \in [Attempt -> [pc : {"idle", "verify", "wrong", "complete", "release"},
                                challenge : Challenge \cup {Nothing}]]
    /\ mail \in [Mail -> [state : {"none", "ready", "later", "done", "cancelled", "dead", "gone"},
                          generation : 0..MaxLeases, token : BOOLEAN]]
    /\ sender \in [Sender -> [pc : {"idle", "load", "send", "mark", "fail"},
                              mail : Mail \cup {Nothing}, generation : 0..MaxLeases,
                              overdue : BOOLEAN]]

MailInit ==
    /\ credential = [epoch |-> 1, active |-> TRUE]
    /\ change = [c \in Challenge |-> NoChallenge]
    /\ attempt = [a \in Attempt |-> NoAttempt]
    /\ mail = [m \in Mail |-> NoMail]
    /\ sender = [w \in Sender |-> AtRest]

Tolerates(fault) == fault \in MailFaults

Settled(m) == mail[m].state \in {"done", "cancelled", "dead", "gone"}

Pending(m) == mail[m].state \in {"ready", "later"}

-----------------------------------------------------------------------------
(* The challenge and the requests that confirm it. *)

\* What both statements cancel: the codes nobody has claimed.
UnclaimedCodes == {m \in Codes : Pending(m) /\ ~mail[m].token}

Cancel(entries) ==
    [m \in Mail |-> IF m \in entries THEN [mail[m] EXCEPT !.state = "cancelled"] ELSE mail[m]]

Queued == [state |-> "ready", generation |-> 0, token |-> FALSE]

\* replace_pending_email_change.  The password was proven for this epoch: a start
\* that finds another one, or loses the user, changes nothing.
StartChange(c) ==
    /\ credential.active /\ change[c].state = "none"
    /\ change' = [d \in Challenge |->
          IF d = c THEN [NoChallenge EXCEPT !.state = "open", !.epoch = credential.epoch]
          ELSE IF change[d].state = "open" THEN [change[d] EXCEPT !.state = "replaced"]
          ELSE change[d]]
    /\ mail' = [Cancel(UnclaimedCodes) EXCEPT ![CodeMail(c)] = Queued]
    /\ UNCHANGED <<credential, attempt, sender>>

Move(a, place) == attempt' = [attempt EXCEPT ![a].pc = place]

\* reserve_email_change_attempt.
ReserveSlot(a, c) ==
    /\ attempt[a].pc = "idle" /\ \A d \in Challenge : a \notin change[d].slots
    /\ change[c].state = "open" /\ ~change[c].expired
    /\ change[c].failed < AttemptLimit
    /\ Cardinality(change[c].slots) < AttemptLimit
    /\ change' = [change EXCEPT ![c].slots = @ \cup {a}]
    /\ attempt' = [attempt EXCEPT ![a] = [pc |-> "verify", challenge |-> c]]
    /\ UNCHANGED <<credential, mail, sender>>

\* verify_password, outside of any transaction.
VerifyCode(a) ==
    /\ attempt[a].pc = "verify"
    /\ Move(a, "wrong") \/ Move(a, "complete")
    /\ UNCHANGED <<credential, change, mail, sender>>

\* Mutant: the failure that reaches the limit ends the challenge at once.
ExhaustedAtOnce(c, failed) == change[c].state = "open" /\ failed >= AttemptLimit

\* consumed_at of a challenge whose slot is given back: at the limit, the last one
\* in flight ends it.
Exhausted(c, failed) ==
    change[c].state = "open" /\ failed >= AttemptLimit /\ Cardinality(change[c].slots) = 1

GiveBack(a, c, failed) ==
    change' = [change EXCEPT
        ![c].slots = @ \ {a}, ![c].failed = failed,
        ![c].state = IF Exhausted(c, failed) THEN "exhausted" ELSE @]

\* A statement is answered, is not executed, or commits unanswered; without an
\* answer the slot is given back once more.
Answered(a, Effect, NoEffect) ==
    \/ Effect /\ attempt' = [attempt EXCEPT ![a] = NoAttempt]
    \/ Tolerates("write") /\ (Effect \/ NoEffect) /\ Move(a, "release")

\* failed_attempts after a wrong code.
Failed(c) ==
    IF change[c].state = "open" /\ change[c].failed < AttemptLimit
    THEN change[c].failed + 1 ELSE change[c].failed

\* record_email_change_failure.
RecordWrongCode(a) ==
    LET c == attempt[a].challenge IN
    /\ attempt[a].pc = "wrong"
    /\ Answered(a, GiveBack(a, c, Failed(c)), UNCHANGED change)
    /\ UNCHANGED <<credential, mail, sender>>

\* release_email_change_attempt, which nobody repeats when it fails.
ReleaseSlot(a) ==
    LET c == attempt[a].challenge IN
    /\ attempt[a].pc = "release"
    /\ \/ a \in change[c].slots /\ GiveBack(a, c, change[c].failed)
       \/ a \notin change[c].slots /\ UNCHANGED change
       \/ Tolerates("write") /\ UNCHANGED change
    /\ attempt' = [attempt EXCEPT ![a] = NoAttempt]
    /\ UNCHANGED <<credential, mail, sender>>

\* The commit of complete_email_change: consume_email_change_attempt,
\* apply_email_change, the revocation and enqueue_email_change_security_alert.
ChangeEmail(a, c) ==
    /\ change' = [change EXCEPT ![c].state = "used", ![c].slots = @ \ {a}]
    /\ credential' = [credential EXCEPT !.epoch = @ + 1]
    /\ mail' = [Cancel(UnclaimedCodes) EXCEPT
                   ![AlertMail(c)] = IF @.state = "none" THEN Queued ELSE @]

\* complete_email_change.  The expiry is not asked about again; somebody else may
\* have taken the address in the meantime.
CompleteChange(a) ==
    LET c == attempt[a].challenge
        stands == credential.epoch = change[c].epoch /\ change[c].state = "open"
                     /\ a \in change[c].slots
    IN  /\ attempt[a].pc = "complete"
        /\ \/ /\ stands /\ credential.epoch < MaxCredential
              /\ Answered(a, ChangeEmail(a, c), UNCHANGED <<change, credential, mail>>)
           \/ Move(a, "release") /\ UNCHANGED <<change, credential, mail>>
        /\ UNCHANGED sender

\* The instance dies; the slot stays.
AttemptCrashes(a) ==
    /\ Tolerates("crash") /\ attempt[a].pc # "idle"
    /\ attempt' = [attempt EXCEPT ![a] = NoAttempt]
    /\ UNCHANGED <<credential, change, mail, sender>>

ExpireChallenge(c) ==
    /\ change[c].state = "open" /\ ~change[c].expired
    /\ change' = [change EXCEPT ![c].expired = TRUE]
    /\ UNCHANGED <<credential, attempt, mail, sender>>

\* Every other change of the credentials, and the status of the account.
ChangeCredential ==
    /\ credential.epoch < MaxCredential
    /\ \E active \in {credential.active, FALSE} :
          credential' = [epoch |-> credential.epoch + 1, active |-> active]
    /\ UNCHANGED <<change, attempt, mail, sender>>

EnableAccount ==
    /\ ~credential.active
    /\ credential' = [credential EXCEPT !.active = TRUE]
    /\ UNCHANGED <<change, attempt, mail, sender>>

-----------------------------------------------------------------------------
(* The email worker. *)

\* claim: attempts and claim_generation only grow here, and together.
ClaimMail(w, m) ==
    /\ sender[w].pc = "idle" /\ mail[m].state = "ready" /\ mail[m].generation < MaxLeases
    /\ mail' = [mail EXCEPT ![m] = [state |-> "later", generation |-> @.generation + 1,
                                    token |-> TRUE]]
    /\ sender' = [sender EXCEPT ![w] = [pc |-> "load", mail |-> m,
                                        generation |-> mail[m].generation + 1, overdue |-> FALSE]]
    /\ UNCHANGED changeVars

\* Mutant: the generation and the token are not compared.
HoldsAnyLease(w) == Pending(sender[w].mail)

\* The fence every statement about a claimed entry repeats.
HoldsLease(w) ==
    LET m == sender[w].mail IN
    Pending(m) /\ mail[m].token /\ mail[m].generation = sender[w].generation

Rest(w) == sender' = [sender EXCEPT ![w] = AtRest]

Proceed(w, place) == sender' = [sender EXCEPT ![w].pc = place]

Close(w, state) ==
    mail' = IF HoldsLease(w)
            THEN [mail EXCEPT ![sender[w].mail].state = state, ![sender[w].mail].token = FALSE]
            ELSE mail

\* What the two kinds of entries ask of their challenge.
StillWanted(m) ==
    LET c == change[m.challenge] IN
    IF m \in Codes
    THEN c.state = "open" /\ ~c.expired /\ c.epoch = credential.epoch /\ credential.active
    ELSE c.state \in {"replaced", "exhausted", "used"}

\* load_message, or mark_cancelled in the same transaction.
LoadMessage(w) ==
    /\ sender[w].pc = "load"
    /\ \/ /\ HoldsLease(w) /\ StillWanted(sender[w].mail)
          /\ Proceed(w, "send") /\ UNCHANGED mail
       \/ /\ ~(HoldsLease(w) /\ StillWanted(sender[w].mail))
          /\ Close(w, "cancelled") /\ Rest(w)
       \/ Tolerates("write") /\ Proceed(w, "fail") /\ UNCHANGED mail
    /\ UNCHANGED changeVars

\* The provider accepts the message, refuses it, or does not answer in time.
SendMessage(w) ==
    /\ sender[w].pc = "send"
    /\ Proceed(w, "mark") \/ (Tolerates("smtp") /\ Proceed(w, "fail"))
    /\ UNCHANGED <<changeVars, mail>>

\* mark_processed.
MarkProcessed(w) ==
    /\ sender[w].pc = "mark"
    /\ \/ Close(w, "done") /\ Rest(w)
       \/ Tolerates("write") /\ Proceed(w, "fail") /\ (Close(w, "done") \/ UNCHANGED mail)
    /\ UNCHANGED changeVars

\* record_failure: the dead letter, or a pause.
RecordMailFailure(w) ==
    /\ sender[w].pc = "fail"
    /\ \/ Close(w, IF sender[w].generation >= MaxTries THEN "dead" ELSE "later")
       \/ Tolerates("write") /\ UNCHANGED mail
    /\ Rest(w)
    /\ UNCHANGED changeVars

SenderCrashes(w) ==
    /\ Tolerates("crash") /\ sender[w].pc # "idle"
    /\ Rest(w)
    /\ UNCHANGED <<changeVars, mail>>

\* Somebody still works on the latest claim of m.
Working(m) == {w \in Sender : sender[w].mail = m /\ sender[w].generation = mail[m].generation}

\* available_at passes: the end of a pause or of a lease, the lease of a worker that
\* has not finished among them.
MailDue(m) ==
    /\ mail[m].state = "later"
    /\ mail[m].token /\ Working(m) # {} => Tolerates("slow")
    /\ mail' = [mail EXCEPT ![m].state = "ready"]
    /\ sender' = [w \in Sender |-> IF w \in Working(m) THEN [sender[w] EXCEPT !.overdue = TRUE]
                                   ELSE sender[w]]
    /\ UNCHANGED changeVars

\* prune_settled_outbox.
PruneMail(m) ==
    /\ mail[m].state \in {"done", "cancelled", "dead"}
    /\ mail' = [mail EXCEPT ![m].state = "gone"]
    /\ UNCHANGED <<changeVars, sender>>

ConfirmNext ==
    \/ \E c \in Challenge : StartChange(c) \/ ExpireChallenge(c)
    \/ \E a \in Attempt :
          \/ VerifyCode(a) \/ RecordWrongCode(a) \/ ReleaseSlot(a) \/ CompleteChange(a)
          \/ AttemptCrashes(a) \/ \E c \in Challenge : ReserveSlot(a, c)
    \/ ChangeCredential \/ EnableAccount

DeliverNext ==
    \/ \E w \in Sender :
          \/ LoadMessage(w) \/ SendMessage(w) \/ MarkProcessed(w) \/ RecordMailFailure(w)
          \/ SenderCrashes(w) \/ \E m \in Mail : ClaimMail(w, m)
    \/ \E m \in Mail : MailDue(m) \/ PruneMail(m)

MailNext == ConfirmNext \/ DeliverNext

MailSpec == MailInit /\ [][MailNext]_mailVars

-----------------------------------------------------------------------------
(* Properties. *)

\* A worker whose lease has not run out decides alone what becomes of its entry: no
\* late write of an earlier claim and no newer challenge settles it, frees it for
\* another worker or takes its claim away (outbox.rs:188, email_change.rs:197).
LeaseIsExclusive ==
    \A w \in Sender :
       sender[w].pc \in {"load", "send"} /\ ~sender[w].overdue =>
          mail[sender[w].mail] = [state |-> "later", generation |-> sender[w].generation,
                                  token |-> TRUE]

\* The budget of wrong codes is what closes a challenge, no sooner and no later
\* (email_change.rs:108).  It does not shut out the right code that was on its way
\* when it was used up: that fails only when the challenge was used or replaced.
\* Attempts that proved nothing close no challenge; and one whose budget is used up
\* stays open only as long as somebody has a slot of it.
RightCodeIsNotShutOut ==
    /\ \A a \in Attempt :
          attempt[a].pc = "complete" => change[attempt[a].challenge].state # "exhausted"
    /\ \A c \in Challenge :
          /\ change[c].state = "exhausted" => change[c].failed = AttemptLimit
          /\ change[c].state = "open" /\ change[c].failed = AttemptLimit => change[c].slots # {}

=============================================================================
