---------------------------- MODULE QuotaLedger ----------------------------
(***************************************************************************)
(* The authorization quota of one client in Redis (oauth/quota.rs,         *)
(* quota_refund.rs, quota_scripts.rs): a counter per day and per month,    *)
(* beside each a hash of the reservations that may still be given back,    *)
(* and the ledger of refunds that fall due when a code expires unused.     *)
(* Every operator is one Lua script; CodeExchange calls them.              *)
(*                                                                         *)
(* A reservation is named after the authorization code it pays for.  Days  *)
(* are numbered, DaysPerMonth of them make a month; every key expires at   *)
(* the end of its period.  Operators that a comment calls a mutant belong  *)
(* to no action.                                                           *)
(***************************************************************************)
EXTENDS Integers, FiniteSets

CONSTANTS
    Code,          \* codes, and the reservations that pay for them
    MaxDay,        \* bound: days the clock runs
    DaysPerMonth,
    DailyLimit,    \* daily_auth_limit of the effective plan; negative: none
    MonthlyLimit   \* monthly_auth_limit, likewise

ASSUME PeriodAssumption == {MaxDay, DaysPerMonth} \subseteq Nat \ {0}
ASSUME LimitAssumption == {DailyLimit, MonthlyLimit} \subseteq Int

VARIABLES
    today,        \* day the shared clock shows
    born,         \* reservation -> day it was taken on, 0 before
    dayUsed,      \* day   -> counter; 0 stands for no key
    monthUsed,    \* month -> counter
    dayClaims,    \* reservations in the hash of their day
    monthClaims,  \* reservations in the hash of their month
    pending,      \* members of the refund-pending ZSET
    records,      \* reservations whose record key exists
    lasting       \* days whose hash has the lifetime of its month

ledgerVars == <<today, born, dayUsed, monthUsed, dayClaims, monthClaims, pending,
                records, lasting>>

Day == 1..MaxDay
MonthOf(day) == 1 + (day - 1) \div DaysPerMonth
Month == {MonthOf(d) : d \in Day}

LedgerTypeOK ==
    /\ today \in Day
    /\ born \in [Code -> 0..MaxDay]
    /\ dayUsed \in [Day -> 0..Cardinality(Code)]
    /\ monthUsed \in [Month -> 0..Cardinality(Code)]
    /\ {dayClaims, monthClaims, pending, records} \subseteq SUBSET Code
    /\ lasting \subseteq Day

LedgerInit ==
    /\ today = 1
    /\ born = [c \in Code |-> 0]
    /\ dayUsed = [d \in Day |-> 0]
    /\ monthUsed = [m \in Month |-> 0]
    /\ dayClaims = {}
    /\ monthClaims = {}
    /\ pending = {}
    /\ records = {}
    /\ lasting = {}

-----------------------------------------------------------------------------
\* CONSUME: both limits are looked at, both counters and both hashes written,
\* and the hash of the day is to expire with the day.
WithinLimits ==
    /\ DailyLimit >= 0 => dayUsed[today] < DailyLimit
    /\ MonthlyLimit >= 0 => monthUsed[MonthOf(today)] < MonthlyLimit

Consume(c) ==
    /\ WithinLimits
    /\ born' = [born EXCEPT ![c] = today]
    /\ dayUsed' = [dayUsed EXCEPT ![today] = @ + 1]
    /\ monthUsed' = [monthUsed EXCEPT ![MonthOf(today)] = @ + 1]
    /\ dayClaims' = dayClaims \cup {c}
    /\ monthClaims' = monthClaims \cup {c}
    /\ lasting' = lasting \ {today}
    /\ UNCHANGED <<today, pending, records>>

\* EXPIREAT in the past deletes the key at once: nothing can be stored for a
\* month that has ended.
MonthOver(c) == MonthOf(born[c]) # MonthOf(today)

\* SCHEDULE_REFUND: member of the ZSET and record, the latter to the month's end.
Schedule(c) ==
    /\ pending' = pending \cup {c}
    /\ records' = IF MonthOver(c) THEN records \ {c} ELSE records \cup {c}
    /\ UNCHANGED <<today, born, dayUsed, monthUsed, dayClaims, monthClaims, lasting>>

\* REFUND: the claim in a hash is good for one decrement of its counter, if the
\* counter has not expired meanwhile.
\* Mutant: the counters go down without a claim.
GiveBackUnclaimed(c) ==
    /\ dayUsed' = [dayUsed EXCEPT ![born[c]] = IF @ > 0 THEN @ - 1 ELSE 0]
    /\ monthUsed' = [monthUsed EXCEPT ![MonthOf(born[c])] = IF @ > 0 THEN @ - 1 ELSE 0]
    /\ dayClaims' = dayClaims \ {c}
    /\ monthClaims' = monthClaims \ {c}

GiveBack(c) ==
    /\ dayUsed' = [dayUsed EXCEPT ![born[c]] =
                        IF @ > 0 /\ c \in dayClaims THEN @ - 1 ELSE @]
    /\ monthUsed' = [monthUsed EXCEPT ![MonthOf(born[c])] =
                        IF @ > 0 /\ c \in monthClaims THEN @ - 1 ELSE @]
    /\ dayClaims' = dayClaims \ {c}
    /\ monthClaims' = monthClaims \ {c}

\* refund: at once, without a look at the ZSET.
Refund(c) ==
    /\ GiveBack(c)
    /\ UNCHANGED <<today, born, pending, records, lasting>>

\* refund_if_still_pending: the member is taken out of the ZSET first, and
\* without one there is nothing to do.
RefundPending(c) ==
    \/ /\ c \in pending
       /\ GiveBack(c)
       /\ pending' = pending \ {c}
       /\ UNCHANGED <<today, born, records, lasting>>
    \/ c \notin pending /\ UNCHANGED ledgerVars

\* What the script reports: some counter went down.
Refunds(c) ==
    /\ c \in pending
    /\ \/ dayUsed[born[c]] > 0 /\ c \in dayClaims
       \/ monthUsed[MonthOf(born[c])] > 0 /\ c \in monthClaims

\* The worker cleans up: ZREM without a record, DEL of the record after a refund.
DropMember(c) ==
    /\ pending' = pending \ {c}
    /\ UNCHANGED <<today, born, dayUsed, monthUsed, dayClaims, monthClaims, records,
                   lasting>>

DropRecord(c) ==
    /\ records' = records \ {c}
    /\ UNCHANGED <<today, born, dayUsed, monthUsed, dayClaims, monthClaims, pending,
                   lasting>>

\* take_code_and_claim_quota: a metered code is only taken together with a claim.
Claimable(c) == c \in records /\ c \in dayClaims \cup monthClaims

Claim(c) ==
    /\ dayClaims' = dayClaims \ {c}
    /\ monthClaims' = monthClaims \ {c}
    /\ pending' = pending \ {c}
    /\ UNCHANGED <<today, born, dayUsed, monthUsed, records, lasting>>

\* RESTORE_CODE_AND_QUOTA and RESCHEDULE_REFUND: the member is back in the
\* ZSET, and the claims in both hashes while the record is there to name them;
\* the hash of the day is now to live as long as its month.
\* Mutants: the hashes are forgotten; the member is.
RestoreMemberOnly(c) ==
    /\ pending' = pending \cup {c}
    /\ UNCHANGED <<today, born, dayUsed, monthUsed, dayClaims, monthClaims, records,
                   lasting>>

RestoreHashesOnly(c) ==
    /\ dayClaims' = IF c \in records THEN dayClaims \cup {c} ELSE dayClaims
    /\ monthClaims' = IF c \in records THEN monthClaims \cup {c} ELSE monthClaims
    /\ UNCHANGED <<today, born, dayUsed, monthUsed, pending, records, lasting>>

Restore(c) ==
    /\ pending' = pending \cup {c}
    /\ dayClaims' = IF c \in records THEN dayClaims \cup {c} ELSE dayClaims
    /\ monthClaims' = IF c \in records THEN monthClaims \cup {c} ELSE monthClaims
    /\ lasting' = IF c \in records THEN lasting \cup {born[c]} ELSE lasting
    /\ UNCHANGED <<today, born, dayUsed, monthUsed, records>>

\* Midnight: counters and hashes of the day expire, at the end of a month those
\* of the month and the records too.
Midnight ==
    LET Over(c) == born[c] > 0 /\ MonthOf(born[c]) # MonthOf(today + 1)
    IN  /\ today < MaxDay
        /\ today' = today + 1
        /\ dayUsed' = [dayUsed EXCEPT ![today] = 0]
        /\ monthUsed' = [m \in Month |-> IF m = MonthOf(today + 1) THEN monthUsed[m] ELSE 0]
        /\ dayClaims' = {c \in dayClaims : born[c] \in lasting /\ ~Over(c)}
        /\ monthClaims' = {c \in monthClaims : ~Over(c)}
        /\ records' = {c \in records : ~Over(c)}
        /\ UNCHANGED <<born, pending, lasting>>

=============================================================================
