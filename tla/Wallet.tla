------------------------------- MODULE Wallet -------------------------------
(***************************************************************************)
(* Points and what they buy: the wallet, redemption codes, plans and quota *)
(* add-ons of src/src/wallet and src/src/plans.  A customer redeems a code *)
(* for points, or buys the plan or its add-on under an idempotency key; an *)
(* administrator credits points, assigns and edits the plan, and disables  *)
(* codes.                                                                  *)
(*                                                                         *)
(* Each operation is one PostgreSQL transaction, invisible to others until *)
(* it commits, that waits for rows others have locked: first the           *)
(* customer's user row, then the plan and add-on rows or the code row.     *)
(* Time passes while it waits, so what it read before may have lapsed when *)
(* it writes.  A transaction may roll back at any point: a check fails,    *)
(* the session ended meanwhile, the process dies.                          *)
(*                                                                         *)
(* There is one plan with a period, and one add-on of it.  Not modelled:   *)
(* the default plan, the deletion of idempotency rows after 24 hours,      *)
(* overflow of balances, batches of codes, audit events.                   *)
(***************************************************************************)
EXTENDS Naturals, FiniteSets

CONSTANTS Customer,    \* users
          Order,       \* transactions under way at a time
          PurchaseKey, \* idempotency keys of each customer
          Code,        \* redemption codes
          Unset,       \* no key, no code, no purchase
          PlanPrices,  \* prices the plan may have
          AddonPrice,  \* price of the add-on
          Points,      \* worth of a code
          MaxCodeUses, \* max_uses of a code
          CodeEnd,     \* expires_at of a code
          Period,      \* length of the plan's billing period
          MaxNow,      \* bound of the time
          MaxCredit,   \* bound: points credited to a customer
          MaxVersion   \* bound of plan_entitlement_version

ASSUME WalletAssumption ==
    /\ PlanPrices \subseteq Nat \ {0}
    /\ {AddonPrice, Points, MaxCodeUses, CodeEnd, Period, MaxNow, MaxCredit, MaxVersion}
           \subseteq Nat
    /\ AddonPrice > 0 /\ Points > 0
    /\ Unset \notin Nat \cup PurchaseKey \cup Code

VARIABLES balance,  \* user_wallets
          assigned, \* plan_entitlement_version and plan_expires_at of each user
          offer,    \* the rows of the plan and of the add-on
          code,     \* wallet_redemption_codes
          redeemed, \* wallet_redemptions: when each customer redeemed each code
          receipt,  \* wallet_purchase_idempotency: what each key bought
          addons,   \* user_quota_addon_purchases
          order,    \* the transactions
          now,      \* the time of the database
          credited, \* ghost: points credited by the administrator
          spent     \* ghost: what each customer's keys cost, each counted once

walletVars == <<balance, assigned, offer, code, redeemed, receipt, addons, order, now,
                credited, spent>>

NoOrder == [pc |-> "idle", kind |-> "plan", user |-> Unset, key |-> Unset,
            code |-> Unset, began |-> 0, price |-> 0, version |-> 0]

WalletInit ==
    /\ balance = [u \in Customer |-> 0]
    /\ assigned = [u \in Customer |-> [version |-> 0, expires |-> 0]]
    /\ \E p \in PlanPrices : offer = [price |-> p, plan |-> TRUE, addon |-> TRUE]
    /\ code = [c \in Code |-> [uses |-> 0, disabled |-> FALSE]]
    /\ redeemed = [c \in Code |-> [u \in Customer |-> Unset]]
    /\ receipt = [u \in Customer |-> [k \in PurchaseKey |-> Unset]]
    /\ addons = {}
    /\ order = [o \in Order |-> NoOrder]
    /\ now = 0
    /\ credited = [u \in Customer |-> 0]
    /\ spent = [u \in Customer |-> 0]

-----------------------------------------------------------------------------
(* Row locks: a transaction keeps what it locked until it ends. *)

UserFree(u) ==
    \A o \in Order : order[o].pc \in {"admitted", "locked"} => order[o].user # u

PlanFree ==
    \A o \in Order : order[o].pc = "locked" => order[o].kind = "redeem"

AddonFree ==
    \A o \in Order : order[o].pc = "locked" => order[o].kind # "addon"

CodeFree(c) ==
    \A o \in Order : order[o].pc = "locked" => order[o].code # c

-----------------------------------------------------------------------------
(* The customer. *)

\* BEGIN fixes the time that NOW() returns throughout the transaction.
BeginPurchase(o, u, kind, k) ==
    /\ order[o].pc = "idle"
    /\ order' = [order EXCEPT ![o] = [NoOrder EXCEPT
           !.pc = "begun", !.kind = kind, !.user = u, !.key = k, !.began = now]]
    /\ UNCHANGED <<balance, assigned, offer, code, redeemed, receipt, addons, now, credited, spent>>

BeginRedeem(o, u, c) ==
    /\ order[o].pc = "idle"
    /\ order' = [order EXCEPT ![o] = [NoOrder EXCEPT
           !.pc = "begun", !.kind = "redeem", !.user = u, !.code = c, !.began = now]]
    /\ UNCHANGED <<balance, assigned, offer, code, redeemed, receipt, addons, now, credited, spent>>

\* Nothing of the transaction remains.
Rollback(o) ==
    /\ order[o].pc # "idle"
    /\ order' = [order EXCEPT ![o] = NoOrder]
    /\ UNCHANGED <<balance, assigned, offer, code, redeemed, receipt, addons, now, credited, spent>>

\* Mutant: a key that has bought something is claimed as if it were new.
ClaimAlways(u, k) == TRUE

\* claim_purchase: a key that has bought something replays the stored result,
\* or is refused for another request; either way the transaction rolls back.
ClaimIsNew(u, k) == receipt[u][k] = Unset

\* The user row is locked and the session valid.  A purchase claims its key,
\* and that of an add-on reads the plan assigned, which must not be over.
Admit(o) ==
    LET x == order[o] IN
    /\ x.pc = "begun" /\ UserFree(x.user)
    /\ x.kind # "redeem" => ClaimIsNew(x.user, x.key)
    /\ x.kind = "addon" => assigned[x.user].expires > now
    /\ order' = [order EXCEPT ![o].pc = "admitted", ![o].version = assigned[x.user].version]
    /\ UNCHANGED <<balance, assigned, offer, code, redeemed, receipt, addons, now, credited, spent>>

\* The plan row, then the add-on row, are locked; their prices are read, and
\* the balance covers them.
LockOffer(o) ==
    LET x == order[o]
        price == IF x.kind = "plan" THEN offer.price ELSE AddonPrice
    IN
    /\ x.pc = "admitted" /\ x.kind \in {"plan", "addon"}
    /\ PlanFree /\ offer.plan
    /\ x.kind = "addon" => AddonFree /\ offer.addon
    /\ balance[x.user] >= price
    /\ order' = [order EXCEPT ![o].pc = "locked", ![o].price = price]
    /\ UNCHANGED <<balance, assigned, offer, code, redeemed, receipt, addons, now, credited, spent>>

Charge(x) ==
    /\ balance' = [balance EXCEPT ![x.user] = @ - x.price]
    /\ receipt' = [receipt EXCEPT ![x.user][x.key] = x.kind]
    /\ spent' = IF receipt[x.user][x.key] = Unset
                THEN [spent EXCEPT ![x.user] = @ + x.price] ELSE spent

\* The plan is charged and assigned, for a period from the time of BEGIN.
BuyPlan(o) ==
    LET x == order[o] IN
    /\ x.pc = "locked" /\ x.kind = "plan" /\ assigned[x.user].version < MaxVersion
    /\ Charge(x)
    /\ assigned' = [assigned EXCEPT ![x.user] = [version |-> @.version + 1,
                                                 expires |-> x.began + Period]]
    /\ order' = [order EXCEPT ![o] = NoOrder]
    /\ UNCHANGED <<offer, code, redeemed, addons, now, credited>>

\* Mutant: the add-on is granted by what was read before the locks.
GrantUnread(x) == assigned[x.user].version = x.version

\* grant reads the assignment again.
Grantable(x) ==
    assigned[x.user].version = x.version /\ assigned[x.user].expires > now

\* The add-on is granted for the rest of the plan's period, and charged.
BuyAddon(o) ==
    LET x == order[o] IN
    /\ x.pc = "locked" /\ x.kind = "addon" /\ Grantable(x)
    /\ Charge(x)
    /\ addons' = addons \cup {[user |-> x.user, version |-> x.version, at |-> now,
                               expires |-> assigned[x.user].expires]}
    /\ order' = [order EXCEPT ![o] = NoOrder]
    /\ UNCHANGED <<assigned, offer, code, redeemed, now, credited>>

Redeemable(c, t) == ~code[c].disabled /\ t < CodeEnd /\ code[c].uses < MaxCodeUses

\* lock_redeemable.  The time its statement asks is from before it waited for the
\* row, at the earliest that of BEGIN.
LockCode(o) ==
    LET x == order[o] IN
    /\ x.pc = "admitted" /\ x.kind = "redeem"
    /\ CodeFree(x.code) /\ Redeemable(x.code, x.began) /\ redeemed[x.code][x.user] = Unset
    /\ order' = [order EXCEPT ![o].pc = "locked"]
    /\ UNCHANGED <<balance, assigned, offer, code, redeemed, receipt, addons, now, credited, spent>>

\* consume asks again, then the points are credited.
Redeem(o) ==
    LET x == order[o] IN
    /\ x.pc = "locked" /\ x.kind = "redeem" /\ Redeemable(x.code, now)
    /\ code' = [code EXCEPT ![x.code].uses = @ + 1]
    /\ redeemed' = [redeemed EXCEPT ![x.code][x.user] = now]
    /\ balance' = [balance EXCEPT ![x.user] = @ + Points]
    /\ order' = [order EXCEPT ![o] = NoOrder]
    /\ UNCHANGED <<assigned, offer, receipt, addons, now, credited, spent>>

-----------------------------------------------------------------------------
(* The administrator.  Each transaction waits for the rows it changes. *)

Credit(u) ==
    /\ UserFree(u) /\ credited[u] < MaxCredit
    /\ balance' = [balance EXCEPT ![u] = @ + 1]
    /\ credited' = [credited EXCEPT ![u] = @ + 1]
    /\ UNCHANGED <<assigned, offer, code, redeemed, receipt, addons, order, now, spent>>

\* assign_to_user takes any end, or none.  One that is past is refused before the
\* transaction waits for the rows, so that it may be past by now; 0 stands for
\* none, under which no add-on is sold (lock_unexpired_plan, grant).
AssignPlan(u) ==
    /\ UserFree(u) /\ PlanFree /\ offer.plan /\ assigned[u].version < MaxVersion
    /\ \E end \in 0..(MaxNow + Period) :
          assigned' = [assigned EXCEPT ![u] = [version |-> @.version + 1, expires |-> end]]
    /\ UNCHANGED <<balance, offer, code, redeemed, receipt, addons, order, now, credited, spent>>

EditPlan ==
    /\ PlanFree
    /\ \E p \in PlanPrices, a \in BOOLEAN : offer' = [offer EXCEPT !.price = p, !.plan = a]
    /\ offer' # offer
    /\ UNCHANGED <<balance, assigned, code, redeemed, receipt, addons, order, now, credited, spent>>

\* An archived add-on stays so.
ArchiveAddon ==
    /\ AddonFree /\ offer.addon
    /\ offer' = [offer EXCEPT !.addon = FALSE]
    /\ UNCHANGED <<balance, assigned, code, redeemed, receipt, addons, order, now, credited, spent>>

DisableCode(c) ==
    /\ CodeFree(c) /\ ~code[c].disabled
    /\ code' = [code EXCEPT ![c].disabled = TRUE]
    /\ UNCHANGED <<balance, assigned, offer, redeemed, receipt, addons, order, now, credited, spent>>

TimePasses ==
    /\ now < MaxNow
    /\ now' = now + 1
    /\ UNCHANGED <<balance, assigned, offer, code, redeemed, receipt, addons, order, credited, spent>>

\* What customers and administrators do about codes, and about the plan.
Either(o) == Admit(o) \/ Rollback(o)

RedeemNext ==
    \/ \E o \in Order :
        \/ \E u \in Customer, c \in Code : BeginRedeem(o, u, c)
        \/ Either(o) \/ LockCode(o) \/ Redeem(o)
    \/ \E c \in Code : DisableCode(c)
    \/ TimePasses

PurchaseNext ==
    \/ \E o \in Order :
        \/ \E u \in Customer, k \in PurchaseKey, kind \in {"plan", "addon"} :
               BeginPurchase(o, u, kind, k)
        \/ Either(o) \/ LockOffer(o) \/ BuyPlan(o) \/ BuyAddon(o)
    \/ \E u \in Customer : Credit(u) \/ AssignPlan(u)
    \/ EditPlan \/ ArchiveAddon \/ TimePasses

WalletNext == RedeemNext \/ PurchaseNext

WalletSpec == WalletInit /\ [][WalletNext]_walletVars

-----------------------------------------------------------------------------
(* Properties. *)

\* The rows and the transactions have their shapes; no balance is negative.
WalletTypeOK ==
    /\ balance \in [Customer -> Nat]
    /\ \A u \in Customer : assigned[u].version \in 0..MaxVersion
    /\ offer \in [price : PlanPrices, plan : BOOLEAN, addon : BOOLEAN]
    /\ receipt \in [Customer -> [PurchaseKey -> {Unset, "plan", "addon"}]]
    /\ \A o \in Order : order[o].pc \in {"idle", "begun", "admitted", "locked"}
    /\ now \in 0..MaxNow

Redeemers(c) == {u \in Customer : redeemed[c][u] # Unset}

\* The books balance: what a customer was credited and redeemed is what is left
\* and what the purchase of each key cost, once, however often a lost answer made
\* the client repeat it; and no code is redeemed more often than it may.
BooksBalance ==
    /\ \A u \in Customer :
        balance[u] + spent[u]
            = credited[u] + Points * Cardinality({c \in Code : u \in Redeemers(c)})
    /\ \A c \in Code :
        code[c].uses = Cardinality(Redeemers(c)) /\ code[c].uses <= MaxCodeUses

\* Waiting for a lock sells nothing that lapsed meanwhile (#730): every code was
\* redeemed, and every add-on granted, before its end, and the add-on ends with
\* the assignment it was bought for.
NothingLapsedIsSold ==
    /\ \A c \in Code : \A u \in Redeemers(c) : redeemed[c][u] < CodeEnd
    /\ \A a \in addons :
        /\ a.at < a.expires
        /\ assigned[a.user].version = a.version => assigned[a.user].expires = a.expires
=============================================================================
