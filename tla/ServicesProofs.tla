--------------------------- MODULE ServicesProofs ---------------------------
(***************************************************************************)
(* What holds of the wallet and of the bindings at a resource provider,    *)
(* for any number of customers, transactions, keys, codes, calls, issuers  *)
(* and revokers.                                                           *)
(*                                                                         *)
(* The user row is locked from the admission of a transaction to its end,  *)
(* so what the transaction knows of its customer - the key is new, the     *)
(* balance suffices, the code was not redeemed - stays true until it       *)
(* writes (Entitled).                                                      *)
(*                                                                         *)
(* The provider may act on a request whose answer is lost or late, so what *)
(* it would still accept has to be watched here: by the live binding the   *)
(* request is about, or by its entry of the outbox, under the identity the *)
(* request goes to (Addressed, Tracked).  And of a binding's tokens the    *)
(* newest is known to one party, which the answer on its way may be        *)
(* (AnswerSound).                                                          *)
(***************************************************************************)
EXTENDS Wallet, ResourceBindings, FiniteSetTheorems, TLAPS

---------------------------------------------------------------------------
\* Wallet: the invariant.

OrderType ==
    [pc : {"idle", "begun", "admitted", "locked"}, kind : {"plan", "addon", "redeem"},
     user : Customer \cup {Unset}, key : PurchaseKey \cup {Unset}, code : Code \cup {Unset},
     began : Nat, price : Nat, version : 0..MaxVersion]

WalletTypes ==
    /\ balance \in [Customer -> Nat] /\ credited \in [Customer -> Nat] /\ spent \in [Customer -> Nat]
    /\ assigned \in [Customer -> [version : 0..MaxVersion, expires : Nat]]
    /\ offer \in [price : PlanPrices, plan : BOOLEAN, addon : BOOLEAN]
    /\ code \in [Code -> [uses : Nat, disabled : BOOLEAN]]
    /\ redeemed \in [Code -> [Customer -> Nat \cup {Unset}]]
    /\ receipt \in [Customer -> [PurchaseKey -> {Unset, "plan", "addon"}]]
    /\ addons \subseteq [user : Customer, version : 0..MaxVersion, at : Nat, expires : Nat]
    /\ now \in 0..MaxNow

Holds(x) == x.pc \in {"admitted", "locked"}

\* What a transaction knows of its customer's rows.
Entitled(x) ==
    /\ x.pc # "idle" =>
        /\ x.user \in Customer
        /\ x.kind # "redeem" => x.key \in PurchaseKey
        /\ x.kind = "redeem" => x.code \in Code
    /\ Holds(x) /\ x.kind # "redeem" => receipt[x.user][x.key] = Unset
    /\ x.pc = "locked" /\ x.kind # "redeem" => x.price <= balance[x.user]
    /\ x.pc = "locked" /\ x.kind = "redeem" => redeemed[x.code][x.user] = Unset

OrdersSound ==
    /\ order \in [Order -> OrderType]
    /\ \A o \in Order : Entitled(order[o])
    /\ \A o, p \in Order :
        Holds(order[o]) /\ Holds(order[p]) /\ order[o].user = order[p].user => o = p

CodesOf(u) == {c \in Code : u \in Redeemers(c)}

Books ==
    /\ \A u \in Customer : IsFiniteSet(CodesOf(u))
    /\ \A c \in Code : IsFiniteSet(Redeemers(c))
    /\ BooksBalance

\* A later assignment has a later version.
Sales ==
    /\ NothingLapsedIsSold
    /\ \A a \in addons : a.version <= assigned[a.user].version

WalletIInv == WalletTypes /\ OrdersSound /\ Books /\ Sales

LEMMA WalletStarts == WalletInit => WalletIInv
<1> SUFFICES ASSUME WalletInit PROVE WalletIInv
  OBVIOUS
<1> USE WalletAssumption
<1>1. WalletTypes
  BY DEF WalletInit, WalletTypes
<1>2. OrdersSound
  <2>1. NoOrder \in OrderType /\ NoOrder.pc = "idle"
    BY DEF NoOrder, OrderType
  <2> QED
    BY <2>1 DEF WalletInit, OrdersSound, Entitled, Holds
<1>3. Books
  <2>1. /\ \A c \in Code : Redeemers(c) = {} /\ code[c].uses = 0
        /\ \A u \in Customer : CodesOf(u) = {} /\ {c \in Code : u \in Redeemers(c)} = {}
        /\ \A u \in Customer : balance[u] = 0 /\ spent[u] = 0 /\ credited[u] = 0
    BY DEF WalletInit, Redeemers, CodesOf
  <2>2. Points * 0 = 0 /\ 0 <= MaxCodeUses
    OBVIOUS
  <2> QED
    BY <2>1, <2>2, FS_EmptySet DEF Books, BooksBalance
<1>4. Sales
  BY DEF WalletInit, Sales, NothingLapsedIsSold, Redeemers
<1> QED
  BY <1>1, <1>2, <1>3, <1>4 DEF WalletIInv

---------------------------------------------------------------------------
\* Wallet: the transactions.

\* A transaction that writes nothing but its own progress.
LEMMA OrderMoves ==
    ASSUME OrdersSound, NEW o \in Order, order' \in [Order -> OrderType],
           \A p \in Order \ {o} : order'[p] = order[p],
           UNCHANGED <<balance, receipt, redeemed>>,
           Entitled(order'[o]),
           Holds(order'[o]) =>
              UserFree(order'[o].user) \/ (Holds(order[o]) /\ order'[o].user = order[o].user)
    PROVE  OrdersSound'
<1>1. \A p \in Order : Entitled(order'[p])
  BY DEF OrdersSound
<1>2. \A p \in Order : Entitled(order[p])'
  BY <1>1 DEF Entitled, Holds
<1>3. \A p \in Order \ {o} :
        Holds(order'[p]) /\ Holds(order'[o]) => order'[o].user # order'[p].user
  BY DEF OrdersSound, UserFree, Holds
<1>4. \A p, q \in Order :
        Holds(order'[p]) /\ Holds(order'[q]) /\ order'[p].user = order'[q].user => p = q
  BY <1>3 DEF OrdersSound
<1> QED
  BY <1>2, <1>4 DEF OrdersSound, Holds

\* A transaction that holds its user row writes what is its user's, and ends.
LEMMA OrderEnds ==
    ASSUME OrdersSound, NEW o \in Order, Holds(order[o]),
           order' = [order EXCEPT ![o] = NoOrder],
           \A u \in Customer \ {order[o].user} :
               /\ balance'[u] = balance[u] /\ receipt'[u] = receipt[u]
               /\ \A c \in Code : redeemed'[c][u] = redeemed[c][u]
    PROVE  OrdersSound'
<1>1. NoOrder \in OrderType /\ NoOrder.pc = "idle"
  BY WalletAssumption DEF NoOrder, OrderType
<1>2. order' \in [Order -> OrderType] /\ order'[o] = NoOrder
  BY <1>1 DEF OrdersSound
<1>3. \A p \in Order \ {o} : order'[p] = order[p]
  BY DEF OrdersSound
<1>4. Entitled(order[o])' /\ ~Holds(order'[o])
  BY <1>1, <1>2 DEF Entitled, Holds
<1>5. ASSUME NEW p \in Order \ {o}
      PROVE  Entitled(order[p])'
  <2>1. Entitled(order[p]) /\ order'[p] = order[p]
    BY <1>3, <1>5 DEF OrdersSound
  <2>2. Holds(order[p]) => order[p].user \in Customer \ {order[o].user}
    BY <2>1 DEF OrdersSound, Entitled, Holds
  <2> QED
    BY <2>1, <2>2 DEF Entitled, Holds
<1>6. \A p, q \in Order :
        Holds(order'[p]) /\ Holds(order'[q]) /\ order'[p].user = order'[q].user => p = q
  BY <1>3, <1>4 DEF OrdersSound
<1> QED
  BY <1>2, <1>4, <1>5, <1>6 DEF OrdersSound, Holds

\* The administrator takes nothing of what a transaction knows.
LEMMA OrdersKeep ==
    ASSUME WalletTypes, OrdersSound, UNCHANGED <<order, receipt, redeemed>>,
           balance' \in [Customer -> Nat], \A u \in Customer : balance[u] <= balance'[u]
    PROVE  OrdersSound'
<1>1. ASSUME NEW o \in Order
      PROVE  Entitled(order[o])'
  <2>1. Entitled(order[o]) /\ order[o] \in OrderType /\ order'[o] = order[o]
    BY DEF OrdersSound
  <2>2. order[o].price \in Nat
    BY <2>1 DEF OrderType
  <2>3. order[o].pc = "locked" => order[o].user \in Customer
    BY <2>1 DEF Entitled
  <2>4. order[o].pc = "locked" /\ order[o].kind # "redeem" => order[o].price <= balance'[order[o].user]
    <3> SUFFICES ASSUME order[o].pc = "locked", order[o].kind # "redeem"
                 PROVE  order[o].price <= balance'[order[o].user]
      OBVIOUS
    <3>1. order[o].price <= balance[order[o].user]
      BY <2>1 DEF Entitled
    <3>2. balance[order[o].user] \in Nat /\ balance'[order[o].user] \in Nat
      BY <2>3 DEF WalletTypes
    <3> QED
      BY <2>2, <2>3, <3>1, <3>2
  <2> QED
    BY <2>1, <2>4 DEF Entitled, Holds
<1> QED
  BY <1>1 DEF OrdersSound, Holds

\* What all of it but the transactions amounts to.
walletRows == <<balance, assigned, offer, code, redeemed, receipt, addons, now, credited, spent>>

LEMMA RowsRest ==
    ASSUME WalletIInv, UNCHANGED walletRows
    PROVE  WalletTypes' /\ Books' /\ Sales'
<1>1. WalletTypes'
  BY DEF WalletIInv, walletRows, WalletTypes
<1>2. Books'
  <2>1. \A c \in Code : Redeemers(c)' = Redeemers(c)
    BY DEF walletRows, Redeemers
  <2>2. \A u \in Customer : CodesOf(u)' = CodesOf(u)
    BY <2>1 DEF CodesOf
  <2>3. BooksBalance'
    BY <2>1 DEF WalletIInv, Books, BooksBalance, walletRows
  <2> QED
    BY <2>1, <2>2, <2>3 DEF WalletIInv, Books
<1>3. Sales'
  BY DEF WalletIInv, walletRows, Sales, NothingLapsedIsSold, Redeemers
<1> QED
  BY <1>1, <1>2, <1>3

LEMMA BeginPurchaseKeeps ==
    ASSUME WalletIInv, NEW o \in Order, NEW u \in Customer, NEW k \in PurchaseKey,
           NEW kind \in {"plan", "addon"}, BeginPurchase(o, u, kind, k)
    PROVE  WalletIInv'
<1> USE WalletAssumption DEF WalletIInv
<1>1. WalletTypes' /\ Books' /\ Sales'
  BY RowsRest DEF BeginPurchase, walletRows
<1> DEFINE new == [NoOrder EXCEPT !.pc = "begun", !.kind = kind, !.user = u, !.key = k, !.began = now]
<1>2. new \in OrderType /\ order' = [order EXCEPT ![o] = new]
  <2>1. NoOrder \in OrderType /\ now \in Nat
    BY DEF NoOrder, OrderType, WalletTypes
  <2> QED
    BY <2>1 DEF OrderType, BeginPurchase
<1>3. new.pc = "begun" /\ new.user = u /\ new.key = k /\ new.kind = kind
  BY DEF NoOrder
<1> HIDE DEF new
<1>4. order'[o] = new /\ order' \in [Order -> OrderType] /\ \A p \in Order \ {o} : order'[p] = order[p]
  BY <1>2 DEF OrdersSound
<1>5. OrdersSound'
  BY <1>3, <1>4, OrderMoves DEF Entitled, Holds, BeginPurchase
<1> QED
  BY <1>1, <1>5

LEMMA BeginRedeemKeeps ==
    ASSUME WalletIInv, NEW o \in Order, NEW u \in Customer, NEW c \in Code, BeginRedeem(o, u, c)
    PROVE  WalletIInv'
<1> USE WalletAssumption DEF WalletIInv
<1>1. WalletTypes' /\ Books' /\ Sales'
  BY RowsRest DEF BeginRedeem, walletRows
<1> DEFINE new == [NoOrder EXCEPT !.pc = "begun", !.kind = "redeem", !.user = u, !.code = c, !.began = now]
<1>2. new \in OrderType /\ order' = [order EXCEPT ![o] = new]
  <2>1. NoOrder \in OrderType /\ now \in Nat
    BY DEF NoOrder, OrderType, WalletTypes
  <2> QED
    BY <2>1 DEF OrderType, BeginRedeem
<1>3. new.pc = "begun" /\ new.user = u /\ new.code = c /\ new.kind = "redeem"
  BY DEF NoOrder
<1> HIDE DEF new
<1>4. order'[o] = new /\ order' \in [Order -> OrderType] /\ \A p \in Order \ {o} : order'[p] = order[p]
  BY <1>2 DEF OrdersSound
<1>5. OrdersSound'
  BY <1>3, <1>4, OrderMoves DEF Entitled, Holds, BeginRedeem
<1> QED
  BY <1>1, <1>5

LEMMA RollbackKeeps ==
    ASSUME WalletIInv, NEW o \in Order, Rollback(o)
    PROVE  WalletIInv'
<1> USE WalletAssumption DEF WalletIInv
<1>1. WalletTypes' /\ Books' /\ Sales'
  BY RowsRest DEF Rollback, walletRows
<1>2. order' \in [Order -> OrderType] /\ \A p \in Order \ {o} : order'[p] = order[p]
  BY DEF Rollback, OrdersSound, OrderType, NoOrder
<1>3. order'[o].pc = "idle"
  BY DEF Rollback, OrdersSound, NoOrder
<1>4. OrdersSound'
  BY <1>2, <1>3, OrderMoves DEF Entitled, Holds, Rollback
<1> QED
  BY <1>1, <1>4

LEMMA AdmitKeeps ==
    ASSUME WalletIInv, NEW o \in Order, Admit(o)
    PROVE  WalletIInv'
<1> USE DEF WalletIInv
<1>1. WalletTypes' /\ Books' /\ Sales'
  BY RowsRest DEF Admit, walletRows
<1>2. order[o] \in OrderType /\ Entitled(order[o]) /\ order[o].pc = "begun" /\ order[o].user \in Customer
  BY DEF OrdersSound, Entitled, Admit
<1>3. assigned[order[o].user].version \in 0..MaxVersion
  BY <1>2 DEF WalletTypes
<1>4. order' \in [Order -> OrderType] /\ \A p \in Order \ {o} : order'[p] = order[p]
  BY <1>2, <1>3 DEF Admit, OrdersSound, OrderType
<1>5. /\ order'[o].pc = "admitted" /\ order'[o].user = order[o].user /\ order'[o].key = order[o].key
      /\ order'[o].code = order[o].code /\ order'[o].kind = order[o].kind
  BY <1>2 DEF Admit, OrdersSound, OrderType
<1>6. Entitled(order'[o])
  BY <1>2, <1>5 DEF Entitled, Holds, Admit, ClaimIsNew
<1>7. OrdersSound'
  BY <1>4, <1>5, <1>6, OrderMoves DEF Admit
<1> QED
  BY <1>1, <1>7

LEMMA LockOfferKeeps ==
    ASSUME WalletIInv, NEW o \in Order, LockOffer(o)
    PROVE  WalletIInv'
<1> USE WalletAssumption DEF WalletIInv
<1>1. WalletTypes' /\ Books' /\ Sales'
  BY RowsRest DEF LockOffer, walletRows
<1>2. order[o] \in OrderType /\ Entitled(order[o]) /\ order[o].pc = "admitted" /\ order[o].kind # "redeem"
  BY DEF OrdersSound, LockOffer
<1> DEFINE price == IF order[o].kind = "plan" THEN offer.price ELSE AddonPrice
<1>3. price \in Nat /\ price <= balance[order[o].user]
  <2>1. offer.price \in Nat /\ AddonPrice \in Nat
    BY DEF WalletTypes
  <2>2. order[o].user \in Customer
    BY <1>2 DEF Entitled
  <2>3. balance[order[o].user] \in Nat /\ balance[order[o].user] >= price
    BY <2>2 DEF WalletTypes, LockOffer
  <2> QED
    BY <2>1, <2>3
<1>4. order' = [order EXCEPT ![o].pc = "locked", ![o].price = price]
  BY DEF LockOffer
<1> HIDE DEF price
<1>5. order' \in [Order -> OrderType] /\ \A p \in Order \ {o} : order'[p] = order[p]
  BY <1>2, <1>3, <1>4 DEF OrdersSound, OrderType
<1>6. /\ order'[o].pc = "locked" /\ order'[o].user = order[o].user /\ order'[o].key = order[o].key
      /\ order'[o].kind = order[o].kind /\ order'[o].price = price
  BY <1>2, <1>4 DEF OrdersSound, OrderType
<1>7. Entitled(order'[o])
  BY <1>2, <1>3, <1>6 DEF Entitled, Holds
<1>8. Holds(order[o])
  BY <1>2 DEF Holds
<1>9. OrdersSound'
  BY <1>5, <1>6, <1>7, <1>8, OrderMoves DEF LockOffer
<1> QED
  BY <1>1, <1>9

LEMMA LockCodeKeeps ==
    ASSUME WalletIInv, NEW o \in Order, LockCode(o)
    PROVE  WalletIInv'
<1> USE DEF WalletIInv
<1>1. WalletTypes' /\ Books' /\ Sales'
  BY RowsRest DEF LockCode, walletRows
<1>2. order[o] \in OrderType /\ Entitled(order[o]) /\ order[o].pc = "admitted" /\ order[o].kind = "redeem"
  BY DEF OrdersSound, LockCode
<1>3. order' \in [Order -> OrderType] /\ \A p \in Order \ {o} : order'[p] = order[p]
  BY <1>2 DEF LockCode, OrdersSound, OrderType
<1>4. /\ order'[o].pc = "locked" /\ order'[o].user = order[o].user /\ order'[o].code = order[o].code
      /\ order'[o].kind = order[o].kind
  BY <1>2 DEF LockCode, OrdersSound, OrderType
<1>5. Entitled(order'[o]) /\ Holds(order[o])
  BY <1>2, <1>4 DEF Entitled, Holds, LockCode
<1>6. OrdersSound'
  BY <1>3, <1>4, <1>5, OrderMoves DEF LockCode
<1> QED
  BY <1>1, <1>6

---------------------------------------------------------------------------
\* Wallet: what a transaction writes.

\* A charge takes from the balance what the key cost, and nothing of another customer.
LEMMA ChargeBooks ==
    ASSUME WalletIInv, NEW o \in Order, order[o].pc = "locked", order[o].kind # "redeem",
           Charge(order[o]), UNCHANGED <<code, redeemed, credited>>
    PROVE  /\ balance' \in [Customer -> Nat] /\ spent' \in [Customer -> Nat]
           /\ receipt' \in [Customer -> [PurchaseKey -> {Unset, "plan", "addon"}]]
           /\ \A u \in Customer \ {order[o].user} : balance'[u] = balance[u] /\ receipt'[u] = receipt[u]
           /\ Books'
<1> DEFINE x == order[o]
<1>1. /\ x \in OrderType /\ Entitled(x) /\ x.user \in Customer /\ x.key \in PurchaseKey
      /\ x.price \in Nat /\ x.kind \in {"plan", "addon"}
  BY DEF WalletIInv, OrdersSound, Entitled, OrderType
<1>2. receipt[x.user][x.key] = Unset /\ x.price <= balance[x.user]
  BY <1>1 DEF Entitled, Holds
<1>3. balance[x.user] \in Nat /\ spent[x.user] \in Nat
  BY <1>1 DEF WalletIInv, WalletTypes
<1>4. balance' = [balance EXCEPT ![x.user] = balance[x.user] - x.price]
  BY DEF Charge
<1>5. spent' = [spent EXCEPT ![x.user] = spent[x.user] + x.price]
  BY <1>2 DEF Charge
<1>6. receipt' = [receipt EXCEPT ![x.user][x.key] = x.kind]
  BY DEF Charge
<1> HIDE DEF x
<1>7. balance[x.user] - x.price \in Nat /\ spent[x.user] + x.price \in Nat
  BY <1>1, <1>2, <1>3
<1>8. balance' \in [Customer -> Nat] /\ spent' \in [Customer -> Nat]
  BY <1>4, <1>5, <1>7 DEF WalletIInv, WalletTypes
<1>9. receipt' \in [Customer -> [PurchaseKey -> {Unset, "plan", "addon"}]]
  BY <1>1, <1>6 DEF WalletIInv, WalletTypes
<1>10. \A u \in Customer \ {x.user} :
         balance'[u] = balance[u] /\ receipt'[u] = receipt[u] /\ spent'[u] = spent[u]
  BY <1>4, <1>5, <1>6 DEF WalletIInv, WalletTypes
<1>11. \A u \in Customer : balance'[u] + spent'[u] = balance[u] + spent[u]
  <2> SUFFICES ASSUME NEW u \in Customer PROVE balance'[u] + spent'[u] = balance[u] + spent[u]
    OBVIOUS
  <2>1. CASE u = x.user
    <3>1. balance'[u] = balance[u] - x.price /\ spent'[u] = spent[u] + x.price
      BY <1>4, <1>5, <2>1 DEF WalletIInv, WalletTypes
    <3> QED
      BY <3>1, <2>1, <1>1, <1>3
  <2>2. CASE u # x.user
    BY <1>10, <2>2
  <2> QED
    BY <2>1, <2>2
<1>12. Books'
  BY <1>11 DEF WalletIInv, Books, BooksBalance, Redeemers, CodesOf
<1> QED
  BY <1>8, <1>9, <1>10, <1>12 DEF x

LEMMA BuyPlanKeeps ==
    ASSUME WalletIInv, NEW o \in Order, BuyPlan(o)
    PROVE  WalletIInv'
<1> USE WalletAssumption
<1> DEFINE x == order[o]
<1>1. /\ x \in OrderType /\ x.pc = "locked" /\ x.kind = "plan" /\ x.user \in Customer /\ x.began \in Nat
  BY DEF WalletIInv, OrdersSound, Entitled, OrderType, BuyPlan
<1>2. /\ Charge(x) /\ UNCHANGED <<offer, code, redeemed, addons, now, credited>>
      /\ order' = [order EXCEPT ![o] = NoOrder]
      /\ assigned[x.user].version < MaxVersion
      /\ assigned' = [assigned EXCEPT ![x.user] = [version |-> assigned[x.user].version + 1,
                                                   expires |-> x.began + Period]]
  BY DEF BuyPlan
<1>3. /\ balance' \in [Customer -> Nat] /\ spent' \in [Customer -> Nat]
      /\ receipt' \in [Customer -> [PurchaseKey -> {Unset, "plan", "addon"}]]
      /\ \A u \in Customer \ {x.user} : balance'[u] = balance[u] /\ receipt'[u] = receipt[u]
      /\ Books'
  BY <1>1, <1>2, ChargeBooks
<1>4. OrdersSound'
  BY <1>1, <1>2, <1>3, OrderEnds DEF WalletIInv, Holds
<1> HIDE DEF x
<1>5. /\ assigned[x.user].version \in 0..MaxVersion
      /\ assigned' \in [Customer -> [version : 0..MaxVersion, expires : Nat]]
      /\ assigned'[x.user].version = assigned[x.user].version + 1
      /\ \A u \in Customer \ {x.user} : assigned'[u] = assigned[u]
  BY <1>1, <1>2 DEF WalletIInv, WalletTypes
<1>6. WalletTypes'
  BY <1>2, <1>3, <1>5 DEF WalletIInv, WalletTypes
<1>7. Sales'
  <2>1. \A a \in addons : a.user \in Customer /\ a.version \in 0..MaxVersion /\ a.version <= assigned[a.user].version
    BY DEF WalletIInv, Sales, WalletTypes
  <2>2. ASSUME NEW a \in addons
        PROVE  /\ a.version <= assigned'[a.user].version
               /\ assigned'[a.user].version = a.version => assigned'[a.user].expires = a.expires
    <3>1. CASE a.user = x.user
      BY <3>1, <2>1, <1>5
    <3>2. CASE a.user # x.user
      BY <3>2, <2>1, <1>5 DEF WalletIInv, Sales, NothingLapsedIsSold
    <3> QED
      BY <3>1, <3>2
  <2> QED
    BY <2>2, <1>2 DEF WalletIInv, Sales, NothingLapsedIsSold, Redeemers
<1> QED
  BY <1>3, <1>4, <1>6, <1>7 DEF WalletIInv

LEMMA BuyAddonKeeps ==
    ASSUME WalletIInv, NEW o \in Order, BuyAddon(o)
    PROVE  WalletIInv'
<1> USE WalletAssumption
<1> DEFINE x == order[o]
           new == [user |-> x.user, version |-> x.version, at |-> now,
                   expires |-> assigned[x.user].expires]
<1>1. /\ x \in OrderType /\ x.pc = "locked" /\ x.kind = "addon" /\ x.user \in Customer
      /\ x.version \in 0..MaxVersion
  BY DEF WalletIInv, OrdersSound, Entitled, OrderType, BuyAddon
<1>2. /\ Charge(x) /\ UNCHANGED <<assigned, offer, code, redeemed, now, credited>>
      /\ order' = [order EXCEPT ![o] = NoOrder]
      /\ addons' = addons \cup {new}
      /\ Grantable(x)
  BY DEF BuyAddon
<1>3. /\ balance' \in [Customer -> Nat] /\ spent' \in [Customer -> Nat]
      /\ receipt' \in [Customer -> [PurchaseKey -> {Unset, "plan", "addon"}]]
      /\ \A u \in Customer \ {x.user} : balance'[u] = balance[u] /\ receipt'[u] = receipt[u]
      /\ Books'
  BY <1>1, <1>2, ChargeBooks
<1>4. OrdersSound'
  BY <1>1, <1>2, <1>3, OrderEnds DEF WalletIInv, Holds
<1>5. /\ new \in [user : Customer, version : 0..MaxVersion, at : Nat, expires : Nat]
      /\ assigned[new.user].version = new.version /\ assigned[new.user].expires = new.expires
      /\ new.at < new.expires
  BY <1>1, <1>2 DEF WalletIInv, WalletTypes, Grantable
<1> HIDE DEF new, x
<1>6. WalletTypes'
  BY <1>2, <1>3, <1>5 DEF WalletIInv, WalletTypes
<1>7. Sales'
  <2>1. new.version <= assigned[new.user].version
    BY <1>5
  <2> QED
    BY <2>1, <1>2, <1>5 DEF WalletIInv, Sales, NothingLapsedIsSold, Redeemers
<1> QED
  BY <1>3, <1>4, <1>6, <1>7 DEF WalletIInv

\* A redemption adds one code to the customer's, one customer to the code's, and its points.
LEMMA RedeemKeeps ==
    ASSUME WalletIInv, NEW o \in Order, Redeem(o)
    PROVE  WalletIInv'
<1> USE WalletAssumption
<1>0. PICK u \in Customer, c \in Code : order[o].user = u /\ order[o].code = c
  BY DEF WalletIInv, OrdersSound, Entitled, Redeem
<1>1. /\ order[o].pc = "locked" /\ order[o].kind = "redeem" /\ u \in Customer /\ c \in Code
      /\ redeemed[c][u] = Unset /\ Redeemable(c, now)
  BY <1>0 DEF WalletIInv, OrdersSound, Entitled, Redeem
<1>2. /\ UNCHANGED <<assigned, offer, receipt, addons, now, credited, spent>>
      /\ order' = [order EXCEPT ![o] = NoOrder]
      /\ code' = [code EXCEPT ![c].uses = code[c].uses + 1]
      /\ redeemed' = [redeemed EXCEPT ![c][u] = now]
      /\ balance' = [balance EXCEPT ![u] = balance[u] + Points]
  BY <1>0 DEF Redeem
<1>3. \A v \in Customer \ {u} : balance'[v] = balance[v] /\ \A d \in Code : redeemed'[d][v] = redeemed[d][v]
  BY <1>1, <1>2 DEF WalletIInv, WalletTypes
<1>4. OrdersSound'
  BY <1>0, <1>1, <1>2, <1>3, OrderEnds DEF WalletIInv, Holds
<1>5. balance[u] \in Nat /\ Points \in Nat /\ now \in Nat /\ now # Unset /\ code[c].uses \in Nat
  BY <1>1 DEF WalletIInv, WalletTypes
<1>6. balance' \in [Customer -> Nat] /\ balance'[u] = balance[u] + Points
  BY <1>1, <1>2, <1>5 DEF WalletIInv, WalletTypes
<1>7. code' \in [Code -> [uses : Nat, disabled : BOOLEAN]] /\ code'[c].uses = code[c].uses + 1
  <2>1. code \in [Code -> [uses : Nat, disabled : BOOLEAN]]
    BY DEF WalletIInv, WalletTypes
  <2>2. code[c].uses + 1 \in Nat
    BY <1>5
  <2> QED
    BY <1>1, <1>2, <2>1, <2>2
<1>8. redeemed' \in [Code -> [Customer -> Nat \cup {Unset}]] /\ redeemed'[c][u] = now
  BY <1>1, <1>2, <1>5 DEF WalletIInv, WalletTypes
<1>9. WalletTypes'
  BY <1>2, <1>6, <1>7, <1>8 DEF WalletIInv, WalletTypes
<1>10. \A d \in Code \ {c} : redeemed'[d] = redeemed[d] /\ code'[d] = code[d]
  BY <1>1, <1>2 DEF WalletIInv, WalletTypes
<1>11. /\ u \notin Redeemers(c) /\ Redeemers(c)' = Redeemers(c) \cup {u}
       /\ \A d \in Code \ {c} : Redeemers(d)' = Redeemers(d)
  <2>1. u \notin Redeemers(c)
    BY <1>1 DEF Redeemers
  <2>2. ASSUME NEW v \in Customer
        PROVE  v \in Redeemers(c)' <=> v \in Redeemers(c) \cup {u}
    <3>1. CASE v = u
      BY <1>1, <1>5, <1>8, <3>1 DEF Redeemers
    <3>2. CASE v # u
      BY <1>1, <1>3, <3>2 DEF Redeemers
    <3> QED
      BY <3>1, <3>2
  <2>3. Redeemers(c) \subseteq Customer /\ Redeemers(c)' \subseteq Customer
    BY DEF Redeemers
  <2>4. \A d \in Code \ {c} : Redeemers(d)' = Redeemers(d)
    BY <1>10 DEF Redeemers
  <2> QED
    BY <1>1, <2>1, <2>2, <2>3, <2>4
<1>12. /\ c \notin CodesOf(u) /\ CodesOf(u)' = CodesOf(u) \cup {c}
       /\ \A v \in Customer \ {u} : CodesOf(v)' = CodesOf(v)
  <2>1. \A d \in Code, v \in Customer :
          v \in Redeemers(d)' <=> v \in Redeemers(d) \/ (d = c /\ v = u)
    BY <1>11
  <2>2. \A v \in Customer :
          /\ CodesOf(v) = {d \in Code : v \in Redeemers(d)}
          /\ CodesOf(v)' = {d \in Code : v \in Redeemers(d)'}
    BY DEF CodesOf
  <2>3. c \notin CodesOf(u)
    BY <1>11, <2>2
  <2>4. CodesOf(u)' = CodesOf(u) \cup {c}
    BY <2>1, <2>2
  <2>5. ASSUME NEW v \in Customer \ {u} PROVE CodesOf(v)' = CodesOf(v)
    BY <2>1, <2>2, <2>5
  <2> QED
    BY <2>3, <2>4, <2>5
<1>13. /\ IsFiniteSet(Redeemers(c)) /\ IsFiniteSet(CodesOf(u))
       /\ code[c].uses = Cardinality(Redeemers(c)) /\ code[c].uses < MaxCodeUses
  BY <1>1 DEF WalletIInv, Books, BooksBalance, Redeemable
<1>14. /\ IsFiniteSet(Redeemers(c)') /\ Cardinality(Redeemers(c)') = Cardinality(Redeemers(c)) + 1
       /\ IsFiniteSet(CodesOf(u)') /\ Cardinality(CodesOf(u)') = Cardinality(CodesOf(u)) + 1
  BY <1>11, <1>12, <1>13, FS_AddElement
<1>15. ASSUME NEW v \in Customer
       PROVE  balance'[v] + spent'[v] = credited'[v] + Points * Cardinality(CodesOf(v)')
  <2>1. balance[v] + spent[v] = credited[v] + Points * Cardinality(CodesOf(v))
    BY DEF WalletIInv, Books, BooksBalance, CodesOf
  <2>2. CASE v = u
    <3>1. Cardinality(CodesOf(u)) \in Nat /\ spent[u] \in Nat /\ credited[u] \in Nat
      BY <1>1, <1>13, FS_CardinalityType DEF WalletIInv, WalletTypes
    <3>2. \A n \in Nat : Points * (n + 1) = Points * n + Points
      BY <1>5
    <3>3. Points * Cardinality(CodesOf(u)') = Points * Cardinality(CodesOf(u)) + Points
      BY <1>14, <3>1, <3>2
    <3>4. \A n \in Nat : Points * n \in Nat
      BY <1>5
    <3>5. Points * Cardinality(CodesOf(u)) \in Nat
      BY <3>1, <3>4
    <3>6. spent'[u] = spent[u] /\ credited'[u] = credited[u]
      BY <1>2
    <3> DEFINE had == Points * Cardinality(CodesOf(u))
               has == Points * Cardinality(CodesOf(u)')
    <3>7. had \in Nat /\ has = had + Points /\ balance[u] + spent[u] = credited[u] + had
      BY <2>1, <2>2, <3>3, <3>5
    <3>8. balance'[u] + spent'[u] = credited'[u] + has
      <4> HIDE DEF had, has
      <4> QED
        BY <1>5, <1>6, <3>1, <3>6, <3>7
    <3> QED
      BY <2>2, <3>8
  <2>3. CASE v # u
    BY <1>2, <1>3, <1>12, <2>1, <2>3
  <2> QED
    BY <2>2, <2>3
<1>16. ASSUME NEW d \in Code
       PROVE  /\ IsFiniteSet(Redeemers(d)') /\ code'[d].uses = Cardinality(Redeemers(d)')
              /\ code'[d].uses <= MaxCodeUses
  <2>1. CASE d = c
    <3>1. code'[c].uses = Cardinality(Redeemers(c)') /\ code'[c].uses <= MaxCodeUses
      BY <1>5, <1>7, <1>13, <1>14
    <3> QED
      BY <1>14, <2>1, <3>1
  <2>2. CASE d # c
    BY <1>10, <1>11, <2>2 DEF WalletIInv, Books, BooksBalance
  <2> QED
    BY <2>1, <2>2
<1>17. ASSUME NEW v \in Customer PROVE IsFiniteSet(CodesOf(v)')
  <2>1. CASE v = u
    BY <1>14, <2>1
  <2>2. CASE v # u
    BY <1>12, <2>2 DEF WalletIInv, Books
  <2> QED
    BY <2>1, <2>2
<1>18. Books'
  BY <1>15, <1>16, <1>17 DEF Books, BooksBalance, CodesOf
<1>19. Sales'
  <2>1. now < CodeEnd
    BY <1>1 DEF Redeemable
  <2>2. ASSUME NEW d \in Code, NEW v \in Redeemers(d)'
        PROVE  redeemed'[d][v] < CodeEnd
    <3>1. CASE d = c /\ v = u
      BY <1>8, <2>1, <3>1
    <3>2. CASE ~(d = c /\ v = u)
      <4>1. v \in Customer /\ redeemed'[d][v] = redeemed[d][v] /\ v \in Redeemers(d)
        BY <1>3, <1>10, <1>11, <2>2, <3>2 DEF Redeemers
      <4> QED
        BY <4>1 DEF WalletIInv, Sales, NothingLapsedIsSold
    <3> QED
      BY <3>1, <3>2
  <2> QED
    BY <1>2, <2>2 DEF WalletIInv, Sales, NothingLapsedIsSold
<1> QED
  BY <1>4, <1>9, <1>18, <1>19 DEF WalletIInv

---------------------------------------------------------------------------
\* Wallet: the administrator, and the time.

LEMMA CreditKeeps ==
    ASSUME WalletIInv, NEW u \in Customer, Credit(u)
    PROVE  WalletIInv'
<1>1. balance[u] \in Nat /\ credited[u] \in Nat
  BY DEF WalletIInv, WalletTypes
<1>2. /\ balance' = [balance EXCEPT ![u] = balance[u] + 1]
      /\ credited' = [credited EXCEPT ![u] = credited[u] + 1]
      /\ UNCHANGED <<assigned, offer, code, redeemed, receipt, addons, order, now, spent>>
  BY DEF Credit
<1>3. WalletTypes'
  BY <1>1, <1>2 DEF WalletIInv, WalletTypes
<1>4. ASSUME NEW v \in Customer
      PROVE  /\ balance[v] <= balance'[v]
             /\ balance'[v] + spent'[v] = credited'[v] + Points * Cardinality(CodesOf(v))
  <2>1. balance[v] + spent[v] = credited[v] + Points * Cardinality(CodesOf(v))
    BY DEF WalletIInv, Books, BooksBalance, CodesOf
  <2>2. balance[v] \in Nat /\ credited[v] \in Nat /\ spent[v] \in Nat
    BY DEF WalletIInv, WalletTypes
  <2>3. Points * Cardinality(CodesOf(v)) \in Nat
    <3>1. \A n \in Nat : Points * n \in Nat
      BY WalletAssumption
    <3> QED
      BY <3>1, FS_CardinalityType DEF WalletIInv, Books
  <2>4. CASE v = u
    <3>1. balance'[u] = balance[u] + 1 /\ credited'[u] = credited[u] + 1 /\ spent'[u] = spent[u]
      BY <1>2 DEF WalletIInv, WalletTypes
    <3> DEFINE had == Points * Cardinality(CodesOf(v))
    <3>2. had \in Nat /\ balance[u] + spent[u] = credited[u] + had /\ spent[u] \in Nat
      BY <2>1, <2>2, <2>3, <2>4
    <3>3. balance'[u] + spent'[u] = credited'[u] + had /\ balance[u] <= balance'[u]
      <4> HIDE DEF had
      <4> QED
        BY <1>1, <3>1, <3>2
    <3> QED
      BY <2>4, <3>3
  <2>5. CASE v # u
    BY <1>2, <2>1, <2>2, <2>5 DEF WalletIInv, WalletTypes
  <2> QED
    BY <2>4, <2>5
<1>5. OrdersSound'
  BY <1>2, <1>3, <1>4, OrdersKeep DEF WalletIInv, WalletTypes
<1>6. Books'
  BY <1>2, <1>4 DEF WalletIInv, Books, BooksBalance, Redeemers, CodesOf
<1>7. Sales'
  BY <1>2 DEF WalletIInv, Sales, NothingLapsedIsSold, Redeemers
<1> QED
  BY <1>3, <1>5, <1>6, <1>7 DEF WalletIInv

\* The versions only grow, so no grant of before has the version of the new assignment.
LEMMA AssignPlanKeeps ==
    ASSUME WalletIInv, NEW u \in Customer, AssignPlan(u)
    PROVE  WalletIInv'
<1> USE WalletAssumption
<1>1. /\ assigned[u].version < MaxVersion
      /\ UNCHANGED <<balance, offer, code, redeemed, receipt, addons, order, now, credited, spent>>
  BY DEF AssignPlan
<1>2. PICK end \in 0..(MaxNow + Period) :
         assigned' = [assigned EXCEPT ![u] = [version |-> assigned[u].version + 1, expires |-> end]]
  BY DEF AssignPlan
<1>3. assigned[u].version \in 0..MaxVersion /\ end \in Nat
  BY DEF WalletIInv, WalletTypes
<1>4. /\ assigned' \in [Customer -> [version : 0..MaxVersion, expires : Nat]]
      /\ assigned'[u].version = assigned[u].version + 1
      /\ \A v \in Customer \ {u} : assigned'[v] = assigned[v]
  <2> DEFINE y == [version |-> assigned[u].version + 1, expires |-> end]
  <2>1. /\ assigned \in [Customer -> [version : 0..MaxVersion, expires : Nat]]
        /\ y \in [version : 0..MaxVersion, expires : Nat] /\ y.version = assigned[u].version + 1
    BY <1>1, <1>3 DEF WalletIInv, WalletTypes
  <2>2. assigned' = [assigned EXCEPT ![u] = y]
    BY <1>2
  <2> HIDE DEF y
  <2> QED
    BY <2>1, <2>2
<1>5. WalletTypes'
  BY <1>1, <1>4 DEF WalletIInv, WalletTypes
<1>6. \A v \in Customer : balance[v] <= balance'[v]
  BY <1>1 DEF WalletIInv, WalletTypes
<1>7. OrdersSound'
  BY <1>1, <1>5, <1>6, OrdersKeep DEF WalletIInv, WalletTypes
<1>8. Books'
  <2>1. /\ \A c \in Code : Redeemers(c)' = Redeemers(c)
        /\ \A v \in Customer : CodesOf(v)' = CodesOf(v)
    BY <1>1 DEF Redeemers, CodesOf
  <2> QED
    BY <1>1, <2>1 DEF WalletIInv, Books, BooksBalance
<1>9. Sales'
  <2>1. \A a \in addons : a.user \in Customer /\ a.version \in 0..MaxVersion /\ a.version <= assigned[a.user].version
    BY DEF WalletIInv, Sales, WalletTypes
  <2>2. ASSUME NEW a \in addons
        PROVE  /\ a.version <= assigned'[a.user].version
               /\ assigned'[a.user].version = a.version => assigned'[a.user].expires = a.expires
    <3>1. CASE a.user = u
      BY <3>1, <2>1, <1>3, <1>4
    <3>2. CASE a.user # u
      BY <3>2, <2>1, <1>4 DEF WalletIInv, Sales, NothingLapsedIsSold
    <3> QED
      BY <3>1, <3>2
  <2> QED
    BY <2>2, <1>1 DEF WalletIInv, Sales, NothingLapsedIsSold, Redeemers
<1> QED
  BY <1>5, <1>7, <1>8, <1>9 DEF WalletIInv

\* Nothing else touches points, grants or what the transactions know.
LEMMA SettingKeeps ==
    ASSUME WalletIInv,
           EditPlan \/ ArchiveAddon \/ TimePasses \/ (\E c \in Code : DisableCode(c))
    PROVE  WalletIInv'
<1> USE WalletAssumption
<1>1. /\ UNCHANGED <<balance, assigned, redeemed, receipt, addons, order, credited, spent>>
      /\ code' \in [Code -> [uses : Nat, disabled : BOOLEAN]]
      /\ \A c \in Code : code'[c].uses = code[c].uses
  <2>1. code \in [Code -> [uses : Nat, disabled : BOOLEAN]]
    BY DEF WalletIInv, WalletTypes
  <2>2. CASE EditPlan \/ ArchiveAddon \/ TimePasses
    BY <2>1, <2>2 DEF EditPlan, ArchiveAddon, TimePasses
  <2>3. ASSUME NEW c \in Code, DisableCode(c)
        PROVE  /\ UNCHANGED <<balance, assigned, redeemed, receipt, addons, order, credited, spent>>
               /\ code' \in [Code -> [uses : Nat, disabled : BOOLEAN]]
               /\ \A d \in Code : code'[d].uses = code[d].uses
    <3>1. code' = [code EXCEPT ![c].disabled = TRUE]
      BY <2>3 DEF DisableCode
    <3>2. code' \in [Code -> [uses : Nat, disabled : BOOLEAN]]
      BY <2>1, <3>1
    <3>3. \A d \in Code : code'[d].uses = code[d].uses
      BY <2>1, <3>1
    <3> QED
      BY <2>3, <3>2, <3>3 DEF DisableCode
  <2> QED
    BY <2>2, <2>3
<1>2. WalletTypes'
  <2>1. CASE EditPlan
    BY <2>1 DEF EditPlan, WalletIInv, WalletTypes
  <2>2. CASE ArchiveAddon
    BY <2>2 DEF ArchiveAddon, WalletIInv, WalletTypes
  <2>3. CASE TimePasses
    BY <2>3 DEF TimePasses, WalletIInv, WalletTypes
  <2>4. CASE \E c \in Code : DisableCode(c)
    BY <1>1, <2>4 DEF DisableCode, WalletIInv, WalletTypes
  <2> QED
    BY <2>1, <2>2, <2>3, <2>4
<1>3. \A u \in Customer : balance[u] <= balance'[u]
  BY <1>1 DEF WalletIInv, WalletTypes
<1>4. OrdersSound'
  BY <1>1, <1>2, <1>3, OrdersKeep DEF WalletIInv, WalletTypes
<1>5. Books'
  <2>1. /\ \A c \in Code : Redeemers(c)' = Redeemers(c)
        /\ \A u \in Customer : CodesOf(u)' = CodesOf(u)
    BY <1>1 DEF Redeemers, CodesOf
  <2> QED
    BY <1>1, <2>1 DEF WalletIInv, Books, BooksBalance
<1>6. Sales'
  BY <1>1 DEF WalletIInv, Sales, NothingLapsedIsSold, Redeemers
<1> QED
  BY <1>2, <1>4, <1>5, <1>6 DEF WalletIInv

---------------------------------------------------------------------------
\* Wallet: the theorems.

LEMMA WalletStep == WalletIInv /\ [WalletNext]_walletVars => WalletIInv'
<1> SUFFICES ASSUME WalletIInv, [WalletNext]_walletVars PROVE WalletIInv'
  OBVIOUS
<1>1. CASE RedeemNext
  BY <1>1, BeginRedeemKeeps, AdmitKeeps, RollbackKeeps, LockCodeKeeps, RedeemKeeps, SettingKeeps
     DEF RedeemNext, Either
<1>2. CASE PurchaseNext
  BY <1>2, BeginPurchaseKeeps, AdmitKeeps, RollbackKeeps, LockOfferKeeps, BuyPlanKeeps,
     BuyAddonKeeps, CreditKeeps, AssignPlanKeeps, SettingKeeps DEF PurchaseNext, Either
<1>3. CASE UNCHANGED walletVars
  <2>1. WalletTypes' /\ Books' /\ Sales'
    BY <1>3, RowsRest DEF walletVars, walletRows
  <2>2. OrdersSound'
    BY <1>3 DEF walletVars, WalletIInv, OrdersSound, Entitled, Holds
  <2> QED
    BY <2>1, <2>2 DEF WalletIInv
<1> QED
  BY <1>1, <1>2, <1>3 DEF WalletNext

\* The invariant of the wallet: the rows, what each transaction knows while it holds its
\* customer's row, the books, and the grants.
THEOREM WalletInvariance == WalletSpec => []WalletIInv
  BY WalletStarts, WalletStep, PTL DEF WalletSpec

\* Rows and transactions have their shapes, and no balance is ever negative.
THEOREM WalletTypeCorrect == WalletSpec => []WalletTypeOK
<1>1. WalletIInv => WalletTypeOK
  BY DEF WalletIInv, WalletTypes, OrdersSound, OrderType, WalletTypeOK
<1> QED
  BY <1>1, WalletInvariance, PTL

\* No point appears or vanishes (wallet/repository): what a customer was credited and
\* redeemed is what is left and what each key cost once, and no code is redeemed more
\* often than it may, for any number of transactions.
THEOREM BooksAlwaysBalance == WalletSpec => []BooksBalance
<1>1. WalletIInv => BooksBalance
  BY DEF WalletIInv, Books
<1> QED
  BY <1>1, WalletInvariance, PTL

\* Whatever a transaction waits for, no code and no add-on is sold after its end, and an
\* add-on ends with the assignment it was bought for.
THEOREM NothingLapsedIsEverSold == WalletSpec => []NothingLapsedIsSold
<1>1. WalletIInv => NothingLapsedIsSold
  BY DEF WalletIInv, Sales
<1> QED
  BY <1>1, WalletInvariance, PTL

---------------------------------------------------------------------------
\* Bindings: the invariant.

BindingKey == CreateKey \cup RefreshKey

RequestType == [type : OpType, ref : Binding, key : BindingKey, issuer : Issuer, token : Nat]

CallType ==
    [pc : {"idle", "call", "answered"}, type : OpType, ref : Binding \cup {Absent},
     key : BindingKey \cup {Absent}, revision : 0..MaxRevision, issuer : Issuer \cup {Absent},
     token : Nat, answer : {Absent, "bundle", "committed", "busy", "refused"}]

GrantType ==
    [state : {"none", "alive", "tombstone"}, token : Nat,
     served : SUBSET (OpType \X BindingKey \X Nat)]

OperationType ==
    [status : {"none", "leased", "committed", "failed"}, ref : Binding \cup {Absent},
     revision : 0..MaxRevision, fresh : BOOLEAN]

OperationTypes ==
    /\ DOMAIN operation = OpType
    /\ \A t \in OpType :
        DOMAIN operation[t] = OpKey(t) /\ \A k \in OpKey(t) : operation[t][k] \in OperationType

BindingTypes ==
    /\ provider \in [issuer : Issuer, enabled : BOOLEAN, revision : 0..MaxRevision]
    /\ binding \in [Binding -> [state : {"none", "live", "gone"}, linked : BOOLEAN, token : Nat]]
    /\ OperationTypes
    /\ outbox \in [Binding -> {"none", "queued", "claimed", "processed"}]
    /\ remote \in [Issuer -> [Binding -> GrantType]]
    /\ call \in [Call -> CallType]
    /\ \A c \in Call : call[c].pc # "idle" => Asked(c) \in RequestType
    /\ revoker \in [Revoker -> [pc : {"idle", "load", "revoke", "report"}, ref : Binding \cup {Absent},
                                issuer : Issuer \cup {Absent}, answer : {Absent, "done", "failed"}]]
    /\ stray \subseteq RequestType

Awaited(b) == outbox[b] \in {"queued", "claimed"}

\* The provider's row still names identity i, and binding b is not done with.
Tracked(i, b) == provider.issuer = i /\ (Live(b) \/ Awaited(b))

\* Rows are numbered in the order of their insertion, and unlinked once.
RowsSound ==
    /\ \E n \in 0..MaxBinding : \A b \in Binding : binding[b].state # "none" <=> b <= n
    /\ \A b \in Binding :
        /\ binding[b].state = "none" => binding[b].token = 0
        /\ outbox[b] # "none" => binding[b].state = "gone"
        /\ Live(b) => binding[b].token <= remote[provider.issuer][b].token
    /\ \A a, b \in Binding : Live(a) /\ Live(b) => a = b

\* The requests that have not reached the provider.
UnderWay == stray \cup {Asked(c) : c \in {d \in Call : call[d].pc = "call"}}

\* A binding someone asks about was inserted while the row named this identity, and
\* what the provider would still accept is still watched here.
Addressed(i, b) ==
    /\ binding[b].state # "none"
    /\ Live(b) => provider.issuer = i
    /\ remote[i][b].state # "tombstone" => Tracked(i, b)

RequestSound(q) == Addressed(q.issuer, q.ref) /\ q.token <= Known(q).token

Carries(c) == call[c].pc = "answered" /\ call[c].answer = "bundle"

\* The answer a call carries has the newest token, and nobody else knows it yet.
AnswerSound(c) ==
    LET i == call[c].issuer
        b == call[c].ref
        token == call[c].token
    IN
    /\ Addressed(i, b)
    /\ remote[i][b].state # "none" /\ remote[i][b].token = token
    /\ Live(b) => binding[b].token < token
    /\ \A q \in UnderWay : q.issuer = i /\ q.ref = b => q.token < token
    /\ \A d \in Call : Carries(d) /\ call[d].issuer = i /\ call[d].ref = b => d = c

\* A worker may be overdue and its entry done with, but it never asks another identity
\* while the entry waits.
RevokerSound(w) ==
    LET b == revoker[w].ref
        i == revoker[w].issuer
    IN
    /\ revoker[w].pc # "idle" => b \in Binding /\ outbox[b] # "none"
    /\ revoker[w].pc \in {"revoke", "report"} =>
        i \in Issuer /\ (Awaited(b) => i = provider.issuer)
    /\ revoker[w].pc = "report" /\ revoker[w].answer = "done" => remote[i][b].state = "tombstone"

BindingIInv ==
    /\ BindingTypes
    /\ RowsSound
    /\ \A q \in UnderWay : RequestSound(q)
    /\ \A c \in Call : Carries(c) => AnswerSound(c)
    /\ \A w \in Revoker : RevokerSound(w)
    /\ EveryGrantIsAccountedFor

LEMMA BindingStarts == BindingsInit => BindingIInv
<1> SUFFICES ASSUME BindingsInit PROVE BindingIInv
  OBVIOUS
<1> USE BindingsAssumption DEF BindingsInit
<1>1. NoCall \in CallType /\ NoCall.pc = "idle" /\ NoWork.pc = "idle"
  BY DEF NoCall, CallType, OpType, NoWork
<1>2. \A c \in Call : call[c].pc = "idle"
  BY <1>1
<1>3. BindingTypes
  <2>1. OperationTypes
    BY DEF OperationTypes, OperationType, OpType
  <2>2. remote \in [Issuer -> [Binding -> GrantType]]
    BY DEF GrantType
  <2> QED
    BY <1>1, <1>2, <2>1, <2>2 DEF BindingTypes, NoWork
<1>4. RowsSound
  <2>1. 0 \in 0..MaxBinding /\ \A b \in Binding : ~(b <= 0)
    BY DEF Binding
  <2> QED
    BY <2>1 DEF RowsSound, Live
<1>5. UnderWay = {}
  BY <1>2 DEF UnderWay
<1>6. \A c \in Call : ~Carries(c)
  BY <1>2 DEF Carries
<1>7. \A w \in Revoker : RevokerSound(w)
  BY <1>1 DEF RevokerSound
<1>8. EveryGrantIsAccountedFor
  BY DEF EveryGrantIsAccountedFor
<1> QED
  BY <1>3, <1>4, <1>5, <1>6, <1>7, <1>8 DEF BindingIInv

---------------------------------------------------------------------------
\* Bindings: what is under way.

LEMMA AskedIs ==
    \A c \in Call : /\ Asked(c).issuer = call[c].issuer /\ Asked(c).ref = call[c].ref
                    /\ Asked(c).token = call[c].token /\ Asked(c).type = call[c].type
                    /\ Asked(c).key = call[c].key
  BY DEF Asked

\* A step that moves one call puts nothing under way but what that call asks now.
LEMMA OneCallMoves ==
    ASSUME NEW c \in Call, \A d \in Call \ {c} : call'[d] = call[d]
    PROVE  \A q \in UnderWay' :
              q \in stray' \/ q \in UnderWay \/ (call'[c].pc = "call" /\ q = Asked(c)')
<1> SUFFICES ASSUME NEW q \in UnderWay', q \notin stray'
             PROVE  q \in UnderWay \/ (call'[c].pc = "call" /\ q = Asked(c)')
  OBVIOUS
<1>1. PICK d \in Call : call'[d].pc = "call" /\ q = Asked(d)'
  BY DEF UnderWay
<1>2. CASE d = c
  BY <1>1, <1>2
<1>3. CASE d # c
  <2>1. call'[d] = call[d]
    BY <1>3
  <2>2. q = Asked(d) /\ call[d].pc = "call"
    BY <1>1, <2>1 DEF Asked
  <2> QED
    BY <2>2 DEF UnderWay
<1> QED
  BY <1>2, <1>3

LEMMA UnderWayTypes ==
    ASSUME BindingTypes
    PROVE  \A q \in UnderWay : q \in RequestType
  BY DEF BindingTypes, UnderWay

LEMMA AddressedRests ==
    ASSUME NEW i, NEW b, Addressed(i, b),
           UNCHANGED <<provider.issuer, binding, outbox, remote>>
    PROVE  Addressed(i, b)'
  BY DEF Addressed, Tracked, Live, Awaited

\* A step that leaves rows and grants alone: a request that it puts under way is sound
\* and knows no token that is still in an answer, and the answers it ends are mislaid.
LEMMA CallsMove ==
    ASSUME BindingIInv, BindingTypes',
           UNCHANGED <<provider.issuer, binding, outbox, remote>>,
           \A q \in UnderWay' :
              \/ q \in UnderWay
              \/ /\ RequestSound(q)
                 /\ \A c \in Call : Carries(c) /\ call[c].issuer = q.issuer /\ call[c].ref = q.ref =>
                        q.token < call[c].token,
           \A c \in Call : Carries(c)' => Carries(c) /\ Asked(c)' = Asked(c),
           \A c \in Call : Carries(c) =>
              \/ Carries(c)' /\ Asked(c)' = Asked(c)
              \/ <<call[c].issuer, call[c].ref, call[c].token>> \in mislaid',
           mislaid \subseteq mislaid',
           \A w \in Revoker : RevokerSound(w)'
    PROVE  BindingIInv'
<1>1. RowsSound'
  BY DEF BindingIInv, RowsSound, Live
<1>2. ASSUME NEW q \in UnderWay'
      PROVE  RequestSound(q)'
  <2>1. RequestSound(q)
    BY <1>2 DEF BindingIInv
  <2> QED
    BY <2>1 DEF RequestSound, Addressed, Tracked, Live, Awaited, Known
<1>3. ASSUME NEW c \in Call, Carries(c)'
      PROVE  AnswerSound(c)'
  <2>1. Carries(c) /\ AnswerSound(c) /\ Asked(c)' = Asked(c)
    BY <1>3 DEF BindingIInv
  <2>2. call'[c].issuer = call[c].issuer /\ call'[c].ref = call[c].ref /\ call'[c].token = call[c].token
    BY <2>1 DEF Asked
  <2>3. \A q \in UnderWay' : q.issuer = call[c].issuer /\ q.ref = call[c].ref => q.token < call[c].token
    BY <2>1 DEF AnswerSound
  <2>4. \A d \in Call : Carries(d)' /\ call'[d].issuer = call[c].issuer /\ call'[d].ref = call[c].ref => d = c
    BY <2>1 DEF AnswerSound, Asked
  <2>5. Addressed(call[c].issuer, call[c].ref)'
    BY <2>1, <2>2 DEF AnswerSound, Addressed, Tracked, Live, Awaited
  <2> QED
    BY <2>1, <2>2, <2>3, <2>4, <2>5 DEF AnswerSound, Live
<1>4. EveryGrantIsAccountedFor'
  <2> SUFFICES ASSUME NEW i \in Issuer, NEW b \in Binding, remote'[i][b].state = "alive"
               PROVE  /\ provider'.issuer = i
                      /\ \/ outbox'[b] \in {"queued", "claimed"}
                         \/ /\ Live(b)'
                            /\ \/ binding'[b].token = remote'[i][b].token
                               \/ InTransit(i, b, remote[i][b].token)'
                               \/ <<i, b, remote'[i][b].token>> \in mislaid'
    BY DEF EveryGrantIsAccountedFor
  <2>1. /\ provider.issuer = i
        /\ \/ outbox[b] \in {"queued", "claimed"}
           \/ /\ Live(b)
              /\ \/ binding[b].token = remote[i][b].token
                 \/ InTransit(i, b, remote[i][b].token)
                 \/ <<i, b, remote[i][b].token>> \in mislaid
    BY DEF BindingIInv, EveryGrantIsAccountedFor
  <2>2. CASE InTransit(i, b, remote[i][b].token)
    <3>1. PICK c \in Call : /\ Carries(c) /\ call[c].issuer = i /\ call[c].ref = b
                            /\ call[c].token = remote[i][b].token
      BY <2>2 DEF InTransit, Carries
    <3>2. CASE Carries(c)' /\ Asked(c)' = Asked(c)
      BY <2>1, <3>1, <3>2 DEF InTransit, Carries, Asked, Live
    <3>3. CASE <<call[c].issuer, call[c].ref, call[c].token>> \in mislaid'
      BY <2>1, <3>1, <3>3 DEF Live
    <3> QED
      BY <3>1, <3>2, <3>3
  <2>3. CASE ~InTransit(i, b, remote[i][b].token)
    BY <2>1, <2>3 DEF Live
  <2> QED
    BY <2>2, <2>3
<1> QED
  BY <1>1, <1>2, <1>3, <1>4 DEF BindingIInv

\* The provider serves a request.  If it issues a token, that is the newest, and one call
\* alone may carry it; otherwise nothing is new.
LEMMA GrantMoves ==
    ASSUME BindingIInv, BindingTypes', NEW q \in UnderWay, Serve(q),
           UNCHANGED <<provider, binding, outbox, revoker>>,
           \A r \in UnderWay' : r \in UnderWay,
           NEW c, \A d \in Call \ {c} : call'[d] = call[d],
           c \in Call => ~Carries(c),
           c \in Call /\ Carries(c)' =>
               /\ Answer(q) = "bundle" /\ call'[c].issuer = q.issuer /\ call'[c].ref = q.ref
               /\ call'[c].token = Known(q).token + 1,
           Answer(q) = "bundle" =>
               (c \in Call /\ Carries(c)') \/ <<q.issuer, q.ref, Known(q).token + 1>> \in mislaid',
           mislaid \subseteq mislaid'
    PROVE  BindingIInv'
<1>1. /\ q \in RequestType /\ RequestSound(q)
      /\ q.issuer \in Issuer /\ q.ref \in Binding /\ q.token \in Nat
  BY UnderWayTypes DEF BindingIInv, RequestType
<1>2. PICK i \in Issuer, b \in Binding : i = q.issuer /\ b = q.ref
  BY <1>1
<1>3. PICK n \in Nat : n = remote[i][b].token
  BY DEF BindingIInv, BindingTypes, GrantType
<1>4. Known(q) = remote[i][b]
  BY <1>2 DEF Known
<1>5. \A j \in Issuer, a \in Binding : (j # i \/ a # b) => remote'[j][a] = remote[j][a]
  BY <1>2 DEF Serve, BindingIInv, BindingTypes
<1>6. CASE Answer(q) # "bundle"
  <2>1. remote' = remote
    BY <1>6 DEF Serve
  <2>2. \A d \in Call : (Carries(d)' => Carries(d)) /\ (Carries(d) => Carries(d)' /\ Asked(d)' = Asked(d))
    BY <1>6 DEF Carries, Asked
  <2>3. \A d \in Call : Carries(d)' => Asked(d)' = Asked(d)
    BY <2>2
  <2>4. \A w \in Revoker : RevokerSound(w)'
    BY <2>1 DEF BindingIInv, RevokerSound, Awaited
  <2> QED
    BY <2>1, <2>2, <2>3, <2>4, CallsMove
<1>7. CASE Answer(q) = "bundle"
  <2>1. /\ remote'[i][b].state = "alive" /\ remote'[i][b].token = n + 1
        /\ remote[i][b].state # "tombstone"
    <3>1. remote[i][b].state # "tombstone"
      BY <1>4, <1>7 DEF Answer
    <3>2. remote' = [remote EXCEPT ![i][b] =
                        [state |-> "alive", token |-> remote[i][b].token + 1,
                         served |-> remote[i][b].served \cup {<<q.type, q.key, q.token>>}]]
      BY <1>2, <1>7 DEF Serve
    <3> QED
      BY <1>3, <3>1, <3>2 DEF BindingIInv, BindingTypes
  <2>2. Addressed(i, b) /\ Tracked(i, b)
    BY <1>1, <1>2, <2>1 DEF RequestSound, Addressed
  <2>3. \A d \in Call : Carries(d) => ~(call[d].issuer = i /\ call[d].ref = b)
    <3> SUFFICES ASSUME NEW d \in Call, Carries(d), call[d].issuer = i, call[d].ref = b
                 PROVE  FALSE
      OBVIOUS
    <3>1. AnswerSound(d)
      BY DEF BindingIInv
    <3>2. remote[i][b].state # "none" /\ call[d].token = n /\ q.token < n
      BY <1>2, <1>3, <3>1 DEF AnswerSound
    <3>3. q.type = "refresh" /\ q.token = n
      BY <1>3, <1>4, <1>7, <3>2 DEF Answer
    <3> QED
      BY <1>3, <3>2, <3>3
  <2>4. RowsSound'
    <3>1. ASSUME NEW a \in Binding, Live(a)
          PROVE  binding[a].token <= remote'[provider.issuer][a].token
      <4>1. binding[a].token <= remote[provider.issuer][a].token
        BY <3>1 DEF BindingIInv, RowsSound
      <4>2. provider.issuer \in Issuer /\ binding[a].token \in Nat
        BY DEF BindingIInv, BindingTypes
      <4>3. CASE provider.issuer = i /\ a = b
        BY <1>3, <2>1, <4>1, <4>2, <4>3
      <4>4. CASE ~(provider.issuer = i /\ a = b)
        BY <1>5, <4>1, <4>2, <4>4
      <4> QED
        BY <4>3, <4>4
    <3> QED
      BY <3>1 DEF BindingIInv, RowsSound, Live
  <2>5. ASSUME NEW j \in Issuer, NEW a \in Binding, Addressed(j, a)
        PROVE  Addressed(j, a)'
    <3>1. CASE j = i /\ a = b
      BY <2>2, <3>1 DEF Addressed, Tracked, Live, Awaited
    <3>2. CASE ~(j = i /\ a = b)
      BY <1>5, <2>5, <3>2 DEF Addressed, Tracked, Live, Awaited
    <3> QED
      BY <3>1, <3>2
  <2>6. ASSUME NEW r \in UnderWay'
        PROVE  RequestSound(r)' /\ (r.issuer = i /\ r.ref = b => r.token < n + 1)
    <3>1. r \in RequestType /\ RequestSound(r)
      BY <2>6, UnderWayTypes DEF BindingIInv
    <3>2. r.issuer \in Issuer /\ r.ref \in Binding /\ r.token \in Nat
      BY <3>1 DEF RequestType
    <3>3. Addressed(r.issuer, r.ref)'
      BY <2>5, <3>1, <3>2 DEF RequestSound
    <3>4. r.token <= remote[r.issuer][r.ref].token
      BY <3>1 DEF RequestSound, Known
    <3>5. CASE r.issuer = i /\ r.ref = b
      BY <1>3, <2>1, <3>2, <3>3, <3>4, <3>5 DEF RequestSound, Known
    <3>6. CASE ~(r.issuer = i /\ r.ref = b)
      BY <1>5, <3>2, <3>3, <3>4, <3>6 DEF RequestSound, Known
    <3> QED
      BY <3>5, <3>6
  <2>7. ASSUME NEW d \in Call, d # c, Carries(d)'
        PROVE  /\ Carries(d) /\ call'[d] = call[d] /\ AnswerSound(d)
               /\ call[d].issuer \in Issuer /\ call[d].ref \in Binding
               /\ ~(call[d].issuer = i /\ call[d].ref = b)
    <3>1. call'[d] = call[d] /\ Carries(d)
      BY <2>7 DEF Carries
    <3>2. Asked(d) \in RequestType
      BY <3>1 DEF BindingIInv, BindingTypes, Carries
    <3> QED
      BY <2>3, <3>1, <3>2, AskedIs DEF BindingIInv, RequestType
  <2>8. ASSUME NEW d \in Call, Carries(d)'
        PROVE  AnswerSound(d)'
    <3>1. CASE d = c
      <4>1. call'[d].issuer = i /\ call'[d].ref = b /\ call'[d].token = n + 1
        BY <1>2, <1>3, <1>4, <2>8, <3>1
      <4>2. Addressed(i, b)'
        BY <2>2, <2>5
      <4>3. Live(b)' => binding'[b].token < n + 1
        <5>1. Live(b) => binding[b].token <= n /\ binding[b].token \in Nat
          BY <1>3, <2>2 DEF Tracked, BindingIInv, RowsSound, BindingTypes
        <5> QED
          BY <1>3, <5>1 DEF Live
      <4>4. \A e \in Call : Carries(e)' /\ call'[e].issuer = i /\ call'[e].ref = b => e = d
        BY <2>7, <3>1
      <4> QED
        BY <2>1, <2>6, <4>1, <4>2, <4>3, <4>4 DEF AnswerSound
    <3>2. CASE d # c
      <4>1. /\ Carries(d) /\ call'[d] = call[d] /\ AnswerSound(d)
            /\ call[d].issuer \in Issuer /\ call[d].ref \in Binding
            /\ ~(call[d].issuer = i /\ call[d].ref = b)
        BY <2>7, <2>8, <3>2
      <4>2. Addressed(call[d].issuer, call[d].ref)'
        BY <2>5, <4>1 DEF AnswerSound
      <4>3. remote'[call[d].issuer][call[d].ref] = remote[call[d].issuer][call[d].ref]
        BY <1>5, <4>1
      <4>4. \A e \in Call : Carries(e)' /\ call'[e].issuer = call[d].issuer /\ call'[e].ref = call[d].ref => e = d
        <5> SUFFICES ASSUME NEW e \in Call, Carries(e)', call'[e].issuer = call[d].issuer,
                            call'[e].ref = call[d].ref
                     PROVE  e = d
          OBVIOUS
        <5>1. CASE e = c
          BY <1>2, <4>1, <5>1
        <5>2. CASE e # c
          BY <2>7, <4>1, <5>2 DEF AnswerSound
        <5> QED
          BY <5>1, <5>2
      <4>5. \A r \in UnderWay' : r.issuer = call[d].issuer /\ r.ref = call[d].ref => r.token < call[d].token
        BY <4>1 DEF AnswerSound
      <4>6. Live(call[d].ref)' => binding'[call[d].ref].token < call[d].token
        BY <4>1 DEF AnswerSound, Live
      <4> QED
        BY <4>1, <4>2, <4>3, <4>4, <4>5, <4>6 DEF AnswerSound, Live
    <3> QED
      BY <3>1, <3>2
  <2>9. ASSUME NEW w \in Revoker
        PROVE  RevokerSound(w)'
    <3>1. RevokerSound(w) /\ revoker'[w] = revoker[w]
      BY DEF BindingIInv
    <3>2. revoker[w].pc = "report" /\ revoker[w].answer = "done" =>
            ~(revoker[w].issuer = i /\ revoker[w].ref = b)
      BY <2>1, <3>1 DEF RevokerSound
    <3> QED
      BY <1>5, <3>1, <3>2 DEF RevokerSound, Awaited
  <2>10. EveryGrantIsAccountedFor'
    <3> SUFFICES ASSUME NEW j \in Issuer, NEW a \in Binding, remote'[j][a].state = "alive"
                 PROVE  /\ provider'.issuer = j
                        /\ \/ outbox'[a] \in {"queued", "claimed"}
                           \/ /\ Live(a)'
                              /\ \/ binding'[a].token = remote'[j][a].token
                                 \/ InTransit(j, a, remote[j][a].token)'
                                 \/ <<j, a, remote'[j][a].token>> \in mislaid'
      BY DEF EveryGrantIsAccountedFor
    <3>1. CASE j = i /\ a = b
      <4>1. provider.issuer = i /\ (Live(b) \/ outbox[b] \in {"queued", "claimed"})
        BY <2>2 DEF Tracked, Awaited
      <4>2. CASE c \in Call /\ Carries(c)'
        <5>1. call'[c].issuer = i /\ call'[c].ref = b /\ call'[c].token = n + 1
          BY <1>2, <1>3, <1>4, <4>2
        <5>2. InTransit(i, b, remote[i][b].token)'
          BY <2>1, <4>2, <5>1 DEF InTransit, Carries
        <5> QED
          BY <3>1, <4>1, <5>2 DEF Live
      <4>3. CASE ~(c \in Call /\ Carries(c)')
        <5>1. <<i, b, n + 1>> \in mislaid'
          BY <1>2, <1>3, <1>4, <1>7, <4>3
        <5> QED
          BY <2>1, <3>1, <4>1, <5>1 DEF Live
      <4> QED
        BY <4>2, <4>3
    <3>2. CASE ~(j = i /\ a = b)
      <4>1. remote'[j][a] = remote[j][a]
        BY <1>5, <3>2
      <4>2. /\ provider.issuer = j
            /\ \/ outbox[a] \in {"queued", "claimed"}
               \/ /\ Live(a)
                  /\ \/ binding[a].token = remote[j][a].token
                     \/ InTransit(j, a, remote[j][a].token)
                     \/ <<j, a, remote[j][a].token>> \in mislaid
        BY <4>1 DEF BindingIInv, EveryGrantIsAccountedFor
      <4>3. InTransit(j, a, remote[j][a].token) => InTransit(j, a, remote[j][a].token)'
        <5> SUFFICES ASSUME InTransit(j, a, remote[j][a].token)
                     PROVE  InTransit(j, a, remote[j][a].token)'
          OBVIOUS
        <5>1. PICK d \in Call : /\ Carries(d) /\ call[d].issuer = j /\ call[d].ref = a
                                /\ call[d].token = remote[j][a].token
          BY DEF InTransit, Carries
        <5>2. call'[d] = call[d]
          BY <5>1
        <5> QED
          BY <4>1, <5>1, <5>2 DEF InTransit, Carries
      <4> QED
        BY <4>1, <4>2, <4>3 DEF Live
    <3> QED
      BY <3>1, <3>2
  <2> QED
    BY <2>4, <2>6, <2>8, <2>9, <2>10 DEF BindingIInv
<1> QED
  BY <1>6, <1>7

---------------------------------------------------------------------------
\* Bindings: the calls.

LEMMA ClaimTypes ==
    ASSUME BindingTypes, NEW t \in OpType, NEW k \in OpKey(t), NEW b \in Binding, Claim(t, k, b)
    PROVE  OperationTypes' /\ operation'[t][k].revision \in 0..MaxRevision
<1> DEFINE o == operation[t][k]
           next == IF o.status = "none"
                   THEN [status |-> "leased", ref |-> b, revision |-> provider.revision, fresh |-> TRUE]
                   ELSE [o EXCEPT !.fresh = TRUE]
<1>1. o \in OperationType /\ provider.revision \in 0..MaxRevision
  BY DEF BindingTypes, OperationTypes
<1>2. next \in OperationType
  BY <1>1 DEF OperationType
<1>3. operation' = [operation EXCEPT ![t][k] = next]
  BY DEF Claim
<1> HIDE DEF next
<1>4. OperationTypes' /\ operation'[t][k] = next
  BY <1>2, <1>3 DEF BindingTypes, OperationTypes
<1> QED
  BY <1>2, <1>4 DEF OperationType

LEMMA CloseTypes ==
    ASSUME BindingTypes, NEW t \in OpType, NEW k, NEW status \in {"committed", "failed"}, Close(t, k, status)
    PROVE  OperationTypes'
<1>1. CASE k \in OpKey(t) /\ operation[t][k].status = "leased"
  <2> DEFINE next == [operation[t][k] EXCEPT !.status = status, !.fresh = FALSE]
  <2>1. next \in OperationType
    <3>1. operation[t][k] \in OperationType
      BY <1>1 DEF BindingTypes, OperationTypes
    <3> QED
      BY <3>1 DEF OperationType
  <2>2. operation' = [operation EXCEPT ![t][k] = next]
    BY <1>1 DEF Close, BindingTypes, OperationTypes
  <2> HIDE DEF next
  <2> QED
    BY <1>1, <2>1, <2>2 DEF BindingTypes, OperationTypes
<1>2. CASE k \in OpKey(t) /\ operation[t][k].status # "leased"
  BY <1>2 DEF Close, BindingTypes, OperationTypes
<1>3. CASE k \notin OpKey(t)
  BY <1>3 DEF Close, BindingTypes, OperationTypes
<1> QED
  BY <1>1, <1>2, <1>3

\* What a call is after it has returned or died.
LEMMA CallEnds ==
    ASSUME BindingTypes, NEW c \in Call, Return(c)
    PROVE  /\ call' \in [Call -> CallType] /\ call'[c].pc = "idle" /\ ~Carries(c)'
           /\ \A d \in Call \ {c} : call'[d] = call[d]
           /\ \A d \in Call \ {c} : Asked(d)' = Asked(d) /\ (Carries(d)' <=> Carries(d))
           /\ \A d \in Call : call'[d].pc # "idle" => Asked(d)' \in RequestType
           /\ \A q \in UnderWay' : q \in stray' \/ q \in UnderWay
<1>1. NoCall \in CallType /\ NoCall.pc = "idle"
  BY BindingsAssumption DEF NoCall, CallType, OpType
<1>2. call' = [call EXCEPT ![c] = NoCall] /\ call \in [Call -> CallType]
  BY DEF Return, BindingTypes
<1>3. /\ call' \in [Call -> CallType] /\ call'[c].pc = "idle"
      /\ \A d \in Call \ {c} : call'[d] = call[d]
  BY <1>1, <1>2
<1>4. ~Carries(c)'
  BY <1>3 DEF Carries
<1>5. \A d \in Call \ {c} : Asked(d)' = Asked(d) /\ (Carries(d)' <=> Carries(d))
  BY <1>3 DEF Asked, Carries
<1>6. \A d \in Call : call'[d].pc # "idle" => Asked(d)' \in RequestType
  BY <1>3, <1>5 DEF BindingTypes
<1>7. \A q \in UnderWay' : q \in stray' \/ q \in UnderWay
  BY <1>3, OneCallMoves
<1> QED
  BY <1>3, <1>4, <1>5, <1>6, <1>7

LEMMA BeginRefreshKeeps ==
    ASSUME BindingIInv, NEW c \in Call, NEW k \in RefreshKey, NEW b \in Binding, BeginRefresh(c, k, b)
    PROVE  BindingIInv'
<1> DEFINE new == [NoCall EXCEPT !.pc = "call", !.type = "refresh", !.ref = b, !.key = k,
                                 !.issuer = provider.issuer, !.token = binding[b].token]
<1>1. /\ call[c].pc = "idle" /\ Live(b) /\ Claim("refresh", k, b)
      /\ call' = [call EXCEPT ![c] = new]
      /\ UNCHANGED <<provider, binding, outbox, remote, revoker, stray, mislaid>>
  BY DEF BeginRefresh
<1>2. provider.issuer \in Issuer /\ binding[b].token \in Nat
  BY DEF BindingIInv, BindingTypes
<1>3. new \in CallType
  <2>1. NoCall \in CallType
    BY BindingsAssumption DEF NoCall, CallType, OpType
  <2> QED
    BY <1>2, <2>1 DEF CallType, BindingKey, OpType
<1>4. /\ new.pc = "call" /\ new.type = "refresh" /\ new.ref = b /\ new.key = k
      /\ new.issuer = provider.issuer /\ new.token = binding[b].token
  BY DEF NoCall
<1> HIDE DEF new
<1>5. /\ call' \in [Call -> CallType] /\ call'[c] = new
      /\ \A d \in Call \ {c} : call'[d] = call[d]
  BY <1>1, <1>3 DEF BindingIInv, BindingTypes
<1>6. Asked(c)' = [type |-> "refresh", ref |-> b, key |-> k, issuer |-> provider.issuer,
                   token |-> binding[b].token]
  BY <1>4, <1>5 DEF Asked
<1>7. Asked(c)' \in RequestType
  BY <1>2, <1>6 DEF RequestType, OpType, BindingKey
<1>8. BindingTypes'
  <2>1. OperationTypes'
    BY <1>1, ClaimTypes DEF BindingIInv, OpKey, OpType
  <2>2. \A d \in Call : call'[d].pc # "idle" => Asked(d)' \in RequestType
    BY <1>5, <1>7 DEF BindingIInv, BindingTypes, Asked
  <2> QED
    BY <1>1, <1>5, <2>1, <2>2 DEF BindingIInv, BindingTypes
<1>9. ASSUME NEW q \in UnderWay', q \notin UnderWay
      PROVE  /\ RequestSound(q)
             /\ \A d \in Call : Carries(d) /\ call[d].issuer = q.issuer /\ call[d].ref = q.ref =>
                    q.token < call[d].token
  <2>1. q = Asked(c)'
    BY <1>1, <1>5, <1>9, OneCallMoves DEF UnderWay
  <2>2. q.issuer = provider.issuer /\ q.ref = b /\ q.token = binding[b].token
    BY <1>6, <2>1
  <2>3. RequestSound(q)
    BY <1>1, <2>2 DEF BindingIInv, RowsSound, RequestSound, Known, Addressed, Tracked, Live
  <2>4. ASSUME NEW d \in Call, Carries(d), call[d].issuer = q.issuer, call[d].ref = q.ref
        PROVE  q.token < call[d].token
    BY <1>1, <2>2, <2>4 DEF BindingIInv, AnswerSound
  <2> QED
    BY <2>3, <2>4
<1>10. \A d \in Call : (Carries(d)' => Carries(d)) /\ (Carries(d) => Carries(d)' /\ Asked(d)' = Asked(d))
  BY <1>1, <1>4, <1>5 DEF Carries, Asked
<1>11. \A w \in Revoker : RevokerSound(w)'
  BY <1>1 DEF BindingIInv, RevokerSound, Awaited
<1>12. \A d \in Call : Carries(d)' => Carries(d) /\ Asked(d)' = Asked(d)
  BY <1>10
<1> QED
  BY <1>1, <1>8, <1>9, <1>10, <1>11, <1>12, CallsMove

\* Calls that die, time out or are refused; and answers that nobody stores.
LEMMA CallsEndKeep ==
    ASSUME BindingIInv, NEW c \in Call, Return(c),
           UNCHANGED <<provider, binding, outbox, remote, revoker>>, OperationTypes',
           stray' \subseteq stray \cup {Asked(c) : n \in {call[c].pc} \cap {"call"}},
           mislaid \subseteq mislaid',
           Carries(c) => <<call[c].issuer, call[c].ref, call[c].token>> \in mislaid'
    PROVE  BindingIInv'
<1>1. /\ call' \in [Call -> CallType] /\ call'[c].pc = "idle" /\ ~Carries(c)'
      /\ \A d \in Call \ {c} : call'[d] = call[d]
      /\ \A d \in Call \ {c} : Asked(d)' = Asked(d) /\ (Carries(d)' <=> Carries(d))
      /\ \A d \in Call : call'[d].pc # "idle" => Asked(d)' \in RequestType
      /\ \A q \in UnderWay' : q \in stray' \/ q \in UnderWay
  BY CallEnds DEF BindingIInv
<1>2. stray' \subseteq UnderWay
  BY DEF UnderWay
<1>3. BindingTypes'
  <2>1. stray' \subseteq RequestType
    BY <1>2, UnderWayTypes DEF BindingIInv
  <2> QED
    BY <1>1, <2>1 DEF BindingIInv, BindingTypes
<1>4. \A q \in UnderWay' : q \in UnderWay
  BY <1>1, <1>2
<1>5. \A d \in Call : Carries(d)' => Carries(d) /\ Asked(d)' = Asked(d)
  BY <1>1
<1>6. \A d \in Call : Carries(d) =>
         \/ Carries(d)' /\ Asked(d)' = Asked(d)
         \/ <<call[d].issuer, call[d].ref, call[d].token>> \in mislaid'
  BY <1>1
<1>7. \A w \in Revoker : RevokerSound(w)'
  BY DEF BindingIInv, RevokerSound, Awaited
<1> QED
  BY <1>3, <1>4, <1>5, <1>6, <1>7, CallsMove

LEMMA TimesOutKeeps ==
    ASSUME BindingIInv, NEW c \in Call, TimesOut(c)
    PROVE  BindingIInv'
<1>1. Return(c) /\ ~Carries(c)
  BY DEF TimesOut, Return, Carries
<1>2. OperationTypes'
  BY DEF TimesOut, BindingIInv, BindingTypes, OperationTypes
<1> QED
  BY <1>1, <1>2, CallsEndKeep DEF TimesOut

LEMMA DroppedKeeps ==
    ASSUME BindingIInv, NEW c \in Call, Dropped(c)
    PROVE  BindingIInv'
<1>1. OperationTypes'
  BY DEF Dropped, BindingIInv, BindingTypes, OperationTypes
<1> QED
  BY <1>1, CallsEndKeep DEF Dropped

LEMMA HandleErrorKeeps ==
    ASSUME BindingIInv, NEW c \in Call, HandleError(c)
    PROVE  BindingIInv'
<1>1. ~Carries(c)
  BY DEF HandleError, Carries
<1>2. call[c].type \in OpType
  BY DEF BindingIInv, BindingTypes, CallType
<1>3. OperationTypes'
  <2>1. CASE call[c].answer = "refused"
    BY <1>2, <2>1, CloseTypes DEF HandleError, BindingIInv
  <2>2. CASE call[c].answer # "refused"
    BY <2>2 DEF HandleError, BindingIInv, BindingTypes, OperationTypes
  <2> QED
    BY <2>1, <2>2
<1> QED
  BY <1>1, <1>3, CallsEndKeep DEF HandleError

LEMMA CallDiesKeeps ==
    ASSUME BindingIInv, NEW c \in Call, CallDies(c)
    PROVE  BindingIInv'
<1>1. OperationTypes'
  BY DEF CallDies, BindingIInv, BindingTypes, OperationTypes
<1>2. Carries(c) => <<call[c].issuer, call[c].ref, call[c].token>> \in mislaid'
  BY DEF CallDies, Carries
<1> QED
  BY <1>1, <1>2, CallsEndKeep DEF CallDies

LEMMA ProviderRefusesKeeps ==
    ASSUME BindingIInv, NEW c \in Call, ProviderRefuses(c)
    PROVE  BindingIInv'
<1>1. PICK a \in {"busy", "refused"} : call' = [call EXCEPT ![c].pc = "answered", ![c].answer = a]
  BY DEF ProviderRefuses
<1>2. /\ UNCHANGED <<provider, binding, operation, outbox, remote, revoker, stray, mislaid>>
      /\ call[c].pc = "call"
  BY DEF ProviderRefuses
<1>3. /\ call' \in [Call -> CallType] /\ call'[c].pc = "answered" /\ call'[c].answer = a
      /\ Asked(c)' = Asked(c) /\ \A d \in Call \ {c} : call'[d] = call[d]
  <2> DEFINE next == [call[c] EXCEPT !.pc = "answered", !.answer = a]
  <2>1. call[c] \in CallType /\ call \in [Call -> CallType]
    BY DEF BindingIInv, BindingTypes
  <2>2. /\ next \in CallType /\ next.pc = "answered" /\ next.answer = a
        /\ next.type = call[c].type /\ next.ref = call[c].ref /\ next.key = call[c].key
        /\ next.issuer = call[c].issuer /\ next.token = call[c].token
    BY <2>1 DEF CallType
  <2>3. call' = [call EXCEPT ![c] = next]
    BY <1>1
  <2> HIDE DEF next
  <2>4. call' \in [Call -> CallType] /\ call'[c] = next /\ \A d \in Call \ {c} : call'[d] = call[d]
    BY <2>1, <2>2, <2>3
  <2> QED
    BY <2>2, <2>4 DEF Asked
<1>4. BindingTypes'
  <2>1. \A d \in Call : call'[d].pc # "idle" => Asked(d)' \in RequestType
    BY <1>2, <1>3 DEF BindingIInv, BindingTypes, Asked
  <2> QED
    BY <1>2, <1>3, <2>1 DEF BindingIInv, BindingTypes, OperationTypes
<1>5. \A q \in UnderWay' : q \in UnderWay
  BY <1>2, <1>3, OneCallMoves DEF UnderWay
<1>6. \A d \in Call : Carries(d)' => Carries(d) /\ Asked(d)' = Asked(d)
  BY <1>1, <1>3 DEF Carries, Asked
<1>7. \A d \in Call : Carries(d) => Carries(d)' /\ Asked(d)' = Asked(d)
  BY <1>2, <1>3 DEF Carries, Asked
<1>8. \A w \in Revoker : RevokerSound(w)'
  BY <1>2 DEF BindingIInv, RevokerSound, Awaited
<1> QED
  BY <1>2, <1>4, <1>5, <1>6, <1>7, <1>8, CallsMove

\* Serving keeps the types, and gives a definite answer.
LEMMA ServeTypes ==
    ASSUME BindingTypes, NEW q \in RequestType, Serve(q)
    PROVE  /\ remote' \in [Issuer -> [Binding -> GrantType]]
           /\ Answer(q) \in {"bundle", "committed", "refused"}
           /\ Known(q).token + 1 \in Nat
<1>1. /\ q.issuer \in Issuer /\ q.ref \in Binding /\ q.type \in OpType /\ q.key \in BindingKey
      /\ q.token \in Nat
  BY DEF RequestType
<1>2. Known(q) \in GrantType
  BY <1>1 DEF Known, BindingTypes
<1> DEFINE next == [state |-> "alive", token |-> Known(q).token + 1,
                    served |-> Known(q).served \cup {<<q.type, q.key, q.token>>}]
<1>3. next \in GrantType
  BY <1>1, <1>2 DEF GrantType
<1>4. remote' = IF Answer(q) # "bundle" THEN remote ELSE [remote EXCEPT ![q.issuer][q.ref] = next]
  BY DEF Serve, Known
<1>5. remote' \in [Issuer -> [Binding -> GrantType]]
  <2> HIDE DEF next
  <2> QED
    BY <1>1, <1>3, <1>4 DEF BindingTypes
<1>6. Answer(q) \in {"bundle", "committed", "refused"}
  BY DEF Answer
<1> QED
  BY <1>2, <1>5, <1>6 DEF GrantType

LEMMA ServedKeeps ==
    ASSUME BindingIInv, NEW c \in Call, Served(c)
    PROVE  BindingIInv'
<1>1. /\ call[c].pc = "call" /\ Serve(Asked(c))
      /\ UNCHANGED <<provider, binding, operation, outbox, revoker, stray, mislaid>>
  BY DEF Served
<1>2. PICK q \in RequestType : q = Asked(c)
  BY <1>1 DEF BindingIInv, BindingTypes
<1>3. q \in UnderWay /\ Serve(q)
  BY <1>1, <1>2 DEF UnderWay
<1>4. PICK a \in {"bundle", "committed", "refused"} : a = Answer(q)
  BY <1>3, ServeTypes DEF BindingIInv
<1>5. PICK n \in Nat : n = Known(q).token + 1
  BY <1>3, ServeTypes DEF BindingIInv
<1>6. call' = [call EXCEPT ![c].pc = "answered", ![c].answer = a, ![c].token = n]
  BY <1>2, <1>4, <1>5 DEF Served
<1>7. /\ call' \in [Call -> CallType] /\ call'[c].pc = "answered" /\ call'[c].answer = a
      /\ call'[c].token = n /\ call'[c].issuer = call[c].issuer /\ call'[c].ref = call[c].ref
      /\ call'[c].type = call[c].type /\ call'[c].key = call[c].key
      /\ \A d \in Call \ {c} : call'[d] = call[d]
  <2> DEFINE next == [call[c] EXCEPT !.pc = "answered", !.answer = a, !.token = n]
  <2>1. call[c] \in CallType /\ call \in [Call -> CallType]
    BY DEF BindingIInv, BindingTypes
  <2>2. /\ next \in CallType /\ next.pc = "answered" /\ next.answer = a /\ next.token = n
        /\ next.type = call[c].type /\ next.ref = call[c].ref /\ next.key = call[c].key
        /\ next.issuer = call[c].issuer
    BY <2>1 DEF CallType
  <2>3. call' = [call EXCEPT ![c] = next]
    BY <1>6
  <2> HIDE DEF next
  <2>4. call' \in [Call -> CallType] /\ call'[c] = next /\ \A d \in Call \ {c} : call'[d] = call[d]
    BY <2>1, <2>2, <2>3
  <2> QED
    BY <2>2, <2>4
<1>8. BindingTypes'
  <2>1. ASSUME NEW d \in Call, call'[d].pc # "idle"
        PROVE  Asked(d)' \in RequestType
    <3>1. CASE d = c
      <4>1. Asked(c)' = [type |-> call[c].type, ref |-> call[c].ref, key |-> call[c].key,
                         issuer |-> call[c].issuer, token |-> n]
        BY <1>7 DEF Asked
      <4>2. Asked(c) \in RequestType
        BY <1>2
      <4> QED
        BY <3>1, <4>1, <4>2, AskedIs DEF RequestType
    <3>2. CASE d # c
      BY <1>7, <2>1, <3>2 DEF BindingIInv, BindingTypes, Asked
    <3> QED
      BY <3>1, <3>2
  <2> QED
    BY <1>1, <1>3, <1>7, <2>1, ServeTypes DEF BindingIInv, BindingTypes, OperationTypes
<1>9. \A r \in UnderWay' : r \in UnderWay
  BY <1>1, <1>7, OneCallMoves DEF UnderWay
<1>10. ~Carries(c)
  BY <1>1 DEF Carries
<1>11. Carries(c)' => a = "bundle"
  BY <1>7 DEF Carries
<1>12. a = "bundle" => Carries(c)'
  BY <1>7 DEF Carries
<1>13. call'[c].issuer = q.issuer /\ call'[c].ref = q.ref
  BY <1>2, <1>7, AskedIs
<1> QED
  BY <1>1, <1>3, <1>4, <1>5, <1>7, <1>8, <1>9, <1>10, <1>11, <1>12, <1>13, GrantMoves

LEMMA AnswerLostKeeps ==
    ASSUME BindingIInv, NEW c \in Call, AnswerLost(c)
    PROVE  BindingIInv'
<1>1. /\ call[c].pc = "call" /\ Serve(Asked(c)) /\ Return(c)
      /\ mislaid' = mislaid \cup Issued(Asked(c))
      /\ UNCHANGED <<provider, binding, operation, outbox, revoker, stray>>
  BY DEF AnswerLost, Return
<1>2. PICK q \in RequestType : q = Asked(c)
  BY <1>1 DEF BindingIInv, BindingTypes
<1>3. q \in UnderWay /\ Serve(q)
  BY <1>1, <1>2 DEF UnderWay
<1>4. /\ call' \in [Call -> CallType] /\ ~Carries(c)'
      /\ \A d \in Call \ {c} : call'[d] = call[d]
      /\ \A d \in Call : call'[d].pc # "idle" => Asked(d)' \in RequestType
      /\ \A r \in UnderWay' : r \in stray' \/ r \in UnderWay
  BY <1>1, CallEnds DEF BindingIInv
<1>5. BindingTypes'
  BY <1>1, <1>3, <1>4, ServeTypes DEF BindingIInv, BindingTypes, OperationTypes
<1>6. \A r \in UnderWay' : r \in UnderWay
  BY <1>1, <1>4 DEF UnderWay
<1>7. ~Carries(c)
  BY <1>1 DEF Carries
<1>8. Answer(q) = "bundle" => <<q.issuer, q.ref, Known(q).token + 1>> \in mislaid'
  BY <1>1, <1>2 DEF Issued
<1> QED
  BY <1>1, <1>3, <1>4, <1>5, <1>6, <1>7, <1>8, GrantMoves

LEMMA StrayArrivesKeeps ==
    ASSUME BindingIInv, NEW q \in stray, StrayArrives(q)
    PROVE  BindingIInv'
<1>1. /\ Serve(q) /\ mislaid' = mislaid \cup Issued(q) /\ stray' = stray \ {q}
      /\ UNCHANGED <<provider, binding, operation, outbox, call, revoker>>
  BY DEF StrayArrives
<1>2. q \in RequestType /\ q \in UnderWay
  BY DEF BindingIInv, BindingTypes, UnderWay
<1>3. \A c \in Call : Asked(c)' = Asked(c)
  BY <1>1 DEF Asked
<1>4. BindingTypes'
  BY <1>1, <1>2, <1>3, ServeTypes DEF BindingIInv, BindingTypes, OperationTypes
<1>5. \A r \in UnderWay' : r \in UnderWay
  BY <1>1, <1>3 DEF UnderWay
<1>6. Answer(q) = "bundle" => <<q.issuer, q.ref, Known(q).token + 1>> \in mislaid'
  BY <1>1 DEF Issued
<1>7. PICK c : c \notin Call
  BY NoSetContainsEverything
<1> QED
  BY <1>1, <1>2, <1>4, <1>5, <1>6, <1>7, GrantMoves

\* A lease that runs out changes nothing that matters here.
LEMMA LeaseExpiresKeeps ==
    ASSUME BindingIInv, NEW t \in OpType, NEW k \in OpKey(t), LeaseExpires(t, k)
    PROVE  BindingIInv'
<1> DEFINE next == [operation[t][k] EXCEPT !.fresh = FALSE]
<1>1. operation[t][k] \in OperationType
  BY DEF BindingIInv, BindingTypes, OperationTypes
<1>2. next \in OperationType
  BY <1>1 DEF OperationType
<1>3. /\ operation' = [operation EXCEPT ![t][k] = next]
      /\ UNCHANGED <<provider, binding, outbox, remote, call, revoker, stray, mislaid>>
  BY DEF LeaseExpires
<1> HIDE DEF next
<1>4. OperationTypes'
  BY <1>2, <1>3 DEF BindingIInv, BindingTypes, OperationTypes
<1>5. \A c \in Call : Asked(c)' = Asked(c) /\ (Carries(c)' <=> Carries(c))
  BY <1>3 DEF Asked, Carries
<1>6. BindingTypes'
  BY <1>3, <1>4, <1>5 DEF BindingIInv, BindingTypes
<1>7. UnderWay' = UnderWay
  BY <1>3, <1>5 DEF UnderWay
<1>8. \A w \in Revoker : RevokerSound(w)'
  BY <1>3 DEF BindingIInv, RevokerSound, Awaited
<1> QED
  BY <1>3, <1>5, <1>6, <1>7, <1>8, CallsMove

\* What an answer carries is stored: the token here is the provider's newest.
LEMMA CommitStores ==
    ASSUME BindingIInv, NEW c \in Call, Carries(c), Live(call[c].ref), Return(c),
           UNCHANGED <<provider, outbox, remote, revoker, stray, mislaid>>, OperationTypes',
           binding' \in [Binding -> [state : {"none", "live", "gone"}, linked : BOOLEAN, token : Nat]],
           \A b \in Binding : binding'[b].state = binding[b].state,
           \A b \in Binding \ {call[c].ref} : binding'[b] = binding[b],
           call[c].ref \in Binding => binding'[call[c].ref].token = call[c].token
    PROVE  BindingIInv'
<1>1. AnswerSound(c) /\ Asked(c) \in RequestType
  BY DEF BindingIInv, BindingTypes, Carries
<1>2. PICK i \in Issuer, b \in Binding, n \in Nat :
         call[c].issuer = i /\ call[c].ref = b /\ call[c].token = n
  BY <1>1, AskedIs DEF RequestType
<1>3. /\ Live(b) /\ provider.issuer = i /\ binding[b].state = "live"
      /\ remote[i][b].token = n /\ binding'[b].token = n
  BY <1>1, <1>2 DEF AnswerSound, Addressed, Live
<1>4. /\ call' \in [Call -> CallType] /\ ~Carries(c)'
      /\ \A d \in Call \ {c} : call'[d] = call[d]
      /\ \A d \in Call \ {c} : Asked(d)' = Asked(d) /\ (Carries(d)' <=> Carries(d))
      /\ \A d \in Call : call'[d].pc # "idle" => Asked(d)' \in RequestType
      /\ \A q \in UnderWay' : q \in stray' \/ q \in UnderWay
  BY CallEnds DEF BindingIInv
<1>5. BindingTypes'
  BY <1>4 DEF BindingIInv, BindingTypes
<1>6. \A a \in Binding : Live(a)' <=> Live(a)
  BY DEF Live
<1>7. RowsSound'
  <2>1. ASSUME NEW a \in Binding
        PROVE  /\ binding'[a].state = "none" => binding'[a].token = 0
               /\ Live(a)' => binding'[a].token <= remote'[provider'.issuer][a].token
    <3>1. CASE a = b
      BY <1>3, <3>1
    <3>2. CASE a # b
      BY <1>2, <1>6, <3>2 DEF BindingIInv, RowsSound
    <3> QED
      BY <3>1, <3>2
  <2> QED
    BY <1>6, <2>1 DEF BindingIInv, RowsSound
<1>8. \A j \in Issuer, a \in Binding : Addressed(j, a) => Addressed(j, a)'
  BY <1>6 DEF Addressed, Tracked, Awaited
<1>9. \A q \in UnderWay' : q \in UnderWay
  BY <1>4 DEF UnderWay
<1>10. ASSUME NEW q \in UnderWay'
       PROVE  RequestSound(q)'
  <2>1. q \in RequestType /\ RequestSound(q)
    BY <1>9, UnderWayTypes DEF BindingIInv
  <2> QED
    BY <1>8, <2>1 DEF RequestSound, Known, RequestType
<1>11. ASSUME NEW d \in Call, Carries(d)'
       PROVE  AnswerSound(d)'
  <2>1. /\ d # c /\ Carries(d) /\ call'[d] = call[d] /\ AnswerSound(d)
        /\ call[d].issuer \in Issuer /\ call[d].ref \in Binding
    <3>1. d # c /\ Carries(d) /\ call'[d] = call[d]
      BY <1>4, <1>11
    <3>2. Asked(d) \in RequestType
      BY <3>1 DEF BindingIInv, BindingTypes, Carries
    <3> QED
      BY <3>1, <3>2, AskedIs DEF BindingIInv, RequestType
  <2>2. call[d].ref # b
    BY <1>1, <1>2, <1>3, <2>1 DEF AnswerSound, Addressed
  <2>3. binding'[call[d].ref] = binding[call[d].ref]
    BY <1>2, <2>1, <2>2
  <2>4. Addressed(call[d].issuer, call[d].ref)'
    BY <1>8, <2>1 DEF AnswerSound
  <2>5. \A e \in Call : Carries(e)' /\ call'[e].issuer = call[d].issuer /\ call'[e].ref = call[d].ref => e = d
    BY <1>4, <2>1 DEF AnswerSound
  <2>6. \A q \in UnderWay' : q.issuer = call[d].issuer /\ q.ref = call[d].ref => q.token < call[d].token
    BY <1>9, <2>1 DEF AnswerSound
  <2>7. Live(call[d].ref)' => binding'[call[d].ref].token < call[d].token
    BY <1>6, <2>1, <2>3 DEF AnswerSound
  <2> QED
    BY <2>1, <2>4, <2>5, <2>6, <2>7 DEF AnswerSound
<1>12. \A w \in Revoker : RevokerSound(w)'
  BY DEF BindingIInv, RevokerSound, Awaited
<1>13. EveryGrantIsAccountedFor'
  <2> SUFFICES ASSUME NEW j \in Issuer, NEW a \in Binding, remote'[j][a].state = "alive"
               PROVE  /\ provider'.issuer = j
                      /\ \/ outbox'[a] \in {"queued", "claimed"}
                         \/ /\ Live(a)'
                            /\ \/ binding'[a].token = remote'[j][a].token
                               \/ InTransit(j, a, remote[j][a].token)'
                               \/ <<j, a, remote'[j][a].token>> \in mislaid'
    BY DEF EveryGrantIsAccountedFor
  <2>1. /\ provider.issuer = j
        /\ \/ outbox[a] \in {"queued", "claimed"}
           \/ /\ Live(a)
              /\ \/ binding[a].token = remote[j][a].token
                 \/ InTransit(j, a, remote[j][a].token)
                 \/ <<j, a, remote[j][a].token>> \in mislaid
    BY DEF BindingIInv, EveryGrantIsAccountedFor
  <2>2. CASE a = b
    BY <1>3, <1>6, <2>1, <2>2
  <2>3. CASE a # b
    <3>1. InTransit(j, a, remote[j][a].token) => InTransit(j, a, remote[j][a].token)'
      <4> SUFFICES ASSUME InTransit(j, a, remote[j][a].token)
                   PROVE  InTransit(j, a, remote[j][a].token)'
        OBVIOUS
      <4>1. PICK d \in Call : /\ Carries(d) /\ call[d].issuer = j /\ call[d].ref = a
                              /\ call[d].token = remote[j][a].token
        BY DEF InTransit, Carries
      <4>2. call'[d] = call[d]
        BY <1>2, <1>4, <2>3, <4>1
      <4> QED
        BY <4>1, <4>2 DEF InTransit, Carries
    <3> QED
      BY <1>2, <1>6, <2>1, <2>3, <3>1
  <2> QED
    BY <2>2, <2>3
<1> QED
  BY <1>5, <1>7, <1>10, <1>11, <1>12, <1>13 DEF BindingIInv

LEMMA CommitCreatedKeeps ==
    ASSUME BindingIInv, NEW c \in Call, CommitCreated(c)
    PROVE  BindingIInv'
<1>1. /\ Carries(c) /\ Live(call[c].ref) /\ Return(c) /\ Close("create", call[c].key, "committed")
      /\ binding' = [binding EXCEPT ![call[c].ref].linked = TRUE, ![call[c].ref].token = call[c].token]
      /\ UNCHANGED <<provider, outbox, remote, revoker, stray, mislaid>>
  BY DEF CommitCreated, Bundle, Storable, Carries
<1>2. OperationTypes'
  BY <1>1, CloseTypes DEF BindingIInv, OpType
<1>3. PICK n \in Nat : n = call[c].token
  BY DEF BindingIInv, BindingTypes, CallType
<1>4. binding \in [Binding -> [state : {"none", "live", "gone"}, linked : BOOLEAN, token : Nat]]
  BY DEF BindingIInv, BindingTypes
<1>5. /\ binding' \in [Binding -> [state : {"none", "live", "gone"}, linked : BOOLEAN, token : Nat]]
      /\ \A b \in Binding : binding'[b].state = binding[b].state
      /\ \A b \in Binding \ {call[c].ref} : binding'[b] = binding[b]
      /\ call[c].ref \in Binding => binding'[call[c].ref].token = n
  BY <1>1, <1>3, <1>4
<1> QED
  BY <1>1, <1>2, <1>3, <1>5, CommitStores

LEMMA CommitRefreshedKeeps ==
    ASSUME BindingIInv, NEW c \in Call, CommitRefreshed(c)
    PROVE  BindingIInv'
<1>1. /\ Carries(c) /\ Live(call[c].ref) /\ Return(c) /\ Close("refresh", call[c].key, "committed")
      /\ binding' = [binding EXCEPT ![call[c].ref].token = call[c].token]
      /\ UNCHANGED <<provider, outbox, remote, revoker, stray, mislaid>>
  BY DEF CommitRefreshed, Bundle, Storable, Carries
<1>2. OperationTypes'
  BY <1>1, CloseTypes DEF BindingIInv, OpType
<1>3. PICK n \in Nat : n = call[c].token
  BY DEF BindingIInv, BindingTypes, CallType
<1>4. binding \in [Binding -> [state : {"none", "live", "gone"}, linked : BOOLEAN, token : Nat]]
  BY DEF BindingIInv, BindingTypes
<1>5. /\ binding' \in [Binding -> [state : {"none", "live", "gone"}, linked : BOOLEAN, token : Nat]]
      /\ \A b \in Binding : binding'[b].state = binding[b].state
      /\ \A b \in Binding \ {call[c].ref} : binding'[b] = binding[b]
      /\ call[c].ref \in Binding => binding'[call[c].ref].token = n
  BY <1>1, <1>3, <1>4
<1> QED
  BY <1>1, <1>2, <1>3, <1>5, CommitStores

\* The row a creation uses is live, or the first that was never inserted.
LEMMA PendingRow ==
    ASSUME BindingIInv, NEW b \in Binding, Pending(b)
    PROVE  \/ Live(b)
           \/ /\ \A a \in Binding : ~Live(a)
              /\ \A a \in Binding : binding[a].state # "none" <=> a < b
<1>1. CASE \E a \in Binding : Live(a)
  BY <1>1 DEF Pending
<1>2. CASE \A a \in Binding : ~Live(a)
  <2>1. PICK n \in 0..MaxBinding : \A a \in Binding : binding[a].state # "none" <=> a <= n
    BY DEF BindingIInv, RowsSound
  <2>2. {a \in Binding : binding[a].state # "none"} = 1..n
    BY <2>1, BindingsAssumption DEF Binding
  <2>3. Cardinality(1..n) = n
    BY FS_Interval
  <2>4. b = n + 1
    BY <1>2, <2>2, <2>3 DEF Pending
  <2>5. \A a \in Binding : a <= n <=> a < b
    BY <2>4 DEF Binding
  <2> QED
    BY <1>2, <2>1, <2>5
<1> QED
  BY <1>1, <1>2

\* A creation asks with no token; a row that is new nobody has asked about before.
LEMMA BeginCreateKeeps ==
    ASSUME BindingIInv, NEW c \in Call, NEW k \in CreateKey, NEW b \in Binding, BeginCreate(c, k, b)
    PROVE  BindingIInv'
<1>1. /\ call[c].pc = "idle" /\ Pending(b) /\ Claim("create", k, b)
      /\ binding' = [binding EXCEPT ![b].state = "live"]
      /\ UNCHANGED <<provider, outbox, remote, revoker, stray, mislaid>>
  BY DEF BeginCreate
<1>2. OperationTypes' /\ operation'["create"][k].revision \in 0..MaxRevision
  BY <1>1, ClaimTypes DEF BindingIInv, OpKey, OpType
<1>3. PICK rev \in 0..MaxRevision : rev = operation'["create"][k].revision
  BY <1>2
<1> DEFINE new == [NoCall EXCEPT !.pc = "call", !.type = "create", !.ref = b, !.key = k,
                                 !.issuer = provider.issuer, !.revision = rev]
<1>4. call' = [call EXCEPT ![c] = new]
  BY <1>3 DEF BeginCreate
<1>5. provider.issuer \in Issuer
  BY DEF BindingIInv, BindingTypes
<1>6. new \in CallType
  <2>1. NoCall \in CallType
    BY BindingsAssumption DEF NoCall, CallType, OpType
  <2> QED
    BY <1>5, <2>1 DEF CallType, BindingKey, OpType
<1>7. /\ new.pc = "call" /\ new.type = "create" /\ new.ref = b /\ new.key = k
      /\ new.issuer = provider.issuer /\ new.token = 0
  BY DEF NoCall
<1> HIDE DEF new
<1>8. /\ call' \in [Call -> CallType] /\ call'[c] = new
      /\ \A d \in Call \ {c} : call'[d] = call[d]
  BY <1>4, <1>6 DEF BindingIInv, BindingTypes
<1>9. Asked(c)' = [type |-> "create", ref |-> b, key |-> k, issuer |-> provider.issuer, token |-> 0]
  BY <1>7, <1>8 DEF Asked
<1>10. Asked(c)' \in RequestType
  BY <1>5, <1>9 DEF RequestType, OpType, BindingKey
<1>11. binding \in [Binding -> [state : {"none", "live", "gone"}, linked : BOOLEAN, token : Nat]]
  BY DEF BindingIInv, BindingTypes
<1>12. /\ binding' \in [Binding -> [state : {"none", "live", "gone"}, linked : BOOLEAN, token : Nat]]
       /\ binding'[b].state = "live" /\ binding'[b].token = binding[b].token
       /\ \A a \in Binding \ {b} : binding'[a] = binding[a]
  BY <1>1, <1>11
<1>13. BindingTypes'
  <2>1. \A d \in Call : call'[d].pc # "idle" => Asked(d)' \in RequestType
    BY <1>8, <1>10 DEF BindingIInv, BindingTypes, Asked
  <2> QED
    BY <1>1, <1>2, <1>8, <1>12, <2>1 DEF BindingIInv, BindingTypes
<1>14. ASSUME NEW q \in UnderWay', q \notin UnderWay
       PROVE  q.issuer = provider.issuer /\ q.ref = b /\ q.token = 0
  <2>1. q = Asked(c)'
    BY <1>1, <1>8, <1>14, OneCallMoves DEF UnderWay
  <2> QED
    BY <1>9, <2>1
<1>15. \A d \in Call : (Carries(d)' => Carries(d)) /\ (Carries(d) => Carries(d)' /\ Asked(d)' = Asked(d) /\ call'[d] = call[d])
  BY <1>1, <1>7, <1>8 DEF Carries, Asked
<1>16. \A w \in Revoker : RevokerSound(w)'
  BY <1>1 DEF BindingIInv, RevokerSound, Awaited
<1>17. CASE Live(b)
  <2>1. binding' = binding
    BY <1>1, <1>11, <1>17 DEF Live
  <2>2. binding[b].token \in Nat /\ binding[b].token <= remote[provider.issuer][b].token
    BY <1>11, <1>17 DEF BindingIInv, RowsSound
  <2>3. remote[provider.issuer][b].token \in Nat
    BY <1>5 DEF BindingIInv, BindingTypes, GrantType
  <2>4. ASSUME NEW q \in UnderWay', q \notin UnderWay
        PROVE  /\ RequestSound(q)
               /\ \A d \in Call : Carries(d) /\ call[d].issuer = q.issuer /\ call[d].ref = q.ref =>
                      q.token < call[d].token
    <3>1. q.issuer = provider.issuer /\ q.ref = b /\ q.token = 0
      BY <1>14, <2>4
    <3>2. RequestSound(q)
      BY <1>17, <2>3, <3>1 DEF RequestSound, Known, Addressed, Tracked, Live
    <3>3. ASSUME NEW d \in Call, Carries(d), call[d].issuer = q.issuer, call[d].ref = q.ref
          PROVE  q.token < call[d].token
      <4>1. binding[b].token < call[d].token
        BY <1>17, <3>1, <3>3 DEF BindingIInv, AnswerSound
      <4>2. call[d].token \in Nat
        BY DEF BindingIInv, BindingTypes, CallType
      <4> QED
        BY <2>2, <3>1, <4>1, <4>2
    <3> QED
      BY <3>2, <3>3
  <2>5. \A d \in Call : Carries(d)' => Carries(d) /\ Asked(d)' = Asked(d)
    BY <1>15
  <2> QED
    BY <1>1, <1>13, <1>15, <1>16, <2>1, <2>4, <2>5, CallsMove
<1>18. CASE ~Live(b)
  <2>1. /\ \A a \in Binding : ~Live(a)
        /\ \A a \in Binding : binding[a].state # "none" <=> a < b
    BY <1>1, <1>18, PendingRow
  <2>2. binding[b].state = "none" /\ outbox[b] = "none" /\ b \in Nat /\ b >= 1 /\ b <= MaxBinding
    BY <2>1, BindingsAssumption DEF Binding, BindingIInv, RowsSound
  <2>3. RowsSound'
    <3>1. \A a \in Binding : binding'[a].state # "none" <=> a <= b
      BY <1>12, <2>1 DEF Binding
    <3>2. \A a \in Binding : Live(a)' <=> a = b
      BY <1>12, <2>1 DEF Live
    <3>3. binding'[b].token = 0
      BY <1>12, <2>2 DEF BindingIInv, RowsSound
    <3>4. remote[provider.issuer][b].token \in Nat
      BY <1>5 DEF BindingIInv, BindingTypes, GrantType
    <3>5. b \in 0..MaxBinding
      BY <2>2, BindingsAssumption
    <3>6. ASSUME NEW a \in Binding
          PROVE  /\ binding'[a].state = "none" => binding'[a].token = 0
                 /\ outbox'[a] # "none" => binding'[a].state = "gone"
                 /\ Live(a)' => binding'[a].token <= remote'[provider'.issuer][a].token
      <4>1. CASE a = b
        BY <1>1, <1>12, <2>2, <3>3, <3>4, <4>1
      <4>2. CASE a # b
        BY <1>1, <1>12, <3>2, <4>2 DEF BindingIInv, RowsSound
      <4> QED
        BY <4>1, <4>2
    <3> QED
      BY <3>1, <3>2, <3>5, <3>6 DEF RowsSound
  <2>4. \A j \in Issuer, a \in Binding : Addressed(j, a) => Addressed(j, a)' /\ a # b
    BY <1>1, <1>12, <2>2 DEF Addressed, Tracked, Live, Awaited
  <2>5. ASSUME NEW q \in UnderWay'
        PROVE  RequestSound(q)'
    <3>1. CASE q \in UnderWay
      <4>1. q \in RequestType /\ RequestSound(q)
        BY <3>1, UnderWayTypes DEF BindingIInv
      <4> QED
        BY <1>1, <2>4, <4>1 DEF RequestSound, Known, RequestType
    <3>2. CASE q \notin UnderWay
      <4>1. q.issuer = provider.issuer /\ q.ref = b /\ q.token = 0
        BY <1>14, <3>2
      <4>2. remote[provider.issuer][b].token \in Nat
        BY <1>5 DEF BindingIInv, BindingTypes, GrantType
      <4> QED
        BY <1>1, <1>12, <4>1, <4>2 DEF RequestSound, Known, Addressed, Tracked, Live
    <3> QED
      BY <3>1, <3>2
  <2>6. ASSUME NEW d \in Call, Carries(d)'
        PROVE  AnswerSound(d)'
    <3>1. Carries(d) /\ call'[d] = call[d] /\ AnswerSound(d)
      BY <1>15, <2>6 DEF BindingIInv
    <3>2. call[d].issuer \in Issuer /\ call[d].ref \in Binding
      <4>1. Asked(d) \in RequestType
        BY <3>1 DEF BindingIInv, BindingTypes, Carries
      <4> QED
        BY <4>1, AskedIs DEF RequestType
    <3>3. Addressed(call[d].issuer, call[d].ref)' /\ call[d].ref # b
      BY <2>4, <3>1, <3>2 DEF AnswerSound
    <3>4. binding'[call[d].ref] = binding[call[d].ref]
      BY <1>12, <3>2, <3>3
    <3>5. \A q \in UnderWay' : q.issuer = call[d].issuer /\ q.ref = call[d].ref => q.token < call[d].token
      BY <1>14, <3>1, <3>3 DEF AnswerSound
    <3>6. \A e \in Call : Carries(e)' /\ call'[e].issuer = call[d].issuer /\ call'[e].ref = call[d].ref => e = d
      BY <1>15, <3>1 DEF AnswerSound
    <3>7. Live(call[d].ref)' => binding'[call[d].ref].token < call[d].token
      BY <3>1, <3>4 DEF AnswerSound, Live
    <3> QED
      BY <1>1, <3>1, <3>3, <3>5, <3>6, <3>7 DEF AnswerSound
  <2>7. EveryGrantIsAccountedFor'
    <3> SUFFICES ASSUME NEW j \in Issuer, NEW a \in Binding, remote'[j][a].state = "alive"
                 PROVE  provider'.issuer = j /\ outbox'[a] \in {"queued", "claimed"}
      BY DEF EveryGrantIsAccountedFor
    <3> QED
      BY <1>1, <2>1 DEF BindingIInv, EveryGrantIsAccountedFor
  <2> QED
    BY <1>13, <1>16, <2>3, <2>5, <2>6, <2>7 DEF BindingIInv
<1> QED
  BY <1>17, <1>18

---------------------------------------------------------------------------
\* Bindings: unlinking, the workers, the administrator.

\* A step that moves no call and changes no token: what was sound of requests and answers
\* remains so if what they address does.
LEMMA CallsRest ==
    ASSUME BindingIInv, BindingTypes', UNCHANGED <<call, stray, mislaid>>,
           \A j \in Issuer, a \in Binding : Addressed(j, a) => Addressed(j, a)',
           \A j \in Issuer, a \in Binding :
              /\ remote'[j][a].token = remote[j][a].token
              /\ remote[j][a].state # "none" => remote'[j][a].state # "none",
           \A a \in Binding : Live(a)' => Live(a) /\ binding'[a].token = binding[a].token
    PROVE  /\ \A q \in UnderWay' : RequestSound(q)'
           /\ \A c \in Call : Carries(c)' => AnswerSound(c)'
           /\ \A j \in Issuer, a \in Binding : InTransit(j, a, remote[j][a].token) => InTransit(j, a, remote[j][a].token)'
<1>1. \A c \in Call : Asked(c)' = Asked(c) /\ (Carries(c)' <=> Carries(c))
  BY DEF Asked, Carries
<1>2. UnderWay' = UnderWay
  BY <1>1 DEF UnderWay
<1>3. ASSUME NEW q \in UnderWay'
      PROVE  RequestSound(q)'
  <2>1. q \in RequestType /\ RequestSound(q)
    BY <1>2, <1>3, UnderWayTypes DEF BindingIInv
  <2> QED
    BY <2>1 DEF RequestSound, Known, RequestType
<1>4. ASSUME NEW c \in Call, Carries(c)'
      PROVE  AnswerSound(c)'
  <2>1. Carries(c) /\ AnswerSound(c) /\ Asked(c) \in RequestType
    BY <1>1, <1>4 DEF BindingIInv, BindingTypes, Carries
  <2>2. call[c].issuer \in Issuer /\ call[c].ref \in Binding
    BY <2>1, AskedIs DEF RequestType
  <2>3. Addressed(call[c].issuer, call[c].ref)'
    BY <2>1, <2>2 DEF AnswerSound
  <2>4. \A d \in Call : Carries(d)' /\ call'[d].issuer = call[c].issuer /\ call'[d].ref = call[c].ref => d = c
    BY <1>1, <2>1 DEF AnswerSound
  <2>5. \A q \in UnderWay' : q.issuer = call[c].issuer /\ q.ref = call[c].ref => q.token < call[c].token
    BY <1>2, <2>1 DEF AnswerSound
  <2>6. Live(call[c].ref)' => binding'[call[c].ref].token < call[c].token
    BY <2>1, <2>2 DEF AnswerSound
  <2>7. remote'[call[c].issuer][call[c].ref].state # "none"
        /\ remote'[call[c].issuer][call[c].ref].token = call[c].token
    BY <2>1, <2>2 DEF AnswerSound
  <2> QED
    BY <2>1, <2>3, <2>4, <2>5, <2>6, <2>7 DEF AnswerSound
<1>5. \A j \in Issuer, a \in Binding : InTransit(j, a, remote[j][a].token) => InTransit(j, a, remote[j][a].token)'
  BY DEF InTransit
<1> QED
  BY <1>3, <1>4, <1>5

\* The tombstone and the entry commit together: the binding stays tracked.
LEMMA UnlinkKeeps ==
    ASSUME BindingIInv, NEW b \in Binding, Unlink(b)
    PROVE  BindingIInv'
<1>1. /\ Live(b)
      /\ binding' = [binding EXCEPT ![b].state = "gone", ![b].token = 0]
      /\ outbox' = [outbox EXCEPT ![b] = "queued"]
      /\ UNCHANGED <<provider, operation, remote, call, revoker, stray, mislaid>>
  BY DEF Unlink
<1>2. binding \in [Binding -> [state : {"none", "live", "gone"}, linked : BOOLEAN, token : Nat]]
  BY DEF BindingIInv, BindingTypes
<1>3. /\ binding' \in [Binding -> [state : {"none", "live", "gone"}, linked : BOOLEAN, token : Nat]]
      /\ binding'[b].state = "gone" /\ binding'[b].token = 0
      /\ \A a \in Binding \ {b} : binding'[a] = binding[a]
  BY <1>1, <1>2
<1>4. /\ outbox' \in [Binding -> {"none", "queued", "claimed", "processed"}]
      /\ outbox'[b] = "queued" /\ \A a \in Binding \ {b} : outbox'[a] = outbox[a]
  BY <1>1 DEF BindingIInv, BindingTypes
<1>5. BindingTypes'
  BY <1>1, <1>3, <1>4 DEF BindingIInv, BindingTypes, OperationTypes, Asked
<1>6. \A a \in Binding : Live(a)' => a # b /\ Live(a) /\ binding'[a].token = binding[a].token
  BY <1>3 DEF Live
<1>7. outbox[b] = "none" /\ binding[b].state # "none"
  BY <1>1 DEF BindingIInv, RowsSound, Live
<1>8. RowsSound'
  <2>1. \A a \in Binding : binding'[a].state # "none" <=> binding[a].state # "none"
    BY <1>3, <1>7
  <2>2. ASSUME NEW a \in Binding
        PROVE  /\ binding'[a].state = "none" => binding'[a].token = 0
               /\ outbox'[a] # "none" => binding'[a].state = "gone"
               /\ Live(a)' => binding'[a].token <= remote'[provider'.issuer][a].token
    <3>1. CASE a = b
      BY <1>3, <1>6, <3>1
    <3>2. CASE a # b
      BY <1>1, <1>3, <1>4, <1>6, <3>2 DEF BindingIInv, RowsSound
    <3> QED
      BY <3>1, <3>2
  <2> QED
    BY <1>6, <2>1, <2>2 DEF BindingIInv, RowsSound
<1>9. \A j \in Issuer, a \in Binding : Addressed(j, a) => Addressed(j, a)'
  BY <1>1, <1>3, <1>4, <1>6 DEF Addressed, Tracked, Live, Awaited
<1>10. ASSUME NEW w \in Revoker
       PROVE  RevokerSound(w)'
  <2>1. RevokerSound(w) /\ (revoker[w].pc # "idle" => revoker[w].ref # b)
    BY <1>7 DEF BindingIInv, RevokerSound
  <2> QED
    BY <1>1, <1>4, <2>1 DEF RevokerSound, Awaited
<1>11. /\ \A q \in UnderWay' : RequestSound(q)'
       /\ \A c \in Call : Carries(c)' => AnswerSound(c)'
       /\ \A j \in Issuer, a \in Binding : InTransit(j, a, remote[j][a].token) => InTransit(j, a, remote[j][a].token)'
  BY <1>1, <1>5, <1>6, <1>9, CallsRest
<1>12. EveryGrantIsAccountedFor'
  <2> SUFFICES ASSUME NEW j \in Issuer, NEW a \in Binding, remote'[j][a].state = "alive"
               PROVE  /\ provider'.issuer = j
                      /\ \/ outbox'[a] \in {"queued", "claimed"}
                         \/ /\ Live(a)'
                            /\ \/ binding'[a].token = remote'[j][a].token
                               \/ InTransit(j, a, remote[j][a].token)'
                               \/ <<j, a, remote'[j][a].token>> \in mislaid'
    BY DEF EveryGrantIsAccountedFor
  <2>1. /\ provider.issuer = j
        /\ \/ outbox[a] \in {"queued", "claimed"}
           \/ /\ Live(a)
              /\ \/ binding[a].token = remote[j][a].token
                 \/ InTransit(j, a, remote[j][a].token)
                 \/ <<j, a, remote[j][a].token>> \in mislaid
    BY <1>1 DEF BindingIInv, EveryGrantIsAccountedFor
  <2>2. CASE a = b
    BY <1>1, <1>4, <2>1, <2>2
  <2>3. CASE a # b
    BY <1>1, <1>3, <1>4, <1>11, <2>1, <2>3 DEF Live
  <2> QED
    BY <2>2, <2>3
<1> QED
  BY <1>5, <1>8, <1>10, <1>11, <1>12 DEF BindingIInv

\* An entry that is taken or returns waits as before.
LEMMA EntriesTurn ==
    ASSUME BindingIInv, BindingTypes',
           UNCHANGED <<provider, binding, remote, call, stray, mislaid>>,
           \A b \in Binding : (Awaited(b)' <=> Awaited(b)) /\ (outbox'[b] # "none" => outbox[b] # "none"),
           \A w \in Revoker : RevokerSound(w)'
    PROVE  BindingIInv'
<1>1. \A a \in Binding : Live(a)' <=> Live(a)
  BY DEF Live
<1>2. RowsSound'
  BY <1>1 DEF BindingIInv, RowsSound
<1>3. \A j \in Issuer, a \in Binding : Addressed(j, a) => Addressed(j, a)'
  BY <1>1 DEF Addressed, Tracked
<1>4. /\ \A q \in UnderWay' : RequestSound(q)'
      /\ \A c \in Call : Carries(c)' => AnswerSound(c)'
      /\ \A j \in Issuer, a \in Binding : InTransit(j, a, remote[j][a].token) => InTransit(j, a, remote[j][a].token)'
  BY <1>1, <1>3, CallsRest
<1>5. EveryGrantIsAccountedFor'
  BY <1>1, <1>4 DEF BindingIInv, EveryGrantIsAccountedFor, Awaited
<1> QED
  BY <1>2, <1>4, <1>5 DEF BindingIInv

LEMMA ClaimEntryKeeps ==
    ASSUME BindingIInv, NEW w \in Revoker, NEW b \in Binding, ClaimEntry(w, b)
    PROVE  BindingIInv'
<1> DEFINE new == [NoWork EXCEPT !.pc = "load", !.ref = b]
<1>1. /\ outbox[b] = "queued" /\ outbox' = [outbox EXCEPT ![b] = "claimed"]
      /\ revoker' = [revoker EXCEPT ![w] = new]
      /\ UNCHANGED <<provider, binding, operation, remote, call, stray, mislaid>>
  BY DEF ClaimEntry
<1>2. /\ new.pc = "load" /\ new.ref = b
      /\ new \in [pc : {"idle", "load", "revoke", "report"}, ref : Binding \cup {Absent},
                  issuer : Issuer \cup {Absent}, answer : {Absent, "done", "failed"}]
  BY DEF NoWork
<1> HIDE DEF new
<1>3. BindingTypes' /\ revoker'[w] = new /\ \A v \in Revoker \ {w} : revoker'[v] = revoker[v]
  BY <1>1, <1>2 DEF BindingIInv, BindingTypes, OperationTypes, Asked
<1>4. outbox'[b] = "claimed" /\ \A a \in Binding \ {b} : outbox'[a] = outbox[a]
  BY <1>1 DEF BindingIInv, BindingTypes
<1>5. \A a \in Binding : (Awaited(a)' <=> Awaited(a)) /\ (outbox'[a] # "none" => outbox[a] # "none")
                         /\ (outbox[a] # "none" => outbox'[a] # "none")
  BY <1>1, <1>4 DEF Awaited
<1>6. ASSUME NEW v \in Revoker
      PROVE  RevokerSound(v)'
  <2>1. CASE v = w
    BY <1>2, <1>3, <1>4, <2>1 DEF RevokerSound
  <2>2. CASE v # w
    BY <1>1, <1>3, <1>5, <2>2 DEF BindingIInv, RevokerSound
  <2> QED
    BY <2>1, <2>2
<1> QED
  BY <1>1, <1>3, <1>5, <1>6, EntriesTurn

LEMMA EntryReturnsKeeps ==
    ASSUME BindingIInv, NEW b \in Binding, EntryReturns(b)
    PROVE  BindingIInv'
<1>1. /\ outbox[b] = "claimed" /\ outbox' = [outbox EXCEPT ![b] = "queued"]
      /\ UNCHANGED <<provider, binding, operation, remote, call, revoker, stray, mislaid>>
  BY DEF EntryReturns
<1>2. BindingTypes'
  BY <1>1 DEF BindingIInv, BindingTypes, OperationTypes, Asked
<1>3. outbox'[b] = "queued" /\ \A a \in Binding \ {b} : outbox'[a] = outbox[a]
  BY <1>1 DEF BindingIInv, BindingTypes
<1>4. \A a \in Binding : (Awaited(a)' <=> Awaited(a)) /\ (outbox'[a] # "none" => outbox[a] # "none")
                         /\ (outbox[a] # "none" => outbox'[a] # "none")
  BY <1>1, <1>3 DEF Awaited
<1>5. \A v \in Revoker : RevokerSound(v)'
  BY <1>1, <1>4 DEF BindingIInv, RevokerSound
<1> QED
  BY <1>1, <1>2, <1>4, <1>5, EntriesTurn

\* The identity is read while the entry waits or after it was done with.
LEMMA LoadProviderKeeps ==
    ASSUME BindingIInv, NEW w \in Revoker, LoadProvider(w)
    PROVE  BindingIInv'
<1> DEFINE new == [revoker[w] EXCEPT !.pc = "revoke", !.issuer = provider.issuer]
<1>1. /\ revoker[w].pc = "load" /\ revoker' = [revoker EXCEPT ![w] = new]
      /\ UNCHANGED <<provider, binding, operation, outbox, remote, call, stray, mislaid>>
  BY DEF LoadProvider
<1>2. /\ new.pc = "revoke" /\ new.ref = revoker[w].ref /\ new.issuer = provider.issuer
      /\ new \in [pc : {"idle", "load", "revoke", "report"}, ref : Binding \cup {Absent},
                  issuer : Issuer \cup {Absent}, answer : {Absent, "done", "failed"}]
  <2>1. /\ revoker[w] \in [pc : {"idle", "load", "revoke", "report"}, ref : Binding \cup {Absent},
                           issuer : Issuer \cup {Absent}, answer : {Absent, "done", "failed"}]
        /\ provider.issuer \in Issuer
    BY DEF BindingIInv, BindingTypes
  <2> QED
    BY <2>1
<1> HIDE DEF new
<1>3. BindingTypes' /\ revoker'[w] = new /\ \A v \in Revoker \ {w} : revoker'[v] = revoker[v]
  BY <1>1, <1>2 DEF BindingIInv, BindingTypes, OperationTypes, Asked
<1>4. ASSUME NEW v \in Revoker
      PROVE  RevokerSound(v)'
  <2>1. CASE v = w
    <3>1. provider.issuer \in Issuer
      BY DEF BindingIInv, BindingTypes
    <3> QED
      BY <1>1, <1>2, <1>3, <2>1, <3>1 DEF BindingIInv, RevokerSound, Awaited
  <2>2. CASE v # w
    BY <1>1, <1>3, <2>2 DEF BindingIInv, RevokerSound, Awaited
  <2> QED
    BY <2>1, <2>2
<1>5. \A a \in Binding : (Awaited(a)' <=> Awaited(a)) /\ (outbox'[a] # "none" => outbox[a] # "none")
  BY <1>1 DEF Awaited
<1> QED
  BY <1>1, <1>3, <1>4, <1>5, EntriesTurn

LEMMA RevokerDiesKeeps ==
    ASSUME BindingIInv, NEW w \in Revoker, RevokerDies(w)
    PROVE  BindingIInv'
<1>1. /\ revoker' = [revoker EXCEPT ![w] = NoWork]
      /\ UNCHANGED <<provider, binding, operation, outbox, remote, call, stray, mislaid>>
  BY DEF RevokerDies
<1>2. /\ NoWork.pc = "idle"
      /\ NoWork \in [pc : {"idle", "load", "revoke", "report"}, ref : Binding \cup {Absent},
                     issuer : Issuer \cup {Absent}, answer : {Absent, "done", "failed"}]
  BY DEF NoWork
<1>3. BindingTypes' /\ revoker'[w] = NoWork /\ \A v \in Revoker \ {w} : revoker'[v] = revoker[v]
  BY <1>1, <1>2 DEF BindingIInv, BindingTypes, OperationTypes, Asked
<1>4. \A v \in Revoker : RevokerSound(v)'
  BY <1>1, <1>2, <1>3 DEF BindingIInv, RevokerSound, Awaited
<1>5. \A a \in Binding : (Awaited(a)' <=> Awaited(a)) /\ (outbox'[a] # "none" => outbox[a] # "none")
  BY <1>1 DEF Awaited
<1> QED
  BY <1>1, <1>3, <1>4, <1>5, EntriesTurn

\* The provider forgets the grant for good; whether the answer arrives is another matter.
LEMMA RevokeRemotelyKeeps ==
    ASSUME BindingIInv, NEW w \in Revoker, RevokeRemotely(w)
    PROVE  BindingIInv'
<1>1. /\ revoker[w].pc = "revoke" /\ UNCHANGED <<provider, binding, operation, outbox, call, stray, mislaid>>
      /\ Revoking(w) \/ UNCHANGED remote
  BY DEF RevokeRemotely
<1>2. PICK a \in {"done", "failed"} :
         /\ revoker' = [revoker EXCEPT ![w].pc = "report", ![w].answer = a]
         /\ a = "done" => Revoking(w)
  BY DEF RevokeRemotely
<1>3. PICK i \in Issuer, b \in Binding : revoker[w].issuer = i /\ revoker[w].ref = b
  BY <1>1 DEF BindingIInv, RevokerSound
<1>4. /\ remote' \in [Issuer -> [Binding -> GrantType]]
      /\ \A j \in Issuer, c \in Binding :
            /\ remote'[j][c].token = remote[j][c].token
            /\ remote'[j][c].state \in {remote[j][c].state, "tombstone"}
      /\ Revoking(w) => remote'[i][b].state = "tombstone"
  <2> DEFINE next == [remote[i][b] EXCEPT !.state = "tombstone"]
  <2>1. remote[i][b] \in GrantType /\ remote \in [Issuer -> [Binding -> GrantType]]
    BY DEF BindingIInv, BindingTypes
  <2>2. next \in GrantType /\ next.state = "tombstone" /\ next.token = remote[i][b].token
    BY <2>1 DEF GrantType
  <2>3. Revoking(w) => remote' = [remote EXCEPT ![i][b] = next]
    BY <1>3 DEF Revoking
  <2> HIDE DEF next
  <2> QED
    BY <1>1, <2>1, <2>2, <2>3
<1>5. /\ revoker' \in [Revoker -> [pc : {"idle", "load", "revoke", "report"}, ref : Binding \cup {Absent},
                                   issuer : Issuer \cup {Absent}, answer : {Absent, "done", "failed"}]]
      /\ revoker'[w].pc = "report" /\ revoker'[w].answer = a
      /\ revoker'[w].issuer = i /\ revoker'[w].ref = b
      /\ \A v \in Revoker \ {w} : revoker'[v] = revoker[v]
  BY <1>2, <1>3 DEF BindingIInv, BindingTypes
<1>6. BindingTypes'
  BY <1>1, <1>4, <1>5 DEF BindingIInv, BindingTypes, OperationTypes, Asked
<1>7. \A c \in Binding : (Live(c)' <=> Live(c)) /\ (Awaited(c)' <=> Awaited(c))
  BY <1>1 DEF Live, Awaited
<1>8. RowsSound'
  <2>1. provider.issuer \in Issuer
    BY DEF BindingIInv, BindingTypes
  <2> QED
    BY <1>1, <1>4, <1>7, <2>1 DEF BindingIInv, RowsSound
<1>9. \A j \in Issuer, c \in Binding : Addressed(j, c) => Addressed(j, c)'
  BY <1>1, <1>4, <1>7 DEF Addressed, Tracked
<1>10. /\ \A q \in UnderWay' : RequestSound(q)'
       /\ \A c \in Call : Carries(c)' => AnswerSound(c)'
       /\ \A j \in Issuer, c \in Binding : InTransit(j, c, remote[j][c].token) => InTransit(j, c, remote[j][c].token)'
  <2>1. \A j \in Issuer, c \in Binding :
          /\ remote'[j][c].token = remote[j][c].token
          /\ remote[j][c].state # "none" => remote'[j][c].state # "none"
    BY <1>4
  <2>2. \A c \in Binding : Live(c)' => Live(c) /\ binding'[c].token = binding[c].token
    BY <1>1, <1>7
  <2> QED
    BY <1>1, <1>6, <1>9, <2>1, <2>2, CallsRest
<1>11. ASSUME NEW v \in Revoker
       PROVE  RevokerSound(v)'
  <2>1. CASE v = w
    BY <1>1, <1>2, <1>3, <1>4, <1>5, <2>1 DEF BindingIInv, RevokerSound, Awaited
  <2>2. CASE v # w
    <3>1. revoker'[v] = revoker[v] /\ RevokerSound(v)
      BY <1>5, <2>2 DEF BindingIInv
    <3>2. revoker[v].pc = "report" /\ revoker[v].answer = "done" =>
            remote'[revoker[v].issuer][revoker[v].ref].state = "tombstone"
      BY <1>4, <3>1 DEF RevokerSound
    <3> QED
      BY <1>1, <3>1, <3>2 DEF RevokerSound, Awaited
  <2> QED
    BY <2>1, <2>2
<1>12. EveryGrantIsAccountedFor'
  <2> SUFFICES ASSUME NEW j \in Issuer, NEW c \in Binding, remote'[j][c].state = "alive"
               PROVE  /\ provider'.issuer = j
                      /\ \/ outbox'[c] \in {"queued", "claimed"}
                         \/ /\ Live(c)'
                            /\ \/ binding'[c].token = remote'[j][c].token
                               \/ InTransit(j, c, remote[j][c].token)'
                               \/ <<j, c, remote'[j][c].token>> \in mislaid'
    BY DEF EveryGrantIsAccountedFor
  <2>1. remote[j][c].state = "alive" /\ remote'[j][c].token = remote[j][c].token
    BY <1>4
  <2>2. /\ provider.issuer = j
        /\ \/ outbox[c] \in {"queued", "claimed"}
           \/ /\ Live(c)
              /\ \/ binding[c].token = remote[j][c].token
                 \/ InTransit(j, c, remote[j][c].token)
                 \/ <<j, c, remote[j][c].token>> \in mislaid
    BY <2>1 DEF BindingIInv, EveryGrantIsAccountedFor
  <2> QED
    BY <1>1, <1>7, <1>10, <2>1, <2>2
<1> QED
  BY <1>6, <1>8, <1>10, <1>11, <1>12 DEF BindingIInv

\* An entry is done with only when the identity of the row has the tombstone, or when
\* another worker was first.
LEMMA ReportKeeps ==
    ASSUME BindingIInv, NEW w \in Revoker, Report(w)
    PROVE  BindingIInv'
<1>1. /\ revoker[w].pc = "report" /\ revoker' = [revoker EXCEPT ![w] = NoWork]
      /\ UNCHANGED <<provider, binding, operation, remote, call, stray, mislaid>>
  BY DEF Report
<1>2. PICK i \in Issuer, b \in Binding : revoker[w].issuer = i /\ revoker[w].ref = b
  BY <1>1 DEF BindingIInv, RevokerSound
<1>3. /\ outbox[b] # "none" /\ (Awaited(b) => i = provider.issuer)
      /\ binding[b].state = "gone" /\ ~Live(b)
      /\ revoker[w].answer = "done" => remote[i][b].state = "tombstone"
  BY <1>1, <1>2 DEF BindingIInv, RevokerSound, RowsSound, Live
<1>4. /\ NoWork.pc = "idle"
      /\ NoWork \in [pc : {"idle", "load", "revoke", "report"}, ref : Binding \cup {Absent},
                     issuer : Issuer \cup {Absent}, answer : {Absent, "done", "failed"}]
  BY DEF NoWork
<1>5. /\ outbox' \in [Binding -> {"none", "queued", "claimed", "processed"}]
      /\ \A a \in Binding \ {b} : outbox'[a] = outbox[a]
      /\ outbox'[b] = (IF revoker[w].answer = "done" THEN "processed" ELSE outbox[b])
  BY <1>2 DEF Report, BindingIInv, BindingTypes
<1>6. BindingTypes' /\ revoker'[w] = NoWork /\ \A v \in Revoker \ {w} : revoker'[v] = revoker[v]
  BY <1>1, <1>4, <1>5 DEF BindingIInv, BindingTypes, OperationTypes, Asked
<1>7. \A a \in Binding : (Live(a)' <=> Live(a)) /\ (Awaited(a)' => Awaited(a)) /\ (outbox'[a] # "none" <=> outbox[a] # "none")
  BY <1>1, <1>3, <1>5 DEF Live, Awaited
<1>8. RowsSound'
  BY <1>1, <1>7 DEF BindingIInv, RowsSound
<1>9. ASSUME NEW j \in Issuer, NEW a \in Binding, Tracked(j, a), remote[j][a].state # "tombstone"
      PROVE  Tracked(j, a)' /\ (Awaited(a) => Awaited(a)')
  <2>1. CASE a = b
    <3>1. Awaited(b) /\ j = i
      BY <1>3, <1>9, <2>1 DEF Tracked
    <3>2. outbox'[b] = outbox[b]
      BY <1>3, <1>5, <1>9, <2>1, <3>1
    <3> QED
      BY <1>1, <1>7, <1>9, <2>1, <3>2 DEF Tracked, Awaited
  <2>2. CASE a # b
    BY <1>1, <1>5, <1>7, <1>9, <2>2 DEF Tracked, Awaited
  <2> QED
    BY <2>1, <2>2
<1>10. \A j \in Issuer, a \in Binding : Addressed(j, a) => Addressed(j, a)'
  BY <1>1, <1>7, <1>9 DEF Addressed
<1>11. /\ \A q \in UnderWay' : RequestSound(q)'
       /\ \A c \in Call : Carries(c)' => AnswerSound(c)'
       /\ \A j \in Issuer, a \in Binding : InTransit(j, a, remote[j][a].token) => InTransit(j, a, remote[j][a].token)'
  BY <1>1, <1>6, <1>7, <1>10, CallsRest
<1>12. ASSUME NEW v \in Revoker
       PROVE  RevokerSound(v)'
  <2>1. CASE v = w
    BY <1>4, <1>6, <2>1 DEF RevokerSound
  <2>2. CASE v # w
    BY <1>1, <1>6, <1>7, <2>2 DEF BindingIInv, RevokerSound
  <2> QED
    BY <2>1, <2>2
<1>13. EveryGrantIsAccountedFor'
  <2> SUFFICES ASSUME NEW j \in Issuer, NEW a \in Binding, remote'[j][a].state = "alive"
               PROVE  /\ provider'.issuer = j
                      /\ \/ Awaited(a)'
                         \/ /\ Live(a)'
                            /\ \/ binding'[a].token = remote'[j][a].token
                               \/ InTransit(j, a, remote[j][a].token)'
                               \/ <<j, a, remote'[j][a].token>> \in mislaid'
    BY DEF EveryGrantIsAccountedFor, Awaited
  <2>1. /\ provider.issuer = j
        /\ \/ Awaited(a)
           \/ /\ Live(a)
              /\ \/ binding[a].token = remote[j][a].token
                 \/ InTransit(j, a, remote[j][a].token)
                 \/ <<j, a, remote[j][a].token>> \in mislaid
    BY <1>1 DEF BindingIInv, EveryGrantIsAccountedFor, Awaited
  <2>2. Awaited(a) => Awaited(a)'
    BY <1>1, <1>9, <2>1 DEF Tracked
  <2> QED
    BY <1>1, <1>7, <1>11, <2>1, <2>2
<1> QED
  BY <1>6, <1>8, <1>11, <1>12, <1>13 DEF BindingIInv

\* The row takes another identity only when no binding and no entry depends on the old one.
LEMMA UpdateProviderKeeps ==
    ASSUME BindingIInv, NEW i \in Issuer, UpdateProvider(i)
    PROVE  BindingIInv'
<1>1. /\ i # provider.issuer => ~IdentityLocked
      /\ provider' = [provider EXCEPT !.issuer = i, !.revision = @ + 1]
      /\ provider.revision < MaxRevision
      /\ UNCHANGED <<binding, operation, outbox, remote, call, revoker, stray, mislaid>>
  BY DEF UpdateProvider
<1>2. provider' \in [issuer : Issuer, enabled : BOOLEAN, revision : 0..MaxRevision] /\ provider'.issuer = i
  <2>1. provider \in [issuer : Issuer, enabled : BOOLEAN, revision : 0..MaxRevision]
    BY DEF BindingIInv, BindingTypes
  <2>2. provider.revision + 1 \in 0..MaxRevision
    BY <1>1, <2>1, BindingsAssumption
  <2> QED
    BY <1>1, <2>1, <2>2
<1>3. BindingTypes'
  BY <1>1, <1>2 DEF BindingIInv, BindingTypes, OperationTypes, Asked
<1>4. \A c \in Call : Asked(c)' = Asked(c) /\ (Carries(c)' <=> Carries(c))
  BY <1>1 DEF Asked, Carries
<1>5. UnderWay' = UnderWay
  BY <1>1, <1>4 DEF UnderWay
<1>6. CASE i = provider.issuer
  <2>1. \A w \in Revoker : RevokerSound(w)'
    BY <1>1, <1>2, <1>6 DEF BindingIInv, RevokerSound, Awaited
  <2> QED
    BY <1>1, <1>2, <1>3, <1>4, <1>5, <1>6, <2>1, CallsMove
<1>7. CASE i # provider.issuer
  <2>1. \A b \in Binding : ~Live(b) /\ ~Awaited(b)
    BY <1>1, <1>7 DEF IdentityLocked, Awaited
  <2>2. \A b \in Binding : ~Live(b)' /\ ~Awaited(b)'
    BY <1>1, <2>1 DEF Live, Awaited
  <2>3. RowsSound'
    BY <1>1, <2>2 DEF BindingIInv, RowsSound
  <2>4. \A j \in Issuer, b \in Binding : Addressed(j, b) => Addressed(j, b)'
    BY <1>1, <2>1, <2>2 DEF Addressed, Tracked
  <2>5. /\ \A q \in UnderWay' : RequestSound(q)'
        /\ \A c \in Call : Carries(c)' => AnswerSound(c)'
    BY <1>1, <1>3, <2>2, <2>4, CallsRest
  <2>6. \A w \in Revoker : RevokerSound(w)'
    <3> SUFFICES ASSUME NEW w \in Revoker PROVE RevokerSound(w)'
      OBVIOUS
    <3>1. RevokerSound(w) /\ (revoker[w].pc # "idle" => ~Awaited(revoker[w].ref)')
      BY <1>1, <2>2 DEF BindingIInv, RevokerSound
    <3> QED
      BY <1>1, <3>1 DEF RevokerSound, Awaited
  <2>7. EveryGrantIsAccountedFor'
    BY <1>1, <2>1 DEF BindingIInv, EveryGrantIsAccountedFor, Awaited
  <2> QED
    BY <1>3, <2>3, <2>5, <2>6, <2>7 DEF BindingIInv
<1> QED
  BY <1>6, <1>7

LEMMA SetProviderEnabledKeeps ==
    ASSUME BindingIInv, NEW e \in BOOLEAN, SetProviderEnabled(e)
    PROVE  BindingIInv'
<1>1. /\ provider' = [provider EXCEPT !.enabled = e, !.revision = @ + 1]
      /\ provider.revision < MaxRevision
      /\ UNCHANGED <<binding, operation, outbox, remote, call, revoker, stray, mislaid>>
  BY DEF SetProviderEnabled
<1>2. /\ provider' \in [issuer : Issuer, enabled : BOOLEAN, revision : 0..MaxRevision]
      /\ provider'.issuer = provider.issuer
  <2>1. provider \in [issuer : Issuer, enabled : BOOLEAN, revision : 0..MaxRevision]
    BY DEF BindingIInv, BindingTypes
  <2>2. provider.revision + 1 \in 0..MaxRevision
    BY <1>1, <2>1, BindingsAssumption
  <2> QED
    BY <1>1, <2>1, <2>2
<1>3. BindingTypes'
  BY <1>1, <1>2 DEF BindingIInv, BindingTypes, OperationTypes, Asked
<1>4. \A c \in Call : Asked(c)' = Asked(c) /\ (Carries(c)' <=> Carries(c))
  BY <1>1 DEF Asked, Carries
<1>5. UnderWay' = UnderWay
  BY <1>1, <1>4 DEF UnderWay
<1>6. \A w \in Revoker : RevokerSound(w)'
  BY <1>1, <1>2 DEF BindingIInv, RevokerSound, Awaited
<1> QED
  BY <1>1, <1>2, <1>3, <1>4, <1>5, <1>6, CallsMove

---------------------------------------------------------------------------
\* Bindings: the theorems.

LEMMA BindingStep == BindingIInv /\ [BindingsNext]_bindingVars => BindingIInv'
<1> SUFFICES ASSUME BindingIInv, [BindingsNext]_bindingVars PROVE BindingIInv'
  OBVIOUS
<1>1. ASSUME NEW c \in Call,
             \/ \E k \in CreateKey, b \in Binding : BeginCreate(c, k, b)
             \/ \E k \in RefreshKey, b \in Binding : BeginRefresh(c, k, b)
             \/ Served(c) \/ AnswerLost(c) \/ TimesOut(c) \/ ProviderRefuses(c)
             \/ CommitCreated(c) \/ CommitRefreshed(c) \/ Dropped(c) \/ HandleError(c)
             \/ CallDies(c)
      PROVE  BindingIInv'
  BY <1>1, BeginCreateKeeps, BeginRefreshKeeps, ServedKeeps, AnswerLostKeeps, TimesOutKeeps,
     ProviderRefusesKeeps, CommitCreatedKeeps, CommitRefreshedKeeps, DroppedKeeps,
     HandleErrorKeeps, CallDiesKeeps
<1>2. ASSUME NEW w \in Revoker,
             \/ \E b \in Binding : ClaimEntry(w, b)
             \/ LoadProvider(w) \/ RevokeRemotely(w) \/ Report(w) \/ RevokerDies(w)
      PROVE  BindingIInv'
  BY <1>2, ClaimEntryKeeps, LoadProviderKeeps, RevokeRemotelyKeeps, ReportKeeps, RevokerDiesKeeps
<1>3. CASE UNCHANGED bindingVars
  <2>1. \A c \in Call : Asked(c)' = Asked(c) /\ (Carries(c)' <=> Carries(c))
    BY <1>3 DEF bindingVars, Asked, Carries
  <2>2. BindingTypes'
    BY <1>3, <2>1 DEF bindingVars, BindingIInv, BindingTypes, OperationTypes
  <2>3. UnderWay' = UnderWay
    BY <1>3, <2>1 DEF bindingVars, UnderWay
  <2>4. \A w \in Revoker : RevokerSound(w)'
    BY <1>3 DEF bindingVars, BindingIInv, RevokerSound, Awaited
  <2> QED
    BY <1>3, <2>1, <2>2, <2>3, <2>4, CallsMove DEF bindingVars
<1> QED
  BY <1>1, <1>2, <1>3, StrayArrivesKeeps, LeaseExpiresKeeps, UnlinkKeeps, EntryReturnsKeeps,
     UpdateProviderKeeps, SetProviderEnabledKeeps DEF BindingsNext

\* The invariant of the bindings: the rows, what is under way, what the answers carry,
\* what the workers may do, and the grants at the provider.
THEOREM BindingInvariance == BindingsSpec => []BindingIInv
  BY BindingStarts, BindingStep, PTL DEF BindingsSpec

\* Rows, calls and workers have their shapes, and the user has one live binding at most.
THEOREM BindingTypeCorrect == BindingsSpec => []BindingsTypeOK
<1>1. BindingIInv => BindingsTypeOK
  BY DEF BindingIInv, BindingTypes, CallType, RowsSound, BindingsTypeOK
<1> QED
  BY <1>1, BindingInvariance, PTL

\* No grant at the provider is forgotten (resource_services): for any calls, workers, keys,
\* identities and faults, its revocation waits, or its newest token is here, on its way or
\* known to be lost.
THEOREM EveryGrantIsAlwaysAccountedFor == BindingsSpec => []EveryGrantIsAccountedFor
<1>1. BindingIInv => EveryGrantIsAccountedFor
  BY DEF BindingIInv
<1> QED
  BY <1>1, BindingInvariance, PTL

=============================================================================
