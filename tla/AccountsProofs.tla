--------------------------- MODULE AccountsProofs ---------------------------
(***************************************************************************)
(* What holds of the accounts for any number of users, cookies,            *)
(* transactions, sessions, workers and challenges.                         *)
(*                                                                         *)
(* Management.  A step moves one transaction, and leaves to every other    *)
(* what that one has locked (Bystander); what a transaction knows          *)
(* (Sound) is therefore its own affair.                                    *)
(*                                                                         *)
(* Sessions and Login, beside one another (AccountSpec).  A worker of the  *)
(* outbox keeps its row locked over the call of Redis, so nothing becomes  *)
(* of the entry meanwhile (CourierSound).  Whatever replaces a credential  *)
(* begins an epoch, and every request and session of an earlier epoch has  *)
(* nothing to show any more (Fades, EpochTurns).                           *)
(*                                                                         *)
(* EmailChange.  A code that is looked at holds its slot, and no two       *)
(* workers have the same claim of a mail.                                  *)
(***************************************************************************)
EXTENDS Login, Management, EmailChange, FiniteSetTheorems, WellFoundedInduction, TLAPS

---------------------------------------------------------------------------
\* Management: the least of some numbers, and locks.

\* A set of numbers that is not empty has a least one: no intervals 0..u descend for ever.
LEMMA LowestIn ==
    ASSUME NEW ids \in SUBSET Nat, ids # {}
    PROVE  Lowest(ids) \in ids
<1> DEFINE T == {0..u : u \in ids}
<1>1. T \subseteq FiniteSubsetsOf(Nat)
  <2> SUFFICES ASSUME NEW u \in ids PROVE 0..u \in FiniteSubsetsOf(Nat)
    OBVIOUS
  <2>1. IsFiniteSet(0..u)
    BY FS_Interval
  <2> QED
    BY <2>1 DEF FiniteSubsetsOf
<1>2. T # {}
  OBVIOUS
<1>3. PICK x \in T : \A y \in T : ~ (<<y, x>> \in StrictSubsetOrdering(Nat))
  <2> HIDE DEF T
  <2> QED
    BY <1>1, <1>2, FS_StrictSubsetOrderingWellFounded, WFMin
<1>4. PICK u \in ids : x = 0..u
  OBVIOUS
<1>5. \A v \in ids : u <= v
  <2> SUFFICES ASSUME NEW v \in ids, v < u PROVE FALSE
    OBVIOUS
  <2>1. 0..v \subseteq 0..u /\ 0..v # 0..u /\ 0..u \subseteq Nat
    BY u \in 0..u, u \notin 0..v
  <2>2. <<0..v, 0..u>> \in StrictSubsetOrdering(Nat)
    BY <2>1 DEF StrictSubsetOrdering
  <2> QED
    BY <1>3, <1>4, <2>2
<1> QED
  BY <1>5 DEF Lowest

LEMMA LocksDiffer ==
    /\ \A u \in User : Advisory(u) \in Lock /\ UserRow(u) \in Lock
    /\ \A k \in Cookie : CookieRow(k) \in Lock
    /\ OwnerBootstrap \in Lock /\ InvitationRow \in Lock
    /\ \A u, v \in User : UserRow(u) = UserRow(v) => u = v
    /\ \A k, j \in Cookie : CookieRow(k) = CookieRow(j) => k = j
  BY DEF Lock, Advisory, UserRow, CookieRow, OwnerBootstrap, InvitationRow

---------------------------------------------------------------------------
\* The invariant.

TaskPlace == {"idle", "advisory", "owners", "rows", "cookie", "business", "invitation", "commit"}
TaskKind == {"none", "guarded", "create", "register", "bootstrap", "disable"}

TaskType ==
    [pc : TaskPlace, kind : TaskKind, actor : Cookie \cup {Nobody}, by : 0..MaxUser,
     generation : 0..MaxAccountEpoch, permission : {"none"} \cup Permission,
     target : 0..MaxUser, todo : SUBSET User, owners : Nat]
UserType == [role : Standing, active : BOOLEAN, generation : 1..MaxAccountEpoch]
CookieType ==
    [state : {"none", "live", "revoked"}, user : 0..MaxUser, generation : 0..MaxAccountEpoch]

UserTypes ==
    /\ users \in [User -> UserType] /\ cookie \in [Cookie -> CookieType]
    /\ \A k \in Cookie : cookie[k].state = "live" => cookie[k].user \in User
TaskTypes == holder \in [Lock -> Task \cup {Nobody}] /\ task \in [Task -> TaskType]
InvitationTypes ==
    invitation \in [uses : 0..MaxUses, disabled : BOOLEAN, registered : SUBSET User]
Types == UserTypes /\ TaskTypes /\ InvitationTypes

Somebody == \E u \in User : Exists(u)

Party(t) == {task[t].by, task[t].target} \ {0}

\* What the kind of a transaction says of its course.
Course(t) ==
    /\ task[t].pc \in {"advisory", "owners", "rows", "cookie"} =>
          /\ task[t].kind \in {"guarded", "create", "disable"}
          /\ task[t].actor = Nobody => task[t].kind = "guarded"
    /\ task[t].pc = "business" => task[t].kind \in {"create", "register", "bootstrap"}
    /\ task[t].kind = "guarded" => task[t].target \in User /\ Exists(task[t].target)
    /\ task[t].kind = "create" => task[t].permission \in {"ManageUsers", "ManageRoles"}
    /\ task[t].kind \in {"register", "bootstrap"} => task[t].permission = "none"
    /\ task[t].actor # Nobody => task[t].by \in User
    /\ task[t].pc = "owners" => task[t].todo # {}
    /\ task[t].pc \in {"idle", "advisory"} => task[t].owners = 0
    /\ task[t].pc \in {"invitation", "commit"} /\ task[t].kind \in {"create", "register"} => Somebody

\* From the last row on it holds the rows of actor and target.
RowsHeld(t) ==
    /\ task[t].pc = "rows" => \A v \in Party(t) \ task[t].todo : holder[UserRow(v)] = t
    /\ task[t].pc \in {"cookie", "business", "invitation", "commit"} =>
          \A v \in Party(t) : holder[UserRow(v)] = t

\* From its cookie on it holds that, and its actor stands.
ActorHeld(t) ==
    task[t].actor # Nobody /\ task[t].pc \in {"business", "invitation", "commit"} =>
       holder[CookieRow(task[t].actor)] = t /\ ActorStands(t)

\* The active owners whose rows it holds, of those it has asked for: no fewer than it counted.
Sure(t) ==
    {v \in ActiveOwners : holder[UserRow(v)] = t /\ (task[t].pc = "owners" => v \notin task[t].todo)}
Counted(t) == task[t].owners <= Cardinality(Sure(t))

\* A use of the code is there for whoever holds its row to register, and nobody
\* disables it without the row.
UseHeld(t) ==
    /\ holder[InvitationRow] = t => task[t].pc = "commit" /\ (task[t].kind = "disable" \/ Usable)
    /\ task[t].pc = "commit" /\ task[t].kind = "disable" => holder[InvitationRow] = t

Sound(t) == Course(t) /\ RowsHeld(t) /\ ActorHeld(t) /\ Counted(t) /\ UseHeld(t)

ManagementIInv == Types /\ (\A t \in Task : Sound(t)) /\ OwnerRemains

---------------------------------------------------------------------------
\* What a transaction keeps while another one moves.

Bystander(t) ==
    /\ task'[t] = task[t]
    /\ \A l \in Lock : holder'[l] = t <=> holder[l] = t
    /\ \A u \in User : Exists(u) => Exists(u)'
    /\ \A u \in User : holder[UserRow(u)] = t /\ Exists(u) => users'[u] = users[u]
    /\ \A k \in Cookie : holder[CookieRow(k)] = t /\ cookie[k].state = "live" => cookie'[k] = cookie[k]
    /\ holder[InvitationRow] = t => invitation' = invitation

LEMMA UsersFinite ==
    ASSUME NEW S \in SUBSET User
    PROVE  IsFiniteSet(S) /\ Cardinality(S) \in Nat /\ Cardinality(S) <= MaxUser
<1>1. IsFiniteSet(User) /\ Cardinality(User) = MaxUser
  BY ManagementBoundAssumption, FS_Interval DEF User
<1> QED
  BY <1>1, FS_Subset, FS_CardinalityType

LEMMA SureAreUsers == ASSUME NEW t PROVE Sure(t) \in SUBSET User /\ (Sure(t) \in SUBSET User)'
  BY DEF Sure, ActiveOwners

\* A larger set of locked owners counts for no less.
LEMMA SureGrows ==
    ASSUME NEW t \in Task, Counted(t), task[t].owners \in Nat,
           task'[t].owners = task[t].owners, Sure(t) \subseteq Sure(t)'
    PROVE  Counted(t)'
<1>1. IsFiniteSet(Sure(t)') /\ Cardinality(Sure(t)') \in Nat
  BY SureAreUsers, UsersFinite
<1>2. Cardinality(Sure(t)) <= Cardinality(Sure(t)') /\ Cardinality(Sure(t)) \in Nat
  BY <1>1, FS_Subset, FS_CardinalityType
<1> QED
  BY <1>1, <1>2 DEF Counted

LEMMA BystanderSound ==
    ASSUME Types, Types', NEW t \in Task, Sound(t), Bystander(t)
    PROVE  Sound(t)'
<1>1. Course(t)'
  <2>1. Course(t)
    BY DEF Sound
  <2>2. Somebody => Somebody'
    BY DEF Somebody, Bystander
  <2>3. task'[t] = task[t] /\ \A u \in User : Exists(u) => Exists(u)'
    BY DEF Bystander
  <2> QED
    BY <2>1, <2>2, <2>3 DEF Course
<1>2. \A v \in User : holder[UserRow(v)] = t => holder'[UserRow(v)] = t
  BY LocksDiffer DEF Bystander
<1>3. RowsHeld(t)'
  <2>1. task[t] \in TaskType
    BY DEF Types, TaskTypes
  <2>2. Party(t) \subseteq User /\ Party(t)' = Party(t)
    BY <2>1 DEF TaskType, Party, User, Bystander
  <2>3. task'[t] = task[t] /\ RowsHeld(t)
    BY DEF Bystander, Sound
  <2> QED
    BY <1>2, <2>2, <2>3 DEF RowsHeld
<1>4. ActorHeld(t)'
  <2> SUFFICES ASSUME task[t].actor # Nobody, task[t].pc \in {"business", "invitation", "commit"}
               PROVE  /\ holder'[CookieRow(task[t].actor)] = t
                      /\ ActorStands(t)'
    BY DEF ActorHeld, Bystander
  <2> DEFINE k == task[t].actor
             u == task[t].by
  <2>1. k \in Cookie /\ u \in User
    BY DEF Types, TaskTypes, TaskType, Sound, Course
  <2>2. holder[CookieRow(k)] = t /\ ActorStands(t)
    BY DEF Sound, ActorHeld
  <2>3. holder[UserRow(u)] = t
    BY <2>1 DEF Sound, RowsHeld, Party, User
  <2>4. Exists(u)
    BY <2>2 DEF ActorStands, Allows, Exists
  <2>5. cookie'[k] = cookie[k] /\ users'[u] = users[u] /\ task'[t] = task[t]
    BY <2>1, <2>2, <2>3, <2>4 DEF Bystander, ActorStands
  <2>6. holder'[CookieRow(k)] = t
    BY <2>1, <2>2, LocksDiffer DEF Bystander
  <2> QED
    BY <2>2, <2>5, <2>6 DEF ActorStands
<1>5. Counted(t)'
  <2>1. Sure(t) \subseteq Sure(t)'
    <3> SUFFICES ASSUME NEW v \in Sure(t) PROVE v \in Sure(t)'
      OBVIOUS
    <3>1. v \in User /\ Exists(v) /\ holder[UserRow(v)] = t
      BY DEF Sure, ActiveOwners, Exists
    <3>2. users'[v] = users[v] /\ task'[t] = task[t] /\ holder'[UserRow(v)] = t
      BY <1>2, <3>1 DEF Bystander
    <3> QED
      BY <3>1, <3>2 DEF Sure, ActiveOwners
  <2>2. Counted(t) /\ task[t].owners \in Nat /\ task'[t].owners = task[t].owners
    BY DEF Sound, Bystander, Types, TaskTypes, TaskType
  <2> QED
    BY <2>1, <2>2, SureGrows
<1>6. UseHeld(t)'
  BY LocksDiffer DEF UseHeld, Usable, Sound, Bystander
<1> QED
  BY <1>1, <1>3, <1>4, <1>5, <1>6 DEF Sound

\* A lock is taken from nobody, and given back by its holder only.
LocksKept(t) ==
    \A s \in Task \ {t} : /\ task'[s] = task[s]
                          /\ \A l \in Lock : holder'[l] = s <=> holder[l] = s

LEMMA TakeKept ==
    ASSUME Types, NEW t \in Task, NEW l \in Lock, Take(t, l),
           NEW next, task' = [task EXCEPT ![t] = next]
    PROVE  LocksKept(t) /\ holder'[l] = t /\ \A m \in Lock : holder[m] = t => holder'[m] = t
  BY NobodyAssumption DEF Types, TaskTypes, Take, Free, LocksKept

LEMMA SameKept ==
    ASSUME Types, NEW t \in Task, UNCHANGED holder, NEW next, task' = [task EXCEPT ![t] = next]
    PROVE  LocksKept(t)
  BY DEF Types, TaskTypes, LocksKept

LEMMA OverKept ==
    ASSUME Types, NEW t \in Task, Over(t)
    PROVE  LocksKept(t) /\ task'[t] = Idle /\ \A l \in Lock : holder'[l] # t
  BY NobodyAssumption DEF Types, TaskTypes, Over, LocksKept

\* While nothing is written everybody else is a bystander.
LEMMA LockStep ==
    ASSUME NEW t \in Task, UNCHANGED Data, LocksKept(t)
    PROVE  (\A s \in Task \ {t} : Bystander(s)) /\ (OwnerRemains => OwnerRemains')
<1>1. UNCHANGED <<users, cookie, invitation>>
  BY DEF Data
<1>2. OwnerRemains => OwnerRemains'
  BY <1>1 DEF OwnerRemains, ActiveOwners, Exists
<1> QED
  BY <1>1, <1>2 DEF LocksKept, Bystander, Exists

\* Whoever is through knows nothing and holds nothing.
LEMMA OverSound ==
    ASSUME Types, Types', NEW t \in Task, Over(t)
    PROVE  Sound(t)'
<1>1. task'[t] = Idle /\ \A l \in Lock : holder'[l] # t
  BY OverKept
<1>2. Cardinality(Sure(t)') \in Nat
  BY SureAreUsers, UsersFinite
<1>3. Counted(t)'
  BY <1>1, <1>2 DEF Counted, Idle
<1>4. UseHeld(t)'
  BY <1>1, LocksDiffer DEF UseHeld, Idle
<1>5. Course(t)' /\ RowsHeld(t)' /\ ActorHeld(t)'
  BY <1>1 DEF Course, RowsHeld, ActorHeld, Idle
<1> QED
  BY <1>3, <1>4, <1>5 DEF Sound

---------------------------------------------------------------------------
\* The steps that only take locks.

\* What every step of a transaction gives.
Carried(t) ==
    Types' /\ Sound(t)' /\ OwnerRemains' /\ \A s \in Task \ {t} : Bystander(s)

Onto(t, next) ==
    /\ Types' /\ task'[t] = next /\ UNCHANGED Data /\ LocksKept(t)
    /\ \A m \in Lock : holder[m] = t => holder'[m] = t

LEMMA Steps ==
    ASSUME Types, NEW t \in Task, NEW next \in TaskType, UNCHANGED Data,
           task' = [task EXCEPT ![t] = next], UNCHANGED holder \/ \E l \in Lock : Take(t, l)
    PROVE  Onto(t, next)
<1>1. UNCHANGED <<users, cookie, invitation>>
  BY DEF Data
<1>2. UserTypes' /\ InvitationTypes'
  BY <1>1 DEF Types, UserTypes, InvitationTypes
<1>3. task' \in [Task -> TaskType] /\ task'[t] = next
  BY DEF Types, TaskTypes
<1>4. CASE UNCHANGED holder
  <2>1. LocksKept(t)
    BY <1>4, SameKept
  <2> QED
    BY <1>2, <1>3, <1>4, <2>1 DEF Onto, Types, TaskTypes
<1>5. CASE \E l \in Lock : Take(t, l)
  <2>1. PICK l \in Lock : Take(t, l)
    BY <1>5
  <2>2. LocksKept(t) /\ \A m \in Lock : holder[m] = t => holder'[m] = t
    BY <2>1, TakeKept
  <2>3. holder' \in [Lock -> Task \cup {Nobody}]
    BY <2>1 DEF Types, TaskTypes, Take
  <2> QED
    BY <1>2, <1>3, <2>2, <2>3 DEF Onto, Types, TaskTypes
<1> QED
  BY <1>4, <1>5

LEMMA Carries ==
    ASSUME ManagementIInv, NEW t \in Task, NEW next, Onto(t, next), Sound(t)'
    PROVE  Carried(t)
<1>1. UNCHANGED Data /\ LocksKept(t) /\ Types'
  BY DEF Onto
<1>2. (\A s \in Task \ {t} : Bystander(s)) /\ (OwnerRemains => OwnerRemains')
  BY <1>1, LockStep
<1> QED
  BY <1>1, <1>2 DEF Carried, ManagementIInv

\* The count stands as long as the transaction is not at the owners.
LEMMA CountStands ==
    ASSUME ManagementIInv, NEW t \in Task, NEW next, Onto(t, next), next.pc # "owners",
           next.owners = task[t].owners, task[t].pc # "owners"
    PROVE  Counted(t)'
<1>1. Sure(t) \subseteq Sure(t)'
  <2> SUFFICES ASSUME NEW v \in Sure(t) PROVE v \in Sure(t)'
    OBVIOUS
  <2>1. v \in User /\ holder[UserRow(v)] = t /\ UserRow(v) \in Lock
    BY LocksDiffer DEF Sure, ActiveOwners
  <2>2. holder'[UserRow(v)] = t /\ task'[t] = next /\ users' = users
    BY <2>1 DEF Onto, Data
  <2> QED
    BY <2>1, <2>2 DEF Sure, ActiveOwners
<1>2. Counted(t) /\ task[t].owners \in Nat
  BY DEF ManagementIInv, Sound, Types, TaskTypes, TaskType
<1>3. task'[t].owners = task[t].owners
  BY DEF Onto
<1> QED
  BY <1>1, <1>2, <1>3, SureGrows

LEMMA NoCount ==
    ASSUME NEW t, task'[t].owners = 0
    PROVE  Counted(t)'
<1>1. Cardinality(Sure(t)') \in Nat
  BY SureAreUsers, UsersFinite
<1> QED
  BY <1>1 DEF Counted

\* Who is not at the commit has no use in hand, and another lock gives it none.
LEMMA NoUse ==
    ASSUME ManagementIInv, NEW t \in Task, task[t].pc # "commit",
           UNCHANGED holder \/ \E l \in Lock \ {InvitationRow} : Take(t, l),
           task'[t].pc = "commit" => task'[t].kind # "disable"
    PROVE  UseHeld(t)'
<1>1. holder[InvitationRow] # t
  BY DEF ManagementIInv, Sound, UseHeld
<1>2. holder'[InvitationRow] # t
  <2>1. holder \in [Lock -> Task \cup {Nobody}] /\ InvitationRow \in Lock
    BY LocksDiffer DEF ManagementIInv, Types, TaskTypes
  <2> QED
    BY <1>1, <2>1 DEF Take
<1> QED
  BY <1>2 DEF UseHeld

LEMMA BeginCarries ==
    ASSUME ManagementIInv, NEW t \in Task, NEW k \in Cookie \cup {Nobody},
           NEW kind \in TaskKind \ {"none"}, NEW permission \in {"none"} \cup Permission,
           NEW target \in 0..MaxUser, Begin(t, kind, k, permission, target),
           k # Nobody => cookie[k].state = "live",
           kind = "guarded" => target \in User /\ Exists(target),
           kind = "create" => permission \in {"ManageUsers", "ManageRoles"},
           kind \in {"register", "bootstrap"} => permission = "none",
           kind \in {"create", "register", "bootstrap", "disable"} => target = 0,
           kind \in {"register", "bootstrap"} => k = Nobody,
           kind = "disable" => k # Nobody
    PROVE  Carried(t)
<1> DEFINE by == Credential(k).by
           next == [pc |-> IF {by, target} \ {0} # {} THEN "advisory" ELSE "business", kind |-> kind,
                    actor |-> k, by |-> by, generation |-> Credential(k).generation,
                    permission |-> permission, target |-> target, todo |-> {by, target} \ {0},
                    owners |-> 0]
<1>1. /\ by \in 0..MaxUser /\ Credential(k).generation \in 0..MaxAccountEpoch
      /\ k # Nobody => by \in User
      /\ k = Nobody => by = 0
  <2>1. CASE k = Nobody
    BY <2>1, ManagementBoundAssumption DEF Credential
  <2>2. CASE k # Nobody
    <3>1. cookie[k] \in CookieType /\ cookie[k].user \in User
      BY <2>2 DEF ManagementIInv, Types, UserTypes
    <3> QED
      BY <2>2, <3>1 DEF Credential, CookieType
  <2> QED
    BY <2>1, <2>2
<1>2. {by, target} \ {0} \in SUBSET User
  BY <1>1 DEF User
<1>3. next \in TaskType
  BY <1>1, <1>2 DEF TaskType, TaskPlace
<1>4. task' = [task EXCEPT ![t] = next] /\ UNCHANGED <<Data, holder>> /\ task[t].pc = "idle"
  BY DEF Begin
<1>5. Onto(t, next)
  <2> HIDE DEF next
  <2> QED
    BY <1>3, <1>4, Steps DEF ManagementIInv
<1>6. task'[t] = next
  BY <1>5 DEF Onto
<1>7. Course(t)'
  <2>1. next.pc \in {"advisory", "business"} /\ next.kind = kind /\ next.actor = k /\ next.by = by
        /\ next.target = target /\ next.owners = 0 /\ next.permission = permission
    OBVIOUS
  <2>4. next.pc = "business" => kind \in {"create", "register", "bootstrap"}
    BY <1>1 DEF TaskKind, User
  <2>2. next.pc = "advisory" => kind \in {"guarded", "create", "disable"} /\ (k = Nobody => kind = "guarded")
    BY <1>1 DEF TaskKind
  <2>3. kind = "guarded" => target \in User /\ Exists(target)'
    BY <1>4 DEF Data, Exists
  <2> HIDE DEF next
  <2> QED
    BY <1>1, <1>6, <2>1, <2>2, <2>3, <2>4 DEF Course
<1>8. RowsHeld(t)' /\ ActorHeld(t)'
  <2>1. next.pc = "business" => Party(t)' = {} /\ k = Nobody
    BY <1>1, <1>6 DEF Party, User
  <2>2. next.pc \in {"advisory", "business"} /\ next.actor = k
    OBVIOUS
  <2> HIDE DEF next
  <2> QED
    BY <1>6, <2>1, <2>2 DEF RowsHeld, ActorHeld
<1>9. Counted(t)'
  BY <1>6, NoCount
<1>10. UseHeld(t)'
  <2>1. task'[t].pc # "commit"
    BY <1>6
  <2> HIDE DEF next
  <2> QED
    BY <1>4, <2>1, NoUse
<1> QED
  <2>1. Sound(t)'
    BY <1>7, <1>8, <1>9, <1>10 DEF Sound
  <2> HIDE DEF next
  <2> QED
    BY <1>5, <2>1, Carries

LEMMA BeginsCarry ==
    ASSUME ManagementIInv, NEW t \in Task,
           \/ \E k \in Cookie \cup {Nobody} :
                 BeginDisable(t, k) \/ BeginCreate(t, k) \/ \E u \in User : BeginGuarded(t, k, u)
           \/ BeginRegister(t) \/ BeginBootstrap(t)
    PROVE  Carried(t)
<1> USE ManagementBoundAssumption
<1>1. ASSUME NEW k \in Cookie \cup {Nobody}, BeginDisable(t, k) PROVE Carried(t)
  <2>1. k # Nobody /\ cookie[k].state = "live"
    BY <1>1 DEF BeginDisable, Present
  <2>2. Begin(t, "disable", k, "ManageSettings", 0) /\ 0 \in 0..MaxUser
    BY <1>1 DEF BeginDisable
  <2> QED
    BY <2>1, <2>2, BeginCarries DEF TaskKind, Permission
<1>2. ASSUME NEW k \in Cookie \cup {Nobody}, BeginCreate(t, k) PROVE Carried(t)
  <2>1. PICK permission \in {"ManageUsers", "ManageRoles"} :
           (k # Nobody => Present(k, permission)) /\ Begin(t, "create", k, permission, 0)
    BY <1>2 DEF BeginCreate
  <2>2. k # Nobody => cookie[k].state = "live"
    BY <2>1 DEF Present
  <2>3. 0 \in 0..MaxUser /\ permission \in {"none"} \cup Permission
    BY DEF Permission
  <2> QED
    BY <2>1, <2>2, <2>3, BeginCarries DEF TaskKind
<1>3. ASSUME NEW k \in Cookie \cup {Nobody}, NEW u \in User, BeginGuarded(t, k, u) PROVE Carried(t)
  <2>1. k # Nobody => cookie[k].state = "live"
    BY <1>3 DEF BeginGuarded, Present
  <2>2. Begin(t, "guarded", k, "ManageUsers", u) /\ Exists(u) /\ u \in 0..MaxUser
    BY <1>3 DEF BeginGuarded, User
  <2> QED
    BY <2>1, <2>2, BeginCarries DEF TaskKind, Permission
<1>4. ASSUME BeginRegister(t) PROVE Carried(t)
  <2>1. Begin(t, "register", Nobody, "none", 0) /\ 0 \in 0..MaxUser
    BY <1>4 DEF BeginRegister
  <2> QED
    BY <2>1, BeginCarries DEF TaskKind
<1>5. ASSUME BeginBootstrap(t) PROVE Carried(t)
  <2>1. Begin(t, "bootstrap", Nobody, "none", 0) /\ 0 \in 0..MaxUser
    BY <1>5 DEF BeginBootstrap
  <2> QED
    BY <2>1, BeginCarries DEF TaskKind
<1> QED
  BY <1>1, <1>2, <1>3, <1>4, <1>5

\* A lock that does not exist is not taken.
LEMMA TakesOne ==
    ASSUME ManagementIInv, NEW t \in Task, NEW l, Take(t, l)
    PROVE  /\ UNCHANGED holder \/ \E m \in Lock : Take(t, m)
           /\ l # InvitationRow => UNCHANGED holder \/ \E m \in Lock \ {InvitationRow} : Take(t, m)
<1>1. CASE l \in Lock
  BY <1>1
<1>2. CASE l \notin Lock
  BY <1>2 DEF ManagementIInv, Types, TaskTypes, Take
<1> QED
  BY <1>1, <1>2

LEMMA OverCarries ==
    ASSUME ManagementIInv, NEW t \in Task, Over(t), UNCHANGED Data
    PROVE  Carried(t)
<1>1. Types'
  <2>1. UserTypes' /\ InvitationTypes'
    BY DEF ManagementIInv, Types, UserTypes, InvitationTypes, Data
  <2>2. Idle \in TaskType
    BY ManagementBoundAssumption DEF Idle, TaskType, TaskPlace, TaskKind
  <2>3. TaskTypes'
    BY <2>2 DEF ManagementIInv, Types, TaskTypes, Over
  <2> QED
    BY <2>1, <2>3 DEF Types
<1>2. LocksKept(t)
  BY OverKept DEF ManagementIInv
<1>3. (\A s \in Task \ {t} : Bystander(s)) /\ OwnerRemains'
  BY <1>2, LockStep DEF ManagementIInv
<1>4. Sound(t)'
  BY <1>1, OverSound DEF ManagementIInv
<1> QED
  BY <1>1, <1>3, <1>4 DEF Carried

LEMMA TakeAdvisoryCarries ==
    ASSUME ManagementIInv, NEW t \in Task, TakeAdvisory(t)
    PROVE  Carried(t)
<1> DEFINE u == Lowest(task[t].todo)
           rest == task[t].todo \ {u}
           next == AfterAdvisory(t, rest)
<1>1. /\ task[t].pc = "advisory" /\ Take(t, Advisory(u)) /\ UNCHANGED Data
      /\ task' = [task EXCEPT ![t] = next]
  BY DEF TakeAdvisory
<1>2. task[t] \in TaskType /\ Course(t)
  BY DEF ManagementIInv, Types, TaskTypes, Sound
<1>3. Party(t) \in SUBSET User /\ ActiveOwners \in SUBSET User /\ rest \in SUBSET User
  BY <1>2 DEF TaskType, Party, User, ActiveOwners
<1>4. /\ next \in TaskType
      /\ next.kind = task[t].kind /\ next.actor = task[t].actor /\ next.by = task[t].by
      /\ next.target = task[t].target /\ next.owners = task[t].owners
      /\ next.permission = task[t].permission
      /\ next.pc \in {"advisory", "owners", "rows"}
      /\ next.pc = "owners" => next.todo # {}
      /\ next.pc = "rows" => next.todo = Party(t)
  BY <1>1, <1>2, <1>3 DEF AfterAdvisory, TaskType, TaskPlace, Party
<1> HIDE DEF next, u, rest
<1>5. Advisory(u) # InvitationRow
  BY DEF Advisory, InvitationRow
<1>6. UNCHANGED holder \/ \E m \in Lock \ {InvitationRow} : Take(t, m)
  BY <1>1, <1>5, TakesOne
<1>7. Onto(t, next)
  BY <1>1, <1>4, <1>6, Steps DEF ManagementIInv
<1>8. task'[t] = next /\ \A v \in User : Exists(v)' = Exists(v)
  BY <1>7 DEF Onto, Data, Exists
<1>9. Course(t)'
  BY <1>1, <1>2, <1>4, <1>8 DEF Course
<1>10. RowsHeld(t)' /\ ActorHeld(t)'
  <2>1. Party(t)' = Party(t)
    BY <1>4, <1>8 DEF Party
  <2> QED
    BY <1>4, <1>8, <2>1 DEF RowsHeld, ActorHeld
<1>11. Counted(t)'
  BY <1>1, <1>2, <1>4, <1>8, NoCount DEF Course
<1>12. UseHeld(t)'
  BY <1>1, <1>4, <1>6, <1>8, NoUse
<1> QED
  BY <1>7, <1>9, <1>10, <1>11, <1>12, Carries DEF Sound

\* The owners: one more locked is at most one more counted.
LEMMA TakeOwnerCarries ==
    ASSUME ManagementIInv, NEW t \in Task, TakeOwner(t)
    PROVE  Carried(t)
<1> DEFINE u == Lowest(task[t].todo)
           rest == task[t].todo \ {u}
           counted == task[t].owners + IF u \in ActiveOwners THEN 1 ELSE 0
           next == [task[t] EXCEPT !.owners = counted,
                                   !.todo = IF rest # {} THEN rest ELSE Party(t),
                                   !.pc = IF rest # {} THEN "owners" ELSE "rows"]
<1>1. task[t].pc = "owners" /\ Take(t, UserRow(u)) /\ UNCHANGED Data
  BY DEF TakeOwner
<1>2. task[t] \in TaskType /\ Course(t) /\ Counted(t)
  BY DEF ManagementIInv, Types, TaskTypes, Sound
<1>3. task' = [task EXCEPT ![t] = next]
  BY <1>2 DEF TakeOwner, Party, ManagementIInv, Types, TaskTypes, TaskType
<1>4. u \in task[t].todo /\ u \in User
  <2>1. task[t].todo \in SUBSET User /\ task[t].todo # {}
    BY <1>1, <1>2 DEF TaskType, Course
  <2> QED
    BY <2>1, LowestIn DEF User
<1>5. Party(t) \in SUBSET User /\ rest \in SUBSET User /\ counted \in Nat
  BY <1>2 DEF TaskType, Party, User
<1>6. /\ next \in TaskType
      /\ next.kind = task[t].kind /\ next.actor = task[t].actor /\ next.by = task[t].by
      /\ next.target = task[t].target /\ next.owners = counted
      /\ next.permission = task[t].permission
      /\ next.pc \in {"owners", "rows"}
      /\ next.pc = "owners" => next.todo # {} /\ next.todo = rest
      /\ next.pc = "rows" => next.todo = Party(t)
  BY <1>2, <1>5 DEF TaskType, TaskPlace
<1> HIDE DEF next
<1>7. UserRow(u) # InvitationRow /\ UserRow(u) \in Lock
  BY <1>4, LocksDiffer DEF UserRow, InvitationRow
<1>8. Onto(t, next) /\ holder'[UserRow(u)] = t
  <2>1. Onto(t, next)
    BY <1>1, <1>3, <1>6, <1>7, Steps DEF ManagementIInv
  <2>2. holder'[UserRow(u)] = t
    BY <1>1, <1>3, <1>7, TakeKept DEF ManagementIInv
  <2> QED
    BY <2>1, <2>2
<1>9. task'[t] = next /\ users' = users
  BY <1>8 DEF Onto, Data
<1>10. Course(t)'
  BY <1>1, <1>2, <1>6, <1>9 DEF Course, Exists
<1>11. RowsHeld(t)' /\ ActorHeld(t)'
  <2>1. Party(t)' = Party(t)
    BY <1>6, <1>9 DEF Party
  <2> QED
    BY <1>6, <1>9, <2>1 DEF RowsHeld, ActorHeld
<1>12. Counted(t)'
  <2> DEFINE more == Sure(t) \cup (IF u \in ActiveOwners THEN {u} ELSE {})
  <2>1. u \notin Sure(t)
    BY <1>1, <1>4 DEF Sure
  <2>2. IsFiniteSet(Sure(t)) /\ Cardinality(Sure(t)) \in Nat
    BY SureAreUsers, UsersFinite
  <2>3. IsFiniteSet(more) /\ Cardinality(more) = Cardinality(Sure(t)) + IF u \in ActiveOwners THEN 1 ELSE 0
    <3>1. CASE u \in ActiveOwners
      <4>1. more = Sure(t) \cup {u}
        BY <3>1
      <4>2. IsFiniteSet(Sure(t) \cup {u}) /\ Cardinality(Sure(t) \cup {u}) = Cardinality(Sure(t)) + 1
        BY <2>1, <2>2, FS_AddElement
      <4> QED
        BY <3>1, <4>1, <4>2
    <3>2. CASE u \notin ActiveOwners
      BY <2>2, <3>2
    <3> QED
      BY <3>1, <3>2
  <2>4. more \subseteq Sure(t)'
    <3> SUFFICES ASSUME NEW v \in more PROVE v \in Sure(t)'
      OBVIOUS
    <3>1. v \in ActiveOwners /\ v \in User /\ holder'[UserRow(v)] = t
      <4>1. CASE v \in Sure(t)
        <5>1. v \in ActiveOwners /\ v \in User /\ holder[UserRow(v)] = t /\ UserRow(v) \in Lock
          BY <4>1, LocksDiffer DEF Sure, ActiveOwners
        <5> QED
          BY <1>8, <5>1 DEF Onto
      <4>2. CASE v = u /\ u \in ActiveOwners
        BY <1>4, <1>8, <4>2
      <4> QED
        BY <4>1, <4>2
    <3>2. next.pc = "owners" => v \notin next.todo
      BY <1>1, <1>6 DEF Sure
    <3> QED
      BY <1>9, <3>1, <3>2 DEF Sure, ActiveOwners
  <2>5. Sure(t)' \in SUBSET User
    BY SureAreUsers
  <2>6. Cardinality(more) <= Cardinality(Sure(t)') /\ Cardinality(Sure(t)') \in Nat
    <3> HIDE DEF more
    <3> QED
      BY <2>4, <2>5, UsersFinite, FS_Subset
  <2>7. task[t].owners \in Nat
    BY <1>2 DEF TaskType
  <2> HIDE DEF more
  <2> QED
    BY <1>2, <1>6, <1>9, <2>2, <2>3, <2>6, <2>7 DEF Counted
<1>13. UseHeld(t)'
  BY <1>1, <1>6, <1>7, <1>9, NoUse
<1> QED
  BY <1>8, <1>10, <1>11, <1>12, <1>13, Carries DEF Sound

LEMMA TakeRowCarries ==
    ASSUME ManagementIInv, NEW t \in Task, TakeRow(t)
    PROVE  Carried(t)
<1> DEFINE u == Lowest(task[t].todo)
           rest == task[t].todo \ {u}
           next == [task[t] EXCEPT !.todo = rest,
                                   !.pc = CASE rest # {} -> "rows"
                                            [] rest = {} /\ task[t].actor = Nobody -> "commit"
                                            [] rest = {} /\ task[t].actor # Nobody -> "cookie"]
<1>1. task[t].pc = "rows" /\ Take(t, UserRow(u)) /\ UNCHANGED Data
  BY DEF TakeRow
<1>2. task[t] \in TaskType /\ Course(t) /\ RowsHeld(t)
  BY DEF ManagementIInv, Types, TaskTypes, Sound
<1>3. task' = [task EXCEPT ![t] = next]
  BY <1>2 DEF TakeRow, ManagementIInv, Types, TaskTypes, TaskType
<1>4. Party(t) \in SUBSET User /\ rest \in SUBSET User
  BY <1>2 DEF TaskType, Party, User
<1>5. /\ next \in TaskType
      /\ next.kind = task[t].kind /\ next.actor = task[t].actor /\ next.by = task[t].by
      /\ next.target = task[t].target /\ next.owners = task[t].owners
      /\ next.permission = task[t].permission
      /\ \/ next.pc = "rows" /\ next.todo = rest
         \/ next.pc = "commit" /\ rest = {} /\ task[t].actor = Nobody
         \/ next.pc = "cookie" /\ rest = {} /\ task[t].actor # Nobody
  BY <1>2, <1>4 DEF TaskType, TaskPlace
<1> HIDE DEF next
<1>6. UserRow(u) # InvitationRow
  BY DEF UserRow, InvitationRow
<1>7. UNCHANGED holder \/ \E m \in Lock \ {InvitationRow} : Take(t, m)
  BY <1>1, <1>6, TakesOne
<1>8. Onto(t, next)
  BY <1>1, <1>3, <1>5, <1>7, Steps DEF ManagementIInv
<1>9. task'[t] = next /\ users' = users
  BY <1>8 DEF Onto, Data
<1>10. \A v \in Party(t) \ rest : holder'[UserRow(v)] = t
  <2> SUFFICES ASSUME NEW v \in Party(t) \ rest PROVE holder'[UserRow(v)] = t
    OBVIOUS
  <2>1. v \in User /\ UserRow(v) \in Lock
    BY <1>4, LocksDiffer
  <2>2. CASE v = u
    BY <1>1, <1>3, <2>1, <2>2, TakeKept DEF ManagementIInv
  <2>3. CASE v # u
    <3>1. holder[UserRow(v)] = t
      BY <1>1, <1>2, <2>3 DEF RowsHeld
    <3> QED
      BY <1>8, <2>1, <3>1 DEF Onto
  <2> QED
    BY <2>2, <2>3
<1>11. Course(t)'
  BY <1>1, <1>2, <1>5, <1>9 DEF Course, Exists
<1>12. RowsHeld(t)' /\ ActorHeld(t)'
  <2>1. Party(t)' = Party(t)
    BY <1>5, <1>9 DEF Party
  <2> QED
    BY <1>5, <1>9, <1>10, <2>1 DEF RowsHeld, ActorHeld
<1>13. Counted(t)'
  <2>1. next.pc # "owners" /\ next.owners = task[t].owners
    BY <1>5
  <2> QED
    BY <1>1, <1>8, <2>1, CountStands
<1>14. UseHeld(t)'
  <2>1. task'[t].pc = "commit" => task'[t].kind # "disable"
    BY <1>1, <1>2, <1>5, <1>9 DEF Course
  <2> QED
    BY <1>1, <1>7, <2>1, NoUse
<1> QED
  BY <1>8, <1>11, <1>12, <1>13, <1>14, Carries DEF Sound

LEMMA TakeCookieCarries ==
    ASSUME ManagementIInv, NEW t \in Task, TakeCookie(t)
    PROVE  Carried(t)
<1>1. task[t].pc = "cookie" /\ UNCHANGED Data
  BY DEF TakeCookie
<1>2. CASE ~ActorStands(t)
  <2>1. Over(t)
    BY <1>2 DEF TakeCookie
  <2> QED
    BY <1>1, <2>1, OverCarries
<1>3. CASE ActorStands(t)
  <2> DEFINE k == task[t].actor
             next == [task[t] EXCEPT !.pc = Onward(t)]
  <2>1. Take(t, CookieRow(k)) /\ task' = [task EXCEPT ![t] = next]
    BY <1>3 DEF TakeCookie, To, ManagementIInv, Types, TaskTypes, TaskType
  <2>2. task[t] \in TaskType /\ Course(t) /\ RowsHeld(t)
    BY DEF ManagementIInv, Types, TaskTypes, Sound
  <2>3. task[t].kind \in {"guarded", "create", "disable"}
    BY <1>1, <2>2 DEF Course
  <2>4. /\ next \in TaskType /\ next = [task[t] EXCEPT !.pc = next.pc]
        /\ next.kind = task[t].kind /\ next.actor = k /\ next.by = task[t].by
        /\ next.target = task[t].target /\ next.owners = task[t].owners
        /\ next.generation = task[t].generation /\ next.permission = task[t].permission
        /\ \/ next.pc = "commit" /\ task[t].kind = "guarded"
           \/ next.pc = "business" /\ task[t].kind = "create"
           \/ next.pc = "invitation" /\ task[t].kind = "disable"
    BY <2>2, <2>3 DEF TaskType, TaskPlace, Onward
  <2> HIDE DEF next
  <2>5. CookieRow(k) # InvitationRow
    BY DEF CookieRow, InvitationRow
  <2>6. UNCHANGED holder \/ \E m \in Lock \ {InvitationRow} : Take(t, m)
    BY <2>1, <2>5, TakesOne
  <2>7. Onto(t, next)
    BY <1>1, <2>1, <2>4, <2>6, Steps DEF ManagementIInv
  <2>8. task'[t] = next /\ users' = users /\ cookie' = cookie
    BY <2>7 DEF Onto, Data
  <2>9. Course(t)'
    BY <1>1, <2>2, <2>4, <2>8 DEF Course, Exists
  <2>10. RowsHeld(t)'
    <3>1. Party(t)' = Party(t) /\ Party(t) \in SUBSET User
      BY <2>2, <2>4, <2>8 DEF Party, TaskType, User
    <3>2. \A v \in Party(t) : holder[UserRow(v)] = t
      BY <1>1, <2>2 DEF RowsHeld
    <3>3. \A v \in Party(t) : holder'[UserRow(v)] = t
      BY <2>7, <3>1, <3>2, LocksDiffer DEF Onto
    <3> QED
      BY <2>4, <2>8, <3>1, <3>3 DEF RowsHeld
  <2>11. ActorHeld(t)'
    <3> SUFFICES ASSUME k # Nobody PROVE holder'[CookieRow(k)] = t /\ ActorStands(t)'
      BY <2>4, <2>8 DEF ActorHeld
    <3>1. CookieRow(k) \in Lock
      BY <2>2, LocksDiffer DEF TaskType
    <3>2. holder'[CookieRow(k)] = t
      BY <2>1, <3>1, TakeKept DEF ManagementIInv
    <3>3. ActorStands(t)'
      BY <1>3, <2>4, <2>8 DEF ActorStands
    <3> QED
      BY <3>2, <3>3
  <2>12. Counted(t)'
    <3>1. next.pc # "owners"
      BY <2>4
    <3> QED
      BY <1>1, <2>4, <2>7, <3>1, CountStands
  <2>13. UseHeld(t)'
    BY <1>1, <2>4, <2>6, <2>8, NoUse
  <2> QED
    BY <2>7, <2>9, <2>10, <2>11, <2>12, <2>13, Carries DEF Sound
<1> QED
  BY <1>2, <1>3

\* From one lock of the business to the next: actor and rows stay in hand.
LEMMA Further ==
    ASSUME ManagementIInv, NEW t \in Task, task[t].pc \in {"business", "invitation"},
           NEW place \in {"invitation", "commit"}, NEW l \in Lock, Take(t, l),
           To(t, place), UNCHANGED Data,
           task[t].kind \in {"create", "register"} => Somebody,
           UseHeld(t)'
    PROVE  Carried(t)
<1> DEFINE next == [task[t] EXCEPT !.pc = place]
<1>1. task[t] \in TaskType /\ Course(t) /\ RowsHeld(t) /\ ActorHeld(t)
  BY DEF ManagementIInv, Types, TaskTypes, Sound
<1>2. task' = [task EXCEPT ![t] = next]
  BY DEF To, ManagementIInv, Types, TaskTypes, TaskType
<1>3. /\ next \in TaskType /\ next.pc = place
      /\ next.kind = task[t].kind /\ next.actor = task[t].actor /\ next.by = task[t].by
      /\ next.target = task[t].target /\ next.owners = task[t].owners
      /\ next.generation = task[t].generation /\ next.permission = task[t].permission
  BY <1>1 DEF TaskType, TaskPlace
<1> HIDE DEF next
<1>4. Onto(t, next)
  BY <1>2, <1>3, Steps DEF ManagementIInv
<1>5. task'[t] = next /\ users' = users /\ cookie' = cookie
  BY <1>4 DEF Onto, Data
<1>6. Course(t)'
  BY <1>1, <1>3, <1>5 DEF Course, Exists, Somebody
<1>7. RowsHeld(t)'
  <2>1. Party(t)' = Party(t) /\ Party(t) \in SUBSET User
    BY <1>1, <1>3, <1>5 DEF Party, TaskType, User
  <2>2. \A v \in Party(t) : holder[UserRow(v)] = t
    BY <1>1 DEF RowsHeld
  <2>3. \A v \in Party(t) : holder'[UserRow(v)] = t
    BY <1>4, <2>1, <2>2, LocksDiffer DEF Onto
  <2> QED
    BY <1>3, <1>5, <2>1, <2>3 DEF RowsHeld
<1>8. ActorHeld(t)'
  <2> SUFFICES ASSUME task[t].actor # Nobody
               PROVE  holder'[CookieRow(task[t].actor)] = t /\ ActorStands(t)'
    BY <1>3, <1>5 DEF ActorHeld
  <2>1. holder[CookieRow(task[t].actor)] = t /\ ActorStands(t) /\ CookieRow(task[t].actor) \in Lock
    BY <1>1, LocksDiffer DEF ActorHeld, TaskType
  <2>2. holder'[CookieRow(task[t].actor)] = t
    BY <1>4, <2>1 DEF Onto
  <2>3. ActorStands(t)'
    BY <1>3, <1>5, <2>1 DEF ActorStands
  <2> QED
    BY <2>2, <2>3
<1>9. Counted(t)'
  <2>1. next.pc # "owners"
    BY <1>3
  <2> QED
    BY <1>3, <1>4, <2>1, CountStands
<1> QED
  BY <1>4, <1>6, <1>7, <1>8, <1>9, Carries DEF Sound

LEMMA TakeBusinessCarries ==
    ASSUME ManagementIInv, NEW t \in Task, TakeBusiness(t)
    PROVE  Carried(t)
<1>1. task[t].pc = "business" /\ UNCHANGED Data
  BY DEF TakeBusiness
<1>2. CASE Over(t)
  BY <1>1, <1>2, OverCarries
<1>3. CASE ~Over(t)
  <2>1. PICK place \in {"invitation", "commit"} : To(t, place) /\ Take(t, OwnerBootstrap)
    BY <1>3 DEF TakeBusiness
  <2>2. task[t].kind \in {"create", "register"} => Somebody
    BY <1>3 DEF TakeBusiness, Somebody, Exists
  <2>3. OwnerBootstrap \in Lock \ {InvitationRow}
    BY LocksDiffer DEF OwnerBootstrap, InvitationRow
  <2>4. UseHeld(t)'
    <3>1. task'[t].kind = task[t].kind
      BY <2>1 DEF To, ManagementIInv, Types, TaskTypes, TaskType
    <3>2. task[t].kind # "disable"
      BY <1>1 DEF ManagementIInv, Sound, Course
    <3> QED
      BY <1>1, <2>1, <2>3, <3>1, <3>2, NoUse
  <2> QED
    BY <1>1, <2>1, <2>2, <2>3, <2>4, Further
<1> QED
  BY <1>2, <1>3

LEMMA TakeInvitationCarries ==
    ASSUME ManagementIInv, NEW t \in Task, TakeInvitation(t)
    PROVE  Carried(t)
<1>1. task[t].pc = "invitation" /\ UNCHANGED Data
  BY DEF TakeInvitation
<1>2. CASE Over(t)
  BY <1>1, <1>2, OverCarries
<1>3. CASE ~Over(t)
  <2>1. Take(t, InvitationRow) /\ To(t, "commit") /\ (task[t].kind = "disable" \/ Usable)
    BY <1>3 DEF TakeInvitation
  <2>2. task[t].kind \in {"create", "register"} => Somebody
    BY <1>1 DEF ManagementIInv, Sound, Course
  <2>3. UseHeld(t)'
    <3>1. task'[t] = [task[t] EXCEPT !.pc = "commit"] /\ task[t] \in TaskType
      BY <2>1 DEF To, ManagementIInv, Types, TaskTypes, TaskType
    <3>2. invitation' = invitation
      BY <1>1 DEF Data
    <3>3. holder'[InvitationRow] = t
      BY <2>1, LocksDiffer DEF ManagementIInv, Types, TaskTypes, Take
    <3> QED
      BY <2>1, <3>1, <3>2, <3>3 DEF UseHeld, Usable, TaskType
  <2> QED
    BY <1>1, <2>1, <2>2, <2>3, LocksDiffer, Further
<1> QED
  BY <1>2, <1>3

LEMMA RollbackCarries ==
    ASSUME ManagementIInv, NEW t \in Task, Rollback(t)
    PROVE  Carried(t)
  BY OverCarries DEF Rollback

---------------------------------------------------------------------------
\* The writes.

\* What a write of the row of u leaves to everybody else: the other rows, and every
\* cookie somebody else has locked.
Rewrites(u, t) ==
    /\ \A v \in User \ {u} : users'[v] = users[v]
    /\ \/ UNCHANGED cookie
       \/ RevokeAllOf(u) /\ Unlocked(t, CookiesOf(u))

LEMMA RevokedTypes ==
    ASSUME Types, NEW u, RevokeAllOf(u)
    PROVE  /\ cookie' \in [Cookie -> CookieType]
           /\ \A k \in Cookie : cookie'[k].state = "live" => cookie'[k].user \in User
           /\ \A k \in Cookie \ CookiesOf(u) : cookie'[k] = cookie[k]
<1>1. cookie \in [Cookie -> CookieType] /\ \A k \in Cookie : cookie[k].state = "live" => cookie[k].user \in User
  BY DEF Types, UserTypes
<1>2. ASSUME NEW k \in Cookie
      PROVE  /\ cookie'[k] \in CookieType
             /\ cookie'[k].state = "live" => cookie'[k].user \in User
             /\ k \notin CookiesOf(u) => cookie'[k] = cookie[k]
  <2>1. CASE k \in CookiesOf(u)
    <3>1. cookie'[k] = [cookie[k] EXCEPT !.state = "revoked"]
      BY <2>1 DEF RevokeAllOf
    <3> QED
      BY <1>1, <2>1, <3>1 DEF CookieType
  <2>2. CASE k \notin CookiesOf(u)
    <3>1. cookie'[k] = cookie[k]
      BY <2>2 DEF RevokeAllOf
    <3> QED
      BY <1>1, <2>2, <3>1
  <2> QED
    BY <2>1, <2>2
<1>3. cookie' \in [Cookie -> CookieType]
  BY <1>2 DEF RevokeAllOf
<1> QED
  BY <1>2, <1>3

LEMMA GuardedWrite ==
    ASSUME ManagementIInv, NEW t \in Task, task[t].pc = "commit", task[t].kind = "guarded",
           Over(t), Rewrites(task[t].target, t), UNCHANGED invitation,
           users' \in [User -> UserType], users'[task[t].target].role # "none",
           \/ users'[task[t].target].role = "owner" /\ users'[task[t].target].active
           \/ ~Last(t)
    PROVE  Carried(t)
<1> DEFINE u == task[t].target
<1>1. u \in User /\ Exists(u) /\ holder[UserRow(u)] = t
  <2>1. u \in User /\ Exists(u) /\ RowsHeld(t)
    BY DEF ManagementIInv, Sound, Course
  <2>2. u \in Party(t)
    BY <2>1 DEF Party, User
  <2> QED
    BY <2>1, <2>2 DEF RowsHeld
<1>2. Types'
  <2>1. UserTypes'
    <3>1. CASE UNCHANGED cookie
      BY <3>1 DEF UserTypes, ManagementIInv, Types
    <3>2. CASE RevokeAllOf(u)
      BY <3>2, RevokedTypes DEF UserTypes, ManagementIInv
    <3> QED
      BY <3>1, <3>2 DEF Rewrites
  <2>2. Idle \in TaskType
    BY ManagementBoundAssumption DEF Idle, TaskType, TaskPlace, TaskKind
  <2>3. TaskTypes'
    BY <2>2 DEF ManagementIInv, Types, TaskTypes, Over
  <2>4. InvitationTypes'
    BY DEF ManagementIInv, Types, InvitationTypes
  <2> QED
    BY <2>1, <2>3, <2>4 DEF Types
<1>3. Sound(t)'
  BY <1>2, OverSound DEF ManagementIInv
<1>4. ASSUME NEW s \in Task \ {t} PROVE Bystander(s)
  <2>1. task'[s] = task[s] /\ \A l \in Lock : holder'[l] = s <=> holder[l] = s
    BY OverKept DEF ManagementIInv, LocksKept
  <2>2. \A v \in User : Exists(v) => Exists(v)'
    BY <1>1 DEF Rewrites, Exists
  <2>3. \A v \in User : holder[UserRow(v)] = s /\ Exists(v) => users'[v] = users[v]
    BY <1>1 DEF Rewrites
  <2>4. ASSUME NEW k \in Cookie, holder[CookieRow(k)] = s, cookie[k].state = "live"
        PROVE  cookie'[k] = cookie[k]
    <3>1. CASE UNCHANGED cookie
      BY <3>1
    <3>2. CASE RevokeAllOf(u) /\ Unlocked(t, CookiesOf(u))
      <4>1. k \notin CookiesOf(u)
        BY <2>4, <3>2, NobodyAssumption DEF Unlocked, Free
      <4> QED
        BY <3>2, <4>1, RevokedTypes DEF ManagementIInv
    <3> QED
      BY <3>1, <3>2 DEF Rewrites
  <2> QED
    BY <2>1, <2>2, <2>3, <2>4 DEF Bystander
<1>5. OwnerRemains'
  <2>1. ActiveOwners # {}
    BY <1>1 DEF ManagementIInv, OwnerRemains
  <2>2. CASE users'[u].role = "owner" /\ users'[u].active
    BY <1>1, <2>2 DEF OwnerRemains, ActiveOwners
  <2>3. CASE ~Last(t)
    <3>1. PICK w \in ActiveOwners : w # u
      <4>1. CASE u \notin ActiveOwners
        BY <2>1, <4>1
      <4>2. CASE u \in ActiveOwners
        <5>1. task[t].owners \in Nat /\ ~(task[t].owners <= 1)
          BY <2>3, <4>2 DEF Last, ActiveOwners, ManagementIInv, Types, TaskTypes, TaskType
        <5>2. IsFiniteSet(Sure(t)) /\ Cardinality(Sure(t)) \in Nat
          BY SureAreUsers, UsersFinite
        <5>3. task[t].owners <= Cardinality(Sure(t))
          BY DEF ManagementIInv, Sound, Counted
        <5>4. ~(Sure(t) \subseteq {u})
          <6> SUFFICES ASSUME Sure(t) \subseteq {u} PROVE FALSE
            OBVIOUS
          <6>1. IsFiniteSet({u}) /\ Cardinality({u}) = 1
            BY FS_Singleton
          <6>2. Cardinality(Sure(t)) <= 1
            BY <6>1, FS_Subset
          <6> QED
            BY <5>1, <5>2, <5>3, <6>2
        <5> QED
          BY <5>4 DEF Sure
      <4> QED
        BY <4>1, <4>2
    <3>2. users'[w] = users[w] /\ w \in User
      BY <3>1 DEF Rewrites, ActiveOwners
    <3> QED
      BY <3>1, <3>2 DEF OwnerRemains, ActiveOwners
  <2> QED
    BY <2>2, <2>3
<1> QED
  BY <1>2, <1>3, <1>4, <1>5 DEF Carried

LEMMA CommitRoleCarries ==
    ASSUME ManagementIInv, NEW t \in Task, NEW becomes \in {"user", "admin", "owner"},
           CommitRole(t, becomes)
    PROVE  Carried(t)
<1> DEFINE u == task[t].target
           allowed == /\ MayTouch(t, Privileged(users[u].role) \/ Privileged(becomes))
                      /\ Last(t) => becomes = "owner"
<1>1. /\ task[t].pc = "commit" /\ task[t].kind = "guarded" /\ Over(t) /\ UNCHANGED invitation
      /\ u \in User /\ Exists(u) /\ users \in [User -> UserType]
  BY DEF CommitRole, ManagementIInv, Types, UserTypes, Sound, Course
<1>2. CASE allowed /\ becomes # users[u].role
  <2>1. /\ users[u].generation < MaxAccountEpoch /\ Unlocked(t, CookiesOf(u)) /\ RevokeAllOf(u)
        /\ users' = [users EXCEPT ![u].role = becomes, ![u].generation = @ + 1]
    BY <1>2 DEF CommitRole
  <2>2. users'[u] = [users[u] EXCEPT !.role = becomes, !.generation = @ + 1]
    BY <1>1, <2>1 DEF UserType
  <2>3. users'[u] \in UserType /\ users'[u].role = becomes /\ users'[u].active = users[u].active
    BY <1>1, <2>1, <2>2, ManagementBoundAssumption DEF UserType, Standing
  <2>4. users' \in [User -> UserType] /\ Rewrites(u, t)
    BY <1>1, <2>1, <2>3 DEF Rewrites
  <2>5. (users'[u].role = "owner" /\ users'[u].active) \/ ~Last(t)
    BY <1>2, <2>3 DEF Last
  <2> QED
    BY <1>1, <2>3, <2>4, <2>5, GuardedWrite
<1>3. CASE ~(allowed /\ becomes # users[u].role)
  <2>1. UNCHANGED <<users, cookie>>
    BY <1>3 DEF CommitRole
  <2>2. UNCHANGED Data
    BY <1>1, <2>1 DEF Data
  <2> QED
    BY <1>1, <2>2, OverCarries
<1> QED
  BY <1>2, <1>3

LEMMA CommitStatusCarries ==
    ASSUME ManagementIInv, NEW t \in Task, CommitStatus(t)
    PROVE  Carried(t)
<1> DEFINE u == task[t].target
<1>1. /\ task[t].pc = "commit" /\ task[t].kind = "guarded" /\ Over(t) /\ UNCHANGED invitation
      /\ u \in User /\ Exists(u) /\ users \in [User -> UserType]
  BY DEF CommitStatus, ManagementIInv, Types, UserTypes, Sound, Course
<1>2. CASE ~Last(t) /\ Disable(t)
  <2>1. /\ users[u].generation < MaxAccountEpoch /\ Unlocked(t, CookiesOf(u)) /\ RevokeAllOf(u)
        /\ users' = [users EXCEPT ![u].active = FALSE, ![u].generation = @ + 1]
    BY <1>2 DEF Disable
  <2>2. users'[u] = [users[u] EXCEPT !.active = FALSE, !.generation = @ + 1]
    BY <1>1, <2>1 DEF UserType
  <2>3. users'[u] \in UserType /\ users'[u].role # "none"
    BY <1>1, <2>1, <2>2, ManagementBoundAssumption DEF UserType, Exists
  <2>4. users' \in [User -> UserType] /\ Rewrites(u, t)
    BY <1>1, <2>1, <2>3 DEF Rewrites
  <2> QED
    BY <1>1, <1>2, <2>3, <2>4, GuardedWrite
<1>3. CASE Enable(t)
  <2>1. users' = [users EXCEPT ![u].active = TRUE] /\ UNCHANGED cookie
    BY <1>3 DEF Enable
  <2>2. users'[u] = [users[u] EXCEPT !.active = TRUE]
    BY <1>1, <2>1
  <2>3. users'[u] \in UserType /\ users'[u].role = users[u].role /\ users'[u].active
    BY <1>1, <2>2 DEF UserType
  <2>4. users' \in [User -> UserType] /\ Rewrites(u, t)
    BY <1>1, <2>1, <2>3 DEF Rewrites
  <2>5. (users'[u].role = "owner" /\ users'[u].active) \/ ~Last(t)
    BY <2>3 DEF Last
  <2> QED
    BY <1>1, <2>3, <2>4, <2>5, GuardedWrite DEF Exists
<1>4. CASE UNCHANGED <<users, cookie>>
  <2>1. UNCHANGED Data
    BY <1>1, <1>4 DEF Data
  <2> QED
    BY <1>1, <2>1, OverCarries
<1> QED
  BY <1>2, <1>3, <1>4 DEF CommitStatus

LEMMA CommitInsertCarries ==
    ASSUME ManagementIInv, NEW t \in Task, CommitInsert(t)
    PROVE  Carried(t)
<1> DEFINE vacant == {v \in User : ~Exists(v)}
           u == Lowest(vacant)
<1>1. /\ task[t].pc = "commit" /\ task[t].kind \in {"create", "register", "bootstrap"}
      /\ Over(t) /\ UNCHANGED cookie
  BY DEF CommitInsert
<1>2. u \in User /\ ~Exists(u)
  <2>1. vacant \in SUBSET Nat /\ vacant # {}
    BY DEF CommitInsert, User
  <2> QED
    BY <2>1, LowestIn
<1>3. PICK new \in Inserted(t) : users' = [users EXCEPT ![u].role = new[1], ![u].active = new[2]]
  BY DEF CommitInsert
<1>4. Course(t) /\ UseHeld(t) /\ Types
  BY DEF ManagementIInv, Sound
<1>5. /\ new[1] \in Standing \ {"none"} /\ new[2] \in BOOLEAN
      /\ task[t].kind = "bootstrap" => new[1] = "owner" /\ new[2]
  <2>1. CASE task[t].kind = "bootstrap"
    BY <1>4, <2>1 DEF Course, Inserted, Standing
  <2>2. CASE task[t].kind = "register"
    BY <1>4, <2>2 DEF Course, Inserted, Standing
  <2>3. CASE task[t].kind = "create"
    <3>1. task[t].permission \in {"ManageUsers", "ManageRoles"}
      BY <1>4, <2>3 DEF Course
    <3> QED
      BY <2>3, <3>1 DEF Inserted, Standing
  <2> QED
    BY <1>1, <2>1, <2>2, <2>3
<1>6. /\ users' \in [User -> UserType] /\ \A v \in User \ {u} : users'[v] = users[v]
      /\ users'[u].role = new[1] /\ users'[u].active = new[2]
  BY <1>2, <1>3, <1>4, <1>5 DEF Types, UserTypes, UserType
<1>7. invitation' = IF holder[InvitationRow] = t
                    THEN [invitation EXCEPT !.uses = @ + 1, !.registered = @ \cup {u}]
                    ELSE invitation
  BY DEF CommitInsert
<1>8. Types'
  <2>1. UserTypes'
    BY <1>1, <1>4, <1>6 DEF UserTypes, Types
  <2>2. InvitationTypes'
    <3> HIDE DEF u
    <3>1. CASE holder[InvitationRow] = t
      <4>1. invitation.uses < MaxUses
        BY <1>1, <1>4, <3>1 DEF UseHeld, Usable
      <4>2. /\ invitation.uses \in 0..MaxUses /\ invitation.disabled \in BOOLEAN
            /\ invitation.registered \in SUBSET User
            /\ invitation \in [uses : 0..MaxUses, disabled : BOOLEAN, registered : SUBSET User]
        BY <1>4 DEF Types, InvitationTypes
      <4>3. invitation.uses + 1 \in 0..MaxUses /\ invitation.registered \cup {u} \in SUBSET User
        BY <1>2, <4>1, <4>2, ManagementBoundAssumption
      <4>4. invitation' = [invitation EXCEPT !.uses = invitation.uses + 1,
                                             !.registered = invitation.registered \cup {u}]
        BY <1>7, <3>1
      <4> QED
        BY <4>2, <4>3, <4>4 DEF InvitationTypes
    <3>2. CASE holder[InvitationRow] # t
      BY <1>4, <1>7, <3>2 DEF Types, InvitationTypes
    <3> QED
      BY <3>1, <3>2
  <2>3. Idle \in TaskType
    BY ManagementBoundAssumption DEF Idle, TaskType, TaskPlace, TaskKind
  <2>4. TaskTypes'
    BY <1>1, <1>4, <2>3 DEF Types, TaskTypes, Over
  <2> QED
    BY <2>1, <2>2, <2>4 DEF Types
<1>9. Sound(t)'
  BY <1>1, <1>4, <1>8, OverSound
<1>10. ASSUME NEW s \in Task \ {t} PROVE Bystander(s)
  <2>1. task'[s] = task[s] /\ \A l \in Lock : holder'[l] = s <=> holder[l] = s
    BY <1>1, <1>4, OverKept DEF LocksKept
  <2>2. \A v \in User : Exists(v) => users'[v] = users[v] /\ Exists(v)'
    BY <1>2, <1>6 DEF Exists
  <2>3. holder[InvitationRow] = s => invitation' = invitation
    BY <1>7
  <2> QED
    BY <1>1, <2>1, <2>2, <2>3 DEF Bystander
<1>11. OwnerRemains'
  <2>1. CASE task[t].kind = "bootstrap"
    BY <1>2, <1>5, <1>6, <2>1 DEF OwnerRemains, ActiveOwners
  <2>2. CASE task[t].kind # "bootstrap"
    <3>1. Somebody
      BY <1>1, <1>4, <2>2 DEF Course
    <3>2. PICK w \in User : w \in ActiveOwners
      BY <3>1 DEF ManagementIInv, OwnerRemains, Somebody, ActiveOwners
    <3>3. users'[w] = users[w]
      BY <1>2, <1>6, <3>2 DEF ActiveOwners, Exists
    <3> QED
      BY <3>2, <3>3 DEF OwnerRemains, ActiveOwners
  <2> QED
    BY <2>1, <2>2
<1> QED
  BY <1>8, <1>9, <1>10, <1>11 DEF Carried

LEMMA CommitDisableCarries ==
    ASSUME ManagementIInv, NEW t \in Task, CommitDisable(t)
    PROVE  Carried(t)
<1>1. /\ task[t].pc = "commit" /\ task[t].kind = "disable" /\ Over(t) /\ UNCHANGED <<users, cookie>>
      /\ invitation' = [invitation EXCEPT !.disabled = TRUE]
  BY DEF CommitDisable
<1>2. holder[InvitationRow] = t
  BY <1>1 DEF ManagementIInv, Sound, UseHeld
<1>3. Types'
  <2>1. UserTypes' /\ InvitationTypes'
    BY <1>1 DEF ManagementIInv, Types, UserTypes, InvitationTypes
  <2>2. Idle \in TaskType
    BY ManagementBoundAssumption DEF Idle, TaskType, TaskPlace, TaskKind
  <2>3. TaskTypes'
    BY <1>1, <2>2 DEF ManagementIInv, Types, TaskTypes, Over
  <2> QED
    BY <2>1, <2>3 DEF Types
<1>4. Sound(t)'
  BY <1>1, <1>3, OverSound DEF ManagementIInv
<1>5. ASSUME NEW s \in Task \ {t} PROVE Bystander(s)
  <2>1. task'[s] = task[s] /\ \A l \in Lock : holder'[l] = s <=> holder[l] = s
    BY <1>1, OverKept DEF ManagementIInv, LocksKept
  <2> QED
    BY <1>1, <1>2, <2>1 DEF Bystander, Exists
<1>6. OwnerRemains'
  BY <1>1 DEF ManagementIInv, OwnerRemains, ActiveOwners, Exists
<1> QED
  BY <1>3, <1>4, <1>5, <1>6 DEF Carried

\* The transactions that are one step: nobody else's row or cookie is touched.
LEMMA SignInKeeps ==
    ASSUME ManagementIInv, NEW u \in User, NEW k \in Cookie, SignIn(u, k)
    PROVE  Types' /\ OwnerRemains' /\ \A s \in Task : Bystander(s)
<1>1. /\ cookie[k].state = "none" /\ UNCHANGED <<users, invitation, holder, task>>
      /\ cookie' = [cookie EXCEPT ![k] = [state |-> "live", user |-> u, generation |-> users[u].generation]]
  BY DEF SignIn
<1>2. [state |-> "live", user |-> u, generation |-> users[u].generation] \in CookieType
  BY ManagementBoundAssumption DEF ManagementIInv, Types, UserTypes, UserType, CookieType, User
<1>3. UserTypes'
  BY <1>1, <1>2 DEF ManagementIInv, Types, UserTypes
<1>4. Types'
  BY <1>1, <1>3 DEF ManagementIInv, Types, TaskTypes, InvitationTypes
<1>5. \A s \in Task : Bystander(s)
  BY <1>1 DEF Bystander, Exists, ManagementIInv, Types, UserTypes
<1> QED
  BY <1>1, <1>4, <1>5 DEF ManagementIInv, OwnerRemains, ActiveOwners, Exists

LEMMA SignOutKeeps ==
    ASSUME ManagementIInv, NEW k \in Cookie, SignOut(k)
    PROVE  Types' /\ OwnerRemains' /\ \A s \in Task : Bystander(s)
<1>1. /\ holder[CookieRow(k)] = Nobody /\ UNCHANGED <<users, invitation, holder, task>>
      /\ cookie' = [cookie EXCEPT ![k].state = "revoked"]
  BY DEF SignOut
<1>2. UserTypes'
  BY <1>1 DEF ManagementIInv, Types, UserTypes, CookieType
<1>3. Types'
  BY <1>1, <1>2 DEF ManagementIInv, Types, TaskTypes, InvitationTypes
<1>4. \A s \in Task : Bystander(s)
  BY <1>1, NobodyAssumption DEF Bystander, Exists, ManagementIInv, Types, UserTypes
<1> QED
  BY <1>1, <1>3, <1>4 DEF ManagementIInv, OwnerRemains, ActiveOwners, Exists

LEMMA ChangeCredentialsKeeps ==
    ASSUME ManagementIInv, NEW u \in User, ChangeCredentials(u)
    PROVE  Types' /\ OwnerRemains' /\ \A s \in Task : Bystander(s)
<1>1. /\ users[u].generation < MaxAccountEpoch /\ holder[UserRow(u)] = Nobody
      /\ \A k \in CookiesOf(u) : holder[CookieRow(k)] = Nobody
      /\ users' = [users EXCEPT ![u].generation = @ + 1]
      /\ RevokeAllOf(u) /\ UNCHANGED <<invitation, holder, task>>
  BY DEF ChangeCredentials
<1>2. Types /\ users \in [User -> UserType]
  BY DEF ManagementIInv, Types, UserTypes
<1>3. /\ users' \in [User -> UserType]
      /\ \A v \in User : users'[v].role = users[v].role /\ users'[v].active = users[v].active
      /\ \A v \in User \ {u} : users'[v] = users[v]
  BY <1>1, <1>2, ManagementBoundAssumption DEF UserType
<1>4. /\ cookie' \in [Cookie -> CookieType]
      /\ \A k \in Cookie : cookie'[k].state = "live" => cookie'[k].user \in User
      /\ \A k \in Cookie \ CookiesOf(u) : cookie'[k] = cookie[k]
  BY <1>1, <1>2, RevokedTypes
<1>5. Types'
  BY <1>1, <1>2, <1>3, <1>4 DEF Types, UserTypes, TaskTypes, InvitationTypes
<1>6. ASSUME NEW s \in Task PROVE Bystander(s)
  <2>1. \A v \in User : Exists(v) => Exists(v)'
    BY <1>3 DEF Exists
  <2>2. \A v \in User : holder[UserRow(v)] = s => users'[v] = users[v]
    BY <1>1, <1>3, NobodyAssumption
  <2>3. \A k \in Cookie : holder[CookieRow(k)] = s => cookie'[k] = cookie[k]
    BY <1>1, <1>4, NobodyAssumption
  <2> QED
    BY <1>1, <2>1, <2>2, <2>3 DEF Bystander
<1>7. OwnerRemains'
  BY <1>3 DEF ManagementIInv, OwnerRemains, ActiveOwners, Exists
<1> QED
  BY <1>5, <1>6, <1>7

---------------------------------------------------------------------------
\* Management: the theorems.

LEMMA ManagementStarts == ManagementInit => ManagementIInv
<1> SUFFICES ASSUME ManagementInit PROVE ManagementIInv
  OBVIOUS
<1> USE ManagementBoundAssumption
<1>1. PICK roles \in [User -> Standing] :
         /\ \/ \A u \in User : roles[u] = "none"
            \/ roles[1] = "owner" /\ \A u \in User : roles[u] = "none" => u = MaxUser
         /\ users = [u \in User |-> [role |-> roles[u], active |-> TRUE, generation |-> 1]]
  BY DEF ManagementInit
<1>2. UserTypes /\ InvitationTypes
  BY <1>1 DEF ManagementInit, UserTypes, UserType, CookieType, InvitationTypes
<1>3. Idle \in TaskType
  BY DEF Idle, TaskType, TaskPlace, TaskKind
<1>4. Types
  BY <1>2, <1>3 DEF Types, TaskTypes, ManagementInit
<1>5. ASSUME NEW t \in Task PROVE Sound(t)
  <2>1. task[t] = Idle /\ \A l \in Lock : holder[l] # t
    BY NobodyAssumption DEF ManagementInit
  <2>2. Cardinality(Sure(t)) \in Nat
    BY SureAreUsers, UsersFinite
  <2>3. Course(t) /\ RowsHeld(t) /\ ActorHeld(t) /\ Counted(t)
    BY <2>1, <2>2 DEF Course, RowsHeld, ActorHeld, Counted, Idle
  <2>4. UseHeld(t)
    BY <2>1, LocksDiffer DEF UseHeld, Idle
  <2> QED
    BY <2>3, <2>4 DEF Sound
<1>6. OwnerRemains
  <2>1. 1 \in User
    BY DEF User
  <2> QED
    BY <1>1, <2>1 DEF OwnerRemains, ActiveOwners, Exists
<1> QED
  BY <1>4, <1>5, <1>6 DEF ManagementIInv

LEMMA TaskStep ==
    ASSUME ManagementIInv, NEW t \in Task, TaskNext(t)
    PROVE  Carried(t)
  BY BeginsCarry, TakeAdvisoryCarries, TakeOwnerCarries, TakeRowCarries, TakeCookieCarries,
     TakeBusinessCarries, TakeInvitationCarries, CommitStatusCarries, CommitInsertCarries,
     CommitDisableCarries, RollbackCarries, CommitRoleCarries DEF TaskNext

LEMMA ManagementStep == ManagementIInv /\ [ManagementNext]_managementVars => ManagementIInv'
<1> SUFFICES ASSUME ManagementIInv, [ManagementNext]_managementVars PROVE ManagementIInv'
  OBVIOUS
<1>1. Types /\ \A t \in Task : Sound(t)
  BY DEF ManagementIInv
<1>2. ASSUME NEW t \in Task, TaskNext(t) PROVE ManagementIInv'
  <2>1. Types' /\ Sound(t)' /\ OwnerRemains' /\ \A s \in Task \ {t} : Bystander(s)
    BY <1>2, TaskStep DEF Carried
  <2>2. \A s \in Task \ {t} : Sound(s)'
    BY <1>1, <2>1, BystanderSound
  <2> QED
    BY <2>1, <2>2 DEF ManagementIInv
<1>3. CASE Types' /\ OwnerRemains' /\ \A s \in Task : Bystander(s)
  BY <1>1, <1>3, BystanderSound DEF ManagementIInv
<1>4. CASE UNCHANGED managementVars
  <2>1. \A s \in Task : Bystander(s)
    BY <1>4 DEF managementVars, Bystander, Exists
  <2>2. Types' /\ OwnerRemains'
    BY <1>4 DEF managementVars, ManagementIInv, Types, UserTypes, TaskTypes, InvitationTypes,
                OwnerRemains, ActiveOwners, Exists
  <2> QED
    BY <1>3, <2>1, <2>2
<1> QED
  BY <1>2, <1>3, <1>4, SignInKeeps, SignOutKeeps, ChangeCredentialsKeeps DEF ManagementNext

THEOREM ManagementInvariance == ManagementSpec => []ManagementIInv
  BY ManagementStarts, ManagementStep, PTL DEF ManagementSpec

\* Roles, locks and counters keep their types; the uses of an invitation code never
\* exceed max_uses, however many registrations compete for the last one.
THEOREM ManagementTypeCorrect == ManagementSpec => []ManagementTypeOK
<1>1. ManagementIInv => ManagementTypeOK
  <2> SUFFICES ASSUME ManagementIInv PROVE ManagementTypeOK
    OBVIOUS
  <2>1. ASSUME NEW t \in Task PROVE task[t].owners \in 0..MaxUser
    <3>1. Cardinality(Sure(t)) \in Nat /\ Cardinality(Sure(t)) <= MaxUser
      BY SureAreUsers, UsersFinite
    <3>2. task[t].owners \in Nat /\ task[t].owners <= Cardinality(Sure(t))
      BY DEF ManagementIInv, Types, TaskTypes, TaskType, Sound, Counted
    <3> QED
      BY <3>1, <3>2, ManagementBoundAssumption
  <2> QED
    BY <2>1 DEF ManagementIInv, Types, TaskTypes, TaskType, TaskPlace, TaskKind, UserTypes, UserType,
                CookieType, InvitationTypes, ManagementTypeOK
<1> QED
  BY <1>1, ManagementInvariance, PTL

\* An installation with accounts has an active owner, whoever demotes or disables whom
\* at the same time (users/repository/role_guard.rs).
THEOREM OwnerAlwaysRemains == ManagementSpec => []OwnerRemains
<1>1. ManagementIInv => OwnerRemains
  BY DEF ManagementIInv
<1> QED
  BY <1>1, ManagementInvariance, PTL

\* No management write commits for an actor whose cookie, standing or epoch it no longer has.
THEOREM WritesAlwaysCovered == ManagementSpec => []WritesAreCovered
<1>1. ManagementIInv => WritesAreCovered
  BY DEF ManagementIInv, Sound, ActorHeld, WritesAreCovered, ActorStands
<1> QED
  BY <1>1, ManagementInvariance, PTL

---------------------------------------------------------------------------
\* Sessions: the invariant, under the logins and beside them.

\* The logins of Login, and everything else that Sessions lets happen meanwhile.
AccountNext == LoginNext \/ (SessionNext /\ UNCHANGED loginVars)
AccountSpec == Init /\ [][AccountNext]_vars

RowType ==
    [state : {"none", "live", "revoked", "expired"}, epoch : 0..MaxEpoch,
     payload : BOOLEAN, syncs : 0..MaxSyncs, role : Role]
DeliveryType == [state : EntryState, claims : 0..MaxClaims]
CourierType ==
    [pc : {"idle", "apply", "set", "delete", "advance", "complete", "fail"},
     entry : Entry \cup {None}, claim : 0..MaxClaims]
FinderType ==
    [pc : {"idle", "payload", "recheck", "renew", "found", "absent"},
     session : Session \cup {None}, role : Role]

\* A live row is of the present role: whatever changes the role revokes every row.
RoleKept == \A s \in Session : row[s].state = "live" => row[s].role = role

\* A lookup that has not failed carries the role of the row it has read.
LookupSound(f) ==
    finder[f].pc \in {"payload", "recheck", "renew", "found"} =>
       /\ finder[f].session \in Session /\ row[finder[f].session].state # "none"
       /\ finder[f].role = row[finder[f].session].role

\* Only what is revoked is announced as revoked, and as long as Redis knows a revoked
\* session its entry is not settled.
Announced ==
    \A e \in Entry : e.op = "revoke_session" /\ outbox[e].state # "none" =>
                        row[e.session].state = "revoked"
Forgotten ==
    \A s \in keys : row[s].state = "revoked" => outbox[Revoke(s)].state \notin {"none", "done"}

\* A row that is locked for its key is not revoked, and a deletion that has been answered has taken place.
CourierSound(w) ==
    /\ courier[w].pc # "idle" => courier[w].entry \in Entry
    /\ courier[w].pc = "set" => /\ courier[w].entry.op = "sync_session"
                                /\ row[courier[w].entry.session].state \in {"live", "expired"}
    /\ courier[w].pc = "advance" => courier[w].entry.op = "revoke_user"
    /\ courier[w].pc # "idle" /\ courier[w].entry.op = "revoke_session" =>
          row[courier[w].entry.session].state = "revoked"
    /\ courier[w].pc = "complete" /\ courier[w].entry.op = "revoke_session" =>
          courier[w].entry.session \notin keys

UserSide == RoleKept /\ \A f \in Finder : LookupSound(f)
RedisSide == Announced /\ Forgotten /\ \A w \in Worker : CourierSound(w)

SessionIInv == SessionTypeOK /\ UserSide /\ RedisSide

LEMMA EntryShape ==
    /\ \A e \in Entry :
          /\ e.op \in {"sync_session", "revoke_session", "revoke_user"}
          /\ e.op = "sync_session" => e.session \in Session
          /\ e.op = "revoke_session" => e.session \in Session /\ e = Revoke(e.session)
          /\ e.op = "revoke_user" => e.number \in 2..MaxEpoch
    /\ \A s \in Session : Revoke(s) \in Entry /\ Revoke(s).op = "revoke_session" /\ Revoke(s).session = s
<1>1. ASSUME NEW s \in Session
      PROVE  Revoke(s) \in Entry /\ Revoke(s).op = "revoke_session" /\ Revoke(s).session = s
  BY DEF Entry, Revoke
<1>2. ASSUME NEW e \in Entry
      PROVE  /\ e.op \in {"sync_session", "revoke_session", "revoke_user"}
             /\ e.op = "sync_session" => e.session \in Session
             /\ e.op = "revoke_session" => e.session \in Session /\ e = Revoke(e.session)
             /\ e.op = "revoke_user" => e.number \in 2..MaxEpoch
  <2>1. CASE \E s \in Session, n \in 1..MaxSyncs : e = Sync(s, n)
    BY <2>1 DEF Sync
  <2>2. CASE \E s \in Session : e = Revoke(s)
    BY <2>2 DEF Revoke
  <2>3. CASE \E g \in 2..MaxEpoch : e = RevokeUser(g)
    BY <2>3 DEF RevokeUser
  <2> QED
    BY <2>1, <2>2, <2>3 DEF Entry
<1> QED
  BY <1>1, <1>2

LEMMA SessionStarts == SessionInit => SessionIInv
<1> SUFFICES ASSUME SessionInit PROVE SessionIInv
  OBVIOUS
<1> USE SessionBoundAssumption
<1>1. PICK old \in {{}} \cup {{s} : s \in Session} :
         /\ row = [s \in Session |-> IF s \in old THEN [NoRow EXCEPT !.state = "live", !.epoch = 1]
                                     ELSE NoRow]
         /\ keys = old
  BY DEF SessionInit
<1>2. row \in [Session -> RowType] /\ \A s \in Session : row[s].state \in {"none", "live"} /\ row[s].role = "user"
  <2>1. ASSUME NEW s \in Session
        PROVE  row[s] \in RowType /\ row[s].state \in {"none", "live"} /\ row[s].role = "user"
    <3>1. CASE s \in old
      <4>1. row[s] = [state |-> "live", epoch |-> 1, payload |-> FALSE, syncs |-> 0, role |-> "user"]
        BY <1>1, <3>1 DEF NoRow
      <4> QED
        BY <4>1 DEF RowType, Role
    <3>2. CASE s \notin old
      <4>1. row[s] = [state |-> "none", epoch |-> 0, payload |-> FALSE, syncs |-> 0, role |-> "user"]
        BY <1>1, <3>2 DEF NoRow
      <4> QED
        BY <4>1 DEF RowType, Role
    <3> QED
      BY <3>1, <3>2
  <2>2. row \in [Session -> RowType]
    BY <1>1, <2>1
  <2> QED
    BY <2>1, <2>2
<1>3. SessionTypeOK
  BY <1>1, <1>2 DEF SessionInit, SessionTypeOK, RowType, Role, EntryState, NoEntry, NoDelivery, NoLookup
<1>4. UserSide
  BY <1>2 DEF SessionInit, UserSide, RoleKept, LookupSound, NoLookup
<1>5. RedisSide
  BY <1>1, <1>2 DEF SessionInit, RedisSide, Announced, Forgotten, CourierSound, NoEntry, NoDelivery
<1> QED
  BY <1>3, <1>4, <1>5 DEF SessionIInv

---------------------------------------------------------------------------
\* Steps that write rows and announce them.

\* Rows only go forward, and are revoked with their entry and under no delivery's lock.
Forward(entries) ==
    \A s \in Session :
       /\ row[s].state = "revoked" => row'[s].state = "revoked"
       /\ row'[s].state = "revoked" /\ row[s].state # "revoked" => Revoke(s) \in entries /\ ~Locked(s)
       /\ Revoke(s) \in entries => row'[s].state = "revoked"
       /\ row[s].state \in {"live", "expired"} => row'[s].state \in {"live", "expired", "revoked"}
       /\ row[s].state # "none" => row'[s].role = row[s].role /\ row'[s].state # "none"

LEMMA Announcing ==
    ASSUME SessionIInv, NEW entries \in SUBSET Entry, Enqueue(entries), Forward(entries),
           UNCHANGED <<redisVars, courier>>
    PROVE  outbox' \in [Entry -> DeliveryType] /\ RedisSide'
<1>1. outbox \in [Entry -> DeliveryType] /\ Announced /\ Forgotten /\ \A w \in Worker : CourierSound(w)
  BY DEF SessionIInv, SessionTypeOK, DeliveryType, RedisSide
<1>2. UNCHANGED <<keys, marker, courier>> /\ keys \subseteq Session
  BY DEF redisVars, SessionIInv, SessionTypeOK
<1>3. ASSUME NEW e \in Entry
      PROVE  /\ outbox'[e] \in DeliveryType
             /\ e \in entries => outbox'[e].state = "ready"
             /\ e \notin entries => outbox'[e] = outbox[e]
  BY <1>1, <1>3 DEF Enqueue, DeliveryType, EntryState
<1>4. outbox' \in [Entry -> DeliveryType]
  BY <1>3 DEF Enqueue
<1>5. Announced'
  <2> SUFFICES ASSUME NEW e \in Entry, e.op = "revoke_session", outbox'[e].state # "none"
               PROVE  row'[e.session].state = "revoked"
    BY DEF Announced
  <2>1. e.session \in Session /\ e = Revoke(e.session)
    BY EntryShape
  <2>2. CASE e \in entries
    BY <2>1, <2>2 DEF Forward
  <2>3. CASE e \notin entries
    BY <1>1, <1>3, <2>1, <2>3 DEF Forward, Announced
  <2> QED
    BY <2>2, <2>3
<1>6. Forgotten'
  <2> SUFFICES ASSUME NEW s \in keys, row'[s].state = "revoked"
               PROVE  outbox'[Revoke(s)].state \notin {"none", "done"}
    BY <1>2 DEF Forgotten
  <2>1. s \in Session /\ Revoke(s) \in Entry
    BY <1>2, EntryShape
  <2>2. CASE Revoke(s) \in entries
    BY <1>3, <2>1, <2>2
  <2>3. CASE Revoke(s) \notin entries
    BY <1>1, <1>3, <2>1, <2>3 DEF Forward, Forgotten
  <2> QED
    BY <2>2, <2>3
<1>7. ASSUME NEW w \in Worker PROVE CourierSound(w)'
  <2>1. CourierSound(w) /\ courier' = courier /\ keys' = keys
    BY <1>1, <1>2
  <2>2. courier[w].pc = "set" => row'[courier[w].entry.session].state \in {"live", "expired"}
    <3> SUFFICES ASSUME courier[w].pc = "set"
                 PROVE  row'[courier[w].entry.session].state \in {"live", "expired"}
      OBVIOUS
    <3>1. courier[w].entry.session \in Session /\ Locked(courier[w].entry.session)
      BY <2>1, EntryShape DEF CourierSound, Locked
    <3>2. row[courier[w].entry.session].state \in {"live", "expired"}
      BY <2>1 DEF CourierSound
    <3> QED
      BY <3>1, <3>2 DEF Forward
  <2>3. courier[w].pc # "idle" /\ courier[w].entry.op = "revoke_session" =>
           row'[courier[w].entry.session].state = "revoked"
    BY <2>1, EntryShape DEF CourierSound, Forward
  <2> QED
    BY <2>1, <2>2, <2>3 DEF CourierSound
<1> QED
  BY <1>4, <1>5, <1>6, <1>7 DEF RedisSide

\* No session comes to life or is forgotten.
Fades(sessions) ==
    \A v \in sessions : /\ row'[v].state = "live" => row[v].state = "live"
                        /\ row'[v].state = "none" => row[v].state = "none"

LEMMA LookingOn ==
    ASSUME SessionIInv, NEW entries, Forward(entries), UNCHANGED finder
    PROVE  \A f \in Finder : LookupSound(f)'
  BY DEF SessionIInv, UserSide, LookupSound, Forward

\* A row is written for the epoch and the role of now; who makes room for it is revoked.
LEMMA SaveKeeps ==
    ASSUME SessionIInv, NEW s \in Session, SaveSession(s),
           UNCHANGED <<userVars, redisVars, courier, finder>>
    PROVE  /\ SessionIInv'
           /\ row'[s].state = "live"
           /\ Fades(Session \ {s})
<1>1. PICK victims \in Surplus :
         /\ row[s].state = "none" /\ \A v \in victims : ~Locked(v)
         /\ Announce([Revoked(row, victims) EXCEPT
                         ![s] = [state |-> "live", epoch |-> epoch, payload |-> TRUE,
                                 syncs |-> 1, role |-> role]],
                     {Sync(s, 1)} \cup {Revoke(v) : v \in victims})
  BY DEF SaveSession
<1> DEFINE new == [state |-> "live", epoch |-> epoch, payload |-> TRUE, syncs |-> 1, role |-> role]
           entries == {Sync(s, 1)} \cup {Revoke(v) : v \in victims}
<1>2. victims \subseteq Session /\ \A v \in victims : row[v].state = "live"
  BY <1>1 DEF Surplus, ActiveSessions, Active
<1>3. /\ epoch \in 1..MaxEpoch /\ role \in Role /\ row \in [Session -> RowType]
      /\ UNCHANGED <<epoch, enabled, role, keys, marker, courier, finder>>
  BY DEF SessionIInv, SessionTypeOK, RowType, userVars, redisVars
<1>4. new \in RowType
  BY <1>3, SessionBoundAssumption DEF RowType
<1>5. ASSUME NEW v \in Session
      PROVE  /\ row'[v] \in RowType
             /\ v = s => row'[v] = new
             /\ v \in victims => v # s /\ row'[v] = [row[v] EXCEPT !.state = "revoked"]
             /\ v # s /\ v \notin victims => row'[v] = row[v]
  <2>1. row' = [Revoked(row, victims) EXCEPT ![s] = new]
    BY <1>1 DEF Announce
  <2>2. v \in victims => v # s
    BY <1>1, <1>2
  <2>3. Revoked(row, victims)[v] = IF v \in victims THEN [row[v] EXCEPT !.state = "revoked"] ELSE row[v]
    BY <1>3 DEF Revoked
  <2>4. row'[v] = IF v = s THEN new ELSE Revoked(row, victims)[v]
    BY <2>1 DEF Revoked
  <2> HIDE DEF new
  <2> QED
    BY <1>3, <1>4, <2>2, <2>3, <2>4 DEF RowType
<1>15. row'[s].state = "live" /\ row'[s].role = role
  <2>1. row'[s] = new
    BY <1>5
  <2> QED
    BY <2>1
<1>6. row' \in [Session -> RowType]
  BY <1>1, <1>5 DEF Announce, Revoked
<1>7. entries \in SUBSET Entry /\ Enqueue(entries)
  BY <1>1, <1>2, SessionBoundAssumption DEF Announce, Entry
<1>8. \A v \in Session : Revoke(v) \in entries <=> v \in victims
  BY DEF Revoke, Sync
<1>9. Forward(entries)
  <2> HIDE DEF entries
  <2>1. ASSUME NEW v \in Session PROVE
       /\ row[v].state = "revoked" => row'[v].state = "revoked"
       /\ row'[v].state = "revoked" /\ row[v].state # "revoked" => Revoke(v) \in entries /\ ~Locked(v)
       /\ Revoke(v) \in entries => row'[v].state = "revoked"
       /\ row[v].state \in {"live", "expired"} => row'[v].state \in {"live", "expired", "revoked"}
       /\ row[v].state # "none" => row'[v].role = row[v].role /\ row'[v].state # "none"
    <3>1. CASE v = s
      BY <1>1, <1>2, <1>8, <1>15, <3>1
    <3>2. CASE v \in victims
      BY <1>1, <1>2, <1>3, <1>5, <1>8, <3>2 DEF RowType
    <3>3. CASE v # s /\ v \notin victims
      BY <1>5, <1>8, <3>3
    <3> QED
      BY <3>1, <3>2, <3>3
  <2> QED
    BY <2>1 DEF Forward
<1>10. outbox' \in [Entry -> DeliveryType] /\ RedisSide'
  <2> HIDE DEF entries
  <2> QED
    BY <1>7, <1>9, Announcing
<1>11. RoleKept'
  <2> SUFFICES ASSUME NEW v \in Session, row'[v].state = "live" PROVE row'[v].role = role'
    BY DEF RoleKept
  <2>1. CASE v = s
    BY <1>3, <1>15, <2>1
  <2>2. CASE v \in victims
    BY <1>3, <1>5, <2>2 DEF RowType
  <2>3. CASE v # s /\ v \notin victims
    BY <1>3, <1>5, <2>3 DEF SessionIInv, UserSide, RoleKept
  <2> QED
    BY <2>1, <2>2, <2>3
<1>12. SessionTypeOK'
  BY <1>3, <1>6, <1>10 DEF SessionIInv, SessionTypeOK, RowType, DeliveryType
<1>13. \A f \in Finder : LookupSound(f)'
  BY <1>3, <1>9, LookingOn
<1>14. Fades(Session \ {s})
  BY <1>3, <1>5 DEF RowType, Fades
<1> QED
  BY <1>10, <1>11, <1>12, <1>13, <1>14, <1>15 DEF SessionIInv, UserSide

LEMMA RevokeSessionKeeps ==
    ASSUME SessionIInv, NEW s \in Session, RevokeSession(s)
    PROVE  SessionIInv' /\ Fades(Session)
<1>1. /\ row[s].state \in {"live", "expired"} /\ ~Locked(s)
      /\ row' = Revoked(row, {s}) /\ Enqueue({Revoke(s)})
      /\ UNCHANGED <<epoch, enabled, role, redisVars, courier, finder>>
  BY DEF RevokeSession, Announce, userVars
<1>2. row \in [Session -> RowType]
  BY DEF SessionIInv, SessionTypeOK, RowType
<1>3. /\ row' \in [Session -> RowType] /\ row'[s] = [row[s] EXCEPT !.state = "revoked"]
      /\ \A v \in Session \ {s} : row'[v] = row[v]
  BY <1>1, <1>2 DEF Revoked, RowType
<1>4. Forward({Revoke(s)})
  <2>1. \A v \in Session : Revoke(v) \in {Revoke(s)} <=> v = s
    BY DEF Revoke
  <2>2. row'[s].state = "revoked" /\ row'[s].role = row[s].role
    BY <1>2, <1>3 DEF RowType
  <2>3. ASSUME NEW v \in Session PROVE
       /\ row[v].state = "revoked" => row'[v].state = "revoked"
       /\ row'[v].state = "revoked" /\ row[v].state # "revoked" => Revoke(v) \in {Revoke(s)} /\ ~Locked(v)
       /\ Revoke(v) \in {Revoke(s)} => row'[v].state = "revoked"
       /\ row[v].state \in {"live", "expired"} => row'[v].state \in {"live", "expired", "revoked"}
       /\ row[v].state # "none" => row'[v].role = row[v].role /\ row'[v].state # "none"
    <3>1. CASE v = s
      BY <1>1, <2>1, <2>2, <3>1
    <3>2. CASE v # s
      BY <1>3, <2>1, <3>2
    <3> QED
      BY <3>1, <3>2
  <2> QED
    BY <2>3 DEF Forward
<1>5. outbox' \in [Entry -> DeliveryType] /\ RedisSide'
  BY <1>1, <1>4, Announcing, EntryShape
<1>6. Fades(Session) /\ \A v \in Session : row'[v].state = "live" => row[v].state = "live" /\ v # s
  BY <1>2, <1>3 DEF RowType, Fades
<1>7. RoleKept'
  BY <1>1, <1>3, <1>6 DEF SessionIInv, UserSide, RoleKept
<1>8. SessionTypeOK'
  BY <1>1, <1>3, <1>5 DEF SessionIInv, SessionTypeOK, RowType, DeliveryType, redisVars
<1>9. \A f \in Finder : LookupSound(f)'
  BY <1>1, <1>4, LookingOn
<1> QED
  BY <1>5, <1>6, <1>7, <1>8, <1>9 DEF SessionIInv, UserSide

\* Nothing lives through RevokeAll, so the role may change with it.
LEMMA RevokeAllKeeps ==
    ASSUME SessionIInv, RevokeAll, enabled' \in BOOLEAN, role' \in Role,
           UNCHANGED <<redisVars, courier, finder>>
    PROVE  /\ SessionIInv'
           /\ \A v \in Session : row'[v].state # "live"
           /\ Fades(Session)
           /\ epoch' = epoch + 1
<1> DEFINE victims == {v \in Session : row[v].state \in {"live", "expired"}}
           entries == {RevokeUser(epoch + 1)} \cup {Revoke(v) : v \in victims}
<1>1. /\ epoch < MaxEpoch /\ epoch' = epoch + 1 /\ \A v \in victims : ~Locked(v)
      /\ row' = Revoked(row, victims) /\ Enqueue(entries)
  BY DEF RevokeAll, Announce
<1>2. row \in [Session -> RowType] /\ epoch \in 1..MaxEpoch
  BY DEF SessionIInv, SessionTypeOK, RowType
<1>3. ASSUME NEW v \in Session
      PROVE  /\ row'[v] \in RowType
             /\ v \in victims => row'[v] = [row[v] EXCEPT !.state = "revoked"]
             /\ v \notin victims => row'[v] = row[v] /\ row[v].state \in {"none", "revoked"}
  BY <1>1, <1>2 DEF Revoked, RowType
<1>4. row' \in [Session -> RowType]
  BY <1>1, <1>3 DEF Revoked
<1>5. entries \in SUBSET Entry
  BY <1>1, <1>2, SessionBoundAssumption DEF Entry
<1>6. \A v \in Session : Revoke(v) \in entries <=> v \in victims
  BY DEF Revoke, RevokeUser
<1>7. \A v \in Session : v \in victims <=> row[v].state \in {"live", "expired"}
  OBVIOUS
<1> HIDE DEF entries, victims
<1>8. Forward(entries)
  <2>1. ASSUME NEW v \in Session PROVE
       /\ row[v].state = "revoked" => row'[v].state = "revoked"
       /\ row'[v].state = "revoked" /\ row[v].state # "revoked" => Revoke(v) \in entries /\ ~Locked(v)
       /\ Revoke(v) \in entries => row'[v].state = "revoked"
       /\ row[v].state \in {"live", "expired"} => row'[v].state \in {"live", "expired", "revoked"}
       /\ row[v].state # "none" => row'[v].role = row[v].role /\ row'[v].state # "none"
    <3>1. CASE v \in victims
      <4>1. row'[v].state = "revoked" /\ row'[v].role = row[v].role
        BY <1>2, <1>3, <3>1 DEF RowType
      <4> QED
        BY <1>1, <1>6, <1>7, <3>1, <4>1
    <3>2. CASE v \notin victims
      BY <1>3, <1>6, <1>7, <3>2
    <3> QED
      BY <3>1, <3>2
  <2> QED
    BY <2>1 DEF Forward
<1>9. outbox' \in [Entry -> DeliveryType] /\ RedisSide'
  BY <1>1, <1>5, <1>8, Announcing
<1>10. Fades(Session) /\ \A v \in Session : row'[v].state # "live"
  BY <1>2, <1>3 DEF RowType, Fades
<1>11. SessionTypeOK'
  BY <1>1, <1>2, <1>4, <1>9, SessionBoundAssumption DEF SessionIInv, SessionTypeOK, RowType, DeliveryType, redisVars
<1>12. \A f \in Finder : LookupSound(f)'
  BY <1>8, LookingOn
<1> QED
  BY <1>1, <1>9, <1>10, <1>11, <1>12 DEF SessionIInv, UserSide, RoleKept

---------------------------------------------------------------------------
\* The steps of Sessions that announce nothing.

LEMMA SameSession ==
    ASSUME SessionIInv, UNCHANGED sessionVars
    PROVE  SessionIInv'
  BY DEF sessionVars, storeVars, userVars, redisVars, SessionIInv, SessionTypeOK, UserSide, RedisSide,
         RoleKept, LookupSound, Announced, Forgotten, CourierSound, Locked

LEMMA EnableUserKeeps ==
    ASSUME SessionIInv, EnableUser
    PROVE  SessionIInv'
  BY DEF EnableUser, redisVars, SessionIInv, SessionTypeOK, UserSide, RedisSide,
         RoleKept, LookupSound, Announced, Forgotten, CourierSound

LEMMA ExpireSessionKeeps ==
    ASSUME SessionIInv, NEW s \in Session, ExpireSession(s)
    PROVE  SessionIInv' /\ Fades(Session)
<1>1. /\ row[s].state = "live" /\ row' = [row EXCEPT ![s].state = "expired"] /\ keys' = keys \ {s}
      /\ UNCHANGED <<epoch, enabled, role, outbox, marker, courier, finder>>
  BY DEF ExpireSession, userVars
<1>2. row \in [Session -> RowType] /\ keys \subseteq Session
  BY DEF SessionIInv, SessionTypeOK, RowType
<1>3. /\ row' \in [Session -> RowType] /\ row'[s] = [row[s] EXCEPT !.state = "expired"]
      /\ row'[s].state = "expired" /\ row'[s].role = row[s].role
      /\ \A v \in Session \ {s} : row'[v] = row[v]
  BY <1>1, <1>2 DEF RowType
<1>4. SessionTypeOK'
  BY <1>1, <1>2, <1>3 DEF SessionIInv, SessionTypeOK, RowType
<1>5. RoleKept' /\ \A f \in Finder : LookupSound(f)'
  BY <1>1, <1>3 DEF SessionIInv, UserSide, RoleKept, LookupSound
<1>6. Announced'
  BY <1>1, <1>3, EntryShape DEF SessionIInv, RedisSide, Announced
<1>7. Forgotten'
  BY <1>1, <1>2, <1>3 DEF SessionIInv, RedisSide, Forgotten
<1>8. \A w \in Worker : CourierSound(w)'
  <2> SUFFICES ASSUME NEW w \in Worker PROVE CourierSound(w)'
    OBVIOUS
  <2>1. CourierSound(w)
    BY DEF SessionIInv, RedisSide
  <2>2. \A v \in Session : /\ row[v].state \in {"live", "expired"} => row'[v].state \in {"live", "expired"}
                           /\ row[v].state = "revoked" => row'[v].state = "revoked"
    BY <1>1, <1>3
  <2> QED
    BY <1>1, <2>1, <2>2, EntryShape DEF CourierSound
<1> QED
  BY <1>1, <1>3, <1>4, <1>5, <1>6, <1>7, <1>8 DEF SessionIInv, UserSide, RedisSide, Fades

\* A lookup that only moves on.
LEMMA LookupMoves ==
    ASSUME SessionIInv, NEW f \in Finder, NEW next \in FinderType,
           finder' = [finder EXCEPT ![f] = next], UNCHANGED <<storeVars, redisVars, courier>>,
           LookupSound(f)'
    PROVE  SessionIInv'
<1>1. UNCHANGED <<epoch, enabled, role, row, outbox, keys, marker, courier>>
  BY DEF storeVars, userVars, redisVars
<1>2. SessionTypeOK'
  BY <1>1 DEF SessionIInv, SessionTypeOK, FinderType
<1>3. RedisSide' /\ RoleKept'
  BY <1>1 DEF SessionIInv, RedisSide, UserSide, RoleKept, Announced, Forgotten, CourierSound
<1>4. ASSUME NEW g \in Finder PROVE LookupSound(g)'
  <2>1. CASE g = f
    BY <2>1
  <2>2. CASE g # f
    <3>1. finder'[g] = finder[g] /\ LookupSound(g)
      BY <2>2 DEF SessionIInv, SessionTypeOK, UserSide
    <3> QED
      BY <1>1, <3>1 DEF LookupSound
  <2> QED
    BY <2>1, <2>2
<1> QED
  BY <1>2, <1>3, <1>4 DEF SessionIInv, UserSide

\* Its place changes, and its session and role stay.
LEMMA LookupTo ==
    ASSUME SessionIInv, NEW f \in Finder, NEW place \in {"absent", "recheck", "found", "renew"},
           Looking(f, place), finder[f].pc \in {"payload", "recheck", "renew"},
           UNCHANGED <<storeVars, redisVars, courier>>
    PROVE  SessionIInv'
<1> DEFINE next == [finder[f] EXCEPT !.pc = place]
<1>1. finder[f] \in FinderType /\ LookupSound(f)
  BY DEF SessionIInv, SessionTypeOK, FinderType, UserSide
<1>2. next \in FinderType /\ next.session = finder[f].session /\ next.role = finder[f].role
  BY <1>1 DEF FinderType
<1>3. finder' = [finder EXCEPT ![f] = next]
  BY DEF Looking, SessionIInv, SessionTypeOK
<1>4. finder'[f] = next
  BY <1>3 DEF SessionIInv, SessionTypeOK
<1>5. row' = row
  BY DEF storeVars
<1> HIDE DEF next
<1>6. LookupSound(f)'
  BY <1>1, <1>2, <1>4, <1>5 DEF LookupSound
<1> QED
  BY <1>2, <1>3, <1>6, LookupMoves

LEMMA FindReadsKeeps ==
    ASSUME SessionIInv, NEW f \in Finder, NEW s \in Session, FindReads(f, s)
    PROVE  SessionIInv'
<1>1. PICK due \in BOOLEAN :
         finder' = [finder EXCEPT ![f] =
             [pc |-> CASE ~Active(s) -> "absent"
                       [] Active(s) /\ ~row[s].payload -> "payload"
                       [] Active(s) /\ row[s].payload /\ due -> "renew"
                       [] Active(s) /\ row[s].payload /\ ~due -> "found",
              session |-> s, role |-> role]]
  BY DEF FindReads
<1> DEFINE place == CASE ~Active(s) -> "absent"
                      [] Active(s) /\ ~row[s].payload -> "payload"
                      [] Active(s) /\ row[s].payload /\ due -> "renew"
                      [] Active(s) /\ row[s].payload /\ ~due -> "found"
           next == [pc |-> place, session |-> s, role |-> role]
<1>2. /\ row[s].payload \in BOOLEAN /\ role \in Role
      /\ UNCHANGED <<storeVars, redisVars, courier>> /\ row' = row
  BY DEF FindReads, storeVars, SessionIInv, SessionTypeOK
<1>3. place \in {"absent", "payload", "renew", "found"} /\ (place # "absent" => Active(s))
  BY <1>2
<1> HIDE DEF place
<1>4. next \in FinderType
  BY <1>2, <1>3 DEF FinderType
<1>5. finder' = [finder EXCEPT ![f] = next] /\ finder'[f] = next
  BY <1>1 DEF place, SessionIInv, SessionTypeOK
<1>6. LookupSound(f)'
  <2>1. Active(s) => row[s].state # "none" /\ role = row[s].role
    BY DEF Active, SessionIInv, UserSide, RoleKept
  <2> QED
    BY <1>2, <1>3, <1>5, <2>1 DEF LookupSound
<1> HIDE DEF next
<1> QED
  BY <1>2, <1>4, <1>5, <1>6, LookupMoves

LEMMA FindRenewsKeeps ==
    ASSUME SessionIInv, NEW f \in Finder, FindRenews(f)
    PROVE  SessionIInv' /\ Fades(Session)
<1> DEFINE s == finder[f].session
<1>1. finder[f].pc = "renew" /\ UNCHANGED <<userVars, redisVars, courier>>
  BY DEF FindRenews
<1>2. s \in Session
  BY <1>1 DEF SessionIInv, UserSide, LookupSound
<1>3. CASE UNCHANGED <<row, outbox>>
  <2>1. PICK place \in {"absent", "found"} : Looking(f, place)
    BY DEF FindRenews
  <2>2. UNCHANGED <<storeVars, redisVars, courier>> /\ row' = row
    BY <1>1, <1>3 DEF storeVars
  <2> QED
    BY <1>1, <2>1, <2>2, LookupTo DEF Fades
<1>4. CASE ~UNCHANGED <<row, outbox>>
  <2>1. /\ row[s].syncs < MaxSyncs /\ Active(s) /\ Looking(f, "found")
        /\ row' = [row EXCEPT ![s].payload = TRUE, ![s].syncs = @ + 1]
        /\ Enqueue({Sync(s, row[s].syncs + 1)})
    BY <1>4 DEF FindRenews, Announce
  <2>2. row \in [Session -> RowType]
    BY DEF SessionIInv, SessionTypeOK, RowType
  <2>3. row' = [row EXCEPT ![s] = [row[s] EXCEPT !.payload = TRUE, !.syncs = row[s].syncs + 1]]
    BY <2>1, <2>2 DEF RowType
  <2>4. /\ [row[s] EXCEPT !.payload = TRUE, !.syncs = row[s].syncs + 1] \in RowType
        /\ row'[s] = [row[s] EXCEPT !.payload = TRUE, !.syncs = row[s].syncs + 1]
    BY <1>2, <2>1, <2>2, <2>3, SessionBoundAssumption DEF RowType
  <2>5. /\ row' \in [Session -> RowType]
        /\ \A v \in Session : row'[v].state = row[v].state /\ row'[v].role = row[v].role
    BY <1>2, <2>2, <2>3, <2>4 DEF RowType
  <2>6. row[s].syncs + 1 \in 1..MaxSyncs
    BY <1>2, <2>1, <2>2, SessionBoundAssumption DEF RowType
  <2>7. Sync(s, row[s].syncs + 1) \in Entry
    BY <1>2, <2>6 DEF Entry
  <2>8. \A v \in Session : Revoke(v) \notin {Sync(s, row[s].syncs + 1)}
    BY DEF Revoke, Sync
  <2>9. Forward({Sync(s, row[s].syncs + 1)})
    BY <2>5, <2>8 DEF Forward
  <2>10. outbox' \in [Entry -> DeliveryType] /\ RedisSide'
    BY <1>1, <2>1, <2>7, <2>9, Announcing
  <2>11. UNCHANGED <<epoch, enabled, role, keys, marker, courier>>
    BY <1>1 DEF userVars, redisVars
  <2>12. finder[f] \in FinderType /\ finder \in [Finder -> FinderType]
    BY DEF SessionIInv, SessionTypeOK, FinderType
  <2>13. /\ finder' \in [Finder -> FinderType]
         /\ \A g \in Finder : /\ finder'[g].session = finder[g].session /\ finder'[g].role = finder[g].role
                              /\ g # f => finder'[g] = finder[g]
    BY <2>1, <2>12 DEF Looking, FinderType
  <2>14. SessionTypeOK'
    BY <2>5, <2>10, <2>11, <2>13 DEF SessionIInv, SessionTypeOK, RowType, DeliveryType, FinderType
  <2>15. RoleKept'
    BY <2>5, <2>11 DEF SessionIInv, UserSide, RoleKept
  <2>16. ASSUME NEW g \in Finder PROVE LookupSound(g)'
    <3>1. LookupSound(g) /\ LookupSound(f)
      BY DEF SessionIInv, UserSide
    <3>2. g = f => finder[g].pc = "renew"
      BY <1>1
    <3> QED
      BY <2>5, <2>13, <3>1, <3>2 DEF LookupSound
  <2> QED
    BY <2>5, <2>10, <2>14, <2>15, <2>16 DEF SessionIInv, UserSide, Fades
<1> QED
  BY <1>3, <1>4 DEF SessionIInv, storeVars, Fades

LEMMA FindKeeps ==
    ASSUME SessionIInv, FindNext
    PROVE  SessionIInv' /\ Fades(Session)
<1>1. ASSUME NEW f \in Finder, PayloadReads(f) \/ FindRechecks(f)
      PROVE  SessionIInv' /\ row' = row
  <2>1. /\ finder[f].pc \in {"payload", "recheck"} /\ UNCHANGED <<storeVars, redisVars, courier>>
        /\ Looking(f, "recheck") \/ Looking(f, "absent") \/ Looking(f, "found") \/ Looking(f, "renew")
    BY <1>1 DEF PayloadReads, FindRechecks
  <2> QED
    BY <2>1, LookupTo DEF storeVars
<1>2. ASSUME NEW f \in Finder, FindAnswers(f)
      PROVE  SessionIInv' /\ row' = row
  <2>1. finder' = [finder EXCEPT ![f] = NoLookup] /\ UNCHANGED <<storeVars, redisVars, courier>>
    BY <1>2 DEF FindAnswers
  <2>2. NoLookup \in FinderType
    BY DEF NoLookup, FinderType, Role
  <2>3. LookupSound(f)'
    BY <2>1 DEF LookupSound, NoLookup, SessionIInv, SessionTypeOK
  <2> QED
    BY <2>1, <2>2, <2>3, LookupMoves DEF storeVars
<1>3. ASSUME NEW f \in Finder, NEW s \in Session, FindReads(f, s)
      PROVE  SessionIInv' /\ row' = row
  BY <1>3, FindReadsKeeps DEF FindReads, storeVars
<1> QED
  BY <1>1, <1>2, <1>3, FindRenewsKeeps DEF FindNext, Fades

---------------------------------------------------------------------------
\* The outbox worker.

\* What its steps never do: bring a revoked key back, or settle the entry of a revoked
\* session before the key is gone.
Careful ==
    /\ \A s \in keys' : s \in Session /\ (s \in keys \/ row[s].state # "revoked")
    /\ outbox' \in [Entry -> DeliveryType]
    /\ \A e \in Entry :
          /\ e.op = "revoke_session" /\ outbox'[e].state # "none" =>
                outbox[e].state # "none" \/ row[e.session].state = "revoked"
          /\ e.op = "revoke_session" /\ outbox'[e].state \in {"none", "done"} =>
                outbox[e].state \in {"none", "done"} \/ e.session \notin keys'

LEMMA OutboxKeeps ==
    ASSUME SessionIInv, Careful, marker' \in 0..MaxEpoch, UNCHANGED <<userVars, row, finder>>,
           courier' \in [Worker -> CourierType],
           \A w \in Worker : courier'[w] = courier[w] \/ CourierSound(w)'
    PROVE  SessionIInv'
<1>1. UNCHANGED <<epoch, enabled, role, row, finder>>
  BY DEF userVars
<1>2. SessionTypeOK'
  BY <1>1 DEF Careful, SessionIInv, SessionTypeOK, DeliveryType, CourierType
<1>3. UserSide'
  BY <1>1 DEF SessionIInv, UserSide, RoleKept, LookupSound
<1>4. Announced'
  BY <1>1 DEF Careful, SessionIInv, RedisSide, Announced
<1>5. Forgotten'
  <2> SUFFICES ASSUME NEW s \in keys', row[s].state = "revoked"
               PROVE  outbox'[Revoke(s)].state \notin {"none", "done"}
    BY <1>1 DEF Forgotten
  <2>1. s \in Session /\ s \in keys
    BY DEF Careful
  <2>2. Revoke(s) \in Entry /\ Revoke(s).op = "revoke_session" /\ Revoke(s).session = s
    BY <2>1, EntryShape
  <2>3. outbox[Revoke(s)].state \notin {"none", "done"}
    BY <2>1 DEF SessionIInv, RedisSide, Forgotten
  <2> QED
    BY <2>2, <2>3 DEF Careful
<1>6. ASSUME NEW w \in Worker PROVE CourierSound(w)'
  <2>1. CASE courier'[w] = courier[w]
    <3>1. CourierSound(w)
      BY DEF SessionIInv, RedisSide
    <3>2. courier[w].pc = "complete" /\ courier[w].entry.op = "revoke_session" =>
             courier[w].entry.session \notin keys'
      BY <3>1 DEF CourierSound, Careful
    <3> QED
      BY <1>1, <2>1, <3>1, <3>2 DEF CourierSound
  <2>2. CASE CourierSound(w)'
    BY <2>2
  <2> QED
    BY <2>1, <2>2
<1> QED
  BY <1>2, <1>3, <1>4, <1>5, <1>6 DEF SessionIInv, RedisSide

\* One worker moves from place to place with its entry, or puts it down.
LEMMA CourierTo ==
    ASSUME SessionIInv, NEW w \in Worker, courier[w].pc # "idle",
           NEW place \in {"apply", "set", "delete", "advance", "complete", "fail"}, Moving(w, place),
           Careful, marker' \in 0..MaxEpoch, UNCHANGED <<userVars, row, finder>>,
           place = "set" => /\ courier[w].entry.op = "sync_session"
                            /\ row[courier[w].entry.session].state \in {"live", "expired"},
           place = "advance" => courier[w].entry.op = "revoke_user",
           place = "complete" /\ courier[w].entry.op = "revoke_session" => courier[w].entry.session \notin keys'
    PROVE  SessionIInv'
<1>1. courier \in [Worker -> CourierType] /\ CourierSound(w)
  BY DEF SessionIInv, SessionTypeOK, CourierType, RedisSide
<1>2. /\ courier' \in [Worker -> CourierType]
      /\ courier'[w].pc = place /\ courier'[w].entry = courier[w].entry
      /\ \A v \in Worker \ {w} : courier'[v] = courier[v]
  BY <1>1 DEF Moving, CourierType
<1>3. CourierSound(w)'
  BY <1>1, <1>2 DEF CourierSound
<1> QED
  BY <1>2, <1>3, OutboxKeeps

LEMMA CourierDone ==
    ASSUME SessionIInv, NEW w \in Worker, courier' = [courier EXCEPT ![w] = NoDelivery],
           Careful, marker' \in 0..MaxEpoch, UNCHANGED <<userVars, row, finder>>
    PROVE  SessionIInv'
<1>1. courier \in [Worker -> CourierType] /\ NoDelivery \in CourierType
  BY SessionBoundAssumption DEF SessionIInv, SessionTypeOK, CourierType, NoDelivery
<1>2. /\ courier' \in [Worker -> CourierType] /\ courier'[w].pc = "idle"
      /\ \A v \in Worker \ {w} : courier'[v] = courier[v]
  BY <1>1 DEF NoDelivery
<1>3. CourierSound(w)'
  BY <1>2 DEF CourierSound
<1> QED
  BY <1>2, <1>3, OutboxKeeps

\* Without a write of the outbox it is enough that no revoked key comes back.
LEMMA CarefulKeys ==
    ASSUME SessionIInv, UNCHANGED outbox,
           \A s \in keys' : s \in Session /\ (s \in keys \/ row[s].state # "revoked")
    PROVE  Careful
  BY DEF Careful, SessionIInv, SessionTypeOK, DeliveryType

LEMMA ClaimKeeps ==
    ASSUME SessionIInv, NEW w \in Worker, NEW e \in Entry, Claim(w, e)
    PROVE  SessionIInv'
<1> DEFINE next == [pc |-> "apply", entry |-> e, claim |-> outbox[e].claims + 1]
<1>1. /\ courier[w].pc = "idle" /\ outbox[e].state = "ready" /\ outbox[e].claims < MaxClaims
      /\ outbox' = [outbox EXCEPT ![e] = [state |-> "later", claims |-> outbox[e].claims + 1]]
      /\ courier' = [courier EXCEPT ![w] = next]
      /\ UNCHANGED <<userVars, row, finder>> /\ UNCHANGED <<keys, marker>>
  BY DEF Claim, redisVars
<1>2. /\ outbox \in [Entry -> DeliveryType] /\ courier \in [Worker -> CourierType]
      /\ keys \subseteq Session /\ marker \in 0..MaxEpoch
  BY DEF SessionIInv, SessionTypeOK, DeliveryType, CourierType
<1>3. outbox[e].claims + 1 \in 0..MaxClaims
  BY <1>1, <1>2, SessionBoundAssumption DEF DeliveryType
<1>4. next \in CourierType /\ [state |-> "later", claims |-> outbox[e].claims + 1] \in DeliveryType
  BY <1>3 DEF CourierType, DeliveryType, EntryState
<1>5. Careful
  BY <1>1, <1>2, <1>4 DEF Careful
<1>6. e.op = "revoke_session" => row[e.session].state = "revoked"
  BY <1>1 DEF SessionIInv, RedisSide, Announced
<1>7. /\ courier' \in [Worker -> CourierType] /\ courier'[w] = next
      /\ \A v \in Worker \ {w} : courier'[v] = courier[v]
  BY <1>1, <1>2, <1>4
<1>8. CourierSound(w)'
  BY <1>1, <1>6, <1>7 DEF CourierSound
<1> QED
  BY <1>1, <1>2, <1>5, <1>7, <1>8, OutboxKeeps

LEMMA EntryKeeps ==
    ASSUME SessionIInv, NEW e \in Entry, Due(e) \/ PruneEntry(e)
    PROVE  SessionIInv'
<1>1. /\ UNCHANGED <<userVars, row, finder>> /\ UNCHANGED <<keys, marker, courier>>
      /\ outbox \in [Entry -> DeliveryType] /\ courier \in [Worker -> CourierType]
      /\ keys \subseteq Session /\ marker \in 0..MaxEpoch
  BY DEF Due, PruneEntry, redisVars, SessionIInv, SessionTypeOK, DeliveryType, CourierType
<1>2. PICK next \in DeliveryType :
         /\ outbox' = [outbox EXCEPT ![e] = next]
         /\ outbox[e].state # "none"
         /\ next.state \in {"none", "done"} => outbox[e].state = "done"
  <2>1. CASE Due(e)
    <3>1. outbox' = [outbox EXCEPT ![e] = [outbox[e] EXCEPT !.state = "ready"]] /\ outbox[e].state = "later"
      BY <2>1 DEF Due
    <3>2. [outbox[e] EXCEPT !.state = "ready"] \in DeliveryType /\ [outbox[e] EXCEPT !.state = "ready"].state = "ready"
      BY <1>1 DEF DeliveryType, EntryState
    <3> QED
      BY <3>1, <3>2
  <2>2. CASE PruneEntry(e) /\ outbox[e].state = "done"
    <3>1. NoEntry \in DeliveryType
      BY SessionBoundAssumption DEF NoEntry, DeliveryType, EntryState
    <3> QED
      BY <1>1, <2>2, <3>1 DEF PruneEntry
  <2>3. CASE PruneEntry(e) /\ outbox[e].state = "dead"
    <3>1. outbox' = [outbox EXCEPT ![e] = [outbox[e] EXCEPT !.state = "buried"]]
      BY <2>3 DEF PruneEntry
    <3>2. [outbox[e] EXCEPT !.state = "buried"] \in DeliveryType
      BY <1>1 DEF DeliveryType, EntryState
    <3> QED
      BY <1>1, <2>3, <3>1, <3>2 DEF DeliveryType
  <2> QED
    BY <2>1, <2>2, <2>3 DEF PruneEntry
<1>3. Careful
  <2>1. outbox' \in [Entry -> DeliveryType] /\ outbox'[e] = next /\ \A d \in Entry \ {e} : outbox'[d] = outbox[d]
    BY <1>1, <1>2
  <2> QED
    BY <1>1, <1>2, <2>1 DEF Careful
<1> QED
  BY <1>1, <1>3, OutboxKeeps

LEMMA SyncReadsKeeps ==
    ASSUME SessionIInv, NEW w \in Worker, SyncReads(w)
    PROVE  SessionIInv'
<1> DEFINE s == courier[w].entry.session
<1>1. /\ courier[w].pc = "apply" /\ courier[w].entry.op = "sync_session" /\ ~Locked(s)
      /\ UNCHANGED <<userVars, row, outbox, finder>>
      /\ \/ /\ (keys' = keys \ {s} /\ UNCHANGED marker) \/ UNCHANGED redisVars
            /\ Moving(w, "complete") \/ Moving(w, "fail")
         \/ Active(s) /\ Moving(w, "set") /\ UNCHANGED redisVars
  BY DEF SyncReads, Ask, storeVars
<1>2. keys \subseteq Session /\ marker \in 0..MaxEpoch
  BY DEF SessionIInv, SessionTypeOK
<1>3. keys' \subseteq keys /\ marker' \in 0..MaxEpoch
  BY <1>1, <1>2 DEF redisVars
<1>4. Careful
  BY <1>1, <1>2, <1>3, CarefulKeys
<1>5. Active(s) => row[s].state = "live"
  BY DEF Active
<1> QED
  BY <1>1, <1>3, <1>4, <1>5, CourierTo

\* The row was locked when it was found active, so it is not revoked when its key is set.
LEMMA SyncSetsKeeps ==
    ASSUME SessionIInv, NEW w \in Worker, SyncSets(w)
    PROVE  SessionIInv'
<1> DEFINE s == courier[w].entry.session
<1>1. /\ courier[w].pc = "set"
      /\ UNCHANGED <<userVars, row, outbox, finder>>
      /\ keys' = keys \cup {s} \/ keys' = keys
      /\ UNCHANGED marker
      /\ Moving(w, "complete") \/ Moving(w, "fail")
  BY DEF SyncSets, Ask, storeVars, redisVars
<1>2. keys \subseteq Session /\ marker \in 0..MaxEpoch /\ CourierSound(w)
  BY DEF SessionIInv, SessionTypeOK, RedisSide
<1>3. s \in Session /\ row[s].state # "revoked" /\ courier[w].entry.op = "sync_session"
  BY <1>1, <1>2, EntryShape DEF CourierSound
<1>4. Careful
  BY <1>1, <1>2, <1>3, CarefulKeys
<1> QED
  BY <1>1, <1>2, <1>3, <1>4, CourierTo

LEMMA RevokeDeletesKeeps ==
    ASSUME SessionIInv, NEW w \in Worker, RevokeDeletes(w)
    PROVE  SessionIInv'
<1> DEFINE s == courier[w].entry.session
<1>1. /\ courier[w].pc = "apply" /\ courier[w].entry.op = "revoke_session"
      /\ UNCHANGED <<userVars, row, outbox, finder>>
      /\ \/ keys' = keys \ {s} /\ UNCHANGED marker /\ (Moving(w, "complete") \/ Moving(w, "fail"))
         \/ UNCHANGED redisVars /\ Moving(w, "fail")
  BY DEF RevokeDeletes, Ask, storeVars
<1>2. keys \subseteq Session /\ marker \in 0..MaxEpoch
  BY DEF SessionIInv, SessionTypeOK
<1>3. keys' \subseteq keys /\ marker' \in 0..MaxEpoch
  BY <1>1, <1>2 DEF redisVars
<1>4. Careful
  BY <1>1, <1>2, <1>3, CarefulKeys
<1> QED
  BY <1>1, <1>3, <1>4, CourierTo

LEMMA UserDeletesKeeps ==
    ASSUME SessionIInv, NEW w \in Worker, UserDeletes(w)
    PROVE  SessionIInv'
<1>1. /\ courier[w].pc = "apply" /\ courier[w].entry.op = "revoke_user"
      /\ UNCHANGED <<userVars, row, outbox, finder>>
      /\ keys' \subseteq keys /\ UNCHANGED marker
      /\ Moving(w, "advance") \/ Moving(w, "fail")
  BY DEF UserDeletes, Ask, storeVars, redisVars
<1>2. keys \subseteq Session /\ marker \in 0..MaxEpoch
  BY DEF SessionIInv, SessionTypeOK
<1>3. Careful
  BY <1>1, <1>2, CarefulKeys
<1> QED
  BY <1>1, <1>2, <1>3, CourierTo

LEMMA UserAdvancesKeeps ==
    ASSUME SessionIInv, NEW w \in Worker, UserAdvances(w)
    PROVE  SessionIInv'
<1> DEFINE g == courier[w].entry.number
<1>1. /\ courier[w].pc = "advance"
      /\ UNCHANGED <<userVars, row, outbox, finder>>
      /\ marker' \in {marker, g} /\ UNCHANGED keys
      /\ Moving(w, "complete") \/ Moving(w, "fail")
  BY DEF UserAdvances, Ask, storeVars, redisVars
<1>2. keys \subseteq Session /\ marker \in 0..MaxEpoch /\ CourierSound(w)
  BY DEF SessionIInv, SessionTypeOK, RedisSide
<1>3. courier[w].entry.op = "revoke_user" /\ g \in 0..MaxEpoch
  BY <1>1, <1>2, EntryShape, SessionBoundAssumption DEF CourierSound
<1>4. Careful
  BY <1>1, <1>2, CarefulKeys
<1> QED
  BY <1>1, <1>2, <1>3, <1>4, CourierTo

\* An entry is settled as done by whoever has carried it out, and only then.
LEMMA SettleKeeps ==
    ASSUME SessionIInv, NEW w \in Worker, NEW state \in {"done", "dead", "later"}, Settle(w, state),
           courier[w].pc = "complete" \/ (courier[w].pc = "fail" /\ state # "done"),
           UNCHANGED <<userVars, row, redisVars, finder>>
    PROVE  SessionIInv'
<1> DEFINE e == courier[w].entry
<1>1. /\ outbox \in [Entry -> DeliveryType] /\ keys \subseteq Session /\ marker \in 0..MaxEpoch
      /\ CourierSound(w) /\ UNCHANGED <<keys, marker>>
  BY DEF SessionIInv, SessionTypeOK, DeliveryType, RedisSide, redisVars
<1>2. e \in Entry
  BY <1>1 DEF CourierSound
<1>3. /\ courier' = [courier EXCEPT ![w] = NoDelivery]
      /\ outbox' = outbox \/ outbox' = [outbox EXCEPT ![e].state = state]
  BY DEF Settle
<1>4. Careful
  <2>1. CASE outbox' = outbox
    BY <1>1, <2>1, CarefulKeys
  <2>2. CASE outbox' = [outbox EXCEPT ![e].state = state]
    <3>1. /\ outbox' \in [Entry -> DeliveryType] /\ outbox'[e].state = state
          /\ \A d \in Entry \ {e} : outbox'[d] = outbox[d]
      BY <1>1, <1>2, <2>2 DEF DeliveryType, EntryState
    <3>2. e.op = "revoke_session" =>
             /\ row[e.session].state = "revoked"
             /\ state = "done" => e.session \notin keys
      BY <1>1 DEF CourierSound
    <3> QED
      BY <1>1, <3>1, <3>2 DEF Careful
  <2> QED
    BY <1>3, <2>1, <2>2
<1> QED
  BY <1>1, <1>3, <1>4, CourierDone

LEMMA DeliverKeeps ==
    ASSUME SessionIInv, NEW w \in Worker, Deliver(w) \/ CourierCrashes(w)
    PROVE  SessionIInv'
<1>1. ASSUME courier' = [courier EXCEPT ![w] = NoDelivery], UNCHANGED <<outbox, userVars, row, redisVars, finder>>
      PROVE  SessionIInv'
  <2>1. keys' \subseteq Session /\ keys' = keys /\ marker' \in 0..MaxEpoch
    BY <1>1 DEF redisVars, SessionIInv, SessionTypeOK
  <2>2. Careful
    BY <1>1, <2>1, CarefulKeys
  <2> QED
    BY <1>1, <2>1, <2>2, CourierDone
<1>2. CASE Complete(w)
  <2>0. courier[w].pc = "complete"
    BY <1>2 DEF Complete
  <2>1. UNCHANGED <<userVars, row, redisVars, finder>>
    BY <1>2 DEF Complete
  <2>2. CASE Settle(w, "done")
    <3>1. PICK state \in {"done", "dead", "later"} : state = "done"
      OBVIOUS
    <3>2. Settle(w, state)
      BY <2>2, <3>1
    <3>3. courier[w].pc = "complete" \/ (courier[w].pc = "fail" /\ state # "done")
      BY <2>0
    <3>4. UNCHANGED <<userVars, row, redisVars, finder>>
      BY <2>1
    <3> HIDE <1>1
    <3> QED
      BY <3>2, <3>3, <3>4, SettleKeeps
  <2>3. CASE courier' = [courier EXCEPT ![w] = NoDelivery] /\ UNCHANGED outbox
    BY <1>1, <2>1, <2>3
  <2> QED
    BY <1>2, <2>2, <2>3 DEF Complete
<1>3. CASE RecordFailure(w)
  BY <1>3, SettleKeeps DEF RecordFailure
<1>4. CASE CourierCrashes(w)
  BY <1>1, <1>4 DEF CourierCrashes, storeVars
<1> QED
  BY <1>2, <1>3, <1>4, SyncReadsKeeps, SyncSetsKeeps, RevokeDeletesKeeps, UserDeletesKeeps,
     UserAdvancesKeeps DEF Deliver

LEMMA OutboxStep ==
    ASSUME SessionIInv, OutboxNext
    PROVE  SessionIInv' /\ UNCHANGED <<userVars, row>>
<1>1. SessionIInv'
  BY DeliverKeeps, ClaimKeeps, EntryKeeps DEF OutboxNext
<1>2. UNCHANGED <<userVars, row>>
  BY DEF OutboxNext, Deliver, SyncReads, SyncSets, RevokeDeletes, UserDeletes, UserAdvances, Complete,
         RecordFailure, CourierCrashes, Claim, Due, PruneEntry, storeVars
<1> QED
  BY <1>1, <1>2

---------------------------------------------------------------------------
\* What a step of Sessions does to those who look on: nothing comes to life but what
\* Save writes, or everything is revoked and a new epoch begins.

EpochBegins == epoch' = epoch + 1 /\ \A s \in Session : row'[s].state # "live"

LEMMA RowStep ==
    ASSUME SessionIInv, RowNext
    PROVE  /\ SessionIInv'
           /\ \/ UNCHANGED epoch /\ Fades(Session)
              \/ EpochBegins /\ Fades(Session)
              \/ UNCHANGED epoch /\ \E s \in Session : row[s].state = "none" /\ Fades(Session \ {s})
                                                          /\ row'[s].state = "live"
<1>1. enabled \in BOOLEAN /\ role \in Role
  BY DEF SessionIInv, SessionTypeOK
<1>2. CASE SignOutEverywhere \/ ChangeRole \/ DisableUser
  <2>1. RevokeAll /\ enabled' \in BOOLEAN /\ role' \in Role /\ UNCHANGED <<redisVars, courier, finder>>
    BY <1>1, <1>2 DEF SignOutEverywhere, ChangeRole, DisableUser
  <2> QED
    BY <2>1, RevokeAllKeeps DEF EpochBegins
<1>3. CASE EnableUser
  <2>1. UNCHANGED <<epoch, row>>
    BY <1>3 DEF EnableUser
  <2> QED
    BY <1>3, <2>1, EnableUserKeeps DEF Fades
<1>4. ASSUME NEW s \in Session, Save(s)
      PROVE  /\ SessionIInv' /\ UNCHANGED epoch
             /\ row[s].state = "none" /\ Fades(Session \ {s}) /\ row'[s].state = "live"
  BY <1>4, SaveKeeps DEF Save, SaveSession, userVars
<1>5. ASSUME NEW s \in Session, RevokeSession(s)
      PROVE  SessionIInv' /\ UNCHANGED epoch /\ Fades(Session)
  BY <1>5, RevokeSessionKeeps DEF RevokeSession, userVars
<1>6. ASSUME NEW s \in Session, ExpireSession(s)
      PROVE  SessionIInv' /\ UNCHANGED epoch /\ Fades(Session)
  BY <1>6, ExpireSessionKeeps DEF ExpireSession, userVars
<1> QED
  BY <1>2, <1>3, <1>4, <1>5, <1>6 DEF RowNext

LEMMA SessionStep ==
    ASSUME SessionIInv, SessionNext
    PROVE  /\ SessionIInv'
           /\ \/ UNCHANGED epoch /\ Fades(Session)
              \/ EpochBegins /\ Fades(Session)
              \/ UNCHANGED epoch /\ \E s \in Session : row[s].state = "none" /\ Fades(Session \ {s})
                                                          /\ row'[s].state = "live"
<1>1. CASE FindNext
  <2>1. UNCHANGED epoch
    BY <1>1 DEF FindNext, PayloadReads, FindRechecks, FindRenews, FindAnswers, FindReads, storeVars, userVars
  <2> QED
    BY <1>1, <2>1, FindKeeps
<1>2. CASE OutboxNext
  BY <1>2, OutboxStep DEF userVars, Fades
<1> QED
  BY <1>1, <1>2, RowStep DEF SessionNext

---------------------------------------------------------------------------
\* Logins: the invariant, under everything that Sessions lets happen meanwhile.

RequestType ==
    [pc : RequestPlace, via : {"none", "password", "passkey"}, epoch : 0..MaxEpoch,
     shown : 0..MaxEpoch, secret : 0..MaxEpoch, ticket : BOOLEAN, session : Session \cup {None}]
TicketType == [live : BOOLEAN, epoch : 0..MaxEpoch, shown : 0..MaxEpoch]
ProofType ==
    [via : {"none", "password", "passkey"}, shown : 0..MaxEpoch, secret : 0..MaxEpoch, owed : BOOLEAN]

AccountTypes ==
    /\ password \in 1..MaxEpoch /\ factor \in 0..MaxEpoch /\ passkey \in 0..MaxEpoch
    /\ claimed \subseteq Step /\ challenge \in BOOLEAN /\ pending \in Request \cup {None}
    /\ clearing \in 0..MaxEpoch /\ clearing < epoch

\* What a request was shown is what there is now, unless an epoch has begun since.
RecordSound(x) ==
    /\ x.epoch <= epoch
    /\ x.pc \in {"methods", "secret", "claim", "migrate", "take", "second", "ticket", "write"} =>
          x.via = "password"
    /\ x.via = "password" /\ x.epoch = epoch => x.shown = password
    /\ x.pc = "epoch" => x.via = "passkey"
    /\ x.via = "passkey" => x.shown # 0
    /\ x.pc = "primary" /\ x.via = "passkey" /\ x.epoch = epoch => x.shown = passkey
    /\ x.pc \in {"claim", "migrate", "take", "second"} /\ x.epoch = epoch =>
          factor # 0 /\ x.secret = factor
    /\ x.pc = "audit" => x.session \in Session

RequestsSound == request \in [Request -> RequestType] /\ \A r \in Request : RecordSound(request[r])

TicketSound ==
    /\ ticket \in TicketType /\ ticket.epoch <= epoch
    /\ ticket.live /\ ticket.epoch = epoch => ticket.shown = password

\* A live row rests on what there is now, and what is not yet written rests on nothing.
Proven(s) ==
    /\ row[s].state = "none" => proof[s] = NoProof
    /\ row[s].state = "live" =>
          /\ proof[s].via = "password" => proof[s].shown = password
          /\ proof[s].via = "passkey" => passkey # 0 /\ proof[s].shown = passkey
          /\ proof[s].owed => factor # 0 /\ proof[s].secret = factor

ProofsSound == proof \in [Session -> ProofType] /\ \A s \in Session : Proven(s)

AccountIInv == SessionIInv /\ AccountTypes /\ RequestsSound /\ TicketSound /\ ProofsSound

LEMMA AccountStarts == Init => AccountIInv
<1> SUFFICES ASSUME Init PROVE AccountIInv
  OBVIOUS
<1> USE SessionBoundAssumption
<1>1. SessionIInv /\ epoch = 1
  BY SessionStarts DEF Init, SessionInit
<1>2. AccountTypes
  <2>1. MaxEpoch \in Nat /\ MaxEpoch >= 1
    OBVIOUS
  <2>2. /\ password = 1 /\ factor \in 0..1 /\ passkey \in 0..1 /\ clearing = 0
        /\ claimed = {} /\ challenge = FALSE /\ pending = None
    BY DEF Init
  <2>3. challenge \in BOOLEAN
    BY <2>2
  <2>4. /\ password \in 1..MaxEpoch /\ factor \in 0..MaxEpoch /\ passkey \in 0..MaxEpoch
        /\ clearing \in 0..MaxEpoch /\ clearing < epoch
    BY <1>1, <2>1, <2>2
  <2> QED
    BY <2>2, <2>3, <2>4 DEF AccountTypes
<1>3. RequestsSound
  BY <1>1 DEF Init, RequestsSound, RecordSound, RequestType, RequestPlace, Fresh
<1>4. TicketSound
  BY <1>1 DEF Init, TicketSound, TicketType, NoTicket
<1>5. ProofsSound
  <2>1. NoProof \in ProofType /\ ~NoProof.owed /\ NoProof.via = "none"
    BY DEF NoProof, ProofType
  <2>2. proof = [s \in Session |-> NoProof]
    BY DEF Init
  <2> HIDE DEF Init
  <2> QED
    BY <2>1, <2>2 DEF ProofsSound, Proven
<1> QED
  BY <1>1, <1>2, <1>3, <1>4, <1>5 DEF AccountIInv

\* A new epoch: no session, no request and no ticket is of it yet.
LEMMA EpochTurns ==
    ASSUME AccountIInv, SessionIInv', EpochBegins, Fades(Session),
           password' \in 1..MaxEpoch, factor' \in 0..MaxEpoch, passkey' \in 0..MaxEpoch,
           clearing' \in {clearing, clearing + 1},
           UNCHANGED <<request, ticket, challenge, pending, claimed, proof>>
    PROVE  AccountIInv'
<1>1. epoch \in 1..MaxEpoch /\ epoch' \in 1..MaxEpoch /\ epoch' = epoch + 1
  BY DEF AccountIInv, SessionIInv, SessionTypeOK, EpochBegins
<1>2. AccountTypes'
  BY <1>1, SessionBoundAssumption DEF AccountIInv, AccountTypes
<1>3. RequestsSound'
  <2>1. request \in [Request -> RequestType] /\ request' = request
    BY DEF AccountIInv, RequestsSound
  <2>2. ASSUME NEW r \in Request PROVE RecordSound(request[r])'
    <3>1. RecordSound(request[r]) /\ request[r].epoch \in 0..MaxEpoch
      BY <2>1 DEF AccountIInv, RequestsSound, RequestType
    <3>2. request[r].epoch <= epoch' /\ request[r].epoch # epoch'
      BY <1>1, <3>1 DEF RecordSound
    <3> QED
      BY <2>1, <3>1, <3>2 DEF RecordSound
  <2> QED
    BY <2>1, <2>2 DEF RequestsSound
<1>4. TicketSound'
  <2>1. ticket \in TicketType /\ ticket.epoch <= epoch /\ ticket' = ticket
    BY DEF AccountIInv, TicketSound
  <2>2. ticket.epoch \in 0..MaxEpoch
    BY <2>1 DEF TicketType
  <2>3. ticket.epoch <= epoch' /\ ticket.epoch # epoch'
    BY <1>1, <2>1, <2>2
  <2> QED
    BY <2>1, <2>3 DEF TicketSound
<1>5. ProofsSound'
  BY DEF AccountIInv, ProofsSound, Proven, EpochBegins, Fades
<1> QED
  BY <1>2, <1>3, <1>4, <1>5 DEF AccountIInv

\* The rows change and the epoch stays.  What comes to life beside the logins was
\* shown nothing.
LEMMA RowsChange ==
    ASSUME AccountIInv, SessionIInv', UNCHANGED <<epoch, loginVars>>,
           \/ Fades(Session)
           \/ \E s \in Session : /\ row[s].state = "none" /\ row'[s].state = "live"
                                 /\ Fades(Session \ {s})
    PROVE  AccountIInv'
<1>1. UNCHANGED <<epoch, password, factor, passkey, request, ticket, challenge, pending, claimed,
                  clearing, proof>>
  BY DEF loginVars, accountVars, secondVars
<1>2. AccountTypes' /\ RequestsSound' /\ TicketSound'
  BY <1>1 DEF AccountIInv, AccountTypes, RequestsSound, RecordSound, TicketSound
<1>3. ASSUME NEW s \in Session PROVE Proven(s)'
  <2>1. Proven(s)
    BY DEF AccountIInv, ProofsSound
  <2>2. CASE row'[s].state = "live" => row[s].state = "live"
    <3>1. row'[s].state = "none" => row[s].state = "none"
      BY DEF Fades
    <3> QED
      BY <1>1, <2>1, <2>2, <3>1 DEF Proven
  <2>3. CASE row[s].state = "none" /\ row'[s].state = "live"
    BY <1>1, <2>1, <2>3 DEF Proven, NoProof
  <2> QED
    BY <2>2, <2>3 DEF Fades
<1> QED
  BY <1>1, <1>2, <1>3 DEF AccountIInv, ProofsSound

\* A request goes on to x; it may leave a ticket.
LEMMA RequestTo ==
    ASSUME AccountIInv, NEW r \in Request, NEW x \in RequestType, RecordSound(x),
           request' = [request EXCEPT ![r] = x],
           UNCHANGED <<sessionVars, accountVars, clearing, proof>>,
           challenge' \in BOOLEAN, pending' \in Request \cup {None}, claimed' \subseteq Step,
           ticket' = ticket \/ TicketSound'
    PROVE  AccountIInv'
<1>1. /\ UNCHANGED <<epoch, password, factor, passkey, clearing, proof>>
      /\ UNCHANGED <<enabled, role, row, outbox, keys, marker, courier, finder>>
  BY DEF sessionVars, storeVars, userVars, redisVars, accountVars
<1>2. SessionIInv'
  BY <1>1 DEF AccountIInv, SessionIInv, SessionTypeOK, UserSide, RoleKept, LookupSound, RedisSide,
              Announced, Forgotten, CourierSound
<1>3. AccountTypes' /\ ProofsSound' /\ TicketSound'
  BY <1>1 DEF AccountIInv, AccountTypes, ProofsSound, Proven, TicketSound
<1>4. request \in [Request -> RequestType] /\ \A q \in Request : RecordSound(request[q])
  BY DEF AccountIInv, RequestsSound
<1>5. ASSUME NEW q \in Request PROVE RecordSound(request[q])'
  <2>1. request'[q] = IF q = r THEN x ELSE request[q]
    BY <1>4
  <2>2. RecordSound(request'[q])
    BY <1>4, <2>1
  <2> QED
    BY <1>1, <2>2 DEF RecordSound
<1>6. RequestsSound'
  BY <1>4, <1>5 DEF RequestsSound
<1> QED
  BY <1>2, <1>3, <1>6 DEF AccountIInv

\* What every step of a request finds.
LEMMA Found ==
    ASSUME AccountIInv, NEW r \in Request
    PROVE  /\ request[r] \in RequestType /\ RecordSound(request[r])
           /\ epoch \in 1..MaxEpoch /\ password \in 1..MaxEpoch
           /\ factor \in 0..MaxEpoch /\ passkey \in 0..MaxEpoch
           /\ ticket \in TicketType /\ ticket.epoch <= epoch
           /\ ticket.live /\ ticket.epoch = epoch => ticket.shown = password
           /\ challenge \in BOOLEAN /\ pending \in Request \cup {None} /\ claimed \subseteq Step
           /\ Fresh \in RequestType /\ Fresh.pc = "idle" /\ Fresh.via = "none" /\ Fresh.epoch = 0
BY SessionBoundAssumption
   DEF AccountIInv, RequestsSound, AccountTypes, SessionIInv, SessionTypeOK, TicketSound, Fresh,
       RequestType, RequestPlace

\* A request that is answered makes no claim.
LEMMA Answers ==
    ASSUME AccountIInv, NEW r \in Request, EndsRequest(r),
           UNCHANGED <<sessionVars, accountVars, clearing, proof>>,
           challenge' \in BOOLEAN, pending' \in Request \cup {None}, claimed' \subseteq Step,
           ticket' = ticket \/ TicketSound'
    PROVE  AccountIInv'
<1>1. PICK x \in RequestType : x = Fresh
  BY Found
<1>2. x.pc = "idle" /\ x.via = "none" /\ x.epoch = 0 /\ epoch \in 1..MaxEpoch
  BY <1>1, Found
<1>3. RecordSound(x)
  BY <1>2 DEF RecordSound
<1>4. request' = [request EXCEPT ![r] = x]
  BY <1>1 DEF EndsRequest
<1> QED
  BY <1>3, <1>4, RequestTo

\* A request that moves keeps what it was shown.
LEMMA GoesOn ==
    ASSUME AccountIInv, NEW r \in Request, NEW place \in RequestPlace, Goes(r, place),
           UNCHANGED <<sessionVars, accountVars, clearing, proof>>,
           challenge' \in BOOLEAN, pending' \in Request \cup {None}, claimed' \subseteq Step,
           ticket' = ticket \/ TicketSound',
           place \in {"methods", "secret", "claim", "migrate", "take", "second", "ticket", "write"} =>
              request[r].via = "password",
           place = "primary" /\ request[r].via = "passkey" /\ request[r].epoch = epoch =>
              request[r].shown = passkey,
           place \in {"claim", "migrate", "take", "second"} /\ request[r].epoch = epoch =>
              factor # 0 /\ request[r].secret = factor,
           place \notin {"audit", "epoch"}
    PROVE  AccountIInv'
<1>1. request[r] \in RequestType /\ RecordSound(request[r])
  BY Found
<1>2. PICK x \in RequestType :
         /\ x = [request[r] EXCEPT !.pc = place]
         /\ x.pc = place /\ x.via = request[r].via /\ x.epoch = request[r].epoch
         /\ x.shown = request[r].shown /\ x.secret = request[r].secret
  <2> DEFINE next == [request[r] EXCEPT !.pc = place]
  <2>1. /\ next \in RequestType
        /\ next.pc = place /\ next.via = request[r].via /\ next.epoch = request[r].epoch
        /\ next.shown = request[r].shown /\ next.secret = request[r].secret
    BY <1>1 DEF RequestType
  <2> HIDE DEF next
  <2>2. \E x \in RequestType :
           /\ x = next /\ x.pc = place /\ x.via = request[r].via /\ x.epoch = request[r].epoch
           /\ x.shown = request[r].shown /\ x.secret = request[r].secret
    BY <2>1
  <2> QED
    BY <2>2 DEF next
<1>3. RecordSound(x)
  BY <1>1, <1>2 DEF RecordSound
<1>4. request' = [request EXCEPT ![r] = x]
  BY <1>2 DEF Goes, AccountIInv, RequestsSound
<1> QED
  BY <1>3, <1>4, RequestTo

\* A request that begins.
LEMMA AuthenticateKeeps ==
    ASSUME AccountIInv, NEW r \in Request, Authenticate(r) \/ PresentTicket(r) \/ VerifyPasskey(r)
    PROVE  AccountIInv'
<1>1. UNCHANGED <<sessionVars, accountVars, clearing, proof, challenge, pending, claimed, ticket>>
  BY DEF Authenticate, PresentTicket, VerifyPasskey, NothingElse, Quiet, secondVars
<1>2. PICK x \in RequestType : request' = [request EXCEPT ![r] = x] /\ RecordSound(x)
  <2>1. CASE Authenticate(r)
    <3> DEFINE next == [Fresh EXCEPT !.pc = "methods", !.via = "password", !.epoch = epoch,
                                     !.shown = password]
    <3>0. Fresh \in RequestType /\ epoch \in 0..MaxEpoch /\ password \in 0..MaxEpoch
      BY Found
    <3>1. /\ next \in RequestType
          /\ next.pc = "methods" /\ next.via = "password" /\ next.epoch = epoch /\ next.shown = password
      BY <3>0 DEF RequestType, RequestPlace
    <3>2. request' = [request EXCEPT ![r] = next]
      BY <2>1 DEF Authenticate
    <3> HIDE DEF next
    <3>3. RecordSound(next)
      BY <3>1, Found DEF RecordSound
    <3> QED
      BY <3>1, <3>2, <3>3
  <2>2. CASE PresentTicket(r)
    <3> DEFINE next == [Fresh EXCEPT !.pc = "secret", !.via = "password", !.epoch = ticket.epoch,
                                     !.shown = ticket.shown, !.ticket = TRUE]
    <3>1. /\ next \in RequestType /\ next.pc = "secret" /\ next.via = "password"
          /\ next.epoch = ticket.epoch /\ next.shown = ticket.shown
      BY Found DEF RequestType, RequestPlace, TicketType
    <3>2. request' = [request EXCEPT ![r] = next] /\ ticket.live /\ ticket.epoch = epoch
      BY <2>2 DEF PresentTicket
    <3> HIDE DEF next
    <3>3. RecordSound(next)
      BY <3>1, <3>2, Found DEF RecordSound
    <3> QED
      BY <3>1, <3>2, <3>3
  <2>3. CASE VerifyPasskey(r)
    <3> DEFINE next == [Fresh EXCEPT !.pc = "epoch", !.via = "passkey", !.shown = passkey]
    <3>1. /\ next \in RequestType /\ next.pc = "epoch" /\ next.via = "passkey" /\ next.shown = passkey
          /\ next.epoch = 0
      BY Found DEF RequestType, RequestPlace
    <3>2. request' = [request EXCEPT ![r] = next] /\ passkey # 0
      BY <2>3 DEF VerifyPasskey
    <3> HIDE DEF next
    <3>3. RecordSound(next)
      BY <3>1, <3>2, Found DEF RecordSound
    <3> QED
      BY <3>1, <3>2, <3>3
  <2> QED
    BY <2>1, <2>2, <2>3
<1> QED
  BY <1>1, <1>2, Found, RequestTo

\* What is shown later is of now as well: the secret, and the epoch of a passkey's user.
LEMMA ReadsKeeps ==
    ASSUME AccountIInv, NEW r \in Request, ReadSecret(r) \/ ReadEpoch(r) \/ StartEnrollment(r)
    PROVE  AccountIInv'
<1>1. /\ UNCHANGED <<sessionVars, accountVars, clearing, proof, challenge, claimed, ticket>>
      /\ pending' \in Request \cup {None}
  <2>1. pending \in Request \cup {None}
    BY Found
  <2> QED
    BY <2>1 DEF ReadSecret, ReadEpoch, StartEnrollment, NothingElse, Quiet, secondVars
<1>2. request[r] \in RequestType /\ RecordSound(request[r]) /\ request \in [Request -> RequestType]
  BY Found DEF AccountIInv, RequestsSound
<1>3. ASSUME NEW x \in RequestType, RecordSound(x), request' = [request EXCEPT ![r] = x]
      PROVE  AccountIInv'
  BY <1>1, <1>3, Found, RequestTo
<1>4. CASE EndsRequest(r)
  BY <1>1, <1>4, Found, Answers
<1>5. CASE ReadSecret(r) /\ ~EndsRequest(r)
  <2> DEFINE next == [request[r] EXCEPT !.pc = "claim", !.secret = factor]
  <2>1. /\ next \in RequestType /\ next.pc = "claim" /\ next.via = request[r].via
        /\ next.epoch = request[r].epoch /\ next.shown = request[r].shown /\ next.secret = factor
    BY <1>2, Found DEF RequestType, RequestPlace
  <2>2. request[r].pc = "secret" /\ factor # 0 /\ request' = [request EXCEPT ![r] = next]
    BY <1>2, <1>5 DEF ReadSecret
  <2> HIDE DEF next
  <2>3. RecordSound(next)
    BY <1>2, <2>1, <2>2 DEF RecordSound
  <2> QED
    BY <1>3, <2>1, <2>2, <2>3
<1>6. CASE ReadEpoch(r) /\ ~EndsRequest(r)
  <2> DEFINE next == [request[r] EXCEPT !.pc = "challenge", !.epoch = epoch]
  <2>0. epoch \in 0..MaxEpoch
    BY Found
  <2>1. /\ next \in RequestType /\ next.pc = "challenge" /\ next.via = request[r].via
        /\ next.epoch = epoch /\ next.shown = request[r].shown
    BY <1>2, <2>0 DEF RequestType, RequestPlace
  <2>2. request[r].pc = "epoch" /\ request' = [request EXCEPT ![r] = next]
    BY <1>2, <1>6 DEF ReadEpoch
  <2> HIDE DEF next
  <2>3. RecordSound(next)
    BY <1>2, <2>1, <2>2, Found DEF RecordSound
  <2> QED
    BY <1>3, <2>1, <2>2, <2>3
<1>7. CASE StartEnrollment(r)
  <2> DEFINE next == [Fresh EXCEPT !.pc = "enroll", !.epoch = epoch, !.secret = epoch]
  <2>0. Fresh \in RequestType /\ Fresh.via = "none" /\ epoch \in 0..MaxEpoch
    BY Found
  <2>1. next \in RequestType /\ next.pc = "enroll" /\ next.via = "none" /\ next.epoch = epoch
    BY <2>0 DEF RequestType, RequestPlace
  <2>2. request' = [request EXCEPT ![r] = next]
    BY <1>7 DEF StartEnrollment
  <2> HIDE DEF next
  <2>3. RecordSound(next)
    BY <2>1, Found DEF RecordSound
  <2> QED
    BY <1>3, <2>1, <2>2, <2>3
<1> QED
  BY <1>4, <1>5, <1>6, <1>7

\* Every other step of a request: where it may go is what it has been shown.
LEMMA MovesKeep ==
    ASSUME AccountIInv, NEW r \in Request,
           \/ DecideLogin(r) \/ CheckTicketEpoch(r) \/ ClaimCode(r) \/ MigrateSecret(r)
           \/ TakeChallenge(r) \/ PersistPasskey(r) \/ ClaimEnrollment(r) \/ TakeEnrollment(r)
    PROVE  AccountIInv'
<1>1. challenge \in BOOLEAN /\ pending \in Request \cup {None} /\ claimed \subseteq Step
  BY Found
<1>2. /\ UNCHANGED <<sessionVars, accountVars, clearing, proof, ticket>>
      /\ challenge' \in BOOLEAN /\ pending' \in Request \cup {None} /\ claimed' \subseteq Step
  <2>1. CASE DecideLogin(r) \/ CheckTicketEpoch(r) \/ MigrateSecret(r)
    BY <1>1, <2>1 DEF DecideLogin, CheckTicketEpoch, MigrateSecret, NothingElse, Quiet, secondVars
  <2>2. CASE ClaimCode(r) \/ ClaimEnrollment(r)
    BY <1>1, <2>2 DEF ClaimCode, ClaimEnrollment, ClaimStep, Quiet
  <2>3. CASE TakeChallenge(r) \/ PersistPasskey(r)
    BY <1>1, <2>3 DEF TakeChallenge, PersistPasskey, Quiet
  <2>4. CASE TakeEnrollment(r)
    BY <1>1, <2>4 DEF TakeEnrollment, Quiet
  <2> QED
    BY <2>1, <2>2, <2>3, <2>4
<1>3. CASE EndsRequest(r)
  BY <1>2, <1>3, Answers
<1>4. RecordSound(request[r])
  BY Found
<1>5. PICK place \in RequestPlace :
         /\ Goes(r, place) \/ EndsRequest(r)
         /\ place \in {"primary", "secret", "ticket", "write", "migrate", "take", "second", "persist",
                       "reserve", "insert"}
         /\ place \in {"secret", "write", "migrate", "take", "second", "ticket"} =>
               request[r].pc \in {"methods", "ticket", "claim", "migrate"}
         /\ place \in {"migrate", "take", "second"} => request[r].pc \in {"claim", "migrate"}
         /\ place = "primary" => \/ request[r].pc = "methods"
                                 \/ request[r].pc = "persist" /\ passkey = request[r].shown
  <2>1. CASE DecideLogin(r)
    BY <2>1 DEF DecideLogin, RequestPlace
  <2>2. CASE CheckTicketEpoch(r)
    BY <2>2 DEF CheckTicketEpoch, RequestPlace
  <2>3. CASE ClaimCode(r)
    BY <2>3 DEF ClaimCode, ClaimStep, RequestPlace
  <2>4. CASE MigrateSecret(r)
    <3>1. PICK place \in {"take", "second"} : Goes(r, place) \/ EndsRequest(r)
      BY <2>4 DEF MigrateSecret
    <3> QED
      BY <2>4, <3>1 DEF MigrateSecret, RequestPlace
  <2>5. CASE TakeChallenge(r)
    BY <2>5 DEF TakeChallenge, RequestPlace
  <2>6. CASE PersistPasskey(r)
    BY <2>6 DEF PersistPasskey, RequestPlace
  <2>7. CASE ClaimEnrollment(r)
    BY <2>7 DEF ClaimEnrollment, ClaimStep, RequestPlace
  <2>8. CASE TakeEnrollment(r)
    BY <2>8 DEF TakeEnrollment, RequestPlace
  <2> QED
    BY <2>1, <2>2, <2>3, <2>4, <2>5, <2>6, <2>7, <2>8
<1>6. /\ place \in {"methods", "secret", "claim", "migrate", "take", "second", "ticket", "write"} =>
            request[r].via = "password"
      /\ place = "primary" /\ request[r].via = "passkey" /\ request[r].epoch = epoch =>
            request[r].shown = passkey
      /\ place \in {"claim", "migrate", "take", "second"} /\ request[r].epoch = epoch =>
            factor # 0 /\ request[r].secret = factor
      /\ place \notin {"audit", "epoch"}
  BY <1>4, <1>5 DEF RecordSound
<1>7. CASE Goes(r, place)
  BY <1>2, <1>5, <1>6, <1>7, GoesOn
<1> QED
  BY <1>3, <1>5, <1>7

\* Login tickets carry what the request had been shown.
LEMMA TicketsKeep ==
    ASSUME AccountIInv, NEW r \in Request, WriteTicket(r) \/ TakeTicket(r)
    PROVE  AccountIInv'
<1>1. /\ UNCHANGED <<sessionVars, accountVars, clearing, proof, challenge, pending, claimed>>
      /\ UNCHANGED <<epoch, password>>
  BY DEF WriteTicket, TakeTicket, Quiet, sessionVars, storeVars, userVars, accountVars
<1>2. request[r] \in RequestType /\ RecordSound(request[r]) /\ epoch \in 1..MaxEpoch
  BY Found
<1>3. ticket' = ticket \/ TicketSound'
  <2>1. CASE ticket' = NoTicket
    <3>1. NoTicket \in TicketType /\ NoTicket.epoch = 0 /\ ~NoTicket.live
      BY SessionBoundAssumption DEF NoTicket, TicketType
    <3>2. epoch' = epoch
      BY <1>1
    <3> QED
      BY <1>2, <2>1, <3>1, <3>2 DEF TicketSound
  <2>2. CASE WriteTicket(r) /\ ticket' # ticket
    <3>1. /\ request[r].pc = "write"
          /\ ticket' = [live |-> TRUE, epoch |-> request[r].epoch, shown |-> request[r].shown]
      BY <2>2 DEF WriteTicket
    <3>2. ticket' \in TicketType
      BY <1>2, <3>1 DEF TicketType, RequestType
    <3>3. ticket'.epoch = request[r].epoch /\ ticket'.shown = request[r].shown
      BY <3>1
    <3>4. request[r].epoch <= epoch /\ (request[r].epoch = epoch => request[r].shown = password)
      BY <1>2, <3>1 DEF RecordSound
    <3> QED
      BY <1>1, <3>2, <3>3, <3>4 DEF TicketSound
  <2> QED
    BY <2>1, <2>2 DEF WriteTicket, TakeTicket
<1>4. challenge' \in BOOLEAN /\ pending' \in Request \cup {None} /\ claimed' \subseteq Step
  BY <1>1, Found
<1>5. CASE EndsRequest(r)
  BY <1>1, <1>3, <1>4, <1>5, Answers
<1>6. CASE request[r].pc = "take" /\ Goes(r, "second")
  <2>1. "second" \in RequestPlace
    BY DEF RequestPlace
  <2>2. request[r].via = "password" /\ (request[r].epoch = epoch => factor # 0 /\ request[r].secret = factor)
    BY <1>2, <1>6 DEF RecordSound
  <2> QED
    BY <1>1, <1>3, <1>4, <1>6, <2>1, <2>2, GoesOn
<1> QED
  BY <1>5, <1>6 DEF WriteTicket, TakeTicket

\* The write of a session, of what the request was shown.
LEMMA SavesKeep ==
    ASSUME AccountIInv, NEW r \in Request, NEW s \in Session, SaveSession(s), Proves(r, s),
           request' = [request EXCEPT ![r].pc = "audit", ![r].session = s],
           request[r].epoch = epoch, request[r].pc = "second" \/ (request[r].pc = "primary" /\ factor = 0),
           UNCHANGED <<userVars, redisVars, courier, finder, accountVars, secondVars>>
    PROVE  AccountIInv'
<1>1. SessionIInv' /\ row'[s].state = "live" /\ Fades(Session \ {s})
  BY SaveKeeps DEF AccountIInv
<1>2. UNCHANGED <<epoch, password, factor, passkey, ticket, challenge, pending, claimed, clearing>>
  BY DEF userVars, accountVars, secondVars
<1>3. AccountTypes' /\ TicketSound'
  BY <1>2 DEF AccountIInv, AccountTypes, TicketSound
<1>4. /\ request \in [Request -> RequestType] /\ request[r] \in RequestType
      /\ \A q \in Request : RecordSound(request[q])
  BY DEF AccountIInv, RequestsSound
<1>5. RequestsSound'
  <2> DEFINE next == [request[r] EXCEPT !.pc = "audit", !.session = s]
  <2>1. /\ next \in RequestType /\ next.pc = "audit" /\ next.session = s /\ next.via = request[r].via
        /\ next.epoch = request[r].epoch /\ next.shown = request[r].shown
    BY <1>4 DEF RequestType, RequestPlace
  <2>2. request' = [request EXCEPT ![r] = next]
    BY <1>4
  <2> HIDE DEF next
  <2>3. ASSUME NEW q \in Request PROVE RecordSound(request[q])'
    <3>1. request'[q] = IF q = r THEN next ELSE request[q]
      BY <1>4, <2>2
    <3>2. RecordSound(request'[q])
      BY <1>4, <2>1, <3>1 DEF RecordSound
    <3> QED
      BY <1>2, <3>2 DEF RecordSound
  <2> QED
    BY <1>4, <2>1, <2>2, <2>3 DEF RequestsSound
<1>6. proof \in [Session -> ProofType] /\ \A v \in Session : Proven(v)
  BY DEF AccountIInv, ProofsSound
<1>7. /\ proof' \in [Session -> ProofType]
      /\ proof'[s].via = request[r].via /\ proof'[s].shown = request[r].shown
      /\ proof'[s].secret = request[r].secret /\ proof'[s].owed = (factor # 0)
      /\ \A v \in Session \ {s} : proof'[v] = proof[v]
  <2> DEFINE shown == [via |-> request[r].via, shown |-> request[r].shown,
                       secret |-> request[r].secret, owed |-> factor # 0]
  <2>1. /\ shown \in ProofType
        /\ shown.via = request[r].via /\ shown.shown = request[r].shown
        /\ shown.secret = request[r].secret /\ shown.owed = (factor # 0)
    BY <1>4 DEF ProofType, RequestType
  <2>2. proof' = [proof EXCEPT ![s] = shown]
    BY DEF Proves
  <2> HIDE DEF shown
  <2> QED
    BY <1>6, <2>1, <2>2
<1>8. ASSUME NEW v \in Session PROVE Proven(v)'
  <2>1. CASE v = s
    <3>1. /\ request[r].via = "password" => request[r].shown = password
          /\ request[r].via = "passkey" => passkey # 0 /\ request[r].shown = passkey
          /\ factor # 0 => request[r].secret = factor
      BY <1>4 DEF RecordSound
    <3>2. /\ proof'[s].via = "password" => proof'[s].shown = password
          /\ proof'[s].via = "passkey" => passkey # 0 /\ proof'[s].shown = passkey
      BY <1>7, <3>1
    <3>3. proof'[s].owed => factor # 0 /\ proof'[s].secret = factor
      BY <1>7, <3>1
    <3> QED
      BY <1>1, <1>2, <2>1, <3>2, <3>3 DEF Proven
  <2>2. CASE v # s
    BY <1>1, <1>2, <1>6, <1>7, <2>2 DEF Proven, Fades
  <2> QED
    BY <2>1, <2>2
<1>9. ProofsSound'
  BY <1>7, <1>8 DEF ProofsSound
<1> QED
  BY <1>1, <1>3, <1>5, <1>9 DEF AccountIInv

LEMMA IssueKeeps ==
    ASSUME AccountIInv, NEW r \in Request, SaveVerified(r) \/ SavePrimary(r)
    PROVE  AccountIInv'
<1>1. CASE /\ request[r].epoch = epoch
           /\ request[r].pc = "second" \/ (request[r].pc = "primary" /\ factor = 0)
           /\ \E s \in Session :
                 /\ SaveSession(s) /\ Proves(r, s)
                 /\ request' = [request EXCEPT ![r].pc = "audit", ![r].session = s]
  <2>1. UNCHANGED <<userVars, redisVars, courier, finder, accountVars, secondVars>>
    BY DEF SaveVerified, SavePrimary
  <2> QED
    BY <1>1, <2>1, SavesKeep
<1>2. ASSUME UNCHANGED <<row, outbox, proof>>, EndsRequest(r) \/ (Goes(r, "ticket") /\ request[r].via = "password")
      PROVE  AccountIInv'
  <2>1. UNCHANGED <<sessionVars, accountVars, clearing, proof, challenge, pending, claimed, ticket>>
    BY <1>2 DEF SaveVerified, SavePrimary, sessionVars, storeVars, secondVars
  <2>2. challenge' \in BOOLEAN /\ pending' \in Request \cup {None} /\ claimed' \subseteq Step
    BY <2>1, Found
  <2>3. CASE EndsRequest(r)
    BY <2>1, <2>2, <2>3, Answers
  <2>4. CASE Goes(r, "ticket") /\ request[r].via = "password"
    <3>1. "ticket" \in RequestPlace
      BY DEF RequestPlace
    <3> QED
      BY <2>1, <2>2, <2>4, <3>1, GoesOn
  <2> QED
    BY <1>2, <2>3, <2>4
<1>3. CASE SaveVerified(r)
  BY <1>1, <1>2, <1>3 DEF SaveVerified
<1>4. CASE SavePrimary(r)
  BY <1>1, <1>2, <1>4 DEF SavePrimary
<1> QED
  BY <1>3, <1>4

\* A factor comes to an account that had none: nobody had been asked for it.
LEMMA EnrollsKeeps ==
    ASSUME AccountIInv, NEW r \in Request, InsertFactor(r)
    PROVE  AccountIInv'
<1>1. /\ UNCHANGED <<sessionVars, password, passkey, secondVars, proof>> /\ EndsRequest(r)
      /\ \/ factor = 0 /\ factor' = request[r].secret
         \/ UNCHANGED factor
  BY DEF InsertFactor, Quiet
<1>2. UNCHANGED <<clearing, ticket, challenge, pending, claimed>>
  BY <1>1 DEF secondVars
<1>3. challenge' \in BOOLEAN /\ pending' \in Request \cup {None} /\ claimed' \subseteq Step
  BY <1>2, Found
<1>4. CASE UNCHANGED factor
  <2>1. UNCHANGED accountVars
    BY <1>1, <1>4 DEF accountVars
  <2> QED
    BY <1>1, <1>2, <1>3, <2>1, Answers
<1>5. CASE factor = 0 /\ factor' = request[r].secret
  <2>1. UNCHANGED <<epoch, enabled, role, row, outbox, keys, marker, courier, finder>>
    BY <1>1 DEF sessionVars, storeVars, userVars, redisVars
  <2>2. SessionIInv'
    BY <2>1 DEF AccountIInv, SessionIInv, SessionTypeOK, UserSide, RoleKept, LookupSound, RedisSide,
                Announced, Forgotten, CourierSound
  <2>3. request[r] \in RequestType
    BY Found
  <2>4. factor' \in 0..MaxEpoch
    BY <1>5, <2>3 DEF RequestType
  <2>5. AccountTypes' /\ TicketSound'
    BY <1>1, <1>2, <2>1, <2>4 DEF AccountIInv, AccountTypes, TicketSound
  <2>6. ASSUME NEW q \in Request PROVE request'[q] \in RequestType /\ RecordSound(request[q])'
    <3>1. request[q] \in RequestType /\ RecordSound(request[q])
      BY Found
    <3>2. Fresh \in RequestType /\ Fresh.pc = "idle" /\ Fresh.via = "none" /\ Fresh.epoch = 0 /\ epoch \in 1..MaxEpoch
      BY Found
    <3>3. request'[q] = IF q = r THEN Fresh ELSE request[q]
      BY <1>1 DEF EndsRequest, AccountIInv, RequestsSound
    <3>4. CASE q = r
      BY <2>1, <3>2, <3>3, <3>4 DEF RecordSound
    <3>5. CASE q # r
      <4>1. ~(request[q].pc \in {"claim", "migrate", "take", "second"} /\ request[q].epoch = epoch)
        BY <1>5, <3>1 DEF RecordSound
      <4> QED
        BY <1>1, <2>1, <3>1, <3>3, <3>5, <4>1 DEF RecordSound
    <3> QED
      BY <3>4, <3>5
  <2>7. RequestsSound'
    <3>1. request' = [request EXCEPT ![r] = Fresh] /\ request \in [Request -> RequestType]
      BY <1>1 DEF EndsRequest, AccountIInv, RequestsSound
    <3> QED
      BY <2>6, <3>1 DEF RequestsSound
  <2>8. ProofsSound'
    BY <1>1, <1>5, <2>1 DEF AccountIInv, ProofsSound, Proven
  <2> QED
    BY <2>2, <2>5, <2>7, <2>8 DEF AccountIInv
<1> QED
  BY <1>1, <1>4, <1>5

\* A passkey comes to an account that had none: no session rests on one, and no
\* request of this epoch has been let through with one.
LEMMA RegistersKeeps ==
    ASSUME AccountIInv, RegisterPasskey
    PROVE  AccountIInv'
<1>1. /\ UNCHANGED <<sessionVars, password, factor, secondVars, request, proof>>
      /\ passkey = 0 /\ passkey' = epoch
  BY DEF RegisterPasskey, Quiet, NoRequestMoves
<1>2. UNCHANGED <<clearing, ticket, challenge, pending, claimed>>
  BY <1>1 DEF secondVars
<1>3. UNCHANGED <<epoch, enabled, role, row, outbox, keys, marker, courier, finder>>
  BY <1>1 DEF sessionVars, storeVars, userVars, redisVars
<1>4. SessionIInv'
  BY <1>3 DEF AccountIInv, SessionIInv, SessionTypeOK, UserSide, RoleKept, LookupSound, RedisSide,
              Announced, Forgotten, CourierSound
<1>5. passkey' \in 0..MaxEpoch
  BY <1>1 DEF AccountIInv, SessionIInv, SessionTypeOK
<1>6. AccountTypes' /\ TicketSound'
  BY <1>1, <1>2, <1>3, <1>5 DEF AccountIInv, AccountTypes, TicketSound
<1>7. RequestsSound'
  BY <1>1, <1>3 DEF AccountIInv, RequestsSound, RecordSound
<1>8. ProofsSound'
  BY <1>1, <1>3 DEF AccountIInv, ProofsSound, Proven
<1> QED
  BY <1>4, <1>6, <1>7, <1>8 DEF AccountIInv

\* What is replaced or removed ends the epoch it belonged to.
LEMMA ReplacesKeeps ==
    ASSUME AccountIInv, ChangePassword \/ RemoveTotp \/ RemovePasskeys
    PROVE  AccountIInv'
<1>1. /\ RevokeAll /\ enabled' = enabled /\ role' = role /\ UNCHANGED <<redisVars, courier, finder>>
      /\ UNCHANGED <<request, ticket, challenge, pending, claimed, proof>>
      /\ password' \in {password, epoch + 1} /\ factor' \in {factor, 0} /\ passkey' \in {passkey, 0}
      /\ clearing' \in {clearing, clearing + 1}
  BY DEF ChangePassword, RemoveTotp, RemovePasskeys, NoRequestMoves, secondVars
<1>2. enabled \in BOOLEAN /\ role \in Role /\ epoch \in 1..MaxEpoch
  BY DEF AccountIInv, SessionIInv, SessionTypeOK
<1>3. SessionIInv' /\ EpochBegins /\ Fades(Session)
  BY <1>1, <1>2, RevokeAllKeeps DEF AccountIInv, EpochBegins
<1>4. password' \in 1..MaxEpoch /\ factor' \in 0..MaxEpoch /\ passkey' \in 0..MaxEpoch
  <2>1. epoch + 1 \in 1..MaxEpoch
    BY <1>1, <1>2, SessionBoundAssumption DEF RevokeAll
  <2>2. 0 \in 0..MaxEpoch
    BY SessionBoundAssumption
  <2>3. password \in 1..MaxEpoch /\ factor \in 0..MaxEpoch /\ passkey \in 0..MaxEpoch
    BY DEF AccountIInv, AccountTypes
  <2> QED
    BY <1>1, <2>1, <2>2, <2>3
<1> QED
  BY <1>1, <1>3, <1>4, EpochTurns

\* Keys that run out, and claims that are cleared.
LEMMA ForgetsKeeps ==
    ASSUME AccountIInv, ForgetPending \/ ClearReplay
    PROVE  AccountIInv'
<1>1. /\ UNCHANGED <<sessionVars, accountVars, request, proof, ticket, challenge>>
      /\ pending' \in {pending, None} /\ claimed' \in {claimed, {}}
      /\ clearing' = clearing \/ (clearing > 0 /\ clearing' = clearing - 1)
  BY DEF ForgetPending, ClearReplay, Quiet, NoRequestMoves
<1>2. UNCHANGED <<epoch, enabled, role, row, outbox, keys, marker, courier, finder, password, factor, passkey>>
  BY <1>1 DEF sessionVars, storeVars, userVars, redisVars, accountVars
<1>3. SessionIInv'
  BY <1>2 DEF AccountIInv, SessionIInv, SessionTypeOK, UserSide, RoleKept, LookupSound, RedisSide,
              Announced, Forgotten, CourierSound
<1>4. AccountTypes'
  <2>1. /\ epoch \in 1..MaxEpoch /\ clearing \in 0..MaxEpoch /\ clearing < epoch
        /\ pending \in Request \cup {None} /\ claimed \subseteq Step
    BY DEF AccountIInv, AccountTypes, SessionIInv, SessionTypeOK
  <2>2. clearing' \in 0..MaxEpoch /\ clearing' < epoch
    <3>1. clearing \in 0..MaxEpoch /\ clearing < epoch /\ epoch \in 1..MaxEpoch
      BY <2>1
    <3>2. CASE clearing' = clearing
      BY <3>1, <3>2
    <3>3. CASE clearing > 0 /\ clearing' = clearing - 1
      BY <3>1, <3>3, SessionBoundAssumption
    <3> QED
      BY <1>1, <3>2, <3>3
  <2>3. pending' \in Request \cup {None} /\ claimed' \subseteq Step
    BY <1>1, <2>1
  <2> QED
    BY <1>1, <1>2, <2>2, <2>3 DEF AccountIInv, AccountTypes
<1>5. RequestsSound' /\ TicketSound' /\ ProofsSound'
  BY <1>1, <1>2 DEF AccountIInv, RequestsSound, RecordSound, TicketSound, ProofsSound, Proven
<1> QED
  BY <1>3, <1>4, <1>5 DEF AccountIInv

\* The login is over, and takes its session with it when it could not be recorded.
LEMMA AuditsKeeps ==
    ASSUME AccountIInv, NEW r \in Request, AuditLogin(r)
    PROVE  AccountIInv'
<1> DEFINE s == request[r].session
<1>1. /\ request[r].pc = "audit" /\ EndsRequest(r) /\ UNCHANGED <<accountVars, secondVars, proof>>
      /\ RevokeSession(s) \/ UNCHANGED sessionVars
  BY DEF AuditLogin, Quiet
<1>2. UNCHANGED <<password, factor, passkey, clearing, ticket, challenge, pending, claimed, proof>>
  BY <1>1 DEF accountVars, secondVars
<1>3. challenge' \in BOOLEAN /\ pending' \in Request \cup {None} /\ claimed' \subseteq Step
  BY <1>2, Found
<1>4. CASE UNCHANGED sessionVars
  BY <1>1, <1>2, <1>3, <1>4, Answers
<1>5. CASE RevokeSession(s)
  <2>1. s \in Session
    BY <1>1, Found DEF RecordSound
  <2>2. SessionIInv' /\ Fades(Session) /\ epoch' = epoch
    BY <1>5, <2>1, RevokeSessionKeeps DEF AccountIInv, RevokeSession, userVars
  <2>3. AccountTypes' /\ TicketSound'
    BY <1>2, <2>2 DEF AccountIInv, AccountTypes, TicketSound
  <2>4. ProofsSound'
    BY <1>2, <2>2 DEF AccountIInv, ProofsSound, Proven, Fades
  <2>5. request \in [Request -> RequestType] /\ Fresh \in RequestType /\ request' = [request EXCEPT ![r] = Fresh]
    BY <1>1, Found DEF EndsRequest, AccountIInv, RequestsSound
  <2>6. ASSUME NEW q \in Request PROVE RecordSound(request[q])'
    <3>1. RecordSound(request[q]) /\ epoch \in 1..MaxEpoch
          /\ Fresh.pc = "idle" /\ Fresh.via = "none" /\ Fresh.epoch = 0
      BY Found
    <3>2. request'[q] = IF q = r THEN Fresh ELSE request[q]
      BY <2>5
    <3> QED
      BY <1>2, <2>2, <3>1, <3>2 DEF RecordSound
  <2>7. RequestsSound'
    BY <2>5, <2>6 DEF RequestsSound
  <2> QED
    BY <2>2, <2>3, <2>4, <2>7 DEF AccountIInv
<1> QED
  BY <1>1, <1>4, <1>5

LEMMA StartPasskeyKeeps ==
    ASSUME AccountIInv, NEW r \in Request, StartPasskey(r)
    PROVE  AccountIInv'
<1>1. /\ UNCHANGED <<sessionVars, accountVars, request, proof, ticket, pending, claimed, clearing>>
      /\ challenge' = TRUE
  BY DEF StartPasskey, Quiet
<1>2. UNCHANGED <<epoch, enabled, role, row, outbox, keys, marker, courier, finder, password, factor, passkey>>
  BY <1>1 DEF sessionVars, storeVars, userVars, redisVars, accountVars
<1>3. SessionIInv'
  BY <1>2 DEF AccountIInv, SessionIInv, SessionTypeOK, UserSide, RoleKept, LookupSound, RedisSide,
              Announced, Forgotten, CourierSound
<1>4. challenge' \in BOOLEAN
  BY <1>1
<1>5. AccountTypes'
  BY <1>1, <1>2, <1>4 DEF AccountIInv, AccountTypes
<1>6. RequestsSound' /\ TicketSound' /\ ProofsSound'
  BY <1>1, <1>2 DEF AccountIInv, RequestsSound, RecordSound, TicketSound, ProofsSound, Proven
<1> QED
  BY <1>3, <1>5, <1>6 DEF AccountIInv

LEMMA LoginStep ==
    ASSUME AccountIInv, LoginNext
    PROVE  AccountIInv'
<1>1. ASSUME NEW r \in Request,
             \/ Authenticate(r) \/ DecideLogin(r) \/ CheckTicketEpoch(r) \/ WriteTicket(r)
             \/ TakeTicket(r) \/ ReadSecret(r) \/ ClaimCode(r) \/ MigrateSecret(r)
             \/ StartPasskey(r) \/ ReadEpoch(r) \/ TakeChallenge(r) \/ PersistPasskey(r)
             \/ SaveVerified(r) \/ SavePrimary(r) \/ AuditLogin(r)
             \/ StartEnrollment(r) \/ ClaimEnrollment(r) \/ TakeEnrollment(r) \/ InsertFactor(r)
             \/ PresentTicket(r) \/ VerifyPasskey(r)
      PROVE  AccountIInv'
  BY <1>1, AuthenticateKeeps, ReadsKeeps, MovesKeep, TicketsKeep, IssueKeeps, EnrollsKeeps, AuditsKeeps,
     StartPasskeyKeeps
<1>2. CASE ChangePassword \/ RemoveTotp \/ RemovePasskeys
  BY <1>2, ReplacesKeeps
<1>3. CASE ForgetPending \/ ClearReplay
  BY <1>3, ForgetsKeeps
<1>4. CASE RegisterPasskey
  BY <1>4, RegistersKeeps
<1>5. ASSUME NEW s \in Session, Logout(s)
      PROVE  AccountIInv'
  <2>1. RevokeSession(s) /\ UNCHANGED loginVars
    BY <1>5 DEF Logout
  <2>2. SessionIInv' /\ Fades(Session) /\ UNCHANGED epoch
    BY <2>1, RevokeSessionKeeps DEF AccountIInv, RevokeSession, userVars
  <2> QED
    BY <2>1, <2>2, RowsChange
<1> QED
  BY <1>1, <1>2, <1>3, <1>4, <1>5 DEF LoginNext

LEMMA BesideStep ==
    ASSUME AccountIInv, SessionNext, UNCHANGED loginVars
    PROVE  AccountIInv'
<1>1. /\ SessionIInv'
      /\ \/ UNCHANGED epoch /\ Fades(Session)
         \/ EpochBegins /\ Fades(Session)
         \/ UNCHANGED epoch /\ \E s \in Session : /\ row[s].state = "none" /\ Fades(Session \ {s})
                                                  /\ row'[s].state = "live"
  BY SessionStep DEF AccountIInv
<1>2. CASE EpochBegins /\ Fades(Session)
  <2>1. UNCHANGED <<password, factor, passkey, clearing, request, ticket, challenge, pending, claimed, proof>>
    BY DEF loginVars, accountVars, secondVars
  <2>2. password' \in 1..MaxEpoch /\ factor' \in 0..MaxEpoch /\ passkey' \in 0..MaxEpoch
    BY <2>1 DEF AccountIInv, AccountTypes
  <2> QED
    BY <1>1, <1>2, <2>1, <2>2, EpochTurns
<1>3. CASE ~EpochBegins
  BY <1>1, <1>3, RowsChange
<1> QED
  BY <1>1, <1>2, <1>3, RowsChange

\* Stuttering.
LEMMA AccountRests ==
    ASSUME AccountIInv, UNCHANGED vars
    PROVE  AccountIInv'
<1>1. /\ UNCHANGED <<sessionVars, loginVars>>
      /\ UNCHANGED <<epoch, enabled, role, row, outbox, keys, marker, courier, finder>>
  BY DEF vars, sessionVars, storeVars, userVars, redisVars
<1>2. SessionIInv'
  BY <1>1 DEF AccountIInv, SessionIInv, SessionTypeOK, UserSide, RoleKept, LookupSound, RedisSide,
              Announced, Forgotten, CourierSound
<1> QED
  BY <1>1, <1>2, RowsChange DEF Fades

\* The invariant of sessions and logins, whatever they do beside one another.
THEOREM AccountInvariance == AccountSpec => []AccountIInv
<1>1. Init => AccountIInv
  BY AccountStarts
<1>2. AccountIInv /\ [AccountNext]_vars => AccountIInv'
  BY LoginStep, BesideStep, AccountRests DEF AccountNext
<1> QED
  BY <1>1, <1>2, PTL DEF AccountSpec

\* Every variable of Sessions and of Login keeps its type.
THEOREM AccountTypeCorrect == AccountSpec => []TypeOK
<1>1. AccountIInv => TypeOK
  <2> SUFFICES ASSUME AccountIInv PROVE TypeOK
    OBVIOUS
  <2>1. SessionTypeOK /\ request \in [Request -> RequestType] /\ ticket \in TicketType
        /\ proof \in [Session -> ProofType] /\ AccountTypes
    BY DEF AccountIInv, SessionIInv, RequestsSound, TicketSound, ProofsSound
  <2> QED
    BY <2>1 DEF TypeOK, RequestType, TicketType, ProofType, AccountTypes
<1> QED
  BY <1>1, AccountInvariance, PTL

\* Once every entry of the outbox is delivered, Redis knows no session that was revoked
\* (sessions/outbox.rs), for any number of workers, sessions, failures and crashes.
THEOREM RedisAlwaysForgets == AccountSpec => []RedisForgets
<1>1. AccountIInv => RedisForgets
  <2> SUFFICES ASSUME AccountIInv, Delivered, NEW s \in keys PROVE row[s].state # "revoked"
    BY DEF RedisForgets
  <2>1. s \in Session
    BY DEF AccountIInv, SessionIInv, SessionTypeOK
  <2>2. Revoke(s) \in Entry
    BY <2>1, EntryShape
  <2>3. outbox[Revoke(s)].state \in {"none", "done"}
    BY <2>2 DEF Delivered
  <2> QED
    BY <2>3 DEF AccountIInv, SessionIInv, RedisSide, Forgotten
<1> QED
  BY <1>1, AccountInvariance, PTL

\* A lookup answers with the role its session was written under
\* (sessions/store/postgres_find.rs), however long it is under way.
THEOREM RoleIsNeverInherited == AccountSpec => []RoleIsNotInherited
<1>1. AccountIInv => RoleIsNotInherited
  BY DEF AccountIInv, SessionIInv, UserSide, LookupSound, RoleIsNotInherited
<1> QED
  BY <1>1, AccountInvariance, PTL

\* An active session rests on the password or passkey of now, and on a code of the factor
\* of now where one was owed (auth_factors/session.rs), whatever was replaced meanwhile.
THEOREM SessionsAlwaysProven == AccountSpec => []SessionsAreProven
<1>1. AccountIInv => SessionsAreProven
  BY DEF AccountIInv, ProofsSound, Proven, SessionsAreProven, ActiveSessions, Active
<1> QED
  BY <1>1, AccountInvariance, PTL

---------------------------------------------------------------------------
\* The change of an email address and its mail.

CredentialType == [epoch : 1..MaxCredential, active : BOOLEAN]
ChallengeType ==
    [state : {"none", "open", "replaced", "exhausted", "used"}, epoch : 0..MaxCredential,
     expired : BOOLEAN, failed : 0..AttemptLimit, slots : SUBSET Attempt]
AttemptType ==
    [pc : {"idle", "verify", "wrong", "complete", "release"}, challenge : Challenge \cup {Nothing}]
MailType ==
    [state : {"none", "ready", "later", "done", "cancelled", "dead", "gone"},
     generation : 0..MaxLeases, token : BOOLEAN]
SenderType ==
    [pc : {"idle", "load", "send", "mark", "fail"}, mail : Mail \cup {Nothing},
     generation : 0..MaxLeases, overdue : BOOLEAN]

\* A code that is being looked at holds its slot, and its challenge is not exhausted.
AttemptSound(a) ==
    /\ attempt[a].pc # "idle" => attempt[a].challenge \in Challenge
    /\ attempt[a].pc \in {"verify", "wrong", "complete"} =>
          /\ a \in change[attempt[a].challenge].slots
          /\ change[attempt[a].challenge].state \notin {"none", "exhausted"}

\* A challenge is closed by as many failures as are allowed, and one that had them is
\* open only while somebody has a slot.
BudgetSound(x) ==
    /\ x.state = "exhausted" => x.failed = AttemptLimit
    /\ x.state = "open" /\ x.failed = AttemptLimit => x.slots # {}

\* What has slots is a set that can be counted; the code of a challenge comes with it.
ChallengeSound(c) ==
    /\ IsFiniteSet(change[c].slots) /\ Cardinality(change[c].slots) <= AttemptLimit
    /\ BudgetSound(change[c])
    /\ change[c].state = "none" => mail[CodeMail(c)].state = "none"

ConfirmSide ==
    /\ credential \in CredentialType /\ change \in [Challenge -> ChallengeType]
    /\ attempt \in [Attempt -> AttemptType]
    /\ \A a \in Attempt : AttemptSound(a)
    /\ \A c \in Challenge : ChallengeSound(c)

\* A worker has claimed its entry, and as long as it is not overdue nobody has since.
SenderSound(w) ==
    sender[w].pc # "idle" =>
       /\ sender[w].mail \in Mail /\ mail[sender[w].mail].state # "none"
       /\ sender[w].generation <= mail[sender[w].mail].generation
       /\ sender[w].pc \in {"load", "send"} /\ ~sender[w].overdue =>
             mail[sender[w].mail] = [state |-> "later", generation |-> sender[w].generation,
                                     token |-> TRUE]

\* No two workers have the same claim.
ClaimsDiffer(v, w) ==
    v # w /\ sender[v].pc # "idle" /\ sender[w].pc # "idle" /\ sender[v].mail = sender[w].mail =>
       sender[v].generation # sender[w].generation

MailSide ==
    /\ mail \in [Mail -> MailType] /\ sender \in [Sender -> SenderType]
    /\ \A w \in Sender : SenderSound(w)
    /\ \A v, w \in Sender : ClaimsDiffer(v, w)

MailIInv == ConfirmSide /\ MailSide

LEMMA MailShape ==
    /\ \A c \in Challenge : CodeMail(c) \in Mail /\ CodeMail(c) \in Codes /\ AlertMail(c) \in Mail
    /\ \A c, d \in Challenge : (CodeMail(c) = CodeMail(d) => c = d) /\ CodeMail(c) # AlertMail(d)
    /\ Codes \subseteq Mail
<1>1. ASSUME NEW c \in Challenge, NEW d \in Challenge
      PROVE  (CodeMail(c) = CodeMail(d) => c = d) /\ CodeMail(c) # AlertMail(d)
  BY DEF CodeMail, AlertMail
<1> QED
  BY <1>1 DEF Mail, Codes

LEMMA MailStarts == MailInit => MailIInv
<1> SUFFICES ASSUME MailInit PROVE MailIInv
  OBVIOUS
<1>1. MaxCredential \in Nat /\ MaxCredential >= 1 /\ AttemptLimit \in Nat /\ MaxLeases \in Nat
  BY MailBoundAssumption
<1>2. credential \in CredentialType
  BY <1>1 DEF MailInit, CredentialType
<1>3. NoChallenge \in ChallengeType /\ NoChallenge.slots = {}
  BY <1>1 DEF NoChallenge, ChallengeType
<1>4. NoAttempt \in AttemptType /\ NoAttempt.pc = "idle"
  BY DEF NoAttempt, AttemptType
<1>5. NoMail \in MailType /\ NoMail.state = "none"
  BY <1>1 DEF NoMail, MailType
<1>6. AtRest \in SenderType /\ AtRest.pc = "idle"
  BY <1>1 DEF AtRest, SenderType
<1>7. /\ change = [c \in Challenge |-> NoChallenge] /\ attempt = [a \in Attempt |-> NoAttempt]
      /\ mail = [m \in Mail |-> NoMail] /\ sender = [w \in Sender |-> AtRest]
  BY DEF MailInit
<1>8. IsFiniteSet({}) /\ Cardinality({}) = 0
  BY FS_EmptySet
<1>9. ConfirmSide
  <2>1. change \in [Challenge -> ChallengeType] /\ attempt \in [Attempt -> AttemptType]
    BY <1>3, <1>4, <1>7
  <2>2. \A a \in Attempt : AttemptSound(a)
    BY <1>4, <1>7 DEF AttemptSound
  <2>3. ASSUME NEW c \in Challenge PROVE ChallengeSound(c)
    <3>1. change[c].slots = {} /\ mail[CodeMail(c)].state = "none"
      BY <1>3, <1>5, <1>7, MailShape
    <3>2. BudgetSound(change[c])
      BY <1>7 DEF BudgetSound, NoChallenge
    <3> QED
      BY <1>1, <1>8, <3>1, <3>2 DEF ChallengeSound
  <2> QED
    BY <1>2, <2>1, <2>2, <2>3 DEF ConfirmSide
<1>10. MailSide
  BY <1>5, <1>6, <1>7 DEF MailSide, SenderSound, ClaimsDiffer
<1> QED
  BY <1>9, <1>10 DEF MailIInv

\* Whatever is written beside the workers leaves alone what is claimed.
LEMMA MailBeside ==
    ASSUME MailSide, mail' \in [Mail -> MailType], UNCHANGED sender,
           \A m \in Mail : mail[m].state # "none" =>
              /\ mail'[m].state # "none" /\ mail'[m].generation = mail[m].generation
              /\ mail[m].state = "later" /\ mail[m].token => mail'[m] = mail[m]
    PROVE  MailSide'
<1>1. ASSUME NEW w \in Sender PROVE SenderSound(w)'
  <2> SUFFICES ASSUME sender[w].pc # "idle" PROVE SenderSound(w)'
    BY DEF SenderSound
  <2>1. /\ sender[w].mail \in Mail /\ mail[sender[w].mail].state # "none"
        /\ sender[w].generation <= mail[sender[w].mail].generation
        /\ sender[w].pc \in {"load", "send"} /\ ~sender[w].overdue =>
             mail[sender[w].mail] = [state |-> "later", generation |-> sender[w].generation, token |-> TRUE]
    BY DEF MailSide, SenderSound
  <2>2. sender[w].pc \in {"load", "send"} /\ ~sender[w].overdue =>
           mail[sender[w].mail].state = "later" /\ mail[sender[w].mail].token
    BY <2>1
  <2>3. sender' = sender /\ mail'[sender[w].mail].generation = mail[sender[w].mail].generation
        /\ mail'[sender[w].mail].state # "none"
    BY <2>1
  <2>4. sender[w].pc \in {"load", "send"} /\ ~sender[w].overdue => mail'[sender[w].mail] = mail[sender[w].mail]
    BY <2>1, <2>2
  <2> QED
    BY <2>1, <2>3, <2>4 DEF SenderSound
<1>2. \A v, w \in Sender : ClaimsDiffer(v, w)'
  BY DEF MailSide, ClaimsDiffer
<1> QED
  BY <1>1, <1>2 DEF MailSide

\* A worker goes on with its entry, and settles it when the claim is still its own.
LEMMA SenderMoves ==
    ASSUME MailSide, NEW w \in Sender, sender[w].pc # "idle",
           NEW x \in SenderType, sender' = [sender EXCEPT ![w] = x],
           \/ x.pc = "idle"
           \/ /\ x.mail = sender[w].mail /\ x.generation = sender[w].generation
              /\ x.pc \in {"load", "send"} =>
                    sender[w].pc \in {"load", "send"} /\ x.overdue = sender[w].overdue,
           \/ mail' = mail
           \/ /\ HoldsLease(w) /\ x.pc \notin {"load", "send"}
              /\ \E e \in MailType :
                    /\ e.state # "none" /\ e.generation = mail[sender[w].mail].generation
                    /\ mail' = [mail EXCEPT ![sender[w].mail] = e]
    PROVE  MailSide'
<1>1. /\ mail \in [Mail -> MailType] /\ sender \in [Sender -> SenderType]
      /\ \A v \in Sender : SenderSound(v)
      /\ \A u, v \in Sender : ClaimsDiffer(u, v)
  BY DEF MailSide
<1>2. sender' \in [Sender -> SenderType] /\ sender'[w] = x /\ \A v \in Sender \ {w} : sender'[v] = sender[v]
  BY <1>1
<1>3. sender[w].mail \in Mail /\ mail[sender[w].mail].state # "none"
  BY <1>1 DEF SenderSound
<1>4. /\ mail' \in [Mail -> MailType]
      /\ \A m \in Mail : /\ mail'[m].generation = mail[m].generation
                         /\ mail[m].state # "none" => mail'[m].state # "none"
      /\ \A m \in Mail : mail'[m] = mail[m] \/ (m = sender[w].mail /\ HoldsLease(w) /\ x.pc \notin {"load", "send"})
  <2>1. CASE mail' = mail
    BY <1>1, <2>1
  <2>2. CASE HoldsLease(w) /\ x.pc \notin {"load", "send"} /\ mail' # mail
    <3>1. PICK e \in MailType :
             /\ e.state # "none" /\ e.generation = mail[sender[w].mail].generation
             /\ mail' = [mail EXCEPT ![sender[w].mail] = e]
      BY <2>2
    <3> QED
      BY <1>1, <1>3, <2>2, <3>1
  <2> QED
    BY <2>1, <2>2
<1>5. ASSUME NEW v \in Sender PROVE SenderSound(v)'
  <2>1. CASE v = w
    <3> SUFFICES ASSUME x.pc # "idle" PROVE SenderSound(v)'
      BY <1>2, <2>1 DEF SenderSound
    <3>1. x.mail = sender[w].mail /\ x.generation = sender[w].generation
      OBVIOUS
    <3>2. x.pc \in {"load", "send"} => mail'[x.mail] = mail[x.mail]
      BY <1>3, <1>4, <3>1
    <3>3. x.pc \in {"load", "send"} /\ ~x.overdue =>
             mail[x.mail] = [state |-> "later", generation |-> x.generation, token |-> TRUE]
      BY <1>1, <3>1 DEF SenderSound
    <3>4. x.mail \in Mail /\ x.generation <= mail'[x.mail].generation /\ mail'[x.mail].state # "none"
      BY <1>1, <1>3, <1>4, <3>1 DEF SenderSound
    <3> QED
      BY <1>2, <2>1, <3>2, <3>3, <3>4 DEF SenderSound
  <2>2. CASE v # w
    <3> SUFFICES ASSUME sender[v].pc # "idle" PROVE SenderSound(v)'
      BY <1>2, <2>2 DEF SenderSound
    <3>1. SenderSound(v) /\ sender'[v] = sender[v] /\ ClaimsDiffer(v, w)
      BY <1>1, <1>2, <2>2
    <3>2. sender[v].mail \in Mail /\ sender[v].generation <= mail'[sender[v].mail].generation
          /\ mail'[sender[v].mail].state # "none"
      BY <1>4, <3>1 DEF SenderSound
    <3>3. sender[v].pc \in {"load", "send"} /\ ~sender[v].overdue =>
             mail'[sender[v].mail] = [state |-> "later", generation |-> sender[v].generation, token |-> TRUE]
      <4> SUFFICES ASSUME sender[v].pc \in {"load", "send"}, ~sender[v].overdue
                   PROVE  mail'[sender[v].mail] = [state |-> "later", generation |-> sender[v].generation,
                                                   token |-> TRUE]
        OBVIOUS
      <4>1. mail[sender[v].mail] = [state |-> "later", generation |-> sender[v].generation, token |-> TRUE]
        BY <3>1 DEF SenderSound
      <4>2. ~(sender[v].mail = sender[w].mail /\ HoldsLease(w))
        <5>1. mail[sender[v].mail].generation = sender[v].generation
          BY <4>1
        <5> QED
          BY <2>2, <3>1, <5>1 DEF ClaimsDiffer, HoldsLease
      <4> QED
        BY <1>4, <3>2, <4>1, <4>2
    <3> QED
      BY <3>1, <3>2, <3>3 DEF SenderSound
  <2> QED
    BY <2>1, <2>2
<1>6. ASSUME NEW u \in Sender, NEW v \in Sender PROVE ClaimsDiffer(u, v)'
  <2>1. ClaimsDiffer(u, v) /\ sender'[u] = (IF u = w THEN x ELSE sender[u])
        /\ sender'[v] = (IF v = w THEN x ELSE sender[v])
    BY <1>1, <1>2
  <2> QED
    BY <2>1 DEF ClaimsDiffer
<1> QED
  BY <1>2, <1>4, <1>5, <1>6 DEF MailSide

\* A claim is newer than every other of its entry, and finds it with no worker that is not overdue.
LEMMA ClaimMailKeeps ==
    ASSUME MailSide, NEW w \in Sender, NEW m \in Mail, ClaimMail(w, m)
    PROVE  MailSide'
<1> DEFINE g == mail[m].generation + 1
           e == [state |-> "later", generation |-> g, token |-> TRUE]
           x == [pc |-> "load", mail |-> m, generation |-> g, overdue |-> FALSE]
<1>1. /\ mail \in [Mail -> MailType] /\ sender \in [Sender -> SenderType]
      /\ \A v \in Sender : SenderSound(v)
      /\ \A u, v \in Sender : ClaimsDiffer(u, v)
  BY DEF MailSide
<1>2. /\ sender[w].pc = "idle" /\ mail[m].state = "ready" /\ mail[m].generation < MaxLeases
      /\ mail' = [mail EXCEPT ![m] = e] /\ sender' = [sender EXCEPT ![w] = x]
  BY DEF ClaimMail
<1>3. g \in 0..MaxLeases /\ g > mail[m].generation /\ mail[m].generation \in Nat
  BY <1>1, <1>2, MailBoundAssumption DEF MailType
<1>4. e \in MailType /\ x \in SenderType
  BY <1>3 DEF MailType, SenderType
<1>5. /\ x.pc = "load" /\ x.mail = m /\ x.generation = g
      /\ e.state = "later" /\ e.generation = g
  OBVIOUS
<1>6. e = [state |-> "later", generation |-> x.generation, token |-> TRUE]
  OBVIOUS
<1> HIDE DEF g, e, x
<1>7. /\ mail' \in [Mail -> MailType] /\ mail'[m] = e /\ \A n \in Mail \ {m} : mail'[n] = mail[n]
      /\ sender' \in [Sender -> SenderType] /\ sender'[w] = x /\ \A v \in Sender \ {w} : sender'[v] = sender[v]
  BY <1>1, <1>2, <1>4
<1>8. ASSUME NEW v \in Sender, sender[v].pc # "idle", sender[v].mail = m
      PROVE  sender[v].generation < g /\ ~(sender[v].pc \in {"load", "send"} /\ ~sender[v].overdue)
  <2>1. SenderSound(v) /\ sender[v] \in SenderType
    BY <1>1
  <2>2. sender[v].generation <= mail[m].generation /\ sender[v].generation \in Nat
    BY <1>8, <2>1, MailBoundAssumption DEF SenderSound, SenderType
  <2>3. ~(sender[v].pc \in {"load", "send"} /\ ~sender[v].overdue)
    BY <1>2, <1>8, <2>1 DEF SenderSound
  <2> QED
    BY <1>3, <2>2, <2>3
<1>9. ASSUME NEW v \in Sender PROVE SenderSound(v)'
  <2>1. CASE v = w
    <3>1. g <= e.generation
      BY <1>3, <1>5
    <3> QED
      BY <1>5, <1>6, <1>7, <2>1, <3>1 DEF SenderSound
  <2>2. CASE v # w
    <3>1. SenderSound(v) /\ sender'[v] = sender[v] /\ sender[v] \in SenderType
      BY <1>1, <1>7, <2>2
    <3>2. CASE sender[v].mail # m
      <4>1. sender[v].pc # "idle" => mail'[sender[v].mail] = mail[sender[v].mail]
        BY <1>7, <3>1, <3>2 DEF SenderSound
      <4> QED
        BY <3>1, <4>1 DEF SenderSound
    <3>3. CASE sender[v].pc # "idle" /\ sender[v].mail = m
      <4>1. sender[v].generation <= e.generation
        BY <1>3, <1>5, <1>8, <3>1, <3>3 DEF SenderType
      <4> QED
        BY <1>5, <1>7, <1>8, <3>1, <3>3, <4>1 DEF SenderSound
    <3>4. CASE sender[v].pc = "idle"
      BY <3>1, <3>4 DEF SenderSound
    <3> QED
      BY <3>2, <3>3, <3>4
  <2> QED
    BY <2>1, <2>2
<1>10. ASSUME NEW u \in Sender, NEW v \in Sender PROVE ClaimsDiffer(u, v)'
  <2>1. ClaimsDiffer(u, v) /\ sender'[u] = (IF u = w THEN x ELSE sender[u])
        /\ sender'[v] = (IF v = w THEN x ELSE sender[v])
    BY <1>1, <1>7
  <2>2. ASSUME NEW z \in Sender, sender[z].pc # "idle", sender[z].mail = m PROVE sender[z].generation # g
    <3>1. sender[z].generation < g
      BY <1>8, <2>2
    <3>2. sender[z].generation \in 0..MaxLeases
      BY <1>1 DEF SenderType
    <3> QED
      BY <1>3, <3>1, <3>2
  <2> QED
    BY <1>5, <2>1, <2>2 DEF ClaimsDiffer
<1> QED
  BY <1>7, <1>9, <1>10 DEF MailSide

\* Time passes over a lease, and whoever is at work on it is overdue.
LEMMA MailDueKeeps ==
    ASSUME MailSide, NEW m \in Mail, MailDue(m)
    PROVE  MailSide'
<1> DEFINE e == [mail[m] EXCEPT !.state = "ready"]
<1>1. /\ mail \in [Mail -> MailType] /\ sender \in [Sender -> SenderType]
      /\ \A v \in Sender : SenderSound(v)
      /\ \A u, v \in Sender : ClaimsDiffer(u, v)
  BY DEF MailSide
<1>2. /\ mail' = [mail EXCEPT ![m] = e]
      /\ sender' = [w \in Sender |-> IF w \in Working(m) THEN [sender[w] EXCEPT !.overdue = TRUE] ELSE sender[w]]
  BY <1>1 DEF MailDue
<1>3. e \in MailType /\ e.state = "ready" /\ e.generation = mail[m].generation
  BY <1>1 DEF MailType
<1> HIDE DEF e
<1>4. /\ mail' \in [Mail -> MailType] /\ mail'[m] = e /\ \A n \in Mail \ {m} : mail'[n] = mail[n]
  BY <1>1, <1>2, <1>3
<1>5. ASSUME NEW w \in Sender
      PROVE  /\ sender'[w] \in SenderType
             /\ sender'[w].pc = sender[w].pc /\ sender'[w].mail = sender[w].mail
             /\ sender'[w].generation = sender[w].generation
             /\ w \in Working(m) => sender'[w].overdue
             /\ w \notin Working(m) => sender'[w] = sender[w]
  BY <1>1, <1>2 DEF SenderType
<1>6. sender' \in [Sender -> SenderType]
  BY <1>2, <1>5
<1>7. ASSUME NEW w \in Sender PROVE SenderSound(w)'
  <2> SUFFICES ASSUME sender[w].pc # "idle" PROVE SenderSound(w)'
    BY <1>5 DEF SenderSound
  <2>1. /\ sender[w].mail \in Mail /\ mail[sender[w].mail].state # "none"
        /\ sender[w].generation <= mail[sender[w].mail].generation
        /\ sender[w].pc \in {"load", "send"} /\ ~sender[w].overdue =>
             mail[sender[w].mail] = [state |-> "later", generation |-> sender[w].generation, token |-> TRUE]
    BY <1>1 DEF SenderSound
  <2>2. mail'[sender[w].mail].state # "none" /\ sender[w].generation <= mail'[sender[w].mail].generation
    BY <1>3, <1>4, <2>1
  <2>3. sender'[w].pc \in {"load", "send"} /\ ~sender'[w].overdue =>
             mail'[sender'[w].mail] = [state |-> "later", generation |-> sender'[w].generation, token |-> TRUE]
    <3> SUFFICES ASSUME sender'[w].pc \in {"load", "send"}, ~sender'[w].overdue
                 PROVE  mail'[sender'[w].mail] = [state |-> "later", generation |-> sender'[w].generation, token |-> TRUE]
      OBVIOUS
    <3>1. w \notin Working(m) /\ sender'[w] = sender[w]
      BY <1>5
    <3>2. mail[sender[w].mail] = [state |-> "later", generation |-> sender[w].generation, token |-> TRUE]
      BY <2>1, <3>1
    <3>3. mail[sender[w].mail].generation = sender[w].generation
      BY <3>2
    <3>4. sender[w].mail # m
      BY <3>1, <3>3 DEF Working
    <3> QED
      BY <1>4, <2>1, <3>1, <3>2, <3>4
  <2> QED
    BY <1>5, <2>1, <2>2, <2>3 DEF SenderSound
<1>8. \A u, v \in Sender : ClaimsDiffer(u, v)'
  BY <1>1, <1>5 DEF ClaimsDiffer
<1> QED
  BY <1>4, <1>6, <1>7, <1>8 DEF MailSide

LEMMA PruneMailKeeps ==
    ASSUME MailSide, NEW m \in Mail, PruneMail(m)
    PROVE  MailSide'
<1>1. mail \in [Mail -> MailType] /\ UNCHANGED sender
      /\ mail' = [mail EXCEPT ![m].state = "gone"] /\ mail[m].state \in {"done", "cancelled", "dead"}
  BY DEF PruneMail, MailSide
<1>2. [mail[m] EXCEPT !.state = "gone"] \in MailType /\ [mail[m] EXCEPT !.state = "gone"].state = "gone"
      /\ [mail[m] EXCEPT !.state = "gone"].generation = mail[m].generation
  BY <1>1 DEF MailType
<1>3. mail' \in [Mail -> MailType] /\ mail'[m].state = "gone" /\ mail'[m].generation = mail[m].generation
      /\ \A n \in Mail \ {m} : mail'[n] = mail[n]
  BY <1>1, <1>2
<1> QED
  BY <1>1, <1>3, MailBeside

LEMMA WorkerKeeps ==
    ASSUME MailSide, NEW w \in Sender,
           LoadMessage(w) \/ SendMessage(w) \/ MarkProcessed(w) \/ RecordMailFailure(w) \/ SenderCrashes(w)
    PROVE  MailSide'
<1>1. /\ mail \in [Mail -> MailType] /\ sender \in [Sender -> SenderType]
      /\ sender[w] \in SenderType /\ SenderSound(w)
  BY DEF MailSide
<1>2. sender[w].pc # "idle"
  BY DEF LoadMessage, SendMessage, MarkProcessed, RecordMailFailure, SenderCrashes
<1>3. sender[w].mail \in Mail
  BY <1>1, <1>2 DEF SenderSound
<1>4. ASSUME NEW state \in {"later", "done", "cancelled", "dead"}, Close(w, state)
      PROVE  \/ mail' = mail
             \/ /\ HoldsLease(w)
                /\ \E e \in MailType :
                      /\ e.state # "none" /\ e.generation = mail[sender[w].mail].generation
                      /\ mail' = [mail EXCEPT ![sender[w].mail] = e]
  <2> DEFINE e == [mail[sender[w].mail] EXCEPT !.state = state, !.token = FALSE]
  <2>1. e \in MailType /\ e.state = state /\ e.generation = mail[sender[w].mail].generation
    BY <1>1, <1>3 DEF MailType
  <2>2. mail' = mail \/ (HoldsLease(w) /\ mail' = [mail EXCEPT ![sender[w].mail] = e])
    BY <1>1, <1>3, <1>4 DEF Close
  <2> HIDE DEF e
  <2> QED
    BY <2>1, <2>2
<1>5. \/ Rest(w)
      \/ Proceed(w, "mark") \/ Proceed(w, "fail")
      \/ Proceed(w, "send") /\ sender[w].pc = "load" /\ mail' = mail
  BY DEF LoadMessage, SendMessage, MarkProcessed, RecordMailFailure, SenderCrashes
<1>6. \/ mail' = mail
      \/ \E state \in {"later", "done", "cancelled", "dead"} : Close(w, state)
  BY DEF LoadMessage, SendMessage, MarkProcessed, RecordMailFailure, SenderCrashes
<1>7. \/ mail' = mail
      \/ /\ HoldsLease(w)
         /\ \E e \in MailType :
               /\ e.state # "none" /\ e.generation = mail[sender[w].mail].generation
               /\ mail' = [mail EXCEPT ![sender[w].mail] = e]
  BY <1>4, <1>6
<1>8. CASE Rest(w)
  <2>1. AtRest \in SenderType /\ AtRest.pc = "idle"
    BY MailBoundAssumption DEF AtRest, SenderType
  <2>2. sender' = [sender EXCEPT ![w] = AtRest]
    BY <1>8 DEF Rest
  <2> QED
    BY <1>2, <1>7, <2>1, <2>2, SenderMoves
<1>9. ASSUME NEW place \in {"mark", "fail", "send"}, Proceed(w, place),
             place = "send" => sender[w].pc = "load" /\ mail' = mail
      PROVE  MailSide'
  <2> DEFINE x == [sender[w] EXCEPT !.pc = place]
  <2>1. /\ x \in SenderType /\ x.pc = place /\ x.mail = sender[w].mail
        /\ x.generation = sender[w].generation /\ x.overdue = sender[w].overdue
    BY <1>1 DEF SenderType
  <2>2. sender' = [sender EXCEPT ![w] = x]
    BY <1>1, <1>9 DEF Proceed
  <2> HIDE DEF x
  <2> QED
    BY <1>2, <1>7, <1>9, <2>1, <2>2, SenderMoves
<1> QED
  BY <1>5, <1>8, <1>9

LEMMA MailDelivers ==
    ASSUME MailIInv, DeliverNext
    PROVE  MailIInv'
<1>1. MailSide'
  BY WorkerKeeps, ClaimMailKeeps, MailDueKeeps, PruneMailKeeps DEF DeliverNext, MailIInv
<1>2. UNCHANGED <<credential, change, attempt>>
  BY DEF DeliverNext, LoadMessage, SendMessage, MarkProcessed, RecordMailFailure, SenderCrashes, ClaimMail,
         MailDue, PruneMail, changeVars
<1>3. \A m \in Mail : mail[m].state = "none" => mail'[m].state = "none"
  <2>1. mail \in [Mail -> MailType] /\ \A w \in Sender : SenderSound(w)
    BY DEF MailIInv, MailSide
  <2>2. ASSUME NEW w \in Sender,
               LoadMessage(w) \/ SendMessage(w) \/ MarkProcessed(w) \/ RecordMailFailure(w) \/ SenderCrashes(w)
        PROVE  \A m \in Mail : mail[m].state = "none" => mail'[m].state = "none"
    <3>1. mail' = mail \/ \E state \in {"later", "done", "cancelled", "dead"} : Close(w, state)
      BY <2>2 DEF LoadMessage, SendMessage, MarkProcessed, RecordMailFailure, SenderCrashes
    <3>2. sender[w].pc # "idle"
      BY <2>2 DEF LoadMessage, SendMessage, MarkProcessed, RecordMailFailure, SenderCrashes
    <3>3. mail[sender[w].mail].state # "none"
      BY <2>1, <3>2 DEF SenderSound
    <3> QED
      BY <2>1, <3>1, <3>3 DEF Close
  <2>3. ASSUME NEW w \in Sender, NEW n \in Mail, ClaimMail(w, n)
        PROVE  \A m \in Mail : mail[m].state = "none" => mail'[m].state = "none"
    BY <2>1, <2>3 DEF ClaimMail
  <2>4. ASSUME NEW n \in Mail, MailDue(n) \/ PruneMail(n)
        PROVE  \A m \in Mail : mail[m].state = "none" => mail'[m].state = "none"
    BY <2>1, <2>4 DEF MailDue, PruneMail
  <2> QED
    BY <2>2, <2>3, <2>4 DEF DeliverNext
<1>4. ConfirmSide'
  <2>1. \A c \in Challenge : ChallengeSound(c)'
    BY <1>2, <1>3, MailShape DEF MailIInv, ConfirmSide, ChallengeSound
  <2> QED
    BY <1>2, <2>1 DEF MailIInv, ConfirmSide, AttemptSound
<1> QED
  BY <1>1, <1>4 DEF MailIInv

\* Nobody but a loses a slot, or finds the challenge of it exhausted.
SlotsKept(a) ==
    \A b \in Attempt \ {a}, c \in Challenge :
       b \in change[c].slots /\ change[c].state \notin {"none", "exhausted"} =>
          b \in change'[c].slots /\ change'[c].state \notin {"none", "exhausted"}

LEMMA ConfirmTo ==
    ASSUME ConfirmSide, NEW a \in Attempt, NEW x \in AttemptType, attempt' = [attempt EXCEPT ![a] = x],
           credential' \in CredentialType, change' \in [Challenge -> ChallengeType],
           \A c \in Challenge : ChallengeSound(c)',
           SlotsKept(a),
           x.pc # "idle" => x.challenge \in Challenge,
           x.pc \in {"verify", "wrong", "complete"} =>
              a \in change'[x.challenge].slots /\ change'[x.challenge].state \notin {"none", "exhausted"}
    PROVE  ConfirmSide'
<1>1. attempt \in [Attempt -> AttemptType] /\ \A b \in Attempt : AttemptSound(b)
  BY DEF ConfirmSide
<1>2. ASSUME NEW b \in Attempt PROVE AttemptSound(b)'
  <2>1. CASE b = a
    <3>1. attempt'[b] = x
      BY <1>1, <2>1
    <3> QED
      BY <2>1, <3>1 DEF AttemptSound
  <2>2. CASE b # a
    <3>1. attempt'[b] = attempt[b] /\ AttemptSound(b)
      BY <1>1, <2>2
    <3> QED
      BY <2>2, <3>1 DEF AttemptSound, SlotsKept
  <2> QED
    BY <2>1, <2>2
<1> QED
  BY <1>1, <1>2 DEF ConfirmSide

\* The same for what is no step of a request.
LEMMA ConfirmBeside ==
    ASSUME ConfirmSide, UNCHANGED attempt,
           credential' \in CredentialType, change' \in [Challenge -> ChallengeType],
           \A c \in Challenge : ChallengeSound(c)',
           \A a \in Attempt, c \in Challenge :
              a \in change[c].slots /\ change[c].state \notin {"none", "exhausted"} =>
                 a \in change'[c].slots /\ change'[c].state \notin {"none", "exhausted"}
    PROVE  ConfirmSide'
<1>1. \A a \in Attempt : AttemptSound(a)'
  BY DEF ConfirmSide, AttemptSound
<1> QED
  BY <1>1 DEF ConfirmSide

\* The request is over, or gives its slot back once more.
LEMMA ConfirmEnds ==
    ASSUME ConfirmSide, NEW a \in Attempt, attempt[a].pc # "idle",
           Move(a, "release") \/ attempt' = [attempt EXCEPT ![a] = NoAttempt],
           credential' \in CredentialType, change' \in [Challenge -> ChallengeType],
           \A c \in Challenge : ChallengeSound(c)',
           SlotsKept(a)
    PROVE  ConfirmSide'
<1>1. attempt \in [Attempt -> AttemptType] /\ attempt[a].challenge \in Challenge
  BY DEF ConfirmSide, AttemptSound
<1>2. CASE Move(a, "release")
  <2> DEFINE x == [attempt[a] EXCEPT !.pc = "release"]
  <2>1. x \in AttemptType /\ x.pc = "release" /\ x.challenge = attempt[a].challenge
    BY <1>1 DEF AttemptType
  <2>2. attempt' = [attempt EXCEPT ![a] = x]
    BY <1>1, <1>2 DEF Move
  <2> HIDE DEF x
  <2> QED
    BY <1>1, <2>1, <2>2, ConfirmTo
<1>3. CASE attempt' = [attempt EXCEPT ![a] = NoAttempt]
  <2>1. NoAttempt \in AttemptType /\ NoAttempt.pc = "idle"
    BY DEF NoAttempt, AttemptType
  <2> QED
    BY <1>3, <2>1, ConfirmTo
<1> QED
  BY <1>2, <1>3

\* A slot that is given back ends the challenge only for the one that gives it back.
LEMMA GivesBack ==
    ASSUME ConfirmSide, NEW a \in Attempt, NEW c \in Challenge, a \in change[c].slots,
           NEW failed \in 0..AttemptLimit, GiveBack(a, c, failed), UNCHANGED mail,
           change[c].state # "open" => failed = change[c].failed
    PROVE  /\ change' \in [Challenge -> ChallengeType]
           /\ \A d \in Challenge : ChallengeSound(d)'
           /\ SlotsKept(a)
<1> DEFINE next == IF Exhausted(c, failed) THEN "exhausted" ELSE change[c].state
           y == [change[c] EXCEPT !.slots = @ \ {a}, !.failed = failed,
                                  !.state = IF Exhausted(c, failed) THEN "exhausted" ELSE @]
<1>1. change \in [Challenge -> ChallengeType] /\ \A d \in Challenge : ChallengeSound(d)
  BY DEF ConfirmSide
<1>2. next \in {"none", "open", "replaced", "exhausted", "used"}
  BY <1>1 DEF ChallengeType
<1>3. next = "none" => change[c].state = "none"
  OBVIOUS
<1>4. change' = [change EXCEPT ![c] = y]
  BY <1>1 DEF GiveBack, ChallengeType
<1>5. next = "exhausted" /\ change[c].state # "exhausted" => Cardinality(change[c].slots) = 1
  BY DEF Exhausted
<1>6. y \in ChallengeType /\ y.slots = change[c].slots \ {a} /\ y.state = next /\ y.failed = failed
  <2>1. change[c] \in ChallengeType
    BY <1>1
  <2>2. y.slots = change[c].slots \ {a} /\ y.state = next /\ y.failed = failed
    BY <2>1 DEF ChallengeType
  <2>3. y \in ChallengeType
    BY <2>1 DEF ChallengeType
  <2> QED
    BY <2>2, <2>3
<1>7. /\ next = "exhausted" => failed = AttemptLimit
      /\ next = "open" /\ failed = AttemptLimit => change[c].slots \ {a} # {}
  <2>1. BudgetSound(change[c]) /\ AttemptLimit \in Nat
    BY <1>1, MailBoundAssumption DEF ChallengeSound
  <2>2. next = "exhausted" => failed = AttemptLimit
    BY <2>1 DEF Exhausted, BudgetSound
  <2>3. ASSUME next = "open", failed = AttemptLimit PROVE change[c].slots \ {a} # {}
    <3>1. Cardinality(change[c].slots) # 1
      BY <2>1, <2>3 DEF Exhausted
    <3> SUFFICES ASSUME change[c].slots \ {a} = {} PROVE FALSE
      OBVIOUS
    <3>2. change[c].slots = {a}
      OBVIOUS
    <3> QED
      BY <3>1, <3>2, FS_Singleton
  <2> QED
    BY <2>2, <2>3
<1> HIDE DEF next, y
<1>8. BudgetSound(y)
  BY <1>6, <1>7 DEF BudgetSound
<1>9. /\ change' \in [Challenge -> ChallengeType] /\ change'[c] = y
      /\ \A d \in Challenge \ {c} : change'[d] = change[d]
  BY <1>1, <1>4, <1>6
<1>10. IsFiniteSet(y.slots) /\ Cardinality(y.slots) <= AttemptLimit
  <2>1. /\ IsFiniteSet(change[c].slots) /\ Cardinality(change[c].slots) <= AttemptLimit
        /\ Cardinality(change[c].slots) \in Nat
    BY <1>1, FS_CardinalityType DEF ChallengeSound
  <2>2. /\ IsFiniteSet(change[c].slots \ {a})
        /\ Cardinality(change[c].slots \ {a}) = Cardinality(change[c].slots) - 1
    BY <2>1, FS_RemoveElement
  <2> QED
    BY <1>6, <2>1, <2>2, MailBoundAssumption
<1>11. ASSUME NEW d \in Challenge PROVE ChallengeSound(d)'
  <2>1. CASE d = c
    BY <1>1, <1>3, <1>6, <1>9, <1>10, <1>8, <2>1 DEF ChallengeSound
  <2>2. CASE d # c
    BY <1>1, <1>9, <2>2 DEF ChallengeSound
  <2> QED
    BY <2>1, <2>2
<1>12. SlotsKept(a)
  <2> SUFFICES ASSUME NEW b \in Attempt, b # a, NEW d \in Challenge, b \in change[d].slots,
                      change[d].state \notin {"none", "exhausted"}
               PROVE  b \in change'[d].slots /\ change'[d].state \notin {"none", "exhausted"}
    BY DEF SlotsKept
  <2>1. CASE d # c
    BY <1>9, <2>1
  <2>2. CASE d = c
    <3>1. Cardinality(change[c].slots) # 1
      <4> SUFFICES ASSUME Cardinality(change[c].slots) = 1 PROVE FALSE
        OBVIOUS
      <4>1. PICK z : change[c].slots = {z}
        BY <1>1, FS_Singleton DEF ChallengeSound
      <4> QED
        BY <2>2, <4>1
    <3> QED
      BY <1>3, <1>5, <1>6, <1>9, <2>2, <3>1
  <2> QED
    BY <2>1, <2>2
<1> QED
  BY <1>9, <1>11, <1>12

LEMMA StartChangeKeeps ==
    ASSUME MailIInv, NEW c \in Challenge, StartChange(c)
    PROVE  MailIInv'
<1> DEFINE fresh == [NoChallenge EXCEPT !.state = "open", !.epoch = credential.epoch]
<1>1. /\ credential \in CredentialType /\ change \in [Challenge -> ChallengeType]
      /\ \A d \in Challenge : ChallengeSound(d)
      /\ mail \in [Mail -> MailType]
  BY DEF MailIInv, ConfirmSide, MailSide
<1>2. /\ change[c].state = "none" /\ UNCHANGED <<credential, attempt, sender>>
      /\ change' = [d \in Challenge |->
            IF d = c THEN fresh
            ELSE IF change[d].state = "open" THEN [change[d] EXCEPT !.state = "replaced"] ELSE change[d]]
      /\ mail' = [Cancel(UnclaimedCodes) EXCEPT ![CodeMail(c)] = Queued]
  BY DEF StartChange
<1>3. fresh \in ChallengeType /\ fresh.state = "open" /\ fresh.slots = {} /\ fresh.failed = 0
  <2>1. MaxCredential \in Nat /\ AttemptLimit \in Nat /\ credential.epoch \in 0..MaxCredential
    BY <1>1, MailBoundAssumption DEF CredentialType
  <2>2. NoChallenge \in ChallengeType /\ NoChallenge.slots = {} /\ NoChallenge.failed = 0
    BY <2>1 DEF NoChallenge, ChallengeType
  <2> QED
    BY <2>1, <2>2 DEF ChallengeType
<1> HIDE DEF fresh
<1>4. ASSUME NEW d \in Challenge, d # c
      PROVE  /\ change'[d] \in ChallengeType /\ change'[d].slots = change[d].slots
             /\ change'[d].state = "none" <=> change[d].state = "none"
             /\ change'[d].state = "exhausted" <=> change[d].state = "exhausted"
             /\ change'[d].state # "open" /\ change'[d].failed = change[d].failed
  <2>1. change[d] \in ChallengeType
    BY <1>1
  <2>2. CASE change[d].state = "open"
    <3>1. change'[d] = [change[d] EXCEPT !.state = "replaced"]
      BY <1>2, <1>4, <2>2
    <3> QED
      BY <2>1, <2>2, <3>1 DEF ChallengeType
  <2>3. CASE change[d].state # "open"
    BY <1>2, <1>4, <2>1, <2>3
  <2> QED
    BY <2>2, <2>3
<1>5. change' \in [Challenge -> ChallengeType] /\ change'[c] = fresh
  BY <1>2, <1>3, <1>4
<1>6. ASSUME NEW m \in Mail
      PROVE  /\ mail'[m] \in MailType
             /\ m # CodeMail(c) /\ mail[m].state = "none" => mail'[m].state = "none"
             /\ m # CodeMail(c) /\ mail[m].state # "none" => mail'[m].state # "none"
             /\ m # CodeMail(c) => mail'[m].generation = mail[m].generation
             /\ m # CodeMail(c) /\ mail[m].token => mail'[m] = mail[m]
  <2>1. CASE m = CodeMail(c)
    <3>1. mail'[m] = Queued
      BY <1>2, <2>1 DEF Cancel
    <3> QED
      BY <2>1, <3>1, MailBoundAssumption DEF Queued, MailType
  <2>2. CASE m # CodeMail(c)
    <3>1. mail'[m] = IF m \in UnclaimedCodes THEN [mail[m] EXCEPT !.state = "cancelled"] ELSE mail[m]
      BY <1>2, <2>2 DEF Cancel
    <3>2. mail[m] \in MailType /\ (m \in UnclaimedCodes => mail[m].state \in {"ready", "later"} /\ ~mail[m].token)
      BY <1>1 DEF UnclaimedCodes, Pending
    <3> QED
      BY <2>2, <3>1, <3>2 DEF MailType
  <2> QED
    BY <2>1, <2>2
<1>7. mail[CodeMail(c)].state = "none"
  BY <1>1, <1>2 DEF ChallengeSound
<1>8. mail' \in [Mail -> MailType]
  BY <1>2, <1>6 DEF Cancel
<1>9. MailSide'
  <2>1. \A m \in Mail : mail[m].state # "none" =>
              /\ mail'[m].state # "none" /\ mail'[m].generation = mail[m].generation
              /\ mail[m].state = "later" /\ mail[m].token => mail'[m] = mail[m]
    BY <1>6, <1>7
  <2> QED
    BY <1>2, <1>8, <2>1, MailBeside DEF MailIInv
<1>10. ASSUME NEW d \in Challenge PROVE ChallengeSound(d)'
  <2>1. CASE d = c
    <3>1. IsFiniteSet({}) /\ Cardinality({}) = 0
      BY FS_EmptySet
    <3>2. change'[d].slots = {} /\ change'[d].state = "open" /\ change'[d].failed = 0
      BY <1>3, <1>5, <2>1
    <3>3. AttemptLimit \in Nat /\ AttemptLimit # 0
      BY MailBoundAssumption
    <3>4. BudgetSound(change'[d])
      BY <3>2, <3>3 DEF BudgetSound
    <3> QED
      BY <3>1, <3>2, <3>3, <3>4 DEF ChallengeSound
  <2>2. CASE d # c
    <3>1. CodeMail(d) # CodeMail(c) /\ CodeMail(d) \in Mail /\ ChallengeSound(d)
      BY <1>1, <2>2, MailShape
    <3>2. mail[CodeMail(d)].state = "none" => mail'[CodeMail(d)].state = "none"
      BY <1>6, <3>1
    <3>3. BudgetSound(change'[d])
      BY <1>4, <2>2, <3>1 DEF ChallengeSound, BudgetSound
    <3> QED
      BY <1>4, <2>2, <3>1, <3>2, <3>3 DEF ChallengeSound
  <2> QED
    BY <2>1, <2>2
<1>11. \A a \in Attempt, d \in Challenge :
              a \in change[d].slots /\ change[d].state \notin {"none", "exhausted"} =>
                 a \in change'[d].slots /\ change'[d].state \notin {"none", "exhausted"}
  BY <1>2, <1>4
<1>12. ConfirmSide'
  BY <1>1, <1>2, <1>5, <1>10, <1>11, ConfirmBeside DEF MailIInv
<1> QED
  BY <1>9, <1>12 DEF MailIInv

\* What leaves the challenges, or all of them but their slots, as they are.
LEMMA SlotsRest ==
    ASSUME MailIInv, UNCHANGED <<change, mail>>
    PROVE  /\ change' \in [Challenge -> ChallengeType]
           /\ \A c \in Challenge : ChallengeSound(c)'
           /\ \A a \in Attempt : SlotsKept(a)
BY DEF MailIInv, ConfirmSide, ChallengeSound, SlotsKept

LEMMA ReserveSlotKeeps ==
    ASSUME MailIInv, NEW a \in Attempt, NEW c \in Challenge, ReserveSlot(a, c)
    PROVE  ConfirmSide'
<1> DEFINE y == [change[c] EXCEPT !.slots = change[c].slots \cup {a}]
           x == [pc |-> "verify", challenge |-> c]
<1>1. /\ credential \in CredentialType /\ change \in [Challenge -> ChallengeType]
      /\ \A d \in Challenge : ChallengeSound(d)
  BY DEF MailIInv, ConfirmSide
<1>2. /\ change[c].state = "open" /\ Cardinality(change[c].slots) < AttemptLimit
      /\ attempt' = [attempt EXCEPT ![a] = x] /\ UNCHANGED <<credential, mail>>
      /\ change' = [change EXCEPT ![c] = y]
  BY <1>1 DEF ReserveSlot
<1>3. y \in ChallengeType /\ y.slots = change[c].slots \cup {a} /\ y.state = "open"
  BY <1>1, <1>2 DEF ChallengeType
<1>4. x \in AttemptType /\ x.pc = "verify" /\ x.challenge = c
  BY DEF AttemptType
<1> HIDE DEF x, y
<1>5. /\ change' \in [Challenge -> ChallengeType] /\ change'[c] = y
      /\ \A d \in Challenge \ {c} : change'[d] = change[d]
  BY <1>1, <1>2, <1>3
<1>6. IsFiniteSet(y.slots) /\ Cardinality(y.slots) <= AttemptLimit
  <2>1. IsFiniteSet(change[c].slots) /\ Cardinality(change[c].slots) \in Nat
    BY <1>1, FS_CardinalityType DEF ChallengeSound
  <2>2. /\ IsFiniteSet(change[c].slots \cup {a})
        /\ Cardinality(change[c].slots \cup {a}) =
              IF a \in change[c].slots THEN Cardinality(change[c].slots) ELSE Cardinality(change[c].slots) + 1
    BY <2>1, FS_AddElement
  <2> QED
    BY <1>2, <1>3, <2>1, <2>2, MailBoundAssumption
<1>7. ASSUME NEW d \in Challenge PROVE ChallengeSound(d)'
  <2>1. BudgetSound(y)
    BY <1>3 DEF BudgetSound
  <2> QED
    BY <1>1, <1>2, <1>3, <1>5, <1>6, <2>1 DEF ChallengeSound
<1>8. SlotsKept(a)
  BY <1>3, <1>5 DEF SlotsKept
<1>9. a \in change'[c].slots /\ change'[c].state \notin {"none", "exhausted"}
  BY <1>3, <1>5
<1> QED
  BY <1>1, <1>2, <1>4, <1>5, <1>7, <1>8, <1>9, ConfirmTo DEF MailIInv

LEMMA VerifyCodeKeeps ==
    ASSUME MailIInv, NEW a \in Attempt, VerifyCode(a)
    PROVE  ConfirmSide'
<1>1. PICK place \in {"wrong", "complete"} : Move(a, place)
  BY DEF VerifyCode
<1>2. attempt[a].pc = "verify" /\ UNCHANGED <<credential, change, mail>>
  BY DEF VerifyCode
<1>3. /\ attempt \in [Attempt -> AttemptType] /\ AttemptSound(a) /\ credential \in CredentialType
  BY DEF MailIInv, ConfirmSide
<1> DEFINE x == [attempt[a] EXCEPT !.pc = place]
<1>4. x \in AttemptType /\ x.pc = place /\ x.challenge = attempt[a].challenge
  BY <1>3 DEF AttemptType
<1>5. attempt' = [attempt EXCEPT ![a] = x]
  BY <1>1, <1>3 DEF Move
<1> HIDE DEF x
<1>6. x.challenge \in Challenge /\ a \in change'[x.challenge].slots /\ change'[x.challenge].state \notin {"none", "exhausted"}
  BY <1>2, <1>3, <1>4 DEF AttemptSound
<1> QED
  BY <1>2, <1>3, <1>4, <1>5, <1>6, SlotsRest, ConfirmTo DEF MailIInv

LEMMA FailuresKeep ==
    ASSUME MailIInv, NEW a \in Attempt, RecordWrongCode(a) \/ ReleaseSlot(a) \/ AttemptCrashes(a)
    PROVE  ConfirmSide' /\ UNCHANGED mail
<1> DEFINE c == attempt[a].challenge
<1>1. /\ attempt[a].pc # "idle" /\ UNCHANGED <<credential, mail>>
      /\ Move(a, "release") \/ attempt' = [attempt EXCEPT ![a] = NoAttempt]
  BY DEF RecordWrongCode, ReleaseSlot, AttemptCrashes, Answered
<1>2. AttemptSound(a) /\ change \in [Challenge -> ChallengeType] /\ credential \in CredentialType
  BY DEF MailIInv, ConfirmSide
<1>3. c \in Challenge
  BY <1>1, <1>2 DEF AttemptSound
<1>4. /\ change[c].failed \in 0..AttemptLimit /\ Failed(c) \in 0..AttemptLimit
      /\ change[c].state # "open" => Failed(c) = change[c].failed
  BY <1>2, <1>3, MailBoundAssumption DEF ChallengeType, Failed
<1>5. \/ UNCHANGED change
      \/ /\ a \in change[c].slots
         /\ \E failed \in 0..AttemptLimit :
               GiveBack(a, c, failed) /\ (change[c].state # "open" => failed = change[c].failed)
  BY <1>2, <1>4 DEF RecordWrongCode, ReleaseSlot, AttemptCrashes, Answered, AttemptSound
<1>6. /\ change' \in [Challenge -> ChallengeType]
      /\ \A d \in Challenge : ChallengeSound(d)'
      /\ SlotsKept(a)
  <2>1. CASE UNCHANGED change
    BY <1>1, <2>1, SlotsRest
  <2>2. CASE /\ a \in change[c].slots
             /\ \E failed \in 0..AttemptLimit :
                   GiveBack(a, c, failed) /\ (change[c].state # "open" => failed = change[c].failed)
    <3>1. PICK failed \in 0..AttemptLimit :
             GiveBack(a, c, failed) /\ (change[c].state # "open" => failed = change[c].failed)
      BY <2>2
    <3>2. ConfirmSide /\ UNCHANGED mail
      BY <1>1 DEF MailIInv
    <3> HIDE DEF c
    <3> QED
      BY <1>3, <2>2, <3>1, <3>2, GivesBack
  <2> QED
    BY <1>5, <2>1, <2>2
<1> QED
  BY <1>1, <1>2, <1>6, ConfirmEnds DEF MailIInv

LEMMA CompleteKeeps ==
    ASSUME MailIInv, NEW a \in Attempt, CompleteChange(a)
    PROVE  MailIInv'
<1> DEFINE c == attempt[a].challenge
<1>1. /\ attempt[a].pc = "complete" /\ UNCHANGED sender
      /\ Move(a, "release") \/ attempt' = [attempt EXCEPT ![a] = NoAttempt]
  BY DEF CompleteChange, Answered
<1>2. /\ AttemptSound(a) /\ change \in [Challenge -> ChallengeType] /\ credential \in CredentialType
      /\ mail \in [Mail -> MailType] /\ \A d \in Challenge : ChallengeSound(d)
  BY DEF MailIInv, ConfirmSide, MailSide
<1>3. c \in Challenge
  BY <1>1, <1>2 DEF AttemptSound
<1>4. \/ UNCHANGED <<change, credential, mail>>
      \/ change[c].state = "open" /\ credential.epoch < MaxCredential /\ ChangeEmail(a, c)
  BY DEF CompleteChange, Answered
<1>5. CASE UNCHANGED <<change, credential, mail>>
  <2>1. ConfirmSide'
    BY <1>1, <1>2, <1>5, SlotsRest, ConfirmEnds DEF MailIInv
  <2>2. MailSide'
    BY <1>1, <1>5, MailBeside DEF MailIInv, MailSide
  <2> QED
    BY <2>1, <2>2 DEF MailIInv
<1>6. CASE change[c].state = "open" /\ credential.epoch < MaxCredential /\ ChangeEmail(a, c)
  <2> DEFINE y == [change[c] EXCEPT !.state = "used", !.slots = change[c].slots \ {a}]
  <2>1. change' = [change EXCEPT ![c] = y] /\ y \in ChallengeType
        /\ y.state = "used" /\ y.slots = change[c].slots \ {a}
    <3>1. change' = [change EXCEPT ![c].state = "used", ![c].slots = @ \ {a}]
      BY <1>6 DEF ChangeEmail
    <3>2. change[c] \in ChallengeType
      BY <1>2, <1>3
    <3>3. change' = [change EXCEPT ![c] = y]
      BY <1>2, <1>3, <3>1
    <3> HIDE DEF c
    <3>4. y \in ChallengeType /\ y.state = "used" /\ y.slots = change[c].slots \ {a}
      BY <3>2 DEF ChallengeType
    <3> QED
      BY <3>3, <3>4
  <2> HIDE DEF y
  <2>2. /\ change' \in [Challenge -> ChallengeType] /\ change'[c] = y
        /\ \A d \in Challenge \ {c} : change'[d] = change[d]
    BY <1>2, <1>3, <2>1
  <2>3. credential' \in CredentialType
    <3>1. credential' = [credential EXCEPT !.epoch = credential.epoch + 1]
      BY <1>6 DEF ChangeEmail
    <3> QED
      BY <1>2, <1>6, <3>1, MailBoundAssumption DEF CredentialType
  <2>4. mail' = [Cancel(UnclaimedCodes) EXCEPT
                    ![AlertMail(c)] = IF Cancel(UnclaimedCodes)[AlertMail(c)].state = "none" THEN Queued
                                      ELSE Cancel(UnclaimedCodes)[AlertMail(c)]]
    BY <1>6 DEF ChangeEmail
  <2>5. ASSUME NEW m \in Mail
        PROVE  /\ Cancel(UnclaimedCodes)[m] \in MailType
               /\ Cancel(UnclaimedCodes)[m].state = "none" <=> mail[m].state = "none"
               /\ Cancel(UnclaimedCodes)[m].generation = mail[m].generation
               /\ mail[m].token => Cancel(UnclaimedCodes)[m] = mail[m]
    <3>1. Cancel(UnclaimedCodes)[m] = IF m \in UnclaimedCodes THEN [mail[m] EXCEPT !.state = "cancelled"] ELSE mail[m]
      BY DEF Cancel
    <3>2. mail[m] \in MailType /\ (m \in UnclaimedCodes => mail[m].state \in {"ready", "later"} /\ ~mail[m].token)
      BY <1>2 DEF UnclaimedCodes, Pending
    <3> QED
      BY <3>1, <3>2 DEF MailType
  <2>6. Queued \in MailType /\ Queued.state = "ready"
    BY MailBoundAssumption DEF Queued, MailType
  <2>7. DOMAIN Cancel(UnclaimedCodes) = Mail /\ Cancel(UnclaimedCodes) \in [Mail -> MailType]
    BY <2>5 DEF Cancel
  <2>8. ASSUME NEW m \in Mail
        PROVE  /\ mail'[m] \in MailType
               /\ mail[m].state # "none" => mail'[m].state # "none" /\ mail'[m].generation = mail[m].generation
               /\ mail[m].state # "none" /\ mail[m].token => mail'[m] = mail[m]
               /\ m \in Codes /\ mail[m].state = "none" => mail'[m].state = "none"
    <3>1. CASE m = AlertMail(c)
      <4>1. m \notin Codes
        BY <1>3, <3>1, MailShape DEF Codes
      <4>2. mail'[m] = IF Cancel(UnclaimedCodes)[m].state = "none" THEN Queued ELSE Cancel(UnclaimedCodes)[m]
        BY <2>4, <2>7, <3>1
      <4> QED
        BY <2>5, <2>6, <4>1, <4>2
    <3>2. CASE m # AlertMail(c)
      <4>1. mail'[m] = Cancel(UnclaimedCodes)[m]
        BY <2>4, <2>7, <3>2
      <4> QED
        BY <2>5, <4>1
    <3> QED
      BY <3>1, <3>2
  <2>9. mail' \in [Mail -> MailType]
    BY <2>4, <2>7, <2>8
  <2>10. MailSide'
    BY <1>1, <2>8, <2>9, MailBeside DEF MailIInv
  <2>11. IsFiniteSet(y.slots) /\ Cardinality(y.slots) <= AttemptLimit
    <3>1. /\ IsFiniteSet(change[c].slots) /\ Cardinality(change[c].slots) <= AttemptLimit
          /\ Cardinality(change[c].slots) \in Nat
      BY <1>2, <1>3, FS_CardinalityType DEF ChallengeSound
    <3>2. /\ IsFiniteSet(change[c].slots \ {a})
          /\ Cardinality(change[c].slots \ {a}) =
                IF a \in change[c].slots THEN Cardinality(change[c].slots) - 1 ELSE Cardinality(change[c].slots)
      BY <3>1, FS_RemoveElement
    <3> QED
      BY <2>1, <3>1, <3>2, MailBoundAssumption
  <2>12. ASSUME NEW d \in Challenge PROVE ChallengeSound(d)'
    <3>1. CodeMail(d) \in Mail /\ CodeMail(d) \in Codes /\ ChallengeSound(d)
      BY <1>2, MailShape
    <3>2. mail[CodeMail(d)].state = "none" => mail'[CodeMail(d)].state = "none"
      BY <2>8, <3>1
    <3>3. CASE d = c
      BY <2>1, <2>2, <2>11, <3>3 DEF ChallengeSound, BudgetSound
    <3>4. CASE d # c
      BY <2>2, <3>1, <3>2, <3>4 DEF ChallengeSound
    <3> QED
      BY <3>3, <3>4
  <2>13. SlotsKept(a)
    BY <2>1, <2>2 DEF SlotsKept
  <2>14. ConfirmSide'
    BY <1>1, <2>2, <2>3, <2>12, <2>13, ConfirmEnds DEF MailIInv
  <2> QED
    BY <2>10, <2>14 DEF MailIInv
<1> QED
  BY <1>4, <1>5, <1>6

LEMMA CredentialsKeep ==
    ASSUME MailIInv, ChangeCredential \/ EnableAccount
    PROVE  ConfirmSide'
<1>1. credential \in CredentialType
  BY DEF MailIInv, ConfirmSide
<1>2. credential' \in CredentialType
  <2>1. CASE ChangeCredential
    <3>1. PICK active \in {credential.active, FALSE} :
             credential' = [epoch |-> credential.epoch + 1, active |-> active]
      BY <2>1 DEF ChangeCredential
    <3>2. active \in BOOLEAN
      BY <1>1 DEF CredentialType
    <3>3. credential.epoch + 1 \in 1..MaxCredential
      BY <1>1, <2>1, MailBoundAssumption DEF ChangeCredential, CredentialType
    <3> QED
      BY <3>1, <3>2, <3>3 DEF CredentialType
  <2>2. CASE EnableAccount
    BY <1>1, <2>2 DEF EnableAccount, CredentialType
  <2> QED
    BY <2>1, <2>2
<1>3. UNCHANGED <<change, attempt, mail>>
  BY DEF ChangeCredential, EnableAccount
<1>4. \A c \in Challenge : ChallengeSound(c)'
  BY <1>3, SlotsRest
<1> QED
  BY <1>2, <1>3, <1>4, ConfirmBeside DEF MailIInv, ConfirmSide

LEMMA ExpireChallengeKeeps ==
    ASSUME MailIInv, NEW c \in Challenge, ExpireChallenge(c)
    PROVE  ConfirmSide'
<1> DEFINE y == [change[c] EXCEPT !.expired = TRUE]
<1>1. /\ credential \in CredentialType /\ change \in [Challenge -> ChallengeType]
      /\ \A d \in Challenge : ChallengeSound(d)
  BY DEF MailIInv, ConfirmSide
<1>2. /\ y \in ChallengeType /\ y.slots = change[c].slots /\ y.state = change[c].state
      /\ y.failed = change[c].failed
  BY <1>1 DEF ChallengeType
<1>3. change' = [change EXCEPT ![c] = y] /\ UNCHANGED <<credential, attempt, mail>>
  BY <1>1 DEF ExpireChallenge
<1> HIDE DEF y
<1>4. /\ change' \in [Challenge -> ChallengeType]
      /\ \A d \in Challenge : /\ change'[d].slots = change[d].slots /\ change'[d].state = change[d].state
                              /\ change'[d].failed = change[d].failed
  BY <1>1, <1>2, <1>3
<1>5. \A d \in Challenge : ChallengeSound(d)'
  BY <1>1, <1>3, <1>4 DEF ChallengeSound, BudgetSound
<1> QED
  BY <1>1, <1>3, <1>4, <1>5, ConfirmBeside DEF MailIInv

LEMMA MailConfirms ==
    ASSUME MailIInv, ConfirmNext
    PROVE  MailIInv'
<1>1. ASSUME ConfirmSide', UNCHANGED <<mail, sender>>
      PROVE  MailIInv'
  BY <1>1, MailBeside DEF MailIInv, MailSide
<1>2. ASSUME NEW c \in Challenge, StartChange(c) \/ ExpireChallenge(c)
      PROVE  MailIInv'
  <2>1. CASE StartChange(c)
    BY <2>1, StartChangeKeeps
  <2>2. CASE ExpireChallenge(c)
    BY <1>1, <2>2, ExpireChallengeKeeps DEF ExpireChallenge
  <2> QED
    BY <1>2, <2>1, <2>2
<1>3. ASSUME NEW a \in Attempt, NEW c \in Challenge, ReserveSlot(a, c)
      PROVE  MailIInv'
  BY <1>1, <1>3, ReserveSlotKeeps DEF ReserveSlot
<1>4. ASSUME NEW a \in Attempt, VerifyCode(a)
      PROVE  MailIInv'
  BY <1>1, <1>4, VerifyCodeKeeps DEF VerifyCode
<1>5. ASSUME NEW a \in Attempt, RecordWrongCode(a) \/ ReleaseSlot(a) \/ AttemptCrashes(a)
      PROVE  MailIInv'
  <2>1. ConfirmSide' /\ UNCHANGED mail
    BY <1>5, FailuresKeep
  <2>2. UNCHANGED sender
    BY <1>5 DEF RecordWrongCode, ReleaseSlot, AttemptCrashes
  <2> QED
    BY <1>1, <2>1, <2>2
<1>6. ASSUME NEW a \in Attempt, CompleteChange(a)
      PROVE  MailIInv'
  BY <1>6, CompleteKeeps
<1>7. CASE ChangeCredential \/ EnableAccount
  BY <1>1, <1>7, CredentialsKeep DEF ChangeCredential, EnableAccount
<1> QED
  BY <1>2, <1>3, <1>4, <1>5, <1>6, <1>7 DEF ConfirmNext

\* The invariant of the change of an address and of its mail.
THEOREM MailInvariance == MailSpec => []MailIInv
<1>1. MailInit => MailIInv
  BY MailStarts
<1>2. MailIInv /\ [MailNext]_mailVars => MailIInv'
  <2>1. ASSUME MailIInv, UNCHANGED mailVars PROVE MailIInv'
    BY <2>1 DEF mailVars, changeVars, MailIInv, ConfirmSide, AttemptSound, ChallengeSound, MailSide,
                SenderSound, ClaimsDiffer
  <2> QED
    BY <2>1, MailConfirms, MailDelivers DEF MailNext
<1> QED
  BY <1>1, <1>2, PTL DEF MailSpec

\* Every variable keeps its type, and no challenge has more slots than attempts are allowed.
THEOREM MailTypeCorrect == MailSpec => []MailTypeOK
<1>1. MailIInv => MailTypeOK
  BY DEF MailIInv, ConfirmSide, ChallengeSound, MailSide, MailTypeOK, CredentialType, ChallengeType,
         AttemptType, MailType, SenderType
<1> QED
  BY <1>1, MailInvariance, PTL

\* A worker that is not overdue decides alone what becomes of its entry
\* (notifications/outbox.rs), for any number of workers and of challenges.
THEOREM LeaseIsAlwaysExclusive == MailSpec => []LeaseIsExclusive
<1>1. MailIInv => LeaseIsExclusive
  BY DEF MailIInv, MailSide, SenderSound, LeaseIsExclusive
<1> QED
  BY <1>1, MailInvariance, PTL

\* A right code on its way is not shut out by wrong ones, and recorded failures alone
\* close a challenge, as soon as nobody has a slot of it (users/repository/email_change.rs),
\* for any number of requests and any limit.
THEOREM RightCodeIsNeverShutOut == MailSpec => []RightCodeIsNotShutOut
<1>1. MailIInv => RightCodeIsNotShutOut
  BY DEF MailIInv, ConfirmSide, AttemptSound, ChallengeSound, BudgetSound, RightCodeIsNotShutOut
<1> QED
  BY <1>1, MailInvariance, PTL
=============================================================================
