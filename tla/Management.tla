----------------------------- MODULE Management -----------------------------
(***************************************************************************)
(* The writes that concern other people's accounts: roles and statuses     *)
(* (users/repository/role_guard.rs), accounts created by a registration,   *)
(* by the bootstrap or by an administrator                                 *)
(* (users/repository/owner_bootstrap.rs), and invitation codes             *)
(* (invitation_codes.rs).  All of them are PostgreSQL transactions that    *)
(* lock as they go; an action takes one lock, and the commit is one more.  *)
(*                                                                         *)
(* The number of a user is the id of the row: locks are taken in its order.*)
(***************************************************************************)
EXTENDS Naturals, FiniteSets

CONSTANTS
    Cookie,          \* rows of user_sessions; an identity is used once
    Task,            \* transactions in progress
    Nobody,          \* the holder of a lock that is free, the cookie of a system token
    MaxUser,         \* bound: accounts
    MaxAccountEpoch, \* bound: session epochs of an account
    MaxUses          \* max_uses of the invitation code

ASSUME ManagementBoundAssumption == {MaxUser, MaxAccountEpoch, MaxUses} \subseteq Nat \ {0}
ASSUME NobodyAssumption == Nobody \notin Cookie /\ Nobody \notin Task

VARIABLES
    users,       \* id -> row of users
    cookie,      \* row of user_sessions
    invitation,  \* the row of one invitation code
    holder,      \* lock -> the transaction that holds it
    task         \* transaction -> how far it is

managementVars == <<users, cookie, invitation, holder, task>>

User == 1..MaxUser

\* pg_advisory_xact_lock of a user, row locks on users and user_sessions, the
\* business lock OwnerBootstrap and the row lock of the invitation code.
Advisory(u) == [on |-> "user", key |-> u]
UserRow(u) == [on |-> "row", key |-> u]
CookieRow(k) == [on |-> "cookie", key |-> k]
OwnerBootstrap == [on |-> "business", key |-> 0]
InvitationRow == [on |-> "invitation", key |-> 0]

Lock == {Advisory(u) : u \in User} \cup {UserRow(u) : u \in User}
           \cup {CookieRow(k) : k \in Cookie} \cup {OwnerBootstrap, InvitationRow}

\* UserRole::allows, for the permissions these writes ask for.
Allows(standing, permission) ==
    \/ standing = "owner"
    \/ standing = "admin" /\ permission # "ManageRoles"

Permission == {"ManageUsers", "ManageRoles", "ManageSettings"}

Privileged(standing) == standing \in {"admin", "owner"}

Standing == {"none", "user", "admin", "owner"}
Idle == [pc |-> "idle", kind |-> "none", actor |-> Nobody, by |-> 0, generation |-> 0,
         permission |-> "none", target |-> 0, todo |-> {}, owners |-> 0]

ManagementTypeOK ==
    /\ users \in [User -> [role : Standing, active : BOOLEAN, generation : 1..MaxAccountEpoch]]
    /\ cookie \in [Cookie -> [state : {"none", "live", "revoked"}, user : 0..MaxUser,
                              generation : 0..MaxAccountEpoch]]
    /\ invitation \in [uses : 0..MaxUses, disabled : BOOLEAN, registered : SUBSET User]
    /\ holder \in [Lock -> Task \cup {Nobody}]
    /\ task \in [Task -> [pc : {"idle", "advisory", "owners", "rows", "cookie", "business",
                                "invitation", "commit"},
                          kind : {"none", "guarded", "create", "register", "bootstrap", "disable"},
                          actor : Cookie \cup {Nobody}, by : 0..MaxUser,
                          generation : 0..MaxAccountEpoch,
                          permission : {"none"} \cup Permission,
                          target : 0..MaxUser, todo : SUBSET User, owners : 0..MaxUser]]

\* An installation nobody has used, or one with an owner and others.
ManagementInit ==
    /\ \E roles \in [User -> Standing] :
          /\ \/ \A u \in User : roles[u] = "none"
             \/ roles[1] = "owner" /\ \A u \in User : roles[u] = "none" => u = MaxUser
          /\ users = [u \in User |-> [role |-> roles[u], active |-> TRUE, generation |-> 1]]
    /\ cookie = [k \in Cookie |-> [state |-> "none", user |-> 0, generation |-> 0]]
    /\ invitation = [uses |-> 0, disabled |-> FALSE, registered |-> {}]
    /\ holder = [l \in Lock |-> Nobody]
    /\ task = [t \in Task |-> Idle]

Exists(u) == users[u].role # "none"

\* status <> 'disabled', the predicate lock_active_owner_scope and UserStatus::is_active share.
ActiveOwners == {u \in User : users[u].role = "owner" /\ users[u].active}

Free(t, l) == holder[l] \in {t, Nobody}

Lowest(ids) == CHOOSE u \in ids : \A v \in ids : u <= v

-----------------------------------------------------------------------------
(* Steps of a transaction. *)

To(t, place) == task' = [task EXCEPT ![t].pc = place]

\* COMMIT and ROLLBACK give every lock back.
Over(t) ==
    /\ holder' = [l \in Lock |-> IF holder[l] = t THEN Nobody ELSE holder[l]]
    /\ task' = [task EXCEPT ![t] = Idle]

Take(t, l) == Free(t, l) /\ holder' = [holder EXCEPT ![l] = t]

Data == <<users, cookie, invitation>>

\* ManagementActorCredential of the browser request: what the cookie was worth
\* when the request came in (authorize_user_write).  The system token has none.
Present(k, permission) ==
    LET u == cookie[k].user IN
    /\ cookie[k].state = "live" /\ users[u].active
    /\ cookie[k].generation = users[u].generation
    /\ Allows(users[u].role, permission)

Credential(k) ==
    IF k = Nobody THEN [by |-> 0, generation |-> 0]
    ELSE [by |-> cookie[k].user, generation |-> cookie[k].generation]

\* A management write begins with the advisory locks of actor and target; one that
\* has neither goes on with what it locks next.
Begin(t, kind, k, permission, target) ==
    LET credential == Credential(k)
        ids == {credential.by, target} \ {0}
    IN  /\ task[t].pc = "idle"
        /\ task' = [task EXCEPT ![t] =
               [pc |-> IF ids # {} THEN "advisory" ELSE "business", kind |-> kind, actor |-> k,
                by |-> credential.by, generation |-> credential.generation,
                permission |-> permission, target |-> target, todo |-> ids, owners |-> 0]]
        /\ UNCHANGED <<Data, holder>>

\* The role and the status of a user: which of the two, and the new value, decide
\* nothing before the rows are locked.
BeginGuarded(t, k, target) ==
    /\ k # Nobody => Present(k, "ManageUsers")
    /\ Exists(target)
    /\ Begin(t, "guarded", k, "ManageUsers", target)

\* create_user: a privileged role asks for more.
BeginCreate(t, k) ==
    \E permission \in {"ManageUsers", "ManageRoles"} :
       /\ k # Nobody => Present(k, permission)
       /\ Begin(t, "create", k, permission, 0)

\* disable_with_audit, by somebody with a cookie.
BeginDisable(t, k) ==
    /\ k # Nobody /\ Present(k, "ManageSettings")
    /\ Begin(t, "disable", k, "ManageSettings", 0)

\* insert_public_user and bootstrap_owner have no actor.
BeginRegister(t) == Begin(t, "register", Nobody, "none", 0)
BeginBootstrap(t) == Begin(t, "bootstrap", Nobody, "none", 0)

\* The snapshot of the statement that follows the advisory locks: the active owners
\* for a guarded write, actor and target for any other.
AfterAdvisory(t, rest) ==
    LET was == task[t] IN
    CASE rest # {} -> [was EXCEPT !.todo = rest]
      [] rest = {} /\ was.kind = "guarded" /\ ActiveOwners # {} ->
            [was EXCEPT !.todo = ActiveOwners, !.pc = "owners"]
      [] OTHER -> [was EXCEPT !.todo = {was.by, was.target} \ {0}, !.pc = "rows"]

\* lock_management_user_advisories.
TakeAdvisory(t) ==
    LET u == Lowest(task[t].todo) IN
    /\ task[t].pc = "advisory"
    /\ Take(t, Advisory(u))
    /\ task' = [task EXCEPT ![t] = AfterAdvisory(t, task[t].todo \ {u})]
    /\ UNCHANGED Data

\* Mutant: the owners are counted, and not locked.
CountOwners(t) ==
    /\ task[t].pc = "owners"
    /\ task' = [task EXCEPT ![t].owners = Cardinality(ActiveOwners),
                            ![t].todo = {task[t].by, task[t].target} \ {0}, ![t].pc = "rows"]
    /\ UNCHANGED <<Data, holder>>

\* lock_active_owner_scope.  A row that is an active owner's no longer when its lock
\* is granted is not returned: READ COMMITTED looks at it again.
TakeOwner(t) ==
    LET u == Lowest(task[t].todo)
        rest == task[t].todo \ {u}
        counted == task[t].owners + IF u \in ActiveOwners THEN 1 ELSE 0
    IN  /\ task[t].pc = "owners"
        /\ Take(t, UserRow(u))
        /\ task' = [task EXCEPT ![t].owners = counted,
                                ![t].todo = IF rest # {} THEN rest
                                            ELSE {task[t].by, task[t].target} \ {0},
                                ![t].pc = IF rest # {} THEN "owners" ELSE "rows"]
        /\ UNCHANGED Data

\* Where a write goes once its actor is accepted.
Onward(t) ==
    CASE task[t].kind = "guarded" -> "commit"
      [] task[t].kind = "create" -> "business"
      [] task[t].kind = "disable" -> "invitation"

\* lock_management_user_rows: actor and target, in the order of their ids.
TakeRow(t) ==
    LET u == Lowest(task[t].todo)
        rest == task[t].todo \ {u}
    IN  /\ task[t].pc = "rows"
        /\ Take(t, UserRow(u))
        /\ task' = [task EXCEPT ![t].todo = rest,
                                ![t].pc = CASE rest # {} -> "rows"
                                            [] rest = {} /\ task[t].actor = Nobody -> "commit"
                                            [] rest = {} /\ task[t].actor # Nobody -> "cookie"]
        /\ UNCHANGED Data

\* validate_management_actor and validate_locked_management_actor_permission.
ActorStands(t) ==
    LET k == task[t].actor
        u == task[t].by
    IN  k # Nobody =>
           /\ cookie[k].state = "live" /\ cookie[k].generation = task[t].generation
           /\ users[u].active /\ users[u].generation = task[t].generation
           /\ Allows(users[u].role, task[t].permission)

\* Mutant: the cookie is looked at, and its row not locked.
CheckCookie(t) ==
    /\ task[t].pc = "cookie"
    /\ IF ActorStands(t) THEN To(t, Onward(t)) /\ UNCHANGED holder ELSE Over(t)
    /\ UNCHANGED Data

\* lock_management_actor_session: the exact row of the cookie, then the actor is
\* judged by what is locked.
TakeCookie(t) ==
    /\ task[t].pc = "cookie"
    /\ IF ActorStands(t) THEN Take(t, CookieRow(task[t].actor)) /\ To(t, Onward(t))
       ELSE Free(t, CookieRow(task[t].actor)) /\ Over(t)
    /\ UNCHANGED Data

\* lock_business(OwnerBootstrap), and what is asked under it.
TakeBusiness(t) ==
    LET bootstrapped == \E u \in User : users[u].role = "owner"
        kind == task[t].kind
        goes == IF kind = "bootstrap" THEN \A u \in User : ~Exists(u) ELSE bootstrapped
    IN  /\ task[t].pc = "business" /\ Free(t, OwnerBootstrap)
        /\ IF goes THEN /\ Take(t, OwnerBootstrap)
                        /\ \/ To(t, "commit")
                           \/ kind = "register" /\ To(t, "invitation")
           ELSE Over(t)
        /\ UNCHANGED Data

\* A registration that needs a code takes its row and a use; disabling takes the row.
Usable == ~invitation.disabled /\ invitation.uses < MaxUses

TakeInvitation(t) ==
    /\ task[t].pc = "invitation" /\ Free(t, InvitationRow)
    /\ IF task[t].kind = "disable" \/ Usable
       THEN Take(t, InvitationRow) /\ To(t, "commit")
       ELSE Over(t)
    /\ UNCHANGED Data

-----------------------------------------------------------------------------
(* The writes. *)

\* revoke_all_for_user_in_transaction.  It updates the rows of the user's cookies
\* and waits for whoever locks one.
CookiesOf(u) == {k \in Cookie : cookie[k].state = "live" /\ cookie[k].user = u}

Unlocked(t, rows) == \A k \in rows : Free(t, CookieRow(k))

RevokeAllOf(u) ==
    cookie' = [k \in Cookie |-> IF k \in CookiesOf(u) THEN [cookie[k] EXCEPT !.state = "revoked"]
                                ELSE cookie[k]]

\* OwnerTargetAccess: who may touch an account that is, or becomes, privileged.
MayTouch(t, privileged) ==
    privileged => IF task[t].actor = Nobody THEN TRUE ELSE users[task[t].by].role = "owner"

Last(t) == users[task[t].target].role = "owner" /\ users[task[t].target].active
              /\ task[t].owners <= 1

\* set_user_role_in_transaction, from its checks to the commit.
CommitRole(t, becomes) ==
    LET u == task[t].target
        allowed == /\ MayTouch(t, Privileged(users[u].role) \/ Privileged(becomes))
                   /\ Last(t) => becomes = "owner"
    IN  /\ task[t].pc = "commit" /\ task[t].kind = "guarded"
        /\ IF allowed /\ becomes # users[u].role
           THEN /\ users[u].generation < MaxAccountEpoch /\ Unlocked(t, CookiesOf(u))
                /\ users' = [users EXCEPT ![u].role = becomes, ![u].generation = @ + 1]
                /\ RevokeAllOf(u)
           ELSE UNCHANGED <<users, cookie>>
        /\ Over(t)
        /\ UNCHANGED invitation

\* set_user_status_in_transaction.
Disable(t) ==
    LET u == task[t].target IN
    /\ users[u].active
    /\ users[u].generation < MaxAccountEpoch /\ Unlocked(t, CookiesOf(u))
    /\ users' = [users EXCEPT ![u].active = FALSE, ![u].generation = @ + 1]
    /\ RevokeAllOf(u)

Enable(t) == users' = [users EXCEPT ![task[t].target].active = TRUE] /\ UNCHANGED cookie

CommitStatus(t) ==
    LET u == task[t].target
        may == MayTouch(t, Privileged(users[u].role))
    IN  /\ task[t].pc = "commit" /\ task[t].kind = "guarded"
        /\ \/ may /\ ~Last(t) /\ Disable(t)
           \/ may /\ Enable(t)
           \/ ~may /\ UNCHANGED <<users, cookie>>
        /\ Over(t)
        /\ UNCHANGED invitation

\* insert_user_after_owner, insert_public_user and bootstrap_owner: the row gets the
\* next id of the sequence.
Inserted(t) ==
    CASE task[t].kind = "bootstrap" -> {"owner"} \X {TRUE}
      [] task[t].kind = "register" -> {"user"} \X {TRUE}
      [] task[t].permission = "ManageUsers" -> {"user"} \X BOOLEAN
      [] task[t].permission = "ManageRoles" -> {"admin", "owner"} \X BOOLEAN

CommitInsert(t) ==
    LET vacant == {u \in User : ~Exists(u)}
        u == Lowest(vacant)
        invited == holder[InvitationRow] = t
    IN  /\ task[t].pc = "commit" /\ task[t].kind \in {"create", "register", "bootstrap"}
        /\ vacant # {}
        /\ \E new \in Inserted(t) :
              users' = [users EXCEPT ![u].role = new[1], ![u].active = new[2]]
        /\ invitation' = IF invited THEN [invitation EXCEPT !.uses = @ + 1, !.registered = @ \cup {u}]
                         ELSE invitation
        /\ Over(t)
        /\ UNCHANGED cookie

CommitDisable(t) ==
    /\ task[t].pc = "commit" /\ task[t].kind = "disable"
    /\ invitation' = [invitation EXCEPT !.disabled = TRUE]
    /\ Over(t)
    /\ UNCHANGED <<users, cookie>>

\* The audit record of the transaction cannot be written, or the connection breaks.
Rollback(t) ==
    /\ task[t].pc # "idle"
    /\ Over(t)
    /\ UNCHANGED Data

\* Transactions that hold their locks for one step only.
SignIn(u, k) ==
    /\ Exists(u) /\ users[u].active /\ cookie[k].state = "none"
    /\ holder[Advisory(u)] = Nobody /\ holder[UserRow(u)] = Nobody
    /\ cookie' = [cookie EXCEPT ![k] = [state |-> "live", user |-> u,
                                        generation |-> users[u].generation]]
    /\ UNCHANGED <<users, invitation, holder, task>>

\* revoke_by_token_hash takes no user lock: only the row of the cookie stands in its way.
SignOut(k) ==
    /\ cookie[k].state = "live" /\ holder[CookieRow(k)] = Nobody
    /\ cookie' = [cookie EXCEPT ![k].state = "revoked"]
    /\ UNCHANGED <<users, invitation, holder, task>>

ChangeCredentials(u) ==
    /\ Exists(u) /\ users[u].generation < MaxAccountEpoch
    /\ holder[Advisory(u)] = Nobody /\ holder[UserRow(u)] = Nobody
    /\ \A k \in CookiesOf(u) : holder[CookieRow(k)] = Nobody
    /\ users' = [users EXCEPT ![u].generation = @ + 1]
    /\ RevokeAllOf(u)
    /\ UNCHANGED <<invitation, holder, task>>

TaskNext(t) ==
    \/ \E k \in Cookie \cup {Nobody} :
          BeginDisable(t, k) \/ BeginCreate(t, k) \/ \E u \in User : BeginGuarded(t, k, u)
    \/ BeginRegister(t) \/ BeginBootstrap(t)
    \/ TakeAdvisory(t) \/ TakeOwner(t) \/ TakeRow(t) \/ TakeCookie(t) \/ TakeBusiness(t)
    \/ TakeInvitation(t)
    \/ CommitStatus(t) \/ CommitInsert(t) \/ CommitDisable(t) \/ Rollback(t)
    \/ \E becomes \in {"user", "admin", "owner"} : CommitRole(t, becomes)

ManagementNext ==
    \/ \E t \in Task : TaskNext(t)
    \/ \E k \in Cookie : SignOut(k) \/ \E u \in User : SignIn(u, k)
    \/ \E u \in User : ChangeCredentials(u)

ManagementSpec == ManagementInit /\ [][ManagementNext]_managementVars

-----------------------------------------------------------------------------
(* Properties. *)

\* Once there is an owner there is always an active one, whoever demotes or disables
\* whom at the same time (role_guard.rs:62), and a registration finds none before.
OwnerRemains == (\E u \in User : Exists(u)) => ActiveOwners # {}

\* A write that is about to commit is still covered by the cookie it was asked for
\* with: a logout, a demotion or a password change since then stops it (#493, #647).
WritesAreCovered == \A t \in Task : task[t].pc = "commit" => ActorStands(t)

\* What a transaction waits for.
Wanted(t) ==
    LET u == Lowest(task[t].todo) IN
    CASE task[t].pc = "advisory" -> {Advisory(u)}
      [] task[t].pc \in {"owners", "rows"} -> {UserRow(u)}
      [] task[t].pc = "cookie" -> {CookieRow(task[t].actor)}
      [] task[t].pc = "business" -> {OwnerBootstrap}
      [] task[t].pc = "invitation" -> {InvitationRow}
      [] task[t].pc = "commit" /\ task[t].kind = "guarded" ->
            {CookieRow(k) : k \in CookiesOf(task[t].target)}
      [] OTHER -> {}

\* No transactions wait for each other in a circle: administrators who manage each
\* other, owners counted while one of them falls, and cookies revoked while they act.
NobodyWaitsInACircle ==
    \A circle \in SUBSET Task : circle # {} =>
       \E t \in circle : \A l \in Wanted(t) : holder[l] \notin circle \ {t}

=============================================================================
