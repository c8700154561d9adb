--------------------------- MODULE ResourceBindings ---------------------------
(***************************************************************************)
(* The accounts a user links at an external resource provider, of          *)
(* src/src/resource_services: creating a binding, refreshing its tokens,   *)
(* unlinking it, the worker that tells the provider, and the               *)
(* administrator who changes the provider's row.                           *)
(*                                                                         *)
(* Every request is a short transaction, a call to the provider outside of *)
(* any transaction, and another transaction that stores the answer.  What  *)
(* happens between them is the subject: answers are lost, a request that   *)
(* timed out still reaches the provider, leases expire, the user unlinks,  *)
(* two workers hold one entry.  The requests of one user exclude each      *)
(* other inside their transactions, so each transaction is one action.     *)
(*                                                                         *)
(* One user and one provider row are followed.  A binding's number is its  *)
(* client_binding_id, a refresh token's number its generation at the       *)
(* provider.  The provider is external and does what                       *)
(* docs/account-provider-v1/protocol.md promises.  Not modelled: scopes,   *)
(* snapshots of the account, token bundles beyond the refresh token.       *)
(***************************************************************************)
EXTENDS Naturals, FiniteSets

CONSTANTS Call,            \* requests of the user under way at a time
          CreateKey,       \* idempotency keys of creations
          RefreshKey,      \* idempotency keys of refreshes
          Revoker,         \* revocation workers
          Issuer,          \* identities (issuer, client_id) the row may have
          Absent,          \* no binding, no operation, no answer
          MaxBinding,      \* bound: bindings ever inserted
          MaxRevision,     \* bound of the revision of the provider row
          MaxBindingFault, \* bound: faults
          BindingFaults    \* which of "refuse", "lost", "late", "crash" happen

ASSUME BindingsAssumption ==
    /\ {MaxBinding, MaxRevision, MaxBindingFault} \subseteq Nat
    /\ Absent \notin Nat
    /\ BindingFaults \subseteq {"refuse", "lost", "late", "crash"}

VARIABLES provider,  \* the provider row
          binding,   \* resource_service_bindings
          operation, \* resource_service_operations, by type and key
          outbox,    \* resource_service_revocation_outbox, by binding
          remote,    \* external: what each provider identity knows of a binding
          call,      \* the user's requests
          revoker,   \* the workers
          stray,     \* requests that timed out here and have not arrived there
          mislaid,   \* ghost: tokens whose answer was lost or could not be stored
          mishaps    \* faults so far

bindingVars ==
    <<provider, binding, operation, outbox, remote, call, revoker, stray, mislaid, mishaps>>

Binding == 1..MaxBinding
OpType == {"create", "refresh"}
OpKey(t) == IF t = "create" THEN CreateKey ELSE RefreshKey

NoCall == [pc |-> "idle", type |-> "create", ref |-> Absent, key |-> Absent,
           revision |-> 0, issuer |-> Absent, token |-> 0, answer |-> Absent]
NoWork == [pc |-> "idle", ref |-> Absent, issuer |-> Absent, answer |-> Absent]

BindingsInit ==
    /\ \E i \in Issuer : provider = [issuer |-> i, enabled |-> TRUE, revision |-> 0]
    /\ binding = [b \in Binding |-> [state |-> "none", linked |-> FALSE, token |-> 0]]
    /\ operation = [t \in OpType |-> [k \in OpKey(t) |->
                        [status |-> "none", ref |-> Absent, revision |-> 0, fresh |-> FALSE]]]
    /\ outbox = [b \in Binding |-> "none"]
    /\ remote = [i \in Issuer |-> [b \in Binding |->
                        [state |-> "none", token |-> 0, served |-> {}]]]
    /\ call = [c \in Call |-> NoCall]
    /\ revoker = [w \in Revoker |-> NoWork]
    /\ stray = {}
    /\ mislaid = {}
    /\ mishaps = 0

Live(b) == binding[b].state = "live"

Fault(f) ==
    /\ f \in BindingFaults /\ mishaps < MaxBindingFault
    /\ mishaps' = mishaps + 1

-----------------------------------------------------------------------------
(* The first transaction of a request. *)

\* The user's binding that has no account yet: the live one, or a new row.
Pending(b) ==
    IF \E a \in Binding : Live(a) THEN Live(b) /\ ~binding[b].linked
    ELSE b = Cardinality({a \in Binding : binding[a].state # "none"}) + 1

\* A key is claimed when it is new; used again for the same binding while its
\* operation is open it repeats the call, whether or not its lease is over.
\* With a failed operation, or one of another binding, the request is refused.
Claimable(t, k, b) ==
    LET o == operation[t][k] IN o.status = "none" \/ (o.status = "leased" /\ o.ref = b)

Claim(t, k, b) ==
    LET o == operation[t][k] IN
    operation' = [operation EXCEPT ![t][k] =
        IF o.status = "none"
        THEN [status |-> "leased", ref |-> b, revision |-> provider.revision, fresh |-> TRUE]
        ELSE [o EXCEPT !.fresh = TRUE]]

\* create_binding up to the call of the provider.
BeginCreate(c, k, b) ==
    /\ call[c].pc = "idle" /\ provider.enabled
    /\ Pending(b) /\ Claimable("create", k, b)
    /\ binding' = [binding EXCEPT ![b].state = "live"]
    /\ Claim("create", k, b)
    /\ call' = [call EXCEPT ![c] = [NoCall EXCEPT
           !.pc = "call", !.type = "create", !.ref = b, !.key = k, !.issuer = provider.issuer,
           !.revision = operation'["create"][k].revision]]
    /\ UNCHANGED <<provider, outbox, remote, revoker, stray, mislaid, mishaps>>

\* refresh_binding up to the call: the key is the user's, or a fresh one when a
\* synchronization found the access token expired.
BeginRefresh(c, k, b) ==
    /\ call[c].pc = "idle" /\ provider.enabled
    /\ Live(b) /\ binding[b].linked /\ Claimable("refresh", k, b)
    /\ Claim("refresh", k, b)
    /\ call' = [call EXCEPT ![c] = [NoCall EXCEPT
           !.pc = "call", !.type = "refresh", !.ref = b, !.key = k, !.issuer = provider.issuer,
           !.token = binding[b].token]]
    /\ UNCHANGED <<provider, binding, outbox, remote, revoker, stray, mislaid, mishaps>>

\* A lease of 30 seconds runs out, perhaps while the call is still under way.
LeaseExpires(t, k) ==
    /\ operation[t][k].status = "leased" /\ operation[t][k].fresh
    /\ operation' = [operation EXCEPT ![t][k].fresh = FALSE]
    /\ UNCHANGED <<provider, binding, outbox, remote, call, revoker, stray, mislaid, mishaps>>

-----------------------------------------------------------------------------
(* The provider. *)

Asked(c) == [type |-> call[c].type, ref |-> call[c].ref, key |-> call[c].key,
             issuer |-> call[c].issuer, token |-> call[c].token]

\* What the provider has of the binding of request q, and its answer.
Known(q) == remote[q.issuer][q.ref]

Answer(q) ==
    LET g == Known(q) IN
    IF <<q.type, q.key, q.token>> \in g.served /\ g.state = "alive" THEN "committed"
    ELSE IF q.type = "create" THEN (IF g.state = "none" THEN "bundle" ELSE "refused")
    ELSE IF g.state = "alive" /\ g.token = q.token THEN "bundle" ELSE "refused"

Serve(q) ==
    remote' = IF Answer(q) # "bundle" THEN remote
              ELSE [remote EXCEPT ![q.issuer][q.ref] =
                        [state |-> "alive", token |-> @.token + 1,
                         served |-> @.served \cup {<<q.type, q.key, q.token>>}]]

Issued(q) == {<<q.issuer, q.ref, Known(q).token + 1>> : n \in {Answer(q)} \cap {"bundle"}}

\* The provider serves the call and its answer arrives.
Served(c) ==
    /\ call[c].pc = "call"
    /\ Serve(Asked(c))
    /\ call' = [call EXCEPT ![c].pc = "answered", ![c].answer = Answer(Asked(c)),
                            ![c].token = Known(Asked(c)).token + 1]
    /\ UNCHANGED <<provider, binding, operation, outbox, revoker, stray, mislaid, mishaps>>

\* It serves the call and the answer is lost.
AnswerLost(c) ==
    /\ call[c].pc = "call" /\ Fault("lost")
    /\ Serve(Asked(c))
    /\ mislaid' = mislaid \cup Issued(Asked(c))
    /\ call' = [call EXCEPT ![c] = NoCall]
    /\ UNCHANGED <<provider, binding, operation, outbox, revoker, stray>>

\* The request times out before it arrives.
TimesOut(c) ==
    /\ call[c].pc = "call" /\ Fault("late")
    /\ stray' = stray \cup {Asked(c)}
    /\ call' = [call EXCEPT ![c] = NoCall]
    /\ UNCHANGED <<provider, binding, operation, outbox, remote, revoker, mislaid>>

\* It arrives late; nobody waits for the answer.
StrayArrives(q) ==
    /\ Serve(q)
    /\ mislaid' = mislaid \cup Issued(q)
    /\ stray' = stray \ {q}
    /\ UNCHANGED <<provider, binding, operation, outbox, call, revoker, mishaps>>

\* The provider is busy, or refuses the credentials or the account.
ProviderRefuses(c) ==
    /\ call[c].pc = "call" /\ Fault("refuse")
    /\ \E a \in {"busy", "refused"} :
        call' = [call EXCEPT ![c].pc = "answered", ![c].answer = a]
    /\ UNCHANGED <<provider, binding, operation, outbox, remote, revoker, stray, mislaid>>

-----------------------------------------------------------------------------
(* The second transaction. *)

Close(t, k, status) ==
    operation' = IF operation[t][k].status # "leased" THEN operation
                 ELSE [operation EXCEPT ![t][k].status = status, ![t][k].fresh = FALSE]

Bundle(c, t) == call[c].pc = "answered" /\ call[c].answer = "bundle" /\ call[c].type = t

Return(c) == call' = [call EXCEPT ![c] = NoCall]

\* The account is stored while the provider row is the one the operation began
\* with and the binding is live and without an account.
Storable(c) ==
    IF call[c].type = "create"
    THEN /\ provider.revision = call[c].revision
         /\ Live(call[c].ref) /\ ~binding[call[c].ref].linked
    ELSE Live(call[c].ref)

\* commit_created.
CommitCreated(c) ==
    /\ Bundle(c, "create") /\ Storable(c)
    /\ binding' = [binding EXCEPT ![call[c].ref].linked = TRUE,
                                  ![call[c].ref].token = call[c].token]
    /\ Close("create", call[c].key, "committed")
    /\ Return(c)
    /\ UNCHANGED <<provider, outbox, remote, revoker, stray, mislaid, mishaps>>

\* The end of refresh_binding.
CommitRefreshed(c) ==
    /\ Bundle(c, "refresh") /\ Storable(c)
    /\ binding' = [binding EXCEPT ![call[c].ref].token = call[c].token]
    /\ Close("refresh", call[c].key, "committed")
    /\ Return(c)
    /\ UNCHANGED <<provider, outbox, remote, revoker, stray, mislaid, mishaps>>

\* The tokens cannot be stored and are dropped: the binding or the provider row
\* has changed.
Dropped(c) ==
    /\ Bundle(c, call[c].type) /\ ~Storable(c)
    /\ mislaid' = mislaid \cup {<<call[c].issuer, call[c].ref, call[c].token>>}
    /\ Return(c)
    /\ UNCHANGED <<provider, binding, operation, outbox, remote, revoker, stray, mishaps>>

\* handle_provider_error: a terminal answer fails the operation; a busy provider
\* and one that has served this key before leave it open.
HandleError(c) ==
    /\ call[c].pc = "answered" /\ call[c].answer \in {"committed", "busy", "refused"}
    /\ IF call[c].answer = "refused" THEN Close(call[c].type, call[c].key, "failed")
       ELSE UNCHANGED operation
    /\ Return(c)
    /\ UNCHANGED <<provider, binding, outbox, remote, revoker, stray, mislaid, mishaps>>

\* The process dies with the call.
CallDies(c) ==
    /\ call[c].pc # "idle" /\ Fault("crash")
    /\ mislaid' = mislaid \cup {<<call[c].issuer, call[c].ref, call[c].token>> :
                                   n \in {call[c].answer} \cap {"bundle"}}
    /\ stray' = stray \cup {Asked(c) : n \in {call[c].pc} \cap {"call"}}
    /\ Return(c)
    /\ UNCHANGED <<provider, binding, operation, outbox, remote, revoker>>

-----------------------------------------------------------------------------
(* Unlinking, and the worker that revokes at the provider. *)

\* unlink_binding: the tombstone and the outbox entry commit together.
Unlink(b) ==
    /\ Live(b)
    /\ binding' = [binding EXCEPT ![b].state = "gone", ![b].token = 0]
    /\ outbox' = [outbox EXCEPT ![b] = "queued"]
    /\ UNCHANGED <<provider, operation, remote, call, revoker, stray, mislaid, mishaps>>

\* An entry is claimed for a while and has no token of its holder.
ClaimEntry(w, b) ==
    /\ revoker[w].pc = "idle" /\ outbox[b] = "queued"
    /\ outbox' = [outbox EXCEPT ![b] = "claimed"]
    /\ revoker' = [revoker EXCEPT ![w] = [NoWork EXCEPT !.pc = "load", !.ref = b]]
    /\ UNCHANGED <<provider, binding, operation, remote, call, stray, mislaid, mishaps>>

\* available_at is reached, whatever the holder does.
EntryReturns(b) ==
    /\ outbox[b] = "claimed"
    /\ outbox' = [outbox EXCEPT ![b] = "queued"]
    /\ UNCHANGED <<provider, binding, operation, remote, call, revoker, stray, mislaid, mishaps>>

\* The provider row is read without a lock.
LoadProvider(w) ==
    /\ revoker[w].pc = "load"
    /\ revoker' = [revoker EXCEPT ![w].pc = "revoke", ![w].issuer = provider.issuer]
    /\ UNCHANGED <<provider, binding, operation, outbox, remote, call, stray, mislaid, mishaps>>

\* The provider revokes the binding, known or not, and never accepts it again.
Revoking(w) ==
    remote' = [remote EXCEPT ![revoker[w].issuer][revoker[w].ref].state = "tombstone"]

RevokeRemotely(w) ==
    /\ revoker[w].pc = "revoke"
    /\ \/ Revoking(w) /\ UNCHANGED mishaps
          /\ revoker' = [revoker EXCEPT ![w].pc = "report", ![w].answer = "done"]
       \/ Fault("lost") /\ (Revoking(w) \/ UNCHANGED remote)
          /\ revoker' = [revoker EXCEPT ![w].pc = "report", ![w].answer = "failed"]
    /\ UNCHANGED <<provider, binding, operation, outbox, call, stray, mislaid>>

\* Mutant: whatever the provider answered, the entry is done with.
AlwaysProcessed(w) ==
    /\ revoker[w].pc = "report"
    /\ outbox' = [outbox EXCEPT ![revoker[w].ref] = "processed"]
    /\ revoker' = [revoker EXCEPT ![w] = NoWork]
    /\ UNCHANGED <<provider, binding, operation, remote, call, stray, mislaid, mishaps>>

\* The entry is done with, or waits to be claimed again.
Report(w) ==
    /\ revoker[w].pc = "report"
    /\ outbox' = IF revoker[w].answer = "done"
                 THEN [outbox EXCEPT ![revoker[w].ref] = "processed"] ELSE outbox
    /\ revoker' = [revoker EXCEPT ![w] = NoWork]
    /\ UNCHANGED <<provider, binding, operation, remote, call, stray, mislaid, mishaps>>

RevokerDies(w) ==
    /\ revoker[w].pc # "idle" /\ Fault("crash")
    /\ revoker' = [revoker EXCEPT ![w] = NoWork]
    /\ UNCHANGED <<provider, binding, operation, outbox, remote, call, stray, mislaid>>

-----------------------------------------------------------------------------
(* The administrator. *)

\* The identity may change when nothing depends on it.
IdentityLocked ==
    \/ \E b \in Binding : Live(b)
    \/ \E t \in OpType : \E k \in OpKey(t) :
           operation[t][k].status = "leased" /\ operation[t][k].fresh
    \/ \E b \in Binding : outbox[b] \in {"queued", "claimed"}

UpdateProvider(i) ==
    /\ provider.revision < MaxRevision
    /\ i # provider.issuer => ~IdentityLocked
    /\ provider' = [provider EXCEPT !.issuer = i, !.revision = @ + 1]
    /\ UNCHANGED <<binding, operation, outbox, remote, call, revoker, stray, mislaid, mishaps>>

SetProviderEnabled(e) ==
    /\ provider.revision < MaxRevision
    /\ provider' = [provider EXCEPT !.enabled = e, !.revision = @ + 1]
    /\ UNCHANGED <<binding, operation, outbox, remote, call, revoker, stray, mislaid, mishaps>>

BindingsNext ==
    \/ \E c \in Call :
        \/ \E k \in CreateKey, b \in Binding : BeginCreate(c, k, b)
        \/ \E k \in RefreshKey, b \in Binding : BeginRefresh(c, k, b)
        \/ Served(c) \/ AnswerLost(c) \/ TimesOut(c) \/ ProviderRefuses(c)
        \/ CommitCreated(c) \/ CommitRefreshed(c) \/ Dropped(c) \/ HandleError(c)
        \/ CallDies(c)
    \/ \E q \in stray : StrayArrives(q)
    \/ \E t \in OpType : \E k \in OpKey(t) : LeaseExpires(t, k)
    \/ \E b \in Binding : Unlink(b) \/ EntryReturns(b)
    \/ \E w \in Revoker :
        \/ \E b \in Binding : ClaimEntry(w, b)
        \/ LoadProvider(w) \/ RevokeRemotely(w) \/ Report(w) \/ RevokerDies(w)
    \/ \E i \in Issuer : UpdateProvider(i)
    \/ \E e \in BOOLEAN : SetProviderEnabled(e)

BindingsSpec == BindingsInit /\ [][BindingsNext]_bindingVars

-----------------------------------------------------------------------------
(* Properties. *)

\* The rows, the calls and the workers have their shapes, and the user has one
\* live binding at most.
BindingsTypeOK ==
    /\ provider \in [issuer : Issuer, enabled : BOOLEAN, revision : 0..MaxRevision]
    /\ \A b \in Binding :
        /\ binding[b].state \in {"none", "live", "gone"} /\ binding[b].token \in Nat
        /\ outbox[b] \in {"none", "queued", "claimed", "processed"}
    /\ \A a, b \in Binding : Live(a) /\ Live(b) => a = b
    /\ \A c \in Call : call[c].pc \in {"idle", "call", "answered"}
    /\ \A w \in Revoker : revoker[w].pc \in {"idle", "load", "revoke", "report"}

InTransit(i, b, token) ==
    \E c \in Call : /\ call[c].pc = "answered" /\ call[c].answer = "bundle"
                    /\ call[c].issuer = i /\ call[c].ref = b /\ call[c].token = token

\* A grant alive at the provider is never forgotten here.  The provider row
\* still names the identity that holds it, and either its revocation is queued
\* or its binding is live and has the grant's newest refresh token, unless that
\* token is in an answer under way or its answer was lost: late creations,
\* expired leases, two workers and changed provider rows leave no orphan.
EveryGrantIsAccountedFor ==
    \A i \in Issuer, b \in Binding :
        LET g == remote[i][b] IN
        g.state = "alive" =>
            /\ provider.issuer = i
            /\ \/ outbox[b] \in {"queued", "claimed"}
               \/ /\ Live(b)
                  /\ \/ binding[b].token = g.token
                     \/ InTransit(i, b, g.token)
                     \/ <<i, b, g.token>> \in mislaid
=============================================================================
