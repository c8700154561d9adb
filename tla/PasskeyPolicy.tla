--------------------------- MODULE PasskeyPolicy ---------------------------
(***************************************************************************)
(* The issuer of the deployment and the passkeys that are bound to it      *)
(* (src/settings/issuer.rs, issuer_runtime.rs, issuer_passkey.rs,          *)
(* src/admin/issuer_settings_handlers.rs, issuer_passkey_compat.rs, the    *)
(* passkey parts of src/auth_factors).  The row of the issuer is the       *)
(* authority; each instance serves its own copy of it, which it rereads.   *)
(* A registration starts and ends at any instance.  The advisory lock      *)
(* PasskeyPolicy orders what is written about passkeys, except the first   *)
(* issuer, which a deployment imports.  Every issuer yields a relying      *)
(* party of its own, named like it.                                        *)
(***************************************************************************)
EXTENDS Naturals

CONSTANTS
    Instance,       \* running copies of the program
    Issuer,         \* issuers somebody may configure
    Fit,            \* those the instances' policy for cookies admits
    Bootstrap,      \* the relying party of an instance without issuer
    NoIssuer,
    Importer,       \* starts with APP_ISSUER and calls of configure-issuer
    Admin,          \* HTTP requests that write the issuer or the passkey setting
    Registration,   \* challenges for a new passkey
    Account,
    MaxGeneration   \* bound of the issuer's generation

ASSUME FitAssumption == Fit \subseteq Issuer
ASSUME NamesAssumption == {Bootstrap, NoIssuer} \cap Issuer = {}
ASSUME SomeAssumption == Instance # {} /\ Account # {}

VARIABLES
    issuer,         \* row of app_settings; generation 0: no row
    runtime,        \* instance -> its IssuerRuntimeState
    reread,         \* instance -> what load_raw has brought, beside the state it had before
    import,         \* importer -> initialize, where it is and how it ended
    setting,        \* row of the passkey setting
    admin,          \* request -> where it is
    watched,        \* while a policy is being written: accounts active ever since its check
    registration,   \* challenge -> where it is
    account         \* account -> status and factors

issuerVars == <<issuer, runtime, reread, import>>
factorVars == <<setting, watched, registration, account>>
passkeyVars == <<issuerVars, admin, factorVars>>

Down == [phase |-> "down", value |-> NoIssuer, generation |-> 0]
Awaiting == [Down EXCEPT !.phase = "awaiting"]
NoReread == {}
NoImport == [pc |-> "idle", value |-> NoIssuer, outcome |-> "none"]
NoAdmin ==
    [pc |-> "idle", kind |-> "issuer", at |-> CHOOSE i \in Instance : TRUE,
     value |-> NoIssuer, generation |-> 0, enabled |-> TRUE]
NoRegistration ==
    [pc |-> "idle", account |-> CHOOSE a \in Account : TRUE, first |-> FALSE,
     party |-> Bootstrap, generation |-> 0, fresh |-> FALSE]

PasskeyInit ==
    /\ issuer = [value |-> NoIssuer, generation |-> 0]
    /\ runtime = [i \in Instance |-> Down]
    /\ reread = [i \in Instance |-> NoReread]
    /\ import = [x \in Importer |-> NoImport]
    /\ setting = [stored |-> FALSE, enabled |-> TRUE, party |-> Bootstrap]
    /\ admin = [x \in Admin |-> NoAdmin]
    /\ watched = {}
    /\ registration = [r \in Registration |-> NoRegistration]
    /\ account = [a \in Account |-> [active |-> TRUE, totp |-> FALSE, passkey |-> {}]]

---------------------------------------------------------------------------
\* The row and the copies of it.

Configured == issuer.generation > 0

\* IssuerPolicy::snapshot
Loaded(row) ==
    CASE row.generation = 0 -> Awaiting
      [] row.generation > 0 /\ row.value \in Fit ->
             [phase |-> "ready", value |-> row.value, generation |-> row.generation]
      [] OTHER -> [phase |-> "invalid", value |-> NoIssuer, generation |-> row.generation]

\* IssuerRuntime::decide
Decide(state, row) ==
    CASE row.generation = 0 \/ row.generation < state.generation -> state
      [] state.phase = "ready" /\ row.generation = state.generation ->
             IF row.value = state.value THEN state
             ELSE [phase |-> "invalid", value |-> NoIssuer, generation |-> row.generation]
      [] OTHER -> Loaded(row)

Serves(i) == runtime[i].phase # "down"

\* new_with_persisted_issuer; the import of APP_ISSUER is an importer's.
Starts(i) ==
    /\ ~Serves(i)
    /\ runtime' = [runtime EXCEPT ![i] = Loaded(issuer)]
    /\ UNCHANGED <<issuer, reread, import, admin, factorVars>>

\* The process ends, with the administrators' transactions it has open.
Stops(i) ==
    /\ Serves(i)
    /\ runtime' = [runtime EXCEPT ![i] = Down]
    /\ reread' = [reread EXCEPT ![i] = NoReread]
    /\ admin' = [x \in Admin |-> IF admin[x].at = i THEN NoAdmin ELSE admin[x]]
    /\ UNCHANGED <<issuer, import, factorVars>>

\* run_issuer_sync_worker at each interval, converge_awaiting at each request without
\* an issuer: load_raw, and what the state was before it.
Rereads(i) ==
    /\ Serves(i) /\ reread[i] = NoReread
    /\ reread' = [reread EXCEPT ![i] = {[before |-> runtime[i], row |-> issuer]}]
    /\ UNCHANGED <<issuer, runtime, import, admin, factorVars>>

\* apply_raw_if_unchanged; or load_raw has failed.
AppliesReread(i) ==
    /\ reread[i] # NoReread
    /\ reread' = [reread EXCEPT ![i] = NoReread]
    /\ \/ UNCHANGED runtime
       \/ \E read \in reread[i] :
              /\ read.before = runtime[i]
              /\ runtime' = [runtime EXCEPT ![i] = Decide(@, read.row)]
    /\ UNCHANGED <<issuer, import, admin, factorVars>>

---------------------------------------------------------------------------
\* initialize: the first write, by as many as there are.

Ends(x, outcome) == import' = [import EXCEPT ![x].pc = "idle", ![x].outcome = outcome]
Compared(x) == IF import[x].value = issuer.value THEN "already" ELSE "conflict"

ImportReads(x, v) ==
    /\ import[x] = NoImport
    /\ import' = [import EXCEPT ![x] =
           IF Configured
           THEN [pc |-> "idle", value |-> v,
                 outcome |-> IF v = issuer.value THEN "already" ELSE "conflict"]
           ELSE [pc |-> "select", value |-> v, outcome |-> "none"]]
    /\ UNCHANGED <<issuer, runtime, reread, admin, factorVars>>

\* set_app_issuer: FOR UPDATE finds a row, of another generation than 0, or none.
ImportSelects(x) ==
    /\ import[x].pc = "select"
    /\ IF Configured THEN Ends(x, Compared(x)) ELSE import' = [import EXCEPT ![x].pc = "insert"]
    /\ UNCHANGED <<issuer, runtime, reread, admin, factorVars>>

\* The insertion waits for another one to end, and breaks on its key.
ImportInserts(x) ==
    /\ import[x].pc = "insert"
    /\ IF Configured
       THEN Ends(x, "error") /\ UNCHANGED issuer
       ELSE /\ issuer' = [value |-> import[x].value, generation |-> 1]
            /\ Ends(x, "created")
    /\ UNCHANGED <<runtime, reread, admin, factorVars>>

---------------------------------------------------------------------------
\* The passkeys of an account.

HasFactor(a) == account[a].totp \/ account[a].passkey # {}
PasskeyOnly(a) == account[a].passkey # {} /\ ~account[a].totp
SomePasskeys == \E a \in Account : account[a].passkey # {}

\* Mutant: what reads the policy waits for writes of the issuer only.
PolicyUnlocked == \A x \in Admin : admin[x].pc # "checked" \/ admin[x].kind = "policy"

\* lock_passkey_policy succeeds; the transactions of one step hold it in that step.
PolicyFree == \A x \in Admin : admin[x].pc # "checked"

\* The epoch of the account advances, and what was proved before it counts no more.
Outdated(a) ==
    registration' = [r \in Registration |->
        IF registration[r].account = a THEN [registration[r] EXCEPT !.fresh = FALSE]
        ELSE registration[r]]

\* Mutant: that some issuer was loaded is enough.
AnyGeneration(g) == g > 0

\* issuer_generation_matches, INITIAL_ISSUER_GENERATION
GenerationMatches(g) == g = IF Configured THEN issuer.generation ELSE 1

\* passkey_with_issuer_binding
Party(i) ==
    CASE setting.stored -> setting.party
      [] ~setting.stored /\ runtime[i].phase = "ready" -> runtime[i].value
      [] OTHER -> Bootstrap

\* The gate lets a request through to the passkeys.
Routes(i) == runtime[i].phase \in {"awaiting", "ready"}

\* start_passkey_registration of an account without factors,
\* start_session_passkey_registration of any other.
StartsRegistration(r, a, i, first) ==
    /\ registration[r] = NoRegistration /\ Routes(i) /\ setting.enabled
    /\ account[a].active /\ (first => ~HasFactor(a))
    /\ registration' = [registration EXCEPT ![r] =
           [pc |-> "pending", account |-> a, first |-> first, party |-> Party(i),
            generation |-> runtime[i].generation, fresh |-> TRUE]]
    /\ UNCHANGED <<issuerVars, admin, setting, watched, account>>

\* The authenticator's answer, up to the transaction; the challenge of another
\* generation is thrown away.
FinishesRegistration(r, i) ==
    /\ registration[r].pc = "pending" /\ Routes(i) /\ setting.enabled /\ registration[r].fresh
    /\ registration' = [registration EXCEPT ![r] =
           IF runtime[i].generation = @.generation
           THEN [@ EXCEPT !.pc = "insert"]
           ELSE NoRegistration]
    /\ UNCHANGED <<issuerVars, admin, setting, watched, account>>

\* Under the locks of the policy and of the account, all is checked again.
Admissible(r) ==
    LET a == registration[r].account
    IN /\ GenerationMatches(registration[r].generation)
       /\ setting.enabled /\ registration[r].fresh /\ account[a].active
       /\ registration[r].first => ~HasFactor(a)

\* insert_passkey_if_empty, insert_authenticated_passkey; after an error of the
\* database the challenge is put back.
InsertsPasskey(r) ==
    /\ registration[r].pc = "insert" /\ PolicyFree
    /\ \/ /\ Admissible(r)
          /\ account' = [account EXCEPT ![registration[r].account].passkey =
                 @ \cup {registration[r].party}]
          /\ registration' = [registration EXCEPT ![r] = NoRegistration]
       \/ /\ ~Admissible(r) /\ UNCHANGED account
          /\ registration' = [registration EXCEPT ![r] = NoRegistration]
       \/ /\ UNCHANGED account
          /\ registration' = [registration EXCEPT ![r].pc = "pending"]
    /\ UNCHANGED <<issuerVars, admin, setting, watched>>

\* LoginTicket::TTL, or the process ends with the transaction it has open.
ForgetsRegistration(r) ==
    /\ registration[r].pc # "idle"
    /\ registration' = [registration EXCEPT ![r] = NoRegistration]
    /\ UNCHANGED <<issuerVars, admin, setting, watched, account>>

\* insert_totp_factor_if_empty, insert_totp_factor_for_passkey_recovery,
\* insert_authenticated_totp_factor; none takes the lock of the policy.
AddsTotp(a) ==
    /\ account[a].active /\ ~account[a].totp
    /\ account' = [account EXCEPT ![a].totp = TRUE]
    /\ UNCHANGED <<issuerVars, admin, setting, watched, registration>>

\* remove_own_factor and the resets by an administrator
RemovesTotp(a) ==
    /\ PolicyFree /\ account[a].totp
    /\ account' = [account EXCEPT ![a].totp = FALSE]
    /\ Outdated(a)
    /\ UNCHANGED <<issuerVars, admin, setting, watched>>

RemovesPasskeys(a) ==
    /\ PolicyFree /\ account[a].passkey # {}
    /\ account' = [account EXCEPT ![a].passkey = {}]
    /\ Outdated(a)
    /\ UNCHANGED <<issuerVars, admin, setting, watched>>

\* A change of the status, which advances the epoch when it disables.
Disables(a) ==
    /\ account[a].active
    /\ account' = [account EXCEPT ![a].active = FALSE]
    /\ watched' = watched \ {a}
    /\ Outdated(a)
    /\ UNCHANGED <<issuerVars, admin, setting>>

Enables(a) ==
    /\ ~account[a].active
    /\ account' = [account EXCEPT ![a].active = TRUE]
    /\ UNCHANGED <<issuerVars, admin, setting, watched, registration>>

---------------------------------------------------------------------------
\* What administrators write.

Gives(x, answer) == admin' = [admin EXCEPT ![x] = answer]

\* update_issuer_setting, up to the transaction; the page shows the generation.
AsksIssuer(x, i, v) ==
    /\ admin[x] = NoAdmin /\ Serves(i)
    /\ Gives(x, [NoAdmin EXCEPT !.pc = "asked", !.at = i, !.value = v,
                                !.generation = issuer.generation])
    /\ UNCHANGED <<issuerVars, factorVars>>

\* current_webauthn_baseline: what the passkeys there are are bound to.
Baseline(i) ==
    IF Configured /\ issuer.value \in Fit THEN issuer.value
    ELSE IF runtime[i].phase = "ready" THEN runtime[i].value
    ELSE IF Configured THEN NoIssuer
    ELSE Bootstrap

\* reject_if_issuer_breaks_existing_passkeys, under the lock
ChecksIssuer(x) ==
    /\ admin[x].pc = "asked" /\ admin[x].kind = "issuer" /\ PolicyFree
    /\ IF admin[x].value = Baseline(admin[x].at) \/ ~SomePasskeys
       THEN admin' = [admin EXCEPT ![x].pc = "checked"]
       ELSE Gives(x, NoAdmin)
    /\ UNCHANGED <<issuerVars, factorVars>>

\* set_app_issuer and the commit; or it is refused, or the audit or the commit fails.
CommitsIssuer(x) ==
    LET same == issuer.value = admin[x].value
        next == issuer.generation + IF same THEN 0 ELSE 1
    IN /\ admin[x].pc = "checked" /\ admin[x].kind = "issuer"
       /\ \/ /\ issuer.generation = admin[x].generation /\ next <= MaxGeneration
             /\ issuer' = [value |-> admin[x].value, generation |-> next]
             /\ admin' = [admin EXCEPT ![x].pc = "apply", ![x].generation = next]
          \/ Gives(x, NoAdmin) /\ UNCHANGED issuer
       /\ UNCHANGED <<runtime, reread, import, factorVars>>

\* IssuerRuntime::apply
AppliesWritten(x) ==
    LET i == admin[x].at
        row == [value |-> admin[x].value, generation |-> admin[x].generation]
    IN /\ admin[x].pc = "apply" /\ Gives(x, NoAdmin)
       /\ runtime' = [runtime EXCEPT ![i] = Decide(@, row)]
       /\ UNCHANGED <<issuer, reread, import, factorVars>>

\* set_passkey_policy_audited, with its explicit relying party.
AsksPolicy(x, i, enabled, party) ==
    /\ admin[x] = NoAdmin /\ Routes(i)
    /\ Gives(x, [NoAdmin EXCEPT !.pc = "asked", !.kind = "policy", !.at = i,
                                !.value = party, !.enabled = enabled])
    /\ UNCHANGED <<issuerVars, factorVars>>

\* has_active_passkey_only_accounts_in_transaction, under the lock
ChecksPolicy(x) ==
    /\ admin[x].pc = "asked" /\ admin[x].kind = "policy" /\ PolicyFree
    /\ IF admin[x].enabled \/ \A a \in Account : account[a].active => ~PasskeyOnly(a)
       THEN /\ admin' = [admin EXCEPT ![x].pc = "checked"]
            /\ watched' = {a \in Account : account[a].active}
       ELSE Gives(x, NoAdmin) /\ UNCHANGED watched
    /\ UNCHANGED <<issuerVars, setting, registration, account>>

CommitsPolicy(x) ==
    /\ admin[x].pc = "checked" /\ admin[x].kind = "policy" /\ Gives(x, NoAdmin)
    /\ watched' = {}
    /\ \/ setting' = [stored |-> TRUE, enabled |-> admin[x].enabled, party |-> admin[x].value]
       \/ UNCHANGED setting
    /\ UNCHANGED <<issuerVars, registration, account>>

---------------------------------------------------------------------------
ImportNext ==
    \E x \in Importer :
        ImportSelects(x) \/ ImportInserts(x) \/ \E v \in Issuer : ImportReads(x, v)

InstanceNext == \E i \in Instance : Starts(i) \/ Stops(i) \/ Rereads(i) \/ AppliesReread(i)

AdminNext ==
    \E x \in Admin :
        \/ ChecksIssuer(x) \/ CommitsIssuer(x) \/ AppliesWritten(x)
        \/ ChecksPolicy(x) \/ CommitsPolicy(x)
        \/ \E i \in Instance :
               \/ \E v \in Fit : AsksIssuer(x, i, v)
               \/ \E enabled \in BOOLEAN, v \in Issuer : AsksPolicy(x, i, enabled, v)

FactorNext ==
    \/ \E a \in Account :
           AddsTotp(a) \/ RemovesTotp(a) \/ RemovesPasskeys(a) \/ Disables(a) \/ Enables(a)
    \/ \E r \in Registration :
           \/ InsertsPasskey(r) \/ ForgetsRegistration(r)
           \/ \E i \in Instance :
                  \/ FinishesRegistration(r, i)
                  \/ \E a \in Account, first \in BOOLEAN : StartsRegistration(r, a, i, first)

PasskeyNext == ImportNext \/ InstanceNext \/ AdminNext \/ FactorNext

PasskeySpec == PasskeyInit /\ [][PasskeyNext]_passkeyVars

PasskeyTypeOK ==
    /\ issuer.value \in Issuer \cup {NoIssuer} /\ issuer.generation \in 0..MaxGeneration
    /\ \A i \in Instance :
           /\ runtime[i].phase \in {"down", "awaiting", "ready", "invalid"}
           /\ runtime[i].phase = "ready" => runtime[i].value \in Fit
    /\ \A x \in Admin : admin[x].pc \in {"idle", "asked", "checked", "apply"}
    /\ \A r \in Registration : registration[r].pc \in {"idle", "pending", "insert"}
    /\ \A a \in Account : account[a].passkey \subseteq Issuer

\* Registrations that start at an instance with an old issuer, or end while it is
\* replaced, and two administrators who replace it: as long as the relying party is
\* derived from the issuer, every passkey there is belongs to the stored one.
PasskeysKeepTheirParty ==
    ~setting.stored => \A a \in Account : account[a].passkey \subseteq {issuer.value}

\* Passkeys are not turned off while an account that has been active ever since the
\* check has nothing else, not even when a registration ends, or a TOTP is removed,
\* while the administrator's request runs.  Enabling an account asks nothing about the
\* policy and takes no lock of it, so it is not promised for one enabled in between.
NobodyIsStranded ==
    [][setting.enabled /\ ~setting'.enabled => \A a \in watched : ~PasskeyOnly(a)']_passkeyVars
=============================================================================
