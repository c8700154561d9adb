-------------------------- MODULE MCPasskeyPolicy --------------------------
(* Small instances of PasskeyPolicy, by what moves in them; MCAccounts runs them. *)
EXTENDS PasskeyPolicy

CONSTANTS i1, i2, j1, j2, j3, x1, x2, r1, r2, b1

VARIABLE focus

\* The only importer has written before anything else happens.
Imported ==
    Configured \/ <<runtime, reread, admin, factorVars>>' = <<runtime, reread, admin, factorVars>>

\* A row that brings nothing new is not reread.
News == \A i \in Instance :
    reread[i] = NoReread /\ reread'[i] # NoReread => runtime[i].generation < issuer.generation

\* The first write, by one importer, beside one administrator and one registration.
ImportFocus ==
    /\ News /\ issuer'.generation <= 2
    /\ reread'[i2] = NoReread /\ (Serves(i2) => runtime'[i2] # Down)
    /\ admin'[x2] = NoAdmin /\ admin'[x1].kind = "issuer"
    /\ registration'[r2] = NoRegistration
    /\ registration'[r1] # NoRegistration => registration'[r1].first
    /\ import'[x1].value # j2 /\ import'[x2] = NoImport
    /\ setting' = setting /\ watched' = watched /\ \A a \in Account : account'[a].active /\ ~account'[a].totp

\* Two administrators at one instance and a registration, once there is an issuer.
IssuerFocus ==
    /\ Imported /\ News
    /\ \A i \in Instance : Serves(i) => runtime'[i] # Down
    /\ reread'[i1] = NoReread
    /\ ~registration'[r1].first
    /\ import'[x2] = NoImport /\ import'[x1].value # j2
    /\ registration'[r2] = NoRegistration
    /\ \A x \in Admin : admin'[x] # NoAdmin => admin'[x].kind = "issuer" /\ admin'[x].at = i1
    /\ admin'[x2] # NoAdmin /\ admin[x2] = NoAdmin => admin[x1] # NoAdmin
    /\ setting' = setting /\ watched' = watched /\ \A a \in Account : account'[a].active /\ ~account'[a].totp

\* One instance, two administrators of the setting, one registration.
PolicyFocus ==
    /\ Imported
    /\ import'[x2] = NoImport /\ import'[x1].value # j2 /\ import'[x1].value # j3
    /\ runtime'[i2] = Down
    /\ reread' = reread /\ registration'[r2] = NoRegistration
    /\ \A x \in Admin : admin'[x] # NoAdmin => admin'[x].kind = "policy" /\ admin'[x].value = j2

PasskeyFocus ==
    \/ focus = "import" /\ PasskeyNext /\ ImportFocus
    \/ focus = "issuer" /\ PasskeyNext /\ IssuerFocus
    \/ focus = "policy" /\ PasskeyNext /\ PolicyFocus
=============================================================================
