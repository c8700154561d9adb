----------------------------- MODULE MCServices -----------------------------
(***************************************************************************)
(* The signing keys, the resource bindings, the wallet and the decisions   *)
(* about authorization requests.  They share no variable: `focus' says     *)
(* which one moves, under which of the smaller bounds below, and the       *)
(* others keep the state they start in.                                    *)
(***************************************************************************)
EXTENDS Keys, ResourceBindings, Wallet, Decisions, TLC

CONSTANTS i1, i2, j1, j2, p1, p2, k1, k2, r1, r2, r3, r4, Focus

VARIABLE focus

\* The second instance's clock runs ahead.
ClockSkew == i1 :> 0 @@ i2 :> 1

Owner == r1 :> k1 @@ r2 :> k1 @@ r3 :> k1 @@ r4 :> k2

MCInit ==
    /\ focus \in Focus
    /\ KeysInit /\ BindingsInit /\ WalletInit /\ RequestsInit /\ DecisionsInit
    /\ offer.price = 1
    /\ provider.issuer = j1
    /\ focus # "capacity" => lifetime = 1

\* The keys with a fault anywhere, and another while the first is repaired; for
\* longer, with a fault only while expired keys are collected, the administrator
\* asking the first instance.
KeyFocus ==
    \/ /\ focus = "recovery" /\ minted' <= 2 /\ clock' <= 2
       /\ task'.owner = i2 => task'.op # "rotate"
       /\ used'.faults = 2 => used.faults = 2 \/ task.stage = "rollback"
    \/ /\ focus = "rotation" /\ used'.faults <= 1
       /\ task'.owner = i2 => task'.op \in {"start", "sync"}
       /\ used'.faults > used.faults =>
           task.stage = "load" /\ task.phase > LastPhase /\ task.todo # <<>>

\* One binding after the other; two requests at once; two workers at once.  Of
\* what is interchangeable the first is used first.
BindingFocus ==
    /\ focus # "refresh" => call'[p2].pc = "idle" /\ operation'["refresh"][k2].status = "none"
    /\ focus # "revoke" => revoker'[p2].pc = "idle"
    /\ focus # "relink" => binding'[2].state = "none" /\ operation'["create"][k2].status = "none"
    /\ focus = "refresh" => provider'.revision = 0
    /\ focus = "relink" => provider'.enabled
    /\ \A t \in OpType : operation'[t][k2].status # "none" => operation'[t][k1].status # "none"

\* Two transactions of one customer, who is credited first, while the offer
\* changes once; two transactions of two customers.
WalletFocus ==
    \/ focus = "redeem" /\ RedeemNext
    \/ /\ focus = "buy" /\ PurchaseNext
       /\ \A o \in Order : order'[o].user # p2
       /\ credited'[p2] = 0 /\ assigned'[p2].version = 0
       /\ order[p2].pc = "idle" /\ order'[p2].pc # "idle" => order[p1].pc # "idle"
       /\ order'[p1].key = k2 => receipt[p1][k1] # Unset
       /\ offer' # offer => offer = [price |-> 1, plan |-> TRUE, addon |-> TRUE]
       /\ credited' # credited => order[p1].pc = "idle" /\ assigned[p1].version = 0

authorizationVars == <<requestVars, decisionVars>>

Begun(r) == saved'[r].state # "new"

\* Four requests, of which r1 is decided and put back, while the setting changes; two
\* decisions of one request; decisions of r1 and a consented r2, one after the other,
\* beside two disconnections.
DecisionFocus ==
    \/ /\ focus = "capacity" /\ decision'[p2] = NoDecision
       /\ UNCHANGED <<active, rebind, consentVars>>
       /\ decision'[p1].answer = "approve"
       /\ \A r \in AuthRequest :
              Begun(r) => saved'[r].session = IF r = r1 THEN j1 ELSE Unbound
       /\ Begun(r3) => Begun(r2)
    \/ /\ focus = "decide"
       /\ UNCHANGED <<second, lifetime, disconnect, check>>
       /\ \A r \in AuthRequest \ {r1} : ~Begun(r)
       /\ consent'[k1].version <= 2
       /\ verdict' # verdict => decision' # decision
    \/ /\ focus = "consent" /\ decision'[p2] = NoDecision
       /\ UNCHANGED <<second, lifetime, active, rebind>>
       /\ ~Begun(r3) /\ ~Begun(r4) /\ (Begun(r2) => Begun(r1))
       /\ \A r \in AuthRequest : saved'[r].session \in {Unbound, j1}
       /\ decision'[p1].answer # "deny"
       /\ disconnect'[p2] # NoState => disconnect[p1] # NoState \/ disconnect[p2] # NoState

MCNext ==
    /\ focus' = focus
    /\ \/ /\ focus \in {"recovery", "rotation"}
          /\ KeysNext /\ KeyFocus /\ UNCHANGED <<bindingVars, walletVars, authorizationVars>>
       \/ /\ focus \in {"relink", "refresh", "revoke"}
          /\ BindingsNext /\ BindingFocus /\ UNCHANGED <<keyVars, walletVars, authorizationVars>>
       \/ WalletFocus /\ UNCHANGED <<keyVars, bindingVars, authorizationVars>>
       \/ /\ focus \in {"capacity", "decide", "consent"}
          /\ DecisionsNext /\ DecisionFocus /\ UNCHANGED <<keyVars, bindingVars, walletVars>>

MCSpec ==
    /\ MCInit
    /\ [][MCNext]_<<focus, keyVars, bindingVars, walletVars, authorizationVars>>

TypesOK ==
    KeysTypeOK /\ BindingsTypeOK /\ WalletTypeOK /\ RequestsTypeOK /\ DecisionsTypeOK
=============================================================================
