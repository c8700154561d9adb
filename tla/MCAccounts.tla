----------------------------- MODULE MCAccounts -----------------------------
(***************************************************************************)
(* The components of the accounts, each explored in a part of the behaviours *)
(* of its own: `focus' says which one moves, and the others keep the state   *)
(* they start in.  They share no variable, save Login and the session        *)
(* outbox, whose product is explored in three parts.                         *)
(***************************************************************************)
EXTENDS Login, Management, EmailChange, MCPasskeyPolicy, TLC

CONSTANTS s1, s2, p1, p2, f1, t1, k1, c1, c2, a1, a2, Focus

\* Workers, requests, transactions and senders never move together, so they share names.
Symmetry == Permutations({p1, p2})

\* Logins start without sessions and with one factor at most; the outbox and the lookup with one at most, s1.
MCInit ==
    /\ focus \in Focus
    /\ Init /\ ManagementInit /\ MailInit /\ PasskeyInit
    /\ keys \subseteq {s1} /\ (focus \notin {"outbox", "find"} => keys = {})
    /\ (focus # "login" => factor = 0) /\ (focus # "login" \/ factor = 1 => passkey = 0)
    /\ focus # "management" => \A u \in User : ~Exists(u)

RowsOf(s) == Save(s) \/ RevokeSession(s) \/ ExpireSession(s)

Stored == SignOutEverywhere \/ ChangeRole \/ DisableUser \/ EnableUser \/ RowsOf(s1)

\* Two changes, the first of which is confirmed once, beside the two workers.
Mailed ==
    \/ StartChange(c1) \/ (change[c1].state # "none" /\ StartChange(c2))
    \/ ReserveSlot(a1, c1) \/ VerifyCode(a1) \/ CompleteChange(a1)

\* The logins name their sessions in this order.
InTurn == row'[s2].state # "none" => row'[s1].state # "none"

Others(mine) ==
    /\ focus' = focus
    /\ "session" \in mine \/ UNCHANGED sessionVars
    /\ "login" \in mine \/ UNCHANGED loginVars
    /\ "management" \in mine \/ UNCHANGED managementVars
    /\ "mail" \in mine \/ UNCHANGED mailVars
    /\ "passkey" \in mine \/ UNCHANGED passkeyVars

MCNext ==
    \/ focus = "login" /\ LoginNext /\ InTurn /\ Others({"session", "login"})
    \/ focus = "outbox" /\ (Stored \/ OutboxNext) /\ Others({"session"})
    \/ focus = "find" /\ (Stored \/ FindNext) /\ Others({"session"})
    \/ focus = "management" /\ ManagementNext /\ Others({"management"})
    \/ focus = "confirm" /\ ConfirmNext /\ Others({"mail"})
    \/ focus = "deliver" /\ (DeliverNext \/ Mailed) /\ Others({"mail"})
    \/ PasskeyFocus /\ Others({"passkey"})

MCSpec == MCInit /\ [][MCNext]_<<focus, vars, managementVars, mailVars, passkeyVars>>

TypesOK == TypeOK /\ ManagementTypeOK /\ MailTypeOK /\ PasskeyTypeOK
=============================================================================
