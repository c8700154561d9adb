------------------------ MODULE PasskeyPolicyProofs ------------------------
(***************************************************************************)
(* For any instances, issuers, administrators and registrations: passkeys  *)
(* belong to the stored issuer while no relying party is configured, and   *)
(* they are not turned off under an account that was active since the      *)
(* check and has nothing else.  The argument rests on what copies of the   *)
(* row may say: a copy is of an older generation, or it is the row.        *)
(***************************************************************************)
EXTENDS PasskeyPolicy, TLAPS

Name == Issuer \cup {NoIssuer, Bootstrap}
Row == [value : Name, generation : Nat]
State == [phase : {"down", "awaiting", "ready", "invalid"}, value : Name, generation : Nat]
Request ==
    [pc : {"idle", "asked", "checked", "apply"}, kind : {"issuer", "policy"}, at : Instance,
     value : Name, generation : Nat, enabled : BOOLEAN]
Challenge ==
    [pc : {"idle", "pending", "insert"}, account : Account, first : BOOLEAN, party : Name,
     generation : Nat, fresh : BOOLEAN]

Call ==
    [pc : {"idle", "select", "insert"}, value : Name,
     outcome : {"none", "already", "conflict", "created", "error"}]

Types ==
    /\ issuer \in Row
    /\ runtime \in [Instance -> State]
    /\ reread \in [Instance -> SUBSET [before : State, row : Row]]
    /\ import \in [Importer -> Call]
    /\ setting \in [stored : BOOLEAN, enabled : BOOLEAN, party : Name]
    /\ admin \in [Admin -> Request]
    /\ watched \in SUBSET Account
    /\ registration \in [Registration -> Challenge]
    /\ account \in [Account -> [active : BOOLEAN, totp : BOOLEAN, passkey : SUBSET Name]]

\* A copy of the row is of an older generation, or it is the row.
Known(copy) ==
    /\ copy.generation <= issuer.generation
    /\ copy.generation = issuer.generation => copy.value = issuer.value

Sound(state) ==
    /\ state.phase = "awaiting" => state.generation = 0
    /\ state.phase = "ready" => Known(state) /\ state.generation > 0 /\ state.value \in Fit

Copies ==
    /\ \A i \in Instance : Sound(runtime[i]) /\ \A read \in reread[i] : Known(read.row)
    /\ \A x \in Admin : admin[x].pc = "apply" => Known(admin[x])

\* A registration of the current generation is for the relying party of the row.
Begun ==
    \A r \in Registration :
        registration[r].pc # "idle" /\ ~setting.stored =>
            LET g == registration[r].generation
            IN /\ g <= issuer.generation
               /\ g = issuer.generation /\ g > 0 =>
                      registration[r].party = issuer.value /\ issuer.value \in Fit

\* While passkeys exist, an administrator under the lock writes what is there.
Checked ==
    \A x \in Admin :
        admin[x].pc = "checked" /\ admin[x].kind = "issuer" /\ ~setting.stored /\ SomePasskeys =>
            admin[x].value = issuer.value

Kept ==
    /\ PasskeysKeepTheirParty
    /\ ~setting.stored /\ SomePasskeys => Configured /\ issuer.value \in Fit

PartyInv == Types /\ Copies /\ Begun /\ Checked /\ Kept

\* Who has passed the check of the policy may still rely on it.
Watch ==
    \A x \in Admin :
        admin[x].pc = "checked" /\ admin[x].kind = "policy" /\ ~admin[x].enabled =>
            \A a \in watched : ~PasskeyOnly(a)

---------------------------------------------------------------------------
(* What an instance makes of a row. *)

LEMMA LoadedIsSound ==
    ASSUME Types, NEW row \in Row, Known(row)
    PROVE  Loaded(row) \in State /\ Sound(Loaded(row))
<1>1. CASE row.generation = 0
    BY <1>1 DEF Loaded, Awaiting, Down, State, Row, Name, Sound
<1>2. CASE row.generation > 0 /\ row.value \in Fit
    BY <1>2 DEF Loaded, State, Row, Name, Sound, Known
<1>3. CASE row.generation > 0 /\ row.value \notin Fit
    BY <1>3 DEF Loaded, State, Row, Name, Sound
<1> QED BY <1>1, <1>2, <1>3 DEF Row

LEMMA DecisionIsSound ==
    ASSUME Types, NEW row \in Row, Known(row), NEW state \in State, Sound(state)
    PROVE  Decide(state, row) \in State /\ Sound(Decide(state, row))
<1>1. CASE row.generation = 0 \/ row.generation < state.generation
    BY <1>1 DEF Decide, State, Row, Sound
<1>2. CASE ~(row.generation = 0 \/ row.generation < state.generation)
           /\ state.phase = "ready" /\ row.generation = state.generation
    BY <1>2 DEF Decide, State, Row, Name, Sound
<1>3. CASE ~(row.generation = 0 \/ row.generation < state.generation)
           /\ ~(state.phase = "ready" /\ row.generation = state.generation)
    BY <1>3, LoadedIsSound DEF Decide, State, Row
<1> QED BY <1>1, <1>2, <1>3

LEMMA RowIsKnown == Types => issuer \in Row /\ Known(issuer)
    BY DEF Types, Row, Known

---------------------------------------------------------------------------
\* No copy and no registration speaks of an issuer yet.
THEOREM InitParty == PasskeyInit => PartyInv
<1> SUFFICES ASSUME PasskeyInit PROVE PartyInv
    OBVIOUS
<1>1. NoAdmin \in Request
    BY SomeAssumption DEF NoAdmin, Request, Name
<1>2. NoRegistration \in Challenge
    BY SomeAssumption DEF NoRegistration, Challenge, Name
<1>3. Down \in State /\ NoImport \in Call
    BY DEF Down, State, Name, NoImport, Call
<1>4. Types
    BY <1>1, <1>2, <1>3 DEF Types, PasskeyInit, Row, Name, NoReread
<1>5. Copies
    BY DEF Copies, PasskeyInit, Down, Sound, NoReread, NoAdmin
<1>6. Begun /\ Checked /\ Kept
    BY DEF Begun, Checked, Kept, PasskeysKeepTheirParty, SomePasskeys, PasskeyInit,
           NoRegistration, NoAdmin
<1> QED BY <1>4, <1>5, <1>6 DEF PartyInv

---------------------------------------------------------------------------
(* The instances and what they reread. *)

\* What the steps of the instances leave alone.
LEMMA RegistrationsStay ==
    ASSUME PartyInv, UNCHANGED <<issuer, factorVars>>,
           \A x \in Admin : admin'[x] = admin[x] \/ admin'[x] = NoAdmin
    PROVE  (Begun /\ Checked /\ Kept)'
<1>1. Begun' /\ Kept'
    BY DEF PartyInv, Begun, Kept, PasskeysKeepTheirParty, SomePasskeys, Configured, factorVars
<1>2. NoAdmin.pc = "idle"
    BY DEF NoAdmin
<1>3. ASSUME NEW x \in Admin, admin'[x].pc = "checked" PROVE admin'[x] = admin[x]
    BY <1>2, <1>3
<1>4. Checked'
    BY <1>3 DEF PartyInv, Checked, SomePasskeys, factorVars
<1> QED BY <1>1, <1>4

LEMMA StartKeeps ==
    ASSUME PartyInv, NEW i \in Instance, Starts(i)
    PROVE  PartyInv'
<1>1. Loaded(issuer) \in State /\ Sound(Loaded(issuer))
    BY LoadedIsSound, RowIsKnown DEF PartyInv
<1>2. Types'
    BY <1>1 DEF PartyInv, Types, Starts, factorVars
<1>3. Copies'
  <2>1. ASSUME NEW j \in Instance PROVE Sound(runtime[j])'
      BY <1>1, <2>1 DEF PartyInv, Types, Copies, Starts, Sound, Known
  <2>2. ASSUME NEW j \in Instance PROVE (\A read \in reread[j] : Known(read.row))'
      BY <2>2 DEF PartyInv, Copies, Starts, Known
  <2>3. ASSUME NEW x \in Admin, admin'[x].pc = "apply" PROVE Known(admin[x])'
      BY <2>3 DEF PartyInv, Copies, Starts, Known
  <2> QED BY <2>1, <2>2, <2>3 DEF Copies
<1>4. (Begun /\ Checked /\ Kept)'
    BY RegistrationsStay DEF Starts
<1> QED BY <1>2, <1>3, <1>4 DEF PartyInv

LEMMA StopKeeps ==
    ASSUME PartyInv, NEW i \in Instance, Stops(i)
    PROVE  PartyInv'
<1>1. Down \in State /\ Sound(Down) /\ NoAdmin \in Request
    BY SomeAssumption DEF Down, State, Name, Sound, NoAdmin, Request
<1>2. Types'
    BY <1>1 DEF PartyInv, Types, Stops, factorVars, NoReread
<1>3. Copies'
  <2>1. ASSUME NEW j \in Instance PROVE Sound(runtime[j])'
      BY <1>1, <2>1 DEF PartyInv, Types, Copies, Stops, Sound, Known
  <2>2. ASSUME NEW j \in Instance PROVE (\A read \in reread[j] : Known(read.row))'
      BY <2>2 DEF PartyInv, Types, Copies, Stops, Known, NoReread
  <2>3. ASSUME NEW x \in Admin, admin'[x].pc = "apply" PROVE Known(admin[x])'
      BY <2>3 DEF PartyInv, Copies, Stops, Known, NoAdmin
  <2> QED BY <2>1, <2>2, <2>3 DEF Copies
<1>4. (Begun /\ Checked /\ Kept)'
    BY RegistrationsStay DEF Stops
<1> QED BY <1>2, <1>3, <1>4 DEF PartyInv

LEMMA RereadKeeps ==
    ASSUME PartyInv, NEW i \in Instance, Rereads(i)
    PROVE  PartyInv'
<1>1. issuer \in Row /\ Known(issuer)
    BY RowIsKnown DEF PartyInv
<1>2. Types'
    BY <1>1 DEF PartyInv, Types, Rereads, factorVars
<1>3. Copies'
  <2>1. ASSUME NEW j \in Instance PROVE Sound(runtime[j])'
      BY <2>1 DEF PartyInv, Types, Copies, Rereads, Sound, Known
  <2>2. ASSUME NEW j \in Instance, NEW read \in reread'[j] PROVE Known(read.row)'
      BY <1>1, <2>2 DEF PartyInv, Types, Copies, Rereads, Known
  <2>3. ASSUME NEW x \in Admin, admin'[x].pc = "apply" PROVE Known(admin[x])'
      BY <2>3 DEF PartyInv, Copies, Rereads, Known
  <2> QED BY <2>1, <2>2, <2>3 DEF Copies
<1>4. (Begun /\ Checked /\ Kept)'
    BY RegistrationsStay DEF Rereads
<1> QED BY <1>2, <1>3, <1>4 DEF PartyInv

LEMMA AppliedRereadKeeps ==
    ASSUME PartyInv, NEW i \in Instance, AppliesReread(i)
    PROVE  PartyInv'
<1>1. \/ UNCHANGED runtime
      \/ \E state \in State : Sound(state) /\ runtime' = [runtime EXCEPT ![i] = state]
  <2>1. CASE UNCHANGED runtime
      BY <2>1
  <2>2. ASSUME NEW read \in reread[i], runtime' = [runtime EXCEPT ![i] = Decide(@, read.row)]
        PROVE  \E state \in State : Sound(state) /\ runtime' = [runtime EXCEPT ![i] = state]
    <3>1. read.row \in Row /\ Known(read.row)
        BY <2>2 DEF PartyInv, Types, Copies
    <3>2. runtime[i] \in State /\ Sound(runtime[i])
        BY DEF PartyInv, Types, Copies
    <3> QED BY <2>2, <3>1, <3>2, DecisionIsSound DEF PartyInv
  <2> QED BY <2>1, <2>2 DEF AppliesReread
<1>2. Types'
    BY <1>1 DEF PartyInv, Types, AppliesReread, factorVars, NoReread
<1>3. Copies'
  <2>1. ASSUME NEW j \in Instance PROVE Sound(runtime[j])'
      BY <1>1, <2>1 DEF PartyInv, Types, Copies, AppliesReread, Sound, Known
  <2>2. ASSUME NEW j \in Instance, NEW read \in reread'[j] PROVE Known(read.row)'
      BY <2>2 DEF PartyInv, Types, Copies, AppliesReread, Known, NoReread
  <2>3. ASSUME NEW x \in Admin, admin'[x].pc = "apply" PROVE Known(admin[x])'
      BY <2>3 DEF PartyInv, Copies, AppliesReread, Known
  <2> QED BY <2>1, <2>2, <2>3 DEF Copies
<1>4. (Begun /\ Checked /\ Kept)'
    BY RegistrationsStay DEF AppliesReread
<1> QED BY <1>2, <1>3, <1>4 DEF PartyInv

---------------------------------------------------------------------------
(* The first write. *)

LEMMA ImportKeeps ==
    ASSUME PartyInv, NEW x \in Importer,
           ImportSelects(x) \/ \E v \in Issuer : ImportReads(x, v)
    PROVE  PartyInv'
<1>1. UNCHANGED <<issuer, runtime, reread, admin, factorVars>>
    BY DEF ImportReads, ImportSelects
<1>2. \E call \in Call : import' = [import EXCEPT ![x] = call]
  <2>1. import \in [Importer -> Call] /\ import[x] \in Call
      BY DEF PartyInv, Types
  <2>2. ASSUME NEW v \in Issuer, ImportReads(x, v)
        PROVE  \E call \in Call : import' = [import EXCEPT ![x] = call]
      BY <2>1, <2>2 DEF ImportReads, Call, Name
  <2>3. CASE ImportSelects(x) /\ Configured
      BY <2>1, <2>3 DEF ImportSelects, Ends, Compared, Call
  <2>4. CASE ImportSelects(x) /\ ~Configured
      BY <2>1, <2>4 DEF ImportSelects, Call
  <2> QED BY <2>2, <2>3, <2>4
<1>3. Types'
    BY <1>1, <1>2 DEF PartyInv, Types, factorVars
<1>4. Copies'
    BY <1>1 DEF PartyInv, Copies, Sound, Known
<1>5. (Begun /\ Checked /\ Kept)'
    BY <1>1, RegistrationsStay
<1> QED BY <1>3, <1>4, <1>5 DEF PartyInv

LEMMA InsertionKeeps ==
    ASSUME PartyInv, NEW x \in Importer, ImportInserts(x)
    PROVE  PartyInv'
<1>1. CASE Configured
  <2>1. UNCHANGED <<issuer, runtime, reread, admin, factorVars>>
      BY <1>1 DEF ImportInserts
  <2>2. Types'
      BY <1>1, <2>1 DEF PartyInv, Types, factorVars, ImportInserts, Ends, Call
  <2>3. Copies'
      BY <2>1 DEF PartyInv, Copies, Sound, Known
  <2>4. (Begun /\ Checked /\ Kept)'
      BY <2>1, RegistrationsStay
  <2> QED BY <2>2, <2>3, <2>4 DEF PartyInv
<1>2. CASE ~Configured
  <2>1. issuer' = [value |-> import[x].value, generation |-> 1] /\ issuer.generation = 0
      BY <1>2 DEF ImportInserts, Configured, PartyInv, Types, Row
  <2>2. UNCHANGED <<runtime, reread, admin, factorVars>>
      BY DEF ImportInserts
  <2>3. Types'
    <3>1. import[x] \in Call /\ import' = [import EXCEPT ![x].pc = "idle", ![x].outcome = "created"]
        BY <1>2 DEF ImportInserts, Ends, PartyInv, Types
    <3>2. import' \in [Importer -> Call]
        BY <3>1 DEF PartyInv, Types, Call
    <3>3. issuer' \in Row
        BY <2>1, <3>1 DEF Row, Call
    <3> QED BY <2>2, <3>2, <3>3 DEF PartyInv, Types, factorVars
  <2>4. Copies'
    <3>1. ASSUME NEW j \in Instance PROVE Sound(runtime[j])'
        BY <2>1, <2>2, <3>1 DEF PartyInv, Types, Copies, Sound, Known, State
    <3>2. ASSUME NEW j \in Instance, NEW read \in reread'[j] PROVE Known(read.row)'
      <4>1. read.row.generation = 0
          BY <2>1, <2>2, <3>2 DEF PartyInv, Types, Copies, Known, Row
      <4> QED BY <2>1, <4>1 DEF Known
    <3>3. ASSUME NEW y \in Admin, admin'[y].pc = "apply" PROVE Known(admin[y])'
      <4>1. admin[y].generation = 0
          BY <2>1, <2>2, <3>3 DEF PartyInv, Types, Copies, Known, Request
      <4> QED BY <2>1, <2>2, <4>1 DEF Known
    <3> QED BY <3>1, <3>2, <3>3 DEF Copies
  <2>5. Begun'
      BY <2>1, <2>2 DEF PartyInv, Types, Begun, Challenge, factorVars
  <2>6. (Checked /\ Kept)'
      BY <2>1, <2>2 DEF PartyInv, Checked, Kept, PasskeysKeepTheirParty, SomePasskeys,
                        Configured, factorVars
  <2> QED BY <2>3, <2>4, <2>5, <2>6 DEF PartyInv
<1> QED BY <1>1, <1>2

---------------------------------------------------------------------------
(* Registrations and factors. *)

LEMMA CopiesStay ==
    ASSUME PartyInv, UNCHANGED issuerVars, UNCHANGED admin
    PROVE  Copies'
    BY DEF PartyInv, Copies, Sound, Known, issuerVars

\* Begun, of one challenge.
BegunOne(r) ==
    registration[r].pc # "idle" /\ ~setting.stored =>
        LET g == registration[r].generation
        IN /\ g <= issuer.generation
           /\ g = issuer.generation /\ g > 0 =>
                  registration[r].party = issuer.value /\ issuer.value \in Fit

LEMMA BegunIsOfEach == Begun <=> \A r \in Registration : BegunOne(r)
    BY DEF Begun, BegunOne

\* A step that only ends challenges or moves them on.
LEMMA ChallengesMove ==
    ASSUME PartyInv, UNCHANGED <<issuer, setting>>,
           \A r \in Registration :
               \/ registration'[r].pc = "idle"
               \/ /\ registration[r].pc # "idle"
                  /\ registration'[r].generation = registration[r].generation
                  /\ registration'[r].party = registration[r].party
    PROVE  Begun'
    BY DEF PartyInv, Begun

LEMMA ChallengeMoves ==
    ASSUME PartyInv, UNCHANGED <<issuer, setting>>, NEW r \in Registration, NEW c \in Challenge,
           registration' = [registration EXCEPT ![r] = c],
           \/ c.pc = "idle"
           \/ /\ registration[r].pc # "idle"
              /\ c.generation = registration[r].generation /\ c.party = registration[r].party
    PROVE  registration' \in [Registration -> Challenge] /\ Begun'
<1>1. registration \in [Registration -> Challenge]
    BY DEF PartyInv, Types
<1>2. \A q \in Registration : registration'[q] = IF q = r THEN c ELSE registration[q]
    BY <1>1
<1> QED BY <1>1, <1>2, ChallengesMove

\* A challenge whose other fields stay.
LEMMA PhaseMoves ==
    ASSUME NEW c \in Challenge, NEW pc \in {"idle", "pending", "insert"}
    PROVE  /\ [c EXCEPT !.pc = pc] \in Challenge
           /\ [c EXCEPT !.pc = pc].generation = c.generation
           /\ [c EXCEPT !.pc = pc].party = c.party
    BY DEF Challenge

LEMMA StartedKeeps ==
    ASSUME PartyInv, NEW r \in Registration, NEW a \in Account, NEW i \in Instance,
           NEW first \in BOOLEAN, StartsRegistration(r, a, i, first)
    PROVE  PartyInv'
<1> DEFINE new == [pc |-> "pending", account |-> a, first |-> first, party |-> Party(i),
                   generation |-> runtime[i].generation, fresh |-> TRUE]
<1>1. registration' = [registration EXCEPT ![r] = new]
      /\ UNCHANGED <<issuerVars, admin, setting, watched, account>>
    BY DEF StartsRegistration
<1>2. Party(i) \in Name
  <2>1. CASE setting.stored
      BY <2>1 DEF Party, PartyInv, Types
  <2>2. CASE ~setting.stored /\ runtime[i].phase = "ready"
      BY <2>2 DEF Party, PartyInv, Types, State
  <2>3. CASE ~setting.stored /\ runtime[i].phase # "ready"
      BY <2>3 DEF Party, Name
  <2> QED BY <2>1, <2>2, <2>3
<1>3. Types'
  <2>1. new \in Challenge
      BY <1>2 DEF Challenge, PartyInv, Types, State
  <2> HIDE DEF new
  <2> QED BY <1>1, <2>1 DEF PartyInv, Types, issuerVars
<1>4. new.generation = 0 \/ (runtime[i].phase = "ready" /\ Sound(runtime[i]))
    BY DEF StartsRegistration, Routes, PartyInv, Copies, Sound
<1>5. ~setting.stored =>
          /\ new.generation <= issuer.generation
          /\ new.generation = issuer.generation /\ new.generation > 0 =>
                 new.party = issuer.value /\ issuer.value \in Fit
  <2>1. CASE new.generation = 0
      BY <2>1 DEF PartyInv, Types, Row
  <2>2. CASE runtime[i].phase = "ready" /\ Sound(runtime[i])
      BY <2>2 DEF Sound, Known, Party
  <2> QED BY <1>4, <2>1, <2>2
<1>6. Begun'
  <2> HIDE DEF new
  <2>1. ASSUME NEW c \in Registration PROVE BegunOne(c)'
    <3>1. CASE c = r
        BY <1>1, <1>5, <3>1 DEF PartyInv, Types, BegunOne, issuerVars
    <3>2. CASE c # r
        BY <1>1, <3>2, BegunIsOfEach DEF PartyInv, Types, BegunOne, issuerVars
    <3> QED BY <3>1, <3>2
  <2>2. Begun' <=> \A c \in Registration : BegunOne(c)'
      BY DEF Begun, BegunOne
  <2> QED BY <2>1, <2>2
<1>7. (Checked /\ Kept)'
    BY <1>1 DEF PartyInv, Checked, Kept, PasskeysKeepTheirParty, SomePasskeys, Configured,
                issuerVars
<1> QED BY <1>1, <1>3, <1>6, <1>7, CopiesStay DEF PartyInv

LEMMA FinishedKeeps ==
    ASSUME PartyInv, NEW r \in Registration, NEW i \in Instance,
           FinishesRegistration(r, i) \/ ForgetsRegistration(r)
    PROVE  PartyInv'
<1>1. UNCHANGED <<issuerVars, admin, setting, watched, account>>
    BY DEF FinishesRegistration, ForgetsRegistration
<1>2. NoRegistration \in Challenge /\ NoRegistration.pc = "idle"
    BY SomeAssumption DEF NoRegistration, Challenge, Name
<1>3. \/ registration' = [registration EXCEPT ![r] = NoRegistration]
      \/ /\ registration' = [registration EXCEPT ![r] = [registration[r] EXCEPT !.pc = "insert"]]
         /\ registration[r].pc # "idle"
    BY DEF FinishesRegistration, ForgetsRegistration
<1>4. registration[r] \in Challenge
    BY DEF PartyInv, Types
<1>5. registration' \in [Registration -> Challenge] /\ Begun'
    BY <1>1, <1>2, <1>3, <1>4, ChallengeMoves, PhaseMoves DEF issuerVars
<1>6. (Checked /\ Kept)'
    BY <1>1 DEF PartyInv, Checked, Kept, PasskeysKeepTheirParty, SomePasskeys, Configured,
                issuerVars
<1>7. Types'
    BY <1>1, <1>5 DEF PartyInv, Types, issuerVars
<1> QED BY <1>1, <1>5, <1>6, <1>7, CopiesStay DEF PartyInv

\* The current generation, under the lock, makes the relying party the stored one.
LEMMA StoredKeeps ==
    ASSUME PartyInv, NEW r \in Registration, InsertsPasskey(r)
    PROVE  PartyInv'
<1>1. UNCHANGED <<issuerVars, admin, setting, watched>> /\ PolicyFree
    BY DEF InsertsPasskey
<1>2. NoRegistration \in Challenge /\ NoRegistration.pc = "idle"
    BY SomeAssumption DEF NoRegistration, Challenge, Name
<1>3. \/ registration' = [registration EXCEPT ![r] = NoRegistration]
      \/ registration' = [registration EXCEPT ![r] = [registration[r] EXCEPT !.pc = "pending"]]
    BY DEF InsertsPasskey
<1>4. registration[r] \in Challenge /\ registration[r].pc = "insert"
    BY DEF InsertsPasskey, PartyInv, Types
<1>5. \/ UNCHANGED account
      \/ /\ Admissible(r)
         /\ account' = [account EXCEPT ![registration[r].account].passkey =
                @ \cup {registration[r].party}]
    BY DEF InsertsPasskey
<1>6. registration' \in [Registration -> Challenge] /\ Begun'
    BY <1>1, <1>2, <1>3, <1>4, ChallengeMoves, PhaseMoves DEF issuerVars
<1>7. Types'
  <2>1. account' \in [Account -> [active : BOOLEAN, totp : BOOLEAN, passkey : SUBSET Name]]
      BY <1>4, <1>5 DEF PartyInv, Types, Challenge
  <2> QED BY <1>1, <1>6, <2>1 DEF PartyInv, Types, issuerVars
<1>8. Checked'
    BY <1>1 DEF Checked, PolicyFree
<1>9. Kept'
  <2>1. CASE UNCHANGED account
      BY <1>1, <2>1 DEF PartyInv, Kept, PasskeysKeepTheirParty, SomePasskeys, Configured,
                        issuerVars
  <2>2. CASE setting.stored
      BY <1>1, <2>2 DEF Kept, PasskeysKeepTheirParty
  <2>3. CASE ~setting.stored /\ Admissible(r)
             /\ account' = [account EXCEPT ![registration[r].account].passkey =
                    @ \cup {registration[r].party}]
    <3>1. GenerationMatches(registration[r].generation)
        BY <2>3 DEF Admissible
    <3>2. registration[r].generation <= issuer.generation
        BY <1>4, <2>3 DEF PartyInv, Begun
    <3>3. Configured /\ registration[r].generation = issuer.generation
        BY <1>4, <3>1, <3>2 DEF GenerationMatches, Configured, PartyInv, Types, Row, Challenge
    <3>4. registration[r].party = issuer.value /\ issuer.value \in Fit
        BY <1>4, <2>3, <3>3 DEF PartyInv, Begun, Configured
    <3>5. \A a \in Account :
              account'[a].passkey \subseteq account[a].passkey \cup {issuer.value}
        BY <1>4, <2>3, <3>4 DEF PartyInv, Types, Challenge
    <3>6. \A a \in Account : account[a].passkey \subseteq {issuer.value}
        BY <2>3 DEF PartyInv, Kept, PasskeysKeepTheirParty
    <3>7. PasskeysKeepTheirParty'
        BY <1>1, <3>5, <3>6 DEF PasskeysKeepTheirParty, issuerVars
    <3> QED BY <1>1, <3>3, <3>4, <3>7 DEF Kept, Configured, issuerVars
  <2> QED BY <1>5, <2>1, <2>2, <2>3
<1> QED BY <1>1, <1>6, <1>7, <1>8, <1>9, CopiesStay DEF PartyInv

\* What else happens to an account gives it no passkey.
LEMMA AccountKeeps ==
    ASSUME PartyInv, NEW a \in Account,
           AddsTotp(a) \/ RemovesTotp(a) \/ RemovesPasskeys(a) \/ Disables(a) \/ Enables(a)
    PROVE  PartyInv'
<1>1. UNCHANGED <<issuerVars, admin, setting>>
    BY DEF AddsTotp, RemovesTotp, RemovesPasskeys, Disables, Enables
<1>2. UNCHANGED registration \/ Outdated(a)
    BY DEF AddsTotp, RemovesTotp, RemovesPasskeys, Disables, Enables
<1>3. registration' \in [Registration -> Challenge] /\ Begun'
  <2>1. registration \in [Registration -> Challenge]
      BY DEF PartyInv, Types
  <2>2. \A c \in Challenge :
            /\ [c EXCEPT !.fresh = FALSE] \in Challenge
            /\ [c EXCEPT !.fresh = FALSE].pc = c.pc
            /\ [c EXCEPT !.fresh = FALSE].generation = c.generation
            /\ [c EXCEPT !.fresh = FALSE].party = c.party
      BY DEF Challenge
  <2>3. CASE UNCHANGED registration
      BY <1>1, <2>1, <2>3 DEF PartyInv, Begun, issuerVars
  <2>4. CASE Outdated(a)
    <3>1. \A r \in Registration :
              registration'[r] \in {registration[r], [registration[r] EXCEPT !.fresh = FALSE]}
        BY <2>4 DEF Outdated
    <3>2. registration' \in [Registration -> Challenge]
        BY <2>1, <2>2, <2>4 DEF Outdated
    <3> QED BY <1>1, <2>1, <2>2, <3>1, <3>2, ChallengesMove DEF issuerVars
  <2> QED BY <1>2, <2>3, <2>4
<1>4. account' \in [Account -> [active : BOOLEAN, totp : BOOLEAN, passkey : SUBSET Name]]
  <2> DEFINE Holder == [active : BOOLEAN, totp : BOOLEAN, passkey : SUBSET Name]
  <2>1. account \in [Account -> Holder] /\ account[a] \in Holder
      BY DEF PartyInv, Types
  <2>2. \E h \in Holder : account' = [account EXCEPT ![a] = h]
    <3>1. CASE AddsTotp(a) \/ RemovesTotp(a)
        BY <2>1, <3>1 DEF AddsTotp, RemovesTotp
    <3>2. CASE RemovesPasskeys(a)
        BY <2>1, <3>2 DEF RemovesPasskeys
    <3>3. CASE Disables(a) \/ Enables(a)
        BY <2>1, <3>3 DEF Disables, Enables
    <3> QED BY <3>1, <3>2, <3>3
  <2> QED BY <2>1, <2>2
<1>5. \A b \in Account : account'[b].passkey \subseteq account[b].passkey
    BY DEF AddsTotp, RemovesTotp, RemovesPasskeys, Disables, Enables, PartyInv, Types
<1>6. watched' \in SUBSET Account
    BY DEF AddsTotp, RemovesTotp, RemovesPasskeys, Disables, Enables, PartyInv, Types
<1>7. Types'
    BY <1>1, <1>3, <1>4, <1>6 DEF PartyInv, Types, issuerVars
<1>8. SomePasskeys' => SomePasskeys
    BY <1>5 DEF SomePasskeys
<1>9. Checked'
    BY <1>1, <1>8 DEF PartyInv, Checked, issuerVars
<1>10. Kept'
    BY <1>1, <1>5, <1>8 DEF PartyInv, Kept, PasskeysKeepTheirParty, Configured, issuerVars
<1> QED BY <1>1, <1>3, <1>7, <1>9, <1>10, CopiesStay DEF PartyInv

---------------------------------------------------------------------------
(* The administrators. *)

LEMMA NoAdminIsIdle == NoAdmin \in Request /\ NoAdmin.pc = "idle"
    BY SomeAssumption DEF NoAdmin, Request, Name

\* One request moves on, and nothing else.
LEMMA RequestKeeps ==
    ASSUME PartyInv, UNCHANGED <<issuerVars, setting, registration, account>>,
           watched' \in SUBSET Account, NEW x \in Admin, NEW q \in Request,
           admin' = [admin EXCEPT ![x] = q], q.pc # "apply",
           q.pc = "checked" /\ q.kind = "issuer" /\ ~setting.stored /\ SomePasskeys =>
               q.value = issuer.value
    PROVE  PartyInv'
<1>1. Types'
    BY DEF PartyInv, Types, issuerVars
<1>2. \A y \in Admin : admin'[y] = IF y = x THEN q ELSE admin[y]
    BY DEF PartyInv, Types
<1>3. Copies'
  <2>1. ASSUME NEW j \in Instance
        PROVE  Sound(runtime[j])' /\ (\A read \in reread[j] : Known(read.row))'
      BY <2>1 DEF PartyInv, Copies, Sound, Known, issuerVars
  <2>2. ASSUME NEW y \in Admin, admin'[y].pc = "apply" PROVE Known(admin[y])'
      BY <1>2, <2>2 DEF PartyInv, Copies, Known, issuerVars
  <2> QED BY <2>1, <2>2 DEF Copies
<1>4. (Begun /\ Kept)'
    BY DEF PartyInv, Begun, Kept, PasskeysKeepTheirParty, SomePasskeys, Configured, issuerVars
<1>5. Checked'
    BY <1>2 DEF PartyInv, Checked, SomePasskeys, issuerVars
<1> QED BY <1>1, <1>3, <1>4, <1>5 DEF PartyInv

LEMMA AskedKeeps ==
    ASSUME PartyInv, NEW x \in Admin, NEW i \in Instance, NEW v \in Issuer,
           AsksIssuer(x, i, v) \/ \E enabled \in BOOLEAN : AsksPolicy(x, i, enabled, v)
    PROVE  PartyInv'
<1> DEFINE asked == [NoAdmin EXCEPT !.pc = "asked", !.at = i, !.value = v,
                                    !.generation = issuer.generation]
           other(enabled) == [NoAdmin EXCEPT !.pc = "asked", !.kind = "policy", !.at = i,
                                             !.value = v, !.enabled = enabled]
<1>1. /\ asked \in Request /\ asked.pc = "asked"
      /\ \A enabled \in BOOLEAN : other(enabled) \in Request /\ other(enabled).pc = "asked"
    BY NoAdminIsIdle DEF Request, Name, PartyInv, Types, Row
<1>2. \/ admin' = [admin EXCEPT ![x] = asked]
      \/ \E enabled \in BOOLEAN : admin' = [admin EXCEPT ![x] = other(enabled)]
    BY DEF AsksIssuer, AsksPolicy, Gives
<1>3. UNCHANGED <<issuerVars, factorVars>> /\ watched' \in SUBSET Account
    BY DEF AsksIssuer, AsksPolicy, factorVars, PartyInv, Types
<1> HIDE DEF asked, other
<1> QED BY <1>1, <1>2, <1>3, RequestKeeps DEF factorVars

\* Under the lock the check reads the row, and no passkey is bound to anything else.
LEMMA CheckedKeeps ==
    ASSUME PartyInv, NEW x \in Admin, ChecksIssuer(x) \/ ChecksPolicy(x)
    PROVE  PartyInv'
<1> DEFINE passed == [admin[x] EXCEPT !.pc = "checked"]
<1>1. admin[x] \in Request
    BY DEF PartyInv, Types
<1>2. passed \in Request /\ passed.pc = "checked"
      /\ passed.kind = admin[x].kind /\ passed.value = admin[x].value
    BY <1>1 DEF Request
<1>3. admin' = [admin EXCEPT ![x] = passed] \/ admin' = [admin EXCEPT ![x] = NoAdmin]
    BY DEF ChecksIssuer, ChecksPolicy, Gives
<1>4. UNCHANGED <<issuerVars, setting, registration, account>> /\ watched' \in SUBSET Account
    BY DEF ChecksIssuer, ChecksPolicy, factorVars, PartyInv, Types
<1>5. ASSUME admin' = [admin EXCEPT ![x] = passed], passed.kind = "issuer",
             ~setting.stored, SomePasskeys
      PROVE  passed.value = issuer.value
  <2>1. ChecksIssuer(x)
      BY <1>2, <1>5 DEF ChecksPolicy
  <2>2. Baseline(admin[x].at) = issuer.value
      BY <1>5 DEF Baseline, PartyInv, Kept
  <2>3. admin'[x] = passed
      BY <1>5 DEF PartyInv, Types
  <2>4. admin'[x] # NoAdmin
      BY <1>2, <2>3, NoAdminIsIdle
  <2>5. admin' # [admin EXCEPT ![x] = NoAdmin]
      BY <2>4 DEF PartyInv, Types
  <2> QED BY <1>2, <1>5, <2>1, <2>2, <2>5 DEF ChecksIssuer, Gives
<1> HIDE DEF passed
<1>6. CASE admin' = [admin EXCEPT ![x] = passed]
    BY <1>2, <1>4, <1>5, <1>6, RequestKeeps
<1>7. CASE admin' = [admin EXCEPT ![x] = NoAdmin]
    BY <1>4, <1>7, NoAdminIsIdle, RequestKeeps
<1> QED BY <1>3, <1>6, <1>7

LEMMA PolicyCommitKeeps ==
    ASSUME PartyInv, NEW x \in Admin, CommitsPolicy(x)
    PROVE  PartyInv'
<1>1. UNCHANGED <<issuerVars, registration, account>> /\ watched' = {}
      /\ admin' = [admin EXCEPT ![x] = NoAdmin]
    BY DEF CommitsPolicy, Gives
<1>2. CASE UNCHANGED setting
    BY <1>1, <1>2, NoAdminIsIdle, RequestKeeps
<1>3. CASE setting' = [stored |-> TRUE, enabled |-> admin[x].enabled, party |-> admin[x].value]
  <2>1. setting' \in [stored : BOOLEAN, enabled : BOOLEAN, party : Name] /\ setting'.stored
      BY <1>3 DEF PartyInv, Types, Request
  <2>2. Types'
      BY <1>1, <2>1, NoAdminIsIdle DEF PartyInv, Types, issuerVars
  <2>3. Copies'
    <3>1. ASSUME NEW j \in Instance
          PROVE  Sound(runtime[j])' /\ (\A read \in reread[j] : Known(read.row))'
        BY <1>1, <3>1 DEF PartyInv, Copies, Sound, Known, issuerVars
    <3>2. \A y \in Admin : admin'[y] = IF y = x THEN NoAdmin ELSE admin[y]
        BY <1>1 DEF PartyInv, Types
    <3>3. ASSUME NEW y \in Admin, admin'[y].pc = "apply" PROVE Known(admin[y])'
        BY <1>1, <3>2, <3>3, NoAdminIsIdle DEF PartyInv, Copies, Known, issuerVars
    <3> QED BY <3>1, <3>3 DEF Copies
  <2> QED BY <2>1, <2>2, <2>3 DEF PartyInv, Begun, Checked, Kept, PasskeysKeepTheirParty
<1> QED BY <1>2, <1>3 DEF CommitsPolicy

LEMMA AppliedKeeps ==
    ASSUME PartyInv, NEW x \in Admin, AppliesWritten(x)
    PROVE  PartyInv'
<1> DEFINE row == [value |-> admin[x].value, generation |-> admin[x].generation]
<1>1. row \in Row /\ Known(row) /\ admin[x].at \in Instance
  <2>1. admin[x] \in Request /\ Known(admin[x])
      BY DEF AppliesWritten, PartyInv, Types, Copies
  <2> QED BY <2>1 DEF Request, Row, Known
<1>2. UNCHANGED <<issuer, reread, import, factorVars>>
      /\ admin' = [admin EXCEPT ![x] = NoAdmin]
      /\ runtime' = [runtime EXCEPT ![admin[x].at] = Decide(@, row)]
    BY DEF AppliesWritten, Gives
<1> HIDE DEF row
<1>3. \E state \in State : Sound(state) /\ runtime' = [runtime EXCEPT ![admin[x].at] = state]
  <2>1. runtime[admin[x].at] \in State /\ Sound(runtime[admin[x].at])
      BY <1>1 DEF PartyInv, Types, Copies
  <2> QED BY <1>1, <1>2, <2>1, DecisionIsSound DEF PartyInv
<1>4. Types'
    BY <1>2, <1>3, NoAdminIsIdle DEF PartyInv, Types, factorVars
<1>5. \A y \in Admin : admin'[y] = admin[y] \/ admin'[y] = NoAdmin
    BY <1>2 DEF PartyInv, Types
<1>6. Copies'
  <2>1. ASSUME NEW j \in Instance PROVE Sound(runtime[j])'
      BY <1>2, <1>3, <2>1 DEF PartyInv, Types, Copies, Sound, Known
  <2>2. ASSUME NEW j \in Instance, NEW read \in reread'[j] PROVE Known(read.row)'
      BY <1>2, <2>2 DEF PartyInv, Copies, Known
  <2>3. ASSUME NEW y \in Admin, admin'[y].pc = "apply" PROVE Known(admin[y])'
      BY <1>2, <1>5, <2>3, NoAdminIsIdle DEF PartyInv, Copies, Known
  <2> QED BY <2>1, <2>2, <2>3 DEF Copies
<1>7. (Begun /\ Checked /\ Kept)'
    BY <1>2, <1>5, RegistrationsStay
<1> QED BY <1>4, <1>6, <1>7 DEF PartyInv

\* Another value means another generation, and no passkeys.
LEMMA IssuerCommitKeeps ==
    ASSUME PartyInv, NEW x \in Admin, CommitsIssuer(x)
    PROVE  PartyInv'
<1> DEFINE next == issuer.generation + IF issuer.value = admin[x].value THEN 0 ELSE 1
           write == /\ issuer' = [value |-> admin[x].value, generation |-> next]
                    /\ admin' = [admin EXCEPT ![x].pc = "apply", ![x].generation = next]
<1>1. UNCHANGED <<runtime, reread, import, factorVars>>
      /\ admin[x].pc = "checked" /\ admin[x].kind = "issuer"
    BY DEF CommitsIssuer
<1>2. admin[x] \in Request /\ issuer \in Row
    BY DEF PartyInv, Types
<1>3. CASE Gives(x, NoAdmin) /\ UNCHANGED issuer
    BY <1>1, <1>3, NoAdminIsIdle, RequestKeeps DEF Gives, issuerVars, factorVars, PartyInv, Types
<1>4. CASE write
  <2> DEFINE q == [admin[x] EXCEPT !.pc = "apply", !.generation = next]
  <2>1. next \in Nat /\ next >= issuer.generation
        /\ (next = issuer.generation => admin[x].value = issuer.value)
      BY <1>2 DEF Row
  <2>2. issuer' \in Row /\ issuer'.generation = next /\ issuer'.value = admin[x].value
      BY <1>2, <1>4, <2>1 DEF Row, Request
  <2> HIDE DEF next
  <2>3. q \in Request /\ q.pc = "apply" /\ q.generation = next /\ q.value = admin[x].value
      BY <1>2, <2>1 DEF Request
  <2>4. admin' = [admin EXCEPT ![x] = q]
      BY <1>4
  <2> HIDE DEF q, write
  <2>5. \A y \in Admin : admin'[y] = IF y = x THEN q ELSE admin[y]
      BY <2>4 DEF PartyInv, Types
  <2>6. Types'
      BY <1>1, <2>2, <2>3, <2>4 DEF PartyInv, Types, factorVars
  <2>7. Copies'
    <3>1. ASSUME NEW j \in Instance PROVE Sound(runtime[j])'
      <4>1. runtime[j] \in State /\ Sound(runtime[j]) /\ runtime'[j] = runtime[j]
          BY <1>1, <3>1 DEF PartyInv, Types, Copies
      <4> QED BY <1>2, <2>1, <2>2, <4>1 DEF Sound, Known, State, Row
    <3>2. ASSUME NEW j \in Instance, NEW read \in reread'[j] PROVE Known(read.row)'
      <4>1. read.row \in Row /\ Known(read.row)
          BY <1>1, <3>2 DEF PartyInv, Types, Copies
      <4> QED BY <1>2, <2>1, <2>2, <4>1 DEF Known, Row
    <3>3. ASSUME NEW y \in Admin, admin'[y].pc = "apply" PROVE Known(admin[y])'
      <4>1. CASE y = x
          BY <2>1, <2>2, <2>3, <2>5, <4>1 DEF Known
      <4>2. CASE y # x
        <5>1. admin[y] \in Request /\ Known(admin[y]) /\ admin'[y] = admin[y]
            BY <2>5, <3>3, <4>2 DEF PartyInv, Types, Copies
        <5> QED BY <1>2, <2>1, <2>2, <5>1 DEF Known, Request, Row
      <4> QED BY <4>1, <4>2
    <3> QED BY <3>1, <3>2, <3>3 DEF Copies
  <2>8. Begun'
    <3>1. ASSUME NEW r \in Registration PROVE BegunOne(r)'
      <4>1. registration[r] \in Challenge /\ BegunOne(r)
          BY <3>1, BegunIsOfEach DEF PartyInv, Types
      <4>2. UNCHANGED <<registration, setting>>
          BY <1>1 DEF factorVars
      <4> QED BY <1>2, <2>1, <2>2, <4>1, <4>2 DEF BegunOne, Challenge, Row
    <3>2. Begun' <=> \A r \in Registration : BegunOne(r)'
        BY DEF Begun, BegunOne
    <3> QED BY <3>1, <3>2
  <2>9. ~setting.stored /\ SomePasskeys => issuer'.value = issuer.value
      BY <1>1, <2>2 DEF PartyInv, Checked
  <2>10. Checked'
      BY <1>1, <2>3, <2>5, <2>9 DEF PartyInv, Checked, SomePasskeys, factorVars
  <2>11. Kept'
    <3>1. UNCHANGED <<setting, account>>
        BY <1>1 DEF factorVars
    <3>2. PasskeysKeepTheirParty'
        BY <2>9, <3>1 DEF PartyInv, Kept, PasskeysKeepTheirParty, SomePasskeys
    <3> QED BY <1>2, <2>1, <2>2, <2>9, <3>1, <3>2 DEF PartyInv, Kept, SomePasskeys, Configured, Row
  <2> QED BY <2>6, <2>7, <2>8, <2>10, <2>11 DEF PartyInv
<1> QED BY <1>3, <1>4 DEF CommitsIssuer

---------------------------------------------------------------------------
\* No step lets a copy of the row, a registration or a write under the lock fall behind
\* without an older generation to show for it.
THEOREM NextParty == PartyInv /\ [PasskeyNext]_passkeyVars => PartyInv'
<1> SUFFICES ASSUME PartyInv, [PasskeyNext]_passkeyVars PROVE PartyInv'
    OBVIOUS
<1>1. CASE ImportNext
    BY <1>1, ImportKeeps, InsertionKeeps DEF ImportNext
<1>2. CASE InstanceNext
    BY <1>2, StartKeeps, StopKeeps, RereadKeeps, AppliedRereadKeeps DEF InstanceNext
<1>3. CASE AdminNext
  <2> PICK x \in Admin :
          \/ ChecksIssuer(x) \/ CommitsIssuer(x) \/ AppliesWritten(x)
          \/ ChecksPolicy(x) \/ CommitsPolicy(x)
          \/ \E i \in Instance, v \in Issuer :
                 AsksIssuer(x, i, v) \/ \E enabled \in BOOLEAN : AsksPolicy(x, i, enabled, v)
      BY <1>3, FitAssumption DEF AdminNext
  <2>1. CASE \E i \in Instance, v \in Issuer :
                 AsksIssuer(x, i, v) \/ \E enabled \in BOOLEAN : AsksPolicy(x, i, enabled, v)
      BY <2>1, AskedKeeps
  <2>2. CASE ChecksIssuer(x) \/ ChecksPolicy(x)
      BY <2>2, CheckedKeeps
  <2> QED BY <2>1, <2>2, IssuerCommitKeeps, AppliedKeeps, PolicyCommitKeeps
<1>4. CASE FactorNext
  <2>1. CASE \E a \in Account :
                 AddsTotp(a) \/ RemovesTotp(a) \/ RemovesPasskeys(a) \/ Disables(a) \/ Enables(a)
      BY <2>1, AccountKeeps
  <2>2. ASSUME NEW r \in Registration, NEW i \in Instance,
               InsertsPasskey(r) \/ ForgetsRegistration(r) \/ FinishesRegistration(r, i)
        PROVE  PartyInv'
      BY <2>2, StoredKeeps, FinishedKeeps
  <2>3. ASSUME NEW r \in Registration, NEW i \in Instance, NEW a \in Account,
               NEW first \in BOOLEAN, StartsRegistration(r, a, i, first)
        PROVE  PartyInv'
      BY <2>3, StartedKeeps
  <2> QED BY <1>4, <2>1, <2>2, <2>3, SomeAssumption DEF FactorNext
<1>5. CASE UNCHANGED passkeyVars
    BY <1>5 DEF passkeyVars, issuerVars, factorVars, PartyInv, Types, Copies, Sound, Known,
                Begun, Checked, Kept, PasskeysKeepTheirParty, SomePasskeys, Configured
<1> QED BY <1>1, <1>2, <1>3, <1>4, <1>5 DEF PasskeyNext

\* Whatever instances, administrators and registrations there are: as long as the
\* relying party is derived from the issuer, passkeys belong to the stored one.
THEOREM PartiesAreKept == PasskeySpec => []PasskeysKeepTheirParty
<1>1. PasskeyInit => PartyInv
    BY InitParty
<1>2. PartyInv /\ [PasskeyNext]_passkeyVars => PartyInv'
    BY NextParty
<1>3. PartyInv => PasskeysKeepTheirParty
    BY DEF PartyInv, Kept
<1> QED BY <1>1, <1>2, <1>3, PTL DEF PasskeySpec

---------------------------------------------------------------------------
(* Passkeys that are turned off. *)

\* Nobody has asked for anything yet.
THEOREM InitWatch == PasskeyInit => Watch
    BY DEF PasskeyInit, Watch, NoAdmin

\* Under the lock nobody loses what the administrator has found.
LEMMA NobodyLoses ==
    ASSUME Types, Watch, FactorNext
    PROVE  Watch'
<1>1. UNCHANGED admin
    BY DEF FactorNext, AddsTotp, RemovesTotp, RemovesPasskeys, Disables, Enables,
           InsertsPasskey, ForgetsRegistration, FinishesRegistration, StartsRegistration
<1>2. CASE PolicyFree
    BY <1>1, <1>2 DEF Watch, PolicyFree
<1>3. CASE ~PolicyFree
  <2>1. watched' \subseteq watched
      BY <1>3 DEF FactorNext, AddsTotp, RemovesTotp, RemovesPasskeys, Disables, Enables,
                  InsertsPasskey, ForgetsRegistration, FinishesRegistration, StartsRegistration
  <2>2. \A a \in Account : PasskeyOnly(a)' => PasskeyOnly(a)
    <3>1. \/ UNCHANGED account
          \/ \E b \in Account : AddsTotp(b) \/ Disables(b) \/ Enables(b)
        BY <1>3 DEF FactorNext, RemovesTotp, RemovesPasskeys, InsertsPasskey,
                    ForgetsRegistration, FinishesRegistration, StartsRegistration
    <3>2. CASE UNCHANGED account
        BY <3>2 DEF PasskeyOnly
    <3>3. ASSUME NEW b \in Account, AddsTotp(b) \/ Disables(b) \/ Enables(b)
          PROVE  \A a \in Account : PasskeyOnly(a)' => PasskeyOnly(a)
        BY <3>3 DEF AddsTotp, Disables, Enables, PasskeyOnly, Types
    <3> QED BY <3>1, <3>2, <3>3
  <2> QED BY <1>1, <2>1, <2>2 DEF Watch, Types
<1> QED BY <1>2, <1>3

\* The check finds nobody who would be stranded, and only one administrator has passed.
LEMMA AdminWatches ==
    ASSUME Types, Watch, AdminNext
    PROVE  Watch'
<1>1. UNCHANGED account
    BY DEF AdminNext, ChecksIssuer, CommitsIssuer, AppliesWritten, ChecksPolicy, CommitsPolicy,
           AsksIssuer, AsksPolicy, factorVars
<1>2. ASSUME NEW x \in Admin, ChecksPolicy(x), admin'[x].pc = "checked" PROVE Watch'
  <2>1. admin[x] \in Request /\ NoAdmin.pc = "idle"
      BY NoAdminIsIdle DEF Types
  <2>2. admin' = [admin EXCEPT ![x].pc = "checked"]
        /\ watched' = {a \in Account : account[a].active}
        /\ (admin[x].enabled \/ \A a \in Account : account[a].active => ~PasskeyOnly(a))
      BY <1>2, <2>1 DEF ChecksPolicy, Gives, Types
  <2>3. \A y \in Admin : y # x => admin'[y].pc # "checked"
      BY <1>2, <2>2 DEF ChecksPolicy, PolicyFree, Types
  <2>4. admin'[x].enabled = admin[x].enabled
      BY <2>2 DEF Types
  <2> QED BY <1>1, <2>2, <2>3, <2>4 DEF Watch, PasskeyOnly
<1>3. ASSUME NEW x \in Admin, watched' \subseteq watched,
             \A y \in Admin : admin'[y].pc = "checked" /\ admin'[y].kind = "policy" =>
                 admin'[y] = admin[y]
      PROVE  Watch'
    BY <1>1, <1>3 DEF Watch, PasskeyOnly
<1> QED
  <2> PICK x \in Admin :
          \/ ChecksIssuer(x) \/ CommitsIssuer(x) \/ AppliesWritten(x)
          \/ ChecksPolicy(x) \/ CommitsPolicy(x)
          \/ \E i \in Instance, v \in Issuer :
                 AsksIssuer(x, i, v) \/ \E enabled \in BOOLEAN : AsksPolicy(x, i, enabled, v)
      BY FitAssumption DEF AdminNext
  <2>1. admin[x] \in Request /\ admin \in [Admin -> Request] /\ NoAdmin.pc = "idle"
      BY NoAdminIsIdle DEF Types
  <2>2. CASE ChecksPolicy(x) /\ admin'[x].pc = "checked"
      BY <1>2, <2>2
  <2>3. CASE ChecksPolicy(x) /\ admin'[x].pc # "checked"
    <3>1. [admin EXCEPT ![x].pc = "checked"][x].pc = "checked"
        BY <2>1 DEF Request
    <3>2. admin' = [admin EXCEPT ![x] = NoAdmin] /\ UNCHANGED watched
        BY <2>3, <3>1 DEF ChecksPolicy, Gives
    <3> QED BY <1>3, <2>1, <3>2
  <2>4. CASE ChecksIssuer(x) \/ CommitsIssuer(x)
      BY <1>3, <2>1, <2>4 DEF ChecksIssuer, CommitsIssuer, Gives, factorVars, Request
  <2>5. CASE AppliesWritten(x) \/ CommitsPolicy(x)
      BY <1>3, <2>1, <2>5 DEF AppliesWritten, CommitsPolicy, Gives, factorVars
  <2>6. ASSUME NEW i \in Instance, NEW v \in Issuer,
               AsksIssuer(x, i, v) \/ \E enabled \in BOOLEAN : AsksPolicy(x, i, enabled, v)
        PROVE  Watch'
    <3>1. \A y \in Admin : y # x => admin'[y] = admin[y]
        BY <2>1, <2>6 DEF AsksIssuer, AsksPolicy, Gives
    <3>2. admin'[x].pc = "asked"
      <4> DEFINE asked == [NoAdmin EXCEPT !.pc = "asked", !.at = i, !.value = v,
                                          !.generation = issuer.generation]
                 other(enabled) == [NoAdmin EXCEPT !.pc = "asked", !.kind = "policy", !.at = i,
                                                   !.value = v, !.enabled = enabled]
      <4>1. asked.pc = "asked" /\ \A enabled \in BOOLEAN : other(enabled).pc = "asked"
          BY NoAdminIsIdle DEF Request
      <4>2. \/ admin' = [admin EXCEPT ![x] = asked]
            \/ \E enabled \in BOOLEAN : admin' = [admin EXCEPT ![x] = other(enabled)]
          BY <2>6 DEF AsksIssuer, AsksPolicy, Gives
      <4> HIDE DEF asked, other
      <4> QED BY <2>1, <4>1, <4>2
    <3> QED BY <1>3, <2>6, <3>1, <3>2 DEF AsksIssuer, AsksPolicy, factorVars
  <2> QED BY <2>2, <2>3, <2>4, <2>5, <2>6

LEMMA NextWatch == Types /\ Watch /\ [PasskeyNext]_passkeyVars => Watch'
<1> SUFFICES ASSUME Types, Watch, [PasskeyNext]_passkeyVars PROVE Watch'
    OBVIOUS
<1>1. CASE ImportNext
    BY <1>1 DEF ImportNext, ImportReads, ImportSelects, ImportInserts, factorVars, Watch, PasskeyOnly
<1>2. CASE InstanceNext
  <2>1. UNCHANGED factorVars /\ \A x \in Admin : admin'[x] = admin[x] \/ admin'[x] = NoAdmin
      BY <1>2 DEF InstanceNext, Starts, Stops, Rereads, AppliesReread
  <2> QED BY <2>1, NoAdminIsIdle DEF Watch, PasskeyOnly, factorVars
<1>3. CASE UNCHANGED passkeyVars
    BY <1>3 DEF passkeyVars, factorVars, Watch, PasskeyOnly
<1> QED BY <1>1, <1>2, <1>3, AdminWatches, NobodyLoses DEF PasskeyNext

\* Only a commit turns passkeys off, and it leaves the accounts as they were checked.
LEMMA TurnedOff ==
    ASSUME Types, Watch, [PasskeyNext]_passkeyVars, setting.enabled, ~setting'.enabled
    PROVE  \A a \in watched : ~PasskeyOnly(a)'
<1>1. PICK x \in Admin : CommitsPolicy(x)
  <2>1. setting' # setting
      OBVIOUS
  <2>2. AdminNext
      BY <2>1 DEF PasskeyNext, passkeyVars, factorVars, ImportNext, ImportReads, ImportSelects,
                  ImportInserts, InstanceNext, Starts, Stops, Rereads, AppliesReread, FactorNext,
                  AddsTotp, RemovesTotp, RemovesPasskeys, Disables, Enables, InsertsPasskey,
                  ForgetsRegistration, FinishesRegistration, StartsRegistration
  <2> QED BY <2>1, <2>2 DEF AdminNext, ChecksIssuer, CommitsIssuer, AppliesWritten,
                            ChecksPolicy, AsksIssuer, AsksPolicy, factorVars
<1>2. admin[x].pc = "checked" /\ admin[x].kind = "policy" /\ ~admin[x].enabled
      /\ UNCHANGED account
    BY <1>1 DEF CommitsPolicy
<1> QED BY <1>2 DEF Watch, PasskeyOnly

\* Whatever happens between the check and the commit: passkeys are not turned off while
\* an account that was active all the time has nothing else.
THEOREM NobodyIsEverStranded == PasskeySpec => NobodyIsStranded
<1>1. PasskeyInit => PartyInv /\ Watch
    BY InitParty, InitWatch
<1>2. PartyInv /\ Watch /\ [PasskeyNext]_passkeyVars => (PartyInv /\ Watch)'
    BY NextParty, NextWatch DEF PartyInv
<1>3. PartyInv /\ Watch /\ [PasskeyNext]_passkeyVars =>
          [setting.enabled /\ ~setting'.enabled => \A a \in watched : ~PasskeyOnly(a)']_passkeyVars
    BY TurnedOff DEF PartyInv
<1> QED BY <1>1, <1>2, <1>3, PTL DEF PasskeySpec, NobodyIsStranded
=============================================================================
