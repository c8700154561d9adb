----------------------------- MODULE KeysProofs -----------------------------
(***************************************************************************)
(* For any instances, any skew of their clocks within the allowance and    *)
(* any crashes and failed writes: the directory of signing keys can always *)
(* be loaded, and no key goes while tokens live that it signed.  KInv is   *)
(* the inductive invariant.  Coherent says what a directory may look like  *)
(* at any moment, and Course what the operation that holds the lock has    *)
(* still to write; both speak of one directory and one operation, so that  *)
(* the lemmas about the phases of a load need no variables.  The rest is   *)
(* about clocks: what the snapshots of the instances, their tokens and the *)
(* retirement records can say about each other.                            *)
(***************************************************************************)
EXTENDS Keys, FiniteSetTheorems, WellFoundedInduction, TLAPS

Publication == [key : Key, previous : Key, at : Time]
Intent == [revoked : Key, next : Key]

Directory ==
    [keys : SUBSET Key, retired : [Key -> Time \cup {None}], active : Key \cup {None},
     published : Publication \cup {None}, revocation : Intent \cup {None}]

Manager ==
    [up : BOOLEAN, healthy : BOOLEAN, keys : SUBSET Key, active : Key \cup {None}, tried : Nat]

File ==
    [file : {"key"}, key : Key, to : BOOLEAN]
    \cup [file : {"active"}, key : Key, to : Key]
    \cup [file : {"retired"}, key : Key, to : Time \cup {None}]
    \cup [file : {"published"}, key : {None}, to : Publication \cup {None}]
    \cup [file : {"revocation"}, key : {None}, to : Intent \cup {None}]
    \cup [file : {"generation"}, key : {None}, to : {None}]

Operation ==
    [op : {"start", "sync", "rotate", "revoke"}, owner : Instance, now : 0..(MaxTime + Allowance),
     stage : {"load", "publish", "rollback", "commit", "converge"},
     phase : 1..(LastPhase + 1), todo : Seq(File), key : Key \cup {None}, next : Key \cup {None}]

-----------------------------------------------------------------------------
Serving(d) == Waiting(d) \cup {d.active}

\* A journaled revocation can be finished.
Journaled(d, gone) ==
    IF d.revocation = None THEN d.keys \cap gone = {}
    ELSE LET r == d.revocation IN
        /\ r.next # r.revoked /\ r.next \in d.keys \ gone
        /\ d.keys \cap gone \subseteq {r.revoked} /\ r.revoked \in gone
        /\ d.active \in {r.revoked, r.next}
        /\ d.active = r.revoked => d.published = None
        /\ r.next \notin Waiting(d)

Coherent(d, n, gone) ==
    /\ d.keys \cup gone \subseteq 1..n
    /\ \A k \in Key : d.retired[k] # None => k \in 1..n
    /\ IF d.active = None
       THEN d.published = None /\ d.revocation = None /\ \A k \in Key : d.retired[k] = None
       ELSE d.active \in d.keys
    /\ Journaled(d, gone)
    /\ d.published # None =>
        /\ d.published.key \in 1..(n + 1) \ gone
        /\ d.retired[d.published.key] = None /\ d.retired[d.active] = None

Activated(d, now) ==
    d.published = None \/ (d.published.key \in d.keys /\ ~Due(d.published, now))

Recorded(d) ==
    /\ d.retired[d.active] = None
    /\ \A k \in d.keys \ Serving(d) : d.retired[k] # None

Finishing(todo, d) ==
    \/ todo = <<>> /\ d.revocation = None
    \/ /\ d.revocation # None
       /\ LET r == d.revocation IN
          \/ /\ d.active = r.revoked
             /\ todo = <<Point(r.next), Unstamp(r.next),
                         Erase(r.revoked), Unstamp(r.revoked), Journal(None)>>
          \/ /\ d.active = r.next
             /\ \/ todo = <<Unstamp(r.next),
                            Erase(r.revoked), Unstamp(r.revoked), Journal(None)>>
                \/ todo = <<Erase(r.revoked), Unstamp(r.revoked), Journal(None)>>
                \/ /\ r.revoked \notin d.keys
                   /\ \/ todo = <<Unstamp(r.revoked), Journal(None)>>
                      \/ todo = <<Journal(None)>>

Activating(todo, d, now) ==
    \/ todo = <<>> /\ Activated(d, now)
    \/ /\ d.published # None
       /\ LET p == d.published IN
          \/ todo = <<Publish(None)>> /\ (p.key \notin d.keys \/ p.key = d.active)
          \/ todo = <<Point(p.key), Publish(None)>> /\ p.key \in d.keys /\ Due(p, now)

Pointing(t, d, n) ==
    \/ t.todo = <<>> /\ d.active # None
    \/ /\ d.active = None
       /\ \/ \E k \in d.keys : t.todo = <<Point(k)>>
          \/ t.op = "start" /\ t.key = n + 1 /\ t.todo = <<Put(t.key), Point(t.key)>>

Recording(todo, d, now) ==
    /\ \A m \in 1..Len(todo) : \E k \in Key :
        \/ todo[m] = Unstamp(k) /\ (k \in Serving(d) \/ k \notin d.keys)
        \/ todo[m] = Stamp(k, now) /\ k \in d.keys \ Serving(d)
    /\ d.retired[d.active] # None => \E m \in 1..Len(todo) : todo[m] = Unstamp(d.active)
    /\ \A k \in d.keys \ Serving(d) :
        d.retired[k] = None => \E m \in 1..Len(todo) : todo[m] = Stamp(k, now)

Pruning(todo, d, now) ==
    \A m \in 1..Len(todo) : \E k \in Key :
        \/ /\ todo[m] = Erase(k) /\ (k \in Expired(d, now) \/ k \notin d.keys)
           /\ m < Len(todo) /\ todo[m + 1] = Unstamp(k)
        \/ todo[m] = Unstamp(k) /\ (k \notin d.keys \/ (m > 1 /\ todo[m - 1] = Erase(k)))

Loading(t, d, n) ==
    /\ t.phase = 1 => t.todo = <<>>
    /\ t.phase = 2 => Finishing(t.todo, d)
    /\ t.phase >= 3 => d.revocation = None
    /\ t.phase = 3 => Activating(t.todo, d, t.now)
    /\ t.phase >= 4 => Activated(d, t.now)
    /\ t.phase = 4 => Pointing(t, d, n)
    /\ t.phase >= 5 => d.active # None
    /\ t.phase = 5 => Recording(t.todo, d, t.now)
    /\ t.phase = 6 => Recorded(d) /\ Pruning(t.todo, d, t.now)
    /\ t.op = "rotate" \/ (t.op = "start" /\ t.phase <= 3) => t.key = n + 1

Planned(t, d) == [key |-> t.key, previous |-> d.active, at |-> t.now + Delay + Allowance]

Publishing(t, d, n) ==
    /\ d.revocation = None /\ d.active # None /\ d.retired[d.active] = None
    /\ \/ /\ t.todo = <<Publish(Planned(t, d)), Put(t.key)>>
          /\ d.published = None /\ t.key = n + 1
       \/ t.todo = <<Put(t.key)>> /\ d.published = Planned(t, d) /\ t.key = n + 1
       \/ t.todo = <<>> /\ d.published = Planned(t, d) /\ t.key \in d.keys

RollingBack(t, d) ==
    /\ d.revocation = None /\ d.active # None
    /\ d.published # None => d.published.key = t.key
    /\ \/ t.todo = <<Erase(t.key), Unstamp(t.key), Publish(None)>>
       \/ t.todo = <<Unstamp(t.key), Publish(None)>>
       \/ t.todo = <<Publish(None)>>
       \/ t.todo = <<>>

Choice(t) == [revoked |-> t.key, next |-> t.next]

Committing(t, d) ==
    /\ {t.key, t.next} \subseteq d.keys /\ t.key # t.next
    /\ d.active \in {t.key, t.next}
    /\ Activated(d, t.now)
    /\ \/ t.todo = <<Publish(None), Journal(Choice(t)), Bump>> /\ d.revocation = None
       \/ /\ t.todo = <<Journal(Choice(t)), Bump>> /\ d.revocation = None
          /\ Waiting(d) \cap {t.key, t.next} = {} /\ (d.active = t.key => d.published = None)
       \/ t.todo \in {<<Bump>>, <<>>} /\ d.revocation = Choice(t)

Converging(t, d, gone) ==
    /\ t.next \in d.keys /\ t.next # t.key /\ t.key \in gone
    /\ Activated(d, t.now)
    /\ IF d.revocation = None THEN d.active = t.next ELSE d.revocation = Choice(t)

Course(t, d, n, gone) ==
    /\ t.op # "sync" => t.key \in Key
    /\ t.op # "start" => d.active # None
    /\ t.stage \in {"load", "converge"} => Loading(t, d, n)
    /\ t.stage \in {"publish", "rollback"} => t.op = "rotate" /\ t.key # d.active
    /\ t.stage = "publish" => Publishing(t, d, n) /\ t.key \notin gone
    /\ t.stage = "rollback" => RollingBack(t, d)
    /\ t.stage \in {"commit", "converge"} => t.op = "revoke" /\ t.next \in Key
    /\ t.stage = "commit" => Committing(t, d)
    /\ t.stage = "converge" => Converging(t, d, gone)

Steady(t) == t.stage \in {"load", "converge"} /\ t.todo = <<>> => t.phase = LastPhase + 1

-----------------------------------------------------------------------------
Healthy(m) == {i \in Instance : m[i].healthy}

Running(d, m, c, n, gone) ==
    \A i \in Instance :
        /\ m[i].up =>
            /\ d.active # None
            /\ m[i].active \in m[i].keys /\ m[i].active <= n
            /\ m[i].tried <= c /\ c <= m[i].tried + Lag
        /\ m[i].healthy => m[i].up /\ m[i].active \in d.keys \cup gone

Tokens(d, c, lv, gone) ==
    \A k \in Key : lv[k] # None =>
        /\ c < lv[k] /\ lv[k] <= c + TokenTTL
        /\ k \in d.keys \cup gone

Returns(d, k) == d.active = k \/ (d.revocation # None /\ d.revocation.next = k)

Aged(d, m, lv, gone) ==
    \A k \in Key \ gone : d.retired[k] # None /\ ~Returns(d, k) =>
        /\ lv[k] # None => lv[k] <= d.retired[k] + Lag + TokenTTL
        /\ \A i \in Healthy(m) : m[i].active = k => m[i].tried <= d.retired[k]

\* What holds of the directory, the snapshots and the tokens at any moment.
Sound(d, m, c, n, gone, lv) ==
    /\ d \in Directory /\ m \in [Instance -> Manager]
    /\ c \in 0..MaxTime /\ n \in 0..MaxKey /\ gone \in SUBSET Key
    /\ lv \in [Key -> Nat \cup {None}]
    /\ Coherent(d, n, gone)
    /\ Running(d, m, c, n, gone)
    /\ Tokens(d, c, lv, gone)
    /\ Aged(d, m, lv, gone)

\* What holds as well while no revocation was requested.
Shared(d, m, lv, gone) ==
    /\ gone = {}
    /\ \A i \in Healthy(m) :
        /\ d.active \in m[i].keys
        /\ \A k \in Key : lv[k] # None => k \in m[i].keys
        /\ \A j \in Healthy(m) : m[j].active \in m[i].keys
        /\ d.published # None =>
            \/ d.published.key \in m[i].keys
            \/ m[i].tried + Delay + Allowance <= d.published.at

\* What the clocks say of an operation under way: it began at this true time.
Begun(t) == t.now - Skew[t.owner]

Since(t, m, c, lv) ==
    /\ t.op # "start" => m[t.owner].up
    /\ 0 <= Begun(t) /\ Begun(t) <= c
    /\ \A i \in Healthy(m) : m[i].tried <= Begun(t)
    /\ \A k \in Key : lv[k] # None => lv[k] <= Begun(t) + Lag + TokenTTL
    /\ t.stage \in {"publish", "rollback"} =>
        lv[t.key] = None /\ \A i \in Healthy(m) : m[i].active # t.key

KInv ==
    /\ Sound(dir, mem, clock, minted, revoked, live)
    /\ used \in [revocations : Nat, faults : Nat]
    /\ used.revocations = 0 => Shared(dir, mem, live, revoked) /\ task.op # "revoke"
    /\ \/ task = NoTask
       \/ /\ task \in Operation /\ Steady(task)
          /\ Course(task, dir, minted, revoked)
          /\ Since(task, mem, clock, live)

-----------------------------------------------------------------------------
(* What the operators return. *)

LEMMA Constants ==
    /\ MaxKey \in Nat /\ MaxTime \in Nat /\ Allowance \in Nat /\ Retention \in Nat
    /\ Delay \in Nat /\ TokenTTL \in Nat /\ Lag \in Nat
    /\ Delay > Lag /\ TokenTTL > 0 /\ Retention >= TokenTTL + Lag
    /\ Skew \in [Instance -> 0..Allowance]
    /\ None \notin Nat /\ None \notin Instance
BY KeysAssumption

LEMMA NoneApart ==
    /\ None \notin Key /\ None \notin Time /\ Key \subseteq Nat /\ Time \subseteq Nat
    /\ None \notin Publication /\ None \notin Intent
<1>1. Key \subseteq Nat /\ Time \subseteq Nat
  BY KeysAssumption DEF Key, Time
<1>2. Publication \subseteq [key : Nat, previous : Nat, at : Nat]
  BY <1>1 DEF Publication
<1>3. Intent \subseteq [revoked : Nat, next : Nat]
  BY <1>1 DEF Intent
<1> QED
  BY <1>1, <1>2, <1>3, KeysAssumption

\* A set in some order: a sequence of its elements.
LEMMA InOrder ==
    ASSUME NEW S, IsFiniteSet(S)
    PROVE  /\ SetToSeq(S) \in Seq(S)
           /\ \A x \in S : \E m \in 1..Len(SetToSeq(S)) : SetToSeq(S)[m] = x
           /\ SetToSeq(S) = <<>> <=> S = {}
<1> DEFINE n == Cardinality(S)
           f == SetToSeq(S)
<1>1. n \in Nat /\ \E g : ExistsBijection(1..n, S)
  BY FS_CardinalityType
<1>2. PICK g \in Bijection(1..n, S) : TRUE
  BY <1>1 DEF ExistsBijection
<1>3. g \in [1..n -> S] /\ IsInjective(g)
  BY <1>2 DEF Bijection, Injection
<1>4. f \in [1..n -> S] /\ IsInjective(f)
  BY <1>3 DEF SetToSeq
<1> HIDE DEF f
<1>5. f \in Injection(1..n, S)
  BY <1>4 DEF Injection
<1>6. IsFiniteSet(1..n) /\ Cardinality(1..n) = n
  BY <1>1, FS_Interval
<1>7. f \in Surjection(1..n, S)
  BY <1>5, <1>6, FS_Injection
<1>8. f \in Seq(S) /\ Len(f) = n
  BY <1>1, <1>4
<1>9. \A x \in S : \E m \in 1..n : f[m] = x
  BY <1>7 DEF Surjection
<1>10. f = <<>> <=> S = {}
  <2>1. n = 0 <=> S = {}
    BY FS_EmptySet
  <2> QED
    BY <2>1, <1>8
<1> QED
  BY <1>8, <1>9, <1>10 DEF f

\* A property of numbers that fails somewhere fails somewhere first.
LEMMA FirstFailure ==
    ASSUME NEW S \in SUBSET Nat, S # {}
    PROVE  \E m \in S : \A j \in S : m <= j
<1> DEFINE T == {0..u : u \in S}
<1>1. T \subseteq FiniteSubsetsOf(Nat)
  <2> SUFFICES ASSUME NEW u \in S PROVE 0..u \in FiniteSubsetsOf(Nat)
    OBVIOUS
  <2> QED
    BY FS_Interval DEF FiniteSubsetsOf
<1>2. PICK x \in T : \A y \in T : ~ (<<y, x>> \in StrictSubsetOrdering(Nat))
  <2>1. T # {}
    OBVIOUS
  <2> HIDE DEF T
  <2> QED
    BY <1>1, <2>1, FS_StrictSubsetOrderingWellFounded, WFMin
<1>3. PICK u \in S : x = 0..u
  OBVIOUS
<1>4. ASSUME NEW v \in S, v < u PROVE FALSE
  <2>1. 0..v \subseteq 0..u /\ 0..v # 0..u /\ 0..u \subseteq Nat
    BY <1>4, u \in 0..u, u \notin 0..v
  <2>2. <<0..v, 0..u>> \in StrictSubsetOrdering(Nat)
    BY <2>1 DEF StrictSubsetOrdering
  <2> QED
    BY <1>2, <1>3, <2>2
<1> QED
  BY <1>4

\* A row of writes goes through one directory after the other.
LEMMA AppliedInSteps ==
    ASSUME NEW d, NEW writes, Len(writes) \in Nat
    PROVE  \E e : /\ e[0] = d /\ e[Len(writes)] = Applied(d, writes)
                  /\ \A m \in 1..Len(writes) : e[m] = Written(e[m - 1], writes[m])
<1> DEFINE After(e, n) ==
        e = [m \in 0..n |-> IF m = 0 THEN d ELSE Written(e[m - 1], writes[m])]
    Bad == {n \in 0..Len(writes) : ~ \E e : After(e, n)}
<1>1. Bad = {}
  <2> SUFFICES ASSUME Bad # {} PROVE FALSE
    OBVIOUS
  <2>1. PICK n \in Bad : \A j \in Bad : n <= j
    <3>1. Bad \in SUBSET Nat
      OBVIOUS
    <3> HIDE DEF Bad
    <3> QED
      BY <3>1, FirstFailure
  <2>2. CASE n = 0
    <3>1. After([m \in 0..0 |-> d], 0)
      OBVIOUS
    <3> QED
      BY <3>1, <2>1, <2>2
  <2>3. CASE n # 0
    <3>1. PICK e : After(e, n - 1)
      BY <2>1, <2>3
    <3> DEFINE g == [m \in 0..n |-> IF m = n THEN Written(e[n - 1], writes[n]) ELSE e[m]]
    <3>2. ASSUME NEW m \in 0..n
          PROVE  g[m] = IF m = 0 THEN d ELSE Written(g[m - 1], writes[m])
      BY <3>1, <2>1, <2>3
    <3>3. After(g, n)
      BY <3>2
    <3> QED
      BY <3>3, <2>1
  <2> QED
    BY <2>2, <2>3
<1> DEFINE f == CHOOSE e : After(e, Len(writes))
<1>2. After(f, Len(writes))
  <2>1. \E e : After(e, Len(writes))
    BY <1>1
  <2> HIDE DEF After
  <2> QED
    BY <2>1
<1>3. f[Len(writes)] = Applied(d, writes)
  BY DEF Applied
<1>4. ASSUME NEW m \in 0..Len(writes)
      PROVE  f[m] = IF m = 0 THEN d ELSE Written(f[m - 1], writes[m])
  <2> HIDE DEF f
  <2> QED
    BY <1>2
<1> HIDE DEF f
<1>5. f[0] = d /\ \A m \in 1..Len(writes) : f[m] = Written(f[m - 1], writes[m])
  BY <1>4
<1> QED
  BY <1>3, <1>5

LEMMA GreatestIn ==
    ASSUME NEW n \in Nat, NEW S \in SUBSET 0..n, S # {}
    PROVE  \E m \in S : \A j \in S : j <= m
<1> DEFINE T == {n - x : x \in S}
<1>1. T \in SUBSET Nat /\ T # {}
  <2>1. \A x \in S : n - x \in Nat
    OBVIOUS
  <2> QED
    BY <2>1
<1>2. PICK u \in T : \A v \in T : u <= v
  <2> HIDE DEF T
  <2> QED
    BY <1>1, FirstFailure
<1>3. PICK m \in S : u = n - m
  OBVIOUS
<1>4. ASSUME NEW j \in S PROVE j <= m
  <2>1. u <= n - j
    BY <1>2
  <2> QED
    BY <1>3, <2>1
<1> QED
  BY <1>4

\* Of any keys one was in service last, and it is one without a retirement record
\* if there is any.
LEMMA NewestIsOneOfThem ==
    ASSUME NEW d \in Directory, NEW keys \in SUBSET d.keys, keys # {}
    PROVE  /\ Newest(d, keys) \in keys
           /\ \A k \in keys : d.retired[k] = None => d.retired[Newest(d, keys)] = None
<1> DEFINE Latest(k) == \A j \in keys \ {k} :
        \/ d.retired[k] = None /\ d.retired[j] # None
        \/ d.retired[k] = d.retired[j] /\ k > j
        \/ d.retired[k] # None /\ d.retired[j] # None /\ d.retired[k] > d.retired[j]
    bound == MaxTime + Delay + 2 * Allowance
<1>1. /\ keys \subseteq Key /\ Key \subseteq 0..MaxKey /\ MaxKey \in Nat /\ bound \in Nat
      /\ d.retired \in [Key -> 0..bound \cup {None}] /\ None \notin Nat
  BY Constants DEF Directory, Key, Time
<1>2. \E k \in keys : Latest(k)
  <2>1. CASE \E k \in keys : d.retired[k] = None
    <3> DEFINE U == {k \in keys : d.retired[k] = None}
    <3>1. PICK k \in U : \A j \in U : j <= k
      <4>1. U \in SUBSET 0..MaxKey /\ U # {}
        BY <1>1, <2>1
      <4> HIDE DEF U
      <4> QED
        BY <1>1, <4>1, GreatestIn
    <3>2. k \in keys /\ Latest(k)
      BY <1>1, <3>1
    <3> QED
      BY <3>2
  <2>2. CASE \A k \in keys : d.retired[k] # None
    <3> DEFINE T == {d.retired[k] : k \in keys}
    <3>1. PICK t \in T : \A u \in T : u <= t
      <4>1. T \in SUBSET 0..bound /\ T # {}
        BY <1>1, <2>2
      <4> HIDE DEF T, bound
      <4> QED
        BY <1>1, <4>1, GreatestIn
    <3> DEFINE U == {k \in keys : d.retired[k] = t}
    <3>2. PICK k \in U : \A j \in U : j <= k
      <4>1. U \in SUBSET 0..MaxKey /\ U # {}
        BY <1>1, <3>1
      <4> HIDE DEF U
      <4> QED
        BY <1>1, <4>1, GreatestIn
    <3>3. ASSUME NEW j \in keys \ {k}
          PROVE  \/ d.retired[k] = d.retired[j] /\ k > j
                 \/ d.retired[k] # None /\ d.retired[j] # None /\ d.retired[k] > d.retired[j]
      <4>1. d.retired[j] <= t /\ d.retired[j] \in 0..bound /\ d.retired[k] = t /\ t \in 0..bound
        BY <1>1, <2>2, <3>1, <3>2
      <4>2. CASE d.retired[j] = t
        BY <1>1, <3>2, <4>1, <4>2
      <4>3. CASE d.retired[j] # t
        BY <1>1, <2>2, <4>1, <4>3
      <4> QED
        BY <4>2, <4>3
    <3> QED
      BY <3>2, <3>3
  <2> QED
    BY <2>1, <2>2
<1>3. Newest(d, keys) = CHOOSE k \in keys : Latest(k)
  BY DEF Newest
<1>4. Newest(d, keys) \in keys /\ Latest(Newest(d, keys))
  <2> HIDE DEF Latest
  <2> QED
    BY <1>2, <1>3
<1> QED
  BY <1>4

\* What one write makes of a directory.
LEMMA WrittenFiles ==
    ASSUME NEW d \in Directory
    PROVE  /\ \A k \in Key :
                /\ Written(d, Put(k)) = [d EXCEPT !.keys = d.keys \cup {k}]
                /\ Written(d, Erase(k)) = [d EXCEPT !.keys = d.keys \ {k}]
                /\ Written(d, Point(k)) = [d EXCEPT !.active = k]
           /\ \A k \in Key, t \in Time \cup {None} :
                Written(d, Stamp(k, t)) =
                    [d EXCEPT !.retired = [d.retired EXCEPT ![k] = t]]
           /\ \A p \in Publication \cup {None} :
                Written(d, Publish(p)) = [d EXCEPT !.published = p]
           /\ \A r \in Intent \cup {None} :
                Written(d, Journal(r)) = [d EXCEPT !.revocation = r]
           /\ Written(d, Bump) = d
BY DEF Written, Put, Erase, Point, Stamp, Publish, Journal, Bump, Directory

\* Each write is a file, and files tell themselves apart.
LEMMA Files ==
    /\ \A k \in Key : {Put(k), Erase(k), Point(k), Unstamp(k)} \subseteq File
    /\ \A k \in Key, t \in Time : Stamp(k, t) \in File
    /\ \A p \in Publication \cup {None} : Publish(p) \in File
    /\ \A r \in Intent \cup {None} : Journal(r) \in File
    /\ Bump \in File
BY DEF File, Put, Erase, Point, Stamp, Unstamp, Publish, Journal, Bump

LEMMA WrittenTyped ==
    ASSUME NEW d \in Directory, NEW w \in File
    PROVE  Written(d, w) \in Directory
<1>1. CASE w \in [file : {"key"}, key : Key, to : BOOLEAN]
  BY <1>1 DEF Written, Directory
<1>2. CASE w \in [file : {"active"}, key : Key, to : Key]
  BY <1>2 DEF Written, Directory
<1>3. CASE w \in [file : {"retired"}, key : Key, to : Time \cup {None}]
  BY <1>3 DEF Written, Directory
<1>4. CASE w \in [file : {"published"}, key : {None}, to : Publication \cup {None}]
  BY <1>4 DEF Written, Directory
<1>5. CASE w \in [file : {"revocation"}, key : {None}, to : Intent \cup {None}]
  BY <1>5 DEF Written, Directory
<1>6. CASE w \in [file : {"generation"}, key : {None}, to : {None}]
  BY <1>6 DEF Written, Directory
<1> QED
  BY <1>1, <1>2, <1>3, <1>4, <1>5, <1>6 DEF File

-----------------------------------------------------------------------------
(* What the last two phases decide to write. *)

LEMMA KeysFinite == ASSUME NEW S \in SUBSET Key PROVE IsFiniteSet(S)
<1>1. IsFiniteSet(Key)
  BY Constants, FS_Interval DEF Key
<1> QED
  BY <1>1, FS_Subset

LEMMA RecordWritesAre ==
    ASSUME NEW d \in Directory, d.active # None, NEW now \in Time
    PROVE  RecordWrites(d, now) \in Seq(File) /\ Recording(RecordWrites(d, now), d, now)
<1> DEFINE stamped == {k \in DOMAIN d.retired : d.retired[k] # None}
           goes == {j \in stamped : j \in Serving(d) \/ j \notin d.keys}
           comes == (d.keys \ Serving(d)) \ stamped
           A == {Unstamp(k) : k \in goes}
           B == {Stamp(k, now) : k \in comes}
           todo == SetToSeq(A \cup B)
<1>1. goes \in SUBSET Key /\ comes \in SUBSET Key /\ DOMAIN d.retired = Key /\ d.active \in Key
  BY DEF Directory
<1>2. RecordWrites(d, now) = todo
  BY DEF RecordWrites, Serving
<1>3. IsFiniteSet(A)
  <2> DEFINE f == [k \in goes |-> Unstamp(k)]
  <2>1. f \in Surjection(goes, A)
    BY DEF Surjection
  <2>2. IsFiniteSet(goes)
    BY <1>1, KeysFinite
  <2> QED
    BY <2>1, <2>2, FS_Surjection
<1>4. IsFiniteSet(B)
  <2> DEFINE f == [k \in comes |-> Stamp(k, now)]
  <2>1. f \in Surjection(comes, B)
    BY DEF Surjection
  <2>2. IsFiniteSet(comes)
    BY <1>1, KeysFinite
  <2> QED
    BY <2>1, <2>2, FS_Surjection
<1>5. IsFiniteSet(A \cup B)
  BY <1>3, <1>4, FS_Union
<1>6. /\ todo \in Seq(A \cup B)
      /\ \A x \in A \cup B : \E m \in 1..Len(todo) : todo[m] = x
  BY <1>5, InOrder
<1>7. A \cup B \subseteq File
  <2>1. \A k \in goes : Unstamp(k) \in File
    BY <1>1, Files
  <2>2. \A k \in comes : Stamp(k, now) \in File
    BY <1>1, Files
  <2> QED
    BY <2>1, <2>2
<1>8. todo \in Seq(File)
  <2> HIDE DEF todo, A, B
  <2> QED
    BY <1>6, <1>7
<1>9. ASSUME NEW m \in 1..Len(todo)
      PROVE  \E k \in Key :
                \/ todo[m] = Unstamp(k) /\ (k \in Serving(d) \/ k \notin d.keys)
                \/ todo[m] = Stamp(k, now) /\ k \in d.keys \ Serving(d)
  <2>1. todo[m] \in A \cup B
    <3> HIDE DEF todo, A, B
    <3> QED
      BY <1>6
  <2> HIDE DEF todo
  <2>2. CASE todo[m] \in A
    BY <1>1, <2>2
  <2>3. CASE todo[m] \in B
    BY <1>1, <2>3
  <2> QED
    BY <2>1, <2>2, <2>3
<1>10. d.retired[d.active] # None => \E m \in 1..Len(todo) : todo[m] = Unstamp(d.active)
  <2>1. d.retired[d.active] # None => Unstamp(d.active) \in A
    BY <1>1 DEF Serving
  <2> HIDE DEF todo, A, B
  <2> QED
    BY <1>6, <2>1
<1>11. ASSUME NEW k \in d.keys \ Serving(d), d.retired[k] = None
       PROVE  \E m \in 1..Len(todo) : todo[m] = Stamp(k, now)
  <2>1. k \in comes
    BY <1>11
  <2>2. Stamp(k, now) \in B
    BY <2>1
  <2> HIDE DEF todo, A, B
  <2> QED
    BY <1>6, <2>2
<1> HIDE DEF todo
<1> QED
  BY <1>2, <1>8, <1>9, <1>10, <1>11 DEF Recording

LEMMA PruneWritesAre ==
    ASSUME NEW d \in Directory, NEW now \in Time
    PROVE  PruneWrites(d, now) \in Seq(File) /\ Pruning(PruneWrites(d, now), d, now)
<1> DEFINE old == SetToSeq(Expired(d, now))
           todo == PruneWrites(d, now)
<1>1. Expired(d, now) \in SUBSET Key
  BY DEF Expired, Directory
<1>2. old \in Seq(Expired(d, now)) /\ Len(old) \in Nat
  <2>1. IsFiniteSet(Expired(d, now))
    BY <1>1, KeysFinite
  <2>2. old \in Seq(Expired(d, now))
    BY <2>1, InOrder
  <2> HIDE DEF old
  <2> QED
    BY <2>2
<1>3. todo = [m \in 1..2 * Len(old) |->
                 IF m % 2 = 1 THEN Erase(old[(m + 1) \div 2]) ELSE Unstamp(old[(m + 1) \div 2])]
  BY DEF PruneWrites
<1> HIDE DEF old, todo
<1>4. ASSUME NEW m \in 1..2 * Len(old)
      PROVE  /\ (m + 1) \div 2 \in 1..Len(old)
             /\ m % 2 # 1 => m > 1 /\ (m - 1) % 2 = 1 /\ ((m - 1) + 1) \div 2 = (m + 1) \div 2
             /\ m % 2 = 1 => /\ m + 1 \in 1..2 * Len(old) /\ (m + 1) % 2 # 1
                             /\ ((m + 1) + 1) \div 2 = (m + 1) \div 2
  BY <1>2
<1>5. ASSUME NEW m \in 1..2 * Len(old)
      PROVE  \E k \in Expired(d, now) :
                \/ todo[m] = Erase(k) /\ m < 2 * Len(old) /\ todo[m + 1] = Unstamp(k)
                \/ todo[m] = Unstamp(k) /\ m > 1 /\ todo[m - 1] = Erase(k)
  <2>1. PICK k \in Expired(d, now) : k = old[(m + 1) \div 2]
    BY <1>2, <1>4
  <2>2. CASE m % 2 = 1
    <3>1. m < 2 * Len(old)
      BY <1>2, <1>4, <2>2
    <3>2. todo[m] = Erase(k) /\ todo[m + 1] = Unstamp(k)
      BY <1>3, <1>4, <2>1, <2>2
    <3> QED
      BY <3>1, <3>2
  <2>3. CASE m % 2 # 1
    <3>1. m - 1 \in 1..2 * Len(old)
      BY <1>2, <1>4, <2>3
    <3> QED
      BY <1>3, <1>4, <2>1, <2>3, <3>1
  <2> QED
    BY <2>2, <2>3
<1>6. \A m \in 1..2 * Len(old) : todo[m] \in File
  BY <1>1, <1>5, Files
<1>7. todo \in Seq(File) /\ Len(todo) = 2 * Len(old)
  BY <1>2, <1>3, <1>6
<1> QED
  BY <1>1, <1>5, <1>7 DEF Pruning, todo

-----------------------------------------------------------------------------
(* Short rows of writes. *)

LEMMA Rows ==
    ASSUME NEW a, NEW b, NEW c, NEW d, NEW e
    PROVE  /\ Head(<<a>>) = a /\ Tail(<<a>>) = <<>>
           /\ Head(<<a, b>>) = a /\ Tail(<<a, b>>) = <<b>>
           /\ Head(<<a, b, c>>) = a /\ Tail(<<a, b, c>>) = <<b, c>>
           /\ Head(<<a, b, c, d>>) = a /\ Tail(<<a, b, c, d>>) = <<b, c, d>>
           /\ Head(<<a, b, c, d, e>>) = a /\ Tail(<<a, b, c, d, e>>) = <<b, c, d, e>>
           /\ <<a>> # <<>> /\ <<a, b>> # <<>> /\ <<a, b, c>> # <<>>
           /\ <<a, b, c, d>> # <<>> /\ <<a, b, c, d, e>> # <<>>
OBVIOUS

LEMMA RowsTyped ==
    ASSUME NEW S, NEW a \in S, NEW b \in S, NEW c \in S, NEW d \in S, NEW e \in S
    PROVE  {<<>>, <<a>>, <<a, b>>, <<a, b, c>>, <<a, b, c, d>>, <<a, b, c, d, e>>} \subseteq Seq(S)
OBVIOUS

LEMMA Rest ==
    ASSUME NEW S, NEW s \in Seq(S), s # <<>>
    PROVE  /\ Tail(s) \in Seq(S) /\ Head(s) \in S /\ Head(s) = s[1]
           /\ Len(s) \in Nat \ {0} /\ Len(Tail(s)) = Len(s) - 1
           /\ \A m \in 1..Len(Tail(s)) : Tail(s)[m] = s[m + 1]
OBVIOUS

LEMMA NothingJoined == ASSUME NEW S, NEW s \in Seq(S) PROVE <<>> \o s = s
OBVIOUS

LEMMA OneJoined ==
    ASSUME NEW a, NEW b, NEW c
    PROVE  <<a>> \o <<b, c>> = <<a, b, c>>
<1> DEFINE S == {a, b, c}
           x == <<a>> \o <<b, c>>
<1>1. x \in Seq(S) /\ Len(x) = 3
  OBVIOUS
<1>2. x[1] = a /\ x[2] = b /\ x[3] = c
  OBVIOUS
<1> HIDE DEF x
<1>3. x = <<a, b, c>>
  BY <1>1, <1>2
<1> QED
  BY <1>3 DEF x

LEMMA TwoJoined ==
    ASSUME NEW a, NEW b, NEW c, NEW d, NEW e
    PROVE  <<a, b>> \o <<c, d, e>> = <<a, b, c, d, e>>
<1> DEFINE S == {a, b, c, d, e}
           x == <<a, b>> \o <<c, d, e>>
<1>1. x \in Seq(S) /\ Len(x) = 5
  OBVIOUS
<1>2. x[1] = a /\ x[2] = b /\ x[3] = c /\ x[4] = d /\ x[5] = e
  OBVIOUS
<1> HIDE DEF x
<1>3. x = <<a, b, c, d, e>>
  BY <1>1, <1>2
<1> QED
  BY <1>3 DEF x

-----------------------------------------------------------------------------
(* What the first three phases decide to write. *)

LEMMA RevocationWritesAre ==
    ASSUME NEW d \in Directory, NEW n \in Nat, NEW gone \in SUBSET Key, Coherent(d, n, gone)
    PROVE  RevocationWrites(d) \in Seq(File) /\ Finishing(RevocationWrites(d), d)
<1>1. CASE d.revocation = None
  BY <1>1 DEF RevocationWrites, Finishing
<1>2. CASE d.revocation # None
  <2> DEFINE r == d.revocation
             end == <<Erase(r.revoked), Unstamp(r.revoked), Journal(None)>>
  <2>1. r \in Intent /\ r.next \in Key /\ r.revoked \in Key
    BY <1>2 DEF Directory, Intent
  <2>2. r.next # r.revoked /\ r.next \in d.keys /\ d.active \in {r.revoked, r.next}
    BY <1>2 DEF Coherent, Journaled
  <2>3. /\ Point(r.next) \in File /\ Unstamp(r.next) \in File /\ Erase(r.revoked) \in File
        /\ Unstamp(r.revoked) \in File /\ Journal(None) \in File
    BY <2>1, Files
  <2>4. RevocationWrites(d) =
            (IF d.active \in d.keys \ {r.revoked} THEN <<>>
             ELSE <<Point(r.next), Unstamp(r.next)>>) \o end
    BY <1>2 DEF RevocationWrites
  <2>5. CASE d.active = r.next
    <3>1. RevocationWrites(d) = <<>> \o end
      BY <2>2, <2>4, <2>5
    <3>2. end \in Seq(File)
      BY <2>3, RowsTyped
    <3>3. RevocationWrites(d) = end
      BY <3>1, <3>2, NothingJoined
    <3> QED
      BY <1>2, <2>5, <3>2, <3>3 DEF Finishing
  <2>6. CASE d.active = r.revoked
    <3>1. RevocationWrites(d) = <<Point(r.next), Unstamp(r.next), Erase(r.revoked),
                                  Unstamp(r.revoked), Journal(None)>>
      <4>1. RevocationWrites(d) = <<Point(r.next), Unstamp(r.next)>> \o end
        BY <2>2, <2>4, <2>6
      <4> QED
        BY <4>1, TwoJoined
    <3> QED
      BY <1>2, <2>3, <2>6, <3>1, RowsTyped DEF Finishing
  <2> QED
    BY <2>2, <2>5, <2>6
<1> QED
  BY <1>1, <1>2

LEMMA ActivationWritesAre ==
    ASSUME NEW d \in Directory, NEW n \in Nat, NEW gone \in SUBSET Key, Coherent(d, n, gone),
           NEW now \in Time
    PROVE  ActivationWrites(d, now) \in Seq(File) /\ Activating(ActivationWrites(d, now), d, now)
<1>1. CASE d.published = None
  BY <1>1 DEF ActivationWrites, Activating, Activated
<1>2. CASE d.published # None
  <2> DEFINE p == d.published
  <2>1. p \in Publication /\ p.key \in Key /\ d.active # None
    BY <1>2 DEF Directory, Publication, Coherent
  <2>2. Publish(None) \in File /\ Point(p.key) \in File
    BY <2>1, Files
  <2>3. CASE p.key \notin d.keys
    <3>1. ActivationWrites(d, now) = <<Publish(None)>>
      BY <1>2, <2>3 DEF ActivationWrites
    <3> QED
      BY <1>2, <2>2, <2>3, <3>1, RowsTyped DEF Activating
  <2>4. CASE p.key \in d.keys /\ Due(p, now)
    <3>1. ActivationWrites(d, now) = <<Point(p.key), Publish(None)>>
      BY <1>2, <2>4 DEF ActivationWrites
    <3> QED
      BY <1>2, <2>2, <2>4, <3>1, RowsTyped DEF Activating
  <2>5. CASE p.key \in d.keys /\ ~Due(p, now)
    <3>1. ActivationWrites(d, now) = <<>>
      BY <1>2, <2>1, <2>5 DEF ActivationWrites
    <3> QED
      BY <1>2, <2>5, <3>1 DEF Activating, Activated
  <2> QED
    BY <2>3, <2>4, <2>5
<1> QED
  BY <1>1, <1>2

LEMMA PointerWritesAre ==
    ASSUME NEW d \in Directory, NEW n \in Nat, NEW gone \in SUBSET Key, Coherent(d, n, gone),
           NEW op, NEW fresh, op = "start" => fresh \in Key, op # "start" => d.active # None
    PROVE  LET todo == PointerWrites(d, op, fresh) IN
           /\ todo \in Seq(File)
           /\ \/ todo = <<>> /\ d.active # None
              \/ /\ d.active = None
                 /\ \/ \E k \in d.keys : todo = <<Point(k)>>
                    \/ op = "start" /\ todo = <<Put(fresh), Point(fresh)>>
<1>1. CASE d.active # None
  BY <1>1 DEF PointerWrites
<1>2. CASE d.active = None /\ d.keys # {}
  <2> DEFINE k == Newest(d, d.keys)
  <2>1. d.keys \ Waiting(d) = d.keys
    BY <1>2 DEF Coherent, Waiting
  <2>2. PointerWrites(d, op, fresh) = <<Point(k)>>
    BY <1>2, <2>1 DEF PointerWrites
  <2>3. k \in d.keys /\ k \in Key
    BY <1>2, NewestIsOneOfThem DEF Directory
  <2> QED
    BY <1>2, <2>2, <2>3, Files, RowsTyped
<1>3. CASE d.active = None /\ d.keys = {}
  <2>1. op = "start" /\ fresh \in Key
    BY <1>3
  <2>2. PointerWrites(d, op, fresh) = <<Put(fresh), Point(fresh)>>
    BY <1>3, <2>1 DEF PointerWrites
  <2> QED
    BY <1>3, <2>1, <2>2, Files, RowsTyped
<1> QED
  BY <1>1, <1>2, <1>3

-----------------------------------------------------------------------------
(* A load goes on to the next phase that has something to write. *)

\* What the phases before one have achieved.
Ready(phase, d, now) ==
    /\ phase >= 2 => d.revocation = None
    /\ phase >= 3 => Activated(d, now)
    /\ phase >= 4 => d.active # None
    /\ phase >= 5 => Recorded(d)

LEMMA NothingToDo ==
    ASSUME NEW t \in Operation, NEW d, NEW n, Loading(t, d, n), t.todo = <<>>
    PROVE  Ready(t.phase, d, t.now)
<1>1. t.phase \in 1..6
  BY DEF Operation, LastPhase
<1>2. t.phase >= 2 => d.revocation = None
  BY <1>1 DEF Loading, Finishing
<1>3. t.phase >= 3 => Activated(d, t.now)
  BY <1>1 DEF Loading, Activating
<1>4. t.phase >= 4 => d.active # None
  BY <1>1 DEF Loading, Pointing
<1>5. t.phase >= 5 => Recorded(d)
  BY <1>1 DEF Loading, Recording, Recorded
<1> QED
  BY <1>2, <1>3, <1>4, <1>5 DEF Ready

LEMMA WorkTyped ==
    ASSUME NEW d \in Directory, NEW n \in Nat, NEW gone \in SUBSET Key, Coherent(d, n, gone),
           NEW now \in Time, NEW op, NEW fresh,
           op = "start" => fresh \in Key, op # "start" => d.active # None,
           NEW phase \in 1..LastPhase, Ready(phase, d, now)
    PROVE  /\ Work(d, phase, op, now, fresh) \in Seq(File)
           /\ Work(d, phase, op, now, fresh) = <<>> => Ready(phase + 1, d, now)
<1> DEFINE W == Work(d, phase, op, now, fresh)
<1>1. CASE phase = 1
  <2>1. W = RevocationWrites(d)
    BY <1>1 DEF Work
  <2>2. W \in Seq(File) /\ Finishing(W, d)
    BY <2>1, RevocationWritesAre
  <2> HIDE DEF W
  <2>3. W = <<>> => d.revocation = None
    BY <2>2 DEF Finishing
  <2>4. W = <<>> => Ready(phase + 1, d, now)
    BY <1>1, <2>3 DEF Ready
  <2> QED
    BY <2>2, <2>4 DEF W
<1>2. CASE phase = 2
  <2>1. W = ActivationWrites(d, now)
    BY <1>2 DEF Work
  <2>2. W \in Seq(File) /\ Activating(W, d, now)
    BY <2>1, ActivationWritesAre
  <2> HIDE DEF W
  <2>3. W = <<>> => Activated(d, now)
    BY <2>2 DEF Activating
  <2>4. W = <<>> => Ready(phase + 1, d, now)
    BY <1>2, <2>3 DEF Ready
  <2> QED
    BY <2>2, <2>4 DEF W
<1>3. CASE phase = 3
  <2>1. W = PointerWrites(d, op, fresh)
    BY <1>3 DEF Work
  <2>2. PICK w : w = PointerWrites(d, op, fresh)
    OBVIOUS
  <2> HIDE DEF W
  <2>3. w \in Seq(File) /\ (w = <<>> => d.active # None)
    BY <2>2, PointerWritesAre
  <2>4. W = w
    BY <2>1, <2>2
  <2>5. W = <<>> => Ready(phase + 1, d, now)
    BY <1>3, <2>3, <2>4 DEF Ready
  <2> QED
    BY <2>3, <2>4, <2>5 DEF W
<1>4. CASE phase = 4
  <2>1. W = RecordWrites(d, now)
    BY <1>4 DEF Work
  <2>2. d.active # None /\ d.revocation = None /\ Activated(d, now)
    BY <1>4 DEF Ready
  <2>3. W \in Seq(File) /\ Recording(W, d, now)
    BY <2>1, <2>2, RecordWritesAre
  <2> HIDE DEF W
  <2>4. W = <<>> => Recorded(d)
    BY <2>3 DEF Recording, Recorded
  <2>5. W = <<>> => Ready(phase + 1, d, now)
    BY <1>4, <2>2, <2>4 DEF Ready
  <2> QED
    BY <2>3, <2>5 DEF W
<1>5. CASE phase = 5
  <2>1. W = PruneWrites(d, now)
    BY <1>5 DEF Work
  <2> QED
    BY <1>5, <2>1, PruneWritesAre DEF Ready
<1> QED
  BY <1>1, <1>2, <1>3, <1>4, <1>5 DEF LastPhase

\* The phases up to p have nothing to write; p has, or is the end.
SettlesAt(p, t, d) ==
    /\ \A q \in t.phase..(p - 1) : Work(d, q, t.op, t.now, t.key) = <<>>
    /\ \/ p = LastPhase + 1 /\ Settled(t, d) = [t EXCEPT !.phase = LastPhase + 1]
       \/ /\ p <= LastPhase /\ Work(d, p, t.op, t.now, t.key) # <<>>
          /\ Settled(t, d) = [t EXCEPT !.phase = p + 1,
                                       !.todo = Work(d, p, t.op, t.now, t.key)]

LEMMA SettledAt ==
    ASSUME NEW t \in Operation, NEW d, t.stage \in {"load", "converge"}, t.todo = <<>>
    PROVE  \E p \in t.phase..(LastPhase + 1) : SettlesAt(p, t, d)
<1> DEFINE busy == {p \in t.phase..LastPhase : Work(d, p, t.op, t.now, t.key) # <<>>}
           least == CHOOSE q \in busy : \A o \in busy : q <= o
<1>1. t.phase \in 1..6 /\ LastPhase = 5
  BY DEF Operation, LastPhase
<1>2. Settled(t, d) = IF busy = {} THEN [t EXCEPT !.phase = LastPhase + 1]
                      ELSE [t EXCEPT !.phase = least + 1,
                                     !.todo = Work(d, least, t.op, t.now, t.key)]
  BY DEF Settled
<1>3. CASE busy = {}
  <2>1. \A q \in t.phase..5 : Work(d, q, t.op, t.now, t.key) = <<>>
    BY <1>1, <1>3
  <2>2. LastPhase + 1 \in t.phase..(LastPhase + 1) /\ (LastPhase + 1) - 1 = 5
    BY <1>1
  <2> QED
    BY <1>2, <1>3, <2>1, <2>2 DEF SettlesAt
<1>4. CASE busy # {}
  <2>1. least \in busy /\ \A o \in busy : least <= o
    <3>1. busy \in SUBSET Nat
      BY <1>1
    <3> HIDE DEF busy
    <3> QED
      BY <1>4, <3>1, FirstFailure
  <2> HIDE DEF least
  <2>2. ASSUME NEW q \in t.phase..(least - 1) PROVE Work(d, q, t.op, t.now, t.key) = <<>>
    <3>1. q \in t.phase..LastPhase /\ ~ (least <= q)
      BY <1>1, <2>1
    <3> QED
      BY <2>1, <3>1
  <2>3. least \in t.phase..LastPhase /\ Work(d, least, t.op, t.now, t.key) # <<>>
    BY <2>1
  <2>4. least \in t.phase..(LastPhase + 1) /\ least <= LastPhase
    BY <1>1, <2>3
  <2>5. Settled(t, d) = [t EXCEPT !.phase = least + 1,
                                  !.todo = Work(d, least, t.op, t.now, t.key)]
    BY <1>2, <1>4
  <2> QED
    BY <2>2, <2>3, <2>4, <2>5 DEF SettlesAt
<1> QED
  BY <1>3, <1>4

\* What the phase after p begins with.
LEMMA PhaseBegins ==
    ASSUME NEW d \in Directory, NEW n \in Nat, NEW gone \in SUBSET Key, Coherent(d, n, gone),
           NEW p \in 1..LastPhase, NEW t \in Operation, t.phase = p + 1,
           t.todo = Work(d, p, t.op, t.now, t.key), Ready(p, d, t.now),
           t.op = "start" => t.key \in Key, t.op # "start" => d.active # None,
           t.op = "rotate" \/ (t.op = "start" /\ p <= 3) => t.key = n + 1
    PROVE  Loading(t, d, n)
<1>1. t.now \in Time /\ p \in 1..5
  BY Constants DEF Operation, LastPhase, Time
<1>2. CASE p = 1
  <2>1. t.todo = RevocationWrites(d)
    BY <1>2 DEF Work
  <2>2. Finishing(t.todo, d)
    BY <2>1, RevocationWritesAre
  <2> QED
    BY <1>2, <2>2 DEF Loading
<1>3. CASE p = 2
  <2>1. t.todo = ActivationWrites(d, t.now)
    BY <1>3 DEF Work
  <2>2. Activating(t.todo, d, t.now)
    BY <1>1, <2>1, ActivationWritesAre
  <2> QED
    BY <1>3, <2>2 DEF Loading, Ready
<1>4. CASE p = 3
  <2>1. t.todo = PointerWrites(d, t.op, t.key)
    BY <1>4 DEF Work
  <2>2. Pointing(t, d, n)
    BY <1>4, <2>1, PointerWritesAre DEF Pointing
  <2> QED
    BY <1>4, <2>2 DEF Loading, Ready
<1>5. CASE p = 4
  <2>1. t.todo = RecordWrites(d, t.now) /\ d.active # None
    BY <1>5 DEF Work, Ready
  <2>2. Recording(t.todo, d, t.now)
    BY <1>1, <2>1, RecordWritesAre
  <2> QED
    BY <1>5, <2>2 DEF Loading, Ready
<1>6. CASE p = 5
  <2>1. t.todo = PruneWrites(d, t.now)
    BY <1>6 DEF Work
  <2>2. Pruning(t.todo, d, t.now)
    BY <1>1, <2>1, PruneWritesAre
  <2> QED
    BY <1>6, <2>2 DEF Loading, Ready
<1> QED
  BY <1>1, <1>2, <1>3, <1>4, <1>5, <1>6

LEMMA Settles ==
    ASSUME NEW t \in Operation, NEW d \in Directory, NEW n \in Nat, NEW gone \in SUBSET Key,
           Coherent(d, n, gone), Course(t, d, n, gone)
    PROVE  LET s == Settled(t, d) IN
           /\ s \in Operation /\ Course(s, d, n, gone) /\ Steady(s)
           /\ s.op = t.op /\ s.owner = t.owner /\ s.now = t.now
           /\ s.stage = t.stage /\ s.key = t.key /\ s.next = t.next
<1>1. CASE t.todo # <<>> \/ t.stage \notin {"load", "converge"}
  BY <1>1 DEF Settled, Steady
<1>2. CASE t.todo = <<>> /\ t.stage \in {"load", "converge"}
  <2> DEFINE s == Settled(t, d)
             W(p) == Work(d, p, t.op, t.now, t.key)
  <2>1. t.phase \in 1..6 /\ LastPhase = 5 /\ t.now \in Time
    BY Constants DEF Operation, LastPhase, Time
  <2>2. Loading(t, d, n) /\ (t.op = "start" => t.key \in Key) /\ (t.op # "start" => d.active # None)
    BY <1>2 DEF Course
  <2>3. PICK p \in t.phase..6 :
            /\ \A q \in t.phase..(p - 1) : W(q) = <<>>
            /\ \/ p = 6 /\ s = [t EXCEPT !.phase = 6]
               \/ p <= 5 /\ W(p) # <<>> /\ s = [t EXCEPT !.phase = p + 1, !.todo = W(p)]
    <3>1. PICK p \in t.phase..(LastPhase + 1) : SettlesAt(p, t, d)
      BY <1>2, SettledAt
    <3>2. LastPhase + 1 = 6
      BY <2>1
    <3> QED
      BY <2>1, <3>1, <3>2 DEF SettlesAt
  <2> HIDE DEF s
  <2>4. \A q \in 1..5 : Ready(q, d, t.now) =>
            W(q) \in Seq(File) /\ (W(q) = <<>> => Ready(q + 1, d, t.now))
    BY <2>1, <2>2, WorkTyped
  <2>5. Ready(t.phase, d, t.now)
    BY <1>2, <2>2, NothingToDo
  <2>6. \A q \in 1..5 : q >= t.phase /\ q < p => W(q) = <<>>
    BY <2>1, <2>3
  <2> HIDE DEF W
  <2>7. Ready(p, d, t.now)
    <3>1. t.phase <= 1 /\ 1 <= p => Ready(1, d, t.now)
      BY DEF Ready
    <3>2. t.phase <= 2 /\ 2 <= p => Ready(2, d, t.now)
      BY <2>1, <2>4, <2>5, <2>6, <3>1
    <3>3. t.phase <= 3 /\ 3 <= p => Ready(3, d, t.now)
      BY <2>1, <2>4, <2>5, <2>6, <3>2
    <3>4. t.phase <= 4 /\ 4 <= p => Ready(4, d, t.now)
      BY <2>1, <2>4, <2>5, <2>6, <3>3
    <3>5. t.phase <= 5 /\ 5 <= p => Ready(5, d, t.now)
      BY <2>1, <2>4, <2>5, <2>6, <3>4
    <3>6. t.phase <= 6 /\ 6 <= p => Ready(6, d, t.now)
      BY <2>1, <2>4, <2>5, <2>6, <3>5
    <3> QED
      BY <2>1, <2>3, <3>1, <3>2, <3>3, <3>4, <3>5, <3>6
  <2>8. s \in Operation /\ Loading(s, d, n) /\ (s.todo = <<>> => s.phase = 6)
    <3>1. CASE p = 6 /\ s = [t EXCEPT !.phase = 6]
      <4>1. /\ s \in Operation /\ s.phase = 6 /\ s.todo = <<>>
            /\ s.op = t.op /\ s.now = t.now /\ s.key = t.key
        BY <1>2, <2>1, <3>1 DEF Operation, LastPhase
      <4>2. Pruning(<<>>, d, t.now)
        BY DEF Pruning
      <4>3. s.op = "rotate" => s.key = n + 1
        BY <2>2, <4>1 DEF Loading
      <4> QED
        BY <2>7, <3>1, <4>1, <4>2, <4>3 DEF Loading, Ready
    <3>2. CASE p <= 5 /\ W(p) # <<>> /\ s = [t EXCEPT !.phase = p + 1, !.todo = W(p)]
      <4>1. p \in 1..5 /\ W(p) \in Seq(File)
        BY <2>1, <2>4, <2>7, <3>2
      <4>2. /\ s \in Operation /\ s.phase = p + 1 /\ s.todo = W(p)
            /\ s.op = t.op /\ s.now = t.now /\ s.key = t.key
        <5>1. p + 1 \in 1..(LastPhase + 1)
          BY <2>1, <4>1
        <5> QED
          BY <3>2, <4>1, <5>1 DEF Operation
      <4>3. s.op = "rotate" \/ (s.op = "start" /\ p <= 3) => s.key = n + 1
        BY <2>1, <2>2, <4>2 DEF Loading
      <4>4. Ready(p, d, s.now) /\ s.todo = Work(d, p, s.op, s.now, s.key)
        BY <2>7, <4>2 DEF W
      <4>5. Loading(s, d, n)
        <5>1. p \in 1..LastPhase
          BY <2>1, <4>1
        <5> QED
          BY <2>2, <4>2, <4>3, <4>4, <5>1, PhaseBegins
      <4> QED
        BY <3>2, <4>2, <4>5
    <3> QED
      BY <2>3, <3>1, <3>2
  <2>9. /\ s.op = t.op /\ s.owner = t.owner /\ s.now = t.now
        /\ s.stage = t.stage /\ s.key = t.key /\ s.next = t.next
    BY <2>3 DEF Operation
  <2>10. Course(s, d, n, gone)
    BY <1>2, <2>8, <2>9 DEF Course, Converging, Choice
  <2> QED
    BY <2>1, <2>8, <2>9, <2>10 DEF Steady, s
<1> QED
  BY <1>1, <1>2

-----------------------------------------------------------------------------
(* The writes that occur, each with what is true when its turn comes. *)

Changing(d, r) ==
    /\ {r.revoked, r.next} \subseteq d.keys /\ r.revoked # r.next
    /\ d.active \in {r.revoked, r.next} /\ Waiting(d) \cap {r.revoked, r.next} = {}
    /\ d.active = r.revoked => d.published = None

Pointable(k, d, now) ==
    \/ d.revocation # None /\ d.active = d.revocation.revoked /\ k = d.revocation.next
    \/ /\ d.revocation = None /\ d.published # None
       /\ k = d.published.key /\ Due(d.published, now)
    \/ d.active = None

Erasable(k, t, d) ==
    /\ k # d.active
    /\ \/ d.revocation # None /\ k = d.revocation.revoked /\ d.active = d.revocation.next
       \/ d.revocation = None /\ t.stage = "rollback" /\ k = t.key
       \/ d.revocation = None /\ (k \in Expired(d, t.now) \/ k \notin d.keys)

Stampable(d) == d.revocation = None /\ d.active # None

Publishable(p, t, d, n) ==
    /\ d.revocation = None /\ d.active # None /\ d.retired[d.active] = None
    /\ p.key = n + 1 /\ p.at = t.now + Delay + Allowance

Lawful(w, t, d, n) ==
    \/ w \in {Publish(None), Bump}
    \/ \E k \in Key : w = Unstamp(k)
    \/ \E k \in d.keys : w = Point(k) /\ Pointable(k, d, t.now)
    \/ \E k \in Key : w = Put(k) /\ k = n + 1
    \/ \E k \in Key : w = Erase(k) /\ Erasable(k, t, d)
    \/ \E k \in d.keys \ Serving(d) : w = Stamp(k, t.now) /\ Stampable(d)
    \/ \E p \in Publication : w = Publish(p) /\ Publishable(p, t, d, n)
    \/ /\ w = Journal(None) /\ d.revocation # None
       /\ d.active = d.revocation.next /\ d.revocation.revoked \notin d.keys
    \/ \E r \in Intent : /\ w = Journal(r) /\ t.op = "revoke"
                        /\ d.revocation = None /\ Changing(d, r)

\* What a write adds to the keys generated and to the keys revoked.
Minted(w, n) == IF w.file = "key" /\ w.to THEN w.key ELSE n
Gone(w, gone) ==
    IF w.file = "revocation" /\ w.to # None THEN gone \cup {w.to.revoked} ELSE gone

\* A write whose turn has come keeps the directory coherent.
LEMMA WriteIsCoherent ==
    ASSUME NEW d \in Directory, NEW n \in 0..MaxKey, NEW gone \in SUBSET Key,
           Coherent(d, n, gone), NEW t \in Operation, NEW w, Lawful(w, t, d, n)
    PROVE  /\ w \in File /\ Written(d, w) \in Directory
           /\ Minted(w, n) \in 0..MaxKey /\ Gone(w, gone) \in SUBSET Key
           /\ Coherent(Written(d, w), Minted(w, n), Gone(w, gone))
<1> DEFINE e == Written(d, w)
<1>1. /\ t.now \in Time /\ Key \subseteq Nat /\ None \notin Key /\ None \notin Intent
      /\ None \notin Publication /\ Key = 1..MaxKey /\ MaxKey \in Nat
  <2>1. t.now \in Time
    BY Constants DEF Operation, Time
  <2> QED
    BY <2>1, Constants, NoneApart DEF Key
<1>2. /\ d.keys \in SUBSET Key /\ d.retired \in [Key -> Time \cup {None}]
      /\ d.active \in Key \cup {None} /\ d.published \in Publication \cup {None}
      /\ d.revocation \in Intent \cup {None} /\ Waiting(d) \subseteq Key
  BY DEF Directory, Waiting, Publication
<1>3. ASSUME w = Publish(None) PROVE Coherent(e, n, gone)
  <2>1. e = [d EXCEPT !.published = None]
    BY <1>3, WrittenFiles
  <2>2. /\ e.keys = d.keys /\ e.retired = d.retired /\ e.active = d.active
        /\ e.published = None /\ e.revocation = d.revocation
    BY <2>1 DEF Directory
  <2> QED
    BY <2>2 DEF Coherent, Journaled, Waiting
<1>4. ASSUME NEW k \in Key, w = Unstamp(k) PROVE Coherent(e, n, gone)
  <2>1. e = [d EXCEPT !.retired = [d.retired EXCEPT ![k] = None]]
    BY <1>4, WrittenFiles DEF Unstamp
  <2>2. /\ e.keys = d.keys /\ e.active = d.active
        /\ e.published = d.published /\ e.revocation = d.revocation
        /\ \A j \in Key : e.retired[j] = IF j = k THEN None ELSE d.retired[j]
    BY <1>2, <2>1 DEF Directory
  <2>3. \A p \in Publication : p.key \in Key
    BY DEF Publication
  <2> QED
    BY <1>1, <1>2, <2>2, <2>3 DEF Coherent, Journaled, Waiting
<1>5. ASSUME NEW k \in d.keys, w = Point(k), Pointable(k, d, t.now) PROVE Coherent(e, n, gone)
  <2>1. e = [d EXCEPT !.active = k]
    BY <1>2, <1>5, WrittenFiles
  <2>2. /\ e.keys = d.keys /\ e.retired = d.retired /\ e.active = k
        /\ e.published = d.published /\ e.revocation = d.revocation
    BY <2>1 DEF Directory
  <2>3. k \in Key /\ k # None
    BY <1>1, <1>2
  <2>4. CASE d.revocation # None /\ d.active = d.revocation.revoked /\ k = d.revocation.next
    <3>1. d.active # None /\ d.published = None
      BY <2>4 DEF Coherent, Journaled
    <3> QED
      BY <2>2, <2>3, <2>4, <3>1 DEF Coherent, Journaled, Waiting
  <2>5. CASE d.revocation = None /\ d.published # None /\ k = d.published.key
    BY <2>2, <2>3, <2>5 DEF Coherent, Journaled
  <2>6. CASE d.active = None
    <3>1. d.published = None /\ d.revocation = None
      BY <2>6 DEF Coherent
    <3> QED
      BY <1>5, <2>2, <2>3, <3>1 DEF Coherent, Journaled
  <2> QED
    BY <1>5, <2>4, <2>5, <2>6 DEF Pointable
<1>6. ASSUME NEW k \in Key, w = Put(k), k = n + 1 PROVE Coherent(e, n + 1, gone)
  <2>1. e = [d EXCEPT !.keys = d.keys \cup {k}]
    BY <1>6, WrittenFiles
  <2>2. /\ e.keys = d.keys \cup {n + 1} /\ e.retired = d.retired /\ e.active = d.active
        /\ e.published = d.published /\ e.revocation = d.revocation
    BY <1>6, <2>1 DEF Directory
  <2>3. n + 1 \notin gone
    BY DEF Coherent
  <2>4. Journaled(e, gone)
    BY <2>2, <2>3 DEF Coherent, Journaled, Waiting
  <2>5. \A j \in 1..n : j \in 1..(n + 1)
    OBVIOUS
  <2>6. \A j \in 1..(n + 1) : j \in 1..((n + 1) + 1)
    OBVIOUS
  <2> QED
    BY <2>2, <2>4, <2>5, <2>6 DEF Coherent
<1>7. ASSUME NEW k \in Key, w = Erase(k), Erasable(k, t, d) PROVE Coherent(e, n, gone)
  <2>1. e = [d EXCEPT !.keys = d.keys \ {k}]
    BY <1>7, WrittenFiles
  <2>2. /\ e.keys = d.keys \ {k} /\ e.retired = d.retired /\ e.active = d.active
        /\ e.published = d.published /\ e.revocation = d.revocation
    BY <2>1 DEF Directory
  <2>3. CASE d.revocation # None /\ k = d.revocation.revoked
    BY <1>7, <2>2, <2>3 DEF Coherent, Journaled, Waiting, Erasable
  <2>4. CASE d.revocation = None
    BY <1>7, <2>2, <2>4 DEF Coherent, Journaled, Erasable
  <2> QED
    BY <1>7, <2>3, <2>4 DEF Erasable
<1>8. ASSUME NEW k \in d.keys \ Serving(d), w = Stamp(k, t.now), Stampable(d)
      PROVE  Coherent(e, n, gone)
  <2>1. e = [d EXCEPT !.retired = [d.retired EXCEPT ![k] = t.now]]
    <3>1. k \in Key /\ t.now \in Time \cup {None}
      BY <1>1, <1>2
    <3> QED
      BY <1>8, <3>1, WrittenFiles
  <2>2. /\ e.keys = d.keys /\ e.active = d.active
        /\ e.published = d.published /\ e.revocation = d.revocation
        /\ \A j \in Key : e.retired[j] = IF j = k THEN t.now ELSE d.retired[j]
    BY <1>2, <2>1 DEF Directory
  <2>3. /\ k # d.active /\ (d.published # None => k # d.published.key)
        /\ \A p \in Publication : p.key \in Key
    BY <1>8 DEF Serving, Waiting, Publication
  <2>4. d.active # None /\ k \in 1..n
    BY <1>2, <1>8 DEF Coherent, Stampable
  <2> QED
    BY <1>1, <1>2, <1>8, <2>2, <2>3, <2>4 DEF Coherent, Journaled, Waiting, Stampable
<1>9. ASSUME NEW p \in Publication, w = Publish(p), Publishable(p, t, d, n)
      PROVE  Coherent(e, n, gone)
  <2>1. e = [d EXCEPT !.published = p]
    BY <1>9, WrittenFiles
  <2>2. /\ e.keys = d.keys /\ e.retired = d.retired /\ e.active = d.active
        /\ e.published = p /\ e.revocation = d.revocation
    BY <2>1 DEF Directory
  <2>3. p.key \in Key /\ p.key = n + 1 /\ d.retired[p.key] = None /\ p.key \notin gone
    BY <1>9 DEF Publication, Publishable, Coherent
  <2> QED
    BY <1>9, <2>2, <2>3 DEF Coherent, Journaled, Publishable
<1>10. ASSUME w = Journal(None), d.revocation # None,
              d.active = d.revocation.next, d.revocation.revoked \notin d.keys
       PROVE  Coherent(e, n, gone)
  <2>1. e = [d EXCEPT !.revocation = None]
    BY <1>10, WrittenFiles
  <2>2. /\ e.keys = d.keys /\ e.retired = d.retired /\ e.active = d.active
        /\ e.published = d.published /\ e.revocation = None
    BY <2>1 DEF Directory
  <2>3. d.active # None /\ d.keys \cap gone = {}
    BY <1>10 DEF Coherent, Journaled
  <2> QED
    BY <2>2, <2>3 DEF Coherent, Journaled
<1>11. ASSUME NEW r \in Intent, w = Journal(r), d.revocation = None, Changing(d, r)
       PROVE  Coherent(e, n, gone \cup {r.revoked})
  <2>1. e = [d EXCEPT !.revocation = r]
    BY <1>11, WrittenFiles
  <2>2. /\ e.keys = d.keys /\ e.retired = d.retired /\ e.active = d.active
        /\ e.published = d.published /\ e.revocation = r /\ r # None
    BY <1>1, <2>1 DEF Directory
  <2>3. d.active # None /\ d.keys \cap gone = {}
    BY <1>1, <1>2, <1>11 DEF Coherent, Journaled, Changing
  <2>4. d.published # None => d.published.key \notin {r.revoked, r.next}
    BY <1>11 DEF Changing, Waiting
  <2>5. Journaled(e, gone \cup {r.revoked})
    BY <1>11, <2>2, <2>3, <2>4 DEF Journaled, Changing, Waiting
  <2> QED
    BY <1>11, <2>2, <2>3, <2>4, <2>5 DEF Coherent, Changing
<1>12. ASSUME w = Bump PROVE Coherent(e, n, gone)
  BY <1>12, WrittenFiles
<1>13. /\ w \in File /\ Minted(w, n) \in 0..MaxKey /\ Gone(w, gone) \in SUBSET Key
  <2>1. \A r \in Intent : r.revoked \in Key
    BY DEF Intent
  <2>2. CASE \E k \in Key : w = Put(k)
    BY <1>1, <2>2, Files DEF Minted, Gone, Put
  <2>3. CASE \E r \in Intent : w = Journal(r)
    <3>1. PICK r \in Intent : w = Journal(r)
      BY <2>3
    <3>2. Minted(w, n) = n /\ Gone(w, gone) = gone \cup {r.revoked}
      BY <1>1, <3>1 DEF Minted, Gone, Journal
    <3> QED
      BY <2>1, <3>1, <3>2, Files
  <2>4. CASE w \in {Publish(None), Bump, Journal(None)} \/ \E p \in Publication : w = Publish(p)
    BY <1>1, <2>4, Files DEF Minted, Gone, Publish, Journal, Bump
  <2>5. CASE \E k \in Key : w \in {Unstamp(k), Stamp(k, t.now)}
    BY <1>1, <2>5, Files DEF Minted, Gone, Unstamp, Stamp
  <2>6. CASE \E k \in Key : w = Point(k)
    BY <1>1, <2>6, Files DEF Minted, Gone, Point
  <2>7. CASE \E k \in Key : w = Erase(k)
    BY <1>1, <2>7, Files DEF Minted, Gone, Erase
  <2> QED
    BY <1>2, <2>2, <2>3, <2>4, <2>5, <2>6, <2>7 DEF Lawful
<1>14. e \in Directory
  BY <1>13, WrittenTyped
<1>15. Coherent(e, Minted(w, n), Gone(w, gone))
  <2>1. CASE \E r \in Intent : w = Journal(r) /\ d.revocation = None /\ Changing(d, r)
    <3>1. PICK r \in Intent : w = Journal(r) /\ d.revocation = None /\ Changing(d, r)
      BY <2>1
    <3>2. Minted(w, n) = n /\ Gone(w, gone) = gone \cup {r.revoked}
      BY <1>1, <3>1 DEF Minted, Gone, Journal
    <3> QED
      BY <1>11, <3>1, <3>2
  <2>2. CASE \E k \in Key : w = Put(k) /\ k = n + 1
    <3>1. Minted(w, n) = n + 1 /\ Gone(w, gone) = gone
      BY <2>2 DEF Minted, Gone, Put
    <3> QED
      BY <1>6, <2>2, <3>1
  <2>3. CASE w \in {Publish(None), Bump} \/ \E k \in Key : w = Unstamp(k)
    <3>1. Minted(w, n) = n /\ Gone(w, gone) = gone
      BY <2>3 DEF Minted, Gone, Publish, Bump, Unstamp, Stamp
    <3> QED
      BY <1>3, <1>4, <1>12, <2>3, <3>1
  <2>4. CASE \E k \in d.keys : w = Point(k) /\ Pointable(k, d, t.now)
    <3>1. Minted(w, n) = n /\ Gone(w, gone) = gone
      BY <2>4 DEF Minted, Gone, Point
    <3> QED
      BY <1>5, <2>4, <3>1
  <2>5. CASE \E k \in Key : w = Erase(k) /\ Erasable(k, t, d)
    <3>1. Minted(w, n) = n /\ Gone(w, gone) = gone
      BY <2>5 DEF Minted, Gone, Erase
    <3> QED
      BY <1>7, <2>5, <3>1
  <2>6. CASE \E k \in d.keys \ Serving(d) : w = Stamp(k, t.now) /\ Stampable(d)
    <3>1. Minted(w, n) = n /\ Gone(w, gone) = gone
      BY <2>6 DEF Minted, Gone, Stamp
    <3> QED
      BY <1>8, <2>6, <3>1
  <2>7. CASE \E p \in Publication : w = Publish(p) /\ Publishable(p, t, d, n)
    <3>1. Minted(w, n) = n /\ Gone(w, gone) = gone
      BY <2>7 DEF Minted, Gone, Publish
    <3> QED
      BY <1>9, <2>7, <3>1
  <2>8. CASE /\ w = Journal(None) /\ d.revocation # None
             /\ d.active = d.revocation.next /\ d.revocation.revoked \notin d.keys
    <3>1. Minted(w, n) = n /\ Gone(w, gone) = gone
      BY <2>8 DEF Minted, Gone, Journal
    <3> QED
      BY <1>10, <2>8, <3>1
  <2> QED
    BY <2>1, <2>2, <2>3, <2>4, <2>5, <2>6, <2>7, <2>8 DEF Lawful
<1> QED
  BY <1>13, <1>14, <1>15

-----------------------------------------------------------------------------
(* The first write of a phase is lawful, and what is left is still to do. *)

LEMMA FinishingGoesOn ==
    ASSUME NEW d \in Directory, NEW n \in Nat, NEW gone \in SUBSET Key, Coherent(d, n, gone),
           NEW t \in Operation, Finishing(t.todo, d), t.todo # <<>>
    PROVE  LET e == Written(d, Head(t.todo)) IN
           /\ Lawful(Head(t.todo), t, d, n)
           /\ Minted(Head(t.todo), n) = n /\ Gone(Head(t.todo), gone) = gone
           /\ Finishing(Tail(t.todo), e)
           /\ e.keys \in {d.keys, d.keys \ {d.revocation.revoked}}
           /\ e.published = d.published /\ e.active # None
           /\ e.revocation = d.revocation \/ (e.revocation = None /\ e.active = d.revocation.next)
<1> DEFINE todo == t.todo
           r == d.revocation
           w == Head(todo)
           e == Written(d, w)
<1>1. d.revocation # None /\ r \in Intent /\ r.revoked \in Key /\ r.next \in Key
  BY DEF Finishing, Directory, Intent
<1>2. r.next # r.revoked /\ r.next \in d.keys /\ d.active \in {r.revoked, r.next}
  BY <1>1 DEF Coherent, Journaled
<1>3. None \notin Key
  BY NoneApart
<1>4. ASSUME w = Unstamp(r.next) \/ w = Unstamp(r.revoked)
      PROVE  /\ Lawful(w, t, d, n) /\ Minted(w, n) = n /\ Gone(w, gone) = gone
             /\ e.keys = d.keys /\ e.active = d.active /\ e.published = d.published
             /\ e.revocation = d.revocation
  <2>1. PICK k \in Key : w = Unstamp(k)
    BY <1>1, <1>4
  <2>2. e = [d EXCEPT !.retired = [d.retired EXCEPT ![k] = None]]
    BY <2>1, WrittenFiles DEF Unstamp
  <2>3. Lawful(w, t, d, n) /\ Minted(w, n) = n /\ Gone(w, gone) = gone
    BY <2>1 DEF Lawful, Minted, Gone, Unstamp, Stamp
  <2> QED
    BY <2>2, <2>3 DEF Directory
<1>5. CASE /\ d.active = r.revoked
           /\ todo = <<Point(r.next), Unstamp(r.next),
                       Erase(r.revoked), Unstamp(r.revoked), Journal(None)>>
  <2>1. /\ w = Point(r.next)
        /\ Tail(todo) = <<Unstamp(r.next), Erase(r.revoked), Unstamp(r.revoked), Journal(None)>>
    BY <1>5, Rows
  <2> HIDE DEF w
  <2>2. e = [d EXCEPT !.active = r.next]
    BY <1>1, <2>1, WrittenFiles
  <2>3. /\ e.active = r.next /\ e.keys = d.keys /\ e.published = d.published
        /\ e.revocation = d.revocation
    BY <2>2 DEF Directory
  <2>4. Pointable(r.next, d, t.now)
    BY <1>1, <1>5 DEF Pointable
  <2>5. Lawful(w, t, d, n) /\ Minted(w, n) = n /\ Gone(w, gone) = gone
    BY <1>2, <2>1, <2>4 DEF Lawful, Minted, Gone, Point
  <2>6. Finishing(Tail(todo), e)
    BY <1>1, <2>1, <2>3 DEF Finishing
  <2> QED
    BY <1>1, <1>3, <2>3, <2>5, <2>6 DEF w
<1>6. CASE /\ d.active = r.next
           /\ todo = <<Unstamp(r.next), Erase(r.revoked), Unstamp(r.revoked), Journal(None)>>
  <2>1. /\ w = Unstamp(r.next)
        /\ Tail(todo) = <<Erase(r.revoked), Unstamp(r.revoked), Journal(None)>>
    BY <1>6, Rows
  <2> HIDE DEF w
  <2>2. Finishing(Tail(todo), e)
    BY <1>1, <1>4, <1>6, <2>1 DEF Finishing
  <2> QED
    BY <1>1, <1>3, <1>4, <1>6, <2>1, <2>2 DEF w
<1>7. CASE d.active = r.next /\ todo = <<Erase(r.revoked), Unstamp(r.revoked), Journal(None)>>
  <2>1. w = Erase(r.revoked) /\ Tail(todo) = <<Unstamp(r.revoked), Journal(None)>>
    BY <1>7, Rows
  <2> HIDE DEF w
  <2>2. e = [d EXCEPT !.keys = d.keys \ {r.revoked}]
    BY <1>1, <2>1, WrittenFiles
  <2>3. /\ e.active = d.active /\ e.keys = d.keys \ {r.revoked} /\ e.published = d.published
        /\ e.revocation = d.revocation
    BY <2>2 DEF Directory
  <2>4. Erasable(r.revoked, t, d)
    BY <1>1, <1>2, <1>7 DEF Erasable
  <2>5. Lawful(w, t, d, n) /\ Minted(w, n) = n /\ Gone(w, gone) = gone
    BY <1>1, <2>1, <2>4 DEF Lawful, Minted, Gone, Erase
  <2>6. Finishing(Tail(todo), e)
    BY <1>1, <1>7, <2>1, <2>3 DEF Finishing
  <2> QED
    BY <1>1, <1>3, <1>7, <2>3, <2>5, <2>6 DEF w
<1>8. CASE /\ d.active = r.next /\ r.revoked \notin d.keys
           /\ todo = <<Unstamp(r.revoked), Journal(None)>>
  <2>1. w = Unstamp(r.revoked) /\ Tail(todo) = <<Journal(None)>>
    BY <1>8, Rows
  <2> HIDE DEF w
  <2>2. Finishing(Tail(todo), e)
    BY <1>1, <1>4, <1>8, <2>1 DEF Finishing
  <2> QED
    BY <1>1, <1>3, <1>4, <1>8, <2>1, <2>2 DEF w
<1>9. CASE d.active = r.next /\ r.revoked \notin d.keys /\ todo = <<Journal(None)>>
  <2>1. w = Journal(None) /\ Tail(todo) = <<>>
    BY <1>9, Rows
  <2> HIDE DEF w
  <2>2. e = [d EXCEPT !.revocation = None]
    BY <2>1, WrittenFiles
  <2>3. /\ e.active = d.active /\ e.keys = d.keys /\ e.published = d.published
        /\ e.revocation = None
    BY <2>2 DEF Directory
  <2>4. Lawful(w, t, d, n) /\ Minted(w, n) = n /\ Gone(w, gone) = gone
    BY <1>1, <1>9, <2>1 DEF Lawful, Minted, Gone, Journal
  <2>5. Finishing(Tail(todo), e)
    BY <2>1, <2>3 DEF Finishing
  <2> QED
    BY <1>1, <1>3, <1>9, <2>3, <2>4, <2>5 DEF w
<1> QED
  BY <1>5, <1>6, <1>7, <1>8, <1>9 DEF Finishing

LEMMA ActivatingGoesOn ==
    ASSUME NEW d \in Directory, NEW n \in Nat, NEW gone \in SUBSET Key, Coherent(d, n, gone),
           NEW t \in Operation, Activating(t.todo, d, t.now), t.todo # <<>>, d.revocation = None
    PROVE  LET e == Written(d, Head(t.todo)) IN
           /\ Lawful(Head(t.todo), t, d, n)
           /\ Minted(Head(t.todo), n) = n /\ Gone(Head(t.todo), gone) = gone
           /\ Activating(Tail(t.todo), e, t.now) /\ e.revocation = None
           /\ e.keys = d.keys /\ e.active # None
           /\ Activated(d, t.now) => e.active = d.active /\ e.published = None
<1> DEFINE todo == t.todo
           p == d.published
           w == Head(todo)
           e == Written(d, w)
<1>1. d.published # None /\ p \in Publication /\ p.key \in Key /\ None \notin Key
  BY NoneApart DEF Activating, Directory, Publication
<1>2. d.active # None
  BY <1>1 DEF Coherent
<1>3. CASE todo = <<Publish(None)>>
  <2>1. w = Publish(None) /\ Tail(todo) = <<>>
    BY <1>3, Rows
  <2> HIDE DEF w
  <2>2. e = [d EXCEPT !.published = None]
    BY <2>1, WrittenFiles
  <2>3. e.active = d.active /\ e.keys = d.keys /\ e.published = None /\ e.revocation = None
    BY <2>2 DEF Directory
  <2>4. Lawful(w, t, d, n) /\ Minted(w, n) = n /\ Gone(w, gone) = gone
    BY <2>1 DEF Lawful, Minted, Gone, Publish
  <2> QED
    BY <1>2, <2>1, <2>3, <2>4 DEF Activating, Activated, w
<1>4. CASE todo = <<Point(p.key), Publish(None)>> /\ p.key \in d.keys /\ Due(p, t.now)
  <2>1. w = Point(p.key) /\ Tail(todo) = <<Publish(None)>>
    BY <1>4, Rows
  <2> HIDE DEF w
  <2>2. e = [d EXCEPT !.active = p.key]
    BY <1>1, <2>1, WrittenFiles
  <2>3. e.active = p.key /\ e.keys = d.keys /\ e.published = p /\ e.revocation = None
    BY <2>2 DEF Directory
  <2>4. Pointable(p.key, d, t.now)
    BY <1>1, <1>4 DEF Pointable
  <2>5. Lawful(w, t, d, n) /\ Minted(w, n) = n /\ Gone(w, gone) = gone
    BY <1>4, <2>1, <2>4 DEF Lawful, Minted, Gone, Point
  <2>6. ~Activated(d, t.now)
    BY <1>1, <1>4 DEF Activated
  <2> QED
    BY <1>1, <2>1, <2>3, <2>5, <2>6 DEF Activating, w
<1> QED
  BY <1>1, <1>3, <1>4 DEF Activating

LEMMA PointingGoesOn ==
    ASSUME NEW d \in Directory, NEW n \in Nat, NEW gone \in SUBSET Key, Coherent(d, n, gone),
           NEW t \in Operation, Pointing(t, d, n), t.todo # <<>>, t.op = "start" => t.key \in Key
    PROVE  LET w == Head(t.todo)
               e == Written(d, w)
               s == [t EXCEPT !.todo = Tail(t.todo)]
           IN  /\ d.active = None
               /\ Lawful(w, t, d, n) /\ Gone(w, gone) = gone
               /\ Pointing(s, e, Minted(w, n))
               /\ e.published = None /\ e.revocation = None
               /\ Minted(w, n) = n \/ t.op = "start"
<1> DEFINE w == Head(t.todo)
           e == Written(d, w)
           s == [t EXCEPT !.todo = Tail(t.todo)]
<1>1. d.active = None /\ d.published = None /\ d.revocation = None
  BY DEF Pointing, Coherent
<1>2. s.todo = Tail(t.todo) /\ s.op = t.op /\ s.key = t.key
  BY DEF Operation
<1>3. CASE \E k \in d.keys : t.todo = <<Point(k)>>
  <2>1. PICK k \in d.keys : t.todo = <<Point(k)>>
    BY <1>3
  <2>2. w = Point(k) /\ s.todo = <<>> /\ k \in Key /\ k # None
    BY <1>2, <2>1, Rows, NoneApart DEF Directory
  <2> HIDE DEF w, s
  <2>3. e = [d EXCEPT !.active = k]
    BY <2>2, WrittenFiles
  <2>4. e.active = k /\ e.published = None /\ e.revocation = None
    BY <1>1, <2>3 DEF Directory
  <2>5. Pointable(k, d, t.now)
    BY <1>1 DEF Pointable
  <2>6. Lawful(w, t, d, n) /\ Minted(w, n) = n /\ Gone(w, gone) = gone
    BY <2>2, <2>5 DEF Lawful, Minted, Gone, Point
  <2> QED
    BY <1>1, <2>2, <2>4, <2>6 DEF Pointing, w, s
<1>4. CASE t.op = "start" /\ t.key = n + 1 /\ t.todo = <<Put(t.key), Point(t.key)>>
  <2>1. w = Put(t.key) /\ s.todo = <<Point(t.key)>> /\ t.key \in Key
    BY <1>2, <1>4, Rows
  <2> HIDE DEF w, s
  <2>2. e = [d EXCEPT !.keys = d.keys \cup {t.key}]
    BY <2>1, WrittenFiles
  <2>3. t.key \in e.keys /\ e.active = None /\ e.published = None /\ e.revocation = None
    BY <1>1, <2>2 DEF Directory
  <2>4. Lawful(w, t, d, n) /\ Gone(w, gone) = gone
    BY <1>4, <2>1 DEF Lawful, Minted, Gone, Put
  <2> QED
    BY <1>1, <1>4, <2>1, <2>3, <2>4 DEF Pointing, w, s
<1> QED
  BY <1>1, <1>3, <1>4 DEF Pointing

LEMMA RecordingGoesOn ==
    ASSUME NEW d \in Directory, NEW n \in Nat, NEW gone \in SUBSET Key, Coherent(d, n, gone),
           NEW t \in Operation, Recording(t.todo, d, t.now), t.todo # <<>>,
           d.revocation = None, d.active # None
    PROVE  LET w == Head(t.todo)
               e == Written(d, w)
           IN  /\ Lawful(w, t, d, n) /\ Minted(w, n) = n /\ Gone(w, gone) = gone
               /\ Recording(Tail(t.todo), e, t.now)
               /\ e.keys = d.keys /\ e.active = d.active
               /\ e.published = d.published /\ e.revocation = None
<1> DEFINE w == Head(t.todo)
           rest == Tail(t.todo)
           e == Written(d, w)
<1>1. /\ t.todo \in Seq(File) /\ t.now \in Time \cup {None} /\ t.now # None
      /\ d.keys \subseteq Key /\ d.active \in Key
    BY Constants, NoneApart DEF Operation, Time, Directory
<1>2. /\ rest \in Seq(File) /\ w = t.todo[1] /\ Len(t.todo) \in Nat \ {0}
      /\ Len(rest) = Len(t.todo) - 1
      /\ \A m \in 1..Len(rest) : rest[m] = t.todo[m + 1]
  BY <1>1, Rest
<1> HIDE DEF w, rest
<1>3. \A m \in 1..Len(rest) : m + 1 \in 1..Len(t.todo)
  BY <1>2
<1>4. ASSUME NEW m \in 1..Len(t.todo) PROVE t.todo[m] = w \/ \E j \in 1..Len(rest) : rest[j] = t.todo[m]
  <2>1. CASE m = 1
    BY <1>2, <2>1
  <2>2. CASE m # 1
    <3>1. m - 1 \in 1..Len(rest) /\ (m - 1) + 1 = m
      BY <1>2, <2>2
    <3> QED
      BY <1>2, <3>1
  <2> QED
    BY <2>1, <2>2
<1>5. PICK k \in Key : \/ w = Unstamp(k) /\ (k \in Serving(d) \/ k \notin d.keys)
                       \/ w = Stamp(k, t.now) /\ k \in d.keys \ Serving(d)
  BY <1>2 DEF Recording
<1> DEFINE u == IF w = Unstamp(k) THEN None ELSE t.now
<1>6. e = [d EXCEPT !.retired = [d.retired EXCEPT ![k] = u]]
  BY <1>1, <1>5, WrittenFiles DEF Unstamp
<1>7. /\ e.keys = d.keys /\ e.active = d.active
      /\ e.published = d.published /\ e.revocation = None
      /\ \A j \in Key : e.retired[j] = IF j = k THEN u ELSE d.retired[j]
  BY <1>6 DEF Directory
<1>8. Serving(e) = Serving(d)
  BY <1>7 DEF Serving, Waiting
<1>9. Lawful(w, t, d, n) /\ Minted(w, n) = n /\ Gone(w, gone) = gone
  BY <1>5 DEF Lawful, Stampable, Minted, Gone, Stamp, Unstamp
<1>10. Recording(rest, e, t.now)
  <2>1. \A m \in 1..Len(rest) : \E j \in Key :
            \/ rest[m] = Unstamp(j) /\ (j \in Serving(e) \/ j \notin e.keys)
            \/ rest[m] = Stamp(j, t.now) /\ j \in e.keys \ Serving(e)
    BY <1>2, <1>3, <1>7, <1>8 DEF Recording
  <2>2. ASSUME e.retired[e.active] # None
        PROVE  \E m \in 1..Len(rest) : rest[m] = Unstamp(e.active)
    <3>1. e.active # k
      <4>1. d.active \in Serving(d)
        BY DEF Serving
      <4> QED
        BY <1>1, <1>5, <1>7, <2>2, <4>1
    <3>2. d.retired[d.active] # None
      BY <1>1, <1>7, <2>2, <3>1
    <3>3. w # Unstamp(d.active)
      BY <1>1, <1>5, <1>7, <3>1 DEF Unstamp, Stamp
    <3> QED
      BY <1>4, <1>7, <3>2, <3>3 DEF Recording
  <2>3. ASSUME NEW j \in e.keys \ Serving(e), e.retired[j] = None
        PROVE  \E m \in 1..Len(rest) : rest[m] = Stamp(j, t.now)
    <3>1. j # k
      <4>1. CASE w = Unstamp(k) /\ (k \in Serving(d) \/ k \notin d.keys)
        BY <1>7, <1>8, <2>3, <4>1
      <4>2. CASE w # Unstamp(k)
        BY <1>1, <1>7, <2>3, <4>2
      <4>3. Unstamp(k) # Stamp(k, t.now)
        BY <1>1 DEF Unstamp, Stamp
      <4> QED
        BY <1>5, <4>1, <4>2, <4>3
    <3>2. d.retired[j] = None /\ j \in d.keys \ Serving(d)
      BY <1>1, <1>7, <1>8, <2>3, <3>1
    <3>3. w # Stamp(j, t.now)
      BY <1>5, <3>1 DEF Unstamp, Stamp
    <3> QED
      BY <1>4, <3>2, <3>3 DEF Recording
  <2> QED
    BY <2>1, <2>2, <2>3 DEF Recording
<1> QED
  BY <1>7, <1>9, <1>10 DEF w, rest

LEMMA PruningGoesOn ==
    ASSUME NEW d \in Directory, NEW n \in Nat, NEW gone \in SUBSET Key, Coherent(d, n, gone),
           NEW t \in Operation, Pruning(t.todo, d, t.now), t.todo # <<>>, Recorded(d),
           d.revocation = None, d.active # None, Activated(d, t.now)
    PROVE  LET w == Head(t.todo)
               e == Written(d, w)
           IN  /\ Lawful(w, t, d, n) /\ Minted(w, n) = n /\ Gone(w, gone) = gone
               /\ Pruning(Tail(t.todo), e, t.now) /\ Recorded(e)
               /\ e.active = d.active /\ e.active \in e.keys /\ Activated(e, t.now)
               /\ e.published = d.published /\ e.revocation = None
<1> DEFINE w == Head(t.todo)
           rest == Tail(t.todo)
           e == Written(d, w)
<1>1. /\ t.todo \in Seq(File) /\ d.keys \subseteq Key /\ d.active \in Key
      /\ d.published # None => d.published.key \in Key
    BY DEF Operation, Directory, Publication
<1>2. /\ rest \in Seq(File) /\ w = t.todo[1] /\ Len(t.todo) \in Nat \ {0}
      /\ Len(rest) = Len(t.todo) - 1
      /\ \A m \in 1..Len(rest) : rest[m] = t.todo[m + 1]
  BY <1>1, Rest
<1> HIDE DEF w, rest
<1>3. PICK k \in Key : \/ w = Erase(k) /\ (k \in Expired(d, t.now) \/ k \notin d.keys)
                       \/ w = Unstamp(k) /\ k \notin d.keys
  <2>1. 1 \in 1..Len(t.todo) /\ ~ (1 > 1)
    BY <1>2
  <2> QED
    BY <1>2, <2>1 DEF Pruning
<1>4. ASSUME NEW m \in 1..Len(rest)
      PROVE  \E j \in Key :
                \/ /\ rest[m] = Erase(j) /\ (j \in Expired(d, t.now) \/ j \notin d.keys)
                   /\ m < Len(rest) /\ rest[m + 1] = Unstamp(j)
                \/ rest[m] = Unstamp(j) /\ (\/ j \notin d.keys \/ (m = 1 /\ w = Erase(j))
                                            \/ (m > 1 /\ rest[m - 1] = Erase(j)))
  <2>1. m + 1 \in 1..Len(t.todo) /\ rest[m] = t.todo[m + 1] /\ (m + 1) - 1 = m
    BY <1>2
  <2>2. PICK j \in Key :
            \/ /\ rest[m] = Erase(j) /\ (j \in Expired(d, t.now) \/ j \notin d.keys)
               /\ m + 1 < Len(t.todo) /\ t.todo[m + 2] = Unstamp(j)
            \/ rest[m] = Unstamp(j) /\ (j \notin d.keys \/ t.todo[m] = Erase(j))
    BY <2>1 DEF Pruning
  <2>5. m + 1 < Len(t.todo) => m < Len(rest) /\ rest[m + 1] = t.todo[m + 2]
    BY <1>2
  <2>3. CASE m = 1
    BY <1>2, <2>2, <2>3, <2>5
  <2>4. CASE m # 1
    <3>1. m > 1 /\ m - 1 \in 1..Len(rest) /\ (m - 1) + 1 = m
      BY <1>2, <2>4
    <3>2. t.todo[m] = rest[m - 1]
      BY <1>2, <3>1
    <3> QED
      BY <2>2, <2>5, <3>1, <3>2
  <2> QED
    BY <2>3, <2>4
<1>5. d.active \in d.keys
  BY DEF Coherent
<1>6. d.published # None => d.retired[d.published.key] = None /\ d.published.key \in d.keys
  BY DEF Coherent, Activated
<1>7. CASE w = Erase(k) /\ (k \in Expired(d, t.now) \/ k \notin d.keys)
  <2>1. e = [d EXCEPT !.keys = d.keys \ {k}]
    BY <1>7, WrittenFiles
  <2>2. /\ e.keys = d.keys \ {k} /\ e.retired = d.retired /\ e.active = d.active
        /\ e.published = d.published /\ e.revocation = None
    BY <2>1 DEF Directory
  <2>3. k # d.active /\ (d.published # None => k # d.published.key)
    BY <1>5, <1>6, <1>7 DEF Expired
  <2>4. Lawful(w, t, d, n) /\ Minted(w, n) = n /\ Gone(w, gone) = gone
    BY <1>7, <2>3 DEF Lawful, Erasable, Minted, Gone, Erase
  <2>5. \A j \in Expired(d, t.now) : j \in Expired(e, t.now) \/ j \notin e.keys
    BY <2>2 DEF Expired
  <2>6. Erase(k) = w => \A j \in Key : w = Erase(j) => j = k
    BY DEF Erase
  <2>7. Pruning(rest, e, t.now)
    BY <1>4, <1>7, <2>2, <2>5, <2>6 DEF Pruning
  <2>8. Recorded(e) /\ Activated(e, t.now)
    BY <1>6, <2>2, <2>3 DEF Recorded, Activated, Serving, Waiting
  <2> QED
    BY <1>5, <2>2, <2>3, <2>4, <2>7, <2>8 DEF w, rest
<1>8. CASE w = Unstamp(k) /\ k \notin d.keys
  <2>1. e = [d EXCEPT !.retired = [d.retired EXCEPT ![k] = None]]
    BY <1>8, WrittenFiles DEF Unstamp
  <2>2. /\ e.keys = d.keys /\ e.active = d.active
        /\ e.published = d.published /\ e.revocation = None
        /\ \A j \in Key : e.retired[j] = IF j = k THEN None ELSE d.retired[j]
    BY <2>1 DEF Directory
  <2>3. Lawful(w, t, d, n) /\ Minted(w, n) = n /\ Gone(w, gone) = gone
    BY <1>8 DEF Lawful, Minted, Gone, Stamp, Unstamp
  <2>4. \A j \in Expired(d, t.now) : j \in Expired(e, t.now)
    BY <1>1, <1>8, <2>2 DEF Expired
  <2>5. \A j \in Key : w # Erase(j)
    BY <1>8 DEF Erase, Unstamp, Stamp
  <2>6. Pruning(rest, e, t.now)
    BY <1>4, <2>2, <2>4, <2>5 DEF Pruning
  <2>7. Recorded(e) /\ Activated(e, t.now)
    BY <1>1, <1>5, <1>8, <2>2 DEF Recorded, Activated, Serving, Waiting
  <2> QED
    BY <1>5, <2>2, <2>3, <2>6, <2>7 DEF w, rest
<1> QED
  BY <1>3, <1>7, <1>8

-----------------------------------------------------------------------------
(* The next write of an operation is lawful, and the operation goes on. *)

\* Collecting goes on with the next key when the removal of one fails, whether
\* or not its file is gone.
LEMMA PruningSkips ==
    ASSUME NEW d \in Directory, NEW now, NEW todo \in Seq(File), NEW k \in Key, todo # <<>>,
           Pruning(todo, d, now), Head(todo) \in {Erase(k), Unstamp(k)}, k \in Expired(d, now),
           NEW e, e.retired = d.retired, e.active = d.active, e.keys \in {d.keys, d.keys \ {k}}
    PROVE  /\ Head(todo) = Erase(k) /\ Tail(todo) # <<>> /\ Head(Tail(todo)).key = k
           /\ Tail(Tail(todo)) \in Seq(File) /\ Pruning(Tail(Tail(todo)), e, now)
<1> DEFINE next == Tail(todo)
           rest == Tail(next)
<1>1. /\ next \in Seq(File) /\ Head(todo) = todo[1] /\ Len(todo) \in Nat \ {0}
      /\ Len(next) = Len(todo) - 1 /\ \A m \in 1..Len(next) : next[m] = todo[m + 1]
  BY Rest
<1>2. k \in d.keys
  BY DEF Expired
<1>3. todo[1] = Erase(k) /\ 1 < Len(todo) /\ todo[2] = Unstamp(k)
  <2>1. 1 \in 1..Len(todo) /\ ~ (1 > 1) /\ 1 + 1 = 2
    BY <1>1
  <2>2. PICK j \in Key :
            \/ todo[1] = Erase(j) /\ 1 < Len(todo) /\ todo[2] = Unstamp(j)
            \/ todo[1] = Unstamp(j) /\ j \notin d.keys
    BY <2>1 DEF Pruning
  <2> QED
    BY <1>1, <1>2, <2>2, NoneApart DEF Erase, Unstamp, Stamp
<1>4. next # <<>> /\ next[1] = Unstamp(k)
  <2> HIDE DEF next
  <2>1. 1 \in 1..Len(next) /\ 1 + 1 = 2
    BY <1>1, <1>3
  <2>2. next[1] = Unstamp(k)
    BY <1>1, <1>3, <2>1
  <2>3. Len(<<>>) = 0 /\ Len(next) # 0
    BY <1>1, <1>3
  <2> QED
    BY <2>2, <2>3
<1>5. /\ rest \in Seq(File) /\ Head(next) = next[1] /\ Len(next) \in Nat \ {0}
      /\ Len(rest) = Len(next) - 1 /\ \A m \in 1..Len(rest) : rest[m] = next[m + 1]
  BY <1>1, <1>4, Rest
<1> HIDE DEF next, rest
<1>6. Len(rest) = Len(todo) - 2 /\ \A m \in 1..Len(rest) : rest[m] = todo[m + 2]
  <2>1. \A m \in 1..Len(rest) : m + 1 \in 1..Len(next) /\ (m + 1) + 1 = m + 2
    BY <1>1, <1>5
  <2> QED
    BY <1>1, <1>5, <2>1
<1>7. \A j \in Expired(d, now) : j \in Expired(e, now) \/ j \notin e.keys
  BY DEF Expired
<1>8. ASSUME NEW m \in 1..Len(rest)
      PROVE  \E j \in Key :
                \/ /\ rest[m] = Erase(j) /\ (j \in Expired(e, now) \/ j \notin e.keys)
                   /\ m < Len(rest) /\ rest[m + 1] = Unstamp(j)
                \/ rest[m] = Unstamp(j) /\ (j \notin e.keys \/ (m > 1 /\ rest[m - 1] = Erase(j)))
  <2>1. m + 2 \in 1..Len(todo) /\ (m + 2) - 1 = m + 1 /\ (m + 2) + 1 = m + 3
    BY <1>1, <1>6
  <2>2. PICK j \in Key :
            \/ /\ rest[m] = Erase(j) /\ (j \in Expired(d, now) \/ j \notin d.keys)
               /\ m + 2 < Len(todo) /\ todo[m + 3] = Unstamp(j)
            \/ rest[m] = Unstamp(j) /\ (j \notin d.keys \/ todo[m + 1] = Erase(j))
    BY <1>6, <2>1 DEF Pruning
  <2>3. m + 2 < Len(todo) => m < Len(rest) /\ rest[m + 1] = todo[m + 3]
    BY <1>1, <1>6
  <2>4. CASE m = 1
    <3>1. todo[m + 1] = Unstamp(k) /\ Unstamp(k) # Erase(j)
      BY <1>3, <2>4 DEF Erase, Unstamp, Stamp
    <3> QED
      BY <1>7, <2>2, <2>3, <3>1
  <2>5. CASE m # 1
    <3>1. m > 1 /\ m - 1 \in 1..Len(rest) /\ (m - 1) + 2 = m + 1
      BY <1>6, <2>5
    <3>2. todo[m + 1] = rest[m - 1]
      BY <1>6, <3>1
    <3> QED
      BY <1>7, <2>2, <2>3, <3>1, <3>2
  <2> QED
    BY <2>4, <2>5
<1>9. Head(next).key = k
  BY <1>4, <1>5 DEF Unstamp, Stamp
<1> QED
  BY <1>1, <1>3, <1>4, <1>5, <1>8, <1>9 DEF Pruning, next, rest

LEMMA LoadingGoesOn ==
    ASSUME NEW d \in Directory, NEW n \in Nat, NEW gone \in SUBSET Key, Coherent(d, n, gone),
           NEW t \in Operation, Loading(t, d, n), t.todo # <<>>, t.op = "start" => t.key \in Key
    PROVE  LET w == Head(t.todo)
               e == Written(d, w)
               s == [t EXCEPT !.todo = Tail(t.todo)]
           IN  /\ Lawful(w, t, d, n) /\ Gone(w, gone) = gone
               /\ Loading(s, e, Minted(w, n))
               /\ d.active # None => e.active # None
               /\ Converging(t, d, gone) => Converging(s, e, gone)
<1> DEFINE w == Head(t.todo)
           e == Written(d, w)
           s == [t EXCEPT !.todo = Tail(t.todo)]
<1>1. /\ s.todo = Tail(t.todo) /\ s.op = t.op /\ s.key = t.key /\ s.next = t.next
      /\ s.now = t.now /\ s.phase = t.phase /\ t.phase \in 1..6
  BY DEF Operation, LastPhase
<1>2. t.phase # 1
  BY DEF Loading
<1> HIDE DEF s
<1>3. CASE t.phase = 2
  <2>1. Finishing(t.todo, d)
    BY <1>3 DEF Loading
  <2>2. /\ Lawful(w, t, d, n) /\ Minted(w, n) = n /\ Gone(w, gone) = gone
        /\ Finishing(Tail(t.todo), e)
        /\ e.keys \in {d.keys, d.keys \ {d.revocation.revoked}}
        /\ e.published = d.published /\ e.active # None
        /\ e.revocation = d.revocation \/ (e.revocation = None /\ e.active = d.revocation.next)
    BY <2>1, FinishingGoesOn, SMTT(60)
  <2>3. d.revocation # None
    BY <2>1 DEF Finishing
  <2> HIDE DEF w, e
  <2>4. Loading(s, e, n)
    BY <1>1, <1>3, <2>2 DEF Loading
  <2>5. Converging(t, d, gone) => Converging(s, e, gone)
    <3>1. SUFFICES ASSUME Converging(t, d, gone) PROVE Converging(s, e, gone)
      OBVIOUS
    <3>2. d.revocation = Choice(t) /\ Choice(s) = Choice(t)
      BY <1>1, <2>3, <3>1 DEF Converging, Choice
    <3>3. t.next \in e.keys
      BY <2>2, <3>1, <3>2 DEF Converging, Choice
    <3>4. Activated(e, s.now)
      <4>1. d.published # None => d.published.key # d.revocation.revoked
        BY <2>3 DEF Coherent, Journaled
      <4> QED
        BY <1>1, <2>2, <3>1, <4>1 DEF Converging, Activated
    <3> QED
      BY <1>1, <2>2, <2>3, <3>1, <3>2, <3>3, <3>4 DEF Converging, Choice
  <2> QED
    BY <2>2, <2>4, <2>5 DEF w, e, s
<1>4. CASE t.phase = 3
  <2>1. Activating(t.todo, d, t.now) /\ d.revocation = None
    BY <1>4 DEF Loading
  <2>2. /\ Lawful(w, t, d, n) /\ Minted(w, n) = n /\ Gone(w, gone) = gone
        /\ Activating(Tail(t.todo), e, t.now) /\ e.revocation = None
        /\ e.keys = d.keys /\ e.active # None
        /\ Activated(d, t.now) => e.active = d.active /\ e.published = None
    BY <2>1, ActivatingGoesOn
  <2> HIDE DEF w, e
  <2>3. Loading(s, e, n)
    BY <1>1, <1>4, <2>2 DEF Loading
  <2>4. Converging(t, d, gone) => Converging(s, e, gone)
    BY <1>1, <2>1, <2>2 DEF Converging, Activated
  <2> QED
    BY <2>2, <2>3, <2>4 DEF w, e, s
<1>5. CASE t.phase = 4
  <2>1. Pointing(t, d, n)
    BY <1>5 DEF Loading
  <2>2. /\ d.active = None
        /\ Lawful(w, t, d, n) /\ Gone(w, gone) = gone
        /\ Pointing(s, e, Minted(w, n))
        /\ e.published = None /\ e.revocation = None
        /\ Minted(w, n) = n \/ t.op = "start"
    BY <2>1, PointingGoesOn DEF s
  <2> HIDE DEF w, e
  <2>3. Loading(s, e, Minted(w, n))
    BY <1>1, <1>5, <2>2 DEF Loading, Activated
  <2>4. ~Converging(t, d, gone)
    <3>1. d.revocation = None /\ None \notin Key /\ d.keys \subseteq Key
      BY <2>2, NoneApart DEF Coherent, Directory
    <3> QED
      BY <2>2, <3>1 DEF Converging
  <2> QED
    BY <2>2, <2>3, <2>4 DEF w, e, s
<1>6. CASE t.phase = 5
  <2>1. /\ Recording(t.todo, d, t.now) /\ d.revocation = None /\ d.active # None
        /\ Activated(d, t.now)
    BY <1>6 DEF Loading
  <2>2. /\ Lawful(w, t, d, n) /\ Minted(w, n) = n /\ Gone(w, gone) = gone
        /\ Recording(Tail(t.todo), e, t.now)
        /\ e.keys = d.keys /\ e.active = d.active
        /\ e.published = d.published /\ e.revocation = None
    BY <2>1, RecordingGoesOn
  <2> HIDE DEF w, e
  <2>3. Loading(s, e, n)
    BY <1>1, <1>6, <2>1, <2>2 DEF Loading, Activated
  <2>4. Converging(t, d, gone) => Converging(s, e, gone)
    BY <1>1, <2>1, <2>2 DEF Converging, Activated
  <2> QED
    BY <2>1, <2>2, <2>3, <2>4 DEF w, e, s
<1>7. CASE t.phase = 6
  <2>1. /\ Pruning(t.todo, d, t.now) /\ d.revocation = None /\ d.active # None
        /\ Activated(d, t.now) /\ Recorded(d)
    BY <1>7 DEF Loading
  <2>2. /\ Lawful(w, t, d, n) /\ Minted(w, n) = n /\ Gone(w, gone) = gone
        /\ Pruning(Tail(t.todo), e, t.now) /\ Recorded(e)
        /\ e.active = d.active /\ e.active \in e.keys /\ Activated(e, t.now)
        /\ e.published = d.published /\ e.revocation = None
    BY <2>1, PruningGoesOn
  <2> HIDE DEF w, e
  <2>3. Loading(s, e, n)
    BY <1>1, <1>7, <2>1, <2>2 DEF Loading
  <2>4. Converging(t, d, gone) => Converging(s, e, gone)
    BY <1>1, <2>1, <2>2 DEF Converging
  <2> QED
    BY <2>1, <2>2, <2>3, <2>4 DEF w, e, s
<1> QED
  BY <1>1, <1>2, <1>3, <1>4, <1>5, <1>6, <1>7

LEMMA PublishingGoesOn ==
    ASSUME NEW d \in Directory, NEW n \in Nat, NEW gone \in SUBSET Key, Coherent(d, n, gone),
           NEW t \in Operation, Publishing(t, d, n), t.todo # <<>>, t.key \in Key
    PROVE  LET w == Head(t.todo)
               e == Written(d, w)
               s == [t EXCEPT !.todo = Tail(t.todo)]
           IN  /\ Lawful(w, t, d, n) /\ Gone(w, gone) = gone
               /\ Publishing(s, e, Minted(w, n)) /\ e.active = d.active
               /\ e.published # None => e.published.key = t.key
<1> DEFINE w == Head(t.todo)
           e == Written(d, w)
           s == [t EXCEPT !.todo = Tail(t.todo)]
           plan == Planned(t, d)
<1>1. s.todo = Tail(t.todo) /\ s.key = t.key /\ s.now = t.now
  BY DEF Operation
<1>2. plan \in Publication /\ plan.key = t.key /\ plan.at = t.now + Delay + Allowance
  <2>1. t.now + Delay + Allowance \in Time
    BY Constants DEF Operation, Time
  <2>2. d.active \in Key
    BY DEF Publishing, Directory
  <2> QED
    BY <2>1, <2>2 DEF Planned, Publication
<1>3. /\ d.revocation = None /\ d.active # None /\ d.retired[d.active] = None
  BY DEF Publishing
<1> HIDE DEF s, plan
<1>4. CASE t.todo = <<Publish(plan), Put(t.key)>> /\ t.key = n + 1
  <2>1. w = Publish(plan) /\ s.todo = <<Put(t.key)>>
    BY <1>1, <1>4, Rows
  <2> HIDE DEF w
  <2>2. e = [d EXCEPT !.published = plan]
    BY <1>2, <2>1, WrittenFiles
  <2>3. /\ e.keys = d.keys /\ e.retired = d.retired /\ e.active = d.active
        /\ e.published = plan /\ e.revocation = None
    BY <1>3, <2>2 DEF Directory
  <2>4. Lawful(w, t, d, n) /\ Minted(w, n) = n /\ Gone(w, gone) = gone
    BY <1>2, <1>3, <1>4, <2>1 DEF Lawful, Publishable, Minted, Gone, Publish
  <2>5. Planned(s, e) = plan
    BY <1>1, <2>3 DEF Planned, plan
  <2> QED
    BY <1>1, <1>2, <1>3, <1>4, <2>1, <2>3, <2>4, <2>5 DEF Publishing, w, s
<1>5. CASE t.todo = <<Put(t.key)>> /\ d.published = plan /\ t.key = n + 1
  <2>1. w = Put(t.key) /\ s.todo = <<>>
    BY <1>1, <1>5, Rows
  <2> HIDE DEF w
  <2>2. e = [d EXCEPT !.keys = d.keys \cup {t.key}]
    BY <2>1, WrittenFiles
  <2>3. /\ t.key \in e.keys /\ e.retired = d.retired /\ e.active = d.active
        /\ e.published = plan /\ e.revocation = None
    BY <1>3, <1>5, <2>2 DEF Directory
  <2>4. Lawful(w, t, d, n) /\ Gone(w, gone) = gone
    BY <1>5, <2>1 DEF Lawful, Gone, Put
  <2>5. Planned(s, e) = plan
    BY <1>1, <2>3 DEF Planned, plan
  <2> QED
    BY <1>1, <1>2, <1>3, <2>1, <2>3, <2>4, <2>5 DEF Publishing, w, s
<1> QED
  BY <1>4, <1>5 DEF Publishing, plan

LEMMA RollingBackGoesOn ==
    ASSUME NEW d \in Directory, NEW n \in Nat, NEW gone \in SUBSET Key, Coherent(d, n, gone),
           NEW t \in Operation, RollingBack(t, d), t.todo # <<>>, t.key \in Key,
           t.key # d.active, t.stage = "rollback"
    PROVE  LET w == Head(t.todo)
               e == Written(d, w)
               s == [t EXCEPT !.todo = Tail(t.todo)]
           IN  /\ Lawful(w, t, d, n) /\ Minted(w, n) = n /\ Gone(w, gone) = gone
               /\ RollingBack(s, e) /\ e.active = d.active
<1> DEFINE w == Head(t.todo)
           e == Written(d, w)
           s == [t EXCEPT !.todo = Tail(t.todo)]
<1>1. s.todo = Tail(t.todo) /\ s.key = t.key
  BY DEF Operation
<1>2. d.revocation = None /\ d.active # None
  BY DEF RollingBack
<1> HIDE DEF s
<1>3. CASE t.todo = <<Erase(t.key), Unstamp(t.key), Publish(None)>>
  <2>1. w = Erase(t.key) /\ s.todo = <<Unstamp(t.key), Publish(None)>>
    BY <1>1, <1>3, Rows
  <2> HIDE DEF w
  <2>2. e = [d EXCEPT !.keys = d.keys \ {t.key}]
    BY <2>1, WrittenFiles
  <2>3. e.active = d.active /\ e.published = d.published /\ e.revocation = None
    BY <1>2, <2>2 DEF Directory
  <2>4. Lawful(w, t, d, n) /\ Minted(w, n) = n /\ Gone(w, gone) = gone
    BY <1>2, <2>1 DEF Lawful, Erasable, Minted, Gone, Erase
  <2> QED
    BY <1>1, <1>2, <2>1, <2>3, <2>4 DEF RollingBack, w, s
<1>4. CASE t.todo = <<Unstamp(t.key), Publish(None)>>
  <2>1. w = Unstamp(t.key) /\ s.todo = <<Publish(None)>>
    BY <1>1, <1>4, Rows
  <2> HIDE DEF w
  <2>2. e = [d EXCEPT !.retired = [d.retired EXCEPT ![t.key] = None]]
    BY <2>1, WrittenFiles DEF Unstamp
  <2>3. e.active = d.active /\ e.published = d.published /\ e.revocation = None
    BY <1>2, <2>2 DEF Directory
  <2>4. Lawful(w, t, d, n) /\ Minted(w, n) = n /\ Gone(w, gone) = gone
    BY <2>1 DEF Lawful, Minted, Gone, Unstamp, Stamp
  <2> QED
    BY <1>1, <1>2, <2>1, <2>3, <2>4 DEF RollingBack, w, s
<1>5. CASE t.todo = <<Publish(None)>>
  <2>1. w = Publish(None) /\ s.todo = <<>>
    BY <1>1, <1>5, Rows
  <2> HIDE DEF w
  <2>2. e = [d EXCEPT !.published = None]
    BY <2>1, WrittenFiles
  <2>3. e.active = d.active /\ e.published = None /\ e.revocation = None
    BY <1>2, <2>2 DEF Directory
  <2>4. Lawful(w, t, d, n) /\ Minted(w, n) = n /\ Gone(w, gone) = gone
    BY <2>1 DEF Lawful, Minted, Gone, Publish
  <2> QED
    BY <1>1, <1>2, <2>1, <2>3, <2>4 DEF RollingBack, w, s
<1> QED
  BY <1>3, <1>4, <1>5 DEF RollingBack

LEMMA CommittingGoesOn ==
    ASSUME NEW d \in Directory, NEW n \in Nat, NEW gone \in SUBSET Key, Coherent(d, n, gone),
           NEW t \in Operation, Committing(t, d), t.todo # <<>>, t.key \in Key, t.next \in Key,
           t.op = "revoke"
    PROVE  LET w == Head(t.todo)
               e == Written(d, w)
               s == [t EXCEPT !.todo = Tail(t.todo)]
           IN  /\ Lawful(w, t, d, n) /\ Minted(w, n) = n
               /\ Committing(s, e) /\ e.active = d.active
<1> DEFINE w == Head(t.todo)
           e == Written(d, w)
           s == [t EXCEPT !.todo = Tail(t.todo)]
<1>1. s.todo = Tail(t.todo) /\ s.key = t.key /\ s.next = t.next /\ s.now = t.now
  BY DEF Operation
<1>2. Choice(s) = Choice(t) /\ Choice(t) \in Intent
      /\ Choice(t).revoked = t.key /\ Choice(t).next = t.next
  BY <1>1 DEF Choice, Intent
<1> HIDE DEF s
<1>3. CASE t.todo = <<Publish(None), Journal(Choice(t)), Bump>> /\ d.revocation = None
  <2>1. w = Publish(None) /\ s.todo = <<Journal(Choice(t)), Bump>>
    BY <1>1, <1>3, Rows
  <2> HIDE DEF w
  <2>2. e = [d EXCEPT !.published = None]
    BY <2>1, WrittenFiles
  <2>3. /\ e.keys = d.keys /\ e.active = d.active /\ e.published = None
        /\ e.revocation = None
    BY <1>3, <2>2 DEF Directory
  <2>4. Lawful(w, t, d, n) /\ Minted(w, n) = n
    BY <2>1 DEF Lawful, Minted, Publish
  <2> QED
    BY <1>1, <1>2, <2>1, <2>3, <2>4 DEF Committing, Activated, Waiting, w, s
<1>4. CASE /\ t.todo = <<Journal(Choice(t)), Bump>> /\ d.revocation = None
           /\ Waiting(d) \cap {t.key, t.next} = {} /\ (d.active = t.key => d.published = None)
  <2>1. w = Journal(Choice(t)) /\ s.todo = <<Bump>>
    BY <1>1, <1>4, Rows
  <2> HIDE DEF w
  <2>2. e = [d EXCEPT !.revocation = Choice(t)]
    BY <1>2, <2>1, WrittenFiles
  <2>3. /\ e.keys = d.keys /\ e.active = d.active /\ e.published = d.published
        /\ e.revocation = Choice(t)
    BY <2>2 DEF Directory
  <2>4. Changing(d, Choice(t))
    BY <1>2, <1>4 DEF Changing, Committing
  <2>5. Lawful(w, t, d, n) /\ Minted(w, n) = n
    BY <1>2, <1>4, <2>1, <2>4 DEF Lawful, Minted, Journal
  <2> QED
    BY <1>1, <1>2, <2>1, <2>3, <2>5 DEF Committing, Activated, w, s
<1>5. CASE t.todo = <<Bump>> /\ d.revocation = Choice(t)
  <2>1. w = Bump /\ s.todo = <<>>
    BY <1>1, <1>5, Rows
  <2> HIDE DEF w
  <2>2. e = d
    BY <2>1, WrittenFiles
  <2>3. Lawful(w, t, d, n) /\ Minted(w, n) = n
    BY <2>1 DEF Lawful, Minted, Bump
  <2> QED
    BY <1>1, <1>2, <1>5, <2>1, <2>2, <2>3 DEF Committing, w, s
<1> QED
  BY <1>3, <1>4, <1>5 DEF Committing

\* What is left of an operation after its next write.
LEMMA CourseGoesOn ==
    ASSUME NEW d \in Directory, NEW n \in Nat, NEW gone \in SUBSET Key, Coherent(d, n, gone),
           NEW t \in Operation, Course(t, d, n, gone), t.todo # <<>>
    PROVE  LET w == Head(t.todo)
               s == [t EXCEPT !.todo = Tail(t.todo)]
           IN  /\ Lawful(w, t, d, n) /\ s \in Operation
               /\ Course(s, Written(d, w), Minted(w, n), Gone(w, gone))
<1> DEFINE w == Head(t.todo)
           e == Written(d, w)
           s == [t EXCEPT !.todo = Tail(t.todo)]
<1>1. /\ s \in Operation /\ s.todo = Tail(t.todo) /\ s.op = t.op /\ s.key = t.key
      /\ s.next = t.next /\ s.now = t.now /\ s.phase = t.phase /\ s.stage = t.stage
  <2>1. Tail(t.todo) \in Seq(File)
    BY Rest DEF Operation
  <2> QED
    BY <2>1 DEF Operation
<1>2. t.stage \in {"load", "publish", "rollback", "commit", "converge"}
  BY DEF Operation
<1>3. CASE t.stage \in {"load", "converge"}
  <2>1. Loading(t, d, n) /\ (t.op = "start" => t.key \in Key)
    BY <1>3 DEF Course
  <2>2. /\ Lawful(w, t, d, n) /\ Gone(w, gone) = gone
        /\ Loading(s, e, Minted(w, n))
        /\ d.active # None => e.active # None
        /\ Converging(t, d, gone) => Converging(s, e, gone)
    BY <2>1, LoadingGoesOn
  <2> HIDE DEF w, e, s
  <2>3. Course(s, e, Minted(w, n), Gone(w, gone))
    BY <1>1, <1>3, <2>2 DEF Course
  <2> QED
    BY <1>1, <2>2, <2>3 DEF w, e, s
<1>4. CASE t.stage = "publish"
  <2>1. Publishing(t, d, n) /\ t.key \in Key
    BY <1>4 DEF Course
  <2>2. /\ Lawful(w, t, d, n) /\ Gone(w, gone) = gone
        /\ Publishing(s, e, Minted(w, n)) /\ e.active = d.active
    BY <2>1, PublishingGoesOn
  <2> HIDE DEF w, e, s
  <2>3. Course(s, e, Minted(w, n), Gone(w, gone))
    BY <1>1, <1>4, <2>2 DEF Course
  <2> QED
    BY <1>1, <2>2, <2>3 DEF w, e, s
<1>5. CASE t.stage = "rollback"
  <2>1. RollingBack(t, d) /\ t.key \in Key /\ t.key # d.active
    BY <1>5 DEF Course
  <2>2. /\ Lawful(w, t, d, n) /\ Minted(w, n) = n /\ Gone(w, gone) = gone
        /\ RollingBack(s, e) /\ e.active = d.active
    BY <1>5, <2>1, RollingBackGoesOn
  <2> HIDE DEF w, e, s
  <2>3. Course(s, e, Minted(w, n), Gone(w, gone))
    BY <1>1, <1>5, <2>2 DEF Course
  <2> QED
    BY <1>1, <2>2, <2>3 DEF w, e, s
<1>6. CASE t.stage = "commit"
  <2>1. Committing(t, d) /\ t.key \in Key /\ t.next \in Key /\ t.op = "revoke"
    BY <1>6 DEF Course
  <2>2. /\ Lawful(w, t, d, n) /\ Minted(w, n) = n
        /\ Committing(s, e) /\ e.active = d.active
    BY <2>1, CommittingGoesOn
  <2> HIDE DEF w, e, s
  <2>3. Course(s, e, Minted(w, n), Gone(w, gone))
    BY <1>1, <1>6, <2>2 DEF Course
  <2> QED
    BY <1>1, <2>2, <2>3 DEF w, e, s
<1> QED
  BY <1>2, <1>3, <1>4, <1>5, <1>6

-----------------------------------------------------------------------------
(* What the directory, the snapshots and the tokens say of each other. *)

LEMMA SoundHas ==
    ASSUME NEW d, NEW m, NEW c, NEW n, NEW gone, NEW lv, Sound(d, m, c, n, gone, lv)
    PROVE  /\ d \in Directory /\ d.keys \in SUBSET Key /\ d.active \in Key \cup {None}
           /\ d.retired \in [Key -> Time \cup {None}]
           /\ d.published \in Publication \cup {None} /\ d.revocation \in Intent \cup {None}
           /\ c \in Nat /\ n \in Nat /\ gone \in SUBSET Key /\ lv \in [Key -> Nat \cup {None}]
           /\ Key \subseteq Nat /\ Time \subseteq Nat
           /\ None \notin Nat /\ None \notin Key /\ None \notin Time
           /\ \A i \in Instance :
                /\ m[i] \in Manager /\ m[i].tried \in Nat /\ m[i].active \in Key \cup {None}
                /\ m[i].keys \in SUBSET Key /\ m[i].up \in BOOLEAN /\ m[i].healthy \in BOOLEAN
<1>1. /\ d \in Directory /\ d.keys \in SUBSET Key /\ d.active \in Key \cup {None}
      /\ d.retired \in [Key -> Time \cup {None}]
      /\ d.published \in Publication \cup {None} /\ d.revocation \in Intent \cup {None}
  BY DEF Sound, Directory
<1>2. c \in Nat /\ n \in Nat /\ gone \in SUBSET Key /\ lv \in [Key -> Nat \cup {None}]
  BY Constants DEF Sound
<1>3. /\ Key \subseteq Nat /\ Time \subseteq Nat
      /\ None \notin Nat /\ None \notin Key /\ None \notin Time
  BY Constants, NoneApart
<1>4. \A i \in Instance : m[i] \in Manager
  BY DEF Sound
<1>5. \A x \in Manager : /\ x.tried \in Nat /\ x.active \in Key \cup {None}
                         /\ x.keys \in SUBSET Key /\ x.up \in BOOLEAN /\ x.healthy \in BOOLEAN
  BY DEF Manager
<1> QED
  BY <1>1, <1>2, <1>3, <1>4, <1>5

\* The retirement of a key that is still used is too recent for it to expire.
LEMMA UsedKeysStay ==
    ASSUME NEW d, NEW m, NEW c, NEW n, NEW gone, NEW lv, Sound(d, m, c, n, gone, lv),
           NEW t \in Operation, Since(t, m, c, lv),
           NEW k \in Key \ gone, k \in Expired(d, t.now), d.revocation = None
    PROVE  lv[k] = None /\ \A i \in Healthy(m) : m[i].active # k
<1>1. /\ d.retired[k] \in Nat /\ t.now >= d.retired[k] + Retention + Allowance
      /\ k # d.active /\ d.retired[k] # None
  <2>1. d.retired[k] \in Time \cup {None}
    BY SoundHas
  <2> QED
    BY <2>1, SoundHas DEF Expired
<1>2. t.now \in Nat /\ t.owner \in Instance /\ Skew[t.owner] \in 0..Allowance
  BY Constants DEF Operation
<1>3. t.now - Skew[t.owner] <= c /\ c \in Nat
  BY SoundHas DEF Since, Begun
<1>4. d.retired[k] + Retention <= c
  BY <1>1, <1>2, <1>3, Constants
<1>5. /\ lv[k] # None => lv[k] <= d.retired[k] + Lag + TokenTTL
      /\ \A i \in Healthy(m) : m[i].active = k => m[i].tried <= d.retired[k]
  BY <1>1 DEF Sound, Aged, Returns
<1>6. lv[k] # None => lv[k] \in Nat /\ c < lv[k]
  BY SoundHas DEF Sound, Tokens
<1>7. \A i \in Healthy(m) : m[i].tried \in Nat /\ c <= m[i].tried + Lag
  BY SoundHas DEF Sound, Running, Healthy
<1> QED
  BY <1>1, <1>3, <1>4, <1>5, <1>6, <1>7, Constants

\* What a write may do to a key, a retirement record and the pointer.
LEMMA WriteChanges ==
    ASSUME NEW d, NEW m, NEW c, NEW n, NEW gone, NEW lv, Sound(d, m, c, n, gone, lv),
           NEW t \in Operation, Since(t, m, c, lv), NEW w, Lawful(w, t, d, n)
    PROVE  LET e == Written(d, w) IN
           /\ gone \subseteq Gone(w, gone) /\ n <= Minted(w, n) /\ Minted(w, n) \in Nat
           /\ \A k \in d.keys \ e.keys : k \notin gone =>
                lv[k] = None /\ \A i \in Healthy(m) : m[i].active # k
           /\ \A k \in Key : e.retired[k] \in {None, d.retired[k], t.now}
           /\ \A k \in Key : e.retired[k] # None /\ e.retired[k] # d.retired[k] =>
                e.retired[k] = t.now
           /\ \A k \in Key \ Gone(w, gone) : Returns(d, k) /\ ~Returns(e, k) => e.retired[k] = None
           /\ d.active # None => e.active # None
<1> DEFINE e == Written(d, w)
<1>1. /\ d \in Directory /\ d.keys \in SUBSET Key /\ d.active \in Key \cup {None}
      /\ d.retired \in [Key -> Time \cup {None}] /\ gone \in SUBSET Key /\ n \in Nat
      /\ None \notin Key /\ Coherent(d, n, gone) /\ d.published \in Publication \cup {None}
  BY SoundHas DEF Sound
<1>2. t.now \in Time \cup {None}
  BY Constants DEF Operation, Time
<1>3. CASE w = Publish(None) \/ \E p \in Publication : w = Publish(p)
  <2>1. PICK p \in Publication \cup {None} : w = Publish(p)
    BY <1>3
  <2>2. e = [d EXCEPT !.published = p]
    BY <1>1, <2>1, WrittenFiles
  <2>3. /\ e.keys = d.keys /\ e.retired = d.retired /\ e.active = d.active
        /\ e.revocation = d.revocation
    BY <1>1, <2>2 DEF Directory
  <2>4. Gone(w, gone) = gone /\ Minted(w, n) = n
    BY <2>1 DEF Gone, Minted, Publish
  <2> QED
    BY <1>1, <2>3, <2>4 DEF Returns
<1>4. CASE w = Bump
  <2>1. e = d /\ Gone(w, gone) = gone /\ Minted(w, n) = n
    BY <1>1, <1>4, WrittenFiles DEF Gone, Minted, Bump
  <2> QED
    BY <1>1, <2>1
<1>5. CASE \E k \in Key : w = Unstamp(k) \/ (w = Stamp(k, t.now) /\ k \notin Serving(d))
  <2>1. PICK k \in Key, u \in {None, t.now} : w = Stamp(k, u)
    BY <1>5 DEF Unstamp
  <2>2. e = [d EXCEPT !.retired = [d.retired EXCEPT ![k] = u]]
    BY <1>1, <1>2, <2>1, WrittenFiles
  <2>3. /\ e.keys = d.keys /\ e.active = d.active /\ e.revocation = d.revocation
        /\ \A j \in Key : e.retired[j] = IF j = k THEN u ELSE d.retired[j]
    BY <1>1, <2>2 DEF Directory
  <2>4. Gone(w, gone) = gone /\ Minted(w, n) = n
    BY <2>1 DEF Gone, Minted, Stamp
  <2> QED
    BY <1>1, <2>3, <2>4 DEF Returns
<1>6. CASE \E k \in d.keys : w = Point(k) /\ Pointable(k, d, t.now)
  <2>1. PICK k \in d.keys : w = Point(k) /\ Pointable(k, d, t.now)
    BY <1>6
  <2>2. e = [d EXCEPT !.active = k]
    BY <1>1, <2>1, WrittenFiles
  <2>3. /\ e.keys = d.keys /\ e.retired = d.retired /\ e.active = k
        /\ e.revocation = d.revocation
    BY <1>1, <2>2 DEF Directory
  <2>4. Gone(w, gone) = gone /\ Minted(w, n) = n
    BY <2>1 DEF Gone, Minted, Point
  <2>5. \A j \in Key \ gone : Returns(d, j) /\ ~Returns(e, j) => e.retired[j] = None
    <3>1. SUFFICES ASSUME NEW j \in Key \ gone, d.active = j PROVE e.retired[j] = None \/ Returns(e, j)
      BY <2>3 DEF Returns
    <3>2. d.revocation # None /\ d.active = d.revocation.revoked => d.active \in gone
      BY <1>1 DEF Coherent, Journaled
    <3>3. d.published # None => d.retired[d.active] = None
      BY <1>1 DEF Coherent
    <3> QED
      BY <1>1, <2>1, <2>3, <3>1, <3>2, <3>3 DEF Pointable
  <2> QED
    BY <1>1, <2>1, <2>3, <2>4, <2>5
<1>7. CASE \E k \in Key : w = Put(k) /\ k = n + 1
  <2>0. n + 1 \in Key /\ w = Put(n + 1)
    BY <1>7
  <2>1. e = [d EXCEPT !.keys = d.keys \cup {n + 1}]
    BY <1>1, <2>0, WrittenFiles
  <2>2. /\ e.keys = d.keys \cup {n + 1} /\ e.retired = d.retired /\ e.active = d.active
        /\ e.revocation = d.revocation
    BY <1>1, <2>1 DEF Directory
  <2>3. Gone(w, gone) = gone /\ Minted(w, n) = n + 1
    BY <1>7 DEF Gone, Minted, Put
  <2> QED
    BY <1>1, <2>2, <2>3 DEF Returns
<1>8. CASE \E k \in Key : w = Erase(k) /\ Erasable(k, t, d)
  <2>1. PICK k \in Key : w = Erase(k) /\ Erasable(k, t, d)
    BY <1>8
  <2>2. e = [d EXCEPT !.keys = d.keys \ {k}]
    BY <1>1, <2>1, WrittenFiles
  <2>3. /\ e.keys = d.keys \ {k} /\ e.retired = d.retired /\ e.active = d.active
        /\ e.revocation = d.revocation
    BY <1>1, <2>2 DEF Directory
  <2>4. Gone(w, gone) = gone /\ Minted(w, n) = n
    BY <2>1 DEF Gone, Minted, Erase
  <2>5. ASSUME k \in d.keys, k \notin gone
        PROVE  lv[k] = None /\ \A i \in Healthy(m) : m[i].active # k
    <3>1. ~ (d.revocation # None /\ k = d.revocation.revoked)
      BY <1>1, <2>5 DEF Coherent, Journaled
    <3>2. CASE t.stage = "rollback" /\ k = t.key
      BY <3>2 DEF Since
    <3>3. CASE d.revocation = None /\ k \in Expired(d, t.now)
      BY <2>5, <3>3, UsedKeysStay
    <3> QED
      BY <2>1, <2>5, <3>1, <3>2, <3>3 DEF Erasable
  <2> QED
    BY <1>1, <2>3, <2>4, <2>5 DEF Returns
<1>9. CASE /\ w = Journal(None) /\ d.revocation # None
           /\ d.active = d.revocation.next /\ d.revocation.revoked \notin d.keys
  <2>1. e = [d EXCEPT !.revocation = None]
    BY <1>1, <1>9, WrittenFiles
  <2>2. e.keys = d.keys /\ e.retired = d.retired /\ e.active = d.active
    BY <1>1, <2>1 DEF Directory
  <2>3. Gone(w, gone) = gone /\ Minted(w, n) = n
    BY <1>9 DEF Gone, Minted, Journal
  <2> QED
    BY <1>1, <1>9, <2>2, <2>3 DEF Returns
<1>10. CASE \E r \in Intent : w = Journal(r) /\ d.revocation = None
  <2>1. PICK r \in Intent : w = Journal(r) /\ d.revocation = None
    BY <1>10
  <2>2. e = [d EXCEPT !.revocation = r]
    BY <1>1, <2>1, WrittenFiles
  <2>3. e.keys = d.keys /\ e.retired = d.retired /\ e.active = d.active
    BY <1>1, <2>2 DEF Directory
  <2>4. gone \subseteq Gone(w, gone) /\ Minted(w, n) = n
    BY <2>1 DEF Gone, Minted, Journal
  <2> QED
    BY <1>1, <2>1, <2>3, <2>4 DEF Returns
<1> HIDE DEF e
<1>11. CASE \E k \in d.keys \ Serving(d) : w = Stamp(k, t.now) /\ Stampable(d)
  BY <1>1, <1>5, <1>11
<1>12. CASE \E r \in Intent : /\ w = Journal(r) /\ t.op = "revoke"
                             /\ d.revocation = None /\ Changing(d, r)
  BY <1>10, <1>12
<1>13. CASE \E k \in Key : w = Unstamp(k)
  BY <1>5, <1>13
<1>14. CASE w \in {Publish(None), Bump} \/ \E p \in Publication : w = Publish(p) /\ Publishable(p, t, d, n)
  BY <1>3, <1>4, <1>14
<1> QED
  BY <1>6, <1>7, <1>8, <1>9, <1>11, <1>12, <1>13, <1>14 DEF Lawful, e

LEMMA WriteKeepsSound ==
    ASSUME NEW d, NEW m, NEW c, NEW n, NEW gone, NEW lv, Sound(d, m, c, n, gone, lv),
           NEW t \in Operation, Since(t, m, c, lv), NEW w, Lawful(w, t, d, n)
    PROVE  Sound(Written(d, w), m, c, Minted(w, n), Gone(w, gone), lv)
<1> DEFINE e == Written(d, w)
           mint == Minted(w, n)
           dead == Gone(w, gone)
<1>1. /\ e \in Directory /\ mint \in 0..MaxKey /\ dead \in SUBSET Key
      /\ Coherent(e, mint, dead)
  BY WriteIsCoherent DEF Sound
<1>2. /\ gone \subseteq dead /\ n <= mint /\ mint \in Nat /\ n \in Nat
      /\ \A k \in d.keys \ e.keys : k \notin gone =>
            lv[k] = None /\ \A i \in Healthy(m) : m[i].active # k
      /\ d.active # None => e.active # None
  BY WriteChanges, SoundHas
<1>3. /\ \A k \in Key : e.retired[k] \in {None, d.retired[k], t.now}
      /\ \A k \in Key : e.retired[k] # None /\ e.retired[k] # d.retired[k] =>
            e.retired[k] = t.now
      /\ \A k \in Key \ dead : Returns(d, k) /\ ~Returns(e, k) => e.retired[k] = None
  BY WriteChanges
<1>4. /\ \A i \in Instance : /\ m[i].active \in Key \cup {None} /\ m[i].tried \in Nat
                             /\ m[i].keys \in SUBSET Key
      /\ None \notin Key /\ Key \subseteq Nat /\ c \in Nat /\ lv \in [Key -> Nat \cup {None}]
      /\ None \notin Nat
  BY SoundHas
<1> HIDE DEF e, mint, dead
<1>5. Running(e, m, c, mint, dead)
  <2> SUFFICES ASSUME NEW i \in Instance
               PROVE  /\ m[i].up =>
                            /\ e.active # None
                            /\ m[i].active \in m[i].keys /\ m[i].active <= mint
                            /\ m[i].tried <= c /\ c <= m[i].tried + Lag
                      /\ m[i].healthy => m[i].up /\ m[i].active \in e.keys \cup dead
    BY DEF Running
  <2>1. /\ m[i].up => /\ d.active # None
                      /\ m[i].active \in m[i].keys /\ m[i].active <= n
                      /\ m[i].tried <= c /\ c <= m[i].tried + Lag
        /\ m[i].healthy => m[i].up /\ m[i].active \in d.keys \cup gone
    BY DEF Sound, Running
  <2>2. m[i].up => m[i].active \in Nat /\ m[i].active <= mint
    <3>1. m[i].up => m[i].active \in Nat
      BY <1>4, <2>1
    <3> QED
      BY <1>2, <2>1, <3>1
  <2>3. m[i].healthy => i \in Healthy(m)
    BY DEF Healthy
  <2>4. m[i].healthy => m[i].active \in e.keys \cup dead
    BY <1>2, <2>1, <2>3
  <2> QED
    BY <1>2, <2>1, <2>2, <2>4
<1>6. Tokens(e, c, lv, dead)
  BY <1>2 DEF Sound, Tokens
<1>7. Aged(e, m, lv, dead)
  <2> SUFFICES ASSUME NEW k \in Key \ dead, e.retired[k] # None, ~Returns(e, k)
               PROVE  /\ lv[k] # None => lv[k] <= e.retired[k] + Lag + TokenTTL
                      /\ \A i \in Healthy(m) : m[i].active = k => m[i].tried <= e.retired[k]
    BY DEF Aged
  <2>1. CASE e.retired[k] = d.retired[k]
    <3>1. ~Returns(d, k) /\ k \in Key \ gone
      BY <1>2, <1>3
    <3> QED
      BY <2>1, <3>1 DEF Sound, Aged
  <2>2. CASE e.retired[k] = t.now
    <3>1. /\ t.now \in Nat /\ Begun(t) <= t.now /\ Begun(t) \in Int
      BY Constants DEF Operation, Begun
    <3>2. lv[k] # None => lv[k] \in Nat /\ lv[k] <= Begun(t) + Lag + TokenTTL
      BY <1>4 DEF Since
    <3>3. \A i \in Healthy(m) : m[i].tried \in Nat /\ m[i].tried <= Begun(t)
      BY <1>4 DEF Since, Healthy
    <3> QED
      BY <2>2, <3>1, <3>2, <3>3, Constants
  <2> QED
    BY <1>3, <2>1, <2>2
<1> QED
  BY <1>1, <1>5, <1>6, <1>7 DEF Sound, e, mint, dead

LEMMA WriteKeepsShared ==
    ASSUME NEW d, NEW m, NEW c, NEW n, NEW gone, NEW lv, Sound(d, m, c, n, gone, lv),
           NEW t \in Operation, Since(t, m, c, lv), NEW w, Lawful(w, t, d, n),
           t.op # "revoke", Shared(d, m, lv, gone)
    PROVE  Shared(Written(d, w), m, lv, Gone(w, gone))
<1> DEFINE e == Written(d, w)
<1>1. /\ d \in Directory /\ d.keys \in SUBSET Key /\ d.active \in Key \cup {None}
      /\ d.published \in Publication \cup {None} /\ None \notin Key /\ None \notin Publication
      /\ Coherent(d, n, gone) /\ c \in Nat /\ gone = {}
      /\ \A i \in Instance : m[i].tried \in Nat
  BY SoundHas, NoneApart DEF Sound, Shared
<1>2. /\ t.now \in Time \cup {None} /\ t.now \in Nat /\ Begun(t) <= t.now
      /\ Begun(t) \in Int /\ t.now <= c + Allowance
  <2>1. t.now \in Nat /\ t.now \in Time /\ Skew[t.owner] \in 0..Allowance
    BY Constants DEF Operation, Time
  <2>2. t.now - Skew[t.owner] <= c
    BY DEF Since, Begun
  <2> QED
    BY <1>1, <2>1, <2>2, Constants DEF Begun
<1>3. ASSUME NEW i \in Healthy(m)
      PROVE  /\ m[i].tried <= Begun(t) /\ c <= m[i].tried + Lag /\ m[i].tried \in Nat
             /\ d.active # None /\ d.active \in m[i].keys
             /\ d.published # None => \/ d.published.key \in m[i].keys
                                      \/ m[i].tried + Delay + Allowance <= d.published.at
  BY <1>1, <1>3 DEF Since, Sound, Running, Shared, Healthy
<1>4. /\ Gone(w, gone) = {}
      /\ \/ e.active = d.active
         \/ \E k \in d.keys : Pointable(k, d, t.now) /\ e.active = k
      /\ \/ e.published \in {d.published, None}
         \/ \E p \in Publication : Publishable(p, t, d, n) /\ e.published = p
  <2>1. CASE \E p \in Publication \cup {None} :
                w = Publish(p) /\ (p = None \/ Publishable(p, t, d, n))
    <3>1. PICK p \in Publication \cup {None} :
                w = Publish(p) /\ (p = None \/ Publishable(p, t, d, n))
      BY <2>1
    <3>2. e = [d EXCEPT !.published = p]
      BY <1>1, <3>1, WrittenFiles
    <3>3. e.active = d.active /\ e.published = p
      BY <1>1, <3>2 DEF Directory
    <3> QED
      BY <1>1, <3>1, <3>3 DEF Gone, Publish
  <2>2. CASE w = Bump
    BY <1>1, <2>2, WrittenFiles DEF Gone, Bump
  <2>3. CASE \E k \in Key, u \in {None, t.now} : w = Stamp(k, u)
    <3>1. PICK k \in Key, u \in {None, t.now} : w = Stamp(k, u)
      BY <2>3
    <3>2. e = [d EXCEPT !.retired = [d.retired EXCEPT ![k] = u]]
      BY <1>1, <1>2, <3>1, WrittenFiles
    <3>3. e.active = d.active /\ e.published = d.published
      BY <1>1, <3>2 DEF Directory
    <3> QED
      BY <1>1, <3>1, <3>3 DEF Gone, Stamp
  <2>4. CASE \E k \in d.keys : w = Point(k) /\ Pointable(k, d, t.now)
    <3>1. PICK k \in d.keys : w = Point(k) /\ Pointable(k, d, t.now)
      BY <2>4
    <3>2. e = [d EXCEPT !.active = k]
      BY <1>1, <3>1, WrittenFiles
    <3>3. e.active = k /\ e.published = d.published
      BY <1>1, <3>2 DEF Directory
    <3> QED
      BY <1>1, <3>1, <3>3 DEF Gone, Point
  <2>5. CASE \E k \in Key : w \in {Put(k), Erase(k)}
    <3>1. PICK k \in Key : w \in {Put(k), Erase(k)}
      BY <2>5
    <3>2. e \in {[d EXCEPT !.keys = d.keys \cup {k}], [d EXCEPT !.keys = d.keys \ {k}]}
      BY <1>1, <3>1, WrittenFiles
    <3>3. e.active = d.active /\ e.published = d.published
      BY <1>1, <3>2 DEF Directory
    <3> QED
      BY <1>1, <3>1, <3>3 DEF Gone, Put, Erase
  <2>6. CASE w = Journal(None)
    <3>1. e = [d EXCEPT !.revocation = None]
      BY <1>1, <2>6, WrittenFiles
    <3>2. e.active = d.active /\ e.published = d.published
      BY <1>1, <3>1 DEF Directory
    <3> QED
      BY <1>1, <2>6, <3>2 DEF Gone, Journal
  <2> HIDE DEF e
  <2>7. CASE \E k \in Key : w = Unstamp(k)
    BY <2>3, <2>7 DEF Unstamp
  <2>8. CASE \E k \in d.keys \ Serving(d) : w = Stamp(k, t.now) /\ Stampable(d)
    BY <1>1, <2>3, <2>8
  <2>9. CASE w \in {Publish(None), Bump} \/ \E p \in Publication : w = Publish(p) /\ Publishable(p, t, d, n)
    BY <2>1, <2>2, <2>9
  <2> QED
    BY <2>4, <2>5, <2>6, <2>7, <2>8, <2>9 DEF Lawful
<1> HIDE DEF e
<1>5. ASSUME NEW i \in Healthy(m) PROVE e.active \in m[i].keys
  <2>1. SUFFICES ASSUME NEW k \in d.keys, Pointable(k, d, t.now), e.active = k
                 PROVE  k \in m[i].keys
    BY <1>3, <1>4
  <2>2. d.revocation = None
    <3>1. d.revocation # None => d.revocation.revoked \in gone
      BY <1>1 DEF Coherent, Journaled
    <3> QED
      BY <1>1, <3>1
  <2>3. d.published # None /\ k = d.published.key /\ Due(d.published, t.now)
    BY <1>3, <2>1, <2>2 DEF Pointable
  <2>4. t.now >= d.published.at /\ d.published.at \in Nat
    <3>1. \A p \in Publication : p.at \in Nat
      BY NoneApart DEF Publication
    <3> QED
      BY <1>1, <2>3, <3>1 DEF Due
  <2>5. ~ (m[i].tried + Delay + Allowance <= d.published.at)
    <3>1. m[i].tried \in Nat /\ c <= m[i].tried + Lag
      BY <1>3
    <3> QED
      BY <1>1, <1>2, <2>4, <3>1, Constants
  <2> QED
    BY <1>3, <2>3, <2>5
<1>6. ASSUME NEW i \in Healthy(m), e.published # None
      PROVE  \/ e.published.key \in m[i].keys
             \/ m[i].tried + Delay + Allowance <= e.published.at
  <2>1. CASE e.published = d.published
    BY <1>3, <1>6, <2>1
  <2>2. CASE \E p \in Publication : Publishable(p, t, d, n) /\ e.published = p
    <3>1. e.published.at = t.now + Delay + Allowance
      BY <2>2 DEF Publishable
    <3>2. m[i].tried <= t.now /\ m[i].tried \in Nat
      BY <1>2, <1>3
    <3> QED
      BY <1>2, <3>1, <3>2, Constants
  <2> QED
    BY <1>4, <1>6, <2>1, <2>2
<1> QED
  BY <1>4, <1>5, <1>6 DEF Shared, e

\* An instance stops, or its round of synchronization fails.
LEMMA Stopping ==
    ASSUME NEW d, NEW m, NEW c, NEW n, NEW gone, NEW lv, Sound(d, m, c, n, gone, lv),
           NEW i \in Instance, NEW x \in Manager, ~x.healthy,
           x.up => m[i].up /\ x.active = m[i].active /\ x.keys = m[i].keys /\ x.tried = c
    PROVE  LET q == [m EXCEPT ![i] = x] IN
           /\ Sound(d, q, c, n, gone, lv)
           /\ Shared(d, m, lv, gone) => Shared(d, q, lv, gone)
           /\ \A t \in Operation :
                Since(t, m, c, lv) /\ (t.op # "start" => t.owner # i \/ x.up)
                => Since(t, q, c, lv)
<1> DEFINE q == [m EXCEPT ![i] = x]
<1>1. /\ m \in [Instance -> Manager] /\ c \in Nat
  BY SoundHas DEF Sound
<1>2. q \in [Instance -> Manager] /\ \A j \in Instance : q[j] = IF j = i THEN x ELSE m[j]
  BY <1>1
<1> HIDE DEF q
<1>3. Healthy(q) \subseteq Healthy(m) /\ \A j \in Healthy(q) : q[j] = m[j]
  BY <1>2 DEF Healthy
<1>4. Running(d, q, c, n, gone)
  BY <1>1, <1>2, Constants DEF Sound, Running
<1>5. Sound(d, q, c, n, gone, lv)
  BY <1>2, <1>3, <1>4 DEF Sound, Aged
<1>6. Shared(d, m, lv, gone) => Shared(d, q, lv, gone)
  BY <1>3 DEF Shared
<1>7. ASSUME NEW t \in Operation, Since(t, m, c, lv), t.op # "start" => t.owner # i \/ x.up
      PROVE  Since(t, q, c, lv)
  <2>1. t.owner \in Instance
    BY DEF Operation
  <2> QED
    BY <1>2, <1>3, <1>7, <2>1 DEF Since
<1> QED
  BY <1>5, <1>6, <1>7 DEF q

\* An instance takes a snapshot with a key that serves or will.
LEMMA Snapshooting ==
    ASSUME NEW d, NEW m, NEW c, NEW n, NEW gone, NEW lv, Sound(d, m, c, n, gone, lv),
           NEW i \in Instance, NEW x \in Manager, x.up, d.active # None,
           x.active \in x.keys \cap d.keys, Returns(d, x.active),
           x.tried <= c, c <= x.tried + Lag
    PROVE  Sound(d, [m EXCEPT ![i] = x], c, n, gone, lv)
<1> DEFINE q == [m EXCEPT ![i] = x]
<1>1. m \in [Instance -> Manager] /\ d.keys \in SUBSET Key
  BY SoundHas DEF Sound
<1>2. q \in [Instance -> Manager] /\ \A j \in Instance : q[j] = IF j = i THEN x ELSE m[j]
  BY <1>1
<1>3. x.active <= n
  <2>1. d.keys \subseteq 1..n
    BY DEF Sound, Coherent
  <2> QED
    BY <2>1, SoundHas
<1> HIDE DEF q
<1>4. Running(d, q, c, n, gone)
  BY <1>2, <1>3 DEF Sound, Running
<1>5. Aged(d, q, lv, gone)
  <2> SUFFICES ASSUME NEW k \in Key \ gone, d.retired[k] # None, ~Returns(d, k)
               PROVE  /\ lv[k] # None => lv[k] <= d.retired[k] + Lag + TokenTTL
                      /\ \A j \in Healthy(q) : q[j].active = k => q[j].tried <= d.retired[k]
    BY DEF Aged
  <2>1. /\ lv[k] # None => lv[k] <= d.retired[k] + Lag + TokenTTL
        /\ \A j \in Healthy(m) : m[j].active = k => m[j].tried <= d.retired[k]
    BY DEF Sound, Aged
  <2>2. x.active # k
    OBVIOUS
  <2> QED
    BY <1>2, <2>1, <2>2 DEF Healthy
<1> QED
  BY <1>2, <1>4, <1>5 DEF Sound, q

\* The snapshot of a directory every published key of which is there shares it.
LEMMA SnapshotShares ==
    ASSUME NEW d, NEW m, NEW c, NEW n, NEW gone, NEW lv, Sound(d, m, c, n, gone, lv),
           NEW i \in Instance, NEW x, x.keys = d.keys, x.active = d.active, d.active # None,
           d.published # None => d.published.key \in d.keys, Shared(d, m, lv, gone)
    PROVE  Shared(d, [m EXCEPT ![i] = x], lv, gone)
<1> DEFINE q == [m EXCEPT ![i] = x]
<1>1. \A j \in Instance : q[j] = IF j = i THEN x ELSE m[j]
  BY DEF Sound
<1> HIDE DEF q
<1>2. gone = {} /\ d.active \in d.keys
  BY DEF Shared, Sound, Coherent
<1>3. \A j \in Healthy(m) :
        /\ d.active \in m[j].keys
        /\ \A k \in Key : lv[k] # None => k \in m[j].keys
        /\ \A l \in Healthy(m) : m[l].active \in m[j].keys
        /\ d.published # None =>
            \/ d.published.key \in m[j].keys
            \/ m[j].tried + Delay + Allowance <= d.published.at
  BY DEF Shared
<1>4. \A k \in Key : lv[k] # None => k \in d.keys
  BY <1>2 DEF Sound, Tokens
<1>5. \A j \in Healthy(m) : m[j].active \in d.keys
  BY <1>2 DEF Sound, Running, Healthy
<1>6. \A j \in Healthy(q) : j = i \/ j \in Healthy(m)
  BY <1>1 DEF Healthy
<1>7. \A j \in Healthy(q) : j # i => q[j] = m[j] /\ j \in Healthy(m)
  BY <1>1 DEF Healthy
<1>8. q[i] = x
  BY <1>1
<1>9. \A j \in Healthy(q) : \A l \in Healthy(q) : q[l].active \in q[j].keys
  BY <1>2, <1>3, <1>5, <1>7, <1>8
<1>10. \A j \in Healthy(q) :
        /\ d.active \in q[j].keys
        /\ \A k \in Key : lv[k] # None => k \in q[j].keys
        /\ d.published # None =>
            \/ d.published.key \in q[j].keys
            \/ q[j].tried + Delay + Allowance <= d.published.at
  BY <1>2, <1>3, <1>4, <1>7, <1>8
<1> QED
  BY <1>2, <1>9, <1>10 DEF Shared, q

\* A token is signed.
LEMMA Signing ==
    ASSUME NEW d, NEW m, NEW c, NEW n, NEW gone, NEW lv, Sound(d, m, c, n, gone, lv),
           NEW i \in Instance, m[i].healthy
    PROVE  LET v == [lv EXCEPT ![m[i].active] = c + TokenTTL] IN
           /\ Sound(d, m, c, n, gone, v)
           /\ Shared(d, m, lv, gone) => Shared(d, m, v, gone)
           /\ \A t \in Operation :
                Since(t, m, c, lv) /\ (t.stage \in {"publish", "rollback"} => t.key \in Key)
                => Since(t, m, c, v)
<1> DEFINE a == m[i].active
           v == [lv EXCEPT ![a] = c + TokenTTL]
<1>1. /\ lv \in [Key -> Nat \cup {None}] /\ c \in Nat /\ gone \in SUBSET Key
      /\ d.keys \in SUBSET Key /\ m[i].tried \in Nat /\ None \notin Nat
      /\ d.retired \in [Key -> Time \cup {None}] /\ Time \subseteq Nat
  BY SoundHas
<1>2. /\ i \in Healthy(m) /\ m[i].up /\ a \in d.keys \cup gone
      /\ m[i].tried <= c /\ c <= m[i].tried + Lag
  BY DEF Sound, Running, Healthy
<1>3. a \in Key
  BY <1>1, <1>2
<1>4. /\ v \in [Key -> Nat \cup {None}]
      /\ \A k \in Key : v[k] = IF k = a THEN c + TokenTTL ELSE lv[k]
  BY <1>1, <1>3, Constants
<1> HIDE DEF a, v
<1>5. Tokens(d, c, v, gone)
  BY <1>1, <1>2, <1>4, Constants DEF Sound, Tokens
<1>6. Aged(d, m, v, gone)
  <2> SUFFICES ASSUME NEW k \in Key \ gone, d.retired[k] # None, ~Returns(d, k)
               PROVE  /\ v[k] # None => v[k] <= d.retired[k] + Lag + TokenTTL
                      /\ \A j \in Healthy(m) : m[j].active = k => m[j].tried <= d.retired[k]
    BY DEF Aged
  <2>1. /\ lv[k] # None => lv[k] <= d.retired[k] + Lag + TokenTTL
        /\ \A j \in Healthy(m) : m[j].active = k => m[j].tried <= d.retired[k]
    BY DEF Sound, Aged
  <2>2. CASE k = a
    <3>1. m[i].tried <= d.retired[k] /\ d.retired[k] \in Nat
      BY <1>1, <1>2, <2>1, <2>2 DEF a
    <3>2. c + TokenTTL <= d.retired[k] + Lag + TokenTTL
      BY <1>1, <1>2, <3>1, Constants
    <3> QED
      BY <1>4, <2>1, <2>2, <3>2
  <2> QED
    BY <1>4, <2>1, <2>2
<1>7. Sound(d, m, c, n, gone, v)
  BY <1>4, <1>5, <1>6 DEF Sound
<1>8. Shared(d, m, lv, gone) => Shared(d, m, v, gone)
  BY <1>2, <1>4 DEF Shared, a
<1>9. ASSUME NEW t \in Operation, Since(t, m, c, lv),
             t.stage \in {"publish", "rollback"} => t.key \in Key
      PROVE  Since(t, m, c, v)
  <2>1. Begun(t) \in Int /\ m[i].tried <= Begun(t)
    <3>1. t.now \in Nat /\ Skew[t.owner] \in Nat
      BY Constants DEF Operation
    <3> QED
      BY <1>2, <1>9, <3>1 DEF Since, Begun
  <2>2. c + TokenTTL <= Begun(t) + Lag + TokenTTL
    BY <1>1, <1>2, <2>1, Constants
  <2>3. t.stage \in {"publish", "rollback"} => t.key # a
    BY <1>2, <1>9 DEF Since, a
  <2> QED
    BY <1>4, <1>9, <2>2, <2>3 DEF Since
<1> QED
  BY <1>7, <1>8, <1>9 DEF v, a

\* Time passes.
LEMMA Ticking ==
    ASSUME NEW d, NEW m, NEW c, NEW n, NEW gone, NEW lv, Sound(d, m, c, n, gone, lv),
           c < MaxTime, \A i \in Instance : m[i].up => c < m[i].tried + Lag
    PROVE  LET v == [k \in Key |-> IF lv[k] = c + 1 THEN None ELSE lv[k]] IN
           /\ Sound(d, m, c + 1, n, gone, v)
           /\ Shared(d, m, lv, gone) => Shared(d, m, v, gone)
           /\ \A t \in Operation :
                Since(t, m, c, lv) /\ (t.stage \in {"publish", "rollback"} => t.key \in Key)
                => Since(t, m, c + 1, v)
<1> DEFINE v == [k \in Key |-> IF lv[k] = c + 1 THEN None ELSE lv[k]]
<1>1. /\ lv \in [Key -> Nat \cup {None}] /\ c \in Nat /\ None \notin Nat
      /\ \A i \in Instance : m[i].tried \in Nat
  BY SoundHas
<1>2. v \in [Key -> Nat \cup {None}] /\ \A k \in Key : v[k] \in {None, lv[k]} /\ v[k] # c + 1
  BY <1>1
<1> HIDE DEF v
<1>3. c + 1 \in 0..MaxTime
  BY <1>1, Constants
<1>4. Running(d, m, c + 1, n, gone)
  BY <1>1, Constants DEF Sound, Running
<1>5. Tokens(d, c + 1, v, gone)
  <2> SUFFICES ASSUME NEW k \in Key, v[k] # None
               PROVE  /\ c + 1 < v[k] /\ v[k] <= c + 1 + TokenTTL
                      /\ k \in d.keys \cup gone
    BY DEF Tokens
  <2>1. v[k] = lv[k] /\ lv[k] \in Nat /\ lv[k] # c + 1
    BY <1>1, <1>2
  <2>2. c < lv[k] /\ lv[k] <= c + TokenTTL /\ k \in d.keys \cup gone
    BY <2>1 DEF Sound, Tokens
  <2> QED
    BY <1>1, <2>1, <2>2, Constants
<1>6. Aged(d, m, v, gone)
  <2> SUFFICES ASSUME NEW k \in Key \ gone, d.retired[k] # None, ~Returns(d, k)
               PROVE  /\ v[k] # None => v[k] <= d.retired[k] + Lag + TokenTTL
                      /\ \A j \in Healthy(m) : m[j].active = k => m[j].tried <= d.retired[k]
    BY DEF Aged
  <2> QED
    BY <1>2 DEF Sound, Aged
<1>7. Sound(d, m, c + 1, n, gone, v)
  BY <1>2, <1>3, <1>4, <1>5, <1>6 DEF Sound
<1>8. Shared(d, m, lv, gone) => Shared(d, m, v, gone)
  BY <1>2 DEF Shared
<1>9. ASSUME NEW t \in Operation, Since(t, m, c, lv),
             t.stage \in {"publish", "rollback"} => t.key \in Key
      PROVE  Since(t, m, c + 1, v)
  <2>1. Begun(t) \in Int /\ Begun(t) <= c + 1
    <3>1. t.now \in Nat /\ Skew[t.owner] \in Nat
      BY Constants DEF Operation
    <3> QED
      BY <1>1, <1>9, <3>1 DEF Since, Begun
  <2>2. /\ \A k \in Key : v[k] # None => v[k] <= Begun(t) + Lag + TokenTTL
        /\ t.stage \in {"publish", "rollback"} => v[t.key] = None
    BY <1>2, <1>9 DEF Since
  <2> QED
    BY <1>9, <2>1, <2>2 DEF Since
<1> QED
  BY <1>7, <1>8, <1>9 DEF v

-----------------------------------------------------------------------------
(* The invariant. *)

LEMMA InitInv == KeysInit => KInv
<1> SUFFICES ASSUME KeysInit PROVE KInv
  OBVIOUS
<1> DEFINE down == [up |-> FALSE, healthy |-> FALSE, keys |-> {}, active |-> None, tried |-> 0]
<1>1. /\ dir = [keys |-> {}, retired |-> [k \in Key |-> None], active |-> None,
                published |-> None, revocation |-> None]
      /\ mem = [i \in Instance |-> down]
      /\ task = NoTask /\ clock = 0 /\ minted = 0 /\ revoked = {}
      /\ used = [revocations |-> 0, faults |-> 0] /\ live = [k \in Key |-> None]
  BY DEF KeysInit
<1>2. /\ dir \in Directory /\ dir.keys = {} /\ dir.active = None /\ dir.published = None
      /\ dir.revocation = None /\ \A k \in Key : dir.retired[k] = None
  BY <1>1 DEF Directory
<1>3. /\ mem \in [Instance -> Manager]
      /\ \A i \in Instance : ~mem[i].up /\ ~mem[i].healthy
  BY <1>1 DEF Manager
<1>4. live \in [Key -> Nat \cup {None}] /\ \A k \in Key : live[k] = None
  BY <1>1
<1>5. Coherent(dir, minted, revoked)
  BY <1>1, <1>2 DEF Coherent, Journaled
<1>6. Running(dir, mem, clock, minted, revoked) /\ Tokens(dir, clock, live, revoked)
      /\ Aged(dir, mem, live, revoked) /\ Shared(dir, mem, live, revoked)
  BY <1>1, <1>2, <1>3, <1>4 DEF Running, Tokens, Aged, Shared, Healthy
<1>9. clock \in 0..MaxTime /\ minted \in 0..MaxKey /\ revoked \in SUBSET Key
  BY <1>1, Constants
<1>7. Sound(dir, mem, clock, minted, revoked, live)
  BY <1>2, <1>3, <1>4, <1>5, <1>6, <1>9 DEF Sound
<1>8. task.op # "revoke" /\ used \in [revocations : Nat, faults : Nat]
  BY <1>1 DEF NoTask
<1> QED
  BY <1>1, <1>6, <1>7, <1>8 DEF KInv

\* An operation as it begins.
Opened(i, op, key, now) ==
    [NoTask EXCEPT !.op = op, !.owner = i, !.now = now, !.key = key]

LEMMA Opening ==
    ASSUME NEW d, NEW m, NEW c, NEW n, NEW gone, NEW lv, Sound(d, m, c, n, gone, lv),
           NEW i \in Instance, NEW op \in {"start", "sync", "rotate", "revoke"},
           NEW key \in Key \cup {None}, op # "sync" => key \in Key,
           op \in {"start", "rotate"} => key = n + 1, op # "start" => m[i].up
    PROVE  LET s == Settled(Opened(i, op, key, c + Skew[i]), d) IN
           /\ s \in Operation /\ Steady(s) /\ Course(s, d, n, gone)
           /\ Since(s, m, c, lv) /\ s.op = op
<1> DEFINE t == Opened(i, op, key, c + Skew[i])
           s == Settled(t, d)
<1>1. /\ c \in 0..MaxTime /\ Skew[i] \in 0..Allowance /\ d \in Directory /\ n \in Nat
      /\ gone \in SUBSET Key /\ Coherent(d, n, gone)
      /\ \A j \in Instance : m[j].tried \in Nat
      /\ lv \in [Key -> Nat \cup {None}]
  BY Constants, SoundHas DEF Sound
<1>2. c + Skew[i] \in 0..(MaxTime + Allowance)
  BY <1>1, Constants
<1>4. t \in Operation
  <2>1. <<>> \in Seq(File) /\ 1 \in 1..(LastPhase + 1)
    BY DEF LastPhase
  <2> QED
    BY <1>2, <2>1 DEF Operation, NoTask, Opened
<1>5. /\ t.op = op /\ t.owner = i /\ t.now = c + Skew[i] /\ t.stage = "load"
      /\ t.phase = 1 /\ t.todo = <<>> /\ t.key = key
  BY DEF NoTask, Opened
<1> HIDE DEF t
<1>6. Course(t, d, n, gone)
  <2>1. Loading(t, d, n)
    BY <1>5 DEF Loading
  <2>2. op # "start" => d.active # None
    BY DEF Sound, Running
  <2> QED
    BY <1>5, <2>1, <2>2 DEF Course
<1>7. /\ s \in Operation /\ Course(s, d, n, gone) /\ Steady(s)
      /\ s.op = t.op /\ s.owner = t.owner /\ s.now = t.now
      /\ s.stage = t.stage /\ s.key = t.key /\ s.next = t.next
  BY <1>1, <1>4, <1>6, Settles
<1> HIDE DEF s
<1>8. Begun(s) = c
  BY <1>1, <1>5, <1>7 DEF Begun
<1>9. Since(s, m, c, lv)
  <2>1. \A j \in Healthy(m) : m[j].tried <= c
    BY DEF Sound, Running, Healthy
  <2>2. \A k \in Key : lv[k] # None => lv[k] <= c + Lag + TokenTTL
    <3>1. \A k \in Key : lv[k] # None => lv[k] \in Nat /\ lv[k] <= c + TokenTTL
      BY <1>1 DEF Sound, Tokens
    <3> QED
      BY <1>1, <3>1, Constants
  <2> QED
    BY <1>1, <1>5, <1>7, <1>8, <2>1, <2>2 DEF Since
<1> QED
  BY <1>5, <1>7, <1>9 DEF s, t

LEMMA BeginInv ==
    ASSUME KInv, Free, NEW i \in Instance, NEW op \in {"start", "sync", "rotate", "revoke"},
           NEW key \in Key \cup {None}, op # "sync" => key \in Key,
           op \in {"start", "rotate"} => key = minted + 1, op # "start" => mem[i].up,
           Begin(i, op, key), UNCHANGED <<dir, mem, clock, minted, revoked, live>>,
           used' \in [revocations : Nat, faults : Nat],
           used'.revocations = 0 => used.revocations = 0 /\ op # "revoke"
    PROVE  KInv'
<1>1. /\ task' \in Operation /\ Steady(task') /\ Course(task', dir, minted, revoked)
      /\ Since(task', mem, clock, live) /\ task'.op = op
  <2>1. Sound(dir, mem, clock, minted, revoked, live)
    BY DEF KInv
  <2> DEFINE s == Settled(Opened(i, op, key, clock + Skew[i]), dir)
  <2>2. task' = s
    BY DEF Begin, Opened
  <2>3. /\ s \in Operation /\ Steady(s) /\ Course(s, dir, minted, revoked)
        /\ Since(s, mem, clock, live) /\ s.op = op
    BY <2>1, Opening
  <2> HIDE DEF s
  <2> QED
    BY <2>2, <2>3
<1> QED
  BY <1>1 DEF KInv

LEMMA Beginnings ==
    ASSUME KInv, NEW i \in Instance,
           \/ Start(i) \/ Sync(i) \/ Rotate(i) \/ \E k \in Key : Revoke(i, k)
    PROVE  KInv'
<1>1. /\ used \in [revocations : Nat, faults : Nat] /\ minted \in 0..MaxKey /\ MaxKey \in Nat
  BY Constants DEF KInv, Sound
<1>2. minted < MaxKey => minted + 1 \in Key
  BY <1>1 DEF Key
<1>3. ASSUME Start(i) PROVE KInv'
  BY <1>1, <1>2, <1>3, BeginInv DEF Start
<1>4. ASSUME Sync(i) PROVE KInv'
  BY <1>1, <1>4, BeginInv DEF Sync
<1>5. ASSUME Rotate(i) PROVE KInv'
  BY <1>1, <1>2, <1>5, BeginInv DEF Rotate
<1>6. ASSUME NEW k \in Key, Revoke(i, k) PROVE KInv'
  <2>1. /\ used' = [used EXCEPT !.revocations = @ + 1]
        /\ Free /\ mem[i].up /\ Begin(i, "revoke", k)
        /\ UNCHANGED <<dir, mem, clock, minted, revoked, live>>
    BY <1>6 DEF Revoke
  <2>2. used' \in [revocations : Nat, faults : Nat] /\ used'.revocations # 0
    BY <1>1, <2>1
  <2> QED
    BY <2>1, <2>2, BeginInv
<1> QED
  BY <1>3, <1>4, <1>5, <1>6

\* The clauses about clocks go with the operation from stage to stage.
LEMMA SinceThen ==
    ASSUME NEW t, NEW m, NEW c, NEW lv, Since(t, m, c, lv),
           NEW s, s.op = t.op, s.owner = t.owner, s.now = t.now, s.key = t.key,
           \/ s.stage \notin {"publish", "rollback"}
           \/ t.stage \in {"publish", "rollback"}
           \/ lv[t.key] = None /\ \A i \in Healthy(m) : m[i].active # t.key
    PROVE  Since(s, m, c, lv)
BY DEF Since, Begun

\* The next write of an operation.
LEMMA Writing ==
    ASSUME NEW d, NEW m, NEW c, NEW n, NEW gone, NEW lv, Sound(d, m, c, n, gone, lv),
           NEW t \in Operation, Course(t, d, n, gone), Since(t, m, c, lv), t.todo # <<>>
    PROVE  LET w == Head(t.todo)
               e == Written(d, w)
               s == [t EXCEPT !.todo = Tail(t.todo)]
           IN  /\ Sound(e, m, c, Minted(w, n), Gone(w, gone), lv)
               /\ s \in Operation /\ Course(s, e, Minted(w, n), Gone(w, gone))
               /\ Since(s, m, c, lv)
               /\ t.op # "revoke" /\ Shared(d, m, lv, gone) => Shared(e, m, lv, Gone(w, gone))
<1> DEFINE w == Head(t.todo)
           s == [t EXCEPT !.todo = Tail(t.todo)]
<1>1. /\ d \in Directory /\ n \in Nat /\ gone \in SUBSET Key /\ Coherent(d, n, gone)
  BY SoundHas DEF Sound
<1>2. /\ Lawful(w, t, d, n) /\ s \in Operation
      /\ Course(s, Written(d, w), Minted(w, n), Gone(w, gone))
  BY <1>1, CourseGoesOn
<1>3. /\ s.op = t.op /\ s.owner = t.owner /\ s.now = t.now /\ s.key = t.key
      /\ s.stage = t.stage
  BY DEF Operation
<1>4. Since(s, m, c, lv)
  <2> HIDE DEF s
  <2> QED
    BY <1>3, SinceThen
<1>5. Sound(Written(d, w), m, c, Minted(w, n), Gone(w, gone), lv)
  BY <1>2, WriteKeepsSound
<1>6. t.op # "revoke" /\ Shared(d, m, lv, gone)
        => Shared(Written(d, w), m, lv, Gone(w, gone))
  BY <1>2, WriteKeepsShared
<1> QED
  BY <1>2, <1>4, <1>5, <1>6

\* A load that has nothing left to write in its phase goes on.
LEMMA Settling ==
    ASSUME NEW d, NEW m, NEW c, NEW n, NEW gone, NEW lv, Sound(d, m, c, n, gone, lv),
           NEW t \in Operation, Course(t, d, n, gone), Since(t, m, c, lv)
    PROVE  LET s == Settled(t, d) IN
           /\ s \in Operation /\ Steady(s) /\ Course(s, d, n, gone)
           /\ Since(s, m, c, lv) /\ s.op = t.op
<1> DEFINE s == Settled(t, d)
<1>1. /\ d \in Directory /\ n \in Nat /\ gone \in SUBSET Key /\ Coherent(d, n, gone)
  BY SoundHas DEF Sound
<1>2. /\ s \in Operation /\ Course(s, d, n, gone) /\ Steady(s)
      /\ s.op = t.op /\ s.owner = t.owner /\ s.now = t.now
      /\ s.stage = t.stage /\ s.key = t.key /\ s.next = t.next
  BY <1>1, Settles
<1> HIDE DEF s
<1>3. Since(s, m, c, lv)
  BY <1>2, SinceThen
<1> QED
  BY <1>2, <1>3 DEF s

LEMMA WriteInv == ASSUME KInv, Write PROVE KInv'
<1> DEFINE w == Head(task.todo)
           e == Written(dir, w)
           s == [task EXCEPT !.todo = Tail(task.todo)]
<1>1. /\ Sound(dir, mem, clock, minted, revoked, live) /\ task.todo # <<>>
      /\ used \in [revocations : Nat, faults : Nat]
      /\ used.revocations = 0 => Shared(dir, mem, live, revoked) /\ task.op # "revoke"
      /\ task \in Operation /\ Course(task, dir, minted, revoked)
      /\ Since(task, mem, clock, live)
  BY DEF KInv, Write, NoTask
<1>2. /\ dir' = e /\ minted' = Minted(w, minted) /\ revoked' = Gone(w, revoked)
      /\ task' = Settled(s, e) /\ mem' = mem /\ clock' = clock /\ used' = used /\ live' = live
  BY DEF Write, Effect, Minted, Gone
<1>3. /\ Sound(e, mem, clock, Minted(w, minted), Gone(w, revoked), live)
      /\ s \in Operation /\ Course(s, e, Minted(w, minted), Gone(w, revoked))
      /\ Since(s, mem, clock, live)
      /\ task.op # "revoke" /\ Shared(dir, mem, live, revoked)
            => Shared(e, mem, live, Gone(w, revoked))
  BY <1>1, Writing
<1>4. s.op = task.op
  BY <1>1 DEF Operation
<1> HIDE DEF s, e, w
<1> DEFINE r == Settled(s, e)
<1>5. /\ r \in Operation /\ Steady(r) /\ Course(r, e, Minted(w, minted), Gone(w, revoked))
      /\ Since(r, mem, clock, live) /\ r.op = s.op
  BY <1>3, Settling
<1> HIDE DEF r
<1>6. task' = r
  BY <1>2 DEF r
<1>7. Sound(dir', mem', clock', minted', revoked', live')
  BY <1>2, <1>3
<1>8. Steady(task') /\ Course(task', dir', minted', revoked') /\ Since(task', mem', clock', live')
  BY <1>2, <1>5, <1>6
<1>9. used'.revocations = 0 => Shared(dir', mem', live', revoked') /\ task'.op # "revoke"
  BY <1>1, <1>2, <1>3, <1>4, <1>5, <1>6
<1> QED
  BY <1>1, <1>2, <1>5, <1>6, <1>7, <1>8, <1>9 DEF KInv

\* The write that fails may have reached the disk.
MayWrite(w, d, n, gone, e, mint, dead) ==
    \/ e = d /\ mint = n /\ dead = gone
    \/ e = Written(d, w) /\ mint = Minted(w, n) /\ dead = Gone(w, gone)

\* What a failed step leaves of the row it was part of.
Remaining(todo, w) ==
    LET next == Tail(todo) IN
    IF next # <<>> /\ Head(next).key = w.key THEN Tail(next) ELSE next

LEMMA FailedCollection ==
    ASSUME NEW d \in Directory, NEW n \in Nat, NEW gone \in SUBSET Key, Coherent(d, n, gone),
           NEW t \in Operation, Course(t, d, n, gone), t.todo # <<>>,
           t.stage \in {"load", "converge"}, t.phase = LastPhase + 1,
           NEW w, w = Head(t.todo), w \in {Erase(k) : k \in Key} \cup {Unstamp(k) : k \in Key},
           w.key \in Expired(d, t.now),
           NEW e, NEW mint, NEW dead, MayWrite(w, d, n, gone, e, mint, dead)
    PROVE  LET s == [t EXCEPT !.todo = Remaining(t.todo, w)] IN
           s \in Operation /\ Course(s, e, mint, dead)
<1> DEFINE s == [t EXCEPT !.todo = Remaining(t.todo, w)]
<1>1. /\ Loading(t, d, n) /\ t.phase = 6 /\ t.todo \in Seq(File)
      /\ Pruning(t.todo, d, t.now) /\ d.revocation = None /\ d.active # None
      /\ Activated(d, t.now) /\ Recorded(d)
  BY DEF Course, Loading, LastPhase, Operation
<1>2. PICK k \in Key : w \in {Erase(k), Unstamp(k)} /\ w.key = k
  BY DEF Erase, Unstamp, Stamp
<1>3. w = Erase(k) /\ Tail(t.todo) # <<>> /\ Head(Tail(t.todo)).key = k
  BY <1>1, <1>2, PruningSkips
<1>4. /\ e.active = d.active /\ e.active \in e.keys /\ Activated(e, t.now) /\ Recorded(e)
      /\ e.published = d.published /\ e.revocation = None /\ mint = n /\ dead = gone
      /\ e.retired = d.retired /\ e.keys \in {d.keys, d.keys \ {k}}
  <2>1. CASE e = d /\ mint = n /\ dead = gone
    <3>1. d.active \in d.keys
      BY <1>1 DEF Coherent
    <3> QED
      BY <1>1, <2>1, <3>1
  <2>2. CASE e = Written(d, w) /\ mint = Minted(w, n) /\ dead = Gone(w, gone)
    <3>1. /\ e.active = d.active /\ e.active \in e.keys /\ Activated(e, t.now)
          /\ e.published = d.published /\ e.revocation = None /\ Recorded(e)
          /\ mint = n /\ dead = gone
      BY <1>1, <2>2, PruningGoesOn
    <3>2. e = [d EXCEPT !.keys = d.keys \ {k}]
      BY <1>2, <1>3, <2>2, WrittenFiles
    <3>3. e.retired = d.retired /\ e.keys = d.keys \ {k}
      BY <3>2 DEF Directory
    <3> QED
      BY <3>1, <3>3
  <2> QED
    BY <2>1, <2>2 DEF MayWrite
<1>5. /\ Tail(Tail(t.todo)) \in Seq(File) /\ Pruning(Tail(Tail(t.todo)), e, t.now)
  BY <1>1, <1>2, <1>4, PruningSkips
<1>6. Remaining(t.todo, w) = Tail(Tail(t.todo))
  BY <1>2, <1>3 DEF Remaining
<1>7. /\ s \in Operation /\ s.todo = Tail(Tail(t.todo)) /\ s.op = t.op /\ s.key = t.key
      /\ s.next = t.next /\ s.now = t.now /\ s.phase = t.phase /\ s.stage = t.stage
  BY <1>5, <1>6 DEF Operation
<1> HIDE DEF s
<1>8. Loading(s, e, n)
  BY <1>1, <1>4, <1>5, <1>7 DEF Loading
<1>9. Converging(t, d, gone) => Converging(s, e, gone)
  BY <1>1, <1>4, <1>7 DEF Converging
<1>10. Course(s, e, n, gone)
  BY <1>1, <1>4, <1>7, <1>8, <1>9 DEF Course
<1> QED
  BY <1>4, <1>7, <1>10 DEF s

LEMMA FailedPublication ==
    ASSUME NEW d \in Directory, NEW n \in Nat, NEW gone \in SUBSET Key, Coherent(d, n, gone),
           NEW t \in Operation, Course(t, d, n, gone), t.todo # <<>>, t.stage = "publish",
           NEW w, w = Head(t.todo),
           NEW e, NEW mint, NEW dead, MayWrite(w, d, n, gone, e, mint, dead)
    PROVE  LET s == [t EXCEPT !.stage = "rollback",
                        !.todo = <<Erase(t.key), Unstamp(t.key), Publish(None)>>] IN
           s \in Operation /\ Course(s, e, mint, dead) /\ Steady(s)
<1> DEFINE todo == <<Erase(t.key), Unstamp(t.key), Publish(None)>>
           s == [t EXCEPT !.stage = "rollback", !.todo = todo]
<1>1. Publishing(t, d, n) /\ t.key \in Key /\ t.op = "rotate" /\ t.key # d.active
  BY DEF Course
<1>2. todo \in Seq(File)
  BY <1>1, Files, RowsTyped
<1> HIDE DEF todo
<1>3. /\ s \in Operation /\ s.todo = todo /\ s.op = t.op /\ s.key = t.key
      /\ s.stage = "rollback"
  BY <1>2 DEF Operation
<1> HIDE DEF s
<1>4. /\ e.revocation = None /\ e.active = d.active /\ e.active # None
      /\ e.published # None => e.published.key = t.key
  <2>1. d.published # None => d.published.key = t.key
    BY <1>1 DEF Publishing, Planned
  <2>2. d.revocation = None /\ d.active # None
    BY <1>1 DEF Publishing
  <2>3. CASE e = d
    BY <2>1, <2>2, <2>3
  <2>4. CASE e = Written(d, w)
    <3> DEFINE r == [t EXCEPT !.todo = Tail(t.todo)]
    <3>1. /\ Publishing(r, e, Minted(w, n)) /\ e.active = d.active
          /\ e.published # None => e.published.key = t.key
      BY <1>1, <2>4, PublishingGoesOn
    <3> HIDE DEF r
    <3> QED
      BY <3>1 DEF Publishing
  <2> QED
    BY <2>3, <2>4 DEF MayWrite
<1>5. RollingBack(s, e)
  BY <1>3, <1>4 DEF RollingBack, todo
<1>6. Course(s, e, mint, dead) /\ Steady(s)
  BY <1>1, <1>3, <1>4, <1>5 DEF Course, Steady
<1> QED
  BY <1>3, <1>6 DEF s, todo

LEMMA FailedRollback ==
    ASSUME NEW d \in Directory, NEW n \in Nat, NEW gone \in SUBSET Key, Coherent(d, n, gone),
           NEW t \in Operation, Course(t, d, n, gone), t.todo # <<>>, t.stage = "rollback",
           NEW w, w = Head(t.todo),
           NEW e, NEW mint, NEW dead, MayWrite(w, d, n, gone, e, mint, dead)
    PROVE  LET s == [t EXCEPT !.todo = Remaining(t.todo, w)] IN
           s \in Operation /\ Course(s, e, mint, dead) /\ Steady(s)
<1> DEFINE s == [t EXCEPT !.todo = Remaining(t.todo, w)]
<1>1. /\ RollingBack(t, d) /\ t.key \in Key /\ t.op = "rotate" /\ t.key # d.active
      /\ None \notin Key
  BY NoneApart DEF Course
<1>2. Remaining(t.todo, w) \in {<<>>, <<Publish(None)>>}
  <2>1. CASE t.todo = <<Erase(t.key), Unstamp(t.key), Publish(None)>>
    BY <2>1, Rows DEF Remaining, Erase, Unstamp, Stamp
  <2>2. CASE t.todo = <<Unstamp(t.key), Publish(None)>>
    BY <1>1, <2>2, Rows DEF Remaining, Unstamp, Stamp, Publish
  <2>3. CASE t.todo = <<Publish(None)>>
    BY <2>3, Rows DEF Remaining
  <2> QED
    BY <1>1, <2>1, <2>2, <2>3 DEF RollingBack
<1>3. Remaining(t.todo, w) \in Seq(File)
  BY <1>2, Files, RowsTyped
<1>4. /\ s \in Operation /\ s.todo \in {<<>>, <<Publish(None)>>} /\ s.op = t.op
      /\ s.key = t.key /\ s.stage = "rollback"
  BY <1>2, <1>3 DEF Operation
<1> HIDE DEF s
<1>5. /\ e.revocation = None /\ e.active = d.active /\ e.active # None
      /\ e.published # None => e.published.key = t.key
  <2>1. CASE e = d
    BY <1>1, <2>1 DEF RollingBack
  <2>2. CASE e = Written(d, w)
    <3> DEFINE r == [t EXCEPT !.todo = Tail(t.todo)]
    <3>1. RollingBack(r, e) /\ e.active = d.active /\ r.key = t.key
      BY <1>1, <2>2, RollingBackGoesOn DEF Operation
    <3> HIDE DEF r
    <3> QED
      BY <3>1 DEF RollingBack
  <2> QED
    BY <2>1, <2>2 DEF MayWrite
<1>6. RollingBack(s, e)
  BY <1>4, <1>5 DEF RollingBack
<1>7. Course(s, e, mint, dead) /\ Steady(s)
  BY <1>1, <1>4, <1>5, <1>6 DEF Course, Steady
<1> QED
  BY <1>4, <1>7 DEF s

LEMMA FailedConvergence ==
    ASSUME NEW d \in Directory, NEW n \in Nat, NEW gone \in SUBSET Key, Coherent(d, n, gone),
           NEW t \in Operation, Course(t, d, n, gone), t.todo # <<>>, t.stage = "converge",
           NEW w, w = Head(t.todo),
           NEW e, NEW mint, NEW dead, MayWrite(w, d, n, gone, e, mint, dead)
    PROVE  /\ t.next \in e.keys \ {t.key} /\ Returns(e, t.next) /\ e.active # None
           /\ t.op = "revoke"
<1>1. /\ Converging(t, d, gone) /\ t.op = "revoke" /\ t.key \in Key /\ d.active # None
  BY DEF Course
<1>2. Converging(t, e, dead) /\ e.active # None
  <2>1. CASE e = d /\ dead = gone
    BY <1>1, <2>1
  <2>2. CASE e = Written(d, w) /\ dead = Gone(w, gone)
    <3> DEFINE s == [t EXCEPT !.todo = Tail(t.todo)]
    <3>1. Course(s, e, Minted(w, n), Gone(w, gone))
      BY <2>2, CourseGoesOn
    <3>2. /\ s.stage = t.stage /\ s.next = t.next /\ s.key = t.key /\ s.now = t.now
          /\ s.op = t.op
      BY DEF Operation
    <3> HIDE DEF s
    <3> QED
      BY <1>1, <2>2, <3>1, <3>2 DEF Course, Converging, Choice
  <2> QED
    BY <2>1, <2>2 DEF MayWrite
<1>3. e.revocation = None \/ e.revocation = Choice(t)
  BY <1>2 DEF Converging
<1>4. Choice(t) # None /\ Choice(t).next = t.next
  <2>1. Choice(t) \in Intent
    BY <1>1 DEF Choice, Intent, Course
  <2> QED
    BY <2>1, NoneApart DEF Choice
<1> QED
  BY <1>1, <1>2, <1>3, <1>4 DEF Converging, Returns

LEMMA WriteFailsInv == ASSUME KInv, WriteFails PROVE KInv'
<1> DEFINE w == Head(task.todo)
           i == task.owner
<1>1. /\ Sound(dir, mem, clock, minted, revoked, live) /\ task.todo # <<>>
      /\ used \in [revocations : Nat, faults : Nat]
      /\ used.revocations = 0 => Shared(dir, mem, live, revoked) /\ task.op # "revoke"
      /\ task \in Operation /\ Course(task, dir, minted, revoked) /\ Steady(task)
      /\ Since(task, mem, clock, live)
  BY DEF KInv, WriteFails, NoTask
<1>2. /\ dir \in Directory /\ minted \in Nat /\ revoked \in SUBSET Key
      /\ Coherent(dir, minted, revoked) /\ clock \in Nat
      /\ \A j \in Instance : /\ mem[j] \in Manager /\ mem[j].tried \in Nat
                             /\ mem[j].healthy \in BOOLEAN
  BY <1>1, SoundHas DEF Sound
<1>3. MayWrite(w, dir, minted, revoked, dir', minted', revoked')
  BY DEF WriteFails, Effect, MayWrite, Minted, Gone
<1>4. Failed(w) /\ clock' = clock /\ live' = live
  BY DEF WriteFails
<1>5. used' \in [revocations : Nat, faults : Nat] /\ used'.revocations = used.revocations
  <2>1. used' = [used EXCEPT !.faults = @ + 1]
    BY DEF WriteFails
  <2> QED
    BY <1>1, <2>1
<1>6. /\ i \in Instance
      /\ task.stage \in {"load", "publish", "rollback", "commit", "converge"}
      /\ task.op \in {"start", "sync", "rotate", "revoke"}
  BY <1>1 DEF Operation
<1> HIDE DEF w, i
<1>7. /\ Sound(dir', mem, clock, minted', revoked', live)
      /\ used.revocations = 0 => Shared(dir', mem, live, revoked')
  <2>1. CASE dir' = dir /\ minted' = minted /\ revoked' = revoked
    BY <1>1, <2>1
  <2>2. CASE dir' = Written(dir, w) /\ minted' = Minted(w, minted) /\ revoked' = Gone(w, revoked)
    <3>1. /\ Sound(Written(dir, w), mem, clock, Minted(w, minted), Gone(w, revoked), live)
          /\ task.op # "revoke" /\ Shared(dir, mem, live, revoked)
                => Shared(Written(dir, w), mem, live, Gone(w, revoked))
      BY <1>1, Writing DEF w
    <3> QED
      BY <1>1, <2>2, <3>1
  <2> QED
    BY <1>3, <2>1, <2>2 DEF MayWrite
\* The operation goes on.
<1>8. ASSUME mem' = mem, NEW s \in Operation, task' = s, Steady(s), s.op = task.op,
             Course(s, dir', minted', revoked'), Since(s, mem, clock, live)
      PROVE  KInv'
  BY <1>1, <1>4, <1>5, <1>7, <1>8 DEF KInv
<1>9. CASE /\ task.stage \in {"load", "converge"} /\ task.phase = LastPhase + 1
           /\ w \in {Erase(k) : k \in Key} \cup {Unstamp(k) : k \in Key}
           /\ w.key \in Expired(dir, task.now)
  <2> DEFINE s == [task EXCEPT !.todo = Remaining(task.todo, w)]
             r == Settled(s, dir')
  <2>1. task' = r /\ mem' = mem
    BY <1>4, <1>9 DEF Failed, Remaining
  <2>2. s \in Operation /\ Course(s, dir', minted', revoked')
    BY <1>1, <1>2, <1>3, <1>9, FailedCollection DEF w
  <2>3. /\ s.op = task.op /\ s.owner = task.owner /\ s.now = task.now /\ s.key = task.key
        /\ s.stage = task.stage
    BY <1>1 DEF Operation
  <2> HIDE DEF s
  <2>4. Since(s, mem, clock, live)
    BY <1>1, <2>3, SinceThen
  <2>5. /\ r \in Operation /\ Steady(r) /\ Course(r, dir', minted', revoked')
        /\ Since(r, mem, clock, live) /\ r.op = s.op
    BY <1>7, <2>2, <2>4, Settling
  <2> HIDE DEF r
  <2> QED
    BY <1>8, <2>1, <2>3, <2>5
<1>10. CASE /\ task.stage = "publish"
            /\ ~ /\ task.stage \in {"load", "converge"} /\ task.phase = LastPhase + 1
                 /\ w \in {Erase(k) : k \in Key} \cup {Unstamp(k) : k \in Key}
                 /\ w.key \in Expired(dir, task.now)
  <2> DEFINE s == [task EXCEPT !.stage = "rollback",
                      !.todo = <<Erase(task.key), Unstamp(task.key), Publish(None)>>]
  <2>1. task' = s /\ mem' = mem
    BY <1>4, <1>10 DEF Failed
  <2>2. s \in Operation /\ Course(s, dir', minted', revoked') /\ Steady(s)
    BY <1>1, <1>2, <1>3, <1>10, FailedPublication DEF w
  <2>3. /\ s.op = task.op /\ s.owner = task.owner /\ s.now = task.now /\ s.key = task.key
    BY <1>1 DEF Operation
  <2> HIDE DEF s
  <2>4. Since(s, mem, clock, live)
    BY <1>1, <1>10, <2>3, SinceThen
  <2> QED
    BY <1>8, <2>1, <2>2, <2>3, <2>4
<1>11. CASE task.stage = "rollback"
  <2> DEFINE s == [task EXCEPT !.todo = Remaining(task.todo, w)]
  <2>1. task' = s /\ mem' = mem
    BY <1>4, <1>11 DEF Failed, Remaining
  <2>2. s \in Operation /\ Course(s, dir', minted', revoked') /\ Steady(s)
    BY <1>1, <1>2, <1>3, <1>11, FailedRollback DEF w
  <2>3. /\ s.op = task.op /\ s.owner = task.owner /\ s.now = task.now /\ s.key = task.key
    BY <1>1 DEF Operation
  <2> HIDE DEF s
  <2>4. Since(s, mem, clock, live)
    BY <1>1, <1>11, <2>3, SinceThen
  <2> QED
    BY <1>8, <2>1, <2>2, <2>3, <2>4
<1>12. ASSUME task.stage = "converge",
              ~ /\ task.stage \in {"load", "converge"} /\ task.phase = LastPhase + 1
                /\ w \in {Erase(k) : k \in Key} \cup {Unstamp(k) : k \in Key}
                /\ w.key \in Expired(dir, task.now)
       PROVE  KInv'
  <2>2. /\ task.next \in dir'.keys \ {task.key} /\ Returns(dir', task.next)
        /\ dir'.active # None /\ task.op = "revoke"
    <3>1. task.stage = "converge" /\ w = Head(task.todo)
      BY <1>12 DEF w
    <3>2. /\ dir \in Directory /\ minted \in Nat /\ revoked \in SUBSET Key
          /\ Coherent(dir, minted, revoked) /\ task \in Operation
          /\ Course(task, dir, minted, revoked) /\ task.todo # <<>>
      BY <1>1, <1>2
    <3>3. PICK e : e = dir'
      OBVIOUS
    <3>4. PICK mint, dead : mint = minted' /\ dead = revoked'
      OBVIOUS
    <3>5. MayWrite(w, dir, minted, revoked, e, mint, dead)
      BY <1>3, <3>3, <3>4
    <3>6. /\ task.next \in e.keys \ {task.key} /\ Returns(e, task.next)
          /\ e.active # None /\ task.op = "revoke"
      BY <3>1, <3>2, <3>5, FailedConvergence
    <3> QED
      BY <3>3, <3>6
  <2> DEFINE x == Snapshot(mem[i], dir'.keys \ {task.key}, task.next)
  <2>1. task' = NoTask /\ mem' = [mem EXCEPT ![i] = x]
    BY <1>4, <1>12 DEF Failed, i
  <2>3. /\ mem[i].up /\ mem[i].tried <= clock /\ clock <= mem[i].tried + Lag
    BY <1>1, <1>6, <2>2 DEF Since, Sound, Running, i
  <2>4. dir'.keys \in SUBSET Key
    BY <1>7, SoundHas
  <2>5. /\ x \in Manager /\ x.up /\ x.keys = dir'.keys \ {task.key} /\ x.active = task.next
        /\ x.tried = mem[i].tried
    BY <1>2, <1>6, <2>2, <2>4 DEF Snapshot, Manager
  <2> HIDE DEF x
  <2>6. Sound(dir', [mem EXCEPT ![i] = x], clock, minted', revoked', live)
    BY <1>6, <1>7, <2>2, <2>3, <2>5, Snapshooting
  <2> QED
    BY <1>1, <1>4, <1>5, <2>1, <2>2, <2>6 DEF KInv, NoTask
<1>13. ASSUME task.stage \in {"load", "commit"},
              ~ /\ task.stage \in {"load", "converge"} /\ task.phase = LastPhase + 1
                /\ w \in {Erase(k) : k \in Key} \cup {Unstamp(k) : k \in Key}
                /\ w.key \in Expired(dir, task.now)
       PROVE  KInv'
  <2>1. /\ task' = NoTask
        /\ mem' = IF task.op = "sync"
                  THEN [mem EXCEPT ![i].healthy = FALSE, ![i].tried = clock]
                  ELSE mem
    BY <1>4, <1>13 DEF Failed, i
  <2>2. /\ Sound(dir', mem', clock, minted', revoked', live)
        /\ used.revocations = 0 => Shared(dir', mem', live, revoked')
    <3>1. CASE task.op # "sync"
      BY <1>7, <2>1, <3>1
    <3>2. CASE task.op = "sync"
      <4> DEFINE x == [mem[i] EXCEPT !.healthy = FALSE, !.tried = clock]
      <4>1. mem[i].up
        BY <1>1, <3>2 DEF Since, i
      <4>2. /\ x \in Manager /\ ~x.healthy /\ x.up = mem[i].up /\ x.active = mem[i].active
            /\ x.keys = mem[i].keys /\ x.tried = clock
        BY <1>2, <1>6 DEF Manager
      <4>3. mem' = [mem EXCEPT ![i] = x]
        BY <1>1, <1>6, <2>1, <3>2 DEF Sound
      <4> HIDE DEF x
      <4> QED
        BY <1>6, <1>7, <4>1, <4>2, <4>3, Stopping
    <3> QED
      BY <3>1, <3>2
  <2> QED
    BY <1>1, <1>4, <1>5, <2>1, <2>2 DEF KInv, NoTask
<1> QED
  BY <1>6, <1>9, <1>10, <1>11, <1>12, <1>13

LEMMA CrashInv == ASSUME KInv, NEW i \in Instance, Crash(i) PROVE KInv'
<1> DEFINE x == [up |-> FALSE, healthy |-> FALSE, keys |-> {}, active |-> None, tried |-> 0]
<1>1. /\ Sound(dir, mem, clock, minted, revoked, live)
      /\ used \in [revocations : Nat, faults : Nat]
      /\ used.revocations = 0 => Shared(dir, mem, live, revoked) /\ task.op # "revoke"
  BY DEF KInv
<1>2. /\ mem' = [mem EXCEPT ![i] = x] /\ used' = [used EXCEPT !.faults = @ + 1]
      /\ UNCHANGED <<dir, clock, minted, revoked, live>>
      /\ task' = IF task.owner = i THEN NoTask ELSE task
  BY DEF Crash
<1>3. x \in Manager /\ ~x.healthy /\ ~x.up
  BY DEF Manager
<1>4. used' \in [revocations : Nat, faults : Nat] /\ used'.revocations = used.revocations
  BY <1>1, <1>2
<1> HIDE DEF x
<1>5. /\ Sound(dir, [mem EXCEPT ![i] = x], clock, minted, revoked, live)
      /\ Shared(dir, mem, live, revoked) => Shared(dir, [mem EXCEPT ![i] = x], live, revoked)
      /\ \A t \in Operation :
            Since(t, mem, clock, live) /\ t.owner # i
            => Since(t, [mem EXCEPT ![i] = x], clock, live)
  BY <1>1, <1>3, Stopping
<1>6. CASE task = NoTask \/ task.owner = i
  <2>1. task' = NoTask
    BY <1>2, <1>6
  <2> QED
    BY <1>1, <1>2, <1>4, <1>5, <2>1 DEF KInv, NoTask
<1>7. CASE task # NoTask /\ task.owner # i
  BY <1>1, <1>2, <1>4, <1>5, <1>7 DEF KInv
<1> QED
  BY <1>6, <1>7

LEMMA SyncContendedInv == ASSUME KInv, NEW i \in Instance, SyncContended(i) PROVE KInv'
<1> DEFINE x == [mem[i] EXCEPT !.healthy = FALSE, !.tried = clock]
<1>1. /\ Sound(dir, mem, clock, minted, revoked, live)
      /\ used \in [revocations : Nat, faults : Nat]
      /\ used.revocations = 0 => Shared(dir, mem, live, revoked) /\ task.op # "revoke"
      /\ task \in Operation /\ Steady(task)
      /\ Course(task, dir, minted, revoked) /\ Since(task, mem, clock, live)
  BY DEF KInv, SyncContended, Free
<1>2. mem[i] \in Manager /\ clock \in Nat
  BY <1>1, SoundHas
<1>3. /\ x \in Manager /\ ~x.healthy /\ x.up = mem[i].up /\ x.active = mem[i].active
      /\ x.keys = mem[i].keys /\ x.tried = clock
  BY <1>2 DEF Manager
<1>4. mem[i].up /\ UNCHANGED <<dir, task, clock, minted, used, revoked, live>>
  BY DEF SyncContended
<1>5. mem' = [mem EXCEPT ![i] = x]
  BY <1>1 DEF SyncContended, Sound
<1> HIDE DEF x
<1>6. /\ Sound(dir, [mem EXCEPT ![i] = x], clock, minted, revoked, live)
      /\ Shared(dir, mem, live, revoked) => Shared(dir, [mem EXCEPT ![i] = x], live, revoked)
      /\ Since(task, [mem EXCEPT ![i] = x], clock, live)
  BY <1>1, <1>3, <1>4, Stopping
<1> QED
  BY <1>1, <1>4, <1>5, <1>6 DEF KInv

\* A load that came through its last phase leaves a directory in order.
LEMMA LoadedWell ==
    ASSUME NEW t \in Operation, NEW d, NEW n, NEW gone, Coherent(d, n, gone), Course(t, d, n, gone), Steady(t),
           t.stage \in {"load", "converge"}, t.todo = <<>>
    PROVE  /\ d.active # None /\ d.active \in d.keys /\ d.revocation = None
           /\ Activated(d, t.now) /\ Recorded(d)
           /\ d.published # None => d.published.key \in d.keys
           /\ t.op = "rotate" => t.key = n + 1
<1>1. Loading(t, d, n) /\ t.phase = 6
  BY DEF Course, Steady, LastPhase
<1>2. /\ d.active # None /\ d.revocation = None /\ Activated(d, t.now) /\ Recorded(d)
      /\ t.op = "rotate" => t.key = n + 1
  BY <1>1 DEF Loading
<1>3. d.active \in d.keys
  BY <1>2 DEF Coherent
<1> QED
  BY <1>2, <1>3 DEF Activated

\* The operation ends with the directory as the snapshot of its instance.
LEMMA AdoptInv ==
    ASSUME KInv, task # NoTask, UNCHANGED <<dir, clock, minted, used, revoked, live>>,
           task' = NoTask, NEW tried \in {mem[task.owner].tried, clock},
           mem' = [mem EXCEPT ![task.owner] =
                      [Snapshot(mem[task.owner], dir.keys, dir.active) EXCEPT !.tried = tried]],
           mem[task.owner].up \/ tried = clock,
           dir.active # None, dir.published # None => dir.published.key \in dir.keys
    PROVE  KInv'
<1> DEFINE i == task.owner
           x == [Snapshot(mem[i], dir.keys, dir.active) EXCEPT !.tried = tried]
<1>1. /\ Sound(dir, mem, clock, minted, revoked, live)
      /\ used \in [revocations : Nat, faults : Nat]
      /\ used.revocations = 0 => Shared(dir, mem, live, revoked) /\ task.op # "revoke"
      /\ task \in Operation
  BY DEF KInv
<1>2. i \in Instance
  BY <1>1 DEF Operation
<1>3. /\ mem[i] \in Manager /\ mem[i].tried \in Nat /\ clock \in Nat /\ dir.keys \in SUBSET Key
      /\ dir.active \in Key \cup {None}
  BY <1>1, <1>2, SoundHas
<1>4. /\ x \in Manager /\ x.up /\ x.keys = dir.keys /\ x.active = dir.active
      /\ x.tried = tried
  BY <1>3 DEF Snapshot, Manager
<1>5. tried <= clock /\ clock <= tried + Lag
  <2>1. mem[i].up => mem[i].tried <= clock /\ clock <= mem[i].tried + Lag
    BY <1>1, <1>2 DEF Sound, Running
  <2> QED
    BY <1>3, <2>1, Constants
<1> HIDE DEF x
<1>6. dir.active \in dir.keys
  BY <1>1 DEF Sound, Coherent
<1>7. Sound(dir, [mem EXCEPT ![i] = x], clock, minted, revoked, live)
  BY <1>1, <1>2, <1>4, <1>5, <1>6, Snapshooting DEF Returns
<1>8. used.revocations = 0 => Shared(dir, [mem EXCEPT ![i] = x], live, revoked)
  BY <1>1, <1>2, <1>4, SnapshotShares
<1>9. mem' = [mem EXCEPT ![i] = x]
  BY DEF x
<1> HIDE DEF i
<1> QED
  BY <1>1, <1>7, <1>8, <1>9 DEF KInv, NoTask

LEMMA SyncedInv == ASSUME KInv, Synced PROVE KInv'
<1>1. /\ task # NoTask /\ task.stage = "load" /\ task.todo = <<>> /\ task' = NoTask
      /\ mem' = [mem EXCEPT ![task.owner] =
                    [Snapshot(mem[task.owner], dir.keys, dir.active) EXCEPT !.tried = clock]]
      /\ UNCHANGED <<dir, clock, minted, used, revoked, live>>
  <2>1. Sound(dir, mem, clock, minted, revoked, live) /\ task # NoTask
    BY DEF KInv, Synced, Through, Done, Free
  <2>2. task.owner \in Instance /\ mem \in [Instance -> Manager]
    BY <2>1 DEF KInv, Operation, Sound
  <2> QED
    BY <2>2 DEF Synced, Through, Done, Free
<1>2. /\ task \in Operation /\ Steady(task) /\ Course(task, dir, minted, revoked)
      /\ Coherent(dir, minted, revoked)
  BY <1>1 DEF KInv, Sound
<1>3. dir.active # None /\ (dir.published # None => dir.published.key \in dir.keys)
  BY <1>1, <1>2, LoadedWell
<1> QED
  BY <1>1, <1>3, AdoptInv

\* A rotation that finds a published key, a rotation that published one and a
\* revocation that converged end alike.
LEMMA EndsInv == ASSUME KInv, RotateWaits \/ Rotated \/ Revoked PROVE KInv'
<1>1. /\ task # NoTask /\ task.todo = <<>> /\ task' = NoTask
      /\ mem' = [mem EXCEPT ![task.owner] = Snapshot(mem[task.owner], dir.keys, dir.active)]
      /\ UNCHANGED <<dir, clock, minted, used, revoked, live>>
  <2>1. Sound(dir, mem, clock, minted, revoked, live) /\ task # NoTask
    BY DEF KInv, RotateWaits, Rotated, Revoked, Through, Done, Free
  <2>2. task.owner \in Instance /\ mem \in [Instance -> Manager]
    BY <2>1 DEF KInv, Operation, Sound
  <2> QED
    BY <2>2 DEF RotateWaits, Rotated, Revoked, Through, Done, Free, Adopt
<1>2. /\ task \in Operation /\ Steady(task) /\ Course(task, dir, minted, revoked)
      /\ Sound(dir, mem, clock, minted, revoked, live) /\ Since(task, mem, clock, live)
      /\ Coherent(dir, minted, revoked)
  BY <1>1 DEF KInv, Sound
<1>3. \/ task.stage = "load" /\ task.op = "rotate"
      \/ task.stage = "publish"
      \/ task.stage = "converge"
  BY DEF RotateWaits, Rotated, Revoked, Through, Done
<1>4. task.op \in {"rotate", "revoke"}
  BY <1>2, <1>3 DEF Course
<1>5. mem[task.owner].up /\ task.owner \in Instance
  BY <1>2, <1>4 DEF Since, Operation
<1>6. dir.active # None /\ (dir.published # None => dir.published.key \in dir.keys)
  <2>1. CASE task.stage \in {"load", "converge"}
    BY <1>1, <1>2, <2>1, LoadedWell
  <2>2. CASE task.stage = "publish"
    <3>1. Publishing(task, dir, minted)
      BY <1>2, <2>2 DEF Course
    <3>2. <<>> # <<Publish(Planned(task, dir)), Put(task.key)>> /\ <<>> # <<Put(task.key)>>
      BY Rows
    <3>3. /\ dir.active # None /\ dir.published = Planned(task, dir) /\ task.key \in dir.keys
      BY <1>1, <3>1, <3>2 DEF Publishing
    <3> QED
      BY <3>3 DEF Planned
  <2> QED
    BY <1>3, <2>1, <2>2
<1>7. Snapshot(mem[task.owner], dir.keys, dir.active)
        = [Snapshot(mem[task.owner], dir.keys, dir.active) EXCEPT !.tried = mem[task.owner].tried]
  <2>1. mem[task.owner] \in Manager
    BY <1>2, <1>5, SoundHas
  <2> QED
    BY <2>1 DEF Snapshot, Manager
<1> QED
  BY <1>1, <1>5, <1>6, <1>7, AdoptInv

LEMMA GivesUpInv == ASSUME KInv, RolledBack \/ RevokeRefused PROVE KInv'
<1>1. task' = NoTask /\ UNCHANGED <<dir, mem, clock, minted, used, revoked, live>>
  BY DEF RolledBack, RevokeRefused
<1> QED
  BY <1>1 DEF KInv, NoTask

LEMMA RotatePublishesInv == ASSUME KInv, RotatePublishes PROVE KInv'
<1> DEFINE plan == Planned(task, dir)
           row == <<Publish(plan), Put(task.key)>>
           s == [task EXCEPT !.stage = "publish", !.todo = row]
<1>1. /\ task.stage = "load" /\ task.op = "rotate" /\ task.todo = <<>> /\ task # NoTask
      /\ dir.published = None /\ task' = s
      /\ UNCHANGED <<dir, mem, clock, minted, used, revoked, live>>
  BY DEF RotatePublishes, Through, Done, Free, Planned
<1>2. /\ task \in Operation /\ Steady(task) /\ Course(task, dir, minted, revoked)
      /\ Sound(dir, mem, clock, minted, revoked, live) /\ Since(task, mem, clock, live)
      /\ Coherent(dir, minted, revoked) /\ dir \in Directory /\ minted \in Nat
      /\ revoked \in SUBSET Key
  BY <1>1, SoundHas DEF KInv, Sound
<1>3. /\ dir.active # None /\ dir.active \in dir.keys /\ dir.revocation = None
      /\ Recorded(dir) /\ task.key = minted + 1
  BY <1>1, <1>2, LoadedWell
<1>4. task.key \in Key /\ dir.active \in Key
  BY <1>1, <1>2, <1>3 DEF Course, Directory
<1>5. row \in Seq(File)
  <2>1. plan \in Publication
    <3>1. task.now + Delay + Allowance \in Time
      <4>1. task.now \in 0..(MaxTime + Allowance)
        BY <1>2 DEF Operation
      <4> QED
        BY <4>1, Constants DEF Time
    <3> QED
      BY <1>4, <3>1 DEF Planned, Publication
  <2> QED
    BY <1>4, <2>1, Files, RowsTyped
<1> HIDE DEF row
<1>6. /\ s \in Operation /\ s.stage = "publish" /\ s.todo = row /\ s.op = task.op
      /\ s.owner = task.owner /\ s.now = task.now /\ s.key = task.key
  BY <1>2, <1>5 DEF Operation
<1> HIDE DEF s
<1>7. minted + 1 \notin dir.keys \cup revoked
  BY <1>2 DEF Coherent
<1>8. Planned(s, dir) = plan
  BY <1>6 DEF Planned
<1>9. Publishing(s, dir, minted)
  BY <1>1, <1>3, <1>6, <1>8 DEF Publishing, Recorded, row
<1>10. Course(s, dir, minted, revoked) /\ Steady(s)
  BY <1>1, <1>3, <1>4, <1>6, <1>7, <1>9 DEF Course, Steady
<1>11. live[task.key] = None /\ \A i \in Healthy(mem) : mem[i].active # task.key
  <2>1. Tokens(dir, clock, live, revoked) /\ Running(dir, mem, clock, minted, revoked)
    BY <1>2 DEF Sound
  <2> QED
    BY <1>3, <1>4, <1>7, <2>1 DEF Tokens, Running, Healthy
<1>12. Since(s, mem, clock, live)
  BY <1>2, <1>6, <1>11, SinceThen
<1> QED
  BY <1>1, <1>6, <1>10, <1>12 DEF KInv

\* A key revoked while it is active leaves the pointer to one that was published
\* or that retired, and a publication is dropped unless it concerns neither.
LEMMA CommitsTo ==
    ASSUME NEW d \in Directory, d.active \in d.keys, Recorded(d),
           d.published # None => d.published.key \in d.keys,
           NEW k \in d.keys, k # d.active \/ d.keys \ {k} # {},
           NEW next, next = IF k = d.active THEN Newest(d, d.keys \ {k}) ELSE d.active,
           NEW n \in Nat, NEW gone, Coherent(d, n, gone)
    PROVE  /\ next \in d.keys \ {k} /\ d.active \in {k, next}
           /\ Waiting(d) \cap {k, next} = {} /\ d.active = k => d.published = None
<1>1. CASE k # d.active
  BY <1>1
<1>2. CASE k = d.active
  <2> DEFINE spare == d.keys \ {k}
  <2>1. spare \in SUBSET d.keys /\ spare # {}
    BY <1>2
  <2>2. /\ Newest(d, spare) \in spare
        /\ \A j \in spare : d.retired[j] = None => d.retired[Newest(d, spare)] = None
    <3> HIDE DEF spare
    <3> QED
      BY <2>1, NewestIsOneOfThem
  <2>3. ASSUME Waiting(d) \cap {k, next} = {}, d.published # None PROVE FALSE
    <3>1. d.published.key \in spare /\ d.retired[d.published.key] = None
      BY <2>3 DEF Waiting, Coherent
    <3>2. d.retired[next] = None /\ next \in spare
      BY <1>2, <2>2, <3>1
    <3>3. next \notin Serving(d)
      BY <1>2, <2>3, <3>2 DEF Serving, Waiting
    <3> QED
      BY <3>2, <3>3 DEF Recorded
  <2> QED
    BY <1>2, <2>2, <2>3
<1> QED
  BY <1>1, <1>2

LEMMA RevokeCommitsInv == ASSUME KInv, RevokeCommits PROVE KInv'
<1> DEFINE next == IF task.key = dir.active THEN Newest(dir, Spare(task.key)) ELSE dir.active
           intent == [revoked |-> task.key, next |-> next]
           row == (IF Waiting(dir) \cap {task.key, next} = {} THEN <<>> ELSE <<Publish(None)>>)
                  \o <<Journal(intent), Bump>>
           s == [task EXCEPT !.stage = "commit", !.next = next, !.todo = row]
<1>1. /\ task.stage = "load" /\ task.op = "revoke" /\ task.todo = <<>> /\ task # NoTask
      /\ task.key \in dir.keys /\ (task.key # dir.active \/ dir.keys \ {task.key} # {})
      /\ task' = s
      /\ UNCHANGED <<dir, mem, clock, minted, used, revoked, live>>
  BY DEF RevokeCommits, Through, Done, Free, Spare
<1>2. /\ task \in Operation /\ Steady(task) /\ Course(task, dir, minted, revoked)
      /\ Sound(dir, mem, clock, minted, revoked, live) /\ Since(task, mem, clock, live)
      /\ Coherent(dir, minted, revoked) /\ dir \in Directory /\ minted \in Nat
  BY <1>1, SoundHas DEF KInv, Sound
<1>3. /\ dir.active # None /\ dir.active \in dir.keys /\ dir.revocation = None
      /\ Recorded(dir) /\ Activated(dir, task.now)
      /\ dir.published # None => dir.published.key \in dir.keys
  BY <1>1, <1>2, LoadedWell
<1>4. next = IF task.key = dir.active THEN Newest(dir, dir.keys \ {task.key}) ELSE dir.active
  BY DEF Spare
<1> HIDE DEF next
<1>5. /\ next \in dir.keys \ {task.key} /\ dir.active \in {task.key, next}
      /\ Waiting(dir) \cap {task.key, next} = {} /\ dir.active = task.key
            => dir.published = None
  BY <1>1, <1>2, <1>3, <1>4, CommitsTo
<1>6. task.key \in Key /\ next \in Key /\ intent \in Intent
  BY <1>1, <1>2, <1>5 DEF Directory, Intent
<1>7. \/ row = <<Publish(None), Journal(intent), Bump>>
      \/ row = <<Journal(intent), Bump>> /\ Waiting(dir) \cap {task.key, next} = {}
  <2>1. <<Journal(intent), Bump>> \in Seq(File)
    BY <1>6, Files, RowsTyped
  <2>2. <<>> \o <<Journal(intent), Bump>> = <<Journal(intent), Bump>>
    <3> HIDE DEF intent
    <3> QED
      BY <2>1, NothingJoined
  <2>3. <<Publish(None)>> \o <<Journal(intent), Bump>> = <<Publish(None), Journal(intent), Bump>>
    BY OneJoined
  <2> QED
    BY <2>2, <2>3
<1>8. row \in Seq(File)
  BY <1>6, <1>7, Files, RowsTyped
<1> HIDE DEF row
<1>9. /\ s \in Operation /\ s.stage = "commit" /\ s.todo = row /\ s.op = task.op
      /\ s.owner = task.owner /\ s.now = task.now /\ s.key = task.key /\ s.next = next
  BY <1>2, <1>6, <1>8 DEF Operation
<1> HIDE DEF s
<1>10. Choice(s) = intent
  BY <1>9 DEF Choice
<1> HIDE DEF intent
<1>11. Committing(s, dir)
  BY <1>1, <1>3, <1>5, <1>7, <1>9, <1>10 DEF Committing
<1>12. Course(s, dir, minted, revoked) /\ Steady(s)
  BY <1>1, <1>3, <1>6, <1>9, <1>11 DEF Course, Steady
<1>13. Since(s, mem, clock, live)
  BY <1>2, <1>9, SinceThen
<1>14. used'.revocations # 0 /\ used' = used
  BY <1>1 DEF KInv
<1> QED
  BY <1>1, <1>2, <1>9, <1>12, <1>13, <1>14 DEF KInv

LEMMA RevokeConvergesInv == ASSUME KInv, RevokeConverges PROVE KInv'
<1> DEFINE s == [task EXCEPT !.stage = "converge", !.phase = 1]
           r == Settled(s, dir)
<1>1. /\ task.stage = "commit" /\ task.todo = <<>> /\ task # NoTask /\ task' = r
      /\ UNCHANGED <<dir, mem, clock, minted, used, revoked, live>>
  BY DEF RevokeConverges, Done, Free
<1>2. /\ task \in Operation /\ Steady(task) /\ Course(task, dir, minted, revoked)
      /\ Sound(dir, mem, clock, minted, revoked, live) /\ Since(task, mem, clock, live)
      /\ Coherent(dir, minted, revoked) /\ dir \in Directory /\ minted \in Nat
      /\ task.op = "revoke"
  BY <1>1, SoundHas DEF KInv, Sound, Course
<1>3. /\ Committing(task, dir) /\ task.key \in Key /\ task.next \in Key
      /\ dir.active # None
  BY <1>1, <1>2 DEF Course
<1>4. dir.revocation = Choice(task)
  BY <1>1, <1>3, Rows DEF Committing
<1>5. Choice(task) # None /\ Choice(task).revoked = task.key
  <2>1. Choice(task) \in Intent
    BY <1>3 DEF Choice, Intent
  <2> QED
    BY <2>1, NoneApart DEF Choice
<1>6. task.key \in revoked
  BY <1>2, <1>4, <1>5 DEF Coherent, Journaled
<1>7. /\ s \in Operation /\ s.stage = "converge" /\ s.todo = <<>> /\ s.op = task.op
      /\ s.owner = task.owner /\ s.now = task.now /\ s.key = task.key /\ s.next = task.next
      /\ s.phase = 1
  <2>1. 1 \in 1..(LastPhase + 1)
    BY DEF LastPhase
  <2> QED
    BY <1>1, <1>2, <2>1 DEF Operation
<1> HIDE DEF s
<1>8. Converging(s, dir, revoked)
  BY <1>3, <1>4, <1>5, <1>6, <1>7 DEF Converging, Committing, Choice
<1>9. Loading(s, dir, minted)
  BY <1>2, <1>7 DEF Loading
<1>10. Course(s, dir, minted, revoked)
  BY <1>2, <1>3, <1>7, <1>8, <1>9 DEF Course
<1>11. Since(s, mem, clock, live)
  BY <1>2, <1>7, SinceThen
<1>12. /\ r \in Operation /\ Steady(r) /\ Course(r, dir, minted, revoked)
       /\ Since(r, mem, clock, live) /\ r.op = s.op
  BY <1>2, <1>7, <1>10, <1>11, Settling
<1> HIDE DEF r
<1>13. used.revocations # 0
  BY <1>1, <1>2 DEF KInv
<1> QED
  BY <1>1, <1>2, <1>12, <1>13 DEF KInv

LEMMA SignInv == ASSUME KInv, NEW i \in Instance, Sign(i) PROVE KInv'
<1> DEFINE v == [live EXCEPT ![mem[i].active] = clock + TokenTTL]
<1>1. /\ Sound(dir, mem, clock, minted, revoked, live)
      /\ used \in [revocations : Nat, faults : Nat]
      /\ used.revocations = 0 => Shared(dir, mem, live, revoked) /\ task.op # "revoke"
      /\ \/ task = NoTask
         \/ /\ task \in Operation /\ Steady(task)
            /\ Course(task, dir, minted, revoked) /\ Since(task, mem, clock, live)
  BY DEF KInv
<1>2. /\ live' = v /\ mem[i].healthy
      /\ UNCHANGED <<dir, task, mem, clock, minted, used, revoked>>
  BY DEF Sign
<1> HIDE DEF v
<1>3. /\ Sound(dir, mem, clock, minted, revoked, v)
      /\ Shared(dir, mem, live, revoked) => Shared(dir, mem, v, revoked)
      /\ \A t \in Operation :
            Since(t, mem, clock, live) /\ (t.stage \in {"publish", "rollback"} => t.key \in Key)
            => Since(t, mem, clock, v)
  BY <1>1, <1>2, Signing DEF v
<1>4. Course(task, dir, minted, revoked) /\ task.stage \in {"publish", "rollback"} => task.key \in Key
  BY DEF Course
<1> QED
  BY <1>1, <1>2, <1>3, <1>4 DEF KInv

LEMMA TickInv == ASSUME KInv, Tick PROVE KInv'
<1> DEFINE v == [k \in Key |-> IF live[k] = clock + 1 THEN None ELSE live[k]]
<1>1. /\ Sound(dir, mem, clock, minted, revoked, live)
      /\ used \in [revocations : Nat, faults : Nat]
      /\ used.revocations = 0 => Shared(dir, mem, live, revoked) /\ task.op # "revoke"
      /\ \/ task = NoTask
         \/ /\ task \in Operation /\ Steady(task)
            /\ Course(task, dir, minted, revoked) /\ Since(task, mem, clock, live)
  BY DEF KInv
<1>2. /\ live' = v /\ clock' = clock + 1 /\ clock < MaxTime
      /\ \A i \in Instance : mem[i].up => clock < mem[i].tried + Lag
      /\ UNCHANGED <<dir, task, mem, minted, used, revoked>>
  BY DEF Tick
<1> HIDE DEF v
<1>3. /\ Sound(dir, mem, clock + 1, minted, revoked, v)
      /\ Shared(dir, mem, live, revoked) => Shared(dir, mem, v, revoked)
      /\ \A t \in Operation :
            Since(t, mem, clock, live) /\ (t.stage \in {"publish", "rollback"} => t.key \in Key)
            => Since(t, mem, clock + 1, v)
  BY <1>1, <1>2, Ticking DEF v
<1>4. Course(task, dir, minted, revoked) /\ task.stage \in {"publish", "rollback"} => task.key \in Key
  BY DEF Course
<1> QED
  BY <1>1, <1>2, <1>3, <1>4 DEF KInv

LEMMA NextInv == ASSUME KInv, [KeysNext]_keyVars PROVE KInv'
<1>1. CASE UNCHANGED keyVars
  BY <1>1 DEF KInv, keyVars
<1>2. ASSUME NEW i \in Instance,
             \/ Start(i) \/ Sync(i) \/ Rotate(i) \/ \E k \in Key : Revoke(i, k)
      PROVE  KInv'
  BY <1>2, Beginnings
<1>3. ASSUME NEW i \in Instance, SyncContended(i) \/ Crash(i) \/ Sign(i) PROVE KInv'
  BY <1>3, SyncContendedInv, CrashInv, SignInv
<1>4. CASE Write \/ WriteFails
  BY <1>4, WriteInv, WriteFailsInv
<1>5. CASE Synced \/ RotateWaits \/ Rotated \/ Revoked
  BY <1>5, SyncedInv, EndsInv
<1>6. CASE RotatePublishes \/ RolledBack \/ RevokeRefused \/ RevokeCommits \/ RevokeConverges
  BY <1>6, RotatePublishesInv, GivesUpInv, RevokeCommitsInv, RevokeConvergesInv
<1>7. CASE Tick
  BY <1>7, TickInv
<1> QED
  BY <1>1, <1>2, <1>3, <1>4, <1>5, <1>6, <1>7 DEF KeysNext

\* In every reachable state: the directory is coherent, the operation that holds
\* its lock has only lawful files left to write, and the clocks of the snapshots,
\* the tokens and the retirement records agree with each other.
THEOREM KeysInvariant == KeysSpec => []KInv
<1>1. KInv /\ [KeysNext]_keyVars => KInv'
  BY NextInv
<1> QED
  BY InitInv, <1>1, PTL DEF KeysSpec

-----------------------------------------------------------------------------
(* A load that nothing interrupts. *)

\* What is left of a row of writes is a row that begins with the next.
Left(todo, m) == [k \in 1..(Len(todo) - m) |-> todo[k + m]]

LEMMA RowGoesOn ==
    ASSUME NEW todo \in Seq(File), NEW m \in 0..Len(todo)
    PROVE  /\ Left(todo, m) \in Seq(File) /\ (Left(todo, m) = <<>> <=> m = Len(todo))
           /\ m < Len(todo) => /\ Head(Left(todo, m)) = todo[m + 1]
                               /\ Tail(Left(todo, m)) = Left(todo, m + 1)
<1> DEFINE left == Left(todo, m)
<1>1. Len(todo) \in Nat /\ m \in Nat /\ Len(todo) - m \in Nat
  OBVIOUS
<1>2. \A k \in 1..(Len(todo) - m) : k + m \in 1..Len(todo) /\ todo[k + m] \in File
  BY <1>1
<1>3. left \in Seq(File) /\ Len(left) = Len(todo) - m
  BY <1>1, <1>2 DEF Left
<1>4. ASSUME m < Len(todo) PROVE Head(left) = todo[m + 1] /\ Tail(left) = Left(todo, m + 1)
  <2>1. 1 \in 1..(Len(todo) - m) /\ 1 + m = m + 1
    BY <1>1, <1>4
  <2>2. left[1] = todo[m + 1]
    BY <2>1 DEF Left
  <2>3. \A k \in 1..(Len(todo) - m) : left[k] = todo[k + m]
    BY DEF Left
  <2> HIDE DEF left
  <2>4. left # <<>>
    BY <1>1, <1>3, <1>4
  <2>5. /\ Tail(left) \in Seq(File) /\ Head(left) = left[1] /\ Len(Tail(left)) = Len(left) - 1
        /\ \A k \in 1..Len(Tail(left)) : Tail(left)[k] = left[k + 1]
    BY <1>3, <2>4, Rest
  <2>6. Tail(left) = [k \in 1..Len(Tail(left)) |-> Tail(left)[k]]
    <3>1. PICK u : u = Tail(left)
      OBVIOUS
    <3>2. u \in Seq(File)
      BY <2>5, <3>1
    <3>3. u = [k \in 1..Len(u) |-> u[k]]
      BY <3>2
    <3> QED
      BY <3>1, <3>3
  <2>7. Len(Tail(left)) = Len(todo) - (m + 1)
    BY <1>1, <1>3, <2>5
  <2>8. \A k \in 1..Len(Tail(left)) : Tail(left)[k] = todo[k + (m + 1)]
    <3> SUFFICES ASSUME NEW k \in 1..Len(Tail(left)) PROVE Tail(left)[k] = todo[k + (m + 1)]
      OBVIOUS
    <3>1. k + 1 \in 1..(Len(todo) - m) /\ (k + 1) + m = k + (m + 1)
      BY <1>1, <2>7
    <3> QED
      BY <2>3, <2>5, <3>1
  <2> QED
    BY <2>2, <2>5, <2>6, <2>7, <2>8 DEF Left
<1>5. left = <<>> <=> m = Len(todo)
  <2> HIDE DEF left
  <2> QED
    BY <1>1, <1>3
<1> QED
  BY <1>3, <1>4, <1>5

Loader(i, now, phase, todo) ==
    [op |-> "sync", owner |-> i, now |-> now, stage |-> "load",
     phase |-> phase, todo |-> todo, key |-> None, next |-> None]

LEMMA LoaderTyped ==
    ASSUME NEW i \in Instance, NEW now \in 0..MaxTime, NEW phase \in 1..(LastPhase + 1),
           NEW todo \in Seq(File)
    PROVE  LET t == Loader(i, now, phase, todo) IN
           /\ t \in Operation /\ t.op = "sync" /\ t.now = now /\ t.phase = phase
           /\ t.todo = todo /\ t.key = None /\ t.stage = "load"
<1>1. now \in 0..(MaxTime + Allowance)
  BY Constants
<1> QED
  BY <1>1 DEF Loader, Operation

LEMMA LoaderGoesOn ==
    ASSUME NEW i, NEW now, NEW phase, NEW todo, NEW rest
    PROVE  [Loader(i, now, phase, todo) EXCEPT !.todo = rest] = Loader(i, now, phase, rest)
BY DEF Loader

\* One phase carried out leaves a coherent directory ready for the next.
LEMMA PassGoesWell ==
    ASSUME NEW d \in Directory, NEW n \in 0..MaxKey, NEW gone \in SUBSET Key,
           Coherent(d, n, gone), d.active # None, NEW now \in 0..MaxTime,
           NEW p \in 1..LastPhase, Ready(p, d, now)
    PROVE  LET e == Applied(d, Work(d, p, "sync", now, None)) IN
           /\ e \in Directory /\ e.active # None /\ Ready(p + 1, e, now)
           /\ \E k \in 0..MaxKey : Coherent(e, k, gone)
<1> DEFINE todo == Work(d, p, "sync", now, None)
<1>1. PICK i \in Instance : TRUE
  BY KeysAssumption
<1>2. now \in Time /\ p + 1 \in 1..(LastPhase + 1) /\ n \in Nat
  BY Constants DEF Time, LastPhase
<1>3. todo \in Seq(File)
  BY <1>2, WorkTyped
<1> DEFINE left(m) == Left(todo, m)
           t(m) == Loader(i, now, p + 1, left(m))
<1>4. PICK e : /\ e[0] = d /\ e[Len(todo)] = Applied(d, todo)
               /\ \A m \in 1..Len(todo) : e[m] = Written(e[m - 1], todo[m])
  <2>1. Len(todo) \in Nat
    BY <1>3
  <2> HIDE DEF todo
  <2> QED
    BY <2>1, AppliedInSteps
<1> DEFINE Well(m) == /\ e[m] \in Directory /\ e[m].active # None
                      /\ \E k \in 0..MaxKey : Coherent(e[m], k, gone) /\ Loading(t(m), e[m], k)
<1> HIDE DEF todo
<1>5. left(0) = todo
  BY <1>3 DEF Left
<1>6. t(0) \in Operation /\ t(0).op = "sync" /\ t(0).now = now /\ t(0).phase = p + 1
      /\ t(0).todo = todo /\ t(0).key = None
  <2> HIDE DEF left
  <2> QED
    BY <1>2, <1>3, <1>5, LoaderTyped
<1>7. Well(0)
  <2> HIDE DEF t
  <2>1. Loading(t(0), d, n)
    BY <1>2, <1>6, PhaseBegins DEF todo
  <2> QED
    BY <1>4, <2>1
<1>8. ASSUME NEW m \in 0..Len(todo), m < Len(todo), Well(m) PROVE Well(m + 1)
  <2>1. /\ left(m) \in Seq(File) /\ left(m) # <<>>
        /\ Head(left(m)) = todo[m + 1] /\ Tail(left(m)) = left(m + 1)
    BY <1>3, <1>8, RowGoesOn
  <2> HIDE DEF left
  <2>2. /\ t(m) \in Operation /\ t(m).op = "sync" /\ t(m).todo = left(m)
    BY <1>2, <2>1, LoaderTyped
  <2>9. [t(m) EXCEPT !.todo = left(m + 1)] = t(m + 1)
    BY LoaderGoesOn
  <2> HIDE DEF t
  <2>3. PICK k \in 0..MaxKey : Coherent(e[m], k, gone) /\ Loading(t(m), e[m], k)
    BY <1>8
  <2> DEFINE w == Head(t(m).todo)
             s == [t(m) EXCEPT !.todo = Tail(t(m).todo)]
  <2>4. /\ Lawful(w, t(m), e[m], k) /\ Gone(w, gone) = gone
        /\ Loading(s, Written(e[m], w), Minted(w, k))
        /\ e[m].active # None => Written(e[m], w).active # None
    <3>1. k \in Nat /\ t(m).op # "start" /\ t(m).todo # <<>> /\ e[m] \in Directory
      BY <1>8, <2>1, <2>2, Constants
    <3>2. PICK x, u : x = e[m] /\ u = t(m)
      OBVIOUS
    <3>3. x \in Directory /\ u \in Operation /\ u.todo # <<>> /\ u.op # "start"
          /\ Coherent(x, k, gone) /\ Loading(u, x, k)
      BY <2>2, <2>3, <3>1, <3>2
    <3>4. LET v == Head(u.todo)
              r == [u EXCEPT !.todo = Tail(u.todo)]
          IN  /\ Lawful(v, u, x, k) /\ Gone(v, gone) = gone
              /\ Loading(r, Written(x, v), Minted(v, k))
              /\ x.active # None => Written(x, v).active # None
      BY <3>1, <3>3, LoadingGoesOn
    <3> QED
      BY <3>2, <3>4
  <2>5. w = todo[m + 1] /\ s = t(m + 1)
    BY <2>1, <2>2, <2>9
  <2> HIDE DEF w, s
  <2>6. /\ Written(e[m], w) \in Directory /\ Minted(w, k) \in 0..MaxKey
        /\ Coherent(Written(e[m], w), Minted(w, k), gone)
    BY <1>8, <2>2, <2>3, <2>4, WriteIsCoherent
  <2>7. e[m + 1] = Written(e[m], w)
    <3>1. m + 1 \in 1..Len(todo) /\ (m + 1) - 1 = m
      BY <1>3, <1>8
    <3> QED
      BY <1>4, <2>5, <3>1
  <2> QED
    BY <1>8, <2>4, <2>5, <2>6, <2>7
<1>9. Well(Len(todo))
  <2> DEFINE Bad == {m \in 0..Len(todo) : ~Well(m)}
  <2> HIDE DEF Well
  <2>1. CASE Bad = {}
    BY <1>3, <2>1
  <2>2. CASE Bad # {}
    <3>1. PICK m \in Bad : \A j \in Bad : m <= j
      <4>1. Bad \in SUBSET Nat
        OBVIOUS
      <4> HIDE DEF Bad
      <4> QED
        BY <2>2, <4>1, FirstFailure
    <3>2. m # 0 /\ m \in 0..Len(todo) /\ ~Well(m)
      BY <1>7, <3>1
    <3>3. m - 1 \in 0..Len(todo) /\ m - 1 < Len(todo) /\ (m - 1) + 1 = m /\ Well(m - 1)
      BY <1>3, <3>1, <3>2
    <3> QED
      BY <1>8, <3>2, <3>3
  <2> QED
    BY <2>1, <2>2
<1>10. left(Len(todo)) = <<>> /\ Len(todo) \in Nat
  BY <1>3, RowGoesOn
<1> DEFINE last == t(Len(todo))
<1>11. last \in Operation /\ last.now = now /\ last.phase = p + 1 /\ last.todo = <<>>
  <2>1. PICK z : z = left(Len(todo))
    OBVIOUS
  <2>2. z \in Seq(File)
    BY <1>10, <2>1
  <2>3. last = Loader(i, now, p + 1, z)
    BY <2>1
  <2> HIDE DEF last, left
  <2>4. last \in Operation /\ last.now = now /\ last.phase = p + 1 /\ last.todo = z
    BY <1>2, <2>2, <2>3, LoaderTyped
  <2> QED
    BY <1>10, <2>1, <2>4
<1> HIDE DEF t
<1>12. PICK k \in 0..MaxKey : Coherent(e[Len(todo)], k, gone) /\ Loading(last, e[Len(todo)], k)
  BY <1>9
<1>13. Ready(p + 1, e[Len(todo)], now)
  <2> HIDE DEF last
  <2> QED
    BY <1>11, <1>12, NothingToDo
<1> QED
  BY <1>4, <1>9, <1>12, <1>13 DEF todo

\* A whole load leaves a usable active key and none that is revoked.
LEMMA LoadedRecovers ==
    ASSUME NEW d \in Directory, NEW n \in 0..MaxKey, NEW gone \in SUBSET Key,
           Coherent(d, n, gone), d.active # None, NEW now \in 0..MaxTime
    PROVE  Loaded(d, now).active \in Loaded(d, now).keys /\ Loaded(d, now).keys \cap gone = {}
<1> DEFINE Pass(x, phase) == Applied(x, Work(x, phase, "sync", now, None))
           Fine(x, phase) == /\ x \in Directory /\ x.active # None /\ Ready(phase, x, now)
                             /\ \E k \in 0..MaxKey : Coherent(x, k, gone)
<1>1. ASSUME NEW x, NEW p \in 1..5, Fine(x, p) PROVE Fine(Pass(x, p), p + 1)
  <2>1. PICK k \in 0..MaxKey : Coherent(x, k, gone)
    BY <1>1
  <2>2. p \in 1..LastPhase
    BY DEF LastPhase
  <2> QED
    BY <1>1, <2>1, <2>2, PassGoesWell
<1>2. Fine(d, 1)
  BY DEF Ready
<1> DEFINE d1 == Pass(d, 1)
           d2 == Pass(d1, 2)
           d3 == Pass(d2, 3)
           d4 == Pass(d3, 4)
           d5 == Pass(d4, 5)
<1>3. Loaded(d, now) = d5
  BY DEF Loaded
<1> HIDE DEF Fine, Pass
<1>4. Fine(d1, 2)
  BY <1>1, <1>2
<1> HIDE DEF d1
<1>5. Fine(d2, 3)
  BY <1>1, <1>4
<1> HIDE DEF d2
<1>6. Fine(d3, 4)
  BY <1>1, <1>5
<1> HIDE DEF d3
<1>7. Fine(d4, 5)
  BY <1>1, <1>6
<1> HIDE DEF d4
<1>8. Fine(d5, 6)
  BY <1>1, <1>7
<1> HIDE DEF d5
<1>9. d5.active # None /\ d5.revocation = None /\ \E k \in 0..MaxKey : Coherent(d5, k, gone)
  BY <1>8 DEF Fine, Ready
<1>10. d5.active \in d5.keys /\ d5.keys \cap gone = {}
  BY <1>9 DEF Coherent, Journaled
<1> QED
  BY <1>3, <1>10

-----------------------------------------------------------------------------
(* What a reader wants of the invariant. *)

LEMMA InvTypes == KInv => KeysTypeOK
<1> SUFFICES ASSUME KInv PROVE KeysTypeOK
  OBVIOUS
<1>1. dir \in Directory /\ mem \in [Instance -> Manager] /\ clock \in 0..MaxTime
      /\ minted \in 0..MaxKey /\ revoked \in SUBSET Key
  BY DEF KInv, Sound
<1>2. \A i \in Instance : mem[i].keys \subseteq Key
  BY <1>1 DEF Manager
<1>3. \A i \in Instance : mem[i].up => mem[i].active \in mem[i].keys
  BY DEF KInv, Sound, Running
<1>4. /\ task.op \in {"none", "start", "sync", "rotate", "revoke"}
      /\ task.stage \in {"load", "publish", "rollback", "commit", "converge"}
  BY DEF KInv, Operation, NoTask
<1>5. /\ dir.keys \subseteq Key /\ dir.active \in Key \cup {None}
      /\ dir.retired \in [Key -> Time \cup {None}]
      /\ dir.published = None \/ dir.published \in [key : Key, previous : Key, at : Time]
      /\ dir.revocation = None \/ dir.revocation \in [revoked : Key, next : Key]
  BY <1>1 DEF Directory, Publication, Intent
<1> QED
  BY <1>1, <1>2, <1>3, <1>4, <1>5 DEF KeysTypeOK

\* The directory, the snapshots and the operation under way always have their
\* shapes, and an instance that is up has a snapshot with its signing key in it.
THEOREM KeysTypeCorrect == KeysSpec => []KeysTypeOK
BY KeysInvariant, InvTypes, PTL

LEMMA InvRecovers == KInv => DirectoryRecovers
<1> SUFFICES ASSUME KInv, dir.active # None
             PROVE  Loaded(dir, clock).active \in Loaded(dir, clock).keys
                    /\ Loaded(dir, clock).keys \cap revoked = {}
  BY DEF DirectoryRecovers
<1>1. dir \in Directory /\ clock \in 0..MaxTime /\ minted \in 0..MaxKey
      /\ revoked \in SUBSET Key /\ Coherent(dir, minted, revoked)
  BY DEF KInv, Sound
<1> QED
  BY <1>1, LoadedRecovers

\* Whatever was interrupted and wherever (a rotation between its record and its
\* key, a revocation between any two of its files, a prune, a load that repaired
\* one of those), the next load, run to its end, finds an active key in the
\* directory and leaves no revoked one there.
THEOREM DirectoryAlwaysRecovers == KeysSpec => []DirectoryRecovers
BY KeysInvariant, InvRecovers, PTL

LEMMA InvOutlives == KInv => KeysOutliveTokens
<1> SUFFICES ASSUME KInv, NEW k \in Key \ revoked, live[k] # None
             PROVE  /\ k \in dir.keys
                    /\ used.revocations = 0 =>
                        \A i \in Instance : mem[i].healthy => k \in mem[i].keys
  BY DEF KeysOutliveTokens
<1>1. k \in dir.keys
  BY DEF KInv, Sound, Tokens
<1>2. used.revocations = 0 => \A i \in Healthy(mem) : k \in mem[i].keys
  BY DEF KInv, Shared
<1> QED
  BY <1>1, <1>2 DEF Healthy

\* A key that is not revoked stays in the directory as long as a token lives that
\* it signed, through retirement, revival, a second retirement and the pruning by
\* whichever clock; and while no revocation was requested, every instance whose
\* synchronization is healthy can verify every token that lives.
THEOREM KeysAlwaysOutliveTokens == KeysSpec => []KeysOutliveTokens
BY KeysInvariant, InvOutlives, PTL

=============================================================================
