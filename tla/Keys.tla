-------------------------------- MODULE Keys --------------------------------
(***************************************************************************)
(* The RSA signing keys of src/src/keys: a directory shared by the         *)
(* instances, and the snapshot of it each instance signs and verifies      *)
(* with.  The directory holds one file per key, one retirement record per  *)
(* retired key, the pointer to the active key, the record of a published   *)
(* key that waits to be activated and the journal of a revocation.  Each   *)
(* file is written atomically, an operation writes several, and the        *)
(* process may die or a write may fail between any two of them.            *)
(*                                                                         *)
(* Every operation begins by loading the directory under its lock, and     *)
(* loading repairs what an earlier operation left half done.  The load is  *)
(* a row of phases; each reads the directory and decides the files it      *)
(* writes.  Keys are numbered in the order they are generated; the true    *)
(* time is clock, and instance i reads clock + Skew[i].                    *)
(*                                                                         *)
(* Not modelled: the purely in-memory manager, the migration of the        *)
(* single-file layout, records damaged from outside, replaced material.    *)
(***************************************************************************)
EXTENDS Naturals, Sequences, FiniteSets, SequencesExt

CONSTANTS Instance,      \* processes that share the directory
          None,          \* no key, no time, no record
          MaxKey,        \* bound: keys generated
          MaxRevocation, \* bound: revocations requested
          MaxTime,       \* bound of the true time
          MaxKeyFault,   \* bound: crashes and failed writes
          Skew,          \* how far the clock of an instance is ahead
          Delay,         \* KEY_ACTIVATION_DELAY_SECONDS
          Allowance,     \* KEY_ROTATION_SKEW_ALLOWANCE_SECONDS
          Retention,     \* KEY_ROTATION_GRACE_SECONDS
          TokenTTL,      \* the longer of the access and ID token lifetimes
          Lag,           \* ticks within which a sync worker tries again
          KeyFaults      \* which of "write", "crash" happen

\* At least one process runs, and no number or record is None.  The production
\* configuration has a positive activation delay and retains
\* keys at least as long as tokens live; how long a worker may lag behind the
\* directory it does not ask, here the retention covers that too.
ASSUME KeysAssumption ==
    /\ {MaxKey, MaxRevocation, MaxTime, MaxKeyFault, Allowance} \subseteq Nat
    /\ {Delay, TokenTTL, Lag} \subseteq Nat \ {0} /\ Delay > Lag
    /\ Retention \in Nat /\ Retention >= TokenTTL + Lag
    /\ Instance # {} /\ Skew \in [Instance -> 0..Allowance]
    /\ None \notin Nat /\ None \notin Instance
    /\ None \notin [key : Nat, previous : Nat, at : Nat]
    /\ None \notin [revoked : Nat, next : Nat]
    /\ KeyFaults \subseteq {"write", "crash"}

VARIABLES dir,      \* the shared directory
          task,     \* the operation that holds the directory lock
          mem,      \* the KeyManager of each instance
          clock,    \* the true time
          minted,   \* keys generated so far
          used,     \* revocations requested and faults so far
          revoked,  \* ghost: keys whose revocation reached the journal
          live      \* ghost: when the youngest token of each key expires

keyVars == <<dir, task, mem, clock, minted, used, revoked, live>>

Key == 1..MaxKey
Time == 0..(MaxTime + Delay + 2 * Allowance)

NoTask == [op |-> "none", owner |-> None, now |-> 0, stage |-> "load",
           phase |-> 1, todo |-> <<>>, key |-> None, next |-> None]

KeysInit ==
    /\ dir = [keys |-> {}, retired |-> [k \in Key |-> None], active |-> None,
              published |-> None, revocation |-> None]
    /\ task = NoTask
    /\ mem = [i \in Instance |-> [up |-> FALSE, healthy |-> FALSE, keys |-> {},
                                  active |-> None, tried |-> 0]]
    /\ clock = 0
    /\ minted = 0
    /\ used = [revocations |-> 0, faults |-> 0]
    /\ revoked = {}
    /\ live = [k \in Key |-> None]

-----------------------------------------------------------------------------
(* The atomic writes to the directory. *)

Put(k)        == [file |-> "key", key |-> k, to |-> TRUE]
Erase(k)      == [file |-> "key", key |-> k, to |-> FALSE]
Point(k)      == [file |-> "active", key |-> k, to |-> k]
Stamp(k, t)   == [file |-> "retired", key |-> k, to |-> t]
Unstamp(k)    == Stamp(k, None)
Publish(p)    == [file |-> "published", key |-> None, to |-> p]
Journal(r)    == [file |-> "revocation", key |-> None, to |-> r]
\* The counter of revocations: every instance keeps it, none reads it.
Bump          == [file |-> "generation", key |-> None, to |-> None]

Written(d, w) ==
    CASE w.file = "key" ->
            [d EXCEPT !.keys = IF w.to THEN @ \cup {w.key} ELSE @ \ {w.key}]
      [] w.file = "active" -> [d EXCEPT !.active = w.to]
      [] w.file = "retired" -> [d EXCEPT !.retired[w.key] = w.to]
      [] w.file = "published" -> [d EXCEPT !.published = w.to]
      [] w.file = "revocation" -> [d EXCEPT !.revocation = w.to]
      [] w.file = "generation" -> d

\* Mutant: a published key waits for the clocks only, not for the other instances.
DueAfterSkew(p, now) == now + Delay >= p.at

Due(p, now) == now >= p.at

\* The key that was in service last: one that never retired before the one
\* that retired latest, and the younger of two that compare equal.
Newest(d, keys) ==
    CHOOSE k \in keys : \A j \in keys \ {k} :
        \/ d.retired[k] = None /\ d.retired[j] # None
        \/ d.retired[k] = d.retired[j] /\ k > j
        \/ d.retired[k] # None /\ d.retired[j] # None /\ d.retired[k] > d.retired[j]

-----------------------------------------------------------------------------
(* The phases of load_materials. *)

\* Mutant: the journal is cleared before the key it names is removed.
JournalClearedFirst(d) ==
    IF d.revocation = None THEN <<>>
    ELSE LET r == d.revocation IN
        (IF d.active \in d.keys \ {r.revoked} THEN <<>>
         ELSE <<Point(r.next), Unstamp(r.next)>>)
        \o <<Journal(None), Erase(r.revoked), Unstamp(r.revoked)>>

\* Finish the revocation in the journal: give the pointer to the replacement
\* unless another usable key has it, remove the key, clear the journal last.
RevocationWrites(d) ==
    IF d.revocation = None THEN <<>>
    ELSE LET r == d.revocation IN
        (IF d.active \in d.keys \ {r.revoked} THEN <<>>
         ELSE <<Point(r.next), Unstamp(r.next)>>)
        \o <<Erase(r.revoked), Unstamp(r.revoked), Journal(None)>>

\* Activate the published key when its time has come; drop a record whose key
\* was never written; give a lost pointer back to the previous key.
ActivationWrites(d, now) ==
    IF d.published = None THEN <<>>
    ELSE LET p == d.published IN
        IF p.key \notin d.keys THEN <<Publish(None)>>
        ELSE IF Due(p, now) THEN <<Point(p.key), Publish(None)>>
        ELSE IF d.active = None /\ p.previous \in d.keys THEN <<Point(p.previous)>>
        ELSE <<>>

Waiting(d) == IF d.published = None THEN {} ELSE {d.published.key}

\* Without a pointer adopt the key that was in service last, and in an empty
\* directory generate one, but only when an instance starts.  (A rotation may as
\* well, but it never finds the directory empty.)
PointerWrites(d, op, fresh) ==
    IF d.active # None THEN <<>>
    ELSE IF d.keys \ Waiting(d) # {} THEN <<Point(Newest(d, d.keys \ Waiting(d)))>>
    ELSE IF op = "start" THEN <<Put(fresh), Point(fresh)>>
    ELSE <<>>

\* The active and the published key have no retirement record, every other key
\* has one, and no record outlives its key.
RecordWrites(d, now) ==
    LET serving == Waiting(d) \cup {d.active}
        stamped == {k \in DOMAIN d.retired : d.retired[k] # None}
    IN  SetToSeq({Unstamp(k) : k \in {j \in stamped : j \in serving \/ j \notin d.keys}}
                 \cup {Stamp(k, now) : k \in (d.keys \ serving) \ stamped})

Expired(d, now) ==
    {k \in d.keys \ {d.active} :
        d.retired[k] # None /\ now >= d.retired[k] + Retention + Allowance}

\* Remove the keys whose retention is over, each with its record.
PruneWrites(d, now) ==
    LET old == SetToSeq(Expired(d, now))
    IN  [n \in 1..2 * Len(old) |->
            LET k == old[(n + 1) \div 2] IN IF n % 2 = 1 THEN Erase(k) ELSE Unstamp(k)]

LastPhase == 5

Work(d, phase, op, now, fresh) ==
    CASE phase = 1 -> RevocationWrites(d)
      [] phase = 2 -> ActivationWrites(d, now)
      [] phase = 3 -> PointerWrites(d, op, fresh)
      [] phase = 4 -> RecordWrites(d, now)
      [] phase = 5 -> PruneWrites(d, now)

\* A load with nothing left to write in its phase goes on to the next phase in
\* which the directory needs a write.
Settled(t, d) ==
    IF t.todo # <<>> \/ t.stage \notin {"load", "converge"} THEN t
    ELSE LET busy == {p \in t.phase..LastPhase : Work(d, p, t.op, t.now, t.key) # <<>>} IN
         IF busy = {} THEN [t EXCEPT !.phase = LastPhase + 1]
         ELSE LET p == CHOOSE q \in busy : \A o \in busy : q <= o IN
              [t EXCEPT !.phase = p + 1, !.todo = Work(d, p, t.op, t.now, t.key)]

\* The directory after a row of writes.
Applied(d, writes) ==
    LET after[n \in 0..Len(writes)] ==
            IF n = 0 THEN d ELSE Written(after[n - 1], writes[n])
    IN  after[Len(writes)]

\* The directory one load leaves behind when nothing interrupts it.
Loaded(d, now) ==
    LET Pass(e, phase) == Applied(e, Work(e, phase, "sync", now, None))
    IN  Pass(Pass(Pass(Pass(Pass(d, 1), 2), 3), 4), 5)

-----------------------------------------------------------------------------
(* Beginning an operation: taking the directory lock. *)

Free == task = NoTask

Begin(i, op, key) ==
    task' = Settled([NoTask EXCEPT !.op = op, !.owner = i, !.now = clock + Skew[i],
                                   !.key = key], dir)

\* load_or_generate: a process starts.
Start(i) ==
    /\ Free /\ ~mem[i].up /\ minted < MaxKey
    /\ Begin(i, "start", minted + 1)
    /\ UNCHANGED <<dir, mem, clock, minted, used, revoked, live>>

\* One round of the sync worker.
Sync(i) ==
    /\ Free /\ mem[i].up
    /\ Begin(i, "sync", None)
    /\ UNCHANGED <<dir, mem, clock, minted, used, revoked, live>>

\* The lock is taken: the round is skipped, and signing stops until one succeeds.
SyncContended(i) ==
    /\ ~Free /\ mem[i].up /\ ~(task.owner = i /\ task.op = "sync")
    /\ mem' = [mem EXCEPT ![i].healthy = FALSE, ![i].tried = clock]
    /\ UNCHANGED <<dir, task, clock, minted, used, revoked, live>>

\* An administrator rotates the keys.
Rotate(i) ==
    /\ Free /\ mem[i].up /\ minted < MaxKey
    /\ Begin(i, "rotate", minted + 1)
    /\ UNCHANGED <<dir, mem, clock, minted, used, revoked, live>>

\* An administrator revokes key k.
Revoke(i, k) ==
    /\ Free /\ mem[i].up /\ used.revocations < MaxRevocation
    /\ Begin(i, "revoke", k)
    /\ used' = [used EXCEPT !.revocations = @ + 1]
    /\ UNCHANGED <<dir, mem, clock, minted, revoked, live>>

-----------------------------------------------------------------------------
(* Writing. *)

Effect(w) ==
    /\ dir' = Written(dir, w)
    /\ minted' = IF w.file = "key" /\ w.to THEN w.key ELSE minted
    /\ revoked' = IF w.file = "revocation" /\ w.to # None
                  THEN revoked \cup {w.to.revoked} ELSE revoked

\* The next file of the operation is written.
Write ==
    /\ task.todo # <<>>
    /\ Effect(Head(task.todo))
    /\ task' = Settled([task EXCEPT !.todo = Tail(@)], dir')
    /\ UNCHANGED <<mem, clock, used, live>>

Snapshot(m, keys, active) ==
    [m EXCEPT !.up = TRUE, !.healthy = TRUE, !.keys = keys, !.active = active]

\* What the failure of a write does to the operation.  The file may have been
\* written nevertheless.
Failed(w) ==
    LET i == task.owner
        next == Tail(task.todo)
        rest == IF next # <<>> /\ Head(next).key = w.key THEN Tail(next) ELSE next
    IN
    IF task.stage \in {"load", "converge"} /\ task.phase = LastPhase + 1
       /\ w \in {Erase(k) : k \in Key} \cup {Unstamp(k) : k \in Key}
       /\ w.key \in Expired(dir, task.now)
    THEN \* collecting an expired key is only best effort
         /\ task' = Settled([task EXCEPT !.todo = rest], dir')
         /\ UNCHANGED mem
    ELSE CASE task.stage = "publish" ->
            /\ task' = [task EXCEPT !.stage = "rollback",
                          !.todo = <<Erase(task.key), Unstamp(task.key), Publish(None)>>]
            /\ UNCHANGED mem
         [] task.stage = "rollback" ->
            /\ task' = [task EXCEPT !.todo = rest]
            /\ UNCHANGED mem
         [] task.stage = "converge" ->
            /\ task' = NoTask
            /\ mem' = [mem EXCEPT ![i] = Snapshot(@, dir'.keys \ {task.key}, task.next)]
         [] OTHER ->
            /\ task' = NoTask
            /\ mem' = IF task.op = "sync"
                      THEN [mem EXCEPT ![i].healthy = FALSE, ![i].tried = clock]
                      ELSE mem

WriteFails ==
    /\ "write" \in KeyFaults /\ used.faults < MaxKeyFault
    /\ task.todo # <<>>
    /\ LET w == Head(task.todo) IN
        /\ Effect(w) \/ UNCHANGED <<dir, minted, revoked>>
        /\ Failed(w)
    /\ used' = [used EXCEPT !.faults = @ + 1]
    /\ UNCHANGED <<clock, live>>

\* The process dies, and the lock of an operation under way with it.
Crash(i) ==
    /\ "crash" \in KeyFaults /\ used.faults < MaxKeyFault
    /\ mem[i].up \/ task.owner = i
    /\ mem' = [mem EXCEPT ![i] = [up |-> FALSE, healthy |-> FALSE, keys |-> {},
                                  active |-> None, tried |-> 0]]
    /\ task' = IF task.owner = i THEN NoTask ELSE task
    /\ used' = [used EXCEPT !.faults = @ + 1]
    /\ UNCHANGED <<dir, clock, minted, revoked, live>>

-----------------------------------------------------------------------------
(* What follows the load. *)

Done(stage) == ~Free /\ task.stage = stage /\ task.todo = <<>>
Through(stage) == Done(stage) /\ task.phase = LastPhase + 1

\* The operation publishes the directory as the snapshot of its instance.
Adopt ==
    /\ mem' = [mem EXCEPT ![task.owner] = Snapshot(@, dir.keys, dir.active)]
    /\ task' = NoTask

\* Starting and syncing end with the load.
Synced ==
    /\ Through("load") /\ task.op \in {"start", "sync"}
    /\ mem' = [mem EXCEPT ![task.owner] =
                  [Snapshot(@, dir.keys, dir.active) EXCEPT !.tried = clock]]
    /\ task' = NoTask
    /\ UNCHANGED <<dir, clock, minted, used, revoked, live>>

\* Rotating again while a published key waits generates nothing.
RotateWaits ==
    /\ Through("load") /\ task.op = "rotate" /\ dir.published # None
    /\ Adopt
    /\ UNCHANGED <<dir, clock, minted, used, revoked, live>>

\* The record that says when the new key may sign is written before the key.
RotatePublishes ==
    /\ Through("load") /\ task.op = "rotate" /\ dir.published = None
    /\ task' = [task EXCEPT !.stage = "publish",
                  !.todo = <<Publish([key |-> task.key, previous |-> dir.active,
                                      at |-> task.now + Delay + Allowance]),
                             Put(task.key)>>]
    /\ UNCHANGED <<dir, mem, clock, minted, used, revoked, live>>

Rotated ==
    /\ Done("publish")
    /\ Adopt
    /\ UNCHANGED <<dir, clock, minted, used, revoked, live>>

RolledBack ==
    /\ Done("rollback")
    /\ task' = NoTask
    /\ UNCHANGED <<dir, mem, clock, minted, used, revoked, live>>

Spare(k) == dir.keys \ {k}

\* The key is unknown, or it is the only one.
RevokeRefused ==
    /\ Through("load") /\ task.op = "revoke"
    /\ task.key \notin dir.keys \/ (task.key = dir.active /\ Spare(task.key) = {})
    /\ task' = NoTask
    /\ UNCHANGED <<dir, mem, clock, minted, used, revoked, live>>

\* The replacement of the active key is chosen, a published key that is revoked
\* or takes over at once waits no longer, and the intent goes to the journal.
RevokeCommits ==
    /\ Through("load") /\ task.op = "revoke"
    /\ task.key \in dir.keys
    /\ task.key # dir.active \/ Spare(task.key) # {}
    /\ LET next == IF task.key = dir.active THEN Newest(dir, Spare(task.key))
                   ELSE dir.active
       IN  task' = [task EXCEPT !.stage = "commit", !.next = next,
                      !.todo = (IF Waiting(dir) \cap {task.key, next} = {} THEN <<>>
                                ELSE <<Publish(None)>>)
                        \o <<Journal([revoked |-> task.key, next |-> next]), Bump>>]
    /\ UNCHANGED <<dir, mem, clock, minted, used, revoked, live>>

\* The same load that repairs a crash now carries the revocation out.
RevokeConverges ==
    /\ Done("commit")
    /\ task' = Settled([task EXCEPT !.stage = "converge", !.phase = 1], dir)
    /\ UNCHANGED <<dir, mem, clock, minted, used, revoked, live>>

Revoked ==
    /\ Through("converge")
    /\ Adopt
    /\ UNCHANGED <<dir, clock, minted, used, revoked, live>>

-----------------------------------------------------------------------------
(* Tokens and time. *)

\* A token is signed with the active key of the snapshot, if the last sync of
\* the instance succeeded.
Sign(i) ==
    /\ mem[i].up /\ mem[i].healthy
    /\ live' = [live EXCEPT ![mem[i].active] = clock + TokenTTL]
    /\ live' # live
    /\ UNCHANGED <<dir, task, mem, clock, minted, used, revoked>>

\* Time passes, but no worker goes longer than Lag without a round.
Tick ==
    /\ clock < MaxTime
    /\ \A i \in Instance : mem[i].up => clock < mem[i].tried + Lag
    /\ clock' = clock + 1
    /\ live' = [k \in Key |-> IF live[k] = clock' THEN None ELSE live[k]]
    /\ UNCHANGED <<dir, task, mem, minted, used, revoked>>

KeysNext ==
    \/ \E i \in Instance :
        \/ Start(i) \/ Sync(i) \/ SyncContended(i) \/ Rotate(i)
        \/ \E k \in Key : Revoke(i, k)
        \/ Crash(i) \/ Sign(i)
    \/ Write \/ WriteFails
    \/ Synced \/ RotateWaits \/ RotatePublishes \/ Rotated \/ RolledBack
    \/ RevokeRefused \/ RevokeCommits \/ RevokeConverges \/ Revoked
    \/ Tick

KeysSpec == KeysInit /\ [][KeysNext]_keyVars

-----------------------------------------------------------------------------
(* Properties. *)

\* The directory, the snapshots and the operation under way have their shapes.
KeysTypeOK ==
    /\ dir.keys \subseteq Key /\ dir.active \in Key \cup {None}
    /\ dir.retired \in [Key -> Time \cup {None}]
    /\ \/ dir.published = None
       \/ dir.published \in [key : Key, previous : Key, at : Time]
    /\ \/ dir.revocation = None
       \/ dir.revocation \in [revoked : Key, next : Key]
    /\ task.op \in {"none", "start", "sync", "rotate", "revoke"}
    /\ task.stage \in {"load", "publish", "rollback", "commit", "converge"}
    /\ \A i \in Instance :
        /\ mem[i].keys \subseteq Key
        /\ mem[i].up => mem[i].active \in mem[i].keys
    /\ clock \in 0..MaxTime /\ minted \in 0..MaxKey /\ revoked \subseteq Key

\* Wherever an operation is interrupted, the next load finds a usable active
\* key, never one that is revoked: no crash and no failed write leaves the
\* directory without a signing key or publishes a revoked key again (#284).
DirectoryRecovers ==
    dir.active # None =>
        LET d == Loaded(dir, clock) IN
        /\ d.active \in d.keys
        /\ d.keys \cap revoked = {}

\* A token verifies from its first to its last moment: the key that signed it
\* stays in the directory until it expires, whatever instance retires the key,
\* revives it, retires it again or collects it, by whichever clock (#298, #316);
\* and unless a revocation hurried the change of keys, every instance whose
\* synchronization is healthy has it in its snapshot, the moment it signs.
KeysOutliveTokens ==
    \A k \in Key \ revoked : live[k] # None =>
        /\ k \in dir.keys
        /\ used.revocations = 0 =>
            \A i \in Instance : mem[i].healthy => k \in mem[i].keys
=============================================================================
