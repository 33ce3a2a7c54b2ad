------------------------ MODULE SnapshotStoreProofs ------------------------
(***************************************************************************)
(* Proofs about SnapshotStore: the invariants hold after any failures      *)
(* for every number of retained snapshots and every run of the clock.      *)
(***************************************************************************)
EXTENDS SnapshotStore, FiniteSetTheorems, TLAPS

\* At least Retention newer snapshots are there to stay.
Superseded(s) == Cardinality(NewerSafe(s)) >= Retention

\* No name is from the future, and contents are flushed before they are published.
Names == /\ \A s \in Stamps : store[s] # "absent" \/ risk[s] # {} => s <= now
         /\ \A s \in Stamps : "contents" \notin risk[s]
         /\ name <= now

\* What a running create_snapshot may rely on.
Running ==
  /\ flushed = copied
  /\ phase = "publishing" => copied = Parts
  /\ phase \in {"staging", "publishing"} => \A s \in Listed : s < name
  /\ phase = "published" => store[name] = "whole" /\ \A s \in Listed : s <= name
  /\ phase \in {"pruning", "removing"} =>
       Safe(name) /\ \A s \in Listed : s <= name /\ (store[s] = "whole" => Safe(s))
  /\ phase = "removing" => store[victim] = "partial"

\* A removal begins, and so can be undone or interrupted, only when Retention newer
\* snapshots are safe.
Removed(s) == store[s] = "partial" \/ (store[s] = "absent" /\ risk[s] # {})

Kept == /\ \A s \in Stamps : Removed(s) => Superseded(s)
        /\ ReturnedIsKept

IInv == TypeOK /\ Names /\ Running /\ Kept

-----------------------------------------------------------------------------
(* Counting the snapshots that are there to stay.                          *)

\* The assumptions on the constants, as the steps use them.
LEMMA Constants == MaxStamp \in Nat \ {0} /\ Retention \in Nat \ {0} /\ Stamps \subseteq Nat
BY StampAssumption, RetentionAssumption DEF Stamps

\* The names are finitely many, so any set of them can be counted.
LEMMA StampsFinite == ASSUME NEW S \in SUBSET Stamps
                      PROVE  IsFiniteSet(S) /\ Cardinality(S) \in Nat
<1>1. IsFiniteSet(Stamps)
  BY Constants, FS_Interval DEF Stamps
<1> QED
  BY <1>1, FS_Subset, FS_CardinalityType

\* A larger set of safe snapshots supersedes whatever the smaller one does.
LEMMA MoreSafe == ASSUME NEW S \in SUBSET Stamps, NEW T \in SUBSET S, Cardinality(T) >= Retention
                  PROVE  Cardinality(S) >= Retention
<1>1. Cardinality(T) <= Cardinality(S)
  BY StampsFinite, FS_Subset
<1> QED
  BY <1>1, StampsFinite, Constants

\* What was superseded stays superseded while no safe snapshot is lost.
LEMMA StaysSuperseded ==
  ASSUME NEW s \in Stamps, Superseded(s), \A w \in Stamps : Safe(w) => Safe(w)'
  PROVE  Superseded(s)'
<1>1. NewerSafe(s) \subseteq NewerSafe(s)' /\ NewerSafe(s)' \subseteq Stamps
  BY DEF NewerSafe
<1> QED
  BY <1>1, MoreSafe DEF Superseded

\* Kept goes on holding when no safe snapshot is lost, none is returned and none is removed.
LEMMA KeptWhenSafeStay ==
  ASSUME Kept, \A w \in Stamps : Safe(w) => Safe(w)',
         returned' = returned, returned \subseteq Stamps,
         \A s \in Stamps : Removed(s)' => Removed(s)
  PROVE  Kept'
BY StaysSuperseded DEF Kept, ReturnedIsKept, Superseded

-----------------------------------------------------------------------------
(* The steps of create_snapshot.                                           *)

\* Staging starts under a name newer than every listed one.
LEMMA BeginKeeps == ASSUME IInv, Begin PROVE IInv'
<1> USE DEF IInv, Begin, TypeOK
<1>1. TypeOK'
  BY DEF Phases
<1>2. Names'
  BY Constants DEF Names
<1>3. Running'
  BY Constants DEF Running, Names, Listed
<1>4. Kept'
  BY KeptWhenSafeStay DEF Safe, Removed
<1> QED
  BY <1>1, <1>2, <1>3, <1>4

\* What is copied is flushed at once, so the staging directory is complete and safe.
LEMMA CopyKeeps == ASSUME IInv, NEW p \in Parts, Copy(p) PROVE IInv'
<1> USE DEF IInv, Copy, TypeOK
<1>1. TypeOK'
  BY DEF Phases, Flush
<1>2. Names'
  BY DEF Names
<1>3. Running'
  BY DEF Running, Listed, Flush, Parts
<1>4. Kept'
  BY KeptWhenSafeStay DEF Safe, Removed
<1> QED
  BY <1>1, <1>2, <1>3, <1>4

\* A new entry replaces nothing: no listed snapshot is lost by the rename.
LEMMA PublishKeeps == ASSUME IInv, Publish PROVE IInv'
<1> USE DEF IInv, TypeOK
<1>0. /\ phase = "publishing" /\ phase' = "published"
      /\ store' = [store EXCEPT ![name] = "whole"]
      /\ risk' = [risk EXCEPT ![name] = {"entry"}]
      /\ UNCHANGED <<now, name, copied, flushed, victim, returned>>
      /\ store[name] = "absent"
  BY Constants DEF Publish, Running, Listed
<1>1. TypeOK'
  BY <1>0 DEF Phases
<1>2. Names'
  BY <1>0 DEF Names
<1>3. Running'
  BY <1>0, Constants DEF Running, Listed
<1>4. Kept'
  BY <1>0, KeptWhenSafeStay DEF Safe, Removed
<1> QED
  BY <1>1, <1>2, <1>3, <1>4

\* Flushing the directory only makes snapshots safer.
LEMMA SyncKeeps == ASSUME IInv, Sync PROVE IInv'
<1> USE DEF IInv, Sync, SyncEntries, TypeOK
<1>1. TypeOK'
  BY DEF Phases
<1>2. Names'
  BY DEF Names
<1>3. Running'
  BY DEF Running, Listed, Safe, Names
<1>4. Kept'
  BY KeptWhenSafeStay DEF Safe, Removed
<1> QED
  BY <1>1, <1>2, <1>3, <1>4

\* Of more than Retention listed snapshots the oldest is superseded: either all the others
\* are safe, or one of them was removed in part and is superseded itself.
LEMMA OldestIsSuperseded ==
  ASSUME IInv, phase = "pruning", OverLimit, NEW s \in Stamps, Oldest(s)
  PROVE  Superseded(s)
<1> USE DEF IInv, TypeOK
<1>1. CASE \A u \in Listed \ {s} : store[u] = "whole"
  <2>1. Listed \ {s} \subseteq NewerSafe(s)
    <3>1. ASSUME NEW w \in Listed \ {s} PROVE w \in Stamps /\ w > s /\ Safe(w)
      BY <1>1, Constants DEF Running, Oldest, Listed, Stamps
    <3> QED
      BY <3>1 DEF NewerSafe
  <2>2. Cardinality(Listed \ {s}) >= Retention
    <3>1. IsFiniteSet(Listed) /\ Cardinality(Listed) \in Nat
      BY StampsFinite DEF Listed
    <3>2. Cardinality(Listed \ {s}) = Cardinality(Listed) - 1
      BY <3>1, FS_RemoveElement DEF Oldest
    <3> QED
      BY <3>1, <3>2, Constants DEF OverLimit
  <2> QED
    BY <2>1, <2>2, MoreSafe DEF Superseded, NewerSafe
<1>2. ASSUME NEW u \in Listed \ {s}, store[u] = "partial" PROVE Superseded(s)
  <2>1. u \in Stamps /\ Superseded(u) /\ s < u
    BY <1>2, Constants DEF Kept, Removed, Oldest, Listed
  <2>2. NewerSafe(u) \subseteq NewerSafe(s)
    BY <2>1, Constants DEF NewerSafe, Stamps
  <2> QED
    BY <2>1, <2>2, MoreSafe DEF Superseded, NewerSafe
<1> QED
  BY <1>1, <1>2 DEF Listed

\* Removing the oldest takes nothing from the count that supersedes any other snapshot.
LEMMA StartRemovingKeeps == ASSUME IInv, NEW s \in Stamps, StartRemoving(s) PROVE IInv'
<1> USE DEF IInv, TypeOK
<1>1. Superseded(s) /\ s # name
  <2>1. Superseded(s)
    BY OldestIsSuperseded DEF StartRemoving
  <2>2. NewerSafe(s) # {}
    BY <2>1, FS_EmptySet, Constants DEF Superseded
  <2>3. PICK w \in Listed : w > s
    BY <2>2 DEF NewerSafe, Safe, Listed
  <2> QED
    BY <2>1, <2>3, Constants DEF StartRemoving, Running, Listed, Stamps
<1>2. TypeOK'
  BY DEF StartRemoving, Phases
<1>3. Names'
  BY DEF StartRemoving, Names, Oldest, Listed
<1>4. Running'
  BY <1>1 DEF StartRemoving, Running, Oldest, Listed, Safe
<1>5. Kept'
  <2>1. NewerSafe(s)' = NewerSafe(s) /\ Superseded(s)'
    BY <1>1, Constants DEF StartRemoving, NewerSafe, Safe, Superseded
  <2>2. ASSUME NEW u \in Stamps, Superseded(u) PROVE Superseded(u)'
    <3>1. CASE u >= s
      <4>1. NewerSafe(u)' = NewerSafe(u)
        BY <3>1, Constants DEF StartRemoving, NewerSafe, Safe, Stamps
      <4> QED
        BY <2>2, <4>1 DEF Superseded
    <3>2. CASE u < s
      <4>1. NewerSafe(s)' \subseteq NewerSafe(u)'
        BY <3>2, Constants DEF NewerSafe, Stamps
      <4> QED
        BY <2>1, <4>1, MoreSafe DEF Superseded, NewerSafe
    <3> QED
      BY <3>1, <3>2, Constants
  <2>3. \A u \in Stamps : Removed(u)' => Superseded(u)'
    BY <2>1, <2>2 DEF StartRemoving, Removed, Kept
  <2>4. ReturnedIsKept'
    BY <2>1, <2>2 DEF StartRemoving, Kept, ReturnedIsKept, Superseded, Safe
  <2> QED
    BY <2>3, <2>4 DEF Kept
<1> QED
  BY <1>2, <1>3, <1>4, <1>5

\* A removal that ends leaves an entry that a power loss may bring back, superseded as before.
LEMMA FinishRemovingKeeps == ASSUME IInv, FinishRemoving PROVE IInv'
<1> USE DEF IInv, FinishRemoving, TypeOK
<1>1. TypeOK'
  BY DEF Phases
<1>2. Names'
  BY DEF Names, Running
<1>3. Running'
  BY DEF Running, Listed, Safe
<1>4. Kept'
  BY KeptWhenSafeStay DEF Safe, Removed, Running
<1> QED
  BY <1>1, <1>2, <1>3, <1>4

\* The snapshot returned is flushed and outlives every snapshot retention will remove.
LEMMA ReturnKeeps == ASSUME IInv, Return PROVE IInv'
<1> USE DEF IInv, Return, TypeOK
<1>1. TypeOK'
  BY DEF Phases
<1>2. Names'
  BY DEF Names
<1>3. Running'
  BY DEF Running
<1>4. Kept'
  <2>1. \A s \in Stamps : (Safe(s)' <=> Safe(s)) /\ NewerSafe(s)' = NewerSafe(s)
    BY DEF Safe, NewerSafe
  <2>2. Safe(name)
    BY DEF Running
  <2> QED
    BY <2>1, <2>2 DEF Kept, ReturnedIsKept, Removed, Superseded
<1> QED
  BY <1>1, <1>2, <1>3, <1>4

-----------------------------------------------------------------------------
(* The clock and the failures.                                             *)

\* Time passing changes no file.
LEMMA TickKeeps == ASSUME IInv, Tick PROVE IInv'
<1> USE DEF IInv, Tick, TypeOK, job
<1>1. TypeOK' /\ Names'
  BY Constants DEF Names, Stamps
<1>2. Running'
  BY DEF Running, Listed, Safe
<1>3. Kept'
  BY KeptWhenSafeStay DEF Safe, Removed
<1> QED
  BY <1>1, <1>2, <1>3

\* A call that ends early leaves the store as it is.
LEMMA AbortKeeps == ASSUME IInv, Abort PROVE IInv'
<1> USE DEF IInv, Abort, TypeOK
<1>1. TypeOK' /\ Names'
  BY DEF Phases, Names
<1>2. Running'
  BY DEF Running
<1>3. Kept'
  BY KeptWhenSafeStay DEF Safe, Removed
<1> QED
  BY <1>1, <1>2, <1>3

\* A power loss damages only what was at risk: a new entry or a removed snapshot.
LEMMA PowerLossKeeps == ASSUME IInv, PowerLoss PROVE IInv'
<1> USE DEF IInv, TypeOK
<1>0. /\ UNCHANGED <<now, name, copied, flushed, victim, returned>> /\ phase' = "idle"
      /\ store' \in [Stamps -> {"absent", "partial", "whole"}] /\ risk' = [s \in Stamps |-> {}]
      /\ \A s \in Stamps : /\ store'[s] # "absent" => store[s] # "absent" \/ risk[s] # {}
                           /\ Safe(s) => store'[s] = "whole"
                           /\ Removed(s)' => Removed(s)
  BY DEF PowerLoss, AfterPowerLoss, Safe, Removed, Names
<1>1. TypeOK' /\ Names'
  BY <1>0 DEF Names, Phases
<1>2. Running'
  BY <1>0 DEF Running
<1>3. Kept'
  BY <1>0, KeptWhenSafeStay DEF Safe
<1> QED
  BY <1>1, <1>2, <1>3

-----------------------------------------------------------------------------

\* An empty store satisfies the invariant.
THEOREM Initially == Init => IInv
BY Constants DEF Init, IInv, TypeOK, Names, Running, Kept, ReturnedIsKept, Removed, Listed, Phases,
   Stamps

\* Every step of create_snapshot, its failures and power losses preserve it.
THEOREM Inductive == IInv /\ [Next]_vars => IInv'
<1> SUFFICES ASSUME IInv, [Next]_vars PROVE IInv'
  OBVIOUS
<1>1. CASE UNCHANGED vars
  BY <1>1 DEF vars, job, IInv, TypeOK, Names, Running, Kept, ReturnedIsKept, Removed, Superseded,
     NewerSafe, Safe, Listed
<1>2. CASE Next
  BY <1>2, TickKeeps, BeginKeeps, CopyKeeps, PublishKeeps, SyncKeeps, StartRemovingKeeps,
     FinishRemovingKeeps, ReturnKeeps, AbortKeeps, PowerLossKeeps DEF Next
<1> QED
  BY <1>1, <1>2

\* Hence it always holds.
THEOREM Invariant == Spec => []IInv
BY Initially, Inductive, PTL DEF Spec

\* The store is well formed.
THEOREM TypeCorrect == Spec => []TypeOK
<1>1. IInv => TypeOK
  BY DEF IInv
<1> QED
  BY <1>1, Invariant, PTL

\* A half-removed snapshot is never the newest one: some newer one is whole and flushed.
THEOREM PartialSuperseded == Spec => []PartialIsSuperseded
<1>1. IInv => PartialIsSuperseded
  BY FS_EmptySet, Constants DEF IInv, Kept, Removed, Superseded, PartialIsSuperseded
<1> QED
  BY <1>1, Invariant, PTL

\* The snapshots a caller was told of survive failures, kills and power losses until
\* Retention newer ones do.
THEOREM ReturnedKept == Spec => []ReturnedIsKept
<1>1. IInv => ReturnedIsKept
  BY DEF IInv, Kept
<1> QED
  BY <1>1, Invariant, PTL
=============================================================================
