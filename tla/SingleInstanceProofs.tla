---- MODULE SingleInstanceProofs ----
(* Proofs about SingleInstance, for any number of processes.                  *)
EXTENDS SingleInstance, TLAPS

\* The lock is held by whoever works or probes, and by nobody else.
LockMatches ==
  \A p \in Processes : at[p] \in {"working", "probing"} <=> lock = p

\* Whoever deletes was started to purge.
DeletersPurge == \A p \in Processes : at[p] \in Deleting => role[p] = "purge"

IInv == TypeOK /\ LockMatches /\ DeletersPurge

\* Once a purge has heard that nobody is running, nobody is.
PurgeCleared ==
  \A p, q \in Processes :
    role[p] = "purge" /\ at[p] \in Deleting \cup {"no"} => at[q] # "working"

LEMMA InitIInv == Init => IInv /\ PurgeCleared
BY ProcessAssumption DEF Init, IInv, TypeOK, LockMatches, DeletersPurge, PurgeCleared,
     Roles, Locations, Deleting

\* What a step of one process does, in the terms of the invariant.
LEMMA StepOf ==
  ASSUME IInv, NEW p \in Processes,
         \/ StartScheduler(p) \/ HandOver(p) \/ Probe(p) \/ ReleaseProbe(p)
         \/ Purge(p) \/ RemoveFiles(p) \/ End(p)
  PROVE  /\ TypeOK'
         /\ \A q \in Processes \ {p} : at'[q] = at[q] /\ role'[q] = role[q]
         /\ \/ at'[p] \in {"working", "probing"} /\ lock = Null /\ lock' = p
            \/ at'[p] \notin {"working", "probing"} /\ lock' = IF lock = p THEN Null ELSE lock
         /\ at'[p] \in Deleting => role'[p] = "purge"
         /\ at'[p] = "working" => StartScheduler(p)
         /\ at'[p] \in Deleting \cup {"no"} => role'[p] = role[p] /\ at[p] \in Deleting \cup {"no", "probing"}
<1> USE ProcessAssumption DEF IInv, TypeOK, LockMatches, DeletersPurge, Roles, Locations, Deleting, Schedulers
<1>1. CASE StartScheduler(p)
  <2>1. PICK r \in Schedulers :
          /\ role' = [role EXCEPT ![p] = r]
          /\ TryAcquire(p, "working", IF r = "job" THEN "handing" ELSE "out")
    BY <1>1 DEF StartScheduler
  <2>2. lock # p
    BY <1>1 DEF StartScheduler
  <2>3. CASE lock = Null
    BY <1>1, <2>1, <2>2, <2>3 DEF TryAcquire
  <2>4. CASE lock # Null
    BY <1>1, <2>1, <2>2, <2>4 DEF TryAcquire
  <2>5. QED
    BY <2>3, <2>4
<1>2. CASE HandOver(p)
  BY <1>2 DEF HandOver
<1>3. CASE Probe(p)
  <2>1. PICK r \in {"status", "purge"} : role' = [role EXCEPT ![p] = r]
    BY <1>3 DEF Probe
  <2>2. lock # p /\ TryAcquire(p, "probing", "yes")
    BY <1>3 DEF Probe
  <2>3. CASE lock = Null
    BY <2>1, <2>2, <2>3 DEF TryAcquire
  <2>4. CASE lock # Null
    BY <2>1, <2>2, <2>4 DEF TryAcquire
  <2>5. QED
    BY <2>3, <2>4
<1>4. CASE ReleaseProbe(p)
  BY <1>4 DEF ReleaseProbe, Unlock
<1>5. CASE Purge(p)
  BY <1>5 DEF Purge
<1>6. CASE RemoveFiles(p)
  BY <1>6 DEF RemoveFiles
<1>7. CASE End(p)
  BY <1>7 DEF End, Unlock
<1>8. QED
  BY <1>1, <1>2, <1>3, <1>4, <1>5, <1>6, <1>7

LEMMA NextIInv == IInv /\ [Next]_vars => IInv'
<1> SUFFICES ASSUME IInv, [Next]_vars PROVE IInv'
  OBVIOUS
<1>1. ASSUME NEW p \in Processes,
             \/ StartScheduler(p) \/ HandOver(p) \/ Probe(p) \/ ReleaseProbe(p)
             \/ Purge(p) \/ RemoveFiles(p) \/ End(p)
      PROVE  IInv'
  <2>1. TypeOK' /\ DeletersPurge'
    BY <1>1, StepOf DEF IInv, DeletersPurge
  <2>2. LockMatches'
    BY <1>1, StepOf, ProcessAssumption DEF IInv, LockMatches
  <2>3. QED
    BY <2>1, <2>2 DEF IInv
<1>2. CASE UNCHANGED vars
  BY <1>2 DEF vars, IInv, TypeOK, LockMatches, DeletersPurge
<1>3. QED
  BY <1>1, <1>2 DEF Next

LEMMA NextCleared ==
  ASSUME Orderly, IInv, PurgeCleared, [Next]_vars
  PROVE  PurgeCleared'
<1>1. ASSUME NEW p \in Processes,
             \/ StartScheduler(p) \/ HandOver(p) \/ Probe(p) \/ ReleaseProbe(p)
             \/ Purge(p) \/ RemoveFiles(p) \/ End(p)
      PROVE  PurgeCleared'
  <2>1. SUFFICES ASSUME NEW a \in Processes, NEW b \in Processes,
                        role'[a] = "purge", at'[a] \in Deleting \cup {"no"}, at'[b] = "working"
                 PROVE  FALSE
    BY DEF PurgeCleared
  <2>2. CASE b = p
    <3>1. StartScheduler(p) /\ a # p
      BY <1>1, <2>1, <2>2, StepOf DEF Deleting
    <3>2. role[a] = "purge" /\ at[a] # "out"
      BY <1>1, <2>1, <3>1, StepOf DEF Deleting
    <3>3. QED
      BY <3>1, <3>2 DEF StartScheduler, Purging
  <2>3. CASE b # p
    <3>1. at[b] = "working" /\ lock = b
      BY <1>1, <2>1, <2>3, StepOf DEF IInv, LockMatches
    <3>2. role[a] = "purge" /\ at[a] \in Deleting \cup {"no", "probing"}
      BY <1>1, <2>1, StepOf
    <3>3. at[a] # "probing"
      BY <3>1, <3>2 DEF IInv, LockMatches
    <3>4. QED
      BY <3>1, <3>2, <3>3 DEF PurgeCleared
  <2>4. QED
    BY <2>2, <2>3
<1>2. CASE UNCHANGED vars
  BY <1>2 DEF vars, PurgeCleared
<1>3. QED
  BY <1>1, <1>2 DEF Next

-----------------------------------------------------------------------------
(* Theorems *)

\* One process at most works as the scheduler, however many are started.
THEOREM OneSchedulerHolds == Spec => []OneScheduler
<1>1. IInv => OneScheduler
  BY DEF IInv, LockMatches, OneScheduler
<1>2. Spec => []IInv
  BY InitIInv, NextIInv, PTL DEF Spec
<1>3. QED
  BY <1>1, <1>2, PTL

\* If nobody starts a scheduler while a purge is being run, a purge never
\* deletes while a scheduler works, whenever the purge itself is started.
THEOREM PurgeAloneHolds ==
  ASSUME Orderly
  PROVE  Spec => []PurgeAlone
<1>1. IInv /\ PurgeCleared /\ [Next]_vars => IInv' /\ PurgeCleared'
  BY NextIInv, NextCleared
<1>2. IInv /\ PurgeCleared => PurgeAlone
  BY DEF IInv, DeletersPurge, PurgeCleared, PurgeAlone
<1>3. QED
  BY InitIInv, <1>1, <1>2, PTL DEF Spec
====
