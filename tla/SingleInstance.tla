---- MODULE SingleInstance ----
(* The processes of python -m scheduler on one machine and the lock file      *)
(* they share: daemons and one-shot --job processes hold the lock while they  *)
(* work; --status and --purge only probe it, by taking it and letting it go,  *)
(* and act later on the answer they got. The operating system lets go of the  *)
(* lock of a process that dies. What the holder does is module Scheduler.     *)
EXTENDS Integers, FiniteSets

CONSTANTS
  Processes,  \* every process anybody starts
  Orderly,    \* nobody starts a scheduler while a purge is being run
  Null

ASSUME ProcessAssumption == Null \notin Processes /\ Orderly \in BOOLEAN

VARIABLES
  lock,    \* the process that holds the lock, or Null
  role,    \* the command line of each process
  at       \* where each process is

vars == <<lock, role, at>>

Schedulers == {"daemon", "job"}
Roles == {"daemon", "job", "status", "purge", "none"}

\* Purge: the scheduler is not running; backup; rows deleted; files removed.
Deleting == {"rows", "files"}
Locations == {"out", "working", "handing", "probing", "yes", "no"} \cup Deleting

Purging(p) == role[p] = "purge" /\ at[p] # "out"

-----------------------------------------------------------------------------

Init ==
  /\ lock = Null
  /\ role = [p \in Processes |-> "none"]
  /\ at = [p \in Processes |-> "out"]

TryAcquire_Always(p, free, taken) ==
  /\ lock' = p
  /\ at' = [at EXCEPT ![p] = free]

\* try_acquire(): never waits.
TryAcquire(p, free, taken) ==
  IF lock = Null
  THEN lock' = p /\ at' = [at EXCEPT ![p] = free]
  ELSE lock' = lock /\ at' = [at EXCEPT ![p] = taken]

\* run_daemon() ends when the lock is taken, run_manual() hands over.
StartScheduler(p) ==
  /\ at[p] = "out"
  /\ Orderly => \A q \in Processes : ~Purging(q)
  /\ \E r \in Schedulers :
       /\ role' = [role EXCEPT ![p] = r]
       /\ TryAcquire(p, "working", IF r = "job" THEN "handing" ELSE "out")

HandOver(p) ==
  /\ at[p] = "handing"
  /\ at' = [at EXCEPT ![p] = "out"]
  /\ UNCHANGED <<lock, role>>

\* is_locked(), first half: the probe takes the lock if it can.
Probe(p) ==
  /\ at[p] = "out"
  /\ \E r \in {"status", "purge"} : role' = [role EXCEPT ![p] = r]
  /\ TryAcquire(p, "probing", "yes")

Unlock(p) == lock' = IF lock = p THEN Null ELSE lock

\* ... second half: it lets go, and nobody was running.
ReleaseProbe(p) ==
  /\ at[p] = "probing"
  /\ Unlock(p)
  /\ at' = [at EXCEPT ![p] = "no"]
  /\ UNCHANGED role

Purge_Unguarded(p) ==
  /\ role[p] = "purge" /\ at[p] \in {"yes", "no"}
  /\ at' = [at EXCEPT ![p] = "rows"]
  /\ UNCHANGED <<lock, role>>

\* run_purge() after the probe: refused, or backup and then the deletion.
Purge(p) ==
  /\ role[p] = "purge" /\ at[p] = "no"
  /\ at' = [at EXCEPT ![p] = "rows"]
  /\ UNCHANGED <<lock, role>>

RemoveFiles(p) ==
  /\ at[p] = "rows"
  /\ at' = [at EXCEPT ![p] = "files"]
  /\ UNCHANGED <<lock, role>>

\* Any process may end where it is, by itself or not: its lock goes with it.
End(p) ==
  /\ at[p] # "out"
  /\ Unlock(p)
  /\ at' = [at EXCEPT ![p] = "out"]
  /\ UNCHANGED role

Next ==
  \E p \in Processes :
    \/ StartScheduler(p) \/ HandOver(p) \/ Probe(p) \/ ReleaseProbe(p)
    \/ Purge(p) \/ RemoveFiles(p) \/ End(p)

Spec == Init /\ [][Next]_vars
-----------------------------------------------------------------------------
(* Properties *)

TypeOK ==
  /\ lock \in Processes \cup {Null}
  /\ role \in [Processes -> Roles]
  /\ at \in [Processes -> Locations]

\* max_concurrent_jobs = 1 across processes: whatever is started, probed and
\* killed, one process at most works as the scheduler.
OneScheduler ==
  \A p, q \in Processes : at[p] = "working" /\ at[q] = "working" => p = q

\* A purge never deletes while a scheduler works: run_purge()'s guard is enough
\* if, and only if, nobody starts a scheduler once the purge is under way.
PurgeAlone ==
  \A p, q \in Processes : ~(at[p] \in Deleting /\ at[q] = "working")
====
