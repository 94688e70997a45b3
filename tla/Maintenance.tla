---- MODULE Maintenance ----
(* The ingestion of module Ingestion together with what the operator does to  *)
(* its tables and files while the service is stopped: the end-of-term purge   *)
(* and the restoration of a backup of the database. Every step of the purge   *)
(* is its own action, so that it may be killed between any two. The operator  *)
(* keeps to the order of docs/operations.md: stop, purge or restore, start;   *)
(* module SingleInstance shows what happens otherwise.                        *)
EXTENDS Ingestion

CONSTANTS MaxPurges, MaxRestores  \* bounds: purges begun, restorations

ASSUME MaintenanceAssumption == MaxPurges \in Nat /\ MaxRestores \in Nat

VARIABLES
  up,        \* the service is started
  clerk,     \* the purge: "none", "saved", "rows" (they are deleted)
  saved,     \* the backup of the last purge, or Null
  nightly,   \* the last backup of deploy/backup.sh, or Null
  purges, restores

backups == <<saved, nightly>>
upkeep == <<up, clerk, backups, purges, restores>>
allVars == <<vars, upkeep>>

\* The academic tables, which a backup copies and the purge deletes.
Database == [copied |-> copied, known |-> known, since |-> since,
  versions |-> versions, confirmed |-> confirmed, deferred |-> deferred]

MInit ==
  /\ Init
  /\ up = TRUE /\ clerk = "none" /\ saved = Null /\ nightly = Null
  /\ purges = 0 /\ restores = 0

StartService ==
  /\ ~up /\ clerk = "none"
  /\ up' = TRUE
  /\ UNCHANGED <<vars, clerk, backups, purges, restores>>

StopService ==
  /\ up /\ pc = "idle"
  /\ up' = FALSE
  /\ UNCHANGED <<vars, clerk, backups, purges, restores>>

PurgeSave_BestEffort ==
  /\ ~up /\ clerk = "none" /\ purges < MaxPurges
  /\ saved' \in {saved, Database}
  /\ clerk' = "saved" /\ purges' = purges + 1
  /\ UNCHANGED <<vars, up, nightly, restores>>

\* purge(), first: a copy of the database, or nothing more is done.
PurgeSave ==
  /\ ~up /\ clerk = "none" /\ purges < MaxPurges
  /\ saved' = Database
  /\ clerk' = "saved" /\ purges' = purges + 1
  /\ UNCHANGED <<vars, up, nightly, restores>>

\* All the academic tables in one transaction.
DeleteRows ==
  /\ clerk = "saved"
  /\ copied' = [s \in Sources |-> 0]
  /\ known' = {}
  /\ since' = [s \in Sources |-> {}]
  /\ versions' = [s \in Sources |-> <<>>]
  /\ confirmed' = [s \in Sources |-> 0]
  /\ deferred' = [s \in Sources |-> 0]
  /\ clerk' = "rows"
  /\ UNCHANGED <<editions, originals, pc, run, stops, up, backups, purges, restores>>

Removing_Early == clerk \in {"saved", "rows"}

Removing == clerk = "rows"

\* One file after another.
RemoveOriginal(c) ==
  /\ Removing
  /\ c \in originals
  /\ originals' = originals \ {c}
  /\ UNCHANGED <<site, known, since, versions, confirmed, deferred, pc, run, stops, upkeep>>

\* The purge is through, or is killed, or a step of it fails.
PurgeOver ==
  /\ clerk # "none"
  /\ clerk' = "none"
  /\ UNCHANGED <<vars, up, backups, purges, restores>>

\* A plain copy of the file while the service writes: some pages of an earlier
\* moment.
NightlyBackup_Torn ==
  /\ restores < MaxRestores
  /\ nightly' \in {Database} \cup
       {[Database EXCEPT !.versions = b.versions] : b \in {nightly} \ {Null}}
  /\ UNCHANGED <<vars, up, clerk, saved, purges, restores>>

\* deploy/backup.sh, at any time: the database without the originals.
NightlyBackup ==
  /\ restores < MaxRestores
  /\ nightly' = Database
  /\ UNCHANGED <<vars, up, clerk, saved, purges, restores>>

\* A copy takes the place of the database; the originals stay as they are.
Restore ==
  /\ ~up /\ clerk = "none" /\ restores < MaxRestores
  /\ \E b \in {saved, nightly} \ {Null} :
       /\ copied' = b.copied /\ known' = b.known /\ since' = b.since
       /\ versions' = b.versions
       /\ confirmed' = b.confirmed /\ deferred' = b.deferred
  /\ restores' = restores + 1
  /\ UNCHANGED <<editions, originals, pc, run, stops, up, clerk, backups, purges>>

-----------------------------------------------------------------------------

Purge == PurgeSave \/ DeleteRows \/ (\E c \in Contents : RemoveOriginal(c)) \/ PurgeOver

Operator == StartService \/ StopService \/ Purge \/ NightlyBackup \/ Restore

\* The site goes on whether the service is up or not.
Service ==
  \/ \E s \in Sources : Publish(s) \/ (up /\ Sync(s))
  \/ up /\ (Job \/ Interrupted)

MNext == Operator \/ (Service /\ UNCHANGED upkeep)

MSpec == MInit /\ [][MNext]_allVars

\* A service that stays up goes on synchronising and ingesting.
MFairSpec ==
  /\ MSpec
  /\ WF_allVars(up /\ Job /\ UNCHANGED upkeep)
  /\ \A s \in Sources : WF_allVars(up /\ Sync(s) /\ UNCHANGED upkeep)
-----------------------------------------------------------------------------
(* Properties *)

\* Between its backup and its deletion, and until something else is stored, a
\* purge can be undone: what it deletes is in the backup, to the last row.
PurgeRecoverable == [][DeleteRows => saved = Database]_allVars

\* After a purge cut short between any two of its steps, every version row that
\* is left, or that the service writes later, has its file: rows go first.
PurgeKeepsOriginals == restores = 0 => VersionsHaveOriginals

\* Whatever was purged and restored in the middle of whichever run, the tables
\* agree with the site: the versions follow the editions, and what counts as
\* settled is the current edition. A backup is a copy of one moment, and no
\* mark in it is ahead of what it marks.
RestoredRecordsAgree == VersionsFollowEditions /\ SettledIsCurrent

-----------------------------------------------------------------------------
(* What the documentation says and the code does not do *)

Missing(s) == versions[s] # <<>> /\ Latest(s) \notin originals

\* operations.md: after a restoration, "the next cycle downloads again what is
\* missing": a file whose original is missing gets pending at least.
RestoredRefetched ==
  \A s \in Files : Missing(s) ~> (~Missing(s) \/ Pending(s) \/ ~up)
====
