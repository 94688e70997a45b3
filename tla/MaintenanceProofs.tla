---- MODULE MaintenanceProofs ----
(* Proofs about Maintenance, for any sources, contents and bounds: they build *)
(* on the step lemma of IngestionProofs.                                      *)
EXTENDS Maintenance, IngestionProofs

-----------------------------------------------------------------------------
(* The inductive invariant *)

\* Between two runs nothing is left to be attempted.
AtRest == pc = "idle" => todo = {}

\* The operator works on a service that is stopped, and it stops between runs.
Stopped == /\ clerk # "none" => ~up
           /\ ~up => pc = "idle"

\* From the backup to the deletion nobody writes to the database.
SavedIsCurrent == clerk = "saved" => saved = Database

NoRows == \A s \in Sources : versions[s] = <<>>

\* Files are removed when no row is left to miss them.
RowsFirst == clerk = "rows" => NoRows

\* A copy of the tables says of the site what the tables themselves must say.
Agrees(d) ==
  /\ d.copied \in [Sources -> Nat] /\ \A s \in Sources : d.copied[s] <= Len(editions[s])
  /\ d.known \subseteq Sources /\ d.since \in [Sources -> SUBSET Sources]
  /\ d.versions \in [Sources -> Seq(Contents)]
  /\ d.confirmed \in [Sources -> Nat] /\ d.deferred \in [Sources -> Nat]
  /\ \A s \in Sources :
       /\ d.confirmed[s] <= d.copied[s]
       /\ d.confirmed[s] > 0 =>
            /\ s \in Files /\ d.versions[s] # <<>>
            /\ Taken(s, d.versions[s][Len(d.versions[s])], d.confirmed[s])
       /\ d.deferred[s] > 0 =>
            s \in Files /\ \E n \in d.deferred[s]..Len(editions[s]) : editions[s][n].big
       /\ Follows(d.versions[s], editions[s],
                  IF s \in Urls THEN d.copied[s] ELSE Len(editions[s]))

BackupsAgree == \A b \in {saved, nightly} \ {Null} : Agrees(b)

\* A restored database may miss files, so what ingestion keeps of them is
\* claimed before the first restoration only.
FilesKept == restores = 0 => OriginalFirst /\ VersionsHaveOriginals /\ RowsFirst

MInv ==
  /\ restores \in Nat
  /\ AtRest /\ Stopped /\ SavedIsCurrent
  /\ Records /\ BackupsAgree /\ FilesKept

-----------------------------------------------------------------------------
(* Copies of the tables *)

\* More editions change nothing for the versions that follow those there were.
LEMMA FollowsLonger ==
  ASSUME NEW vs \in Seq(Contents), NEW es \in Seq(Editions), NEW fs \in Seq(Editions),
         Len(es) <= Len(fs), \A n \in 1..Len(es) : fs[n] = es[n],
         NEW m \in Nat, NEW k \in Nat, m <= Len(es), m <= k, Follows(vs, es, m)
  PROVE  Follows(vs, fs, k)
<1>1. PICK g \in [DOMAIN vs -> 1..m] :
        /\ \A i \in DOMAIN vs : vs[i] = es[g[i]].content
        /\ \A i \in DOMAIN vs : i > 1 => g[i - 1] < g[i]
  BY DEF Follows
<1>2. g \in [DOMAIN vs -> 1..k] /\ \A i \in DOMAIN vs : g[i] \in 1..Len(es)
  BY <1>1
<1>3. \A i \in DOMAIN vs : vs[i] = fs[g[i]].content
  BY <1>1, <1>2
<1>4. QED
  BY <1>1, <1>2, <1>3 DEF Follows

\* What a copy says of the site stays true when the teachers go on.
LEMMA PublishAgrees ==
  ASSUME TypeOK, NEW s \in Sources, Publish(s), NEW d, Agrees(d)
  PROVE  Agrees(d)'
<1>1. ASSUME NEW t \in Sources
      PROVE  /\ editions[t] \in Seq(Editions) /\ editions'[t] \in Seq(Editions)
             /\ Len(editions[t]) \in Nat /\ Len(editions'[t]) \in Nat
             /\ Len(editions[t]) <= Len(editions'[t])
             /\ \A n \in 1..Len(editions[t]) : editions'[t][n] = editions[t][n]
  <2>1. editions[t] \in Seq(Editions)
    BY DEF TypeOK
  <2>2. /\ editions'[t] \in Seq(Editions) /\ Len(editions[t]) <= Len(editions'[t])
        /\ \A n \in 1..Len(editions[t]) : editions'[t][n] = editions[t][n]
    BY PublishKeeps
  <2>3. QED
    BY <2>1, <2>2
<1>2. ASSUME NEW t \in Sources
      PROVE  /\ d.copied[t] \in Nat /\ d.confirmed[t] \in Nat /\ d.deferred[t] \in Nat
             /\ d.copied[t] <= Len(editions[t]) /\ d.versions[t] \in Seq(Contents)
  BY DEF Agrees
<1>3. \A t \in Sources : d.copied[t] <= Len(editions'[t])
  <2>1. SUFFICES ASSUME NEW t \in Sources PROVE d.copied[t] <= Len(editions'[t])
    OBVIOUS
  <2>2. QED
    BY <1>1, <1>2
<1>4. ASSUME NEW t \in Sources, d.confirmed[t] > 0
      PROVE  /\ t \in Files /\ d.versions[t] # <<>>
             /\ \E n \in d.confirmed[t]..Len(editions'[t]) :
                  editions'[t][n].content = d.versions[t][Len(d.versions[t])]
  <2>1. /\ t \in Files /\ d.versions[t] # <<>>
        /\ Taken(t, d.versions[t][Len(d.versions[t])], d.confirmed[t])
    BY <1>4 DEF Agrees
  <2>2. PICK n \in d.confirmed[t]..Len(editions[t]) :
          editions[t][n].content = d.versions[t][Len(d.versions[t])]
    BY <2>1 DEF Taken
  <2>3. n \in 1..Len(editions[t]) /\ n \in d.confirmed[t]..Len(editions'[t])
    BY <1>1, <1>2, <1>4, <2>2
  <2>4. editions'[t][n] = editions[t][n]
    BY <1>1, <2>3
  <2>5. QED
    BY <2>1, <2>2, <2>3, <2>4
<1>5. ASSUME NEW t \in Sources, d.deferred[t] > 0
      PROVE  t \in Files /\ \E n \in d.deferred[t]..Len(editions'[t]) : editions'[t][n].big
  <2>1. PICK n \in d.deferred[t]..Len(editions[t]) : editions[t][n].big
    BY <1>5 DEF Agrees
  <2>2. n \in 1..Len(editions[t]) /\ n \in d.deferred[t]..Len(editions'[t])
    BY <1>1, <1>2, <1>5, <2>1
  <2>3. editions'[t][n] = editions[t][n]
    BY <1>1, <2>2
  <2>4. QED
    BY <1>5, <2>1, <2>2, <2>3 DEF Agrees
<1>6. ASSUME NEW t \in Sources
      PROVE  Follows(d.versions[t], editions'[t],
                     IF t \in Urls THEN d.copied[t] ELSE Len(editions'[t]))
  <2> DEFINE es == editions[t]
             fs == editions'[t]
             vs == d.versions[t]
             m == IF t \in Urls THEN d.copied[t] ELSE Len(editions[t])
             k == IF t \in Urls THEN d.copied[t] ELSE Len(editions'[t])
  <2>1. /\ vs \in Seq(Contents) /\ es \in Seq(Editions) /\ fs \in Seq(Editions)
        /\ Len(es) <= Len(fs) /\ \A n \in 1..Len(es) : fs[n] = es[n]
        /\ m \in Nat /\ k \in Nat /\ m <= Len(es) /\ m <= k /\ Follows(vs, es, m)
    BY <1>1, <1>2 DEF Agrees
  <2> HIDE DEF es, fs, vs, m, k
  <2>2. Follows(vs, fs, k)
    BY <2>1, FollowsLonger
  <2>3. QED
    BY <2>2 DEF vs, fs, k
<1>7. QED
  BY <1>2, <1>3, <1>4, <1>5, <1>6 DEF Agrees, Taken

\* As long as the site stands still, a copy says of it what it said.
LEMMA AgreesStays ==
  ASSUME editions' = editions, NEW d
  PROVE  Agrees(d) => Agrees(d)'
BY DEF Agrees, Taken

\* A copy of right tables is a right copy,
LEMMA DatabaseAgrees ==
  ASSUME Records
  PROVE  Agrees(Database)
<1>1. /\ Database.copied = copied /\ Database.known = known /\ Database.since = since
      /\ Database.versions = versions /\ Database.confirmed = confirmed
      /\ Database.deferred = deferred
  BY DEF Database
<1>2. QED
  BY <1>1 DEF Agrees, Records, TypeOK, ConfirmationsSound, DeferralsSound, VersionsInReach, Reach,
              Latest

\* and right tables are what it makes, between two runs.
LEMMA AgreeingTables ==
  ASSUME TypeOK, NEW d, Agrees(d), pc = "idle", todo = {},
         copied' = d.copied, known' = d.known, since' = d.since, versions' = d.versions,
         confirmed' = d.confirmed, deferred' = d.deferred, originals' \subseteq Contents,
         UNCHANGED <<editions, pc, run, stops>>
  PROVE  Records'
<1>1. TypeOK'
  BY DEF TypeOK, Agrees, run
<1>2. ItemKnown' /\ ContentFits' /\ ConfirmsStored'
  BY DEF ItemKnown, ContentFits, ConfirmsStored, run
<1>3. ConfirmationsSound' /\ DeferralsSound'
  BY DEF ConfirmationsSound, DeferralsSound, Agrees, Taken, Latest
<1>4. VersionsInReach'
  BY DEF VersionsInReach, Reach, Agrees
<1>5. QED
  BY <1>1, <1>2, <1>3, <1>4 DEF Records

-----------------------------------------------------------------------------
(* Steps *)

LEMMA InitMInv == MInit => MInv
<1>1. SUFFICES ASSUME MInit PROVE MInv
  OBVIOUS
<1>2. IInv
  BY <1>1, InitIInv DEF MInit
<1>3. AtRest /\ Stopped /\ SavedIsCurrent /\ RowsFirst /\ BackupsAgree /\ restores \in Nat
  BY <1>1 DEF MInit, Init, AtRest, Stopped, SavedIsCurrent, RowsFirst, BackupsAgree
<1>4. QED
  BY <1>2, <1>3 DEF MInv, IInv, FilesKept

\* A step of the service is a step of Ingestion.
LEMMA ServiceIsNext == Service => Next
BY DEF Service, Next

\* The ingestion comes to rest with nothing to do, whatever ends its run.
LEMMA AtRestStep ==
  ASSUME AtRest, Service
  PROVE  AtRest'
<1>1. CASE \E s \in Sources : Publish(s) \/ Sync(s)
  BY <1>1 DEF Publish, Sync, AtRest, run
<1>2. CASE BeginRun
  BY <1>2 DEF BeginRun, AtRest
<1>3. CASE \E s \in Sources : Upsert(s)
  BY <1>3 DEF Upsert, AtRest
<1>4. CASE Ingest
  <2>1. pc' # "idle"
    BY <1>4 DEF Ingest, FetchUrl, Download, TooLarge, DownloadFails, Store, StoreFails,
                InsertVersion, Confirm, ClearDeferral, ItemOver
  <2>2. QED
    BY <2>1 DEF AtRest
<1>5. CASE EndRun \/ Interrupted
  BY <1>5 DEF EndRun, Interrupted, RunOver, AtRest
<1>6. QED
  BY <1>1, <1>2, <1>3, <1>4, <1>5 DEF Service, Job

\* While the service is down only the site changes.
LEMMA ServiceDown ==
  ASSUME Service, ~up
  PROVE  UNCHANGED <<copied, stored, pc, run, stops>>
BY DEF Service, Publish

\* Nobody but the teachers changes the site.
LEMMA EditionsStay ==
  ASSUME Service
  PROVE  (\E s \in Sources : Publish(s)) \/ editions' = editions
<1>1. CASE \/ \E s \in Sources : Sync(s) \/ Upsert(s)
           \/ BeginRun \/ EndRun \/ Interrupted
  BY <1>1 DEF Sync, Upsert, BeginRun, EndRun, Interrupted, site
<1>2. CASE Ingest
  BY <1>2 DEF Ingest, FetchUrl, Download, TooLarge, DownloadFails, Store, StoreFails,
              InsertVersion, Confirm, ClearDeferral, site
<1>3. QED
  BY <1>1, <1>2 DEF Service, Job

LEMMA ServiceStep ==
  ASSUME MInv, Service, UNCHANGED upkeep
  PROVE  MInv'
<1>1. /\ up' = up /\ clerk' = clerk /\ saved' = saved /\ nightly' = nightly
      /\ restores' = restores
  BY DEF upkeep, backups
<1>2. AtRest'
  BY AtRestStep DEF MInv
<1>3. Records'
  BY ServiceIsNext, NextRecords DEF MInv
<1>4. BackupsAgree'
  <2>1. SUFFICES ASSUME NEW b \in {saved, nightly} \ {Null}, Agrees(b) PROVE Agrees(b)'
    BY <1>1 DEF MInv, BackupsAgree
  <2>2. CASE \E s \in Sources : Publish(s)
    BY <2>1, <2>2, PublishAgrees DEF MInv, Records
  <2>3. CASE editions' = editions
    BY <2>1, <2>3, AgreesStays
  <2>4. QED
    BY <2>2, <2>3, EditionsStay
<1>5. Stopped' /\ SavedIsCurrent' /\ (RowsFirst => RowsFirst')
  <2>1. CASE up
    BY <1>1, <2>1 DEF MInv, Stopped, SavedIsCurrent, RowsFirst
  <2>2. CASE ~up
    BY <1>1, <2>2, ServiceDown DEF MInv, Stopped, SavedIsCurrent, RowsFirst, NoRows, Database, stored
  <2>3. QED
    BY <2>1, <2>2
<1>6. FilesKept'
  <2>1. restores = 0 => OriginalFirst' /\ VersionsHaveOriginals'
    BY ServiceIsNext, OriginalsStep DEF MInv, FilesKept, IInv
  <2>2. QED
    BY <1>1, <1>5, <2>1 DEF MInv, FilesKept
<1>7. QED
  BY <1>1, <1>2, <1>3, <1>4, <1>5, <1>6 DEF MInv

\* Empty tables and a service at rest satisfy all that ingestion relies on.
LEMMA DeleteRowsStep ==
  ASSUME MInv, DeleteRows
  PROVE  MInv'
<1>1. /\ clerk = "saved" /\ clerk' = "rows" /\ up' = up /\ restores' = restores
      /\ saved' = saved /\ nightly' = nightly
      /\ editions' = editions /\ originals' = originals /\ pc' = pc /\ todo' = todo
      /\ UNCHANGED <<editions, pc, run, stops>>
      /\ copied' = [s \in Sources |-> 0] /\ known' = {}
      /\ since' = [s \in Sources |-> {}] /\ versions' = [s \in Sources |-> <<>>]
      /\ confirmed' = [s \in Sources |-> 0] /\ deferred' = [s \in Sources |-> 0]
  BY DEF DeleteRows, run, backups
<1>2. pc = "idle" /\ todo = {} /\ ~up
  BY <1>1 DEF MInv, AtRest, Stopped
<1>3. AtRest' /\ Stopped' /\ SavedIsCurrent' /\ NoRows' /\ RowsFirst' /\ restores' \in Nat
  BY <1>1, <1>2 DEF MInv, AtRest, Stopped, SavedIsCurrent, RowsFirst, NoRows
<1>4. TypeOK
  BY DEF MInv, Records
<1>5. Records'
  <2> DEFINE d == [copied |-> [s \in Sources |-> 0], known |-> {},
                   since |-> [s \in Sources |-> {}], versions |-> [s \in Sources |-> <<>>],
                   confirmed |-> [s \in Sources |-> 0], deferred |-> [s \in Sources |-> 0]]
  <2>1. Agrees(d)
    <3>1. \A s \in Sources : editions[s] \in Seq(Editions) /\ Len(editions[s]) \in Nat
      BY <1>4 DEF TypeOK
    <3>2. ASSUME NEW s \in Sources
          PROVE  Follows(<<>>, editions[s], IF s \in Urls THEN 0 ELSE Len(editions[s]))
      BY <3>1, FollowsEmpty
    <3>3. [s \in Sources |-> <<>>] \in [Sources -> Seq(Contents)]
      OBVIOUS
    <3>4. QED
      BY <3>1, <3>2, <3>3 DEF Agrees
  <2>2. originals' \subseteq Contents
    BY <1>1, <1>4 DEF TypeOK
  <2> HIDE DEF Agrees
  <2>3. QED
    BY <1>1, <1>2, <1>4, <2>1, <2>2, AgreeingTables
<1>6. BackupsAgree'
  BY <1>1, AgreesStays DEF MInv, BackupsAgree
<1>7. FilesKept'
  <2>1. ToSet(<<>>) = {}
    BY DEF ToSet
  <2>2. \A s \in Sources : versions'[s] = <<>>
    BY <1>1
  <2>3. QED
    BY <1>1, <1>2, <1>3, <2>1, <2>2 DEF FilesKept, OriginalFirst, VersionsHaveOriginals
<1>8. QED
  BY <1>3, <1>5, <1>6, <1>7 DEF MInv

LEMMA RemoveOriginalStep ==
  ASSUME MInv, NEW c \in Contents, RemoveOriginal(c)
  PROVE  MInv'
<1>1. /\ clerk = "rows" /\ clerk' = clerk /\ up' = up /\ restores' = restores
      /\ saved' = saved /\ nightly' = nightly
      /\ editions' = editions /\ copied' = copied /\ known' = known /\ since' = since
      /\ versions' = versions /\ confirmed' = confirmed /\ deferred' = deferred
      /\ originals' = originals \ {c} /\ pc' = pc /\ todo' = todo /\ done' = done
      /\ cur' = cur /\ got' = got /\ stops' = stops
  BY DEF RemoveOriginal, Removing, site, run, upkeep, backups
<1>2. pc = "idle" /\ ~up
  BY <1>1 DEF MInv, Stopped
<1>3. AtRest' /\ Stopped' /\ SavedIsCurrent' /\ (RowsFirst => RowsFirst') /\ restores' \in Nat
  BY <1>1 DEF MInv, AtRest, Stopped, SavedIsCurrent, RowsFirst, NoRows
<1>4. Records'
  <2>1. TypeOK'
    BY <1>1 DEF MInv, Records, TypeOK
  <2>2. ItemKnown' /\ ContentFits' /\ ConfirmsStored'
    BY <1>1, <1>2 DEF MInv, Records, ItemKnown, ContentFits, ConfirmsStored
  <2>3. ConfirmationsSound' /\ DeferralsSound' /\ VersionsInReach'
    BY <1>1
       DEF MInv, Records, ConfirmationsSound, DeferralsSound, VersionsInReach, Reach, Taken, Latest
  <2>4. QED
    BY <2>1, <2>2, <2>3 DEF Records
<1>5. BackupsAgree'
  BY <1>1, AgreesStays DEF MInv, BackupsAgree
<1>6. FilesKept'
  <2>1. ToSet(<<>>) = {}
    BY DEF ToSet
  <2>2. QED
    BY <1>1, <1>2, <1>3, <2>1
       DEF MInv, FilesKept, OriginalFirst, VersionsHaveOriginals, RowsFirst, NoRows
<1>7. QED
  BY <1>3, <1>4, <1>5, <1>6 DEF MInv

\* What leaves the ingestion and its tables alone keeps its invariant.
LEMMA IngestionStands ==
  ASSUME MInv, UNCHANGED vars, restores' = restores
  PROVE  /\ Records' /\ AtRest' /\ Database' = Database /\ pc' = pc /\ versions' = versions
         /\ \A d : Agrees(d) => Agrees(d)'
         /\ restores' = 0 => OriginalFirst' /\ VersionsHaveOriginals'
<1>1. Records'
  BY NextRecords DEF MInv
<1>2. pc' = pc /\ todo' = todo /\ versions' = versions /\ Database' = Database
      /\ editions' = editions
  BY DEF vars, site, stored, run, Database
<1>3. restores' = 0 => OriginalFirst' /\ VersionsHaveOriginals'
  BY OriginalsStep DEF MInv, FilesKept, IInv
<1>4. QED
  BY <1>1, <1>2, <1>3, AgreesStays DEF MInv, AtRest

LEMMA BookkeepingStep ==
  ASSUME MInv, StartService \/ StopService \/ PurgeSave \/ PurgeOver \/ NightlyBackup
  PROVE  MInv'
<1>1. UNCHANGED vars /\ restores' = restores
  BY DEF StartService, StopService, PurgeSave, PurgeOver, NightlyBackup
<1>2. /\ Records' /\ AtRest' /\ Database' = Database /\ pc' = pc /\ versions' = versions
      /\ restores' = 0 => OriginalFirst' /\ VersionsHaveOriginals'
  BY <1>1, IngestionStands
<1>3. Stopped' /\ SavedIsCurrent' /\ (RowsFirst => RowsFirst')
  <2>1. CASE StartService \/ StopService
    BY <1>2, <2>1
       DEF StartService, StopService, MInv, Stopped, SavedIsCurrent, RowsFirst, NoRows, backups
  <2>2. CASE PurgeSave \/ PurgeOver
    BY <1>2, <2>2
       DEF PurgeSave, PurgeOver, MInv, Stopped, SavedIsCurrent, RowsFirst, NoRows, backups
  <2>3. CASE NightlyBackup
    BY <1>2, <2>3 DEF NightlyBackup, MInv, Stopped, SavedIsCurrent, RowsFirst, NoRows
  <2>4. QED
    BY <2>1, <2>2, <2>3
<1>4. BackupsAgree'
  <2>1. saved' \in {saved, Database} /\ nightly' \in {nightly, Database}
    BY DEF StartService, StopService, PurgeSave, PurgeOver, NightlyBackup, backups
  <2>2. Agrees(Database)
    BY DatabaseAgrees DEF MInv
  <2>3. ASSUME NEW b \in {saved, nightly, Database} \ {Null} PROVE Agrees(b)
    BY <2>2, <2>3 DEF MInv, BackupsAgree
  <2>4. ASSUME NEW b \in {saved', nightly'} \ {Null} PROVE Agrees(b)'
    <3>1. Agrees(b)
      BY <2>1, <2>3, <2>4
    <3>2. QED
      BY <1>1, <3>1, IngestionStands
  <2>5. QED
    BY <2>4 DEF BackupsAgree
<1>5. QED
  BY <1>1, <1>2, <1>3, <1>4 DEF MInv, FilesKept

\* The copy that is restored was right when it was made and has stayed so.
LEMMA RestoreStep ==
  ASSUME MInv, Restore
  PROVE  MInv'
<1>1. /\ ~up /\ clerk = "none" /\ up' = up /\ clerk' = clerk /\ restores' = restores + 1
      /\ originals' = originals /\ saved' = saved /\ nightly' = nightly
      /\ editions' = editions /\ todo' = todo /\ pc' = pc
      /\ UNCHANGED <<editions, pc, run, stops>>
  BY DEF Restore, run, backups
<1>2. PICK b \in {saved, nightly} \ {Null} :
        /\ copied' = b.copied /\ known' = b.known /\ since' = b.since /\ versions' = b.versions
        /\ confirmed' = b.confirmed /\ deferred' = b.deferred
  BY DEF Restore
<1>3. restores' \in Nat /\ restores' # 0
  BY <1>1 DEF MInv
<1>4. AtRest' /\ Stopped' /\ SavedIsCurrent'
  BY <1>1 DEF MInv, AtRest, Stopped, SavedIsCurrent
<1>5. Records'
  <2>1. Agrees(b) /\ TypeOK /\ pc = "idle" /\ todo = {} /\ originals' \subseteq Contents
    BY <1>1, <1>2 DEF MInv, BackupsAgree, Records, TypeOK, Stopped, AtRest
  <2>2. QED
    BY <1>1, <1>2, <2>1, AgreeingTables
<1>6. BackupsAgree'
  BY <1>1, AgreesStays DEF MInv, BackupsAgree
<1>7. QED
  BY <1>3, <1>4, <1>5, <1>6 DEF MInv, FilesKept

LEMMA NextMInv == MInv /\ [MNext]_allVars => MInv'
<1>1. ASSUME MInv, MNext PROVE MInv'
  <2>1. CASE Service /\ UNCHANGED upkeep
    BY <1>1, <2>1, ServiceStep
  <2>2. CASE Operator
    <3>1. CASE DeleteRows
      BY <1>1, <3>1, DeleteRowsStep
    <3>2. CASE \E c \in Contents : RemoveOriginal(c)
      BY <1>1, <3>2, RemoveOriginalStep
    <3>3. CASE Restore
      BY <1>1, <3>3, RestoreStep
    <3>4. CASE StartService \/ StopService \/ PurgeSave \/ PurgeOver \/ NightlyBackup
      BY <1>1, <3>4, BookkeepingStep
    <3>5. QED
      BY <2>2, <3>1, <3>2, <3>3, <3>4 DEF Operator, Purge
  <2>3. QED
    BY <1>1, <2>1, <2>2 DEF MNext
<1>2. ASSUME MInv, UNCHANGED allVars PROVE MInv'
  <2>1. /\ UNCHANGED vars /\ restores' = restores /\ up' = up /\ clerk' = clerk
        /\ saved' = saved /\ nightly' = nightly
    BY <1>2 DEF allVars, upkeep, backups
  <2>2. /\ Records' /\ AtRest' /\ Database' = Database /\ pc' = pc /\ versions' = versions
        /\ restores' = 0 => OriginalFirst' /\ VersionsHaveOriginals'
    BY <1>2, <2>1, IngestionStands
  <2>3. Stopped' /\ SavedIsCurrent' /\ (RowsFirst => RowsFirst')
    BY <1>2, <2>1, <2>2 DEF MInv, Stopped, SavedIsCurrent, RowsFirst, NoRows
  <2>4. BackupsAgree'
    BY <1>2, <2>1, IngestionStands DEF MInv, BackupsAgree
  <2>5. QED
    BY <1>2, <2>1, <2>2, <2>3, <2>4 DEF MInv, FilesKept
<1>3. QED
  BY <1>1, <1>2

LEMMA MInvHolds == MSpec => []MInv
BY InitMInv, NextMInv, PTL DEF MSpec

-----------------------------------------------------------------------------
(* Theorems *)

\* A purge may be cut short between any two of its steps, and the service may go
\* on afterwards: as long as nothing is restored, every version row has its file.
THEOREM PurgeKeepsOriginalsHolds == MSpec => []PurgeKeepsOriginals
<1>1. MInv => PurgeKeepsOriginals
  BY DEF MInv, FilesKept, PurgeKeepsOriginals
<1>2. QED
  BY <1>1, MInvHolds, PTL

\* What the purge deletes is in its backup, to the last row.
THEOREM PurgeRecoverableHolds == MSpec => PurgeRecoverable
<1>1. MInv => [DeleteRows => saved = Database]_allVars
  BY DEF MInv, SavedIsCurrent, DeleteRows
<1>2. QED
  BY <1>1, MInvHolds, PTL DEF PurgeRecoverable

\* Purges, restorations and runs in any number and order leave the tables in
\* agreement with the site: a restoration loses files, never the order of the
\* versions nor the knowledge of what is current.
THEOREM RestoredRecordsAgreeHolds == MSpec => []RestoredRecordsAgree
<1>1. MInv => RestoredRecordsAgree
  BY RecordsFollow, RecordsSettle DEF MInv, RestoredRecordsAgree
<1>2. QED
  BY <1>1, MInvHolds, PTL
====
