---- MODULE Ingestion ----
(* The ingestion job of src/ingestion: it keeps the original content of every *)
(* document of the synchronised courses, one immutable version per change.    *)
(* The job compares the rows that the Moodle sync copied with what it stored, *)
(* and takes one pending source after another: resource row, download, file   *)
(* of the original, version row, confirmation, each a commit of its own, so   *)
(* that the process may end between any two. The teachers go on editing the   *)
(* site all the time; the sync runs in the same thread, between two runs.     *)
EXTENDS Integers, Sequences, FiniteSets, SequencesExt

CONSTANTS
  Sources,      \* identities (origin, source_type, external_reference)
  Urls,         \* those that are references; the others are files
  Contents,     \* what may be stored, up to equality of hashes
  MaxItems,     \* max_items of the budget
  Null,
  MaxEditions, MaxStops  \* bounds: editions of a source; runs that end early

ASSUME IngestionAssumption ==
  /\ Urls \subseteq Sources
  /\ MaxItems \in Nat \ {0}
  /\ Null \notin Sources \cup Contents

ASSUME BoundAssumption == MaxEditions \in Nat /\ MaxStops \in Nat

VARIABLES
  editions,   \* the site: the editions of each source, the last one is served
  copied,     \* course_files, course_modules: the edition last synced, or 0
  known,      \* resources
  since,      \* their last_synced_at: the resources attempted since
  versions,   \* resource_versions, by version_number
  confirmed,  \* ingestion_source_checks: an edition, or 0
  deferred,   \* ingestion_deferrals: an edition, or 0
  originals,  \* the files of the storage, named by content
  pc,         \* where the run is; "idle" between runs
  todo,       \* pending items of the run not yet attempted
  done,       \* items attempted
  cur, got,   \* the item being ingested, and its content
  stops       \* runs that ended early so far

site == <<editions, copied>>
stored == <<known, since, versions, confirmed, deferred, originals>>
run == <<todo, done, cur, got>>
vars == <<site, stored, pc, run, stops>>

-----------------------------------------------------------------------------
(* Values *)

Files == Sources \ Urls

\* An edition of a source; timemodified is its number. A file may be over the
\* download limit in one edition and under it in the next.
Editions == [content: Contents, big: BOOLEAN]

Served(s) == editions[s][Len(editions[s])]

Latest(s) == versions[s][Len(versions[s])]

-----------------------------------------------------------------------------
(* Pending work *)

Pending_DeferredForGood(s) ==
  /\ copied[s] > 0
  /\ IF s \notin known THEN TRUE
     ELSE IF versions[s] = <<>> THEN deferred[s] = 0
     ELSE IF s \in Urls THEN editions[s][copied[s]].content # Latest(s)
     ELSE confirmed[s] # copied[s]

\* _pending_items(): never seen; never stored, unless this very edition was
\* deferred; changed since the last version or the last confirmation.
Pending(s) ==
  /\ copied[s] > 0
  /\ IF s \notin known THEN TRUE
     ELSE IF versions[s] = <<>> THEN deferred[s] # copied[s]
     ELSE IF s \in Urls THEN editions[s][copied[s]].content # Latest(s)
     ELSE confirmed[s] # copied[s]

\* New, then changed, then to be retried.
Group(s) == IF s \notin known THEN 0 ELSE IF versions[s] # <<>> THEN 1 ELSE 2

Precedes_ByGroup(t, s) == Group(t) < Group(s)

\* The sort key: the group, then the last attempt. New items are in no order.
Precedes(t, s) == Group(t) < Group(s) \/ (Group(t) = Group(s) /\ s \in since[t])

-----------------------------------------------------------------------------

Init ==
  /\ editions = [s \in Sources |-> <<>>]
  /\ copied = [s \in Sources |-> 0]
  /\ known = {}
  /\ since = [s \in Sources |-> {}]
  /\ versions = [s \in Sources |-> <<>>]
  /\ confirmed = [s \in Sources |-> 0]
  /\ deferred = [s \in Sources |-> 0]
  /\ originals = {}
  /\ pc = "idle"
  /\ todo = {} /\ done = 0 /\ cur = Null /\ got = Null
  /\ stops = 0

\* A teacher publishes or replaces a document.
Publish(s) ==
  /\ Len(editions[s]) < MaxEditions
  /\ \E e \in Editions :
       /\ s \in Urls => ~e.big
       /\ editions' = [editions EXCEPT ![s] = Append(@, e)]
  /\ UNCHANGED <<copied, stored, pc, run, stops>>

\* The Moodle sync copies the row of this source.
Sync(s) ==
  /\ pc = "idle" /\ copied[s] < Len(editions[s])
  /\ copied' = [copied EXCEPT ![s] = Len(editions[s])]
  /\ UNCHANGED <<editions, stored, pc, run, stops>>

\* A run is queued once has_work() finds something pending.
BeginRun ==
  /\ pc = "idle" /\ \E s \in Sources : Pending(s)
  /\ todo' = {s \in Sources : Pending(s)}
  /\ done' = 0
  /\ pc' = "next"
  /\ UNCHANGED <<site, stored, cur, got, stops>>

WithinBudget_OneMore == done <= MaxItems

WithinBudget == done < MaxItems

\* ingest(): the resource row, which also stamps the attempt.
Upsert(s) ==
  /\ pc = "next" /\ WithinBudget
  /\ s \in todo /\ \A t \in todo : ~Precedes(t, s)
  /\ known' = known \cup {s}
  /\ since' = [t \in Sources |-> IF t \in known \ {s} THEN since[t] \cup {s} ELSE {}]
  /\ cur' = s
  /\ todo' = todo \ {s}
  /\ done' = done + 1
  /\ pc' = "fetch"
  /\ UNCHANGED <<site, versions, confirmed, deferred, originals, got, stops>>

\* The item is over: the next one.
ItemOver == pc' = "next" /\ cur' = Null /\ got' = Null /\ UNCHANGED <<todo, done>>

Same_Never(s, content) == FALSE

\* The content equals the latest version: no new version.
Same(s, content) == versions[s] # <<>> /\ Latest(s) = content

\* A url is its reference, as synced; a file is what the site serves by now.
FetchUrl ==
  /\ pc = "fetch" /\ cur \in Urls
  /\ LET content == editions[cur][copied[cur]].content IN
       IF Same(cur, content) THEN ItemOver
       ELSE got' = content /\ pc' = "store" /\ UNCHANGED <<cur, todo, done>>
  /\ UNCHANGED <<site, stored, stops>>

Download ==
  /\ pc = "fetch" /\ cur \in Files /\ ~Served(cur).big
  /\ got' = Served(cur).content
  /\ pc' = IF Same(cur, Served(cur).content) THEN "confirm" ELSE "store"
  /\ UNCHANGED <<site, stored, todo, done, cur, stops>>

TooLarge_Confirms ==
  /\ pc = "fetch" /\ cur \in Files /\ Served(cur).big
  /\ deferred' = [deferred EXCEPT ![cur] = copied[cur]]
  /\ confirmed' = [confirmed EXCEPT ![cur] = copied[cur]]
  /\ ItemOver
  /\ UNCHANGED <<site, known, since, versions, originals, stops>>

\* Over the limit: the decision is recorded for the edition as synced.
TooLarge ==
  /\ pc = "fetch" /\ cur \in Files /\ Served(cur).big
  /\ deferred' = [deferred EXCEPT ![cur] = copied[cur]]
  /\ ItemOver
  /\ UNCHANGED <<site, known, since, versions, confirmed, originals, stops>>

DownloadFails ==
  /\ pc = "fetch" /\ cur \in Files
  /\ ItemOver
  /\ UNCHANGED <<site, stored, stops>>

\* FilesystemStorage.store(): a file that is there already is a success.
Store ==
  /\ pc = "store"
  /\ originals' = originals \cup {got}
  /\ pc' = "insert"
  /\ UNCHANGED <<site, known, since, versions, confirmed, deferred, run, stops>>

StoreFails_Ignored ==
  /\ pc = "store" /\ got \notin originals
  /\ pc' = "insert"
  /\ UNCHANGED <<site, stored, run, stops>>

\* Too little space, or the write fails: nothing is left behind.
StoreFails ==
  /\ pc = "store" /\ got \notin originals
  /\ ItemOver
  /\ UNCHANGED <<site, stored, stops>>

InsertVersion ==
  /\ pc = "insert"
  /\ versions' = [versions EXCEPT ![cur] = Append(@, got)]
  /\ IF cur \in Files THEN pc' = "confirm" /\ UNCHANGED run ELSE ItemOver
  /\ UNCHANGED <<site, known, since, confirmed, deferred, originals, stops>>

\* record_source_check(): the edition as synced, not the one downloaded.
Confirm ==
  /\ pc = "confirm"
  /\ confirmed' = [confirmed EXCEPT ![cur] = copied[cur]]
  /\ pc' = "clear"
  /\ UNCHANGED <<site, known, since, versions, deferred, originals, run, stops>>

ClearDeferral ==
  /\ pc = "clear"
  /\ deferred' = [deferred EXCEPT ![cur] = 0]
  /\ ItemOver
  /\ UNCHANGED <<site, known, since, versions, confirmed, originals, stops>>

RunOver == pc' = "idle" /\ todo' = {} /\ done' = 0 /\ cur' = Null /\ got' = Null

\* All attempted, or out of budget; the seconds allow for one item at least.
EndRun ==
  /\ pc = "next" /\ (todo = {} \/ done > 0)
  /\ RunOver
  /\ UNCHANGED <<site, stored, stops>>

\* A stop request, a systemic failure or the end of the process.
Interrupted ==
  /\ pc # "idle" /\ stops < MaxStops
  /\ RunOver
  /\ stops' = stops + 1
  /\ UNCHANGED <<site, stored>>

-----------------------------------------------------------------------------

Ingest ==
  \/ FetchUrl \/ Download \/ TooLarge \/ DownloadFails
  \/ Store \/ StoreFails \/ InsertVersion \/ Confirm \/ ClearDeferral

\* What the job does on its own; cycles keep coming on the clock.
Job == BeginRun \/ (\E s \in Sources : Upsert(s)) \/ Ingest \/ EndRun

Next ==
  \/ \E s \in Sources : Publish(s) \/ Sync(s)
  \/ Job
  \/ Interrupted

Spec == Init /\ [][Next]_vars

FairSpec == Spec /\ WF_vars(Job)
-----------------------------------------------------------------------------
(* Properties *)

\* Every variable stays in its set; in particular a run never attempts more
\* items than its budget.
TypeOK ==
  /\ editions \in [Sources -> Seq(Editions)]
  /\ copied \in [Sources -> Nat] /\ \A s \in Sources : copied[s] <= Len(editions[s])
  /\ known \subseteq Sources
  /\ since \in [Sources -> SUBSET Sources]
  /\ versions \in [Sources -> Seq(Contents)]
  /\ confirmed \in [Sources -> Nat]
  /\ deferred \in [Sources -> Nat]
  /\ originals \subseteq Contents
  /\ pc \in {"idle", "next", "fetch", "store", "insert", "confirm", "clear"}
  /\ todo \subseteq Sources /\ done \in 0..MaxItems
  /\ cur \in Sources \cup {Null} /\ got \in Contents \cup {Null}
  /\ stops \in Nat

\* The versions vs are contents of the first m editions es, in their order, and
\* each differs from the one before it.
Follows(vs, es, m) ==
  /\ \A i \in DOMAIN vs : i > 1 => vs[i] # vs[i - 1]
  /\ \E f \in [DOMAIN vs -> 1..m] :
       /\ \A i \in DOMAIN vs : vs[i] = es[f[i]].content
       /\ \A i \in DOMAIN vs : i > 1 => f[i - 1] < f[i]

\* The versions of a document follow the editions of the site: nothing is
\* invented, repeated or put in the wrong order, whatever is published or cut
\* short while a document is being ingested.
VersionsFollowEditions ==
  \A s \in Sources : Follows(versions[s], editions[s], Len(editions[s]))

\* No version row is without its file, also when the process ends between the
\* two writes, the disk is full, or another document had the same content.
VersionsHaveOriginals == \A s \in Sources : ToSet(versions[s]) \subseteq originals

\* A source that is not pending is really settled: if its row is the latest
\* edition, either that edition is the latest version, or it is too large and
\* the document has no version at all. A download that overtakes the row, a
\* run cut short or a deferral never makes ingestion forget a document.
SettledIsCurrent ==
  \A s \in Sources :
    LET e == Served(s) IN
    pc = "idle" /\ copied[s] > 0 /\ copied[s] = Len(editions[s]) /\ ~Pending(s) =>
      IF versions[s] = <<>> THEN s \in Files /\ e.big ELSE Latest(s) = e.content

\* "Work is never dropped by the budget": a pending document is attempted
\* again and again until it is not pending, although each run may have time
\* for one item only; those without a version wait for the changed ones.
NoStarvation ==
  \A s \in Sources :
    LET changed == \E t \in Sources \ {s} : Pending(t) /\ versions[t] # <<>> IN
    []<>(~Pending(s) \/ cur = s \/ (versions[s] = <<>> /\ changed))
====
