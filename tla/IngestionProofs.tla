---- MODULE IngestionProofs ----
(* Proofs about Ingestion, for any sources, contents, budget and bounds.      *)
EXTENDS Ingestion, FiniteSetTheorems, WellFoundedInduction, TLAPS

-----------------------------------------------------------------------------
(* The inductive invariant *)

\* The editions that the versions of s may come from: a link is taken as it
\* was synced, a file as the site serves it.
Reach(s) == IF s \in Urls THEN copied[s] ELSE Len(editions[s])

\* This content was served by edition k of s or by a later one.
Taken(s, content, k) == \E n \in k..Len(editions[s]) : editions[s][n].content = content

\* An item in progress has a row and a resource.
ItemKnown ==
  /\ pc \notin {"idle", "next"} => cur \in known /\ copied[cur] > 0
  /\ \A s \in todo : copied[s] > 0

\* A content on its way is the right next version; a file's content is at
\* least as new as the row it will be confirmed for.
ContentFits ==
  pc \in {"store", "insert"} =>
    /\ got \in Contents
    /\ Follows(Append(versions[cur], got), editions[cur], Reach(cur))
    /\ cur \in Files => Taken(cur, got, copied[cur])

OriginalFirst == pc = "insert" => got \in originals

\* What is about to be confirmed is stored.
ConfirmsStored ==
  pc \in {"confirm", "clear"} =>
    cur \in Files /\ versions[cur] # <<>> /\ Taken(cur, Latest(cur), copied[cur])

\* A confirmation of an edition: the latest version is that one or newer.
ConfirmationsSound ==
  \A s \in Sources :
    /\ confirmed[s] <= copied[s]
    /\ confirmed[s] > 0 => s \in Files /\ versions[s] # <<>> /\ Taken(s, Latest(s), confirmed[s])

\* A deferral of an edition: that one or a newer one was over the limit.
DeferralsSound ==
  \A s \in Sources :
    deferred[s] > 0 => s \in Files /\ \E n \in deferred[s]..Len(editions[s]) : editions[s][n].big

VersionsInReach == \A s \in Sources : Follows(versions[s], editions[s], Reach(s))

\* What the tables say of the site, wherever the files of the originals are.
Records ==
  /\ TypeOK /\ ItemKnown /\ ContentFits /\ ConfirmsStored
  /\ ConfirmationsSound /\ DeferralsSound /\ VersionsInReach

IInv == Records /\ OriginalFirst /\ VersionsHaveOriginals

-----------------------------------------------------------------------------
(* Versions and editions *)

\* No version follows any editions.
LEMMA FollowsEmpty ==
  ASSUME NEW es, NEW m \in Nat
  PROVE  Follows(<<>>, es, m)
<1>1. DOMAIN <<>> = {}
  OBVIOUS
<1> DEFINE f == [i \in {} |-> 1]
<1>2. f \in [{} -> 1..m]
  OBVIOUS
<1>3. QED
  BY <1>1, <1>2 DEF Follows

\* More editions, or a longer reach, change nothing for the versions there are.
LEMMA FollowsGrow ==
  ASSUME NEW vs \in Seq(Contents), NEW es \in Seq(Editions), NEW m \in Nat, NEW k \in Nat,
         m <= k, Follows(vs, es, m)
  PROVE  Follows(vs, es, k)
<1>1. PICK f \in [DOMAIN vs -> 1..m] :
        /\ \A i \in DOMAIN vs : vs[i] = es[f[i]].content
        /\ \A i \in DOMAIN vs : i > 1 => f[i - 1] < f[i]
  BY DEF Follows
<1>2. f \in [DOMAIN vs -> 1..k]
  BY <1>1
<1>3. QED
  BY <1>1, <1>2 DEF Follows

LEMMA FollowsAppend ==
  ASSUME NEW vs \in Seq(Contents), NEW es \in Seq(Editions), NEW e \in Editions, NEW m \in Nat,
         m <= Len(es), Follows(vs, es, m)
  PROVE  Follows(vs, Append(es, e), m)
<1>1. PICK f \in [DOMAIN vs -> 1..m] :
        /\ \A i \in DOMAIN vs : vs[i] = es[f[i]].content
        /\ \A i \in DOMAIN vs : i > 1 => f[i - 1] < f[i]
  BY DEF Follows
<1>2. \A n \in 1..m : Append(es, e)[n] = es[n]
  OBVIOUS
<1>3. \A i \in DOMAIN vs : vs[i] = Append(es, e)[f[i]].content
  BY <1>1, <1>2
<1>4. QED
  BY <1>1, <1>3 DEF Follows

\* The content of the edition in reach is the right next version, unless it is
\* the latest version already.
LEMMA FollowsExtend ==
  ASSUME NEW vs \in Seq(Contents), NEW es \in Seq(Editions), NEW m \in 1..Len(es),
         Follows(vs, es, m), vs # <<>> => vs[Len(vs)] # es[m].content
  PROVE  Follows(Append(vs, es[m].content), es, m)
<1> DEFINE c == es[m].content
           n == Len(vs)
           ws == Append(vs, c)
<1>1. PICK f \in [DOMAIN vs -> 1..m] :
        /\ \A i \in DOMAIN vs : vs[i] = es[f[i]].content
        /\ \A i \in DOMAIN vs : i > 1 => f[i - 1] < f[i]
  BY DEF Follows
<1>2. /\ n \in Nat /\ DOMAIN vs = 1..n /\ DOMAIN ws = 1..(n + 1)
      /\ ws[n + 1] = c /\ \A i \in 1..n : ws[i] = vs[i]
  <2>1. es[m] \in Editions
    OBVIOUS
  <2>2. c \in Contents
    BY <2>1 DEF Editions
  <2>3. QED
    BY <2>2
<1> DEFINE g == [i \in 1..(n + 1) |-> IF i = n + 1 THEN m ELSE f[i]]
<1>3. n > 0 => f[n] < m
  <2>1. SUFFICES ASSUME n > 0 PROVE f[n] < m
    OBVIOUS
  <2>2. n \in DOMAIN vs /\ vs # <<>>
    BY <1>2, <2>1
  <2>3. f[n] \in 1..m /\ vs[n] = es[f[n]].content /\ vs[n] # es[m].content
    BY <1>1, <2>2
  <2>4. f[n] # m
    BY <2>3
  <2>5. QED
    BY <2>3, <2>4
<1>4. g \in [DOMAIN ws -> 1..m]
  BY <1>1, <1>2
<1>5. \A i \in DOMAIN ws : ws[i] = es[g[i]].content
  BY <1>1, <1>2
<1>6. \A i \in DOMAIN ws : i > 1 => g[i - 1] < g[i]
  BY <1>1, <1>2, <1>3
<1>7. \A i \in DOMAIN ws : i > 1 => ws[i] # ws[i - 1]
  <2>1. SUFFICES ASSUME NEW i \in 1..(n + 1), i > 1 PROVE ws[i] # ws[i - 1]
    BY <1>2
  <2>2. CASE i = n + 1
    <3>1. i - 1 = n /\ n \in 1..n
      BY <1>2, <2>1, <2>2
    <3>2. ws[i] = c /\ ws[i - 1] = vs[n]
      BY <1>2, <2>2, <3>1
    <3>3. vs # <<>>
      BY <1>2, <3>1
    <3>4. QED
      BY <3>2, <3>3
  <2>3. CASE i # n + 1
    <3>1. i \in 1..n /\ i - 1 \in 1..n
      BY <1>2, <2>1, <2>3
    <3>2. ws[i] = vs[i] /\ ws[i - 1] = vs[i - 1] /\ vs[i] # vs[i - 1]
      BY <1>2, <2>1, <3>1 DEF Follows
    <3>3. QED
      BY <3>2
  <2>4. QED
    BY <2>2, <2>3
<1> HIDE DEF g, ws, c
<1>8. Follows(ws, es, m)
  BY <1>4, <1>5, <1>6, <1>7 DEF Follows
<1>9. QED
  BY <1>8 DEF ws, c

-----------------------------------------------------------------------------
(* The invariant holds initially *)

LEMMA InitIInv == Init => IInv
<1> SUFFICES ASSUME Init PROVE IInv
  OBVIOUS
<1>1. TypeOK
  BY IngestionAssumption DEF Init, TypeOK
<1>2. VersionsInReach
  <2>1. ASSUME NEW s \in Sources PROVE Follows(versions[s], editions[s], Reach(s))
    <3>1. versions[s] = <<>> /\ Reach(s) \in Nat
      BY DEF Init, Reach
    <3>2. QED
      BY <3>1, FollowsEmpty
  <2>2. QED
    BY <2>1 DEF VersionsInReach
<1>3. ItemKnown /\ ContentFits /\ OriginalFirst /\ ConfirmsStored
  BY DEF Init, ItemKnown, ContentFits, OriginalFirst, ConfirmsStored
<1>4. ConfirmationsSound /\ DeferralsSound
  BY DEF Init, ConfirmationsSound, DeferralsSound
<1>5. VersionsHaveOriginals
  BY DEF Init, VersionsHaveOriginals, ToSet
<1>6. QED
  BY <1>1, <1>2, <1>3, <1>4, <1>5 DEF IInv, Records

-----------------------------------------------------------------------------
(* The invariant is preserved: the site and the sync *)

\* What was served stays served, and what followed the editions follows them.
LEMMA PublishKeeps ==
  ASSUME TypeOK, NEW s \in Sources, Publish(s), NEW t \in Sources
  PROVE  /\ editions'[t] \in Seq(Editions) /\ Len(editions[t]) <= Len(editions'[t])
         /\ \A n \in 1..Len(editions[t]) : editions'[t][n] = editions[t][n]
         /\ \A vs \in Seq(Contents) :
              Follows(vs, editions[t], Reach(t)) => Follows(vs, editions'[t], Reach(t)')
<1>1. PICK e \in Editions : editions' = [editions EXCEPT ![s] = Append(@, e)]
  BY DEF Publish
<1>2. editions[t] \in Seq(Editions) /\ copied' = copied /\ copied[t] \in Nat
      /\ copied[t] <= Len(editions[t]) /\ Len(editions[t]) \in Nat
  BY DEF TypeOK, Publish
<1>3. CASE t # s
  <2>1. editions'[t] = editions[t]
    BY <1>1, <1>3 DEF TypeOK
  <2>2. Reach(t)' = Reach(t)
    BY <1>2, <2>1 DEF Reach
  <2>3. QED
    BY <1>2, <2>1, <2>2
<1>4. CASE t = s
  <2>1. editions'[t] = Append(editions[t], e)
    BY <1>1, <1>4 DEF TypeOK
  <2>2. /\ editions'[t] \in Seq(Editions) /\ Len(editions'[t]) = Len(editions[t]) + 1
        /\ \A n \in 1..Len(editions[t]) : editions'[t][n] = editions[t][n]
    BY <1>2, <2>1
  <2>3. /\ Reach(t) \in Nat /\ Reach(t) <= Len(editions[t])
        /\ Reach(t)' \in Nat /\ Reach(t) <= Reach(t)'
    BY <1>2, <2>2 DEF Reach
  <2>4. ASSUME NEW vs \in Seq(Contents), Follows(vs, editions[t], Reach(t))
        PROVE  Follows(vs, editions'[t], Reach(t)')
    <3>1. Follows(vs, editions'[t], Reach(t))
      BY <1>2, <2>1, <2>3, <2>4, FollowsAppend
    <3> DEFINE es == editions'[t]
               m == Reach(t)
               k == Reach(t)'
    <3>2. es \in Seq(Editions) /\ m \in Nat /\ k \in Nat /\ m <= k /\ Follows(vs, es, m)
      BY <2>2, <2>3, <3>1
    <3> HIDE DEF es, m, k
    <3>3. Follows(vs, es, k)
      BY <2>4, <3>2, FollowsGrow
    <3>4. QED
      BY <3>3 DEF es, k
  <2>5. QED
    BY <1>2, <2>2, <2>4
<1>5. QED
  BY <1>3, <1>4

LEMMA PublishStep ==
  ASSUME Records, NEW s \in Sources, Publish(s)
  PROVE  Records'
<1> USE DEF Records
<1>1. /\ copied' = copied /\ known' = known /\ since' = since /\ versions' = versions
      /\ confirmed' = confirmed /\ deferred' = deferred /\ originals' = originals
      /\ pc' = pc /\ todo' = todo /\ done' = done /\ cur' = cur /\ got' = got /\ stops' = stops
  BY DEF Publish, stored, run
<1>2. TypeOK'
  <2>1. PICK e \in Editions : editions' = [editions EXCEPT ![s] = Append(@, e)]
    BY DEF Publish
  <2>2. editions' \in [Sources -> Seq(Editions)]
    BY <2>1 DEF TypeOK
  <2>3. \A t \in Sources : copied[t] <= Len(editions'[t])
    <3>1. SUFFICES ASSUME NEW t \in Sources PROVE copied[t] <= Len(editions'[t])
      OBVIOUS
    <3>2. Len(editions[t]) <= Len(editions'[t]) /\ editions'[t] \in Seq(Editions)
      BY <3>1, PublishKeeps
    <3>3. copied[t] \in Nat /\ copied[t] <= Len(editions[t]) /\ editions[t] \in Seq(Editions)
      BY DEF TypeOK
    <3>4. QED
      BY <3>2, <3>3
  <2>4. QED
    BY <1>1, <2>2, <2>3 DEF TypeOK
<1>3. ASSUME NEW t \in Sources, NEW c, NEW k \in Nat \ {0}, Taken(t, c, k)
      PROVE  \E n \in k..Len(editions'[t]) : editions'[t][n].content = c
  <2>1. PICK n \in k..Len(editions[t]) : editions[t][n].content = c
    BY <1>3 DEF Taken
  <2>2. n \in 1..Len(editions[t]) /\ n \in k..Len(editions'[t])
    <3>1. editions[t] \in Seq(Editions) /\ editions'[t] \in Seq(Editions)
          /\ Len(editions[t]) <= Len(editions'[t])
      BY PublishKeeps DEF TypeOK
    <3>2. QED
      BY <3>1
  <2>3. QED
    BY <2>1, <2>2, PublishKeeps
<1>4. ItemKnown'
  BY <1>1 DEF ItemKnown
<1>5. ContentFits'
  <2>1. SUFFICES ASSUME pc \in {"store", "insert"}
                 PROVE  /\ got \in Contents
                        /\ Follows(Append(versions[cur], got), editions'[cur], Reach(cur)')
                        /\ cur \in Files => \E n \in copied[cur]..Len(editions'[cur]) :
                                                editions'[cur][n].content = got
    BY <1>1 DEF ContentFits, Taken, Reach
  <2>2. /\ cur \in Sources /\ copied[cur] \in Nat \ {0} /\ got \in Contents
        /\ Append(versions[cur], got) \in Seq(Contents)
    BY <2>1 DEF TypeOK, ItemKnown, ContentFits
  <2>3. Follows(Append(versions[cur], got), editions'[cur], Reach(cur)')
    <3>1. PICK t \in Sources : t = cur
      BY <2>2
    <3>2. Follows(Append(versions[t], got), editions'[t], Reach(t)')
      BY <2>1, <2>2, <3>1, PublishKeeps DEF ContentFits
    <3>3. Reach(t)' = Reach(cur)'
      BY <1>1, <3>1 DEF Reach
    <3>4. QED
      BY <3>1, <3>2, <3>3
  <2>4. QED
    BY <1>3, <2>1, <2>2, <2>3 DEF ContentFits
<1>6. ConfirmsStored'
  <2>1. SUFFICES ASSUME pc \in {"confirm", "clear"}
                 PROVE  /\ cur \in Files /\ versions[cur] # <<>>
                        /\ \E n \in copied[cur]..Len(editions'[cur]) :
                             editions'[cur][n].content = Latest(cur)
    BY <1>1 DEF ConfirmsStored, Taken, Latest
  <2>2. cur \in Sources /\ copied[cur] \in Nat \ {0}
    BY <2>1 DEF TypeOK, ItemKnown
  <2>3. QED
    BY <1>3, <2>1, <2>2 DEF ConfirmsStored
<1>7. ConfirmationsSound'
  <2>1. SUFFICES ASSUME NEW t \in Sources
                 PROVE  /\ confirmed[t] <= copied[t]
                        /\ confirmed[t] > 0 =>
                             /\ t \in Files /\ versions[t] # <<>>
                             /\ \E n \in confirmed[t]..Len(editions'[t]) :
                                  editions'[t][n].content = Latest(t)
    BY <1>1 DEF ConfirmationsSound, Taken, Latest
  <2>2. confirmed[t] \in Nat
    BY DEF TypeOK
  <2>3. QED
    BY <1>3, <2>2 DEF ConfirmationsSound
<1>8. DeferralsSound'
  <2>1. SUFFICES ASSUME NEW t \in Sources, deferred[t] > 0
                 PROVE  t \in Files /\ \E n \in deferred[t]..Len(editions'[t]) : editions'[t][n].big
    BY <1>1 DEF DeferralsSound
  <2>2. deferred[t] \in Nat /\ editions[t] \in Seq(Editions)
    BY DEF TypeOK
  <2>3. PICK n \in deferred[t]..Len(editions[t]) : editions[t][n].big
    BY <2>1 DEF DeferralsSound
  <2>4. n \in 1..Len(editions[t]) /\ n \in deferred[t]..Len(editions'[t])
    BY <2>1, <2>2, <2>3, PublishKeeps
  <2>5. editions'[t][n].big
    BY <2>3, <2>4, PublishKeeps
  <2>6. QED
    BY <2>1, <2>4, <2>5 DEF DeferralsSound
<1>9. VersionsInReach'
  <2>1. SUFFICES ASSUME NEW t \in Sources PROVE Follows(versions[t], editions'[t], Reach(t)')
    BY <1>1 DEF VersionsInReach
  <2>2. versions[t] \in Seq(Contents) /\ Follows(versions[t], editions[t], Reach(t))
    BY DEF TypeOK, VersionsInReach
  <2>3. QED
    BY <2>2, PublishKeeps
<1>10. QED
  BY <1>2, <1>4, <1>5, <1>6, <1>7, <1>8, <1>9

LEMMA SyncStep ==
  ASSUME Records, NEW s \in Sources, Sync(s)
  PROVE  Records'
<1> USE DEF Records
<1>1. /\ editions' = editions /\ known' = known /\ since' = since /\ versions' = versions
      /\ confirmed' = confirmed /\ deferred' = deferred /\ originals' = originals
      /\ pc' = pc /\ todo' = todo /\ done' = done /\ cur' = cur /\ got' = got /\ stops' = stops
      /\ pc = "idle" /\ copied' = [copied EXCEPT ![s] = Len(editions[s])]
  BY DEF Sync, stored, run
<1>2. \A t \in Sources : copied'[t] \in Nat /\ copied[t] <= copied'[t] /\ copied'[t] <= Len(editions[t])
  BY <1>1 DEF TypeOK, Sync
<1>3. TypeOK'
  BY <1>1, <1>2 DEF TypeOK
<1>4. ItemKnown' /\ ContentFits' /\ ConfirmsStored'
  <2>1. \A t \in todo : copied'[t] > 0
    BY <1>2 DEF ItemKnown, TypeOK
  <2>2. QED
    BY <1>1, <2>1 DEF ItemKnown, ContentFits, ConfirmsStored
<1>5. ConfirmationsSound'
  <2>1. \A t \in Sources : confirmed[t] <= copied'[t]
    BY <1>2 DEF ConfirmationsSound, TypeOK
  <2>2. QED
    BY <1>1, <2>1 DEF ConfirmationsSound, Taken, Latest
<1>6. DeferralsSound'
  BY <1>1 DEF DeferralsSound
<1>7. VersionsInReach'
  <2>1. SUFFICES ASSUME NEW t \in Sources PROVE Follows(versions[t], editions[t], Reach(t)')
    BY <1>1 DEF VersionsInReach
  <2>2. versions[t] \in Seq(Contents) /\ editions[t] \in Seq(Editions) /\ copied[t] \in Nat
        /\ Follows(versions[t], editions[t], Reach(t))
    BY DEF TypeOK, VersionsInReach
  <2> DEFINE m == Reach(t)
             k == Reach(t)'
  <2>3. m \in Nat /\ k \in Nat /\ m <= k
    BY <1>1, <1>2, <2>2 DEF Reach
  <2> HIDE DEF m, k
  <2>4. Follows(versions[t], editions[t], k)
    BY <2>2, <2>3, FollowsGrow DEF m
  <2>5. QED
    BY <2>4 DEF k
<1>8. QED
  BY <1>3, <1>4, <1>5, <1>6, <1>7

-----------------------------------------------------------------------------
(* The invariant is preserved: the steps of a run *)

LEMMA RunBoundsStep ==
  ASSUME Records, BeginRun \/ EndRun \/ Interrupted
  PROVE  Records'
<1> USE DEF Records
<1>1. /\ editions' = editions /\ copied' = copied /\ known' = known /\ since' = since
      /\ versions' = versions /\ confirmed' = confirmed /\ deferred' = deferred
      /\ originals' = originals /\ pc' \in {"idle", "next"}
  BY DEF BeginRun, EndRun, Interrupted, RunOver, site, stored
<1>2. TypeOK' /\ ItemKnown'
  <2>1. CASE BeginRun
    BY <1>1, <2>1, IngestionAssumption DEF TypeOK, ItemKnown, BeginRun, Pending
  <2>2. CASE EndRun
    BY <1>1, <2>2, IngestionAssumption DEF TypeOK, ItemKnown, EndRun, RunOver
  <2>3. CASE Interrupted
    BY <1>1, <2>3, IngestionAssumption DEF TypeOK, ItemKnown, Interrupted, RunOver
  <2>4. QED
    BY <2>1, <2>2, <2>3
<1>3. ContentFits' /\ ConfirmsStored'
  BY <1>1 DEF ContentFits, ConfirmsStored
<1>4. ConfirmationsSound' /\ DeferralsSound'
  BY <1>1 DEF ConfirmationsSound, DeferralsSound, Taken, Latest
<1>5. VersionsInReach'
  BY <1>1 DEF VersionsInReach, Reach
<1>6. QED
  BY <1>2, <1>3, <1>4, <1>5

LEMMA UpsertStep ==
  ASSUME Records, NEW s \in Sources, Upsert(s)
  PROVE  Records'
<1> USE DEF Records
<1>1. /\ editions' = editions /\ copied' = copied /\ versions' = versions
      /\ confirmed' = confirmed /\ deferred' = deferred /\ originals' = originals
      /\ pc' = "fetch" /\ cur' = s /\ known' = known \cup {s} /\ todo' = todo \ {s}
  BY DEF Upsert, site
<1>2. TypeOK'
  <2>1. done' \in 0..MaxItems
    BY IngestionAssumption DEF TypeOK, Upsert, WithinBudget
  <2>2. since' \in [Sources -> SUBSET Sources]
    BY DEF TypeOK, Upsert
  <2>3. QED
    BY <1>1, <2>1, <2>2 DEF TypeOK, Upsert
<1>3. ItemKnown'
  BY <1>1 DEF ItemKnown, Upsert
<1>4. ContentFits' /\ ConfirmsStored'
  BY <1>1 DEF ContentFits, ConfirmsStored
<1>5. ConfirmationsSound' /\ DeferralsSound'
  BY <1>1 DEF ConfirmationsSound, DeferralsSound, Taken, Latest
<1>6. VersionsInReach'
  BY <1>1 DEF VersionsInReach, Reach
<1>7. QED
  BY <1>2, <1>3, <1>4, <1>5, <1>6

LEMMA FetchUrlStep ==
  ASSUME Records, FetchUrl
  PROVE  Records'
<1> USE DEF Records
<1> DEFINE content == editions[cur][copied[cur]].content
<1>1. /\ editions' = editions /\ copied' = copied /\ known' = known /\ since' = since
      /\ versions' = versions /\ confirmed' = confirmed /\ deferred' = deferred
      /\ originals' = originals /\ stops' = stops /\ todo' = todo /\ done' = done /\ pc = "fetch"
      /\ pc' \in {"next", "store"} /\ (pc' = "store" => cur' = cur /\ got' = content)
  BY DEF FetchUrl, ItemOver, site, stored
<1>2. /\ cur \in Sources /\ cur \in Urls /\ copied[cur] \in 1..Len(editions[cur])
      /\ editions[cur] \in Seq(Editions) /\ versions[cur] \in Seq(Contents)
  BY DEF FetchUrl, TypeOK, ItemKnown
<1>3. content \in Contents
  <2>1. editions[cur][copied[cur]] \in Editions
    BY <1>2
  <2>2. QED
    BY <2>1 DEF Editions
<1>4. TypeOK'
  <2>1. cur' \in Sources \cup {Null} /\ got' \in Contents \cup {Null}
    BY <1>2, <1>3 DEF FetchUrl, ItemOver
  <2>2. QED
    BY <1>1, <2>1 DEF TypeOK
<1>5. ItemKnown'
  BY <1>1 DEF ItemKnown
<1>6. ContentFits'
  <2>1. SUFFICES ASSUME pc' = "store"
                 PROVE  /\ content \in Contents
                        /\ Follows(Append(versions[cur], content), editions[cur], copied[cur])
                        /\ cur \notin Files
    BY <1>1, <1>2 DEF ContentFits, Reach
  <2>2. ~Same(cur, content)
    BY <2>1 DEF FetchUrl, ItemOver
  <2>3. versions[cur] # <<>> => versions[cur][Len(versions[cur])] # content
    BY <2>2 DEF Same, Latest
  <2>4. Follows(versions[cur], editions[cur], copied[cur])
    BY <1>2 DEF VersionsInReach, Reach
  <2>5. Follows(Append(versions[cur], content), editions[cur], copied[cur])
    BY <1>2, <2>3, <2>4, FollowsExtend
  <2>6. QED
    BY <1>2, <1>3, <2>5 DEF Files
<1>7. ConfirmsStored'
  BY <1>1 DEF ConfirmsStored
<1>8. ConfirmationsSound' /\ DeferralsSound'
  BY <1>1 DEF ConfirmationsSound, DeferralsSound, Taken, Latest
<1>9. VersionsInReach'
  BY <1>1 DEF VersionsInReach, Reach
<1>10. QED
  BY <1>4, <1>5, <1>6, <1>7, <1>8, <1>9

LEMMA DownloadStep ==
  ASSUME Records, Download
  PROVE  Records'
<1> USE DEF Records
<1> DEFINE n == Len(editions[cur])
           content == editions[cur][n].content
<1>1. /\ editions' = editions /\ copied' = copied /\ known' = known /\ since' = since
      /\ versions' = versions /\ confirmed' = confirmed /\ deferred' = deferred
      /\ originals' = originals /\ stops' = stops /\ todo' = todo /\ done' = done /\ pc = "fetch"
      /\ cur' = cur /\ got' = content
      /\ pc' = IF Same(cur, content) THEN "confirm" ELSE "store"
  BY DEF Download, Served, site, stored
<1>2. /\ cur \in Sources /\ cur \in Files /\ cur \notin Urls /\ copied[cur] \in 1..n /\ n \in 1..n
      /\ editions[cur] \in Seq(Editions) /\ versions[cur] \in Seq(Contents)
  BY DEF Download, Files, TypeOK, ItemKnown
<1>3. content \in Contents
  <2>1. editions[cur][n] \in Editions
    BY <1>2
  <2>2. QED
    BY <2>1 DEF Editions
<1>4. TypeOK'
  BY <1>1, <1>2, <1>3 DEF TypeOK
<1>5. ItemKnown'
  BY <1>1 DEF ItemKnown
<1>6. Taken(cur, content, copied[cur])
  BY <1>2 DEF Taken
<1>7. ContentFits'
  <2>1. SUFFICES ASSUME pc' = "store"
                 PROVE  Follows(Append(versions[cur], content), editions[cur], n)
    BY <1>1, <1>2, <1>3, <1>6 DEF ContentFits, Reach, Taken
  <2>2. ~Same(cur, content)
    BY <1>1, <2>1
  <2>3. versions[cur] # <<>> => versions[cur][Len(versions[cur])] # content
    BY <2>2 DEF Same, Latest
  <2>4. Follows(versions[cur], editions[cur], n)
    BY <1>2 DEF VersionsInReach, Reach
  <2>5. QED
    BY <1>2, <2>3, <2>4, FollowsExtend
<1>8. ConfirmsStored'
  <2>1. SUFFICES ASSUME Same(cur, content)
                 PROVE  versions[cur] # <<>> /\ Taken(cur, Latest(cur), copied[cur])
    BY <1>1, <1>2 DEF ConfirmsStored, Taken, Latest
  <2>2. QED
    BY <1>6, <2>1 DEF Same
<1>9. ConfirmationsSound' /\ DeferralsSound'
  BY <1>1 DEF ConfirmationsSound, DeferralsSound, Taken, Latest
<1>10. VersionsInReach'
  BY <1>1 DEF VersionsInReach, Reach
<1>11. QED
  BY <1>4, <1>5, <1>7, <1>8, <1>9, <1>10

LEMMA NothingStoredStep ==
  ASSUME Records, TooLarge \/ DownloadFails \/ StoreFails
  PROVE  Records'
<1> USE DEF Records
<1>1. /\ editions' = editions /\ copied' = copied /\ known' = known /\ since' = since
      /\ versions' = versions /\ confirmed' = confirmed /\ originals' = originals
      /\ stops' = stops /\ todo' = todo /\ done' = done
      /\ pc' = "next" /\ cur' = Null /\ got' = Null
  BY DEF TooLarge, DownloadFails, StoreFails, ItemOver, site, stored
<1>2. deferred' \in [Sources -> Nat] /\ DeferralsSound'
  <2>1. CASE TooLarge
    <3>1. /\ cur \in Sources /\ cur \in Files /\ copied[cur] \in 1..Len(editions[cur])
          /\ editions[cur] \in Seq(Editions) /\ editions[cur][Len(editions[cur])].big
      BY <2>1 DEF TypeOK, ItemKnown, TooLarge, Files, Served
    <3>2. deferred' = [deferred EXCEPT ![cur] = copied[cur]]
      BY <2>1 DEF TooLarge
    <3>3. deferred' \in [Sources -> Nat]
      BY <3>1, <3>2 DEF TypeOK
    <3>4. Len(editions[cur]) \in copied[cur]..Len(editions[cur])
      BY <3>1
    <3>5. ASSUME NEW t \in Sources, deferred'[t] > 0
          PROVE  t \in Files /\ \E n \in deferred'[t]..Len(editions[t]) : editions[t][n].big
      <4>1. CASE t = cur
        <5>1. deferred'[t] = copied[cur]
          BY <3>2, <4>1 DEF TypeOK
        <5>2. QED
          BY <3>1, <3>4, <4>1, <5>1
      <4>2. CASE t # cur
        BY <3>2, <3>5, <4>2 DEF TypeOK, DeferralsSound
      <4>3. QED
        BY <4>1, <4>2
    <3>6. QED
      BY <1>1, <3>3, <3>5 DEF DeferralsSound
  <2>2. CASE DownloadFails \/ StoreFails
    <3>1. deferred' = deferred
      BY <2>2 DEF DownloadFails, StoreFails, stored
    <3>2. QED
      BY <1>1, <3>1 DEF TypeOK, DeferralsSound
  <2>3. QED
    BY <2>1, <2>2
<1>3. TypeOK' /\ ItemKnown'
  BY <1>1, <1>2 DEF TypeOK, ItemKnown
<1>4. ContentFits' /\ ConfirmsStored'
  BY <1>1 DEF ContentFits, ConfirmsStored
<1>5. ConfirmationsSound'
  BY <1>1 DEF ConfirmationsSound, Taken, Latest
<1>6. VersionsInReach'
  BY <1>1 DEF VersionsInReach, Reach
<1>7. QED
  BY <1>2, <1>3, <1>4, <1>5, <1>6

LEMMA StoreStep ==
  ASSUME Records, Store
  PROVE  Records'
<1> USE DEF Records
<1>1. /\ editions' = editions /\ copied' = copied /\ known' = known /\ since' = since
      /\ versions' = versions /\ confirmed' = confirmed /\ deferred' = deferred
      /\ stops' = stops /\ todo' = todo /\ done' = done /\ cur' = cur /\ got' = got
      /\ pc = "store" /\ pc' = "insert" /\ originals' = originals \cup {got} /\ got \in Contents
  BY DEF Store, ContentFits, site, run
<1>2. TypeOK' /\ ItemKnown'
  BY <1>1 DEF TypeOK, ItemKnown
<1>3. ContentFits' /\ ConfirmsStored'
  BY <1>1 DEF ContentFits, ConfirmsStored, Reach, Taken
<1>4. ConfirmationsSound' /\ DeferralsSound'
  BY <1>1 DEF ConfirmationsSound, DeferralsSound, Taken, Latest
<1>5. VersionsInReach'
  BY <1>1 DEF VersionsInReach, Reach
<1>6. QED
  BY <1>2, <1>3, <1>4, <1>5

LEMMA InsertStep ==
  ASSUME Records, InsertVersion
  PROVE  Records'
<1> USE DEF Records
<1>1. /\ editions' = editions /\ copied' = copied /\ known' = known /\ since' = since
      /\ confirmed' = confirmed /\ deferred' = deferred /\ originals' = originals
      /\ stops' = stops /\ todo' = todo /\ done' = done
      /\ pc = "insert" /\ versions' = [versions EXCEPT ![cur] = Append(@, got)]
      /\ pc' = (IF cur \in Files THEN "confirm" ELSE "next")
      /\ pc' = "confirm" => cur' = cur /\ got' = got
      /\ cur' \in {cur, Null} /\ got' \in {got, Null}
  BY DEF InsertVersion, ItemOver, site, run
<1>2. /\ cur \in Sources /\ copied[cur] \in Nat \ {0} /\ got \in Contents
      /\ versions[cur] \in Seq(Contents)
      /\ Follows(Append(versions[cur], got), editions[cur], Reach(cur))
      /\ cur \in Files => Taken(cur, got, copied[cur])
  BY <1>1 DEF TypeOK, ItemKnown, ContentFits
<1>3. /\ versions'[cur] = Append(versions[cur], got)
      /\ versions'[cur] # <<>> /\ versions'[cur][Len(versions'[cur])] = got
      /\ versions'[cur] \in Seq(Contents)
  <2>1. versions'[cur] = Append(versions[cur], got)
    BY <1>1, <1>2 DEF TypeOK
  <2> DEFINE vs == versions[cur]
             vt == versions'[cur]
  <2>2. vs \in Seq(Contents) /\ got \in Contents /\ vt = Append(vs, got)
    BY <1>2, <2>1
  <2> HIDE DEF vs, vt
  <2>3. vt # <<>> /\ vt[Len(vt)] = got /\ vt \in Seq(Contents)
    BY <2>2
  <2>4. QED
    BY <2>1, <2>3 DEF vt
<1>4. \A t \in Sources : t # cur => versions'[t] = versions[t]
  BY <1>1, <1>2 DEF TypeOK
<1>5. TypeOK'
  <2>1. versions' \in [Sources -> Seq(Contents)]
    BY <1>1, <1>2 DEF TypeOK
  <2>2. QED
    BY <1>1, <1>2, <2>1 DEF TypeOK
<1>6. ItemKnown'
  BY <1>1 DEF ItemKnown
<1>7. ContentFits'
  BY <1>1 DEF ContentFits
<1>8. ConfirmsStored'
  <2>1. SUFFICES ASSUME cur \in Files
                 PROVE  versions'[cur] # <<>> /\ Taken(cur, versions'[cur][Len(versions'[cur])], copied[cur])
    BY <1>1 DEF ConfirmsStored, Taken, Latest
  <2>2. QED
    BY <1>2, <1>3, <2>1
<1>9. ConfirmationsSound'
  <2>1. SUFFICES ASSUME NEW t \in Sources, confirmed[t] > 0
                 PROVE  /\ t \in Files /\ versions'[t] # <<>>
                        /\ Taken(t, versions'[t][Len(versions'[t])], confirmed[t])
    BY <1>1 DEF ConfirmationsSound, Taken, Latest
  <2>2. CASE t = cur
    <3>1. t \in Files /\ confirmed[t] <= copied[t] /\ confirmed[t] \in Nat
      BY <2>1 DEF ConfirmationsSound, TypeOK
    <3>2. PICK n \in copied[t]..Len(editions[t]) : editions[t][n].content = got
      BY <1>2, <2>2, <3>1 DEF Taken
    <3>3. n \in confirmed[t]..Len(editions[t])
      BY <1>2, <2>2, <3>1, <3>2
    <3>4. Taken(t, got, confirmed[t])
      BY <3>2, <3>3 DEF Taken
    <3>5. QED
      BY <1>3, <2>2, <3>1, <3>4
  <2>3. CASE t # cur
    BY <1>4, <2>1, <2>3 DEF ConfirmationsSound, Latest
  <2>4. QED
    BY <2>2, <2>3
<1>10. DeferralsSound'
  BY <1>1 DEF DeferralsSound
<1>11. VersionsInReach'
  <2>1. SUFFICES ASSUME NEW t \in Sources PROVE Follows(versions'[t], editions[t], Reach(t))
    BY <1>1 DEF VersionsInReach, Reach
  <2>2. CASE t = cur
    BY <1>2, <1>3, <2>2
  <2>3. CASE t # cur
    BY <1>4, <2>3 DEF VersionsInReach
  <2>4. QED
    BY <2>2, <2>3
<1>12. QED
  BY <1>5, <1>6, <1>7, <1>8, <1>9, <1>10, <1>11

LEMMA ConfirmStep ==
  ASSUME Records, Confirm
  PROVE  Records'
<1> USE DEF Records
<1>1. /\ editions' = editions /\ copied' = copied /\ known' = known /\ since' = since
      /\ versions' = versions /\ deferred' = deferred /\ originals' = originals
      /\ stops' = stops /\ todo' = todo /\ done' = done /\ cur' = cur /\ got' = got
      /\ pc = "confirm" /\ pc' = "clear" /\ confirmed' = [confirmed EXCEPT ![cur] = copied[cur]]
  BY DEF Confirm, site, run
<1>2. /\ cur \in Sources /\ cur \in Files /\ copied[cur] \in Nat
      /\ versions[cur] # <<>> /\ Taken(cur, Latest(cur), copied[cur])
  BY <1>1 DEF TypeOK, ItemKnown, ConfirmsStored
<1>3. TypeOK' /\ ItemKnown'
  BY <1>1, <1>2 DEF TypeOK, ItemKnown
<1>4. ContentFits' /\ ConfirmsStored'
  BY <1>1 DEF ContentFits, ConfirmsStored, Taken, Latest
<1>5. ConfirmationsSound'
  <2>1. SUFFICES ASSUME NEW t \in Sources
                 PROVE  /\ confirmed'[t] <= copied[t]
                        /\ confirmed'[t] > 0 =>
                             t \in Files /\ versions[t] # <<>> /\ Taken(t, Latest(t), confirmed'[t])
    BY <1>1 DEF ConfirmationsSound, Taken, Latest
  <2>2. CASE t = cur
    <3>1. confirmed'[t] = copied[cur]
      BY <1>1, <2>2 DEF TypeOK
    <3>2. QED
      BY <1>2, <2>2, <3>1
  <2>3. CASE t # cur
    BY <1>1, <2>3 DEF TypeOK, ConfirmationsSound
  <2>4. QED
    BY <2>2, <2>3
<1>6. DeferralsSound' /\ VersionsInReach'
  BY <1>1 DEF DeferralsSound, VersionsInReach, Reach
<1>7. QED
  BY <1>3, <1>4, <1>5, <1>6

LEMMA ClearStep ==
  ASSUME Records, ClearDeferral
  PROVE  Records'
<1> USE DEF Records
<1>1. /\ editions' = editions /\ copied' = copied /\ known' = known /\ since' = since
      /\ versions' = versions /\ confirmed' = confirmed /\ originals' = originals
      /\ stops' = stops /\ todo' = todo /\ done' = done /\ cur' = Null /\ got' = Null
      /\ pc' = "next" /\ deferred' = [deferred EXCEPT ![cur] = 0]
  BY DEF ClearDeferral, ItemOver, site
<1>2. deferred' \in [Sources -> Nat] /\ \A t \in Sources : deferred'[t] \in {0, deferred[t]}
  BY <1>1 DEF TypeOK
<1>3. TypeOK' /\ ItemKnown'
  BY <1>1, <1>2 DEF TypeOK, ItemKnown
<1>4. ContentFits' /\ ConfirmsStored'
  BY <1>1 DEF ContentFits, ConfirmsStored
<1>5. DeferralsSound'
  <2>1. ASSUME NEW t \in Sources, deferred'[t] > 0 PROVE deferred'[t] = deferred[t]
    BY <1>2, <2>1
  <2>2. QED
    BY <1>1, <2>1 DEF DeferralsSound
<1>6. ConfirmationsSound' /\ VersionsInReach'
  BY <1>1 DEF ConfirmationsSound, Taken, Latest, VersionsInReach, Reach
<1>7. QED
  BY <1>3, <1>4, <1>5, <1>6

LEMMA NextRecords == Records /\ [Next]_vars => Records'
<1> SUFFICES ASSUME Records, [Next]_vars PROVE Records'
  OBVIOUS
<1>1. CASE Next
  <2>1. CASE \E s \in Sources : Publish(s) \/ Sync(s)
    BY <2>1, PublishStep, SyncStep
  <2>2. CASE BeginRun \/ EndRun \/ Interrupted
    BY <2>2, RunBoundsStep
  <2>3. CASE \E s \in Sources : Upsert(s)
    BY <2>3, UpsertStep
  <2>4. CASE Ingest
    <3>1. CASE FetchUrl
      BY <3>1, FetchUrlStep
    <3>2. CASE Download
      BY <3>2, DownloadStep
    <3>3. CASE TooLarge \/ DownloadFails \/ StoreFails
      BY <3>3, NothingStoredStep
    <3>4. CASE Store
      BY <3>4, StoreStep
    <3>5. CASE InsertVersion
      BY <3>5, InsertStep
    <3>6. CASE Confirm
      BY <3>6, ConfirmStep
    <3>7. CASE ClearDeferral
      BY <3>7, ClearStep
    <3>8. QED
      BY <2>4, <3>1, <3>2, <3>3, <3>4, <3>5, <3>6, <3>7 DEF Ingest
  <2>5. QED
    BY <1>1, <2>1, <2>2, <2>3, <2>4 DEF Next, Job
<1>2. CASE UNCHANGED vars
  <2>1. /\ editions' = editions /\ copied' = copied /\ known' = known /\ since' = since
        /\ versions' = versions /\ confirmed' = confirmed /\ deferred' = deferred
        /\ originals' = originals /\ pc' = pc /\ todo' = todo /\ done' = done /\ cur' = cur
        /\ got' = got /\ stops' = stops
    BY <1>2 DEF vars, site, stored, run
  <2>2. TypeOK' /\ ItemKnown' /\ ContentFits' /\ ConfirmsStored'
    BY <2>1 DEF Records, TypeOK, ItemKnown, ContentFits, ConfirmsStored, Reach, Taken, Latest
  <2>3. ConfirmationsSound' /\ DeferralsSound' /\ VersionsInReach'
    BY <2>1 DEF Records, ConfirmationsSound, DeferralsSound, VersionsInReach,
                Reach, Taken, Latest
  <2>4. QED
    BY <2>2, <2>3 DEF Records
<1>3. QED
  BY <1>1, <1>2

\* The file is there before its row, and the service removes none.
LEMMA OriginalsStep ==
  ASSUME IInv, [Next]_vars
  PROVE  OriginalFirst' /\ VersionsHaveOriginals'
<1>1. CASE InsertVersion
  <2>1. /\ originals' = originals /\ pc' # "insert" /\ got \in originals
        /\ versions' = [versions EXCEPT ![cur] = Append(@, got)]
    BY <1>1 DEF InsertVersion, ItemOver, IInv, OriginalFirst
  <2>2. cur \in Sources /\ versions \in [Sources -> Seq(Contents)]
    BY <1>1 DEF IInv, Records, TypeOK, ItemKnown, InsertVersion
  <2>3. ASSUME NEW t \in Sources, NEW i \in DOMAIN versions'[t] PROVE versions'[t][i] \in originals
    <3>1. \A k \in DOMAIN versions[t] : versions[t][k] \in originals
      BY DEF IInv, VersionsHaveOriginals, ToSet
    <3>2. CASE t = cur
      <4>1. versions'[t] = Append(versions[t], got) /\ versions[t] \in Seq(Contents)
        BY <2>1, <2>2, <3>2
      <4>2. i \in 1..Len(versions[t]) + 1
        BY <2>3, <4>1
      <4>3. CASE i = Len(versions[t]) + 1
        BY <2>1, <4>1, <4>3
      <4>4. CASE i \in DOMAIN versions[t]
        BY <3>1, <4>1, <4>4
      <4>5. QED
        BY <4>1, <4>2, <4>3, <4>4
    <3>3. CASE t # cur
      BY <2>1, <2>2, <2>3, <3>1, <3>3
    <3>4. QED
      BY <3>2, <3>3
  <2>4. QED
    BY <2>1, <2>3 DEF OriginalFirst, VersionsHaveOriginals, ToSet
<1>2. CASE Store
  BY <1>2 DEF Store, site, run, IInv, OriginalFirst, VersionsHaveOriginals
<1>3. CASE ~InsertVersion /\ ~Store
  <2>1. /\ versions' = versions /\ originals' = originals
        /\ pc' = "insert" => pc = "insert" /\ got' = got
    <3>1. CASE UNCHANGED vars
      BY <3>1 DEF vars, stored, run
    <3>2. CASE \/ \E s \in Sources : Publish(s) \/ Sync(s) \/ Upsert(s)
               \/ BeginRun \/ EndRun \/ Interrupted
      BY <3>2 DEF Publish, Sync, Upsert, BeginRun, EndRun, Interrupted, RunOver, stored, run
    <3>3. CASE Ingest
      BY <1>3, <3>3 DEF Ingest, FetchUrl, Download, TooLarge, DownloadFails, StoreFails, Confirm,
                        ClearDeferral, ItemOver, stored
    <3>4. QED
      BY <3>1, <3>2, <3>3 DEF Next, Job
  <2>2. QED
    BY <2>1 DEF IInv, OriginalFirst, VersionsHaveOriginals
<1>4. QED
  BY <1>1, <1>2, <1>3

LEMMA NextIInv == IInv /\ [Next]_vars => IInv'
BY NextRecords, OriginalsStep DEF IInv

LEMMA IInvHolds == Spec => []IInv
BY InitIInv, NextIInv, PTL DEF Spec

\* What the tables say is enough for the versions to follow the editions.
LEMMA RecordsFollow ==
  ASSUME Records
  PROVE  VersionsFollowEditions
<1>1. SUFFICES ASSUME NEW s \in Sources PROVE Follows(versions[s], editions[s], Len(editions[s]))
  BY DEF VersionsFollowEditions
<1>2. /\ versions[s] \in Seq(Contents) /\ editions[s] \in Seq(Editions)
      /\ Reach(s) \in Nat /\ Reach(s) <= Len(editions[s]) /\ Len(editions[s]) \in Nat
      /\ Follows(versions[s], editions[s], Reach(s))
  BY DEF Records, TypeOK, VersionsInReach, Reach
<1>3. QED
  BY <1>2, FollowsGrow

\* And for what counts as settled to be current.
LEMMA RecordsSettle ==
  ASSUME Records
  PROVE  SettledIsCurrent
<1>1. SUFFICES ASSUME NEW s \in Sources, copied[s] > 0, copied[s] = Len(editions[s]), ~Pending(s)
               PROVE  IF versions[s] = <<>> THEN s \in Files /\ Served(s).big
                      ELSE Latest(s) = Served(s).content
  BY DEF SettledIsCurrent
<1>2. \A n \in copied[s]..Len(editions[s]) : n = Len(editions[s])
  BY <1>1 DEF Records, TypeOK
<1>3. CASE versions[s] = <<>>
  <2>1. deferred[s] = copied[s]
    BY <1>1, <1>3 DEF Pending
  <2>2. s \in Files /\ \E n \in deferred[s]..Len(editions[s]) : editions[s][n].big
    BY <1>1, <2>1 DEF Records, DeferralsSound
  <2>3. QED
    BY <1>2, <1>3, <2>1, <2>2 DEF Served
<1>4. CASE versions[s] # <<>> /\ s \in Urls
  BY <1>1, <1>4 DEF Pending, Served
<1>5. CASE versions[s] # <<>> /\ s \notin Urls
  <2>1. confirmed[s] = copied[s]
    BY <1>1, <1>5 DEF Pending
  <2>2. Taken(s, Latest(s), copied[s])
    BY <1>1, <2>1 DEF Records, ConfirmationsSound
  <2>3. QED
    BY <1>2, <1>5, <2>2 DEF Served, Taken
<1>6. QED
  BY <1>3, <1>4, <1>5

-----------------------------------------------------------------------------
(* The order of the attempts *)

\* The last attempts of the resources are one after another: each is later
\* than those of the resources that it does not find in its since.
AttemptsOrdered ==
  /\ \A s \in Sources : since[s] \subseteq known /\ s \notin since[s]
  /\ \A s, t, u \in Sources : t \in since[s] /\ u \in since[t] => u \in since[s]
  /\ \A s, t \in known : s = t \/ s \in since[t] \/ t \in since[s]

LEMMA AttemptsKept ==
  ASSUME TypeOK, AttemptsOrdered, [Next]_vars
  PROVE  AttemptsOrdered'
<1>1. ASSUME NEW p \in Sources, Upsert(p)
      PROVE  AttemptsOrdered'
  <2>1. /\ known' = known \cup {p} /\ known \subseteq Sources
        /\ \A s \in Sources : since'[s] = IF s \in known \ {p} THEN since[s] \cup {p} ELSE {}
    BY <1>1 DEF Upsert, TypeOK
  <2>2. \A s \in Sources : since'[s] \subseteq known' /\ s \notin since'[s]
    BY <2>1 DEF AttemptsOrdered
  <2>3. ASSUME NEW s \in Sources, NEW t \in Sources, NEW u \in Sources,
               t \in since'[s], u \in since'[t]
        PROVE  u \in since'[s]
    <3>1. /\ s \in known \ {p} /\ t \in known \ {p} /\ t \in since[s] \cup {p}
          /\ u \in since[t] \cup {p}
      BY <2>1, <2>3
    <3>2. t \in since[s]
      BY <3>1
    <3>3. u \in since[s] \cup {p}
      BY <2>3, <3>1, <3>2 DEF AttemptsOrdered
    <3>4. QED
      BY <2>1, <3>1, <3>3
  <2>4. ASSUME NEW s \in known', NEW t \in known', s # t
        PROVE  s \in since'[t] \/ t \in since'[s]
    <3>1. CASE s = p
      BY <2>1, <2>4, <3>1
    <3>2. CASE t = p
      BY <2>1, <2>4, <3>2
    <3>3. CASE s # p /\ t # p
      <4>1. s \in since[t] \/ t \in since[s]
        BY <2>1, <2>4, <3>3 DEF AttemptsOrdered
      <4>2. QED
        BY <2>1, <2>4, <3>3, <4>1
    <3>4. QED
      BY <3>1, <3>2, <3>3
  <2>5. QED
    BY <2>2, <2>3, <2>4 DEF AttemptsOrdered
<1>2. CASE UNCHANGED <<known, since>>
  BY <1>2 DEF AttemptsOrdered
<1>3. CASE ~ \E p \in Sources : Upsert(p)
  <2>1. CASE UNCHANGED vars
    BY <1>2, <2>1 DEF vars, stored
  <2>2. CASE \/ \E s \in Sources : Publish(s) \/ Sync(s)
             \/ BeginRun \/ EndRun \/ Interrupted
    BY <1>2, <2>2 DEF Publish, Sync, BeginRun, EndRun, Interrupted, stored
  <2>3. CASE Ingest
    BY <1>2, <1>3, <2>3 DEF Ingest, FetchUrl, Download, TooLarge, DownloadFails, Store,
                            StoreFails, InsertVersion, Confirm, ClearDeferral, stored
  <2>4. QED
    BY <1>3, <2>1, <2>2, <2>3 DEF Next, Job
<1>4. QED
  BY <1>1, <1>3

\* Among items of a run, those of some group come first ...
LEMMA SomeGroupFirst ==
  ASSUME NEW T, T # {}
  PROVE  \E s \in T : \A t \in T : ~(Group(t) < Group(s))
<1>1. \A s \in T : Group(s) \in {0, 1, 2}
  BY DEF Group
<1>2. CASE \E s \in T : Group(s) = 0
  BY <1>1, <1>2
<1>3. CASE ~(\E s \in T : Group(s) = 0) /\ \E s \in T : Group(s) = 1
  BY <1>1, <1>3
<1>4. CASE \A s \in T : Group(s) = 2
  BY <1>1, <1>4
<1>5. QED
  BY <1>1, <1>2, <1>3, <1>4

\* ... and one of any items has waited longest: the resources that were not
\* attempted since are fewest, and a later attempt leaves more of them.
LEMMA SomeAttemptFirst ==
  ASSUME IsFiniteSet(Sources), TypeOK, AttemptsOrdered, NEW T \in SUBSET Sources, T # {}
  PROVE  \E s \in T : \A t \in T : s \notin since[t]
<1> DEFINE left(s) == Sources \ since[s]
           L == {left(s) : s \in T}
<1>1. PICK m \in L : \A n \in L : <<n, m>> \notin StrictSubsetOrdering(Sources)
  <2>1. L \subseteq SUBSET Sources /\ L # {}
    OBVIOUS
  <2>2. IsWellFoundedOn(StrictSubsetOrdering(Sources), SUBSET Sources)
    BY FS_StrictSubsetOrderingWellFounded, FS_FiniteSubsetsOfFinite
  <2> HIDE DEF L
  <2>3. QED
    BY <2>1, <2>2, WFMin
<1>2. PICK s \in T : m = left(s)
  OBVIOUS
<1>3. ASSUME NEW t \in T, s \in since[t] PROVE FALSE
  <2>1. left(t) \subseteq left(s) /\ s \in left(s) /\ s \notin left(t)
    BY <1>3 DEF AttemptsOrdered, TypeOK
  <2>2. /\ left(t) \in SUBSET Sources /\ left(s) \in SUBSET Sources
        /\ left(t) # left(s) /\ left(t) \in L
    BY <2>1
  <2> HIDE DEF left, L
  <2>3. <<left(t), left(s)>> \in StrictSubsetOrdering(Sources)
    <3>1. LET p == <<left(t), left(s)>> IN
            p \in (SUBSET Sources) \X (SUBSET Sources) /\ p[1] = left(t) /\ p[2] = left(s)
      BY <2>2
    <3>2. QED
      BY <2>1, <2>2, <3>1 DEF StrictSubsetOrdering
  <2>4. QED
    BY <1>1, <1>2, <2>2, <2>3
<1>4. QED
  BY <1>3

-----------------------------------------------------------------------------
(* Theorems *)

\* Every reachable state is well typed, and a run keeps to its budget of items.
THEOREM IngestionTypeCorrect == Spec => []TypeOK
<1>1. IInv => TypeOK
  BY DEF IInv, Records
<1>2. QED
  BY <1>1, IInvHolds, PTL

\* No version row is ever without the file of its content.
THEOREM OriginalsHold == Spec => []VersionsHaveOriginals
<1>1. IInv => VersionsHaveOriginals
  BY DEF IInv
<1>2. QED
  BY <1>1, IInvHolds, PTL

\* The versions of a document are contents of its editions, in the order of
\* publication and without repetition.
THEOREM VersionsFollowHolds == Spec => []VersionsFollowEditions
<1>1. IInv => VersionsFollowEditions
  BY RecordsFollow DEF IInv
<1>2. QED
  BY <1>1, IInvHolds, PTL

\* A document whose row is current and that is not pending is stored in its
\* current edition, or that edition is over the limit and it has no version.
THEOREM SettledIsCurrentHolds == Spec => []SettledIsCurrent
<1>1. IInv => SettledIsCurrent
  BY RecordsSettle DEF IInv
<1>2. QED
  BY <1>1, IInvHolds, PTL

\* While items are left there is one that no other precedes: the sort of
\* _pending_items() leaves none out, however the groups change during the run.
SomeItemIsNext == todo # {} => \E s \in todo : \A t \in todo : ~Precedes(t, s)

\* And it is the only one unless it is new: no two attempts are at the same time.
OneItemIsNext ==
  \A s, t \in todo \cap known :
    (\A u \in todo : ~Precedes(u, s) /\ ~Precedes(u, t)) => s = t

\* With finitely many sources, what the sort key puts next in _pending_items()
\* always exists, and is one item unless it is new.
THEOREM NextItemIsDefinite ==
  ASSUME IsFiniteSet(Sources)
  PROVE  Spec => [](SomeItemIsNext /\ OneItemIsNext)
<1>1. Init => AttemptsOrdered
  BY DEF Init, AttemptsOrdered
<1>2. TypeOK /\ AttemptsOrdered => SomeItemIsNext
  <2>1. SUFFICES ASSUME TypeOK, AttemptsOrdered, todo # {}
                 PROVE  \E s \in todo : \A t \in todo : ~Precedes(t, s)
    BY DEF SomeItemIsNext
  <2>2. PICK g \in todo : \A t \in todo : ~(Group(t) < Group(g))
    BY <2>1, SomeGroupFirst
  <2> DEFINE T == {s \in todo : Group(s) = Group(g)}
  <2>3. T \in SUBSET Sources /\ T # {}
    BY <2>1, <2>2 DEF TypeOK
  <2>4. PICK s \in T : \A t \in T : s \notin since[t]
    BY <2>1, <2>3, SomeAttemptFirst
  <2>5. ASSUME NEW t \in todo PROVE ~Precedes(t, s)
    BY <2>2, <2>4 DEF Precedes
  <2>6. QED
    BY <2>5
<1>3. TypeOK /\ AttemptsOrdered => OneItemIsNext
  <2>1. SUFFICES ASSUME AttemptsOrdered, NEW s \in todo \cap known, NEW t \in todo \cap known,
                        \A u \in todo : ~Precedes(u, s) /\ ~Precedes(u, t)
                 PROVE  s = t
    BY DEF OneItemIsNext
  <2>2. Group(s) \in {1, 2} /\ Group(t) \in {1, 2}
    BY <2>1 DEF Group
  <2>3. ~(Group(s) < Group(t)) /\ ~(Group(t) < Group(s))
    BY <2>1 DEF Precedes
  <2>4. Group(s) = Group(t)
    BY <2>2, <2>3
  <2>5. t \notin since[s] /\ s \notin since[t]
    BY <2>1, <2>4 DEF Precedes
  <2>6. QED
    BY <2>1, <2>5 DEF AttemptsOrdered
<1>4. TypeOK /\ AttemptsOrdered /\ [Next]_vars => AttemptsOrdered'
  BY AttemptsKept
<1>5. QED
  BY <1>1, <1>2, <1>3, <1>4, IngestionTypeCorrect, PTL DEF Spec
====
