---- MODULE RemindersProofs ----
(* Proofs about Reminders, for any rules, assignments, deadlines and cycle.   *)
EXTENDS ReminderBands, WellFoundedInduction, TLAPS

-----------------------------------------------------------------------------
(* Rules and bands *)

Less == {pair \in Nat \X Nat : pair[1] < pair[2]}

\* A set of naturals has a least element: the least-number principle, from the
\* well-foundedness of < on the naturals.
LEMMA LeastOfNaturals ==
  ASSUME NEW S \in SUBSET Nat, S # {}
  PROVE  \E m \in S : \A n \in S : m <= n
<1>1. IsWellFoundedOn(Less, Nat)
  BY NatLessThanWellFounded DEF OpToRel, Less
<1>2. PICK m \in S : \A n \in S : <<n, m>> \notin Less
  BY <1>1, WFMin
<1>3. ASSUME NEW n \in S PROVE m <= n
  <2>1. <<n, m>> \notin Less
    BY <1>2
  <2>2. <<n, m>> \in Nat \X Nat /\ <<n, m>>[1] = n /\ <<n, m>>[2] = m
    OBVIOUS
  <2>3. ~(n < m)
    BY <2>1, <2>2 DEF Less
  <2>4. QED
    BY <2>3
<1>4. QED
  BY <1>3

\* applicable_rule() returns one of the rules that are reached, the tightest.
LEMMA ApplicableIsTightest ==
  ASSUME NEW rules \in SUBSET Rules, NEW left \in Int, Reached(rules, left) # {}
  PROVE  /\ Applicable(rules, left) \in Reached(rules, left)
         /\ \A s \in Reached(rules, left) : Applicable(rules, left).offset <= s.offset
<1> DEFINE S == {s.offset : s \in Reached(rules, left)}
<1>1. S \in SUBSET Nat /\ S # {}
  BY DEF Reached, Rules
<1>2. PICK m \in S : \A n \in S : m <= n
  BY <1>1, LeastOfNaturals
<1>3. \E r \in Reached(rules, left) : \A s \in Reached(rules, left) : r.offset <= s.offset
  BY <1>2
<1>4. QED
  BY <1>3 DEF Applicable

LEMMA NextSlotOnGrid ==
  ASSUME NEW t \in Nat
  PROVE  /\ NextSlot(t) \in Nat /\ NextSlot(t) > t /\ NextSlot(t) <= t + Cycle
         /\ NextSlot(t) % Cycle = 0
BY RemindersAssumption DEF NextSlot

\* The design of the bands (reminders.py): whatever rules validate() accepts
\* and wherever the deadline falls, the grid has a slot at which the time left
\* makes exactly this rule the applicable one, before the deadline.
THEOREM EveryBandHasASlot ==
  ASSUME NEW rules \in SUBSET Rules, Valid(rules), NEW r \in rules,
         NEW due \in Nat, r.offset <= due
  PROVE  \E t \in Nat : /\ t % Cycle = 0 /\ due - r.offset <= t /\ t <= due
                        /\ Reached(rules, due - t) # {}
                        /\ Applicable(rules, due - t) = r
<1> DEFINE x == due - r.offset
<1>0. r.offset \in Nat /\ r.offset >= Cycle /\ Cycle \in Nat \ {0} /\ x \in Nat
  BY RemindersAssumption DEF Rules, Valid
<1>1. PICK t \in Nat : t % Cycle = 0 /\ x <= t /\ t < x + Cycle
  <2>1. CASE x = 0
    <3>1. 0 \in Nat /\ 0 % Cycle = 0 /\ x <= 0 /\ 0 < x + Cycle
      BY <1>0, <2>1
    <3>2. QED
      BY <3>1
  <2>2. CASE x # 0
    <3>1. x - 1 \in Nat
      BY <1>0, <2>2
    <3>2. /\ NextSlot(x - 1) \in Nat /\ NextSlot(x - 1) % Cycle = 0
          /\ x <= NextSlot(x - 1) /\ NextSlot(x - 1) < x + Cycle
      BY <1>0, <3>1, NextSlotOnGrid
    <3>3. QED
      BY <3>2
  <2>3. QED
    BY <2>1, <2>2
<1>2. t <= due /\ due - t <= r.offset /\ r.offset < due - t + Cycle /\ due - t \in Int
  BY <1>0, <1>1
<1>3. r \in Reached(rules, due - t)
  BY <1>2 DEF Reached
<1>4. ASSUME NEW s \in Reached(rules, due - t), s # r PROVE r.offset < s.offset
  <2>1. s \in rules /\ s.offset \in Nat /\ s.offset >= due - t
    BY <1>4 DEF Reached, Rules
  <2>2. s.offset # r.offset /\ (s.offset < r.offset => r.offset - s.offset >= Cycle)
    BY <1>4, <2>1 DEF Valid
  <2>3. QED
    BY <1>0, <1>2, <2>1, <2>2
<1>5. Applicable(rules, due - t) = r
  <2>1. /\ Applicable(rules, due - t) \in Reached(rules, due - t)
        /\ Applicable(rules, due - t).offset <= r.offset
    BY <1>2, <1>3, ApplicableIsTightest
  <2>2. CASE Applicable(rules, due - t) # r
    <3>1. r.offset < Applicable(rules, due - t).offset
      BY <1>4, <2>1, <2>2
    <3>2. Applicable(rules, due - t).offset \in Nat
      BY <2>1 DEF Reached, Rules
    <3>3. QED
      BY <1>0, <2>1, <3>1, <3>2
  <2>3. QED
    BY <2>2
<1>6. QED
  BY <1>1, <1>2, <1>3, <1>5

-----------------------------------------------------------------------------
(* The inductive invariant *)

\* What is known of the notifications that wait to be sent: nothing else writes
\* the tables they were made from while the job runs.
Sendable(n) ==
  /\ n \notin sent
  /\ copy[n.of].status = "new" /\ copy[n.of].due = n.due
  /\ copy[n.of].synced >= confirmed

BatchSound ==
  IF pc \in {"send", "record"} THEN \A n \in batch : Sendable(n) ELSE batch = {}

IInv == TypeOK /\ BatchSound

\* The rules in force can be applied: they were validated on the way in.
LEMMA EffectiveValid ==
  ASSUME TypeOK
  PROVE  Effective \in SUBSET Rules /\ Valid(Effective)
BY RemindersAssumption DEF TypeOK, Effective

LEMMA PendingSound ==
  ASSUME TypeOK
  PROVE  Pending \in SUBSET Notifications /\ \A n \in Pending : Sendable(n)
<1>1. ASSUME NEW n \in Pending PROVE n \in Notifications /\ Sendable(n)
  <2>1. PICK a \in Assignments :
          /\ Confirmed(a) /\ Owed(a) /\ Reached(Effective, copy[a].due - now) # {}
          /\ n = Due(a) /\ n \notin sent
    BY <1>1 DEF Pending
  <2>2. copy[a].due \in Dues /\ copy[a].due - now \in Int
    <3>1. copy[a].due \in Dues \cup {0} /\ now \in Nat
      BY DEF TypeOK
    <3>2. copy[a].due # 0
      BY <2>1 DEF Owed
    <3>3. Dues \subseteq Nat
      BY RemindersAssumption
    <3>4. copy[a].due \in Dues /\ copy[a].due \in Nat
      BY <3>1, <3>2, <3>3, Zenon
    <3>5. QED
      BY <3>1, <3>4
  <2>3. Applicable(Effective, copy[a].due - now) \in Reached(Effective, copy[a].due - now)
    BY <2>1, <2>2, EffectiveValid, ApplicableIsTightest
  <2>4. Applicable(Effective, copy[a].due - now).id \in Ids
    BY <2>3, EffectiveValid DEF Reached, Rules
  <2>5. n \in Notifications /\ n.of = a /\ n.due = copy[a].due
    BY <2>1, <2>2, <2>4 DEF Due, Notifications
  <2>6. QED
    BY <2>1, <2>5 DEF Sendable, Confirmed, Owed
<1>2. QED
  BY <1>1

LEMMA InitIInv == Init => IInv
<1> SUFFICES ASSUME Init PROVE IInv
  OBVIOUS
<1>1. 0 % Cycle = 0 /\ 0 \in 0..0
  BY RemindersAssumption
<1>2. site \in [Assignments -> [there: BOOLEAN, due: Dues, submitted: BOOLEAN]]
  BY DEF Init
<1>3. QED
  BY <1>1, <1>2 DEF Init, IInv, TypeOK, BatchSound

LEMMA LoopStep ==
  ASSUME IInv, Start \/ CheckSchedule \/ PickNone \/ PickNotifications \/ PickByHand \/ PickSync
  PROVE  IInv'
<1> USE DEF IInv, TypeOK, outside, synced, job
<1>0. NextSlot(now) \in Nat /\ NextSlot(now) % Cycle = 0
  BY NextSlotOnGrid
<1>1. BatchSound'
  BY DEF Start, CheckSchedule, PickNone, PickNotifications, PickByHand, PickSync, BatchSound
<1>2. CASE Start
  BY <1>0, <1>1, <1>2 DEF Start
<1>3. CASE CheckSchedule
  BY <1>0, <1>1, <1>3 DEF CheckSchedule
<1>4. CASE PickNone \/ PickNotifications \/ PickByHand
  BY <1>1, <1>4 DEF PickNone, PickNotifications, PickByHand
<1>5. CASE PickSync
  BY <1>1, <1>5 DEF PickSync
<1>6. QED
  BY <1>2, <1>3, <1>4, <1>5

\* The sync, and the reading of a status, which the refresh shares with it.
LEMMA SyncStep ==
  ASSUME IInv, CopyAssignments \/ (\E a \in todo : ReadStatus(a) \/ WarnStatus(a))
               \/ SyncDone \/ SyncFails
  PROVE  IInv'
<1> USE DEF IInv, TypeOK, outside, synced, job
<1>1. BatchSound'
  BY DEF CopyAssignments, ReadStatus, WarnStatus, SyncDone, SyncFails, BatchSound
<1>2. CASE CopyAssignments
  <2>1. copy' \in [Assignments -> [due: Dues \cup {0}, synced: Nat, status: {Null, "new", "submitted"}]]
    BY <1>2 DEF CopyAssignments, Listed
  <2>2. todo' \in SUBSET Assignments
    BY <1>2 DEF CopyAssignments, Listed
  <2>3. QED
    BY <1>1, <1>2, <2>1, <2>2 DEF CopyAssignments
<1>3. CASE \E a \in todo : ReadStatus(a)
  BY <1>1, <1>3 DEF ReadStatus
<1>4. CASE \E a \in todo : WarnStatus(a)
  BY <1>1, <1>4 DEF WarnStatus
<1>5. CASE SyncDone
  BY <1>1, <1>5 DEF SyncDone
<1>6. CASE SyncFails
  BY <1>1, <1>6 DEF SyncFails
<1>7. QED
  BY <1>2, <1>3, <1>4, <1>5, <1>6

LEMMA NotifyStep ==
  ASSUME IInv, Notify
  PROVE  IInv'
<1> USE DEF IInv, TypeOK, outside, synced, job
<1>1. CASE Ask
  <2>1. pc' \in {"idle", "look"} /\ BatchSound'
    BY <1>1 DEF Ask, BatchSound
  <2>2. QED
    BY <1>1, <2>1 DEF Ask
<1>2. CASE Look
  <2>1. todo' \in SUBSET Assignments
    BY <1>2, PendingSound DEF Look, Notifications
  <2>2. QED
    BY <1>2, <2>1 DEF Look, BatchSound
<1>3. CASE RefreshFails
  BY <1>3 DEF RefreshFails, BatchSound
<1>4. CASE LookAgain
  <2>1. batch' \in SUBSET Notifications /\ \A n \in batch' : Sendable(n)
    BY <1>4, PendingSound DEF LookAgain
  <2>2. BatchSound'
    BY <1>4, <2>1 DEF LookAgain, BatchSound, Sendable
  <2>3. QED
    BY <1>4, <2>1, <2>2 DEF LookAgain
<1>5. CASE \E n \in batch : Deliver(n)
  BY <1>5 DEF Deliver, BatchSound, Sendable
<1>6. CASE \E n \in batch : SendFails(n)
  BY <1>6 DEF SendFails, BatchSound, Sendable
<1>7. CASE Record
  <2>1. item \in batch /\ item \in Notifications
    BY <1>7 DEF Record
  <2>2. BatchSound'
    BY <1>7, <2>1 DEF Record, BatchSound, Sendable
  <2>3. QED
    BY <1>7, <2>1, <2>2 DEF Record
<1>8. CASE Finish
  BY <1>8 DEF Finish, BatchSound
<1>9. CASE AttemptFails
  BY <1>9 DEF AttemptFails, BatchSound
<1>10. CASE Retry
  <2>1. pc' \in {"ask", "look", "idle"} /\ BatchSound'
    BY <1>10 DEF Retry, BatchSound
  <2>2. QED
    BY <1>10, <2>1 DEF Retry
<1>11. QED
  BY <1>1, <1>2, <1>3, <1>4, <1>5, <1>6, <1>7, <1>8, <1>9, <1>10 DEF Notify

LEMMA OutsideStep ==
  ASSUME IInv, Crash \/ SiteChanges \/ ReplaceRules \/ ClearRules \/ Tick
  PROVE  IInv'
<1> USE DEF IInv, TypeOK, outside, synced, job
<1>1. CASE Crash
  <2>1. 0 % Cycle = 0
    BY RemindersAssumption
  <2>2. QED
    BY <1>1, <2>1 DEF Crash, BatchSound
<1>2. CASE SiteChanges
  <2>1. site' \in [Assignments -> [there: BOOLEAN, due: Dues, submitted: BOOLEAN]]
    <3>1. PICK a \in Assignments :
            \/ site' = [site EXCEPT ![a].submitted = TRUE]
            \/ \E d \in Dues : site' = [site EXCEPT ![a].due = d]
            \/ site' = [site EXCEPT ![a].there = ~@]
      BY <1>2 DEF SiteChanges
    <3>2. site[a] \in [there: BOOLEAN, due: Dues, submitted: BOOLEAN]
      OBVIOUS
    <3>3. CASE site' = [site EXCEPT ![a].submitted = TRUE]
      BY <3>2, <3>3
    <3>4. CASE \E d \in Dues : site' = [site EXCEPT ![a].due = d]
      BY <3>2, <3>4
    <3>5. CASE site' = [site EXCEPT ![a].there = ~@]
      <4>1. (~site[a].there) \in BOOLEAN
        OBVIOUS
      <4>2. QED
        BY <3>2, <3>5, <4>1
    <3>6. QED
      BY <3>1, <3>3, <3>4, <3>5
  <2>2. QED
    BY <1>2, <2>1 DEF SiteChanges, BatchSound, Sendable
<1>3. CASE ReplaceRules
  BY <1>3, RemindersAssumption DEF ReplaceRules, BatchSound, Sendable
<1>4. CASE ClearRules
  BY <1>4 DEF ClearRules, BatchSound, Sendable
<1>5. CASE Tick
  BY <1>5 DEF Tick, BatchSound, Sendable
<1>6. QED
  BY <1>1, <1>2, <1>3, <1>4, <1>5

LEMMA NextIInv ==
  ASSUME IInv, [Next]_vars
  PROVE  IInv'
<1>1. CASE Next
  BY <1>1, LoopStep, SyncStep, NotifyStep, OutsideStep DEF Next, Sync
<1>2. CASE UNCHANGED vars
  BY <1>2 DEF vars, outside, synced, job, IInv, TypeOK, BatchSound, Sendable, Valid
<1>3. QED
  BY <1>1, <1>2

LEMMA InvariantHolds == Spec => []IInv
<1>1. IInv /\ [Next]_vars => IInv'
  BY NextIInv
<1>2. QED
  BY InitIInv, <1>1, PTL DEF Spec

\* Type correctness, slots on the hour and the message in flight included.
THEOREM RemindersTypeCorrect == Spec => []TypeOK
<1>1. IInv => TypeOK
  BY DEF IInv
<1>2. QED
  BY InvariantHolds, <1>1, PTL

\* A message leaves only while its notification is sound.
LEMMA LeavingIsSound ==
  ASSUME IInv, NEW n \in batch, Leaves(n)
  PROVE  Sendable(n)
BY DEF IInv, BatchSound, Leaves, Deliver, SendFails

\* A reminder that was recorded is never sent again (NeverTwice), through
\* crashes, failed calls, moved deadlines and other rules.
THEOREM NeverTwiceHolds == Spec => NeverTwice
<1>1. IInv /\ [Next]_vars => [\A n \in batch : Leaves(n) => n \notin sent]_vars
  BY LeavingIsSound DEF Sendable
<1>2. QED
  BY InvariantHolds, <1>1, PTL DEF Spec, NeverTwice

\* No message about work that is known to be handed in, or with a deadline that
\* is not the one stored (SilentOnceKnown).
THEOREM SilentOnceKnownHolds == Spec => SilentOnceKnown
<1>1. IInv /\ [Next]_vars =>
        [\A n \in batch : Leaves(n) => copy[n.of].status = "new" /\ copy[n.of].due = n.due]_vars
  BY LeavingIsSound DEF Sendable
<1>2. QED
  BY InvariantHolds, <1>1, PTL DEF Spec, SilentOnceKnown

-----------------------------------------------------------------------------
(* Ghosts *)

\* A row was synced by a sync during which the site listed the assignment.
ListedSince ==
  /\ listed \in [Assignments -> Nat]
  /\ \A a \in Assignments : copy[a].synced <= listed[a] /\ copy[a].synced <= run

LEMMA InitListed == OInit => IInv /\ ListedSince
<1>1. OInit => ListedSince
  BY DEF OInit, Init, ListedSince
<1>2. QED
  BY <1>1, InitIInv DEF OInit

\* Only a sync writes the stamps, with its own number, of what is on the site.
LEMMA StampStep ==
  ASSUME IInv, Next
  PROVE  /\ run \in Nat /\ run' \in Nat /\ run <= run'
         /\ \A a \in Assignments :
              /\ copy[a].synced \in Nat
              /\ \/ copy'[a].synced = copy[a].synced
                 \/ copy'[a].synced = run' /\ site'[a].there
<1> USE DEF IInv, TypeOK, outside, synced, job
<1>1. run \in Nat /\ \A a \in Assignments : copy[a].synced \in Nat
  OBVIOUS
<1>2. CASE copy' = copy /\ (run' = run \/ run' = run + 1)
  BY <1>1, <1>2
<1>3. CASE CopyAssignments
  <2>1. run' = run /\ site' = site
    BY <1>3 DEF CopyAssignments
  <2>2. ASSUME NEW a \in Assignments
        PROVE  copy'[a].synced = copy[a].synced \/ (copy'[a].synced = run /\ site[a].there)
    <3>1. copy'[a] = IF a \in Listed THEN [copy[a] EXCEPT !.due = site[a].due, !.synced = run] ELSE copy[a]
      BY <1>3 DEF CopyAssignments
    <3>2. copy[a] \in [due: Dues \cup {0}, synced: Nat, status: {Null, "new", "submitted"}]
      OBVIOUS
    <3>3. QED
      BY <3>1, <3>2 DEF Listed
  <2>3. QED
    BY <1>1, <2>1, <2>2
<1>4. CASE \E a \in todo : ReadStatus(a)
  BY <1>1, <1>4 DEF ReadStatus
<1>5. CASE Start \/ CheckSchedule \/ PickNone \/ PickNotifications \/ PickByHand \/ PickSync
  BY <1>2, <1>5 DEF Start, CheckSchedule, PickNone, PickNotifications, PickByHand, PickSync
<1>6. CASE (\E a \in todo : WarnStatus(a)) \/ SyncDone \/ SyncFails
  BY <1>2, <1>6 DEF WarnStatus, SyncDone, SyncFails
<1>7. CASE Notify
  BY <1>2, <1>7 DEF Notify, Ask, Look, RefreshFails, LookAgain, Deliver, SendFails, Record, Finish,
                      AttemptFails, Retry
<1>8. CASE Crash \/ SiteChanges \/ ReplaceRules \/ ClearRules \/ Tick
  BY <1>2, <1>8 DEF Crash, SiteChanges, ReplaceRules, ClearRules, Tick
<1>9. QED
  BY <1>3, <1>4, <1>5, <1>6, <1>7, <1>8 DEF Next, Sync

LEMMA NextListed ==
  ASSUME IInv, ListedSince, [Next /\ Observe]_<<vars, observed>>
  PROVE  ListedSince'
<1>1. CASE Next /\ Observe
  <2>1. listed' = [a \in Assignments |-> IF site'[a].there THEN run' ELSE listed[a]]
    BY <1>1 DEF Observe
  <2>2. ASSUME NEW a \in Assignments
        PROVE  listed'[a] \in Nat /\ copy'[a].synced <= listed'[a] /\ copy'[a].synced <= run'
    BY <1>1, <2>1, StampStep DEF ListedSince
  <2>3. QED
    BY <2>1, <2>2 DEF ListedSince
<1>2. CASE UNCHANGED <<vars, observed>>
  BY <1>2 DEF vars, observed, outside, synced, ListedSince
<1>3. QED
  BY <1>1, <1>2

\* No reminder of an assignment that was not on the site since the last good
\* sync began (NoGhostReminder).
THEOREM NoGhostReminderHolds == OSpec => NoGhostReminder
<1>1. IInv /\ ListedSince /\ [Next /\ Observe]_<<vars, observed>> => IInv' /\ ListedSince'
  BY NextIInv, NextListed DEF observed, vars
<1>2. IInv /\ ListedSince /\ [Next /\ Observe]_<<vars, observed>> =>
        [\A n \in batch : Leaves(n) => listed[n.of] >= confirmed]_<<vars, observed>>
  <2>1. ASSUME IInv, ListedSince, NEW n \in batch, Leaves(n) PROVE listed[n.of] >= confirmed
    <3>1. n.of \in Assignments /\ confirmed \in Nat /\ run \in Nat
      BY <2>1 DEF IInv, TypeOK, Notifications
    <3>2. copy[n.of].synced \in Nat /\ listed[n.of] \in Nat /\ copy[n.of].synced <= listed[n.of]
      BY <2>1, <3>1 DEF IInv, TypeOK, ListedSince
    <3>3. copy[n.of].synced >= confirmed
      BY <2>1, LeavingIsSound DEF Sendable
    <3>4. QED
      BY <3>1, <3>2, <3>3
  <2>2. QED
    BY <2>1
<1>3. QED
  BY InitListed, <1>1, <1>2, PTL DEF OSpec, NoGhostReminder

-----------------------------------------------------------------------------
(* Bands *)

\* The reminder that a look at time t finds for this assignment.
Told(a, t) ==
  [rule |-> Applicable(Effective, copy[a].due - t).id, of |-> a, due |-> copy[a].due]

\* There was a slot at time t, when the deadline was known, pending, and in the
\* band of a rule.
Owing(a, t) ==
  /\ since[a] # Null /\ since[a] < t /\ t <= now /\ t % Cycle = 0
  /\ t <= copy[a].due /\ Reached(Effective, copy[a].due - t) # {}

\* The notifications of this hour are still being worked on.
AtHand(n) ==
  \/ slot = now \/ queued
  \/ pc \in {"ask", "look", "refresh"}
  \/ pc \in {"send", "record"} /\ n \in batch

Quiet == ~fault /\ ~late

SinceSound ==
  /\ since \in [Assignments -> Nat \cup {Null}]
  /\ \A a \in Assignments : since[a] # Null => Remindable(a)

\* A process that is up and on time is never behind its next slot, and no slot
\* is left out before it.
OnTime ==
  Quiet =>
    /\ pc # "wait"
    /\ IF pc = "down" THEN confirmed = 0
       ELSE /\ now <= slot /\ slot <= now + Cycle
            /\ pc # "idle" => slot > now

\* What was owed at a slot has been recorded, or this is the slot at hand.
Evaluated ==
  Quiet =>
    \A a \in Assignments, t \in Nat :
      Owing(a, t) => Told(a, t) \in sent \/ (t = now /\ AtHand(Told(a, t)))

BandInv == SinceSound /\ OnTime /\ Evaluated

\* Between two hours of the grid there is a cycle.
LEMMA GridGap ==
  ASSUME NEW s \in Nat, NEW t \in Nat, s % Cycle = 0, t % Cycle = 0, t < s
  PROVE  t + Cycle <= s
<1>1. Cycle \in Nat \ {0}
  BY RemindersAssumption
<1> DEFINE p == s \div Cycle
           q == t \div Cycle
<1>2. p \in Int /\ q \in Int /\ s = Cycle * p /\ t = Cycle * q
  BY <1>1
<1> HIDE DEF p, q
<1>3. q + 1 <= p
  <2>1. CASE p <= q
    <3>1. Cycle * p <= Cycle * q
      BY <1>1, <1>2, <2>1
    <3>2. QED
      BY <1>2, <3>1
  <2>2. QED
    BY <1>2, <2>1
<1>4. Cycle * (q + 1) <= Cycle * p
  BY <1>1, <1>2, <1>3
<1>5. Cycle * (q + 1) = Cycle * q + Cycle
  BY <1>1, <1>2
<1>6. QED
  BY <1>2, <1>4, <1>5

LEMMA InitBandInv == OInit => BandInv
<1> SUFFICES ASSUME OInit PROVE BandInv
  OBVIOUS
<1>1. since = [a \in Assignments |-> Null] /\ pc = "down" /\ confirmed = 0
  BY DEF OInit, Init
<1>2. QED
  BY <1>1 DEF BandInv, SinceSound, OnTime, Evaluated, Owing

LEMMA SinceStep ==
  ASSUME IInv, SinceSound, Observe
  PROVE  SinceSound'
<1>1. since' = [a \in Assignments |->
       IF ~Remindable(a)' \/ fault' THEN Null
       ELSE IF since[a] = Null \/ copy'[a].due # copy[a].due THEN now ELSE since[a]]
  BY DEF Observe
<1>2. now \in Nat
  BY DEF IInv, TypeOK
<1>3. \A a \in Assignments : since'[a] # Null => Remindable(a)'
  BY <1>1
<1>4. since' \in [Assignments -> Nat \cup {Null}]
  BY <1>1, <1>2 DEF SinceSound
<1>5. QED
  BY <1>3, <1>4 DEF SinceSound

\* What the observer says of the past is said once and for all.
LEMMA QuietStep ==
  ASSUME Observe, Quiet'
  PROVE  /\ Quiet
         /\ pc' \in {"down", "wait"} => pc' = pc
         /\ stored' = stored
         /\ ~ \E n \in batch : SendFails(n)
         /\ now' # now => pc \in {"down", "idle"}
BY DEF Observe, Quiet

LEMMA OnTimeStep ==
  ASSUME IInv, OnTime, Next, Observe
  PROVE  OnTime'
<1>1. SUFFICES ASSUME Quiet' PROVE
        /\ pc' # "wait"
        /\ IF pc' = "down" THEN confirmed' = 0
           ELSE /\ now' <= slot' /\ slot' <= now' + Cycle
                /\ pc' # "idle" => slot' > now'
  BY DEF OnTime
<1>2. /\ Quiet /\ (pc' \in {"down", "wait"} => pc' = pc) /\ (now' # now => pc \in {"down", "idle"})
      /\ pc # "wait"
      /\ IF pc = "down" THEN confirmed = 0
         ELSE /\ now <= slot /\ slot <= now + Cycle
              /\ pc # "idle" => slot > now
  BY <1>1, QuietStep DEF OnTime
<1>3. now \in Nat /\ slot \in Nat /\ Cycle \in Nat \ {0}
  BY RemindersAssumption DEF IInv, TypeOK
<1> USE DEF outside, synced, job
<1>4. CASE Start
  BY <1>3, <1>4, NextSlotOnGrid DEF Start
<1>5. CASE CheckSchedule
  BY <1>2, <1>3, <1>5, NextSlotOnGrid DEF CheckSchedule
<1>6. CASE Tick
  BY <1>2, <1>3, <1>6 DEF Tick, Slow
<1>7. CASE SiteChanges \/ ReplaceRules \/ ClearRules
  BY <1>2, <1>7 DEF SiteChanges, ReplaceRules, ClearRules
<1>8. CASE Crash \/ AttemptFails \/ Retry
  BY <1>2, <1>8 DEF Crash, AttemptFails, Retry
<1>9. CASE PickNone \/ PickNotifications \/ PickByHand
  BY <1>2, <1>9 DEF PickNone, PickNotifications, PickByHand
<1>10. CASE Sync
  BY <1>2, <1>10 DEF Sync, PickSync, CopyAssignments, ReadStatus, WarnStatus, SyncDone, SyncFails
<1>11. CASE Ask \/ Look \/ RefreshFails \/ LookAgain \/ (\E n \in batch : Deliver(n) \/ SendFails(n))
            \/ Record \/ Finish
  BY <1>2, <1>11 DEF Ask, Look, RefreshFails, LookAgain, Deliver, SendFails, Record, Finish
<1>12. QED
  BY <1>4, <1>5, <1>6, <1>7, <1>8, <1>9, <1>10, <1>11 DEF Next, Notify

\* What a step leaves of the slots of the past: unless the clock moves, whatever
\* is owed after it was owed before it, by the same message.
LEMMA OwedBefore ==
  ASSUME IInv, SinceSound, Observe, Quiet', NEW a \in Assignments, NEW t \in Nat,
         Owing(a, t)', t <= now
  PROVE  Owing(a, t) /\ Told(a, t)' = Told(a, t) /\ Remindable(a)
<1>1. /\ since'[a] # Null /\ since'[a] < t /\ t % Cycle = 0
      /\ t <= copy'[a].due /\ Reached(Effective, copy[a].due - t)' # {}
  BY DEF Owing
<1>2. since'[a] = IF ~Remindable(a)' \/ fault' THEN Null
                  ELSE IF since[a] = Null \/ copy'[a].due # copy[a].due THEN now ELSE since[a]
  BY DEF Observe
<1>3. now \in Nat /\ ~(now < t)
  BY DEF IInv, TypeOK
<1>4. since[a] # Null /\ copy'[a].due = copy[a].due /\ since'[a] = since[a]
  BY <1>1, <1>2, <1>3
<1>5. Effective' = Effective
  BY QuietStep DEF Effective
<1>6. Owing(a, t)
  BY <1>1, <1>4, <1>5 DEF Owing, Reached
<1>7. Told(a, t)' = Told(a, t)
  BY <1>4, <1>5 DEF Told, Applicable, Reached
<1>8. QED
  BY <1>4, <1>6, <1>7 DEF SinceSound

\* A look at the time of the slot finds what is owed, or finds it recorded.
LEMMA LookFinds ==
  ASSUME IInv, NEW a \in Assignments, Remindable(a), Owing(a, now)
  PROVE  Told(a, now) \in Pending \cup sent
<1>1. Told(a, now) = Due(a)
  BY DEF Told, Due
<1>2. now \in Nat /\ (copy[a].due >= now <=> now <= copy[a].due)
  <2> DEFINE due == copy[a].due
  <2>1. due \in Dues \cup {0} /\ now \in Nat
    BY DEF IInv, TypeOK
  <2>2. Dues \subseteq Nat
    BY RemindersAssumption
  <2> HIDE DEF due
  <2>3. due \in Nat
    BY <2>1, <2>2
  <2>4. due >= now <=> now <= due
    BY <2>1, <2>3
  <2>5. QED
    BY <2>1, <2>4 DEF due
<1>3. Confirmed(a) /\ Owed(a) /\ Reached(Effective, copy[a].due - now) # {}
  BY <1>2 DEF Remindable, Owed, Owing
<1>4. QED
  BY <1>1, <1>3 DEF Pending

\* While the clock stands, the slot at hand is worked on or its reminders are
\* recorded.
LEMMA StandingClock ==
  ASSUME IInv, SinceSound, OnTime, Evaluated, Next, Observe, Quiet', now' = now,
         NEW a \in Assignments, NEW t \in Nat, Owing(a, t)'
  PROVE  Told(a, t)' \in sent' \/ (t = now /\ AtHand(Told(a, t))')
<1> DEFINE n == Told(a, t)
<1>1. Owing(a, t) /\ n' = n /\ Remindable(a)
  <2>1. t <= now
    BY DEF Owing
  <2>2. QED
    BY <2>1, OwedBefore
<1>2. /\ Quiet /\ (pc' \in {"down", "wait"} => pc' = pc) /\ stored' = stored
      /\ ~ \E m \in batch : SendFails(m)
  BY QuietStep
<1>3. n \in sent \/ (t = now /\ AtHand(n))
  BY <1>1, <1>2 DEF Evaluated
<1>4. sent \subseteq sent'
  <2> USE DEF outside, synced, job
  <2>1. CASE Record
    BY <2>1 DEF Record
  <2>2. CASE sent' = sent
    BY <2>2
  <2>3. QED
    BY <2>1, <2>2
       DEF Next, Sync, Notify, Start, CheckSchedule, PickNone, PickNotifications, PickByHand,
           PickSync, CopyAssignments, ReadStatus, WarnStatus, SyncDone, SyncFails, Ask, Look,
           RefreshFails, LookAgain, Deliver, SendFails, Finish, AttemptFails, Retry, Crash,
           SiteChanges, ReplaceRules, ClearRules, Tick
<1>5. CASE n \in sent
  BY <1>1, <1>4, <1>5
<1>6. CASE t = now /\ AtHand(n) /\ n \notin sent
  <2>1. n \in Pending
    BY <1>1, <1>6, LookFinds
  <2>2. /\ pc # "wait"
        /\ pc # "down" => now <= slot /\ (pc # "idle" => slot > now)
        /\ now \in Nat /\ slot \in Nat
    BY <1>2 DEF OnTime, IInv, TypeOK
  <2>3. pc # "down"
    <3>1. SUFFICES ASSUME pc = "down" PROVE FALSE
      OBVIOUS
    <3>2. confirmed = 0
      BY <1>2, <3>1 DEF OnTime
    <3>3. QED
      BY <1>1, <3>2 DEF Remindable, Confirmed
  <2>4. SUFFICES n \in sent' \/ AtHand(n)'
    BY <1>1, <1>6 DEF AtHand
  <2> HIDE DEF n
  <2> USE DEF outside, synced, job
  <2>5. CASE CheckSchedule
    BY <1>6, <2>2, <2>5 DEF CheckSchedule, AtHand
  <2>6. CASE PickNone \/ PickNotifications \/ PickByHand \/ PickSync
    BY <1>6, <2>2, <2>6 DEF PickNone, PickNotifications, PickByHand, PickSync, AtHand
  <2>7. CASE CopyAssignments \/ (\E b \in todo : ReadStatus(b) \/ WarnStatus(b))
             \/ SyncDone \/ SyncFails
    BY <1>6, <2>2, <2>7 DEF CopyAssignments, ReadStatus, WarnStatus, SyncDone, SyncFails, AtHand
  <2>8. CASE Ask \/ Look \/ RefreshFails \/ LookAgain
    BY <1>1, <1>6, <2>1, <2>2, <2>8 DEF Ask, Look, RefreshFails, LookAgain, AtHand
  <2>9. CASE (\E m \in batch : Deliver(m)) \/ Record \/ Finish
    BY <1>1, <1>6, <2>2, <2>9 DEF Deliver, Record, Finish, AtHand
  <2>10. CASE SiteChanges \/ ReplaceRules \/ ClearRules \/ Tick
    BY <1>1, <1>6, <2>10 DEF SiteChanges, ReplaceRules, ClearRules, Tick, AtHand
  <2>11. CASE Start \/ AttemptFails \/ Retry \/ Crash
    BY <1>2, <2>2, <2>3, <2>11 DEF Start, AttemptFails, Retry, Crash
  <2>12. QED
    BY <1>2, <2>5, <2>6, <2>7, <2>8, <2>9, <2>10, <2>11 DEF Next, Sync, Notify
<1>7. QED
  BY <1>3, <1>5, <1>6

\* The clock only moves when nothing is left to do at the slot at hand, and not
\* past the next one.
LEMMA MovingClock ==
  ASSUME IInv, SinceSound, OnTime, Evaluated, Next, Observe, Quiet', now' # now,
         NEW a \in Assignments, NEW t \in Nat, Owing(a, t)'
  PROVE  Told(a, t)' \in sent' \/ (t = now' /\ AtHand(Told(a, t))')
<1> USE DEF outside, synced, job
<1>1. Tick
  BY DEF Next, Sync, Notify, Start, CheckSchedule, PickNone, PickNotifications, PickByHand,
         PickSync, CopyAssignments, ReadStatus, WarnStatus, SyncDone, SyncFails, Ask, Look,
         RefreshFails, LookAgain, Deliver, SendFails, Record, Finish, AttemptFails, Retry, Crash,
         SiteChanges, ReplaceRules, ClearRules
<1>2. /\ now' = now + 1 /\ Slow
      /\ UNCHANGED <<site, copy, synced, stored, sent, pc, slot, queued, job>>
  BY <1>1 DEF Tick
<1>3. Quiet /\ pc \in {"down", "idle"}
  BY QuietStep
<1>4. now \in Nat /\ slot \in Nat /\ slot % Cycle = 0
  BY DEF IInv, TypeOK
<1>5. Remindable(a) /\ since'[a] # Null
  <2>1. since'[a] # Null
    BY DEF Owing
  <2>2. Remindable(a)' <=> Remindable(a)
    BY <1>2 DEF Remindable, Confirmed
  <2>3. SinceSound'
    BY SinceStep
  <2>4. QED
    BY <2>1, <2>2, <2>3 DEF SinceSound
<1>6. pc = "idle" /\ ~queued /\ slot > now /\ slot <= now + Cycle
  <2>1. pc # "down"
    BY <1>3, <1>5 DEF OnTime, Remindable, Confirmed
  <2>2. QED
    BY <1>2, <1>3, <2>1 DEF OnTime, Slow
<1>7. t % Cycle = 0 /\ t <= now + 1
  BY <1>2 DEF Owing
<1>8. CASE t = now + 1
  <2>1. slot = now + 1
    <3>1. SUFFICES ASSUME t < slot PROVE FALSE
      BY <1>4, <1>6, <1>8
    <3>2. t + Cycle <= slot
      BY <1>4, <1>7, <3>1, GridGap
    <3>3. QED
      BY <1>4, <1>6, <1>8, <3>2, RemindersAssumption
  <2>2. QED
    BY <1>2, <1>8, <2>1 DEF AtHand
<1>9. CASE t <= now
  <2>1. Owing(a, t) /\ Told(a, t)' = Told(a, t)
    BY <1>9, OwedBefore
  <2>2. Told(a, t) \in sent \/ AtHand(Told(a, t))
    BY <1>3, <2>1 DEF Evaluated
  <2>3. ~AtHand(Told(a, t))
    BY <1>4, <1>6 DEF AtHand
  <2>4. QED
    BY <1>2, <2>1, <2>2, <2>3
<1>10. QED
  BY <1>4, <1>7, <1>8, <1>9

LEMMA BandStep ==
  ASSUME IInv, BandInv, [Next /\ Observe]_<<vars, observed>>
  PROVE  BandInv'
<1>1. CASE Next /\ Observe
  <2>1. SinceSound' /\ OnTime'
    BY <1>1, SinceStep, OnTimeStep DEF BandInv
  <2>2. Evaluated'
    <3>1. SUFFICES ASSUME Quiet', NEW a \in Assignments, NEW t \in Nat, Owing(a, t)'
          PROVE Told(a, t)' \in sent' \/ (t = now' /\ AtHand(Told(a, t))')
      BY DEF Evaluated
    <3>2. QED
      BY <1>1, <3>1, StandingClock, MovingClock DEF BandInv
  <2>3. QED
    BY <2>1, <2>2 DEF BandInv
<1>2. CASE UNCHANGED <<vars, observed>>
  BY <1>2 DEF vars, observed, outside, synced, job, BandInv, SinceSound, OnTime, Evaluated, Quiet,
              Owing, Told, AtHand, Remindable, Confirmed, Effective, Reached, Applicable
<1>3. QED
  BY <1>1, <1>2

\* A process that is up, on time and able to send leaves no band out: for any
\* rules that validate() accepts, any cycle and any deadlines, wherever they fall
\* between two slots (PunctualEveryBand).
THEOREM PunctualEveryBandHolds == OSpec => []PunctualEveryBand
<1>1. OInit => IInv /\ BandInv
  BY InitListed, InitBandInv
<1>2. IInv /\ BandInv /\ [Next /\ Observe]_<<vars, observed>> => IInv' /\ BandInv'
  BY NextIInv, BandStep DEF observed, vars
<1>3. IInv /\ BandInv => PunctualEveryBand
  <2>1. SUFFICES ASSUME IInv, BandInv, Quiet, NEW a \in Assignments, NEW r \in Effective,
                        since[a] # Null, since[a] < copy[a].due - r.offset, copy[a].due < now
        PROVE [rule |-> r.id, of |-> a, due |-> copy[a].due] \in sent
    BY DEF PunctualEveryBand, EveryBand, Quiet
  <2> DEFINE due == copy[a].due
  <2>2. due \in Nat /\ since[a] \in Nat /\ now \in Nat
    <3>1. due \in Dues \cup {0}
      BY <2>1 DEF IInv, TypeOK
    <3>2. Dues \cup {0} \subseteq Nat
      BY RemindersAssumption
    <3> HIDE DEF due
    <3>3. due \in Nat
      BY <3>1, <3>2
    <3>4. QED
      BY <2>1, <3>3 DEF IInv, TypeOK, BandInv, SinceSound
  <2>3. Effective \in SUBSET Rules /\ Valid(Effective) /\ r.offset \in Nat
    BY <2>1, EffectiveValid DEF IInv, Rules
  <2>4. r.offset <= due
    BY <2>1, <2>2, <2>3
  <2>5. PICK t \in Nat : /\ t % Cycle = 0 /\ due - r.offset <= t /\ t <= due
                         /\ Reached(Effective, due - t) # {}
                         /\ Applicable(Effective, due - t) = r
    <3> HIDE DEF due
    <3>1. QED
      BY <2>2, <2>3, <2>4, EveryBandHasASlot
  <2>6. Owing(a, t) /\ t < now
    BY <2>1, <2>2, <2>3, <2>5 DEF Owing
  <2>7. Told(a, t) \in sent
    BY <2>1, <2>2, <2>6 DEF BandInv, Evaluated
  <2>8. QED
    BY <2>5, <2>7 DEF Told
<1>4. QED
  BY <1>1, <1>2, <1>3, PTL DEF OSpec
====
