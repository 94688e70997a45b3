---- MODULE ReminderBands ----
(* Module Reminders under observation: what can be said of a reminder that    *)
(* was due, of a deadline that passed, and of an assignment that is gone      *)
(* needs to remember what the program itself does not. The observer reads     *)
(* every step and disturbs none.                                              *)
EXTENDS Reminders

VARIABLES
  since,      \* from when on the copy has this deadline, confirmed and pending, without a gap or fault; or Null
  listed,     \* the last sync at whose time the assignment was on the site
  late,       \* the clock moved while a job was running
  fault       \* a crash, a failed attempt or message, or other rules

observed == <<since, listed, late, fault>>

OInit ==
  /\ Init
  /\ since = [a \in Assignments |-> Null]
  /\ listed = [a \in Assignments |-> 0]
  /\ late = FALSE /\ fault = FALSE

Remindable(a) == Confirmed(a) /\ copy[a].due # 0 /\ copy[a].status = "new"

Observe ==
  /\ fault' = (fault \/ (pc' \in {"down", "wait"} /\ pc' # pc) \/ stored' # stored
                     \/ \E n \in batch : SendFails(n))
  /\ since' = [a \in Assignments |->
       IF ~Remindable(a)' \/ fault' THEN Null
       ELSE IF since[a] = Null \/ copy'[a].due # copy[a].due THEN now ELSE since[a]]
  /\ listed' = [a \in Assignments |-> IF site'[a].there THEN run' ELSE listed[a]]
  /\ late' = (late \/ (now' # now /\ pc \notin {"down", "idle"}))

OSpec == OInit /\ [][Next /\ Observe]_<<vars, observed>>

-----------------------------------------------------------------------------
(* Properties *)

\* confirmed_since: no reminder of an assignment that was not on the site at
\* any time since the last good sync began, although its row is still there.
NoGhostReminder ==
  [][\A n \in batch : Leaves(n) => listed[n.of] >= confirmed]_<<vars, observed>>

\* What became of a deadline that has passed: each rule whose band began after
\* the deadline was known and pending has had its message recorded.
EveryBand ==
  \A a \in Assignments, r \in Effective :
    since[a] # Null /\ since[a] < copy[a].due - r.offset /\ copy[a].due < now
    => [rule |-> r.id, of |-> a, due |-> copy[a].due] \in sent

\* A process that is up, on time and able to send leaves no band out: every
\* band is as wide as a cycle (validate), so that some slot falls in it.
PunctualEveryBand == ~fault /\ ~late => EveryBand
====
