---- MODULE MCReminders ----
(* Small instances of Reminders, observed, for TLC. *)
EXTENDS ReminderBands

CONSTANT a1

One == {a1}
Names == {"day", "hour"}
DayAndHour == {[id |-> "day", offset |-> 4], [id |-> "hour", offset |-> 2]}
Wider == {[id |-> "day", offset |-> 4]}
Close == {[id |-> "day", offset |-> 3], [id |-> "hour", offset |-> 2]}
OtherRules == {Wider, Close}
ThreeAndFive == {3, 5}
====
