---- MODULE MCMoodleSync ----
(* Small instances of MoodleSync for TLC. *)
EXTENDS MoodleSync

CONSTANTS c1, c2, file, link, mark, task

TwoCourses == {c1, c2}
FourItems == {file, link, mark, task}
FourCourses == [d \in FourItems |-> IF d \in {link, task} THEN c2 ELSE c1]
FourKinds == [d \in FourItems |->
  CASE d = file -> "file" [] d = link -> "url" [] d = mark -> "mark" [] OTHER -> "task"]
====
