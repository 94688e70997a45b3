---- MODULE MCSingleInstance ----
(* Small instances of SingleInstance for TLC. *)
EXTENDS SingleInstance

CONSTANTS p1, p2, p3, p4

Four == {p1, p2, p3, p4}
====
