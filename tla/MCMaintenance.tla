---- MODULE MCMaintenance ----
(* Small instances of Maintenance for TLC: one file of the site.              *)
EXTENDS Maintenance

CONSTANTS f, x, y

OneFile == {f}
None == {}
XY == {x, y}
X == {x}
====
