------------------------------- MODULE MCRestore -------------------------------
(* Snapshots of two and three rows: content shared by two files, a name the    *)
(* volume folds into another's, a name it refuses, one with no place.          *)
EXTENDS Restore

CONSTANTS e1, e2, a, b

R(e, h) == [entry |-> e, hash |-> h, name |-> "fine"]
Bad(e, h, n) == [entry |-> e, hash |-> h, name |-> n]
Asked ==
  {<<R(e1, a), R(e2, a), R(e2, b)>>,
   <<R(e1, a), R(e1, b), R(e2, a)>>,
   <<Bad(e1, a, "refused"), R(e2, a), Bad(e1, b, "unplaced")>>}
================================================================================
