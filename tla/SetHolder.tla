------------------------------- MODULE SetHolder -------------------------------
(***************************************************************************)
(* What set ownership promises: a set's snapshots are published and        *)
(* forgotten only by runs of a machine that held the set when the run last *)
(* asked.  It promises no more: between the answer and the run's request   *)
(* the set may change hands.                                               *)
(***************************************************************************)
CONSTANTS
  Machines,
  Runs,
  MachineOf,  \* the machine a run is a process of
  Names,      \* snapshot names
  NoMachine   \* the holder of a set nobody has claimed

VARIABLES
  holder,
  cleared,    \* the runs told that their machine holds the set
  snaps       \* the names of the set's snapshots

vars == <<holder, cleared, snaps>>

\* Another client may have published snapshots and claimed nothing.
Init == holder = NoMachine /\ cleared = {} /\ snaps \in SUBSET Names

\* A machine claims the set, or takes it over.
Take(m) == holder' = m /\ UNCHANGED <<cleared, snaps>>

Clear(r) ==
  /\ holder = MachineOf[r]
  /\ cleared' = cleared \cup {r}
  /\ UNCHANGED <<holder, snaps>>

Publish(r, n) ==
  /\ r \in cleared
  /\ snaps' = snaps \cup {n}
  /\ cleared' = cleared \ {r}
  /\ UNCHANGED holder

Forget(r, n) ==
  /\ r \in cleared
  /\ snaps' = snaps \ {n}
  /\ UNCHANGED <<holder, cleared>>

End(r) == cleared' = cleared \ {r} /\ UNCHANGED <<holder, snaps>>

Next ==
  \/ \E m \in Machines : Take(m)
  \/ \E r \in Runs : Clear(r) \/ End(r)
  \/ \E r \in Runs, n \in Names : Publish(r, n) \/ Forget(r, n)

Spec == Init /\ [][Next]_vars
================================================================================
