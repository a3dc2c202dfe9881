------------------------------ MODULE TaskRing ------------------------------
(***************************************************************************)
(* What the scheduler promises, without pointers: a ring of tasks kept as  *)
(* a sequence, the current one, and a switch that goes to the first        *)
(* runnable task behind it.                                                *)
(***************************************************************************)
EXTENDS Integers, Sequences

CONSTANTS Addr, NULL

VARIABLES ring, current, state

vars == <<ring, current, state>>

Position == 1 .. Len(ring)
In(t) == \E i \in Position : ring[i] = t
Runnable(t) == state[t] \in {"ACTIVE", "READY"}

\* The task k places behind position i, for k up to the ring's length.
Behind(i, k) == ring[IF i + k <= Len(ring) THEN i + k ELSE i + k - Len(ring)]

Init ==
  /\ ring = <<>>
  /\ current = NULL
  /\ state = [t \in Addr |-> NULL]

\* A new task goes to the end of the ring.
Spawn(t) ==
  /\ ~In(t)
  /\ ring' = Append(ring, t)
  /\ state' = [state EXCEPT ![t] = "READY"]
  /\ UNCHANGED current

Mark(t, s) ==
  /\ In(t)
  /\ state' = [state EXCEPT ![t] = s]
  /\ UNCHANGED <<ring, current>>

\* Only terminated tasks leave; the current place passes to the next task.
Reap(i) ==
  /\ state[ring[i]] = "TERMINATED"
  /\ ring' = SubSeq(ring, 1, i - 1) \o SubSeq(ring, i + 1, Len(ring))
  /\ current' = IF current # ring[i] THEN current
                ELSE IF Len(ring) = 1 THEN NULL ELSE Behind(i, 1)
  /\ state' = [state EXCEPT ![ring[i]] = NULL]

Run(t) ==
  /\ current' = t
  /\ state' = [state EXCEPT ![t] = "ACTIVE"]
  /\ UNCHANGED ring

\* The switch passes over no runnable task.
Switch(i, k) ==
  /\ current = ring[i]
  /\ Runnable(Behind(i, k))
  /\ \A j \in 1 .. k - 1 : ~Runnable(Behind(i, j))
  /\ Run(Behind(i, k))

\* The first runnable task, or the first task when none is.
Start(i) ==
  /\ current = NULL
  /\ \/ Runnable(ring[i]) /\ \A j \in 1 .. i - 1 : ~Runnable(ring[j])
     \/ i = 1 /\ \A j \in Position : ~Runnable(ring[j])
  /\ Run(ring[i])

Next ==
  \/ \E t \in Addr : Spawn(t) \/ Mark(t, "TERMINATED")
  \/ current # NULL /\ Mark(current, "WAITING")
  \/ \E i \in Position : Reap(i) \/ Start(i)
  \/ \E i \in Position, k \in 1 .. Len(ring) - 1 : Switch(i, k)

Spec == Init /\ [][Next]_vars
=============================================================================
