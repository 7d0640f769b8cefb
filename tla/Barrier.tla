------------------------------ MODULE Barrier ------------------------------
(***************************************************************************)
(* What os_barrier_amo promises (simultaneous.py): "All harts wait at this *)
(* point until every hart reaches the barrier, then all proceed together", *)
(* again and again, until a hart leaves the scheduler for good.            *)
(***************************************************************************)
CONSTANT Harts

VARIABLES
  waiting,   \* harts that have arrived and may not proceed yet
  gone       \* harts that have left for the end of the test

Init == waiting = {} /\ gone = {}

Arrive(h) ==
  /\ h \notin waiting \cup gone
  /\ waiting' = waiting \cup {h}
  /\ UNCHANGED gone

\* All proceed together, and only when all are there.
Open ==
  /\ waiting = Harts
  /\ waiting' = {}
  /\ UNCHANGED gone

\* A hart ends its test, or gives up waiting because another one has.
Leave(h) ==
  /\ h \notin gone
  /\ waiting' = waiting \ {h}
  /\ gone' = gone \cup {h}

Next == Open \/ \E h \in Harts : Arrive(h) \/ Leave(h)

Spec == Init /\ [][Next]_<<waiting, gone>>
=============================================================================
