-------------------------- MODULE MCFlightRecovery --------------------------
(* FlightRecovery for TLC: two threads that share a ring of three chunks,  *)
(* with few events each, and one thread that goes round the ring.          *)
EXTENDS FlightRecovery

CONSTANTS t1, t2

Load(events, emergencies) == [events |-> events, emergencies |-> emergencies]
Shared == {(t1 :> Load(1, 0)) @@ (t2 :> Load(1, 0)),
           (t1 :> Load(2, 0)) @@ (t2 :> Load(0, 0)),
           (t1 :> Load(0, 0)) @@ (t2 :> Load(2, 0)),
           (t1 :> Load(0, 1)) @@ (t2 :> Load(0, 1))}
Around == {t1 :> Load(4, 0), t2 :> Load(4, 0), t1 :> Load(2, 2)}

(* Two threads that only begin.                                            *)
Beginning == {(t1 :> Load(0, 0)) @@ (t2 :> Load(0, 0))}

MCWorkloads == Shared \union Around
=============================================================================
