------------------------- MODULE GenerationLifecycle -------------------------
(***************************************************************************)
(* What one trace generation promises the rest of the tracer, without any  *)
(* lock, worker or program counter: calls are admitted only while the      *)
(* generation runs; a stop closes admission for good; the generation ends  *)
(* only when no captured call is open, as "sealed" exactly when every      *)
(* call that was open at the stop sealed its artifact.                     *)
(*                                                                         *)
(* TraceGenerationRuntime implements this specification.                   *)
(***************************************************************************)
CONSTANT Call          \* every admission the generation could hand out

VARIABLES
    stage,             \* where the generation is in its life
    open,              \* the admitted calls whose capture has not ended
    spoiled            \* a call open at the stop ended without sealing

vars == <<stage, open, spoiled>>

Init == /\ stage = "waiting"
        /\ open = {}
        /\ spoiled = FALSE

Start == /\ stage = "waiting"
         /\ stage' = "running"
         /\ UNCHANGED <<open, spoiled>>

FailToStart == /\ stage = "waiting"
               /\ stage' = "incomplete"
               /\ UNCHANGED <<open, spoiled>>

Admit(c) == /\ stage = "running"
            /\ c \notin open
            /\ open' = open \union {c}
            /\ UNCHANGED <<stage, spoiled>>

Stop == /\ stage = "running"
        /\ stage' = "stopping"
        /\ UNCHANGED <<open, spoiled>>

(* A call that ends before the stop leaves no trace in the outcome.        *)
End(c, sealed) == /\ c \in open
                  /\ open' = open \ {c}
                  /\ spoiled' = (spoiled \/ (stage = "stopping" /\ ~sealed))
                  /\ UNCHANGED stage

Finish == /\ stage = "stopping"
          /\ open = {}
          /\ stage' = IF spoiled THEN "incomplete" ELSE "sealed"
          /\ UNCHANGED <<open, spoiled>>

Next == \/ Start \/ FailToStart \/ Stop \/ Finish
        \/ \E c \in Call : Admit(c) \/ \E sealed \in BOOLEAN : End(c, sealed)

Spec == Init /\ [][Next]_vars
=============================================================================
