--------------------------- MODULE EngineContract ---------------------------
(***************************************************************************)
(* What an Engine promises about its native engine: clients use it while   *)
(* it is open, a shutdown admits no new one, and it goes down once, when   *)
(* the last has left (tokio-cronet/src/engine.rs: begin_operation,         *)
(* with_native, EngineInner::shutdown, EngineInner::drop).                 *)
(***************************************************************************)
CONSTANT Clients

VARIABLES
  phase,  \* "open", "draining" or "down"
  users   \* clients inside the native engine

vars == <<phase, users>>

Init == phase = "open" /\ users = {}

Enter(c) == /\ phase = "open"
            /\ c \notin users
            /\ users' = users \cup {c}
            /\ UNCHANGED phase

Leave(c) == /\ c \in users
            /\ users' = users \ {c}
            /\ UNCHANGED phase

\* A shutdown begins.
Drain == /\ phase = "open"
         /\ phase' = "draining"
         /\ UNCHANGED users

\* Teardown begins, after a shutdown or when the last Engine is dropped.
GoDown == /\ phase \in {"open", "draining"}
          /\ users = {}
          /\ phase' = "down"
          /\ UNCHANGED users

Next == \/ \E c \in Clients : Enter(c) \/ Leave(c)
        \/ Drain
        \/ GoDown

Spec == Init /\ [][Next]_vars
=============================================================================
