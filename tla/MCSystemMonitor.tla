-------------------------- MODULE MCSystemMonitor --------------------------
(* Numbers for SystemMonitor: small ones, and those around its carries.    *)
EXTENDS SystemMonitor

MCNumbers == (0 .. 120) \cup {v + d : v \in {1000, 9999, 10000, 32768, 43690, 59999, 65530}, d \in 0 .. 5}
               \cup {131 * m : m \in 1 .. 500}
============================================================================
