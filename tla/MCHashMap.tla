----------------------------- MODULE MCHashMap -----------------------------
(* Four keys on two buckets, three of them on one bucket, whose list then  *)
(* needs two nodes.                                                        *)
EXTENDS HashMap

CONSTANTS a, b, c, d

MCHash == (a :> 2) @@ (b :> 4) @@ (c :> 6) @@ (d :> 5)
============================================================================
