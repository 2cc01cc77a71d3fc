--------------------------- MODULE DebugProtocol ---------------------------
(***************************************************************************)
(* What the request - response protocol of debug/ promises: the device     *)
(* serves the requests of a batch in the order they were sent, each with   *)
(* its effect on the memory and its reply.  Reading and writing is         *)
(* promised between an acquire and a release, and as long as no pin has    *)
(* been used by itself.                                                    *)
(***************************************************************************)
EXTENDS DebugRequests

CONSTANT Requests   \* the requests a client may send

VARIABLES
  mem,       \* contents of the memory
  pending,   \* requests sent and not yet served
  replies,   \* bytes sent back since the last batch of requests
  regime     \* the use of the bus: "free", "taken" or "raw"

Init ==
  /\ mem = [a \in CellAddresses |-> 0]
  /\ pending = <<>> /\ replies = <<>>
  /\ regime = "free"

Send ==
  /\ pending = <<>>
  /\ pending' \in Seq(Requests)
  /\ replies' = <<>>
  /\ UNCHANGED <<mem, regime>>

Serve ==
  /\ pending # <<>>
  /\ mem' \in Effect(regime, mem, Head(pending))
  /\ \E reply \in Reply(regime, mem, Head(pending)) : replies' = replies \o reply
  /\ regime' = Use(regime, Head(pending).cmd)
  /\ pending' = Tail(pending)

Next == Send \/ Serve

Spec == Init /\ [][Next]_<<mem, pending, replies, regime>>
============================================================================
