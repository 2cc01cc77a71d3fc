--------------------------- MODULE MCBusAccess ---------------------------
(* Sessions for BusAccess.                                                 *)
EXTENDS BusAccess

Plan(pins, maxboots) == [pins |-> pins, maxboots |-> maxboots]

PlainSession == {Plan({}, 1)}
Replugged == {Plan({}, 2)}
ResetPin == {Plan({RESET}, 1)}

\* A plain session, one that tries a strobe and an address line, and one that
\* tries several lines and loses power once.
Sessions ==
  PlainSession
    \cup {Plan({MREQ, BUS_A[1]}, 1), Plan({RESET, MREQ, BUS_D[1]}, 2)}
===========================================================================
