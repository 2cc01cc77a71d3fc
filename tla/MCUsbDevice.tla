--------------------------- MODULE MCUsbDevice ---------------------------
(* What PCs do in the runs of UsbDevice, with a request as the lengths of *)
(* its answer after each usb_send call, for Block = 4 and Capacity = 5 (64 *)
(* and 511 in the firmware).                                               *)
EXTENDS UsbDevice

\* One call; several calls (as CMD_MEM_RDN makes); a call longer than the
\* buffer twice over; no run of calls amounts to full packets.
ShortAnswers == {<<1>>, <<1, 2, 3>>, <<11>>}

\* Answers that may end on a full packet, which send_next follows by a
\* zero-length one.
FullAnswers == {<<1>>, <<4>>}

Plan(kinds, ahead, times, breaks) ==
  [requests |-> kinds, window |-> ahead, maxresets |-> times, maxoffs |-> breaks]

Orderlies == {Plan(ShortAnswers, 1, 0, 0)}
Pipelining == {Plan(ShortAnswers, 2, 0, 0)}
Full == {Plan(FullAnswers, 1, 0, 0)}
Resetting == {Plan(ShortAnswers, 1, 1, 0)}

\* The orderly PC, and one that does all of the above at once.
Traffic == Orderlies \cup {Plan(FullAnswers, 2, 1, 1)}
===========================================================================
