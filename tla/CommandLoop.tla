---------------------------- MODULE CommandLoop ----------------------------
(***************************************************************************)
(* The request loop of debug/bluepill/src/main.c: it takes a packet from   *)
(* EP2 into recvbuf and serves the requests it finds there, one pass of    *)
(* the loop (an action) for each.  Requests are bytes of a stream that the *)
(* USB cuts into packets.  What is sent is in order (UsbDevice).           *)
(*                                                                         *)
(* bc80_write_mem and bc80_read_mem set the data pins and the latches of   *)
(* the others, whose modes and whose RESET they take as they are.  They    *)
(* reach the memory they mean (BusAccess) while the board drives the bus   *)
(* and keeps the Z80 in reset; else what they store and read is open.  The *)
(* memory is what the board makes of it: what a running Z80 stores is not  *)
(* in it.                                                                  *)
(*                                                                         *)
(* pending is the list of requests the client has sent, kept to be         *)
(* compared with the bytes, and regime how the bus was used so far.        *)
(***************************************************************************)
EXTENDS DebugRequests, SequencesExt

CONSTANTS
  Requests,     \* the requests the client sends
  PacketSize,   \* bytes of a packet (USB_RXBUFSZ, 64)
  BufferSize,   \* bytes of recvbuf (256)
  MaxBatch,     \* bound: requests sent at a time
  MaxBytes,     \* bound: bytes of the requests sent at a time
  MaxBatches,   \* bound: times requests are sent
  StrayCells, StrayBytes   \* bound: what is stored and read on a bus not held

ASSUME LoopAssumption ==
  /\ {Radix, PacketSize, BufferSize, MaxBatch, MaxBytes, MaxBatches} \subseteq Nat \ {0}
  /\ PacketSize <= BufferSize
  /\ StrayCells \subseteq CellAddresses
  /\ StrayBytes \subseteq ByteValues /\ StrayBytes # {}

VARIABLES
  mem, replies,         \* contents of the memory; bytes sent back
  pending,              \* requests sent and not yet served
  stream,               \* bytes sent and not yet received
  recvbuf, nbytes, i,   \* main.c; i is the index of the next request
  output,               \* lines of the bus whose pins are outputs
  high,                 \* control lines whose latch is 1
  regime,               \* use of the bus since the board started
  batches               \* times requests were sent

pins == <<output, high, regime>>
vars == <<mem, replies, pending, stream, recvbuf, nbytes, i, pins, batches>>

Protocol == INSTANCE DebugProtocol

Bytes(batch) == FlattenSeq([k \in DOMAIN batch |-> Encode(batch[k])])

\* The lines the functions of bc80_hw.c do not set for themselves; the data
\* lines they do.
Strobes == {BUS_MREQ, BUS_RD, BUS_WR}
Controls == Strobes \cup {BUS_RESET}
Lines == BUS_A \cup Controls

\* The pins as main.c sets them at the start.
Started == output = Lines /\ high = Controls /\ regime = "free"

Init ==
  /\ mem = [a \in CellAddresses |-> 0]
  /\ replies = <<>> /\ pending = <<>>
  /\ stream = <<>>
  /\ recvbuf = [k \in 0 .. BufferSize - 1 |-> 0]
  /\ nbytes = 0 /\ i = 0 /\ batches = 0
  /\ Started

SendBatch ==
  /\ stream = <<>> /\ i >= nbytes
  /\ batches < MaxBatches /\ batches' = batches + 1
  /\ \E batch \in BoundedSeq(Requests, MaxBatch) :
       /\ Len(Bytes(batch)) \in 1 .. MaxBytes
       /\ pending' = batch
       /\ stream' = Bytes(batch)
  /\ replies' = <<>>
  /\ UNCHANGED <<mem, recvbuf, nbytes, i, pins>>

\* usb_recv overwrites the beginning of recvbuf and leaves the rest.
Receive ==
  /\ i >= nbytes /\ stream # <<>>
  /\ nbytes' = Min({PacketSize, Len(stream)})
  /\ recvbuf' = [k \in DOMAIN recvbuf |-> IF k < nbytes' THEN stream[k + 1] ELSE recvbuf[k]]
  /\ stream' = SubSeq(stream, nbytes' + 1, Len(stream))
  /\ i' = 0
  /\ UNCHANGED <<mem, pending, replies, pins, batches>>

---------------------------------------------------------------------------
(* One pass of the loop over recvbuf.                                      *)

cmd == recvbuf[i]
Received(first, n) == [k \in 1 .. n |-> recvbuf[first + k - 1]]
addr == AddressOf(recvbuf[i + 1], recvbuf[i + 2])
count == recvbuf[i + 3]

\* What a pass sends, and the bytes it consumes.
Pass(sent, consumed) ==
  /\ i < nbytes
  /\ replies' = replies \o sent
  /\ i' = i + consumed
  /\ pending' = IF pending = <<>> THEN <<>> ELSE Tail(pending)
  /\ regime' = Use(regime, cmd)
  /\ UNCHANGED <<stream, recvbuf, nbytes, batches>>

\* The board drives the bus, the Z80 is in reset, and no store is under way.
Quiet == {BUS_MREQ, BUS_WR} \cap high # {}
Held == Lines \subseteq output /\ BUS_RESET \notin high /\ Quiet

\* Nothing stored, or something somewhere.
Astray == {mem} \cup {[mem EXCEPT ![a] = b] : a \in StrayCells, b \in StrayBytes}

\* bc80_write_mem and bc80_read_mem, called n times; they leave the strobes high.
Called(n) ==
  /\ high' = IF n = 0 THEN high ELSE high \cup Strobes
  /\ UNCHANGED output

bc80_write_mem(n, newmem) ==
  Called(n) /\ mem' \in IF Held \/ n = 0 THEN {newmem} ELSE {newmem} \cup Astray

bc80_read_mem(n) == Called(n) /\ mem' \in IF Held \/ n = 0 THEN {mem} ELSE Astray
Read(n) == IF Held THEN {Contents(mem, addr, n)} ELSE [1 .. n -> StrayBytes]

\* Other pin operations: the memory stays unless both strobes of a store are
\* low before or after them.
SetPins(newoutput, newhigh) ==
  /\ output' = newoutput /\ high' = newhigh
  /\ mem' \in IF Quiet /\ Quiet' THEN {mem} ELSE Astray

\* Mutant: the address lines are left as they are.
bc80_bus_acquire_NoAddress ==
  SetPins(output \cup Strobes, (high \ {BUS_RESET}) \cup Strobes)

\* RESET is not made an output.
bc80_bus_acquire ==
  SetPins(output \cup BUS_A \cup Strobes, (high \ {BUS_RESET}) \cup Strobes)

bc80_bus_release == SetPins(output \ (BUS_A \cup Strobes), high \cup Controls)

---------------------------------------------------------------------------

version == cmd = CMD_VERSION /\ Pass(<<CMD_VERSION>> \o BOARD_VER, 1) /\ SetPins(output, high)

mem_wr ==
  /\ cmd = CMD_MEM_WR
  /\ bc80_write_mem(1, Write(mem, addr, Received(i + 3, 1)))
  /\ Pass(Received(i, 4), 4)

\* Mutant: the address is taken low byte first.
mem_rd_LowFirst ==
  /\ cmd = CMD_MEM_RD
  /\ bc80_read_mem(1)
  /\ \E found \in IF Held
                    THEN {Contents(mem, AddressOf(recvbuf[i + 2], recvbuf[i + 1]), 1)}
                    ELSE [1 .. 1 -> StrayBytes] :
       Pass(Received(i, 3) \o found, 3)

mem_rd ==
  /\ cmd = CMD_MEM_RD
  /\ bc80_read_mem(1)
  /\ \E found \in Read(1) : Pass(Received(i, 3) \o found, 3)

\* Mutant: i is advanced past the bytes and not past the count.
mem_wrn_ShortStep ==
  /\ cmd = CMD_MEM_WRN
  /\ bc80_write_mem(count, Write(mem, addr, Received(i + 3, count)))
  /\ Pass(Received(i, 4 + count), 3 + count)

\* The bytes written start at recvbuf[i + 3], which is the count.
mem_wrn ==
  /\ cmd = CMD_MEM_WRN
  /\ bc80_write_mem(count, Write(mem, addr, Received(i + 3, count)))
  /\ Pass(Received(i, 4 + count), 4 + count)

mem_rdn ==
  /\ cmd = CMD_MEM_RDN
  /\ bc80_read_mem(count)
  /\ \E found \in Read(count) : Pass(Received(i, 4) \o found, 4)

acquire == cmd = CMD_ACQUIRE /\ bc80_bus_acquire /\ Pass(Received(i, 1), 1)

release == cmd = CMD_RELEASE /\ bc80_bus_release /\ Pass(Received(i, 1), 1)

\* Commands and subcommands that are not implemented: the byte is sent back.
echo ==
  /\ IF Batch(cmd)
       THEN ~UsesMemory(cmd) /\ cmd \notin {CMD_VERSION, CMD_ACQUIRE, CMD_RELEASE}
       ELSE Subcommand(cmd) = NOTHING
  /\ SetPins(output, high)
  /\ Pass(Received(i, 1), 1)

\* The line a raw subcommand names, if it is one of the bus.
line == {PinOf(cmd)} \cap Lines

set_hi ==
  /\ ~Batch(cmd) /\ Subcommand(cmd) = SUBCMD_SET_HI
  /\ SetPins(output \cup line, high \cup (line \cap Controls))
  /\ Pass(Received(i, 1), 1)

set_lo ==
  /\ ~Batch(cmd) /\ Subcommand(cmd) = SUBCMD_SET_LO
  /\ SetPins(output \cup line, high \ line)
  /\ Pass(Received(i, 1), 1)

\* Raw input: the byte is sent back too, and then the level of the pin.
get ==
  /\ ~Batch(cmd) /\ Subcommand(cmd) = SUBCMD_GET
  /\ SetPins(output \ line, high)
  /\ \E level \in {0, 1} : Pass(<<cmd, level>>, 1)

Loop ==
  /\ i < nbytes
  /\ \/ version \/ mem_wr \/ mem_rd \/ mem_wrn \/ mem_rdn \/ acquire \/ release
     \/ echo \/ set_hi \/ set_lo \/ get

Next == SendBatch \/ Receive \/ Loop

Spec == Init /\ [][Next]_vars

---------------------------------------------------------------------------

\* The loop never loses its place: the bytes it has not looked at, in the
\* buffer and behind it, are those of the requests it has not served.
InSync ==
  /\ i <= nbytes
  /\ Received(i, nbytes - i) \o stream = Bytes(pending)

\* The loop does what the protocol says: "response followed for any request
\* immediately", in the formats of dbgproto.h.
Serves == Protocol!Spec
===========================================================================
