--------------------------- MODULE DebugRequests ---------------------------
(***************************************************************************)
(* The requests of debug/dbgproto.h: their codes, the bytes they are       *)
(* written as, their effect on the memory and their replies.  The bytes of *)
(* the memory are 0 .. Radix - 1 and an address is a pair of them, high    *)
(* byte first; a command is a byte of eight bits.                          *)
(*                                                                         *)
(* What a memory request comes to depends on the use of the bus before it  *)
(* (g below): "free" before an acquire and after a release, "taken"        *)
(* between them, and "raw" when a pin has been used by itself since the    *)
(* board started.                                                          *)
(***************************************************************************)
EXTENDS Integers, Sequences, FiniteSetsExt

CONSTANT Radix   \* byte values (256)

CellAddresses == 0 .. Radix * Radix - 1
ByteValues == 0 .. Radix - 1

\* Command codes with the VAR_BATCH bit, and the raw subcommands.
CMD_VERSION == 1
CMD_MEM_WR == 3
CMD_MEM_RD == 5
CMD_MEM_WRN == 7
CMD_MEM_RDN == 9
CMD_ACQUIRE == 11
CMD_RELEASE == 13
CMD_LCD_CTRL == 15
NOTHING == 0
SUBCMD_SET_HI == 2
SUBCMD_SET_LO == 4
SUBCMD_GET == 6

Batch(c) == c % 2 = 1
Subcommand(c) == c % 8   \* of a byte without VAR_BATCH; the rest is the pin
PinOf(c) == c \div 8

BUS_A == 0 .. 15
BUS_MREQ == 24
BUS_RD == 26
BUS_WR == 27
BUS_RESET == 28

BOARD_VER == <<12, 1>>   \* 0xBC, 0x81

AddressOf(hi, lo) == hi * Radix + lo
AddressBytes(a) == <<a \div Radix, a % Radix>>
Plus(a, j) == (a + j) % (Radix * Radix)

\* A request is [cmd |-> c], with addr, and with n or data where it has them.
Encode(r) ==
  CASE r.cmd = CMD_MEM_WR  -> <<r.cmd>> \o AddressBytes(r.addr) \o r.data
    [] r.cmd = CMD_MEM_RD  -> <<r.cmd>> \o AddressBytes(r.addr)
    [] r.cmd = CMD_MEM_WRN ->
         <<r.cmd>> \o AddressBytes(r.addr) \o <<Len(r.data)>> \o r.data
    [] r.cmd = CMD_MEM_RDN -> <<r.cmd>> \o AddressBytes(r.addr) \o <<r.n>>
    [] OTHER               -> <<r.cmd>>

Contents(m, a, n) == [j \in 1 .. n |-> m[Plus(a, j - 1)]]
Write(m, a, data) ==
  [x \in DOMAIN m |->
     LET writes == {j \in 1 .. Len(data) : Plus(a, j - 1) = x}
     IN  IF writes = {} THEN m[x] ELSE data[Max(writes)]]

UsesPin(c) == ~Batch(c) /\ Subcommand(c) # NOTHING
UsesMemory(c) == c \in {CMD_MEM_WR, CMD_MEM_RD, CMD_MEM_WRN, CMD_MEM_RDN}

\* The use of the bus after a command.
Use(g, c) ==
  IF g = "raw" \/ UsesPin(c) THEN "raw"
  ELSE CASE c = CMD_ACQUIRE -> "taken"
         [] c = CMD_RELEASE -> "free"
         [] OTHER           -> g

Memories == [CellAddresses -> ByteValues]

\* The memories a request allows: any, if the pins are in no known state or
\* the bus it uses is not taken.
Effect(g, m, r) ==
  CASE g = "raw" \/ (g = "free" /\ UsesMemory(r.cmd)) -> Memories
    [] g = "taken" /\ r.cmd \in {CMD_MEM_WR, CMD_MEM_WRN} -> {Write(m, r.addr, r.data)}
    [] OTHER -> {m}

\* The bytes a read may find.
Found(g, m, a, n) == IF g = "taken" THEN {Contents(m, a, n)} ELSE [1 .. n -> ByteValues]

\* The replies a request allows.
Reply(g, m, r) ==
  CASE r.cmd = CMD_VERSION -> {<<r.cmd>> \o BOARD_VER}
    [] r.cmd = CMD_MEM_RD  -> {Encode(r) \o found : found \in Found(g, m, r.addr, 1)}
    [] r.cmd = CMD_MEM_RDN -> {Encode(r) \o found : found \in Found(g, m, r.addr, r.n)}
    [] ~Batch(r.cmd) /\ Subcommand(r.cmd) = SUBCMD_GET -> {<<0>>, <<1>>}
    [] OTHER               -> {Encode(r)}
============================================================================
