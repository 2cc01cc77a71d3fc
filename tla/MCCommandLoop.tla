-------------------------- MODULE MCCommandLoop --------------------------
(* Requests for CommandLoop with bytes of four bits: addresses are 0 .. 255 *)
(* and the codes of the protocol fit.                                       *)
EXTENDS CommandLoop

Commands(codes) == {[cmd |-> c] : c \in codes}
Wr(a, b) == [cmd |-> CMD_MEM_WR, addr |-> a, data |-> <<b>>]
Rd(a) == [cmd |-> CMD_MEM_RD, addr |-> a]
Wrn(a, data) == [cmd |-> CMD_MEM_WRN, addr |-> a, data |-> data]
Rdn(a, n) == [cmd |-> CMD_MEM_RDN, addr |-> a, n |-> n]

\* Everything but CMD_MEM_WRN and SUBCMD_GET, with data that looks like
\* commands, an address whose bytes differ and one at the end of the memory.
Simple ==
  Commands({CMD_VERSION, CMD_ACQUIRE, CMD_RELEASE, CMD_LCD_CTRL, NOTHING,
            8 * BUS_MREQ + SUBCMD_SET_LO, 8 * BUS_RESET + SUBCMD_SET_HI})
    \cup {Wr(1, 7), Wr(255, 9), Rd(1), Rd(16), Rdn(255, 2), Rdn(0, 0)}

Blocks == {Wrn(1, <<5, 7>>), Wrn(255, <<9, 3, 2>>), Wrn(16, <<>>)}
Gets == Commands({SUBCMD_GET, 8 + SUBCMD_GET})

All == Simple \cup Blocks \cup Gets
OnlyBlocks == Blocks \cup {Rdn(1, 2)} \cup Commands({CMD_ACQUIRE})
OnlyGets == Gets
===========================================================================
