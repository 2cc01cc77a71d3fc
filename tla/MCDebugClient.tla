--------------------------- MODULE MCDebugClient ---------------------------
(* Sessions for DebugClient with bytes of four bits.                       *)
EXTENDS DebugClient

Line(name) == [name |-> name]
Wr(a, data) == [name |-> "wr", addr |-> a, data |-> data]
Rd(a) == [name |-> "rd", addr |-> a]
Rdn(a, n) == [name |-> "rd", addr |-> a, n |-> n]
Pin(sub, pin) == [name |-> "pin", sub |-> sub, pin |-> pin]
Load(file, a) == [name |-> "load", file |-> file, addr |-> a]
Memtest(a, b) == [name |-> "memtest", start |-> a, end |-> b]

File == <<7, 5>>
AllFiles == {File, <<>>}

\* Addresses whose bytes differ, cells on both sides of the end of the
\* memory, data that looks like commands.
Orderly ==
  {Line("acquire"), Line("release"), Line("quit"), Line("help"),
   [name |-> "detach", pins |-> <<0, BUS_WR, BUS_RESET>>],
   Wr(16, <<9>>), Wr(255, <<3>>), Wr(1, <<>>), Rd(255), Rdn(255, 2), Rdn(16, 0),
   Pin(SUBCMD_GET, 1), Pin(SUBCMD_SET_LO, BUS_MREQ),
   Load(File, 255), Load(<<>>, 0), Memtest(254, 255), Memtest(2, 1)}

\* A block write stores its count, a block of one is shown as its count, a
\* memtest of one cell divides by zero, a count that is refused frees a wild
\* pointer, and a line of blanks has no first word.
NotAsSaid ==
  {Wr(255, <<9, 5>>), Rdn(255, 1), Memtest(1, 1), Rdn(1, 9), Line("blank")}

Entries == Orderly \cup NotAsSaid

\* Lines that find something: with Known = {}, or as said in the README.
Several == {Line("acquire"), Wr(1, <<5, 7>>)}
CountOfOne == {Line("acquire"), Wr(1, <<5>>), Rdn(1, 1)}
LongWrite == {Line("acquire"), Wr(1, <<5, 7, 9, 1, 1>>)}
OneCell == {Memtest(1, 1)}
Blank == {Line("blank")}
TooMany == {Line("acquire"), Rdn(1, 9)}
Reads == {Rd(1)}
OneWrite == {Line("acquire"), Wr(1, <<7>>)}
Detached == OneWrite \cup {[name |-> "detach", pins |-> <<BUS_WR>>]}
===========================================================================
