----------------------------- MODULE BusAccess -----------------------------
(***************************************************************************)
(* bc80_hw.c, the pin configuration of main.c and the raw pin commands:    *)
(* the debugger on the bus of the bc80, pin operation by pin operation,    *)
(* beside the Z80 and the RAM.  The client's commands arrive one at a time *)
(* and under its rules: it begins with a release and reads and writes      *)
(* memory between an acquire and a release (g_bus_state in commands.c).    *)
(*                                                                         *)
(* The Z80 and the RAM are hardware beside the code.  As the README of     *)
(* debug/ has it, a Z80 kept in reset leaves the bus alone; a Z80 that     *)
(* runs drives the bus and may write any address at any time.  A RESET     *)
(* line nobody drives is pulled up.                                        *)
(***************************************************************************)
EXTENDS GpioPins

CONSTANTS
  Plans   \* what the user does: the pins the client's raw commands name, and
          \* a bound on the times the board is powered

ASSUME PlanAssumption ==
  \A p \in Plans : p.pins \subseteq AllPins /\ p.maxboots \in Nat \ {0}

VARIABLES
  output, high,   \* pins configured as output; pins whose latch is 1
  program,        \* pin operations left of the function that runs
  request,        \* command being executed or last executed
  result,         \* bits read_data has found to be 1
  ram,            \* contents of the RAM
  g_bus_state,    \* the client's: "unknown", "acquired", "released"
  plan, boots

vars == <<output, high, program, request, result, ram, g_bus_state, plan, boots>>

---------------------------------------------------------------------------
(* The functions of the firmware.                                          *)

\* main: every line an output, every control line high (BUSACK is an input
\* that is never read).
boot ==
  LET control == <<MREQ, BUSRQ, WR, RD, RESET>>
  IN  Each(cfg_pin_as_output, BUS_A \o BUS_D \o control)
        \o Each(set_pin_high, control)

\* Mutant: the data lines are not made inputs.
bc80_read_mem_NoInput(addr) ==
  Set(BUS_A, addr)
    \o <<set_pin_high(WR), set_pin_low(RD), set_pin_low(MREQ)>>
    \o Each(sample, BUS_D)
    \o <<set_pin_high(MREQ), set_pin_high(RD)>>

\* Mutant: the data lines are read when the strobes are over.
bc80_read_mem_LateSample(addr) ==
  Each(cfg_pin_as_input, BUS_D) \o Set(BUS_A, addr)
    \o <<set_pin_high(WR), set_pin_low(RD), set_pin_low(MREQ)>>
    \o <<set_pin_high(MREQ), set_pin_high(RD)>>
    \o Each(sample, BUS_D)

bc80_read_mem(addr) ==
  Each(cfg_pin_as_input, BUS_D) \o Set(BUS_A, addr)
    \o <<set_pin_high(WR), set_pin_low(RD), set_pin_low(MREQ)>>
    \o Each(sample, BUS_D)
    \o <<set_pin_high(MREQ), set_pin_high(RD)>>

\* Mutant: the strobes are lowered before the address is complete.
bc80_write_mem_EarlyStrobe(addr, byte) ==
  Each(cfg_pin_as_output, BUS_D) \o Set(BUS_D, byte)
    \o <<set_pin_high(RD), set_pin_low(WR), set_pin_low(MREQ)>>
    \o Set(BUS_A, addr)
    \o <<set_pin_high(MREQ), set_pin_high(WR)>>

bc80_write_mem(addr, byte) ==
  Each(cfg_pin_as_output, BUS_D) \o Set(BUS_A, addr) \o Set(BUS_D, byte)
    \o <<set_pin_high(RD), set_pin_low(WR), set_pin_low(MREQ)>>
    \o <<set_pin_high(MREQ), set_pin_high(WR)>>

\* Mutant: the lines are taken from a Z80 that runs.
bc80_bus_acquire_NoReset ==
  Each(cfg_pin_as_output, BUS_A \o <<MREQ, WR, RD>>)
    \o Each(set_pin_high, <<RD, WR, MREQ>>)

bc80_bus_acquire ==
  <<set_pin_low(RESET)>>
    \o Each(cfg_pin_as_output, BUS_A \o <<MREQ, WR, RD>>)
    \o Each(set_pin_high, <<RD, WR, MREQ>>)

\* Mutant: the Z80 is let go before the lines are.
bc80_bus_release_Early ==
  Each(set_pin_high, <<RD, WR, MREQ>>)
    \o <<set_pin_high(RESET)>>
    \o Each(cfg_pin_as_input, BUS_A \o BUS_D \o <<MREQ, BUSRQ, WR, RD>>)

\* Mutant: the data lines are forgotten.
bc80_bus_release_KeepsData ==
  Each(set_pin_high, <<RD, WR, MREQ>>)
    \o Each(cfg_pin_as_input, BUS_A \o <<MREQ, BUSRQ, WR, RD>>)
    \o <<set_pin_high(RESET)>>

bc80_bus_release ==
  Each(set_pin_high, <<RD, WR, MREQ>>)
    \o Each(cfg_pin_as_input, BUS_A \o BUS_D \o <<MREQ, BUSRQ, WR, RD>>)
    \o <<set_pin_high(RESET)>>

\* Raw pin access in main.c.
raw(subcmd, pin) ==
  CASE subcmd = "SET_HI" -> <<cfg_pin_as_output(pin), set_pin_high(pin)>>
    [] subcmd = "SET_LO" -> <<cfg_pin_as_output(pin), set_pin_low(pin)>>
    [] subcmd = "GET"    -> <<cfg_pin_as_input(pin)>>

---------------------------------------------------------------------------
(* The hardware around the firmware.                                       *)

Active(strobe) == strobe \in output /\ strobe \notin high
RamReads == Active(MREQ) /\ Active(RD)
RamWrites == Active(MREQ) /\ Active(WR)
Z80Runs == ~Active(RESET)

\* What a bus may carry: a line that is not an output may read as anything.
Levels(bus) ==
  {value \in SUBSET DOMAIN bus :
     \A i \in DOMAIN bus : bus[i] \in output => (i \in value <=> bus[i] \in high)}

Init ==
  /\ output = {} /\ high = {}
  /\ program = boot
  /\ request = [name |-> "boot"] /\ result = {}
  /\ ram \in [Address -> {{}}]
  /\ g_bus_state = "unknown"
  /\ plan \in Plans /\ boots = 1

\* What the client records when the function is done and has answered.
AfterResponse ==
  CASE request.name = "acquire" -> "acquired"
    [] request.name = "release" -> "released"
    [] OTHER                    -> g_bus_state

\* One pin operation, and what the RAM makes of it.
Step ==
  /\ program # <<>>
  /\ program' = Tail(program)
  /\ LET op == Head(program)
     IN  /\ output' = CASE op.do = "output" -> output \cup {op.pin}
                        [] op.do = "input"  -> output \ {op.pin}
                        [] OTHER            -> output
         /\ high' = CASE op.do = "high" -> high \cup {op.pin}
                      [] op.do = "low"  -> high \ {op.pin}
                      [] OTHER          -> high
         /\ IF op.do = "sample"
              THEN \E addr \in Levels(BUS_A), data \in Levels(BUS_D) :
                     LET level == IF RamReads /\ op.pin \notin output
                                    THEN ram[addr] ELSE data
                     IN  result' = result \cup ({op.pin[2]} \cap level)
              ELSE UNCHANGED result
  /\ IF RamWrites'
       THEN \E addr \in Levels(BUS_A)', data \in Levels(BUS_D)' :
              ram' = [ram EXCEPT ![addr] = data]
       ELSE UNCHANGED ram
  /\ g_bus_state' = IF Len(program) = 1 THEN AfterResponse ELSE g_bus_state
  /\ UNCHANGED <<request, plan, boots>>

Z80Write ==
  /\ Z80Runs
  /\ \E addr \in Address, data \in Byte : ram' = [ram EXCEPT ![addr] = data]
  /\ UNCHANGED <<output, high, program, request, result, g_bus_state, plan, boots>>

\* The board loses its power, or is plugged in again; the client runs on.
Boot ==
  /\ boots < plan.maxboots
  /\ boots' = boots + 1
  /\ output' = {} /\ high' = {}
  /\ program' = boot
  /\ request' = [name |-> "boot"] /\ result' = {}
  /\ UNCHANGED <<ram, g_bus_state, plan>>

---------------------------------------------------------------------------
(* The client.                                                             *)

Send(command, operations) ==
  /\ program = <<>>
  /\ request' = command
  /\ program' = operations
  /\ result' = {}
  /\ UNCHANGED <<output, high, ram, g_bus_state, plan, boots>>

cmd_acquire ==
  /\ g_bus_state # "unknown"
  /\ Send([name |-> "acquire"], bc80_bus_acquire)

cmd_release == Send([name |-> "release"], bc80_bus_release)

cmd_wr ==
  /\ g_bus_state = "acquired"
  /\ \E addr \in Address, byte \in Byte :
       Send([name |-> "write", addr |-> addr, byte |-> byte], bc80_write_mem(addr, byte))

cmd_rd ==
  /\ g_bus_state = "acquired"
  /\ \E addr \in Address : Send([name |-> "read", addr |-> addr], bc80_read_mem(addr))

cmd_pin ==
  /\ g_bus_state # "unknown"
  /\ \E pin \in plan.pins, subcmd \in {"SET_HI", "SET_LO", "GET"} :
       Send([name |-> subcmd], raw(subcmd, pin))

Next ==
  \/ Step \/ Z80Write \/ Boot
  \/ cmd_acquire \/ cmd_release \/ cmd_wr \/ cmd_rd \/ cmd_pin

Spec == Init /\ [][Next]_vars

---------------------------------------------------------------------------

TypeOK ==
  /\ {output, high} \subseteq SUBSET AllPins
  /\ program \in Seq(Ops)
  /\ result \in Byte
  /\ ram \in [Address -> Byte]
  /\ g_bus_state \in {"unknown", "acquired", "released"}
  /\ plan \in Plans /\ boots \in 1 .. plan.maxboots

\* A session without raw pin commands, on a board that keeps its power.
Plain == plan.pins = {} /\ plan.maxboots = 1

\* In a plain session, once a client has taken over, the debugger drives none
\* of the Z80's lines while the Z80 runs, at any point of an acquire or a
\* release (cfg_release_bus, "to prevent conflicts with Z80").
NoContention ==
  Plain /\ Z80Runs /\ g_bus_state # "unknown" => output \cap Z80Pins = {}

\* "use 'acquire' before accessing the bus from debugger" (cmd_wr, cmd_rd):
\* when the client believes it has the bus, the Z80 is in reset, whatever the
\* user has done.
AcquiredMeansHeld == g_bus_state = "acquired" /\ program = <<>> => ~Z80Runs

\* The same whatever raw commands do to the other lines, strobes included,
\* while none of them names RESET and the board keeps its power.
HeldInReset ==
  RESET \notin plan.pins /\ plan.maxboots = 1 => AcquiredMeansHeld

\* "Bluepill puts Z80 to permanent reset state and operates with MREQ/RD/RW
\* signals": at rest the debugger drives the bus only of a Z80 in reset.
OnlyInReset == program = <<>> /\ Z80Runs => output \cap Z80Pins = {}

\* In a plain session, once a client has taken over, the debugger and the RAM
\* never drive the data lines at once (bc80_read_mem).
NoDataFight ==
  Plain /\ RamReads /\ g_bus_state # "unknown" => output \cap Pins(BUS_D) = {}

\* In a plain session with the Z80 in reset the RAM changes only by a write
\* command, in the byte it names, whatever the lines carry on the way there.
OnlyWrites ==
  [][Plain /\ ram' # ram /\ ~Z80Runs /\ g_bus_state # "unknown" =>
       /\ request.name = "write"
       /\ ram' = [ram EXCEPT ![request.addr] = request.byte]]_vars

\* In a plain session a write command has stored its byte and a read command
\* has found the byte that is stored, when they are done.
Served ==
  Plain /\ program = <<>> =>
    /\ request.name = "write" => ram[request.addr] = request.byte
    /\ request.name = "read" => result = ram[request.addr]

\* A release frees the bus and lets the Z80 run, whatever raw pin commands
\* and whatever loss of power came before it.
ReleaseFrees ==
  request.name = "release" /\ program = <<>> =>
    output \cap Z80Pins = {} /\ Z80Runs
===========================================================================
