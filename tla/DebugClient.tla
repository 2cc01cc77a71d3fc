---------------------------- MODULE DebugClient ----------------------------
(***************************************************************************)
(* The client of debug/: the command loop of main.c, the commands of       *)
(* commands.c and what they exchange with the board, which is the request  *)
(* loop of CommandLoop, through a serial line that may be pulled out.      *)
(*                                                                         *)
(* A command is a script of requests, each written and then read for as    *)
(* many bytes as its reply must have.  batches counts commands here; mem   *)
(* as it was when the command was entered is kept in before, and whether   *)
(* the pins were then as the board had set them in plain.                  *)
(***************************************************************************)
EXTENDS CommandLoop

CONSTANTS
  Inputs,       \* lines the user enters, as the commands they stand for
  Files,        \* contents of the files that load may name
  MaxValues,    \* MAX_MULTIBYTE_BYTES (128)
  MaxFds,       \* descriptors a process may have
  MaxUnplugs,   \* bound: times the board is unplugged
  Known         \* lines known to print or store the wrong bytes, or to crash

ASSUME ClientAssumption ==
  /\ {MaxValues, MaxFds} \subseteq Nat \ {0} /\ MaxUnplugs \in Nat
  /\ Files \subseteq Seq(ByteValues)

VARIABLES
  pc,            \* "prompt", "start", "send", "await"; "spin" in read_all;
                 \* "quit", "crash"
  command,       \* the line being executed or last executed
  script,        \* requests it has still to make
  report,        \* memory bytes it has printed
  failed,        \* it has printed a complaint
  fds,           \* open descriptors of the serial line
  fdalive,       \* the descriptor of the command still leads to the board
  g_bus_state, ctrlc_pressed,
  plugged, unplugs, before, plain

board == <<mem, replies, pending, stream, recvbuf, nbytes, i, pins>>
client == <<pc, command, script, report, failed, fds, fdalive, g_bus_state, ctrlc_pressed>>
world == <<plugged, unplugs>>
entered == <<before, plain>>
allvars == <<board, client, world, batches, entered>>

---------------------------------------------------------------------------
(* What the commands ask of the board.                                     *)

Cmd(c) == [cmd |-> c]
WrOne(a, b) == [cmd |-> CMD_MEM_WR, addr |-> a, data |-> <<b>>]
RdOne(a) == [cmd |-> CMD_MEM_RD, addr |-> a]

\* One byte value is written by CMD_MEM_WR, several by CMD_MEM_WRN; a read
\* without a count is CMD_MEM_RD.
cmd_wr ==
  IF Len(command.data) = 1
    THEN WrOne(command.addr, command.data[1])
    ELSE [cmd |-> CMD_MEM_WRN, addr |-> command.addr, data |-> command.data]

cmd_rd ==
  IF "n" \in DOMAIN command
    THEN [cmd |-> CMD_MEM_RDN, addr |-> command.addr, n |-> command.n]
    ELSE RdOne(command.addr)

\* SUBCMD_SET_HI or SUBCMD_SET_LO with a value, else SUBCMD_GET; detach reads
\* every pin, the RESET line among them, and g_bus_state stays.
cmd_pin(sub, pin) == Cmd(8 * pin + sub)
cmd_detach == [k \in DOMAIN command.pins |-> cmd_pin(SUBCMD_GET, command.pins[k])]

\* Mutant: the address does not move.
cmd_load_Still ==
  <<Cmd(CMD_ACQUIRE)>>
    \o [k \in DOMAIN command.file |-> WrOne(command.addr, command.file[k])]
    \o <<Cmd(CMD_RELEASE)>>

cmd_load ==
  <<Cmd(CMD_ACQUIRE)>>
    \o [k \in DOMAIN command.file |-> WrOne(Plus(command.addr, k - 1), command.file[k])]
    \o <<Cmd(CMD_RELEASE)>>

\* The pseudo random bytes of memtest, seed = a * seed + c, in their low bits.
TestValue[k \in Nat] ==
  IF k = 0 THEN 0 ELSE (1664525 * TestValue[k - 1] + 1013904223) % Radix

CellsOf(from, to) == [k \in 1 .. (IF to < from THEN 0 ELSE to - from + 1) |-> from + k - 1]

cmd_memtest ==
  LET cells == CellsOf(command.start, command.end)
  IN  <<Cmd(CMD_ACQUIRE)>>
        \o [k \in DOMAIN cells |-> WrOne(cells[k], TestValue[k])]
        \o [k \in DOMAIN cells |-> RdOne(cells[k])]
        \o <<Cmd(CMD_RELEASE)>>

Script ==
  CASE command.name = "wr"      -> <<cmd_wr>>
    [] command.name = "rd"      -> <<cmd_rd>>
    [] command.name = "pin"     -> <<cmd_pin(command.sub, command.pin)>>
    [] command.name = "acquire" -> <<Cmd(CMD_ACQUIRE)>>
    [] command.name = "release" -> <<Cmd(CMD_RELEASE)>>
    [] command.name = "detach"  -> cmd_detach
    [] command.name = "load"    -> cmd_load
    [] command.name = "memtest" -> cmd_memtest
    [] command.name = "check"   -> <<Cmd(CMD_VERSION), Cmd(CMD_RELEASE)>>

\* Mutant: a level is awaited for raw output too.
Expected_Levels(r) ==
  Len(Encode(r)) + CASE r.cmd = CMD_MEM_RD  -> 1
                     [] r.cmd = CMD_MEM_RDN -> r.n
                     [] r.cmd = CMD_VERSION -> Len(BOARD_VER)
                     [] ~Batch(r.cmd)       -> 1
                     [] OTHER               -> 0

\* Bytes a command reads for a request.
Expected(r) ==
  Len(Encode(r)) + CASE r.cmd = CMD_MEM_RD  -> 1
                     [] r.cmd = CMD_MEM_RDN -> r.n
                     [] r.cmd = CMD_VERSION -> Len(BOARD_VER)
                     [] ~Batch(r.cmd) /\ Subcommand(r.cmd) = SUBCMD_GET -> 1
                     [] OTHER               -> 0

\* Requests that open the line for themselves; the others use the descriptor
\* of their command.
OpensItself(r) == r.cmd \in {CMD_ACQUIRE, CMD_RELEASE} \/ ~Batch(r.cmd)

---------------------------------------------------------------------------

Init0 ==
  /\ Init
  /\ pc = "start" /\ command = [name |-> "check"] /\ script = <<>>
  /\ report = <<>> /\ failed = FALSE
  /\ fds = 0 /\ fdalive = TRUE
  /\ g_bus_state = "released" /\ ctrlc_pressed = FALSE   \* BUS_RELEASED is 0
  /\ plugged = TRUE /\ unplugs = 0 /\ before = mem /\ plain = TRUE

\* A line is entered at the prompt.
Enter ==
  /\ pc = "prompt" /\ batches < MaxBatches
  /\ batches' = batches + 1
  /\ command' \in Inputs
  /\ pc' = "start" /\ script' = <<>>
  /\ report' = <<>> /\ failed' = FALSE
  /\ before' = mem /\ plain' = (regime # "raw")
  /\ UNCHANGED <<board, world, fds, fdalive, g_bus_state, ctrlc_pressed>>

\* The command is over; main looks at ctrlc_pressed before the next prompt.
Back == IF ctrlc_pressed THEN "quit" ELSE "prompt"

Dispatch(next, complaint) ==
  /\ pc = "start"
  /\ pc' \in next
  /\ failed' = complaint
  /\ UNCHANGED <<board, world, batches, entered, command, report, g_bus_state, ctrlc_pressed>>

\* Commands that end before they ask anything: quit and the end of the input,
\* help and unknown names, and a line of blanks, of which no name is left to
\* compare (an assertion of dynarray_nth_cell).
NoRequest ==
  \/ command.name = "quit" /\ Dispatch({"quit"}, FALSE) /\ UNCHANGED <<script, fds, fdalive>>
  \/ command.name = "help" /\ Dispatch({Back}, FALSE) /\ UNCHANGED <<script, fds, fdalive>>
  \/ command.name = "blank" /\ Dispatch({"crash"}, TRUE) /\ UNCHANGED <<script, fds, fdalive>>

Talks == command.name \notin {"quit", "help", "blank"}

\* Arguments that are refused before the line is opened.
Refused ==
  \/ command.name = "wr" /\ Len(command.data) \notin 1 .. MaxValues
  \/ command.name = "load" /\ command.file = <<>>   \* fread returns 0

Refuse == Talks /\ Refused /\ Dispatch({Back}, TRUE) /\ UNCHANGED <<script, fds, fdalive>>

CanOpen == plugged /\ fds < MaxFds

\* A command that cannot open the line ends the client; detach goes on.
OpenFails ==
  /\ Talks /\ ~Refused /\ ~CanOpen
  /\ Dispatch({IF command.name = "detach" THEN Back ELSE "quit"}, TRUE)
  /\ UNCHANGED <<script, fds, fdalive>>

\* wr and rd want the bus, and tell the user so with the line left open.
NeedsBus == command.name \in {"wr", "rd"} /\ g_bus_state # "acquired"

NotAcquired ==
  /\ Talks /\ ~Refused /\ CanOpen /\ NeedsBus
  /\ Dispatch({Back}, TRUE)
  /\ fds' = fds + 1
  /\ UNCHANGED <<script, fdalive>>

\* rd with an argument that is no number, or a count above the maximum, frees
\* a pointer that has no value yet.
Unreadable == command.name = "rd" /\ "n" \in DOMAIN command /\ command.n > MaxValues

BadArgument ==
  /\ CanOpen /\ ~NeedsBus /\ Unreadable
  /\ Dispatch({Back, "crash"}, TRUE)
  /\ UNCHANGED <<script, fds, fdalive>>

Begin ==
  /\ Talks /\ ~Refused /\ CanOpen /\ ~NeedsBus /\ ~Unreadable
  /\ Dispatch({"send"}, FALSE)
  /\ script' = Script
  /\ fds' = fds + 1 /\ fdalive' = TRUE

---------------------------------------------------------------------------
(* The exchange.                                                           *)

\* write() of the request; without the board it fails, and so does the rest
\* of the command that uses the descriptor.
Send ==
  /\ pc = "send" /\ script # <<>>
  /\ plugged /\ (fdalive \/ OpensItself(Head(script)))
  /\ pc' = "await"
  /\ stream' = stream \o Encode(Head(script))
  /\ pending' = Append(pending, Head(script))
  /\ UNCHANGED <<mem, replies, recvbuf, nbytes, i, pins, world, batches, entered, command, script,
                 report, failed, fds, fdalive, g_bus_state, ctrlc_pressed>>

\* A request is over, answered or not.  memtest divides the progress by
\* end - start after each; at start-up an answer to CMD_VERSION is required.
Divides(r) ==
  /\ command.name = "memtest" /\ r.cmd \in {CMD_MEM_WR, CMD_MEM_RD}
  /\ command.start = command.end

After(r, good) ==
  /\ script' = Tail(script)
  /\ failed' = (failed \/ ~good)
  /\ pc' \in CASE Divides(r) -> {"crash", "send"}   \* undefined
               [] command.name = "check" /\ r.cmd = CMD_VERSION /\ ~good -> {"quit"}
               [] OTHER -> {"send"}

SendFails ==
  /\ pc = "send" /\ script # <<>>
  /\ ~(plugged /\ (fdalive \/ OpensItself(Head(script))))
  /\ After(Head(script), FALSE)
  /\ UNCHANGED <<board, world, batches, entered, command, report, fds, fdalive,
                 g_bus_state, ctrlc_pressed>>

\* The answer must begin with the request, and the version must be known.
Answers(r, resp) ==
  /\ IsPrefix(Encode(r), resp)
  /\ r.cmd = CMD_VERSION => resp = Encode(r) \o BOARD_VER

\* rd prints resp[3] for a count of one, which is the byte after CMD_MEM_RD
\* and the count after CMD_MEM_RDN, else the resp[3] bytes behind the count.
printed(r, resp) ==
  CASE r.cmd = CMD_MEM_RD  -> <<resp[4]>>
    [] r.cmd = CMD_MEM_RDN -> IF r.n = 1 THEN <<resp[4]>> ELSE SubSeq(resp, 5, 4 + resp[4])
    [] OTHER -> <<>>

\* read_all has its bytes.  memtest counts a byte that is not the one written
\* as an error and goes on.
Receives ==
  /\ pc = "await" /\ Len(replies) >= Expected(Head(script))
  /\ LET r == Head(script)
         resp == SubSeq(replies, 1, Expected(r))
         good == Answers(r, resp)
         cells == Len(script) - 1   \* memtest: cells still to read, this one too
         wrong == /\ command.name = "memtest" /\ r.cmd = CMD_MEM_RD
                  /\ resp[4] # TestValue[command.end - command.start + 2 - cells]
     IN  /\ After(r, good /\ ~wrong)
         /\ replies' = SubSeq(replies, Expected(r) + 1, Len(replies))
         /\ report' = IF good /\ command.name = "rd" THEN printed(r, resp) ELSE report
         /\ g_bus_state' = CASE good /\ r.cmd = CMD_ACQUIRE -> "acquired"
                             [] good /\ r.cmd = CMD_RELEASE -> "released"
                             [] OTHER -> g_bus_state
  /\ UNCHANGED <<mem, pending, stream, recvbuf, nbytes, i, pins, world, batches, entered, command,
                 fds, fdalive, ctrlc_pressed>>

\* check_board waits a second at most, and reads once what is there by then.
Timeout ==
  /\ pc = "await" /\ command.name = "check" /\ Head(script).cmd = CMD_VERSION
  /\ pc' = "quit"
  /\ UNCHANGED <<board, world, batches, entered, command, script, report, failed, fds,
                 fdalive, g_bus_state, ctrlc_pressed>>

Finish ==
  /\ pc = "send" /\ script = <<>>
  /\ pc' = Back
  /\ fds' = fds - 1
  /\ UNCHANGED <<board, world, batches, entered, command, script, report, failed, fdalive,
                 g_bus_state, ctrlc_pressed>>

\* Ctrl-C during a command is remembered; at the prompt the line starts over.
Interrupt ==
  /\ pc \in {"start", "send", "await"} /\ ~ctrlc_pressed
  /\ command.name # "check"   \* the handler is not yet installed
  /\ ctrlc_pressed' = TRUE
  /\ UNCHANGED <<board, world, batches, entered, pc, command, script, report, failed, fds,
                 fdalive, g_bus_state>>

---------------------------------------------------------------------------
(* The board and its plug.                                                 *)

Board == (Receive \/ Loop) /\ UNCHANGED <<client, world, entered>>

\* Everything on the way is lost and the board starts again later, with its
\* lines as outputs and RESET high, as g_bus_state cannot tell; the RAM
\* stays.  A read that waits fails, or returns 0 for ever and is repeated.
Unplug ==
  /\ plugged /\ unplugs < MaxUnplugs
  /\ plugged' = FALSE /\ unplugs' = unplugs + 1
  /\ replies' = <<>> /\ pending' = <<>> /\ stream' = <<>>
  /\ recvbuf' = [k \in DOMAIN recvbuf |-> 0] /\ nbytes' = 0 /\ i' = 0
  /\ output' = Lines /\ high' = Controls /\ regime' = "free"
  /\ fdalive' = FALSE
  /\ IF pc = "await"
       THEN \/ After(Head(script), FALSE)
            \/ pc' = "spin" /\ UNCHANGED <<script, failed>>
       ELSE UNCHANGED <<pc, script, failed>>
  /\ UNCHANGED <<mem, batches, entered, command, report, fds, g_bus_state, ctrlc_pressed>>

Plug ==
  /\ ~plugged /\ plugged' = TRUE
  /\ UNCHANGED <<board, client, unplugs, batches, entered>>

Client ==
  \/ NoRequest \/ Refuse \/ OpenFails \/ NotAcquired \/ BadArgument \/ Begin
  \/ Send \/ SendFails \/ Receives \/ Finish

ClientNext == Enter \/ Client \/ Timeout \/ Interrupt \/ Board \/ Unplug \/ Plug

\* The client and the board run on; nothing obliges the user or the plug.
ClientSpec ==
  Init0 /\ [][ClientNext]_allvars /\ WF_allvars(Client) /\ WF_allvars(Board)

---------------------------------------------------------------------------

\* What a command has to make of the memory that was there.
Intended ==
  CASE command.name = "wr"      -> Write(before, command.addr, command.data)
    [] command.name = "load"    -> Write(before, command.addr, command.file)
    [] command.name = "memtest" ->
         Write(before, command.start,
               [k \in DOMAIN CellsOf(command.start, command.end) |-> TestValue[k]])
    [] OTHER                    -> before

\* A command that has not complained has done to the memory what the user
\* asked for and nothing else, and rd has printed what is stored.
Done ==
  pc = "prompt" /\ ~failed /\ command \notin Known =>
    /\ mem = Intended
    /\ command.name = "rd" =>
         report = Contents(mem, command.addr, IF "n" \in DOMAIN command THEN command.n ELSE 1)

\* "data is written to address" (cmd_wr), and the same of every command,
\* whatever was unplugged and interrupted on the way, as long as no pin was
\* used by itself since the board started, and of wr and rd as long as the
\* board that was acquired has not started again since.
Truthful ==
  plain /\ (command.name \in {"wr", "rd"} => regime = "taken") => Done

\* The board keeps its place among the requests, and when a command is over
\* nothing of them and of their replies is left on the line for the next one
\* (read_all takes whatever comes).
Undisturbed ==
  InSync /\ (pc = "prompt" => pending = <<>> /\ replies = <<>>)

\* "TODO: timeout": read_all waits without end, and still every command comes
\* back to the prompt or ends the client as asked, while the plug is in.
Busy == pc \in {"start", "send", "await"}
Returns == Busy /\ command \notin Known ~> (pc \in {"prompt", "quit"} \/ unplugs > 0)

\* The same whatever happens to the plug.
ReturnsAlways == Busy ~> pc \in {"prompt", "quit"}

\* No command leaves the line open.
NoLeak == pc = "prompt" => fds = 0

\* Only quit, the end of the input, Ctrl-C and a missing board end the client.
StaysUp ==
  pc \notin {"crash"} /\ (pc = "quit" => command.name \in {"quit", "check"} \/ ctrlc_pressed \/ ~plugged)
===========================================================================
