# bc80: models and proofs

bc80 is a home-made Z80 computer with the tools around it: a hardware debugger
(an STM32 "bluepill" board on the expansion connector and a client on a PC), an
assembler and disassembler, and a resident system monitor. This directory holds
TLA+ models of its program logic, the TLC configurations that check them, and
proofs checked by TLAPS.

Modelled are the debugger from the ring buffer to the Z80's bus and up to the
commands of its client, the assembler from the parsed statements to the file, the
disassembler, and the monitor in the ROM.

Paths are relative to the repository root, `fw/` stands for
`src/debug/bluepill/src/`, `client/` for `src/debug/client/` and `asm/` for
`src/bc80asm/asm/`.

## Inventory

| Component | State | Operations | Interacts with |
|---|---|---|---|
| Ring buffer `fw/usb/ringbuffer.c` | array, `head`, `tail` | `RB_read`, `RB_write` | called by the USB data path |
| USB data path `fw/usb/usb.c`, `usb_lib.c` | `tx_succesfull`, `rxNE`, `usbON`, `USB_Status`, endpoint registers and packet memory | `usb_proc`, `usb_send`, `usb_recv`, `EP_Write`, `EP_Read`, the EP2, EP3 and EP0 handlers | interrupts preempt the main loop; the PC's USB controller drives the endpoints |
| Enumeration `fw/usb/usbhw.c`, `usb_lib.c` | `USB_Addr`, `DADDR`, `USB_Status`, `lastaddr`, buffer table | `USB_LP_CAN1_RX0_IRQHandler`, `EP0_Handler`, `std_h2d_req`, `EP_Init` | reset interrupt and main loop share `lastaddr` |
| Bus access `fw/bc80_hw.c`, `stm32_hw.c` | mode and latch of every pin | acquire, release, read and write of a byte, raw pin commands | the RAM and the Z80 on the same lines |
| Command loop `fw/main.c` | `recvbuf`, index `i` | one branch for each request of `src/debug/dbgproto.h` | takes packets from the data path, calls bus access, answers through `usb_send` |
| Client `client/*.c` | `g_bus_state`, `ctrlc_pressed`, descriptors | commands acquire, release, wr, rd, load, pin, memtest, ... | writes requests and reads replies on the serial line |
| Client dynarray `client/dynarray.c` | array of pointers | append, free | the client's argument lists |
| Assembler parser `src/bc80asm/asm/parser.y`, `lexer.l` | statement list, expression trees | reductions | input of compilation |
| Assembler compilation `compile.c`, `expressions.c`, `symtab.c` | symbol table, sections, patches, REPT and IF stacks | one per statement, `expr_eval` | parser, render |
| Instruction encoding `instruction.c`, `instr.inc.c` | none (tables) | table lookup | called by compilation |
| Assembler output `render*.c` | section buffers | patching, raw, ELF and SNA output | compilation |
| Bits library `src/bc80asm/bits/` | hash map, dynamic array, buffer, allocator | insert, search, remove, scan, append, reserve | everything in the assembler |
| Disassembler `src/bc80asm/disasm/` | node list, labels | decode, label, print | image file |
| System monitor `src/sysmon/*.asm` | registers, scancode buffer, UART | `isr0`, `putchar`, main loop | the keyboard controller's interrupt |

What is hard in each, and what makes it correct:

* **Ring buffer.** Full and empty differ by one slot that is never used, and
  copies wrap in two pieces. Correct: a bounded FIFO; unread bytes are never
  overwritten.
* **USB data path.** Any access to a flag or a register may be preempted; the
  endpoint's STAT field is changed by toggling bits computed from an earlier
  read; flags outlive bus resets. Correct: answers arrive complete and in order,
  the device does not stop for ever, no unread packet is overwritten, packet
  memory is not rewritten during transmission.
* **Enumeration.** A reset interrupt restarts the packet memory allocation while
  the main loop is inside it; the address changes at an acknowledgement, which
  the handler only recognises indirectly. Correct: disjoint buffers inside the
  memory, the address the PC uses, all endpoints enabled when connected.
* **Bus access.** A byte is moved by some forty separate pin operations beside
  live hardware; power may fail between any two. Correct: no two drivers on a
  line, no write to any other cell, the Z80 in reset while the bus is taken.
* **Command loop.** Requests are a byte stream, USB delivers packets. Correct:
  each request has the effect and the reply of `dbgproto.h`, and the loop never
  loses its place.
* **Client.** It trusts its own record of the bus, waits without timeout, takes
  whatever bytes come next for its reply, and leaves commands by many exits.
  Correct: a command that does not complain did what it says; nothing of it is
  left on the line; it comes back to the prompt.
* **Assembler.** Two passes over trees that evaluation changes in place, nested
  IF and REPT, forward references patched later at recorded positions, pointers
  into a buffer that may move. Correct: the bytes are the ones the source
  describes, wherever a name is defined, and the file holds them where its
  headers say.
* **Hash map.** The head of a bucket lies in the table, the rest of a list in
  allocated nodes, so removal and replacement differ by place. Correct: a
  dictionary, and no memory freed while it is in use.
* **Disassembler.** Ten decoders tried in turn on overlapping patterns, relative
  offsets printed with a sign. Correct: the listing assembles to the same binary.
* **Monitor.** An interrupt handler that shares A, the flags and the UART with
  the code it interrupts. Correct: every character once, every key reported.

`PROJECT.json` lists these hazards at their lines under `hazards`.

## Modules

| Module | Models | Instantiated by |
|---|---|---|
| `ByteQueue` | abstract: what the transmit buffer promises | `RingBuffer`, `UsbDevice` |
| `RingBuffer` | `ringbuffer.c`, implements `ByteQueue` | `MCRingBuffer`, `RingBufferProofs` |
| `EndpointRegister` | the STAT field and its toggling (`usb_lib.h`) | `UsbDevice` |
| `UsbDevice` | main loop, interrupts, EP2/EP3 and the PC | `MCUsbDevice`, `UsbDeviceProofs` |
| `UsbEnumeration` | reset to CONNECTED: address and packet memory | `MCUsbEnumeration`, `UsbEnumerationProofs` |
| `GpioPins` | pins and their operations (`dbgproto.h`, `stm32_hw.c`) | `BusAccess` |
| `BusAccess` | `bc80_hw.c` beside RAM, Z80, client and power | `MCBusAccess`, `BusAccessProofs` |
| `DebugRequests` | request codes, encoding, effects and replies | `DebugProtocol`, `CommandLoop` |
| `DebugProtocol` | abstract: what the protocol promises | `CommandLoop` |
| `CommandLoop` | the loop of `main.c` over packets, against `DebugProtocol` | `MCCommandLoop`, `DebugClient` |
| `DebugClient` | the client's commands, composed with `CommandLoop` | `MCDebugClient`, `DebugClientProofs` |
| `Instruction` | `instruction.c`: every form with its code and patches | `Disassembler` |
| `Disassembler` | the decoder and the operands it prints | `RoundTrip` |
| `RoundTrip` | `test.sh`: assemble, disassemble, assemble again | `MCRoundTrip` |
| `HashMap` | `hashmap.c` by entries, implements `Dictionary` | `MCHashMap`, `HashMapProofs` |
| `Dictionary` | abstract: a partial map | `HashMap` |
| `Expressions` | the grammar of expressions and the operators on numbers | `Assembler` |
| `Assembler` | `compile.c` with evaluation, symbols and section contents | `AssemblerReference` |
| `AssemblerReference` | abstract: what a source means | `MCAssembler` |
| `OutputFile` | options, raw, ELF and SNA output | `MCOutputFile`, `OutputFileProofs` |
| `SystemMonitor` | `sysmon.asm` and `uart.asm` by instructions | `MCSystemMonitor`, `SystemMonitorProofs` |
| `RingBufferProofs`, `UsbDeviceProofs`, `UsbEnumerationProofs`, `BusAccessProofs`, `DebugClientProofs` (with those about `CommandLoop`), `HashMapProofs`, `OutputFileProofs`, `SystemMonitorProofs` | theorems | |

`MC...` modules hold only the sets the configurations name. Operators marked
"Mutant" are plausible bugs; no specification uses them. They exist to show
that each property would notice.

### RingBuffer

`ringbuffer`, `head` and `tail` are the C variables, `ret` and `out` what a
call returns. One action is one call, because only the main loop calls: the
interrupt handlers never touch the ring. `RingIsQueue` is the refinement of
`ByteQueue` under the mapping queue = `Contents`, the bytes from `head` to
`tail`. `UsbDevice` uses the operators of `ByteQueue` for its transmit buffer,
so the two modules compose through that interface.

### UsbDevice

`pc` is the next step of the main loop. The grain is the access to state shared
with an interrupt or with the hardware: `usb_recv` is four steps (test, read,
arm EP2, clear `rxNE`) because a packet may arrive between any two; `EP_Write`
is three (copy, read EPnR, write EPnR). Register writes follow the hardware:
a written 1 toggles a STAT bit, CTR bits are cleared by writing 0. An interrupt
is taken before the main loop's next step once a CTR flag is up (`Preempted`),
except that a main-loop step which is a single store can still fall between the
flag and the handler.

A request packet is reduced to the `usb_send` calls that answer it, each given
by the length the answer has after it, and byte j of the answer to packet k is
`<<k, j>>`, so that loss, repetition and reordering are all visible. `plan`, chosen in the initial state,
is what the PC does: which requests, how many at a time, how many resets and
suspends. One run thereby covers an orderly PC and a rough one. EP1, which the
PC never polls, is left out.

`Orderly` is the condition of the properties about answers: one request at a
time, no reset or suspend, and no run of `usb_send` calls of one request that
amounts to full packets. That no single call and no whole answer does is not
enough: `usb_proc` may empty the buffer between any two calls of different
requests or none at all, so any run of calls may find itself cut into packets of
its own, and a full last packet is followed by a zero-length one (see Findings).
Of the firmware's answers all single-byte and fixed-size ones are orderly, and a
block read of fewer than 64 bytes, which sends 4 bytes and then one at a time.

### UsbEnumeration

`EP_Init` is split at its tests, at the reading and the writing of the endpoint
register (a toggle, as in `UsbDevice`) and at the uses of `lastaddr`, a plain (not
volatile) variable shared with the reset interrupt: each use may read memory or a
register loaded earlier (`tmp`), and both are modelled. `EarlyDescriptor` lets the
PC read a descriptor before SET_ADDRESS, as most do. `txaddr` and `rxaddr` are the buffer
table. `Setup` assumes that a PC leaves the device milliseconds between
requests, so that the main loop is idle again; bus resets come at any step.
Sizes are in units of 8 bytes: every buffer and the table are multiples of it.

### BusAccess

A firmware function is the sequence of its pin operations; `Step` performs one.
`output` and `high` are the mode and latch of each pin. The RAM stores while
MREQ and WR are driven low, at whatever address the lines then carry, and a
line nobody drives may read as anything. A Z80 that is not held in reset writes
any address at any time. `g_bus_state` is the client's record, changed when the
response is there. `plan` says which pins raw commands name and how often the
board is powered. BUSRQ and BUSACK are not used by the firmware beyond their
mode, and the port and bit of a pin (`get_pinnumport`) is reduced to its name.

### CommandLoop

`stream` is what the client has written and USB has not delivered, `recvbuf`
the buffer with whatever earlier packets left in it. One action is one pass of
the inner loop. `pending` is a history variable: the requests whose bytes are
still ahead. The property `Serves` is the refinement of `DebugProtocol`, in
which the batch is a sequence of requests and there are no bytes at all.

Pins are modelled as far as a memory command depends on them: `output` has the
address and control lines whose pins are outputs, `high` the control lines whose
latch is 1. `bc80_write_mem` sets the modes of the data pins only; it stores its byte
if the board drives all other lines and keeps the Z80 in reset (`Held`). If not, the
byte is stored, or nothing, or something somewhere (`Astray`), and a read finds
anything. Raw commands, `detach` and a restart of the board change the pins as they
do in `main.c`; `regime` is a history variable that tells how the bus was used since
the board started: "free", "taken" by an acquire, or "raw". `DebugProtocol` promises
the effect of a memory command only while it is "taken". That `Held` makes a single
access reach its cell is what `BusAccess` shows, operation by operation.

### DebugClient

One action is a system call or an exit of a command. A command is first refused
(`Refused`, `OpenFails`, `NotAcquired`, `BadArgument`: each leaves the descriptors
as the code does) or it begins with its `Script`, the requests it will make:
`memtest` is acquire, writes, reads, release. `Send` is `write`, `Receives` the
return of `read_all`, which takes the first `Expected` bytes on the line, whatever
they answer. `Board` is `Receive` or `Loop` of `CommandLoop`, which the module
extends, so the two share `stream` and `replies` and act at any time; the data
path between them is taken as the reliable stream that `usb_traffic` checks for a
PC with one request at a time. `Interrupt` is `handle_sigint`. `Unplug` may
happen at any step: the line is emptied, the board starts again with a buffer of
zeros, all lines driven and RESET high, the RAM and `g_bus_state` stay, and a read
that waits fails or spins. `spin` is the loop of `read_all` on a read of no bytes.
`Done` is what a command that has not complained must have done; `Truthful` says it
on the condition that no pin was used by itself since the board started (`plain`) and,
for `wr` and `rd`, which only look at `g_bus_state`, that the board is still the one
acquired (`regime`). Without the condition it fails (`Done`, see Findings).

### Instruction, Disassembler, RoundTrip

`Forms` is the set of the accepted instructions over the chosen immediates, each
with its code and with the places `register_fwd_lookup` is called for. Forms with
parentheses that the encoder does not look at (`ADD (A),B`, `RET (NZ)`) are left out;
their codes are those of the forms without. An operand
is a parse node; one that is not yet known is `Unresolved`. `Decode` is the chain
of decoders with what the printer makes of the operands, as the assembler will
read them: a relative jump is a distance from `$`. `RoundTrip` runs the script
`test.sh`: the first pass (`compile_instr`), the patches (`resolve`,
`render_finish`), the listing (`disassemble`, `disas_render_text`) and the second
assembly. An address that the first assembly knows only at its end is a name
defined later (`compile_label`, `compile_org`). With `opt_labels` the listing
names the targets of jumps and calls and defines a name where an instruction
begins at it; with `opt_source` each line carries the bytes it was decoded from.

### HashMap

An entry is known by its address: a bucket of the table or a node of the
allocator. `From` follows `next`; the disjuncts of `hashmap_set` and
`hashmap_remove` are the cases of `hashmap_access_impl`. Freed values are kept in
`released`, so that a value used after it was freed is visible. The refinement of
`Dictionary` maps the table to the function of its entries.

### Assembler, AssemblerReference

One step of the first pass is one statement; `program` is a variable because
`eval_literal` writes into the leaves, which the symbol table and the patches
share. An operand is a sequence of tokens; `Tree` is what the parser makes of it,
with the mark of parentheses (`is_ref`) that tells an address from a number, and
`expr_eval` is the evaluation of the tree, which may leave an operator with the
part of its operands it knows (`make_inherited_expr`). `compile_label`,
`compile_rept`, `compile_endr_again` and the others are the branches of the
statement loop with its early returns; `Forward` and `Skip` are the two ways it
goes on. Names are defined once in a source without blocks, since a redefinition
has no documented meaning. Instructions are represented by `JP`, `JR` and `LD HL`: an
absolute operand, a relative one, and one that parentheses make an address; the
codes of all others are `Instruction`'s business. In `Operation` the operands are
bound as a set of one, so that TLC evaluates each subtree once.

`AssemblerReference` says what a source means without passes, patches or a
table: `Unroll` repeats and selects statements, a layout gives each its address,
and every operand is worked out by `Sense`, which splits the tokens at the last
operator of the lowest rank, as C does. It looks only at the source as it was
written. Values are integers; no source here leaves the range of `int`.

### OutputFile

Contents are lengths. A pointer to a section header is the block of memory it
points into (`sech_ptrs`), which `buffer_reserve` may have left. A snapshot is
the sequence of the writes to it, so that a later write over an earlier one can
be told. The error for a section without a start is left out: every section has one.

### SystemMonitor

One step is one instruction where the order of an access matters. A and Z are
outside the banks that `exx` exchanges. The handler runs to its end with
interrupts off, in one step, and may come before any instruction. `struck` is a
history variable, the place where it has come. What is said about the keyboard holds
for all of them; what is said about the text on the console is for the places where A
and the flags are not in use (`Harmless`, which has the window of `putchar` between
the test of the transmitter and the load of the character). `transmit` ends the sending of a character at any time; the 8251 holds one
more behind it, and a third is written over that. `held` is a history variable: what
the keyboard has held. A second program calls
`putdec` with each of `Numbers`; `Shift`, `Add` and `Carry` are its 16-bit
arithmetic with the carry it forgets to clear.

## Runs

Each run takes from seconds to about a minute on two cores.

| Run | Checks | Bounds | Shows |
|---|---|---|---|
| `ring` | UnreadKept, RingIsQueue | size 5, block 3, writes up to 5 bytes of 2 values | FIFO through every wrap-around, full and empty |
| `usb_traffic` | TypeOK, EndpointsReady, InOrder, NoWedge, BufferOwned, NoLostPacket, RxBufferKept, AllAnswered | 3 packets, buffer 5, packet 4 bytes; an orderly PC, and one with 2 outstanding, a reset, a suspend and full packets | every request of an orderly PC is answered, complete and in order; the rough PC never finds a disabled endpoint, and no unread request is overwritten |
| `enum_resets` | TypeOK, BuffersDisjoint, AddressAgrees, ReadyForUse, Configures | 2 resets, 4 configurations, of which the memory has room for 2, a PC that may read the descriptor first, real buffer sizes | resets at any step of `EP_Init` do no harm; a failing `EP_Init` never leaves the memory nor mixes buffers |
| `bus_session` | NoContention, HeldInReset, NoDataFight, Served, ReleaseFrees, OnlyWrites | 2 address lines, 1 data line; a plain session, one with raw commands on a strobe and an address line, and one with raw commands on 3 pins, RESET among them, and one power loss | the order of pin operations is right; raw commands on other lines do not free the Z80; release always recovers |
| `loop_simple` | Serves | 2 batches of up to 2 requests in a packet; 4-bit bytes, 256 addresses | single byte requests follow the protocol |
| `client` | Truthful, Undisturbed, Returns | start-up and 3 commands of 22 lines, one unplugging, one Ctrl-C; files of 2 bytes, memtest of 2 cells; 4-bit bytes | on a bus that is still taken commands do what they say or complain; they end; the line is left clean |
| `round_trip` | SameBinary, ForwardAsKnown, ListingFaithful | all forms; 9 words, 8 bytes, 6 offsets, 14 jumps; labels at 2 values, sections at 2 addresses; listings with names at 2 origins | test.sh for all forms at once, and its options |
| `hash_map` | ListsIntact, StoredAlive, ScanDelivers, IsDictionary | 4 keys on 2 buckets, 2 nodes, 3 values | a dictionary under all collisions |
| `assembler` | AsWritten, CountersLive, Finishes | all sequences of up to 3 of 26 plain statements; four bodies in REPT and IF nested two deep; some 1100 sources with an operator or two on a constant known before or after; some 25 with something wrong in them | what is accepted is assembled as written |
| `output_file` | HeaderFinds, SnapshotHolds | some 40 layouts of up to 3 sections, 26 command lines | offsets, names and RAM areas agree |
| `monitor` | ConsoleText, NoGhostKeys, Reported | 2 scancodes, 2 changes; some 650 numbers; an interrupt before any instruction | console text under interrupts; one wrong report at most, and the last key is the last reported |
| `usb_pipelined` | EachAnswered (violated) | as `usb_traffic`, with 2 requests outstanding | a request that arrives between two lines of `usb_recv` is never answered |

Why the bounds are enough. The ring of 5 with blocks of 3 has every relation of
`head`, `tail`, block and end of array; the proofs cover all other sizes. In
`usb_traffic` an answer of 11 bytes fills the buffer of 5 more than twice over,
so `usb_send` waits, and three packets let an effect of the first reach the
third. Two resets are the fewest in which what one leaves behind meets another,
and four configurations two more than the memory of the device has room for. The
scancodes of `monitor` are the code 32, which the handler leaves in A, and another,
which lets 32 be a code the keyboard never held. Two address lines
suffice for an address that is wrong for a moment; every control line is there.
In `client` three commands behind the start-up are an acquire and two of which the first may disturb the second. In `hash_map` three keys share a bucket: a head, an inner
and a last entry. Three statements of the assembler are a use, a definition and
something between that moves one of them; its expressions have every operator
with operands of both signs, in parentheses, and resolved in either pass; four-bit bytes keep addresses of two
bytes, a wrap at the end of memory and data that looks like commands.
`round_trip` needs no bound on forms; its immediates are the ends of their
ranges and values around them. The numbers of `putdec` are 0 .. 120, the
neighbourhoods of powers of ten, 2^15 and 2^16, and every 131st of the rest.

Fairness. In `UsbDevice` the main loop is an endless loop and a raised interrupt
is served by the processor, so both are weakly fair. The host polls a bulk IN
endpoint whenever the port is open and completes an enumeration it has begun:
weak fairness of `HostIn` and of the three control transfers. Nothing obliges
the PC to send a request, to reset or to suspend. In `UsbEnumeration` only the
main loop is fair. `DebugClient`: the client's process and the board's loop run on;
nothing obliges the user, the plug or Ctrl-C, and `Timeout` may but need not come
before the answer. `Assembler` is a sequential program that runs on (`WF(Next)`).
`SystemMonitor`: the processor goes to the next instruction and the transmitter
finishes a character; no key need be pressed. The other modules have safety
properties only. Deadlock is not checked where a program ends or where the
bounds on resets, packets or commands end every behaviour; in `BusAccess`,
`RingBuffer` and `HashMap` it is.

Type invariants of the ring buffer and of the bus are theorems for all sizes and
are not repeated in the runs.

## Findings

`PROJECT.json` quotes the code and the sentence it disagrees with. `usb_pipelined` is
the run of the first item. Each of the others begins with a property that fails, and
TLC shows it when the passing configuration of the module is given that property and
the values in brackets. The passing runs leave these cases out by name (`Known`,
`Orderly`, `Plain` and the like), so what they exclude can be read off here.

USB (`MCUsbDevice`, `MCUsbEnumeration`):

* `EachAnswered`: `usb_recv` arms EP2 and only then clears `rxNE`; a packet in
  between is never read (`fw/usb/usb.c:120-121`).
* `StartsTransmission` (`Plans <- Full`): after a full packet `send_next` starts a
  zero-length one without clearing `tx_succesfull` (`usb.c:59-62`).
* `SendsAgain` (`Plans <- Resetting`): a reset while a packet waits leaves
  `tx_succesfull` at 0; the device never sends again (`usb.c:65`).
* `NoStaleAnswer` (`Plans <- Resetting`): after a reset the PC reads the rest of an
  old answer (`usbhw.c:115`).
* `AssignedLater`: a reset keeps `USB_Addr`, and a descriptor read at address 0 is
  taken for the acknowledgement of SET_ADDRESS. `AddressAgrees` says how far the
  error goes: until the reset with which the PC goes on.
* A reset between a load and the store of `lastaddr` loses packet memory, and
  `EP_Init` then fails unnoticed. `ReadyForUse` therefore counts the configurations of
  all sessions; with those since the last reset alone in `Sufficient` it fails.

Bus (`MCBusAccess`):

* `OnlyInReset`: from power-on to the first release the board drives the bus of a Z80
  that runs.
* `AcquiredMeansHeld`: the client's record survives a power cycle of the board
  (`Plans <- Replugged`), and a raw read of RESET makes it an input, so that the Z80
  runs (`Plans <- ResetPin`).

Protocol (`MCCommandLoop`, `Serves`):

* A block write stores its count first and drops its last byte
  (`Requests <- OnlyBlocks`). A raw read is answered with two bytes, not one
  (`Requests <- OnlyGets`). A request cut by USB is completed from old bytes
  (batches of 3 requests and 12 bytes).

Client (`MCDebugClient`, with `Known = {}`):

* `Done`: `wr` after the acquired board has started again (`Inputs <- OneWrite`), or
  after `detach` (`Inputs <- Detached`), reports its byte as written although the pins
  may have kept it from the RAM.
* `Truthful` (`Inputs <- CountOfOne`): `rd a 1` prints the count and not the byte.
* `Undisturbed` (`Inputs <- LongWrite`): a `wr` longer than a packet is executed in
  part as commands.
* `StaysUp`: a `memtest` of one cell divides by zero (`Inputs <- OneCell`), a line of blanks
  fails an assertion (`Blank`), a count above 128 frees an unset pointer (`TooMany`).
* `NoLeak` (`Inputs <- Reads`): a refused `rd` leaves its descriptor open.
* `ReturnsAlways`: `read_all` never returns when the board is unplugged and `read`
  gives 0 (`client/commands.c:78-80`).

Assembler (`MCAssembler`, `AsWritten`, each with one group of sources in `Known`;
`PROJECT.json` describes the group under its name):

* `nested_if`, `org_back`, `placed`, `here_in_rept`, `no_turn`, `counter_kept`,
  `wide_filler`, `far_jump`, `here_in_equ`, `two_blocks`, `outer_label`, `local_sum`.
* `chain`: operators group to the right, so 10-3-2 is 9. `paren_sum`: `LD HL,(x+1)` is
  an address or a number, as x is known late or early. `plus_paren`: a unary plus
  keeps the mark of parentheses that the comment says it drops. `no_remainder`: a
  remainder by zero has no outcome. `counter_sum`: an expression that waits for a
  label outlives the REPT counter in it. `profiles`: a second PROFILE is rejected.
  A constant that refers to itself ends in the status "undefined".

Encoding and listing (`MCRoundTrip`, with `Misplaced`, `Misprinted`,
`Unmarked`, `Aliased` or `Shifted` set to TRUE): operands patched in a wrong place
(`ForwardAsKnown`), a register that is none, jumps by 126 bytes, a name without a
definition (`SameBinary`), two sources with one code, bytes of another place with an
origin (`ListingFaithful`).

Library and output: a value freed while in use (`StoredAlive`, `Shared = TRUE`, in
`MCHashMap`); a lost section offset (`HeaderFinds`, `grown` in `Known`), options that
are zeros and sections over one another (`SnapshotHolds`, `defaults` and `covered`, in
`MCOutputFile`).

Monitor (`MCSystemMonitor`): `OnlyChanges`, the handler leaves A and the flags
changed, and the loop reports what has not changed; `NoGhostKeys` says how often.
The same in `puts` breaks the text (`ConsoleText` without `Harmless`). `Listening`:
the handler returns without EI, so the first interrupt is the last.

## Proofs

| Theorem | Module | States |
|---|---|---|
| `TypeCorrect` | `RingBufferProofs` | `Spec => []TypeOK` |
| `UnreadNeverOverwritten` | `RingBufferProofs` | `Spec => UnreadKept` |
| `RingImplementsQueue` | `RingBufferProofs` | `Spec => RingIsQueue` |
| `UsbTypes` | `UsbDeviceProofs` | `Spec => []TypeOK` |
| `ConnectedIsReady` | `UsbDeviceProofs` | `Spec => []EndpointsReady` |
| `RequestsKept` | `UsbDeviceProofs` | `Spec => RxBufferKept` |
| `AnswersInOrder` | `UsbDeviceProofs` | `Spec => []InOrder` |
| `NeverWedged` | `UsbDeviceProofs` | `Spec => []NoWedge` |
| `BufferIsOwned` | `UsbDeviceProofs` | `Spec => []BufferOwned` |
| `PacketsNoticed` | `UsbDeviceProofs` | `Spec => []NoLostPacket` |
| `MemoryBounded` | `UsbEnumerationProofs` | `Roomy` gives `Spec => []TypeOK` |
| `BuffersStayDisjoint` | `UsbEnumerationProofs` | `Roomy` gives `Spec => []BuffersDisjoint` |
| `AddressFollows` | `UsbEnumerationProofs` | `Spec => []AddressAgrees` |
| `AllEndpointsReady` | `UsbEnumerationProofs` | `Roomy` gives `Spec => []ReadyForUse` |
| `BusTypes` | `BusAccessProofs` | `Spec => []TypeOK` |
| `ReleaseRecovers` | `BusAccessProofs` | `Spec => []ReleaseFrees` |
| `BusNeverContended` | `BusAccessProofs` | `Spec => []NoContention` |
| `AcquiredIsHeld` | `BusAccessProofs` | `Spec => []HeldInReset` |
| `DataLinesApart` | `BusAccessProofs` | `Spec => []NoDataFight` |
| `CommandsServed` | `BusAccessProofs` | `Spec => []Served` |
| `OnlyWritesStore` | `BusAccessProofs` | `Spec => OnlyWrites` |
| `KeepsItsPlace` | `DebugClientProofs` | what is sent at a time fits in a packet gives `Spec => []InSync` |
| `ImplementsProtocol` | `DebugClientProofs` | that, and requests served `AsDescribed`, gives `Spec => Serves` |
| `LeavesLineClean` | `DebugClientProofs` | `Sizes` and blocks that fit in a packet give `ClientSpec => []Undisturbed` |
| `CommandsTruthful` | `DebugClientProofs` | that, and lines that do `AsSaid` or are `Known`, gives `ClientSpec => []Truthful` |
| `ListsHold` | `HashMapProofs` | `Spec => []ListsIntact` |
| `ScansDeliver` | `HashMapProofs` | `Spec => ScanDelivers` |
| `ImplementsDictionary` | `HashMapProofs` | `Spec => IsDictionary` |
| `ValuesAlive` | `HashMapProofs` | `Shared = FALSE` gives `Spec => []StoredAlive` |
| `UnmovedFinds` | `OutputFileProofs` | `Spec => [](` a short file or an unmoved buffer `=> HeaderFinds)` |
| `LaidOutHolds` | `OutputFileProofs` | `LaidOut` gives `Spec => []SnapshotHolds` |
| `NoKeyInvented` | `SystemMonitorProofs` | `Spec => []NoGhostKeys`, the interrupt at any instruction |
| `NothingLostOnConsole` | `SystemMonitorProofs` | `Spec => []ConsoleText` |

*Ring buffer*, from `SizeAssumption` and `DataAssumption` only. The type
invariant is inductive by itself, since every index is reduced by the array
size. The refinement needs it before and after a step, and two lemmas that say
what a call copies (`ReadFacts`, `WriteFacts`), in which the one-piece and the
two-piece copy are separate cases; then the contents after a call are the
queue's, element by element.

*USB data path*, from `UsbAssumption`: the buffer holds at least a packet (511
and 64 bytes), and a plan is a set of requests whose lengths ascend. Nothing bounds
the sizes, the requests, the resets or the suspends. There are two invariants.
`AnyPlan` holds whatever the PC does. `Progress` says that a call of `usb_send`
is at the place of the request where the calls left to do begin, so that no
answer outgrows its request. `Session` bounds what the main loop and the PC can
believe of one another while a reset falls between two steps of `usb_proc`;
`Reception` says that EP2 is valid only over a packet that has been read or
belongs to a session that is over (`Old`), and carries this across the three steps
of `usb_recv`; `Registers` says that only a reset, or a transaction of the
hardware, separates a STAT field from the value read of it, which is what makes the
toggling writes right. `EndpointsReady` and `RxBufferKept` follow.

`OrderlyInv` is the one for an orderly PC. Before the port is open nothing has
happened but the enumeration (`Quiet`). After it, `Stage` lists the five stages of
a request between EP2 and the main loop and `Awaited` says that a new request means
the last answer is complete and out; `Transmission` ties `tx_succesfull`, the CTR
flag and STAT of EP3 to the steps of `EP_Write`; `Contents` says byte by byte that
the ring buffer and the packet in EP3 hold consecutive parts of the current answer,
and `Arrival` that what the PC has is everything before them. The hardest part is
`Packets`: that `send_next` never starts a zero-length packet. It counts: what has
been handed to EP3 is the end of a call and some full packets (`Cut`), the buffer
runs empty only at the end of a call (`Whole`), and no two ends of an orderly
request are full packets apart (`NeverFull`). The first form of `Orderly`, about
whole answers only, was refuted in this proof; TLC then showed the behaviour with
four calls of a byte.

*Enumeration*, from `EnumAssumption` and `Roomy`: endpoint 0 and any one other
endpoint fit into the packet memory. In the firmware they do: the table and
endpoint 0 take 192 of 512 bytes and no other endpoint more than 64. `TypeOK`
is not inductive: `EP_Init` tests `lastaddr` and uses it some steps later, and a
reset may have replaced it by then. `Bounded` adds `Room`: both the value in
memory and the one loaded have room for what is left to place. `BuffersDisjoint`
speaks only of connected devices and needs `Allocated`, which says at every step
which endpoints are complete (`Done`), that each lies below `lastaddr` and below
the value `EP_Init` goes on with (`Placed`, `Underway`), that any two are apart,
and that a reset leaves only endpoint 0 (`Control`). The lost update of the
findings is allowed: it wastes memory, and the proof shows that it never makes buffers
overlap. `AddressFollows` needs no assumption: `Addressing` adds which
transfer may be under way at which address, and that a PC past SET_ADDRESS uses
the address in `USB_Addr`.
`ReadyForUse` is a matter of amounts. `usb_proc` never looks at what `EP_Init`
returns, so that a device is ready only if the memory is not used up, and each
configuration allocates anew. `Supplied` keeps the account: no more than `Paid`, the
need of all configurations so far, is taken, what the calls left to make will take
(`Left`) included, in `lastaddr` and in the value `EP_Init` has loaded of it, whatever
reset has come. While that is `Sufficient`, no call fails (`AlwaysFits`), and
`Prepared` says which endpoints are enabled at each step.

*Bus*, from `WidthAssumption` and `PlanAssumption`. A pin operation changes one
pin, so a property of the lines at the end of a firmware function cannot be
inductive in the lines alone: what makes it true is still to come. The invariants
therefore speak of `Left(program)`, the operations not yet performed, and a few
lemmas say what concatenation, a bus operation and a step do to that set.
`Releasing`: during a release no operation makes an output, RESET is touched only
by the last one, and every driven line still has its release ahead; the end of
the program is `ReleaseFrees`, from any state that raw commands or a power loss
may have left. `Session`, for plans without these, says what each request keeps
true of RESET: once an acquire has pulled it low (`Taking` before, `Held` after)
no operation ahead touches it until a release. `NoContention` follows from it, for every width of the buses and so for every address and byte. `Keeping` says the
same of RESET alone, with raw commands on any other line, from which `HeldInReset`
follows: no operation but those of an acquire, a release and the start of the board
touches RESET (`Aside`), and after the start it is an output for good. That needs
`Keeps`: no raw command on RESET, no loss of power; with them it fails
(`AcquiredMeansHeld`).

*Memory behind the bus*, from the same assumptions. What the RAM does depends on
the order of the operations within one access, which the set `Left(program)` does
not show. `Rank` numbers the operations of an access by their kind, and `Sorted`
says that the ranks ahead never fall; so what is left determines how far the
access is. `Restored`, `Settles` and `Lowered` read a pin off it: a control line
is low exactly while its falling edge is over and its rising edge is ahead, and an
address line that no operation ahead changes already has its bit of the address.
`Writing` and `Reading` say with these what an access has done to the RAM and to
the result at each rank, `Access` which of them a request is, and
`FullInv` is `MemoryInv` with the invariant of the bus. `NoDataFight` follows
because the data lines become inputs at a lower rank than RD goes low.

*Command loop*, from `LoopAssumption`. `LoopInv` is `InSync` with what makes it
inductive: a packet is taken only when the last is used up, and nothing is sent
while anything is on its way, so that the head of `pending` lies whole in the
buffer (`RequestInPlace`) and its arguments are where the loop looks
(`Arguments`). Bytes are a concatenation of encodings, which the community modules
define by a fold; `SumsExist`, `FlattenIsSum` and `FlattenCons` show what it does
with one more element. The hypotheses are the findings read backwards: a request
cut by USB breaks `InSync` (`MaxBytes <= PacketSize`), and a block write and a raw
read are not served as described (`AsDescribed`). All other requests are, for every
address, byte and count. `BusInv` carries the pins: while no pin has been used by
itself, the strobes are high between requests, and while the bus is taken the board
has it (`Held`), so that a memory command has its effect.

*Client*, from `LoopAssumption` and `ClientAssumption`, for every memory, every
file, every set of lines and every number of unplugs and of interrupts. `LineInv`
says what is on the line: nothing, while no answer is awaited, and then the one
request or what the board sends for it. `AnswerIsWhole` is the reason that nothing
is left over: a reply has exactly the bytes `Expected` says, for all of the
requests (`SendsFacts`; the two-byte answer to a raw read is known to the client).
`ProgressInv` follows a command through its script: after n requests the memory is
`Stored(n)`, the first `Written(n)` bytes of the command's data in their place.
`ScriptStores` finds the write requests in each script, `WriteAppend` says that
bytes may be written one at a time, also over the end of the memory and over
one another, and `StoredFacts` that the last `Stored` is `Intended`. `BusFor` says
where the bus is on the way: a command that acquires it has it until its last
request, also if the plug is pulled, since `load` and `memtest` then fail with the
descriptor (`fdalive`); `wr` and `rd` have it on the condition of `Truthful`
(`Trusted`). The pseudo
random bytes of memtest are a recursive function, whose existence is proved
(`TestValueIs`). `Sizes` is true of the code: a byte has room for every request
code and for 128, and a packet for four bytes. The others are findings:
`FitsPacket` leaves out the `wr` longer than a packet, and `AsSaid` asks that
the lines outside `Known` are no block write and no `rd` with the count one. `Known`
may name them, and the configuration of `client` does.

*Hash table*, from `HashMapAssumption`, for every set of keys and nodes and every
hash function. `From` is a recursive function, so that the proof describes lists
otherwise: `Lists` gives each linked entry the bucket that owns it and its place
behind the head (`own`, `pos`), no two entries of a list one place. The lemmas
`Gapless` and `Short` derive that no place is left out and that a list has no more
places than there are nodes, and `FromFacts` that `From` gives the same entries.
`HashInv` adds what the entries hold (`Content`) and where a scan is (`ScanAt`).
`Puts` and `Takes` are what a call does to the keys and values, by the cases of
`hashmap_access_impl`: a head that the next entry is moved into, an inner and a
last entry that are unlinked.
`IsDictionary` is the step simulation under the table as a function, and `AliveInv`
keeps the stored values apart from the freed ones, unless callers share them
(`Shared`), which is the finding.

*Output file*, for all sections and command lines, however many and large
(`Typed`: starts and lengths are numbers, and the target is one of three). `ElfInv` goes
with the stages of an object: after each header and each content, those written so
far are in their places (`HeadersTo`, `DataTo`). The names are the last section,
which grows while headers are written; `AddNameFacts` says that no earlier length
changes, so that a header never tells an old one. A lost offset is a finding
for a buffer that moves. `Small` shows that none is lost in a file of less than
1024 bytes, and `UnmovedFinds` that none is lost in a longer one whose buffer
`realloc` left where it was. `SnaInv` collects the writes of a snapshot, each apart
from the earlier ones, and `BehindFacts` says what comes behind the sections. `LaidOut`
is what the other findings leave: `--sna-pc` and `--sna-ramtop` are given (`Complete`), no section
meets another (`Disjoint`) or what is written behind them (`Clear`). Sections that
do not fit in the RAM need no hypothesis, since the code refuses them. Every job of
the run `output_file` satisfies `Typed` and `LaidOut`.

*Monitor*, from `MonitorAssumption`: scancodes are bytes and numbers have 16 bits.
`Keys` says that the scancode reported last is the one in register e, except
between the copy and the jump, where it is so only if the comparison has said so
(`Compared`). `Kept` is what the loop knows whatever A
holds. An interrupt may break `Compared`, once, among the instructions of
`Comparing`; `Honest` says that nothing wrong has been reported until then, and one
thing at most afterwards. `NoKeyInvented` follows. For the console,
`Pending` says at every instruction which characters are still to be written, and
`Told` that these and the ones on the console are what was to be printed, without
the handler's text. Only `out` moves a character from one to the other; `Free` says
that the transmitter is then ready, `Loaded` what the registers hold on the way
there, `Handled` that the handler runs once and its text stays. The digits of
`putdec` are a matter of arithmetic: `QuotientBelow` says that its shifts and
rounded additions give a tenth of any number of 16 bits or one less, `TenQuotients`
that the forgotten carries are all zero, `DivisionByTen` that the correction is
right, and `DecimalMore` that the digits of a number are those of its tenth and one
more. All this is kept only by an interrupt that is `Harmless`. There is but one
(`Unstruck`), so what holds before it holds after it if it was; elsewhere the text may
be lost, as the handler does not save A and the flags.

Induction over numbers occurs in three of these modules. The induction theorems
of the library take an operator, which the provers cannot instantiate;
`SetInduction` states the same of a set of numbers and follows from the
well-foundedness of `<`.

Model-checked only: liveness (`AllAnswered`, `Configures`, `Returns`, `Finishes`,
`Reported`), which rests on fairness and ENABLED and is beyond this prover;
the compilation (`AsWritten`, `CountersLive`), whose modules use recursive operators
and bits; and the round trip (`SameBinary`, `ForwardAsKnown`, `ListingFaithful`),
which compares the forms of the encoder with the patterns of the decoder one by
one: TLC does so for every form, and a proof would have no other argument.

## Not modelled

Clock set-up, start-up code and the register definitions of CMSIS and of the
STM32 hold no state of the debugger; they are more than half of the C lines of
the repository, so the modelled share of all lines understates that of its
logic. Of the parser, the spelling of tokens, the grammar of statements (their list
is the input of `Assembler`) and INCLUDE; `parse_dump.c` prints that list. `dynarray.c`,
`mmgr.c`, `common.c` and `filesystem.c` are sequences, an allocation count,
formatting and files, and the models use sequences and sets in their place;
`hashmap_free` empties what nobody uses again.

Of the assembler: INCBIN, `-D`, the table of reserved words, cycle counts and the
profile report, which have no effect on the bytes. Of the disassembler: columns
and timings. Of the monitor:
`uart_init`, the NMI handler and the first two digits of `puthex`. Of the
firmware: contents of USB descriptors, line coding. Of the client: arguments that
are no numbers, help, history, completion and the search for a device on macOS.
Counts above 128 in block requests are outside the protocol. The KiCad files in
`bc80/` and the documents hold no code; they say how the hardware behaves.

## Plan

Done: the firmware, the client and their protocol; the assembler from statements
to files, the disassembler, the hash map, the monitor; proofs about everything
from the ring buffer to the client's commands, about the hash map and the output
file, and about the monitor. Next, in this order:

1. **`Dynarray`, `Mmgr`.** Growth and reuse of cells, the list of live blocks.
2. **Larger compositions.** `DebugClient` over `UsbDevice`, with resets of the bus
   in the middle of a command.
