----------------------------- MODULE OutputFile -----------------------------
(* How the sections become a file: the defaults main() gives the options   *)
(* (asm/bc80asm.c), render_finish with the raw target (asm/render.c), the  *)
(* ELF object (asm/render_elf.c) in a growing buffer (bits/buffer.c) and   *)
(* the RAM snapshot (asm/render_sna.c).                                    *)
(*                                                                         *)
(* Contents are lengths: a file is what lies where in it.  A snapshot is   *)
(* the sequence of the writes to it.  Every section has a start, so the    *)
(* error of render_elf.c for one without cannot occur.                     *)
EXTENDS Integers, Sequences, SequencesExt

CONSTANTS
  Jobs,  \* [sections, request]: sections are [start, len, namelen], a request
         \* is a command line: [target, generic, pc, ramtop]
  None   \* an option that is not given

VARIABLES
  sections,
  request,
  opts,       \* the options compile() is called with
  stage,      \* "options", "finish", then by target, and "done" or "error"
  at,         \* section the target's loop is at
  elf,        \* the buffer: which block it is in, and its lengths
  headers,    \* section headers in the buffer
  sech_ptrs,  \* the block in which each pointer to a header points
  data,       \* where the content of each section lies in the file
  writes,     \* writes to the snapshot
  pc_value

fixed == <<sections, request>>
elf_vars == <<elf, headers, sech_ptrs, data>>
sna_vars == <<writes, pc_value>>
vars == <<fixed, opts, stage, at, elf_vars, sna_vars>>

BUFFER_INIT_SIZE == 1024
elf_file_header == 52
elf_section_header == 40

SNA_SNAPSHOT_ROM_SIZE == 16384
SNA_SNAPSHOT_RAM_SIZE == 49152
ZX_DEFAULT_RAMTOP == 23899
SNA_DEFAULT_RAMTOP == 65520
----------------------------------------------------------------------------
Init ==
  /\ \E j \in Jobs : sections = j.sections /\ request = j.request
  /\ opts = <<>> /\ stage = "options" /\ at = 1
  /\ elf = [block |-> 0, len |-> 0, maxlen |-> BUFFER_INIT_SIZE]
  /\ headers = <<>> /\ sech_ptrs = <<>> /\ data = <<>>
  /\ writes = <<>> /\ pc_value = 0

(* The options are zeros until they are given.                             *)
Given(v) == IF v = None THEN 0 ELSE v
parse_options ==
  /\ stage = "options" /\ stage' = "finish"
  /\ opts' = [target |-> request.target, sna_generic |-> request.generic, sna_pc_addr |-> Given(request.pc),
              sna_ramtop |-> IF Given(request.ramtop) # -1 THEN Given(request.ramtop)
                             ELSE IF request.generic THEN SNA_DEFAULT_RAMTOP ELSE ZX_DEFAULT_RAMTOP]
  /\ UNCHANGED <<fixed, at, elf_vars, sna_vars>>

render_finish ==
  /\ stage = "finish"
  /\ stage' = CASE opts.target = "raw" -> IF Len(sections) > 1 THEN "error" ELSE "raw"
                [] opts.target = "elf" -> "elf_start"
                [] opts.target = "sna" -> "sna_pc"
  /\ UNCHANGED <<fixed, opts, at, elf_vars, sna_vars>>

render_raw ==
  /\ stage = "raw" /\ stage' = "done"
  /\ data' = <<0>>
  /\ UNCHANGED <<fixed, opts, at, elf, headers, sech_ptrs, sna_vars>>
----------------------------------------------------------------------------
(* buffer_enlarge: the length doubles until n more bytes and a zero fit.   *)
(* realloc may leave the block where it is.                                *)
Grown(buf, n) ==
  LET needed == buf.len + n + 1
      newlen == buf.maxlen * 2 ^ (CHOOSE e \in 1 .. 16 : buf.maxlen * 2 ^ e >= needed
                                                         /\ \A d \in 1 .. e - 1 : buf.maxlen * 2 ^ d < needed)
  IN IF needed <= buf.maxlen THEN {buf}
     ELSE {[buf EXCEPT !.maxlen = newlen], [buf EXCEPT !.maxlen = newlen, !.block = @ + 1]}
buffer_reserve(buf, n) == {[g EXCEPT !.len = @ + n] : g \in Grown(buf, n)}

SHSTRTAB == [start |-> 0, len |-> 1, namelen |-> 9]

(* The section of the names is the last one.                               *)
render_elf_start ==
  /\ stage = "elf_start" /\ stage' = "elf_headers"
  /\ sections' = Append(sections, SHSTRTAB)
  /\ elf' \in buffer_reserve(elf, elf_file_header)
  /\ UNCHANGED <<request, opts, at, headers, sech_ptrs, data, sna_vars>>

(* A header is reserved, the name of its section goes to the names, then   *)
(* the length is taken.                                                    *)
AddName(secs) == [secs EXCEPT ![Len(secs)].len = @ + secs[at].namelen + 1]

\* Mutant: the length is taken before the name is added.
render_elf_header_Early ==
  /\ stage = "elf_headers" /\ at <= Len(sections)
  /\ elf' \in buffer_reserve(elf, elf_section_header)
  /\ sections' = AddName(sections)
  /\ headers' = Append(headers, [sh_addr |-> sections[at].start, sh_size |-> sections[at].len, sh_offset |-> None])
  /\ sech_ptrs' = Append(sech_ptrs, elf'.block)
  /\ at' = at + 1
  /\ UNCHANGED <<request, opts, stage, data, sna_vars>>

render_elf_header ==
  /\ stage = "elf_headers" /\ at <= Len(sections)
  /\ elf' \in buffer_reserve(elf, elf_section_header)
  /\ sections' = AddName(sections)
  /\ headers' = Append(headers, [sh_addr |-> sections[at].start, sh_size |-> sections'[at].len, sh_offset |-> None])
  /\ sech_ptrs' = Append(sech_ptrs, elf'.block)
  /\ at' = at + 1
  /\ UNCHANGED <<request, opts, stage, data, sna_vars>>

render_elf_headers_end ==
  /\ stage = "elf_headers" /\ at > Len(sections)
  /\ stage' = "elf_data" /\ at' = 1
  /\ UNCHANGED <<fixed, opts, elf_vars, sna_vars>>

(* The place of the content is stored through a pointer that was taken     *)
(* before the buffer grew: it is lost when the block has moved since.      *)
render_elf_data ==
  /\ stage = "elf_data" /\ at <= Len(sections)
  /\ elf' \in buffer_reserve(elf, sections[at].len)
  /\ data' = Append(data, elf.len)
  /\ headers' = IF sech_ptrs[at] = elf'.block THEN [headers EXCEPT ![at].sh_offset = elf.len] ELSE headers
  /\ at' = at + 1
  /\ UNCHANGED <<fixed, opts, stage, sech_ptrs, sna_vars>>

render_elf_end ==
  /\ stage = "elf_data" /\ at > Len(sections)
  /\ stage' = "done"
  /\ UNCHANGED <<fixed, opts, at, elf_vars, sna_vars>>
----------------------------------------------------------------------------
(* A write: the addresses from lo on, and what goes there.                 *)
Write(lo, n, what) == [lo |-> lo, n |-> n, what |-> what]

NonEmpty == {s \in DOMAIN sections : sections[s].len > 0}
LowestStart(dflt) ==
  LET starts == {sections[s].start : s \in NonEmpty} \cup {dflt}
  IN CHOOSE v \in starts : \A w \in starts : v <= w

render_sna_pc ==
  /\ stage = "sna_pc" /\ stage' = "sna_sections"
  /\ pc_value' = IF opts.sna_pc_addr # -1 THEN opts.sna_pc_addr % 65536 ELSE LowestStart(65535)
  /\ UNCHANGED <<fixed, opts, at, elf_vars, writes>>

\* Mutant: the length alone is compared.
Fits_LengthOnly(sec) == sec.start >= SNA_SNAPSHOT_ROM_SIZE /\ sec.len <= SNA_SNAPSHOT_RAM_SIZE

Fits(sec) ==
  /\ sec.start >= SNA_SNAPSHOT_ROM_SIZE
  /\ sec.start - SNA_SNAPSHOT_ROM_SIZE + sec.len <= SNA_SNAPSHOT_RAM_SIZE

render_sna_section ==
  /\ stage = "sna_sections" /\ at <= Len(sections)
  /\ \/ at \notin NonEmpty /\ at' = at + 1 /\ UNCHANGED <<stage, writes>>
     \/ /\ at \in NonEmpty /\ Fits(sections[at])
        /\ writes' = Append(writes, Write(sections[at].start, sections[at].len, "section"))
        /\ at' = at + 1 /\ UNCHANGED stage
     \/ /\ at \in NonEmpty /\ ~Fits(sections[at])
        /\ stage' = "error" /\ UNCHANGED <<at, writes>>
  /\ UNCHANGED <<fixed, opts, elf_vars, pc_value>>

(* What the ROM of a Spectrum expects: attributes, UDG, system variables   *)
(* and a stack below RAMTOP.                                               *)
StackAt == opts.sna_ramtop + 1 - 4
system_area ==
  <<Write(22528, 768, "attributes"), Write(65368, 168, "udg"), Write(23552, 256, "sysvars"),
    Write(StackAt, 4, "stack")>>

(* The initial PC is the word on the stack.                                *)
render_sna_end ==
  /\ stage = "sna_sections" /\ at > Len(sections)
  /\ stage' = "done"
  /\ LET sp == IF opts.sna_generic THEN opts.sna_ramtop ELSE StackAt - 2
     IN writes' = writes \o (IF opts.sna_generic THEN <<>> ELSE system_area) \o <<Write(sp, 2, "pc")>>
  /\ UNCHANGED <<fixed, opts, at, elf_vars, pc_value>>

Next ==
  \/ parse_options \/ render_finish \/ render_raw
  \/ render_elf_start \/ render_elf_header \/ render_elf_headers_end \/ render_elf_data \/ render_elf_end
  \/ render_sna_pc \/ render_sna_section \/ render_sna_end

Spec == Init /\ [][Next]_vars
----------------------------------------------------------------------------
(* Every header of a finished object names the place and the length of its *)
(* section's content, which does not share a byte with another one: the    *)
(* pointers to the headers are good while the buffer grows                 *)
(* (render_elf.c:78-95), and the names are all counted.                    *)
HeaderFinds ==
  stage = "done" /\ opts.target = "elf" =>
    \A s \in DOMAIN sections :
      /\ headers[s].sh_offset = data[s] /\ headers[s].sh_size = sections[s].len
      /\ headers[s].sh_addr = sections[s].start
      /\ \A r \in 1 .. s - 1 : data[r] + sections[r].len <= data[s]

(* A finished snapshot holds every section at its address, start included: *)
(* nothing is written outside the RAM, and neither the system area, nor    *)
(* the stack, nor a later section covers a section (render_sna.c:83-160).  *)
(* It starts where it was asked to, or at the lowest section.              *)
Overlap(v, w) == v.lo < w.lo + w.n /\ w.lo < v.lo + v.n
SnapshotHolds ==
  stage = "done" /\ opts.target = "sna" =>
    /\ \A w \in Range(writes) : w.lo >= SNA_SNAPSHOT_ROM_SIZE /\ w.lo + w.n <= 65536
    /\ \A j, l \in DOMAIN writes : j < l /\ writes[j].what = "section" => ~Overlap(writes[j], writes[l])
    /\ pc_value = IF request.pc # None THEN request.pc ELSE LowestStart(65535)
============================================================================
