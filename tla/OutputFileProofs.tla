-------------------------- MODULE OutputFileProofs --------------------------
(***************************************************************************)
(* Proofs about OutputFile for every list of sections and every command    *)
(* line: where the headers of an object point, and what a snapshot holds.  *)
(***************************************************************************)
EXTENDS OutputFile, SequenceTheorems, TLAPS

Section == [start : Nat, len : Nat, namelen : Nat]
Header == [sh_addr : Nat, sh_size : Nat, sh_offset : Nat \cup {None}]

\* Sections are lengths, and there are three targets.
Typed == \A j \in Jobs : j.sections \in Seq(Section) /\ j.request.target \in {"raw", "elf", "sna"}

---------------------------------------------------------------------------
(* The object.                                                             *)

\* The first n headers are in the buffer, with addresses and lengths.
HeadersTo(n) ==
  /\ headers \in Seq(Header) /\ Len(headers) = n
  /\ sech_ptrs \in Seq(Nat) /\ Len(sech_ptrs) = n
  /\ \A k \in 1 .. n : /\ sech_ptrs[k] <= elf.block
                       /\ headers[k].sh_addr = sections[k].start
                       /\ headers[k].sh_size = sections[k].len

\* So are the contents of the first n sections, one behind the other, and
\* their headers say where, unless the buffer has moved.
DataTo(n) ==
  /\ data \in Seq(Nat) /\ Len(data) = n
  /\ \A k \in 1 .. n : /\ data[k] + sections[k].len <= elf.len
                       /\ elf.block = 0 => headers[k].sh_offset = data[k]
                       /\ \A r \in 1 .. k - 1 : data[r] + sections[r].len <= data[k]

\* A buffer that holds less than it was made for has not moved.
Small(buf) == buf.len < BUFFER_INIT_SIZE => buf.block = 0 /\ buf.maxlen = BUFFER_INIT_SIZE

\* The stages of an object in their order, with what each has left: no header
\* yet, headers up to at, contents up to at, everything.
ElfInv ==
  /\ sections \in Seq(Section)
  /\ DOMAIN elf = {"block", "len", "maxlen"} /\ elf.block \in Nat /\ elf.len \in Nat
  /\ Small(elf)
  /\ stage \in {"options", "finish", "raw", "elf_start", "elf_headers", "elf_data",
                "sna_pc", "sna_sections", "done", "error"}
  /\ stage = "options" => request.target \in {"raw", "elf", "sna"}
  /\ stage = "finish" => opts.target \in {"raw", "elf", "sna"}
  /\ stage = "raw" => opts.target = "raw"
  /\ stage \in {"sna_pc", "sna_sections"} => opts.target = "sna"
  /\ stage \in {"options", "finish", "elf_start"} => at = 1 /\ HeadersTo(0) /\ data = <<>>
  /\ stage = "elf_headers" =>
       at \in 1 .. Len(sections) + 1 /\ Len(sections) # 0 /\ HeadersTo(at - 1) /\ data = <<>>
  /\ stage = "elf_data" =>
       at \in 1 .. Len(sections) + 1 /\ HeadersTo(Len(sections)) /\ DataTo(at - 1)
  /\ stage = "done" /\ opts.target = "elf" => HeadersTo(Len(sections)) /\ DataTo(Len(sections))

\* The buffer grows, and may move when it does.
LEMMA ReserveFacts ==
  ASSUME NEW buf, DOMAIN buf = {"block", "len", "maxlen"}, buf.block \in Nat, buf.len \in Nat,
         Small(buf), NEW n \in Nat, NEW buf2 \in buffer_reserve(buf, n)
  PROVE  /\ DOMAIN buf2 = {"block", "len", "maxlen"}
         /\ buf2.len = buf.len + n /\ buf2.len \in Nat
         /\ buf2.block \in {buf.block, buf.block + 1} /\ buf2.block \in Nat
         /\ Small(buf2)
<1>1. PICK g \in Grown(buf, n) : buf2 = [g EXCEPT !.len = @ + n]
  BY DEF buffer_reserve
<1>2. /\ DOMAIN g = {"block", "len", "maxlen"} /\ g.len = buf.len
      /\ g.block \in {buf.block, buf.block + 1}
  BY <1>1 DEF Grown
<1>3. buf2.len = buf.len + n /\ buf2.block = g.block /\ buf2.maxlen = g.maxlen
  BY <1>1, <1>2
<1>4. ASSUME buf2.len < BUFFER_INIT_SIZE PROVE buf2.block = 0 /\ buf2.maxlen = BUFFER_INIT_SIZE
  <2>1. buf.len < BUFFER_INIT_SIZE /\ buf.len + n + 1 <= BUFFER_INIT_SIZE
    BY <1>3, <1>4 DEF BUFFER_INIT_SIZE
  <2>2. buf.block = 0 /\ buf.maxlen = BUFFER_INIT_SIZE
    BY <2>1 DEF Small
  <2>3. g = buf
    BY <2>1, <2>2 DEF Grown
  <2> QED BY <1>3, <2>2, <2>3
<1> QED BY <1>1, <1>2, <1>4 DEF Small

\* At first nothing is there.
LEMMA ElfInit ==
  ASSUME Typed, Init
  PROVE  ElfInv
<1>1. PICK j \in Jobs : sections = j.sections /\ request = j.request
  BY DEF Init
<1>2. sections \in Seq(Section) /\ request.target \in {"raw", "elf", "sna"}
  BY <1>1 DEF Typed
<1>3. /\ stage = "options" /\ at = 1 /\ headers = <<>> /\ sech_ptrs = <<>> /\ data = <<>>
      /\ elf = [block |-> 0, len |-> 0, maxlen |-> BUFFER_INIT_SIZE]
  BY DEF Init
<1>4. HeadersTo(0)
  <2>1. headers \in Seq(Header) /\ sech_ptrs \in Seq(Nat) /\ Len(headers) = 0 /\ Len(sech_ptrs) = 0
    BY <1>3
  <2> QED BY <2>1 DEF HeadersTo
<1> QED BY <1>2, <1>3, <1>4 DEF ElfInv, Small

\* What does not touch the headers leaves them.
LEMMA HeadersStay ==
  ASSUME NEW n, HeadersTo(n), UNCHANGED <<headers, sech_ptrs, sections, elf>>
  PROVE  HeadersTo(n)'
BY DEF HeadersTo

\* The section of the names is added.
LEMMA StartStep ==
  ASSUME ElfInv, render_elf_start
  PROVE  ElfInv'
<1>1. /\ stage = "elf_start" /\ stage' = "elf_headers" /\ sections' = Append(sections, SHSTRTAB)
      /\ elf' \in buffer_reserve(elf, 52) /\ UNCHANGED <<at, headers, sech_ptrs, data, opts>>
  BY DEF render_elf_start, elf_file_header
<1>2. at = 1 /\ HeadersTo(0) /\ data = <<>> /\ sections \in Seq(Section)
  BY <1>1 DEF ElfInv
<1>3. SHSTRTAB \in Section
  BY DEF SHSTRTAB, Section
<1>4. sections' \in Seq(Section) /\ Len(sections') = Len(sections) + 1 /\ Len(sections) \in Nat
  BY <1>1, <1>2, <1>3, AppendProperties
<1>5. DOMAIN elf' = {"block", "len", "maxlen"} /\ elf'.block \in Nat /\ elf'.len \in Nat /\ Small(elf')
  BY <1>1, ReserveFacts DEF ElfInv
<1>6. HeadersTo(0)'
  BY <1>1, <1>2 DEF HeadersTo
<1> QED BY <1>1, <1>2, <1>4, <1>5, <1>6 DEF ElfInv

\* A name goes to the end of the names and changes no other section.
LEMMA AddNameFacts ==
  ASSUME sections \in Seq(Section), Len(sections) # 0, at \in 1 .. Len(sections)
  PROVE  /\ AddName(sections) \in Seq(Section) /\ Len(AddName(sections)) = Len(sections)
         /\ \A k \in 1 .. Len(sections) - 1 : AddName(sections)[k] = sections[k]
         /\ \A k \in 1 .. Len(sections) : AddName(sections)[k].start = sections[k].start
         /\ AddName(sections)[Len(sections)].len =
              sections[Len(sections)].len + sections[at].namelen + 1
<1> DEFINE N == Len(sections)
           x == sections[N]
           q == x.len + sections[at].namelen + 1
           y == [x EXCEPT !.len = q]
<1>1. N \in Nat /\ N \in 1 .. N
  OBVIOUS
<1>2. x \in Section /\ sections[at] \in Section
  BY <1>1
<1>3. AddName(sections) = [sections EXCEPT ![N] = y]
  BY DEF AddName
<1>8. q \in Nat
  BY <1>2 DEF Section
<1> HIDE DEF q
<1>4. y \in Section /\ y.start = x.start /\ y.len = q
  BY <1>2, <1>8 DEF Section
<1> HIDE DEF y
<1>5. AddName(sections) \in Seq(Section) /\ Len(AddName(sections)) = N
  BY <1>1, <1>3, <1>4, ExceptSeq
<1>6. \A k \in 1 .. N : AddName(sections)[k] = IF k = N THEN y ELSE sections[k]
  BY <1>1, <1>3
<1>7. \A k \in 1 .. N - 1 : k \in 1 .. N /\ k # N
  BY <1>1
<1> QED BY <1>1, <1>4, <1>5, <1>6, <1>7 DEF q

\* A header is added for each.
LEMMA HeaderStep ==
  ASSUME ElfInv, render_elf_header
  PROVE  ElfInv'
<1> DEFINE N == Len(sections)
           h == [sh_addr |-> sections[at].start, sh_size |-> sections'[at].len, sh_offset |-> None]
<1>1. /\ stage = "elf_headers" /\ at <= N /\ elf' \in buffer_reserve(elf, 40)
      /\ sections' = AddName(sections) /\ headers' = Append(headers, h)
      /\ sech_ptrs' = Append(sech_ptrs, elf'.block) /\ at' = at + 1 /\ UNCHANGED <<opts, stage, data>>
  BY DEF render_elf_header, elf_section_header
<1>2. /\ at \in 1 .. N /\ N # 0 /\ N \in Nat /\ HeadersTo(at - 1) /\ data = <<>> /\ sections \in Seq(Section)
      /\ DOMAIN elf = {"block", "len", "maxlen"} /\ elf.block \in Nat /\ elf.len \in Nat /\ Small(elf)
  BY <1>1 DEF ElfInv
<1>3. /\ sections' \in Seq(Section) /\ Len(sections') = N
      /\ \A k \in 1 .. N - 1 : sections'[k] = sections[k]
      /\ \A k \in 1 .. N : sections'[k].start = sections[k].start
  BY <1>1, <1>2, AddNameFacts
<1>4. /\ DOMAIN elf' = {"block", "len", "maxlen"} /\ elf'.len \in Nat /\ elf'.block \in Nat /\ Small(elf')
      /\ elf.block <= elf'.block
  <2>1. elf' \in buffer_reserve(elf, 40) /\ 40 \in Nat
    BY <1>1
  <2>2. /\ DOMAIN elf' = {"block", "len", "maxlen"} /\ elf'.len \in Nat /\ Small(elf')
        /\ elf'.block \in {elf.block, elf.block + 1} /\ elf'.block \in Nat
    BY <1>2, <2>1, ReserveFacts
  <2> QED BY <1>2, <2>2
<1>5. h \in Header /\ h.sh_addr = sections'[at].start /\ h.sh_size = sections'[at].len
  <2>1. sections[at] \in Section /\ sections'[at] \in Section
    BY <1>2, <1>3
  <2> QED BY <1>2, <1>3, <2>1 DEF Header, Section
<1> HIDE DEF h
<1>7. HeadersTo(at - 1)'
  <2>1. /\ headers \in Seq(Header) /\ Len(headers) = at - 1
        /\ sech_ptrs \in Seq(Nat) /\ Len(sech_ptrs) = at - 1
    BY <1>2 DEF HeadersTo
  <2>2. /\ headers' \in Seq(Header) /\ Len(headers') = at /\ headers'[at] = h
        /\ \A k \in 1 .. at - 1 : headers'[k] = headers[k]
    BY <1>1, <1>2, <1>5, <2>1, AppendProperties
  <2>3. /\ sech_ptrs' \in Seq(Nat) /\ Len(sech_ptrs') = at /\ sech_ptrs'[at] = elf'.block
        /\ \A k \in 1 .. at - 1 : sech_ptrs'[k] = sech_ptrs[k]
    BY <1>1, <1>2, <1>4, <2>1, AppendProperties
  <2>4. ASSUME NEW k \in 1 .. at
        PROVE  /\ sech_ptrs'[k] <= elf'.block
               /\ headers'[k].sh_addr = sections'[k].start
               /\ headers'[k].sh_size = sections'[k].len
    <3>1. CASE k = at
      BY <1>4, <1>5, <2>2, <2>3, <3>1
    <3>2. CASE k \in 1 .. at - 1
      <4>1. k \in 1 .. N - 1
        BY <1>2, <3>2
      <4>2. sech_ptrs[k] <= elf.block /\ sech_ptrs[k] \in Nat
        BY <1>2, <2>1, <3>2 DEF HeadersTo
      <4>3. headers[k].sh_addr = sections[k].start /\ headers[k].sh_size = sections[k].len
        BY <1>2, <3>2 DEF HeadersTo
      <4>4. sech_ptrs'[k] = sech_ptrs[k] /\ headers'[k] = headers[k] /\ sections'[k] = sections[k]
        BY <1>3, <2>2, <2>3, <3>2, <4>1
      <4>5. sech_ptrs'[k] <= elf'.block
        BY <1>2, <1>4, <4>2, <4>4
      <4> QED BY <4>3, <4>4, <4>5
    <3> QED BY <1>2, <3>1, <3>2
  <2>5. /\ headers' \in Seq(Header) /\ Len(headers') = at
        /\ sech_ptrs' \in Seq(Nat) /\ Len(sech_ptrs') = at
        /\ \A k \in 1 .. at : /\ sech_ptrs'[k] <= elf'.block
                              /\ headers'[k].sh_addr = sections'[k].start
                              /\ headers'[k].sh_size = sections'[k].len
    BY <2>2, <2>3, <2>4
  <2>6. at' - 1 = at
    BY <1>1, <1>2
  <2> QED BY <2>5, <2>6 DEF HeadersTo
<1>8. at' \in 1 .. Len(sections') + 1
  BY <1>1, <1>2, <1>3
<1> QED BY <1>1, <1>2, <1>3, <1>4, <1>7, <1>8 DEF ElfInv

\* The content of a section follows, and its place is stored in the header.
LEMMA DataStep ==
  ASSUME ElfInv, render_elf_data
  PROVE  ElfInv'
<1> DEFINE N == Len(sections)
           n == sections[at].len
<1>1. /\ stage = "elf_data" /\ at <= N /\ elf' \in buffer_reserve(elf, n)
      /\ data' = Append(data, elf.len)
      /\ headers' = IF sech_ptrs[at] = elf'.block THEN [headers EXCEPT ![at].sh_offset = elf.len] ELSE headers
      /\ at' = at + 1 /\ UNCHANGED <<sections, opts, stage, sech_ptrs>>
  BY DEF render_elf_data, fixed
<1>2. /\ at \in 1 .. N /\ N \in Nat /\ HeadersTo(N) /\ DataTo(at - 1) /\ sections \in Seq(Section)
      /\ DOMAIN elf = {"block", "len", "maxlen"} /\ elf.block \in Nat /\ elf.len \in Nat /\ Small(elf)
  BY <1>1 DEF ElfInv
<1>3. n \in Nat
  <2>1. sections[at] \in Section
    BY <1>2
  <2> QED BY <2>1 DEF Section
<1> HIDE DEF n
<1>4. /\ DOMAIN elf' = {"block", "len", "maxlen"} /\ elf'.len = elf.len + n /\ elf'.len \in Nat
      /\ Small(elf') /\ elf'.block \in Nat /\ elf.block <= elf'.block
  <2>1. elf' \in buffer_reserve(elf, n)
    BY <1>1
  <2>2. /\ DOMAIN elf' = {"block", "len", "maxlen"} /\ elf'.len = elf.len + n /\ elf'.len \in Nat
        /\ elf'.block \in {elf.block, elf.block + 1} /\ elf'.block \in Nat /\ Small(elf')
    BY <1>2, <1>3, <2>1, ReserveFacts
  <2> QED BY <1>2, <2>2
<1>5. /\ headers \in Seq(Header) /\ Len(headers) = N /\ sech_ptrs \in Seq(Nat) /\ Len(sech_ptrs) = N
      /\ \A k \in 1 .. N : /\ sech_ptrs[k] <= elf.block
                           /\ headers[k].sh_addr = sections[k].start
                           /\ headers[k].sh_size = sections[k].len
  BY <1>2 DEF HeadersTo
<1>6. /\ headers' \in Seq(Header) /\ Len(headers') = N
      /\ \A k \in 1 .. N : /\ headers'[k].sh_addr = headers[k].sh_addr
                           /\ headers'[k].sh_size = headers[k].sh_size
                           /\ k # at => headers'[k] = headers[k]
      /\ sech_ptrs[at] = elf'.block => headers'[at].sh_offset = elf.len
  <2>1. CASE sech_ptrs[at] = elf'.block
    <3> DEFINE x == headers[at]
               y == [x EXCEPT !.sh_offset = elf.len]
    <3>1. x \in Header
      BY <1>2, <1>5
    <3>2. y \in Header /\ y.sh_addr = x.sh_addr /\ y.sh_size = x.sh_size /\ y.sh_offset = elf.len
      BY <1>2, <3>1 DEF Header
    <3>3. headers' = [headers EXCEPT ![at] = y]
      BY <1>1, <2>1
    <3> HIDE DEF y
    <3>4. headers' \in Seq(Header) /\ Len(headers') = N
      BY <1>2, <1>5, <3>2, <3>3, ExceptSeq
    <3>5. \A k \in 1 .. N : headers'[k] = IF k = at THEN y ELSE headers[k]
      BY <1>2, <1>5, <3>3
    <3> QED BY <1>2, <3>2, <3>4, <3>5
  <2>2. CASE sech_ptrs[at] # elf'.block
    BY <1>1, <1>5, <2>2
  <2> QED BY <2>1, <2>2
<1>7. HeadersTo(Len(sections))'
  <2>1. \A k \in 1 .. N : sech_ptrs[k] \in Nat /\ sech_ptrs[k] <= elf'.block
    BY <1>2, <1>4, <1>5
  <2> QED BY <1>1, <1>5, <1>6, <2>1 DEF HeadersTo
<1>8. /\ data \in Seq(Nat) /\ Len(data) = at - 1
      /\ \A k \in 1 .. at - 1 : /\ data[k] + sections[k].len <= elf.len
                                /\ elf.block = 0 => headers[k].sh_offset = data[k]
                                /\ \A r \in 1 .. k - 1 : data[r] + sections[r].len <= data[k]
  BY <1>2 DEF DataTo
<1>9. /\ data' \in Seq(Nat) /\ Len(data') = at /\ data'[at] = elf.len
      /\ \A k \in 1 .. at - 1 : data'[k] = data[k]
  BY <1>1, <1>2, <1>8, AppendProperties
<1>10. ASSUME NEW k \in 1 .. at
       PROVE  /\ data'[k] + sections[k].len <= elf'.len
              /\ elf'.block = 0 => headers'[k].sh_offset = data'[k]
              /\ \A r \in 1 .. k - 1 : data'[r] + sections[r].len <= data'[k]
  <2>1. CASE k = at
    <3>1. data'[k] + sections[k].len <= elf'.len
      BY <1>2, <1>3, <1>4, <1>9, <2>1 DEF n
    <3>2. elf'.block = 0 => headers'[k].sh_offset = data'[k]
      <4>1. ASSUME elf'.block = 0 PROVE sech_ptrs[at] = elf'.block
        <5>1. sech_ptrs[at] \in Nat /\ sech_ptrs[at] <= elf.block
          BY <1>2, <1>5
        <5> QED BY <1>2, <1>4, <4>1, <5>1
      <4> QED BY <1>6, <1>9, <2>1, <4>1
    <3>3. \A r \in 1 .. k - 1 : data'[r] + sections[r].len <= data'[k]
      BY <1>8, <1>9, <2>1
    <3> QED BY <3>1, <3>2, <3>3
  <2>2. CASE k \in 1 .. at - 1
    <3>1. data'[k] = data[k] /\ k # at /\ k \in 1 .. N /\ \A r \in 1 .. k - 1 : r \in 1 .. at - 1
      BY <1>2, <1>9, <2>2
    <3>2. data[k] \in Nat /\ sections[k].len \in Nat
      <4>1. sections[k] \in Section
        BY <1>2, <3>1
      <4> QED BY <1>8, <2>2, <4>1 DEF Section
    <3>3. data'[k] + sections[k].len <= elf'.len
      <4>1. data[k] + sections[k].len <= elf.len
        BY <1>8, <2>2
      <4> QED BY <1>2, <1>3, <1>4, <3>1, <3>2, <4>1
    <3>4. elf'.block = 0 => headers'[k].sh_offset = data'[k]
      <4>1. elf'.block = 0 => elf.block = 0
        BY <1>2, <1>4
      <4>2. elf.block = 0 => headers[k].sh_offset = data[k]
        BY <1>8, <2>2
      <4>3. headers'[k] = headers[k]
        BY <1>6, <3>1
      <4> QED BY <3>1, <4>1, <4>2, <4>3
    <3>5. \A r \in 1 .. k - 1 : data'[r] + sections[r].len <= data'[k]
      BY <1>8, <1>9, <2>2, <3>1
    <3> QED BY <3>3, <3>4, <3>5
  <2> QED BY <1>2, <2>1, <2>2
<1>11. DataTo(at - 1)'
  <2>1. at' - 1 = at /\ sections' = sections
    BY <1>1, <1>2
  <2> QED BY <1>9, <1>10, <2>1 DEF DataTo
<1>12. at' \in 1 .. Len(sections') + 1
  BY <1>1, <1>2
<1> QED BY <1>1, <1>2, <1>4, <1>7, <1>11, <1>12 DEF ElfInv

\* Every step keeps ElfInv.
LEMMA ElfNext ==
  ASSUME ElfInv, [Next]_vars
  PROVE  ElfInv'
<1>1. CASE render_elf_start
  BY <1>1, StartStep
<1>2. CASE render_elf_header
  BY <1>2, HeaderStep
<1>3. CASE render_elf_data
  BY <1>3, DataStep
<1>4. ASSUME UNCHANGED <<sections, elf, headers, sech_ptrs>>, NEW n PROVE HeadersTo(n) => HeadersTo(n)'
  BY <1>4 DEF HeadersTo
<1>5. CASE parse_options
  <2>1. /\ stage = "options" /\ stage' = "finish" /\ opts'.target = request.target
        /\ UNCHANGED <<sections, at, elf, headers, sech_ptrs, data>>
    BY <1>5 DEF parse_options, fixed, elf_vars
  <2>2. HeadersTo(0)'
    BY <1>4, <2>1 DEF ElfInv
  <2> QED BY <2>1, <2>2 DEF ElfInv
<1>6. CASE render_finish
  <2>1. /\ stage = "finish" /\ stage' \in {"error", "raw", "elf_start", "sna_pc"}
        /\ stage' = "raw" => opts.target = "raw"
        /\ stage' = "sna_pc" => opts.target = "sna"
        /\ UNCHANGED <<sections, opts, at, elf, headers, sech_ptrs, data>>
    BY <1>6 DEF render_finish, fixed, elf_vars, ElfInv
  <2>2. HeadersTo(0)'
    BY <1>4, <2>1 DEF ElfInv
  <2> QED BY <2>1, <2>2 DEF ElfInv
<1>7. CASE render_raw
  <2>1. stage = "raw" /\ stage' = "done" /\ UNCHANGED <<sections, opts, elf>>
    BY <1>7 DEF render_raw, fixed
  <2> QED BY <2>1 DEF ElfInv
<1>8. CASE render_elf_headers_end
  <2>1. /\ stage = "elf_headers" /\ at > Len(sections) /\ stage' = "elf_data" /\ at' = 1
        /\ UNCHANGED <<sections, opts, elf, headers, sech_ptrs, data>>
    BY <1>8 DEF render_elf_headers_end, fixed, elf_vars
  <2>2. at - 1 = Len(sections) /\ HeadersTo(at - 1) /\ data = <<>>
    BY <2>1 DEF ElfInv
  <2>3. HeadersTo(Len(sections))'
    BY <2>1, <2>2 DEF HeadersTo
  <2>4. DataTo(at - 1)'
    <3>1. data' = <<>> /\ at' - 1 = 0
      BY <2>1, <2>2
    <3> QED BY <3>1 DEF DataTo
  <2>5. at' \in 1 .. Len(sections') + 1
    BY <2>1 DEF ElfInv
  <2> QED BY <2>1, <2>3, <2>4, <2>5 DEF ElfInv
<1>9. CASE render_elf_end
  <2>1. /\ stage = "elf_data" /\ at > Len(sections) /\ stage' = "done"
        /\ UNCHANGED <<sections, opts, elf, headers, sech_ptrs, data>>
    BY <1>9 DEF render_elf_end, fixed, elf_vars
  <2>2. at - 1 = Len(sections) /\ HeadersTo(Len(sections)) /\ DataTo(at - 1)
    BY <2>1 DEF ElfInv
  <2>3. HeadersTo(Len(sections))' /\ DataTo(Len(sections))'
    BY <2>1, <2>2 DEF HeadersTo, DataTo
  <2> QED BY <2>1, <2>3 DEF ElfInv
<1>10. CASE render_sna_pc \/ render_sna_section \/ render_sna_end
  <2>1. /\ stage \in {"sna_pc", "sna_sections"}
        /\ stage' \in {"sna_sections", "error", "done"}
        /\ UNCHANGED <<sections, opts, elf>>
    BY <1>10 DEF render_sna_pc, render_sna_section, render_sna_end, fixed, elf_vars
  <2> QED BY <2>1 DEF ElfInv
<1>11. CASE UNCHANGED vars
  <2>1. UNCHANGED <<sections, request, opts, stage, at, elf, headers, sech_ptrs, data>>
    BY <1>11 DEF vars, fixed, elf_vars
  <2> QED BY <2>1 DEF ElfInv, HeadersTo, DataTo
<1> QED BY <1>1, <1>2, <1>3, <1>5, <1>6, <1>7, <1>8, <1>9, <1>10, <1>11 DEF Next

\* A finished object whose buffer was never moved is as it should be.
LEMMA ElfFinds == ElfInv => (elf.block = 0 \/ elf.len < BUFFER_INIT_SIZE => HeaderFinds)
<1> SUFFICES ASSUME ElfInv, elf.block = 0 \/ elf.len < BUFFER_INIT_SIZE,
                    stage = "done", opts.target = "elf", NEW s \in DOMAIN sections
             PROVE  /\ headers[s].sh_offset = data[s] /\ headers[s].sh_size = sections[s].len
                    /\ headers[s].sh_addr = sections[s].start
                    /\ \A r \in 1 .. s - 1 : data[r] + sections[r].len <= data[s]
  BY DEF HeaderFinds
<1>1. s \in 1 .. Len(sections)
  BY DEF ElfInv
<1>2. HeadersTo(Len(sections)) /\ DataTo(Len(sections))
  BY DEF ElfInv
<1>3. elf.block = 0
  BY DEF ElfInv, Small
<1> QED BY <1>1, <1>2, <1>3 DEF HeadersTo, DataTo

\* For all sections, however many and large: every header of a finished object
\* finds the content of its section, which shares no byte with another, if the
\* file is shorter than the buffer was at first, and also if it is longer and
\* realloc never moved the buffer (render_elf.c, buffer.c).
THEOREM UnmovedFinds ==
  ASSUME Typed
  PROVE  Spec => [](elf.block = 0 \/ elf.len < BUFFER_INIT_SIZE => HeaderFinds)
<1>1. Init => ElfInv
  BY ElfInit
<1>2. ElfInv /\ [Next]_vars => ElfInv'
  BY ElfNext
<1> QED BY <1>1, <1>2, ElfFinds, PTL DEF Spec

---------------------------------------------------------------------------
(* The snapshot.                                                           *)

Address == {a \in Nat : a < 65536}
InRam(w) == w.lo >= SNA_SNAPSHOT_ROM_SIZE /\ w.lo + w.n <= 65536

\* The addresses of a section and those of a write: none in common.
Apart(sec, w) == sec.start + sec.len <= w.lo \/ w.lo + w.n <= sec.start

\* What is written behind the sections, for a command line that gives RAMTOP.
Behind(req) ==
  IF req.generic THEN {Write(req.ramtop, 2, "pc")}
  ELSE {Write(22528, 768, "attributes"), Write(65368, 168, "udg"), Write(23552, 256, "sysvars"),
        Write(req.ramtop - 3, 4, "stack"), Write(req.ramtop - 5, 2, "pc")}

\* A snapshot that can be as it should: the PC and RAMTOP are given, the stack
\* is in the RAM, and no section meets another or what is written behind them.
Complete(req) ==
  /\ req.pc \in Address /\ req.pc # None
  /\ req.ramtop \in Nat /\ req.ramtop # None
  /\ \A w \in Behind(req) : InRam(w)
Disjoint(secs) ==
  \A k, r \in DOMAIN secs :
    r < k /\ secs[k].len > 0 /\ secs[r].len > 0 =>
      Apart(secs[r], Write(secs[k].start, secs[k].len, "section"))
Clear(secs, req) == \A k \in DOMAIN secs : secs[k].len > 0 => \A w \in Behind(req) : Apart(secs[k], w)
Layout(secs, req) == secs \in Seq(Section) /\ Complete(req) /\ Disjoint(secs) /\ Clear(secs, req)

\* That is so for every snapshot there may be a request for.
LaidOut == \A j \in Jobs : j.request.target = "sna" => Layout(j.sections, j.request)

\* The first n sections are written, those with a content, and nothing else.
Written(ws, secs, n) ==
  /\ ws \in Seq([lo : Nat, n : Nat, what : {"section"}])
  /\ \A w \in DOMAIN ws :
       /\ InRam(ws[w])
       /\ \E k \in 1 .. n : /\ k \in DOMAIN secs /\ secs[k].len > 0
                            /\ ws[w].lo = secs[k].start /\ ws[w].n = secs[k].len
  /\ \A v, w \in DOMAIN ws : v < w => ~Overlap(ws[v], ws[w])

\* The stages of a snapshot: the options, as they are given, and then the
\* sections up to at.
SnaInv ==
  /\ request.target = "sna" => Layout(sections, request)
  /\ stage # "options" =>
       /\ opts.target = request.target /\ opts.sna_generic = request.generic
       /\ opts.sna_pc_addr = Given(request.pc)
       /\ Given(request.ramtop) # -1 => opts.sna_ramtop = Given(request.ramtop)
  /\ stage \in {"elf_start", "elf_headers", "elf_data"} => request.target = "elf"
  /\ stage = "raw" => request.target = "raw"
  /\ stage \in {"sna_pc", "sna_sections"} => request.target = "sna"
  /\ stage \in {"options", "finish", "sna_pc"} => writes = <<>> /\ at = 1
  /\ stage = "sna_sections" =>
       at \in Nat /\ at >= 1 /\ Written(writes, sections, at - 1) /\ pc_value = request.pc
  /\ SnapshotHolds

\* At first no option is read and nothing is written.
LEMMA SnaInit ==
  ASSUME LaidOut, Init
  PROVE  SnaInv
<1>1. request.target = "sna" => Layout(sections, request)
  BY DEF Init, LaidOut
<1>2. stage = "options" /\ at = 1 /\ writes = <<>>
  BY DEF Init
<1> QED BY <1>1, <1>2 DEF SnaInv, SnapshotHolds

\* A section goes into the RAM, apart from those that are there.
LEMMA SectionStep ==
  ASSUME SnaInv, render_sna_section
  PROVE  SnaInv'
<1>1. /\ stage = "sna_sections" /\ at \in 1 .. Len(sections)
      /\ UNCHANGED <<sections, request, opts, pc_value>>
      /\ request.target = "sna" /\ Layout(sections, request) /\ pc_value = request.pc /\ Written(writes, sections, at - 1)
  <2>1. stage = "sna_sections" /\ at <= Len(sections) /\ UNCHANGED <<sections, request, opts, pc_value>>
    BY DEF render_sna_section, fixed
  <2>2. request.target = "sna" /\ at \in Nat /\ at >= 1 /\ Written(writes, sections, at - 1) /\ pc_value = request.pc
    BY <2>1 DEF SnaInv
  <2>3. Layout(sections, request)
    BY <2>2 DEF SnaInv
  <2>4. sections \in Seq(Section)
    BY <2>3 DEF Layout
  <2>5. at \in 1 .. Len(sections)
    BY <2>1, <2>2, <2>4
  <2> QED BY <2>1, <2>2, <2>3, <2>5
<1>2. sections \in Seq(Section) /\ sections[at] \in Section /\ DOMAIN sections = 1 .. Len(sections)
      /\ Len(sections) \in Nat /\ at \in DOMAIN sections
  <2>1. sections \in Seq(Section)
    BY <1>1 DEF Layout
  <2> QED BY <1>1, <2>1
<1>3. CASE at \notin NonEmpty /\ at' = at + 1 /\ UNCHANGED <<stage, writes>>
  <2>1. at' - 1 = at /\ writes' = writes /\ sections' = sections
    BY <1>1, <1>2, <1>3
  <2>2. at' \in Nat /\ at' >= 1
    BY <1>2, <1>3
  <2>3. Written(writes, sections, at)
    <3>1. /\ writes \in Seq([lo : Nat, n : Nat, what : {"section"}])
          /\ \A w \in DOMAIN writes : InRam(writes[w])
          /\ \A v, w \in DOMAIN writes : v < w => ~Overlap(writes[v], writes[w])
      BY <1>1 DEF Written
    <3>2. ASSUME NEW w \in DOMAIN writes
          PROVE  \E k \in 1 .. at : /\ k \in DOMAIN sections /\ sections[k].len > 0
                                    /\ writes[w].lo = sections[k].start /\ writes[w].n = sections[k].len
      <4>1. PICK k \in 1 .. at - 1 : /\ k \in DOMAIN sections /\ sections[k].len > 0
                                     /\ writes[w].lo = sections[k].start /\ writes[w].n = sections[k].len
        BY <1>1 DEF Written
      <4>2. k \in 1 .. at
        BY <1>2
      <4> QED BY <4>1, <4>2
    <3> QED BY <3>1, <3>2 DEF Written
  <2>4. Written(writes', sections', at' - 1)
    BY <2>1, <2>3
  <2> QED BY <1>1, <1>3, <2>2, <2>4 DEF SnaInv, SnapshotHolds
<1>4. CASE /\ at \in NonEmpty /\ Fits(sections[at]) /\ at' = at + 1 /\ UNCHANGED stage
           /\ writes' = Append(writes, Write(sections[at].start, sections[at].len, "section"))
  <2> DEFINE e == Write(sections[at].start, sections[at].len, "section")
             W == [lo : Nat, n : Nat, what : {"section"}]
             N == Len(writes)
  <2>1. /\ sections[at].start \in Nat /\ sections[at].len \in Nat /\ sections[at].len > 0
        /\ sections[at].start >= SNA_SNAPSHOT_ROM_SIZE
        /\ sections[at].start + sections[at].len <= 65536
    <3>1. sections[at].start \in Nat /\ sections[at].len \in Nat
      BY <1>2 DEF Section
    <3> QED BY <1>4, <3>1 DEF NonEmpty, Fits, SNA_SNAPSHOT_ROM_SIZE, SNA_SNAPSHOT_RAM_SIZE
  <2>2. e \in W /\ e.lo = sections[at].start /\ e.n = sections[at].len
    BY <2>1 DEF Write
  <2>3. /\ writes \in Seq(W) /\ N \in Nat
        /\ \A w \in 1 .. N :
             /\ InRam(writes[w])
             /\ \E k \in 1 .. at - 1 : /\ k \in DOMAIN sections /\ sections[k].len > 0
                                       /\ writes[w].lo = sections[k].start /\ writes[w].n = sections[k].len
        /\ \A v, w \in 1 .. N : v < w => ~Overlap(writes[v], writes[w])
    <3>1. writes \in Seq(W)
      BY <1>1 DEF Written
    <3>2. N \in Nat /\ DOMAIN writes = 1 .. N
      BY <3>1
    <3>3. /\ \A w \in DOMAIN writes :
               /\ InRam(writes[w])
               /\ \E k \in 1 .. at - 1 : /\ k \in DOMAIN sections /\ sections[k].len > 0
                                         /\ writes[w].lo = sections[k].start /\ writes[w].n = sections[k].len
          /\ \A v, w \in DOMAIN writes : v < w => ~Overlap(writes[v], writes[w])
      BY <1>1 DEF Written
    <3>4. \A w \in 1 .. N :
            /\ InRam(writes[w])
            /\ \E k \in 1 .. at - 1 : /\ k \in DOMAIN sections /\ sections[k].len > 0
                                      /\ writes[w].lo = sections[k].start /\ writes[w].n = sections[k].len
      BY <3>2, <3>3
    <3>5. \A v, w \in 1 .. N : v < w => ~Overlap(writes[v], writes[w])
      BY <3>2, <3>3
    <3> HIDE DEF N, W
    <3> QED BY <3>1, <3>2, <3>4, <3>5
  <2> HIDE DEF e
  <2>4. /\ writes' \in Seq(W) /\ Len(writes') = N + 1 /\ DOMAIN writes' = 1 .. N + 1
        /\ writes'[N + 1] = e /\ \A w \in 1 .. N : writes'[w] = writes[w]
    BY <1>4, <2>2, <2>3, AppendProperties DEF e
  <2>5. ASSUME NEW w \in 1 .. N + 1
        PROVE  /\ InRam(writes'[w])
               /\ \E k \in 1 .. at : /\ k \in DOMAIN sections /\ sections[k].len > 0
                                     /\ writes'[w].lo = sections[k].start /\ writes'[w].n = sections[k].len
    <3>1. CASE w = N + 1
      <4>1. at \in 1 .. at
        BY <1>2
      <4>2. writes'[w] = e
        BY <2>4, <3>1
      <4>3. InRam(e)
        BY <2>1, <2>2 DEF InRam
      <4> QED BY <1>2, <2>1, <2>2, <4>1, <4>2, <4>3
    <3>2. CASE w \in 1 .. N
      <4>1. \A k \in 1 .. at - 1 : k \in 1 .. at
        BY <1>2
      <4>2. writes'[w] = writes[w]
        BY <2>4, <3>2
      <4> QED BY <2>3, <3>2, <4>1, <4>2
    <3>3. w = N + 1 \/ w \in 1 .. N
      <4>1. N \in Nat
        BY <2>3
      <4> QED BY <4>1
    <3> QED BY <3>1, <3>2, <3>3
  <2>6. ASSUME NEW v \in 1 .. N + 1, NEW w \in 1 .. N + 1, v < w
        PROVE  ~Overlap(writes'[v], writes'[w])
    <3>0. v \in 1 .. N
      BY <2>3, <2>6
    <3>1. CASE w = N + 1
      <4>1. PICK k \in 1 .. at - 1 : /\ k \in DOMAIN sections /\ sections[k].len > 0
                                     /\ writes[v].lo = sections[k].start /\ writes[v].n = sections[k].len
        BY <2>3, <3>0
      <4>2. k < at
        BY <1>2
      <4>3. Apart(sections[k], e)
        <5>1. \A r \in DOMAIN sections : r < at /\ sections[r].len > 0 => Apart(sections[r], e)
          BY <1>1, <1>2, <2>1 DEF Layout, Disjoint, e
        <5> QED BY <4>1, <4>2, <5>1
      <4>4. sections[k].start \in Nat /\ sections[k].len \in Nat
        <5>1. sections[k] \in Section
          BY <1>2, <4>1
        <5> QED BY <5>1 DEF Section
      <4>5. e.lo \in Nat /\ e.n \in Nat
        BY <2>1, <2>2
      <4>6. ~Overlap(writes[v], e)
        BY <4>1, <4>3, <4>4, <4>5 DEF Apart, Overlap
      <4> QED BY <2>4, <3>0, <3>1, <4>6
    <3>2. CASE w \in 1 .. N
      BY <2>3, <2>4, <2>6, <3>0, <3>2
    <3> QED BY <2>3, <3>1, <3>2
  <2>7. at' \in Nat /\ at' >= 1 /\ at' - 1 = at
    BY <1>2, <1>4
  <2>8. Written(writes', sections, at)
    BY <2>4, <2>5, <2>6 DEF Written
  <2>9. Written(writes', sections', at' - 1)
    BY <1>1, <2>7, <2>8
  <2> QED BY <1>1, <1>4, <2>7, <2>9 DEF SnaInv, SnapshotHolds
<1>5. CASE stage' = "error" /\ UNCHANGED <<at, writes>>
  BY <1>1, <1>5 DEF SnaInv, SnapshotHolds
<1> QED BY <1>3, <1>4, <1>5 DEF render_sna_section

\* What is written last is what Behind says, behind the sections.
LEMMA BehindFacts ==
  ASSUME SnaInv, render_sna_end
  PROVE  \E last \in Seq(Behind(request)) : writes' = writes \o last
<1> DEFINE B == Behind(request)
<1>1. /\ stage = "sna_sections"
      /\ LET sp == IF opts.sna_generic THEN opts.sna_ramtop ELSE StackAt - 2
         IN writes' = writes \o (IF opts.sna_generic THEN <<>> ELSE system_area) \o <<Write(sp, 2, "pc")>>
  BY DEF render_sna_end
<1>2. request.target = "sna" /\ opts.sna_generic = request.generic /\ Written(writes, sections, at - 1)
      /\ (Given(request.ramtop) # -1 => opts.sna_ramtop = Given(request.ramtop))
  BY <1>1 DEF SnaInv
<1>3. Complete(request)
  BY <1>2 DEF SnaInv, Layout
<1>4. request.ramtop \in Nat /\ opts.sna_ramtop = request.ramtop
  <2>1. request.ramtop \in Nat /\ request.ramtop # None
    BY <1>3 DEF Complete
  <2>2. Given(request.ramtop) = request.ramtop
    BY <2>1 DEF Given
  <2> QED BY <1>2, <2>1, <2>2
<1>5. writes \in Seq(Range(writes))
  <2>1. writes \in Seq([lo : Nat, n : Nat, what : {"section"}])
    BY <1>2 DEF Written
  <2> QED BY <2>1 DEF Range
<1>6. CASE request.generic
  <2>1. writes' = writes \o <<>> \o <<Write(request.ramtop, 2, "pc")>>
    BY <1>1, <1>2, <1>4, <1>6
  <2>2. <<Write(request.ramtop, 2, "pc")>> \in Seq(B)
    BY <1>6 DEF Behind
  <2>3. writes \o <<>> = writes
    BY <1>5
  <2> QED BY <2>1, <2>2, <2>3
<1>7. CASE ~request.generic
  <2> DEFINE p == Write(request.ramtop - 5, 2, "pc")
             sys == <<Write(22528, 768, "attributes"), Write(65368, 168, "udg"), Write(23552, 256, "sysvars"),
                      Write(request.ramtop - 3, 4, "stack")>>
  <2>1. StackAt = request.ramtop - 3 /\ StackAt - 2 = request.ramtop - 5
    BY <1>4 DEF StackAt
  <2>2. system_area = sys
    BY <2>1 DEF system_area
  <2>3. writes' = writes \o sys \o <<p>>
    BY <1>1, <1>2, <1>7, <2>1, <2>2
  <2>4. sys \in Seq(B) /\ p \in B
    BY <1>7 DEF Behind
  <2> HIDE DEF B, sys, p
  <2>5. writes \o sys \o <<p>> = writes \o (sys \o <<p>>)
    <3> DEFINE U == Range(writes) \cup B
    <3>1. writes \in Seq(U) /\ sys \in Seq(U) /\ <<p>> \in Seq(U)
      BY <1>5, <2>4
    <3> HIDE DEF U
    <3> QED BY <3>1, ConcatAssociative
  <2>6. sys \o <<p>> \in Seq(B)
    BY <2>4
  <2> QED BY <2>3, <2>5, <2>6 DEF B
<1> QED BY <1>6, <1>7

\* So the sections survive it.
LEMMA EndStep ==
  ASSUME SnaInv, render_sna_end
  PROVE  SnaInv'
<1> DEFINE B == Behind(request)
           N == Len(writes)
<1>1. /\ stage = "sna_sections" /\ stage' = "done" /\ UNCHANGED <<sections, request, opts, at, pc_value>>
  BY DEF render_sna_end, fixed
<1>2. /\ request.target = "sna" /\ Layout(sections, request) /\ pc_value = request.pc /\ Written(writes, sections, at - 1)
      /\ opts.target = request.target
  BY <1>1 DEF SnaInv
<1>3. PICK last \in Seq(B) : writes' = writes \o last
  BY BehindFacts
<1>4. /\ sections \in Seq(Section) /\ request.pc # None
      /\ \A w \in B : InRam(w)
      /\ \A k \in DOMAIN sections : sections[k].len > 0 => \A w \in B : Apart(sections[k], w)
  BY <1>2 DEF Layout, Complete, Clear
<1>5. \A w \in B : w.what # "section"
  BY DEF Behind, Write
<1>6. \A w \in B : w.lo \in Int /\ w.n \in Int
  <2>1. request.ramtop \in Nat
    BY <1>2 DEF Layout, Complete
  <2> QED BY <2>1 DEF Behind, Write
<1>7. /\ writes \in Seq([lo : Nat, n : Nat, what : {"section"}]) /\ N \in Nat /\ DOMAIN writes = 1 .. N
      /\ \A w \in DOMAIN writes :
           /\ InRam(writes[w])
           /\ \E k \in 1 .. at - 1 : /\ k \in DOMAIN sections /\ sections[k].len > 0
                                     /\ writes[w].lo = sections[k].start /\ writes[w].n = sections[k].len
      /\ \A v, w \in DOMAIN writes : v < w => ~Overlap(writes[v], writes[w])
  <2>1. writes \in Seq([lo : Nat, n : Nat, what : {"section"}])
    BY <1>2 DEF Written
  <2>2. N \in Nat /\ DOMAIN writes = 1 .. N
    BY <2>1
  <2> QED BY <1>2, <2>1, <2>2 DEF Written
<1> HIDE DEF B
<1>8. /\ DOMAIN writes' = 1 .. N + Len(last) /\ Len(last) \in Nat
      /\ \A w \in 1 .. N : writes'[w] = writes[w]
      /\ \A w \in N + 1 .. N + Len(last) : writes'[w] \in B
  <2> DEFINE R == [lo : Nat, n : Nat, what : {"section"}]
             U == R \cup B
  <2>1. writes \in Seq(U) /\ last \in Seq(U)
    <3>1. writes \in Seq(R)
      BY <1>7
    <3> HIDE DEF R
    <3> QED BY <1>3, <3>1
  <2>2. Len(last) \in Nat /\ \A w \in 1 .. Len(last) : last[w] \in B
    BY <1>3
  <2> HIDE DEF U
  <2>3. /\ writes' \in Seq(U) /\ Len(writes') = N + Len(last)
        /\ \A i \in 1 .. N + Len(last) : writes'[i] = IF i <= N THEN writes[i] ELSE last[i - N]
    BY <1>3, <2>1, ConcatProperties
  <2>4. DOMAIN writes' = 1 .. N + Len(last)
    BY <2>3
  <2>5. ASSUME NEW w \in 1 .. N PROVE writes'[w] = writes[w]
    BY <1>7, <2>2, <2>3
  <2>6. ASSUME NEW w \in N + 1 .. N + Len(last) PROVE writes'[w] \in B
    <3>1. w - N \in 1 .. Len(last) /\ w \in 1 .. N + Len(last) /\ ~(w <= N)
      BY <1>7, <2>2
    <3> QED BY <2>2, <2>3, <3>1
  <2> QED BY <2>2, <2>4, <2>5, <2>6
<1>9. \A w \in DOMAIN writes' : w \in 1 .. N \/ w \in N + 1 .. N + Len(last)
  BY <1>7, <1>8
<1>10. ASSUME NEW w \in DOMAIN writes'
       PROVE  InRam(writes'[w])
  BY <1>4, <1>7, <1>8, <1>9
<1>11. ASSUME NEW j \in DOMAIN writes', NEW l \in DOMAIN writes', j < l, writes'[j].what = "section"
       PROVE  ~Overlap(writes'[j], writes'[l])
  <2>1. j \in 1 .. N
    BY <1>5, <1>8, <1>9, <1>11
  <2>2. CASE l \in 1 .. N
    <3>1. ~Overlap(writes[j], writes[l])
      BY <1>7, <1>11, <2>1, <2>2
    <3> QED BY <1>8, <2>1, <2>2, <3>1
  <2>3. CASE l \in N + 1 .. N + Len(last)
    <3>1. PICK k \in DOMAIN sections : /\ sections[k].len > 0
                                       /\ writes[j].lo = sections[k].start /\ writes[j].n = sections[k].len
      BY <1>7, <2>1
    <3>2. writes'[l] \in B /\ writes'[j] = writes[j]
      BY <1>8, <2>1, <2>3
    <3>3. Apart(sections[k], writes'[l]) /\ writes'[l].lo \in Int /\ writes'[l].n \in Int
      BY <1>4, <1>6, <3>1, <3>2
    <3>4. sections[k].start \in Nat /\ sections[k].len \in Nat
      <4>1. sections[k] \in Section
        BY <1>4, <3>1
      <4> QED BY <4>1 DEF Section
    <3> QED BY <3>1, <3>2, <3>3, <3>4 DEF Apart, Overlap
  <2> QED BY <1>9, <2>2, <2>3
<1>12. SnapshotHolds'
  <2>1. \A w \in Range(writes') : w.lo >= SNA_SNAPSHOT_ROM_SIZE /\ w.lo + w.n <= 65536
    BY <1>10 DEF Range, InRam
  <2>2. \A j, l \in DOMAIN writes' : j < l /\ writes'[j].what = "section" => ~Overlap(writes'[j], writes'[l])
    BY <1>11
  <2>3. request'.pc # None /\ pc_value' = request'.pc
    BY <1>1, <1>2, <1>4
  <2> QED BY <2>1, <2>2, <2>3 DEF SnapshotHolds, Overlap, SNA_SNAPSHOT_ROM_SIZE
<1> QED BY <1>1, <1>2, <1>12 DEF SnaInv

\* No step of the program breaks it.
LEMMA SnaNext ==
  ASSUME ElfInv, SnaInv, [Next]_vars
  PROVE  SnaInv'
<1>1. CASE parse_options
  <2>1. /\ stage = "options" /\ stage' = "finish" /\ UNCHANGED <<sections, request, at, writes>>
        /\ opts'.target = request.target /\ opts'.sna_generic = request.generic
        /\ opts'.sna_pc_addr = Given(request.pc)
        /\ Given(request.ramtop) # -1 => opts'.sna_ramtop = Given(request.ramtop)
    BY <1>1 DEF parse_options, fixed, sna_vars
  <2> QED BY <2>1 DEF SnaInv, SnapshotHolds, Given
<1>2. CASE render_finish
  <2>1. /\ stage = "finish" /\ UNCHANGED <<sections, request, opts, at, writes>>
        /\ stage' \in {"error", "raw", "elf_start", "sna_pc"}
        /\ stage' = "raw" => opts.target = "raw"
        /\ stage' = "elf_start" => opts.target = "elf"
        /\ stage' = "sna_pc" => opts.target = "sna"
    BY <1>2 DEF render_finish, fixed, sna_vars, ElfInv
  <2> QED BY <2>1 DEF SnaInv, SnapshotHolds
<1>3. CASE render_raw
  <2>1. stage = "raw" /\ stage' = "done" /\ UNCHANGED <<sections, request, opts>>
    BY <1>3 DEF render_raw, fixed
  <2> QED BY <2>1 DEF SnaInv, SnapshotHolds
<1>4. CASE render_elf_start \/ render_elf_header \/ render_elf_headers_end \/ render_elf_data \/ render_elf_end
  <2>1. /\ stage \in {"elf_start", "elf_headers", "elf_data"}
        /\ stage' \in {"elf_headers", "elf_data", "done"} /\ UNCHANGED <<request, opts>>
    BY <1>4 DEF render_elf_start, render_elf_header, render_elf_headers_end, render_elf_data, render_elf_end,
                fixed
  <2> QED BY <2>1 DEF SnaInv, SnapshotHolds
<1>5. CASE render_sna_pc
  <2>1. /\ stage = "sna_pc" /\ stage' = "sna_sections" /\ UNCHANGED <<sections, request, opts, at, writes>>
        /\ pc_value' = IF opts.sna_pc_addr # -1 THEN opts.sna_pc_addr % 65536 ELSE LowestStart(65535)
    BY <1>5 DEF render_sna_pc, fixed
  <2>2. request.target = "sna" /\ opts.sna_pc_addr = Given(request.pc) /\ writes = <<>> /\ at = 1
    BY <2>1 DEF SnaInv
  <2>3. request.pc \in Address /\ request.pc # None
    BY <2>2 DEF SnaInv, Layout, Complete
  <2>4. pc_value' = request.pc
    <3>1. opts.sna_pc_addr = request.pc
      BY <2>2, <2>3 DEF Given
    <3>2. request.pc # -1 /\ request.pc % 65536 = request.pc
      <4>1. request.pc \in Nat /\ request.pc < 65536
        BY <2>3, SMT DEF Address
      <4>2. \A x \in Nat : x < 65536 => x # -1 /\ x % 65536 = x
        BY SMT
      <4> QED BY <4>1, <4>2
    <3> QED BY <2>1, <3>1, <3>2
  <2>5. Written(writes', sections', at' - 1)
    <3>1. writes' = <<>>
      BY <2>1, <2>2
    <3>2. writes' \in Seq([lo : Nat, n : Nat, what : {"section"}]) /\ DOMAIN writes' = {}
      BY <3>1
    <3> QED BY <3>2 DEF Written
  <2> QED BY <2>1, <2>2, <2>4, <2>5 DEF SnaInv, SnapshotHolds
<1>6. CASE render_sna_section
  BY <1>6, SectionStep
<1>7. CASE render_sna_end
  BY <1>7, EndStep
<1>8. CASE UNCHANGED vars
  <2>1. UNCHANGED <<sections, request, opts, stage, at, writes, pc_value>>
    BY <1>8 DEF vars, fixed, sna_vars
  <2>2. LowestStart(65535)' = LowestStart(65535)
    BY <2>1 DEF LowestStart, NonEmpty
  <2> QED BY <2>1, <2>2 DEF SnaInv, SnapshotHolds, Overlap
<1> QED BY <1>1, <1>2, <1>3, <1>4, <1>5, <1>6, <1>7, <1>8 DEF Next

\* For all sections that meet neither each other nor what the program itself
\* puts into a snapshot, and every PC and RAMTOP that the command line gives: a
\* finished snapshot holds every section where it belongs, all of it in the
\* RAM, and starts at that PC (render_sna.c).
THEOREM LaidOutHolds ==
  ASSUME Typed, LaidOut
  PROVE  Spec => []SnapshotHolds
<1>1. Init => ElfInv /\ SnaInv
  BY ElfInit, SnaInit
<1>2. ElfInv /\ SnaInv /\ [Next]_vars => ElfInv' /\ SnaInv'
  BY ElfNext, SnaNext
<1>3. SnaInv => SnapshotHolds
  BY DEF SnaInv
<1> QED BY <1>1, <1>2, <1>3, PTL DEF Spec
=============================================================================
