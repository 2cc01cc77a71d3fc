---------------------------- MODULE MCOutputFile ----------------------------
(* Layouts and command lines for OutputFile, without those for which the   *)
(* file is known to be wrong, unless Known includes them.                  *)
EXTENDS OutputFile

CONSTANT Known  \* a subset of DOMAIN Excluded

Sec(start, len) == [start |-> start, len |-> len, namelen |-> 5]
Text == Sec(0, 0)

Layouts ==
  {<<Text>>, <<Sec(0, 200)>>, <<Sec(100, 800)>>, <<Sec(16384, 100)>>, <<Sec(65530, 5)>>, <<Sec(65000, 600)>>,
   <<Text, Sec(24000, 41368)>>, <<Text, Sec(24000, 41536)>>, <<Text, Sec(24000, 41537), Text>>,
   <<Text, Sec(23500, 60)>>, <<Text, Sec(30000, 100), Sec(30099, 1)>>, <<Text, Sec(30100, 1), Sec(30000, 100)>>} \cup
  {<<Text, Sec(s, n), Sec(32768, m)>> : s \in {16384, 23808, 32668}, n \in {0, 1, 100}, m \in {1, 200, 900}}

Request(target, generic, pc, ramtop) == [target |-> target, generic |-> generic, pc |-> pc, ramtop |-> ramtop]
Requests ==
  {Request(t, FALSE, None, None) : t \in {"raw", "elf"}} \cup
  {Request("sna", g, pc, top) : g \in BOOLEAN, pc \in {None, 16384, 32768}, top \in {None, 23550, 32767, 65300}}

(* The ranges of a snapshot that are written after the sections.           *)
Reserved(req) ==
  {<<req.ramtop - IF req.generic THEN 0 ELSE 5, IF req.generic THEN 2 ELSE 6>>} \cup
  (IF req.generic THEN {} ELSE {<<22528, 768>>, <<23552, 256>>, <<65368, 168>>})
Meet(lo, n, m, k) == lo < m + k /\ m < lo + n

Excluded ==
  [grown |-> [j \in Layouts \X Requests |-> j[2].target = "elf" /\ FoldLeft(LAMBDA n, s : n + s.len, 0, j[1]) > 700],
   defaults |-> [j \in Layouts \X Requests |-> j[2].target = "sna" /\ (j[2].pc = None \/ j[2].ramtop = None)],
   covered |-> [j \in Layouts \X Requests |->
     /\ j[2].target = "sna" /\ j[2].ramtop # None
     /\ \E s \in DOMAIN j[1] :
          \/ \E r \in Reserved(j[2]) : Meet(j[1][s].start, j[1][s].len, r[1], r[2])
          \/ \E t \in 1 .. s - 1 : Meet(j[1][s].start, j[1][s].len, j[1][t].start, j[1][t].len)]]
MCJobs ==
  {[sections |-> j[1], request |-> j[2]] :
     j \in {jj \in Layouts \X Requests : \A g \in DOMAIN Excluded : Excluded[g][jj] => g \in Known}}
============================================================================
