------------------------------ MODULE HashMap ------------------------------
(* bits/hashmap.c at the level of its entries: an array of entries, one    *)
(* per bucket, each the head of a list of entries from the allocator.  An  *)
(* entry is known by its address: a bucket number or a node.               *)
EXTENDS FiniteSets, Integers, TLC

CONSTANTS
  Key, Value,
  NULL,         \* the null pointer
  num_entries,  \* number of buckets
  hash_fn,      \* the hash of a key
  Node,         \* addresses the allocator hands out
  Shared        \* BOOLEAN: a caller may store a value that is stored already

ASSUME HashMapAssumption ==
  /\ num_entries \in Nat \ {0}
  /\ hash_fn \in [Key -> Nat]
  /\ IsFiniteSet(Node) /\ Node \cap (0 .. num_entries - 1) = {}
  /\ NULL \notin Key \cup Value \cup Node
  /\ Shared \in BOOLEAN

VARIABLES
  entry,      \* the entries, by address
  allocated,  \* nodes in use
  released,   \* values given back to the allocator
  result,     \* what the last call returned
  scan,       \* position of a scan under way: bucket and entry
  seen        \* keys the scan has delivered

vars == <<entry, allocated, released, result, scan, seen>>

Bucket == 0 .. num_entries - 1
Empty == [key |-> NULL, value |-> NULL, next |-> NULL]
NoScan == [current_bucket |-> num_entries, current_entry |-> NULL]
----------------------------------------------------------------------------
Head(k) == hash_fn[k] % num_entries

(* Entries of a list from a on, and the last of them.                      *)
From(a) ==
  LET next[n \in 0 .. Cardinality(Node)] ==
        IF n = 0 THEN {a} ELSE next[n - 1] \cup ({entry[e].next : e \in next[n - 1]} \ {NULL})
  IN next[Cardinality(Node)]
Last(a) == CHOOSE e \in From(a) : entry[e].next = NULL

(* The entry of k: none, the head of its bucket, or one behind the head.   *)
Holding(k) == {e \in From(Head(k)) : entry[e].key = k}
Absent(k) == Holding(k) = {}
AtHead(k) == entry[Head(k)].key = k

Entries == UNION {From(b) : b \in Bucket}
Used == {e \in Entries : entry[e].key # NULL}
Stored == {entry[e].value : e \in Used}

Idle == scan = NoScan
----------------------------------------------------------------------------
Init ==
  /\ entry = [a \in Bucket \cup Node |-> Empty]
  /\ allocated = {} /\ released = {} /\ result = NULL
  /\ scan = NoScan /\ seen = {}

hashmap_get(k) ==
  /\ Idle
  /\ result' = IF Absent(k) THEN NULL ELSE entry[CHOOSE e \in Holding(k) : TRUE].value
  /\ UNCHANGED <<entry, allocated, released, scan, seen>>

(* What a caller stores: memory it has, or has just allocated.             *)
Storable(v) == IF Shared THEN v \notin released ELSE v \notin Stored

(* HASHMAP_OP_INSERT: the bucket is empty, or the list has no entry of k.  *)
set_empty(k, v) ==
  /\ entry[Head(k)].key = NULL
  /\ entry' = [entry EXCEPT ![Head(k)] = [key |-> k, value |-> v, next |-> NULL]]
  /\ UNCHANGED allocated

\* Mutant: the new entry put behind the head, its successors lost.
set_absent_AtHead(k, v) ==
  \E n \in Node \ allocated :
    /\ allocated' = allocated \cup {n}
    /\ entry' = [entry EXCEPT ![Head(k)].next = n, ![n] = [key |-> k, value |-> v, next |-> NULL]]

set_absent(k, v) ==
  \E n \in Node \ allocated :
    /\ allocated' = allocated \cup {n}
    /\ entry' = [entry EXCEPT ![Last(Head(k))].next = n,
                              ![n] = [key |-> k, value |-> v, next |-> NULL]]

(* Replacing a value frees the old one, but only in the head of a bucket.  *)
set_replace(k, v) ==
  \E e \in Holding(k) : entry' = [entry EXCEPT ![e].value = v]

\* Mutant: the new value freed in place of the old one.
hashmap_set_FreesNew(k, v) ==
  /\ Idle /\ Storable(v)
  /\ \/ set_empty(k, v)
     \/ entry[Head(k)].key # NULL /\ Absent(k) /\ set_absent(k, v)
     \/ set_replace(k, v) /\ UNCHANGED allocated
  /\ released' = IF AtHead(k) THEN released \cup {v} ELSE released
  /\ result' = v
  /\ UNCHANGED <<scan, seen>>

hashmap_set(k, v) ==
  /\ Idle /\ Storable(v)
  /\ \/ set_empty(k, v)
     \/ entry[Head(k)].key # NULL /\ Absent(k) /\ set_absent(k, v)
     \/ set_replace(k, v) /\ UNCHANGED allocated
  /\ released' = IF AtHead(k) THEN (released \ {v}) \cup {entry[Head(k)].value} ELSE released \ {v}
  /\ result' = v
  /\ UNCHANGED <<scan, seen>>

(* HASHMAP_OP_REMOVE: the successor moves into the head; an entry behind   *)
(* the head is cut out of the list.                                        *)
remove_head(k) ==
  LET tmp == entry[Head(k)].next
  IN /\ entry' = [entry EXCEPT ![Head(k)] = entry[tmp], ![tmp] = Empty]
     /\ allocated' = allocated \ {tmp}

\* Mutant: the key left in the only entry of a bucket.
remove_last_KeepsKey(k) ==
  /\ entry' = [entry EXCEPT ![Head(k)].value = NULL]
  /\ UNCHANGED allocated

remove_last(k) ==
  /\ entry' = [entry EXCEPT ![Head(k)].key = NULL, ![Head(k)].value = NULL]
  /\ UNCHANGED allocated
remove_behind(k) ==
  \E e \in Holding(k) : \E parent \in From(Head(k)) :
    /\ entry[parent].next = e
    /\ entry' = [entry EXCEPT ![parent].next = entry[e].next, ![e] = Empty]
    /\ allocated' = allocated \ {e}

hashmap_remove(k) ==
  /\ Idle
  /\ \/ /\ Absent(k)
        /\ result' = NULL
        /\ UNCHANGED <<entry, allocated>>
     \/ /\ \E e \in Holding(k) : result' = entry[e].value
        /\ \/ AtHead(k) /\ entry[Head(k)].next # NULL /\ remove_head(k)
           \/ AtHead(k) /\ entry[Head(k)].next = NULL /\ remove_last(k)
           \/ ~AtHead(k) /\ remove_behind(k)
  /\ UNCHANGED <<released, scan, seen>>

hashmap_scan_init ==
  /\ Idle
  /\ scan' = [current_bucket |-> 0, current_entry |-> 0]
  /\ seen' = {}
  /\ UNCHANGED <<entry, allocated, released, result>>

\* Mutant: the next bucket follows the head.
Advance_SkipsList == [current_bucket |-> scan.current_bucket + 1, current_entry |-> scan.current_bucket + 1]

Advance ==
  IF entry[scan.current_entry].next # NULL
    THEN [scan EXCEPT !.current_entry = entry[@].next]
    ELSE [current_bucket |-> scan.current_bucket + 1, current_entry |-> scan.current_bucket + 1]

(* One turn of the loop: an entry is delivered or an empty bucket passed;  *)
(* after the last bucket the scan is freed and NULL returned.              *)
hashmap_scan_next ==
  /\ ~Idle
  /\ scan' = IF Advance.current_bucket = num_entries THEN NoScan ELSE Advance
  /\ seen' = seen \cup ({entry[scan.current_entry].key} \ {NULL})
  /\ UNCHANGED <<entry, allocated, released, result>>

Next ==
  \/ \E k \in Key : hashmap_get(k) \/ hashmap_remove(k) \/ \E v \in Value : hashmap_set(k, v)
  \/ hashmap_scan_init
  \/ hashmap_scan_next

Spec == Init /\ [][Next]_vars
----------------------------------------------------------------------------
(* The lists are disjoint, end, and hold every node in use and no other:   *)
(* no entry leaks and none is freed while it is linked, through any order  *)
(* of insertions, replacements and removals (the heads and their           *)
(* successors in hashmap_access_impl).                                     *)
ListsIntact ==
  /\ \A b \in Bucket : \E e \in From(b) : entry[e].next = NULL
  /\ \A b, c \in Bucket : b # c => From(b) \cap From(c) = {}
  /\ Entries = Bucket \cup allocated
  /\ \A b \in Bucket : entry[b].key = NULL => entry[b].next = NULL

(* A value in the map is memory nobody has freed: "hashmap only stores raw *)
(* pointers and doesn't manage this memory" (hashmap.c).                   *)
StoredAlive == Stored \cap released = {}

(* A scan delivers every key exactly once: mmgr_finish frees what it       *)
(* delivers, make_symtab defines it.                                       *)
ScanDelivers ==
  [][~Idle => /\ entry[scan.current_entry].key \notin seen
              /\ scan' = NoScan => seen' = {entry[e].key : e \in Used}]_vars

(* The entries of a key are the dictionary's.                              *)
Map == [k \in {entry[e].key : e \in Used} |->
          entry[CHOOSE e \in Used : entry[e].key = k].value]
D == INSTANCE Dictionary WITH map <- Map

(* The table is a dictionary, whatever keys collide (hashmap.h).           *)
IsDictionary == D!Spec
============================================================================
