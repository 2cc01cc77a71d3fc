--------------------------- MODULE HashMapProofs ---------------------------
(***************************************************************************)
(* Proofs about HashMap for every set of keys, hash function, number of    *)
(* buckets and memory of nodes.  A list is described without a recursion:  *)
(* own gives the bucket an entry is linked in and pos how far behind its   *)
(* head.                                                                   *)
(***************************************************************************)
EXTENDS HashMap, FiniteSetTheorems, WellFoundedInduction, TLAPS

---------------------------------------------------------------------------
(* Induction.                                                              *)

\* The order of the natural numbers.
Less == {ss \in Nat \X Nat : ss[1] < ss[2]}

\* It is well founded.
LEMMA LessWF == IsWellFoundedOn(Less, Nat)
  BY NatLessThanWellFounded, Zenon DEF OpToRel, Less

\* A set with 0 and the successor of each of its numbers has all of them.
LEMMA SetInduction ==
  ASSUME NEW S, 0 \in S, \A n \in Nat : n \in S => n + 1 \in S
  PROVE  Nat \subseteq S
<1> DEFINE T == Nat \ S
<1>1. ASSUME T # {} PROVE FALSE
  <2>2. PICK x \in T : \A y \in T : ~ (<<y, x>> \in Less)
    BY <1>1, LessWF, WFMin, Zenon
  <2>3. \A y \in T : ~(y < x)
    BY <2>2 DEF Less
  <2>4. x # 0 /\ x - 1 \in Nat /\ x - 1 < x
    OBVIOUS
  <2>5. x - 1 \in S
    BY <2>3, <2>4
  <2>6. (x - 1) + 1 = x
    BY <2>4
  <2> QED BY <2>4, <2>5, <2>6
<1> QED BY <1>1

---------------------------------------------------------------------------
(* Lists of entries, given by their next fields.                           *)

Address == Bucket \cup Node
Linked(A) == Bucket \cup A

\* Each bucket has a list of its own, that begins with its head, goes from
\* position to position and ends; the nodes of A are those of the lists.
Lists(nxt, A, own, pos) ==
  /\ nxt \in [Address -> Node \cup {NULL}] /\ A \subseteq Node
  /\ own \in [Address -> Bucket] /\ pos \in [Address -> Nat]
  /\ \A b \in Bucket : own[b] = b /\ pos[b] = 0
  /\ \A e \in A : pos[e] # 0 /\ \E p \in Linked(A) : nxt[p] = e
  /\ \A e \in Linked(A) : nxt[e] # NULL =>
       nxt[e] \in A /\ own[nxt[e]] = own[e] /\ pos[nxt[e]] = pos[e] + 1
  /\ \A e, f \in Linked(A) : own[e] = own[f] /\ pos[e] = pos[f] => e = f
  /\ \A b \in Bucket : \E e \in Linked(A) : own[e] = b /\ nxt[e] = NULL

\* No position of a list is left out.
LEMMA Gapless ==
  ASSUME NEW nxt, NEW A, NEW own, NEW pos, Lists(nxt, A, own, pos),
         NEW e \in Linked(A), NEW j \in Nat, j <= pos[e]
  PROVE  \E f \in Linked(A) : own[f] = own[e] /\ pos[f] = j
<1> DEFINE Good == {d \in Nat : d <= pos[e] =>
                      \E f \in Linked(A) : own[f] = own[e] /\ pos[f] = pos[e] - d}
<1>0. pos[e] \in Nat
  BY DEF Lists, Linked, Address
<1>1. 0 \in Good
  <2>1. pos[e] - 0 = pos[e]
    BY <1>0
  <2> QED BY <2>1
<1>2. ASSUME NEW d \in Nat, d \in Good PROVE d + 1 \in Good
  <2> SUFFICES ASSUME d + 1 <= pos[e]
               PROVE  \E f \in Linked(A) : own[f] = own[e] /\ pos[f] = pos[e] - (d + 1)
    <3>1. d + 1 \in Nat
      OBVIOUS
    <3> QED BY <3>1
  <2>1. d <= pos[e]
    BY <1>0
  <2>2. PICK f \in Linked(A) : own[f] = own[e] /\ pos[f] = pos[e] - d
    BY <1>2, <2>1
  <2>3. pos[f] # 0
    BY <1>0, <2>2
  <2>4. f \in A
    BY <2>3 DEF Lists, Linked
  <2>5. PICK p \in Linked(A) : nxt[p] = f
    BY <2>4 DEF Lists
  <2>6. f # NULL
    BY <2>4, HashMapAssumption DEF Lists
  <2>7. own[f] = own[p] /\ pos[f] = pos[p] + 1
    BY <2>5, <2>6 DEF Lists
  <2>8. pos[p] \in Nat
    BY DEF Lists, Linked, Address
  <2> QED BY <1>0, <2>2, <2>7, <2>8
<1> HIDE DEF Good
<1>3. Nat \subseteq Good
  BY <1>1, <1>2, SetInduction
<1>4. pos[e] - j \in Good /\ pos[e] - j <= pos[e] /\ pos[e] - (pos[e] - j) = j
  <2>1. pos[e] - j \in Nat
    BY <1>0
  <2> QED BY <1>0, <1>3, <2>1
<1> QED BY <1>4 DEF Good

\* A list is not longer than there are nodes.
LEMMA Short ==
  ASSUME NEW nxt, NEW A, NEW own, NEW pos, Lists(nxt, A, own, pos), NEW e \in Linked(A)
  PROVE  pos[e] \in Nat /\ Cardinality(Node) \in Nat /\ pos[e] <= Cardinality(Node)
<1> DEFINE S == {x \in A : own[x] = own[e] /\ pos[x] \in 1 .. pos[e]}
           T == 1 .. pos[e]
           f == [x \in S |-> pos[x]]
<1>1. pos[e] \in Nat
  BY DEF Lists, Linked, Address
<1>2. IsFiniteSet(Node) /\ S \in SUBSET Node
  BY HashMapAssumption DEF Lists
<1>3. IsFiniteSet(S) /\ Cardinality(S) <= Cardinality(Node)
  BY <1>2, FS_Subset
<1>4. f \in Surjection(S, T)
  <2>1. ASSUME NEW t \in T PROVE \E s \in S : f[s] = t
    <3>1. PICK x \in Linked(A) : own[x] = own[e] /\ pos[x] = t
      BY <1>1, Gapless
    <3>2. x \in A
      BY <3>1 DEF Lists, Linked
    <3> QED BY <3>1, <3>2
  <2>2. f \in [S -> T]
    OBVIOUS
  <2> QED BY <2>1, <2>2 DEF Surjection
<1> HIDE DEF f, S, T
<1>5. Cardinality(T) <= Cardinality(S)
  BY <1>3, <1>4, FS_Surjection
<1>6. Cardinality(T) = pos[e]
  BY <1>1, FS_Interval DEF T
<1>7. Cardinality(S) \in Nat /\ Cardinality(Node) \in Nat
  BY <1>2, <1>3, FS_CardinalityType
<1> QED BY <1>1, <1>3, <1>5, <1>6, <1>7

\* A new node behind the end of a list is in the list.
LEMMA AppendNode ==
  ASSUME NEW nxt, NEW A, NEW own, NEW pos, Lists(nxt, A, own, pos),
         NEW l \in Linked(A), nxt[l] = NULL, NEW n \in Node, n \notin A
  PROVE  Lists([nxt EXCEPT ![l] = n, ![n] = NULL], A \cup {n},
               [own EXCEPT ![n] = own[l]], [pos EXCEPT ![n] = pos[l] + 1])
<1> DEFINE nxt2 == [nxt EXCEPT ![l] = n, ![n] = NULL]
           A2 == A \cup {n}
           own2 == [own EXCEPT ![n] = own[l]]
           pos2 == [pos EXCEPT ![n] = pos[l] + 1]
<1>1. /\ n \in Address /\ n \notin Bucket /\ n \notin Linked(A) /\ n # l /\ l \in Address
      /\ NULL \notin Node /\ own[l] \in Bucket /\ pos[l] \in Nat
      /\ Linked(A) \subseteq Address
  BY HashMapAssumption DEF Lists, Linked, Address, Bucket
<1>2. \A x \in Linked(A2) : x = n \/ x \in Linked(A)
  BY DEF Linked
<1>3. /\ nxt2[n] = NULL /\ nxt2[l] = n /\ own2[n] = own[l] /\ pos2[n] = pos[l] + 1
      /\ \A x \in Linked(A) : own2[x] = own[x] /\ pos2[x] = pos[x] /\ (x # l => nxt2[x] = nxt[x])
  BY <1>1 DEF Lists
<1>4. /\ nxt2 \in [Address -> Node \cup {NULL}] /\ A2 \subseteq Node
      /\ own2 \in [Address -> Bucket] /\ pos2 \in [Address -> Nat]
  BY <1>1 DEF Lists
<1>5. Linked(A) \subseteq Linked(A2) /\ n \in Linked(A2) /\ Bucket \subseteq Linked(A) /\ A \subseteq Linked(A)
  BY DEF Linked
<1> HIDE DEF nxt2, own2, pos2
<1>6. \A b \in Bucket : own2[b] = b /\ pos2[b] = 0
  BY <1>3, <1>5 DEF Lists
<1>7. ASSUME NEW e \in A2 PROVE pos2[e] # 0 /\ \E p \in Linked(A2) : nxt2[p] = e
  <2>1. CASE e = n
    <3>1. pos2[n] # 0
      BY <1>1, <1>3
    <3>2. l \in Linked(A2) /\ nxt2[l] = n
      BY <1>3, <1>5
    <3> QED BY <2>1, <3>1, <3>2
  <2>2. CASE e # n
    <3>1. e \in A /\ e \in Linked(A)
      BY <1>5, <2>2
    <3>2. PICK p \in Linked(A) : nxt[p] = e
      BY <3>1 DEF Lists
    <3>3. p # l
      BY <1>1, <3>1, <3>2 DEF Lists
    <3> QED BY <1>3, <1>5, <3>1, <3>2, <3>3 DEF Lists
  <2> QED BY <2>1, <2>2
<1>8. ASSUME NEW e \in Linked(A2), nxt2[e] # NULL
      PROVE  nxt2[e] \in A2 /\ own2[nxt2[e]] = own2[e] /\ pos2[nxt2[e]] = pos2[e] + 1
  <2>1. e # n /\ e \in Linked(A)
    BY <1>2, <1>3, <1>8
  <2>2. CASE e = l
    BY <1>3, <2>1, <2>2
  <2>3. CASE e # l
    <3>1. nxt2[e] = nxt[e]
      BY <1>3, <2>1, <2>3
    <3>2. nxt[e] \in A /\ own[nxt[e]] = own[e] /\ pos[nxt[e]] = pos[e] + 1
      BY <1>8, <2>1, <3>1 DEF Lists
    <3> QED BY <1>3, <1>5, <2>1, <3>1, <3>2
  <2> QED BY <2>2, <2>3
<1>9. ASSUME NEW e \in Linked(A), own[e] = own[l], pos[e] = pos[l] + 1 PROVE FALSE
  <2>1. pos[e] # 0
    BY <1>1, <1>9
  <2>2. e \in A
    BY <2>1 DEF Lists, Linked
  <2>3. PICK p \in Linked(A) : nxt[p] = e
    BY <2>2 DEF Lists
  <2>4. e # NULL
    BY <1>1, <2>2 DEF Lists
  <2>5. own[e] = own[p] /\ pos[e] = pos[p] + 1 /\ pos[p] \in Nat
    BY <1>1, <2>3, <2>4 DEF Lists
  <2>6. pos[p] = pos[l]
    BY <1>1, <1>9, <2>5
  <2>7. p = l
    BY <1>9, <2>5, <2>6 DEF Lists
  <2> QED BY <2>3, <2>4, <2>7
<1>10. ASSUME NEW e \in Linked(A2), NEW f \in Linked(A2), own2[e] = own2[f], pos2[e] = pos2[f]
       PROVE  e = f
  <2>1. CASE e = n /\ f # n
    BY <1>2, <1>3, <1>9, <1>10, <2>1
  <2>2. CASE e # n /\ f = n
    BY <1>2, <1>3, <1>9, <1>10, <2>2
  <2>3. CASE e # n /\ f # n
    <3>1. e \in Linked(A) /\ f \in Linked(A)
      BY <1>2, <2>3
    <3>2. own[e] = own[f] /\ pos[e] = pos[f]
      BY <1>3, <1>10, <3>1
    <3> QED BY <3>1, <3>2 DEF Lists
  <2> QED BY <2>1, <2>2, <2>3
<1>11. ASSUME NEW b \in Bucket PROVE \E e \in Linked(A2) : own2[e] = b /\ nxt2[e] = NULL
  <2>1. CASE b = own[l]
    BY <1>3, <1>5, <2>1
  <2>2. CASE b # own[l]
    <3>1. PICK e \in Linked(A) : own[e] = b /\ nxt[e] = NULL
      BY DEF Lists
    <3> QED BY <1>3, <1>5, <2>2, <3>1
  <2> QED BY <2>1, <2>2
<1> QED BY <1>4, <1>6, <1>7, <1>8, <1>10, <1>11 DEF Lists, nxt2, own2, pos2

\* A node taken out of a list leaves a list.
LEMMA CutNode ==
  ASSUME NEW nxt, NEW A, NEW own, NEW pos, Lists(nxt, A, own, pos),
         NEW e \in A, NEW p \in Linked(A), nxt[p] = e,
         NEW nxt2, nxt2 = [nxt EXCEPT ![p] = nxt[e], ![e] = NULL]
  PROVE  \E pos2 : Lists(nxt2, A \ {e}, own, pos2)
<1> DEFINE A2 == A \ {e}
           pos2 == [x \in Address |->
                      IF own[x] = own[e] /\ pos[x] > pos[e] THEN pos[x] - 1 ELSE pos[x]]
<1>1. /\ e \in Node /\ e \in Address /\ e \notin Bucket /\ e \in Linked(A) /\ p \in Address
      /\ NULL \notin Node /\ Linked(A) \subseteq Address /\ nxt[e] \in Node \cup {NULL}
      /\ \A x \in Linked(A) : own[x] \in Bucket /\ pos[x] \in Nat
  BY HashMapAssumption DEF Lists, Linked, Address, Bucket
<1>2. own[e] = own[p] /\ pos[e] = pos[p] + 1 /\ p # e
  BY <1>1 DEF Lists
<1>3. /\ Linked(A2) = Linked(A) \ {e} /\ p \in Linked(A2) /\ Bucket \subseteq Linked(A2)
      /\ Bucket \subseteq Linked(A) /\ A \subseteq Linked(A)
  BY <1>1, <1>2 DEF Linked
<1>4. /\ nxt2[p] = nxt[e] /\ \A x \in Linked(A2) : x # p => nxt2[x] = nxt[x]
      /\ \A x \in Linked(A) : pos2[x] = IF own[x] = own[e] /\ pos[x] > pos[e] THEN pos[x] - 1 ELSE pos[x]
  <2>0. nxt \in [Address -> Node \cup {NULL}]
    BY DEF Lists
  <2>1. nxt2[p] = nxt[e] /\ \A x \in Linked(A2) : x # p => nxt2[x] = nxt[x]
    BY <1>1, <1>2, <1>3, <2>0
  <2>2. \A x \in Linked(A) : x \in Address
    BY <1>1
  <2> QED BY <2>1, <2>2
<1>5. nxt2 \in [Address -> Node \cup {NULL}] /\ A2 \subseteq Node /\ own \in [Address -> Bucket]
  BY <1>1 DEF Lists
<1>6. pos2 \in [Address -> Nat]
  <2>1. \A x \in Address : own[x] \in Bucket /\ pos[x] \in Nat
    BY DEF Lists
  <2> QED BY <1>1, <2>1
<1> HIDE DEF pos2, A2
<1>7. \A b \in Bucket : own[b] = b /\ pos2[b] = 0
  <2>1. \A b \in Bucket : own[b] = b /\ pos[b] = 0
    BY DEF Lists
  <2> QED BY <1>1, <1>3, <1>4, <2>1
<1>8. \A q \in Linked(A) : nxt[q] = e => q = p
  <2>1. \A q \in Linked(A) : nxt[q] = e => own[e] = own[q] /\ pos[e] = pos[q] + 1
    BY <1>1 DEF Lists
  <2>2. \A q \in Linked(A) : nxt[q] = e => own[p] = own[q] /\ pos[p] = pos[q]
    BY <1>1, <1>2, <2>1
  <2> QED BY <2>2 DEF Lists
<1>9. ASSUME NEW x \in A2 PROVE pos2[x] # 0 /\ \E q \in Linked(A2) : nxt2[q] = x
  <2>1. x \in A /\ x # e /\ x \in Linked(A)
    BY <1>3 DEF A2
  <2>2. pos[x] # 0 /\ \E q \in Linked(A) : nxt[q] = x
    BY <2>1 DEF Lists
  <2>3. pos2[x] # 0
    BY <1>1, <1>2, <1>4, <2>1, <2>2
  <2>4. PICK q \in Linked(A) : nxt[q] = x
    BY <2>2
  <2>5. CASE q = e
    BY <1>3, <1>4, <2>3, <2>4, <2>5
  <2>6. CASE q # e
    BY <1>3, <1>4, <2>1, <2>3, <2>4, <2>6
  <2> QED BY <2>5, <2>6
<1>10. ASSUME NEW x \in Linked(A2), nxt2[x] # NULL
       PROVE  nxt2[x] \in A2 /\ own[nxt2[x]] = own[x] /\ pos2[nxt2[x]] = pos2[x] + 1
  <2>1. CASE x = p
    <3> DEFINE y == nxt[e]
    <3>1. y = nxt2[x] /\ y # NULL
      BY <1>4, <1>10, <2>1
    <3>2. y \in A /\ own[y] = own[e] /\ pos[y] = pos[e] + 1
      BY <1>1, <3>1 DEF Lists
    <3> HIDE DEF y
    <3>3. y \in A2 /\ y \in Linked(A)
      BY <1>1, <1>3, <3>2 DEF A2
    <3>4. pos2[y] = pos[e] /\ pos2[p] = pos[p]
      BY <1>1, <1>2, <1>4, <3>2, <3>3
    <3> QED BY <1>2, <2>1, <3>1, <3>2, <3>3, <3>4
  <2>2. CASE x # p
    <3> DEFINE y == nxt[x]
    <3>1. y = nxt2[x] /\ y # NULL /\ x \in Linked(A) /\ x # e
      BY <1>3, <1>4, <1>10, <2>2
    <3>2. y \in A /\ own[y] = own[x] /\ pos[y] = pos[x] + 1 /\ y # e
      BY <1>8, <2>2, <3>1 DEF Lists
    <3>3. own[x] = own[e] => pos[x] # pos[e]
      BY <1>1, <3>1 DEF Lists
    <3> HIDE DEF y
    <3>4. y \in A2 /\ y \in Linked(A)
      BY <1>3, <3>2 DEF A2
    <3>5. pos[x] \in Nat /\ pos[e] \in Nat
      BY <1>1, <3>1
    <3>6. pos2[y] = pos2[x] + 1
      <4>1. pos2[y] = IF own[y] = own[e] /\ pos[y] > pos[e] THEN pos[y] - 1 ELSE pos[y]
        BY <1>4, <3>4
      <4>2. pos2[x] = IF own[x] = own[e] /\ pos[x] > pos[e] THEN pos[x] - 1 ELSE pos[x]
        BY <1>4, <3>1
      <4> QED BY <3>2, <3>3, <3>5, <4>1, <4>2
    <3> QED BY <3>1, <3>2, <3>4, <3>6
  <2> QED BY <2>1, <2>2
<1>11. ASSUME NEW x \in Linked(A2), NEW y \in Linked(A2), own[x] = own[y], pos2[x] = pos2[y]
       PROVE  x = y
  <2>1. x \in Linked(A) /\ y \in Linked(A) /\ x # e /\ y # e
    BY <1>3
  <2>2. pos[x] \in Nat /\ pos[y] \in Nat /\ pos[e] \in Nat
    BY <1>1, <2>1
  <2>3. own[x] = own[e] => pos[x] # pos[e] /\ pos[y] # pos[e]
    BY <1>1, <1>11, <2>1 DEF Lists
  <2>4. pos2[x] = IF own[x] = own[e] /\ pos[x] > pos[e] THEN pos[x] - 1 ELSE pos[x]
    BY <1>4, <2>1
  <2>5. pos2[y] = IF own[y] = own[e] /\ pos[y] > pos[e] THEN pos[y] - 1 ELSE pos[y]
    BY <1>4, <2>1
  <2>6. pos[x] = pos[y]
    <3>1. CASE own[x] = own[e]
      <4>1. pos2[x] = IF pos[x] > pos[e] THEN pos[x] - 1 ELSE pos[x]
        BY <2>4, <3>1
      <4>2. pos2[y] = IF pos[y] > pos[e] THEN pos[y] - 1 ELSE pos[y]
        BY <1>11, <2>5, <3>1
      <4>3. pos[x] # pos[e] /\ pos[y] # pos[e]
        BY <2>3, <3>1
      <4>4. pos2[x] = pos2[y]
        BY <1>11
      <4> QED BY <2>2, <4>1, <4>2, <4>3, <4>4
    <3>2. CASE own[x] # own[e]
      BY <1>11, <2>4, <2>5, <3>2
    <3> QED BY <3>1, <3>2
  <2> QED BY <1>11, <2>1, <2>6 DEF Lists
<1>12. ASSUME NEW b \in Bucket PROVE \E x \in Linked(A2) : own[x] = b /\ nxt2[x] = NULL
  <2>1. PICK x \in Linked(A) : own[x] = b /\ nxt[x] = NULL
    BY DEF Lists
  <2>2. CASE x = e
    BY <1>2, <1>3, <1>4, <2>1, <2>2
  <2>3. CASE x # e
    BY <1>1, <1>3, <1>4, <2>1, <2>3
  <2> QED BY <2>2, <2>3
<1>13. Lists(nxt2, A2, own, pos2)
  BY <1>5, <1>6, <1>7, <1>9, <1>10, <1>11, <1>12 DEF Lists
<1> QED BY <1>13 DEF A2

\* A list with one entry has no other.
LEMMA OnlyHead ==
  ASSUME NEW nxt, NEW A, NEW own, NEW pos, Lists(nxt, A, own, pos),
         NEW b \in Bucket, nxt[b] = NULL, NEW e \in Linked(A), own[e] = b
  PROVE  e = b
<1>1. pos[e] \in Nat /\ b \in Linked(A) /\ own[b] = b /\ pos[b] = 0
  BY DEF Lists, Linked, Address
<1>2. CASE pos[e] = 0
  BY <1>1, <1>2 DEF Lists
<1>3. CASE pos[e] # 0
  <2>1. PICK f \in Linked(A) : own[f] = b /\ pos[f] = 1
    <3>1. 1 \in Nat /\ 1 <= pos[e]
      BY <1>1, <1>3
    <3> QED BY <3>1, Gapless
  <2>2. f \in A
    BY <2>1 DEF Lists, Linked
  <2>3. PICK p \in Linked(A) : nxt[p] = f
    BY <2>2 DEF Lists
  <2>4. f # NULL
    BY <2>2, HashMapAssumption DEF Lists
  <2>5. own[p] = b /\ pos[p] + 1 = 1 /\ pos[p] \in Nat
    BY <2>1, <2>3, <2>4 DEF Lists, Linked, Address
  <2>6. pos[p] = 0
    BY <2>5
  <2>7. p = b
    BY <1>1, <2>5, <2>6 DEF Lists
  <2> QED BY <2>3, <2>4, <2>7
<1> QED BY <1>2, <1>3

---------------------------------------------------------------------------
(* What the entries hold.                                                  *)

\* A list holds the keys of its bucket, none of them twice, and has a head
\* without a key only when there is nothing behind it.
Content(nxt, key, value, A, own) ==
  /\ key \in [Address -> Key \cup {NULL}] /\ value \in [Address -> Value \cup {NULL}]
  /\ \A e \in A : key[e] # NULL
  /\ \A b \in Bucket : key[b] = NULL => nxt[b] = NULL
  /\ \A e \in Linked(A) : key[e] # NULL => own[e] = Head(key[e]) /\ value[e] # NULL
  /\ \A e, f \in Linked(A) : key[e] # NULL /\ key[e] = key[f] => e = f

Shape(nxt, key, value, A, own, pos) == Lists(nxt, A, own, pos) /\ Content(nxt, key, value, A, own)

\* k is stored with v.
Stores(key, value, A, k, v) == \E e \in Linked(A) : key[e] = k /\ value[e] = v

\* The table is changed by storing v for k, or by removing k.
Puts(key, value, A, key2, value2, A2, k, v) ==
  \A j \in Key, w \in Value :
    Stores(key2, value2, A2, j, w) <=> IF j = k THEN w = v ELSE Stores(key, value, A, j, w)
Takes(key, value, A, key2, value2, A2, k) ==
  \A j \in Key, w \in Value :
    Stores(key2, value2, A2, j, w) <=> j # k /\ Stores(key, value, A, j, w)

\* What the assumptions say of a key and its bucket.
LEMMA KeyFacts ==
  ASSUME NEW k \in Key
  PROVE  Head(k) \in Bucket /\ k # NULL
<1>1. hash_fn[k] \in Nat /\ num_entries \in Nat \ {0} /\ k # NULL
  BY HashMapAssumption
<1> QED BY <1>1 DEF Head, Bucket

\* Storing in the head of an empty bucket.
LEMMA PutInHead ==
  ASSUME NEW nxt, NEW key, NEW value, NEW A, NEW own, NEW pos,
         Shape(nxt, key, value, A, own, pos),
         NEW k \in Key, NEW v \in Value, NEW key2, NEW value2, key[Head(k)] = NULL,
         key2 = [key EXCEPT ![Head(k)] = k], value2 = [value EXCEPT ![Head(k)] = v]
  PROVE  /\ Shape(nxt, key2, value2, A, own, pos)
         /\ Puts(key, value, A, key2, value2, A, k, v)
<1> DEFINE b == Head(k)
<1>1. b \in Bucket /\ k # NULL /\ v # NULL /\ b \in Linked(A) /\ b \in Address
  BY KeyFacts, HashMapAssumption DEF Linked, Address
<1>2. Lists(nxt, A, own, pos) /\ Content(nxt, key, value, A, own) /\ A \subseteq Node /\ own[b] = b
  BY <1>1 DEF Shape, Lists
<1>3. Linked(A) \subseteq Address
  BY <1>2 DEF Linked, Address
<1>4. key \in [Address -> Key \cup {NULL}] /\ value \in [Address -> Value \cup {NULL}]
  BY <1>2 DEF Content
<1> HIDE DEF b
<1>5. /\ key2[b] = k /\ value2[b] = v
      /\ \A x \in Linked(A) : x # b => key2[x] = key[x] /\ value2[x] = value[x]
      /\ key2 \in [Address -> Key \cup {NULL}] /\ value2 \in [Address -> Value \cup {NULL}]
  BY <1>1, <1>3, <1>4 DEF b
<1>6. nxt[b] = NULL
  BY <1>1, <1>2 DEF Content, b
<1>7. \A e \in Linked(A) : key[e] = k => FALSE
  <2>1. ASSUME NEW e \in Linked(A), key[e] = k PROVE FALSE
    <3>1. own[e] = b
      BY <1>1, <1>2, <2>1 DEF Content, b
    <3>2. e = b
      BY <1>1, <1>2, <1>6, <3>1, OnlyHead
    <3> QED BY <1>1, <2>1, <3>2 DEF b
  <2> QED BY <2>1
<1>8. Content(nxt, key2, value2, A, own)
  <2>1. A \subseteq Linked(A) /\ Bucket \subseteq Linked(A)
    BY DEF Linked
  <2>2. \A e \in A : key2[e] # NULL
    BY <1>1, <1>2, <1>5, <2>1 DEF Content
  <2>3. \A a \in Bucket : key2[a] = NULL => nxt[a] = NULL
    BY <1>2, <1>5, <1>6, <2>1 DEF Content
  <2>4. \A e \in Linked(A) : key2[e] # NULL => own[e] = Head(key2[e]) /\ value2[e] # NULL
    BY <1>1, <1>2, <1>5 DEF Content, b
  <2>5. \A e, f \in Linked(A) : key2[e] # NULL /\ key2[e] = key2[f] => e = f
    BY <1>2, <1>5, <1>7 DEF Content
  <2> QED BY <1>5, <2>2, <2>3, <2>4, <2>5 DEF Content
<1>9. key[b] = NULL
  BY DEF b
<1>10. ASSUME NEW j \in Key, NEW w \in Value
       PROVE  Stores(key2, value2, A, j, w) <=> IF j = k THEN w = v ELSE Stores(key, value, A, j, w)
  <2>1. j # NULL
    BY HashMapAssumption
  <2> QED BY <1>1, <1>5, <1>7, <1>9, <2>1 DEF Stores
<1> QED BY <1>2, <1>8, <1>10 DEF Shape, Puts

\* Storing in a new node.
LEMMA PutBehind ==
  ASSUME NEW nxt, NEW key, NEW value, NEW A, NEW own, NEW pos,
         Shape(nxt, key, value, A, own, pos),
         NEW k \in Key, NEW v \in Value, key[Head(k)] # NULL,
         \A e \in Linked(A) : key[e] # k,
         NEW l \in Linked(A), own[l] = Head(k), nxt[l] = NULL, NEW n \in Node, n \notin A,
         NEW nxt2, NEW key2, NEW value2, nxt2 = [nxt EXCEPT ![l] = n, ![n] = NULL],
         key2 = [key EXCEPT ![n] = k], value2 = [value EXCEPT ![n] = v]
  PROVE  /\ \E own2, pos2 : Shape(nxt2, key2, value2, A \cup {n}, own2, pos2)
         /\ Puts(key, value, A, key2, value2, A \cup {n}, k, v)
<1> DEFINE A2 == A \cup {n}
           own2 == [own EXCEPT ![n] = own[l]]
           pos2 == [pos EXCEPT ![n] = pos[l] + 1]
<1>1. Head(k) \in Bucket /\ k # NULL /\ v # NULL /\ n \in Address /\ n \notin Bucket
  BY KeyFacts, HashMapAssumption DEF Address, Bucket
<1>2. Lists(nxt, A, own, pos) /\ Content(nxt, key, value, A, own) /\ A \subseteq Node
  BY DEF Shape, Lists
<1>3. Lists(nxt2, A2, own2, pos2)
  BY <1>2, AppendNode
<1>4. Linked(A) \subseteq Address /\ n \notin Linked(A) /\ Linked(A2) = Linked(A) \cup {n}
  BY <1>1, <1>2 DEF Linked, Address
<1>5. /\ key \in [Address -> Key \cup {NULL}] /\ value \in [Address -> Value \cup {NULL}]
      /\ own \in [Address -> Bucket]
  BY <1>2 DEF Content, Lists
<1>6. /\ key2[n] = k /\ value2[n] = v /\ own2[n] = Head(k)
      /\ \A x \in Linked(A) : key2[x] = key[x] /\ value2[x] = value[x] /\ own2[x] = own[x]
      /\ key2 \in [Address -> Key \cup {NULL}] /\ value2 \in [Address -> Value \cup {NULL}]
  BY <1>1, <1>4, <1>5
<1>7. \A b \in Bucket : nxt2[b] = IF b = l THEN n ELSE nxt[b]
  <2>1. \A b \in Bucket : b \in Address /\ b # n
    BY <1>1 DEF Address
  <2>2. nxt \in [Address -> Node \cup {NULL}]
    BY <1>2 DEF Lists
  <2> QED BY <2>1, <2>2
<1>8. Bucket \subseteq Linked(A) /\ A \subseteq Linked(A)
  BY DEF Linked
<1>9. \A b \in Bucket : own[b] = b
  BY <1>2 DEF Lists
<1> HIDE DEF own2, pos2, A2
<1>10. Content(nxt2, key2, value2, A2, own2)
  <2>1. \A e \in A2 : key2[e] # NULL
    BY <1>1, <1>2, <1>6, <1>8 DEF Content, A2
  <2>2. ASSUME NEW b \in Bucket, key2[b] = NULL PROVE nxt2[b] = NULL
    <3>1. b \in Linked(A) /\ key[b] = NULL
      BY <1>6, <1>8, <2>2
    <3>2. nxt[b] = NULL
      BY <1>2, <3>1 DEF Content
    <3>3. b # l
      BY <1>9, <3>1
    <3> QED BY <1>7, <3>2, <3>3
  <2>3. \A e \in Linked(A2) : key2[e] # NULL => own2[e] = Head(key2[e]) /\ value2[e] # NULL
    BY <1>1, <1>2, <1>4, <1>6 DEF Content
  <2>4. \A e, f \in Linked(A2) : key2[e] # NULL /\ key2[e] = key2[f] => e = f
    BY <1>2, <1>4, <1>6 DEF Content
  <2> QED BY <1>6, <2>1, <2>2, <2>3, <2>4 DEF Content
<1>11. ASSUME NEW j \in Key, NEW w \in Value
       PROVE  Stores(key2, value2, A2, j, w) <=> IF j = k THEN w = v ELSE Stores(key, value, A, j, w)
  BY <1>4, <1>6 DEF Stores
<1> QED BY <1>3, <1>10, <1>11 DEF Shape, Puts, A2

\* Replacing a value.
LEMMA Replace ==
  ASSUME NEW nxt, NEW key, NEW value, NEW A, NEW own, NEW pos,
         Shape(nxt, key, value, A, own, pos),
         NEW k \in Key, NEW v \in Value, NEW e \in Linked(A), key[e] = k,
         NEW value2, value2 = [value EXCEPT ![e] = v]
  PROVE  /\ Shape(nxt, key, value2, A, own, pos)
         /\ Puts(key, value, A, key, value2, A, k, v)
<1>1. k # NULL /\ v # NULL
  BY HashMapAssumption
<1>2. Lists(nxt, A, own, pos) /\ Content(nxt, key, value, A, own) /\ A \subseteq Node
  BY DEF Shape, Lists
<1>3. Linked(A) \subseteq Address /\ value \in [Address -> Value \cup {NULL}]
  BY <1>2 DEF Linked, Address, Content
<1>4. /\ value2[e] = v /\ \A x \in Linked(A) : x # e => value2[x] = value[x]
      /\ value2 \in [Address -> Value \cup {NULL}]
  BY <1>3
<1>5. Content(nxt, key, value2, A, own)
  BY <1>1, <1>2, <1>4 DEF Content
<1>6. \A f \in Linked(A) : key[f] = k => f = e
  BY <1>1, <1>2 DEF Content
<1>7. ASSUME NEW j \in Key, NEW w \in Value
       PROVE  Stores(key, value2, A, j, w) <=> IF j = k THEN w = v ELSE Stores(key, value, A, j, w)
  BY <1>4, <1>6 DEF Stores
<1> QED BY <1>2, <1>5, <1>7 DEF Shape, Puts

\* Taking the key of a head without a successor.
LEMMA TakeLast ==
  ASSUME NEW nxt, NEW key, NEW value, NEW A, NEW own, NEW pos,
         Shape(nxt, key, value, A, own, pos),
         NEW k \in Key, key[Head(k)] = k, nxt[Head(k)] = NULL,
         NEW key2, NEW value2,
         key2 = [key EXCEPT ![Head(k)] = NULL], value2 = [value EXCEPT ![Head(k)] = NULL]
  PROVE  Shape(nxt, key2, value2, A, own, pos) /\ Takes(key, value, A, key2, value2, A, k)
<1> DEFINE b == Head(k)
<1>1. b \in Bucket /\ k # NULL /\ b \in Linked(A) /\ b \in Address /\ key[b] = k /\ nxt[b] = NULL
  BY KeyFacts DEF Linked, Address
<1>2. /\ Lists(nxt, A, own, pos) /\ Content(nxt, key, value, A, own) /\ A \subseteq Node
      /\ b \notin A
  <2>1. Lists(nxt, A, own, pos) /\ Content(nxt, key, value, A, own) /\ A \subseteq Node
    BY DEF Shape, Lists
  <2> QED BY <1>1, <2>1, HashMapAssumption DEF Bucket
<1>3. Linked(A) \subseteq Address /\ A \subseteq Linked(A) /\ Bucket \subseteq Linked(A)
  BY <1>2 DEF Linked, Address
<1>4. key \in [Address -> Key \cup {NULL}] /\ value \in [Address -> Value \cup {NULL}]
  BY <1>2 DEF Content
<1> HIDE DEF b
<1>5. /\ key2[b] = NULL /\ value2[b] = NULL
      /\ \A x \in Linked(A) : x # b => key2[x] = key[x] /\ value2[x] = value[x]
      /\ key2 \in [Address -> Key \cup {NULL}] /\ value2 \in [Address -> Value \cup {NULL}]
  BY <1>1, <1>3, <1>4 DEF b
<1>6. Content(nxt, key2, value2, A, own)
  <2>1. \A e \in A : key2[e] # NULL
    BY <1>2, <1>3, <1>5 DEF Content
  <2>2. \A a \in Bucket : key2[a] = NULL => nxt[a] = NULL
    BY <1>1, <1>2, <1>3, <1>5 DEF Content
  <2>3. \A e \in Linked(A) : key2[e] # NULL => own[e] = Head(key2[e]) /\ value2[e] # NULL
    BY <1>2, <1>5 DEF Content
  <2>4. \A e, f \in Linked(A) : key2[e] # NULL /\ key2[e] = key2[f] => e = f
    BY <1>2, <1>5 DEF Content
  <2> QED BY <1>5, <2>1, <2>2, <2>3, <2>4 DEF Content
<1>7. \A e \in Linked(A) : key[e] = k => e = b
  BY <1>1, <1>2 DEF Content
<1>8. ASSUME NEW j \in Key, NEW w \in Value
      PROVE  Stores(key2, value2, A, j, w) <=> j # k /\ Stores(key, value, A, j, w)
  <2>1. j # NULL
    BY HashMapAssumption
  <2> QED BY <1>1, <1>5, <1>7, <2>1 DEF Stores
<1> QED BY <1>2, <1>6, <1>8 DEF Shape, Takes

\* Taking a node out of its list.
LEMMA TakeBehind ==
  ASSUME NEW nxt, NEW key, NEW value, NEW A, NEW own, NEW pos,
         Shape(nxt, key, value, A, own, pos),
         NEW k \in Key, NEW e \in A, key[e] = k, NEW p \in Linked(A), nxt[p] = e,
         NEW nxt2, NEW key2, NEW value2,
         nxt2 = [nxt EXCEPT ![p] = nxt[e], ![e] = NULL],
         key2 = [key EXCEPT ![e] = NULL], value2 = [value EXCEPT ![e] = NULL]
  PROVE  /\ \E own2, pos2 : Shape(nxt2, key2, value2, A \ {e}, own2, pos2)
         /\ Takes(key, value, A, key2, value2, A \ {e}, k)
<1> DEFINE A2 == A \ {e}
<1>1. Lists(nxt, A, own, pos) /\ Content(nxt, key, value, A, own) /\ A \subseteq Node
  BY DEF Shape, Lists
<1>2. PICK pos2 : Lists(nxt2, A2, own, pos2)
  BY <1>1, CutNode
<1>3. /\ e \notin Bucket /\ Linked(A2) = Linked(A) \ {e} /\ Linked(A) \subseteq Address
      /\ A \subseteq Linked(A) /\ Bucket \subseteq Linked(A) /\ e \in Address /\ p \in Address
  BY <1>1, HashMapAssumption DEF Linked, Address, Bucket
<1>4. /\ key \in [Address -> Key \cup {NULL}] /\ value \in [Address -> Value \cup {NULL}]
      /\ nxt \in [Address -> Node \cup {NULL}]
  BY <1>1 DEF Content, Lists
<1>5. /\ \A x \in Linked(A2) : key2[x] = key[x] /\ value2[x] = value[x]
      /\ key2 \in [Address -> Key \cup {NULL}] /\ value2 \in [Address -> Value \cup {NULL}]
  BY <1>3, <1>4
<1>6. \A b \in Bucket : b # p => nxt2[b] = nxt[b]
  BY <1>3, <1>4 DEF Address
<1>7. e # NULL
  BY <1>1, HashMapAssumption
<1> HIDE DEF A2
<1>8. Content(nxt2, key2, value2, A2, own)
  <2>1. \A x \in A2 : key2[x] # NULL
    BY <1>1, <1>3, <1>5 DEF Content, A2
  <2>2. ASSUME NEW b \in Bucket, key2[b] = NULL PROVE nxt2[b] = NULL
    <3>1. b \in Linked(A2) /\ key[b] = NULL
      BY <1>3, <1>5, <2>2
    <3>2. nxt[b] = NULL
      BY <1>1, <3>1 DEF Content
    <3>3. b # p
      BY <1>7, <3>2
    <3> QED BY <1>6, <3>2, <3>3
  <2>3. \A x \in Linked(A2) : key2[x] # NULL => own[x] = Head(key2[x]) /\ value2[x] # NULL
    BY <1>1, <1>3, <1>5 DEF Content
  <2>4. \A x, y \in Linked(A2) : key2[x] # NULL /\ key2[x] = key2[y] => x = y
    BY <1>1, <1>3, <1>5 DEF Content
  <2> QED BY <1>5, <2>1, <2>2, <2>3, <2>4 DEF Content
<1>9. k # NULL /\ \A x \in Linked(A) : key[x] = k => x = e
  <2>1. k # NULL
    BY HashMapAssumption
  <2> QED BY <1>1, <1>3, <2>1 DEF Content
<1>10. ASSUME NEW j \in Key, NEW w \in Value
       PROVE  Stores(key2, value2, A2, j, w) <=> j # k /\ Stores(key, value, A, j, w)
  BY <1>3, <1>5, <1>9 DEF Stores
<1> QED BY <1>2, <1>8, <1>10 DEF Shape, Takes, A2

\* A field of the entries when the one of t has moved to b.
Moved(f, b, t) == [f EXCEPT ![b] = f[t], ![t] = NULL]

\* Taking the key of a head, into which its successor then moves.
LEMMA TakeHead ==
  ASSUME NEW nxt, NEW key, NEW value, NEW A, NEW own, NEW pos,
         Shape(nxt, key, value, A, own, pos),
         NEW k \in Key, key[Head(k)] = k, NEW t, t = nxt[Head(k)], t # NULL,
         NEW nxt2, NEW key2, NEW value2,
         nxt2 = Moved(nxt, Head(k), t),
         key2 = Moved(key, Head(k), t), value2 = Moved(value, Head(k), t)
  PROVE  /\ t \in A /\ \E own2, pos2 : Shape(nxt2, key2, value2, A \ {t}, own2, pos2)
         /\ Takes(key, value, A, key2, value2, A \ {t}, k)
<1> DEFINE b == Head(k)
           A2 == A \ {t}
<1>0. b \in Bucket /\ k # NULL /\ b \in Linked(A) /\ key[b] = k /\ nxt[b] = t /\ b \in Address
  BY KeyFacts DEF Linked, Address
<1>1. Lists(nxt, A, own, pos) /\ Content(nxt, key, value, A, own) /\ A \subseteq Node
  BY DEF Shape, Lists
<1>2. t \in A /\ own[t] = b
  BY <1>0, <1>1 DEF Lists
<1>3. PICK pos2 : Lists(nxt2, A2, own, pos2)
  BY <1>0, <1>1, <1>2, CutNode DEF Moved
<1> HIDE DEF b
<1>4. /\ t \notin Bucket /\ Linked(A2) = Linked(A) \ {t} /\ Linked(A) \subseteq Address
      /\ A \subseteq Linked(A) /\ Bucket \subseteq Linked(A) /\ t \in Address /\ t \in Linked(A)
      /\ b # t /\ b \in Linked(A2)
  BY <1>0, <1>1, <1>2, HashMapAssumption DEF Linked, Address, Bucket
<1>5. /\ key \in [Address -> Key \cup {NULL}] /\ value \in [Address -> Value \cup {NULL}]
      /\ nxt \in [Address -> Node \cup {NULL}]
  BY <1>1 DEF Content, Lists
<1>6. key2[b] = key[t] /\ value2[b] = value[t]
  BY <1>0, <1>4, <1>5 DEF b, Moved
<1>7. /\ \A x \in Linked(A2) : x # b => key2[x] = key[x] /\ value2[x] = value[x]
      /\ key2 \in [Address -> Key \cup {NULL}] /\ value2 \in [Address -> Value \cup {NULL}]
  BY <1>0, <1>4, <1>5 DEF b, Moved
<1>8. \A a \in Bucket : a # b => nxt2[a] = nxt[a]
  BY <1>4, <1>5 DEF Address, b, Moved
<1> HIDE DEF A2
<1>9. key[t] # NULL
  BY <1>1, <1>2 DEF Content
<1>10. Content(nxt2, key2, value2, A2, own)
  <2>1. \A x \in A2 : key2[x] # NULL
    BY <1>1, <1>4, <1>6, <1>7, <1>9 DEF Content, A2
  <2>2. ASSUME NEW a \in Bucket, key2[a] = NULL PROVE nxt2[a] = NULL
    <3>1. a # b
      BY <1>6, <1>9, <2>2
    <3>2. a \in Linked(A2) /\ key[a] = NULL
      BY <1>4, <1>7, <2>2, <3>1
    <3>3. nxt[a] = NULL
      BY <1>1, <3>2 DEF Content
    <3> QED BY <1>8, <3>1, <3>3
  <2>3. ASSUME NEW x \in Linked(A2), key2[x] # NULL
        PROVE  own[x] = Head(key2[x]) /\ value2[x] # NULL
    <3>1. CASE x = b
      <4>1. own[t] = Head(key[t]) /\ value[t] # NULL
        BY <1>1, <1>4, <1>9 DEF Content
      <4>2. own[b] = b
        BY <1>0, <1>1 DEF Lists
      <4> QED BY <1>2, <1>6, <3>1, <4>1, <4>2
    <3>2. CASE x # b
      BY <1>1, <1>4, <1>7, <2>3, <3>2 DEF Content
    <3> QED BY <3>1, <3>2
  <2>4. ASSUME NEW x \in Linked(A2), NEW y \in Linked(A2), key2[x] # NULL, key2[x] = key2[y]
        PROVE  x = y
    <3> DEFINE old(z) == IF z = b THEN t ELSE z
    <3>1. \A z \in Linked(A2) : old(z) \in Linked(A) /\ key2[z] = key[old(z)] /\ z # t
      BY <1>4, <1>6, <1>7
    <3>2. old(x) = old(y)
      <4> HIDE DEF old
      <4>1. old(x) \in Linked(A) /\ old(y) \in Linked(A)
        BY <3>1
      <4>2. key[old(x)] # NULL /\ key[old(x)] = key[old(y)]
        BY <2>4, <3>1
      <4> QED BY <1>1, <4>1, <4>2 DEF Content
    <3> QED BY <3>1, <3>2
  <2> QED BY <1>7, <2>1, <2>2, <2>3, <2>4 DEF Content
<1>11. \A x \in Linked(A) : key[x] = k => x = b
  BY <1>0, <1>1 DEF Content
<1>12. ASSUME NEW j \in Key, NEW w \in Value
       PROVE  Stores(key2, value2, A2, j, w) <=> j # k /\ Stores(key, value, A, j, w)
  <2>1. ASSUME Stores(key2, value2, A2, j, w) PROVE j # k /\ Stores(key, value, A, j, w)
    <3>1. PICK x \in Linked(A2) : key2[x] = j /\ value2[x] = w
      BY <2>1 DEF Stores
    <3>2. CASE x = b
      BY <1>4, <1>6, <1>11, <3>1, <3>2 DEF Stores
    <3>3. CASE x # b
      BY <1>4, <1>7, <1>11, <3>1, <3>3 DEF Stores
    <3> QED BY <3>2, <3>3
  <2>2. ASSUME j # k, Stores(key, value, A, j, w) PROVE Stores(key2, value2, A2, j, w)
    <3>1. PICK x \in Linked(A) : key[x] = j /\ value[x] = w
      BY <2>2 DEF Stores
    <3>2. CASE x = t
      BY <1>4, <1>6, <3>1, <3>2 DEF Stores
    <3>3. CASE x # t
      <4>1. x \in Linked(A2) /\ x # b
        BY <1>0, <1>4, <2>2, <3>1, <3>3
      <4> QED BY <1>7, <3>1, <4>1 DEF Stores
    <3> QED BY <3>2, <3>3
  <2> QED BY <2>1, <2>2
<1> QED BY <1>2, <1>3, <1>10, <1>12 DEF Shape, Takes, A2

---------------------------------------------------------------------------
(* The lists of a state.                                                   *)

Entry == [key : Key \cup {NULL}, value : Value \cup {NULL}, next : Node \cup {NULL}]
Typed == entry \in [Address -> Entry]

NextOf == [e \in Address |-> entry[e].next]
KeyOf == [e \in Address |-> entry[e].key]
ValueOf == [e \in Address |-> entry[e].value]

Chains(own, pos) == Shape(NextOf, KeyOf, ValueOf, allocated, own, pos)

\* g[n] are the entries up to n steps behind a.
Steps(a, m, g) ==
  g = [n \in 0 .. m |-> IF n = 0 THEN {a}
                        ELSE g[n - 1] \cup ({entry[e].next : e \in g[n - 1]} \ {NULL})]

\* There is such a function.
LEMMA StepsExist ==
  ASSUME NEW a, NEW n \in Nat
  PROVE  \E g : Steps(a, n, g)
<1> DEFINE Good == {m \in Nat : \E g : Steps(a, m, g)}
           Grown(s) == s \cup ({entry[e].next : e \in s} \ {NULL})
<1>1. 0 \in Good
  <2> DEFINE g == [m \in 0 .. 0 |-> {a}]
             h == [m \in 0 .. 0 |-> IF m = 0 THEN {a} ELSE Grown(g[m - 1])]
  <2>1. \A m \in 0 .. 0 : g[m] = h[m]
    <3> HIDE DEF Grown
    <3> QED OBVIOUS
  <2>2. g = h
    BY <2>1
  <2>3. Steps(a, 0, g)
    BY <2>2, Zenon DEF Steps
  <2> QED BY <2>3
<1>2. ASSUME NEW m \in Nat, m \in Good PROVE m + 1 \in Good
  <2>1. PICK f : Steps(a, m, f)
    BY <1>2
  <2> DEFINE g == [j \in 0 .. m + 1 |-> IF j <= m THEN f[j] ELSE Grown(f[m])]
             h == [j \in 0 .. m + 1 |-> IF j = 0 THEN {a} ELSE Grown(g[j - 1])]
  <2>2. \A j \in 0 .. m : f[j] = IF j = 0 THEN {a} ELSE Grown(f[j - 1])
    BY <2>1 DEF Steps
  <2> HIDE DEF Grown
  <2>3. ASSUME NEW j \in 0 .. m + 1 PROVE g[j] = h[j]
    <3>1. CASE j <= m
      <4>1. j \in 0 .. m /\ g[j] = f[j] /\ (j # 0 => g[j - 1] = f[j - 1])
        BY <3>1
      <4> QED BY <2>2, <4>1
    <3>2. CASE j = m + 1
      <4>1. g[j] = Grown(f[m]) /\ g[j - 1] = f[m] /\ j # 0
        BY <3>2
      <4> QED BY <4>1
    <3> QED BY <3>1, <3>2
  <2>4. g = h
    <3>1. \A j \in 0 .. m + 1 : g[j] = h[j]
      BY <2>3
    <3> QED BY <3>1, Zenon
  <2>5. Steps(a, m + 1, g)
    BY <2>4, Zenon DEF Steps, Grown
  <2> QED BY <2>5
<1> HIDE DEF Good
<1>3. Nat \subseteq Good
  BY <1>1, <1>2, SetInduction
<1> QED BY <1>3 DEF Good

\* From is its last value.
LEMMA FromIsStep ==
  ASSUME NEW a, Cardinality(Node) \in Nat
  PROVE  \E g : Steps(a, Cardinality(Node), g) /\ From(a) = g[Cardinality(Node)]
<1> DEFINE f == CHOOSE g : Steps(a, Cardinality(Node), g)
<1>1. Steps(a, Cardinality(Node), f)
  BY StepsExist
<1>2. From(a) = f[Cardinality(Node)]
  BY DEF From, Steps
<1> QED BY <1>1, <1>2

\* The entries of a list are those that belong to its bucket.
LEMMA FromFacts ==
  ASSUME NEW own, NEW pos, Lists(NextOf, allocated, own, pos), NEW b \in Bucket
  PROVE  From(b) = {x \in Linked(allocated) : own[x] = b}
<1> DEFINE N == Cardinality(Node)
           L == Linked(allocated)
           Near(n) == {x \in L : own[x] = b /\ pos[x] <= n}
<1>1. N \in Nat /\ \A x \in L : pos[x] \in Nat /\ pos[x] <= N
  <2>1. IsFiniteSet(Node)
    BY HashMapAssumption
  <2>2. N \in Nat
    BY <2>1, FS_CardinalityType
  <2>3. \A x \in L : pos[x] \in Nat /\ pos[x] <= N
    BY Short
  <2> QED BY <2>2, <2>3
<1> HIDE DEF N
<1>2. PICK g : Steps(b, N, g) /\ From(b) = g[N]
  BY <1>1, FromIsStep DEF N
<1> DEFINE Good == {n \in Nat : n <= N => g[n] = Near(n)}
<1>3. g[0] = {b} /\ \A n \in Nat : n + 1 <= N =>
        g[n + 1] = g[n] \cup ({entry[e].next : e \in g[n]} \ {NULL})
  <2>1. \A n \in 0 .. N : g[n] = IF n = 0 THEN {b}
                                 ELSE g[n - 1] \cup ({entry[e].next : e \in g[n - 1]} \ {NULL})
    BY <1>2 DEF Steps
  <2>2. 0 \in 0 .. N
    BY <1>1
  <2>3. ASSUME NEW n \in Nat, n + 1 <= N
        PROVE  g[n + 1] = g[n] \cup ({entry[e].next : e \in g[n]} \ {NULL})
    <3>1. n + 1 \in 0 .. N /\ n + 1 # 0 /\ (n + 1) - 1 = n
      BY <1>1, <2>3
    <3> QED BY <2>1, <3>1
  <2> QED BY <2>1, <2>2, <2>3
<1>4. b \in L /\ own[b] = b /\ pos[b] = 0 /\ L \subseteq Address
  BY DEF Lists, Linked, Address
<1>5. 0 \in Good
  <2>1. Near(0) = {b}
    <3>1. \A x \in L : own[x] = b /\ pos[x] <= 0 => x = b
      <4>1. \A x \in L : pos[x] <= 0 => pos[x] = 0
        BY <1>1
      <4> QED BY <1>4, <4>1 DEF Lists
    <3> QED BY <1>4, <3>1
  <2> QED BY <1>3, <2>1
<1>6. ASSUME NEW n \in Nat, n \in Good PROVE n + 1 \in Good
  <2> SUFFICES ASSUME n + 1 <= N PROVE g[n + 1] = Near(n + 1)
    <3>1. n + 1 \in Nat
      OBVIOUS
    <3> QED BY <3>1
  <2>1. g[n] = Near(n)
    <3>1. n <= N
      BY <1>1
    <3> QED BY <1>6, <3>1
  <2>2. g[n + 1] = g[n] \cup ({entry[e].next : e \in g[n]} \ {NULL})
    BY <1>3
  <2>3. \A e \in L : NextOf[e] = entry[e].next
    BY <1>4 DEF NextOf
  <2>4. ASSUME NEW x \in g[n + 1] PROVE x \in Near(n + 1)
    <3>1. CASE x \in g[n]
      BY <1>1, <2>1, <3>1
    <3>2. CASE x \notin g[n]
      <4>1. PICK e \in Near(n) : x = entry[e].next /\ x # NULL
        BY <2>1, <2>2, <3>2
      <4>2. x \in allocated /\ own[x] = b /\ pos[x] = pos[e] + 1
        BY <2>3, <4>1 DEF Lists
      <4>3. x \in L
        BY <4>2 DEF Linked
      <4> QED BY <1>1, <4>1, <4>2, <4>3
    <3> QED BY <3>1, <3>2
  <2>5. ASSUME NEW x \in Near(n + 1) PROVE x \in g[n + 1]
    <3>1. CASE pos[x] <= n
      BY <2>1, <2>2, <3>1
    <3>2. CASE pos[x] = n + 1
      <4>1. x \in allocated /\ x # NULL
        <5>1. pos[x] # 0
          BY <3>2
        <5>2. x \in allocated
          BY <5>1 DEF Lists, Linked
        <5> QED BY <5>2, HashMapAssumption DEF Lists
      <4>2. PICK p \in L : NextOf[p] = x
        BY <4>1 DEF Lists
      <4>3. own[x] = own[p] /\ pos[x] = pos[p] + 1
        BY <4>1, <4>2 DEF Lists
      <4>4. p \in Near(n)
        BY <1>1, <3>2, <4>3
      <4> QED BY <2>1, <2>2, <2>3, <4>1, <4>2, <4>4
    <3> QED BY <1>1, <3>1, <3>2
  <2> QED BY <2>4, <2>5
<1> HIDE DEF Good
<1>7. Nat \subseteq Good
  BY <1>3, <1>5, <1>6, SetInduction
<1>8. g[N] = Near(N)
  <2>1. N \in Good /\ N <= N
    BY <1>1, <1>7
  <2> QED BY <2>1 DEF Good
<1>9. Near(N) = {x \in L : own[x] = b}
  BY <1>1
<1> QED BY <1>2, <1>8, <1>9

\* Entries of the table, their fields and their lists.
LEMMA ChainFacts ==
  ASSUME NEW own, NEW pos, Chains(own, pos)
  PROVE  /\ Lists(NextOf, allocated, own, pos)
         /\ Content(NextOf, KeyOf, ValueOf, allocated, own)
         /\ allocated \subseteq Node /\ Linked(allocated) \subseteq Address
         /\ \A e \in Linked(allocated) :
              NextOf[e] = entry[e].next /\ KeyOf[e] = entry[e].key /\ ValueOf[e] = entry[e].value
         /\ \A b \in Bucket : From(b) = {x \in Linked(allocated) : own[x] = b}
<1>1. Lists(NextOf, allocated, own, pos) /\ Content(NextOf, KeyOf, ValueOf, allocated, own)
  BY DEF Chains, Shape
<1>2. allocated \subseteq Node /\ Linked(allocated) \subseteq Address
  BY <1>1 DEF Lists, Linked, Address
<1>3. \A e \in Linked(allocated) :
        NextOf[e] = entry[e].next /\ KeyOf[e] = entry[e].key /\ ValueOf[e] = entry[e].value
  BY <1>2 DEF NextOf, KeyOf, ValueOf
<1>4. \A b \in Bucket : From(b) = {x \in Linked(allocated) : own[x] = b}
  BY <1>1, FromFacts
<1> QED BY <1>1, <1>2, <1>3, <1>4

\* The entry of a key is found in the list of its bucket, wherever it is.
LEMMA HoldingFacts ==
  ASSUME NEW own, NEW pos, Chains(own, pos), NEW k \in Key
  PROVE  Holding(k) = {e \in Linked(allocated) : KeyOf[e] = k}
<1>1. Head(k) \in Bucket /\ k # NULL
  BY KeyFacts
<1>2. /\ Content(NextOf, KeyOf, ValueOf, allocated, own)
      /\ \A e \in Linked(allocated) : KeyOf[e] = entry[e].key
      /\ From(Head(k)) = {x \in Linked(allocated) : own[x] = Head(k)}
  BY <1>1, ChainFacts
<1>3. \A e \in Linked(allocated) : KeyOf[e] = k => own[e] = Head(k)
  BY <1>1, <1>2 DEF Content
<1> QED BY <1>2, <1>3 DEF Holding

\* The last entry of a list.
LEMMA LastFacts ==
  ASSUME NEW own, NEW pos, Chains(own, pos), NEW b \in Bucket
  PROVE  Last(b) \in Linked(allocated) /\ own[Last(b)] = b /\ NextOf[Last(b)] = NULL
<1>1. /\ Lists(NextOf, allocated, own, pos)
      /\ \A e \in Linked(allocated) : NextOf[e] = entry[e].next
      /\ From(b) = {x \in Linked(allocated) : own[x] = b}
  BY ChainFacts
<1>2. \E e \in From(b) : entry[e].next = NULL
  BY <1>1 DEF Lists
<1>3. Last(b) \in From(b) /\ entry[Last(b)].next = NULL
  BY <1>2 DEF Last
<1> QED BY <1>1, <1>3

\* The table of a step's end differs from the one of its beginning in k.
PutsHere(k, v) == Puts(KeyOf, ValueOf, allocated, KeyOf', ValueOf', allocated', k, v)
TakesHere(k) == Takes(KeyOf, ValueOf, allocated, KeyOf', ValueOf', allocated', k)
ChainsAfter == \E own, pos : Chains(own, pos)'

\* A call of hashmap_set leaves lists in which v is stored for k.
LEMMA SetStep ==
  ASSUME Typed, NEW own, NEW pos, Chains(own, pos),
         NEW k \in Key, NEW v \in Value, hashmap_set(k, v)
  PROVE  Typed' /\ ChainsAfter /\ PutsHere(k, v)
<1> DEFINE b == Head(k)
<1>1. b \in Bucket /\ k # NULL /\ b \in Address /\ b \in Linked(allocated)
  BY KeyFacts DEF Address, Linked
<1>2. /\ Lists(NextOf, allocated, own, pos) /\ Content(NextOf, KeyOf, ValueOf, allocated, own)
      /\ allocated \subseteq Node /\ Linked(allocated) \subseteq Address
      /\ \A e \in Linked(allocated) :
           NextOf[e] = entry[e].next /\ KeyOf[e] = entry[e].key /\ ValueOf[e] = entry[e].value
      /\ Holding(k) = {e \in Linked(allocated) : KeyOf[e] = k}
  BY ChainFacts, HoldingFacts
<1>3. Shape(NextOf, KeyOf, ValueOf, allocated, own, pos)
  BY DEF Chains
<1> HIDE DEF b
<1>4. CASE set_empty(k, v)
  <2>1. KeyOf[b] = NULL /\ NextOf[b] = NULL /\ own[b] = b /\ allocated' = allocated
    BY <1>1, <1>2, <1>4 DEF set_empty, b, Content, Lists
  <2>2. entry' = [entry EXCEPT ![b] = [key |-> k, value |-> v, next |-> NULL]]
    BY <1>4 DEF set_empty, b
  <2>3. Typed' /\ KeyOf' = [KeyOf EXCEPT ![b] = k] /\ ValueOf' = [ValueOf EXCEPT ![b] = v]
    BY <1>1, <2>2 DEF Typed, Entry, KeyOf, ValueOf
  <2>4. NextOf' = NextOf
    BY <1>1, <2>1, <2>2 DEF Typed, Entry, NextOf
  <2>5. Shape(NextOf, KeyOf', ValueOf', allocated, own, pos) /\ PutsHere(k, v)
    BY <1>3, <2>1, <2>3, PutInHead DEF PutsHere, b
  <2>6. Chains(own, pos)'
    BY <2>1, <2>4, <2>5 DEF Chains
  <2> QED BY <2>3, <2>5, <2>6 DEF ChainsAfter
<1>5. CASE entry[Head(k)].key # NULL /\ Absent(k) /\ set_absent(k, v)
  <2>1. PICK n \in Node \ allocated :
          /\ allocated' = allocated \cup {n}
          /\ entry' = [entry EXCEPT ![Last(b)].next = n,
                                    ![n] = [key |-> k, value |-> v, next |-> NULL]]
    BY <1>5 DEF set_absent, b
  <2> DEFINE l == Last(b)
  <2>2. l \in Linked(allocated) /\ own[l] = b /\ NextOf[l] = NULL
    BY <1>1, LastFacts
  <2>3. KeyOf[b] # NULL /\ \A e \in Linked(allocated) : KeyOf[e] # k
    BY <1>1, <1>2, <1>5 DEF Absent, b
  <2> HIDE DEF l
  <2>4. l \in Address /\ n \in Address /\ l # n
    BY <1>1, <1>2, <2>2, HashMapAssumption DEF Address, Linked, Bucket
  <2>5. entry' = [entry EXCEPT ![l].next = n, ![n] = [key |-> k, value |-> v, next |-> NULL]]
    BY <2>1 DEF l
  <2>6. /\ \A e \in Address : entry[e] \in Entry
        /\ entry'[n] = [key |-> k, value |-> v, next |-> NULL]
        /\ entry'[l] = [entry[l] EXCEPT !.next = n]
        /\ \A e \in Address : e # l /\ e # n => entry'[e] = entry[e]
        /\ DOMAIN entry' = Address /\ entry' = [e \in Address |-> entry'[e]]
    BY <2>4, <2>5 DEF Typed
  <2>7. entry'[n] \in Entry /\ entry'[l] \in Entry
    BY <2>4, <2>6 DEF Entry
  <2>8. Typed'
    BY <2>6, <2>7 DEF Typed
  <2>9. /\ NextOf' = [NextOf EXCEPT ![l] = n, ![n] = NULL]
        /\ KeyOf' = [KeyOf EXCEPT ![n] = k] /\ ValueOf' = [ValueOf EXCEPT ![n] = v]
    <3>1. entry'[l].next = n /\ entry'[l].key = entry[l].key /\ entry'[l].value = entry[l].value
      BY <2>4, <2>6 DEF Entry
    <3>2. entry'[n].next = NULL /\ entry'[n].key = k /\ entry'[n].value = v
      BY <2>6
    <3> QED BY <2>4, <2>6, <3>1, <3>2 DEF NextOf, KeyOf, ValueOf
  <2>10. /\ \E own2, pos2 : Shape(NextOf', KeyOf', ValueOf', allocated \cup {n}, own2, pos2)
         /\ Puts(KeyOf, ValueOf, allocated, KeyOf', ValueOf', allocated \cup {n}, k, v)
    BY <1>3, <2>2, <2>3, <2>9, PutBehind DEF b
  <2> QED BY <2>1, <2>8, <2>10 DEF ChainsAfter, Chains, PutsHere
<1>6. CASE set_replace(k, v) /\ UNCHANGED allocated
  <2>1. PICK e \in Holding(k) : entry' = [entry EXCEPT ![e].value = v]
    BY <1>6 DEF set_replace
  <2>2. e \in Linked(allocated) /\ KeyOf[e] = k /\ e \in Address /\ allocated' = allocated
    BY <1>2, <1>6
  <2>3. entry[e] \in Entry /\ [entry[e] EXCEPT !.value = v] \in Entry
    BY <2>2 DEF Typed, Entry
  <2>4. Typed'
    BY <2>1, <2>2, <2>3 DEF Typed
  <2>5. ValueOf' = [ValueOf EXCEPT ![e] = v] /\ KeyOf' = KeyOf /\ NextOf' = NextOf
    BY <2>1, <2>2, <2>3 DEF Typed, Entry, ValueOf, KeyOf, NextOf
  <2>6. Shape(NextOf, KeyOf, ValueOf', allocated, own, pos)
          /\ Puts(KeyOf, ValueOf, allocated, KeyOf, ValueOf', allocated, k, v)
    BY <1>3, <2>2, <2>5, Replace
  <2>7. Chains(own, pos)'
    BY <2>2, <2>5, <2>6 DEF Chains
  <2> QED BY <2>2, <2>4, <2>5, <2>6, <2>7 DEF ChainsAfter, PutsHere
<1> QED BY <1>4, <1>5, <1>6 DEF hashmap_set

\* A call of hashmap_remove that finds k leaves lists without it.
LEMMA RemoveStep ==
  ASSUME Typed, NEW own, NEW pos, Chains(own, pos), NEW k \in Key, ~Absent(k),
         \/ AtHead(k) /\ entry[Head(k)].next # NULL /\ remove_head(k)
         \/ AtHead(k) /\ entry[Head(k)].next = NULL /\ remove_last(k)
         \/ ~AtHead(k) /\ remove_behind(k)
  PROVE  Typed' /\ ChainsAfter /\ TakesHere(k)
<1> DEFINE b == Head(k)
<1>1. b \in Bucket /\ k # NULL /\ b \in Address /\ b \in Linked(allocated)
  BY KeyFacts DEF Address, Linked
<1>2. /\ Lists(NextOf, allocated, own, pos) /\ Content(NextOf, KeyOf, ValueOf, allocated, own)
      /\ allocated \subseteq Node /\ Linked(allocated) \subseteq Address
      /\ \A e \in Linked(allocated) :
           NextOf[e] = entry[e].next /\ KeyOf[e] = entry[e].key /\ ValueOf[e] = entry[e].value
      /\ Holding(k) = {e \in Linked(allocated) : KeyOf[e] = k}
      /\ From(b) = {x \in Linked(allocated) : own[x] = b}
  BY <1>1, ChainFacts, HoldingFacts
<1>3. Shape(NextOf, KeyOf, ValueOf, allocated, own, pos)
  BY DEF Chains
<1>4. AtHead(k) <=> KeyOf[b] = k
  BY <1>1, <1>2 DEF AtHead
<1>5. Empty \in Entry /\ Empty = [key |-> NULL, value |-> NULL, next |-> NULL]
  BY DEF Empty, Entry
<1>6. /\ \A e \in Address : entry[e] \in Entry
      /\ DOMAIN entry = Address
  BY DEF Typed
<1> HIDE DEF b
<1>7. CASE AtHead(k) /\ entry[Head(k)].next # NULL /\ remove_head(k)
  <2> DEFINE t == entry[b].next
  <2>1. t = NextOf[b] /\ t # NULL /\ t \in allocated /\ KeyOf[b] = k
    BY <1>1, <1>2, <1>4, <1>7 DEF b, Lists
  <2>2. t \in Address /\ t # b
    BY <1>1, <1>2, <2>1, HashMapAssumption DEF Address, Bucket
  <2>3. entry' = [entry EXCEPT ![b] = entry[t], ![t] = Empty] /\ allocated' = allocated \ {t}
    BY <1>7 DEF remove_head, b
  <2> HIDE DEF t
  <2>4. /\ entry'[b] = entry[t] /\ entry'[t] = Empty
        /\ \A e \in Address : e # b /\ e # t => entry'[e] = entry[e]
        /\ entry' = [e \in Address |-> entry'[e]]
    BY <1>1, <1>6, <2>2, <2>3
  <2>5. Typed'
    BY <1>5, <1>6, <2>2, <2>4 DEF Typed
  <2>6. /\ NextOf' = Moved(NextOf, b, t) /\ KeyOf' = Moved(KeyOf, b, t)
        /\ ValueOf' = Moved(ValueOf, b, t)
    <3>1. /\ entry'[b].next = entry[t].next /\ entry'[b].key = entry[t].key
          /\ entry'[b].value = entry[t].value
          /\ entry'[t].next = NULL /\ entry'[t].key = NULL /\ entry'[t].value = NULL
      BY <1>5, <2>4
    <3>2. NextOf' = Moved(NextOf, b, t)
      BY <1>1, <2>2, <2>4, <3>1 DEF NextOf, Moved
    <3>3. KeyOf' = Moved(KeyOf, b, t)
      BY <1>1, <2>2, <2>4, <3>1 DEF KeyOf, Moved
    <3>4. ValueOf' = Moved(ValueOf, b, t)
      BY <1>1, <2>2, <2>4, <3>1 DEF ValueOf, Moved
    <3> QED BY <3>2, <3>3, <3>4
  <2>7. /\ \E own2, pos2 : Shape(NextOf', KeyOf', ValueOf', allocated \ {t}, own2, pos2)
        /\ Takes(KeyOf, ValueOf, allocated, KeyOf', ValueOf', allocated \ {t}, k)
    <3>1. KeyOf[Head(k)] = k /\ t = NextOf[Head(k)] /\ t # NULL
      BY <2>1 DEF b
    <3>2. /\ NextOf' = Moved(NextOf, Head(k), t) /\ KeyOf' = Moved(KeyOf, Head(k), t)
          /\ ValueOf' = Moved(ValueOf, Head(k), t)
      BY <2>6 DEF b
    <3> QED BY <1>3, <3>1, <3>2, TakeHead
  <2> QED BY <2>3, <2>5, <2>7 DEF ChainsAfter, Chains, TakesHere
<1>8. CASE AtHead(k) /\ entry[Head(k)].next = NULL /\ remove_last(k)
  <2>1. /\ NextOf[b] = NULL /\ KeyOf[b] = k /\ allocated' = allocated
        /\ entry' = [entry EXCEPT ![b].key = NULL, ![b].value = NULL]
    BY <1>1, <1>2, <1>4, <1>8 DEF b, remove_last
  <2>2. /\ entry'[b] = [entry[b] EXCEPT !.key = NULL, !.value = NULL]
        /\ \A e \in Address : e # b => entry'[e] = entry[e]
        /\ entry' = [e \in Address |-> entry'[e]]
    BY <1>1, <1>6, <2>1
  <2>3. /\ entry'[b] \in Entry /\ entry'[b].key = NULL /\ entry'[b].value = NULL
        /\ entry'[b].next = entry[b].next
    BY <1>1, <1>6, <2>2 DEF Entry
  <2>4. Typed'
    BY <1>6, <2>2, <2>3 DEF Typed
  <2>5. /\ NextOf' = NextOf /\ KeyOf' = [KeyOf EXCEPT ![b] = NULL]
        /\ ValueOf' = [ValueOf EXCEPT ![b] = NULL]
    BY <1>1, <2>2, <2>3 DEF NextOf, KeyOf, ValueOf
  <2>6. /\ Shape(NextOf, KeyOf', ValueOf', allocated, own, pos)
        /\ Takes(KeyOf, ValueOf, allocated, KeyOf', ValueOf', allocated, k)
    BY <1>3, <2>1, <2>5, TakeLast DEF b
  <2>7. Chains(own, pos)'
    BY <2>1, <2>5, <2>6 DEF Chains
  <2> QED BY <2>1, <2>4, <2>6, <2>7 DEF ChainsAfter, TakesHere
<1>9. CASE ~AtHead(k) /\ remove_behind(k)
  <2>1. PICK e \in Holding(k), p \in From(b) :
          /\ entry[p].next = e
          /\ entry' = [entry EXCEPT ![p].next = entry[e].next, ![e] = Empty]
          /\ allocated' = allocated \ {e}
    BY <1>9 DEF remove_behind, b
  <2>2. /\ e \in Linked(allocated) /\ KeyOf[e] = k /\ p \in Linked(allocated) /\ NextOf[p] = e
        /\ p \in Address /\ e \in Address
    BY <1>2, <2>1
  <2>3. e \in allocated
    <3>1. own[e] = b
      BY <1>1, <1>2, <2>2 DEF Content, b
    <3>2. e # b
      BY <1>4, <1>9, <2>2
    <3>3. e \notin Bucket
      BY <1>2, <3>1, <3>2 DEF Lists
    <3> QED BY <2>2, <3>3 DEF Linked
  <2>4. p # e
    <3>1. e # NULL
      BY <1>2, <2>3, HashMapAssumption
    <3>2. pos[e] = pos[p] + 1 /\ pos[e] \in Nat
      BY <1>2, <2>2, <3>1 DEF Lists
    <3> QED BY <3>2
  <2>5. /\ entry'[p] = [entry[p] EXCEPT !.next = entry[e].next] /\ entry'[e] = Empty
        /\ \A x \in Address : x # p /\ x # e => entry'[x] = entry[x]
        /\ entry' = [x \in Address |-> entry'[x]]
    BY <1>6, <2>1, <2>2, <2>4
  <2>6. /\ entry'[p] \in Entry /\ entry'[p].key = entry[p].key /\ entry'[p].value = entry[p].value
        /\ entry'[p].next = entry[e].next
    BY <1>6, <2>2, <2>5 DEF Entry
  <2>7. Typed'
    BY <1>5, <1>6, <2>5, <2>6 DEF Typed
  <2>8. /\ NextOf' = [NextOf EXCEPT ![p] = NextOf[e], ![e] = NULL]
        /\ KeyOf' = [KeyOf EXCEPT ![e] = NULL] /\ ValueOf' = [ValueOf EXCEPT ![e] = NULL]
    <3>1. entry'[e].next = NULL /\ entry'[e].key = NULL /\ entry'[e].value = NULL
      BY <1>5, <2>5
    <3>2. NextOf' = [NextOf EXCEPT ![p] = NextOf[e], ![e] = NULL]
      BY <2>2, <2>4, <2>5, <2>6, <3>1 DEF NextOf
    <3>3. KeyOf' = [KeyOf EXCEPT ![e] = NULL]
      BY <2>2, <2>4, <2>5, <2>6, <3>1 DEF KeyOf
    <3>4. ValueOf' = [ValueOf EXCEPT ![e] = NULL]
      BY <2>2, <2>4, <2>5, <2>6, <3>1 DEF ValueOf
    <3> QED BY <3>2, <3>3, <3>4
  <2>9. /\ \E own2, pos2 : Shape(NextOf', KeyOf', ValueOf', allocated \ {e}, own2, pos2)
        /\ Takes(KeyOf, ValueOf, allocated, KeyOf', ValueOf', allocated \ {e}, k)
    BY <1>3, <2>2, <2>3, <2>8, TakeBehind
  <2> QED BY <2>1, <2>7, <2>9 DEF ChainsAfter, Chains, TakesHere
<1> QED BY <1>7, <1>8, <1>9

---------------------------------------------------------------------------
(* Scans, and the invariant.                                               *)

\* x comes before the position of the scan.
Behind(own, pos, x) ==
  \/ own[x] < scan.current_bucket
  \/ own[x] = scan.current_bucket /\ pos[x] < pos[scan.current_entry]

\* A scan has delivered the keys of the entries before its position.
ScanAt(own, pos) ==
  scan # NoScan =>
    /\ scan.current_bucket \in Bucket /\ scan.current_entry \in Linked(allocated)
    /\ scan = [current_bucket |-> scan.current_bucket, current_entry |-> scan.current_entry]
    /\ own[scan.current_entry] = scan.current_bucket
    /\ seen = {KeyOf[e] : e \in {x \in Linked(allocated) : Behind(own, pos, x)}} \ {NULL}

HashInv == Typed /\ \E own, pos : Chains(own, pos) /\ ScanAt(own, pos)

\* A turn of the scan's loop.
LEMMA ScanStep ==
  ASSUME Typed, NEW own, NEW pos, Chains(own, pos), ScanAt(own, pos), hashmap_scan_next
  PROVE  /\ ScanAt(own, pos)'
         /\ entry[scan.current_entry].key \notin seen
         /\ scan' = NoScan => seen' = {entry[e].key : e \in Used}
<1> DEFINE c == scan.current_bucket
           e == scan.current_entry
           L == Linked(allocated)
<1>1. /\ Lists(NextOf, allocated, own, pos) /\ Content(NextOf, KeyOf, ValueOf, allocated, own)
      /\ \A x \in L : NextOf[x] = entry[x].next /\ KeyOf[x] = entry[x].key
      /\ \A b \in Bucket : From(b) = {x \in L : own[x] = b}
  BY ChainFacts
<1>2. /\ scan # NoScan /\ scan' = (IF Advance.current_bucket = num_entries THEN NoScan ELSE Advance)
      /\ seen' = seen \cup ({entry[e].key} \ {NULL}) /\ UNCHANGED <<entry, allocated>>
  BY DEF hashmap_scan_next, Idle
<1>3. /\ c \in Bucket /\ e \in L /\ own[e] = c
      /\ scan = [current_bucket |-> c, current_entry |-> e]
      /\ seen = {KeyOf[x] : x \in {x \in L : Behind(own, pos, x)}} \ {NULL}
  BY <1>2 DEF ScanAt
<1>4. /\ num_entries \in Nat \ {0} /\ Bucket = 0 .. num_entries - 1
      /\ \A x \in L : own[x] \in Bucket /\ own[x] \in Nat /\ pos[x] \in Nat
  BY <1>1, HashMapAssumption DEF Bucket, Lists, Linked, Address
<1>5. \A x \in L : Behind(own, pos, x) <=> own[x] < c \/ (own[x] = c /\ pos[x] < pos[e])
  BY DEF Behind
<1>6. NextOf' = NextOf /\ KeyOf' = KeyOf /\ Linked(allocated)' = L
  BY <1>2 DEF NextOf, KeyOf, Linked
<1> HIDE DEF c, e, L
<1>7. seen' = {KeyOf[x] : x \in {x \in L : Behind(own, pos, x) \/ x = e}} \ {NULL}
  <2>1. entry[e].key = KeyOf[e]
    BY <1>1, <1>3
  <2> QED BY <1>2, <1>3, <2>1
<1>8. entry[e].key \notin seen
  <2>1. ASSUME NEW x \in L, Behind(own, pos, x), KeyOf[x] = KeyOf[e], KeyOf[e] # NULL PROVE FALSE
    <3>1. x = e
      BY <1>1, <1>3, <2>1 DEF Content, L
    <3> QED BY <1>3, <1>4, <1>5, <2>1, <3>1
  <2> QED BY <1>1, <1>3, <2>1
<1>9. CASE NextOf[e] # NULL
  <2> DEFINE f == NextOf[e]
  <2>1. f \in L /\ own[f] = c /\ pos[f] = pos[e] + 1
    BY <1>1, <1>3, <1>9 DEF Lists, Linked, L
  <2>2. Advance = [current_bucket |-> c, current_entry |-> f]
    BY <1>1, <1>3, <1>9 DEF Advance, c, e
  <2>3. Advance.current_bucket # num_entries
    BY <1>3, <1>4, <2>2
  <2> HIDE DEF f
  <2>4. scan' = [current_bucket |-> c, current_entry |-> f]
    BY <1>2, <2>2, <2>3
  <2>5. \A x \in L : Behind(own, pos, x)' <=> own[x] < c \/ (own[x] = c /\ pos[x] < pos[f])
    BY <2>4 DEF Behind
  <2>6. ASSUME NEW x \in L PROVE Behind(own, pos, x)' <=> Behind(own, pos, x) \/ x = e
    <3>1. own[x] = c /\ pos[x] = pos[e] <=> x = e
      BY <1>1, <1>3 DEF Lists, L
    <3> QED BY <1>3, <1>4, <1>5, <2>1, <2>5, <3>1
  <2>7. seen' = {KeyOf[x] : x \in {x \in L : Behind(own, pos, x)'}} \ {NULL}
    BY <1>7, <2>6
  <2>8. ScanAt(own, pos)'
    BY <1>3, <1>6, <2>1, <2>4, <2>7 DEF ScanAt
  <2>9. scan' # NoScan
    <3>1. NoScan.current_bucket = num_entries
      BY DEF NoScan
    <3> QED BY <1>3, <1>4, <2>4, <3>1
  <2> QED BY <1>8, <2>8, <2>9 DEF e
<1>10. CASE NextOf[e] = NULL
  <2> DEFINE n == c + 1
  <2>1. Advance = [current_bucket |-> n, current_entry |-> n]
    BY <1>1, <1>3, <1>10 DEF Advance, c, e
  <2>2. ASSUME NEW x \in L, own[x] = c PROVE pos[x] <= pos[e]
    <3>1. ASSUME pos[e] < pos[x] PROVE FALSE
      <4>1. pos[e] + 1 \in Nat /\ pos[e] + 1 <= pos[x]
        BY <1>3, <1>4, <3>1
      <4>2. PICK y \in Linked(allocated) : own[y] = c /\ pos[y] = pos[e] + 1
        BY <1>1, <2>2, <4>1, Gapless DEF L
      <4>3. y \in allocated
        <5>1. pos[y] # 0
          BY <1>3, <1>4, <4>2
        <5> QED BY <1>1, <5>1 DEF Lists, Linked
      <4>4. PICK p \in L : NextOf[p] = y
        BY <1>1, <4>3 DEF Lists, L
      <4>5. y # NULL
        BY <1>1, <4>3, HashMapAssumption DEF Lists
      <4>6. own[p] = own[e] /\ pos[p] = pos[e]
        <5>1. own[y] = own[p] /\ pos[y] = pos[p] + 1
          BY <1>1, <4>4, <4>5 DEF Lists, L
        <5> QED BY <1>3, <1>4, <4>2, <5>1
      <4>7. p = e
        BY <1>1, <1>3, <4>6 DEF Lists, L
      <4> QED BY <1>10, <4>4, <4>5, <4>7
    <3> QED BY <1>3, <1>4, <3>1
  <2>3. ASSUME NEW x \in L PROVE own[x] < n <=> Behind(own, pos, x) \/ x = e
    <3>1. own[x] = c /\ pos[x] = pos[e] <=> x = e
      BY <1>1, <1>3 DEF Lists, L
    <3>2. own[x] = c => pos[x] <= pos[e]
      BY <2>2
    <3>3. own[x] \in Nat /\ c \in Nat /\ pos[x] \in Nat /\ pos[e] \in Nat
      BY <1>3, <1>4
    <3> QED BY <1>5, <3>1, <3>2, <3>3
  <2>4. seen' = {KeyOf[x] : x \in {x \in L : own[x] < n}} \ {NULL}
    BY <1>7, <2>3
  <2>5. CASE n = num_entries
    <3>1. scan' = NoScan
      BY <1>2, <2>1, <2>5
    <3>2. \A x \in L : own[x] < n
      BY <1>4, <2>5
    <3>3. Used = {x \in L : entry[x].key # NULL}
      <4>1. Entries = L
        BY <1>1, <1>4 DEF Entries
      <4> QED BY <4>1 DEF Used
    <3>4. seen' = {entry[x].key : x \in Used}
      <4>1. seen' = {KeyOf[x] : x \in L} \ {NULL}
        BY <2>4, <3>2
      <4> QED BY <1>1, <3>3, <4>1
    <3> QED BY <1>8, <3>1, <3>4 DEF ScanAt, e
  <2>6. CASE n # num_entries
    <3>1. n \in Bucket /\ n \in L
      BY <1>3, <1>4, <2>6 DEF L, Linked
    <3> HIDE DEF n
    <3>2. scan' = [current_bucket |-> n, current_entry |-> n]
      BY <1>2, <2>1, <2>6
    <3>3. own[n] = n /\ pos[n] = 0
      BY <1>1, <3>1 DEF Lists
    <3>4. \A x \in L : Behind(own, pos, x)' <=> own[x] < n
      <4>1. \A x \in L : Behind(own, pos, x)' <=> own[x] < n \/ (own[x] = n /\ pos[x] < pos[n])
        BY <3>2 DEF Behind
      <4> QED BY <1>4, <3>3, <4>1
    <3>5. seen' = {KeyOf[x] : x \in {x \in L : Behind(own, pos, x)'}} \ {NULL}
      BY <2>4, <3>4
    <3>6. ScanAt(own, pos)'
      BY <1>6, <3>1, <3>2, <3>3, <3>5 DEF ScanAt
    <3>7. scan' # NoScan
      <4>1. NoScan.current_bucket = num_entries
        BY DEF NoScan
      <4> QED BY <2>6, <3>2, <4>1
    <3> QED BY <1>8, <3>6, <3>7 DEF e
  <2> QED BY <2>5, <2>6
<1> QED BY <1>9, <1>10

\* Nothing is linked or scanned in the beginning.
LEMMA HashInvInit == Init => HashInv
<1> SUFFICES ASSUME Init PROVE HashInv
  OBVIOUS
<1> DEFINE own == [e \in Address |-> IF e \in Bucket THEN e ELSE 0]
           pos == [e \in Address |-> 0]
<1>1. /\ entry = [a \in Address |-> Empty] /\ allocated = {} /\ scan = NoScan
      /\ 0 \in Bucket /\ Linked(allocated) = Bucket /\ Bucket \subseteq Address
      /\ Empty = [key |-> NULL, value |-> NULL, next |-> NULL]
  BY HashMapAssumption DEF Init, Address, Linked, Bucket, Empty
<1>2. Typed
  BY <1>1 DEF Typed, Entry
<1>3. /\ NextOf = [e \in Address |-> NULL] /\ KeyOf = [e \in Address |-> NULL]
      /\ ValueOf = [e \in Address |-> NULL]
  BY <1>1 DEF NextOf, KeyOf, ValueOf
<1>4. /\ own \in [Address -> Bucket] /\ pos \in [Address -> Nat]
      /\ \A b \in Bucket : own[b] = b /\ pos[b] = 0
  BY <1>1
<1> HIDE DEF own, pos
<1>5. Lists(NextOf, allocated, own, pos)
  BY <1>1, <1>3, <1>4 DEF Lists
<1>6. Content(NextOf, KeyOf, ValueOf, allocated, own)
  BY <1>1, <1>3 DEF Content
<1>7. Chains(own, pos) /\ ScanAt(own, pos)
  BY <1>1, <1>5, <1>6 DEF Chains, Shape, ScanAt
<1> QED BY <1>2, <1>7 DEF HashInv

\* A step that changes no entry leaves the lists as they are.
LEMMA SameChains ==
  ASSUME NEW own, NEW pos, Chains(own, pos), Typed, UNCHANGED <<entry, allocated>>
  PROVE  /\ Chains(own, pos)' /\ Typed'
         /\ NextOf' = NextOf /\ KeyOf' = KeyOf /\ ValueOf' = ValueOf
<1>1. NextOf' = NextOf /\ KeyOf' = KeyOf /\ ValueOf' = ValueOf /\ Typed'
  BY DEF NextOf, KeyOf, ValueOf, Typed
<1> QED BY <1>1 DEF Chains

\* The lists hold together, and a scan keeps its place among them.
LEMMA HashInvNext == HashInv /\ [Next]_vars => HashInv'
<1> SUFFICES ASSUME HashInv, [Next]_vars PROVE HashInv'
  OBVIOUS
<1>1. PICK own, pos : Chains(own, pos) /\ ScanAt(own, pos)
  BY DEF HashInv
<1>2. Typed
  BY DEF HashInv
<1>3. ASSUME ChainsAfter, Typed', scan' = NoScan PROVE HashInv'
  BY <1>3 DEF ChainsAfter, HashInv, ScanAt
<1>4. ASSUME UNCHANGED <<entry, allocated>>, Idle, scan' = scan PROVE HashInv'
  <2>1. Chains(own, pos)' /\ Typed' /\ scan' = NoScan
    BY <1>1, <1>2, <1>4, SameChains DEF Idle
  <2> QED BY <1>3, <2>1 DEF ChainsAfter
<1>5. CASE \E k \in Key : hashmap_get(k)
  BY <1>4, <1>5 DEF hashmap_get
<1>6. CASE \E k \in Key : \E v \in Value : hashmap_set(k, v)
  <2>1. PICK k \in Key, v \in Value : hashmap_set(k, v)
    BY <1>6
  <2>2. Typed' /\ ChainsAfter
    BY <1>1, <1>2, <2>1, SetStep
  <2>3. scan' = NoScan
    BY <2>1 DEF hashmap_set, Idle
  <2> QED BY <1>3, <2>2, <2>3
<1>7. CASE \E k \in Key : hashmap_remove(k)
  <2>1. PICK k \in Key : hashmap_remove(k)
    BY <1>7
  <2>2. Idle /\ scan' = scan
    BY <2>1 DEF hashmap_remove
  <2>3. CASE UNCHANGED <<entry, allocated>>
    BY <1>4, <2>2, <2>3
  <2>4. CASE ~Absent(k)
    <3>1. \/ AtHead(k) /\ entry[Head(k)].next # NULL /\ remove_head(k)
          \/ AtHead(k) /\ entry[Head(k)].next = NULL /\ remove_last(k)
          \/ ~AtHead(k) /\ remove_behind(k)
      BY <2>1, <2>4 DEF hashmap_remove
    <3>2. Typed' /\ ChainsAfter
      BY <1>1, <1>2, <2>4, <3>1, RemoveStep
    <3> QED BY <1>3, <2>2, <3>2 DEF Idle
  <2>5. Absent(k) => UNCHANGED <<entry, allocated>>
    BY <2>1 DEF hashmap_remove, Absent
  <2> QED BY <2>3, <2>4, <2>5
<1>8. CASE hashmap_scan_init
  <2>1. /\ scan' = [current_bucket |-> 0, current_entry |-> 0] /\ seen' = {}
        /\ UNCHANGED <<entry, allocated>>
    BY <1>8 DEF hashmap_scan_init
  <2>2. Chains(own, pos)' /\ Typed' /\ KeyOf' = KeyOf /\ Linked(allocated)' = Linked(allocated)
    BY <1>1, <1>2, <2>1, SameChains
  <2>3. /\ 0 \in Bucket /\ 0 \in Linked(allocated) /\ own[0] = 0 /\ pos[0] = 0
        /\ \A x \in Linked(allocated) : own[x] \in Nat /\ pos[x] \in Nat
    <3>1. 0 \in Bucket /\ Bucket \subseteq Nat
      BY HashMapAssumption DEF Bucket
    <3> QED BY <1>1, <3>1 DEF Chains, Shape, Lists, Linked, Address
  <2>4. \A x \in Linked(allocated) : ~Behind(own, pos, x)'
    <3>1. \A x \in Linked(allocated) :
            Behind(own, pos, x)' <=> own[x] < 0 \/ (own[x] = 0 /\ pos[x] < pos[0])
      BY <2>1 DEF Behind
    <3>2. \A x \in Linked(allocated) : ~(own[x] < 0) /\ ~(pos[x] < 0)
      BY <2>3
    <3> QED BY <2>3, <3>1, <3>2
  <2>5. ScanAt(own, pos)'
    BY <2>1, <2>2, <2>3, <2>4 DEF ScanAt
  <2> QED BY <2>2, <2>5 DEF HashInv
<1>9. CASE hashmap_scan_next
  <2>1. ScanAt(own, pos)'
    BY <1>1, <1>2, <1>9, ScanStep
  <2>2. Chains(own, pos)' /\ Typed'
    BY <1>1, <1>2, <1>9, SameChains DEF hashmap_scan_next
  <2> QED BY <2>1, <2>2 DEF HashInv
<1>10. CASE UNCHANGED vars
  <2>1. UNCHANGED <<entry, allocated, scan, seen>>
    BY <1>10 DEF vars
  <2>2. Chains(own, pos)' /\ Typed' /\ KeyOf' = KeyOf
    BY <1>1, <1>2, <2>1, SameChains
  <2>3. ScanAt(own, pos)'
    BY <1>1, <2>1, <2>2 DEF ScanAt, Behind
  <2> QED BY <2>2, <2>3 DEF HashInv
<1> QED BY <1>5, <1>6, <1>7, <1>8, <1>9, <1>10 DEF Next

\* The lists are disjoint, end, and hold every node in use and no other.
LEMMA HashInvLists == HashInv => ListsIntact
<1> SUFFICES ASSUME HashInv PROVE ListsIntact
  OBVIOUS
<1>1. PICK own, pos : Chains(own, pos)
  BY DEF HashInv
<1>2. /\ Lists(NextOf, allocated, own, pos) /\ Content(NextOf, KeyOf, ValueOf, allocated, own)
      /\ \A e \in Linked(allocated) : NextOf[e] = entry[e].next /\ KeyOf[e] = entry[e].key
      /\ \A b \in Bucket : From(b) = {x \in Linked(allocated) : own[x] = b}
  BY <1>1, ChainFacts
<1>3. \A b \in Bucket : \E e \in From(b) : entry[e].next = NULL
  BY <1>2 DEF Lists
<1>4. \A b, c \in Bucket : b # c => From(b) \cap From(c) = {}
  BY <1>2
<1>5. Entries = Bucket \cup allocated
  <2>1. \A x \in Linked(allocated) : own[x] \in Bucket
    BY <1>2 DEF Lists, Linked, Address
  <2> QED BY <1>2, <2>1 DEF Entries, Linked
<1>6. \A b \in Bucket : entry[b].key = NULL => entry[b].next = NULL
  <2>1. \A b \in Bucket : b \in Linked(allocated)
    BY DEF Linked
  <2> QED BY <1>2, <2>1 DEF Content
<1> QED BY <1>3, <1>4, <1>5, <1>6 DEF ListsIntact

\* For every set of keys, however they hash, no order of calls loses an entry,
\* links one twice or frees one that is linked.
THEOREM ListsHold == Spec => []ListsIntact
<1> QED BY HashInvInit, HashInvNext, HashInvLists, PTL DEF Spec

\* For every set of keys a scan delivers each that is there, and once.
THEOREM ScansDeliver == Spec => ScanDelivers
<1>1. HashInv /\ [Next]_vars =>
        [~Idle => /\ entry[scan.current_entry].key \notin seen
                  /\ scan' = NoScan => seen' = {entry[e].key : e \in Used}]_vars
  <2> SUFFICES ASSUME HashInv, Next, ~Idle
               PROVE  /\ entry[scan.current_entry].key \notin seen
                      /\ scan' = NoScan => seen' = {entry[e].key : e \in Used}
    OBVIOUS
  <2>1. hashmap_scan_next
    BY DEF Next, hashmap_get, hashmap_set, hashmap_remove, hashmap_scan_init
  <2>2. PICK own, pos : Chains(own, pos) /\ ScanAt(own, pos)
    BY DEF HashInv
  <2>3. Typed
    BY DEF HashInv
  <2> QED BY <2>1, <2>2, <2>3, ScanStep
<1> QED BY <1>1, HashInvInit, HashInvNext, PTL DEF Spec, ScanDelivers
---------------------------------------------------------------------------
(* The table is a dictionary.                                              *)

Holds(k, v) == Stores(KeyOf, ValueOf, allocated, k, v)

TableIs ==
  /\ Used = {e \in Linked(allocated) : KeyOf[e] # NULL}
  /\ DOMAIN Map \subseteq Key /\ \A k \in DOMAIN Map : Map[k] \in Value
  /\ Map = [k \in DOMAIN Map |-> Map[k]]
  /\ \A k \in Key, v \in Value : k \in DOMAIN Map /\ Map[k] = v <=> Holds(k, v)

\* The map of a state is what its entries hold.
LEMMA TableFacts == HashInv => TableIs
<1> SUFFICES ASSUME HashInv PROVE TableIs
  OBVIOUS
<1> DEFINE L == Linked(allocated)
           F(k) == CHOOSE e \in Used : entry[e].key = k
<1>1. PICK own, pos : Chains(own, pos)
  BY DEF HashInv
<1>2. /\ Lists(NextOf, allocated, own, pos) /\ Content(NextOf, KeyOf, ValueOf, allocated, own)
      /\ L \subseteq Address
      /\ \A e \in L : KeyOf[e] = entry[e].key /\ ValueOf[e] = entry[e].value
  BY <1>1, ChainFacts
<1>3. Entries = L
  <2>1. ListsIntact
    BY HashInvLists
  <2> QED BY <2>1 DEF ListsIntact, Linked
<1>4. Used = {e \in L : KeyOf[e] # NULL}
  BY <1>2, <1>3 DEF Used
<1>5. \A e \in Used : KeyOf[e] \in Key /\ ValueOf[e] \in Value
  BY <1>2, <1>4 DEF Content
<1>6. \A e, f \in Used : KeyOf[e] = KeyOf[f] => e = f
  BY <1>2, <1>4 DEF Content
<1>7. Map = [k \in {entry[e].key : e \in Used} |-> entry[F(k)].value]
  BY DEF Map
<1>8. {entry[e].key : e \in Used} = {KeyOf[e] : e \in Used}
  BY <1>2, <1>4
<1>9. ASSUME NEW e \in Used PROVE F(KeyOf[e]) = e
  <2>1. entry[e].key = KeyOf[e] /\ \A f \in Used : entry[f].key = KeyOf[f]
    BY <1>2, <1>4
  <2>2. F(KeyOf[e]) \in Used /\ entry[F(KeyOf[e])].key = KeyOf[e]
    BY <2>1
  <2> HIDE DEF F
  <2> QED BY <1>6, <2>1, <2>2
<1> HIDE DEF F, L
<1>10. DOMAIN Map = {KeyOf[e] : e \in Used} /\ \A e \in Used : Map[KeyOf[e]] = ValueOf[e]
  <2>1. DOMAIN Map = {KeyOf[e] : e \in Used}
    BY <1>7, <1>8
  <2>2. ASSUME NEW e \in Used PROVE Map[KeyOf[e]] = ValueOf[e]
    <3>1. Map[KeyOf[e]] = entry[F(KeyOf[e])].value
      BY <1>7, <1>8
    <3> QED BY <1>2, <1>4, <1>9, <3>1
  <2> QED BY <2>1, <2>2
<1>11. Map = [k \in DOMAIN Map |-> Map[k]]
  <2>1. DOMAIN Map = {entry[e].key : e \in Used}
    BY <1>8, <1>10
  <2> DEFINE S == {entry[e].key : e \in Used}
             G(k) == entry[F(k)].value
  <2>2. Map = [k \in S |-> G(k)] /\ DOMAIN Map = S
    BY <1>7, <2>1
  <2> HIDE DEF S, G
  <2> QED BY <2>2
<1>12. ASSUME NEW k \in Key, NEW v \in Value
       PROVE  k \in DOMAIN Map /\ Map[k] = v <=> Holds(k, v)
  <2>1. k # NULL
    BY HashMapAssumption
  <2>2. Holds(k, v) <=> \E e \in Used : KeyOf[e] = k /\ ValueOf[e] = v
    BY <1>4, <2>1 DEF Holds, Stores, L
  <2>3. k \in DOMAIN Map <=> \E e \in Used : KeyOf[e] = k
    BY <1>10
  <2>4. \A e \in Used : KeyOf[e] = k => Map[k] = ValueOf[e]
    BY <1>10
  <2> QED BY <1>6, <2>2, <2>3, <2>4
<1>13. DOMAIN Map \subseteq Key /\ \A k \in DOMAIN Map : Map[k] \in Value
  BY <1>5, <1>10
<1> QED BY <1>4, <1>11, <1>12, <1>13 DEF TableIs, L

\* What is found for a key.
LEMMA LookupFacts ==
  ASSUME HashInv, NEW k \in Key
  PROVE  /\ Absent(k) <=> k \notin DOMAIN Map
         /\ \A e \in Holding(k) : entry[e].value = Map[k]
<1>1. PICK own, pos : Chains(own, pos)
  BY DEF HashInv
<1>2. /\ Content(NextOf, KeyOf, ValueOf, allocated, own)
      /\ Linked(allocated) \subseteq Address
      /\ \A e \in Linked(allocated) : KeyOf[e] = entry[e].key /\ ValueOf[e] = entry[e].value
      /\ Holding(k) = {e \in Linked(allocated) : KeyOf[e] = k}
  BY <1>1, ChainFacts, HoldingFacts
<1>3. TableIs
  BY TableFacts
<1>4. k # NULL
  BY HashMapAssumption
<1>5. ASSUME NEW e \in Holding(k) PROVE k \in DOMAIN Map /\ Map[k] = entry[e].value
  <2>1. e \in Linked(allocated) /\ KeyOf[e] = k /\ ValueOf[e] = entry[e].value /\ e \in Address
    BY <1>2
  <2>2. ValueOf[e] \in Value
    BY <1>2, <1>4, <2>1 DEF Content
  <2>3. Holds(k, ValueOf[e])
    BY <2>1 DEF Holds, Stores
  <2> QED BY <1>3, <2>1, <2>2, <2>3 DEF TableIs
<1>6. ASSUME k \in DOMAIN Map PROVE Holding(k) # {}
  <2>1. Map[k] \in Value
    BY <1>3, <1>6 DEF TableIs
  <2>2. Holds(k, Map[k])
    BY <1>3, <1>6, <2>1 DEF TableIs
  <2> QED BY <1>2, <2>2 DEF Holds, Stores
<1> QED BY <1>5, <1>6 DEF Absent

\* Storing and removing, as the dictionary does it.
LEMMA PutMaps ==
  ASSUME TableIs, TableIs', NEW k \in Key, NEW v \in Value, PutsHere(k, v)
  PROVE  Map' = [j \in DOMAIN Map \cup {k} |-> IF j = k THEN v ELSE Map[j]]
<1> DEFINE new == [j \in DOMAIN Map \cup {k} |-> IF j = k THEN v ELSE Map[j]]
<1>1. \A j \in Key, w \in Value : Holds(j, w)' <=> IF j = k THEN w = v ELSE Holds(j, w)
  BY DEF PutsHere, Puts, Holds
<1>2. /\ DOMAIN Map \subseteq Key /\ \A j \in DOMAIN Map : Map[j] \in Value
      /\ \A j \in Key, w \in Value : j \in DOMAIN Map /\ Map[j] = w <=> Holds(j, w)
  BY DEF TableIs
<1>3. /\ DOMAIN Map' \subseteq Key /\ \A j \in DOMAIN Map' : Map'[j] \in Value
      /\ Map' = [j \in DOMAIN Map' |-> Map'[j]]
      /\ \A j \in Key, w \in Value : j \in DOMAIN Map' /\ Map'[j] = w <=> Holds(j, w)'
  BY DEF TableIs
<1>4. ASSUME NEW j \in Key PROVE j \in DOMAIN Map' <=> j \in DOMAIN Map \cup {k}
  BY <1>1, <1>2, <1>3
<1>5. ASSUME NEW j \in DOMAIN Map' PROVE Map'[j] = new[j]
  <2>1. j \in Key /\ Map'[j] \in Value /\ j \in DOMAIN Map \cup {k}
    BY <1>3, <1>4
  <2>2. IF j = k THEN Map'[j] = v ELSE Holds(j, Map'[j])
    BY <1>1, <1>3, <2>1
  <2> QED BY <1>2, <2>1, <2>2
<1>6. DOMAIN Map' = DOMAIN new
  BY <1>2, <1>3, <1>4
<1> HIDE DEF new
<1>7. new = [j \in DOMAIN new |-> new[j]]
  BY DEF new
<1>8. Map' = new
  BY <1>3, <1>5, <1>6, <1>7
<1> QED BY <1>8 DEF new

\* The same for a removal.
LEMMA TakeMaps ==
  ASSUME TableIs, TableIs', NEW k \in Key, TakesHere(k)
  PROVE  Map' = [j \in DOMAIN Map \ {k} |-> Map[j]]
<1> DEFINE new == [j \in DOMAIN Map \ {k} |-> Map[j]]
<1>1. \A j \in Key, w \in Value : Holds(j, w)' <=> j # k /\ Holds(j, w)
  BY DEF TakesHere, Takes, Holds
<1>2. /\ DOMAIN Map \subseteq Key /\ \A j \in DOMAIN Map : Map[j] \in Value
      /\ \A j \in Key, w \in Value : j \in DOMAIN Map /\ Map[j] = w <=> Holds(j, w)
  BY DEF TableIs
<1>3. /\ DOMAIN Map' \subseteq Key /\ \A j \in DOMAIN Map' : Map'[j] \in Value
      /\ Map' = [j \in DOMAIN Map' |-> Map'[j]]
      /\ \A j \in Key, w \in Value : j \in DOMAIN Map' /\ Map'[j] = w <=> Holds(j, w)'
  BY DEF TableIs
<1>4. ASSUME NEW j \in Key PROVE j \in DOMAIN Map' <=> j \in DOMAIN Map \ {k}
  BY <1>1, <1>2, <1>3
<1>5. ASSUME NEW j \in DOMAIN Map' PROVE Map'[j] = new[j]
  <2>1. j \in Key /\ Map'[j] \in Value /\ j \in DOMAIN Map \ {k}
    BY <1>3, <1>4
  <2>2. Holds(j, Map'[j])
    BY <1>1, <1>3, <2>1
  <2> QED BY <1>2, <2>1, <2>2
<1>6. DOMAIN Map' = DOMAIN new
  BY <1>2, <1>3, <1>4
<1> HIDE DEF new
<1>7. new = [j \in DOMAIN new |-> new[j]]
  BY DEF new
<1>8. Map' = new
  BY <1>3, <1>5, <1>6, <1>7
<1> QED BY <1>8 DEF new

\* A call does what it does to the dictionary; a scan does nothing to it.
LEMMA DictionaryStep ==
  ASSUME HashInv, TableIs, TableIs', [Next]_vars
  PROVE  [D!Next]_<<Map, result>>
<1>1. PICK own, pos : Chains(own, pos)
  BY DEF HashInv
<1>2. Typed
  BY DEF HashInv
<1>3. ASSUME UNCHANGED <<entry, allocated>> PROVE Map' = Map
  <2>1. KeyOf' = KeyOf /\ ValueOf' = ValueOf /\ allocated' = allocated
    BY <1>1, <1>2, <1>3, SameChains
  <2>2. Used' = Used
    BY <2>1 DEF TableIs, Linked
  <2> QED BY <1>3, <2>2 DEF Map
<1>4. ASSUME NEW k \in Key, hashmap_get(k) PROVE D!hashmap_get(k)
  <2>1. Map' = Map
    BY <1>3, <1>4 DEF hashmap_get
  <2>2. /\ Absent(k) <=> k \notin DOMAIN Map
        /\ \A e \in Holding(k) : entry[e].value = Map[k]
    BY LookupFacts
  <2>3. result' = IF Absent(k) THEN NULL ELSE entry[CHOOSE e \in Holding(k) : TRUE].value
    BY <1>4 DEF hashmap_get
  <2>4. result' = D!Lookup(k)
    <3>1. CASE Absent(k)
      BY <2>2, <2>3, <3>1 DEF D!Lookup
    <3>2. CASE ~Absent(k)
      <4>1. (CHOOSE e \in Holding(k) : TRUE) \in Holding(k)
        BY <3>2 DEF Absent
      <4>2. result' = Map[k]
        BY <2>2, <2>3, <3>2, <4>1
      <4> QED BY <2>2, <3>2, <4>2 DEF D!Lookup
    <3> QED BY <3>1, <3>2
  <2> QED BY <2>1, <2>4 DEF D!hashmap_get
<1>5. ASSUME NEW k \in Key, NEW v \in Value, hashmap_set(k, v) PROVE D!hashmap_set(k, v)
  <2>1. PutsHere(k, v)
    BY <1>1, <1>2, <1>5, SetStep
  <2>2. Map' = [j \in DOMAIN Map \cup {k} |-> IF j = k THEN v ELSE Map[j]]
    BY <2>1, PutMaps
  <2>3. result' = v
    BY <1>5 DEF hashmap_set
  <2> QED BY <2>2, <2>3 DEF D!hashmap_set
<1>6. ASSUME NEW k \in Key, hashmap_remove(k) PROVE D!hashmap_remove(k)
  <2>1. /\ Absent(k) <=> k \notin DOMAIN Map
        /\ \A e \in Holding(k) : entry[e].value = Map[k]
    BY LookupFacts
  <2>2. CASE Absent(k)
    <3>1. result' = NULL /\ UNCHANGED <<entry, allocated>>
      BY <1>6, <2>2 DEF hashmap_remove, Absent
    <3>2. Map' = Map
      BY <1>3, <3>1
    <3>3. Map = [j \in DOMAIN Map |-> Map[j]] /\ DOMAIN Map \ {k} = DOMAIN Map
      BY <2>1, <2>2 DEF TableIs
    <3> QED BY <2>1, <2>2, <3>1, <3>2, <3>3 DEF D!hashmap_remove, D!Lookup
  <2>3. CASE ~Absent(k)
    <3>1. /\ \E e \in Holding(k) : result' = entry[e].value
          /\ \/ AtHead(k) /\ entry[Head(k)].next # NULL /\ remove_head(k)
             \/ AtHead(k) /\ entry[Head(k)].next = NULL /\ remove_last(k)
             \/ ~AtHead(k) /\ remove_behind(k)
      BY <1>6, <2>3 DEF hashmap_remove
    <3>2. TakesHere(k)
      BY <1>1, <1>2, <2>3, <3>1, RemoveStep
    <3>3. Map' = [j \in DOMAIN Map \ {k} |-> Map[j]]
      BY <3>2, TakeMaps
    <3>4. result' = D!Lookup(k)
      BY <2>1, <2>3, <3>1 DEF D!Lookup
    <3> QED BY <3>3, <3>4 DEF D!hashmap_remove
  <2> QED BY <2>2, <2>3
<1>7. CASE hashmap_scan_init \/ hashmap_scan_next
  <2>1. Map' = Map /\ result' = result
    BY <1>3, <1>7 DEF hashmap_scan_init, hashmap_scan_next
  <2> QED BY <2>1
<1>8. CASE UNCHANGED vars
  <2>1. Map' = Map /\ result' = result
    BY <1>3, <1>8 DEF vars
  <2> QED BY <2>1
<1> QED BY <1>4, <1>5, <1>6, <1>7, <1>8 DEF Next, D!Next

\* For every set of keys, whatever keys collide, the table is a dictionary: a
\* call returns what the last call that stored the key has stored.
THEOREM ImplementsDictionary == Spec => IsDictionary
<1>1. Init => D!Init
  <2> SUFFICES ASSUME Init PROVE D!Init
    OBVIOUS
  <2>1. TableIs
    BY HashInvInit, TableFacts
  <2>2. Used = {}
    <3>1. KeyOf = [e \in Address |-> NULL] /\ Linked(allocated) = Bucket /\ Bucket \subseteq Address
      BY DEF Init, KeyOf, Empty, Address, Linked
    <3> QED BY <2>1, <3>1 DEF TableIs
  <2>3. Map = <<>>
    BY <2>2 DEF Map
  <2>4. result = NULL
    BY DEF Init
  <2> QED BY <2>3, <2>4 DEF D!Init
<1>2. HashInv /\ TableIs /\ TableIs' /\ [Next]_vars => [D!Next]_<<Map, result>>
  BY DictionaryStep
<1>3. Spec => D!Spec
  BY <1>1, <1>2, HashInvInit, HashInvNext, TableFacts, PTL DEF Spec, D!Spec
<1> QED BY <1>3 DEF IsDictionary

---------------------------------------------------------------------------
(* Values that nobody else holds.                                          *)

\* No value is stored twice, and none that is stored has been freed.
AliveInv ==
  /\ \A j, k \in Key, v \in Value : Holds(j, v) /\ Holds(k, v) => j = k
  /\ \A k \in Key, v \in Value : Holds(k, v) => v \notin released

\* A call that stores a value nobody stores keeps it so.
LEMMA AliveStep ==
  ASSUME HashInv, HashInv', AliveInv, [Next]_vars, Shared = FALSE
  PROVE  AliveInv'
<1>1. PICK own, pos : Chains(own, pos)
  BY DEF HashInv
<1>2. Typed
  BY DEF HashInv
<1>3. ASSUME UNCHANGED <<entry, allocated, released>> PROVE AliveInv'
  <2>1. KeyOf' = KeyOf /\ ValueOf' = ValueOf /\ allocated' = allocated
    BY <1>1, <1>2, <1>3, SameChains
  <2>2. \A k, v : Holds(k, v)' <=> Holds(k, v)
    BY <2>1 DEF Holds, Stores, Linked
  <2> QED BY <1>3, <2>2 DEF AliveInv
<1>4. ASSUME NEW k \in Key, NEW v \in Value, hashmap_set(k, v) PROVE AliveInv'
  <2>1. \A j \in Key, w \in Value : Holds(j, w)' <=> IF j = k THEN w = v ELSE Holds(j, w)
    <3>1. PutsHere(k, v)
      BY <1>1, <1>2, <1>4, SetStep
    <3> QED BY <3>1 DEF PutsHere, Puts, Holds
  <2>2. \A e \in Linked(allocated) : KeyOf[e] = entry[e].key /\ ValueOf[e] = entry[e].value
    BY <1>1, ChainFacts
  <2>3. \A j \in Key : ~Holds(j, v)
    <3>1. v \notin Stored
      BY <1>4 DEF hashmap_set, Storable
    <3>2. Used = {e \in Linked(allocated) : KeyOf[e] # NULL}
      BY TableFacts DEF TableIs
    <3>3. \A j \in Key : j # NULL
      BY HashMapAssumption
    <3> QED BY <2>2, <3>1, <3>2, <3>3 DEF Stored, Holds, Stores
  <2>4. released' = IF AtHead(k) THEN (released \ {v}) \cup {entry[Head(k)].value}
                    ELSE released \ {v}
    BY <1>4 DEF hashmap_set
  <2>5. ASSUME AtHead(k), NEW w \in Value, w = entry[Head(k)].value PROVE Holds(k, w)
    <3>1. Head(k) \in Linked(allocated)
      BY KeyFacts DEF Linked
    <3> QED BY <2>2, <2>5, <3>1 DEF AtHead, Holds, Stores
  <2>6. ASSUME NEW j \in Key, NEW w \in Value, Holds(j, w)' PROVE w \notin released'
    <3>1. w \in released' => w # v /\ (w \in released \/ (AtHead(k) /\ w = entry[Head(k)].value))
      <4>1. AtHead(k) => entry[Head(k)].value # v
        BY <2>3, <2>5
      <4> QED BY <2>4, <4>1
    <3>2. w # v => j # k /\ Holds(j, w)
      BY <2>1, <2>6
    <3>3. w # v => w \notin released
      BY <3>2 DEF AliveInv
    <3>4. w # v /\ AtHead(k) => w # entry[Head(k)].value
      BY <2>5, <3>2 DEF AliveInv
    <3> QED BY <3>1, <3>3, <3>4
  <2>7. \A i, j \in Key, w \in Value : Holds(i, w)' /\ Holds(j, w)' => i = j
    BY <2>1, <2>3 DEF AliveInv
  <2> QED BY <2>6, <2>7 DEF AliveInv
<1>5. ASSUME NEW k \in Key, hashmap_remove(k), ~Absent(k) PROVE AliveInv'
  <2>1. released' = released
    BY <1>5 DEF hashmap_remove
  <2>2. \/ AtHead(k) /\ entry[Head(k)].next # NULL /\ remove_head(k)
        \/ AtHead(k) /\ entry[Head(k)].next = NULL /\ remove_last(k)
        \/ ~AtHead(k) /\ remove_behind(k)
    BY <1>5 DEF hashmap_remove
  <2>3. TakesHere(k)
    BY <1>1, <1>2, <1>5, <2>2, RemoveStep
  <2>4. \A j \in Key, w \in Value : Holds(j, w)' => Holds(j, w)
    BY <2>3 DEF TakesHere, Takes, Holds
  <2> QED BY <2>1, <2>4 DEF AliveInv
<1>6. ASSUME NEW k \in Key, hashmap_remove(k), Absent(k) PROVE AliveInv'
  BY <1>3, <1>6 DEF hashmap_remove, Absent
<1>7. CASE hashmap_scan_init \/ hashmap_scan_next \/ UNCHANGED vars
             \/ \E k \in Key : hashmap_get(k)
  BY <1>3, <1>7 DEF hashmap_scan_init, hashmap_scan_next, vars, hashmap_get
<1> QED BY <1>4, <1>5, <1>6, <1>7 DEF Next

\* As long as no caller stores a value that is stored already, no value of the
\* table has been given back to the allocator.
THEOREM ValuesAlive ==
  ASSUME Shared = FALSE
  PROVE  Spec => []StoredAlive
<1>1. Init => AliveInv
  <2> SUFFICES ASSUME Init PROVE AliveInv
    OBVIOUS
  <2>1. KeyOf = [e \in Address |-> NULL] /\ Linked(allocated) = Bucket /\ Bucket \subseteq Address
    BY DEF Init, KeyOf, Empty, Address, Linked
  <2>2. \A k \in Key, v \in Value : ~Holds(k, v)
    BY <2>1, HashMapAssumption DEF Holds, Stores
  <2> QED BY <2>2 DEF AliveInv
<1>2. HashInv /\ HashInv' /\ AliveInv /\ [Next]_vars => AliveInv'
  BY AliveStep
<1>3. HashInv /\ AliveInv => StoredAlive
  <2> SUFFICES ASSUME HashInv, AliveInv PROVE StoredAlive
    OBVIOUS
  <2>1. PICK own, pos : Chains(own, pos)
    BY DEF HashInv
  <2>2. /\ Content(NextOf, KeyOf, ValueOf, allocated, own) /\ Linked(allocated) \subseteq Address
        /\ \A e \in Linked(allocated) : KeyOf[e] = entry[e].key /\ ValueOf[e] = entry[e].value
    BY <2>1, ChainFacts
  <2>3. Used = {e \in Linked(allocated) : KeyOf[e] # NULL}
    BY TableFacts DEF TableIs
  <2>4. ASSUME NEW e \in Used PROVE entry[e].value \notin released
    <3>1. KeyOf[e] \in Key /\ ValueOf[e] \in Value /\ e \in Linked(allocated)
      BY <2>2, <2>3 DEF Content
    <3>2. Holds(KeyOf[e], ValueOf[e])
      BY <3>1 DEF Holds, Stores
    <3> QED BY <2>2, <3>1, <3>2 DEF AliveInv
  <2> QED BY <2>4 DEF StoredAlive, Stored
<1> QED BY <1>1, <1>2, <1>3, HashInvInit, HashInvNext, PTL DEF Spec
=============================================================================
