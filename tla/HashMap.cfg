CONSTANTS
  a = a
  b = b
  c = c
  d = d
  Key = {a, b, c, d}
  Value = {v1, v2, v3}
  Node = {n1, n2}
  NULL = NULL
  num_entries = 2
  hash_fn <- MCHash
  Shared = FALSE
SPECIFICATION Spec
INVARIANTS ListsIntact StoredAlive
PROPERTIES ScanDelivers IsDictionary
