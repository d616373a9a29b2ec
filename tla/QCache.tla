------------------------------- MODULE QCache -------------------------------
(***************************************************************************)
(* QCache of Qt, as the two file caches use it.  A cache is a sequence of  *)
(* entries with a key and a cost, the last recently used one first.        *)
(***************************************************************************)
EXTENDS Naturals, Sequences, SequencesExt, FiniteSetsExt

PlacesOf(entries, key) == {i \in DOMAIN entries : entries[i].key = key}
EntriesOf(entries, key) == {entries[i] : i \in PlacesOf(entries, key)}
Without(entries, key) ==
  IF PlacesOf(entries, key) = {} THEN entries ELSE RemoveAt(entries, Min(PlacesOf(entries, key)))

(* The cost of the first n entries. *)
CostOf(entries, n) ==
  LET sum[i \in 0 .. n] == IF i = 0 THEN 0 ELSE sum[i - 1] + entries[i].cost IN sum[n]

(* insert: an entry replaces that of its key, the least recently used go   *)
(* until it fits; one that never fits is deleted itself.                   *)
Insert(entries, e, maxCost) ==
  LET rest == Without(entries, e.key)
      fits == {n \in 0 .. Len(rest) : CostOf(rest, n) + e.cost <= maxCost}
  IN  IF e.cost > maxCost THEN rest ELSE <<e>> \o SubSeq(rest, 1, Max(fits))

(* object: the entry of a key, if there is one, is now the last used. *)
Used(entries, key) ==
  IF PlacesOf(entries, key) = {} THEN entries
  ELSE <<entries[Min(PlacesOf(entries, key))]>> \o Without(entries, key)
=============================================================================
