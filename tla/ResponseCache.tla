----------------------------- MODULE ResponseCache -----------------------------
(***************************************************************************)
(* InMemoryResponseCache of cache/store.py: an ordered dictionary with the  *)
(* least recently used entry first, a TTL counted from the write, and a     *)
(* bound on its size.                                                       *)
(***************************************************************************)
EXTENDS Naturals, Sequences

CONSTANTS
  TTL,           \* response_cache_ttl_s, in clock ticks
  MaxEntries     \* response_cache_max_entries

ASSUME CacheAssumption == TTL \in Nat /\ MaxEntries \in Nat

VARIABLE entries    \* a sequence of [key, value, age], age = clock() - cached_at
                    \* counted up to TTL

Init == entries = << >>

-----------------------------------------------------------------------------
\* The entries but the one under key, which is a dictionary's only one.
Without(key) ==
  IF \E i \in DOMAIN entries : entries[i].key = key
  THEN LET i == CHOOSE i \in DOMAIN entries : entries[i].key = key
       IN  SubSeq(entries, 1, i - 1) \o SubSeq(entries, i + 1, Len(entries))
  ELSE entries

\* Slip: an entry of exactly the TTL is served.
LiveAtTTL(key) == {e \in {entries[i] : i \in DOMAIN entries} :
                     e.key = key /\ e.age <= TTL}

\* The entry under a key that get would still serve; there is one at most.
Live(key) == {e \in {entries[i] : i \in DOMAIN entries} :
                e.key = key /\ e.age < TTL}

Hit(key) == Live(key) # {}

\* What get(key) returns on a hit.
Value(key) == (CHOOSE e \in Live(key) : TRUE).value

\* Slip: a hit does not count as a use.
GetUnmoved(key) == entries' = IF Hit(key) THEN entries ELSE Without(key)

\* get(key): a hit becomes the most recently used, an expired entry goes.
Get(key) ==
  entries' = Without(key) \o (IF Hit(key) THEN <<CHOOSE e \in Live(key) : TRUE>>
                              ELSE << >>)

\* Slip: the size is checked before the write.
SetOneTooMany(key, value) ==
  LET written == Append(Without(key), [key |-> key, value |-> value, age |-> 0])
  IN  entries' = IF Len(Without(key)) > MaxEntries THEN Tail(written) ELSE written

\* set(key, value): the newest entry, and the oldest go beyond the bound.
Set(key, value) ==
  LET written == Append(Without(key), [key |-> key, value |-> value, age |-> 0])
      excess == IF Len(written) > MaxEntries THEN Len(written) - MaxEntries ELSE 0
  IN  entries' = SubSeq(written, excess + 1, Len(written))

Elapse ==
  entries' = [i \in DOMAIN entries |->
                [entries[i] EXCEPT !.age = IF @ < TTL THEN @ + 1 ELSE TTL]]
=============================================================================
