------------------------------ MODULE CacheRecency ------------------------------
(***************************************************************************)
(* What a bounded cache owes its users: the answers used last are the ones  *)
(* that stay.  uses is a history variable, the keys in the order of their   *)
(* last use (a write or a hit), the latest at the end; latest[k] is what    *)
(* was written last under k and how long ago.                               *)
(***************************************************************************)
EXTENDS ResponseCache, FiniteSets

CONSTANTS Keys, Values

VARIABLES
  uses,      \* the keys used so far, the one used longest ago first
  latest     \* latest[k]: the value written last under k and its age, if any

rvars == <<entries, uses, latest>>

RInit == Init /\ uses = << >> /\ latest = [k \in Keys |-> {}]

\* uses but for key, which is in it once at most.
Other(key) ==
  IF \E i \in DOMAIN uses : uses[i] = key
  THEN LET i == CHOOSE i \in DOMAIN uses : uses[i] = key
       IN  SubSeq(uses, 1, i - 1) \o SubSeq(uses, i + 1, Len(uses))
  ELSE uses

Use(key) == uses' = Append(Other(key), key)

Lookup(key) ==
  /\ Get(key)
  /\ IF Hit(key) THEN Use(key) ELSE UNCHANGED uses
  /\ UNCHANGED latest

Store(key, value) ==
  /\ Set(key, value)
  /\ Use(key)
  /\ latest' = [latest EXCEPT ![key] = {[value |-> value, age |-> 0]}]

RTick ==
  /\ Elapse
  /\ latest' = [k \in Keys |->
                  {[l EXCEPT !.age = IF @ < TTL THEN @ + 1 ELSE TTL] : l \in latest[k]}]
  /\ UNCHANGED uses

RNext ==
  \/ \E key \in Keys : Lookup(key) \/ \E value \in Values : Store(key, value)
  \/ RTick

RSpec == RInit /\ [][RNext]_rvars

-----------------------------------------------------------------------------
\* No more entries than the bound, one for a key, each of the right kind.
TypeOK ==
  /\ entries \in Seq([key : Keys, value : Values, age : 0 .. TTL])
  /\ Len(entries) <= MaxEntries
  /\ \A i, j \in DOMAIN entries : entries[i].key = entries[j].key => i = j

\* A hit is the value written last under the key, less than a TTL ago.
HitIsLatest ==
  \A key \in Keys : Hit(key) =>
    \E l \in latest[key] : l.value = Value(key) /\ l.age < TTL

\* The keys used last, as many as the cache has room for, are all hits unless
\* their TTL is over: set evicts only what was used longer ago than those.
RecentlyUsedStay ==
  \A i \in DOMAIN uses :
    /\ i > Len(uses) - MaxEntries
    /\ \A l \in latest[uses[i]] : l.age < TTL
    => Hit(uses[i])
=============================================================================
