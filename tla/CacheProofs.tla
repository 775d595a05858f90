------------------------------ MODULE CacheProofs ------------------------------
(***************************************************************************)
(* The response cache for every set of keys and values, every TTL and every *)
(* size, none included.                                                     *)
(***************************************************************************)
EXTENDS CacheRecency, SequenceTheorems, WellFoundedInduction, TLAPS

Entry == [key : Keys, value : Values, age : 0 .. TTL]

Write == [value : Values, age : 0 .. TTL]

-----------------------------------------------------------------------------
(***************************************************************************)
(* Sequences of which some elements have gone.                              *)
(***************************************************************************)
\* f tells where in s the elements of d come from, which are in their order.
Embedding(f, d, s) ==
  /\ f \in [1 .. Len(d) -> 1 .. Len(s)]
  /\ \A i, j \in 1 .. Len(d) : i < j => f[i] < f[j]
  /\ \A j \in 1 .. Len(d) : d[j] = s[f[j]] /\ f[j] >= j

\* d is s but for the element at a.
Gap(d, s, a) ==
  /\ a \in 1 .. Len(s)
  /\ Len(d) = Len(s) - 1
  /\ \A j \in 1 .. Len(d) : d[j] = IF j < a THEN s[j] ELSE s[j + 1]

LEMMA RemoveOne ==
  ASSUME NEW S, NEW s \in Seq(S), NEW a \in 1 .. Len(s)
  PROVE  LET d == SubSeq(s, 1, a - 1) \o SubSeq(s, a + 1, Len(s))
         IN  d \in Seq(S) /\ Gap(d, s, a)
<1> DEFINE b == SubSeq(s, 1, a - 1)
           c == SubSeq(s, a + 1, Len(s))
<1>1. Len(s) \in Nat /\ \A i \in 1 .. Len(s) : s[i] \in S
  BY ElementOfSeq
<1>2. /\ b \in Seq(S) /\ Len(b) = a - 1
      /\ \A i \in 1 .. a - 1 : b[i] = s[i]
  <2>1. \A i \in 1 .. a - 1 : s[i] \in S
    BY <1>1
  <2>2. /\ b \in Seq(S)
        /\ Len(b) = IF 1 <= a - 1 THEN (a - 1) - 1 + 1 ELSE 0
        /\ \A i \in 1 .. (a - 1) - 1 + 1 : b[i] = s[1 + i - 1]
    BY <2>1, SubSeqProperties
  <2> HIDE DEF b
  <2>3. QED
    BY <1>1, <2>2
<1>3. /\ c \in Seq(S) /\ Len(c) = Len(s) - a
      /\ \A i \in 1 .. Len(s) - a : c[i] = s[a + i]
  <2>1. \A i \in a + 1 .. Len(s) : s[i] \in S
    BY <1>1
  <2>2. /\ c \in Seq(S)
        /\ Len(c) = IF a + 1 <= Len(s) THEN Len(s) - (a + 1) + 1 ELSE 0
        /\ \A i \in 1 .. Len(s) - (a + 1) + 1 : c[i] = s[a + 1 + i - 1]
    BY <1>1, <2>1, SubSeqProperties
  <2> HIDE DEF c
  <2>3. QED
    BY <1>1, <2>2
<1> HIDE DEF b, c
<1>4. /\ b \o c \in Seq(S) /\ Len(b \o c) = Len(b) + Len(c)
      /\ \A i \in 1 .. Len(b) + Len(c) :
           (b \o c)[i] = IF i <= Len(b) THEN b[i] ELSE c[i - Len(b)]
  BY <1>2, <1>3, ConcatProperties
<1> DEFINE d == b \o c
<1> HIDE DEF d
<1>5. d \in Seq(S) /\ Len(d) = Len(s) - 1
  BY <1>1, <1>2, <1>3, <1>4 DEF d
<1>6. ASSUME NEW j \in 1 .. Len(d) PROVE d[j] = IF j < a THEN s[j] ELSE s[j + 1]
  <2>1. CASE j < a
    BY <1>1, <1>2, <1>3, <1>4, <1>5, <1>6, <2>1 DEF d
  <2>2. CASE ~(j < a)
    <3>1. /\ d[j] = c[j - Len(b)] /\ Len(b) = a - 1
          /\ j - Len(b) \in 1 .. Len(s) - a
      BY <1>1, <1>2, <1>3, <1>4, <1>5, <1>6, <2>2 DEF d
    <3>2. a + (j - Len(b)) = j + 1
      BY <1>1, <1>5, <1>6, <3>1
    <3>3. QED
      BY <1>3, <2>2, <3>1, <3>2
  <2>3. QED
    BY <2>1, <2>2
<1>7. QED
  BY <1>5, <1>6 DEF b, c, d, Gap

\* What Without and Other have in common, for the sequence s from which the
\* element at a is taken.
LEMMA RemovedEmbeds ==
  ASSUME NEW S, NEW s \in Seq(S), NEW d \in Seq(S), NEW a, Gap(d, s, a)
  PROVE  \E f : /\ Embedding(f, d, s)
                /\ \A j \in 1 .. Len(d) : f[j] # a
                /\ \A i \in 1 .. Len(s) : i # a => \E j \in 1 .. Len(d) : f[j] = i
<1> DEFINE f == [j \in 1 .. Len(d) |-> IF j < a THEN j ELSE j + 1]
<1>1. \A j \in 1 .. Len(d) : d[j] = IF j < a THEN s[j] ELSE s[j + 1]
  BY DEF Gap
<1>2. a \in 1 .. Len(s) /\ Len(s) \in Nat /\ Len(d) = Len(s) - 1
  BY DEF Gap
<1>3. Embedding(f, d, s) /\ \A j \in 1 .. Len(d) : f[j] # a
  BY <1>1, <1>2 DEF Embedding
<1>4. ASSUME NEW i \in 1 .. Len(s), i # a PROVE \E j \in 1 .. Len(d) : f[j] = i
  <2>1. CASE i < a
    <3>1. i \in 1 .. Len(d) /\ f[i] = i
      BY <1>1, <1>2, <2>1
    <3>2. QED
      BY <3>1
  <2>2. CASE ~(i < a)
    <3>1. i - 1 \in 1 .. Len(d) /\ ~(i - 1 < a) /\ i - 1 + 1 = i
      BY <1>1, <1>2, <1>4, <2>2
    <3>2. QED
      BY <3>1
  <2>3. QED
    BY <2>1, <2>2
<1>5. QED
  BY <1>1, <1>3, <1>4

LEMMA WholeEmbeds ==
  ASSUME NEW S, NEW s \in Seq(S)
  PROVE  \E f : /\ Embedding(f, s, s)
                /\ \A i \in 1 .. Len(s) : \E j \in 1 .. Len(s) : f[j] = i
<1> DEFINE f == [j \in 1 .. Len(s) |-> j]
<1>1. Len(s) \in Nat
  OBVIOUS
<1>2. Embedding(f, s, s) /\ \A i \in 1 .. Len(s) : f[i] = i
  BY <1>1 DEF Embedding
<1>3. QED
  BY <1>2

\* Every set of numbers with 0 in it, and n + 1 with n, holds them all.
LEMMA LeastNatural ==
  ASSUME NEW T, T \subseteq Nat, T # {}
  PROVE  \E x \in T : \A y \in T : x <= y
<1>1. PICK x \in T : \A y \in T : <<y, x>> \notin OpToRel(<, Nat)
  BY NatLessThanWellFounded, WFMin
<1>2. \A y \in T : y < x => <<y, x>> \in OpToRel(<, Nat)
  BY DEF OpToRel
<1>3. \A y \in T : ~(y < x)
  BY <1>1, <1>2
<1>4. QED
  BY <1>3

LEMMA Induction ==
  ASSUME NEW T, T \subseteq Nat, 0 \in T, \A n \in T : n + 1 \in T
  PROVE  T = Nat
<1>1. SUFFICES ASSUME Nat \ T # {} PROVE FALSE
  OBVIOUS
<1>2. PICK x \in Nat \ T : \A y \in Nat \ T : x <= y
  BY <1>1, LeastNatural
<1>3. x # 0 /\ x - 1 \in Nat
  BY <1>2
<1>4. x - 1 \in T
  BY <1>2, <1>3
<1>5. QED
  BY <1>3, <1>4

\* Numbers that increase are as far apart as their places at least.
LEMMA Increasing ==
  ASSUME NEW n \in Nat, NEW f \in [1 .. n -> Int],
         \A i, j \in 1 .. n : i < j => f[i] < f[j]
  PROVE  \A i, j \in 1 .. n : i <= j => f[j] - f[i] >= j - i
<1> DEFINE T == {d \in Nat : \A i \in 1 .. n : i + d <= n => f[i + d] - f[i] >= d}
<1>1. 0 \in T
  OBVIOUS
<1>2. ASSUME NEW d \in T PROVE d + 1 \in T
  <2>1. SUFFICES ASSUME NEW i \in 1 .. n, i + (d + 1) <= n
                 PROVE  f[i + (d + 1)] - f[i] >= d + 1
    OBVIOUS
  <2>2. d \in Nat /\ i + d \in 1 .. n /\ i + (d + 1) \in 1 .. n /\ i + d < i + (d + 1)
    BY <2>1
  <2>3. f[i + d] - f[i] >= d /\ f[i + d] < f[i + (d + 1)]
    BY <2>2
  <2>4. f[i] \in Int /\ f[i + d] \in Int /\ f[i + (d + 1)] \in Int
    BY <2>1, <2>2
  <2>5. QED
    BY <2>2, <2>3, <2>4
<1>3. T = Nat
  BY <1>1, <1>2, Induction
<1>4. QED
  <2>1. SUFFICES ASSUME NEW i \in 1 .. n, NEW j \in 1 .. n, i <= j
                 PROVE  f[j] - f[i] >= j - i
    OBVIOUS
  <2>2. j - i \in Nat /\ i + (j - i) = j
    BY <2>1
  <2>3. j - i \in T
    BY <1>3, <2>2
  <2>4. QED
    BY <2>1, <2>2, <2>3

-----------------------------------------------------------------------------
(***************************************************************************)
(* The inductive invariant, of a cache s whose keys have been used in the   *)
(* order u and written last as l says: set goes through an s that is one    *)
(* entry too long.                                                          *)
(***************************************************************************)
Distinct(u) == \A p, q \in 1 .. Len(u) : u[p] = u[q] => p = q

Holds(s, key) == \E i \in 1 .. Len(s) : s[i].key = key

\* The entries are in the order of their last use.
Ordered(s, u) ==
  \A i, j \in 1 .. Len(s) : \A p, q \in 1 .. Len(u) :
    i < j /\ u[p] = s[i].key /\ u[q] = s[j].key => p < q

\* An entry was used.
Used(s, u) == \A i \in 1 .. Len(s) : \E p \in 1 .. Len(u) : u[p] = s[i].key

\* An entry is what was written last, and as old.
AreLatest(s, l) ==
  \A i \in 1 .. Len(s) : l[s[i].key] = {[value |-> s[i].value, age |-> s[i].age]}

\* The keys used last are there, unless they expired.
RecentAreHeld(s, u, l) ==
  \A p \in 1 .. Len(u) :
    /\ p > Len(u) - MaxEntries
    /\ \A x \in l[u[p]] : x.age < TTL
    => Holds(s, u[p])

Good(s, u, l) ==
  /\ s \in Seq(Entry)
  /\ u \in Seq(Keys)
  /\ l \in [Keys -> SUBSET Write]
  /\ Distinct(u)
  /\ Ordered(s, u)
  /\ Used(s, u)
  /\ AreLatest(s, l)
  /\ RecentAreHeld(s, u, l)

IInv == Good(entries, uses, latest) /\ Len(entries) <= MaxEntries

-----------------------------------------------------------------------------
(***************************************************************************)
(* What the invariant says of one cache, and what taking keys away leaves.  *)
(***************************************************************************)
\* A key has one entry at most.
LEMMA OneEntry ==
  ASSUME NEW s \in Seq(Entry), NEW u \in Seq(Keys), Ordered(s, u), Used(s, u)
  PROVE  \A i, j \in 1 .. Len(s) : s[i].key = s[j].key => i = j
<1>1. SUFFICES ASSUME NEW i \in 1 .. Len(s), NEW j \in 1 .. Len(s),
                      s[i].key = s[j].key, i < j
               PROVE  FALSE
  <2>1. Len(s) \in Nat
    OBVIOUS
  <2>2. QED
    BY <2>1
<1>2. PICK p \in 1 .. Len(u) : u[p] = s[i].key
  BY DEF Used
<1>3. p < p
  BY <1>1, <1>2 DEF Ordered
<1>4. Len(u) \in Nat
  OBVIOUS
<1>5. QED
  BY <1>3, <1>4

\* Entries and uses that are left are in the order they were in.
LEMMA EmbeddingsKeepOrder ==
  ASSUME NEW s \in Seq(Entry), NEW u \in Seq(Keys), Ordered(s, u),
         NEW d \in Seq(Entry), NEW e, Embedding(e, d, s),
         NEW v \in Seq(Keys), NEW h, Embedding(h, v, u)
  PROVE  Ordered(d, v)
<1>1. SUFFICES ASSUME NEW i \in 1 .. Len(d), NEW j \in 1 .. Len(d),
                      NEW p \in 1 .. Len(v), NEW q \in 1 .. Len(v),
                      i < j, v[p] = d[i].key, v[q] = d[j].key
               PROVE  p < q
  BY DEF Ordered
<1>2. /\ e[i] \in 1 .. Len(s) /\ e[j] \in 1 .. Len(s) /\ e[i] < e[j]
      /\ s[e[i]] = d[i] /\ s[e[j]] = d[j]
  BY <1>1 DEF Embedding
<1>3. /\ h[p] \in 1 .. Len(u) /\ h[q] \in 1 .. Len(u)
      /\ u[h[p]] = v[p] /\ u[h[q]] = v[q]
      /\ (q < p => h[q] < h[p])
  BY DEF Embedding
<1>4. h[p] < h[q]
  BY <1>1, <1>2, <1>3 DEF Ordered
<1>5. Len(u) \in Nat /\ Len(v) \in Nat
  OBVIOUS
<1>6. QED
  BY <1>3, <1>4, <1>5

\* No two of the keys that are left are the same.
LEMMA EmbeddingsKeepDistinct ==
  ASSUME NEW u \in Seq(Keys), Distinct(u),
         NEW v \in Seq(Keys), NEW h, Embedding(h, v, u)
  PROVE  Distinct(v)
<1>1. SUFFICES ASSUME NEW p \in 1 .. Len(v), NEW q \in 1 .. Len(v), v[p] = v[q]
               PROVE  p = q
  BY DEF Distinct
<1>2. /\ h[p] \in 1 .. Len(u) /\ h[q] \in 1 .. Len(u)
      /\ u[h[p]] = v[p] /\ u[h[q]] = v[q]
      /\ (q < p => h[q] < h[p]) /\ (p < q => h[p] < h[q])
  BY DEF Embedding
<1>3. h[p] = h[q]
  BY <1>1, <1>2 DEF Distinct
<1>4. Len(u) \in Nat /\ Len(v) \in Nat
  OBVIOUS
<1>5. QED
  BY <1>2, <1>3, <1>4

\* Without(key) is the entries of the other keys, and is shorter if key had one.
LEMMA WithoutEmbeds ==
  ASSUME IInv, NEW key \in Keys
  PROVE  /\ Without(key) \in Seq(Entry)
         /\ Len(Without(key)) = IF Holds(entries, key) THEN Len(entries) - 1
                                ELSE Len(entries)
         /\ ~ Holds(Without(key), key)
         /\ \E e : /\ Embedding(e, Without(key), entries)
                   /\ \A i \in 1 .. Len(entries) : entries[i].key # key =>
                        \E j \in 1 .. Len(Without(key)) : e[j] = i
<1>1. entries \in Seq(Entry) /\ Len(entries) \in Nat /\ DOMAIN entries = 1 .. Len(entries)
  BY DEF IInv, Good
<1>2. \A i, j \in 1 .. Len(entries) : entries[i].key = entries[j].key => i = j
  BY OneEntry DEF IInv, Good
<1>3. CASE Holds(entries, key)
  <2> DEFINE a == CHOOSE i \in DOMAIN entries : entries[i].key = key
             d == SubSeq(entries, 1, a - 1) \o SubSeq(entries, a + 1, Len(entries))
  <2>1. a \in 1 .. Len(entries) /\ entries[a].key = key
    BY <1>1, <1>3 DEF Holds
  <2>2. Without(key) = d
    BY <1>1, <1>3 DEF Holds, Without
  <2> HIDE DEF a
  <2>3. d \in Seq(Entry) /\ Gap(d, entries, a)
    BY <1>1, <2>1, RemoveOne
  <2> HIDE DEF d
  <2>4. \E f : /\ Embedding(f, d, entries)
               /\ \A j \in 1 .. Len(d) : f[j] # a
               /\ \A i \in 1 .. Len(entries) : i # a => \E j \in 1 .. Len(d) : f[j] = i
    BY <1>1, <2>3, RemovedEmbeds
  <2>5. PICK f : /\ Embedding(f, d, entries)
                 /\ \A j \in 1 .. Len(d) : f[j] # a
                 /\ \A i \in 1 .. Len(entries) : i # a => \E j \in 1 .. Len(d) : f[j] = i
    BY <2>4
  <2>6. ~ Holds(d, key)
    BY <1>2, <2>1, <2>5 DEF Holds, Embedding
  <2>7. \A i \in 1 .. Len(entries) : entries[i].key # key => \E j \in 1 .. Len(d) : f[j] = i
    BY <2>1, <2>5
  <2>8. QED
    BY <1>3, <2>2, <2>3, <2>5, <2>6, <2>7 DEF Gap
<1>4. CASE ~ Holds(entries, key)
  <2>1. Without(key) = entries
    BY <1>1, <1>4 DEF Holds, Without
  <2>2. QED
    BY <1>1, <1>4, <2>1, WholeEmbeds
<1>5. QED
  BY <1>3, <1>4

\* Other(key) is the other keys that were used.
LEMMA OtherEmbeds ==
  ASSUME IInv, NEW key \in Keys
  PROVE  /\ Other(key) \in Seq(Keys)
         /\ Len(Other(key)) = IF \E p \in 1 .. Len(uses) : uses[p] = key
                              THEN Len(uses) - 1 ELSE Len(uses)
         /\ \A j \in 1 .. Len(Other(key)) : Other(key)[j] # key
         /\ \E h : /\ Embedding(h, Other(key), uses)
                   /\ \A p \in 1 .. Len(uses) : uses[p] # key =>
                        \E j \in 1 .. Len(Other(key)) : h[j] = p
<1>1. uses \in Seq(Keys) /\ Len(uses) \in Nat /\ DOMAIN uses = 1 .. Len(uses)
  BY DEF IInv, Good
<1>2. \A i, j \in 1 .. Len(uses) : uses[i] = uses[j] => i = j
  BY DEF IInv, Good, Distinct
<1>3. CASE \E p \in 1 .. Len(uses) : uses[p] = key
  <2> DEFINE a == CHOOSE i \in DOMAIN uses : uses[i] = key
             d == SubSeq(uses, 1, a - 1) \o SubSeq(uses, a + 1, Len(uses))
  <2>1. a \in 1 .. Len(uses) /\ uses[a] = key
    BY <1>1, <1>3
  <2>2. Other(key) = d
    BY <1>1, <1>3 DEF Other
  <2> HIDE DEF a
  <2>3. d \in Seq(Keys) /\ Gap(d, uses, a)
    BY <1>1, <2>1, RemoveOne
  <2> HIDE DEF d
  <2>4. \E f : /\ Embedding(f, d, uses)
               /\ \A j \in 1 .. Len(d) : f[j] # a
               /\ \A i \in 1 .. Len(uses) : i # a => \E j \in 1 .. Len(d) : f[j] = i
    BY <1>1, <2>3, RemovedEmbeds
  <2>5. PICK f : /\ Embedding(f, d, uses)
                 /\ \A j \in 1 .. Len(d) : f[j] # a
                 /\ \A i \in 1 .. Len(uses) : i # a => \E j \in 1 .. Len(d) : f[j] = i
    BY <2>4
  <2>6. \A j \in 1 .. Len(d) : d[j] # key
    BY <1>2, <2>1, <2>5 DEF Embedding
  <2>7. \A i \in 1 .. Len(uses) : uses[i] # key => \E j \in 1 .. Len(d) : f[j] = i
    BY <2>1, <2>5
  <2>8. QED
    BY <1>3, <2>2, <2>3, <2>5, <2>6, <2>7 DEF Gap
<1>4. CASE ~ \E p \in 1 .. Len(uses) : uses[p] = key
  <2>1. Other(key) = uses
    BY <1>1, <1>4 DEF Other
  <2>2. QED
    BY <1>1, <1>4, <2>1, WholeEmbeds
<1>5. QED
  BY <1>3, <1>4

-----------------------------------------------------------------------------
(***************************************************************************)
(* The steps.                                                               *)
(***************************************************************************)
\* A key that is used goes to the end, with its entry.
LEMMA MoveToEnd ==
  ASSUME IInv, NEW key \in Keys, NEW e \in Entry, e.key = key,
         NEW l \in [Keys -> SUBSET Write],
         l[key] = {[value |-> e.value, age |-> e.age]},
         \A k \in Keys \ {key} : l[k] = latest[k]
  PROVE  Good(Append(Without(key), e), Append(Other(key), key), l)
<1> DEFINE d == Without(key)
           v == Other(key)
           s == Append(d, e)
           u == Append(v, key)
<1>1. /\ d \in Seq(Entry) /\ Len(d) \in Nat /\ ~ Holds(d, key)
      /\ v \in Seq(Keys) /\ Len(v) \in Nat /\ Len(uses) \in Nat
      /\ Len(uses) <= Len(v) + 1
      /\ \A j \in 1 .. Len(v) : v[j] # key
  <2>1. uses \in Seq(Keys)
    BY DEF IInv, Good
  <2>2. QED
    BY <2>1, WithoutEmbeds, OtherEmbeds
<1>2. PICK f : /\ Embedding(f, d, entries)
               /\ \A i \in 1 .. Len(entries) : entries[i].key # key =>
                    \E j \in 1 .. Len(d) : f[j] = i
  BY WithoutEmbeds
<1>3. PICK h : /\ Embedding(h, v, uses)
               /\ \A p \in 1 .. Len(uses) : uses[p] # key =>
                    \E j \in 1 .. Len(v) : h[j] = p
  BY OtherEmbeds
<1> HIDE DEF d, v
<1>4. /\ s \in Seq(Entry) /\ Len(s) = Len(d) + 1
      /\ \A i \in 1 .. Len(d) : s[i] = d[i]
      /\ s[Len(s)] = e
  BY <1>1
<1>5. /\ u \in Seq(Keys) /\ Len(u) = Len(v) + 1
      /\ \A p \in 1 .. Len(v) : u[p] = v[p]
      /\ u[Len(u)] = key
  BY <1>1
<1> HIDE DEF s, u
<1>6. \A i \in 1 .. Len(d) : d[i].key # key /\ d[i].key \in Keys
  <2>1. \A i \in 1 .. Len(d) : d[i] \in Entry
    BY <1>1, ElementOfSeq
  <2>2. \A i \in 1 .. Len(d) : d[i].key \in Keys
    BY <2>1 DEF Entry
  <2>3. \A i \in 1 .. Len(d) : d[i].key # key
    BY <1>1 DEF Holds
  <2>4. QED
    BY <2>2, <2>3
<1>7. \A i \in 1 .. Len(s) : i \notin 1 .. Len(d) => i = Len(s)
  <2>1. Len(d) \in Nat /\ Len(s) = Len(d) + 1
    BY <1>1, <1>4
  <2>2. QED
    BY <2>1
<1>8. Ordered(d, v) /\ Distinct(v)
  BY <1>1, <1>2, <1>3, EmbeddingsKeepOrder, EmbeddingsKeepDistinct DEF IInv, Good
<1>9. \A i \in 1 .. Len(d) : \E p \in 1 .. Len(v) : v[p] = d[i].key
  <2>1. TAKE i \in 1 .. Len(d)
  <2>2. f[i] \in 1 .. Len(entries) /\ d[i] = entries[f[i]]
    BY <1>2 DEF Embedding
  <2>3. PICK p \in 1 .. Len(uses) : uses[p] = d[i].key
    <3>1. Used(entries, uses)
      BY DEF IInv, Good
    <3>2. QED
      BY <2>2, <3>1 DEF Used
  <2>4. PICK j \in 1 .. Len(v) : h[j] = p
    BY <1>3, <1>6, <2>3
  <2>5. v[j] = uses[h[j]]
    BY <1>3 DEF Embedding
  <2>6. QED
    BY <2>3, <2>4, <2>5
<1>10. Ordered(s, u)
  <2>1. SUFFICES ASSUME NEW i \in 1 .. Len(s), NEW j \in 1 .. Len(s),
                        NEW p \in 1 .. Len(u), NEW q \in 1 .. Len(u),
                        i < j, u[p] = s[i].key, u[q] = s[j].key
                 PROVE  p < q
    BY DEF Ordered
  <2>2. i \in 1 .. Len(d) /\ s[i] = d[i]
    BY <1>1, <1>4, <2>1
  <2>3. p \in 1 .. Len(v) /\ v[p] = d[i].key
    BY <1>1, <1>5, <1>6, <2>1, <2>2
  <2>4. CASE j \in 1 .. Len(d)
    <3>1. s[j] = d[j]
      BY <1>4, <2>4
    <3>2. q \in 1 .. Len(v) /\ v[q] = d[j].key
      BY <1>1, <1>5, <1>6, <2>1, <2>4, <3>1
    <3>3. QED
      BY <1>8, <2>1, <2>2, <2>3, <2>4, <3>2 DEF Ordered
  <2>5. CASE j \notin 1 .. Len(d)
    <3>1. j = Len(s)
      BY <1>7, <2>5
    <3>2. u[q] = key
      BY <1>4, <2>1, <3>1
    <3>3. q = Len(v) + 1
      BY <1>1, <1>5, <3>2
    <3>4. QED
      BY <1>1, <2>3, <3>3
  <2>6. QED
    BY <2>4, <2>5
<1>11. Distinct(u)
  <2>1. \A p \in 1 .. Len(u) : p \in 1 .. Len(v) \/ p = Len(u)
    BY <1>1, <1>5
  <2>2. QED
    BY <1>1, <1>5, <1>8, <2>1 DEF Distinct
<1>12. Used(s, u)
  <2>1. SUFFICES ASSUME NEW i \in 1 .. Len(s)
                 PROVE  \E p \in 1 .. Len(u) : u[p] = s[i].key
    BY DEF Used
  <2>2. CASE i \in 1 .. Len(d)
    <3>1. PICK p \in 1 .. Len(v) : v[p] = d[i].key
      BY <1>9, <2>2
    <3>2. p \in 1 .. Len(u)
      BY <1>1, <1>5
    <3>3. QED
      BY <1>4, <1>5, <2>2, <3>1, <3>2
  <2>3. CASE i \notin 1 .. Len(d)
    <3>1. i = Len(s) /\ Len(u) \in 1 .. Len(u)
      BY <1>1, <1>5, <1>7, <2>3
    <3>2. QED
      BY <1>4, <1>5, <3>1
  <2>4. QED
    BY <2>2, <2>3
<1>13. AreLatest(s, l)
  <2>1. SUFFICES ASSUME NEW i \in 1 .. Len(s)
                 PROVE  l[s[i].key] = {[value |-> s[i].value, age |-> s[i].age]}
    BY DEF AreLatest
  <2>2. CASE i \in 1 .. Len(d)
    <3>1. f[i] \in 1 .. Len(entries) /\ d[i] = entries[f[i]]
      BY <1>2, <2>2 DEF Embedding
    <3>2. latest[d[i].key] = {[value |-> d[i].value, age |-> d[i].age]}
      BY <3>1 DEF IInv, Good, AreLatest
    <3>3. l[d[i].key] = latest[d[i].key]
      BY <1>6, <2>2
    <3>4. QED
      BY <1>4, <2>2, <3>2, <3>3
  <2>3. CASE i \notin 1 .. Len(d)
    <3>1. i = Len(s)
      BY <1>7, <2>3
    <3>2. QED
      BY <1>4, <3>1
  <2>4. QED
    BY <2>2, <2>3
<1>14. RecentAreHeld(s, u, l)
  <2>1. SUFFICES ASSUME NEW p \in 1 .. Len(u), p > Len(u) - MaxEntries,
                        \A x \in l[u[p]] : x.age < TTL
                 PROVE  Holds(s, u[p])
    BY DEF RecentAreHeld
  <2>2. CASE p \in 1 .. Len(v)
    <3>1. /\ h[p] \in 1 .. Len(uses) /\ v[p] = uses[h[p]] /\ h[p] >= p
          /\ u[p] = v[p] /\ v[p] \in Keys /\ v[p] # key
      <4>1. h[p] \in 1 .. Len(uses)
        BY <1>3, <2>2 DEF Embedding
      <4>2. v[p] = uses[h[p]] /\ h[p] >= p
        BY <1>3, <2>2 DEF Embedding
      <4>3. u[p] = v[p] /\ v[p] \in Keys /\ v[p] # key
        BY <1>1, <1>5, <2>2, ElementOfSeq
      <4>4. QED
        BY <4>1, <4>2, <4>3
    <3>2. h[p] > Len(uses) - MaxEntries
      BY <1>1, <1>5, <2>1, <2>2, <3>1, CacheAssumption
    <3>3. \A x \in latest[uses[h[p]]] : x.age < TTL
      BY <2>1, <3>1
    <3>4. PICK i \in 1 .. Len(entries) : entries[i].key = uses[h[p]]
      BY <3>1, <3>2, <3>3 DEF IInv, Good, RecentAreHeld, Holds
    <3>5. PICK j \in 1 .. Len(d) : f[j] = i
      BY <1>2, <3>1, <3>4
    <3>6. d[j] = entries[i]
      BY <1>2, <3>5 DEF Embedding
    <3>7. j \in 1 .. Len(s) /\ s[j] = d[j]
      BY <1>1, <1>4
    <3>8. QED
      BY <3>1, <3>4, <3>6, <3>7 DEF Holds
  <2>3. CASE p \notin 1 .. Len(v)
    <3>1. u[p] = key
      BY <1>1, <1>5, <2>3
    <3>2. Len(s) \in 1 .. Len(s)
      BY <1>1, <1>4
    <3>3. QED
      BY <1>4, <3>1, <3>2 DEF Holds
  <2>4. QED
    BY <2>2, <2>3
<1>15. QED
  BY <1>4, <1>5, <1>10, <1>11, <1>12, <1>13, <1>14 DEF Good, s, u, d, v

\* What set evicts was used longer ago than the keys it keeps.
LEMMA EvictFirst ==
  ASSUME NEW s, NEW u, NEW l, Good(s, u, l), Len(s) = MaxEntries + 1
  PROVE  /\ Good(SubSeq(s, 2, Len(s)), u, l)
         /\ Len(SubSeq(s, 2, Len(s))) = MaxEntries
<1> DEFINE d == SubSeq(s, 2, Len(s))
<1>1. /\ s \in Seq(Entry) /\ u \in Seq(Keys) /\ Len(s) \in Nat /\ Len(u) \in Nat
      /\ MaxEntries \in Nat /\ Len(s) = MaxEntries + 1
  BY CacheAssumption DEF Good
<1>2. /\ d \in Seq(Entry) /\ Len(d) = MaxEntries
      /\ \A j \in 1 .. Len(d) : d[j] = s[j + 1] /\ j + 1 \in 1 .. Len(s)
  <2>1. \A i \in 2 .. Len(s) : s[i] \in Entry
    BY <1>1, ElementOfSeq
  <2>2. /\ d \in Seq(Entry)
        /\ Len(d) = IF 2 <= Len(s) THEN Len(s) - 2 + 1 ELSE 0
        /\ \A i \in 1 .. Len(s) - 2 + 1 : d[i] = s[2 + i - 1]
    BY <1>1, <2>1, SubSeqProperties
  <2> HIDE DEF d
  <2>3. Len(d) = MaxEntries
    BY <1>1, <2>2
  <2>4. ASSUME NEW j \in 1 .. Len(d) PROVE d[j] = s[j + 1] /\ j + 1 \in 1 .. Len(s)
    <3>1. j \in 1 .. Len(s) - 2 + 1 /\ 2 + j - 1 = j + 1 /\ j + 1 \in 1 .. Len(s)
      BY <1>1, <2>3, <2>4
    <3>2. QED
      BY <2>2, <3>1
  <2>5. QED
    BY <2>2, <2>3, <2>4
<1> HIDE DEF d
<1>3. Ordered(d, u)
  <2>1. SUFFICES ASSUME NEW i \in 1 .. Len(d), NEW j \in 1 .. Len(d),
                        NEW p \in 1 .. Len(u), NEW q \in 1 .. Len(u),
                        i < j, u[p] = d[i].key, u[q] = d[j].key
                 PROVE  p < q
    BY DEF Ordered
  <2>2. /\ i + 1 \in 1 .. Len(s) /\ j + 1 \in 1 .. Len(s) /\ i + 1 < j + 1
        /\ d[i] = s[i + 1] /\ d[j] = s[j + 1]
    BY <1>2, <2>1
  <2>3. QED
    BY <2>1, <2>2 DEF Good, Ordered
<1>4. Used(d, u)
  BY <1>2 DEF Good, Used
<1>5. AreLatest(d, l)
  BY <1>2 DEF Good, AreLatest
<1>6. RecentAreHeld(d, u, l)
  <2> DEFINE f == [i \in 1 .. Len(s) |-> CHOOSE p \in 1 .. Len(u) : u[p] = s[i].key]
  <2>1. /\ f \in [1 .. Len(s) -> Int]
        /\ \A i \in 1 .. Len(s) : f[i] \in 1 .. Len(u) /\ u[f[i]] = s[i].key
    <3>1. \A i \in 1 .. Len(s) : \E p \in 1 .. Len(u) : u[p] = s[i].key
      BY DEF Good, Used
    <3>2. \A i \in 1 .. Len(s) : f[i] \in 1 .. Len(u) /\ u[f[i]] = s[i].key
      BY <3>1
    <3>3. 1 .. Len(u) \subseteq Int
      BY <1>1
    <3>4. QED
      BY <3>2, <3>3
  <2> HIDE DEF f
  <2>2. \A i, j \in 1 .. Len(s) : i < j => f[i] < f[j]
    BY <2>1 DEF Good, Ordered
  <2>3. f[Len(s)] - f[1] >= Len(s) - 1
    <3>1. Len(s) \in Nat /\ 1 \in 1 .. Len(s) /\ Len(s) \in 1 .. Len(s) /\ 1 <= Len(s)
      BY <1>1
    <3>2. \A i, j \in 1 .. Len(s) : i <= j => f[j] - f[i] >= j - i
      BY <2>1, <2>2, <3>1, Increasing
    <3>3. QED
      BY <3>1, <3>2
  <2>4. f[1] <= Len(u) - MaxEntries
    BY <1>1, <2>1, <2>3
  <2>5. SUFFICES ASSUME NEW p \in 1 .. Len(u), p > Len(u) - MaxEntries,
                        \A x \in l[u[p]] : x.age < TTL
                 PROVE  Holds(d, u[p])
    BY DEF RecentAreHeld
  <2>6. PICK i \in 1 .. Len(s) : s[i].key = u[p]
    BY <2>5 DEF Good, RecentAreHeld, Holds
  <2>7. i # 1
    BY <1>1, <2>1, <2>4, <2>5, <2>6 DEF Good, Distinct
  <2>8. i - 1 \in 1 .. Len(d) /\ i - 1 + 1 = i
    BY <1>1, <1>2, <2>7
  <2>9. d[i - 1] = s[i]
    BY <1>2, <2>8
  <2>10. QED
    BY <2>6, <2>8, <2>9 DEF Holds
<1>7. QED
  BY <1>1, <1>2, <1>3, <1>4, <1>5, <1>6 DEF Good, d

\* A hit is on what was written last.
LEMMA HitFacts ==
  ASSUME IInv, NEW key \in Keys, NEW e \in Live(key)
  PROVE  /\ e \in Entry /\ e.key = key /\ e.age < TTL
         /\ latest[key] = {[value |-> e.value, age |-> e.age]}
         /\ Holds(entries, key)
<1>1. entries \in Seq(Entry) /\ DOMAIN entries = 1 .. Len(entries)
  BY DEF IInv, Good
<1>2. PICK i \in 1 .. Len(entries) : entries[i] = e
  BY <1>1 DEF Live
<1>3. e.key = key /\ e.age < TTL
  BY DEF Live
<1>4. e \in Entry
  BY <1>1, <1>2, ElementOfSeq
<1>5. latest[key] = {[value |-> e.value, age |-> e.age]}
  BY <1>2, <1>3 DEF IInv, Good, AreLatest
<1>6. QED
  BY <1>2, <1>3, <1>4, <1>5 DEF Holds

\* An entry under a key is a hit if what was written last has not expired.
LEMMA HeldIsHit ==
  ASSUME IInv, NEW key \in Keys, Holds(entries, key), \A x \in latest[key] : x.age < TTL
  PROVE  Hit(key)
<1>1. DOMAIN entries = 1 .. Len(entries)
  BY DEF IInv, Good
<1>2. PICK i \in 1 .. Len(entries) : entries[i].key = key
  BY DEF Holds
<1>3. [value |-> entries[i].value, age |-> entries[i].age] \in latest[key]
  BY <1>2 DEF IInv, Good, AreLatest
<1>4. entries[i].age < TTL
  BY <1>3
<1>5. entries[i] \in Live(key)
  BY <1>1, <1>2, <1>4 DEF Live
<1>6. QED
  BY <1>5 DEF Hit

LEMMA LookupKeeps ==
  ASSUME IInv, NEW key \in Keys, Lookup(key)
  PROVE  IInv'
<1> DEFINE d == Without(key)
<1>1. /\ d \in Seq(Entry) /\ ~ Holds(d, key)
      /\ Len(d) = IF Holds(entries, key) THEN Len(entries) - 1 ELSE Len(entries)
  BY WithoutEmbeds
<1>2. /\ entries \in Seq(Entry) /\ Len(entries) \in Nat /\ Len(entries) <= MaxEntries
      /\ uses \in Seq(Keys) /\ latest \in [Keys -> SUBSET Write]
      /\ MaxEntries \in Nat
  BY CacheAssumption DEF IInv, Good
<1>3. latest' = latest
  BY DEF Lookup
<1>4. CASE Hit(key)
  <2> DEFINE e == CHOOSE e \in Live(key) : TRUE
  <2>1. e \in Live(key)
    BY <1>4 DEF Hit
  <2>2. entries' = d \o <<e>> /\ uses' = Append(Other(key), key)
    BY <1>4 DEF Lookup, Get, Use
  <2> HIDE DEF e
  <2>3. /\ e \in Entry /\ e.key = key
        /\ latest[key] = {[value |-> e.value, age |-> e.age]}
        /\ Holds(entries, key)
    BY <2>1, HitFacts
  <2>4. Good(Append(d, e), Append(Other(key), key), latest)
    BY <1>2, <2>3, MoveToEnd
  <2> HIDE DEF d
  <2>5. d \o <<e>> = Append(d, e)
    BY <1>1, <2>3, AppendIsConcat
  <2>6. Len(Append(d, e)) = Len(entries)
    BY <1>1, <1>2, <2>3
  <2>7. QED
    BY <1>2, <1>3, <2>2, <2>4, <2>5, <2>6 DEF IInv
<1>5. CASE ~ Hit(key)
  <2>1. entries' = d \o << >> /\ uses' = uses
    BY <1>5 DEF Lookup, Get
  <2>2. PICK f : /\ Embedding(f, d, entries)
                 /\ \A i \in 1 .. Len(entries) : entries[i].key # key =>
                      \E j \in 1 .. Len(d) : f[j] = i
    BY WithoutEmbeds
  <2>3. PICK h : Embedding(h, uses, uses)
    BY <1>2, WholeEmbeds
  <2> HIDE DEF d
  <2>4. d \o << >> = d
    BY <1>1, ConcatEmptySeq
  <2>5. Ordered(d, uses)
    BY <1>1, <1>2, <2>2, <2>3, EmbeddingsKeepOrder DEF IInv, Good
  <2>6. \A j \in 1 .. Len(d) : f[j] \in 1 .. Len(entries) /\ d[j] = entries[f[j]]
    BY <2>2 DEF Embedding
  <2>7. Used(d, uses)
    BY <2>6 DEF IInv, Good, Used
  <2>8. AreLatest(d, latest)
    BY <2>6 DEF IInv, Good, AreLatest
  <2>9. RecentAreHeld(d, uses, latest)
    <3>1. SUFFICES ASSUME NEW p \in 1 .. Len(uses), p > Len(uses) - MaxEntries,
                          \A x \in latest[uses[p]] : x.age < TTL
                   PROVE  Holds(d, uses[p])
      BY DEF RecentAreHeld
    <3>2. Holds(entries, uses[p])
      BY <3>1 DEF IInv, Good, RecentAreHeld
    <3>3. uses[p] # key
      BY <1>5, <3>1, <3>2, HeldIsHit
    <3>4. PICK i \in 1 .. Len(entries) : entries[i].key = uses[p]
      BY <3>2 DEF Holds
    <3>5. PICK j \in 1 .. Len(d) : f[j] = i
      BY <2>2, <3>3, <3>4
    <3>6. QED
      BY <2>6, <3>4, <3>5 DEF Holds
  <2>10. Good(d, uses, latest)
    BY <1>1, <1>2, <2>5, <2>7, <2>8, <2>9 DEF IInv, Good
  <2>11. Len(d) <= MaxEntries
    BY <1>1, <1>2
  <2>12. QED
    BY <1>3, <2>1, <2>4, <2>10, <2>11 DEF IInv
<1>6. QED
  BY <1>4, <1>5

LEMMA StoreKeeps ==
  ASSUME IInv, NEW key \in Keys, NEW value \in Values, Store(key, value)
  PROVE  IInv'
<1> DEFINE e == [key |-> key, value |-> value, age |-> 0]
           d == Without(key)
           s == Append(d, e)
           n == IF Len(s) > MaxEntries THEN Len(s) - MaxEntries ELSE 0
<1>1. entries' = SubSeq(s, n + 1, Len(s)) /\ uses' = Append(Other(key), key)
  BY DEF Store, Set, Use
<1>2. /\ latest' = [latest EXCEPT ![key] = {[value |-> value, age |-> 0]}]
      /\ latest \in [Keys -> SUBSET Write]
  BY DEF Store, IInv, Good
<1>3. TTL \in Nat /\ MaxEntries \in Nat /\ e \in Entry
      /\ [value |-> value, age |-> 0] \in Write
  BY CacheAssumption DEF Entry, Write
<1>4. d \in Seq(Entry) /\ Len(d) \in Nat /\ Len(d) <= MaxEntries
  <2>1. entries \in Seq(Entry) /\ Len(entries) <= MaxEntries
    BY DEF IInv, Good
  <2>2. QED
    BY <1>3, <2>1, WithoutEmbeds
<1>5. /\ latest' \in [Keys -> SUBSET Write]
      /\ latest'[key] = {[value |-> e.value, age |-> e.age]}
      /\ \A k \in Keys \ {key} : latest'[k] = latest[k]
  BY <1>2, <1>3
<1>6. Good(s, uses', latest')
  BY <1>1, <1>3, <1>5, MoveToEnd
<1> HIDE DEF d, e
<1>7. s \in Seq(Entry) /\ Len(s) = Len(d) + 1
  BY <1>3, <1>4
<1> HIDE DEF s
<1>8. CASE Len(s) = MaxEntries + 1
  <2>1. n = 1
    BY <1>3, <1>8
  <2>2. entries' = SubSeq(s, 2, Len(s))
    BY <1>1, <2>1
  <2>3. QED
    BY <1>3, <1>6, <1>8, <2>2, EvictFirst DEF IInv
<1>9. CASE Len(s) # MaxEntries + 1
  <2>1. Len(s) <= MaxEntries
    BY <1>3, <1>4, <1>7, <1>9
  <2>2. n = 0
    BY <1>3, <1>4, <1>7, <2>1
  <2>3. entries' = s
    BY <1>1, <1>7, <2>2, SubSeqFull
  <2>4. QED
    BY <1>6, <2>1, <2>3 DEF IInv
<1>10. QED
  BY <1>8, <1>9

LEMMA TickKeeps ==
  ASSUME IInv, RTick
  PROVE  IInv'
<1> DEFINE Older(age) == IF age < TTL THEN age + 1 ELSE TTL
<1>1. /\ entries \in Seq(Entry) /\ Len(entries) \in Nat /\ DOMAIN entries = 1 .. Len(entries)
      /\ uses \in Seq(Keys) /\ latest \in [Keys -> SUBSET Write]
      /\ Len(entries) <= MaxEntries
  BY DEF IInv, Good
<1>2. TTL \in Nat
  BY CacheAssumption
<1>3. \A a \in 0 .. TTL : Older(a) \in 0 .. TTL /\ (Older(a) < TTL => a < TTL)
  BY <1>2
<1>4. /\ entries' = [i \in 1 .. Len(entries) |->
                      [entries[i] EXCEPT !.age = Older(entries[i].age)]]
      /\ latest' = [k \in Keys |-> {[x EXCEPT !.age = Older(x.age)] : x \in latest[k]}]
      /\ uses' = uses
  BY <1>1 DEF RTick, Elapse
<1> HIDE DEF Older
<1>5. \A i \in 1 .. Len(entries) :
        /\ entries[i] \in Entry
        /\ entries'[i] \in Entry
        /\ entries'[i].key = entries[i].key
        /\ entries'[i].value = entries[i].value
        /\ entries'[i].age = Older(entries[i].age)
  <2>1. TAKE i \in 1 .. Len(entries)
  <2>2. entries[i] \in Entry
    BY <1>1, ElementOfSeq
  <2>3. entries'[i] = [entries[i] EXCEPT !.age = Older(entries[i].age)]
    BY <1>4
  <2>4. entries'[i] = [key |-> entries[i].key, value |-> entries[i].value,
                       age |-> Older(entries[i].age)]
    BY <2>2, <2>3 DEF Entry
  <2>5. Older(entries[i].age) \in 0 .. TTL
    BY <1>3, <2>2 DEF Entry
  <2>6. entries'[i] \in Entry
    BY <2>2, <2>4, <2>5 DEF Entry
  <2>7. /\ entries'[i].key = entries[i].key
        /\ entries'[i].value = entries[i].value
        /\ entries'[i].age = Older(entries[i].age)
    BY <2>4
  <2>8. QED
    BY <2>2, <2>6, <2>7
<1>6. entries' \in Seq(Entry) /\ Len(entries') = Len(entries)
  <2>1. entries' \in [1 .. Len(entries) -> Entry]
    BY <1>4, <1>5
  <2>2. entries' \in Seq(Entry)
    BY <1>1, <2>1, SeqDef
  <2>3. Len(entries') \in Nat /\ 1 .. Len(entries') = 1 .. Len(entries)
    BY <2>1, <2>2, LenProperties
  <2>4. \A m, n \in Nat : 1 .. m = 1 .. n => m = n
    <3>1. SUFFICES ASSUME NEW m \in Nat, NEW n \in Nat, 1 .. m = 1 .. n, m < n
                   PROVE  FALSE
      OBVIOUS
    <3>2. n \in 1 .. n /\ n \notin 1 .. m
      BY <3>1
    <3>3. QED
      BY <3>1, <3>2
  <2>5. QED
    BY <1>1, <2>2, <2>3, <2>4
<1>7. \A k \in Keys : /\ latest[k] \subseteq Write
                      /\ latest'[k] = {[value |-> x.value, age |-> Older(x.age)] : x \in latest[k]}
  <2>1. TAKE k \in Keys
  <2>2. latest[k] \subseteq Write
    BY <1>1
  <2>3. \A x \in latest[k] : [x EXCEPT !.age = Older(x.age)]
                             = [value |-> x.value, age |-> Older(x.age)]
    BY <2>2 DEF Write
  <2>4. latest'[k] = {[x EXCEPT !.age = Older(x.age)] : x \in latest[k]}
    BY <1>4
  <2>5. {[x EXCEPT !.age = Older(x.age)] : x \in latest[k]}
          = {[value |-> x.value, age |-> Older(x.age)] : x \in latest[k]}
    BY <2>3
  <2>6. QED
    BY <2>2, <2>4, <2>5
<1>8. latest' \in [Keys -> SUBSET Write]
  <2>1. \A k \in Keys : latest'[k] \subseteq Write
    BY <1>3, <1>7 DEF Write
  <2>2. QED
    BY <1>4, <2>1
<1>9. Ordered(entries', uses) /\ Used(entries', uses)
  <2>1. \A i \in 1 .. Len(entries) : entries'[i].key = entries[i].key
    BY <1>5
  <2>2. Ordered(entries, uses) /\ Used(entries, uses)
    BY DEF IInv, Good
  <2>3. Ordered(entries', uses)
    BY <1>6, <2>1, <2>2 DEF Ordered
  <2>4. Used(entries', uses)
    BY <1>6, <2>1, <2>2 DEF Used
  <2>5. QED
    BY <2>3, <2>4
<1>10. AreLatest(entries', latest')
  <2>1. SUFFICES ASSUME NEW i \in 1 .. Len(entries)
                 PROVE  latest'[entries'[i].key]
                        = {[value |-> entries'[i].value, age |-> entries'[i].age]}
    BY <1>6 DEF AreLatest
  <2>2. latest[entries[i].key] = {[value |-> entries[i].value, age |-> entries[i].age]}
    BY DEF IInv, Good, AreLatest
  <2>3. entries[i].key \in Keys
    BY <1>5 DEF Entry
  <2>4. latest'[entries[i].key]
        = {[value |-> entries[i].value, age |-> Older(entries[i].age)]}
    <3> DEFINE y == [value |-> entries[i].value, age |-> entries[i].age]
    <3>1. \A x \in latest[entries[i].key] : x = y
      BY <2>2
    <3>2. y \in latest[entries[i].key]
      BY <2>2
    <3>3. y.value = entries[i].value /\ y.age = entries[i].age
      OBVIOUS
    <3> HIDE DEF y
    <3>4. latest'[entries[i].key] = {[value |-> y.value, age |-> Older(y.age)]}
      BY <1>7, <2>3, <3>1, <3>2
    <3>5. QED
      BY <3>3, <3>4
  <2>5. /\ entries'[i].key = entries[i].key /\ entries'[i].value = entries[i].value
        /\ entries'[i].age = Older(entries[i].age)
    BY <1>5
  <2>6. QED
    BY <2>4, <2>5
<1>11. RecentAreHeld(entries', uses, latest')
  <2>1. SUFFICES ASSUME NEW p \in 1 .. Len(uses), p > Len(uses) - MaxEntries,
                        \A x \in latest'[uses[p]] : x.age < TTL
                 PROVE  Holds(entries', uses[p])
    BY DEF RecentAreHeld
  <2>2. uses[p] \in Keys
    BY <1>1, ElementOfSeq
  <2>3. ASSUME NEW x \in latest[uses[p]] PROVE x.age < TTL
    <3>1. x.age \in 0 .. TTL
      BY <1>7, <2>2 DEF Write
    <3>2. [value |-> x.value, age |-> Older(x.age)] \in latest'[uses[p]]
      BY <1>7, <2>2
    <3>3. Older(x.age) < TTL
      BY <2>1, <3>2
    <3>4. QED
      BY <1>3, <3>1, <3>3
  <2>4. PICK i \in 1 .. Len(entries) : entries[i].key = uses[p]
    BY <2>1, <2>3 DEF IInv, Good, RecentAreHeld, Holds
  <2>5. entries'[i].key = uses[p]
    BY <1>5, <2>4
  <2>6. QED
    BY <1>6, <2>5 DEF Holds
<1>12. Distinct(uses)
  BY DEF IInv, Good
<1>13. Good(entries', uses', latest')
  BY <1>1, <1>4, <1>6, <1>8, <1>9, <1>10, <1>11, <1>12 DEF Good
<1>14. QED
  BY <1>1, <1>6, <1>13 DEF IInv

-----------------------------------------------------------------------------
(***************************************************************************)
(* The theorems.                                                            *)
(***************************************************************************)
LEMMA InitGood == RInit => IInv
<1>1. SUFFICES ASSUME RInit PROVE IInv
  OBVIOUS
<1>2. /\ entries = << >> /\ uses = << >>
      /\ latest = [k \in Keys |-> {}]
  BY <1>1 DEF RInit, Init
<1>3. entries \in Seq(Entry) /\ uses \in Seq(Keys) /\ Len(entries) = 0 /\ Len(uses) = 0
  BY <1>2
<1>4. latest \in [Keys -> SUBSET Write]
  BY <1>2
<1>5. /\ Distinct(uses) /\ Ordered(entries, uses) /\ Used(entries, uses)
      /\ AreLatest(entries, latest) /\ RecentAreHeld(entries, uses, latest)
  BY <1>3 DEF Distinct, Ordered, Used, AreLatest, RecentAreHeld
<1>6. QED
  BY <1>3, <1>4, <1>5, CacheAssumption DEF IInv, Good

LEMMA StepKeeps == IInv /\ [RNext]_rvars => IInv'
<1>1. SUFFICES ASSUME IInv, [RNext]_rvars PROVE IInv'
  OBVIOUS
<1>2. CASE UNCHANGED rvars
  BY <1>1, <1>2 DEF rvars, IInv, Good, Distinct, Ordered, Used, AreLatest, RecentAreHeld, Holds
<1>3. ASSUME NEW key \in Keys, Lookup(key) PROVE IInv'
  BY <1>1, <1>3, LookupKeeps
<1>4. ASSUME NEW key \in Keys, NEW value \in Values, Store(key, value) PROVE IInv'
  BY <1>1, <1>4, StoreKeeps
<1>5. CASE RTick
  BY <1>1, <1>5, TickKeeps
<1>6. QED
  BY <1>1, <1>2, <1>3, <1>4, <1>5 DEF RNext

LEMMA Invariant == RSpec => []IInv
<1>1. QED
  BY InitGood, StepKeeps, PTL DEF RSpec

\* The cache stays within its bound and keeps one entry for a key, whatever is
\* read and written: set takes the old entry away before it writes the new one.
THEOREM TypeCorrect == RSpec => []TypeOK
<1>1. IInv => TypeOK
  <2>1. SUFFICES ASSUME IInv PROVE TypeOK
    OBVIOUS
  <2>2. /\ entries \in Seq(Entry) /\ DOMAIN entries = 1 .. Len(entries)
        /\ Len(entries) <= MaxEntries
    BY <2>1 DEF IInv, Good
  <2>3. \A i, j \in 1 .. Len(entries) : entries[i].key = entries[j].key => i = j
    BY <2>1, OneEntry DEF IInv, Good
  <2>4. QED
    BY <2>2, <2>3 DEF TypeOK, Entry
<1>2. QED
  BY <1>1, Invariant, PTL

\* get never serves an answer that was overwritten, nor one written a TTL ago.
THEOREM HitsAreLatest == RSpec => []HitIsLatest
<1>1. IInv => HitIsLatest
  <2>1. SUFFICES ASSUME IInv, NEW key \in Keys, Hit(key)
                 PROVE  \E l \in latest[key] : l.value = Value(key) /\ l.age < TTL
    BY DEF HitIsLatest
  <2> DEFINE e == CHOOSE e \in Live(key) : TRUE
  <2>2. e \in Live(key) /\ Value(key) = e.value
    BY <2>1 DEF Hit, Value
  <2> HIDE DEF e
  <2>3. e.age < TTL /\ latest[key] = {[value |-> e.value, age |-> e.age]}
    BY <2>1, <2>2, HitFacts
  <2>4. QED
    BY <2>2, <2>3
<1>2. QED
  BY <1>1, Invariant, PTL

\* The eviction of set, with the moves of get and set to the end, keeps the
\* keys used last, as many as there is room for, for every size of the cache.
THEOREM RecentOnesStay == RSpec => []RecentlyUsedStay
<1>1. IInv => RecentlyUsedStay
  <2>1. SUFFICES ASSUME IInv, NEW i \in DOMAIN uses, i > Len(uses) - MaxEntries,
                        \A l \in latest[uses[i]] : l.age < TTL
                 PROVE  Hit(uses[i])
    BY DEF RecentlyUsedStay
  <2>2. uses \in Seq(Keys) /\ i \in 1 .. Len(uses)
    BY <2>1 DEF IInv, Good
  <2>3. uses[i] \in Keys
    BY <2>2, ElementOfSeq
  <2>4. Holds(entries, uses[i])
    BY <2>1, <2>2 DEF IInv, Good, RecentAreHeld
  <2>5. QED
    BY <2>1, <2>3, <2>4, HeldIsHit
<1>2. QED
  BY <1>1, Invariant, PTL
=============================================================================
