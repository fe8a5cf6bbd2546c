--------------------------- MODULE RoutingProofs ---------------------------
(***************************************************************************)
(* Proofs about Routing: interfaces share no mark and table but a pinned   *)
(* one, a cached set always has its ip rule and, on an interface that is   *)
(* back, its default route, and once the saves have synced the kernel      *)
(* holds what the stored sets own and no more, whatever the callers        *)
(* interleave.                                                             *)
(***************************************************************************)
EXTENDS Routing, FiniteSetTheorems, FunctionTheorems, WellFoundedInduction, TLAPS

(* Least elements, loops and counting *)

LEMMA LeastNat == ASSUME NEW T, T \subseteq Nat, T # {} PROVE \E n \in T : \A m \in T : n <= m
  <1> DEFINE R == {p \in Nat \X Nat : p[1] < p[2]}
  <1>1. PICK n \in T : \A m \in T : ~(<<m, n>> \in R)
    <2>1. IsWellFoundedOn(R, Nat)
      BY NatLessThanWellFounded DEF OpToRel
    <2> HIDE DEF R
    <2> QED
      BY <2>1, WFMin
  <1>2. ASSUME NEW m \in T PROVE n <= m
    <2>1. <<m, n>> \in Nat \X Nat /\ <<m, n>>[1] = m /\ <<m, n>>[2] = n
      OBVIOUS
    <2>2. ~(m < n)
      BY <1>1, <2>1
    <2> QED
      BY <2>2
  <1> QED
    BY <1>2

\* What holds of the first and passes from each to the next holds of all.
LEMMA Stays ==
  ASSUME NEW R, NEW N \in Nat, NEW h, h[0] \in R,
         \A n \in 1 .. N : h[n - 1] \in R => h[n] \in R
  PROVE  \A n \in 0 .. N : h[n] \in R
  <1> DEFINE T == {n \in 0 .. N : h[n] \notin R}
  <1>1. SUFFICES ASSUME T # {} PROVE FALSE
    OBVIOUS
  <1>2. PICK n \in T : \A m \in T : n <= m
    <2>1. T \subseteq Nat
      OBVIOUS
    <2> HIDE DEF T
    <2> QED
      BY <1>1, <2>1, LeastNat
  <1>3. n \in 1 .. N /\ h[n] \notin R
    OBVIOUS
  <1>4. n - 1 \in 0 .. N /\ ~(n <= n - 1)
    BY <1>3
  <1>5. h[n - 1] \in R
    BY <1>2, <1>4
  <1> QED
    BY <1>3, <1>5

\* What holds at k and passes from each to the next holds of the last.
LEMMA Reached ==
  ASSUME NEW R, NEW N \in Nat, NEW k \in 0 .. N, NEW h, h[k] \in R,
         \A n \in k + 1 .. N : h[n - 1] \in R => h[n] \in R
  PROVE  h[N] \in R
  <1> DEFINE T == {n \in k .. N : h[n] \notin R}
  <1>1. SUFFICES ASSUME T # {} PROVE FALSE
    OBVIOUS
  <1>2. PICK n \in T : \A m \in T : n <= m
    <2>1. T \subseteq Nat
      OBVIOUS
    <2> HIDE DEF T
    <2> QED
      BY <1>1, <2>1, LeastNat
  <1>3. n \in k + 1 .. N /\ h[n] \notin R
    OBVIOUS
  <1>4. n - 1 \in k .. N /\ ~(n <= n - 1)
    BY <1>3
  <1>5. h[n - 1] \in R
    BY <1>2, <1>4
  <1> QED
    BY <1>3, <1>5

\* g gives each step of a loop, and the steps stay in R ...
StepsIn(R, N, g) == \A n \in 1 .. N : \A q \in R : g[n][q] \in R

\* ... and f is the loop that starts with r.
LoopFrom(R, N, r, g, f) ==
    f \in [0 .. N -> R] /\ f[0] = r /\ \A n \in 1 .. N : f[n] = g[n][f[n - 1]]

LEMMA LoopExists ==
  ASSUME NEW R, NEW N \in Nat, NEW r \in R, NEW g, StepsIn(R, N, g)
  PROVE  \E f : LoopFrom(R, N, r, g, f)
  <1>0. \A n \in 1 .. N : \A q \in R : g[n][q] \in R
    BY DEF StepsIn
  <1> DEFINE Good(k, f) == f[0] = r /\ \A n \in 1 .. k : f[n] = g[n][f[n - 1]]
             T == {k \in 0 .. N : ~ \E f \in [0 .. k -> R] : Good(k, f)}
  <1>1. SUFFICES ASSUME T # {} PROVE FALSE
    BY DEF LoopFrom
  <1>2. PICK k \in T : \A m \in T : k <= m
    <2>1. T \subseteq Nat
      OBVIOUS
    <2> HIDE DEF T
    <2> QED
      BY <1>1, <2>1, LeastNat
  <1>3. k # 0
    <2>1. [n \in 0 .. 0 |-> r] \in [0 .. 0 -> R] /\ Good(0, [n \in 0 .. 0 |-> r])
      OBVIOUS
    <2> QED
      BY <2>1
  <1>4. k - 1 \in 0 .. N /\ ~(k <= k - 1) /\ k \in 1 .. N
    BY <1>3
  <1>5. PICK f \in [0 .. k - 1 -> R] : Good(k - 1, f)
    BY <1>2, <1>4
  <1> DEFINE e == [n \in 0 .. k |-> IF n = k THEN g[k][f[k - 1]] ELSE f[n]]
  <1>6. f[k - 1] \in R /\ g[k][f[k - 1]] \in R
    BY <1>0, <1>4
  <1>7. e \in [0 .. k -> R]
    BY <1>4, <1>6
  <1>8. e[0] = r
    BY <1>3, <1>4, <1>5
  <1>9. ASSUME NEW n \in 1 .. k PROVE e[n] = g[n][e[n - 1]]
    <2>1. CASE n = k
      <3>1. e[k] = g[k][f[k - 1]]
        BY <1>4
      <3>2. e[k - 1] = f[k - 1]
        BY <1>4
      <3> QED
        BY <2>1, <3>1, <3>2
    <2>2. CASE n # k
      BY <2>2, <1>4, <1>5
    <2> QED
      BY <2>1, <2>2
  <1> QED
    BY <1>7, <1>8, <1>9

\* In a finite set of at most one element any two elements are equal.
LEMMA AtMostOne ==
  ASSUME NEW S, IsFiniteSet(S), Cardinality(S) <= 1, NEW x \in S, NEW y \in S
  PROVE  x = y
  <1>1. SUFFICES ASSUME x # y PROVE FALSE
    OBVIOUS
  <1>2. IsFiniteSet({x}) /\ Cardinality({x}) = 1
    BY FS_Singleton
  <1>3. Cardinality({x} \cup {y}) = 2
    BY <1>1, <1>2, FS_AddElement
  <1>4. {x} \cup {y} \in SUBSET S
    OBVIOUS
  <1>5. Cardinality({x} \cup {y}) <= Cardinality(S)
    BY <1>4, FS_Subset
  <1>6. Cardinality(S) \in Nat
    BY FS_CardinalityType
  <1> QED
    BY <1>3, <1>5, <1>6

LEMMA Wraps ==
  ASSUME NEW m \in Nat, m > 0, NEW a \in 0 .. 2 * m - 1
  PROVE  a % m = IF a < m THEN a ELSE a - m
  OBVIOUS

LEMMA SetsFinite == IsFiniteSet(Sets) /\ Len(SetSeq) \in Nat /\ \A n \in 1 .. Len(SetSeq) : SetSeq[n] \in Sets
  <1>1. Len(SetSeq) \in Nat /\ DOMAIN SetSeq = 1 .. Len(SetSeq) /\ SetSeq \in [1 .. Len(SetSeq) -> Sets]
    BY ConfigsAssumption
  <1>2. \A n \in 1 .. Len(SetSeq) : SetSeq[n] \in Sets
    BY <1>1
  <1>3. \A s \in Sets : \E n \in 1 .. Len(SetSeq) : SetSeq[n] = s
    BY <1>1 DEF Sets, ToSet
  <1>4. SetSeq \in Surjection(1 .. Len(SetSeq), Sets)
    BY <1>1, <1>3 DEF Surjection
  <1>5. IsFiniteSet(1 .. Len(SetSeq))
    BY <1>1, FS_Interval
  <1> QED
    BY <1>1, <1>2, <1>4, <1>5, FS_Surjection

----------------------------------------------------------------------------
(* What is kept of the routing state *)

Specs == Ifaces \cup {Proxy, Block}

States == [mode : {"interface", Proxy, Block}, iface : Specs, id : 0 .. MaxId]

Kinds == {"pre", "out", "nat", "filter"}

Tables ==
    [cache : [Sets -> States \cup {None}], auto : [Ifaces -> 0 .. MaxId],
     chains : SUBSET (Sets \X Kinds), rules : SUBSET Ids, prules : SUBSET Marks,
     routes : [Ids -> Ifaces \cup {None}], local : BOOLEAN]

\* A cached set on an interface has an id, and the ip rule of that id is in place.
OwnId(r) ==
    \A s \in Sets : IsIface(r.cache[s]) =>
        /\ r.cache[s].iface \in Ifaces /\ r.cache[s].id \in Ids
        /\ r.cache[s].id \in r.rules

\* An id that no set pins is that of one interface: given to one, and used by the cached
\* sets of that one only.
OneIface(r) ==
    /\ \A i, j \in Ifaces : r.auto[i] = r.auto[j] /\ i # j => r.auto[i] \in Pinned \cup {0}
    /\ \A s \in Sets, j \in Ifaces :
           IsIface(r.cache[s]) /\ r.auto[j] = r.cache[s].id /\ j # r.cache[s].iface
               => r.cache[s].id \in Pinned
    /\ \A s, t \in Sets :
           IsIface(r.cache[s]) /\ IsIface(r.cache[t]) /\ r.cache[s].id = r.cache[t].id
               /\ r.cache[s].iface # r.cache[t].iface => r.cache[s].id \in Pinned

\* The sets on the interfaces in W have their default route, but in a pinned table.
Routed(r, W) ==
    \A s \in Sets : IsIface(r.cache[s]) /\ r.cache[s].iface \in W /\ r.cache[s].id \notin Pinned =>
        r.routes[r.cache[s].id] = r.cache[s].iface

RT(W) == {r \in Tables : OwnId(r) /\ OneIface(r) /\ Routed(r, W)}

----------------------------------------------------------------------------
(* Ids *)

\* There are at least as many ids as interfaces and sets: an interface without an id finds
\* a free one.
LEMMA FreeId ==
  ASSUME NEW W, NEW r \in RT(W), NEW s \in Sets, NEW i \in Ifaces, Pin[s][i] = 0, r.auto[i] = 0
  PROVE  routeResolveIDs(r, s, i) \in Ids \ usedIds(r)
  <1> DEFINE J == Ifaces \ {i}
             S == {t \in Sets : IsIface(r.cache[t])}
             B == {r.auto[j] : j \in J}
             C == {r.cache[t].id : t \in S}
             A == B \cup C
             probe == [k \in 1 .. MaxId |-> ((HashOf[i] + k - 2) % MaxId) + 1]
             T == {k \in 1 .. MaxId : probe[k] \notin usedIds(r)}
  <1>1. r \in Tables /\ OwnId(r) /\ OneIface(r)
    BY DEF RT
  <1>2. r.auto \in [Ifaces -> 0 .. MaxId]
    BY <1>1 DEF Tables
  <1>3. /\ MaxId \in Nat /\ HashOf[i] \in Ids /\ IsFiniteSet(Ifaces)
        /\ MaxId >= Cardinality(Ifaces) + Cardinality(Sets)
    BY IdsSuffice
  <1>4. 0 \notin Ids /\ Ids = 1 .. MaxId
    BY <1>3 DEF Ids
  <1>5. usedIds(r) \subseteq A
    <2>1. ASSUME NEW t \in Sets, IsIface(r.cache[t]) PROVE r.cache[t].id \in A
      BY <2>1
    <2>2. ASSUME NEW j \in Ifaces, r.auto[j] # 0 PROVE r.auto[j] \in A
      BY <2>2
    <2> HIDE DEF A
    <2> QED
      BY <2>1, <2>2 DEF usedIds
  <1>6. IsFiniteSet(J) /\ Cardinality(J) = Cardinality(Ifaces) - 1 /\ Cardinality(Ifaces) \in Nat
    BY <1>3, FS_RemoveElement, FS_CardinalityType
  <1>7. IsFiniteSet(A) /\ Cardinality(A) <= Cardinality(J) + Cardinality(Sets)
    <2>1. [j \in J |-> r.auto[j]] \in Surjection(J, B)
      BY DEF Surjection
    <2>2. [t \in S |-> r.cache[t].id] \in Surjection(S, C)
      BY DEF Surjection
    <2>3. S \in SUBSET Sets
      OBVIOUS
    <2> HIDE DEF J, S, B, C
    <2>4. IsFiniteSet(S) /\ Cardinality(S) <= Cardinality(Sets)
      BY <2>3, SetsFinite, FS_Subset
    <2>5. IsFiniteSet(B) /\ Cardinality(B) <= Cardinality(J)
      BY <2>1, <1>6, FS_Surjection
    <2>6. IsFiniteSet(C) /\ Cardinality(C) <= Cardinality(S)
      BY <2>2, <2>4, FS_Surjection
    <2>7. IsFiniteSet(B \cup C) /\ Cardinality(B \cup C) = Cardinality(B) + Cardinality(C) - Cardinality(B \cap C)
      BY <2>5, <2>6, FS_Union
    <2>8. IsFiniteSet(B \cap C)
      BY <2>5, FS_Intersection
    <2>9. /\ Cardinality(B \cap C) \in Nat /\ Cardinality(B) \in Nat /\ Cardinality(C) \in Nat
          /\ Cardinality(J) \in Nat /\ Cardinality(S) \in Nat /\ Cardinality(Sets) \in Nat
      BY <2>4, <2>5, <2>6, <2>8, <1>6, SetsFinite, FS_CardinalityType
    <2>10. Cardinality(B \cup C) <= Cardinality(J) + Cardinality(Sets)
      BY <2>4, <2>5, <2>6, <2>7, <2>9
    <2> QED
      BY <2>7, <2>10
  <1>8. ~(Ids \subseteq A)
    <2>1. SUFFICES ASSUME Ids \in SUBSET A PROVE FALSE
      OBVIOUS
    <2> HIDE DEF A, J
    <2>2. Cardinality(Ids) <= Cardinality(A) /\ Cardinality(A) \in Nat
      BY <1>7, <2>1, FS_Subset, FS_CardinalityType
    <2>3. Cardinality(Ids) = MaxId
      BY <1>3, <1>4, FS_Interval
    <2>4. Cardinality(J) \in Nat /\ Cardinality(Sets) \in Nat
      BY <1>6, SetsFinite, FS_CardinalityType
    <2> QED
      BY <2>2, <2>3, <2>4, <1>3, <1>6, <1>7
  <1>9. PICK n \in Ids : n \notin usedIds(r)
    BY <1>5, <1>8
  <1> DEFINE h == HashOf[i]
             k0 == IF n >= h THEN n - h + 1 ELSE n - h + 1 + MaxId
  <1>10. h \in 1 .. MaxId /\ n \in 1 .. MaxId /\ MaxId \in Nat /\ MaxId > 0
    BY <1>3, <1>4
  <1> HIDE DEF h
  <1>11. k0 \in 1 .. MaxId /\ h + k0 - 2 \in 0 .. 2 * MaxId - 1
         /\ (IF h + k0 - 2 < MaxId THEN h + k0 - 2 ELSE h + k0 - 2 - MaxId) = n - 1
    BY <1>10
  <1>12. (h + k0 - 2) % MaxId = n - 1
    <2> HIDE DEF k0
    <2> QED
      BY <1>10, <1>11, Wraps
  <1>13. probe[k0] = n
    <2> HIDE DEF k0
    <2> QED
      BY <1>10, <1>11, <1>12 DEF h
  <1>14. \A k \in 1 .. MaxId : probe[k] \in Ids
    <2>1. ASSUME NEW k \in 1 .. MaxId PROVE probe[k] \in Ids
      <3>1. h + k - 2 \in 0 .. 2 * MaxId - 1
        BY <1>10
      <3>2. (h + k - 2) % MaxId \in 0 .. MaxId - 1
        BY <3>1, <1>10, Wraps
      <3> QED
        BY <3>2, <1>10, <1>4 DEF h
    <2> QED
      BY <2>1
  <1> HIDE DEF probe, k0
  <1>15. T # {} /\ T \subseteq Nat
    BY <1>9, <1>11, <1>13, <1>10
  <1>16. PICK k \in T : \A m \in T : k <= m
    <2> HIDE DEF T
    <2> QED
      BY <1>15, LeastNat
  <1>17. \A j \in 1 .. k - 1 : probe[j] \in usedIds(r)
    <2>1. ASSUME NEW j \in 1 .. k - 1 PROVE probe[j] \in usedIds(r)
      <3>1. j \in 1 .. MaxId /\ ~(k <= j)
        BY <1>10
      <3> QED
        BY <3>1, <1>16
    <2> QED
      BY <2>1
  <1> DEFINE First(c) == c \in 1 .. MaxId /\ probe[c] \notin usedIds(r) /\ \A j \in 1 .. c - 1 : probe[j] \in usedIds(r)
             c0 == CHOOSE c \in 1 .. MaxId : probe[c] \notin usedIds(r) /\ \A j \in 1 .. c - 1 : probe[j] \in usedIds(r)
  <1>18. First(k)
    BY <1>17
  <1>19. First(c0)
    BY <1>18
  <1>20. routeResolveIDs(r, s, i) = probe[c0]
    BY DEF routeResolveIDs, probe
  <1> QED
    BY <1>14, <1>19, <1>20

----------------------------------------------------------------------------
(* The steps of the loops *)

\* Modes and interfaces are told apart by their names.
LEMMA Names ==
  /\ Proxy # "interface" /\ Block # "interface" /\ Proxy # Block
  /\ Off \notin Specs /\ Proxy \notin Ifaces /\ Block \notin Ifaces
  /\ None \notin States
  <1>1. {Off, Proxy, Block} \cap Ifaces = {}
    BY ConfigsAssumption
  <1>2. None \notin States
    BY ConfigsAssumption DEF States, Specs
  <1>3. Proxy # "interface" /\ Block # "interface" /\ Proxy # Block /\ Off # Proxy /\ Off # Block
    BY DEF Off, Proxy, Block
  <1> QED
    BY <1>1, <1>2, <1>3 DEF Specs

LEMMA TableFields ==
  ASSUME NEW r \in Tables
  PROVE  /\ r.cache \in [Sets -> States \cup {None}] /\ r.auto \in [Ifaces -> 0 .. MaxId]
         /\ r.chains \in SUBSET (Sets \X Kinds) /\ r.rules \in SUBSET Ids /\ r.prules \in SUBSET Marks
         /\ r.routes \in [Ids -> Ifaces \cup {None}] /\ r.local \in BOOLEAN
         /\ r = [cache |-> r.cache, auto |-> r.auto, chains |-> r.chains, rules |-> r.rules,
                 prules |-> r.prules, routes |-> r.routes, local |-> r.local]
  BY DEF Tables

LEMMA TableOf ==
  ASSUME NEW a \in [Sets -> States \cup {None}], NEW b \in [Ifaces -> 0 .. MaxId],
         NEW c \in SUBSET (Sets \X Kinds), NEW d \in SUBSET Ids, NEW e \in SUBSET Marks,
         NEW f \in [Ids -> Ifaces \cup {None}], NEW g \in BOOLEAN
  PROVE  [cache |-> a, auto |-> b, chains |-> c, rules |-> d, prules |-> e, routes |-> f, local |-> g]
             \in Tables
  BY DEF Tables

LEMMA OwnedTyped ==
  ASSUME NEW s \in Sets, NEW m \in {"interface", Proxy, Block}
  PROVE  OwnedChains(s, m) \subseteq Sets \X Kinds
  <1>1. CASE m = "interface"
    <2>1. OwnedChains(s, m) = {s} \X {"pre", "out", "nat"}
      BY <1>1, Names DEF OwnedChains
    <2> QED
      BY <2>1 DEF Kinds
  <1>2. CASE m = Proxy
    <2>1. OwnedChains(s, m) = {s} \X {"pre", "out"}
      BY <1>2, Names DEF OwnedChains
    <2> QED
      BY <2>1 DEF Kinds
  <1>3. CASE m = Block
    <2>1. OwnedChains(s, m) = {s} \X {"filter"}
      BY <1>3, Names DEF OwnedChains
    <2> QED
      BY <2>1 DEF Kinds
  <1> QED
    BY <1>1, <1>2, <1>3

\* Dropping sets and keeping the rules of the others keeps the state good.
LEMMA Kept ==
  ASSUME NEW W, NEW r \in RT(W), NEW q \in Tables, q.auto = r.auto,
         \A t \in Sets : q.cache[t] # None => q.cache[t] = r.cache[t],
         \A t \in Sets : IsIface(q.cache[t]) => q.cache[t].id \in q.rules,
         Routed(q, W)
  PROVE  q \in RT(W)
  <1>1. OwnId(r) /\ OneIface(r)
    BY DEF RT
  <1>2. OneIface(q)
    <2>1. \A t \in Sets : IsIface(q.cache[t]) => q.cache[t] = r.cache[t] /\ IsIface(r.cache[t])
      BY DEF IsIface
    <2> QED
      BY <1>1, <2>1 DEF OneIface
  <1>3. OwnId(q)
    <2>1. SUFFICES ASSUME NEW t \in Sets, IsIface(q.cache[t])
                   PROVE  /\ q.cache[t].iface \in Ifaces /\ q.cache[t].id \in Ids
                          /\ q.cache[t].id \in q.rules
      BY DEF OwnId
    <2>2. q.cache[t] = r.cache[t]
      BY <2>1 DEF IsIface
    <2> QED
      BY <1>1, <2>1, <2>2 DEF OwnId
  <1> QED
    BY <1>2, <1>3 DEF RT

\* A set is dropped, and with the last of its interface the ip rule goes.
LEMMA CleanupKept ==
  ASSUME NEW W, NEW r \in RT(W), NEW s \in Sets, r.cache[s] # None
  PROVE  /\ routeCleanupAny(r, s) \in RT(W)
         /\ routeCleanupAny(r, s).cache = [r.cache EXCEPT ![s] = None]
         /\ routeCleanupAny(r, s).auto = r.auto
  <1> DEFINE q == routeCleanupAny(r, s)
             ch == {c \in r.chains : c \notin OwnedChains(s, r.cache[s].mode)}
             ca == [r.cache EXCEPT ![s] = None]
             n == r.cache[s].id
             last == interfaceShareCount(r, n) <= 1
  <1>1. r \in Tables /\ OwnId(r) /\ Routed(r, W)
    BY DEF RT
  <1>2. /\ r.cache \in [Sets -> States \cup {None}] /\ r.auto \in [Ifaces -> 0 .. MaxId]
        /\ r.chains \in SUBSET (Sets \X Kinds) /\ r.rules \in SUBSET Ids /\ r.prules \in SUBSET Marks
        /\ r.routes \in [Ids -> Ifaces \cup {None}] /\ r.local \in BOOLEAN
        /\ r = [cache |-> r.cache, auto |-> r.auto, chains |-> r.chains, rules |-> r.rules,
                prules |-> r.prules, routes |-> r.routes, local |-> r.local]
    BY <1>1, TableFields
  <1>3. ch \in SUBSET (Sets \X Kinds) /\ ca \in [Sets -> States \cup {None}]
        /\ (\A t \in Sets : ca[t] # None => ca[t] = r.cache[t]) /\ ca[s] = None
    BY <1>2
  <1>4. r.cache[s] \in States
    BY <1>2
  <1>5. r.cache[s].mode \in {"interface", Proxy, Block}
    BY <1>4 DEF States
  <1> HIDE DEF ch, ca
  <1>6. ASSUME NEW d \in SUBSET Ids, NEW e \in SUBSET Marks, NEW f \in [Ids -> Ifaces \cup {None}],
               NEW g \in BOOLEAN, \A t \in Sets : IsIface(ca[t]) => ca[t].id \in d,
               \A t \in Sets : IsIface(ca[t]) /\ ca[t].iface \in W /\ ca[t].id \notin Pinned =>
                   f[ca[t].id] = ca[t].iface,
               q = [cache |-> ca, auto |-> r.auto, chains |-> ch, rules |-> d, prules |-> e,
                    routes |-> f, local |-> g]
        PROVE  q \in RT(W) /\ q.cache = ca /\ q.auto = r.auto
    <2>0. [cache |-> ca, auto |-> r.auto, chains |-> ch, rules |-> d, prules |-> e, routes |-> f, local |-> g]
              \in Tables
      BY <1>2, <1>3, TableOf
    <2>1. q \in Tables
      BY <1>6, <2>0, Zenon
    <2>2. q.cache = ca /\ q.auto = r.auto /\ q.rules = d /\ q.routes = f
      BY <1>6
    <2> HIDE DEF q
    <2>3. Routed(q, W)
      BY <2>2, <1>6 DEF Routed
    <2> QED
      BY <2>1, <2>2, <2>3, <1>3, <1>6, Kept
  <1>7. \A t \in Sets : IsIface(ca[t]) => ca[t].id \in r.rules
    BY <1>1, <1>3 DEF OwnId, IsIface
  <1>11. \A t \in Sets : IsIface(ca[t]) /\ ca[t].iface \in W /\ ca[t].id \notin Pinned =>
             r.routes[ca[t].id] = ca[t].iface
    BY <1>1, <1>3 DEF Routed, IsIface
  <1>8. CASE r.cache[s].mode = Block
    <2>1. q = DropChains(r, s)
      BY <1>8, Names DEF routeCleanupAny, routeCleanupBlockRule
    <2>2. q = [cache |-> ca, auto |-> r.auto, chains |-> ch, rules |-> r.rules, prules |-> r.prules,
               routes |-> r.routes, local |-> r.local]
      BY <1>2, <2>1 DEF DropChains, ca, ch
    <2> QED
      BY <2>2, <1>2, <1>6, <1>7, <1>11 DEF ca
  <1>9. CASE r.cache[s].mode = Proxy
    <2> DEFINE g == r.local /\ proxyActiveCount(r) > 1
    <2>1. g \in BOOLEAN
      OBVIOUS
    <2>2. q = DropChains([r EXCEPT !.prules = @ \ {ProxyMark[s]}, !.local = g], s)
      BY <1>9, Names DEF routeCleanupAny, routeCleanupProxyRule
    <2> HIDE DEF g
    <2>3. q = [cache |-> ca, auto |-> r.auto, chains |-> ch, rules |-> r.rules, prules |-> r.prules \ {ProxyMark[s]},
               routes |-> r.routes, local |-> g]
      BY <1>2, <2>2 DEF DropChains, ca, ch
    <2>4. r.prules \ {ProxyMark[s]} \in SUBSET Marks
      BY <1>2
    <2> QED
      <3>1. r.rules \in SUBSET Ids /\ r.routes \in [Ids -> Ifaces \cup {None}]
        BY <1>2
      <3> HIDE DEF q
      <3>2. q \in RT(W) /\ q.cache = ca /\ q.auto = r.auto
        BY <2>1, <2>3, <2>4, <3>1, <1>6, <1>7, <1>11
      <3> QED
        BY <3>2 DEF ca, q
  <1>10. CASE r.cache[s].mode = "interface"
    <2> DEFINE d == IF last THEN r.rules \ {n} ELSE r.rules
               f == [r.routes EXCEPT ![n] = IF last THEN None ELSE @]
    <2>1. IsIface(r.cache[s])
      BY <1>10 DEF IsIface
    <2>2. d \in SUBSET Ids /\ f \in [Ids -> Ifaces \cup {None}]
      BY <1>2
    <2>6. ASSUME NEW t \in Sets, IsIface(ca[t]) PROVE last => ca[t].id # n
      <3> SUFFICES ASSUME last PROVE r.cache[t].id # n /\ ca[t] = r.cache[t]
        OBVIOUS
      <3>2. t # s /\ ca[t] = r.cache[t] /\ IsIface(r.cache[t])
        BY <2>6, <1>3 DEF IsIface
      <3> DEFINE S == {u \in Sets : IsIface(r.cache[u]) /\ r.cache[u].id = n}
      <3>3. IsFiniteSet(S) /\ Cardinality(S) <= 1
        <4>1. S \in SUBSET Sets
          OBVIOUS
        <4>2. Cardinality(S) <= 1
          BY DEF interfaceShareCount
        <4> HIDE DEF S
        <4> QED
          BY <4>1, <4>2, SetsFinite, FS_Subset
      <3>4. s \in S
        BY <2>1
      <3>5. t \notin S
        <4> HIDE DEF S
        <4> QED
          BY <3>2, <3>3, <3>4, AtMostOne
      <3> QED
        BY <3>2, <3>5
    <2>3. \A t \in Sets : IsIface(ca[t]) => ca[t].id \in d
      BY <1>7, <2>6
    <2>7. \A t \in Sets : IsIface(ca[t]) /\ ca[t].iface \in W /\ ca[t].id \notin Pinned =>
              f[ca[t].id] = ca[t].iface
      <3>1. \A t \in Sets : IsIface(ca[t]) => ca[t].id \in Ids
        BY <1>2, <1>7
      <3> QED
        BY <1>2, <1>11, <2>6, <3>1
    <2>4. q = DropChains([r EXCEPT !.rules = d, !.routes = f], s)
      BY <1>10, <1>2, Names DEF routeCleanupAny, routeCleanupRule
    <2> HIDE DEF d, f
    <2>5. q = [cache |-> ca, auto |-> r.auto, chains |-> ch, rules |-> d, prules |-> r.prules,
               routes |-> f, local |-> r.local]
      BY <1>2, <2>4 DEF DropChains, ca, ch
    <2> QED
      BY <2>2, <2>3, <2>5, <2>7, <1>2, <1>6 DEF ca
  <1> QED
    BY <1>5, <1>8, <1>9, <1>10

\* What buildRouteState and the id given to the interface promise.
Fitting(r, st) ==
    /\ st \in States
    /\ IsIface(st) => /\ st.iface \in Ifaces /\ st.id \in Ids
                      /\ st.id \in Pinned \/ r.auto[st.iface] = st.id

LEMMA ResolvedKept ==
  ASSUME NEW W, NEW r \in RT(W), NEW s \in Sets, NEW spec \in Specs, NEW st, st = buildRouteState(r, s, spec)
  PROVE  /\ Resolved(r, s, st) \in RT(W) /\ Resolved(r, s, st).cache = r.cache
         /\ Fitting(Resolved(r, s, st), st)
  <1> DEFINE q == Resolved(r, s, st)
  <1>1. r \in Tables /\ OwnId(r) /\ OneIface(r) /\ Routed(r, W)
    BY DEF RT
  <1>2. /\ r.cache \in [Sets -> States \cup {None}] /\ r.auto \in [Ifaces -> 0 .. MaxId]
        /\ r.chains \in SUBSET (Sets \X Kinds) /\ r.rules \in SUBSET Ids /\ r.prules \in SUBSET Marks
        /\ r.routes \in [Ids -> Ifaces \cup {None}] /\ r.local \in BOOLEAN
        /\ r = [cache |-> r.cache, auto |-> r.auto, chains |-> r.chains, rules |-> r.rules,
                prules |-> r.prules, routes |-> r.routes, local |-> r.local]
    BY <1>1, TableFields
  <1>3. MaxId \in Nat /\ Ids = 1 .. MaxId /\ Ids \subseteq 0 .. MaxId /\ 0 \notin Ids
    BY IdsSuffice DEF Ids
  <1>4. CASE spec \notin Ifaces
    <2>1. spec \in {Proxy, Block} /\ st = [mode |-> spec, iface |-> spec, id |-> 0]
      BY <1>4 DEF Specs, buildRouteState, modeOf
    <2>2. st.mode # "interface" /\ st \in States
      BY <2>1, <1>3, Names DEF States
    <2>3. ~IsIface(st)
      BY <2>2 DEF IsIface
    <2>4. q = r
      BY <2>3 DEF Resolved
    <2> QED
      BY <2>2, <2>3, <2>4 DEF Fitting
  <1>6. CASE spec \in Ifaces /\ Pin[s][spec] # 0
    <2> DEFINE n == Pin[s][spec]
    <2>1. st = [mode |-> "interface", iface |-> spec, id |-> n]
      BY <1>6 DEF buildRouteState, modeOf, routeResolveIDs
    <2>2. n \in 0 .. MaxId /\ n # 0
      BY <1>6, IdsSuffice
    <2>3. n \in Pinned /\ n \in Ids
      BY <2>2, <1>3, <1>6 DEF Pinned
    <2>4. st \in States /\ st.iface = spec /\ st.id = n
      BY <2>1, <2>2, <1>6 DEF States, Specs
    <2>5. q = r
      BY <2>4, <1>6 DEF Resolved
    <2> HIDE DEF n
    <2> QED
      BY <2>3, <2>4, <2>5, <1>6 DEF Fitting
  <1>5. CASE spec \in Ifaces /\ Pin[s][spec] = 0
    <2> DEFINE n == routeResolveIDs(r, s, spec)
               au == [r.auto EXCEPT ![spec] = n]
    <2>1. st = [mode |-> "interface", iface |-> spec, id |-> n]
      BY <1>5 DEF buildRouteState, modeOf
    <2>2. \/ r.auto[spec] # 0 /\ n = r.auto[spec]
          \/ r.auto[spec] = 0 /\ n \in Ids \ usedIds(r)
      <3>1. CASE r.auto[spec] = 0
        BY <3>1, <1>5, FreeId
      <3>2. CASE r.auto[spec] # 0
        BY <3>2, <1>5 DEF routeResolveIDs
      <3> QED
        BY <3>1, <3>2
    <2> HIDE DEF n
    <2>3. n \in Ids /\ n \in 0 .. MaxId
      BY <2>2, <1>2, <1>3, <1>5
    <2>4. st \in States /\ st.mode = "interface" /\ st.iface = spec /\ st.id = n
      BY <2>1, <2>3, <1>5 DEF States, Specs
    <2>5. IsIface(st)
      BY <2>4, Names DEF IsIface
    <2>6. q = [r EXCEPT !.auto = au]
      BY <1>2, <1>5, <2>4, <2>5 DEF Resolved
    <2>7. au \in [Ifaces -> 0 .. MaxId] /\ au[spec] = n /\ \A j \in Ifaces \ {spec} : au[j] = r.auto[j]
      BY <1>2, <1>5, <2>3
    <2> HIDE DEF au
    <2>8. q = [cache |-> r.cache, auto |-> au, chains |-> r.chains, rules |-> r.rules,
               prules |-> r.prules, routes |-> r.routes, local |-> r.local]
      BY <1>2, <2>6
    <2>9. q \in Tables
      BY <1>2, <2>7, <2>8, TableOf
    <2>10. q.cache = r.cache /\ q.auto = au /\ q.rules = r.rules /\ q.routes = r.routes
      BY <2>8
    <2> HIDE DEF q
    <2>11. OwnId(q)
      BY <1>1, <2>10 DEF OwnId
    <2>12. OneIface(q)
      <3>1. CASE r.auto[spec] # 0 /\ n = r.auto[spec]
        <4>1. au = r.auto
          BY <3>1, <2>7, <1>2
        <4> QED
          BY <4>1, <1>1, <2>10 DEF OneIface
      <3>2. CASE n \in Ids \ usedIds(r)
        <4>1. n # 0 /\ \A j \in Ifaces : r.auto[j] # n
          BY <3>2, <1>3 DEF usedIds
        <4>2. \A t \in Sets : IsIface(r.cache[t]) => r.cache[t].id # n
          BY <3>2 DEF usedIds
        <4>3. \A i, j \in Ifaces : au[i] = au[j] /\ i # j => au[i] \in Pinned \cup {0}
          <5>1. SUFFICES ASSUME NEW i \in Ifaces, NEW j \in Ifaces, au[i] = au[j], i # j
                         PROVE  au[i] \in Pinned \cup {0}
            OBVIOUS
          <5>2. i # spec /\ j # spec
            BY <5>1, <4>1, <2>7
          <5> QED
            BY <5>1, <5>2, <2>7, <1>1 DEF OneIface
        <4>4. \A t \in Sets, j \in Ifaces :
                  IsIface(r.cache[t]) /\ au[j] = r.cache[t].id /\ j # r.cache[t].iface
                      => r.cache[t].id \in Pinned
          BY <4>2, <2>7, <1>1 DEF OneIface
        <4> QED
          BY <4>3, <4>4, <1>1, <2>10 DEF OneIface
      <3> QED
        BY <2>2, <3>1, <3>2
    <2>13. Fitting(q, st)
      BY <2>3, <2>4, <2>7, <2>10, <1>5 DEF Fitting
    <2>15. Routed(q, W)
      BY <1>1, <2>10 DEF Routed
    <2>14. q \in RT(W)
      BY <2>9, <2>11, <2>12, <2>15 DEF RT
    <2> QED
      BY <2>10, <2>13, <2>14 DEF q
  <1> QED
    BY <1>4, <1>5, <1>6

\* Installing a set that is not cached; its interface has its id.
LEMMA EnsureKept ==
  ASSUME NEW W, W \subseteq up, NEW r \in RT(W), NEW s \in Sets, NEW st, Fitting(r, st)
  PROVE  EnsureAny(r, s, st) \in RT(W)
  <1> DEFINE q == EnsureAny(r, s, st)
             ca == [r.cache EXCEPT ![s] = st]
             ch == r.chains \cup OwnedChains(s, st.mode)
  <1>1. r \in Tables /\ OwnId(r) /\ OneIface(r) /\ Routed(r, W)
    BY DEF RT
  <1>2. /\ r.cache \in [Sets -> States \cup {None}] /\ r.auto \in [Ifaces -> 0 .. MaxId]
        /\ r.chains \in SUBSET (Sets \X Kinds) /\ r.rules \in SUBSET Ids /\ r.prules \in SUBSET Marks
        /\ r.routes \in [Ids -> Ifaces \cup {None}] /\ r.local \in BOOLEAN
        /\ r = [cache |-> r.cache, auto |-> r.auto, chains |-> r.chains, rules |-> r.rules,
                prules |-> r.prules, routes |-> r.routes, local |-> r.local]
    BY <1>1, TableFields
  <1>3. st \in States /\ st.mode \in {"interface", Proxy, Block}
    BY DEF Fitting, States
  <1>4. ca \in [Sets -> States \cup {None}] /\ ca[s] = st /\ \A t \in Sets \ {s} : ca[t] = r.cache[t]
    BY <1>2, <1>3
  <1>5. ch \in SUBSET (Sets \X Kinds)
    BY <1>2, <1>3, OwnedTyped
  <1> HIDE DEF ca, ch
  <1>6. ASSUME NEW d \in SUBSET Ids, NEW e \in SUBSET Marks, NEW f \in [Ids -> Ifaces \cup {None}],
               NEW g \in BOOLEAN, r.rules \subseteq d, IsIface(st) => st.id \in d,
               IsIface(st) /\ st.iface \in W => f[st.id] = st.iface,
               \A t \in Sets \ {s} :
                   IsIface(r.cache[t]) /\ r.cache[t].iface \in W /\ r.cache[t].id \notin Pinned =>
                       f[r.cache[t].id] = r.cache[t].iface,
               q = [cache |-> ca, auto |-> r.auto, chains |-> ch, rules |-> d, prules |-> e,
                    routes |-> f, local |-> g]
        PROVE  q \in RT(W)
    <2>6. [cache |-> ca, auto |-> r.auto, chains |-> ch, rules |-> d, prules |-> e,
           routes |-> f, local |-> g] \in Tables
      <3>1. r.auto \in [Ifaces -> 0 .. MaxId] /\ ca \in [Sets -> States \cup {None}]
        BY <1>2, <1>4
      <3> QED
        BY <3>1, <1>5, TableOf
    <2>1. q \in Tables
      BY <1>6, <2>6
    <2>2. q.cache = ca /\ q.auto = r.auto /\ q.rules = d /\ q.routes = f
      BY <1>6
    <2> HIDE DEF q
    <2>3. OneIface(q)
      <3>0. \A i, j \in Ifaces : r.auto[i] = r.auto[j] /\ i # j => r.auto[i] \in Pinned \cup {0}
        BY <1>1 DEF OneIface
      <3>1. ASSUME NEW t \in Sets, NEW j \in Ifaces, IsIface(ca[t]), r.auto[j] = ca[t].id,
                   j # ca[t].iface
            PROVE  ca[t].id \in Pinned
        <4>1. CASE t = s
          <5>1. ca[t] = st /\ st.iface \in Ifaces /\ st.id # 0
                /\ (st.id \in Pinned \/ r.auto[st.iface] = st.id)
            BY <4>1, <3>1, <1>4, IdsSuffice DEF Fitting, Ids
          <5> QED
            BY <5>1, <3>0, <3>1
        <4>2. CASE t # s
          BY <4>2, <3>1, <1>1, <1>4 DEF OneIface
        <4> QED
          BY <4>1, <4>2
      <3>2. ASSUME NEW t \in Sets \ {s}, IsIface(r.cache[t]), IsIface(st), r.cache[t].id = st.id,
                   r.cache[t].iface # st.iface
            PROVE  st.id \in Pinned
        <4>1. st.iface \in Ifaces /\ (st.id \in Pinned \/ r.auto[st.iface] = st.id)
          BY <3>2 DEF Fitting
        <4> QED
          BY <4>1, <3>2, <1>1 DEF OneIface
      <3>3. ASSUME NEW t \in Sets, NEW u \in Sets, IsIface(ca[t]), IsIface(ca[u]),
                   ca[t].id = ca[u].id, ca[t].iface # ca[u].iface
            PROVE  ca[t].id \in Pinned
        <4>1. CASE t = s
          BY <4>1, <3>2, <3>3, <1>4
        <4>2. CASE t # s /\ u = s
          BY <4>2, <3>2, <3>3, <1>4
        <4>3. CASE t # s /\ u # s
          BY <4>3, <3>3, <1>1, <1>4 DEF OneIface
        <4> QED
          BY <4>1, <4>2, <4>3
      <3> QED
        BY <3>0, <3>1, <3>3, <2>2 DEF OneIface
    <2>4. OwnId(q)
      <3>1. SUFFICES ASSUME NEW t \in Sets, IsIface(ca[t])
                     PROVE  /\ ca[t].iface \in Ifaces /\ ca[t].id \in Ids
                            /\ ca[t].id \in d
        BY <2>2 DEF OwnId
      <3>2. CASE t = s
        BY <3>1, <3>2, <1>4, <1>6 DEF Fitting
      <3>3. CASE t # s
        BY <3>1, <3>3, <1>4, <1>6, <1>1 DEF OwnId
      <3> QED
        BY <3>2, <3>3
    <2>5. Routed(q, W)
      <3>1. \A t \in Sets : IsIface(ca[t]) /\ ca[t].iface \in W /\ ca[t].id \notin Pinned =>
                f[ca[t].id] = ca[t].iface
        BY <1>4, <1>6
      <3> QED
        BY <2>2, <3>1 DEF Routed
    <2> QED
      BY <2>1, <2>3, <2>4, <2>5 DEF RT
  <1>10. \A t \in Sets \ {s} :
             IsIface(r.cache[t]) /\ r.cache[t].iface \in W /\ r.cache[t].id \notin Pinned =>
                 r.routes[r.cache[t].id] = r.cache[t].iface
    BY <1>1 DEF Routed
  <1>7. CASE st.mode = Block
    <2>1. q = [r EXCEPT !.chains = @ \cup OwnedChains(s, st.mode), !.cache[s] = st]
      BY <1>7, Names DEF EnsureAny, routeEnsureBlockRule, WithChains
    <2>2. q = [cache |-> ca, auto |-> r.auto, chains |-> ch, rules |-> r.rules, prules |-> r.prules,
               routes |-> r.routes, local |-> r.local]
      BY <1>2, <2>1 DEF ca, ch
    <2>3. ~IsIface(st)
      BY <1>7, Names DEF IsIface
    <2> QED
      BY <2>2, <2>3, <1>2, <1>6, <1>10
  <1>8. CASE st.mode = Proxy
    <2>1. q = [WithChains(r, s, st) EXCEPT !.prules = @ \cup {ProxyMark[s]}, !.local = TRUE]
      BY <1>8, Names DEF EnsureAny, routeEnsureProxyRule
    <2>2. q = [cache |-> ca, auto |-> r.auto, chains |-> ch, rules |-> r.rules,
               prules |-> r.prules \cup {ProxyMark[s]}, routes |-> r.routes, local |-> TRUE]
      BY <1>2, <2>1 DEF WithChains, ca, ch
    <2>3. ~IsIface(st)
      BY <1>8, Names DEF IsIface
    <2>4. r.prules \cup {ProxyMark[s]} \in SUBSET Marks
      BY <1>2 DEF Marks
    <2> QED
      BY <2>2, <2>3, <2>4, <1>2, <1>6, <1>10
  <1>9. CASE st.mode = "interface"
    <2> DEFINE d == r.rules \cup {st.id}
               f == [r.routes EXCEPT ![st.id] = IF st.iface \in up THEN st.iface ELSE @]
    <2>1. IsIface(st)
      BY <1>3, <1>9, Names DEF IsIface
    <2>2. st.iface \in Ifaces /\ st.id \in Ids
      BY <2>1 DEF Fitting
    <2>3. d \in SUBSET Ids /\ f \in [Ids -> Ifaces \cup {None}]
      BY <1>2, <2>2
    <2>4. q = [WithChains(r, s, st) EXCEPT !.rules = @ \cup {st.id},
                                          !.routes[st.id] = IF st.iface \in up THEN st.iface ELSE @]
      BY <1>9, Names DEF EnsureAny, routeEnsureRule, routeEnsurePolicyRouting
    <2>5. q = [cache |-> ca, auto |-> r.auto, chains |-> ch, rules |-> d, prules |-> r.prules,
               routes |-> f, local |-> r.local]
      BY <1>2, <2>4 DEF WithChains, ca, ch
    <2>6. st.iface \in W => f[st.id] = st.iface
      BY <1>2, <2>2
    <2>7. ASSUME NEW t \in Sets \ {s}, IsIface(r.cache[t]), r.cache[t].iface \in W,
                 r.cache[t].id \notin Pinned
          PROVE  f[r.cache[t].id] = r.cache[t].iface
      <3>1. r.cache[t].iface \in Ifaces /\ r.cache[t].id \in Ids
        BY <1>1, <2>7 DEF OwnId
      <3>2. r.routes[r.cache[t].id] = r.cache[t].iface
        BY <1>10, <2>7
      <3>3. CASE r.cache[t].id = st.id
        <4>1. r.auto[st.iface] = st.id
          BY <2>1, <2>7, <3>3 DEF Fitting
        <4>2. r.cache[t].iface = st.iface
          BY <2>7, <3>1, <3>3, <4>1, <2>2, <1>1 DEF OneIface
        <4> QED
          BY <4>2, <3>3, <2>6, <2>7
      <3>4. CASE r.cache[t].id # st.id
        BY <3>1, <3>2, <3>4, <1>2
      <3> QED
        BY <3>3, <3>4
    <2>8. r.rules \subseteq d /\ st.id \in d /\ r.prules \in SUBSET Marks /\ r.local \in BOOLEAN
      BY <1>2
    <2>9. \A t \in Sets \ {s} :
              IsIface(r.cache[t]) /\ r.cache[t].iface \in W /\ r.cache[t].id \notin Pinned =>
                  f[r.cache[t].id] = r.cache[t].iface
      BY <2>7
    <2> HIDE DEF f, d, q
    <2>10. q \in RT(W)
      BY <2>3, <2>5, <2>6, <2>8, <2>9, <1>6
    <2> QED
      BY <2>10 DEF q
  <1> QED
    BY <1>3, <1>7, <1>8, <1>9

\* A set is refreshed, also by a command that fails.
LEMMA RefreshKept ==
  ASSUME NEW W, W \subseteq up, NEW r \in RT(W), NEW s \in Sets, NEW spec \in Specs, NEW failing
  PROVE  Refresh(r, s, spec, failing) \in RT(W)
  <1> DEFINE st == buildRouteState(r, s, spec)
             r1 == Resolved(r, s, st)
             r2 == IF r1.cache[s] \notin {None, st} THEN routeCleanupAny(r1, s) ELSE r1
  <1>1. r1 \in RT(W) /\ Fitting(r1, st)
    BY ResolvedKept
  <1>2. Refresh(r, s, spec, failing) =
          IF r2.cache[s] # None THEN r2
          ELSE IF s \in failing THEN EnsureFails(r2, s, st) ELSE EnsureAny(r2, s, st)
    BY DEF Refresh
  <1> HIDE DEF st, r1
  <1>3. r2 \in RT(W) /\ r2.auto = r1.auto
    BY <1>1, CleanupKept
  <1>4. Fitting(r2, st)
    BY <1>1, <1>3 DEF Fitting
  <1> HIDE DEF r2
  <1>5. EnsureAny(r2, s, st) \in RT(W)
    BY <1>3, <1>4, EnsureKept
  <1>6. EnsureFails(r2, s, st) \in RT(W)
    <2> DEFINE k == IF st.mode = Block THEN <<s, "filter">> ELSE <<s, "pre">>
               q == EnsureFails(r2, s, st)
    <2>1. r2 \in Tables /\ OwnId(r2) /\ Routed(r2, W)
      BY <1>3 DEF RT
    <2>2. /\ r2.cache \in [Sets -> States \cup {None}] /\ r2.auto \in [Ifaces -> 0 .. MaxId]
          /\ r2.chains \in SUBSET (Sets \X Kinds) /\ r2.rules \in SUBSET Ids /\ r2.prules \in SUBSET Marks
          /\ r2.routes \in [Ids -> Ifaces \cup {None}] /\ r2.local \in BOOLEAN
          /\ r2 = [cache |-> r2.cache, auto |-> r2.auto, chains |-> r2.chains, rules |-> r2.rules,
                   prules |-> r2.prules, routes |-> r2.routes, local |-> r2.local]
      BY <2>1, TableFields
    <2>3. k \in Sets \X Kinds
      BY DEF Kinds
    <2>4. q = [r2 EXCEPT !.chains = @ \cup {k}]
      BY DEF EnsureFails
    <2> HIDE DEF k, q
    <2>5. q = [cache |-> r2.cache, auto |-> r2.auto, chains |-> r2.chains \cup {k}, rules |-> r2.rules,
               prules |-> r2.prules, routes |-> r2.routes, local |-> r2.local]
      BY <2>2, <2>4
    <2>6. r2.chains \cup {k} \in SUBSET (Sets \X Kinds)
      BY <2>2, <2>3
    <2>7. q \in Tables
      BY <2>2, <2>5, <2>6, TableOf
    <2>8. q.cache = r2.cache /\ q.auto = r2.auto /\ q.rules = r2.rules /\ q.routes = r2.routes
      BY <2>5
    <2>10. Routed(q, W)
      BY <2>1, <2>8 DEF Routed
    <2>9. q \in RT(W)
      BY <2>1, <2>7, <2>8, <2>10, <1>3, Kept DEF OwnId
    <2> QED
      BY <2>9 DEF q
  <1> QED
    BY <1>2, <1>3, <1>5, <1>6

----------------------------------------------------------------------------
(* The loops *)

Unwanted(q, s, cfg) == IF q.cache[s] # None /\ cfg[s] = Off THEN routeCleanupAny(q, s) ELSE q

Wanted(q, s, cfg, failing) == IF cfg[s] # Off THEN Refresh(q, s, cfg[s], failing) ELSE q

Cleanup(q, s) == IF q.cache[s] # None THEN routeCleanupAny(q, s) ELSE q

UnwantedLoop(r, cfg) ==
    (CHOOSE f : f = [n \in 0 .. Len(SetSeq) |-> IF n = 0 THEN r ELSE Unwanted(f[n - 1], SetSeq[n], cfg)])[Len(SetSeq)]

WantedLoop(r, cfg, failing) ==
    (CHOOSE f : f = [n \in 0 .. Len(SetSeq) |-> IF n = 0 THEN r ELSE Wanted(f[n - 1], SetSeq[n], cfg, failing)])[Len(SetSeq)]

CleanupLoop(r) ==
    (CHOOSE f : f = [n \in 0 .. Len(SetSeq) |-> IF n = 0 THEN r ELSE Cleanup(f[n - 1], SetSeq[n])])[Len(SetSeq)]

\* A loop is a sequence of steps in R.
UnwantedRun(r, cfg, R) ==
    \E h : /\ h[0] = r /\ UnwantedLoop(r, cfg) = h[Len(SetSeq)]
           /\ \A n \in 0 .. Len(SetSeq) : h[n] \in R
           /\ \A n \in 1 .. Len(SetSeq) : h[n] = Unwanted(h[n - 1], SetSeq[n], cfg)

WantedRun(r, cfg, failing, R) ==
    \E h : /\ h[0] = r /\ WantedLoop(r, cfg, failing) = h[Len(SetSeq)]
           /\ \A n \in 0 .. Len(SetSeq) : h[n] \in R
           /\ \A n \in 1 .. Len(SetSeq) : h[n] = Wanted(h[n - 1], SetSeq[n], cfg, failing)

CleanupRun(r, R) ==
    \E h : /\ h[0] = r /\ CleanupLoop(r) = h[Len(SetSeq)]
           /\ \A n \in 0 .. Len(SetSeq) : h[n] \in R
           /\ \A n \in 1 .. Len(SetSeq) : h[n] = Cleanup(h[n - 1], SetSeq[n])

\* It stays in every set that its steps stay in.
LEMMA UnwantedSteps ==
  ASSUME NEW R, NEW r \in R, NEW cfg,
         \A q \in R : \A s \in Sets : Unwanted(q, s, cfg) \in R
  PROVE  UnwantedRun(r, cfg, R)
  <1> DEFINE N == Len(SetSeq)
             op(q, s) == Unwanted(q, s, cfg)
             g == [n \in 1 .. N |-> [q \in R |-> op(q, SetSeq[n])]]
             h == CHOOSE f : f = [n \in 0 .. N |-> IF n = 0 THEN r ELSE op(f[n - 1], SetSeq[n])]
  <1>1. N \in Nat /\ \A n \in 1 .. N : SetSeq[n] \in Sets
    BY SetsFinite
  <1>2. \A q \in R : \A s \in Sets : op(q, s) \in R
    OBVIOUS
  <1>3. UnwantedLoop(r, cfg) = h[N]
    BY DEF UnwantedLoop
  <1>12. \A q, s : op(q, s) = Unwanted(q, s, cfg)
    OBVIOUS
  <1> HIDE DEF op
  <1>4. \A n \in 1 .. N : \A q \in R : g[n][q] = op(q, SetSeq[n])
    OBVIOUS
  <1>5. \A n \in 1 .. N : \A q \in R : g[n][q] \in R
    BY <1>1, <1>2, <1>4
  <1> HIDE DEF g, N
  <1>6. PICK f : f \in [0 .. N -> R] /\ f[0] = r /\ \A n \in 1 .. N : f[n] = g[n][f[n - 1]]
    <2>1. StepsIn(R, N, g)
      BY <1>5 DEF StepsIn
    <2>2. \E f : LoopFrom(R, N, r, g, f)
      BY <1>1, <2>1, LoopExists
    <2> QED
      BY <2>2 DEF LoopFrom
  <1>7. f = [n \in 0 .. N |-> IF n = 0 THEN r ELSE op(f[n - 1], SetSeq[n])]
    <2>1. ASSUME NEW n \in 0 .. N PROVE f[n] = IF n = 0 THEN r ELSE op(f[n - 1], SetSeq[n])
      <3>1. CASE n = 0
        BY <3>1, <1>6
      <3>2. CASE n # 0
        <4>1. n \in 1 .. N /\ n - 1 \in 0 .. N
          BY <3>2, <1>1
        <4> QED
          BY <3>2, <4>1, <1>4, <1>6
      <3> QED
        BY <3>1, <3>2
    <2> QED
      BY <2>1, <1>6
  <1>8. h = [n \in 0 .. N |-> IF n = 0 THEN r ELSE op(h[n - 1], SetSeq[n])]
    BY <1>7
  <1> HIDE DEF h
  <1>9. h[0] = r /\ \A n \in 1 .. N : h[n] = op(h[n - 1], SetSeq[n])
    BY <1>1, <1>8
  <1>10. \A n \in 1 .. N : h[n - 1] \in R => h[n] \in R
    BY <1>1, <1>2, <1>9
  <1>11. \A n \in 0 .. N : h[n] \in R
    BY <1>1, <1>9, <1>10, Stays
  <1> QED
    BY <1>3, <1>9, <1>11, <1>12 DEF N, UnwantedRun

LEMMA WantedSteps ==
  ASSUME NEW R, NEW r \in R, NEW cfg, NEW failing,
         \A q \in R : \A s \in Sets : Wanted(q, s, cfg, failing) \in R
  PROVE  WantedRun(r, cfg, failing, R)
  <1> DEFINE N == Len(SetSeq)
             op(q, s) == Wanted(q, s, cfg, failing)
             g == [n \in 1 .. N |-> [q \in R |-> op(q, SetSeq[n])]]
             h == CHOOSE f : f = [n \in 0 .. N |-> IF n = 0 THEN r ELSE op(f[n - 1], SetSeq[n])]
  <1>1. N \in Nat /\ \A n \in 1 .. N : SetSeq[n] \in Sets
    BY SetsFinite
  <1>2. \A q \in R : \A s \in Sets : op(q, s) \in R
    OBVIOUS
  <1>3. WantedLoop(r, cfg, failing) = h[N]
    BY DEF WantedLoop
  <1>12. \A q, s : op(q, s) = Wanted(q, s, cfg, failing)
    OBVIOUS
  <1> HIDE DEF op
  <1>4. \A n \in 1 .. N : \A q \in R : g[n][q] = op(q, SetSeq[n])
    OBVIOUS
  <1>5. \A n \in 1 .. N : \A q \in R : g[n][q] \in R
    BY <1>1, <1>2, <1>4
  <1> HIDE DEF g, N
  <1>6. PICK f : f \in [0 .. N -> R] /\ f[0] = r /\ \A n \in 1 .. N : f[n] = g[n][f[n - 1]]
    <2>1. StepsIn(R, N, g)
      BY <1>5 DEF StepsIn
    <2>2. \E f : LoopFrom(R, N, r, g, f)
      BY <1>1, <2>1, LoopExists
    <2> QED
      BY <2>2 DEF LoopFrom
  <1>7. f = [n \in 0 .. N |-> IF n = 0 THEN r ELSE op(f[n - 1], SetSeq[n])]
    <2>1. ASSUME NEW n \in 0 .. N PROVE f[n] = IF n = 0 THEN r ELSE op(f[n - 1], SetSeq[n])
      <3>1. CASE n = 0
        BY <3>1, <1>6
      <3>2. CASE n # 0
        <4>1. n \in 1 .. N /\ n - 1 \in 0 .. N
          BY <3>2, <1>1
        <4> QED
          BY <3>2, <4>1, <1>4, <1>6
      <3> QED
        BY <3>1, <3>2
    <2> QED
      BY <2>1, <1>6
  <1>8. h = [n \in 0 .. N |-> IF n = 0 THEN r ELSE op(h[n - 1], SetSeq[n])]
    BY <1>7
  <1> HIDE DEF h
  <1>9. h[0] = r /\ \A n \in 1 .. N : h[n] = op(h[n - 1], SetSeq[n])
    BY <1>1, <1>8
  <1>10. \A n \in 1 .. N : h[n - 1] \in R => h[n] \in R
    BY <1>1, <1>2, <1>9
  <1>11. \A n \in 0 .. N : h[n] \in R
    BY <1>1, <1>9, <1>10, Stays
  <1> QED
    BY <1>3, <1>9, <1>11, <1>12 DEF N, WantedRun

LEMMA CleanupSteps ==
  ASSUME NEW R, NEW r \in R,
         \A q \in R : \A s \in Sets : Cleanup(q, s) \in R
  PROVE  CleanupRun(r, R)
  <1> DEFINE N == Len(SetSeq)
             op(q, s) == Cleanup(q, s)
             g == [n \in 1 .. N |-> [q \in R |-> op(q, SetSeq[n])]]
             h == CHOOSE f : f = [n \in 0 .. N |-> IF n = 0 THEN r ELSE op(f[n - 1], SetSeq[n])]
  <1>1. N \in Nat /\ \A n \in 1 .. N : SetSeq[n] \in Sets
    BY SetsFinite
  <1>2. \A q \in R : \A s \in Sets : op(q, s) \in R
    OBVIOUS
  <1>3. CleanupLoop(r) = h[N]
    BY DEF CleanupLoop
  <1>12. \A q, s : op(q, s) = Cleanup(q, s)
    OBVIOUS
  <1> HIDE DEF op
  <1>4. \A n \in 1 .. N : \A q \in R : g[n][q] = op(q, SetSeq[n])
    OBVIOUS
  <1>5. \A n \in 1 .. N : \A q \in R : g[n][q] \in R
    BY <1>1, <1>2, <1>4
  <1> HIDE DEF g, N
  <1>6. PICK f : f \in [0 .. N -> R] /\ f[0] = r /\ \A n \in 1 .. N : f[n] = g[n][f[n - 1]]
    <2>1. StepsIn(R, N, g)
      BY <1>5 DEF StepsIn
    <2>2. \E f : LoopFrom(R, N, r, g, f)
      BY <1>1, <2>1, LoopExists
    <2> QED
      BY <2>2 DEF LoopFrom
  <1>7. f = [n \in 0 .. N |-> IF n = 0 THEN r ELSE op(f[n - 1], SetSeq[n])]
    <2>1. ASSUME NEW n \in 0 .. N PROVE f[n] = IF n = 0 THEN r ELSE op(f[n - 1], SetSeq[n])
      <3>1. CASE n = 0
        BY <3>1, <1>6
      <3>2. CASE n # 0
        <4>1. n \in 1 .. N /\ n - 1 \in 0 .. N
          BY <3>2, <1>1
        <4> QED
          BY <3>2, <4>1, <1>4, <1>6
      <3> QED
        BY <3>1, <3>2
    <2> QED
      BY <2>1, <1>6
  <1>8. h = [n \in 0 .. N |-> IF n = 0 THEN r ELSE op(h[n - 1], SetSeq[n])]
    BY <1>7
  <1> HIDE DEF h
  <1>9. h[0] = r /\ \A n \in 1 .. N : h[n] = op(h[n - 1], SetSeq[n])
    BY <1>1, <1>8
  <1>10. \A n \in 1 .. N : h[n - 1] \in R => h[n] \in R
    BY <1>1, <1>2, <1>9
  <1>11. \A n \in 0 .. N : h[n] \in R
    BY <1>1, <1>9, <1>10, Stays
  <1> QED
    BY <1>3, <1>9, <1>11, <1>12 DEF N, CleanupRun

LEMMA UnwantedKept ==
  ASSUME NEW W, NEW r \in RT(W), NEW cfg \in Configs
  PROVE  UnwantedLoop(r, cfg) \in RT(W)
  <1>1. ASSUME NEW q \in RT(W), NEW s \in Sets PROVE Unwanted(q, s, cfg) \in RT(W)
    BY CleanupKept DEF Unwanted
  <1>2. Len(SetSeq) \in 0 .. Len(SetSeq)
    BY SetsFinite
  <1>3. UnwantedRun(r, cfg, RT(W))
    BY <1>1, UnwantedSteps
  <1> QED
    BY <1>2, <1>3 DEF UnwantedRun

LEMMA WantedKept ==
  ASSUME NEW W, W \subseteq up, NEW r \in RT(W), NEW cfg \in Configs, NEW failing
  PROVE  WantedLoop(r, cfg, failing) \in RT(W)
  <1>1. ASSUME NEW q \in RT(W), NEW s \in Sets PROVE Wanted(q, s, cfg, failing) \in RT(W)
    <2>1. cfg[s] \in Specs \cup {Off}
      BY ConfigsAssumption DEF Specs
    <2> QED
      BY <2>1, RefreshKept DEF Wanted
  <1>2. Len(SetSeq) \in 0 .. Len(SetSeq)
    BY SetsFinite
  <1>3. WantedRun(r, cfg, failing, RT(W))
    BY <1>1, WantedSteps
  <1> QED
    BY <1>2, <1>3 DEF WantedRun

LEMMA CleanupsKept ==
  ASSUME NEW W, NEW r \in RT(W)
  PROVE  CleanupLoop(r) \in RT(W)
  <1>1. ASSUME NEW q \in RT(W), NEW s \in Sets PROVE Cleanup(q, s) \in RT(W)
    BY CleanupKept DEF Cleanup
  <1>2. Len(SetSeq) \in 0 .. Len(SetSeq)
    BY SetsFinite
  <1>3. CleanupRun(r, RT(W))
    BY <1>1, CleanupSteps
  <1> QED
    BY <1>2, <1>3 DEF CleanupRun

\* What a sync ends in is what its loops did, with an id of some cached set for every
\* interface that has one.
Rebuilt(q, done, au) ==
    /\ q = [done EXCEPT !.auto = au]
    /\ \A i \in Ifaces : au[i] # 0 =>
           \E s \in Sets : IsIface(done.cache[s]) /\ done.cache[s].iface = i /\ done.cache[s].id = au[i]

LEMMA SyncResult ==
  ASSUME NEW r, NEW cfg, NEW failing, NEW q \in SyncOf(r, cfg, failing)
  PROVE  \E au \in [Ifaces -> 0 .. MaxId] :
             Rebuilt(q, WantedLoop(UnwantedLoop(r, cfg), cfg, failing), au)
  <1> DEFINE done == WantedLoop(UnwantedLoop(r, cfg), cfg, failing)
             ids(i) == {done.cache[s].id : s \in {t \in Sets : /\ IsIface(done.cache[t])
                                                               /\ done.cache[t].iface = i}}
             autos == {f \in [Ifaces -> 0 .. MaxId] :
                          \A i \in Ifaces : f[i] \in IF ids(i) = {} THEN {0} ELSE ids(i)}
  <1>1. SyncOf(r, cfg, failing) = {[done EXCEPT !.auto = a] : a \in autos}
    BY DEF SyncOf, ForEachSet, UnwantedLoop, WantedLoop, Unwanted, Wanted
  <1> HIDE DEF done
  <1>2. PICK au \in autos : q = [done EXCEPT !.auto = au]
    BY <1>1
  <1>3. ASSUME NEW i \in Ifaces, au[i] # 0
        PROVE  \E s \in Sets : IsIface(done.cache[s]) /\ done.cache[s].iface = i /\ done.cache[s].id = au[i]
    BY <1>2, <1>3
  <1>4. au \in [Ifaces -> 0 .. MaxId]
    BY <1>2
  <1>5. Rebuilt(q, done, au)
    BY <1>2, <1>3 DEF Rebuilt
  <1> QED
    BY <1>4, <1>5 DEF done

\* A whole sync: the ids are rebuilt from the sets that are cached.
LEMMA SyncKept ==
  ASSUME NEW W, W \subseteq up, NEW r \in RT(W), NEW cfg \in Configs, NEW failing,
         NEW q \in SyncOf(r, cfg, failing)
  PROVE  q \in RT(W)
  <1> DEFINE mid == UnwantedLoop(r, cfg)
             done == WantedLoop(mid, cfg, failing)
  <1>0. PICK au \in [Ifaces -> 0 .. MaxId] : Rebuilt(q, done, au)
    BY SyncResult
  <1>1. q = [done EXCEPT !.auto = au]
    BY <1>0 DEF Rebuilt
  <1>2. mid \in RT(W)
    BY UnwantedKept
  <1> HIDE DEF mid
  <1>3. done \in RT(W)
    BY <1>2, WantedKept
  <1> HIDE DEF done
  <1>4. done \in Tables /\ OwnId(done) /\ OneIface(done) /\ Routed(done, W)
    BY <1>3 DEF RT
  <1>5. /\ done.cache \in [Sets -> States \cup {None}] /\ done.auto \in [Ifaces -> 0 .. MaxId]
        /\ done.chains \in SUBSET (Sets \X Kinds) /\ done.rules \in SUBSET Ids /\ done.prules \in SUBSET Marks
        /\ done.routes \in [Ids -> Ifaces \cup {None}] /\ done.local \in BOOLEAN
        /\ done = [cache |-> done.cache, auto |-> done.auto, chains |-> done.chains, rules |-> done.rules,
                   prules |-> done.prules, routes |-> done.routes, local |-> done.local]
    BY <1>4, TableFields
  <1>6. ASSUME NEW i \in Ifaces, au[i] # 0
        PROVE  \E s \in Sets : IsIface(done.cache[s]) /\ done.cache[s].iface = i /\ done.cache[s].id = au[i]
    BY <1>0, <1>6 DEF Rebuilt
  <1>8. q = [cache |-> done.cache, auto |-> au, chains |-> done.chains, rules |-> done.rules,
             prules |-> done.prules, routes |-> done.routes, local |-> done.local]
    BY <1>1, <1>5
  <1>9. q \in Tables
    BY <1>5, <1>8, TableOf
  <1>10. q.cache = done.cache /\ q.auto = au /\ q.rules = done.rules /\ q.routes = done.routes
    BY <1>8
  <1>11. OwnId(q)
    BY <1>4, <1>10 DEF OwnId
  <1>12. OneIface(q)
    <2>1. \A s, t \in Sets :
              IsIface(done.cache[s]) /\ IsIface(done.cache[t]) /\ done.cache[s].id = done.cache[t].id
                  /\ done.cache[s].iface # done.cache[t].iface => done.cache[s].id \in Pinned
      BY <1>4 DEF OneIface
    <2>2. ASSUME NEW i \in Ifaces, NEW j \in Ifaces, au[i] = au[j], i # j, au[i] # 0
          PROVE  au[i] \in Pinned
      BY <2>1, <2>2, <1>6
    <2>3. ASSUME NEW s \in Sets, NEW j \in Ifaces, IsIface(done.cache[s]), au[j] = done.cache[s].id,
                 j # done.cache[s].iface
          PROVE  done.cache[s].id \in Pinned
      <3>1. au[j] # 0
        BY <2>3, <1>4, IdsSuffice DEF OwnId, Ids
      <3> QED
        BY <3>1, <2>1, <2>3, <1>6
    <2> QED
      BY <2>1, <2>2, <2>3, <1>10 DEF OneIface
  <1>14. Routed(q, W)
    BY <1>4, <1>10 DEF Routed
  <1> QED
    BY <1>9, <1>11, <1>12, <1>14 DEF RT

\* Nothing is cached and no interface has an id: the state is good whatever is left in
\* the kernel.
LEMMA ForgottenKept ==
  ASSUME NEW W, NEW c \in SUBSET (Sets \X Kinds), NEW d \in SUBSET Ids, NEW e \in SUBSET Marks,
         NEW f \in [Ids -> Ifaces \cup {None}], NEW g \in BOOLEAN
  PROVE  [cache |-> NoCache, auto |-> NoAuto, chains |-> c, rules |-> d, prules |-> e,
          routes |-> f, local |-> g] \in RT(W)
  <1> DEFINE q == [cache |-> NoCache, auto |-> NoAuto, chains |-> c, rules |-> d, prules |-> e,
                   routes |-> f, local |-> g]
  <1>1. NoCache \in [Sets -> States \cup {None}] /\ \A s \in Sets : NoCache[s] = None
    BY DEF NoCache
  <1>2. NoAuto \in [Ifaces -> 0 .. MaxId] /\ \A i \in Ifaces : NoAuto[i] = 0
    BY IdsSuffice DEF NoAuto
  <1>3. q \in Tables
    BY <1>1, <1>2, TableOf
  <1>4. q.cache = NoCache /\ q.auto = NoAuto
    OBVIOUS
  <1> HIDE DEF q
  <1>5. OwnId(q)
    BY <1>1, <1>4 DEF OwnId, IsIface
  <1>6. OneIface(q)
    BY <1>1, <1>2, <1>4 DEF OneIface, IsIface
  <1>8. Routed(q, W)
    BY <1>1, <1>4 DEF Routed, IsIface
  <1>7. q \in RT(W)
    BY <1>3, <1>5, <1>6, <1>8 DEF RT
  <1> QED
    BY <1>7 DEF q

\* Removing everything, with or without the kernel state of the cached sets.
LEMMA ClearKept ==
  ASSUME NEW W, NEW r \in RT(W), NEW known \in BOOLEAN
  PROVE  RoutingClearAll(r, known) \in RT(W)
  <1> DEFINE cl == IF known THEN CleanupLoop(r) ELSE r
             q == RoutingClearAll(r, known)
  <1>1. q = [cl EXCEPT !.chains = {}, !.cache = NoCache, !.auto = NoAuto]
    BY DEF RoutingClearAll, ForEachSet, CleanupLoop, Cleanup
  <1>2. cl \in RT(W)
    BY CleanupsKept
  <1> HIDE DEF cl, q
  <1>3. cl \in Tables
    BY <1>2 DEF RT
  <1>4. /\ cl.chains \in SUBSET (Sets \X Kinds) /\ cl.rules \in SUBSET Ids /\ cl.prules \in SUBSET Marks
        /\ cl.routes \in [Ids -> Ifaces \cup {None}] /\ cl.local \in BOOLEAN
        /\ cl = [cache |-> cl.cache, auto |-> cl.auto, chains |-> cl.chains, rules |-> cl.rules,
                 prules |-> cl.prules, routes |-> cl.routes, local |-> cl.local]
    BY <1>3, TableFields
  <1>5. q = [cache |-> NoCache, auto |-> NoAuto, chains |-> {}, rules |-> cl.rules,
             prules |-> cl.prules, routes |-> cl.routes, local |-> cl.local]
    BY <1>1, <1>4
  <1>6. q \in RT(W)
    BY <1>4, <1>5, ForgottenKept
  <1> QED
    BY <1>6 DEF q

----------------------------------------------------------------------------
(* What the kernel holds is what the sets own *)

\* The states under which a set is known: the cached one, and the one a resync under way
\* forgot.
Known(r, D, s) == {r.cache[s], D[s]} \ {None}

\* Every chain, ip rule, local route and route is that of a set as it is known; only the
\* route of a pinned table may be that of another interface than the set's.
RouteOf(r, n, st) ==
    st.mode = "interface" /\ st.id = n /\ (n \notin Pinned => st.iface = r.routes[n])

NoStray(r, D) ==
    /\ \A c \in r.chains : \E s \in Sets : \E st \in Known(r, D, s) : c \in OwnedChains(s, st.mode)
    /\ \A n \in r.rules : \E s \in Sets : \E st \in Known(r, D, s) : st.mode = "interface" /\ st.id = n
    /\ \A p \in r.prules : \E s \in Sets : \E st \in Known(r, D, s) : st.mode = Proxy /\ ProxyMark[s] = p
    /\ r.local = TRUE => \E s \in Sets : \E st \in Known(r, D, s) : st.mode = Proxy
    /\ \A n \in Ids : r.routes[n] # None =>
           \E s \in Sets : \E st \in Known(r, D, s) : RouteOf(r, n, st)

IsProxy(st) == st # None /\ st.mode = Proxy

\* A cached proxy set has the local route and, if its mark is its own, its ip rule; a route
\* is never without its ip rule.
Redirected(r) ==
    /\ \A s \in Sets : IsProxy(r.cache[s]) =>
           r.local = TRUE /\ (OwnMark(s) => ProxyMark[s] \in r.prules)
    /\ \A n \in Ids : r.routes[n] # None => n \in r.rules

\* The chains of a cached set are there, or all of them were wiped.
Whole(r, w) ==
    \A s \in Sets : r.cache[s] # None =>
        \/ OwnedChains(s, r.cache[s].mode) \subseteq r.chains
        \/ w = TRUE /\ OwnedChains(s, r.cache[s].mode) \cap r.chains = {}

\* X: why there may be state that no set owns.
Sound(r, D, w, X) == Redirected(r) /\ Whole(r, w) /\ (X = {} => NoStray(r, D))

\* The sets of a configuration are cached as it has them, and no others.
Applied(r, c) ==
    \A s \in Sets :
        /\ c[s] = Off => r.cache[s] = None
        /\ c[s] # Off => /\ r.cache[s] # None
                         /\ r.cache[s].mode = modeOf(c[s]) /\ r.cache[s].iface = c[s]

\* What a cleanup leaves of the other fields.
LEMMA CleanupFields ==
  ASSUME NEW r \in Tables, NEW s \in Sets, r.cache[s] # None, NEW q, q = routeCleanupAny(r, s)
  PROVE  /\ q.cache = [r.cache EXCEPT ![s] = None]
         /\ q.chains = {c \in r.chains : c \notin OwnedChains(s, r.cache[s].mode)}
         /\ r.cache[s].mode = "interface" =>
                LET n == r.cache[s].id
                    last == interfaceShareCount(r, n) <= 1
                IN  /\ q.prules = r.prules /\ q.local = r.local
                    /\ q.rules = IF last THEN r.rules \ {n} ELSE r.rules
                    /\ q.routes = [r.routes EXCEPT ![n] = IF last THEN None ELSE @]
         /\ r.cache[s].mode = Proxy =>
                /\ q.prules = r.prules \ {ProxyMark[s]} /\ q.rules = r.rules /\ q.routes = r.routes
                /\ q.local = (r.local /\ proxyActiveCount(r) > 1)
         /\ r.cache[s].mode = Block =>
                /\ q.prules = r.prules /\ q.local = r.local /\ q.rules = r.rules /\ q.routes = r.routes
  <1> DEFINE ch == {c \in r.chains : c \notin OwnedChains(s, r.cache[s].mode)}
             ca == [r.cache EXCEPT ![s] = None]
             n == r.cache[s].id
             last == interfaceShareCount(r, n) <= 1
             d == IF last THEN r.rules \ {n} ELSE r.rules
             f == [r.routes EXCEPT ![n] = IF last THEN None ELSE @]
             g == r.local /\ proxyActiveCount(r) > 1
  <1>1. /\ r.cache \in [Sets -> States \cup {None}] /\ r.auto \in [Ifaces -> 0 .. MaxId]
        /\ r.chains \in SUBSET (Sets \X Kinds) /\ r.rules \in SUBSET Ids /\ r.prules \in SUBSET Marks
        /\ r.routes \in [Ids -> Ifaces \cup {None}] /\ r.local \in BOOLEAN
        /\ r = [cache |-> r.cache, auto |-> r.auto, chains |-> r.chains, rules |-> r.rules,
                prules |-> r.prules, routes |-> r.routes, local |-> r.local]
    BY TableFields
  <1>2. r.cache[s].mode \in {"interface", Proxy, Block}
    <2>1. r.cache[s] \in States
      BY TableFields
    <2> QED
      BY <2>1 DEF States
  <1>3. CASE r.cache[s].mode = Block
    <2>1. q = [cache |-> ca, auto |-> r.auto, chains |-> ch, rules |-> r.rules, prules |-> r.prules,
               routes |-> r.routes, local |-> r.local]
      BY <1>1, <1>3, Names DEF routeCleanupAny, routeCleanupBlockRule, DropChains
    <2> QED
      BY <1>3, <2>1, Names
  <1>4. CASE r.cache[s].mode = Proxy
    <2>1. q = DropChains([r EXCEPT !.prules = @ \ {ProxyMark[s]}, !.local = g], s)
      BY <1>4, Names DEF routeCleanupAny, routeCleanupProxyRule
    <2>2. g = (r.local /\ proxyActiveCount(r) > 1)
      OBVIOUS
    <2> HIDE DEF g, ca, ch
    <2>3. q = [cache |-> ca, auto |-> r.auto, chains |-> ch, rules |-> r.rules, prules |-> r.prules \ {ProxyMark[s]},
               routes |-> r.routes, local |-> g]
      BY <1>1, <2>1 DEF DropChains, ca, ch
    <2>4. q.cache = ca /\ q.chains = ch /\ q.prules = r.prules \ {ProxyMark[s]} /\ q.rules = r.rules
          /\ q.routes = r.routes /\ q.local = g
      BY <2>3
    <2>5. q.local = (r.local /\ proxyActiveCount(r) > 1)
      BY <2>2, <2>4, Zenon
    <2> QED
      BY <1>4, <2>4, <2>5, Names, Zenon DEF ca, ch
  <1>5. CASE r.cache[s].mode = "interface"
    <2>1. q = DropChains([r EXCEPT !.rules = d, !.routes = f], s)
      BY <1>5, <1>1, Names DEF routeCleanupAny, routeCleanupRule
    <2> HIDE DEF d, f, ca, ch
    <2>2. q = [cache |-> ca, auto |-> r.auto, chains |-> ch, rules |-> d, prules |-> r.prules,
               routes |-> f, local |-> r.local]
      BY <1>1, <2>1 DEF DropChains, ca, ch
    <2> QED
      BY <1>5, <2>2, Names DEF d, f, ca, ch
  <1> QED
    BY <1>2, <1>3, <1>4, <1>5

\* What an installation adds.
Installs(r, s, st, q) ==
    /\ q.cache = [r.cache EXCEPT ![s] = st]
    /\ q.chains = r.chains \cup OwnedChains(s, st.mode)
    /\ st.mode = "interface" =>
           /\ q.prules = r.prules /\ q.local = r.local /\ q.rules = r.rules \cup {st.id}
           /\ q.routes = [r.routes EXCEPT ![st.id] = IF st.iface \in up THEN st.iface ELSE @]
    /\ st.mode = Proxy =>
           /\ q.prules = r.prules \cup {ProxyMark[s]} /\ q.local = TRUE
           /\ q.rules = r.rules /\ q.routes = r.routes
    /\ st.mode = Block =>
           /\ q.prules = r.prules /\ q.local = r.local /\ q.rules = r.rules /\ q.routes = r.routes

LEMMA EnsureFields ==
  ASSUME NEW r \in Tables, NEW s \in Sets, NEW st \in States
  PROVE  Installs(r, s, st, EnsureAny(r, s, st))
  <1> DEFINE q == EnsureAny(r, s, st)
             ca == [r.cache EXCEPT ![s] = st]
             ch == r.chains \cup OwnedChains(s, st.mode)
             f == [r.routes EXCEPT ![st.id] = IF st.iface \in up THEN st.iface ELSE @]
  <1>1. /\ r.cache \in [Sets -> States \cup {None}] /\ r.auto \in [Ifaces -> 0 .. MaxId]
        /\ r.chains \in SUBSET (Sets \X Kinds) /\ r.rules \in SUBSET Ids /\ r.prules \in SUBSET Marks
        /\ r.routes \in [Ids -> Ifaces \cup {None}] /\ r.local \in BOOLEAN
        /\ r = [cache |-> r.cache, auto |-> r.auto, chains |-> r.chains, rules |-> r.rules,
                prules |-> r.prules, routes |-> r.routes, local |-> r.local]
    BY TableFields
  <1>2. st.mode \in {"interface", Proxy, Block}
    BY DEF States
  <1>3. WithChains(r, s, st) = [r EXCEPT !.chains = @ \cup OwnedChains(s, st.mode), !.cache[s] = st]
    BY DEF WithChains
  <1>4. WithChains(r, s, st) = [cache |-> ca, auto |-> r.auto, chains |-> ch, rules |-> r.rules,
                                prules |-> r.prules, routes |-> r.routes, local |-> r.local]
    BY <1>1, <1>3
  <1>8. SUFFICES Installs(r, s, st, q)
    OBVIOUS
  <1> HIDE DEF ca, ch, q
  <1>5. CASE st.mode = Block
    <2>1. q = WithChains(r, s, st)
      BY <1>5, Names DEF q, EnsureAny, routeEnsureBlockRule
    <2> QED
      BY <1>4, <1>5, <2>1, Names DEF ca, ch, Installs
  <1>6. CASE st.mode = Proxy
    <2> DEFINE g == TRUE
    <2>1. q = [WithChains(r, s, st) EXCEPT !.prules = @ \cup {ProxyMark[s]}, !.local = g]
      BY <1>6, Names DEF q, EnsureAny, routeEnsureProxyRule
    <2> HIDE DEF g
    <2>2. q = [cache |-> ca, auto |-> r.auto, chains |-> ch, rules |-> r.rules,
               prules |-> r.prules \cup {ProxyMark[s]}, routes |-> r.routes, local |-> g]
      BY <1>1, <2>1 DEF WithChains, ca, ch
    <2>3. q.cache = ca /\ q.chains = ch /\ q.prules = r.prules \cup {ProxyMark[s]} /\ q.rules = r.rules
          /\ q.routes = r.routes /\ q.local = g
      BY <2>2
    <2>4. q.local = TRUE
      BY <2>3, Zenon DEF g
    <2> QED
      BY <1>6, <2>3, <2>4, Names, Zenon DEF ca, ch, Installs
  <1>7. CASE st.mode = "interface"
    <2>1. q = routeEnsurePolicyRouting(WithChains(r, s, st), st)
      BY <1>7, Names DEF q, EnsureAny, routeEnsureRule
    <2>2. q = [WithChains(r, s, st) EXCEPT !.rules = @ \cup {st.id}, !.routes = f]
      BY <2>1, <1>4 DEF routeEnsurePolicyRouting
    <2> HIDE DEF f
    <2>3. q = [cache |-> ca, auto |-> r.auto, chains |-> ch, rules |-> r.rules \cup {st.id},
               prules |-> r.prules, routes |-> f, local |-> r.local]
      BY <1>1, <2>2 DEF WithChains, ca, ch
    <2> QED
      BY <1>7, <2>3, Names DEF ca, ch, f, Installs
  <1> QED
    BY <1>2, <1>5, <1>6, <1>7

\* The chains of different sets are different.
LEMMA OwnedApart ==
  ASSUME NEW s \in Sets, NEW t \in Sets, s # t, NEW m, NEW k, NEW c \in OwnedChains(s, m)
  PROVE  c \notin OwnedChains(t, k)
  <1>1. c[1] = s
    BY DEF OwnedChains
  <1>2. \A e \in OwnedChains(t, k) : e[1] = t
    BY DEF OwnedChains
  <1> QED
    BY <1>1, <1>2

\* With at most one proxy set the one that goes is the last, and with more another stays.
LEMMA OtherProxy ==
  ASSUME NEW r, NEW s \in Sets, IsProxy(r.cache[s])
  PROVE  (proxyActiveCount(r) > 1) <=> \E t \in Sets \ {s} : IsProxy(r.cache[t])
  <1> DEFINE S == {t \in Sets : IsProxy(r.cache[t])}
  <1>1. S \in SUBSET Sets /\ s \in S
    OBVIOUS
  <1>2. proxyActiveCount(r) = Cardinality(S)
    BY DEF proxyActiveCount, IsProxy
  <1>3. IsFiniteSet(S) /\ Cardinality(S) \in Nat
    BY <1>1, SetsFinite, FS_Subset, FS_CardinalityType
  <1>4. ASSUME NEW t \in Sets \ {s}, IsProxy(r.cache[t]) PROVE Cardinality(S) > 1
    <2>1. t \in S /\ t # s
      BY <1>4
    <2> HIDE DEF S
    <2> QED
      BY <1>1, <1>3, <2>1, AtMostOne
  <1>5. ASSUME Cardinality(S) > 1 PROVE \E t \in Sets \ {s} : IsProxy(r.cache[t])
    <2>1. SUFFICES ASSUME S = {s} PROVE FALSE
      BY <1>1
    <2>2. Cardinality({s}) = 1
      BY FS_Singleton
    <2> QED
      BY <1>5, <2>1, <2>2
  <1> QED
    BY <1>2, <1>4, <1>5

\* Of the interface sets with an id, the one that goes is the last when they count one.
LEMMA OtherShare ==
  ASSUME NEW r, NEW s \in Sets, IsIface(r.cache[s]), ~(interfaceShareCount(r, r.cache[s].id) <= 1)
  PROVE  \E t \in Sets \ {s} : IsIface(r.cache[t]) /\ r.cache[t].id = r.cache[s].id
  <1> DEFINE S == {t \in Sets : IsIface(r.cache[t]) /\ r.cache[t].id = r.cache[s].id}
  <1>1. interfaceShareCount(r, r.cache[s].id) = Cardinality(S)
    BY DEF interfaceShareCount
  <1>2. s \in S /\ S \in SUBSET Sets
    OBVIOUS
  <1>3. SUFFICES ASSUME S = {s} PROVE FALSE
    BY <1>2
  <1>4. Cardinality({s}) = 1
    BY FS_Singleton
  <1> QED
    BY <1>1, <1>3, <1>4

\* Cleaning up a set takes what it owns and leaves what the others own.
LEMMA CleanupSound ==
  ASSUME NEW W, NEW r \in RT(W), NEW D, NEW w, NEW X, Sound(r, D, w, X), NEW s \in Sets, r.cache[s] # None
  PROVE  Sound(routeCleanupAny(r, s), D, w, X)
  <1> DEFINE q == routeCleanupAny(r, s)
             m == r.cache[s].mode
             n == r.cache[s].id
             last == interfaceShareCount(r, n) <= 1
  <1>1. r \in Tables /\ OwnId(r) /\ OneIface(r)
    BY DEF RT
  <1>2. /\ r.cache \in [Sets -> States \cup {None}] /\ r.chains \in SUBSET (Sets \X Kinds)
        /\ r.rules \in SUBSET Ids /\ r.prules \in SUBSET Marks
        /\ r.routes \in [Ids -> Ifaces \cup {None}] /\ r.local \in BOOLEAN
    BY <1>1, TableFields
  <1>3. m \in {"interface", Proxy, Block}
    <2>1. r.cache[s] \in States
      BY <1>2
    <2> QED
      BY <2>1 DEF States
  <1>4. /\ q.cache = [r.cache EXCEPT ![s] = None]
        /\ q.chains = {c \in r.chains : c \notin OwnedChains(s, m)}
        /\ m = "interface" => /\ q.prules = r.prules /\ q.local = r.local
                              /\ q.rules = IF last THEN r.rules \ {n} ELSE r.rules
                              /\ q.routes = [r.routes EXCEPT ![n] = IF last THEN None ELSE @]
        /\ m = Proxy => /\ q.prules = r.prules \ {ProxyMark[s]} /\ q.rules = r.rules /\ q.routes = r.routes
                        /\ q.local = (r.local /\ proxyActiveCount(r) > 1)
        /\ m = Block => /\ q.prules = r.prules /\ q.local = r.local /\ q.rules = r.rules
                        /\ q.routes = r.routes
    BY <1>1, CleanupFields
  <1> HIDE DEF q
  <1>5. q.cache[s] = None /\ \A t \in Sets \ {s} : q.cache[t] = r.cache[t]
    BY <1>2, <1>4
  <1>6. Redirected(r) /\ Whole(r, w)
    BY DEF Sound
  <1>7. m = "interface" => n \in Ids
    BY <1>1 DEF OwnId, IsIface
  <1>8. m = Proxy => (q.local = TRUE <=> (r.local = TRUE /\ \E t \in Sets \ {s} : IsProxy(r.cache[t])))
    <2>1. SUFFICES ASSUME m = Proxy
                   PROVE  q.local = TRUE <=> (r.local = TRUE /\ \E t \in Sets \ {s} : IsProxy(r.cache[t]))
      OBVIOUS
    <2>2. (proxyActiveCount(r) > 1) <=> \E t \in Sets \ {s} : IsProxy(r.cache[t])
      BY <2>1, OtherProxy DEF IsProxy
    <2>3. q.local = (r.local /\ proxyActiveCount(r) > 1)
      BY <2>1, <1>4, Zenon
    <2> HIDE DEF m
    <2> QED
      BY <2>2, <2>3, <1>2
  <1>9. Redirected(q)
    <2>1. ASSUME NEW t \in Sets, IsProxy(q.cache[t])
          PROVE  q.local = TRUE /\ (OwnMark(t) => ProxyMark[t] \in q.prules)
      <3>1. t # s /\ IsProxy(r.cache[t])
        BY <2>1, <1>5 DEF IsProxy
      <3>2. r.local = TRUE /\ (OwnMark(t) => ProxyMark[t] \in r.prules)
        BY <3>1, <1>6 DEF Redirected
      <3>3. OwnMark(t) => ProxyMark[s] # ProxyMark[t]
        BY <3>1 DEF OwnMark
      <3>4. q.local = TRUE
        BY <3>1, <3>2, <1>3, <1>4, <1>8
      <3>5. q.prules = r.prules \/ q.prules = r.prules \ {ProxyMark[s]}
        BY <1>3, <1>4
      <3> QED
        BY <3>2, <3>3, <3>4, <3>5
    <2>3. ASSUME NEW k \in Ids, q.routes[k] # None PROVE k \in q.rules
      <3>1. r.routes[k] # None => k \in r.rules
        BY <1>6 DEF Redirected
      <3> QED
        BY <2>3, <3>1, <1>2, <1>3, <1>4, <1>7
    <2> QED
      BY <2>1, <2>3 DEF Redirected
  <1>10. Whole(q, w)
    <2>1. SUFFICES ASSUME NEW t \in Sets, q.cache[t] # None
                   PROVE  \/ OwnedChains(t, q.cache[t].mode) \subseteq q.chains
                          \/ w = TRUE /\ OwnedChains(t, q.cache[t].mode) \cap q.chains = {}
      BY DEF Whole
    <2>2. t # s /\ q.cache[t] = r.cache[t]
      BY <2>1, <1>5
    <2>3. \/ OwnedChains(t, r.cache[t].mode) \subseteq r.chains
          \/ w = TRUE /\ OwnedChains(t, r.cache[t].mode) \cap r.chains = {}
      BY <2>1, <2>2, <1>6 DEF Whole
    <2>4. \A c \in OwnedChains(t, r.cache[t].mode) : c \notin OwnedChains(s, m)
      BY <2>2, OwnedApart
    <2>5. q.chains = {c \in r.chains : c \notin OwnedChains(s, m)}
      BY <1>4
    <2> HIDE DEF m
    <2> QED
      BY <2>2, <2>3, <2>4, <2>5
  <1>11. ASSUME NoStray(r, D) PROVE NoStray(q, D)
    <2>1. \A t \in Sets \ {s} : Known(q, D, t) = Known(r, D, t)
      BY <1>5 DEF Known
    <2>2. \A st \in Known(r, D, s) : st \in Known(q, D, s) \/ st = r.cache[s]
      BY <1>5 DEF Known
    <2>3. ASSUME NEW c \in q.chains
          PROVE  \E t \in Sets : \E st \in Known(q, D, t) : c \in OwnedChains(t, st.mode)
      <3>1. c \in r.chains /\ c \notin OwnedChains(s, m)
        BY <1>4
      <3>2. PICK t \in Sets : \E st \in Known(r, D, t) : c \in OwnedChains(t, st.mode)
        BY <3>1, <1>11 DEF NoStray
      <3>3. PICK st \in Known(r, D, t) : c \in OwnedChains(t, st.mode)
        BY <3>2
      <3>4. st \in Known(q, D, t)
        BY <3>1, <3>3, <2>1, <2>2
      <3> QED
        BY <3>3, <3>4
    <2>4. ASSUME NEW k \in q.rules
          PROVE  \E t \in Sets : \E st \in Known(q, D, t) : st.mode = "interface" /\ st.id = k
      <3>1. k \in r.rules
        BY <1>3, <1>4
      <3>2. PICK t \in Sets : \E st \in Known(r, D, t) : st.mode = "interface" /\ st.id = k
        BY <3>1, <1>11 DEF NoStray
      <3>3. PICK st \in Known(r, D, t) : st.mode = "interface" /\ st.id = k
        BY <3>2
      <3>4. CASE st \in Known(q, D, t)
        BY <3>3, <3>4
      <3>5. CASE st \notin Known(q, D, t)
        <4>1. t = s /\ st = r.cache[s] /\ m = "interface" /\ n = k
          BY <3>3, <3>5, <2>1, <2>2
        <4>2. ~last
          BY <4>1, <1>4
        <4>3. PICK u \in Sets \ {s} : IsIface(r.cache[u]) /\ r.cache[u].id = n
          BY <4>1, <4>2, OtherShare DEF IsIface
        <4>4. r.cache[u] \in Known(q, D, u)
          BY <4>3, <2>1 DEF Known, IsIface
        <4> QED
          BY <4>1, <4>3, <4>4 DEF IsIface
      <3> QED
        BY <3>4, <3>5
    <2>5. ASSUME NEW p \in q.prules
          PROVE  \E t \in Sets : \E st \in Known(q, D, t) : st.mode = Proxy /\ ProxyMark[t] = p
      <3>1. p \in r.prules /\ (m = Proxy => p # ProxyMark[s])
        BY <1>3, <1>4, Names
      <3>2. PICK t \in Sets : \E st \in Known(r, D, t) : st.mode = Proxy /\ ProxyMark[t] = p
        BY <3>1, <1>11 DEF NoStray
      <3>3. PICK st \in Known(r, D, t) : st.mode = Proxy /\ ProxyMark[t] = p
        BY <3>2
      <3>4. st \in Known(q, D, t)
        BY <3>1, <3>3, <2>1, <2>2
      <3> QED
        BY <3>3, <3>4
    <2>7. ASSUME q.local = TRUE
          PROVE  \E t \in Sets : \E st \in Known(q, D, t) : st.mode = Proxy
      <3>1. CASE m = Proxy
        <4>1. PICK t \in Sets \ {s} : IsProxy(r.cache[t])
          BY <2>7, <3>1, <1>8
        <4>2. r.cache[t] \in Known(q, D, t) /\ r.cache[t].mode = Proxy
          BY <4>1, <2>1 DEF Known, IsProxy
        <4> QED
          BY <4>2
      <3>2. CASE m # Proxy
        <4>1. r.local = TRUE
          BY <2>7, <3>2, <1>3, <1>4
        <4>2. PICK t \in Sets : \E st \in Known(r, D, t) : st.mode = Proxy
          BY <4>1, <1>11 DEF NoStray
        <4>3. PICK st \in Known(r, D, t) : st.mode = Proxy
          BY <4>2
        <4>4. st \in Known(q, D, t)
          BY <3>2, <4>3, <2>1, <2>2
        <4> QED
          BY <4>3, <4>4
      <3> QED
        BY <3>1, <3>2
    <2>6. ASSUME NEW k \in Ids, q.routes[k] # None
          PROVE  \E t \in Sets : \E st \in Known(q, D, t) : RouteOf(q, k, st)
      <3>1. q.routes[k] = r.routes[k] /\ (m = "interface" /\ n = k => ~last)
        BY <2>6, <1>2, <1>3, <1>4, <1>7
      <3>2. PICK t \in Sets : \E st \in Known(r, D, t) : RouteOf(r, k, st)
        BY <2>6, <3>1, <1>11 DEF NoStray
      <3>3. PICK st \in Known(r, D, t) :
                st.mode = "interface" /\ st.id = k /\ (k \notin Pinned => st.iface = r.routes[k])
        BY <3>2 DEF RouteOf
      <3>4. CASE st \in Known(q, D, t)
        BY <3>1, <3>3, <3>4 DEF RouteOf
      <3>5. CASE st \notin Known(q, D, t)
        <4>1. t = s /\ st = r.cache[s] /\ m = "interface" /\ n = k
          BY <3>3, <3>5, <2>1, <2>2
        <4>2. ~last
          BY <4>1, <3>1
        <4>3. PICK u \in Sets \ {s} : IsIface(r.cache[u]) /\ r.cache[u].id = n
          BY <4>1, <4>2, OtherShare DEF IsIface
        <4>4. r.cache[u] \in Known(q, D, u)
          BY <4>3, <2>1 DEF Known, IsIface
        <4>5. IsIface(r.cache[s])
          BY <4>1 DEF IsIface
        <4>7. k \notin Pinned => r.cache[u].iface = r.cache[s].iface
          BY <4>1, <4>3, <4>5, <1>1 DEF OneIface
        <4> QED
          BY <3>1, <3>3, <4>1, <4>3, <4>4, <4>7 DEF IsIface, RouteOf
      <3> QED
        BY <3>4, <3>5
    <2> QED
      BY <2>3, <2>4, <2>5, <2>6, <2>7 DEF NoStray
  <1>12. Sound(q, D, w, X)
    BY <1>9, <1>10, <1>11 DEF Sound
  <1> QED
    BY <1>12 DEF q

\* Soundness does not depend on the ids given to interfaces.
LEMMA SameSound ==
  ASSUME NEW r, NEW q, NEW D, NEW w, NEW X, Sound(r, D, w, X), q.cache = r.cache, q.chains = r.chains,
         q.rules = r.rules, q.prules = r.prules, q.routes = r.routes, q.local = r.local
  PROVE  Sound(q, D, w, X)
  <1>1. Redirected(q)
    BY DEF Sound, Redirected
  <1>2. Whole(q, w)
    BY DEF Sound, Whole
  <1>3. NoStray(r, D) => NoStray(q, D)
    BY DEF NoStray, Known, RouteOf
  <1> QED
    BY <1>1, <1>2, <1>3 DEF Sound

\* Installing a set that is not cached.
LEMMA EnsureSound ==
  ASSUME NEW r \in Tables, NEW D, NEW w, NEW X, Sound(r, D, w, X), NEW s \in Sets, r.cache[s] = None,
         NEW st, Fitting(r, st)
  PROVE  Sound(EnsureAny(r, s, st), D, w, X)
  <1> DEFINE q == EnsureAny(r, s, st)
             m == st.mode
  <1>1. /\ r.cache \in [Sets -> States \cup {None}] /\ r.chains \in SUBSET (Sets \X Kinds)
        /\ r.rules \in SUBSET Ids /\ r.prules \in SUBSET Marks
        /\ r.routes \in [Ids -> Ifaces \cup {None}] /\ r.local \in BOOLEAN
    BY TableFields
  <1>2. st \in States /\ st # None /\ (m = "interface" => st.id \in Ids)
    BY Names DEF Fitting, IsIface
  <1>3. m \in {"interface", Proxy, Block}
    BY <1>2 DEF States
  <1>4. /\ q.cache = [r.cache EXCEPT ![s] = st]
        /\ q.chains = r.chains \cup OwnedChains(s, m)
        /\ m = "interface" =>
               /\ q.prules = r.prules /\ q.local = r.local /\ q.rules = r.rules \cup {st.id}
               /\ q.routes = [r.routes EXCEPT ![st.id] = IF st.iface \in up THEN st.iface ELSE @]
        /\ m = Proxy => /\ q.prules = r.prules \cup {ProxyMark[s]} /\ q.local = TRUE
                        /\ q.rules = r.rules /\ q.routes = r.routes
        /\ m = Block => /\ q.prules = r.prules /\ q.local = r.local /\ q.rules = r.rules
                        /\ q.routes = r.routes
    <2>1. Installs(r, s, st, q)
      BY <1>2, EnsureFields
    <2> QED
      BY <2>1 DEF Installs
  <1> HIDE DEF q
  <1>5. q.cache[s] = st /\ \A t \in Sets \ {s} : q.cache[t] = r.cache[t]
    BY <1>1, <1>4
  <1>6. Redirected(r) /\ Whole(r, w)
    BY DEF Sound
  <1>7. /\ q.rules = r.rules \cup (IF m = "interface" THEN {st.id} ELSE {})
        /\ q.prules = r.prules \cup (IF m = Proxy THEN {ProxyMark[s]} ELSE {})
    BY <1>3, <1>4, Names
  <1>8. (q.local = TRUE) <=> (r.local = TRUE \/ m = Proxy)
    BY <1>3, <1>4, Names
  <1>9. ASSUME NEW k \in Ids
        PROVE  q.routes[k] = r.routes[k] \/ (m = "interface" /\ k = st.id /\ q.routes[k] = st.iface)
    BY <1>1, <1>2, <1>3, <1>4
  <1>10. Redirected(q)
    <2>1. ASSUME NEW t \in Sets, IsProxy(q.cache[t])
          PROVE  q.local = TRUE /\ (OwnMark(t) => ProxyMark[t] \in q.prules)
      <3>1. CASE t = s
        BY <2>1, <3>1, <1>5, <1>7, <1>8 DEF IsProxy
      <3>2. CASE t # s
        BY <2>1, <3>2, <1>5, <1>6, <1>7, <1>8 DEF Redirected
      <3> QED
        BY <3>1, <3>2
    <2>3. \A k \in Ids : q.routes[k] # None => k \in q.rules
      BY <1>6, <1>7, <1>9 DEF Redirected
    <2> QED
      BY <2>1, <2>3 DEF Redirected
  <1>11. Whole(q, w)
    <2>1. SUFFICES ASSUME NEW t \in Sets, q.cache[t] # None
                   PROVE  \/ OwnedChains(t, q.cache[t].mode) \subseteq q.chains
                          \/ w = TRUE /\ OwnedChains(t, q.cache[t].mode) \cap q.chains = {}
      BY DEF Whole
    <2>2. q.chains = r.chains \cup OwnedChains(s, m)
      BY <1>4
    <2>3. CASE t = s
      BY <2>2, <2>3, <1>5
    <2>4. CASE t # s
      <3>1. \/ OwnedChains(t, r.cache[t].mode) \subseteq r.chains
            \/ w = TRUE /\ OwnedChains(t, r.cache[t].mode) \cap r.chains = {}
        BY <2>1, <2>4, <1>5, <1>6 DEF Whole
      <3>2. \A c \in OwnedChains(t, r.cache[t].mode) : c \notin OwnedChains(s, m)
        BY <2>4, OwnedApart
      <3> HIDE DEF m
      <3>3. q.cache[t] = r.cache[t]
        BY <2>4, <1>5
      <3> QED
        BY <3>1, <3>2, <3>3, <2>2
    <2> QED
      BY <2>3, <2>4
  <1>12. ASSUME NoStray(r, D) PROVE NoStray(q, D)
    <2>1. \A t \in Sets : Known(r, D, t) \subseteq Known(q, D, t)
      BY <1>5 DEF Known
    <2>2. st \in Known(q, D, s)
      BY <1>2, <1>5 DEF Known
    <2>3. ASSUME NEW c \in q.chains
          PROVE  \E t \in Sets : \E u \in Known(q, D, t) : c \in OwnedChains(t, u.mode)
      <3>1. c \in r.chains \/ c \in OwnedChains(s, m)
        BY <1>4
      <3> QED
        BY <3>1, <2>1, <2>2, <1>12 DEF NoStray
    <2>4. ASSUME NEW k \in q.rules
          PROVE  \E t \in Sets : \E u \in Known(q, D, t) : u.mode = "interface" /\ u.id = k
      <3>1. k \in r.rules \/ (m = "interface" /\ k = st.id)
        BY <1>7
      <3> QED
        BY <3>1, <2>1, <2>2, <1>12 DEF NoStray
    <2>5. ASSUME NEW p \in q.prules
          PROVE  \E t \in Sets : \E u \in Known(q, D, t) : u.mode = Proxy /\ ProxyMark[t] = p
      <3>1. p \in r.prules \/ (m = Proxy /\ p = ProxyMark[s])
        BY <1>1, <1>7
      <3> QED
        BY <3>1, <2>1, <2>2, <1>12 DEF NoStray
    <2>7. ASSUME q.local = TRUE
          PROVE  \E t \in Sets : \E u \in Known(q, D, t) : u.mode = Proxy
      <3>1. CASE r.local = TRUE
        BY <3>1, <2>1, <1>12 DEF NoStray
      <3>2. CASE m = Proxy
        BY <3>2, <2>2
      <3> QED
        BY <3>1, <3>2, <2>7, <1>8
    <2>6. ASSUME NEW k \in Ids, q.routes[k] # None
          PROVE  \E t \in Sets : \E u \in Known(q, D, t) : RouteOf(q, k, u)
      <3>1. CASE q.routes[k] = r.routes[k]
        <4>1. \E t \in Sets : \E u \in Known(r, D, t) : RouteOf(r, k, u)
          BY <2>6, <3>1, <1>12 DEF NoStray
        <4> QED
          BY <3>1, <4>1, <2>1 DEF RouteOf
      <3>2. CASE m = "interface" /\ k = st.id /\ q.routes[k] = st.iface
        BY <3>2, <2>2 DEF RouteOf
      <3> QED
        BY <3>1, <3>2, <1>9
    <2> QED
      BY <2>3, <2>4, <2>5, <2>6, <2>7 DEF NoStray
  <1>13. Sound(q, D, w, X)
    BY <1>10, <1>11, <1>12 DEF Sound
  <1> QED
    BY <1>13 DEF q

\* A command that fails leaves a chain and no cached set: only what is present is kept.
LEMMA FailureSound ==
  ASSUME NEW r \in Tables, NEW D, NEW w, NEW X, X # {}, Sound(r, D, w, X), NEW s \in Sets, r.cache[s] = None, NEW st
  PROVE  Sound(EnsureFails(r, s, st), D, w, X)
  <1> DEFINE k == IF st.mode = Block THEN <<s, "filter">> ELSE <<s, "pre">>
             q == EnsureFails(r, s, st)
  <1>1. /\ r.cache \in [Sets -> States \cup {None}] /\ r.auto \in [Ifaces -> 0 .. MaxId]
        /\ r.chains \in SUBSET (Sets \X Kinds) /\ r.rules \in SUBSET Ids /\ r.prules \in SUBSET Marks
        /\ r.routes \in [Ids -> Ifaces \cup {None}] /\ r.local \in BOOLEAN
        /\ r = [cache |-> r.cache, auto |-> r.auto, chains |-> r.chains, rules |-> r.rules,
                prules |-> r.prules, routes |-> r.routes, local |-> r.local]
    BY TableFields
  <1>2. q = [r EXCEPT !.chains = @ \cup {k}] /\ k[1] = s
    BY DEF EnsureFails
  <1> HIDE DEF k, q
  <1>3. /\ q.cache = r.cache /\ q.chains = r.chains \cup {k} /\ q.rules = r.rules /\ q.prules = r.prules
        /\ q.routes = r.routes /\ q.local = r.local
    BY <1>1, <1>2
  <1>4. Redirected(q)
    BY <1>3 DEF Sound, Redirected
  <1>5. Whole(q, w)
    <2>1. SUFFICES ASSUME NEW t \in Sets, r.cache[t] # None
                   PROVE  \/ OwnedChains(t, r.cache[t].mode) \subseteq q.chains
                          \/ w = TRUE /\ OwnedChains(t, r.cache[t].mode) \cap q.chains = {}
      BY <1>3 DEF Whole
    <2>2. \/ OwnedChains(t, r.cache[t].mode) \subseteq r.chains
          \/ w = TRUE /\ OwnedChains(t, r.cache[t].mode) \cap r.chains = {}
      BY <2>1 DEF Whole, Sound
    <2>3. k \notin OwnedChains(t, r.cache[t].mode)
      BY <2>1, <1>2 DEF OwnedChains
    <2> QED
      BY <2>2, <2>3, <1>3
  <1>6. Sound(q, D, w, X)
    BY <1>4, <1>5 DEF Sound
  <1> QED
    BY <1>6 DEF q

\* The state of a set that is refreshed.
Fits(st, spec) == st # None /\ st.mode = modeOf(spec) /\ st.iface = spec

\* Refreshing a set: the others stay, and without a failure it is cached as asked for.
LEMMA RefreshSound ==
  ASSUME NEW W, W \subseteq up, NEW r \in RT(W), NEW D, NEW w, NEW X, Sound(r, D, w, X), NEW s \in Sets,
         NEW spec \in Specs, NEW failing, failing # {} => X # {}
  PROVE  /\ Sound(Refresh(r, s, spec, failing), D, w, X)
         /\ \A t \in Sets \ {s} : Refresh(r, s, spec, failing).cache[t] = r.cache[t]
         /\ failing = {} => Fits(Refresh(r, s, spec, failing).cache[s], spec)
  <1> DEFINE st == buildRouteState(r, s, spec)
             r1 == Resolved(r, s, st)
             r2 == IF r1.cache[s] \notin {None, st} THEN routeCleanupAny(r1, s) ELSE r1
             q == Refresh(r, s, spec, failing)
  <1>1. r1 \in RT(W) /\ r1.cache = r.cache /\ Fitting(r1, st)
    BY ResolvedKept
  <1>2. q = IF r2.cache[s] # None THEN r2
            ELSE IF s \in failing THEN EnsureFails(r2, s, st) ELSE EnsureAny(r2, s, st)
    BY DEF Refresh
  <1>3. Sound(r1, D, w, X)
    <2>1. r \in Tables
      BY DEF RT
    <2>2. r = [cache |-> r.cache, auto |-> r.auto, chains |-> r.chains, rules |-> r.rules,
               prules |-> r.prules, routes |-> r.routes, local |-> r.local]
      BY <2>1, TableFields
    <2>3. r1.cache = r.cache /\ r1.chains = r.chains /\ r1.rules = r.rules /\ r1.prules = r.prules
          /\ r1.routes = r.routes /\ r1.local = r.local
      BY <2>2 DEF Resolved
    <2> HIDE DEF r1
    <2> QED
      BY <2>3, SameSound
  <1>4. st.mode = modeOf(spec) /\ st.iface = spec
    BY DEF buildRouteState
  <1>5. st # None /\ st \in States
    BY <1>1, Names DEF Fitting
  <1> HIDE DEF st, r1
  <1>6. r1 \in Tables /\ r1.cache \in [Sets -> States \cup {None}]
    BY <1>1, TableFields DEF RT
  <1>7. /\ r2 \in RT(W) /\ Sound(r2, D, w, X) /\ r2.auto = r1.auto
        /\ r2.cache[s] \in {None, st} /\ \A t \in Sets \ {s} : r2.cache[t] = r1.cache[t]
    <2>1. CASE r1.cache[s] \notin {None, st}
      <3>1. /\ routeCleanupAny(r1, s) \in RT(W) /\ routeCleanupAny(r1, s).auto = r1.auto
            /\ routeCleanupAny(r1, s).cache = [r1.cache EXCEPT ![s] = None]
        BY <2>1, <1>1, CleanupKept
      <3>2. Sound(routeCleanupAny(r1, s), D, w, X)
        BY <2>1, <1>1, <1>3, CleanupSound
      <3>3. r2 = routeCleanupAny(r1, s)
        BY <2>1
      <3> HIDE DEF r2
      <3> QED
        BY <3>1, <3>2, <3>3, <1>6
    <2>2. CASE r1.cache[s] \in {None, st}
      BY <2>2, <1>1, <1>3
    <2> QED
      BY <2>1, <2>2
  <1>8. Fitting(r2, st) /\ r2 \in Tables
    BY <1>1, <1>7 DEF Fitting, RT
  <1> HIDE DEF r2
  <1>9. r2.cache \in [Sets -> States \cup {None}]
    BY <1>8, TableFields
  <1>10. CASE r2.cache[s] # None
    BY <1>10, <1>1, <1>2, <1>4, <1>5, <1>7 DEF Fits
  <1>11. CASE r2.cache[s] = None /\ s \in failing
    <2>1. q = EnsureFails(r2, s, st)
      BY <1>2, <1>11
    <2>2. EnsureFails(r2, s, st).cache = r2.cache
      BY <1>8, TableFields DEF EnsureFails
    <2>3. Sound(EnsureFails(r2, s, st), D, w, X)
      BY <1>7, <1>8, <1>11, FailureSound
    <2> HIDE DEF q
    <2>4. Sound(q, D, w, X) /\ (\A t \in Sets \ {s} : q.cache[t] = r.cache[t]) /\ failing # {}
      BY <2>1, <2>2, <2>3, <1>1, <1>7, <1>11
    <2> QED
      BY <2>4 DEF q
  <1>12. CASE r2.cache[s] = None /\ s \notin failing
    <2>1. q = EnsureAny(r2, s, st)
      BY <1>2, <1>12
    <2>2. Sound(EnsureAny(r2, s, st), D, w, X)
      BY <1>7, <1>8, <1>12, EnsureSound
    <2>3. EnsureAny(r2, s, st).cache = [r2.cache EXCEPT ![s] = st]
      <3>1. Installs(r2, s, st, EnsureAny(r2, s, st))
        BY <1>5, <1>8, EnsureFields
      <3> QED
        BY <3>1 DEF Installs
    <2> HIDE DEF q
    <2>4. q.cache[s] = st /\ \A t \in Sets \ {s} : q.cache[t] = r.cache[t]
      BY <2>1, <2>3, <1>1, <1>7, <1>9
    <2>5. Sound(q, D, w, X) /\ Fits(q.cache[s], spec)
      BY <2>1, <2>2, <2>4, <1>4, <1>5 DEF Fits
    <2> QED
      BY <2>4, <2>5 DEF q
  <1> QED
    BY <1>10, <1>11, <1>12

LEMMA SetAt == \A s \in Sets : \E n \in 1 .. Len(SetSeq) : SetSeq[n] = s
  <1>1. DOMAIN SetSeq = 1 .. Len(SetSeq)
    BY ConfigsAssumption
  <1> QED
    BY <1>1 DEF Sets, ToSet

Sounds(W, D, w, X) == {q \in RT(W) : Sound(q, D, w, X)}

\* The first loop of a sync: the sets that are off are no longer cached.
LEMMA UnwantedSound ==
  ASSUME NEW W, NEW D, NEW w, NEW X, NEW r \in Sounds(W, D, w, X), NEW cfg
  PROVE  /\ UnwantedLoop(r, cfg) \in Sounds(W, D, w, X)
         /\ \A s \in Sets : cfg[s] = Off => UnwantedLoop(r, cfg).cache[s] = None
  <1> DEFINE R == Sounds(W, D, w, X)
             N == Len(SetSeq)
  <1>1. ASSUME NEW q \in R, NEW s \in Sets
        PROVE  /\ Unwanted(q, s, cfg) \in R
               /\ \A t \in Sets : q.cache[t] = None => Unwanted(q, s, cfg).cache[t] = None
               /\ cfg[s] = Off => Unwanted(q, s, cfg).cache[s] = None
    <2>1. CASE q.cache[s] # None /\ cfg[s] = Off
      <3>1. Unwanted(q, s, cfg) = routeCleanupAny(q, s)
        BY <2>1 DEF Unwanted
      <3>2. q \in RT(W) /\ Sound(q, D, w, X) /\ q \in Tables
        BY DEF Sounds, RT
      <3>3. q.cache \in [Sets -> States \cup {None}]
        BY <3>2, TableFields
      <3>4. routeCleanupAny(q, s) \in RT(W) /\ routeCleanupAny(q, s).cache = [q.cache EXCEPT ![s] = None]
        BY <2>1, <3>2, CleanupKept
      <3>5. Sound(routeCleanupAny(q, s), D, w, X)
        BY <2>1, <3>2, CleanupSound
      <3> QED
        BY <3>1, <3>3, <3>4, <3>5 DEF Sounds
    <2>2. CASE ~(q.cache[s] # None /\ cfg[s] = Off)
      BY <2>2 DEF Unwanted
    <2> QED
      BY <2>1, <2>2
  <1>2. PICK h : /\ h[0] = r /\ UnwantedLoop(r, cfg) = h[N]
                 /\ \A n \in 0 .. N : h[n] \in R
                 /\ \A n \in 1 .. N : h[n] = Unwanted(h[n - 1], SetSeq[n], cfg)
    <2> HIDE DEF R
    <2>1. UnwantedRun(r, cfg, R)
      BY <1>1, UnwantedSteps DEF R
    <2> QED
      BY <2>1 DEF UnwantedRun
  <1>3. N \in Nat /\ \A n \in 1 .. N : SetSeq[n] \in Sets /\ n - 1 \in 0 .. N
    BY SetsFinite
  <1> HIDE DEF N
  <1>4. ASSUME NEW s \in Sets, cfg[s] = Off PROVE h[N].cache[s] = None
    <2> DEFINE G == {q \in R : q.cache[s] = None}
    <2>1. PICK k \in 1 .. N : SetSeq[k] = s
      BY SetAt DEF N
    <2>2. h[k] \in G
      BY <2>1, <1>1, <1>2, <1>3, <1>4
    <2>3. ASSUME NEW n \in k + 1 .. N, h[n - 1] \in G PROVE h[n] \in G
      <3>1. n \in 1 .. N
        BY <1>3
      <3>2. h[n] = Unwanted(h[n - 1], SetSeq[n], cfg) /\ SetSeq[n] \in Sets
        BY <3>1, <1>2, <1>3
      <3> QED
        BY <2>3, <3>2, <1>1
    <2>4. h[N] \in G
      <3>1. k \in 0 .. N
        BY <1>3
      <3> HIDE DEF G
      <3> QED
        BY <3>1, <1>3, <2>2, <2>3, Reached
    <2> QED
      BY <2>4
  <1>5. h[N] \in R
    BY <1>2, <1>3
  <1> QED
    BY <1>2, <1>4, <1>5

\* The second loop: every set that is wanted is cached as asked for, unless commands fail.
LEMMA WantedSound ==
  ASSUME NEW W, W \subseteq up, NEW D, NEW w, NEW X, NEW r \in Sounds(W, D, w, X), NEW cfg \in Configs,
         NEW failing, failing # {} => X # {}, \A s \in Sets : cfg[s] = Off => r.cache[s] = None
  PROVE  /\ WantedLoop(r, cfg, failing) \in Sounds(W, D, w, X)
         /\ failing = {} => Applied(WantedLoop(r, cfg, failing), cfg)
  <1> DEFINE R == {q \in Sounds(W, D, w, X) : \A s \in Sets : cfg[s] = Off => q.cache[s] = None}
             N == Len(SetSeq)
  <1>1. ASSUME NEW q \in R, NEW s \in Sets
        PROVE  /\ Wanted(q, s, cfg, failing) \in R
               /\ \A t \in Sets \ {s} : Wanted(q, s, cfg, failing).cache[t] = q.cache[t]
               /\ failing = {} /\ cfg[s] # Off => Fits(Wanted(q, s, cfg, failing).cache[s], cfg[s])
    <2>1. CASE cfg[s] = Off
      BY <2>1 DEF Wanted
    <2>2. CASE cfg[s] # Off
      <3>1. Wanted(q, s, cfg, failing) = Refresh(q, s, cfg[s], failing)
        BY <2>2 DEF Wanted
      <3>2. cfg[s] \in Specs
        BY <2>2, ConfigsAssumption DEF Specs
      <3>3. q \in RT(W) /\ Sound(q, D, w, X)
        BY DEF Sounds
      <3>4. Refresh(q, s, cfg[s], failing) \in RT(W)
        BY <3>2, <3>3, RefreshKept
      <3>5. /\ Sound(Refresh(q, s, cfg[s], failing), D, w, X)
            /\ \A t \in Sets \ {s} : Refresh(q, s, cfg[s], failing).cache[t] = q.cache[t]
            /\ failing = {} => Fits(Refresh(q, s, cfg[s], failing).cache[s], cfg[s])
        BY <3>2, <3>3, RefreshSound
      <3> QED
        BY <2>2, <3>1, <3>4, <3>5 DEF Sounds
    <2> QED
      BY <2>1, <2>2
  <1>2. r \in R
    OBVIOUS
  <1>3. PICK h : /\ h[0] = r /\ WantedLoop(r, cfg, failing) = h[N]
                 /\ \A n \in 0 .. N : h[n] \in R
                 /\ \A n \in 1 .. N : h[n] = Wanted(h[n - 1], SetSeq[n], cfg, failing)
    <2>1. \A q \in R : \A s \in Sets : Wanted(q, s, cfg, failing) \in R
      BY <1>1
    <2> HIDE DEF R, N
    <2>2. WantedRun(r, cfg, failing, R)
      BY <2>1, <1>2, WantedSteps
    <2> QED
      BY <2>2 DEF N, WantedRun
  <1>4. N \in Nat /\ \A n \in 1 .. N : SetSeq[n] \in Sets /\ n - 1 \in 0 .. N
    BY SetsFinite
  <1> HIDE DEF N
  <1>5. h[N] \in R
    BY <1>3, <1>4
  <1>6. ASSUME failing = {}, NEW s \in Sets, cfg[s] # Off PROVE Fits(h[N].cache[s], cfg[s])
    <2> HIDE DEF R
    <2> DEFINE G == {q \in R : Fits(q.cache[s], cfg[s])}
    <2>1. PICK k \in 1 .. N : SetSeq[k] = s
      BY SetAt DEF N
    <2>2. h[k] \in G
      BY <2>1, <1>1, <1>3, <1>4, <1>6
    <2>3. ASSUME NEW n \in k + 1 .. N, h[n - 1] \in G PROVE h[n] \in G
      <3>1. n \in 1 .. N
        BY <1>4
      <3>2. h[n] = Wanted(h[n - 1], SetSeq[n], cfg, failing) /\ SetSeq[n] \in Sets
        BY <3>1, <1>3, <1>4
      <3>3. CASE SetSeq[n] = s
        BY <2>3, <3>2, <3>3, <1>1, <1>6
      <3>4. CASE SetSeq[n] # s
        BY <2>3, <3>2, <3>4, <1>1
      <3> QED
        BY <3>3, <3>4
    <2>4. h[N] \in G
      <3>1. k \in 0 .. N
        BY <1>4
      <3> HIDE DEF G
      <3> QED
        BY <3>1, <1>4, <2>2, <2>3, Reached
    <2> QED
      BY <2>4
  <1>7. failing = {} => Applied(h[N], cfg)
    BY <1>5, <1>6 DEF Applied, Fits
  <1> QED
    BY <1>3, <1>5, <1>7

\* A whole sync, whatever was cached before.
LEMMA SyncSound ==
  ASSUME NEW W, W \subseteq up, NEW r \in RT(W), NEW D, NEW w, NEW X, Sound(r, D, w, X),
         NEW cfg \in Configs, NEW failing, failing # {} => X # {}, NEW q \in SyncOf(r, cfg, failing)
  PROVE  Sound(q, D, w, X) /\ (failing = {} => Applied(q, cfg))
  <1> DEFINE mid == UnwantedLoop(r, cfg)
             done == WantedLoop(mid, cfg, failing)
  <1>0. PICK au \in [Ifaces -> 0 .. MaxId] : Rebuilt(q, done, au)
    BY SyncResult
  <1>1. q = [done EXCEPT !.auto = au]
    BY <1>0 DEF Rebuilt
  <1>2. mid \in Sounds(W, D, w, X) /\ \A s \in Sets : cfg[s] = Off => mid.cache[s] = None
    BY UnwantedSound DEF Sounds
  <1> HIDE DEF mid
  <1>3. done \in Sounds(W, D, w, X) /\ (failing = {} => Applied(done, cfg))
    BY <1>2, WantedSound
  <1> HIDE DEF done
  <1>4. done \in Tables /\ Sound(done, D, w, X)
    BY <1>3 DEF Sounds, RT
  <1>5. done = [cache |-> done.cache, auto |-> done.auto, chains |-> done.chains, rules |-> done.rules,
                prules |-> done.prules, routes |-> done.routes, local |-> done.local]
    BY <1>4, TableFields
  <1>6. /\ q.cache = done.cache /\ q.chains = done.chains /\ q.rules = done.rules
        /\ q.prules = done.prules /\ q.routes = done.routes /\ q.local = done.local
    BY <1>1, <1>5
  <1>7. Sound(q, D, w, X)
    BY <1>4, <1>6, SameSound
  <1>8. failing = {} => Applied(q, cfg)
    BY <1>3, <1>6 DEF Applied
  <1> QED
    BY <1>7, <1>8

\* At shutdown every cached set is cleaned up.
LEMMA CleanupLoopSound ==
  ASSUME NEW W, NEW D, NEW w, NEW X, NEW r \in Sounds(W, D, w, X)
  PROVE  CleanupLoop(r) \in Sounds(W, D, w, X)
  <1> DEFINE R == Sounds(W, D, w, X)
             N == Len(SetSeq)
  <1>1. ASSUME NEW q \in R, NEW s \in Sets PROVE Cleanup(q, s) \in R
    <2>1. CASE q.cache[s] # None
      <3>1. Cleanup(q, s) = routeCleanupAny(q, s)
        BY <2>1 DEF Cleanup
      <3>2. q \in RT(W) /\ Sound(q, D, w, X)
        BY DEF Sounds
      <3>3. routeCleanupAny(q, s) \in RT(W) /\ Sound(routeCleanupAny(q, s), D, w, X)
        BY <2>1, <3>2, CleanupKept, CleanupSound
      <3> QED
        BY <3>1, <3>3 DEF Sounds
    <2>2. CASE q.cache[s] = None
      BY <2>2 DEF Cleanup
    <2> QED
      BY <2>1, <2>2
  <1>2. PICK h : CleanupLoop(r) = h[N] /\ \A n \in 0 .. N : h[n] \in R
    <2> HIDE DEF R
    <2>1. CleanupRun(r, R)
      BY <1>1, CleanupSteps DEF R
    <2> QED
      BY <2>1 DEF CleanupRun
  <1>3. N \in Nat
    BY SetsFinite
  <1> HIDE DEF N, R
  <1> QED
    BY <1>2, <1>3 DEF R

----------------------------------------------------------------------------
(* The state *)

Jobs == Sets \X Specs

\* The interfaces whose default route must be in place: those present whose link event
\* was handled.
Live == up \ (msgs \cup pend \cup missed)

\* The routing state is good, and whatever waits to be applied to it, a save, a lookup or
\* the tick's configuration, is well formed.
Inv ==
    /\ rt \in RT(Live)
    /\ store \in Configs
    /\ \A y \in syncs : y \in [n : Nat, cfg : Configs, step : {"listen", "route"}]
    /\ jobs \subseteq Jobs
    /\ tick.step # "idle" => tick.cfg \in Configs
    /\ events \in Nat

LEMMA JobsTyped ==
  ASSUME NEW c \in Configs, NEW s \in Sets, c[s] # Off
  PROVE  <<s, c[s]>> \in Jobs
  BY ConfigsAssumption DEF Jobs, Specs

LEMMA HoldingTyped ==
  ASSUME NEW new \in SUBSET Jobs, jobs \subseteq Jobs, jobs' \in Holding(new)
  PROVE  jobs' \subseteq Jobs
  BY DEF Holding

LEMMA NewJobsTyped ==
  ASSUME NEW c \in Configs, NEW a, NEW b
  PROVE  NewJobs(a, b, c) \in SUBSET Jobs /\ RoutingPeriodicReResolve(c) \in SUBSET Jobs
  BY JobsTyped DEF NewJobs, RoutingPeriodicReResolve

LEMMA Starts == Init => Inv
  <1> SUFFICES ASSUME Init PROVE Inv
    OBVIOUS
  <1>1. PICK start \in Startup : store = start[1] /\ up = start[2]
    BY DEF Init
  <1>2. store \in Configs
    BY <1>1, ConfigsAssumption
  <1>3. rt \in RT(Live)
    <2>1. rt = Empty
      BY DEF Init
    <2>2. {} \in SUBSET (Sets \X Kinds) /\ {} \in SUBSET Ids /\ {} \in SUBSET Marks
          /\ [n \in Ids |-> None] \in [Ids -> Ifaces \cup {None}] /\ FALSE \in BOOLEAN
      OBVIOUS
    <2> QED
      BY <2>1, <2>2, ForgottenKept DEF Empty
  <1>4. syncs = {[n |-> 0, cfg |-> store, step |-> "listen"]}
    BY DEF Init
  <1>5. \A y \in syncs : y \in [n : Nat, cfg : Configs, step : {"listen", "route"}]
    BY <1>2, <1>4
  <1>6. jobs \subseteq Jobs /\ events \in Nat
    BY DEF Init
  <1>7. tick.step = "idle"
    BY DEF Init, Idle
  <1> QED
    BY <1>2, <1>3, <1>5, <1>6, <1>7 DEF Inv

\* An action that leaves the cache, the ids and the rules of the cached sets alone.
LEMMA KernelKept ==
  ASSUME NEW W, NEW r \in RT(W), NEW c \in SUBSET (Sets \X Kinds), NEW d \in SUBSET Ids, r.rules \subseteq d,
         NEW f \in [Ids -> Ifaces \cup {None}], NEW V,
         \A s \in Sets : IsIface(r.cache[s]) /\ r.cache[s].iface \in V /\ r.cache[s].id \notin Pinned =>
             f[r.cache[s].id] = r.cache[s].iface
  PROVE  [r EXCEPT !.chains = c, !.rules = d, !.routes = f] \in RT(V)
  <1> DEFINE q == [r EXCEPT !.chains = c, !.rules = d, !.routes = f]
  <1>0. q = [r EXCEPT !.chains = c, !.rules = d, !.routes = f]
    OBVIOUS
  <1> HIDE DEF q
  <1>1. r \in Tables /\ OwnId(r) /\ OneIface(r)
    BY DEF RT
  <1>2. /\ r.cache \in [Sets -> States \cup {None}] /\ r.auto \in [Ifaces -> 0 .. MaxId]
        /\ r.chains \in SUBSET (Sets \X Kinds) /\ r.rules \in SUBSET Ids /\ r.prules \in SUBSET Marks
        /\ r.routes \in [Ids -> Ifaces \cup {None}] /\ r.local \in BOOLEAN
        /\ r = [cache |-> r.cache, auto |-> r.auto, chains |-> r.chains, rules |-> r.rules,
                prules |-> r.prules, routes |-> r.routes, local |-> r.local]
    BY <1>1, TableFields
  <1>3. q = [cache |-> r.cache, auto |-> r.auto, chains |-> c, rules |-> d,
             prules |-> r.prules, routes |-> f, local |-> r.local]
    BY <1>0, <1>2
  <1>4. q \in Tables
    BY <1>2, <1>3, TableOf
  <1>5. q.cache = r.cache /\ q.auto = r.auto /\ q.rules = d /\ q.routes = f
    BY <1>3
  <1>6. OwnId(q)
    BY <1>1, <1>5 DEF OwnId
  <1>7. OneIface(q) /\ Routed(q, V)
    BY <1>1, <1>5 DEF OneIface, Routed
  <1>8. q \in RT(V)
    BY <1>4, <1>6, <1>7 DEF RT
  <1> QED
    BY <1>8 DEF q

\* Fewer interfaces to answer for.
LEMMA Fewer ==
  ASSUME NEW W, NEW r \in RT(W), NEW V \in SUBSET W
  PROVE  r \in RT(V)
  BY DEF RT, Routed

LEMMA LiveUp == Live \subseteq up
  BY DEF Live

LEMMA RtFields ==
  ASSUME rt \in RT(Live)
  PROVE  /\ rt.cache \in [Sets -> States \cup {None}] /\ rt.auto \in [Ifaces -> 0 .. MaxId]
         /\ rt.chains \in SUBSET (Sets \X Kinds) /\ rt.rules \in SUBSET Ids /\ rt.prules \in SUBSET Marks
         /\ rt.routes \in [Ids -> Ifaces \cup {None}] /\ rt.local \in BOOLEAN
         /\ rt = [cache |-> rt.cache, auto |-> rt.auto, chains |-> rt.chains, rules |-> rt.rules,
                  prules |-> rt.prules, routes |-> rt.routes, local |-> rt.local]
  <1>1. rt \in Tables
    BY DEF RT
  <1> QED
    BY <1>1, TableFields

LEMMA SyncStep ==
  ASSUME Inv, NEW y \in syncs, NEW f, RoutingSyncConfig(y, f)
  PROVE  Inv'
  <1>1. y \in [n : Nat, cfg : Configs, step : {"listen", "route"}]
    BY DEF Inv
  <1>2. y.cfg \in Configs
    BY <1>1
  <1>8. rt \in RT(Live) /\ Live' = Live
    BY DEF RoutingSyncConfig, Inv, Live
  <1>9. rt' \in SyncOf(rt, y.cfg, f)
    BY DEF RoutingSyncConfig
  <1>3. rt' \in RT(Live')
    BY <1>2, <1>8, <1>9, LiveUp, SyncKept
  <1>4. jobs' \subseteq Jobs
    <2>1. jobs' \in Holding(NewJobs(rt, rt', y.cfg)) /\ jobs \subseteq Jobs
      BY DEF RoutingSyncConfig, Inv
    <2>2. NewJobs(rt, rt', y.cfg) \in SUBSET Jobs
      BY <1>2, NewJobsTyped
    <2> QED
      BY <2>1, <2>2, HoldingTyped
  <1>5. syncs' \subseteq syncs /\ store' = store /\ tick' = tick /\ events' \in Nat
    BY DEF RoutingSyncConfig, Inv
  <1> QED
    BY <1>3, <1>4, <1>5 DEF Inv

LEMMA DNSStep ==
  ASSUME Inv, NEW j \in jobs, NEW f, RoutingHandleDNS(j, f)
  PROVE  Inv'
  <1>1. j \in Jobs
    BY DEF Inv
  <1>2. j[1] \in Sets /\ j[2] \in Specs
    BY <1>1 DEF Jobs
  <1>8. rt \in RT(Live) /\ Live' = Live
    BY DEF RoutingHandleDNS, Inv, Live
  <1>9. Refresh(rt, j[1], j[2], f) \in RT(Live)
    BY <1>2, <1>8, LiveUp, RefreshKept
  <1>3. rt' \in RT(Live')
    BY <1>8, <1>9 DEF RoutingHandleDNS
  <1>4. jobs' \subseteq jobs /\ UNCHANGED <<store, syncs, tick>> /\ events' \in Nat
    BY DEF RoutingHandleDNS, Inv
  <1> QED
    BY <1>3, <1>4 DEF Inv

LEMMA ForceStep ==
  ASSUME Inv, RoutingForceResync
  PROVE  Inv'
  <1>1. rt \in RT(Live)
    BY DEF Inv
  <1>2. rt' = [rt EXCEPT !.cache = NoCache, !.auto = NoAuto]
    BY DEF RoutingForceResync
  <1>3. rt' = [cache |-> NoCache, auto |-> NoAuto, chains |-> rt.chains, rules |-> rt.rules,
               prules |-> rt.prules, routes |-> rt.routes, local |-> rt.local]
    BY <1>1, <1>2, RtFields
  <1>4. rt' \in RT(Live')
    BY <1>1, <1>3, RtFields, ForgottenKept
  <1>5. tick.step = "check" /\ tick.cfg \in Configs
    BY DEF RoutingForceResync, Inv
  <1>6. tick' = [tick EXCEPT !.step = "resync", !.dropped = rt.cache]
    BY DEF RoutingForceResync
  <1>7. tick'.cfg \in Configs
    BY <1>5, <1>6
  <1>8. UNCHANGED <<store, syncs, jobs, events>>
    BY DEF RoutingForceResync
  <1> QED
    BY <1>4, <1>7, <1>8 DEF Inv

\* A sync that gives up keeps the routing state or forgets it.
LEMMA AbandonedKept ==
  ASSUME NEW W, NEW r \in RT(W), NEW forget \in BOOLEAN
  PROVE  Abandoned(r, forget) \in RT(W)
  <1>1. CASE forget
    <2>1. r \in Tables
      BY DEF RT
    <2>2. /\ r.chains \in SUBSET (Sets \X Kinds) /\ r.rules \in SUBSET Ids /\ r.prules \in SUBSET Marks
          /\ r.routes \in [Ids -> Ifaces \cup {None}] /\ r.local \in BOOLEAN
      BY <2>1, TableFields
    <2>3. Abandoned(r, forget) = [r EXCEPT !.cache = NoCache, !.auto = NoAuto]
      BY <1>1 DEF Abandoned
    <2>4. Abandoned(r, forget) = [cache |-> NoCache, auto |-> NoAuto, chains |-> r.chains, rules |-> r.rules,
                                  prules |-> r.prules, routes |-> r.routes, local |-> r.local]
      BY <2>1, <2>3, TableFields
    <2>5. [cache |-> NoCache, auto |-> NoAuto, chains |-> r.chains, rules |-> r.rules,
           prules |-> r.prules, routes |-> r.routes, local |-> r.local] \in RT(W)
      BY <2>2, ForgottenKept
    <2> QED
      BY <2>4, <2>5
  <1>2. CASE ~forget
    BY <1>2 DEF Abandoned
  <1> QED
    BY <1>1, <1>2

LEMMA AbandonedStep ==
  ASSUME Inv, \/ \E y \in syncs : \E forget \in BOOLEAN : SyncAbandoned(y, forget)
              \/ TickAbandoned
  PROVE  Inv'
  <1>0. rt \in RT(Live)
    BY DEF Inv
  <1>1. CASE \E y \in syncs : \E forget \in BOOLEAN : SyncAbandoned(y, forget)
    <2>1. PICK y \in syncs, forget \in BOOLEAN : SyncAbandoned(y, forget)
      BY <1>1
    <2>2. rt' = Abandoned(rt, forget) /\ Live' = Live
      BY <2>1 DEF SyncAbandoned, Live
    <2>3. rt' \in RT(Live')
      BY <2>2, <1>0, AbandonedKept
    <2>4. syncs' \subseteq syncs /\ UNCHANGED <<store, jobs, tick>> /\ events' \in Nat
      BY <2>1 DEF SyncAbandoned, Inv
    <2> QED
      BY <2>3, <2>4 DEF Inv
  <1>2. CASE TickAbandoned
    <2>1. PICK forget \in BOOLEAN : rt' = Abandoned(rt, forget)
      BY <1>2 DEF TickAbandoned
    <2>2. Live' = Live
      BY <1>2 DEF TickAbandoned, Live
    <2>3. rt' \in RT(Live')
      BY <2>1, <2>2, <1>0, AbandonedKept
    <2>4. tick'.step = "idle" /\ UNCHANGED <<store, syncs, jobs>> /\ events' \in Nat
      BY <1>2 DEF TickAbandoned, Idle, Inv
    <2> QED
      BY <2>3, <2>4 DEF Inv
  <1> QED
    BY <1>1, <1>2

LEMMA ResyncStep ==
  ASSUME Inv, NEW f, TickResync(f)
  PROVE  Inv'
  <1>1. tick.cfg \in Configs
    BY DEF TickResync, Inv
  <1>8. rt \in RT(Live) /\ Live' = Live
    BY DEF TickResync, Inv, Live
  <1>9. rt' \in SyncOf(rt, tick.cfg, f)
    BY DEF TickResync
  <1>2. rt' \in RT(Live')
    BY <1>1, <1>8, <1>9, LiveUp, SyncKept
  <1>3. jobs' \subseteq Jobs
    <2>1. jobs' \in Holding(NewJobs(rt, rt', tick.cfg)) /\ jobs \subseteq Jobs
      BY DEF TickResync, Inv
    <2>2. NewJobs(rt, rt', tick.cfg) \in SUBSET Jobs
      BY <1>1, NewJobsTyped
    <2> QED
      BY <2>1, <2>2, HoldingTyped
  <1>4. tick'.step = "idle"
    BY DEF TickResync, Idle
  <1>5. UNCHANGED <<store, syncs>> /\ events' \in Nat
    BY DEF TickResync, Inv
  <1> QED
    BY <1>2, <1>3, <1>4, <1>5 DEF Inv

LEMMA DownStep ==
  ASSUME Inv, NEW i \in Ifaces, IfaceDown(i)
  PROVE  Inv'
  <1> DEFINE f == [n \in Ids |-> IF rt.routes[n] = i THEN None ELSE rt.routes[n]]
  <1>1. rt \in RT(Live)
    BY DEF Inv
  <1>2. rt' = [rt EXCEPT !.routes = f]
    BY DEF IfaceDown
  <1>3. f \in [Ids -> Ifaces \cup {None}]
    BY <1>1, RtFields
  <1> HIDE DEF f
  <1>4. rt' = [rt EXCEPT !.chains = rt.chains, !.rules = rt.rules, !.routes = f]
    BY <1>1, <1>2, RtFields
  <1>7. ASSUME NEW s \in Sets, IsIface(rt.cache[s]), rt.cache[s].iface \in Live',
               rt.cache[s].id \notin Pinned
        PROVE  f[rt.cache[s].id] = rt.cache[s].iface
    <2>1. rt.cache[s].iface # i /\ rt.cache[s].iface \in Live
      BY <1>7 DEF IfaceDown, Live
    <2>2. rt.routes[rt.cache[s].id] = rt.cache[s].iface /\ rt.cache[s].id \in Ids
      BY <1>1, <1>7, <2>1 DEF RT, Routed, OwnId
    <2> QED
      BY <2>1, <2>2 DEF f
  <1>5. rt' \in RT(Live')
    BY <1>1, <1>3, <1>4, <1>7, RtFields, KernelKept
  <1>6. UNCHANGED <<store, syncs, jobs, tick>> /\ events' \in Nat
    BY DEF IfaceDown, Inv
  <1> QED
    BY <1>5, <1>6 DEF Inv

LEMMA WipeStep ==
  ASSUME Inv, Wipe
  PROVE  Inv'
  <1>1. rt \in RT(Live)
    BY DEF Inv
  <1>2. rt' = [rt EXCEPT !.chains = {}]
    BY DEF Wipe
  <1>3. rt' = [rt EXCEPT !.chains = {}, !.rules = rt.rules, !.routes = rt.routes]
    BY <1>1, <1>2, RtFields
  <1>4. {} \in SUBSET (Sets \X Kinds)
    OBVIOUS
  <1>7. Live' = Live /\ Routed(rt, Live)
    BY <1>1 DEF Wipe, Live, RT
  <1>8. [rt EXCEPT !.chains = {}, !.rules = rt.rules, !.routes = rt.routes] \in RT(Live)
    BY <1>1, <1>4, <1>7, RtFields, KernelKept DEF Routed
  <1>5. rt' \in RT(Live')
    BY <1>3, <1>7, <1>8
  <1>6. UNCHANGED <<store, syncs, jobs, tick>> /\ events' \in Nat
    BY DEF Wipe, Inv
  <1> QED
    BY <1>5, <1>6 DEF Inv

LEMMA ReinstallStep ==
  ASSUME Inv, scheduleReinstall
  PROVE  Inv'
  <1> DEFINE on(n) == {s \in Sets : /\ IsIface(rt.cache[s]) /\ rt.cache[s].id = n
                                    /\ rt.cache[s].iface \in pend \cap up}
             again == {n \in Ids : on(n) # {}}
             d == rt.rules \cup again
  <1>1. rt \in RT(Live) /\ OwnId(rt) /\ OneIface(rt) /\ Routed(rt, Live)
    BY DEF Inv, RT
  <1>2. PICK f \in [Ids -> Ifaces \cup {None}] :
            /\ rt' = [rt EXCEPT !.rules = d, !.routes = f]
            /\ \A n \in Ids : f[n] \in IF n \in again THEN {rt.cache[s].iface : s \in on(n)} ELSE {rt.routes[n]}
    BY DEF scheduleReinstall, RoutingReinstallForInterface
  <1>3. ASSUME NEW n \in again, NEW s \in Sets, IsIface(rt.cache[s]), rt.cache[s].id = n, n \notin Pinned
        PROVE  f[n] = rt.cache[s].iface
    <2>1. PICK u \in on(n) : f[n] = rt.cache[u].iface
      BY <1>2
    <2> QED
      BY <2>1, <1>1, <1>3 DEF OneIface
  <1>9. ASSUME NEW s \in Sets, IsIface(rt.cache[s]), rt.cache[s].iface \in Live',
               rt.cache[s].id \notin Pinned
        PROVE  f[rt.cache[s].id] = rt.cache[s].iface
    <2>1. rt.cache[s].id \in Ids /\ rt.cache[s].iface \in up
      BY <1>1, <1>9 DEF OwnId, Live, scheduleReinstall
    <2>2. CASE rt.cache[s].id \in again
      BY <2>2, <1>3, <1>9
    <2>3. CASE rt.cache[s].id \notin again
      <3>1. rt.cache[s].iface \notin pend
        BY <2>1, <2>3, <1>9
      <3>2. rt.cache[s].iface \in Live
        BY <3>1, <1>9 DEF Live, scheduleReinstall
      <3>3. rt.routes[rt.cache[s].id] = rt.cache[s].iface
        BY <3>2, <1>1, <1>9 DEF Routed
      <3> QED
        BY <3>3, <2>1, <2>3, <1>2
    <2> QED
      BY <2>2, <2>3
  <1>5. d \in SUBSET Ids /\ rt.rules \subseteq d
    BY <1>1, RtFields
  <1> HIDE DEF d
  <1>6. rt' = [rt EXCEPT !.chains = rt.chains, !.rules = d, !.routes = f]
    BY <1>1, <1>2, RtFields
  <1>7. rt' \in RT(Live')
    BY <1>1, <1>5, <1>6, <1>9, RtFields, KernelKept
  <1>8. UNCHANGED <<store, syncs, jobs, tick, events>>
    BY DEF scheduleReinstall
  <1> QED
    BY <1>7, <1>8 DEF Inv

\* After a clear nothing is cached and no interface has to be answered for.
LEMMA ClearedFor ==
  ASSUME NEW W, NEW r \in RT(W), NEW V
  PROVE  RoutingClearAll(r, FALSE) \in RT(V)
  <1>1. r \in Tables
    BY DEF RT
  <1>2. RoutingClearAll(r, FALSE) = [r EXCEPT !.chains = {}, !.cache = NoCache, !.auto = NoAuto]
    BY DEF RoutingClearAll
  <1>3. RoutingClearAll(r, FALSE) =
          [cache |-> NoCache, auto |-> NoAuto, chains |-> {}, rules |-> r.rules,
           prules |-> r.prules, routes |-> r.routes, local |-> r.local]
    BY <1>1, <1>2, TableFields
  <1>4. {} \in SUBSET (Sets \X Kinds)
    OBVIOUS
  <1>5. r.rules \in SUBSET Ids /\ r.prules \in SUBSET Marks
        /\ r.routes \in [Ids -> Ifaces \cup {None}] /\ r.local \in BOOLEAN
    BY <1>1, TableFields
  <1>6. [cache |-> NoCache, auto |-> NoAuto, chains |-> {}, rules |-> r.rules,
         prules |-> r.prules, routes |-> r.routes, local |-> r.local] \in RT(V)
    BY <1>4, <1>5, ForgottenKept
  <1> QED
    BY <1>3, <1>6

LEMMA RestartStep ==
  ASSUME Inv, NEW clean \in BOOLEAN, Restart(clean)
  PROVE  Inv'
  <1>1. rt \in RT(Live) /\ store \in Configs
    BY DEF Inv
  <1>2. RoutingClearAll(rt, clean) \in RT(Live)
    BY <1>1, ClearKept
  <1>7. RoutingClearAll(RoutingClearAll(rt, clean), FALSE) \in RT(Live')
    BY <1>2, ClearedFor
  <1>3. rt' \in RT(Live')
    BY <1>7 DEF Restart
  <1>4. syncs' = {[n |-> 0, cfg |-> store, step |-> "listen"]}
    BY DEF Restart
  <1>5. \A y \in syncs' : y \in [n : Nat, cfg : Configs, step : {"listen", "route"}]
    BY <1>1, <1>4
  <1>6. jobs' \subseteq Jobs /\ tick'.step = "idle" /\ store' = store /\ events' \in Nat
    BY DEF Restart, Idle, Inv
  <1> QED
    BY <1>1, <1>3, <1>5, <1>6 DEF Inv

\* The actions that leave the routing state alone.
LEMMA OtherSteps ==
  ASSUME Inv,
         \/ \E c \in Configs : Save(c)
         \/ \E y \in syncs : \E f \in Failing(y.cfg) : SyncListeners(y, f)
         \/ \E j \in jobs : LookupFails(j)
         \/ TickStart \/ TickQuiet \/ Flush
         \/ \E i \in Ifaces : IfaceUp(i) \/ handleEvent(i)
         \/ UNCHANGED vars
  PROVE  Inv'
  <1>1. CASE \E c \in Configs : Save(c)
    <2>1. PICK c \in Configs : Save(c)
      BY <1>1
    <2>2. /\ rt' = rt /\ Live' = Live /\ store' = c /\ jobs' = jobs /\ tick' = tick /\ events' = events + 1
          /\ syncs' = syncs \cup {[n |-> events + 1, cfg |-> c, step |-> "listen"]}
      BY <2>1 DEF Save, Live
    <2>3. [n |-> events + 1, cfg |-> c, step |-> "listen"]
              \in [n : Nat, cfg : Configs, step : {"listen", "route"}]
      BY DEF Inv
    <2> QED
      BY <2>2, <2>3 DEF Inv
  <1>2. CASE \E y \in syncs : \E f \in Failing(y.cfg) : SyncListeners(y, f)
    <2>1. PICK y \in syncs : \E f \in Failing(y.cfg) : SyncListeners(y, f)
      BY <1>2
    <2>2. /\ UNCHANGED <<rt, Live, store, jobs, tick>> /\ events' \in Nat
          /\ syncs' = (syncs \ {y}) \cup {[y EXCEPT !.step = "route"]}
      BY <2>1 DEF SyncListeners, Inv, Live
    <2>3. y \in [n : Nat, cfg : Configs, step : {"listen", "route"}]
      BY DEF Inv
    <2>4. [y EXCEPT !.step = "route"] \in [n : Nat, cfg : Configs, step : {"listen", "route"}]
      BY <2>3
    <2> QED
      BY <2>2, <2>4 DEF Inv
  <1>3. CASE Flush
    BY <1>3 DEF Flush, Inv, Live
  <1>4. CASE \E j \in jobs : LookupFails(j)
    BY <1>4 DEF LookupFails, Inv, Live
  <1>5. CASE TickStart
    <2>1. tick' = [Idle EXCEPT !.step = "check", !.cfg = store] /\ UNCHANGED <<rt, Live, store, syncs, jobs, events>>
      BY <1>5 DEF TickStart, Live
    <2>2. tick'.cfg = store
      BY <2>1 DEF Idle
    <2> QED
      BY <2>1, <2>2 DEF Inv
  <1>6. CASE TickQuiet
    <2>1. tick.cfg \in Configs
      BY <1>6 DEF TickQuiet, Inv
    <2>2. jobs' \in Holding(RoutingPeriodicReResolve(tick.cfg)) /\ jobs \subseteq Jobs
      BY <1>6 DEF TickQuiet, Inv
    <2>3. jobs' \subseteq Jobs
      BY <2>1, <2>2, NewJobsTyped, HoldingTyped
    <2>4. tick'.step = "idle" /\ UNCHANGED <<rt, Live, store, syncs, events>>
      BY <1>6 DEF TickQuiet, Idle, Live
    <2> QED
      BY <2>3, <2>4 DEF Inv
  <1>7. CASE \E i \in Ifaces : IfaceUp(i) \/ handleEvent(i)
    <2>1. PICK i \in Ifaces : IfaceUp(i) \/ handleEvent(i)
      BY <1>7
    <2>2. UNCHANGED <<rt, store, syncs, jobs, tick>> /\ events' \in Nat
      BY <2>1 DEF IfaceUp, handleEvent, Inv
    <2>3. CASE IfaceUp(i)
      <3>1. Live' \in SUBSET Live
        BY <2>3 DEF IfaceUp, Live
      <3>2. rt \in RT(Live')
        BY <3>1, Fewer DEF Inv
      <3> QED
        BY <2>2, <3>2 DEF Inv
    <2>4. CASE handleEvent(i)
      <3>1. CASE isWatchedIface(i) \/ InstalledOn(i)
        <4>1. Live' \in SUBSET Live
          BY <2>4, <3>1 DEF handleEvent, Live
        <4>2. rt \in RT(Live')
          BY <4>1, Fewer DEF Inv
        <4> QED
          BY <2>2, <4>2 DEF Inv
      <3>2. CASE ~InstalledOn(i)
        <4>1. Live' \subseteq Live \cup {i}
          BY <2>4 DEF handleEvent, Live
        <4>2. rt \in RT(Live)
          BY DEF Inv
        <4>3. Routed(rt, Live')
          BY <3>2, <4>1, <4>2 DEF RT, Routed, InstalledOn
        <4>4. rt \in RT(Live')
          BY <4>2, <4>3 DEF RT
        <4> QED
          BY <2>2, <4>4 DEF Inv
      <3> QED
        BY <3>1, <3>2
    <2> QED
      BY <2>1, <2>3, <2>4
  <1>8. CASE UNCHANGED vars
    BY <1>8 DEF vars, Inv, Live
  <1> QED
    BY <1>1, <1>2, <1>3, <1>4, <1>5, <1>6, <1>7, <1>8

LEMMA Preserved == Inv /\ [Next]_vars => Inv'
  <1> SUFFICES ASSUME Inv, [Next]_vars PROVE Inv'
    OBVIOUS
  <1>1. CASE \E y \in syncs : \E f \in Failing(y.cfg) : RoutingSyncConfig(y, f)
    BY <1>1, SyncStep
  <1>2. CASE \E j \in jobs : \E f \in {{}, {j[1]}} : RoutingHandleDNS(j, f)
    BY <1>2, DNSStep
  <1>3. CASE \E i \in Ifaces : IfaceDown(i)
    BY <1>3, DownStep
  <1>4. CASE \E clean \in BOOLEAN : Restart(clean)
    BY <1>4, RestartStep
  <1>5. CASE \E f \in Failing(tick.cfg) : TickResync(f)
    BY <1>5, ResyncStep
  <1>6. CASE (\E i \in Ifaces : IfaceUp(i)) \/ \E i \in Ifaces : handleEvent(i)
    <2>1. \E i \in Ifaces : IfaceUp(i) \/ handleEvent(i)
      BY <1>6
    <2> QED
      BY <2>1, OtherSteps
  <1>7. CASE (\E y \in syncs : \E forget \in BOOLEAN : SyncAbandoned(y, forget)) \/ TickAbandoned
    BY <1>7, AbandonedStep
  <1>8. CASE \/ \E c \in Configs : Save(c)
             \/ \E y \in syncs : \E f \in Failing(y.cfg) : SyncListeners(y, f)
             \/ \E j \in jobs : LookupFails(j)
             \/ TickStart \/ TickQuiet \/ Flush \/ UNCHANGED vars
    BY <1>8, OtherSteps
  <1> QED
    BY <1>1, <1>2, <1>3, <1>4, <1>5, <1>6, <1>7, <1>8, ForceStep, WipeStep, ReinstallStep DEF Next

LEMMA Invariant == Spec => []Inv
  <1> QED
    BY Starts, Preserved, PTL DEF Spec

----------------------------------------------------------------------------
(* The kernel state and the stored configuration *)

\* What a resync under way forgot.
Forgotten == IF tick.step = "resync" THEN tick.dropped ELSE NoCache

Caches == [Sets -> States \cup {None}]

Ticks == [step : {"idle", "check", "resync"}, cfg : Configs \cup {None}, dropped : Caches \cup {None}]

\* The kernel holds what the sets own, up to what residue admits; when the saves have
\* synced and the stored configuration was applied last, the cached sets are its sets;
\* and the listeners are those of the configuration last given to them.
ExactInv ==
    /\ Sound(rt, Forgotten, wiped, residue)
    /\ tick \in Ticks /\ wiped \in BOOLEAN
    /\ syncs = {} /\ lastRoute = store /\ residue = {} /\ tick.step # "resync" => Applied(rt, store)
    /\ lastListen # None => listeners = {s \in Sets : lastListen[s] = Proxy}

LEMMA MoreResidue ==
  ASSUME NEW r, NEW D, NEW w, NEW X, NEW Y, Sound(r, D, w, X), Y = {} => X = {}
  PROVE  Sound(r, D, w, Y)
  BY DEF Sound

\* The monitor looks at one chain at least of those a set owns.
LEMMA BareSeen ==
  ASSUME NEW s \in Sets, NEW st \in States, NEW C, OwnedChains(s, st.mode) \cap C = {}
  PROVE  ~(routeStateChains(s, st) \subseteq C)
  <1>1. st.mode \in {"interface", Proxy, Block}
    BY DEF States
  <1>2. CASE st.mode = "interface"
    <2>1. <<s, "pre">> \in OwnedChains(s, st.mode)
      BY <1>2, Names DEF OwnedChains
    <2>2. routeStateChains(s, st) = OwnedChains(s, st.mode)
      BY <1>2, Names DEF routeStateChains
    <2> QED
      BY <2>1, <2>2
  <1>3. CASE st.mode = Proxy
    <2>1. <<s, "pre">> \in OwnedChains(s, st.mode)
      BY <1>3, Names DEF OwnedChains
    <2>2. routeStateChains(s, st) = {<<s, "pre">>}
      BY <1>3 DEF routeStateChains
    <2> QED
      BY <2>1, <2>2
  <1>4. CASE st.mode = Block
    <2>1. <<s, "filter">> \in OwnedChains(s, st.mode)
      BY <1>4, Names DEF OwnedChains
    <2>2. routeStateChains(s, st) = OwnedChains(s, st.mode)
      BY <1>4, Names DEF routeStateChains
    <2> QED
      BY <2>1, <2>2
  <1> QED
    BY <1>1, <1>2, <1>3, <1>4

LEMMA ExactStarts == Init => ExactInv
  <1> SUFFICES ASSUME Init PROVE ExactInv
    OBVIOUS
  <1>1. rt = Empty /\ tick = Idle /\ wiped = FALSE /\ lastListen = None /\ syncs # {}
    BY DEF Init
  <1>2. /\ rt.cache = NoCache /\ rt.chains = {} /\ rt.rules = {} /\ rt.prules = {}
        /\ rt.routes = [n \in Ids |-> None] /\ rt.local = FALSE
    BY <1>1 DEF Empty
  <1>3. \A s \in Sets : NoCache[s] = None
    BY DEF NoCache
  <1>4. Redirected(rt) /\ Whole(rt, wiped)
    BY <1>2, <1>3 DEF Redirected, Whole, IsProxy
  <1>5. NoStray(rt, Forgotten)
    <2>1. rt.local # TRUE /\ \A n \in Ids : rt.routes[n] = None
      BY <1>2
    <2> QED
      BY <1>2, <2>1 DEF NoStray
  <1>6. tick \in Ticks
    BY <1>1 DEF Idle, Ticks
  <1> QED
    BY <1>1, <1>4, <1>5, <1>6 DEF ExactInv, Sound

LEMMA SyncExact ==
  ASSUME Inv, ExactInv, NEW y \in syncs, NEW f, RoutingSyncConfig(y, f)
  PROVE  ExactInv'
  <1>1. y.cfg \in Configs /\ rt \in RT(Live)
    BY DEF Inv
  <1>2. /\ rt' \in SyncOf(rt, y.cfg, f) /\ lastRoute' = y.cfg
        /\ residue' = IF f = {} THEN residue ELSE residue \cup {"failed"}
        /\ UNCHANGED <<store, tick, wiped, lastListen, listeners>>
    BY DEF RoutingSyncConfig
  <1>3. (residue' = {} => residue = {}) /\ (f # {} => residue' # {})
    BY <1>2
  <1>4. Sound(rt, Forgotten, wiped, residue')
    BY <1>3, MoreResidue DEF ExactInv
  <1>5. Sound(rt', Forgotten, wiped, residue') /\ (f = {} => Applied(rt', y.cfg))
    BY <1>1, <1>2, <1>3, <1>4, LiveUp, SyncSound
  <1>6. Forgotten' = Forgotten
    BY <1>2 DEF Forgotten
  <1>7. Sound(rt', Forgotten', wiped', residue')
    BY <1>2, <1>5, <1>6
  <1>8. residue' = {} /\ lastRoute' = store' => Applied(rt', store')
    BY <1>2, <1>3, <1>5
  <1> QED
    BY <1>2, <1>7, <1>8 DEF ExactInv

LEMMA DNSExact ==
  ASSUME Inv, ExactInv, NEW j \in jobs, NEW f, RoutingHandleDNS(j, f)
  PROVE  ExactInv'
  <1>1. j[1] \in Sets /\ j[2] \in Specs /\ rt \in RT(Live) /\ store \in Configs
    BY DEF Inv, Jobs
  <1>2. /\ rt' = Refresh(rt, j[1], j[2], f) /\ lastRoute' = IF store[j[1]] = j[2] THEN lastRoute ELSE None
        /\ residue' = IF f = {} THEN residue ELSE residue \cup {"failed"}
        /\ UNCHANGED <<store, syncs, tick, wiped, lastListen, listeners>>
    BY DEF RoutingHandleDNS
  <1>8. (residue' = {} => residue = {}) /\ (f # {} => residue' # {})
    BY <1>2
  <1>3. Sound(rt, Forgotten, wiped, residue')
    BY <1>8, MoreResidue DEF ExactInv
  <1>4. /\ Sound(Refresh(rt, j[1], j[2], f), Forgotten, wiped, residue')
        /\ \A t \in Sets \ {j[1]} : Refresh(rt, j[1], j[2], f).cache[t] = rt.cache[t]
        /\ f = {} => Fits(Refresh(rt, j[1], j[2], f).cache[j[1]], j[2])
    BY <1>1, <1>3, <1>8, LiveUp, RefreshSound
  <1>5. Forgotten' = Forgotten
    BY <1>2 DEF Forgotten
  <1>6. Sound(rt', Forgotten', wiped', residue')
    BY <1>2, <1>4, <1>5
  <1>7. ASSUME syncs' = {}, lastRoute' = store', residue' = {}, tick'.step # "resync"
        PROVE  Applied(rt', store')
    <2>1. store[j[1]] = j[2] /\ lastRoute = store /\ f = {} /\ residue = {}
      BY <1>1, <1>2, <1>7, <1>8, ConfigsAssumption
    <2>2. Applied(rt, store)
      BY <1>2, <1>7, <2>1 DEF ExactInv
    <2>3. /\ \A t \in Sets \ {j[1]} : rt'.cache[t] = rt.cache[t]
          /\ Fits(rt'.cache[j[1]], store[j[1]])
      BY <1>2, <1>4, <2>1
    <2>4. store[j[1]] # Off
      BY <1>1, <2>1, Names
    <2>5. Applied(rt', store)
      BY <2>2, <2>3, <2>4 DEF Applied, Fits
    <2> QED
      BY <2>5, <1>2
  <1> QED
    BY <1>2, <1>6, <1>7 DEF ExactInv

LEMMA ForceExact ==
  ASSUME Inv, ExactInv, RoutingForceResync
  PROVE  ExactInv'
  <1>1. rt \in RT(Live) /\ tick \in Ticks /\ tick.step = "check"
    BY DEF Inv, ExactInv, RoutingForceResync
  <1>2. /\ rt' = [rt EXCEPT !.cache = NoCache, !.auto = NoAuto]
        /\ tick' = [tick EXCEPT !.step = "resync", !.dropped = rt.cache]
        /\ UNCHANGED <<store, syncs, wiped, lastListen, listeners, residue>>
    BY DEF RoutingForceResync
  <1>3. /\ rt'.cache = NoCache /\ rt'.chains = rt.chains /\ rt'.rules = rt.rules
        /\ rt'.prules = rt.prules /\ rt'.routes = rt.routes /\ rt'.local = rt.local
    BY <1>1, <1>2, RtFields
  <1>4. rt.cache \in Caches /\ \A s \in Sets : NoCache[s] = None
    BY <1>1, RtFields DEF Caches, NoCache
  <1>5. tick' \in Ticks /\ tick'.step = "resync" /\ tick'.dropped = rt.cache
    BY <1>1, <1>2, <1>4 DEF Ticks
  <1>6. Forgotten = NoCache /\ Forgotten' = rt.cache
    BY <1>1, <1>5 DEF Forgotten
  <1>7. Redirected(rt')
    BY <1>3, <1>4 DEF Redirected, IsProxy, ExactInv, Sound
  <1>8. Whole(rt', wiped')
    BY <1>3, <1>4 DEF Whole
  <1>9. ASSUME NoStray(rt, NoCache) PROVE NoStray(rt', rt.cache)
    <2>1. \A s \in Sets : Known(rt', rt.cache, s) = Known(rt, NoCache, s)
      BY <1>3, <1>4 DEF Known
    <2> QED
      BY <2>1, <1>1, <1>3, <1>9, RtFields DEF NoStray, RouteOf
  <1>10. Sound(rt', Forgotten', wiped', residue')
    BY <1>2, <1>6, <1>7, <1>8, <1>9 DEF Sound, ExactInv
  <1> QED
    BY <1>2, <1>5, <1>10 DEF ExactInv

\* A sync that gives up keeps the kernel as it is, and the sets in it or none.
LEMMA AbandonedSound ==
  ASSUME NEW W, NEW r \in RT(W), NEW D, NEW E, NEW w, NEW X, NEW Y, Sound(r, D, w, X), Y # {},
         NEW forget \in BOOLEAN
  PROVE  Sound(Abandoned(r, forget), E, w, Y)
  <1> DEFINE q == Abandoned(r, forget)
  <1>1. r \in Tables /\ Redirected(r) /\ Whole(r, w)
    BY DEF RT, Sound
  <1>2. \A s \in Sets : NoCache[s] = None
    BY DEF NoCache
  <1>3. /\ q.cache \in {r.cache, NoCache} /\ q.chains = r.chains /\ q.rules = r.rules
        /\ q.prules = r.prules /\ q.routes = r.routes /\ q.local = r.local
    BY <1>1, TableFields DEF Abandoned
  <1> HIDE DEF q
  <1>4. Redirected(q)
    BY <1>1, <1>2, <1>3 DEF Redirected, IsProxy
  <1>5. Whole(q, w)
    BY <1>1, <1>2, <1>3 DEF Whole
  <1>6. Sound(q, E, w, Y)
    BY <1>4, <1>5 DEF Sound
  <1> QED
    BY <1>6 DEF q

LEMMA AbandonedExact ==
  ASSUME Inv, ExactInv, \/ \E y \in syncs : \E forget \in BOOLEAN : SyncAbandoned(y, forget)
                        \/ TickAbandoned
  PROVE  ExactInv'
  <1>0. rt \in RT(Live) /\ Sound(rt, Forgotten, wiped, residue)
    BY DEF Inv, ExactInv
  <1>1. CASE \E y \in syncs : \E forget \in BOOLEAN : SyncAbandoned(y, forget)
    <2>1. PICK y \in syncs, forget \in BOOLEAN : SyncAbandoned(y, forget)
      BY <1>1
    <2>2. /\ rt' = Abandoned(rt, forget) /\ residue' # {}
          /\ UNCHANGED <<tick, wiped, lastListen, listeners>>
      BY <2>1 DEF SyncAbandoned
    <2>3. Sound(Abandoned(rt, forget), Forgotten', wiped, residue')
      BY <1>0, <2>2, AbandonedSound
    <2>4. Sound(rt', Forgotten', wiped', residue')
      BY <2>2, <2>3
    <2> QED
      BY <2>2, <2>4 DEF ExactInv
  <1>2. CASE TickAbandoned
    <2>1. PICK forget \in BOOLEAN : rt' = Abandoned(rt, forget)
      BY <1>2 DEF TickAbandoned
    <2>2. /\ residue' # {} /\ tick' = Idle /\ UNCHANGED <<wiped, lastListen, listeners>>
      BY <1>2 DEF TickAbandoned
    <2>3. Sound(Abandoned(rt, forget), Forgotten', wiped, residue')
      BY <1>0, <2>2, AbandonedSound
    <2>4. Sound(rt', Forgotten', wiped', residue')
      BY <2>1, <2>2, <2>3
    <2>5. tick' \in Ticks
      BY <2>2 DEF Idle, Ticks
    <2> QED
      BY <2>2, <2>4, <2>5 DEF ExactInv
  <1> QED
    BY <1>1, <1>2

\* A flush from outside leaves the chains, and what is in them is not followed.
LEMMA FlushExact ==
  ASSUME Inv, ExactInv, Flush
  PROVE  ExactInv'
  <1>1. wiped' = TRUE /\ UNCHANGED <<rt, store, syncs, tick, lastRoute, lastListen, listeners, residue>>
    BY DEF Flush
  <1>2. Forgotten' = Forgotten
    BY <1>1 DEF Forgotten
  <1>3. Whole(rt', wiped')
    BY <1>1 DEF ExactInv, Sound, Whole
  <1>4. Sound(rt', Forgotten', wiped', residue') /\ (Applied(rt, store) => Applied(rt', store'))
    BY <1>1, <1>2, <1>3 DEF ExactInv, Sound
  <1> QED
    BY <1>1, <1>4 DEF ExactInv

LEMMA ResyncExact ==
  ASSUME Inv, Inv', ExactInv, NEW f, TickResync(f)
  PROVE  ExactInv'
  <1> DEFINE D == tick.dropped
  <1>1. tick.cfg \in Configs /\ rt \in RT(Live) /\ rt' \in RT(Live') /\ Forgotten = D
    BY DEF Inv, TickResync, Forgotten
  <1>2. /\ rt' \in SyncOf(rt, tick.cfg, f) /\ lastRoute' = tick.cfg /\ tick' = Idle
        /\ residue' = residue \cup (IF \E s \in Sets : D[s] \notin {None, rt'.cache[s]}
                                    THEN {"forgotten"} ELSE {})
                             \cup (IF f = {} THEN {} ELSE {"failed"})
        /\ UNCHANGED <<store, syncs, lastListen, listeners>>
    BY DEF TickResync
  <1>4. (residue' = {} => residue = {}) /\ (f # {} => residue' # {})
    BY <1>2
  <1>3. Sound(rt, D, wiped, residue')
    BY <1>1, <1>4, MoreResidue DEF ExactInv
  <1>5. Sound(rt', D, wiped, residue') /\ (f = {} => Applied(rt', tick.cfg))
    BY <1>1, <1>2, <1>3, <1>4, LiveUp, SyncSound
  <1>6. tick' \in Ticks /\ Forgotten' = NoCache
    BY <1>2 DEF Idle, Ticks, Forgotten
  <1>7. wiped' \in BOOLEAN /\ Whole(rt', wiped')
    <2>1. wiped' = \E s \in Sets : /\ rt'.cache[s] # None
                                   /\ ~(routeStateChains(s, rt'.cache[s]) \subseteq rt'.chains)
      BY DEF TickResync
    <2>2. SUFFICES ASSUME NEW s \in Sets, rt'.cache[s] # None
                   PROVE  \/ OwnedChains(s, rt'.cache[s].mode) \subseteq rt'.chains
                          \/ wiped' = TRUE /\ OwnedChains(s, rt'.cache[s].mode) \cap rt'.chains = {}
      BY <2>1 DEF Whole
    <2>3. CASE OwnedChains(s, rt'.cache[s].mode) \cap rt'.chains = {}
      <3>1. rt' \in Tables
        BY <1>1 DEF RT
      <3>2. rt'.cache \in [Sets -> States \cup {None}]
        BY <3>1, TableFields
      <3>3. rt'.cache[s] \in States
        BY <2>2, <3>2
      <3>4. ~(routeStateChains(s, rt'.cache[s]) \subseteq rt'.chains)
        BY <2>3, <3>3, BareSeen
      <3> QED
        BY <2>1, <2>2, <2>3, <3>4
    <2>4. CASE OwnedChains(s, rt'.cache[s].mode) \cap rt'.chains # {}
      BY <2>2, <2>4, <1>5 DEF Sound, Whole
    <2> QED
      BY <2>3, <2>4
  <1>8. ASSUME residue' = {} PROVE NoStray(rt', NoCache)
    <2>1. \A s \in Sets : D[s] \in {None, rt'.cache[s]}
      BY <1>2, <1>8
    <2>2. \A s \in Sets : Known(rt', D, s) \subseteq Known(rt', NoCache, s)
      BY <2>1 DEF Known
    <2>3. NoStray(rt', D)
      BY <1>5, <1>8 DEF Sound
    <2> QED
      BY <2>2, <2>3 DEF NoStray
  <1>9. Sound(rt', NoCache, wiped', residue')
    BY <1>5, <1>7, <1>8 DEF Sound
  <1> QED
    BY <1>2, <1>4, <1>5, <1>6, <1>7, <1>9 DEF ExactInv

LEMMA DownExact ==
  ASSUME Inv, ExactInv, NEW i \in Ifaces, IfaceDown(i)
  PROVE  ExactInv'
  <1> DEFINE f == [n \in Ids |-> IF rt.routes[n] = i THEN None ELSE rt.routes[n]]
  <1>1. rt \in RT(Live)
    BY DEF Inv
  <1>2. rt' = [rt EXCEPT !.routes = f] /\ UNCHANGED <<store, syncs, tick, wiped, lastRoute, lastListen, listeners, residue>>
    BY DEF IfaceDown
  <1>3. \A n \in Ids : f[n] \in {rt.routes[n], None}
    OBVIOUS
  <1> HIDE DEF f
  <1>4. /\ rt'.cache = rt.cache /\ rt'.chains = rt.chains /\ rt'.rules = rt.rules
        /\ rt'.prules = rt.prules /\ rt'.routes = f /\ rt'.local = rt.local
    BY <1>1, <1>2, RtFields
  <1>5. Redirected(rt') /\ Whole(rt', wiped)
    BY <1>3, <1>4 DEF ExactInv, Sound, Redirected, Whole
  <1>6. ASSUME NoStray(rt, Forgotten) PROVE NoStray(rt', Forgotten)
    <2>1. \A s \in Sets : Known(rt', Forgotten, s) = Known(rt, Forgotten, s)
      BY <1>4 DEF Known
    <2>2. \A n \in Ids : rt'.routes[n] # None => rt'.routes[n] = rt.routes[n]
      BY <1>3, <1>4
    <2> QED
      BY <2>1, <2>2, <1>4, <1>6 DEF NoStray, RouteOf
  <1>7. Forgotten' = Forgotten
    BY <1>2 DEF Forgotten
  <1>8. Sound(rt', Forgotten', wiped', residue')
    BY <1>2, <1>5, <1>6, <1>7 DEF Sound, ExactInv
  <1>9. Applied(rt, store) => Applied(rt', store')
    BY <1>2, <1>4 DEF Applied
  <1> QED
    BY <1>2, <1>8, <1>9 DEF ExactInv

LEMMA WipeExact ==
  ASSUME Inv, ExactInv, Wipe
  PROVE  ExactInv'
  <1>1. rt \in RT(Live)
    BY DEF Inv
  <1>2. /\ rt' = [rt EXCEPT !.chains = {}] /\ wiped' = TRUE
        /\ UNCHANGED <<store, syncs, tick, lastRoute, lastListen, listeners, residue>>
    BY DEF Wipe
  <1>4. /\ rt'.cache = rt.cache /\ rt'.chains = {} /\ rt'.rules = rt.rules
        /\ rt'.prules = rt.prules /\ rt'.routes = rt.routes /\ rt'.local = rt.local
    BY <1>1, <1>2, RtFields
  <1>5. Redirected(rt') /\ Whole(rt', wiped')
    BY <1>2, <1>4 DEF ExactInv, Sound, Redirected, Whole
  <1>6. ASSUME NoStray(rt, Forgotten) PROVE NoStray(rt', Forgotten)
    <2>1. \A s \in Sets : Known(rt', Forgotten, s) = Known(rt, Forgotten, s)
      BY <1>4 DEF Known
    <2> QED
      BY <2>1, <1>1, <1>4, <1>6, RtFields DEF NoStray, RouteOf
  <1>7. Forgotten' = Forgotten
    BY <1>2 DEF Forgotten
  <1>8. Sound(rt', Forgotten', wiped', residue')
    BY <1>2, <1>5, <1>6, <1>7 DEF Sound, ExactInv
  <1>9. Applied(rt, store) => Applied(rt', store')
    BY <1>2, <1>4 DEF Applied
  <1> QED
    BY <1>2, <1>8, <1>9 DEF ExactInv

LEMMA ReinstallExact ==
  ASSUME Inv, ExactInv, scheduleReinstall
  PROVE  ExactInv'
  <1> DEFINE on(n) == {s \in Sets : /\ IsIface(rt.cache[s]) /\ rt.cache[s].id = n
                                    /\ rt.cache[s].iface \in pend \cap up}
             again == {n \in Ids : on(n) # {}}
             d == rt.rules \cup again
  <1>1. rt \in RT(Live)
    BY DEF Inv
  <1>0. PICK f \in [Ids -> Ifaces \cup {None}] :
            /\ rt' = [rt EXCEPT !.rules = d, !.routes = f]
            /\ \A n \in Ids : f[n] \in IF n \in again THEN {rt.cache[s].iface : s \in on(n)} ELSE {rt.routes[n]}
    BY DEF scheduleReinstall, RoutingReinstallForInterface
  <1>2. /\ rt' = [rt EXCEPT !.rules = d, !.routes = f]
        /\ UNCHANGED <<store, syncs, tick, wiped, lastRoute, lastListen, listeners, residue>>
    BY <1>0 DEF scheduleReinstall
  <1>3. ASSUME NEW n \in again
        PROVE  \E s \in Sets : IsIface(rt.cache[s]) /\ rt.cache[s].id = n /\ rt.cache[s].iface = f[n]
    <2>1. PICK s \in on(n) : f[n] = rt.cache[s].iface
      BY <1>0
    <2> QED
      BY <2>1
  <1>4. \A n \in Ids \ again : f[n] = rt.routes[n]
    BY <1>0
  <1> HIDE DEF d
  <1>5. /\ rt'.cache = rt.cache /\ rt'.chains = rt.chains /\ rt'.rules = d
        /\ rt'.prules = rt.prules /\ rt'.routes = f /\ rt'.local = rt.local
    BY <1>1, <1>2, RtFields
  <1> HIDE DEF again
  <1>6. Redirected(rt') /\ Whole(rt', wiped)
    <2>1. ASSUME NEW n \in Ids, f[n] # None PROVE n \in d
      BY <2>1, <1>4 DEF d, ExactInv, Sound, Redirected
    <2> QED
      BY <2>1, <1>5 DEF ExactInv, Sound, Redirected, Whole
  <1>7. ASSUME NoStray(rt, Forgotten) PROVE NoStray(rt', Forgotten)
    <2>1. \A s \in Sets : Known(rt', Forgotten, s) = Known(rt, Forgotten, s)
      BY <1>5 DEF Known
    <2>2. \A s \in Sets : IsIface(rt.cache[s]) =>
              rt.cache[s] \in Known(rt, Forgotten, s) /\ rt.cache[s].mode = "interface"
      BY DEF Known, IsIface
    <2>3. ASSUME NEW n \in d
          PROVE  \E s \in Sets : \E st \in Known(rt, Forgotten, s) : st.mode = "interface" /\ st.id = n
      <3>1. CASE n \in again
        BY <3>1, <1>3, <2>2
      <3>2. CASE n \in rt.rules
        BY <3>2, <1>7 DEF NoStray
      <3> QED
        BY <3>1, <3>2 DEF d
    <2>4. ASSUME NEW n \in Ids, f[n] # None
          PROVE  \E s \in Sets : \E st \in Known(rt, Forgotten, s) : RouteOf(rt', n, st)
      <3>1. CASE n \in again
        BY <3>1, <1>3, <1>5, <2>2 DEF RouteOf
      <3>2. CASE n \notin again
        BY <3>2, <2>4, <1>4, <1>5, <1>7 DEF NoStray, RouteOf
      <3> QED
        BY <3>1, <3>2
    <2>5. \A c \in rt'.chains : \E s \in Sets : \E st \in Known(rt', Forgotten, s) : c \in OwnedChains(s, st.mode)
      BY <2>1, <1>5, <1>7 DEF NoStray
    <2>6. \A p \in rt'.prules : \E s \in Sets : \E st \in Known(rt', Forgotten, s) :
              st.mode = Proxy /\ ProxyMark[s] = p
      BY <2>1, <1>5, <1>7 DEF NoStray
    <2>7. rt'.local = TRUE => \E s \in Sets : \E st \in Known(rt', Forgotten, s) : st.mode = Proxy
      BY <2>1, <1>5, <1>7 DEF NoStray
    <2> QED
      BY <2>1, <2>3, <2>4, <2>5, <2>6, <2>7, <1>5 DEF NoStray
  <1>8. Forgotten' = Forgotten
    BY <1>2 DEF Forgotten
  <1>9. Sound(rt', Forgotten', wiped', residue')
    BY <1>2, <1>6, <1>7, <1>8 DEF Sound, ExactInv
  <1>10. Applied(rt, store) => Applied(rt', store')
    BY <1>2, <1>5 DEF Applied
  <1> QED
    BY <1>2, <1>9, <1>10 DEF ExactInv

\* A restart forgets every set; what is left then is of no set, unless nothing is left.
LEMMA RestartExact ==
  ASSUME Inv, ExactInv, NEW clean \in BOOLEAN, Restart(clean)
  PROVE  ExactInv'
  <1> DEFINE cl == IF clean THEN CleanupLoop(rt) ELSE rt
             one == RoutingClearAll(rt, clean)
  <1>1. rt \in Sounds(Live, Forgotten, wiped, residue)
    BY DEF Inv, ExactInv, Sounds
  <1>2. cl \in Sounds(Live, Forgotten, wiped, residue)
    BY <1>1, CleanupLoopSound
  <1>3. one = [cl EXCEPT !.chains = {}, !.cache = NoCache, !.auto = NoAuto]
    BY DEF RoutingClearAll, ForEachSet, CleanupLoop, Cleanup
  <1>4. rt' = [one EXCEPT !.chains = {}, !.cache = NoCache, !.auto = NoAuto]
    BY DEF Restart, RoutingClearAll
  <1> HIDE DEF cl, one
  <1>5. cl \in Tables /\ Redirected(cl)
    BY <1>2 DEF Sounds, RT, Sound
  <1>6. cl = [cache |-> cl.cache, auto |-> cl.auto, chains |-> cl.chains, rules |-> cl.rules,
              prules |-> cl.prules, routes |-> cl.routes, local |-> cl.local]
    BY <1>5, TableFields
  <1>7. one = [cache |-> NoCache, auto |-> NoAuto, chains |-> {}, rules |-> cl.rules,
               prules |-> cl.prules, routes |-> cl.routes, local |-> cl.local]
    BY <1>3, <1>6
  <1>8. rt' = [cache |-> NoCache, auto |-> NoAuto, chains |-> {}, rules |-> cl.rules,
               prules |-> cl.prules, routes |-> cl.routes, local |-> cl.local]
    BY <1>4, <1>7
  <1>9. /\ rt'.cache = NoCache /\ rt'.chains = {} /\ rt'.rules = cl.rules /\ rt'.prules = cl.prules
        /\ rt'.routes = cl.routes /\ rt'.local = cl.local
    BY <1>8
  <1>10. \A s \in Sets : NoCache[s] = None
    BY DEF NoCache
  <1>11. /\ tick' = Idle /\ wiped' = FALSE /\ lastListen' = None
         /\ residue' = IF rt'.rules = {} /\ rt'.prules = {} /\ ~rt'.local THEN {} ELSE {"forgotten"}
         /\ syncs' = {[n |-> 0, cfg |-> store, step |-> "listen"]}
    BY DEF Restart
  <1>12. Redirected(rt') /\ Whole(rt', wiped')
    BY <1>5, <1>9, <1>10 DEF Redirected, Whole, IsProxy
  <1>13. ASSUME residue' = {} PROVE NoStray(rt', Forgotten')
    <2>1. rt'.rules = {} /\ rt'.prules = {} /\ ~rt'.local
      BY <1>11, <1>13
    <2>2. \A n \in Ids : rt'.routes[n] = None
      BY <2>1, <1>12 DEF Redirected
    <2>3. rt'.local # TRUE
      BY <2>1
    <2> QED
      BY <2>1, <2>2, <2>3, <1>9 DEF NoStray
  <1>14. tick' \in Ticks
    BY <1>11 DEF Idle, Ticks
  <1>15. Sound(rt', Forgotten', wiped', residue')
    BY <1>12, <1>13 DEF Sound
  <1> QED
    BY <1>11, <1>14, <1>15 DEF ExactInv

\* The other actions leave the routing state, the forgotten one and the residue alone.
LEMMA OthersExact ==
  ASSUME Inv, ExactInv,
         \/ \E c \in Configs : Save(c)
         \/ \E y \in syncs : \E f \in Failing(y.cfg) : SyncListeners(y, f)
         \/ \E j \in jobs : LookupFails(j)
         \/ TickStart \/ TickQuiet
         \/ \E i \in Ifaces : IfaceUp(i) \/ handleEvent(i)
         \/ UNCHANGED vars
  PROVE  ExactInv'
  <1>1. CASE \E c \in Configs : Save(c)
    <2>1. PICK c \in Configs : Save(c)
      BY <1>1
    <2>2. syncs' # {} /\ UNCHANGED <<rt, tick, wiped, residue, lastListen, listeners>>
      BY <2>1 DEF Save
    <2>3. Forgotten' = Forgotten
      BY <2>2 DEF Forgotten
    <2>4. Sound(rt', Forgotten', wiped', residue')
      BY <2>2, <2>3 DEF ExactInv
    <2> QED
      BY <2>2, <2>4 DEF ExactInv
  <1>2. CASE \E y \in syncs : \E f \in Failing(y.cfg) : SyncListeners(y, f)
    <2>0. PICK y \in syncs : \E f \in Failing(y.cfg) : SyncListeners(y, f)
      BY <1>2
    <2>1. PICK f \in Failing(y.cfg) : SyncListeners(y, f)
      BY <2>0
    <2>2. /\ syncs' # {} /\ UNCHANGED <<rt, tick, wiped, residue>>
          /\ lastListen' = IF f = {} THEN y.cfg ELSE None
          /\ listeners' = LET want == {s \in Sets : y.cfg[s] = Proxy}
                          IN  (listeners \cap want) \cup (want \ f)
      BY <2>1 DEF SyncListeners
    <2>3. Forgotten' = Forgotten
      BY <2>2 DEF Forgotten
    <2>4. Sound(rt', Forgotten', wiped', residue')
      BY <2>2, <2>3 DEF ExactInv
    <2>5. lastListen' # None => listeners' = {s \in Sets : lastListen'[s] = Proxy}
      BY <2>2
    <2> QED
      BY <2>2, <2>4, <2>5 DEF ExactInv
  <1>3. CASE UNCHANGED <<rt, tick, wiped, residue, lastListen, listeners, syncs, lastRoute, store>>
    <2>1. Forgotten' = Forgotten
      BY <1>3 DEF Forgotten
    <2>2. Sound(rt', Forgotten', wiped', residue') /\ (Applied(rt, store) => Applied(rt', store'))
      BY <1>3, <2>1 DEF ExactInv
    <2> QED
      BY <1>3, <2>2 DEF ExactInv
  <1>4. CASE TickStart
    <2>1. /\ tick = Idle /\ tick' = [Idle EXCEPT !.step = "check", !.cfg = store] /\ store \in Configs
          /\ UNCHANGED <<rt, wiped, residue, lastListen, listeners, syncs, lastRoute, store>>
      BY <1>4 DEF TickStart, Inv
    <2>2. tick.step = "idle" /\ tick'.step = "check" /\ tick' \in Ticks
      BY <2>1 DEF Idle, Ticks
    <2>3. Forgotten' = Forgotten
      BY <2>2 DEF Forgotten
    <2>4. Sound(rt', Forgotten', wiped', residue') /\ (Applied(rt, store) => Applied(rt', store'))
      BY <2>1, <2>3 DEF ExactInv
    <2> QED
      BY <2>1, <2>2, <2>4 DEF ExactInv
  <1>5. CASE TickQuiet
    <2>1. /\ tick.step = "check" /\ tick' = Idle /\ wiped' = FALSE /\ RoutingRulesPresent
          /\ UNCHANGED <<rt, residue, lastListen, listeners, syncs, lastRoute, store>>
      BY <1>5 DEF TickQuiet
    <2>2. tick'.step = "idle" /\ tick' \in Ticks
      BY <2>1 DEF Idle, Ticks
    <2>3. Forgotten' = Forgotten
      BY <2>1, <2>2 DEF Forgotten
    <2>4. Whole(rt, FALSE)
      <3>1. SUFFICES ASSUME NEW s \in Sets, rt.cache[s] # None
                     PROVE  OwnedChains(s, rt.cache[s].mode) \subseteq rt.chains
        BY DEF Whole
      <3>2. rt.cache[s] \in States
        BY <3>1, RtFields DEF Inv
      <3>3. routeStateChains(s, rt.cache[s]) \subseteq rt.chains
        BY <3>1, <2>1 DEF RoutingRulesPresent
      <3>4. OwnedChains(s, rt.cache[s].mode) \cap rt.chains # {}
        BY <3>2, <3>3, BareSeen
      <3> QED
        BY <3>1, <3>4 DEF ExactInv, Sound, Whole
    <2>5. Sound(rt', Forgotten', wiped', residue') /\ (Applied(rt, store) => Applied(rt', store'))
      BY <2>1, <2>3, <2>4 DEF ExactInv, Sound
    <2> QED
      BY <2>1, <2>2, <2>5 DEF ExactInv
  <1>7. CASE \E j \in jobs : LookupFails(j)
    BY <1>7, <1>3 DEF LookupFails
  <1>8. CASE \E i \in Ifaces : IfaceUp(i) \/ handleEvent(i)
    BY <1>8, <1>3 DEF IfaceUp, handleEvent
  <1>9. CASE UNCHANGED vars
    BY <1>9, <1>3 DEF vars
  <1> QED
    BY <1>1, <1>2, <1>4, <1>5, <1>7, <1>8, <1>9

LEMMA ExactPreserved == Inv /\ Inv' /\ ExactInv /\ [Next]_vars => ExactInv'
  <1> SUFFICES ASSUME Inv, Inv', ExactInv, [Next]_vars PROVE ExactInv'
    OBVIOUS
  <1>1. CASE \E y \in syncs : \E f \in Failing(y.cfg) : RoutingSyncConfig(y, f)
    BY <1>1, SyncExact
  <1>2. CASE \E j \in jobs : \E f \in {{}, {j[1]}} : RoutingHandleDNS(j, f)
    BY <1>2, DNSExact
  <1>3. CASE \E i \in Ifaces : IfaceDown(i)
    BY <1>3, DownExact
  <1>4. CASE \E clean \in BOOLEAN : Restart(clean)
    BY <1>4, RestartExact
  <1>5. CASE \E f \in Failing(tick.cfg) : TickResync(f)
    BY <1>5, ResyncExact
  <1>6. CASE (\E i \in Ifaces : IfaceUp(i)) \/ \E i \in Ifaces : handleEvent(i)
    <2>1. \E i \in Ifaces : IfaceUp(i) \/ handleEvent(i)
      BY <1>6
    <2> QED
      BY <2>1, OthersExact
  <1>7. CASE (\E y \in syncs : \E forget \in BOOLEAN : SyncAbandoned(y, forget)) \/ TickAbandoned
    BY <1>7, AbandonedExact
  <1>8. CASE \/ \E c \in Configs : Save(c)
             \/ \E y \in syncs : \E f \in Failing(y.cfg) : SyncListeners(y, f)
             \/ \E j \in jobs : LookupFails(j)
             \/ TickStart \/ TickQuiet \/ UNCHANGED vars
    BY <1>8, OthersExact
  <1> QED
    BY <1>1, <1>2, <1>3, <1>4, <1>5, <1>6, <1>7, <1>8, ForceExact, WipeExact, FlushExact,
       ReinstallExact DEF Next

LEMMA ExactInvariant == Spec => [](Inv /\ ExactInv)
  <1> QED
    BY Starts, ExactStarts, Preserved, ExactPreserved, PTL DEF Spec

----------------------------------------------------------------------------
(* The results *)

\* Whatever saves, lookups, resyncs, link events and restarts interleave, sets that leave
\* through different interfaces hold different marks and tables, or one that some set pins
\* (routeResolveIDs).
THEOREM TablesAlwaysDistinct == Spec => []DistinctTables
  <1>1. Inv => DistinctTables
    <2>1. SUFFICES ASSUME Inv, NEW s \in Sets, NEW t \in Sets, IsIface(rt.cache[s]), IsIface(rt.cache[t]),
                          rt.cache[s].iface # rt.cache[t].iface
                   PROVE  rt.cache[s].id # rt.cache[t].id \/ rt.cache[s].id \in Pinned
      BY DEF DistinctTables
    <2>2. OneIface(rt)
      BY <2>1 DEF Inv, RT
    <2> QED
      BY <2>1, <2>2 DEF OneIface
  <1> QED
    BY <1>1, Invariant, PTL

\* Cleaning up a set, a failed command, a forgotten cache or a restart never leaves a
\* cached set without its ip rule (interfaceShareCount), nor without its default route
\* once the interface is present and the watcher has handled its event, unless its table
\* is pinned.
THEOREM SharedPolicyAlwaysKept == Spec => []SharedPolicyKept
  <1>1. Inv => SharedPolicyKept
    BY DEF Inv, RT, OwnId, Routed, Live, SharedPolicyKept
  <1> QED
    BY <1>1, Invariant, PTL

\* Whatever saves, lookups, resyncs, link events, wipes and restarts interleave: when every
\* save has synced and the stored configuration is the one applied last, the chains, ip
\* rules, tables, local route and listeners are those of its sets and no others, unless a
\* failed command or a forgetting resync left state behind (RoutingSyncConfig); the route of
\* a pinned table and the ip rule of a shared mark are excepted.
THEOREM ExactlyAfterSync == Spec => []ExactAfterSync
  <1>1. Inv /\ ExactInv => ExactAfterSync
    <2>1. SUFFICES ASSUME Inv, ExactInv, Quiet, residue = {}, ~wiped, lastRoute = store
                   PROVE  /\ rt.chains = UNION {OwnedChains(s, modeOf(store[s])) : s \in {t \in Sets : Desired(t)}}
                          /\ rt.rules = {rt.cache[s].id : s \in {t \in Sets : store[t] \in Ifaces}}
                          /\ rt.prules \subseteq {ProxyMark[s] : s \in {t \in Sets : store[t] = Proxy}}
                          /\ \A s \in Sets : store[s] = Proxy /\ OwnMark(s) => ProxyMark[s] \in rt.prules
                          /\ rt.local = (\E s \in Sets : store[s] = Proxy)
                          /\ \A n \in Ids : rt.routes[n] # None =>
                                 \E s \in Sets : /\ store[s] \in Ifaces /\ rt.cache[s].id = n
                                                 /\ n \notin Pinned => store[s] = rt.routes[n]
                          /\ lastListen = store => listeners = {s \in Sets : store[s] = Proxy}
      BY DEF ExactAfterSync
    <2>2. syncs = {} /\ tick.step # "resync" /\ Forgotten = NoCache
      BY <2>1 DEF Quiet, Forgotten
    <2>3. Applied(rt, store) /\ Sound(rt, NoCache, wiped, residue)
      BY <2>1, <2>2 DEF ExactInv
    <2>4. Redirected(rt) /\ Whole(rt, FALSE) /\ NoStray(rt, NoCache)
      <3>1. wiped = FALSE
        BY <2>1 DEF ExactInv
      <3> QED
        BY <3>1, <2>1, <2>3 DEF Sound
    <2>5. rt \in RT(Live) /\ store \in Configs /\ store \in [Sets -> Ifaces \cup {Off, Proxy, Block}]
      BY <2>1, ConfigsAssumption DEF Inv
    <2>6. /\ rt.cache \in [Sets -> States \cup {None}] /\ rt.chains \in SUBSET (Sets \X Kinds)
          /\ rt.rules \in SUBSET Ids /\ rt.prules \in SUBSET Marks
          /\ rt.routes \in [Ids -> Ifaces \cup {None}] /\ rt.local \in BOOLEAN
      BY <2>5, RtFields
    <2>7. \A s \in Sets : NoCache[s] = None
      BY DEF NoCache
    <2>8. ASSUME NEW s \in Sets, NEW st \in Known(rt, NoCache, s)
          PROVE  st = rt.cache[s] /\ store[s] # Off /\ st.mode = modeOf(store[s]) /\ st.iface = store[s]
      <3>1. st = rt.cache[s] /\ st # None
        BY <2>7, <2>8 DEF Known
      <3> QED
        BY <3>1, <2>3 DEF Applied
    <2>9. ASSUME NEW s \in Sets, store[s] # Off
          PROVE  rt.cache[s] # None /\ rt.cache[s].mode = modeOf(store[s]) /\ rt.cache[s].iface = store[s]
      BY <2>3, <2>9 DEF Applied
    <2>10. \A s \in Sets : /\ modeOf(store[s]) = "interface" <=> store[s] \in Ifaces
                           /\ modeOf(store[s]) = Proxy <=> store[s] = Proxy
      <3>1. SUFFICES ASSUME NEW s \in Sets
                     PROVE  /\ modeOf(store[s]) = "interface" <=> store[s] \in Ifaces
                            /\ modeOf(store[s]) = Proxy <=> store[s] = Proxy
        OBVIOUS
      <3>2. Off # "interface" /\ Off # Proxy
        BY DEF Off, Proxy
      <3>3. store[s] \in Ifaces \cup {Off, Proxy, Block}
        BY <2>5
      <3> QED
        BY <3>2, <3>3, Names DEF modeOf
    <2>11. rt.chains = UNION {OwnedChains(s, modeOf(store[s])) : s \in {t \in Sets : Desired(t)}}
      <3>1. ASSUME NEW c \in rt.chains
            PROVE  \E s \in Sets : Desired(s) /\ c \in OwnedChains(s, modeOf(store[s]))
        <4>1. PICK s \in Sets : \E st \in Known(rt, NoCache, s) : c \in OwnedChains(s, st.mode)
          BY <2>4 DEF NoStray
        <4>2. PICK st \in Known(rt, NoCache, s) : c \in OwnedChains(s, st.mode)
          BY <4>1
        <4> QED
          BY <4>2, <2>8 DEF Desired
      <3>2. ASSUME NEW s \in Sets, Desired(s) PROVE OwnedChains(s, modeOf(store[s])) \subseteq rt.chains
        <4>1. rt.cache[s] # None /\ rt.cache[s].mode = modeOf(store[s])
          BY <3>2, <2>9 DEF Desired
        <4>2. OwnedChains(s, rt.cache[s].mode) \subseteq rt.chains
          BY <4>1, <2>4 DEF Whole
        <4> QED
          BY <4>1, <4>2
      <3> QED
        BY <3>1, <3>2
    <2>12. rt.rules = {rt.cache[s].id : s \in {t \in Sets : store[t] \in Ifaces}}
      <3>1. ASSUME NEW n \in rt.rules PROVE \E s \in Sets : store[s] \in Ifaces /\ rt.cache[s].id = n
        <4>1. PICK s \in Sets : \E st \in Known(rt, NoCache, s) : st.mode = "interface" /\ st.id = n
          BY <2>4 DEF NoStray
        <4> QED
          BY <4>1, <2>8, <2>10
      <3>2. ASSUME NEW s \in Sets, store[s] \in Ifaces PROVE rt.cache[s].id \in rt.rules
        <4>1. store[s] # Off
          BY <3>2, ConfigsAssumption
        <4>2. IsIface(rt.cache[s])
          BY <4>1, <3>2, <2>9, <2>10 DEF IsIface
        <4> QED
          BY <4>2, <2>5 DEF RT, OwnId
      <3> QED
        BY <3>1, <3>2
    <2>13. /\ rt.prules \subseteq {ProxyMark[s] : s \in {t \in Sets : store[t] = Proxy}}
           /\ \A s \in Sets : store[s] = Proxy /\ OwnMark(s) => ProxyMark[s] \in rt.prules
      <3>1. ASSUME NEW p \in rt.prules PROVE \E s \in Sets : store[s] = Proxy /\ ProxyMark[s] = p
        <4>1. PICK s \in Sets : \E st \in Known(rt, NoCache, s) : st.mode = Proxy /\ ProxyMark[s] = p
          BY <2>4 DEF NoStray
        <4> QED
          BY <4>1, <2>8, <2>10
      <3>2. ASSUME NEW s \in Sets, store[s] = Proxy, OwnMark(s) PROVE ProxyMark[s] \in rt.prules
        <4>1. store[s] # Off
          BY <3>2 DEF Off, Proxy
        <4>2. IsProxy(rt.cache[s])
          BY <4>1, <3>2, <2>9, <2>10 DEF IsProxy
        <4> QED
          BY <4>2, <3>2, <2>4 DEF Redirected
      <3> QED
        BY <3>1, <3>2
    <2>14. rt.local = (\E s \in Sets : store[s] = Proxy)
      <3>1. ASSUME NEW s \in Sets, store[s] = Proxy PROVE rt.local = TRUE
        <4>1. store[s] # Off
          BY <3>1 DEF Off, Proxy
        <4>2. IsProxy(rt.cache[s])
          BY <4>1, <3>1, <2>9, <2>10 DEF IsProxy
        <4> QED
          BY <4>2, <2>4 DEF Redirected
      <3>2. ASSUME rt.local = TRUE PROVE \E s \in Sets : store[s] = Proxy
        <4>1. PICK s \in Sets : \E st \in Known(rt, NoCache, s) : st.mode = Proxy
          BY <3>2, <2>4 DEF NoStray
        <4> QED
          BY <4>1, <2>8, <2>10
      <3> QED
        BY <3>1, <3>2, <2>6
    <2>15. ASSUME NEW n \in Ids, rt.routes[n] # None
           PROVE  \E s \in Sets : /\ store[s] \in Ifaces /\ rt.cache[s].id = n
                                  /\ n \notin Pinned => store[s] = rt.routes[n]
      <3>1. PICK s \in Sets : \E st \in Known(rt, NoCache, s) : RouteOf(rt, n, st)
        BY <2>4, <2>15 DEF NoStray
      <3> QED
        BY <3>1, <2>8, <2>10 DEF RouteOf
    <2>16. lastListen = store => listeners = {s \in Sets : store[s] = Proxy}
      BY <2>1, <2>5, ConfigsAssumption DEF ExactInv
    <2> QED
      BY <2>11, <2>12, <2>13, <2>14, <2>15, <2>16
  <1> QED
    BY <1>1, ExactInvariant, PTL

=============================================================================
