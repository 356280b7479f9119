--------------------------- MODULE RadixTree_proofs ---------------------------
(* Facts about the tree operators of RadixTree.                            *)
EXTENDS RadixTree, FiniteSetTheorems, SequenceTheorems, TLAPS

(* Cutting a length to a page boundary (page_aligned) stays in range.      *)
LEMMA FloorFacts ==
    ASSUME NEW n \in Nat
    PROVE  Floor(n) \in 0 .. n /\ Floor(n) % PageSize = 0
PROOF
<1> DEFINE k == n \div PageSize
<1>1. PageSize \in Nat /\ PageSize > 0
  BY PageSizeAssumption
<1>2. k \in Nat /\ PageSize * k <= n
  BY <1>1
<1>3. (PageSize * k) % PageSize = 0
  BY <1>1, <1>2
<1>4. PageSize * k \in Nat
  BY <1>1, <1>2
<1> QED
  BY <1>1, <1>2, <1>3, <1>4 DEF Floor

(* The prefix order is transitive...                                       *)
LEMMA PrefixTrans ==
    ASSUME NEW S, NEW s \in Seq(S), NEW t \in Seq(S), NEW u \in Seq(S),
           s \preceq t, t \preceq u
    PROVE  s \preceq u
BY DEF \preceq

(* The prefix order is reflexive... *)
LEMMA PrefixRefl ==
    ASSUME NEW S, NEW s \in Seq(S)
    PROVE  s \preceq s
BY DEF \preceq

(* ...and antisymmetric: two keys that match each other are one key. *)
LEMMA PrefixAntisym ==
    ASSUME NEW S, NEW s \in Seq(S), NEW t \in Seq(S), s \preceq t, t \preceq s
    PROVE  s = t
BY SeqEqual DEF \preceq

(* Prefixes of one key lie on one path of the tree. *)
LEMMA PrefixComparable ==
    ASSUME NEW S, NEW s \in Seq(S), NEW t \in Seq(S), NEW u \in Seq(S),
           s \preceq u, t \preceq u
    PROVE  s \preceq t \/ t \preceq s
BY DEF \preceq

(* The root is the least node: every walk up ends there. *)
LEMMA RootFirst ==
    ASSUME NEW S, NEW s \in Seq(S)
    PROVE  Root \in Seq(S) /\ Root \preceq s /\ (s \preceq Root => s = Root)
BY DEF \preceq, Root

(* A cut key (page_aligned, a chunk) is a prefix of the given length. *)
LEMMA TakeFacts ==
    ASSUME NEW S, NEW s \in Seq(S), NEW n \in 0 .. Len(s)
    PROVE  Take(s, n) \in Seq(S) /\ Len(Take(s, n)) = n /\ Take(s, n) \preceq s
BY DEF \preceq, Take

(* A prefix is determined by its length. *)
LEMMA TakePrefix ==
    ASSUME NEW S, NEW s \in Seq(S), NEW t \in Seq(S), s \preceq t
    PROVE  s = Take(t, Len(s))
<1>1. Len(s) \in 0 .. Len(t)
  BY DEF \preceq
<1> QED
  BY <1>1, SeqEqual, TakeFacts DEF \preceq, Take

(* A non-empty aligned prefix of a key is one of its pages, and conversely. *)
LEMMA PagesOfFacts ==
    ASSUME NEW S, NEW key \in Seq(S), NEW y \in Seq(S)
    PROVE  y \in PagesOf(key) <=> y # Root /\ y \preceq key /\ Len(y) % PageSize = 0
<1>1. ASSUME y \in PagesOf(key)
      PROVE  y # Root /\ y \preceq key /\ Len(y) % PageSize = 0
  <2>1. PICK n \in 1 .. Len(key) : n % PageSize = 0 /\ y = Take(key, n)
    BY <1>1 DEF PagesOf
  <2> QED
    BY <2>1, TakeFacts DEF Root
<1>2. ASSUME y # Root, y \preceq key, Len(y) % PageSize = 0
      PROVE  y \in PagesOf(key)
  <2>1. Len(y) \in 1 .. Len(key)
    BY <1>2, EmptySeq DEF \preceq, Root
  <2> QED
    BY <1>2, <2>1, TakePrefix DEF PagesOf
<1> QED
  BY <1>1, <1>2

(* The page-aligned prefixes of a key are keys. *)
LEMMA PagesOfType ==
    ASSUME NEW S, NEW key \in Seq(S)
    PROVE  PagesOf(key) \subseteq Seq(S)
BY TakeFacts DEF PagesOf

-----------------------------------------------------------------------------
(* Updating leaf status touches nothing else, and offers unlocked nodes.   *)
LEMMA UpdateLeafStatusFacts ==
    ASSUME NEW T, NEW V, IsTree(T), T.lock_ref \in [T.nodes -> Nat],
           V \subseteq T.nodes,
           \A p \in T.evictable_leaves \ V : p \in T.nodes /\ T.lock_ref[p] = 0
    PROVE  LET U == UpdateLeafStatus(T, V) IN
           /\ IsTree(U)
           /\ U.nodes = T.nodes /\ U.lock_ref = T.lock_ref /\ U.value = T.value
           /\ \A p \in U.evictable_leaves : p \in U.nodes /\ U.lock_ref[p] = 0
<1> DEFINE U == UpdateLeafStatus(T, V)
<1>1. /\ IsTree(U) /\ U.nodes = T.nodes /\ U.lock_ref = T.lock_ref
      /\ U.value = T.value
      /\ U.evictable_leaves = (T.evictable_leaves \ V)
            \cup {p \in V : T.lock_ref[p] <= 0 /\ IsLeaf(T, p)}
  BY DEF UpdateLeafStatus, IsTree
<1>2. \A p \in V : T.lock_ref[p] <= 0 => T.lock_ref[p] = 0
  OBVIOUS
<1> QED
  BY <1>1, <1>2

(* A split keeps the tree a tree and the locks those of the same holders:  *)
(* whoever is below the new node is below the node it splits.              *)
LEMMA SplitFacts ==
    ASSUME NEW T, NEW L, NEW x \in Cached(T) \cup {Root},
           Shape(T), LockedBy(T, L)
    PROVE  LET U == Split(T, x) IN
           /\ Shape(U) /\ LockedBy(U, L)
           /\ x \in U.nodes /\ U.value = T.value
           /\ U.nodes = T.nodes \cup {x}
<1> DEFINE U == Split(T, x)
<1>1. CASE x \in T.nodes
  BY <1>1 DEF Split
<1>2. CASE x \notin T.nodes
  <2> DEFINE o == Owner(T, x)
  <2>1. x \in Cached(T) /\ x \in Seq(Token) /\ x # Root
    BY <1>2 DEF Shape
  <2>2. o \in T.nodes /\ Owns(T, o, x)
    BY <2>1 DEF Shape, Owner
  <2>3. /\ IsTree(U)
        /\ U.nodes = T.nodes \cup {x}
        /\ U.value = T.value
        /\ U.evictable_leaves = T.evictable_leaves
        /\ U.lock_ref = [p \in T.nodes \cup {x} |->
                            IF p = x THEN T.lock_ref[o] ELSE T.lock_ref[p]]
    BY <1>2 DEF Split, Shape, IsTree
  <2>4. Cached(U) = Cached(T)
    BY <2>3 DEF Cached
  <2>5. U.nodes \subseteq Seq(Token)
    BY <2>1, <2>3 DEF Shape
  <2>6. ASSUME NEW y \in Cached(U) PROVE \E p \in U.nodes : Owns(U, p, y)
    <3>1. PICK p \in T.nodes : Owns(T, p, y)
      BY <2>4 DEF Shape
    <3>2. y \in Seq(Token) /\ p \in Seq(Token) /\ o \in Seq(Token)
      BY <2>2, <2>4 DEF Shape
    <3>3. CASE ~(y \preceq x)
      BY <2>3, <3>1, <3>3 DEF Owns
    <3>4. CASE y \preceq x
      <4>1. y \preceq o
        BY <2>1, <2>2, <3>2, <3>4, PrefixTrans DEF Owns
      <4>2. p \preceq o
        BY <2>2, <3>1, <4>1 DEF Owns
      <4>3. p \preceq x \/ x \preceq p
        BY <2>1, <2>2, <3>2, <4>2, PrefixComparable DEF Owns
      <4>4. CASE p \preceq x
        BY <2>3, <3>1, <4>4 DEF Owns
      <4>5. CASE x \preceq p
        <5>1. \A q \in T.nodes : y \preceq q => x \preceq q
          <6>1. SUFFICES ASSUME NEW q \in T.nodes, y \preceq q PROVE x \preceq q
            OBVIOUS
          <6>2. p \preceq q /\ q \in Seq(Token)
            BY <3>1, <6>1 DEF Owns, Shape
          <6> QED
            BY <2>1, <3>2, <4>5, <6>2, PrefixTrans
        <5>2. x \preceq x
          BY <2>1, PrefixRefl
        <5> QED
          BY <2>3, <3>4, <5>1, <5>2 DEF Owns
      <4> QED
        BY <4>3, <4>4, <4>5
    <3> QED
      BY <3>3, <3>4
  <2>7. PagesOf(x) \subseteq Cached(U)
    <3>1. SUFFICES ASSUME NEW y \in PagesOf(x) PROVE y \in Cached(T)
      BY <2>4
    <3>2. y \in Seq(Token)
      BY <2>1, <3>1, PagesOfType
    <3>3. o \in Seq(Token) /\ PagesOf(o) \subseteq Cached(T)
      BY <2>2 DEF Shape
    <3>4. y \preceq o
      BY <2>1, <2>2, <3>1, <3>2, <3>3, PagesOfFacts, PrefixTrans DEF Owns
    <3> QED
      BY <2>1, <3>1, <3>2, <3>3, <3>4, PagesOfFacts
  <2>8. Shape(U)
    <3>1. \A p \in U.nodes : PagesOf(p) \subseteq Cached(U)
      BY <2>3, <2>4, <2>7 DEF Shape
    <3>2. U.lock_ref \in [U.nodes -> Nat] /\ U.lock_ref[Root] = 1
      BY <2>1, <2>2, <2>3 DEF Shape
    <3>3. \A p \in U.evictable_leaves : p \in U.nodes /\ U.lock_ref[p] = 0
      BY <1>2, <2>3 DEF Shape
    <3> QED
      BY <2>3, <2>4, <2>5, <2>6, <3>1, <3>2, <3>3 DEF Shape
  <2>9. LockedBy(U, L)
    <3>1. \A r \in DOMAIN L : x \preceq L[r] <=> o \preceq L[r]
      <4>1. SUFFICES ASSUME NEW r \in DOMAIN L PROVE x \preceq L[r] <=> o \preceq L[r]
        OBVIOUS
      <4>2. L[r] \in T.nodes /\ L[r] \in Seq(Token) /\ o \in Seq(Token)
        BY <2>2 DEF LockedBy, Shape
      <4> QED
        BY <2>1, <2>2, <4>2, PrefixTrans DEF Owns
    <3>2. {r \in DOMAIN L : x \preceq L[r]} = {r \in DOMAIN L : o \preceq L[r]}
      BY <3>1
    <3>3. o # Root
      BY <2>1, <2>2, RootFirst DEF Owns
    <3>4. T.lock_ref[o] = Cardinality({r \in DOMAIN L : x \preceq L[r]})
      BY <2>2, <3>2, <3>3 DEF LockedBy
    <3>5. ASSUME NEW p \in U.nodes \ {Root}
          PROVE  U.lock_ref[p] = Cardinality({r \in DOMAIN L : p \preceq L[r]})
      <4>1. CASE p = x
        BY <2>3, <3>4, <4>1
      <4>2. CASE p # x
        <5>1. p \in T.nodes \ {Root} /\ U.lock_ref[p] = T.lock_ref[p]
          BY <2>3, <4>2
        <5> QED
          BY <5>1 DEF LockedBy
      <4> QED
        BY <4>1, <4>2
    <3>6. \A r \in DOMAIN L : L[r] \in U.nodes
      BY <2>3 DEF LockedBy
    <3> QED
      BY <3>5, <3>6 DEF LockedBy
  <2> QED
    BY <2>3, <2>8, <2>9
<1> QED
  BY <1>1, <1>2

(* The new leaf of an insert is locked by nobody: a holder at or below it  *)
(* would have made the match longer.                                       *)
LEMMA AddLeafFacts ==
    ASSUME NEW T, NEW L, NEW key \in Seq(Token), NEW row,
           NEW x \in LongestMatch(T, key),
           Shape(T), LockedBy(T, L), IsFiniteSet(DOMAIN L),
           x \in T.nodes, x # key, Len(key) % PageSize = 0
    PROVE  LET U == AddLeaf(T, x, key, row) IN
           /\ Shape(U) /\ LockedBy(U, L)
           /\ U.nodes = T.nodes \cup {key}
<1> DEFINE locks == [p \in T.nodes \cup {key} |->
                        IF p = key THEN 0 ELSE T.lock_ref[p]]
           pages == [y \in Cached(T) \cup PagesOf(key) |->
                        IF y \in Cached(T) THEN T.value[y]
                                           ELSE row[Len(y) \div PageSize]]
           W == [nodes |-> T.nodes \cup {key}, lock_ref |-> locks, value |-> pages,
                 evictable_size |-> T.evictable_size + (Len(key) - Len(x)),
                 protected_size |-> T.protected_size,
                 evictable_leaves |-> T.evictable_leaves]
           U == UpdateLeafStatus(W, {x, key})
<1>1. x \in Seq(Token) /\ x \preceq key
  BY DEF LongestMatch, Shape
<1>2. key # Root
  BY <1>1, RootFirst
<1>3. \A y \in Cached(T) : y \preceq key => y \preceq x
  BY DEF LongestMatch
<1>4. \A q \in T.nodes : ~(key \preceq q)
  <2>1. SUFFICES ASSUME NEW q \in T.nodes, key \preceq q PROVE FALSE
    OBVIOUS
  <2>2. key \in PagesOf(q)
    BY <1>2, <2>1, PagesOfFacts DEF Shape
  <2>3. key \in Cached(T)
    BY <2>2 DEF Shape
  <2>4. key \preceq x
    BY <1>3, <2>3, PrefixRefl
  <2> QED
    BY <1>1, <2>4, PrefixAntisym
<1>5. key \notin T.nodes
  BY <1>4, PrefixRefl
<1>6. /\ IsTree(W)
      /\ W.nodes = T.nodes \cup {key}
      /\ W.lock_ref = [p \in T.nodes \cup {key} |->
                            IF p = key THEN 0 ELSE T.lock_ref[p]]
      /\ Cached(W) = Cached(T) \cup PagesOf(key)
      /\ W.evictable_leaves = T.evictable_leaves
  <2>1. DOMAIN pages = Cached(T) \cup PagesOf(key)
    OBVIOUS
  <2> HIDE DEF pages
  <2>2. /\ IsTree(W) /\ W.nodes = T.nodes \cup {key} /\ W.lock_ref = locks
        /\ W.value = pages /\ W.evictable_leaves = T.evictable_leaves
    BY DEF IsTree
  <2> QED
    BY <2>1, <2>2 DEF Cached
<1> HIDE DEF W
<1>7. W.lock_ref \in [W.nodes -> Nat]
  <2>1. T.lock_ref \in [T.nodes -> Nat]
    BY DEF Shape
  <2> QED
    BY <1>6, <2>1
<1>8. \A p \in T.nodes : W.lock_ref[p] = T.lock_ref[p]
  BY <1>5, <1>6
<1>9. /\ IsTree(U) /\ U.nodes = W.nodes /\ U.lock_ref = W.lock_ref
      /\ U.value = W.value
      /\ \A p \in U.evictable_leaves : p \in U.nodes /\ U.lock_ref[p] = 0
  <2>1. {x, key} \subseteq W.nodes
    BY <1>6
  <2>2. \A p \in W.evictable_leaves \ {x, key} : p \in W.nodes /\ W.lock_ref[p] = 0
    BY <1>6, <1>8 DEF Shape
  <2>3. IsTree(W)
    BY <1>6
  <2> QED
    BY <1>7, <2>1, <2>2, <2>3, UpdateLeafStatusFacts
<1>10. /\ U.nodes = T.nodes \cup {key}
       /\ Cached(U) = Cached(T) \cup PagesOf(key)
       /\ U.lock_ref = W.lock_ref
  BY <1>6, <1>9 DEF Cached
<1> HIDE DEF U
<1>11. ASSUME NEW y \in Cached(U) PROVE \E p \in U.nodes : Owns(U, p, y)
  <2>1. y \in Seq(Token)
    BY <1>10, PagesOfType DEF Shape
  <2>2. CASE y \in Cached(T)
    <3>1. PICK p \in T.nodes : Owns(T, p, y)
      BY <2>2 DEF Shape
    <3>2. y \preceq key => p \preceq key
      <4>1. HAVE y \preceq key
      <4>2. p \preceq x
        BY <1>3, <2>2, <3>1, <4>1 DEF Owns
      <4>3. p \in Seq(Token)
        BY DEF Shape
      <4> QED
        BY <1>1, <4>2, <4>3, PrefixTrans
    <3> QED
      BY <1>10, <3>1, <3>2 DEF Owns
  <2>3. CASE y \notin Cached(T)
    <3>1. y # Root /\ y \preceq key /\ Len(y) % PageSize = 0
      BY <1>10, <2>1, <2>3, PagesOfFacts
    <3>2. \A q \in T.nodes : ~(y \preceq q)
      BY <2>1, <2>3, <3>1, PagesOfFacts DEF Shape
    <3>3. key \preceq key
      BY PrefixRefl
    <3> QED
      BY <1>10, <3>1, <3>2, <3>3 DEF Owns
  <2> QED
    BY <2>2, <2>3
<1>12. Shape(U)
  <2>1. U.nodes \subseteq Seq(Token) /\ Root \in U.nodes
    BY <1>10 DEF Shape
  <2>2. Cached(U) \subseteq Seq(Token)
    BY <1>10, PagesOfType DEF Shape
  <2>3. \A p \in U.nodes : PagesOf(p) \subseteq Cached(U)
    BY <1>10 DEF Shape
  <2>4. U.lock_ref \in [U.nodes -> Nat] /\ U.lock_ref[Root] = 1
    BY <1>7, <1>8, <1>9, <1>10 DEF Shape
  <2> QED
    BY <1>9, <1>11, <2>1, <2>2, <2>3, <2>4 DEF Shape
<1>13. LockedBy(U, L)
  <2>1. {r \in DOMAIN L : key \preceq L[r]} = {}
    BY <1>4 DEF LockedBy
  <2>2. U.lock_ref[key] = Cardinality({r \in DOMAIN L : key \preceq L[r]})
    <3>1. U.lock_ref[key] = 0
      BY <1>6, <1>10
    <3> QED
      BY <2>1, <3>1, FS_EmptySet
  <2>3. \A p \in T.nodes \ {Root} :
           U.lock_ref[p] = Cardinality({r \in DOMAIN L : p \preceq L[r]})
    BY <1>8, <1>10 DEF LockedBy
  <2>4. \A r \in DOMAIN L : L[r] \in U.nodes
    BY <1>10 DEF LockedBy
  <2> QED
    BY <1>10, <2>2, <2>3, <2>4 DEF LockedBy
<1> QED
  BY <1>10, <1>12, <1>13 DEF AddLeaf, U, W

(* insert(): the tree stays a tree, the holders keep their locks, and the  *)
(* key is a node afterwards.                                               *)
LEMMA InsertFacts ==
    ASSUME NEW T, NEW L, NEW key \in Seq(Token), NEW row,
           NEW x \in LongestMatch(T, key),
           Shape(T), LockedBy(T, L), IsFiniteSet(DOMAIN L),
           Len(key) % PageSize = 0
    PROVE  LET U == Insert(T, x, key, row) IN
           Shape(U) /\ LockedBy(U, L) /\ key \in U.nodes
<1> DEFINE S == Split(T, x)
<1>1. x \in Cached(T) \cup {Root}
  BY DEF LongestMatch
<1>2. Shape(S) /\ LockedBy(S, L) /\ x \in S.nodes /\ S.value = T.value
  BY <1>1, SplitFacts
<1>3. x \in LongestMatch(S, key)
  BY <1>2 DEF LongestMatch, Cached
<1> HIDE DEF S
<1>4. CASE x = key
  BY <1>2, <1>4 DEF Insert, S
<1>5. CASE x # key
  BY <1>2, <1>3, <1>5, AddLeafFacts DEF Insert, S
<1> QED
  BY <1>4, <1>5

-----------------------------------------------------------------------------
(* A walk that changes the lock counts on a path, and nothing else.        *)
LEMMA RelockedFacts ==
    ASSUME NEW T, NEW n \in T.nodes, NEW d \in {-1, 1}, NEW moved, Shape(T),
           d = -1 => \A p \in Path(T, n) : T.lock_ref[p] > 0
    PROVE  LET U == Relocked(T, Path(T, n), d, moved) IN
           /\ Shape(U) /\ U.nodes = T.nodes
           /\ \A p \in T.nodes \ {Root} :
                U.lock_ref[p] = IF p \preceq n THEN T.lock_ref[p] + d ELSE T.lock_ref[p]
<1> DEFINE V == Path(T, n)
           locks == [p \in T.nodes |->
                        IF p \in V THEN T.lock_ref[p] + d ELSE T.lock_ref[p]]
           W == [nodes |-> T.nodes, lock_ref |-> locks, value |-> T.value,
                 evictable_size |-> T.evictable_size - d * moved,
                 protected_size |-> T.protected_size + d * moved,
                 evictable_leaves |-> T.evictable_leaves]
           U == UpdateLeafStatus(W, V)
<1>1. locks \in [T.nodes -> Nat]
  <2>1. ASSUME NEW p \in T.nodes PROVE locks[p] \in Nat
    <3>1. T.lock_ref[p] \in Nat
      BY DEF Shape
    <3> QED
      BY <3>1
  <2> QED
    BY <2>1
<1>2. V \subseteq T.nodes /\ Root \notin V
  BY DEF Path
<1>3. locks[Root] = 1 /\ \A p \in T.nodes \ V : locks[p] = T.lock_ref[p]
  BY <1>2 DEF Shape
<1>4. \A p \in T.nodes \ {Root} :
        locks[p] = IF p \preceq n THEN T.lock_ref[p] + d ELSE T.lock_ref[p]
  BY DEF Path
<1> HIDE DEF locks, V
<1>5. /\ IsTree(W) /\ W.nodes = T.nodes /\ W.lock_ref = locks
      /\ W.value = T.value /\ W.evictable_leaves = T.evictable_leaves
  BY DEF IsTree
<1> HIDE DEF W
<1>6. /\ IsTree(U) /\ U.nodes = W.nodes /\ U.lock_ref = W.lock_ref /\ U.value = W.value
      /\ \A p \in U.evictable_leaves : p \in U.nodes /\ U.lock_ref[p] = 0
  <2>1. \A p \in W.evictable_leaves \ V : p \in W.nodes /\ W.lock_ref[p] = 0
    BY <1>3, <1>5 DEF Shape
  <2>2. IsTree(W) /\ V \subseteq W.nodes /\ W.lock_ref \in [W.nodes -> Nat]
    BY <1>1, <1>2, <1>5
  <2> QED
    BY <2>1, <2>2, UpdateLeafStatusFacts
<1>7. U.nodes = T.nodes /\ U.lock_ref = locks /\ Cached(U) = Cached(T)
  BY <1>5, <1>6 DEF Cached
<1> HIDE DEF U
<1>8. Shape(U)
  <2>1. \A x \in Cached(U) : \E p \in U.nodes : Owns(U, p, x)
    BY <1>7 DEF Shape, Owns
  <2> QED
    BY <1>1, <1>3, <1>6, <1>7, <2>1 DEF Shape
<1>9. U = Relocked(T, Path(T, n), d, moved)
  BY DEF U, W, V, locks, Relocked
<1> QED
  BY <1>4, <1>7, <1>8, <1>9

(* inc_lock_ref() adds a holder...                                         *)
LEMMA IncFacts ==
    ASSUME NEW T, NEW L, NEW r, NEW n \in T.nodes,
           Shape(T), LockedBy(T, L), IsFiniteSet(DOMAIN L), r \notin DOMAIN L,
           NEW M, DOMAIN M = DOMAIN L \cup {r}, M[r] = n,
           \A s \in DOMAIN L : M[s] = L[s]
    PROVE  Shape(inc_lock_ref(T, n)) /\ LockedBy(inc_lock_ref(T, n), M)
<1> DEFINE U == inc_lock_ref(T, n)
<1>1. /\ Shape(U) /\ U.nodes = T.nodes
      /\ \A p \in T.nodes \ {Root} :
            U.lock_ref[p] = IF p \preceq n THEN T.lock_ref[p] + 1 ELSE T.lock_ref[p]
  BY RelockedFacts DEF inc_lock_ref
<1> HIDE DEF U
<1>2. \A s \in DOMAIN M : M[s] \in U.nodes
  BY <1>1 DEF LockedBy
<1>3. ASSUME NEW p \in U.nodes \ {Root}
      PROVE  U.lock_ref[p] = Cardinality({s \in DOMAIN M : p \preceq M[s]})
  <2> DEFINE before == {s \in DOMAIN L : p \preceq L[s]}
             after == {s \in DOMAIN M : p \preceq M[s]}
  <2>1. T.lock_ref[p] = Cardinality(before)
    BY <1>1 DEF LockedBy
  <2>2. IsFiniteSet(before) /\ r \notin before
    BY FS_Subset
  <2>3. CASE p \preceq n
    <3>1. after = before \cup {r}
      BY <2>3
    <3>2. Cardinality(before \cup {r}) = Cardinality(before) + 1
      <4> HIDE DEF before
      <4> QED
        BY <2>2, FS_AddElement
    <3>3. U.lock_ref[p] = T.lock_ref[p] + 1
      BY <1>1, <2>3
    <3> QED
      BY <2>1, <3>1, <3>2, <3>3
  <2>4. CASE ~(p \preceq n)
    <3>1. after = before
      BY <2>4
    <3>2. U.lock_ref[p] = T.lock_ref[p]
      BY <1>1, <2>4
    <3> QED
      BY <2>1, <3>1, <3>2
  <2> QED
    BY <2>3, <2>4
<1>4. LockedBy(U, M)
  BY <1>2, <1>3 DEF LockedBy
<1> QED
  BY <1>1, <1>4 DEF U

(* ... and dec_lock_ref() removes one, which held every lock it releases.  *)
LEMMA DecFacts ==
    ASSUME NEW T, NEW L, NEW r \in DOMAIN L,
           Shape(T), LockedBy(T, L), IsFiniteSet(DOMAIN L),
           NEW M, DOMAIN M = DOMAIN L \ {r}, \A s \in DOMAIN M : M[s] = L[s]
    PROVE  /\ Shape(dec_lock_ref(T, L[r])) /\ LockedBy(dec_lock_ref(T, L[r]), M)
           /\ dec_lock_ref(T, L[r]).nodes = T.nodes
<1> DEFINE n == L[r]
           U == dec_lock_ref(T, n)
           holders(p) == {s \in DOMAIN L : p \preceq L[s]}
<1>1. n \in T.nodes
  BY DEF LockedBy
<1>2. ASSUME NEW p \in T.nodes \ {Root}
      PROVE  /\ T.lock_ref[p] = Cardinality(holders(p))
             /\ IsFiniteSet(holders(p))
  BY FS_Subset DEF LockedBy
<1>3. ASSUME NEW p \in T.nodes \ {Root}, p \preceq n
      PROVE  Cardinality(holders(p) \ {r}) = T.lock_ref[p] - 1 /\ T.lock_ref[p] > 0
  <2>1. r \in holders(p)
    BY <1>3
  <2>2. IsFiniteSet(holders(p)) /\ T.lock_ref[p] = Cardinality(holders(p))
    BY <1>2
  <2> HIDE DEF holders
  <2>3. /\ Cardinality(holders(p) \ {r}) = Cardinality(holders(p)) - 1
        /\ IsFiniteSet(holders(p) \ {r})
    BY <2>1, <2>2, FS_RemoveElement
  <2>4. Cardinality(holders(p)) \in Nat /\ Cardinality(holders(p) \ {r}) \in Nat
    BY <2>2, <2>3, FS_CardinalityType
  <2> QED
    BY <2>2, <2>3, <2>4
<1>4. /\ Shape(U) /\ U.nodes = T.nodes
      /\ \A p \in T.nodes \ {Root} :
            U.lock_ref[p] = IF p \preceq n THEN T.lock_ref[p] + (-1) ELSE T.lock_ref[p]
  <2>1. \A p \in Path(T, n) : T.lock_ref[p] > 0
    BY <1>3 DEF Path
  <2> HIDE DEF n
  <2> QED
    BY <1>1, <2>1, RelockedFacts DEF dec_lock_ref
<1> HIDE DEF U
<1>5. \A s \in DOMAIN M : M[s] \in U.nodes
  BY <1>4 DEF LockedBy
<1>6. ASSUME NEW p \in U.nodes \ {Root}
      PROVE  U.lock_ref[p] = Cardinality({s \in DOMAIN M : p \preceq M[s]})
  <2>1. CASE p \preceq n
    <3>1. {s \in DOMAIN M : p \preceq M[s]} = holders(p) \ {r}
      OBVIOUS
    <3>2. U.lock_ref[p] = T.lock_ref[p] - 1
      <4>1. T.lock_ref[p] \in Nat /\ p \in T.nodes \ {Root}
        BY <1>4 DEF Shape
      <4> QED
        BY <1>4, <2>1, <4>1
    <3> QED
      BY <1>3, <1>4, <2>1, <3>1, <3>2
  <2>2. CASE ~(p \preceq n)
    <3>1. {s \in DOMAIN M : p \preceq M[s]} = holders(p)
      BY <2>2
    <3> QED
      BY <1>2, <1>4, <2>2, <3>1
  <2> QED
    BY <2>1, <2>2
<1>7. LockedBy(U, M)
  BY <1>5, <1>6 DEF LockedBy
<1> QED
  BY <1>4, <1>7 DEF U

-----------------------------------------------------------------------------
(* evict() deletes no node that is locked or lies above a locked one: the  *)
(* holders' nodes survive with all their ancestors.                        *)
LEMMA DeleteFacts ==
    ASSUME NEW T, NEW L, NEW num_tokens, NEW E \in Evictions(T, num_tokens),
           Shape(T), LockedBy(T, L), IsFiniteSet(DOMAIN L)
    PROVE  Shape(DeleteLeaves(T, E)) /\ LockedBy(DeleteLeaves(T, E), L)
<1> DEFINE kept == Cached(T) \ UNION {Segment(T, p) : p \in E}
           parents == {q \in T.nodes \ E : \E p \in E : IsParent(T, q, p)}
           locks == [p \in T.nodes \ E |-> T.lock_ref[p]]
           pages == [x \in kept |-> T.value[x]]
           W == [nodes |-> T.nodes \ E, lock_ref |-> locks, value |-> pages,
                 evictable_size |-> T.evictable_size - KeyLen(T, E),
                 protected_size |-> T.protected_size,
                 evictable_leaves |-> T.evictable_leaves \ E]
           U == UpdateLeafStatus(W, parents)
<1>1. /\ E \subseteq T.nodes
      /\ \A p \in E : EntersHeap(T, p) /\ Below(T, p) \subseteq E
  BY DEF Evictions
<1>2. \A p \in E : T.lock_ref[p] = 0
  BY <1>1 DEF EntersHeap, Shape
<1>3. Root \notin E
  BY <1>2 DEF Shape
<1>4. \A r \in DOMAIN L : L[r] \notin E
  <2>1. SUFFICES ASSUME NEW r \in DOMAIN L, L[r] \in E PROVE FALSE
    OBVIOUS
  <2> DEFINE H == {s \in DOMAIN L : L[r] \preceq L[s]}
  <2>2. L[r] \in T.nodes \ {Root} /\ L[r] \in Seq(Token)
    BY <1>1, <1>3, <2>1 DEF Shape
  <2>3. r \in H
    BY <2>2, PrefixRefl
  <2>4. Cardinality(H) = 0
    BY <1>2, <2>1, <2>2 DEF LockedBy
  <2>5. IsFiniteSet(H)
    BY FS_Subset
  <2> QED
    BY <2>3, <2>4, <2>5, FS_EmptySet
<1>5. /\ locks \in [T.nodes \ E -> Nat] /\ locks[Root] = 1
      /\ \A p \in T.nodes \ E : locks[p] = T.lock_ref[p]
  BY <1>3 DEF Shape
<1>6. DOMAIN pages = kept
  OBVIOUS
<1> HIDE DEF locks, pages
<1>7. /\ IsTree(W) /\ W.nodes = T.nodes \ E /\ W.lock_ref = locks
      /\ W.value = pages /\ W.evictable_leaves = T.evictable_leaves \ E
  BY DEF IsTree
<1> HIDE DEF W
<1>8. /\ IsTree(U) /\ U.nodes = W.nodes /\ U.lock_ref = W.lock_ref /\ U.value = W.value
      /\ \A p \in U.evictable_leaves : p \in U.nodes /\ U.lock_ref[p] = 0
  <2>1. \A p \in W.evictable_leaves \ parents : p \in W.nodes /\ W.lock_ref[p] = 0
    BY <1>5, <1>7 DEF Shape
  <2>2. IsTree(W) /\ parents \subseteq W.nodes /\ W.lock_ref \in [W.nodes -> Nat]
    BY <1>5, <1>7
  <2> HIDE DEF parents
  <2> QED
    BY <2>1, <2>2, UpdateLeafStatusFacts
<1>9. U.nodes = T.nodes \ E /\ U.lock_ref = locks /\ Cached(U) = kept
  BY <1>6, <1>7, <1>8 DEF Cached
<1>10. U = DeleteLeaves(T, E)
  BY DEF U, W, locks, pages, DeleteLeaves
<1> HIDE DEF U
<1>11. ASSUME NEW x \in Cached(U) PROVE \E p \in U.nodes : Owns(U, p, x)
  <2>1. PICK p \in T.nodes : Owns(T, p, x)
    BY <1>9 DEF Shape
  <2>2. p \notin E
    BY <1>9, <2>1 DEF Segment
  <2> QED
    BY <1>9, <2>1, <2>2 DEF Owns
<1>12. ASSUME NEW q \in U.nodes PROVE PagesOf(q) \subseteq Cached(U)
  <2>1. SUFFICES ASSUME NEW y \in PagesOf(q), NEW p \in E, y \in Segment(T, p)
                 PROVE  FALSE
    BY <1>9 DEF Shape
  <2>2. q \in T.nodes \ E /\ q \in Seq(Token)
    BY <1>9 DEF Shape
  <2>3. y \preceq q
    BY <2>1, <2>2, PagesOfFacts, PagesOfType
  <2>4. p \preceq q
    BY <2>1, <2>2, <2>3 DEF Segment, Owns
  <2> QED
    BY <1>1, <2>1, <2>2, <2>4 DEF Below
<1>13. Shape(U)
  <2>1. U.nodes \subseteq Seq(Token) /\ Root \in U.nodes /\ Cached(U) \subseteq Seq(Token)
    BY <1>3, <1>9 DEF Shape
  <2>2. U.lock_ref \in [U.nodes -> Nat] /\ U.lock_ref[Root] = 1
    BY <1>5, <1>9
  <2> QED
    BY <1>8, <1>11, <1>12, <2>1, <2>2 DEF Shape
<1>14. LockedBy(U, L)
  <2>1. \A r \in DOMAIN L : L[r] \in U.nodes
    BY <1>4, <1>9 DEF LockedBy
  <2>2. \A p \in U.nodes \ {Root} :
           U.lock_ref[p] = Cardinality({r \in DOMAIN L : p \preceq L[r]})
    BY <1>5, <1>9 DEF LockedBy
  <2> QED
    BY <2>1, <2>2 DEF LockedBy
<1> QED
  BY <1>10, <1>13, <1>14

(* reset() leaves a tree without holders.                                  *)
LEMMA EmptyTreeFacts ==
    ASSUME NEW L, DOMAIN L = {}
    PROVE  Shape(EmptyTree) /\ LockedBy(EmptyTree, L)
<1>1. Root \in Seq(Token) /\ Len(Root) = 0
  BY DEF Root
<1>2. PagesOf(Root) = {}
  BY <1>1 DEF PagesOf
<1> QED
  BY <1>1, <1>2 DEF Shape, LockedBy, IsTree, EmptyTree, Cached
=============================================================================
