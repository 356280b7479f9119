------------------------------ MODULE RadixTree ------------------------------
(***************************************************************************)
(* The prefix tree of python/sglang/srt/mem_cache/radix_cache.py, as       *)
(* operators on a tree value T.                                            *)
(*                                                                         *)
(* A node is identified by its path: the tokens on the way from the root   *)
(* to its end.  The code's node.key is the part of the path below the      *)
(* parent, node.parent the longest node that is a proper prefix.  A token  *)
(* stands for the pair (extra_key, token id): child_key() puts extra_key   *)
(* into every child dictionary key, so two namespaces never share a node.  *)
(*                                                                         *)
(* T.nodes             the paths of the nodes, Root included               *)
(* T.lock_ref          TreeNode.lock_ref, per node                         *)
(* T.value             TreeNode.value, per cached page: the page-aligned   *)
(*                     prefix x of a path is mapped to the page that holds *)
(*                     its last PageSize tokens                            *)
(* T.evictable_size, T.protected_size, T.evictable_leaves   as in the code *)
(***************************************************************************)
EXTENDS Integers, FiniteSets, Sequences

CONSTANTS Token,     \* what a radix key is made of
          PageSize   \* RadixCache.page_size

ASSUME PageSizeAssumption == PageSize \in Nat \ {0}

\* The prefix order on token sequences.
s \preceq t == Len(s) <= Len(t) /\ \A i \in 1 .. Len(s) : s[i] = t[i]

Take(s, n) == SubSeq(s, 1, n)

\* RadixKey.page_aligned: cut to a multiple of the page size.
Floor(n) == PageSize * (n \div PageSize)
Ceil(n) == PageSize * ((n + PageSize - 1) \div PageSize)
page_aligned(s) == Take(s, Floor(Len(s)))

\* The non-empty page-aligned prefixes of a key, one per page of it.
PagesOf(key) == {Take(key, n) : n \in {m \in 1 .. Len(key) : m % PageSize = 0}}

Root == << >>
Cached(T) == DOMAIN T.value

\* x lies on the segment (the code's node.key) of node p, not above it.
Owns(T, p, x) == x \preceq p /\ \A q \in T.nodes : x \preceq q => p \preceq q
Owner(T, x) == CHOOSE p \in T.nodes : Owns(T, p, x)
Segment(T, p) == {x \in Cached(T) : Owns(T, p, x)}

\* Sum of len(node.key) over the nodes of S.
KeyLen(T, S) == PageSize * Cardinality(UNION {Segment(T, p) : p \in S})

IsLeaf(T, p) == \A q \in T.nodes : p \preceq q => q = p
IsParent(T, p, q) ==
    /\ p \preceq q
    /\ p # q
    /\ \A o \in T.nodes : o \preceq q => o \preceq p \/ o = q

\* reset(): an empty tree whose root is locked for ever.
EmptyTree ==
    [nodes |-> {Root}, lock_ref |-> [p \in {Root} |-> 1],
     value |-> [x \in {} |-> x],
     evictable_size |-> 0, protected_size |-> 0, evictable_leaves |-> {}]

\* Mutant: a locked leaf is offered for eviction.
UpdateLeafStatus_locked(T, V) ==
    [T EXCEPT !.evictable_leaves = (@ \ V) \cup {p \in V : IsLeaf(T, p)}]

\* _update_leaf_status() of every node of V.
UpdateLeafStatus(T, V) ==
    [T EXCEPT !.evictable_leaves =
        (@ \ V) \cup {p \in V : T.lock_ref[p] <= 0 /\ IsLeaf(T, p)}]

-----------------------------------------------------------------------------
(* match_prefix(): the longest cached prefix of key, on which the walk of  *)
(* _match_prefix_helper ends (a singleton set).                            *)
LongestMatch(T, key) ==
    {x \in Cached(T) \cup {Root} :
        x \preceq key /\ \A y \in Cached(T) : y \preceq key => y \preceq x}

\* Mutant: the node put in by a split starts unlocked.
Split_unlocked(T, x) ==
    IF x \in T.nodes THEN T
    ELSE [T EXCEPT
            !.nodes = @ \cup {x},
            !.lock_ref = [p \in T.nodes \cup {x} |->
                            IF p = x THEN 0 ELSE T.lock_ref[p]]]

(* _split_node(): when the match ends inside a segment, a node is put      *)
(* there.  It takes over the lock count of the node it splits; sizes and   *)
(* leaf status are left alone.                                             *)
Split(T, x) ==
    IF x \in T.nodes THEN T
    ELSE [T EXCEPT
            !.nodes = @ \cup {x},
            !.lock_ref = [p \in T.nodes \cup {x} |->
                            IF p = x THEN T.lock_ref[Owner(T, x)]
                                     ELSE T.lock_ref[p]]]

(* _insert_helper(): key is walked to its longest match x; what lies below *)
(* becomes one new leaf, which takes the caller's pages row[i], i being    *)
(* the page's place in the key.                                            *)
AddLeaf(T, x, key, row) ==
    UpdateLeafStatus(
        [nodes |-> T.nodes \cup {key},
         lock_ref |-> [p \in T.nodes \cup {key} |->
                        IF p = key THEN 0 ELSE T.lock_ref[p]],
         value |-> [y \in Cached(T) \cup PagesOf(key) |->
                        IF y \in Cached(T) THEN T.value[y]
                                           ELSE row[Len(y) \div PageSize]],
         evictable_size |-> T.evictable_size + (Len(key) - Len(x)),
         protected_size |-> T.protected_size,
         evictable_leaves |-> T.evictable_leaves], {x, key})
Insert(T, x, key, row) ==
    IF x = key THEN Split(T, x) ELSE AddLeaf(Split(T, x), x, key, row)

-----------------------------------------------------------------------------
(* inc_lock_ref() / dec_lock_ref(): walk from node n up to the root        *)
(* (excluded), moving a segment between the two sizes when its lock count  *)
(* leaves or reaches zero.                                                 *)
Path(T, n) == {p \in T.nodes : p # Root /\ p \preceq n}

Relocked(T, V, d, moved) ==
    UpdateLeafStatus(
        [nodes |-> T.nodes,
         lock_ref |-> [p \in T.nodes |->
                        IF p \in V THEN T.lock_ref[p] + d ELSE T.lock_ref[p]],
         value |-> T.value,
         evictable_size |-> T.evictable_size - d * moved,
         protected_size |-> T.protected_size + d * moved,
         evictable_leaves |-> T.evictable_leaves], V)

\* Mutant: every segment on the way moves, also one that was locked already.
inc_lock_ref_all(T, n) ==
    Relocked(T, Path(T, n), 1, KeyLen(T, Path(T, n)))

inc_lock_ref(T, n) ==
    Relocked(T, Path(T, n), 1, KeyLen(T, {p \in Path(T, n) : T.lock_ref[p] = 0}))
dec_lock_ref(T, n) ==
    Relocked(T, Path(T, n), -1, KeyLen(T, {p \in Path(T, n) : T.lock_ref[p] = 1}))

-----------------------------------------------------------------------------
(* evict(): leaves are popped from a heap that starts as evictable_leaves; *)
(* a parent enters it when its last child is gone and its lock count is    *)
(* zero.  The order depends on the configured strategy (LRU, LFU, FIFO,    *)
(* priority...), so every order is allowed here.                           *)
Below(T, p) == {q \in T.nodes : p \preceq q /\ q # p}
EntersHeap(T, p) ==
    IF IsLeaf(T, p) THEN p \in T.evictable_leaves ELSE T.lock_ref[p] = 0

(* The sets of nodes that one evict(num_tokens) can delete: each node was  *)
(* in the heap when popped, after all that is below it, and the loop       *)
(* stopped as soon as it had freed num_tokens or found the heap empty.     *)
Evictions(T, num_tokens) ==
    {E \in SUBSET {p \in T.nodes : EntersHeap(T, p)} :
        /\ \A p \in E : Below(T, p) \subseteq E
        /\ \/ /\ KeyLen(T, E) >= num_tokens
              /\ \/ E = {}
                 \/ \E last \in E : /\ \A p \in E : last \notin Below(T, p)
                                    /\ KeyLen(T, E \ {last}) < num_tokens
           \/ /\ KeyLen(T, E) < num_tokens
              /\ \A p \in T.nodes \ E : Below(T, p) \subseteq E => ~EntersHeap(T, p)}

\* Mutant: the parent's leaf status is not refreshed.
DeleteLeaves_stale(T, E) ==
    [nodes |-> T.nodes \ E,
     lock_ref |-> [p \in T.nodes \ E |-> T.lock_ref[p]],
     value |-> [x \in Cached(T) \ UNION {Segment(T, p) : p \in E} |-> T.value[x]],
     evictable_size |-> T.evictable_size - KeyLen(T, E),
     protected_size |-> T.protected_size,
     evictable_leaves |-> T.evictable_leaves \ E]

\* _delete_leaf() of the nodes of E, parents after their children.
DeleteLeaves(T, E) ==
    UpdateLeafStatus(
        [nodes |-> T.nodes \ E,
         lock_ref |-> [p \in T.nodes \ E |-> T.lock_ref[p]],
         value |-> [x \in Cached(T) \ UNION {Segment(T, p) : p \in E} |-> T.value[x]],
         evictable_size |-> T.evictable_size - KeyLen(T, E),
         protected_size |-> T.protected_size,
         evictable_leaves |-> T.evictable_leaves \ E],
        {q \in T.nodes \ E : \E p \in E : IsParent(T, q, p)})

\* The pages of the nodes of E: what evict() hands back to the allocator.
EvictedPages(T, E) == {T.value[x] : x \in UNION {Segment(T, p) : p \in E}}

-----------------------------------------------------------------------------
(* What makes the value a radix tree: every cached page lies on one        *)
(* segment, every page of a node's path is cached, the root's lock is      *)
(* never released, and only unlocked nodes are offered for eviction.       *)
IsTree(T) ==
    T = [nodes |-> T.nodes, lock_ref |-> T.lock_ref, value |-> T.value,
         evictable_size |-> T.evictable_size, protected_size |-> T.protected_size,
         evictable_leaves |-> T.evictable_leaves]
Shape(T) ==
    /\ IsTree(T)
    /\ T.nodes \subseteq Seq(Token) /\ Root \in T.nodes
    /\ Cached(T) \subseteq Seq(Token)
    /\ \A x \in Cached(T) : \E p \in T.nodes : Owns(T, p, x)
    /\ \A p \in T.nodes : PagesOf(p) \subseteq Cached(T)
    /\ T.lock_ref \in [T.nodes -> Nat] /\ T.lock_ref[Root] = 1
    /\ \A p \in T.evictable_leaves : p \in T.nodes /\ T.lock_ref[p] = 0

(* The locks of the tree are those of the holders: L maps each holder to   *)
(* the node it has locked.                                                 *)
LockedBy(T, L) ==
    /\ \A r \in DOMAIN L : L[r] \in T.nodes
    /\ \A p \in T.nodes \ {Root} :
         T.lock_ref[p] = Cardinality({r \in DOMAIN L : p \preceq L[r]})
=============================================================================
