---------------------------- MODULE KVCache_proofs ----------------------------
(* The lock discipline of the radix cache, for every pool, every number of *)
(* requests, every page size and every eviction order.                     *)
EXTENDS KVCache, RadixTree_proofs

(* A page-aligned prefix is a key: a token sequence of whole pages.        *)
LEMMA KeyFacts ==
    ASSUME NEW s \in Seq(Token), NEW n \in 0 .. Len(s)
    PROVE  LET key == page_aligned(Take(s, n)) IN
           key \in Seq(Token) /\ Len(key) % PageSize = 0
<1> DEFINE t == Take(s, n)
<1>1. t \in Seq(Token)
  BY TakeFacts
<1> HIDE DEF t
<1>2. Len(t) \in Nat
  BY <1>1
<1>3. Floor(Len(t)) \in 0 .. Len(t) /\ Floor(Len(t)) % PageSize = 0
  BY <1>2, FloorFacts
<1>4. page_aligned(t) \in Seq(Token) /\ Len(page_aligned(t)) = Floor(Len(t))
  BY <1>1, <1>3, TakeFacts DEF page_aligned
<1> QED
  BY <1>3, <1>4 DEF t

(* cache_unfinished_req(): request r trades its old lock for one on the    *)
(* key it has just cached.                                                 *)
LEMMA UnfinishedFacts ==
    ASSUME NEW T, NEW L, NEW r \in DOMAIN L, NEW q, ReqOK(q),
           q.fill <= Len(q.tokens), L[r] = q.last_node,
           Shape(T), LockedBy(T, L), IsFiniteSet(DOMAIN L),
           NEW x \in LongestMatch(T, UnfinishedKey(q)),
           NEW M, DOMAIN M = DOMAIN L, M[r] = UnfinishedKey(q),
           \A s \in DOMAIN L \ {r} : M[s] = L[s]
    PROVE  /\ Shape(UnfinishedTree(T, q, x)) /\ LockedBy(UnfinishedTree(T, q, x), M)
           /\ UnfinishedKey(q) \in Seq(Token)
<1> DEFINE key == UnfinishedKey(q)
           I == Insert(T, x, key, q.kv)
           N == [s \in DOMAIN L \ {r} |-> L[s]]
           D == dec_lock_ref(I, L[r])
<1>1. key \in Seq(Token) /\ Len(key) % PageSize = 0
  BY KeyFacts DEF ReqOK, UnfinishedKey
<1> HIDE DEF key
<1>2. Shape(I) /\ LockedBy(I, L) /\ key \in I.nodes
  BY <1>1, InsertFacts DEF key
<1> HIDE DEF I
<1>3. DOMAIN N = DOMAIN L \ {r} /\ \A s \in DOMAIN N : N[s] = L[s]
  OBVIOUS
<1> HIDE DEF N
<1>4. Shape(D) /\ LockedBy(D, N) /\ D.nodes = I.nodes
  BY <1>2, <1>3, DecFacts
<1> HIDE DEF D
<1>5. IsFiniteSet(DOMAIN N) /\ r \notin DOMAIN N /\ key \in D.nodes
  BY <1>2, <1>3, <1>4, FS_Subset
<1>6. DOMAIN M = DOMAIN N \cup {r} /\ M[r] = key /\ \A s \in DOMAIN N : M[s] = N[s]
  BY <1>3 DEF key
<1>7. Shape(inc_lock_ref(D, key)) /\ LockedBy(inc_lock_ref(D, key), M)
  <2>1. \A n \in D.nodes : M[r] = n =>
            Shape(inc_lock_ref(D, n)) /\ LockedBy(inc_lock_ref(D, n), M)
    BY ONLY <1>4, <1>5, <1>6, IncFacts
  <2> QED
    BY <1>5, <1>6, <2>1
<1> QED
  BY <1>1, <1>7 DEF UnfinishedTree, key, D, I

(* cache_finished_req(): request r gives up its lock, with or without an   *)
(* insert before.                                                          *)
LEMMA ReleasedFacts ==
    ASSUME NEW T, NEW L, NEW r \in DOMAIN L, NEW q, ReqOK(q), L[r] = q.last_node,
           Shape(T), LockedBy(T, L), IsFiniteSet(DOMAIN L),
           NEW is_insert \in BOOLEAN, NEW x \in ReleaseMatches(T, q, is_insert),
           NEW M, DOMAIN M = DOMAIN L \ {r}, \A s \in DOMAIN M : M[s] = L[s]
    PROVE  LET U == ReleasedTree(T, q, x, is_insert) IN Shape(U) /\ LockedBy(U, M)
<1> DEFINE key == FinishedKey(q)
           I == IF is_insert THEN Insert(T, x, key, q.kv) ELSE T
<1>1. Least(cache_commit_len(q), Len(q.tokens)) \in 0 .. Len(q.tokens)
  <2>1. cache_commit_len(q) \in Nat /\ Len(q.tokens) \in Nat
    BY DEF ReqOK, cache_commit_len, Least
  <2> QED
    BY <2>1 DEF Least
<1>2. key \in Seq(Token) /\ Len(key) % PageSize = 0
  BY <1>1, KeyFacts DEF ReqOK, FinishedKey, FinishedIds
<1> HIDE DEF key
<1>3. Shape(I) /\ LockedBy(I, L)
  <2>1. CASE is_insert
    <3>1. x \in LongestMatch(T, key)
      BY <2>1 DEF ReleaseMatches, key
    <3> QED
      BY <1>2, <2>1, <3>1, InsertFacts
  <2>2. CASE ~is_insert
    BY <2>2
  <2> QED
    BY <2>1, <2>2
<1> HIDE DEF I
<1>4. Shape(dec_lock_ref(I, L[r])) /\ LockedBy(dec_lock_ref(I, L[r]), M)
  BY <1>3, DecFacts
<1> QED
  BY <1>4 DEF ReleasedTree, I, key

-----------------------------------------------------------------------------
(* What a step that replaces one request by q does to the holders.         *)
IsHolding(q) == q.state \in {"admitted", "chunked", "running"}

(* When one request changes, the map of holders changes at it only. *)
LEMMA HoldersStep ==
    ASSUME LockInv, NEW r \in Reqs, NEW q, req' = [req EXCEPT ![r] = q]
    PROVE  /\ DOMAIN Holders = Holding /\ IsFiniteSet(DOMAIN Holders)
           /\ r \in Holding <=> IsHolding(req[r])
           /\ \A s \in Holding : Holders[s] = req[s].last_node
           /\ IsHolding(q) => /\ DOMAIN Holders' = DOMAIN Holders \cup {r}
                              /\ Holders'[r] = q.last_node
           /\ ~IsHolding(q) => DOMAIN Holders' = DOMAIN Holders \ {r}
           /\ \A s \in DOMAIN Holders \ {r} : Holders'[s] = Holders[s]
           /\ \A s \in DOMAIN Holders' \ {r} : s \in DOMAIN Holders
<1>1. DOMAIN req = Reqs
  BY DEF LockInv
<1>2. req'[r] = q /\ \A s \in Reqs \ {r} : req'[s] = req[s]
  BY <1>1
<1>3. Holding' = IF IsHolding(q) THEN Holding \cup {r} ELSE Holding \ {r}
  BY <1>2 DEF Holding, IsHolding
<1>4. /\ DOMAIN Holders = Holding /\ DOMAIN Holders' = Holding'
      /\ \A s \in Holding : Holders[s] = req[s].last_node
      /\ \A s \in Holding' : Holders'[s] = req'[s].last_node
  BY DEF Holders
<1>5. IsFiniteSet(Holding)
  BY KVCacheAssumption, FS_Subset DEF Holding
<1>6. r \in Holding <=> IsHolding(req[r])
  BY DEF Holding, IsHolding
<1>7. \A s \in Holding : s \in Reqs
  BY DEF Holding
<1> QED
  BY <1>2, <1>3, <1>4, <1>5, <1>6, <1>7

(* LockInv survives a step that gives a well-formed tree with the locks
   of the new holders, and one new coherent request. *)
LEMMA LockInvStep ==
    ASSUME LockInv, NEW r \in Reqs, NEW q, req' = [req EXCEPT ![r] = q],
           ReqOK(q), Coherent(q), Shape(tree'), LockedBy(tree', Holders')
    PROVE  LockInv'
<1>1. DOMAIN req = Reqs /\ \A s \in Reqs : ReqOK(req[s]) /\ Coherent(req[s])
  BY DEF LockInv
<1>2. DOMAIN req' = Reqs /\ req'[r] = q /\ \A s \in Reqs \ {r} : req'[s] = req[s]
  BY <1>1
<1>3. \A s \in Reqs : ReqOK(req'[s]) /\ Coherent(req'[s])
  BY <1>1, <1>2
<1> QED
  BY <1>2, <1>3 DEF LockInv

(* The same when the request stays outside the holders.                    *)
LEMMA OutsideStep ==
    ASSUME LockInv, NEW r \in Reqs, NEW q, req' = [req EXCEPT ![r] = q],
           ReqOK(q), Coherent(q), ~IsHolding(q), ~IsHolding(req[r]), tree' = tree
    PROVE  LockInv'
<1>1. DOMAIN Holders' = DOMAIN Holders /\ \A s \in DOMAIN Holders : Holders'[s] = Holders[s]
  BY HoldersStep
<1>2. LockedBy(tree, Holders')
  BY <1>1 DEF LockInv, LockedBy
<1> QED
  BY <1>2, LockInvStep DEF LockInv

(* A request slot that is empty is well formed and holds nothing. *)
LEMMA NoReqFacts == ReqOK(NoReq) /\ Coherent(NoReq) /\ ~IsHolding(NoReq)
<1>1. Root \in Seq(Token) /\ << >> \in Seq(Token)
  BY DEF Root
<1>2. ~IsHolding(NoReq) /\ Coherent(NoReq)
  BY DEF NoReq, Coherent, IsHolding
<1>3. ReqOK(NoReq)
  BY <1>1 DEF NoReq, ReqOK
<1> QED
  BY <1>2, <1>3

-----------------------------------------------------------------------------
(* handle_generate_request preserves LockInv. *)
LEMMA ArriveStep ==
    ASSUME LockInv, NEW r \in Reqs, Arrive(r)
    PROVE  LockInv'
<1>1. PICK prompt \in Prompts :
        req' = [req EXCEPT ![r] = [NoReq EXCEPT !.state = "waiting", !.tokens = prompt,
                                                !.origin = Len(prompt)]]
  BY DEF Arrive
<1> DEFINE q == [NoReq EXCEPT !.state = "waiting", !.tokens = prompt,
                              !.origin = Len(prompt)]
<1>2. prompt \in Seq(Token) /\ prompt # << >>
  BY KVCacheAssumption
<1>3. ReqOK(q) /\ Coherent(q) /\ ~IsHolding(q)
  BY <1>2, RootFirst DEF ReqOK, NoReq, Coherent, IsHolding
<1>4. ~IsHolding(req[r]) /\ tree' = tree
  BY DEF Arrive, IsHolding
<1> QED
  BY <1>1, <1>3, <1>4, OutsideStep

(* Taking a request off the waiting queue preserves LockInv. *)
LEMMA AbortStep ==
    ASSUME LockInv, NEW r \in Reqs, AbortWaiting(r)
    PROVE  LockInv'
<1>1. ~IsHolding(req[r]) /\ tree' = tree /\ req' = [req EXCEPT ![r] = NoReq]
  BY DEF AbortWaiting, IsHolding
<1> QED
  BY <1>1, NoReqFacts, OutsideStep

(* A waiting request has a key to match with.                              *)
LEMMA MatchPrefixStep ==
    ASSUME LockInv, NEW r \in Reqs, MatchPrefix(r)
    PROVE  LockInv'
<1>1. PICK x \in LongestMatch(tree, MatchKey(req[r])) : tree' = Split(tree, x)
  BY DEF MatchPrefix
<1>2. x \in Cached(tree) \cup {Root}
  BY DEF LongestMatch
<1>3. Shape(tree') /\ LockedBy(tree', Holders)
  BY <1>1, <1>2, SplitFacts DEF LockInv
<1>4. req' = req
  BY DEF MatchPrefix
<1> QED
  BY <1>3, <1>4 DEF LockInv, Holders, Holding

(* add_one_req preserves LockInv: the matched node gets one holder. *)
LEMMA AddOneReqStep ==
    ASSUME LockInv, NEW r \in Reqs, AddOneReq(r)
    PROVE  LockInv'
<1>1. PICK x \in LongestMatch(tree, MatchKey(req[r])) :
        \E fill \in Len(x) + 1 .. Len(req[r].tokens) :
            /\ req' = [req EXCEPT ![r] = Admitted(tree, req[r], x, fill)]
            /\ tree' = inc_lock_ref(Split(tree, x), x)
  BY Zenon DEF AddOneReq
<1>2. PICK fill \in Len(x) + 1 .. Len(req[r].tokens) :
        /\ req' = [req EXCEPT ![r] = Admitted(tree, req[r], x, fill)]
        /\ tree' = inc_lock_ref(Split(tree, x), x)
  BY <1>1, Zenon
<1> DEFINE q == Admitted(tree, req[r], x, fill)
           S == Split(tree, x)
<1>3. x \in Cached(tree) \cup {Root} /\ x \in Seq(Token)
  BY RootFirst DEF LongestMatch, LockInv, Shape
<1>4. Shape(S) /\ LockedBy(S, Holders) /\ x \in S.nodes
  BY <1>3, SplitFacts DEF LockInv
<1> HIDE DEF S
<1>5. ReqOK(req[r]) /\ Coherent(req[r]) /\ ~IsHolding(req[r]) /\ req[r].state = "waiting"
  BY DEF LockInv, AddOneReq, IsHolding
<1>6. fill \in Nat /\ fill <= Len(req[r].tokens) /\ Len(x) \in Nat
  BY <1>3, <1>5 DEF ReqOK
<1>7. ReqOK(q) /\ Coherent(q) /\ IsHolding(q) /\ q.last_node = x
  BY <1>3, <1>5, <1>6 DEF Admitted, ReqOK, Coherent, IsHolding, NoReq
<1> HIDE DEF q
<1>8. /\ IsFiniteSet(DOMAIN Holders) /\ r \notin DOMAIN Holders
      /\ DOMAIN Holders' = DOMAIN Holders \cup {r} /\ Holders'[r] = x
      /\ \A s \in DOMAIN Holders : Holders'[s] = Holders[s]
  BY <1>2, <1>5, <1>7, HoldersStep DEF q
<1>9. Shape(inc_lock_ref(S, x)) /\ LockedBy(inc_lock_ref(S, x), Holders')
  BY ONLY <1>4, <1>8, IncFacts
<1> QED
  BY <1>2, <1>7, <1>9, LockInvStep DEF S, q

(* An eviction changes the tree, never whose locks they are.               *)
LEMMA EvictFacts ==
    ASSUME LockInv, NEW f, NEW n, NEW E \in EvictFromTreeCache(tree, f, n)
    PROVE  Shape(DeleteLeaves(tree, E)) /\ LockedBy(DeleteLeaves(tree, E), Holders)
<1>1. IsFiniteSet(DOMAIN Holders)
  BY KVCacheAssumption, FS_Subset DEF Holding, Holders
<1> QED
  BY <1>1, DeleteFacts DEF LockInv, EvictFromTreeCache

(* A step of a holder that keeps its node, possibly after an eviction.     *)
LEMMA KeepStep ==
    ASSUME LockInv, NEW r \in Reqs, NEW q, req' = [req EXCEPT ![r] = q],
           ReqOK(q), Coherent(q), IsHolding(q), IsHolding(req[r]),
           q.last_node = req[r].last_node,
           Shape(tree'), LockedBy(tree', Holders)
    PROVE  LockInv'
<1>1. DOMAIN Holders' = DOMAIN Holders /\ \A s \in DOMAIN Holders : Holders'[s] = Holders[s]
  BY HoldersStep
<1>2. LockedBy(tree', Holders')
  BY <1>1 DEF LockedBy
<1> QED
  BY <1>2, LockInvStep

(* alloc_for_extend and the forward pass preserve LockInv. *)
LEMMA ExtendStep ==
    ASSUME LockInv, NEW r \in Reqs, Extend(r)
    PROVE  LockInv'
<1>1. PICK E \in EvictFromTreeCache(tree, free, ExtendTokens(req[r])), t \in Token :
        \E new :
        /\ tree' = DeleteLeaves(tree, E)
        /\ req' = [req EXCEPT ![r] = Extended(req[r], new, t)]
  BY Zenon DEF Extend
<1>2. PICK new : req' = [req EXCEPT ![r] = Extended(req[r], new, t)]
  BY <1>1
<1> DEFINE q == Extended(req[r], new, t)
<1>3. ReqOK(req[r]) /\ Coherent(req[r]) /\ req[r].state = "admitted"
  BY DEF LockInv, Extend
<1>4. <<t>> \in Seq(Token) /\ << >> \in Seq(Token)
  OBVIOUS
<1>5. ReqOK(q) /\ Coherent(q) /\ IsHolding(q) /\ q.last_node = req[r].last_node
  BY <1>3, <1>4 DEF Extended, ReqOK, Coherent, IsHolding, NoReq
<1>6. Shape(tree') /\ LockedBy(tree', Holders)
  BY <1>1, EvictFacts
<1> QED
  BY <1>2, <1>3, <1>5, <1>6, KeepStep DEF IsHolding

(* prepare_for_decode preserves LockInv. *)
LEMMA DecodeLaunchStep ==
    ASSUME LockInv, NEW r \in Reqs, DecodeLaunch(r)
    PROVE  LockInv'
<1>1. PICK E \in EvictFromTreeCache(tree, free, PageSize), t \in Token :
        \E new :
        /\ tree' = DeleteLeaves(tree, E)
        /\ req' = [req EXCEPT ![r] = Launched(req[r], new, t)]
  BY Zenon DEF DecodeLaunch
<1>2. PICK new : req' = [req EXCEPT ![r] = Launched(req[r], new, t)]
  BY <1>1
<1> DEFINE q == Launched(req[r], new, t)
<1>3. ReqOK(req[r]) /\ Coherent(req[r]) /\ req[r].state = "running"
  BY DEF LockInv, DecodeLaunch
<1>4. Append(req[r].future, t) \in Seq(Token) /\ Append(req[r].future, t) # << >>
  <2>1. req[r].future \in Seq(Token)
    BY <1>3 DEF ReqOK
  <2> QED
    BY <2>1, AppendProperties
<1>5. ReqOK(q) /\ Coherent(q) /\ IsHolding(q) /\ q.last_node = req[r].last_node
  BY <1>3, <1>4 DEF Launched, ReqOK, Coherent, IsHolding, NoReq
<1>6. Shape(tree') /\ LockedBy(tree', Holders)
  BY <1>1, EvictFacts
<1> QED
  BY <1>2, <1>3, <1>5, <1>6, KeepStep DEF IsHolding

(* check_decode_mem only evicts, which preserves LockInv. *)
LEMMA CheckDecodeMemStep ==
    ASSUME LockInv, CheckDecodeMem
    PROVE  LockInv'
<1>1. PICK n \in 1 .. Cardinality({r \in Reqs : req[r].state = "running"}) :
        \E E \in EvictFromTreeCache(tree, free, PageSize * n) : tree' = DeleteLeaves(tree, E)
  BY Zenon DEF CheckDecodeMem
<1>2. Shape(tree') /\ LockedBy(tree', Holders)
  BY <1>1, EvictFacts
<1>3. req' = req
  BY DEF CheckDecodeMem
<1> QED
  BY <1>2, <1>3 DEF LockInv, Holders, Holding

(* The request after its unfinished part was cached.                       *)
LEMMA UnfinishedReqFacts ==
    ASSUME NEW T, NEW x, NEW q, ReqOK(q), UnfinishedKey(q) \in Seq(Token)
    PROVE  LET u == UnfinishedReq(T, q, x) IN
           /\ ReqOK(u) /\ u.last_node = UnfinishedKey(q)
           /\ u.state = q.state /\ u.tokens = q.tokens /\ u.fill = q.fill
           /\ u.future = q.future /\ u.cached = q.cached
<1> DEFINE key == UnfinishedKey(q)
           row == [i \in 1 .. Len(q.kv) |->
                     IF PageSize * i \in q.protected + 1 .. Len(key)
                     THEN Insert(T, x, key, q.kv).value[Take(key, PageSize * i)]
                     ELSE q.kv[i]]
<1>1. UnfinishedReq(T, q, x) =
        [q EXCEPT !.kv = row, !.protected = Len(key), !.prefix = q.fill, !.last_node = key]
  BY DEF UnfinishedReq
<1>2. Len(key) \in Nat
  OBVIOUS
<1> HIDE DEF row, key
<1> QED
  BY <1>1, <1>2 DEF ReqOK, NoReq, key

(* Caching a chunk moves its lock to the longer key: LockInv is kept. *)
LEMMA AddChunkedReqStep ==
    ASSUME LockInv, NEW r \in Reqs, AddChunkedReq(r)
    PROVE  LockInv'
<1>1. PICK x \in LongestMatch(tree, UnfinishedKey(req[r])) :
        \E fill \in req[r].fill + 1 .. Len(req[r].tokens) :
            /\ tree' = UnfinishedTree(tree, req[r], x)
            /\ req' = [req EXCEPT ![r] = [UnfinishedReq(tree, req[r], x) EXCEPT
                                            !.state = "admitted", !.fill = fill]]
  BY Zenon DEF AddChunkedReq
<1>2. PICK fill \in req[r].fill + 1 .. Len(req[r].tokens) :
        /\ tree' = UnfinishedTree(tree, req[r], x)
        /\ req' = [req EXCEPT ![r] = [UnfinishedReq(tree, req[r], x) EXCEPT
                                        !.state = "admitted", !.fill = fill]]
  BY <1>1, Zenon
<1> DEFINE u == UnfinishedReq(tree, req[r], x)
           q == [u EXCEPT !.state = "admitted", !.fill = fill]
           key == UnfinishedKey(req[r])
<1>3. ReqOK(req[r]) /\ Coherent(req[r]) /\ req[r].state = "chunked"
  BY DEF LockInv, AddChunkedReq
<1>4. req[r].fill <= Len(req[r].tokens)
  BY <1>3 DEF Coherent
<1>5. key \in Seq(Token)
  BY <1>3, <1>4, KeyFacts DEF UnfinishedKey, ReqOK
<1>6. ReqOK(u) /\ u.last_node = key /\ u.tokens = req[r].tokens /\ u.tokens # << >>
  BY <1>3, <1>5, UnfinishedReqFacts DEF Coherent
<1> HIDE DEF u, key
<1>7. fill \in Nat /\ fill <= Len(req[r].tokens)
  BY <1>3 DEF ReqOK
<1>8. ReqOK(q) /\ Coherent(q) /\ IsHolding(q) /\ q.last_node = key
  BY <1>6, <1>7 DEF ReqOK, Coherent, IsHolding, NoReq
<1>9. req' = [req EXCEPT ![r] = q]
  BY <1>2 DEF u
<1> HIDE DEF q
<1>10. /\ r \in DOMAIN Holders /\ Holders[r] = req[r].last_node
       /\ IsFiniteSet(DOMAIN Holders) /\ DOMAIN Holders' = DOMAIN Holders
       /\ Holders'[r] = key
       /\ \A s \in DOMAIN Holders \ {r} : Holders'[s] = Holders[s]
  <2>1. IsHolding(req[r])
    BY <1>3 DEF IsHolding
  <2> QED
    BY <1>8, <1>9, <2>1, HoldersStep
<1>11. Shape(tree') /\ LockedBy(tree', Holders')
  <2>1. Shape(tree) /\ LockedBy(tree, Holders)
    BY DEF LockInv
  <2>2. Holders'[r] = UnfinishedKey(req[r])
    BY <1>10 DEF key
  <2>3. ReqOK(req[r]) /\ tree' = UnfinishedTree(tree, req[r], x)
    BY <1>2, <1>3
  <2> QED
    BY ONLY <1>1, <1>4, <1>10, <2>1, <2>2, <2>3, UnfinishedFacts
<1> QED
  BY <1>8, <1>9, <1>11, LockInvStep

-----------------------------------------------------------------------------
(* A request whose next result has been taken in.                          *)
LEMMA AcceptFacts ==
    ASSUME NEW q, ReqOK(q), q.future # << >>
    PROVE  LET a == Accept(q) IN
           /\ ReqOK(a) /\ a.state = q.state /\ a.fill = q.fill
           /\ a.last_node = q.last_node /\ a.cached = q.cached
           /\ Len(a.tokens) = Len(q.tokens) + 1 /\ a.tokens # << >>
<1>1. Head(q.future) \in Token /\ Tail(q.future) \in Seq(Token)
  BY DEF ReqOK
<1> DEFINE toks == Append(q.tokens, Head(q.future))
<1>2. toks \in Seq(Token) /\ Len(toks) = Len(q.tokens) + 1 /\ toks # << >>
  <2>1. q.tokens \in Seq(Token)
    BY DEF ReqOK
  <2> QED
    BY <1>1, <2>1, AppendProperties
<1>3. Accept(q) = [q EXCEPT !.tokens = toks, !.future = Tail(q.future)]
  BY DEF Accept
<1> HIDE DEF toks
<1> QED
  BY <1>1, <1>2, <1>3 DEF ReqOK, NoReq

(* A finished request leaves the holders.                                  *)
LEMMA FinishStep ==
    ASSUME LockInv, NEW r \in Reqs, IsHolding(req[r]),
           NEW q, ReqOK(q), q.last_node = req[r].last_node, Finish(r, q)
    PROVE  LockInv'
<1> DEFINE is_insert == ~DisableFinishedInsert
<1>1. PICK x \in ReleaseMatches(tree, q, is_insert) :
        /\ tree' = ReleasedTree(tree, q, x, is_insert)
        /\ req' = [req EXCEPT ![r] = NoReq]
  BY Zenon DEF Finish
<1>2. is_insert \in BOOLEAN
  OBVIOUS
<1>3. /\ r \in DOMAIN Holders /\ Holders[r] = q.last_node
      /\ IsFiniteSet(DOMAIN Holders) /\ DOMAIN Holders' = DOMAIN Holders \ {r}
      /\ \A s \in DOMAIN Holders' : Holders'[s] = Holders[s]
  BY <1>1, NoReqFacts, HoldersStep
<1> HIDE DEF is_insert
<1>4. Shape(tree') /\ LockedBy(tree', Holders')
  <2>1. Shape(tree) /\ LockedBy(tree, Holders)
    BY DEF LockInv
  <2>2. ReqOK(q)
    OBVIOUS
  <2> QED
    BY ONLY <1>1, <1>2, <1>3, <2>1, <2>2, ReleasedFacts
<1> QED
  BY <1>1, <1>4, NoReqFacts, LockInvStep

(* process_batch_result_decode preserves LockInv. *)
LEMMA DecodeResultStep ==
    ASSUME LockInv, NEW r \in Reqs, DecodeResult(r)
    PROVE  LockInv'
<1> DEFINE q == Accept(req[r])
<1>1. ReqOK(req[r]) /\ Coherent(req[r]) /\ req[r].future # << >>
      /\ req[r].state = "running" /\ req[r].cached
  BY DEF LockInv, DecodeResult
<1>2. /\ ReqOK(q) /\ q.state = "running" /\ q.fill = req[r].fill
      /\ q.last_node = req[r].last_node /\ q.cached
      /\ Len(q.tokens) = Len(req[r].tokens) + 1 /\ q.tokens # << >>
  BY <1>1, AcceptFacts
<1> HIDE DEF q
<1>3. IsHolding(req[r]) /\ IsHolding(q)
  BY <1>1, <1>2 DEF IsHolding
<1>4. CASE Finish(r, q)
  BY <1>2, <1>3, <1>4, FinishStep
<1>5. CASE req' = [req EXCEPT ![r] = q] /\ tree' = tree
  <2>1. Coherent(q)
    BY <1>1, <1>2 DEF Coherent, ReqOK
  <2>2. Shape(tree') /\ LockedBy(tree', Holders)
    BY <1>5 DEF LockInv
  <2> QED
    BY <1>2, <1>3, <1>5, <2>1, <2>2, KeepStep
<1> QED
  BY <1>4, <1>5 DEF DecodeResult, q

(* process_batch_result_prefill preserves LockInv. *)
LEMMA PrefillResultStep ==
    ASSUME LockInv, NEW r \in Reqs, PrefillResult(r)
    PROVE  LockInv'
<1> DEFINE q == Accept(req[r])
<1>1. ReqOK(req[r]) /\ Coherent(req[r]) /\ req[r].state = "running" /\ ~req[r].cached
  BY DEF LockInv, PrefillResult
<1>2. req[r].future # << >> /\ req[r].fill <= Len(req[r].tokens)
  BY <1>1 DEF Coherent
<1>3. /\ ReqOK(q) /\ q.state = "running" /\ q.fill = req[r].fill
      /\ q.last_node = req[r].last_node
      /\ Len(q.tokens) = Len(req[r].tokens) + 1 /\ q.tokens # << >>
  BY <1>1, <1>2, AcceptFacts
<1> HIDE DEF q
<1>4. IsHolding(req[r])
  BY <1>1 DEF IsHolding
<1>5. CASE Finish(r, q)
  BY <1>3, <1>4, <1>5, FinishStep
<1>6. CASE \E x \in LongestMatch(tree, UnfinishedKey(q)) :
              /\ tree' = UnfinishedTree(tree, q, x)
              /\ req' = [req EXCEPT ![r] = [UnfinishedReq(tree, q, x) EXCEPT !.cached = TRUE]]
  <2>1. PICK x \in LongestMatch(tree, UnfinishedKey(q)) :
              /\ tree' = UnfinishedTree(tree, q, x)
              /\ req' = [req EXCEPT ![r] = [UnfinishedReq(tree, q, x) EXCEPT !.cached = TRUE]]
    BY <1>6
  <2> DEFINE u == UnfinishedReq(tree, q, x)
             w == [u EXCEPT !.cached = TRUE]
             key == UnfinishedKey(q)
  <2>2. q.fill <= Len(q.tokens) /\ q.fill \in 0 .. Len(q.tokens)
    BY <1>1, <1>2, <1>3 DEF ReqOK
  <2>3. key \in Seq(Token)
    BY <1>3, <2>2, KeyFacts DEF UnfinishedKey, ReqOK
  <2>4. /\ ReqOK(u) /\ u.last_node = key /\ u.tokens = q.tokens /\ u.fill = q.fill
        /\ u.state = q.state
    BY <1>3, <2>3, UnfinishedReqFacts
  <2> HIDE DEF u, key
  <2>5. ReqOK(w) /\ Coherent(w) /\ IsHolding(w) /\ w.last_node = key
    BY <1>3, <2>2, <2>4 DEF ReqOK, Coherent, IsHolding, NoReq
  <2>6. req' = [req EXCEPT ![r] = w]
    BY <2>1 DEF u
  <2> HIDE DEF w
  <2>7. /\ r \in DOMAIN Holders /\ Holders[r] = q.last_node
        /\ IsFiniteSet(DOMAIN Holders) /\ DOMAIN Holders' = DOMAIN Holders
        /\ Holders'[r] = UnfinishedKey(q)
        /\ \A s \in DOMAIN Holders \ {r} : Holders'[s] = Holders[s]
    BY <1>3, <1>4, <2>5, <2>6, HoldersStep DEF key
  <2>8. Shape(tree') /\ LockedBy(tree', Holders')
    <3>1. Shape(tree) /\ LockedBy(tree, Holders)
      BY DEF LockInv
    <3>2. ReqOK(q) /\ tree' = UnfinishedTree(tree, q, x)
      BY <1>3, <2>1
    <3> QED
      BY ONLY <2>1, <2>2, <2>7, <3>1, <3>2, UnfinishedFacts
  <2> QED
    BY <2>5, <2>6, <2>8, LockInvStep
<1> QED
  BY <1>5, <1>6 DEF PrefillResult, q

(* A retracted request leaves the holders; the eviction that follows sees  *)
(* the locks of the others only.                                           *)
LEMMA ReleaseReqStep ==
    ASSUME LockInv, NEW r \in Reqs, ReleaseReq(r)
    PROVE  LockInv'
<1>1. PICK x \in ReleaseMatches(tree, req[r], FALSE) :
        \E n, f : \E E \in EvictFromTreeCache(ReleasedTree(tree, req[r], x, FALSE), f, n) :
            tree' = DeleteLeaves(ReleasedTree(tree, req[r], x, FALSE), E)
  BY Zenon DEF ReleaseReq
<1>2. PICK q \in {Requeued(req[r]), NoReq} : req' = [req EXCEPT ![r] = q]
  BY Zenon DEF ReleaseReq
<1> DEFINE T == ReleasedTree(tree, req[r], x, FALSE)
<1>3. PICK n, f : \E E \in EvictFromTreeCache(T, f, n) : tree' = DeleteLeaves(T, E)
  BY <1>1
<1>4. PICK E \in EvictFromTreeCache(T, f, n) : tree' = DeleteLeaves(T, E)
  BY <1>3
<1>5. ReqOK(req[r]) /\ Coherent(req[r]) /\ IsHolding(req[r])
  BY DEF LockInv, ReleaseReq, IsHolding
<1>6. ReqOK(q) /\ Coherent(q) /\ ~IsHolding(q)
  <2>1. CASE q = NoReq
    BY <2>1, NoReqFacts
  <2>2. CASE q = Requeued(req[r])
    <3>1. ReqOK(q) /\ ~IsHolding(q) /\ q.tokens = req[r].tokens /\ q.state = "waiting"
      <4>1. Root \in Seq(Token) /\ << >> \in Seq(Token)
        BY DEF Root
      <4> QED
        BY <1>5, <2>2, <4>1 DEF Requeued, ReqOK, IsHolding, NoReq
    <3>2. req[r].tokens # << >>
      BY <1>5 DEF Coherent, IsHolding
    <3> QED
      BY <3>1, <3>2 DEF Coherent
  <2> QED
    BY <1>2, <2>1, <2>2
<1> HIDE DEF T
<1>7. /\ r \in DOMAIN Holders /\ Holders[r] = req[r].last_node
      /\ IsFiniteSet(DOMAIN Holders) /\ DOMAIN Holders' = DOMAIN Holders \ {r}
      /\ \A s \in DOMAIN Holders' : Holders'[s] = Holders[s]
  BY <1>2, <1>5, <1>6, HoldersStep
<1>8. Shape(T) /\ LockedBy(T, Holders')
  <2>1. Shape(tree) /\ LockedBy(tree, Holders) /\ FALSE \in BOOLEAN
    BY DEF LockInv
  <2>2. ReqOK(req[r])
    BY <1>5
  <2> QED
    BY ONLY <1>1, <1>7, <2>1, <2>2, ReleasedFacts DEF T
<1>9. Shape(tree') /\ LockedBy(tree', Holders')
  <2>1. IsFiniteSet(DOMAIN Holders')
    BY <1>7, FS_Subset
  <2> QED
    BY <1>4, <1>8, <2>1, DeleteFacts DEF EvictFromTreeCache
<1> QED
  BY <1>2, <1>6, <1>9, LockInvStep

(* flush_cache of an idle scheduler preserves LockInv. *)
LEMMA FlushCacheStep ==
    ASSUME LockInv, FlushCache
    PROVE  LockInv'
<1>1. tree' = EmptyTree /\ req' = req /\ Holding = {}
  BY DEF FlushCache, Holding
<1>2. DOMAIN Holders' = {}
  BY <1>1 DEF Holders, Holding
<1>3. Shape(tree') /\ LockedBy(tree', Holders')
  BY <1>1, <1>2, EmptyTreeFacts
<1> QED
  BY <1>1, <1>3 DEF LockInv

(* LockInv holds initially and is preserved by every step.                 *)
LEMMA LockInvInit == Init => LockInv
<1> SUFFICES ASSUME Init PROVE LockInv
  OBVIOUS
<1>1. DOMAIN req = Reqs /\ \A r \in Reqs : req[r] = NoReq
  BY DEF Init
<1>2. \A r \in Reqs : ReqOK(req[r]) /\ Coherent(req[r]) /\ ~IsHolding(req[r])
  BY <1>1, NoReqFacts
<1>3. DOMAIN Holders = {}
  BY <1>2 DEF Holders, Holding, IsHolding
<1>4. Shape(tree) /\ LockedBy(tree, Holders)
  BY <1>3, EmptyTreeFacts DEF Init
<1> QED
  BY <1>1, <1>2, <1>4 DEF LockInv

(* LockInv is inductive: every step of the scheduler preserves it. *)
LEMMA LockInvNext == LockInv /\ [Next]_vars => LockInv'
<1> SUFFICES ASSUME LockInv, [Next]_vars PROVE LockInv'
  OBVIOUS
<1>1. ASSUME NEW r \in Reqs, Arrive(r) PROVE LockInv'
  BY <1>1, ArriveStep
<1>2. ASSUME NEW r \in Reqs, MatchPrefix(r) PROVE LockInv'
  BY <1>2, MatchPrefixStep
<1>3. ASSUME NEW r \in Reqs, AddOneReq(r) PROVE LockInv'
  BY <1>3, AddOneReqStep
<1>4. ASSUME NEW r \in Reqs, Extend(r) PROVE LockInv'
  BY <1>4, ExtendStep
<1>5. ASSUME NEW r \in Reqs, AddChunkedReq(r) PROVE LockInv'
  BY <1>5, AddChunkedReqStep
<1>6. ASSUME NEW r \in Reqs, PrefillResult(r) PROVE LockInv'
  BY <1>6, PrefillResultStep
<1>7. ASSUME NEW r \in Reqs, DecodeResult(r) PROVE LockInv'
  BY <1>7, DecodeResultStep
<1>8. ASSUME NEW r \in Reqs, DecodeLaunch(r) PROVE LockInv'
  BY <1>8, DecodeLaunchStep
<1>9. ASSUME NEW r \in Reqs, ReleaseReq(r) PROVE LockInv'
  BY <1>9, ReleaseReqStep
<1>10. ASSUME NEW r \in Reqs, AbortWaiting(r) PROVE LockInv'
  BY <1>10, AbortStep
<1>11. CASE CheckDecodeMem
  BY <1>11, CheckDecodeMemStep
<1>12. CASE FlushCache
  BY <1>12, FlushCacheStep
<1>13. CASE UNCHANGED vars
  BY <1>13 DEF vars, LockInv, Holders, Holding
<1> QED
  BY <1>1, <1>2, <1>3, <1>4, <1>5, <1>6, <1>7, <1>8, <1>9, <1>10,
     <1>11, <1>12, <1>13 DEF Next

(* The lock counts of the radix tree are exact at all times: however       *)
(* match_prefix, insert and evict reshape the tree between a request's     *)
(* inc_lock_ref and its dec_lock_ref, the two walks cancel out.            *)
THEOREM LockCountsExact == Spec => []LockCounts
<1>1. LockInv => LockCounts
  BY DEF LockInv, LockedBy, LockCounts, Holders
<1> QED
  BY <1>1, LockInvInit, LockInvNext, PTL DEF Spec

(* evict() never takes a node, or an ancestor of a node, that a request    *)
(* holds as last_node.                                                     *)
THEOREM HeldNodesSurvive == Spec => []LastNodeAlive
<1>1. LockInv => LastNodeAlive
  BY DEF LockInv, LockedBy, LastNodeAlive, Holders
<1> QED
  BY <1>1, LockInvInit, LockInvNext, PTL DEF Spec
=============================================================================
