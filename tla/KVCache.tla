------------------------------- MODULE KVCache -------------------------------
(***************************************************************************)
(* The life of a request's KV memory in one scheduler process: the radix   *)
(* cache (RadixTree), the page allocator (mem_cache/allocator.py), the     *)
(* request's row of req_to_token (mem_cache/common.py) and the handlers    *)
(* of the scheduler that move them (schedule_batch.py, schedule_policy.py, *)
(* scheduler_output_processor_mixin.py).                                   *)
(*                                                                         *)
(* Memory is modelled page by page.  A request's row kv lists its pages;   *)
(* a slice [a:b] of the row is the set of pages that it touches, because   *)
(* the allocator frees unique(index // page_size).  Which requests are     *)
(* chosen, and how the budget of PrefillAdder is computed, is left open:   *)
(* any request may be admitted that fits.                                  *)
(***************************************************************************)
EXTENDS RadixTree

CONSTANTS Page,                  \* the pages of the KV pool
          Reqs,                  \* request slots
          Prompts,               \* the prompts that may arrive
          MaxNewTokens,          \* sampling_params.max_new_tokens
          Overlap,               \* event_loop_overlap or event_loop_normal
          DisableFinishedInsert, \* RadixCache.disable_finished_insert
          StripThinking,         \* server_args.strip_thinking_cache
          RetractDecodeSteps     \* SGLANG_RETRACT_DECODE_STEPS

ASSUME KVCacheAssumption ==
    /\ IsFiniteSet(Page)
    /\ IsFiniteSet(Reqs)
    /\ Prompts \subseteq Seq(Token) \ {<< >>}
    /\ MaxNewTokens \in Nat \ {0}
    /\ RetractDecodeSteps \in Nat
    /\ {Overlap, DisableFinishedInsert, StripThinking} \subseteq BOOLEAN

VARIABLES tree,  \* tree_cache
          free,  \* free_pages of the allocator: how often each page is listed
          data,  \* the KV pool: the tokens whose KV a page was last given
          req    \* the requests
vars == <<tree, free, data, req>>

\* A Req that the scheduler does not know (not yet arrived, or gone).
NoReq ==
    [state |-> "none",      \* none, waiting, admitted, chunked or running
     tokens |-> << >>,      \* origin_input_ids + output_ids
     origin |-> 0,          \* len(origin_input_ids)
     future |-> << >>,      \* sampled on the device, result not yet processed
     cached |-> FALSE,      \* the prefill result has been processed
     fill |-> 0,            \* len(fill_ids)
     prefix |-> 0,          \* len(prefix_indices)
     committed |-> 0,       \* kv_committed_len = kv_allocated_len
     protected |-> 0,       \* cache_protected_len
     last_node |-> Root,
     kv |-> << >>]          \* row of req_to_token, in pages

Least(m, n) == IF m <= n THEN m ELSE n
Holding == {r \in Reqs : req[r].state \in {"admitted", "chunked", "running"}}

-----------------------------------------------------------------------------
(* The allocator.  Appending to free_pages / taking its first entries.     *)
available_size(f) == PageSize * Cardinality(UNION {{p} \X (1 .. f[p]) : p \in Page})
Freed(f, S) == [p \in Page |-> IF p \in S THEN f[p] + 1 ELSE f[p]]
Allocated(f, S) == [p \in Page |-> IF p \in S THEN f[p] - 1 ELSE f[p]]

\* What alloc of n pages can return: n different entries of the free list.
Allocations(f, n) ==
    {s \in [1 .. n -> {p \in Page : f[p] > 0}] :
        \A i, j \in 1 .. n : s[i] = s[j] => i = j}

\* The KV of a page that has been given back is no longer looked at.
Dropped(d, S) == [p \in Page |-> IF p \in S THEN << >> ELSE d[p]]

\* evict_from_tree_cache: evict only when the free list is too short.
EvictFromTreeCache(T, f, num_tokens) ==
    Evictions(T, IF available_size(f) < num_tokens THEN num_tokens ELSE 0)

\* req_to_token[a:b], as the pages it touches.
Slice(q, a, b) == {q.kv[i \div PageSize + 1] : i \in a .. b - 1}

\* The forward pass writes the KV of tokens[a:b] to the pages of row.
Written(d, row, tokens, a, b) ==
    [p \in Page |->
        LET W == {i \in a \div PageSize + 1 .. Ceil(b) \div PageSize : row[i] = p}
        IN IF W = {} THEN d[p]
           ELSE Take(tokens, Least(b, PageSize * CHOOSE i \in W : TRUE))]

-----------------------------------------------------------------------------
(* cache_unfinished_req(): the KV of fill_ids goes into the tree; where    *)
(* the tree already had a prefix x, the request's own copy is freed and    *)
(* its row points to the tree's pages.  The match that follows the insert  *)
(* ends on the key just inserted, whose lock replaces the old one.         *)
UnfinishedKey(q) == page_aligned(Take(q.tokens, q.fill))
UnfinishedTree(T, q, x) ==
    LET key == UnfinishedKey(q) IN
    inc_lock_ref(dec_lock_ref(Insert(T, x, key, q.kv), q.last_node), key)
UnfinishedFreed(q, x) == Slice(q, q.protected, Len(x))

\* Mutant: the row keeps the request's own copy, which has been freed.
UnfinishedReq_stale_row(T, q, x) ==
    LET key == UnfinishedKey(q) IN
    [q EXCEPT !.protected = Len(key), !.prefix = q.fill, !.last_node = key]

UnfinishedReq(T, q, x) ==
    LET key == UnfinishedKey(q)
        new_indices == Insert(T, x, key, q.kv).value
    IN [q EXCEPT
          !.kv = [i \in 1 .. Len(q.kv) |->
                    IF PageSize * i \in q.protected + 1 .. Len(key)
                    THEN new_indices[Take(key, PageSize * i)] ELSE @[i]],
          !.protected = Len(key),
          !.prefix = q.fill,
          !.last_node = key]

(* release_kv_cache(): cache_finished_req() on the committed part of the   *)
(* row, then the over-allocated rest is freed.                             *)
cache_commit_len(q) ==
    IF StripThinking /\ Len(q.tokens) > q.origin THEN Least(q.committed, q.origin)
    ELSE q.committed
FinishedIds(q) == Take(q.tokens, Least(cache_commit_len(q), Len(q.tokens)))
FinishedKey(q) == page_aligned(FinishedIds(q))

\* The matched length that decides what is a duplicate: without an insert
\* all of the key is given back.
ReleaseMatches(T, q, is_insert) ==
    IF is_insert THEN LongestMatch(T, FinishedKey(q)) ELSE {FinishedKey(q)}
ReleasedTree(T, q, x, is_insert) ==
    dec_lock_ref(IF is_insert THEN Insert(T, x, FinishedKey(q), q.kv) ELSE T,
                 q.last_node)

\* Mutants: the shared prefix is freed too; the unaligned tail is forgotten.
Duplicates_shared(q, x) == Slice(q, 0, Len(x))
UnalignedTail_kept(q) == {}

\* The three frees: duplicates, unaligned tail, over-allocation.
Duplicates(q, x) == Slice(q, q.protected, Len(x))
UnalignedTail(q) == Slice(q, Len(FinishedKey(q)), Len(FinishedIds(q)))
Overallocated(q) == Slice(q, Ceil(cache_commit_len(q)), q.committed)
ReleasedPages(q, x) == Duplicates(q, x) \cup UnalignedTail(q) \cup Overallocated(q)
ReleasedFree(f, q, x) ==
    Freed(Freed(Freed(f, Duplicates(q, x)), UnalignedTail(q)), Overallocated(q))

-----------------------------------------------------------------------------
Init ==
    /\ tree = EmptyTree
    /\ free = [p \in Page |-> 1]
    /\ data = [p \in Page |-> << >>]
    /\ req = [r \in Reqs |-> NoReq]

\* handle_generate_request: a new request joins the waiting queue.
Arrive(r) ==
    /\ req[r].state = "none"
    /\ \E prompt \in Prompts :
        req' = [req EXCEPT ![r] = [NoReq EXCEPT !.state = "waiting",
                                                !.tokens = prompt,
                                                !.origin = Len(prompt)]]
    /\ UNCHANGED <<tree, free, data>>

\* init_next_round_input matches all but the last token.
MatchKey(q) == page_aligned(Take(q.tokens, Len(q.tokens) - 1))

\* calc_priority, or an admission that does not succeed: the match of a
\* waiting request may split a node, and takes no lock.
MatchPrefix(r) ==
    /\ req[r].state = "waiting"
    /\ \E x \in LongestMatch(tree, MatchKey(req[r])) : tree' = Split(tree, x)
    /\ UNCHANGED <<free, data, req>>

PagesNeeded(q) == (Ceil(q.fill) - Ceil(q.prefix)) \div PageSize
IsChunked(q) ==
    q.state = "chunked" \/ (q.state = "admitted" /\ q.fill < Len(q.tokens))

\* Pages that the admitted requests of the batch being formed still need.
Reserved(rq) ==
    PageSize * Cardinality(UNION {{r} \X (1 .. PagesNeeded(rq[r])) :
                                    r \in {s \in Reqs : rq[s].state = "admitted"}})

\* The request with its matched prefix x, and the first fill tokens to run.
Admitted(T, q, x, fill) ==
    [q EXCEPT !.state = "admitted", !.fill = fill,
              !.prefix = Len(x), !.protected = Len(x), !.last_node = x,
              !.kv = [i \in 1 .. Len(x) \div PageSize |-> T.value[Take(x, PageSize * i)]]]

(* PrefillAdder.add_one_req: match, lock the matched node, admit.  Only    *)
(* one request at a time may be cut to a chunk, at a page boundary.        *)
AddOneReq(r) ==
    /\ req[r].state = "waiting"
    /\ \E x \in LongestMatch(tree, MatchKey(req[r])) :
       \E fill \in Len(x) + 1 .. Len(req[r].tokens) :
        /\ req' = [req EXCEPT ![r] = Admitted(tree, req[r], x, fill)]
        /\ IsChunked(req'[r]) => fill = Floor(fill) /\ \A s \in Reqs : ~IsChunked(req[s])
        /\ tree' = inc_lock_ref(Split(tree, x), x)
        /\ Reserved(req') <= available_size(free) + tree'.evictable_size
    /\ UNCHANGED <<free, data>>

(* alloc_for_extend and the forward pass: the pages beyond the prefix are  *)
(* allocated, after an eviction if the free list is short, and written.    *)
(* The last chunk samples a token.                                         *)
ExtendTokens(q) == q.fill - q.prefix + (IF PageSize = 1 THEN 0 ELSE PageSize)
Extended(q, new, t) ==
    [q EXCEPT !.state = IF IsChunked(q) THEN "chunked" ELSE "running",
              !.kv = @ \o new,
              !.committed = q.fill,
              !.future = IF IsChunked(q) THEN << >> ELSE <<t>>]
Extend(r) ==
    /\ req[r].state = "admitted"
    /\ LET q == req[r] IN
          \E E \in EvictFromTreeCache(tree, free, ExtendTokens(q)) :
          LET f == Freed(free, EvictedPages(tree, E)) IN
          \E new \in Allocations(f, PagesNeeded(q)) :
          \E t \in Token :
            /\ tree' = DeleteLeaves(tree, E)
            /\ free' = Allocated(f, {new[i] : i \in DOMAIN new})
            /\ data' = Written(Dropped(data, EvictedPages(tree, E)),
                               q.kv \o new, q.tokens, q.prefix, q.fill)
            /\ req' = [req EXCEPT ![r] = Extended(q, new, t)]

(* get_next_batch_to_run: stash_chunked_request caches the chunk that has  *)
(* been launched, then add_chunked_req plans the next one.                 *)
AddChunkedReq(r) ==
    /\ req[r].state = "chunked"
    /\ \E x \in LongestMatch(tree, UnfinishedKey(req[r])) :
       \E fill \in req[r].fill + 1 .. Len(req[r].tokens) :
        /\ tree' = UnfinishedTree(tree, req[r], x)
        /\ free' = Freed(free, UnfinishedFreed(req[r], x))
        /\ data' = Dropped(data, UnfinishedFreed(req[r], x))
        /\ req' = [req EXCEPT ![r] =
              [UnfinishedReq(tree, req[r], x) EXCEPT !.state = "admitted",
                                                     !.fill = fill]]
        /\ Reserved(req') <= available_size(free') + tree'.evictable_size

\* The result of a forward pass that is processed next: one more output token.
Accept(q) == [q EXCEPT !.tokens = Append(@, Head(q.future)), !.future = Tail(@)]

\* check_finished: max_new_tokens ends a request; a stop token, a stop string
\* or an abort (to_finish) may end it at any result.
MustFinish(q) == Len(q.tokens) - q.origin >= MaxNewTokens

\* release_kv_cache of a finished request.
Finish(r, q) ==
    LET is_insert == ~DisableFinishedInsert IN
    \E x \in ReleaseMatches(tree, q, is_insert) :
        /\ tree' = ReleasedTree(tree, q, x, is_insert)
        /\ free' = ReleasedFree(free, q, x)
        /\ data' = Dropped(data, ReleasedPages(q, x))
        /\ req' = [req EXCEPT ![r] = NoReq]

(* process_batch_result_prefill: the token is appended; the request is     *)
(* released when it finished and cached with its prompt otherwise.         *)
PrefillResult(r) ==
    /\ req[r].state = "running" /\ ~req[r].cached
    /\ LET q == Accept(req[r]) IN
       \/ Finish(r, q)
       \/ /\ ~MustFinish(q)
          /\ \E x \in LongestMatch(tree, UnfinishedKey(q)) :
              /\ tree' = UnfinishedTree(tree, q, x)
              /\ free' = Freed(free, UnfinishedFreed(q, x))
              /\ data' = Dropped(data, UnfinishedFreed(q, x))
              /\ req' = [req EXCEPT ![r] = [UnfinishedReq(tree, q, x) EXCEPT !.cached = TRUE]]

\* process_batch_result_decode.
DecodeResult(r) ==
    /\ req[r].state = "running" /\ req[r].cached /\ req[r].future # << >>
    /\ LET q == Accept(req[r]) IN
       \/ Finish(r, q)
       \/ /\ ~MustFinish(q)
          /\ req' = [req EXCEPT ![r] = q]
          /\ UNCHANGED <<tree, free, data>>

\* Results that may be outstanding when the scheduler acts: the overlap
\* loop processes a result after it has launched the next batch.
Lag == IF Overlap THEN 1 ELSE 0

(* prepare_for_decode, alloc_for_decode and the forward pass: KV of the    *)
(* last token is written, the next token sampled.                          *)
Launched(q, new, t) ==
    [q EXCEPT !.kv = @ \o new, !.committed = @ + 1, !.future = Append(@, t)]
DecodeLaunch(r) ==
    /\ req[r].state = "running" /\ Len(req[r].future) <= Lag
    /\ LET q == req[r] IN
       \E E \in EvictFromTreeCache(tree, free, PageSize) :
       LET f == Freed(free, EvictedPages(tree, E)) IN
       \E new \in Allocations(f, IF q.committed % PageSize = 0 THEN 1 ELSE 0) :
       \E t \in Token :
        /\ tree' = DeleteLeaves(tree, E)
        /\ free' = Allocated(f, {new[i] : i \in DOMAIN new})
        /\ data' = Written(Dropped(data, EvictedPages(tree, E)), q.kv \o new,
                           q.tokens \o q.future, q.committed, q.committed + 1)
        /\ req' = [req EXCEPT ![r] = Launched(q, new, t)]

\* check_decode_mem: room is made before a decode batch is formed.
CheckDecodeMem ==
    /\ \E n \in 1 .. Cardinality({r \in Reqs : req[r].state = "running"}) :
       \E E \in EvictFromTreeCache(tree, free, PageSize * n) :
        /\ tree' = DeleteLeaves(tree, E)
        /\ free' = Freed(free, EvictedPages(tree, E))
        /\ data' = Dropped(data, EvictedPages(tree, E))
    /\ UNCHANGED req

(* release_req (retract_decode, retract_all, preempt_to_schedule): the     *)
(* pages are given back without an insert, room is made for the requests   *)
(* that stay, and the request waits again with the tokens it has.  A       *)
(* result that is still outstanding will be skipped.  The last request of  *)
(* a batch that does not fit is dropped instead (reqs_to_abort).           *)
Requeued(q) ==
    [NoReq EXCEPT !.state = "waiting", !.tokens = q.tokens, !.origin = q.origin]
ReleaseReq(r) ==
    /\ req[r].state \in {"chunked", "running"} /\ Len(req[r].future) <= Lag
    /\ \E remaining \in 0 .. Cardinality({s \in Reqs \ {r} : req[s].state = "running"}) :
       \E x \in ReleaseMatches(tree, req[r], FALSE) :
       LET T == ReleasedTree(tree, req[r], x, FALSE)
           f == ReleasedFree(free, req[r], x)
       IN \E E \in EvictFromTreeCache(T, f, remaining * RetractDecodeSteps) :
            /\ tree' = DeleteLeaves(T, E)
            /\ free' = Freed(f, EvictedPages(T, E))
            /\ data' = Dropped(data, ReleasedPages(req[r], x) \cup EvictedPages(T, E))
    /\ \E q \in {Requeued(req[r]), NoReq} : req' = [req EXCEPT ![r] = q]

\* abort_request and the waiting timeout take a request off the queue.
AbortWaiting(r) ==
    /\ req[r].state = "waiting"
    /\ req' = [req EXCEPT ![r] = NoReq]
    /\ UNCHANGED <<tree, free, data>>

\* flush_cache, only when is_fully_idle.
FlushCache ==
    /\ \A r \in Reqs : req[r].state = "none"
    /\ tree' = EmptyTree
    /\ free' = [p \in Page |-> 1]
    /\ data' = [p \in Page |-> << >>]
    /\ UNCHANGED req

Next ==
    \/ \E r \in Reqs :
        \/ Arrive(r) \/ MatchPrefix(r) \/ AddOneReq(r) \/ Extend(r)
        \/ AddChunkedReq(r) \/ PrefillResult(r) \/ DecodeResult(r)
        \/ DecodeLaunch(r) \/ ReleaseReq(r) \/ AbortWaiting(r)
    \/ CheckDecodeMem
    \/ FlushCache
Spec == Init /\ [][Next]_vars

-----------------------------------------------------------------------------
(* Type correctness of a request.                                          *)
ReqOK(q) ==
    /\ DOMAIN q = DOMAIN NoReq
    /\ q.state \in {"none", "waiting", "admitted", "chunked", "running"}
    /\ q.tokens \in Seq(Token) /\ q.future \in Seq(Token) /\ q.last_node \in Seq(Token)
    /\ q.origin \in Nat /\ q.fill \in Nat /\ q.prefix \in Nat
    /\ q.committed \in Nat /\ q.protected \in Nat /\ q.cached \in BOOLEAN

\* The places of a row whose page the tree does not own.
Private(q) == {i \in 1 .. Len(q.kv) : PageSize * i > q.protected}

(* Every page is in exactly one place: once in the free list, or held by   *)
(* one tree position, or held by one request beyond its                    *)
(* cache_protected_len.  No leak and no double free along insert with      *)
(* duplicates, chunks, retraction and eviction.                            *)
OneOwner ==
    \A p \in Page :
        free[p] + Cardinality({x \in Cached(tree) : tree.value[x] = p})
                + Cardinality({h \in {<<r, i>> : r \in Holding, i \in 1 .. Cardinality(Page)} :
                                  h[2] \in Private(req[h[1]]) /\ req[h[1]].kv[h[2]] = p}) = 1

(* A node's lock_ref counts exactly the requests whose last_node lies at   *)
(* or below it: inc and dec walk the same ancestors although splits and    *)
(* inserts have changed the path between the two.                          *)
LockCounts ==
    \A p \in tree.nodes \ {Root} :
        tree.lock_ref[p] = Cardinality({r \in Holding : p \preceq req[r].last_node})

(* No request holds a node that has been evicted.                          *)
LastNodeAlive == \A r \in Holding : req[r].last_node \in tree.nodes

(* The protected part of a row is the tree's: last_node spells the first   *)
(* cache_protected_len tokens, and the row lists the pages of its path.    *)
ProtectedPrefix ==
    \A r \in Holding :
        LET q == req[r] IN
        /\ q.last_node = Take(q.tokens, q.protected)
        /\ \A i \in 1 .. q.protected \div PageSize :
              q.kv[i] = tree.value[Take(q.tokens, PageSize * i)]

(* evictable_size_ and protected_size_ are the lengths of the unlocked and *)
(* of the locked segments, although they are only ever adjusted by         *)
(* differences.                                                            *)
SizesExact ==
    /\ tree.evictable_size = KeyLen(tree, {p \in tree.nodes \ {Root} : tree.lock_ref[p] = 0})
    /\ tree.protected_size = KeyLen(tree, {p \in tree.nodes \ {Root} : tree.lock_ref[p] > 0})

(* An eviction that asks for everything frees exactly evictable_size_      *)
(* tokens: what PrefillAdder budgets with can really be had, which needs   *)
(* evictable_leaves to be exact and no lock below an unlocked node.        *)
EvictableReachable ==
    \A E \in Evictions(tree, PageSize * Cardinality(Page) + 1) :
        KeyLen(tree, E) = tree.evictable_size

(* A cached page holds the KV of the prefix it is filed under, and a       *)
(* request's row, page by page, the KV of the request's own tokens.        *)
KVIntact ==
    /\ \A x \in Cached(tree) : data[tree.value[x]] = x
    /\ \A r \in Holding : \A i \in 1 .. Len(req[r].kv) :
         LET q == req[r]
             written == IF i \in Private(q) THEN Least(PageSize * i, q.committed)
                                            ELSE PageSize * i
         IN data[q.kv[i]] = Take(q.tokens \o q.future, written)

(* _check_pool_invariant of the runtime checker: available + evictable +   *)
(* protected + uncached = total.                                           *)
UncachedSize ==
    PageSize * Cardinality({h \in {<<r, i>> : r \in Holding, i \in 1 .. Cardinality(Page)} :
                                h[2] \in Private(req[h[1]])})
PoolBalance ==
    available_size(free) + tree.evictable_size + tree.protected_size + UncachedSize
        = PageSize * Cardinality(Page)

(* The inductive invariant behind LockCounts and LastNodeAlive: the tree   *)
(* is well formed, its locks are those of the requests that hold memory,   *)
(* and a request that is about to be matched or cached has the tokens.     *)
Holders == [r \in Holding |-> req[r].last_node]
Coherent(q) ==
    /\ q.state # "none" => q.tokens # << >>
    /\ q.state \in {"admitted", "chunked", "running"} => q.fill <= Len(q.tokens)
    /\ q.state = "running" /\ ~q.cached => q.future # << >>
LockInv ==
    /\ Shape(tree) /\ LockedBy(tree, Holders)
    /\ DOMAIN req = Reqs
    /\ \A r \in Reqs : ReqOK(req[r]) /\ Coherent(req[r])
=============================================================================
