--------------------------- MODULE KVCacheSharing ---------------------------
(***************************************************************************)
(* KVCache implements PageSharing: the tree's pages are the cached ones, a *)
(* request reads the pages of its row up to cache_protected_len and owns   *)
(* those beyond.                                                           *)
(***************************************************************************)
EXTENDS KVCache

Row(r, I) == {req[r].kv[i] : i \in I}
Sharing == INSTANCE PageSharing WITH
    cached <- {tree.value[x] : x \in Cached(tree)},
    own <- [r \in Reqs |-> Row(r, Private(req[r]))],
    shared <- [r \in Reqs |-> Row(r, 1 .. Len(req[r].kv) \ Private(req[r]))],
    content <- data

\* Whatever the scheduler does to one request (cache_unfinished_req, retraction, eviction
\* for it), the pages another one reads stay in the cache with their KV, the pages another
\* one writes stay its own, and only a request's own pages ever enter the cache.
SharesPages == Sharing!Spec
=============================================================================
