------------------------------- MODULE HiCache -------------------------------
(***************************************************************************)
(* The hierarchical cache: mem_cache/hiradix_cache.py and                  *)
(* managers/cache_controller.py with the write_through policy.  A node of  *)
(* the radix tree has its KV on the device, on the host, or on both; host  *)
(* pages are copied to a storage backend and prefetched from it.           *)
(*                                                                         *)
(* The scheduler thread runs the actions of the tree.  Beside it run the   *)
(* write stream and the load stream of the GPU, the backup thread, and the *)
(* prefetch thread with its IO thread; the thread hears of them through    *)
(* acknowledgements and queues that check_hicache_events drains.           *)
(*                                                                         *)
(* A node is its path, as in RadixTree; a block of the path is a page, and *)
(* dev and host give the page of a path's last block.  The tail of a       *)
(* request that fills no page is left out.  One rank.                      *)
(***************************************************************************)
EXTENDS Integers, FiniteSets, SequencesExt

CONSTANTS Block,              \* the tokens of a page
          Keys,               \* the page-aligned keys of requests
          DevPages, HostPages,
          Reqs,               \* request slots
          Stored,             \* what the storage backend holds at the start
          LoadBackThreshold,  \* load_back_threshold, in pages
          PrefetchThreshold,  \* prefetch_threshold, in pages
          PrefetchLimit       \* prefetch_capacity_limit, in pages

ASSUME HiCacheAssumption ==
    /\ Keys \subseteq Seq(Block) \ {<<>>} /\ Stored \subseteq Seq(Block) \ {<<>>}
    /\ {LoadBackThreshold, PrefetchThreshold} \subseteq Nat \ {0} /\ PrefetchLimit \in Nat

VARIABLES tree,     \* the radix tree
          dfree,    \* mem_pool_device_allocator: how often a page is on its free list
          hfree,    \* mem_pool_host.free_slots, likewise
          ddata,    \* what a device page holds: the path of a block
          hdata,    \* what a host page holds
          writes,   \* copies to the host, in flight, in order
          loads,    \* copies to the device, in flight, in order
          acks,     \* ack_write_queue and ack_load_queue: the nodes of finished copies
          backups,  \* backup_queue
          backed,   \* ack_backup_queue: nodes
          stored,   \* the storage backend: a path and what was stored for it
          release,  \* host_mem_release_queue: how often a page is in it
          occupied, \* prefetch_tokens_occupied
          io,       \* the IO thread: alive, or ended by an exception
          pf,       \* the prefetch operation of a request slot
          req,      \* requests
          walk      \* the request whose insert() is under way, and how far it is
vars == <<tree, dfree, hfree, ddata, hdata, writes, loads, acks, backups, backed, stored,
          release, occupied, io, pf, req, walk>>
dataVars == <<ddata, hdata>>
streamVars == <<writes, loads, acks>>
storageVars == <<backups, backed, stored>>
prefetchVars == <<release, occupied, io, pf>>

Paths == UNION {{SubSeq(k, 1, n) : n \in 0 .. Len(k)} : k \in Keys \cup Stored}
Root == <<>>
NoPage == "no page"

s \preceq t == Len(s) <= Len(t) /\ \A i \in 1 .. Len(s) : s[i] = t[i]
s \prec t == s \preceq t /\ s # t
Take(s, n) == SubSeq(s, 1, n)

-----------------------------------------------------------------------------
(* The tree                                                                 *)

evicted(T, n) == n # Root /\ T.dev[n] = NoPage
backuped(T, n) == n = Root \/ T.host[n] # NoPage

Below(T, n) == {q \in T.nodes : n \prec q}
Parent(T, n) == CHOOSE p \in T.nodes : p \prec n /\ \A q \in T.nodes : q \prec n => q \preceq p
Children(T, n) == {q \in T.nodes \ {Root} : Parent(T, q) = n}

\* The paths that end in the key of node n; the number of pages of the nodes S.
Segment(T, n) == {Take(n, i) : i \in Len(Parent(T, n)) + 1 .. Len(n)}
KeyLen(T, S) == Cardinality(UNION {Segment(T, n) : n \in S})

\* The way from node n up to the root, which is excluded.
Way(T, n) == {p \in T.nodes \ {Root} : p \preceq n}

\* _update_leaf_status of the nodes of V: on the device, not locked, and no child
\* on the device.
UpdateLeafStatus(T, V) ==
    LET out == {n \in V : evicted(T, n) \/ T.lock[n] > 0
                          \/ \E c \in Children(T, n) : ~evicted(T, c)}
    IN  [T EXCEPT !.leaves = (@ \ out) \cup (V \ out)]

\* _update_host_leaf_status of the nodes of V.  The first form overlooks children.
HostLeafChildless(T, V) ==
    LET out == {n \in V : ~evicted(T, n) \/ T.lock[n] > 0}
    IN  [T EXCEPT !.hleaves = (@ \ out) \cup (V \ out)]

UpdateHostLeafStatus(T, V) ==
    LET out == {n \in V : ~evicted(T, n) \/ T.lock[n] > 0
                          \/ \E c \in Children(T, n) : backuped(T, c)}
    IN  [T EXCEPT !.hleaves = (@ \ out) \cup (V \ out)]

\* reset()
EmptyTree ==
    [nodes |-> {Root}, lock |-> [p \in Paths |-> IF p = Root THEN 1 ELSE 0],
     href |-> [p \in Paths |-> 0], dev |-> [p \in Paths |-> NoPage],
     host |-> [p \in Paths |-> NoPage], leaves |-> {}, hleaves |-> {}, esize |-> 0]

\* inc_lock_ref and dec_lock_ref of the nodes of a sequence: by is added to every node on
\* the way to the root; a node that becomes locked or unlocked moves between the sizes.
Relock(T, seq, by) ==
    LET nodes == {p \in T.nodes \ {Root} : \E i \in DOMAIN seq : p \preceq seq[i]}
        times(p) == Cardinality({i \in DOMAIN seq : p \preceq seq[i]})
        new == [p \in Paths |-> IF p \in nodes THEN T.lock[p] + by * times(p) ELSE T.lock[p]]
        U == [T EXCEPT !.lock = new,
                       !.esize = @ + KeyLen(T, {p \in nodes : T.lock[p] > 0 /\ new[p] = 0})
                                   - KeyLen(T, {p \in nodes : T.lock[p] = 0 /\ new[p] > 0})]
    IN  UpdateHostLeafStatus(UpdateLeafStatus(U, nodes), nodes)
inc_lock_ref(T, n) == Relock(T, <<n>>, 1)
dec_lock_ref(T, n) == Relock(T, <<n>>, -1)

\* The longest part of a key that is in the tree, and the node whose key it ends in.
Match(T, key) ==
    CHOOSE x \in {Take(key, i) : i \in 0 .. Len(key)} :
        /\ \E n \in T.nodes : x \preceq n
        /\ \A i \in Len(x) + 1 .. Len(key) : ~\E n \in T.nodes : Take(key, i) \preceq n
Owner(T, x) == CHOOSE n \in T.nodes : x \preceq n /\ \A q \in T.nodes : x \preceq q => n \preceq q

\* _split_node.  The upper node gets the lock count, but not host_ref_counter.
SplitNode(T, x) ==
    IF x \in T.nodes THEN T
    ELSE [T EXCEPT !.nodes = @ \cup {x}, !.lock[x] = T.lock[Owner(T, x)]]

\* The first node from x upwards on the device, and the first one on the host.
DeviceNode(T, x) == CHOOSE n \in Way(T, x) \cup {Root} :
    ~evicted(T, n) /\ \A m \in Way(T, x) : n \prec m => evicted(T, m)
HostNode(T, x) == CHOOSE n \in Way(T, x) \cup {Root} :
    backuped(T, n) /\ \A m \in Way(T, x) : n \prec m => ~backuped(T, m)

-----------------------------------------------------------------------------
(* Pages and eviction                                                       *)

Freed(f, S) == [p \in DOMAIN f |-> IF p \in S THEN f[p] + 1 ELSE f[p]]
Taken(f, S) == [p \in DOMAIN f |-> IF p \in S THEN f[p] - 1 ELSE f[p]]
Available(f) == Cardinality({p \in DOMAIN f : f[p] > 0})
Allocations(f, n) == {s \in [1 .. n -> {p \in DOMAIN f : f[p] > 0}] :
                        \A i, j \in 1 .. n : s[i] = s[j] => i = j}

\* The nodes a heap loop takes until it has num pages or finds the heap empty, in
\* any order of priority: C are the nodes that get into the heap once the nodes
\* that under gives for them have been taken.
HeapLoop(T, C, under, num) ==
    {E \in SUBSET C :
        /\ \A n \in E : under[n] \subseteq E
        /\ \/ /\ KeyLen(T, E) >= num
              /\ \E last \in E : /\ \A n \in E : last \notin under[n]
                                 /\ KeyLen(T, E \ {last}) < num
           \/ /\ KeyLen(T, E) < num
              /\ \A n \in C \ E : ~(under[n] \subseteq E)}

\* evict(): leaves of the device first, a parent after its last child.  A node
\* that is not on the host must have no children (the assertion of
\* _evict_regular ends the process otherwise, and there is no step).
DeviceEvictions(T, num) ==
    LET below == [n \in T.nodes |-> {q \in Below(T, n) : ~evicted(T, q)}]
        C == {n \in T.nodes \ {Root} : /\ ~evicted(T, n) /\ T.lock[n] = 0
                                       /\ below[n] = {} => n \in T.leaves}
    IN  {E \in HeapLoop(T, C, below, num) :
            \A n \in E : backuped(T, n) \/ Below(T, n) \subseteq {q \in E : ~backuped(T, q)}}

\* _evict_backuped and _evict_regular of the nodes of E.
Evict(T, E) ==
    LET gone == {n \in E : ~backuped(T, n)}
        paths == UNION {Segment(T, n) : n \in E}
        U == [T EXCEPT !.nodes = @ \ gone, !.leaves = @ \ gone,
                       !.dev = [p \in Paths |-> IF p \in paths THEN NoPage ELSE @[p]],
                       !.esize = @ - KeyLen(T, E)]
    IN  UpdateHostLeafStatus(
            UpdateLeafStatus(U, (E \cup {Parent(T, n) : n \in E}) \ (gone \cup {Root})),
            E \ gone)
DevicePages(T, E) == {T.dev[x] : x \in UNION {Segment(T, n) : n \in E}}

\* evict_host(): nodes that are only on the host and that no storage operation
\* refers to.  The first form ignores host_ref_counter.
HostEvictionsUnprotected(T, num) ==
    LET C == {n \in T.nodes : evicted(T, n) /\ (Below(T, n) = {} => n \in T.hleaves)}
        below == [n \in T.nodes |-> Below(T, n)]
    IN  HeapLoop(T, C, below, num)

HostEvictions(T, num) ==
    LET C == {n \in T.nodes : /\ evicted(T, n) /\ T.href[n] = 0
                              /\ Below(T, n) = {} => n \in T.hleaves}
        below == [n \in T.nodes |-> Below(T, n)]
    IN  HeapLoop(T, C, below, num)

EvictHost(T, E) ==
    LET paths == UNION {Segment(T, n) : n \in E}
        U == [T EXCEPT !.nodes = @ \ E, !.hleaves = @ \ E,
                       !.host = [p \in Paths |-> IF p \in paths THEN NoPage ELSE @[p]]]
    IN  UpdateHostLeafStatus(U, {Parent(T, n) : n \in E} \ (E \cup {Root}))
HostPagesOf(T, E) == {T.host[x] : x \in UNION {Segment(T, n) : n \in E}}

-----------------------------------------------------------------------------
(* The streams and threads beside the scheduler                             *)

NoReq == [pc |-> "none", key |-> Root, node |-> Root, own |-> <<>>]
NoPf == [pc |-> "none", ongoing |-> FALSE, revoked |-> FALSE, stop |-> FALSE,
         anchor |-> Root, path |-> Root, pages |-> <<>>, len |-> 0,
         want |-> 0, completed |-> 0]
NoWalk == [req |-> "none", at |-> Root, matched |-> 0]

Init ==
    /\ tree = EmptyTree
    /\ dfree = [p \in DevPages |-> 1] /\ hfree = [p \in HostPages |-> 1]
    /\ ddata = [p \in DevPages |-> Root] /\ hdata = [p \in HostPages |-> Root]
    /\ writes = <<>> /\ loads = <<>> /\ acks = <<>>
    /\ backups = <<>> /\ backed = <<>> /\ stored = {<<p, p>> : p \in Stored}
    /\ release = [p \in HostPages |-> 0] /\ occupied = 0 /\ io = "alive"
    /\ pf = [r \in Reqs |-> NoPf] /\ req = [r \in Reqs |-> NoReq] /\ walk = NoWalk

\* The next copy of a stream is finished.  A copy lists pairs of pages, from and to.
Copied(to, from, pairs) ==
    [p \in DOMAIN to |-> IF \E c \in pairs : c[2] = p
                         THEN from[(CHOOSE c \in pairs : c[2] = p)[1]] ELSE to[p]]
WriteDone ==
    /\ writes # <<>> /\ writes' = Tail(writes)
    /\ hdata' = Copied(hdata, ddata, Head(writes).pairs)
    /\ acks' = Append(acks, [node |-> Head(writes).node, kind |-> "write"])
    /\ UNCHANGED <<tree, dfree, hfree, ddata, loads, storageVars, prefetchVars, req, walk>>
LoadDone ==
    /\ loads # <<>> /\ loads' = Tail(loads)
    /\ ddata' = Copied(ddata, hdata, Head(loads).pairs)
    /\ acks' = Append(acks, [node |-> Head(loads).node, kind |-> "load"])
    /\ UNCHANGED <<tree, dfree, hfree, hdata, writes, storageVars, prefetchVars, req, walk>>

\* backup_thread_func: the pages of an operation are stored, or that fails.
Backup ==
    /\ backups # <<>> /\ backups' = Tail(backups)
    /\ backed' = Append(backed, Head(backups).node)
    /\ stored' \in {stored, stored \cup {<<c[1], hdata[c[2]]>> : c \in Head(backups).pages}}
    /\ UNCHANGED <<tree, dfree, hfree, dataVars, streamVars, prefetchVars, req, walk>>

\* An operation that both the threads and the scheduler are through with is gone.
Settled(o) == IF o.pc = "ended" /\ ~o.ongoing /\ ~o.revoked THEN NoPf ELSE o

ToRelease(pages, from) == Freed(release, {pages[i] : i \in from .. Len(pages)})

\* prefetch_thread_func: how much of the path is in storage decides whether the
\* operation is revoked or goes to the IO thread.
Base(o) == Len(o.path) - o.want
Query(r) ==
    LET o == pf[r]
        known == {c[1] : c \in stored}
        hit == CHOOSE h \in 0 .. o.want :
                 /\ \A i \in 1 .. h : Take(o.path, Base(o) + i) \in known
                 /\ h < o.want => Take(o.path, Base(o) + h + 1) \notin known
    IN  /\ o.pc = "queued"
        /\ IF hit < PrefetchThreshold
           THEN /\ release' = ToRelease(o.pages, 1)
                /\ pf' = [pf EXCEPT ![r] = Settled([o EXCEPT !.pc = "ended", !.revoked = TRUE])]
           ELSE /\ release' = ToRelease(o.pages, hit + 1)
                /\ pf' = [pf EXCEPT ![r].pc = "io", ![r].want = hit,
                                    ![r].path = Take(@, Base(o) + hit),
                                    ![r].pages = Take(@, IF hit < Len(@) THEN hit ELSE Len(@))]
        /\ UNCHANGED <<tree, dfree, hfree, dataVars, streamVars, storageVars, occupied, io,
                       req, walk>>

\* _generic_page_get sets a page before it counts it.  The first form sets the page
\* that it counted the round before.
PageSetLate(o) == IF o.completed = 0 THEN 1 ELSE o.completed
PageSet(o) == o.completed + 1

\* prefetch_io_aux_func, one page at a time: the page is filled, then counted
\* unless the operation has been terminated.  The pages not counted at the end
\* are released.  A key longer than the pages that could be allocated for it
\* makes the thread index past them, and it dies.
Transfer(r) ==
    LET o == pf[r]
        i == o.completed + 1
        j == PageSet(o)
        filled == i <= o.want /\ i <= Len(o.pages)
    IN  /\ o.pc = "io" /\ io = "alive"
        /\ \E fetched \in BOOLEAN :
             /\ hdata' = IF filled /\ fetched
                         THEN [hdata EXCEPT ![o.pages[j]] =
                                 (CHOOSE c \in stored : c[1] = Take(o.path, Base(o) + j))[2]]
                         ELSE hdata
             /\ IF filled /\ fetched /\ ~o.stop
                THEN pf' = [pf EXCEPT ![r].completed = i] /\ UNCHANGED <<release, io>>
                ELSE IF i <= o.want /\ i > Len(o.pages)
                THEN io' = "dead" /\ UNCHANGED <<release, pf>>
                ELSE /\ pf' = [pf EXCEPT ![r] = Settled([o EXCEPT !.pc = "ended", !.stop = TRUE])]
                     /\ release' = ToRelease(o.pages, i) /\ io' = io
        /\ UNCHANGED <<tree, dfree, hfree, ddata, streamVars, storageVars, occupied, req, walk>>

-----------------------------------------------------------------------------
(* The scheduler: prefetching for a request that arrives                    *)

Protect(T, n, d) == [T EXCEPT !.href[n] = @ + d]

\* evict_host(num) if fewer than num pages are free.
MakeRoomOnHost(T, num) ==
    IF Available(hfree) < num THEN HostEvictions(T, num) ELSE {{}}

\* _prefetch_kvcache and prefetch_from_storage: what the tree does not have is
\* looked for in storage, below the deepest node on the host.
Arrive(r, k) ==
    LET x == Match(tree, k)
        T == SplitNode(tree, x)
        anchor == HostNode(T, x)
        len == Len(k) - Len(x)
    IN  /\ walk = NoWalk /\ req[r] = NoReq /\ pf[r] = NoPf
        /\ req' = [req EXCEPT ![r].pc = "waiting", ![r].key = k]
        /\ IF len < PrefetchThreshold \/ occupied >= PrefetchLimit
           THEN tree' = T /\ UNCHANGED <<hfree, pf, occupied>>
           ELSE \E E \in MakeRoomOnHost(Protect(T, anchor, 1), len) :
                LET U == EvictHost(Protect(T, anchor, 1), E)
                    f == Freed(hfree, HostPagesOf(T, E))
                    n == IF Available(f) < len THEN Available(f) ELSE len
                IN  IF n < len /\ n < PrefetchThreshold
                    THEN /\ tree' = Protect(U, anchor, -1) /\ hfree' = f
                         /\ UNCHANGED <<pf, occupied>>
                    ELSE \E s \in Allocations(f, n) :
                         /\ tree' = U /\ hfree' = Taken(f, ToSet(s))
                         /\ pf' = [pf EXCEPT ![r] =
                              [NoPf EXCEPT !.pc = "queued", !.ongoing = TRUE, !.pages = s,
                                           !.anchor = anchor, !.want = len, !.len = len,
                                           !.path = anchor \o SubSeq(k, Len(x) + 1, Len(k))]]
                         /\ occupied' = occupied + len
        /\ UNCHANGED <<dfree, dataVars, streamVars, storageVars, release, io, walk>>

\* _insert_helper_host: the part of path that is not in the tree becomes a node
\* on the host.
InsertHost(T, path, pages) ==
    LET x == Match(T, path)
        U == SplitNode(T, x)
        V == [U EXCEPT !.nodes = @ \cup {path},
                       !.host = [p \in Paths |-> IF x \prec p /\ p \preceq path
                                                 THEN pages[Len(p)] ELSE @[p]]]
    IN  IF x = path THEN U
        ELSE UpdateHostLeafStatus(UpdateLeafStatus(UpdateHostLeafStatus(V, {path}),
                                                   {x} \ {Root}), {x} \ {Root})

\* check_prefetch_progress, once the policy lets it stop the operation: what was
\* fetched goes into the tree, pages the tree had already are freed.
PrefetchProgress(r) ==
    LET o == pf[r]
        path == Take(o.path, Base(o) + o.completed)
        x == Match(tree, path)
        at == [i \in Base(o) + 1 .. Len(path) |-> o.pages[i - Base(o)]]
    IN  /\ walk = NoWalk /\ req[r].pc = "waiting" /\ o.ongoing
        /\ tree' = Protect(IF o.completed = 0 THEN tree ELSE InsertHost(tree, path, at),
                           o.anchor, -1)
        /\ hfree' = Freed(hfree, {at[i] : i \in Base(o) + 1 .. Len(x)})
        /\ pf' = [pf EXCEPT ![r] = Settled([o EXCEPT !.stop = TRUE, !.ongoing = FALSE])]
        /\ occupied' = occupied - o.len
        /\ UNCHANGED <<dfree, dataVars, streamVars, storageVars, release, io, req, walk>>

\* release_aborted_request.  The first form releases all pages of the operation.
AbortReleasingAll(r) ==
    LET o == pf[r]
    IN  /\ walk = NoWalk /\ req[r].pc = "waiting" /\ o.ongoing
        /\ release' = Freed(release, ToSet(o.pages))
        /\ tree' = Protect(tree, o.anchor, -1)
        /\ pf' = [pf EXCEPT ![r] = Settled([o EXCEPT !.stop = TRUE, !.ongoing = FALSE])]
        /\ occupied' = occupied - o.len
        /\ req' = [req EXCEPT ![r] = NoReq]
        /\ UNCHANGED <<dfree, hfree, dataVars, streamVars, storageVars, io, walk>>

Abort(r) ==
    LET o == pf[r]
    IN  /\ walk = NoWalk /\ req[r].pc = "waiting"
        /\ IF o.ongoing
           THEN /\ release' = Freed(release, {o.pages[i] : i \in 1 .. o.completed})
                /\ tree' = Protect(tree, o.anchor, -1)
                /\ pf' = [pf EXCEPT ![r] = Settled([o EXCEPT !.stop = TRUE, !.ongoing = FALSE])]
                /\ occupied' = occupied - o.len
           ELSE UNCHANGED <<release, tree, pf, occupied>>
        /\ req' = [req EXCEPT ![r] = NoReq]
        /\ UNCHANGED <<dfree, hfree, dataVars, streamVars, storageVars, io, walk>>

-----------------------------------------------------------------------------
(* The scheduler: a request is admitted                                     *)

\* evict(num) if fewer than num pages are free.
MakeRoom(T, f, num) == IF Available(f) < num THEN DeviceEvictions(T, num) ELSE {{}}

\* load_back: the nodes from x up to node d, which is on the device, get the
\* device pages s and are locked until the copy is acknowledged.
LoadBack(T, x, d, s) ==
    LET V == [T EXCEPT !.dev = [p \in Paths |-> IF d \prec p /\ p \preceq x
                                                THEN s[Len(p) - Len(d)] ELSE @[p]],
                       !.esize = @ + Len(s)]
    IN  inc_lock_ref(V, x)

\* add_one_req and alloc_for_extend: what matches on the host is loaded back, all
\* or nothing, the node that is then the deepest on the device is locked, and
\* the rest of the key gets new pages, which the forward pass fills.  The node
\* the match found on the device is locked meanwhile (_lock_node).
Admit(r) ==
    LET k == req[r].key
        x == Match(tree, k)
        S == SplitNode(tree, x)
        d == DeviceNode(S, x)
        T == inc_lock_ref(S, d)
        n == Len(x) - Len(d)
        wanted == n > 0 /\ n >= LoadBackThreshold
    IN  /\ walk = NoWalk /\ req[r].pc = "waiting" /\ ~pf[r].ongoing
        /\ \E E \in IF wanted THEN MakeRoom(T, dfree, n) ELSE {{}} :
           LET U == Evict(T, E)
               f == Freed(dfree, DevicePages(T, E))
               loaded == wanted /\ Available(f) >= n
           IN  \E s \in IF loaded THEN Allocations(f, n) ELSE {<<>>} :
               LET last == IF loaded THEN x ELSE d
                   V == inc_lock_ref(dec_lock_ref(IF loaded THEN LoadBack(U, x, d, s) ELSE U, d),
                                     last)
                   g == Taken(f, ToSet(s))
                   m == Len(k) - Len(last)
               IN  \E F \in MakeRoom(V, g, m) :
                   LET h == Freed(g, DevicePages(V, F))
                   IN  \E own \in Allocations(h, m) :
                       /\ tree' = Evict(V, F)
                       /\ dfree' = Taken(h, ToSet(own))
                       /\ ddata' = [p \in DevPages |-> IF p \in ToSet(own)
                            THEN Take(k, Len(last) + CHOOSE i \in 1 .. m : own[i] = p)
                            ELSE ddata[p]]
                       /\ loads' = IF ~loaded THEN loads
                            ELSE Append(loads, [node |-> x, pairs |->
                                   {<<U.host[Take(x, Len(d) + i)], s[i]>> : i \in 1 .. n}])
                       /\ req' = [req EXCEPT ![r].pc = "running", ![r].node = last,
                                             ![r].own = own]
        /\ UNCHANGED <<hfree, hdata, writes, acks, storageVars, prefetchVars, walk>>

-----------------------------------------------------------------------------
(* The scheduler: a request is finished, its KV goes into the tree          *)

Finish(r) ==
    /\ walk = NoWalk /\ req[r].pc = "running"
    /\ walk' = [NoWalk EXCEPT !.req = r]
    /\ UNCHANGED <<tree, dfree, hfree, dataVars, streamVars, storageVars, prefetchVars, req>>

\* The request's own page for a path.
OwnPage(q, p) == q.own[Len(p) - Len(q.node)]

\* _inc_hit_count with the threshold 1, and write_backup: a node whose parent is
\* on the host is copied there if there is room.
WriteBackup(T, n) ==
    LET num == KeyLen(T, {n})
        top == Len(Parent(T, n))
    IN  IF backuped(T, n) \/ ~backuped(T, Parent(T, n))
        THEN tree' = T /\ UNCHANGED <<hfree, writes>>
        ELSE \E E \in MakeRoomOnHost(T, num) :
             LET f == Freed(hfree, HostPagesOf(T, E))
                 U == EvictHost(T, E)
             IN  IF Available(f) < num THEN tree' = U /\ hfree' = f /\ writes' = writes
                 ELSE \E s \in Allocations(f, num) :
                      /\ tree' = inc_lock_ref([U EXCEPT !.host =
                                   [p \in Paths |-> IF p \in Segment(T, n)
                                                    THEN s[Len(p) - top] ELSE @[p]]], n)
                      /\ hfree' = Taken(f, ToSet(s))
                      /\ writes' = Append(writes, [node |-> n, pairs |->
                           {<<T.dev[p], s[Len(p) - top]>> : p \in Segment(T, n)}])

\* One round of the loop of insert(), or the new leaf at its end.
Visit ==
    LET q == req[walk.req]
        T == tree
        next == Take(q.key, Len(walk.at) + 1)
        there == {c \in Children(T, walk.at) : next \preceq c}
        c == CHOOSE n \in there : TRUE
        x == CHOOSE p \in {Take(q.key, i) : i \in Len(next) .. Len(q.key)} :
               /\ p \preceq c
               /\ \A i \in Len(p) + 1 .. Len(q.key) : ~(Take(q.key, i) \preceq c)
        S == SplitNode(T, x)
        given(U, top, n) == [U EXCEPT !.dev = [p \in Paths |-> IF top \prec p /\ p \preceq n
                                                               THEN OwnPage(q, p) ELSE @[p]],
                                      !.esize = @ + Len(n) - Len(top)]
    IN  /\ walk # NoWalk /\ walk.at # q.key
        /\ IF there = {}
           THEN LET U == [T EXCEPT !.nodes = @ \cup {q.key}]
                IN  /\ WriteBackup(UpdateLeafStatus(given(U, walk.at, q.key),
                                                    {walk.at, q.key} \ {Root}), q.key)
                    /\ walk' = [walk EXCEPT !.at = q.key]
           ELSE IF evicted(S, x)
           THEN LET U == given(S, walk.at, x)
                IN  /\ tree' = UpdateLeafStatus(UpdateHostLeafStatus(UpdateLeafStatus(U, {x}), {x}),
                                                {walk.at} \ {Root})
                    /\ walk' = [walk EXCEPT !.at = x]
                    /\ UNCHANGED <<hfree, writes>>
           ELSE /\ WriteBackup(S, x)
                /\ walk' = [walk EXCEPT !.at = x, !.matched = @ + Len(x) - Len(walk.at)]
        /\ UNCHANGED <<dfree, dataVars, loads, acks, storageVars, prefetchVars, req>>

\* The rest of cache_finished_req: duplicates are freed, the lock is given back.
Inserted ==
    LET q == req[walk.req]
    IN  /\ walk # NoWalk /\ walk.at = q.key /\ walk' = NoWalk
        /\ dfree' = Freed(dfree, {q.own[i] : i \in 1 .. walk.matched - Len(q.node)})
        /\ tree' = dec_lock_ref(tree, q.node)
        /\ req' = [req EXCEPT ![walk.req] = NoReq]
        /\ UNCHANGED <<hfree, dataVars, streamVars, storageVars, prefetchVars>>

-----------------------------------------------------------------------------
\* check_hicache_events: writing_check, loading_check and
\* drain_storage_control_queues.
CheckEvents ==
    LET written == SelectSeq(acks, LAMBDA a : a.kind = "write")
        count(seq, n) == Cardinality({i \in DOMAIN seq : seq[i].node = n})
        T == Relock(tree, [i \in DOMAIN acks |-> acks[i].node], -1)
        dropped == {r \in Reqs : pf[r].revoked /\ pf[r].ongoing}
        href == [n \in Paths |-> T.href[n] + count(written, n)
                   - Cardinality({i \in DOMAIN backed : backed[i] = n})
                   - Cardinality({r \in dropped : pf[r].anchor = n})]
    IN  /\ walk = NoWalk
        /\ acks # <<>> \/ backed # <<>> \/ (\E p \in HostPages : release[p] > 0)
             \/ \E r \in Reqs : pf[r].revoked
        /\ tree' = [T EXCEPT !.href = href]
        /\ acks' = <<>> /\ backed' = <<>>
        /\ backups' = backups \o [i \in DOMAIN written |->
             [node |-> written[i].node,
              pages |-> {<<p, T.host[p]>> : p \in Segment(T, written[i].node)}]]
        /\ pf' = [r \in Reqs |-> IF ~pf[r].revoked THEN pf[r]
                                 ELSE Settled([pf[r] EXCEPT !.revoked = FALSE, !.ongoing = FALSE])]
        /\ occupied' = occupied - FoldSet(LAMBDA r, a : a + pf[r].len, 0, dropped)
        /\ hfree' = [p \in HostPages |-> hfree[p] + release[p]]
        /\ release' = [p \in HostPages |-> 0]
        /\ UNCHANGED <<dfree, dataVars, writes, loads, stored, io, req, walk>>

Next ==
    \/ \E r \in Reqs : \/ \E k \in Keys : Arrive(r, k)
                       \/ PrefetchProgress(r) \/ Abort(r) \/ Admit(r) \/ Finish(r)
                       \/ Query(r) \/ Transfer(r)
    \/ Visit \/ Inserted \/ CheckEvents
    \/ WriteDone \/ LoadDone \/ Backup

Spec == Init /\ [][Next]_vars

-----------------------------------------------------------------------------
\* Where the pages of a prefetch operation still are: those not yet fetched are
\* the threads' until they release them, those fetched are the scheduler's.
Owned(o) ==
    {o.pages[i] : i \in {j \in DOMAIN o.pages : IF j <= o.completed THEN o.ongoing
                                                ELSE o.pc \in {"queued", "io"}}}

\* No page is lost and none is given out twice, whichever thread terminates,
\* revokes, aborts or finishes a prefetch first: a host page is free, waits for
\* release, belongs to the tree or to one prefetch, and a device page is free, in
\* the tree, or a request's own.  prefetch_tokens_occupied counts the prefetches.
PagesAccounted ==
    /\ \A p \in HostPages :
         hfree[p] + release[p] + Cardinality({x \in Paths : tree.host[x] = p})
           + Cardinality({r \in Reqs : p \in Owned(pf[r])}) = 1
    /\ walk = NoWalk => \A p \in DevPages :
         dfree[p] + Cardinality({x \in Paths : tree.dev[x] = p})
           + Cardinality({r \in Reqs : p \in ToSet(req[r].own)}) = 1
    /\ occupied = FoldSet(LAMBDA r, a : a + pf[r].len, 0, {r \in Reqs : pf[r].ongoing})

\* The KV of every block is the KV of its own path, on the device, on the host
\* and in storage, unless a copy to it is under way: no copy reads or writes a
\* page that was evicted and given to somebody else meanwhile.
ContentIntact ==
    /\ \A x \in Paths :
         /\ tree.dev[x] # NoPage => \/ ddata[tree.dev[x]] = x
                                    \/ \E l \in ToSet(loads) : \E c \in l.pairs : c[2] = tree.dev[x]
         /\ tree.host[x] # NoPage => \/ hdata[tree.host[x]] = x
                                     \/ \E w \in ToSet(writes) : \E c \in w.pairs : c[2] = tree.host[x]
    /\ \A c \in stored : c[2] = c[1]

\* The tree stays usable: a node on the device hangs below nodes on the device,
\* so that a match is one prefix; what is locked is on the device; what is not on
\* the device is on the host, so that load_back finds it; a node a storage
\* operation refers to is there.
DevicePrefix ==
    /\ \A n \in tree.nodes \ {Root} :
         /\ evicted(tree, Parent(tree, n)) => evicted(tree, n)
         /\ tree.lock[n] > 0 => ~evicted(tree, n)
         /\ evicted(tree, n) => backuped(tree, n)
    /\ \A r \in Reqs : pf[r].ongoing => pf[r].anchor \in tree.nodes
    /\ \A b \in ToSet(backups) : b.node \in tree.nodes

\* The incrementally kept evictable_leaves, evictable_host_leaves and
\* evictable_size_ are what a walk over the tree would compute.
LeavesExact ==
    LET inner == tree.nodes \ {Root}
    IN  /\ tree.leaves = {n \in inner : /\ ~evicted(tree, n) /\ tree.lock[n] = 0
                                        /\ \A c \in Below(tree, n) : evicted(tree, c)}
        /\ tree.hleaves = {n \in inner : evicted(tree, n) /\ Below(tree, n) = {}}
        /\ tree.esize = KeyLen(tree, {n \in inner : ~evicted(tree, n) /\ tree.lock[n] = 0})

\* _evict_regular asserts that a node without a host copy has no children when evict()
\* takes it.  A prefetch that hangs a host node below it refutes this.
EvictsChildless == \A n \in tree.leaves : backuped(tree, n) \/ Below(tree, n) = {}

\* write_backup: backed-up nodes must form a contiguous prefix from root - no gaps.
BackupContiguous ==
    \A n \in tree.nodes \ {Root} : backuped(tree, n) => backuped(tree, Parent(tree, n))
==============================================================================
