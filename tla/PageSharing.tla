----------------------------- MODULE PageSharing -----------------------------
(***************************************************************************)
(* What the KV cache promises, without trees, keys, locks or free lists:   *)
(* pages are free, cached, or one request's own; requests read cached      *)
(* pages and write only their own.  KVCacheSharing shows that KVCache      *)
(* implements it.                                                          *)
(***************************************************************************)
CONSTANTS Page, Reqs

VARIABLES cached,  \* the pages of the cache
          own,     \* per request, the pages it writes
          shared,  \* per request, the cached pages it reads
          content  \* what each page holds
vars == <<cached, own, shared, content>>

Free == Page \ (cached \cup UNION {own[r] : r \in Reqs})
Idle == cached \ UNION {shared[r] : r \in Reqs}

\* The KV of these pages survives the step.
Kept(S) == \A p \in S : content'[p] = content[p]

\* Whatever the pages hold, no one reads it yet.
Init == cached = {} /\ own = [r \in Reqs |-> {}] /\ shared = [r \in Reqs |-> {}]

\* What r writes or reads changes, and what the others write and read does not.
OnlyFor(r) == \A s \in Reqs \ {r} : own'[s] = own[s] /\ shared'[s] = shared[s] /\ Kept(own[s])

\* A request starts on what the cache has of its prompt.
Start(r) ==
    /\ own[r] = {} /\ own'[r] = {} /\ shared[r] = {} /\ shared'[r] \subseteq cached
    /\ OnlyFor(r)
    /\ UNCHANGED <<cached, content>>

\* It takes pages that are free, or that nobody reads, and writes to its own.
Grow(r) ==
    /\ cached' \subseteq cached /\ cached \ cached' \subseteq Idle
    /\ own[r] \subseteq own'[r] /\ own'[r] \ own[r] \subseteq Free \cup (cached \ cached')
    /\ shared'[r] = shared[r]
    /\ OnlyFor(r) /\ Kept(cached')

\* It hands in pages of its own, drops those the cache already has, and reads the
\* cached ones instead.
HandIn(r) ==
    /\ cached \subseteq cached' /\ cached' \ cached \subseteq own[r]
    /\ own'[r] \subseteq own[r] \ cached'
    /\ shared[r] \subseteq shared'[r] /\ shared'[r] \subseteq cached'
    /\ OnlyFor(r) /\ Kept(cached' \cup own'[r])

\* It leaves; what it hands in stays in the cache, and idle pages may be evicted for
\* those that remain.
Leave(r) ==
    /\ own'[r] = {} /\ shared'[r] = {}
    /\ cached' \subseteq cached \cup own[r]
    /\ \A s \in Reqs : shared'[s] \subseteq cached'
    /\ OnlyFor(r) /\ Kept(cached')

\* Nobody reads what is evicted.
Evict ==
    /\ cached' \subseteq cached /\ cached \ cached' \subseteq Idle
    /\ Kept(cached') /\ \A r \in Reqs : Kept(own[r])
    /\ UNCHANGED <<own, shared>>

Next == Evict \/ \E r \in Reqs : Start(r) \/ Grow(r) \/ HandIn(r) \/ Leave(r)
Spec == Init /\ [][Next]_vars
==============================================================================
