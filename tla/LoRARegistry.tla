----------------------------- MODULE LoRARegistry -----------------------------
(***************************************************************************)
(* LoRA adapters: lora/lora_registry.py, the part of the tokenizer manager *)
(* that loads and unloads adapters (tokenizer_control_mixin.py) and that   *)
(* acquires one for a request and gives it back (tokenizer_manager.py),    *)
(* and the adapters the backend holds (lora_manager.py).                   *)
(*                                                                         *)
(* The tokenizer manager is one asyncio loop: a step is what runs between  *)
(* two points where a coroutine really waits.  The registry's RWLock and   *)
(* the locks of the counters are never held across such a point, so nobody *)
(* ever waits for them (release would wait under the RWLock for a list,    *)
(* but is called per sub-request, with one id); lora_update_lock is, and   *)
(* is the variable job.                                                    *)
(* A LoRA id is fresh for every load; an id nobody refers to is taken      *)
(* again.  The scheduler answers a request in any of the ways in Outcomes. *)
(***************************************************************************)
EXTENDS Integers, FiniteSets, SequencesExt

CONSTANTS Reqs,       \* requests
          Names,      \* adapter names
          Adapter,    \* the adapter a request names (lora_path)
          Lists,      \* the requests that name it in a list
          Pinned,     \* pinned adapters
          Preloaded,  \* server_args.lora_paths
          Refusable,  \* adapters the backend may refuse to load (validate_new_adapter)
          MaxLoaded,  \* max_loaded_loras
          Ids,        \* LoRA ids, 0 is none
          MaxCalls,   \* bound on the calls of load_lora_adapter and unload_lora_adapter
          Outcomes    \* how a request may end, besides the normal way

ASSUME LoRAAssumption ==
    /\ IsFiniteSet(Reqs) /\ Ids \subseteq Nat \ {0} /\ 1 .. Cardinality(Preloaded) \subseteq Ids
    /\ Adapter \in [Reqs -> Names] /\ Lists \subseteq Reqs
    /\ Preloaded \cup Refusable \subseteq Names /\ MaxCalls \in Nat /\ MaxLoaded \in Nat \ {0}
    /\ Outcomes \subseteq {"tokenize_error", "abort_queued", "reject", "error_500"}

VARIABLES ref,     \* _registry: the id under which a name is registered, 0 for none
          lru,     \* _registry: its order, least recently used first
          counter, \* _counters: the count of an id, only meaningful in live
          live,    \* _counters: the ids that have a counter
          cached,  \* lora_ref_cache: the names ever loaded
          loaded,  \* the backend's adapters: the name of an id, or None
          job,     \* the load or unload that holds lora_update_lock
          calls,   \* explicit loads and unloads so far
          req      \* pc, the lora_id of the request, and the releases it still owes
loraVars == <<ref, lru, counter, live, cached, loaded, job, calls, req>>

None == "none"
NoJob == [kind |-> None, name |-> None, by |-> None, id |-> 0, ok |-> FALSE, pc |-> None]

Registered == {n \in Names : ref[n] # 0}

\* A new uuid: an id that occurs nowhere, the least one.
Free(i) == loaded[i] = None /\ i \notin live /\ \A r \in Reqs : req[r].id # i
Fresh(i) == Free(i) /\ \A j \in Ids : Free(j) => i <= j

LoraInit ==
    \E f \in [Preloaded -> 1 .. Cardinality(Preloaded)] : \E s \in SetToSeqs(Preloaded) :
        /\ \A m, n \in Preloaded : m # n => f[m] # f[n]
        /\ ref = [n \in Names |-> IF n \in Preloaded THEN f[n] ELSE 0]
        /\ lru = s
        /\ live = {f[n] : n \in Preloaded}
        /\ counter = [i \in Ids |-> 0]
        /\ cached = Preloaded
        /\ loaded = [i \in Ids |-> IF i \in live THEN CHOOSE n \in Preloaded : f[n] = i ELSE None]
        /\ job = NoJob /\ calls = 0
        /\ req = [r \in Reqs |-> [pc |-> "new", id |-> 0, owes |-> 0]]

-----------------------------------------------------------------------------
(* A request acquires its adapter                                           *)

MoveToEnd(s, n) == Append(Remove(s, n), n)

Fail(r) == req' = [req EXCEPT ![r] = [pc |-> "done", id |-> 0, owes |-> 0]]

\* acquire(): look the name up, then count.  For one name nothing runs in
\* between; for a list the increments are tasks of their own (asyncio.gather).
Acquire(r, reference, order) ==
    LET n == Adapter[r]
        i == reference[n]
    IN  IF i = 0 THEN Fail(r) /\ lru' = order /\ UNCHANGED counter
        ELSE /\ lru' = MoveToEnd(order, n)
             /\ IF r \in Lists
                THEN /\ req' = [req EXCEPT ![r].pc = "looked_up", ![r].id = i]
                     /\ UNCHANGED counter
                ELSE /\ req' = [req EXCEPT ![r].pc = "acquired", ![r].id = i]
                     /\ counter' = [counter EXCEPT ![i] = @ + 1]

\* _resolve_lora_path: a registered adapter is acquired at once, one that was
\* unloaded is loaded again first, one that was never loaded is an error.
Resolve(r) ==
    /\ req[r].pc = "new"
    /\ IF ref[Adapter[r]] # 0 THEN Acquire(r, ref, lru)
       ELSE /\ UNCHANGED <<lru, counter>>
            /\ IF Adapter[r] \in cached THEN req' = [req EXCEPT ![r].pc = "loading"]
                                        ELSE Fail(r)
    /\ UNCHANGED <<ref, live, cached, loaded, job, calls>>

\* The increment of a list.  The counter object may have been deleted meanwhile.
Increment(r) ==
    /\ req[r].pc = "looked_up"
    /\ req' = [req EXCEPT ![r].pc = "acquired"]
    /\ counter' = IF req[r].id \in live THEN [counter EXCEPT ![req[r].id] = @ + 1] ELSE counter
    /\ UNCHANGED <<ref, lru, live, cached, loaded, job, calls>>

-----------------------------------------------------------------------------
(* Loading and unloading, under lora_update_lock                            *)

\* load_lora_adapter begins: a new LoRARef, sent to the backend.
StartLoad(n, by) ==
    /\ job = NoJob
    /\ \E i \in Ids :
         /\ Fresh(i)
         /\ job' = [kind |-> "load", name |-> n, by |-> by, id |-> i, ok |-> FALSE,
                    pc |-> "backend"]
    /\ UNCHANGED <<ref, lru, counter, live, cached, loaded>>

\* A request whose adapter has to be loaded gets the lock.
LoadFor(r) ==
    /\ req[r].pc = "loading" /\ StartLoad(Adapter[r], r)
    /\ UNCHANGED <<calls, req>>

CallLoad(n) ==
    /\ calls < MaxCalls /\ calls' = calls + 1
    /\ StartLoad(n, None)
    /\ UNCHANGED req

\* The lock is given back; a request that had the load done goes straight on.
EndJob(ok, reference, order) ==
    /\ job' = NoJob /\ ref' = reference
    /\ IF job.by \in Reqs
       THEN IF ok THEN Acquire(job.by, reference, order)
                  ELSE Fail(job.by) /\ lru' = order /\ UNCHANGED counter
       ELSE lru' = order /\ UNCHANGED <<counter, req>>

\* The loop of load_lora_adapter: unload the least recently used adapter that is
\* not pinned while there are too many.
EvictLoop(ok, reference, order) ==
    LET unpinned == SelectSeq(order, LAMBDA n : n \notin Pinned)
        n == Head(unpinned)
    IN  IF Len(order) <= MaxLoaded THEN EndJob(ok, reference, order)
        ELSE IF unpinned = <<>> THEN EndJob(FALSE, reference, order)
        ELSE /\ ref' = [reference EXCEPT ![n] = 0]
             /\ lru' = Remove(order, n)
             /\ job' = [job EXCEPT !.pc = "wait", !.id = reference[n], !.ok = ok]
             /\ UNCHANGED <<counter, req>>

\* The backend answers a load.  It refuses a name it already has, which a request
\* does not take for an error, and an adapter it does not support.  A refused
\* load is not registered, but goes through the loop all the same.
BackendLoad ==
    /\ job.kind = "load" /\ job.pc = "backend"
    /\ \/ /\ \E i \in Ids : loaded[i] = job.name
          /\ EvictLoop(TRUE, ref, lru)
          /\ UNCHANGED <<live, cached, loaded>>
       \/ /\ job.name \in Refusable
          /\ EvictLoop(FALSE, ref, lru)
          /\ UNCHANGED <<live, cached, loaded>>
       \/ /\ \A i \in Ids : loaded[i] # job.name
          /\ loaded' = [loaded EXCEPT ![job.id] = job.name]
          /\ live' = live \cup {job.id}
          /\ cached' = cached \cup {job.name}
          /\ EvictLoop(TRUE, [ref EXCEPT ![job.name] = job.id], Append(lru, job.name))
    /\ UNCHANGED calls

CallUnload(n) ==
    /\ job = NoJob /\ calls < MaxCalls /\ calls' = calls + 1
    /\ n \in Registered
    /\ ref' = [ref EXCEPT ![n] = 0] /\ lru' = Remove(lru, n)
    /\ job' = [kind |-> "unload", name |-> n, by |-> None, id |-> ref[n], ok |-> TRUE,
              pc |-> "wait"]
    /\ UNCHANGED <<counter, live, cached, loaded, req>>

\* wait_for_unload: nobody uses the adapter any more, its counter is deleted.
\* The first form does not wait.
UnloadAtOnce ==
    /\ job.pc = "wait"
    /\ live' = live \ {job.id}
    /\ job' = [job EXCEPT !.pc = "backend_unload"]
    /\ UNCHANGED <<ref, lru, counter, cached, loaded, calls, req>>

WaitForUnload ==
    /\ job.pc = "wait" /\ counter[job.id] = 0
    /\ live' = live \ {job.id}
    /\ job' = [job EXCEPT !.pc = "backend_unload"]
    /\ UNCHANGED <<ref, lru, counter, cached, loaded, calls, req>>

BackendUnload ==
    /\ job.pc = "backend_unload"
    /\ loaded' = [loaded EXCEPT ![job.id] = None]
    /\ IF job.kind = "load" THEN EvictLoop(job.ok, ref, lru) ELSE EndJob(TRUE, ref, lru)
    /\ UNCHANGED <<live, cached, calls>>

-----------------------------------------------------------------------------
(* The rest of a request's life                                             *)

registryVars == <<ref, lru, live, cached, loaded, job, calls>>

\* _tokenize_one_request: an invalid request raises, a valid one is sent.
Dispatch(r) ==
    /\ req[r].pc = "acquired"
    /\ req' = [req EXCEPT ![r].pc = "sent"]
    /\ UNCHANGED <<counter, registryVars>>

TokenizeError(r) ==
    /\ "tokenize_error" \in Outcomes /\ req[r].pc = "acquired"
    /\ Fail(r)
    /\ UNCHANGED <<counter, registryVars>>

\* _handle_batch_output with a finish reason creates a task that releases; if
\* the reason is an abort with status 500, _handle_abort_finish_reason releases
\* as well.
BatchOutput(r, status) ==
    /\ req[r].pc = "sent"
    /\ status = 500 => "error_500" \in Outcomes
    /\ req' = [req EXCEPT ![r].pc = "answered", ![r].owes = IF status = 500 THEN 2 ELSE 1]
    /\ UNCHANGED <<counter, registryVars>>

\* _handle_abort_req, then _handle_abort_finish_reason: only an abort with status
\* 503 or 500 releases.  A request taken out of the waiting queue has no status.
AbortOutput(r, status) ==
    /\ req[r].pc = "sent"
    /\ IF status = 503
       THEN /\ "reject" \in Outcomes
            /\ req' = [req EXCEPT ![r].pc = "answered", ![r].owes = 1]
       ELSE /\ "abort_queued" \in Outcomes
            /\ Fail(r)
    /\ UNCHANGED <<counter, registryVars>>

\* release()
Release(r) ==
    /\ req[r].pc = "answered"
    /\ counter' = IF req[r].id \in live THEN [counter EXCEPT ![req[r].id] = @ - 1] ELSE counter
    /\ IF req[r].owes > 1 THEN req' = [req EXCEPT ![r].owes = @ - 1] ELSE Fail(r)
    /\ UNCHANGED registryVars
==============================================================================
