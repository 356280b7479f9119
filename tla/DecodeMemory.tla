---------------------------- MODULE DecodeMemory ----------------------------
(***************************************************************************)
(* The memory of a decode server (disaggregation/decode.py): a request is  *)
(* admitted from the prealloc queue with room for its prompt, waits in the *)
(* transfer queue for the prefill server's KV, passes the waiting queue    *)
(* into the running batch, and may be retracted from there when the pool   *)
(* runs out.  The page size is 1, the decode server keeps no radix cache,  *)
(* and the loop is event_loop_normal_disagg_decode.                        *)
(*                                                                         *)
(* Requests enter the prealloc queue with their handshake done; module     *)
(* KVTransfer has the handshake and the transfer.  Here a transfer ends    *)
(* when the environment says so.                                           *)
(***************************************************************************)
EXTENDS Integers, FiniteSets, SequencesExt

CONSTANTS Reqs,
          Origin,    \* len(origin_input_ids)
          MaxNew,    \* sampling_params.max_new_tokens
          Pool,      \* size of the token pool
          Rows,      \* req_to_token_pool.size, and max_running_requests
          PreAlloc,  \* its pre_alloc_size, the rows for requests that do not run yet
          MetaSlots, \* size of the metadata index allocator
          Reserved,  \* num_reserved_decode_tokens
          Clip,      \* CLIP_MAX_NEW_TOKEN
          Aborts     \* the requests a client may abort

ASSUME DecodeMemoryAssumption ==
    /\ IsFiniteSet(Reqs) /\ Aborts \subseteq Reqs
    /\ Origin \in [Reqs -> Nat \ {0}] /\ MaxNew \in [Reqs -> Nat \ {0}]
    /\ \A r \in Reqs : Origin[r] + MaxNew[r] < Pool  \* init_req_max_new_tokens
    /\ {Pool, Rows, MetaSlots, Clip} \subseteq Nat \ {0} /\ {PreAlloc, Reserved} \subseteq Nat

VARIABLES prealloc,  \* DecodePreallocQueue.queue
          transfer,  \* DecodeTransferQueue.queue
          waiting,   \* scheduler.waiting_queue
          running,   \* running_batch.reqs, finished requests included until filter_batch
          retracted, \* DecodePreallocQueue.retracted_queue
          kv,        \* per request: the tokens of the pool it holds
          out,       \* per request: len(output_ids)
          poll,      \* per request: what its receiver's poll gives
          ending,    \* the requests whose to_finish is set
          answer,    \* per request: how it ended
          phase      \* the part of the loop that is next
queues == <<prealloc, transfer, waiting, running, retracted>>
vars == <<queues, kv, out, poll, ending, answer, phase>>


Take(s, n) == SubSeq(s, 1, IF n < Len(s) THEN n ELSE Len(s))
Drop(s, n) == SubSeq(s, n + 1, Len(s))
Only(s, S) == SelectSeq(s, LAMBDA r : r \in S)
Sum(f, s) ==
    LET sum[n \in 0..Len(s)] == IF n = 0 THEN 0 ELSE sum[n - 1] + f[s[n]]
    IN  sum[Len(s)]
Capped(r) == Min({MaxNew[r], Clip})

Finished == {r \in Reqs : answer[r] # "none"}
Avail == Pool - Sum(kv, transfer \o waiting \o running)
FreeRows == Rows + PreAlloc - Cardinality({r \in Reqs : kv[r] > 0})
FreeMeta == MetaSlots - Len(transfer)

Init ==
    /\ prealloc = <<>> /\ transfer = <<>> /\ waiting = <<>> /\ running = <<>> /\ retracted = <<>>
    /\ kv = [r \in Reqs |-> 0] /\ out = [r \in Reqs |-> 0]
    /\ poll = [r \in Reqs |-> "new"] /\ ending = {}
    /\ answer = [r \in Reqs |-> "none"] /\ phase = "queue"

----------------------------------------------------------------------------
\* process_decode_queue

\* retractable_tokens: finished requests that filter_batch has not yet removed count too
Retractable == Sum([r \in Reqs |-> Origin[r] + out[r]], running)

\* need_space_for_single_req
NeedSpaceForSingleReq ==
    IF running = <<>> THEN 0
    ELSE Max({Capped(r) + Origin[r] - Retractable : r \in ToSet(running)})

\* Mutant: the retracted requests' own need is taken off, as count_retracted does.
ResumedCountingRetracted ==
    LET required == [r \in Reqs |-> Origin[r] + out[r] + Reserved]
        room == Avail - Reserved * (Len(running) + Len(transfer) + Len(waiting))
                - Sum(required, retracted)
    IN  Max({n \in 0..Len(retracted) :
                \/ n = 0
                \/ n <= FreeRows /\ Sum(required, Take(retracted, n)) <= room})

\* resume_retracted_reqs: how many requests at the head of the retracted queue come back;
\* its _allocatable_tokens takes no retractable_tokens
Resumed ==
    LET room == Avail - Reserved * (Len(running) + Len(transfer) + Len(waiting))
        required == [r \in Reqs |-> Origin[r] + out[r] + Reserved]
    IN  Max({n \in 0..Len(retracted) :
                \/ n = 0
                \/ n <= FreeRows /\ Sum(required, Take(retracted, n)) <= room})

\* pop_preallocated: how many requests at the head of the prealloc queue get memory
Admitted ==
    LET room(i) == Avail - Sum(Origin, Take(prealloc, i - 1))
                   - Max({Reserved * (Len(running) + Len(transfer) + Len(waiting) + i - 1),
                          NeedSpaceForSingleReq})
        fits(i) == LET r == prealloc[i] IN
                   /\ i <= FreeRows /\ i <= FreeMeta
                   /\ Origin[r] + Reserved <= room(i)
                   /\ Origin[r] + Capped(r) - Retractable <= room(i)
    IN  Max({n \in 0..Len(prealloc) : \A i \in 1..n : fits(i)})

\* While a retracted request is left nothing is admitted and no transfer is looked at.
Resume ==
    /\ phase = "queue" /\ retracted # <<>>
    /\ \E n \in {Resumed} :
       LET back == Take(retracted, n)
       IN  /\ waiting' = waiting \o back
           /\ retracted' = Drop(retracted, n)
           /\ kv' = [r \in Reqs |-> IF r \in ToSet(back) THEN Origin[r] + out[r] - 1 ELSE kv[r]]
           /\ phase' = IF retracted' = <<>> THEN "pop" ELSE "batch"
    /\ UNCHANGED <<prealloc, transfer, running, out, poll, ending, answer>>

\* pop_preallocated, then pop_transferred
Pop ==
    /\ phase = "pop" \/ (phase = "queue" /\ retracted = <<>>)
    /\ \E n \in {Admitted} :
       LET new == Take(prealloc, n)
           all == transfer \o new
           dead == {r \in ToSet(all) : poll[r] = "failed"}
           here == {r \in ToSet(all) : poll[r] = "success"}
       IN  /\ prealloc' = Drop(prealloc, n)
           /\ transfer' = Only(all, Reqs \ (dead \cup here))
           /\ waiting' = waiting \o Only(all, here)
           /\ kv' = [r \in Reqs |-> IF r \in dead THEN 0
                                    ELSE IF r \in ToSet(new) THEN Origin[r] ELSE kv[r]]
           /\ out' = [r \in Reqs |-> IF r \in here THEN 1 ELSE out[r]]
           /\ answer' = [r \in Reqs |-> IF r \in dead THEN "abort" ELSE answer[r]]
    /\ phase' = "batch"
    /\ UNCHANGED <<running, retracted, poll, ending>>

----------------------------------------------------------------------------
\* get_next_disagg_decode_batch_to_run and the forward pass

\* get_new_prebuilt_batch: the requests that leave the waiting queue
Prebuilt == Take(waiting, Max({0, Rows - Len(running)}))

\* The running batch once process_batch_result_prebuilt has released the requests of `over'
\* that end with their first token, and filter_batch has run.
Batch(over) == Only(running \o Prebuilt, Reqs \ (Finished \cup over))

\* retract_decode keeps the requests with most output, the shorter prompt first; its sort is
\* stable
KeepOrder(batch) ==
    LET place(r) == CHOOSE i \in DOMAIN batch : batch[i] = r
        before(a, b) == \/ out[a] > out[b]
                        \/ out[a] = out[b] /\ Origin[a] < Origin[b]
                        \/ out[a] = out[b] /\ Origin[a] = Origin[b] /\ place(a) < place(b)
    IN  SortSeq(batch, before)

\* Mutant: the memory is checked before the requests of the waiting queue have joined.
KeptBeforeMerge(order, free) ==
    IF free >= Cardinality(ToSet(running) \ Finished) THEN Len(order)
    ELSE Max({n \in 1..Len(order) :
                 n = 1 \/ (n < Len(order) /\ free + Sum(kv, Drop(order, n)) >= n)})

\* retract_decode: the number of requests of the order that stay
Kept(order, free) ==
    IF free >= Len(order) THEN Len(order)
    ELSE Max({n \in 1..Len(order) :
                 n = 1 \/ (n < Len(order) /\ free + Sum(kv, Drop(order, n)) >= n)})

\* What retract_decode makes of the batch with so much memory free: the requests that stay, the
\* ones that leave in the order they are popped, and whether not even one request fits.
Retraction(batch, free) ==
    LET order == KeepOrder(batch)
        n == Kept(order, free)
        gone == Reverse(Drop(order, n))
    IN  [stay |-> ToSet(Take(order, n)), gone |-> gone, oom |-> n = 1 /\ free + Sum(kv, gone) < n]

RunBatch(eos) ==
    /\ phase = "batch"
    /\ \E over \in {{r \in ToSet(Prebuilt) : \/ out[r] >= MaxNew[r] \/ r \in ending
                                             \/ out[r] = 1 /\ r \in eos}} :
       \E retract \in {Retraction(Batch(over), Avail + Sum(kv, Only(Prebuilt, over)))} :
       \E run \in {IF retract.oom THEN {} ELSE retract.stay} :
       LET last == {r \in run : out[r] + 1 >= MaxNew[r] \/ r \in ending \cup eos}
           freed == over \cup last \cup ToSet(retract.gone) \cup (retract.stay \ run)
       IN  /\ eos \subseteq over \cup run
           /\ waiting' = Drop(waiting, Len(Prebuilt))
           /\ running' = Only(Batch(over), run)
           /\ retracted' = retracted \o retract.gone
           /\ kv' = [r \in Reqs |-> IF r \in freed THEN 0
                                    ELSE IF r \in run THEN kv[r] + 1 ELSE kv[r]]
           /\ out' = [r \in Reqs |-> IF r \in run THEN out[r] + 1 ELSE out[r]]
           /\ answer' = [r \in Reqs |-> IF r \in over \cup last THEN "done"
                                        ELSE IF r \in retract.stay \ run THEN "oom"
                                        ELSE answer[r]]
    /\ phase' = "queue"
    /\ UNCHANGED <<prealloc, transfer, poll, ending>>

----------------------------------------------------------------------------
\* DecodePreallocQueue.add; no prompt is longer than the pool, see the assumption
Arrive(r) ==
    /\ phase = "queue" /\ poll[r] = "new"
    /\ prealloc' = Append(prealloc, r)
    /\ poll' = [poll EXCEPT ![r] = "waiting"]
    /\ UNCHANGED <<transfer, waiting, running, retracted, kv, out, ending, answer, phase>>

\* The transfer ends, or fails, or times out.
Transferred(r, result) ==
    /\ r \in ToSet(transfer) /\ poll[r] = "waiting"
    /\ poll' = [poll EXCEPT ![r] = result]
    /\ UNCHANGED <<queues, kv, out, ending, answer, phase>>

\* abort_request
Abort(r) ==
    /\ phase = "queue" /\ r \in Aborts \ Finished /\ poll[r] # "new"
    /\ LET queued == r \in ToSet(waiting \o retracted)
       IN  /\ waiting' = Only(waiting, Reqs \ {r})
           /\ retracted' = Only(retracted, Reqs \ {r})
           /\ kv' = IF queued THEN [kv EXCEPT ![r] = 0] ELSE kv
           /\ answer' = IF queued THEN [answer EXCEPT ![r] = "abort"] ELSE answer
           /\ poll' = IF r \in ToSet(prealloc \o transfer)
                      THEN [poll EXCEPT ![r] = "failed"] ELSE poll
           /\ ending' = IF r \in ToSet(running) THEN ending \cup {r} ELSE ending
    /\ UNCHANGED <<prealloc, transfer, running, out, phase>>

\* A token may end any request of the batch.
SomeBatch == \E eos \in SUBSET (ToSet(running \o Prebuilt) \ Finished) : RunBatch(eos)
SomeTransfer == \E r \in ToSet(transfer), result \in {"success", "failed"} : Transferred(r, result)
Next ==
    \/ Resume
    \/ Pop
    \/ SomeBatch
    \/ SomeTransfer
    \/ \E r \in Reqs : Arrive(r)
    \/ \E r \in Reqs : Abort(r)

\* The loop runs for ever and every transfer ends, by its timeout if by nothing else.
Spec == Init /\ [][Next]_vars /\ WF_vars(Resume \/ Pop \/ SomeBatch) /\ WF_vars(SomeTransfer)

----------------------------------------------------------------------------
\* Nothing runs or waits and the head of the retracted queue does not fit beside the memory
\* of the transfer queue, which is not looked at before that head is resumed.
Stalled ==
    /\ retracted # <<>> /\ waiting = <<>> /\ ToSet(running) \subseteq Finished
    /\ transfer # <<>>

\* The memory is never promised twice: what the requests in transfer, waiting and running hold
\* fits in the pool and in the rows, whatever was admitted, resumed, retracted and aborted in
\* between, and nobody else holds any.  _pre_alloc asserts it ("KV cache is full! Bug in memory
\* estimation", "req_pool_indices is full!").
MemoryFits ==
    /\ MapThenSumSet(LAMBDA r : kv[r], Reqs) = Pool - Avail /\ Avail >= 0
    /\ FreeRows >= 0

\* Admission leaves room for each request to finish.  pop_preallocated: "We need to make sure
\* that the sum of inflight tokens and allocatable tokens is greater than maximum input+output
\* length of each inflight request.  Otherwise it is possible for one request running decode
\* out of memory, while all other requests are in the transfer queue that cannot be retracted."
NeverOutOfMemory == \A r \in Reqs : answer[r] # "oom"

\* Every request on the decode server is answered, unless retracted requests and the
\* transfer queue wait for each other.
AnsweredOrStalled ==
    <>[](Stalled \/ \A r \in Reqs : poll[r] # "new" => answer[r] # "none")

\* Every request on the decode server is answered.
Answered == <>[](\A r \in Reqs : poll[r] # "new" => answer[r] # "none")
=============================================================================
