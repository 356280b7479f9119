------------------------------ MODULE FutureMap ------------------------------
(***************************************************************************)
(* managers/overlap_utils.py: the ring of the overlap loop.  A batch is    *)
(* launched before the tokens of the batch before it are known to the CPU; *)
(* its requests name their next input by a slot of this ring (a negative   *)
(* input id), and the forward stream fills the slot and reads it.  Slots   *)
(* are handed out by a counter and never given back, so what protects a    *)
(* slot that is still to be read is the length of the ring alone.          *)
(*                                                                         *)
(* A step is one iteration of event_loop_overlap: merge the last prefill   *)
(* into the running batch, launch a prefill or a decode, then process the  *)
(* result of the last batch.  What the scheduler decides inside (budgets,  *)
(* priorities) is module Scheduler and is a free choice here.  Not here:   *)
(* priority preemption, which takes requests out of the running batch      *)
(* during a prefill, and speculative decoding.                             *)
(***************************************************************************)
EXTENDS Integers, FiniteSets, Functions

CONSTANTS Reqs,        \* requests, an identity is used again once it has left
          MaxRunning,  \* max_running_requests
          MaxChunks,   \* max_num_chunks = ceil(context_len / chunked_prefill_size)
          MaxPasses    \* prefill batches one request can take part in

\* The first chunk is what the others of its batch leave over, the chunks after
\* it are chunked_prefill_size long unless memory is short, so a request can take
\* more passes than max_num_chunks.
ASSUME FutureAssumption ==
    /\ IsFiniteSet(Reqs)
    /\ {MaxRunning, MaxPasses} \subseteq Nat \ {0} /\ MaxChunks \in Nat
    /\ MaxPasses <= MaxChunks + 2

\* Mutant: a ring without room for the decode batch and the extra passes.
ShortRing == MaxRunning * (1 + MaxChunks)

future_limit == MaxRunning * (3 + MaxChunks)
future_buffer_len == future_limit + 2 * MaxRunning

VARIABLES future_ct,  \* the counter
          slot,       \* -output_ids: the slot a launched request reads next, 0 for none
          lost,       \* token_ids_buf, as far as it matters: the requests whose slot
                      \* holds the token of another one
          running,    \* running_batch.reqs
          last,       \* last_batch.reqs, its result outstanding
          chunked,    \* chunked_req: {} for None, or {r}
          passes,     \* prefill batches the chunked request was in, 0 without one
          finished,   \* the requests with finished(), still in running
          used        \* history: slots handed out by the last decode and since
vars == <<future_ct, slot, lost, running, last, chunked, passes, finished, used>>

TypeOK ==
    /\ future_ct \in 0 .. (future_limit - 1)
    /\ slot \in [Reqs -> 0 .. (future_buffer_len - 1)]
    /\ {lost, running, last, chunked, finished} \subseteq SUBSET Reqs
    /\ passes \in 0 .. MaxPasses
    /\ used \in Nat

Init ==
    /\ future_ct = 0 /\ passes = 0 /\ used = 0
    /\ slot = [r \in Reqs |-> 0] /\ lost = {}
    /\ running = {} /\ last = {} /\ chunked = {} /\ finished = {}

\* Mutant: a merge that leaves out what is finished.
MergeUnfinished == (running \ finished) \cup (last \ chunked)

\* get_next_batch_to_run: last_batch without the chunked request joins the
\* running batch.  A decode batch is the running batch itself.
Merged == running \cup (last \ chunked)

\* alloc_future_indices: bs slots from the counter on, the counter wraps.
Slots(bs) == (future_ct + 1) .. (future_ct + bs)

alloc_future_indices(bs) == future_ct' = (future_ct + bs) % future_limit

\* run_batch with overlap: the slots go to the requests of the batch in order,
\* the forward stream stores their next tokens there (store_to_map), over
\* whatever the slots held.
run_batch(B) ==
    LET bs == Cardinality(B)
    IN  /\ alloc_future_indices(bs)
        /\ \E f \in Bijection(B, Slots(bs)) :
             slot' = [r \in Reqs |-> IF r \in B THEN f[r]
                                    ELSE IF r \in running' THEN slot[r] ELSE 0]
        /\ lost' = {r \in running' \ B : r \in lost \/ slot[r] \in Slots(bs)}

\* pop_and_process: some requests of the last batch turn out to be finished.
\* They stay in the running batch until a decode filters it.
process_batch_result(fin) ==
    /\ fin \subseteq last \ chunked
    /\ finished' = (finished \cup fin) \cap running'

\* An iteration that launches the prefill batch B.  The chunked request goes
\* first; c is the request that is cut short this time.
Prefill(B, c, fin) ==
    LET pass(r) == IF r \in chunked THEN passes + 1 ELSE 1
    IN  /\ B # {} /\ B \cap Merged = {} /\ chunked \subseteq B
        /\ Cardinality(Merged) + Cardinality(B) <= MaxRunning
        /\ \/ c = {} /\ passes' = 0
           \/ \E r \in B : c = {r} /\ pass(r) < MaxPasses /\ passes' = pass(r)
        /\ running' = Merged /\ last' = B /\ chunked' = c
        /\ run_batch(B) /\ used' = used + Cardinality(B)
        /\ process_batch_result(fin)

\* An iteration that finds no prefill to launch.  update_running_batch drops the
\* finished requests and retracts some of the others; what is left decodes.  A
\* chunked request would have been a prefill.
Decode(retracted, fin) ==
    LET D == (Merged \ finished) \ retracted
    IN  /\ chunked = {}
        /\ running' = D /\ last' = D
        /\ run_batch(D) /\ used' = Cardinality(D)
        /\ process_batch_result(fin)
        /\ UNCHANGED <<chunked, passes>>

Next ==
    \/ \E B \in SUBSET Reqs, fin \in SUBSET last :
         \E c \in {{}} \cup {{r} : r \in B} : Prefill(B, c, fin)
    \/ \E retracted \in SUBSET Merged, fin \in SUBSET last : Decode(retracted, fin)

Spec == Init /\ [][Next]_vars

\* resolve_future reads the slot a request names when it decodes next: that slot
\* still holds its own token, whatever prefills were launched in between.
SlotIntact == lost \subseteq finished

\* What the length of the ring rests on: the slots handed out by the last decode
\* and since go round the ring at most once, because every request that took
\* some is still counted in the running batch.
NoLap == used <= MaxPasses * MaxRunning
==============================================================================
