------------------------------ MODULE Scheduler ------------------------------
(***************************************************************************)
(* The event loop of managers/scheduler.py: receive, get_next_batch_to_run *)
(* (merge the last prefill, try a prefill with PrefillAdder, otherwise     *)
(* decode, with retraction), run, process the result.  The loop is one     *)
(* thread, so its phases are the values of pc; clients act while it        *)
(* receives.                                                               *)
(*                                                                         *)
(* Memory is counted in tokens: what a request holds is its kv rounded up  *)
(* to pages, all that is cached and unlocked can be had (KVCache,          *)
(* EvictableReachable), and prompts share no prefix.  A batch is the set   *)
(* of its requests; the order inside a batch is looked at nowhere but in   *)
(* the retraction, which sorts.  Not here: mixed chunked prefill,          *)
(* speculative decoding, LoRA, grammar, disaggregation, pipelines.         *)
(***************************************************************************)
EXTENDS Integers, SequencesExt

CONSTANTS Reqs,        \* requests
          InputLen,    \* len(origin_input_ids)
          MaxNew,      \* sampling_params.max_new_tokens
          Priority,    \* priority, 1 before 0
          Total,       \* max_total_num_tokens
          PageSize,
          ChunkSize,   \* chunked_prefill_size, 0 for None
          MaxPrefill,  \* max_prefill_tokens
          MaxRunning,  \* max_running_requests
          Unit,        \* new_token_ratio is counted in 1 / Unit
          Ratios,      \* the values of Unit * new_token_ratio, the initial one largest
          Overlap,     \* event_loop_overlap or event_loop_normal
          Preemption,  \* enable_priority_preemption
          Aborts,      \* clients may abort
          PauseModes,  \* the modes pause_generation is called with
          MaxPauses    \* bound on the number of these calls

ASSUME SchedulerAssumption ==
    /\ IsFiniteSet(Reqs)
    /\ {PageSize, Total, MaxPrefill, MaxRunning, Unit} \subseteq Nat \ {0}
    /\ Total % PageSize = 0 /\ ChunkSize \in Nat /\ ChunkSize % PageSize = 0
    /\ Ratios # {} /\ Ratios \subseteq 1 .. Unit
    /\ \A r \in Reqs :
         /\ InputLen[r] \in Nat \ {0} /\ MaxNew[r] \in Nat \ {0} /\ Priority[r] \in {0, 1}
         \* init_req_max_new_tokens with max_req_len = Total - 1
         /\ MaxNew[r] <= (Total - 1) - InputLen[r] - 1
    /\ {Overlap, Preemption, Aborts} \subseteq BOOLEAN
    /\ PauseModes \subseteq {"in_place", "retract"} /\ MaxPauses \in Nat

VARIABLES pc,        \* the phase of the loop
          paused,    \* _engine_paused
          pauses,    \* calls of pause_generation so far
          ratio,     \* Unit * new_token_ratio
          waiting,   \* waiting_queue
          running,   \* running_batch.reqs
          full,      \* running_batch.batch_is_full
          last,      \* last_batch; with Overlap its result is outstanding
          cur,       \* the batch chosen in this iteration
          chunked,   \* chunked_req: {} for None, or {r}
          adder,     \* the PrefillAdder
          retracted, \* retracted_reqs of retract_decode
          req        \* the requests
vars == <<pc, paused, pauses, ratio, waiting, running, full, last, cur, chunked, adder, retracted,
          req>>

NoReq ==
    [arrived |-> FALSE,
     out |-> 0,                   \* len(output_ids)
     kv |-> 0,                    \* kv_committed_len
     extend_input_len |-> 0,
     is_chunked |-> 0,
     finished |-> FALSE,          \* finished_reason is set
     to_finish |-> FALSE,
     is_retracted |-> FALSE,
     finished_output |-> FALSE,
     answers |-> 0]               \* final answers sent to the tokenizer manager

NoBatch == [mode |-> "none", reqs |-> {}, chunked_req |-> {}]
NoAdder ==
    [can_run |-> {}, preempt |-> {}, new_chunked |-> {}, cleared |-> FALSE, next |-> 1,
     total_offset |-> 0, cur_offset |-> 0, rem_input |-> 0, rem_chunk |-> 0]

Ceil(n) == PageSize * ((n + PageSize - 1) \div PageSize)
Floor(n) == PageSize * (n \div PageSize)
Least(m, n) == IF m <= n THEN m ELSE n
Finished == {r \in Reqs : req[r].finished}
FullLen(r) == InputLen[r] + req[r].out
RemainingNew(r) == MaxNew[r] - req[r].out

\* available_size() + evictable_size()
available == Total - MapThenSumSet(LAMBDA r : Ceil(req[r].kv), Reqs)

\* release_kv_cache
Freed(q) == [q EXCEPT !.kv = 0]
\* Mutant: a retraction keeps the memory.
Released_leaked(q) == [q EXCEPT !.extend_input_len = 0, !.is_retracted = TRUE, !.is_chunked = 0]
\* Mutant: a retraction forgets that the request was aborted.
Released_unaborted(q) ==
    [Freed(q) EXCEPT !.extend_input_len = 0, !.is_retracted = TRUE, !.is_chunked = 0,
                     !.to_finish = FALSE]
\* release_req with reset_for_retract
Released(q) ==
    [Freed(q) EXCEPT !.extend_input_len = 0, !.is_retracted = TRUE, !.is_chunked = 0]
-----------------------------------------------------------------------------
Init ==
    /\ pc = "recv" /\ paused = FALSE /\ pauses = 0 /\ ratio = Max(Ratios)
    /\ waiting = << >> /\ running = {} /\ full = FALSE
    /\ last = NoBatch /\ cur = NoBatch /\ chunked = {}
    /\ adder = NoAdder /\ retracted = << >>
    /\ req = [r \in Reqs |-> NoReq]

Arrive(r) ==
    /\ pc = "recv" /\ ~req[r].arrived
    /\ req' = [req EXCEPT ![r].arrived = TRUE]
    /\ waiting' = Append(waiting, r)
    /\ UNCHANGED <<pc, paused, pauses, ratio, running, full, last, cur, chunked, adder, retracted>>

Without(s, S) == SelectSeq(s, LAMBDA r : r \notin S)
\* Mutant: what the scheduler takes out of a batch does not come back.
Requeued_lost(s, order) == s
\* _add_request_to_queue of retracted or preempted requests
Requeued(s, order) == s \o order
InQueue(r) == \E i \in DOMAIN waiting : waiting[i] = r

(* abort_request: a waiting request goes at once, one of running_batch or  *)
(* of cur_batch (here still the batch of the last iteration) is marked.    *)
Abort(r) ==
    /\ Aborts /\ pc = "recv"
    /\ \/ /\ InQueue(r)
          /\ waiting' = Without(waiting, {r})
          /\ req' = [req EXCEPT ![r].answers = @ + 1]
       \/ /\ r \in (running \cup last.reqs) \ Finished /\ ~req[r].to_finish
          /\ req' = [req EXCEPT ![r].to_finish = TRUE]
          /\ UNCHANGED waiting
    /\ UNCHANGED <<pc, paused, pauses, ratio, running, full, last, cur, chunked, adder, retracted>>
-----------------------------------------------------------------------------
\* Mutant: the result of a request that was retracted meanwhile is used.
Skipped_finished(q) == q.finished
\* A result that is not looked at any more.
Skipped(q) == q.finished \/ q.is_retracted

(* process_batch_result_prefill / _decode with check_finished and          *)
(* stream_output: the requests of eos meet a stop condition.               *)
Processed(q, r, mode, eos) ==
    IF Skipped(q) THEN q
    ELSE IF mode = "extend" /\ q.is_chunked > 0 THEN [q EXCEPT !.is_chunked = @ - 1]
    ELSE IF q.to_finish \/ q.out + 1 >= MaxNew[r] \/ r \in eos
    THEN [Freed(q) EXCEPT !.out = @ + 1, !.finished = TRUE, !.finished_output = TRUE,
                          !.answers = IF q.finished_output THEN @ ELSE @ + 1]
    ELSE [q EXCEPT !.out = @ + 1]
Results(batch, eos) ==
    [r \in Reqs |-> IF r \in batch.reqs THEN Processed(req[r], r, batch.mode, eos)
                                        ELSE req[r]]

\* The requests of the batch whose result has not been processed.
Outstanding == IF Overlap THEN last.reqs ELSE {}

(* pause_generation: in_place only sets the flag.  retract processes the   *)
(* outstanding result, takes the requests of the last prefill in (the      *)
(* chunked one too) and puts all that did not finish back in the queue.    *)
PauseCall(mode) ==
    /\ pc = "recv" /\ mode \in PauseModes /\ pauses < MaxPauses
    /\ pauses' = pauses + 1 /\ paused' = TRUE
PauseInPlace ==
    /\ PauseCall("in_place")
    /\ UNCHANGED <<pc, ratio, waiting, running, full, last, cur, chunked, adder, retracted, req>>
PauseRetract ==
    /\ PauseCall("retract")
    /\ \E eos \in SUBSET Outstanding :
        LET rq == IF Overlap THEN Results(last, eos) ELSE req
            merged == IF last.mode = "extend"
                      THEN running \cup {r \in last.reqs : ~rq[r].finished} ELSE running
            back == {r \in merged : ~rq[r].finished}
        IN /\ req' = [r \in Reqs |-> IF r \in back THEN Released(rq[r]) ELSE rq[r]]
           /\ running' = {}
           /\ full' = (full /\ merged = {})
           /\ chunked' = IF merged = {} THEN chunked ELSE {}
           /\ \E order \in SetToSeqs(back) : waiting' = Requeued(waiting, order)
    /\ last' = NoBatch /\ cur' = NoBatch
    /\ UNCHANGED <<pc, ratio, adder, retracted>>
ContinueGeneration ==
    /\ pc = "recv" /\ paused /\ paused' = FALSE
    /\ UNCHANGED <<pc, pauses, ratio, waiting, running, full, last, cur, chunked, adder, retracted, req>>
-----------------------------------------------------------------------------
(* get_next_batch_to_run: what is left of the last prefill batch, without  *)
(* the chunked request, joins running_batch; an empty running_batch is     *)
(* replaced by it, flag included.                                          *)
Kept == last.reqs \ (Finished \cup chunked \cup last.chunked_req)
\* Mutant: requests that finished with their prefill do not make room.
FlagAfterMerge_sticky == full
FlagAfterMerge == full /\ Kept = last.reqs /\ running # {}
MergeLastBatch ==
    /\ pc = "recv" /\ ~paused /\ pc' = "prefill"
    /\ IF last.mode = "extend"
       THEN /\ running' = running \cup Kept
            /\ full' = FlagAfterMerge
       ELSE UNCHANGED <<running, full>>
    /\ UNCHANGED <<paused, pauses, ratio, waiting, last, cur, chunked, adder, retracted, req>>

num_allocatable_reqs == MaxRunning - Cardinality(running)

\* _get_new_batch_prefill_raw, its early returns.
FlagAtPrefill == full /\ ~Preemption
NothingToPrefill == (FlagAtPrefill \/ waiting = << >>) /\ chunked = {}
NoRowLeft == num_allocatable_reqs <= 0 /\ chunked = {} /\ ~Preemption
SkipPrefill ==
    /\ pc = "prefill" /\ pc' = "decode"
    /\ NothingToPrefill \/ NoRowLeft
    /\ full' = (FlagAtPrefill \/ (~NothingToPrefill /\ NoRowLeft))
    /\ UNCHANGED <<paused, pauses, ratio, waiting, running, last, cur, chunked, adder, retracted, req>>

\* calc_priority: FCFS, within a priority when those are enabled.
Ordered(s) ==
    IF Preemption
    THEN SelectSeq(s, LAMBDA r : Priority[r] = 1) \o SelectSeq(s, LAMBDA r : Priority[r] = 0)
    ELSE s

\* PrefillAdder: the budget that is left (rem_total_tokens in 1 / Unit).
TokenOffset(r) == ratio * RemainingNew(r)
rem_total_tokens(a) == Unit * available - a.total_offset
cur_rem_tokens(a) == available - a.cur_offset
NewAdder ==
    [NoAdder EXCEPT
        !.total_offset = MapThenSumSet(TokenOffset, running),
        !.rem_input = MaxPrefill, !.rem_chunk = ChunkSize]
\* can_run_list.append and _update_prefill_budget
Charged(a, r, extend, max_new) ==
    [a EXCEPT !.can_run = @ \cup {r},
              !.total_offset = @ + Unit * (Ceil(extend) + max_new + PageSize),
              !.cur_offset = @ + Ceil(extend) + PageSize,
              !.rem_input = @ - Ceil(extend),
              !.rem_chunk = @ - Ceil(extend)]

\* add_chunked_req: as much of the rest as the chunk and the budget allow,
\* and a whole chunk when the budget allows nothing.
ChunkTokens(a) ==
    LET rem == Least(a.rem_chunk, rem_total_tokens(a) \div Unit)
    IN  IF rem <= 0 THEN a.rem_chunk ELSE rem

StartPrefill ==
    /\ pc = "prefill" /\ pc' = "add"
    /\ ~NothingToPrefill /\ ~NoRowLeft
    /\ full' = FlagAtPrefill
    /\ waiting' = Ordered(waiting)
    /\ IF chunked = {}
       THEN adder' = NewAdder /\ UNCHANGED <<chunked, req>>
       ELSE \E c \in chunked :
             LET rest == FullLen(c) - req[c].kv
                 room == ChunkTokens(NewAdder)
             IN /\ req' = [req EXCEPT ![c].extend_input_len = Least(rest, room)]
                /\ adder' = Charged(NewAdder, c, Least(rest, room),
                                    IF rest > room THEN 0 ELSE MaxNew[c])
                /\ chunked' = IF rest > room THEN {c} ELSE {}
    /\ UNCHANGED <<paused, pauses, ratio, running, last, cur, retracted>>
-----------------------------------------------------------------------------
\* The loop over waiting_queue: the next request, and whether it needs a
\* preemption to be looked at.
More == adder.next <= Len(waiting)
Candidate == waiting[adder.next]
\* Mutant: off by one.
AtLimit_over == full \/ Cardinality(adder.can_run) > num_allocatable_reqs
AtLimit == full \/ Cardinality(adder.can_run) >= num_allocatable_reqs

\* What preempt_to_schedule may release: requests of lower priority, just as
\* many as their estimated rest makes up for the tokens that are missing.
Missing(r) == Unit * (req[r].extend_input_len + MaxNew[r]) - rem_total_tokens(adder)
Offsets(S) == MapThenSumSet(TokenOffset, S)
Preemptible(r) == {v \in running \ (Finished \cup adder.preempt) : Priority[v] < Priority[r]}
Victims(r) ==
    {S \in SUBSET Preemptible(r) :
        /\ S # {} /\ Missing(r) <= Offsets(S)
        /\ \E v \in S : S = {v} \/ Missing(r) > Offsets(S \ {v})}

StopAtLimit ==
    /\ pc = "add" /\ pc' = "batch"
    /\ \/ ~More /\ UNCHANGED full
       \/ /\ More /\ AtLimit /\ ~adder.cleared /\ full' = TRUE
          /\ ~Preemption \/ Victims(Candidate) = {}
    /\ UNCHANGED <<paused, pauses, ratio, waiting, running, last, cur, chunked, adder, retracted, req>>
Preempt ==
    /\ pc = "add" /\ Preemption
    /\ More /\ AtLimit /\ ~adder.cleared /\ full' = TRUE
    /\ \E S \in Victims(Candidate) :
        /\ running' = running \ S
        /\ req' = [r \in Reqs |-> IF r \in S THEN Released(req[r]) ELSE req[r]]
        /\ adder' = [adder EXCEPT !.preempt = @ \cup S, !.cleared = TRUE,
                                  !.total_offset = @ - Offsets(S)]
    /\ UNCHANGED <<pc, paused, pauses, ratio, waiting, last, cur, chunked, retracted>>

\* add_one_req: the conditions of its results...
\* Mutant: the prompt alone is compared with the memory.
NoToken_prompt(r) == FullLen(r) > Total
NoToken(r) == Unit * (FullLen(r) + RemainingNew(r) + PageSize) >= rem_total_tokens(adder)
\* Mutant: a prompt over the budget does not go through alone either.
OverInput_alone(r) == Ceil(FullLen(r)) >= adder.rem_input
OverInput(r) == Ceil(FullLen(r)) >= adder.rem_input /\ adder.can_run # {}
WholeInput(r) == ChunkSize = 0 \/ Ceil(FullLen(r)) <= adder.rem_chunk
NoChunk(r) == ~WholeInput(r) /\ Floor(adder.rem_chunk) <= 0
\* ...and of budget_state.
OutOfTokens(a) == rem_total_tokens(a) <= 0 \/ cur_rem_tokens(a) <= 0
OutOfInput(a) == a.rem_input <= 0 \/ (ChunkSize > 0 /\ a.rem_chunk <= 0)

AddOneReq ==
    /\ pc = "add" /\ More /\ (adder.cleared \/ ~AtLimit)
    /\ LET r == Candidate
           extend == IF WholeInput(r) THEN FullLen(r) ELSE Floor(adder.rem_chunk)
           charged == [Charged(adder, r, extend, IF WholeInput(r) THEN MaxNew[r] ELSE 0)
                         EXCEPT !.next = @ + 1, !.cleared = FALSE,
                                !.new_chunked = IF WholeInput(r) THEN @ ELSE {r}]
       IN IF NoToken(r) \/ OverInput(r) \/ NoChunk(r)
          THEN /\ pc' = "batch" /\ full' = (full \/ NoToken(r))
               /\ req' = [req EXCEPT ![r].extend_input_len = FullLen(r)]
               /\ UNCHANGED adder
          ELSE /\ adder' = charged
               /\ req' = [req EXCEPT ![r].extend_input_len = extend]
               /\ full' = (full \/ OutOfTokens(charged))
               /\ pc' = IF OutOfTokens(charged) \/ OutOfInput(charged) THEN "batch" ELSE "add"
    /\ UNCHANGED <<paused, pauses, ratio, waiting, running, last, cur, chunked, retracted>>

\* What alloc_for_extend takes for the new batch.
PagesToAlloc ==
    MapThenSumSet(LAMBDA r : Ceil(req[r].kv + req[r].extend_input_len) - Ceil(req[r].kv),
                  adder.can_run)

(* The end of _get_new_batch_prefill_raw.  With nothing to run it returns  *)
(* before preempt_list is looked at.                                       *)
NoNewBatch ==
    /\ pc = "batch" /\ adder.can_run = {}
    /\ pc' = "decode" /\ adder' = NoAdder
    /\ UNCHANGED <<paused, pauses, ratio, waiting, running, full, last, cur, chunked, retracted, req>>
NewBatch ==
    /\ pc = "batch" /\ adder.can_run # {} /\ PagesToAlloc <= available
    /\ pc' = "run" /\ adder' = NoAdder
    /\ chunked' = chunked \cup adder.new_chunked
    /\ cur' = [mode |-> "extend", reqs |-> adder.can_run, chunked_req |-> chunked']
    /\ \E order \in SetToSeqs(adder.preempt) :
        waiting' = Requeued(Without(waiting, adder.can_run), order)
    /\ req' = [r \in Reqs |->
                IF r \notin adder.can_run THEN req[r]
                ELSE [req[r] EXCEPT
                        !.kv = @ + req[r].extend_input_len, !.is_retracted = FALSE,
                        !.is_chunked = IF r \in chunked' THEN @ + 1 ELSE @]]
    /\ UNCHANGED <<paused, pauses, ratio, running, full, last, retracted>>
-----------------------------------------------------------------------------
\* check_decode_mem of the requests S: a page for each that has filled its own.
NeededNextDecode(S) == PageSize * Cardinality({r \in S : req[r].kv % PageSize = 0})
CheckDecodeMem(S) == available >= NeededNextDecode(S)

\* prepare_for_decode of the requests S, given the requests rq.
DecodeOf(S) == IF S = {} THEN NoBatch ELSE [mode |-> "decode", reqs |-> S, chunked_req |-> {}]
Grown(rq, S) == [r \in Reqs |-> IF r \in S THEN [rq[r] EXCEPT !.kv = @ + 1] ELSE rq[r]]

(* update_running_batch: finished requests are filtered out; the others    *)
(* decode if there is memory for all, otherwise some are retracted.  Only  *)
(* here does new_token_ratio change: a decode lets it decay by a small     *)
(* step, which may or may not take it to a smaller one of Ratios, and a    *)
(* retraction sets it to the estimate of retract_decode, any of them.      *)
Decayed == IF running \subseteq Finished THEN {ratio} ELSE {q \in Ratios : q <= ratio}
UpdateRunningBatch ==
    /\ pc = "decode"
    /\ LET S == running \ Finished IN
       /\ running' = S
       /\ IF CheckDecodeMem(S)
          THEN /\ pc' = "run" /\ cur' = DecodeOf(S) /\ req' = Grown(req, S)
               /\ full' = (full /\ S = running) /\ ratio' \in Decayed
          ELSE /\ pc' = "retract" /\ UNCHANGED <<cur, req, full, ratio>>
    /\ UNCHANGED <<paused, pauses, waiting, last, chunked, adder, retracted>>

\* retract_decode: the shortest output goes first, then the longest input.
RetractFirst(v, r) ==
    \/ req[v].out < req[r].out
    \/ req[v].out = req[r].out /\ InputLen[v] >= InputLen[r]
RetractOne ==
    /\ pc = "retract"
    /\ Cardinality(running) > 1 /\ (retracted = << >> \/ ~CheckDecodeMem(running))
    /\ \E v \in running :
        /\ \A r \in running : RetractFirst(v, r)
        /\ running' = running \ {v}
        /\ retracted' = Append(retracted, v)
        /\ req' = [req EXCEPT ![v] = Released(@)]
    /\ UNCHANGED <<pc, paused, pauses, ratio, waiting, full, last, cur, chunked, adder>>
\* The last request is dropped with an AbortReq if it does not fit alone.
RetractEnd ==
    /\ pc = "retract" /\ pc' = "run"
    /\ Cardinality(running) = 1 \/ (retracted # << >> /\ CheckDecodeMem(running))
    /\ LET S == IF CheckDecodeMem(running) THEN running ELSE {}
           dropped == [r \in Reqs |->
                         IF r \in running \ S
                         THEN [Released(req[r]) EXCEPT !.to_finish = TRUE, !.answers = @ + 1]
                         ELSE req[r]]
       IN /\ running' = S /\ cur' = DecodeOf(S) /\ req' = Grown(dropped, S)
          /\ ratio' \in IF S = {} THEN {0} ELSE Ratios
    /\ waiting' = Requeued(waiting, retracted) /\ retracted' = << >>
    /\ full' = FALSE
    /\ UNCHANGED <<paused, pauses, last, chunked, adder>>

(* run_batch and the end of the iteration: event_loop_normal processes the *)
(* result at once, event_loop_overlap that of the batch before.  With no   *)
(* batch and nothing left to do on_idle takes new_token_ratio back to its  *)
(* initial value.                                                          *)
is_fully_idle ==
    /\ cur = NoBatch /\ (Overlap => last = NoBatch)
    /\ running = {} /\ chunked = {} /\ waiting = << >>
RunBatch ==
    /\ pc = "run" /\ pc' = "recv"
    /\ LET batch == IF Overlap THEN last ELSE cur IN
       \E eos \in SUBSET {r \in batch.reqs : ~Skipped(req[r])} : req' = Results(batch, eos)
    /\ last' = cur /\ cur' = NoBatch
    /\ ratio' = IF is_fully_idle THEN Max(Ratios) ELSE ratio
    /\ UNCHANGED <<paused, pauses, waiting, running, full, chunked, adder, retracted>>

Loop ==
    \/ MergeLastBatch \/ SkipPrefill \/ StartPrefill \/ StopAtLimit \/ Preempt \/ AddOneReq
    \/ NoNewBatch \/ NewBatch \/ UpdateRunningBatch \/ RetractOne \/ RetractEnd \/ RunBatch
Next ==
    \/ \E r \in Reqs : Arrive(r) \/ Abort(r)
    \/ PauseInPlace \/ PauseRetract \/ ContinueGeneration
    \/ Loop
Spec == Init /\ [][Next]_vars

\* The loop is one thread that never stops, and a pause is ended by the client.
FairSpec == Spec /\ WF_vars(Loop) /\ WF_vars(ContinueGeneration)
-----------------------------------------------------------------------------
\* The requests that the loop works on: running, or prefilled and not merged.
Active == running \cup (IF last.mode = "extend" THEN last.reqs ELSE {})

(* Nobody is lost and nobody is served twice: between two iterations every *)
(* request without a final answer is either in the waiting queue, once, or *)
(* in a batch, and one with an answer is in no queue.  This is what the    *)
(* retraction, the preemption, the chunk hand-over and the pause have to   *)
(* keep up.                                                                *)
InOnePlace ==
    pc = "recv" =>
      \A r \in Reqs :
        Cardinality({i \in DOMAIN waiting : waiting[i] = r})
          + (IF r \in Active \ Finished THEN 1 ELSE 0)
            = IF req[r].arrived /\ req[r].answers = 0 THEN 1 ELSE 0

(* A client gets one final answer, although an abort, the extra decode     *)
(* step of the overlap loop and a late result of a retracted request race. *)
AnsweredOnce == \A r \in Reqs : req[r].answers <= 1

(* PrefillAdder's budget is safe: alloc_for_extend of a new batch always   *)
(* finds its pages (it raises RuntimeError otherwise), also for a chunk    *)
(* that add_chunked_req lets through with no budget left.                  *)
PrefillFits == pc = "batch" => PagesToAlloc <= available

(* No row of req_to_token is missing: the requests that hold memory are at *)
(* most max_running_requests.                                              *)
RowsFit == Cardinality({r \in Reqs : req[r].kv > 0}) <= MaxRunning

(* The comment in _get_new_batch_prefill_raw: "when self.chunked_req is    *)
(* not None, num_allocatable_reqs should always be greater than 0".        *)
ChunkedHasRoom == pc = "prefill" /\ chunked # {} => num_allocatable_reqs > 0

(* The assertion of _get_new_batch_prefill_raw: a second request is never  *)
(* cut to a chunk while one is in progress.  add_one_req does not look at  *)
(* chunked_req; it is the memory a prompt was admitted with, still there   *)
(* in each later pass, that lets every chunk but the last use up the chunk *)
(* budget, whatever is preempted, aborted or retracted in between.         *)
OneChunked == pc = "batch" /\ adder.new_chunked # {} => chunked = {}

(* retract_decode never has to drop the last request for lack of memory.   *)
LastOneFits == pc = "retract" /\ Cardinality(running) = 1 => CheckDecodeMem(running)

(* "Set batch_is_full after making sure there are requests that can be     *)
(* served": with the flag set and nothing in a batch no step would ever    *)
(* reset it, and no prefill would be tried again.                          *)
FullMeansBusy == pc = "recv" /\ full => Active # {}

(* An abort is not forgotten: a request marked to_finish stays marked,     *)
(* through retraction and preemption, and its next token is its last.      *)
AbortIsFinal ==
    [][\A r \in Reqs :
          req[r].to_finish =>
            /\ req'[r].to_finish
            /\ req'[r].out > req[r].out => req'[r].finished]_vars

(* Every request gets its final answer.                                    *)
EventuallyAnswered == \A r \in Reqs : req[r].arrived ~> req[r].answers > 0
=============================================================================
