------------------------------ MODULE RequestPath ------------------------------
(***************************************************************************)
(* The way of a request from the tokenizer manager to the schedulers and   *)
(* back: it acquires its LoRA adapter (LoRARegistry), is sent to all ranks *)
(* of the tensor parallel group, waits there for its grammar               *)
(* (GrammarManager), is run, and its answer gives the adapter back.  Every *)
(* request here has an adapter; those in Constrained have a grammar too.   *)
(***************************************************************************)
EXTENDS LoRARegistry, GrammarManager

ASSUME RequestPathAssumption == Constrained \subseteq Reqs

VARIABLE waiting  \* waiting_queue and running_batch: the requests not yet answered
vars == <<loraVars, grammarVars, waiting>>

Init == LoraInit /\ GrammarInit /\ waiting = {}

\* handle_generate_request on all ranks.
Send(r) ==
    /\ Dispatch(r)
    /\ IF r \in Constrained
       THEN /\ Receive(r)
            /\ waiting' = IF \E k \in Ranks : Contains(released'[k], r) THEN waiting \cup {r}
                                                                        ELSE waiting
       ELSE /\ Receiving /\ waiting' = waiting \cup {r} /\ UNCHANGED grammarVars

\* get_new_batch_prefill puts what the grammar manager returns on the queue.
GrammarReady ==
    /\ Sync
    /\ waiting' = waiting \cup UNION {ToSet(released'[k]) \ ToSet(released[k]) : k \in Ranks}
    /\ UNCHANGED loraVars

\* The request was run, or ends with the abort its grammar brought it.
Finish(r) ==
    /\ r \in waiting /\ waiting' = waiting \ {r}
    /\ \E status \in {200, 500} : BatchOutput(r, status)
    /\ UNCHANGED grammarVars

\* The scheduler takes it out of the waiting queue: AbortReq, or a full queue.
TakeOut(r) ==
    /\ r \in waiting /\ waiting' = waiting \ {r}
    /\ \E status \in {0, 503} : AbortOutput(r, status)
    /\ UNCHANGED grammarVars

Tokenizer(r) == Resolve(r) \/ Increment(r) \/ LoadFor(r) \/ TokenizeError(r) \/ Release(r)
Job == BackendLoad \/ WaitForUnload \/ BackendUnload

Next ==
    \/ \E r \in Reqs : Tokenizer(r) /\ UNCHANGED <<grammarVars, waiting>>
    \/ \E n \in Names : (CallLoad(n) \/ CallUnload(n)) /\ UNCHANGED <<grammarVars, waiting>>
    \/ Job /\ UNCHANGED <<grammarVars, waiting>>
    \/ \E r \in Reqs : Send(r) \/ Finish(r) \/ TakeOut(r)
    \/ \E r \in Constrained : Abort(r) /\ UNCHANGED <<loraVars, waiting>>
    \/ \E k \in Ranks : \E r \in Constrained : Compiled(k, r) /\ UNCHANGED <<loraVars, waiting>>
    \/ \E k \in Ranks : Poll(k) /\ UNCHANGED <<loraVars, waiting>>
    \/ GrammarReady
    \/ waiting = {} /\ Clear /\ UNCHANGED <<loraVars, waiting>>

\* What the program does of itself: coroutines that can go on do, the backend
\* answers, the schedulers poll and finish what they hold.  Not in it are the
\* calls from outside, the aborts and the compilers.
Progress ==
    \/ /\ \/ \E r \in Reqs : Resolve(r) \/ Increment(r) \/ LoadFor(r) \/ Release(r)
          \/ Job
       /\ UNCHANGED <<grammarVars, waiting>>
    \/ \E r \in Reqs : Send(r) \/ Finish(r)
    \/ \E k \in Ranks : Poll(k) /\ UNCHANGED <<loraVars, waiting>>
    \/ GrammarReady

Spec == Init /\ [][Next]_vars /\ WF_vars(Progress)

-----------------------------------------------------------------------------
\* The requests that count as users of their adapter.
Users(i) == {r \in Reqs : req[r].id = i /\ req[r].pc \in {"acquired", "sent", "answered"}}

\* Counters for ongoing requests (lora_registry.py): the counter of an adapter is
\* the number of requests that acquired it and have not given it back.
CountExact == \A i \in live : counter[i] = Cardinality(Users(i))

\* An adapter is in the backend as long as a request that acquired it may be run
\* on some rank, whatever is loaded, evicted and unloaded meanwhile.  This is
\* said of requests that name one adapter: for a list the count comes late.
ResidentWhileUsed ==
    \A r \in Reqs \ Lists : req[r].pc \in {"acquired", "sent"} => loaded[req[r].id] = Adapter[r]

\* As long as no count leaks, nothing blocks lora_update_lock for good: the last
\* load or unload ends and every request is answered, even if no grammar ever
\* compiles.
Answered == []CountExact => <>[](job = NoJob /\ \A r \in Reqs : req[r].pc = "done")
==============================================================================
