---------------------------- MODULE GrammarManager ----------------------------
(***************************************************************************)
(* constrained/grammar_manager.py on all ranks of a tensor parallel group. *)
(* Every rank receives the same requests in the same order and compiles    *)
(* their grammars itself, in a thread pool that finishes when it likes.  A *)
(* poll finds out which grammars are ready on this rank and which ones it  *)
(* gave up on; the ranks gather each other's answers and go on with the    *)
(* intersection of the first and the union of the second.  The requests    *)
(* are named by their index in the queue, so the queues have to stay equal.*)
(*                                                                         *)
(* Only requests with a grammar are here; a grammar is its key.            *)
(***************************************************************************)
EXTENDS Integers, SequencesExt

CONSTANTS Constrained, \* requests with a grammar
          Ranks,     \* the ranks of dp_tp_group
          Key,       \* grammar_key of a request
          Invalid,   \* the keys that do not compile
          MaxPolls   \* SGLANG_GRAMMAR_MAX_POLL_ITERATIONS

ASSUME GrammarAssumption == Ranks # {} /\ MaxPolls \in Nat \ {0}

Keys == {Key[r] : r \in Constrained}

VARIABLES queue,    \* grammar_queue, per rank
          grammar,  \* req.grammar, per rank: a Future (pending, done), or what it became
          waits,    \* grammar_wait_ct, per rank
          cache,    \* grammar_backend.cache, per rank
          polled,   \* per rank, between its poll and the all_gather: its answer
          released  \* requests handed to the waiting queue, in order, per rank
grammarVars == <<queue, grammar, waits, cache, polled, released>>

NotPolled == [ready |-> {}, failed |-> {}, done |-> FALSE]

GrammarInit ==
    /\ queue = [k \in Ranks |-> <<>>] /\ released = [k \in Ranks |-> <<>>]
    /\ grammar = [k \in Ranks |-> [r \in Constrained |-> "none"]]
    /\ waits = [k \in Ranks |-> [r \in Constrained |-> 0]]
    /\ cache = [k \in Ranks |-> [y \in Keys |-> "none"]]
    /\ polled = [k \in Ranks |-> NotPolled]

\* No rank is inside get_ready_grammar_requests: requests are received then.
Receiving == \A k \in Ranks : ~polled[k].done

\* process_req_with_grammar: a cached grammar is used, a cached failure aborts
\* the request, anything else is submitted and queued.
Receive(r) ==
    /\ Receiving
    /\ \A k \in Ranks : grammar[k][r] = "none" /\ ~Contains(released[k], r)
    /\ grammar' = [k \in Ranks |->
         [grammar[k] EXCEPT ![r] = CASE cache[k][Key[r]] = "none"    -> "pending"
                                     [] cache[k][Key[r]] = "invalid" -> "aborted"
                                     [] OTHER                        -> "valid"]]
    /\ queue' = [k \in Ranks |-> IF cache[k][Key[r]] = "none" THEN Append(queue[k], r)
                                                              ELSE queue[k]]
    /\ released' = [k \in Ranks |-> IF cache[k][Key[r]] = "none" THEN released[k]
                                                                 ELSE Append(released[k], r)]
    /\ UNCHANGED <<waits, cache, polled>>

\* abort_requests: cancel the future, set_finish_with_abort.  The request stays
\* in the queue.
Abort(r) ==
    /\ Receiving /\ \E k \in Ranks : Contains(queue[k], r) /\ grammar[k][r] # "aborted"
    /\ grammar' = [k \in Ranks |-> IF Contains(queue[k], r)
                                   THEN [grammar[k] EXCEPT ![r] = "aborted"] ELSE grammar[k]]
    /\ UNCHANGED <<queue, waits, cache, polled, released>>

\* A future of the thread pool completes.
Compiled(k, r) ==
    /\ grammar[k][r] = "pending"
    /\ grammar' = [grammar EXCEPT ![k][r] = "done"]
    /\ UNCHANGED <<queue, waits, cache, polled, released>>

\* grammar_wait_ct of a request that is not ready.  The first form forgets to count.
NotCounted(n) == n
Counted(n) == n + 1

\* The first half of get_ready_grammar_requests, on one rank.
Poll(k) ==
    LET ready == {i \in DOMAIN queue[k] : grammar[k][queue[k][i]] \in {"done", "aborted"}}
        late == {queue[k][i] : i \in DOMAIN queue[k] \ ready}
    IN  /\ ~polled[k].done /\ queue[k] # <<>>
        /\ waits' = [waits EXCEPT ![k] = [r \in Constrained |-> IF r \in late THEN Counted(@[r]) ELSE @[r]]]
        /\ polled' = [polled EXCEPT ![k] =
             [ready |-> ready, done |-> TRUE,
              failed |-> {i \in DOMAIN queue[k] \ ready : waits'[k][queue[k][i]] >= MaxPolls}]]
        /\ UNCHANGED <<queue, grammar, cache, released>>

\* all_gather_object: what every rank computes from everybody's answers.
ReadySomewhere == UNION {polled[k].ready : k \in Ranks}
SyncedReady == {i \in UNION {polled[k].ready : k \in Ranks} :
                  \A k \in Ranks : i \in polled[k].ready}
SyncedFailed == UNION {polled[k].failed : k \in Ranks}

\* The members of q with an index in I, in order.
Selected(q, I) == [j \in 1 .. Cardinality(I) |->
                     q[CHOOSE i \in I : Cardinality({h \in I : h <= i}) = j]]

\* What becomes of the grammar of a request that is returned.
Resolved(k, i) ==
    LET r == queue[k][i]
    IN  IF grammar[k][r] = "aborted" \/ i \in SyncedFailed THEN "aborted"
        ELSE IF Key[r] \in Invalid THEN "aborted" ELSE "valid"

\* set_cache, for the ready requests and then for the failed ones.  The first
\* form caches what this rank has compiled, agreed upon or not.
CacheOwn(k, y) ==
    IF \E i \in polled[k].ready : Key[queue[k][i]] = y /\ grammar[k][queue[k][i]] = "done"
    THEN "valid" ELSE cache[k][y]
CacheAfter(k, y) ==
    LET failed == {i \in SyncedFailed : Key[queue[k][i]] = y}
        ready == {i \in SyncedReady : Key[queue[k][i]] = y /\ grammar[k][queue[k][i]] = "done"}
    IN  IF failed # {} THEN "invalid"
        ELSE IF ready = {} THEN cache[k][y]
        ELSE IF y \in Invalid THEN "invalid" ELSE "valid"

\* The second half of get_ready_grammar_requests, after the all_gather.
Sync ==
    LET back == SyncedReady \cup SyncedFailed
    IN  /\ \A k \in Ranks : polled[k].done
        /\ released' = [k \in Ranks |-> released[k] \o Selected(queue[k], SyncedReady)
                                                    \o Selected(queue[k], SyncedFailed)]
        /\ grammar' = [k \in Ranks |-> [r \in Constrained |->
             IF \E i \in back : queue[k][i] = r
             THEN Resolved(k, CHOOSE i \in back : queue[k][i] = r) ELSE grammar[k][r]]]
        /\ cache' = [k \in Ranks |-> [y \in Keys |-> CacheAfter(k, y)]]
        /\ queue' = [k \in Ranks |-> Selected(queue[k], DOMAIN queue[k] \ back)]
        /\ polled' = [k \in Ranks |-> NotPolled]
        /\ waits' = [k \in Ranks |-> [r \in Constrained |->
                        IF Contains(queue'[k], r) THEN waits[k][r] ELSE 0]]

\* clear(), when the caches are flushed, which needs an idle scheduler.
Clear ==
    /\ \A k \in Ranks : queue[k] = <<>>
    /\ cache' = [k \in Ranks |-> [y \in Keys |-> "none"]]
    /\ UNCHANGED <<queue, grammar, waits, polled, released>>

-----------------------------------------------------------------------------
\* However differently the thread pools of the ranks run, the ranks hand the same
\* requests to their schedulers, in the same order and with the same verdict, and
\* their caches give the same answers: a batch is the same batch everywhere.
RanksAgree ==
    Receiving => \A j, k \in Ranks :
        /\ queue[j] = queue[k] /\ released[j] = released[k] /\ cache[j] = cache[k]
        /\ \A r \in ToSet(released[k]) : grammar[j][r] = grammar[k][r]

\* No request is returned twice, and none is lost: what was received is in the
\* queue or released, once.
ReturnedOnce ==
    \A k \in Ranks :
        LET both == queue[k] \o released[k]
        IN  /\ Cardinality(ToSet(both)) = Len(both)
            /\ \A r \in Constrained : grammar[k][r] # "none" => r \in ToSet(both)
==============================================================================
