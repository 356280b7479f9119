----------------------------- MODULE KVTransfer -----------------------------
(***************************************************************************)
(* Disaggregated serving: a prefill server computes the KV of a prompt and *)
(* writes it into pages the decode server has set aside.  The module has   *)
(* the queues of both schedulers (disaggregation/prefill.py, decode.py)    *)
(* and the Mooncake backend between them (disaggregation/common/conn.py,   *)
(* mooncake/conn.py): the prefill server's bootstrap thread and transfer   *)
(* worker, the decode server's status thread and heartbeat, the messages,  *)
(* the timeouts, aborts, failed sends, and the death of the prefill        *)
(* server.  One rank and one transfer queue on each side, one page to a    *)
(* chunk, no staging buffer, no dummy ranks.                               *)
(*                                                                         *)
(* A request is named by its bootstrap_room.  Schedulers' loops are taken  *)
(* request by request; DecodeMemory has the decode server's admission.     *)
(***************************************************************************)
EXTENDS Integers, FiniteSets, SequencesExt

CONSTANTS Rooms,
          Chunks,      \* per room: the chunks its prompt is prefilled and sent in
          DecodePages, \* pages of the decode server's pool, a chunk each
          PrefillPages,
          DecodeSlots, \* metadata buffers of the decode server
          PrefillSlots,
          Faults,      \* what may go wrong
          MaxFaults    \* and how often in all

ASSUME KVTransferAssumption ==
    /\ IsFiniteSet(Rooms) /\ Chunks \in [Rooms -> Nat \ {0}]
    /\ Faults \subseteq {"abort_prefill", "abort_decode", "send_error", "lost_node",
                         "no_info", "prefill_dies"}
    /\ \A r \in Rooms : Chunks[r] <= Cardinality(DecodePages) /\ Chunks[r] <= Cardinality(PrefillPages)

\* KVPoll, in its order; a room without an entry in request_status is "absent"
Rank(s) == CASE s = "Failed" -> 0 [] s = "Bootstrapping" -> 1 [] s = "WaitingForInput" -> 2
             [] s = "Success" -> 4

VARIABLES p,       \* per room, the prefill server's request: pc, end (the sender's
                   \* conclude_state), aux (its metadata buffer), pages
          pstatus, \* the prefill manager's request_status
          infos,   \* its transfer_infos: the decode server's pages and buffer
          xq,      \* its transfer queue
          worker,  \* the transfer worker: "idle", "dead", or what it does next with its chunk
          failed,  \* whether the decode server's session is in failed_sessions
          up,      \* whether the prefill server lives
          pkv,     \* content of the prefill pages
          pmeta,   \* content of its metadata buffers
          d,       \* per room, the decode server's request: pc, pending (in pending_reqs),
                   \* ready (waiting_for_input), end, aux, pages
          dstatus, \* the decode manager's request_status
          expect,  \* the rooms in required_prefill_response_num_table
          status,  \* the status thread: "idle", "dead", or the room it has looked up
          known,   \* whether prefill_info_table has the prefill server
          linked,  \* whether connection_pool has it
          dkv,     \* content of the decode pages
          dmeta,   \* content of its metadata buffers
          toP, toD,\* the messages on their way
          faults,  \* how often something has gone wrong
          stray    \* history: the pages and buffers last written by a transfer that went on
                   \* after a side had given it up
prefill == <<p, pstatus, infos, xq, worker, failed, up, pkv, pmeta>>
decode == <<d, dstatus, expect, status, known, linked, dkv, dmeta>>
vars == <<prefill, decode, toP, toD, stray, faults>>

Fault(f) == f \in Faults /\ faults < MaxFaults /\ faults' = faults + 1

None == "none"
NoInfo == [room |-> None] \* also the message that registers the decode server
NewP == [pc |-> "new", end |-> None, aux |-> 0, pages |-> <<>>]
NewD == [pc |-> "new", pending |-> FALSE, ready |-> FALSE, end |-> None, aux |-> 0, pages |-> <<>>]

Init ==
    /\ p = [r \in Rooms |-> NewP] /\ pstatus = [r \in Rooms |-> "absent"]
    /\ infos = [r \in Rooms |-> NoInfo] /\ xq = <<>> /\ worker = [pc |-> "idle"]
    /\ failed = FALSE /\ up = TRUE
    /\ pkv = [q \in PrefillPages |-> <<>>] /\ pmeta = [s \in PrefillSlots |-> None]
    /\ d = [r \in Rooms |-> NewD] /\ dstatus = [r \in Rooms |-> "absent"]
    /\ expect = {} /\ status = [pc |-> "idle"] /\ known = FALSE /\ linked = FALSE
    /\ dkv = [q \in DecodePages |-> <<>>] /\ dmeta = [s \in DecodeSlots |-> None]
    /\ toP = <<>> /\ toD = <<>> /\ stray = {} /\ faults = 0

\* update_status: a status never falls, except to Failed
Updated(table, r, s) ==
    [table EXCEPT ![r] =
        IF @ = "absent" \/ s = "Failed" \/ Rank(s) > Rank(@) THEN s ELSE @]

\* poll: a conclusion once reached stays
Poll(x, table, r) == IF x[r].end # None THEN x[r].end ELSE table[r]

PrefillFree == PrefillPages \ UNION {ToSet(p[r].pages) : r \in Rooms}
DecodeFree == DecodePages \ UNION {ToSet(d[r].pages) : r \in Rooms}
FreeSlots(x, slots) == slots \ {x[r].aux : r \in Rooms}

\* The allocators hand out free pages and buffers in an order of their own.  Pages that
\* have never been used, and so hold nothing, come in ascending order.
NextPrefillPages ==
    {q \in PrefillFree : pkv[q] = <<>> => \A o \in PrefillFree : pkv[o] = <<>> => q <= o}
Taken(free, n) == {SetToSortSeq(S, LAMBDA x, y : x < y) : S \in {T \in SUBSET free : Cardinality(T) = n}}

----------------------------------------------------------------------------
(* The prefill server's scheduler *)

\* PrefillBootstrapQueue.add
PrefillArrive(r) ==
    /\ up /\ p[r].pc = "new"
    /\ p' = [p EXCEPT ![r].pc = "boot"]
    /\ pstatus' = Updated(pstatus, r, "Bootstrapping")
    /\ UNCHANGED <<infos, xq, worker, failed, up, pkv, pmeta, decode, toP, toD, stray, faults>>

\* the request leaves with an answer, its pages, buffer and status entry are released
PrefillLeave(r, end) ==
    /\ p' = [p EXCEPT ![r] = [NewP EXCEPT !.pc = "done", !.end = end]]
    /\ pstatus' = [pstatus EXCEPT ![r] = "absent"]
    /\ UNCHANGED <<infos, xq, worker, failed, up, pkv, pmeta, decode, toP, toD, stray, faults>>

\* pop_bootstrapped; MooncakeKVSender.poll gives up on a handshake that does not come
PopBootstrapped(r) ==
    /\ up /\ p[r].pc = "boot"
    /\ \/ Poll(p, pstatus, r) \in {"Failed", "Bootstrapping"} /\ PrefillLeave(r, "Failed")
       \/ /\ Poll(p, pstatus, r) = "WaitingForInput"
          /\ \E s \in FreeSlots(p, PrefillSlots) :
                p' = [p EXCEPT ![r].pc = "waiting", ![r].aux = s]
          /\ UNCHANGED <<pstatus, infos, xq, worker, failed, up, pkv, pmeta, decode, toP, toD, stray, faults>>

\* abort_request.  A request of the waiting queue is dropped, and its status entry is left.
PrefillAbort(r) ==
    /\ up /\ Fault("abort_prefill")
    /\ \/ /\ p[r].pc \in {"boot", "inflight"} /\ p[r].end # "Failed"
          /\ p' = [p EXCEPT ![r].end = "Failed"]
       \/ /\ p[r].pc = "waiting"
          /\ p' = [p EXCEPT ![r] = [NewP EXCEPT !.pc = "done", !.end = "Failed"]]
    /\ UNCHANGED <<pstatus, infos, xq, worker, failed, up, pkv, pmeta, decode, toP, toD, stray>>

\* Mutant: the first chunk is marked as the last
MarkedLastEarly(r, page, i, aux) ==
    IF pstatus[r] \in {"absent", "Failed"} \/ infos[r] = NoInfo THEN xq
    ELSE Append(xq, [room |-> r, page |-> page, i |-> i, last |-> i = 1, aux |-> aux])

\* add_transfer_request
AddTransferRequest(r, page, i, aux) ==
    IF pstatus[r] \in {"absent", "Failed"} \/ infos[r] = NoInfo THEN xq
    ELSE Append(xq, [room |-> r, page |-> page, i |-> i, last |-> i = Chunks[r], aux |-> aux])

\* Pages the chunked request has yet to take
Outstanding == LET S == {r \in Rooms : p[r].pc = "chunk"}
               IN  IF S = {} THEN 0 ELSE LET r == CHOOSE x \in S : TRUE IN Chunks[r] - Len(p[r].pages)

\* A chunk is prefilled and handed to the sender; the last one fills the metadata buffer
\* and moves the request to the inflight queue (process_batch_result_disagg_prefill,
\* send_kv_chunk).  One request at a time is chunked, and it was admitted with room for
\* all of its prompt.
PrefillChunk(r) ==
    /\ up
    /\ \/ p[r].pc = "chunk"
       \/ /\ p[r].pc = "waiting" /\ Cardinality(PrefillFree) >= Chunks[r] + Outstanding
          /\ Chunks[r] = 1 \/ Outstanding = 0
    /\ LET i == Len(p[r].pages) + 1
           last == i = Chunks[r]
       IN  \E q \in NextPrefillPages :
             /\ p' = [p EXCEPT ![r].pages = Append(@, q), ![r].pc = IF last THEN "inflight" ELSE "chunk"]
             /\ pkv' = [pkv EXCEPT ![q] = <<r, i>>]
             /\ pmeta' = IF last THEN [pmeta EXCEPT ![p[r].aux] = r] ELSE pmeta
             /\ xq' = AddTransferRequest(r, q, i, p[r].aux)
    /\ UNCHANGED <<pstatus, infos, worker, failed, up, decode, toP, toD, stray, faults>>

\* process_disagg_prefill_inflight_queue
InflightPoll(r) ==
    /\ up /\ p[r].pc = "inflight"
    /\ \/ Poll(p, pstatus, r) = "Success" /\ PrefillLeave(r, "Success")
       \/ Poll(p, pstatus, r) = "Failed" /\ PrefillLeave(r, "Failed")

----------------------------------------------------------------------------
(* The prefill server's threads *)

\* bootstrap_thread: a registration revives the session, the metadata of a room lets it start
BootstrapThread ==
    /\ up /\ toP # <<>> /\ toP' = Tail(toP)
    /\ \/ /\ Head(toP).room = None /\ failed' = FALSE /\ UNCHANGED <<pstatus, infos>>
       \/ \E r \in Rooms :
            /\ Head(toP).room = r
            /\ infos' = [infos EXCEPT ![r] = Head(toP)]
            /\ pstatus' = Updated(pstatus, r, "WaitingForInput")
            /\ UNCHANGED failed
    /\ UNCHANGED <<p, xq, worker, up, pkv, pmeta, decode, toD, stray, faults>>

\* The worker found its session dead, or its send fails: the room fails on both sides.
WorkerFails(job) ==
    /\ failed' = TRUE
    /\ pstatus' = Updated(pstatus, job.room, "Failed")
    /\ toD' = Append(toD, [room |-> job.room, status |-> "Failed"])
    /\ worker' = [pc |-> "check", job |-> job]
    /\ UNCHANGED <<dkv, stray>>

\* History of a write to x, a page or a buffer, in the name of room r
Written(x, r) ==
    IF \/ d[r].pc # "transfer" \/ p[r].pc \notin {"chunk", "inflight"} \/ pstatus[r] = "Failed"
    THEN stray \cup {x} ELSE stray \ {x}

\* send_kvcache writes the prefill page as it is now into the page the decode server named
WorkerSends(job) ==
    LET q == infos[job.room].pages[job.i]
    IN  /\ dkv' = [dkv EXCEPT ![q] = pkv[job.page]]
        /\ stray' = Written(<<"page", q>>, job.room)
        /\ worker' = [pc |-> IF job.last THEN "aux" ELSE "check", job |-> job]
        /\ UNCHANGED <<pstatus, toD, failed>>

\* transfer_worker, up to the KV of a chunk
WorkerTake ==
    /\ up /\ worker.pc = "idle" /\ xq # <<>> /\ xq' = Tail(xq)
    /\ \/ /\ infos[Head(xq).room] = NoInfo
          /\ worker' = [pc |-> "check", job |-> Head(xq)]
          /\ UNCHANGED <<pstatus, failed, toD, dkv, stray, faults>>
       \/ /\ infos[Head(xq).room] # NoInfo
          /\ \/ (IF failed THEN UNCHANGED faults ELSE Fault("send_error")) /\ WorkerFails(Head(xq))
             \/ ~failed /\ UNCHANGED faults /\ WorkerSends(Head(xq))
    /\ UNCHANGED <<p, infos, up, pkv, pmeta, d, dstatus, expect, status, known, linked, dmeta, toP>>

\* send_aux copies the metadata buffer as it is now, then both sides learn how it went
WorkerAux ==
    /\ up /\ worker.pc = "aux"
    /\ \E r \in {worker.job.room}, s \in {"Success", "Failed"} :
         /\ IF s = "Failed" THEN Fault("send_error") ELSE UNCHANGED faults
         /\ IF s = "Success"
            THEN /\ dmeta' = [dmeta EXCEPT ![infos[r].aux] = pmeta[worker.job.aux]]
                 /\ stray' = Written(<<"meta", infos[r].aux>>, r)
            ELSE UNCHANGED <<dmeta, stray>>
         /\ pstatus' = Updated(pstatus, r, s)
         /\ toD' = Append(toD, [room |-> r, status |-> s])
    /\ worker' = [worker EXCEPT !.pc = "check"]
    /\ UNCHANGED <<p, infos, xq, failed, up, pkv, pmeta, d, dstatus, expect, status, known, linked,
                   dkv, toP>>

\* The end of transfer_worker's loop looks the room up twice.  The scheduler may drop the entry
\* in between, and the second look raises KeyError, which ends the thread.
WorkerCheck ==
    /\ up /\ worker.pc \in {"check", "recheck"}
    /\ LET r == worker.job.room
       IN  \/ /\ worker.pc = "check" /\ pstatus[r] # "absent"
              /\ worker' = [worker EXCEPT !.pc = "recheck"] /\ UNCHANGED infos
           \/ /\ worker.pc = "check" /\ pstatus[r] = "absent"
              /\ worker' = [pc |-> "idle"] /\ infos' = [infos EXCEPT ![r] = NoInfo]
           \/ /\ worker.pc = "recheck" /\ pstatus[r] = "absent"
              /\ worker' = [pc |-> "dead"] /\ UNCHANGED infos
           \/ /\ worker.pc = "recheck" /\ pstatus[r] # "absent"
              /\ worker' = [pc |-> "idle"]
              /\ infos' = IF pstatus[r] = "Success" THEN [infos EXCEPT ![r] = NoInfo] ELSE infos
    /\ UNCHANGED <<p, pstatus, xq, failed, up, pkv, pmeta, decode, toP, toD, stray, faults>>

PrefillDies ==
    /\ up /\ Fault("prefill_dies") /\ up' = FALSE
    /\ UNCHANGED <<p, pstatus, infos, xq, worker, failed, pkv, pmeta, decode, toP, toD, stray>>

----------------------------------------------------------------------------
(* The decode server's scheduler *)

\* The prefill server is gone, or does not answer
Unanswered == IF up THEN Fault("no_info") ELSE UNCHANGED faults

\* CommonKVReceiver.init.  It asks the prefill server for its ranks and registers with it the
\* first time; when the server is gone, or does not answer, the receiver fails.  The entries of
\* the room are made in either case, also for a request that has meanwhile been answered.
InitReceiver(r, pc) ==
    \/ /\ (linked \/ up) /\ UNCHANGED faults
       /\ linked' = TRUE
       /\ toP' = IF linked THEN toP ELSE Append(toP, NoInfo)
       /\ dstatus' = Updated(dstatus, r, "WaitingForInput") /\ expect' = expect \cup {r}
       /\ d' = [d EXCEPT ![r].pc = pc, ![r].pending = FALSE]
    \/ /\ ~linked /\ Unanswered
       /\ dstatus' = [dstatus EXCEPT ![r] = "WaitingForInput"] /\ expect' = expect \cup {r}
       /\ d' = [d EXCEPT ![r].pc = pc, ![r].pending = FALSE, ![r].end = "Failed"]
       /\ UNCHANGED <<linked, toP>>

\* DecodePreallocQueue.add, with the prefill server's data cached or not
DecodeArrive(r) ==
    /\ d[r].pc = "new"
    /\ \/ known /\ InitReceiver(r, "queue")
       \/ /\ ~known /\ d' = [d EXCEPT ![r].pc = "queue", ![r].pending = TRUE]
          /\ dstatus' = Updated(dstatus, r, "Bootstrapping")
          /\ UNCHANGED <<expect, linked, toP, faults>>
    /\ UNCHANGED <<prefill, status, known, dkv, dmeta, toD, stray>>

\* _resolve_pending_reqs: the data arrives, or the last of the retries has failed.  A request
\* that failed meanwhile has left the queue and is still in pending_reqs.
Resolve(r) ==
    /\ d[r].pending
    /\ \/ (known \/ up) /\ known' = TRUE /\ InitReceiver(r, d[r].pc)
       \/ /\ ~known /\ Unanswered
          /\ d' = [d EXCEPT ![r].pending = FALSE, ![r].end = "Failed"]
          /\ UNCHANGED <<dstatus, expect, linked, known, toP>>
    /\ UNCHANGED <<prefill, status, dkv, dmeta, toD, stray>>

Queue == {r \in Rooms : d[r].pc = "queue"}

\* The request has been answered and what it held is released
Gone == [NewD EXCEPT !.pc = "done"]

\* _update_handshake_waiters and the removal of the failed in pop_preallocated.  Nothing is
\* polled while every request of the queue has had its handshake.
HandshakeWaiters ==
    /\ \E r \in Queue : ~d[r].ready
    /\ LET Bad == {r \in Queue : Poll(d, dstatus, r) = "Failed"}
       IN  /\ d' = [r \in Rooms |->
                      IF r \in Bad THEN [Gone EXCEPT !.pending = d[r].pending]
                      ELSE IF r \in Queue /\ Poll(d, dstatus, r) = "WaitingForInput"
                           THEN [d[r] EXCEPT !.ready = TRUE] ELSE d[r]]
           /\ dstatus' = [r \in Rooms |-> IF r \in Bad THEN "absent" ELSE dstatus[r]]
           /\ expect' = expect \ Bad
    /\ UNCHANGED <<prefill, status, known, linked, dkv, dmeta, toP, toD, stray, faults>>

\* pop_preallocated: pages and a metadata buffer are set aside and the prefill server is told
Preallocate(r) ==
    /\ d[r].pc = "queue" /\ d[r].ready
    /\ \E pages \in Taken(DecodeFree, Chunks[r]), s \in FreeSlots(d, DecodeSlots) :
         /\ d' = [d EXCEPT ![r].pc = "transfer", ![r].pages = pages, ![r].aux = s]
         /\ toP' = Append(toP, [room |-> r, pages |-> pages, aux |-> s])
    /\ UNCHANGED <<prefill, dstatus, expect, status, known, linked, dkv, dmeta, toD, stray, faults>>

\* _commit_transfer_to_req
Commit(r) ==
    IF dmeta[d[r].aux] = r THEN [d EXCEPT ![r].pc = "running", ![r].aux = 0]
    ELSE [d EXCEPT ![r] = Gone]

\* Mutant: no waiting_timeout
WaitsForever(r) == Poll(d, dstatus, r) = "Failed"

\* MooncakeKVReceiver.poll: the transfer failed, or has not ended within waiting_timeout
TransferFailed(r) == Poll(d, dstatus, r) \in {"Failed", "WaitingForInput"}

\* pop_transferred
PopTransferred(r) ==
    /\ d[r].pc = "transfer"
    /\ \/ TransferFailed(r) /\ d' = [d EXCEPT ![r] = Gone]
       \/ Poll(d, dstatus, r) = "Success" /\ dmeta[d[r].aux] # None /\ d' = Commit(r)
    /\ dstatus' = [dstatus EXCEPT ![r] = "absent"] /\ expect' = expect \ {r}
    /\ UNCHANGED <<prefill, status, known, linked, dkv, dmeta, toP, toD, stray, faults>>

\* Decoding, of any length, ends and the pages are released
DecodeFinish(r) ==
    /\ d[r].pc = "running"
    /\ d' = [d EXCEPT ![r] = Gone]
    /\ UNCHANGED <<prefill, dstatus, expect, status, known, linked, dkv, dmeta, toP, toD, stray, faults>>

\* abort_request
DecodeAbort(r) ==
    /\ Fault("abort_decode") /\ d[r].pc \in {"queue", "transfer"} /\ d[r].end # "Failed"
    /\ d' = [d EXCEPT ![r].end = "Failed"]
    /\ UNCHANGED <<prefill, dstatus, expect, status, known, linked, dkv, dmeta, toP, toD, stray>>

----------------------------------------------------------------------------
(* The decode server's threads *)

\* decode_thread.  A success is counted in tables the scheduler may clear in between.
StatusThread ==
    \/ /\ status.pc = "idle" /\ toD # <<>> /\ toD' = Tail(toD)
       /\ LET m == Head(toD)
          IN  IF m.status = "Failed"
              THEN dstatus' = Updated(dstatus, m.room, "Failed") /\ UNCHANGED status
              ELSE /\ status' = IF dstatus[m.room] = "absent" THEN status
                                ELSE [pc |-> "counts", room |-> m.room]
                   /\ UNCHANGED dstatus
       /\ UNCHANGED <<prefill, d, expect, known, linked, dkv, dmeta, toP, stray, faults>>
    \/ /\ status.pc = "counts"
       /\ IF status.room \in expect
          THEN dstatus' = Updated(dstatus, status.room, "Success") /\ status' = [pc |-> "idle"]
          ELSE status' = [pc |-> "dead"] /\ UNCHANGED dstatus
       /\ UNCHANGED <<prefill, d, expect, known, linked, dkv, dmeta, toP, toD, stray, faults>>

\* heartbeat_checker and _handle_node_failure, after enough missed beats
NodeFailure ==
    /\ known /\ (IF up THEN Fault("lost_node") ELSE UNCHANGED faults)
    /\ known' = FALSE /\ linked' = FALSE
    /\ dstatus' = [r \in Rooms |-> IF dstatus[r] \in {"absent", "Success"} THEN dstatus[r] ELSE "Failed"]
    /\ UNCHANGED <<prefill, d, expect, status, dkv, dmeta, toP, toD, stray>>

----------------------------------------------------------------------------
SchedulerStep(r) ==
    \/ PopBootstrapped(r) \/ PrefillChunk(r) \/ InflightPoll(r)
    \/ Resolve(r) \/ Preallocate(r) \/ PopTransferred(r) \/ DecodeFinish(r)

Threads == BootstrapThread \/ WorkerTake \/ WorkerAux \/ WorkerCheck \/ StatusThread

Next ==
    \/ \E r \in Rooms : SchedulerStep(r) \/ PrefillArrive(r) \/ DecodeArrive(r)
                        \/ PrefillAbort(r) \/ DecodeAbort(r)
    \/ HandshakeWaiters \/ Threads \/ PrefillDies \/ NodeFailure

\* Both event loops and all threads keep running, and every timeout expires.  Requests may
\* never come, faults may never happen, and a lost node may never be noticed.
Spec == Init /\ [][Next]_vars
        /\ WF_vars((\E r \in Rooms : SchedulerStep(r)) \/ HandshakeWaiters \/ Threads)

----------------------------------------------------------------------------
\* A transfer that is reported a success is complete: each page holds its chunk of the request's
\* own prompt, and goes on doing so while the request runs, and the buffer holds the request's
\* own metadata, so that _commit_transfer_to_req finds no "context corruption"
\* (transfer_worker: "Only sync status when all the dst ranks have received the kvcache").
\* Excepted is a page or buffer that was last written by a transfer one of the two servers had
\* given up, since nothing keeps such a transfer from what is reused.
SuccessIsComplete ==
    \A r \in Rooms :
        LET received == d[r].pc = "transfer" /\ Poll(d, dstatus, r) = "Success"
        IN  /\ received \/ d[r].pc = "running" =>
                 \A i \in 1 .. Chunks[r] :
                    dkv[d[r].pages[i]] = <<r, i>> \/ <<"page", d[r].pages[i]>> \in stray
            /\ received => dmeta[d[r].aux] = r \/ <<"meta", d[r].aux>> \in stray

\* Whatever fails in between, and even when the prefill server dies, every request that
\* reached the decode server is answered, and its pages and buffer come back; so is every
\* request of a prefill server that lives with its transfer thread.
Answered ==
    <>[](\A r \in Rooms :
            /\ d[r].pc \in {"new", "done"}
            /\ p[r].pc \in {"new", "done"} \/ ~up \/ worker.pc = "dead")
=============================================================================
