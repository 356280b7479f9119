-------------------------------- MODULE Halo --------------------------------
(***************************************************************************)
(* Job tracking of HALO (managers/halo/job.py, job_registry.py and         *)
(* controller.py) with the scheduler hooks that drive it.  A request is    *)
(* registered with its job in _add_request_to_queue, on arrival and again  *)
(* whenever it is put back after a retraction or a preemption, and is      *)
(* taken off its job by stream_output_generation when it finishes.         *)
(*                                                                         *)
(* The predictive gates and the KV cap may refuse any request they look    *)
(* at: what they compute is left out, who is asked is kept.  A counter     *)
(* that is only compared with zero is a Boolean (total_request_number),    *)
(* one that moves with another in every handler is that other              *)
(* (remaining_request_number is in_flight_count), and a timestamp is the   *)
(* time since it was taken.  A request without halo_job_id is refused at   *)
(* once and one with halo_bypass is never tracked: neither is modelled.    *)
(***************************************************************************)
EXTENDS Integers, FiniteSets

CONSTANTS Jobs,               \* job ids
          Rids,               \* request ids
          Claims,             \* Claims[r]: job ids clients put on request id r
          Caps,               \* declared_max_concurrency: {} for None, or {n}
          AdmissionMode,      \* "off", "job" or "request"
          KvCapEnabled,       \* kv_cap_enabled
          SloGate,            \* the request-level admission controller is active
          MaxQueued,          \* max_queued_requests: {} for None, or {n}
          PriorityScheduling, \* enable_priority_scheduling
          Retracts,           \* running requests may be retracted or preempted
          Aborts,             \* requests may be dropped with an AbortReq
          RetainAge,          \* gc_retain_seconds
          QuiescentAge,       \* quiescent_timeout_seconds, 0 disables
          IdleAge,            \* program_idle_timeout_seconds, 0 disables
          MaxAge,             \* bound: ages from here on are not told apart
          MaxInFlight         \* bound on in_flight_count

IsLimit(S) == S \subseteq Nat /\ Cardinality(S) <= 1
ASSUME HaloAssumption ==
    /\ IsFiniteSet(Rids)
    /\ Claims \in [Rids -> SUBSET Jobs]
    /\ \A S \in Caps \cup {MaxQueued} : IsLimit(S)
    /\ AdmissionMode \in {"off", "job", "request"}
    /\ {KvCapEnabled, SloGate, PriorityScheduling, Retracts, Aborts} \subseteq BOOLEAN
    /\ {RetainAge, QuiescentAge, IdleAge, MaxAge, MaxInFlight} \subseteq Nat

VARIABLES jobs,        \* JobRegistry._jobs, on the ids that are registered
          rid_to_job,  \* JobRegistry._rid_to_job, on the rids that are mapped
          req,         \* the requests in the scheduler: place and halo_job_id
          unfiltered,  \* halo_job_id of finished requests still in running_batch
          sent         \* what the last step sent to the tokenizer manager
vars == <<jobs, rid_to_job, req, unfiltered, sent>>

Empty == [x \in {} |-> x]
With(f, x, v) == [y \in DOMAIN f \cup {x} |-> IF y = x THEN v ELSE f[y]]
Without(f, S) == [y \in DOMAIN f \ S |-> f[y]]
At(place) == {r \in DOMAIN req : req[r].place = place}

-----------------------------------------------------------------------------
\* Job: a new record, and its mutators.
NewJob(cap) ==
    [state |-> "QUEUED", cap |-> cap, seen |-> FALSE, in_flight |-> 0,
     request_ids |-> {}, since_update |-> 0, since_seen |-> 0]
OnRequestAdmitted(job, r) ==
    [state |-> IF job.state = "COMPLETE" THEN "RUNNING" ELSE job.state,
     cap |-> job.cap, seen |-> TRUE, in_flight |-> job.in_flight + 1,
     request_ids |-> job.request_ids \cup {r},
     since_update |-> 0, since_seen |-> job.since_seen]
OnRequestCompleted(job, r) ==
    [state |-> job.state, cap |-> job.cap, seen |-> job.seen,
     in_flight |-> IF job.in_flight > 0 THEN job.in_flight - 1 ELSE job.in_flight,
     request_ids |-> job.request_ids \ {r},
     since_update |-> 0, since_seen |-> job.since_seen]
\* Mutant: mark_done without touching last_update_ts.
MarkDone_no_touch(job) == [job EXCEPT !.state = "COMPLETE"]
MarkDone(job) == [job EXCEPT !.state = "COMPLETE", !.since_update = 0]
RecordVjs(job) ==
    [job EXCEPT !.since_update = 0,
                !.state = IF @ = "QUEUED" /\ job.request_ids # {} THEN "RUNNING" ELSE @]
IsIdle(job) == job.state = "QUEUED" /\ ~job.seen /\ job.request_ids = {}

\* JobRegistry.admit_to_job: a rid that is mapped to another job stays there.
AdmitToJob(r, j) ==
    IF r \in DOMAIN rid_to_job /\ rid_to_job[r] # j
    THEN UNCHANGED <<jobs, rid_to_job>>
    ELSE /\ rid_to_job' = With(rid_to_job, r, j)
         /\ jobs' = [jobs EXCEPT ![j] = OnRequestAdmitted(@, r)]

(* HaloController.register_request: the KV cap asks about the first        *)
(* request of a job, Stage A about the first or about all, Stage B always. *)
KvCapAsked(j) == KvCapEnabled /\ ~jobs[j].seen
StageAAsked(j) == AdmissionMode = "request" \/ (AdmissionMode = "job" /\ ~jobs[j].seen)
\* Mutant: the cap is compared with an off-by-one.
AtCap_late(j) == \E n \in jobs[j].cap : jobs[j].in_flight > n
AtCap(j) == \E n \in jobs[j].cap : jobs[j].in_flight >= n
MayReject(j) == j \in DOMAIN jobs => KvCapAsked(j) \/ StageAAsked(j) \/ AtCap(j)
MayAdmit(j) == j \in DOMAIN jobs /\ ~AtCap(j)
-----------------------------------------------------------------------------
Init ==
    /\ jobs = Empty
    /\ rid_to_job = Empty
    /\ req = Empty
    /\ unfiltered = {}
    /\ sent = {}

\* POST /halo/programs; a job id that is registered is refused (409).
RegisterProgram(j) ==
    /\ j \notin DOMAIN jobs
    /\ \E cap \in Caps : jobs' = With(jobs, j, NewJob(cap))
    /\ sent' = {}
    /\ UNCHANGED <<rid_to_job, req, unfiltered>>

(* _abort_on_queued_limit: nothing to do, the arriving request is refused, *)
(* or with priorities a waiting request of lower priority goes instead.    *)
QueueIsFull == \E n \in MaxQueued : Cardinality(At("waiting")) + 1 > n
Displaced(r) ==
    IF ~QueueIsFull THEN {{}}
    ELSE {{r}} \cup (IF PriorityScheduling THEN {{v} : v \in At("waiting")} ELSE {})

TurnAway(r, dropped, answer) ==
    /\ req' = Without(req, dropped \cup {r})
    /\ sent' = {<<v, "abort">> : v \in dropped \ {r}} \cup {<<r, answer>>}
    /\ UNCHANGED <<jobs, rid_to_job, unfiltered>>
Enqueue(r, j, dropped) ==
    /\ AdmitToJob(r, j)
    /\ req' = With(Without(req, dropped), r, [place |-> "waiting", job |-> j])
    /\ sent' = {<<v, "abort">> : v \in dropped}
    /\ UNCHANGED unfiltered

(* _add_request_to_queue: the queue limit and the request-level admission  *)
(* controller come first, then the job-level gate, then the queue.         *)
AddRequestToQueue(r, j) ==
    \E dropped \in Displaced(r) :
        \/ r \in dropped /\ TurnAway(r, dropped, "abort")
        \/ r \notin dropped /\ SloGate /\ TurnAway(r, dropped, "abort")
        \/ r \notin dropped /\ MayReject(j) /\ TurnAway(r, dropped, "halo_reject")
        \/ r \notin dropped /\ MayAdmit(j) /\ Enqueue(r, j, dropped)

RoomFor(j) == j \in DOMAIN jobs => jobs[j].in_flight < MaxInFlight

Submit(r) ==
    /\ r \notin DOMAIN req
    /\ \E j \in Claims[r] : RoomFor(j) /\ AddRequestToQueue(r, j)

MoveTo(r, from, to) ==
    /\ r \in At(from)
    /\ req' = [req EXCEPT ![r].place = to]
    /\ sent' = {}
    /\ UNCHANGED <<jobs, rid_to_job, unfiltered>>

\* Taken into a prefill batch, and from there merged into running_batch.
Start(r) == MoveTo(r, "waiting", "prefill")
Merge(r) == MoveTo(r, "prefill", "running")

(* A request that was retracted (update_running_batch, pause_generation)   *)
(* or preempted goes through _add_request_to_queue once more.              *)
Retract(r) ==
    /\ Retracts /\ r \in At("running")
    /\ RoomFor(req[r].job) /\ AddRequestToQueue(r, req[r].job)

(* abort_request and the waiting timeout drop a waiting request, and       *)
(* retract_decode the last running one (reqs_to_abort): an AbortReq is     *)
(* sent and stream_output_generation is not called for it.                 *)
DropWithAbort(r) ==
    /\ Aborts /\ r \in At("waiting") \cup At("running")
    /\ req' = Without(req, {r})
    /\ sent' = {<<r, "abort">>}
    /\ UNCHANGED <<jobs, rid_to_job, unfiltered>>

(* stream_output_generation, on_request_finished: mark_job_done when the   *)
(* client asked for it, then record_completion.                            *)
OnRequestFinished(r, halo_job_done) ==
    IF r \notin DOMAIN rid_to_job THEN UNCHANGED <<jobs, rid_to_job>>
    ELSE /\ rid_to_job' = Without(rid_to_job, {r})
         /\ LET j == rid_to_job[r]
                marked == IF halo_job_done THEN MarkDone(jobs[j]) ELSE jobs[j]
            IN  IF j \notin DOMAIN jobs THEN UNCHANGED jobs
                ELSE jobs' = [jobs EXCEPT ![j] = OnRequestCompleted(marked, r)]
Finish(r) ==
    /\ r \in At("prefill") \cup At("running")
    /\ \E halo_job_done \in BOOLEAN : OnRequestFinished(r, halo_job_done)
    /\ req' = Without(req, {r})
    /\ unfiltered' = unfiltered \cup (IF r \in At("running") THEN {req[r].job} ELSE {})
    /\ sent' = {<<r, "finished">>}

(* update_running_batch, filter_batch: finished requests leave             *)
(* running_batch.  Until then they are swept, by job id, at every tick.    *)
Filter ==
    /\ unfiltered # {}
    /\ unfiltered' = {}
    /\ sent' = {}
    /\ UNCHANGED <<jobs, rid_to_job, req>>
-----------------------------------------------------------------------------
(* tick: the sweep touches the jobs of the waiting and the running         *)
(* requests, finished ones included as long as they are in running_batch   *)
(* (those in a prefill batch are in neither list); then                    *)
(* gc_quiescent_jobs, gc_completed and gc_idle_programs, in that order.    *)
Swept(J) ==
    LET busy == {req[r].job : r \in At("waiting") \cup At("running")} \cup unfiltered
    IN  [j \in DOMAIN J |-> IF j \in busy THEN RecordVjs(J[j]) ELSE J[j]]
Quiescent(job) ==
    /\ QuiescentAge > 0 /\ job.since_update > QuiescentAge
    /\ job.state \in {"QUEUED", "RUNNING"} /\ job.request_ids = {}
GcQuiescent(J) == [j \in DOMAIN J |-> IF Quiescent(J[j]) THEN MarkDone(J[j]) ELSE J[j]]
\* Mutant: a job marked done is dropped with requests still in flight.
Completed_early(job) == job.state = "COMPLETE" /\ job.since_update > RetainAge
Completed(job) ==
    job.state = "COMPLETE" /\ job.request_ids = {} /\ job.since_update > RetainAge
GcCompleted(J) == Without(J, {j \in DOMAIN J : Completed(J[j])})
GcIdle(J) ==
    Without(J, {j \in DOMAIN J : IdleAge > 0 /\ IsIdle(J[j]) /\ J[j].since_seen > IdleAge})
Tick ==
    /\ jobs' = GcIdle(GcCompleted(GcQuiescent(Swept(jobs))))
    /\ sent' = {}
    /\ UNCHANGED <<rid_to_job, req, unfiltered>>

\* Time goes by; first_seen_ts is only read of a job that saw no request.
Older(age) == IF age < MaxAge THEN age + 1 ELSE age
Clock ==
    /\ jobs' = [j \in DOMAIN jobs |->
                  [jobs[j] EXCEPT !.since_update = Older(@),
                                  !.since_seen = IF jobs[j].seen THEN @ ELSE Older(@)]]
    /\ sent' = {}
    /\ UNCHANGED <<rid_to_job, req, unfiltered>>

Next ==
    \/ \E j \in Jobs : RegisterProgram(j)
    \/ \E r \in Rids : Submit(r)
    \/ \E r \in Rids : Start(r)
    \/ \E r \in Rids : Merge(r)
    \/ \E r \in Rids : Retract(r)
    \/ \E r \in Rids : DropWithAbort(r)
    \/ \E r \in Rids : Finish(r)
    \/ Filter
    \/ Tick
    \/ Clock
Spec == Init /\ [][Next]_vars

(* The event loop filters its batch and ticks, and time passes.  (Requests *)
(* need no fairness: the promise below is about jobs that have none.)      *)
FairSpec == Spec /\ WF_vars(Filter) /\ WF_vars(Tick) /\ WF_vars(Clock)
-----------------------------------------------------------------------------
JobRecord ==
    [state : {"QUEUED", "RUNNING", "COMPLETE"}, cap : Caps, seen : BOOLEAN,
     in_flight : Nat, request_ids : SUBSET Rids, since_update : Nat, since_seen : Nat]
Live(j) == {r \in DOMAIN req \cap DOMAIN rid_to_job : rid_to_job[r] = j}

\* The type of the registry (_jobs, _rid_to_job) and of the scheduler's queues.
TypeOK ==
    /\ DOMAIN jobs \subseteq Jobs
    /\ jobs \in [DOMAIN jobs -> JobRecord]
    /\ DOMAIN rid_to_job \subseteq Rids
    /\ rid_to_job \in [DOMAIN rid_to_job -> Jobs]
    /\ DOMAIN req \subseteq Rids
    /\ req \in [DOMAIN req -> [place : {"waiting", "prefill", "running"}, job : Jobs]]
    /\ unfiltered \subseteq Jobs
    /\ sent \subseteq Rids \X {"abort", "halo_reject", "finished"}

(* The two indexes of JobRegistry agree: _rid_to_job sends a rid to a job  *)
(* iff that job is registered and has the rid in request_ids.  So          *)
(* admit_to_job's self._jobs[existing_for_rid] never meets a dropped job.  *)
MappingExact ==
    /\ \A r \in DOMAIN rid_to_job :
          rid_to_job[r] \in DOMAIN jobs /\ r \in jobs[rid_to_job[r]].request_ids
    /\ \A j \in DOMAIN jobs : \A r \in jobs[j].request_ids :
          r \in DOMAIN rid_to_job /\ rid_to_job[r] = j

(* A request that is in the scheduler is counted by a registered job: the  *)
(* garbage collection of tick never drops a job under a request, through   *)
(* halo_job_done, quiescence, retraction and reuse of a rid.               *)
TrackedWhileLive ==
    \A r \in DOMAIN req :
        /\ r \in DOMAIN rid_to_job
        /\ rid_to_job[r] \in DOMAIN jobs
        /\ r \in jobs[rid_to_job[r]].request_ids

(* Stage B of register_request keeps its promise: a job never has more     *)
(* requests in the scheduler than its declared_max_concurrency.            *)
DeclaredConcurrency ==
    \A j \in DOMAIN jobs : \A n \in jobs[j].cap : Cardinality(Live(j)) <= n

(* A job that had a request is dropped only after it was seen COMPLETE by  *)
(* an earlier tick: the quiescent flip and gc_completed never both act on  *)
(* it in one tick, so a late request can re-open it for retain_seconds.    *)
RetainWindow ==
    [][\A j \in DOMAIN jobs \ DOMAIN jobs' :
          jobs[j].seen => jobs[j].state = "COMPLETE"]_vars

(* register_request refuses a request at the cap only "if accepting it     *)
(* would push past that promise": the job's other requests fill the cap.   *)
CapRejectJustified ==
    [][\A r \in Rids, j \in DOMAIN jobs :
          (<<r, "halo_reject">> \in sent' /\ r \in DOMAIN req /\ req[r].job = j)
          => \E n \in jobs[j].cap : Cardinality(Live(j) \ {r}) >= n]_vars

(* The safety net: a job that from some point on has no request in the     *)
(* scheduler does not stay registered (the quiescent fallback flips it and *)
(* gc_completed drops it), unless it is registered anew.                   *)
QuiescentReleased ==
    \A j \in Jobs :
        <>[](\A r \in DOMAIN req : req[r].job # j) => []<>(j \notin DOMAIN jobs)
=============================================================================
