---------------------------- MODULE Halo_proofs ----------------------------
(***************************************************************************)
(* Proofs about Halo, for every set of jobs, requests, claims, caps and    *)
(* timeouts, with retractions, preemptions and aborts allowed.             *)
(*                                                                         *)
(* The cap is enforced on in_flight_count, which is not the number of live *)
(* requests; the argument goes through request_ids.  HaloInv says that a   *)
(* live request is in request_ids of the job it is mapped to, that         *)
(* request_ids has at most in_flight_count elements, and that              *)
(* in_flight_count is at most the cap.                                     *)
(***************************************************************************)
EXTENDS Halo, FiniteSetTheorems, TLAPS

JobOK(job) ==
    /\ job \in JobRecord
    /\ Cardinality(job.request_ids) <= job.in_flight
    /\ \A n \in job.cap : job.in_flight <= n

\* The inductive invariant.
HaloInv ==
    /\ TypeOK
    /\ MappingExact
    /\ DOMAIN req \subseteq DOMAIN rid_to_job
    /\ \A j \in DOMAIN jobs : JobOK(jobs[j])

-----------------------------------------------------------------------------
\* A function that is updated, extended or cut keeps its other values.
LEMMA WithFacts ==
    ASSUME NEW f, NEW x, NEW v
    PROVE  /\ DOMAIN With(f, x, v) = DOMAIN f \cup {x}
           /\ With(f, x, v)[x] = v
           /\ \A y \in DOMAIN f : y # x => With(f, x, v)[y] = f[y]
  BY DEF With

(* Removing keys from a map leaves the others alone. *)
LEMMA WithoutFacts ==
    ASSUME NEW f, NEW S
    PROVE  /\ DOMAIN Without(f, S) = DOMAIN f \ S
           /\ \A y \in DOMAIN f \ S : Without(f, S)[y] = f[y]
  BY DEF Without

\* Every set of request ids is finite, and its cardinality is a number.
LEMMA RidSets ==
    ASSUME NEW S \in SUBSET Rids
    PROVE  IsFiniteSet(S) /\ Cardinality(S) \in Nat
  BY FS_Subset, FS_CardinalityType, HaloAssumption

\* Declared caps are sets of numbers.
LEMMA CapsNat == \A cap \in Caps : cap \subseteq Nat
  BY HaloAssumption DEF IsLimit

\* One more request id makes a set at most one larger.
LEMMA OneMore ==
    ASSUME NEW S \in SUBSET Rids, NEW r
    PROVE  Cardinality(S \cup {r}) <= Cardinality(S) + 1
  <1>1. IsFiniteSet(S) /\ Cardinality(S) \in Nat
    BY RidSets
  <1>2. Cardinality(S \cup {r}) = IF r \in S THEN Cardinality(S) ELSE Cardinality(S) + 1
    BY <1>1, FS_AddElement
  <1> QED BY <1>1, <1>2

-----------------------------------------------------------------------------
\* Job.on_request_admitted keeps a job within its cap if it was below it.
LEMMA AdmittedOK ==
    ASSUME NEW job, JobOK(job), NEW r \in Rids, \A n \in job.cap : job.in_flight < n,
           job.cap \subseteq Nat
    PROVE  /\ JobOK(OnRequestAdmitted(job, r))
           /\ OnRequestAdmitted(job, r).request_ids = job.request_ids \cup {r}
  <1> DEFINE q == OnRequestAdmitted(job, r)
  <1>1. /\ q.request_ids = job.request_ids \cup {r}
        /\ q.in_flight = job.in_flight + 1 /\ q.cap = job.cap
    BY DEF JobOK, JobRecord, OnRequestAdmitted
  <1>2. q \in JobRecord
    BY DEF JobOK, JobRecord, OnRequestAdmitted
  <1>3. Cardinality(job.request_ids \cup {r}) <= Cardinality(job.request_ids) + 1
    BY OneMore DEF JobOK, JobRecord
  <1>4. Cardinality(job.request_ids) \in Nat /\ Cardinality(job.request_ids \cup {r}) \in Nat
        /\ job.in_flight \in Nat
    BY RidSets DEF JobOK, JobRecord
  <1>5. Cardinality(q.request_ids) <= q.in_flight
    BY <1>1, <1>3, <1>4 DEF JobOK
  <1>6. \A n \in q.cap : q.in_flight <= n
    BY <1>1, <1>4
  <1> QED BY <1>1, <1>2, <1>5, <1>6 DEF JobOK

\* Job.on_request_completed keeps the counter above the members that are left.
LEMMA CompletedOK ==
    ASSUME NEW job, JobOK(job), NEW r \in job.request_ids, job.cap \subseteq Nat
    PROVE  /\ JobOK(OnRequestCompleted(job, r))
           /\ OnRequestCompleted(job, r).request_ids = job.request_ids \ {r}
  <1> DEFINE q == OnRequestCompleted(job, r)
  <1>1. IsFiniteSet(job.request_ids) /\ Cardinality(job.request_ids) \in Nat
    BY RidSets DEF JobOK, JobRecord
  <1>2. Cardinality(job.request_ids \ {r}) = Cardinality(job.request_ids) - 1
    BY <1>1, FS_RemoveElement
  <1>3. Cardinality(job.request_ids \ {r}) \in Nat /\ job.in_flight \in Nat
    BY RidSets DEF JobOK, JobRecord
  <1>4. job.in_flight > 0
    BY <1>1, <1>2, <1>3 DEF JobOK
  <1>5. /\ q.request_ids = job.request_ids \ {r}
        /\ q.in_flight = job.in_flight - 1 /\ q.cap = job.cap
    BY <1>4 DEF JobOK, JobRecord, OnRequestCompleted
  <1>6. q \in JobRecord
    BY <1>3, <1>4 DEF JobOK, JobRecord, OnRequestCompleted
  <1>7. Cardinality(q.request_ids) <= q.in_flight
    BY <1>1, <1>2, <1>3, <1>5 DEF JobOK
  <1>8. \A n \in q.cap : q.in_flight <= n
    BY <1>3, <1>5 DEF JobOK
  <1> QED BY <1>5, <1>6, <1>7, <1>8 DEF JobOK

\* mark_done and record_vjs leave members, counter and cap alone.
LEMMA TouchedOK ==
    ASSUME NEW job, JobOK(job)
    PROVE  /\ JobOK(MarkDone(job)) /\ MarkDone(job).request_ids = job.request_ids
           /\ MarkDone(job).cap = job.cap
           /\ JobOK(RecordVjs(job)) /\ RecordVjs(job).request_ids = job.request_ids
           /\ RecordVjs(job).cap = job.cap
  BY DEF JobOK, JobRecord, MarkDone, RecordVjs

-----------------------------------------------------------------------------
\* A live request is in request_ids of its job, so the cap bounds them.
LEMMA InvImplies == HaloInv => TrackedWhileLive /\ DeclaredConcurrency
  <1> SUFFICES ASSUME HaloInv PROVE TrackedWhileLive /\ DeclaredConcurrency
    OBVIOUS
  <1>1. TrackedWhileLive
    BY DEF HaloInv, TrackedWhileLive, MappingExact
  <1>2. ASSUME NEW j \in DOMAIN jobs, NEW n \in jobs[j].cap
        PROVE  Cardinality(Live(j)) <= n
    <2> DEFINE S == jobs[j].request_ids
    <2>1. JobOK(jobs[j]) /\ jobs[j].cap \subseteq Nat /\ S \subseteq Rids
      BY CapsNat DEF HaloInv, JobOK, JobRecord
    <2>2. Live(j) \subseteq S
      BY DEF Live, HaloInv, MappingExact
    <2>3. Cardinality(Live(j)) <= Cardinality(S) /\ IsFiniteSet(S)
      <3>1. IsFiniteSet(S) BY <2>1, RidSets
      <3> QED BY <2>2, <3>1, FS_Subset
    <2>4. Cardinality(Live(j)) \in Nat /\ Cardinality(S) \in Nat
      <3>1. Live(j) \subseteq Rids BY <2>1, <2>2
      <3> QED BY <2>1, <3>1, RidSets
    <2>5. Cardinality(S) <= jobs[j].in_flight /\ jobs[j].in_flight <= n
          /\ jobs[j].in_flight \in Nat /\ n \in Nat
      BY <2>1 DEF JobOK, JobRecord
    <2> QED BY <2>3, <2>4, <2>5
  <1> QED BY <1>1, <1>2 DEF DeclaredConcurrency

\* Nothing is registered and nothing is queued at the start.
LEMMA InitInv == Init => HaloInv
  BY DEF Init, Empty, HaloInv, TypeOK, MappingExact

\* The registry part of the invariant, when a step keeps jobs as they are.
LEMMA KeepJobs ==
    ASSUME HaloInv, UNCHANGED <<jobs, rid_to_job>>, TypeOK',
           DOMAIN req' \subseteq DOMAIN rid_to_job
    PROVE  HaloInv'
  BY DEF HaloInv, MappingExact, JobOK

\* A request that is turned away, and one that it displaced, only leave.
LEMMA TurnAwayStep ==
    ASSUME HaloInv, NEW r \in Rids, NEW dropped \in SUBSET Rids,
           NEW answer \in {"abort", "halo_reject", "finished"}, TurnAway(r, dropped, answer)
    PROVE  HaloInv'
  <1>1. DOMAIN req' = DOMAIN req \ (dropped \cup {r})
    BY WithoutFacts DEF TurnAway
  <1>2. TypeOK'
    BY <1>1, WithoutFacts DEF HaloInv, TypeOK, TurnAway, Without
  <1> QED BY <1>1, <1>2, KeepJobs DEF TurnAway, HaloInv

\* admit_to_job with room under the cap keeps the two indexes and the count.
LEMMA AdmitStep ==
    ASSUME HaloInv, NEW r \in Rids, NEW j \in Jobs, MayAdmit(j), AdmitToJob(r, j)
    PROVE  /\ DOMAIN jobs' \subseteq Jobs /\ jobs' \in [DOMAIN jobs' -> JobRecord]
           /\ DOMAIN rid_to_job' \subseteq Rids
           /\ rid_to_job' \in [DOMAIN rid_to_job' -> Jobs]
           /\ MappingExact'
           /\ DOMAIN rid_to_job' = DOMAIN rid_to_job \cup {r}
           /\ \A k \in DOMAIN jobs' : JobOK(jobs'[k])
  <1>1. CASE r \in DOMAIN rid_to_job /\ rid_to_job[r] # j
    <2>1. jobs' = jobs /\ rid_to_job' = rid_to_job
      BY <1>1 DEF AdmitToJob
    <2>2. MappingExact'
      BY <2>1 DEF MappingExact, HaloInv
    <2>3. DOMAIN rid_to_job = DOMAIN rid_to_job \cup {r}
      BY <1>1
    <2> QED BY <2>1, <2>2, <2>3 DEF HaloInv, TypeOK
  <1>2. CASE ~(r \in DOMAIN rid_to_job /\ rid_to_job[r] # j)
    <2> DEFINE q == OnRequestAdmitted(jobs[j], r)
    <2>1. /\ rid_to_job' = With(rid_to_job, r, j)
          /\ jobs' = [jobs EXCEPT ![j] = q]
      BY <1>2 DEF AdmitToJob
    <2>2. j \in DOMAIN jobs /\ jobs[j] \in JobRecord /\ JobOK(jobs[j])
      BY DEF MayAdmit, HaloInv, TypeOK
    <2>3. jobs[j].cap \subseteq Nat /\ \A n \in jobs[j].cap : jobs[j].in_flight < n
      BY <2>2, CapsNat DEF MayAdmit, AtCap, JobRecord
    <2>4. JobOK(q) /\ q.request_ids = jobs[j].request_ids \cup {r}
      BY <2>2, <2>3, AdmittedOK
    <2> HIDE DEF q
    <2>5. /\ DOMAIN jobs' = DOMAIN jobs /\ jobs'[j] = q
          /\ \A k \in DOMAIN jobs : k # j => jobs'[k] = jobs[k]
      BY <2>1, <2>2
    <2>6. /\ DOMAIN rid_to_job' = DOMAIN rid_to_job \cup {r} /\ rid_to_job'[r] = j
          /\ \A s \in DOMAIN rid_to_job : s # r => rid_to_job'[s] = rid_to_job[s]
      BY <2>1 DEF With
    <2>7. \A k \in DOMAIN jobs' : JobOK(jobs'[k])
      BY <2>4, <2>5 DEF HaloInv
    <2>8. jobs' \in [DOMAIN jobs' -> JobRecord]
      BY <2>1, <2>2, <2>4, <2>5 DEF JobOK, HaloInv, TypeOK
    <2>9. rid_to_job' \in [DOMAIN rid_to_job' -> Jobs]
      BY <2>1, <2>6 DEF With, HaloInv, TypeOK
    <2>10. MappingExact'
      BY <1>2, <2>2, <2>4, <2>5, <2>6 DEF MappingExact, HaloInv
    <2> QED BY <2>5, <2>6, <2>7, <2>8, <2>9, <2>10 DEF HaloInv, TypeOK
  <1> QED BY <1>1, <1>2

(* _add_request_to_queue keeps the invariant, for a request that arrives   *)
(* and for one that comes back.                                            *)
LEMMA AddStep ==
    ASSUME HaloInv, NEW r \in Rids, NEW j \in Jobs, AddRequestToQueue(r, j)
    PROVE  HaloInv'
  <1>1. PICK dropped \in Displaced(r) :
          \/ r \in dropped /\ TurnAway(r, dropped, "abort")
          \/ r \notin dropped /\ SloGate /\ TurnAway(r, dropped, "abort")
          \/ r \notin dropped /\ MayReject(j) /\ TurnAway(r, dropped, "halo_reject")
          \/ r \notin dropped /\ MayAdmit(j) /\ Enqueue(r, j, dropped)
    BY Zenon DEF AddRequestToQueue
  <1>2. dropped \in SUBSET Rids
    BY DEF Displaced, At, HaloInv, TypeOK
  <1>3. CASE TurnAway(r, dropped, "abort") \/ TurnAway(r, dropped, "halo_reject")
    BY <1>2, <1>3, TurnAwayStep
  <1>4. CASE MayAdmit(j) /\ Enqueue(r, j, dropped)
    <2>1. AdmitToJob(r, j) /\ MayAdmit(j)
      BY <1>4 DEF Enqueue
    <2> DEFINE v == [place |-> "waiting", job |-> j]
    <2>2. req' = With(Without(req, dropped), r, v)
      BY <1>4 DEF Enqueue
    <2>3. DOMAIN req' = (DOMAIN req \ dropped) \cup {r}
      BY <2>2 DEF With, Without
    <2>4. req' \in [DOMAIN req' -> [place : {"waiting", "prefill", "running"}, job : Jobs]]
      BY <2>2, <2>3 DEF With, Without, HaloInv, TypeOK
    <2>5. sent' \subseteq Rids \X {"abort", "halo_reject", "finished"}
      BY <1>2, <1>4 DEF Enqueue
    <2>6. TypeOK'
      BY <1>4, <2>1, <2>3, <2>4, <2>5, AdmitStep DEF Enqueue, TypeOK, HaloInv
    <2>7. DOMAIN req' \subseteq DOMAIN rid_to_job'
      BY <2>1, <2>3, AdmitStep DEF HaloInv
    <2> QED BY <2>1, <2>6, <2>7, AdmitStep DEF HaloInv
  <1> QED BY <1>1, <1>3, <1>4

\* Requests that move or leave without a word to the registry.
LEMMA MoveStep ==
    ASSUME HaloInv, NEW r, NEW from, NEW to \in {"prefill", "running"}, MoveTo(r, from, to)
    PROVE  HaloInv'
  <1>1. r \in DOMAIN req /\ req' = [req EXCEPT ![r].place = to]
    BY DEF MoveTo, At
  <1>2. TypeOK' /\ DOMAIN req' = DOMAIN req
    BY <1>1 DEF HaloInv, TypeOK, MoveTo
  <1> QED BY <1>2, KeepJobs DEF MoveTo, HaloInv

\* An AbortReq drops a request and leaves the registry as it is.
LEMMA DropStep ==
    ASSUME HaloInv, NEW r \in Rids, DropWithAbort(r)
    PROVE  HaloInv'
  <1>1. DOMAIN req' = DOMAIN req \ {r}
    BY DEF DropWithAbort, Without
  <1>2. TypeOK'
    BY <1>1 DEF HaloInv, TypeOK, DropWithAbort, Without
  <1> QED BY <1>1, <1>2, KeepJobs DEF DropWithAbort, HaloInv

\* The finish hook takes the request off the job that counts it.
LEMMA FinishStep ==
    ASSUME HaloInv, NEW r \in Rids, Finish(r)
    PROVE  HaloInv'
  <1>1. PICK done \in BOOLEAN : OnRequestFinished(r, done)
    BY Zenon DEF Finish
  <1>2. r \in DOMAIN req /\ r \in DOMAIN rid_to_job
    BY DEF Finish, At, HaloInv
  <1> DEFINE j == rid_to_job[r]
             marked == IF done THEN MarkDone(jobs[j]) ELSE jobs[j]
             q == OnRequestCompleted(marked, r)
  <1>3. j \in DOMAIN jobs /\ r \in jobs[j].request_ids /\ JobOK(jobs[j])
    BY <1>2 DEF HaloInv, MappingExact
  <1>4. rid_to_job' = Without(rid_to_job, {r}) /\ jobs' = [jobs EXCEPT ![j] = q]
    BY <1>1, <1>2, <1>3 DEF OnRequestFinished
  <1>5. JobOK(marked) /\ marked.request_ids = jobs[j].request_ids /\ marked.cap \subseteq Nat
    <2>1. JobOK(marked) /\ marked.request_ids = jobs[j].request_ids
      BY <1>3, TouchedOK
    <2> QED BY <2>1, CapsNat DEF JobOK, JobRecord
  <1> HIDE DEF marked
  <1>6. JobOK(q) /\ q.request_ids = jobs[j].request_ids \ {r}
    BY <1>3, <1>5, CompletedOK
  <1> HIDE DEF q
  <1>7. /\ DOMAIN jobs' = DOMAIN jobs /\ jobs'[j] = q
        /\ \A k \in DOMAIN jobs : k # j => jobs'[k] = jobs[k]
    BY <1>3, <1>4
  <1>8. /\ DOMAIN rid_to_job' = DOMAIN rid_to_job \ {r}
        /\ \A s \in DOMAIN rid_to_job : s # r => rid_to_job'[s] = rid_to_job[s]
    BY <1>4 DEF Without
  <1>9. DOMAIN req' = DOMAIN req \ {r}
    BY DEF Finish, Without
  <1>10. \A k \in DOMAIN jobs' : JobOK(jobs'[k])
    BY <1>6, <1>7 DEF HaloInv
  <1>11. TypeOK'
    <2>1. jobs' \in [DOMAIN jobs' -> JobRecord] /\ DOMAIN jobs' \subseteq Jobs
      BY <1>4, <1>7, <1>10 DEF JobOK, HaloInv, TypeOK
    <2>2. rid_to_job' \in [DOMAIN rid_to_job' -> Jobs] /\ DOMAIN rid_to_job' \subseteq Rids
      BY <1>4, <1>8 DEF Without, HaloInv, TypeOK
    <2>3. /\ req' \in [DOMAIN req' -> [place : {"waiting", "prefill", "running"}, job : Jobs]]
          /\ DOMAIN req' \subseteq Rids
          /\ unfiltered' \subseteq Jobs
          /\ sent' \subseteq Rids \X {"abort", "halo_reject", "finished"}
      BY <1>2, <1>9 DEF Finish, Without, HaloInv, TypeOK
    <2> QED BY <2>1, <2>2, <2>3 DEF TypeOK
  <1>12. MappingExact'
    BY <1>3, <1>6, <1>7, <1>8 DEF MappingExact, HaloInv
  <1> QED BY <1>8, <1>9, <1>10, <1>11, <1>12 DEF HaloInv

(* A step that only adds or drops jobs without members, and otherwise      *)
(* keeps members and count of each job, keeps the invariant.               *)
LEMMA JobsStep ==
    ASSUME HaloInv, UNCHANGED <<rid_to_job, req, unfiltered>>, sent' = {}, DOMAIN jobs' \subseteq Jobs,
           jobs' = [k \in DOMAIN jobs' |-> jobs'[k]],
           \A k \in DOMAIN jobs' :
              /\ JobOK(jobs'[k])
              /\ jobs'[k].request_ids = IF k \in DOMAIN jobs THEN jobs[k].request_ids ELSE {},
           \A k \in DOMAIN jobs \ DOMAIN jobs' : jobs[k].request_ids = {}
    PROVE  HaloInv'
  <1>1. TypeOK'
    BY DEF HaloInv, TypeOK, JobOK
  <1>2. MappingExact'
    BY DEF HaloInv, MappingExact
  <1> QED BY <1>1, <1>2 DEF HaloInv

\* A new program has no members and is within its cap.
LEMMA RegisterStep ==
    ASSUME HaloInv, NEW j \in Jobs, RegisterProgram(j)
    PROVE  HaloInv'
  <1>1. PICK cap \in Caps : jobs' = With(jobs, j, NewJob(cap))
    BY Zenon DEF RegisterProgram
  <1>2. JobOK(NewJob(cap)) /\ NewJob(cap).request_ids = {}
    BY CapsNat, FS_EmptySet DEF JobOK, NewJob, JobRecord
  <1>3. /\ DOMAIN jobs' = DOMAIN jobs \cup {j} /\ jobs'[j] = NewJob(cap)
        /\ \A k \in DOMAIN jobs : jobs'[k] = jobs[k]
        /\ jobs' = [k \in DOMAIN jobs' |-> jobs'[k]]
    BY <1>1 DEF With, RegisterProgram
  <1>4. \A k \in DOMAIN jobs' :
          /\ JobOK(jobs'[k])
          /\ jobs'[k].request_ids = IF k \in DOMAIN jobs THEN jobs[k].request_ids ELSE {}
    BY <1>2, <1>3 DEF HaloInv, RegisterProgram
  <1> QED BY <1>3, <1>4, JobsStep DEF RegisterProgram, HaloInv, TypeOK

\* The sweep and the three collectors drop only jobs without members.
LEMMA TickStep ==
    ASSUME HaloInv, Tick
    PROVE  HaloInv'
  <1> DEFINE S == Swept(jobs)
             Q == GcQuiescent(S)
             C == GcCompleted(Q)
             I == GcIdle(C)
  <1>1. /\ DOMAIN S = DOMAIN jobs
        /\ \A k \in DOMAIN jobs : JobOK(S[k]) /\ S[k].request_ids = jobs[k].request_ids
    BY TouchedOK DEF Swept, HaloInv
  <1> HIDE DEF S
  <1>2. /\ DOMAIN Q = DOMAIN jobs
        /\ \A k \in DOMAIN jobs : JobOK(Q[k]) /\ Q[k].request_ids = jobs[k].request_ids
    BY <1>1, TouchedOK DEF GcQuiescent
  <1> HIDE DEF Q
  <1>3. /\ DOMAIN C \subseteq DOMAIN jobs
        /\ \A k \in DOMAIN C : JobOK(C[k]) /\ C[k].request_ids = jobs[k].request_ids
        /\ \A k \in DOMAIN jobs \ DOMAIN C : jobs[k].request_ids = {}
    BY <1>2 DEF GcCompleted, Without, Completed
  <1> HIDE DEF C
  <1>4. /\ DOMAIN I \subseteq DOMAIN jobs
        /\ \A k \in DOMAIN I : JobOK(I[k]) /\ I[k].request_ids = jobs[k].request_ids
        /\ \A k \in DOMAIN jobs \ DOMAIN I : jobs[k].request_ids = {}
        /\ I = [k \in DOMAIN I |-> I[k]]
    BY <1>3 DEF GcIdle, Without, IsIdle
  <1> HIDE DEF I
  <1>5. jobs' = I /\ sent' = {} /\ UNCHANGED <<rid_to_job, req, unfiltered>>
    BY DEF Tick, I, C, Q, S
  <1>6. DOMAIN jobs' \subseteq Jobs
    BY <1>4, <1>5 DEF HaloInv, TypeOK
  <1> QED BY <1>4, <1>5, <1>6, JobsStep

\* Time changes the ages only.
LEMMA ClockStep ==
    ASSUME HaloInv, Clock
    PROVE  HaloInv'
  <1>1. MaxAge \in Nat /\ \A a \in Nat : Older(a) \in Nat
    BY HaloAssumption DEF Older
  <1>2. ASSUME NEW job, JobOK(job)
        PROVE  LET q == [job EXCEPT !.since_update = Older(job.since_update),
                                    !.since_seen = IF job.seen THEN job.since_seen
                                                   ELSE Older(job.since_seen)]
               IN  JobOK(q) /\ q.request_ids = job.request_ids
    BY <1>1, <1>2 DEF JobOK, JobRecord
  <1>3. /\ DOMAIN jobs' = DOMAIN jobs /\ jobs' = [k \in DOMAIN jobs' |-> jobs'[k]]
        /\ \A k \in DOMAIN jobs : JobOK(jobs'[k]) /\ jobs'[k].request_ids = jobs[k].request_ids
    BY <1>2 DEF Clock, HaloInv
  <1> QED BY <1>3, JobsStep DEF Clock, HaloInv, TypeOK

-----------------------------------------------------------------------------
\* HaloInv is preserved by every step.
LEMMA InvStep == HaloInv /\ [Next]_vars => HaloInv'
  <1> SUFFICES ASSUME HaloInv, [Next]_vars PROVE HaloInv'
    OBVIOUS
  <1>1. ASSUME NEW j \in Jobs, RegisterProgram(j) PROVE HaloInv'
    BY <1>1, RegisterStep
  <1>2. ASSUME NEW r \in Rids, Submit(r) PROVE HaloInv'
    <2>1. PICK j \in Claims[r] : AddRequestToQueue(r, j)
      BY <1>2, Zenon DEF Submit
    <2>2. j \in Jobs
      BY HaloAssumption
    <2> QED BY <2>1, <2>2, AddStep
  <1>3. ASSUME NEW r \in Rids, Start(r) \/ Merge(r) PROVE HaloInv'
    BY <1>3, MoveStep DEF Start, Merge
  <1>4. ASSUME NEW r \in Rids, Retract(r) PROVE HaloInv'
    <2>1. req[r].job \in Jobs /\ AddRequestToQueue(r, req[r].job)
      BY <1>4 DEF Retract, At, HaloInv, TypeOK
    <2> QED BY <2>1, AddStep
  <1>5. ASSUME NEW r \in Rids, DropWithAbort(r) PROVE HaloInv'
    BY <1>5, DropStep
  <1>6. ASSUME NEW r \in Rids, Finish(r) PROVE HaloInv'
    BY <1>6, FinishStep
  <1>7. CASE Tick
    BY <1>7, TickStep
  <1>8. CASE Clock
    BY <1>8, ClockStep
  <1>9. CASE Filter
    <2>1. TypeOK' /\ UNCHANGED <<jobs, rid_to_job, req>>
      BY <1>9 DEF Filter, HaloInv, TypeOK
    <2> QED BY <2>1, KeepJobs DEF HaloInv
  <1>10. CASE UNCHANGED vars
    BY <1>10 DEF vars, HaloInv, TypeOK, MappingExact
  <1> QED BY <1>1, <1>2, <1>3, <1>4, <1>5, <1>6, <1>7, <1>8, <1>9, <1>10 DEF Next

(* JobRegistry's indexes _jobs and _rid_to_job always agree, and a request *)
(* in the scheduler is always counted by a registered job.                 *)
THEOREM RegistryAgrees == Spec => [](TypeOK /\ MappingExact /\ TrackedWhileLive)
  <1>1. HaloInv => TypeOK /\ MappingExact /\ TrackedWhileLive
    BY InvImplies DEF HaloInv
  <1> QED BY <1>1, InitInv, InvStep, PTL DEF Spec

(* Stage B: no job ever has more requests in the scheduler than it         *)
(* declared, retracted requests, aborts and reused rids included.          *)
THEOREM CapKept == Spec => []DeclaredConcurrency
  BY InitInv, InvStep, InvImplies, PTL DEF Spec

=============================================================================
