---------------------------- MODULE CircuitBreaker ----------------------------
(***************************************************************************)
(* sgl-model-gateway/src/core/circuit_breaker.rs: the breaker the gateway  *)
(* keeps per worker.  Every request thread records outcomes and asks       *)
(* whether the worker may be used.  The state, the two counters and the    *)
(* time stamp are separate atomics without a lock, so a step of this       *)
(* module is one access to one of them; pc says which access a thread does *)
(* next.  Accesses are taken to be sequentially consistent.                *)
(*                                                                         *)
(* Counters are only compared with their threshold and saturate there.     *)
(* Time is the age of the stamp, which saturates at the timeout.  The      *)
(* totals, the time of the last failure and the metrics decide nothing and *)
(* are left out.                                                           *)
(***************************************************************************)
EXTENDS Integers

CONSTANTS Threads,
          FailureThreshold,  \* config.failure_threshold
          SuccessThreshold,  \* config.success_threshold
          Timeout            \* config.timeout_duration, in ticks

ASSUME BreakerAssumption ==
    /\ {FailureThreshold, SuccessThreshold, Timeout} \subseteq Nat \ {0}

States == {"Closed", "Open", "HalfOpen"}
Calls == {"can_execute", "record_success", "record_failure", "record_test_success",
          "record_test_failure", "reset", "force_open"}

VARIABLES state,     \* state
          failures,  \* consecutive_failures
          successes, \* consecutive_successes
          age,       \* now_ms() - last_state_change_ms
          th         \* per thread: pc, the access it does next; the call it is in;
                     \* got, what its fetch_add gave; goal, the new_state it wants
vars == <<state, failures, successes, age, th>>
counters == <<failures, successes>>

Idle == [pc |-> "idle", call |-> "can_execute", got |-> 0, goal |-> "Closed"]

\* with_config_and_label
Init ==
    /\ state = "Closed" /\ failures = 0 /\ successes = 0 /\ age = 0
    /\ th = [t \in Threads |-> Idle]

Saturated(n, limit) == IF n < limit THEN n ELSE limit

At(t, pc) == th[t].pc = pc
Goto(t, pc) == th' = [th EXCEPT ![t] = IF pc = "idle" THEN Idle ELSE [@ EXCEPT !.pc = pc]]

IsSuccess(t) == th[t].call \in {"record_success", "record_test_success"}
IsTest(t) == th[t].call \in {"record_test_success", "record_test_failure"}

\* A thread that is in no call enters one.
Enter(t, c) ==
    /\ At(t, "idle")
    /\ th' = [th EXCEPT ![t] =
                [Idle EXCEPT !.call = c,
                             !.goal = IF c = "force_open" THEN "Open" ELSE "Closed",
                             !.pc = CASE c \in {"record_success", "record_failure"} -> "clear"
                                      [] c \in {"reset", "force_open"} -> "swap"
                                      [] OTHER -> "load"]]
    /\ UNCHANGED <<state, counters, age>>

-----------------------------------------------------------------------------
(* check_and_update_state_returning, and the calls that go on after it      *)

\* The result is s: record_test_success and record_test_failure record an
\* outcome if the circuit is half-open.
Return(t, s) == Goto(t, IF IsTest(t) /\ s = "HalfOpen" THEN "clear" ELSE "idle")

\* The first form leaves the half-opening to nobody.
LoadOnly(t) ==
    /\ At(t, "load") /\ Return(t, state)
    /\ UNCHANGED <<state, counters, age>>

Load(t) ==
    /\ At(t, "load")
    /\ IF state = "Open" THEN Goto(t, "elapsed") ELSE Return(t, state)
    /\ UNCHANGED <<state, counters, age>>

Elapsed(t) ==
    /\ At(t, "elapsed")
    /\ IF age >= Timeout THEN Goto(t, "cas") ELSE Return(t, "Open")
    /\ UNCHANGED <<state, counters, age>>

CompareExchange(t) ==
    /\ At(t, "cas")
    /\ IF state = "Open" THEN state' = "HalfOpen" /\ Goto(t, "half_stamp")
                         ELSE state' = state /\ Goto(t, "reload")
    /\ UNCHANGED <<counters, age>>

\* Another thread was first, or the state has changed otherwise: it is read again.
Reload(t) ==
    /\ At(t, "reload") /\ Return(t, state)
    /\ UNCHANGED <<state, counters, age>>

\* The thread that won the exchange stores the time and both counters.
HalfOpened(t) ==
    /\ \/ /\ At(t, "half_stamp") /\ Goto(t, "half_failures")
          /\ age' = 0 /\ UNCHANGED counters
       \/ /\ At(t, "half_failures") /\ Goto(t, "half_successes")
          /\ failures' = 0 /\ UNCHANGED <<successes, age>>
       \/ /\ At(t, "half_successes") /\ Return(t, "HalfOpen")
          /\ successes' = 0 /\ UNCHANGED <<failures, age>>
    /\ UNCHANGED state

-----------------------------------------------------------------------------
(* record_success and record_failure                                        *)

\* The other counter is set to 0, then the own one is counted up.
Clear(t) ==
    /\ At(t, "clear") /\ Goto(t, "add")
    /\ IF IsSuccess(t) THEN failures' = 0 /\ UNCHANGED successes
                       ELSE successes' = 0 /\ UNCHANGED failures
    /\ UNCHANGED <<state, age>>

FetchAdd(t) ==
    /\ At(t, "add")
    /\ IF IsSuccess(t)
       THEN successes' = Saturated(successes + 1, SuccessThreshold) /\ UNCHANGED failures
       ELSE failures' = Saturated(failures + 1, FailureThreshold) /\ UNCHANGED successes
    /\ th' = [th EXCEPT ![t].pc = "decide",
                        ![t].got = IF IsSuccess(t) THEN successes' ELSE failures']
    /\ UNCHANGED <<state, age>>

\* The state is read after the count.  The first form is off by one.
WantsLate(t) ==
    IF IsSuccess(t) THEN state = "HalfOpen" /\ th[t].got > SuccessThreshold
                    ELSE \/ state = "Closed" /\ th[t].got > FailureThreshold
                         \/ state = "HalfOpen"

WantsTransition(t) ==
    IF IsSuccess(t) THEN state = "HalfOpen" /\ th[t].got >= SuccessThreshold
                    ELSE \/ state = "Closed" /\ th[t].got >= FailureThreshold
                         \/ state = "HalfOpen"

Decide(t) ==
    /\ At(t, "decide")
    /\ IF WantsTransition(t)
       THEN th' = [th EXCEPT ![t].pc = "swap", ![t].got = 0,
                             ![t].goal = IF IsSuccess(t) THEN "Closed" ELSE "Open"]
       ELSE Goto(t, "idle")
    /\ UNCHANGED <<state, counters, age>>

-----------------------------------------------------------------------------
(* transition_to, reset and force_open                                      *)

\* Where a call goes on after transition_to.
AfterTransition(t) == Goto(t, IF th[t].call = "reset" THEN "reset_failures" ELSE "idle")

\* An unconditional swap; nothing more happens if the state was there already.
Swap(t) ==
    /\ At(t, "swap")
    /\ state' = th[t].goal
    /\ IF state = state' THEN AfterTransition(t) ELSE Goto(t, "stamp")
    /\ UNCHANGED <<counters, age>>

Stamp(t) ==
    /\ At(t, "stamp")
    /\ age' = 0
    /\ Goto(t, IF th[t].goal = "Closed" THEN "zero_failures" ELSE "zero_successes")
    /\ UNCHANGED <<state, counters>>

\* An opening circuit keeps its count of failures.
Zero(t) ==
    /\ \/ /\ At(t, "zero_failures") /\ Goto(t, "zero_successes")
          /\ failures' = 0 /\ UNCHANGED successes
       \/ /\ At(t, "zero_successes") /\ AfterTransition(t)
          /\ successes' = 0 /\ UNCHANGED failures
    /\ UNCHANGED <<state, age>>

Reset(t) ==
    /\ \/ /\ At(t, "reset_failures") /\ Goto(t, "reset_successes")
          /\ failures' = 0 /\ UNCHANGED successes
       \/ /\ At(t, "reset_successes") /\ Goto(t, "idle")
          /\ successes' = 0 /\ UNCHANGED failures
    /\ UNCHANGED <<state, age>>

-----------------------------------------------------------------------------
Tick ==
    /\ age < Timeout /\ age' = age + 1
    /\ UNCHANGED <<state, counters, th>>

Step(t) == \/ Load(t) \/ Elapsed(t) \/ CompareExchange(t) \/ Reload(t) \/ HalfOpened(t)
           \/ Clear(t) \/ FetchAdd(t) \/ Decide(t)
           \/ Swap(t) \/ Stamp(t) \/ Zero(t) \/ Reset(t)

Next == \/ \E t \in Threads : Step(t) \/ \E c \in Calls : Enter(t, c)
        \/ Tick

\* A thread that is in a call finishes it, time passes, and the gateway asks
\* about a worker again and again (is_available, on every request it routes).
Spec ==
    /\ Init /\ [][Next]_vars
    /\ \A t \in Threads : WF_vars(Step(t))
    /\ WF_vars(Tick)
    /\ SF_vars(\E t \in Threads : Enter(t, "can_execute"))

-----------------------------------------------------------------------------
Quiet == \A t \in Threads : At(t, "idle")

\* Separate atomics, but the counters and the state agree once no call is under
\* way: a closed circuit has fewer failures in a row than open it, and a
\* half-open one fewer successes than close it.  A count that reached its
\* threshold is never left behind without its transition.
CountersAgree ==
    Quiet => /\ state = "Closed" => failures < FailureThreshold
             /\ state = "HalfOpen" => successes < SuccessThreshold

\* An open circuit does not stay open: after the timeout some caller of
\* can_execute takes it to half-open, whatever the other threads record.
Recovers == state = "Open" ~> state # "Open"

\* A circuit is closed again only from half-open, by successes, or by reset: the
\* documentation of transition_to says that a transition is a compare-and-swap.
ClosesFromHalfOpen ==
    [][state = "Open" /\ state' = "Closed"
         => \E t \in Threads : At(t, "swap") /\ th[t].call = "reset"]_vars
==============================================================================
