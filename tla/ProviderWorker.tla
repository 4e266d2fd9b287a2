--------------------------- MODULE ProviderWorker ---------------------------
(***************************************************************************)
(* provider_worker.py: one daemon thread runs synchronous provider calls   *)
(* for tasks of several event loops.  A lane, handed from owner to owner   *)
(* under a thread lock, keeps a call that outlived its client's deadline   *)
(* from being overlapped.  Every action below is one critical section of   *)
(* the lock, or one step of the executor's thread, so tasks of one event   *)
(* loop interleave here as freely as tasks of different loops do.          *)
(***************************************************************************)
CONSTANTS
    Callers,    \* tasks that execute ProviderWorker.run once
    Idlers,     \* tasks that execute ProviderWorker.wait_until_idle once
    Closers,    \* tasks that execute ProviderWorker.aclose once
    Loops,      \* event loops
    LoopOf,     \* the loop of every task
    Hung,       \* the callers whose provider call may never return
    NoTask

Tasks == Callers \union Idlers \union Closers

ASSUME WorkerAssumption ==
    /\ Callers \intersect Idlers = {}
    /\ Callers \intersect Closers = {}
    /\ Idlers \intersect Closers = {}
    /\ LoopOf \in [Tasks -> Loops]
    /\ Hung \subseteq Callers
    /\ NoTask \notin Tasks

VARIABLES
    pc,         \* control state of each task
    queue,      \* _waiters: the tasks waiting for the lane
    ahead,      \* its order: the waiters found by each task when it queued
    handoff,    \* _handoff: the waiter the lane is reserved for
    occupied,   \* _occupied
    future,     \* the waiter's asyncio future: pending, set or cancelled
    active,     \* _LaneWaiter.active
    granted,    \* _LaneWaiter.granted
    soon,       \* waiters with a _resolve_waiter callback on their loop
    returning,  \* waiters whose callback owns the lane and must release it
    call,       \* the executor's future of each caller
    started,    \* ProviderCallState._started
    uncertain,  \* ProviderCallState._uncertain
    passed,     \* the idlers whose wait_until_idle has returned
    expired,    \* the callers and closers whose budget has expired
    dead,       \* the event loops that are closed
    closed,     \* _closed
    stopped,    \* the executor refuses new calls
    complete    \* _shutdown_complete

laneVars == <<queue, ahead, handoff, occupied, future, active, granted, soon, returning>>
callVars == <<call, started, uncertain, passed>>
closeVars == <<closed, stopped, complete>>
vars == <<pc, laneVars, callVars, expired, dead, closeVars>>

(* Control states in which a task owns the lane.                           *)
OwningPcs == {"lane", "dispatch", "joining", "releasing", "recovering",
              "pollRelease", "abandonRelease"}
Pcs == OwningPcs \union {"idle", "closing", "queued", "abandonReclaim",
                         "forceStop", "submitted", "done"}
(* The states of an executor future in which its call owns the lane.       *)
LiveCall == {"pending", "running", "body", "completing", "withdrawing"}

Init ==
    /\ pc = [t \in Tasks |-> "idle"]
    /\ queue = {}
    /\ ahead = [t \in Tasks |-> {}]
    /\ handoff = NoTask
    /\ occupied = FALSE
    /\ future = [t \in Tasks |-> "none"]
    /\ active = [t \in Tasks |-> FALSE]
    /\ granted = [t \in Tasks |-> FALSE]
    /\ soon = {}
    /\ returning = {}
    /\ call = [c \in Callers |-> "none"]
    /\ started = {}
    /\ uncertain = {}
    /\ passed = {}
    /\ expired = {}
    /\ dead = {}
    /\ closed = FALSE
    /\ stopped = FALSE
    /\ complete = FALSE

Goto(t, label) == pc' = [pc EXCEPT ![t] = label]
Alive(t) == LoopOf[t] \notin dead

-----------------------------------------------------------------------------
(* The lane.                                                               *)

(* A waiter _release_lane skips.  A loop that closes between the test and  *)
(* call_soon_threadsafe raises RuntimeError, and is skipped the same way.  *)
Skipped(w) == ~active[w] \/ future[w] # "pending" \/ ~Alive(w)

FirstLive(w) ==
    /\ w \in queue
    /\ ~Skipped(w)
    /\ \A u \in queue \intersect ahead[w] : Skipped(u)

(* _release_lane: the owner reserves the lane for the oldest live waiter   *)
(* and unlinks the dead ones before it, or frees the lane.                 *)
ReleaseLane ==
    \/ \E w \in queue :
          LET popped == {u \in queue : u \in ahead[w]} IN
          /\ FirstLive(w)
          /\ queue' = queue \ (popped \union {w})
          /\ active' = [t \in Tasks |-> active[t] /\ t \notin popped]
          /\ granted' = [granted EXCEPT ![w] = TRUE]
          /\ handoff' = w
          /\ soon' = soon \union {w}
          /\ UNCHANGED <<occupied, future, ahead>>
    \/ /\ \A w \in queue : Skipped(w)
       /\ queue' = {}
       /\ active' = [t \in Tasks |-> active[t] /\ t \notin queue]
       /\ occupied' = FALSE
       /\ UNCHANGED <<granted, handoff, soon, future, ahead>>

(* Mutants of StaleHandoff: any reservation may be taken over; the loop of *)
(* the waiter is taken to be running.                                      *)
AnyHandoff == handoff # NoTask

UnwantedHandoff ==
    /\ handoff # NoTask
    /\ ~active[handoff] \/ future[handoff] = "cancelled"

(* A reservation nobody will collect.                                      *)
StaleHandoff ==
    /\ handoff # NoTask
    /\ ~active[handoff] \/ future[handoff] = "cancelled" \/ ~Alive(handoff)

DropHandoff ==
    /\ active' = [active EXCEPT ![handoff] = FALSE]
    /\ granted' = [granted EXCEPT ![handoff] = FALSE]
    /\ handoff' = NoTask

Enqueue(t) ==
    /\ future' = [future EXCEPT ![t] = "pending"]
    /\ queue' = queue \union {t}
    /\ ahead' = [ahead EXCEPT ![t] = queue]

(* The first critical section of _acquire_lane; run refuses a closed       *)
(* worker, wait_until_idle and aclose do not.                              *)
Arrives(t) ==
    /\ pc[t] = IF t \in Closers THEN "closing" ELSE "idle"
    /\ Alive(t)
    /\ UNCHANGED <<callVars, expired, dead, closeVars>>

Refused(t) == closed /\ t \in Callers

RefuseClosed(t) ==
    /\ Arrives(t) /\ Refused(t)
    /\ Goto(t, "done")
    /\ UNCHANGED laneVars

(* A stale reservation is taken over when nobody queued ...                *)
InheritHandoff(t) ==
    /\ Arrives(t) /\ ~Refused(t)
    /\ StaleHandoff /\ queue = {}
    /\ DropHandoff
    /\ Goto(t, "lane")
    /\ UNCHANGED <<queue, ahead, occupied, future, soon, returning>>

(* ... and passed on to the oldest waiter when somebody did.               *)
RecoverHandoff(t) ==
    /\ Arrives(t) /\ ~Refused(t)
    /\ StaleHandoff /\ queue # {}
    /\ Enqueue(t)
    /\ active' = [active EXCEPT ![handoff] = FALSE, ![t] = TRUE]
    /\ granted' = [granted EXCEPT ![handoff] = FALSE]
    /\ handoff' = NoTask
    /\ Goto(t, "recovering")
    /\ UNCHANGED <<occupied, soon, returning>>

TakeFreeLane(t) ==
    /\ Arrives(t) /\ ~Refused(t)
    /\ ~StaleHandoff /\ ~occupied
    /\ occupied' = TRUE
    /\ Goto(t, "lane")
    /\ UNCHANGED <<queue, ahead, handoff, future, active, granted, soon, returning>>

JoinQueue(t) ==
    /\ Arrives(t) /\ ~Refused(t)
    /\ ~StaleHandoff /\ occupied
    /\ Enqueue(t)
    /\ active' = [active EXCEPT ![t] = TRUE]
    /\ Goto(t, "queued")
    /\ UNCHANGED <<handoff, occupied, granted, soon, returning>>

AcquireLane(t) ==
    \/ RefuseClosed(t) \/ InheritHandoff(t) \/ RecoverHandoff(t)
    \/ TakeFreeLane(t) \/ JoinQueue(t)

(* _resolve_waiter, run by the loop of the waiter the lane is reserved for. *)
ResolveWaiter(t) ==
    /\ t \in soon
    /\ Alive(t)
    /\ soon' = soon \ {t}
    /\ \/ /\ handoff # t
          /\ UNCHANGED <<future, active, granted, handoff, returning>>
       \/ /\ handoff = t
          /\ future[t] # "pending" \/ ~active[t]
          /\ DropHandoff
          /\ returning' = returning \union {t}
          /\ UNCHANGED future
       \/ /\ handoff = t
          /\ future[t] = "pending" /\ active[t]
          /\ future' = [future EXCEPT ![t] = "set"]
          /\ UNCHANGED <<active, granted, handoff, returning>>
    /\ UNCHANGED <<pc, queue, ahead, occupied, callVars, expired, dead, closeVars>>

CallbackReleases(t) ==
    /\ t \in returning
    /\ returning' = returning \ {t}
    /\ ReleaseLane
    /\ UNCHANGED <<pc, callVars, expired, dead, closeVars>>

(* The waiter wakes with its reservation and collects the lane.            *)
Resume(t) ==
    /\ pc[t] = "queued" /\ Alive(t)
    /\ future[t] = "set"
    /\ active' = [active EXCEPT ![t] = FALSE]
    /\ granted' = [granted EXCEPT ![t] = FALSE]
    /\ handoff' = IF handoff = t THEN NoTask ELSE handoff
    /\ Goto(t, "lane")
    /\ UNCHANGED <<queue, ahead, occupied, future, soon, returning, callVars,
                   expired, dead, closeVars>>

(* A mutant of CancelWait: aclose waits for the lane without a deadline.   *)
CancelCallerWait(t) ==
    /\ t \in Callers
    /\ pc[t] = "queued" /\ Alive(t)
    /\ future[t] = "pending"
    /\ future' = [future EXCEPT ![t] = "cancelled"]
    /\ UNCHANGED <<pc, queue, ahead, handoff, occupied, active, granted, soon,
                   returning, callVars, expired, dead, closeVars>>

(* A deadline or a cancellation reaches a budgeted wait: asyncio cancels   *)
(* the waiter's future at once, the task runs its handler later.           *)
CancelWait(t) ==
    /\ pc[t] = "queued" /\ Alive(t)
    /\ t \notin Idlers
    /\ future[t] = "pending"
    /\ future' = [future EXCEPT ![t] = "cancelled"]
    /\ UNCHANGED <<pc, queue, ahead, handoff, occupied, active, granted, soon,
                   returning, callVars, expired, dead, closeVars>>

(* The except clause of _acquire_lane.  The wait of an idler is not on the *)
(* future itself, so that its future stays pending; a wait whose future is *)
(* set may still be interrupted before the task resumes.                   *)
AbandonWait(t) ==
    /\ pc[t] = "queued" /\ Alive(t)
    /\ future[t] \in {"cancelled", "set"} \/ t \in Idlers
    /\ active' = [active EXCEPT ![t] = FALSE]
    /\ granted' = [granted EXCEPT ![t] = FALSE]
    /\ queue' = queue \ {t}
    /\ handoff' = IF granted[t] /\ handoff = t THEN NoTask ELSE handoff
    /\ Goto(t, IF granted[t] THEN "abandonRelease" ELSE "abandonReclaim")
    /\ UNCHANGED <<ahead, occupied, future, soon, returning, callVars, expired,
                   dead, closeVars>>

(* Where a task goes once it has given its wait up: aclose turns its       *)
(* deadline into a forced stop of the executor.                            *)
AfterAbandon(t) ==
    \/ Goto(t, "done")
    \/ t \in Closers \intersect expired /\ Goto(t, "forceStop")

(* _reclaim_abandoned_handoff, from the handler of a failed wait or from   *)
(* the liveness poll of a wait without a budget.                           *)
ReclaimHandoff(t) ==
    \/ /\ ~StaleHandoff
       /\ IF pc[t] = "queued" THEN UNCHANGED pc ELSE AfterAbandon(t)
       /\ UNCHANGED <<active, granted, handoff, occupied>>
    \/ /\ StaleHandoff
       /\ DropHandoff
       /\ \/ /\ queue # {}
             /\ Goto(t, IF pc[t] = "queued" THEN "pollRelease" ELSE "abandonRelease")
             /\ UNCHANGED occupied
          \/ /\ queue = {}
             /\ occupied' = FALSE
             /\ IF pc[t] = "queued" THEN UNCHANGED pc ELSE AfterAbandon(t)

PollHandoff(t) ==
    /\ t \in Idlers
    /\ pc[t] = "queued" /\ Alive(t)
    /\ future[t] = "pending"
    /\ ReclaimHandoff(t)
    /\ UNCHANGED <<queue, ahead, future, soon, returning, callVars, expired,
                   dead, closeVars>>

ReclaimAfterAbandon(t) ==
    /\ pc[t] = "abandonReclaim"
    /\ ReclaimHandoff(t)
    /\ UNCHANGED <<queue, ahead, future, soon, returning, callVars, expired,
                   dead, closeVars>>

(* _release_lane called by the task that owns the lane.                    *)
TaskReleases(t) ==
    /\ pc[t] \in {"releasing", "recovering", "pollRelease", "abandonRelease"}
    /\ ReleaseLane
    /\ \/ pc[t] \in {"recovering", "pollRelease"} /\ Goto(t, "queued")
       \/ pc[t] = "abandonRelease" /\ AfterAbandon(t)
       \/ pc[t] = "releasing" /\ Goto(t, "done")
    /\ UNCHANGED <<returning, callVars, expired, dead, closeVars>>

-----------------------------------------------------------------------------
(* The calls.                                                              *)

(* run, once it owns the lane: refuse a closed worker or a spent budget ... *)
CheckOpen(t) ==
    /\ t \in Callers
    /\ pc[t] = "lane"
    /\ Goto(t, IF closed \/ t \in expired THEN "releasing" ELSE "dispatch")
    /\ UNCHANGED <<laneVars, callVars, expired, dead, closeVars>>

(* ... and hand the call to the executor, which refuses after shutdown.    *)
Submit(t) ==
    /\ pc[t] = "dispatch"
    /\ \/ /\ stopped
          /\ Goto(t, "releasing")
          /\ UNCHANGED call
       \/ /\ ~stopped
          /\ call' = [call EXCEPT ![t] = "pending"]
          /\ Goto(t, "submitted")
    /\ UNCHANGED <<laneVars, started, uncertain, passed, expired, dead, closeVars>>

ThreadFree == \A c \in Callers : call[c] \notin {"running", "body", "completing"}

(* The daemon thread takes the call: the future can no longer be cancelled. *)
TakeCall(t) ==
    /\ call[t] = "pending"
    /\ ThreadFree
    /\ call' = [call EXCEPT ![t] = "running"]
    /\ UNCHANGED <<pc, laneVars, started, uncertain, passed, expired, dead, closeVars>>

(* tracked_call checks the budget and the pre-dispatch guard before it     *)
(* marks the call as started and touches the provider.                     *)
EnterBody(t) ==
    /\ call[t] = "running"
    /\ t \notin expired
    /\ started' = started \union {t}
    /\ call' = [call EXCEPT ![t] = "body"]
    /\ UNCHANGED <<pc, laneVars, uncertain, passed, expired, dead, closeVars>>

RefuseBody(t) ==
    /\ call[t] = "running"
    /\ call' = [call EXCEPT ![t] = "completing"]
    /\ UNCHANGED <<pc, laneVars, started, uncertain, passed, expired, dead, closeVars>>

ReturnBody(t) ==
    /\ call[t] = "body"
    /\ call' = [call EXCEPT ![t] = "completing"]
    /\ UNCHANGED <<pc, laneVars, started, uncertain, passed, expired, dead, closeVars>>

(* A mutant of CompleteCall: a call that was withdrawn keeps the lane.     *)
CompleteRunCall(t) ==
    /\ call[t] \in {"completing", "withdrawing"}
    /\ call' = [call EXCEPT ![t] = IF @ = "completing" THEN "finished" ELSE "withdrawn"]
    /\ IF call[t] = "completing" THEN ReleaseLane
       ELSE UNCHANGED <<queue, active, granted, handoff, soon, occupied, future, ahead>>
    /\ UNCHANGED <<pc, returning, started, uncertain, passed, expired, dead, closeVars>>

(* _complete_call, on the executor's thread or on the cancelling thread.   *)
CompleteCall(t) ==
    /\ call[t] \in {"completing", "withdrawing"}
    /\ call' = [call EXCEPT ![t] = IF @ = "completing" THEN "finished" ELSE "withdrawn"]
    /\ ReleaseLane
    /\ UNCHANGED <<pc, returning, started, uncertain, passed, expired, dead, closeVars>>

(* run gets the answer of its call, after _complete_call: the callback     *)
(* that wakes the loop is registered after it.                             *)
Deliver(t) ==
    /\ t \in Callers
    /\ pc[t] = "submitted" /\ Alive(t)
    /\ call[t] \in {"finished", "withdrawn"}
    /\ Goto(t, "done")
    /\ UNCHANGED <<laneVars, callVars, expired, dead, closeVars>>

(* The deadline or a cancellation ends the wait for the answer.  A call    *)
(* still pending is withdrawn; one the thread has taken is uncertain.      *)
GiveUp(t) ==
    /\ t \in Callers
    /\ pc[t] = "submitted" /\ Alive(t)
    /\ \/ /\ call[t] = "pending"
          /\ call' = [call EXCEPT ![t] = "withdrawing"]
          /\ UNCHANGED uncertain
       \/ /\ call[t] \in {"running", "body"}
          /\ uncertain' = uncertain \union {t}
          /\ UNCHANGED call
       \/ /\ call[t] \notin {"pending", "running", "body"}
          /\ UNCHANGED <<call, uncertain>>
    /\ Goto(t, "done")
    /\ UNCHANGED <<laneVars, started, passed, expired, dead, closeVars>>

(* A mutant of MayHaveRun: only what has entered the provider counts.      *)
HasStarted(t) == t \in started

(* may_have_run.                                                           *)
MayHaveRun(t) == t \in started \/ t \in uncertain

-----------------------------------------------------------------------------
(* wait_until_idle and aclose.                                             *)

PassIdle(t) ==
    /\ t \in Idlers
    /\ pc[t] = "lane"
    /\ ReleaseLane
    /\ passed' = passed \union {t}
    /\ Goto(t, "done")
    /\ UNCHANGED <<returning, call, started, uncertain, expired, dead, closeVars>>

BeginClose(t) ==
    /\ t \in Closers
    /\ pc[t] = "idle" /\ Alive(t)
    /\ closed' = TRUE
    /\ Goto(t, IF complete THEN "done" ELSE "closing")
    /\ UNCHANGED <<laneVars, callVars, expired, dead, stopped, complete>>

(* The calls executor.shutdown finds in its queue are cancelled, unless it *)
(* was shut down before.                                                   *)
StopExecutor ==
    /\ stopped' = TRUE
    /\ call' = [c \in Callers |-> IF call[c] = "pending" /\ ~stopped
                                  THEN "withdrawing" ELSE call[c]]

(* aclose owns the lane: another close may have finished meanwhile.        *)
CloseWithLane(t) ==
    /\ t \in Closers
    /\ pc[t] = "lane"
    /\ \/ /\ complete
          /\ Goto(t, "releasing")
          /\ UNCHANGED <<call, stopped>>
       \/ /\ ~complete
          /\ StopExecutor
          /\ Goto(t, "joining")
    /\ UNCHANGED <<laneVars, started, uncertain, passed, expired, dead, closed, complete>>

JoinThread(t) ==
    /\ pc[t] = "joining"
    /\ ThreadFree
    /\ complete' = TRUE
    /\ Goto(t, "releasing")
    /\ UNCHANGED <<laneVars, callVars, expired, dead, closed, stopped>>

(* aclose could not get the lane in time: leave the thread to its call.    *)
CloseByForce(t) ==
    /\ t \in Closers
    /\ pc[t] = "forceStop"
    /\ StopExecutor
    /\ complete' = TRUE
    /\ Goto(t, "done")
    /\ UNCHANGED <<laneVars, started, uncertain, passed, expired, dead, closed>>

-----------------------------------------------------------------------------
(* The environment.                                                        *)

Expire(t) ==
    /\ t \in (Callers \union Closers) \ expired
    /\ pc[t] \notin {"idle", "done"}
    /\ expired' = expired \union {t}
    /\ UNCHANGED <<pc, laneVars, callVars, dead, closeVars>>

(* A task is between two awaits: its loop is running.                      *)
Busy(t) == pc[t] \notin {"idle", "queued", "submitted", "done"} \/ t \in returning

(* A loop is closed with its tasks still waiting; they never run again.    *)
CloseLoop(l) ==
    /\ l \notin dead
    /\ \A t \in Tasks : LoopOf[t] = l => ~Busy(t)
    /\ dead' = dead \union {l}
    /\ UNCHANGED <<pc, laneVars, callVars, expired, closeVars>>

-----------------------------------------------------------------------------
LaneStep(t) ==
    \/ AcquireLane(t) \/ ResolveWaiter(t) \/ CallbackReleases(t) \/ Resume(t)
    \/ CancelWait(t) \/ AbandonWait(t) \/ PollHandoff(t)
    \/ ReclaimAfterAbandon(t) \/ TaskReleases(t) \/ PassIdle(t)
    \/ BeginClose(t) \/ CloseWithLane(t) \/ JoinThread(t) \/ CloseByForce(t)
    \/ Expire(t)

CallStep(t) ==
    \/ CheckOpen(t) \/ Submit(t) \/ TakeCall(t) \/ EnterBody(t) \/ RefuseBody(t)
    \/ ReturnBody(t) \/ CompleteCall(t) \/ Deliver(t) \/ GiveUp(t)

Next ==
    \/ \E t \in Tasks : LaneStep(t)
    \/ \E t \in Callers : CallStep(t)
    \/ \E l \in Loops : CloseLoop(l)

Spec == Init /\ [][Next]_vars

-----------------------------------------------------------------------------
(* Progress the platform guarantees: loops run the tasks and callbacks     *)
(* they hold, budgets expire, the executor's thread runs, and calls that   *)
(* do not hang return.                                                     *)
TaskProgress(t) ==
    \/ pc[t] # "idle" /\ AcquireLane(t)
    \/ ResolveWaiter(t) \/ CallbackReleases(t) \/ Resume(t)
    \/ t \in expired /\ CancelWait(t)
    \/ t \notin Idlers /\ AbandonWait(t)
    \/ StaleHandoff /\ PollHandoff(t)
    \/ ReclaimAfterAbandon(t) \/ TaskReleases(t) \/ PassIdle(t)
    \/ CloseWithLane(t) \/ JoinThread(t) \/ CloseByForce(t) \/ Expire(t)

CallProgress(t) ==
    \/ CheckOpen(t) \/ Submit(t) \/ TakeCall(t) \/ EnterBody(t) \/ RefuseBody(t)
    \/ t \notin Hung /\ ReturnBody(t)
    \/ CompleteCall(t) \/ Deliver(t)

Fairness ==
    /\ \A t \in Tasks : WF_vars(TaskProgress(t))
    /\ \A t \in Callers : WF_vars(CallProgress(t))

FairSpec == Spec /\ Fairness

-----------------------------------------------------------------------------
(* Properties.                                                             *)

TypeOK ==
    /\ pc \in [Tasks -> Pcs]
    /\ queue \subseteq Tasks
    /\ ahead \in [Tasks -> SUBSET Tasks]
    /\ handoff \in Tasks \union {NoTask}
    /\ occupied \in BOOLEAN
    /\ future \in [Tasks -> {"none", "pending", "set", "cancelled"}]
    /\ active \in [Tasks -> BOOLEAN]
    /\ granted \in [Tasks -> BOOLEAN]
    /\ soon \subseteq Tasks
    /\ returning \subseteq Tasks
    /\ call \in [Callers -> LiveCall \union {"none", "finished", "withdrawn"}]
    /\ started \subseteq Callers
    /\ uncertain \subseteq Callers
    /\ passed \subseteq Idlers
    /\ expired \subseteq Callers \union Closers
    /\ dead \subseteq Loops
    /\ closed \in BOOLEAN /\ stopped \in BOOLEAN /\ complete \in BOOLEAN

CallLive(t) == t \in Callers /\ call[t] \in LiveCall

(* The ways in which the lane is owned on behalf of a task.                *)
Owns(t) == pc[t] \in OwningPcs \/ CallLive(t) \/ t \in returning

(* The lane has one owner: a task between two awaits, a call that has not  *)
(* returned (its client may have left long ago), or a callback, and never  *)
(* an owner while it is reserved for a waiter.                             *)
OneOwner ==
    /\ \A s, t \in Tasks : Owns(s) /\ Owns(t) => s = t
    /\ \A t \in Tasks : Owns(t) => occupied /\ handoff = NoTask
    /\ \A t \in Tasks : pc[t] \in OwningPcs => ~CallLive(t) /\ t \notin returning
    /\ \A t \in Tasks : ~(CallLive(t) /\ t \in returning)

(* The lane is never lost: while it is marked occupied somebody owns it or *)
(* it is reserved for a waiter that can still be found, and a waiter never *)
(* sleeps behind a lane that is free.                                      *)
LaneNeverLost ==
    /\ occupied => handoff # NoTask \/ \E t \in Tasks : Owns(t)
    /\ ~occupied => queue = {} /\ handoff = NoTask

(* A client that was left with may_have_run = FALSE can retry: its call    *)
(* has not touched the provider and never will.                            *)
EvidenceHonest ==
    \A c \in Callers :
        pc[c] = "done" /\ ~MayHaveRun(c) => call[c] \notin {"pending", "running", "body"}

(* The worker implements a serial provider: admissions, quarantine         *)
(* barriers and evidence behave as if there were no lane at all.           *)
Phase(c) ==
    CASE call[c] = "none" -> "outside"
      [] call[c] \in {"pending", "running"} -> "admitted"
      [] call[c] = "body" -> "running"
      [] OTHER -> "over"
Told(c) == IF pc[c] # "done" THEN "none" ELSE IF MayHaveRun(c) THEN "maybe" ELSE "never"

Provider == INSTANCE SerialProvider WITH
    phase <- [c \in Callers |-> Phase(c)],
    told <- [c \in Callers |-> Told(c)],
    passed <- passed

ImplementsSerialProvider == Provider!AbsSpec

(* A barrier is passed even if event loops die with the lane reserved for  *)
(* them, unless its own loop died, it was cancelled, or a call hangs.      *)
BarrierPasses ==
    \A i \in Idlers :
        pc[i] = "queued" ~> \/ pc[i] = "done" \/ ~Alive(i)
                            \/ \E c \in Hung : call[c] = "body"

(* aclose ends even when a provider call never returns.                    *)
CloseEnds ==
    \A t \in Closers : pc[t] = "closing" ~> pc[t] = "done" \/ ~Alive(t)
=============================================================================
