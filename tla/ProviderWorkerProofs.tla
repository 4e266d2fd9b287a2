------------------------ MODULE ProviderWorkerProofs ------------------------
(***************************************************************************)
(* Proofs about ProviderWorker for any number of tasks and loops: the lane *)
(* has one owner and is never lost, and the evidence a client is left with *)
(* is honest.                                                              *)
(***************************************************************************)
EXTENDS ProviderWorker, TLAPS

(* The bookkeeping of waiters the two lane invariants rest on.             *)
QueueInv ==
    \A t \in queue : /\ pc[t] \in {"queued", "recovering", "pollRelease"}
                     /\ active[t]
                     /\ future[t] \in {"pending", "cancelled"}

HandoffInv ==
    /\ \A t \in Tasks : granted[t] <=> handoff = t
    /\ handoff # NoTask =>
          pc[handoff] = "queued" /\ active[handoff] /\ handoff \notin queue

(* A future that is set belongs to the waiter the lane is reserved for, or *)
(* to one whose loop is closed.                                            *)
FutureInv ==
    /\ \A t \in Tasks : pc[t] = "queued" /\ future[t] = "set" /\ Alive(t) => handoff = t
    /\ \A t \in Tasks : pc[t] \in {"recovering", "pollRelease"} => future[t] # "set"
    /\ \A t \in soon : future[t] # "set"
    /\ \A t \in returning : /\ future[t] # "set"
                            /\ pc[t] \in {"queued", "abandonReclaim", "forceStop", "done"}

CallInv ==
    \A c \in Callers : /\ call[c] # "none" => pc[c] \in {"submitted", "done"}
                       /\ c \in started => call[c] \in {"body", "completing", "finished"}
                       /\ c \in uncertain => pc[c] = "done"

IInv == /\ TypeOK /\ OneOwner /\ LaneNeverLost /\ EvidenceHonest
        /\ QueueInv /\ HandoffInv /\ FutureInv /\ CallInv

-----------------------------------------------------------------------------
(* What releasing the lane does, whoever does it: the lane is reserved for *)
(* one waiter or becomes free, and the waiters left keep their state.      *)
Reserved(w) ==
    /\ w \in queue /\ active[w] /\ future[w] = "pending"
    /\ handoff' = w
    /\ granted' = [granted EXCEPT ![w] = TRUE]
    /\ soon' = soon \union {w}
    /\ queue' \subseteq queue \ {w}
    /\ active'[w]
    /\ UNCHANGED occupied

Freed == /\ queue' = {} /\ occupied' = FALSE
         /\ UNCHANGED <<handoff, granted, soon>>

LEMMA ReleaseLaneEffect ==
    ASSUME TypeOK, QueueInv, ReleaseLane
    PROVE  /\ Freed \/ \E w \in queue : Reserved(w)
           /\ active' \in [Tasks -> BOOLEAN]
           /\ \A t \in queue' : t \in queue /\ active'[t]
           /\ \A t \in Tasks : active'[t] => active[t]
           /\ UNCHANGED <<future, ahead>>
<1>1. ASSUME NEW w \in queue,
             FirstLive(w),
             queue' = queue \ ({u \in queue : u \in ahead[w]} \union {w}),
             active' = [t \in Tasks |-> active[t] /\ t \notin {u \in queue : u \in ahead[w]}],
             granted' = [granted EXCEPT ![w] = TRUE],
             handoff' = w,
             soon' = soon \union {w},
             UNCHANGED <<occupied, future, ahead>>
      PROVE  /\ Reserved(w)
             /\ \A t \in queue' : t \in queue /\ active'[t]
             /\ \A t \in Tasks : active'[t] => active[t]
  <2>1. active[w] /\ future[w] = "pending" /\ ~Skipped(w)
    BY <1>1 DEF FirstLive, Skipped
  <2>2. w \notin ahead[w] \/ Skipped(w)
    BY <1>1 DEF FirstLive
  <2>3. active'[w]
    BY <1>1, <2>1, <2>2 DEF TypeOK
  <2>4. QED
    BY <1>1, <2>1, <2>3 DEF Reserved, QueueInv, TypeOK
<1>2. ASSUME queue' = {},
             active' = [t \in Tasks |-> active[t] /\ t \notin queue],
             occupied' = FALSE,
             UNCHANGED <<granted, handoff, soon, future, ahead>>
      PROVE  /\ Freed
             /\ \A t \in queue' : t \in queue /\ active'[t]
             /\ \A t \in Tasks : active'[t] => active[t]
  BY <1>2 DEF Freed, TypeOK
<1>3. active' \in [Tasks -> BOOLEAN] /\ UNCHANGED <<future, ahead>>
  BY DEF ReleaseLane, TypeOK
<1>4. QED
  BY <1>1, <1>2, <1>3, Zenon DEF ReleaseLane

(* The lane variables keep their types when the lane is released.          *)
LaneTypes ==
    /\ queue \subseteq Tasks
    /\ ahead \in [Tasks -> SUBSET Tasks]
    /\ handoff \in Tasks \union {NoTask}
    /\ occupied \in BOOLEAN
    /\ future \in [Tasks -> {"none", "pending", "set", "cancelled"}]
    /\ active \in [Tasks -> BOOLEAN]
    /\ granted \in [Tasks -> BOOLEAN]
    /\ soon \subseteq Tasks

LEMMA ReleaseLaneTypes ==
    ASSUME TypeOK, QueueInv, ReleaseLane
    PROVE  LaneTypes'
<1>1. /\ Freed \/ \E w \in queue : Reserved(w)
      /\ active' \in [Tasks -> BOOLEAN]
      /\ \A t \in queue' : t \in queue
      /\ UNCHANGED <<future, ahead>>
  BY ReleaseLaneEffect
<1>2. QED
  BY <1>1 DEF TypeOK, LaneTypes, Freed, Reserved

(* A reservation that is dropped leaves no waiter with a grant and touches *)
(* no waiter that is still queued.                                         *)
LEMMA DropHandoffEffect ==
    ASSUME IInv, DropHandoff, handoff # NoTask
    PROVE  /\ handoff' = NoTask /\ handoff \in Tasks
           /\ active' \in [Tasks -> BOOLEAN] /\ granted' \in [Tasks -> BOOLEAN]
           /\ \A s \in Tasks : ~granted'[s] /\ ~Owns(s)
           /\ \A u \in queue : active'[u]
           /\ occupied
<1>1. handoff \in Tasks /\ handoff \notin queue
  BY DEF IInv, TypeOK, HandoffInv
<1>2. \A s \in Tasks : granted[s] => s = handoff
  BY <1>1 DEF IInv, HandoffInv
<1>3. (\A s \in Tasks : ~Owns(s)) /\ occupied
  BY DEF IInv, OneOwner, LaneNeverLost
<1>4. QED
  BY <1>1, <1>2, <1>3 DEF DropHandoff, IInv, TypeOK, QueueInv

(* Once the owner has released the lane and owns nothing, the invariants   *)
(* about the lane hold again.                                              *)
LEMMA ReleaseKeepsLane ==
    ASSUME IInv, ReleaseLane,
           NEW t \in Tasks, Owns(t),
           \A s \in Tasks : ~Owns(s)',
           \A s \in Tasks : pc'[s] = pc[s] \/ s = t,
           t \in queue => pc'[t] = "queued",
           pc'[t] = pc[t] \/ pc[t] \in OwningPcs,
           pc'[t] = "queued" => pc[t] = "queued" \/ future[t] # "set",
           returning' \subseteq returning \ {t},
           UNCHANGED dead
    PROVE  OneOwner' /\ LaneNeverLost' /\ QueueInv' /\ HandoffInv' /\ FutureInv'
<1> USE WorkerAssumption
<1>1. handoff = NoTask /\ occupied
  BY DEF IInv, OneOwner
<1>2. /\ Freed \/ \E w \in queue : Reserved(w)
      /\ \A u \in queue' : u \in queue /\ active'[u]
      /\ UNCHANGED future
  BY ReleaseLaneEffect DEF IInv
<1>3. \A s \in Tasks : ~granted[s]
  BY <1>1 DEF IInv, HandoffInv
<1>4. \A u \in queue : u \in Tasks /\ pc'[u] = "queued"
  <2>1. ASSUME NEW u \in queue, u # t PROVE pc[u] = "queued"
    <3>1. u \in Tasks /\ ~Owns(u)
      BY <2>1 DEF IInv, OneOwner, TypeOK
    <3>2. QED
      BY <2>1, <3>1 DEF IInv, QueueInv, Owns, OwningPcs
  <2>2. QED
    BY <2>1 DEF IInv, TypeOK
<1>a. \A s \in Tasks : pc'[s] \notin {"recovering", "pollRelease"}
  BY DEF Owns, OwningPcs
<1>5. CASE Freed
  <2>1. OneOwner' /\ LaneNeverLost'
    BY <1>1, <1>5 DEF Freed, OneOwner, LaneNeverLost, Owns, CallLive, LiveCall
  <2>2. QueueInv' /\ HandoffInv'
    BY <1>1, <1>3, <1>5 DEF Freed, QueueInv, HandoffInv
  <2>3. FutureInv'
    BY <1>1, <1>2, <1>5, <1>a DEF Freed, FutureInv, IInv, Alive, QueueInv, TypeOK
  <2>4. QED
    BY <2>1, <2>2, <2>3
<1>6. ASSUME NEW w \in queue, Reserved(w)
      PROVE  OneOwner' /\ LaneNeverLost' /\ QueueInv' /\ HandoffInv' /\ FutureInv'
  <2>1. w \in Tasks /\ handoff' = w /\ occupied' /\ w # NoTask /\ pc'[w] = "queued"
    BY <1>1, <1>4, <1>6 DEF Reserved
  <2>2. OneOwner' /\ LaneNeverLost'
    BY <2>1 DEF OneOwner, LaneNeverLost, Owns, CallLive
  <2>3. QueueInv' /\ HandoffInv'
    BY <1>2, <1>3, <1>4, <1>6, <2>1 DEF Reserved, QueueInv, HandoffInv, IInv, TypeOK
  <2>4. FutureInv'
    BY <1>1, <1>2, <1>6, <1>a, <2>1 DEF Reserved, FutureInv, IInv, Alive, QueueInv, TypeOK
  <2>5. QED
    BY <2>2, <2>3, <2>4
<1>7. QED
  BY <1>2, <1>5, <1>6

-----------------------------------------------------------------------------
(* Every step keeps the invariant: one step of the proof per action.       *)
LEMMA StepInv == IInv /\ [Next]_vars => IInv'
<1> SUFFICES ASSUME IInv, [Next]_vars PROVE IInv'
  OBVIOUS
<1> USE DEF IInv, TypeOK, OneOwner, LaneNeverLost, EvidenceHonest,
        QueueInv, HandoffInv, FutureInv, CallInv, Owns, CallLive, OwningPcs, Pcs, LiveCall,
        MayHaveRun, Alive, Goto
<1>0. Callers \subseteq Tasks /\ Idlers \subseteq Tasks /\ Closers \subseteq Tasks /\ NoTask \notin Tasks
  BY WorkerAssumption DEF Tasks
<1> USE <1>0
<1>1. ASSUME NEW t \in Tasks, AcquireLane(t) PROVE IInv'
  <2> USE DEF Arrives, laneVars, callVars, closeVars
  <2>1. StaleHandoff => handoff \in Tasks /\ handoff # NoTask
    BY DEF StaleHandoff
  <2>2. CASE RefuseClosed(t)
    BY <2>2 DEF RefuseClosed
  <2>3. CASE InheritHandoff(t)
    <3>1. TypeOK' /\ EvidenceHonest' /\ CallInv'
      BY <2>1, <2>3 DEF InheritHandoff, DropHandoff
    <3>2. OneOwner' /\ LaneNeverLost'
      BY <2>1, <2>3 DEF InheritHandoff, DropHandoff
    <3>3. QueueInv' /\ HandoffInv' /\ FutureInv'
      BY <2>1, <2>3 DEF InheritHandoff, DropHandoff, StaleHandoff
    <3>4. QED
      BY <3>1, <3>2, <3>3
  <2>4. CASE RecoverHandoff(t)
    <3>1. TypeOK' /\ EvidenceHonest' /\ CallInv'
      <4>1. /\ queue' \subseteq Tasks /\ future' = [future EXCEPT ![t] = "pending"]
            /\ ahead' = [ahead EXCEPT ![t] = queue] /\ handoff' = NoTask
            /\ ahead' \in [Tasks -> SUBSET Tasks]
        BY <2>4 DEF RecoverHandoff, Enqueue
      <4>2. /\ active' \in [Tasks -> BOOLEAN] /\ granted' \in [Tasks -> BOOLEAN]
            /\ pc' = [pc EXCEPT ![t] = "recovering"]
            /\ UNCHANGED <<occupied, soon, returning>>
        BY <2>1, <2>4 DEF RecoverHandoff
      <4>3. UNCHANGED <<call, started, uncertain, passed, expired, dead, closed, stopped, complete>>
        BY <2>4 DEF RecoverHandoff
      <4>4. pc[t] \in {"closing", "idle"}
        BY <2>4 DEF RecoverHandoff
      <4>5. TypeOK'
        BY <4>1, <4>2, <4>3
      <4>6. QED
        BY <4>2, <4>3, <4>4, <4>5
    <3>2. OneOwner' /\ LaneNeverLost'
      BY <2>1, <2>4 DEF RecoverHandoff
    <3>3. QueueInv' /\ HandoffInv'
      BY <2>1, <2>4 DEF RecoverHandoff, Enqueue
    <3>4. FutureInv'
      BY <2>1, <2>4 DEF RecoverHandoff, Enqueue, StaleHandoff
    <3>5. QED
      BY <3>1, <3>2, <3>3, <3>4
  <2>5. CASE TakeFreeLane(t)
    BY <2>5 DEF TakeFreeLane
  <2>6. CASE JoinQueue(t)
    BY <2>6 DEF JoinQueue, Enqueue
  <2>7. QED
    BY <1>1, <2>2, <2>3, <2>4, <2>5, <2>6 DEF AcquireLane
<1>2. ASSUME NEW t \in Tasks, ResolveWaiter(t) PROVE IInv'
  <2> USE DEF callVars, closeVars
  <2>1. CASE handoff # t
    BY <1>2, <2>1 DEF ResolveWaiter
  <2>2. CASE handoff = t /\ (future[t] # "pending" \/ ~active[t])
    <3>1. DropHandoff /\ returning' = returning \union {t} /\ soon' = soon \ {t}
      BY <1>2, <2>2 DEF ResolveWaiter
    <3>2. /\ handoff' = NoTask /\ handoff # NoTask
          /\ active' \in [Tasks -> BOOLEAN] /\ granted' \in [Tasks -> BOOLEAN]
          /\ \A s \in Tasks : ~granted'[s] /\ ~Owns(s)
          /\ \A u \in queue : active'[u]
          /\ occupied
      BY <2>2, <3>1, DropHandoffEffect
    <3>3. TypeOK' /\ EvidenceHonest' /\ CallInv' /\ QueueInv' /\ HandoffInv'
      BY <1>2, <3>1, <3>2 DEF ResolveWaiter
    <3>4. FutureInv'
      BY <1>2, <2>2, <3>1, <3>2 DEF ResolveWaiter, StaleHandoff
    <3>5. OneOwner' /\ LaneNeverLost'
      BY <1>2, <2>2, <3>1, <3>2 DEF ResolveWaiter
    <3>6. QED
      BY <3>3, <3>4, <3>5
  <2>3. CASE handoff = t /\ future[t] = "pending" /\ active[t]
    BY <1>2, <2>3 DEF ResolveWaiter
  <2>4. QED
    BY <2>1, <2>2, <2>3
<1>3. ASSUME NEW t \in Tasks, CallbackReleases(t) PROVE IInv'
  <2>0. LaneTypes'
    BY <1>3, ReleaseLaneTypes DEF CallbackReleases
  <2>1. TypeOK' /\ EvidenceHonest' /\ CallInv'
    BY <1>3, <2>0 DEF CallbackReleases, LaneTypes, callVars, closeVars
  <2>2. \A s \in Tasks : ~Owns(s)'
    BY <1>3 DEF CallbackReleases, callVars
  <2>3. OneOwner' /\ LaneNeverLost' /\ QueueInv' /\ HandoffInv' /\ FutureInv'
    BY <1>3, <2>2, ReleaseKeepsLane DEF CallbackReleases, callVars
  <2>4. QED
    BY <2>1, <2>3
<1>4. ASSUME NEW t \in Tasks, Resume(t) PROVE IInv'
  BY <1>4 DEF Resume, laneVars, callVars, closeVars
<1>5. ASSUME NEW t \in Tasks, CancelWait(t) PROVE IInv'
  BY <1>5 DEF CancelWait, laneVars, callVars, closeVars
<1>6. ASSUME NEW t \in Tasks, AbandonWait(t) PROVE IInv'
  BY <1>6 DEF AbandonWait, laneVars, callVars, closeVars
<1>7. ASSUME NEW t \in Tasks, PollHandoff(t) PROVE IInv'
  <2>1. /\ pc[t] = "queued" /\ future[t] # "set"
        /\ UNCHANGED <<queue, ahead, future, soon, returning, callVars, expired, dead, closeVars>>
    BY <1>7 DEF PollHandoff
  <2>2. CASE ~StaleHandoff
    BY <1>7, <2>1, <2>2 DEF PollHandoff, ReclaimHandoff, AfterAbandon, callVars, closeVars
  <2>3. CASE StaleHandoff
    <3>1. /\ handoff' = NoTask /\ handoff \in Tasks
          /\ active' \in [Tasks -> BOOLEAN] /\ granted' \in [Tasks -> BOOLEAN]
          /\ \A s \in Tasks : ~granted'[s] /\ ~Owns(s)
          /\ \A u \in queue : active'[u]
          /\ occupied
      BY <1>7, <2>3, DropHandoffEffect DEF PollHandoff, ReclaimHandoff, StaleHandoff
    <3>2. /\ pc' \in [Tasks -> Pcs]
          /\ \A s \in Tasks : s # t => pc'[s] = pc[s]
          /\ \/ pc'[t] = "pollRelease" /\ occupied' = TRUE
             \/ pc'[t] = "queued" /\ occupied' = FALSE /\ queue = {}
      BY <1>7, <2>1, <2>3 DEF PollHandoff, ReclaimHandoff, AfterAbandon
    <3>3. TypeOK' /\ EvidenceHonest' /\ CallInv'
      BY <2>1, <3>1, <3>2 DEF callVars, closeVars
    <3>4. FutureInv'
      BY <2>1, <2>3, <3>1, <3>2 DEF StaleHandoff
    <3>5. OneOwner' /\ LaneNeverLost'
      BY <2>1, <3>1, <3>2 DEF callVars
    <3>6. QueueInv' /\ HandoffInv'
      BY <2>1, <3>1, <3>2
    <3>7. QED
      BY <3>3, <3>4, <3>5, <3>6
  <2>4. QED
    BY <2>2, <2>3
<1>8. ASSUME NEW t \in Tasks, ReclaimAfterAbandon(t) PROVE IInv'
  <2>1. /\ pc[t] = "abandonReclaim"
        /\ UNCHANGED <<queue, ahead, future, soon, returning, callVars, expired, dead, closeVars>>
    BY <1>8 DEF ReclaimAfterAbandon
  <2>2. CASE ~StaleHandoff
    BY <1>8, <2>1, <2>2 DEF ReclaimAfterAbandon, ReclaimHandoff, AfterAbandon, callVars, closeVars
  <2>3. CASE StaleHandoff
    <3>1. /\ handoff' = NoTask /\ handoff \in Tasks
          /\ active' \in [Tasks -> BOOLEAN] /\ granted' \in [Tasks -> BOOLEAN]
          /\ \A s \in Tasks : ~granted'[s] /\ ~Owns(s)
          /\ \A u \in queue : active'[u]
          /\ occupied
      BY <1>8, <2>3, DropHandoffEffect DEF ReclaimAfterAbandon, ReclaimHandoff, StaleHandoff
    <3>2. /\ pc' \in [Tasks -> Pcs]
          /\ \A s \in Tasks : s # t => pc'[s] = pc[s]
          /\ \/ pc'[t] = "abandonRelease" /\ occupied' = TRUE
             \/ pc'[t] \in {"done", "forceStop"} /\ occupied' = FALSE /\ queue = {}
      BY <1>8, <2>1, <2>3 DEF ReclaimAfterAbandon, ReclaimHandoff, AfterAbandon
    <3>3. TypeOK'
      BY <2>1, <3>1, <3>2 DEF closeVars, callVars
    <3>8. EvidenceHonest' /\ CallInv'
      <4>1. UNCHANGED <<call, started, uncertain>>
        BY <2>1 DEF callVars
      <4>2. \A c \in Callers : pc[c] \in {"submitted", "done"} => pc'[c] = pc[c]
        BY <2>1, <3>2
      <4>3. \A c \in Callers : pc'[c] # pc[c] => call[c] = "none"
        BY <4>2
      <4>4. QED
        BY <4>1, <4>2, <4>3
    <3>4. FutureInv'
      BY <2>1, <2>3, <3>1, <3>2 DEF StaleHandoff
    <3>5. OneOwner' /\ LaneNeverLost'
      BY <2>1, <3>1, <3>2 DEF callVars
    <3>6. QueueInv' /\ HandoffInv'
      BY <2>1, <3>1, <3>2
    <3>7. QED
      BY <3>3, <3>4, <3>5, <3>6, <3>8
  <2>4. QED
    BY <2>2, <2>3
<1>9. ASSUME NEW t \in Tasks, TaskReleases(t) PROVE IInv'
  <2>0. LaneTypes'
    BY <1>9, ReleaseLaneTypes DEF TaskReleases
  <2>1. TypeOK' /\ EvidenceHonest' /\ CallInv'
    BY <1>9, <2>0 DEF TaskReleases, LaneTypes, callVars, closeVars, AfterAbandon
  <2>2. \A s \in Tasks : ~Owns(s)'
    BY <1>9 DEF TaskReleases, AfterAbandon, callVars
  <2>3. OneOwner' /\ LaneNeverLost' /\ QueueInv' /\ HandoffInv' /\ FutureInv'
    <3>1. Owns(t) /\ t \notin returning /\ UNCHANGED <<returning, dead>>
      BY <1>9 DEF TaskReleases
    <3>2. /\ \A s \in Tasks : pc'[s] = pc[s] \/ s = t
          /\ t \in queue => pc'[t] = "queued"
          /\ pc[t] \in OwningPcs
          /\ pc'[t] = "queued" => future[t] # "set"
      BY <1>9 DEF TaskReleases, AfterAbandon
    <3>3. QED
      BY <1>9, <2>2, <3>1, <3>2, ReleaseKeepsLane DEF TaskReleases
  <2>4. QED
    BY <2>1, <2>3
<1>10. ASSUME NEW t \in Tasks, PassIdle(t) PROVE IInv'
  <2>0. LaneTypes'
    BY <1>10, ReleaseLaneTypes DEF PassIdle
  <2>a. t \in Idlers /\ t \notin Callers /\ UNCHANGED <<call, started, uncertain>>
    BY <1>10, WorkerAssumption DEF PassIdle
  <2>b. TypeOK'
    <3>1. /\ passed' \subseteq Idlers /\ pc' \in [Tasks -> Pcs]
          /\ UNCHANGED <<returning, expired, dead, closed, stopped, complete>>
      BY <1>10 DEF PassIdle, closeVars
    <3>2. QED
      BY <2>0, <2>a, <3>1 DEF LaneTypes
  <2>1. TypeOK' /\ EvidenceHonest' /\ CallInv'
    BY <1>10, <2>a, <2>b DEF PassIdle
  <2>2. \A s \in Tasks : ~Owns(s)'
    BY <1>10 DEF PassIdle, callVars
  <2>3. OneOwner' /\ LaneNeverLost' /\ QueueInv' /\ HandoffInv' /\ FutureInv'
    BY <1>10, <2>2, ReleaseKeepsLane DEF PassIdle, callVars
  <2>4. QED
    BY <2>1, <2>3
<1>11. ASSUME NEW t \in Tasks, BeginClose(t) PROVE IInv'
  BY <1>11 DEF BeginClose, laneVars, callVars, closeVars
<1>12. ASSUME NEW t \in Tasks, CloseWithLane(t) PROVE IInv'
  <2>a. t \in Closers /\ t \notin Callers /\ UNCHANGED <<started, uncertain>>
    BY <1>12, WorkerAssumption DEF CloseWithLane
  <2>b. call' \in [Callers -> LiveCall \union {"none", "finished", "withdrawn"}]
    BY <1>12 DEF CloseWithLane, StopExecutor
  <2>c. TypeOK'
    <3>a. (stopped' = stopped \/ stopped' = TRUE) /\ (pc' = [pc EXCEPT ![t] = "releasing"] \/ pc' = [pc EXCEPT ![t] = "joining"])
      BY <1>12, Zenon DEF CloseWithLane, StopExecutor, Goto
    <3>b. pc' \in [Tasks -> Pcs]
      BY <3>a
    <3>1. pc' \in [Tasks -> Pcs] /\ stopped' \in BOOLEAN
      BY <3>a, <3>b
    <3>2. /\ UNCHANGED <<queue, ahead, handoff, occupied, future, active, granted, soon, returning>>
          /\ UNCHANGED <<started, uncertain, passed, expired, dead, closed, complete>>
      BY <1>12 DEF CloseWithLane, laneVars
    <3>3. QED
      BY <2>b, <3>1, <3>2
  <2>d. \A c \in Callers : call'[c] = call[c] \/ (call[c] = "pending" /\ call'[c] = "withdrawing")
    BY <1>12 DEF CloseWithLane, StopExecutor
  <2>1. TypeOK' /\ EvidenceHonest' /\ CallInv'
    BY <1>12, <2>a, <2>c, <2>d DEF CloseWithLane
  <2>2. \A s \in Callers : CallLive(s)' <=> CallLive(s)
    BY <1>12 DEF CloseWithLane, StopExecutor
  <2>3. OneOwner' /\ LaneNeverLost'
    BY <1>12, <2>2 DEF CloseWithLane, laneVars
  <2>4. QueueInv' /\ HandoffInv' /\ FutureInv'
    BY <1>12 DEF CloseWithLane, laneVars
  <2>5. QED
    BY <2>1, <2>3, <2>4
<1>13. ASSUME NEW t \in Tasks, JoinThread(t) PROVE IInv'
  BY <1>13 DEF JoinThread, laneVars, callVars, closeVars
<1>14. ASSUME NEW t \in Tasks, CloseByForce(t) PROVE IInv'
  <2>1. TypeOK' /\ EvidenceHonest' /\ CallInv'
    BY <1>14 DEF CloseByForce, StopExecutor, laneVars, closeVars
  <2>2. \A s \in Callers : CallLive(s)' <=> CallLive(s)
    BY <1>14 DEF CloseByForce, StopExecutor
  <2>3. OneOwner' /\ LaneNeverLost'
    BY <1>14, <2>2 DEF CloseByForce, laneVars
  <2>4. QueueInv' /\ HandoffInv' /\ FutureInv'
    BY <1>14 DEF CloseByForce, laneVars
  <2>5. QED
    BY <2>1, <2>3, <2>4
<1>15. ASSUME NEW t \in Tasks, Expire(t) PROVE IInv'
  BY <1>15 DEF Expire, laneVars, callVars, closeVars
<1>16. ASSUME NEW t \in Callers, CheckOpen(t) PROVE IInv'
  BY <1>16 DEF CheckOpen, laneVars, callVars, closeVars
<1>17. ASSUME NEW t \in Callers, Submit(t) PROVE IInv'
  BY <1>17 DEF Submit, laneVars, callVars, closeVars
<1>18. ASSUME NEW t \in Callers, TakeCall(t) PROVE IInv'
  BY <1>18 DEF TakeCall, laneVars, callVars, closeVars
<1>19. ASSUME NEW t \in Callers, EnterBody(t) PROVE IInv'
  BY <1>19 DEF EnterBody, laneVars, callVars, closeVars
<1>20. ASSUME NEW t \in Callers, RefuseBody(t) PROVE IInv'
  BY <1>20 DEF RefuseBody, laneVars, callVars, closeVars
<1>21. ASSUME NEW t \in Callers, ReturnBody(t) PROVE IInv'
  BY <1>21 DEF ReturnBody, laneVars, callVars, closeVars
<1>22. ASSUME NEW t \in Callers, CompleteCall(t) PROVE IInv'
  <2>0. LaneTypes'
    BY <1>22, ReleaseLaneTypes DEF CompleteCall
  <2>1. TypeOK' /\ EvidenceHonest' /\ CallInv'
    BY <1>22, <2>0 DEF CompleteCall, LaneTypes, callVars, closeVars
  <2>2. \A s \in Tasks : ~Owns(s)'
    BY <1>22 DEF CompleteCall, callVars
  <2>3. OneOwner' /\ LaneNeverLost' /\ QueueInv' /\ HandoffInv' /\ FutureInv'
    BY <1>22, <2>2, ReleaseKeepsLane DEF CompleteCall, callVars
  <2>4. QED
    BY <2>1, <2>3
<1>23. ASSUME NEW t \in Callers, Deliver(t) PROVE IInv'
  BY <1>23 DEF Deliver, laneVars, callVars, closeVars
<1>24. ASSUME NEW t \in Callers, GiveUp(t) PROVE IInv'
  BY <1>24 DEF GiveUp, laneVars, callVars, closeVars
<1>25. CASE UNCHANGED vars
  BY <1>25 DEF vars, laneVars, callVars, closeVars
<1>26. ASSUME NEW l \in Loops, CloseLoop(l) PROVE IInv'
  BY <1>26 DEF CloseLoop, laneVars, callVars, closeVars
<1>27. QED
  BY <1>1, <1>2, <1>3, <1>4, <1>5, <1>6, <1>7, <1>8, <1>9, <1>10, <1>11, <1>12, <1>13, <1>14, <1>15, <1>16, <1>17, <1>18, <1>19, <1>20, <1>21, <1>22, <1>23, <1>24, <1>25, <1>26 DEF Next, LaneStep, CallStep

-----------------------------------------------------------------------------
LEMMA InitInv == Init => IInv
  BY WorkerAssumption DEF Init, IInv, TypeOK, OneOwner, LaneNeverLost, EvidenceHonest,
     QueueInv, HandoffInv, FutureInv, CallInv, Owns, CallLive, OwningPcs, Pcs, LiveCall

LEMMA Invariance == Spec => []IInv
  BY InitInv, StepInv, PTL DEF Spec

(* The variables of the worker keep their types.                           *)
THEOREM TypeCorrect == Spec => []TypeOK
<1>1. IInv => TypeOK
  BY DEF IInv
<1>2. QED
  BY <1>1, Invariance, PTL

(* However many tasks, loops and closes there are, the lane has one owner: *)
(* no call is admitted while another one may still be running, also when   *)
(* the client of that other one left at its deadline.                      *)
THEOREM LaneHasOneOwner == Spec => []OneOwner
<1>1. IInv => OneOwner
  BY DEF IInv
<1>2. QED
  BY <1>1, Invariance, PTL

(* A dead loop, a cancelled waiter or a late callback never loses the lane *)
(* or strands a waiter behind a free one.                                  *)
THEOREM LaneIsNeverLost == Spec => []LaneNeverLost
<1>1. IInv => LaneNeverLost
  BY DEF IInv
<1>2. QED
  BY <1>1, Invariance, PTL

(* ProviderCallState.may_have_run = FALSE is true for ever.                *)
THEOREM EvidenceIsHonest == Spec => []EvidenceHonest
<1>1. IInv => EvidenceHonest
  BY DEF IInv
<1>2. QED
  BY <1>1, Invariance, PTL

-----------------------------------------------------------------------------
(* The refinement.  Steps that move no call and tell no client stutter ... *)
LEMMA StutterStep ==
    ASSUME UNCHANGED <<call, started, uncertain, passed>>,
           \A c \in Callers : pc'[c] = "done" <=> pc[c] = "done"
    PROVE  UNCHANGED Provider!absVars
<1>1. \A c \in Callers : Phase(c)' = Phase(c) /\ Told(c)' = Told(c)
  BY DEF Phase, Told, MayHaveRun
<1>2. QED
  BY <1>1 DEF Provider!absVars

(* ... and a client whose run ends is told what the evidence says.         *)
LEMMA TellStep ==
    ASSUME NEW t \in Callers, call[t] \notin {"body"},
           UNCHANGED <<call, started, uncertain, passed>>,
           pc[t] # "done", pc'[t] = "done",
           \A c \in Callers : c # t => pc'[c] = pc[c]
    PROVE  Provider!Tell(t)
<1>1. \A c \in Callers : Phase(c)' = Phase(c)
  BY DEF Phase
<1>2. \A c \in Callers : c # t => Told(c)' = Told(c)
  BY DEF Told, MayHaveRun
<1>3. Told(t) = "none" /\ Told(t)' \in {"maybe", "never"} /\ Phase(t) # "running"
  BY DEF Told, Phase
<1>4. QED
  BY <1>1, <1>2, <1>3 DEF Provider!Tell

(* While a task owns the lane no other call is inside the provider.        *)
LEMMA OwnerIsAlone ==
    ASSUME IInv, NEW t \in Tasks, pc[t] \in OwningPcs
    PROVE  Provider!Inside = {}
<1>1. \A c \in Callers : ~CallLive(c)
  BY DEF IInv, OneOwner, Owns, Tasks
<1>2. QED
  BY <1>1 DEF Provider!Inside, Phase, CallLive, LiveCall

LEMMA StepSimulation == IInv /\ IInv' /\ [Next]_vars => [Provider!AbsNext]_(Provider!absVars)
<1> SUFFICES ASSUME IInv, IInv', [Next]_vars
             PROVE  Provider!AbsNext \/ UNCHANGED Provider!absVars
  OBVIOUS
<1>0. /\ Callers \subseteq Tasks /\ Idlers \subseteq Tasks
      /\ Callers \intersect Idlers = {} /\ Callers \intersect Closers = {}
  BY WorkerAssumption DEF Tasks
<1> USE <1>0 DEF TypeOK, IInv
(* A step of the lane leaves the calls and the evidence alone.             *)
<1>1. ASSUME NEW t \in Tasks,
             UNCHANGED <<call, started, uncertain, passed>>,
             UNCHANGED pc \/ (pc[t] \notin {"done", "submitted"} /\ \E label \in Pcs : Goto(t, label))
      PROVE  Provider!AbsNext \/ UNCHANGED Provider!absVars
  <2>1. CASE t \in Callers /\ pc[t] # "done" /\ pc'[t] = "done"
    <3>1. call[t] # "body" /\ \A c \in Callers : c # t => pc'[c] = pc[c]
      BY <1>1, <2>1 DEF CallInv, Goto
    <3>2. QED
      BY <1>1, <2>1, <3>1, TellStep DEF Provider!AbsNext
  <2>2. CASE ~(t \in Callers /\ pc[t] # "done" /\ pc'[t] = "done")
    <3>1. \A c \in Callers : pc'[c] = "done" <=> pc[c] = "done"
      BY <1>1, <2>2 DEF Goto
    <3>2. QED
      BY <1>1, <3>1, StutterStep
  <2>3. QED
    BY <2>1, <2>2
<1>2. ASSUME NEW t \in Tasks, LaneStep(t), ~PassIdle(t), ~CloseWithLane(t), ~CloseByForce(t)
      PROVE  Provider!AbsNext \/ UNCHANGED Provider!absVars
  <2> USE <1>1, <1>2 DEF callVars, Pcs, OwningPcs
  <2>1. CASE AcquireLane(t)
    BY <2>1 DEF AcquireLane, Arrives, RefuseClosed, InheritHandoff, RecoverHandoff, TakeFreeLane, JoinQueue
  <2>2. CASE ResolveWaiter(t) \/ CallbackReleases(t) \/ CancelWait(t) \/ Expire(t)
    BY <2>2 DEF ResolveWaiter, CallbackReleases, CancelWait, Expire
  <2>3. CASE Resume(t) \/ AbandonWait(t) \/ BeginClose(t) \/ JoinThread(t)
    BY <2>3 DEF Resume, AbandonWait, BeginClose, JoinThread
  <2>4. CASE PollHandoff(t) \/ ReclaimAfterAbandon(t)
    BY <2>4 DEF PollHandoff, ReclaimAfterAbandon, ReclaimHandoff, AfterAbandon
  <2>5. CASE TaskReleases(t)
    BY <2>5 DEF TaskReleases, AfterAbandon
  <2>6. QED
    BY <2>1, <2>2, <2>3, <2>4, <2>5 DEF LaneStep
<1>3. ASSUME NEW t \in Tasks, PassIdle(t)
      PROVE  Provider!AbsNext
  <2>1. Provider!Inside = {} /\ t \in Idlers
    BY <1>3, OwnerIsAlone DEF PassIdle, OwningPcs
  <2>2. \A c \in Callers : Phase(c)' = Phase(c) /\ Told(c)' = Told(c)
    BY <1>3, <2>1 DEF PassIdle, Phase, Told, MayHaveRun, Goto
  <2>3. Provider!Pass(t)
    BY <1>3, <2>1, <2>2 DEF PassIdle, Provider!Pass
  <2>4. QED
    BY <2>1, <2>3 DEF Provider!AbsNext
(* Stopping the executor withdraws at most one call: one call is inside.   *)
<1>4. ASSUME NEW t \in Tasks, CloseWithLane(t) \/ CloseByForce(t)
      PROVE  Provider!AbsNext \/ UNCHANGED Provider!absVars
  <2>1. /\ t \in Closers /\ UNCHANGED <<started, uncertain, passed>>
        /\ \A c \in Callers : pc'[c] = pc[c]
    BY <1>4 DEF CloseWithLane, CloseByForce, Goto
  <2>2. call' = call \/ StopExecutor
    BY <1>4 DEF CloseWithLane, CloseByForce
  <2>3. ASSUME NEW c \in Callers, call[c] = "pending", call'[c] # call[c]
        PROVE  Provider!Leave(c)
    <3>1. \A d \in Callers : d # c => call'[d] = call[d]
      BY <2>2, <2>3 DEF StopExecutor, OneOwner, Owns, CallLive, LiveCall
    <3>2. \A d \in Callers : Told(d)' = Told(d) /\ (d # c => Phase(d)' = Phase(d))
      BY <2>1, <3>1 DEF Told, MayHaveRun, Phase
    <3>3. Phase(c) = "admitted" /\ Phase(c)' = "over"
      BY <2>2, <2>3 DEF Phase, StopExecutor
    <3>4. QED
      BY <2>1, <3>2, <3>3 DEF Provider!Leave, Provider!Inside
  <2>4. CASE \A c \in Callers : call'[c] = call[c]
    BY <2>1, <2>2, <2>4, StutterStep DEF StopExecutor
  <2>5. QED
    BY <2>2, <2>3, <2>4 DEF Provider!AbsNext, StopExecutor
<1>5. ASSUME NEW t \in Callers, CheckOpen(t) \/ CompleteCall(t) \/ TakeCall(t)
      PROVE  UNCHANGED Provider!absVars
  <2>1. \A c \in Callers : Phase(c)' = Phase(c)
    BY <1>5 DEF CheckOpen, CompleteCall, TakeCall, Phase, callVars
  <2>2. \A c \in Callers : Told(c)' = Told(c)
    BY <1>5 DEF CheckOpen, CompleteCall, TakeCall, Told, MayHaveRun, Goto, callVars
  <2>3. UNCHANGED passed
    BY <1>5 DEF CheckOpen, CompleteCall, TakeCall, callVars
  <2>4. QED
    BY <2>1, <2>2, <2>3 DEF Provider!absVars
<1>6. ASSUME NEW t \in Callers, Submit(t)
      PROVE  Provider!AbsNext \/ UNCHANGED Provider!absVars
  <2>1. CASE stopped
    <3>1. \A c \in Callers : pc'[c] = "done" <=> pc[c] = "done"
      BY <1>6, <2>1 DEF Submit, Goto
    <3>2. QED
      BY <1>6, <2>1, <3>1, StutterStep DEF Submit
  <2>2. CASE ~stopped
    <3>1. Provider!Inside = {} /\ call[t] = "none" /\ pc[t] = "dispatch"
      BY <1>6, OwnerIsAlone DEF Submit, OwningPcs, CallInv
    <3>2. /\ call' = [call EXCEPT ![t] = "pending"] /\ Goto(t, "submitted")
          /\ UNCHANGED <<started, uncertain, passed>>
      BY <1>6, <2>2 DEF Submit
    <3>3. /\ \A c \in Callers : Told(c)' = Told(c) /\ (c # t => Phase(c)' = Phase(c))
          /\ Phase(t) = "outside" /\ Phase(t)' = "admitted" /\ Told(t) = "none"
      BY <3>1, <3>2 DEF Told, MayHaveRun, Phase, Goto
    <3>4. Provider!Admit(t)
      BY <3>1, <3>2, <3>3 DEF Provider!Admit
    <3>5. QED
      BY <3>4 DEF Provider!AbsNext
  <2>3. QED
    BY <2>1, <2>2
<1>7. ASSUME NEW t \in Callers, EnterBody(t)
      PROVE  Provider!AbsNext
  <2>1. Phase(t) = "admitted" /\ Told(t) # "never"
    BY <1>7 DEF EnterBody, Phase, Told, EvidenceHonest
  <2>2. /\ \A c \in Callers : Told(c)' = Told(c) /\ (c # t => Phase(c)' = Phase(c))
        /\ Phase(t)' = "running" /\ UNCHANGED passed
    BY <1>7, <2>1 DEF EnterBody, Phase, Told, MayHaveRun
  <2>3. Provider!Begin(t)
    BY <2>1, <2>2 DEF Provider!Begin
  <2>4. QED
    BY <2>3 DEF Provider!AbsNext
<1>8. ASSUME NEW t \in Callers, RefuseBody(t) \/ ReturnBody(t)
      PROVE  Provider!AbsNext
  <2>1. Phase(t) \in {"admitted", "running"} /\ Phase(t)' = "over" /\ UNCHANGED passed
    BY <1>8 DEF RefuseBody, ReturnBody, Phase
  <2>2. \A c \in Callers : Told(c)' = Told(c) /\ (c # t => Phase(c)' = Phase(c))
    BY <1>8 DEF RefuseBody, ReturnBody, Phase, Told, MayHaveRun
  <2>3. Provider!Leave(t)
    BY <2>1, <2>2 DEF Provider!Leave, Provider!Inside
  <2>4. QED
    BY <2>3 DEF Provider!AbsNext
<1>9. ASSUME NEW t \in Callers, Deliver(t)
      PROVE  Provider!AbsNext
  <2>1. Provider!Tell(t)
    BY <1>9, TellStep DEF Deliver, Goto, callVars
  <2>2. QED
    BY <2>1 DEF Provider!AbsNext
<1>10. ASSUME NEW t \in Callers, GiveUp(t)
       PROVE  Provider!AbsNext
  <2>1. pc[t] = "submitted" /\ Goto(t, "done") /\ UNCHANGED <<started, passed>>
    BY <1>10 DEF GiveUp
  <2>2. Told(t) = "none" /\ \A c \in Callers : c # t => pc'[c] = pc[c]
    BY <2>1 DEF Told, Goto
  <2>3. CASE call[t] = "pending" /\ call' = [call EXCEPT ![t] = "withdrawing"] /\ UNCHANGED uncertain
    <3>1. /\ \A c \in Callers : c # t => Told(c)' = Told(c) /\ Phase(c)' = Phase(c)
          /\ Phase(t) = "admitted" /\ Phase(t)' = "over" /\ Told(t)' = "never"
      BY <2>1, <2>2, <2>3 DEF Told, Phase, MayHaveRun, Goto, CallInv
    <3>2. Provider!Tell(t)
      BY <2>1, <2>2, <3>1 DEF Provider!Tell
    <3>3. QED
      BY <3>2 DEF Provider!AbsNext
  <2>4. CASE call[t] \in {"running", "body"} /\ UNCHANGED call /\ uncertain' = uncertain \union {t}
    <3>1. /\ \A c \in Callers : Phase(c)' = Phase(c) /\ (c # t => Told(c)' = Told(c))
          /\ Told(t)' = "maybe"
      BY <2>1, <2>2, <2>4 DEF Told, Phase, MayHaveRun, Goto
    <3>2. Provider!Tell(t)
      BY <2>1, <2>2, <3>1 DEF Provider!Tell
    <3>3. QED
      BY <3>2 DEF Provider!AbsNext
  <2>5. CASE call[t] \notin {"pending", "running", "body"} /\ UNCHANGED <<call, uncertain>>
    <3>1. Provider!Tell(t)
      BY <2>1, <2>2, <2>5, TellStep DEF Goto
    <3>2. QED
      BY <3>1 DEF Provider!AbsNext
  <2>6. QED
    BY <1>10, <2>3, <2>4, <2>5 DEF GiveUp
<1>11. CASE UNCHANGED vars \/ \E l \in Loops : CloseLoop(l)
  BY <1>11, StutterStep DEF vars, CloseLoop, callVars
<1>12. QED
  BY <1>2, <1>3, <1>4, <1>5, <1>6, <1>7, <1>8, <1>9, <1>10, <1>11 DEF Next, LaneStep, CallStep

(* The worker implements the serial provider.                              *)
THEOREM WorkerImplementsSerialProvider == Spec => ImplementsSerialProvider
<1>1. Init => Provider!AbsInit
  BY DEF Init, Provider!AbsInit, Phase, Told, Tasks
<1>2. QED
  BY <1>1, Invariance, StepSimulation, PTL DEF Spec, ImplementsSerialProvider, Provider!AbsSpec
=============================================================================
