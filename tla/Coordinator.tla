----------------------------- MODULE Coordinator -----------------------------
(***************************************************************************)
(* coordinator.py: the AutomationCoordinator orders the mutations of a     *)
(* session.  Foreground mutations share one lock; the shadow mutations of  *)
(* a target share a lock that exists only while somebody uses it.  A       *)
(* mutation that is given up while its provider call may still run poisons *)
(* its lane until a recovery task has seen the provider idle.              *)
(*                                                                         *)
(* The providers are those of SerialProvider: a worker takes one call at a *)
(* time.  Every action is what a task does between two awaits.             *)
(***************************************************************************)
CONSTANTS
    Clients,    \* tasks that execute one mutation each
    Lanes,      \* the foreground and the shadow targets
    Foreground, \* the lane whose lock is never discarded
    LaneOf,     \* the lane of each client
    Workers,    \* provider workers, shared by lanes
    WorkerOf,   \* the worker that runs the provider call of each client
    Hung,       \* the clients whose provider call may never return
    None

ASSUME CoordinatorAssumption ==
    /\ Foreground \in Lanes
    /\ LaneOf \in [Clients -> Lanes]
    /\ WorkerOf \in [Clients -> Workers]
    /\ Hung \subseteq Clients
    /\ None \notin Clients \union {Foreground}
    /\ Foreground \notin Clients

(* A lock is named after the client that created it; the foreground lock   *)
(* is there from the start.                                                *)
Locks == Clients \union {Foreground}

VARIABLES
    pc,         \* idle, queued, running or done
    table,      \* _shadow_locks, and the foreground lock
    lock,       \* the lock object each client has retained
    holder,     \* the client that holds each lock
    call,       \* its provider call: none, queued, inside, over or withdrawn
    poison,     \* the clients whose recovery task has not finished
    ending,     \* how the mutation of each client ended
    closed      \* _closed

lockVars == <<table, lock, holder>>
vars == <<pc, lockVars, call, poison, ending, closed>>

Init ==
    /\ pc = [c \in Clients |-> "idle"]
    /\ table = [l \in Lanes |-> IF l = Foreground THEN Foreground ELSE None]
    /\ lock = [c \in Clients |-> None]
    /\ holder = [k \in Locks |-> None]
    /\ call = [c \in Clients |-> "none"]
    /\ poison = {}
    /\ ending = [c \in Clients |-> "none"]
    /\ closed = FALSE

Poisoned(l) == \E d \in poison : LaneOf[d] = l
Users(k) == {c \in Clients : lock[c] = k}

End(c, how) ==
    /\ pc' = [pc EXCEPT ![c] = "done"]
    /\ ending' = [ending EXCEPT ![c] = how]

-----------------------------------------------------------------------------
(* execute_foreground and execute_shadow.                                  *)

Refuse(c) ==
    /\ pc[c] = "idle"
    /\ closed \/ Poisoned(LaneOf[c])
    /\ End(c, "refused")
    /\ UNCHANGED <<lockVars, call, poison, closed>>

(* Retain the lock of the lane, creating it for its first user.            *)
Retain(c) ==
    LET l == LaneOf[c]
        k == IF table[l] = None THEN c ELSE table[l] IN
    /\ pc[c] = "idle"
    /\ ~closed /\ ~Poisoned(l)
    /\ table' = [table EXCEPT ![l] = k]
    /\ lock' = [lock EXCEPT ![c] = k]
    /\ pc' = [pc EXCEPT ![c] = "queued"]
    /\ UNCHANGED <<holder, call, poison, ending, closed>>

(* A mutant of DropLock: every user discards the lock.                     *)
DiscardLock(c) ==
    LET l == LaneOf[c] IN
    /\ lock' = [lock EXCEPT ![c] = None]
    /\ table' = IF l # Foreground THEN [table EXCEPT ![l] = None] ELSE table

(* _release_shadow_lock: the last user discards the lock.                  *)
DropLock(c) ==
    LET k == lock[c]
        l == LaneOf[c] IN
    /\ lock' = [lock EXCEPT ![c] = None]
    /\ table' = IF l # Foreground /\ Users(k) = {c} /\ table[l] = k
                THEN [table EXCEPT ![l] = None] ELSE table

(* A mutant of Acquire: the lane is not checked again after the wait.      *)
AcquireUnchecked(c) ==
    /\ pc[c] = "queued"
    /\ holder[lock[c]] = None
    /\ holder' = [holder EXCEPT ![lock[c]] = c]
    /\ pc' = [pc EXCEPT ![c] = "running"]
    /\ UNCHANGED <<table, lock, call, poison, ending, closed>>

(* The lock is free and asyncio wakes this waiter.  A lane that was        *)
(* poisoned while it waited is left at once.                               *)
Acquire(c) ==
    /\ pc[c] = "queued"
    /\ holder[lock[c]] = None
    /\ \/ /\ Poisoned(LaneOf[c])
          /\ End(c, "refused")
          /\ DropLock(c)
          /\ UNCHANGED holder
       \/ /\ ~Poisoned(LaneOf[c])
          /\ holder' = [holder EXCEPT ![lock[c]] = c]
          /\ pc' = [pc EXCEPT ![c] = "running"]
          /\ UNCHANGED <<table, lock, ending>>
    /\ UNCHANGED <<call, poison, closed>>

(* A deadline or a cancellation ends the wait for the lock.                *)
LeaveQueue(c) ==
    /\ pc[c] = "queued"
    /\ End(c, "expired")
    /\ DropLock(c)
    /\ UNCHANGED <<holder, call, poison, closed>>

(* A mutant of ReleaseLock: the lock stays taken.                          *)
KeepLock(c) ==
    /\ UNCHANGED holder
    /\ DropLock(c)

(* The mutation ends: it gives its lock back, then its claim to it.        *)
ReleaseLock(c) ==
    /\ holder' = [holder EXCEPT ![lock[c]] = None]
    /\ DropLock(c)

-----------------------------------------------------------------------------
(* The provider call of a mutation, as SerialProvider promises it.         *)

Submit(c) ==
    /\ pc[c] = "running" /\ call[c] = "none"
    /\ call' = [call EXCEPT ![c] = "queued"]
    /\ UNCHANGED <<pc, lockVars, poison, ending, closed>>

Inside(w) == {c \in Clients : WorkerOf[c] = w /\ call[c] = "inside"}

Begin(c) ==
    /\ call[c] = "queued"
    /\ Inside(WorkerOf[c]) = {}
    /\ call' = [call EXCEPT ![c] = "inside"]
    /\ UNCHANGED <<pc, lockVars, poison, ending, closed>>

Return(c) ==
    /\ call[c] = "inside"
    /\ call' = [call EXCEPT ![c] = "over"]
    /\ UNCHANGED <<pc, lockVars, poison, ending, closed>>

(* The mutation ends knowing what its call did, or without a call.         *)
Settle(c) ==
    /\ pc[c] = "running"
    /\ call[c] \in {"none", "over"}
    /\ End(c, "settled")
    /\ ReleaseLock(c)
    /\ UNCHANGED <<call, poison, closed>>

(* A mutant of Withdraw: the call stays in the queue of its worker.        *)
WalkAway(c) ==
    /\ pc[c] = "running" /\ call[c] = "queued"
    /\ End(c, "expired")
    /\ ReleaseLock(c)
    /\ UNCHANGED <<call, poison, closed>>

(* A deadline or a cancellation before the worker took the call.           *)
Withdraw(c) ==
    /\ pc[c] = "running" /\ call[c] = "queued"
    /\ call' = [call EXCEPT ![c] = "withdrawn"]
    /\ End(c, "expired")
    /\ ReleaseLock(c)
    /\ UNCHANGED <<poison, closed>>

(* The mutation is given up while its call may still run: the lane is      *)
(* poisoned before its lock is released.  A closed coordinator starts no   *)
(* recovery: poison_*_until raises, and that is the mutation's answer.     *)
GiveUp(c) ==
    /\ pc[c] = "running" /\ call[c] = "inside"
    /\ poison' = IF closed THEN poison ELSE poison \union {c}
    /\ End(c, IF closed THEN "closed" ELSE "unknown")
    /\ ReleaseLock(c)
    /\ UNCHANGED <<call, closed>>

(* A mutant of Recover: only the poison of shadow targets is lifted.       *)
RecoverShadow(c) ==
    /\ c \in poison /\ LaneOf[c] # Foreground
    /\ Inside(WorkerOf[c]) = {}
    /\ poison' = poison \ {c}
    /\ UNCHANGED <<pc, lockVars, call, ending, closed>>

(* The recovery task saw the worker idle and ended.                        *)
Recover(c) ==
    /\ c \in poison
    /\ Inside(WorkerOf[c]) = {}
    /\ poison' = poison \ {c}
    /\ UNCHANGED <<pc, lockVars, call, ending, closed>>

-----------------------------------------------------------------------------
(* close: new work is refused at once; the recovery tasks are cancelled.   *)
Close ==
    /\ ~closed
    /\ closed' = TRUE
    /\ UNCHANGED <<pc, lockVars, call, poison, ending>>

CancelRecoveries ==
    /\ closed /\ poison # {}
    /\ poison' = {}
    /\ UNCHANGED <<pc, lockVars, call, ending, closed>>

-----------------------------------------------------------------------------
ClientStep(c) ==
    \/ Refuse(c) \/ Retain(c) \/ Acquire(c) \/ LeaveQueue(c)
    \/ Submit(c) \/ Begin(c) \/ Return(c)
    \/ Settle(c) \/ Withdraw(c) \/ GiveUp(c) \/ Recover(c)

Next ==
    \/ \E c \in Clients : ClientStep(c)
    \/ Close \/ CancelRecoveries

Spec == Init /\ [][Next]_vars

(* The loop runs what is ready, every mutation has a deadline, and a call  *)
(* that does not hang returns.                                             *)
Fairness ==
    /\ \A c \in Clients : WF_vars(Acquire(c))
    /\ \A c \in Clients : WF_vars(Settle(c) \/ Withdraw(c) \/ GiveUp(c))
    /\ \A c \in Clients : WF_vars(Recover(c))
    /\ \A c \in Clients \ Hung : WF_vars(Return(c))

FairSpec == Spec /\ Fairness

-----------------------------------------------------------------------------
(* Properties.                                                             *)

TypeOK ==
    /\ pc \in [Clients -> {"idle", "queued", "running", "done"}]
    /\ table \in [Lanes -> Locks \union {None}]
    /\ lock \in [Clients -> Locks \union {None}]
    /\ holder \in [Locks -> Clients \union {None}]
    /\ call \in [Clients -> {"none", "queued", "inside", "over", "withdrawn"}]
    /\ poison \subseteq {c \in Clients : ending[c] = "unknown"}
    /\ ending \in [Clients -> {"none", "refused", "expired", "settled", "unknown", "closed"}]
    /\ closed \in BOOLEAN

(* The lock table is exact: a lane in use has one lock, which all its      *)
(* users share, and a shadow target nobody uses has none.                  *)
LockTableExact ==
    /\ \A c \in Clients : lock[c] # None => lock[c] = table[LaneOf[c]]
    /\ \A l \in Lanes \ {Foreground} : table[l] # None => Users(table[l]) # {}

(* Mutations of a lane are serial, and one that was given up stays alone   *)
(* with its provider until its call has really ended, whichever worker     *)
(* the next mutation would have used; this holds while the coordinator is  *)
(* open.                                                                   *)
Quarantine ==
    \A c, d \in Clients :
        /\ c # d
        /\ LaneOf[c] = LaneOf[d]
        /\ call[c] = "inside"
        /\ pc[d] = "running"
        => closed

(* A client that was told neither "unknown" nor that the coordinator is    *)
(* closed knows its mutation's fate: its call is not inside the provider   *)
(* and never will be.                                                      *)
NothingLeftBehind ==
    \A c \in Clients :
        pc[c] = "done" /\ ending[c] \notin {"unknown", "closed"} =>
            call[c] \notin {"queued", "inside"}

(* Every queued mutation gets its turn or an answer, whatever hangs.       *)
QueueDrains ==
    \A c \in Clients : pc[c] = "queued" ~> pc[c] = "done"

(* A poisoned lane is usable again once the calls on its worker returned.  *)
PoisonLifts ==
    \A l \in Lanes :
        Poisoned(l) ~> ~Poisoned(l) \/ \E c \in Hung : call[c] = "inside"
=============================================================================
