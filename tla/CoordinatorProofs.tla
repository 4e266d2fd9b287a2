--------------------------- MODULE CoordinatorProofs ---------------------------
(***************************************************************************)
(* Proofs about Coordinator and about SingleFlight, the two halves of      *)
(* coordinator.py.  Of the lanes: the lock table is exact, lanes are       *)
(* serial and quarantined, and no call is abandoned, for any number of     *)
(* clients, lanes and workers.  Of the flights: one producer per key, and  *)
(* nobody loses one to another, for any number of observers and keys.      *)
(***************************************************************************)
EXTENDS Coordinator, SingleFlight, TLAPS

(* A client retains a lock exactly while it waits or runs, and a running   *)
(* client holds the lock that it retains.                                  *)
Locking ==
    \A c \in Clients :
        /\ lock[c] # None <=> pc[c] \in {"queued", "running"}
        /\ pc[c] = "running" => holder[lock[c]] = c

(* A lock was made by a client of its lane, so lanes do not share one.     *)
Named ==
    /\ table[Foreground] = Foreground
    /\ \A l \in Lanes \ {Foreground} :
            table[l] # None => table[l] \in Clients /\ LaneOf[table[l]] = l

(* What the mutation of a client did to its provider call.                 *)
Calls ==
    \A c \in Clients :
        /\ pc[c] \in {"idle", "queued"} => call[c] = "none"
        /\ c \in poison => pc[c] = "done"
        /\ pc[c] = "done" => call[c] # "queued"
        /\ pc[c] = "done" /\ call[c] = "inside" =>
                ending[c] \in {"unknown", "closed"} /\ (c \in poison \/ closed)

(* No mutation runs in a poisoned lane.                                    *)
Quarantined ==
    ~closed => \A c, d \in Clients :
                    pc[c] = "running" /\ d \in poison => LaneOf[c] # LaneOf[d]

Inv ==
    /\ TypeOK
    /\ Locking
    /\ Named
    /\ LockTableExact
    /\ Calls
    /\ Quarantined

-----------------------------------------------------------------------------
(* Two running clients of one lane are one client.                         *)
LEMMA LanesAreSerial ==
    ASSUME Locking, LockTableExact, NEW c \in Clients, NEW d \in Clients,
           pc[c] = "running", pc[d] = "running", LaneOf[c] = LaneOf[d]
    PROVE  c = d
  <1>1. lock[c] = table[LaneOf[c]] /\ lock[d] = table[LaneOf[d]]
    BY DEF Locking, LockTableExact
  <1>2. holder[lock[c]] = c /\ holder[lock[d]] = d
    BY DEF Locking
  <1> QED BY <1>1, <1>2

(* The constants' types.                                                   *)
LEMMA ConstantFacts ==
    /\ \A c \in Clients : LaneOf[c] \in Lanes /\ c # None /\ c # Foreground
    /\ Foreground \in Lanes /\ Foreground # None
  BY CoordinatorAssumption

(* The initial states satisfy the invariant.                               *)
LEMMA InitInv == Init => Inv
  <1> SUFFICES ASSUME Init PROVE Inv OBVIOUS
  <1>1. TypeOK
    BY CoordinatorAssumption DEF Init, TypeOK, Locks
  <1>2. Locking /\ Named /\ Calls /\ Quarantined
    BY CoordinatorAssumption DEF Init, Locking, Named, Calls, Quarantined
  <1>3. LockTableExact
    BY CoordinatorAssumption DEF Init, LockTableExact
  <1> QED BY <1>1, <1>2, <1>3 DEF Inv

(* Dropping a lock leaves the table exact.                                 *)
LEMMA DropLockEffect ==
    ASSUME Inv, NEW c \in Clients, lock[c] # None, DropLock(c)
    PROVE  /\ lock' \in [Clients -> Locks \union {None}]
           /\ table' \in [Lanes -> Locks \union {None}]
           /\ LockTableExact'
           /\ Named'
  <1> DEFINE l == LaneOf[c]
             k == lock[c]
  <1>1. /\ lock \in [Clients -> Locks \union {None}]
        /\ table \in [Lanes -> Locks \union {None}]
    BY DEF Inv, TypeOK
  <1>2. /\ l \in Lanes /\ k = table[l]
        /\ Foreground \in Lanes
    BY ConstantFacts DEF Inv, LockTableExact
  <1>3. lock' = [lock EXCEPT ![c] = None]
    BY DEF DropLock
  <1>4. table' = table \/ (l # Foreground /\ Users(k) = {c} /\ table' = [table EXCEPT ![l] = None])
    BY DEF DropLock
  <1>5. Named'
    BY <1>1, <1>2, <1>4 DEF Inv, Named
  <1>6. ASSUME NEW d \in Clients, lock'[d] # None
        PROVE  lock'[d] = table'[LaneOf[d]]
    <2>1. d # c /\ lock'[d] = lock[d] /\ lock[d] = table[LaneOf[d]]
      BY <1>1, <1>3, <1>6 DEF Inv, LockTableExact
    <2>2. CASE LaneOf[d] = l
      <3>1. d \in Users(k)
        BY <2>1, <2>2, <1>2 DEF Users
      <3> QED BY <3>1, <2>1, <1>4
    <2>3. CASE LaneOf[d] # l
      BY <2>1, <2>3, <1>1, <1>2, <1>4, ConstantFacts
    <2> QED BY <2>2, <2>3
  <1>7. ASSUME NEW m \in Lanes \ {Foreground}, table'[m] # None
        PROVE  \E e \in Clients : lock'[e] = table'[m]
    <2>1. table'[m] = table[m] /\ Users(table[m]) # {}
      BY <1>1, <1>2, <1>4, <1>7 DEF Inv, LockTableExact
    <2>2. PICK d \in Clients : lock[d] = table[m]
      BY <2>1 DEF Users
    <2>3. CASE d # c
      <3>1. lock'[d] = table'[m]
        BY <2>1, <2>2, <2>3, <1>1, <1>3
      <3> QED BY <3>1
    <2>4. CASE d = c
      <3>1. m = l
        BY <2>1, <2>2, <2>4, <1>2, <1>7, ConstantFacts DEF Inv, Named
      <3>2. PICK e \in Clients : e # c /\ lock[e] = k
        BY <3>1, <2>1, <2>2, <2>4, <1>1, <1>2, <1>4, <1>7 DEF DropLock, Users
      <3>3. lock'[e] = table'[m]
        BY <3>2, <2>1, <2>2, <2>4, <1>1, <1>3
      <3> QED BY <3>3
    <2> QED BY <2>3, <2>4
  <1>8. LockTableExact'
    BY <1>6, <1>7 DEF LockTableExact, Users
  <1> QED BY <1>1, <1>3, <1>4, <1>5, <1>8

(* A mutation that ends with its lock dropped, its call neither queued nor *)
(* unreported, keeps the invariant.                                        *)
LEMMA EndInv ==
    ASSUME Inv, NEW c \in Clients, lock[c] # None, DropLock(c),
           NEW how \in {"refused", "expired", "settled", "unknown", "closed"}, End(c, how),
           holder' = holder \/ holder' = [holder EXCEPT ![lock[c]] = None],
           pc[c] # "running" => holder' = holder,
           call' \in [Clients -> {"none", "queued", "inside", "over", "withdrawn"}],
           \A d \in Clients \ {c} : call'[d] = call[d],
           call'[c] # "queued",
           call'[c] = "inside" => how \in {"unknown", "closed"} /\ (c \in poison' \/ closed),
           closed' = closed,
           poison' = poison \/
             (~closed /\ poison' = poison \union {c} /\ pc[c] = "running" /\ how = "unknown")
    PROVE  Inv'
  <1>1. /\ lock' \in [Clients -> Locks \union {None}]
        /\ table' \in [Lanes -> Locks \union {None}]
        /\ LockTableExact' /\ Named'
    BY DropLockEffect
  <1>2. /\ pc \in [Clients -> {"idle", "queued", "running", "done"}]
        /\ lock \in [Clients -> Locks \union {None}]
        /\ holder \in [Locks -> Clients \union {None}]
        /\ ending \in [Clients -> {"none", "refused", "expired", "settled", "unknown", "closed"}]
        /\ poison \subseteq Clients /\ closed \in BOOLEAN
    BY DEF Inv, TypeOK
  <1>3. /\ pc' = [pc EXCEPT ![c] = "done"] /\ ending' = [ending EXCEPT ![c] = how]
        /\ lock' = [lock EXCEPT ![c] = None]
    BY DEF End, DropLock
  <1>4. TypeOK'
    <2>1. pc' \in [Clients -> {"idle", "queued", "running", "done"}]
      BY <1>2, <1>3
    <2>2. ending' \in [Clients -> {"none", "refused", "expired", "settled", "unknown", "closed"}]
      BY <1>2, <1>3
    <2>3. holder' \in [Locks -> Clients \union {None}]
      BY <1>2
    <2>4. poison' \subseteq {d \in Clients : ending'[d] = "unknown"}
      <3>1. c \notin poison
        BY <1>2 DEF Inv, Locking, Calls
      <3>2. \A d \in poison : d # c /\ ending'[d] = ending[d] /\ ending[d] = "unknown"
        BY <3>1, <1>2, <1>3 DEF Inv, TypeOK
      <3> QED BY <3>2, <1>2, <1>3
    <2> QED BY <2>1, <2>2, <2>3, <2>4, <1>1, <1>2 DEF TypeOK
  <1>5. Locking'
    <2> SUFFICES ASSUME NEW d \in Clients
                 PROVE  /\ lock'[d] # None <=> pc'[d] \in {"queued", "running"}
                        /\ pc'[d] = "running" => holder'[lock'[d]] = d
      BY DEF Locking
    <2>1. CASE d = c
      BY <2>1, <1>2, <1>3
    <2>2. CASE d # c
      <3>1. pc'[d] = pc[d] /\ lock'[d] = lock[d]
        BY <2>2, <1>2, <1>3
      <3>2. lock[d] # None <=> pc[d] \in {"queued", "running"}
        BY DEF Inv, Locking
      <3>3. ASSUME pc[d] = "running" PROVE holder'[lock[d]] = d
        <4>1. holder[lock[d]] = d /\ lock[d] \in Locks /\ lock[c] \in Locks
          BY <3>2, <3>3, <1>2 DEF Inv, Locking
        <4>2. CASE holder' = holder
          BY <4>1, <4>2
        <4>3. CASE pc[c] = "running" /\ holder' = [holder EXCEPT ![lock[c]] = None]
          <5>1. holder[lock[c]] = c
            BY <4>3 DEF Inv, Locking
          <5> QED BY <5>1, <4>1, <4>3, <2>2, <1>2
        <4> QED BY <4>2, <4>3
      <3> QED BY <3>1, <3>2, <3>3
    <2> QED BY <2>1, <2>2
  <1>6. Calls'
    <2> SUFFICES ASSUME NEW d \in Clients
                 PROVE  /\ pc'[d] \in {"idle", "queued"} => call'[d] = "none"
                        /\ d \in poison' => pc'[d] = "done"
                        /\ pc'[d] = "done" => call'[d] # "queued"
                        /\ pc'[d] = "done" /\ call'[d] = "inside" =>
                                ending'[d] \in {"unknown", "closed"} /\ (d \in poison' \/ closed')
      BY DEF Calls
    <2>1. CASE d = c
      BY <2>1, <1>2, <1>3
    <2>2. CASE d # c
      <3>1. pc'[d] = pc[d] /\ ending'[d] = ending[d] /\ call'[d] = call[d]
        BY <2>2, <1>2, <1>3
      <3> QED BY <2>2, <3>1 DEF Inv, Calls
    <2> QED BY <2>1, <2>2
  <1>7. Quarantined'
    <2> SUFFICES ASSUME ~closed', NEW d \in Clients, NEW e \in Clients,
                        pc'[d] = "running", e \in poison'
                 PROVE  LaneOf[d] # LaneOf[e]
      BY DEF Quarantined
    <2>1. d # c /\ pc[d] = "running"
      BY <1>2, <1>3
    <2>2. CASE e \in poison
      BY <2>1, <2>2 DEF Inv, Quarantined
    <2>3. CASE e = c /\ pc[c] = "running"
      BY <2>1, <2>3, LanesAreSerial DEF Inv
    <2> QED BY <2>2, <2>3
  <1> QED BY <1>1, <1>4, <1>5, <1>6, <1>7 DEF Inv

-----------------------------------------------------------------------------
(* A mutation that is refused, leaves the queue or ends with a lock.       *)
LEMMA LeavingInv ==
    ASSUME Inv, NEW c \in Clients,
           \/ Acquire(c) /\ Poisoned(LaneOf[c])
           \/ LeaveQueue(c) \/ Settle(c) \/ Withdraw(c) \/ GiveUp(c)
    PROVE  Inv'
  <1>1. /\ call \in [Clients -> {"none", "queued", "inside", "over", "withdrawn"}]
        /\ closed \in BOOLEAN
        /\ pc[c] \in {"queued", "running"} => lock[c] # None
    BY DEF Inv, TypeOK, Locking
  <1>2. CASE Acquire(c) /\ Poisoned(LaneOf[c])
    <2>1. /\ pc[c] = "queued" /\ End(c, "refused") /\ DropLock(c)
          /\ holder' = holder /\ call' = call /\ poison' = poison /\ closed' = closed
      BY <1>2 DEF Acquire
    <2>2. call[c] = "none"
      BY <2>1 DEF Inv, Calls
    <2> QED BY <2>1, <2>2, <1>1, EndInv
  <1>3. CASE LeaveQueue(c)
    <2>1. /\ pc[c] = "queued" /\ End(c, "expired") /\ DropLock(c)
          /\ holder' = holder /\ call' = call /\ poison' = poison /\ closed' = closed
      BY <1>3 DEF LeaveQueue
    <2>2. call[c] = "none"
      BY <2>1 DEF Inv, Calls
    <2> QED BY <2>1, <2>2, <1>1, EndInv
  <1>4. CASE Settle(c)
    <2>1. /\ pc[c] = "running" /\ End(c, "settled") /\ DropLock(c)
          /\ holder' = [holder EXCEPT ![lock[c]] = None]
          /\ call' = call /\ poison' = poison /\ closed' = closed
          /\ call[c] \in {"none", "over"}
      BY <1>4 DEF Settle, ReleaseLock
    <2> QED BY <2>1, <1>1, EndInv
  <1>5. CASE Withdraw(c)
    <2>1. /\ pc[c] = "running" /\ End(c, "expired") /\ DropLock(c)
          /\ holder' = [holder EXCEPT ![lock[c]] = None]
          /\ call' = [call EXCEPT ![c] = "withdrawn"]
          /\ poison' = poison /\ closed' = closed
      BY <1>5 DEF Withdraw, ReleaseLock
    <2>2. /\ call' \in [Clients -> {"none", "queued", "inside", "over", "withdrawn"}]
          /\ \A d \in Clients \ {c} : call'[d] = call[d]
          /\ call'[c] = "withdrawn"
      BY <2>1, <1>1
    <2> QED BY <2>1, <2>2, <1>1, EndInv
  <1>6. CASE GiveUp(c)
    <2> DEFINE how == IF closed THEN "closed" ELSE "unknown"
    <2>1. /\ pc[c] = "running" /\ End(c, how) /\ DropLock(c)
          /\ holder' = [holder EXCEPT ![lock[c]] = None]
          /\ call' = call /\ closed' = closed /\ call[c] = "inside"
          /\ poison' = IF closed THEN poison ELSE poison \union {c}
      BY <1>6 DEF GiveUp, ReleaseLock
    <2>2. /\ c \in poison' \/ closed
          /\ poison' = poison \/ (~closed /\ poison' = poison \union {c}
                                                /\ pc[c] = "running" /\ how = "unknown")
          /\ how \in {"unknown", "closed"}
      BY <2>1
    <2> HIDE DEF how
    <2> QED BY <2>1, <2>2, <1>1, EndInv
  <1> QED BY <1>2, <1>3, <1>4, <1>5, <1>6

(* A refusal before the lock changes nothing but the client.               *)
LEMMA RefuseInv ==
    ASSUME Inv, NEW c \in Clients, Refuse(c)
    PROVE  Inv'
  <1>1. /\ pc[c] = "idle" /\ pc' = [pc EXCEPT ![c] = "done"]
        /\ ending' = [ending EXCEPT ![c] = "refused"]
        /\ UNCHANGED <<table, lock, holder, call, poison, closed>>
    BY DEF Refuse, End, lockVars
  <1>2. TypeOK'
    <2>1. c \notin poison
      BY <1>1 DEF Inv, Calls
    <2> QED BY <1>1, <2>1 DEF Inv, TypeOK
  <1>3. Locking'
    BY <1>1 DEF Inv, TypeOK, Locking
  <1>4. Named' /\ LockTableExact'
    BY <1>1 DEF Inv, Named, LockTableExact, Users
  <1>5. Calls'
    BY <1>1 DEF Inv, TypeOK, Calls
  <1>6. Quarantined'
    BY <1>1 DEF Inv, TypeOK, Quarantined
  <1> QED BY <1>2, <1>3, <1>4, <1>5, <1>6 DEF Inv

(* The first user of a lane creates its lock, later ones share it.         *)
LEMMA RetainInv ==
    ASSUME Inv, NEW c \in Clients, Retain(c)
    PROVE  Inv'
  <1> DEFINE l == LaneOf[c]
             k == IF table[l] = None THEN c ELSE table[l]
  <1>1. /\ pc[c] = "idle" /\ pc' = [pc EXCEPT ![c] = "queued"]
        /\ table' = [table EXCEPT ![l] = k] /\ lock' = [lock EXCEPT ![c] = k]
        /\ UNCHANGED <<holder, call, poison, ending, closed>>
    BY DEF Retain
  <1>2. /\ table \in [Lanes -> Locks \union {None}] /\ lock \in [Clients -> Locks \union {None}]
        /\ pc \in [Clients -> {"idle", "queued", "running", "done"}]
        /\ l \in Lanes /\ k \in Locks /\ k # None /\ lock[c] = None /\ call[c] = "none"
    BY <1>1, ConstantFacts DEF Inv, TypeOK, Locks, Locking, Calls
  <1>3. TypeOK'
    BY <1>1, <1>2 DEF Inv, TypeOK
  <1>4. Locking'
    BY <1>1, <1>2 DEF Inv, Locking
  <1>5. Named'
    BY <1>1, <1>2, ConstantFacts DEF Inv, Named
  <1>6. LockTableExact'
    <2>1. ASSUME NEW d \in Clients, lock'[d] # None
          PROVE  lock'[d] = table'[LaneOf[d]]
      <3>1. CASE d = c
        BY <3>1, <1>1, <1>2
      <3>2. CASE d # c
        <4>1. lock'[d] = lock[d] /\ lock[d] = table[LaneOf[d]] /\ LaneOf[d] \in Lanes
          BY <3>2, <2>1, <1>1, <1>2, ConstantFacts DEF Inv, LockTableExact
        <4> QED BY <4>1, <2>1, <1>1, <1>2
      <3> QED BY <3>1, <3>2
    <2>2. ASSUME NEW m \in Lanes \ {Foreground}, table'[m] # None
          PROVE  \E e \in Clients : lock'[e] = table'[m]
      <3>1. CASE m = l
        BY <3>1, <1>1, <1>2
      <3>2. CASE m # l
        <4>1. table'[m] = table[m] /\ Users(table[m]) # {}
          BY <3>2, <2>2, <1>1, <1>2 DEF Inv, LockTableExact
        <4>2. PICK e \in Clients : lock[e] = table[m]
          BY <4>1 DEF Users
        <4>3. lock'[e] = table'[m]
          BY <4>1, <4>2, <2>2, <1>1, <1>2
        <4> QED BY <4>3
      <3> QED BY <3>1, <3>2
    <2> QED BY <2>1, <2>2 DEF LockTableExact, Users
  <1>7. Calls'
    BY <1>1, <1>2 DEF Inv, Calls
  <1>8. Quarantined'
    BY <1>1, <1>2 DEF Inv, Quarantined
  <1> QED BY <1>3, <1>4, <1>5, <1>6, <1>7, <1>8 DEF Inv

(* A client takes the lock of a lane that is not poisoned.                 *)
LEMMA AcquireInv ==
    ASSUME Inv, NEW c \in Clients, Acquire(c), ~Poisoned(LaneOf[c])
    PROVE  Inv'
  <1>1. /\ pc[c] = "queued" /\ pc' = [pc EXCEPT ![c] = "running"]
        /\ holder[lock[c]] = None /\ holder' = [holder EXCEPT ![lock[c]] = c]
        /\ UNCHANGED <<table, lock, call, poison, ending, closed>>
    BY DEF Acquire
  <1>2. /\ pc \in [Clients -> {"idle", "queued", "running", "done"}]
        /\ lock \in [Clients -> Locks \union {None}]
        /\ holder \in [Locks -> Clients \union {None}]
        /\ lock[c] \in Locks /\ lock[c] # None
    BY <1>1 DEF Inv, TypeOK, Locking
  <1>3. TypeOK'
    BY <1>1, <1>2 DEF Inv, TypeOK
  <1>4. Locking'
    <2> SUFFICES ASSUME NEW d \in Clients
                 PROVE  /\ lock'[d] # None <=> pc'[d] \in {"queued", "running"}
                        /\ pc'[d] = "running" => holder'[lock'[d]] = d
      BY DEF Locking
    <2>1. CASE d = c
      BY <2>1, <1>1, <1>2
    <2>2. CASE d # c
      <3>1. pc[d] = "running" => holder[lock[d]] = d /\ lock[d] # lock[c]
        BY <2>2, <1>1, ConstantFacts DEF Inv, Locking
      <3>2. lock[d] # None <=> pc[d] \in {"queued", "running"}
        BY DEF Inv, Locking
      <3> QED BY <3>1, <3>2, <2>2, <1>1, <1>2
    <2> QED BY <2>1, <2>2
  <1>5. Named' /\ LockTableExact'
    BY <1>1 DEF Inv, Named, LockTableExact, Users
  <1>6. Calls'
    BY <1>1, <1>2 DEF Inv, Calls
  <1>7. Quarantined'
    BY <1>1, <1>2 DEF Inv, Quarantined, Poisoned
  <1> QED BY <1>3, <1>4, <1>5, <1>6, <1>7 DEF Inv

(* The provider call of a client moves on.                                 *)
LEMMA CallInv ==
    ASSUME Inv, NEW c \in Clients, Submit(c) \/ Begin(c) \/ Return(c)
    PROVE  Inv'
  <1>1. UNCHANGED <<pc, table, lock, holder, poison, ending, closed>>
    BY DEF Submit, Begin, Return, lockVars
  <1>2. /\ call \in [Clients -> {"none", "queued", "inside", "over", "withdrawn"}]
        /\ pc \in [Clients -> {"idle", "queued", "running", "done"}]
    BY DEF Inv, TypeOK
  <1>3. call' \in [Clients -> {"none", "queued", "inside", "over", "withdrawn"}]
    BY <1>2 DEF Submit, Begin, Return
  <1>4. TypeOK'
    BY <1>1, <1>3 DEF Inv, TypeOK
  <1>5. Locking' /\ Named' /\ LockTableExact' /\ Quarantined'
    BY <1>1 DEF Inv, Locking, Named, LockTableExact, Users, Quarantined
  <1>6. Calls'
    <2>1. CASE Submit(c)
      <3>1. pc[c] = "running" /\ call' = [call EXCEPT ![c] = "queued"]
        BY <2>1 DEF Submit
      <3> QED BY <3>1, <1>1, <1>2 DEF Inv, Calls
    <2>2. CASE Begin(c)
      <3>1. call[c] = "queued" /\ call' = [call EXCEPT ![c] = "inside"]
        BY <2>2 DEF Begin
      <3> QED BY <3>1, <1>1, <1>2 DEF Inv, Calls
    <2>3. CASE Return(c)
      <3>1. call[c] = "inside" /\ call' = [call EXCEPT ![c] = "over"]
        BY <2>3 DEF Return
      <3> QED BY <3>1, <1>1, <1>2 DEF Inv, Calls
    <2> QED BY <2>1, <2>2, <2>3
  <1> QED BY <1>4, <1>5, <1>6 DEF Inv

(* A recovery ends only when the call it waited for has ended.             *)
LEMMA RecoverInv ==
    ASSUME Inv, NEW c \in Clients, Recover(c)
    PROVE  Inv'
  <1>1. /\ UNCHANGED <<pc, table, lock, holder, call, ending, closed>>
        /\ poison' = poison \ {c} /\ call[c] # "inside"
    BY DEF Recover, Inside, lockVars
  <1>2. TypeOK'
    BY <1>1 DEF Inv, TypeOK
  <1>3. Locking' /\ Named' /\ LockTableExact'
    BY <1>1 DEF Inv, Locking, Named, LockTableExact, Users
  <1>4. Calls'
    BY <1>1 DEF Inv, Calls
  <1>5. Quarantined'
    BY <1>1 DEF Inv, Quarantined
  <1> QED BY <1>2, <1>3, <1>4, <1>5 DEF Inv

(* A closed coordinator promises no quarantine.                            *)
LEMMA CloseInv ==
    ASSUME Inv, Close \/ CancelRecoveries
    PROVE  Inv'
  <1>1. /\ UNCHANGED <<pc, table, lock, holder, call, ending>>
        /\ closed' = TRUE /\ poison' \in {poison, {}}
    BY DEF Close, CancelRecoveries, lockVars, Inv, TypeOK
  <1>2. TypeOK'
    BY <1>1 DEF Inv, TypeOK
  <1>3. Locking' /\ Named' /\ LockTableExact'
    BY <1>1 DEF Inv, Locking, Named, LockTableExact, Users
  <1>4. Calls' /\ Quarantined'
    BY <1>1 DEF Inv, Calls, Quarantined
  <1> QED BY <1>2, <1>3, <1>4 DEF Inv

(* Every step preserves the invariant.                                     *)
LEMMA StepInv == Inv /\ [Next]_vars => Inv'
  <1> SUFFICES ASSUME Inv, [Next]_vars PROVE Inv' OBVIOUS
  <1>1. ASSUME NEW c \in Clients, ClientStep(c) PROVE Inv'
    <2>1. CASE Refuse(c) BY <2>1, RefuseInv
    <2>2. CASE Retain(c) BY <2>2, RetainInv
    <2>3. CASE Acquire(c) BY <2>3, AcquireInv, LeavingInv
    <2>4. CASE LeaveQueue(c) \/ Settle(c) \/ Withdraw(c) \/ GiveUp(c) BY <2>4, LeavingInv
    <2>5. CASE Submit(c) \/ Begin(c) \/ Return(c) BY <2>5, CallInv
    <2>6. CASE Recover(c) BY <2>6, RecoverInv
    <2> QED BY <1>1, <2>1, <2>2, <2>3, <2>4, <2>5, <2>6 DEF ClientStep
  <1>2. CASE Close \/ CancelRecoveries
    BY <1>2, CloseInv
  <1>3. CASE UNCHANGED vars
    <2>1. UNCHANGED <<pc, table, lock, holder, call, poison, ending, closed>>
      BY <1>3 DEF vars, lockVars
    <2> QED BY <2>1 DEF Inv, TypeOK, Locking, Named, LockTableExact, Users, Calls, Quarantined
  <1> QED BY <1>1, <1>2, <1>3 DEF Next

(* The invariant holds in every behaviour.                                 *)
LEMMA Invariance == Spec => []Inv
  BY InitInv, StepInv, PTL DEF Spec

-----------------------------------------------------------------------------
(* The state has its types.                                                *)
THEOREM TypeCorrect == Spec => []TypeOK
  <1>1. Inv => TypeOK BY DEF Inv
  <1> QED BY <1>1, Invariance, PTL

(* All users of a lane share one lock object and an unused shadow target   *)
(* has none, although locks are created and discarded on the fly.          *)
THEOREM LockTableIsExact == Spec => []LockTableExact
  <1>1. Inv => LockTableExact BY DEF Inv
  <1> QED BY <1>1, Invariance, PTL

(* No mutation of an open coordinator runs in the lane of another one      *)
(* whose provider call has not ended, even one that was given up.          *)
THEOREM LanesAreQuarantined == Spec => []Quarantine
  <1>1. ASSUME Inv PROVE Quarantine
    <2> SUFFICES ASSUME NEW c \in Clients, NEW d \in Clients, c # d, LaneOf[c] = LaneOf[d],
                        call[c] = "inside", pc[d] = "running", ~closed
                 PROVE  FALSE
      BY <1>1 DEF Quarantine, Inv, TypeOK
    <2>1. pc[c] = "running" \/ (pc[c] = "done" /\ c \in poison)
      BY <1>1 DEF Inv, TypeOK, Calls
    <2>2. CASE pc[c] = "running"
      BY <1>1, <2>2, LanesAreSerial DEF Inv
    <2>3. CASE c \in poison
      BY <1>1, <2>3 DEF Inv, Quarantined
    <2> QED BY <2>1, <2>2, <2>3
  <1> QED BY <1>1, Invariance, PTL

(* A client that was answered neither "unknown" nor that the coordinator   *)
(* is closed leaves no call behind (poison_*_until).                       *)
THEOREM NothingIsLeftBehind == Spec => []NothingLeftBehind
  <1>1. Inv => NothingLeftBehind BY DEF Inv, Calls, NothingLeftBehind
  <1> QED BY <1>1, Invariance, PTL

-----------------------------------------------------------------------------
(* The flights of the observations.                                        *)


(* A flight counts exactly the observers that wait for it, and they        *)
(* observe its key.                                                        *)
Counted ==
    \A o \in Observers :
        /\ \A f \in Observers : o \in waiters[f] <=> observer[o] = "waiting" /\ flight[o] = f
        /\ observer[o] = "waiting" => flight[o] \in Observers /\ KeyOf[flight[o]] = KeyOf[o]
        /\ observer[o] = "idle" => producer[o] = "none" /\ waiters[o] = {}

(* What a registered flight is.                                            *)
Registered ==
    \A k \in Keys :
        flights[k] # NoFlight =>
            /\ KeyOf[flights[k]] = k
            /\ producer[flights[k]] # "none"
            /\ waiters[flights[k]] # {}

(* What the task of a flight is doing.                                     *)
Tasks ==
    \A f \in Observers :
        /\ producer[f] = "none" => waiters[f] = {}
        /\ producer[f] = "running" =>
                waiters[f] # {} /\ (closing = "cleared" \/ flights[KeyOf[f]] = f)
        /\ producer[f] \in {"cancelling", "cancelled"} /\ closing \in {"open", "closed"} =>
                waiters[f] = {} /\ flights[KeyOf[f]] # f

NoneDropped ==
    closing \in {"open", "closed"} => \A o \in Observers : observer[o] # "dropped"

FlightInv ==
    /\ FlightTypeOK
    /\ Counted
    /\ Registered
    /\ Tasks
    /\ NoneDropped

-----------------------------------------------------------------------------
(* The initial states satisfy the invariant.                               *)
LEMMA FlightInitInv ==
    ASSUME SingleFlightAssumption
    PROVE  FlightInit => FlightInv
  BY DEF SingleFlightAssumption, FlightInit, FlightInv, FlightTypeOK, Counted, Registered, Tasks, NoneDropped

(* The constants' types.                                                   *)
LEMMA FlightConstants ==
    ASSUME SingleFlightAssumption
    PROVE  /\ \A o \in Observers : KeyOf[o] \in Keys /\ o # NoFlight
           /\ NoFlight \notin Observers
  BY DEF SingleFlightAssumption

(* The variables' types, for the steps below.                              *)
LEMMA FlightTypes ==
    ASSUME SingleFlightAssumption, FlightInv
    PROVE  /\ observer \in [Observers -> {"idle", "waiting", "answered", "dropped", "interrupted", "refused"}]
           /\ flight \in [Observers -> Observers \union {NoFlight}]
           /\ flights \in [Keys -> Observers \union {NoFlight}]
           /\ waiters \in [Observers -> SUBSET Observers]
           /\ waiters \in [Observers -> SUBSET {o \in Observers : observer[o] = "waiting"}]
           /\ producer \in [Observers -> {"none", "running", "cancelling", "done", "cancelled"}]
           /\ closing \in {"open", "closed", "draining", "cleared"}
  BY DEF FlightInv, FlightTypeOK, Counted

(* A refused observer changes nothing but itself.                          *)
LEMMA FlightRefuseInv ==
    ASSUME SingleFlightAssumption, FlightInv, NEW o \in Observers, RefuseObserver(o)
    PROVE  FlightInv'
  <1>1. /\ observer[o] = "idle" /\ observer' = [observer EXCEPT ![o] = "refused"]
        /\ UNCHANGED <<flight, flights, waiters, producer, closing>>
    BY DEF RefuseObserver
  <1>2. FlightTypeOK' /\ NoneDropped'
    BY <1>1, FlightTypes DEF FlightTypeOK, FlightInv, NoneDropped
  <1>3. Counted'
    BY <1>1, FlightTypes DEF FlightInv, Counted
  <1>4. Registered' /\ Tasks'
    BY <1>1 DEF FlightInv, Registered, Tasks
  <1> QED BY <1>2, <1>3, <1>4 DEF FlightInv

(* The first observer of a key registers a flight of its own.              *)
LEMMA StartInv ==
    ASSUME SingleFlightAssumption, FlightInv, NEW o \in Observers, Start(o)
    PROVE  FlightInv'
  <1>1. /\ observer[o] = "idle" /\ closing = "open" /\ closing' = "open"
        /\ flights[KeyOf[o]] = NoFlight
        /\ observer' = [observer EXCEPT ![o] = "waiting"]
        /\ flight' = [flight EXCEPT ![o] = o]
        /\ waiters' = [waiters EXCEPT ![o] = @ \union {o}]
        /\ flights' = [flights EXCEPT ![KeyOf[o]] = o]
        /\ producer' = [producer EXCEPT ![o] = "running"]
    BY DEF Start, Joins
  <1>2. producer[o] = "none" /\ waiters[o] = {} /\ KeyOf[o] \in Keys /\ waiters'[o] = {o}
    BY <1>1, FlightConstants, FlightTypes DEF FlightInv, Counted
  <1>3. FlightTypeOK'
    BY <1>1, <1>2, FlightTypes DEF FlightTypeOK
  <1>4. NoneDropped'
    BY <1>1, FlightTypes DEF FlightInv, NoneDropped
  <1>5. Counted'
    BY <1>1, <1>2, FlightTypes, FlightConstants DEF FlightInv, Counted
  <1>6. Registered'
    BY <1>1, <1>2, FlightTypes, FlightConstants DEF FlightInv, Registered
  <1>7. Tasks'
    BY <1>1, <1>2, FlightTypes, FlightConstants DEF FlightInv, Tasks
  <1> QED BY <1>3, <1>4, <1>5, <1>6, <1>7 DEF FlightInv

(* A later observer is counted by the registered flight.                   *)
LEMMA JoinInv ==
    ASSUME SingleFlightAssumption, FlightInv, NEW o \in Observers, Join(o)
    PROVE  FlightInv'
  <1> DEFINE f == flights[KeyOf[o]]
  <1>1. /\ observer[o] = "idle" /\ closing = "open" /\ closing' = "open"
        /\ f # NoFlight
        /\ observer' = [observer EXCEPT ![o] = "waiting"]
        /\ flight' = [flight EXCEPT ![o] = f]
        /\ waiters' = [waiters EXCEPT ![f] = @ \union {o}]
        /\ UNCHANGED <<flights, producer>>
    BY DEF Join, Joins
  <1>2. /\ KeyOf[o] \in Keys /\ f \in Observers /\ KeyOf[f] = KeyOf[o]
        /\ producer[f] # "none" /\ producer[o] = "none" /\ f # o /\ waiters[o] = {}
    BY <1>1, FlightConstants, FlightTypes DEF FlightInv, Counted, Registered
  <1>3. FlightTypeOK'
    BY <1>1, <1>2, FlightTypes DEF FlightTypeOK
  <1>4. NoneDropped'
    BY <1>1, FlightTypes DEF FlightInv, NoneDropped
  <1>5. Counted'
    BY <1>1, <1>2, FlightTypes, FlightConstants DEF FlightInv, Counted
  <1>6. Registered'
    BY <1>1, <1>2, FlightTypes, FlightConstants DEF FlightInv, Registered
  <1>7. Tasks'
    BY <1>1, <1>2, FlightTypes, FlightConstants DEF FlightInv, Tasks
  <1> QED BY <1>3, <1>4, <1>5, <1>6, <1>7 DEF FlightInv

(* A producer ends.                                                        *)
LEMMA ProduceInv ==
    ASSUME SingleFlightAssumption, FlightInv, NEW f \in Observers, Produce(f)
    PROVE  FlightInv'
  <1>1. /\ UNCHANGED <<observer, flight, flights, waiters, closing>>
        /\ producer[f] \in {"running", "cancelling"}
        /\ \/ producer' = [producer EXCEPT ![f] = "done"]
           \/ producer[f] = "cancelling" /\ producer' = [producer EXCEPT ![f] = "cancelled"]
    BY DEF Produce
  <1>2. FlightTypeOK' /\ NoneDropped'
    BY <1>1, FlightTypes DEF FlightTypeOK, FlightInv, NoneDropped
  <1>3. Counted'
    BY <1>1, FlightTypes DEF FlightInv, Counted
  <1>4. Registered'
    BY <1>1, FlightTypes DEF FlightInv, Registered
  <1>5. Tasks'
    BY <1>1, FlightTypes DEF FlightInv, Tasks
  <1> QED BY <1>2, <1>3, <1>4, <1>5 DEF FlightInv

(* The done callback unregisters a task that has ended.                    *)
LEMMA FlightFinishedInv ==
    ASSUME SingleFlightAssumption, FlightInv, NEW f \in Observers, FlightFinished(f)
    PROVE  FlightInv'
  <1>1. /\ UNCHANGED <<observer, flight, waiters, producer, closing>>
        /\ producer[f] \in {"done", "cancelled"}
        /\ flights' = [k \in Keys |-> IF flights[k] = f THEN NoFlight ELSE flights[k]]
    BY DEF FlightFinished, Ended, Unregister
  <1>2. FlightTypeOK' /\ NoneDropped' /\ Counted'
    BY <1>1, FlightTypes DEF FlightTypeOK, FlightInv, NoneDropped, Counted
  <1>3. Registered'
    BY <1>1, FlightTypes DEF FlightInv, Registered
  <1>4. Tasks'
    BY <1>1, FlightTypes, FlightConstants DEF FlightInv, Tasks
  <1> QED BY <1>2, <1>3, <1>4 DEF FlightInv

(* An observer leaves its flight, and the last one cancels the task.       *)
LEMMA LeaveInv ==
    ASSUME SingleFlightAssumption, FlightInv, NEW o \in Observers, observer[o] = "waiting", ReleaseWaiter(o),
           NEW how \in {"answered", "dropped", "interrupted"}, observer' = [observer EXCEPT ![o] = how],
           how = "dropped" => closing \notin {"open", "closed"},
           UNCHANGED <<flight, closing>>
    PROVE  FlightInv'
  <1> DEFINE f == flight[o]
  <1>1. f \in Observers /\ o \in waiters[f]
    BY FlightTypes DEF FlightInv, Counted
  <1>2. /\ waiters' = [waiters EXCEPT ![f] = @ \ {o}]
        /\ waiters[f] = {o} =>
              /\ producer' = [producer EXCEPT ![f] = Cancel(@)]
              /\ flights' = [k \in Keys |-> IF flights[k] = f THEN NoFlight ELSE flights[k]]
        /\ waiters[f] # {o} => producer' = producer /\ flights' = flights
    BY DEF ReleaseWaiter, Unregister
  <1>3. producer' \in [Observers -> {"none", "running", "cancelling", "done", "cancelled"}]
    BY <1>1, <1>2, FlightTypes DEF Cancel
  <1>4. flights' \in [Keys -> Observers \union {NoFlight}]
    BY <1>1, <1>2, FlightTypes
  <1>5. waiters' \in [Observers -> SUBSET {p \in Observers : observer'[p] = "waiting"}]
    BY <1>1, <1>2, FlightTypes DEF FlightInv, Counted
  <1>6. FlightTypeOK'
    BY <1>3, <1>4, <1>5, FlightTypes DEF FlightTypeOK
  <1>7. NoneDropped'
    BY FlightTypes DEF FlightInv, NoneDropped
  <1>8. Counted'
    <2>1. \A p, g \in Observers : p \in waiters'[g] <=> observer'[p] = "waiting" /\ flight'[p] = g
      BY <1>1, <1>2, FlightTypes DEF FlightInv, Counted
    <2>2. \A p \in Observers :
             observer'[p] = "waiting" => flight'[p] \in Observers /\ KeyOf[flight'[p]] = KeyOf[p]
      BY FlightTypes DEF FlightInv, Counted
    <2>3. ASSUME NEW p \in Observers, observer'[p] = "idle"
          PROVE  producer'[p] = "none" /\ waiters'[p] = {}
      <3>1. observer[p] = "idle" /\ producer[p] = "none" /\ waiters[p] = {}
        BY <2>3, FlightTypes DEF FlightInv, Counted
      <3>2. p # f
        BY <3>1, <1>1
      <3> QED BY <3>1, <3>2, <1>1, <1>2, FlightTypes
    <2> QED BY <2>1, <2>2, <2>3 DEF Counted
  <1>9. CASE waiters[f] = {o}
    <2>1. Registered'
      BY <1>9, <1>1, <1>2, FlightTypes, FlightConstants DEF FlightInv, Registered
    <2>2. Tasks'
      <3> SUFFICES ASSUME NEW g \in Observers
                   PROVE  /\ producer'[g] = "none" => waiters'[g] = {}
                          /\ producer'[g] = "running" =>
                                waiters'[g] # {} /\ (closing' = "cleared" \/ flights'[KeyOf[g]] = g)
                          /\ producer'[g] \in {"cancelling", "cancelled"} /\ closing' \in {"open", "closed"} =>
                                waiters'[g] = {} /\ flights'[KeyOf[g]] # g
        BY DEF Tasks
      <3>1. KeyOf[g] \in Keys /\ g # NoFlight
        BY FlightConstants
      <3>2. CASE g = f
        BY <3>1, <3>2, <1>9, <1>1, <1>2, FlightTypes DEF Cancel
      <3>3. CASE g # f
        BY <3>1, <3>3, <1>9, <1>1, <1>2, FlightTypes DEF FlightInv, Tasks
      <3> QED BY <3>2, <3>3
    <2> QED BY <2>1, <2>2, <1>6, <1>7, <1>8 DEF FlightInv
  <1>10. CASE waiters[f] # {o}
    <2>1. waiters'[f] # {} /\ \A g \in Observers : g # f => waiters'[g] = waiters[g]
      BY <1>10, <1>1, <1>2, FlightTypes
    <2>2. Registered'
      BY <2>1, <1>10, <1>1, <1>2, FlightTypes DEF FlightInv, Registered
    <2>3. Tasks'
      BY <2>1, <1>10, <1>1, <1>2, FlightTypes DEF FlightInv, Tasks
    <2> QED BY <2>2, <2>3, <1>6, <1>7, <1>8 DEF FlightInv
  <1> QED BY <1>9, <1>10

(* The observer is answered or interrupted.                                *)
LEMMA FlightLeavingInv ==
    ASSUME SingleFlightAssumption, FlightInv, NEW o \in Observers, Deliver(o) \/ Interrupt(o)
    PROVE  FlightInv'
  <1>1. CASE Interrupt(o)
    BY <1>1, LeaveInv DEF Interrupt
  <1>2. CASE Deliver(o)
    <2>1. /\ observer[o] = "waiting" /\ producer[flight[o]] \in {"done", "cancelled"}
          /\ ReleaseWaiter(o) /\ UNCHANGED <<flight, closing>>
      BY <1>2 DEF Deliver, Ended
    <2>2. CASE producer[flight[o]] = "done"
      <3>1. observer' = [observer EXCEPT ![o] = "answered"]
        BY <1>2, <2>2 DEF Deliver
      <3> QED BY <2>1, <3>1, LeaveInv
    <2>3. CASE producer[flight[o]] = "cancelled"
      <3>1. observer' = [observer EXCEPT ![o] = "dropped"]
        BY <1>2, <2>3 DEF Deliver
      <3>2. closing \notin {"open", "closed"}
        BY <2>1, <2>3, FlightTypes DEF FlightInv, Counted, Tasks
      <3> QED BY <2>1, <3>1, <3>2, LeaveInv
    <2> QED BY <2>1, <2>2, <2>3
  <1> QED BY <1>1, <1>2

(* Closing cancels and then forgets the registered flights.                *)
LEMMA FlightCloseInv ==
    ASSUME SingleFlightAssumption, FlightInv, CloseFlights \/ CancelFlights \/ ClearFlights
    PROVE  FlightInv'
  <1>1. observer' = observer /\ flight' = flight /\ waiters' = waiters
    BY DEF CloseFlights, CancelFlights, ClearFlights
  <1>2. CASE CloseFlights
    BY <1>1, <1>2 DEF CloseFlights, FlightInv, FlightTypeOK, Counted, Registered, Tasks, NoneDropped
  <1>3. CASE CancelFlights
    <2>1. /\ closing' = "draining" /\ flights' = flights
          /\ producer' = [g \in Observers |->
                IF flights[KeyOf[g]] = g THEN Cancel(producer[g]) ELSE producer[g]]
      BY <1>3 DEF CancelFlights
    <2>2. \A g \in Observers :
             /\ producer'[g] \in {"none", "running", "cancelling", "done", "cancelled"}
             /\ producer'[g] = "none" <=> producer[g] = "none"
             /\ producer'[g] # "running"
      <3>1. closing = "closed"
        BY <1>3 DEF CancelFlights
      <3> QED BY <3>1, <2>1, FlightTypes DEF Cancel, FlightInv, Tasks
    <2>3. producer' \in [Observers -> {"none", "running", "cancelling", "done", "cancelled"}]
      BY <2>1, <2>2
    <2>4. FlightTypeOK' /\ NoneDropped'
      BY <1>1, <2>1, <2>3, FlightTypes DEF FlightTypeOK, NoneDropped
    <2>5. Counted' /\ Registered' /\ Tasks'
      BY <1>1, <2>1, <2>2, FlightTypes DEF FlightInv, Counted, Registered, Tasks
    <2> QED BY <2>4, <2>5 DEF FlightInv
  <1>4. CASE ClearFlights
    <2>1. closing' = "cleared" /\ flights' = [k \in Keys |-> NoFlight] /\ producer' = producer
      BY <1>4 DEF ClearFlights
    <2>2. FlightTypeOK' /\ NoneDropped'
      BY <1>1, <2>1, FlightTypes DEF FlightTypeOK, NoneDropped
    <2>3. Counted' /\ Registered' /\ Tasks'
      BY <1>1, <2>1, FlightTypes DEF FlightInv, Counted, Registered, Tasks
    <2> QED BY <2>2, <2>3 DEF FlightInv
  <1> QED BY <1>2, <1>3, <1>4

(* Every step preserves the invariant.                                     *)
LEMMA FlightStepInv ==
    ASSUME SingleFlightAssumption
    PROVE  FlightInv /\ [FlightNext]_flightVars => FlightInv'
  <1> SUFFICES ASSUME FlightInv, [FlightNext]_flightVars PROVE FlightInv' OBVIOUS
  <1>1. ASSUME NEW o \in Observers, ObserverStep(o) PROVE FlightInv'
    BY <1>1, FlightRefuseInv, StartInv, JoinInv, ProduceInv, FlightFinishedInv, FlightLeavingInv
       DEF ObserverStep
  <1>2. CASE CloseFlights \/ CancelFlights \/ ClearFlights
    BY <1>2, FlightCloseInv
  <1>3. CASE UNCHANGED flightVars
    BY <1>3 DEF flightVars, FlightInv, FlightTypeOK, Counted, Registered, Tasks, NoneDropped
  <1> QED BY <1>1, <1>2, <1>3 DEF FlightNext

(* The invariant holds in every behaviour.                                 *)
LEMMA FlightInvariance ==
    ASSUME SingleFlightAssumption
    PROVE  FlightSpec => []FlightInv
  BY FlightInitInv, FlightStepInv, PTL DEF FlightSpec

-----------------------------------------------------------------------------
(* The state has its types.                                                *)
THEOREM FlightsTypeCorrect ==
    ASSUME SingleFlightAssumption
    PROVE  FlightSpec => []FlightTypeOK
  <1>1. FlightInv => FlightTypeOK BY DEF FlightInv
  <1> QED BY <1>1, FlightInvariance, PTL

(* Of the producers of a key at most one runs uncancelled, and the next    *)
(* observer will share it.                                                 *)
THEOREM OneProducerRuns ==
    ASSUME SingleFlightAssumption
    PROVE  FlightSpec => []OneProducer
  <1>1. FlightInv => OneProducer BY DEF FlightInv, Tasks, OneProducer
  <1> QED BY <1>1, FlightInvariance, PTL

(* No observer is cancelled because another one left.                      *)
THEOREM ObserversAreIsolated ==
    ASSUME SingleFlightAssumption
    PROVE  FlightSpec => []NoCollateral
  <1>1. ASSUME FlightInv PROVE NoCollateral
    <2> SUFFICES ASSUME closing \in {"open", "closed"}, NEW o \in Observers
                 PROVE  /\ observer[o] # "dropped"
                        /\ observer[o] = "waiting" => producer[flight[o]] \in {"running", "done"}
      BY DEF NoCollateral
    <2>1. observer[o] # "dropped"
      BY <1>1 DEF FlightInv, NoneDropped
    <2>2. ASSUME observer[o] = "waiting" PROVE producer[flight[o]] \in {"running", "done"}
      <3>1. flight[o] \in Observers /\ waiters[flight[o]] # {}
        BY <1>1, <2>2 DEF FlightInv, Counted
      <3> QED BY <1>1, <3>1, FlightTypes DEF FlightInv, Tasks
    <2> QED BY <2>1, <2>2
  <1> QED BY <1>1, FlightInvariance, PTL

(* Neither flights nor producers outlive the interest in them.             *)
THEOREM FlightsDoNotLeak ==
    ASSUME SingleFlightAssumption
    PROVE  FlightSpec => []NoLeak
  <1>1. ASSUME FlightInv PROVE NoLeak
    <2> SUFFICES ASSUME NEW f \in Observers, flights[KeyOf[f]] = f \/ producer[f] = "running"
                 PROVE  \E o \in Observers : observer[o] = "waiting" /\ flight[o] = f
      BY DEF NoLeak
    <2>1. waiters[f] # {} /\ waiters[f] \subseteq Observers
      BY <1>1, FlightConstants, FlightTypes DEF FlightInv, Registered, Tasks
    <2> QED BY <1>1, <2>1 DEF FlightInv, Counted
  <1> QED BY <1>1, FlightInvariance, PTL
=============================================================================
