------------------------- MODULE CdpConnectionProofs -------------------------
(***************************************************************************)
(* Proofs about CdpConnection, for any number of commands, tabs and        *)
(* transports: mutations are sent at most once and, where only the loss of *)
(* a transport looks like one, there is one transport at a time, and only  *)
(* its own commands fail with it.                                          *)
(***************************************************************************)
EXTENDS CdpConnection, FiniteSetTheorems, TLAPS

Pcs == {"idle", "ensure", "opening", "greeting", "held", "await", "reconnect",
        "closing", "retiring", "rebind", "rebound", "again", "over"}
Outcomes == {"none", "absent", "unreachable", "failed", "unknown",
             "lost again", "stale", "result", "given up"}
Locking == {"opening", "greeting", "closing", "retiring"}
Repeating == {"reconnect", "closing", "retiring", "rebind", "rebound", "again"}

(* Who is inside the connection lock holds it.                             *)
Owner == \A c \in Commands : pc[c] \in Locking => lock = c

(* Where a command is tells how often it was sent, whether it may be       *)
(* repeated, and that it has a session.                                    *)
Counted(c) ==
    /\ pc[c] \in {"idle", "ensure"} => held[c] = 0
    /\ pc[c] \in {"idle", "ensure", "held"} => tries[c] = 0
    /\ pc[c] \in {"opening", "greeting"} /\ held[c] = 0 => tries[c] = 0
    /\ pc[c] \in {"opening", "greeting"} /\ held[c] # 0 => c \in Idempotent
    /\ pc[c] \in Repeating => c \in Idempotent /\ held[c] # 0
    /\ pc[c] \in {"held", "await"} => held[c] # 0
    /\ pc[c] \notin {"again", "over"} => tries[c] <= 1
    /\ c \notin Idempotent => tries[c] <= 1
    /\ outcome[c] \in {"absent", "stale"} => tries[c] = 0
    /\ outcome[c] # "none" => pc[c] = "over"

(* The types of everything but where the commands are.                     *)
Rest ==
    /\ generation \in 0..MaxWires
    /\ connected \in BOOLEAN
    /\ ws \in {0, generation}
    /\ lock \in Commands \union {None}
    /\ loops \subseteq Wires
    /\ up \subseteq Wires
    /\ registered \subseteq Sessions
    /\ gen \in [Sessions -> 0..MaxWires]
    /\ bound \in [Targets -> 0..MaxWires]
    /\ open \subseteq Targets
    /\ disconnect \in {"no", "closing", "over"}
    /\ held \in [Commands -> 0..MaxWires]
    /\ pending \subseteq Commands \X Wires
    /\ reply \in [Commands -> {"none", "result", "failed", "lost", "closed"}]
    /\ tries \in [Commands -> 0..2]
    /\ via \in [Commands -> 0..MaxWires]

Inv == TypeOK /\ Owner /\ \A c \in Commands : Counted(c)

-----------------------------------------------------------------------------
(* The constants' types.                                                   *)
LEMMA ConstantFacts ==
    /\ MaxWires \in Nat /\ MaxWires >= 1
    /\ \A c \in Commands : TargetOf[c] \in Targets
    /\ None \notin Commands
  BY CdpConnectionAssumption

(* The current session of a tab is registered under the generation.        *)
LEMMA CurrentFacts ==
    ASSUME TypeOK, NEW t \in Targets
    PROVE  /\ Current(t) \in 0..MaxWires
           /\ Current(t) # 0 => /\ Current(t) \in Wires
                                /\ <<t, Current(t)>> \in registered
                                /\ gen[<<t, Current(t)>>] = generation
  <1>1. bound[t] \in 0..MaxWires /\ registered \subseteq Targets \X Wires
    BY DEF TypeOK, Sessions
  <1>2. <<t, bound[t]>> \in registered => bound[t] \in Wires
    BY <1>1
  <1> QED BY <1>1, <1>2, ConstantFacts DEF Current, Wires

(* Settling futures keeps their types, and only changes the replies of     *)
(* commands that wait.                                                     *)
LEMMA SettleFacts ==
    ASSUME TypeOK, NEW S, NEW how \in {"failed", "lost", "closed"}, Settle(S, how)
    PROVE  /\ pending' \subseteq Commands \X Wires
           /\ reply' \in [Commands -> {"none", "result", "failed", "lost", "closed"}]
           /\ \A c \in Commands :
                reply'[c] = reply[c] \/ (pc[c] \in Waiting /\ reply'[c] = how)
  <1>1. /\ pending \subseteq Commands \X Wires
        /\ reply \in [Commands -> {"none", "result", "failed", "lost", "closed"}]
    BY DEF TypeOK
  <1> QED BY <1>1 DEF Settle

(* The initial states satisfy the invariant.                               *)
LEMMA InitInv == Init => Inv
  <1> SUFFICES ASSUME Init PROVE Inv OBVIOUS
  <1>1. TypeOK
    <2>1. /\ generation \in 0..MaxWires
          /\ ws \in {0, generation} /\ lock \in Commands \union {None}
      BY ConstantFacts DEF Init
    <2>6. connected \in BOOLEAN
      BY DEF Init
    <2>5. /\ loops \subseteq Wires /\ up \subseteq Wires /\ open \subseteq Targets
          /\ disconnect \in {"no", "closing", "over"}
      BY DEF Init
    <2>2. /\ registered \subseteq Sessions
          /\ gen \in [Sessions -> 0..MaxWires]
          /\ bound \in [Targets -> 0..MaxWires]
      BY ConstantFacts DEF Init
    <2>3. /\ pc \in [Commands -> Pcs]
          /\ outcome \in [Commands -> Outcomes]
          /\ reply \in [Commands -> {"none", "result", "failed", "lost", "closed"}]
      BY DEF Init, Pcs, Outcomes
    <2>4. /\ held \in [Commands -> 0..MaxWires] /\ pending \subseteq Commands \X Wires
          /\ tries \in [Commands -> 0..2] /\ via \in [Commands -> 0..MaxWires]
      BY ConstantFacts DEF Init
    <2> QED BY <2>1, <2>2, <2>3, <2>4, <2>5, <2>6 DEF TypeOK, Pcs, Outcomes
  <1>2. Owner
    BY DEF Init, Owner, Locking
  <1>3. ASSUME NEW c \in Commands PROVE Counted(c)
    BY <1>3 DEF Init, Counted, Repeating
  <1> QED BY <1>1, <1>2, <1>3 DEF Inv

(* A step of one command that sends nothing keeps the counts, and those of *)
(* the others.                                                             *)
LEMMA CountedKept ==
    ASSUME Inv, NEW c \in Commands, NEW p \in Pcs, NEW o \in Outcomes,
           pc' = [pc EXCEPT ![c] = p],
           outcome' = [outcome EXCEPT ![c] = o],
           held' \in [Commands -> 0..MaxWires],
           \A d \in Commands \ {c} : held'[d] = held[d],
           tries' \in [Commands -> 0..2],
           \A d \in Commands \ {c} : tries'[d] = tries[d],
           Counted(c)'
    PROVE  \A d \in Commands : Counted(d)'
  <1>1. /\ pc \in [Commands -> Pcs] /\ outcome \in [Commands -> Outcomes]
    BY DEF Inv, TypeOK, Pcs, Outcomes
  <1>2. ASSUME NEW d \in Commands, d # c PROVE Counted(d)'
    <2>1. /\ pc'[d] = pc[d] /\ outcome'[d] = outcome[d]
          /\ held'[d] = held[d] /\ tries'[d] = tries[d]
      BY <1>1, <1>2
    <2> QED BY <2>1, <1>2 DEF Inv, Counted
  <1> QED BY <1>2

(* Taking a session or going on to repeat a command.                       *)
LEMMA ProceedFacts ==
    ASSUME Inv, NEW c \in Commands, Proceed(c),
           pc[c] \in {"idle", "ensure", "greeting", "reconnect"},
           UNCHANGED tries
    PROVE  /\ held' \in [Commands -> 0..MaxWires]
           /\ \A d \in Commands \ {c} : held'[d] = held[d]
           /\ \E p \in {"over", "held", "rebind"}, o \in {"absent", outcome[c]} :
                 /\ pc' = [pc EXCEPT ![c] = p]
                 /\ outcome' = [outcome EXCEPT ![c] = o]
           /\ Counted(c)'
  <1>1. /\ pc \in [Commands -> Pcs] /\ outcome \in [Commands -> Outcomes]
        /\ held \in [Commands -> 0..MaxWires] /\ tries \in [Commands -> 0..2]
    BY DEF Inv, TypeOK, Pcs, Outcomes
  <1>2. TargetOf[c] \in Targets /\ Current(TargetOf[c]) \in 0..MaxWires
    BY ConstantFacts, CurrentFacts DEF Inv
  <1>3. Counted(c) /\ outcome[c] = "none"
    BY <1>1 DEF Inv, Counted
  <1>4. CASE held[c] = 0 /\ Current(TargetOf[c]) = 0
    <2>1. /\ pc' = [pc EXCEPT ![c] = "over"] /\ held' = held
          /\ outcome' = [outcome EXCEPT ![c] = "absent"]
      BY <1>4 DEF Proceed, Hold, End
    <2> QED BY <2>1, <1>1, <1>3, <1>4 DEF Counted, Repeating
  <1>5. CASE held[c] = 0 /\ Current(TargetOf[c]) # 0
    <2>1. /\ pc' = [pc EXCEPT ![c] = "held"] /\ outcome' = outcome
          /\ held' = [held EXCEPT ![c] = Current(TargetOf[c])]
      BY <1>5 DEF Proceed, Hold, Goto
    <2>2. outcome' = [outcome EXCEPT ![c] = outcome[c]]
      BY <2>1, <1>1
    <2> QED BY <2>1, <2>2, <1>1, <1>2, <1>3, <1>5 DEF Counted, Repeating
  <1>6. CASE held[c] # 0
    <2>1. /\ pc' = [pc EXCEPT ![c] = "rebind"] /\ outcome' = outcome /\ held' = held
      BY <1>6 DEF Proceed, Goto
    <2>2. outcome' = [outcome EXCEPT ![c] = outcome[c]]
      BY <2>1, <1>1
    <2> QED BY <2>1, <2>2, <1>1, <1>3, <1>6 DEF Counted, Repeating
  <1> QED BY <1>4, <1>5, <1>6

(* A step of one command keeps the invariant if it keeps the types, counts *)
(* its own writes and takes or gives back the lock in its turn.            *)
LEMMA MoveInv ==
    ASSUME Inv, NEW c \in Commands, NEW p \in Pcs, NEW o \in Outcomes,
           pc' = [pc EXCEPT ![c] = p],
           outcome' = [outcome EXCEPT ![c] = o],
           \A d \in Commands \ {c} : held'[d] = held[d] /\ tries'[d] = tries[d],
           lock' = lock \/ lock \in {None, c},
           p \in Locking => lock' = c,
           Rest', Counted(c)'
    PROVE  Inv'
  <1>1. /\ pc \in [Commands -> Pcs] /\ outcome \in [Commands -> Outcomes]
    BY DEF Inv, TypeOK, Pcs, Outcomes
  <1>2. pc' \in [Commands -> Pcs] /\ outcome' \in [Commands -> Outcomes]
    BY <1>1
  <1>3. TypeOK'
    BY <1>2 DEF Rest, TypeOK, Pcs, Outcomes
  <1>4. held' \in [Commands -> 0..MaxWires] /\ tries' \in [Commands -> 0..2]
    BY DEF Rest
  <1>5. \A d \in Commands : Counted(d)'
    BY <1>4, CountedKept
  <1>6. ASSUME NEW d \in Commands, pc'[d] \in Locking PROVE lock' = d
    <2>1. CASE d = c
      BY <2>1, <1>1, <1>6
    <2>2. CASE d # c
      <3>1. pc[d] \in Locking /\ lock = d
        BY <2>2, <1>1, <1>6 DEF Inv, Owner
      <3> QED BY <3>1, <2>2, ConstantFacts
    <2> QED BY <2>1, <2>2
  <1> QED BY <1>3, <1>5, <1>6 DEF Inv, Owner

(* The types of a state, and an outcome left alone.                        *)
LEMMA RestFacts ==
    ASSUME Inv
    PROVE  /\ Rest
           /\ pc \in [Commands -> Pcs]
           /\ outcome \in [Commands -> Outcomes]
           /\ \A c \in Commands : outcome = [outcome EXCEPT ![c] = outcome[c]]
  <1>1. TypeOK BY DEF Inv
  <1>2. outcome \in [Commands -> Outcomes]
    BY <1>1 DEF TypeOK, Outcomes
  <1> QED BY <1>1, <1>2 DEF TypeOK, Rest, Pcs

(* The steps that take the lock or a session.                              *)
LEMMA EnterInv ==
    ASSUME Inv, NEW c \in Commands,
           Begin(c) \/ LockToConnect(c) \/ LockToReconnect(c) \/ Ready(c)
    PROVE  Inv'
  <1>1. /\ pc \in [Commands -> Pcs] /\ outcome \in [Commands -> Outcomes]
        /\ held \in [Commands -> 0..MaxWires] /\ tries \in [Commands -> 0..2]
        /\ outcome' = outcome => outcome' = [outcome EXCEPT ![c] = outcome[c]]
        /\ outcome[c] \in Outcomes
    BY DEF Inv, TypeOK, Pcs, Outcomes
  <1>2. UNCHANGED <<tries, via, generation, up, registered, gen, bound, open, disconnect>>
    BY DEF Begin, LockToConnect, LockToReconnect, Ready, transport, table
  <1>4. \/ Proceed(c) /\ lock' \in {lock, None} /\ UNCHANGED <<connected, ws, loops, pending, reply>>
           /\ (lock' = lock \/ lock = c)
        \/ /\ pc[c] = "idle" /\ Goto(c, "ensure")
           /\ UNCHANGED <<connected, ws, loops, pending, reply, lock, held>>
        \/ /\ pc[c] = "ensure" /\ Goto(c, "opening") /\ lock = None /\ lock' = c
           /\ UNCHANGED <<connected, ws, loops, pending, reply, held>>
        \/ /\ pc[c] = "reconnect" /\ \E p \in {"closing", "retiring"} : Goto(c, p)
           /\ lock = None /\ lock' = c /\ connected' = FALSE /\ ws' = 0
           /\ StopLoop /\ UNCHANGED held
    <2>1. CASE Begin(c)
      <3>1. CASE connected
        BY <2>1, <3>1 DEF Begin, Proceed, transport, Inv, Counted
      <3>2. CASE ~connected
        BY <2>1, <3>2 DEF Begin, transport
      <3> QED BY <3>1, <3>2
    <2>2. CASE LockToConnect(c)
      BY <2>2 DEF LockToConnect, transport
    <2>3. CASE LockToReconnect(c)
      BY <2>3 DEF LockToReconnect, transport
    <2>4. CASE Ready(c)
      BY <2>4 DEF Ready, transport, Inv, Owner, Locking
    <2> QED BY <2>1, <2>2, <2>3, <2>4
  <1>5. CASE /\ Proceed(c) /\ lock' \in {lock, None} /\ (lock' = lock \/ lock = c)
             /\ UNCHANGED <<connected, ws, loops, pending, reply>>
             /\ pc[c] \in {"idle", "ensure", "greeting", "reconnect"}
    <2>1. Rest'
      BY <1>1, <1>2, <1>5, ProceedFacts, RestFacts DEF Rest
    <2>2. PICK p \in {"over", "held", "rebind"}, o \in {"absent", outcome[c]} :
                 /\ pc' = [pc EXCEPT ![c] = p]
                 /\ outcome' = [outcome EXCEPT ![c] = o]
      BY <1>2, <1>5, ProceedFacts
    <2>3. /\ Counted(c)' /\ \A d \in Commands \ {c} : held'[d] = held[d]
      BY <1>2, <1>5, ProceedFacts
    <2>4. p \in Pcs /\ o \in Outcomes /\ p \notin Locking
      BY <1>1 DEF Pcs, Outcomes, Locking
    <2> QED BY <2>1, <2>2, <2>3, <2>4, <1>2, <1>5, MoveInv
  <1>6. CASE /\ pc[c] = "idle" /\ Goto(c, "ensure")
             /\ UNCHANGED <<connected, ws, loops, pending, reply, lock, held>>
    <2>1. Rest'
      BY <1>2, <1>6, RestFacts DEF Rest
    <2>2. /\ pc' = [pc EXCEPT ![c] = "ensure"]
          /\ outcome' = [outcome EXCEPT ![c] = outcome[c]]
      BY <1>6, <1>1 DEF Goto
    <2>3. Counted(c)'
      BY <2>2, <1>1, <1>2, <1>6 DEF Counted, Inv, Repeating
    <2> QED BY <2>1, <2>2, <2>3, <1>1, <1>2, <1>6, MoveInv DEF Pcs, Locking
  <1>7. CASE /\ pc[c] = "ensure" /\ Goto(c, "opening") /\ lock = None /\ lock' = c
             /\ UNCHANGED <<connected, ws, loops, pending, reply, held>>
    <2>1. Rest'
      BY <1>2, <1>7, RestFacts DEF Rest
    <2>2. /\ pc' = [pc EXCEPT ![c] = "opening"]
          /\ outcome' = [outcome EXCEPT ![c] = outcome[c]]
      BY <1>7, <1>1 DEF Goto
    <2>3. Counted(c)'
      BY <2>2, <1>1, <1>2, <1>7 DEF Counted, Inv, Repeating
    <2> QED BY <2>1, <2>2, <2>3, <1>1, <1>2, <1>7, MoveInv DEF Pcs, Locking
  <1>8. ASSUME pc[c] = "reconnect", NEW p \in {"closing", "retiring"}, Goto(c, p),
               lock = None, lock' = c, connected' = FALSE, ws' = 0,
               StopLoop, UNCHANGED held
        PROVE  Inv'
    <2>1. Rest'
      <3>1. /\ pending' \subseteq Commands \X Wires
            /\ reply' \in [Commands -> {"none", "result", "failed", "lost", "closed"}]
        BY <1>8, SettleFacts DEF StopLoop, Inv
      <3>2. loops' \subseteq Wires
        BY <1>8, RestFacts DEF StopLoop, Rest
      <3> QED BY <3>1, <3>2, <1>2, <1>8, RestFacts DEF Rest
    <2>2. /\ pc' = [pc EXCEPT ![c] = p]
          /\ outcome' = [outcome EXCEPT ![c] = outcome[c]]
      BY <1>8, <1>1 DEF Goto
    <2>3. Counted(c)'
      BY <2>2, <1>1, <1>2, <1>8 DEF Counted, Inv, Repeating
    <2> QED BY <2>1, <2>2, <2>3, <1>1, <1>2, <1>8, MoveInv DEF Pcs, Locking
  <1>9. pc[c] \in {"idle", "ensure", "greeting", "reconnect"}
    BY DEF Begin, LockToConnect, LockToReconnect, Ready
  <1> QED BY <1>4, <1>5, <1>6, <1>7, <1>8, <1>9

(* The steps inside the lock.                                              *)
LEMMA LockedInv ==
    ASSUME Inv, NEW c \in Commands,
           \/ RetireTransport(c) \/ RetireFails(c)
           \/ Open(c) \/ OpenFails(c) \/ ReadyFails(c)
    PROVE  Inv'
  <1>1. /\ pc \in [Commands -> Pcs] /\ outcome \in [Commands -> Outcomes]
        /\ held \in [Commands -> 0..MaxWires] /\ tries \in [Commands -> 0..2]
        /\ outcome = [outcome EXCEPT ![c] = outcome[c]]
        /\ outcome[c] \in Outcomes
        /\ Rest
    BY RestFacts DEF Rest
  <1>2. Counted(c) /\ (pc[c] \in Locking => lock = c)
    BY DEF Inv, Owner
  <1>3. CASE RetireTransport(c)
    <2> DEFINE retired == {s \in registered : gen[s] <= generation}
    <2>1. /\ pending' \subseteq Commands \X Wires
          /\ reply' \in [Commands -> {"none", "result", "failed", "lost", "closed"}]
      BY <1>3, SettleFacts DEF RetireTransport, Inv
    <2>2. /\ registered' \subseteq Sessions /\ up' \subseteq Wires
          /\ bound' \in [Targets -> 0..MaxWires]
      BY <1>1, <1>3, ConstantFacts DEF RetireTransport, Rest
    <2>3. Rest'
      BY <2>1, <2>2, <1>1, <1>3 DEF RetireTransport, Rest
    <2>4. /\ pc' = [pc EXCEPT ![c] = "opening"] /\ outcome' = outcome
          /\ held' = held /\ tries' = tries /\ lock' = lock /\ lock = c
      BY <1>2, <1>3 DEF RetireTransport, Goto, Locking
    <2>5. Counted(c)'
      BY <2>4, <1>1, <1>2, <1>3 DEF Counted, Repeating, RetireTransport
    <2> QED BY <2>3, <2>4, <2>5, <1>1, MoveInv DEF Pcs
  <1>4. CASE Open(c)
    <2>1. /\ pc' = [pc EXCEPT ![c] = "greeting"] /\ outcome' = outcome
          /\ held' = held /\ tries' = tries /\ lock' = lock /\ lock = c
      BY <1>2, <1>4 DEF Open, Goto, Locking
    <2>2. Counted(c)'
      BY <2>1, <1>1, <1>2, <1>4 DEF Counted, Repeating, Open
    <2>3. generation' \in 1..MaxWires /\ ws' = generation'
      BY <1>1, <1>4, ConstantFacts DEF Open, Rest
    <2>4. loops' \subseteq Wires /\ up' \subseteq Wires
      BY <2>3, <1>1, <1>4 DEF Open, Rest, Wires
    <2>5. Rest'
      BY <2>3, <2>4, <1>1, <1>4 DEF Open, Rest, table
    <2> QED BY <2>1, <2>2, <2>5, <1>1, MoveInv DEF Pcs
  <1>5. CASE RetireFails(c) \/ OpenFails(c) \/ ReadyFails(c)
    <2>1. /\ pc' = [pc EXCEPT ![c] = "over"]
          /\ outcome' = [outcome EXCEPT ![c] = "unreachable"]
          /\ held' = held /\ tries' = tries /\ lock' = None /\ lock = c
      BY <1>2, <1>5 DEF RetireFails, OpenFails, ReadyFails, End, Locking
    <2>2. Counted(c)'
      BY <2>1, <1>1, <1>2 DEF Counted, Repeating
    <2>3. Rest'
      <3>1. CASE RetireFails(c)
        BY <3>1, <1>1 DEF RetireFails, Rest, table
      <3>2. CASE OpenFails(c)
        BY <3>2, <1>1 DEF OpenFails, Rest, table, transport
      <3>3. CASE ReadyFails(c)
        <4>1. /\ pending' \subseteq Commands \X Wires
              /\ reply' \in [Commands -> {"none", "result", "failed", "lost", "closed"}]
          BY <3>3, SettleFacts DEF ReadyFails, StopLoop, Inv
        <4>2. loops' \subseteq Wires /\ up' \subseteq Wires
          BY <3>3, <1>1 DEF ReadyFails, StopLoop, Rest
        <4> QED BY <3>3, <4>1, <4>2, <1>1 DEF ReadyFails, Rest, table
      <3> QED BY <1>5, <3>1, <3>2, <3>3
    <2> QED BY <2>1, <2>2, <2>3, <1>1, MoveInv DEF Pcs, Outcomes, Locking
  <1> QED BY <1>3, <1>4, <1>5

(* A command that is written once more: what it may have become.           *)
LEMMA SendOnceInv ==
    ASSUME Inv, NEW c \in Commands, NEW w \in Wires, NEW then \in {"await", "again"},
           SendOnce(c, w, then),
           pc[c] \in {"held", "rebind", "rebound"},
           then = "await" <=> pc[c] = "held"
    PROVE  Inv'
  <1>1. /\ pc \in [Commands -> Pcs] /\ outcome \in [Commands -> Outcomes]
        /\ held \in [Commands -> 0..MaxWires] /\ tries \in [Commands -> 0..2]
        /\ via \in [Commands -> 0..MaxWires]
        /\ outcome = [outcome EXCEPT ![c] = outcome[c]]
        /\ outcome[c] \in Outcomes
        /\ Rest
    BY RestFacts DEF Rest
  <1>2. /\ Counted(c) /\ w # 0 /\ w \in 0..MaxWires /\ tries[c] <= 1 /\ outcome[c] = "none"
    BY ConstantFacts, <1>1 DEF Inv, Counted, Wires
  <1>3. held' = [held EXCEPT ![c] = w] /\ lock' = lock
    BY DEF SendOnce
  <1>4. tries' = tries \/ tries' = [tries EXCEPT ![c] = @ + 1]
    BY DEF SendOnce
  <1>5. Rest'
    <2>1. pending' \subseteq Commands \X Wires
      BY <1>1 DEF SendOnce, Rest
    <2>2. tries' \in [Commands -> 0..2]
      BY <1>1, <1>2, <1>4
    <2>3. via' \in [Commands -> 0..MaxWires]
      BY <1>1 DEF SendOnce, Rest
    <2>4. connected' \in BOOLEAN
      BY <1>1 DEF SendOnce, Rest, Fail, Disconnected, MarkDisconnected
    <2>5. held' \in [Commands -> 0..MaxWires]
      BY <1>1, <1>2, <1>3
    <2> QED BY <2>1, <2>2, <2>3, <2>4, <2>5, <1>1, <1>3 DEF SendOnce, Rest, table
  <1>12. /\ tries[c] = 0 \/ tries[c] = 1
         /\ tries[c] = 0 => tries'[c] = 0 \/ tries'[c] = 1
         /\ tries[c] = 1 => tries'[c] = 1 \/ tries'[c] = 2
    <2>1. tries[c] \in 0..2 /\ tries[c] <= 1
      BY <1>1, <1>2
    <2>2. tries'[c] = tries[c] \/ tries'[c] = tries[c] + 1
      BY <1>1, <1>4
    <2>3. tries[c] = 0 \/ tries[c] = 1
      BY <2>1, SMT
    <2> QED BY <2>2, <2>3, SMT
  <1>13. pc[c] = "held" => tries'[c] <= 1
    <2>1. pc[c] = "held" => tries[c] = 0
      BY <1>2 DEF Counted
    <2> QED BY <2>1, <1>12
  <1>6. \E p \in {"over", "reconnect", then}, o \in {"none", "failed", "unknown", "lost again"} :
           /\ pc' = [pc EXCEPT ![c] = p]
           /\ outcome' = [outcome EXCEPT ![c] = o]
           /\ p # "over" => o = "none"
           /\ p = "reconnect" => c \in Idempotent
    BY <1>1, <1>2 DEF SendOnce, Fail, Disconnected, Goto, End
  <1>7. PICK p \in {"over", "reconnect", then}, o \in {"none", "failed", "unknown", "lost again"} :
           /\ pc' = [pc EXCEPT ![c] = p]
           /\ outcome' = [outcome EXCEPT ![c] = o]
           /\ p # "over" => o = "none"
           /\ p = "reconnect" => c \in Idempotent
    BY <1>6
  <1>9. pc[c] # "held" => c \in Idempotent
    BY <1>2 DEF Counted, Repeating
  <1>10. p = "reconnect" => pc[c] = "held"
    BY <1>7, <1>1 DEF SendOnce, Fail, Disconnected, Goto, End
  <1>11. Counted(c)'
    <2>1. pc'[c] = p /\ outcome'[c] = o /\ held'[c] = w
      BY <1>1, <1>3, <1>7
    <2>2. /\ p \notin {"again", "over"} => tries'[c] <= 1
          /\ c \notin Idempotent => tries'[c] <= 1
      BY <1>7, <1>9, <1>10, <1>13, Zenon
    <2> QED BY <2>1, <2>2, <1>2, <1>7, <1>9, <1>10 DEF Counted, Repeating
  <1> QED BY <1>1, <1>3, <1>4, <1>5, <1>7, <1>11, MoveInv DEF Pcs, Outcomes, Locking

(* Sending, and what follows.                                              *)
LEMMA SendInv ==
    ASSUME Inv, NEW c \in Commands, Send(c) \/ Retry(c)
    PROVE  Inv'
  <1> DEFINE now == Current(TargetOf[c])
  <1>1. now # 0 => now \in Wires
    BY CurrentFacts, ConstantFacts DEF Inv
  <1>2. pc[c] \in {"held", "rebound"} => held[c] \in Wires
    BY RestFacts, ConstantFacts DEF Inv, Counted, Repeating, Wires, Rest
  <1>3. CASE Send(c)
    <2>1. PICK w \in Wires : SendOnce(c, w, "await")
      BY <1>1, <1>2, <1>3 DEF Send
    <2> QED BY <2>1, <1>3, SendOnceInv DEF Send
  <1>4. CASE Retry(c)
    <2>1. PICK w \in Wires : SendOnce(c, w, "again")
      BY <1>1, <1>2, <1>4 DEF Retry
    <2> QED BY <2>1, <1>4, SendOnceInv DEF Retry
  <1> QED BY <1>3, <1>4

(* The end of an attempt.                                                  *)
LEMMA EndInv ==
    ASSUME Inv, NEW c \in Commands, Reject(c) \/ Resume(c) \/ GiveUp(c)
    PROVE  Inv'
  <1>1. /\ pc \in [Commands -> Pcs] /\ outcome \in [Commands -> Outcomes]
        /\ held \in [Commands -> 0..MaxWires] /\ tries \in [Commands -> 0..2]
        /\ reply \in [Commands -> {"none", "result", "failed", "lost", "closed"}]
        /\ outcome = [outcome EXCEPT ![c] = outcome[c]]
        /\ outcome[c] \in Outcomes
        /\ Rest
    BY RestFacts DEF Rest
  <1>2. Counted(c) /\ lock' = lock /\ held' = held /\ tries' = tries
    BY DEF Inv, Reject, Resume, GiveUp
  <1>3. Rest'
    <2>1. CASE Reject(c)
      BY <2>1, <1>1 DEF Reject, Rest, transport, table
    <2>2. CASE Resume(c)
      <3>1. connected' \in BOOLEAN
        BY <2>2, <1>1 DEF Resume, Rest, Fail, Disconnected, MarkDisconnected
      <3>2. reply' \in [Commands -> {"none", "result", "failed", "lost", "closed"}]
        BY <2>2, <1>1 DEF Resume
      <3> QED BY <2>2, <3>1, <3>2, <1>1 DEF Resume, Rest, table
    <2>3. CASE GiveUp(c)
      BY <2>3, <1>1 DEF GiveUp, Rest, transport, table
    <2> QED BY <2>1, <2>2, <2>3
  <1>4. \E p \in {"over", "reconnect"},
           o \in {"none", "stale", "result", "failed", "unknown", "lost again", "given up"} :
           /\ pc' = [pc EXCEPT ![c] = p]
           /\ outcome' = [outcome EXCEPT ![c] = o]
           /\ p # "over" => o = "none" /\ c \in Idempotent /\ pc[c] = "await"
           /\ o = "stale" => tries[c] = 0
    <2>1. CASE Reject(c)
      BY <2>1, <1>2 DEF Reject, End, Counted
    <2>2. CASE Resume(c)
      <3>1. pc[c] \in {"await", "again"} /\ outcome[c] = "none"
        BY <2>2, <1>1, <1>2 DEF Resume, Waiting, Counted
      <3> QED BY <2>2, <3>1, <1>1 DEF Resume, End, Fail, Disconnected, Goto
    <2>3. CASE GiveUp(c)
      BY <2>3 DEF GiveUp, End
    <2> QED BY <2>1, <2>2, <2>3
  <1>5. PICK p \in {"over", "reconnect"},
           o \in {"none", "stale", "result", "failed", "unknown", "lost again", "given up"} :
           /\ pc' = [pc EXCEPT ![c] = p]
           /\ outcome' = [outcome EXCEPT ![c] = o]
           /\ p # "over" => o = "none" /\ c \in Idempotent /\ pc[c] = "await"
           /\ o = "stale" => tries[c] = 0
    BY <1>4
  <1>6. Counted(c)'
    <2>1. pc'[c] = p /\ outcome'[c] = o /\ held'[c] = held[c] /\ tries'[c] = tries[c]
      BY <1>1, <1>2, <1>5
    <2> QED BY <2>1, <1>2, <1>5 DEF Counted, Repeating
  <1> QED BY <1>1, <1>2, <1>3, <1>5, <1>6, MoveInv DEF Pcs, Outcomes, Locking

(* The read loop and the browser.                                          *)
LEMMA BrowserInv ==
    ASSUME Inv, Browser
    PROVE  Inv'
  <1>1. /\ pc \in [Commands -> Pcs] /\ outcome \in [Commands -> Outcomes]
        /\ held \in [Commands -> 0..MaxWires] /\ tries \in [Commands -> 0..2]
        /\ reply \in [Commands -> {"none", "result", "failed", "lost", "closed"}]
        /\ Rest
    BY RestFacts DEF Rest
  <1>2. tries' = tries /\ outcome' = outcome /\ lock' = lock
    BY DEF Browser, LoseWire, EndLoop, Attached, Detached, Respond, commands, vars
  <1>3. ASSUME Rest', pc' \in [Commands -> Pcs],
               \A c \in Commands :
                  \/ pc'[c] = pc[c] /\ held'[c] = held[c]
                  \/ pc[c] = "rebind" /\ pc'[c] = "rebound" /\ held'[c] \in Wires
        PROVE  Inv'
    <2>1. TypeOK'
      BY <1>1, <1>2, <1>3 DEF Rest, TypeOK, Pcs, Outcomes
    <2>2. Owner'
      BY <1>2, <1>3 DEF Inv, Owner, Locking
    <2>3. ASSUME NEW c \in Commands PROVE Counted(c)'
      <3>1. CASE pc'[c] = pc[c] /\ held'[c] = held[c]
        BY <3>1, <1>2 DEF Inv, Counted
      <3>2. CASE pc[c] = "rebind" /\ pc'[c] = "rebound" /\ held'[c] \in Wires
        BY <3>2, <1>2, ConstantFacts DEF Inv, Counted, Repeating, Wires
      <3> QED BY <3>1, <3>2, <1>3
    <2> QED BY <2>1, <2>2, <2>3 DEF Inv
  <1>4. ASSUME NEW w \in Wires, LoseWire(w) PROVE Inv'
    <2>1. Rest' /\ pc' = pc /\ held' = held
      BY <1>1, <1>4 DEF LoseWire, Rest, table, commands
    <2> QED BY <2>1, <1>1, <1>3
  <1>5. ASSUME NEW w \in Wires, EndLoop(w) PROVE Inv'
    <2>1. /\ pending' \subseteq Commands \X Wires
          /\ reply' \in [Commands -> {"none", "result", "failed", "lost", "closed"}]
      BY <1>5, SettleFacts DEF EndLoop, Inv
    <2>2. loops' \subseteq Wires /\ connected' \in BOOLEAN
      BY <1>1, <1>5 DEF EndLoop, Rest
    <2>3. Rest' /\ pc' = pc /\ held' = held
      BY <2>1, <2>2, <1>1, <1>5 DEF EndLoop, Rest, table
    <2> QED BY <2>3, <1>1, <1>3
  <1>6. ASSUME NEW t \in Targets, NEW w \in Wires, Attached(t, w) PROVE Inv'
    <2>1. /\ pending' \subseteq Commands \X Wires
          /\ reply' \in [Commands -> {"none", "result", "failed", "lost", "closed"}]
      BY <1>6, SettleFacts DEF Attached, Inv
    <2>2. /\ registered' \subseteq Sessions
          /\ gen' \in [Sessions -> 0..MaxWires]
          /\ bound' \in [Targets -> 0..MaxWires]
          /\ held' \in [Commands -> 0..MaxWires]
      BY <1>1, <1>6, ConstantFacts DEF Attached, Rest, Sessions, Wires
    <2>3. Rest'
      BY <2>1, <2>2, <1>1, <1>6 DEF Attached, Rest, transport
    <2>4. /\ pc' \in [Commands -> Pcs]
          /\ \A c \in Commands :
                  \/ pc'[c] = pc[c] /\ held'[c] = held[c]
                  \/ pc[c] = "rebind" /\ pc'[c] = "rebound" /\ held'[c] \in Wires
      BY <1>1, <1>6 DEF Attached, Pcs
    <2> QED BY <2>3, <2>4, <1>3
  <1>7. ASSUME NEW t \in Targets, NEW w \in Wires, Detached(t, w) PROVE Inv'
    <2>1. /\ pending' \subseteq Commands \X Wires
          /\ reply' \in [Commands -> {"none", "result", "failed", "lost", "closed"}]
      BY <1>7, SettleFacts DEF Detached, Inv
    <2>2. /\ registered' \subseteq Sessions
          /\ bound' \in [Targets -> 0..MaxWires]
          /\ open' \subseteq Targets
      BY <1>1, <1>7, ConstantFacts DEF Detached, Rest
    <2>3. Rest' /\ pc' = pc /\ held' = held
      BY <2>1, <2>2, <1>1, <1>7 DEF Detached, Rest, transport
    <2> QED BY <2>3, <1>1, <1>3
  <1>8. ASSUME NEW c \in Commands, NEW w \in Wires, Respond(c, w) PROVE Inv'
    <2>1. /\ pending' \subseteq Commands \X Wires
          /\ reply' \in [Commands -> {"none", "result", "failed", "lost", "closed"}]
      BY <1>1, <1>8 DEF Respond, Rest
    <2>2. Rest' /\ pc' = pc /\ held' = held
      BY <2>1, <1>1, <1>8 DEF Respond, Rest, transport, table
    <2> QED BY <2>2, <1>1, <1>3
  <1> QED BY <1>4, <1>5, <1>6, <1>7, <1>8 DEF Browser

(* The shutdown.                                                           *)
LEMMA ShutdownInv ==
    ASSUME Inv, Disconnect \/ Forget
    PROVE  Inv'
  <1>1. /\ pc \in [Commands -> Pcs] /\ outcome \in [Commands -> Outcomes]
        /\ Rest
    BY RestFacts DEF Rest
  <1>2. CASE Disconnect
    <2>1. /\ pending' \subseteq Commands \X Wires
          /\ reply' \in [Commands -> {"none", "result", "failed", "lost", "closed"}]
      BY <1>2, SettleFacts DEF Disconnect, StopLoop, Inv
    <2>2. loops' \subseteq Wires /\ up' \subseteq Wires
      BY <1>1, <1>2 DEF Disconnect, StopLoop, Rest
    <2>3. Rest'
      BY <2>1, <2>2, <1>1, <1>2 DEF Disconnect, Rest, table
    <2>4. TypeOK' /\ Owner'
      BY <2>3, <1>1, <1>2 DEF Disconnect, Rest, TypeOK, Pcs, Outcomes, Inv, Owner
    <2>5. \A c \in Commands : Counted(c)'
      BY <1>2 DEF Disconnect, Inv, Counted
    <2> QED BY <2>4, <2>5 DEF Inv
  <1>3. CASE Forget
    <2>1. bound' = [t \in Targets |-> 0] /\ registered' = {} /\ ws' = 0
      BY <1>3 DEF Forget
    <2>8. 0 \in 0..MaxWires
      BY ConstantFacts
    <2>7. bound' \in [Targets -> 0..MaxWires] /\ registered' \subseteq Sessions
      BY <2>1, <2>8
    <2>2. Rest'
      BY <2>1, <2>7, <1>1, <1>3 DEF Forget, Rest
    <2>3. pc' \in [Commands -> Pcs] /\ outcome' \in [Commands -> Outcomes]
      BY <1>1, <1>3 DEF Forget, Pcs, Outcomes
    <2>4. TypeOK'
      BY <2>2, <2>3 DEF Rest, TypeOK, Pcs, Outcomes
    <2>5. Owner'
      BY <1>1, <1>3 DEF Forget, Inv, Owner, Locking
    <2>6. ASSUME NEW c \in Commands PROVE Counted(c)'
      <3>1. CASE pc[c] = "rebind"
        <4>1. pc'[c] = "over" /\ outcome'[c] = "given up" /\ tries'[c] = tries[c]
          BY <1>3, <3>1 DEF Forget
        <4> QED BY <3>1, <4>1 DEF Inv, Counted, Repeating
      <3>2. CASE pc[c] # "rebind"
        <4>1. pc'[c] = pc[c] /\ outcome'[c] = outcome[c] /\ tries'[c] = tries[c]
              /\ held'[c] = held[c]
          BY <1>3, <3>2 DEF Forget
        <4> QED BY <4>1 DEF Inv, Counted
      <3> QED BY <3>1, <3>2
    <2> QED BY <2>4, <2>5, <2>6 DEF Inv
  <1> QED BY <1>2, <1>3

(* The invariant is inductive.                                             *)
LEMMA NextInv == Inv /\ [Next]_vars => Inv'
  <1> SUFFICES ASSUME Inv, [Next]_vars PROVE Inv' OBVIOUS
  <1>1. ASSUME NEW c \in Commands, CommandStep(c) PROVE Inv'
    BY <1>1, EnterInv, LockedInv, SendInv, EndInv DEF CommandStep
  <1>2. CASE UNCHANGED vars
    BY <1>2 DEF vars, transport, table, commands, Inv, TypeOK, Owner, Counted
  <1> QED BY <1>1, <1>2, BrowserInv, ShutdownInv DEF Next

(* Every variable keeps its type: commands, sessions and the transport.    *)
THEOREM TypeCorrect == Spec => []TypeOK
  <1>1. Inv => TypeOK BY DEF Inv
  <1> QED BY <1>1, InitInv, NextInv, PTL DEF Spec

(* A mutation goes to a websocket at most once and never when its caller   *)
(* is told that it was not sent; a read is repeated once.                  *)
THEOREM CommandsAreSentOnce == Spec => []SentOnce
  <1>1. ASSUME Inv PROVE SentOnce
    <2>1. \A c \in Commands : tries[c] <= 2
      BY <1>1, RestFacts DEF Rest
    <2> QED BY <1>1, <2>1 DEF Inv, Counted, SentOnce
  <1> QED BY <1>1, InitInv, NextInv, PTL DEF Spec

-----------------------------------------------------------------------------
(* From here on: where only the loss of a transport looks like one.  The   *)
(* only transport that may be open is the current one, and a connection    *)
(* that is not marked as connected has none.                               *)
Single ==
    /\ up \subseteq {generation}
    /\ loops \subseteq {generation}
    /\ \A t \in Targets, w \in Wires :
          /\ gen[<<t, w>>] \in {0, w}
          /\ gen[<<t, w>>] <= generation
          /\ <<t, w>> \in registered => gen[<<t, w>>] = w
    /\ ~connected => up = {}
    /\ disconnect = "no" /\ ws = 0 => up = {}

(* What a command has met: its session is of the generation of its         *)
(* transport, and whatever it saw lost is down.                            *)
Met(c) ==
    /\ held[c] # 0 => gen[SessionOf(c, held[c])] = held[c]
    /\ held[c] <= generation
    /\ via[c] <= generation
    /\ pc[c] \in {"opening", "closing", "retiring"} => up = {}
    /\ pc[c] = "reconnect" /\ held[c] = generation => up = {}
    /\ pc[c] \notin Waiting => reply[c] = "none"
    /\ reply[c] # "closed"
    /\ reply[c] = "lost" => via[c] \notin up /\ (held[c] = generation => up = {})
    /\ outcome[c] \in {"unknown", "lost again"} => via[c] \notin up

Transport == Single /\ \A c \in Commands : Met(c)

(* A command that a step leaves where it was, perhaps with an answer.      *)
LEMMA MetKept ==
    ASSUME NEW c \in Commands, Met(c), up' \subseteq up, generation' = generation,
           pc'[c] = pc[c], held'[c] = held[c], via'[c] = via[c], outcome'[c] = outcome[c],
           held[c] # 0 => gen'[SessionOf(c, held[c])] = gen[SessionOf(c, held[c])],
           \/ reply'[c] = reply[c]
           \/ pc[c] \in Waiting /\ reply'[c] \in {"failed", "result"}
           \/ pc[c] \in Waiting /\ reply'[c] = "lost" /\ up' = {}
    PROVE  Met(c)'
  BY DEF Met, SessionOf

(* The initial states.                                                     *)
LEMMA InitTransport == Init => Transport
  BY ConstantFacts DEF Init, Transport, Single, Met, Sessions, SessionOf, Waiting, Wires

(* The types of what a command holds.                                      *)
LEMMA SessionFacts ==
    ASSUME Inv, NEW c \in Commands
    PROVE  /\ held[c] \in Nat /\ via[c] \in Nat
           /\ held[c] # 0 => held[c] \in Wires /\ SessionOf(c, held[c]) \in Sessions
  <1>1. held[c] \in 0..MaxWires /\ via[c] \in 0..MaxWires
    BY RestFacts DEF Rest
  <1> QED BY <1>1, ConstantFacts DEF Wires, Sessions, SessionOf

(* What the transport's invariant says where the types are known.          *)
LEMMA TransportFacts ==
    ASSUME Inv, Transport
    PROVE  /\ generation \in Nat /\ ws \in {0, generation}
           /\ ws # 0 /\ ws \notin up => up = {}
  <1>1. generation \in Nat /\ ws \in {0, generation}
    BY RestFacts, ConstantFacts DEF Rest
  <1> QED BY <1>1 DEF Transport, Single

(* The steps that take the lock or a session.                              *)
LEMMA EnterTransport ==
    ASSUME Inv, Transport, NEW c \in Commands,
           Begin(c) \/ LockToConnect(c) \/ LockToReconnect(c) \/ Ready(c)
    PROVE  Transport'
  <1>1. /\ pc \in [Commands -> Pcs] /\ outcome \in [Commands -> Outcomes]
        /\ held \in [Commands -> 0..MaxWires]
        /\ generation \in Nat
    BY RestFacts, TransportFacts DEF Rest
  <1>2. UNCHANGED <<tries, via, generation, up, registered, gen, bound, open, disconnect>>
    BY DEF Begin, LockToConnect, LockToReconnect, Ready, transport, table
  <1>3. Met(c) /\ outcome[c] = "none" /\ pc[c] \notin Waiting
    BY <1>1 DEF Transport, Inv, Counted, Begin, LockToConnect, LockToReconnect, Ready, Waiting
  <1>4. CASE /\ Proceed(c)
             /\ UNCHANGED <<connected, ws, loops, pending, reply>>
    <2>1. Single'
      BY <1>2, <1>4 DEF Transport, Single
    <2>2. ASSUME NEW d \in Commands, d # c PROVE Met(d)'
      <3>1. pc'[d] = pc[d] /\ held'[d] = held[d] /\ outcome'[d] = outcome[d]
        BY <1>1, <1>4, <2>2 DEF Proceed, Hold, End, Goto
      <3> QED BY <3>1, <1>2, <1>4, MetKept DEF Transport
    <2>3. /\ pc'[c] \in {"over", "held", "rebind"}
          /\ outcome'[c] \in {"none", "absent"}
          /\ held'[c] = held[c] \/ (held'[c] = Current(TargetOf[c]) /\ Current(TargetOf[c]) # 0)
      BY <1>1, <1>3, <1>4 DEF Proceed, Hold, End, Goto
    <2>4. ASSUME Current(TargetOf[c]) # 0
          PROVE  /\ gen[SessionOf(c, Current(TargetOf[c]))] = Current(TargetOf[c])
                 /\ Current(TargetOf[c]) <= generation
      <3>1. /\ TargetOf[c] \in Targets /\ Current(TargetOf[c]) \in Wires
            /\ <<TargetOf[c], Current(TargetOf[c])>> \in registered
            /\ gen[<<TargetOf[c], Current(TargetOf[c])>>] = generation
        BY <2>4, CurrentFacts, ConstantFacts DEF Inv
      <3> QED BY <3>1, <1>1 DEF Transport, Single, SessionOf
    <2>5. Met(c)'
      BY <1>2, <1>3, <1>4, <2>3, <2>4 DEF Met, SessionOf, Waiting
    <2> QED BY <2>1, <2>2, <2>5 DEF Transport
  <1>5. ASSUME NEW p \in {"ensure", "opening"}, Goto(c, p),
               p = "opening" => ~connected,
               UNCHANGED <<connected, ws, loops, pending, reply, held>>
        PROVE  Transport'
    <2>1. Single'
      BY <1>2, <1>5 DEF Transport, Single
    <2>2. ASSUME NEW d \in Commands, d # c PROVE Met(d)'
      <3>1. pc'[d] = pc[d] /\ held'[d] = held[d] /\ outcome'[d] = outcome[d]
        BY <1>1, <1>5, <2>2 DEF Goto
      <3> QED BY <3>1, <1>2, <1>5, MetKept DEF Transport
    <2>3. pc'[c] = p /\ outcome' = outcome /\ (p = "opening" => up = {})
      BY <1>1, <1>5 DEF Goto, Transport, Single
    <2>4. Met(c)'
      BY <1>2, <1>3, <1>5, <2>3 DEF Met, SessionOf, Waiting
    <2> QED BY <2>1, <2>2, <2>4 DEF Transport
  <1>6. ASSUME NEW p \in {"closing", "retiring"}, Goto(c, p), pc[c] = "reconnect",
               Failed(c), connected' = FALSE, ws' = 0, StopLoop, UNCHANGED held
        PROVE  Transport'
    <2>1. up = {}
      <3>1. held[c] # 0
        BY <1>6 DEF Inv, Counted, Repeating
      <3> QED BY <3>1, <1>3, <1>6 DEF Met, Failed
    <2>2. Single'
      BY <1>2, <1>6, <2>1 DEF Transport, Single, StopLoop
    <2>3. ASSUME NEW d \in Commands
          PROVE  reply'[d] = reply[d] \/ (pc[d] \in Waiting /\ reply'[d] = "lost")
      BY <1>6, SettleFacts DEF StopLoop, Inv
    <2>4. ASSUME NEW d \in Commands, d # c PROVE Met(d)'
      <3>1. pc'[d] = pc[d] /\ held'[d] = held[d] /\ outcome'[d] = outcome[d]
        BY <1>1, <1>6, <2>4 DEF Goto
      <3> QED BY <3>1, <1>2, <2>1, <2>3, MetKept DEF Transport
    <2>5. pc'[c] = p /\ outcome' = outcome /\ reply'[c] = reply[c]
      BY <1>1, <1>3, <1>6, <2>3 DEF Goto
    <2>6. Met(c)'
      BY <1>2, <1>3, <1>6, <2>1, <2>5 DEF Met, SessionOf, Waiting
    <2> QED BY <2>2, <2>4, <2>6 DEF Transport
  <1>7. CASE Begin(c)
    <2>1. held[c] = 0
      BY <1>7 DEF Begin, Inv, Counted
    <2> QED BY <1>4, <1>5, <1>7, <2>1 DEF Begin, Proceed, transport
  <1>8. CASE LockToConnect(c)
    BY <1>4, <1>5, <1>8 DEF LockToConnect, transport
  <1>9. CASE LockToReconnect(c)
    BY <1>4, <1>6, <1>9 DEF LockToReconnect, transport
  <1>10. CASE Ready(c)
    BY <1>4, <1>10 DEF Ready, transport
  <1> QED BY <1>7, <1>8, <1>9, <1>10

(* The steps inside the lock.                                              *)
LEMMA LockedTransport ==
    ASSUME Inv, Transport, NEW c \in Commands,
           \/ RetireTransport(c) \/ RetireFails(c)
           \/ Open(c) \/ OpenFails(c) \/ ReadyFails(c)
    PROVE  Transport'
  <1>1. /\ pc \in [Commands -> Pcs] /\ outcome \in [Commands -> Outcomes]
        /\ held \in [Commands -> 0..MaxWires]
        /\ generation \in Nat
    BY RestFacts, TransportFacts DEF Rest
  <1>2. Met(c) /\ pc[c] \notin Waiting /\ outcome[c] = "none"
    BY <1>1 DEF Transport, Inv, Counted, RetireTransport, RetireFails, Open, OpenFails,
                ReadyFails, Waiting
  <1>3. UNCHANGED <<via, held, gen>>
    BY DEF RetireTransport, RetireFails, Open, OpenFails, ReadyFails, table
  <1>4. CASE RetireTransport(c)
    <2>1. up = {} /\ up' = {}
      BY <1>2, <1>4 DEF RetireTransport, Met
    <2>2. Single'
      BY <1>3, <1>4, <2>1 DEF RetireTransport, Transport, Single
    <2>3. ASSUME NEW d \in Commands
          PROVE  reply'[d] = reply[d] \/ (pc[d] \in Waiting /\ reply'[d] = "failed")
      BY <1>4, SettleFacts DEF RetireTransport, Inv
    <2>4. ASSUME NEW d \in Commands, d # c PROVE Met(d)'
      <3>1. pc'[d] = pc[d] /\ outcome'[d] = outcome[d] /\ generation' = generation
        BY <1>1, <1>4, <2>4 DEF RetireTransport, Goto
      <3> QED BY <3>1, <1>3, <2>1, <2>3, MetKept DEF Transport
    <2>5. /\ pc'[c] = "opening" /\ outcome' = outcome /\ reply'[c] = reply[c]
          /\ generation' = generation
      BY <1>1, <1>2, <1>4, <2>3 DEF RetireTransport, Goto
    <2>6. Met(c)'
      BY <1>2, <1>3, <2>1, <2>5 DEF Met, SessionOf, Waiting
    <2> QED BY <2>2, <2>4, <2>6 DEF Transport
  <1>5. CASE Open(c)
    <2>1. /\ up = {} /\ loops = {} /\ generation' = generation + 1 /\ ws' = generation'
          /\ up' = {generation'} /\ loops' = {generation'} /\ connected' = TRUE
          /\ UNCHANGED <<reply, outcome, registered, disconnect, lock>>
          /\ pc' = [pc EXCEPT ![c] = "greeting"]
      BY <1>2, <1>5 DEF Open, Met, Goto, table
    <2>2. ws' # 0 /\ ws' \in Nat /\ generation < generation'
      BY <2>1, <1>1
    <2>3. \A t \in Targets, w \in Wires : gen[<<t, w>>] \in Nat
      BY RestFacts, ConstantFacts DEF Rest, Sessions
    <2>4. Single'
      BY <2>1, <2>2, <2>3, <1>1, <1>3 DEF Transport, Single
    <2>5. ASSUME NEW d \in Commands PROVE Met(d)'
      <3>1. /\ held[d] \in Nat /\ via[d] \in Nat /\ Met(d)
            /\ held[d] <= generation' /\ held[d] # generation'
            /\ via[d] <= generation' /\ via[d] # generation'
        <4>1. held[d] \in Nat /\ via[d] \in Nat
          BY SessionFacts
        <4>2. Met(d) /\ held[d] <= generation /\ via[d] <= generation
          BY DEF Transport, Met
        <4>3. generation \in Nat /\ generation' = generation + 1
          BY <1>1, <2>1
        <4> QED BY <4>1, <4>2, <4>3
      <3>2. pc'[d] \notin {"opening", "closing", "retiring"}
        <4>1. lock = c
          BY <1>5 DEF Open, Inv, Owner, Locking
        <4>2. CASE d = c
          BY <4>2, <2>1, <1>1
        <4>3. CASE d # c
          BY <4>1, <4>3, <2>1, <1>1 DEF Inv, Owner, Locking
        <4> QED BY <4>2, <4>3
      <3>3. pc'[d] = pc[d] \/ (pc'[d] = "greeting" /\ pc[d] \notin Waiting)
        BY <2>1, <1>1, <1>2
      <3> QED BY <3>1, <3>2, <3>3, <2>1, <1>3 DEF Met, SessionOf, Waiting
    <2> QED BY <2>4, <2>5 DEF Transport
  <1>6. CASE RetireFails(c) \/ OpenFails(c) \/ ReadyFails(c)
    <2>1. /\ up' \subseteq up /\ generation' = generation
          /\ pc' = [pc EXCEPT ![c] = "over"] /\ outcome' = [outcome EXCEPT ![c] = "unreachable"]
          /\ registered' = registered /\ disconnect' = disconnect
      BY <1>6 DEF RetireFails, OpenFails, ReadyFails, End, transport, table
    <2>2. \/ UNCHANGED <<connected, ws, loops, reply>>
          \/ ReadyFails(c) /\ up' = {} /\ loops' \subseteq loops
      BY <1>6 DEF RetireFails, OpenFails, ReadyFails, StopLoop, transport, Transport, Single
    <2>3. Single'
      BY <2>1, <2>2, <1>3 DEF Transport, Single
    <2>4. ASSUME NEW d \in Commands
          PROVE  reply'[d] = reply[d] \/ (pc[d] \in Waiting /\ reply'[d] = "lost" /\ up' = {})
      BY <2>2, SettleFacts DEF ReadyFails, StopLoop, Inv
    <2>5. ASSUME NEW d \in Commands, d # c PROVE Met(d)'
      <3>1. pc'[d] = pc[d] /\ outcome'[d] = outcome[d]
        BY <1>1, <2>1, <2>5
      <3> QED BY <3>1, <2>1, <2>4, <1>3, MetKept DEF Transport
    <2>6. pc'[c] = "over" /\ outcome'[c] = "unreachable" /\ reply'[c] = reply[c]
      BY <1>1, <1>2, <2>1, <2>4
    <2>7. Met(c)'
      BY <1>2, <1>3, <2>1, <2>6 DEF Met, SessionOf, Waiting
    <2> QED BY <2>3, <2>5, <2>7 DEF Transport
  <1> QED BY <1>4, <1>5, <1>6

(* Giving a command to the websocket of the moment: a write that fails     *)
(* proves that it is down.                                                 *)
LEMMA SendOnceTransport ==
    ASSUME Inv, Transport, NEW c \in Commands, NEW w \in Wires,
           NEW then \in {"await", "again"},
           gen[SessionOf(c, w)] = w,
           pc[c] \in {"held", "rebind", "rebound"},
           SendOnce(c, w, then)
    PROVE  Transport'
  <1>1. /\ pc \in [Commands -> Pcs] /\ outcome \in [Commands -> Outcomes]
        /\ held \in [Commands -> 0..MaxWires] /\ via \in [Commands -> 0..MaxWires]
        /\ generation \in Nat /\ ws \in {0, generation}
    BY RestFacts, TransportFacts DEF Rest
  <1>2. /\ Met(c) /\ outcome[c] = "none" /\ reply[c] = "none"
        /\ pc[c] \notin Waiting
    BY <1>1 DEF Transport, Inv, Counted, Met, Waiting
  <1>3. /\ UNCHANGED <<generation, ws, loops, up, registered, gen, disconnect, reply>>
        /\ held' = [held EXCEPT ![c] = w]
        /\ via' = via \/ (ws # 0 /\ via' = [via EXCEPT ![c] = generation])
    BY <1>1 DEF SendOnce, table
  <1>4. w <= generation
    <2>1. TargetOf[c] \in Targets BY ConstantFacts
    <2> QED BY <2>1 DEF Transport, Single, SessionOf
  <1>5. generation <= generation
    BY <1>1
  <1>6. \/ /\ pc'[c] \in {"over", then} /\ outcome'[c] \in {"none", "failed"}
           /\ connected' = connected
        \/ /\ up = {} /\ ws # 0
           /\ pc'[c] \in {"over", "reconnect"}
           /\ outcome'[c] \in {"none", "unknown", "lost again"}
    BY <1>1, <1>2, TransportFacts
       DEF SendOnce, Fail, Disconnected, MarkDisconnected, Goto, End, Waiting
  <1>7. Single'
    BY <1>3, <1>6 DEF Transport, Single
  <1>8. Met(c)'
    <2>1. held'[c] = w /\ (via'[c] = via[c] \/ via'[c] = generation)
      BY <1>1, <1>3
    <2>2. held'[c] # 0 => gen'[SessionOf(c, held'[c])] = held'[c]
      BY <1>3, <2>1
    <2>3. held'[c] <= generation' /\ via'[c] <= generation'
      BY <1>2, <1>3, <1>4, <1>5, <2>1 DEF Met
    <2>4. reply'[c] = "none"
      BY <1>2, <1>3
    <2>5. pc'[c] \notin {"opening", "closing", "retiring"} /\ (pc'[c] = "reconnect" => up' = {})
      BY <1>3, <1>6
    <2>6. outcome'[c] \in {"unknown", "lost again"} => via'[c] \notin up'
      BY <1>3, <1>6
    <2> QED BY <2>2, <2>3, <2>4, <2>5, <2>6 DEF Met, SessionOf
  <1>9. ASSUME NEW d \in Commands, d # c PROVE Met(d)'
    <2>1. /\ pc'[d] = pc[d] /\ outcome'[d] = outcome[d]
          /\ held'[d] = held[d] /\ via'[d] = via[d]
      BY <1>1, <1>3, <1>9 DEF SendOnce, Fail, Disconnected, Goto, End
    <2> QED BY <2>1, <1>3, MetKept DEF Transport
  <1> QED BY <1>7, <1>8, <1>9 DEF Transport

(* Sending and repeating.                                                  *)
LEMMA SendTransport ==
    ASSUME Inv, Transport, NEW c \in Commands, Send(c) \/ Retry(c)
    PROVE  Transport'
  <1> DEFINE now == Current(TargetOf[c])
  <1>1. now # 0 => now \in Wires /\ gen[SessionOf(c, now)] = now
    <2>1. now # 0 => now \in Wires /\ <<TargetOf[c], now>> \in registered
      BY CurrentFacts, ConstantFacts DEF Inv
    <2> QED BY <2>1, ConstantFacts DEF Transport, Single, SessionOf
  <1>2. pc[c] \in {"held", "rebound"} =>
           held[c] \in Wires /\ gen[SessionOf(c, held[c])] = held[c]
    <2>1. pc[c] \in {"held", "rebound"} => held[c] # 0
      BY DEF Inv, Counted, Repeating
    <2>2. held[c] # 0 => held[c] \in Wires
      BY SessionFacts
    <2>3. held[c] # 0 => gen[SessionOf(c, held[c])] = held[c]
      BY DEF Transport, Met
    <2> QED BY <2>1, <2>2, <2>3
  <1>3. CASE Send(c)
    <2>1. PICK w \in Wires : SendOnce(c, w, "await") /\ gen[SessionOf(c, w)] = w
      BY <1>1, <1>2, <1>3 DEF Send
    <2> QED BY <2>1, <1>3, SendOnceTransport DEF Send
  <1>4. CASE Retry(c)
    <2>1. PICK w \in Wires : SendOnce(c, w, "again") /\ gen[SessionOf(c, w)] = w
      BY <1>1, <1>2, <1>4 DEF Retry
    <2> QED BY <2>1, <1>4, SendOnceTransport DEF Retry
  <1> QED BY <1>3, <1>4

(* The end of an attempt.                                                  *)
LEMMA EndTransport ==
    ASSUME Inv, Transport, NEW c \in Commands, Reject(c) \/ Resume(c) \/ GiveUp(c)
    PROVE  Transport'
  <1>1. /\ pc \in [Commands -> Pcs] /\ outcome \in [Commands -> Outcomes]
        /\ reply \in [Commands -> {"none", "result", "failed", "lost", "closed"}]
    BY RestFacts DEF Rest
  <1>2. UNCHANGED <<generation, ws, loops, up, registered, gen, disconnect, held, via>>
    BY DEF Reject, Resume, GiveUp, transport, table
  <1>3. Met(c)
    BY DEF Transport
  <1>4. ASSUME NEW d \in Commands, d # c PROVE Met(d)'
    <2>1. pc'[d] = pc[d] /\ outcome'[d] = outcome[d] /\ reply'[d] = reply[d]
      BY <1>1, <1>4 DEF Reject, Resume, GiveUp, Fail, Disconnected, Goto, End
    <2> QED BY <2>1, <1>2, MetKept DEF Transport
  <1>5. CASE Reject(c) \/ GiveUp(c)
    <2>1. /\ pc'[c] = "over" /\ outcome'[c] \in {"stale", "given up"}
          /\ reply'[c] = reply[c] /\ connected' = connected
      BY <1>1, <1>5 DEF Reject, GiveUp, End, transport
    <2>2. reply[c] = "none"
      BY <1>3, <1>5 DEF Reject, GiveUp, Met, Waiting
    <2>3. Single' /\ Met(c)'
      BY <2>1, <2>2, <1>2, <1>3 DEF Transport, Single, Met, SessionOf
    <2> QED BY <2>3, <1>4 DEF Transport
  <1>6. CASE Resume(c)
    <2>1. reply[c] \in {"result", "failed", "lost"} /\ reply'[c] = "none"
      BY <1>1, <1>3, <1>6 DEF Resume, Met
    <2>2. held[c] # 0 /\ outcome[c] = "none" /\ pc[c] \in Waiting /\ pc[c] # "over"
      BY <1>1, <1>6 DEF Resume, Waiting, Inv, Counted, Repeating
    <2>3. \/ /\ pc'[c] = "over" /\ outcome'[c] \in {"result", "failed"}
             /\ connected' = connected
          \/ /\ reply[c] = "lost"
             /\ pc'[c] \in {"over", "reconnect"}
             /\ outcome'[c] \in {"none", "unknown", "lost again"}
             /\ \/ connected' = connected
                \/ gen[SessionOf(c, held[c])] = generation
      BY <1>1, <1>6, <2>1, <2>2
         DEF Resume, Fail, Disconnected, MarkDisconnected, Goto, End
    <2>4. reply[c] = "lost" => via[c] \notin up /\ (held[c] = generation => up = {})
      BY <1>3 DEF Met
    <2>5. gen[SessionOf(c, held[c])] = held[c]
      BY <1>3, <2>2 DEF Met
    <2>6. Single'
      BY <1>2, <2>3, <2>4, <2>5 DEF Transport, Single
    <2>7. Met(c)'
      BY <1>2, <1>3, <2>1, <2>3, <2>4 DEF Met, SessionOf, Waiting
    <2> QED BY <2>6, <2>7, <1>4 DEF Transport
  <1> QED BY <1>5, <1>6

(* The network and the read loop.                                          *)
LEMMA WireTransport ==
    ASSUME Inv, Transport, NEW w \in Wires, LoseWire(w) \/ EndLoop(w)
    PROVE  Transport'
  <1>1. UNCHANGED <<generation, registered, gen, ws, disconnect, pc, held, via, outcome>>
    BY DEF LoseWire, EndLoop, table, commands
  <1>2. \/ up' \subseteq up /\ UNCHANGED <<loops, connected, reply>>
        \/ up = {} /\ up' = up /\ EndLoop(w) /\ loops' \subseteq loops
    BY DEF LoseWire, EndLoop, commands, Transport, Single
  <1>3. Single'
    BY <1>1, <1>2 DEF Transport, Single
  <1>4. ASSUME NEW c \in Commands PROVE Met(c)'
    <2>1. \/ reply'[c] = reply[c]
          \/ pc[c] \in Waiting /\ reply'[c] = "lost" /\ up' = {}
      BY <1>2, SettleFacts DEF EndLoop, Inv
    <2> QED BY <2>1, <1>1, <1>2, MetKept DEF Transport
  <1> QED BY <1>3, <1>4 DEF Transport

(* What a message of the browser finds: it comes on the current transport. *)
LEMMA MessageFacts ==
    ASSUME Inv, Transport, NEW w \in Wires, w \in loops
    PROVE  /\ w = generation /\ w # 0 /\ generation \in Nat /\ generation <= generation
           /\ pc \in [Commands -> Pcs] /\ held \in [Commands -> 0..MaxWires]
           /\ reply \in [Commands -> {"none", "result", "failed", "lost", "closed"}]
           /\ gen \in [Sessions -> 0..MaxWires]
  <1>1. generation \in Nat /\ generation <= generation
    BY TransportFacts
  <1>2. w = generation /\ w # 0
    BY ConstantFacts DEF Transport, Single, Wires
  <1> QED BY <1>1, <1>2, RestFacts DEF Rest

(* An attached session is registered under the current generation.         *)
LEMMA AttachedFacts ==
    ASSUME Inv, Transport, NEW t \in Targets, NEW w \in Wires, Attached(t, w)
    PROVE  /\ gen[<<t, w>>] = 0 /\ gen'[<<t, w>>] = w
           /\ \A s \in Sessions : s # <<t, w>> => gen'[s] = gen[s]
           /\ registered' \subseteq registered \union {<<t, w>>}
  <1>1. /\ gen' = [gen EXCEPT ![<<t, w>>] = generation]
        /\ <<t, w>> \in Sessions /\ w \in loops
    BY DEF Attached, Sessions
  <1>2. gen \in [Sessions -> 0..MaxWires] /\ w = generation
    BY <1>1, MessageFacts
  <1> QED BY <1>1, <1>2 DEF Attached

(* The transport after a tab was attached or closed.                       *)
LEMMA MessageSingle ==
    ASSUME Inv, Transport, NEW t \in Targets, NEW w \in Wires,
           Attached(t, w) \/ Detached(t, w)
    PROVE  Single'
  <1>1. UNCHANGED <<generation, ws, loops, up, connected, disconnect>>
    BY DEF Attached, Detached, transport
  <1>2. w \in loops
    BY DEF Attached, Detached
  <1>3. CASE Attached(t, w)
    <2>1. ASSUME NEW u \in Targets, NEW v \in Wires
          PROVE  /\ gen'[<<u, v>>] \in {0, v}
                 /\ gen'[<<u, v>>] <= generation'
                 /\ <<u, v>> \in registered' => gen'[<<u, v>>] = v
      <3>1. CASE <<u, v>> = <<t, w>>
        BY <3>1, <1>1, <1>2, <1>3, AttachedFacts, MessageFacts
      <3>2. CASE <<u, v>> # <<t, w>>
        <4>1. <<u, v>> \in Sessions
          BY DEF Sessions
        <4>2. gen'[<<u, v>>] = gen[<<u, v>>]
          BY <3>2, <4>1, <1>3, AttachedFacts
        <4>3. <<u, v>> \in registered' => <<u, v>> \in registered
          BY <3>2, <1>3, AttachedFacts
        <4> QED BY <4>2, <4>3, <1>1 DEF Transport, Single
      <3> QED BY <3>1, <3>2
    <2> QED BY <2>1, <1>1 DEF Transport, Single
  <1>4. CASE Detached(t, w)
    BY <1>1, <1>4 DEF Detached, Transport, Single
  <1> QED BY <1>3, <1>4

(* The commands after a message of the browser.                            *)
LEMMA MessageMet ==
    ASSUME Inv, Transport, ~Abrupt, NEW t \in Targets, NEW w \in Wires, NEW c \in Commands,
           Attached(t, w) \/ Detached(t, w) \/ Respond(c, w),
           NEW d \in Commands
    PROVE  Met(d)'
  <1>1. UNCHANGED <<generation, up, via, outcome>> /\ w \in loops
    BY DEF Attached, Detached, Respond, transport
  <1>2. Met(d)
    BY DEF Transport
  <1>3. CASE Attached(t, w)
    <2>1. held[d] # 0 => gen'[SessionOf(d, held[d])] = gen[SessionOf(d, held[d])]
      <3>1. held[d] # 0 => SessionOf(d, held[d]) \in Sessions
        BY SessionFacts
      <3>2. held[d] # 0 => gen[SessionOf(d, held[d])] # 0
        BY <1>2 DEF Met
      <3> QED BY <3>1, <3>2, <1>3, AttachedFacts
    <2>2. reply'[d] = reply[d] \/ (pc[d] \in Waiting /\ reply'[d] = "failed")
      BY <1>3, SettleFacts DEF Attached, Inv
    <2>3. CASE pc[d] = "rebind" /\ TargetOf[d] = t
      <3>1. pc'[d] = "rebound" /\ held'[d] = w
        BY <1>3, <2>3 DEF Attached
      <3>2. reply'[d] = "none" /\ SessionOf(d, w) = <<t, w>>
        BY <1>2, <2>2, <2>3 DEF Met, Waiting, SessionOf
      <3>3. w <= generation'
        BY <1>1, MessageFacts
      <3>4. gen'[SessionOf(d, held'[d])] = held'[d] /\ held'[d] <= generation'
        BY <3>1, <3>2, <3>3, <1>3, AttachedFacts
      <3> QED BY <3>1, <3>2, <3>4, <1>1, <1>2 DEF Met, SessionOf
    <2>4. CASE ~(pc[d] = "rebind" /\ TargetOf[d] = t)
      <3>1. pc'[d] = pc[d] /\ held'[d] = held[d]
        BY <1>3, <2>4 DEF Attached
      <3> QED BY <2>1, <2>2, <3>1, <1>1, <1>2, MetKept
    <2> QED BY <2>3, <2>4
  <1>4. CASE Detached(t, w) \/ Respond(c, w)
    <2>1. UNCHANGED <<gen, pc, held>>
      BY <1>4 DEF Detached, Respond, table
    <2>2. reply'[d] = reply[d] \/ (pc[d] \in Waiting /\ reply'[d] = "result")
      <3>1. CASE Detached(t, w)
        <4>1. ~Awaited(<<t, w>>)
          BY <3>1 DEF Detached
        <4>2. ~(pc[d] \in Waiting /\ SessionOf(d, held[d]) \in {<<t, w>>})
          BY <4>1 DEF Awaited
        <4> QED BY <3>1, <4>2, <1>1, MessageFacts DEF Detached, Settle
      <3>2. CASE Respond(c, w)
        BY <3>2, <1>1, MessageFacts DEF Respond
      <3> QED BY <1>4, <3>1, <3>2
    <2> QED BY <2>1, <2>2, <1>1, <1>2, MetKept
  <1> QED BY <1>3, <1>4

(* The shutdown.                                                           *)
LEMMA ShutdownTransport ==
    ASSUME Inv, Transport, Disconnect \/ Forget
    PROVE  Transport'
  <1>1. UNCHANGED <<generation, gen, held, via>> /\ up' \subseteq up /\ loops' \subseteq loops
    BY DEF Disconnect, Forget, StopLoop, table
  <1>2. CASE Disconnect
    <2>1. up' = {}
      BY <1>2, TransportFacts DEF Disconnect, Transport, Single
    <2>2. Single'
      BY <2>1, <1>1, <1>2 DEF Disconnect, Transport, Single, table
    <2>3. ASSUME NEW c \in Commands PROVE Met(c)'
      <3>1. reply'[c] = reply[c] \/ (pc[c] \in Waiting /\ reply'[c] = "lost")
        BY <1>2, SettleFacts DEF Disconnect, StopLoop, Inv
      <3> QED BY <3>1, <2>1, <1>1, <1>2, MetKept DEF Disconnect, Transport
    <2> QED BY <2>2, <2>3 DEF Transport
  <1>3. CASE Forget
    <2>1. up' = up /\ reply' = reply /\ connected' = connected /\ registered' = {}
      BY <1>3 DEF Forget
    <2>2. disconnect' # "no"
      BY <1>3 DEF Forget
    <2>4. Single'
      BY <2>1, <2>2, <1>1 DEF Transport, Single
    <2>3. ASSUME NEW c \in Commands PROVE Met(c)'
      <3>1. \/ pc'[c] = pc[c] /\ outcome'[c] = outcome[c]
            \/ pc[c] = "rebind" /\ pc'[c] = "over" /\ outcome'[c] = "given up"
        BY <1>3 DEF Forget
      <3> QED BY <3>1, <2>1, <1>1 DEF Transport, Met, SessionOf, Waiting
    <2> QED BY <2>3, <2>4 DEF Transport
  <1> QED BY <1>2, <1>3

(* Together they are inductive, where errors name the transport only when  *)
(* it is lost.                                                             *)
LEMMA NextTransport ==
    ASSUME ~Abrupt
    PROVE  (Inv /\ Transport) /\ [Next]_vars => (Inv /\ Transport)'
  <1> SUFFICES ASSUME Inv, Transport, [Next]_vars PROVE Transport'
    BY NextInv
  <1>1. ASSUME NEW c \in Commands, CommandStep(c) PROVE Transport'
    BY <1>1, EnterTransport, LockedTransport, SendTransport, EndTransport DEF CommandStep
  <1>2. CASE Browser
    <2>1. ASSUME NEW w \in Wires, LoseWire(w) \/ EndLoop(w) PROVE Transport'
      BY <2>1, WireTransport
    <2>2. ASSUME NEW t \in Targets, NEW w \in Wires, Attached(t, w) \/ Detached(t, w)
          PROVE  Transport'
      <3>1. Single'
        BY <2>2, MessageSingle
      <3>2. ASSUME NEW c \in Commands PROVE Met(c)'
        BY <2>2, MessageMet
      <3> QED BY <3>1, <3>2 DEF Transport
    <2>3. ASSUME NEW c \in Commands, NEW w \in Wires, Respond(c, w) PROVE Transport'
      <3>1. TargetOf[c] \in Targets
        BY ConstantFacts
      <3>2. ASSUME NEW d \in Commands PROVE Met(d)'
        BY <2>3, <3>1, MessageMet
      <3>3. Single'
        BY <2>3 DEF Respond, transport, table, Transport, Single
      <3> QED BY <3>2, <3>3 DEF Transport
    <2> QED BY <1>2, <2>1, <2>2, <2>3 DEF Browser
  <1>3. CASE UNCHANGED vars
    BY <1>3 DEF vars, transport, table, commands, Transport, Single, Met, SessionOf
  <1> QED BY <1>1, <1>2, <1>3, ShutdownTransport DEF Next

(* Where only the loss of a transport looks like one, no transport that    *)
(* works is left behind for another one: at most one is open.              *)
THEOREM TransportsAreSingle ==
    ASSUME ~Abrupt
    PROVE  Spec => []OneTransport
  <1>1. ASSUME Transport PROVE OneTransport
    <2>1. up \subseteq {generation}
      BY <1>1 DEF Transport, Single
    <2>2. IsFiniteSet({generation}) /\ Cardinality({generation}) = 1
      BY FS_Singleton
    <2>3. Cardinality(up) <= Cardinality({generation})
      BY <2>1, <2>2, FS_Subset
    <2> QED BY <2>2, <2>3 DEF OneTransport
  <1> QED BY <1>1, InitInv, InitTransport, NextTransport, PTL DEF Spec

(* Then a command is failed as lost only if the transport it was given to  *)
(* is down.                                                                *)
THEOREM LossesAreReal ==
    ASSUME ~Abrupt
    PROVE  Spec => []LossIsReal
  <1>1. ASSUME Transport PROVE LossIsReal
    BY <1>1 DEF Transport, Met, LossIsReal
  <1> QED BY <1>1, InitInv, InitTransport, NextTransport, PTL DEF Spec

(* And a caller that comes late with a failure does not tear down the      *)
(* transport that another one has opened meanwhile.                        *)
THEOREM LateCallersAreHarmless ==
    ASSUME ~Abrupt
    PROVE  Spec => []LateCallerHarmless
  <1>1. ASSUME Transport PROVE LateCallerHarmless
    BY <1>1 DEF Transport, Met, LateCallerHarmless
  <1> QED BY <1>1, InitInv, InitTransport, NextTransport, PTL DEF Spec
=============================================================================
