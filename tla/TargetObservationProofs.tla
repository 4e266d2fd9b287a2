----------------------- MODULE TargetObservationProofs -----------------------
(***************************************************************************)
(* For any number of callers, tabs, scans, mutations and switches of the   *)
(* visible tab: queries are answered from inventories that are young       *)
(* enough, shared scans are not taken from those who wait for them, and an *)
(* observation shows its target unless the browser was switched away and   *)
(* back.  Each part of ObservationInv has a lemma of its own, with a step  *)
(* for each action.                                                        *)
(***************************************************************************)
EXTENDS TargetObservation, TLAPS

(* The fields of the records.                                              *)
LEMMA Fields ==
  ASSUME ObservationTypeOK
  PROVE  /\ \A s \in Scans : /\ scans[s].state \in ScanStates
                             /\ scans[s].world \in 0..MaxWorld
                             /\ scans[s].tabs \subseteq Tabs
         /\ \A c \in Callers : /\ call[c] \in Calls /\ call[c].activate \in BOOLEAN
                               /\ call[c].scan \in Scans \cup {None}
                               /\ call[c].target \in Targets \cup {None}
         /\ \A o \in Observers : /\ seen[o].content \in Tabs \cup {None}
                                 /\ seen[o].changes \in 0..2
                                 /\ seen[o].phase \in {"start", "checked", "loaded", "answered"}
  BY DEF ObservationTypeOK, TypeOK, Taken, Calls, Sights

(* A call that waits for a scan is a record,                               *)
LEMMA WaitingCall ==
  ASSUME NEW r \in Calls, NEW s \in Scans
  PROVE  [r EXCEPT !.pc = "waiting", !.scan = s] \in Calls
  BY DEF Calls

(* which keeps its other fields.                                           *)
LEMMA WaitingFields ==
  ASSUME NEW r \in Calls, NEW s \in Scans
  PROVE  LET q == [r EXCEPT !.pc = "waiting", !.scan = s]
         IN  q.pc = "waiting" /\ q.scan = s /\ q.target = r.target
             /\ q.kind = r.kind /\ q.since = r.since
  BY DEF Calls

(* So is an observation that has been checked,                             *)
LEMMA CheckedSight ==
  ASSUME NEW r \in Sights, NEW n \in 0..2
  PROVE  [r EXCEPT !.phase = "checked", !.changes = n] \in Sights
  BY DEF Sights

(* one that has been loaded,                                               *)
LEMMA LoadedSight ==
  ASSUME NEW r \in Sights, NEW t \in Tabs
  PROVE  [r EXCEPT !.phase = "loaded", !.content = t] \in Sights
  BY DEF Sights

(* and a scan that is done.                                                *)
LEMMA DoneScan ==
  ASSUME NEW r \in Taken, NEW found \in Inventories
  PROVE  [r EXCEPT !.state = "done", !.tabs = found] \in Taken
  BY ObservationAssumption DEF Taken, ScanStates, ResolverAssumption

(* An idle caller has no target.                                           *)
LEMMA IdleCall == Idle \in Calls /\ Idle.pc = "idle" /\ Idle.target = None
  BY ObservationAssumption DEF Calls, Idle, ResolverAssumption

(* The targets of a scan carry its number.                                 *)
LEMMA TargetsTyped ==
  ASSUME ObservationTypeOK, NEW s \in Scans
  PROVE  TargetsOf(s) \subseteq Targets /\ \A t \in TargetsOf(s) : t[1] = s
  BY Fields DEF TargetsOf, Targets

(* What a call looks like once it has its target or its failure.           *)
Outcome(c, r, s, q) ==
  /\ call' = [call EXCEPT ![c] = q]
  /\ q.pc \in {"idle", "activating", "resolved"}
  /\ q.target # None => /\ q.target \in Targets /\ q.target[1] = s
                        /\ q.kind = r.kind /\ q.since = r.since
  /\ q.pc = "resolved" => ~q.activate

(* A query ends in a failure or in a target of its inventory,              *)
LEMMA SelectOutcome ==
  ASSUME NEW c \in Callers, NEW r \in Calls, NEW s \in Scans, NEW held,
         ObservationTypeOK, Select(c, r, s, held)
  PROVE  \E q \in Calls : Outcome(c, r, s, q)
<1>1. CASE End(c) /\ leases' = held
  <2> QED
    BY <1>1, IdleCall DEF Outcome, End
<1>2. ASSUME NEW t \in TargetsOf(s),
             call' = [call EXCEPT ![c] = Chosen([r EXCEPT !.scan = None], t)]
      PROVE  \E q \in Calls : Outcome(c, r, s, q)
  <2> DEFINE q == Chosen([r EXCEPT !.scan = None], t)
  <2>1. t \in Targets /\ t[1] = s
    BY <1>2, TargetsTyped
  <2>2. q \in Calls
    BY <2>1 DEF Chosen, Calls
  <2>3. Outcome(c, r, s, q)
    BY <1>2, <2>1 DEF Outcome, Chosen, Calls
  <2> QED
    BY <2>2, <2>3
<1> QED
  BY <1>1, <1>2 DEF Select

(* which is leased.                                                        *)
LEMMA SelectLeases ==
  ASSUME NEW c \in Callers, NEW r \in Calls, NEW s \in Scans, NEW held,
         held \subseteq [target : Targets, expires : Nat],
         ObservationTypeOK, Select(c, r, s, held)
  PROVE  /\ leases' \subseteq [target : Targets, expires : Nat]
         /\ lane' \in Callers \cup {"mutation", None}
<1> USE ObservationAssumption DEF ResolverAssumption, ObservationTypeOK, TypeOK
<1>1. CASE End(c) /\ leases' = held
  BY <1>1 DEF End, Free
<1>2. ASSUME NEW t \in TargetsOf(s), Take(c, r.activate), leases' = Leased(held, t)
      PROVE  /\ leases' \subseteq [target : Targets, expires : Nat]
             /\ lane' \in Callers \cup {"mutation", None}
  <2>1. t \in Targets /\ now + LeaseTTL \in Nat
    BY <1>2, TargetsTyped
  <2> QED
    BY <1>2, <2>1 DEF Leased, Take
<1> QED
  BY <1>1, <1>2 DEF Select

(* A new call is a record.                                                 *)
LEMMA NewCall ==
  ASSUME NEW a \in BOOLEAN, NEW kind \in {"query", "exact", "pid", "list"}, ObservationTypeOK
  PROVE  /\ Call(kind, a) \in Calls
         /\ Call(kind, a).kind = kind /\ Call(kind, a).since = acked
         /\ Call(kind, a).activate = a /\ Call(kind, a).target = None
  BY ObservationAssumption DEF ObservationTypeOK, TypeOK, Call, Calls, Idle,
     ResolverAssumption

(* A query waits for a scan from the invalidations it has seen.            *)
LEMMA WaitingQuery ==
  ASSUME NEW a \in BOOLEAN, NEW s \in Scans, ObservationTypeOK
  PROVE  /\ [Call("query", a) EXCEPT !.pc = "waiting", !.scan = s].since = acked
         /\ [Call("query", a) EXCEPT !.pc = "waiting", !.scan = s].pc = "waiting"
         /\ [Call("query", a) EXCEPT !.pc = "waiting", !.scan = s].scan = s
         /\ [Call("query", a) EXCEPT !.pc = "waiting", !.scan = s].target = None
<1>1. Call("query", a) \in Calls
  BY NewCall
<1>2. Call("query", a).since = acked /\ Call("query", a).target = None
  BY NewCall
<1> QED
  BY <1>1, <1>2, WaitingFields

(* The initial state.                                                      *)
LEMMA ObservationInit == OInit => ObservationInv
<1> USE ObservationAssumption DEF OInit, Init, ResolverAssumption
<1>1. ASSUME OInit PROVE ObservationTypeOK
  BY <1>1 DEF ObservationTypeOK, TypeOK, Taken, Calls, Sights, Idle, Unseen, ScanStates
<1>2. ASSUME OInit PROVE Current /\ QueriesFresh
  BY <1>2 DEF Current, QueriesFresh, Idle
<1>3. ASSUME OInit PROVE NoCollateral
  BY <1>3 DEF NoCollateral, Idle
<1>4. ASSUME OInit PROVE Bracket
  BY <1>4 DEF Bracket, Observing, Idle
<1> QED
  BY <1>1, <1>2, <1>3, <1>4 DEF ObservationInv

(* Types are kept.                                                         *)
LEMMA TypeStep ==
  ASSUME ObservationTypeOK, Current, [ONext]_ovars
  PROVE  ObservationTypeOK'
<1> USE ObservationAssumption DEF ResolverAssumption, ObservationTypeOK, TypeOK
<1>1. CASE UNCHANGED ovars
  BY <1>1 DEF ovars, vars
<1>2. ASSUME NEW c \in Callers, NEW a \in BOOLEAN, BeginPid(c, a), Elsewhere PROVE
          ObservationTypeOK'
  BY <1>2 DEF BeginPid, MayBegin, Chosen, Call, Take, Idle, Calls, Elsewhere
<1>3. ASSUME NEW c \in Callers, NEW a \in BOOLEAN, NEW t \in Targets, BeginExact(c,
          a, t), Elsewhere PROVE ObservationTypeOK'
  BY <1>3 DEF BeginExact, MayBegin, Chosen, Call, Take, Idle, PrunedCache,
       PrunedLeases, Calls, Elsewhere
<1>4. ASSUME NEW c \in Callers, NEW a \in BOOLEAN, BeginQuery(c, a), Hit(c,
          Call("query", a)), Elsewhere PROVE ObservationTypeOK'
  <2>1. (call \in [Callers -> Calls])'
    <3>1. Call("query", a) \in Calls /\ PrunedCache.scan \in Scans
      BY <1>4, NewCall DEF Hit, PrunedCache, PrunedLeases
    <3>2. \E q \in Calls : Outcome(c, Call("query", a), PrunedCache.scan, q)
      BY <1>4, <3>1, SelectOutcome DEF Hit
    <3> QED
      BY <3>2 DEF Outcome
  <2>2. (leases \subseteq [target : Targets, expires : Nat])'
    <3>1. Call("query", a) \in Calls /\ PrunedCache.scan \in Scans /\ PrunedLeases
              \subseteq [target : Targets, expires : Nat]
      BY <1>4, NewCall DEF Hit, PrunedCache, PrunedLeases
    <3> QED
      BY <1>4, <3>1, SelectLeases DEF Hit
  <2>3. (lane \in Callers \cup {"mutation", None})'
    <3>1. Call("query", a) \in Calls /\ PrunedCache.scan \in Scans /\ PrunedLeases
              \subseteq [target : Targets, expires : Nat]
      BY <1>4, NewCall DEF Hit, PrunedCache, PrunedLeases
    <3> QED
      BY <1>4, <3>1, SelectLeases DEF Hit
  <2>4. (scans \in [Scans -> Taken])' /\ (visible \in Tabs /\ seen \in [Observers ->
            Sights])' /\ (now \in 0..MaxTime /\ world \in 0..MaxWorld /\ acked \in
            0..MaxWorld)' /\ (cache \in [scan : Scans, expires : Nat] \cup {None} /\
            flight \in Scans \cup {None})'
    BY <1>4 DEF BeginQuery, MayBegin, Hit, Call, Idle, Select, End, Chosen, Take,
         Free, Leased, TargetsOf, PrunedCache, PrunedLeases, Elsewhere
  <2> QED
    BY <2>1, <2>2, <2>3, <2>4 DEF ObservationTypeOK, TypeOK
<1>5. ASSUME NEW c \in Callers, NEW a \in BOOLEAN, BeginQuery(c, a), Join(c,
          Call("query", a)), Elsewhere PROVE ObservationTypeOK'
  <2>1. (call \in [Callers -> Calls])'
    <3>1. [Call("query", a) EXCEPT !.pc = "waiting", !.scan = flight] \in Calls
      BY <1>5, NewCall, WaitingCall DEF Join
    <3> QED
      BY <1>5, <3>1 DEF Join
  <2>2. (scans \in [Scans -> Taken])' /\ (visible \in Tabs /\ seen \in [Observers ->
            Sights])' /\ (now \in 0..MaxTime /\ world \in 0..MaxWorld /\ acked \in
            0..MaxWorld)' /\ (cache \in [scan : Scans, expires : Nat] \cup {None} /\
            flight \in Scans \cup {None})' /\ (leases \subseteq [target : Targets,
            expires : Nat])' /\ (lane \in Callers \cup {"mutation", None})'
    BY <1>5 DEF BeginQuery, MayBegin, Join, Call, Idle, Take, PrunedCache,
         PrunedLeases, Elsewhere
  <2> QED
    BY <2>1, <2>2 DEF ObservationTypeOK, TypeOK
<1>6. ASSUME NEW c \in Callers, NEW a \in BOOLEAN, BeginQuery(c, a), Miss(c,
          Call("query", a)), Elsewhere PROVE ObservationTypeOK'
  <2>1. (call \in [Callers -> Calls])'
    <3>1. PICK s \in Scans : scans' = [scans EXCEPT ![s] = [state |-> "running",
              world |-> world, tabs |-> {}]] /\ call' = [call EXCEPT ![c] =
              [Call("query", a) EXCEPT !.pc = "waiting", !.scan = s]]
      BY <1>6 DEF Miss, FreshScan, Started
    <3>2. \A r \in Scans : [Call("query", a) EXCEPT !.pc = "waiting", !.scan = r]
              \in Calls
      BY NewCall, WaitingCall
    <3> QED
      BY <3>1, <3>2
  <2>2. (scans \in [Scans -> Taken])'
    <3>1. PICK s \in Scans : scans' = [scans EXCEPT ![s] = [state |-> "running",
              world |-> world, tabs |-> {}]] /\ TRUE
      BY <1>6 DEF Miss, FreshScan, Started
    <3>2. [state |-> "running", world |-> world, tabs |-> {}] \in Taken
      BY DEF Taken, ScanStates
    <3> QED
      BY <3>1, <3>2
  <2>3. (visible \in Tabs /\ seen \in [Observers -> Sights])' /\ (now \in 0..MaxTime
            /\ world \in 0..MaxWorld /\ acked \in 0..MaxWorld)' /\ (cache \in [scan
            : Scans, expires : Nat] \cup {None} /\ flight \in Scans \cup {None})' /\
            (leases \subseteq [target : Targets, expires : Nat])' /\ (lane \in
            Callers \cup {"mutation", None})'
    BY <1>6 DEF BeginQuery, MayBegin, Miss, FreshScan, Started, Call, Idle, Take,
         PrunedCache, PrunedLeases, Elsewhere
  <2> QED
    BY <2>1, <2>2, <2>3 DEF ObservationTypeOK, TypeOK
<1>7. ASSUME NEW c \in Callers, BeginList(c), Elsewhere PROVE ObservationTypeOK'
  <2>1. (call \in [Callers -> Calls])'
    <3>1. PICK s \in Scans : scans' = [scans EXCEPT ![s] = [state |-> "running",
              world |-> world, tabs |-> {}]] /\ call' = [call EXCEPT ![c] =
              [Call("list", FALSE) EXCEPT !.pc = "waiting", !.scan = s]]
      BY <1>7 DEF BeginList, FreshScan, Started
    <3>2. \A r \in Scans : [Call("list", FALSE) EXCEPT !.pc = "waiting", !.scan = r]
              \in Calls
      BY NewCall, WaitingCall
    <3> QED
      BY <3>1, <3>2
  <2>2. (scans \in [Scans -> Taken])'
    <3>1. PICK s \in Scans : scans' = [scans EXCEPT ![s] = [state |-> "running",
              world |-> world, tabs |-> {}]] /\ TRUE
      BY <1>7 DEF BeginList, FreshScan, Started
    <3>2. [state |-> "running", world |-> world, tabs |-> {}] \in Taken
      BY DEF Taken, ScanStates
    <3> QED
      BY <3>1, <3>2
  <2>3. (visible \in Tabs /\ seen \in [Observers -> Sights])' /\ (now \in 0..MaxTime
            /\ world \in 0..MaxWorld /\ acked \in 0..MaxWorld)' /\ (cache \in [scan
            : Scans, expires : Nat] \cup {None} /\ flight \in Scans \cup {None})' /\
            (leases \subseteq [target : Targets, expires : Nat])' /\ (lane \in
            Callers \cup {"mutation", None})'
    BY <1>7 DEF BeginList, MayBegin, FreshScan, Started, Call, Idle, Elsewhere
  <2> QED
    BY <2>1, <2>2, <2>3 DEF ObservationTypeOK, TypeOK
<1>8. ASSUME NEW c \in Callers, Resume(c), Elsewhere PROVE ObservationTypeOK'
  <2>1. (call \in [Callers -> Calls])'
    <3>1. call[c] \in Calls /\ call[c].scan \in Scans
      BY <1>8, Fields DEF Resume, PrunedLeases, Current
    <3>2. \E q \in Calls : Outcome(c, call[c], call[c].scan, q)
      BY <1>8, <3>1, SelectOutcome DEF Resume
    <3> QED
      BY <3>2 DEF Outcome
  <2>2. (leases \subseteq [target : Targets, expires : Nat])'
    <3>1. call[c] \in Calls /\ call[c].scan \in Scans /\ PrunedLeases \subseteq
              [target : Targets, expires : Nat]
      BY <1>8, Fields DEF Resume, PrunedLeases, Current
    <3> QED
      BY <1>8, <3>1, SelectLeases DEF Resume
  <2>3. (lane \in Callers \cup {"mutation", None})'
    <3>1. call[c] \in Calls /\ call[c].scan \in Scans /\ PrunedLeases \subseteq
              [target : Targets, expires : Nat]
      BY <1>8, Fields DEF Resume, PrunedLeases, Current
    <3> QED
      BY <1>8, <3>1, SelectLeases DEF Resume
  <2>4. (scans \in [Scans -> Taken])' /\ (visible \in Tabs /\ seen \in [Observers ->
            Sights])' /\ (now \in 0..MaxTime /\ world \in 0..MaxWorld /\ acked \in
            0..MaxWorld)' /\ (cache \in [scan : Scans, expires : Nat] \cup {None} /\
            flight \in Scans \cup {None})'
    BY <1>8 DEF Resume, ReleaseWaiter, Select, End, Idle, Chosen, Take, Free,
         Leased, TargetsOf, PrunedCache, PrunedLeases, Elsewhere
  <2> QED
    BY <2>1, <2>2, <2>3, <2>4 DEF ObservationTypeOK, TypeOK
<1>9. ASSUME NEW c \in Callers, RememberTargets(c), Elsewhere PROVE
          ObservationTypeOK'
  <2>1. (call \in [Callers -> Calls])'
    BY <1>9, IdleCall DEF RememberTargets, End
  <2>2. (leases \subseteq [target : Targets, expires : Nat])'
    <3>1. TargetsOf(call[c].scan) \subseteq Targets
      BY <1>9, TargetsTyped DEF RememberTargets, Current
    <3> QED
      BY <1>9, <3>1 DEF RememberTargets, Remembered
  <2>3. (scans \in [Scans -> Taken])' /\ (visible \in Tabs /\ seen \in [Observers ->
            Sights])' /\ (now \in 0..MaxTime /\ world \in 0..MaxWorld /\ acked \in
            0..MaxWorld)' /\ (cache \in [scan : Scans, expires : Nat] \cup {None} /\
            flight \in Scans \cup {None})' /\ (lane \in Callers \cup {"mutation",
            None})'
    BY <1>9 DEF RememberTargets, End, Idle, Free, Remembered, TargetsOf,
         PrunedCache, Elsewhere
  <2> QED
    BY <2>1, <2>2, <2>3 DEF ObservationTypeOK, TypeOK
<1>10. ASSUME NEW c \in Callers, StopWaiting(c), Elsewhere PROVE ObservationTypeOK'
  <2>1. (call \in [Callers -> Calls])'
    BY <1>10, IdleCall DEF StopWaiting, End
  <2>2. (scans \in [Scans -> Taken])'
    <3>1. \A s \in Scans : [scans[s] EXCEPT !.state = "cancelled"] \in Taken
      BY DEF Taken, ScanStates
    <3> QED
      BY <1>10, <3>1 DEF StopWaiting, ReleaseWaiter
  <2>3. (visible \in Tabs /\ seen \in [Observers -> Sights])' /\ (now \in 0..MaxTime
            /\ world \in 0..MaxWorld /\ acked \in 0..MaxWorld)' /\ (cache \in [scan
            : Scans, expires : Nat] \cup {None} /\ flight \in Scans \cup {None})' /\
            (leases \subseteq [target : Targets, expires : Nat])' /\ (lane \in
            Callers \cup {"mutation", None})'
    BY <1>10 DEF StopWaiting, ReleaseWaiter, End, Idle, Free, Elsewhere
  <2> QED
    BY <2>1, <2>2, <2>3 DEF ObservationTypeOK, TypeOK
<1>11. ASSUME NEW c \in Callers, OActivated(c) PROVE ObservationTypeOK'
  <2>1. (call \in [Callers -> Calls])'
    <3>1. [call[c] EXCEPT !.pc = "resolved"] \in Calls
      BY DEF Calls
    <3> QED
      BY <1>11, <3>1 DEF OActivated, Activated
  <2>2. (visible \in Tabs /\ seen \in [Observers -> Sights])'
    <3>1. visible' \in Tabs
      BY <1>11 DEF OActivated, Show, Browser, Calls, Targets
    <3>2. \A o \in Observers : seen[o].changes < 2 => [seen[o] EXCEPT !.changes = @
              + 1] \in Sights
      BY DEF Sights
    <3> QED
      BY <1>11, <3>1, <3>2 DEF OActivated, Show
  <2>3. (leases \subseteq [target : Targets, expires : Nat])'
    <3>1. call[c].target \in Targets \cup {None}
      BY DEF Calls
    <3> QED
      BY <1>11, <3>1 DEF OActivated, Activated, Invalidate, Leased, PrunedLeases
  <2>4. (scans \in [Scans -> Taken])' /\ (now \in 0..MaxTime /\ world \in
            0..MaxWorld /\ acked \in 0..MaxWorld)' /\ (cache \in [scan : Scans,
            expires : Nat] \cup {None} /\ flight \in Scans \cup {None})' /\ (lane
            \in Callers \cup {"mutation", None})'
    BY <1>11 DEF OActivated, Activated, Show, Browser, Invalidate, Leased,
         PrunedCache, PrunedLeases
  <2> QED
    BY <2>1, <2>2, <2>3, <2>4 DEF ObservationTypeOK, TypeOK
<1>12. ASSUME NEW c \in Callers, OActivationFails(c) PROVE ObservationTypeOK'
  <2>1. (call \in [Callers -> Calls])'
    BY <1>12, IdleCall DEF OActivationFails, ActivationFails, End
  <2>2. (visible \in Tabs /\ seen \in [Observers -> Sights])'
    <3>1. \A o \in Observers : seen[o].changes < 2 => [seen[o] EXCEPT !.changes = @
              + 1] \in Sights
      BY DEF Sights
    <3> QED
      BY <1>12, <3>1 DEF OActivationFails, Show
  <2>3. (scans \in [Scans -> Taken])' /\ (now \in 0..MaxTime /\ world \in
            0..MaxWorld /\ acked \in 0..MaxWorld)' /\ (cache \in [scan : Scans,
            expires : Nat] \cup {None} /\ flight \in Scans \cup {None})' /\ (leases
            \subseteq [target : Targets, expires : Nat])' /\ (lane \in Callers \cup
            {"mutation", None})'
    BY <1>12 DEF OActivationFails, ActivationFails, Show, End, Idle, Free,
         Invalidate
  <2> QED
    BY <2>1, <2>2, <2>3 DEF ObservationTypeOK, TypeOK
<1>13. ASSUME NEW c \in Callers, OLeave(c) PROVE ObservationTypeOK'
  <2>1. (call \in [Callers -> Calls])'
    BY <1>13, IdleCall DEF OLeave, Leave, End
  <2>2. (visible \in Tabs /\ seen \in [Observers -> Sights])'
    BY <1>13 DEF OLeave, Sights, Unseen
  <2>3. (scans \in [Scans -> Taken])' /\ (now \in 0..MaxTime /\ world \in
            0..MaxWorld /\ acked \in 0..MaxWorld)' /\ (cache \in [scan : Scans,
            expires : Nat] \cup {None} /\ flight \in Scans \cup {None})' /\ (leases
            \subseteq [target : Targets, expires : Nat])' /\ (lane \in Callers \cup
            {"mutation", None})'
    BY <1>13 DEF OLeave, Leave, End, Idle, Free
  <2> QED
    BY <2>1, <2>2, <2>3 DEF ObservationTypeOK, TypeOK
<1>14. ASSUME NEW c \in Observers, Refuse(c) PROVE ObservationTypeOK'
  <2>1. (call \in [Callers -> Calls])'
    BY <1>14, IdleCall DEF Refuse, Leave, End
  <2>2. (visible \in Tabs /\ seen \in [Observers -> Sights])'
    BY <1>14 DEF Refuse, Sights, Unseen
  <2>3. (scans \in [Scans -> Taken])' /\ (now \in 0..MaxTime /\ world \in
            0..MaxWorld /\ acked \in 0..MaxWorld)' /\ (cache \in [scan : Scans,
            expires : Nat] \cup {None} /\ flight \in Scans \cup {None})' /\ (leases
            \subseteq [target : Targets, expires : Nat])' /\ (lane \in Callers \cup
            {"mutation", None})'
    BY <1>14 DEF Refuse, Leave, End, Idle, Free
  <2> QED
    BY <2>1, <2>2, <2>3 DEF ObservationTypeOK, TypeOK
<1>15. ASSUME NEW c \in Observers, Validate(c) PROVE ObservationTypeOK'
  <2>1. (visible \in Tabs /\ seen \in [Observers -> Sights])'
    <3>1. \A n \in 0..2 : [seen[c] EXCEPT !.phase = "checked", !.changes = n] \in
              Sights
      BY CheckedSight
    <3>2. (IF call[c].activate THEN seen[c].changes ELSE 0) \in 0..2
      BY Fields
    <3>3. seen' = [seen EXCEPT ![c] = [seen[c] EXCEPT !.phase = "checked", !.changes
              = IF call[c].activate THEN seen[c].changes ELSE 0]] /\ visible' =
              visible
      BY <1>15 DEF Validate, Look
    <3> QED
      BY <3>1, <3>2, <3>3
  <2>2. (call \in [Callers -> Calls])' /\ (scans \in [Scans -> Taken])' /\ (now \in
            0..MaxTime /\ world \in 0..MaxWorld /\ acked \in 0..MaxWorld)' /\ (cache
            \in [scan : Scans, expires : Nat] \cup {None} /\ flight \in Scans \cup
            {None})' /\ (leases \subseteq [target : Targets, expires : Nat])' /\
            (lane \in Callers \cup {"mutation", None})'
    BY <1>15 DEF Validate, Look, vars
  <2> QED
    BY <2>1, <2>2 DEF ObservationTypeOK, TypeOK
<1>16. ASSUME NEW c \in Observers, LoadOnce(c) PROVE ObservationTypeOK'
  <2>1. (visible \in Tabs /\ seen \in [Observers -> Sights])'
    <3>1. [seen[c] EXCEPT !.phase = "loaded", !.content = visible] \in Sights
      BY LoadedSight
    <3> QED
      BY <1>16, <3>1 DEF LoadOnce, Look
  <2>2. (call \in [Callers -> Calls])' /\ (scans \in [Scans -> Taken])' /\ (now \in
            0..MaxTime /\ world \in 0..MaxWorld /\ acked \in 0..MaxWorld)' /\ (cache
            \in [scan : Scans, expires : Nat] \cup {None} /\ flight \in Scans \cup
            {None})' /\ (leases \subseteq [target : Targets, expires : Nat])' /\
            (lane \in Callers \cup {"mutation", None})'
    BY <1>16 DEF LoadOnce, Look, vars
  <2> QED
    BY <2>1, <2>2 DEF ObservationTypeOK, TypeOK
<1>17. ASSUME NEW c \in Observers, Answer(c) PROVE ObservationTypeOK'
  <2>1. (visible \in Tabs /\ seen \in [Observers -> Sights])'
    <3>1. [seen[c] EXCEPT !.phase = "answered"] \in Sights
      BY DEF Sights
    <3> QED
      BY <1>17, <3>1 DEF Answer, Look
  <2>2. (call \in [Callers -> Calls])' /\ (scans \in [Scans -> Taken])' /\ (now \in
            0..MaxTime /\ world \in 0..MaxWorld /\ acked \in 0..MaxWorld)' /\ (cache
            \in [scan : Scans, expires : Nat] \cup {None} /\ flight \in Scans \cup
            {None})' /\ (leases \subseteq [target : Targets, expires : Nat])' /\
            (lane \in Callers \cup {"mutation", None})'
    BY <1>17 DEF Answer, Look, vars
  <2> QED
    BY <2>1, <2>2 DEF ObservationTypeOK, TypeOK
<1>18. ASSUME MutationActs, Elsewhere PROVE ObservationTypeOK'
  BY <1>18 DEF MutationActs, Elsewhere, vars
<1>19. ASSUME MutationEnds, Elsewhere PROVE ObservationTypeOK'
  BY <1>19 DEF MutationEnds, Invalidate, Elsewhere
<1>20. ASSUME Tick, Elsewhere PROVE ObservationTypeOK'
  BY <1>20 DEF Tick, Elsewhere, vars
<1>21. ASSUME NEW s \in Scans, ProduceInventory(s), Elsewhere PROVE
          ObservationTypeOK'
  <2>1. (scans \in [Scans -> Taken])'
    <3>1. \A found \in Inventories : [scans[s] EXCEPT !.state = "done", !.tabs =
              found] \in Taken
      BY <1>21, DoneScan
    <3> QED
      BY <1>21, <3>1 DEF ProduceInventory
  <2>2. (call \in [Callers -> Calls])' /\ (visible \in Tabs /\ seen \in [Observers
            -> Sights])' /\ (now \in 0..MaxTime /\ world \in 0..MaxWorld /\ acked
            \in 0..MaxWorld)' /\ (cache \in [scan : Scans, expires : Nat] \cup
            {None} /\ flight \in Scans \cup {None})' /\ (leases \subseteq [target :
            Targets, expires : Nat])' /\ (lane \in Callers \cup {"mutation", None})'
    BY <1>21 DEF ProduceInventory, Elsewhere
  <2> QED
    BY <2>1, <2>2 DEF ObservationTypeOK, TypeOK
<1>22. ASSUME NEW s \in Scans, ScanFails(s), Elsewhere PROVE ObservationTypeOK'
  <2>1. (scans \in [Scans -> Taken])'
    <3>1. [scans[s] EXCEPT !.state = "failed"] \in Taken
      BY DEF Taken, ScanStates
    <3> QED
      BY <1>22, <3>1 DEF ScanFails
  <2>2. (call \in [Callers -> Calls])' /\ (visible \in Tabs /\ seen \in [Observers
            -> Sights])' /\ (now \in 0..MaxTime /\ world \in 0..MaxWorld /\ acked
            \in 0..MaxWorld)' /\ (cache \in [scan : Scans, expires : Nat] \cup
            {None} /\ flight \in Scans \cup {None})' /\ (leases \subseteq [target :
            Targets, expires : Nat])' /\ (lane \in Callers \cup {"mutation", None})'
    BY <1>22 DEF ScanFails, Elsewhere
  <2> QED
    BY <2>1, <2>2 DEF ObservationTypeOK, TypeOK
<1>23. ASSUME NEW s \in Scans, InventoryFinished(s), Elsewhere PROVE
          ObservationTypeOK'
  BY <1>23 DEF InventoryFinished, Elsewhere
<1>24. ASSUME NEW s \in Scans, OpenedPage(s), Elsewhere PROVE ObservationTypeOK'
  <2>1. (scans \in [Scans -> Taken])'
    <3>1. \A found \in Inventories : [state |-> "done", world |-> world, tabs |->
              found] \in Taken
      BY DEF Taken, ScanStates
    <3> QED
      BY <1>24, <3>1 DEF OpenedPage, PrimeInventory
  <2>2. (leases \subseteq [target : Targets, expires : Nat])'
    <3>1. \A found \in Inventories, t \in Tabs : t \in found => <<s, t>> \in Targets
      BY <1>24 DEF Targets
    <3> QED
      BY <1>24, <3>1 DEF OpenedPage, PrimeInventory
  <2>3. (call \in [Callers -> Calls])' /\ (visible \in Tabs /\ seen \in [Observers
            -> Sights])' /\ (now \in 0..MaxTime /\ world \in 0..MaxWorld /\ acked
            \in 0..MaxWorld)' /\ (cache \in [scan : Scans, expires : Nat] \cup
            {None} /\ flight \in Scans \cup {None})' /\ (lane \in Callers \cup
            {"mutation", None})'
    BY <1>24 DEF OpenedPage, PrimeInventory, FreshScan, Elsewhere
  <2> QED
    BY <2>1, <2>2, <2>3 DEF ObservationTypeOK, TypeOK
<1>25. ASSUME NEW s \in Scans, FoundPage(s), Elsewhere PROVE ObservationTypeOK'
  <2>1. (scans \in [Scans -> Taken])'
    <3>1. \A found \in Inventories : [state |-> "done", world |-> world, tabs |->
              found] \in Taken
      BY DEF Taken, ScanStates
    <3> QED
      BY <1>25, <3>1 DEF FoundPage, PrimeInventory
  <2>2. (leases \subseteq [target : Targets, expires : Nat])'
    <3>1. \A found \in Inventories, t \in Tabs : t \in found => <<s, t>> \in Targets
      BY <1>25 DEF Targets
    <3> QED
      BY <1>25, <3>1 DEF FoundPage, PrimeInventory
  <2>3. (call \in [Callers -> Calls])' /\ (visible \in Tabs /\ seen \in [Observers
            -> Sights])' /\ (now \in 0..MaxTime /\ world \in 0..MaxWorld /\ acked
            \in 0..MaxWorld)' /\ (cache \in [scan : Scans, expires : Nat] \cup
            {None} /\ flight \in Scans \cup {None})' /\ (lane \in Callers \cup
            {"mutation", None})'
    BY <1>25 DEF FoundPage, PrimeInventory, FreshScan, Elsewhere
  <2> QED
    BY <2>1, <2>2, <2>3 DEF ObservationTypeOK, TypeOK
<1>26. ASSUME UserSwitches PROVE ObservationTypeOK'
  <2>1. (visible \in Tabs /\ seen \in [Observers -> Sights])'
    <3>1. \A o \in Observers : seen[o].changes < 2 => [seen[o] EXCEPT !.changes = @
              + 1] \in Sights
      BY DEF Sights
    <3> QED
      BY <1>26, <3>1 DEF UserSwitches, Show
  <2>2. (call \in [Callers -> Calls])' /\ (scans \in [Scans -> Taken])' /\ (now \in
            0..MaxTime /\ world \in 0..MaxWorld /\ acked \in 0..MaxWorld)' /\ (cache
            \in [scan : Scans, expires : Nat] \cup {None} /\ flight \in Scans \cup
            {None})' /\ (leases \subseteq [target : Targets, expires : Nat])' /\
            (lane \in Callers \cup {"mutation", None})'
    BY <1>26 DEF UserSwitches, Show, vars
  <2> QED
    BY <2>1, <2>2 DEF ObservationTypeOK, TypeOK
<1> QED
  BY <1>1, <1>2, <1>3, <1>4, <1>5, <1>6, <1>7, <1>8, <1>9, <1>10, <1>11, <1>12,
       <1>13, <1>14, <1>15, <1>16, <1>17, <1>18, <1>19, <1>20, <1>21, <1>22, <1>23,
       <1>24, <1>25, <1>26 DEF ONext, Begin, BeginQuery, Step, Others, Scanning,
       Observe, ScanFailed, Elsewhere

(* No older inventory is cached or joined than the last invalidation.      *)
LEMMA CurrentStep ==
  ASSUME ObservationTypeOK, Current, QueriesFresh, [ONext]_ovars
  PROVE  (Current /\ QueriesFresh)'
<1> USE ObservationAssumption DEF ObservationTypeOK, TypeOK, Current, QueriesFresh,
          Targets
<1>1. CASE UNCHANGED ovars
  BY <1>1 DEF ovars, vars
<1>2. ASSUME NEW c \in Callers, NEW a \in BOOLEAN, BeginPid(c, a), Elsewhere PROVE
          (Current /\ QueriesFresh)'
  BY <1>2 DEF BeginPid, MayBegin, Chosen, Call, Take, Idle, Elsewhere
<1>3. ASSUME NEW c \in Callers, NEW a \in BOOLEAN, NEW t \in Targets, BeginExact(c,
          a, t), Elsewhere PROVE (Current /\ QueriesFresh)'
  BY <1>3 DEF BeginExact, MayBegin, Chosen, Call, Take, Idle, PrunedCache,
       PrunedLeases, Elsewhere
<1>4. ASSUME NEW c \in Callers, NEW a \in BOOLEAN, BeginQuery(c, a), Hit(c,
          Call("query", a)), Elsewhere PROVE (Current /\ QueriesFresh)'
  <2>1. Call("query", a) \in Calls /\ PrunedCache.scan \in Scans
    BY <1>4, NewCall DEF Hit, PrunedCache
  <2>2. PICK q \in Calls : Outcome(c, Call("query", a), PrunedCache.scan, q)
    BY <1>4, <2>1, SelectOutcome DEF Hit
  <2>3. PrunedCache = cache /\ cache # None /\ cache' = cache /\ UNCHANGED <<scans,
            flight, acked, world, visible, seen>> /\ call[c].pc = "idle" /\
            Call("query", a).since = acked
    BY <1>4, NewCall DEF Hit, BeginQuery, MayBegin, PrunedCache, Elsewhere
  <2> QED
    BY <1>4, <2>1, <2>2, <2>3 DEF Outcome
<1>5. ASSUME NEW c \in Callers, NEW a \in BOOLEAN, BeginQuery(c, a), Join(c,
          Call("query", a)), Elsewhere PROVE (Current /\ QueriesFresh)'
  BY <1>5 DEF BeginQuery, MayBegin, Join, Call, Idle, Take, PrunedCache,
       PrunedLeases, Elsewhere
<1>6. ASSUME NEW c \in Callers, NEW a \in BOOLEAN, BeginQuery(c, a), Miss(c,
          Call("query", a)), Elsewhere PROVE (Current /\ QueriesFresh)'
  <2>1. PICK s \in Scans :
          /\ scans[s].state = "unused" /\ flight' = s
          /\ scans' = [scans EXCEPT ![s] = [state |-> "running", world |-> world,
                    tabs |-> {}]]
          /\ call' = [call EXCEPT ![c] = [Call("query", a) EXCEPT !.pc = "waiting",
                    !.scan = s]]
    BY <1>6 DEF Miss, FreshScan, Started
  <2>2. /\ PrunedCache = None /\ cache' = None /\ call[c].pc = "idle"
        /\ UNCHANGED <<acked, world, visible, seen>>
    BY <1>6 DEF Miss, BeginQuery, MayBegin, Elsewhere
  <2>3. [Call("query", a) EXCEPT !.pc = "waiting", !.scan = s] \in Calls
    BY NewCall, WaitingCall
  <2> QED
    BY <2>1, <2>2, <2>3, WaitingQuery, Fields
<1>7. ASSUME NEW c \in Callers, BeginList(c), Elsewhere PROVE (Current /\
          QueriesFresh)'
  BY <1>7 DEF BeginList, MayBegin, FreshScan, Started, Call, Idle, Elsewhere
<1>8. ASSUME NEW c \in Callers, Resume(c), Elsewhere PROVE (Current /\
          QueriesFresh)'
  <2>1. call[c] \in Calls /\ call[c].scan \in Scans
    BY <1>8, Fields DEF Resume, Current
  <2>2. PICK q \in Calls : Outcome(c, call[c], call[c].scan, q)
    BY <1>8, <2>1, SelectOutcome DEF Resume
  <2>3. /\ scans[call[c].scan].state = "done" /\ UNCHANGED <<scans, acked, world,
            visible, seen>> /\ flight' \in {flight, None} /\ cache' \in {cache,
            None} /\ call[c].pc = "waiting"
    BY <1>8, Fields DEF Resume, ReleaseWaiter, PrunedCache, Elsewhere
  <2> QED
    BY <1>8, <2>1, <2>2, <2>3 DEF Outcome
<1>9. ASSUME NEW c \in Callers, RememberTargets(c), Elsewhere PROVE (Current /\
          QueriesFresh)'
  BY <1>9 DEF RememberTargets, End, Idle, Free, Remembered, TargetsOf, PrunedCache,
       Elsewhere
<1>10. ASSUME NEW c \in Callers, StopWaiting(c), Elsewhere PROVE (Current /\
          QueriesFresh)'
  BY <1>10 DEF StopWaiting, ReleaseWaiter, End, Idle, Free, Elsewhere
<1>11. ASSUME NEW c \in Callers, OActivated(c) PROVE (Current /\ QueriesFresh)'
  BY <1>11 DEF OActivated, Activated, Show, Browser, Invalidate, Leased,
       PrunedCache, PrunedLeases
<1>12. ASSUME NEW c \in Callers, OActivationFails(c) PROVE (Current /\
          QueriesFresh)'
  BY <1>12 DEF OActivationFails, ActivationFails, Show, End, Idle, Free, Invalidate
<1>13. ASSUME NEW c \in Callers, OLeave(c) PROVE (Current /\ QueriesFresh)'
  BY <1>13 DEF OLeave, Leave, End, Idle, Free
<1>14. ASSUME NEW c \in Observers, Refuse(c) PROVE (Current /\ QueriesFresh)'
  BY <1>14 DEF Refuse, Leave, End, Idle, Free
<1>15. ASSUME NEW c \in Observers, Validate(c) PROVE (Current /\ QueriesFresh)'
  BY <1>15 DEF Validate, Look, vars
<1>16. ASSUME NEW c \in Observers, LoadOnce(c) PROVE (Current /\ QueriesFresh)'
  BY <1>16 DEF LoadOnce, Look, vars
<1>17. ASSUME NEW c \in Observers, Answer(c) PROVE (Current /\ QueriesFresh)'
  BY <1>17 DEF Answer, Look, vars
<1>18. ASSUME MutationActs, Elsewhere PROVE (Current /\ QueriesFresh)'
  BY <1>18 DEF MutationActs, Elsewhere, vars
<1>19. ASSUME MutationEnds, Elsewhere PROVE (Current /\ QueriesFresh)'
  BY <1>19 DEF MutationEnds, Invalidate, Elsewhere
<1>20. ASSUME Tick, Elsewhere PROVE (Current /\ QueriesFresh)'
  BY <1>20 DEF Tick, Elsewhere, vars
<1>21. ASSUME NEW s \in Scans, ProduceInventory(s), Elsewhere PROVE (Current /\
          QueriesFresh)'
  <2>1. PICK found \in Inventories : scans' = [scans EXCEPT ![s].state = "done",
            ![s].tabs = found]
    BY <1>21 DEF ProduceInventory
  <2>2. \A r \in Scans : scans'[r].world = scans[r].world
    BY <2>1, Fields DEF Taken
  <2>3. \A r \in Scans : scans'[r].state = scans[r].state \/ scans'[r].state =
            "done"
    BY <2>1, Fields DEF Taken
  <2>4. cache' = cache \/ (flight = s /\ cache' = [scan |-> s, expires |-> now +
            CacheTTL])
    BY <1>21 DEF ProduceInventory
  <2>5. scans'[s].state = "done" /\ UNCHANGED <<flight, call, world, acked>>
    BY <1>21, <2>1, Fields DEF ProduceInventory, Taken
  <2>6. cache' # None => scans'[cache'.scan].state = "done" /\
            scans'[cache'.scan].world >= acked
    <3>1. CASE cache' = cache
      BY <2>2, <2>3, <3>1
    <3>2. CASE flight = s /\ cache' = [scan |-> s, expires |-> now + CacheTTL]
      <4>1. cache'.scan = s
        BY <3>2
      <4> QED
        BY <2>2, <2>5, <3>2, <4>1 DEF ResolverAssumption, Scans
    <3> QED
      BY <2>4, <3>1, <3>2
  <2>7. flight' # None => scans'[flight'].state \notin {"unused", "cancelled"} /\
            scans'[flight'].world >= acked
    BY <2>2, <2>3, <2>5
  <2>8. Current'
    BY <2>2, <2>3, <2>5, <2>6, <2>7, Fields
  <2>9. QueriesFresh'
    BY <2>2, <2>5, Fields
  <2> QED
    BY <2>8, <2>9
<1>22. ASSUME NEW s \in Scans, ScanFails(s), Elsewhere PROVE (Current /\
          QueriesFresh)'
  BY <1>22 DEF ScanFails, Elsewhere
<1>23. ASSUME NEW s \in Scans, InventoryFinished(s), Elsewhere PROVE (Current /\
          QueriesFresh)'
  BY <1>23 DEF InventoryFinished, Elsewhere
<1>24. ASSUME NEW s \in Scans, OpenedPage(s), Elsewhere PROVE (Current /\
          QueriesFresh)'
  BY <1>24 DEF OpenedPage, PrimeInventory, FreshScan, Elsewhere
<1>25. ASSUME NEW s \in Scans, FoundPage(s), Elsewhere PROVE (Current /\
          QueriesFresh)'
  BY <1>25 DEF FoundPage, PrimeInventory, FreshScan, Elsewhere
<1>26. ASSUME UserSwitches PROVE (Current /\ QueriesFresh)'
  BY <1>26 DEF UserSwitches, Show, vars
<1> QED
  BY <1>1, <1>2, <1>3, <1>4, <1>5, <1>6, <1>7, <1>8, <1>9, <1>10, <1>11, <1>12,
       <1>13, <1>14, <1>15, <1>16, <1>17, <1>18, <1>19, <1>20, <1>21, <1>22, <1>23,
       <1>24, <1>25, <1>26 DEF ONext, Begin, BeginQuery, Step, Others, Scanning,
       Observe, ScanFailed, Elsewhere

(* Scans are cancelled by their last waiter only.                          *)
LEMMA SharedStep ==
  ASSUME ObservationTypeOK, Current, NoCollateral, [ONext]_ovars
  PROVE  NoCollateral'
<1> USE ObservationAssumption DEF ObservationTypeOK, TypeOK, Current, NoCollateral,
          Waiters
<1>1. CASE UNCHANGED ovars
  BY <1>1 DEF ovars, vars
<1>2. ASSUME NEW c \in Callers, NEW a \in BOOLEAN, BeginPid(c, a), Elsewhere PROVE
          NoCollateral'
  BY <1>2 DEF BeginPid, MayBegin, Chosen, Call, Take, Idle, Elsewhere
<1>3. ASSUME NEW c \in Callers, NEW a \in BOOLEAN, NEW t \in Targets, BeginExact(c,
          a, t), Elsewhere PROVE NoCollateral'
  BY <1>3 DEF BeginExact, MayBegin, Chosen, Call, Take, Idle, PrunedCache,
       PrunedLeases, Elsewhere
<1>4. ASSUME NEW c \in Callers, NEW a \in BOOLEAN, BeginQuery(c, a), Hit(c,
          Call("query", a)), Elsewhere PROVE NoCollateral'
  <2>1. Call("query", a) \in Calls /\ PrunedCache.scan \in Scans
    BY <1>4, NewCall DEF Hit, PrunedCache
  <2>2. PICK q \in Calls : Outcome(c, Call("query", a), PrunedCache.scan, q)
    BY <1>4, <2>1, SelectOutcome DEF Hit
  <2>3. PrunedCache = cache /\ cache # None /\ cache' = cache /\ UNCHANGED <<scans,
            flight, acked, world, visible, seen>> /\ call[c].pc = "idle" /\
            Call("query", a).since = acked
    BY <1>4, NewCall DEF Hit, BeginQuery, MayBegin, PrunedCache, Elsewhere
  <2> QED
    BY <1>4, <2>1, <2>2, <2>3 DEF Outcome
<1>5. ASSUME NEW c \in Callers, NEW a \in BOOLEAN, BeginQuery(c, a), Join(c,
          Call("query", a)), Elsewhere PROVE NoCollateral'
  BY <1>5 DEF BeginQuery, MayBegin, Join, Call, Idle, Take, PrunedCache,
       PrunedLeases, Elsewhere
<1>6. ASSUME NEW c \in Callers, NEW a \in BOOLEAN, BeginQuery(c, a), Miss(c,
          Call("query", a)), Elsewhere PROVE NoCollateral'
  <2>1. PICK s \in Scans :
          /\ scans[s].state = "unused" /\ flight' = s
          /\ scans' = [scans EXCEPT ![s] = [state |-> "running", world |-> world,
                    tabs |-> {}]]
          /\ call' = [call EXCEPT ![c] = [Call("query", a) EXCEPT !.pc = "waiting",
                    !.scan = s]]
    BY <1>6 DEF Miss, FreshScan, Started
  <2>2. /\ PrunedCache = None /\ cache' = None /\ call[c].pc = "idle"
        /\ UNCHANGED <<acked, world, visible, seen>>
    BY <1>6 DEF Miss, BeginQuery, MayBegin, Elsewhere
  <2>3. [Call("query", a) EXCEPT !.pc = "waiting", !.scan = s] \in Calls
    BY NewCall, WaitingCall
  <2> QED
    BY <2>1, <2>2, <2>3, WaitingQuery, Fields
<1>7. ASSUME NEW c \in Callers, BeginList(c), Elsewhere PROVE NoCollateral'
  BY <1>7 DEF BeginList, MayBegin, FreshScan, Started, Call, Idle, Elsewhere
<1>8. ASSUME NEW c \in Callers, Resume(c), Elsewhere PROVE NoCollateral'
  <2>1. call[c] \in Calls /\ call[c].scan \in Scans
    BY <1>8, Fields DEF Resume, Current
  <2>2. PICK q \in Calls : Outcome(c, call[c], call[c].scan, q)
    BY <1>8, <2>1, SelectOutcome DEF Resume
  <2>3. /\ scans[call[c].scan].state = "done" /\ UNCHANGED <<scans, acked, world,
            visible, seen>> /\ flight' \in {flight, None} /\ cache' \in {cache,
            None} /\ call[c].pc = "waiting"
    BY <1>8, Fields DEF Resume, ReleaseWaiter, PrunedCache, Elsewhere
  <2> QED
    BY <1>8, <2>1, <2>2, <2>3 DEF Outcome
<1>9. ASSUME NEW c \in Callers, RememberTargets(c), Elsewhere PROVE NoCollateral'
  BY <1>9 DEF RememberTargets, End, Idle, Free, Remembered, TargetsOf, PrunedCache,
       Elsewhere
<1>10. ASSUME NEW c \in Callers, StopWaiting(c), Elsewhere PROVE NoCollateral'
  BY <1>10 DEF StopWaiting, ReleaseWaiter, End, Idle, Free, Elsewhere
<1>11. ASSUME NEW c \in Callers, OActivated(c) PROVE NoCollateral'
  BY <1>11 DEF OActivated, Activated, Show, Browser, Invalidate, Leased,
       PrunedCache, PrunedLeases
<1>12. ASSUME NEW c \in Callers, OActivationFails(c) PROVE NoCollateral'
  BY <1>12 DEF OActivationFails, ActivationFails, Show, End, Idle, Free, Invalidate
<1>13. ASSUME NEW c \in Callers, OLeave(c) PROVE NoCollateral'
  BY <1>13 DEF OLeave, Leave, End, Idle, Free
<1>14. ASSUME NEW c \in Observers, Refuse(c) PROVE NoCollateral'
  BY <1>14 DEF Refuse, Leave, End, Idle, Free
<1>15. ASSUME NEW c \in Observers, Validate(c) PROVE NoCollateral'
  BY <1>15 DEF Validate, Look, vars
<1>16. ASSUME NEW c \in Observers, LoadOnce(c) PROVE NoCollateral'
  BY <1>16 DEF LoadOnce, Look, vars
<1>17. ASSUME NEW c \in Observers, Answer(c) PROVE NoCollateral'
  BY <1>17 DEF Answer, Look, vars
<1>18. ASSUME MutationActs, Elsewhere PROVE NoCollateral'
  BY <1>18 DEF MutationActs, Elsewhere, vars
<1>19. ASSUME MutationEnds, Elsewhere PROVE NoCollateral'
  BY <1>19 DEF MutationEnds, Invalidate, Elsewhere
<1>20. ASSUME Tick, Elsewhere PROVE NoCollateral'
  BY <1>20 DEF Tick, Elsewhere, vars
<1>21. ASSUME NEW s \in Scans, ProduceInventory(s), Elsewhere PROVE NoCollateral'
  BY <1>21 DEF ProduceInventory, Elsewhere
<1>22. ASSUME NEW s \in Scans, ScanFails(s), Elsewhere PROVE NoCollateral'
  BY <1>22 DEF ScanFails, Elsewhere
<1>23. ASSUME NEW s \in Scans, InventoryFinished(s), Elsewhere PROVE NoCollateral'
  BY <1>23 DEF InventoryFinished, Elsewhere
<1>24. ASSUME NEW s \in Scans, OpenedPage(s), Elsewhere PROVE NoCollateral'
  BY <1>24 DEF OpenedPage, PrimeInventory, FreshScan, Elsewhere
<1>25. ASSUME NEW s \in Scans, FoundPage(s), Elsewhere PROVE NoCollateral'
  BY <1>25 DEF FoundPage, PrimeInventory, FreshScan, Elsewhere
<1>26. ASSUME UserSwitches PROVE NoCollateral'
  BY <1>26 DEF UserSwitches, Show, vars
<1> QED
  BY <1>1, <1>2, <1>3, <1>4, <1>5, <1>6, <1>7, <1>8, <1>9, <1>10, <1>11, <1>12,
       <1>13, <1>14, <1>15, <1>16, <1>17, <1>18, <1>19, <1>20, <1>21, <1>22, <1>23,
       <1>24, <1>25, <1>26 DEF ONext, Begin, BeginQuery, Step, Others, Scanning,
       Observe, ScanFailed, Elsewhere

(* A switch moves what is shown, which those count who are observing.      *)
LEMMA ShowOthers ==
  ASSUME ObservationTypeOK, NEW o \in Observers, NEW t \in Tabs, Show(t), ~Observing(o)
  PROVE  seen'[o] = seen[o]
  BY DEF Show

(* Those who do observe have counted it.                                   *)
LEMMA ShowCounts ==
  ASSUME ObservationTypeOK, NEW o \in Observers, NEW t \in Tabs, Show(t), Observing(o),
         NEW tab \in Tabs, Bracketed(tab, seen[o])
  PROVE  /\ Bracketed(tab, seen[o])'
         /\ seen[o].phase # "answered" /\ Noticed(tab, seen[o]) => Noticed(tab, seen[o])'
         /\ seen'[o].phase = seen[o].phase
<1>1. CASE t # visible /\ seen[o].phase # "answered" /\ seen[o].changes < 2
  <2>1. /\ seen'[o].changes = seen[o].changes + 1
        /\ seen'[o].phase = seen[o].phase /\ seen'[o].content = seen[o].content
    BY <1>1 DEF Show, ObservationTypeOK, Sights
  <2> QED
    BY <1>1, <2>1, Fields DEF Bracketed, Noticed, Show
<1>2. CASE ~(t # visible /\ seen[o].phase # "answered" /\ seen[o].changes < 2)
  <2>1. seen'[o] = seen[o]
    BY <1>2 DEF Show
  <2> QED
    BY <1>2, <2>1, Fields DEF Bracketed, Noticed, Show
<1> QED
  BY <1>1, <1>2

(* The first switch leaves the target.                                     *)
LEMMA BracketStep ==
  ASSUME ObservationTypeOK, Current, Bracket, [ONext]_ovars
  PROVE  Bracket'
<1> USE ObservationAssumption DEF ResolverAssumption, ObservationTypeOK, TypeOK,
          Bracket, Followed, Bracketed, Noticed, Observing, Browser, Matches,
          Unseen, Targets
<1>1. CASE UNCHANGED ovars
  BY <1>1 DEF ovars, vars
<1>2. ASSUME NEW c \in Callers, NEW a \in BOOLEAN, BeginPid(c, a), Elsewhere PROVE
          Bracket'
  BY <1>2 DEF BeginPid, MayBegin, Chosen, Call, Take, Idle, Elsewhere
<1>3. ASSUME NEW c \in Callers, NEW a \in BOOLEAN, NEW t \in Targets, BeginExact(c,
          a, t), Elsewhere PROVE Bracket'
  BY <1>3 DEF BeginExact, MayBegin, Chosen, Call, Take, Idle, PrunedCache,
       PrunedLeases, Elsewhere
<1>4. ASSUME NEW c \in Callers, NEW a \in BOOLEAN, BeginQuery(c, a), Hit(c,
          Call("query", a)), Elsewhere PROVE Bracket'
  <2>1. Call("query", a) \in Calls /\ PrunedCache.scan \in Scans
    BY <1>4, NewCall DEF Hit, PrunedCache
  <2>2. PICK q \in Calls : Outcome(c, Call("query", a), PrunedCache.scan, q)
    BY <1>4, <2>1, SelectOutcome DEF Hit
  <2>3. PrunedCache = cache /\ cache # None /\ cache' = cache /\ UNCHANGED <<scans,
            flight, acked, world, visible, seen>> /\ call[c].pc = "idle" /\
            Call("query", a).since = acked
    BY <1>4, NewCall DEF Hit, BeginQuery, MayBegin, PrunedCache, Elsewhere
  <2> QED
    BY <1>4, <2>1, <2>2, <2>3 DEF Outcome
<1>5. ASSUME NEW c \in Callers, NEW a \in BOOLEAN, BeginQuery(c, a), Join(c,
          Call("query", a)), Elsewhere PROVE Bracket'
  BY <1>5 DEF BeginQuery, MayBegin, Join, Call, Idle, Take, PrunedCache,
       PrunedLeases, Elsewhere
<1>6. ASSUME NEW c \in Callers, NEW a \in BOOLEAN, BeginQuery(c, a), Miss(c,
          Call("query", a)), Elsewhere PROVE Bracket'
  <2>1. PICK s \in Scans :
          /\ scans[s].state = "unused" /\ flight' = s
          /\ scans' = [scans EXCEPT ![s] = [state |-> "running", world |-> world,
                    tabs |-> {}]]
          /\ call' = [call EXCEPT ![c] = [Call("query", a) EXCEPT !.pc = "waiting",
                    !.scan = s]]
    BY <1>6 DEF Miss, FreshScan, Started
  <2>2. /\ PrunedCache = None /\ cache' = None /\ call[c].pc = "idle"
        /\ UNCHANGED <<acked, world, visible, seen>>
    BY <1>6 DEF Miss, BeginQuery, MayBegin, Elsewhere
  <2>3. [Call("query", a) EXCEPT !.pc = "waiting", !.scan = s] \in Calls
    BY NewCall, WaitingCall
  <2> QED
    BY <2>1, <2>2, <2>3, WaitingQuery, Fields
<1>7. ASSUME NEW c \in Callers, BeginList(c), Elsewhere PROVE Bracket'
  BY <1>7 DEF BeginList, MayBegin, FreshScan, Started, Call, Idle, Elsewhere
<1>8. ASSUME NEW c \in Callers, Resume(c), Elsewhere PROVE Bracket'
  <2>1. call[c] \in Calls /\ call[c].scan \in Scans
    BY <1>8, Fields DEF Resume, Current
  <2>2. PICK q \in Calls : Outcome(c, call[c], call[c].scan, q)
    BY <1>8, <2>1, SelectOutcome DEF Resume
  <2>3. /\ scans[call[c].scan].state = "done" /\ UNCHANGED <<scans, acked, world,
            visible, seen>> /\ flight' \in {flight, None} /\ cache' \in {cache,
            None} /\ call[c].pc = "waiting"
    BY <1>8, Fields DEF Resume, ReleaseWaiter, PrunedCache, Elsewhere
  <2> QED
    BY <1>8, <2>1, <2>2, <2>3 DEF Outcome
<1>9. ASSUME NEW c \in Callers, RememberTargets(c), Elsewhere PROVE Bracket'
  BY <1>9 DEF RememberTargets, End, Idle, Free, Remembered, TargetsOf, PrunedCache,
       Elsewhere
<1>10. ASSUME NEW c \in Callers, StopWaiting(c), Elsewhere PROVE Bracket'
  BY <1>10 DEF StopWaiting, ReleaseWaiter, End, Idle, Free, Elsewhere
<1>11. ASSUME NEW c \in Callers, OActivated(c) PROVE Bracket'
  <2>1. PICK t \in Tabs : Show(t) /\ call' = [call EXCEPT ![c].pc = "resolved"] /\
            call[c].pc = "activating" /\ (Browser(c) => t = call[c].target[2])
    BY <1>11, Fields DEF OActivated, Activated, Show, Browser, Targets,
         ObservationTypeOK
  <2>2. ASSUME NEW o \in Observers, call'[o] = call[o], Observing(o), Browser(o)
            PROVE Followed(o)'
    <3>1. call[o].target[2] \in Tabs
      BY <2>2, Fields DEF Browser, Targets
    <3> QED
      BY <2>1, <2>2, <3>1, ShowCounts DEF Bracket, Followed
  <2>3. \A o \in Observers : ~Observing(o) => seen'[o] = Unseen
    BY <2>1, ShowOthers DEF Bracket
  <2>4. call'[c].target = call[c].target /\ \A o \in Callers : o # c => call'[o] =
            call[o]
    BY <2>1 DEF ObservationTypeOK, TypeOK, Calls
  <2>5. c \in Observers => seen'[c] = Unseen
    BY <2>1, <2>3 DEF Observing
  <2>6. visible' = t
    BY <2>1 DEF Show
  <2> QED
    BY <2>1, <2>2, <2>3, <2>4, <2>5, <2>6, Fields DEF Bracket, Observing, Browser,
         Bracketed, Noticed, Unseen
<1>12. ASSUME NEW c \in Callers, OActivationFails(c) PROVE Bracket'
  <2>1. PICK t \in Tabs : Show(t) /\ call' = [call EXCEPT ![c] = Idle] /\ call[c].pc
            = "activating"
    BY <1>12 DEF OActivationFails, ActivationFails, End
  <2>2. ASSUME NEW o \in Observers, call'[o] = call[o], Observing(o), Browser(o)
            PROVE Followed(o)'
    <3>1. call[o].target[2] \in Tabs
      BY <2>2, Fields DEF Browser, Targets
    <3> QED
      BY <2>1, <2>2, <3>1, ShowCounts DEF Bracket, Followed
  <2>3. \A o \in Observers : ~Observing(o) => seen'[o] = Unseen
    BY <2>1, ShowOthers DEF Bracket
  <2>4. Idle.pc # "resolved"
    BY DEF Idle
  <2> QED
    BY <2>1, <2>2, <2>3, <2>4, Fields DEF Bracket, Observing, Browser,
         ObservationTypeOK, TypeOK
<1>13. ASSUME NEW c \in Callers, OLeave(c) PROVE Bracket'
  BY <1>13 DEF OLeave, Leave, End, Idle, Free
<1>14. ASSUME NEW c \in Observers, Refuse(c) PROVE Bracket'
  BY <1>14 DEF Refuse, Leave, End, Idle, Free
<1>15. ASSUME NEW c \in Observers, Validate(c) PROVE Bracket'
  BY <1>15 DEF Validate, Look, vars
<1>16. ASSUME NEW c \in Observers, LoadOnce(c) PROVE Bracket'
  <2>1. /\ seen[c].phase = "checked" /\ Observing(c) /\ call' = call /\ visible' =
            visible
        /\ seen'[c].phase = "loaded" /\ seen'[c].content = visible /\
                  seen'[c].changes = seen[c].changes
        /\ \A o \in Observers : o # c => seen'[o] = seen[o]
    BY <1>16 DEF LoadOnce, Look, ObservationTypeOK, Sights, vars
  <2> QED
    BY <2>1, Fields DEF Bracket, Bracketed, Noticed, Observing, Browser
<1>17. ASSUME NEW c \in Observers, Answer(c) PROVE Bracket'
  BY <1>17 DEF Answer, Look, vars
<1>18. ASSUME MutationActs, Elsewhere PROVE Bracket'
  BY <1>18 DEF MutationActs, Elsewhere, vars
<1>19. ASSUME MutationEnds, Elsewhere PROVE Bracket'
  BY <1>19 DEF MutationEnds, Invalidate, Elsewhere
<1>20. ASSUME Tick, Elsewhere PROVE Bracket'
  BY <1>20 DEF Tick, Elsewhere, vars
<1>21. ASSUME NEW s \in Scans, ProduceInventory(s), Elsewhere PROVE Bracket'
  BY <1>21 DEF ProduceInventory, Elsewhere
<1>22. ASSUME NEW s \in Scans, ScanFails(s), Elsewhere PROVE Bracket'
  BY <1>22 DEF ScanFails, Elsewhere
<1>23. ASSUME NEW s \in Scans, InventoryFinished(s), Elsewhere PROVE Bracket'
  BY <1>23 DEF InventoryFinished, Elsewhere
<1>24. ASSUME NEW s \in Scans, OpenedPage(s), Elsewhere PROVE Bracket'
  BY <1>24 DEF OpenedPage, PrimeInventory, FreshScan, Elsewhere
<1>25. ASSUME NEW s \in Scans, FoundPage(s), Elsewhere PROVE Bracket'
  BY <1>25 DEF FoundPage, PrimeInventory, FreshScan, Elsewhere
<1>26. ASSUME UserSwitches PROVE Bracket'
  <2>1. PICK t \in Tabs : Show(t) /\ call' = call
    BY <1>26 DEF UserSwitches, vars
  <2>2. ASSUME NEW o \in Observers, call'[o] = call[o], Observing(o), Browser(o)
            PROVE Followed(o)'
    <3>1. call[o].target[2] \in Tabs
      BY <2>2, Fields DEF Browser, Targets
    <3> QED
      BY <2>1, <2>2, <3>1, ShowCounts DEF Bracket, Followed
  <2>3. \A o \in Observers : ~Observing(o) => seen'[o] = Unseen
    BY <2>1, ShowOthers DEF Bracket
  <2> QED
    BY <2>1, <2>2, <2>3 DEF Bracket, Observing, Browser
<1> QED
  BY <1>1, <1>2, <1>3, <1>4, <1>5, <1>6, <1>7, <1>8, <1>9, <1>10, <1>11, <1>12,
       <1>13, <1>14, <1>15, <1>16, <1>17, <1>18, <1>19, <1>20, <1>21, <1>22, <1>23,
       <1>24, <1>25, <1>26 DEF ONext, Begin, BeginQuery, Step, Others, Scanning,
       Observe, ScanFailed, Elsewhere

(* Every step preserves the invariant.                                     *)
LEMMA ObservationStep == ObservationInv /\ [ONext]_ovars => ObservationInv'
  BY TypeStep, CurrentStep, SharedStep, BracketStep DEF ObservationInv

(* A query ends in an inventory that is young enough: no cache and no      *)
(* shared scan carries it across an invalidation.                          *)
THEOREM InventoriesAreFresh == OSpec => []QueriesFresh
<1>1. ObservationInv => QueriesFresh
  BY DEF ObservationInv
<1> QED
  BY <1>1, ObservationInit, ObservationStep, PTL DEF OSpec

(* A scan that is waited for is not cancelled, and none runs for nobody.   *)
THEOREM ScansAreShared == OSpec => []NoCollateral
<1>1. ObservationInv => NoCollateral
  BY DEF ObservationInv
<1> QED
  BY <1>1, ObservationInit, ObservationStep, PTL DEF OSpec

(* An observation shows its target unless the browser was switched away    *)
(* and back.                                                               *)
THEOREM ObservationsShowTheirTarget == OSpec => []ContentIsTarget
<1>1. ASSUME ObservationInv PROVE ContentIsTarget
  BY <1>1 DEF ObservationInv, ObservationTypeOK, Bracket, Followed, Bracketed, ContentIsTarget,
       Observing, Browser, Unseen
<1> QED
  BY <1>1, ObservationInit, ObservationStep, PTL DEF OSpec
=============================================================================
