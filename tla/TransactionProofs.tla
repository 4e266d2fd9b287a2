-------------------------- MODULE TransactionProofs --------------------------
(***************************************************************************)
(* Proofs about a transaction: the engine, for requests of any length over *)
(* any set of aliases; the ports it acts through, for any number of        *)
(* actions and documents; and the store of its snapshots, for any number   *)
(* of snapshots, targets and ids, any capacity and any time to live.       *)
(***************************************************************************)
EXTENDS Transaction, TransactionPorts, ObservationStore, FiniteSetTheorems, TLAPS

-----------------------------------------------------------------------------
(* The engine.                                                             *)

Stages == {"resolve", "opening", "step", "checks", "dispatch", "expect", "done"}
Results ==
    [status : {"running", "succeeded", "failed", "unknown", "cancelled"},
     retrySafe : BOOLEAN, failedStep : 0..MaxSteps, snapshot : BOOLEAN]

(* Effects of the steps before the current one.                            *)
Past == IF pc = "dispatch" THEN landed \ {n} ELSE landed

Untouched ==
    /\ n = 1 /\ view = NoView /\ dirty = FALSE /\ aliases = NoAliases
    /\ replayUnsafe = FALSE

(* Where the engine is bounds what can have happened.                      *)
Stage ==
    /\ landed \intersect airborne = {}
    /\ pc = "resolve" => Untouched /\ landed = {} /\ airborne = {}
    /\ pc = "opening" => Untouched /\ landed \subseteq {0} /\ airborne \subseteq {0}
    /\ pc \in {"step", "checks", "expect"} => airborne = {}
    /\ pc \in {"step", "checks"} => \A e \in landed : e < n
    /\ pc \in {"checks", "dispatch", "expect"} => n <= Len(request.steps)
    /\ pc = "dispatch" => airborne \subseteq {n} /\ \A e \in landed : e <= n
    /\ pc = "expect" => n \in landed /\ \A e \in landed : e <= n

Progress ==
    pc # "done" =>
        /\ result = Running
        /\ completed = n - 1
        /\ \A m \in 1..(n - 1) : Mutates(request.steps[m]) => m \in landed

(* What the engine remembers of effects and of views is what happened.     *)
Memory ==
    pc # "done" =>
        /\ ~replayUnsafe /\ pc # "opening" => Past = {}
        /\ view # NoView /\ ~dirty => pc # "expect" /\ view = Past
        /\ \A x \in Aliases : aliases[x] # NoView => ~dirty /\ aliases[x] = Past
        /\ pc \in {"checks", "dispatch"} /\ Step.name # NoAlias => aliases[Step.name] # NoView

Answered ==
    pc = "done" =>
        /\ result.status # "running"
        /\ result.retrySafe => landed = {} /\ airborne = {}
        /\ result.status # "unknown" /\ result.status # "cancelled" => airborne = {}
        /\ SnapshotCurrent
        /\ ProgressHonest

Inv ==
    /\ TypeOK
    /\ Len(request.steps) \in 1..MaxSteps
    /\ Stage
    /\ Progress
    /\ Memory
    /\ Answered

-----------------------------------------------------------------------------
(* Requests are checked before the engine sees them.                       *)
LEMMA RequestFacts ==
    ASSUME NEW r \in Requests
    PROVE  r \in AllRequests /\ Len(r.steps) \in 1..MaxSteps
  BY TransactionAssumption DEF Valid

(* A step of a request has the fields of a step.                           *)
LEMMA StepFacts ==
    ASSUME request \in AllRequests, NEW m \in 1..Len(request.steps)
    PROVE  /\ Len(request.steps) \in Nat
           /\ request.steps[m] \in Steps
           /\ request.steps[m].name \in Aliases \union {NoAlias}
           /\ request.steps[m].op \in Operations
  <1>1. request.steps \in Seq(Steps)
    BY DEF AllRequests
  <1>2. Len(request.steps) \in Nat /\ request.steps[m] \in Steps
    BY <1>1
  <1> QED BY <1>2 DEF Steps

(* A view is never mistaken for the absence of one.                        *)
LEMMA NoViewIsNoView ==
    ASSUME NEW S \in Views
    PROVE  S # NoView
  BY TransactionAssumption DEF Views, Effects, NoView

(* The initial states satisfy the invariant.                               *)
LEMMA InitInv == Init => Inv
  <1> SUFFICES ASSUME Init PROVE Inv OBVIOUS
  <1>1. request \in AllRequests /\ Len(request.steps) \in 1..MaxSteps
    BY RequestFacts DEF Init
  <1>2. TypeOK
    <2>1. /\ pc = "resolve" /\ n = 1 /\ completed = 0 /\ result = Running
          /\ dirty = FALSE /\ replayUnsafe = FALSE /\ expired = FALSE
          /\ activation = "none" /\ view = NoView /\ aliases = NoAliases
      BY DEF Init
    <2>2. landed \in Views /\ airborne \in Views
      BY DEF Init, Views
    <2>3. aliases \in [Aliases -> Views \union {NoView}]
      BY <2>1 DEF NoAliases
    <2>4. result \in [status : {"running", "succeeded", "failed", "unknown", "cancelled"},
                      retrySafe : BOOLEAN, failedStep : 0..MaxSteps, snapshot : BOOLEAN]
      BY <2>1, TransactionAssumption DEF Running
    <2>5. n \in 1..(Len(request.steps) + 1) /\ completed \in 0..Len(request.steps)
      BY <1>1, <2>1
    <2> QED BY <1>1, <2>1, <2>2, <2>3, <2>4, <2>5 DEF TypeOK
  <1>3. Stage /\ Progress /\ Memory /\ Answered
    BY <1>1 DEF Init, Stage, Untouched, Progress, Memory, Answered, NoAliases, Past
  <1> QED BY <1>1, <1>2, <1>3 DEF Inv

-----------------------------------------------------------------------------
(* Loading a view shows everything that has happened.                      *)
LEMMA LoadViewEffect ==
    ASSUME Inv, LoadView, pc \in {"step", "expect"}
    PROVE  view' = landed /\ dirty' = FALSE /\ FreshView = landed
  BY DEF Inv, LoadView, FreshView, Memory, Past

(* A failure offers a retry only when nothing has happened.                *)
LEMMA FailedEffect ==
    ASSUME Inv, NEW k \in 0..MaxSteps, NEW seen \in Views \union {NoView},
           NEW stale \in BOOLEAN, Failed(k, seen, stale)
    PROVE  /\ pc' = "done"
           /\ result' \in Results
           /\ result'.status = "failed"
           /\ result'.failedStep = k
           /\ result'.snapshot <=> seen # NoView /\ ~stale
           /\ result'.retrySafe => ~replayUnsafe
  <1>1. /\ pc' = "done"
        /\ result' = [status |-> "failed", retrySafe |-> ~replayUnsafe /\ ~Consequential,
                      failedStep |-> k,
                      snapshot |-> seen # NoView /\ ~stale /\ "failed" # "unknown"]
    BY DEF Failed, Finish
  <1>2. Consequential \in BOOLEAN /\ replayUnsafe \in BOOLEAN
    BY DEF Consequential, Inv, TypeOK
  <1> QED BY <1>1, <1>2 DEF Results

(* The type of the result of any answer.                                   *)
LEMMA UnknownEffect ==
    ASSUME NEW k \in 0..MaxSteps, Unknown(k)
    PROVE  /\ pc' = "done"
           /\ result' \in Results
           /\ result' = [status |-> "unknown", retrySafe |-> FALSE,
                         failedStep |-> k, snapshot |-> FALSE]
  BY DEF Unknown, Finish, Results

-----------------------------------------------------------------------------
(* The type invariant, in the form the steps below use.                    *)
LEMMA TypeFacts ==
    ASSUME Inv
    PROVE  /\ MaxSteps \in Nat
           /\ Len(request.steps) \in 1..MaxSteps
           /\ n \in 1..(Len(request.steps) + 1)
           /\ completed \in 0..Len(request.steps)
           /\ pc \in Stages
           /\ result \in Results
           /\ landed \in Views /\ airborne \in Views
           /\ view \in Views \union {NoView}
           /\ aliases \in [Aliases -> Views \union {NoView}]
           /\ dirty \in BOOLEAN /\ replayUnsafe \in BOOLEAN /\ expired \in BOOLEAN
           /\ n <= Len(request.steps) => n \in Effects
  BY TransactionAssumption DEF Inv, TypeOK, Effects, Stages, Results

(* While the engine works, types are kept by keeping these.                *)
LEMMA TypeStep ==
    ASSUME Inv, request' = request,
           pc' \in Stages,
           n' \in 1..(Len(request.steps) + 1),
           view' \in Views \union {NoView},
           dirty' \in BOOLEAN,
           aliases' \in [Aliases -> Views \union {NoView}],
           replayUnsafe' \in BOOLEAN,
           completed' \in 0..Len(request.steps),
           result' \in Results,
           expired' \in BOOLEAN,
           landed' \in Views, airborne' \in Views,
           activation' \in {"none", "active", "uncertain"}
    PROVE  TypeOK' /\ Len(request'.steps) \in 1..MaxSteps
  BY DEF Inv, TypeOK, Stages, Results

(* Every step of the engine's resolution keeps the invariant.              *)
LEMMA ResolutionInv ==
    ASSUME Inv,
           ResolveTarget \/ ResolveFails \/ OpenTarget \/ OpenSucceeds
           \/ OpenRefused \/ OpenUncertain
    PROVE  Inv'
  <1> USE TypeFacts
  <1>1. CASE ResolveTarget
    <2>1. /\ pc' = "step" /\ pc = "resolve" /\ UNCHANGED <<engineVars, result, expired, landed, airborne>>
          /\ activation' \in {"none", "active", "uncertain"}
      BY <1>1 DEF ResolveTarget, Inv, TypeOK
    <2>2. TypeOK' /\ Len(request'.steps) \in 1..MaxSteps
      BY <2>1, TypeStep DEF engineVars, Stages
    <2>3. Stage' /\ Progress' /\ Memory' /\ Answered'
      BY <2>1 DEF engineVars, Inv, Stage, Untouched, Progress, Memory, Past, Answered, NoAliases
    <2> QED BY <2>2, <2>3 DEF Inv
  <1>2. CASE ResolveFails
    <2>1. /\ pc = "resolve" /\ UNCHANGED <<engineVars, expired, landed, airborne>>
          /\ activation' \in {"none", "active", "uncertain"}
          /\ Failed(0, view, dirty)
      BY <1>2 DEF ResolveFails, Inv, TypeOK
    <2>2. /\ pc' = "done" /\ result' \in Results
          /\ result'.status = "failed" /\ result'.failedStep = 0 /\ result'.snapshot = FALSE
      <3>1. view = NoView /\ dirty = FALSE
        BY <2>1 DEF Inv, Stage, Untouched
      <3>2. 0 \in 0..MaxSteps
        OBVIOUS
      <3> QED BY <2>1, <3>1, <3>2, FailedEffect DEF Results
    <2>3. TypeOK' /\ Len(request'.steps) \in 1..MaxSteps
      BY <2>1, <2>2, TypeStep DEF engineVars, Stages
    <2>4. Stage' /\ Progress' /\ Memory' /\ Answered'
      BY <2>1, <2>2 DEF engineVars, Inv, Stage, Progress, Memory, Answered,
         SnapshotCurrent, ProgressHonest
    <2> QED BY <2>3, <2>4 DEF Inv
  <1>3. CASE OpenTarget
    <2>1. /\ pc' = "opening" /\ pc = "resolve" /\ airborne' = {0}
          /\ UNCHANGED <<engineVars, result, expired, landed, activation>>
      BY <1>3 DEF OpenTarget
    <2>2. airborne' \in Views
      BY <2>1 DEF Views, Effects
    <2>3. TypeOK' /\ Len(request'.steps) \in 1..MaxSteps
      BY <2>1, <2>2, TypeStep DEF engineVars, Stages, Inv, TypeOK
    <2>4. Stage' /\ Progress' /\ Memory' /\ Answered'
      BY <2>1 DEF engineVars, Inv, Stage, Untouched, Progress, Memory, Past, Answered, NoAliases
    <2> QED BY <2>3, <2>4 DEF Inv
  <1>4. CASE OpenSucceeds
    <2>1. /\ pc' = "step" /\ pc = "opening" /\ 0 \in landed
          /\ replayUnsafe' = TRUE /\ activation' = "active"
          /\ UNCHANGED <<request, n, view, dirty, aliases, completed, result, expired,
                         landed, airborne>>
      BY <1>4 DEF OpenSucceeds
    <2>2. TypeOK' /\ Len(request'.steps) \in 1..MaxSteps
      BY <2>1, TypeStep DEF Stages
    <2>3. airborne = {} /\ \A e \in landed : e = 0
      BY <2>1 DEF Inv, Stage
    <2>4. Stage' /\ Progress' /\ Memory' /\ Answered'
      BY <2>1, <2>3 DEF Inv, Stage, Untouched, Progress, Memory, Past, Answered, NoAliases
    <2> QED BY <2>2, <2>4 DEF Inv
  <1>5. CASE OpenRefused
    <2>1. /\ pc = "opening" /\ 0 \notin landed /\ airborne' = {}
          /\ UNCHANGED <<engineVars, expired, landed, activation>>
          /\ Failed(0, view, dirty)
      BY <1>5 DEF OpenRefused
    <2>2. /\ pc' = "done" /\ result' \in Results
          /\ result'.status = "failed" /\ result'.failedStep = 0 /\ result'.snapshot = FALSE
      <3>1. view = NoView /\ dirty = FALSE
        BY <2>1 DEF Inv, Stage, Untouched
      <3>2. 0 \in 0..MaxSteps
        OBVIOUS
      <3> QED BY <2>1, <3>1, <3>2, FailedEffect DEF Results
    <2>3. landed = {} /\ airborne' \in Views
      BY <2>1 DEF Inv, Stage, Views
    <2>4. TypeOK' /\ Len(request'.steps) \in 1..MaxSteps
      BY <2>1, <2>2, <2>3, TypeStep DEF engineVars, Stages, Inv, TypeOK
    <2>5. Stage' /\ Progress' /\ Memory' /\ Answered'
      BY <2>1, <2>2, <2>3 DEF engineVars, Inv, Stage, Progress, Memory, Answered,
         SnapshotCurrent, ProgressHonest
    <2> QED BY <2>4, <2>5 DEF Inv
  <1>6. CASE OpenUncertain
    <2>1. /\ pc = "opening" /\ UNCHANGED <<engineVars, worldVars>>
          /\ pc' = "done"
          /\ result' \in {[status |-> "unknown", retrySafe |-> FALSE, failedStep |-> 0,
                           snapshot |-> FALSE],
                          [status |-> "cancelled", retrySafe |-> FALSE, failedStep |-> 0,
                           snapshot |-> FALSE]}
      BY <1>6, UnknownEffect DEF OpenUncertain, Cancelled, FailedAt, Running
    <2>5. 0 \in 0..MaxSteps
      OBVIOUS
    <2>4. result' \in Results
      <3>1. \A s \in {"unknown", "cancelled"} :
               [status |-> s, retrySafe |-> FALSE, failedStep |-> 0, snapshot |-> FALSE]
                  \in Results
        BY <2>5 DEF Results
      <3> QED BY <2>1, <3>1
    <2>2. TypeOK' /\ Len(request'.steps) \in 1..MaxSteps
      BY <2>1, <2>4, TypeStep DEF engineVars, worldVars, Stages, Results, Inv, TypeOK
    <2>3. Stage' /\ Progress' /\ Memory' /\ Answered'
      BY <2>1 DEF engineVars, worldVars, Inv, Stage, Progress, Memory, Answered,
         SnapshotCurrent, ProgressHonest
    <2> QED BY <2>2, <2>3 DEF Inv
  <1> QED BY <1>1, <1>2, <1>3, <1>4, <1>5, <1>6

-----------------------------------------------------------------------------
(* An answer of "failed" while nothing is in the air keeps the invariant.  *)
LEMMA FailureInv ==
    ASSUME Inv, pc \in {"step", "checks", "expect"},
           NEW k \in 0..MaxSteps, NEW seen \in Views \union {NoView}, NEW stale \in BOOLEAN,
           Failed(k, seen, stale),
           view' = seen, dirty' = stale,
           k = 0 \/ k = n,
           seen # NoView /\ ~stale => seen = landed,
           UNCHANGED <<request, n, aliases, replayUnsafe, completed, worldVars>>
    PROVE  Inv'
  <1> USE TypeFacts
  <1>1. /\ pc' = "done" /\ result' \in Results
        /\ result'.status = "failed"
        /\ result'.failedStep = k
        /\ result'.snapshot <=> seen # NoView /\ ~stale
        /\ result'.retrySafe => ~replayUnsafe
    BY FailedEffect
  <1>2. airborne = {} /\ Past = landed /\ pc # "opening" /\ pc # "done"
    BY DEF Inv, Stage, Past
  <1>3. TypeOK' /\ Len(request'.steps) \in 1..MaxSteps
    BY <1>1, TypeStep DEF worldVars, Stages, Inv, TypeOK
  <1>4. Stage' /\ Progress' /\ Memory'
    BY <1>1, <1>2 DEF worldVars, Inv, Stage, Progress, Memory
  <1>5. result'.retrySafe => landed = {}
    BY <1>1, <1>2 DEF Inv, Memory
  <1>6. SnapshotCurrent'
    BY <1>1, <1>2 DEF SnapshotCurrent, worldVars
  <1>7. ProgressHonest'
    <2>1. \A e \in landed : e <= n
      BY DEF Inv, Stage, Views, Effects
    <2>2. CASE k = 0
      BY <2>2, <1>1 DEF ProgressHonest
    <2>3. CASE k = n
      <3>1. completed = n - 1
            /\ \A m \in 1..(n - 1) : Mutates(request.steps[m]) => m \in landed
        BY <1>2 DEF Inv, Progress
      <3>2. landed \union airborne \subseteq 0..n
        BY <2>1, <1>2 DEF Views, Effects
      <3> QED BY <1>1, <2>3, <3>1, <3>2 DEF ProgressHonest, worldVars
    <2> QED BY <2>2, <2>3
  <1> QED BY <1>1, <1>2, <1>3, <1>4, <1>5, <1>6, <1>7 DEF Inv, Answered, worldVars

(* So does a cancellation at an await outside of a dispatch.               *)
LEMMA CancelInv == Inv /\ Cancel => Inv'
  <1> SUFFICES ASSUME Inv, Cancel PROVE Inv' OBVIOUS
  <1> USE TypeFacts
  <1>1. /\ pc \in {"resolve", "step", "checks", "expect"}
        /\ UNCHANGED <<engineVars, worldVars>>
        /\ Cancelled
    BY DEF Cancel, Suspends, AtStep, AfterSteps
  <1>2. FailedAt \in {0, n} \intersect (0..MaxSteps)
    BY DEF FailedAt
  <1>3. /\ pc' = "done" /\ result' \in Results
        /\ result'.retrySafe = FALSE /\ result'.snapshot = FALSE
        /\ \/ result'.status = "unknown" /\ result'.failedStep \in {0, n}
           \/ result'.status = "cancelled" /\ result'.failedStep = 0
    <2>1. CASE replayUnsafe
      BY <1>1, <1>2, <2>1, UnknownEffect DEF Cancelled
    <2>2. CASE ~replayUnsafe
      <3>1. 0 \in 0..MaxSteps
        OBVIOUS
      <3> QED BY <1>1, <2>2, <3>1 DEF Cancelled, Running, Results
    <2> QED BY <2>1, <2>2
  <1>4. TypeOK' /\ Len(request'.steps) \in 1..MaxSteps
    BY <1>1, <1>3, TypeStep DEF engineVars, worldVars, Stages, Inv, TypeOK
  <1>5. Stage' /\ Progress' /\ Memory'
    BY <1>1, <1>3 DEF engineVars, worldVars, Inv, Stage, Progress, Memory
  <1>6. ProgressHonest'
    <2>1. /\ airborne = {} /\ \A e \in landed : e <= n
          /\ completed = n - 1
          /\ \A m \in 1..(n - 1) : Mutates(request.steps[m]) => m \in landed
      BY <1>1 DEF Inv, Stage, Progress, Views, Effects
    <2>2. landed \union airborne \subseteq 0..n
      BY <2>1 DEF Views, Effects
    <2> QED BY <1>1, <1>3, <2>1, <2>2 DEF ProgressHonest, engineVars, worldVars
  <1> QED BY <1>1, <1>3, <1>4, <1>5, <1>6 DEF Inv, Answered, SnapshotCurrent

-----------------------------------------------------------------------------
(* Every step that locates, checks or expects keeps the invariant.         *)
LEMMA ObservationInv ==
    ASSUME Inv,
           Locate \/ LocateFails \/ StepFails \/ SelectAction \/ Expected
           \/ Succeed \/ FinalFails
    PROVE  Inv'
  <1> USE TypeFacts
  <1>0. n \in 0..MaxSteps \/ n > Len(request.steps)
    OBVIOUS
  <1>1. CASE Locate
    <2>1. /\ pc = "step" /\ n <= Len(request.steps) /\ airborne = {} /\ Past = landed
          /\ ~Mutates(Step)
      BY <1>1 DEF Locate, AtStep, Inv, Stage, Past, Mutates
    <2>2. /\ view' = landed /\ dirty' = FALSE
          /\ completed' = completed + 1 /\ n' = n + 1
          /\ UNCHANGED <<request, pc, replayUnsafe, result, worldVars>>
          /\ aliases' \in {aliases, [aliases EXCEPT ![Step.name] = landed]}
      BY <1>1, <2>1, LoadViewEffect DEF Locate
    <2>3. aliases' \in [Aliases -> Views \union {NoView}]
      BY <2>2
    <2>4. completed = n - 1
      BY <2>1 DEF Inv, Progress
    <2>10. /\ n + 1 \in 1..(Len(request.steps) + 1)
           /\ completed + 1 \in 0..Len(request.steps)
      BY <2>1, <2>4
    <2>5. TypeOK' /\ Len(request'.steps) \in 1..MaxSteps
      BY <2>2, <2>3, <2>10, TypeStep DEF worldVars, Inv, TypeOK
    <2>6. \A e \in landed : e < n + 1
      BY <2>1 DEF Inv, Stage, Views, Effects
    <2>7. Stage'
      BY <2>1, <2>2, <2>6 DEF Inv, Stage, worldVars
    <2>8. Progress'
      <3>1. \A m \in 1..n : m \in 1..(n - 1) \/ m = n
        OBVIOUS
      <3> QED BY <2>1, <2>2, <2>4, <3>1 DEF Inv, Progress, worldVars, Step
    <2>9. Memory'
      BY <2>1, <2>2 DEF Inv, Memory, Past, worldVars
    <2> QED BY <2>1, <2>2, <2>5, <2>7, <2>8, <2>9 DEF Inv, Answered
  <1>2. CASE LocateFails
    <2>1. pc = "step" /\ n \in 0..MaxSteps /\ LoadView /\ Failed(n, FreshView, FALSE)
          /\ UNCHANGED <<request, n, aliases, replayUnsafe, completed, worldVars>>
      <3>1. n <= Len(request.steps)
        BY <1>2 DEF LocateFails, AtStep
      <3>2. n \in 0..MaxSteps
        BY <3>1
      <3> QED BY <1>2, <3>2 DEF LocateFails, AtStep
    <2>2. view' = landed /\ dirty' = FALSE /\ FreshView = landed
      BY <2>1, LoadViewEffect
    <2> QED BY <2>1, <2>2, FailureInv
  <1>3. CASE StepFails
    <2>1. /\ pc \in {"step", "checks", "expect"} /\ n \in 0..MaxSteps
          /\ Failed(n, view, dirty) /\ UNCHANGED <<engineVars, worldVars>>
      BY <1>3 DEF StepFails
    <2>2. view # NoView /\ ~dirty => view = landed
      BY <2>1 DEF Inv, Memory, Past
    <2> QED BY <2>1, <2>2, FailureInv DEF engineVars
  <1>4. CASE SelectAction
    <2>1. /\ pc = "step" /\ n <= Len(request.steps) /\ airborne = {} /\ Past = landed
          /\ pc' = "checks"
          /\ UNCHANGED <<request, n, aliases, replayUnsafe, completed, result, worldVars>>
      BY <1>4 DEF SelectAction, AtStep, Inv, Stage, Past
    <2>2. \/ view' = landed /\ dirty' = FALSE
          \/ UNCHANGED <<view, dirty>>
      BY <1>4, <2>1, LoadViewEffect DEF SelectAction
    <2>3. TypeOK' /\ Len(request'.steps) \in 1..MaxSteps
      BY <2>1, <2>2, TypeStep DEF worldVars, Inv, TypeOK, Stages
    <2>4. Stage' /\ Progress'
      BY <2>1 DEF Inv, Stage, Progress, worldVars
    <2>6. /\ Step' = Step
          /\ Step.name # NoAlias => aliases[Step.name] # NoView
      BY <1>4, <2>1 DEF Step, SelectAction
    <2>5. Memory'
      BY <2>1, <2>2, <2>6 DEF Inv, Memory, Past, worldVars
    <2> QED BY <2>1, <2>3, <2>4, <2>5 DEF Inv, Answered
  <1>5. CASE Expected
    <2>1. /\ pc = "expect" /\ airborne = {} /\ n <= Len(request.steps) /\ n \in landed
          /\ LoadView
          /\ UNCHANGED <<request, aliases, replayUnsafe, worldVars>>
      BY <1>5 DEF Expected, Inv, Stage
    <2>2. view' = landed /\ dirty' = FALSE /\ FreshView = landed
      BY <2>1, LoadViewEffect
    <2>3. CASE Failed(n, FreshView, FALSE) /\ UNCHANGED <<n, completed>>
      <3>1. n \in 0..MaxSteps
        BY <2>1
      <3> QED BY <2>1, <2>2, <2>3, <3>1, FailureInv
    <2>4. CASE pc' = "step" /\ n' = n + 1 /\ completed' = completed + 1 /\ UNCHANGED result
      <3>1. completed = n - 1
            /\ \A m \in 1..(n - 1) : Mutates(request.steps[m]) => m \in landed
        BY <2>1 DEF Inv, Progress
      <3>7. /\ n + 1 \in 1..(Len(request.steps) + 1)
            /\ completed + 1 \in 0..Len(request.steps)
        BY <2>1, <3>1
      <3>2. TypeOK' /\ Len(request'.steps) \in 1..MaxSteps
        BY <2>1, <2>2, <2>4, <3>7, TypeStep DEF worldVars, Inv, TypeOK, Stages
      <3>3. \A e \in landed : e < n + 1
        BY <2>1 DEF Inv, Stage, Views, Effects
      <3>4. Stage'
        BY <2>1, <2>4, <3>3 DEF Inv, Stage, worldVars
      <3>5. Progress'
        <4>1. \A m \in 1..n : m \in 1..(n - 1) \/ m = n
          OBVIOUS
        <4> QED BY <2>1, <2>4, <3>1, <4>1 DEF Inv, Progress, worldVars
      <3>6. Memory'
        BY <2>1, <2>2, <2>4 DEF Inv, Memory, Past, worldVars
      <3> QED BY <2>4, <3>2, <3>4, <3>5, <3>6 DEF Inv, Answered
    <2> QED BY <1>5, <2>3, <2>4 DEF Expected
  <1>6. CASE Succeed
    <2>1. /\ pc = "step" /\ n = Len(request.steps) + 1 /\ airborne = {} /\ Past = landed
          /\ UNCHANGED <<request, n, aliases, replayUnsafe, completed, worldVars>>
      BY <1>6 DEF Succeed, AfterSteps, Inv, Stage, Past
    <2>2. /\ pc' = "done" /\ view' \in Views \union {NoView} /\ dirty' \in BOOLEAN
          /\ view' # NoView /\ ~dirty' => view' = landed
          /\ result' = [status |-> "succeeded", retrySafe |-> FALSE, failedStep |-> 0,
                        snapshot |-> view' # NoView /\ ~dirty']
      <3>1. CASE Finish("succeeded", FALSE, 0, view, dirty) /\ UNCHANGED <<view, dirty>>
        BY <2>1, <3>1 DEF Finish, Inv, Memory, Past
      <3>2. CASE LoadView /\ Finish("succeeded", FALSE, 0, FreshView, FALSE)
        BY <2>1, <3>2, LoadViewEffect DEF Finish
      <3> QED BY <1>6, <3>1, <3>2 DEF Succeed
    <2>3. result' \in Results
      <3>1. 0 \in 0..MaxSteps
        OBVIOUS
      <3> QED BY <2>2, <3>1 DEF Results
    <2>4. TypeOK' /\ Len(request'.steps) \in 1..MaxSteps
      BY <2>1, <2>2, <2>3, TypeStep DEF worldVars, Inv, TypeOK, Stages
    <2>5. Stage' /\ Progress' /\ Memory'
      BY <2>1, <2>2 DEF Inv, Stage, Progress, Memory, worldVars
    <2>6. completed = Len(request.steps)
          /\ \A m \in 1..Len(request.steps) : Mutates(request.steps[m]) => m \in landed
      BY <2>1 DEF Inv, Progress
    <2>7. SnapshotCurrent' /\ ProgressHonest'
      BY <2>1, <2>2, <2>6 DEF SnapshotCurrent, ProgressHonest, worldVars
    <2> QED BY <2>1, <2>2, <2>4, <2>5, <2>7 DEF Inv, Answered, worldVars
  <1>7. CASE FinalFails
    <2>1. /\ pc = "step" /\ 0 \in 0..MaxSteps
          /\ UNCHANGED <<request, n, aliases, replayUnsafe, completed, worldVars>>
      BY <1>7 DEF FinalFails, AfterSteps
    <2>2. CASE Failed(0, view, dirty) /\ UNCHANGED <<view, dirty>>
      <3>1. view # NoView /\ ~dirty => view = landed
        BY <2>1 DEF Inv, Memory, Past
      <3> QED BY <2>1, <2>2, <3>1, FailureInv
    <2>3. CASE LoadView /\ Failed(0, FreshView, FALSE)
      <3>1. view' = landed /\ dirty' = FALSE /\ FreshView = landed
        BY <2>1, <2>3, LoadViewEffect
      <3> QED BY <2>1, <2>3, <3>1, FailureInv
    <2> QED BY <1>7, <2>2, <2>3 DEF FinalFails
  <1> QED BY <1>1, <1>2, <1>3, <1>4, <1>5, <1>6, <1>7

-----------------------------------------------------------------------------
(* Every step of a dispatch keeps the invariant.                           *)
LEMMA DispatchInv ==
    ASSUME Inv, Dispatch \/ Acknowledged \/ Declined \/ Uncertain
    PROVE  Inv'
  <1> USE TypeFacts
  <1>0. ASSUME ForgetViews
        PROVE  /\ dirty' = TRUE /\ \A x \in Aliases : aliases'[x] = NoView
               /\ aliases' \in [Aliases -> Views \union {NoView}]
    BY <1>0 DEF ForgetViews, NoAliases
  <1>1. CASE Dispatch
    <2>1. /\ pc = "checks" /\ airborne' = {n} /\ pc' = "dispatch"
          /\ n <= Len(request.steps) /\ airborne = {} /\ Past = landed
          /\ n \notin landed
          /\ UNCHANGED <<engineVars, result, expired, landed, activation>>
      BY <1>1 DEF Dispatch, Inv, Stage, Past
    <2>2. airborne' \in Views
      BY <2>1 DEF Views
    <2>3. TypeOK' /\ Len(request'.steps) \in 1..MaxSteps
      BY <2>1, <2>2, TypeStep DEF engineVars, Inv, TypeOK, Stages
    <2>4. \A e \in landed : e <= n
      BY <2>1 DEF Inv, Stage, Views, Effects
    <2>5. Stage' /\ Progress'
      BY <2>1, <2>4 DEF Inv, Stage, Progress, engineVars
    <2>6. landed \ {n} = landed
      BY <2>1
    <2>8. Step' = Step
      BY <2>1 DEF Step, engineVars
    <2>7. Memory'
      BY <2>1, <2>6, <2>8 DEF Inv, Memory, Past, engineVars
    <2> QED BY <2>1, <2>3, <2>5, <2>7 DEF Inv, Answered
  <1>2. CASE Acknowledged
    <2>1. /\ pc = "dispatch" /\ n \in landed /\ n <= Len(request.steps)
          /\ replayUnsafe' = TRUE /\ ForgetViews
          /\ UNCHANGED <<request, view, result, worldVars>>
          /\ \/ pc' = "expect" /\ UNCHANGED <<n, completed>>
             \/ pc' = "step" /\ n' = n + 1 /\ completed' = completed + 1
      BY <1>2 DEF Acknowledged, Inv, Stage
    <2>2. /\ airborne = {} /\ completed = n - 1 /\ \A e \in landed : e <= n /\ e < n + 1
          /\ \A m \in 1..(n - 1) : Mutates(request.steps[m]) => m \in landed
      BY <2>1 DEF Inv, Stage, Progress, Views, Effects
    <2>3. /\ n' \in 1..(Len(request.steps) + 1) /\ completed' \in 0..Len(request.steps)
          /\ completed' = n' - 1
      BY <2>1, <2>2
    <2>4. TypeOK' /\ Len(request'.steps) \in 1..MaxSteps
      BY <1>0, <2>1, <2>3, TypeStep DEF worldVars, Inv, TypeOK, Stages
    <2>5. Stage'
      BY <2>1, <2>2 DEF Inv, Stage, worldVars
    <2>6. Progress'
      <3>1. \A m \in 1..n : m \in 1..(n - 1) \/ m = n
        OBVIOUS
      <3>2. /\ result' = Running
            /\ landed' = landed /\ request' = request
        BY <2>1 DEF Inv, Progress, worldVars
      <3>3. \A m \in 1..(n' - 1) : m \in 1..(n - 1) \/ m = n
        BY <2>1, <3>1
      <3>4. \A m \in 1..(n' - 1) : Mutates(request.steps[m]) => m \in landed
        BY <2>1, <2>2, <3>3
      <3> QED BY <2>3, <3>2, <3>4 DEF Progress, Mutates
    <2>7. Memory'
      BY <1>0, <2>1 DEF Memory
    <2> QED BY <2>1, <2>4, <2>5, <2>6, <2>7 DEF Inv, Answered
  <1>3. CASE Declined
    <2>1. /\ pc = "dispatch" /\ n \notin landed /\ airborne' = {} /\ ForgetViews
          /\ n \in 0..MaxSteps
          /\ Failed(n, view, TRUE)
          /\ UNCHANGED <<request, n, view, replayUnsafe, completed, expired, landed, activation>>
      <3>1. n <= Len(request.steps)
        BY <1>3 DEF Declined, Inv, Stage
      <3>2. n \in 0..MaxSteps
        BY <3>1
      <3> QED BY <1>3, <3>2 DEF Declined
    <2>2. /\ pc' = "done" /\ result' \in Results /\ result'.status = "failed"
          /\ result'.failedStep = n /\ result'.snapshot = FALSE
          /\ result'.retrySafe => ~replayUnsafe
      BY <2>1, FailedEffect DEF Results
    <2>3. airborne' \in Views
      BY <2>1 DEF Views
    <2>4. TypeOK' /\ Len(request'.steps) \in 1..MaxSteps
      BY <1>0, <2>1, <2>2, <2>3, TypeStep DEF Inv, TypeOK, Stages
    <2>5. ~replayUnsafe => landed = {}
      BY <2>1 DEF Inv, Memory, Past
    <2>6. /\ completed = n - 1 /\ landed \subseteq 0..n
          /\ \A m \in 1..(n - 1) : Mutates(request.steps[m]) => m \in landed
      BY <2>1 DEF Inv, Stage, Progress, Views, Effects
    <2>7. Stage' /\ Progress' /\ Memory'
      BY <2>1, <2>2 DEF Inv, Stage, Progress, Memory
    <2>8. SnapshotCurrent' /\ ProgressHonest'
      BY <2>1, <2>2, <2>6 DEF SnapshotCurrent, ProgressHonest
    <2> QED BY <2>1, <2>2, <2>4, <2>5, <2>7, <2>8 DEF Inv, Answered
  <1>4. CASE Uncertain
    <2>1. /\ pc = "dispatch" /\ ForgetViews /\ n \in 0..MaxSteps /\ Unknown(n)
          /\ UNCHANGED <<request, n, view, replayUnsafe, completed, worldVars>>
      <3>1. n <= Len(request.steps)
        BY <1>4 DEF Uncertain, Inv, Stage
      <3>2. n \in 0..MaxSteps
        BY <3>1
      <3> QED BY <1>4, <3>2 DEF Uncertain
    <2>2. /\ pc' = "done" /\ result' \in Results
          /\ result'.status = "unknown" /\ result'.retrySafe = FALSE
          /\ result'.failedStep = n /\ result'.snapshot = FALSE
      BY <2>1, UnknownEffect
    <2>3. TypeOK' /\ Len(request'.steps) \in 1..MaxSteps
      BY <1>0, <2>1, <2>2, TypeStep DEF worldVars, Inv, TypeOK, Stages
    <2>4. /\ completed = n - 1 /\ landed \subseteq 0..n /\ airborne \subseteq 0..n
          /\ \A m \in 1..(n - 1) : Mutates(request.steps[m]) => m \in landed
      BY <2>1 DEF Inv, Stage, Progress, Views, Effects
    <2>5. Stage' /\ Progress' /\ Memory'
      BY <2>1, <2>2 DEF Inv, Stage, Progress, Memory, worldVars
    <2>6. SnapshotCurrent' /\ ProgressHonest'
      BY <2>1, <2>2, <2>4 DEF SnapshotCurrent, ProgressHonest, worldVars
    <2> QED BY <2>1, <2>2, <2>3, <2>5, <2>6 DEF Inv, Answered
  <1> QED BY <1>1, <1>2, <1>3, <1>4

(* The clock and the provider keep the invariant.                          *)
LEMMA WorldInv ==
    ASSUME Inv, Expire \/ Land \/ Fizzle
    PROVE  Inv'
  <1> USE TypeFacts
  <1>1. CASE Expire
    <2>1. expired' = TRUE /\ UNCHANGED <<engineVars, pc, result, landed, airborne, activation>>
      BY <1>1 DEF Expire
    <2>2. TypeOK' /\ Len(request'.steps) \in 1..MaxSteps
      BY <2>1, TypeStep DEF engineVars, Inv, TypeOK
    <2>4. Step' = Step
      BY <2>1 DEF Step, engineVars
    <2>3. Stage' /\ Progress'
      BY <2>1 DEF engineVars, Inv, Stage, Untouched, Progress, NoAliases
    <2>5. Memory'
      BY <2>1, <2>4 DEF engineVars, Inv, Memory, Past
    <2>6. Answered'
      BY <2>1 DEF engineVars, Inv, Answered, SnapshotCurrent, ProgressHonest
    <2> QED BY <2>2, <2>3, <2>5, <2>6 DEF Inv
  <1>2. CASE Land
    <2>1. /\ airborne # {} /\ landed' = landed \union airborne /\ airborne' = {}
          /\ UNCHANGED <<engineVars, pc, result, expired, activation>>
      BY <1>2 DEF Land
    <2>2. landed' \in Views /\ airborne' \in Views
      BY <2>1 DEF Views
    <2>3. TypeOK' /\ Len(request'.steps) \in 1..MaxSteps
      BY <2>1, <2>2, TypeStep DEF engineVars, Inv, TypeOK
    <2>4. pc \in {"opening", "dispatch", "done"}
      BY <2>1 DEF Inv, Stage, Stages
    <2>5. \A e \in landed \union airborne : pc = "dispatch" => e <= n
      BY <2>4 DEF Inv, Stage
    <2>6. Stage'
      BY <2>1, <2>4, <2>5 DEF Inv, Stage, Untouched, engineVars, NoAliases
    <2>7. Past' = Past \/ pc # "dispatch"
      BY <2>1, <2>4 DEF Inv, Stage, Past, engineVars
    <2>10. Step' = Step
      BY <2>1 DEF Step, engineVars
    <2>8. Progress' /\ Memory'
      BY <2>1, <2>4, <2>7, <2>10 DEF Inv, Progress, Memory, engineVars, Stage, Untouched, NoAliases
    <2>9. Answered'
      BY <2>1 DEF Inv, Answered, SnapshotCurrent, ProgressHonest, engineVars
    <2> QED BY <2>3, <2>6, <2>8, <2>9 DEF Inv
  <1>3. CASE Fizzle
    <2>1. /\ airborne # {} /\ airborne' = {} /\ pc = "done"
          /\ UNCHANGED <<engineVars, pc, result, expired, landed, activation>>
      BY <1>3 DEF Fizzle
    <2>2. airborne' \in Views
      BY <2>1 DEF Views
    <2>3. TypeOK' /\ Len(request'.steps) \in 1..MaxSteps
      BY <2>1, <2>2, TypeStep DEF engineVars, Inv, TypeOK
    <2>4. Stage' /\ Progress' /\ Memory' /\ Answered'
      BY <2>1 DEF engineVars, Inv, Stage, Progress, Memory, Answered,
         SnapshotCurrent, ProgressHonest
    <2> QED BY <2>3, <2>4 DEF Inv
  <1> QED BY <1>1, <1>2, <1>3

(* A step that changes nothing keeps the invariant.                        *)
LEMMA StutterInv == Inv /\ UNCHANGED vars => Inv'
  BY DEF Step, vars, engineVars, worldVars, Inv, TypeOK, Stage, Untouched, Progress, Memory,
     Past, Answered, SnapshotCurrent, ProgressHonest, NoAliases

(* The invariant holds in every reachable state.                           *)
LEMMA Invariance == Spec => []Inv
  <1>1. Inv /\ [Next]_vars => Inv'
    BY ResolutionInv, ObservationInv, DispatchInv, WorldInv, CancelInv, StutterInv DEF Next
  <1> QED BY InitInv, <1>1, PTL DEF Spec

-----------------------------------------------------------------------------
(* Every reachable state has its type.                                     *)
THEOREM TypeCorrect == Spec => []TypeOK
  <1>1. Inv => TypeOK
    BY DEF Inv
  <1> QED BY Invariance, <1>1, PTL

(* An action never uses an element resolved before an earlier action.      *)
THEOREM ReferencesAreFresh == Spec => []FreshReferences
  <1>1. Inv => FreshReferences
    <2> SUFFICES ASSUME Inv, pc \in {"checks", "dispatch"}, Step.name # NoAlias
                 PROVE  aliases[Step.name] = Past
      BY DEF FreshReferences, Past
    <2> USE TypeFacts
    <2>1. Step.name \in Aliases /\ n <= Len(request.steps)
      BY StepFacts DEF Inv, Stage, TypeOK, Step
    <2> QED BY <2>1 DEF Inv, Memory
  <1> QED BY Invariance, <1>1, PTL

(* A snapshot handed out with an answer is current, and stays current.     *)
THEOREM SnapshotIsCurrent == Spec => []SnapshotCurrent
  <1>1. Inv => SnapshotCurrent
    BY DEF Inv, Answered, Progress, SnapshotCurrent, Running
  <1> QED BY Invariance, <1>1, PTL

(* The progress an answer reports is the progress that was made.           *)
THEOREM ProgressIsHonest == Spec => []ProgressHonest
  <1>1. Inv => ProgressHonest
    BY DEF Inv, Answered, Progress, ProgressHonest, Running
  <1> QED BY Invariance, <1>1, PTL

(* Nothing is dispatched after the deadline.                               *)
THEOREM DispatchesAreInTime == Spec => DispatchInTime
  <1>1. [Next]_vars => (airborne' \subseteq airborne \/ ~expired)
    BY DEF Next, ResolveTarget, ResolveFails, OpenTarget, OpenSucceeds, OpenRefused,
       OpenUncertain, Locate, LocateFails, StepFails, SelectAction, Dispatch, Acknowledged,
       Declined, Uncertain, Expected, Succeed, FinalFails, Cancel, Expire, Land, Fizzle,
       vars, engineVars, worldVars
  <1> QED BY <1>1, PTL DEF Spec, DispatchInTime

-----------------------------------------------------------------------------
OneAirborne == airborne = {} \/ \E e \in Effects : airborne = {e}

(* At most one effect is in the air.                                       *)
LEMMA AirborneInvariance == Spec => []OneAirborne
  <1>1. Init => OneAirborne
    BY DEF Init, OneAirborne
  <1>2. Inv /\ OneAirborne /\ [Next]_vars => OneAirborne'
    <2> SUFFICES ASSUME Inv, OneAirborne, [Next]_vars PROVE OneAirborne'
      OBVIOUS
    <2>1. airborne' \in {airborne, {}, {0}} \/ Dispatch
      BY DEF Next, ResolveTarget, ResolveFails, OpenTarget, OpenSucceeds, OpenRefused,
         OpenUncertain, Locate, LocateFails, StepFails, SelectAction, Acknowledged,
         Declined, Uncertain, Expected, Succeed, FinalFails, Cancel, Expire, Land, Fizzle,
         vars, engineVars, worldVars
    <2>2. CASE Dispatch
      <3>1. n \in Effects
        BY <2>2, TypeFacts DEF Dispatch, Inv, Stage
      <3> QED BY <2>2, <3>1 DEF Dispatch, OneAirborne
    <2>3. CASE airborne' \in {airborne, {}, {0}}
      <3>1. 0 \in Effects /\ Effects' = Effects
        BY TypeFacts DEF Effects
      <3> QED BY <2>3, <3>1 DEF OneAirborne
    <2> QED BY <2>1, <2>2, <2>3
  <1> QED BY Invariance, <1>1, <1>2, PTL DEF Spec

(* An answer of the engine is an answer the contract allows.               *)
LEMMA AnswerStep ==
    ASSUME Inv, Inv', pc # "done", pc' = "done",
           landed' = landed, airborne' \in {airborne, {}},
           result'.status = "cancelled" => landed \union airborne' \subseteq {0}
    PROVE  \E v \in Contract!Verdicts : Contract!Answer(v)
  <1>1. Verdict = "none"
    BY DEF Verdict, Inv, Progress, Running
  <1>2. /\ result' \in Results /\ result'.status # "running"
        /\ result'.retrySafe => landed' = {} /\ airborne' = {}
        /\ result'.status # "unknown" /\ result'.status # "cancelled" => airborne' = {}
    BY DEF Inv, TypeOK, Results, Answered
  <1>3. Verdict' \in Contract!Verdicts /\ Verdict' # "none"
    BY <1>2 DEF Verdict, Results, Contract!Verdicts
  <1>4. /\ Verdict' = "retry" => result'.retrySafe
        /\ Verdict' = "cancelled" => result'.status = "cancelled"
        /\ Verdict' \in {"failed", "succeeded"}
              => result'.status # "unknown" /\ result'.status # "cancelled"
    BY <1>2 DEF Verdict, Results
  <1>5. Contract!Allowed(Verdict', airborne')
    BY <1>2, <1>3, <1>4 DEF Contract!Allowed, Contract!Verdicts
  <1> QED BY <1>1, <1>3, <1>5 DEF Contract!Answer

(* Every step of the engine is a step of the contract, or none of it.      *)
LEMMA StepSimulation ==
    Inv /\ Inv' /\ OneAirborne /\ [Next]_vars => [Contract!AbsNext]_(Contract!absVars)
  <1> SUFFICES ASSUME Inv, Inv', OneAirborne, [Next]_vars
               PROVE  Contract!AbsNext \/ UNCHANGED <<landed, airborne, Verdict>>
    BY DEF Contract!absVars
  <1> USE TypeFacts
  <1>1. ASSUME UNCHANGED <<landed, airborne, result>>
        PROVE  UNCHANGED <<landed, airborne, Verdict>>
    BY <1>1 DEF Verdict
  <1>2. ASSUME \E v \in Contract!Verdicts : Contract!Answer(v)
        PROVE  Contract!AbsNext
    BY <1>2 DEF Contract!AbsNext
  <1>3. CASE ResolveTarget \/ OpenSucceeds \/ Locate \/ SelectAction \/ Acknowledged
             \/ Expire \/ UNCHANGED vars
    BY <1>1, <1>3 DEF ResolveTarget, OpenSucceeds, Locate, SelectAction, Acknowledged,
       Expire, vars, engineVars, worldVars
  <1>4. CASE Expected /\ pc' # "done"
    BY <1>1, <1>4 DEF Expected, Failed, Finish, worldVars
  <1>5. CASE ResolveFails \/ OpenRefused \/ LocateFails \/ StepFails \/ Declined \/ Uncertain
             \/ Succeed \/ FinalFails \/ (Expected /\ pc' = "done")
    <2>1. pc # "done" /\ pc' = "done" /\ landed' = landed /\ airborne' \in {airborne, {}}
      BY <1>5 DEF ResolveFails, OpenRefused, LocateFails, StepFails, Declined, Uncertain,
         Succeed, FinalFails, Expected, Failed, Unknown, Finish, AtStep, AfterSteps,
         engineVars, worldVars
    <2>2. result'.status # "cancelled"
      BY <1>5 DEF ResolveFails, OpenRefused, LocateFails, StepFails, Declined, Uncertain,
         Succeed, FinalFails, Expected, Failed, Unknown, Finish
    <2> QED BY <1>2, <2>1, <2>2, AnswerStep
  <1>6. CASE OpenUncertain
    <2>1. /\ pc = "opening" /\ pc' = "done" /\ UNCHANGED worldVars
      BY <1>6 DEF OpenUncertain, Unknown, Cancelled, Finish
    <2>2. landed \union airborne \subseteq {0}
      BY <2>1 DEF Inv, Stage
    <2> QED BY <1>2, <2>1, <2>2, AnswerStep DEF worldVars
  <1>7. CASE Cancel
    <2>1. /\ pc \in {"resolve", "step", "checks", "expect"} /\ pc' = "done"
          /\ UNCHANGED worldVars
      BY <1>7 DEF Cancel, Suspends, AtStep, AfterSteps, Cancelled, Unknown, Finish
    <2>2. result'.status = "cancelled" => ~replayUnsafe
      BY <1>7 DEF Cancel, Cancelled, Unknown, Finish
    <2>3. ~replayUnsafe => landed = {}
      BY <2>1 DEF Inv, Memory, Past
    <2>4. airborne = {}
      BY <2>1 DEF Inv, Stage
    <2> QED BY <1>2, <2>1, <2>2, <2>3, <2>4, AnswerStep DEF worldVars
  <1>8. CASE OpenTarget \/ Dispatch
    <2>1. PICK e \in Effects : /\ airborne' = {e} /\ airborne = {} /\ \A f \in landed : f < e
                               /\ UNCHANGED <<landed, result>> /\ result = Running
      <3>1. CASE OpenTarget
        <4>1. 0 \in Effects
          BY DEF Effects
        <4> QED BY <3>1, <4>1 DEF OpenTarget, Inv, Stage, Progress
      <3>2. CASE Dispatch
        BY <3>2 DEF Dispatch, Inv, Stage, Progress
      <3> QED BY <1>8, <3>1, <3>2
    <2>2. Verdict = "none" /\ Verdict' = "none"
      BY <2>1 DEF Verdict, Running
    <2>3. Contract!Attempt(e)
      BY <2>1, <2>2 DEF Contract!Attempt
    <2> QED BY <2>3 DEF Contract!AbsNext, Contract!Effects, Effects
  <1>9. CASE Land \/ Fizzle
    <2>1. PICK e \in Effects : airborne = {e}
      BY <1>9 DEF Land, Fizzle, OneAirborne
    <2>2. Verdict' = Verdict
      BY <1>9 DEF Land, Fizzle, Verdict
    <2>3. Contract!Land(e) \/ Contract!Fizzle(e)
      BY <1>9, <2>1, <2>2 DEF Land, Fizzle, Contract!Land, Contract!Fizzle
    <2> QED BY <2>3 DEF Contract!AbsNext, Contract!Effects, Effects
  <1> QED BY <1>3, <1>4, <1>5, <1>6, <1>7, <1>8, <1>9 DEF Next

(* Whatever the provider, the clock and the client do, the engine keeps    *)
(* the replay contract: effects are attempted in order and once, a retry   *)
(* is offered only when nothing has happened or will.                      *)
THEOREM EngineImplementsReplayContract == Spec => ImplementsReplayContract
  <1>1. Init => Contract!AbsInit
    BY DEF Init, Contract!AbsInit, Verdict, Running
  <1> QED BY Invariance, AirborneInvariance, StepSimulation, <1>1, PTL
       DEF Spec, ImplementsReplayContract, Contract!AbsSpec

-----------------------------------------------------------------------------
(* The ports: every step of TransactionPorts is a step of PortContract or  *)
(* leaves what it speaks of alone.                                         *)

(* A script dispatches before it acts, and checks nothing that could still *)
(* decline the action once it has acted.                                   *)
Ordered(s) ==
  /\ \A i \in 1..Len(s) : s[i] = "act" => \E j \in 1..(i - 1) : s[j] = "dispatch"
  /\ \A i, j \in 1..Len(s) : s[i] \in {"pointer", "focused"} /\ s[j] = "act" => i < j

Readings == [doc : Nat, tree : Nat \cup {Nothing}, shows : SUBSET Nat]

PortsTypeOK ==
  /\ Len(script) \in Nat /\ at \in Nat /\ begun \in Nat /\ doc \in Nat
  /\ happened \in SUBSET Nat /\ sent \in BOOLEAN
  /\ outstanding \in {"none", "act", "focus"} /\ ack \in {"none", "ok", "failed"}
  /\ place \in {"engine", "reading", "action", "waiting", "completing"} \cup Over
  /\ reading \in Readings \cup {Nothing}

Nowhere == place \in {"engine", "reading", "action", "completing"}
InAction == place \in {"action", "waiting", "completing"}

(* A command is outstanding only while its action waits for it, or after   *)
(* the action is over: then the lane is fenced.                            *)
OneCommand ==
  /\ Nowhere => outstanding = "none"
  /\ outstanding = "act" /\ place \in Over => fence
  /\ outstanding = "act" => sent

(* What was sent was dispatched, and what its action goes on from has      *)
(* happened.                                                               *)
Dispatching ==
  /\ InAction /\ sent => Dispatched
  /\ place = "action" /\ sent => \E j \in 1..(at - 1) : j <= Len(script) /\ script[j] = "act"
  /\ place = "waiting" => at \in 1..Len(script)
  /\ place = "waiting" /\ sent => \E j \in 1..at : script[j] = "act"
  /\ place \in {"action", "completing"} /\ sent => begun \in happened
  /\ place = "waiting" /\ sent /\ (outstanding = "focus" \/ ack = "ok") => begun \in happened
  /\ place \in {"action", "waiting"} /\ ~sent => begun < MaxEffects

(* What is kept for the next refresh, and a reading that has its tree,     *)
(* show all that has happened.                                             *)
KeptIsCurrent ==
  /\ NeedsView /\ pending # Nothing => pending = happened
  /\ place \in {"engine", "action", "waiting"} \/ mode = "foreground" => reading = Nothing
  /\ place \in {"reading", "completing"} /\ reading # Nothing =>
        (reading.tree # Nothing => reading.shows = happened)

PortsInv ==
  /\ PortsTypeOK /\ Ordered(script)
  /\ OneCommand /\ Dispatching /\ KeptIsCurrent

-----------------------------------------------------------------------------
(* A script is ordered if it dispatches before its first command that acts,*)
(* and acts after the last check that declines.                            *)
LEMMA OrderedScript ==
    ASSUME NEW s, NEW k \in Nat, Len(s) = k,
           NEW d \in 1..k, s[d] = "dispatch",
           \A i \in 1..k : s[i] = "act" => d < i,
           \A i, j \in 1..k : s[i] \in {"pointer", "focused"} /\ s[j] = "act" => i < j
    PROVE  Ordered(s) /\ Len(s) \in Nat
  BY DEF Ordered

(* Every script of either runtime is.                                      *)
LEMMA ScriptsAreOrdered ==
    ASSUME NEW s \in Scripts
    PROVE  Ordered(s) /\ Len(s) \in Nat
<1>1. Ordered(Press) /\ Len(Press) \in Nat
  BY OrderedScript DEF Press
<1>2. Ordered(PointerClick) /\ Len(PointerClick) \in Nat
  BY OrderedScript DEF PointerClick
<1>3. Ordered(SecureValue) /\ Len(SecureValue) \in Nat
  BY OrderedScript DEF SecureValue
<1>4. Ordered(Hover) /\ Len(Hover) \in Nat
  BY OrderedScript DEF Hover
<1>5. Ordered(ScrollAt) /\ Len(ScrollAt) \in Nat
  BY OrderedScript DEF ScrollAt
<1>6. Ordered(Scroll) /\ Len(Scroll) \in Nat
  BY OrderedScript DEF Scroll
<1>7. Ordered(Keyboard) /\ Len(Keyboard) \in Nat
  <2>1. Len(Keyboard) = 6
    BY DEF Keyboard
  <2>2. /\ Keyboard[1] = "element" /\ Keyboard[2] = "available"
              /\ Keyboard[3] = "target" /\ Keyboard[4] = "focused"
              /\ Keyboard[5] = "dispatch" /\ Keyboard[6] = "act"
    BY DEF Keyboard
  <2>3. \A i \in 1..6 : Keyboard[i] = "act" => i >= 6
    BY <2>2
  <2>4. \A i \in 1..6 : Keyboard[i] \in {"pointer", "focused"} => i < 6
    BY <2>2
  <2> QED BY <2>1, <2>2, <2>3, <2>4 DEF Ordered
<1>8. Ordered(FocusAndKeyboard) /\ Len(FocusAndKeyboard) \in Nat
  <2>1. Len(FocusAndKeyboard) = 7
    BY DEF FocusAndKeyboard
  <2>2. /\ FocusAndKeyboard[1] = "element" /\ FocusAndKeyboard[2] = "available"
              /\ FocusAndKeyboard[3] = "target" /\ FocusAndKeyboard[4] = "focus" /\ FocusAndKeyboard[5] = "focused"
              /\ FocusAndKeyboard[6] = "dispatch" /\ FocusAndKeyboard[7] = "act"
    BY DEF FocusAndKeyboard
  <2>3. \A i \in 1..7 : FocusAndKeyboard[i] = "act" => i >= 7
    BY <2>2
  <2>4. \A i \in 1..7 : FocusAndKeyboard[i] \in {"pointer", "focused"} => i < 7
    BY <2>2
  <2> QED BY <2>1, <2>2, <2>3, <2>4 DEF Ordered
<1>9. Ordered(ShadowClick) /\ Len(ShadowClick) \in Nat
  BY OrderedScript DEF ShadowClick
<1>10. Ordered(ShadowHover) /\ Len(ShadowHover) \in Nat
  <2>1. Len(ShadowHover) = 6
    BY DEF ShadowHover
  <2>2. /\ ShadowHover[1] = "revision" /\ ShadowHover[2] = "node"
              /\ ShadowHover[3] = "revision" /\ ShadowHover[4] = "node"
              /\ ShadowHover[5] = "dispatch" /\ ShadowHover[6] = "act"
    BY DEF ShadowHover
  <2>3. \A i \in 1..6 : ShadowHover[i] = "act" => i >= 6
    BY <2>2
  <2>4. \A i \in 1..6 : ShadowHover[i] \in {"pointer", "focused"} => i < 6
    BY <2>2
  <2> QED BY <2>1, <2>2, <2>3, <2>4 DEF Ordered
<1>11. Ordered(ShadowScroll) /\ Len(ShadowScroll) \in Nat
  BY OrderedScript DEF ShadowScroll
<1>12. Ordered(ShadowType) /\ Len(ShadowType) \in Nat
  BY OrderedScript DEF ShadowType
<1>13. Ordered(ShadowKey) /\ Len(ShadowKey) \in Nat
  <2>1. Len(ShadowKey) = 7
    BY DEF ShadowKey
  <2>2. /\ ShadowKey[1] = "revision" /\ ShadowKey[2] = "node"
              /\ ShadowKey[3] = "dispatch" /\ ShadowKey[4] = "focus" /\ ShadowKey[5] = "focused"
              /\ ShadowKey[6] = "act" /\ ShadowKey[7] = "act"
    BY DEF ShadowKey
  <2>3. \A i \in 1..7 : ShadowKey[i] = "act" => i >= 6
    BY <2>2
  <2>4. \A i \in 1..7 : ShadowKey[i] \in {"pointer", "focused"} => i < 6
    BY <2>2
  <2> QED BY <2>1, <2>2, <2>3, <2>4 DEF Ordered
<1>14. \/ s = Press \/ s = PointerClick \/ s = SecureValue \/ s = Hover
       \/ s = ScrollAt \/ s = Scroll \/ s = Keyboard \/ s = FocusAndKeyboard
       \/ s = ShadowClick \/ s = ShadowHover \/ s = ShadowScroll
       \/ s = ShadowType \/ s = ShadowKey
  BY DEF Scripts, Located, ShadowLocated
<1> QED
  BY <1>1, <1>2, <1>3, <1>4, <1>5, <1>6, <1>7, <1>8, <1>9, <1>10, <1>11, <1>12,
     <1>13, <1>14

THEOREM PortsInvInit == PortsInit => PortsInv
<1> SUFFICES ASSUME PortsInit PROVE PortsInv
  OBVIOUS
<1> USE DEF PortsInit
<1>1. Len(<<>>) = 0
  OBVIOUS
<1>2. Ordered(script)
  BY <1>1 DEF Ordered
<1>3. PortsTypeOK
  BY <1>1 DEF PortsTypeOK
<1>4. OneCommand /\ Dispatching /\ KeptIsCurrent
  BY DEF OneCommand, Dispatching, KeptIsCurrent, Nowhere, InAction, NeedsView, Over
<1> QED
  BY <1>2, <1>3, <1>4 DEF PortsInv

LEMMA RaisePendingStep == PortsInv /\ RaisePending => PortsInv'
<1> SUFFICES ASSUME PortsInv, RaisePending PROVE PortsInv'
  OBVIOUS
<1> USE DEF PortsInv, RaisePending, NeedsView
<1>1. PortsTypeOK'
  BY DEF PortsTypeOK, action, effects, world, Over
<1>2. Ordered(script)'
  BY DEF action
<1>3. OneCommand'
  BY DEF OneCommand, Nowhere, effects
<1>4. Dispatching'
  BY DEF Dispatching, InAction
<1>5. KeptIsCurrent'
  BY DEF KeptIsCurrent
<1> QED BY <1>1, <1>2, <1>3, <1>4, <1>5

LEMMA UsePendingStep == PortsInv /\ UsePending => PortsInv'
<1> SUFFICES ASSUME PortsInv, UsePending PROVE PortsInv'
  OBVIOUS
<1> USE DEF PortsInv, UsePending, HandOut, NeedsView
<1>1. PortsTypeOK'
  BY DEF PortsTypeOK, effects, world
<1>2. Ordered(script)'
  OBVIOUS
<1>3. OneCommand'
  BY DEF OneCommand, Nowhere, effects
<1>4. Dispatching'
  BY DEF Dispatching, InAction
<1>5. KeptIsCurrent'
  BY DEF KeptIsCurrent
<1> QED BY <1>1, <1>2, <1>3, <1>4, <1>5

LEMMA StartReadingStep == PortsInv /\ StartReading => PortsInv'
<1> SUFFICES ASSUME PortsInv, StartReading PROVE PortsInv'
  OBVIOUS
<1> USE DEF PortsInv, StartReading, NeedsView
<1>1. PortsTypeOK'
  BY DEF PortsTypeOK, action, effects, kept, world
<1>2. Ordered(script)'
  BY DEF action
<1>3. OneCommand'
  BY DEF OneCommand, Nowhere, effects
<1>4. Dispatching'
  BY DEF Dispatching, InAction
<1>5. KeptIsCurrent'
  BY DEF KeptIsCurrent, kept
<1> QED BY <1>1, <1>2, <1>3, <1>4, <1>5

LEMMA LoadRootStep == PortsInv /\ LoadRoot => PortsInv'
<1> SUFFICES ASSUME PortsInv, LoadRoot PROVE PortsInv'
  OBVIOUS
<1> USE DEF PortsInv, LoadRoot, HandOut
<1>1. PortsTypeOK'
  BY DEF PortsTypeOK, effects, kept, world
<1>2. Ordered(script)'
  OBVIOUS
<1>3. OneCommand'
  BY DEF OneCommand, Nowhere, effects
<1>4. Dispatching'
  BY DEF Dispatching, InAction
<1>5. KeptIsCurrent'
  BY DEF KeptIsCurrent, NeedsView, kept
<1> QED BY <1>1, <1>2, <1>3, <1>4, <1>5

LEMMA ReadRevisionStep == PortsInv /\ ReadRevision => PortsInv'
<1> SUFFICES ASSUME PortsInv, ReadRevision PROVE PortsInv'
  OBVIOUS
<1> USE DEF PortsInv, ReadRevision, ReadsPage
<1>1. PortsTypeOK'
  BY DEF PortsTypeOK, action, effects, world, Readings
<1>2. Ordered(script)'
  BY DEF action
<1>3. OneCommand'
  BY DEF OneCommand, Nowhere, effects
<1>4. Dispatching'
  BY DEF Dispatching, Dispatched, InAction, action, effects
<1>5. KeptIsCurrent'
  BY DEF KeptIsCurrent, NeedsView
<1> QED BY <1>1, <1>2, <1>3, <1>4, <1>5

LEMMA ReadTreeStep == PortsInv /\ ReadTree => PortsInv'
<1> SUFFICES ASSUME PortsInv, ReadTree PROVE PortsInv'
  OBVIOUS
<1> USE DEF PortsInv, ReadTree, ReadsPage
<1>1. PortsTypeOK'
  BY DEF PortsTypeOK, action, effects, world, Readings
<1>2. Ordered(script)'
  BY DEF action
<1>3. OneCommand'
  BY DEF OneCommand, Nowhere, effects
<1>4. Dispatching'
  BY DEF Dispatching, Dispatched, InAction, action, effects
<1>5. KeptIsCurrent'
  BY DEF KeptIsCurrent, NeedsView, effects
<1> QED BY <1>1, <1>2, <1>3, <1>4, <1>5

LEMMA ViewReadStep == PortsInv /\ ViewRead => PortsInv'
<1> SUFFICES ASSUME PortsInv, ViewRead PROVE PortsInv'
  OBVIOUS
<1> USE DEF PortsInv, ViewRead, Bracketed, HandOut
<1>1. PortsTypeOK'
  BY DEF PortsTypeOK, effects, world
<1>2. Ordered(script)'
  OBVIOUS
<1>3. OneCommand'
  BY DEF OneCommand, Nowhere, effects
<1>4. Dispatching'
  BY DEF Dispatching, InAction
<1>5. KeptIsCurrent'
  BY DEF KeptIsCurrent, NeedsView
<1> QED BY <1>1, <1>2, <1>3, <1>4, <1>5

LEMMA ReadAgainStep == PortsInv /\ ReadAgain => PortsInv'
<1> SUFFICES ASSUME PortsInv, ReadAgain PROVE PortsInv'
  OBVIOUS
<1> USE DEF PortsInv, ReadAgain, ReadsPage
<1>1. PortsTypeOK'
  BY DEF PortsTypeOK, action, effects, world
<1>2. Ordered(script)'
  BY DEF action
<1>3. OneCommand'
  BY DEF OneCommand, Nowhere, effects
<1>4. Dispatching'
  BY DEF Dispatching, Dispatched, InAction, action, effects
<1>5. KeptIsCurrent'
  BY DEF KeptIsCurrent, NeedsView
<1> QED BY <1>1, <1>2, <1>3, <1>4, <1>5

LEMMA BeginActionStep == PortsInv /\ BeginAction => PortsInv'
<1> SUFFICES ASSUME PortsInv, BeginAction PROVE PortsInv'
  OBVIOUS
<1> USE DEF PortsInv, BeginAction
<1>1. PortsTypeOK'
  BY ScriptsAreOrdered DEF PortsTypeOK, kept, world
<1>2. Ordered(script)'
  BY ScriptsAreOrdered
<1>3. OneCommand'
  BY DEF OneCommand, Nowhere
<1>4. Dispatching'
  BY DEF Dispatching
<1>5. KeptIsCurrent'
  BY DEF KeptIsCurrent, NeedsView, kept
<1> QED BY <1>1, <1>2, <1>3, <1>4, <1>5

LEMMA CheckStep == PortsInv /\ Check => PortsInv'
<1> SUFFICES ASSUME PortsInv, Check PROVE PortsInv'
  OBVIOUS
<1> USE DEF PortsInv, Check, Advance, Current, Commands
<1>1. PortsTypeOK'
  BY DEF PortsTypeOK, effects, kept, world
<1>2. Ordered(script)'
  OBVIOUS
<1>3. OneCommand'
  BY DEF OneCommand, Nowhere, effects
<1>4. Dispatching'
  BY DEF Dispatching, Dispatched, InAction, effects
<1>5. KeptIsCurrent'
  BY DEF KeptIsCurrent, NeedsView, kept
<1> QED BY <1>1, <1>2, <1>3, <1>4, <1>5

LEMMA RefuseStep == PortsInv /\ Refuse => PortsInv'
<1> SUFFICES ASSUME PortsInv, Refuse PROVE PortsInv'
  OBVIOUS
<1> USE DEF PortsInv, Refuse, Current, Commands
<1>1. PortsTypeOK'
  BY DEF PortsTypeOK, action, effects, world, Over
<1>2. Ordered(script)'
  BY DEF action
<1>3. OneCommand'
  BY DEF OneCommand, Nowhere, effects
<1>4. Dispatching'
  BY DEF Dispatching, InAction
<1>5. KeptIsCurrent'
  BY DEF KeptIsCurrent, NeedsView
<1> QED BY <1>1, <1>2, <1>3, <1>4, <1>5

LEMMA SendStep == PortsInv /\ Send => PortsInv'
<1> SUFFICES ASSUME PortsInv, Send PROVE PortsInv'
  OBVIOUS
<1> USE DEF PortsInv, Send, Current, Commands
<1>1. PortsTypeOK'
  BY DEF PortsTypeOK, action, kept, world
<1>2. Ordered(script)'
  BY DEF action
<1>3. OneCommand'
  BY DEF OneCommand, Nowhere, Over
<1>4. Dispatching'
  <2>1. at \in 1..Len(script) /\ script[at] \in {"act", "focus"}
    BY DEF PortsTypeOK
  <2>2. sent' => \E j \in 1..at : script[j] = "act"
    BY <2>1 DEF Dispatching, PortsTypeOK
  <2>3. sent' => \E i \in 1..(at - 1) : script[i] = "dispatch"
    <3>1. CASE script[at] = "act"
      BY <2>1, <3>1 DEF Ordered
    <3>2. CASE script[at] # "act"
      BY <2>1, <3>2 DEF Dispatching, InAction, Dispatched
    <3> QED BY <3>1, <3>2
  <2>4. sent' /\ (outstanding' = "focus" \/ ack' = "ok") => begun' \in happened'
    BY <2>1 DEF Dispatching, action
  <2>5. ~sent' => begun' < MaxEffects
    BY <2>1 DEF Dispatching
  <2> QED
    BY <2>1, <2>2, <2>3, <2>4, <2>5 DEF Dispatching, Dispatched, InAction, action
<1>5. KeptIsCurrent'
  BY DEF KeptIsCurrent, NeedsView, kept
<1> QED BY <1>1, <1>2, <1>3, <1>4, <1>5

LEMMA SucceedsStep == PortsInv /\ Succeeds => PortsInv'
<1> SUFFICES ASSUME PortsInv, Succeeds PROVE PortsInv'
  OBVIOUS
<1> USE DEF PortsInv, Succeeds, Returned, Advance
<1>1. PortsTypeOK'
  BY DEF PortsTypeOK, kept, world
<1>2. Ordered(script)'
  OBVIOUS
<1>3. OneCommand'
  BY DEF OneCommand
<1>4. Dispatching'
  BY DEF Dispatching, Dispatched, InAction
<1>5. KeptIsCurrent'
  BY DEF KeptIsCurrent, NeedsView, kept
<1> QED BY <1>1, <1>2, <1>3, <1>4, <1>5

LEMMA FailsStep == PortsInv /\ Fails => PortsInv'
<1> SUFFICES ASSUME PortsInv, Fails PROVE PortsInv'
  OBVIOUS
<1> USE DEF PortsInv, Fails, Ended
<1>1. PortsTypeOK'
  BY DEF PortsTypeOK, action, effects, kept, world, Over
<1>2. Ordered(script)'
  BY DEF action
<1>3. OneCommand'
  BY DEF OneCommand, effects
<1>4. Dispatching'
  BY DEF Dispatching, InAction
<1>5. KeptIsCurrent'
  BY DEF KeptIsCurrent, NeedsView, kept
<1> QED BY <1>1, <1>2, <1>3, <1>4, <1>5

LEMMA ActedStep == PortsInv /\ Acted => PortsInv'
<1> SUFFICES ASSUME PortsInv, Acted PROVE PortsInv'
  OBVIOUS
<1> USE DEF PortsInv, Acted, Current
<1>1. PortsTypeOK'
  BY DEF PortsTypeOK, action, effects, world
<1>2. Ordered(script)'
  BY DEF action
<1>3. OneCommand'
  BY DEF OneCommand, Nowhere, effects
<1>4. Dispatching'
  BY DEF Dispatching, Dispatched, InAction, action, effects
<1>5. KeptIsCurrent'
  BY DEF KeptIsCurrent, NeedsView, action
<1> QED BY <1>1, <1>2, <1>3, <1>4, <1>5

LEMMA CapturedStep == PortsInv /\ Captured => PortsInv'
<1> SUFFICES ASSUME PortsInv, Captured PROVE PortsInv'
  OBVIOUS
<1> USE DEF PortsInv, Captured
<1>1. PortsTypeOK'
  BY DEF PortsTypeOK, action, effects, world
<1>2. Ordered(script)'
  BY DEF action
<1>3. OneCommand'
  BY DEF OneCommand, Nowhere, effects
<1>4. Dispatching'
  BY DEF Dispatching, InAction
<1>5. KeptIsCurrent'
  BY DEF KeptIsCurrent, effects
<1> QED BY <1>1, <1>2, <1>3, <1>4, <1>5

LEMMA ConfirmedStep == PortsInv /\ Confirmed => PortsInv'
<1> SUFFICES ASSUME PortsInv, Confirmed PROVE PortsInv'
  OBVIOUS
<1> USE DEF PortsInv, Confirmed, Bracketed
<1>1. PortsTypeOK'
  BY DEF PortsTypeOK, action, effects, world
<1>2. Ordered(script)'
  BY DEF action
<1>3. OneCommand'
  BY DEF OneCommand, Nowhere, effects
<1>4. Dispatching'
  BY DEF Dispatching, Dispatched, InAction, action, effects
<1>5. KeptIsCurrent'
  BY DEF KeptIsCurrent, NeedsView, effects
<1> QED BY <1>1, <1>2, <1>3, <1>4, <1>5

LEMMA SettleStep == PortsInv /\ Settle => PortsInv'
<1> SUFFICES ASSUME PortsInv, Settle PROVE PortsInv'
  OBVIOUS
<1> USE DEF PortsInv, Settle
<1>1. PortsTypeOK'
  BY DEF PortsTypeOK, action, kept, world
<1>2. Ordered(script)'
  BY DEF action
<1>3. OneCommand'
  BY DEF OneCommand
<1>4. Dispatching'
  BY DEF Dispatching, Dispatched, InAction, PortsTypeOK, action
<1>5. KeptIsCurrent'
  BY DEF KeptIsCurrent, OneCommand, Nowhere, NeedsView, kept
<1> QED BY <1>1, <1>2, <1>3, <1>4, <1>5

LEMMA GiveUpStep == PortsInv /\ GiveUp => PortsInv'
<1> SUFFICES ASSUME PortsInv, GiveUp PROVE PortsInv'
  OBVIOUS
<1> USE DEF PortsInv, GiveUp
<1>1. PortsTypeOK'
  BY DEF PortsTypeOK, action, effects, kept, world, Over
<1>2. Ordered(script)'
  BY DEF action
<1>3. OneCommand'
  BY DEF OneCommand, Nowhere, Dispatching, InAction, effects
<1>4. Dispatching'
  BY DEF Dispatching, InAction
<1>5. KeptIsCurrent'
  BY DEF KeptIsCurrent, NeedsView, kept
<1> QED BY <1>1, <1>2, <1>3, <1>4, <1>5

LEMMA DoneStep == PortsInv /\ Done => PortsInv'
<1> SUFFICES ASSUME PortsInv, Done PROVE PortsInv'
  OBVIOUS
<1> USE DEF PortsInv, Done, Ended
<1>1. PortsTypeOK'
  BY DEF PortsTypeOK, action, effects, kept, world, Over
<1>2. Ordered(script)'
  BY DEF action
<1>3. OneCommand'
  BY DEF OneCommand, Nowhere, effects
<1>4. Dispatching'
  BY DEF Dispatching, InAction
<1>5. KeptIsCurrent'
  BY DEF KeptIsCurrent, NeedsView, kept
<1> QED BY <1>1, <1>2, <1>3, <1>4, <1>5

LEMMA AdmitStep == PortsInv /\ Admit => PortsInv'
<1> SUFFICES ASSUME PortsInv, Admit PROVE PortsInv'
  OBVIOUS
<1> USE DEF PortsInv, Admit
<1>1. PortsTypeOK'
  BY DEF PortsTypeOK, action, effects, kept, world
<1>2. Ordered(script)'
  BY DEF action
<1>3. OneCommand'
  BY DEF OneCommand, Nowhere, effects
<1>4. Dispatching'
  BY DEF Dispatching, InAction, Over
<1>5. KeptIsCurrent'
  BY DEF KeptIsCurrent, NeedsView, kept, Over
<1> QED BY <1>1, <1>2, <1>3, <1>4, <1>5

LEMMA NavigateStep == PortsInv /\ Navigate => PortsInv'
<1> SUFFICES ASSUME PortsInv, Navigate PROVE PortsInv'
  OBVIOUS
<1> USE DEF PortsInv, Navigate
<1>1. PortsTypeOK'
  BY DEF PortsTypeOK, action, effects, kept
<1>2. Ordered(script)'
  BY DEF action
<1>3. OneCommand'
  BY DEF OneCommand, Nowhere, effects, lane
<1>4. Dispatching'
  BY DEF Dispatching, Dispatched, InAction, action, effects
<1>5. KeptIsCurrent'
  BY DEF KeptIsCurrent, NeedsView, action, effects, kept
<1> QED BY <1>1, <1>2, <1>3, <1>4, <1>5

LEMMA ReplaceStep == PortsInv /\ Replace => PortsInv'
<1> SUFFICES ASSUME PortsInv, Replace PROVE PortsInv'
  OBVIOUS
<1> USE DEF PortsInv, Replace
<1>1. PortsTypeOK'
  BY DEF PortsTypeOK, action, kept
<1>2. Ordered(script)'
  BY DEF action
<1>3. OneCommand'
  BY DEF OneCommand
<1>4. Dispatching'
  BY DEF Dispatching, Dispatched, InAction, action
<1>5. KeptIsCurrent'
  BY DEF KeptIsCurrent, OneCommand, Nowhere, NeedsView, action, kept
<1> QED BY <1>1, <1>2, <1>3, <1>4, <1>5

LEMMA PortsInvStep == PortsInv /\ [PortsNext]_portVars => PortsInv'
<1> SUFFICES ASSUME PortsInv, [PortsNext]_portVars PROVE PortsInv'
  OBVIOUS
<1>1. CASE View
  BY <1>1, RaisePendingStep, UsePendingStep, StartReadingStep, LoadRootStep,
     ReadRevisionStep, ReadTreeStep, ViewReadStep, ReadAgainStep DEF View
<1>2. CASE Act
  BY <1>2, BeginActionStep, CheckStep, RefuseStep, SendStep, SucceedsStep, FailsStep,
     ActedStep, CapturedStep, ConfirmedStep DEF Act
<1>3. CASE UNCHANGED portVars
  BY <1>3 DEF portVars, action, effects, kept, world, lane, PortsInv, PortsTypeOK, Ordered,
              OneCommand, Dispatching, Dispatched, KeptIsCurrent, Nowhere, InAction, NeedsView
<1> QED
  BY <1>1, <1>2, <1>3, SettleStep, GiveUpStep, DoneStep, AdmitStep, NavigateStep,
     ReplaceStep DEF PortsNext

-----------------------------------------------------------------------------
Landing == IF outstanding = "act" THEN {begun} ELSE {}
Sights == <<happened, Landing, begun, Told, shown, admitted>>

(* Every step is a step of the contract, or nothing that it speaks of.     *)
LEMMA PortStepSimulation ==
    PortsInv /\ PortsInv' /\ [PortsNext]_portVars => [Ports!PortNext]_(Ports!portVars)
<1> SUFFICES ASSUME PortsInv, PortsInv', [PortsNext]_portVars
             PROVE  Ports!PortNext \/ UNCHANGED Sights
  BY DEF Ports!portVars, Sights, Landing
<1> USE DEF PortsInv
<1>1. /\ place \in Over => Told = place
      /\ InAction /\ sent => Told = "dispatching"
      /\ InAction /\ ~sent => Told = "ready"
      /\ place \in {"engine", "reading"} => Told = "ready"
  BY DEF PortsTypeOK, InAction, Told, Over
<1>2. /\ place' \in Over => Told' = place'
      /\ (InAction /\ sent)' => Told' = "dispatching"
      /\ (InAction /\ ~sent)' => Told' = "ready"
      /\ place' \in {"engine", "reading"} => Told' = "ready"
  BY DEF PortsTypeOK, InAction, Told, Over
<1>3. ASSUME Told = "ready", Told' = "ready", shown' = happened,
             UNCHANGED <<happened, outstanding, begun, admitted>>
      PROVE  Ports!PortNext
  BY <1>3 DEF Ports!PortNext, Ports!Show
<1>4. ASSUME NEW how \in Over, Told' = how, Told \notin Over,
             how # "uncertain" => Told = "ready",
             UNCHANGED <<happened, outstanding, begun, shown, admitted>>
      PROVE  Ports!PortNext
  <2>1. Ports!Answer(how)
    BY <1>4 DEF Ports!Answer, Over, Ports!Over
  <2> QED BY <2>1 DEF Ports!PortNext, Over, Ports!Over
<1>5. ASSUME outstanding = "none", InAction, sent => begun \in happened, place' = "engine",
             UNCHANGED <<happened, outstanding, begun, shown, admitted>>
      PROVE  Ports!PortNext \/ UNCHANGED Sights
  BY <1>1, <1>2, <1>5 DEF Ports!PortNext, Ports!Acknowledge, Sights, Landing,
     PortsTypeOK
<1>6. ASSUME UNCHANGED <<happened, outstanding, begun, shown, admitted>>, Told' = Told
      PROVE  UNCHANGED Sights
  BY <1>6 DEF Sights, Landing
<1> USE DEF Over
<1>7. CASE UsePending
  BY <1>1, <1>2, <1>3, <1>7 DEF UsePending, NeedsView, HandOut, KeptIsCurrent, effects,
         lane
<1>8. CASE LoadRoot
  BY <1>1, <1>2, <1>3, <1>8 DEF LoadRoot, HandOut, effects, lane
<1>9. CASE ViewRead
  BY <1>1, <1>2, <1>3, <1>9 DEF ViewRead, Bracketed, HandOut, KeptIsCurrent, effects, lane
<1>10. CASE StartReading
  BY <1>1, <1>2, <1>6, <1>10 DEF StartReading, NeedsView, effects, lane
<1>11. CASE ReadRevision \/ ReadTree \/ ReadAgain \/ Navigate
  BY <1>6, <1>11 DEF ReadRevision, ReadTree, ReadAgain, Navigate, action, effects, lane,
         Told
<1>12. CASE BeginAction
  BY <1>1, <1>2, <1>6, <1>12 DEF BeginAction, InAction, lane
<1>13. CASE Check \/ Succeeds
  BY <1>1, <1>2, <1>6, <1>13 DEF Check, Succeeds, Returned, Advance, InAction, effects,
         lane,
     PortsTypeOK, OneCommand, Nowhere
<1>14. CASE RaisePending \/ Done
  BY <1>1, <1>2, <1>4, <1>14 DEF RaisePending, Done, NeedsView, Ended, effects, lane
<1>15. CASE Refuse
  <2>1. ~sent
    BY <1>15 DEF Refuse, Current, Commands, Dispatching, Dispatched, InAction, Ordered,
           PortsTypeOK
  <2> QED
    BY <1>1, <1>2, <1>4, <1>15, <2>1 DEF Refuse, InAction, effects, lane
<1>16. CASE Fails
  BY <1>1, <1>2, <1>4, <1>16 DEF Fails, Ended, InAction, Dispatching, PortsTypeOK,
         effects, lane
<1>17. CASE GiveUp
  BY <1>1, <1>2, <1>4, <1>17 DEF GiveUp, InAction, Dispatching, PortsTypeOK, effects, lane
<1>18. CASE Send
  <2>1. CASE Current = "focus"
    BY <1>1, <1>2, <1>18, <2>1
       DEF Send, Commands, InAction, OneCommand, Nowhere, PortsTypeOK, Sights, Landing, lane
  <2>2. CASE Current = "act" /\ sent
    <3>1. Ports!BeginAgain
      BY <1>1, <1>2, <1>18, <2>2
         DEF Send, InAction, OneCommand, Nowhere, Dispatching, lane, Ports!BeginAgain
    <3> QED BY <3>1 DEF Ports!PortNext
  <2>3. CASE Current = "act" /\ ~sent
    <3>1. Ports!Begin
      BY <1>1, <1>2, <1>18, <2>3
         DEF Send, InAction, OneCommand, Nowhere, Dispatching, lane, PortsTypeOK, Ports!Begin
    <3> QED BY <3>1 DEF Ports!PortNext
  <2> QED BY <1>18, <2>1, <2>2, <2>3 DEF Send, Commands, PortsTypeOK
<1>19. CASE Settle \/ Replace
  <2>1. Told' = Told /\ UNCHANGED <<begun, shown, admitted>> /\ outstanding' = "none"
    BY <1>19 DEF Settle, Replace, Told, action, lane
  <2>2. CASE outstanding = "act"
    <3>1. happened' \in {happened, happened \cup {begun}}
      BY <1>19, <2>2 DEF Settle, Replace
    <3>2. Ports!Settle
      BY <2>1, <2>2, <3>1 DEF Ports!Settle
    <3> QED BY <3>2 DEF Ports!PortNext
  <2>3. CASE outstanding # "act"
    <3>1. happened' = happened
      BY <1>19, <2>3 DEF Settle, Replace
    <3> QED BY <2>1, <2>3, <3>1 DEF Sights, Landing
  <2> QED BY <2>2, <2>3
<1>20. CASE Acted
  <2>1. CASE watches = "none"
    BY <1>5, <1>20, <2>1 DEF Acted, InAction, OneCommand, Nowhere, Dispatching, effects,
           lane
  <2>2. CASE watches # "none"
    BY <1>1, <1>2, <1>6, <1>20, <2>2 DEF Acted, InAction, effects, lane, PortsTypeOK
  <2> QED BY <2>1, <2>2
<1>21. CASE Captured
  BY <1>5, <1>21 DEF Captured, InAction, OneCommand, Nowhere, Dispatching, effects, lane
<1>22. CASE Confirmed
  <2>1. CASE place' = "engine"
    BY <1>5, <1>22, <2>1 DEF Confirmed, InAction, OneCommand, Nowhere, Dispatching,
           effects, lane
  <2>2. CASE place' # "engine"
    BY <1>1, <1>2, <1>6, <1>22, <2>2 DEF Confirmed, InAction, effects, lane, PortsTypeOK
  <2> QED BY <2>1, <2>2
<1>23. CASE Admit
  <2>1. Ports!Admit
    BY <1>1, <1>2, <1>23
       DEF Admit, OneCommand, effects, PortsTypeOK, Ports!Admit, Ports!Over
  <2> QED BY <2>1 DEF Ports!PortNext
<1>24. CASE UNCHANGED portVars
  BY <1>6, <1>24 DEF portVars, action, effects, lane, Told
<1> QED
  BY <1>7, <1>8, <1>9, <1>10, <1>11, <1>12, <1>13, <1>14, <1>15, <1>16, <1>17, <1>18,
     <1>19, <1>20, <1>21, <1>22, <1>23, <1>24 DEF PortsNext, View, Act

(* The ports of both runtimes keep the contract the engine relies on.      *)
THEOREM PortsImplementContract == PortsSpec => ImplementsPorts
<1>1. PortsInit => Ports!PortInit
  BY DEF PortsInit, Ports!PortInit, Told, Over
<1> QED
  BY <1>1, PortsInvInit, PortsInvStep, PortStepSimulation, PTL
     DEF PortsSpec, ImplementsPorts, Ports!PortSpec

-----------------------------------------------------------------------------
(* The store.                                                              *)

(* older is an order of the snapshots that were stored ...                 *)
Order == \A p \in older : <<p[2], p[1]>> \notin older

(* ... in which the snapshot that was just used is the last.               *)
UsedLast ==
    answer.op = "lookup" /\ answer.outcome = "ok" =>
        \A s \in Stored \ {answer.token} : <<s, answer.token>> \in older

Types ==
    /\ fate \in [Tokens -> Fates]
    /\ DOMAIN info = Tokens
    /\ older \subseteq Tokens \X Tokens
    /\ Order
    /\ released \in [Tokens -> Nat]
    /\ clock \in 0..MaxClock
    /\ closed \in BOOLEAN
    /\ answer.token \in Tokens \union {None}

Times == \A t \in Tokens : info[t].created \in 0..clock

StoreInv ==
    /\ Types
    /\ Times
    /\ ReleasedOnce
    /\ Bounded
    /\ LeastRecentlyUsed
    /\ AnswersLive
    /\ UsedLast

-----------------------------------------------------------------------------
(* An empty answer resolves nothing.                                       *)
LEMMA NoAnswerIsLive ==
    ASSUME StoreAssumption
    PROVE  /\ NoAnswer.outcome # "ok" /\ NoAnswer.op # "lookup"
           /\ NoAnswer.token \in Tokens \union {None}
  BY DEF NoAnswer

(* The initial states satisfy the invariant.                               *)
LEMMA StoreInitInv ==
    ASSUME StoreAssumption
    PROVE  StoreInit => StoreInv
  <1> SUFFICES ASSUME StoreInit PROVE StoreInv OBVIOUS
  <1>1. \A t \in Tokens : fate[t] = "new" /\ released[t] = 0 /\ info[t].created = 0
    BY DEF StoreInit, NoInfo
  <1>2. Types
    <2>1. fate \in [Tokens -> Fates]
      BY DEF StoreInit, Fates
    <2>2. released \in [Tokens -> Nat] /\ clock \in 0..MaxClock
      BY DEF StoreAssumption, StoreInit
    <2>3. DOMAIN info = Tokens /\ older \subseteq Tokens \X Tokens /\ Order /\ closed \in BOOLEAN
      BY DEF StoreInit, Order
    <2> QED BY <2>1, <2>2, <2>3, NoAnswerIsLive DEF StoreInit, Types
  <1>3. Times /\ ReleasedOnce /\ LeastRecentlyUsed
    BY <1>1 DEF StoreInit, Times, ReleasedOnce, LeastRecentlyUsed
  <1>4. Bounded
    <2>1. Live = {}
      BY <1>1 DEF Live
    <2> QED BY <2>1, FS_EmptySet DEF StoreAssumption, Bounded
  <1>5. AnswersLive /\ UsedLast
    BY NoAnswerIsLive DEF StoreInit, AnswersLive, UsedLast
  <1> QED BY <1>2, <1>3, <1>4, <1>5 DEF StoreInv

(* The types the steps below rely on.                                      *)
LEMMA StoreTypeFacts ==
    ASSUME StoreAssumption, StoreInv
    PROVE  /\ fate \in [Tokens -> Fates] /\ DOMAIN info = Tokens
           /\ older \subseteq Tokens \X Tokens /\ Order /\ released \in [Tokens -> Nat]
           /\ clock \in 0..MaxClock /\ clock \in Nat /\ closed \in BOOLEAN
  BY DEF StoreAssumption, StoreInv, Types

(* Live snapshots are finitely many, whatever part of them is meant.       *)
LEMMA LiveIsFinite ==
    ASSUME StoreAssumption, NEW S \in SUBSET Tokens
    PROVE  IsFiniteSet(S) /\ Cardinality(S) \in Nat
  BY FS_Subset, FS_CardinalityType DEF StoreAssumption

(* Moving a snapshot to the end keeps the order and makes it the last.     *)
LEMMA MovedToEndEffect ==
    ASSUME StoreAssumption, StoreInv, NEW x \in Tokens, older' = MovedToEnd(x)
    PROVE  /\ older' \subseteq Tokens \X Tokens
           /\ Order'
           /\ \A s \in Stored \ {x} : <<s, x>> \in older'
  <1>1. older' = {p \in older : p[1] # x} \union {<<s, x>> : s \in Stored \ {x}}
    BY DEF MovedToEnd
  <1>2. older' \subseteq Tokens \X Tokens
    BY <1>1, StoreTypeFacts DEF Stored
  <1>3. ASSUME NEW p \in older', <<p[2], p[1]>> \in older'
        PROVE  FALSE
    <2>1. PICK a \in Tokens, b \in Tokens : p = <<a, b>>
      BY <1>2
    <2>2. <<a, b>> \in older' /\ <<b, a>> \in older'
      BY <2>1, <1>3
    <2>3. a = x \/ b = x => a # b /\ (a = x => <<a, b>> \notin older') /\ (b = x => <<b, a>> \notin older')
      BY <1>1, <2>2 DEF Stored
    <2>4. a # x /\ b # x => <<a, b>> \in older /\ <<b, a>> \in older
      BY <1>1, <2>2
    <2> QED BY <2>2, <2>3, <2>4, StoreTypeFacts DEF Order
  <1> QED BY <1>1, <1>2, <1>3 DEF Order

(* When snapshots go for a reason other than room, the store only shrinks. *)
LEMMA DropInv ==
    ASSUME StoreAssumption, StoreInv, NEW Gone \in SUBSET Live,
           NEW why \in {"expired", "invalidated", "closed"},
           fate' = [t \in Tokens |-> IF t \in Gone THEN why ELSE fate[t]],
           Release(Gone),
           \/ older' = older
           \/ \E x \in Live \ Gone : older' = MovedToEnd(x),
           UNCHANGED <<info, clock>>
    PROVE  /\ fate' \in [Tokens -> Fates]
           /\ released' \in [Tokens -> Nat]
           /\ older' \subseteq Tokens \X Tokens /\ Order'
           /\ Times' /\ ReleasedOnce' /\ Bounded' /\ LeastRecentlyUsed'
           /\ Live' = Live \ Gone /\ Stored' = Stored
  <1> USE StoreTypeFacts
  <1>1. fate' \in [Tokens -> Fates] /\ Live' = Live \ Gone /\ Stored' = Stored
    BY DEF Fates, Live, Stored
  <1>2. released' \in [Tokens -> Nat]
    BY DEF Release
  <1>3. older' \subseteq Tokens \X Tokens /\ Order'
    <2>1. CASE older' = older
      BY <2>1 DEF Order
    <2>2. CASE \E x \in Live \ Gone : older' = MovedToEnd(x)
      BY <2>2, MovedToEndEffect DEF Live
    <2> QED BY <2>1, <2>2
  <1>4. Times'
    BY DEF StoreInv, Times
  <1>5. ReleasedOnce'
    BY DEF StoreInv, ReleasedOnce, Release, Live
  <1>6. Bounded'
    <2>1. Cardinality(Live \ Gone) <= Cardinality(Live)
      BY LiveIsFinite, FS_Subset DEF Live
    <2>2. Cardinality(Live) \in Nat /\ Cardinality(Live \ Gone) \in Nat
      BY LiveIsFinite DEF Live
    <2> QED BY <1>1, <2>1, <2>2 DEF StoreAssumption, StoreInv, Bounded
  <1>7. LeastRecentlyUsed'
    <2> SUFFICES ASSUME NEW t \in Tokens, fate'[t] = "evicted"
                 PROVE  /\ \A s \in Live' : <<t, s>> \in older'
                        /\ Cardinality({s \in Tokens : <<t, s>> \in older'}) >= MaxSnapshots
      BY DEF LeastRecentlyUsed
    <2>1. fate[t] = "evicted" /\ t \notin Live
      BY DEF Live
    <2>2. \A s \in Tokens : <<t, s>> \in older => <<t, s>> \in older'
      BY <2>1 DEF MovedToEnd
    <2>3. /\ \A s \in Live : <<t, s>> \in older
          /\ Cardinality({s \in Tokens : <<t, s>> \in older}) >= MaxSnapshots
      BY <2>1 DEF StoreInv, LeastRecentlyUsed
    <2>4. \A s \in Live' : <<t, s>> \in older'
      BY <1>1, <2>2, <2>3 DEF Live
    <2> DEFINE A == {s \in Tokens : <<t, s>> \in older}
               B == {s \in Tokens : <<t, s>> \in older'}
    <2>5. A \subseteq B /\ A \in SUBSET Tokens /\ B \in SUBSET Tokens
      BY <2>2
    <2>6. Cardinality(A) <= Cardinality(B)
      BY <2>5, LiveIsFinite, FS_Subset
    <2>7. Cardinality(A) \in Nat /\ Cardinality(B) \in Nat
      BY <2>5, LiveIsFinite
    <2>8. Cardinality(B) >= MaxSnapshots
      BY <2>3, <2>6, <2>7 DEF StoreAssumption
    <2> QED BY <2>4, <2>8
  <1> QED BY <1>1, <1>2, <1>3, <1>4, <1>5, <1>6, <1>7

-----------------------------------------------------------------------------
(* An invalidation, or closing, leaves the invariant.                      *)
LEMMA DropStep ==
    ASSUME StoreAssumption, StoreInv, NEW Gone \in SUBSET Live, NEW why \in {"invalidated", "closed"},
           Drop(Gone, why), closed' \in BOOLEAN
    PROVE  StoreInv'
  <1>1. /\ fate' = [t \in Tokens |-> IF t \in Gone THEN why ELSE fate[t]]
        /\ Release(Gone) /\ older' = older /\ info' = info /\ clock' = clock
        /\ answer' = NoAnswer
    BY DEF Drop
  <1>2. /\ fate' \in [Tokens -> Fates]
        /\ released' \in [Tokens -> Nat]
        /\ older' \subseteq Tokens \X Tokens /\ Order'
        /\ Times' /\ ReleasedOnce' /\ Bounded' /\ LeastRecentlyUsed'
    BY <1>1, DropInv
  <1>3. Types'
    BY <1>1, <1>2, StoreTypeFacts, NoAnswerIsLive DEF Types, Order
  <1>4. AnswersLive' /\ UsedLast'
    BY <1>1, NoAnswerIsLive DEF AnswersLive, UsedLast
  <1> QED BY <1>2, <1>3, <1>4 DEF StoreInv

(* Lookups first drop what has expired.                                    *)
LEMMA ExpireFirstInv ==
    ASSUME StoreAssumption, StoreInv, ExpireFirst,
           older' = older \/ \E x \in Live \ Expired : older' = MovedToEnd(x),
           UNCHANGED <<info, clock, closed>>,
           answer'.token \in Tokens \union {None}
    PROVE  /\ Types' /\ Times' /\ ReleasedOnce' /\ Bounded' /\ LeastRecentlyUsed'
           /\ Live' = Live \ Expired /\ Stored' = Stored
  <1>1. /\ fate' = [t \in Tokens |-> IF t \in Expired THEN "expired" ELSE fate[t]]
        /\ Release(Expired) /\ Expired \in SUBSET Live
    BY DEF ExpireFirst, AfterExpiry, Expired
  <1>2. /\ fate' \in [Tokens -> Fates]
        /\ released' \in [Tokens -> Nat]
        /\ older' \subseteq Tokens \X Tokens /\ Order'
        /\ Times' /\ ReleasedOnce' /\ Bounded' /\ LeastRecentlyUsed'
        /\ Live' = Live \ Expired /\ Stored' = Stored
    BY <1>1, DropInv
  <1>3. Types'
    BY <1>2, StoreTypeFacts DEF Types
  <1> QED BY <1>2, <1>3

(* What has not expired is young.                                          *)
LEMMA Young ==
    ASSUME StoreAssumption, StoreInv, NEW t \in Live \ Expired
    PROVE  t \in Tokens /\ clock - info[t].created < TTL
  <1>1. t \in Tokens /\ info[t].created \in 0..clock /\ ~(clock - info[t].created >= TTL)
    BY DEF Live, Expired, StoreInv, Times
  <1> QED BY <1>1, StoreTypeFacts DEF StoreAssumption

(* A qualified lookup.                                                     *)
LEMMA LookupInv ==
    ASSUME StoreAssumption, StoreInv, NEW t \in Tokens, NEW id \in Ids \union {None}, NEW e \in Expectations,
           Lookup(t, id, e)
    PROVE  StoreInv'
  <1>1. /\ ExpireFirst /\ UNCHANGED <<info, clock, closed>>
        /\ answer'.token = t /\ answer'.id = id /\ answer'.op = "lookup"
        /\ older' = older \/ (t \in Live \ Expired /\ older' = MovedToEnd(t))
    BY DEF Lookup, Touch
  <1>2. answer'.outcome = "ok" => t \in Live \ Expired /\ Found(t, id)
    BY DEF Lookup
  <1>3. /\ Types' /\ Times' /\ ReleasedOnce' /\ Bounded' /\ LeastRecentlyUsed'
        /\ Live' = Live \ Expired /\ Stored' = Stored
    BY <1>1, ExpireFirstInv
  <1>4. AnswersLive'
    BY <1>1, <1>2, <1>3, Young DEF AnswersLive, Found
  <1>5. UsedLast'
    <2>1. answer'.outcome = "ok" => older' = MovedToEnd(t)
      BY DEF Lookup, Touch
    <2> QED BY <2>1, <1>1, <1>3, MovedToEndEffect DEF UsedLast
  <1> QED BY <1>3, <1>4, <1>5 DEF StoreInv

(* An unqualified lookup.                                                  *)
LEMMA LookupLegacyInv ==
    ASSUME StoreAssumption, StoreInv, NEW id \in Ids, NEW m0, LookupLegacy(id, m0)
    PROVE  StoreInv'
  <1>1. /\ ExpireFirst /\ UNCHANGED <<info, older, clock, closed>>
        /\ answer'.id = id /\ answer'.op = "legacy"
    BY DEF LookupLegacy
  <1>2. Holders(id, m0) \subseteq Live \ Expired /\ Live \subseteq Tokens
    BY DEF Holders, Live
  <1>3. answer'.token \in Tokens \union {None}
    BY <1>2 DEF LookupLegacy
  <1>4. answer'.outcome = "ok" => Holders(id, m0) = {answer'.token}
    BY DEF LookupLegacy
  <1>5. /\ Types' /\ Times' /\ ReleasedOnce' /\ Bounded' /\ LeastRecentlyUsed'
        /\ Live' = Live \ Expired
    BY <1>1, <1>3, ExpireFirstInv
  <1>6. AnswersLive'
    <2> SUFFICES ASSUME answer'.outcome = "ok"
                 PROVE  /\ answer'.token \in Live'
                        /\ clock' - info'[answer'.token].created < TTL
                        /\ answer'.id \in info'[answer'.token].ids
                        /\ \A s \in Live' \ {answer'.token} :
                              answer'.id \in info'[s].ids =>
                                ModeOf[info'[s].target] # ModeOf[info'[answer'.token].target]
      BY DEF AnswersLive
    <2> DEFINE t == answer'.token
    <2>1. Holders(id, m0) = {t} /\ t \in Live \ Expired
      BY <1>2, <1>4
    <2>2. ModeOf[info[t].target] = m0 /\ id \in info[t].ids
      BY <2>1 DEF Holders
    <2>3. \A s \in (Live \ Expired) \ {t} : id \in info[s].ids => ModeOf[info[s].target] # m0
      BY <2>1 DEF Holders
    <2>4. clock - info[t].created < TTL
      BY <2>1, Young
    <2> QED BY <2>1, <2>2, <2>3, <2>4, <1>1, <1>5
  <1>7. UsedLast'
    BY <1>1 DEF UsedLast
  <1> QED BY <1>5, <1>6, <1>7 DEF StoreInv

(* A rejected snapshot is released at once.                                *)
LEMMA RejectInv ==
    ASSUME StoreAssumption, StoreInv, NEW t \in Tokens, Reject(t)
    PROVE  StoreInv'
  <1>1. /\ fate[t] = "new" /\ fate' = [fate EXCEPT ![t] = "rejected"]
        /\ released' = [s \in Tokens |-> IF s \in {t} THEN released[s] + 1 ELSE released[s]]
        /\ UNCHANGED <<info, older, clock, closed>> /\ answer' = NoAnswer
    BY DEF Reject, Release
  <1>2. Types'
    BY <1>1, StoreTypeFacts, NoAnswerIsLive DEF Types, Fates, Order
  <1>3. Live' = Live
    BY <1>1, StoreTypeFacts DEF Live
  <1>4. Times' /\ Bounded'
    BY <1>1, <1>3 DEF StoreInv, Times, Bounded
  <1>5. ReleasedOnce'
    BY <1>1, StoreTypeFacts DEF StoreInv, ReleasedOnce
  <1>6. LeastRecentlyUsed'
    BY <1>1, <1>3, StoreTypeFacts DEF StoreInv, LeastRecentlyUsed
  <1>7. AnswersLive' /\ UsedLast'
    BY <1>1, NoAnswerIsLive DEF AnswersLive, UsedLast
  <1> QED BY <1>2, <1>4, <1>5, <1>6, <1>7 DEF StoreInv

(* Time passes.                                                            *)
LEMMA TickInv ==
    ASSUME StoreAssumption
    PROVE  StoreInv /\ Tick => StoreInv'
  <1> SUFFICES ASSUME StoreInv, Tick PROVE StoreInv' OBVIOUS
  <1>1. /\ clock < MaxClock /\ clock' = clock + 1 /\ answer' = NoAnswer
        /\ UNCHANGED <<fate, info, older, released, closed>>
    BY DEF Tick
  <1>2. clock' \in 0..MaxClock
    BY <1>1, StoreTypeFacts DEF StoreAssumption
  <1>3. Types'
    BY <1>1, <1>2, StoreTypeFacts, NoAnswerIsLive DEF Types, Order
  <1>4. Times'
    BY <1>1, StoreTypeFacts DEF StoreInv, Times
  <1>5. ReleasedOnce' /\ Bounded' /\ LeastRecentlyUsed'
    BY <1>1 DEF StoreInv, ReleasedOnce, Bounded, LeastRecentlyUsed, Live
  <1>6. AnswersLive' /\ UsedLast'
    BY <1>1, NoAnswerIsLive DEF AnswersLive, UsedLast
  <1> QED BY <1>3, <1>4, <1>5, <1>6 DEF StoreInv

-----------------------------------------------------------------------------
(* A new snapshot is stored, at the expense of the least recently used     *)
(* one when there is no room.                                              *)
LEMMA CreateInv ==
    ASSUME StoreAssumption, StoreInv, NEW t \in Tokens, NEW kind \in Kinds, Create(t, kind)
    PROVE  StoreInv'
  <1> DEFINE staying == Kept(t)
  <1>1. PICK victims \in SUBSET staying :
            /\ Keep(t, victims)
            /\ \/ victims = {} /\ Cardinality(staying) <= MaxSnapshots
               \/ /\ Cardinality(staying) > MaxSnapshots
                  /\ \E v \in staying : /\ victims = {v}
                                     /\ \A s \in staying \ {v} : <<v, s>> \in older'
    BY DEF Create, Oldest
  <1>2. /\ fate[t] = "new" /\ older' = MovedToEnd(t) /\ closed' = closed /\ clock' = clock
        /\ info' = [info EXCEPT ![t] =
              [target |-> kind.target, generation |-> kind.generation,
               ids |-> kind.ids, created |-> clock]]
        /\ answer' = NoAnswer
    BY DEF Create
  <1>3. /\ staying = (Live \ Expired) \union {t} /\ staying \in SUBSET Tokens /\ t \notin Live
        /\ Expired \subseteq Live /\ Live \in SUBSET Tokens
    BY <1>2 DEF Kept, Live, Expired
  <1>4. /\ fate' = [s \in Tokens |->
              IF s \in victims THEN "evicted"
              ELSE IF s = t THEN "live"
              ELSE IF s \in Expired THEN "expired" ELSE fate[s]]
        /\ released' = [s \in Tokens |->
              IF s \in Expired \union victims THEN released[s] + 1 ELSE released[s]]
    BY <1>1, <1>3 DEF Keep, AfterExpiry, Release
  <1>5. Live' = staying \ victims
    BY <1>3, <1>4 DEF Live
  <1>6. Types'
    <2>1. fate' \in [Tokens -> Fates]
      BY <1>4, StoreTypeFacts DEF Fates
    <2>2. released' \in [Tokens -> Nat]
      BY <1>4, StoreTypeFacts
    <2>3. older' \subseteq Tokens \X Tokens /\ Order'
      BY <1>2, MovedToEndEffect
    <2>4. DOMAIN info' = Tokens
      BY <1>2, StoreTypeFacts
    <2> QED BY <2>1, <2>2, <2>3, <2>4, <1>2, StoreTypeFacts, NoAnswerIsLive DEF Types
  <1>7. Times'
    <2> SUFFICES ASSUME NEW s \in Tokens PROVE info'[s].created \in 0..clock'
      BY DEF Times
    <2>1. CASE s = t
      BY <2>1, <1>2, StoreTypeFacts
    <2>2. CASE s # t
      BY <2>2, <1>2, StoreTypeFacts DEF StoreInv, Times
    <2> QED BY <2>1, <2>2
  <1>8. ReleasedOnce'
    <2> SUFFICES ASSUME NEW s \in Tokens
                 PROVE  released'[s] = IF fate'[s] \in {"new", "live"} THEN 0 ELSE 1
      BY DEF ReleasedOnce
    <2>1. released[s] = IF fate[s] \in {"new", "live"} THEN 0 ELSE 1
      BY DEF StoreInv, ReleasedOnce
    <2>2. s \in Expired => fate[s] = "live" /\ s # t /\ s \notin staying
      BY <1>3 DEF Live
    <2>3. s \in victims => fate[s] \in {"new", "live"}
      BY <1>1, <1>2, <1>3 DEF Live
    <2> QED BY <2>1, <2>2, <2>3, <1>2, <1>3, <1>4
  <1>9. IsFiniteSet(staying) /\ Cardinality(staying) \in Nat
    BY <1>3, LiveIsFinite
  <1>10. Cardinality(staying) <= MaxSnapshots + 1
    <2>1. Cardinality(Live \ Expired) <= Cardinality(Live)
      BY <1>3, LiveIsFinite, FS_Subset
    <2>2. Cardinality(staying) = Cardinality(Live \ Expired) + 1
      BY <1>3, LiveIsFinite, FS_AddElement
    <2>3. Cardinality(Live) \in Nat /\ Cardinality(Live \ Expired) \in Nat
      BY <1>3, LiveIsFinite
    <2> QED BY <2>1, <2>2, <2>3 DEF StoreAssumption, StoreInv, Bounded
  <1>11. \A v \in staying : Cardinality(staying \ {v}) = Cardinality(staying) - 1
    BY <1>9, FS_RemoveElement
  <1>12. Bounded'
    <2>1. Cardinality(staying \ victims) <= MaxSnapshots
      <3>1. CASE victims = {} /\ Cardinality(staying) <= MaxSnapshots
        <4>1. staying \ victims = staying
          BY <3>1
        <4> QED BY <3>1, <4>1
      <3>2. CASE \E v \in staying : victims = {v}
        <4>1. Cardinality(staying \ victims) = Cardinality(staying) - 1
          BY <3>2, <1>11
        <4> QED BY <4>1, <1>9, <1>10 DEF StoreAssumption
      <3> QED BY <3>1, <3>2, <1>1
    <2> QED BY <2>1, <1>5 DEF Bounded
  <1>13. LeastRecentlyUsed'
    <2> SUFFICES ASSUME NEW v \in Tokens, fate'[v] = "evicted"
                 PROVE  /\ \A s \in Live' : <<v, s>> \in older'
                        /\ Cardinality({s \in Tokens : <<v, s>> \in older'}) >= MaxSnapshots
      BY DEF LeastRecentlyUsed
    <2> DEFINE B == {s \in Tokens : <<v, s>> \in older'}
    <2>1. B \in SUBSET Tokens /\ Cardinality(B) \in Nat /\ IsFiniteSet(B)
      BY LiveIsFinite
    <2>2. CASE v \in victims
      <3>1. /\ Cardinality(staying) > MaxSnapshots /\ victims = {v} /\ v \in staying
            /\ \A s \in staying \ {v} : <<v, s>> \in older'
        BY <2>2, <1>1
      <3>2. staying \ {v} \subseteq B
        BY <3>1, <1>3
      <3>3. Cardinality(staying \ {v}) <= Cardinality(B)
        BY <3>2, <2>1, FS_Subset
      <3>4. Cardinality(staying \ {v}) = Cardinality(staying) - 1
        BY <3>1, <1>11
      <3>5. Cardinality(B) >= MaxSnapshots
        BY <3>1, <3>3, <3>4, <1>9, <2>1 DEF StoreAssumption
      <3>6. \A s \in Live' : <<v, s>> \in older'
        BY <3>1, <1>5
      <3> QED BY <3>5, <3>6
    <2>3. CASE v \notin victims
      <3>1. fate[v] = "evicted" /\ v # t
        BY <2>3, <1>2, <1>3, <1>4
      <3> DEFINE A == {s \in Tokens : <<v, s>> \in older}
      <3>2. /\ \A s \in Live : <<v, s>> \in older
            /\ Cardinality(A) >= MaxSnapshots
        BY <3>1 DEF StoreInv, LeastRecentlyUsed
      <3>3. \A s \in Tokens : <<v, s>> \in older => <<v, s>> \in older'
        BY <3>1, <1>2 DEF MovedToEnd
      <3>4. <<v, t>> \in older'
        BY <3>1, <1>2 DEF MovedToEnd, Stored
      <3>5. \A s \in Live' : <<v, s>> \in older'
        BY <3>2, <3>3, <3>4, <1>3, <1>5
      <3>6. A \subseteq B /\ Cardinality(A) \in Nat
        BY <3>3, LiveIsFinite
      <3>7. Cardinality(A) <= Cardinality(B)
        BY <3>6, <2>1, FS_Subset
      <3>8. Cardinality(B) >= MaxSnapshots
        BY <3>2, <3>6, <3>7, <2>1 DEF StoreAssumption
      <3> QED BY <3>5, <3>8
    <2> QED BY <2>2, <2>3
  <1>14. AnswersLive' /\ UsedLast'
    BY <1>2, NoAnswerIsLive DEF AnswersLive, UsedLast
  <1> QED BY <1>6, <1>7, <1>8, <1>12, <1>13, <1>14 DEF StoreInv

-----------------------------------------------------------------------------
(* Every step preserves the invariant.                                     *)
LEMMA StepInv ==
    ASSUME StoreAssumption
    PROVE  StoreInv /\ [StoreNext]_storeVars => StoreInv'
  <1> SUFFICES ASSUME StoreInv, [StoreNext]_storeVars PROVE StoreInv' OBVIOUS
  <1>1. ASSUME NEW t \in Tokens, NEW kind \in Kinds, Create(t, kind) PROVE StoreInv'
    BY <1>1, CreateInv
  <1>2. ASSUME NEW t \in Tokens, Reject(t) PROVE StoreInv'
    BY <1>2, RejectInv
  <1>3. ASSUME NEW t \in Tokens, NEW id \in Ids \union {None}, NEW e \in Expectations,
               Lookup(t, id, e)
        PROVE  StoreInv'
    BY <1>3, LookupInv
  <1>4. ASSUME NEW x \in Targets, NEW id \in Ids, LookupLegacy(id, ModeOf[x]) PROVE StoreInv'
    BY <1>4, LookupLegacyInv
  <1>5. ASSUME NEW x \in Targets,
               InvalidateTarget(x) \/ InvalidateProvider(ProviderOf[x], ModeOf[x])
        PROVE  StoreInv'
    <2>1. closed' \in BOOLEAN
      BY <1>5, StoreTypeFacts DEF InvalidateTarget, InvalidateProvider
    <2>2. \E Gone \in SUBSET Live : Drop(Gone, "invalidated")
      BY <1>5 DEF InvalidateTarget, InvalidateProvider
    <2> QED BY <2>1, <2>2, DropStep
  <1>6. CASE Close
    <2>1. closed' \in BOOLEAN /\ Drop(Live, "closed")
      BY <1>6 DEF Close
    <2> QED BY <2>1, DropStep
  <1>7. CASE Tick
    BY <1>7, TickInv
  <1>8. CASE UNCHANGED storeVars
    BY <1>8 DEF storeVars, StoreInv, Types, Times, ReleasedOnce, Bounded, LeastRecentlyUsed, AnswersLive, Live,
           Order, UsedLast, Stored
  <1> QED BY <1>1, <1>2, <1>3, <1>4, <1>5, <1>6, <1>7, <1>8 DEF StoreNext, StoreStep

(* The invariant holds in every behaviour.                                 *)
LEMMA StoreInvariance ==
    ASSUME StoreAssumption
    PROVE  StoreSpec => []StoreInv
  BY StoreInitInv, StepInv, PTL DEF StoreSpec

-----------------------------------------------------------------------------
(* The state has its types.                                                *)
THEOREM StoreTypeCorrect ==
    ASSUME StoreAssumption
    PROVE  StoreSpec => []StoreTypeOK
  <1>1. ASSUME StoreInv PROVE StoreTypeOK
    <2>1. \A t \in Tokens : info[t].created \in 0..MaxClock
      BY <1>1, StoreTypeFacts DEF StoreAssumption, StoreInv, Times
    <2> QED BY <1>1, <2>1 DEF StoreInv, Types, StoreTypeOK, Order
  <1> QED BY <1>1, StoreInvariance, PTL

(* The records of a snapshot are released exactly once.                    *)
THEOREM RecordsAreReleasedOnce ==
    ASSUME StoreAssumption
    PROVE  StoreSpec => []ReleasedOnce
  <1>1. StoreInv => ReleasedOnce BY DEF StoreInv
  <1> QED BY <1>1, StoreInvariance, PTL

(* The store never holds more than MaxSnapshots snapshots.                 *)
THEOREM StoreIsBounded ==
    ASSUME StoreAssumption
    PROVE  StoreSpec => []Bounded
  <1>1. StoreInv => Bounded BY DEF StoreInv
  <1> QED BY <1>1, StoreInvariance, PTL

(* Capacity never costs a snapshot that was used more recently than one    *)
(* that stays.                                                             *)
THEOREM EvictionIsLeastRecentlyUsed ==
    ASSUME StoreAssumption
    PROVE  StoreSpec => []LeastRecentlyUsed
  <1>1. StoreInv => LeastRecentlyUsed BY DEF StoreInv
  <1> QED BY <1>1, StoreInvariance, PTL

(* A lookup never resolves a dead, expired or ambiguous snapshot.          *)
THEOREM AnswersAreLive ==
    ASSUME StoreAssumption
    PROVE  StoreSpec => []AnswersLive
  <1>1. StoreInv => AnswersLive BY DEF StoreInv
  <1> QED BY <1>1, StoreInvariance, PTL

(* Making room for a new snapshot never costs the one that a client has    *)
(* just used.                                                              *)
THEOREM TheJustUsedStays ==
    ASSUME StoreAssumption
    PROVE  StoreSpec => JustUsedStays
  <1>1. ASSUME StoreInv, [StoreNext]_storeVars, answer.op = "lookup", answer.outcome = "ok", MaxSnapshots > 1
        PROVE  fate'[answer.token] # "evicted"
    <2> DEFINE u == answer.token
    <2>1. u \in Live /\ u \in Tokens /\ fate[u] = "live"
      BY <1>1 DEF StoreInv, AnswersLive, Live
    <2>2. ASSUME NEW t \in Tokens, NEW kind \in Kinds, Create(t, kind), fate'[u] = "evicted"
          PROVE  FALSE
      <3>1. fate[t] = "new" /\ t # u /\ older' = MovedToEnd(t)
        BY <2>1, <2>2 DEF Create
      <3>2. /\ Cardinality(Kept(t)) > MaxSnapshots /\ u \in Kept(t)
            /\ \A s \in Kept(t) \ {u} : <<u, s>> \in older'
        <4>1. PICK victims \in SUBSET Kept(t) :
                  /\ Keep(t, victims)
                  /\ \/ victims = {}
                     \/ /\ Cardinality(Kept(t)) > MaxSnapshots
                        /\ \E v \in Kept(t) : /\ victims = {v}
                                              /\ \A s \in Kept(t) \ {v} : <<v, s>> \in older'
          BY <2>2 DEF Create, Oldest
        <4>2. u \in victims
          BY <4>1, <2>1, <2>2, <3>1 DEF Keep, AfterExpiry
        <4> QED BY <4>1, <4>2
      <3>3. Kept(t) \in SUBSET Tokens
        BY DEF Kept, Live
      <3>4. PICK s \in Kept(t) : s # t /\ s # u
        <4>1. SUFFICES ASSUME Kept(t) \subseteq {t, u} PROVE FALSE
          OBVIOUS
        <4>2. IsFiniteSet({t, u}) /\ Cardinality({t, u}) = 2
          <5>1. IsFiniteSet({t}) /\ Cardinality({t}) = 1
            BY FS_Singleton
          <5>2. {t, u} = {t} \union {u} /\ u \notin {t}
            BY <3>1
          <5>3. IsFiniteSet({t} \union {u}) /\ Cardinality({t} \union {u}) = 1 + 1
            BY <5>1, <5>2, FS_AddElement
          <5> QED BY <5>2, <5>3
        <4>3. Cardinality(Kept(t)) <= 2 /\ Cardinality(Kept(t)) \in Nat
          BY <4>1, <4>2, <3>3, FS_Subset, LiveIsFinite
        <4> QED BY <4>3, <3>2, <1>1 DEF StoreAssumption
      <3>5. s \in Stored \ {u} /\ <<u, s>> \in older'
        BY <3>2, <3>4 DEF Kept, Live, Stored
      <3>6. <<u, s>> \in older
        BY <3>1, <3>4, <3>5 DEF MovedToEnd
      <3>7. <<s, u>> \in older
        BY <1>1, <3>5 DEF StoreInv, UsedLast
      <3>8. \A a, b \in Tokens : <<a, b>> \in older => <<b, a>> \notin older
        BY <1>1, StoreTypeFacts DEF Order
      <3> QED BY <3>3, <3>4, <3>6, <3>7, <3>8, <2>1
    <2>3. ASSUME NEW t \in Tokens, Reject(t) PROVE fate'[u] # "evicted"
      BY <2>1, <2>3, StoreTypeFacts DEF Reject
    <2>4. ASSUME ExpireFirst PROVE fate'[u] # "evicted"
      BY <2>1, <2>4 DEF ExpireFirst, AfterExpiry
    <2>5. ASSUME NEW t \in Tokens, NEW id \in Ids \union {None}, NEW e \in Expectations,
                 Lookup(t, id, e)
          PROVE  fate'[u] # "evicted"
      BY <2>4, <2>5 DEF Lookup
    <2>6. ASSUME NEW x \in Targets, NEW id \in Ids, LookupLegacy(id, ModeOf[x])
          PROVE  fate'[u] # "evicted"
      BY <2>4, <2>6 DEF LookupLegacy
    <2>7. ASSUME NEW x \in Targets,
                 InvalidateTarget(x) \/ InvalidateProvider(ProviderOf[x], ModeOf[x])
          PROVE  fate'[u] # "evicted"
      BY <2>1, <2>7 DEF InvalidateTarget, InvalidateProvider, Drop
    <2>8. CASE Close
      BY <2>1, <2>8 DEF Close, Drop
    <2>9. CASE Tick \/ UNCHANGED storeVars
      BY <2>1, <2>9 DEF Tick, storeVars
    <2> QED BY <1>1, <2>2, <2>3, <2>5, <2>6, <2>7, <2>8, <2>9 DEF StoreNext, StoreStep
  <1>2. ASSUME StoreInv, [StoreNext]_storeVars
        PROVE  [answer.op = "lookup" /\ answer.outcome = "ok" /\ MaxSnapshots > 1
                    => fate'[answer.token] # "evicted"]_storeVars
    BY <1>1, <1>2
  <1> QED BY <1>2, StoreInvariance, PTL DEF StoreSpec, JustUsedStays
=============================================================================
