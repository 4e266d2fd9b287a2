----------------------------- MODULE Transaction -----------------------------
(***************************************************************************)
(* transactions.py and action_kernel.py: one execute request run by the    *)
(* TransactionEngine.  It resolves a target, walks the steps in order,     *)
(* loads views of the user interface, resolves locators in them, hands     *)
(* each action to the ActionKernel, and answers once.  The provider, the   *)
(* clock and the client are the environment: an effect may land while its  *)
(* call is awaited or after it was given up, the budget may expire and     *)
(* the request may be cancelled at any await.                              *)
(*                                                                         *)
(* A view is the set of the request's effects that had landed when it was  *)
(* loaded; an element resolved in a view is known by that view.            *)
(***************************************************************************)
EXTENDS Naturals, Sequences

CONSTANTS
    Aliases,    \* transaction-local names
    NoAlias,
    MaxSteps,   \* MAX_TRANSACTION_STEPS
    Requests    \* the validated requests an instance considers

Operations == {"locate", "expect", "act", "scroll"}

Steps ==
    [op : Operations,
     name : Aliases \union {NoAlias},   \* the alias defined, or the ref used
     within : Aliases \union {NoAlias}, \* the scope of the step's locator
     expect : BOOLEAN,                  \* a nested expectation
     consequence : BOOLEAN]             \* external_write

Mutates(step) == step.op \in {"act", "scroll"}

AliasesBefore(steps, n) ==
    {steps[m].name : m \in {k \in 1..(n - 1) : steps[k].op = "locate"}}

(* parse_execute_request and _parse_step: the rules that span fields and   *)
(* steps.  A reference needs an earlier locate of its name, not a fresh    *)
(* one: that is left to the engine.                                        *)
StepValid(steps, n) ==
    LET step == steps[n]
        known == AliasesBefore(steps, n) IN
    /\ step.op = "locate" => step.name \in Aliases \ known
    /\ step.op = "expect" => step.name = NoAlias
    /\ step.op = "act" => step.name \in known
    /\ step.op = "scroll" => step.name \in known \union {NoAlias}
    /\ step.within \in known \union {NoAlias}
    /\ Mutates(step) => step.within = NoAlias
    /\ ~Mutates(step) => ~step.expect /\ ~step.consequence
    /\ step.consequence => \A m \in (n + 1)..Len(steps) : ~Mutates(steps[m])

Valid(request) ==
    /\ Len(request.steps) \in 1..MaxSteps
    /\ \A n \in 1..Len(request.steps) : StepValid(request.steps, n)
    /\ request.opens => request.foreground

AllRequests ==
    [steps : Seq(Steps),
     foreground : BOOLEAN,  \* or an exact shadow target
     opens : BOOLEAN,       \* on_missing = "open"
     final : BOOLEAN]       \* a final expectation

ASSUME TransactionAssumption ==
    /\ NoAlias \notin Aliases
    /\ MaxSteps \in Nat
    /\ Requests \subseteq AllRequests
    /\ \A request \in Requests : Valid(request)

VARIABLES
    request,
    pc,             \* the await the engine is at
    n,              \* the number of the current step
    view,           \* the latest view
    dirty,          \* an effect was dispatched after the view was loaded
    aliases,        \* for each alias, the view its element was resolved in
    replayUnsafe,   \* replay_unsafe
    completed,      \* completed_steps
    result,         \* the TransactionResult, or how the request ended
    expired,        \* the budget has run out
    landed,         \* the effects that have happened (0 opens the target)
    airborne,       \* the effects that may still happen
    activation      \* what became of the activation of the target

engineVars == <<request, n, view, dirty, aliases, replayUnsafe, completed>>
worldVars == <<expired, landed, airborne, activation>>
vars == <<engineVars, pc, result, worldVars>>

Effects == 0..MaxSteps
Views == SUBSET Effects
NoView == {MaxSteps + 1}    \* not a view: no request has such an effect
NoAliases == [a \in Aliases |-> NoView]
Running == [status |-> "running", retrySafe |-> FALSE, failedStep |-> 0, snapshot |-> FALSE]

Init ==
    /\ request \in Requests
    /\ pc = "resolve"
    /\ n = 1
    /\ view = NoView
    /\ dirty = FALSE
    /\ aliases = NoAliases
    /\ replayUnsafe = FALSE
    /\ completed = 0
    /\ result = Running
    /\ expired = FALSE
    /\ landed = {}
    /\ airborne = {}
    /\ activation = "none"

Step == request.steps[n]
Consequential == \E m \in 1..Len(request.steps) : request.steps[m].consequence

-----------------------------------------------------------------------------
(* The answers.                                                            *)

(* A mutant of Finish: the latest snapshot is returned, whatever its age.  *)
FinishWithAnyView(status, retrySafe, failedStep, seen, stale) ==
    /\ pc' = "done"
    /\ result' = [status |-> status,
                  retrySafe |-> retrySafe,
                  failedStep |-> failedStep,
                  snapshot |-> seen # NoView /\ status # "unknown"]

Finish(status, retrySafe, failedStep, seen, stale) ==
    /\ pc' = "done"
    /\ result' = [status |-> status,
                  retrySafe |-> retrySafe,
                  failedStep |-> failedStep,
                  snapshot |-> seen # NoView /\ ~stale /\ status # "unknown"]

Unknown(failedStep) == Finish("unknown", FALSE, failedStep, view, dirty)

(* A mutant of Failed: the request is judged, not what it has done.        *)
FailedByRequest(failedStep, seen, stale) ==
    Finish("failed", ~Consequential, failedStep, seen, stale)

(* failure(code) with a code that is not OUTCOME_UNKNOWN.                  *)
Failed(failedStep, seen, stale) ==
    Finish("failed", ~replayUnsafe /\ ~Consequential, failedStep, seen, stale)

FailedAt == IF pc \in {"resolve", "opening"} \/ n > Len(request.steps) THEN 0 ELSE n

(* CancelledError at an await: it is passed on only if nothing was done.   *)
Cancelled ==
    IF replayUnsafe
    THEN Unknown(FailedAt)
    ELSE pc' = "done" /\ result' = [Running EXCEPT !.status = "cancelled"]

-----------------------------------------------------------------------------
(* Target resolution.                                                      *)

(* No page had to be opened.                                               *)
ResolveTarget ==
    /\ pc = "resolve" /\ ~expired
    /\ \/ request.foreground /\ activation' = "active"
       \/ ~request.foreground /\ UNCHANGED activation
    /\ pc' = "step"
    /\ UNCHANGED <<engineVars, result, expired, landed, airborne>>

ResolveFails ==
    /\ pc = "resolve"
    /\ \/ Failed(0, view, dirty) /\ UNCHANGED activation
       \/ /\ request.foreground /\ ~expired
          /\ activation' = "uncertain"
          /\ Failed(0, view, dirty)
    /\ UNCHANGED <<engineVars, expired, landed, airborne>>

(* on_missing = "open": the operating system is asked to open the page.    *)
OpenTarget ==
    /\ pc = "resolve" /\ ~expired
    /\ request.opens
    /\ airborne' = {0}
    /\ pc' = "opening"
    /\ UNCHANGED <<engineVars, result, expired, landed, activation>>

(* The page is open, visible, and the new target was activated.            *)
OpenSucceeds ==
    /\ pc = "opening"
    /\ 0 \in landed
    /\ replayUnsafe' = TRUE
    /\ activation' = "active"
    /\ pc' = "step"
    /\ UNCHANGED <<request, n, view, dirty, aliases, completed, result, expired,
                   landed, airborne>>

(* The opener itself reports that it could not open anything.              *)
OpenRefused ==
    /\ pc = "opening"
    /\ 0 \notin landed
    /\ airborne' = {}
    /\ Failed(0, view, dirty)
    /\ UNCHANGED <<engineVars, expired, landed, activation>>

(* Anything else that interrupts an opening; before Python 3.12, wait_for  *)
(* lets a cancellation win over the error the resolution turned it into.   *)
OpenUncertain ==
    /\ pc = "opening"
    /\ Unknown(0) \/ Cancelled
    /\ UNCHANGED <<engineVars, worldVars>>

-----------------------------------------------------------------------------
(* Steps.                                                                  *)

AtStep(operations) ==
    /\ pc = "step"
    /\ n <= Len(request.steps)
    /\ Step.op \in operations

(* view_for: the first use observes, a use after an effect refreshes.      *)
FreshView == IF view = NoView \/ dirty THEN landed ELSE view
LoadView == view' = FreshView /\ dirty' = FALSE

(* A locate or expect step resolves its locator in the current view.       *)
Locate ==
    /\ AtStep({"locate", "expect"}) /\ ~expired
    /\ LoadView
    /\ aliases' = IF Step.op = "locate" THEN [aliases EXCEPT ![Step.name] = FreshView]
                  ELSE aliases
    /\ completed' = completed + 1
    /\ n' = n + 1
    /\ UNCHANGED <<request, pc, replayUnsafe, result, worldVars>>

(* The view loads, but the locator has no match in it or several.          *)
LocateFails ==
    /\ AtStep({"locate", "expect"}) /\ ~expired
    /\ LoadView
    /\ Failed(n, FreshView, FALSE)
    /\ UNCHANGED <<request, n, aliases, replayUnsafe, completed, worldVars>>

(* A deadline, or an error of an observation, a check or action_ports.     *)
StepFails ==
    /\ pc \in {"step", "checks", "expect"}
    /\ n <= Len(request.steps)
    /\ Failed(n, view, dirty)
    /\ UNCHANGED <<engineVars, worldVars>>

(* An action step looks its reference up; the first step of a request may  *)
(* be a scroll, which has to observe first.                                *)
SelectAction ==
    /\ AtStep({"act", "scroll"}) /\ ~expired
    /\ Step.name # NoAlias => aliases[Step.name] # NoView
    /\ IF view = NoView THEN LoadView ELSE UNCHANGED <<view, dirty>>
    /\ pc' = "checks"
    /\ UNCHANGED <<request, n, aliases, replayUnsafe, completed, result, worldVars>>

(* ActionKernel.run: capability and focus hold, the budget is not spent,   *)
(* and the one selected port is invoked.                                   *)
Dispatch ==
    /\ pc = "checks" /\ ~expired
    /\ airborne' = {n}
    /\ pc' = "dispatch"
    /\ UNCHANGED <<engineVars, result, expired, landed, activation>>

(* A mutant of ForgetViews: elements resolved before an action stay usable. *)
ForgetView == dirty' = TRUE /\ aliases' = aliases

(* Every acknowledged or uncertain action ends the life of its views.      *)
ForgetViews == dirty' = TRUE /\ aliases' = NoAliases

(* A mutant of Acknowledged: the step counts before its expectation holds. *)
CountedEarly ==
    /\ pc = "dispatch"
    /\ n \in landed
    /\ replayUnsafe' = TRUE
    /\ ForgetViews
    /\ completed' = completed + 1
    /\ IF Step.expect
       THEN pc' = "expect" /\ UNCHANGED n
       ELSE pc' = "step" /\ n' = n + 1
    /\ UNCHANGED <<request, view, result, worldVars>>

(* The receipt acknowledges the action.                                    *)
Acknowledged ==
    /\ pc = "dispatch"
    /\ n \in landed
    /\ replayUnsafe' = TRUE
    /\ ForgetViews
    /\ IF Step.expect
       THEN pc' = "expect" /\ UNCHANGED <<n, completed>>
       ELSE pc' = "step" /\ n' = n + 1 /\ completed' = completed + 1
    /\ UNCHANGED <<request, view, result, worldVars>>

(* The port declined before it touched anything: a retry-safe receipt.     *)
Declined ==
    /\ pc = "dispatch"
    /\ n \notin landed
    /\ airborne' = {}
    /\ ForgetViews
    /\ Failed(n, view, TRUE)
    /\ UNCHANGED <<request, n, view, replayUnsafe, completed, expired, landed, activation>>

(* Deadline, cancellation, exception, or an uncertain or invalid receipt.  *)
Uncertain ==
    /\ pc = "dispatch"
    /\ ForgetViews
    /\ Unknown(n)
    /\ UNCHANGED <<request, n, view, replayUnsafe, completed, worldVars>>

(* The nested expectation of an action that was acknowledged.              *)
Expected ==
    /\ pc = "expect" /\ ~expired
    /\ LoadView
    /\ \/ /\ pc' = "step"
          /\ n' = n + 1
          /\ completed' = completed + 1
          /\ UNCHANGED result
       \/ /\ Failed(n, FreshView, FALSE)
          /\ UNCHANGED <<n, completed>>
    /\ UNCHANGED <<request, aliases, replayUnsafe, worldVars>>

(* All steps are done: the final expectation, if any, and success.         *)
AfterSteps == pc = "step" /\ n > Len(request.steps)

Succeed ==
    /\ AfterSteps
    /\ \/ /\ ~request.final
          /\ Finish("succeeded", FALSE, 0, view, dirty)
          /\ UNCHANGED <<view, dirty>>
       \/ /\ request.final /\ ~expired
          /\ LoadView
          /\ Finish("succeeded", FALSE, 0, FreshView, FALSE)
    /\ UNCHANGED <<request, n, aliases, replayUnsafe, completed, worldVars>>

FinalFails ==
    /\ AfterSteps /\ request.final
    /\ \/ Failed(0, view, dirty) /\ UNCHANGED <<view, dirty>>
       \/ ~expired /\ LoadView /\ Failed(0, FreshView, FALSE)
    /\ UNCHANGED <<request, n, aliases, replayUnsafe, completed, worldVars>>

(* A step suspends only if it has to load a view.                          *)
Suspends ==
    \/ pc \in {"resolve", "checks", "expect"}
    \/ pc = "step" /\ view = NoView
    \/ AtStep({"locate", "expect"}) /\ dirty
    \/ AfterSteps /\ request.final /\ dirty

(* The client's request is cancelled at an await outside of a dispatch.    *)
Cancel ==
    /\ Suspends
    /\ Cancelled
    /\ UNCHANGED <<engineVars, worldVars>>

-----------------------------------------------------------------------------
(* The environment.                                                        *)

Expire ==
    /\ ~expired /\ pc # "done"
    /\ expired' = TRUE
    /\ UNCHANGED <<engineVars, pc, result, landed, airborne, activation>>

(* A call takes effect, awaited or not, or comes to nothing.               *)
Land ==
    /\ airborne # {}
    /\ landed' = landed \union airborne
    /\ airborne' = {}
    /\ UNCHANGED <<engineVars, pc, result, expired, activation>>

Fizzle ==
    /\ airborne # {} /\ pc = "done"
    /\ airborne' = {}
    /\ UNCHANGED <<engineVars, pc, result, expired, landed, activation>>

-----------------------------------------------------------------------------
Next ==
    \/ ResolveTarget \/ ResolveFails \/ OpenTarget \/ OpenSucceeds
    \/ OpenRefused \/ OpenUncertain
    \/ Locate \/ LocateFails \/ StepFails \/ SelectAction
    \/ Dispatch \/ Acknowledged \/ Declined \/ Uncertain
    \/ Expected \/ Succeed \/ FinalFails \/ Cancel
    \/ Expire \/ Land \/ Fizzle

Spec == Init /\ [][Next]_vars

-----------------------------------------------------------------------------
(* Properties.                                                             *)

TypeOK ==
    /\ request \in AllRequests
    /\ pc \in {"resolve", "opening", "step", "checks", "dispatch", "expect", "done"}
    /\ n \in 1..(Len(request.steps) + 1)
    /\ view \in Views \union {NoView}
    /\ dirty \in BOOLEAN
    /\ aliases \in [Aliases -> Views \union {NoView}]
    /\ replayUnsafe \in BOOLEAN
    /\ completed \in 0..Len(request.steps)
    /\ result \in [status : {"running", "succeeded", "failed", "unknown", "cancelled"},
                   retrySafe : BOOLEAN, failedStep : 0..MaxSteps, snapshot : BOOLEAN]
    /\ expired \in BOOLEAN
    /\ landed \in Views
    /\ airborne \in Views
    /\ activation \in {"none", "active", "uncertain"}

(* An element is acted on only in a view that shows every earlier effect   *)
(* of the request: a reference never survives an action.                   *)
FreshReferences ==
    pc \in {"checks", "dispatch"} /\ Step.name # NoAlias
        => IF pc = "checks" THEN aliases[Step.name] = landed
                            ELSE aliases[Step.name] = landed \ {n}

(* The snapshot a client receives shows the interface as the request left  *)
(* it: nothing has happened since it was taken and nothing can any more.   *)
SnapshotCurrent ==
    result.snapshot => view = landed /\ airborne = {}

(* The number of completed steps and the failed step tell the client       *)
(* exactly how far the request got.                                        *)
ProgressHonest ==
    LET Acts(S) == {m \in S : Mutates(request.steps[m])} IN
    /\ result.status = "succeeded" =>
          /\ completed = Len(request.steps)
          /\ Acts(1..Len(request.steps)) \subseteq landed
    /\ result.failedStep # 0 =>
          /\ completed = result.failedStep - 1
          /\ Acts(1..completed) \subseteq landed
          /\ landed \union airborne \subseteq 0..result.failedStep

(* No effect is begun once the budget has expired.                         *)
DispatchInTime ==
    [][ airborne' \subseteq airborne \/ ~expired ]_vars

(* The answers keep the replay contract.                                   *)
Verdict ==
    CASE result.status = "running" -> "none"
      [] result.status = "failed" /\ result.retrySafe -> "retry"
      [] OTHER -> result.status

Contract == INSTANCE ReplayContract WITH verdict <- Verdict

ImplementsReplayContract == Contract!AbsSpec

(* docs/api/mcp-tools.md: "or `OUTCOME_UNKNOWN` after a dispatch whose     *)
(* completion cannot be proved" - the activation of a target included.     *)
UncertaintyReported ==
    pc = "done" /\ activation = "uncertain" => result.status = "unknown"
=============================================================================
