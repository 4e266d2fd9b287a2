--------------------------- MODULE TargetResolver ---------------------------
(***************************************************************************)
(* target_resolver.py: one target is resolved from a short-lived inventory *)
(* that concurrent callers share, or from a lease on an exact target, and  *)
(* is brought to the front on request.  An inventory is a scan with a      *)
(* number; the targets it finds are new identities, so <<scan, tab>> is    *)
(* the identifier of a target.                                             *)
(*                                                                         *)
(* The server resolves through it in the foreground only (a shadow target  *)
(* is found by the persistent connection), so there is one inventory.      *)
(*                                                                         *)
(* `world' counts the mutations of the desktop and `acked' those whose     *)
(* handler has called invalidate: a scan is stale for a call that began    *)
(* after the invalidation of a mutation the scan may not have seen.        *)
(***************************************************************************)
EXTENDS Naturals, FiniteSets

CONSTANTS
  Callers,     \* tasks that resolve targets
  Tabs,        \* the tabs of the browser
  Inventories, \* the sets of tabs a scan may find
  CacheTTL,    \* ticks an inventory stays usable
  LeaseTTL,    \* ticks an exact target stays usable
  MaxTime,     \* bound: the clock
  MaxScans,    \* bound: inventories taken
  MaxWorld,    \* bound: mutations of the desktop
  None

ResolverAssumption ==
  /\ CacheTTL \in Nat \ {0} /\ LeaseTTL \in Nat /\ CacheTTL <= LeaseTTL
  /\ Inventories \subseteq SUBSET Tabs
  /\ MaxTime \in Nat /\ MaxScans \in Nat /\ MaxWorld \in Nat
  /\ None \notin 1..MaxScans

VARIABLES
  now,      \* the resolver's clock
  scans,    \* scans[s]: [state, world, tabs], the inventories taken so far
  cache,    \* the completed inventory, [scan, expires], or None
  leases,   \* exact targets, {[target, expires]}
  flight,   \* the scan a new caller joins, or None
  call,     \* call[c]: the resolution of a caller
  lane,     \* holder of the coordinator's foreground lane, or None
  world, acked

vars == <<now, scans, cache, leases, flight, call, lane, world, acked>>

Scans == 1..MaxScans
Targets == Scans \X Tabs
ScanStates == {"unused", "running", "done", "failed", "cancelled"}
Idle == [pc |-> "idle", kind |-> None, activate |-> FALSE,
         since |-> 0, scan |-> None, target |-> None]

Calls == [pc : {"idle", "waiting", "activating", "resolved"},
          kind : {"query", "exact", "pid", "list", None}, activate : BOOLEAN,
          since : 0..MaxWorld, scan : Scans \cup {None}, target : Targets \cup {None}]

Taken == [state : ScanStates, world : 0..MaxWorld, tabs : SUBSET Tabs]

TypeOK ==
  /\ now \in 0..MaxTime
  /\ scans \in [Scans -> Taken]
  /\ cache \in [scan : Scans, expires : Nat] \cup {None}
  /\ leases \subseteq [target : Targets, expires : Nat]
  /\ flight \in Scans \cup {None}
  /\ call \in [Callers -> Calls]
  /\ lane \in Callers \cup {"mutation", None}
  /\ world \in 0..MaxWorld /\ acked \in 0..MaxWorld

Init ==
  /\ now = 0
  /\ scans = [s \in Scans |-> [state |-> "unused", world |-> 0, tabs |-> {}]]
  /\ cache = None
  /\ leases = {}
  /\ flight = None
  /\ call = [c \in Callers |-> Idle]
  /\ lane = None
  /\ world = 0 /\ acked = 0

-----------------------------------------------------------------------------
\* Caches and leases.  Every reader prunes what has expired before it reads, so
\* what an operation prunes a little early is not seen.

PrunedCache == IF cache # None /\ cache.expires <= now THEN None ELSE cache
PrunedLeases == {l \in leases : l.expires > now}

\* A lease on t that runs from now, replacing the one t had.
Leased(held, t) ==
  {l \in held : l.target # t} \cup {[target |-> t, expires |-> now + LeaseTTL]}

TargetsOf(s) == {s} \X scans[s].tabs

\* All leases are replaced by those of one inventory.
Remembered(s) == {[target |-> t, expires |-> now + LeaseTTL] : t \in TargetsOf(s)}

\* Inventory, leases and the registered flight are forgotten; the flight goes
\* on for those awaiting it.
Invalidate ==
  /\ cache' = None
  /\ leases' = {}
  /\ flight' = None

-----------------------------------------------------------------------------
\* Scans and their waiters.

Waiters(s) == {c \in Callers : call[c].pc = "waiting" /\ call[c].scan = s}
FreshScan(s) == scans[s].state = "unused" /\ \A r \in 1..(s - 1) : scans[r].state # "unused"
Started(s) == [scans EXCEPT ![s] = [state |-> "running", world |-> world, tabs |-> {}]]

\* A mutant of ReleaseWaiter: the cancelled scan stays on the registry.
CancelOnly(c) ==
  LET s == call[c].scan
  IN /\ scans' = IF Waiters(s) = {c} /\ scans[s].state = "running"
                 THEN [scans EXCEPT ![s].state = "cancelled"] ELSE scans
     /\ UNCHANGED flight

\* The last waiter of a scan that still runs cancels it, and takes it off the
\* registry if it is still there.
ReleaseWaiter(c) ==
  LET s == call[c].scan
      last == Waiters(s) = {c}
  IN /\ scans' = IF last /\ scans[s].state = "running"
                 THEN [scans EXCEPT ![s].state = "cancelled"] ELSE scans
     /\ flight' = IF last /\ flight = s THEN None ELSE flight

\* A mutant of ProduceInventory: a scan fills the cache whether it is
\* registered or not.
ProduceAnyway(s) ==
  /\ scans[s].state = "running"
  /\ \E found \in Inventories :
       scans' = [scans EXCEPT ![s].state = "done", ![s].tabs = found]
  /\ cache' = [scan |-> s, expires |-> now + CacheTTL]
  /\ UNCHANGED <<now, leases, flight, call, lane, world, acked>>

\* The producer answers: only a scan that is still registered fills the cache.
ProduceInventory(s) ==
  /\ scans[s].state = "running"
  /\ \E found \in Inventories :
       scans' = [scans EXCEPT ![s].state = "done", ![s].tabs = found]
  /\ cache' = IF flight = s THEN [scan |-> s, expires |-> now + CacheTTL] ELSE cache
  /\ UNCHANGED <<now, leases, flight, call, lane, world, acked>>

ScanFails(s) ==
  /\ scans[s].state = "running"
  /\ scans' = [scans EXCEPT ![s].state = "failed"]
  /\ UNCHANGED <<now, cache, leases, flight, call, lane, world, acked>>

\* The done callback of a scan unregisters that scan only.
InventoryFinished(s) ==
  /\ scans[s].state \in {"done", "failed", "cancelled"}
  /\ flight = s /\ flight' = None
  /\ UNCHANGED <<now, scans, cache, leases, call, lane, world, acked>>

-----------------------------------------------------------------------------
\* A resolution.

MayBegin(c, activate) ==
  /\ call[c].pc = "idle"
  /\ activate => lane = None

Take(c, activate) == lane' = IF activate THEN c ELSE lane

\* The caller has its answer or its error; an interactive one leaves the lane.
Free(c) == IF lane = c THEN None ELSE lane
End(c) == call' = [call EXCEPT ![c] = Idle] /\ lane' = Free(c)

Call(kind, activate) ==
  [Idle EXCEPT !.kind = kind, !.activate = activate, !.since = acked]

\* The call once its target is known.
Chosen(r, t) ==
  [r EXCEPT !.target = t, !.pc = IF r.activate THEN "activating" ELSE "resolved"]

\* What a query makes of inventory s: a target, which it leases, or a failure
\* because none, or no single one, matches.
Select(c, r, s, held) ==
  \/ End(c) /\ leases' = held
  \/ \E t \in TargetsOf(s) :
       /\ call' = [call EXCEPT ![c] = Chosen([r EXCEPT !.scan = None], t)]
       /\ Take(c, r.activate)
       /\ leases' = Leased(held, t)

BeginPid(c, activate) ==
  /\ MayBegin(c, activate) /\ Take(c, activate)
  /\ call' = [call EXCEPT ![c] = Chosen(Call("pid", activate), None)]
  /\ UNCHANGED <<now, scans, cache, leases, flight, world, acked>>

\* An exact target comes from its lease and never from a scan; without one the
\* request is refused and nothing has changed.
BeginExact(c, activate, t) ==
  /\ MayBegin(c, activate) /\ Take(c, activate)
  /\ cache' = PrunedCache /\ leases' = PrunedLeases
  /\ \E l \in PrunedLeases : l.target = t
  /\ call' = [call EXCEPT ![c] = Chosen(Call("exact", activate), t)]
  /\ UNCHANGED <<now, scans, flight, world, acked>>

Hit(c, r) ==
  /\ PrunedCache # None
  /\ Select(c, r, PrunedCache.scan, PrunedLeases)
  /\ cache' = PrunedCache
  /\ UNCHANGED <<scans, flight>>

Join(c, r) ==
  /\ PrunedCache = None /\ flight # None
  /\ call' = [call EXCEPT ![c] = [r EXCEPT !.pc = "waiting", !.scan = flight]]
  /\ Take(c, r.activate)
  /\ cache' = PrunedCache /\ leases' = PrunedLeases
  /\ UNCHANGED <<scans, flight>>

Miss(c, r) ==
  /\ PrunedCache = None /\ flight = None
  /\ \E s \in Scans :
       /\ FreshScan(s) /\ scans' = Started(s)
       /\ flight' = s
       /\ call' = [call EXCEPT ![c] = [r EXCEPT !.pc = "waiting", !.scan = s]]
  /\ Take(c, r.activate)
  /\ cache' = PrunedCache /\ leases' = PrunedLeases

BeginQuery(c, activate) ==
  LET r == Call("query", activate)
  IN /\ MayBegin(c, activate)
     /\ Hit(c, r) \/ Join(c, r) \/ Miss(c, r)
     /\ UNCHANGED <<now, world, acked>>

\* A waiter resumes with the inventory it waited for.
Resume(c) ==
  /\ call[c].pc = "waiting" /\ call[c].kind # "list"
  /\ scans[call[c].scan].state = "done"
  /\ ReleaseWaiter(c)
  /\ Select(c, call[c], call[c].scan, PrunedLeases)
  /\ cache' = PrunedCache
  /\ UNCHANGED <<now, world, acked>>

\* It ends with the scan's failure, or with its own deadline or cancellation.
StopWaiting(c) ==
  /\ call[c].pc = "waiting"
  /\ ReleaseWaiter(c)
  /\ End(c)
  /\ UNCHANGED <<now, cache, leases, world, acked>>

ScanFailed(c) ==
  call[c].pc = "waiting" /\ scans[call[c].scan].state = "failed" /\ StopWaiting(c)

\* Everything but the success of an activation of a browser target
\* invalidates; that success renews the target's lease.
Activated(c) ==
  /\ call[c].pc = "activating"
  /\ call' = [call EXCEPT ![c].pc = "resolved"]
  /\ IF call[c].target = None
     THEN Invalidate
     ELSE /\ leases' = Leased(PrunedLeases, call[c].target)
          /\ cache' = PrunedCache
          /\ UNCHANGED flight
  /\ UNCHANGED <<now, scans, lane, world, acked>>

ActivationFails(c) ==
  /\ call[c].pc = "activating"
  /\ End(c)
  /\ Invalidate
  /\ UNCHANGED <<now, scans, world, acked>>

\* The caller is done with its target.
Leave(c) ==
  /\ call[c].pc = "resolved"
  /\ End(c)
  /\ UNCHANGED <<now, scans, cache, leases, flight, world, acked>>

-----------------------------------------------------------------------------
\* The other users of the resolver.

\* list_tabs takes an inventory of its own and remembers what it found.
BeginList(c) ==
  /\ MayBegin(c, FALSE)
  /\ \E s \in Scans :
       /\ FreshScan(s) /\ scans' = Started(s)
       /\ call' = [call EXCEPT ![c] = [Call("list", FALSE)
                                         EXCEPT !.pc = "waiting", !.scan = s]]
  /\ UNCHANGED <<now, cache, leases, flight, lane, world, acked>>

RememberTargets(c) ==
  /\ call[c].pc = "waiting" /\ call[c].kind = "list"
  /\ scans[call[c].scan].state = "done"
  /\ End(c)
  /\ cache' = PrunedCache /\ leases' = Remembered(call[c].scan)
  /\ UNCHANGED <<now, scans, flight, world, acked>>

\* A native mutation, in the lane; its handler invalidates before it leaves.
MutationActs ==
  /\ lane = None /\ world < MaxWorld
  /\ lane' = "mutation" /\ world' = world + 1
  /\ UNCHANGED <<now, scans, cache, leases, flight, call, acked>>

MutationEnds ==
  /\ lane = "mutation"
  /\ Invalidate
  /\ lane' = None /\ acked' = world
  /\ UNCHANGED <<now, scans, call, world>>

\* open_if_missing: the complete inventory s that shows the page becomes the
\* cached one and its targets are leased.
PrimeInventory(s) ==
  /\ FreshScan(s)
  /\ \E found \in Inventories \ {{}} :
       /\ scans' = [scans EXCEPT ![s] = [state |-> "done", world |-> world, tabs |-> found]]
       /\ leases' = {[target |-> <<s, t>>, expires |-> now + LeaseTTL] : t \in found}
  /\ cache' = [scan |-> s, expires |-> now + CacheTTL]

\* The page was opened: everything older is invalidated first.
OpenedPage(s) ==
  /\ lane = "mutation"
  /\ PrimeInventory(s)
  /\ flight' = None
  /\ lane' = None /\ acked' = world
  /\ UNCHANGED <<now, call, world>>

\* The page was there already: nothing was dispatched, nothing is invalidated.
FoundPage(s) ==
  /\ lane = None
  /\ PrimeInventory(s)
  /\ UNCHANGED <<now, flight, call, lane, world, acked>>

Tick ==
  /\ now < MaxTime
  /\ now' = now + 1
  /\ UNCHANGED <<scans, cache, leases, flight, call, lane, world, acked>>

Begin(c) ==
  \E activate \in BOOLEAN :
    \/ BeginPid(c, activate)
    \/ \E t \in Targets : BeginExact(c, activate, t)
    \/ BeginQuery(c, activate)

Step(c) ==
  \/ Resume(c) \/ RememberTargets(c) \/ Activated(c) \/ ActivationFails(c)
  \/ ScanFailed(c)

Scanning(s) == ProduceInventory(s) \/ ScanFails(s) \/ InventoryFinished(s)

Others == \/ MutationActs \/ MutationEnds \/ Tick
          \/ \E s \in Scans : Scanning(s) \/ OpenedPage(s) \/ FoundPage(s)

Next == \/ \E c \in Callers : Begin(c) \/ BeginList(c) \/ Step(c) \/ StopWaiting(c) \/ Leave(c)
        \/ Others

Spec == Init /\ [][Next]_vars

=============================================================================
