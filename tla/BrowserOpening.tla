--------------------------- MODULE BrowserOpening ---------------------------
(***************************************************************************)
(* open_if_missing (server.py, _open_transaction_target_until_present):    *)
(* before a page is opened in the default browser, a complete inventory of *)
(* the running browsers must prove that it is not open already.  The       *)
(* inventory takes a while: it is read process by process between two      *)
(* censuses, with an observer armed on every browser before the first      *)
(* reading, and everything is verified once more at the dispatch.          *)
(***************************************************************************)
EXTENDS NativeEvents

VARIABLES
  running,   \* browser processes
  look,      \* the inventory: browsers to read, browsers seen showing the page
  unproven   \* browsers that were launched since the last census

ovars == <<eventVars, running, look, unproven>>

OpeningTypeOK ==
  /\ EventsTypeOK
  /\ running \subseteq Pids /\ unproven \subseteq Pids
  /\ look \in [todo : SUBSET Pids, shows : SUBSET Pids, unclear : BOOLEAN]

OInit ==
  /\ EventsInit /\ running \in SUBSET Pids /\ unproven = {}
  /\ kind = "open" => showing \subseteq running
  /\ look = [todo |-> {}, shows |-> {}, unclear |-> FALSE]

-----------------------------------------------------------------------------
\* Browsers are launched and quit, and what they show changes, at any moment.
Census(processes) ==
  /\ kind = "open" /\ changes < MaxChanges
  /\ changes' = changes + 1
  /\ running' = processes /\ showing' = showing \cap processes
  /\ UNCHANGED <<kind, watched, silent, observers, request, expired, look>>

Launch(p) == p \notin running \cup watched /\ Census(running \cup {p}) /\ unproven' = unproven \cup {p}
Quit(p) == p \in running /\ Census(running \ {p}) /\ unproven' = unproven \ {p}

OChange(p) ==
  /\ kind = "open" => p \in running
  /\ Change(p)
  /\ UNCHANGED <<running, look, unproven>>

-----------------------------------------------------------------------------
\* The preliminary census.
TakeCensus ==
  /\ stage = "start" /\ kind = "open"
  /\ watched' = running /\ unproven' = {} /\ stage' = "arming"
  /\ UNCHANGED <<kind, showing, silent, changes, observers, subs, base, task, checks,
                 dispatched, expired, running, look>>

SameCohort == running = watched

MoveOn(to, taken, l) ==
  /\ Move(to) /\ look' = l
  /\ unproven' = IF taken THEN {} ELSE unproven
  /\ UNCHANGED <<subs, base, task, running>>

\* target_is_present before the dispatch: a census, ...
Survey ==
  /\ stage = "looking" /\ SameCohort
  /\ MoveOn("reading", TRUE, [look EXCEPT !.todo = watched])
  /\ UNCHANGED <<checks, dispatched>>

\* ... collect_browser_targets, which reads one browser after the other and
\* may find one of them or its tabs unreadable, ...
ReadBrowser(p) ==
  /\ stage = "reading" /\ p \in look.todo
  /\ \E now \in {[look EXCEPT !.shows = @ \cup (showing \cap {p})], [look EXCEPT !.unclear = TRUE]} :
       MoveOn("reading", FALSE, [now EXCEPT !.todo = @ \ {p}])
  /\ UNCHANGED <<checks, dispatched>>

\* ... and the final census with the classification of the query.
Surveyed == stage = "reading" /\ look.todo = {} /\ SameCohort

FoundOpen ==
  /\ Surveyed /\ look.shows # {}
  /\ MoveOn("met", TRUE, look) /\ Counted /\ UNCHANGED dispatched

Unchanged == \A p \in subs : tally[p] = base[p]

\* A mutant of Covered: the observers are there, what they told is not asked.
Armed == watched # {} => subs = watched /\ ended = {}

\* Observers on all browsers, and no notification since they were armed.
Covered == watched # {} => subs = watched /\ ended = {} /\ Unchanged

ProvenAbsent ==
  /\ Surveyed /\ look.shows = {} /\ ~look.unclear /\ Covered
  /\ MoveOn("ready", TRUE, look) /\ Counted /\ UNCHANGED dispatched

\* The guard on the worker: observers, the cohort, observers again.
VerifyCohort ==
  /\ stage = "ready" /\ kind = "open" /\ Covered /\ SameCohort
  /\ MoveOn("verified", TRUE, look) /\ UNCHANGED <<checks, dispatched>>

OpenUrl ==
  /\ stage = "verified" /\ Covered /\ ~expired
  /\ MoveOn("checking", FALSE, look) /\ dispatched' = TRUE /\ UNCHANGED checks

\* PROVIDER_BUSY: the inventory is incomplete or out of date.
Decline ==
  /\ \/ stage \in {"looking", "reading", "ready"} /\ ~SameCohort
     \/ stage = "reading" /\ look.unclear
     \/ stage = "reading" /\ look.todo = {} /\ look.shows = {} /\ ~Covered
     \/ stage \in {"ready", "verified"} /\ ~Covered
  /\ kind = "open"
  /\ MoveOn("error", FALSE, look) /\ UNCHANGED <<checks, dispatched>>

-----------------------------------------------------------------------------
Here == UNCHANGED <<running, look, unproven>>

OAdvance ==
  \/ TakeCensus \/ Survey \/ FoundOpen \/ ProvenAbsent \/ VerifyCohort \/ OpenUrl \/ Decline
  \/ \E p \in Pids : ReadBrowser(p)
  \/ Advance /\ Here

OListen(p) == Listen(p) /\ Here
OSignal(p) == Signal(p) /\ UNCHANGED <<desktop, request, expired>> /\ Here
Stop == Finished /\ UNCHANGED ovars

ONext ==
  \/ OAdvance \/ Stop
  \/ (Watchdog \/ Expire) /\ Here
  \/ \E p \in Pids : \/ Launch(p) \/ Quit(p) \/ OChange(p) \/ OListen(p)
                     \/ Observer(p) /\ Here

\* The observer threads and the event loop keep running; neither the watchdog
\* nor the deadline is counted on.
OpeningFairness ==
  /\ WF_ovars(OAdvance)
  /\ \A p \in Pids : WF_ovars(OListen(p)) /\ WF_ovars(OSignal(p))

OSpec == OInit /\ [][ONext]_ovars /\ OpeningFairness

-----------------------------------------------------------------------------
\* wait_for_change: "no notification can be lost".  Once an announced change
\* made a watched process show what is sought, a waiter that sleeps has been
\* or is about to be woken, whatever thread runs next.
NoLostWakeup ==
  \A p \in (showing \cap subs) \ (silent \cup ended) :
    stage = "waiting" /\ task[p] = "blocked" => notice[p] # "none" \/ posted[p] \/ wake[p]

\* A request does not sleep over what it waits for, even if no watchdog ever
\* elapses: an announced appearance that lasts ends it.
AppearedIsSeen ==
  <>[](\E p \in subs \ ended : p \in showing \ silent) => <>[](Finished \/ stage = "start")

\* open_if_missing opens nothing twice: at the moment the page is opened, no
\* browser shows it, except one whose notification is on its way to the
\* observer or which was launched after the census of the guard.
NoDuplicateOpen ==
  [][~dispatched /\ dispatched' /\ kind = "open" =>
       \A p \in showing : notice[p] = "changed" \/ p \in unproven]_ovars

=============================================================================
