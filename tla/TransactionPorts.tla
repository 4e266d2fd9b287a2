-------------------------- MODULE TransactionPorts --------------------------
(***************************************************************************)
(* The ports of a transaction (TransactionPorts of transactions.py) as     *)
(* both runtimes implement them: _ForegroundTransactionRuntime (server.py) *)
(* over the native adapter and physical input, and                         *)
(* PersistentCDPTransactionRuntime (shadow_transactions.py) over one       *)
(* session of the persistent connection.  The engine is any client that    *)
(* calls them in the order in which the TransactionEngine does: it         *)
(* observes first, refreshes a view that an action has outdated before it  *)
(* locates anything, and may scroll without having located.                *)
(*                                                                         *)
(* An action is the list of its checks and commands; "dispatch" marks the  *)
(* place where ActionKernel invokes the dispatch port.  An action that is  *)
(* followed by a locator watches for it and keeps what it saw for the      *)
(* refresh: a root and perhaps an error (foreground), or a view (shadow).  *)
(***************************************************************************)
EXTENDS Naturals, Sequences

CONSTANTS
  Modes,       \* {"foreground", "shadow"}, or one of them
  MaxEffects,  \* bound: actions dispatched
  MaxDocs,     \* bound: documents the page navigates to
  Nothing      \* a model value

VARIABLES
  mode,
  place,        \* where the engine is among its ports
  script, at,   \* the action in progress and its position
  watches,      \* what the latest action is followed by, or "clean"
  begun,        \* the number of effects that were begun
  sent,         \* this action has sent a command that acts
  outstanding,  \* the provider call or command that is not settled
  ack,          \* what an awaited one returned
  happened,     \* the effects that have happened
  pending,      \* _pending_root or _pending_view: the effects it shows
  error,        \* _pending_error: the effects that its reading showed
  reading,      \* the reading of a page in progress
  revision,     \* the document of the latest view (shadow)
  shown,        \* the effects that the latest view shows
  doc,          \* the document of the page
  session,      \* the session that was bound is the current one
  fence,        \* the lane waits for what is outstanding
  admitted      \* it has let the next operation in

action == <<script, at, watches>>
effects == <<begun, sent, outstanding, ack, happened>>
kept == <<pending, error, reading, revision>>
world == <<doc, session>>
lane == <<fence, admitted>>
portVars == <<mode, place, action, effects, kept, shown, world, lane>>

-----------------------------------------------------------------------------
(* _transaction_action_ports: capability, focus, dispatch.                 *)

Press == <<"element", "target", "dispatch", "act">>
PointerClick == <<"element", "available", "target", "dispatch", "pointer", "act">>
SecureValue == <<"element", "target", "dispatch", "act">>
Hover == <<"element", "available", "target", "dispatch", "pointer", "act">>
ScrollAt == <<"element", "available", "target", "dispatch", "pointer", "act">>
Scroll == <<"available", "target", "dispatch", "act">>

\* exact_element_focused: the element has the focus, or is given it.
Keyboard == <<"element", "available", "target", "focused", "dispatch", "act">>
FocusAndKeyboard == <<"element", "available", "target", "focus", "focused", "dispatch", "act">>

Located == {Press, PointerClick, SecureValue, Hover, ScrollAt, Keyboard, FocusAndKeyboard}

(* PersistentCDPTransactionRuntime.action_ports and _perform_action.       *)
ShadowClick == <<"revision", "node", "dispatch", "act">>
ShadowHover == <<"revision", "node", "revision", "node", "dispatch", "act">>
ShadowScroll == <<"revision", "dispatch", "act">>
ShadowType == <<"revision", "node", "dispatch", "focus", "focused", "act">>
ShadowKey == <<"revision", "node", "dispatch", "focus", "focused", "act", "act">>

ShadowLocated == {ShadowClick, ShadowHover, ShadowType, ShadowKey}

Scripts ==
  IF mode = "foreground" THEN Located \cup {Scroll} ELSE ShadowLocated \cup {ShadowScroll}
Unlocated == {Scroll, ShadowScroll}

Commands == {"act", "focus"}

-----------------------------------------------------------------------------
PortsInit ==
  /\ mode \in Modes
  /\ place = "engine" /\ script = <<>> /\ at = 0 /\ watches = "unseen"
  /\ begun = 0 /\ sent = FALSE /\ outstanding = "none" /\ ack = "none" /\ happened = {}
  /\ pending = Nothing /\ error = Nothing /\ reading = Nothing /\ revision = 0
  /\ shown = {}
  /\ doc = 0 /\ session = TRUE
  /\ fence = FALSE /\ admitted = FALSE

Current == IF at \in 1..Len(script) THEN script[at] ELSE "end"
Dispatched == place \in {"action", "waiting", "completing"}
              /\ \E i \in 1..(at - 1) : script[i] = "dispatch"

Ended(how) == place' = how /\ UNCHANGED <<mode, action, effects, kept, shown, world, lane>>

-----------------------------------------------------------------------------
(* Views.                                                                  *)

\* The engine has no view, or one from before its latest action.
NeedsView == place = "engine" /\ watches \in {"unseen", "expect", "later"}

HandOut(shows) ==
  /\ shown' = shows /\ watches' = "clean" /\ place' = "engine"
  /\ UNCHANGED <<mode, script, at, effects, world, lane>>

\* refresh: the error that a completion left is raised, ...
RaisePending ==
  /\ NeedsView /\ error # Nothing
  /\ place' = "failed"
  /\ error' = Nothing /\ pending' = Nothing
  /\ UNCHANGED <<mode, action, effects, reading, revision, shown, world, lane>>

\* ... or its root or view is handed out, ...
UsePending ==
  /\ NeedsView /\ error = Nothing /\ pending # Nothing
  /\ pending' = Nothing
  /\ HandOut(pending)
  /\ UNCHANGED <<error, reading, revision>>

\* ... or the target is read anew.
StartReading ==
  /\ NeedsView /\ error = Nothing /\ pending = Nothing
  /\ place' = "reading"
  /\ UNCHANGED <<mode, action, effects, kept, shown, world, lane>>

\* The subtree of the scope, in one call of the native worker.
LoadRoot ==
  /\ place = "reading" /\ mode = "foreground"
  /\ HandOut(happened)
  /\ UNCHANGED kept

\* _read_view: the document, the tree, the document; then the session.
ReadsPage == mode = "shadow" /\ (place = "reading" \/ place = "completing")

ReadRevision ==
  /\ ReadsPage /\ reading = Nothing /\ session
  /\ reading' = [doc |-> doc, tree |-> Nothing, shows |-> {}]
  /\ UNCHANGED <<mode, place, action, effects, pending, error, revision, shown, world, lane>>

ReadTree ==
  /\ ReadsPage /\ reading # Nothing /\ reading.tree = Nothing
  /\ reading' = [reading EXCEPT !.tree = doc, !.shows = happened]
  /\ UNCHANGED <<mode, place, action, effects, pending, error, revision, shown, world, lane>>

Bracketed == reading # Nothing /\ reading.tree # Nothing /\ reading.doc = doc /\ session

ViewRead ==
  /\ place = "reading" /\ Bracketed
  /\ reading' = Nothing /\ revision' = reading.doc
  /\ HandOut(reading.shows)
  /\ UNCHANGED <<pending, error>>

\* The document changed during the reading: it is read once more.
ReadAgain ==
  /\ ReadsPage /\ reading # Nothing /\ reading.tree # Nothing /\ reading.doc # doc
  /\ reading' = Nothing
  /\ UNCHANGED <<mode, place, action, effects, pending, error, revision, shown, world, lane>>

-----------------------------------------------------------------------------
(* Actions.                                                                *)

\* The engine has located what it acts on, or scrolls; what it looks for
\* after the action is the action's own expectation, a later step's locator
\* or the final expectation, or nothing.
BeginAction ==
  /\ place = "engine" /\ begun < MaxEffects
  /\ \E s \in Scripts, w \in {"expect", "later", "none"} :
       /\ watches \in {"clean", "later", "none"}
       /\ watches # "clean" => s \in Unlocated
       /\ watches = "later" => w # "none"
       /\ watches = "none" => w # "later"
       /\ script' = s /\ watches' = w
  /\ at' = 1 /\ sent' = FALSE /\ place' = "action"
  /\ UNCHANGED <<mode, begun, outstanding, ack, happened, kept, shown, world, lane>>

Advance ==
  /\ at' = at + 1
  /\ UNCHANGED <<mode, script, watches, kept, shown, world, lane>>

\* A check holds.  What an element or a window answers is anybody's guess; a
\* document and a node are those of the latest view, in the current session.
Check ==
  /\ place = "action" /\ Current \notin Commands \cup {"end"}
  /\ Current \in {"revision", "node"} => session /\ doc = revision
  /\ Advance /\ UNCHANGED <<place, effects>>

\* It does not, or the port finds that it has no way to act: nothing was sent
\* that acts.  Once dispatched, only these two checks are answers of their own.
Refuse ==
  /\ place = "action" /\ Current \notin Commands \cup {"end", "dispatch"}
  /\ Dispatched => Current \in {"pointer", "focused"}
  /\ place' = "refused"
  /\ pending' = IF mode = "shadow" /\ Dispatched THEN Nothing ELSE pending
  /\ UNCHANGED <<mode, action, effects, error, reading, revision, shown, world, lane>>

Send ==
  /\ place = "action" /\ Current \in Commands
  /\ mode = "shadow" => session
  /\ outstanding' = Current /\ ack' = "none" /\ place' = "waiting"
  /\ sent' = (sent \/ Current = "act")
  /\ begun' = IF Current = "act" /\ ~sent THEN begun + 1 ELSE begun
  /\ UNCHANGED <<mode, action, happened, kept, shown, world, lane>>

\* The provider settles the call, whoever still waits for it.  Input that was
\* posted in part, and a script that failed half-way, are no success.
Settle ==
  /\ outstanding # "none"
  /\ \E ok \in BOOLEAN :
       /\ happened' \in (IF outstanding # "act" THEN {happened}
                       ELSE IF ok THEN {happened \cup {begun}}
                       ELSE {happened, happened \cup {begun}})
       /\ ack' = IF place = "waiting" THEN IF ok THEN "ok" ELSE "failed" ELSE "none"
  /\ outstanding' = "none"
  /\ UNCHANGED <<mode, place, action, begun, sent, kept, shown, world, lane>>

Returned == place = "waiting" /\ outstanding = "none" /\ ack = "ok"

Succeeds ==
  /\ Returned
  /\ Advance
  /\ place' = "action" /\ ack' = "none"
  /\ UNCHANGED <<begun, sent, outstanding, happened>>

\* A focus that could not be given is no dispatch in the foreground; any other
\* failure of a command is uncertain.
Fails ==
  /\ place = "waiting" /\ outstanding = "none" /\ ack = "failed"
  /\ Ended(IF Dispatched THEN "uncertain" ELSE "refused")

\* The last command has succeeded.  The shadow runtime forgets what an earlier
\* action kept; without anything to look for, the action is acknowledged.
Acted ==
  /\ place = "action" /\ Current = "end"
  /\ place' = IF watches = "none" THEN "engine" ELSE "completing"
  /\ pending' = IF mode = "shadow" THEN Nothing ELSE pending
  /\ UNCHANGED <<mode, action, effects, error, reading, revision, shown, world, lane>>

\* _capture_completion: the locator has one match, several, or none yet.
Captured ==
  /\ place = "completing" /\ mode = "foreground"
  /\ pending' = happened
  /\ error' \in {error, happened}
  /\ place' = "engine"
  /\ UNCHANGED <<mode, action, effects, reading, revision, shown, world, lane>>

\* _await_completion: a view has one match, or not yet; several are an error
\* of the dispatch.
Confirmed ==
  /\ place = "completing" /\ Bracketed
  /\ \/ pending' = reading.shows /\ place' = "engine"
     \/ UNCHANGED <<pending, place>>
  /\ reading' = Nothing /\ revision' = reading.doc
  /\ UNCHANGED <<mode, action, effects, error, shown, world, lane>>

-----------------------------------------------------------------------------
(* Deadlines, cancellations and errors, at any await.                      *)

\* A mutant of GiveUp: the lane is left as if nothing were outstanding.
GiveUpUnfenced ==
  /\ place \in {"reading", "action", "waiting", "completing"}
  /\ place' = IF Dispatched THEN "uncertain" ELSE "failed"
  /\ UNCHANGED <<mode, action, effects, kept, shown, world, lane>>

\* Before the dispatch it is a failure; afterwards it is uncertain, and the
\* lane is fenced while the call may still run.  Giving an element the focus is
\* a check in the foreground: it is not waited for.
GiveUp ==
  /\ place \in {"reading", "action", "waiting", "completing"}
  /\ place' = IF Dispatched THEN "uncertain" ELSE "failed"
  /\ fence' = (Dispatched /\ outstanding # "none")
  /\ UNCHANGED <<mode, action, effects, kept, shown, world, admitted>>

Done == place = "engine" /\ ~NeedsView /\ Ended("done")

Over == {"refused", "failed", "uncertain", "done"}

\* The next operation enters the lane.
Admit ==
  /\ place \in Over /\ ~admitted
  /\ fence => outstanding = "none"
  /\ admitted' = TRUE
  /\ UNCHANGED <<mode, place, action, effects, kept, shown, world, fence>>

-----------------------------------------------------------------------------
(* The page and its connection.                                            *)

Navigate ==
  /\ mode = "shadow" /\ doc < MaxDocs
  /\ doc' = doc + 1
  /\ UNCHANGED <<mode, place, action, effects, kept, shown, session, lane>>

\* The connection is replaced: what was sent fails, and has acted or not.
Replace ==
  /\ mode = "shadow" /\ session
  /\ session' = FALSE
  /\ outstanding' = "none"
  /\ ack' = IF outstanding # "none" /\ place = "waiting" THEN "failed" ELSE ack
  /\ happened' \in (IF outstanding = "act" THEN {happened, happened \cup {begun}} ELSE {happened})
  /\ UNCHANGED <<mode, place, action, begun, sent, kept, shown, doc, lane>>

-----------------------------------------------------------------------------
View ==
  \/ RaisePending \/ UsePending \/ StartReading \/ LoadRoot
  \/ ReadRevision \/ ReadTree \/ ViewRead \/ ReadAgain

Act ==
  \/ BeginAction \/ Check \/ Refuse \/ Send \/ Succeeds \/ Fails \/ Acted
  \/ Captured \/ Confirmed

PortsNext == View \/ Act \/ Settle \/ GiveUp \/ Done \/ Admit \/ Navigate \/ Replace

PortsSpec == PortsInit /\ [][PortsNext]_portVars

-----------------------------------------------------------------------------
\* Where the engine is, as far as the ports told it.
Told ==
  CASE place \in Over -> place
    [] place \in {"action", "waiting", "completing"} /\ sent -> "dispatching"
    [] OTHER -> "ready"

Ports == INSTANCE PortContract WITH
              airborne <- IF outstanding = "act" THEN {begun} ELSE {},
              told <- Told, landed <- happened

(***************************************************************************)
(* Both runtimes are what the engine relies on: they acknowledge only what *)
(* has happened, decline only what was never begun, hand out no view from  *)
(* before an effect, and keep the lane shut while one may still happen.    *)
(***************************************************************************)
ImplementsPorts == Ports!PortSpec

(***************************************************************************)
(* docs/api/mcp-tools.md: "A successful action invalidates active alias    *)
(* bindings and the local view before a later condition is checked."  What *)
(* a refresh raises is about the interface as the latest action left it.   *)
(***************************************************************************)
ReadingsFresh == [][RaisePending => error = happened]_portVars
=============================================================================
