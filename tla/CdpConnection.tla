---------------------------- MODULE CdpConnection ----------------------------
(***************************************************************************)
(* cdp_persistent.py: one websocket to the browser carries the commands of *)
(* the sessions of all tabs.  When it is lost, the next ensure_connected   *)
(* or a failed read opens another one, a new generation, on which the      *)
(* browser attaches to the tabs again, with new session ids.               *)
(*                                                                         *)
(* A command is one call of CDPSession.send after ensure_connected, on a   *)
(* session that its caller may hold for a while.  Every action is what a   *)
(* task of the event loop does between two awaits, or an event of the      *)
(* network.                                                                *)
(***************************************************************************)
EXTENDS Naturals, FiniteSets

CONSTANTS
    Commands,    \* calls of send
    Idempotent,  \* those that are declared safe to repeat
    Targets,     \* page targets, the tabs
    TargetOf,    \* the target of each command
    MaxWires,    \* how many websockets the browser accepts before it is gone
    Abrupt,      \* may an error that names something else than the transport
                 \* as closed meet a pending command?
    Shutdown,    \* may the process end?
    None

ASSUME CdpConnectionAssumption ==
    /\ Idempotent \subseteq Commands
    /\ TargetOf \in [Commands -> Targets]
    /\ MaxWires \in Nat \ {0}
    /\ Abrupt \in BOOLEAN /\ Shutdown \in BOOLEAN
    /\ None \notin Commands

(* A websocket is named by the generation it began; 0 is none.  A session  *)
(* is named by its target and the websocket on which the browser attached. *)
Wires == 1..MaxWires
Sessions == Targets \X Wires

VARIABLES
    generation, \* _generation
    connected,  \* _connected
    ws,         \* _ws
    lock,       \* who holds _connect_lock
    loops,      \* the websockets whose _read_loop is running
    up,         \* the websockets that are open and work
    registered, \* the keys of _sessions
    gen,        \* the generation each session was registered with, or 0
    bound,      \* _tab_by_target: the session of each tab, or 0
    open,       \* the tabs that are open in the browser
    disconnect, \* the progress of disconnect: no, closing or over
    pc,         \* where each command is
    held,       \* the session it uses, or 0
    pending,    \* futures in _pending: a command and a session of its target
    reply,      \* how the future it awaits was settled
    tries,      \* how often the command was given to a websocket
    via,        \* the last one it was given to
    outcome     \* what its caller was told

transport == <<generation, connected, ws, loops, up>>
table == <<registered, gen, bound>>
commands == <<pc, held, pending, reply, tries, via, outcome>>
vars == <<transport, lock, table, open, disconnect, commands>>

Init ==
    /\ generation = 0 /\ connected = FALSE /\ ws = 0
    /\ lock = None
    /\ loops = {} /\ up = {}
    /\ registered = {}
    /\ gen = [s \in Sessions |-> 0]
    /\ bound = [t \in Targets |-> 0]
    /\ open = Targets
    /\ disconnect = "no"
    /\ pc = [c \in Commands |-> "idle"]
    /\ held = [c \in Commands |-> 0]
    /\ pending = {}
    /\ reply = [c \in Commands |-> "none"]
    /\ tries = [c \in Commands |-> 0]
    /\ via = [c \in Commands |-> 0]
    /\ outcome = [c \in Commands |-> "none"]

Waiting == {"await", "again"}

SessionOf(c, w) == <<TargetOf[c], w>>

(* get_session_for_target: the session of the tab, if it is registered and *)
(* of the current generation.                                              *)
Current(t) ==
    IF <<t, bound[t]>> \in registered /\ gen[<<t, bound[t]>>] = generation
    THEN bound[t] ELSE 0

(* The futures pending on the given sessions are settled in one way.       *)
Settle(sessions, how) ==
    LET hit == {p \in pending : SessionOf(p[1], p[2]) \in sessions} IN
    /\ pending' = pending \ hit
    /\ reply' = [c \in Commands |->
                    IF pc[c] \in Waiting /\ <<c, held[c]>> \in hit
                    THEN how ELSE reply[c]]

End(c, how) ==
    /\ pc' = [pc EXCEPT ![c] = "over"]
    /\ outcome' = [outcome EXCEPT ![c] = how]

Goto(c, where) ==
    /\ pc' = [pc EXCEPT ![c] = where]
    /\ UNCHANGED outcome

-----------------------------------------------------------------------------
(* ensure_connected and reconnect.                                         *)

(* What the caller of ensure_connected does next: take a session.          *)
Hold(c) ==
    LET w == Current(TargetOf[c]) IN
    \/ /\ w = 0
       /\ End(c, "absent")
       /\ UNCHANGED held
    \/ /\ w # 0
       /\ held' = [held EXCEPT ![c] = w]
       /\ Goto(c, "held")

(* The connection is there for a caller that wanted a session, or for a    *)
(* failed command that will be repeated.                                   *)
Proceed(c) ==
    \/ held[c] = 0 /\ Hold(c)
    \/ held[c] # 0 /\ Goto(c, "rebind") /\ UNCHANGED held

Begin(c) ==
    /\ pc[c] = "idle"
    /\ \/ connected /\ Hold(c)
       \/ ~connected /\ Goto(c, "ensure") /\ UNCHANGED held
    /\ UNCHANGED <<transport, lock, table, open, disconnect,
                   pending, reply, tries, via>>

(* The lock is free for a caller of ensure_connected, which may find the   *)
(* work done.                                                              *)
LockToConnect(c) ==
    /\ pc[c] = "ensure" /\ lock = None
    /\ \/ /\ connected
          /\ Proceed(c)
          /\ UNCHANGED lock
       \/ /\ ~connected
          /\ Goto(c, "opening")
          /\ lock' = c
          /\ UNCHANGED held
    /\ UNCHANGED <<transport, table, open, disconnect,
                   pending, reply, tries, via>>

(* The read task is cancelled: its finally fails what is pending.          *)
StopLoop ==
    /\ loops' = loops \ {generation}
    /\ Settle(IF generation \in loops THEN registered ELSE {}, "lost")

(* A mutant of Failed: whatever transport is there now is torn down.       *)
FailedAnyway(c) == TRUE

(* Is the transport still the one the command failed on?                   *)
Failed(c) == gen[SessionOf(c, held[c])] = generation

LockToReconnect(c) ==
    /\ pc[c] = "reconnect" /\ lock = None
    /\ \/ /\ ~Failed(c)
          /\ Proceed(c)
          /\ UNCHANGED <<transport, lock, pending, reply>>
       \/ /\ Failed(c)
          /\ Goto(c, IF ws # 0 THEN "closing" ELSE "retiring")
          /\ lock' = c
          /\ connected' = FALSE
          /\ ws' = 0
          /\ StopLoop
          /\ UNCHANGED <<generation, up, held>>
    /\ UNCHANGED <<table, open, disconnect, tries, via>>

(* The old websocket, if there is one, is closed and its generation        *)
(* retired.                                                                *)
RetireTransport(c) ==
    LET retired == {s \in registered : gen[s] <= generation} IN
    /\ pc[c] \in {"closing", "retiring"}
    /\ up' = IF pc[c] = "closing" THEN up \ {generation} ELSE up
    /\ Settle(retired, "failed")
    /\ registered' = registered \ retired
    /\ bound' = [t \in Targets |->
                    IF <<t, bound[t]>> \in registered' THEN bound[t] ELSE 0]
    /\ Goto(c, "opening")
    /\ UNCHANGED <<generation, connected, ws, loops, gen, lock, open,
                   disconnect, held, tries, via>>

(* Discovery and the handshake of the websocket take round trips; that the *)
(* loop of a lost transport has noticed by then is assumed, not enforced   *)
(* by the code.                                                            *)
Open(c) ==
    /\ pc[c] = "opening"
    /\ generation < MaxWires
    /\ loops \subseteq up
    /\ generation' = generation + 1
    /\ ws' = generation'
    /\ connected' = TRUE
    /\ loops' = loops \union {generation'}
    /\ up' = up \union {generation'}
    /\ Goto(c, "greeting")
    /\ UNCHANGED <<lock, table, open, disconnect,
                   held, pending, reply, tries, via>>

(* The browser acknowledged discovery and auto-attach.                     *)
Ready(c) ==
    /\ pc[c] = "greeting"
    /\ generation \in loops \intersect up
    /\ lock' = None
    /\ Proceed(c)
    /\ UNCHANGED <<transport, table, open, disconnect,
                   pending, reply, tries, via>>

(* A mutant of OpenFails: the lock stays taken.                            *)
OpenFailsLocked(c) ==
    /\ pc[c] = "opening"
    /\ End(c, "unreachable")
    /\ UNCHANGED <<transport, lock, table, open, disconnect,
                   held, pending, reply, tries, via>>

(* The browser is not there, or the caller's deadline passes.              *)
OpenFails(c) ==
    /\ pc[c] = "opening"
    /\ lock' = None
    /\ End(c, "unreachable")
    /\ UNCHANGED <<transport, table, open, disconnect,
                   held, pending, reply, tries, via>>

(* A mutant of ReadyFails: the websocket is left open.                     *)
ReadyFailsOpen(c) ==
    /\ pc[c] = "greeting"
    /\ connected' = FALSE
    /\ ws' = 0
    /\ StopLoop
    /\ lock' = None
    /\ End(c, "unreachable")
    /\ UNCHANGED <<generation, up, table, open, disconnect, held, tries, via>>

(* A browser command of the startup fails or the caller gives up: the new  *)
(* transport is taken down again, its generation is spent.                 *)
ReadyFails(c) ==
    /\ pc[c] = "greeting"
    /\ connected' = FALSE
    /\ ws' = 0
    /\ StopLoop
    /\ up' = up \ {generation}
    /\ lock' = None
    /\ End(c, "unreachable")
    /\ UNCHANGED <<generation, table, open, disconnect, held, tries, via>>

(* The reconnect of a read times out, or its caller leaves, while the old  *)
(* websocket is being closed, which it may still be.                       *)
RetireFails(c) ==
    /\ pc[c] = "closing"
    /\ up' \in {up, up \ {generation}}
    /\ lock' = None
    /\ End(c, "unreachable")
    /\ UNCHANGED <<generation, connected, ws, loops, table, open, disconnect,
                   held, pending, reply, tries, via>>

-----------------------------------------------------------------------------
(* CDPSession.send.                                                        *)

(* Only the generation the caller saw fail is marked.                      *)
MarkDisconnected(s) ==
    connected' = IF gen[s] = generation THEN FALSE ELSE connected

(* A mutant of Disconnected: whatever failed is repeated.                  *)
DisconnectedRetried(c, s) ==
    /\ MarkDisconnected(s)
    /\ Goto(c, "reconnect")

(* The first attempt met a connection error.                               *)
Disconnected(c, s) ==
    /\ MarkDisconnected(s)
    /\ \/ c \in Idempotent /\ Goto(c, "reconnect")
       \/ c \notin Idempotent /\ End(c, "unknown")

(* A connection error ends a repeated command for good.                    *)
Fail(c, s) ==
    \/ pc[c] \notin {"rebind", "rebound", "again"} /\ Disconnected(c, s)
    \/ /\ pc[c] \in {"rebind", "rebound", "again"}
       /\ End(c, "lost again")
       /\ UNCHANGED connected

(* _send_once: the future is registered, then the command written to the   *)
(* websocket of the moment, where a loss may not have been noticed.        *)
(* Without a websocket, the failure is no connection error.                *)
SendOnce(c, w, then) ==
    /\ held' = [held EXCEPT ![c] = w]
    /\ pending' = pending \union {<<c, w>>}
    /\ \/ /\ ws = 0
          /\ End(c, "failed")
          /\ UNCHANGED <<connected, tries, via>>
       \/ /\ ws # 0
          /\ tries' = [tries EXCEPT ![c] = @ + 1]
          /\ via' = [via EXCEPT ![c] = ws]
          /\ \/ ws \in up \union loops /\ Goto(c, then) /\ UNCHANGED connected
             \/ ws \notin up /\ Fail(c, SessionOf(c, w))
    /\ UNCHANGED <<generation, ws, loops, up, lock, table, open,
                   disconnect, reply>>

(* The tab of a mutation has got another session.                          *)
Rebound(c) == c \notin Idempotent /\ Current(TargetOf[c]) \notin {0, held[c]}

Send(c) ==
    LET now == Current(TargetOf[c]) IN
    /\ pc[c] = "held"
    /\ ~Rebound(c)
    /\ SendOnce(c, IF now # 0 THEN now ELSE held[c], "await")

Reject(c) ==
    /\ pc[c] = "held"
    /\ Rebound(c)
    /\ End(c, "stale")
    /\ UNCHANGED <<transport, lock, table, open, disconnect,
                   held, pending, reply, tries, via>>

(* The new session of the tab is there, or wait_for_session_for_target has *)
(* handed it over.                                                         *)
Retry(c) ==
    LET now == Current(TargetOf[c]) IN
    \/ pc[c] = "rebind" /\ now \notin {0, held[c]} /\ SendOnce(c, now, "again")
    \/ pc[c] = "rebound" /\ SendOnce(c, held[c], "again")

(* The awaited future is settled.                                          *)
Resume(c) ==
    /\ pc[c] \in Waiting
    /\ reply[c] # "none"
    /\ reply' = [reply EXCEPT ![c] = "none"]
    /\ \/ reply[c] \in {"result", "failed"} /\ End(c, reply[c]) /\ UNCHANGED connected
       \/ reply[c] \in {"lost", "closed"} /\ Fail(c, SessionOf(c, held[c]))
    /\ UNCHANGED <<generation, ws, loops, up, lock, table, open, disconnect,
                   held, pending, tries, via>>

(* A deadline of the command or of its caller, or a cancellation, at an    *)
(* await outside of the lock.  The future of a command stays pending.      *)
GiveUp(c) ==
    /\ \/ pc[c] \in {"ensure", "held", "reconnect", "rebind", "rebound"}
       \/ pc[c] \in Waiting /\ reply[c] = "none"
    /\ End(c, "given up")
    /\ UNCHANGED <<transport, lock, table, open, disconnect,
                   held, pending, reply, tries, via>>

-----------------------------------------------------------------------------
(* The read loop.                                                          *)

(* Is a command waiting for its answer on this session?                    *)
Awaited(s) == \E c \in Commands : pc[c] \in Waiting /\ SessionOf(c, held[c]) = s

(* _on_attached: a session replaces the one the tab had, and goes to those *)
(* that wait for it.                                                       *)
Attached(t, w) ==
    LET waiters == {c \in Commands : pc[c] = "rebind" /\ TargetOf[c] = t} IN
    /\ w \in loops \intersect up
    /\ t \in open
    /\ gen[<<t, w>>] = 0
    /\ Settle({<<t, bound[t]>>} \intersect registered, "failed")
    /\ registered' = (registered \ {<<t, bound[t]>>}) \union {<<t, w>>}
    /\ gen' = [gen EXCEPT ![<<t, w>>] = generation]
    /\ bound' = [bound EXCEPT ![t] = w]
    /\ pc' = [c \in Commands |-> IF c \in waiters THEN "rebound" ELSE pc[c]]
    /\ held' = [c \in Commands |-> IF c \in waiters THEN w ELSE held[c]]
    /\ UNCHANGED <<transport, lock, open, disconnect, tries, via, outcome>>

(* _on_detached: the tab was closed.  The commands pending on its session  *)
(* fail with an error that says so, unless no command is awaited.          *)
Detached(t, w) ==
    /\ w \in loops \intersect up
    /\ <<t, w>> \in registered
    /\ Abrupt \/ ~Awaited(<<t, w>>)
    /\ open' = open \ {t}
    /\ Settle({<<t, w>>}, "closed")
    /\ registered' = registered \ {<<t, w>>}
    /\ bound' = IF bound[t] = w THEN [bound EXCEPT ![t] = 0] ELSE bound
    /\ UNCHANGED <<transport, lock, gen, disconnect, pc, held, tries, via, outcome>>

(* The browser answers a command that was sent under a session of the      *)
(* websocket, perhaps with an error that says "closed".                    *)
Respond(c, w) ==
    /\ w \in loops \intersect up
    /\ held[c] = w /\ via[c] = w
    /\ <<c, w>> \in pending
    /\ SessionOf(c, w) \in registered
    /\ pending' = pending \ {<<c, w>>}
    /\ \E how \in {"result", "closed"} :
          /\ how = "closed" => Abrupt
          /\ reply' = [reply EXCEPT ![c] = IF pc[c] \in Waiting THEN how ELSE @]
    /\ UNCHANGED <<transport, lock, table, open, disconnect, pc, held, tries,
                   via, outcome>>

LoseWire(w) ==
    /\ w \in up
    /\ up' = up \ {w}
    /\ UNCHANGED <<generation, connected, ws, loops, lock, table, open,
                   disconnect, commands>>

(* A mutant of EndLoop: the loop ends without a word to those who wait.    *)
EndLoopQuietly(w) ==
    /\ w \in loops \ up
    /\ loops' = loops \ {w}
    /\ connected' \in {FALSE, connected}
    /\ UNCHANGED <<generation, ws, up, lock, table, open, disconnect, commands>>

(* The loop of a lost websocket ends: all sessions lose their pending      *)
(* commands.  An orderly close is not noted as a loss.                     *)
EndLoop(w) ==
    /\ w \in loops \ up
    /\ loops' = loops \ {w}
    /\ connected' \in {FALSE, connected}
    /\ Settle(registered, "lost")
    /\ UNCHANGED <<generation, ws, up, lock, table, open, disconnect,
                   pc, held, tries, via, outcome>>

-----------------------------------------------------------------------------
(* disconnect, at the end of the process: it does not take the lock.       *)

Disconnect ==
    /\ Shutdown /\ disconnect = "no"
    /\ disconnect' = "closing"
    /\ connected' = FALSE
    /\ StopLoop
    /\ up' = up \ {ws}
    /\ UNCHANGED <<generation, ws, lock, table, open, pc, held, tries, via, outcome>>

Forget ==
    /\ disconnect = "closing"
    /\ disconnect' = "over"
    /\ ws' = 0
    /\ registered' = {}
    /\ bound' = [t \in Targets |-> 0]
    /\ pc' = [c \in Commands |-> IF pc[c] = "rebind" THEN "over" ELSE pc[c]]
    /\ outcome' = [c \in Commands |->
                      IF pc[c] = "rebind" THEN "given up" ELSE outcome[c]]
    /\ UNCHANGED <<generation, connected, loops, up, lock, gen, open, held,
                   pending, reply, tries, via>>

-----------------------------------------------------------------------------
CommandStep(c) ==
    \/ Begin(c) \/ LockToConnect(c) \/ LockToReconnect(c)
    \/ RetireTransport(c) \/ RetireFails(c)
    \/ Open(c) \/ OpenFails(c) \/ Ready(c) \/ ReadyFails(c)
    \/ Send(c) \/ Reject(c) \/ Retry(c) \/ Resume(c) \/ GiveUp(c)

Browser ==
    \/ \E w \in Wires : LoseWire(w) \/ EndLoop(w)
    \/ \E t \in Targets, w \in Wires : Attached(t, w) \/ Detached(t, w)
    \/ \E c \in Commands, w \in Wires : Respond(c, w)

Next ==
    \/ \E c \in Commands : CommandStep(c)
    \/ Browser
    \/ Disconnect \/ Forget

Spec == Init /\ [][Next]_vars

(* Tasks whose wait is over run, a startup is answered or times out, and a *)
(* loop notices its end.  No deadline of a caller is assumed.              *)
Fairness ==
    /\ \A c \in Commands :
          /\ WF_vars(LockToConnect(c) \/ LockToReconnect(c))
          /\ WF_vars(RetireTransport(c))
          /\ WF_vars(Open(c) \/ OpenFails(c))
          /\ WF_vars(Ready(c) \/ ReadyFails(c))
          /\ WF_vars(Resume(c))
    /\ \A w \in Wires : WF_vars(EndLoop(w))

FairSpec == Spec /\ Fairness

-----------------------------------------------------------------------------
(* Properties.                                                             *)

TypeOK ==
    /\ generation \in 0..MaxWires
    /\ connected \in BOOLEAN
    /\ ws \in {0, generation}
    /\ lock \in Commands \union {None}
    /\ loops \subseteq Wires
    /\ up \subseteq Wires
    /\ registered \subseteq Sessions
    /\ gen \in [Sessions -> 0..MaxWires]
    /\ bound \in [Targets -> 0..MaxWires]
    /\ open \subseteq Targets
    /\ disconnect \in {"no", "closing", "over"}
    /\ pc \in [Commands -> {"idle", "ensure", "opening", "greeting", "held",
                            "await", "reconnect", "closing", "retiring", "rebind",
                            "rebound", "again", "over"}]
    /\ held \in [Commands -> 0..MaxWires]
    /\ pending \subseteq Commands \X Wires
    /\ reply \in [Commands -> {"none", "result", "failed", "lost", "closed"}]
    /\ tries \in [Commands -> 0..2]
    /\ via \in [Commands -> 0..MaxWires]
    /\ outcome \in [Commands -> {"none", "absent", "unreachable", "failed",
                                 "unknown", "lost again", "stale", "result",
                                 "given up"}]

(* A mutation is given to a websocket at most once, whatever is lost and   *)
(* replaced around it, and not at all if its caller is told that it was    *)
(* not sent; a read is repeated once.                                      *)
SentOnce ==
    \A c \in Commands :
        /\ c \notin Idempotent => tries[c] <= 1
        /\ tries[c] <= 2
        /\ outcome[c] \in {"absent", "stale"} => tries[c] = 0

(* "Opens exactly one WebSocket": a transport that works is never left     *)
(* behind for another one.                                                 *)
OneTransport == Cardinality(up) <= 1

(* Only commands of a transport that was lost or taken down fail with it.  *)
LossIsReal ==
    \A c \in Commands :
        reply[c] = "lost" \/ outcome[c] \in {"unknown", "lost again"}
        => via[c] \notin up

(* A caller that comes late with a failure tears down no transport that    *)
(* works.                                                                  *)
LateCallerHarmless ==
    \A c \in Commands : pc[c] \in {"closing", "retiring"} => generation \notin up

(* "stale session IDs are never reused": a command travels on the          *)
(* websocket on which the browser issued its session id.                   *)
StaleIdsUnused ==
    \A c \in Commands : pc[c] \in Waiting => via[c] = held[c]

(* A caller whose command was under way on a registered session when its   *)
(* transport was lost is told so, without waiting for its deadline.        *)
LossNoticed ==
    \A c \in Commands :
        /\ pc[c] \in Waiting
        /\ SessionOf(c, held[c]) \in registered
        /\ via[c] = held[c] /\ via[c] \notin up
        ~> pc[c] \notin Waiting \/ disconnect # "no"

(* Nobody waits for the connection lock for ever.                          *)
LockPasses ==
    \A c \in Commands : pc[c] \in {"ensure", "reconnect"}
                        ~> pc[c] \notin {"ensure", "reconnect"}
=============================================================================
