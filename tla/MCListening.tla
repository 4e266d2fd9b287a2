----------------------------- MODULE MCListening -----------------------------
(***************************************************************************)
(* What the event loop hears from outside: the websocket of a browser and  *)
(* the notifications of the desktop.  Neither module reads the state of    *)
(* the other, so a behaviour is one of one of them while the other stays   *)
(* as it was created.                                                      *)
(*                                                                         *)
(* Browser: a mutation of one tab and a read of another.  Desktop: two     *)
(* processes, two changes, all kinds of request.                           *)
(***************************************************************************)
EXTENDS MCCdpConnection, BrowserOpening

CONSTANTS p1, p2

VARIABLE source

AllKinds == {"wait", "act", "open"}

-----------------------------------------------------------------------------
\* The desktop beside a browser is one of its initial states.
ListeningInit ==
  /\ source \in {"browser", "desktop"} /\ Init /\ OInit
  /\ source = "browser" => kind = "wait" /\ showing = {} /\ running = {}

BrowserStep == source = "browser" /\ Next /\ UNCHANGED <<source, ovars>>
DesktopStep == source = "desktop" /\ ONext /\ UNCHANGED <<source, vars>>

ListeningNext == BrowserStep \/ DesktopStep

\* The fairness of OSpec, for a desktop that is not as it was created.
DesktopFairness ==
  /\ WF_ovars(source = "desktop" /\ OAdvance)
  /\ \A p \in Pids : /\ WF_ovars(source = "desktop" /\ OListen(p))
                     /\ WF_ovars(source = "desktop" /\ OSignal(p))

ListeningSpec ==
  /\ ListeningInit /\ [][ListeningNext]_<<source, vars, ovars>>
  /\ Fairness /\ DesktopFairness
=============================================================================
