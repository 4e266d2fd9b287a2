---------------------------- MODULE PortContract ----------------------------
(***************************************************************************)
(* What the TransactionEngine relies on in the ports of a provider, with   *)
(* no commands, checks, sessions or readings: an effect that was           *)
(* acknowledged has happened, an action that was declined was never        *)
(* begun, a view shows what has happened when it is handed out, and nobody *)
(* else is let into the lane while an effect may still happen.             *)
(***************************************************************************)
EXTENDS Naturals

CONSTANT MaxEffects

VARIABLES
  landed,    \* the effects that have happened
  airborne,  \* the effect that was begun and may still happen
  begun,     \* the number of effects that were begun
  told,      \* where the engine is, as far as the ports told it
  shown,     \* the effects that its latest view shows
  admitted   \* the lane has let the next operation in

portVars == <<landed, airborne, begun, told, shown, admitted>>

Over == {"refused", "failed", "uncertain", "done"}

PortInit ==
  /\ landed = {} /\ airborne = {} /\ begun = 0 /\ shown = {}
  /\ told = "ready" /\ admitted = FALSE

Begin ==
  /\ told = "ready" /\ begun < MaxEffects
  /\ begun' = begun + 1 /\ airborne' = {begun'}
  /\ told' = "dispatching"
  /\ UNCHANGED <<landed, shown, admitted>>

\* A key goes down, then up.
BeginAgain ==
  /\ told = "dispatching" /\ airborne = {} /\ begun \in landed
  /\ airborne' = {begun}
  /\ UNCHANGED <<landed, begun, told, shown, admitted>>

Settle ==
  /\ airborne # {} /\ airborne' = {}
  /\ landed' \in {landed, landed \cup airborne}
  /\ UNCHANGED <<begun, told, shown, admitted>>

Acknowledge ==
  /\ told = "dispatching" /\ airborne = {} /\ begun \in landed
  /\ told' = "ready"
  /\ UNCHANGED <<landed, airborne, begun, shown, admitted>>

\* Only what was not begun is refused or fails; the rest is uncertain.
Answer(how) ==
  /\ told \notin Over
  /\ how # "uncertain" => told = "ready"
  /\ told' = how
  /\ UNCHANGED <<landed, airborne, begun, shown, admitted>>

Show ==
  /\ told = "ready" /\ shown' = landed
  /\ UNCHANGED <<landed, airborne, begun, told, admitted>>

Admit ==
  /\ told \in Over /\ airborne = {}
  /\ admitted' = TRUE
  /\ UNCHANGED <<landed, airborne, begun, told, shown>>

PortNext ==
  \/ Begin \/ BeginAgain \/ Settle \/ Acknowledge \/ Show \/ Admit
  \/ \E how \in Over : Answer(how)

PortSpec == PortInit /\ [][PortNext]_portVars
=============================================================================
