--------------------------- MODULE SerialProvider ---------------------------
(***************************************************************************)
(* What a provider worker promises to its clients, with no lane, no        *)
(* executor and no event loop: calls enter a synchronous operating-system  *)
(* provider one at a time, the evidence a client is left with is honest    *)
(* for ever, and a quarantine barrier is passed only while nothing is      *)
(* inside.                                                                 *)
(***************************************************************************)
CONSTANTS
    Callers,    \* requests that bring one synchronous provider call
    Idlers      \* barriers that wait for the provider to become idle

VARIABLES
    phase,      \* where each call is: outside, admitted, running or over
    told,       \* evidence its client holds: none, never or maybe
    passed      \* the barriers that have observed an idle provider

absVars == <<phase, told, passed>>

AbsInit ==
    /\ phase = [c \in Callers |-> "outside"]
    /\ told = [c \in Callers |-> "none"]
    /\ passed = {}

Inside == {c \in Callers : phase[c] \in {"admitted", "running"}}

(* A call is admitted only when no other call is inside.                   *)
Admit(c) ==
    /\ phase[c] = "outside"
    /\ told[c] = "none"
    /\ Inside = {}
    /\ phase' = [phase EXCEPT ![c] = "admitted"]
    /\ UNCHANGED <<told, passed>>

(* The provider is touched; never after its client was told it was not.    *)
Begin(c) ==
    /\ phase[c] = "admitted"
    /\ told[c] # "never"
    /\ phase' = [phase EXCEPT ![c] = "running"]
    /\ UNCHANGED <<told, passed>>

(* The call returns, or is withdrawn before it touched the provider.       *)
Leave(c) ==
    /\ c \in Inside
    /\ phase' = [phase EXCEPT ![c] = "over"]
    /\ UNCHANGED <<told, passed>>

(* The client gives up or gets its answer.  "never" is said only of a call *)
(* that is not running.  A withdrawn call leaves in the same step.         *)
Tell(c) ==
    /\ told[c] = "none"
    /\ \/ told' = [told EXCEPT ![c] = "maybe"] /\ UNCHANGED phase
       \/ /\ phase[c] # "running"
          /\ told' = [told EXCEPT ![c] = "never"]
          /\ \/ UNCHANGED phase
             \/ phase[c] = "admitted" /\ phase' = [phase EXCEPT ![c] = "over"]
    /\ UNCHANGED passed

Pass(i) ==
    /\ Inside = {}
    /\ passed' = passed \union {i}
    /\ UNCHANGED <<phase, told>>

AbsNext ==
    \/ \E c \in Callers : Admit(c) \/ Begin(c) \/ Leave(c) \/ Tell(c)
    \/ \E i \in Idlers : Pass(i)

AbsSpec == AbsInit /\ [][AbsNext]_absVars
=============================================================================
