---------------------------- MODULE MCCoordinator ----------------------------
(***************************************************************************)
(* The two halves of coordinator.py that make tasks wait for each other:   *)
(* the lanes of the mutations and the flights of the observations.         *)
(* Neither reads the state of the other one, so a behaviour is one of one  *)
(* half while the other one stays as it was created.                       *)
(*                                                                         *)
(* Lanes: two foreground mutations on different workers and two shadow     *)
(* mutations of one target; one of the workers serves both.  Flights:      *)
(* three observers of one key and one of another; the producer that o2     *)
(* starts ignores its cancellation.                                        *)
(***************************************************************************)
EXTENDS Coordinator, SingleFlight

CONSTANTS c1, c2, c3, c4, w1, w2, target, o1, o2, o3, o4, k1, k2

VARIABLE half

MCLaneOf == [c \in Clients |-> IF c \in {c1, c2} THEN Foreground ELSE target]
MCWorkerOf == [c \in Clients |-> IF c \in {c1, c3} THEN w1 ELSE w2]
MCKeyOf == [o \in Observers |-> IF o = o4 THEN k2 ELSE k1]

-----------------------------------------------------------------------------
CoordinatorInit == half \in {"lanes", "flights"} /\ Init /\ FlightInit

LaneStep == half = "lanes" /\ Next /\ UNCHANGED <<half, flightVars>>
FlightStep == half = "flights" /\ FlightNext /\ UNCHANGED <<half, vars>>

CoordinatorNext == LaneStep \/ FlightStep

\* Nothing is enabled in a half that is as it was created, except by the
\* arrival of clients, of which no fairness is assumed.
CoordinatorSpec ==
    /\ CoordinatorInit /\ [][CoordinatorNext]_<<half, vars, flightVars>>
    /\ Fairness /\ FlightFairness
=============================================================================
