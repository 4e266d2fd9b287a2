----------------------------- MODULE SingleFlight -----------------------------
(***************************************************************************)
(* AutomationCoordinator.observe: observers of one key share one producer  *)
(* task.  The task is shielded from each of them; the last one to leave    *)
(* cancels it.  Closing cancels every flight and forgets those that do not *)
(* end in time.                                                            *)
(*                                                                         *)
(* A flight is named after the observer that started it.  The lock around  *)
(* the flight table is never held across an await, so an observer joins in *)
(* one step.                                                               *)
(***************************************************************************)
CONSTANTS
    Observers,  \* calls of observe
    Keys,       \* what they observe
    KeyOf,      \* the key of each observer
    Stubborn,   \* flights whose producer ignores its cancellation
    NoFlight

SingleFlightAssumption ==
    /\ KeyOf \in [Observers -> Keys]
    /\ Stubborn \subseteq Observers
    /\ NoFlight \notin Observers

VARIABLES
    observer,   \* idle, waiting, answered, dropped, interrupted or refused
    flight,     \* the flight each observer has joined
    flights,    \* _flights: the registered flight of each key
    waiters,    \* the observers that a flight counts
    producer,   \* its task: none, running, cancelling, done or cancelled
    closing     \* open, closed, draining or cleared

flightVars == <<observer, flight, flights, waiters, producer, closing>>

FlightInit ==
    /\ observer = [o \in Observers |-> "idle"]
    /\ flight = [o \in Observers |-> NoFlight]
    /\ flights = [k \in Keys |-> NoFlight]
    /\ waiters = [f \in Observers |-> {}]
    /\ producer = [f \in Observers |-> "none"]
    /\ closing = "open"

Ended(f) == producer[f] \in {"done", "cancelled"}

-----------------------------------------------------------------------------
RefuseObserver(o) ==
    /\ observer[o] = "idle" /\ closing # "open"
    /\ observer' = [observer EXCEPT ![o] = "refused"]
    /\ UNCHANGED <<flight, flights, waiters, producer, closing>>

Joins(o, f) ==
    /\ observer[o] = "idle" /\ closing = "open"
    /\ observer' = [observer EXCEPT ![o] = "waiting"]
    /\ flight' = [flight EXCEPT ![o] = f]
    /\ waiters' = [waiters EXCEPT ![f] = @ \union {o}]
    /\ UNCHANGED closing

(* No flight is registered for the key: start one.                         *)
Start(o) ==
    /\ flights[KeyOf[o]] = NoFlight
    /\ Joins(o, o)
    /\ flights' = [flights EXCEPT ![KeyOf[o]] = o]
    /\ producer' = [producer EXCEPT ![o] = "running"]

(* Join the registered flight, whose task may just have ended.             *)
Join(o) ==
    /\ flights[KeyOf[o]] # NoFlight
    /\ Joins(o, flights[KeyOf[o]])
    /\ UNCHANGED <<flights, producer>>

(* The producer returns or raises; a cancelled one may still return.       *)
Produce(f) ==
    /\ producer[f] \in {"running", "cancelling"}
    /\ \/ producer' = [producer EXCEPT ![f] = "done"]
       \/ /\ producer[f] = "cancelling"
          /\ producer' = [producer EXCEPT ![f] = "cancelled"]
    /\ UNCHANGED <<observer, flight, flights, waiters, closing>>

Unregister(f) ==
    flights' = [k \in Keys |-> IF flights[k] = f THEN NoFlight ELSE flights[k]]

(* A mutant of FlightFinished: it forgets whatever the key now names.      *)
ForgetKey(f) ==
    /\ Ended(f)
    /\ flights[KeyOf[f]] # NoFlight
    /\ flights' = [flights EXCEPT ![KeyOf[f]] = NoFlight]
    /\ UNCHANGED <<observer, flight, waiters, producer, closing>>

(* _flight_finished, the done callback of the task.                        *)
FlightFinished(f) ==
    /\ Ended(f)
    /\ flights[KeyOf[f]] = f
    /\ Unregister(f)
    /\ UNCHANGED <<observer, flight, waiters, producer, closing>>

Cancel(t) == IF t = "running" THEN "cancelling" ELSE t

(* Mutants of ReleaseWaiter: whoever leaves cancels the task; nobody does. *)
CancelAnyway(o) ==
    LET f == flight[o] IN
    /\ waiters' = [waiters EXCEPT ![f] = @ \ {o}]
    /\ producer' = [producer EXCEPT ![f] = Cancel(@)]
    /\ Unregister(f)

(* _release_flight_waiter: the last observer cancels the task.             *)
ReleaseWaiter(o) ==
    LET f == flight[o] IN
    /\ waiters' = [waiters EXCEPT ![f] = @ \ {o}]
    /\ IF waiters[f] = {o}
       THEN /\ producer' = [producer EXCEPT ![f] = Cancel(@)]
            /\ Unregister(f)
       ELSE UNCHANGED <<producer, flights>>

(* The shielded task has ended and the observer is woken.                  *)
Deliver(o) ==
    /\ observer[o] = "waiting"
    /\ Ended(flight[o])
    /\ observer' =
          [observer EXCEPT ![o] = IF producer[flight[o]] = "done" THEN "answered" ELSE "dropped"]
    /\ ReleaseWaiter(o)
    /\ UNCHANGED <<flight, closing>>

(* The deadline of one observer, or its cancellation.                      *)
Interrupt(o) ==
    /\ observer[o] = "waiting"
    /\ observer' = [observer EXCEPT ![o] = "interrupted"]
    /\ ReleaseWaiter(o)
    /\ UNCHANGED <<flight, closing>>

-----------------------------------------------------------------------------
CloseFlights ==
    /\ closing = "open"
    /\ closing' = "closed"
    /\ UNCHANGED <<observer, flight, flights, waiters, producer>>

(* A mutant of CancelFlights: the tasks are only waited for.               *)
AwaitFlights ==
    /\ closing = "closed"
    /\ closing' = "draining"
    /\ UNCHANGED <<observer, flight, flights, waiters, producer>>

(* The close task cancels the tasks of the registered flights ...          *)
CancelFlights ==
    /\ closing = "closed"
    /\ closing' = "draining"
    /\ producer' = [f \in Observers |->
            IF flights[KeyOf[f]] = f THEN Cancel(producer[f]) ELSE producer[f]]
    /\ UNCHANGED <<observer, flight, flights, waiters>>

(* ... waits for them for a bounded time, and forgets the rest.            *)
ClearFlights ==
    /\ closing = "draining"
    /\ closing' = "cleared"
    /\ flights' = [k \in Keys |-> NoFlight]
    /\ UNCHANGED <<observer, flight, waiters, producer>>

-----------------------------------------------------------------------------
ObserverStep(o) ==
    \/ RefuseObserver(o) \/ Start(o) \/ Join(o) \/ Produce(o) \/ FlightFinished(o)
    \/ Deliver(o) \/ Interrupt(o)

FlightNext ==
    \/ \E o \in Observers : ObserverStep(o)
    \/ CloseFlights \/ CancelFlights \/ ClearFlights

FlightSpec == FlightInit /\ [][FlightNext]_flightVars

(* The loop runs what is ready; a producer that is cancelled ends unless   *)
(* it is stubborn.  Nothing is assumed of a producer that is not           *)
(* cancelled, nor of the deadlines of the observers.                       *)
Cancelled(f) == producer[f] = "cancelling"

FlightFairness ==
    /\ \A o \in Observers : WF_flightVars(Deliver(o)) /\ WF_flightVars(FlightFinished(o))
    /\ \A o \in Observers \ Stubborn : WF_flightVars(Cancelled(o) /\ Produce(o))
    /\ WF_flightVars(CancelFlights)

FlightFairSpec == FlightSpec /\ FlightFairness

-----------------------------------------------------------------------------
(* Properties.                                                             *)

FlightTypeOK ==
    /\ observer \in [Observers -> {"idle", "waiting", "answered", "dropped", "interrupted", "refused"}]
    /\ flight \in [Observers -> Observers \union {NoFlight}]
    /\ flights \in [Keys -> Observers \union {NoFlight}]
    /\ waiters \in [Observers -> SUBSET {o \in Observers : observer[o] = "waiting"}]
    /\ producer \in [Observers -> {"none", "running", "cancelling", "done", "cancelled"}]
    /\ closing \in {"open", "closed", "draining", "cleared"}

(* The producers of a key that nobody has cancelled are one at most, and   *)
(* it is the registered one, so that the next observer shares it: the done *)
(* callback of an older flight never unregisters a newer one.              *)
OneProducer ==
    \A f \in Observers :
        producer[f] = "running" /\ closing # "cleared" => flights[KeyOf[f]] = f

(* An observer that leaves takes nobody with it: while the coordinator is  *)
(* open, only a producer that no observer waits for is cancelled, and no   *)
(* observer is told that it was cancelled.                                 *)
NoCollateral ==
    closing \in {"open", "closed"} =>
        \A o \in Observers :
            /\ observer[o] # "dropped"
            /\ observer[o] = "waiting" => producer[flight[o]] \in {"running", "done"}

(* A flight is registered, and a producer runs uncancelled, only while     *)
(* somebody waits for it: neither the table nor the provider's work        *)
(* outgrows the observers in progress.                                     *)
NoLeak ==
    \A f \in Observers :
        flights[KeyOf[f]] = f \/ producer[f] = "running" =>
            \E o \in Observers : observer[o] = "waiting" /\ flight[o] = f

(* Closing answers every observer that waits, unless its producer ignores  *)
(* the cancellation.                                                       *)
CloseAnswers ==
    \A o \in Observers :
        closing = "closed" /\ observer[o] = "waiting" ~>
            observer[o] # "waiting" \/ flight[o] \in Stubborn
=============================================================================
