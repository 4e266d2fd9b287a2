--------------------------- MODULE ReplayContract ---------------------------
(***************************************************************************)
(* What a client may conclude from the verdict of a transaction, with no   *)
(* views, references, budgets or provider ports: the effects of a request  *)
(* are attempted in order, one at a time and once each; an attempt may     *)
(* land long after the client was answered; and every verdict but          *)
(* "unknown" speaks of effects whose fate is settled.                      *)
(***************************************************************************)
EXTENDS Naturals

CONSTANT MaxSteps   \* effect n is that of step n; effect 0 opens the target

Effects == 0..MaxSteps

VARIABLES
    landed,     \* the effects that have happened
    airborne,   \* the attempted effects that may still happen
    verdict     \* what the client was told: none, or a member of Verdicts

absVars == <<landed, airborne, verdict>>

Verdicts == {"retry", "failed", "succeeded", "unknown", "cancelled"}

AbsInit ==
    /\ landed = {}
    /\ airborne = {}
    /\ verdict = "none"

Attempt(e) ==
    /\ verdict = "none"
    /\ airborne = {}
    /\ \A f \in landed : f < e
    /\ airborne' = {e}
    /\ UNCHANGED <<landed, verdict>>

Land(e) ==
    /\ e \in airborne
    /\ landed' = landed \union {e}
    /\ airborne' = airborne \ {e}
    /\ UNCHANGED verdict

Fizzle(e) ==
    /\ e \in airborne
    /\ airborne' = airborne \ {e}
    /\ UNCHANGED <<landed, verdict>>

(* A retry is offered only when nothing has happened and nothing can any   *)
(* more; a cancelled request may leave its target open behind it, but has  *)
(* not acted on it.  A declined attempt is settled by the answer itself.   *)
Allowed(v, left) ==
    CASE v = "retry" -> landed = {} /\ left = {}
      [] v = "cancelled" -> landed \union left \subseteq {0}
      [] v \in {"failed", "succeeded"} -> left = {}
      [] OTHER -> TRUE

Answer(v) ==
    /\ verdict = "none"
    /\ airborne' \in {airborne, {}}
    /\ Allowed(v, airborne')
    /\ verdict' = v
    /\ UNCHANGED landed

AbsNext ==
    \/ \E e \in Effects : Attempt(e) \/ Land(e) \/ Fizzle(e)
    \/ \E v \in Verdicts : Answer(v)

AbsSpec == AbsInit /\ [][AbsNext]_absVars
=============================================================================
