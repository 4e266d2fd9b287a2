------------------------- MODULE TargetObservation -------------------------
(***************************************************************************)
(* target_observation.py over target_resolver.py: one observe_target       *)
(* request resolves its foreground target, loads its accessibility tree    *)
(* and answers with a snapshot of it.  The tree is that of the window, so  *)
(* what it shows is the tab that is visible while it is read; the service  *)
(* brackets the reading with identity checks.  The user may switch tabs at *)
(* any moment.                                                             *)
(***************************************************************************)
EXTENDS TargetResolver

CONSTANT Observers  \* the callers that observe; the others run transactions

ASSUME ObservationAssumption == ResolverAssumption /\ Observers \subseteq Callers

VARIABLES
  visible,  \* the tab the browser shows
  seen      \* seen[c]: the observation of caller c

ovars == <<vars, visible, seen>>

\* `changes' counts the switches of the visible tab, up to two, since the
\* target was first found visible (by an activation or a check).
Unseen == [phase |-> "start", content |-> None, changes |-> 0]

Sights == [phase : {"start", "checked", "loaded", "answered"},
           content : Tabs \cup {None}, changes : 0..2]

ObservationTypeOK ==
  /\ TypeOK
  /\ visible \in Tabs
  /\ seen \in [Observers -> Sights]

OInit == Init /\ visible \in Tabs /\ seen = [c \in Observers |-> Unseen]

-----------------------------------------------------------------------------
Browser(c) == call[c].target # None
Observing(c) == c \in Observers /\ call[c].pc = "resolved"
Matches(c) == visible = call[c].target[2]

Look(c, record) ==
  /\ Observing(c)
  /\ seen' = [seen EXCEPT ![c] = record]
  /\ UNCHANGED <<vars, visible>>

\* Refused, or out of budget, at any point before the answer.
Refuse(c) ==
  /\ Observing(c) /\ seen[c].phase # "answered"
  /\ Leave(c)
  /\ seen' = [seen EXCEPT ![c] = Unseen]
  /\ UNCHANGED visible

\* A browser target that was not activated must be visible before it is read.
Validate(c) ==
  /\ seen[c].phase = "start"
  /\ Browser(c) /\ ~call[c].activate => Matches(c)
  /\ Look(c, [seen[c] EXCEPT !.phase = "checked",
                             !.changes = IF call[c].activate THEN @ ELSE 0])

\* One reading of the tree, if the window is still there.
LoadOnce(c) ==
  /\ seen[c].phase = "checked"
  /\ Look(c, [seen[c] EXCEPT !.phase = "loaded", !.content = visible])

\* A mutant of Answer: nothing is checked after the reading.
AnswerUnchecked(c) ==
  /\ seen[c].phase = "loaded"
  /\ Look(c, [seen[c] EXCEPT !.phase = "answered"])

\* The check after the reading, and the snapshot of what was read.
Answer(c) ==
  /\ seen[c].phase = "loaded"
  /\ Browser(c) => Matches(c)
  /\ Look(c, [seen[c] EXCEPT !.phase = "answered"])

\* The browser comes to show t, which the observations in progress count.
Show(t) ==
  /\ visible' = t
  /\ seen' = [c \in Observers |-> IF /\ Observing(c) /\ t # visible
                                     /\ seen[c].phase # "answered" /\ seen[c].changes < 2
                                  THEN [seen[c] EXCEPT !.changes = @ + 1] ELSE seen[c]]

UserSwitches == (\E t \in Tabs \ {visible} : Show(t)) /\ UNCHANGED vars

\* An activation ends with the target visible, or anywhere when it fails.
OActivated(c) == Activated(c) /\ Show(IF Browser(c) THEN call[c].target[2] ELSE visible)
OActivationFails(c) == ActivationFails(c) /\ \E t \in Tabs : Show(t)

OLeave(c) ==
  /\ Observing(c) => seen[c].phase = "answered"
  /\ Leave(c)
  /\ seen' = [o \in Observers |-> IF o = c THEN Unseen ELSE seen[o]]
  /\ UNCHANGED visible

Observe(c) == Validate(c) \/ LoadOnce(c) \/ Answer(c) \/ Refuse(c)

Elsewhere == UNCHANGED <<visible, seen>>
ONext ==
  \/ UserSwitches
  \/ Others /\ Elsewhere
  \/ \E c \in Observers : Observe(c)
  \/ \E c \in Callers :
       \/ OActivated(c) \/ OActivationFails(c) \/ OLeave(c)
       \/ Begin(c) /\ Elsewhere
       \/ BeginList(c) /\ Elsewhere
       \/ Resume(c) /\ Elsewhere
       \/ RememberTargets(c) /\ Elsewhere
       \/ StopWaiting(c) /\ Elsewhere

OSpec == OInit /\ [][ONext]_ovars

-----------------------------------------------------------------------------
(***************************************************************************)
(* A query never ends in a target that was last seen before a mutation     *)
(* that had been invalidated when the query began: neither the cache nor a *)
(* shared scan carries an older inventory across an invalidation.          *)
(***************************************************************************)
QueriesFresh ==
  \A c \in Callers :
    call[c].kind = "query" /\ call[c].target # None
      => scans[call[c].target[1]].world >= call[c].since

(***************************************************************************)
(* A caller never waits for a scan that somebody else has cancelled, and   *)
(* no scan runs for nobody.                                                *)
(***************************************************************************)
NoCollateral ==
  /\ \A c \in Callers : call[c].pc = "waiting" => scans[call[c].scan].state # "cancelled"
  /\ \A s \in Scans : scans[s].state = "running" => Waiters(s) # {}

(***************************************************************************)
(* A snapshot that is labelled with a tab shows that tab unless the        *)
(* browser was switched away and back during the observation, by the user  *)
(* or by an activation: one switch, wherever it falls, is noticed.         *)
(***************************************************************************)
ContentIsTarget ==
  \A c \in Observers :
    seen[c].phase = "answered" /\ Browser(c) /\ seen[c].content # call[c].target[2]
      => seen[c].changes = 2

-----------------------------------------------------------------------------
(* The inductive invariant of the three properties. *)

\* The cached inventory and the one that a caller joins are no older than the
\* last invalidation; whoever waits has a scan that is young enough for it.
Current ==
  /\ acked <= world
  /\ cache # None => scans[cache.scan].state = "done" /\ scans[cache.scan].world >= acked
  /\ flight # None => /\ scans[flight].state \notin {"unused", "cancelled"}
                      /\ scans[flight].world >= acked
  /\ \A c \in Callers :
       /\ call[c].pc = "waiting" =>
            /\ call[c].scan \in Scans /\ call[c].target = None
            /\ scans[call[c].scan].state # "unused"
            /\ call[c].kind = "query" => scans[call[c].scan].world >= call[c].since
       /\ call[c].kind = "query" /\ call[c].target # None =>
            scans[call[c].target[1]].state # "unused"

\* What an observation that found its target visible knows of it since.
Bracketed(tab, s) ==
  /\ s.phase = "loaded" => \/ s.content = tab \/ s.changes = 2
                           \/ visible # tab /\ s.changes = 1
  /\ s.phase = "answered" => s.content = tab \/ s.changes = 2

Noticed(tab, s) == (s.changes = 0 => visible = tab) /\ (s.changes = 1 => visible # tab)

Followed(c) ==
  /\ Bracketed(call[c].target[2], seen[c])
  /\ seen[c].phase = "checked" \/ (seen[c].phase = "start" /\ call[c].activate) =>
       Noticed(call[c].target[2], seen[c])

Bracket ==
  \A c \in Observers : /\ ~Observing(c) => seen[c] = Unseen
                       /\ Observing(c) /\ Browser(c) => Followed(c)

ObservationInv == ObservationTypeOK /\ Current /\ QueriesFresh /\ NoCollateral /\ Bracket
=============================================================================
