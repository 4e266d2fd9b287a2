------------------------ MODULE BrowserOpeningProofs ------------------------
(***************************************************************************)
(* Proofs about BrowserOpening for any number of processes and changes: no *)
(* notification is lost on a waiter, and no page is opened twice.          *)
(***************************************************************************)
EXTENDS BrowserOpening, TLAPS

(* The counts only grow, and a request starts from a count it has read.    *)
CountsGrow == \A p \in Pids : base[p] <= tally[p]

(* A waiter whose process announced what is sought is about to see a newer *)
(* count, ...                                                              *)
Announced ==
  \A p \in (showing \cap subs) \ (silent \cup ended) :
    stage = "waiting" /\ task[p] \in {"test", "blocked"} =>
      notice[p] = "changed" \/ tally[p] > base[p]

(* ... and one that sleeps over a newer count is about to be woken.        *)
Wakened ==
  \A p \in Pids :
    stage = "waiting" /\ task[p] = "blocked" /\ tally[p] > base[p] =>
      notice[p] = "counted" \/ posted[p] \/ wake[p]

(* What shows the page runs; since the latest census that was the cohort,  *)
(* what runs is watched or was launched.                                   *)
Cohort ==
  kind = "open" =>
    /\ showing \subseteq running
    /\ stage \in {"reading", "ready", "verified"} => running \subseteq watched \cup unproven

(* A browser that was read and shows the page was seen doing so, could not *)
(* be read, or has told its observer since, if it still has one.           *)
Told(p) == notice[p] = "changed" \/ p \notin subs \ ended \/ tally[p] > base[p]

Noticed ==
  kind = "open" =>
    \A p \in showing \cap watched :
      /\ stage = "reading" /\ p \notin look.todo => p \in look.shows \/ look.unclear \/ Told(p)
      /\ stage \in {"ready", "verified"} => Told(p)

OpeningInv ==
  /\ OpeningTypeOK /\ (stage = "start" => watched = {})
  /\ CountsGrow /\ Announced /\ Wakened /\ Cohort /\ Noticed
-----------------------------------------------------------------------------
LEMMA OpeningInvInit == OInit => OpeningInv
<1> SUFFICES ASSUME OInit PROVE OpeningInv
  OBVIOUS
<1> USE DEF OInit, EventsInit, All
<1>1. OpeningTypeOK
  <2>1. 0 \in 0..MaxChanges /\ 0 \in 0..MaxChecks
    BY BoundAssumption
  <2>2. EventsTypeOK
    BY <2>1 DEF EventsTypeOK
  <2> QED BY <2>2 DEF OpeningTypeOK
<1>2. CountsGrow /\ Announced /\ Wakened /\ Cohort /\ Noticed
  BY DEF CountsGrow, Announced, Wakened, Cohort, Noticed
<1> QED BY <1>1, <1>2 DEF OpeningInv

LEMMA BeginStep ==
    ASSUME OpeningInv, TakeCensus
    PROVE  OpeningInv'
<1> USE DEF OpeningInv, TakeCensus
<1>1. OpeningTypeOK'
  BY BoundAssumption DEF OpeningTypeOK, EventsTypeOK, desktop, observers, request
<1>2. CountsGrow'
  BY DEF CountsGrow, OpeningTypeOK, EventsTypeOK, desktop, observers, request
<1>3. Announced'
  BY DEF Announced, CountsGrow, OpeningTypeOK, EventsTypeOK, desktop, observers, request
<1>4. Wakened'
  BY DEF Wakened, OpeningTypeOK, EventsTypeOK, desktop, observers, request
<1>5. Cohort'
  BY DEF Cohort, OpeningTypeOK, EventsTypeOK, desktop, observers, request
<1>6. Noticed'
  BY DEF Noticed, Told, Cohort, CountsGrow, OpeningTypeOK, EventsTypeOK, desktop, observers, request
<1>7. stage' = "start" => watched' = {}
  BY DEF OpeningTypeOK, EventsTypeOK, desktop, observers, request
<1> QED BY <1>1, <1>2, <1>3, <1>4, <1>5, <1>6, <1>7

LEMMA SurveyStep ==
    ASSUME OpeningInv, Survey
    PROVE  OpeningInv'
<1> USE DEF OpeningInv, Survey, SameCohort, MoveOn, Move
<1>1. OpeningTypeOK'
  BY BoundAssumption DEF OpeningTypeOK, EventsTypeOK, desktop, observers, request
<1>2. CountsGrow'
  BY DEF CountsGrow, OpeningTypeOK, EventsTypeOK, desktop, observers, request
<1>3. Announced'
  BY DEF Announced, CountsGrow, OpeningTypeOK, EventsTypeOK, desktop, observers, request
<1>4. Wakened'
  BY DEF Wakened, OpeningTypeOK, EventsTypeOK, desktop, observers, request
<1>5. Cohort'
  BY DEF Cohort, OpeningTypeOK, EventsTypeOK, desktop, observers, request
<1>6. Noticed'
  BY DEF Noticed, Told, Cohort, CountsGrow, OpeningTypeOK, EventsTypeOK, desktop, observers, request
<1>7. stage' = "start" => watched' = {}
  BY DEF OpeningTypeOK, EventsTypeOK, desktop, observers, request
<1> QED BY <1>1, <1>2, <1>3, <1>4, <1>5, <1>6, <1>7

LEMMA FoundOpenStep ==
    ASSUME OpeningInv, FoundOpen
    PROVE  OpeningInv'
<1> USE DEF OpeningInv, FoundOpen, Surveyed, SameCohort, Counted, MoveOn, Move
<1>1. OpeningTypeOK'
  BY BoundAssumption DEF OpeningTypeOK, EventsTypeOK, desktop, observers, request
<1>2. CountsGrow'
  BY DEF CountsGrow, OpeningTypeOK, EventsTypeOK, desktop, observers, request
<1>3. Announced'
  BY DEF Announced, CountsGrow, OpeningTypeOK, EventsTypeOK, desktop, observers, request
<1>4. Wakened'
  BY DEF Wakened, OpeningTypeOK, EventsTypeOK, desktop, observers, request
<1>5. Cohort'
  BY DEF Cohort, OpeningTypeOK, EventsTypeOK, desktop, observers, request
<1>6. Noticed'
  BY DEF Noticed, Told, Cohort, CountsGrow, OpeningTypeOK, EventsTypeOK, desktop, observers, request
<1>7. stage' = "start" => watched' = {}
  BY DEF OpeningTypeOK, EventsTypeOK, desktop, observers, request
<1> QED BY <1>1, <1>2, <1>3, <1>4, <1>5, <1>6, <1>7

LEMMA ProvenAbsentStep ==
    ASSUME OpeningInv, ProvenAbsent
    PROVE  OpeningInv'
<1> USE DEF OpeningInv, ProvenAbsent, Surveyed, SameCohort, Counted, Covered, Unchanged, MoveOn, Move
<1>1. OpeningTypeOK'
  BY BoundAssumption DEF OpeningTypeOK, EventsTypeOK, desktop, observers, request
<1>2. CountsGrow'
  BY DEF CountsGrow, OpeningTypeOK, EventsTypeOK, desktop, observers, request
<1>3. Announced'
  BY DEF Announced, CountsGrow, OpeningTypeOK, EventsTypeOK, desktop, observers, request
<1>4. Wakened'
  BY DEF Wakened, OpeningTypeOK, EventsTypeOK, desktop, observers, request
<1>5. Cohort'
  BY DEF Cohort, OpeningTypeOK, EventsTypeOK, desktop, observers, request
<1>6. Noticed'
  BY DEF Noticed, Told, Cohort, CountsGrow, OpeningTypeOK, EventsTypeOK, desktop, observers, request
<1>7. stage' = "start" => watched' = {}
  BY DEF OpeningTypeOK, EventsTypeOK, desktop, observers, request
<1> QED BY <1>1, <1>2, <1>3, <1>4, <1>5, <1>6, <1>7

LEMMA VerifyCohortStep ==
    ASSUME OpeningInv, VerifyCohort
    PROVE  OpeningInv'
<1> USE DEF OpeningInv, VerifyCohort, SameCohort, MoveOn, Move
<1>1. OpeningTypeOK'
  BY BoundAssumption DEF OpeningTypeOK, EventsTypeOK, desktop, observers, request
<1>2. CountsGrow'
  BY DEF CountsGrow, OpeningTypeOK, EventsTypeOK, desktop, observers, request
<1>3. Announced'
  BY DEF Announced, CountsGrow, OpeningTypeOK, EventsTypeOK, desktop, observers, request
<1>4. Wakened'
  BY DEF Wakened, OpeningTypeOK, EventsTypeOK, desktop, observers, request
<1>5. Cohort'
  BY DEF Cohort, OpeningTypeOK, EventsTypeOK, desktop, observers, request
<1>6. Noticed'
  BY DEF Noticed, Told, Cohort, CountsGrow, OpeningTypeOK, EventsTypeOK, desktop, observers, request
<1>7. stage' = "start" => watched' = {}
  BY DEF OpeningTypeOK, EventsTypeOK, desktop, observers, request
<1> QED BY <1>1, <1>2, <1>3, <1>4, <1>5, <1>6, <1>7

LEMMA OpenUrlStep ==
    ASSUME OpeningInv, OpenUrl
    PROVE  OpeningInv'
<1> USE DEF OpeningInv, OpenUrl, MoveOn, Move
<1>1. OpeningTypeOK'
  BY BoundAssumption DEF OpeningTypeOK, EventsTypeOK, desktop, observers, request
<1>2. CountsGrow'
  BY DEF CountsGrow, OpeningTypeOK, EventsTypeOK, desktop, observers, request
<1>3. Announced'
  BY DEF Announced, CountsGrow, OpeningTypeOK, EventsTypeOK, desktop, observers, request
<1>4. Wakened'
  BY DEF Wakened, OpeningTypeOK, EventsTypeOK, desktop, observers, request
<1>5. Cohort'
  BY DEF Cohort, OpeningTypeOK, EventsTypeOK, desktop, observers, request
<1>6. Noticed'
  BY DEF Noticed, Told, Cohort, CountsGrow, OpeningTypeOK, EventsTypeOK, desktop, observers, request
<1>7. stage' = "start" => watched' = {}
  BY DEF OpeningTypeOK, EventsTypeOK, desktop, observers, request
<1> QED BY <1>1, <1>2, <1>3, <1>4, <1>5, <1>6, <1>7

LEMMA GiveUpStep ==
    ASSUME OpeningInv, Decline
    PROVE  OpeningInv'
<1> USE DEF OpeningInv, Decline, MoveOn, Move
<1>1. OpeningTypeOK'
  BY BoundAssumption DEF OpeningTypeOK, EventsTypeOK, desktop, observers, request
<1>2. CountsGrow'
  BY DEF CountsGrow, OpeningTypeOK, EventsTypeOK, desktop, observers, request
<1>3. Announced'
  BY DEF Announced, CountsGrow, OpeningTypeOK, EventsTypeOK, desktop, observers, request
<1>4. Wakened'
  BY DEF Wakened, OpeningTypeOK, EventsTypeOK, desktop, observers, request
<1>5. Cohort'
  BY DEF Cohort, OpeningTypeOK, EventsTypeOK, desktop, observers, request
<1>6. Noticed'
  BY DEF Noticed, Told, Cohort, CountsGrow, OpeningTypeOK, EventsTypeOK, desktop, observers, request
<1>7. stage' = "start" => watched' = {}
  BY DEF OpeningTypeOK, EventsTypeOK, desktop, observers, request
<1> QED BY <1>1, <1>2, <1>3, <1>4, <1>5, <1>6, <1>7

LEMMA ReadBrowserStep ==
    ASSUME NEW p \in Pids, OpeningInv, ReadBrowser(p)
    PROVE  OpeningInv'
<1> USE DEF OpeningInv, ReadBrowser, MoveOn, Move
<1>1. OpeningTypeOK'
  <2>1. look' \in [todo : SUBSET Pids, shows : SUBSET Pids, unclear : BOOLEAN]
    <3>1. PICK now \in {[look EXCEPT !.shows = @ \cup (showing \cap {p})],
                        [look EXCEPT !.unclear = TRUE]} :
             look' = [now EXCEPT !.todo = @ \ {p}]
      OBVIOUS
    <3>2. /\ look.todo \in SUBSET Pids /\ look.shows \in SUBSET Pids /\ look.unclear \in BOOLEAN
          /\ look = [todo |-> look.todo, shows |-> look.shows, unclear |-> look.unclear]
      BY DEF OpeningTypeOK
    <3>3. CASE now = [look EXCEPT !.shows = @ \cup (showing \cap {p})]
      BY <3>1, <3>2, <3>3
    <3>4. CASE now = [look EXCEPT !.unclear = TRUE]
      BY <3>1, <3>2, <3>4
    <3> QED BY <3>1, <3>3, <3>4
  <2> QED
    BY <2>1 DEF OpeningTypeOK, EventsTypeOK, desktop, observers
<1>2. CountsGrow'
  BY DEF CountsGrow, OpeningTypeOK, EventsTypeOK, desktop, observers, request
<1>3. Announced'
  BY DEF Announced, CountsGrow, OpeningTypeOK, EventsTypeOK, desktop, observers, request
<1>4. Wakened'
  BY DEF Wakened, OpeningTypeOK, EventsTypeOK, desktop, observers, request
<1>5. Cohort'
  BY DEF Cohort, OpeningTypeOK, EventsTypeOK, desktop, observers, request
<1>6. Noticed'
  BY DEF Noticed, Told, Cohort, CountsGrow, OpeningTypeOK, EventsTypeOK, desktop, observers, request
<1>7. stage' = "start" => watched' = {}
  BY DEF OpeningTypeOK, EventsTypeOK, desktop, observers, request
<1> QED BY <1>1, <1>2, <1>3, <1>4, <1>5, <1>6, <1>7

LEMMA StartStep ==
    ASSUME OpeningInv, Start /\ Here
    PROVE  OpeningInv'
<1> USE DEF OpeningInv, Start, Here
<1>1. OpeningTypeOK'
  BY BoundAssumption DEF OpeningTypeOK, EventsTypeOK, desktop, observers, request
<1>2. CountsGrow'
  BY DEF CountsGrow, OpeningTypeOK, EventsTypeOK, desktop, observers, request
<1>3. Announced'
  BY DEF Announced, CountsGrow, OpeningTypeOK, EventsTypeOK, desktop, observers, request
<1>4. Wakened'
  BY DEF Wakened, OpeningTypeOK, EventsTypeOK, desktop, observers, request
<1>5. Cohort'
  BY DEF Cohort, OpeningTypeOK, EventsTypeOK, desktop, observers, request
<1>6. Noticed'
  BY DEF Noticed, Told, Cohort, CountsGrow, OpeningTypeOK, EventsTypeOK, desktop, observers, request
<1>7. stage' = "start" => watched' = {}
  BY DEF OpeningTypeOK, EventsTypeOK, desktop, observers, request
<1> QED BY <1>1, <1>2, <1>3, <1>4, <1>5, <1>6, <1>7

LEMMA ArmStep ==
    ASSUME OpeningInv, Arm /\ Here
    PROVE  OpeningInv'
<1> USE DEF OpeningInv, Arm, ReadGeneration, Move, Here
<1>1. OpeningTypeOK'
  <2>1. base' \in [Pids -> Nat]
    BY DEF OpeningTypeOK, EventsTypeOK
  <2> QED
    BY <2>1, BoundAssumption DEF OpeningTypeOK, EventsTypeOK, desktop, observers
<1>2. CountsGrow'
  BY BoundAssumption DEF CountsGrow, OpeningTypeOK, EventsTypeOK, desktop, observers, request
<1>3. Announced'
  BY BoundAssumption DEF Announced, CountsGrow, OpeningTypeOK, EventsTypeOK, desktop, observers, request
<1>4. Wakened'
  BY BoundAssumption DEF Wakened, OpeningTypeOK, EventsTypeOK, desktop, observers, request
<1>5. Cohort'
  BY BoundAssumption DEF Cohort, OpeningTypeOK, EventsTypeOK, desktop, observers, request
<1>6. Noticed'
  BY BoundAssumption DEF Noticed, Told, Cohort, CountsGrow, OpeningTypeOK, EventsTypeOK, desktop, observers, request
<1>7. stage' = "start" => watched' = {}
  BY BoundAssumption DEF OpeningTypeOK, EventsTypeOK, desktop, observers, request
<1> QED BY <1>1, <1>2, <1>3, <1>4, <1>5, <1>6, <1>7

LEMMA DispatchStep ==
    ASSUME OpeningInv, Dispatch /\ Here
    PROVE  OpeningInv'
<1> USE DEF OpeningInv, Dispatch, Move, Here
<1>1. OpeningTypeOK'
  BY BoundAssumption DEF OpeningTypeOK, EventsTypeOK, desktop, observers, request
<1>2. CountsGrow'
  BY DEF CountsGrow, OpeningTypeOK, EventsTypeOK, desktop, observers, request
<1>3. Announced'
  BY DEF Announced, CountsGrow, OpeningTypeOK, EventsTypeOK, desktop, observers, request
<1>4. Wakened'
  BY DEF Wakened, OpeningTypeOK, EventsTypeOK, desktop, observers, request
<1>5. Cohort'
  BY DEF Cohort, OpeningTypeOK, EventsTypeOK, desktop, observers, request
<1>6. Noticed'
  BY DEF Noticed, Told, Cohort, CountsGrow, OpeningTypeOK, EventsTypeOK, desktop, observers, request
<1>7. stage' = "start" => watched' = {}
  BY DEF OpeningTypeOK, EventsTypeOK, desktop, observers, request
<1> QED BY <1>1, <1>2, <1>3, <1>4, <1>5, <1>6, <1>7

LEMMA CheckStep ==
    ASSUME OpeningInv, Check /\ Here
    PROVE  OpeningInv'
<1> USE DEF OpeningInv, Check, Counted, Present, Move, Here
<1>1. OpeningTypeOK'
  BY BoundAssumption DEF OpeningTypeOK, EventsTypeOK, desktop, observers, request
<1>2. CountsGrow'
  BY DEF CountsGrow, OpeningTypeOK, EventsTypeOK, desktop, observers, request
<1>3. Announced'
  BY DEF Announced, CountsGrow, OpeningTypeOK, EventsTypeOK, desktop, observers, request
<1>4. Wakened'
  BY DEF Wakened, OpeningTypeOK, EventsTypeOK, desktop, observers, request
<1>5. Cohort'
  BY DEF Cohort, OpeningTypeOK, EventsTypeOK, desktop, observers, request
<1>6. Noticed'
  BY DEF Noticed, Told, Cohort, CountsGrow, OpeningTypeOK, EventsTypeOK, desktop, observers, request
<1>7. stage' = "start" => watched' = {}
  BY DEF OpeningTypeOK, EventsTypeOK, desktop, observers, request
<1> QED BY <1>1, <1>2, <1>3, <1>4, <1>5, <1>6, <1>7

LEMMA AllEndedStep ==
    ASSUME OpeningInv, AllEnded /\ Here
    PROVE  OpeningInv'
<1> USE DEF OpeningInv, AllEnded, Move, All, Here
<1>1. OpeningTypeOK'
  BY BoundAssumption DEF OpeningTypeOK, EventsTypeOK, desktop, observers, request
<1>2. CountsGrow'
  BY DEF CountsGrow, OpeningTypeOK, EventsTypeOK, desktop, observers, request
<1>3. Announced'
  BY DEF Announced, CountsGrow, OpeningTypeOK, EventsTypeOK, desktop, observers, request
<1>4. Wakened'
  BY DEF Wakened, OpeningTypeOK, EventsTypeOK, desktop, observers, request
<1>5. Cohort'
  BY DEF Cohort, OpeningTypeOK, EventsTypeOK, desktop, observers, request
<1>6. Noticed'
  BY DEF Noticed, Told, Cohort, CountsGrow, OpeningTypeOK, EventsTypeOK, desktop, observers, request
<1>7. stage' = "start" => watched' = {}
  BY DEF OpeningTypeOK, EventsTypeOK, desktop, observers, request
<1> QED BY <1>1, <1>2, <1>3, <1>4, <1>5, <1>6, <1>7

LEMMA PollStep ==
    ASSUME OpeningInv, Poll /\ Here
    PROVE  OpeningInv'
<1> USE DEF OpeningInv, Poll, Counted, Move, Here
<1>1. OpeningTypeOK'
  BY BoundAssumption DEF OpeningTypeOK, EventsTypeOK, desktop, observers, request
<1>2. CountsGrow'
  BY DEF CountsGrow, OpeningTypeOK, EventsTypeOK, desktop, observers, request
<1>3. Announced'
  BY DEF Announced, CountsGrow, OpeningTypeOK, EventsTypeOK, desktop, observers, request
<1>4. Wakened'
  BY DEF Wakened, OpeningTypeOK, EventsTypeOK, desktop, observers, request
<1>5. Cohort'
  BY DEF Cohort, OpeningTypeOK, EventsTypeOK, desktop, observers, request
<1>6. Noticed'
  BY DEF Noticed, Told, Cohort, CountsGrow, OpeningTypeOK, EventsTypeOK, desktop, observers, request
<1>7. stage' = "start" => watched' = {}
  BY DEF OpeningTypeOK, EventsTypeOK, desktop, observers, request
<1> QED BY <1>1, <1>2, <1>3, <1>4, <1>5, <1>6, <1>7

LEMMA PollEndsStep ==
    ASSUME OpeningInv, PollEnds /\ Here
    PROVE  OpeningInv'
<1> USE DEF OpeningInv, PollEnds, Move, Here
<1>1. OpeningTypeOK'
  BY BoundAssumption DEF OpeningTypeOK, EventsTypeOK, desktop, observers, request
<1>2. CountsGrow'
  BY DEF CountsGrow, OpeningTypeOK, EventsTypeOK, desktop, observers, request
<1>3. Announced'
  BY DEF Announced, CountsGrow, OpeningTypeOK, EventsTypeOK, desktop, observers, request
<1>4. Wakened'
  BY DEF Wakened, OpeningTypeOK, EventsTypeOK, desktop, observers, request
<1>5. Cohort'
  BY DEF Cohort, OpeningTypeOK, EventsTypeOK, desktop, observers, request
<1>6. Noticed'
  BY DEF Noticed, Told, Cohort, CountsGrow, OpeningTypeOK, EventsTypeOK, desktop, observers, request
<1>7. stage' = "start" => watched' = {}
  BY DEF OpeningTypeOK, EventsTypeOK, desktop, observers, request
<1> QED BY <1>1, <1>2, <1>3, <1>4, <1>5, <1>6, <1>7

LEMMA TimeOutStep ==
    ASSUME OpeningInv, TimeOut /\ Here
    PROVE  OpeningInv'
<1> USE DEF OpeningInv, TimeOut, Finished, Move, All, Here
<1>1. OpeningTypeOK'
  BY BoundAssumption DEF OpeningTypeOK, EventsTypeOK, desktop, observers, request
<1>2. CountsGrow'
  BY DEF CountsGrow, OpeningTypeOK, EventsTypeOK, desktop, observers, request
<1>3. Announced'
  BY DEF Announced, CountsGrow, OpeningTypeOK, EventsTypeOK, desktop, observers, request
<1>4. Wakened'
  BY DEF Wakened, OpeningTypeOK, EventsTypeOK, desktop, observers, request
<1>5. Cohort'
  BY DEF Cohort, OpeningTypeOK, EventsTypeOK, desktop, observers, request
<1>6. Noticed'
  BY DEF Noticed, Told, Cohort, CountsGrow, OpeningTypeOK, EventsTypeOK, desktop, observers, request
<1>7. stage' = "start" => watched' = {}
  BY DEF OpeningTypeOK, EventsTypeOK, desktop, observers, request
<1> QED BY <1>1, <1>2, <1>3, <1>4, <1>5, <1>6, <1>7

LEMMA ExpireStep ==
    ASSUME OpeningInv, Expire /\ Here
    PROVE  OpeningInv'
<1> USE DEF OpeningInv, Expire, Here
<1>1. OpeningTypeOK'
  BY BoundAssumption DEF OpeningTypeOK, EventsTypeOK, desktop, observers, request
<1>2. CountsGrow'
  BY DEF CountsGrow, OpeningTypeOK, EventsTypeOK, desktop, observers, request
<1>3. Announced'
  BY DEF Announced, CountsGrow, OpeningTypeOK, EventsTypeOK, desktop, observers, request
<1>4. Wakened'
  BY DEF Wakened, OpeningTypeOK, EventsTypeOK, desktop, observers, request
<1>5. Cohort'
  BY DEF Cohort, OpeningTypeOK, EventsTypeOK, desktop, observers, request
<1>6. Noticed'
  BY DEF Noticed, Told, Cohort, CountsGrow, OpeningTypeOK, EventsTypeOK, desktop, observers, request
<1>7. stage' = "start" => watched' = {}
  BY DEF OpeningTypeOK, EventsTypeOK, desktop, observers, request
<1> QED BY <1>1, <1>2, <1>3, <1>4, <1>5, <1>6, <1>7

LEMMA RecheckStep ==
    ASSUME OpeningInv, Recheck /\ Here
    PROVE  OpeningInv'
<1> USE DEF OpeningInv, Recheck, ReadGeneration, Move, All, Here
<1>1. OpeningTypeOK'
  BY BoundAssumption DEF OpeningTypeOK, EventsTypeOK, desktop, observers, request
<1>2. CountsGrow'
  BY DEF CountsGrow, OpeningTypeOK, EventsTypeOK, desktop, observers, request
<1>3. Announced'
  BY DEF Announced, CountsGrow, OpeningTypeOK, EventsTypeOK, desktop, observers, request
<1>4. Wakened'
  BY DEF Wakened, OpeningTypeOK, EventsTypeOK, desktop, observers, request
<1>5. Cohort'
  BY DEF Cohort, OpeningTypeOK, EventsTypeOK, desktop, observers, request
<1>6. Noticed'
  BY DEF Noticed, Told, Cohort, CountsGrow, OpeningTypeOK, EventsTypeOK, desktop, observers, request
<1>7. stage' = "start" => watched' = {}
  BY DEF OpeningTypeOK, EventsTypeOK, desktop, observers, request
<1> QED BY <1>1, <1>2, <1>3, <1>4, <1>5, <1>6, <1>7

LEMMA LaunchStep ==
    ASSUME NEW p \in Pids, OpeningInv, Launch(p)
    PROVE  OpeningInv'
<1> USE DEF OpeningInv, Launch, Census
<1>1. OpeningTypeOK'
  BY BoundAssumption DEF OpeningTypeOK, EventsTypeOK, desktop, observers, request
<1>2. CountsGrow'
  BY DEF CountsGrow, OpeningTypeOK, EventsTypeOK, desktop, observers, request
<1>3. Announced'
  BY DEF Announced, CountsGrow, OpeningTypeOK, EventsTypeOK, desktop, observers, request
<1>4. Wakened'
  BY DEF Wakened, OpeningTypeOK, EventsTypeOK, desktop, observers, request
<1>5. Cohort'
  BY DEF Cohort, OpeningTypeOK, EventsTypeOK, desktop, observers, request
<1>6. Noticed'
  BY DEF Noticed, Told, Cohort, CountsGrow, OpeningTypeOK, EventsTypeOK, desktop, observers, request
<1>7. stage' = "start" => watched' = {}
  BY DEF OpeningTypeOK, EventsTypeOK, desktop, observers, request
<1> QED BY <1>1, <1>2, <1>3, <1>4, <1>5, <1>6, <1>7

LEMMA QuitStep ==
    ASSUME NEW p \in Pids, OpeningInv, Quit(p)
    PROVE  OpeningInv'
<1> USE DEF OpeningInv, Quit, Census
<1>1. OpeningTypeOK'
  BY BoundAssumption DEF OpeningTypeOK, EventsTypeOK, desktop, observers, request
<1>2. CountsGrow'
  BY DEF CountsGrow, OpeningTypeOK, EventsTypeOK, desktop, observers, request
<1>3. Announced'
  BY DEF Announced, CountsGrow, OpeningTypeOK, EventsTypeOK, desktop, observers, request
<1>4. Wakened'
  BY DEF Wakened, OpeningTypeOK, EventsTypeOK, desktop, observers, request
<1>5. Cohort'
  BY DEF Cohort, OpeningTypeOK, EventsTypeOK, desktop, observers, request
<1>6. Noticed'
  BY DEF Noticed, Told, Cohort, CountsGrow, OpeningTypeOK, EventsTypeOK, desktop, observers, request
<1>7. stage' = "start" => watched' = {}
  BY DEF OpeningTypeOK, EventsTypeOK, desktop, observers, request
<1> QED BY <1>1, <1>2, <1>3, <1>4, <1>5, <1>6, <1>7

LEMMA OChangeStep ==
    ASSUME NEW p \in Pids, OpeningInv, OChange(p)
    PROVE  OpeningInv'
<1> USE DEF OpeningInv, OChange, Change
<1>1. OpeningTypeOK'
  BY BoundAssumption DEF OpeningTypeOK, EventsTypeOK, desktop, observers, request
<1>2. CountsGrow'
  BY DEF CountsGrow, OpeningTypeOK, EventsTypeOK, desktop, observers, request
<1>3. Announced'
  BY DEF Announced, CountsGrow, OpeningTypeOK, EventsTypeOK, desktop, observers, request
<1>4. Wakened'
  BY DEF Wakened, OpeningTypeOK, EventsTypeOK, desktop, observers, request
<1>5. Cohort'
  BY DEF Cohort, OpeningTypeOK, EventsTypeOK, desktop, observers, request
<1>6. Noticed'
  BY DEF Noticed, Told, Cohort, CountsGrow, OpeningTypeOK, EventsTypeOK, desktop, observers, request
<1>7. stage' = "start" => watched' = {}
  BY DEF OpeningTypeOK, EventsTypeOK, desktop, observers, request
<1> QED BY <1>1, <1>2, <1>3, <1>4, <1>5, <1>6, <1>7

LEMMA TestStep ==
    ASSUME NEW p \in Pids, OpeningInv, Test(p) /\ Here
    PROVE  OpeningInv'
<1> USE DEF OpeningInv, Test, Step, Here
<1>1. OpeningTypeOK'
  BY BoundAssumption DEF OpeningTypeOK, EventsTypeOK, desktop, observers, request
<1>2. CountsGrow'
  BY DEF CountsGrow, OpeningTypeOK, EventsTypeOK, desktop, observers, request
<1>3. Announced'
  BY DEF Announced, CountsGrow, OpeningTypeOK, EventsTypeOK, desktop, observers, request
<1>4. Wakened'
  BY DEF Wakened, OpeningTypeOK, EventsTypeOK, desktop, observers, request
<1>5. Cohort'
  BY DEF Cohort, OpeningTypeOK, EventsTypeOK, desktop, observers, request
<1>6. Noticed'
  BY DEF Noticed, Told, Cohort, CountsGrow, OpeningTypeOK, EventsTypeOK, desktop, observers, request
<1>7. stage' = "start" => watched' = {}
  BY DEF OpeningTypeOK, EventsTypeOK, desktop, observers, request
<1> QED BY <1>1, <1>2, <1>3, <1>4, <1>5, <1>6, <1>7

LEMMA WokenStep ==
    ASSUME NEW p \in Pids, OpeningInv, Woken(p) /\ Here
    PROVE  OpeningInv'
<1> USE DEF OpeningInv, Woken, Step, Here
<1>1. OpeningTypeOK'
  BY BoundAssumption DEF OpeningTypeOK, EventsTypeOK, desktop, observers, request
<1>2. CountsGrow'
  BY DEF CountsGrow, OpeningTypeOK, EventsTypeOK, desktop, observers, request
<1>3. Announced'
  BY DEF Announced, CountsGrow, OpeningTypeOK, EventsTypeOK, desktop, observers, request
<1>4. Wakened'
  BY DEF Wakened, OpeningTypeOK, EventsTypeOK, desktop, observers, request
<1>5. Cohort'
  BY DEF Cohort, OpeningTypeOK, EventsTypeOK, desktop, observers, request
<1>6. Noticed'
  BY DEF Noticed, Told, Cohort, CountsGrow, OpeningTypeOK, EventsTypeOK, desktop, observers, request
<1>7. stage' = "start" => watched' = {}
  BY DEF OpeningTypeOK, EventsTypeOK, desktop, observers, request
<1> QED BY <1>1, <1>2, <1>3, <1>4, <1>5, <1>6, <1>7

LEMMA CountStep ==
    ASSUME NEW p \in Pids, OpeningInv, Count(p) /\ UNCHANGED <<desktop, request, expired>> /\ Here
    PROVE  OpeningInv'
<1> USE DEF OpeningInv, Count, Here
<1>1. OpeningTypeOK'
  BY BoundAssumption DEF OpeningTypeOK, EventsTypeOK, desktop, observers, request
<1>2. CountsGrow'
  BY DEF CountsGrow, OpeningTypeOK, EventsTypeOK, desktop, observers, request
<1>3. Announced'
  BY DEF Announced, CountsGrow, OpeningTypeOK, EventsTypeOK, desktop, observers, request
<1>4. Wakened'
  BY DEF Wakened, OpeningTypeOK, EventsTypeOK, desktop, observers, request
<1>5. Cohort'
  BY DEF Cohort, OpeningTypeOK, EventsTypeOK, desktop, observers, request
<1>6. Noticed'
  BY DEF Noticed, Told, Cohort, CountsGrow, OpeningTypeOK, EventsTypeOK, desktop, observers, request
<1>7. stage' = "start" => watched' = {}
  BY DEF OpeningTypeOK, EventsTypeOK, desktop, observers, request
<1> QED BY <1>1, <1>2, <1>3, <1>4, <1>5, <1>6, <1>7

LEMMA PostStep ==
    ASSUME NEW p \in Pids, OpeningInv, Post(p) /\ UNCHANGED <<desktop, request, expired>> /\ Here
    PROVE  OpeningInv'
<1> USE DEF OpeningInv, Post, Here
<1>1. OpeningTypeOK'
  BY BoundAssumption DEF OpeningTypeOK, EventsTypeOK, desktop, observers, request
<1>2. CountsGrow'
  BY DEF CountsGrow, OpeningTypeOK, EventsTypeOK, desktop, observers, request
<1>3. Announced'
  BY DEF Announced, CountsGrow, OpeningTypeOK, EventsTypeOK, desktop, observers, request
<1>4. Wakened'
  BY DEF Wakened, OpeningTypeOK, EventsTypeOK, desktop, observers, request
<1>5. Cohort'
  BY DEF Cohort, OpeningTypeOK, EventsTypeOK, desktop, observers, request
<1>6. Noticed'
  BY DEF Noticed, Told, Cohort, CountsGrow, OpeningTypeOK, EventsTypeOK, desktop, observers, request
<1>7. stage' = "start" => watched' = {}
  BY DEF OpeningTypeOK, EventsTypeOK, desktop, observers, request
<1> QED BY <1>1, <1>2, <1>3, <1>4, <1>5, <1>6, <1>7

LEMMA SetWakeStep ==
    ASSUME NEW p \in Pids, OpeningInv, SetWake(p) /\ UNCHANGED <<desktop, request, expired>> /\ Here
    PROVE  OpeningInv'
<1> USE DEF OpeningInv, SetWake, Here
<1>1. OpeningTypeOK'
  BY BoundAssumption DEF OpeningTypeOK, EventsTypeOK, desktop, observers, request
<1>2. CountsGrow'
  BY DEF CountsGrow, OpeningTypeOK, EventsTypeOK, desktop, observers, request
<1>3. Announced'
  BY DEF Announced, CountsGrow, OpeningTypeOK, EventsTypeOK, desktop, observers, request
<1>4. Wakened'
  BY DEF Wakened, OpeningTypeOK, EventsTypeOK, desktop, observers, request
<1>5. Cohort'
  BY DEF Cohort, OpeningTypeOK, EventsTypeOK, desktop, observers, request
<1>6. Noticed'
  BY DEF Noticed, Told, Cohort, CountsGrow, OpeningTypeOK, EventsTypeOK, desktop, observers, request
<1>7. stage' = "start" => watched' = {}
  BY DEF OpeningTypeOK, EventsTypeOK, desktop, observers, request
<1> QED BY <1>1, <1>2, <1>3, <1>4, <1>5, <1>6, <1>7

LEMMA MarkEndedStep ==
    ASSUME NEW p \in Pids, OpeningInv, MarkEnded(p) /\ UNCHANGED <<desktop, request, expired>> /\ Here
    PROVE  OpeningInv'
<1> USE DEF OpeningInv, MarkEnded, Here
<1>1. OpeningTypeOK'
  BY BoundAssumption DEF OpeningTypeOK, EventsTypeOK, desktop, observers, request
<1>2. CountsGrow'
  BY DEF CountsGrow, OpeningTypeOK, EventsTypeOK, desktop, observers, request
<1>3. Announced'
  BY DEF Announced, CountsGrow, OpeningTypeOK, EventsTypeOK, desktop, observers, request
<1>4. Wakened'
  BY DEF Wakened, OpeningTypeOK, EventsTypeOK, desktop, observers, request
<1>5. Cohort'
  BY DEF Cohort, OpeningTypeOK, EventsTypeOK, desktop, observers, request
<1>6. Noticed'
  BY DEF Noticed, Told, Cohort, CountsGrow, OpeningTypeOK, EventsTypeOK, desktop, observers, request
<1>7. stage' = "start" => watched' = {}
  BY DEF OpeningTypeOK, EventsTypeOK, desktop, observers, request
<1> QED BY <1>1, <1>2, <1>3, <1>4, <1>5, <1>6, <1>7

LEMMA OpeningInvStep == OpeningInv /\ [ONext]_ovars => OpeningInv'
<1> SUFFICES ASSUME OpeningInv, [ONext]_ovars PROVE OpeningInv'
  OBVIOUS
<1>1. CASE OAdvance
  BY <1>1, BeginStep, SurveyStep, FoundOpenStep, ProvenAbsentStep, VerifyCohortStep, OpenUrlStep,
     GiveUpStep, ReadBrowserStep, StartStep, ArmStep, DispatchStep, CheckStep, AllEndedStep,
     PollStep, PollEndsStep, TimeOutStep DEF OAdvance, Advance
<1>2. CASE (Watchdog \/ Expire) /\ Here
  BY <1>2, RecheckStep, ExpireStep DEF Watchdog
<1>3. ASSUME NEW p \in Pids, Launch(p) \/ Quit(p) \/ OChange(p)
      PROVE  OpeningInv'
  BY <1>3, LaunchStep, QuitStep, OChangeStep
<1>4. ASSUME NEW p \in Pids, OListen(p)
      PROVE  OpeningInv'
  BY <1>4, TestStep, WokenStep, RecheckStep DEF OListen, Listen, Changed
<1>5. ASSUME NEW p \in Pids, Observer(p) /\ Here
      PROVE  OpeningInv'
  BY <1>5, CountStep, PostStep, SetWakeStep, MarkEndedStep DEF Observer, Signal
<1>6. CASE UNCHANGED ovars
  BY <1>6 DEF ovars, eventVars, desktop, observers, request, OpeningInv, OpeningTypeOK, EventsTypeOK,
              CountsGrow, Announced, Wakened, Cohort, Noticed, Told
<1> QED
  BY <1>1, <1>2, <1>3, <1>4, <1>5, <1>6 DEF ONext, Stop

LEMMA OpeningInvariance == OInit /\ [][ONext]_ovars => []OpeningInv
  BY OpeningInvInit, OpeningInvStep, PTL

-----------------------------------------------------------------------------
(* The types of a request and of the observers it waits for.               *)
THEOREM OpeningTypeCorrect == OSpec => []OpeningTypeOK
<1>1. OpeningInv => OpeningTypeOK
  BY DEF OpeningInv
<1> QED BY <1>1, OpeningInvariance, PTL DEF OSpec

(* wait_for_change loses no notification, whichever thread runs next.      *)
THEOREM WakeupsAreNotLost == OSpec => []NoLostWakeup
<1>1. OpeningInv => NoLostWakeup
  BY DEF OpeningInv, Announced, Wakened, NoLostWakeup, OpeningTypeOK, EventsTypeOK
<1> QED BY <1>1, OpeningInvariance, PTL DEF OSpec

(* open_if_missing opens no page that a browser already shows, but for a   *)
(* change that its observer has yet to count and a browser launched since  *)
(* the census of the guard.                                                *)
THEOREM PagesAreOpenedOnce == OSpec => NoDuplicateOpen
<1>1. OpeningInv /\ [ONext]_ovars =>
        (~dispatched /\ dispatched' /\ kind = "open" =>
           \A p \in showing : notice[p] = "changed" \/ p \in unproven)
  <2> SUFFICES ASSUME OpeningInv, [ONext]_ovars, ~dispatched, dispatched', kind = "open",
                      NEW p \in showing
               PROVE  notice[p] = "changed" \/ p \in unproven
    OBVIOUS
  <2>1. OpenUrl
    BY DEF ONext, OAdvance, Advance, OListen, Listen, Watchdog, Recheck, Expire, Changed, Test,
           Woken, Step, Launch, Quit, Census, OChange, Change, Observer, TakeCensus, Survey, FoundOpen,
           ProvenAbsent, VerifyCohort, Decline, ReadBrowser, Start, Arm, Dispatch, Check, AllEnded,
           Poll, PollEnds, TimeOut, Stop, MoveOn, Move, Here, ovars, eventVars, request, desktop
  <2>2. p \in watched \/ p \in unproven
    BY <2>1 DEF OpeningInv, Cohort, OpenUrl
  <2>3. p \in watched => Told(p)
    BY <2>1 DEF OpeningInv, Noticed, OpenUrl
  <2>4. p \in watched => p \in subs \ ended /\ tally[p] = base[p]
    BY <2>1 DEF OpenUrl, Covered, Unchanged
  <2> QED
    BY <2>2, <2>3, <2>4 DEF Told, OpeningInv, OpeningTypeOK, EventsTypeOK
<1> QED BY <1>1, OpeningInvariance, PTL DEF OSpec, NoDuplicateOpen
=============================================================================
