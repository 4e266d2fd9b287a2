---------------------------- MODULE NativeEvents ----------------------------
(***************************************************************************)
(* native_events.py: waiting for a condition of the desktop through the    *)
(* accessibility notifications of one or several processes, either on its  *)
(* own (wait_for_native_element) or around one action that is dispatched   *)
(* once (run_native_action_until, run_native_action_until_any).            *)
(*                                                                         *)
(* A notification is counted and posted by the observer's own thread; the  *)
(* event loop clears its flag, compares the count and then sleeps.  The    *)
(* condition is that some process shows what is sought.                    *)
(***************************************************************************)
EXTENDS Naturals, FiniteSets

CONSTANTS
  Pids,        \* processes that may show it
  Kinds,       \* kinds of request, among "wait", "act", "open"
  MaxChanges,  \* bound: changes of the desktop
  MaxChecks    \* checks after which polling gives up (_MAX_FALLBACK_CHECKS)

ASSUME BoundAssumption ==
  /\ Kinds \subseteq {"wait", "act", "open"}
  /\ MaxChanges \in Nat /\ MaxChecks \in Nat \ {0}

VARIABLES
  kind,        \* what is run
  watched,     \* the processes it is about
  showing,     \* the processes that show what is sought
  silent,      \* those among them whose last change was not announced
  changes,     \* changes of the desktop so far
  subs,        \* processes with a registered observer
  notice,      \* notice[p]: what p's observer thread still has to do
  tally,         \* tally[p]: notifications counted
  base,        \* base[p]: the count that was read before the last check
  posted,      \* posted[p]: a wake.set waits in the event loop
  wake,        \* wake[p]: the asyncio event
  ended,       \* observers whose thread has ended
  task,        \* task[p]: where wait_for_change of p stands
  stage, checks, dispatched, expired

desktop == <<kind, watched, showing, silent, changes>>
observers == <<notice, tally, posted, wake, ended>>
request == <<subs, base, task, stage, checks, dispatched>>
eventVars == <<desktop, observers, request, expired>>

\* An opened page may turn up in a browser that was not there before.
Present == (IF kind = "open" THEN showing ELSE showing \cap watched) # {}
Finished == stage \in {"met", "unmet", "error"}

EventsTypeOK ==
  /\ kind \in Kinds /\ watched \subseteq Pids /\ showing \subseteq Pids /\ silent \subseteq Pids
  /\ changes \in 0..MaxChanges /\ subs \subseteq watched /\ ended \subseteq watched
  /\ notice \in [Pids -> {"none", "changed", "counted"}]
  /\ tally \in [Pids -> Nat] /\ base \in [Pids -> Nat]
  /\ posted \in [Pids -> BOOLEAN] /\ wake \in [Pids -> BOOLEAN]
  /\ task \in [Pids -> {"none", "test", "blocked", "false"}]
  /\ stage \in {"start", "arming", "looking", "reading", "ready", "verified", "checking",
             "waiting", "polling", "met", "unmet", "error"}
  /\ checks \in 0..MaxChecks /\ dispatched \in BOOLEAN /\ expired \in BOOLEAN

All(x) == [p \in Pids |-> x]

EventsInit ==
  /\ kind \in Kinds /\ showing \in SUBSET Pids
  /\ watched = {} /\ silent = {} /\ changes = 0 /\ subs = {} /\ ended = {}
  /\ notice = All("none") /\ tally = All(0) /\ base = All(0)
  /\ posted = All(FALSE) /\ wake = All(FALSE) /\ task = All("none")
  /\ stage = "start" /\ checks = 0 /\ dispatched = FALSE /\ expired = FALSE

-----------------------------------------------------------------------------
\* The desktop and the observer threads.

\* Something changes in process p; the platform tells p's observer.  It may
\* keep quiet about a change of a kind that the observer did not ask for.
Change(p) ==
  /\ changes < MaxChanges /\ changes' = changes + 1
  /\ notice[p] = "none"
  /\ showing' \in {showing \cup {p}, showing \ {p}}
  /\ \/ /\ notice' = [notice EXCEPT ![p] = IF p \in subs \ ended THEN "changed" ELSE "none"]
        /\ silent' = silent \ {p}
     \/ /\ showing' # showing /\ kind # "open"
        /\ silent' = silent \cup {p} /\ notice' = notice
  /\ UNCHANGED <<kind, watched, tally, posted, wake, ended, request, expired>>

\* _signal_change: counted under the lock, then posted to the loop.
Count(p) ==
  /\ notice[p] = "changed"
  /\ tally' = [tally EXCEPT ![p] = @ + 1]
  /\ notice' = [notice EXCEPT ![p] = "counted"]
  /\ UNCHANGED <<posted, wake, ended>>

Post(p) ==
  /\ notice[p] = "counted"
  /\ posted' = [posted EXCEPT ![p] = TRUE]
  /\ notice' = [notice EXCEPT ![p] = "none"]
  /\ UNCHANGED <<tally, wake, ended>>

SetWake(p) ==
  /\ posted[p]
  /\ posted' = [posted EXCEPT ![p] = FALSE]
  /\ wake' = [wake EXCEPT ![p] = TRUE]
  /\ UNCHANGED <<notice, tally, ended>>

\* The observer's thread ends by itself; that counts as a change, too.
MarkEnded(p) ==
  /\ p \in subs \ ended /\ notice[p] = "none"
  /\ ended' = ended \cup {p}
  /\ tally' = [tally EXCEPT ![p] = @ + 1]
  /\ notice' = [notice EXCEPT ![p] = "counted"]
  /\ UNCHANGED <<posted, wake>>

\* A mutant of Signal: the loop is told before the change is counted.
PostThenCount(p) ==
  \/ /\ notice[p] = "changed"
     /\ posted' = [posted EXCEPT ![p] = TRUE]
     /\ notice' = [notice EXCEPT ![p] = "counted"]
     /\ UNCHANGED <<tally, wake, ended>>
  \/ /\ notice[p] = "counted"
     /\ tally' = [tally EXCEPT ![p] = @ + 1]
     /\ notice' = [notice EXCEPT ![p] = "none"]
     /\ UNCHANGED <<posted, wake, ended>>
  \/ SetWake(p)

Signal(p) == Count(p) \/ Post(p) \/ SetWake(p)
Observer(p) == (Signal(p) \/ MarkEnded(p)) /\ UNCHANGED <<desktop, request, expired>>

-----------------------------------------------------------------------------
\* The request.

Move(to) == stage' = to /\ UNCHANGED <<desktop, observers, expired>>

\* A plain wait or action is about one process; see BrowserOpening for "open".
Start ==
  /\ stage = "start" /\ kind # "open"
  /\ \E p \in Pids : watched' = {p}
  /\ stage' = "arming"
  /\ UNCHANGED <<kind, showing, silent, changes, observers, subs, base, task, checks,
                 dispatched, expired>>

\* Reading the counts, which later waits start from.
ReadGeneration == base' = [p \in Pids |-> IF p \in subs' THEN tally[p] ELSE 0]

\* Observers are registered before anything is read or dispatched; each may be
\* unavailable, and opening a page takes all of them or none.
Arm ==
  /\ stage = "arming"
  /\ \E some \in SUBSET watched :
       subs' = IF kind = "open" /\ some # watched THEN {} ELSE some
  /\ ReadGeneration
  /\ Move(CASE kind = "wait" -> "checking" [] kind = "act" -> "ready" [] kind = "open" -> "looking")
  /\ UNCHANGED <<task, checks, dispatched>>

Dispatch ==
  /\ stage = "ready" /\ kind = "act" /\ ~expired
  /\ Move("checking") /\ dispatched' = TRUE
  /\ UNCHANGED <<subs, base, task, checks>>

\* One check of the condition, and what follows a negative one.
Counted == checks' = IF checks < MaxChecks THEN checks + 1 ELSE checks

Check ==
  /\ stage = "checking"
  /\ Counted
  /\ Move(IF Present THEN "met" ELSE IF subs # {} THEN "waiting" ELSE "polling")
  /\ task' = [p \in Pids |-> IF stage' = "waiting" /\ p \in subs THEN "test" ELSE "none"]
  /\ UNCHANGED <<subs, base, dispatched>>

\* wait_for_change of one observer: the flag is cleared and the count compared,
\* between which the loop runs nothing else, then the task sleeps on the flag.
Step(p, from, to) ==
  /\ stage = "waiting" /\ task[p] = from
  /\ task' = [task EXCEPT ![p] = to]
  /\ UNCHANGED <<desktop, subs, stage, checks, dispatched, expired>>

\* A mutant of Test: the wait begins with the count of its own start.
TestFromNow(p) ==
  /\ Step(p, "test", IF p \in ended THEN "false" ELSE "blocked")
  /\ base' = [base EXCEPT ![p] = tally[p]]
  /\ wake' = [wake EXCEPT ![p] = FALSE]
  /\ UNCHANGED <<notice, tally, posted, ended>>

Test(p) ==
  /\ tally[p] <= base[p]
  /\ Step(p, "test", IF p \in ended THEN "false" ELSE "blocked")
  /\ wake' = [wake EXCEPT ![p] = FALSE]
  /\ UNCHANGED <<notice, tally, posted, ended, base>>

Woken(p) ==
  /\ wake[p]
  /\ Step(p, "blocked", "test")
  /\ UNCHANGED <<observers, base>>

\* One of them saw a newer count, or the watchdog elapsed: the counts are read
\* again, and then the condition is.
Recheck ==
  /\ stage = "waiting"
  /\ task' = All("none") /\ subs' = subs
  /\ ReadGeneration
  /\ Move("checking")
  /\ UNCHANGED <<checks, dispatched>>

Changed(p) == task[p] = "test" /\ tally[p] > base[p] /\ Recheck
Watchdog == Recheck

\* All observers have ended: the condition is polled from now on, a plain wait
\* checking it at once.
AllEnded ==
  /\ stage = "waiting" /\ \A p \in subs : task[p] = "false"
  /\ Move(IF kind = "wait" THEN "checking" ELSE "polling")
  /\ task' = All("none") /\ subs' = IF kind = "wait" THEN {} ELSE subs
  /\ UNCHANGED <<base, checks, dispatched>>

Poll ==
  /\ stage = "polling" /\ checks < MaxChecks
  /\ Counted
  /\ Move(IF Present THEN "met" ELSE "polling")
  /\ UNCHANGED <<subs, base, task, dispatched>>

PollEnds ==
  /\ stage = "polling" /\ checks = MaxChecks
  /\ Move("unmet")
  /\ UNCHANGED <<subs, base, task, checks, dispatched>>

\* The deadline: a wait finds nothing then, and an action that was not
\* dispatched, or whose first check is late, fails.
Expire ==
  /\ ~expired /\ expired' = TRUE
  /\ UNCHANGED <<desktop, observers, request>>

TimeOut ==
  /\ expired /\ ~Finished /\ stage # "start"
  /\ Move(IF kind = "wait" \/ stage \in {"waiting", "polling"} THEN "unmet" ELSE "error")
  /\ task' = All("none")
  /\ UNCHANGED <<subs, base, checks, dispatched>>

-----------------------------------------------------------------------------
Listen(p) == Test(p) \/ Woken(p) \/ Changed(p)
Advance == Start \/ Arm \/ Dispatch \/ Check \/ AllEnded \/ Poll \/ PollEnds \/ TimeOut
=============================================================================
