---------------------------- MODULE NativeActions ----------------------------
(***************************************************************************)
(* The foreground tools of server.py: click, type, press_key, scroll,      *)
(* drag, hover, app, window, new_tab and close_tab act on native           *)
(* applications through the accessibility adapter (native_worker), the     *)
(* physical input backend (input_worker) and the system (system_worker).   *)
(*                                                                         *)
(* A tool is the graph of the steps its handler goes through in the        *)
(* foreground lane: what it asks, what it does, and where each result      *)
(* leads.  What was dispatched to a worker and given up takes effect later *)
(* or never.  The front, the focus and a launch are only requested: the    *)
(* system may carry a request out after its worker has returned, when      *)
(* another call has the lane, or never.  Physical input goes to whatever   *)
(* is in front when it is posted.                                          *)
(***************************************************************************)
EXTENDS Naturals

CONSTANTS
  Clients,      \* each makes one call
  Tools,        \* Tools[c]: the tools that c may call
  Apps, AppOf,  \* the applications, and the one that each call names
  WindowIsFront,\* the focused window of an application is the system's
  MaxMoves,     \* bound: changes by the user and by requests that come late
  MaxReads,     \* bound: readings of tree, find and wait_for
  Nobody

ToolNames == {"click", "clickAt", "type", "key", "scroll", "drag", "hover", "hoverAt",
              "app", "focusWindow", "window", "newTab", "closeTab"}

ASSUME NativeAssumption ==
  /\ Tools \in [Clients -> SUBSET ToolNames]
  /\ AppOf \in [Clients -> Apps] /\ Nobody \notin Clients \cup Apps
  /\ WindowIsFront \in BOOLEAN /\ MaxMoves \in Nat /\ MaxReads \in Nat

VARIABLES
  os,       \* what is in front, what has the focus in each application
  coming,   \* requests that the system has not carried out
  calls,    \* calls[c]: the call of c
  thread,   \* thread[w]: what the worker w carries out
  poison,   \* the workers that the foreground lane waits for
  store,    \* the snapshots that can be resolved
  reading   \* a reading on its way to a snapshot

nativeVars == <<os, coming, calls, thread, poison, store, reading>>

-----------------------------------------------------------------------------
\* A step asks about the system, does something to it through a worker, or
\* does something and waits until the system shows it.
Ask(asks, yes, no) == [kind |-> "ask", asks |-> asks, yes |-> yes, no |-> no]
Do(worker, does, yes, no) ==
  [kind |-> "do", worker |-> worker, does |-> does, yes |-> yes, no |-> no]
DoUntil(worker, does, asks, yes, no) ==
  [kind |-> "until", worker |-> worker, does |-> does, asks |-> asks, yes |-> yes, no |-> no]

\* Whether a process is named, by an argument or by the element.  Where none
\* is, input goes to whatever is in front.
IfNamed(named, unnamed) == Ask("pid", named, unnamed)

\* _verify_focus: asks what is in front and brings the window there.
AskFront(next) == Ask("front", next, {"activate"})
BringToFront(next) == DoUntil("input", "front", "front", next, {"failed"})

Click ==
  [start |-> Ask("any", {"press"}, {"failed"}),
   press |-> Do("native", "act", {"done"}, {"click"}),
   click |-> Do("native", "act", {"done"}, {"confirm"}),
   confirm |-> Do("native", "act", {"done"}, {"open"}),
   open |-> Do("native", "act", {"done"}, {"available", "failed"}),
   available |-> Ask("any", {"named"}, {"failed"}),
   named |-> IfNamed({"front"}, {"at"}),
   front |-> AskFront({"at"}), activate |-> BringToFront({"at"}),
   at |-> Do("input", "hit", {"done"}, {"failed"})]

ClickAt ==
  [start |-> IfNamed({"available"}, {"failed"}),
   available |-> Ask("any", {"front"}, {"failed"}),
   front |-> AskFront({"at"}), activate |-> BringToFront({"at"}),
   at |-> Do("input", "hit", {"done"}, {"failed"})]

\* Focus and type; else click on the element and type; else set its value.
Type ==
  LET focused == {"focus", "hit", "value"} IN
  [start |-> Ask("any", {"named"}, {"value"}),
   named |-> IfNamed({"front"}, focused),
   front |-> AskFront(focused), activate |-> BringToFront(focused),
   focus |-> DoUntil("native", "focus", "focused", {"inject"}, {"notsent", "hit", "value"}),
   inject |-> Do("input", "text", {"done", "verify"}, {"hit", "value"}),
   hit |-> Ask("any", {"clickon"}, {"notsent"}),
   clickon |-> DoUntil("input", "hit", "focused", {"retype"}, {"notsent"}),
   retype |-> Do("input", "text", {"done", "verify"}, {"value"}),
   verify |-> Ask("typed", {"done"}, {"value"}),
   value |-> Do("native", "act", {"done", "commit"}, {"failed"}),
   commit |-> Do("native", "act", {"done"}, {"done"})]

Input(does) ==
  [start |-> Ask("any", {"named"}, {"failed"}),
   named |-> IfNamed({"front"}, {"send"}),
   front |-> AskFront({"send"}), activate |-> BringToFront({"send"}),
   send |-> Do("input", does, {"done"}, {"failed"})]

PressKey == Input("key")
Scroll == Input("wheel")
Drag == Input("drag")

Hover ==
  [start |-> Ask("any", {"valid"}, {"failed"}),
   valid |-> Ask("any", {"named"}, {"failed"}),
   named |-> IfNamed({"front"}, {"send"}),
   front |-> AskFront({"send"}), activate |-> BringToFront({"send"}),
   send |-> Do("input", "point", {"done"}, {"failed"})]

\* At coordinates the pointer moves over whatever is there.
HoverAt ==
  [start |-> Ask("any", {"send"}, {"failed"}),
   send |-> Do("input", "point", {"done"}, {"failed"})]

App == [start |-> Do("system", "app", {"done"}, {"failed"})]

WindowFocus ==
  [start |-> Ask("any", {"front", "raise"}, {"failed"}),
   front |-> AskFront({"raise"}), activate |-> BringToFront({"raise"}),
   raise |-> DoUntil("native", "focus", "active", {"done"}, {"failed"})]

\* minimize, close, move and resize
WindowChange ==
  [start |-> Ask("any", {"change"}, {"failed"}),
   change |-> Do("native", "act", {"done"}, {"failed"})]

\* _activate_browser_target_and_wait, for an exact tab: the steps that follow
\* when it is not active already.
AskActive(next) == Ask("active", next, {"front"})
FindWindow == Ask("any", {"select"}, {"raise"})
RaiseWindow == DoUntil("native", "raise", "any", {"select"}, {"failed"})
SelectTab == DoUntil("native", "focus", "any", {"selected"}, {"failed"})
AskSelected(next) == Ask("active", next, {"failed"})

NewTab ==
  [start |-> Ask("any", {"active"}, {"open"}),
   active |-> AskActive({"done"}),
   front |-> AskFront({"window"}), activate |-> BringToFront({"window"}),
   window |-> FindWindow, raise |-> RaiseWindow, select |-> SelectTab,
   selected |-> AskSelected({"done"}),
   open |-> Do("system", "open", {"done"}, {"failed"})]

CloseTab ==
  [start |-> Ask("any", {"active"}, {"failed"}),
   active |-> AskActive({"available"}),
   front |-> AskFront({"window"}), activate |-> BringToFront({"window"}),
   window |-> FindWindow, raise |-> RaiseWindow, select |-> SelectTab,
   selected |-> AskSelected({"available"}),
   available |-> Ask("any", {"exact"}, {"failed"}),
   exact |-> Ask("active", {"send"}, {"failed"}),
   send |-> Do("input", "shortcut", {"done"}, {"failed"})]

Script(tool) ==
  [click |-> Click, clickAt |-> ClickAt, type |-> Type, key |-> PressKey, scroll |-> Scroll,
   drag |-> Drag, hover |-> Hover, hoverAt |-> HoverAt, app |-> App, focusWindow |-> WindowFocus,
   window |-> WindowChange, newTab |-> NewTab, closeTab |-> CloseTab][tool]

-----------------------------------------------------------------------------
Workers == {"native", "input", "system"}
Physical == {"hit", "text", "key", "wheel", "drag", "point", "shortcut"}
Acting == Physical \cup {"act", "app", "open"}
Requests == {"front", "focus", "raise", "hit", "app", "open"}
Answers == {"done", "failed", "notsent", "error", "unknown"}

NoTask == [by |-> Nobody, does |-> "nothing"]
NoCall == [tool |-> "none", pid |-> TRUE, at |-> "idle", phase |-> "ready",
           result |-> FALSE, proof |-> "none", acted |-> FALSE, late |-> FALSE]

NativeInit ==
  /\ os \in [front : Apps, focus : {[a \in Apps |-> Nobody]}, effects : {{}},
             moves : {0}, reads : {0}]
  /\ coming = {}
  /\ calls = [c \in Clients |-> NoCall]
  /\ thread = [w \in Workers |-> NoTask]
  /\ poison = {} /\ store = {} /\ reading = Nobody

InLane(c) == calls[c].at \notin Answers \cup {"idle"}
Poisoned == \E w \in poison : thread[w] # NoTask
Here(c) == Script(calls[c].tool)[calls[c].at]

Holds(c, asks) ==
  LET active == os.focus[AppOf[c]] = c
      front == os.front = AppOf[c]
  IN  CASE asks = "front" -> {front}
        [] asks = "focused" -> {front /\ active}
        [] asks = "active" -> {active /\ (WindowIsFront => front)}
        [] asks = "pid" -> {calls[c].pid}
        [] OTHER -> BOOLEAN

-----------------------------------------------------------------------------
\* The applications that a call may change: all, when it names none.
Concerns(c) ==
  IF \/ calls[c].tool = "app"
     \/ ~calls[c].pid /\ calls[c].tool \in {"key", "scroll", "drag", "hoverAt"}
  THEN Apps ELSE {AppOf[c]}

\* A mutant of Forget: the snapshots stay.
InvalidateNothing(c) == UNCHANGED <<store, reading>>

\* _invalidate_native_mutation_state.
Forget(c) ==
  LET gone == IF calls[c].at = "open" THEN Apps ELSE Concerns(c) IN
  /\ store' = {s \in store : s.app \notin gone}
  /\ reading' = IF reading # Nobody /\ reading.app \in gone
                THEN [reading EXCEPT !.raced = TRUE] ELSE reading

\* The tools that invalidate when they succeed.
Invalidating == {"app", "focusWindow", "window", "closeTab"}

Ending(c, next) ==
  IF next = "done" /\ calls[c].tool \in Invalidating
  THEN Forget(c) ELSE UNCHANGED <<store, reading>>

\* The call goes on to a step or ends with an answer.
GoTo(c, next) ==
  /\ calls' = [calls EXCEPT ![c].at = next, ![c].phase = "ready", ![c].result = FALSE,
                            ![c].acted = @ \/ (Here(c).kind = "do"
                                               /\ calls[c].phase = "returned"
                                               /\ calls[c].result)]
  /\ Ending(c, next)

MayNameNone == {"click", "clickAt", "type", "key", "scroll", "drag", "hover", "hoverAt"}

\* execute_foreground: refused while what was given up may still run.
Enter(c, tool) ==
  /\ calls[c].at = "idle" /\ \A d \in Clients : ~InLane(d)
  /\ \E named \in {TRUE, tool \notin MayNameNone} :
       calls' = [calls EXCEPT ![c].tool = tool, ![c].pid = named,
                              ![c].at = IF Poisoned THEN "error" ELSE "start"]
  /\ UNCHANGED <<os, coming, thread, poison, store, reading>>

\* What is read back and not found was not done.
AskStep(c) ==
  /\ InLane(c) /\ Here(c).kind = "ask"
  /\ \E answer \in Holds(c, Here(c).asks) :
       \E next \in IF answer THEN Here(c).yes ELSE Here(c).no :
         /\ calls' = [calls EXCEPT
              ![c].at = next,
              ![c].proof = IF answer /\ Here(c).asks \in {"front", "active"} THEN "held" ELSE @,
              ![c].acted = (@ /\ (answer \/ Here(c).asks # "typed")) \/ (answer /\ next = "done")]
         /\ Ending(c, next)
  /\ UNCHANGED <<os, coming, thread, poison>>

Dispatch(c) ==
  /\ InLane(c) /\ Here(c).kind # "ask" /\ calls[c].phase = "ready"
  /\ thread[Here(c).worker] = NoTask
  /\ thread' = [thread EXCEPT ![Here(c).worker] = [by |-> c, does |-> Here(c).does]]
  /\ calls' = [calls EXCEPT ![c].phase = "waiting"]
  /\ UNCHANGED <<os, coming, poison, store, reading>>

\* What may be in front, or focused, once a request is carried out.
After(c, does) ==
  LET a == AppOf[c] IN
  CASE does = "front" -> {[os EXCEPT !.front = a]}
    [] does = "focus" -> {[os EXCEPT !.focus[a] = c]}
    [] does = "raise" -> {[os EXCEPT !.focus[a] = f] : f \in {os.focus[a], Nobody}}
    [] does = "hit" -> {[os EXCEPT !.focus[os.front] = f] : f \in {c, Nobody}}
    [] does \in {"app", "open"} -> {[os EXCEPT !.front = b] : b \in Apps}
    [] OTHER -> {os}

\* The worker returns: a request was carried out already or is on its way.
\* Input that was posted in part is reported as FALSE.
Perform(w, result) ==
  LET c == thread[w].by
      does == thread[w].does
      waits == InLane(c) /\ calls[c].phase = "waiting"
  IN  /\ thread[w] # NoTask
      /\ \E o \in {os} \cup (IF does \in Requests THEN After(c, does) ELSE {}) :
           /\ os' = [o EXCEPT !.effects = IF does \in Acting /\ (result \/ does \in Physical)
                                          THEN @ \cup {c} ELSE @]
           /\ coming' = IF does \in Requests /\ o = os
                        THEN coming \cup {[by |-> c, does |-> does]} ELSE coming
      /\ calls' = [calls EXCEPT
                    ![c].phase = IF waits THEN "returned" ELSE @,
                    ![c].result = waits /\ result,
                    ![c].late = @ \/ ~waits]
      /\ thread' = [thread EXCEPT ![w] = NoTask]
      /\ poison' = poison \ {w}
      /\ UNCHANGED <<store, reading>>

Return(c) ==
  /\ InLane(c) /\ calls[c].phase = "returned" /\ Here(c).kind = "do"
  /\ \E next \in IF calls[c].result THEN Here(c).yes ELSE Here(c).no : GoTo(c, next)
  /\ UNCHANGED <<os, coming, thread, poison>>

\* The condition is seen to hold, or it is not in time.
Confirm(c) ==
  /\ InLane(c) /\ calls[c].phase = "returned" /\ Here(c).kind = "until"
  /\ \/ /\ TRUE \in Holds(c, Here(c).asks)
        /\ \E next \in Here(c).yes :
             /\ calls' = [calls EXCEPT
                  ![c].at = next, ![c].phase = "ready", ![c].result = FALSE,
                  ![c].proof = IF Here(c).asks \in {"front", "active", "focused"} THEN "held" ELSE @,
                  ![c].acted = @ \/ next = "done"]
             /\ Ending(c, next)
     \/ \E next \in Here(c).no : GoTo(c, next)
  /\ UNCHANGED <<os, coming, thread, poison>>

\* Mutants of GiveUp: the lane is not fenced; what was dispatched counts as
\* not dispatched.
GiveUpUnfenced(c) ==
  /\ InLane(c)
  /\ IF Here(c).kind = "ask" \/ calls[c].phase = "ready"
     THEN GoTo(c, "error") /\ UNCHANGED poison
     ELSE /\ Here(c).kind = "do" => calls[c].phase = "waiting"
          /\ calls' = [calls EXCEPT ![c].at = "unknown", ![c].phase = "ready", ![c].result = FALSE]
          /\ UNCHANGED poison /\ Forget(c)
  /\ UNCHANGED <<os, coming, thread>>

GiveUpPlainly(c) ==
  /\ InLane(c) /\ GoTo(c, "error") /\ UNCHANGED <<os, coming, thread, poison>>

\* The budget runs out or the client cancels.  Once a mutation may have run
\* its outcome is uncertain, and the lane waits for its worker.
GiveUp(c) ==
  /\ InLane(c)
  /\ IF Here(c).kind = "ask" \/ calls[c].phase = "ready"
     THEN GoTo(c, "error") /\ UNCHANGED poison
     ELSE /\ Here(c).kind = "do" => calls[c].phase = "waiting"
          /\ calls' = [calls EXCEPT ![c].at = "unknown", ![c].phase = "ready", ![c].result = FALSE]
          /\ poison' = poison \cup {w \in {Here(c).worker} : thread[w] # NoTask}
          /\ Forget(c)
  /\ UNCHANGED <<os, coming, thread>>

-----------------------------------------------------------------------------
\* What was proven before something else moved is not proven any more.
Outdated(c) == IF calls[c].proof = "held" THEN "moved" ELSE calls[c].proof

UserMoves ==
  /\ os.moves < MaxMoves
  /\ \E a \in Apps, b \in Apps, f \in Clients \cup {Nobody} :
       /\ a # os.front \/ f # os.focus[b]
       /\ os' = [os EXCEPT !.front = a, !.focus[b] = f, !.moves = @ + 1]
  /\ calls' = [c \in Clients |-> [calls[c] EXCEPT !.proof = Outdated(c)]]
  /\ UNCHANGED <<coming, thread, poison, store, reading>>

\* The system carries out a request whose worker has returned.
Land(r) ==
  /\ r \in coming /\ os.moves < MaxMoves
  /\ \E o \in After(r.by, r.does) \ {os} : os' = [o EXCEPT !.moves = @ + 1]
  /\ coming' = coming \ {r}
  /\ calls' = [c \in Clients |->
                [calls[c] EXCEPT !.proof = Outdated(c), !.late = @ \/ (c = r.by /\ ~InLane(c))]]
  /\ UNCHANGED <<thread, poison, store, reading>>

\* tree reads in the lane, find and wait_for beside it; the snapshot is made
\* after the lane was left.
Read(a, inLane) ==
  /\ reading = Nobody /\ os.reads < MaxReads
  /\ inLane => ~Poisoned /\ \A c \in Clients : ~InLane(c)
  /\ os' = [os EXCEPT !.reads = @ + 1]
  /\ reading' = [app |-> a, sees |-> os.effects, raced |-> FALSE]
  /\ UNCHANGED <<coming, calls, thread, poison, store>>

Snapshot ==
  /\ reading # Nobody
  /\ store' = store \cup {reading} /\ reading' = Nobody
  /\ UNCHANGED <<os, coming, calls, thread, poison>>

-----------------------------------------------------------------------------
Handle(c) ==
  \/ \E tool \in Tools[c] : Enter(c, tool)
  \/ AskStep(c) \/ Dispatch(c) \/ Return(c) \/ Confirm(c) \/ GiveUp(c)

NativeNext ==
  \/ \E c \in Clients : Handle(c)
  \/ \E w \in Workers, result \in BOOLEAN : Perform(w, result)
  \/ UserMoves
  \/ \E c \in Clients, does \in Requests : Land([by |-> c, does |-> does])
  \/ \E a \in Apps, inLane \in BOOLEAN : Read(a, inLane)
  \/ Snapshot

NativeSpec == NativeInit /\ [][NativeNext]_nativeVars

-----------------------------------------------------------------------------
\* Input of a call that names an application is posted only when that is in
\* front, text, of any call, only when the exact element has the focus, and
\* the close shortcut only when the exact tab has it: whatever earlier calls
\* were given up.  The exception is what the code cannot see: the user, or a
\* request that is carried out late, changed something after the last proof.
InputOnTarget ==
  [][\A w \in Workers : LET c == thread[w].by IN
       thread[w].does \in Physical /\ thread'[w] = NoTask /\ calls[c].proof # "moved" =>
         /\ thread[w].does = "text" \/ (calls[c].pid /\ calls[c].tool # "hoverAt") =>
              os.front = AppOf[c]
         /\ thread[w].does \in {"text", "shortcut"} => os.focus[AppOf[c]] = c]_nativeVars

\* mcp-tools.md of close_tab: it focuses and closes one verified foreground
\* tab; the close shortcut goes to no other application, unless something was
\* moved after the last proof.
ClosesForegroundTab ==
  [][\A w \in Workers : LET c == thread[w].by IN
       thread[w].does = "shortcut" /\ thread'[w] = NoTask /\ calls[c].proof # "moved" =>
         os.front = AppOf[c]]_nativeVars

\* Only OUTCOME_UNKNOWN leaves something behind in a worker.  After a success
\* what the call is for was reported done by a worker or was seen; after a
\* failure, "text was not sent" included, and after a plain error it was not.
\* Three exceptions are the code's: input that was posted in part and reported
\* as failed, and text that was read back and not found, do not count as done;
\* type may end with a plain error after its text was typed or set, when
\* reading it back or confirming it fails.
HonestAnswers ==
  \A c \in Clients :
    /\ calls[c].at \in Answers \ {"unknown"} => \A w \in Workers : thread[w].by # c
    /\ calls[c].at = "done" => calls[c].acted
    /\ calls[c].at \in {"failed", "notsent"} => ~calls[c].acted
    /\ calls[c].at = "error" => ~calls[c].acted \/ calls[c].tool = "type"

\* No snapshot of an application that a call concerns is from before the call
\* had an effect, once its answer was OUTCOME_UNKNOWN, or a success of app,
\* window or close_tab, unless it was being made at the time of the answer or
\* the effect came after it.
SnapshotsCurrent ==
  \A s \in store, c \in os.effects :
    /\ s.app \in Concerns(c) /\ c \notin s.sees /\ ~calls[c].late
    /\ \/ calls[c].at = "unknown"
       \/ calls[c].at = "done" /\ calls[c].tool \in {"app", "focusWindow", "window", "closeTab"}
    => s.raced

\* mcp-tools.md of type, press_key, scroll and drag: "affected observation
\* state is invalidated".  So it is when their outcome is uncertain; when
\* they succeed in the foreground their snapshots stay.
SuccessInvalidates ==
  \A s \in store, c \in os.effects :
    /\ s.app = AppOf[c] /\ c \notin s.sees /\ ~calls[c].late
    /\ calls[c].at = "done" /\ calls[c].tool \in {"type", "key", "scroll", "drag"}
    => s.raced

=============================================================================
