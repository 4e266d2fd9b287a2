----------------------------- MODULE ToolsProofs -----------------------------
(***************************************************************************)
(* The tools that act, for any number of clients, applications, pages and  *)
(* readings, and any tools that the clients call.                          *)
(*                                                                         *)
(* The foreground tools: LaneInv says that at most one call is at work and *)
(* at most one thing outstanding, the one of its step or of a call that    *)
(* was given up; AimInv that the proof of the focus holds where input is   *)
(* sent from.  What the graphs of the tools have to do with it is in       *)
(* ProperStep, proved of each step of each tool.                           *)
(*                                                                         *)
(* The shadow tools: PageInv ties what a call has sent to where it is in   *)
(* its script; ProperScript is what the scripts have in common.            *)
(***************************************************************************)
EXTENDS Tools, TLAPS

-----------------------------------------------------------------------------
(* The graphs of the foreground tools: where input is sent from by a call  *)
(* that names an application, where the exact element or tab has the       *)
(* focus, and where nothing has been asked about the focus yet.            *)
Aiming(tool) ==
  IF tool \in {"click", "clickAt"} THEN {"at"}
  ELSE IF tool = "type" THEN {"focus", "inject", "hit", "clickon", "retype"}
  ELSE IF tool \in {"key", "scroll", "drag", "hover", "closeTab"} THEN {"send"}
  ELSE {}

Exact(tool) ==
  IF tool = "type" THEN {"inject", "retype"} ELSE IF tool = "closeTab" THEN {"send"} ELSE {}

Blind(tool) == IF tool = "newTab" THEN {"start", "open"} ELSE {"start"}

(* After these a text was accepted: it is read back, or committed.         *)
Typed(tool) == IF tool = "type" THEN {"verify", "commit"} ELSE {}

Deeds == Acting \cup {"front", "focus", "raise"}
Plain == Answers \ {"unknown"}

\* Where a call can be.
ToolPlaces == UNION {DOMAIN Script(tool) : tool \in ToolNames}
Places == ToolPlaces \cup Answers \cup {"idle"}

\* A step finds out what the next one relies on.
ProperAsk(tool, n, s) ==
  /\ \A m \in s.yes \cap Aiming(tool) : n \in Aiming(tool) \/ s.asks \in {"front", "active"}
  /\ \A m \in s.yes \cap Exact(tool) : s.asks = "active"
  /\ \A m \in s.yes \cap Blind(tool) : n \in Blind(tool) /\ s.asks \notin {"front", "active"}
  /\ s.yes \cap Typed(tool) = {}
  /\ s.asks = "active" /\ tool # "closeTab" => s.yes = {"done"}
  /\ n \in Typed(tool) => s.asks = "typed" /\ s.yes = {"done"}
ProperDo(tool, n, s) ==
  /\ s.yes \cap Aiming(tool) # {} => n \in Aiming(tool)
  /\ s.yes \cap (Exact(tool) \cup Blind(tool)) = {}
  /\ s.yes \subseteq {"done"} \cup Typed(tool)
  /\ n \in Typed(tool) => s.yes \cup s.no = {"done"}
ProperUntil(tool, n, s) ==
  /\ \A m \in s.yes \cap Aiming(tool) :
       n \in Aiming(tool) \/ s.asks \in {"front", "active", "focused"}
  /\ \A m \in s.yes \cap Exact(tool) : s.asks = "focused"
  /\ s.yes \cap (Blind(tool) \cup Typed(tool)) = {}
  /\ n \notin Typed(tool)
  /\ s.asks = "active" => s.yes = {"done"}

ProperDeed(tool, n, does) ==
  /\ does \in Physical => n \in Aiming(tool) \/ tool = "hoverAt"
  /\ does \in {"text", "shortcut"} => n \in Exact(tool)
  /\ does \in {"app", "open"} => n \in Blind(tool)
  /\ n \in Exact(tool) => does \in {"text", "shortcut"}

ProperStep(tool, n, s, names) ==
  /\ s.kind \in {"ask", "do", "until"}
  /\ s.kind # "ask" => s.worker \in Workers /\ s.does \in Deeds
  /\ s.yes \cup s.no \subseteq names \cup Plain
  /\ names \cap (Answers \cup {"idle"}) = {}
  /\ s.no \cap Aiming(tool) # {} => n \in Aiming(tool) \/ (s.kind = "ask" /\ s.asks = "pid")
  /\ s.no \cap Exact(tool) = {} /\ s.no \cap Typed(tool) = {}
  /\ s.no \cap Blind(tool) # {} => n \in Blind(tool) /\ s.kind = "ask"
  /\ "done" \in s.no => n \in Typed(tool) /\ s.kind = "do"
  /\ s.kind = "ask" => ProperAsk(tool, n, s) /\ n \notin Exact(tool)
  /\ s.kind = "do" => ProperDo(tool, n, s)
  /\ s.kind = "until" => ProperUntil(tool, n, s)
  /\ s.kind # "ask" => ProperDeed(tool, n, s.does)

-----------------------------------------------------------------------------
(* The inductive invariant of the foreground tools.                        *)
LaneCalls ==
  [tool : ToolNames \cup {"none"}, pid : BOOLEAN, at : Places,
   phase : {"ready", "waiting", "returned"}, result : BOOLEAN,
   proof : {"none", "held", "moved"}, acted : BOOLEAN, late : BOOLEAN]
Readings == [app : Apps, sees : SUBSET Clients, raced : BOOLEAN]
Desktops ==
  [front : Apps, focus : [Apps -> Clients \cup {Nobody}], effects : SUBSET Clients,
   moves : Nat, reads : Nat]

NativeTypeOK ==
  /\ os \in Desktops
  /\ coming \in SUBSET [by : Clients, does : Requests]
  /\ calls \in [Clients -> LaneCalls]
  /\ thread \in [Workers -> [by : Clients, does : Deeds] \cup {NoTask}]
  /\ poison \in SUBSET Workers
  /\ store \in SUBSET Readings /\ reading \in Readings \cup {Nobody}

Busy(w) == thread[w] # NoTask

(* One mutation is in the lane, and one call at most in a worker: its own, *)
(* or one that was given up and that the lane waits for.                   *)
OneAtATime ==
  /\ \A c, d \in Clients : InLane(c) /\ InLane(d) => c = d
  /\ \A v, w \in Workers : Busy(v) /\ Busy(w) => v = w
  /\ \A w \in Workers, c \in Clients : Busy(w) /\ InLane(c) => thread[w].by = c
  /\ \A w \in Workers : Busy(w) => InLane(thread[w].by) \/ w \in poison

\* A call has done what it is for exactly where its answer, or the step that
\* it is at, says so; type may end with a plain error after it.
Fits(tool, n, acted) ==
  /\ n \notin Answers \cup {"idle"} => (acted <=> n \in Typed(tool))
  /\ n = "done" => acted
  /\ n \in {"failed", "notsent"} => ~acted
  /\ n = "error" => ~acted \/ tool = "type"

\* A call that is at work is at a step of its tool, waiting for what that
\* step dispatched; one that was answered plainly has nothing in a worker,
\* though a request of it may be on its way.
AtStep(c) ==
  /\ InLane(c) => calls[c].tool \in Tools[c] /\ calls[c].at \in DOMAIN Script(calls[c].tool)
  /\ calls[c].at = "idle" => calls[c] = NoCall /\ \A r \in coming : r.by # c
  /\ Fits(calls[c].tool, calls[c].at, calls[c].acted)
  /\ \A w \in Workers : thread[w].by = c =>
       /\ calls[c].at \notin Plain \cup {"idle"}
       /\ InLane(c) => /\ calls[c].phase = "waiting" /\ Here(c).kind # "ask"
                       /\ w = Here(c).worker /\ thread[w].does = Here(c).does

(* A window may have the focus of its application and not be in front of   *)
(* the system: then only close_tab sends input after asking for no more.   *)
FrontIsProven == WindowIsFront \/ \A c \in Clients : "closeTab" \notin Tools[c]

\* What was proven about the focus holds until the user, or a request that
\* comes late, moves something.  A call that names no application proves
\* nothing before it types.
Proven(c) ==
  InLane(c) =>
    /\ calls[c].at \in Aiming(calls[c].tool) /\ calls[c].pid => calls[c].proof # "none"
    /\ calls[c].at \in Exact(calls[c].tool) => calls[c].proof # "none"
    /\ calls[c].at \in Blind(calls[c].tool) => calls[c].proof = "none"
    /\ calls[c].proof = "held" => os.front = AppOf[c]
    /\ calls[c].proof = "held" /\ calls[c].at \in Exact(calls[c].tool) =>
         os.focus[AppOf[c]] = c

\* So it does for input on its way, whoever still waits for it.
InputAimed(w) ==
  LET c == thread[w].by IN
  Busy(w) /\ thread[w].does \in Physical =>
    /\ \/ thread[w].does \in {"text", "shortcut"}
       \/ calls[c].pid /\ calls[c].tool # "hoverAt"
       => calls[c].proof # "none"
    /\ calls[c].proof = "held" =>
         /\ os.front = AppOf[c]
         /\ thread[w].does \in {"text", "shortcut"} => os.focus[AppOf[c]] = c

ShownTo(c, s) ==
  /\ s.app \in Concerns(c) /\ c \in os.effects /\ c \notin s.sees /\ ~calls[c].late
  /\ calls[c].at = "unknown" \/ (calls[c].at = "done" /\ calls[c].tool \in Invalidating)
  => s.raced

Shown(c) ==
  /\ \A s \in store : ShownTo(c, s)
  /\ reading # Nobody => ShownTo(c, reading)

LaneInv ==
  /\ NativeTypeOK /\ OneAtATime /\ \A c \in Clients : AtStep(c) /\ Shown(c)
AimInv ==
  (\A c \in Clients : Proven(c)) /\ (\A w \in Workers : InputAimed(w))

LEMMA ClickIsProper ==
  \A n \in DOMAIN Click : ProperStep("click", n, Click[n], DOMAIN Click)
  <1> USE DEF Click, IfNamed, Ask, Do, DoUntil, AskFront, BringToFront, ProperStep,
          ProperAsk, ProperDo, ProperUntil, ProperDeed, Deeds, Acting,
          Physical, Plain, Answers, Workers, Aiming, Exact, Blind, Typed
  <1>1. DOMAIN Click = {"start", "press", "click", "confirm", "open",
          "available", "named", "front", "activate", "at"}
    OBVIOUS
  <1>2. ProperStep("click", "start", Click["start"], DOMAIN Click)
    BY <1>1
  <1>3. ProperStep("click", "press", Click["press"], DOMAIN Click)
    BY <1>1
  <1>4. ProperStep("click", "click", Click["click"], DOMAIN Click)
    BY <1>1
  <1>5. ProperStep("click", "confirm", Click["confirm"], DOMAIN Click)
    BY <1>1
  <1>6. ProperStep("click", "open", Click["open"], DOMAIN Click)
    BY <1>1
  <1>7. ProperStep("click", "available", Click["available"], DOMAIN Click)
    BY <1>1
  <1>8. ProperStep("click", "front", Click["front"], DOMAIN Click)
    BY <1>1
  <1>9. ProperStep("click", "activate", Click["activate"], DOMAIN Click)
    BY <1>1
  <1>10. ProperStep("click", "at", Click["at"], DOMAIN Click)
    BY <1>1
  <1>11. ProperStep("click", "named", Click["named"], DOMAIN Click)
    BY <1>1
  <1> HIDE DEF Click, ProperStep
  <1> QED BY <1>1, <1>2, <1>3, <1>4, <1>5, <1>6, <1>7, <1>8, <1>9, <1>10, <1>11

LEMMA ClickAtIsProper ==
  \A n \in DOMAIN ClickAt : ProperStep("clickAt", n, ClickAt[n], DOMAIN ClickAt)
  BY DEF ClickAt, IfNamed, Ask, Do, DoUntil, AskFront, BringToFront, ProperStep,
     ProperAsk, ProperDo, ProperUntil, ProperDeed, Deeds, Acting, Physical,
     Plain, Answers, Workers, Aiming, Exact, Blind, Typed

LEMMA TypeIsProper ==
  \A n \in DOMAIN Type : ProperStep("type", n, Type[n], DOMAIN Type)
  <1> USE DEF Type, IfNamed, Ask, Do, DoUntil, AskFront, BringToFront, ProperStep,
          ProperAsk, ProperDo, ProperUntil, ProperDeed, Deeds, Acting,
          Physical, Plain, Answers, Workers, Aiming, Exact, Blind, Typed
  <1>1. DOMAIN Type = {"start", "named", "front", "activate", "focus", "inject",
          "hit", "clickon", "retype", "verify", "value", "commit"}
    OBVIOUS
  <1>2. ProperStep("type", "start", Type["start"], DOMAIN Type)
    BY <1>1
  <1>3. ProperStep("type", "front", Type["front"], DOMAIN Type)
    BY <1>1
  <1>4. ProperStep("type", "activate", Type["activate"], DOMAIN Type)
    BY <1>1
  <1>5. ProperStep("type", "focus", Type["focus"], DOMAIN Type)
    BY <1>1
  <1>6. ProperStep("type", "inject", Type["inject"], DOMAIN Type)
    BY <1>1
  <1>7. ProperStep("type", "hit", Type["hit"], DOMAIN Type)
    BY <1>1
  <1>8. ProperStep("type", "clickon", Type["clickon"], DOMAIN Type)
    BY <1>1
  <1>9. ProperStep("type", "retype", Type["retype"], DOMAIN Type)
    BY <1>1
  <1>10. ProperStep("type", "verify", Type["verify"], DOMAIN Type)
    BY <1>1
  <1>11. ProperStep("type", "value", Type["value"], DOMAIN Type)
    BY <1>1
  <1>12. ProperStep("type", "commit", Type["commit"], DOMAIN Type)
    BY <1>1
  <1>13. ProperStep("type", "named", Type["named"], DOMAIN Type)
    BY <1>1
  <1> HIDE DEF Type, ProperStep
  <1> QED BY <1>1, <1>2, <1>3, <1>4, <1>5, <1>6, <1>7, <1>8, <1>9, <1>10,
             <1>11, <1>12, <1>13

LEMMA PressKeyIsProper ==
  \A n \in DOMAIN PressKey : ProperStep("key", n, PressKey[n], DOMAIN PressKey)
  BY DEF PressKey, Input, IfNamed, Ask, Do, DoUntil, AskFront, BringToFront,
     ProperStep, ProperAsk, ProperDo, ProperUntil, ProperDeed, Deeds, Acting,
     Physical, Plain, Answers, Workers, Aiming, Exact, Blind, Typed

LEMMA ScrollIsProper ==
  \A n \in DOMAIN Scroll : ProperStep("scroll", n, Scroll[n], DOMAIN Scroll)
  BY DEF Scroll, Input, IfNamed, Ask, Do, DoUntil, AskFront, BringToFront, ProperStep,
     ProperAsk, ProperDo, ProperUntil, ProperDeed, Deeds, Acting, Physical,
     Plain, Answers, Workers, Aiming, Exact, Blind, Typed

LEMMA DragIsProper ==
  \A n \in DOMAIN Drag : ProperStep("drag", n, Drag[n], DOMAIN Drag)
  BY DEF Drag, Input, IfNamed, Ask, Do, DoUntil, AskFront, BringToFront, ProperStep,
     ProperAsk, ProperDo, ProperUntil, ProperDeed, Deeds, Acting, Physical,
     Plain, Answers, Workers, Aiming, Exact, Blind, Typed

LEMMA HoverIsProper ==
  \A n \in DOMAIN Hover : ProperStep("hover", n, Hover[n], DOMAIN Hover)
  BY DEF Hover, IfNamed, Ask, Do, DoUntil, AskFront, BringToFront, ProperStep,
     ProperAsk, ProperDo, ProperUntil, ProperDeed, Deeds, Acting, Physical,
     Plain, Answers, Workers, Aiming, Exact, Blind, Typed

LEMMA HoverAtIsProper ==
  \A n \in DOMAIN HoverAt : ProperStep("hoverAt", n, HoverAt[n], DOMAIN HoverAt)
  BY DEF HoverAt, Ask, Do, ProperStep, ProperAsk, ProperDo, ProperUntil, ProperDeed,
     Deeds, Acting, Physical, Plain, Answers, Workers, Aiming, Exact, Blind, Typed

LEMMA AppIsProper ==
  \A n \in DOMAIN App : ProperStep("app", n, App[n], DOMAIN App)
  BY DEF App, Ask, Do, DoUntil, ProperStep, ProperAsk, ProperDo, ProperUntil,
     ProperDeed, Deeds, Acting, Physical, Plain, Answers, Workers, Aiming,
     Exact, Blind, Typed

LEMMA WindowFocusIsProper ==
  \A n \in DOMAIN WindowFocus : ProperStep("focusWindow", n, WindowFocus[n], DOMAIN WindowFocus)
  BY DEF WindowFocus, Ask, Do, DoUntil, AskFront, BringToFront, ProperStep,
     ProperAsk, ProperDo, ProperUntil, ProperDeed, Deeds, Acting, Physical,
     Plain, Answers, Workers, Aiming, Exact, Blind, Typed

LEMMA WindowChangeIsProper ==
  \A n \in DOMAIN WindowChange : ProperStep("window", n, WindowChange[n], DOMAIN WindowChange)
  BY DEF WindowChange, Ask, Do, DoUntil, ProperStep, ProperAsk, ProperDo,
     ProperUntil, ProperDeed, Deeds, Acting, Physical, Plain, Answers,
     Workers, Aiming, Exact, Blind, Typed

LEMMA NewTabIsProper ==
  \A n \in DOMAIN NewTab : ProperStep("newTab", n, NewTab[n], DOMAIN NewTab)
  <1> USE DEF NewTab, Ask, Do, DoUntil, AskFront, BringToFront, AskActive,
          FindWindow, RaiseWindow, SelectTab, AskSelected, ProperStep,
          ProperAsk, ProperDo, ProperUntil, ProperDeed, Deeds, Acting,
          Physical, Plain, Answers, Workers, Aiming, Exact, Blind, Typed
  <1>1. DOMAIN NewTab = {"start", "active", "front", "activate", "window",
          "raise", "select", "selected", "open"}
    OBVIOUS
  <1>2. ProperStep("newTab", "start", NewTab["start"], DOMAIN NewTab)
    BY <1>1
  <1>3. ProperStep("newTab", "active", NewTab["active"], DOMAIN NewTab)
    BY <1>1
  <1>4. ProperStep("newTab", "front", NewTab["front"], DOMAIN NewTab)
    BY <1>1
  <1>5. ProperStep("newTab", "activate", NewTab["activate"], DOMAIN NewTab)
    BY <1>1
  <1>6. ProperStep("newTab", "window", NewTab["window"], DOMAIN NewTab)
    BY <1>1
  <1>7. ProperStep("newTab", "raise", NewTab["raise"], DOMAIN NewTab)
    BY <1>1
  <1>8. ProperStep("newTab", "select", NewTab["select"], DOMAIN NewTab)
    BY <1>1
  <1>9. ProperStep("newTab", "selected", NewTab["selected"], DOMAIN NewTab)
    BY <1>1
  <1>10. ProperStep("newTab", "open", NewTab["open"], DOMAIN NewTab)
    BY <1>1
  <1> HIDE DEF NewTab, ProperStep
  <1> QED BY <1>1, <1>2, <1>3, <1>4, <1>5, <1>6, <1>7, <1>8, <1>9, <1>10

LEMMA CloseTabIsProper ==
  \A n \in DOMAIN CloseTab : ProperStep("closeTab", n, CloseTab[n], DOMAIN CloseTab)
  <1> USE DEF CloseTab, Ask, Do, DoUntil, AskFront, BringToFront, AskActive,
          FindWindow, RaiseWindow, SelectTab, AskSelected, ProperStep,
          ProperAsk, ProperDo, ProperUntil, ProperDeed, Deeds, Acting,
          Physical, Plain, Answers, Workers, Aiming, Exact, Blind, Typed
  <1>1. DOMAIN CloseTab = {"start", "active", "front", "activate", "window",
          "raise", "select", "selected", "available", "exact", "send"}
    OBVIOUS
  <1>2. ProperStep("closeTab", "start", CloseTab["start"], DOMAIN CloseTab)
    BY <1>1
  <1>3. ProperStep("closeTab", "active", CloseTab["active"], DOMAIN CloseTab)
    BY <1>1
  <1>4. ProperStep("closeTab", "front", CloseTab["front"], DOMAIN CloseTab)
    BY <1>1
  <1>5. ProperStep("closeTab", "activate", CloseTab["activate"], DOMAIN CloseTab)
    BY <1>1
  <1>6. ProperStep("closeTab", "window", CloseTab["window"], DOMAIN CloseTab)
    BY <1>1
  <1>7. ProperStep("closeTab", "raise", CloseTab["raise"], DOMAIN CloseTab)
    BY <1>1
  <1>8. ProperStep("closeTab", "select", CloseTab["select"], DOMAIN CloseTab)
    BY <1>1
  <1>9. ProperStep("closeTab", "selected", CloseTab["selected"], DOMAIN CloseTab)
    BY <1>1
  <1>10. ProperStep("closeTab", "available", CloseTab["available"], DOMAIN CloseTab)
    BY <1>1
  <1>11. ProperStep("closeTab", "exact", CloseTab["exact"], DOMAIN CloseTab)
    BY <1>1
  <1>12. ProperStep("closeTab", "send", CloseTab["send"], DOMAIN CloseTab)
    BY <1>1
  <1> HIDE DEF CloseTab, ProperStep
  <1> QED BY <1>1, <1>2, <1>3, <1>4, <1>5, <1>6, <1>7, <1>8, <1>9, <1>10,
             <1>11, <1>12

LEMMA ScriptsAreProperSteps ==
  ASSUME NEW tool \in ToolNames, NEW n \in DOMAIN Script(tool)
  PROVE  ProperStep(tool, n, Script(tool)[n], DOMAIN Script(tool))
  <1>1. Script("click") = Click
    BY DEF Script
  <1>2. Script("clickAt") = ClickAt
    BY DEF Script
  <1>3. Script("type") = Type
    BY DEF Script
  <1>4. Script("key") = PressKey
    BY DEF Script
  <1>5. Script("scroll") = Scroll
    BY DEF Script
  <1>6. Script("drag") = Drag
    BY DEF Script
  <1>7. Script("hover") = Hover
    BY DEF Script
  <1>8. Script("app") = App
    BY DEF Script
  <1>9. Script("focusWindow") = WindowFocus
    BY DEF Script
  <1>10. Script("window") = WindowChange
    BY DEF Script
  <1>11. Script("newTab") = NewTab
    BY DEF Script
  <1>12. Script("closeTab") = CloseTab
    BY DEF Script
  <1>13. Script("hoverAt") = HoverAt
    BY DEF Script
  <1> QED BY <1>1, <1>2, <1>3, <1>4, <1>5, <1>6, <1>7, <1>8, <1>9, <1>10, <1>11, <1>12,
             <1>13, ClickIsProper, ClickAtIsProper, TypeIsProper, PressKeyIsProper,
             ScrollIsProper, DragIsProper, HoverIsProper, HoverAtIsProper, AppIsProper,
             WindowFocusIsProper, WindowChangeIsProper, NewTabIsProper, CloseTabIsProper
             DEF ToolNames

LEMMA StartsThere ==
  ASSUME NEW tool \in ToolNames
  PROVE  "start" \in DOMAIN Script(tool)
  <1>1. /\ "start" \in DOMAIN Click /\ "start" \in DOMAIN ClickAt /\ "start" \in DOMAIN Type
        /\ "start" \in DOMAIN PressKey /\ "start" \in DOMAIN Scroll /\ "start" \in DOMAIN Drag
        /\ "start" \in DOMAIN Hover /\ "start" \in DOMAIN App /\ "start" \in DOMAIN WindowFocus
        /\ "start" \in DOMAIN WindowChange /\ "start" \in DOMAIN NewTab
        /\ "start" \in DOMAIN CloseTab /\ "start" \in DOMAIN HoverAt
    BY DEF Click, ClickAt, Type, PressKey, Scroll, Drag, Input, Hover, HoverAt, App,
           WindowFocus, WindowChange, NewTab, CloseTab
  <1> QED BY <1>1 DEF Script, ToolNames

(* The step of a call at work is a proper one, and where it leads is a     *)
(* place of the same tool or a plain answer.                               *)
LEMMA HereIsProper ==
  ASSUME LaneInv, NEW c \in Clients, InLane(c)
  PROVE  /\ calls[c] \in LaneCalls /\ calls[c].tool \in Tools[c] /\ calls[c].tool \in ToolNames
         /\ calls[c].at \in DOMAIN Script(calls[c].tool)
         /\ ProperStep(calls[c].tool, calls[c].at, Here(c), DOMAIN Script(calls[c].tool))
  <1>1. calls[c] \in LaneCalls
    BY DEF LaneInv, NativeTypeOK
  <1>2. /\ calls[c].tool \in Tools[c] /\ calls[c].tool \in ToolNames
        /\ calls[c].at \in DOMAIN Script(calls[c].tool)
    BY NativeAssumption DEF LaneInv, AtStep
  <1> QED BY <1>1, <1>2, ScriptsAreProperSteps DEF Here

LEMMA WhereStepsLead ==
  ASSUME LaneInv, NEW c \in Clients, InLane(c), NEW m \in Here(c).yes \cup Here(c).no
  PROVE  m \in DOMAIN Script(calls[c].tool) \cup Plain
  BY HereIsProper DEF ProperStep

LEMMA PlacesOfTools ==
  ASSUME NEW tool \in ToolNames
  PROVE  /\ DOMAIN Script(tool) \subseteq Places
         /\ DOMAIN Script(tool) \cap (Answers \cup {"idle"}) = {}
         /\ Answers \subseteq Places /\ Plain \subseteq Answers
  <1>1. \A n \in DOMAIN Script(tool) : n \notin Answers \cup {"idle"}
    BY ScriptsAreProperSteps DEF ProperStep
  <1>2. DOMAIN Script(tool) \in {DOMAIN Script(t) : t \in ToolNames}
    OBVIOUS
  <1>3. DOMAIN Script(tool) \subseteq Places
    BY <1>2 DEF Places, ToolPlaces
  <1>4. Answers \subseteq Places
    BY DEF Places
  <1>5. Plain \subseteq Answers
    BY DEF Plain
  <1> QED BY <1>1, <1>3, <1>4, <1>5

(* Only the worker of its step can carry something out for a call at work, *)
(* and only while it waits for that.                                       *)
LEMMA NothingOutstanding ==
  ASSUME LaneInv, NEW c \in Clients, InLane(c),
         Here(c).kind = "ask" \/ calls[c].phase # "waiting"
  PROVE  \A w \in Workers : thread[w] = NoTask
  <1> SUFFICES ASSUME NEW w \in Workers, Busy(w) PROVE FALSE
    BY DEF Busy
  <1>1. thread[w].by = c
    BY DEF LaneInv, OneAtATime
  <1> QED BY <1>1 DEF LaneInv, AtStep

(* Forgetting the snapshots that a call concerns leaves none that its      *)
(* effect would have to be in, and none of the others appears.             *)
LEMMA ForgetShows ==
  ASSUME LaneInv, NEW c \in Clients, Forget(c), os'.effects = os.effects,
         \A d \in Clients \ {c} : calls'[d] = calls[d],
         calls'[c].tool = calls[c].tool, calls'[c].pid = calls[c].pid
  PROVE  /\ \A d \in Clients : Shown(d)'
         /\ store' \in SUBSET Readings /\ reading' \in Readings \cup {Nobody}
  <1> DEFINE gone == IF calls[c].at = "open" THEN Apps ELSE Concerns(c)
  <1>1. /\ store \in SUBSET Readings /\ reading \in Readings \cup {Nobody}
        /\ AppOf \in [Clients -> Apps]
    BY NativeAssumption DEF LaneInv, NativeTypeOK
  <1>2. Concerns(c) \subseteq gone
    BY <1>1 DEF Concerns
  <1>3. \A d \in Clients : Concerns(d)' = Concerns(d)
    BY DEF Concerns
  <1>4. store' = {s \in store : s.app \notin gone}
    BY DEF Forget
  <1>5. /\ reading = Nobody => reading' = Nobody
        /\ reading # Nobody =>
             /\ reading' \in Readings
             /\ reading'.app = reading.app /\ reading'.sees = reading.sees
             /\ reading.raced => reading'.raced
             /\ reading.app \in gone => reading'.raced
    BY <1>1, NativeAssumption DEF Forget, Readings
  <1> HIDE DEF gone
  <1>6. ASSUME NEW d \in Clients \ {c} PROVE Shown(d)'
    <2>1. Shown(d)
      BY DEF LaneInv
    <2> QED BY <1>3, <1>4, <1>5, <1>6, <2>1 DEF Shown, ShownTo
  <1>7. Shown(c)'
    BY <1>2, <1>3, <1>4, <1>5 DEF Shown, ShownTo
  <1> QED BY <1>1, <1>4, <1>5, <1>6, <1>7

LEMMA NothingForgotten ==
  ASSUME LaneInv, NEW c \in Clients, os'.effects = os.effects, UNCHANGED <<store, reading>>,
         \A d \in Clients \ {c} : calls'[d] = calls[d],
         calls'[c].at # "unknown",
         calls'[c].at = "done" => calls'[c].tool \notin Invalidating
  PROVE  /\ \A d \in Clients : Shown(d)'
         /\ store' \in SUBSET Readings /\ reading' \in Readings \cup {Nobody}
  <1>1. \A d \in Clients : Shown(d)
    BY DEF LaneInv
  <1>2. \A d \in Clients \ {c} : Concerns(d)' = Concerns(d)
    BY DEF Concerns
  <1> QED BY <1>1, <1>2 DEF LaneInv, NativeTypeOK, Shown, ShownTo

(* A call with nothing outstanding goes on to a place of its tool or to a  *)
(* plain answer, after which the snapshots are forgotten where they have   *)
(* to be.                                                                  *)
LEMMA GoesOn ==
  ASSUME LaneInv, NEW c \in Clients, InLane(c), \A w \in Workers : thread[w] = NoTask,
         NEW m \in DOMAIN Script(calls[c].tool) \cup Plain,
         UNCHANGED <<os, coming, thread, poison>>, calls' \in [Clients -> LaneCalls],
         \A d \in Clients \ {c} : calls'[d] = calls[d],
         calls'[c].tool = calls[c].tool, calls'[c].pid = calls[c].pid, calls'[c].at = m,
         Fits(calls[c].tool, m, calls'[c].acted),
         \/ Forget(c)
         \/ UNCHANGED <<store, reading>> /\ (m = "done" => calls[c].tool \notin Invalidating)
  PROVE  LaneInv'
  <1>1. /\ calls[c] \in LaneCalls /\ calls[c].tool \in ToolNames /\ calls[c].tool \in Tools[c]
        /\ DOMAIN Script(calls[c].tool) \cap (Answers \cup {"idle"}) = {}
        /\ Plain \subseteq Answers
    BY HereIsProper, PlacesOfTools
  <1>2. m \notin {"idle", "unknown"}
    BY <1>1 DEF Plain, Answers
  <1>3. /\ \A d \in Clients : Shown(d)'
        /\ store' \in SUBSET Readings /\ reading' \in Readings \cup {Nobody}
    <2>1. CASE Forget(c)
      BY <2>1, ForgetShows
    <2>2. CASE UNCHANGED <<store, reading>> /\ (m = "done" => calls[c].tool \notin Invalidating)
      BY <2>2, <1>2, NothingForgotten
    <2> QED BY <2>1, <2>2
  <1>4. NativeTypeOK'
    BY <1>3 DEF LaneInv, NativeTypeOK
  <1>5. \A d \in Clients \ {c} : InLane(d)' = InLane(d)
    BY DEF InLane
  <1>6. OneAtATime'
    <2>1. \A d \in Clients : InLane(d)' => InLane(d)
      BY <1>5
    <2>2. \A w \in Workers : ~Busy(w)'
      BY DEF Busy
    <2> QED BY <2>1, <2>2 DEF LaneInv, OneAtATime
  <1>7. \A w \in Workers : thread'[w].by \notin Clients
    BY NativeAssumption DEF NoTask
  <1>8. AtStep(c)'
    <2>1. Fits(calls[c].tool, calls[c].at, calls[c].acted)'
      BY DEF Fits, Typed
    <2> QED BY <1>1, <1>2, <1>7, <2>1 DEF AtStep, InLane
  <1>9. ASSUME NEW d \in Clients \ {c} PROVE AtStep(d)'
    <2>1. AtStep(d)
      BY DEF LaneInv
    <2>2. Fits(calls[d].tool, calls[d].at, calls[d].acted)'
      BY <1>9, <2>1 DEF AtStep, Fits, Typed
    <2> QED BY <2>1, <2>2, <1>5, <1>7, <1>9 DEF AtStep
  <1> QED BY <1>3, <1>4, <1>6, <1>8, <1>9 DEF LaneInv

-----------------------------------------------------------------------------
(* One lemma for each action.                                              *)
LEMMA LaneInit ==
  ASSUME NativeInit
  PROVE  LaneInv
  <1>1. NativeTypeOK
    <2>1. "idle" \in Places
      BY DEF Places
    <2>2. NoCall \in LaneCalls
      BY <2>1 DEF NoCall, LaneCalls
    <2> QED BY <2>2, NativeAssumption DEF NativeInit, NativeTypeOK, Desktops
  <1>2. \A c \in Clients : calls[c] = NoCall /\ ~InLane(c)
    BY DEF NativeInit, NoCall, InLane
  <1>3. \A w \in Workers : thread[w] = NoTask /\ thread[w].by \notin Clients
    BY NativeAssumption DEF NativeInit, NoTask
  <1>4. OneAtATime
    BY <1>2, <1>3 DEF OneAtATime, Busy
  <1>5. ASSUME NEW c \in Clients PROVE AtStep(c)
    <2>1. calls[c].at = "idle" /\ coming = {}
      BY <1>2 DEF NoCall, NativeInit
    <2> QED BY <1>2, <1>3, <2>1 DEF AtStep, Fits
  <1>6. \A c \in Clients : Shown(c)
    BY DEF NativeInit, Shown
  <1> QED BY <1>1, <1>4, <1>5, <1>6 DEF LaneInv

LEMMA EnterKeeps ==
  ASSUME LaneInv, NEW c \in Clients, NEW tool \in Tools[c], Enter(c, tool)
  PROVE  LaneInv'
  <1>1. /\ calls[c] = NoCall /\ calls \in [Clients -> LaneCalls] /\ tool \in ToolNames
        /\ \A d \in Clients : ~InLane(d)
    BY NativeAssumption DEF LaneInv, NativeTypeOK, AtStep, Enter
  <1>2. PICK m \in {"error", "start"}, named \in BOOLEAN :
          /\ calls' = [calls EXCEPT ![c].tool = tool, ![c].pid = named, ![c].at = m]
          /\ m = "start" => ~Poisoned
    BY DEF Enter
  <1>3. /\ calls'[c] = [NoCall EXCEPT !.tool = tool, !.pid = named, !.at = m]
        /\ \A d \in Clients \ {c} : calls'[d] = calls[d]
    BY <1>1, <1>2
  <1>4. /\ DOMAIN Script(tool) \subseteq Places /\ "start" \in DOMAIN Script(tool)
        /\ "start" \notin Answers \cup {"idle"} /\ "error" \in Answers /\ Answers \subseteq Places
    BY <1>1, PlacesOfTools, StartsThere DEF Answers
  <1>5. calls' \in [Clients -> LaneCalls]
    <2>1. m \in Places
      BY <1>2, <1>4
    <2>2. calls[c] \in LaneCalls
      BY <1>1
    <2> QED BY <1>1, <1>2, <2>1, <2>2 DEF LaneCalls
  <1>6. UNCHANGED <<os, coming, thread, poison, store, reading>>
    BY DEF Enter
  <1>7. \A w \in Workers : thread[w].by # c
    <2>1. AtStep(c)
      BY DEF LaneInv
    <2> QED BY <1>1, <2>1 DEF AtStep, NoCall
  <1>8. m = "start" => \A w \in Workers : ~Busy(w)
    BY <1>1, <1>2 DEF LaneInv, OneAtATime, Poisoned, Busy, NativeTypeOK, NoTask
  <1>9. /\ InLane(c)' => m = "start"
        /\ \A d \in Clients \ {c} : ~InLane(d)'
    BY <1>1, <1>3, <1>4 DEF InLane, NoCall
  <1>10. NativeTypeOK'
    BY <1>5, <1>6 DEF LaneInv, NativeTypeOK
  <1>11. OneAtATime'
    <2>1. \A d, e \in Clients : InLane(d)' /\ InLane(e)' => d = e
      BY <1>9
    <2>2. \A w \in Workers, d \in Clients : Busy(w)' /\ InLane(d)' => FALSE
      BY <1>6, <1>8, <1>9 DEF Busy
    <2>3. \A w \in Workers : Busy(w)' => Busy(w) /\ w \in poison'
      BY <1>1, <1>6 DEF Busy, LaneInv, OneAtATime, NativeTypeOK
    <2> QED BY <2>1, <2>2, <2>3 DEF LaneInv, OneAtATime
  <1>12. AtStep(c)'
    <2>1. calls'[c].at = m /\ calls'[c].tool = tool /\ calls'[c].acted = FALSE
      BY <1>3 DEF NoCall
    <2>2. Fits(calls[c].tool, calls[c].at, calls[c].acted)'
      BY <2>1 DEF Fits, Typed
    <2> QED BY <1>4, <1>6, <1>7, <1>9, <2>1, <2>2 DEF AtStep, Plain
  <1>13. ASSUME NEW d \in Clients \ {c} PROVE AtStep(d)'
    <2>1. AtStep(d)
      BY DEF LaneInv
    <2>2. Fits(calls[d].tool, calls[d].at, calls[d].acted)'
      BY <1>3, <1>13, <2>1 DEF AtStep, Fits, Typed
    <2> QED BY <2>1, <2>2, <1>3, <1>6, <1>9, <1>13 DEF AtStep
  <1>14. \A d \in Clients : Shown(d)'
    <2>1. calls'[c].at \notin {"unknown", "done"}
      BY <1>3 DEF NoCall
    <2> QED BY <1>3, <1>6, <2>1, NothingForgotten
  <1> QED BY <1>10, <1>11, <1>12, <1>13, <1>14 DEF LaneInv

(* AskStep leads to m for one of the answers.                              *)
AskedTo(c, answer, m) ==
  /\ calls' = [calls EXCEPT
       ![c].at = m,
       ![c].proof = IF answer /\ Here(c).asks \in {"front", "active"} THEN "held" ELSE @,
       ![c].acted = (@ /\ (answer \/ Here(c).asks # "typed")) \/ (answer /\ m = "done")]
  /\ Ending(c, m)

LEMMA AskStepKeeps ==
  ASSUME LaneInv, NEW c \in Clients, AskStep(c)
  PROVE  LaneInv'
  <1>1. /\ InLane(c) /\ Here(c).kind = "ask" /\ calls \in [Clients -> LaneCalls]
        /\ calls[c] \in LaneCalls /\ calls[c].tool \in ToolNames
        /\ ProperStep(calls[c].tool, calls[c].at, Here(c), DOMAIN Script(calls[c].tool))
        /\ UNCHANGED <<os, coming, thread, poison>>
    BY HereIsProper DEF AskStep, LaneInv, NativeTypeOK
  <1>2. PICK answer \in Holds(c, Here(c).asks) :
          \E m \in IF answer THEN Here(c).yes ELSE Here(c).no : AskedTo(c, answer, m)
    BY DEF AskStep, AskedTo
  <1>3. PICK m \in IF answer THEN Here(c).yes ELSE Here(c).no : AskedTo(c, answer, m)
    BY <1>2
  <1>4. m \in DOMAIN Script(calls[c].tool) \cup Plain
    BY <1>1, <1>3, WhereStepsLead
  <1>5. m \in Places
    BY <1>1, <1>4, PlacesOfTools
  <1>6. answer \in BOOLEAN
    BY <1>1, <1>2 DEF Holds, LaneCalls
  <1> DEFINE acted == \/ calls[c].acted /\ (answer \/ Here(c).asks # "typed")
                      \/ answer /\ m = "done"
  <1>7. /\ calls' \in [Clients -> LaneCalls] /\ \A d \in Clients \ {c} : calls'[d] = calls[d]
        /\ calls'[c].tool = calls[c].tool /\ calls'[c].at = m /\ calls'[c].pid = calls[c].pid
        /\ calls'[c].acted = acted
    BY <1>1, <1>3, <1>5, <1>6 DEF LaneCalls, AskedTo
  <1>8. Fits(calls[c].tool, m, acted)
    <2>1. calls[c].acted <=> calls[c].at \in Typed(calls[c].tool)
      BY <1>1 DEF LaneInv, AtStep, Fits, InLane
    <2>2. /\ m \notin Typed(calls[c].tool)
          /\ calls[c].at \in Typed(calls[c].tool) => Here(c).asks = "typed" /\ Here(c).yes = {"done"}
          /\ m = "done" => answer
      BY <1>1, <1>3, <1>6 DEF ProperStep, ProperAsk
    <2>3. acted <=> m = "done"
      <3>1. calls[c].acted /\ (answer \/ Here(c).asks # "typed") => m = "done"
        BY <1>3, <2>1, <2>2
      <3> QED BY <2>2, <3>1
    <2> QED BY <2>2, <2>3 DEF Fits, Answers
  <1> HIDE DEF acted
  <1> QED BY <1>1, <1>3, <1>4, <1>7, <1>8, NothingOutstanding, GoesOn DEF AskedTo, Ending

LEMMA DispatchKeeps ==
  ASSUME LaneInv, NEW c \in Clients, Dispatch(c)
  PROVE  LaneInv'
  <1>1. /\ InLane(c) /\ Here(c).kind # "ask" /\ calls[c].phase = "ready"
        /\ calls \in [Clients -> LaneCalls] /\ calls[c] \in LaneCalls
        /\ Here(c).worker \in Workers /\ Here(c).does \in Deeds
        /\ UNCHANGED <<os, coming, poison, store, reading>>
        /\ thread' = [thread EXCEPT ![Here(c).worker] = [by |-> c, does |-> Here(c).does]]
        /\ calls' = [calls EXCEPT ![c].phase = "waiting"]
    BY HereIsProper DEF Dispatch, LaneInv, NativeTypeOK, ProperStep
  <1>2. /\ \A w \in Workers : thread[w] = NoTask
        /\ thread \in [Workers -> [by : Clients, does : Deeds] \cup {NoTask}]
    BY <1>1, NothingOutstanding DEF LaneInv, NativeTypeOK
  <1>3. /\ calls' \in [Clients -> LaneCalls] /\ \A d \in Clients \ {c} : calls'[d] = calls[d]
        /\ calls'[c] = [calls[c] EXCEPT !.phase = "waiting"]
    BY <1>1 DEF LaneCalls
  <1>4. /\ calls'[c].phase = "waiting"
        /\ calls'[c].tool = calls[c].tool /\ calls'[c].at = calls[c].at
        /\ calls'[c].late = calls[c].late /\ calls'[c].acted = calls[c].acted
    BY <1>1, <1>3 DEF LaneCalls
  <1>5. /\ \A d \in Clients : InLane(d)' = InLane(d)
        /\ Here(c)' = Here(c)
    BY <1>3, <1>4 DEF InLane, Here
  <1>6. /\ thread'[Here(c).worker] = [by |-> c, does |-> Here(c).does]
        /\ \A w \in Workers \ {Here(c).worker} : thread'[w] = NoTask
        /\ thread' \in [Workers -> [by : Clients, does : Deeds] \cup {NoTask}]
    BY <1>1, <1>2
  <1>7. NativeTypeOK'
    BY <1>1, <1>3, <1>6 DEF LaneInv, NativeTypeOK
  <1>8. OneAtATime'
    <2>1. \A w \in Workers : Busy(w)' => w = Here(c).worker /\ thread'[w].by = c
      BY <1>6 DEF Busy
    <2> QED BY <1>1, <1>5, <2>1 DEF LaneInv, OneAtATime
  <1>9. calls[c].at \notin Answers \cup {"idle"}
    BY <1>1 DEF InLane
  <1>10. AtStep(c)'
    <2>1. \A w \in Workers : thread'[w].by = c => w = Here(c).worker
      BY <1>6, NativeAssumption DEF NoTask
    <2>2. AtStep(c)
      BY DEF LaneInv
    <2>3. Fits(calls[c].tool, calls[c].at, calls[c].acted)'
      BY <1>4, <2>2 DEF AtStep, Fits, Typed
    <2> QED BY <1>1, <1>4, <1>5, <1>6, <1>9, <2>1, <2>2, <2>3 DEF AtStep, Plain, Answers
  <1>11. ASSUME NEW d \in Clients \ {c} PROVE AtStep(d)'
    <2>1. \A w \in Workers : thread'[w].by # d
      BY <1>6, <1>11, NativeAssumption DEF NoTask
    <2>2. AtStep(d)
      BY DEF LaneInv
    <2>3. Fits(calls[d].tool, calls[d].at, calls[d].acted)'
      BY <1>3, <1>11, <2>2 DEF AtStep, Fits, Typed
    <2> QED BY <1>1, <1>3, <1>5, <1>11, <2>1, <2>2, <2>3 DEF AtStep
  <1>12. \A d \in Clients : Shown(d)'
    <2>1. calls'[c].at \notin {"unknown", "done"}
      BY <1>4, <1>9 DEF Answers
    <2> QED BY <1>1, <1>3, <1>4, <2>1, NothingForgotten
  <1> QED BY <1>7, <1>8, <1>10, <1>11, <1>12 DEF LaneInv

\* What has been reported done when a step ends.
ActedNow(c) ==
  \/ calls[c].acted
  \/ Here(c).kind = "do" /\ calls[c].phase = "returned" /\ calls[c].result

LEMMA GoToKeeps ==
  ASSUME LaneInv, NEW c \in Clients, InLane(c),
         Here(c).kind = "ask" \/ calls[c].phase # "waiting",
         NEW m \in DOMAIN Script(calls[c].tool) \cup Plain, GoTo(c, m),
         UNCHANGED <<os, coming, thread, poison>>,
         Fits(calls[c].tool, m, ActedNow(c))
  PROVE  LaneInv'
  <1>1. /\ calls \in [Clients -> LaneCalls] /\ calls[c] \in LaneCalls /\ calls[c].tool \in ToolNames
        /\ m \in Places
    BY HereIsProper, PlacesOfTools DEF LaneInv, NativeTypeOK
  <1>2. /\ calls' = [calls EXCEPT ![c].at = m, ![c].phase = "ready", ![c].result = FALSE,
                       ![c].acted = ActedNow(c)]
        /\ Ending(c, m)
    BY DEF GoTo, ActedNow
  <1>3. ActedNow(c) \in BOOLEAN
    BY <1>1 DEF ActedNow, LaneCalls
  <1>4. /\ calls' \in [Clients -> LaneCalls] /\ \A d \in Clients \ {c} : calls'[d] = calls[d]
        /\ calls'[c].tool = calls[c].tool /\ calls'[c].at = m /\ calls'[c].pid = calls[c].pid
        /\ calls'[c].acted = ActedNow(c)
    BY <1>1, <1>2, <1>3 DEF LaneCalls
  <1> QED BY <1>1, <1>2, <1>4, NothingOutstanding, GoesOn DEF Ending

LEMMA ReturnKeeps ==
  ASSUME LaneInv, NEW c \in Clients, Return(c)
  PROVE  LaneInv'
  <1>1. /\ InLane(c) /\ calls[c].phase = "returned" /\ Here(c).kind = "do"
        /\ UNCHANGED <<os, coming, thread, poison>>
    BY DEF Return
  <1>2. PICK m \in IF calls[c].result THEN Here(c).yes ELSE Here(c).no : GoTo(c, m)
    BY DEF Return
  <1>3. /\ calls[c].tool \in ToolNames /\ calls[c].result \in BOOLEAN
        /\ ProperStep(calls[c].tool, calls[c].at, Here(c), DOMAIN Script(calls[c].tool))
    BY <1>1, HereIsProper DEF LaneCalls
  <1>4. m \in DOMAIN Script(calls[c].tool) \cup Plain
    BY <1>1, <1>2, WhereStepsLead
  <1>5. calls[c].acted <=> calls[c].at \in Typed(calls[c].tool)
    BY <1>1 DEF LaneInv, AtStep, Fits, InLane
  <1>6. Fits(calls[c].tool, m, ActedNow(c))
    <2>1. CASE calls[c].result
      <3>1. m \in {"done"} \cup Typed(calls[c].tool) /\ ActedNow(c) = TRUE
        BY <1>1, <1>2, <1>3, <2>1 DEF ProperStep, ProperDo, ActedNow
      <3> QED BY <3>1 DEF Fits, Typed, Answers
    <2>2. CASE ~calls[c].result
      <3>1. ActedNow(c) <=> calls[c].at \in Typed(calls[c].tool)
        BY <1>5, <2>2 DEF ActedNow
      <3>2. /\ m \notin Typed(calls[c].tool)
            /\ m = "done" => calls[c].at \in Typed(calls[c].tool)
            /\ calls[c].at \in Typed(calls[c].tool) => m = "done"
        BY <1>1, <1>2, <1>3, <2>2 DEF ProperStep, ProperDo
      <3> QED BY <3>1, <3>2 DEF Fits, Answers
    <2> QED BY <2>1, <2>2
  <1> QED BY <1>1, <1>2, <1>4, <1>6, GoToKeeps

LEMMA ConfirmKeeps ==
  ASSUME LaneInv, NEW c \in Clients, Confirm(c)
  PROVE  LaneInv'
  <1>1. /\ InLane(c) /\ calls[c].phase = "returned" /\ Here(c).kind = "until"
        /\ UNCHANGED <<os, coming, thread, poison>>
        /\ calls \in [Clients -> LaneCalls]
    BY DEF Confirm, LaneInv, NativeTypeOK
  <1>2. /\ calls[c] \in LaneCalls /\ calls[c].tool \in ToolNames
        /\ ProperStep(calls[c].tool, calls[c].at, Here(c), DOMAIN Script(calls[c].tool))
    BY <1>1, HereIsProper
  <1>3. ~calls[c].acted
    <2>1. calls[c].acted => calls[c].at \in Typed(calls[c].tool)
      BY <1>1 DEF LaneInv, AtStep, Fits, InLane
    <2> QED BY <1>1, <1>2, <2>1 DEF ProperStep, ProperUntil
  <1>4. ASSUME NEW m \in Here(c).yes,
               calls' = [calls EXCEPT
                  ![c].at = m, ![c].phase = "ready", ![c].result = FALSE,
                  ![c].proof = IF Here(c).asks \in {"front", "active", "focused"} THEN "held" ELSE @,
                  ![c].acted = @ \/ m = "done"],
               Ending(c, m)
        PROVE  LaneInv'
    <2>1. m \in DOMAIN Script(calls[c].tool) \cup Plain
      BY <1>1, <1>4, WhereStepsLead
    <2>2. m \in Places
      BY <1>2, <2>1, PlacesOfTools
    <2>3. /\ calls' \in [Clients -> LaneCalls] /\ \A d \in Clients \ {c} : calls'[d] = calls[d]
          /\ calls'[c].tool = calls[c].tool /\ calls'[c].at = m /\ calls'[c].pid = calls[c].pid
          /\ calls'[c].acted = (calls[c].acted \/ m = "done")
      BY <1>1, <1>2, <1>4, <2>2 DEF LaneCalls
    <2>4. m \notin Typed(calls[c].tool)
      BY <1>1, <1>2, <1>4 DEF ProperStep, ProperUntil
    <2>5. Fits(calls[c].tool, m, calls'[c].acted)
      BY <1>3, <2>3, <2>4 DEF Fits, Answers
    <2> QED BY <1>1, <1>4, <2>1, <2>3, <2>5, NothingOutstanding, GoesOn DEF Ending
  <1>5. CASE \E m \in Here(c).no : GoTo(c, m)
    <2>1. PICK m \in Here(c).no : GoTo(c, m)
      BY <1>5
    <2>2. m \in DOMAIN Script(calls[c].tool) \cup Plain
      BY <1>1, <2>1, WhereStepsLead
    <2>3. Fits(calls[c].tool, m, ActedNow(c))
      BY <1>1, <1>2, <1>3, <2>1 DEF Fits, ActedNow, ProperStep
    <2> QED BY <1>1, <2>1, <2>2, <2>3, GoToKeeps
  <1> QED BY <1>4, <1>5 DEF Confirm

LEMMA GiveUpKeeps ==
  ASSUME LaneInv, NEW c \in Clients, GiveUp(c)
  PROVE  LaneInv'
  <1>1. /\ InLane(c) /\ UNCHANGED <<os, coming, thread>> /\ calls \in [Clients -> LaneCalls]
    BY DEF GiveUp, LaneInv, NativeTypeOK
  <1>2. /\ calls[c] \in LaneCalls /\ calls[c].tool \in ToolNames
        /\ Here(c).kind # "ask" => Here(c).worker \in Workers
        /\ DOMAIN Script(calls[c].tool) \cap Answers = {}
        /\ {"error", "unknown"} \subseteq Answers /\ Answers \subseteq Places /\ "error" \in Plain
    BY <1>1, HereIsProper, PlacesOfTools DEF Answers, Plain, ProperStep
  <1>3. CASE Here(c).kind = "ask" \/ calls[c].phase = "ready"
    <2>1. GoTo(c, "error") /\ UNCHANGED poison
      BY <1>3 DEF GiveUp
    <2>2. ActedNow(c) => calls[c].tool = "type"
      BY <1>1, <1>3 DEF ActedNow, LaneInv, AtStep, Fits, InLane, Typed
    <2>3. Fits(calls[c].tool, "error", ActedNow(c))
      BY <2>2 DEF Fits, Answers
    <2> QED BY <1>1, <1>2, <1>3, <2>1, <2>3, GoToKeeps
  <1>4. CASE ~(Here(c).kind = "ask" \/ calls[c].phase = "ready")
    <2>1. /\ calls' = [calls EXCEPT ![c].at = "unknown", ![c].phase = "ready", ![c].result = FALSE]
          /\ poison' = poison \cup {w \in {Here(c).worker} : thread[w] # NoTask}
          /\ Forget(c)
      BY <1>4 DEF GiveUp
    <2>2. /\ calls' \in [Clients -> LaneCalls] /\ \A d \in Clients \ {c} : calls'[d] = calls[d]
          /\ calls'[c].tool = calls[c].tool /\ calls'[c].at = "unknown"
          /\ calls'[c].pid = calls[c].pid
      BY <1>1, <1>2, <2>1 DEF LaneCalls
    <2>3. /\ \A d \in Clients : Shown(d)'
          /\ store' \in SUBSET Readings /\ reading' \in Readings \cup {Nobody}
      BY <1>1, <2>1, <2>2, ForgetShows
    <2>4. NativeTypeOK'
      <3>1. poison' \in SUBSET Workers
        BY <1>2, <1>4, <2>1 DEF LaneInv, NativeTypeOK
      <3> QED BY <1>1, <2>2, <2>3, <3>1 DEF LaneInv, NativeTypeOK
    <2>5. /\ ~InLane(c)' /\ \A d \in Clients \ {c} : InLane(d)' = InLane(d)
      BY <1>2, <2>2 DEF InLane
    <2>6. \A w \in Workers : thread[w].by = c /\ Busy(w) => w \in poison'
      BY <1>1, <2>1 DEF LaneInv, AtStep, Busy
    <2>7. OneAtATime'
      <3>1. \A w \in Workers : Busy(w)' = Busy(w)
        BY <1>1 DEF Busy
      <3>2. \A w \in Workers : Busy(w) => thread[w].by = c
        BY <1>1 DEF LaneInv, OneAtATime
      <3>3. \A d \in Clients : ~InLane(d)'
        BY <1>1, <2>5 DEF LaneInv, OneAtATime
      <3> QED BY <3>1, <3>2, <3>3, <2>6 DEF LaneInv, OneAtATime
    <2>8. AtStep(c)'
      BY <2>2, <2>5 DEF AtStep, Plain, Fits, Answers
    <2>9. ASSUME NEW d \in Clients \ {c} PROVE AtStep(d)'
      <3>1. AtStep(d)
        BY DEF LaneInv
      <3>2. ~InLane(d)'
        BY <1>1, <2>5, <2>9 DEF LaneInv, OneAtATime
      <3>3. Fits(calls[d].tool, calls[d].at, calls[d].acted)'
        BY <2>2, <2>9, <3>1 DEF AtStep, Fits, Typed
      <3> QED BY <1>1, <2>2, <2>9, <3>1, <3>2, <3>3 DEF AtStep
    <2> QED BY <2>3, <2>4, <2>7, <2>8, <2>9 DEF LaneInv
  <1> QED BY <1>3, <1>4

(* What may be in front or focused once a request is carried out.          *)
LEMMA AfterTypes ==
  ASSUME NativeTypeOK, NEW c \in Clients, NEW does, NEW o \in {os} \cup After(c, does)
  PROVE  /\ o.front \in Apps /\ o.focus \in [Apps -> Clients \cup {Nobody}]
         /\ o = [os EXCEPT !.front = o.front, !.focus = o.focus]
  <1>1. os \in Desktops /\ AppOf[c] \in Apps
    BY NativeAssumption DEF NativeTypeOK
  <1>2. CASE o = os
    BY <1>1, <1>2 DEF Desktops
  <1>3. CASE does = "front" /\ o = [os EXCEPT !.front = AppOf[c]]
    BY <1>1, <1>3 DEF Desktops
  <1>4. ASSUME NEW a \in Apps, NEW f \in Clients \cup {Nobody}, o = [os EXCEPT !.focus[a] = f]
        PROVE  /\ o.front \in Apps /\ o.focus \in [Apps -> Clients \cup {Nobody}]
               /\ o = [os EXCEPT !.front = o.front, !.focus = o.focus]
    BY <1>1, <1>4 DEF Desktops
  <1>5. CASE \E b \in Apps : o = [os EXCEPT !.front = b]
    BY <1>1, <1>5 DEF Desktops
  <1>6. os.focus[AppOf[c]] \in Clients \cup {Nobody} /\ os.front \in Apps
    BY <1>1 DEF Desktops
  <1> QED BY <1>1, <1>2, <1>3, <1>4, <1>5, <1>6 DEF After

(* What the return of a worker changes.                                    *)
LEMMA PerformEffect ==
  ASSUME LaneInv, NEW w \in Workers, NEW result \in BOOLEAN, Perform(w, result),
         NEW c, c = thread[w].by
  PROVE  /\ c \in Clients /\ thread[w].does \in Deeds
         /\ calls' \in [Clients -> LaneCalls] /\ \A d \in Clients \ {c} : calls'[d] = calls[d]
         /\ calls'[c].tool = calls[c].tool /\ calls'[c].at = calls[c].at
         /\ calls'[c].pid = calls[c].pid
         /\ calls'[c].proof = calls[c].proof /\ calls'[c].acted = calls[c].acted
         /\ calls[c].late \/ ~InLane(c) => calls'[c].late
         /\ os' = [os EXCEPT !.front = os'.front, !.focus = os'.focus, !.effects = os'.effects]
         /\ os'.front \in Apps /\ os'.focus \in [Apps -> Clients \cup {Nobody}]
         /\ os'.effects \in {os.effects, os.effects \cup {c}}
         /\ \E o \in {os} \cup After(c, thread[w].does) :
              os'.front = o.front /\ os'.focus = o.focus
         /\ coming' \in SUBSET [by : Clients, does : Requests]
         /\ \A r \in coming' : r \in coming \/ r.by = c
         /\ poison' = poison \ {w} /\ UNCHANGED <<store, reading>>
         /\ \A v \in Workers : thread'[v] = NoTask
  <1> DEFINE does == thread[w].does
  <1>1. /\ thread[w] # NoTask /\ thread' = [thread EXCEPT ![w] = NoTask]
        /\ calls \in [Clients -> LaneCalls]
        /\ thread \in [Workers -> [by : Clients, does : Deeds] \cup {NoTask}]
        /\ os \in Desktops /\ coming \in SUBSET [by : Clients, does : Requests]
        /\ poison' = poison \ {w} /\ UNCHANGED <<store, reading>>
    BY DEF Perform, LaneInv, NativeTypeOK
  <1>2. c \in Clients /\ does \in Deeds
    BY <1>1
  <1> DEFINE waits == InLane(c) /\ calls[c].phase = "waiting"
             effect == result \/ does \in Physical
  <1>3. calls' = [calls EXCEPT
                    ![c].phase = IF waits THEN "returned" ELSE @,
                    ![c].result = waits /\ result,
                    ![c].late = @ \/ ~waits]
    BY DEF Perform
  <1>4. /\ calls' \in [Clients -> LaneCalls] /\ \A d \in Clients \ {c} : calls'[d] = calls[d]
        /\ calls'[c].tool = calls[c].tool /\ calls'[c].at = calls[c].at
        /\ calls'[c].pid = calls[c].pid
        /\ calls'[c].proof = calls[c].proof /\ calls'[c].acted = calls[c].acted
        /\ calls[c].late \/ ~InLane(c) => calls'[c].late
    BY <1>1, <1>2, <1>3 DEF LaneCalls
  <1>5. PICK o \in {os} \cup (IF does \in Requests THEN After(c, does) ELSE {}) :
          /\ os' = [o EXCEPT !.effects = IF does \in Acting /\ effect THEN @ \cup {c} ELSE @]
          /\ coming' = IF does \in Requests /\ o = os
                       THEN coming \cup {[by |-> c, does |-> does]} ELSE coming
    BY DEF Perform
  <1>6. /\ o.front \in Apps /\ o.focus \in [Apps -> Clients \cup {Nobody}]
        /\ o = [os EXCEPT !.front = o.front, !.focus = o.focus]
        /\ o \in {os} \cup After(c, does)
    BY <1>2, <1>5, AfterTypes DEF LaneInv
  <1> HIDE DEF effect
  <1>7. /\ os' = [os EXCEPT !.front = os'.front, !.focus = os'.focus, !.effects = os'.effects]
        /\ os'.front = o.front /\ os'.focus = o.focus
        /\ os'.effects \in {os.effects, os.effects \cup {c}}
    BY <1>1, <1>5, <1>6 DEF Desktops
  <1>8. \A v \in Workers : thread'[v] = NoTask
    BY <1>1 DEF LaneInv, OneAtATime, Busy
  <1>9. /\ coming' \in SUBSET [by : Clients, does : Requests]
        /\ \A r \in coming' : r \in coming \/ r.by = c
    BY <1>1, <1>2, <1>5
  <1> QED BY <1>1, <1>2, <1>4, <1>6, <1>7, <1>8, <1>9

LEMMA PerformKeeps ==
  ASSUME LaneInv, NEW w \in Workers, NEW result \in BOOLEAN, Perform(w, result)
  PROVE  LaneInv'
  <1> DEFINE c == thread[w].by
  <1>1. /\ c \in Clients
        /\ calls' \in [Clients -> LaneCalls] /\ \A d \in Clients \ {c} : calls'[d] = calls[d]
        /\ calls'[c].tool = calls[c].tool /\ calls'[c].at = calls[c].at
        /\ calls'[c].pid = calls[c].pid /\ calls'[c].acted = calls[c].acted
        /\ calls[c].late \/ ~InLane(c) => calls'[c].late
        /\ os' = [os EXCEPT !.front = os'.front, !.focus = os'.focus, !.effects = os'.effects]
        /\ os'.front \in Apps /\ os'.focus \in [Apps -> Clients \cup {Nobody}]
        /\ os'.effects \in {os.effects, os.effects \cup {c}}
        /\ coming' \in SUBSET [by : Clients, does : Requests]
        /\ \A r \in coming' : r \in coming \/ r.by = c
        /\ poison' = poison \ {w} /\ UNCHANGED <<store, reading>>
        /\ \A v \in Workers : thread'[v] = NoTask
    BY PerformEffect
  <1>2. thread' \in [Workers -> {NoTask}]
    BY <1>1 DEF Perform, LaneInv, NativeTypeOK
  <1>3. AtStep(c) /\ thread[w] # NoTask
    BY <1>1 DEF LaneInv, Perform
  <1> HIDE DEF c
  <1>4. NativeTypeOK'
    <2>1. os' \in Desktops
      BY <1>1 DEF LaneInv, NativeTypeOK, Desktops
    <2> QED BY <1>1, <1>2, <2>1 DEF LaneInv, NativeTypeOK
  <1>5. \A d \in Clients : InLane(d)' = InLane(d) /\ Concerns(d)' = Concerns(d)
    BY <1>1 DEF InLane, Concerns
  <1>6. OneAtATime'
    BY <1>1, <1>5 DEF LaneInv, OneAtATime, Busy
  <1>7. \A v \in Workers : thread'[v].by \notin Clients
    BY <1>1, NativeAssumption DEF NoTask
  <1>8. calls[c].at \notin Plain \cup {"idle"}
    BY <1>3 DEF AtStep, c
  <1>9. ASSUME NEW d \in Clients PROVE AtStep(d)'
    <2>1. AtStep(d)
      BY DEF LaneInv
    <2>2. Fits(calls[d].tool, calls[d].at, calls[d].acted)'
      BY <1>1, <2>1 DEF AtStep, Fits, Typed
    <2>3. (calls[d].at = "idle")' =>
            calls'[d] = NoCall /\ \A r \in coming' : r.by # d
      BY <1>1, <1>8, <2>1 DEF AtStep
    <2> QED BY <1>1, <1>5, <1>7, <1>9, <2>1, <2>2, <2>3 DEF AtStep
  <1>10. ASSUME NEW d \in Clients PROVE Shown(d)'
    <2>1. Shown(d)
      BY DEF LaneInv
    <2>2. CASE d # c
      BY <1>1, <1>5, <1>10, <2>1, <2>2 DEF Shown, ShownTo
    <2>3. CASE d = c /\ calls[c].at = "unknown"
      <3>1. calls'[c].late
        BY <1>1, <2>3 DEF InLane, Answers
      <3> QED BY <2>3, <3>1 DEF Shown, ShownTo
    <2>4. CASE d = c /\ calls[c].at # "unknown"
      <3>1. calls'[c].at \notin {"unknown", "done"}
        BY <1>1, <1>8, <2>4 DEF Plain, Answers
      <3> QED BY <2>4, <3>1 DEF Shown, ShownTo
    <2> QED BY <2>2, <2>3, <2>4
  <1> QED BY <1>4, <1>6, <1>9, <1>10 DEF LaneInv

(* What moves beside the calls only outdates what they have proven.        *)
LEMMA MovesKeep ==
  ASSUME LaneInv, UNCHANGED <<thread, poison, store, reading>>,
         os' \in Desktops, os'.effects = os.effects, coming' \subseteq coming,
         NEW late \in [Clients -> BOOLEAN],
         \A c \in Clients : calls[c].late => late[c],
         \A c \in Clients : calls[c] = NoCall => ~late[c],
         calls' = [c \in Clients |->
                    [calls[c] EXCEPT !.proof = Outdated(c), !.late = late[c]]]
  PROVE  LaneInv'
  <1>1. calls \in [Clients -> LaneCalls]
    BY DEF LaneInv, NativeTypeOK
  <1>2. ASSUME NEW c \in Clients
        PROVE  /\ calls'[c] \in LaneCalls
               /\ calls'[c].tool = calls[c].tool /\ calls'[c].at = calls[c].at
               /\ calls'[c].pid = calls[c].pid /\ calls'[c].acted = calls[c].acted
               /\ calls'[c].phase = calls[c].phase
               /\ calls[c].late => calls'[c].late
               /\ calls[c] = NoCall => calls'[c] = NoCall
    <2>1. calls[c] \in LaneCalls /\ Outdated(c) \in {"none", "held", "moved"}
      BY <1>1 DEF LaneCalls, Outdated
    <2>2. calls'[c] = [calls[c] EXCEPT !.proof = Outdated(c), !.late = late[c]]
      OBVIOUS
    <2>3. ASSUME calls[c] = NoCall PROVE calls'[c] = NoCall
      <3>1. calls[c].proof = "none"
        <4>1. NoCall.proof = "none"
          BY DEF NoCall
        <4> QED BY <2>3, <4>1
      <3>2. Outdated(c) = "none"
        BY <3>1 DEF Outdated
      <3>3. late[c] = FALSE
        BY <2>3
      <3>4. calls'[c] = [NoCall EXCEPT !.proof = "none", !.late = FALSE]
        BY <2>2, <2>3, <3>2, <3>3
      <3> QED BY <3>4 DEF NoCall
    <2> QED BY <2>1, <2>2, <2>3 DEF LaneCalls
  <1>3. calls' \in [Clients -> LaneCalls]
    BY <1>2
  <1>4. \A c \in Clients : /\ InLane(c)' = InLane(c) /\ Here(c)' = Here(c)
                           /\ Concerns(c)' = Concerns(c)
    BY <1>2 DEF InLane, Here, Concerns
  <1>5. NativeTypeOK'
    BY <1>3 DEF LaneInv, NativeTypeOK
  <1>6. OneAtATime'
    <2>1. \A w \in Workers : Busy(w) => thread[w].by \in Clients
      BY DEF Busy, LaneInv, NativeTypeOK
    <2> QED BY <1>4, <2>1 DEF LaneInv, OneAtATime, Busy
  <1>7. ASSUME NEW c \in Clients PROVE AtStep(c)'
    <2>1. AtStep(c)
      BY DEF LaneInv
    <2>2. Fits(calls[c].tool, calls[c].at, calls[c].acted)'
      BY <1>2, <2>1 DEF AtStep, Fits, Typed
    <2>3. /\ calls'[c].tool = calls[c].tool /\ calls'[c].at = calls[c].at
          /\ calls'[c].phase = calls[c].phase
          /\ calls[c] = NoCall => calls'[c] = NoCall
          /\ InLane(c)' = InLane(c) /\ Here(c)' = Here(c)
      BY <1>2, <1>4
    <2>4. (calls[c].at = "idle")' => calls'[c] = NoCall /\ \A r \in coming' : r.by # c
      BY <2>1, <2>3 DEF AtStep
    <2> QED BY <2>1, <2>2, <2>3, <2>4 DEF AtStep
  <1>8. ASSUME NEW c \in Clients PROVE Shown(c)'
    <2>1. Shown(c)
      BY DEF LaneInv
    <2>2. /\ calls'[c].tool = calls[c].tool /\ calls'[c].at = calls[c].at
          /\ calls[c].late => calls'[c].late
          /\ Concerns(c)' = Concerns(c)
      BY <1>2, <1>4
    <2> QED BY <2>1, <2>2 DEF Shown, ShownTo
  <1> QED BY <1>5, <1>6, <1>7, <1>8 DEF LaneInv

LEMMA UserMovesKeeps ==
  ASSUME LaneInv, UserMoves
  PROVE  LaneInv'
  <1>1. /\ calls \in [Clients -> LaneCalls] /\ os \in Desktops
        /\ calls' = [c \in Clients |-> [calls[c] EXCEPT !.proof = Outdated(c)]]
        /\ UNCHANGED <<coming, thread, poison, store, reading>>
    BY DEF UserMoves, LaneInv, NativeTypeOK
  <1>2. os' \in Desktops /\ os'.effects = os.effects
    <2>1. PICK a \in Apps, b \in Apps, f \in Clients \cup {Nobody} :
            os' = [os EXCEPT !.front = a, !.focus[b] = f, !.moves = @ + 1]
      BY DEF UserMoves
    <2> DEFINE focus == [os.focus EXCEPT ![b] = f]
    <2>2. os' = [os EXCEPT !.front = a, !.focus = focus, !.moves = os.moves + 1]
      BY <2>1
    <2>3. focus \in [Apps -> Clients \cup {Nobody}] /\ os.moves + 1 \in Nat
      BY <1>1 DEF Desktops
    <2> HIDE DEF focus
    <2> QED BY <1>1, <2>2, <2>3 DEF Desktops
  <1> DEFINE late == [c \in Clients |-> calls[c].late]
  <1>3. late \in [Clients -> BOOLEAN]
    BY <1>1 DEF LaneCalls
  <1>4. \A c \in Clients : [calls[c] EXCEPT !.proof = Outdated(c)]
                           = [calls[c] EXCEPT !.proof = Outdated(c), !.late = late[c]]
    BY <1>1 DEF LaneCalls
  <1>5. /\ \A c \in Clients : calls[c].late => late[c]
        /\ \A c \in Clients : calls[c] = NoCall => ~late[c]
    BY DEF NoCall
  <1>6. calls' = [c \in Clients |-> [calls[c] EXCEPT !.proof = Outdated(c), !.late = late[c]]]
    BY <1>1, <1>4
  <1> HIDE DEF late
  <1> QED BY <1>1, <1>2, <1>3, <1>5, <1>6, MovesKeep

(* What a request that is carried out late changes.                        *)
LEMMA LandEffect ==
  ASSUME LaneInv, NEW r, Land(r)
  PROVE  /\ r \in coming /\ r.by \in Clients
         /\ os' \in Desktops /\ os'.effects = os.effects
         /\ coming' \subseteq coming /\ UNCHANGED <<thread, poison, store, reading>>
  <1>1. /\ r \in coming /\ os \in Desktops /\ r.by \in Clients
        /\ coming' \subseteq coming /\ UNCHANGED <<thread, poison, store, reading>>
    BY DEF Land, LaneInv, NativeTypeOK
  <1>2. PICK o \in After(r.by, r.does) : os' = [o EXCEPT !.moves = @ + 1]
    BY DEF Land
  <1>3. /\ o.front \in Apps /\ o.focus \in [Apps -> Clients \cup {Nobody}]
        /\ o = [os EXCEPT !.front = o.front, !.focus = o.focus]
    BY <1>1, <1>2, AfterTypes DEF LaneInv
  <1>4. o \in Desktops /\ o.effects = os.effects
    BY <1>1, <1>3 DEF Desktops
  <1>5. os' \in Desktops /\ os'.effects = os.effects
    BY <1>2, <1>4 DEF Desktops
  <1> QED BY <1>1, <1>5

LEMMA LandKeeps ==
  ASSUME LaneInv, NEW r, Land(r)
  PROVE  LaneInv'
  <1>1. calls \in [Clients -> LaneCalls]
    BY DEF LaneInv, NativeTypeOK
  <1> DEFINE late == [c \in Clients |-> calls[c].late \/ (c = r.by /\ ~InLane(c))]
  <1>2. late \in [Clients -> BOOLEAN]
    BY <1>1 DEF LaneCalls
  <1>3. calls' = [c \in Clients |-> [calls[c] EXCEPT !.proof = Outdated(c), !.late = late[c]]]
    BY DEF Land
  <1>4. calls[r.by].at # "idle"
    BY LandEffect DEF LaneInv, AtStep
  <1>5. ASSUME NEW c \in Clients, calls[c] = NoCall PROVE c # r.by /\ ~calls[c].late
    BY <1>4, <1>5 DEF NoCall
  <1>6. /\ \A c \in Clients : calls[c].late => late[c]
        /\ \A c \in Clients : calls[c] = NoCall => ~late[c]
    BY <1>5
  <1> HIDE DEF late
  <1> QED BY <1>2, <1>3, <1>6, LandEffect, MovesKeep

LEMMA LaneReadingKeeps ==
  ASSUME LaneInv, Snapshot \/ \E a \in Apps, inLane \in BOOLEAN : Read(a, inLane)
  PROVE  LaneInv'
  <1>1. /\ UNCHANGED <<coming, calls, thread, poison>> /\ os \in Desktops
        /\ store \in SUBSET Readings /\ reading \in Readings \cup {Nobody}
    BY DEF Snapshot, Read, LaneInv, NativeTypeOK
  <1>2. os' \in Desktops /\ os'.effects = os.effects
    BY <1>1 DEF Snapshot, Read, Desktops
  <1>3. \A c \in Clients : Concerns(c)' = Concerns(c)
    BY <1>1 DEF Concerns
  <1>4. /\ store' \in SUBSET Readings /\ reading' \in Readings \cup {Nobody}
        /\ \A c \in Clients : Shown(c)'
    <2>1. CASE Snapshot
      <3>1. reading # Nobody /\ store' = store \cup {reading} /\ reading' = Nobody
        BY <2>1 DEF Snapshot
      <3> QED BY <1>1, <1>2, <1>3, <3>1 DEF LaneInv, Shown, ShownTo
    <2>2. ASSUME NEW a \in Apps, NEW inLane \in BOOLEAN, Read(a, inLane)
          PROVE  /\ store' \in SUBSET Readings /\ reading' \in Readings \cup {Nobody}
                 /\ \A c \in Clients : Shown(c)'
      <3>1. /\ reading' = [app |-> a, sees |-> os.effects, raced |-> FALSE]
            /\ UNCHANGED store
        BY <2>2 DEF Read
      <3>2. os.effects \in SUBSET Clients
        BY <1>1 DEF Desktops
      <3> QED BY <1>1, <1>2, <1>3, <3>1, <3>2 DEF LaneInv, Shown, ShownTo, Readings
    <2> QED BY <2>1, <2>2
  <1>5. NativeTypeOK'
    BY <1>1, <1>2, <1>4 DEF LaneInv, NativeTypeOK
  <1>6. OneAtATime'
    BY <1>1 DEF LaneInv, OneAtATime, Busy, InLane
  <1>7. ASSUME NEW c \in Clients PROVE AtStep(c)'
    <2>1. AtStep(c)
      BY DEF LaneInv
    <2> QED BY <1>1, <2>1 DEF AtStep, InLane, Here, Fits, Typed
  <1> QED BY <1>4, <1>5, <1>6, <1>7 DEF LaneInv

LEMMA LaneInvStep ==
  ASSUME LaneInv, [NativeNext]_nativeVars
  PROVE  LaneInv'
  <1>1. CASE UNCHANGED nativeVars
    <2>1. ASSUME NEW c \in Clients PROVE AtStep(c)'
      <3>1. AtStep(c)
        BY DEF LaneInv
      <3> QED BY <1>1, <3>1 DEF nativeVars, AtStep, InLane, Here, Fits, Typed
    <2>2. \A c \in Clients : Shown(c)'
      BY <1>1 DEF LaneInv, nativeVars, Shown, ShownTo, Concerns
    <2> QED BY <1>1, <2>1, <2>2
            DEF nativeVars, LaneInv, NativeTypeOK, OneAtATime, Busy, InLane
  <1>2. ASSUME NEW c \in Clients, Handle(c) PROVE LaneInv'
    BY <1>2, EnterKeeps, AskStepKeeps, DispatchKeeps, ReturnKeeps, ConfirmKeeps,
       GiveUpKeeps, NativeAssumption DEF Handle
  <1>3. ASSUME NEW c \in Clients, NEW does \in Requests, Land([by |-> c, does |-> does])
        PROVE  LaneInv'
    BY <1>3, LandKeeps
  <1> QED BY <1>1, <1>2, <1>3, PerformKeeps, UserMovesKeeps, LaneReadingKeeps DEF NativeNext

-----------------------------------------------------------------------------
(* The focus.  Physical input goes to what is in front; the window that    *)
(* has the focus in its application is the one in front of the system.     *)
LEMMA StartIsBlind ==
  ASSUME NEW tool \in ToolNames
  PROVE  "start" \notin Aiming(tool) \cup Exact(tool)
  BY DEF Aiming, Exact, ToolNames

(* A call goes on with a proof of the focus where the next step needs one. *)
LEMMA GoesOnAimed ==
  ASSUME LaneInv, AimInv, NEW c \in Clients, InLane(c),
         \A w \in Workers : thread[w] = NoTask, UNCHANGED <<os, thread>>,
         \A d \in Clients \ {c} : calls'[d] = calls[d],
         calls'[c].tool = calls[c].tool, calls'[c].pid = calls[c].pid,
         LET m == calls'[c].at
             tool == calls[c].tool
         IN  /\ m \in Aiming(tool) /\ calls[c].pid => calls'[c].proof # "none"
             /\ m \in Exact(tool) => calls'[c].proof # "none"
             /\ m \in Blind(tool) => calls'[c].proof = "none"
             /\ calls'[c].proof = "held" /\ m \notin Answers => os.front = AppOf[c]
             /\ calls'[c].proof = "held" /\ m \in Exact(tool) => os.focus[AppOf[c]] = c
  PROVE  AimInv'
  <1>1. Proven(c)'
    BY DEF Proven, InLane
  <1>2. ASSUME NEW d \in Clients \ {c} PROVE Proven(d)'
    BY <1>2 DEF AimInv, Proven, InLane
  <1>3. \A w \in Workers : InputAimed(w)'
    BY DEF InputAimed, Busy
  <1> QED BY <1>1, <1>2, <1>3 DEF AimInv

LEMMA HoldsMeans ==
  ASSUME NEW c, NEW asks, TRUE \in Holds(c, asks)
  PROVE  /\ asks \in {"front", "focused"} => os.front = AppOf[c]
         /\ asks = "active" /\ WindowIsFront => os.front = AppOf[c]
         /\ asks \in {"active", "focused"} => os.focus[AppOf[c]] = c
  BY DEF Holds

LEMMA AskStepAims ==
  ASSUME LaneInv, AimInv, FrontIsProven, NEW c \in Clients, AskStep(c)
  PROVE  AimInv'
  <1>1. /\ InLane(c) /\ Here(c).kind = "ask" /\ calls \in [Clients -> LaneCalls]
        /\ calls[c] \in LaneCalls /\ Proven(c) /\ calls[c].tool \in Tools[c]
        /\ ProperStep(calls[c].tool, calls[c].at, Here(c), DOMAIN Script(calls[c].tool))
        /\ UNCHANGED <<os, thread, poison>>
    BY HereIsProper DEF AskStep, LaneInv, NativeTypeOK, AimInv
  <1>2. PICK answer \in Holds(c, Here(c).asks) :
          \E m \in IF answer THEN Here(c).yes ELSE Here(c).no : AskedTo(c, answer, m)
    BY DEF AskStep, AskedTo
  <1>3. PICK m \in IF answer THEN Here(c).yes ELSE Here(c).no : AskedTo(c, answer, m)
    BY <1>2
  <1> DEFINE proof == IF answer /\ Here(c).asks \in {"front", "active"}
                      THEN "held" ELSE calls[c].proof
  <1>4. /\ \A d \in Clients \ {c} : calls'[d] = calls[d]
        /\ calls'[c].tool = calls[c].tool /\ calls'[c].at = m
        /\ calls'[c].pid = calls[c].pid /\ calls'[c].proof = proof
    BY <1>1, <1>3 DEF LaneCalls, AskedTo
  <1>5. answer \in BOOLEAN /\ calls[c].pid \in BOOLEAN
    BY <1>1, <1>2 DEF Holds, LaneCalls
  <1>6. CASE answer
    <2>1. /\ Here(c).asks \in {"front", "active"} => os.front = AppOf[c] \/ m = "done"
          /\ Here(c).asks = "active" => os.focus[AppOf[c]] = c
      BY <1>1, <1>2, <1>3, <1>5, <1>6, HoldsMeans DEF FrontIsProven, ProperStep, ProperAsk
    <2> QED BY <1>1, <1>3, <1>4, <1>6, <2>1, NothingOutstanding, GoesOnAimed
            DEF ProperStep, ProperAsk, Proven, Answers
  <1>7. CASE ~answer
    <2>1. Here(c).asks = "pid" => ~calls[c].pid
      <3>1. answer = FALSE
        BY <1>5, <1>7
      <3>2. FALSE \in Holds(c, Here(c).asks)
        BY <1>2, <3>1
      <3>3. ASSUME Here(c).asks = "pid" PROVE calls[c].pid = FALSE
        BY <3>2, <3>3 DEF Holds
      <3> QED BY <1>5, <3>3
    <2>2. /\ m \in Aiming(calls[c].tool) =>
               calls[c].at \in Aiming(calls[c].tool) \/ ~calls[c].pid
          /\ m \notin Exact(calls[c].tool)
          /\ m \in Blind(calls[c].tool) => calls[c].at \in Blind(calls[c].tool)
      BY <1>1, <1>3, <1>7, <2>1 DEF ProperStep
    <2>3. calls'[c].proof = calls[c].proof
      BY <1>4, <1>7
    <2> QED BY <1>1, <1>4, <2>2, <2>3, NothingOutstanding, GoesOnAimed DEF Proven
  <1> QED BY <1>5, <1>6, <1>7

LEMMA GoToAims ==
  ASSUME LaneInv, AimInv, NEW c \in Clients, InLane(c),
         Here(c).kind = "ask" \/ calls[c].phase # "waiting",
         NEW m, GoTo(c, m), UNCHANGED <<os, thread>>,
         m \in Aiming(calls[c].tool) => calls[c].at \in Aiming(calls[c].tool),
         m \notin Exact(calls[c].tool) \cup Blind(calls[c].tool)
  PROVE  AimInv'
  <1>1. calls \in [Clients -> LaneCalls] /\ calls[c] \in LaneCalls /\ Proven(c)
    BY DEF LaneInv, NativeTypeOK, AimInv
  <1>2. /\ \A d \in Clients \ {c} : calls'[d] = calls[d]
        /\ calls'[c].tool = calls[c].tool /\ calls'[c].at = m
        /\ calls'[c].pid = calls[c].pid /\ calls'[c].proof = calls[c].proof
    BY <1>1 DEF GoTo, LaneCalls
  <1> QED BY <1>1, <1>2, NothingOutstanding, GoesOnAimed DEF Proven

LEMMA ReturnAims ==
  ASSUME LaneInv, AimInv, NEW c \in Clients, Return(c)
  PROVE  AimInv'
  <1>1. /\ InLane(c) /\ calls[c].phase = "returned" /\ Here(c).kind = "do"
        /\ UNCHANGED <<os, thread>>
        /\ ProperStep(calls[c].tool, calls[c].at, Here(c), DOMAIN Script(calls[c].tool))
    BY HereIsProper DEF Return
  <1>2. PICK m \in IF calls[c].result THEN Here(c).yes ELSE Here(c).no : GoTo(c, m)
    BY DEF Return
  <1>3. /\ m \in Aiming(calls[c].tool) => calls[c].at \in Aiming(calls[c].tool)
        /\ m \notin Exact(calls[c].tool) \cup Blind(calls[c].tool)
    BY <1>1, <1>2 DEF ProperStep, ProperDo
  <1> QED BY <1>1, <1>2, <1>3, GoToAims

LEMMA ConfirmAims ==
  ASSUME LaneInv, AimInv, FrontIsProven, NEW c \in Clients, Confirm(c)
  PROVE  AimInv'
  <1>1. /\ InLane(c) /\ calls[c].phase = "returned" /\ Here(c).kind = "until"
        /\ UNCHANGED <<os, thread>> /\ calls \in [Clients -> LaneCalls] /\ calls[c] \in LaneCalls
        /\ Proven(c)
        /\ ProperStep(calls[c].tool, calls[c].at, Here(c), DOMAIN Script(calls[c].tool))
    BY HereIsProper DEF Confirm, LaneInv, NativeTypeOK, AimInv
  <1>2. ASSUME TRUE \in Holds(c, Here(c).asks), NEW m \in Here(c).yes,
               calls' = [calls EXCEPT
                  ![c].at = m, ![c].phase = "ready", ![c].result = FALSE,
                  ![c].proof = IF Here(c).asks \in {"front", "active", "focused"} THEN "held" ELSE @,
                  ![c].acted = @ \/ m = "done"]
        PROVE  AimInv'
    <2>1. /\ \A d \in Clients \ {c} : calls'[d] = calls[d]
          /\ calls'[c].tool = calls[c].tool /\ calls'[c].at = m
          /\ calls'[c].pid = calls[c].pid
          /\ calls'[c].proof = IF Here(c).asks \in {"front", "active", "focused"}
                               THEN "held" ELSE calls[c].proof
      BY <1>1, <1>2 DEF LaneCalls
    <2>2. /\ Here(c).asks \in {"front", "active", "focused"} => os.front = AppOf[c] \/ m = "done"
          /\ Here(c).asks \in {"active", "focused"} => os.focus[AppOf[c]] = c
      BY <1>1, <1>2, HoldsMeans DEF ProperStep, ProperUntil
    <2>3. calls[c].phase # "waiting"
      BY <1>1
    <2> QED BY <1>1, <1>2, <2>1, <2>2, <2>3, NothingOutstanding, GoesOnAimed
            DEF ProperStep, ProperUntil, Proven, Answers
  <1>3. CASE \E m \in Here(c).no : GoTo(c, m)
    <2>1. PICK m \in Here(c).no : GoTo(c, m)
      BY <1>3
    <2>2. /\ m \in Aiming(calls[c].tool) => calls[c].at \in Aiming(calls[c].tool)
          /\ m \notin Exact(calls[c].tool) \cup Blind(calls[c].tool)
      BY <1>1, <2>1 DEF ProperStep
    <2> QED BY <1>1, <2>1, <2>2, GoToAims
  <1> QED BY <1>2, <1>3 DEF Confirm

LEMMA GiveUpAims ==
  ASSUME LaneInv, AimInv, NEW c \in Clients, GiveUp(c)
  PROVE  AimInv'
  <1>1. /\ InLane(c) /\ UNCHANGED <<os, thread>> /\ calls \in [Clients -> LaneCalls]
        /\ calls[c] \in LaneCalls
    BY DEF GiveUp, LaneInv, NativeTypeOK
  <1>2. CASE Here(c).kind = "ask" \/ calls[c].phase = "ready"
    <2>1. GoTo(c, "error")
      BY <1>2 DEF GiveUp
    <2>2. "error" \notin Aiming(calls[c].tool) \cup Exact(calls[c].tool) \cup Blind(calls[c].tool)
      BY DEF Aiming, Exact, Blind
    <2> QED BY <1>1, <1>2, <2>1, <2>2, GoToAims
  <1>3. CASE ~(Here(c).kind = "ask" \/ calls[c].phase = "ready")
    <2>1. calls' = [calls EXCEPT ![c].at = "unknown", ![c].phase = "ready", ![c].result = FALSE]
      BY <1>3 DEF GiveUp
    <2>2. /\ \A d \in Clients \ {c} : calls'[d] = calls[d]
          /\ calls'[c].at = "unknown" /\ calls'[c].proof = calls[c].proof
          /\ calls'[c].tool = calls[c].tool /\ calls'[c].pid = calls[c].pid
      BY <1>1, <2>1 DEF LaneCalls
    <2>3. Proven(c)'
      BY <2>2 DEF Proven, InLane, Answers
    <2>4. ASSUME NEW d \in Clients \ {c} PROVE Proven(d)'
      BY <1>1, <2>2, <2>4 DEF AimInv, Proven, InLane
    <2>5. ASSUME NEW w \in Workers PROVE InputAimed(w)'
      <3>1. Busy(w) => thread[w].by \in Clients
        BY DEF LaneInv, NativeTypeOK, Busy
      <3> QED BY <1>1, <2>2, <3>1 DEF AimInv, InputAimed, Busy
    <2> QED BY <2>3, <2>4, <2>5 DEF AimInv
  <1> QED BY <1>2, <1>3

LEMMA EnterAims ==
  ASSUME LaneInv, AimInv, NEW c \in Clients, NEW tool \in Tools[c], Enter(c, tool)
  PROVE  AimInv'
  <1>1. /\ calls[c] = NoCall /\ calls \in [Clients -> LaneCalls]
        /\ UNCHANGED <<os, thread>> /\ tool \in ToolNames
    BY NativeAssumption DEF LaneInv, NativeTypeOK, AtStep, Enter
  <1>2. PICK m \in {"error", "start"}, named \in BOOLEAN :
          calls' = [calls EXCEPT ![c].tool = tool, ![c].pid = named, ![c].at = m]
    BY DEF Enter
  <1>3. /\ calls'[c] = [NoCall EXCEPT !.tool = tool, !.pid = named, !.at = m]
        /\ \A d \in Clients \ {c} : calls'[d] = calls[d]
    BY <1>1, <1>2
  <1>4. /\ calls'[c].tool = tool /\ calls'[c].at = m /\ calls'[c].proof = "none"
    BY <1>3 DEF NoCall
  <1>5. Proven(c)'
    BY <1>1, <1>4, StartIsBlind DEF Proven, InLane, Answers
  <1>6. ASSUME NEW d \in Clients \ {c} PROVE Proven(d)'
    BY <1>1, <1>3, <1>6 DEF AimInv, Proven, InLane
  <1>7. ASSUME NEW w \in Workers PROVE InputAimed(w)'
    <2>1. Busy(w) => thread[w].by \in Clients \ {c}
      BY <1>1 DEF LaneInv, NativeTypeOK, Busy, AtStep, NoCall
    <2> QED BY <1>1, <1>3, <2>1 DEF AimInv, InputAimed, Busy
  <1> QED BY <1>5, <1>6, <1>7 DEF AimInv

LEMMA DispatchAims ==
  ASSUME LaneInv, AimInv, NEW c \in Clients, Dispatch(c)
  PROVE  AimInv'
  <1>1. /\ InLane(c) /\ Here(c).kind # "ask" /\ calls[c].phase = "ready"
        /\ calls \in [Clients -> LaneCalls] /\ calls[c] \in LaneCalls /\ UNCHANGED os
        /\ thread' = [thread EXCEPT ![Here(c).worker] = [by |-> c, does |-> Here(c).does]]
        /\ calls' = [calls EXCEPT ![c].phase = "waiting"]
        /\ ProperDeed(calls[c].tool, calls[c].at, Here(c).does) /\ Here(c).worker \in Workers
    BY HereIsProper DEF Dispatch, LaneInv, NativeTypeOK, ProperStep
  <1>2. /\ \A w \in Workers : thread[w] = NoTask
        /\ thread \in [Workers -> [by : Clients, does : Deeds] \cup {NoTask}]
    BY <1>1, NothingOutstanding DEF LaneInv, NativeTypeOK
  <1>3. /\ \A d \in Clients \ {c} : calls'[d] = calls[d]
        /\ calls'[c].tool = calls[c].tool /\ calls'[c].at = calls[c].at
        /\ calls'[c].pid = calls[c].pid /\ calls'[c].proof = calls[c].proof
    BY <1>1 DEF LaneCalls
  <1>4. ASSUME NEW d \in Clients PROVE Proven(d)'
    BY <1>1, <1>3, <1>4 DEF AimInv, Proven, InLane
  <1>5. ASSUME NEW w \in Workers PROVE InputAimed(w)'
    <2>1. CASE w = Here(c).worker
      <3>1. thread'[w].by = c /\ thread'[w].does = Here(c).does
        BY <1>1, <1>2, <2>1
      <3>2. Proven(c)
        BY DEF AimInv
      <3> QED BY <1>1, <1>3, <3>1, <3>2 DEF InputAimed, Proven, ProperDeed
    <2>2. CASE w # Here(c).worker
      BY <1>1, <1>2, <2>2 DEF InputAimed, Busy
    <2> QED BY <2>1, <2>2
  <1> QED BY <1>4, <1>5 DEF AimInv

LEMMA PerformAims ==
  ASSUME LaneInv, AimInv, NEW w \in Workers, NEW result \in BOOLEAN, Perform(w, result)
  PROVE  AimInv'
  <1> PICK c \in Clients : c = thread[w].by
    BY PerformEffect
  <1>1. /\ \A d \in Clients \ {c} : calls'[d] = calls[d]
        /\ calls'[c].tool = calls[c].tool /\ calls'[c].at = calls[c].at
        /\ calls'[c].pid = calls[c].pid /\ calls'[c].proof = calls[c].proof
        /\ \E o \in {os} \cup After(c, thread[w].does) :
             os'.front = o.front /\ os'.focus = o.focus
        /\ \A v \in Workers : thread'[v] = NoTask
    BY PerformEffect
  <1>2. \A v \in Workers : InputAimed(v)'
    BY <1>1 DEF InputAimed, Busy
  <1>3. ASSUME NEW d \in Clients \ {c} PROVE Proven(d)'
    <2>1. Busy(w)
      BY DEF Perform, Busy
    <2>2. ~InLane(d)
      BY <1>3, <2>1 DEF LaneInv, OneAtATime
    <2> QED BY <1>1, <1>3, <2>2 DEF Proven, InLane
  <1>4. Proven(c)'
    <2> SUFFICES ASSUME InLane(c) PROVE Proven(c)'
      BY <1>1 DEF Proven, InLane
    <2>1. /\ Proven(c) /\ thread[w].does = Here(c).does
          /\ ProperDeed(calls[c].tool, calls[c].at, Here(c).does)
      BY <1>1, HereIsProper DEF LaneInv, AimInv, AtStep, ProperStep
    <2>2. PICK o \in {os} \cup After(c, Here(c).does) :
             os'.front = o.front /\ os'.focus = o.focus
      BY <1>1, <2>1
    <2>3. /\ os.front = AppOf[c] \/ calls[c].at \in Blind(calls[c].tool) =>
               o.front = AppOf[c] \/ calls[c].at \in Blind(calls[c].tool)
          /\ calls[c].at \in Exact(calls[c].tool) => o.focus = os.focus
      <3>1. os \in Desktops /\ AppOf[c] \in Apps
        BY <1>1, NativeAssumption DEF LaneInv, NativeTypeOK
      <3> QED BY <2>1, <3>1 DEF After, ProperDeed, Desktops
    <2> QED BY <1>1, <2>1, <2>2, <2>3 DEF Proven
  <1> QED BY <1>2, <1>3, <1>4 DEF AimInv

(* What moves beside the calls leaves no proof held.                       *)
LEMMA MovesAim ==
  ASSUME LaneInv, AimInv,
         UserMoves \/ \E c \in Clients, does \in Requests : Land([by |-> c, does |-> does])
  PROVE  AimInv'
  <1>1. calls \in [Clients -> LaneCalls] /\ UNCHANGED thread
    BY DEF UserMoves, Land, LaneInv, NativeTypeOK
  <1>2. ASSUME NEW c \in Clients
        PROVE  /\ calls'[c].tool = calls[c].tool /\ calls'[c].at = calls[c].at
               /\ calls'[c].pid = calls[c].pid /\ calls'[c].proof = Outdated(c)
    <2>1. calls[c] \in LaneCalls
      BY <1>1
    <2>2. CASE UserMoves
      BY <2>1, <2>2 DEF UserMoves, LaneCalls
    <2>3. ASSUME NEW r, Land(r)
          PROVE  /\ calls'[c].tool = calls[c].tool /\ calls'[c].at = calls[c].at
                 /\ calls'[c].pid = calls[c].pid /\ calls'[c].proof = Outdated(c)
      BY <2>1, <2>3 DEF Land, LaneCalls
    <2> QED BY <2>2, <2>3
  <1>3. ASSUME NEW c \in Clients PROVE Proven(c)'
    BY <1>2, <1>3 DEF AimInv, Proven, InLane, Outdated
  <1>4. ASSUME NEW w \in Workers PROVE InputAimed(w)'
    <2>1. Busy(w) => thread[w].by \in Clients
      BY DEF LaneInv, NativeTypeOK, Busy
    <2> QED BY <1>1, <1>2, <2>1 DEF AimInv, InputAimed, Busy, Outdated
  <1> QED BY <1>3, <1>4 DEF AimInv

LEMMA AimInvStep ==
  ASSUME LaneInv, AimInv, FrontIsProven, [NativeNext]_nativeVars
  PROVE  AimInv'
  <1>1. CASE UNCHANGED nativeVars
    BY <1>1 DEF nativeVars, AimInv, Proven, InputAimed, Busy, InLane
  <1>2. ASSUME NEW c \in Clients, Handle(c) PROVE AimInv'
    BY <1>2, EnterAims, AskStepAims, DispatchAims, ReturnAims, ConfirmAims, GiveUpAims,
       NativeAssumption DEF Handle
  <1>3. CASE Snapshot \/ \E a \in Apps, inLane \in BOOLEAN : Read(a, inLane)
    <2>1. UNCHANGED <<calls, thread>> /\ os'.front = os.front /\ os'.focus = os.focus
      BY <1>3 DEF Snapshot, Read, LaneInv, NativeTypeOK, Desktops
    <2> QED BY <2>1 DEF AimInv, Proven, InputAimed, Busy, InLane
  <1> QED BY <1>1, <1>2, <1>3, PerformAims, MovesAim DEF NativeNext

LEMMA AimInit ==
  ASSUME NativeInit
  PROVE  AimInv
  BY DEF NativeInit, AimInv, Proven, InputAimed, Busy, NoCall, InLane

-----------------------------------------------------------------------------
(* What the invariants mean.                                               *)
LEMMA AnswersOfTheLane ==
  ASSUME LaneInv
  PROVE  HonestAnswers
  <1> SUFFICES ASSUME NEW c \in Clients
               PROVE  /\ calls[c].at \in Answers \ {"unknown"} =>
                           \A w \in Workers : thread[w].by # c
                      /\ calls[c].at = "done" => calls[c].acted
                      /\ calls[c].at \in {"failed", "notsent"} => ~calls[c].acted
                      /\ calls[c].at = "error" => ~calls[c].acted \/ calls[c].tool = "type"
    BY DEF HonestAnswers
  <1>1. AtStep(c)
    BY DEF LaneInv
  <1> QED BY <1>1 DEF AtStep, Fits, Plain

LEMMA SnapshotsOfTheLane ==
  ASSUME LaneInv
  PROVE  SnapshotsCurrent
  <1>1. \A c \in os.effects : c \in Clients
    BY DEF LaneInv, NativeTypeOK, Desktops
  <1> QED BY <1>1 DEF LaneInv, Shown, ShownTo, SnapshotsCurrent, Invalidating

LEMMA InputOfTheLane ==
  ASSUME LaneInv, AimInv, NEW w \in Workers, thread[w].does \in Physical,
         calls[thread[w].by].proof # "moved"
  PROVE  LET c == thread[w].by IN
         /\ thread[w].does \in {"text", "shortcut"} \/ (calls[c].pid /\ calls[c].tool # "hoverAt") =>
              os.front = AppOf[c]
         /\ thread[w].does \in {"text", "shortcut"} => os.focus[AppOf[c]] = c
  <1>1. Busy(w)
    BY DEF Busy, NoTask, Physical
  <1>2. thread[w].by \in Clients
    BY <1>1 DEF Busy, LaneInv, NativeTypeOK
  <1>3. calls[thread[w].by].proof \in {"none", "held", "moved"}
    BY <1>2 DEF LaneInv, NativeTypeOK, LaneCalls
  <1> QED BY <1>1, <1>3 DEF AimInv, InputAimed

-----------------------------------------------------------------------------
LEMMA LaneAlways == NativeSpec => []LaneInv
  BY LaneInit, LaneInvStep, PTL DEF NativeSpec

(* The state of the foreground tools has its types.                        *)
THEOREM NativeTypeCorrect == NativeSpec => []NativeTypeOK
  <1>1. LaneInv => NativeTypeOK
    BY DEF LaneInv
  <1> QED BY LaneAlways, <1>1, PTL

(* One mutation at a time is in the foreground lane, and one call at most  *)
(* in all workers: its own, or the one that the lane waits for             *)
(* (execute_foreground, poison_foreground_until).                          *)
THEOREM MutationsAreSerial == NativeSpec => []OneAtATime
  <1>1. LaneInv => OneAtATime
    BY DEF LaneInv
  <1> QED BY LaneAlways, <1>1, PTL

(* Only OUTCOME_UNKNOWN leaves something in a worker (execute_foreground); *)
(* after a success what the call is for was reported done or seen; after a *)
(* failure, "text was not sent" included, and after a plain error it was   *)
(* not, but for a text that type found to be missing or failed to confirm. *)
THEOREM NativeAnswersAreHonest == NativeSpec => []HonestAnswers
  BY LaneAlways, AnswersOfTheLane, PTL

(* After OUTCOME_UNKNOWN, and after a success of app, window or close_tab, *)
(* no snapshot that can be resolved is from before an effect of the call   *)
(* on its application (_invalidate_native_mutation_state), unless it was   *)
(* just being made or the effect came after the answer.  Of the other      *)
(* tools' successes it says nothing: SuccessInvalidates is violated.       *)
THEOREM NativeSnapshotsAreCurrent == NativeSpec => []SnapshotsCurrent
  BY LaneAlways, SnapshotsOfTheLane, PTL

(* Input of a call that names an application is posted when that is in     *)
(* front, text when the exact element has the focus, also by a call that   *)
(* was given up and after requests that came late, unless the user or such *)
(* a request moved something after the last proof (_verify_focus).  Where  *)
(* the focused window of an application in the background counts as        *)
(* focused, this takes that nobody calls close_tab, the only tool that     *)
(* asks for no more.                                                       *)
THEOREM InputReachesItsTarget ==
  ASSUME FrontIsProven
  PROVE  NativeSpec => InputOnTarget
  <1>1. NativeInit => LaneInv /\ AimInv
    BY LaneInit, AimInit
  <1>2. LaneInv /\ AimInv /\ [NativeNext]_nativeVars => (LaneInv /\ AimInv)'
    BY LaneInvStep, AimInvStep
  <1>3. LaneInv /\ AimInv =>
          [\A w \in Workers : LET c == thread[w].by IN
             thread[w].does \in Physical /\ thread'[w] = NoTask /\ calls[c].proof # "moved" =>
               /\ thread[w].does = "text" \/ (calls[c].pid /\ calls[c].tool # "hoverAt") =>
                    os.front = AppOf[c]
               /\ thread[w].does \in {"text", "shortcut"} => os.focus[AppOf[c]] = c]_nativeVars
    BY InputOfTheLane
  <1> QED BY <1>1, <1>2, <1>3, PTL DEF NativeSpec, InputOnTarget

(* Where a focused window is the one in front of the system, close_tab     *)
(* does what mcp-tools.md says of it: the shortcut goes to no other        *)
(* application, unless something was moved after the exact check, by the   *)
(* user or by an activation that came late.                                *)
THEOREM TabsAreClosedInFront ==
  ASSUME WindowIsFront
  PROVE  NativeSpec => ClosesForegroundTab
  <1>1. NativeInit => LaneInv /\ AimInv
    BY LaneInit, AimInit
  <1>2. LaneInv /\ AimInv /\ [NativeNext]_nativeVars => (LaneInv /\ AimInv)'
    BY LaneInvStep, AimInvStep DEF FrontIsProven
  <1>3. LaneInv /\ AimInv =>
          [\A w \in Workers : LET c == thread[w].by IN
             thread[w].does = "shortcut" /\ thread'[w] = NoTask /\ calls[c].proof # "moved" =>
               os.front = AppOf[c]]_nativeVars
    BY InputOfTheLane DEF Physical
  <1> QED BY <1>1, <1>2, <1>3, PTL DEF NativeSpec, ClosesForegroundTab

-----------------------------------------------------------------------------
(* What the scripts of all tools have in common: nothing is checked after  *)
(* a command that acts, text follows the proof of the focus and of the     *)
(* document, and only the commands named here are sent.                    *)
CheckSteps == {"tabs", "enable", "current", "node", "semantics", "focused", "value", "loaded"}
ProperScript(s, path, tool) ==
  /\ Len(s) \in 1..10
  /\ \A i \in 1..Len(s) : s[i] \in Commands \cup CheckSteps
  /\ \A i, j \in 1..Len(s) :
       s[i] \in ShadowActing /\ i < j => s[j] \in ShadowActing \cup {"value", "loaded"}
  /\ \A i \in 1..Len(s) : s[i] = "tabs" => i = 1
  /\ \A i \in 1..Len(s) : s[i] = "text" =>
       \E j, k \in 1..Len(s) : j < k /\ k < i /\ s[j] = "focused" /\ s[k] = "current"
  /\ \A i, j \in 1..Len(s) : s[i] = "focused" /\ s[j] = "focused" => i = j
  /\ path # "apple" /\ tool = "type" =>
       \A i \in 1..Len(s) : s[i] \in Commands => s[i] \in {"focus", "text"}
  /\ path # "apple" /\ tool \in {"click", "navigate", "js"} =>
       \A i \in 1..Len(s) : s[i] \in Commands => s[i] = "act"

LEMMA ScriptsAreProper ==
  ASSUME NEW path \in Paths, NEW tool \in CdpTools
  PROVE  ProperScript(ShadowScript(path, tool), path, tool)
  <1> USE DEF ProperScript, CheckSteps, Commands, ShadowActing
  <1>1. /\ ShadowScript("persistent", "click") = ShadowClick
        /\ ProperScript(ShadowClick, "persistent", "click")
    BY DEF ShadowScript, ShadowClick
  <1>2. /\ ShadowScript("persistent", "type") = ShadowType
        /\ ProperScript(ShadowType, "persistent", "type")
    BY DEF ShadowScript, ShadowType
  <1>3. /\ ShadowScript("persistent", "upload") = Upload
        /\ ProperScript(Upload, "persistent", "upload")
    BY DEF ShadowScript, Upload
  <1>4. /\ ShadowScript("persistent", "key") = ShadowPressKey
        /\ ProperScript(ShadowPressKey, "persistent", "key")
    BY DEF ShadowScript, ShadowPressKey
  <1>5. /\ ShadowScript("persistent", "scroll") = ShadowScroll
        /\ ProperScript(ShadowScroll, "persistent", "scroll")
    BY DEF ShadowScript, ShadowScroll
  <1>6. /\ ShadowScript("persistent", "drag") = ShadowDrag
        /\ ProperScript(ShadowDrag, "persistent", "drag")
    BY DEF ShadowScript, ShadowDrag
  <1>7. /\ ShadowScript("persistent", "dialog") = Dialog
        /\ ProperScript(Dialog, "persistent", "dialog")
    BY DEF ShadowScript, Dialog
  <1>8. /\ ShadowScript("persistent", "close") = CloseTarget
        /\ ProperScript(CloseTarget, "persistent", "close")
    BY DEF ShadowScript, CloseTarget
  <1>9. /\ ShadowScript("persistent", "navigate") = Navigate
        /\ ProperScript(Navigate, "persistent", "navigate")
    BY DEF ShadowScript, Navigate
  <1>10. /\ ShadowScript("persistent", "js") = Evaluate
         /\ ProperScript(Evaluate, "persistent", "js")
    BY DEF ShadowScript, Evaluate
  <1>11. /\ ShadowScript("legacy", "click") = ClickElement
         /\ ProperScript(ClickElement, "legacy", "click")
    BY DEF ShadowScript, ClickElement
  <1>12. /\ ShadowScript("legacy", "type") = TypeText
         /\ ProperScript(TypeText, "legacy", "type")
    BY DEF ShadowScript, TypeText
  <1>13. /\ ShadowScript("legacy", "upload") = SetFileInput
         /\ ProperScript(SetFileInput, "legacy", "upload")
    BY DEF ShadowScript, SetFileInput
  <1>14. /\ ShadowScript("legacy", "key") = LegacyPressKey
         /\ ProperScript(LegacyPressKey, "legacy", "key")
    BY DEF ShadowScript, LegacyPressKey
  <1>15. /\ ShadowScript("legacy", "scroll") = LegacyScroll
         /\ ProperScript(LegacyScroll, "legacy", "scroll")
    BY DEF ShadowScript, LegacyScroll
  <1>16. /\ ShadowScript("legacy", "drag") = LegacyDrag
         /\ ProperScript(LegacyDrag, "legacy", "drag")
    BY DEF ShadowScript, LegacyDrag
  <1>17. /\ ShadowScript("legacy", "dialog") = LegacyDialog
         /\ ProperScript(LegacyDialog, "legacy", "dialog")
    BY DEF ShadowScript, LegacyDialog
  <1>18. /\ ShadowScript("legacy", "close") = LegacyClose
         /\ ProperScript(LegacyClose, "legacy", "close")
    BY DEF ShadowScript, LegacyClose
  <1>19. /\ ShadowScript("legacy", "navigate") = LegacyNavigate
         /\ ProperScript(LegacyNavigate, "legacy", "navigate")
    BY DEF ShadowScript, LegacyNavigate
  <1>20. /\ ShadowScript("legacy", "js") = LegacyEvaluate
         /\ ProperScript(LegacyEvaluate, "legacy", "js")
    BY DEF ShadowScript, LegacyEvaluate
  <1>21. /\ ShadowScript("apple", tool) = AppleAction
         /\ ProperScript(AppleAction, "apple", tool)
    BY DEF ShadowScript, AppleAction
  <1> HIDE DEF ProperScript
  <1> QED BY <1>1, <1>2, <1>3, <1>4, <1>5, <1>6, <1>7, <1>8, <1>9, <1>10,
             <1>11, <1>12, <1>13, <1>14, <1>15, <1>16, <1>17, <1>18, <1>19,
             <1>20, <1>21 DEF Paths, CdpTools

-----------------------------------------------------------------------------
(* The inductive invariant of the shadow tools.                            *)
PageCalls ==
  [tool : Paths \X CdpTools, snap : Snapshots \cup {NoSnapshot}, pc : 0..11,
   sent : SUBSET Commands, applied : SUBSET Commands, fields : 1..2,
   failed : BOOLEAN, focus : {"unproven", "proven", "moved"},
   late : BOOLEAN, answer : ShadowAnswers, begun : BOOLEAN]

Behind(c, step) == \E i \in 1..Len(Steps(c)) : i < pageCall[c].pc /\ Steps(c)[i] = step

\* The focus was proven and after it the document.
FocusChecked(c) ==
  \E i, j \in 1..Len(Steps(c)) : /\ i < j /\ j < pageCall[c].pc
                                 /\ Steps(c)[i] = "focused" /\ Steps(c)[j] = "current"

(* A call that has not begun has done nothing, one in the queue has sent   *)
(* nothing, and one at work has sent what is behind it or is sending the   *)
(* command it is at.                                                       *)
CallOK(c) ==
  /\ ~pageCall[c].begun => pageCall[c] = NoPageCall /\ c \notin page.effects
  /\ pageCall[c].pc = 0 /\ pageCall[c].answer = "none" => pageCall[c].sent = {}
  /\ pageCall[c].applied \subseteq pageCall[c].sent
  /\ Active(c) =>
       /\ pageCall[c].begun /\ pageCall[c].answer = "none"
       /\ pageCall[c].pc <= Len(Steps(c)) + 1
       /\ \A cmd \in pageCall[c].sent : Behind(c, cmd) \/ StepOf(c) = cmd
       /\ Wire(c) \subseteq {StepOf(c)}

(* What was proven about the focus holds, unless the page has moved: for a *)
(* call past its proof, and for text that is on its way to the page.       *)
Aimed(c) ==
  /\ "text" \in Wire(c) \/ (Active(c) /\ Behind(c, "focused")) =>
       /\ pageCall[c].focus # "unproven"
       /\ (pageCall[c].focus = "proven" => page.focused)
  /\ "text" \in Wire(c) \/ (Active(c) /\ FocusChecked(c)) =>
       (pageCall[c].focus = "proven" => page.doc = pageCall[c].snap.doc)

(* An effect that a reading does not show is one of a call still at work,  *)
(* or cancelled, or it came after the answer.                              *)
SeenBy(c, provider, sees, raced) ==
  /\ c \in page.effects /\ provider = Path(c) /\ c \notin sees
  /\ ~pageCall[c].late /\ ~raced
  => \/ pageCall[c].answer = "cancelled"
     \/ Active(c) /\ pageCall[c].applied \cap ShadowActing # {}

SeenInv(c) ==
  /\ \A s \in pageStore : SeenBy(c, s.provider, s.sees, s.raced)
  /\ pageReading # NoSnapshot /\ pageReading.read =>
       SeenBy(c, pageReading.provider, pageReading.sees, pageReading.raced)

PageInv ==
  PageTypeOK /\ \A c \in PageCallers : CallOK(c) /\ Aimed(c) /\ SeenInv(c)

(* What a call at work has sent and what it may do next.                   *)
LEMMA AtWork ==
  ASSUME PageInv, NEW c \in PageCallers, Active(c)
  PROVE  /\ ProperScript(Steps(c), Path(c), Tool(c))
         /\ pageCall[c] \in PageCalls /\ CallOK(c)
         /\ pageCall[c].pc \in 1..11 /\ pageCall[c].pc <= Len(Steps(c)) + 1
         /\ Path(c) \in Paths /\ Tool(c) \in CdpTools
  <1>1. pageCall[c] \in PageCalls /\ CallOK(c)
    BY DEF PageInv, PageTypeOK, PageCalls
  <1>2. Path(c) \in Paths /\ Tool(c) \in CdpTools
    BY <1>1 DEF PageCalls, Path, Tool
  <1>3. ProperScript(Steps(c), Path(c), Tool(c))
    BY <1>2, ScriptsAreProper DEF Steps
  <1> QED BY <1>1, <1>2, <1>3 DEF Active, CallOK, PageCalls

(* Before its first command a call at work has sent nothing that acts; a   *)
(* check that may refuse comes before everything that acts.                *)
LEMMA NothingActed ==
  ASSUME PageInv, NEW c \in PageCallers, Active(c), StepOf(c) # "end",
         StepOf(c) \notin ShadowActing \cup {"value", "loaded"}
  PROVE  pageCall[c].sent \cap ShadowActing = {}
  <1>1. /\ ProperScript(Steps(c), Path(c), Tool(c))
        /\ CallOK(c) /\ pageCall[c].pc \in 1..11
    BY AtWork
  <1>2. pageCall[c].pc \in 1..Len(Steps(c)) /\ StepOf(c) = Steps(c)[pageCall[c].pc]
    BY DEF StepOf
  <1>3. ASSUME NEW cmd \in pageCall[c].sent \cap ShadowActing PROVE FALSE
    <2>1. Behind(c, cmd)
      BY <1>1, <1>3 DEF CallOK
    <2>2. PICK i \in 1..Len(Steps(c)) : i < pageCall[c].pc /\ Steps(c)[i] = cmd
      BY <2>1 DEF Behind
    <2> QED BY <2>2, <1>1, <1>2, <1>3 DEF ProperScript
  <1> QED BY <1>3

(* What a call has sent are commands of its script.                        *)
LEMMA SentCommands ==
  ASSUME PageInv, NEW c \in PageCallers, Active(c)
  PROVE  \A cmd \in pageCall[c].sent : \E i \in 1..Len(Steps(c)) :
            i <= pageCall[c].pc /\ Steps(c)[i] = cmd /\ cmd \in Commands
  <1>1. /\ CallOK(c) /\ pageCall[c] \in PageCalls /\ pageCall[c].pc \in 1..11
        /\ "end" \notin Commands
    BY AtWork DEF Commands, ShadowActing
  <1>2. ASSUME NEW cmd \in pageCall[c].sent
        PROVE  \E i \in 1..Len(Steps(c)) :
                  i <= pageCall[c].pc /\ Steps(c)[i] = cmd /\ cmd \in Commands
    <2>1. cmd \in Commands
      BY <1>1, <1>2 DEF PageCalls
    <2>2. CASE Behind(c, cmd)
      BY <2>2, <2>1, <1>1 DEF Behind
    <2>3. CASE StepOf(c) = cmd
      <3>1. pageCall[c].pc \in 1..Len(Steps(c)) /\ Steps(c)[pageCall[c].pc] = cmd
        BY <2>3, <2>1, <1>1 DEF StepOf
      <3> QED BY <3>1, <2>1, <1>1
    <2> QED BY <2>2, <2>3, <1>1, <1>2 DEF CallOK
  <1> QED BY <1>2

(* Only a tool that types has text on its way, and only past both proofs.  *)
LEMMA TextIsAimed ==
  ASSUME PageInv, NEW c \in PageCallers, Active(c), StepOf(c) = "text"
  PROVE  Behind(c, "focused") /\ FocusChecked(c)
  <1>1. ProperScript(Steps(c), Path(c), Tool(c)) /\ pageCall[c].pc \in 1..11
    BY AtWork
  <1>2. pageCall[c].pc \in 1..Len(Steps(c)) /\ Steps(c)[pageCall[c].pc] = "text"
    BY DEF StepOf
  <1>3. PICK j \in 1..Len(Steps(c)), k \in 1..Len(Steps(c)) :
            /\ j < k /\ k < pageCall[c].pc
            /\ Steps(c)[j] = "focused" /\ Steps(c)[k] = "current"
    BY <1>1, <1>2 DEF ProperScript
  <1> QED BY <1>1, <1>3 DEF Behind, FocusChecked, ProperScript

-----------------------------------------------------------------------------
(* What a step leaves alone keeps its part of the invariant.               *)
LEMMA CallKept ==
  ASSUME NEW c, pageCall'[c] = pageCall[c], page' = page, CallOK(c), Aimed(c)
  PROVE  CallOK(c)' /\ Aimed(c)'
  BY DEF CallOK, Aimed, Active, Behind, FocusChecked, StepOf, Steps, Path, Tool, Wire

LEMMA SeenKept ==
  ASSUME NEW c, UNCHANGED <<pageStore, pageReading>>, page'.effects = page.effects,
         Path(c)' = Path(c), pageCall'[c].late = pageCall[c].late,
         pageCall'[c].answer = pageCall[c].answer,
         Active(c) => Active(c)' /\ pageCall'[c].applied = pageCall[c].applied,
         SeenInv(c)
  PROVE  SeenInv(c)'
  BY DEF SeenInv, SeenBy

(* What a call that confirms or gives up leaves behind.                    *)
LEMMA DroppedKeeps ==
  ASSUME PageTypeOK, NEW c, NEW p, Dropped(p), page'.effects = page.effects,
         SeenInv(c), pageCall'[c] = pageCall[c] \/ Path(c)' = p
  PROVE  SeenInv(c)' /\ pageStore' \subseteq pageStore
  <1>1. pageStore' = {s \in pageStore : s.provider # p}
    BY DEF Dropped
  <1>2. \A s \in pageStore' : SeenBy(c, s.provider, s.sees, s.raced)'
    BY <1>1 DEF SeenInv, SeenBy, Path, Active
  <1>3. CASE pageReading # NoSnapshot /\ pageReading.provider = p
    <2>1. pageReading' = [pageReading EXCEPT !.raced = TRUE]
      BY <1>3 DEF Dropped
    <2>2. pageReading'.raced
      BY <1>3, <2>1 DEF PageTypeOK
    <2> QED BY <1>1, <1>2, <2>2 DEF SeenInv, SeenBy
  <1>4. CASE ~(pageReading # NoSnapshot /\ pageReading.provider = p)
    <2>1. pageReading' = pageReading
      BY <1>4 DEF Dropped
    <2> QED BY <1>1, <1>2, <1>4, <2>1 DEF SeenInv, SeenBy, Path, Active
  <1> QED BY <1>3, <1>4

-----------------------------------------------------------------------------
(* One lemma for each action.                                              *)
LEMMA PageTypes ==
  ASSUME PageInv
  PROVE  /\ pageCall \in [PageCallers -> PageCalls]
         /\ page.doc \in 0..MaxDoc + 1 /\ page.effects \in SUBSET PageCallers
         /\ page.focused \in BOOLEAN
         /\ MaxDoc \in Nat /\ MaxPageReads \in Nat
         /\ \A c \in PageCallers : PageTools[c] \subseteq Paths \X CdpTools
  BY PageAssumption DEF PageInv, PageTypeOK, PageCalls

LEMMA BeginCallKeeps ==
  ASSUME PageInv, NEW c \in PageCallers, NEW tool \in PageTools[c],
         NEW snap \in pageStore \cup {NoSnapshot}, BeginCall(c, tool, snap)
  PROVE  PageInv'
  <1>1. PICK fields \in 1..2 :
          pageCall' = [pageCall EXCEPT ![c] = [NoPageCall EXCEPT !.tool = tool, !.snap = snap,
                                                 !.fields = fields, !.begun = TRUE]]
    <2>1. (IF tool[2] = "type" THEN 1..2 ELSE {1}) \subseteq 1..2
      OBVIOUS
    <2> QED BY <2>1 DEF BeginCall
  <1>2. tool \in Paths \X CdpTools /\ snap \in Snapshots \cup {NoSnapshot}
    BY PageTypes DEF PageInv, PageTypeOK
  <1>3. UNCHANGED <<page, pageStore, pageReading>> /\ ~pageCall[c].begun
    BY DEF BeginCall
  <1>4. /\ pageCall'[c] \in PageCalls /\ pageCall'[c].begun /\ pageCall'[c].sent = {}
        /\ pageCall'[c].applied = {} /\ pageCall'[c].pc = 0
    <2>1. pageCall'[c] = [NoPageCall EXCEPT !.tool = tool, !.snap = snap,
                                            !.fields = fields, !.begun = TRUE]
      BY <1>1, PageTypes
    <2>2. NoPageCall \in PageCalls
      BY DEF PageCalls, NoPageCall, ShadowAnswers, Paths, CdpTools
    <2>3. [NoPageCall EXCEPT !.tool = tool, !.snap = snap,
                             !.fields = fields, !.begun = TRUE] \in PageCalls
      BY <1>2, <2>2 DEF PageCalls
    <2> QED BY <2>1, <2>3 DEF NoPageCall
  <1>5. \A d \in PageCallers \ {c} : pageCall'[d] = pageCall[d]
    BY <1>1, PageTypes
  <1>6. PageTypeOK'
    <2>1. pageCall' \in [PageCallers -> PageCalls]
      BY <1>1, <1>4, <1>5, PageTypes
    <2> QED BY <2>1, <1>3 DEF PageInv, PageTypeOK, PageCalls
  <1>7. c \notin page.effects
    BY <1>3 DEF PageInv, CallOK
  <1>8. CallOK(c)' /\ Aimed(c)' /\ SeenInv(c)'
    BY <1>3, <1>4, <1>7 DEF CallOK, Aimed, SeenInv, SeenBy, Active, Wire
  <1>9. ASSUME NEW d \in PageCallers \ {c} PROVE CallOK(d)' /\ Aimed(d)' /\ SeenInv(d)'
    BY <1>3, <1>5, <1>9, CallKept, SeenKept DEF PageInv, Path, Active
  <1> QED BY <1>6, <1>8, <1>9 DEF PageInv

(* A step of a call at work, or its entry, that touches nothing else.      *)
LEMMA OwnStep ==
  ASSUME PageInv, NEW c \in PageCallers, UNCHANGED <<page, pageStore, pageReading>>,
         pageCall' \in [PageCallers -> PageCalls],
         \A d \in PageCallers \ {c} : pageCall'[d] = pageCall[d],
         CallOK(c)', Aimed(c)', SeenInv(c)'
  PROVE  PageInv'
  <1>1. PageTypeOK'
    BY DEF PageInv, PageTypeOK, PageCalls
  <1>2. ASSUME NEW d \in PageCallers \ {c} PROVE CallOK(d)' /\ Aimed(d)' /\ SeenInv(d)'
    BY <1>2, CallKept, SeenKept DEF PageInv, Path, Active
  <1> QED BY <1>1, <1>2 DEF PageInv

LEMMA EnterLaneKeeps ==
  ASSUME PageInv, NEW c \in PageCallers, EnterLane(c)
  PROVE  PageInv'
  <1>1. /\ pageCall' = [pageCall EXCEPT ![c].pc = 1]
        /\ UNCHANGED <<page, pageStore, pageReading>>
        /\ pageCall[c].begun /\ pageCall[c].pc = 0 /\ pageCall[c].answer = "none"
    BY DEF EnterLane
  <1>2. CallOK(c) /\ Aimed(c) /\ SeenInv(c) /\ pageCall[c] \in PageCalls
    BY PageTypes DEF PageInv
  <1>3. /\ pageCall'[c] \in PageCalls /\ pageCall'[c].pc = 1
        /\ pageCall'[c].tool = pageCall[c].tool /\ pageCall'[c].sent = pageCall[c].sent
        /\ pageCall'[c].applied = pageCall[c].applied /\ pageCall'[c].late = pageCall[c].late
        /\ pageCall'[c].begun = pageCall[c].begun /\ pageCall'[c].answer = pageCall[c].answer
    <2>1. pageCall'[c] = [pageCall[c] EXCEPT !.pc = 1]
      BY <1>1, PageTypes
    <2>2. 1 \in 0..11
      OBVIOUS
    <2> QED BY <1>2, <2>1, <2>2 DEF PageCalls
  <1>4. /\ pageCall' \in [PageCallers -> PageCalls]
        /\ \A d \in PageCallers \ {c} : pageCall'[d] = pageCall[d]
    BY <1>1, <1>3, PageTypes
  <1>5. pageCall'[c].sent = {} /\ pageCall'[c].applied = {}
    BY <1>1, <1>2, <1>3 DEF CallOK
  <1>6. Steps(c)' = Steps(c) /\ Len(Steps(c)) \in 1..10
    BY <1>2, <1>3, ScriptsAreProper DEF Steps, Path, Tool, PageCalls, ProperScript
  <1>7. CallOK(c)'
    BY <1>1, <1>3, <1>5, <1>6 DEF CallOK, Wire
  <1>8. Aimed(c)'
    BY <1>3, <1>5, <1>6 DEF Aimed, Wire, Behind, FocusChecked
  <1>9. SeenInv(c)'
    BY <1>1, <1>2, <1>3 DEF SeenInv, SeenBy, Path, Active
  <1> QED BY <1>1, <1>4, <1>7, <1>8, <1>9, OwnStep

LEMMA LeaveQueueKeeps ==
  ASSUME PageInv, NEW c \in PageCallers, LeaveQueue(c)
  PROVE  PageInv'
  <1>1. PICK a \in {"retry", "cancelled"} : pageCall' = [pageCall EXCEPT ![c].answer = a]
    BY DEF LeaveQueue
  <1>2. /\ UNCHANGED <<page, pageStore, pageReading>>
        /\ pageCall[c].begun /\ pageCall[c].pc = 0 /\ pageCall[c].answer = "none"
    BY DEF LeaveQueue
  <1>3. CallOK(c) /\ Aimed(c) /\ SeenInv(c) /\ pageCall[c] \in PageCalls
    BY PageTypes DEF PageInv
  <1>4. /\ pageCall'[c] \in PageCalls /\ pageCall'[c].pc = 0
        /\ pageCall'[c].tool = pageCall[c].tool /\ pageCall'[c].sent = pageCall[c].sent
        /\ pageCall'[c].applied = pageCall[c].applied /\ pageCall'[c].late = pageCall[c].late
        /\ pageCall'[c].begun = pageCall[c].begun /\ pageCall'[c].answer = a
    BY <1>1, <1>2, <1>3, PageTypes DEF PageCalls, ShadowAnswers
  <1>5. /\ pageCall' \in [PageCallers -> PageCalls]
        /\ \A d \in PageCallers \ {c} : pageCall'[d] = pageCall[d]
    BY <1>1, <1>4, PageTypes
  <1>6. pageCall'[c].sent = {} /\ pageCall'[c].applied = {}
    BY <1>2, <1>3, <1>4 DEF CallOK
  <1>7. CallOK(c)' /\ Aimed(c)'
    BY <1>2, <1>4, <1>6 DEF CallOK, Aimed, Wire, Active
  <1>8. SeenInv(c)'
    BY <1>2, <1>3, <1>4 DEF SeenInv, SeenBy, Path, Active
  <1> QED BY <1>2, <1>5, <1>7, <1>8, OwnStep

LEMMA NextPosition ==
  ASSUME NEW L \in 1..10, NEW p \in 1..L
  PROVE  p + 1 \in 0..11 /\ p + 1 \in 1..11 /\ p + 1 <= L + 1
  OBVIOUS

LEMMA CheckKeeps ==
  ASSUME PageInv, NEW c \in PageCallers, Check(c)
  PROVE  PageInv'
  <1>1. /\ pageCall' = [pageCall EXCEPT ![c].pc = @ + 1,
                          ![c].focus = IF StepOf(c) = "focused" THEN "proven" ELSE @]
        /\ UNCHANGED <<page, pageStore, pageReading>>
        /\ Active(c) /\ StepOf(c) \notin Commands \cup {"end"} /\ Passes(c)
    BY DEF Check
  <1>2. /\ ProperScript(Steps(c), Path(c), Tool(c)) /\ CallOK(c) /\ Aimed(c) /\ SeenInv(c)
        /\ pageCall[c] \in PageCalls /\ pageCall[c].pc \in 1..Len(Steps(c))
        /\ StepOf(c) = Steps(c)[pageCall[c].pc] /\ Len(Steps(c)) \in 1..10
    BY <1>1, AtWork DEF PageInv, StepOf, ProperScript
  <1>3. /\ pageCall'[c] \in PageCalls /\ pageCall'[c].pc = pageCall[c].pc + 1
        /\ pageCall'[c].focus = IF StepOf(c) = "focused" THEN "proven" ELSE pageCall[c].focus
        /\ pageCall'[c].tool = pageCall[c].tool /\ pageCall'[c].sent = pageCall[c].sent
        /\ pageCall'[c].applied = pageCall[c].applied /\ pageCall'[c].late = pageCall[c].late
        /\ pageCall'[c].begun = pageCall[c].begun /\ pageCall'[c].answer = pageCall[c].answer
        /\ pageCall'[c].snap = pageCall[c].snap
    <2>1. pageCall[c].pc + 1 \in 0..11
      BY <1>2, NextPosition
    <2>2. pageCall'[c] = [pageCall[c] EXCEPT !.pc = @ + 1,
                            !.focus = IF StepOf(c) = "focused" THEN "proven" ELSE @]
      BY <1>1, PageTypes
    <2> QED BY <1>2, <2>1, <2>2 DEF PageCalls
  <1>4. /\ pageCall' \in [PageCallers -> PageCalls]
        /\ \A d \in PageCallers \ {c} : pageCall'[d] = pageCall[d]
    BY <1>1, <1>3, PageTypes
  <1>5. Steps(c)' = Steps(c) /\ Wire(c)' = Wire(c) /\ Active(c)' /\ Path(c)' = Path(c)
    BY <1>2, <1>3 DEF Steps, Path, Tool, Wire, Active
  <1>6. Wire(c) = {} /\ \A cmd \in pageCall[c].sent : Behind(c, cmd)
    BY <1>1, <1>2 DEF CallOK, Wire, PageCalls
  <1>7. \A step : Behind(c, step)' <=> Behind(c, step) \/ StepOf(c) = step
    BY <1>2, <1>3, <1>5 DEF Behind
  <1>8. CallOK(c)'
    <2>1. \A cmd \in pageCall'[c].sent : Behind(c, cmd)'
      BY <1>3, <1>6, <1>7
    <2>2. pageCall'[c].pc \in 1..11 /\ pageCall'[c].pc <= Len(Steps(c)') + 1
      BY <1>2, <1>3, <1>5, NextPosition
    <2>3. pageCall'[c].begun /\ pageCall'[c].answer = "none"
      BY <1>1, <1>2, <1>3 DEF CallOK
    <2> QED BY <1>2, <1>3, <1>5, <1>6, <2>1, <2>2, <2>3 DEF CallOK
  <1>9. Aimed(c)'
    <2>1. Behind(c, "focused")' => /\ pageCall'[c].focus # "unproven"
                                   /\ (pageCall'[c].focus = "proven" => page.focused)
      <3>1. CASE StepOf(c) = "focused"
        BY <3>1, <1>1, <1>3 DEF Passes
      <3>2. CASE StepOf(c) # "focused"
        BY <3>2, <1>1, <1>2, <1>3, <1>7 DEF Aimed
      <3> QED BY <3>1, <3>2
    <2>2. ASSUME FocusChecked(c)', pageCall'[c].focus = "proven"
          PROVE  page.doc = pageCall[c].snap.doc
      <3>1. CASE StepOf(c) = "current"
        BY <3>1, <1>1 DEF Passes, IsCurrent
      <3>2. CASE StepOf(c) # "current"
        <4>1. FocusChecked(c)
          BY <2>2, <3>2, <1>2, <1>3, <1>5 DEF FocusChecked
        <4>2. CASE StepOf(c) # "focused"
          BY <4>1, <4>2, <2>2, <1>1, <1>2, <1>3 DEF Aimed
        <4>3. CASE StepOf(c) = "focused"
          BY <4>1, <4>3, <1>2 DEF FocusChecked, ProperScript
        <4> QED BY <4>2, <4>3
      <3> QED BY <3>1, <3>2
    <2> QED BY <1>1, <1>3, <1>5, <1>6, <2>1, <2>2 DEF Aimed
  <1>10. SeenInv(c)'
    BY <1>1, <1>2, <1>3, <1>5, SeenKept
  <1> QED BY <1>1, <1>4, <1>8, <1>9, <1>10, OwnStep

LEMMA DroppedTypes ==
  ASSUME PageTypeOK, NEW p, Dropped(p)
  PROVE  /\ pageStore' \subseteq Snapshots
         /\ pageReading' \in [provider : Paths, doc : 0..MaxDoc + 1, read : BOOLEAN,
                              sees : SUBSET PageCallers, raced : BOOLEAN] \cup {NoSnapshot}
  <1>1. pageStore' \subseteq Snapshots
    BY DEF Dropped, PageTypeOK
  <1>2. CASE pageReading # NoSnapshot /\ pageReading.provider = p
    <2>1. pageReading' = [pageReading EXCEPT !.raced = TRUE]
      BY <1>2 DEF Dropped
    <2> QED BY <1>1, <1>2, <2>1 DEF PageTypeOK
  <1>3. CASE ~(pageReading # NoSnapshot /\ pageReading.provider = p)
    BY <1>1, <1>3 DEF Dropped, PageTypeOK
  <1> QED BY <1>2, <1>3

LEMMA SendKeeps ==
  ASSUME PageInv, NEW c \in PageCallers, Send(c)
  PROVE  PageInv'
  <1>1. /\ pageCall' = [pageCall EXCEPT ![c].sent = @ \cup {StepOf(c)}]
        /\ UNCHANGED <<page, pageStore, pageReading>>
        /\ Active(c) /\ StepOf(c) \in Commands \ pageCall[c].sent
    BY DEF Send
  <1>2. /\ CallOK(c) /\ Aimed(c) /\ SeenInv(c)
        /\ pageCall[c] \in PageCalls /\ pageCall[c].pc \in 1..11
    BY <1>1, AtWork DEF PageInv
  <1>3. /\ pageCall'[c] \in PageCalls /\ pageCall'[c].sent = pageCall[c].sent \cup {StepOf(c)}
        /\ pageCall'[c].pc = pageCall[c].pc /\ pageCall'[c].applied = pageCall[c].applied
        /\ pageCall'[c].tool = pageCall[c].tool /\ pageCall'[c].late = pageCall[c].late
        /\ pageCall'[c].begun = pageCall[c].begun /\ pageCall'[c].answer = pageCall[c].answer
        /\ pageCall'[c].snap = pageCall[c].snap /\ pageCall'[c].focus = pageCall[c].focus
    <2>1. pageCall'[c] = [pageCall[c] EXCEPT !.sent = @ \cup {StepOf(c)}]
      BY <1>1, PageTypes
    <2> QED BY <1>1, <1>2, <2>1 DEF PageCalls
  <1>4. /\ pageCall' \in [PageCallers -> PageCalls]
        /\ \A d \in PageCallers \ {c} : pageCall'[d] = pageCall[d]
    BY <1>1, <1>3, PageTypes
  <1>5. /\ Steps(c)' = Steps(c) /\ Path(c)' = Path(c) /\ Active(c)' /\ StepOf(c)' = StepOf(c)
        /\ \A step : Behind(c, step)' <=> Behind(c, step)
        /\ FocusChecked(c)' <=> FocusChecked(c)
    BY <1>1, <1>3 DEF Steps, Path, Tool, Active, StepOf, Behind, FocusChecked
  <1>6. CallOK(c)'
    BY <1>1, <1>2, <1>3, <1>5 DEF CallOK, Wire
  <1>7. Aimed(c)'
    <2>1. "text" \in Wire(c)' => "text" \in Wire(c) \/ (Behind(c, "focused") /\ FocusChecked(c))
      BY <1>1, <1>3, TextIsAimed DEF Wire
    <2> QED BY <1>1, <1>2, <1>3, <1>5, <2>1 DEF Aimed
  <1>8. SeenInv(c)'
    BY <1>1, <1>2, <1>3, <1>5, SeenKept
  <1> QED BY <1>1, <1>4, <1>6, <1>7, <1>8, OwnStep

LEMMA ReplyKeeps ==
  ASSUME PageInv, NEW c \in PageCallers, Reply(c)
  PROVE  PageInv'
  <1>1. /\ pageCall' = [pageCall EXCEPT ![c].pc = @ + 1]
        /\ UNCHANGED <<page, pageStore, pageReading>>
        /\ Active(c) /\ StepOf(c) \in pageCall[c].applied
    BY DEF Reply
  <1>2. StepOf(c) # "end" /\ StepOf(c) \in Commands
    BY <1>1, AtWork DEF PageCalls, Commands, ShadowActing
  <1>3. /\ CallOK(c) /\ Aimed(c) /\ SeenInv(c)
        /\ pageCall[c] \in PageCalls /\ pageCall[c].pc \in 1..Len(Steps(c))
        /\ StepOf(c) = Steps(c)[pageCall[c].pc] /\ Len(Steps(c)) \in 1..10
    BY <1>1, <1>2, AtWork DEF PageInv, StepOf, ProperScript
  <1>4. /\ pageCall'[c] \in PageCalls /\ pageCall'[c].pc = pageCall[c].pc + 1
        /\ pageCall'[c].sent = pageCall[c].sent /\ pageCall'[c].applied = pageCall[c].applied
        /\ pageCall'[c].tool = pageCall[c].tool /\ pageCall'[c].late = pageCall[c].late
        /\ pageCall'[c].begun = pageCall[c].begun /\ pageCall'[c].answer = pageCall[c].answer
        /\ pageCall'[c].snap = pageCall[c].snap /\ pageCall'[c].focus = pageCall[c].focus
    <2>1. pageCall[c].pc + 1 \in 0..11
      BY <1>3, NextPosition
    <2>2. pageCall'[c] = [pageCall[c] EXCEPT !.pc = @ + 1]
      BY <1>1, PageTypes
    <2> QED BY <1>3, <2>1, <2>2 DEF PageCalls
  <1>5. /\ pageCall' \in [PageCallers -> PageCalls]
        /\ \A d \in PageCallers \ {c} : pageCall'[d] = pageCall[d]
    BY <1>1, <1>4, PageTypes
  <1>6. Steps(c)' = Steps(c) /\ Wire(c)' = Wire(c) /\ Active(c)' /\ Path(c)' = Path(c)
    BY <1>3, <1>4 DEF Steps, Path, Tool, Wire, Active
  <1>7. \A step : Behind(c, step)' <=> Behind(c, step) \/ StepOf(c) = step
    BY <1>3, <1>4, <1>6 DEF Behind
  <1>8. Wire(c) = {}
    BY <1>1, <1>3 DEF CallOK, Wire
  <1>9. CallOK(c)'
    <2>1. \A cmd \in pageCall'[c].sent : Behind(c, cmd)'
      BY <1>1, <1>3, <1>4, <1>7 DEF CallOK
    <2>2. pageCall'[c].pc \in 1..11 /\ pageCall'[c].pc <= Len(Steps(c)') + 1
      BY <1>3, <1>4, <1>6, NextPosition
    <2>3. pageCall'[c].begun /\ pageCall'[c].answer = "none"
      BY <1>1, <1>3, <1>4 DEF CallOK
    <2> QED BY <1>3, <1>4, <1>6, <1>8, <2>1, <2>2, <2>3 DEF CallOK
  <1>10. Aimed(c)'
    <2>1. Behind(c, "focused")' => Behind(c, "focused")
      BY <1>2, <1>7 DEF Commands, ShadowActing
    <2>2. FocusChecked(c)' => FocusChecked(c)
      BY <1>2, <1>3, <1>4, <1>6 DEF FocusChecked, Commands, ShadowActing
    <2> QED BY <1>1, <1>3, <1>4, <1>6, <1>8, <2>1, <2>2 DEF Aimed
  <1>11. SeenInv(c)'
    BY <1>1, <1>3, <1>4, <1>6, SeenKept
  <1> QED BY <1>1, <1>5, <1>9, <1>10, <1>11, OwnStep

(* The end of a call, or of a field of fill_form: it invalidates, unless   *)
(* nothing was sent that acts or the client has cancelled.                 *)
LEMMA EndCallKeeps ==
  ASSUME PageInv, NEW c \in PageCallers, Active(c),
         NEW a \in ShadowAnswers \ {"none"}, NEW invalidates \in BOOLEAN,
         EndCall(c, a, invalidates),
         invalidates \/ a = "cancelled" \/ pageCall[c].sent \cap ShadowActing = {}
  PROVE  PageInv'
  <1>1. /\ pageCall' = Ended(c, a) /\ UNCHANGED page
        /\ invalidates => Dropped(Path(c))
        /\ ~invalidates => UNCHANGED <<pageStore, pageReading>>
    BY DEF EndCall
  <1>2. /\ CallOK(c) /\ Aimed(c) /\ SeenInv(c)
        /\ pageCall[c] \in PageCalls /\ pageCall[c].pc \in 1..11
        /\ ProperScript(Steps(c), Path(c), Tool(c))
    BY AtWork DEF PageInv
  <1>3. /\ pageCall'[c] \in PageCalls /\ pageCall'[c].applied = {}
        /\ pageCall'[c].tool = pageCall[c].tool /\ pageCall'[c].late = pageCall[c].late
        /\ pageCall'[c].begun = pageCall[c].begun
        /\ \/ /\ a # "cancelled"
              /\ pageCall'[c].pc = 1 /\ pageCall'[c].sent = {}
              /\ pageCall'[c].answer = pageCall[c].answer
           \/ /\ pageCall'[c].pc = 0 /\ pageCall'[c].sent = Wire(c)
              /\ pageCall'[c].focus = pageCall[c].focus
              /\ Wire(c) # {} => pageCall'[c].snap = pageCall[c].snap
              /\ pageCall'[c].answer \in {a, "partial"}
              /\ a = "cancelled" => pageCall'[c].answer = "cancelled"
    <2>1. CASE Tool(c) = "type" /\ pageCall[c].fields = 2 /\ a \notin {"unknown", "cancelled"}
      <3>1. pageCall'[c] = [pageCall[c] EXCEPT !.pc = 1, !.fields = 1, !.sent = {},
                              !.applied = {}, !.failed = (a # "done"), !.focus = "unproven"]
        BY <1>1, <2>1, PageTypes DEF Ended
      <3>2. 1 \in 0..11 /\ 1 \in 1..2
        OBVIOUS
      <3> QED BY <1>2, <2>1, <3>1, <3>2 DEF PageCalls
    <2>2. CASE ~(Tool(c) = "type" /\ pageCall[c].fields = 2 /\ a \notin {"unknown", "cancelled"})
      <3> DEFINE answer == IF pageCall[c].failed /\ a \notin {"unknown", "cancelled"}
                           THEN "partial" ELSE a
                 snap == IF Wire(c) = {} THEN NoSnapshot ELSE pageCall[c].snap
      <3>1. pageCall'[c] = [pageCall[c] EXCEPT !.pc = 0, !.sent = Wire(c), !.applied = {},
                              !.fields = 1, !.failed = FALSE, !.snap = snap, !.answer = answer]
        <4> DEFINE ended == [pageCall[c] EXCEPT !.pc = 0, !.sent = Wire(c), !.applied = {},
                               !.fields = 1, !.failed = FALSE,
                               !.snap = snap,
                               !.answer = answer]
        <4>1. pageCall' = [pageCall EXCEPT ![c] = ended]
          BY <1>1, <2>2 DEF Ended
        <4> HIDE DEF ended
        <4>2. pageCall'[c] = ended
          BY <4>1, PageTypes
        <4> QED BY <4>2 DEF ended
      <3>2. /\ 0 \in 0..11 /\ 1 \in 1..2 /\ Wire(c) \in SUBSET Commands
            /\ snap \in Snapshots \cup {NoSnapshot} /\ answer \in ShadowAnswers
        BY <1>2 DEF PageCalls, Wire, ShadowAnswers
      <3>3. answer \in {a, "partial"} /\ (a = "cancelled" => answer = "cancelled")
        OBVIOUS
      <3>4. Wire(c) # {} => snap = pageCall[c].snap
        OBVIOUS
      <3> HIDE DEF answer, snap
      <3> QED BY <1>2, <3>1, <3>2, <3>3, <3>4 DEF PageCalls
    <2> QED BY <2>1, <2>2
  <1>4. /\ pageCall' \in [PageCallers -> PageCalls]
        /\ \A d \in PageCallers \ {c} : pageCall'[d] = pageCall[d]
    BY <1>1, <1>3, PageTypes DEF Ended
  <1>5. Path(c)' = Path(c) /\ Steps(c)' = Steps(c) /\ Len(Steps(c)) \in 1..10
    BY <1>2, <1>3 DEF Path, Steps, Tool, ProperScript
  <1>6. PageTypeOK'
    BY <1>1, <1>4, DroppedTypes DEF PageInv, PageTypeOK, PageCalls
  <1>7. CallOK(c)'
    <2>1. CASE pageCall'[c].pc = 1
      BY <2>1, <1>2, <1>3, <1>5 DEF CallOK, Active, Wire
    <2>2. CASE pageCall'[c].pc = 0
      BY <2>2, <1>2, <1>3, <1>5 DEF CallOK, Active
    <2> QED BY <2>1, <2>2, <1>3
  <1>8. Aimed(c)'
    <2>1. CASE pageCall'[c].pc = 1
      BY <2>1, <1>3, <1>5 DEF Aimed, Active, Wire, Behind, FocusChecked
    <2>2. CASE pageCall'[c].pc = 0
      <3>1. Wire(c)' = Wire(c)
        BY <2>2, <1>3 DEF Wire
      <3> QED BY <2>2, <3>1, <1>1, <1>2, <1>3 DEF Aimed, Active
    <2> QED BY <2>1, <2>2, <1>3
  <1>9. SeenInv(c)'
    <2>1. CASE invalidates
      BY <2>1, <1>1, <1>2, <1>5, DroppedKeeps DEF PageInv
    <2>2. CASE ~invalidates /\ a = "cancelled"
      BY <2>2, <1>1, <1>2, <1>3, <1>5 DEF SeenInv, SeenBy
    <2>3. CASE ~invalidates /\ a # "cancelled"
      <3>1. pageCall[c].applied \cap ShadowActing = {}
        BY <2>3, <1>2 DEF CallOK
      <3>2. pageCall[c].answer # "cancelled"
        BY <1>2 DEF CallOK
      <3>3. /\ UNCHANGED <<page, pageStore, pageReading>> /\ Path(c)' = Path(c)
            /\ pageCall'[c].late = pageCall[c].late
        BY <2>3, <1>1, <1>3, <1>5
      <3> QED BY <3>1, <3>2, <3>3, <1>2 DEF SeenInv, SeenBy
    <2> QED BY <2>1, <2>2, <2>3
  <1>10. ASSUME NEW d \in PageCallers \ {c} PROVE CallOK(d)' /\ Aimed(d)' /\ SeenInv(d)'
    <2>1. pageCall'[d] = pageCall[d] /\ CallOK(d) /\ Aimed(d) /\ SeenInv(d)
      BY <1>4, <1>10 DEF PageInv
    <2>2. CASE invalidates
      BY <2>1, <2>2, <1>1, CallKept, DroppedKeeps DEF PageInv
    <2>3. CASE ~invalidates
      BY <2>1, <2>3, <1>1, CallKept, SeenKept DEF Path, Active
    <2> QED BY <2>2, <2>3
  <1> QED BY <1>6, <1>7, <1>8, <1>9, <1>10 DEF PageInv

(* What a failing step answers is true of what was sent.                   *)
TrueOf(c, a) ==
  /\ a \in {"retry", "stale"} => pageCall[c].sent \cap ShadowActing = {}
  /\ a = "notsent" => "text" \notin pageCall[c].sent
  /\ a = "done" => Wire(c) = {}

LEMMA PersistentAnswerIsTrue ==
  ASSUME PageInv, NEW c \in PageCallers, Active(c), Path(c) = "persistent"
  PROVE  /\ PersistentAnswer(c) \in ShadowAnswers \ {"none"}
         /\ TrueOf(c, PersistentAnswer(c))
  <1>1. ProperScript(Steps(c), Path(c), Tool(c))
    BY AtWork
  <1>2. Tool(c) = "type" => pageCall[c].sent \subseteq {"focus", "text"}
    BY <1>1, SentCommands DEF ProperScript
  <1>3. Tool(c) \in {"click", "navigate", "js"} => pageCall[c].sent \subseteq {"act"}
    BY <1>1, SentCommands DEF ProperScript
  <1>4. PersistentAnswer(c) \in {"warning", "unknown", "notsent", "retry"}
    BY DEF PersistentAnswer
  <1>5. PersistentAnswer(c) = "notsent" => "text" \notin pageCall[c].sent
    BY DEF PersistentAnswer
  <1>6. PersistentAnswer(c) = "retry" => pageCall[c].sent \cap ShadowActing = {}
    <2>1. CASE Tool(c) = "type"
      BY <2>1, <1>2 DEF PersistentAnswer, ShadowActing
    <2>2. CASE Tool(c) \in {"click", "navigate", "js"}
      BY <2>2, <1>3 DEF PersistentAnswer, ShadowActing
    <2>3. CASE Tool(c) \notin {"type", "click", "navigate", "js"}
      BY <2>3 DEF PersistentAnswer
    <2> QED BY <2>1, <2>2, <2>3
  <1> QED BY <1>4, <1>5, <1>6 DEF TrueOf, ShadowAnswers

LEMMA LegacyAnswerIsTrue ==
  ASSUME PageInv, NEW c \in PageCallers, Active(c), StepOf(c) # "end", NEW why,
         why = "refused" => ~Passes(c) /\ StepOf(c) \notin {"node", "tabs"}
  PROVE  /\ LegacyAnswer(c, why) \in ShadowAnswers \ {"none"}
         /\ TrueOf(c, LegacyAnswer(c, why))
  <1>1. LegacyAnswer(c, why) \in {"retry", "stale", "notsent", "unknown"}
    BY DEF LegacyAnswer
  <1>2. StepOf(c) \in {"tabs", "focused", "current", "semantics"} =>
           pageCall[c].sent \cap ShadowActing = {}
    BY NothingActed DEF ShadowActing
  <1>3. why = "refused" => StepOf(c) \in {"current", "semantics", "focused"}
    BY DEF Passes
  <1>4. LegacyAnswer(c, why) \in {"retry", "stale", "notsent"} =>
           pageCall[c].sent \cap ShadowActing = {}
    <2>1. CASE StepOf(c) = "tabs" \/ why = "refused"
      BY <2>1, <1>2, <1>3
    <2>2. CASE ~(StepOf(c) = "tabs" \/ why = "refused")
      BY <2>2 DEF LegacyAnswer, Dispatched
    <2> QED BY <2>1, <2>2
  <1> QED BY <1>1, <1>4 DEF TrueOf, ShadowAnswers, ShadowActing

(* A failing step ends the call with an answer that is true, and leaves    *)
(* the snapshots alone only if nothing was sent that acts.                 *)
LEMMA FailEnds ==
  ASSUME PageInv, NEW c \in PageCallers, NEW why, Fail(c, why)
  PROVE  \E a \in ShadowAnswers \ {"none"}, invalidates \in BOOLEAN :
           /\ EndCall(c, a, invalidates) /\ TrueOf(c, a)
           /\ invalidates \/ pageCall[c].sent \cap ShadowActing = {}
  <1>1. /\ Active(c) /\ StepOf(c) # "end"
        /\ why = "refused" => ~Passes(c) /\ StepOf(c) \notin {"node", "tabs"}
    BY DEF Fail
  <1>2. Path(c) \in Paths
    BY <1>1, AtWork
  <1>3. CASE Path(c) = "persistent"
    <2> DEFINE a == PersistentAnswer(c)
    <2>1. EndCall(c, a, a # "retry")
      BY <1>3 DEF Fail
    <2>2. a \in ShadowAnswers \ {"none"} /\ TrueOf(c, a)
      BY <1>1, <1>3, PersistentAnswerIsTrue
    <2>3. (a # "retry") \in BOOLEAN /\ ((a # "retry") \/ pageCall[c].sent \cap ShadowActing = {})
      BY <2>2 DEF TrueOf
    <2> QED BY <2>1, <2>2, <2>3
  <1>4. CASE Path(c) = "legacy"
    <2> DEFINE a == LegacyAnswer(c, why)
               drops == a # "retry" \/ Tool(c) \in {"navigate", "js"}
    <2>1. EndCall(c, a, drops)
      BY <1>4 DEF Fail
    <2>2. a \in ShadowAnswers \ {"none"} /\ TrueOf(c, a)
      BY <1>1, LegacyAnswerIsTrue
    <2>3. drops \in BOOLEAN /\ (drops \/ pageCall[c].sent \cap ShadowActing = {})
      BY <2>2 DEF TrueOf
    <2> HIDE DEF a, drops
    <2> QED BY <2>1, <2>2, <2>3
  <1>5. CASE Path(c) = "apple"
    <2> DEFINE a == IF pageCall[c].sent = {} THEN "retry" ELSE "unknown"
    <2>1. EndCall(c, a, a = "unknown")
      BY <1>5 DEF Fail
    <2>2. a \in ShadowAnswers \ {"none"} /\ TrueOf(c, a)
      BY DEF ShadowAnswers, TrueOf
    <2>3. (a = "unknown") \in BOOLEAN /\ (a = "unknown" \/ pageCall[c].sent \cap ShadowActing = {})
      OBVIOUS
    <2> HIDE DEF a
    <2> QED BY <2>1, <2>2, <2>3
  <1> QED BY <1>2, <1>3, <1>4, <1>5 DEF Paths

LEMMA FinishEnds ==
  ASSUME PageInv, NEW c \in PageCallers, Finish(c)
  PROVE  EndCall(c, "done", TRUE) /\ TrueOf(c, "done")
  <1>1. Active(c) /\ StepOf(c) = "end" /\ EndCall(c, "done", TRUE)
    BY DEF Finish
  <1>2. Wire(c) \subseteq {"end"} /\ Wire(c) \subseteq Commands
    BY <1>1, AtWork DEF CallOK, Wire, PageCalls
  <1> QED BY <1>1, <1>2 DEF TrueOf, Commands, ShadowActing

LEMMA EndingKeeps ==
  ASSUME PageInv, NEW c \in PageCallers,
         Finish(c) \/ (\E why \in {"refused", "error", "deadline"} : Fail(c, why)) \/ Cancel(c)
  PROVE  PageInv'
  <1>1. CASE Finish(c)
    BY <1>1, FinishEnds, EndCallKeeps DEF Finish, ShadowAnswers
  <1>2. CASE \E why \in {"refused", "error", "deadline"} : Fail(c, why)
    BY <1>2, FailEnds, EndCallKeeps DEF Fail
  <1>3. CASE Cancel(c)
    BY <1>3, EndCallKeeps DEF Cancel, ShadowAnswers
  <1> QED BY <1>1, <1>2, <1>3

-----------------------------------------------------------------------------
(* The page.                                                               *)
LEMMA MovedEffect ==
  ASSUME PageInv, NEW c \in PageCallers
  PROVE  /\ Moved \in [PageCallers -> PageCalls]
         /\ Moved[c].focus # "proven" /\ (Moved[c].focus = "unproven" => pageCall[c].focus = "unproven")
         /\ Moved[c].tool = pageCall[c].tool /\ Moved[c].snap = pageCall[c].snap
         /\ Moved[c].pc = pageCall[c].pc /\ Moved[c].sent = pageCall[c].sent
         /\ Moved[c].applied = pageCall[c].applied /\ Moved[c].late = pageCall[c].late
         /\ Moved[c].answer = pageCall[c].answer /\ Moved[c].begun = pageCall[c].begun
         /\ pageCall[c] = NoPageCall => Moved[c] = NoPageCall
  <1>1. \A d \in PageCallers : Moved[d] \in PageCalls
    BY PageTypes DEF Moved, PageCalls
  <1>2. Moved \in [PageCallers -> PageCalls]
    BY <1>1 DEF Moved
  <1>3. pageCall[c] = NoPageCall => Moved[c] = NoPageCall
    BY DEF Moved, NoPageCall
  <1>4. /\ Moved[c] = [pageCall[c] EXCEPT !.focus = IF @ = "proven" THEN "moved" ELSE @]
        /\ pageCall[c] \in PageCalls
    BY PageTypes DEF Moved
  <1>5. Moved[c].focus = IF pageCall[c].focus = "proven" THEN "moved" ELSE pageCall[c].focus
    BY <1>4 DEF PageCalls
  <1>6. /\ Moved[c].tool = pageCall[c].tool /\ Moved[c].snap = pageCall[c].snap
        /\ Moved[c].pc = pageCall[c].pc /\ Moved[c].sent = pageCall[c].sent
        /\ Moved[c].applied = pageCall[c].applied /\ Moved[c].late = pageCall[c].late
        /\ Moved[c].answer = pageCall[c].answer /\ Moved[c].begun = pageCall[c].begun
    BY <1>4 DEF PageCalls
  <1> QED BY <1>2, <1>3, <1>5, <1>6

(* A call whose focus may have moved keeps its part of the invariant.      *)
LEMMA MovedKeeps ==
  ASSUME PageInv, NEW c \in PageCallers, pageCall'[c] = Moved[c],
         page'.effects \cap {c} = page.effects \cap {c},
         UNCHANGED <<pageStore, pageReading>>
  PROVE  CallOK(c)' /\ Aimed(c)' /\ SeenInv(c)'
  <1>1. CallOK(c) /\ Aimed(c) /\ SeenInv(c)
    BY DEF PageInv
  <1>2. /\ Steps(c)' = Steps(c) /\ Path(c)' = Path(c) /\ Wire(c)' = Wire(c)
        /\ Active(c)' <=> Active(c)
        /\ StepOf(c)' = StepOf(c)
        /\ \A step : Behind(c, step)' <=> Behind(c, step)
    BY MovedEffect DEF Steps, Path, Tool, Wire, Active, StepOf, Behind
  <1>3. CallOK(c)'
    BY <1>1, <1>2, MovedEffect DEF CallOK
  <1>4. Aimed(c)'
    BY <1>1, <1>2, MovedEffect DEF Aimed
  <1>5. SeenInv(c)'
    BY <1>1, <1>2, MovedEffect DEF SeenInv, SeenBy
  <1> QED BY <1>3, <1>4, <1>5

LEMMA PageMovesKeeps ==
  ASSUME PageInv, PageNavigates \/ FocusMoves
  PROVE  PageInv'
  <1>1. pageCall' = Moved /\ UNCHANGED <<pageStore, pageReading>>
    BY DEF PageNavigates, FocusMoves
  <1>2. /\ page' \in [doc : 0..MaxDoc + 1, focused : BOOLEAN, effects : SUBSET PageCallers,
                      reads : 0..MaxPageReads]
        /\ page'.effects = page.effects
    <2>1. page \in [doc : 0..MaxDoc + 1, focused : BOOLEAN, effects : SUBSET PageCallers,
                    reads : 0..MaxPageReads]
      BY DEF PageInv, PageTypeOK
    <2>2. CASE PageNavigates
      <3>1. page.doc + 1 \in 0..MaxDoc + 1
        BY <2>2, PageTypes DEF PageNavigates
      <3> QED BY <2>1, <2>2, <3>1 DEF PageNavigates
    <2>3. CASE FocusMoves
      BY <2>1, <2>3 DEF FocusMoves
    <2> QED BY <2>2, <2>3
  <1>3. PageTypeOK'
    <2>1. pageCall' \in [PageCallers -> PageCalls]
      BY <1>1, MovedEffect DEF Moved, PageCalls
    <2> QED BY <2>1, <1>1, <1>2 DEF PageInv, PageTypeOK, PageCalls
  <1> QED BY <1>1, <1>2, <1>3, MovedKeeps DEF PageInv

LEMMA ApplyKeeps ==
  ASSUME PageInv, NEW c \in PageCallers, NEW cmd \in Commands, Apply(c, cmd)
  PROVE  PageInv'
  <1> DEFINE doc == CASE Tool(c) = "navigate" /\ page.doc < MaxDoc -> page.doc + 1
                      [] Tool(c) = "close" -> MaxDoc + 1
                      [] OTHER -> page.doc
             before == IF doc # page.doc THEN Moved ELSE pageCall
  <1>1. /\ cmd \in Wire(c) /\ page.doc <= MaxDoc
        /\ page' = [page EXCEPT !.doc = doc,
                                !.focused = (cmd = "focus") \/ (@ /\ doc = page.doc),
                                !.effects = IF cmd \in ShadowActing THEN @ \cup {c} ELSE @]
        /\ pageCall' = [before EXCEPT ![c].applied = @ \cup {cmd},
                                      ![c].late = @ \/ pageCall[c].answer # "none"]
        /\ UNCHANGED <<pageStore, pageReading>>
    BY DEF Apply
  <1>2. doc \in 0..MaxDoc + 1
    BY PageTypes
  <1>3. /\ before \in [PageCallers -> PageCalls]
        /\ \A d \in PageCallers : before[d] = Moved[d] \/ (before[d] = pageCall[d] /\ doc = page.doc)
    BY MovedEffect, PageTypes
  <1> HIDE DEF doc, before
  <1>4. /\ page' \in [doc : 0..MaxDoc + 1, focused : BOOLEAN, effects : SUBSET PageCallers,
                      reads : 0..MaxPageReads]
        /\ page'.doc = doc /\ page'.focused = ((cmd = "focus") \/ (page.focused /\ doc = page.doc))
        /\ page'.effects = IF cmd \in ShadowActing THEN page.effects \cup {c} ELSE page.effects
    <2>1. page \in [doc : 0..MaxDoc + 1, focused : BOOLEAN, effects : SUBSET PageCallers,
                    reads : 0..MaxPageReads]
      BY DEF PageInv, PageTypeOK
    <2> QED BY <1>1, <1>2, <2>1
  <1>5. /\ pageCall'[c] \in PageCalls /\ pageCall'[c].applied = before[c].applied \cup {cmd}
        /\ pageCall'[c].late = (before[c].late \/ pageCall[c].answer # "none")
        /\ pageCall'[c].pc = before[c].pc /\ pageCall'[c].sent = before[c].sent
        /\ pageCall'[c].tool = before[c].tool /\ pageCall'[c].snap = before[c].snap
        /\ pageCall'[c].begun = before[c].begun /\ pageCall'[c].answer = before[c].answer
        /\ pageCall'[c].focus = before[c].focus
    BY <1>1, <1>3 DEF PageCalls
  <1>6. /\ pageCall' \in [PageCallers -> PageCalls]
        /\ \A d \in PageCallers \ {c} : pageCall'[d] = before[d]
    BY <1>1, <1>3, <1>5
  <1>7. /\ CallOK(c) /\ Aimed(c) /\ SeenInv(c) /\ pageCall[c] \in PageCalls
    BY PageTypes DEF PageInv
  <1>8. /\ pageCall'[c].tool = pageCall[c].tool /\ pageCall'[c].snap = pageCall[c].snap
        /\ pageCall'[c].pc = pageCall[c].pc /\ pageCall'[c].sent = pageCall[c].sent
        /\ pageCall'[c].applied = pageCall[c].applied \cup {cmd}
        /\ pageCall'[c].late = (pageCall[c].late \/ pageCall[c].answer # "none")
        /\ pageCall'[c].answer = pageCall[c].answer /\ pageCall'[c].begun = pageCall[c].begun
        /\ pageCall'[c].focus = "unproven" => pageCall[c].focus = "unproven"
        /\ pageCall'[c].focus = "proven" => pageCall[c].focus = "proven" /\ doc = page.doc
    BY <1>3, <1>5, MovedEffect
  <1>9. /\ Steps(c)' = Steps(c) /\ Path(c)' = Path(c) /\ Wire(c)' = Wire(c) \ {cmd}
        /\ Active(c)' <=> Active(c)
        /\ StepOf(c)' = StepOf(c)
        /\ \A step : Behind(c, step)' <=> Behind(c, step)
        /\ FocusChecked(c)' <=> FocusChecked(c)
    BY <1>8 DEF Steps, Path, Tool, Wire, Active, StepOf, Behind, FocusChecked
  <1>10. pageCall[c].begun /\ (Active(c) \/ pageCall[c].answer # "none")
    BY <1>1, <1>7 DEF CallOK, Wire, NoPageCall, Active, PageCalls
  <1>11. CallOK(c)'
    <2>1. cmd \in pageCall[c].sent
      BY <1>1 DEF Wire
    <2> QED BY <1>7, <1>8, <1>9, <1>10, <2>1 DEF CallOK
  <1>12. Aimed(c)'
    BY <1>4, <1>7, <1>8, <1>9 DEF Aimed
  <1>13. SeenInv(c)'
    <2>1. CASE cmd \in ShadowActing
      <3>1. pageCall'[c].late \/ (Active(c)' /\ pageCall'[c].applied \cap ShadowActing # {})
        BY <2>1, <1>8, <1>9, <1>10
      <3> QED BY <3>1 DEF SeenInv, SeenBy
    <2>2. CASE cmd \notin ShadowActing
      <3>1. page'.effects = page.effects
        BY <2>2, <1>4
      <3>2. pageCall[c].applied \cap ShadowActing \subseteq pageCall'[c].applied \cap ShadowActing
        BY <1>8
      <3>3. pageCall'[c].late \/ pageCall'[c].late = pageCall[c].late
        BY <1>7, <1>8 DEF PageCalls
      <3> QED BY <3>1, <3>2, <3>3, <1>1, <1>7, <1>8, <1>9 DEF SeenInv, SeenBy
    <2> QED BY <2>1, <2>2
  <1>14. ASSUME NEW d \in PageCallers \ {c} PROVE CallOK(d)' /\ Aimed(d)' /\ SeenInv(d)'
    <2>1. page'.effects \cap {d} = page.effects \cap {d}
      BY <1>4, <1>14
    <2>2. CASE pageCall'[d] = Moved[d]
      BY <2>1, <2>2, <1>1, MovedKeeps
    <2>3. CASE pageCall'[d] = pageCall[d] /\ doc = page.doc
      <3>1. /\ CallOK(d) /\ Aimed(d) /\ SeenInv(d)
            /\ page'.doc = page.doc /\ (page.focused => page'.focused)
        BY <2>3, <1>4 DEF PageInv
      <3>2. /\ Steps(d)' = Steps(d) /\ Path(d)' = Path(d) /\ Wire(d)' = Wire(d)
            /\ Active(d)' <=> Active(d)
            /\ StepOf(d)' = StepOf(d)
            /\ \A step : Behind(d, step)' <=> Behind(d, step)
            /\ FocusChecked(d)' <=> FocusChecked(d)
        BY <2>3 DEF Steps, Path, Tool, Wire, Active, StepOf, Behind, FocusChecked
      <3>3. CallOK(d)'
        BY <2>1, <2>3, <3>1, <3>2 DEF CallOK
      <3>4. Aimed(d)'
        BY <2>3, <3>1, <3>2 DEF Aimed
      <3>5. SeenInv(d)'
        BY <2>1, <2>3, <3>1, <3>2, <1>1 DEF SeenInv, SeenBy
      <3> QED BY <3>3, <3>4, <3>5
    <2> QED BY <2>2, <2>3, <1>3, <1>6, <1>14
  <1>15. PageTypeOK'
    BY <1>1, <1>4, <1>6 DEF PageInv, PageTypeOK, PageCalls
  <1> QED BY <1>11, <1>12, <1>13, <1>14, <1>15 DEF PageInv

-----------------------------------------------------------------------------
(* web_tree.                                                               *)
LEMMA ReadingKeeps ==
  ASSUME PageInv, Reading
  PROVE  PageInv'
  <1>1. pageCall' = pageCall
    BY DEF Reading, StartReading, ReadTree, SnapshotPage, AbandonReading
  <1>2. PageTypeOK /\ \A c \in PageCallers : CallOK(c) /\ Aimed(c) /\ SeenInv(c)
    BY DEF PageInv
  <1>3. ASSUME page'.doc = page.doc, page'.focused = page.focused,
               page'.effects = page.effects
        PROVE  \A c \in PageCallers : CallOK(c)' /\ Aimed(c)'
    BY <1>1, <1>2, <1>3 DEF CallOK, Aimed, Active, Behind, FocusChecked, StepOf, Steps,
       Path, Tool, Wire
  <1>4. CASE \E p \in {"persistent", "legacy"} : StartReading(p)
    <2>1. PICK p \in {"persistent", "legacy"} : StartReading(p)
      BY <1>4
    <2>2. /\ page' = [page EXCEPT !.reads = @ + 1] /\ page.reads < MaxPageReads
          /\ pageReading' = [provider |-> p, doc |-> page.doc, read |-> FALSE, sees |-> {},
                             raced |-> FALSE]
          /\ pageStore' = pageStore
      BY <2>1 DEF StartReading
    <2>3. page.reads + 1 \in 0..MaxPageReads
      BY <2>2, <1>2, PageTypes DEF PageTypeOK
    <2>4. /\ page'.doc = page.doc /\ page'.focused = page.focused
          /\ page'.effects = page.effects
      BY <2>2, <1>2 DEF PageTypeOK
    <2>5. PageTypeOK'
      BY <2>2, <2>3, <1>1, <1>2 DEF PageTypeOK, Paths
    <2>6. \A c \in PageCallers : SeenInv(c)'
      BY <2>2, <2>4, <1>1, <1>2 DEF SeenInv, SeenBy, Path, Active
    <2> QED BY <2>4, <2>5, <2>6, <1>3 DEF PageInv
  <1>5. CASE ReadTree
    <2>1. /\ pageReading # NoSnapshot /\ UNCHANGED <<page, pageStore>>
          /\ pageReading' = [pageReading EXCEPT !.read = TRUE, !.sees = page.effects]
      BY <1>5 DEF ReadTree
    <2>2. PageTypeOK' /\ pageReading'.sees = page.effects
      BY <2>1, <1>1, <1>2 DEF PageTypeOK
    <2>3. \A c \in PageCallers : SeenInv(c)'
      BY <2>1, <2>2, <1>1, <1>2 DEF SeenInv, SeenBy, Path, Active
    <2> QED BY <2>1, <2>2, <2>3, <1>3 DEF PageInv
  <1>6. CASE SnapshotPage
    <2> DEFINE s0 == [provider |-> pageReading.provider, doc |-> pageReading.doc,
                      sees |-> pageReading.sees, raced |-> pageReading.raced]
    <2>1. /\ pageReading # NoSnapshot /\ pageReading.read /\ UNCHANGED page
          /\ pageStore' = pageStore \cup {s0} /\ pageReading' = NoSnapshot
      BY <1>6 DEF SnapshotPage
    <2>2. s0 \in Snapshots
      BY <2>1, <1>2 DEF PageTypeOK, Snapshots
    <2>3. PageTypeOK'
      BY <2>1, <2>2, <1>1, <1>2 DEF PageTypeOK
    <2>4. \A c \in PageCallers : SeenInv(c)'
      BY <2>1, <1>1, <1>2 DEF SeenInv, SeenBy, Path, Active
    <2> QED BY <2>1, <2>3, <2>4, <1>3 DEF PageInv
  <1>7. CASE AbandonReading
    <2>1. UNCHANGED <<page, pageStore>> /\ pageReading' = NoSnapshot
      BY <1>7 DEF AbandonReading
    <2>2. PageTypeOK'
      BY <2>1, <1>1, <1>2 DEF PageTypeOK
    <2>3. \A c \in PageCallers : SeenInv(c)'
      BY <2>1, <1>1, <1>2 DEF SeenInv, SeenBy, Path, Active
    <2> QED BY <2>1, <2>2, <2>3, <1>3 DEF PageInv
  <1> QED BY <1>4, <1>5, <1>6, <1>7 DEF Reading

-----------------------------------------------------------------------------
LEMMA PageInvStep ==
  PageInv /\ [ShadowNext]_pageVars => PageInv'
  <1> SUFFICES ASSUME PageInv, [ShadowNext]_pageVars PROVE PageInv'
    OBVIOUS
  <1>1. ASSUME NEW c \in PageCallers, NEW tool \in PageTools[c],
               NEW snap \in pageStore \cup {NoSnapshot}, BeginCall(c, tool, snap)
        PROVE  PageInv'
    BY <1>1, BeginCallKeeps
  <1>2. ASSUME NEW c \in PageCallers, HandleCall(c) PROVE PageInv'
    BY <1>1, <1>2, EnterLaneKeeps, LeaveQueueKeeps, CheckKeeps, SendKeeps, ReplyKeeps,
       EndingKeeps
       DEF HandleCall
  <1>3. CASE BrowserMoves
    BY <1>3, PageMovesKeeps, ApplyKeeps DEF BrowserMoves
  <1>4. CASE Reading
    BY <1>4, ReadingKeeps
  <1>5. CASE UNCHANGED pageVars
    BY <1>5 DEF pageVars, PageInv, PageTypeOK, CallOK, Aimed, SeenInv, SeenBy, Active,
       Behind,
                FocusChecked, StepOf, Steps, Path, Tool, Wire
  <1> QED BY <1>2, <1>3, <1>4, <1>5 DEF ShadowNext

LEMMA PageInvInit == ShadowInit => PageInv
  <1> SUFFICES ASSUME ShadowInit PROVE PageInv
    OBVIOUS
  <1>1. /\ page = [doc |-> 0, focused |-> FALSE, effects |-> {}, reads |-> 0]
        /\ pageCall = [c \in PageCallers |-> NoPageCall]
        /\ pageStore = {} /\ pageReading = NoSnapshot
    BY DEF ShadowInit
  <1>2. NoPageCall \in PageCalls
    BY DEF PageCalls, NoPageCall, ShadowAnswers, Paths, CdpTools
  <1>3. PageTypeOK
    BY <1>1, <1>2, PageAssumption DEF PageTypeOK, PageCalls
  <1>4. ASSUME NEW c \in PageCallers PROVE CallOK(c) /\ Aimed(c) /\ SeenInv(c)
    <2>1. pageCall[c] = NoPageCall /\ ~Active(c) /\ Wire(c) = {}
      BY <1>1 DEF Active, Wire, NoPageCall
    <2> QED BY <1>1, <2>1 DEF CallOK, Aimed, SeenInv, SeenBy, NoPageCall
  <1> QED BY <1>3, <1>4 DEF PageInv

(* The state of the shadow tools has its types.                            *)
THEOREM PageTypeCorrect == ShadowSpec => []PageTypeOK
  <1>1. PageInv => PageTypeOK
    BY DEF PageInv
  <1> QED BY PageInvInit, PageInvStep, <1>1, PTL DEF ShadowSpec

(* No snapshot that can be resolved shows the page from before an effect   *)
(* that its call has confirmed or called uncertain (invalidate_target).    *)
THEOREM PageSnapshotsAreCurrent == ShadowSpec => []PageSnapshotsCurrent
  <1>1. ASSUME PageInv PROVE PageSnapshotsCurrent
    <2> SUFFICES ASSUME NEW s \in pageStore, NEW c \in page.effects,
                        s.provider = Path(c), c \notin s.sees, ~pageCall[c].late, ~s.raced
                 PROVE  pageCall[c].answer \in {"none", "cancelled"}
      BY DEF PageSnapshotsCurrent
    <2>1. c \in PageCallers /\ CallOK(c) /\ SeenInv(c)
      BY <1>1, PageTypes DEF PageInv
    <2>2. SeenBy(c, s.provider, s.sees, s.raced)
      BY <2>1 DEF SeenInv
    <2> QED BY <2>1, <2>2 DEF SeenBy, CallOK
  <1> QED BY PageInvInit, PageInvStep, <1>1, PTL DEF ShadowSpec

-----------------------------------------------------------------------------
(* What one step may answer, and what it may put on the page.              *)
HonestStep(c) ==
  pageCall'[c].answer # pageCall[c].answer =>
    /\ pageCall'[c].answer \in {"retry", "stale"} => pageCall[c].sent \cap ShadowActing = {}
    /\ pageCall'[c].answer = "notsent" => "text" \notin pageCall[c].sent
    /\ pageCall'[c].answer = "done" => Wire(c) = {}

TextStep(c) ==
  "text" \in pageCall'[c].applied \ pageCall[c].applied =>
    \/ pageCall[c].focus = "moved"
    \/ page.focused /\ page.doc = pageCall[c].snap.doc

LEMMA EndCallAnswers ==
  ASSUME PageInv, NEW c \in PageCallers, Active(c),
         NEW a \in ShadowAnswers \ {"none"}, NEW invalidates \in BOOLEAN,
         EndCall(c, a, invalidates), TrueOf(c, a)
  PROVE  \A d \in PageCallers : HonestStep(d) /\ TextStep(d)
  <1>1. pageCall' = Ended(c, a) /\ pageCall[c] \in PageCalls
    BY AtWork DEF EndCall
  <1>2. \A d \in PageCallers \ {c} : pageCall'[d] = pageCall[d]
    BY <1>1, PageTypes DEF Ended
  <1>3. /\ pageCall'[c].applied = {}
        /\ pageCall'[c].answer \in {pageCall[c].answer, a, "partial"}
    <2>1. CASE Tool(c) = "type" /\ pageCall[c].fields = 2 /\ a \notin {"unknown", "cancelled"}
      <3>1. pageCall'[c] = [pageCall[c] EXCEPT !.pc = 1, !.fields = 1, !.sent = {},
                              !.applied = {}, !.failed = (a # "done"), !.focus = "unproven"]
        BY <1>1, <2>1, PageTypes DEF Ended
      <3> QED BY <1>1, <3>1 DEF PageCalls
    <2>2. CASE ~(Tool(c) = "type" /\ pageCall[c].fields = 2 /\ a \notin {"unknown", "cancelled"})
      <3> DEFINE answer == IF pageCall[c].failed /\ a \notin {"unknown", "cancelled"}
                           THEN "partial" ELSE a
                 snap == IF Wire(c) = {} THEN NoSnapshot ELSE pageCall[c].snap
                 ended == [pageCall[c] EXCEPT !.pc = 0, !.sent = Wire(c), !.applied = {},
                             !.fields = 1, !.failed = FALSE, !.snap = snap, !.answer = answer]
      <3>1. pageCall' = [pageCall EXCEPT ![c] = ended]
        BY <1>1, <2>2 DEF Ended
      <3>2. answer \in {a, "partial"}
        OBVIOUS
      <3> HIDE DEF answer, snap
      <3>3. ended.applied = {} /\ ended.answer = answer
        BY <1>1 DEF PageCalls
      <3> HIDE DEF ended
      <3> QED BY <3>1, <3>2, <3>3, PageTypes
    <2> QED BY <2>1, <2>2
  <1>4. HonestStep(c) /\ TextStep(c)
    BY <1>3 DEF HonestStep, TextStep, TrueOf
  <1>5. \A d \in PageCallers \ {c} : HonestStep(d) /\ TextStep(d)
    BY <1>2 DEF HonestStep, TextStep
  <1> QED BY <1>4, <1>5

(* Steps that answer nothing and put nothing on the page.                  *)
LEMMA SilentSteps ==
  ASSUME PageInv, NEW c \in PageCallers,
         EnterLane(c) \/ Check(c) \/ Send(c) \/ Reply(c)
  PROVE  \A d \in PageCallers : HonestStep(d) /\ TextStep(d)
  <1>1. \A d \in PageCallers : pageCall'[d].answer = pageCall[d].answer
                               /\ pageCall'[d].applied = pageCall[d].applied
    BY PageTypes DEF EnterLane, Check, Send, Reply, PageCalls
  <1> QED BY <1>1 DEF HonestStep, TextStep

LEMMA ApplyAims ==
  ASSUME PageInv, NEW c \in PageCallers, NEW cmd \in Commands, Apply(c, cmd)
  PROVE  \A d \in PageCallers : HonestStep(d) /\ TextStep(d)
  <1> DEFINE doc == CASE Tool(c) = "navigate" /\ page.doc < MaxDoc -> page.doc + 1
                      [] Tool(c) = "close" -> MaxDoc + 1
                      [] OTHER -> page.doc
             before == IF doc # page.doc THEN Moved ELSE pageCall
  <1>1. /\ cmd \in Wire(c)
        /\ pageCall' = [before EXCEPT ![c].applied = @ \cup {cmd},
                                      ![c].late = @ \/ pageCall[c].answer # "none"]
    BY DEF Apply
  <1>2. /\ before \in [PageCallers -> PageCalls]
        /\ \A d \in PageCallers : before[d].answer = pageCall[d].answer
                                  /\ before[d].applied = pageCall[d].applied
    BY MovedEffect, PageTypes
  <1> HIDE DEF doc, before
  <1>3. /\ \A d \in PageCallers : pageCall'[d].answer = pageCall[d].answer
        /\ \A d \in PageCallers \ {c} : pageCall'[d].applied = pageCall[d].applied
        /\ pageCall'[c].applied = pageCall[c].applied \cup {cmd}
    BY <1>1, <1>2 DEF PageCalls
  <1>4. cmd = "text" => TextStep(c)
    BY <1>1, PageTypes DEF TextStep, PageInv, Aimed, PageCalls
  <1> QED BY <1>3, <1>4 DEF HonestStep, TextStep

LEMMA StepsAreHonest ==
  ASSUME PageInv, [ShadowNext]_pageVars
  PROVE  \A c \in PageCallers : HonestStep(c) /\ TextStep(c)
  <1>1. ASSUME NEW c \in PageCallers, NEW tool \in PageTools[c],
               NEW snap \in pageStore \cup {NoSnapshot}, BeginCall(c, tool, snap)
        PROVE  \A d \in PageCallers : HonestStep(d) /\ TextStep(d)
    <2>1. PICK fields : pageCall' = [pageCall EXCEPT ![c] =
            [NoPageCall EXCEPT !.tool = tool, !.snap = snap, !.fields = fields, !.begun = TRUE]]
      BY <1>1 DEF BeginCall
    <2>2. /\ \A d \in PageCallers \ {c} : pageCall'[d] = pageCall[d]
          /\ pageCall'[c].answer = "none" /\ pageCall'[c].applied = {}
      BY <2>1, PageTypes DEF NoPageCall
    <2> QED BY <2>2 DEF HonestStep, TextStep
  <1>2. ASSUME NEW c \in PageCallers, LeaveQueue(c)
        PROVE  \A d \in PageCallers : HonestStep(d) /\ TextStep(d)
    <2>1. PICK a \in {"retry", "cancelled"} : pageCall' = [pageCall EXCEPT ![c].answer = a]
      BY <1>2 DEF LeaveQueue
    <2>2. pageCall[c].sent = {}
      BY <1>2 DEF LeaveQueue, PageInv, CallOK
    <2>3. /\ \A d \in PageCallers \ {c} : pageCall'[d] = pageCall[d]
          /\ pageCall'[c].answer = a /\ pageCall'[c].applied = pageCall[c].applied
      BY <2>1, PageTypes DEF PageCalls
    <2> QED BY <2>2, <2>3 DEF HonestStep, TextStep
  <1>3. ASSUME NEW c \in PageCallers, HandleCall(c)
        PROVE  \A d \in PageCallers : HonestStep(d) /\ TextStep(d)
    <2>1. CASE Finish(c)
      BY <2>1, FinishEnds, EndCallAnswers DEF Finish, ShadowAnswers
    <2>2. CASE \E why \in {"refused", "error", "deadline"} : Fail(c, why)
      BY <2>2, FailEnds, EndCallAnswers DEF Fail
    <2>3. CASE Cancel(c)
      BY <2>3, EndCallAnswers DEF Cancel, ShadowAnswers, TrueOf
    <2> QED BY <2>1, <2>2, <2>3, <1>1, <1>2, <1>3, SilentSteps DEF HandleCall
  <1>4. CASE BrowserMoves
    <2>1. CASE PageNavigates \/ FocusMoves
      <3>1. pageCall' = Moved
        BY <2>1 DEF PageNavigates, FocusMoves
      <3> QED BY <3>1, MovedEffect DEF HonestStep, TextStep
    <2>2. CASE \E c \in PageCallers, cmd \in Commands : Apply(c, cmd)
      BY <2>2, ApplyAims
    <2> QED BY <1>4, <2>1, <2>2 DEF BrowserMoves
  <1>5. CASE Reading
    <2>1. pageCall' = pageCall
      BY <1>5 DEF Reading, StartReading, ReadTree, SnapshotPage, AbandonReading
    <2> QED BY <2>1 DEF HonestStep, TextStep
  <1>6. CASE UNCHANGED pageVars
    BY <1>6 DEF pageVars, HonestStep, TextStep
  <1> QED BY <1>3, <1>4, <1>5, <1>6 DEF ShadowNext

(* The answers of the shadow tools are true: a plain error or              *)
(* STALE_SNAPSHOT comes from a call that sent nothing that acts, "text was *)
(* not sent" from one that sent no text, a success from one whose commands *)
(* were all carried out.                                                   *)
THEOREM PageAnswersAreHonest == ShadowSpec => HonestPageAnswers
  <1>1. ASSUME PageInv, [ShadowNext]_pageVars
        PROVE  [\A c \in PageCallers : pageCall'[c].answer # pageCall[c].answer =>
                  /\ pageCall'[c].answer \in {"retry", "stale"} =>
                       pageCall[c].sent \cap ShadowActing = {}
                  /\ pageCall'[c].answer = "notsent" => "text" \notin pageCall[c].sent
                  /\ pageCall'[c].answer = "done" => Wire(c) = {}]_pageVars
    BY <1>1, StepsAreHonest DEF HonestStep
  <1> QED BY PageInvInit, PageInvStep, <1>1, PTL DEF ShadowSpec, HonestPageAnswers

(* Text reaches the element whose focus was proven, unless the page moved  *)
(* after the proof, even if its caller has gone.                           *)
THEOREM TextReachesItsElement == ShadowSpec => TextOnTarget
  <1>1. ASSUME PageInv, [ShadowNext]_pageVars
        PROVE  [\A c \in PageCallers :
                  "text" \in pageCall'[c].applied \ pageCall[c].applied
                    => \/ pageCall[c].focus = "moved"
                       \/ page.focused /\ page.doc = pageCall[c].snap.doc]_pageVars
    BY <1>1, StepsAreHonest DEF TextStep
  <1> QED BY PageInvInit, PageInvStep, <1>1, PTL DEF ShadowSpec, TextOnTarget

(* One mutation is at work on a page through each lane (execute_shadow):   *)
(* the CDP transports share a lane, Apple Events have another.             *)
OnePerLane ==
  \A c, d \in PageCallers : Active(c) /\ Active(d) /\ Lane(c) = Lane(d) => c = d

(* Only EnterLane lets a call in, and a call keeps its lane.               *)
LEMMA LanesAreKept ==
  ASSUME PageInv, [ShadowNext]_pageVars,
         \A c \in PageCallers : ~EnterLane(c)
  PROVE  \A d \in PageCallers : Active(d)' => Active(d) /\ Lane(d)' = Lane(d)
  <1> USE PageTypes DEF PageCalls, Active, Lane, Path
  <1>1. ASSUME NEW c \in PageCallers, NEW a, NEW invalidates, Active(c),
               EndCall(c, a, invalidates)
        PROVE  \A d \in PageCallers : Active(d)' => Active(d) /\ Lane(d)' = Lane(d)
    BY <1>1 DEF EndCall, Ended
  <1>2. ASSUME NEW c \in PageCallers, HandleCall(c)
        PROVE  \A d \in PageCallers : Active(d)' => Active(d) /\ Lane(d)' = Lane(d)
    <2>1. CASE \E tool \in PageTools[c], snap \in pageStore \cup {NoSnapshot} :
                 BeginCall(c, tool, snap)
      BY <2>1 DEF BeginCall, NoPageCall
    <2>2. CASE LeaveQueue(c)
      BY <2>2 DEF LeaveQueue
    <2>3. CASE Check(c) \/ Send(c) \/ Reply(c)
      BY <2>3 DEF Check, Send, Reply
    <2>4. CASE Finish(c)
      BY <2>4, <1>1 DEF Finish
    <2>5. CASE \E why \in {"refused", "error", "deadline"} : Fail(c, why)
      <3>1. Active(c) /\ \E a, invalidates : EndCall(c, a, invalidates)
        BY <2>5, FailEnds DEF Fail
      <3> QED BY <3>1, <1>1
    <2>6. CASE Cancel(c)
      BY <2>6, <1>1 DEF Cancel
    <2> QED BY <1>2, <2>1, <2>2, <2>3, <2>4, <2>5, <2>6 DEF HandleCall
  <1>3. CASE BrowserMoves
    <2>1. CASE PageNavigates \/ FocusMoves
      BY <2>1, MovedEffect DEF PageNavigates, FocusMoves
    <2>2. ASSUME NEW c \in PageCallers, NEW cmd \in Commands, Apply(c, cmd)
          PROVE  \A d \in PageCallers : Active(d)' => Active(d) /\ Lane(d)' = Lane(d)
      BY <2>2, MovedEffect DEF Apply
    <2> QED BY <1>3, <2>1, <2>2 DEF BrowserMoves
  <1>4. CASE Reading
    BY <1>4 DEF Reading, StartReading, ReadTree, SnapshotPage, AbandonReading
  <1>5. CASE UNCHANGED pageVars
    BY <1>5 DEF pageVars
  <1> QED BY <1>2, <1>3, <1>4, <1>5 DEF ShadowNext

(* One mutation at a time is at work on a page through each of its two     *)
(* lanes (execute_shadow's lock of the target).                            *)
THEOREM PageLanesAreSerial == ShadowSpec => []OnePerLane
  <1>1. ShadowInit => OnePerLane
    BY DEF ShadowInit, NoPageCall, OnePerLane, Active
  <1>2. PageInv /\ OnePerLane /\ [ShadowNext]_pageVars => OnePerLane'
    <2> SUFFICES ASSUME PageInv, OnePerLane, [ShadowNext]_pageVars PROVE OnePerLane'
      OBVIOUS
    <2>1. ASSUME NEW c \in PageCallers, EnterLane(c) PROVE OnePerLane'
      <3>1. \A d \in PageCallers : /\ Lane(d)' = Lane(d)
                                   /\ d # c => Active(d)' = Active(d)
        BY <2>1, PageTypes DEF EnterLane, PageCalls, Active, Lane, Path
      <3>2. \A d \in PageCallers : Active(d) => Lane(d) # Lane(c)
        BY <2>1 DEF EnterLane
      <3> QED BY <3>1, <3>2 DEF OnePerLane
    <2>2. CASE \A c \in PageCallers : ~EnterLane(c)
      BY <2>2, LanesAreKept DEF OnePerLane
    <2> QED BY <2>1, <2>2
  <1> QED BY PageInvInit, PageInvStep, <1>1, <1>2, PTL DEF ShadowSpec

-----------------------------------------------------------------------------
(* The three modes share no state: a behaviour of the tools is one of each *)
(* of them.                                                                *)
LEMMA EachMode == ToolsSpec => OSpec /\ NativeSpec /\ ShadowSpec
  <1>1. ToolsInit => OInit /\ NativeInit /\ ShadowInit
    BY DEF ToolsInit
  <1>2. [ToolsNext]_toolVars => [ONext]_ovars /\ [NativeNext]_nativeVars /\ [ShadowNext]_pageVars
    BY DEF ToolsNext, ObserveStep, ForegroundStep, ShadowStep, Rest, toolVars
  <1> QED BY <1>1, <1>2, PTL DEF ToolsSpec, OSpec, NativeSpec, ShadowSpec

(* What a client is told is true, in either mode that acts: of the         *)
(* foreground as NativeAnswersAreHonest says, with its exceptions; of a    *)
(* page as PageAnswersAreHonest does.                                      *)
THEOREM AnswersAreHonest == ToolsSpec => AnswersHonest
  BY EachMode, NativeAnswersAreHonest, PageAnswersAreHonest, PTL DEF AnswersHonest

(* No snapshot, in either mode, is from before an effect whose call ended  *)
(* uncertainly, or succeeded with a tool that invalidates when it does: in *)
(* the foreground app, window and close_tab only.                          *)
THEOREM StoresAreCurrent == ToolsSpec => []StoresCurrent
  BY EachMode, NativeSnapshotsAreCurrent, PageSnapshotsAreCurrent, PTL DEF StoresCurrent

(* Input of a call that names an application, and text of any call, goes   *)
(* where it was proven to go, unless something was moved after the proof;  *)
(* FrontIsProven is what close_tab takes for granted.                      *)
THEOREM InputIsProven ==
  ASSUME FrontIsProven
  PROVE  ToolsSpec => InputProven
  BY EachMode, InputReachesItsTarget, TextReachesItsElement, PTL DEF InputProven
=============================================================================
