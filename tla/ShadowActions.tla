--------------------------- MODULE ShadowActions ---------------------------
(***************************************************************************)
(* The explicit shadow tools of server.py on one browser page: click,      *)
(* type, fill_form, upload, press_key, scroll, drag, dialog, close_tab,    *)
(* navigate and js, through the persistent connection (cdp_persistent.py), *)
(* the legacy one (cdp.py) or Apple Events (applescript.py).  A tool is    *)
(* the script of the checks and commands that its handler goes through in  *)
(* its lane; the page changes between any two of them, and a command that  *)
(* was sent takes effect later, never, or after its caller has gone.       *)
(* web_tree and pierce read the page outside of the lanes.                 *)
(***************************************************************************)
EXTENDS Naturals, Sequences, FiniteSets

CONSTANTS
  PageCallers,   \* each makes one call
  PageTools,     \* PageTools[c]: the <<path, tool>> pairs that c may call
  MaxDoc,        \* bound: navigations of the page
  MaxPageReads,  \* bound: web_tree readings
  NoSnapshot     \* a model value

VARIABLES
  page,        \* the browser: document, focus, effects of the calls
  pageCall,    \* pageCall[c]: the call of c
  pageStore,   \* the snapshots of the page that can be resolved
  pageReading  \* the web_tree in progress, or NoSnapshot

pageVars == <<page, pageCall, pageStore, pageReading>>

-----------------------------------------------------------------------------
\* What the handlers go through, persistent, legacy and Apple Events.
ShadowClick == <<"current", "node", "current", "semantics", "act">>

\* A mutant of Type: the text is sent without a proof of the focus.
UncheckedType == <<"current", "node", "current", "semantics", "focus", "current",
                   "text", "value">>

ShadowType == <<"current", "node", "current", "semantics", "focus", "focused", "current",
                "text", "value">>
Upload == <<"current", "current", "act">>
ShadowPressKey == <<"down", "up">>
ShadowScroll == <<"act">>
ShadowDrag == <<"down", "act", "up">>
Dialog == <<"act">>
CloseTarget == <<"act">>
Navigate == <<"enable", "act", "loaded">>
Evaluate == <<"enable", "act">>

ClickElement == <<"tabs", "enable", "current", "node", "current", "semantics", "act">>
TypeText == <<"tabs", "enable", "current", "node", "current", "semantics", "focus",
              "focused", "current", "text">>
SetFileInput == <<"tabs", "enable", "current", "node", "current", "act">>
LegacyPressKey == <<"down", "up">>
LegacyScroll == <<"act">>
LegacyDrag == <<"down", "act", "up">>
LegacyDialog == <<"enable", "act">>
LegacyClose == <<"act">>
LegacyNavigate == <<"enable", "act", "loaded">>
LegacyEvaluate == <<"act">>

AppleAction == <<"act">>

ShadowScript(path, tool) ==
  LET persistent == [click |-> ShadowClick, type |-> ShadowType, upload |-> Upload,
                     key |-> ShadowPressKey, scroll |-> ShadowScroll, drag |-> ShadowDrag,
                     dialog |-> Dialog, close |-> CloseTarget, navigate |-> Navigate,
                     js |-> Evaluate]
      legacy == [click |-> ClickElement, type |-> TypeText, upload |-> SetFileInput,
                 key |-> LegacyPressKey, scroll |-> LegacyScroll, drag |-> LegacyDrag,
                 dialog |-> LegacyDialog, close |-> LegacyClose,
                 navigate |-> LegacyNavigate, js |-> LegacyEvaluate]
  IN  CASE path = "persistent" -> persistent[tool]
        [] path = "legacy" -> legacy[tool]
        [] path = "apple" -> AppleAction

ShadowActing == {"act", "text", "down", "up"}
Commands == ShadowActing \cup {"focus"}
OnElement == {"click", "type", "upload"}

-----------------------------------------------------------------------------
Paths == {"persistent", "legacy", "apple"}
CdpTools == {"click", "type", "upload", "key", "scroll", "drag", "dialog", "close",
             "navigate", "js"}

ASSUME PageAssumption ==
  /\ MaxDoc \in Nat /\ MaxPageReads \in Nat
  /\ PageTools \in [PageCallers -> SUBSET (Paths \X CdpTools)]

ShadowAnswers == {"none", "done", "retry", "stale", "notsent", "unknown", "warning",
                  "partial", "cancelled"}
Snapshots ==
  [provider : Paths, doc : 0..MaxDoc + 1, sees : SUBSET PageCallers, raced : BOOLEAN]

NoPageCall ==
  [tool |-> <<"persistent", "js">>, snap |-> NoSnapshot, pc |-> 0, sent |-> {},
   applied |-> {}, fields |-> 1, failed |-> FALSE, focus |-> "unproven",
   late |-> FALSE, answer |-> "none", begun |-> FALSE]

PageTypeOK ==
  /\ page \in [doc : 0..MaxDoc + 1, focused : BOOLEAN, effects : SUBSET PageCallers,
               reads : 0..MaxPageReads]
  /\ pageCall \in [PageCallers ->
       [tool : Paths \X CdpTools, snap : Snapshots \cup {NoSnapshot}, pc : 0..11,
        sent : SUBSET Commands, applied : SUBSET Commands, fields : 1..2,
        failed : BOOLEAN, focus : {"unproven", "proven", "moved"},
        late : BOOLEAN, answer : ShadowAnswers, begun : BOOLEAN]]
  /\ pageStore \subseteq Snapshots
  /\ pageReading \in [provider : Paths, doc : 0..MaxDoc + 1, read : BOOLEAN,
                      sees : SUBSET PageCallers, raced : BOOLEAN] \cup {NoSnapshot}

ShadowInit ==
  /\ page = [doc |-> 0, focused |-> FALSE, effects |-> {}, reads |-> 0]
  /\ pageCall = [c \in PageCallers |-> NoPageCall]
  /\ pageStore = {} /\ pageReading = NoSnapshot

-----------------------------------------------------------------------------
Path(c) == pageCall[c].tool[1]
Tool(c) == pageCall[c].tool[2]
Steps(c) == ShadowScript(Path(c), Tool(c))
Active(c) == pageCall[c].pc > 0
StepOf(c) == IF pageCall[c].pc \in 1..Len(Steps(c)) THEN Steps(c)[pageCall[c].pc] ELSE "end"
Wire(c) == pageCall[c].sent \ pageCall[c].applied

\* The lanes of execute_shadow: CDP target ids and Apple Events ids differ.
Lane(c) == IF Path(c) = "apple" THEN "apple" ELSE "cdp"

\* _resolve_action_element: the snapshot is looked up before the lane is.
BeginCall(c, tool, snap) ==
  /\ ~pageCall[c].begun
  /\ tool[2] \in OnElement /\ tool[1] # "apple" => snap # NoSnapshot /\ snap.provider = tool[1]
  /\ tool[2] \notin OnElement \/ tool[1] = "apple" => snap = NoSnapshot
  /\ \E fields \in IF tool[2] = "type" THEN 1..2 ELSE {1} :
       pageCall' = [pageCall EXCEPT ![c] = [NoPageCall EXCEPT !.tool = tool, !.snap = snap,
                                       !.fields = fields, !.begun = TRUE]]
  /\ UNCHANGED <<page, pageStore, pageReading>>

EnterLane(c) ==
  /\ pageCall[c].begun /\ pageCall[c].pc = 0 /\ pageCall[c].answer = "none"
  /\ \A d \in PageCallers : Active(d) => Lane(d) # Lane(c)
  /\ pageCall' = [pageCall EXCEPT ![c].pc = 1]
  /\ UNCHANGED <<page, pageStore, pageReading>>

\* Out of budget, or cancelled, before the lane is granted.
LeaveQueue(c) ==
  /\ pageCall[c].begun /\ pageCall[c].pc = 0 /\ pageCall[c].answer = "none"
  /\ \E a \in {"retry", "cancelled"} : pageCall' = [pageCall EXCEPT ![c].answer = a]
  /\ UNCHANGED <<page, pageStore, pageReading>>

\* The document revision, and on the persistent connection the generation of
\* the session, are those of the snapshot: one number stands for both.
IsCurrent(c) == page.doc = pageCall[c].snap.doc

\* What a step that is no command finds out.
Passes(c) ==
  CASE StepOf(c) \in {"current", "node", "semantics"} -> IsCurrent(c)
    [] StepOf(c) = "tabs" -> page.doc <= MaxDoc
    [] StepOf(c) = "focused" -> page.focused
    [] OTHER -> TRUE

Check(c) ==
  /\ Active(c) /\ StepOf(c) \notin Commands \cup {"end"} /\ Passes(c)
  /\ pageCall' = [pageCall EXCEPT ![c].pc = @ + 1,
                              ![c].focus = IF StepOf(c) = "focused" THEN "proven" ELSE @]
  /\ UNCHANGED <<page, pageStore, pageReading>>

Send(c) ==
  /\ Active(c) /\ StepOf(c) \in Commands \ pageCall[c].sent
  /\ pageCall' = [pageCall EXCEPT ![c].sent = @ \cup {StepOf(c)}]
  /\ UNCHANGED <<page, pageStore, pageReading>>

Reply(c) ==
  /\ Active(c) /\ StepOf(c) \in pageCall[c].applied
  /\ pageCall' = [pageCall EXCEPT ![c].pc = @ + 1]
  /\ UNCHANGED <<page, pageStore, pageReading>>

-----------------------------------------------------------------------------
\* invalidate_target drops one provider's snapshots of the page.
Dropped(provider) ==
  /\ pageStore' = {s \in pageStore : s.provider # provider}
  /\ pageReading' = IF pageReading # NoSnapshot /\ pageReading.provider = provider
                    THEN [pageReading EXCEPT !.raced = TRUE] ELSE pageReading

\* fill_form goes on to its next field unless the last outcome is uncertain.
\* Of a call that has ended only what is still on its way to the page matters.
Ended(c, a) ==
  IF Tool(c) = "type" /\ pageCall[c].fields = 2 /\ a \notin {"unknown", "cancelled"}
  THEN [pageCall EXCEPT ![c] =
          [@ EXCEPT !.pc = 1, !.fields = 1, !.sent = {}, !.applied = {},
                    !.failed = (a # "done"), !.focus = "unproven"]]
  ELSE [pageCall EXCEPT ![c] =
          [@ EXCEPT !.pc = 0, !.sent = Wire(c), !.applied = {}, !.fields = 1,
                    !.failed = FALSE,
                    !.snap = IF Wire(c) = {} THEN NoSnapshot ELSE pageCall[c].snap,
                    !.answer = IF pageCall[c].failed /\ a \notin {"unknown", "cancelled"}
                               THEN "partial" ELSE a]]

EndCall(c, a, invalidates) ==
  /\ pageCall' = Ended(c, a)
  /\ IF invalidates THEN Dropped(Path(c)) ELSE UNCHANGED <<pageStore, pageReading>>
  /\ UNCHANGED page

\* A mutant of Finish: a success leaves the snapshots as they are.
FinishQuietly(c) == Active(c) /\ StepOf(c) = "end" /\ EndCall(c, "done", FALSE)

Finish(c) == Active(c) /\ StepOf(c) = "end" /\ EndCall(c, "done", TRUE)

\* A mutant of PersistentAnswer: a click counts as sent once it is confirmed.
ConfirmedAnswer(c) ==
  IF Tool(c) = "type"
  THEN IF "text" \in pageCall[c].applied THEN "warning"
       ELSE IF "text" \in pageCall[c].sent THEN "unknown"
       ELSE IF "focus" \in pageCall[c].sent THEN "notsent" ELSE "retry"
  ELSE IF Tool(c) \in {"click", "navigate", "js"} /\ "act" \notin pageCall[c].applied
       THEN "retry" ELSE "unknown"

\* The except clauses of the handlers.
PersistentAnswer(c) ==
  IF Tool(c) = "type"
  THEN IF StepOf(c) = "value" THEN "warning"
       ELSE IF "text" \in pageCall[c].sent THEN "unknown"
       ELSE IF "focus" \in pageCall[c].sent THEN "notsent" ELSE "retry"
  ELSE IF Tool(c) \in {"click", "navigate", "js"} /\ "act" \notin pageCall[c].sent
       THEN "retry" ELSE "unknown"

\* cdp.py: `dispatched', which type_text takes back once the focus is proven.
Dispatched(c) ==
  \/ pageCall[c].sent \cap ShadowActing # {}
  \/ StepOf(c) = "focused" \/ StepOf(c) \in {"focus"} \cap pageCall[c].sent

LegacyAnswer(c, why) ==
  IF StepOf(c) = "tabs" THEN "retry"
  ELSE IF why = "refused" THEN IF StepOf(c) = "focused" THEN "notsent" ELSE "stale"
  ELSE IF \/ why = "deadline" \/ Dispatched(c)
          \/ Tool(c) \notin {"click", "type", "navigate", "js"}
       THEN "unknown" ELSE "retry"

\* Any step may fail or run out of the budget, and a check may refuse.
Fail(c, why) ==
  /\ Active(c) /\ StepOf(c) # "end"
  /\ why = "refused" => ~Passes(c) /\ StepOf(c) \notin {"node", "tabs"}
  /\ CASE Path(c) = "persistent" ->
            LET a == PersistentAnswer(c) IN EndCall(c, a, a # "retry")
       [] Path(c) = "legacy" ->
            LET a == LegacyAnswer(c, why)
            IN  EndCall(c, a, a # "retry" \/ Tool(c) \in {"navigate", "js"})
       [] Path(c) = "apple" ->
            LET a == IF pageCall[c].sent = {} THEN "retry" ELSE "unknown"
            IN  EndCall(c, a, a = "unknown")

\* The client takes its request back: CancelledError is no Exception, but the
\* worker of Apple Events turns it into an uncertain outcome.
Cancel(c) ==
  /\ Active(c) /\ Path(c) # "apple"
  /\ EndCall(c, "cancelled", FALSE)

-----------------------------------------------------------------------------
\* The page moves: what was proven about the focus may not hold any more.
Moved ==
  [d \in PageCallers |->
     [pageCall[d] EXCEPT !.focus = IF @ = "proven" THEN "moved" ELSE @]]

\* A command takes effect on the page: what is bound to a node of a document
\* only there, text wherever the focus is.
Apply(c, cmd) ==
  LET here == pageCall[c].snap # NoSnapshot => pageCall[c].snap.doc = page.doc
      doc == CASE Tool(c) = "navigate" /\ page.doc < MaxDoc -> page.doc + 1
               [] Tool(c) = "close" -> MaxDoc + 1
               [] OTHER -> page.doc
  IN  /\ cmd \in Wire(c) /\ page.doc <= MaxDoc
      /\ cmd = "text" \/ here
      /\ page' = [page EXCEPT !.doc = doc,
                              !.focused = (cmd = "focus") \/ (@ /\ doc = page.doc),
                              !.effects = IF cmd \in ShadowActing THEN @ \cup {c} ELSE @]
      /\ pageCall' = [(IF doc # page.doc THEN Moved ELSE pageCall) EXCEPT
                     ![c].applied = @ \cup {cmd},
                     ![c].late = @ \/ pageCall[c].answer # "none"]
      /\ UNCHANGED <<pageStore, pageReading>>

PageNavigates ==
  /\ page.doc < MaxDoc
  /\ page' = [page EXCEPT !.doc = @ + 1, !.focused = FALSE]
  /\ pageCall' = Moved /\ UNCHANGED <<pageStore, pageReading>>

FocusMoves ==
  /\ page.focused
  /\ page' = [page EXCEPT !.focused = FALSE]
  /\ pageCall' = Moved /\ UNCHANGED <<pageStore, pageReading>>

-----------------------------------------------------------------------------
\* web_tree: the revision, the tree, the revision again, then a snapshot.
StartReading(provider) ==
  /\ pageReading = NoSnapshot /\ page.reads < MaxPageReads /\ page.doc <= MaxDoc
  /\ page' = [page EXCEPT !.reads = @ + 1]
  /\ pageReading' = [provider |-> provider, doc |-> page.doc, read |-> FALSE, sees |-> {},
                     raced |-> FALSE]
  /\ UNCHANGED <<pageCall, pageStore>>

ReadTree ==
  /\ pageReading # NoSnapshot /\ ~pageReading.read
  /\ pageReading' = [pageReading EXCEPT !.read = TRUE, !.sees = page.effects]
  /\ UNCHANGED <<page, pageCall, pageStore>>

SnapshotPage ==
  /\ pageReading # NoSnapshot /\ pageReading.read /\ pageReading.doc = page.doc
  /\ pageStore' = pageStore \cup {[provider |-> pageReading.provider, doc |-> pageReading.doc,
                                   sees |-> pageReading.sees, raced |-> pageReading.raced]}
  /\ pageReading' = NoSnapshot /\ UNCHANGED <<page, pageCall>>

AbandonReading ==
  /\ pageReading # NoSnapshot
  /\ pageReading' = NoSnapshot /\ UNCHANGED <<page, pageCall, pageStore>>

-----------------------------------------------------------------------------
HandleCall(c) ==
  \/ \E tool \in PageTools[c], snap \in pageStore \cup {NoSnapshot} : BeginCall(c, tool, snap)
  \/ EnterLane(c) \/ LeaveQueue(c) \/ Check(c) \/ Send(c) \/ Reply(c) \/ Finish(c)
  \/ \E why \in {"refused", "error", "deadline"} : Fail(c, why)
  \/ Cancel(c)

BrowserMoves ==
  \/ PageNavigates \/ FocusMoves
  \/ \E c \in PageCallers, cmd \in Commands : Apply(c, cmd)

Reading ==
  \/ \E p \in {"persistent", "legacy"} : StartReading(p)
  \/ ReadTree \/ SnapshotPage \/ AbandonReading

ShadowNext == BrowserMoves \/ Reading \/ \E c \in PageCallers : HandleCall(c)

ShadowSpec == ShadowInit /\ [][ShadowNext]_pageVars

-----------------------------------------------------------------------------
\* What an answer says is true whatever failed, and when: after a plain error
\* or STALE_SNAPSHOT nothing was sent that acts on the page, after "text was
\* not sent" no text was, and after a success every command was carried out.
HonestPageAnswers ==
  [][\A c \in PageCallers : pageCall'[c].answer # pageCall[c].answer =>
       /\ pageCall'[c].answer \in {"retry", "stale"} => pageCall[c].sent \cap ShadowActing = {}
       /\ pageCall'[c].answer = "notsent" => "text" \notin pageCall[c].sent
       /\ pageCall'[c].answer = "done" => Wire(c) = {}]_pageVars

\* Text only goes astray when the page navigated or moved the focus after the
\* focus of the exact element was proven.
TextOnTarget ==
  [][\A c \in PageCallers :
       "text" \in pageCall'[c].applied \ pageCall[c].applied
         => \/ pageCall[c].focus = "moved"
            \/ page.focused /\ page.doc = pageCall[c].snap.doc]_pageVars

\* Once a call has confirmed an effect or called it uncertain, no snapshot of
\* its provider shows the page as it was before, unless it was being read at
\* that moment or the command took effect only after the answer.
PageSnapshotsCurrent ==
  \A s \in pageStore, c \in page.effects :
    s.provider = Path(c) /\ c \notin s.sees /\ ~pageCall[c].late
      => s.raced \/ pageCall[c].answer \in {"none", "cancelled"}

=============================================================================
