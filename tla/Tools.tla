-------------------------------- MODULE Tools --------------------------------
(***************************************************************************)
(* The tools of the server: observe_target and the others that resolve a   *)
(* target, those that act on native applications, and those that act on a  *)
(* page of a browser in the shadow mode.  The three share no state here,   *)
(* so a behaviour is one of one of them.                                   *)
(***************************************************************************)
EXTENDS TargetObservation, NativeActions, ShadowActions

VARIABLE mode

toolVars == <<mode, ovars, nativeVars, pageVars>>

ToolsInit ==
  mode \in {"observe", "foreground", "shadow"} /\ OInit /\ NativeInit /\ ShadowInit

ObserveStep == mode = "observe" /\ ONext /\ UNCHANGED <<mode, nativeVars, pageVars>>
ForegroundStep == mode = "foreground" /\ NativeNext /\ UNCHANGED <<mode, ovars, pageVars>>
ShadowStep == mode = "shadow" /\ ShadowNext /\ UNCHANGED <<mode, ovars, nativeVars>>

\* The calls of the modes that act come to an end.
Rest == mode # "observe" /\ UNCHANGED toolVars

ToolsNext == ObserveStep \/ ForegroundStep \/ ShadowStep \/ Rest

ToolsSpec == ToolsInit /\ [][ToolsNext]_toolVars

-----------------------------------------------------------------------------
\* What a client is told is true, in either mode that acts.  Only
\* OUTCOME_UNKNOWN leaves something behind in a worker or on the page.  After
\* a success the deed of the call was reported or seen; after a failure, and
\* after a plain error, none was, except that type in the foreground may end
\* with a plain error after its text was typed or set.  For input that was
\* posted in part and is reported as failed the code vouches for nothing.
AnswersHonest == []HonestAnswers /\ HonestPageAnswers

\* No snapshot, in either mode, is from before an effect whose call has ended
\* with an uncertain outcome, or with a success of a tool that invalidates
\* when it succeeds.  In the foreground those are app, window and close_tab:
\* the snapshots survive a success of the others, whatever mcp-tools.md says
\* of it (SuccessInvalidates).
StoresCurrent == SnapshotsCurrent /\ PageSnapshotsCurrent

\* Input goes where it was proven to go: physical input of a call that names
\* an application to that, text to the exact element, the close shortcut to
\* the exact tab, unless something was moved after the last proof; and text
\* on a page to the element with the focus.
InputProven == InputOnTarget /\ TextOnTarget
=============================================================================
