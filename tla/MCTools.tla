------------------------------- MODULE MCTools -------------------------------
(***************************************************************************)
(* observe: two callers, one of which observes, two tabs.                  *)
(* foreground: a caller of every tool beside one that presses a key, in    *)
(* another application or in whatever is in front.                         *)
(* shadow: a caller of every CDP tool beside one that runs JavaScript,     *)
(* also through Apple Events.                                              *)
(***************************************************************************)
EXTENDS Tools, TLC

CONSTANTS c1, c2, t1, t2, a1, a2

BothTabs == {Tabs}
Symmetry == Permutations(Tabs)

MCNativeTools == c1 :> ToolNames @@ c2 :> {"key"}
MCPageTools == c1 :> ({"persistent", "legacy"} \X CdpTools)
               @@ c2 :> {<<"persistent", "js">>, <<"apple", "js">>}

MCAppOf == c1 :> a1 @@ c2 :> a2

\* The state of the other modes is one of its initial states.
MCInit ==
  /\ ToolsInit
  /\ mode # "observe" => visible = t1
  /\ mode # "foreground" => os.front = a1

MCSpec == MCInit /\ [][ToolsNext]_toolVars
=============================================================================
