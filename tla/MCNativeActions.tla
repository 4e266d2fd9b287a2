-------------------------- MODULE MCNativeActions --------------------------
(* A caller beside one that presses a key in another application or starts *)
(* it: it closes a tab, or it sends input.                                 *)
EXTENDS NativeActions, TLC

CONSTANTS c1, c2, a1, a2

ClosingTools == c1 :> {"closeTab"} @@ c2 :> {"app", "key"}
SendingTools == c1 :> {"type", "key", "scroll", "drag"} @@ c2 :> {"key"}
MCAppOf == c1 :> a1 @@ c2 :> a2
=============================================================================
