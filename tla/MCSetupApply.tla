---------------------------- MODULE MCSetupApply ----------------------------
(***************************************************************************)
(* Two processes: agent-eyes setup, which also writes the skill, or init,  *)
(* beside init for the same client, or beside doctor.  Both select         *)
(* "config", and either may be planned before or after the other has       *)
(* written; both update the manifest.                                      *)
(***************************************************************************)
EXTENDS SetupApply, TLC

CONSTANTS p1, p2

Selection == p1 :> {"config", "skill"} @@ p2 :> {"config"}
Skill == {"skill"}
Group == <<"config", "skill">>

MCInit == /\ Init
          /\ <<command[p1], command[p2]>> \in
               {<<"setup", "init">>, <<"init", "init">>, <<"setup", "doctor">>}
          /\ file["skill"].eyes # "new"
          /\ manifest.tools = Targets

MCSpec == MCInit /\ [][Next]_vars /\ \A p \in Procs : WF_vars(Proceed(p))
=============================================================================
