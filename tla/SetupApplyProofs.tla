-------------------------- MODULE SetupApplyProofs --------------------------
(***************************************************************************)
(* For any number of processes, targets and edits: no edit is lost, and a  *)
(* group of plans is applied whole or not at all.  SetupInv is inductive:  *)
(* the lock keeps the others out, so that between the classification and   *)
(* the last replacement a target only changes by an edit, which gives it a *)
(* number no plan has seen.  Each part has a lemma of its own, with a step *)
(* for each action.                                                        *)
(***************************************************************************)
EXTENDS SetupApply, TLAPS

(* The setup lock is held by the one process inside.                       *)
LEMMA LocksStep ==
  ASSUME OwnOK, OneInside, [Next]_vars
  PROVE  OneInside'
<1> USE SetupAssumption DEF OwnOK, OneInside, Critical, Stages, own, files, locks,
          ready
<1>1. CASE UNCHANGED vars
  BY <1>1 DEF vars
<1>2. ASSUME NEW p \in Procs, Doctor(p) PROVE OneInside'
  BY <1>2 DEF Doctor, Step
<1>3. ASSUME NEW p \in Procs, Preflight(p) PROVE OneInside'
  BY <1>3 DEF Preflight, Step, Planned
<1>4. ASSUME NEW p \in Procs, PreflightFails(p) PROVE OneInside'
  BY <1>4 DEF PreflightFails, Finish, Unlocked
<1>5. ASSUME NEW p \in Procs, Decline(p) PROVE OneInside'
  BY <1>5 DEF Decline, Finish, Unlocked
<1>6. ASSUME NEW p \in Procs, Approve(p) PROVE OneInside'
  BY <1>6 DEF Approve, Step
<1>7. ASSUME NEW p \in Procs, TakeSetupLock(p) PROVE OneInside'
  BY <1>7 DEF TakeSetupLock, Guarded
<1>8. ASSUME NEW p \in Procs, TakeReadyLock(p) PROVE OneInside'
  BY <1>8 DEF TakeReadyLock
<1>9. ASSUME NEW p \in Procs, LockTimesOut(p) PROVE OneInside'
  BY <1>9 DEF LockTimesOut, Finish, Unlocked
<1>10. ASSUME NEW p \in Procs, Install(p) PROVE OneInside'
  BY <1>10 DEF Install, Step
<1>11. ASSUME NEW p \in Procs, InstallFails(p) PROVE OneInside'
  BY <1>11 DEF InstallFails, Finish, Unlocked
<1>12. ASSUME NEW p \in Procs, Classify(p) PROVE OneInside'
  BY <1>12 DEF Classify, Step, Classes, Class
<1>13. ASSUME NEW p \in Procs, Refuse(p) PROVE OneInside'
  BY <1>13 DEF Refuse, Finish, Unlocked
<1>14. ASSUME NEW p \in Procs, Backup(p) PROVE OneInside'
  BY <1>14 DEF Backup, Step
<1>15. ASSUME NEW p \in Procs, BackupFails(p) PROVE OneInside'
  BY <1>15 DEF BackupFails, Finish, Unlocked
<1>16. ASSUME NEW p \in Procs, Recheck(p) PROVE OneInside'
  BY <1>16 DEF Recheck, Step, Classes, Class
<1>17. ASSUME NEW p \in Procs, Skip(p) PROVE OneInside'
  BY <1>17 DEF Skip
<1>18. ASSUME NEW p \in Procs, Check(p) PROVE OneInside'
  BY <1>18 DEF Check, Step, Writing
<1>19. ASSUME NEW p \in Procs, Replace(p) PROVE OneInside'
  BY <1>19 DEF Replace, Step
<1>20. ASSUME NEW p \in Procs, WriteFails(p) PROVE OneInside'
  BY <1>20 DEF WriteFails, Writing
<1>21. ASSUME NEW p \in Procs, Applied(p) PROVE OneInside'
  BY <1>21 DEF Applied, Step
<1>22. ASSUME NEW p \in Procs, PassOver(p) PROVE OneInside'
  BY <1>22 DEF PassOver
<1>23. ASSUME NEW p \in Procs, CheckBack(p) PROVE OneInside'
  BY <1>23 DEF CheckBack, Step
<1>24. ASSUME NEW p \in Procs, Restore(p) PROVE OneInside'
  BY <1>24 DEF Restore, Step
<1>25. ASSUME NEW p \in Procs, RestoreFails(p) PROVE OneInside'
  BY <1>25 DEF RestoreFails
<1>26. ASSUME NEW p \in Procs, RolledBack(p) PROVE OneInside'
  BY <1>26 DEF RolledBack, Finish, Unlocked
<1>27. ASSUME NEW p \in Procs, Load(p) PROVE OneInside'
  BY <1>27 DEF Load
<1>28. ASSUME NEW p \in Procs, Save(p) PROVE OneInside'
  BY <1>28 DEF Save, Finish, Unlocked
<1>29. ASSUME NEW p \in Procs, Mark(p) PROVE OneInside'
  BY <1>29 DEF Mark, Finish, Unlocked
<1>30. ASSUME NEW p \in Procs, UpdateFails(p) PROVE OneInside'
  BY <1>30 DEF UpdateFails, Finish, Unlocked
<1>31. ASSUME NEW p \in Procs, Die(p) PROVE OneInside'
  BY <1>31 DEF Die, Unlocked
<1>32. ASSUME NEW t \in Targets, Edit(t) PROVE OneInside'
  BY <1>32 DEF Edit
<1> QED
  BY <1>1, <1>2, <1>3, <1>4, <1>5, <1>6, <1>7, <1>8, <1>9, <1>10, <1>11, <1>12,
       <1>13, <1>14, <1>15, <1>16, <1>17, <1>18, <1>19, <1>20, <1>21, <1>22, <1>23,
       <1>24, <1>25, <1>26, <1>27, <1>28, <1>29, <1>30, <1>31, <1>32 DEF Next,
       Proceed

(* A process' own variables keep their shape.                              *)
LEMMA OwnStep ==
  ASSUME OwnOK, Compared, [Next]_vars
  PROVE  OwnOK'
<1> USE SetupAssumption DEF OwnOK, Compared, own, files, locks, ready
<1>1. CASE UNCHANGED vars
  BY <1>1 DEF vars
<1>2. ASSUME NEW p \in Procs, Doctor(p) PROVE OwnOK'
  BY <1>2 DEF Doctor, Step
<1>3. ASSUME NEW p \in Procs, Preflight(p) PROVE OwnOK'
  BY <1>3 DEF Preflight, Step, Planned
<1>4. ASSUME NEW p \in Procs, PreflightFails(p) PROVE OwnOK'
  BY <1>4 DEF PreflightFails, Finish
<1>5. ASSUME NEW p \in Procs, Decline(p) PROVE OwnOK'
  BY <1>5 DEF Decline, Finish
<1>6. ASSUME NEW p \in Procs, Approve(p) PROVE OwnOK'
  BY <1>6 DEF Approve, Step
<1>7. ASSUME NEW p \in Procs, TakeSetupLock(p) PROVE OwnOK'
  BY <1>7 DEF TakeSetupLock, Guarded
<1>8. ASSUME NEW p \in Procs, TakeReadyLock(p) PROVE OwnOK'
  BY <1>8 DEF TakeReadyLock
<1>9. ASSUME NEW p \in Procs, LockTimesOut(p) PROVE OwnOK'
  BY <1>9 DEF LockTimesOut, Finish
<1>10. ASSUME NEW p \in Procs, Install(p) PROVE OwnOK'
  BY <1>10 DEF Install, Step
<1>11. ASSUME NEW p \in Procs, InstallFails(p) PROVE OwnOK'
  BY <1>11 DEF InstallFails, Finish
<1>12. ASSUME NEW p \in Procs, Classify(p) PROVE OwnOK'
  BY <1>12 DEF Classify, Step, Classes, Class
<1>13. ASSUME NEW p \in Procs, Refuse(p) PROVE OwnOK'
  BY <1>13 DEF Refuse, Finish
<1>14. ASSUME NEW p \in Procs, Backup(p) PROVE OwnOK'
  BY <1>14 DEF Backup, Step
<1>15. ASSUME NEW p \in Procs, BackupFails(p) PROVE OwnOK'
  BY <1>15 DEF BackupFails, Finish
<1>16. ASSUME NEW p \in Procs, Recheck(p) PROVE OwnOK'
  BY <1>16 DEF Recheck, Step, Classes, Class
<1>17. ASSUME NEW p \in Procs, Skip(p) PROVE OwnOK'
  BY <1>17 DEF Skip
<1>18. ASSUME NEW p \in Procs, Check(p) PROVE OwnOK'
  BY <1>18 DEF Check, Step, Writing
<1>19. ASSUME NEW p \in Procs, Replace(p) PROVE OwnOK'
  BY <1>19 DEF Replace, Step
<1>20. ASSUME NEW p \in Procs, WriteFails(p) PROVE OwnOK'
  BY <1>20 DEF WriteFails, Writing
<1>21. ASSUME NEW p \in Procs, Applied(p) PROVE OwnOK'
  BY <1>21 DEF Applied, Step
<1>22. ASSUME NEW p \in Procs, PassOver(p) PROVE OwnOK'
  BY <1>22 DEF PassOver
<1>23. ASSUME NEW p \in Procs, CheckBack(p) PROVE OwnOK'
  BY <1>23 DEF CheckBack, Step
<1>24. ASSUME NEW p \in Procs, Restore(p) PROVE OwnOK'
  BY <1>24 DEF Restore, Step
<1>25. ASSUME NEW p \in Procs, RestoreFails(p) PROVE OwnOK'
  BY <1>25 DEF RestoreFails
<1>26. ASSUME NEW p \in Procs, RolledBack(p) PROVE OwnOK'
  BY <1>26 DEF RolledBack, Finish
<1>27. ASSUME NEW p \in Procs, Load(p) PROVE OwnOK'
  BY <1>27 DEF Load
<1>28. ASSUME NEW p \in Procs, Save(p) PROVE OwnOK'
  BY <1>28 DEF Save, Finish
<1>29. ASSUME NEW p \in Procs, Mark(p) PROVE OwnOK'
  BY <1>29 DEF Mark, Finish
<1>30. ASSUME NEW p \in Procs, UpdateFails(p) PROVE OwnOK'
  BY <1>30 DEF UpdateFails, Finish
<1>31. ASSUME NEW p \in Procs, Die(p) PROVE OwnOK'
  BY <1>31 DEF Die
<1>32. ASSUME NEW t \in Targets, Edit(t) PROVE OwnOK'
  BY <1>32 DEF Edit
<1> QED
  BY <1>1, <1>2, <1>3, <1>4, <1>5, <1>6, <1>7, <1>8, <1>9, <1>10, <1>11, <1>12,
       <1>13, <1>14, <1>15, <1>16, <1>17, <1>18, <1>19, <1>20, <1>21, <1>22, <1>23,
       <1>24, <1>25, <1>26, <1>27, <1>28, <1>29, <1>30, <1>31, <1>32 DEF Next,
       Proceed

LEMMA SelectedAreTargets == \A p \in Procs : Selected[p] \subseteq Targets
  BY SetupAssumption

(* What is written is a content that the edits so far explain.             *)
LEMMA RenderedIsContent ==
  ASSUME NEW t \in Targets, NEW c \in Contents
  PROVE  /\ Rendered(t, c) \in Contents
         /\ Rendered(t, c).user \in Nat /\ c.user \in Nat
         /\ Rendered(t, c).user <= c.user
         /\ c = Absent \/ c \in Content
  BY SetupAssumption DEF Rendered, Contents, Content, Absent

(* The files and their edits keep their shape.                             *)
LEMMA FilesStep ==
  ASSUME FilesOK, OwnOK, PlansOK, Compared, Positions, [Next]_vars
  PROVE  FilesOK'
<1> USE DEF FilesOK, files
<1>1. CASE UNCHANGED vars
  BY <1>1 DEF vars
<1>2. ASSUME NEW p \in Procs, Doctor(p) PROVE FilesOK'
  BY <1>2 DEF Doctor, Step
<1>3. ASSUME NEW p \in Procs, Preflight(p) PROVE FilesOK'
  BY <1>3 DEF Preflight, Step, Planned
<1>4. ASSUME NEW p \in Procs, PreflightFails(p) PROVE FilesOK'
  BY <1>4 DEF PreflightFails, Finish
<1>5. ASSUME NEW p \in Procs, Decline(p) PROVE FilesOK'
  BY <1>5 DEF Decline, Finish
<1>6. ASSUME NEW p \in Procs, Approve(p) PROVE FilesOK'
  BY <1>6 DEF Approve, Step
<1>7. ASSUME NEW p \in Procs, TakeSetupLock(p) PROVE FilesOK'
  BY <1>7 DEF TakeSetupLock, Guarded
<1>8. ASSUME NEW p \in Procs, TakeReadyLock(p) PROVE FilesOK'
  BY <1>8 DEF TakeReadyLock
<1>9. ASSUME NEW p \in Procs, LockTimesOut(p) PROVE FilesOK'
  BY <1>9 DEF LockTimesOut, Finish
<1>10. ASSUME NEW p \in Procs, Install(p) PROVE FilesOK'
  BY <1>10 DEF Install, Step
<1>11. ASSUME NEW p \in Procs, InstallFails(p) PROVE FilesOK'
  BY <1>11 DEF InstallFails, Finish
<1>12. ASSUME NEW p \in Procs, Classify(p) PROVE FilesOK'
  BY <1>12 DEF Classify, Step, Classes, Class
<1>13. ASSUME NEW p \in Procs, Refuse(p) PROVE FilesOK'
  BY <1>13 DEF Refuse, Finish
<1>14. ASSUME NEW p \in Procs, Backup(p) PROVE FilesOK'
  BY <1>14 DEF Backup
<1>15. ASSUME NEW p \in Procs, BackupFails(p) PROVE FilesOK'
  BY <1>15 DEF BackupFails, Finish
<1>16. ASSUME NEW p \in Procs, Recheck(p) PROVE FilesOK'
  BY <1>16 DEF Recheck, Step, Classes, Class
<1>17. ASSUME NEW p \in Procs, Skip(p) PROVE FilesOK'
  BY <1>17 DEF Skip
<1>18. ASSUME NEW p \in Procs, Check(p) PROVE FilesOK'
  BY <1>18 DEF Check, Step, Writing
<1>19. ASSUME NEW p \in Procs, Replace(p) PROVE FilesOK'
  <2> DEFINE u == Order[at[p]]
  <2>1. u \in Selected[p] /\ u \in Targets
    BY <1>19, SelectedAreTargets DEF Replace, Step, Compared
  <2>2. /\ plan[p][u].original \in Contents
        /\ plan[p][u].rendered = Rendered(u, plan[p][u].original)
        /\ plan[p][u].original.user <= made[u]
    BY <2>1 DEF PlansOK
  <2>3. plan[p][u].rendered \in Contents /\ plan[p][u].rendered.user <= made[u]
    <3>1. plan[p][u].original.user \in Int /\ made[u] \in Int /\
              plan[p][u].rendered.user \in Int
      BY <2>1, <2>2, RenderedIsContent
    <3>2. plan[p][u].rendered.user <= plan[p][u].original.user
      BY <2>1, <2>2, RenderedIsContent
    <3> QED
      BY <2>1, <2>2, <3>1, <3>2, RenderedIsContent
  <2>4. file' = [file EXCEPT ![u] = plan[p][u].rendered] /\ UNCHANGED <<backups,
            made, raced>>
    BY <1>19 DEF Replace
  <2> QED
    BY <2>1, <2>3, <2>4
<1>20. ASSUME NEW p \in Procs, WriteFails(p) PROVE FilesOK'
  BY <1>20 DEF WriteFails, Writing
<1>21. ASSUME NEW p \in Procs, Applied(p) PROVE FilesOK'
  BY <1>21 DEF Applied, Step
<1>22. ASSUME NEW p \in Procs, PassOver(p) PROVE FilesOK'
  BY <1>22 DEF PassOver
<1>23. ASSUME NEW p \in Procs, CheckBack(p) PROVE FilesOK'
  BY <1>23 DEF CheckBack, Step
<1>24. ASSUME NEW p \in Procs, Restore(p) PROVE FilesOK'
  <2> DEFINE u == Order[at[p]]
  <2>1. u \in Selected[p] /\ u \in Targets
    BY <1>24, SelectedAreTargets DEF Restore, Step, Compared, Positions, OwnOK
  <2>2. plan[p][u].original \in Contents /\ plan[p][u].original.user <= made[u]
    BY <2>1 DEF PlansOK
  <2>3. file' = [file EXCEPT ![u] = plan[p][u].original] /\ UNCHANGED <<backups,
            made, raced>>
    BY <1>24 DEF Restore
  <2> QED
    BY <2>1, <2>2, <2>3
<1>25. ASSUME NEW p \in Procs, RestoreFails(p) PROVE FilesOK'
  BY <1>25 DEF RestoreFails
<1>26. ASSUME NEW p \in Procs, RolledBack(p) PROVE FilesOK'
  BY <1>26 DEF RolledBack, Finish
<1>27. ASSUME NEW p \in Procs, Load(p) PROVE FilesOK'
  BY <1>27 DEF Load
<1>28. ASSUME NEW p \in Procs, Save(p) PROVE FilesOK'
  BY <1>28 DEF Save, Finish
<1>29. ASSUME NEW p \in Procs, Mark(p) PROVE FilesOK'
  BY <1>29 DEF Mark, Finish
<1>30. ASSUME NEW p \in Procs, UpdateFails(p) PROVE FilesOK'
  BY <1>30 DEF UpdateFails, Finish
<1>31. ASSUME NEW p \in Procs, Die(p) PROVE FilesOK'
  BY <1>31 DEF Die
<1>32. ASSUME NEW t \in Targets, Edit(t) PROVE FilesOK'
  <2>1. file[t] \in Contents /\ made[t] \in 0..(MaxEdits - 1)
    BY <1>32, SetupAssumption DEF Edit
  <2>2. file'[t] = [user |-> made[t] + 1, eyes |-> IF file[t] = Absent THEN "none"
            ELSE file[t].eyes]
    BY <1>32 DEF Edit
  <2>3. file'[t] \in Content
    <3>1. made[t] + 1 \in 0..MaxEdits
      <4>1. MaxEdits \in Nat
        BY SetupAssumption
      <4>2. made[t] \in Int /\ 0 <= made[t] /\ made[t] <= MaxEdits - 1
        BY <2>1, <4>1
      <4> QED
        BY <4>1, <4>2
    <3>2. file[t] = Absent \/ file[t] \in Content
      BY <2>1 DEF Contents
    <3> QED
      BY <2>2, <3>1, <3>2 DEF Content
  <2>4. \A u \in Targets \ {t} : file'[u] = file[u] /\ made'[u] = made[u]
    BY <1>32 DEF Edit
  <2>5. made'[t] = made[t] + 1 /\ backups' = backups /\ raced' \in {raced, raced
            \cup {t}}
    BY <1>32 DEF Edit
  <2>6. DOMAIN file' = Targets /\ DOMAIN made' = Targets
    BY <1>32 DEF Edit
  <2>7. file' = [u \in Targets |-> file'[u]] /\ made' = [u \in Targets |-> made'[u]]
    BY <1>32 DEF Edit
  <2>8. file' \in [Targets -> Contents] /\ made' \in [Targets -> Nat]
    BY <2>1, <2>3, <2>4, <2>5, <2>7 DEF Contents
  <2>9. \A u \in Targets : file'[u].user <= made'[u]
    BY <2>1, <2>2, <2>4, <2>5
  <2> QED
    BY <2>5, <2>8, <2>9
<1> QED
  BY <1>1, <1>2, <1>3, <1>4, <1>5, <1>6, <1>7, <1>8, <1>9, <1>10, <1>11, <1>12,
       <1>13, <1>14, <1>15, <1>16, <1>17, <1>18, <1>19, <1>20, <1>21, <1>22, <1>23,
       <1>24, <1>25, <1>26, <1>27, <1>28, <1>29, <1>30, <1>31, <1>32 DEF Next,
       Proceed

(* A plan renders its original, and the edits it saw were made.            *)
LEMMA PlansStep ==
  ASSUME FilesOK, OwnOK, PlansOK, [Next]_vars
  PROVE  PlansOK'
<1> USE DEF PlansOK, own, files
<1>1. CASE UNCHANGED vars
  BY <1>1 DEF vars
<1>2. ASSUME NEW p \in Procs, Doctor(p) PROVE PlansOK'
  BY <1>2 DEF Doctor, Step
<1>3. ASSUME NEW p \in Procs, Preflight(p) PROVE PlansOK'
  BY <1>3, SelectedAreTargets DEF Preflight, Step, Planned, FilesOK, OwnOK
<1>4. ASSUME NEW p \in Procs, PreflightFails(p) PROVE PlansOK'
  BY <1>4 DEF PreflightFails, Finish
<1>5. ASSUME NEW p \in Procs, Decline(p) PROVE PlansOK'
  BY <1>5 DEF Decline, Finish
<1>6. ASSUME NEW p \in Procs, Approve(p) PROVE PlansOK'
  BY <1>6 DEF Approve, Step
<1>7. ASSUME NEW p \in Procs, TakeSetupLock(p) PROVE PlansOK'
  BY <1>7 DEF TakeSetupLock, Guarded
<1>8. ASSUME NEW p \in Procs, TakeReadyLock(p) PROVE PlansOK'
  BY <1>8 DEF TakeReadyLock
<1>9. ASSUME NEW p \in Procs, LockTimesOut(p) PROVE PlansOK'
  BY <1>9 DEF LockTimesOut, Finish
<1>10. ASSUME NEW p \in Procs, Install(p) PROVE PlansOK'
  BY <1>10 DEF Install, Step
<1>11. ASSUME NEW p \in Procs, InstallFails(p) PROVE PlansOK'
  BY <1>11 DEF InstallFails, Finish
<1>12. ASSUME NEW p \in Procs, Classify(p) PROVE PlansOK'
  BY <1>12 DEF Classify, Step, Classes, Class
<1>13. ASSUME NEW p \in Procs, Refuse(p) PROVE PlansOK'
  BY <1>13 DEF Refuse, Finish
<1>14. ASSUME NEW p \in Procs, Backup(p) PROVE PlansOK'
  BY <1>14 DEF Backup, Step
<1>15. ASSUME NEW p \in Procs, BackupFails(p) PROVE PlansOK'
  BY <1>15 DEF BackupFails, Finish
<1>16. ASSUME NEW p \in Procs, Recheck(p) PROVE PlansOK'
  BY <1>16 DEF Recheck, Step, Classes, Class
<1>17. ASSUME NEW p \in Procs, Skip(p) PROVE PlansOK'
  BY <1>17 DEF Skip
<1>18. ASSUME NEW p \in Procs, Check(p) PROVE PlansOK'
  BY <1>18 DEF Check, Step, Writing
<1>19. ASSUME NEW p \in Procs, Replace(p) PROVE PlansOK'
  BY <1>19 DEF Replace, Step
<1>20. ASSUME NEW p \in Procs, WriteFails(p) PROVE PlansOK'
  BY <1>20 DEF WriteFails, Writing
<1>21. ASSUME NEW p \in Procs, Applied(p) PROVE PlansOK'
  BY <1>21 DEF Applied, Step
<1>22. ASSUME NEW p \in Procs, PassOver(p) PROVE PlansOK'
  BY <1>22 DEF PassOver
<1>23. ASSUME NEW p \in Procs, CheckBack(p) PROVE PlansOK'
  BY <1>23 DEF CheckBack, Step
<1>24. ASSUME NEW p \in Procs, Restore(p) PROVE PlansOK'
  BY <1>24 DEF Restore, Step
<1>25. ASSUME NEW p \in Procs, RestoreFails(p) PROVE PlansOK'
  BY <1>25 DEF RestoreFails
<1>26. ASSUME NEW p \in Procs, RolledBack(p) PROVE PlansOK'
  BY <1>26 DEF RolledBack, Finish
<1>27. ASSUME NEW p \in Procs, Load(p) PROVE PlansOK'
  BY <1>27 DEF Load
<1>28. ASSUME NEW p \in Procs, Save(p) PROVE PlansOK'
  BY <1>28 DEF Save, Finish
<1>29. ASSUME NEW p \in Procs, Mark(p) PROVE PlansOK'
  BY <1>29 DEF Mark, Finish
<1>30. ASSUME NEW p \in Procs, UpdateFails(p) PROVE PlansOK'
  BY <1>30 DEF UpdateFails, Finish
<1>31. ASSUME NEW p \in Procs, Die(p) PROVE PlansOK'
  BY <1>31 DEF Die
<1>32. ASSUME NEW t \in Targets, Edit(t) PROVE PlansOK'
  <2>1. made \in [Targets -> Nat] /\ made' = [made EXCEPT ![t] = made[t] + 1] /\
            plan' = plan
    BY <1>32 DEF Edit, FilesOK
  <2>2. \A u \in Targets : made'[u] \in Int /\ made[u] \in Int /\ made[u] <=
            made'[u]
    BY <2>1
  <2>3. \A p \in Procs : \A u \in Selected[p] : u \in Targets /\
            plan[p][u].original.user \in Int
    BY SelectedAreTargets, RenderedIsContent
  <2>4. ASSUME NEW p \in Procs, NEW u \in Selected[p] PROVE plan[p][u].original.user
            <= made'[u]
    BY <2>2, <2>3
  <2> QED
    BY <2>1, <2>4
<1> QED
  BY <1>1, <1>2, <1>3, <1>4, <1>5, <1>6, <1>7, <1>8, <1>9, <1>10, <1>11, <1>12,
       <1>13, <1>14, <1>15, <1>16, <1>17, <1>18, <1>19, <1>20, <1>21, <1>22, <1>23,
       <1>24, <1>25, <1>26, <1>27, <1>28, <1>29, <1>30, <1>31, <1>32 DEF Next,
       Proceed

LEMMA WithinGrows ==
  ASSUME NEW n \in Int, n >= 1
  PROVE  Within(n) = Within(n - 1) \cup {Order[n]}
  BY DEF Within

LEMMA Alone ==
  ASSUME OneInside, NEW p \in Procs, NEW q \in Procs,
         pc[p] \in Critical, pc[q] \in Critical
  PROVE  p = q
  BY DEF OneInside

(* A pending plan is backed up before anything is written, or its target has *)
(* visibly changed.                                                        *)
LEMMA BackedUpStep ==
  ASSUME FilesOK, OwnOK, PlansOK, OneInside, BackedUp, [Next]_vars
  PROVE  BackedUp'
<1> USE DEF BackedUp, Pending, Saved, Newer, OwnOK, Stages, own, files
<1>1. CASE UNCHANGED vars
  BY <1>1 DEF vars
<1>2. ASSUME NEW p \in Procs, Doctor(p) PROVE BackedUp'
  BY <1>2 DEF Doctor, Step
<1>3. ASSUME NEW p \in Procs, Preflight(p) PROVE BackedUp'
  BY <1>3 DEF Preflight, Step, Planned
<1>4. ASSUME NEW p \in Procs, PreflightFails(p) PROVE BackedUp'
  BY <1>4 DEF PreflightFails, Finish
<1>5. ASSUME NEW p \in Procs, Decline(p) PROVE BackedUp'
  BY <1>5 DEF Decline, Finish
<1>6. ASSUME NEW p \in Procs, Approve(p) PROVE BackedUp'
  BY <1>6 DEF Approve, Step
<1>7. ASSUME NEW p \in Procs, TakeSetupLock(p) PROVE BackedUp'
  BY <1>7 DEF TakeSetupLock, Guarded
<1>8. ASSUME NEW p \in Procs, TakeReadyLock(p) PROVE BackedUp'
  BY <1>8 DEF TakeReadyLock
<1>9. ASSUME NEW p \in Procs, LockTimesOut(p) PROVE BackedUp'
  BY <1>9 DEF LockTimesOut, Finish
<1>10. ASSUME NEW p \in Procs, Install(p) PROVE BackedUp'
  BY <1>10 DEF Install, Step
<1>11. ASSUME NEW p \in Procs, InstallFails(p) PROVE BackedUp'
  BY <1>11 DEF InstallFails, Finish
<1>12. ASSUME NEW p \in Procs, Classify(p) PROVE BackedUp'
  BY <1>12 DEF Classify, Step, Classes, Class
<1>13. ASSUME NEW p \in Procs, Refuse(p) PROVE BackedUp'
  BY <1>13 DEF Refuse, Finish
<1>14. ASSUME NEW p \in Procs, Backup(p) PROVE BackedUp'
  <2>1. ASSUME NEW q \in Procs, NEW t \in Selected[q], q # p PROVE backups[t]
            \subseteq backups'[t]
    BY <1>14, SelectedAreTargets DEF Backup, FilesOK
  <2>2. \A t \in Pending(p) : backups'[t] = backups[t] \cup ({file[t]} \ {Absent})
    BY <1>14, SelectedAreTargets DEF Backup
  <2>3. \A t \in Pending(p) : pc'[p] = "recheck" /\ (Saved(p, t) \/ Newer(p, t))'
    BY <1>14, <2>2 DEF Backup, Step
  <2> QED
    BY <1>14, <2>1, <2>3 DEF Backup, Step
<1>15. ASSUME NEW p \in Procs, BackupFails(p) PROVE BackedUp'
  BY <1>15 DEF BackupFails, Finish
<1>16. ASSUME NEW p \in Procs, Recheck(p) PROVE BackedUp'
  <2>1. ASSUME NEW t \in Pending(p) PROVE file[t] = plan[p][t].original
    BY <1>16 DEF Recheck, Classes, Class
  <2>2. ASSUME NEW t \in Pending(p) PROVE ~Newer(p, t)
    <3>1. plan[p][t].original.user \in Int
      BY RenderedIsContent, SelectedAreTargets DEF PlansOK
    <3> QED
      BY <2>1, <3>1
  <2>3. \A t \in Pending(p) : Saved(p, t)
    BY <1>16, <2>2 DEF Recheck, Step
  <2> QED
    BY <1>16, <2>3 DEF Recheck, Step
<1>17. ASSUME NEW p \in Procs, Skip(p) PROVE BackedUp'
  BY <1>17 DEF Skip
<1>18. ASSUME NEW p \in Procs, Check(p) PROVE BackedUp'
  BY <1>18 DEF Check, Step, Writing
<1>19. ASSUME NEW p \in Procs, Replace(p) PROVE BackedUp'
  <2>0. pc[p] \in Critical
    BY <1>19 DEF Replace, Step, Critical, Stages
  <2>1. ASSUME NEW q \in Procs, pc[q] \in Critical PROVE q = p
    BY <2>0, <2>1, Alone
  <2> QED
    BY <1>19, <2>1 DEF Replace, Step, Critical
<1>20. ASSUME NEW p \in Procs, WriteFails(p) PROVE BackedUp'
  BY <1>20 DEF WriteFails, Writing
<1>21. ASSUME NEW p \in Procs, Applied(p) PROVE BackedUp'
  BY <1>21 DEF Applied, Step
<1>22. ASSUME NEW p \in Procs, PassOver(p) PROVE BackedUp'
  BY <1>22 DEF PassOver
<1>23. ASSUME NEW p \in Procs, CheckBack(p) PROVE BackedUp'
  BY <1>23 DEF CheckBack, Step
<1>24. ASSUME NEW p \in Procs, Restore(p) PROVE BackedUp'
  <2>0. pc[p] \in Critical
    BY <1>24 DEF Restore, Step, Critical, Stages
  <2>1. ASSUME NEW q \in Procs, pc[q] \in Critical PROVE q = p
    BY <2>0, <2>1, Alone
  <2> QED
    BY <1>24, <2>1 DEF Restore, Step, Critical
<1>25. ASSUME NEW p \in Procs, RestoreFails(p) PROVE BackedUp'
  BY <1>25 DEF RestoreFails
<1>26. ASSUME NEW p \in Procs, RolledBack(p) PROVE BackedUp'
  BY <1>26 DEF RolledBack, Finish
<1>27. ASSUME NEW p \in Procs, Load(p) PROVE BackedUp'
  BY <1>27 DEF Load
<1>28. ASSUME NEW p \in Procs, Save(p) PROVE BackedUp'
  BY <1>28 DEF Save, Finish
<1>29. ASSUME NEW p \in Procs, Mark(p) PROVE BackedUp'
  BY <1>29 DEF Mark, Finish
<1>30. ASSUME NEW p \in Procs, UpdateFails(p) PROVE BackedUp'
  BY <1>30 DEF UpdateFails, Finish
<1>31. ASSUME NEW p \in Procs, Die(p) PROVE BackedUp'
  BY <1>31 DEF Die
<1>32. ASSUME NEW t \in Targets, Edit(t) PROVE BackedUp'
  <2>1. \A u \in Targets : file'[u] = file[u] \/ file'[u].user = made[u] + 1
    BY <1>32 DEF Edit, FilesOK
  <2>2. ASSUME NEW p \in Procs, NEW u \in Selected[p], file'[u] # file[u] PROVE
            Newer(p, u)'
    <3>1. u \in Targets /\ plan[p][u].original.user \in Int /\
              plan[p][u].original.user <= made[u] /\ made[u] \in Int
      BY RenderedIsContent, SelectedAreTargets DEF PlansOK, FilesOK
    <3>2. plan' = plan /\ file'[u].user = made[u] + 1
      BY <1>32, <2>1, <2>2, <3>1 DEF Edit
    <3> QED
      BY <3>1, <3>2
  <2> QED
    BY <1>32, <2>2 DEF Edit
<1> QED
  BY <1>1, <1>2, <1>3, <1>4, <1>5, <1>6, <1>7, <1>8, <1>9, <1>10, <1>11, <1>12,
       <1>13, <1>14, <1>15, <1>16, <1>17, <1>18, <1>19, <1>20, <1>21, <1>22, <1>23,
       <1>24, <1>25, <1>26, <1>27, <1>28, <1>29, <1>30, <1>31, <1>32 DEF Next,
       Proceed

(* A comparison is only outdated by an edit that races with the replacement. *)
LEMMA ComparedStep ==
  ASSUME OwnOK, OneInside, Compared, Positions, [Next]_vars
  PROVE  Compared'
<1> USE DEF Compared, Pending, OwnOK, own, files
<1>1. CASE UNCHANGED vars
  BY <1>1 DEF vars
<1>2. ASSUME NEW p \in Procs, Doctor(p) PROVE Compared'
  BY <1>2 DEF Doctor, Step
<1>3. ASSUME NEW p \in Procs, Preflight(p) PROVE Compared'
  BY <1>3 DEF Preflight, Step, Planned
<1>4. ASSUME NEW p \in Procs, PreflightFails(p) PROVE Compared'
  BY <1>4 DEF PreflightFails, Finish
<1>5. ASSUME NEW p \in Procs, Decline(p) PROVE Compared'
  BY <1>5 DEF Decline, Finish
<1>6. ASSUME NEW p \in Procs, Approve(p) PROVE Compared'
  BY <1>6 DEF Approve, Step
<1>7. ASSUME NEW p \in Procs, TakeSetupLock(p) PROVE Compared'
  BY <1>7 DEF TakeSetupLock, Guarded
<1>8. ASSUME NEW p \in Procs, TakeReadyLock(p) PROVE Compared'
  BY <1>8 DEF TakeReadyLock
<1>9. ASSUME NEW p \in Procs, LockTimesOut(p) PROVE Compared'
  BY <1>9 DEF LockTimesOut, Finish
<1>10. ASSUME NEW p \in Procs, Install(p) PROVE Compared'
  BY <1>10 DEF Install, Step
<1>11. ASSUME NEW p \in Procs, InstallFails(p) PROVE Compared'
  BY <1>11 DEF InstallFails, Finish
<1>12. ASSUME NEW p \in Procs, Classify(p) PROVE Compared'
  BY <1>12 DEF Classify, Step, Classes, Class
<1>13. ASSUME NEW p \in Procs, Refuse(p) PROVE Compared'
  BY <1>13 DEF Refuse, Finish
<1>14. ASSUME NEW p \in Procs, Backup(p) PROVE Compared'
  BY <1>14 DEF Backup, Step
<1>15. ASSUME NEW p \in Procs, BackupFails(p) PROVE Compared'
  BY <1>15 DEF BackupFails, Finish
<1>16. ASSUME NEW p \in Procs, Recheck(p) PROVE Compared'
  BY <1>16 DEF Recheck, Step, Classes, Class
<1>17. ASSUME NEW p \in Procs, Skip(p) PROVE Compared'
  BY <1>17 DEF Skip
<1>18. ASSUME NEW p \in Procs, Check(p) PROVE Compared'
  BY <1>18 DEF Check, Step, Writing, Positions
<1>19. ASSUME NEW p \in Procs, Replace(p) PROVE Compared'
  <2>0. pc[p] \in Critical
    BY <1>19 DEF Replace, Step, Critical, Stages
  <2>1. ASSUME NEW q \in Procs, pc[q] \in Critical PROVE q = p
    BY <2>0, <2>1, Alone
  <2> QED
    BY <1>19, <2>1 DEF Replace, Step, Critical, Stages
<1>20. ASSUME NEW p \in Procs, WriteFails(p) PROVE Compared'
  BY <1>20 DEF WriteFails, Writing
<1>21. ASSUME NEW p \in Procs, Applied(p) PROVE Compared'
  BY <1>21 DEF Applied, Step
<1>22. ASSUME NEW p \in Procs, PassOver(p) PROVE Compared'
  BY <1>22 DEF PassOver
<1>23. ASSUME NEW p \in Procs, CheckBack(p) PROVE Compared'
  BY <1>23 DEF CheckBack, Step, Positions
<1>24. ASSUME NEW p \in Procs, Restore(p) PROVE Compared'
  <2>0. pc[p] \in Critical
    BY <1>24 DEF Restore, Step, Critical, Stages
  <2>1. ASSUME NEW q \in Procs, pc[q] \in Critical PROVE q = p
    BY <2>0, <2>1, Alone
  <2> QED
    BY <1>24, <2>1 DEF Restore, Step, Critical, Stages
<1>25. ASSUME NEW p \in Procs, RestoreFails(p) PROVE Compared'
  BY <1>25 DEF RestoreFails
<1>26. ASSUME NEW p \in Procs, RolledBack(p) PROVE Compared'
  BY <1>26 DEF RolledBack, Finish
<1>27. ASSUME NEW p \in Procs, Load(p) PROVE Compared'
  BY <1>27 DEF Load
<1>28. ASSUME NEW p \in Procs, Save(p) PROVE Compared'
  BY <1>28 DEF Save, Finish
<1>29. ASSUME NEW p \in Procs, Mark(p) PROVE Compared'
  BY <1>29 DEF Mark, Finish
<1>30. ASSUME NEW p \in Procs, UpdateFails(p) PROVE Compared'
  BY <1>30 DEF UpdateFails, Finish
<1>31. ASSUME NEW p \in Procs, Die(p) PROVE Compared'
  BY <1>31 DEF Die
<1>32. ASSUME NEW t \in Targets, Edit(t) PROVE Compared'
  BY <1>32 DEF Edit
<1> QED
  BY <1>1, <1>2, <1>3, <1>4, <1>5, <1>6, <1>7, <1>8, <1>9, <1>10, <1>11, <1>12,
       <1>13, <1>14, <1>15, <1>16, <1>17, <1>18, <1>19, <1>20, <1>21, <1>22, <1>23,
       <1>24, <1>25, <1>26, <1>27, <1>28, <1>29, <1>30, <1>31, <1>32 DEF Next,
       Proceed

(* The written plans are before the position.                              *)
LEMMA PositionsStep ==
  ASSUME OwnOK, Compared, Positions, [Next]_vars
  PROVE  Positions'
<1> USE DEF Positions, OwnOK, Early, Within, own
<1>1. CASE UNCHANGED vars
  BY <1>1 DEF vars
<1>2. ASSUME NEW p \in Procs, Doctor(p) PROVE Positions'
  BY <1>2 DEF Doctor, Step
<1>3. ASSUME NEW p \in Procs, Preflight(p) PROVE Positions'
  BY <1>3 DEF Preflight, Step, Planned
<1>4. ASSUME NEW p \in Procs, PreflightFails(p) PROVE Positions'
  BY <1>4 DEF PreflightFails, Finish
<1>5. ASSUME NEW p \in Procs, Decline(p) PROVE Positions'
  BY <1>5 DEF Decline, Finish
<1>6. ASSUME NEW p \in Procs, Approve(p) PROVE Positions'
  BY <1>6 DEF Approve, Step
<1>7. ASSUME NEW p \in Procs, TakeSetupLock(p) PROVE Positions'
  BY <1>7 DEF TakeSetupLock, Guarded
<1>8. ASSUME NEW p \in Procs, TakeReadyLock(p) PROVE Positions'
  BY <1>8 DEF TakeReadyLock
<1>9. ASSUME NEW p \in Procs, LockTimesOut(p) PROVE Positions'
  BY <1>9 DEF LockTimesOut, Finish
<1>10. ASSUME NEW p \in Procs, Install(p) PROVE Positions'
  BY <1>10 DEF Install, Step
<1>11. ASSUME NEW p \in Procs, InstallFails(p) PROVE Positions'
  BY <1>11 DEF InstallFails, Finish
<1>12. ASSUME NEW p \in Procs, Classify(p) PROVE Positions'
  BY <1>12 DEF Classify, Step, Classes, Class
<1>13. ASSUME NEW p \in Procs, Refuse(p) PROVE Positions'
  BY <1>13 DEF Refuse, Finish
<1>14. ASSUME NEW p \in Procs, Backup(p) PROVE Positions'
  BY <1>14 DEF Backup, Step
<1>15. ASSUME NEW p \in Procs, BackupFails(p) PROVE Positions'
  BY <1>15 DEF BackupFails, Finish
<1>16. ASSUME NEW p \in Procs, Recheck(p) PROVE Positions'
  BY <1>16 DEF Recheck, Step, Classes, Class
<1>17. ASSUME NEW p \in Procs, Skip(p) PROVE Positions'
  BY <1>17 DEF Skip
<1>18. ASSUME NEW p \in Procs, Check(p) PROVE Positions'
  BY <1>18 DEF Check, Step, Writing
<1>19. ASSUME NEW p \in Procs, Replace(p) PROVE Positions'
  <2>1. at[p] \in 1..Len(Order) /\ Order[at[p]] \in Selected[p] /\ written[p]
            \subseteq Within(at[p] - 1)
    BY <1>19 DEF Replace, Step, Compared
  <2>2. written[p] \cup {Order[at[p]]} \subseteq Within(at[p])
    BY <2>1, WithinGrows
  <2>3. /\ pc' = [pc EXCEPT ![p] = "write"] /\ at' = [at EXCEPT ![p] = at[p] + 1]
        /\ written' = [written EXCEPT ![p] = written[p] \cup {Order[at[p]]}]
    BY <1>19 DEF Replace, Step
  <2>4. at'[p] - 1 = at[p] /\ at'[p] \in 1..(Len(Order) + 1)
    BY <2>1, <2>3
  <2>5. ASSUME NEW q \in Procs, q # p PROVE pc'[q] = pc[q] /\ at'[q] = at[q] /\
            written'[q] = written[q]
    BY <2>3, <2>5
  <2> QED
    BY <2>1, <2>2, <2>3, <2>4, <2>5
<1>20. ASSUME NEW p \in Procs, WriteFails(p) PROVE Positions'
  BY <1>20 DEF WriteFails, Writing, Compared
<1>21. ASSUME NEW p \in Procs, Applied(p) PROVE Positions'
  BY <1>21 DEF Applied, Step
<1>22. ASSUME NEW p \in Procs, PassOver(p) PROVE Positions'
  BY <1>22 DEF PassOver
<1>23. ASSUME NEW p \in Procs, CheckBack(p) PROVE Positions'
  BY <1>23 DEF CheckBack, Step
<1>24. ASSUME NEW p \in Procs, Restore(p) PROVE Positions'
  BY <1>24 DEF Restore, Step, Compared
<1>25. ASSUME NEW p \in Procs, RestoreFails(p) PROVE Positions'
  BY <1>25 DEF RestoreFails, Compared
<1>26. ASSUME NEW p \in Procs, RolledBack(p) PROVE Positions'
  BY <1>26 DEF RolledBack, Finish
<1>27. ASSUME NEW p \in Procs, Load(p) PROVE Positions'
  BY <1>27 DEF Load
<1>28. ASSUME NEW p \in Procs, Save(p) PROVE Positions'
  BY <1>28 DEF Save, Finish
<1>29. ASSUME NEW p \in Procs, Mark(p) PROVE Positions'
  BY <1>29 DEF Mark, Finish
<1>30. ASSUME NEW p \in Procs, UpdateFails(p) PROVE Positions'
  BY <1>30 DEF UpdateFails, Finish
<1>31. ASSUME NEW p \in Procs, Die(p) PROVE Positions'
  BY <1>31 DEF Die
<1>32. ASSUME NEW t \in Targets, Edit(t) PROVE Positions'
  BY <1>32 DEF Edit
<1> QED
  BY <1>1, <1>2, <1>3, <1>4, <1>5, <1>6, <1>7, <1>8, <1>9, <1>10, <1>11, <1>12,
       <1>13, <1>14, <1>15, <1>16, <1>17, <1>18, <1>19, <1>20, <1>21, <1>22, <1>23,
       <1>24, <1>25, <1>26, <1>27, <1>28, <1>29, <1>30, <1>31, <1>32 DEF Next,
       Proceed

(* A written plan is undone, or still to be, or its failure is noted.      *)
LEMMA UndoingStep ==
  ASSUME FilesOK, OwnOK, PlansOK, OneInside, Compared, Positions, Undoing,
            [Next]_vars
  PROVE  Undoing'
<1> USE DEF Undoing, Undone, OwnOK, Within, own, files
<1>1. CASE UNCHANGED vars
  BY <1>1 DEF vars
<1>2. ASSUME NEW p \in Procs, Doctor(p) PROVE Undoing'
  BY <1>2 DEF Doctor, Step
<1>3. ASSUME NEW p \in Procs, Preflight(p) PROVE Undoing'
  BY <1>3 DEF Preflight, Step, Planned
<1>4. ASSUME NEW p \in Procs, PreflightFails(p) PROVE Undoing'
  BY <1>4 DEF PreflightFails, Finish
<1>5. ASSUME NEW p \in Procs, Decline(p) PROVE Undoing'
  BY <1>5 DEF Decline, Finish
<1>6. ASSUME NEW p \in Procs, Approve(p) PROVE Undoing'
  BY <1>6 DEF Approve, Step
<1>7. ASSUME NEW p \in Procs, TakeSetupLock(p) PROVE Undoing'
  BY <1>7 DEF TakeSetupLock, Guarded
<1>8. ASSUME NEW p \in Procs, TakeReadyLock(p) PROVE Undoing'
  BY <1>8 DEF TakeReadyLock
<1>9. ASSUME NEW p \in Procs, LockTimesOut(p) PROVE Undoing'
  BY <1>9 DEF LockTimesOut, Finish
<1>10. ASSUME NEW p \in Procs, Install(p) PROVE Undoing'
  BY <1>10 DEF Install, Step
<1>11. ASSUME NEW p \in Procs, InstallFails(p) PROVE Undoing'
  BY <1>11 DEF InstallFails, Finish
<1>12. ASSUME NEW p \in Procs, Classify(p) PROVE Undoing'
  BY <1>12 DEF Classify, Step, Classes, Class
<1>13. ASSUME NEW p \in Procs, Refuse(p) PROVE Undoing'
  BY <1>13 DEF Refuse, Finish
<1>14. ASSUME NEW p \in Procs, Backup(p) PROVE Undoing'
  BY <1>14 DEF Backup, Step
<1>15. ASSUME NEW p \in Procs, BackupFails(p) PROVE Undoing'
  BY <1>15 DEF BackupFails, Finish
<1>16. ASSUME NEW p \in Procs, Recheck(p) PROVE Undoing'
  BY <1>16 DEF Recheck, Step, Classes, Class
<1>17. ASSUME NEW p \in Procs, Skip(p) PROVE Undoing'
  BY <1>17 DEF Skip
<1>18. ASSUME NEW p \in Procs, Check(p) PROVE Undoing'
  BY <1>18 DEF Check, Step, Writing
<1>19. ASSUME NEW p \in Procs, Replace(p) PROVE Undoing'
  <2>0. pc[p] \in Critical
    BY <1>19 DEF Replace, Step, Critical, Stages
  <2>1. ASSUME NEW q \in Procs, pc[q] \in Critical PROVE q = p
    BY <2>0, <2>1, Alone
  <2> QED
    BY <1>19, <2>1 DEF Replace, Step, Critical, Stages
<1>20. ASSUME NEW p \in Procs, WriteFails(p) PROVE Undoing'
  <2>1. CASE pc[p] = "write"
    BY <1>20, <2>1 DEF WriteFails, Positions
  <2>2. CASE pc[p] = "replace"
    BY <1>20, <2>2 DEF WriteFails, Positions
  <2> QED
    BY <1>20, <2>1, <2>2 DEF WriteFails
<1>21. ASSUME NEW p \in Procs, Applied(p) PROVE Undoing'
  BY <1>21 DEF Applied, Step
<1>22. ASSUME NEW p \in Procs, PassOver(p) PROVE Undoing'
  BY <1>22 DEF PassOver
<1>23. ASSUME NEW p \in Procs, CheckBack(p) PROVE Undoing'
  BY <1>23 DEF CheckBack, Step
<1>24. ASSUME NEW p \in Procs, Restore(p) PROVE Undoing'
  <2>0. pc[p] \in Critical
    BY <1>24 DEF Restore, Step, Critical, Stages
  <2>1. ASSUME NEW q \in Procs, pc[q] \in Critical PROVE q = p
    BY <2>0, <2>1, Alone
  <2> DEFINE u == Order[at[p]]
  <2>2. /\ at[p] \in 1..Len(Order) /\ u \in written[p] /\ u \in Selected[p] /\ u \in
            Targets
    BY <1>24, SelectedAreTargets DEF Restore, Step, Compared, Positions
  <2>3. /\ pc' = [pc EXCEPT ![p] = "rollback"] /\ at' = [at EXCEPT ![p] = at[p] - 1]
        /\ file' = [file EXCEPT ![u] = plan[p][u].original]
        /\ UNCHANGED <<plan, written, failed>>
    BY <1>24 DEF Restore, Step
  <2>4. file'[u] = plan[p][u].original
    BY <2>2, <2>3 DEF FilesOK
  <2>5. ASSUME NEW t \in written[p], ~failed[p] PROVE t \in Within(at[p] - 1) \/
            Undone(p, t)'
    <3>1. t \in Within(at[p]) \/ Undone(p, t)
      BY <1>24, <2>5 DEF Restore, Step
    <3>2. t = u \/ file'[t] = file[t]
      BY <2>3, <2>5 DEF FilesOK
    <3>3. t \in Within(at[p]) => t \in Within(at[p] - 1) \/ t = u
      BY <2>2, WithinGrows
    <3> QED
      BY <2>3, <2>4, <3>1, <3>2, <3>3
  <2>6. at'[p] = at[p] - 1
    BY <2>3
  <2> QED
    BY <2>0, <2>1, <2>3, <2>5, <2>6 DEF Critical, Stages
<1>25. ASSUME NEW p \in Procs, RestoreFails(p) PROVE Undoing'
  BY <1>25 DEF RestoreFails
<1>26. ASSUME NEW p \in Procs, RolledBack(p) PROVE Undoing'
  BY <1>26 DEF RolledBack, Finish
<1>27. ASSUME NEW p \in Procs, Load(p) PROVE Undoing'
  BY <1>27 DEF Load
<1>28. ASSUME NEW p \in Procs, Save(p) PROVE Undoing'
  BY <1>28 DEF Save, Finish
<1>29. ASSUME NEW p \in Procs, Mark(p) PROVE Undoing'
  BY <1>29 DEF Mark, Finish
<1>30. ASSUME NEW p \in Procs, UpdateFails(p) PROVE Undoing'
  BY <1>30 DEF UpdateFails, Finish
<1>31. ASSUME NEW p \in Procs, Die(p) PROVE Undoing'
  BY <1>31 DEF Die
<1>32. ASSUME NEW t \in Targets, Edit(t) PROVE Undoing'
  <2>1. ASSUME NEW p \in Procs, NEW u \in Selected[p], Undone(p, u) PROVE Undone(p,
            u)'
    <3>1. u \in Targets /\ plan[p][u].original \in Contents
      BY SelectedAreTargets DEF PlansOK
    <3>2. file'[u].eyes = file[u].eyes \/ (file[u] = Absent /\ file'[u].eyes =
              "none")
      BY <1>32, <3>1 DEF Edit, FilesOK
    <3>3. plan[p][u].original.eyes = "absent" => plan[p][u].original = Absent
      BY <3>1 DEF Contents, Content
    <3>4. Absent.eyes = "absent" /\ plan' = plan
      BY <1>32 DEF Absent, Edit
    <3> QED
      BY <2>1, <3>2, <3>3, <3>4
  <2>2. UNCHANGED <<pc, written, failed, at>>
    BY <1>32 DEF Edit
  <2>3. \A p \in Procs : written[p] \subseteq Selected[p]
    BY DEF Positions
  <2> QED
    BY <2>1, <2>2, <2>3
<1> QED
  BY <1>1, <1>2, <1>3, <1>4, <1>5, <1>6, <1>7, <1>8, <1>9, <1>10, <1>11, <1>12,
       <1>13, <1>14, <1>15, <1>16, <1>17, <1>18, <1>19, <1>20, <1>21, <1>22, <1>23,
       <1>24, <1>25, <1>26, <1>27, <1>28, <1>29, <1>30, <1>31, <1>32 DEF Next,
       Proceed

(* No edit is lost.                                                        *)
LEMMA EditsStep ==
  ASSUME FilesOK, OwnOK, PlansOK, BackedUp, Compared, Positions, NoEditLost,
            [Next]_vars
  PROVE  NoEditLost'
<1> USE DEF NoEditLost, files
<1>1. CASE UNCHANGED vars
  BY <1>1 DEF vars
<1>2. ASSUME NEW p \in Procs, Doctor(p) PROVE NoEditLost'
  BY <1>2 DEF Doctor, Step
<1>3. ASSUME NEW p \in Procs, Preflight(p) PROVE NoEditLost'
  BY <1>3 DEF Preflight, Step, Planned
<1>4. ASSUME NEW p \in Procs, PreflightFails(p) PROVE NoEditLost'
  BY <1>4 DEF PreflightFails, Finish
<1>5. ASSUME NEW p \in Procs, Decline(p) PROVE NoEditLost'
  BY <1>5 DEF Decline, Finish
<1>6. ASSUME NEW p \in Procs, Approve(p) PROVE NoEditLost'
  BY <1>6 DEF Approve, Step
<1>7. ASSUME NEW p \in Procs, TakeSetupLock(p) PROVE NoEditLost'
  BY <1>7 DEF TakeSetupLock, Guarded
<1>8. ASSUME NEW p \in Procs, TakeReadyLock(p) PROVE NoEditLost'
  BY <1>8 DEF TakeReadyLock
<1>9. ASSUME NEW p \in Procs, LockTimesOut(p) PROVE NoEditLost'
  BY <1>9 DEF LockTimesOut, Finish
<1>10. ASSUME NEW p \in Procs, Install(p) PROVE NoEditLost'
  BY <1>10 DEF Install, Step
<1>11. ASSUME NEW p \in Procs, InstallFails(p) PROVE NoEditLost'
  BY <1>11 DEF InstallFails, Finish
<1>12. ASSUME NEW p \in Procs, Classify(p) PROVE NoEditLost'
  BY <1>12 DEF Classify, Step, Classes, Class
<1>13. ASSUME NEW p \in Procs, Refuse(p) PROVE NoEditLost'
  BY <1>13 DEF Refuse, Finish
<1>14. ASSUME NEW p \in Procs, Backup(p) PROVE NoEditLost'
  BY <1>14 DEF Backup, Step
<1>15. ASSUME NEW p \in Procs, BackupFails(p) PROVE NoEditLost'
  BY <1>15 DEF BackupFails, Finish
<1>16. ASSUME NEW p \in Procs, Recheck(p) PROVE NoEditLost'
  BY <1>16 DEF Recheck, Step, Classes, Class
<1>17. ASSUME NEW p \in Procs, Skip(p) PROVE NoEditLost'
  BY <1>17 DEF Skip
<1>18. ASSUME NEW p \in Procs, Check(p) PROVE NoEditLost'
  BY <1>18 DEF Check, Step, Writing
<1>19. ASSUME NEW p \in Procs, Replace(p) PROVE NoEditLost'
  <2> DEFINE u == Order[at[p]]
  <2>1. u \in Selected[p] /\ u \in Targets /\ u \in Pending(p)
    BY <1>19, SelectedAreTargets DEF Replace, Step, Compared, Positions
  <2>2. /\ file' = [file EXCEPT ![u] = plan[p][u].rendered]
        /\ UNCHANGED <<backups, made, raced>>
    BY <1>19 DEF Replace
  <2>3. u \in raced \/ file[u] = plan[p][u].original
    BY <1>19 DEF Replace, Step, Compared
  <2>4. ASSUME NEW t \in Targets \ raced, made[t] > 0 PROVE made[t] \in {c.user : c
            \in {file'[t]} \cup backups[t]}
    <3>1. CASE t # u
      BY <2>2, <2>4, <3>1 DEF FilesOK
    <3>2. CASE t = u
      <4>1. made[u] \in {c.user : c \in {file[u]} \cup backups[u]}
        BY <2>4, <3>2
      <4>2. plan[p][u].original \in backups[u] \cup {Absent}
        BY <1>19, <2>1 DEF Replace, Step, BackedUp, Saved, Stages
      <4>3. Absent.user = 0 /\ made[u] > 0
        BY <2>4, <3>2 DEF Absent
      <4>4. \E c \in backups[u] : made[u] = c.user
        BY <2>3, <2>4, <3>2, <4>1, <4>2, <4>3
      <4> QED
        BY <3>2, <4>4
    <3> QED
      BY <3>1, <3>2
  <2> QED
    BY <2>2, <2>4
<1>20. ASSUME NEW p \in Procs, WriteFails(p) PROVE NoEditLost'
  BY <1>20 DEF WriteFails, Writing
<1>21. ASSUME NEW p \in Procs, Applied(p) PROVE NoEditLost'
  BY <1>21 DEF Applied, Step
<1>22. ASSUME NEW p \in Procs, PassOver(p) PROVE NoEditLost'
  BY <1>22 DEF PassOver
<1>23. ASSUME NEW p \in Procs, CheckBack(p) PROVE NoEditLost'
  BY <1>23 DEF CheckBack, Step
<1>24. ASSUME NEW p \in Procs, Restore(p) PROVE NoEditLost'
  <2> DEFINE u == Order[at[p]]
  <2>1. u \in Selected[p] /\ u \in Targets
    BY <1>24, SelectedAreTargets DEF Restore, Step, Compared, Positions
  <2>2. /\ file' = [file EXCEPT ![u] = plan[p][u].original]
        /\ UNCHANGED <<backups, made, raced>>
    BY <1>24 DEF Restore
  <2>3. u \in raced \/ file[u] = plan[p][u].rendered
    BY <1>24 DEF Restore, Step, Compared
  <2>4. ASSUME NEW t \in Targets \ raced, made[t] > 0 PROVE made[t] \in {c.user : c
            \in {file'[t]} \cup backups[t]}
    <3>1. CASE t # u
      BY <2>2, <2>4, <3>1 DEF FilesOK
    <3>2. CASE t = u
      <4>1. made[u] \in {c.user : c \in {file[u]} \cup backups[u]} /\ made[u] \in
                Nat
        BY <2>1, <2>4, <3>2 DEF FilesOK
      <4>2. file'[u] = plan[p][u].original
        BY <2>1, <2>2 DEF FilesOK
      <4>3. plan[p][u].rendered = Rendered(u, plan[p][u].original) /\ file[u] =
                plan[p][u].rendered
        BY <2>1, <2>3, <2>4, <3>2 DEF PlansOK
      <4>4. file[u].user = made[u] => file'[u].user = made[u]
        BY <2>4, <3>2, <4>1, <4>2, <4>3 DEF Rendered
      <4> QED
        BY <3>2, <4>1, <4>4
    <3> QED
      BY <3>1, <3>2
  <2> QED
    BY <2>2, <2>4
<1>25. ASSUME NEW p \in Procs, RestoreFails(p) PROVE NoEditLost'
  BY <1>25 DEF RestoreFails
<1>26. ASSUME NEW p \in Procs, RolledBack(p) PROVE NoEditLost'
  BY <1>26 DEF RolledBack, Finish
<1>27. ASSUME NEW p \in Procs, Load(p) PROVE NoEditLost'
  BY <1>27 DEF Load
<1>28. ASSUME NEW p \in Procs, Save(p) PROVE NoEditLost'
  BY <1>28 DEF Save, Finish
<1>29. ASSUME NEW p \in Procs, Mark(p) PROVE NoEditLost'
  BY <1>29 DEF Mark, Finish
<1>30. ASSUME NEW p \in Procs, UpdateFails(p) PROVE NoEditLost'
  BY <1>30 DEF UpdateFails, Finish
<1>31. ASSUME NEW p \in Procs, Die(p) PROVE NoEditLost'
  BY <1>31 DEF Die
<1>32. ASSUME NEW t \in Targets, Edit(t) PROVE NoEditLost'
  <2>1. file'[t].user = made'[t]
    BY <1>32 DEF Edit, FilesOK
  <2>2. ASSUME NEW u \in Targets, u # t PROVE file'[u] = file[u] /\ made'[u] =
            made[u]
    BY <1>32, <2>2 DEF Edit, FilesOK
  <2>3. backups' = backups /\ raced \subseteq raced'
    BY <1>32 DEF Edit
  <2>4. made'[t] \in {c.user : c \in {file'[t]} \cup backups'[t]}
    BY <2>1
  <2>5. ASSUME NEW u \in Targets \ raced', made'[u] > 0 PROVE made'[u] \in {c.user :
            c \in {file'[u]} \cup backups'[u]}
    BY <2>2, <2>3, <2>4, <2>5
  <2> QED
    BY <2>5
<1> QED
  BY <1>1, <1>2, <1>3, <1>4, <1>5, <1>6, <1>7, <1>8, <1>9, <1>10, <1>11, <1>12,
       <1>13, <1>14, <1>15, <1>16, <1>17, <1>18, <1>19, <1>20, <1>21, <1>22, <1>23,
       <1>24, <1>25, <1>26, <1>27, <1>28, <1>29, <1>30, <1>31, <1>32 DEF Next,
       Proceed

(* The invariant holds at the start ...                                    *)
LEMMA SetupInvInit == Init => SetupInv
<1> SUFFICES ASSUME Init PROVE SetupInv
  OBVIOUS
<1> USE DEF Init
<1>1. \A t \in Targets : file[t] \in Contents /\ file[t].user = 0
  <2>1. Absent \in Contents /\ Absent.user = 0
    BY DEF Contents, Absent
  <2>2. \A e \in {"none", "new"} : [user |-> 0, eyes |-> e] \in Contents
    BY SetupAssumption DEF Contents, Content
  <2> QED
    BY <2>1, <2>2
<1>2. file \in [Targets -> Contents]
  BY <1>1
<1>3. FilesOK
  BY <1>1, <1>2 DEF FilesOK
<1>4. OwnOK
  BY DEF OwnOK
<1>5. PlansOK
  BY <1>1, SelectedAreTargets DEF PlansOK, Planned
<1>6. OneInside
  BY DEF OneInside, Critical, Stages
<1>7. BackedUp /\ Compared
  BY DEF BackedUp, Compared, Stages
<1>8. Positions /\ Undoing
  BY DEF Positions, Undoing, Early
<1>9. NoEditLost
  BY DEF NoEditLost
<1> QED
  BY <1>3, <1>4, <1>5, <1>6, <1>7, <1>8, <1>9 DEF SetupInv

(* ... and every step keeps it.                                            *)
LEMMA SetupInvStep == SetupInv /\ [Next]_vars => SetupInv'
  BY LocksStep, OwnStep, FilesStep, PlansStep, BackedUpStep, ComparedStep,
     PositionsStep, UndoingStep, EditsStep DEF SetupInv

(* What anybody wrote into a configuration is in it or in a backup of it,  *)
(* whatever setup processes do, fail at or die of, unless it was written   *)
(* between a comparison and the replacement that follows it.               *)
THEOREM EditsAreKept == Spec => []NoEditLost
<1>1. SetupInv => NoEditLost
  BY DEF SetupInv
<1> QED
  BY <1>1, SetupInvInit, SetupInvStep, PTL DEF Spec

(* The setup lock has one process inside at a time, whoever dies in it.    *)
THEOREM SetupIsExclusive == Spec => []OneInside
<1>1. SetupInv => OneInside
  BY DEF SetupInv
<1> QED
  BY <1>1, SetupInvInit, SetupInvStep, PTL DEF Spec

(* Only a complete rollback is reported as undone.                         *)
LEMMA ReportStep ==
  ASSUME OwnOK, [Next]_vars
  PROVE  \A q \in Procs : outcome[q] = "none" /\ outcome'[q] = "undone" => pc[q] =
            "rollback" /\ at[q] = 0 /\ ~failed[q]
<1> USE DEF OwnOK
<1>1. CASE UNCHANGED vars
  BY <1>1 DEF vars
<1>2. ASSUME NEW p \in Procs, Doctor(p) PROVE \A q \in Procs : outcome[q] = "none"
          /\ outcome'[q] = "undone" => pc[q] = "rollback" /\ at[q] = 0 /\ ~failed[q]
  BY <1>2 DEF Doctor, Step
<1>3. ASSUME NEW p \in Procs, Preflight(p) PROVE \A q \in Procs : outcome[q] =
          "none" /\ outcome'[q] = "undone" => pc[q] = "rollback" /\ at[q] = 0 /\
          ~failed[q]
  BY <1>3 DEF Preflight, Step, Planned
<1>4. ASSUME NEW p \in Procs, PreflightFails(p) PROVE \A q \in Procs : outcome[q] =
          "none" /\ outcome'[q] = "undone" => pc[q] = "rollback" /\ at[q] = 0 /\
          ~failed[q]
  BY <1>4 DEF PreflightFails, Finish
<1>5. ASSUME NEW p \in Procs, Decline(p) PROVE \A q \in Procs : outcome[q] = "none"
          /\ outcome'[q] = "undone" => pc[q] = "rollback" /\ at[q] = 0 /\ ~failed[q]
  BY <1>5 DEF Decline, Finish
<1>6. ASSUME NEW p \in Procs, Approve(p) PROVE \A q \in Procs : outcome[q] = "none"
          /\ outcome'[q] = "undone" => pc[q] = "rollback" /\ at[q] = 0 /\ ~failed[q]
  BY <1>6 DEF Approve, Step
<1>7. ASSUME NEW p \in Procs, TakeSetupLock(p) PROVE \A q \in Procs : outcome[q] =
          "none" /\ outcome'[q] = "undone" => pc[q] = "rollback" /\ at[q] = 0 /\
          ~failed[q]
  BY <1>7 DEF TakeSetupLock, Guarded
<1>8. ASSUME NEW p \in Procs, TakeReadyLock(p) PROVE \A q \in Procs : outcome[q] =
          "none" /\ outcome'[q] = "undone" => pc[q] = "rollback" /\ at[q] = 0 /\
          ~failed[q]
  BY <1>8 DEF TakeReadyLock
<1>9. ASSUME NEW p \in Procs, LockTimesOut(p) PROVE \A q \in Procs : outcome[q] =
          "none" /\ outcome'[q] = "undone" => pc[q] = "rollback" /\ at[q] = 0 /\
          ~failed[q]
  BY <1>9 DEF LockTimesOut, Finish
<1>10. ASSUME NEW p \in Procs, Install(p) PROVE \A q \in Procs : outcome[q] = "none"
          /\ outcome'[q] = "undone" => pc[q] = "rollback" /\ at[q] = 0 /\ ~failed[q]
  BY <1>10 DEF Install, Step
<1>11. ASSUME NEW p \in Procs, InstallFails(p) PROVE \A q \in Procs : outcome[q] =
          "none" /\ outcome'[q] = "undone" => pc[q] = "rollback" /\ at[q] = 0 /\
          ~failed[q]
  BY <1>11 DEF InstallFails, Finish
<1>12. ASSUME NEW p \in Procs, Classify(p) PROVE \A q \in Procs : outcome[q] =
          "none" /\ outcome'[q] = "undone" => pc[q] = "rollback" /\ at[q] = 0 /\
          ~failed[q]
  BY <1>12 DEF Classify, Step, Classes, Class
<1>13. ASSUME NEW p \in Procs, Refuse(p) PROVE \A q \in Procs : outcome[q] = "none"
          /\ outcome'[q] = "undone" => pc[q] = "rollback" /\ at[q] = 0 /\ ~failed[q]
  BY <1>13 DEF Refuse, Finish
<1>14. ASSUME NEW p \in Procs, Backup(p) PROVE \A q \in Procs : outcome[q] = "none"
          /\ outcome'[q] = "undone" => pc[q] = "rollback" /\ at[q] = 0 /\ ~failed[q]
  BY <1>14 DEF Backup, Step
<1>15. ASSUME NEW p \in Procs, BackupFails(p) PROVE \A q \in Procs : outcome[q] =
          "none" /\ outcome'[q] = "undone" => pc[q] = "rollback" /\ at[q] = 0 /\
          ~failed[q]
  BY <1>15 DEF BackupFails, Finish
<1>16. ASSUME NEW p \in Procs, Recheck(p) PROVE \A q \in Procs : outcome[q] = "none"
          /\ outcome'[q] = "undone" => pc[q] = "rollback" /\ at[q] = 0 /\ ~failed[q]
  BY <1>16 DEF Recheck, Step, Classes, Class
<1>17. ASSUME NEW p \in Procs, Skip(p) PROVE \A q \in Procs : outcome[q] = "none" /\
          outcome'[q] = "undone" => pc[q] = "rollback" /\ at[q] = 0 /\ ~failed[q]
  BY <1>17 DEF Skip
<1>18. ASSUME NEW p \in Procs, Check(p) PROVE \A q \in Procs : outcome[q] = "none"
          /\ outcome'[q] = "undone" => pc[q] = "rollback" /\ at[q] = 0 /\ ~failed[q]
  BY <1>18 DEF Check, Step, Writing
<1>19. ASSUME NEW p \in Procs, Replace(p) PROVE \A q \in Procs : outcome[q] = "none"
          /\ outcome'[q] = "undone" => pc[q] = "rollback" /\ at[q] = 0 /\ ~failed[q]
  BY <1>19 DEF Replace, Step
<1>20. ASSUME NEW p \in Procs, WriteFails(p) PROVE \A q \in Procs : outcome[q] =
          "none" /\ outcome'[q] = "undone" => pc[q] = "rollback" /\ at[q] = 0 /\
          ~failed[q]
  BY <1>20 DEF WriteFails, Writing
<1>21. ASSUME NEW p \in Procs, Applied(p) PROVE \A q \in Procs : outcome[q] = "none"
          /\ outcome'[q] = "undone" => pc[q] = "rollback" /\ at[q] = 0 /\ ~failed[q]
  BY <1>21 DEF Applied, Step
<1>22. ASSUME NEW p \in Procs, PassOver(p) PROVE \A q \in Procs : outcome[q] =
          "none" /\ outcome'[q] = "undone" => pc[q] = "rollback" /\ at[q] = 0 /\
          ~failed[q]
  BY <1>22 DEF PassOver
<1>23. ASSUME NEW p \in Procs, CheckBack(p) PROVE \A q \in Procs : outcome[q] =
          "none" /\ outcome'[q] = "undone" => pc[q] = "rollback" /\ at[q] = 0 /\
          ~failed[q]
  BY <1>23 DEF CheckBack, Step
<1>24. ASSUME NEW p \in Procs, Restore(p) PROVE \A q \in Procs : outcome[q] = "none"
          /\ outcome'[q] = "undone" => pc[q] = "rollback" /\ at[q] = 0 /\ ~failed[q]
  BY <1>24 DEF Restore, Step
<1>25. ASSUME NEW p \in Procs, RestoreFails(p) PROVE \A q \in Procs : outcome[q] =
          "none" /\ outcome'[q] = "undone" => pc[q] = "rollback" /\ at[q] = 0 /\
          ~failed[q]
  BY <1>25 DEF RestoreFails
<1>26. ASSUME NEW p \in Procs, RolledBack(p) PROVE \A q \in Procs : outcome[q] =
          "none" /\ outcome'[q] = "undone" => pc[q] = "rollback" /\ at[q] = 0 /\
          ~failed[q]
  BY <1>26 DEF RolledBack, Finish
<1>27. ASSUME NEW p \in Procs, Load(p) PROVE \A q \in Procs : outcome[q] = "none" /\
          outcome'[q] = "undone" => pc[q] = "rollback" /\ at[q] = 0 /\ ~failed[q]
  BY <1>27 DEF Load
<1>28. ASSUME NEW p \in Procs, Save(p) PROVE \A q \in Procs : outcome[q] = "none" /\
          outcome'[q] = "undone" => pc[q] = "rollback" /\ at[q] = 0 /\ ~failed[q]
  BY <1>28 DEF Save, Finish
<1>29. ASSUME NEW p \in Procs, Mark(p) PROVE \A q \in Procs : outcome[q] = "none" /\
          outcome'[q] = "undone" => pc[q] = "rollback" /\ at[q] = 0 /\ ~failed[q]
  BY <1>29 DEF Mark, Finish
<1>30. ASSUME NEW p \in Procs, UpdateFails(p) PROVE \A q \in Procs : outcome[q] =
          "none" /\ outcome'[q] = "undone" => pc[q] = "rollback" /\ at[q] = 0 /\
          ~failed[q]
  BY <1>30 DEF UpdateFails, Finish
<1>31. ASSUME NEW p \in Procs, Die(p) PROVE \A q \in Procs : outcome[q] = "none" /\
          outcome'[q] = "undone" => pc[q] = "rollback" /\ at[q] = 0 /\ ~failed[q]
  BY <1>31 DEF Die
<1>32. ASSUME NEW t \in Targets, Edit(t) PROVE \A q \in Procs : outcome[q] = "none"
          /\ outcome'[q] = "undone" => pc[q] = "rollback" /\ at[q] = 0 /\ ~failed[q]
  BY <1>32 DEF Edit
<1> QED
  BY <1>1, <1>2, <1>3, <1>4, <1>5, <1>6, <1>7, <1>8, <1>9, <1>10, <1>11, <1>12,
       <1>13, <1>14, <1>15, <1>16, <1>17, <1>18, <1>19, <1>20, <1>21, <1>22, <1>23,
       <1>24, <1>25, <1>26, <1>27, <1>28, <1>29, <1>30, <1>31, <1>32 DEF Next,
       Proceed

(* A group is applied whole or not at all: what a command reports as       *)
(* undone is undone.                                                       *)
THEOREM GroupsAreAllOrNothing == Spec => AllOrNothing
<1>1. SetupInv /\ [Next]_vars => [UndoneWhole]_vars
  <2> SUFFICES ASSUME SetupInv, [Next]_vars PROVE UndoneWhole
    OBVIOUS
  <2> SUFFICES ASSUME NEW p \in Procs, NEW t \in written[p],
                      outcome[p] = "none", outcome'[p] = "undone"
               PROVE  Undone(p, t)
    BY DEF Undone, UndoneWhole
  <2>1. pc[p] = "rollback" /\ at[p] = 0 /\ ~failed[p]
    BY ReportStep DEF SetupInv
  <2>2. t \notin Within(at[p])
    BY <2>1 DEF Within
  <2> QED
    BY <2>1, <2>2 DEF SetupInv, Undoing
<1> QED
  BY <1>1, SetupInvInit, SetupInvStep, PTL DEF Spec, AllOrNothing

(* The readiness lock is held by the one process that updates the manifest. *)
LEMMA SavingStep ==
  ASSUME OwnOK, OneSaving, [Next]_vars
  PROVE  OneSaving'
<1> USE SetupAssumption DEF OneSaving, OwnOK, Saving, own, files, locks, ready,
          Manifest
<1>1. CASE UNCHANGED vars
  BY <1>1 DEF vars
<1>2. ASSUME NEW p \in Procs, Doctor(p) PROVE OneSaving'
  BY <1>2 DEF Doctor, Step
<1>3. ASSUME NEW p \in Procs, Preflight(p) PROVE OneSaving'
  BY <1>3 DEF Preflight, Step, Planned
<1>4. ASSUME NEW p \in Procs, PreflightFails(p) PROVE OneSaving'
  BY <1>4 DEF PreflightFails, Finish, Unlocked
<1>5. ASSUME NEW p \in Procs, Decline(p) PROVE OneSaving'
  BY <1>5 DEF Decline, Finish, Unlocked
<1>6. ASSUME NEW p \in Procs, Approve(p) PROVE OneSaving'
  BY <1>6 DEF Approve, Step
<1>7. ASSUME NEW p \in Procs, TakeSetupLock(p) PROVE OneSaving'
  BY <1>7 DEF TakeSetupLock, Guarded
<1>8. ASSUME NEW p \in Procs, TakeReadyLock(p) PROVE OneSaving'
  BY <1>8 DEF TakeReadyLock
<1>9. ASSUME NEW p \in Procs, LockTimesOut(p) PROVE OneSaving'
  BY <1>9 DEF LockTimesOut, Finish, Unlocked
<1>10. ASSUME NEW p \in Procs, Install(p) PROVE OneSaving'
  BY <1>10 DEF Install, Step
<1>11. ASSUME NEW p \in Procs, InstallFails(p) PROVE OneSaving'
  BY <1>11 DEF InstallFails, Finish, Unlocked
<1>12. ASSUME NEW p \in Procs, Classify(p) PROVE OneSaving'
  BY <1>12 DEF Classify, Step, Classes, Class
<1>13. ASSUME NEW p \in Procs, Refuse(p) PROVE OneSaving'
  BY <1>13 DEF Refuse, Finish, Unlocked
<1>14. ASSUME NEW p \in Procs, Backup(p) PROVE OneSaving'
  BY <1>14 DEF Backup, Step
<1>15. ASSUME NEW p \in Procs, BackupFails(p) PROVE OneSaving'
  BY <1>15 DEF BackupFails, Finish, Unlocked
<1>16. ASSUME NEW p \in Procs, Recheck(p) PROVE OneSaving'
  BY <1>16 DEF Recheck, Step, Classes, Class
<1>17. ASSUME NEW p \in Procs, Skip(p) PROVE OneSaving'
  BY <1>17 DEF Skip
<1>18. ASSUME NEW p \in Procs, Check(p) PROVE OneSaving'
  BY <1>18 DEF Check, Step, Writing
<1>19. ASSUME NEW p \in Procs, Replace(p) PROVE OneSaving'
  BY <1>19 DEF Replace, Step
<1>20. ASSUME NEW p \in Procs, WriteFails(p) PROVE OneSaving'
  BY <1>20 DEF WriteFails, Writing
<1>21. ASSUME NEW p \in Procs, Applied(p) PROVE OneSaving'
  BY <1>21 DEF Applied, Step
<1>22. ASSUME NEW p \in Procs, PassOver(p) PROVE OneSaving'
  BY <1>22 DEF PassOver
<1>23. ASSUME NEW p \in Procs, CheckBack(p) PROVE OneSaving'
  BY <1>23 DEF CheckBack, Step
<1>24. ASSUME NEW p \in Procs, Restore(p) PROVE OneSaving'
  BY <1>24 DEF Restore, Step
<1>25. ASSUME NEW p \in Procs, RestoreFails(p) PROVE OneSaving'
  BY <1>25 DEF RestoreFails
<1>26. ASSUME NEW p \in Procs, RolledBack(p) PROVE OneSaving'
  BY <1>26 DEF RolledBack, Finish, Unlocked
<1>27. ASSUME NEW p \in Procs, Load(p) PROVE OneSaving'
  BY <1>27 DEF Load
<1>28. ASSUME NEW p \in Procs, Save(p) PROVE OneSaving'
  <2>1. manifest' \in Manifest /\ loaded' = loaded
    BY <1>28 DEF Save
  <2>2. readyLock = p /\ readyLock' = NoProc /\ \A q \in Procs : pc'[q] = IF q = p
            THEN pc'[p] ELSE pc[q]
    BY <1>28 DEF Save, Finish, Unlocked
  <2>3. pc'[p] \in {"markLock", "end"}
    BY <1>28 DEF Save, Finish
  <2> QED
    BY <1>28, <2>1, <2>2, <2>3
<1>29. ASSUME NEW p \in Procs, Mark(p) PROVE OneSaving'
  <2>1. /\ loaded[p] \in Manifest /\ Selected[p] \subseteq Targets
    BY <1>29, SelectedAreTargets DEF Mark
  <2>2. manifest' \in Manifest /\ loaded' = loaded
    BY <1>29, <2>1 DEF Mark
  <2>3. readyLock = p /\ readyLock' = NoProc /\ \A q \in Procs : pc'[q] = IF q = p
            THEN "end" ELSE pc[q]
    BY <1>29 DEF Mark, Finish, Unlocked
  <2> QED
    BY <2>2, <2>3
<1>30. ASSUME NEW p \in Procs, UpdateFails(p) PROVE OneSaving'
  BY <1>30 DEF UpdateFails, Finish, Unlocked
<1>31. ASSUME NEW p \in Procs, Die(p) PROVE OneSaving'
  BY <1>31 DEF Die, Unlocked
<1>32. ASSUME NEW t \in Targets, Edit(t) PROVE OneSaving'
  BY <1>32 DEF Edit
<1> QED
  BY <1>1, <1>2, <1>3, <1>4, <1>5, <1>6, <1>7, <1>8, <1>9, <1>10, <1>11, <1>12,
       <1>13, <1>14, <1>15, <1>16, <1>17, <1>18, <1>19, <1>20, <1>21, <1>22, <1>23,
       <1>24, <1>25, <1>26, <1>27, <1>28, <1>29, <1>30, <1>31, <1>32 DEF Next,
       Proceed

(* What the manifest lists stays listed.                                   *)
LEMMA RecordedStep ==
  ASSUME OwnOK, OneSaving, Recorded, [Next]_vars
  PROVE  Recorded'
<1> USE SetupAssumption DEF Recorded, OneSaving, OwnOK, Marking, Saving, own, files,
          ready, Manifest
<1>1. CASE UNCHANGED vars
  BY <1>1 DEF vars
<1>2. ASSUME NEW p \in Procs, Doctor(p) PROVE Recorded'
  BY <1>2 DEF Doctor, Step
<1>3. ASSUME NEW p \in Procs, Preflight(p) PROVE Recorded'
  BY <1>3 DEF Preflight, Step, Planned
<1>4. ASSUME NEW p \in Procs, PreflightFails(p) PROVE Recorded'
  BY <1>4 DEF PreflightFails, Finish
<1>5. ASSUME NEW p \in Procs, Decline(p) PROVE Recorded'
  BY <1>5 DEF Decline, Finish
<1>6. ASSUME NEW p \in Procs, Approve(p) PROVE Recorded'
  BY <1>6 DEF Approve, Step
<1>7. ASSUME NEW p \in Procs, TakeSetupLock(p) PROVE Recorded'
  BY <1>7 DEF TakeSetupLock, Guarded
<1>8. ASSUME NEW p \in Procs, TakeReadyLock(p) PROVE Recorded'
  BY <1>8 DEF TakeReadyLock
<1>9. ASSUME NEW p \in Procs, LockTimesOut(p) PROVE Recorded'
  BY <1>9 DEF LockTimesOut, Finish
<1>10. ASSUME NEW p \in Procs, Install(p) PROVE Recorded'
  BY <1>10 DEF Install, Step
<1>11. ASSUME NEW p \in Procs, InstallFails(p) PROVE Recorded'
  BY <1>11 DEF InstallFails, Finish
<1>12. ASSUME NEW p \in Procs, Classify(p) PROVE Recorded'
  BY <1>12 DEF Classify, Step, Classes, Class
<1>13. ASSUME NEW p \in Procs, Refuse(p) PROVE Recorded'
  BY <1>13 DEF Refuse, Finish
<1>14. ASSUME NEW p \in Procs, Backup(p) PROVE Recorded'
  BY <1>14 DEF Backup, Step
<1>15. ASSUME NEW p \in Procs, BackupFails(p) PROVE Recorded'
  BY <1>15 DEF BackupFails, Finish
<1>16. ASSUME NEW p \in Procs, Recheck(p) PROVE Recorded'
  BY <1>16 DEF Recheck, Step, Classes, Class
<1>17. ASSUME NEW p \in Procs, Skip(p) PROVE Recorded'
  BY <1>17 DEF Skip
<1>18. ASSUME NEW p \in Procs, Check(p) PROVE Recorded'
  BY <1>18 DEF Check, Step, Writing
<1>19. ASSUME NEW p \in Procs, Replace(p) PROVE Recorded'
  BY <1>19 DEF Replace, Step
<1>20. ASSUME NEW p \in Procs, WriteFails(p) PROVE Recorded'
  BY <1>20 DEF WriteFails, Writing
<1>21. ASSUME NEW p \in Procs, Applied(p) PROVE Recorded'
  BY <1>21 DEF Applied, Step
<1>22. ASSUME NEW p \in Procs, PassOver(p) PROVE Recorded'
  BY <1>22 DEF PassOver
<1>23. ASSUME NEW p \in Procs, CheckBack(p) PROVE Recorded'
  BY <1>23 DEF CheckBack, Step
<1>24. ASSUME NEW p \in Procs, Restore(p) PROVE Recorded'
  BY <1>24 DEF Restore, Step
<1>25. ASSUME NEW p \in Procs, RestoreFails(p) PROVE Recorded'
  BY <1>25 DEF RestoreFails
<1>26. ASSUME NEW p \in Procs, RolledBack(p) PROVE Recorded'
  BY <1>26 DEF RolledBack, Finish
<1>27. ASSUME NEW p \in Procs, Load(p) PROVE Recorded'
  BY <1>27 DEF Load
<1>28. ASSUME NEW p \in Procs, Save(p) PROVE Recorded'
  BY <1>28 DEF Save, Finish
<1>29. ASSUME NEW p \in Procs, Mark(p) PROVE Recorded'
  BY <1>29 DEF Mark, Finish
<1>30. ASSUME NEW p \in Procs, UpdateFails(p) PROVE Recorded'
  BY <1>30 DEF UpdateFails, Finish
<1>31. ASSUME NEW p \in Procs, Die(p) PROVE Recorded'
  BY <1>31 DEF Die
<1>32. ASSUME NEW t \in Targets, Edit(t) PROVE Recorded'
  BY <1>32 DEF Edit
<1> QED
  BY <1>1, <1>2, <1>3, <1>4, <1>5, <1>6, <1>7, <1>8, <1>9, <1>10, <1>11, <1>12,
       <1>13, <1>14, <1>15, <1>16, <1>17, <1>18, <1>19, <1>20, <1>21, <1>22, <1>23,
       <1>24, <1>25, <1>26, <1>27, <1>28, <1>29, <1>30, <1>31, <1>32 DEF Next,
       Proceed

(* A rendered content has the entry, and so has what an edit leaves.       *)
LEMMA RenderedIsNew ==
  ASSUME NEW t \in Targets, NEW c \in Contents
  PROVE  Rendered(t, c).eyes = "new"
  BY DEF Rendered

LEMMA EditKeepsEntries ==
  ASSUME FilesOK, NEW t \in Targets, Edit(t), NEW u \in Targets, file[u].eyes = "new"
  PROVE  file'[u].eyes = "new"
<1>1. CASE u # t
  BY <1>1 DEF Edit, FilesOK
<1>2. CASE u = t
  <2>1. file[t] # Absent
    BY <1>2 DEF Absent
  <2> QED
    BY <1>2, <2>1 DEF Edit, FilesOK
<1> QED
  BY <1>1, <1>2

(* The entries before the position of a process are in place.              *)
LEMMA InPlaceStep ==
  ASSUME FilesOK, OwnOK, PlansOK, OneInside, Compared, Positions, InPlace,
            [Next]_vars
  PROVE  InPlace'
<1> USE DEF InPlace, Pending, OwnOK, Stages, own, files
<1>1. CASE UNCHANGED vars
  BY <1>1 DEF vars
<1>2. ASSUME NEW p \in Procs, Doctor(p) PROVE InPlace'
  BY <1>2 DEF Doctor, Step
<1>3. ASSUME NEW p \in Procs, Preflight(p) PROVE InPlace'
  BY <1>3 DEF Preflight, Step, Planned
<1>4. ASSUME NEW p \in Procs, PreflightFails(p) PROVE InPlace'
  BY <1>4 DEF PreflightFails, Finish
<1>5. ASSUME NEW p \in Procs, Decline(p) PROVE InPlace'
  BY <1>5 DEF Decline, Finish
<1>6. ASSUME NEW p \in Procs, Approve(p) PROVE InPlace'
  BY <1>6 DEF Approve, Step
<1>7. ASSUME NEW p \in Procs, TakeSetupLock(p) PROVE InPlace'
  BY <1>7 DEF TakeSetupLock, Guarded
<1>8. ASSUME NEW p \in Procs, TakeReadyLock(p) PROVE InPlace'
  BY <1>8 DEF TakeReadyLock
<1>9. ASSUME NEW p \in Procs, LockTimesOut(p) PROVE InPlace'
  BY <1>9 DEF LockTimesOut, Finish
<1>10. ASSUME NEW p \in Procs, Install(p) PROVE InPlace'
  BY <1>10 DEF Install, Step
<1>11. ASSUME NEW p \in Procs, InstallFails(p) PROVE InPlace'
  BY <1>11 DEF InstallFails, Finish
<1>12. ASSUME NEW p \in Procs, Classify(p) PROVE InPlace'
  BY <1>12 DEF Classify, Step, Classes, Class
<1>13. ASSUME NEW p \in Procs, Refuse(p) PROVE InPlace'
  BY <1>13 DEF Refuse, Finish
<1>14. ASSUME NEW p \in Procs, Backup(p) PROVE InPlace'
  BY <1>14 DEF Backup, Step
<1>15. ASSUME NEW p \in Procs, BackupFails(p) PROVE InPlace'
  BY <1>15 DEF BackupFails, Finish
<1>16. ASSUME NEW p \in Procs, Recheck(p) PROVE InPlace'
  <2>1. ASSUME NEW t \in Selected[p] \ Pending(p) PROVE file[t].eyes = "new"
    <3>1. state[p][t] = Class(p, t) /\ state[p][t] \notin {"refused", "pending"}
      BY <1>16 DEF Recheck, Step, Classes
    <3>2. file[t] = plan[p][t].rendered
      BY <3>1 DEF Class
    <3> QED
      BY <3>2, RenderedIsNew, SelectedAreTargets DEF PlansOK
  <2>2. written[p] = {} /\ at'[p] = 1 /\ pc' = [pc EXCEPT ![p] = "write"]
    BY <1>16 DEF Recheck, Step, Positions
  <2>3. UNCHANGED <<plan, state, written, file>> /\ \A q \in Procs : q # p => at'[q]
            = at[q] /\ pc'[q] = pc[q]
    BY <1>16 DEF Recheck, Step
  <2> QED
    BY <2>1, <2>2, <2>3
<1>17. ASSUME NEW p \in Procs, Skip(p) PROVE InPlace'
  BY <1>17 DEF Skip
<1>18. ASSUME NEW p \in Procs, Check(p) PROVE InPlace'
  BY <1>18 DEF Check, Step, Writing
<1>19. ASSUME NEW p \in Procs, Replace(p) PROVE InPlace'
  <2>0. pc[p] \in Critical
    BY <1>19 DEF Replace, Step, Critical, Stages
  <2>1. \A q \in Procs : q # p => pc[q] \notin Critical
    BY <2>0, Alone
  <2>2. \A q \in Procs : q # p => pc'[q] = pc[q] /\ pc'[q] \notin Stages
    BY <1>19, <2>1 DEF Replace, Step, Critical
  <2> DEFINE u == Order[at[p]]
  <2>3. /\ u \in Selected[p] /\ u \in Targets /\ u \in Pending(p) /\ at[p] \in
            1..Len(Order)
    BY <1>19, SelectedAreTargets DEF Replace, Step, Compared
  <2>4. /\ file' = [file EXCEPT ![u] = plan[p][u].rendered] /\ at'[p] = at[p] + 1
        /\ written'[p] = written[p] \cup {u} /\ UNCHANGED <<plan, state>>
    BY <1>19 DEF Replace
  <2>5. file'[u].eyes = "new"
    BY <2>3, <2>4, RenderedIsNew DEF FilesOK, PlansOK
  <2>6. ASSUME NEW t \in Selected[p], t \in written'[p] \/ t \notin Pending(p) PROVE
            file'[t].eyes = "new"
    <3>1. CASE t = u
      BY <2>5, <3>1
    <3>2. CASE t # u
      BY <1>19, <2>4, <2>6, <3>2, SelectedAreTargets DEF Replace, Step, FilesOK
    <3> QED
      BY <3>1, <3>2
  <2>7. ASSUME NEW i \in 1..(at'[p] - 1), Order[i] \in Pending(p) PROVE Order[i] \in
            written'[p]
    <3>1. i = at[p] \/ i \in 1..(at[p] - 1)
      BY <2>3, <2>4
    <3> QED
      BY <1>19, <2>4, <2>7, <3>1 DEF Replace, Step
  <2>8. written'[p] \subseteq Pending(p)
    BY <1>19, <2>3, <2>4 DEF Replace, Step
  <2>9. \A q \in Procs : q # p => pc'[q] \notin {"write", "replace"} \cup Stages
    BY <2>2
  <2>10. \A q \in Procs : Pending(q)' = Pending(q)
    BY <2>4
  <2>11. \A q \in Procs : q # p => pc'[q] = pc[q]
    BY <2>2
  <2>12. pc'[p] = "write"
    BY <1>19 DEF Replace, Step
  <2> QED
    BY <2>12, <2>4, <2>6, <2>7, <2>8, <2>9, <2>10, <2>11
<1>20. ASSUME NEW p \in Procs, WriteFails(p) PROVE InPlace'
  BY <1>20 DEF WriteFails, Writing
<1>21. ASSUME NEW p \in Procs, Applied(p) PROVE InPlace'
  BY <1>21 DEF Applied, Step
<1>22. ASSUME NEW p \in Procs, PassOver(p) PROVE InPlace'
  BY <1>22 DEF PassOver
<1>23. ASSUME NEW p \in Procs, CheckBack(p) PROVE InPlace'
  BY <1>23 DEF CheckBack, Step
<1>24. ASSUME NEW p \in Procs, Restore(p) PROVE InPlace'
  <2>0. pc[p] \in Critical
    BY <1>24 DEF Restore, Step, Critical, Stages
  <2>1. \A q \in Procs : q # p => pc[q] \notin Critical
    BY <2>0, Alone
  <2>2. \A q \in Procs : q # p => pc'[q] = pc[q] /\ pc'[q] \notin Stages
    BY <1>24, <2>1 DEF Restore, Step, Critical
  <2>3. pc'[p] = "rollback" /\ UNCHANGED <<plan, state, written>>
    BY <1>24 DEF Restore, Step
  <2>4. pc[p] = "restore"
    BY <1>24 DEF Restore, Step
  <2> QED
    BY <2>2, <2>3, <2>4
<1>25. ASSUME NEW p \in Procs, RestoreFails(p) PROVE InPlace'
  BY <1>25 DEF RestoreFails
<1>26. ASSUME NEW p \in Procs, RolledBack(p) PROVE InPlace'
  BY <1>26 DEF RolledBack, Finish
<1>27. ASSUME NEW p \in Procs, Load(p) PROVE InPlace'
  BY <1>27 DEF Load
<1>28. ASSUME NEW p \in Procs, Save(p) PROVE InPlace'
  BY <1>28 DEF Save, Finish
<1>29. ASSUME NEW p \in Procs, Mark(p) PROVE InPlace'
  BY <1>29 DEF Mark, Finish
<1>30. ASSUME NEW p \in Procs, UpdateFails(p) PROVE InPlace'
  BY <1>30 DEF UpdateFails, Finish
<1>31. ASSUME NEW p \in Procs, Die(p) PROVE InPlace'
  BY <1>31 DEF Die
<1>32. ASSUME NEW t \in Targets, Edit(t) PROVE InPlace'
  <2>1. \A p \in Procs : \A u \in Selected[p] : file[u].eyes = "new" =>
            file'[u].eyes = "new"
    BY <1>32, EditKeepsEntries, SelectedAreTargets
  <2>2. UNCHANGED <<pc, plan, state, written, at>>
    BY <1>32 DEF Edit
  <2> QED
    BY <2>1, <2>2
<1> QED
  BY <1>1, <1>2, <1>3, <1>4, <1>5, <1>6, <1>7, <1>8, <1>9, <1>10, <1>11, <1>12,
       <1>13, <1>14, <1>15, <1>16, <1>17, <1>18, <1>19, <1>20, <1>21, <1>22, <1>23,
       <1>24, <1>25, <1>26, <1>27, <1>28, <1>29, <1>30, <1>31, <1>32 DEF Next,
       Proceed

(* What is counted on is there, and nobody takes it away.                  *)
LEMMA ReliableStep ==
  ASSUME FilesOK, OwnOK, PlansOK, OneInside, Compared, Positions, OneSaving,
            InPlace, Reliable, [Next]_vars
  PROVE  Reliable'
<1> USE DEF Reliable, Listed, Has, Marking, Saving, Pending, OwnOK, Stages, own,
          files, ready
<1>1. CASE UNCHANGED vars
  BY <1>1 DEF vars
<1>2. ASSUME NEW p \in Procs, Doctor(p) PROVE Reliable'
  BY <1>2 DEF Doctor, Step
<1>3. ASSUME NEW p \in Procs, Preflight(p) PROVE Reliable'
  BY <1>3 DEF Preflight, Step, Planned
<1>4. ASSUME NEW p \in Procs, PreflightFails(p) PROVE Reliable'
  BY <1>4 DEF PreflightFails, Finish
<1>5. ASSUME NEW p \in Procs, Decline(p) PROVE Reliable'
  BY <1>5 DEF Decline, Finish
<1>6. ASSUME NEW p \in Procs, Approve(p) PROVE Reliable'
  BY <1>6 DEF Approve, Step
<1>7. ASSUME NEW p \in Procs, TakeSetupLock(p) PROVE Reliable'
  BY <1>7 DEF TakeSetupLock, Guarded
<1>8. ASSUME NEW p \in Procs, TakeReadyLock(p) PROVE Reliable'
  BY <1>8 DEF TakeReadyLock
<1>9. ASSUME NEW p \in Procs, LockTimesOut(p) PROVE Reliable'
  BY <1>9 DEF LockTimesOut, Finish
<1>10. ASSUME NEW p \in Procs, Install(p) PROVE Reliable'
  BY <1>10 DEF Install, Step
<1>11. ASSUME NEW p \in Procs, InstallFails(p) PROVE Reliable'
  BY <1>11 DEF InstallFails, Finish
<1>12. ASSUME NEW p \in Procs, Classify(p) PROVE Reliable'
  BY <1>12 DEF Classify, Step, Classes, Class
<1>13. ASSUME NEW p \in Procs, Refuse(p) PROVE Reliable'
  BY <1>13 DEF Refuse, Finish
<1>14. ASSUME NEW p \in Procs, Backup(p) PROVE Reliable'
  BY <1>14 DEF Backup, Step
<1>15. ASSUME NEW p \in Procs, BackupFails(p) PROVE Reliable'
  BY <1>15 DEF BackupFails, Finish
<1>16. ASSUME NEW p \in Procs, Recheck(p) PROVE Reliable'
  <2>1. \A t \in Targets : Listed(t)' => Listed(t)
    BY <1>16 DEF Recheck, Step
  <2>2. ASSUME NEW t \in Pending(p) PROVE t \in Targets /\ file[t] =
            plan[p][t].original
    BY <1>16, SelectedAreTargets DEF Recheck, Classes, Class
  <2>3. UNCHANGED <<plan, state, file>> /\ \A q \in Procs : q # p => pc'[q] = pc[q]
    BY <1>16 DEF Recheck, Step
  <2>4. \A q \in Procs : Pending(q) \subseteq Targets
    BY SelectedAreTargets
  <2> QED
    BY <2>1, <2>2, <2>3, <2>4
<1>17. ASSUME NEW p \in Procs, Skip(p) PROVE Reliable'
  BY <1>17 DEF Skip
<1>18. ASSUME NEW p \in Procs, Check(p) PROVE Reliable'
  BY <1>18 DEF Check, Step, Writing
<1>19. ASSUME NEW p \in Procs, Replace(p) PROVE Reliable'
  <2>1. \A t \in Targets : Listed(t)' => Listed(t)
    BY <1>19 DEF Replace, Step
  <2> DEFINE u == Order[at[p]]
  <2>2. u \in Selected[p] /\ u \in Targets
    BY <1>19, SelectedAreTargets DEF Replace, Step, Compared
  <2>3. /\ file' = [file EXCEPT ![u] = plan[p][u].rendered] /\ UNCHANGED <<plan,
            state>>
        /\ pc' = [pc EXCEPT ![p] = "write"] /\ pc[p] = "replace"
    BY <1>19 DEF Replace, Step
  <2>4. file'[u].eyes = "new"
    BY <2>2, <2>3, RenderedIsNew DEF FilesOK, PlansOK
  <2>5. \A t \in Targets : t # u => file'[t] = file[t]
    BY <2>3 DEF FilesOK
  <2>6. \A q \in Procs : Pending(q) \subseteq Targets
    BY SelectedAreTargets
  <2> QED
    BY <2>1, <2>3, <2>4, <2>5, <2>6
<1>20. ASSUME NEW p \in Procs, WriteFails(p) PROVE Reliable'
  BY <1>20 DEF WriteFails, Writing
<1>21. ASSUME NEW p \in Procs, Applied(p) PROVE Reliable'
  <2>0. pc[p] \in Critical
    BY <1>21 DEF Applied, Step, Critical, Stages
  <2>1. \A q \in Procs : pc'[q] \notin Stages
    <3>1. \A q \in Procs : q # p => pc[q] \notin Critical
      BY <2>0, Alone
    <3> QED
      BY <1>21, <3>1 DEF Applied, Step, Critical
  <2>2. ASSUME NEW t \in Selected[p] PROVE file[t].eyes = "new"
    <3>1. pc[p] = "write" /\ at[p] > Len(Order) /\ at[p] \in 1..(Len(Order) + 1)
      BY <1>21 DEF Applied, Step, Positions
    <3>2. PICK i \in 1..Len(Order) : Order[i] = t
      BY SetupAssumption, SelectedAreTargets
    <3>3. i \in 1..(at[p] - 1)
      <4>1. Len(Order) \in Nat
        BY SetupAssumption
      <4> QED
        BY <3>1, <3>2, <4>1
    <3> QED
      BY <3>1, <3>2, <3>3 DEF InPlace
  <2>3. \A t \in Targets : Listed(t)' => Listed(t) \/ t \in Selected[p]
    BY <1>21 DEF Applied, Step
  <2>4. UNCHANGED <<file, plan, state>>
    BY <1>21 DEF Applied
  <2> QED
    BY <2>1, <2>2, <2>3, <2>4
<1>22. ASSUME NEW p \in Procs, PassOver(p) PROVE Reliable'
  BY <1>22 DEF PassOver
<1>23. ASSUME NEW p \in Procs, CheckBack(p) PROVE Reliable'
  BY <1>23 DEF CheckBack, Step
<1>24. ASSUME NEW p \in Procs, Restore(p) PROVE Reliable'
  <2>1. \A t \in Targets : Listed(t)' => Listed(t)
    BY <1>24 DEF Restore, Step
  <2> DEFINE u == Order[at[p]]
  <2>2. u \in written[p] /\ u \in Targets /\ u \in Pending(p) /\ pc[p] \in Stages
    BY <1>24, SelectedAreTargets DEF Restore, Step, Compared, Positions, InPlace
  <2>3. /\ file' = [file EXCEPT ![u] = plan[p][u].original] /\ UNCHANGED <<plan,
            state>>
        /\ pc' = [pc EXCEPT ![p] = "rollback"] /\ pc[p] = "restore"
    BY <1>24 DEF Restore, Step
  <2>4. Listed(u) => file'[u].eyes = "new"
    BY <2>2, <2>3 DEF FilesOK
  <2>5. \A t \in Targets : t # u => file'[t] = file[t]
    BY <2>3 DEF FilesOK
  <2>6. \A q \in Procs : Pending(q) \subseteq Targets
    BY SelectedAreTargets
  <2> QED
    BY <2>1, <2>3, <2>4, <2>5, <2>6
<1>25. ASSUME NEW p \in Procs, RestoreFails(p) PROVE Reliable'
  BY <1>25 DEF RestoreFails
<1>26. ASSUME NEW p \in Procs, RolledBack(p) PROVE Reliable'
  BY <1>26 DEF RolledBack, Finish
<1>27. ASSUME NEW p \in Procs, Load(p) PROVE Reliable'
  BY <1>27 DEF Load
<1>28. ASSUME NEW p \in Procs, Save(p) PROVE Reliable'
  <2>1. loaded[p] = manifest /\ manifest \in Manifest
    BY <1>28 DEF Save, OneSaving
  <2>2. manifest'.version = manifest.version /\ manifest'.tools = manifest.tools
    BY <1>28, <2>1 DEF Save, Manifest
  <2>3. \A q \in Procs : Has(q)' => Has(q)
    BY <1>28 DEF Save, Finish
  <2>4. \A t \in Targets : Listed(t)' => Listed(t)
    BY <2>2, <2>3
  <2>5. UNCHANGED <<file, plan, state>> /\ \A q \in Procs : pc'[q] \in Stages =>
            pc[q] \in Stages
    BY <1>28 DEF Save, Finish
  <2>6. \A q \in Procs : Pending(q) \subseteq Targets
    BY SelectedAreTargets
  <2> QED
    BY <2>4, <2>5, <2>6
<1>29. ASSUME NEW p \in Procs, Mark(p) PROVE Reliable'
  <2>1. loaded[p] = manifest /\ manifest \in Manifest /\ Has(p)
    BY <1>29 DEF Mark, OneSaving
  <2>2. \A t \in manifest'.tools : t \in Selected[p] \/ (manifest.version = "new" /\
            t \in manifest.tools)
    BY <1>29, <2>1 DEF Mark, Manifest
  <2>3. \A q \in Procs : Has(q)' => Has(q)
    BY <1>29, <2>1 DEF Mark, Finish
  <2>4. \A t \in Targets : Listed(t)' => Listed(t)
    BY <2>1, <2>2, <2>3
  <2>5. UNCHANGED <<file, plan, state>> /\ \A q \in Procs : pc'[q] \in Stages =>
            pc[q] \in Stages
    BY <1>29 DEF Mark, Finish
  <2>6. \A q \in Procs : Pending(q) \subseteq Targets
    BY SelectedAreTargets
  <2> QED
    BY <2>4, <2>5, <2>6
<1>30. ASSUME NEW p \in Procs, UpdateFails(p) PROVE Reliable'
  BY <1>30 DEF UpdateFails, Finish
<1>31. ASSUME NEW p \in Procs, Die(p) PROVE Reliable'
  BY <1>31 DEF Die
<1>32. ASSUME NEW t \in Targets, Edit(t) PROVE Reliable'
  <2>1. \A u \in Targets : file[u].eyes = "new" => file'[u].eyes = "new"
    BY <1>32, EditKeepsEntries
  <2>2. UNCHANGED <<pc, command, outcome, manifest, plan, state>>
    BY <1>32 DEF Edit
  <2> QED
    BY <2>1, <2>2
<1> QED
  BY <1>1, <1>2, <1>3, <1>4, <1>5, <1>6, <1>7, <1>8, <1>9, <1>10, <1>11, <1>12,
       <1>13, <1>14, <1>15, <1>16, <1>17, <1>18, <1>19, <1>20, <1>21, <1>22, <1>23,
       <1>24, <1>25, <1>26, <1>27, <1>28, <1>29, <1>30, <1>31, <1>32 DEF Next,
       Proceed

(* The invariant of the manifest holds at the start, and every step keeps  *)
(* it; together with SetupInv it is inductive.                             *)
LEMMA ManifestInvInit == Init => ManifestInv
<1> SUFFICES ASSUME Init PROVE ManifestInv
  OBVIOUS
<1> USE DEF Init
<1>1. OneSaving
  BY DEF OneSaving, Manifest, Saving
<1>2. Recorded
  BY DEF Recorded, Marking
<1>3. InPlace
  BY SelectedAreTargets DEF InPlace, Planned, Stages
<1>4. Reliable
  BY DEF Reliable, Listed, Has, Marking, Stages
<1> QED
  BY <1>1, <1>2, <1>3, <1>4 DEF ManifestInv

LEMMA ManifestInvStep == SetupInv /\ ManifestInv /\ [Next]_vars => ManifestInv'
  BY SavingStep, RecordedStep, InPlaceStep, ReliableStep DEF SetupInv, ManifestInv

(* A client that the manifest lists for this version has its entry, and no *)
(* client or report that a command recorded is lost to another one.        *)
THEOREM ManifestIsTrue == Spec => []ManifestTrue
<1>1. ManifestInv => ManifestTrue
  BY DEF ManifestInv, ManifestTrue, OneSaving, Recorded, Reliable, Listed, Manifest, Marking
<1> QED
  BY <1>1, SetupInvInit, SetupInvStep, ManifestInvInit, ManifestInvStep, PTL DEF Spec

(* Where the processes are, who holds a lock, and what is backed up.        *)
Shape ==
  /\ pc \in [Procs -> {"start", "planned", "installPlanned", "installLock",
                       "installing", "applyLock", "classify", "backup", "recheck", "write",
                       "replace", "rollback", "restore", "saveLock", "save", "saveWrite",
                       "markLock", "markReady", "mark", "markWrite", "end", "dead"}]
  /\ backups \in [Targets -> SUBSET Content]
  /\ setupLock \in Procs \cup {NoProc} /\ readyLock \in Procs \cup {NoProc}
  /\ at \in [Procs -> 0..(Len(Order) + 1)]
  /\ made \in [Targets -> 0..MaxEdits]

(* A position moves by one and stays in the order, or just beside it.      *)
LEMMA NextPosition ==
  ASSUME NEW n \in Nat, NEW a, NEW b,
         \/ a \in 0..n /\ b = a + 1
         \/ a \in 1..(n + 1) /\ b = a - 1
  PROVE  b \in 0..(n + 1)
  OBVIOUS

(* Every step keeps it.                                                    *)
LEMMA ShapeStep ==
  ASSUME FilesOK, Compared, Positions, Shape, [Next]_vars
  PROVE  Shape'
<1> USE DEF Shape, own, files, locks, ready
<1>0. Len(Order) \in Nat /\ MaxEdits \in Nat
  BY SetupAssumption
<1>1. CASE UNCHANGED vars
  BY <1>1 DEF vars
<1>2. ASSUME NEW p \in Procs, Doctor(p) PROVE Shape'
  BY <1>2 DEF Doctor, Step
<1>3. ASSUME NEW p \in Procs, Preflight(p) PROVE Shape'
  BY <1>3 DEF Preflight, Step, Planned
<1>4. ASSUME NEW p \in Procs, PreflightFails(p) PROVE Shape'
  BY <1>4 DEF PreflightFails, Finish, Unlocked
<1>5. ASSUME NEW p \in Procs, Decline(p) PROVE Shape'
  BY <1>5 DEF Decline, Finish, Unlocked
<1>6. ASSUME NEW p \in Procs, Approve(p) PROVE Shape'
  BY <1>6 DEF Approve, Step
<1>7. ASSUME NEW p \in Procs, TakeSetupLock(p) PROVE Shape'
  BY <1>7 DEF TakeSetupLock, Guarded
<1>8. ASSUME NEW p \in Procs, TakeReadyLock(p) PROVE Shape'
  BY <1>8 DEF TakeReadyLock
<1>9. ASSUME NEW p \in Procs, LockTimesOut(p) PROVE Shape'
  BY <1>9 DEF LockTimesOut, Finish, Unlocked
<1>10. ASSUME NEW p \in Procs, Install(p) PROVE Shape'
  BY <1>10 DEF Install, Step
<1>11. ASSUME NEW p \in Procs, InstallFails(p) PROVE Shape'
  BY <1>11 DEF InstallFails, Finish, Unlocked
<1>12. ASSUME NEW p \in Procs, Classify(p) PROVE Shape'
  BY <1>12 DEF Classify, Step, Classes, Class
<1>13. ASSUME NEW p \in Procs, Refuse(p) PROVE Shape'
  BY <1>13 DEF Refuse, Finish, Unlocked
<1>14. ASSUME NEW p \in Procs, Backup(p) PROVE Shape'
  <2>1. \A t \in Targets : {file[t]} \ {Absent} \subseteq Content
    BY DEF FilesOK, Contents
  <2>2. backups' \in [Targets -> SUBSET Content]
    BY <1>14, <2>1 DEF Backup
  <2> QED
    BY <1>14, <2>2 DEF Backup, Step
<1>15. ASSUME NEW p \in Procs, BackupFails(p) PROVE Shape'
  BY <1>15 DEF BackupFails, Finish, Unlocked
<1>16. ASSUME NEW p \in Procs, Recheck(p) PROVE Shape'
  BY <1>16 DEF Recheck, Step, Classes, Class
<1>17. ASSUME NEW p \in Procs, Skip(p) PROVE Shape'
  <2>1. at[p] \in 0..Len(Order) /\ at'[p] = at[p] + 1
    BY <1>0, <1>17 DEF Skip
  <2>2. at'[p] \in 0..(Len(Order) + 1)
    BY <1>0, <2>1, NextPosition
  <2> QED
    BY <1>17, <2>2 DEF Skip, Step
<1>18. ASSUME NEW p \in Procs, Check(p) PROVE Shape'
  BY <1>18 DEF Check, Step, Writing
<1>19. ASSUME NEW p \in Procs, Replace(p) PROVE Shape'
  <2>1. at[p] \in 1..Len(Order) /\ at'[p] = at[p] + 1
    BY <1>19 DEF Replace, Step, Writing, Positions, Compared
  <2>2. at'[p] \in 0..(Len(Order) + 1)
    BY <1>0, <2>1, NextPosition
  <2> QED
    BY <1>19, <2>2 DEF Replace, Step
<1>20. ASSUME NEW p \in Procs, WriteFails(p) PROVE Shape'
  <2>1. at[p] \in 1..(Len(Order) + 1) /\ at'[p] = at[p] - 1
    BY <1>20 DEF WriteFails, Step, Writing, Positions, Compared
  <2>2. at'[p] \in 0..(Len(Order) + 1)
    BY <1>0, <2>1, NextPosition
  <2> QED
    BY <1>20, <2>2 DEF WriteFails, Step
<1>21. ASSUME NEW p \in Procs, Applied(p) PROVE Shape'
  BY <1>21 DEF Applied, Step
<1>22. ASSUME NEW p \in Procs, PassOver(p) PROVE Shape'
  <2>1. at[p] \in 1..(Len(Order) + 1) /\ at'[p] = at[p] - 1
    BY <1>0, <1>22 DEF PassOver
  <2>2. at'[p] \in 0..(Len(Order) + 1)
    BY <1>0, <2>1, NextPosition
  <2> QED
    BY <1>22, <2>2 DEF PassOver, Step
<1>23. ASSUME NEW p \in Procs, CheckBack(p) PROVE Shape'
  BY <1>23 DEF CheckBack, Step
<1>24. ASSUME NEW p \in Procs, Restore(p) PROVE Shape'
  <2>1. at[p] \in 1..Len(Order) /\ at'[p] = at[p] - 1
    BY <1>24 DEF Restore, Step, Writing, Positions, Compared
  <2>2. at'[p] \in 0..(Len(Order) + 1)
    BY <1>0, <2>1, NextPosition
  <2> QED
    BY <1>24, <2>2 DEF Restore, Step
<1>25. ASSUME NEW p \in Procs, RestoreFails(p) PROVE Shape'
  <2>1. at[p] \in 1..Len(Order) /\ at'[p] = at[p] - 1
    BY <1>25 DEF RestoreFails, Step, Writing, Positions, Compared
  <2>2. at'[p] \in 0..(Len(Order) + 1)
    BY <1>0, <2>1, NextPosition
  <2> QED
    BY <1>25, <2>2 DEF RestoreFails, Step
<1>26. ASSUME NEW p \in Procs, RolledBack(p) PROVE Shape'
  BY <1>26 DEF RolledBack, Finish, Unlocked
<1>27. ASSUME NEW p \in Procs, Load(p) PROVE Shape'
  BY <1>27 DEF Load
<1>28. ASSUME NEW p \in Procs, Save(p) PROVE Shape'
  BY <1>28 DEF Save, Finish, Unlocked
<1>29. ASSUME NEW p \in Procs, Mark(p) PROVE Shape'
  BY <1>29 DEF Mark, Finish, Unlocked
<1>30. ASSUME NEW p \in Procs, UpdateFails(p) PROVE Shape'
  BY <1>30 DEF UpdateFails, Finish, Unlocked
<1>31. ASSUME NEW p \in Procs, Die(p) PROVE Shape'
  BY <1>31 DEF Die, Unlocked
<1>32. ASSUME NEW t \in Targets, Edit(t) PROVE Shape'
  <2>1. made[t] \in 0..MaxEdits /\ made[t] < MaxEdits /\ made'[t] = made[t] + 1
    BY <1>32 DEF Edit
  <2>2. made'[t] \in 0..MaxEdits
    BY <1>0, <2>1
  <2> QED
    BY <1>32, <2>2 DEF Edit
<1> QED
  BY <1>1, <1>2, <1>3, <1>4, <1>5, <1>6, <1>7, <1>8, <1>9, <1>10, <1>11, <1>12,
       <1>13, <1>14, <1>15, <1>16, <1>17, <1>18, <1>19, <1>20, <1>21, <1>22, <1>23,
       <1>24, <1>25, <1>26, <1>27, <1>28, <1>29, <1>30, <1>31, <1>32 DEF Next,
       Proceed

LEMMA ShapeInit == Init => Shape
  BY SetupAssumption DEF Init, Shape

(* The state of setup has its types, and a position is one of the order.   *)
THEOREM SetupTypeCorrect == Spec => []SetupTypeOK
<1>1. SetupInv /\ ManifestInv /\ Shape => SetupTypeOK
  BY DEF SetupInv, ManifestInv, FilesOK, OneSaving, Shape, SetupTypeOK, Contents
<1>2. SetupInv /\ Shape /\ [Next]_vars => Shape'
  BY ShapeStep DEF SetupInv
<1> QED
  BY <1>1, <1>2, SetupInvInit, SetupInvStep, ManifestInvInit, ManifestInvStep, ShapeInit,
     PTL DEF Spec
=============================================================================
