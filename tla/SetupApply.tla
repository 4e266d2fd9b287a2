----------------------------- MODULE SetupApply -----------------------------
(***************************************************************************)
(* Several processes that set Agent Eyes up at once (agent-eyes init,      *)
(* setup and doctor, eyes_setup_apply), and people editing the same client *)
(* configurations.  A process preflights its artifacts without a lock,     *)
(* then, under setup_process_lock, classifies them all, backs up those it  *)
(* will change, classifies again, replaces them one by one and, when one   *)
(* cannot be written, puts back in reverse order those it had written.     *)
(* Afterwards it merges its report and its clients into the readiness      *)
(* manifest, under a second lock.                                          *)
(*                                                                         *)
(* A file is what an editor last wrote ("user", the number of its edit)    *)
(* and the Agent Eyes entry ("eyes": "new" if it is the one this version   *)
(* writes, "none" if there is another one or none).  Reads of several      *)
(* files are one step: an edit of one commutes with a read of another.     *)
(* The last comparison before a replacement and the replacement are two.   *)
(***************************************************************************)
EXTENDS Integers, Sequences, FiniteSets

CONSTANTS
  Procs,     \* the setup processes
  Selected,  \* [Procs -> SUBSET Targets]: the artifacts it configures
  Targets,   \* the write paths of the clients' artifacts
  Text,      \* those of Targets that are whole text artifacts (the skill)
  Order,     \* a sequence of all Targets: the order of a group of plans
  NoProc,
  MaxEdits   \* bound: edits of a file by others

ASSUME SetupAssumption ==
  /\ NoProc \notin Procs
  /\ Selected \in [Procs -> SUBSET Targets] /\ Text \subseteq Targets
  /\ Order \in Seq(Targets) /\ \A t \in Targets : \E i \in 1..Len(Order) : Order[i] = t
  /\ MaxEdits \in Nat

VARIABLES
  command,   \* the command each process runs
  pc,        \* where each process is
  plan,      \* ConfigurePlan of each process and target
  state,     \* _classify_current_plan of each, as last taken under the lock
  at,        \* the position in Order a process writes, or puts back
  written,   \* the plans it has written
  failed,    \* rollback_errors is not empty
  outcome,   \* what the command reports
  file,      \* the contents of the write paths
  backups,   \* what the backups directory holds for each
  setupLock, \* the process that holds .setup.lock
  readyLock, \* the process that holds .readiness.json.lock
  manifest,  \* readiness.json
  loaded,    \* the manifest a process read for its update
  launcher,  \* the installed launcher: "old" or "current"
  made,      \* the edits made to each file (history)
  raced      \* files edited between a comparison and its replacement (history)

files == <<file, backups, made, raced>>
locks == <<setupLock, readyLock>>
ready == <<manifest, loaded, launcher>>
own   == <<command, plan, state, at, written, failed>>
vars  == <<pc, own, outcome, files, locks, ready>>

Absent   == [user |-> 0, eyes |-> "absent"]
Content  == [user : 0..MaxEdits, eyes : {"none", "new"}]
Manifest == [version : {"old", "new"}, tools : SUBSET Targets, report : BOOLEAN]

\* preflight_mcp_file renders the entry into what is there, and
\* preflight_text_file a whole artifact in its place.
Rendered(t, c) == [user |-> IF t \in Text THEN 0 ELSE c.user, eyes |-> "new"]

Planned(t) == [original |-> file[t],
               rendered |-> Rendered(t, file[t]),
               changed  |-> file[t] # Rendered(t, file[t])]

\* A mutant of Class: what the preflight found current is taken for current.
TrustedClass(p, t) ==
  IF ~plan[p][t].changed THEN "unchanged"
  ELSE IF file[t] = plan[p][t].rendered THEN "already_applied"
  ELSE IF file[t] # plan[p][t].original THEN "refused"
  ELSE "pending"

\* _classify_current_plan
Class(p, t) ==
  LET now == file[t] IN
    IF ~plan[p][t].changed /\ now = plan[p][t].original THEN "unchanged"
    ELSE IF plan[p][t].changed /\ now = plan[p][t].rendered THEN "already_applied"
    ELSE IF now # plan[p][t].original THEN "refused"
    ELSE "pending"

Classes(p) == [t \in Selected[p] |-> Class(p, t)]
Pending(p) == {t \in Selected[p] : state[p][t] = "pending"}
Ended(p)   == pc[p] \in {"end", "dead"}

Step(p, from, to) == /\ pc[p] = from
                     /\ pc' = [pc EXCEPT ![p] = to]

Unlocked(lock, p) == IF lock = p THEN NoProc ELSE lock

\* A command ends: its with-statements release what it holds.
Finish(p, how) ==
  /\ pc' = [pc EXCEPT ![p] = "end"]
  /\ outcome' = [outcome EXCEPT ![p] = how]
  /\ setupLock' = Unlocked(setupLock, p)
  /\ readyLock' = Unlocked(readyLock, p)

Init ==
  /\ command \in [Procs -> {"init", "setup", "doctor"}]
  /\ pc = [p \in Procs |-> "start"]
  /\ outcome = [p \in Procs |-> "none"]
  /\ file \in [Targets -> {Absent, [user |-> 0, eyes |-> "none"],
                           [user |-> 0, eyes |-> "new"]}]
  /\ backups = [t \in Targets |-> {}]
  /\ made = [t \in Targets |-> 0]
  /\ raced = {}
  /\ setupLock = NoProc /\ readyLock = NoProc
  /\ \E ts \in {{}, Targets} :
       manifest = [version |-> "old", tools |-> ts, report |-> FALSE]
  /\ loaded = [p \in Procs |-> manifest]
  /\ launcher \in {"old", "current"}
  /\ plan = [p \in Procs |-> [t \in Selected[p] |-> Planned(t)]]
  /\ state = [p \in Procs |-> [t \in Selected[p] |-> "unchanged"]]
  /\ at = [p \in Procs |-> 0]
  /\ written = [p \in Procs |-> {}]
  /\ failed = [p \in Procs |-> FALSE]

-----------------------------------------------------------------------------
(* Before the lock. *)

\* _run_doctor: no plan, only a report.
Doctor(p) ==
  /\ command[p] = "doctor"
  /\ Step(p, "start", "saveLock")
  /\ UNCHANGED <<own, outcome, files, locks, ready>>

\* _prepare_install and _preflight_client_configs: init needs a current
\* launcher; setup plans to install unless there is one, and also then for
\* --repair, or when the launcher proves to need it.
Preflight(p) ==
  /\ command[p] # "doctor"
  /\ \E stage \in {"planned", "installPlanned"} :
       /\ IF command[p] = "init" THEN launcher = "current" /\ stage = "planned"
          ELSE launcher = "old" => stage = "installPlanned"
       /\ Step(p, "start", stage)
  /\ plan' = [plan EXCEPT ![p] = [t \in Selected[p] |-> Planned(t)]]
  /\ UNCHANGED <<command, state, at, written, failed, outcome, files, locks, ready>>

\* init without a current launcher, or a configuration that cannot be parsed.
PreflightFails(p) ==
  /\ pc[p] = "start" /\ command[p] # "doctor"
  /\ Finish(p, "error")
  /\ UNCHANGED <<own, files, ready>>

\* A dry run, or the user says no.
Decline(p) ==
  /\ pc[p] \in {"planned", "installPlanned"}
  /\ Finish(p, "cancelled")
  /\ UNCHANGED <<own, files, ready>>

\* Consent: what was planned comes first, whatever the launcher is by now.
Approve(p) ==
  /\ \/ Step(p, "planned", "applyLock")
     \/ Step(p, "installPlanned", "installLock")
  /\ UNCHANGED <<own, outcome, files, locks, ready>>

-----------------------------------------------------------------------------
(* The locks. *)

Guarded == [installLock |-> "installing", applyLock |-> "classify",
            markLock |-> "markReady"]

\* setup_process_lock.
TakeSetupLock(p) ==
  /\ pc[p] \in DOMAIN Guarded
  /\ setupLock = NoProc
  /\ setupLock' = p
  /\ pc' = [pc EXCEPT ![p] = Guarded[pc[p]]]
  /\ UNCHANGED <<own, outcome, files, readyLock, ready>>

\* A mutant of TakeReadyLock: the update goes on without the lock when the wait times out.
TimedOutLock(p) ==
  /\ pc[p] \in {"saveLock", "markReady"}
  /\ readyLock' = IF readyLock = NoProc THEN p ELSE readyLock
  /\ pc' = [pc EXCEPT ![p] = IF pc[p] = "saveLock" THEN "save" ELSE "mark"]
  /\ UNCHANGED <<own, outcome, files, setupLock, ready>>

\* The readiness lock: alone for a report, inside the setup lock for a mark.
TakeReadyLock(p) ==
  /\ pc[p] \in {"saveLock", "markReady"}
  /\ readyLock = NoProc
  /\ readyLock' = p
  /\ pc' = [pc EXCEPT ![p] = IF pc[p] = "saveLock" THEN "save" ELSE "mark"]
  /\ UNCHANGED <<own, outcome, files, setupLock, ready>>

\* Windows: a lock not had within its five seconds is an error, not a lock.
LockTimesOut(p) ==
  /\ \/ pc[p] \in DOMAIN Guarded /\ setupLock \notin {NoProc, p}
     \/ pc[p] \in {"saveLock", "markReady"} /\ readyLock \notin {NoProc, p}
  /\ Finish(p, "error")
  /\ UNCHANGED <<own, files, ready>>

-----------------------------------------------------------------------------
(* apply_install_plan and apply_mcp_plans, under the setup lock. *)

Install(p) ==
  /\ Step(p, "installing", "applyLock")
  /\ launcher' = "current"
  /\ setupLock' = NoProc
  /\ UNCHANGED <<own, outcome, files, readyLock, manifest, loaded>>

InstallFails(p) ==
  /\ pc[p] = "installing"
  /\ Finish(p, "error")
  /\ UNCHANGED <<own, files, ready>>

Classify(p) ==
  /\ Step(p, "classify", "backup")
  /\ \A t \in Selected[p] : Class(p, t) # "refused"
  /\ state' = [state EXCEPT ![p] = Classes(p)]
  /\ UNCHANGED <<command, plan, at, written, failed, outcome, files, locks, ready>>

\* A mutant of Refuse: a refusal leaves the lock behind.
KeepLock(p) ==
  /\ \/ pc[p] = "classify" /\ \E t \in Selected[p] : Class(p, t) = "refused"
     \/ pc[p] = "recheck" /\ Classes(p) # state[p]
  /\ pc' = [pc EXCEPT ![p] = "end"]
  /\ outcome' = [outcome EXCEPT ![p] = "refused"]
  /\ UNCHANGED <<own, files, locks, ready>>

\* "Config changed since preflight; refusing to overwrite".
Refuse(p) ==
  /\ \/ pc[p] = "classify" /\ \E t \in Selected[p] : Class(p, t) = "refused"
     \/ pc[p] = "recheck" /\ Classes(p) # state[p]
  /\ Finish(p, "refused")
  /\ UNCHANGED <<own, files, ready>>

Backup(p) ==
  /\ Step(p, "backup", "recheck")
  /\ backups' = [t \in Targets |->
                   IF t \in Pending(p) THEN backups[t] \cup ({file[t]} \ {Absent})
                   ELSE backups[t]]
  /\ UNCHANGED <<own, outcome, file, made, raced, locks, ready>>

\* A backup cannot be made: nothing has been written.
BackupFails(p) ==
  /\ pc[p] = "backup"
  /\ Finish(p, "refused")
  /\ UNCHANGED <<own, files, ready>>

Recheck(p) ==
  /\ Step(p, "recheck", "write")
  /\ Classes(p) = state[p]
  /\ at' = [at EXCEPT ![p] = 1]
  /\ UNCHANGED <<command, plan, state, written, failed, outcome, files, locks, ready>>

\* for plan, state in zip(prepared, states): ... continue
Skip(p) ==
  /\ pc[p] = "write" /\ at[p] <= Len(Order)
  /\ Order[at[p]] \notin Selected[p] \/ Order[at[p]] \notin Pending(p)
  /\ at' = [at EXCEPT ![p] = @ + 1]
  /\ UNCHANGED <<command, pc, plan, state, written, failed, outcome, files, locks, ready>>

Writing(p) == /\ at[p] <= Len(Order)
              /\ Order[at[p]] \in Selected[p]
              /\ Order[at[p]] \in Pending(p)

\* A mutant of Check: the replacement expects no particular content.
AnyContent(p) ==
  /\ Step(p, "write", "replace")
  /\ Writing(p)
  /\ UNCHANGED <<own, outcome, files, locks, ready>>

\* _atomic_write up to its last comparison with the content the plan expects.
Check(p) ==
  /\ Step(p, "write", "replace")
  /\ Writing(p)
  /\ file[Order[at[p]]] = plan[p][Order[at[p]]].original
  /\ UNCHANGED <<own, outcome, files, locks, ready>>

Replace(p) ==
  /\ Step(p, "replace", "write")
  /\ LET t == Order[at[p]] IN
       /\ file' = [file EXCEPT ![t] = plan[p][t].rendered]
       /\ written' = [written EXCEPT ![p] = @ \cup {t}]
  /\ at' = [at EXCEPT ![p] = @ + 1]
  /\ UNCHANGED <<command, plan, state, failed, outcome, backups, made, raced, locks, ready>>

\* The content changed, the disk is full, or a target moved after its write.
WriteFails(p) ==
  /\ \/ pc[p] = "write" /\ (Writing(p) \/ at[p] > Len(Order))
     \/ pc[p] = "replace"
  /\ pc' = [pc EXCEPT ![p] = "rollback"]
  /\ at' = [at EXCEPT ![p] = @ - 1]
  /\ UNCHANGED <<command, plan, state, written, failed, outcome, files, locks, ready>>

\* All written and verified; the lock is released.
Applied(p) ==
  /\ at[p] > Len(Order)
  /\ Step(p, "write", IF command[p] = "setup" THEN "saveLock" ELSE "markLock")
  /\ setupLock' = NoProc
  /\ UNCHANGED <<own, outcome, files, readyLock, ready>>

\* _rollback_plans, in reverse order, over the written plans only.
PassOver(p) ==
  /\ pc[p] = "rollback" /\ at[p] > 0
  /\ Order[at[p]] \notin written[p]
  /\ at' = [at EXCEPT ![p] = @ - 1]
  /\ UNCHANGED <<command, pc, plan, state, written, failed, outcome, files, locks, ready>>

CheckBack(p) ==
  /\ Step(p, "rollback", "restore")
  /\ at[p] > 0 /\ Order[at[p]] \in written[p]
  /\ file[Order[at[p]]] = plan[p][Order[at[p]]].rendered
  /\ UNCHANGED <<own, outcome, files, locks, ready>>

\* The original comes back, or the created file goes.
Restore(p) ==
  /\ Step(p, "restore", "rollback")
  /\ LET t == Order[at[p]] IN file' = [file EXCEPT ![t] = plan[p][t].original]
  /\ at' = [at EXCEPT ![p] = @ - 1]
  /\ UNCHANGED <<command, plan, state, written, failed, outcome, backups, made, raced,
                 locks, ready>>

\* A mutant of RestoreFails: a file that cannot be put back is passed over in silence.
PassOverError(p) ==
  /\ \/ pc[p] = "rollback" /\ at[p] > 0 /\ Order[at[p]] \in written[p]
     \/ pc[p] = "restore"
  /\ pc' = [pc EXCEPT ![p] = "rollback"]
  /\ at' = [at EXCEPT ![p] = @ - 1]
  /\ UNCHANGED <<command, plan, state, written, failed, outcome, files, locks, ready>>

\* Somebody edited the file since, or it cannot be written: noted, and on.
RestoreFails(p) ==
  /\ \/ pc[p] = "rollback" /\ at[p] > 0 /\ Order[at[p]] \in written[p]
     \/ pc[p] = "restore"
  /\ pc' = [pc EXCEPT ![p] = "rollback"]
  /\ failed' = [failed EXCEPT ![p] = TRUE]
  /\ at' = [at EXCEPT ![p] = @ - 1]
  /\ UNCHANGED <<command, plan, state, written, outcome, files, locks, ready>>

RolledBack(p) ==
  /\ pc[p] = "rollback" /\ at[p] = 0
  /\ Finish(p, IF failed[p] THEN "incomplete" ELSE "undone")
  /\ UNCHANGED <<own, files, ready>>

-----------------------------------------------------------------------------
(* ReadinessStore.update and mark_initialized, under the readiness lock. *)

Load(p) ==
  /\ pc[p] \in {"save", "mark"}
  /\ loaded' = [loaded EXCEPT ![p] = manifest]
  /\ pc' = [pc EXCEPT ![p] = IF pc[p] = "save" THEN "saveWrite" ELSE "markWrite"]
  /\ UNCHANGED <<own, outcome, files, locks, manifest, launcher>>

\* save: the report's fields over what was loaded; setup marks its clients
\* if the report says the core is ready.
Save(p) ==
  /\ pc[p] = "saveWrite"
  /\ manifest' = [loaded[p] EXCEPT !.report = TRUE]
  /\ \/ /\ command[p] = "setup"
        /\ pc' = [pc EXCEPT ![p] = "markLock"]
        /\ readyLock' = NoProc
        /\ UNCHANGED <<outcome, setupLock>>
     \/ Finish(p, "reported")
  /\ UNCHANGED <<own, files, loaded, launcher>>

\* mark_initialized: the clients of the same version are merged, those of
\* another version forgotten.
Mark(p) ==
  /\ pc[p] = "markWrite"
  /\ manifest' = [loaded[p] EXCEPT
                    !.version = "new",
                    !.tools = Selected[p] \cup
                                (IF loaded[p].version = "new" THEN @ ELSE {})]
  /\ Finish(p, "configured")
  /\ UNCHANGED <<own, files, loaded, launcher>>

\* The update cannot be written: the manifest stays, the command fails.
UpdateFails(p) ==
  /\ pc[p] \in {"saveWrite", "markWrite"}
  /\ Finish(p, "error")
  /\ UNCHANGED <<own, files, ready>>

-----------------------------------------------------------------------------
(* The rest of the world. *)

\* The process is killed, or interrupted (except Exception does not catch
\* it): nothing is put back, and the system releases its locks.
Die(p) ==
  /\ ~Ended(p)
  /\ pc' = [pc EXCEPT ![p] = "dead"]
  /\ setupLock' = Unlocked(setupLock, p)
  /\ readyLock' = Unlocked(readyLock, p)
  /\ UNCHANGED <<own, outcome, files, ready>>

\* Somebody else edits a file: what Agent Eyes put there stays.
Edit(t) ==
  /\ made[t] < MaxEdits
  /\ made' = [made EXCEPT ![t] = @ + 1]
  /\ file' = [file EXCEPT ![t] =
                [user |-> made[t] + 1,
                 eyes |-> IF file[t] = Absent THEN "none" ELSE file[t].eyes]]
  /\ raced' = IF \E p \in Procs : pc[p] \in {"replace", "restore"}
                                    /\ Order[at[p]] = t
              THEN raced \cup {t} ELSE raced
  /\ UNCHANGED <<pc, own, outcome, backups, locks, ready>>

Proceed(p) ==
  \/ Doctor(p) \/ Preflight(p) \/ PreflightFails(p)
  \/ TakeSetupLock(p) \/ TakeReadyLock(p)
  \/ Install(p) \/ InstallFails(p)
  \/ Classify(p) \/ Refuse(p) \/ Backup(p) \/ BackupFails(p) \/ Recheck(p)
  \/ Skip(p) \/ Check(p) \/ Replace(p) \/ WriteFails(p) \/ Applied(p)
  \/ PassOver(p) \/ CheckBack(p) \/ Restore(p) \/ RestoreFails(p)
  \/ RolledBack(p)
  \/ Load(p) \/ Save(p) \/ Mark(p) \/ UpdateFails(p)

Next ==
  \/ \E p \in Procs : Proceed(p) \/ Decline(p) \/ Approve(p)
                        \/ LockTimesOut(p) \/ Die(p)
  \/ \E t \in Targets : Edit(t)

\* A process that runs goes on running; nobody has to consent, and on POSIX
\* a lock is waited for without an end.
Spec == Init /\ [][Next]_vars /\ \A p \in Procs : WF_vars(Proceed(p))

-----------------------------------------------------------------------------
(* Properties. *)

SetupTypeOK ==
  /\ pc \in [Procs -> {"start", "planned", "installPlanned", "installLock",
                       "installing", "applyLock", "classify", "backup", "recheck", "write",
                       "replace", "rollback", "restore", "saveLock", "save", "saveWrite",
                       "markLock", "markReady", "mark", "markWrite", "end", "dead"}]
  /\ file \in [Targets -> Content \cup {Absent}]
  /\ backups \in [Targets -> SUBSET Content]
  /\ manifest \in Manifest /\ loaded \in [Procs -> Manifest]
  /\ setupLock \in Procs \cup {NoProc} /\ readyLock \in Procs \cup {NoProc}
  /\ at \in [Procs -> 0..(Len(Order) + 1)]
  /\ made \in [Targets -> 0..MaxEdits] /\ raced \subseteq Targets

\* Whatever the processes do, fail at or die of, what somebody wrote in a file
\* is still in it or in a backup of it, unless it was written in the instant
\* between a comparison and its replacement.
NoEditLost ==
  \A t \in Targets \ raced :
    made[t] > 0 => made[t] \in {c.user : c \in {file[t]} \cup backups[t]}

\* A group is applied whole or not at all: when a command reports that its
\* write failed, and not that its rollback was incomplete, none of the entries
\* it put is left, and every file it made new is gone again unless somebody
\* else made it too.
UndoneWhole ==
  \A p \in Procs :
    outcome[p] = "none" /\ outcome'[p] = "undone" =>
      \A t \in written[p] :
        \/ file[t].eyes = plan[p][t].original.eyes
        \/ plan[p][t].original = Absent /\ file[t].eyes = "none"
AllOrNothing == [][UndoneWhole]_vars

\* The manifest tells the truth to the processes that read it: a client it
\* lists as configured by this version has its entry, and neither a client
\* that a command configured nor a report that it saved is lost to another
\* process that updates the manifest at the same time.
ManifestTrue ==
  /\ manifest.version = "new" => \A t \in manifest.tools : file[t].eyes = "new"
  /\ \A p \in Procs :
       /\ outcome[p] = "configured" =>
            manifest.version = "new" /\ Selected[p] \subseteq manifest.tools
       /\ \/ outcome[p] = "reported"
          \/ command[p] = "setup" /\ (outcome[p] = "configured" \/ pc[p] = "markLock")
          => manifest.report

\* A command that was approved comes to an end, whatever the others fail at
\* or die of while they hold a lock.
SetupEnds == \A p \in Procs : pc[p] \in {"installLock", "applyLock"} ~> Ended(p)

-----------------------------------------------------------------------------
(* The inductive invariant of NoEditLost and AllOrNothing. *)

Contents == Content \cup {Absent}
Early    == {"start", "planned", "installPlanned", "installLock", "installing",
             "applyLock"}
Stages   == {"write", "replace", "rollback", "restore"}
Critical == {"installing", "classify", "backup", "recheck", "markReady", "mark",
             "markWrite"} \cup Stages
Within(n) == {Order[i] : i \in 1..n}

FilesOK ==
  /\ file \in [Targets -> Contents]
  /\ backups \in [Targets -> SUBSET Contents]
  /\ made \in [Targets -> Nat]
  /\ raced \subseteq Targets
  /\ \A t \in Targets : file[t].user <= made[t]

OwnOK ==
  /\ DOMAIN pc = Procs /\ DOMAIN plan = Procs /\ DOMAIN state = Procs
  /\ DOMAIN outcome = Procs
  /\ at \in [Procs -> Int] /\ failed \in [Procs -> BOOLEAN]
  /\ written \in [Procs -> SUBSET Targets]

\* A plan renders its original, which nobody has edited into the future.
PlansOK ==
  \A p \in Procs : \A t \in Selected[p] :
    /\ plan[p][t].original \in Contents
    /\ plan[p][t].rendered = Rendered(t, plan[p][t].original)
    /\ plan[p][t].original.user <= made[t]

\* One process at a time has the setup lock.
OneInside == \A p \in Procs : pc[p] \in Critical => setupLock = p

\* What a pending plan replaces is in a backup before the first write, and a
\* change since the first classification shows.
Newer(p, t) == file[t].user > plan[p][t].original.user
Saved(p, t) == plan[p][t].original \in backups[t] \cup {Absent}

BackedUp ==
  \A p \in Procs : \A t \in Pending(p) :
    /\ pc[p] = "backup" => file[t] = plan[p][t].original \/ Newer(p, t)
    /\ pc[p] = "recheck" => Saved(p, t) \/ Newer(p, t)
    /\ pc[p] \in Stages => Saved(p, t)

\* Between a comparison and its replacement only a racing edit comes.
Compared ==
  \A p \in Procs : LET t == Order[at[p]] IN
    /\ pc[p] = "replace" =>
         /\ at[p] \in 1..Len(Order) /\ t \in Selected[p] /\ t \in Pending(p)
         /\ t \in raced \/ file[t] = plan[p][t].original
    /\ pc[p] = "restore" =>
         /\ at[p] \in 1..Len(Order) /\ t \in written[p]
         /\ t \in raced \/ file[t] = plan[p][t].rendered

\* The written plans of a process are those before its position.
Positions ==
  \A p \in Procs :
    /\ pc[p] \in Early \cup {"classify", "backup", "recheck"} => written[p] = {}
    /\ written[p] \subseteq Selected[p]
    /\ pc[p] = "write" => at[p] \in 1..(Len(Order) + 1)
    /\ pc[p] \in {"write", "replace"} => written[p] \subseteq Within(at[p] - 1)
    /\ pc[p] = "rollback" => at[p] \in 0..Len(Order)

\* Every written plan is still before the one that rolls back, or is undone,
\* or its failure is noted.
Undone(p, t) ==
  \/ file[t].eyes = plan[p][t].original.eyes
  \/ plan[p][t].original = Absent /\ file[t].eyes = "none"

Undoing ==
  \A p \in Procs : pc[p] \in {"rollback", "restore"} /\ ~failed[p] =>
    \A t \in written[p] : t \in Within(at[p]) \/ Undone(p, t)

SetupInv ==
  /\ FilesOK /\ OwnOK /\ PlansOK /\ OneInside
  /\ BackedUp /\ Compared /\ Positions /\ Undoing /\ NoEditLost

-----------------------------------------------------------------------------
(* The inductive invariant of ManifestTrue, beside SetupInv. *)

Saving  == {"save", "saveWrite", "mark", "markWrite"}
Marking == {"markLock", "markReady", "mark", "markWrite"}

\* The group of p has been applied, and p has not failed since.
Has(p) ==
  \/ pc[p] \in Marking \/ outcome[p] = "configured"
  \/ pc[p] \in {"saveLock", "save", "saveWrite"} /\ command[p] # "doctor"

\* The entry of t is counted on, by the manifest or by a process.
Listed(t) ==
  \/ manifest.version = "new" /\ t \in manifest.tools
  \/ \E p \in Procs : Has(p) /\ t \in Selected[p]

\* One process at a time updates the manifest, from what is in it.
OneSaving ==
  /\ manifest \in Manifest /\ loaded \in [Procs -> Manifest]
  /\ \A p \in Procs :
       /\ pc[p] \in Saving => readyLock = p
       /\ pc[p] \in {"saveWrite", "markWrite"} => loaded[p] = manifest

\* No update loses what an earlier one put.
Recorded ==
  \A p \in Procs :
    /\ outcome[p] = "configured" =>
         manifest.version = "new" /\ Selected[p] \subseteq manifest.tools
    /\ \/ outcome[p] = "reported"
       \/ command[p] = "setup" /\ (outcome[p] = "configured" \/ pc[p] \in Marking)
       => manifest.report

\* Up to the position of a process that writes, its entries are in place.
InPlace ==
  \A p \in Procs :
    /\ \A t \in Selected[p] :
         /\ plan[p][t].changed = (plan[p][t].original # plan[p][t].rendered)
         /\ pc[p] \in {"backup", "recheck"} => state[p][t] # "refused"
         /\ pc[p] \in {"write", "replace"} /\ (t \in written[p] \/ t \notin Pending(p)) =>
              file[t].eyes = "new"
    /\ pc[p] \in Stages => written[p] \subseteq Pending(p)
    /\ pc[p] \in {"write", "replace"} =>
         \A i \in 1..(at[p] - 1) : Order[i] \in Pending(p) => Order[i] \in written[p]

\* An entry that is counted on is there, and no rollback takes it away.
Reliable ==
  /\ \A t \in Targets : Listed(t) => file[t].eyes = "new"
  /\ \A p \in Procs : \A t \in Pending(p) :
       pc[p] \in Stages /\ Listed(t) => plan[p][t].original.eyes = "new"

ManifestInv == OneSaving /\ Recorded /\ InPlace /\ Reliable
=============================================================================
