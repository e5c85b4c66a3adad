----------------------- MODULE FormerPartyPurge_proofs -----------------------
(* Proofs, for every set of parties, every number of removals and every    *)
(* failure switch, that a purge runs alone, removes contracts only off the *)
(* synchronizer and for a party that is not hosted, and that a succeeded   *)
(* one has left nothing behind.                                            *)
EXTENDS FormerPartyPurge, TLAPS

(* What is read of a row, and what a write of one column leaves of it.     *)
LEMMA RowWrite ==
  /\ NoRow \in Row /\ NoRow.status = "none" /\ NoRow.removed = 0
  /\ \A n \in Nat : LET r == [NoRow EXCEPT !.removed = n] IN
        r \in Row /\ r.removed = n /\ r.status = "none"
  /\ \A r \in Row : r.removed \in Nat /\ r.status \in Status
  /\ \A r \in Row, x \in Status : LET w == [r EXCEPT !.status = x] IN
        w \in Row /\ w.status = x /\ w.removed = r.removed
  /\ \A r \in Row : LET w == [r EXCEPT !.dismissed = TRUE] IN
        w \in Row /\ w.status = r.status /\ w.removed = r.removed
  BY DEF Row, NoRow, Status

(* A removal counts up and ends the hosting.                               *)
LEMMA HostingRemove ==
  ASSUME NEW h \in Hosting
  PROVE  LET w == [hosted |-> FALSE, removals |-> h.removals + 1, aged |-> FALSE] IN
         w \in Hosting /\ w.removals = h.removals + 1
  BY DEF Hosting

(* Ageing does not change the removals.                                    *)
LEMMA HostingAge ==
  ASSUME NEW h \in Hosting
  PROVE  LET w == [h EXCEPT !.aged = TRUE] IN w \in Hosting /\ w.removals = h.removals
  BY DEF Hosting

(* Nor the hosting.                                                        *)
LEMMA HostingAgeKeeps ==
  ASSUME NEW h \in Hosting PROVE [h EXCEPT !.aged = TRUE].hosted = h.hosted
  BY DEF Hosting

(* A party hosted again keeps its removals.                                *)
LEMMA HostingRehost ==
  ASSUME NEW h \in Hosting
  PROVE  LET w == [h EXCEPT !.hosted = TRUE] IN w \in Hosting /\ w.removals = h.removals
  BY DEF Hosting

(* It is hosted.                                                           *)
LEMMA HostingRehosts ==
  ASSUME NEW h \in Hosting PROVE [h EXCEPT !.hosted = TRUE].hosted
  BY DEF Hosting

(* The fields of the task.                                                 *)
LEMMA TaskFields ==
  /\ NoTask \in PurgeTask /\ NoTask.pc = "none"
  /\ \A t \in PurgeTask : t.pc \in TaskSteps /\ t.plan \in SUBSET Contracts
  BY DEF PurgeTask, NoTask, TaskSteps

(* A task starts at its lock.                                              *)
LEMMA TaskSpawn ==
  ASSUME NEW p \in Parties
  PROVE  LET w == [NoTask EXCEPT !.pc = "lock", !.party = p] IN
         w \in PurgeTask /\ w.pc = "lock" /\ w.party = p
  BY DEF PurgeTask, NoTask, TaskSteps

(* A task that goes on to another step keeps its party.                    *)
LEMMA TaskGoto ==
  ASSUME NEW l \in TaskSteps, task \in PurgeTask, Goto(l)
  PROVE  /\ task' \in PurgeTask /\ task'.pc = l /\ task'.party = task.party
  BY DEF PurgeTask, Goto

(* So does one that also sets its outcome.                                 *)
LEMMA TaskGives ==
  ASSUME NEW l \in TaskSteps, NEW b \in BOOLEAN, task \in PurgeTask, Gives(l, b)
  PROVE  /\ task' \in PurgeTask /\ task'.pc = l /\ task'.party = task.party
  BY DEF PurgeTask, Gives

(* The outcome is the one given.                                           *)
LEMMA TaskGivesOk ==
  ASSUME NEW l \in TaskSteps, NEW b \in BOOLEAN, task \in PurgeTask, Gives(l, b)
  PROVE  task'.ok = b
  BY DEF PurgeTask, Gives

(* So does one that writes its plan.                                       *)
LEMMA TaskPlans ==
  ASSUME NEW l \in TaskSteps, NEW s \in SUBSET Contracts, task \in PurgeTask,
         task' = [task EXCEPT !.plan = s, !.pc = l]
  PROVE  /\ task' \in PurgeTask /\ task'.pc = l /\ task'.party = task.party
  BY DEF PurgeTask

----------------------------------------------------------------------------
(* The steps of the task: where each goes, and that it keeps its party.    *)

(* A plan that finds nothing left goes straight to its outcome.            *)
LEMMA PlanMoves ==
  ASSUME TypeOK, PlanPurge
  PROVE  /\ task' \in PurgeTask /\ task'.party = task.party
         /\ task'.pc \in {"record", "off"}
         /\ task'.pc = "record" /\ task'.ok => Leftovers(task.party) = {}
<1>1. CASE task' = [task EXCEPT !.plan = Leftovers(task.party),
                     !.pc = IF Leftovers(task.party) = {} THEN "record" ELSE "off"]
  <2>1. Leftovers(task.party) \in SUBSET Contracts
    BY DEF TypeOK, PlanPurge, Leftovers, At
  <2> QED
    BY <1>1, <2>1, TaskPlans DEF TypeOK, TaskSteps
<1>2. CASE Gives("record", FALSE)
  BY <1>2, TaskGives, TaskGivesOk DEF TypeOK, TaskSteps
<1> QED
  BY <1>1, <1>2 DEF PlanPurge

(* A disconnect goes on to the recheck only when it went through.          *)
LEMMA DisconnectMoves ==
  ASSUME TypeOK, Disconnect
  PROVE  /\ task' \in PurgeTask /\ task'.party = task.party
         /\ task'.pc \in {"recheck", "on"}
         /\ task'.pc = "recheck" => ~connected'
<1>1. CASE connected' = FALSE /\ Goto("recheck")
  BY <1>1, TaskGoto DEF TypeOK, TaskSteps
<1>2. CASE Gives("on", FALSE)
  BY <1>2, TaskGives DEF TypeOK, TaskSteps
<1> QED
  BY <1>1, <1>2 DEF Disconnect

(* The recheck lets a purge go on only for a party that is removed.        *)
LEMMA RecheckMoves ==
  ASSUME TypeOK, Recheck
  PROVE  /\ task' \in PurgeTask /\ task'.party = task.party
         /\ task'.pc \in {"purge", "on"}
         /\ task'.pc = "purge" => Removed(task.party)
<1>1. CASE Removed(task.party) /\ Goto("purge")
  BY <1>1, TaskGoto DEF TypeOK, TaskSteps
<1>2. CASE Gives("on", FALSE)
  BY <1>2, TaskGives DEF TypeOK, TaskSteps
<1> QED
  BY <1>1, <1>2 DEF Recheck

(* A batch takes contracts of its party only.                              *)
LEMMA BatchMoves ==
  ASSUME TypeOK, PurgeBatch
  PROVE  /\ task' \in PurgeTask /\ task'.party = task.party
         /\ task'.pc \in {"purge", "on"}
         /\ held' \in [Parties -> SUBSET Contracts]
         /\ held'[task.party] \subseteq held[task.party]
         /\ \A q \in Parties \ {task.party} : held'[q] = held[q]
<1>1. ASSUME NEW k \in task.plan,
             held' = [held EXCEPT ![task.party] = @ \ {k}],
             task' = [task EXCEPT !.plan = @ \ {k},
                                  !.pc = IF task.plan = {k} THEN "on" ELSE "purge"]
      PROVE  /\ task' \in PurgeTask /\ task'.party = task.party
             /\ task'.pc \in {"purge", "on"}
  <2>1. task.plan \ {k} \in SUBSET Contracts
    BY TaskFields DEF TypeOK
  <2> QED
    BY <1>1, <2>1, TaskPlans DEF TypeOK, TaskSteps
<1>2. ASSUME Gives("on", FALSE)
      PROVE  /\ task' \in PurgeTask /\ task'.party = task.party
             /\ task'.pc \in {"purge", "on"}
  BY <1>2, TaskGives DEF TypeOK, TaskSteps
<1>3. /\ held' \in [Parties -> SUBSET Contracts]
      /\ held'[task.party] \subseteq held[task.party]
      /\ \A q \in Parties \ {task.party} : held'[q] = held[q]
  <2>1. task.party \in Parties
    BY DEF TypeOK, PurgeBatch, At
  <2>2. ASSUME NEW k, held' = [held EXCEPT ![task.party] = @ \ {k}]
        PROVE  /\ held' \in [Parties -> SUBSET Contracts]
               /\ held'[task.party] \subseteq held[task.party]
               /\ \A q \in Parties \ {task.party} : held'[q] = held[q]
    BY <2>1, <2>2 DEF TypeOK
  <2>3. ASSUME UNCHANGED held
        PROVE  /\ held' \in [Parties -> SUBSET Contracts]
               /\ held'[task.party] \subseteq held[task.party]
               /\ \A q \in Parties \ {task.party} : held'[q] = held[q]
    BY <2>3 DEF TypeOK
  <2> QED
    BY <2>2, <2>3 DEF PurgeBatch
<1> QED
  BY <1>1, <1>2, <1>3 DEF PurgeBatch

(* A task that failed records that, whatever the reconnect does.           *)
LEMMA ReconnectMoves ==
  ASSUME TypeOK, Reconnect
  PROVE  /\ task' \in PurgeTask /\ task'.party = task.party
         /\ task'.pc \in {"after", "record"}
         /\ task'.pc = "record" => ~task'.ok
<1>1. CASE Goto(IF task.ok THEN "after" ELSE "record")
  <2>1. CASE task.ok
    BY <1>1, <2>1, TaskGoto DEF TypeOK, TaskSteps
  <2>2. CASE ~task.ok
    <3>1. Goto("record")
      BY <1>1, <2>2
    <3>2. /\ task' \in PurgeTask /\ task'.party = task.party /\ task'.pc = "record"
      BY <3>1, TaskGoto DEF TypeOK, TaskSteps
    <3>3. task'.ok = task.ok
      BY <3>1 DEF Goto, TypeOK, PurgeTask
    <3> QED
      BY <3>2, <3>3, <2>2
  <2> QED
    BY <2>1, <2>2
<1>2. CASE Gives("record", FALSE)
  <2>1. /\ task' \in PurgeTask /\ task'.party = task.party /\ task'.pc = "record"
    BY <1>2, TaskGives DEF TypeOK, TaskSteps
  <2>2. task'.ok = FALSE
    BY <1>2, TaskGivesOk DEF TypeOK, TaskSteps
  <2> QED
    BY <2>1, <2>2
<1> QED
  BY <1>1, <1>2 DEF Reconnect

(* The outcome is a success only when a second plan finds nothing left.    *)
LEMMA PlanAgainMoves ==
  ASSUME TypeOK, PlanAgain
  PROVE  /\ task' \in PurgeTask /\ task'.party = task.party
         /\ task'.pc \in {"record"}
         /\ task'.ok => Leftovers(task.party) = {}
<1>1. CASE Gives("record", Leftovers(task.party) = {})
  <2> DEFINE b == Leftovers(task.party) = {}
  <2>b. b \in BOOLEAN
    OBVIOUS
  <2>0. Gives("record", b) /\ task \in PurgeTask /\ "record" \in TaskSteps
    BY <1>1 DEF TypeOK, TaskSteps
  <2>1. /\ task' \in PurgeTask /\ task'.party = task.party /\ task'.pc = "record"
    BY <2>0, <2>b, TaskGives
  <2>2. task'.ok = b
    BY <2>0, <2>b, TaskGivesOk
  <2> QED
    BY <2>1, <2>2
<1>2. CASE Gives("record", FALSE)
  <2>1. /\ task' \in PurgeTask /\ task'.party = task.party /\ task'.pc = "record"
    BY <1>2, TaskGives DEF TypeOK, TaskSteps
  <2>2. task'.ok = FALSE
    BY <1>2, TaskGivesOk DEF TypeOK, TaskSteps
  <2> QED
    BY <2>1, <2>2
<1> QED
  BY <1>1, <1>2 DEF PlanAgain

(* A status is written to one row, which keeps its removal.                *)
LEMMA StatusWrite ==
  ASSUME TypeOK, NEW p \in Parties, NEW x \in Status,
         row' = [row EXCEPT ![p].status = x]
  PROVE  /\ row' \in [Parties -> Row]
         /\ row'[p].status = x /\ row'[p].removed = row[p].removed
         /\ \A q \in Parties \ {p} : row'[q] = row[q]
  BY RowWrite DEF TypeOK

(* A discovery leaves running rows alone and makes none run or succeed.    *)
LEMMA ReconcileRows ==
  ASSUME TypeOK, Reconcile, NEW p \in Parties
  PROVE  /\ row'[p] \in Row
         /\ \/ row'[p] = row[p]
            \/ ~Running(p) /\ row'[p].status = "none" /\ row'[p].removed = 0
            \/ /\ ~Running(p) /\ row'[p].status = "none"
               /\ row'[p].removed = hosting[p].removals
<1>0. row[p] \in Row /\ hosting[p].removals \in Nat
  BY DEF TypeOK, Hosting
<1>1. row'[p] = IF Running(p) THEN row[p]
                ELSE IF p \in found.returned THEN NoRow ELSE RecordRemoval(p)
  BY DEF Reconcile
<1>2. CASE Running(p)
  BY <1>0, <1>1, <1>2
<1>3. CASE ~Running(p) /\ p \in found.returned
  BY <1>1, <1>3, RowWrite
<1>4. CASE ~Running(p) /\ p \notin found.returned
  <2>1. row'[p] = RecordRemoval(p)
    BY <1>1, <1>4
  <2> QED
    BY <1>0, <1>4, <2>1, RowWrite DEF RecordRemoval
<1> QED
  BY <1>2, <1>3, <1>4

(* The initial state is in its domains.                                    *)
LEMMA InitType == Init => TypeOK
<1> SUFFICES ASSUME Init PROVE TypeOK
  OBVIOUS
<1>1. hosting \in [Parties -> Hosting]
  BY DEF Init, Hosting
<1>2. row \in [Parties -> Row] /\ task \in PurgeTask /\ task.pc = "none"
  BY RowWrite, TaskFields DEF Init
<1>3. found \in Discovery
  BY DEF Init, Unread, Discovery
<1> QED
  BY <1>1, <1>2, <1>3 DEF Init, TypeOK

(* Every step keeps every variable in its domain.                          *)
LEMMA TypeStep == TypeOK /\ [Next]_vars => TypeOK'
<1> SUFFICES ASSUME TypeOK, [Next]_vars PROVE TypeOK'
  OBVIOUS
<1>u. ASSUME UNCHANGED <<hosting, held, other, connected, manual, row, wf, lock, req, task, rec, found>> PROVE TypeOK'
  BY <1>u DEF TypeOK
<1>1. ASSUME NEW p \in Parties, Remove(p) PROVE TypeOK'
  BY <1>1, HostingRemove DEF Remove, TypeOK
<1>2. ASSUME NEW p \in Parties, Age(p) PROVE TypeOK'
  BY <1>2, HostingAge DEF Age, TypeOK
<1>3. ASSUME NEW p \in Parties, Rehost(p) PROVE TypeOK'
  BY <1>3, HostingRehost DEF Rehost, TypeOK
<1>4. ASSUME NEW p \in Parties, DismissParty(p) PROVE TypeOK'
  BY <1>4, RowWrite DEF DismissParty, TypeOK
<1>5. ASSUME NEW p \in Parties, CheckPurge(p) PROVE TypeOK'
  BY <1>5 DEF CheckPurge, TypeOK
<1>6. ASSUME NEW p \in Parties, ClaimPurge(p) PROVE TypeOK'
  <2>1. "running" \in Status
    BY DEF Status
  <2>2. row' \in [Parties -> Row]
    BY <1>6, <2>1, StatusWrite DEF ClaimPurge, TypeOK
  <2>3. req' \in [Parties -> {"idle", "checked", "claimed", "lost"}]
    BY <1>6 DEF ClaimPurge, TypeOK
  <2> QED
    BY <1>6, <2>2, <2>3 DEF ClaimPurge, TypeOK
<1>7. ASSUME NEW p \in Parties, SpawnPurge(p) PROVE TypeOK'
  BY <1>7, TaskSpawn DEF SpawnPurge, TypeOK
<1>8. ASSUME NEW p \in Parties, DropRequest(p) PROVE TypeOK'
  BY <1>8 DEF DropRequest, TypeOK
<1>9. ASSUME NEW p \in Parties, CheckReconnect(p) PROVE TypeOK'
  BY <1>9 DEF CheckReconnect, RecFrame, world, TypeOK
<1>10. CASE Discover
  BY <1>10 DEF Discover, TypeOK, Discovery
<1>11. CASE Reconcile
  <2>1. row' \in [Parties -> Row]
    BY <1>11, ReconcileRows DEF Reconcile
  <2> QED
    BY <1>11, <2>1 DEF Reconcile, TypeOK, Unread, Discovery
<1>12. CASE MoveOther
  BY <1>12 DEF MoveOther, TypeOK
<1>13. CASE StartRun
  BY <1>13 DEF StartRun, TypeOK
<1>14. CASE OpenWindow
  BY <1>14 DEF OpenWindow, TypeOK
<1>15. CASE CloseWindow
  BY <1>15 DEF CloseWindow, TypeOK
<1>16. CASE EndRun
  BY <1>16 DEF EndRun, TypeOK
<1>17. CASE Recover
  BY <1>17 DEF Recover, TypeOK
<1>18. CASE TakeLock
  BY <1>18, TaskGoto DEF TakeLock, TaskFrame, world, TypeOK, TaskSteps, At
<1>19. CASE PlanPurge
  BY <1>19, PlanMoves DEF PlanPurge, TaskFrame, world, TypeOK, At
<1>20. CASE Disconnect
  BY <1>20, DisconnectMoves DEF Disconnect, TaskFrame, world, TypeOK, At
<1>21. CASE Recheck
  BY <1>21, RecheckMoves DEF Recheck, TaskFrame, world, TypeOK, At
<1>22. CASE PurgeBatch
  BY <1>22, BatchMoves DEF PurgeBatch, TypeOK, At
<1>23. CASE Reconnect
  BY <1>23, ReconnectMoves DEF Reconnect, TaskFrame, world, TypeOK, At
<1>24. CASE PlanAgain
  BY <1>24, PlanAgainMoves DEF PlanAgain, TaskFrame, world, TypeOK, At
<1>25. CASE RecordOutcome
  <2>1. row' \in [Parties -> Row]
    <3>1. (IF task.ok THEN "succeeded" ELSE "failed") \in Status
      BY DEF Status
    <3> QED
      BY <1>25, <3>1, StatusWrite DEF RecordOutcome, TypeOK, At
  <2> QED
    BY <1>25, <2>1, TaskFields DEF RecordOutcome, TypeOK, TaskFrame, world
<1>26. CASE TryLock
  <2>1. lock' \in {"free", "purge", "reconnect"} /\ rec' \in {"idle", "checked", "spawned"}
    BY <1>26 DEF TryLock, TypeOK
  <2> QED
    BY <1>26, <2>1 DEF TryLock, RecFrame, world, TypeOK
<1>27. CASE ReconnectParticipant
  BY <1>27 DEF ReconnectParticipant, RecFrame, world, TypeOK
<1>28. CASE Restart
  <2>1. "failed" \in Status
    BY DEF Status
  <2>2. row' \in [Parties -> Row]
    BY <1>28, <2>1, RowWrite DEF Restart, TypeOK
  <2> QED
    BY <1>28, <2>2, TaskFields DEF Restart, TypeOK, Unread, Discovery
<1>30. CASE LoseOutcome
  <2>1. req' \in [Parties -> {"idle", "checked", "claimed", "lost"}]
    BY <1>30 DEF LoseOutcome, TypeOK
  <2> QED
    BY <1>30, <2>1, TaskFields DEF LoseOutcome, TypeOK, world
<1>29. CASE UNCHANGED vars
  BY <1>29, <1>u DEF vars
<1> QED
  BY <1>1, <1>2, <1>3, <1>4, <1>5, <1>6, <1>7, <1>8, <1>9, <1>10, <1>11,
     <1>12, <1>13, <1>14, <1>15, <1>16, <1>17, <1>18, <1>19, <1>20, <1>21,
     <1>22, <1>23, <1>24, <1>25, <1>26, <1>27, <1>28, <1>29, <1>30
     DEF Next, Request, Workflow, Task, Reconnecting

(* The initial state has no purge.                                         *)
LEMMA InitAlone == Init => PurgeRunsAlone
  BY RowWrite, TaskFields DEF Init, PurgeRunsAlone, Running

(* No step lets two purges, or a purge and a workflow run, go on together. *)
LEMMA AloneStep == TypeOK /\ PurgeRunsAlone /\ [Next]_vars => PurgeRunsAlone'
<1> SUFFICES ASSUME TypeOK, PurgeRunsAlone, [Next]_vars PROVE PurgeRunsAlone'
  OBVIOUS
<1>u. ASSUME UNCHANGED <<row, wf, task, req>> PROVE PurgeRunsAlone'
  BY <1>u DEF PurgeRunsAlone, Running
<1>1. ASSUME NEW p \in Parties, Remove(p) PROVE PurgeRunsAlone'
  BY <1>1, <1>u DEF Remove
<1>2. ASSUME NEW p \in Parties, Age(p) PROVE PurgeRunsAlone'
  BY <1>2, <1>u DEF Age
<1>3. ASSUME NEW p \in Parties, Rehost(p) PROVE PurgeRunsAlone'
  BY <1>3, <1>u DEF Rehost
<1>4. ASSUME NEW p \in Parties, DismissParty(p) PROVE PurgeRunsAlone'
  <2>1. \A q \in Parties : row'[q].status = row[q].status
    BY <1>4, RowWrite DEF DismissParty, TypeOK
  <2> QED
    BY <1>4, <2>1 DEF DismissParty, PurgeRunsAlone, Running, TypeOK
<1>5. ASSUME NEW p \in Parties, CheckPurge(p) PROVE PurgeRunsAlone'
  BY <1>5 DEF CheckPurge, TypeOK, PurgeRunsAlone, Running
<1>6. ASSUME NEW p \in Parties, ClaimPurge(p) PROVE PurgeRunsAlone'
  <2>1. CASE req' = [req EXCEPT ![p] = "idle"] /\ UNCHANGED row
    BY <1>6, <2>1 DEF ClaimPurge, PurgeRunsAlone, Running, TypeOK
  <2>2. CASE Former(p) /\ NonePurging /\ wf = "none"
    <3>0. "running" \in Status /\ row' = [row EXCEPT ![p].status = "running"]
      BY <1>6, <2>2 DEF ClaimPurge, Status
    <3>1. /\ row'[p].status = "running"
          /\ \A q \in Parties \ {p} : row'[q] = row[q]
      BY <3>0, StatusWrite
    <3>2. \A q \in Parties : ~Running(q)
      BY <2>2 DEF NonePurging
    <3>3. task.pc = "none"
      BY <3>2 DEF PurgeRunsAlone, TypeOK
    <3> QED
      BY <1>6, <2>2, <3>1, <3>2, <3>3 DEF ClaimPurge, PurgeRunsAlone, Running, TypeOK
  <2> QED
    BY <1>6, <2>1, <2>2 DEF ClaimPurge
<1>7. ASSUME NEW p \in Parties, SpawnPurge(p) PROVE PurgeRunsAlone'
  <2>1. task'.pc = "lock" /\ task'.party = p /\ row' = row /\ wf' = wf
    BY <1>7, TaskSpawn DEF SpawnPurge
  <2>2. Running(p) /\ \A q \in Parties \ {p} : ~Running(q)
    BY <1>7 DEF SpawnPurge, PurgeRunsAlone
  <2>3. \A q \in Parties : req'[q] # "claimed"
    BY <1>7, <2>2 DEF SpawnPurge, PurgeRunsAlone, TypeOK
  <2> QED
    BY <2>1, <2>2, <2>3 DEF PurgeRunsAlone, Running
<1>8. ASSUME NEW p \in Parties, DropRequest(p) PROVE PurgeRunsAlone'
  BY <1>8 DEF DropRequest, TypeOK, PurgeRunsAlone, Running
<1>9. ASSUME NEW p \in Parties, CheckReconnect(p) PROVE PurgeRunsAlone'
  BY <1>9, <1>u DEF CheckReconnect, RecFrame, world
<1>10. CASE Discover
  BY <1>10, <1>u DEF Discover
<1>11. CASE Reconcile
  <2>1. \A q \in Parties : row'[q].status = "running" <=> Running(q)
    BY <1>11, ReconcileRows DEF Running
  <2> QED
    BY <1>11, <2>1 DEF Reconcile, PurgeRunsAlone, Running, TypeOK
<1>12. CASE MoveOther
  BY <1>12, <1>u DEF MoveOther
<1>13. CASE StartRun
  BY <1>13 DEF StartRun, PurgeRunsAlone, Running, NonePurging, TypeOK
<1>14. CASE OpenWindow
  BY <1>14 DEF OpenWindow, PurgeRunsAlone, Running, TypeOK
<1>15. CASE CloseWindow
  BY <1>15 DEF CloseWindow, PurgeRunsAlone, Running, TypeOK
<1>16. CASE EndRun
  BY <1>16 DEF EndRun, PurgeRunsAlone, Running, TypeOK
<1>17. CASE Recover
  BY <1>17, <1>u DEF Recover
<1>18. CASE TakeLock
  BY <1>18, TaskGoto
     DEF TakeLock, TaskFrame, world, PurgeRunsAlone, Running, At, TypeOK,
     TaskSteps
<1>19. CASE PlanPurge
  BY <1>19, PlanMoves
     DEF PlanPurge, TaskFrame, world, PurgeRunsAlone, Running, At
<1>20. CASE Disconnect
  BY <1>20, DisconnectMoves
     DEF Disconnect, TaskFrame, world, PurgeRunsAlone, Running, At
<1>21. CASE Recheck
  BY <1>21, RecheckMoves
     DEF Recheck, TaskFrame, world, PurgeRunsAlone, Running, At
<1>22. CASE PurgeBatch
  BY <1>22, BatchMoves DEF PurgeBatch, PurgeRunsAlone, Running, At
<1>23. CASE Reconnect
  BY <1>23, ReconnectMoves
     DEF Reconnect, TaskFrame, world, PurgeRunsAlone, Running, At
<1>24. CASE PlanAgain
  BY <1>24, PlanAgainMoves
     DEF PlanAgain, TaskFrame, world, PurgeRunsAlone, Running, At
<1>25. CASE RecordOutcome
  <2>1. PICK x \in {"succeeded", "failed"} : row' = [row EXCEPT ![task.party].status = x]
    BY <1>25 DEF RecordOutcome
  <2>2. task.party \in Parties /\ x \in Status
    BY <1>25 DEF RecordOutcome, At, TypeOK, Status
  <2>3. /\ row'[task.party].status # "running"
        /\ \A q \in Parties \ {task.party} : row'[q] = row[q]
    BY <2>1, <2>2, StatusWrite
  <2>4. \A q \in Parties : row'[q].status # "running"
    BY <1>25, <2>2, <2>3 DEF RecordOutcome, At, PurgeRunsAlone, Running
  <2>5. \A q \in Parties : req[q] # "claimed"
    BY <1>25 DEF RecordOutcome, At, PurgeRunsAlone
  <2> QED
    BY <1>25, <2>4, <2>5, TaskFields DEF RecordOutcome, TaskFrame, world, PurgeRunsAlone, Running
<1>26. CASE TryLock
  BY <1>26, <1>u DEF TryLock, RecFrame, world
<1>27. CASE ReconnectParticipant
  BY <1>27, <1>u DEF ReconnectParticipant, RecFrame, world
<1>28. CASE Restart
  <2>1. \A q \in Parties : row'[q].status # "running"
    BY <1>28, RowWrite DEF Restart, TypeOK, Running, Status
  <2> QED
    BY <1>28, <2>1, TaskFields DEF Restart, PurgeRunsAlone, Running
<1>30. CASE LoseOutcome
  BY <1>30, TaskFields DEF LoseOutcome, world, At, TypeOK, PurgeRunsAlone, Running
<1>29. CASE UNCHANGED vars
  BY <1>29, <1>u DEF vars
<1> QED
  BY <1>1, <1>2, <1>3, <1>4, <1>5, <1>6, <1>7, <1>8, <1>9, <1>10, <1>11,
     <1>12, <1>13, <1>14, <1>15, <1>16, <1>17, <1>18, <1>19, <1>20, <1>21,
     <1>22, <1>23, <1>24, <1>25, <1>26, <1>27, <1>28, <1>29, <1>30
     DEF Next, Request, Workflow, Task, Reconnecting

(* CONNECTIVITY is held by the task that took it, or by a reconnect.       *)
LockInv ==
  /\ (task.pc \notin {"none", "lock"}) <=> lock = "purge"
  /\ rec = "spawned" <=> lock = "reconnect"

(* Nobody holds it at first.                                               *)
LEMMA InitLock == Init => LockInv
  BY TaskFields DEF Init, LockInv

(* It goes from one holder to the next only when it is free.               *)
LEMMA LockStep == TypeOK /\ PurgeRunsAlone /\ LockInv /\ [Next]_vars => LockInv'
<1> SUFFICES ASSUME TypeOK, PurgeRunsAlone, LockInv, [Next]_vars PROVE LockInv'
  OBVIOUS
<1>u. ASSUME UNCHANGED <<task, lock, rec>> PROVE LockInv'
  BY <1>u DEF LockInv
<1>1. ASSUME NEW p \in Parties, Remove(p) PROVE LockInv'
  BY <1>1, <1>u DEF Remove
<1>2. ASSUME NEW p \in Parties, Age(p) PROVE LockInv'
  BY <1>2, <1>u DEF Age
<1>3. ASSUME NEW p \in Parties, Rehost(p) PROVE LockInv'
  BY <1>3, <1>u DEF Rehost
<1>4. ASSUME NEW p \in Parties, DismissParty(p) PROVE LockInv'
  BY <1>4, <1>u DEF DismissParty
<1>5. ASSUME NEW p \in Parties, CheckPurge(p) PROVE LockInv'
  BY <1>5, <1>u DEF CheckPurge
<1>6. ASSUME NEW p \in Parties, ClaimPurge(p) PROVE LockInv'
  BY <1>6, <1>u DEF ClaimPurge
<1>7. ASSUME NEW p \in Parties, SpawnPurge(p) PROVE LockInv'
  BY <1>7, TaskSpawn DEF SpawnPurge, LockInv, PurgeRunsAlone
<1>8. ASSUME NEW p \in Parties, DropRequest(p) PROVE LockInv'
  BY <1>8, <1>u DEF DropRequest
<1>9. ASSUME NEW p \in Parties, CheckReconnect(p) PROVE LockInv'
  BY <1>9 DEF CheckReconnect, RecFrame, world, LockInv
<1>10. CASE Discover
  BY <1>10, <1>u DEF Discover
<1>11. CASE Reconcile
  BY <1>11, <1>u DEF Reconcile
<1>12. CASE MoveOther
  BY <1>12, <1>u DEF MoveOther
<1>13. CASE StartRun
  BY <1>13, <1>u DEF StartRun
<1>14. CASE OpenWindow
  BY <1>14, <1>u DEF OpenWindow
<1>15. CASE CloseWindow
  BY <1>15, <1>u DEF CloseWindow
<1>16. CASE EndRun
  BY <1>16, <1>u DEF EndRun
<1>17. CASE Recover
  BY <1>17, <1>u DEF Recover
<1>18. CASE TakeLock
  BY <1>18, TaskGoto
     DEF TakeLock, TaskFrame, world, LockInv, At, TypeOK, TaskSteps
<1>19. CASE PlanPurge
  BY <1>19, PlanMoves DEF PlanPurge, TaskFrame, world, LockInv, At
<1>20. CASE Disconnect
  BY <1>20, DisconnectMoves DEF Disconnect, TaskFrame, world, LockInv, At
<1>21. CASE Recheck
  BY <1>21, RecheckMoves DEF Recheck, TaskFrame, world, LockInv, At
<1>22. CASE PurgeBatch
  BY <1>22, BatchMoves DEF PurgeBatch, LockInv, At
<1>23. CASE Reconnect
  BY <1>23, ReconnectMoves DEF Reconnect, TaskFrame, world, LockInv, At
<1>24. CASE PlanAgain
  BY <1>24, PlanAgainMoves DEF PlanAgain, TaskFrame, world, LockInv, At
<1>25. CASE RecordOutcome
  BY <1>25, TaskFields DEF RecordOutcome, TaskFrame, world, LockInv, At
<1>26. CASE TryLock
  <2>1. CASE lock' = "reconnect" /\ rec' = "spawned" /\ lock = "free"
    BY <1>26, <2>1 DEF TryLock, RecFrame, world, LockInv
  <2>2. CASE rec' = "idle" /\ UNCHANGED lock
    BY <1>26, <2>2 DEF TryLock, RecFrame, world, LockInv
  <2> QED
    BY <1>26, <2>1, <2>2 DEF TryLock
<1>27. CASE ReconnectParticipant
  BY <1>27 DEF ReconnectParticipant, RecFrame, world, LockInv
<1>28. CASE Restart
  BY <1>28, TaskFields DEF Restart, LockInv
<1>30. CASE LoseOutcome
  BY <1>30, TaskFields DEF LoseOutcome, world, LockInv, At
<1>29. CASE UNCHANGED vars
  BY <1>29, <1>u DEF vars
<1> QED
  BY <1>1, <1>2, <1>3, <1>4, <1>5, <1>6, <1>7, <1>8, <1>9, <1>10, <1>11,
     <1>12, <1>13, <1>14, <1>15, <1>16, <1>17, <1>18, <1>19, <1>20, <1>21,
     <1>22, <1>23, <1>24, <1>25, <1>26, <1>27, <1>28, <1>29, <1>30
     DEF Next, Request, Workflow, Task, Reconnecting

(* The participant is off from the disconnect to the reconnect, and the    *)
(* party stays removed from the recheck on.                                *)
OffInv ==
  /\ task.pc = "recheck" => ~connected
  /\ task.pc = "purge" => ~connected /\ Removed(task.party)

(* There is no task at first.                                              *)
LEMMA InitOff == Init => OffInv
  BY TaskFields DEF Init, OffInv

(* Nothing connects the participant between the disconnect and the last   *)
(* batch.                                                                  *)
LEMMA OffStep ==
  TypeOK /\ PurgeRunsAlone /\ LockInv /\ OffInv /\ [Next]_vars => OffInv'
<1> SUFFICES ASSUME TypeOK, PurgeRunsAlone, LockInv, OffInv, [Next]_vars PROVE OffInv'
  OBVIOUS
<1>u. ASSUME UNCHANGED <<task, connected, hosting>> PROVE OffInv'
  BY <1>u DEF OffInv, Removed
<1>1. ASSUME NEW p \in Parties, Remove(p) PROVE OffInv'
  BY <1>1 DEF Remove, OffInv
<1>2. ASSUME NEW p \in Parties, Age(p) PROVE OffInv'
  <2>1. \A q \in Parties : Removed(q) => Removed(q)'
    BY <1>2, HostingAge, HostingAgeKeeps DEF Age, TypeOK, Removed
  <2> QED
    BY <1>2, <2>1 DEF Age, OffInv, TypeOK
<1>3. ASSUME NEW p \in Parties, Rehost(p) PROVE OffInv'
  BY <1>3 DEF Rehost, OffInv
<1>4. ASSUME NEW p \in Parties, DismissParty(p) PROVE OffInv'
  BY <1>4, <1>u DEF DismissParty
<1>5. ASSUME NEW p \in Parties, CheckPurge(p) PROVE OffInv'
  BY <1>5, <1>u DEF CheckPurge
<1>6. ASSUME NEW p \in Parties, ClaimPurge(p) PROVE OffInv'
  BY <1>6, <1>u DEF ClaimPurge
<1>7. ASSUME NEW p \in Parties, SpawnPurge(p) PROVE OffInv'
  BY <1>7, TaskSpawn DEF SpawnPurge, OffInv
<1>8. ASSUME NEW p \in Parties, DropRequest(p) PROVE OffInv'
  BY <1>8, <1>u DEF DropRequest
<1>9. ASSUME NEW p \in Parties, CheckReconnect(p) PROVE OffInv'
  BY <1>9, <1>u DEF CheckReconnect, RecFrame, world
<1>10. CASE Discover
  BY <1>10, <1>u DEF Discover
<1>11. CASE Reconcile
  BY <1>11, <1>u DEF Reconcile
<1>12. CASE MoveOther
  BY <1>12, <1>u DEF MoveOther
<1>13. CASE StartRun
  BY <1>13, <1>u DEF StartRun
<1>14. CASE OpenWindow
  BY <1>14 DEF OpenWindow, OffInv, Removed
<1>15. CASE CloseWindow
  <2>1. task.pc = "none"
    BY <1>15 DEF CloseWindow, PurgeRunsAlone, TypeOK
  <2> QED
    BY <1>15, <2>1 DEF CloseWindow, OffInv
<1>16. CASE EndRun
  BY <1>16, <1>u DEF EndRun
<1>17. CASE Recover
  <2>1. task.pc = "none"
    BY <1>17 DEF Recover, PurgeRunsAlone, NonePurging, TypeOK
  <2> QED
    BY <1>17, <2>1 DEF Recover, OffInv
<1>18. CASE TakeLock
  BY <1>18, TaskGoto
     DEF TakeLock, TaskFrame, world, OffInv, At, TypeOK, TaskSteps
<1>19. CASE PlanPurge
  BY <1>19, PlanMoves DEF PlanPurge, TaskFrame, world, OffInv, At
<1>20. CASE Disconnect
  BY <1>20, DisconnectMoves DEF Disconnect, TaskFrame, world, OffInv, At
<1>21. CASE Recheck
  BY <1>21, RecheckMoves DEF Recheck, TaskFrame, world, OffInv, At, Removed
<1>22. CASE PurgeBatch
  BY <1>22, BatchMoves DEF PurgeBatch, OffInv, At, Removed
<1>23. CASE Reconnect
  BY <1>23, ReconnectMoves DEF Reconnect, TaskFrame, world, OffInv, At
<1>24. CASE PlanAgain
  BY <1>24, PlanAgainMoves DEF PlanAgain, TaskFrame, world, OffInv, At
<1>25. CASE RecordOutcome
  BY <1>25, TaskFields DEF RecordOutcome, TaskFrame, world, OffInv
<1>26. CASE TryLock
  BY <1>26, <1>u DEF TryLock, RecFrame, world
<1>27. CASE ReconnectParticipant
  BY <1>27 DEF ReconnectParticipant, RecFrame, world, LockInv, OffInv
<1>28. CASE Restart
  BY <1>28, TaskFields DEF Restart, OffInv
<1>30. CASE LoseOutcome
  BY <1>30, TaskFields DEF LoseOutcome, world, OffInv
<1>29. CASE UNCHANGED vars
  BY <1>29, <1>u DEF vars
<1> QED
  BY <1>1, <1>2, <1>3, <1>4, <1>5, <1>6, <1>7, <1>8, <1>9, <1>10, <1>11,
     <1>12, <1>13, <1>14, <1>15, <1>16, <1>17, <1>18, <1>19, <1>20, <1>21,
     <1>22, <1>23, <1>24, <1>25, <1>26, <1>27, <1>28, <1>29, <1>30
     DEF Next, Request, Workflow, Task, Reconnecting

(* No row is ahead of the removals.                                        *)
RowInv == \A p \in Parties : row[p].removed <= hosting[p].removals

(* There are no rows at first.                                             *)
LEMMA InitRow == Init => RowInv
<1> SUFFICES ASSUME Init, NEW p \in Parties PROVE row[p].removed <= hosting[p].removals
  BY DEF RowInv
<1>1. row[p].removed = 0
  BY RowWrite DEF Init
<1>2. hosting[p].removals = 0
  BY DEF Init
<1> QED
  BY <1>1, <1>2

(* A row takes its removal from the participant.                           *)
LEMMA RowStep == TypeOK /\ PurgeRunsAlone /\ RowInv /\ [Next]_vars => RowInv'
<1> SUFFICES ASSUME TypeOK, PurgeRunsAlone, RowInv, [Next]_vars PROVE RowInv'
  OBVIOUS
<1>u. ASSUME UNCHANGED <<row, hosting>> PROVE RowInv'
  BY <1>u DEF RowInv
<1>1. ASSUME NEW p \in Parties, Remove(p) PROVE RowInv'
  <2>1. \A q \in Parties : hosting'[q].removals >= hosting[q].removals
                           /\ hosting[q].removals \in Nat /\ hosting'[q].removals \in Nat
    BY <1>1, HostingRemove DEF Remove, TypeOK, Hosting
  <2>2. \A q \in Parties : row[q].removed \in Nat
    BY RowWrite DEF TypeOK
  <2> QED
    BY <1>1, <2>1, <2>2 DEF Remove, RowInv
<1>2. ASSUME NEW p \in Parties, Age(p) PROVE RowInv'
  <2>1. \A q \in Parties : hosting'[q].removals = hosting[q].removals
    BY <1>2, HostingAge DEF Age, TypeOK
  <2> QED
    BY <1>2, <2>1 DEF Age, RowInv
<1>3. ASSUME NEW p \in Parties, Rehost(p) PROVE RowInv'
  <2>1. \A q \in Parties : hosting'[q].removals = hosting[q].removals
    BY <1>3, HostingRehost DEF Rehost, TypeOK
  <2> QED
    BY <1>3, <2>1 DEF Rehost, RowInv
<1>4. ASSUME NEW p \in Parties, DismissParty(p) PROVE RowInv'
  <2>1. \A q \in Parties : row'[q].removed = row[q].removed
    BY <1>4, RowWrite DEF DismissParty, TypeOK
  <2> QED
    BY <1>4, <2>1 DEF DismissParty, RowInv
<1>5. ASSUME NEW p \in Parties, CheckPurge(p) PROVE RowInv'
  BY <1>5, <1>u DEF CheckPurge
<1>6. ASSUME NEW p \in Parties, ClaimPurge(p) PROVE RowInv'
  <2>1. CASE UNCHANGED row
    BY <1>6, <2>1, <1>u DEF ClaimPurge
  <2>2. CASE row' = [row EXCEPT ![p].status = "running"]
    <3>1. \A q \in Parties : row'[q].removed = row[q].removed
      BY <2>2, StatusWrite DEF Status
    <3> QED
      BY <1>6, <3>1 DEF ClaimPurge, RowInv
  <2> QED
    BY <1>6, <2>1, <2>2 DEF ClaimPurge
<1>7. ASSUME NEW p \in Parties, SpawnPurge(p) PROVE RowInv'
  BY <1>7, <1>u DEF SpawnPurge
<1>8. ASSUME NEW p \in Parties, DropRequest(p) PROVE RowInv'
  BY <1>8, <1>u DEF DropRequest
<1>9. ASSUME NEW p \in Parties, CheckReconnect(p) PROVE RowInv'
  BY <1>9, <1>u DEF CheckReconnect, RecFrame, world
<1>10. CASE Discover
  BY <1>10, <1>u DEF Discover
<1>11. CASE Reconcile
  <2>1. \A q \in Parties : row'[q].removed \in {row[q].removed, 0, hosting[q].removals}
    BY <1>11, ReconcileRows
  <2>2. \A q \in Parties : hosting[q].removals \in Nat
    BY DEF TypeOK, Hosting
  <2> QED
    BY <1>11, <2>1, <2>2 DEF Reconcile, RowInv
<1>12. CASE MoveOther
  BY <1>12, <1>u DEF MoveOther
<1>13. CASE StartRun
  BY <1>13, <1>u DEF StartRun
<1>14. CASE OpenWindow
  BY <1>14, <1>u DEF OpenWindow
<1>15. CASE CloseWindow
  BY <1>15, <1>u DEF CloseWindow
<1>16. CASE EndRun
  BY <1>16, <1>u DEF EndRun
<1>17. CASE Recover
  BY <1>17, <1>u DEF Recover
<1>18. CASE TakeLock
  BY <1>18, <1>u DEF TakeLock, TaskFrame, world
<1>19. CASE PlanPurge
  BY <1>19, <1>u DEF PlanPurge, TaskFrame, world
<1>20. CASE Disconnect
  BY <1>20, <1>u DEF Disconnect, TaskFrame, world
<1>21. CASE Recheck
  BY <1>21, <1>u DEF Recheck, TaskFrame, world
<1>22. CASE PurgeBatch
  BY <1>22, <1>u DEF PurgeBatch
<1>23. CASE Reconnect
  BY <1>23, <1>u DEF Reconnect, TaskFrame, world
<1>24. CASE PlanAgain
  BY <1>24, <1>u DEF PlanAgain, TaskFrame, world
<1>25. CASE RecordOutcome
  <2>1. PICK x \in {"succeeded", "failed"} : row' = [row EXCEPT ![task.party].status = x]
    BY <1>25 DEF RecordOutcome
  <2>2. task.party \in Parties /\ x \in Status
    BY <1>25 DEF RecordOutcome, At, TypeOK, Status
  <2>3. \A q \in Parties : row'[q].removed = row[q].removed
    BY <2>1, <2>2, StatusWrite
  <2> QED
    BY <1>25, <2>3 DEF RecordOutcome, TaskFrame, world, RowInv
<1>26. CASE TryLock
  BY <1>26, <1>u DEF TryLock, RecFrame, world
<1>27. CASE ReconnectParticipant
  BY <1>27, <1>u DEF ReconnectParticipant, RecFrame, world
<1>28. CASE Restart
  <2>1. \A q \in Parties : row'[q].removed = row[q].removed
    BY <1>28, RowWrite DEF Restart, TypeOK, Status
  <2> QED
    BY <1>28, <2>1 DEF Restart, RowInv
<1>30. CASE LoseOutcome
  BY <1>30, <1>u DEF LoseOutcome, world
<1>29. CASE UNCHANGED vars
  BY <1>29, <1>u DEF vars
<1> QED
  BY <1>1, <1>2, <1>3, <1>4, <1>5, <1>6, <1>7, <1>8, <1>9, <1>10, <1>11,
     <1>12, <1>13, <1>14, <1>15, <1>16, <1>17, <1>18, <1>19, <1>20, <1>21,
     <1>22, <1>23, <1>24, <1>25, <1>26, <1>27, <1>28, <1>29, <1>30
     DEF Next, Request, Workflow, Task, Reconnecting

(* A party that is still removed, as its row says, has no contract left    *)
(* that only it sees.                                                      *)
Clean(p) ==
  (Removed(p) /\ row[p].removed = hosting[p].removals) => "own" \notin held[p]

(* What a success stands for, before and after it is recorded.             *)
PurgedInv ==
  /\ \A p \in Parties : row[p].status = "succeeded" => Clean(p)
  /\ task.pc = "record" /\ task.ok => Clean(task.party)

(* There is no success at first.                                           *)
LEMMA InitPurged == Init => PurgedInv
  BY RowWrite, TaskFields DEF Init, PurgedInv

(* A write to the rows that makes none succeed, and moves no removal of    *)
(* one that has succeeded or is being purged, keeps it.                    *)
LEMMA PurgedByRows ==
  ASSUME TypeOK, PurgeRunsAlone, PurgedInv, UNCHANGED <<hosting, held, task>>,
         \A p \in Parties : row'[p].status = "succeeded" =>
             row[p].status = "succeeded" /\ row'[p].removed = row[p].removed,
         \A p \in Parties : Running(p) => row'[p].removed = row[p].removed
  PROVE  PurgedInv'
<1>1. ASSUME NEW p \in Parties, Clean(p), row'[p].removed = row[p].removed PROVE Clean(p)'
  BY <1>1 DEF Clean, Removed
<1>2. ASSUME NEW p \in Parties, row'[p].status = "succeeded" PROVE Clean(p)'
  BY <1>1, <1>2 DEF PurgedInv
<1>3. ASSUME task.pc = "record", task.ok PROVE Clean(task.party)'
  BY <1>1, <1>3 DEF PurgedInv, PurgeRunsAlone, TypeOK
<1> QED
  BY <1>2, <1>3 DEF PurgedInv

(* So does a task that is not at its outcome.                              *)
LEMMA PurgedByTask ==
  ASSUME PurgedInv, UNCHANGED <<hosting, held, row>>, task'.pc # "record"
  PROVE  PurgedInv'
  BY DEF PurgedInv, Clean, Removed

(* So does one that comes to its outcome and leaves nothing if it is ok.   *)
LEMMA PurgedByOutcome ==
  ASSUME TypeOK, PurgedInv, UNCHANGED <<hosting, held, row>>, task'.party = task.party,
         task.pc # "none", task'.ok => Leftovers(task.party) = {}
  PROVE  PurgedInv'
<1>1. task.party \in Parties
  BY DEF TypeOK
<1>2. ASSUME task'.ok PROVE Clean(task.party)'
  BY <1>1, <1>2 DEF Leftovers, Clean, TypeOK
<1>3. ASSUME NEW p \in Parties, row'[p].status = "succeeded" PROVE Clean(p)'
  BY <1>3 DEF PurgedInv, Clean, Removed
<1> QED
  BY <1>2, <1>3 DEF PurgedInv, Clean, Removed

(* So does the topology, as long as no party becomes unclean.              *)
LEMMA PurgedByWorld ==
  ASSUME TypeOK, PurgedInv, UNCHANGED <<row, task>>,
         \A p \in Parties : Clean(p) => Clean(p)'
  PROVE  PurgedInv'
  BY DEF PurgedInv, TypeOK

(* No step leaves a success that is not one.                               *)
LEMMA PurgedStep ==
  TypeOK /\ PurgeRunsAlone /\ RowInv /\ PurgedInv /\ [Next]_vars => PurgedInv'
<1> SUFFICES ASSUME TypeOK, PurgeRunsAlone, RowInv, PurgedInv, [Next]_vars PROVE PurgedInv'
  OBVIOUS
<1>u. ASSUME UNCHANGED <<row, task, hosting, held>> PROVE PurgedInv'
  BY <1>u DEF PurgedInv, Clean, Removed
<1>1. ASSUME NEW p \in Parties, Remove(p) PROVE PurgedInv'
  <2>1. hosting'[p].removals = hosting[p].removals + 1 /\ hosting[p].removals \in Nat
    BY <1>1, HostingRemove DEF Remove, TypeOK, Hosting
  <2>2. row[p].removed \in Nat /\ row[p].removed <= hosting[p].removals
    BY RowWrite DEF RowInv, TypeOK
  <2>3. Clean(p)'
    BY <1>1, <2>1, <2>2 DEF Remove, Clean
  <2>4. \A q \in Parties \ {p} : hosting'[q] = hosting[q]
    BY <1>1 DEF Remove, TypeOK
  <2>5. \A q \in Parties : Clean(q) => Clean(q)'
    BY <1>1, <2>3, <2>4 DEF Remove, Clean, Removed
  <2> QED
    BY <1>1, <2>5, PurgedByWorld DEF Remove
<1>2. ASSUME NEW p \in Parties, Age(p) PROVE PurgedInv'
  <2>1. \A q \in Parties : hosting'[q].removals = hosting[q].removals
    BY <1>2, HostingAge DEF Age, TypeOK
  <2>2. \A q \in Parties : hosting'[q].hosted = hosting[q].hosted
    BY <1>2, HostingAgeKeeps DEF Age, TypeOK
  <2>3. \A q \in Parties : Clean(q) => Clean(q)'
    BY <1>2, <2>1, <2>2 DEF Age, Clean, Removed
  <2> QED
    BY <1>2, <2>3, PurgedByWorld DEF Age
<1>3. ASSUME NEW p \in Parties, Rehost(p) PROVE PurgedInv'
  <2>1. hosting'[p].hosted
    BY <1>3, HostingRehosts DEF Rehost, TypeOK
  <2>2. \A q \in Parties \ {p} : hosting'[q] = hosting[q] /\ held'[q] = held[q]
    BY <1>3 DEF Rehost, TypeOK
  <2>3. \A q \in Parties : Clean(q) => Clean(q)'
    BY <1>3, <2>1, <2>2 DEF Rehost, Clean, Removed
  <2> QED
    BY <1>3, <2>3, PurgedByWorld DEF Rehost
<1>4. ASSUME NEW p \in Parties, DismissParty(p) PROVE PurgedInv'
  <2>1. \A q \in Parties : row'[q].status = row[q].status /\ row'[q].removed = row[q].removed
    BY <1>4, RowWrite DEF DismissParty, TypeOK
  <2> QED
    BY <1>4, <2>1, PurgedByRows DEF DismissParty
<1>5. ASSUME NEW p \in Parties, CheckPurge(p) PROVE PurgedInv'
  BY <1>5, <1>u DEF CheckPurge
<1>6. ASSUME NEW p \in Parties, ClaimPurge(p) PROVE PurgedInv'
  <2>1. CASE UNCHANGED row
    BY <1>6, <2>1, <1>u DEF ClaimPurge
  <2>2. CASE row' = [row EXCEPT ![p].status = "running"]
    <3>1. /\ row'[p].status = "running" /\ row'[p].removed = row[p].removed
          /\ \A q \in Parties \ {p} : row'[q] = row[q]
      BY <2>2, StatusWrite DEF Status
    <3> QED
      BY <1>6, <3>1, PurgedByRows DEF ClaimPurge
  <2> QED
    BY <1>6, <2>1, <2>2 DEF ClaimPurge
<1>7. ASSUME NEW p \in Parties, SpawnPurge(p) PROVE PurgedInv'
  BY <1>7, TaskSpawn, PurgedByTask DEF SpawnPurge
<1>8. ASSUME NEW p \in Parties, DropRequest(p) PROVE PurgedInv'
  BY <1>8, <1>u DEF DropRequest
<1>9. ASSUME NEW p \in Parties, CheckReconnect(p) PROVE PurgedInv'
  BY <1>9, <1>u DEF CheckReconnect, RecFrame, world
<1>10. CASE Discover
  BY <1>10, <1>u DEF Discover
<1>11. CASE Reconcile
  <2>1. \A q \in Parties : row'[q] = row[q] \/ (~Running(q) /\ row'[q].status = "none")
    BY <1>11, ReconcileRows
  <2> QED
    BY <1>11, <2>1, PurgedByRows DEF Reconcile
<1>12. CASE MoveOther
  BY <1>12, <1>u DEF MoveOther
<1>13. CASE StartRun
  BY <1>13, <1>u DEF StartRun
<1>14. CASE OpenWindow
  BY <1>14, <1>u DEF OpenWindow
<1>15. CASE CloseWindow
  BY <1>15, <1>u DEF CloseWindow
<1>16. CASE EndRun
  BY <1>16, <1>u DEF EndRun
<1>17. CASE Recover
  BY <1>17, <1>u DEF Recover
<1>18. CASE TakeLock
  BY <1>18, TaskGoto, PurgedByTask
     DEF TakeLock, TaskFrame, world, At, TypeOK, TaskSteps
<1>19. CASE PlanPurge
  <2>1. task'.party = task.party /\ task'.pc \in {"record", "off"}
    BY <1>19, PlanMoves
  <2>2. UNCHANGED <<hosting, held, row>> /\ task.pc = "plan"
    BY <1>19 DEF PlanPurge, TaskFrame, world, At
  <2>3. CASE task'.pc = "off"
    BY <2>2, <2>3, PurgedByTask
  <2>4. CASE task'.pc = "record"
    <3>1. task'.ok => Leftovers(task.party) = {}
      BY <1>19, <2>4, PlanMoves
    <3> QED
      BY <2>1, <2>2, <3>1, PurgedByOutcome
  <2> QED
    BY <2>1, <2>3, <2>4
<1>20. CASE Disconnect
  BY <1>20, DisconnectMoves, PurgedByTask DEF Disconnect, TaskFrame, world, At
<1>21. CASE Recheck
  BY <1>21, RecheckMoves, PurgedByTask DEF Recheck, TaskFrame, world, At
<1>22. CASE PurgeBatch
  <2>1. /\ task'.party = task.party /\ task'.pc # "record"
        /\ held'[task.party] \subseteq held[task.party]
        /\ \A q \in Parties \ {task.party} : held'[q] = held[q]
    BY <1>22, BatchMoves
  <2>2. UNCHANGED <<hosting, row>>
    BY <1>22 DEF PurgeBatch
  <2>3. \A q \in Parties : Clean(q) => Clean(q)'
    BY <2>1, <2>2 DEF Clean, Removed
  <2> QED
    BY <2>1, <2>2, <2>3 DEF PurgedInv
<1>23. CASE Reconnect
  <2>1. task'.party = task.party /\ task'.pc \in {"after", "record"}
    BY <1>23, ReconnectMoves
  <2>2. UNCHANGED <<hosting, held, row>> /\ task.pc = "on"
    BY <1>23 DEF Reconnect, TaskFrame, world, At
  <2>3. CASE task'.pc = "after"
    BY <2>2, <2>3, PurgedByTask
  <2>4. CASE task'.pc = "record"
    <3>1. ~task'.ok
      BY <1>23, <2>4, ReconnectMoves
    <3> QED
      BY <2>1, <2>2, <3>1, PurgedByOutcome
  <2> QED
    BY <2>1, <2>3, <2>4
<1>24. CASE PlanAgain
  <2>1. task'.party = task.party /\ (task'.ok => Leftovers(task.party) = {})
    BY <1>24, PlanAgainMoves
  <2>2. UNCHANGED <<hosting, held, row>> /\ task.pc = "after"
    BY <1>24 DEF PlanAgain, TaskFrame, world, At
  <2> QED
    BY <2>1, <2>2, PurgedByOutcome
<1>25. CASE RecordOutcome
  <2> DEFINE x == IF task.ok THEN "succeeded" ELSE "failed"
  <2>1. row' = [row EXCEPT ![task.party].status = x]
    BY <1>25 DEF RecordOutcome
  <2>2. task.party \in Parties /\ x \in Status
    BY <1>25 DEF RecordOutcome, At, TypeOK, Status
  <2> HIDE DEF x
  <2>3. /\ row'[task.party].status = x /\ row'[task.party].removed = row[task.party].removed
        /\ \A q \in Parties \ {task.party} : row'[q] = row[q]
    BY <2>1, <2>2, StatusWrite
  <2>4. UNCHANGED <<hosting, held>> /\ task' = NoTask /\ task.pc = "record"
    BY <1>25 DEF RecordOutcome, TaskFrame, world, At
  <2>5. \A q \in Parties : Clean(q) => Clean(q)'
    BY <2>3, <2>4 DEF Clean, Removed
  <2>6. x = "succeeded" => task.ok
    BY DEF x
  <2>7. x = "succeeded" => Clean(task.party)
    BY <2>4, <2>6 DEF PurgedInv
  <2>8. \A q \in Parties : row'[q].status = "succeeded" => Clean(q)
    BY <2>2, <2>3, <2>7 DEF PurgedInv
  <2>9. task'.pc # "record"
    BY <2>4, TaskFields
  <2> QED
    BY <2>5, <2>8, <2>9 DEF PurgedInv
<1>26. CASE TryLock
  BY <1>26, <1>u DEF TryLock, RecFrame, world
<1>27. CASE ReconnectParticipant
  BY <1>27, <1>u DEF ReconnectParticipant, RecFrame, world
<1>28. CASE Restart
  <2>1. \A q \in Parties : row'[q].removed = row[q].removed
    BY <1>28, RowWrite DEF Restart, TypeOK, Status
  <2>2. \A q \in Parties : row'[q].status = "succeeded" => row[q].status = "succeeded"
    BY <1>28, RowWrite DEF Restart, TypeOK, Status
  <2>3. UNCHANGED <<hosting, held>> /\ task'.pc # "record"
    BY <1>28, TaskFields DEF Restart
  <2>4. \A q \in Parties : Clean(q) => Clean(q)'
    BY <2>1, <2>3 DEF Clean, Removed
  <2> QED
    BY <2>2, <2>3, <2>4 DEF PurgedInv
<1>30. CASE LoseOutcome
  BY <1>30, TaskFields, PurgedByTask DEF LoseOutcome, world
<1>29. CASE UNCHANGED vars
  BY <1>29, <1>u DEF vars
<1> QED
  BY <1>1, <1>2, <1>3, <1>4, <1>5, <1>6, <1>7, <1>8, <1>9, <1>10, <1>11,
     <1>12, <1>13, <1>14, <1>15, <1>16, <1>17, <1>18, <1>19, <1>20, <1>21,
     <1>22, <1>23, <1>24, <1>25, <1>26, <1>27, <1>28, <1>29, <1>30
     DEF Next, Request, Workflow, Task, Reconnecting

----------------------------------------------------------------------------
(* What holds together in every reachable state.                           *)
PurgeInv == TypeOK /\ PurgeRunsAlone /\ LockInv /\ OffInv /\ RowInv /\ PurgedInv

(* The invariant holds at first and after every step.                      *)
LEMMA Invariance == Spec => []PurgeInv
<1>1. Init => PurgeInv
  BY InitType, InitAlone, InitLock, InitOff, InitRow, InitPurged DEF PurgeInv
<1>2. PurgeInv /\ [Next]_vars => PurgeInv'
  BY TypeStep, AloneStep, LockStep, OffStep, RowStep, PurgedStep DEF PurgeInv
<1> QED
  BY <1>1, <1>2, PTL DEF Spec

(* A purge runs alone, and a purge recorded as succeeded has left nothing  *)
(* that only its party sees: for any parties, removals and failures.       *)
THEOREM PurgeSafety == Spec => [](TypeOK /\ PurgeRunsAlone /\ SucceededMeansPurged)
<1>1. PurgeInv => TypeOK /\ PurgeRunsAlone /\ SucceededMeansPurged
  BY DEF PurgeInv, PurgedInv, Clean, SucceededMeansPurged
<1> QED
  BY <1>1, Invariance, PTL

(* For any parties, bounds and failures, a purge reported as succeeded for *)
(* the latest removal of a party has left none of its own contracts.       *)
THEOREM PurgedSafety == Spec => []SucceededMeansPurged
  BY PurgeSafety, PTL

(* A step takes contracts only off the synchronizer, and only of a party   *)
(* that the participant does not host.                                     *)
LEMMA ContractsStep ==
  PurgeInv /\ [Next]_vars =>
      \A p \in Parties : held[p] \ held'[p] # {} => Removed(p) /\ ~connected
<1> SUFFICES ASSUME PurgeInv, [Next]_vars, NEW q \in Parties, held[q] \ held'[q] # {}
             PROVE  Removed(q) /\ ~connected
  OBVIOUS
<1>0. TypeOK /\ OffInv
  BY DEF PurgeInv
<1>1. ~(UNCHANGED held)
  OBVIOUS
<1>2. ASSUME NEW p \in Parties, Rehost(p) PROVE FALSE
  BY <1>0, <1>2 DEF Rehost, TypeOK
<1>3. CASE PurgeBatch
  <2>1. task.pc = "purge" /\ q = task.party
    BY <1>0, <1>3, BatchMoves DEF PurgeBatch, At
  <2> QED
    BY <1>0, <2>1 DEF OffInv
<1> QED
  BY <1>1, <1>2, <1>3 DEF Next, vars, Request, Workflow, Task, Reconnecting, TaskFrame, RecFrame,
     world, Remove, Age, DismissParty, CheckPurge, ClaimPurge, SpawnPurge, DropRequest,
     CheckReconnect, Discover, Reconcile, MoveOther, StartRun, OpenWindow, CloseWindow, EndRun,
     Recover, TakeLock, PlanPurge, Disconnect, Recheck, Reconnect, PlanAgain, RecordOutcome,
     LoseOutcome, TryLock, ReconnectParticipant, Restart

(* No purge takes a contract that is current, whatever the topology, the   *)
(* workflow runs and the restarts did since it was planned.                *)
THEOREM ContractsSafety == Spec => CurrentContractsKept
<1>1. PurgeInv /\ [Next]_vars =>
        [\A p \in Parties : held[p] \ held'[p] # {} => Removed(p) /\ ~connected]_vars
  BY ContractsStep
<1> QED
  BY <1>1, Invariance, PTL DEF Spec, CurrentContractsKept
=============================================================================
