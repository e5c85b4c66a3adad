-------------------------- MODULE FormerPartyPurge --------------------------
(***************************************************************************)
(* The purge of the contracts a participant still holds for parties it no  *)
(* longer hosts: the rows of former_dec_party, the request that checks and *)
(* claims a purge, its background task that takes the participant off the  *)
(* synchronizer and back, the operator's reconnect after a failed purge,   *)
(* and what goes on around them: discoveries, workflow runs that take the  *)
(* participant off themselves, and a topology that changes while it is     *)
(* connected.                                                              *)
(*                                                                         *)
(* Each former party has a contract of its own and one it shares with a    *)
(* party the participant may host.                                         *)
(***************************************************************************)
EXTENDS Naturals

CONSTANTS
    Parties,        \* the parties this participant hosted once
    Returning,      \* the ones that may be hosted again
    MaxRemovals,    \* bound on the removals of each
    OtherMoves,     \* may the other stakeholder be hosted, or unhosted, later?
    CallsFail       \* may the participant refuse a call, and the database the last write?

ASSUME BoundsAssumption == MaxRemovals \in Nat
ASSUME SwitchesAssumption == OtherMoves \cup {CallsFail} \subseteq BOOLEAN

VARIABLES
    hosting,    \* the participant's view of each party's mapping
    other,      \* does it host the other stakeholder?
    held,       \* the contracts it holds for each party
    connected,  \* is it on the synchronizer?
    manual,     \* is its connection set to manual?
    row,        \* former_dec_party
    wf,         \* the node's workflow runs: "none", "inprogress", or "off"
    lock,       \* CONNECTIVITY
    req,        \* the requests to purge; "lost" once nobody is left to end a claimed purge
    task,       \* the purge that runs
    rec,        \* the request to reconnect
    found       \* the parties a discovery returned

world == <<hosting, other, held, wf, manual, found>>
vars == <<hosting, other, held, connected, manual, row, wf, lock, req, task, rec, found>>

Contracts == {"own", "shared"}
NoRow == [removed |-> 0, status |-> "none", dismissed |-> FALSE]
NoTask == [pc |-> "none", party |-> "none", plan |-> {}, ok |-> TRUE]
Unread == [done |-> FALSE, returned |-> {}]

Init ==
    /\ hosting = [p \in Parties |-> [hosted |-> TRUE, removals |-> 0, aged |-> FALSE]]
    /\ held = [p \in Parties |-> Contracts]
    /\ other = TRUE /\ connected = TRUE /\ manual = FALSE
    /\ row = [p \in Parties |-> NoRow]
    /\ wf = "none" /\ lock = "free"
    /\ req = [p \in Parties |-> "idle"]
    /\ task = NoTask /\ rec = "idle"
    /\ found = Unread

Running(p) == row[p].status = "running"
NonePurging == \A p \in Parties : ~Running(p)
Former(p) == row[p].removed > 0 /\ ~row[p].dismissed

(* live_removal_time is Some: hosted once, and not in the last serial.     *)
Removed(p) == hosting[p].removals > 0 /\ ~hosting[p].hosted

----------------------------------------------------------------------------
(* The synchronizer and the operator.  The participant sees the topology   *)
(* change only while it is connected.                                      *)

Remove(p) ==
    /\ connected /\ hosting[p].hosted /\ hosting[p].removals < MaxRemovals
    /\ hosting' = [hosting EXCEPT ![p] = [hosted |-> FALSE, removals |-> @.removals + 1,
                                          aged |-> FALSE]]
    /\ UNCHANGED <<other, held, connected, manual, row, wf, lock, req, task, rec, found>>

(* MIN_REMOVAL_AGE passes. *)
Age(p) ==
    /\ Removed(p) /\ ~hosting[p].aged
    /\ hosting' = [hosting EXCEPT ![p].aged = TRUE]
    /\ UNCHANGED <<other, held, connected, manual, row, wf, lock, req, task, rec, found>>

(* Hosted again, with its contracts current. *)
Rehost(p) ==
    /\ connected /\ p \in Returning /\ Removed(p)
    /\ hosting' = [hosting EXCEPT ![p].hosted = TRUE]
    /\ held' = [held EXCEPT ![p] = Contracts]
    /\ UNCHANGED <<other, connected, manual, row, wf, lock, req, task, rec, found>>

MoveOther ==
    /\ connected /\ (~other) \in OtherMoves
    /\ other' = ~other
    /\ UNCHANGED <<hosting, held, connected, manual, row, wf, lock, req, task, rec, found>>

(* upsert_workflow_run: no run goes in progress while a purge runs.        *)
StartRun ==
    /\ wf = "none" /\ NonePurging
    /\ wf' = "inprogress"
    /\ UNCHANGED <<hosting, other, held, connected, manual, row, lock, req, task, rec, found>>

(* An import window: manual connection, then off, and back at its end.     *)
OpenWindow ==
    /\ wf = "inprogress"
    /\ wf' = "off" /\ manual' = TRUE /\ connected' = FALSE
    /\ UNCHANGED <<hosting, other, held, row, lock, req, task, rec, found>>

CloseWindow ==
    /\ wf = "off"
    /\ wf' = "inprogress" /\ manual' = FALSE /\ connected' = TRUE
    /\ UNCHANGED <<hosting, other, held, row, lock, req, task, rec, found>>

(* A run that fails inside its window leaves the participant off.          *)
EndRun ==
    /\ wf # "none" /\ wf' = "none"
    /\ UNCHANGED <<hosting, other, held, connected, manual, row, lock, req, task, rec, found>>

(* The operator follows the guide for a participant kept off on purpose,   *)
(* not while a purge runs.                                                 *)
Recover ==
    /\ wf = "none" /\ manual /\ NonePurging
    /\ manual' = FALSE /\ connected' = TRUE
    /\ UNCHANGED <<hosting, other, held, row, wf, lock, req, task, rec, found>>

----------------------------------------------------------------------------
(* A discovery reads which parties this node hosts; reconcile applies it   *)
(* later, and reads the removals of the others itself.                     *)

Discover ==
    /\ ~found.done
    /\ found' = [done |-> TRUE, returned |-> {p \in Parties : hosting[p].hosted}]
    /\ UNCHANGED <<hosting, other, held, connected, manual, row, wf, lock, req, task, rec>>

(* Mutant: a newer removal keeps the outcome of the last purge.            *)
RecordKeepingStatus(p) ==
    IF Removed(p) /\ hosting[p].removals > row[p].removed
    THEN [row[p] EXCEPT !.removed = hosting[p].removals] ELSE row[p]

(* record_former_dec_party *)
RecordRemoval(p) ==
    IF Removed(p) /\ hosting[p].removals > row[p].removed
    THEN [NoRow EXCEPT !.removed = hosting[p].removals] ELSE row[p]

(* forget_former_dec_parties, then each party not returned.                *)
Reconcile ==
    /\ found.done
    /\ row' = [p \in Parties |-> IF Running(p) THEN row[p]
                                ELSE IF p \in found.returned THEN NoRow ELSE RecordRemoval(p)]
    /\ found' = Unread
    /\ UNCHANGED <<hosting, other, held, connected, manual, wf, lock, req, task, rec>>

(* dismiss_former_dec_party *)
DismissParty(p) ==
    /\ Former(p) /\ row[p].status = "succeeded"
    /\ row' = [row EXCEPT ![p].dismissed = TRUE]
    /\ UNCHANGED <<hosting, other, held, connected, manual, wf, lock, req, task, rec, found>>

----------------------------------------------------------------------------
(* purge_former_party *)

(* check_purge_allowed *)
CheckPurge(p) ==
    /\ req[p] = "idle"
    /\ Former(p) /\ ~Running(p) /\ wf = "none" /\ connected
    /\ Removed(p) /\ hosting[p].aged
    /\ req' = [req EXCEPT ![p] = "checked"]
    /\ UNCHANGED <<hosting, other, held, connected, manual, row, wf, lock, task, rec, found>>

(* Mutant: the claim trusts the check.                                     *)
ClaimUnchecked(p) ==
    /\ req[p] = "checked"
    /\ row' = [row EXCEPT ![p].status = "running"]
    /\ req' = [req EXCEPT ![p] = "claimed"]
    /\ UNCHANGED <<hosting, other, held, connected, manual, wf, lock, task, rec, found>>

(* claim_former_party_purge, one statement *)
ClaimPurge(p) ==
    /\ req[p] = "checked"
    /\ IF Former(p) /\ NonePurging /\ wf = "none"
       THEN /\ row' = [row EXCEPT ![p].status = "running"]
            /\ req' = [req EXCEPT ![p] = "claimed"]
       ELSE req' = [req EXCEPT ![p] = "idle"] /\ UNCHANGED row
    /\ UNCHANGED <<hosting, other, held, connected, manual, wf, lock, task, rec, found>>

(* The task is spawned once the start is in the audit log.                 *)
SpawnPurge(p) ==
    /\ req[p] = "claimed"
    /\ task' = [NoTask EXCEPT !.pc = "lock", !.party = p]
    /\ req' = [req EXCEPT ![p] = "idle"]
    /\ UNCHANGED <<hosting, other, held, connected, manual, row, wf, lock, rec, found>>

(* The client goes away, and the handler with it: a purge that it has      *)
(* claimed and not spawned is lost.                                        *)
DropRequest(p) ==
    /\ req[p] \in {"checked", "claimed"}
    /\ req' = [req EXCEPT ![p] = IF @ = "claimed" THEN "lost" ELSE "idle"]
    /\ UNCHANGED <<hosting, other, held, connected, manual, row, wf, lock, task, rec, found>>

----------------------------------------------------------------------------
(* run_purge and purge_leftovers *)

At(pc) == task.pc = pc
Goto(pc) == task' = [task EXCEPT !.pc = pc]
Gives(pc, ok) == task' = [task EXCEPT !.pc = pc, !.ok = ok]
TaskFrame == UNCHANGED <<world, req, rec>>

TakeLock ==
    /\ At("lock") /\ lock = "free"
    /\ lock' = "purge" /\ Goto("plan")
    /\ UNCHANGED <<connected, row>> /\ TaskFrame

(* plan_purge and split_leftovers: the contracts nobody hosted here sees.  *)
Leftovers(p) == {k \in held[p] : k = "own" \/ ~other}

PlanPurge ==
    /\ At("plan")
    /\ \/ task' = [task EXCEPT !.plan = Leftovers(task.party),
                               !.pc = IF Leftovers(task.party) = {} THEN "record" ELSE "off"]
       \/ CallsFail /\ Gives("record", FALSE)
    /\ UNCHANGED <<connected, row, lock>> /\ TaskFrame

Disconnect ==
    /\ At("off")
    /\ \/ connected' = FALSE /\ Goto("recheck")
       \/ CallsFail /\ Gives("on", FALSE) /\ UNCHANGED connected
    /\ UNCHANGED <<row, lock>> /\ TaskFrame

(* Mutant: the plan is trusted.                                            *)
NoRecheck ==
    /\ At("recheck")
    /\ Goto("purge")
    /\ UNCHANGED <<connected, row, lock>> /\ TaskFrame

Recheck ==
    /\ At("recheck")
    /\ \/ Removed(task.party) /\ Goto("purge")
       \/ (CallsFail \/ ~Removed(task.party)) /\ Gives("on", FALSE)
    /\ UNCHANGED <<connected, row, lock>> /\ TaskFrame

(* purge_in_batches *)
PurgeBatch ==
    /\ At("purge")
    /\ \/ \E k \in task.plan :
            /\ held' = [held EXCEPT ![task.party] = @ \ {k}]
            /\ task' = [task EXCEPT !.plan = @ \ {k},
                                    !.pc = IF task.plan = {k} THEN "on" ELSE "purge"]
       \/ CallsFail /\ Gives("on", FALSE) /\ UNCHANGED held
    /\ UNCHANGED <<hosting, other, wf, manual, found, connected, row, lock, req, rec>>

(* The reconnect runs on every outcome and waits until it is healthy.      *)
Reconnect ==
    /\ At("on")
    /\ \/ connected' = TRUE /\ Goto(IF task.ok THEN "after" ELSE "record")
       \/ CallsFail /\ Gives("record", FALSE) /\ connected' \in {connected, TRUE}
    /\ UNCHANGED <<row, lock>> /\ TaskFrame

PlanAgain ==
    /\ At("after")
    /\ \/ Gives("record", Leftovers(task.party) = {})
       \/ CallsFail /\ Gives("record", FALSE)
    /\ UNCHANGED <<connected, row, lock>> /\ TaskFrame

(* complete_former_party_purge, fail_former_party_purge; the lock goes.    *)
RecordOutcome ==
    /\ At("record")
    /\ row' = [row EXCEPT ![task.party].status = IF task.ok THEN "succeeded" ELSE "failed"]
    /\ task' = NoTask /\ lock' = "free"
    /\ UNCHANGED connected /\ TaskFrame

(* That write fails: it is logged, and the row says running.               *)
LoseOutcome ==
    /\ At("record") /\ CallsFail
    /\ req' = [req EXCEPT ![task.party] = "lost"]
    /\ task' = NoTask /\ lock' = "free"
    /\ UNCHANGED <<world, connected, row, rec>>

----------------------------------------------------------------------------
(* reconnect_after_failed_purge *)

RecFrame == UNCHANGED <<world, row, req, task>>

CheckReconnect(p) ==
    /\ rec = "idle" /\ Former(p) /\ row[p].status = "failed" /\ wf = "none"
    /\ rec' = "checked"
    /\ UNCHANGED <<connected, lock>> /\ RecFrame

(* try_lock, and no purge claimed, the connection down and not manual.     *)
TryLock ==
    /\ rec = "checked"
    /\ IF lock = "free" /\ NonePurging /\ ~connected /\ ~manual
       THEN lock' = "reconnect" /\ rec' = "spawned"
       ELSE rec' = "idle" /\ UNCHANGED lock
    /\ UNCHANGED connected /\ RecFrame

ReconnectParticipant ==
    /\ rec = "spawned"
    /\ connected' = TRUE \/ (CallsFail /\ connected' = connected)
    /\ rec' = "idle" /\ lock' = "free"
    /\ RecFrame

----------------------------------------------------------------------------
(* Mutant: the interrupted purges keep running.                            *)
BootWithoutRepair ==
    /\ task' = NoTask /\ rec' = "idle" /\ lock' = "free"
    /\ req' = [p \in Parties |-> "idle"] /\ found' = Unread
    /\ UNCHANGED <<hosting, other, held, connected, manual, row, wf>>

(* decman stops; at its next start fail_interrupted_purges comes before    *)
(* everything else.  The participant stays as it is.                       *)
Restart ==
    /\ row' = [p \in Parties |-> IF Running(p) THEN [row[p] EXCEPT !.status = "failed"] ELSE row[p]]
    /\ task' = NoTask /\ rec' = "idle" /\ lock' = "free"
    /\ req' = [p \in Parties |-> "idle"] /\ found' = Unread
    /\ UNCHANGED <<hosting, other, held, connected, manual, wf>>

Task ==
    \/ TakeLock \/ PlanPurge \/ Disconnect \/ Recheck \/ PurgeBatch
    \/ Reconnect \/ PlanAgain \/ RecordOutcome \/ LoseOutcome

Request(p) == CheckPurge(p) \/ ClaimPurge(p) \/ SpawnPurge(p) \/ DropRequest(p)

Reconnecting == TryLock \/ ReconnectParticipant

Workflow == StartRun \/ OpenWindow \/ CloseWindow \/ EndRun

Next ==
    \/ \E p \in Parties :
        \/ Remove(p) \/ Age(p) \/ Rehost(p) \/ DismissParty(p)
        \/ Request(p) \/ CheckReconnect(p)
    \/ Discover \/ Reconcile \/ MoveOther \/ Workflow \/ Recover
    \/ Task \/ Reconnecting \/ Restart

Spec == Init /\ [][Next]_vars

(* The tasks and requests of decman go on, and a waiter of CONNECTIVITY    *)
(* gets it when it is released; nothing else has to happen.                *)
Fairness ==
    /\ WF_vars(Task) /\ SF_vars(TakeLock) /\ WF_vars(Reconnecting)
    /\ WF_vars(\E p \in Parties : SpawnPurge(p))

FairSpec == Spec /\ Fairness

----------------------------------------------------------------------------
Status == {"none", "running", "succeeded", "failed"}
TaskSteps == {"none", "lock", "plan", "off", "recheck", "purge", "on", "after", "record"}

Hosting == [hosted : BOOLEAN, removals : Nat, aged : BOOLEAN]
Row == [removed : Nat, status : Status, dismissed : BOOLEAN]
PurgeTask == [pc : TaskSteps, party : Parties \cup {"none"}, plan : SUBSET Contracts, ok : BOOLEAN]
Discovery == [done : BOOLEAN, returned : SUBSET Parties]

(* Every variable is in its domain.                                        *)
TypeOK ==
    /\ hosting \in [Parties -> Hosting]
    /\ held \in [Parties -> SUBSET Contracts]
    /\ other \in BOOLEAN /\ connected \in BOOLEAN /\ manual \in BOOLEAN
    /\ row \in [Parties -> Row]
    /\ wf \in {"none", "inprogress", "off"}
    /\ lock \in {"free", "purge", "reconnect"}
    /\ req \in [Parties -> {"idle", "checked", "claimed", "lost"}]
    /\ task \in PurgeTask /\ (task.pc # "none" => task.party \in Parties)
    /\ rec \in {"idle", "checked", "spawned"}
    /\ found \in Discovery

(* "A purge takes the participant off the synchronizer": from its claim to *)
(* its outcome no workflow run is in progress and no other purge runs, and *)
(* its row says running as long as its task lives.                         *)
PurgeRunsAlone ==
    /\ \A p \in Parties : Running(p) => wf = "none" /\ \A q \in Parties \ {p} : ~Running(q)
    /\ task.pc # "none" => Running(task.party)
    /\ \A p \in Parties : req[p] = "claimed" => Running(p) /\ task.pc = "none"

(* A contract goes only while the participant is off the synchronizer and  *)
(* does not host the party, whatever happened since the purge was planned. *)
CurrentContractsKept ==
    [][ \A p \in Parties : held[p] \ held'[p] # {} => Removed(p) /\ ~connected ]_vars

(* A party whose latest removal has a succeeded purge, which the operator  *)
(* may dismiss, has left no contract that only it could see.               *)
SucceededMeansPurged ==
    \A p \in Parties :
        (row[p].status = "succeeded" /\ Removed(p) /\ row[p].removed = hosting[p].removals)
            => "own" \notin held[p]

(* A purge that was claimed comes to an outcome, also when decman restarts *)
(* and when calls fail, and then blocks purges and workflow runs no more.  *)
(* A row stays running only when the request was dropped before its task   *)
(* was spawned or when run_purge could not write its outcome, and only     *)
(* until decman starts again.                                              *)
PurgeEnds == []<>(\A p \in Parties : Running(p) => req[p] = "lost")
=============================================================================
