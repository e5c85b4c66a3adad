---------------------------- MODULE RunLifecycle ----------------------------
(***************************************************************************)
(* The life of workflow runs from start to outcome: the workflow_runs rows *)
(* of the coordinator and of its peers, the registry of live runs, the     *)
(* task that drives each run, the operator's start, cancel and retry       *)
(* requests, the invitations and the CancelInvite, RetryWorkflow and       *)
(* DeclineInvitation messages between the nodes, database faults, and      *)
(* restarts.  What a task does between two of its ends is WorkflowRun's.   *)
(* A coordinator's own row stays as it is when it is dismissed, and a      *)
(* retry does not ask for it, so only peers dismiss here.                  *)
(*                                                                         *)
(* All runs target one decentralized party.  A request runs as a handler   *)
(* task of its own: one action is what it does between two awaits at which *)
(* another task can change what it read.  A run's name carries the second  *)
(* it was requested in, so no two requests start the same run.             *)
(***************************************************************************)
EXTENDS Integers, FiniteSets

CONSTANTS
    Runs,         \* instance names, all of one party
    Peers,        \* the invitees of every run
    Requests,     \* slots for requests of the operator handled at a time
    MaxRetries,   \* bound on retries
    MaxCancels,   \* bound on CancelInvites of a run a peer handles at a time
    MaxTroubles   \* bound on restarts of any node and failed database writes

ASSUME BoundsAssumption ==
    {MaxRetries, MaxCancels, MaxTroubles} \subseteq Nat
ASSUME SetsAssumption == IsFiniteSet(Runs) /\ IsFiniteSet(Peers) /\ IsFiniteSet(Requests)

(* Instances of one run: a retry can meet the one before it, no more.      *)
Gens == 1..(1 + Cardinality(Requests))

Terminal == {"completed", "failed", "cancelled"}
RowStatus == {"none", "inprogress"} \cup Terminal

VARIABLES
    row,       \* the coordinator's workflow_runs row of each run
    reg,       \* WorkflowRegistry: the registered instance, 0 if none
    inst,      \* the instances: their task, http.status and abort_handle
    departed,  \* the peers the run's NoiseServer counts out
    req,       \* the requests being handled
    up,        \* the coordinator's process runs
    net,       \* messages to the peers
    notices,   \* decline and abandon notices to the coordinator
    peer,      \* each peer's card, row, loops and message handlers of each run
    bounds     \* retries, restarts and database faults so far

node == <<reg, inst, departed, req, up>>
wire == <<net, notices>>
lifecycleVars == <<row, reg, inst, departed, req, up, net, notices, peer, bounds>>

NoInst == [task |-> "none", http |-> "idle", handle |-> FALSE]
NoReq == [op |-> "idle", pc |-> "idle", run |-> "none", gen |-> 0]

(* A peer's record of a run.  Handlers of CancelInvite and RetryWorkflow   *)
(* that have read the row and are to write it are counted in cancels and   *)
(* retries; overlap tells whether two retries were in hand at once, and    *)
(* final whether the outcome of the last loop could not be written.        *)
NoPeer == [card |-> FALSE, accepting |-> FALSE, row |-> "none",
           dismissed |-> FALSE, loops |-> 0, cancels |-> 0, retries |-> 0,
           overlap |-> "none", final |-> "none"]

LifecycleInit ==
    /\ row = [r \in Runs |-> "none"]
    /\ reg = [r \in Runs |-> 0]
    /\ inst = [r \in Runs |-> [g \in Gens |-> NoInst]]
    /\ departed = [r \in Runs |-> {}]
    /\ req = [q \in Requests |-> NoReq]
    /\ up = TRUE /\ net = {} /\ notices = {}
    /\ peer = [p \in Peers |-> [r \in Runs |-> NoPeer]]
    /\ bounds = [retries |-> 0, troubles |-> 0]

Task(r, g) == inst[r][g].task
Alive == {"invite", "running", "complete", "ok", "err"}
LiveTasks(r) == {g \in Gens : Task(r, g) \in Alive}

(* WorkflowRegistry::route: a registered run whose task has set its        *)
(* NoiseServer.                                                            *)
Active(r) == up /\ reg[r] # 0 /\ Task(r, reg[r]) \notin {"none", "invite"}

(* A new instance: the first that no task and no handler holds.            *)
Unheld(r) ==
    {g \in Gens : Task(r, g) = "none" /\ reg[r] # g
                  /\ \A q \in Requests : req[q].run # r \/ req[q].gen # g}
FreeGens(r) == {g \in Unheld(r) : \A h \in Unheld(r) : g <= h}

(* The slot of the next request.                                           *)
NextSlot(q) == up /\ req[q].op = "idle" /\ q = CHOOSE o \in Requests : req[o].op = "idle"

ToPeers(type, r, P) == [type : {type}, run : {r}, to : P]

Trouble == bounds.troubles < MaxTroubles /\ bounds' = [bounds EXCEPT !.troubles = @ + 1]

ReqAt(q, op, pc) == up /\ req[q].op = op /\ req[q].pc = pc
Goto(q, pc) == req' = [req EXCEPT ![q].pc = pc]
Reply(q) == req' = [req EXCEPT ![q] = NoReq]
Open(q, op, pc, r, g) ==
    req' = [req EXCEPT ![q] = [op |-> op, pc |-> pc, run |-> r, gen |-> g]]

----------------------------------------------------------------------------
(* The row.                                                                *)

(* finish_workflow_run: the first terminal status wins.                    *)
Finish(r, o) ==
    IF row[r] = "inprogress"
    THEN row' = [row EXCEPT ![r] = o]
    ELSE UNCHANGED row

----------------------------------------------------------------------------
(* start_*                                                                 *)

(* find_inprogress_run_for_party, before the preflight of the invitees.    *)
StartCheck(q, r) ==
    /\ NextSlot(q)
    /\ row[r] = "none" /\ \A o \in Requests : req[o].run # r
    /\ \A s \in Runs : row[s] # "inprogress"
    /\ Open(q, "start", "register", r, 0)
    /\ UNCHANGED <<row, reg, inst, departed, up, wire, peer, bounds>>

(* register_and_persist: the registry insert is the gate for duplicates.   *)
StartRegister(q) ==
    /\ ReqAt(q, "start", "register")
    /\ LET r == req[q].run IN
       IF reg[r] # 0
       THEN Reply(q) /\ UNCHANGED reg
       ELSE \E g \in FreeGens(r) :
                /\ reg' = [reg EXCEPT ![r] = g]
                /\ Open(q, "start", "persist", r, g)
    /\ UNCHANGED <<row, inst, departed, up, wire, peer, bounds>>

(* insert_coordinator_run; when it fails the run is unregistered.          *)
StartPersist(q) ==
    /\ ReqAt(q, "start", "persist")
    /\ LET r == req[q].run IN
       \/ /\ row' = [row EXCEPT ![r] = "inprogress"]
          /\ Goto(q, "spawn")
          /\ UNCHANGED <<reg, bounds>>
       \/ /\ Trouble
          /\ reg' = [reg EXCEPT ![r] = 0]
          /\ Reply(q)
          /\ UNCHANGED row
    /\ UNCHANGED <<inst, departed, up, wire, peer>>

(* The task, its abort handle and http.status appear under held locks.     *)
StartSpawn(q) ==
    /\ ReqAt(q, "start", "spawn")
    /\ inst' = [inst EXCEPT ![req[q].run][req[q].gen] =
                   [task |-> "invite", http |-> "inprogress", handle |-> TRUE]]
    /\ departed' = [departed EXCEPT ![req[q].run] = {}]
    /\ Reply(q)
    /\ UNCHANGED <<row, reg, up, wire, peer, bounds>>

----------------------------------------------------------------------------
(* The task of a run.                                                      *)

SetTask(r, g, t) == inst' = [inst EXCEPT ![r][g].task = t]
EndTask(r, g, t, status) ==
    inst' = [inst EXCEPT ![r][g] = [task |-> t, http |-> status, handle |-> @.handle]]

(* send_*_invites: an unreachable peer is logged; a reply that refuses the *)
(* invitation stops the sending and fails the run.                         *)
SendInvites(r, g) ==
    /\ up /\ Task(r, g) = "invite"
    /\ \E P \in SUBSET Peers : net' = net \cup ToPeers("Invite", r, P)
    /\ \/ SetTask(r, g, "running")
       \/ EndTask(r, g, "err", "failed")
    /\ UNCHANGED <<row, reg, departed, req, up, notices, peer, bounds>>

(* The last step is reached: polling peers are sent Disconnect until the   *)
(* task returns two seconds later.                                         *)
ReachEnd(r, g) ==
    /\ up /\ Task(r, g) = "running"
    /\ SetTask(r, g, "complete")
    /\ UNCHANGED <<row, reg, departed, req, up, wire, peer, bounds>>

(* start_coordinator returns; http.status is set before the row.           *)
Return(r, g) ==
    /\ up
    /\ \/ Task(r, g) = "complete" /\ EndTask(r, g, "ok", "completed")
       \/ Task(r, g) = "running" /\ EndTask(r, g, "err", "failed")
    /\ UNCHANGED <<row, reg, departed, req, up, wire, peer, bounds>>

(* mark_run_completed and mark_run_failed; a failed write is only logged.  *)
Record(r, g) ==
    /\ up /\ Task(r, g) \in {"ok", "err"}
    /\ \/ /\ Finish(r, IF Task(r, g) = "ok" THEN "completed" ELSE "failed")
          /\ UNCHANGED bounds
       \/ /\ Trouble
          /\ UNCHANGED row
    /\ SetTask(r, g, "ending")
    /\ UNCHANGED <<reg, departed, req, up, wire, peer>>

(* WorkflowGuard::drop: on return and on abort, the name is unregistered.  *)
GuardDrop(r, g) ==
    /\ up /\ Task(r, g) \in {"ending", "aborted"}
    /\ inst' = [inst EXCEPT ![r][g] = NoInst]
    /\ reg' = [reg EXCEPT ![r] = 0]
    /\ UNCHANGED <<row, departed, req, up, wire, peer, bounds>>

----------------------------------------------------------------------------
(* cancel_instance and cancel_persisted_run                                *)

(* The registered instance, whose http.status must read InProgress.        *)
CancelLookup(q, r) ==
    /\ NextSlot(q)
    /\ reg[r] # 0 /\ inst[r][reg[r]].http = "inprogress"
    /\ Open(q, "cancel", "take", r, reg[r])
    /\ UNCHANGED <<row, reg, inst, departed, up, wire, peer, bounds>>

(* The abort handle is taken first; without one the cancel is refused.     *)
CancelTake(q) ==
    /\ ReqAt(q, "cancel", "take")
    /\ LET r == req[q].run  g == req[q].gen IN
       IF inst[r][g].handle
       THEN inst' = [inst EXCEPT ![r][g].handle = FALSE] /\ Goto(q, "mark")
       ELSE Reply(q) /\ UNCHANGED inst
    /\ UNCHANGED <<row, reg, departed, up, wire, peer, bounds>>

(* The row is written before the task is stopped; on a failed write the    *)
(* handle is put back and the run stays live.                              *)
CancelMark(q) ==
    /\ ReqAt(q, "cancel", "mark")
    /\ LET r == req[q].run  g == req[q].gen IN
       \/ /\ Finish(r, "cancelled")
          /\ Goto(q, IF row[r] = "inprogress" THEN "abort" ELSE "stop")
          /\ UNCHANGED <<inst, bounds>>
       \/ /\ Trouble
          /\ inst' = [inst EXCEPT ![r][g].handle = Task(r, g) # "none"]
          /\ Reply(q)
          /\ UNCHANGED row
    /\ UNCHANGED <<reg, departed, up, wire, peer>>

Aborted(i, status) ==
    [task |-> IF i.task \in Alive THEN "aborted" ELSE i.task, http |-> status, handle |-> i.handle]

(* handle.abort(), CancelInvite to the invitees, http.status.  A run that  *)
(* had already ended is only stopped.                                      *)
CancelAbort(q) ==
    /\ ReqAt(q, "cancel", "abort") \/ ReqAt(q, "cancel", "stop")
    /\ LET r == req[q].run  g == req[q].gen IN
       IF req[q].pc = "abort"
       THEN /\ inst' = [inst EXCEPT ![r][g] =
                           IF @.task = "none" THEN @ ELSE Aborted(@, "cancelled")]
            /\ \E P \in SUBSET Peers : net' = net \cup ToPeers("Cancel", r, P)
       ELSE inst' = [inst EXCEPT ![r][g] = Aborted(@, @.http)] /\ UNCHANGED net
    /\ Reply(q)
    /\ UNCHANGED <<row, reg, departed, up, notices, peer, bounds>>

(* The per-kind cancel of a row without a registered instance.             *)
CancelPersisted(q, r) ==
    /\ NextSlot(q) /\ \A s \in Runs : reg[s] = 0
    /\ row[r] = "inprogress"
    /\ \E P \in SUBSET Peers : net' = net \cup ToPeers("Cancel", r, P)
    /\ Open(q, "cancel_row", "mark", r, 0)
    /\ UNCHANGED <<row, reg, inst, departed, up, notices, peer, bounds>>

CancelPersistedMark(q) ==
    /\ ReqAt(q, "cancel_row", "mark")
    /\ \/ Finish(req[q].run, "cancelled") /\ UNCHANGED bounds
       \/ Trouble /\ UNCHANGED row
    /\ Reply(q)
    /\ UNCHANGED <<reg, inst, departed, up, wire, peer>>

----------------------------------------------------------------------------
(* retry_workflow                                                          *)

RetryRead(q, r) ==
    /\ NextSlot(q) /\ row[r] = "failed"
    /\ bounds.retries < MaxRetries
    /\ bounds' = [bounds EXCEPT !.retries = @ + 1]
    /\ Open(q, "retry", "flip", r, 0)
    /\ UNCHANGED <<row, reg, inst, departed, up, wire, peer>>

(* The status is set back whatever it has become since it was read; a      *)
(* failed write (or a purge) refuses the retry.                            *)
RetryFlip(q) ==
    /\ ReqAt(q, "retry", "flip")
    /\ \/ /\ row' = [row EXCEPT ![req[q].run] = "inprogress"]
          /\ Goto(q, "broadcast")
          /\ UNCHANGED bounds
       \/ Trouble /\ Reply(q) /\ UNCHANGED row
    /\ UNCHANGED <<reg, inst, departed, up, wire, peer>>

(* The row is loaded again, and RetryWorkflow goes to every invitee, best  *)
(* effort.  When the row cannot be loaded the retry stops, in progress.    *)
RetryBroadcast(q) ==
    /\ ReqAt(q, "retry", "broadcast")
    /\ \/ /\ \E P \in SUBSET Peers : net' = net \cup ToPeers("Retry", req[q].run, P)
          /\ Goto(q, "recheck")
          /\ UNCHANGED bounds
       \/ Trouble /\ Reply(q) /\ UNCHANGED net
    /\ UNCHANGED <<row, reg, inst, departed, up, notices, peer>>

(* respawn_coordinator resumes only a run that is still in progress, or    *)
(* whose status it cannot read.                                            *)
RetryRecheck(q) ==
    /\ ReqAt(q, "retry", "recheck")
    /\ \/ /\ IF row[req[q].run] = "inprogress" THEN Goto(q, "insert") ELSE Reply(q)
          /\ UNCHANGED bounds
       \/ Trouble /\ Goto(q, "insert")
    /\ UNCHANGED <<row, reg, inst, departed, up, wire, peer>>

(* Mutant: the result of the registry insert is ignored.                   *)
RespawnAnyway(q) ==
    /\ ReqAt(q, "retry", "insert")
    /\ LET r == req[q].run IN
       \E g \in FreeGens(r) :
           /\ reg' = [reg EXCEPT ![r] = g]
           /\ inst' = [inst EXCEPT ![r][g] =
                          [task |-> "running", http |-> "inprogress", handle |-> FALSE]]
           /\ departed' = [departed EXCEPT ![r] = {}]
           /\ Open(q, "retry", "handle", r, g)
    /\ UNCHANGED <<row, up, wire, peer, bounds>>

(* A run that is still registered is left to its task; otherwise a new     *)
(* task resumes it, without invitations.                                   *)
RetryRespawn(q) ==
    /\ ReqAt(q, "retry", "insert")
    /\ LET r == req[q].run IN
       IF reg[r] # 0
       THEN Reply(q) /\ UNCHANGED <<reg, inst, departed>>
       ELSE \E g \in FreeGens(r) :
                /\ reg' = [reg EXCEPT ![r] = g]
                /\ inst' = [inst EXCEPT ![r][g] =
                               [task |-> "running", http |-> "inprogress", handle |-> FALSE]]
                /\ departed' = [departed EXCEPT ![r] = {}]
                /\ Open(q, "retry", "handle", r, g)
    /\ UNCHANGED <<row, up, wire, peer, bounds>>

RetryHandle(q) ==
    /\ ReqAt(q, "retry", "handle")
    /\ inst' = [inst EXCEPT ![req[q].run][req[q].gen].handle =
                   Task(req[q].run, req[q].gen) # "none"]
    /\ Reply(q)
    /\ UNCHANGED <<row, reg, departed, up, wire, peer, bounds>>

----------------------------------------------------------------------------
(* Restarts.                                                               *)

Crash ==
    /\ up /\ up' = FALSE /\ Trouble
    /\ reg' = [r \in Runs |-> 0]
    /\ inst' = [r \in Runs |-> [g \in Gens |-> NoInst]]
    /\ departed' = [r \in Runs |-> {}]
    /\ req' = [q \in Requests |-> NoReq]
    /\ UNCHANGED <<row, wire, peer>>

(* recover_in_progress_workflows, awaited before the node serves requests. *)
Boot ==
    /\ ~up /\ up' = TRUE
    /\ LET R == {r \in Runs : row[r] = "inprogress"} IN
       /\ reg' = [r \in Runs |-> IF r \in R THEN 1 ELSE 0]
       /\ inst' = [r \in Runs |-> [g \in Gens |->
             IF r \in R /\ g = 1
             THEN [task |-> "running", http |-> "inprogress", handle |-> TRUE]
             ELSE NoInst]]
    /\ UNCHANGED <<row, departed, req, wire, peer, bounds>>

----------------------------------------------------------------------------
(* Notices of the peers.                                                   *)

(* handle_decline_invitation.  A peer that gave up is counted out; one     *)
(* that declines fails the row, and the others are sent CancelInvite: the  *)
(* task goes on.  A notice whose reply is lost is sent again.              *)
HandleNotice(n) ==
    /\ Active(n.run)
    /\ \/ notices' = notices \ {n} \/ UNCHANGED notices
    /\ \/ /\ n.type = "Abandon"
          /\ departed' = [departed EXCEPT ![n.run] = @ \cup {n.from}]
          /\ UNCHANGED <<row, net>>
       \/ /\ n.type = "Decline"
          /\ Finish(n.run, "failed")
          /\ \E P \in SUBSET (Peers \ {n.from}) :
                 net' = net \cup ToPeers("Cancel", n.run, P)
          /\ UNCHANGED departed
    /\ UNCHANGED <<reg, inst, req, up, peer, bounds>>

(* A 503, or the attempts are used up.                                     *)
DropNotice(n) ==
    /\ ~Active(n.run)
    /\ notices' = notices \ {n}
    /\ UNCHANGED <<row, node, net, peer, bounds>>

(* wait_until_stranded: a task whose peers gave up fails.                  *)
Strand(r, g) ==
    /\ up /\ Task(r, g) = "running" /\ departed[r] # {}
    /\ EndTask(r, g, "err", "failed")
    /\ UNCHANGED <<row, reg, departed, req, up, wire, peer, bounds>>

----------------------------------------------------------------------------
(* The peers.                                                              *)

Lose(m) ==
    /\ net' = net \ {m}
    /\ UNCHANGED <<row, node, notices, peer, bounds>>

Deliver(m, s) ==
    /\ net' = net \ {m}
    /\ peer' = [peer EXCEPT ![m.to][m.run] = s]
    /\ UNCHANGED <<row, node, notices, bounds>>

(* record_invitation: recorded whatever the peer is doing.                 *)
DeliverInvite(m) ==
    m.type = "Invite" /\ Deliver(m, [peer[m.to][m.run] EXCEPT !.card = TRUE])

(* drop_invitations_from, and the read of cancel_peer_runs_from: a run in  *)
(* progress is to be cancelled.                                            *)
DeliverCancel(m) ==
    /\ m.type = "Cancel" /\ peer[m.to][m.run].cancels < MaxCancels
    /\ LET s == peer[m.to][m.run] IN
       Deliver(m, [s EXCEPT !.card = FALSE,
                      !.cancels = IF s.row = "inprogress" THEN @ + 1 ELSE @])

(* A handler of RetryWorkflow will revive the run: nothing keeps a second  *)
(* one, on a connection of its own, from doing the same.                   *)
WillRevive(s) ==
    [s EXCEPT !.retries = @ + 1, !.overlap = IF s.retries > 0 THEN "seen" ELSE @]

(* Mutant: any ended row is revived.                                       *)
RevivesEnded(m) ==
    /\ m.type = "Retry"
    /\ LET s == peer[m.to][m.run] IN
       Deliver(m, IF s.row \in Terminal /\ ~s.dismissed THEN WillRevive(s) ELSE s)

(* The read of retry_peer_runs_from: failed rows the operator still sees.  *)
DeliverRetry(m) ==
    /\ m.type = "Retry"
    /\ LET s == peer[m.to][m.run] IN
       Deliver(m, IF s.row = "failed" /\ ~s.dismissed THEN WillRevive(s) ELSE s)

SetPeer(p, r, s) == peer' = [peer EXCEPT ![p][r] = s]

(* With the last loop and retry gone, so is what two retries at once left. *)
Settled(s) ==
    [s EXCEPT !.overlap = IF s.loops = 0 /\ s.retries = 0 THEN "none" ELSE @]

(* The write of cancel_peer_runs_from, over whatever the row reads by now; *)
(* the peer's loop is not stopped.  A failed write is logged.              *)
PeerCancelWrite(p, r) ==
    /\ peer[p][r].cancels > 0
    /\ \/ SetPeer(p, r, [peer[p][r] EXCEPT !.cancels = @ - 1, !.row = "cancelled"])
          /\ UNCHANGED bounds
       \/ Trouble /\ SetPeer(p, r, [peer[p][r] EXCEPT !.cancels = @ - 1])
    /\ UNCHANGED <<row, node, wire>>

(* The write of retry_peer_runs_from, over whatever the row reads by now,  *)
(* and refire_peer: a new loop.  A failed write is logged.                 *)
PeerRetryWrite(p, r) ==
    /\ peer[p][r].retries > 0
    /\ \/ SetPeer(p, r, [peer[p][r] EXCEPT !.retries = @ - 1, !.row = "inprogress",
                                          !.loops = @ + 1, !.final = "none"])
          /\ UNCHANGED bounds
       \/ Trouble /\ SetPeer(p, r, Settled([peer[p][r] EXCEPT !.retries = @ - 1]))
    /\ UNCHANGED <<row, node, wire>>

(* accept_invitation takes the card first ...                              *)
Accept(p, r) ==
    /\ peer[p][r].card
    /\ SetPeer(p, r, [peer[p][r] EXCEPT !.card = FALSE, !.accepting = TRUE])
    /\ UNCHANGED <<row, node, wire, bounds>>

(* ... then refuses a run it already drives, and else records its row and  *)
(* enqueues the peer job.                                                  *)
AfterAccept(s) ==
    IF s.row = "inprogress" THEN [s EXCEPT !.accepting = FALSE]
    ELSE [s EXCEPT !.accepting = FALSE, !.row = "inprogress",
                   !.dismissed = FALSE, !.loops = @ + 1]

(* When the row cannot be written the card is put back.                    *)
AcceptFinish(p, r) ==
    /\ peer[p][r].accepting
    /\ \/ SetPeer(p, r, AfterAccept(peer[p][r])) /\ UNCHANGED bounds
       \/ /\ Trouble /\ peer[p][r].row # "inprogress"
          /\ SetPeer(p, r, [peer[p][r] EXCEPT !.accepting = FALSE, !.card = TRUE])
    /\ UNCHANGED <<row, node, wire>>

Notice(type, p, r) == [type |-> type, from |-> p, run |-> r]

Decline(p, r) ==
    /\ peer[p][r].card
    /\ SetPeer(p, r, [peer[p][r] EXCEPT !.card = FALSE])
    /\ notices' = notices \cup {Notice("Decline", p, r)}
    /\ UNCHANGED <<row, node, net, bounds>>

PeerDismiss(p, r) ==
    /\ peer[p][r].row \in Terminal /\ ~peer[p][r].dismissed
    /\ SetPeer(p, r, [peer[p][r] EXCEPT !.dismissed = TRUE])
    /\ UNCHANGED <<row, node, wire, bounds>>

(* finalize_peer_run writes its outcome over whatever the row reads; a     *)
(* failed write is logged, and the loop is gone all the same.              *)
LoopEnds(p, r, o) ==
    /\ peer[p][r].loops > 0
    /\ \/ /\ SetPeer(p, r, Settled([peer[p][r] EXCEPT !.loops = @ - 1, !.row = o,
                                                     !.final = "none"]))
          /\ UNCHANGED bounds
       \/ /\ Trouble
          /\ SetPeer(p, r, Settled([peer[p][r] EXCEPT !.loops = @ - 1, !.final = "lost"]))

(* Disconnect from a run at its last step.                                 *)
LoopDone(p, r) ==
    /\ Active(r) /\ Task(r, reg[r]) \in {"complete", "ok"}
    /\ LoopEnds(p, r, "completed")
    /\ UNCHANGED <<row, node, wire>>


(* MAX_CONSECUTIVE_NO_WORKFLOW_POLLS answers of 503, or three failed       *)
(* connections, in a row.                                                  *)
LoopGivesUp(p, r) ==
    /\ ~Active(r)
    /\ LoopEnds(p, r, "failed")
    /\ notices' = notices \cup {Notice("Abandon", p, r)}
    /\ UNCHANGED <<row, node, net>>

(* MAX_CONSECUTIVE_STEP_FAILURES failed commands in a row.                 *)
LoopFails(p, r) ==
    /\ Active(r)
    /\ LoopEnds(p, r, "failed")
    /\ notices' = notices \cup {Notice("Abandon", p, r)}
    /\ UNCHANGED <<row, node, net>>

(* A restart of a peer: its handlers and loops are gone, and its runs in   *)
(* progress are enqueued again.                                            *)
PeerRestart(p) ==
    /\ Trouble
    /\ peer' = [peer EXCEPT ![p] = [r \in Runs |->
          [peer[p][r] EXCEPT !.accepting = FALSE, !.cancels = 0, !.retries = 0,
              !.overlap = "none", !.final = "none",
              !.loops = IF peer[p][r].row = "inprogress" THEN 1 ELSE 0]]]
    /\ notices' = {n \in notices : n.from # p}
    /\ UNCHANGED <<row, node, net>>

----------------------------------------------------------------------------
RequestStep(q) ==
    \/ StartRegister(q) \/ StartPersist(q) \/ StartSpawn(q)
    \/ CancelTake(q) \/ CancelMark(q) \/ CancelAbort(q) \/ CancelPersistedMark(q)
    \/ RetryFlip(q) \/ RetryBroadcast(q) \/ RetryRecheck(q)
    \/ RetryRespawn(q) \/ RetryHandle(q)

RequestOpens(q, r) ==
    StartCheck(q, r) \/ CancelLookup(q, r) \/ CancelPersisted(q, r)
    \/ RetryRead(q, r)

TaskStep(r, g) ==
    SendInvites(r, g) \/ ReachEnd(r, g) \/ Return(r, g)
    \/ Record(r, g) \/ GuardDrop(r, g) \/ Strand(r, g)

PeerStep(p, r) ==
    Accept(p, r) \/ AcceptFinish(p, r) \/ Decline(p, r) \/ PeerDismiss(p, r)
    \/ PeerCancelWrite(p, r) \/ PeerRetryWrite(p, r)
    \/ LoopDone(p, r) \/ LoopGivesUp(p, r) \/ LoopFails(p, r)

LifecycleNext ==
    \/ \E q \in Requests : RequestStep(q) \/ \E r \in Runs : RequestOpens(q, r)
    \/ \E r \in Runs, g \in Gens : TaskStep(r, g)
    \/ \E p \in Peers, r \in Runs : PeerStep(p, r)
    \/ \E p \in Peers : PeerRestart(p)
    \/ \E m \in net : DeliverInvite(m) \/ DeliverCancel(m) \/ DeliverRetry(m) \/ Lose(m)
    \/ \E n \in notices : HandleNotice(n) \/ DropNotice(n)
    \/ Crash \/ Boot

(* A peer loop that meets no run polls until it gives up.                  *)
Fairness == \A p \in Peers, r \in Runs : WF_lifecycleVars(LoopGivesUp(p, r))

LifecycleSpec == LifecycleInit /\ [][LifecycleNext]_lifecycleVars /\ Fairness

----------------------------------------------------------------------------
TypeOK ==
    /\ row \in [Runs -> RowStatus]
    /\ reg \in [Runs -> {0} \cup Gens]
    /\ \A r \in Runs, g \in Gens :
           /\ Task(r, g) \in Alive \cup {"none", "ending", "aborted"}
           /\ inst[r][g].handle \in BOOLEAN
    /\ departed \in [Runs -> SUBSET Peers] /\ up \in BOOLEAN
    /\ \A p \in Peers, r \in Runs :
           /\ peer[p][r].row \in RowStatus
           /\ {peer[p][r].loops, peer[p][r].retries} \subseteq 0..(1 + MaxRetries)
           /\ peer[p][r].cancels \in 0..MaxCancels
    /\ \A m \in net : m.to \in Peers /\ m.run \in Runs
    /\ \A n \in notices : n.from \in Peers /\ n.run \in Runs

Outcome == INSTANCE RunOutcome WITH
    status <- row,
    drivers <- [r \in Runs |-> Cardinality({g \in Gens : Task(r, g) # "none"})],
    retrying <- {r \in Runs : \E q \in Requests : req[q].op = "retry" /\ req[q].run = r}

(* The runs of the node behave as RunOutcome promises, however their       *)
(* starts, cancels, retries and restarts interleave: an outcome stays      *)
(* unless a retry that found the run failed has it in hand, a run has at   *)
(* most one task, and a task is started only for a run in progress or for  *)
(* one such a retry has in hand.                                           *)
OutcomeSpec == Outcome!Spec

(* A peer drives a run with one loop at a time, unless two RetryWorkflows  *)
(* found it failed before either had revived it, and until what they       *)
(* started has ended.                                                      *)
OneLoopPerRun ==
    \A p \in Peers, r \in Runs : peer[p][r].overlap = "none" => peer[p][r].loops <= 1

=============================================================================
