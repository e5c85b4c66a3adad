---------------------------- MODULE WorkflowRun ----------------------------
(***************************************************************************)
(* One multi-party workflow run: the coordinator's in-memory WorkflowState *)
(* (workflow/state.rs), the request handlers that serve its peers          *)
(* (noise/server.rs), the coordinator's loop (<kind>/coordinator.rs), the  *)
(* workflow_runs row and the artefacts in SQLite, and the peers' polling   *)
(* loops (workflow/mod.rs).                                                *)
(*                                                                         *)
(* Every field of WorkflowState has a lock of its own, taken and released  *)
(* by each call, so one action is what happens under one lock: between two *)
(* actions of a handler any other handler, the loop, a crash or a timeout  *)
(* may intervene.                                                          *)
(***************************************************************************)
EXTENDS WorkflowSteps, FiniteSets, Integers

CONSTANTS
    Kind,            \* the workflow kind: picks the step list
    Peers,           \* expected_peers, which are the configured peers too
    PartyThreshold,  \* the party's threshold M in the cache, 0 if unresolved
    Lossy,           \* may a request be lost?
    LateDelivery,    \* may a request be handled after its sender timed out?
    PersistMayFail,  \* may a write of the row fail? (it is only logged)
    StepMayFail,     \* may a coordinator step fail?
    MayLeave,        \* the peers whose loop may give up
    MayDie,          \* the peers whose process may stop for good
    MaxStepFailures, \* MAX_CONSECUTIVE_STEP_FAILURES (6 in the code)
    MaxCrashes       \* bound on restarts of the coordinator

Kinds == {"Kick", "ChangeThreshold", "Contracts", "Onboarding", "Dars"}

ASSUME KindAssumption == Kind \in Kinds
ASSUME PeersAssumption == IsFiniteSet(Peers) /\ Peers # {}
ASSUME ThresholdAssumption == PartyThreshold \in Nat
ASSUME SwitchAssumption ==
    /\ {Lossy, LateDelivery, PersistMayFail, StepMayFail} \subseteq BOOLEAN
    /\ MayLeave \subseteq Peers /\ MayDie \subseteq Peers
    /\ MaxCrashes \in Nat /\ MaxStepFailures \in Nat \ {0}

Steps == StepsOf[Kind]
Last == Len(Steps)

Clamp(k, lo, hi) == IF k < lo THEN lo ELSE IF k > hi THEN hi ELSE k

(* The coordinator signs too, so a party of threshold M needs M - 1 peers, *)
(* at least one: gates are only evaluated on peer events.                  *)
peers_for_party_threshold(m, n) == Clamp(m - 1, 1, n)

(* The quorum of a run whose row, and with it whose party, is known.       *)
resolve_peer_threshold ==
    IF RequiresAllOf[Kind] \/ PartyThreshold = 0
    THEN Cardinality(Peers)
    ELSE peers_for_party_threshold(PartyThreshold, Cardinality(Peers))

(* A contracts run of a 1-of-N party needs no peer at all.                 *)
coordinator_only == Kind = "Contracts" /\ PartyThreshold = 1

VARIABLES
    status,     \* the outcome: "running", "completed" or "failed"
    up,         \* the coordinator's process runs and serves the run
    crashes,    \* restarts so far
    known,      \* NoiseServer::new could read the run's row
    step, connected, completed, data, payload,  \* WorkflowState, in memory
    departed,   \* NoiseServer::departed, in memory
    loop,       \* the coordinator's loop: where it is, the step it read
    own,        \* gates whose own part the coordinator has done (artefacts)
    art,        \* per gate: what was saved for each peer (artefacts)
    done,       \* coord steps carried out at least once
    row,        \* the persisted step and completed peers; a row that a start
                \* has passed over is stale until it is written again
    peer,       \* the peers' loops
    executed,   \* the commands each peer has carried out (its artefacts)
    req         \* requests being handled, the current and the late ones

coord == <<step, connected, completed, data, payload, departed, loop>>
db == <<own, art, done, row>>
vars == <<status, up, crashes, known, coord, db, peer, executed, req>>

Slots == Peers \X {"now", "late"}
NoReq == [pc |-> "free", cmd |-> 0, cur |-> 0]
NoLoop == [pc |-> "read", cur |-> 0]

gate(s) == Steps[s].gate

(* WorkflowState::peers_quorum: all peers when the row could not be read.  *)
peers_quorum == IF known THEN resolve_peer_threshold ELSE Cardinality(Peers)

Init ==
    /\ status = "running" /\ up = TRUE /\ crashes = 0 /\ known \in BOOLEAN
    /\ step = 1 /\ connected = {} /\ completed = {} /\ departed = {}
    /\ data = [p \in Peers |-> 0]
    /\ payload = InitialPayloadOf[Kind]
    /\ loop = NoLoop
    /\ own = {} /\ done = {}
    /\ art = [g \in 1..Last |-> [p \in Peers |-> 0]]
    /\ row = [step |-> 1, completed |-> {}, age |-> "current"]
    /\ peer = [p \in Peers |->
                  [pc |-> "idle", cmd |-> 0, payload |-> 0, fails |-> 0]]
    /\ executed = [p \in Peers |-> {}]
    /\ req = [i \in Slots |-> NoReq]

----------------------------------------------------------------------------
(* The state machine.                                                      *)

(* persist_step_progress: a failure is logged and the run goes on.         *)
Persist(s, c) ==
    \/ row' = [step |-> s, completed |-> c, age |-> "current"]
    \/ PersistMayFail /\ UNCHANGED row

(* Mutant: a gate waits on the connected set, not on the answers.          *)
ReadyOnConnected(s) ==
    gate(s) \in {"connect", "complete"} /\ Cardinality(connected) >= peers_quorum

(* Mutant: one answer more than the quorum.                                *)
ReadyBeyondQuorum(s) ==
    gate(s) \in {"connect", "complete"} /\ Cardinality(
        IF gate(s) = "connect" THEN connected ELSE completed) > peers_quorum

(* maybe_advance: is the gate of step s open?                              *)
Ready(s) ==
    \/ gate(s) = "connect" /\ Cardinality(connected) >= peers_quorum
    \/ gate(s) = "complete" /\ Cardinality(completed) >= peers_quorum

(* advance_locked: the step and the completed set change together.         *)
Advance ==
    IF step < Last
    THEN /\ step' = step + 1
         /\ completed' = {}
         /\ Persist(step + 1, {})
    ELSE UNCHANGED <<step, completed, row>>

(* Mutant: no re-check of the step under the write lock.                   *)
AdvanceUnchecked(expected) == Advance

advance_step_if(expected) ==
    IF step = expected THEN Advance ELSE UNCHANGED <<step, completed, row>>

----------------------------------------------------------------------------
(* The request handlers.  req[i].cmd is the step a message answers, 0 for  *)
(* a poll; req[i].cur is the step maybe_advance read.                      *)

(* The coordinator's process is up and the run is registered there.        *)
Running == up /\ status = "running"

Serving(i, pc) == Running /\ req[i].pc = pc
Goto(i, pc) == req' = [req EXCEPT ![i].pc = pc]

HandlerFrame ==
    UNCHANGED <<status, up, crashes, known, departed, loop, own, art, done, executed>>

(* peer_connected, under the lock of connected_peers.                      *)
Connect(i) ==
    /\ Serving(i, "connect")
    /\ connected' = connected \cup {i[1]}
    /\ Goto(i, "eval")
    /\ UNCHANGED <<step, completed, data, payload, row, peer>> /\ HandlerFrame

(* handle_peer_data stores the upload before it marks the peer completed.  *)
StorePeerData(i) ==
    /\ Serving(i, "store")
    /\ data' = [data EXCEPT ![i[1]] = req[i].cmd]
    /\ Goto(i, "complete")
    /\ UNCHANGED <<step, connected, completed, payload, row, peer>>
    /\ HandlerFrame

(* peer_completed, under the lock of completed_peers: whatever the step.   *)
PeerCompleted(i) ==
    /\ Serving(i, "complete")
    /\ completed' = completed \cup {i[1]}
    /\ Persist(step, completed')
    /\ Goto(i, "eval")
    /\ UNCHANGED <<step, connected, data, payload, peer>> /\ HandlerFrame

(* maybe_advance, first half: read the step.                               *)
EvalStep(i) ==
    /\ Serving(i, "eval")
    /\ req' = [req EXCEPT ![i].pc = "check", ![i].cur = step]
    /\ UNCHANGED <<step, connected, completed, data, payload, row, peer>>
    /\ HandlerFrame

(* A peer's loop goes on at pc, with the command and payload it received.  *)
PeerAt(p, pc, cmd, pay) ==
    [peer[p] EXCEPT !.pc = pc, !.cmd = cmd, !.payload = pay]
Idle(p) == PeerAt(p, "idle", 0, 0)

(* The reply reaches its peer unless the peer gave up waiting for it.      *)
Reply(i, p) ==
    /\ req' = [req EXCEPT ![i] = NoReq]
    /\ IF i[2] = "late" THEN UNCHANGED peer
       ELSE peer' = [peer EXCEPT ![i[1]] = p]

(* After maybe_advance a poll goes on to its answer; anything else is      *)
(* acknowledged.                                                           *)
AfterEval(i) ==
    IF req[i].cmd = 0
    THEN req' = [req EXCEPT ![i] = [NoReq EXCEPT !.pc = "answer"]] /\ UNCHANGED peer
    ELSE Reply(i, Idle(i[1]))

(* maybe_advance, second half: count the set its gate looks at.            *)
CheckGate(i) ==
    /\ Serving(i, "check")
    /\ IF Ready(req[i].cur) THEN Goto(i, "cas") /\ UNCHANGED peer ELSE AfterEval(i)
    /\ UNCHANGED <<step, connected, completed, data, payload, row>>
    /\ HandlerFrame

AdvanceStepIf(i) ==
    /\ Serving(i, "cas")
    /\ advance_step_if(req[i].cur)
    /\ AfterEval(i)
    /\ UNCHANGED <<connected, data, payload>> /\ HandlerFrame

(* handle_get_next_command: Wait for a peer that completed the step.       *)
AnswerCompleted(i) ==
    /\ Serving(i, "answer")
    /\ IF i[1] \in completed THEN Reply(i, Idle(i[1]))
       ELSE Goto(i, "command") /\ UNCHANGED peer
    /\ UNCHANGED <<step, connected, completed, data, payload, row>>
    /\ HandlerFrame

(* ... the current command, read under a lock of its own, ...              *)
AnswerCommand(i) ==
    /\ Serving(i, "command")
    /\ IF Steps[step].cmd
       THEN /\ req' = [req EXCEPT ![i].pc = "payload", ![i].cur = step]
            /\ UNCHANGED peer
       ELSE Reply(i, Idle(i[1]))
    /\ UNCHANGED <<step, connected, completed, data, payload, row>>
    /\ HandlerFrame

(* ... and the payload, read under yet another.                            *)
AnswerPayload(i) ==
    /\ Serving(i, "payload")
    /\ Reply(i, PeerAt(i[1], "exec", req[i].cur,
                       IF gate(req[i].cur) = "complete" THEN payload ELSE 0))
    /\ UNCHANGED <<step, connected, completed, data, payload, row>>
    /\ HandlerFrame

Handle(i) ==
    \/ Connect(i) \/ StorePeerData(i) \/ PeerCompleted(i) \/ EvalStep(i)
    \/ CheckGate(i) \/ AdvanceStepIf(i) \/ AnswerCompleted(i)
    \/ AnswerCommand(i) \/ AnswerPayload(i)

----------------------------------------------------------------------------
(* The peers' loops (run_peer).                                            *)

PeerFrame == UNCHANGED <<status, up, crashes, known, coord, db>>

Send(p, pc, cmd) ==
    /\ req' = [req EXCEPT ![<<p, "now">>] = [pc |-> pc, cmd |-> cmd, cur |-> 0]]
    /\ peer' = [peer EXCEPT ![p].pc = "await",
                            ![p].fails = IF cmd = 0 THEN @ ELSE 0]

(* Only a run that is being served answers; otherwise the peer polls on.   *)
Poll(p) ==
    /\ peer[p].pc = "idle" /\ Running
    /\ Send(p, "connect", 0)
    /\ UNCHANGED executed /\ PeerFrame

(* A gate's command is refused when the payload is not that gate's, and    *)
(* polled for again.                                                       *)
Refused(p) ==
    gate(peer[p].cmd) = "complete" /\ peer[p].payload # peer[p].cmd

(* retry_peer_step: too many failures in a row end the loop.               *)
RetryPeerStep(p) ==
    /\ peer' = [peer EXCEPT ![p] =
          [PeerAt(p, IF @.fails + 1 >= MaxStepFailures THEN "leaving" ELSE "idle",
                  0, 0) EXCEPT !.fails = @ + 1]]
    /\ UNCHANGED <<req, executed>>

(* The request did not come through: logged and polled again, except that  *)
(* the RetireLegacyKeys arm ends the loop.                                 *)
SendFailed(p, s) ==
    [PeerAt(p, IF s # 0 /\ gate(s) = "coord" THEN "leaving" ELSE "idle", 0, 0)
       EXCEPT !.fails = IF s = 0 THEN @ ELSE 0]

(* Carry out a command and answer it; Disconnect ends the loop.  The       *)
(* answer is lost on a coordinator that no longer serves the run.          *)
Execute(p) ==
    LET s == peer[p].cmd IN
    /\ peer[p].pc = "exec"
    /\ IF Refused(p) THEN RetryPeerStep(p)
       ELSE /\ executed' = [executed EXCEPT ![p] = @ \cup {s}]
            /\ IF gate(s) # "done" /\ Running
               THEN Send(p, IF Steps[s].reply = "upload" THEN "store"
                            ELSE "complete", s)
               ELSE /\ peer' = [peer EXCEPT ![p] =
                          IF gate(s) = "done" THEN PeerAt(p, "finished", 0, 0)
                          ELSE SendFailed(p, s)]
                    /\ UNCHANGED req
    /\ PeerFrame

(* The request or its reply is lost on the way, or NOISE_HANDLER_TIMEOUT   *)
(* drops the handler wherever it is.                                       *)
RequestLost(p) ==
    /\ Lossy
    /\ req[<<p, "now">>].pc # "free"
    /\ req' = [req EXCEPT ![<<p, "now">>] = NoReq]
    /\ peer' = [peer EXCEPT ![p] = SendFailed(p, req[<<p, "now">>].cmd)]
    /\ UNCHANGED executed /\ PeerFrame

(* send_message times out at the sender while the coordinator still has    *)
(* the upload or status.  (A poll that times out is answered into the void *)
(* and has no effect another poll does not have.)                          *)
RequestTimesOut(p) ==
    /\ LateDelivery
    /\ req[<<p, "now">>].pc # "free" /\ req[<<p, "now">>].cmd # 0
    /\ req[<<p, "late">>].pc = "free"
    /\ req' = [req EXCEPT ![<<p, "late">>] = req[<<p, "now">>],
                          ![<<p, "now">>] = NoReq]
    /\ peer' = [peer EXCEPT ![p] = SendFailed(p, req[<<p, "now">>].cmd)]
    /\ UNCHANGED executed /\ PeerFrame

(* The loop ends with an error (communication, 503s, or step failures).    *)
GiveUp(p) ==
    /\ p \in MayLeave /\ peer[p].pc \in {"idle", "exec"}
    /\ peer' = [peer EXCEPT ![p] = PeerAt(p, "leaving", 0, 0)]
    /\ UNCHANGED req /\ UNCHANGED executed /\ PeerFrame

(* report_departure: the coordinator counts the peer out.  A coordinator   *)
(* that does not serve the run answers 503 and the report is dropped.      *)
ReportDeparture(p) ==
    /\ peer[p].pc = "leaving"
    /\ peer' = [peer EXCEPT ![p].pc = "left"]
    /\ departed' = IF Running THEN departed \cup {p} ELSE departed
    /\ UNCHANGED <<status, up, crashes, known, step, connected, completed,
                   data, payload, loop, db, executed, req>>

(* The peer's process stops: nothing more is heard from it.                *)
Die(p) ==
    /\ p \in MayDie /\ peer[p].pc \in {"idle", "exec"}
    /\ peer' = [peer EXCEPT ![p] = PeerAt(p, "dead", 0, 0)]
    /\ UNCHANGED req /\ UNCHANGED executed /\ PeerFrame

----------------------------------------------------------------------------
(* The coordinator's loop.                                                 *)

LoopGoto(pc) == loop' = [loop EXCEPT !.pc = pc]
LoopFrame ==
    UNCHANGED <<up, crashes, known, connected, departed, peer, executed, req>>

(* current_step().await and the match on it.                               *)
LoopRead ==
    /\ Running /\ loop.pc = "read"
    /\ loop' = [pc |-> "arm", cur |-> step]
    /\ UNCHANGED <<status, step, completed, data, payload, db>> /\ LoopFrame

(* A gate's arm: the coordinator's own part, and the 1-of-N shortcut.      *)
LoopGate ==
    /\ Running /\ loop.pc = "arm" /\ gate(loop.cur) \in {"connect", "complete"}
    /\ own' = IF Steps[loop.cur].own THEN own \cup {loop.cur} ELSE own
    /\ IF coordinator_only THEN advance_step_if(loop.cur)
       ELSE UNCHANGED <<step, completed, row>>
    /\ loop' = NoLoop
    /\ UNCHANGED <<status, data, payload, art, done>> /\ LoopFrame

(* A coord step: get_all_peer_data and save it, ...                        *)
LoopSave ==
    /\ Running /\ loop.pc = "arm" /\ gate(loop.cur) = "coord"
    /\ LET g == Steps[loop.cur].takes IN
       /\ art' = IF g = 0 THEN art
                 ELSE [art EXCEPT ![g] = [p \in Peers |->
                          IF data[p] = 0 THEN art[g][p] ELSE data[p]]]
       /\ own' = IF Steps[loop.cur].own THEN own \cup {g} ELSE own
    /\ LoopGoto("clear")
    /\ UNCHANGED <<status, step, completed, data, payload, done, row>>
    /\ LoopFrame

(* ... clear_peer_data, ...                                                *)
LoopClear ==
    /\ Running /\ loop.pc = "clear"
    /\ data' = IF Steps[loop.cur].takes = 0 THEN data
               ELSE [p \in Peers |-> 0]
    /\ LoopGoto("perform")
    /\ UNCHANGED <<status, step, completed, payload, db>> /\ LoopFrame

(* The peers whose upload for gate g is the answer to g's command.         *)
Answers(g) == {p \in Peers : art[g][p] = g}

(* What Canton needs to accept what step s submits.                        *)
Enough(s) ==
    LET g == Steps[s].takes IN
    g # 0 => /\ \/ Cardinality(Answers(g)) >= resolve_peer_threshold
                \/ coordinator_only
             /\ Steps[g].own => g \in own

(* ... the step proper and the payload it publishes, ...                   *)
LoopPerform ==
    /\ Running /\ loop.pc = "perform" /\ Enough(loop.cur)
    /\ done' = done \cup {loop.cur}
    /\ payload' = IF Steps[loop.cur].gives = 0 THEN payload
                  ELSE Steps[loop.cur].gives
    /\ LoopGoto("advance")
    /\ UNCHANGED <<status, step, completed, data, own, art, row>> /\ LoopFrame

(* ... or a failure, there or in the work before it, which ends the run,   *)
LoopFail ==
    /\ Running
    /\ \/ loop.pc = "perform" /\ (StepMayFail \/ ~Enough(loop.cur))
       \/ /\ loop.pc = "arm" /\ StepMayFail
          /\ gate(loop.cur) = "coord" \/ Steps[loop.cur].own
    /\ status' = "failed"
    /\ LoopGoto("ended")
    /\ UNCHANGED <<step, completed, data, payload, db>> /\ LoopFrame

(* ... and advance_step, which does not look at the step again.            *)
LoopAdvance ==
    /\ Running /\ loop.pc = "advance"
    /\ Advance
    /\ loop' = NoLoop
    /\ UNCHANGED <<status, data, payload, own, art, done>> /\ LoopFrame

(* The Complete arm: wait a while, then leave; the run is over.            *)
LoopComplete ==
    /\ Running /\ loop.pc = "arm" /\ gate(loop.cur) = "done"
    /\ own' = IF Steps[loop.cur].own THEN own \cup {loop.cur} ELSE own
    /\ status' = "completed"
    /\ LoopGoto("ended")
    /\ UNCHANGED <<step, completed, data, payload, art, done, row>> /\ LoopFrame

Loop == \/ LoopRead \/ LoopGate \/ LoopSave \/ LoopClear \/ LoopPerform
        \/ LoopFail \/ LoopAdvance \/ LoopComplete

(* Mutant: departed peers are not counted out.                             *)
StrandedByConnected(unavailable) ==
    /\ gate(step) = "complete"
    /\ Cardinality(connected) < peers_quorum

(* wait_until_stranded: peers that gave up, and of those not heard from    *)
(* the ones silent for long enough, cannot be counted on; a peer that      *)
(* completed the step still counts.                                        *)
stranded_by(unavailable) ==
    /\ gate(step) = "complete"
    /\ Cardinality(Peers) - Cardinality(unavailable \ completed) < peers_quorum

Stranded ==
    /\ Running
    /\ \E silent \in SUBSET {p \in Peers : peer[p].pc = "dead"} :
           stranded_by(departed \cup silent)
    /\ status' = "failed"
    /\ LoopGoto("ended")
    /\ UNCHANGED <<step, completed, data, payload, db>> /\ LoopFrame

----------------------------------------------------------------------------
(* The coordinator's process stops: requests and memory are gone.          *)
Crash ==
    /\ Running /\ crashes < MaxCrashes
    /\ up' = FALSE /\ crashes' = crashes + 1
    /\ step' = 1 /\ connected' = {} /\ completed' = {} /\ departed' = {}
    /\ data' = [p \in Peers |-> 0] /\ payload' = 0 /\ loop' = NoLoop
    /\ req' = [i \in Slots |-> NoReq]
    /\ peer' = [p \in Peers |-> IF peer[p].pc = "await"
                                THEN SendFailed(p, req[<<p, "now">>].cmd)
                                ELSE peer[p]]
    /\ UNCHANGED <<status, known, db, executed>>

(* recover_in_progress_workflows.  The payload is what the loop sets       *)
(* before its first iteration, and peer data comes from nowhere.           *)
Recover ==
    /\ ~up
    /\ up' = TRUE
    /\ payload' = InitialPayloadOf[Kind]
    /\ UNCHANGED <<status, crashes, connected, data, departed, loop, own, art,
                   done, peer, executed, req>>

(* from_persisted: the step and its completed peers come from the row.     *)
Resume ==
    /\ known' = TRUE
    /\ step' = row.step /\ completed' = row.completed
    /\ row' = [row EXCEPT !.age = "current"]

(* The row cannot be read, or it has no step of this kind, or it is not in *)
(* progress: the state machine starts over and the row keeps what it says. *)
StartAfresh ==
    /\ known' \in BOOLEAN
    /\ step' = 1 /\ completed' = {}
    /\ row' = [row EXCEPT !.age = "stale"]

(* Mutant: whatever the row says, start over from the initial step.        *)
RestartAfresh ==
    Recover /\ known' = TRUE /\ step' = 1 /\ completed' = {} /\ UNCHANGED row

(* NoiseServer::new.                                                       *)
Restart == Recover /\ (Resume \/ StartAfresh)

Next ==
    \/ \E i \in Slots : Handle(i)
    \/ \E p \in Peers : \/ Poll(p) \/ Execute(p) \/ RequestLost(p)
                        \/ RequestTimesOut(p) \/ GiveUp(p)
                        \/ ReportDeparture(p) \/ Die(p)
    \/ Loop \/ Stranded \/ Crash \/ Restart

Spec == Init /\ [][Next]_vars

(* Handlers, loops, the 5 s stranding check and recovery at start-up run   *)
(* on tokio tasks that nothing blocks for good.                            *)
Fairness ==
    /\ \A i \in Slots : WF_vars(Handle(i))
    /\ \A p \in Peers : /\ WF_vars(Poll(p)) /\ WF_vars(Execute(p))
                        /\ WF_vars(ReportDeparture(p))
    /\ WF_vars(Loop) /\ WF_vars(Stranded) /\ WF_vars(Restart)

FairSpec == Spec /\ Fairness

----------------------------------------------------------------------------
(* What a request's handler and a peer's loop keep.                        *)
Request == [pc : {"free", "connect", "store", "complete", "eval", "check",
                  "cas", "answer", "command", "payload"},
            cmd : 0..Last, cur : 0..Last]
PeerLoop == [pc : {"idle", "await", "exec", "finished", "leaving", "left",
                   "dead"},
             cmd : 0..Last, payload : 0..Last, fails : 0..MaxStepFailures]

(* Everything has its type.                                                *)
TypeOK ==
    /\ status \in {"running", "completed", "failed"}
    /\ up \in BOOLEAN /\ crashes \in 0..MaxCrashes /\ known \in BOOLEAN
    /\ step \in 1..Last /\ payload \in 0..Last
    /\ connected \subseteq Peers /\ completed \subseteq Peers
    /\ departed \subseteq Peers
    /\ data \in [Peers -> 0..Last]
    /\ loop \in [pc : {"read", "arm", "clear", "perform", "advance", "ended"},
                 cur : 0..Last]
    /\ own \subseteq 0..Last /\ done \subseteq 1..Last
    /\ art \in [1..Last -> [Peers -> 0..Last]]
    /\ row \in [step : 1..Last, completed : SUBSET Peers,
                age : {"current", "stale"}]
    /\ peer \in [Peers -> PeerLoop]
    /\ executed \in [Peers -> SUBSET (1..Last)]
    /\ req \in [Slots -> Request]

(* The doc of advance_step_if: concurrent handlers that see a gate open    *)
(* together advance it once.  The machine moves one step at a time, leaves *)
(* a gate only with the quorum that opens it there and then, and leaves a  *)
(* coordinator's step only when the loop has carried that step out.        *)
(* Crash and restart apart: they come back to a persisted step.            *)
GatesRespected ==
    [][up /\ up' /\ step' # step =>
          /\ step' = step + 1
          /\ \/ Ready(step)
             \/ gate(step) # "coord" /\ coordinator_only
             \/ gate(step) = "coord" /\ loop.cur = step /\ step \in done]_vars

(* No coordinator's step is ever skipped, in memory or in the row a        *)
(* restart resumes from, whatever handlers, lost row writes and restarts   *)
(* do: every one below the current step has been carried out.              *)
NoStepSkipped ==
    \A s \in 1..Last :
        gate(s) = "coord" /\ (s < row.step \/ (up /\ s < step)) => s \in done

(* The row never runs ahead of the memory it is written from.  A start     *)
(* that could not use the row leaves it ahead of the machine it starts,    *)
(* but only until the first write of that machine.                         *)
RowNotAhead ==
    up /\ row.age = "current" =>
        /\ row.step <= step
        /\ row.step = step => row.completed \subseteq completed

(* When the coordinator submits, it has saved a quorum of answers to the   *)
(* very command it submits for: handle_peer_data stores an upload before   *)
(* it counts its sender as completed.  (A restart keeps who completed and  *)
(* loses what they uploaded.)                                              *)
SubmitsQuorum ==
    crashes = 0 /\ loop.pc = "perform" /\ Steps[loop.cur].takes # 0 =>
        \/ coordinator_only
        \/ Cardinality(Answers(Steps[loop.cur].takes)) >= resolve_peer_threshold

(* "The coordinator's own bundle was already written by sign_submissions   *)
(* above": when a step uses a gate's answers, the coordinator's own part   *)
(* of that gate is done.                                                   *)
OwnPartDone ==
    loop.pc = "perform" /\ Steps[loop.cur].takes # 0
        => (Steps[Steps[loop.cur].takes].own => Steps[loop.cur].takes \in own)

(* The peers that are lost to the run, and how many it can do without: of  *)
(* a party of threshold M, all but M - 1, as the coordinator signs too,    *)
(* and none when the run's row could not be read.                          *)
Lost == {p \in Peers : peer[p].pc \in {"leaving", "left", "dead"}}
Spare == Cardinality(Peers) - peers_quorum

(* A run never stays parked at a gate its peers are to open (#442): either *)
(* the gate opens, or the run ends because too few peers are left.         *)
NotParked == []<>~(Running /\ gate(step) = "complete")

(* A run completes unless it loses more peers than its quorum can spare.   *)
Completes == <>(status = "completed" \/ Cardinality(Lost) > Spare)

(* "Peer has completed current step, tell them to wait": a peer that is    *)
(* told to wait at a step with a command has carried out that command.     *)
WaitOnlyIfExecuted ==
    Running /\ Steps[step].cmd => \A p \in completed : step \in executed[p]
=============================================================================
