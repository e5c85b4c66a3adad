------------------------- MODULE WorkflowRun_proofs -------------------------
(***************************************************************************)
(* Proofs about WorkflowRun for every workflow kind, every set of peers,   *)
(* every party threshold and every combination of faults.                  *)
(*                                                                         *)
(* The proof has two layers.  TypeInv, the type invariant and what makes   *)
(* it inductive, is proved first; IInv then adds, to the invariants it is  *)
(* for, what a value read under one lock is still worth under the next:    *)
(* CasInv, that a handler which found the gate of the current step open    *)
(* can rely on it; CurInv, that what a handler read is never ahead of the  *)
(* step; LoopInv, that a coordinator's step stays put while the loop works *)
(* on it; DownInv, that no handler and no loop outlives a crash.           *)
(*                                                                         *)
(* FirstInv, at the end, is for the kinds with one gate their peers open,  *)
(* until the coordinator restarts: an upload is stored before its sender   *)
(* is counted and kept until it is saved, and the gate's payload is there  *)
(* before the gate is reached.                                             *)
(***************************************************************************)
EXTENDS WorkflowRun, TLAPS, FiniteSetTheorems


(* TypeOK, in three parts, and what makes it inductive: a command a peer   *)
(* carries out is a step, and a loop that still runs has failures to spare.*)
ReqT ==
    /\ req \in [Slots -> Request]
    /\ \A i \in Slots : req[i].pc = "payload" => req[i].cur # 0

PeerOK(r) == /\ r \in PeerLoop
             /\ r.pc = "exec" => r.cmd # 0
             /\ r.pc \in {"idle", "await", "exec"} => r.fails < MaxStepFailures
PeerT ==
    /\ peer \in [Peers -> PeerLoop]
    /\ \A p \in Peers : PeerOK(peer[p])

RowT == row \in [step : 1..Last, completed : SUBSET Peers,
                 age : {"current", "stale"}]

CoordT ==
    /\ status \in {"running", "completed", "failed"}
    /\ up \in BOOLEAN /\ crashes \in 0..MaxCrashes /\ known \in BOOLEAN
    /\ step \in 1..Last /\ payload \in 0..Last
    /\ connected \subseteq Peers /\ completed \subseteq Peers
    /\ departed \subseteq Peers
    /\ data \in [Peers -> 0..Last]
    /\ loop \in [pc : {"read", "arm", "clear", "perform", "advance", "ended"},
                 cur : 0..Last]
    /\ loop.pc \notin {"read", "ended"} => loop.cur # 0
    /\ own \subseteq 0..Last /\ done \subseteq 1..Last
    /\ art \in [1..Last -> [Peers -> 0..Last]]
    /\ executed \in [Peers -> SUBSET (1..Last)]

(* A peer waits for the answer to the request it has under way.            *)
AwaitT ==
    \A p \in Peers : req[<<p, "now">>].pc # "free" => peer[p].pc = "await"

TypeInv == CoordT /\ RowT /\ ReqT /\ PeerT /\ AwaitT

CurInv == \A i \in Slots : req[i].pc \in {"check", "cas"} => req[i].cur <= step

CasInv == \A i \in Slots :
              req[i].pc = "cas" /\ req[i].cur = step => Ready(step)

LoopInv ==
    /\ loop.pc = "arm" /\ gate(loop.cur) = "coord" => loop.cur = step
    /\ loop.pc \in {"clear", "perform", "advance"} =>
           loop.cur = step /\ gate(step) = "coord"
    /\ loop.pc = "advance" => step \in done

DownInv == ~up => /\ \A i \in Slots : req[i].pc = "free"
                  /\ loop.pc = "read"

IInv == TypeInv /\ CurInv /\ CasInv /\ LoopInv /\ DownInv
        /\ NoStepSkipped /\ RowNotAhead

----------------------------------------------------------------------------
(* Every step list has a first step, and its steps refer to steps of it.   *)
LEMMA StepsType ==
  /\ Last \in Nat \ {0}
  /\ \A s \in 1..Last : Steps[s].takes \in 0..Last /\ Steps[s].gives \in 0..Last
<1>. USE DEF Last, Steps, StepsOf, WaitingForPeers, Complete, Gate, Coord
<1>0. RetireLegacyKeys.takes = 0 /\ RetireLegacyKeys.gives = 0
  BY DEF RetireLegacyKeys
<1>1. CASE Kind = "Kick"            BY <1>0, <1>1 DEF KickSteps
<1>2. CASE Kind = "ChangeThreshold" BY <1>0, <1>2 DEF ChangeThresholdSteps
<1>3. CASE Kind = "Contracts"       BY <1>3 DEF ContractsSteps
<1>4. CASE Kind = "Onboarding"      BY <1>4 DEF OnboardingSteps
<1>5. CASE Kind = "Dars"            BY <1>5 DEF DarsSteps
<1>. QED
  BY <1>1, <1>2, <1>3, <1>4, <1>5, KindAssumption DEF Kinds

(* A handler's next place in a request, and the request it makes of it.    *)
LEMMA RequestType ==
  /\ NoReq \in Request /\ [NoReq EXCEPT !.pc = "answer"] \in Request
  /\ \A pc \in {"connect", "store", "complete"}, s \in 0..Last :
        [pc |-> pc, cmd |-> s, cur |-> 0] \in Request
<1>1. 0 \in 0..Last
  BY StepsType
<1>2. NoReq \in Request /\ [NoReq EXCEPT !.pc = "answer"] \in Request
  BY <1>1 DEF NoReq, Request
<1>3. ASSUME NEW pc \in {"connect", "store", "complete"}, NEW s \in 0..Last
      PROVE  [pc |-> pc, cmd |-> s, cur |-> 0] \in Request
  BY <1>1 DEF Request
<1>. QED
  BY <1>2, <1>3

(* Where a peer's loop goes next.                                          *)
LEMMA PeerAtType ==
  ASSUME peer \in [Peers -> PeerLoop], NEW p \in Peers,
         NEW pc \in {"idle", "exec", "finished", "leaving", "dead"},
         NEW cmd \in 0..Last, NEW pay \in 0..Last
  PROVE  /\ PeerAt(p, pc, cmd, pay) \in PeerLoop
         /\ PeerAt(p, pc, cmd, pay).pc = pc
         /\ PeerAt(p, pc, cmd, pay).cmd = cmd
         /\ PeerAt(p, pc, cmd, pay).fails = peer[p].fails
  BY DEF PeerAt, PeerLoop

(* The payload set before the loop's first iteration is a step's.          *)
LEMMA InitialPayloadType == InitialPayloadOf[Kind] \in 0..Last
<1>1. CASE Kind = "Onboarding"
  BY <1>1 DEF InitialPayloadOf, Last, Steps, StepsOf, OnboardingSteps
<1>2. CASE Kind = "Dars"
  BY <1>2 DEF InitialPayloadOf, Last, Steps, StepsOf, DarsSteps
<1>. QED
  BY <1>1, <1>2, StepsType, KindAssumption DEF InitialPayloadOf, Kinds

(* The initial state satisfies the invariant.                              *)
LEMMA InitIInv == Init => IInv
<1>. SUFFICES ASSUME Init PROVE IInv
  OBVIOUS
<1>. USE StepsType, SwitchAssumption DEF Init
<1>1. payload \in 0..Last
  BY InitialPayloadType
<1>2. CoordT /\ RowT
  BY <1>1 DEF CoordT, RowT, NoLoop
<1>3. ReqT /\ PeerT /\ AwaitT
  BY DEF ReqT, PeerT, AwaitT, PeerOK, Request, PeerLoop, NoReq, Slots
<1>4. CurInv /\ CasInv /\ LoopInv /\ DownInv
  BY DEF CurInv, CasInv, LoopInv, DownInv, NoReq, NoLoop
<1>5. NoStepSkipped /\ RowNotAhead
  BY DEF NoStepSkipped, RowNotAhead
<1>. QED
  BY <1>2, <1>3, <1>4, <1>5 DEF IInv, TypeInv

----------------------------------------------------------------------------
(* Types.                                                                  *)

LEMMA TypeInvTypeOK == TypeInv => TypeOK
  BY DEF TypeInv, CoordT, RowT, ReqT, PeerT, TypeOK

LEMMA ReqUpdate ==
  ASSUME ReqT, NEW i \in Slots, NEW r \in Request, r.pc = "payload" => r.cur # 0,
         req' = [req EXCEPT ![i] = r]
  PROVE  ReqT'
  BY DEF ReqT

LEMMA PeerUpdate ==
  ASSUME PeerT, NEW p \in Peers, NEW r, PeerOK(r), peer' = [peer EXCEPT ![p] = r]
  PROVE  PeerT'
  BY DEF PeerT, PeerOK

LEMMA PersistType ==
  ASSUME RowT, NEW s \in 1..Last, NEW c \in SUBSET Peers, Persist(s, c)
  PROVE  RowT'
  BY DEF RowT, Persist

LEMMA AdvanceType ==
  ASSUME CoordT, RowT, Advance
  PROVE  step' \in 1..Last /\ completed' \subseteq Peers /\ RowT'
<1>1. CASE step < Last
  <2>1. step + 1 \in 1..Last /\ {} \in SUBSET Peers
    BY <1>1, StepsType DEF CoordT
  <2>. QED
    BY <1>1, <2>1, PersistType DEF Advance
<1>2. CASE ~(step < Last)
  BY <1>2 DEF Advance, CoordT, RowT
<1>. QED
  BY <1>1, <1>2

(* A peer whose request failed polls again or leaves.                      *)
LEMMA SendFailedOK ==
  ASSUME PeerT, NEW p \in Peers, peer[p].pc \in {"idle", "await", "exec"},
         NEW s
  PROVE  PeerOK(SendFailed(p, s)) /\ SendFailed(p, s).pc # "await"
<1>. DEFINE pc == IF s # 0 /\ gate(s) = "coord" THEN "leaving" ELSE "idle"
            q == PeerAt(p, pc, 0, 0)
<1>1. /\ q \in PeerLoop /\ q.pc = pc /\ q.fails = peer[p].fails
      /\ pc \in {"idle", "leaving"} /\ peer[p].fails < MaxStepFailures
  BY StepsType, PeerAtType DEF PeerT, PeerOK
<1>2. ASSUME NEW f \in 0..MaxStepFailures, f < MaxStepFailures, NEW r \in PeerLoop,
             r.pc \in {"idle", "leaving"}
      PROVE  PeerOK([r EXCEPT !.fails = f]) /\ [r EXCEPT !.fails = f].pc # "await"
  BY <1>2 DEF PeerOK, PeerLoop
<1>3. /\ 0 \in 0..MaxStepFailures /\ 0 < MaxStepFailures
      /\ q.fails \in 0..MaxStepFailures /\ q.fails < MaxStepFailures
  BY <1>1, SwitchAssumption DEF PeerLoop
<1>4. SendFailed(p, s) = [q EXCEPT !.fails = IF s = 0 THEN q.fails ELSE 0]
  BY <1>1 DEF SendFailed, PeerLoop
<1>. HIDE DEF q, pc
<1>5. CASE s = 0
  BY <1>1, <1>2, <1>3, <1>4, <1>5
<1>6. CASE s # 0
  BY <1>1, <1>2, <1>3, <1>4, <1>6
<1>. QED
  BY <1>5, <1>6

(* A peer whose request was answered is idle or carries out a step.        *)
LEMMA IdleOK ==
  ASSUME PeerT, NEW p \in Peers, peer[p].pc \in {"idle", "await", "exec"}
  PROVE  PeerOK(Idle(p))
  BY StepsType, PeerAtType DEF PeerT, PeerOK, Idle


(* A request that goes on, and one that is answered.                       *)
LEMMA ContinueType ==
  ASSUME TypeInv, NEW i \in Slots, req[i].pc # "free", NEW r \in Request,
         r.pc = "payload" => r.cur # 0, req' = [req EXCEPT ![i] = r], peer' = peer
  PROVE  ReqT' /\ PeerT' /\ AwaitT'
<1>1. ReqT' /\ PeerT'
  BY ReqUpdate DEF TypeInv, PeerT, PeerOK
<1>2. AwaitT'
  BY DEF TypeInv, AwaitT, ReqT, Slots
<1>. QED
  BY <1>1, <1>2

LEMMA ReplyType ==
  ASSUME TypeInv, NEW i \in Slots, req[i].pc # "free", NEW p, Reply(i, p),
         i[2] = "now" => PeerOK(p)
  PROVE  ReqT' /\ PeerT' /\ AwaitT'
<1>. DEFINE q == i[1]
<1>1. q \in Peers /\ i[2] \in {"now", "late"} /\ i = <<q, i[2]>>
  BY DEF Slots
<1>2. req' = [req EXCEPT ![i] = NoReq] /\ NoReq \in Request /\ NoReq.pc = "free"
  BY RequestType DEF Reply, NoReq
<1>3. ReqT'
  BY <1>2, ReqUpdate DEF TypeInv
<1>4. CASE i[2] = "now"
  <2>1. peer' = [peer EXCEPT ![q] = p]
    BY <1>4 DEF Reply
  <2>2. PeerT'
    BY <1>1, <1>4, <2>1, PeerUpdate DEF TypeInv
  <2>3. AwaitT'
    BY <1>1, <1>2, <1>4, <2>1 DEF TypeInv, AwaitT, ReqT, PeerT, Slots
  <2>. QED
    BY <1>3, <2>2, <2>3
<1>5. CASE i[2] = "late"
  <2>1. peer' = peer
    BY <1>5 DEF Reply
  <2>. QED
    BY <1>1, <1>2, <1>3, <1>5, <2>1 DEF TypeInv, PeerT, PeerOK, AwaitT, ReqT, Slots
<1>. QED
  BY <1>1, <1>4, <1>5

LEMMA IdleReplyType ==
  ASSUME TypeInv, NEW i \in Slots, req[i].pc # "free", Reply(i, Idle(i[1]))
  PROVE  ReqT' /\ PeerT' /\ AwaitT'
<1>1. i[1] \in Peers /\ (i[2] = "now" => i = <<i[1], "now">>)
  BY DEF Slots
<1>2. i[2] = "now" => peer[i[1]].pc = "await"
  BY <1>1 DEF TypeInv, AwaitT
<1>3. i[2] = "now" => PeerOK(Idle(i[1]))
  BY <1>1, <1>2, IdleOK DEF TypeInv
<1>. QED
  BY <1>3, ReplyType

LEMMA AfterEvalType ==
  ASSUME TypeInv, NEW i \in Slots, req[i].pc # "free", AfterEval(i)
  PROVE  ReqT' /\ PeerT' /\ AwaitT'
<1>1. CASE req[i].cmd = 0
  <2>1. /\ [NoReq EXCEPT !.pc = "answer"] \in Request
        /\ [NoReq EXCEPT !.pc = "answer"].pc # "payload"
    BY RequestType DEF NoReq
  <2>2. req' = [req EXCEPT ![i] = [NoReq EXCEPT !.pc = "answer"]] /\ peer' = peer
    BY <1>1 DEF AfterEval
  <2>. HIDE DEF NoReq
  <2>. QED
    BY <2>1, <2>2, ContinueType
<1>2. CASE req[i].cmd # 0
  BY <1>2, IdleReplyType DEF AfterEval
<1>. QED
  BY <1>1, <1>2

(* Moving a request on keeps it a request.                                 *)
LEMMA GotoType ==
  ASSUME TypeInv, NEW i \in Slots, req[i].pc # "free",
         NEW pc \in {"eval", "complete", "check", "cas", "command"},
         Goto(i, pc), peer' = peer
  PROVE  ReqT' /\ PeerT' /\ AwaitT'
<1>. DEFINE r == [req[i] EXCEPT !.pc = pc]
<1>1. req[i] \in Request
  BY DEF TypeInv, ReqT
<1>2. r \in Request /\ r.pc = pc
  BY <1>1, StepsType DEF Request
<1>3. req' = [req EXCEPT ![i] = r]
  BY DEF Goto
<1>. HIDE DEF r
<1>. QED
  BY <1>2, <1>3, ContinueType

LEMMA GotoCurType ==
  ASSUME TypeInv, NEW i \in Slots, req[i].pc # "free", NEW pc \in {"check", "payload"},
         req' = [req EXCEPT ![i].pc = pc, ![i].cur = step], peer' = peer
  PROVE  ReqT' /\ PeerT' /\ AwaitT'
<1>. DEFINE r == [req[i] EXCEPT !.pc = pc, !.cur = step]
<1>1. req[i] \in Request /\ step \in 0..Last /\ step # 0
  BY StepsType DEF TypeInv, ReqT, CoordT
<1>2. r \in Request /\ r.cur = step
  BY <1>1 DEF Request
<1>3. req' = [req EXCEPT ![i] = r]
  BY <1>1 DEF TypeInv, ReqT
<1>. HIDE DEF r
<1>. QED
  BY <1>1, <1>2, <1>3, ContinueType

(* The handlers keep the types.                                            *)
LEMMA HandleType ==
  ASSUME TypeInv, NEW i \in Slots, Handle(i)
  PROVE  TypeInv'
<1>. USE DEF TypeInv
<1>0. i[1] \in Peers /\ req[i] \in Request /\ req[i].cmd \in 0..Last /\ req[i].cur \in 0..Last
  BY DEF Slots, ReqT, Request
<1>1. CASE Connect(i)
  <2>1. CoordT' /\ RowT'
    BY <1>0, <1>1 DEF Connect, HandlerFrame, CoordT, RowT
  <2>. QED
    BY <1>1, <2>1, GotoType DEF Connect, Serving
<1>2. CASE StorePeerData(i)
  <2>1. CoordT' /\ RowT'
    BY <1>0, <1>2 DEF StorePeerData, HandlerFrame, CoordT, RowT
  <2>. QED
    BY <1>2, <2>1, GotoType DEF StorePeerData, Serving
<1>3. CASE PeerCompleted(i)
  <2>1. completed' \in SUBSET Peers
    BY <1>0, <1>3 DEF PeerCompleted, CoordT
  <2>2. RowT'
    BY <1>3, <2>1, PersistType DEF PeerCompleted, CoordT
  <2>3. CoordT'
    BY <2>1, <1>3 DEF PeerCompleted, HandlerFrame, CoordT
  <2>. QED
    BY <1>3, <2>2, <2>3, GotoType DEF PeerCompleted, Serving
<1>4. CASE EvalStep(i)
  <2>1. CoordT' /\ RowT'
    BY <1>4 DEF EvalStep, HandlerFrame, CoordT, RowT
  <2>. QED
    BY <1>4, <2>1, GotoCurType DEF EvalStep, Serving
<1>5. CASE CheckGate(i)
  <2>1. CoordT' /\ RowT'
    BY <1>5 DEF CheckGate, HandlerFrame, CoordT, RowT
  <2>2. CASE Ready(req[i].cur)
    BY <1>5, <2>2, <2>1, GotoType DEF CheckGate, Serving
  <2>3. CASE ~Ready(req[i].cur)
    BY <1>5, <2>3, <2>1, AfterEvalType DEF CheckGate, Serving
  <2>. QED
    BY <2>2, <2>3
<1>6. CASE AdvanceStepIf(i)
  <2>1. step' \in 1..Last /\ completed' \subseteq Peers /\ RowT'
    BY <1>6, AdvanceType DEF AdvanceStepIf, advance_step_if, CoordT, RowT
  <2>2. CoordT'
    BY <1>6, <2>1 DEF AdvanceStepIf, HandlerFrame, CoordT
  <2>. QED
    BY <1>6, <2>1, <2>2, AfterEvalType DEF AdvanceStepIf, Serving
<1>7. CASE AnswerCompleted(i)
  <2>1. CoordT' /\ RowT'
    BY <1>7 DEF AnswerCompleted, HandlerFrame, CoordT, RowT
  <2>2. CASE i[1] \in completed
    BY <1>7, <2>1, <2>2, IdleReplyType DEF AnswerCompleted, Serving
  <2>3. CASE i[1] \notin completed
    BY <1>7, <2>1, <2>3, GotoType DEF AnswerCompleted, Serving
  <2>. QED
    BY <2>2, <2>3
<1>8. CASE AnswerCommand(i)
  <2>1. CoordT' /\ RowT'
    BY <1>8 DEF AnswerCommand, HandlerFrame, CoordT, RowT
  <2>2. CASE Steps[step].cmd
    BY <1>8, <2>1, <2>2, GotoCurType DEF AnswerCommand, Serving
  <2>3. CASE ~Steps[step].cmd
    BY <1>8, <2>1, <2>3, IdleReplyType DEF AnswerCommand, Serving
  <2>. QED
    BY <2>2, <2>3
<1>9. CASE AnswerPayload(i)
  <2>. DEFINE pay == IF gate(req[i].cur) = "complete" THEN payload ELSE 0
  <2>1. CoordT' /\ RowT'
    BY <1>9 DEF AnswerPayload, HandlerFrame, CoordT, RowT
  <2>2. pay \in 0..Last
    BY StepsType DEF CoordT
  <2>3. req[i].pc = "payload" /\ req[i].cur # 0
    BY <1>9 DEF AnswerPayload, Serving, ReqT
  <2>4. Reply(i, PeerAt(i[1], "exec", req[i].cur, pay))
    BY <1>9 DEF AnswerPayload
  <2>. HIDE DEF pay
  <2>5. i[2] = "now" => peer[i[1]].pc = "await"
    BY <1>0, <2>3 DEF Slots, AwaitT
  <2>6. i[2] = "now" => PeerOK(PeerAt(i[1], "exec", req[i].cur, pay))
    BY <1>0, <2>2, <2>3, <2>5, PeerAtType DEF PeerT, PeerOK
  <2>. QED
    BY <2>1, <2>3, <2>4, <2>6, ReplyType
<1>. QED
  BY <1>1, <1>2, <1>3, <1>4, <1>5, <1>6, <1>7, <1>8, <1>9 DEF Handle

PeerStep(p) == \/ Poll(p) \/ Execute(p) \/ RequestLost(p) \/ RequestTimesOut(p)
               \/ GiveUp(p) \/ ReportDeparture(p) \/ Die(p)

(* A peer's request replaces none.                                         *)
LEMMA SendType ==
  ASSUME TypeInv, NEW p \in Peers, peer[p].pc \in {"idle", "exec"},
         NEW pc \in {"connect", "store", "complete"}, NEW s \in 0..Last,
         Send(p, pc, s)
  PROVE  ReqT' /\ PeerT' /\ AwaitT'
<1>. DEFINE i == <<p, "now">>
            r == [pc |-> pc, cmd |-> s, cur |-> 0]
            q == [peer[p] EXCEPT !.pc = "await",
                                 !.fails = IF s = 0 THEN @ ELSE 0]
<1>1. i \in Slots /\ r \in Request /\ r.pc = pc /\ req' = [req EXCEPT ![i] = r]
  BY RequestType DEF Slots, Send
<1>2. peer[p] \in PeerLoop /\ peer[p].fails < MaxStepFailures
  BY DEF TypeInv, PeerT, PeerOK
<1>3. q \in PeerLoop /\ q.pc = "await" /\ (q.fails = peer[p].fails \/ q.fails = 0)
  <2>1. ASSUME NEW f \in 0..MaxStepFailures
        PROVE  LET r1 == [peer[p] EXCEPT !.pc = "await", !.fails = f]
               IN  r1 \in PeerLoop /\ r1.pc = "await" /\ r1.fails = f
    BY <1>2 DEF PeerLoop
  <2>2. 0 \in 0..MaxStepFailures /\ peer[p].fails \in 0..MaxStepFailures
    BY <1>2, SwitchAssumption DEF PeerLoop
  <2>3. CASE s = 0
    BY <2>1, <2>2, <2>3
  <2>4. CASE s # 0
    BY <2>1, <2>2, <2>4
  <2>. QED
    BY <2>3, <2>4
<1>4. peer' = [peer EXCEPT ![p] = q]
  BY DEF Send, TypeInv, PeerT, PeerLoop
<1>. HIDE DEF r, q
<1>5. PeerOK(q)
  BY <1>2, <1>3, SwitchAssumption DEF PeerOK
<1>6. ReqT' /\ PeerT'
  BY <1>1, <1>4, <1>5, ReqUpdate, PeerUpdate DEF TypeInv
<1>7. AwaitT'
  BY <1>1, <1>3, <1>4 DEF TypeInv, AwaitT, ReqT, PeerT, Slots
<1>. QED
  BY <1>6, <1>7

(* A loop with no request under way moves.                                 *)
LEMMA MoveType ==
  ASSUME TypeInv, NEW p \in Peers, req[<<p, "now">>].pc = "free",
         NEW q, PeerOK(q), peer' = [peer EXCEPT ![p] = q], req' = req
  PROVE  ReqT' /\ PeerT' /\ AwaitT'
<1>1. ReqT' /\ PeerT'
  BY PeerUpdate DEF TypeInv, ReqT
<1>2. AwaitT'
  BY DEF TypeInv, AwaitT, PeerT
<1>. QED
  BY <1>1, <1>2

LEMMA PeerStepType ==
  ASSUME TypeInv, NEW p \in Peers, PeerStep(p)
  PROVE  TypeInv'
<1>. USE DEF TypeInv
<1>. DEFINE n == <<p, "now">>
            l == <<p, "late">>
<1>0. /\ n \in Slots /\ l \in Slots /\ n # l
      /\ PeerOK(peer[p]) /\ peer[p] \in PeerLoop
      /\ peer[p].pc # "await" => req[n].pc = "free"
      /\ 0 \in 0..Last /\ peer[p].cmd \in 0..Last
  BY StepsType DEF Slots, PeerT, AwaitT, PeerLoop
<1>. HIDE DEF n, l
<1>f. PeerFrame /\ UNCHANGED executed => CoordT' /\ RowT'
  BY DEF PeerFrame, coord, db, CoordT, RowT
<1>1. CASE Poll(p)
  BY <1>0, <1>f, <1>1, SendType DEF Poll
<1>2. CASE Execute(p)
  <2>. DEFINE s == peer[p].cmd
  <2>1. peer[p].pc = "exec" /\ s \in 1..Last /\ req[n].pc = "free" /\ PeerFrame
    BY <1>0, <1>2, StepsType DEF Execute, PeerOK
  <2>2. CASE Refused(p)
    <3>. DEFINE f == peer[p].fails
                pc == IF f + 1 >= MaxStepFailures THEN "leaving" ELSE "idle"
                q == [PeerAt(p, pc, 0, 0) EXCEPT !.fails = f + 1]
    <3>1. RetryPeerStep(p) /\ req' = req /\ executed' = executed
      BY <1>2, <2>2 DEF Execute, RetryPeerStep
    <3>2. f \in Nat /\ f < MaxStepFailures /\ f + 1 \in 0..MaxStepFailures
      BY <1>0, <2>1, SwitchAssumption DEF PeerOK, PeerLoop
    <3>3. peer' = [peer EXCEPT ![p] = q]
      BY <1>0, <3>1 DEF RetryPeerStep, PeerAt, PeerT, PeerLoop
    <3>4. PeerAt(p, pc, 0, 0) \in PeerLoop /\ PeerAt(p, pc, 0, 0).pc = pc
      BY <1>0, PeerAtType DEF PeerT
    <3>. HIDE DEF f
    <3>5. q \in PeerLoop /\ q.pc = pc /\ q.fails = f + 1
      BY <3>2, <3>4 DEF PeerLoop
    <3>. HIDE DEF q
    <3>6. PeerOK(q)
      BY <3>2, <3>5, SwitchAssumption DEF PeerOK
    <3>. QED
      BY <1>f, <2>1, <3>1, <3>3, <3>6, MoveType DEF n
  <2>3. CASE ~Refused(p)
    <3>1. executed' = [executed EXCEPT ![p] = @ \cup {s}]
      BY <1>2, <2>3 DEF Execute
    <3>2. CoordT' /\ RowT'
      BY <2>1, <3>1 DEF PeerFrame, coord, db, CoordT, RowT
    <3>3. CASE gate(s) # "done" /\ Running
      <4>1. \E pc \in {"store", "complete"} : Send(p, pc, s)
        BY <1>2, <2>3, <3>3 DEF Execute
      <4>. QED
        BY <1>0, <2>1, <3>2, <4>1, SendType
    <3>4. CASE ~(gate(s) # "done" /\ Running)
      <4>1. \E q \in {PeerAt(p, "finished", 0, 0), SendFailed(p, s)} :
               peer' = [peer EXCEPT ![p] = q] /\ req' = req
        BY <1>2, <2>3, <3>4 DEF Execute
      <4>2. \A q \in {PeerAt(p, "finished", 0, 0), SendFailed(p, s)} : PeerOK(q)
        BY <1>0, <2>1, PeerAtType, SendFailedOK DEF PeerT, PeerOK
      <4>. QED
        BY <2>1, <3>2, <4>1, <4>2, MoveType DEF n
    <3>. QED
      BY <3>3, <3>4
  <2>. QED
    BY <2>2, <2>3
<1>3. CASE RequestLost(p)
  <2>. DEFINE q == SendFailed(p, req[n].cmd)
  <2>1. /\ req' = [req EXCEPT ![n] = NoReq] /\ peer' = [peer EXCEPT ![p] = q]
        /\ req[n].pc # "free" /\ CoordT' /\ RowT'
    BY <1>f, <1>3 DEF RequestLost, n
  <2>2. PeerOK(q)
    BY <1>0, <2>1, SendFailedOK
  <2>. HIDE DEF q
  <2>3. Reply(n, q)
    BY <2>1 DEF Reply, n
  <2>. QED
    BY <1>0, <2>1, <2>2, <2>3, ReplyType
<1>4. CASE RequestTimesOut(p)
  <2>1. /\ req' = [req EXCEPT ![l] = req[n], ![n] = NoReq]
        /\ peer' = [peer EXCEPT ![p] = SendFailed(p, req[n].cmd)]
        /\ CoordT' /\ RowT' /\ req[n].pc # "free"
    BY <1>f, <1>4 DEF RequestTimesOut, n, l
  <2>2. ReqT'
    BY <1>0, <2>1, RequestType DEF ReqT, NoReq
  <2>3. peer[p].pc \in {"idle", "await", "exec"}
    BY <1>0, <2>1
  <2>4. PeerT'
    BY <1>0, <2>1, <2>3, SendFailedOK, PeerUpdate
  <2>5. AwaitT'
    BY <1>0, <2>1 DEF AwaitT, ReqT, PeerT, n, l, NoReq, Slots
  <2>. QED
    BY <2>1, <2>2, <2>4, <2>5
<1>5. CASE GiveUp(p)
  <2>1. /\ peer' = [peer EXCEPT ![p] = PeerAt(p, "leaving", 0, 0)] /\ req' = req
        /\ peer[p].pc # "await" /\ CoordT' /\ RowT'
    BY <1>f, <1>5 DEF GiveUp
  <2>2. PeerOK(PeerAt(p, "leaving", 0, 0))
    BY <1>0, PeerAtType DEF PeerT, PeerOK
  <2>. QED
    BY <1>0, <2>1, <2>2, MoveType DEF n
<1>6. CASE ReportDeparture(p)
  <2>. DEFINE q == [peer[p] EXCEPT !.pc = "left"]
  <2>1. /\ peer' = [peer EXCEPT ![p] = q] /\ req' = req /\ peer[p].pc # "await"
    BY <1>6 DEF ReportDeparture
  <2>2. CoordT' /\ RowT'
    BY <1>6 DEF ReportDeparture, db, CoordT, RowT
  <2>3. PeerOK(q)
    BY <1>0 DEF PeerOK, PeerLoop
  <2>. QED
    BY <1>0, <2>1, <2>2, <2>3, MoveType DEF n
<1>7. CASE Die(p)
  <2>1. /\ peer' = [peer EXCEPT ![p] = PeerAt(p, "dead", 0, 0)] /\ req' = req
        /\ peer[p].pc # "await" /\ CoordT' /\ RowT'
    BY <1>f, <1>7 DEF Die
  <2>2. PeerOK(PeerAt(p, "dead", 0, 0))
    BY <1>0, PeerAtType DEF PeerT, PeerOK
  <2>. QED
    BY <1>0, <2>1, <2>2, MoveType DEF n
<1>. QED
  BY <1>1, <1>2, <1>3, <1>4, <1>5, <1>6, <1>7 DEF PeerStep

(* The coordinator's loop keeps the types.                                 *)
LEMMA LoopType ==
  ASSUME TypeInv, Loop \/ Stranded
  PROVE  TypeInv'
<1>. USE DEF TypeInv
<1>0. UNCHANGED <<up, crashes, known, connected, departed, peer, executed, req>>
  BY DEF Loop, LoopRead, LoopGate, LoopSave, LoopClear, LoopPerform, LoopFail,
         LoopAdvance, LoopComplete, Stranded, LoopFrame
<1>1. ReqT' /\ PeerT' /\ AwaitT'
  BY <1>0 DEF ReqT, PeerT, PeerOK, AwaitT
<1>2. /\ loop.pc \notin {"read", "ended"} => loop.cur \in 1..Last
      /\ 0 \in 0..Last /\ step \in 0..Last /\ step # 0
  BY StepsType DEF CoordT
<1>3. \A s \in 1..Last : Steps[s].takes \in 0..Last /\ Steps[s].gives \in 0..Last
  BY StepsType
<1>4. CASE LoopRead
  BY <1>0, <1>1, <1>2, <1>4 DEF LoopRead, db, CoordT, RowT
<1>5. CASE LoopGate
  <2>1. /\ step' \in 1..Last /\ completed' \subseteq Peers /\ RowT'
        /\ own' \subseteq 0..Last /\ loop' = NoLoop
        /\ UNCHANGED <<status, data, payload, art, done>>
    BY <1>2, <1>5, AdvanceType DEF LoopGate, advance_step_if, CoordT, RowT
  <2>2. CoordT'
    BY <1>0, <1>2, <2>1 DEF CoordT, NoLoop
  <2>. QED
    BY <1>1, <2>1, <2>2
<1>6. CASE LoopSave
  <2>. DEFINE g == Steps[loop.cur].takes
  <2>1. /\ g \in 0..Last
        /\ UNCHANGED <<status, step, completed, data, payload, done, row>>
        /\ loop' = [loop EXCEPT !.pc = "clear"] /\ loop.cur # 0
        /\ own' = own \/ own' = own \cup {g}
    BY <1>2, <1>3, <1>6 DEF LoopSave, LoopGoto
  <2>2. art' \in [1..Last -> [Peers -> 0..Last]]
    <3>1. CASE g = 0
      BY <1>6, <3>1 DEF LoopSave, CoordT
    <3>2. CASE g # 0
      <4>1. g \in 1..Last
        BY <2>1, <3>2, StepsType
      <4>2. [p \in Peers |-> IF data[p] = 0 THEN art[g][p] ELSE data[p]]
               \in [Peers -> 0..Last]
        BY <4>1 DEF CoordT
      <4>3. art' = [art EXCEPT ![g] = [p \in Peers |->
                       IF data[p] = 0 THEN art[g][p] ELSE data[p]]]
        BY <1>6, <3>2 DEF LoopSave
      <4>. HIDE DEF g
      <4>. QED
        BY <4>1, <4>2, <4>3 DEF CoordT
    <3>. QED
      BY <3>1, <3>2
  <2>. HIDE DEF g
  <2>. QED
    BY <1>0, <1>1, <2>1, <2>2 DEF CoordT, RowT
<1>7. CASE LoopClear
  <2>1. /\ UNCHANGED <<status, step, completed, payload, own, art, done, row>>
        /\ loop' = [loop EXCEPT !.pc = "perform"] /\ loop.cur # 0
    BY <1>2, <1>7 DEF LoopClear, LoopGoto, db
  <2>2. data' \in [Peers -> 0..Last]
    BY <1>2, <1>7 DEF LoopClear, CoordT
  <2>. QED
    BY <1>0, <1>1, <2>1, <2>2 DEF CoordT, RowT
<1>8. CASE LoopPerform
  <2>1. /\ UNCHANGED <<status, step, completed, data, own, art, row>>
        /\ loop' = [loop EXCEPT !.pc = "advance"] /\ loop.cur # 0
        /\ done' = done \cup {loop.cur}
    BY <1>2, <1>8 DEF LoopPerform, LoopGoto
  <2>2. payload' \in 0..Last /\ loop.cur \in 1..Last
    BY <1>2, <1>3, <1>8 DEF LoopPerform, CoordT
  <2>. QED
    BY <1>0, <1>1, <2>1, <2>2 DEF CoordT, RowT
<1>9. CASE LoopAdvance
  <2>1. /\ step' \in 1..Last /\ completed' \subseteq Peers /\ RowT'
        /\ loop' = NoLoop /\ UNCHANGED <<status, data, payload, own, art, done>>
    BY <1>9, AdvanceType DEF LoopAdvance
  <2>2. CoordT'
    BY <1>0, <1>2, <2>1 DEF CoordT, NoLoop
  <2>. QED
    BY <1>1, <2>1, <2>2
<1>10. CASE LoopComplete
  <2>1. /\ UNCHANGED <<step, completed, data, payload, art, done, row>>
        /\ loop' = [loop EXCEPT !.pc = "ended"] /\ status' = "completed"
        /\ own' = own \/ own' = own \cup {loop.cur}
    BY <1>10 DEF LoopComplete, LoopGoto
  <2>. QED
    BY <1>0, <1>1, <2>1 DEF CoordT, RowT
<1>11. CASE LoopFail \/ Stranded
  <2>1. /\ UNCHANGED <<step, completed, data, payload, own, art, done, row>>
        /\ loop' = [loop EXCEPT !.pc = "ended"] /\ status' = "failed"
    BY <1>11 DEF LoopFail, Stranded, LoopGoto, db
  <2>. QED
    BY <1>0, <1>1, <2>1 DEF CoordT, RowT
<1>. QED
  BY <1>4, <1>5, <1>6, <1>7, <1>8, <1>9, <1>10, <1>11 DEF Loop

(* A crash and the restart keep the types.                                 *)
LEMMA CrashType ==
  ASSUME TypeInv, Crash \/ Restart
  PROVE  TypeInv'
<1>. USE DEF TypeInv
<1>1. CASE Crash
  <2>a. crashes' \in 0..MaxCrashes /\ MaxCrashes \in Nat
    BY <1>1, SwitchAssumption DEF Crash, CoordT
  <2>b. 1 \in 1..Last /\ 0 \in 0..Last
    BY StepsType
  <2>c. data' \in [Peers -> 0..Last] /\ payload' \in 0..Last
    BY <1>1, <2>b DEF Crash
  <2>1. CoordT' /\ RowT'
    BY <1>1, <2>a, <2>b, <2>c DEF Crash, CoordT, RowT, db, NoLoop
  <2>2. ReqT'
    BY <1>1, RequestType DEF Crash, ReqT, NoReq
  <2>3. peer' = [p \in Peers |-> IF peer[p].pc = "await"
                                THEN SendFailed(p, req[<<p, "now">>].cmd)
                                ELSE peer[p]]
    BY <1>1 DEF Crash
  <2>4. \A p \in Peers : PeerOK(peer'[p])
    BY <2>3, SendFailedOK DEF PeerT
  <2>5. PeerT'
    BY <2>3, <2>4 DEF PeerT, PeerOK
  <2>6. AwaitT'
    BY <1>1 DEF Crash, AwaitT, NoReq, Slots
  <2>. QED
    BY <2>1, <2>2, <2>5, <2>6
<1>2. CASE Restart
  <2>1. RowT' /\ step' \in 1..Last /\ completed' \subseteq Peers
    BY <1>2, StepsType DEF Restart, Resume, StartAfresh, RowT
  <2>0. known' \in BOOLEAN
    BY <1>2, Zenon DEF Restart, Resume, StartAfresh
  <2>2. CoordT'
    BY <1>2, <2>0, <2>1, InitialPayloadType DEF Restart, Recover, CoordT
  <2>. QED
    BY <1>2, <2>1, <2>2 DEF Restart, Recover, ReqT, PeerT, PeerOK, AwaitT
<1>. QED
  BY <1>1, <1>2

LEMMA TypeInvNext == TypeInv /\ [Next]_vars => TypeInv'
<1>. SUFFICES ASSUME TypeInv, [Next]_vars PROVE TypeInv'
  OBVIOUS
<1>1. CASE UNCHANGED vars
  BY <1>1 DEF vars, coord, db, TypeInv, CoordT, RowT, ReqT, PeerT, PeerOK, AwaitT
<1>2. CASE Next
  BY <1>2, HandleType, PeerStepType, LoopType, CrashType DEF Next, PeerStep
<1>. QED
  BY <1>1, <1>2

----------------------------------------------------------------------------
(* Safety.                                                                 *)

(* The quorum is a number, and no less than what the party needs: a run    *)
(* whose row could not be read waits for every peer.                       *)
LEMMA QuorumInt ==
  /\ peers_quorum \in Int /\ resolve_peer_threshold \in Int
  /\ peers_quorum >= resolve_peer_threshold
<1>1. Cardinality(Peers) \in Nat /\ Cardinality(Peers) >= 1
  BY PeersAssumption, FS_CardinalityType, FS_EmptySet
<1>. QED
  BY <1>1, ThresholdAssumption
  DEF peers_quorum, resolve_peer_threshold, peers_for_party_threshold, Clamp

(* An open gate stays open while peers only connect and complete: what     *)
(* maybe_advance relies on between counting and advance_step_if.           *)
LEMMA ReadyGrows ==
  ASSUME connected' \subseteq Peers, completed' \subseteq Peers,
         connected \subseteq connected', completed \subseteq completed',
         known' = known, NEW s, Ready(s)
  PROVE  Ready(s)'
<1>1. /\ IsFiniteSet(connected') /\ IsFiniteSet(completed')
  BY PeersAssumption, FS_Subset
<1>2. /\ Cardinality(connected) <= Cardinality(connected')
      /\ Cardinality(completed) <= Cardinality(completed')
  BY <1>1, FS_Subset
<1>3. /\ Cardinality(connected) \in Nat /\ Cardinality(connected') \in Nat
      /\ Cardinality(completed) \in Nat /\ Cardinality(completed') \in Nat
  BY <1>1, FS_Subset, FS_CardinalityType
<1>. QED
  BY <1>2, <1>3, QuorumInt DEF Ready, gate, peers_quorum

(* What handlers have read stays good while the step stays.                *)
LEMMA RequestsSafe ==
  ASSUME IInv, known' = known, step' = step, connected' \subseteq Peers,
         completed' \subseteq Peers,
         connected \subseteq connected', completed \subseteq completed',
         \A j \in Slots :
            \/ \E k \in Slots : req'[j] = req[k]
            \/ req'[j].pc \notin {"check", "cas"}
            \/ req'[j].pc = "check" /\ req'[j].cur <= step
            \/ req'[j].pc = "cas" /\ req'[j].cur <= step /\ Ready(req'[j].cur)
  PROVE  CurInv' /\ CasInv'
<1>1. \A s \in 1..Last : Ready(s) => Ready(s)'
  BY ReadyGrows
<1>2. Ready(step) => Ready(step)'
  BY <1>1 DEF IInv, TypeInv, CoordT, Ready, gate
<1>3. \A j \in Slots : req'[j].pc = "cas" /\ req'[j].cur = step => Ready(step)
  BY DEF IInv, CasInv
<1>4. CurInv'
  BY DEF IInv, CurInv
<1>5. CasInv'
  <2>. SUFFICES ASSUME NEW j \in Slots, req'[j].pc = "cas" /\ req'[j].cur = step'
                PROVE  Ready(step)'
    BY DEF CasInv
  <2>. QED
    BY <1>2, <1>3
<1>. QED
  BY <1>4, <1>5

(* Advancing from a gate, or from a coordinator's step that is done, skips *)
(* no coordinator's step and writes no row ahead of the memory.            *)
LEMMA AdvanceSafe ==
  ASSUME IInv, up, up' = up, done' = done, Advance,
         gate(step) # "coord" \/ step \in done
  PROVE  /\ (step' = step /\ completed' = completed) \/ step' = step + 1
         /\ NoStepSkipped' /\ RowNotAhead'
<1>. USE DEF IInv, TypeInv, RowT
<1>0. step \in Nat /\ step >= 1
  BY StepsType DEF CoordT
<1>1. CASE step < Last
  <2>1. step' = step + 1 /\ completed' = {} /\ Persist(step + 1, {})
    BY <1>1 DEF Advance
  <2>2. \/ row' = [step |-> step + 1, completed |-> {}, age |-> "current"]
        \/ row' = row
    BY <2>1 DEF Persist
  <2>3. NoStepSkipped'
    BY <1>0, <2>1, <2>2, StepsType DEF NoStepSkipped, gate, Last, Steps
  <2>4. RowNotAhead'
    BY <1>0, <2>1, <2>2, StepsType DEF RowNotAhead
  <2>. QED
    BY <2>1, <2>3, <2>4
<1>2. CASE ~(step < Last)
  <2>1. UNCHANGED <<step, completed, row>>
    BY <1>2 DEF Advance
  <2>. QED
    BY <2>1 DEF NoStepSkipped, RowNotAhead, gate, Last, Steps
<1>. QED
  BY <1>1, <1>2

(* A step past the gate leaves nothing a handler could still act on.       *)
LEMMA RequestsPast ==
  ASSUME IInv, step' = step + 1,
         \A j \in Slots : \/ \E k \in Slots : req'[j] = req[k]
                          \/ req'[j].pc \notin {"check", "cas"}
  PROVE  CurInv' /\ CasInv'
<1>1. step \in Nat /\ \A k \in Slots : req[k].cur \in Nat
  BY StepsType DEF IInv, TypeInv, CoordT, ReqT, Request
<1>2. \A j \in Slots : req'[j].pc \in {"check", "cas"} => req'[j].cur < step'
  BY <1>1 DEF IInv, CurInv
<1>. QED
  BY <1>1, <1>2 DEF CurInv, CasInv

(* What is left alone stays true.                                          *)
LEMMA RowSafe ==
  ASSUME IInv, up' = up, step' = step, row' = row, completed \subseteq completed',
         done \subseteq done'
  PROVE  NoStepSkipped' /\ RowNotAhead'
  BY DEF IInv, NoStepSkipped, RowNotAhead, gate

(* The handlers keep the invariant.                                        *)
LEMMA HandleSafe ==
  ASSUME IInv, NEW i \in Slots, Handle(i), TypeInv'
  PROVE  IInv'
<1>0. up /\ up' = up /\ known' = known /\ loop' = loop /\ done' = done /\ DownInv'
  BY DEF Handle, Connect, StorePeerData, PeerCompleted, EvalStep, CheckGate,
         AdvanceStepIf, AnswerCompleted, AnswerCommand, AnswerPayload,
         HandlerFrame, Serving, Running, DownInv
<1>1. /\ req \in [Slots -> Request] /\ req[i] \in Request
      /\ connected' \subseteq Peers /\ completed' \subseteq Peers
      /\ step \in Nat
  BY StepsType DEF IInv, TypeInv, CoordT, ReqT
<1>2. step' = step => LoopInv'
  BY <1>0 DEF IInv, LoopInv, gate
<1>. DEFINE Quiet == \A j \in Slots : \/ \E k \in Slots : req'[j] = req[k]
                                      \/ req'[j].pc \notin {"check", "cas"}
<1>a. ASSUME NEW r, req' = [req EXCEPT ![i] = r], r.pc \notin {"check", "cas"}
      PROVE  Quiet
  BY <1>1, <1>a
<1>b. Reply(i, Idle(i[1])) \/ AfterEval(i) => Quiet
  BY <1>a DEF Reply, AfterEval, NoReq
<1>c. ASSUME NEW pc \in {"eval", "complete", "command"}, Goto(i, pc)
      PROVE  Quiet
  <2>. DEFINE r == [req[i] EXCEPT !.pc = pc]
  <2>1. req' = [req EXCEPT ![i] = r]
    BY <1>c DEF Goto
  <2>2. r.pc = pc
    BY <1>1 DEF Request
  <2>. HIDE DEF r
  <2>. QED
    BY <2>1, <2>2, <1>a
<1>. HIDE DEF Quiet
<1>d. ASSUME Quiet, UNCHANGED <<step, row>>, connected \subseteq connected',
             completed \subseteq completed'
      PROVE  IInv'
  <2>1. CurInv' /\ CasInv'
    BY <1>0, <1>1, <1>d, RequestsSafe DEF Quiet
  <2>. QED
    BY <1>0, <1>2, <1>d, <2>1, RowSafe DEF IInv
<1>3. CASE Connect(i)
  BY <1>3, <1>c, <1>d DEF Connect
<1>4. CASE StorePeerData(i)
  BY <1>4, <1>c, <1>d DEF StorePeerData
<1>5. CASE PeerCompleted(i)
  <2>1. /\ completed' = completed \cup {i[1]} /\ Quiet
        /\ UNCHANGED <<step, connected>>
        /\ \/ row' = row
           \/ row' = [step |-> step, completed |-> completed', age |-> "current"]
    BY <1>5, <1>c DEF PeerCompleted, Persist
  <2>2. CurInv' /\ CasInv'
    BY <1>0, <1>1, <2>1, RequestsSafe DEF Quiet
  <2>3. NoStepSkipped' /\ RowNotAhead'
    BY <1>0, <1>1, <2>1 DEF IInv, NoStepSkipped, RowNotAhead, gate
  <2>. QED
    BY <1>0, <1>2, <2>1, <2>2, <2>3 DEF IInv
<1>6. CASE EvalStep(i)
  <2>1. /\ req' = [req EXCEPT ![i].pc = "check", ![i].cur = step]
        /\ UNCHANGED <<step, connected, completed, row>>
    BY <1>6 DEF EvalStep
  <2>2. /\ req'[i].pc = "check" /\ req'[i].cur = step
        /\ \A j \in Slots \ {i} : req'[j] = req[j]
    BY <1>1, <2>1 DEF Request
  <2>3. CurInv' /\ CasInv'
    BY <1>0, <1>1, <2>1, <2>2, RequestsSafe
  <2>. QED
    BY <1>0, <1>2, <2>1, <2>3, RowSafe DEF IInv
<1>7. CASE CheckGate(i)
  <2>1. UNCHANGED <<step, connected, completed, row>> /\ req[i].pc = "check"
    BY <1>7 DEF CheckGate, Serving
  <2>2. CASE Ready(req[i].cur)
    <3>1. req' = [req EXCEPT ![i].pc = "cas"]
      BY <1>7, <2>2 DEF CheckGate, Goto
    <3>2. /\ req'[i].pc = "cas" /\ req'[i].cur = req[i].cur
          /\ \A j \in Slots \ {i} : req'[j] = req[j]
      BY <1>1, <3>1 DEF Request
    <3>3. req'[i].cur <= step /\ Ready(req'[i].cur)
      BY <2>1, <2>2, <3>2 DEF IInv, CurInv
    <3>4. CurInv' /\ CasInv'
      BY <1>0, <1>1, <2>1, <3>2, <3>3, RequestsSafe
    <3>. QED
      BY <1>0, <1>2, <2>1, <3>4, RowSafe DEF IInv
  <2>3. CASE ~Ready(req[i].cur)
    BY <1>7, <1>b, <1>d, <2>1, <2>3 DEF CheckGate
  <2>. QED
    BY <2>2, <2>3
<1>8. CASE AdvanceStepIf(i)
  <2>1. /\ req[i].pc = "cas" /\ UNCHANGED connected /\ Quiet
        /\ advance_step_if(req[i].cur)
    BY <1>8, <1>b DEF AdvanceStepIf, Serving
  <2>2. CASE req[i].cur = step
    <3>1. Ready(step) /\ Advance
      BY <2>1, <2>2 DEF IInv, CasInv, advance_step_if
    <3>2. gate(step) # "coord"
      BY <3>1 DEF Ready
    <3>3. /\ (step' = step /\ completed' = completed) \/ step' = step + 1
          /\ NoStepSkipped' /\ RowNotAhead'
      BY <1>0, <3>1, <3>2, AdvanceSafe
    <3>4. CurInv' /\ CasInv'
      BY <1>0, <1>1, <2>1, <3>3, RequestsSafe, RequestsPast DEF Quiet
    <3>5. LoopInv'
      <4>1. loop.pc \notin {"clear", "perform", "advance"}
        BY <3>2 DEF IInv, LoopInv
      <4>2. ~(loop.pc = "arm" /\ gate(loop.cur) = "coord")
        BY <3>2 DEF IInv, LoopInv
      <4>. QED
        BY <1>0, <4>1, <4>2 DEF LoopInv, gate
    <3>. QED
      BY <1>0, <3>3, <3>4, <3>5 DEF IInv
  <2>3. CASE req[i].cur # step
    BY <1>d, <2>1, <2>3 DEF advance_step_if
  <2>. QED
    BY <2>2, <2>3
<1>9. CASE AnswerCompleted(i)
  BY <1>9, <1>b, <1>c, <1>d DEF AnswerCompleted
<1>10. CASE AnswerCommand(i)
  <2>1. UNCHANGED <<step, connected, completed, row>>
    BY <1>10 DEF AnswerCommand
  <2>2. CASE Steps[step].cmd
    <3>1. req' = [req EXCEPT ![i].pc = "payload", ![i].cur = step]
      BY <1>10, <2>2 DEF AnswerCommand
    <3>2. req'[i].pc = "payload" /\ \A j \in Slots \ {i} : req'[j] = req[j]
      BY <1>1, <3>1 DEF Request
    <3>. QED
      BY <1>d, <2>1, <3>2 DEF Quiet
  <2>3. CASE ~Steps[step].cmd
    BY <1>10, <1>b, <1>d, <2>1, <2>3 DEF AnswerCommand
  <2>. QED
    BY <2>2, <2>3
<1>11. CASE AnswerPayload(i)
  <2>1. /\ UNCHANGED <<step, connected, completed, row>>
        /\ req' = [req EXCEPT ![i] = NoReq] /\ NoReq.pc = "free"
    BY <1>11 DEF AnswerPayload, Reply, NoReq
  <2>. QED
    BY <1>a, <1>d, <2>1
<1>. QED
  BY <1>3, <1>4, <1>5, <1>6, <1>7, <1>8, <1>9, <1>10, <1>11 DEF Handle

(* The peers' loops keep the invariant: they write no state of the         *)
(* coordinator but the departed peers.                                     *)
LEMMA PeerStepSafe ==
  ASSUME IInv, NEW p \in Peers, PeerStep(p), TypeInv'
  PROVE  IInv'
<1>. DEFINE n == <<p, "now">>
            l == <<p, "late">>
<1>1. n \in Slots /\ l \in Slots /\ n # l /\ req \in [Slots -> Request]
  BY DEF Slots, IInv, TypeInv, ReqT
<1>. HIDE DEF n, l
<1>2. UNCHANGED <<up, known, step, connected, completed, loop, done, row>>
  BY DEF PeerStep, Poll, Execute, RequestLost, RequestTimesOut, GiveUp,
         ReportDeparture, Die, PeerFrame, coord, db
<1>3. \A j \in Slots : \/ \E k \in Slots : req'[j] = req[k]
                       \/ req'[j].pc \in {"free", "connect", "store", "complete"}
  <2>1. CASE Poll(p)
    BY <1>1, <2>1 DEF Poll, Send, n
  <2>2. CASE Execute(p)
    BY <1>1, <2>2 DEF Execute, RetryPeerStep, Send, n
  <2>3. CASE RequestLost(p)
    BY <1>1, <2>3 DEF RequestLost, NoReq, n
  <2>4. CASE RequestTimesOut(p)
    BY <1>1, <2>4 DEF RequestTimesOut, NoReq, n, l
  <2>5. CASE GiveUp(p) \/ ReportDeparture(p) \/ Die(p)
    BY <2>5 DEF GiveUp, ReportDeparture, Die
  <2>. QED
    BY <2>1, <2>2, <2>3, <2>4, <2>5 DEF PeerStep
<1>4. CurInv' /\ CasInv'
  BY <1>2, <1>3, RequestsSafe DEF IInv, TypeInv, CoordT
<1>5. LoopInv'
  BY <1>2 DEF IInv, LoopInv, gate
<1>6. DownInv'
  <2>1. up => DownInv'
    BY <1>2 DEF DownInv
  <2>2. ~up => req' = req
    <3>. SUFFICES ASSUME ~up PROVE req' = req
      OBVIOUS
    <3>1. req[n].pc = "free" /\ ~Running
      BY <1>1 DEF IInv, DownInv, Running
    <3>. QED
      BY <3>1 DEF PeerStep, Poll, Execute, RetryPeerStep, RequestLost,
                  RequestTimesOut, GiveUp, ReportDeparture, Die, n
  <2>. QED
    BY <1>2, <2>1, <2>2 DEF IInv, DownInv
<1>. QED
  BY <1>2, <1>4, <1>5, <1>6, RowSafe DEF IInv

(* The coordinator's loop keeps the invariant.                             *)
LEMMA LoopSafe ==
  ASSUME IInv, Loop \/ Stranded, TypeInv'
  PROVE  IInv'
<1>0. /\ up /\ up' = up /\ UNCHANGED <<known, connected, req>> /\ DownInv'
      /\ loop \in [pc : {"read", "arm", "clear", "perform", "advance", "ended"},
                   cur : 0..Last]
  BY DEF Loop, LoopRead, LoopGate, LoopSave, LoopClear, LoopPerform, LoopFail,
         LoopAdvance, LoopComplete, Stranded, LoopFrame, Running, DownInv, IInv,
         TypeInv, CoordT
<1>1. ASSUME UNCHANGED <<step, completed, row>>, done \subseteq done', LoopInv'
      PROVE  IInv'
  <2>1. CurInv' /\ CasInv'
    BY <1>0, <1>1, RequestsSafe DEF IInv, TypeInv, CoordT
  <2>. QED
    BY <1>0, <1>1, <2>1, RowSafe DEF IInv
<1>2. ASSUME Advance, gate(step) # "coord" \/ step \in done, done' = done,
             loop' = NoLoop
      PROVE  IInv'
  <2>1. /\ (step' = step /\ completed' = completed) \/ step' = step + 1
        /\ NoStepSkipped' /\ RowNotAhead'
    BY <1>0, <1>2, AdvanceSafe
  <2>2. CurInv' /\ CasInv'
    BY <1>0, <2>1, RequestsSafe, RequestsPast DEF IInv, TypeInv, CoordT
  <2>3. LoopInv'
    BY <1>2 DEF LoopInv, NoLoop
  <2>. QED
    BY <1>0, <2>1, <2>2, <2>3 DEF IInv
<1>3. CASE LoopRead
  <2>1. /\ loop' = [pc |-> "arm", cur |-> step]
        /\ UNCHANGED <<step, completed, done, row>>
    BY <1>3 DEF LoopRead, db
  <2>. QED
    BY <1>1, <2>1 DEF LoopInv, gate
<1>4. CASE LoopGate
  <2>1. loop' = NoLoop /\ done' = done /\ gate(loop.cur) # "coord"
    BY <1>4 DEF LoopGate
  <2>2. CASE coordinator_only /\ loop.cur = step
    BY <1>2, <1>4, <2>1, <2>2 DEF LoopGate, advance_step_if
  <2>3. CASE ~(coordinator_only /\ loop.cur = step)
    <3>1. UNCHANGED <<step, completed, row>>
      BY <1>4, <2>3 DEF LoopGate, advance_step_if
    <3>2. LoopInv'
      BY <2>1 DEF LoopInv, NoLoop
    <3>. QED
      BY <1>1, <2>1, <3>1, <3>2
  <2>. QED
    BY <2>2, <2>3
<1>5. CASE LoopSave
  <2>1. /\ loop' = [loop EXCEPT !.pc = "clear"] /\ loop.pc = "arm"
        /\ gate(loop.cur) = "coord" /\ UNCHANGED <<step, completed, done, row>>
    BY <1>5 DEF LoopSave, LoopGoto
  <2>. QED
    BY <1>0, <1>1, <2>1 DEF IInv, LoopInv, gate
<1>6. CASE LoopClear
  <2>1. /\ loop' = [loop EXCEPT !.pc = "perform"] /\ loop.pc = "clear"
        /\ UNCHANGED <<step, completed, done, row>>
    BY <1>6 DEF LoopClear, LoopGoto, db
  <2>. QED
    BY <1>0, <1>1, <2>1 DEF IInv, LoopInv, gate
<1>7. CASE LoopPerform
  <2>1. /\ loop' = [loop EXCEPT !.pc = "advance"] /\ loop.pc = "perform"
        /\ done' = done \cup {loop.cur} /\ UNCHANGED <<step, completed, row>>
    BY <1>7 DEF LoopPerform, LoopGoto
  <2>. QED
    BY <1>0, <1>1, <2>1 DEF IInv, LoopInv, gate
<1>8. CASE LoopAdvance
  <2>1. Advance /\ loop' = NoLoop /\ done' = done /\ loop.pc = "advance"
    BY <1>8 DEF LoopAdvance
  <2>2. step \in done
    BY <2>1 DEF IInv, LoopInv
  <2>. QED
    BY <1>2, <2>1, <2>2
<1>9. CASE LoopFail \/ LoopComplete \/ Stranded
  <2>1. loop' = [loop EXCEPT !.pc = "ended"] /\ UNCHANGED <<step, completed, done, row>>
    BY <1>9 DEF LoopFail, LoopComplete, Stranded, LoopGoto, db
  <2>2. loop'.pc = "ended"
    BY <1>0, <2>1
  <2>. QED
    BY <1>1, <2>1, <2>2 DEF LoopInv
<1>. QED
  BY <1>3, <1>4, <1>5, <1>6, <1>7, <1>8, <1>9 DEF Loop

(* A crash leaves the row; a restart comes back to it or passes it over.   *)
LEMMA CrashSafe ==
  ASSUME IInv, Crash \/ Restart, TypeInv'
  PROVE  IInv'
<1>1. CASE Crash
  <2>1. /\ up' = FALSE /\ loop' = NoLoop /\ UNCHANGED <<done, row>>
        /\ \A i \in Slots : req'[i].pc = "free"
    BY <1>1 DEF Crash, db, NoReq
  <2>2. CurInv' /\ CasInv' /\ LoopInv' /\ DownInv'
    BY <2>1 DEF CurInv, CasInv, LoopInv, DownInv, NoLoop
  <2>3. NoStepSkipped' /\ RowNotAhead'
    BY <2>1 DEF IInv, NoStepSkipped, RowNotAhead, gate
  <2>. QED
    BY <2>2, <2>3 DEF IInv
<1>2. CASE Restart
  <2>1. /\ ~up /\ up' /\ UNCHANGED <<loop, req, done>>
        /\ \/ step' = row.step /\ completed' = row.completed
           \/ step' = 1 /\ row'.age = "stale"
        /\ row'.step = row.step /\ row'.completed = row.completed
    BY <1>2 DEF Restart, Recover, Resume, StartAfresh, IInv, TypeInv, RowT
  <2>2. loop.pc = "read" /\ \A i \in Slots : req[i].pc = "free"
    BY <2>1 DEF IInv, DownInv
  <2>3. CurInv' /\ CasInv' /\ LoopInv' /\ DownInv'
    BY <2>1, <2>2 DEF CurInv, CasInv, LoopInv, DownInv
  <2>4. NoStepSkipped' /\ RowNotAhead'
    BY <2>1, StepsType DEF IInv, TypeInv, RowT, NoStepSkipped, RowNotAhead, gate
  <2>. QED
    BY <2>3, <2>4 DEF IInv
<1>. QED
  BY <1>1, <1>2

LEMMA IInvNext == IInv /\ [Next]_vars => IInv'
<1>. SUFFICES ASSUME IInv, [Next]_vars PROVE IInv'
  OBVIOUS
<1>1. TypeInv'
  BY TypeInvNext DEF IInv
<1>2. CASE UNCHANGED vars
  BY <1>1, <1>2 DEF vars, coord, db, IInv, CurInv, CasInv, Ready, peers_quorum,
                    LoopInv, DownInv, NoStepSkipped, RowNotAhead, gate
<1>3. CASE Next
  BY <1>1, <1>3, HandleSafe, PeerStepSafe, LoopSafe, CrashSafe DEF Next, PeerStep
<1>. QED
  BY <1>2, <1>3

----------------------------------------------------------------------------
(* For every workflow kind, set of peers and party threshold, and whatever *)
(* is lost, delayed, fails or crashes: the state has its type, no step of  *)
(* the coordinator is skipped, in memory or in the row a restart resumes   *)
(* from, and, once the machine that a start put in place has written its   *)
(* row, the row never runs ahead of the memory it is written from.         *)
THEOREM RunSafety == Spec => [](TypeOK /\ NoStepSkipped /\ RowNotAhead)
<1>1. Spec => []IInv
  BY InitIInv, IInvNext, PTL DEF Spec
<1>2. IInv => TypeOK /\ NoStepSkipped /\ RowNotAhead
  BY TypeInvTypeOK DEF IInv
<1>. QED
  BY <1>1, <1>2, PTL

(* How the machine moves.                                                  *)
Moves == up /\ up' /\ step' # step =>
            /\ step' = step + 1
            /\ \/ Ready(step)
               \/ gate(step) # "coord" /\ coordinator_only
               \/ gate(step) = "coord" /\ loop.cur = step /\ step \in done

(* Every step moves it so.                                                 *)
LEMMA GatesStep == ASSUME IInv, Next PROVE Moves
<1>. SUFFICES ASSUME up, up', step' # step
              PROVE  /\ step' = step + 1
                     /\ \/ Ready(step)
                        \/ gate(step) # "coord" /\ coordinator_only
                        \/ gate(step) = "coord" /\ loop.cur = step /\ step \in done
  BY DEF Moves
<1>0. Advance => step' = step + 1
  BY DEF Advance
<1>1. ASSUME NEW i \in Slots, Handle(i)
      PROVE  Ready(step) /\ Advance
  <2>1. AdvanceStepIf(i)
    BY <1>1 DEF Handle, Connect, StorePeerData, PeerCompleted, EvalStep,
                CheckGate, AnswerCompleted, AnswerCommand, AnswerPayload
  <2>2. req[i].pc = "cas" /\ req[i].cur = step /\ Advance
    BY <2>1 DEF AdvanceStepIf, Serving, advance_step_if
  <2>. QED
    BY <2>2 DEF IInv, CasInv
<1>2. ASSUME NEW p \in Peers, PeerStep(p)
      PROVE  FALSE
  BY <1>2 DEF PeerStep, Poll, Execute, RequestLost, RequestTimesOut, GiveUp,
              ReportDeparture, Die, PeerFrame, coord
<1>3. CASE Loop
  <2>1. LoopGate \/ LoopAdvance
    BY <1>3 DEF Loop, LoopRead, LoopSave, LoopClear, LoopPerform, LoopFail,
                LoopComplete
  <2>2. CASE LoopGate
    BY <1>0, <2>2 DEF LoopGate, advance_step_if
  <2>3. CASE LoopAdvance
    BY <1>0, <2>3 DEF LoopAdvance, IInv, LoopInv
  <2>. QED
    BY <2>1, <2>2, <2>3
<1>4. CASE Stranded \/ Crash \/ Restart
  BY <1>4 DEF Stranded, Crash, Restart, Recover
<1>. QED
  BY <1>0, <1>1, <1>2, <1>3, <1>4 DEF Next, PeerStep

(* Under the same faults, maybe_advance, advance_step_if and the loop's    *)
(* advance_step together move the machine one step at a time, out of a     *)
(* gate only with its quorum (or for a party of threshold 1), out of a     *)
(* coordinator's step only once the loop has carried it out.               *)
THEOREM GatesSafety == Spec => GatesRespected
<1>1. IInv /\ [Next]_vars => [Moves]_vars
  BY GatesStep
<1>2. Spec => []IInv
  BY InitIInv, IInvNext, PTL DEF Spec
<1>. QED
  BY <1>1, <1>2, PTL DEF Spec, GatesRespected, Moves

(* The row never runs ahead of the memory it is written from, in any kind, *)
(* whatever is lost, fails or restarts: only a row that NoiseServer::new   *)
(* passed over, and that the new state machine has not written since, may. *)
THEOREM RowSafety == Spec => []RowNotAhead
  BY RunSafety, PTL

----------------------------------------------------------------------------
(* The kinds other than onboarding have one gate their peers are to open,  *)
(* so a late answer is an answer to that gate.                             *)

TheGate == [Kick |-> 4, ChangeThreshold |-> 4, Contracts |-> 3, Dars |-> 2][Kind]
OneGate == Kind # "Onboarding"

(* Are the answers uploads, that the coordinator's next step takes?        *)
Uploads == Steps[TheGate].reply = "upload"

(* What the step lists of those kinds have in common.                      *)
LEMMA OneGateSteps ==
  ASSUME OneGate
  PROVE  /\ TheGate \in 2..Last
         /\ \A s \in 1..Last :
              /\ gate(s) = "complete" <=> s = TheGate
              /\ Steps[s].reply = "upload" => s = TheGate
              /\ Steps[s].takes # 0 => Steps[s].takes = TheGate /\ s = TheGate + 1 /\ Uploads
              /\ Steps[s].cmd => s >= TheGate
         /\ Uploads => /\ TheGate + 1 < Last /\ gate(TheGate + 1) = "coord"
                       /\ Steps[TheGate + 1].takes = TheGate
<1>. USE DEF Last, Steps, StepsOf, WaitingForPeers, Complete, Gate, Coord, gate, TheGate,
             Uploads
<1>0. /\ RetireLegacyKeys.gate = "coord" /\ RetireLegacyKeys.cmd = TRUE
      /\ RetireLegacyKeys.reply = "status"
      /\ RetireLegacyKeys.takes = 0 /\ RetireLegacyKeys.gives = 0
  BY DEF RetireLegacyKeys
<1>1. CASE Kind = "Kick"            BY <1>0, <1>1 DEF KickSteps
<1>2. CASE Kind = "ChangeThreshold" BY <1>0, <1>2 DEF ChangeThresholdSteps
<1>3. CASE Kind = "Contracts"       BY <1>3 DEF ContractsSteps
<1>4. CASE Kind = "Dars"            BY <1>4 DEF DarsSteps
<1>. QED
  BY <1>1, <1>2, <1>3, <1>4, KindAssumption DEF Kinds, OneGate

(* What a handler has in hand: a command that was given, and of uploads,   *)
(* answers to the gate.                                                    *)
ReqFirst(r, s) ==
    /\ r.cmd <= s
    /\ r.pc = "store" => r.cmd = TheGate
    /\ r.pc = "complete" => r.cmd >= TheGate
    /\ r.pc = "payload" => r.cur <= s /\ Steps[r.cur].cmd

(* A peer carries out a command that was given.                            *)
PeerFirst(q, s) == q.pc = "exec" => q.cmd <= s /\ Steps[q.cmd].cmd

CmdInv == /\ \A i \in Slots : ReqFirst(req[i], step)
          /\ \A p \in Peers : PeerFirst(peer[p], step)

Uploaded == {p \in Peers : data[p] = TheGate}
Suffice(S) == coordinator_only \/ Cardinality(S) >= resolve_peer_threshold

(* An upload is stored before its sender is counted, and kept until the    *)
(* loop has saved it.                                                      *)
StoredInv ==
    \A i \in Slots : req[i].pc = "complete" /\ req[i].cmd = TheGate /\ step <= TheGate
                        => i[1] \in Uploaded
CountedInv == step = TheGate => completed \subseteq Uploaded
KeptInv == step = TheGate + 1 /\ loop.pc \in {"read", "arm"} => Suffice(Uploaded)
SavedInv == loop.pc \in {"clear", "perform"} /\ loop.cur = TheGate + 1
                => Suffice(Answers(TheGate))

DataInv == StoredInv /\ CountedInv /\ KeptInv /\ SavedInv

(* All this until the coordinator restarts.                                *)
FirstInv ==
    crashes = 0 => /\ up /\ CmdInv
                   /\ Uploads => DataInv

(* Before the coordinator's restart the step only grows.                   *)
LEMMA StepGrows ==
  ASSUME IInv, Next, up, up', TypeInv'
  PROVE  step \in Nat /\ step' \in Nat /\ step <= step'
<1>1. step \in 1..Last /\ step' \in 1..Last /\ Last \in Nat
  BY StepsType DEF IInv, TypeInv, CoordT
<1>. QED
  BY <1>1, GatesStep DEF Moves

(* What was in hand stays so as the step grows.                            *)
LEMMA FirstGrows ==
  ASSUME NEW s \in Nat, NEW t \in Nat, s <= t
  PROVE  /\ \A r \in Request : ReqFirst(r, s) => ReqFirst(r, t)
         /\ \A q \in PeerLoop : PeerFirst(q, s) => PeerFirst(q, t)
<1>1. ASSUME NEW r \in Request, ReqFirst(r, s) PROVE ReqFirst(r, t)
  <2>1. r.cmd \in Int /\ r.cur \in Int
    BY DEF Request
  <2>. QED
    BY <1>1, <2>1 DEF ReqFirst
<1>2. ASSUME NEW q \in PeerLoop, PeerFirst(q, s) PROVE PeerFirst(q, t)
  <2>1. q.cmd \in Int
    BY DEF PeerLoop
  <2>. QED
    BY <1>2, <2>1 DEF PeerFirst
<1>. QED
  BY <1>1, <1>2

(* Requests and peers' loops that go on with what they have, or with new   *)
(* that is right at the step.                                              *)
LEMMA CmdUpdate ==
  ASSUME TypeInv, TypeInv', CmdInv, step <= step',
         \A i \in Slots : (\E j \in Slots : req'[i] = req[j]) \/ ReqFirst(req'[i], step'),
         \A p \in Peers : peer'[p] = peer[p] \/ PeerFirst(peer'[p], step')
  PROVE  CmdInv'
<1>0. step \in Nat /\ step' \in Nat
  BY StepsType DEF TypeInv, CoordT
<1>1. req \in [Slots -> Request] /\ peer \in [Peers -> PeerLoop]
  BY DEF TypeInv, ReqT, PeerT
<1>2. \A i \in Slots : ReqFirst(req[i], step')
  BY <1>0, <1>1, FirstGrows DEF CmdInv
<1>3. \A p \in Peers : PeerFirst(peer[p], step')
  BY <1>0, <1>1, FirstGrows DEF CmdInv
<1>4. \A i \in Slots : ReqFirst(req'[i], step')
  BY <1>2
<1>5. \A p \in Peers : PeerFirst(peer'[p], step')
  BY <1>3
<1>. QED
  BY <1>4, <1>5 DEF CmdInv

(* ... or with nothing that counts.                                        *)
LEMMA CmdQuiet ==
  ASSUME TypeInv, TypeInv', CmdInv, step <= step',
         \A i \in Slots :
            \/ \E j \in Slots : req'[i] = req[j]
            \/ /\ req'[i].pc \notin {"store", "complete", "payload"}
               /\ req'[i].cmd = 0 \/ \E j \in Slots : req'[i].cmd = req[j].cmd,
         \A p \in Peers : peer'[p] = peer[p] \/ peer'[p].pc # "exec"
  PROVE  CmdInv'
<1>0. step \in Nat /\ step' \in Nat /\ \A j \in Slots : req[j].cmd \in Int /\ req[j].cmd <= step
  BY StepsType DEF TypeInv, CoordT, ReqT, Request, CmdInv, ReqFirst
<1>1. \A i \in Slots : (\E j \in Slots : req'[i] = req[j]) \/ ReqFirst(req'[i], step')
  BY <1>0 DEF ReqFirst
<1>2. \A p \in Peers : peer'[p] = peer[p] \/ PeerFirst(peer'[p], step')
  BY DEF PeerFirst
<1>. QED
  BY <1>1, <1>2, CmdUpdate

(* A reply that gives no command.                                          *)
LEMMA CmdReply ==
  ASSUME TypeInv, TypeInv', CmdInv, step <= step', NEW i \in Slots, NEW q, q.pc # "exec",
         Reply(i, q)
  PROVE  CmdInv'
<1>1. /\ req \in [Slots -> Request] /\ peer \in [Peers -> PeerLoop] /\ i[1] \in Peers
      /\ NoReq.pc = "free" /\ NoReq.cmd = 0
  BY DEF TypeInv, ReqT, PeerT, Slots, NoReq
<1>2. \A j \in Slots : req'[j] = req[j] \/ req'[j] = NoReq
  BY <1>1 DEF Reply
<1>3. \A p \in Peers : peer'[p] = peer[p] \/ peer'[p] = q
  BY <1>1 DEF Reply
<1>. HIDE DEF NoReq
<1>. QED
  BY <1>1, <1>2, <1>3, CmdQuiet

(* A peer that is not told to carry out a step.                            *)
LEMMA NoCommand ==
  ASSUME TypeInv, NEW p \in Peers
  PROVE  /\ Idle(p).pc # "exec" /\ \A s : SendFailed(p, s).pc # "exec"
         /\ \A pc \in {"idle", "leaving", "finished", "dead"} :
               PeerAt(p, pc, 0, 0).pc # "exec"
<1>1. peer[p] \in PeerLoop
  BY DEF TypeInv, PeerT
<1>2. \A pc \in {"idle", "leaving", "finished", "dead"} :
        PeerAt(p, pc, 0, 0) \in PeerLoop /\ PeerAt(p, pc, 0, 0).pc = pc
  BY PeerAtType, StepsType DEF TypeInv, PeerT
<1>3. ASSUME NEW s PROVE SendFailed(p, s).pc # "exec"
  <2>1. \A q \in PeerLoop : \A f : [q EXCEPT !.fails = f].pc = q.pc
    BY DEF PeerLoop
  <2>. QED
    BY <1>2, <2>1 DEF SendFailed
<1>. QED
  BY <1>2, <1>3 DEF Idle

(* A handler past maybe_advance gives no command yet.                      *)
LEMMA CmdAfterEval ==
  ASSUME TypeInv, TypeInv', CmdInv, step <= step', NEW i \in Slots, AfterEval(i)
  PROVE  CmdInv'
<1>1. CASE req[i].cmd = 0
  <2>1. \A j \in Slots : req'[j] = req[j] \/ (req'[j].pc = "answer" /\ req'[j].cmd = 0)
    BY <1>1 DEF AfterEval, NoReq, TypeInv, ReqT
  <2>2. peer' = peer
    BY <1>1 DEF AfterEval
  <2>. QED
    BY <2>1, <2>2, CmdQuiet
<1>2. CASE req[i].cmd # 0
  BY <1>2, CmdReply, NoCommand DEF AfterEval, Slots
<1>. QED
  BY <1>1, <1>2

(* A handler that goes on gives no command.                                *)
LEMMA CmdGoto ==
  ASSUME TypeInv, TypeInv', CmdInv, step <= step', NEW i \in Slots,
         NEW pc \in {"eval", "check", "cas", "command"}, NEW c,
         \/ Goto(i, pc)
         \/ req' = [req EXCEPT ![i].pc = pc, ![i].cur = c],
         peer' = peer
  PROVE  CmdInv'
<1>1. \A j \in Slots : req'[j] = req[j] \/ (req'[j].pc = pc /\ req'[j].cmd = req[j].cmd)
  BY DEF Goto, TypeInv, ReqT, Request
<1>. QED
  BY <1>1, CmdQuiet

(* A handler gives only the command of the step.                           *)
LEMMA HandleCmd ==
  ASSUME OneGate, TypeInv, TypeInv', CmdInv, step <= step', NEW i \in Slots, Handle(i)
  PROVE  CmdInv'
<1>0. /\ req[i] \in Request /\ i[1] \in Peers /\ ReqFirst(req[i], step)
      /\ step \in 1..Last /\ Last \in Nat /\ req \in [Slots -> Request] /\ peer \in [Peers -> PeerLoop]
  BY StepsType DEF TypeInv, ReqT, PeerT, Slots, CmdInv, CoordT
<1>1. CASE Connect(i) \/ PeerCompleted(i) \/ EvalStep(i)
  BY <1>1, CmdGoto DEF Connect, PeerCompleted, EvalStep
<1>2. CASE StorePeerData(i)
  <2>1. /\ peer' = peer /\ step' = step /\ req[i].cmd = TheGate
        /\ req' = [req EXCEPT ![i].pc = "complete"]
    BY <1>0, <1>2 DEF StorePeerData, Goto, Serving, ReqFirst
  <2>2. \A j \in Slots : req'[j] = req[j] \/ (j = i /\ req'[j] = [req[i] EXCEPT !.pc = "complete"])
    BY <1>0, <2>1
  <2>3. TheGate \in Nat /\ TheGate >= TheGate
    BY OneGateSteps
  <2>4. ReqFirst([req[i] EXCEPT !.pc = "complete"], step')
    BY <1>0, <2>1, <2>3 DEF ReqFirst, Request
  <2>. QED
    BY <2>1, <2>2, <2>4, CmdUpdate
<1>3. CASE CheckGate(i)
  BY <1>3, CmdGoto, CmdAfterEval DEF CheckGate
<1>4. CASE AdvanceStepIf(i)
  BY <1>4, CmdAfterEval DEF AdvanceStepIf
<1>5. CASE AnswerCompleted(i)
  BY <1>0, <1>5, CmdGoto, CmdReply, NoCommand DEF AnswerCompleted
<1>6. CASE AnswerCommand(i)
  <2>1. CASE Steps[step].cmd
    <3>1. /\ peer' = peer /\ step' = step
          /\ req' = [req EXCEPT ![i].pc = "payload", ![i].cur = step]
      BY <1>6, <2>1 DEF AnswerCommand
    <3>2. \A j \in Slots : req'[j] = req[j] \/
                             req'[j] = [req[i] EXCEPT !.pc = "payload", !.cur = step]
      BY <1>0, <3>1
    <3>3. ReqFirst([req[i] EXCEPT !.pc = "payload", !.cur = step], step')
      BY <1>0, <2>1, <3>1 DEF ReqFirst, Request
    <3>. QED
      BY <3>1, <3>2, <3>3, CmdUpdate
  <2>2. CASE ~Steps[step].cmd
    BY <1>0, <1>6, <2>2, CmdReply, NoCommand DEF AnswerCommand
  <2>. QED
    BY <2>1, <2>2
<1>7. CASE AnswerPayload(i)
  <2>. DEFINE pay == IF gate(req[i].cur) = "complete" THEN payload ELSE 0
              q == PeerAt(i[1], "exec", req[i].cur, pay)
  <2>1. /\ Reply(i, q) /\ step' = step /\ req[i].pc = "payload" /\ req[i].cur # 0
        /\ req[i].cur <= step /\ Steps[req[i].cur].cmd
    BY <1>0, <1>7 DEF AnswerPayload, Serving, TypeInv, ReqT, ReqFirst
  <2>2. q.pc = "exec" /\ q.cmd = req[i].cur
    BY <1>0 DEF PeerAt, PeerLoop
  <2>4. PeerFirst(q, step')
    BY <2>1, <2>2 DEF PeerFirst
  <2>. HIDE DEF q
  <2>5. ReqFirst(NoReq, step')
    BY <1>0, <2>1 DEF ReqFirst, NoReq
  <2>6. \A j \in Slots : req'[j] = req[j] \/ req'[j] = NoReq
    BY <1>0, <2>1 DEF Reply
  <2>7. \A p \in Peers : peer'[p] = peer[p] \/ peer'[p] = q
    BY <1>0, <2>1 DEF Reply
  <2>. QED
    BY <2>4, <2>5, <2>6, <2>7, CmdUpdate
<1>. QED
  BY <1>1, <1>2, <1>3, <1>4, <1>5, <1>6, <1>7 DEF Handle

(* A peer answers only commands it was given.                              *)
LEMMA PeerStepCmd ==
  ASSUME OneGate, TypeInv, TypeInv', CmdInv, NEW p \in Peers, PeerStep(p)
  PROVE  CmdInv'
<1>. DEFINE n == <<p, "now">>
            l == <<p, "late">>
<1>0. /\ n \in Slots /\ l \in Slots /\ step' = step /\ step \in Nat
      /\ req \in [Slots -> Request] /\ peer \in [Peers -> PeerLoop]
      /\ NoReq.pc = "free" /\ NoReq.cmd = 0
  <2>1. step' = step
    BY DEF PeerStep, Poll, Execute, RequestLost, RequestTimesOut, GiveUp, ReportDeparture,
       Die, PeerFrame, coord
  <2>. QED
    BY <2>1, StepsType DEF Slots, TypeInv, CoordT, ReqT, PeerT, NoReq
<1>. HIDE DEF NoReq
<1>n. step <= step'
  BY <1>0
<1>1. ASSUME NEW pc, NEW s, Send(p, pc, s),
             ReqFirst([pc |-> pc, cmd |-> s, cur |-> 0], step)
      PROVE  CmdInv'
  <2>1. \A j \in Slots : req'[j] = req[j] \/ req'[j] = [pc |-> pc, cmd |-> s, cur |-> 0]
    BY <1>0, <1>1 DEF Send
  <2>2. \A x \in Peers : peer'[x] = peer[x] \/ peer'[x].pc = "await"
    BY <1>0, <1>1 DEF Send, PeerLoop
  <2>3. \A x \in Peers : peer'[x] = peer[x] \/ PeerFirst(peer'[x], step')
    BY <2>2 DEF PeerFirst
  <2>. QED
    BY <1>0, <1>n, <1>1, <2>1, <2>3, CmdUpdate
<1>2. ASSUME NEW q, q.pc # "exec", peer' = [peer EXCEPT ![p] = q],
             \A j \in Slots : req'[j] \in {req[j], NoReq, req[n]}
      PROVE  CmdInv'
  <2>1. \A x \in Peers : peer'[x] = peer[x] \/ peer'[x] = q
    BY <1>0, <1>2
  <2>. QED
    BY <1>0, <1>n, <1>2, <2>1, CmdQuiet
<1>3. CASE Poll(p)
  <2>1. ReqFirst([pc |-> "connect", cmd |-> 0, cur |-> 0], step)
    BY <1>0 DEF ReqFirst
  <2>. QED
    BY <1>1, <1>3, <2>1 DEF Poll
<1>4. CASE Execute(p)
  <2>. DEFINE s == peer[p].cmd
  <2>1. /\ peer[p].pc = "exec" /\ s \in 1..Last /\ s <= step /\ Steps[s].cmd
    BY <1>4, StepsType DEF Execute, TypeInv, PeerT, PeerOK, PeerLoop, CmdInv, PeerFirst
  <2>2. CASE Refused(p)
    <3>1. req' = req /\ RetryPeerStep(p)
      BY <1>4, <2>2 DEF Execute, RetryPeerStep
    <3>2. \A x \in Peers : peer'[x] = peer[x] \/ peer'[x].pc \in {"leaving", "idle"}
      BY <1>0, <3>1 DEF RetryPeerStep, PeerAt, PeerLoop
    <3>. QED
      BY <1>0, <1>n, <3>1, <3>2, CmdQuiet
  <2>3. CASE ~Refused(p) /\ gate(s) # "done" /\ Running
    <3>. DEFINE pc == IF Steps[s].reply = "upload" THEN "store" ELSE "complete"
    <3>1. Send(p, pc, s)
      BY <1>4, <2>3 DEF Execute
    <3>2. ReqFirst([pc |-> pc, cmd |-> s, cur |-> 0], step)
      BY <2>1, OneGateSteps DEF ReqFirst
    <3>. HIDE DEF pc
    <3>. QED
      BY <1>1, <3>1, <3>2
  <2>4. CASE ~Refused(p) /\ ~(gate(s) # "done" /\ Running)
    <3>1. /\ req' = req
          /\ \E q \in {PeerAt(p, "finished", 0, 0), SendFailed(p, s)} : peer' = [peer EXCEPT ![p] = q]
      BY <1>4, <2>4 DEF Execute
    <3>. QED
      BY <1>2, <3>1, NoCommand
  <2>. QED
    BY <2>2, <2>3, <2>4
<1>5. CASE RequestLost(p)
  <2>1. /\ req' = [req EXCEPT ![n] = NoReq]
        /\ peer' = [peer EXCEPT ![p] = SendFailed(p, req[n].cmd)]
    BY <1>5 DEF RequestLost
  <2>. QED
    BY <1>0, <1>2, <2>1, NoCommand
<1>6. CASE RequestTimesOut(p)
  <2>1. /\ req' = [req EXCEPT ![l] = req[n], ![n] = NoReq]
        /\ peer' = [peer EXCEPT ![p] = SendFailed(p, req[n].cmd)]
    BY <1>6 DEF RequestTimesOut
  <2>. QED
    BY <1>0, <1>2, <2>1, NoCommand
<1>7. CASE GiveUp(p) \/ Die(p)
  <2>1. /\ req' = req
        /\ \E pc \in {"leaving", "dead"} : peer' = [peer EXCEPT ![p] = PeerAt(p, pc, 0, 0)]
    BY <1>7 DEF GiveUp, Die
  <2>. QED
    BY <1>2, <2>1, NoCommand
<1>8. CASE ReportDeparture(p)
  <2>1. req' = req /\ peer' = [peer EXCEPT ![p].pc = "left"]
    BY <1>8 DEF ReportDeparture
  <2>2. \A x \in Peers : peer'[x] = peer[x] \/ peer'[x].pc = "left"
    BY <1>0, <2>1 DEF PeerLoop
  <2>. QED
    BY <1>0, <1>n, <2>1, <2>2, CmdQuiet
<1>. QED
  BY <1>3, <1>4, <1>5, <1>6, <1>7, <1>8 DEF PeerStep

----------------------------------------------------------------------------
(* The uploads.                                                            *)

(* More than enough is enough.                                             *)
LEMMA SufficeGrows ==
  ASSUME NEW S, NEW T \in SUBSET Peers, S \subseteq T, Suffice(S)
  PROVE  Suffice(T)
<1>1. IsFiniteSet(T) /\ IsFiniteSet(S)
  BY PeersAssumption, FS_Subset
<1>2. Cardinality(S) <= Cardinality(T) /\ Cardinality(S) \in Nat /\ Cardinality(T) \in Nat
  BY <1>1, FS_Subset, FS_CardinalityType
<1>. QED
  BY <1>2, QuorumInt DEF Suffice

(* The answers to the gate that are to be counted, and where they are from.*)
Answering(j) == req[j].pc = "complete" /\ req[j].cmd = TheGate
AnswersStored ==
    \A j \in Slots : Answering(j)' =>
        j[1] \in Uploaded' \/ \E k \in Slots : k[1] = j[1] /\ Answering(k)

(* A handler stores an upload before it counts its sender.                 *)
LEMMA HandleAnswers ==
  ASSUME OneGate, TypeInv, CmdInv, NEW i \in Slots, Handle(i)
  PROVE  /\ AnswersStored /\ Uploaded \subseteq Uploaded'
         /\ UNCHANGED <<loop, art>>
         /\ completed' = {} \/ \A p \in completed' : p \in completed
                                  \/ \E k \in Slots : k[1] = p /\ req[k].pc = "complete"
<1>0. /\ req \in [Slots -> Request] /\ i[1] \in Peers /\ data \in [Peers -> 0..Last]
      /\ ReqFirst(req[i], step)
  BY DEF TypeInv, ReqT, CoordT, Slots, CmdInv
<1>1. CASE StorePeerData(i)
  <2>1. /\ req[i].cmd = TheGate /\ data' = [data EXCEPT ![i[1]] = TheGate]
        /\ req' = [req EXCEPT ![i].pc = "complete"]
        /\ UNCHANGED <<loop, art, completed>>
    BY <1>0, <1>1 DEF StorePeerData, Goto, Serving, ReqFirst, HandlerFrame
  <2>2. Uploaded \subseteq Uploaded' /\ i[1] \in Uploaded'
    BY <1>0, <2>1 DEF Uploaded
  <2>3. \A j \in Slots : j = i \/ req'[j] = req[j]
    BY <1>0, <2>1
  <2>4. AnswersStored
    BY <2>2, <2>3 DEF AnswersStored, Answering
  <2>. QED
    BY <2>1, <2>2, <2>4
<1>2. ASSUME UNCHANGED <<data, loop, art>>,
             \A j \in Slots : req'[j] = req[j] \/ req'[j].pc # "complete"
      PROVE  AnswersStored /\ Uploaded \subseteq Uploaded' /\ UNCHANGED <<loop, art>>
  BY <1>2 DEF AnswersStored, Answering, Uploaded
<1>3. ASSUME AfterEval(i) PROVE \A j \in Slots : req'[j] = req[j] \/ req'[j].pc # "complete"
  BY <1>0, <1>3 DEF AfterEval, Reply, NoReq
<1>4. ASSUME NEW q, Reply(i, q)
      PROVE  \A j \in Slots : req'[j] = req[j] \/ req'[j].pc # "complete"
  BY <1>0, <1>4 DEF Reply, NoReq
<1>5. ASSUME NEW pc, pc # "complete", NEW c,
             Goto(i, pc) \/ req' = [req EXCEPT ![i].pc = pc, ![i].cur = c]
      PROVE  \A j \in Slots : req'[j] = req[j] \/ req'[j].pc # "complete"
  BY <1>0, <1>5 DEF Goto, Request
<1>6. CASE PeerCompleted(i)
  <2>1. /\ UNCHANGED <<data, loop, art>> /\ Goto(i, "eval") /\ req[i].pc = "complete"
        /\ completed' = completed \cup {i[1]}
    BY <1>6 DEF PeerCompleted, HandlerFrame, Serving
  <2>. QED
    BY <1>2, <1>5, <2>1
<1>7. CASE AdvanceStepIf(i)
  <2>1. UNCHANGED <<data, loop, art>> /\ AfterEval(i)
    BY <1>7 DEF AdvanceStepIf, HandlerFrame
  <2>2. completed' = {} \/ completed' = completed
    BY <1>7 DEF AdvanceStepIf, advance_step_if, Advance
  <2>. QED
    BY <1>2, <1>3, <2>1, <2>2
<1>8. CASE Connect(i) \/ EvalStep(i)
  <2>1. UNCHANGED <<data, loop, art, completed>>
    BY <1>8 DEF Connect, EvalStep, HandlerFrame
  <2>2. \A j \in Slots : req'[j] = req[j] \/ req'[j].pc # "complete"
    BY <1>5, <1>8 DEF Connect, EvalStep
  <2>. QED
    BY <1>2, <2>1, <2>2
<1>9. CASE CheckGate(i) \/ AnswerCompleted(i)
  <2>1. UNCHANGED <<data, loop, art, completed>>
    BY <1>9 DEF CheckGate, AnswerCompleted, HandlerFrame
  <2>2. \A j \in Slots : req'[j] = req[j] \/ req'[j].pc # "complete"
    BY <1>3, <1>4, <1>5, <1>9 DEF CheckGate, AnswerCompleted
  <2>. QED
    BY <1>2, <2>1, <2>2
<1>10. CASE AnswerCommand(i) \/ AnswerPayload(i)
  <2>1. UNCHANGED <<data, loop, art, completed>>
    BY <1>10 DEF AnswerCommand, AnswerPayload, HandlerFrame
  <2>2. \A j \in Slots : req'[j] = req[j] \/ req'[j].pc # "complete"
    BY <1>4, <1>5, <1>10 DEF AnswerCommand, AnswerPayload
  <2>. QED
    BY <1>2, <2>1, <2>2
<1>. QED
  BY <1>1, <1>6, <1>7, <1>8, <1>9, <1>10 DEF Handle

(* A peer that answers the gate uploads.                                   *)
LEMMA PeerStepAnswers ==
  ASSUME OneGate, Uploads, TypeInv, NEW p \in Peers, PeerStep(p)
  PROVE  AnswersStored /\ UNCHANGED <<step, completed, data, loop, art>>
<1>. DEFINE n == <<p, "now">>
            l == <<p, "late">>
<1>0. /\ n \in Slots /\ l \in Slots /\ n[1] = p /\ l[1] = p /\ req \in [Slots -> Request]
  BY DEF Slots, TypeInv, ReqT
<1>1. UNCHANGED <<step, completed, data, loop, art>>
  BY DEF PeerStep, Poll, Execute, RequestLost, RequestTimesOut, GiveUp, ReportDeparture,
     Die, PeerFrame, coord, db
<1>2. ASSUME \A j \in Slots : \/ req'[j] = req[j]
                              \/ req'[j].pc # "complete" \/ req'[j].cmd # TheGate
                              \/ j[1] = p /\ req'[j] = req[n]
      PROVE  AnswersStored
  BY <1>0, <1>2 DEF AnswersStored, Answering
<1>3. CASE Poll(p)
  <2>1. \A j \in Slots : req'[j] = req[j] \/ req'[j].pc # "complete"
    BY <1>0, <1>3 DEF Poll, Send
  <2>. QED
    BY <1>1, <1>2, <2>1
<1>4. CASE Execute(p)
  <2>. DEFINE s == peer[p].cmd
  <2>1. \A j \in Slots : \/ req'[j] = req[j] \/ req'[j].pc # "complete" \/ req'[j].cmd # TheGate
    <3>1. CASE req' = req
      BY <3>1
    <3>2. CASE Send(p, IF Steps[s].reply = "upload" THEN "store" ELSE "complete", s)
      <4>1. CASE Steps[s].reply = "upload"
        BY <1>0, <3>2, <4>1 DEF Send
      <4>2. CASE Steps[s].reply # "upload"
        <5>1. s # TheGate
          BY <4>2 DEF Uploads
        <5>. QED
          BY <1>0, <3>2, <5>1 DEF Send
      <4>. QED
        BY <4>1, <4>2
    <3>. QED
      BY <1>4, <3>1, <3>2 DEF Execute, RetryPeerStep
  <2>. QED
    BY <1>1, <1>2, <2>1
<1>5. CASE RequestLost(p)
  <2>1. \A j \in Slots : req'[j] = req[j] \/ req'[j].pc # "complete"
    BY <1>0, <1>5 DEF RequestLost, NoReq
  <2>. QED
    BY <1>1, <1>2, <2>1
<1>6. CASE RequestTimesOut(p)
  <2>1. req' = [req EXCEPT ![l] = req[n], ![n] = NoReq] /\ NoReq.pc # "complete"
    BY <1>6 DEF RequestTimesOut, NoReq
  <2>. HIDE DEF NoReq
  <2>2. \A j \in Slots : req'[j] = req[j] \/ req'[j] = NoReq \/ (j[1] = p /\ req'[j] = req[n])
    BY <1>0, <2>1
  <2>. QED
    BY <1>1, <1>2, <2>1, <2>2
<1>7. CASE GiveUp(p) \/ ReportDeparture(p) \/ Die(p)
  <2>1. req' = req
    BY <1>7 DEF GiveUp, ReportDeparture, Die
  <2>. QED
    BY <1>1, <1>2, <2>1
<1>. QED
  BY <1>3, <1>4, <1>5, <1>6, <1>7 DEF PeerStep

(* The quorum that opened the gate has uploaded.                           *)
LEMMA GateOpened ==
  ASSUME OneGate, Uploads, TypeInv, CountedInv, up, up', Moves,
         step' # step, step' = TheGate + 1
  PROVE  Suffice(Uploaded)
<1>1. step \in Nat /\ TheGate \in 1..Last /\ Last \in Nat
  BY OneGateSteps, StepsType DEF TypeInv, CoordT
<1>2. step = TheGate /\ gate(step) = "complete"
  BY <1>1, OneGateSteps DEF Moves
<1>3. Suffice(completed)
  <2>1. Cardinality(completed) \in Nat
    BY PeersAssumption, FS_Subset, FS_CardinalityType DEF TypeInv, CoordT
  <2>. QED
    BY <1>2, <2>1, QuorumInt DEF Moves, Ready, Suffice
<1>. QED
  BY <1>2, <1>3, SufficeGrows DEF CountedInv, Uploaded

(* Moving on, the machine forgets who completed.                           *)
LEMMA MoveClears ==
  ASSUME Next, up, up', step' # step
  PROVE  completed' = {}
<1>1. ~Crash /\ ~Restart
  BY DEF Crash, Restart, Recover
<1>2. ASSUME NEW i \in Slots, Handle(i) PROVE completed' = {}
  <2>1. AdvanceStepIf(i)
    BY <1>2 DEF Handle, Connect, StorePeerData, PeerCompleted, EvalStep,
                CheckGate, AnswerCompleted, AnswerCommand, AnswerPayload
  <2>. QED
    BY <2>1 DEF AdvanceStepIf, advance_step_if, Advance
<1>3. ASSUME NEW p \in Peers, PeerStep(p) PROVE FALSE
  BY <1>3 DEF PeerStep, Poll, Execute, RequestLost, RequestTimesOut, GiveUp,
              ReportDeparture, Die, PeerFrame, coord
<1>4. CASE Loop \/ Stranded
  <2>1. LoopGate \/ LoopAdvance
    BY <1>4 DEF Loop, LoopRead, LoopSave, LoopClear, LoopPerform, LoopFail,
                LoopComplete, Stranded
  <2>. QED
    BY <2>1 DEF LoopGate, LoopAdvance, advance_step_if, Advance
<1>. QED
  BY <1>1, <1>2, <1>3, <1>4 DEF Next, PeerStep

(* Handlers and peers keep what was uploaded.                              *)
LEMMA AnswersData ==
  ASSUME OneGate, Uploads, TypeInv, TypeInv', CmdInv, DataInv, up, up', Moves, step <= step',
         AnswersStored, Uploaded \subseteq Uploaded', UNCHANGED <<loop, art>>,
         step' # step => completed' = {},
         completed' = {} \/ \A p \in completed' :
            p \in completed \/ \E k \in Slots : k[1] = p /\ req[k].pc = "complete"
  PROVE  DataInv'
<1>0. /\ step \in Nat /\ step' \in Nat /\ TheGate \in Nat
      /\ Uploaded' \in SUBSET Peers /\ \A k \in Slots : req[k].cmd \in Int
  BY OneGateSteps, StepsType DEF TypeInv, CoordT, ReqT, Request, Uploaded
<1>1. StoredInv'
  BY <1>0 DEF DataInv, StoredInv, AnswersStored, Answering
<1>2. CountedInv'
  <2>. SUFFICES ASSUME step' = TheGate, step' = step, NEW p \in completed'
                PROVE  p \in Uploaded'
    BY DEF CountedInv
  <2>1. CASE p \in completed
    BY <2>1 DEF DataInv, CountedInv
  <2>2. ASSUME NEW k \in Slots, k[1] = p, req[k].pc = "complete" PROVE p \in Uploaded'
    <3>1. req[k].cmd = TheGate /\ step <= TheGate
      BY <1>0, <2>2 DEF CmdInv, ReqFirst
    <3>. QED
      BY <2>2, <3>1 DEF DataInv, StoredInv
  <2>. QED
    BY <2>1, <2>2
<1>3. KeptInv'
  <2>. SUFFICES ASSUME step' = TheGate + 1, loop.pc \in {"read", "arm"}
                PROVE  Suffice(Uploaded)'
    BY DEF KeptInv
  <2>1. Suffice(Uploaded)
    BY GateOpened DEF DataInv, KeptInv
  <2>2. Suffice(Uploaded')
    BY <1>0, <2>1, SufficeGrows
  <2>. QED
    BY <2>2 DEF Suffice
<1>4. SavedInv'
  BY DEF DataInv, SavedInv, Answers, Suffice
<1>. QED
  BY <1>1, <1>2, <1>3, <1>4 DEF DataInv

(* The loop saves what was uploaded before it clears it.                   *)
LEMMA LoopData ==
  ASSUME OneGate, Uploads, IInv, TypeInv', DataInv, up, up', Moves, step <= step',
         Loop \/ Stranded, step' # step => completed' = {}
  PROVE  DataInv'
<1>0. /\ step \in 1..Last /\ step' \in Nat /\ TheGate \in 1..Last /\ Last \in Nat
      /\ TheGate + 1 < Last /\ gate(TheGate + 1) = "coord" /\ TypeInv
      /\ loop \in [pc : {"read", "arm", "clear", "perform", "advance", "ended"}, cur : 0..Last]
      /\ Uploaded \in SUBSET Peers /\ req' = req
  <2>1. req' = req
    BY DEF Loop, LoopRead, LoopGate, LoopSave, LoopClear, LoopPerform, LoopFail, LoopAdvance,
       LoopComplete, Stranded, LoopFrame
  <2>2. TheGate \in 1..Last /\ TheGate + 1 < Last /\ gate(TheGate + 1) = "coord" /\ Last \in Nat
    BY OneGateSteps, StepsType
  <2>. QED
    BY <2>1, <2>2 DEF IInv, TypeInv, CoordT, Uploaded
<1>1. completed' = completed \/ completed' = {}
  BY DEF Loop, LoopRead, LoopGate, LoopSave, LoopClear, LoopPerform, LoopFail, LoopAdvance,
     LoopComplete, Stranded, advance_step_if, Advance
<1>2. ASSUME data' = data PROVE StoredInv' /\ CountedInv' /\ Uploaded' = Uploaded
  BY <1>0, <1>1, <1>2 DEF DataInv, StoredInv, CountedInv, Uploaded
<1>3. ASSUME data' = data, loop.pc \in {"read", "arm"} \/ loop'.pc \notin {"read", "arm"}
      PROVE  KeptInv'
  <2>. SUFFICES ASSUME step' = TheGate + 1, loop'.pc \in {"read", "arm"}
                PROVE  Suffice(Uploaded)'
    BY DEF KeptInv
  <2>1. Suffice(Uploaded)
    BY <1>0, <1>3, GateOpened DEF DataInv, KeptInv
  <2>. QED
    BY <1>2, <1>3, <2>1 DEF Suffice
<1>4. CASE LoopRead \/ LoopGate
  <2>1. data' = data /\ loop.pc \in {"read", "arm"} /\ loop'.pc \in {"read", "arm"}
    BY <1>4 DEF LoopRead, LoopGate, NoLoop
  <2>. QED
    BY <1>2, <1>3, <2>1 DEF DataInv, SavedInv
<1>5. CASE LoopSave
  <2>1. /\ data' = data /\ loop.pc = "arm" /\ loop'.pc = "clear" /\ loop'.cur = loop.cur
        /\ gate(loop.cur) = "coord" /\ loop.cur = step
    BY <1>0, <1>5 DEF LoopSave, LoopGoto, IInv, LoopInv
  <2>2. ASSUME loop.cur = TheGate + 1 PROVE Suffice(Answers(TheGate)')
    <3>1. Suffice(Uploaded)
      BY <2>1, <2>2 DEF DataInv, KeptInv
    <3>3. Steps[loop.cur].takes = TheGate /\ TheGate # 0
      BY <1>0, <2>2, OneGateSteps
    <3>4. Uploaded \subseteq Answers(TheGate)'
      BY <1>0, <1>5, <3>3 DEF LoopSave, Uploaded, Answers, TypeInv, CoordT
    <3>5. Answers(TheGate)' \in SUBSET Peers
      BY DEF Answers
    <3>. QED
      BY <3>1, <3>4, <3>5, SufficeGrows
  <2>3. SavedInv'
    BY <2>1, <2>2 DEF SavedInv, Suffice
  <2>. QED
    BY <1>2, <1>3, <2>1, <2>3 DEF DataInv
<1>6. CASE LoopClear
  <2>1. /\ loop.pc = "clear" /\ loop'.pc = "perform" /\ loop'.cur = loop.cur /\ loop.cur = step
        /\ UNCHANGED <<step, completed, art>>
    BY <1>0, <1>6 DEF LoopClear, LoopGoto, IInv, LoopInv, db
  <2>2. SavedInv' /\ KeptInv'
    BY <2>1 DEF DataInv, SavedInv, KeptInv, Answers, Suffice
  <2>3. CASE data' = data
    BY <1>2, <2>2, <2>3 DEF DataInv
  <2>4. CASE Steps[loop.cur].takes # 0
    <3>1. step' = TheGate + 1
      BY <1>0, <2>1, <2>4, OneGateSteps
    <3>2. StoredInv' /\ CountedInv'
      BY <1>0, <3>1 DEF StoredInv, CountedInv
    <3>. QED
      BY <2>2, <3>2 DEF DataInv
  <2>. QED
    BY <1>6, <2>3, <2>4 DEF LoopClear
<1>7. CASE LoopPerform \/ LoopFail \/ LoopComplete \/ Stranded
  <2>1. data' = data /\ loop'.pc \in {"advance", "ended"}
    BY <1>0, <1>7 DEF LoopPerform, LoopFail, LoopComplete, Stranded, LoopGoto
  <2>2. SavedInv'
    BY <2>1 DEF SavedInv
  <2>. QED
    BY <1>2, <1>3, <2>1, <2>2 DEF DataInv
<1>8. CASE LoopAdvance
  <2>1. data' = data /\ loop'.pc = "read" /\ loop.pc = "advance" /\ Advance
    BY <1>8 DEF LoopAdvance, NoLoop
  <2>2. gate(step) = "coord"
    BY <2>1 DEF IInv, LoopInv
  <2>3. KeptInv'
    <3>. SUFFICES ASSUME step' = TheGate + 1 PROVE FALSE
      BY DEF KeptInv
    <3>1. CASE step < Last
      <4>1. step = TheGate
        BY <1>0, <2>1, <3>1 DEF Advance
      <4>. QED
        BY <1>0, <2>2, <4>1, OneGateSteps
    <3>2. CASE ~(step < Last)
      BY <1>0, <2>1, <3>2 DEF Advance
    <3>. QED
      BY <3>1, <3>2
  <2>4. SavedInv'
    BY <2>1 DEF SavedInv
  <2>. QED
    BY <1>2, <2>1, <2>3, <2>4 DEF DataInv
<1>. QED
  BY <1>4, <1>5, <1>6, <1>7, <1>8 DEF Loop

----------------------------------------------------------------------------
(* Nothing is given, stored or counted at first.                           *)
LEMMA InitFirst == ASSUME OneGate PROVE Init => FirstInv
<1>. SUFFICES ASSUME Init PROVE FirstInv
  OBVIOUS
<1>1. TheGate \in 2..Last /\ Last \in Nat
  BY OneGateSteps, StepsType
<1>2. CmdInv
  BY DEF Init, CmdInv, ReqFirst, PeerFirst, NoReq
<1>4. DataInv
  BY <1>1 DEF Init, DataInv, StoredInv, CountedInv, KeptInv, SavedInv, NoReq, NoLoop
<1>. QED
  BY <1>2, <1>4 DEF FirstInv, Init

(* Every step before a restart keeps it.                                   *)
LEMMA FirstNext == ASSUME OneGate PROVE IInv /\ FirstInv /\ [Next]_vars => FirstInv'
<1>. SUFFICES ASSUME IInv, FirstInv, [Next]_vars, crashes' = 0 PROVE FirstInv'
  BY DEF FirstInv
<1>1. CASE UNCHANGED vars
  BY <1>1 DEF vars, coord, db, FirstInv, CmdInv, DataInv, StoredInv, CountedInv,
              KeptInv, SavedInv, Uploaded, Answers, Suffice, gate
<1>2. CASE Next
  <2>1. TypeInv /\ TypeInv' /\ crashes \in Nat
    BY TypeInvNext DEF IInv, TypeInv, CoordT
  <2>2. crashes = 0 /\ ~Crash
    <3>1. crashes' = crashes \/ crashes' = crashes + 1
      BY <1>2 DEF Next, Handle, Connect, StorePeerData, PeerCompleted, EvalStep, CheckGate,
         AdvanceStepIf, AnswerCompleted, AnswerCommand, AnswerPayload, HandlerFrame,
         Poll, Execute, RequestLost, RequestTimesOut, GiveUp, ReportDeparture, Die, PeerFrame,
         Loop, LoopRead, LoopGate, LoopSave, LoopClear, LoopPerform, LoopFail, LoopAdvance,
         LoopComplete, Stranded, LoopFrame, Crash, Restart, Recover
    <3>. QED
      BY <2>1, <3>1 DEF Crash
  <2>3. up /\ CmdInv /\ (Uploads => DataInv) /\ ~Restart
    BY <2>2 DEF FirstInv, Restart, Recover
  <2>4. CASE \E i \in Slots : Handle(i)
    <3>1. PICK i \in Slots : Handle(i)
      BY <2>4
    <3>2. up' = up
      BY <3>1 DEF Handle, Connect, StorePeerData, PeerCompleted, EvalStep, CheckGate,
         AdvanceStepIf, AnswerCompleted, AnswerCommand, AnswerPayload, HandlerFrame
    <3>3. Moves /\ step <= step' /\ (step' # step => completed' = {})
      BY <1>2, <2>1, <2>3, <3>2, GatesStep, StepGrows, MoveClears
    <3>4. CmdInv'
      BY <2>1, <2>3, <3>1, <3>2, <3>3, HandleCmd
    <3>5. Uploads => DataInv'
      BY <2>1, <2>3, <3>1, <3>2, <3>3, HandleAnswers, AnswersData
    <3>. QED
      BY <2>3, <3>2, <3>4, <3>5 DEF FirstInv
  <2>5. CASE \E p \in Peers : PeerStep(p)
    <3>1. PICK p \in Peers : PeerStep(p)
      BY <2>5
    <3>2. up' = up
      BY <3>1 DEF PeerStep, Poll, Execute, RequestLost, RequestTimesOut, GiveUp,
         ReportDeparture, Die, PeerFrame, coord, db
    <3>3. Moves /\ step <= step' /\ (step' # step => completed' = {})
      BY <1>2, <2>1, <2>3, <3>2, GatesStep, StepGrows, MoveClears
    <3>4. CmdInv'
      BY <2>1, <2>3, <3>1, <3>2, <3>3, PeerStepCmd
    <3>5. ASSUME Uploads PROVE DataInv'
      <4>1. AnswersStored /\ UNCHANGED <<step, completed, data, loop, art>>
        BY <2>1, <3>1, <3>5, PeerStepAnswers
      <4>2. Uploaded \subseteq Uploaded'
        BY <4>1 DEF Uploaded
      <4>. QED
        BY <2>1, <2>3, <3>2, <3>3, <3>5, <4>1, <4>2, AnswersData
    <3>. QED
      BY <2>3, <3>2, <3>4, <3>5 DEF FirstInv
  <2>6. CASE Loop \/ Stranded
    <3>1. up' = up /\ UNCHANGED <<req, peer>>
      BY <2>6 DEF Loop, LoopRead, LoopGate, LoopSave, LoopClear, LoopPerform, LoopFail,
         LoopAdvance, LoopComplete, Stranded, LoopFrame
    <3>2. Moves /\ step <= step' /\ (step' # step => completed' = {})
      BY <1>2, <2>1, <2>3, <3>1, GatesStep, StepGrows, MoveClears
    <3>3. CmdInv'
      BY <2>1, <2>3, <3>1, <3>2, CmdQuiet
    <3>5. Uploads => DataInv'
      BY <2>1, <2>3, <2>6, <3>1, <3>2, LoopData
    <3>. QED
      BY <2>3, <3>1, <3>3, <3>5 DEF FirstInv
  <2>. QED
    BY <1>2, <2>2, <2>3, <2>4, <2>5, <2>6 DEF Next, PeerStep
<1>. QED
  BY <1>1, <1>2

(* Both invariants hold throughout.                                        *)
LEMMA FirstAlways == ASSUME OneGate PROVE Spec => [](IInv /\ FirstInv)
<1>1. Init => IInv /\ FirstInv
  BY InitIInv, InitFirst
<1>2. IInv /\ FirstInv /\ [Next]_vars => (IInv /\ FirstInv)'
  BY IInvNext, FirstNext
<1>. QED
  BY <1>1, <1>2, PTL DEF Spec

(* Of every kind with one gate its peers open, whatever is lost, late or   *)
(* fails: until a restart of the coordinator loses the uploads, a step     *)
(* that submits has saved a quorum of answers to the command it submits    *)
(* for (handle_peer_data, get_all_peer_data, clear_peer_data).             *)
THEOREM SubmitSafety == OneGate => (Spec => []SubmitsQuorum)
<1>. SUFFICES ASSUME OneGate PROVE Spec => []SubmitsQuorum
  OBVIOUS
<1>1. IInv /\ FirstInv => SubmitsQuorum
  <2>. SUFFICES ASSUME IInv, FirstInv, crashes = 0, loop.pc = "perform",
                       Steps[loop.cur].takes # 0
                PROVE  coordinator_only \/ Cardinality(Answers(Steps[loop.cur].takes))
                             >= resolve_peer_threshold
    BY DEF SubmitsQuorum
  <2>1. loop.cur \in 1..Last
    BY StepsType DEF IInv, TypeInv, CoordT
  <2>2. Steps[loop.cur].takes = TheGate /\ loop.cur = TheGate + 1 /\ Uploads
    BY <2>1, OneGateSteps
  <2>. QED
    BY <2>2 DEF FirstInv, DataInv, SavedInv, Suffice
<1>. QED
  BY <1>1, FirstAlways, PTL
=============================================================================
