--------------------------- MODULE NodeTasks_proofs ---------------------------
(* Proofs about the two kinds of background tasks a node runs.  For the    *)
(* reward sweep, for every set of nodes and coupons, every chunk size,     *)
(* margin, interval and bound: a countdown once published stands for what  *)
(* was read, and a sweep assigns the most urgent coupons first.  For the   *)
(* tasks of the workflow runs, for every set of runs, peers and requests   *)
(* and every number of retries, restarts and faults: a peer drives a run   *)
(* with one loop, and the runs behave as RunOutcome promises.              *)
EXTENDS RewardSweep, RunLifecycle, FiniteSetTheorems, WellFoundedInduction, TLAPS

----------------------------------------------------------------------------
(* Least and greatest elements.                                            *)

(* A non-empty set of natural numbers has a least element.                 *)
LEMMA NatMin ==
  ASSUME NEW S \in SUBSET Nat, S # {}
  PROVE  \E x \in S : \A y \in S : x <= y
<1> DEFINE R == {ss \in Nat \X Nat : ss[1] < ss[2]}
<1>0. R = OpToRel(<, Nat)
  BY DEF OpToRel
<1>1. IsWellFoundedOn(R, Nat)
  BY <1>0, NatLessThanWellFounded
<1>2. PICK x \in S : \A y \in S : ~ (<<y, x>> \in R)
  <2> HIDE DEF R
  <2> QED BY <1>1, WFMin
<1>3. ASSUME NEW y \in S PROVE x <= y
  <2>1. ~ (y < x)
    <3>1. <<y, x>> \in Nat \X Nat
      OBVIOUS
    <3>2. <<y, x>>[1] = y /\ <<y, x>>[2] = x
      OBVIOUS
    <3> QED BY <1>2, <3>1, <3>2
  <2> HIDE DEF R
  <2> QED BY <2>1
<1>4. QED
  BY <1>3

(* Min of a non-empty set of natural numbers is its least element.         *)
LEMMA MinIsLeast ==
  ASSUME NEW S \in SUBSET Nat, S # {}
  PROVE  Min(S) \in S /\ \A y \in S : Min(S) <= y
  BY NatMin DEF Min

----------------------------------------------------------------------------
(* Types.                                                                  *)

Delegation == [id : Nat, assigners : SUBSET (Nodes \cup Others)]
Vote == [assigners : SUBSET (Nodes \cup Others), prior : Nat]
LoopState ==
  [pc : {"idle", "delegation", "coupons", "drain"}, sweep : BOOLEAN, reads : Nat,
   delegation : Delegation, oldest : Nat, read : SUBSET Coupons, batch : SUBSET Coupons,
   todo : SUBSET Coupons, alone : SUBSET Coupons, refused : SUBSET Coupons]

LedgerOK ==
  /\ now \in Nat
  /\ state \in [Coupons -> {"none", "unassigned", "assigned"}]
  /\ expires \in [Coupons -> Nat]
  /\ live \in SUBSET Delegation
  /\ votes \in SUBSET Vote
  /\ created \in [proposed : Nat, executed : Nat]
  /\ \A d \in live : d.id <= created.executed

NodesOK ==
  /\ loop \in [Nodes -> LoopState]
  /\ gauge \in [Nodes -> Nat]
  /\ seen \in [Nodes -> SUBSET Coupons]

TypeInv == LedgerOK /\ NodesOK

(* The newest of the active delegations is one of them.                    *)
LEMMA NewestIsLive ==
  ASSUME LedgerOK, live # {}
  PROVE  Newest \in live
<1> DEFINE S == {created.executed - d.id : d \in live}
<1>1. S \in SUBSET Nat /\ S # {}
  BY DEF LedgerOK, Delegation
<1>2. PICK x \in S : \A y \in S : x <= y
  <2> HIDE DEF S
  <2> QED BY <1>1, NatMin
<1>3. PICK d \in live : x = created.executed - d.id
  BY <1>2
<1>4. \A e \in live : e.id <= d.id
  <2> SUFFICES ASSUME NEW e \in live PROVE e.id <= d.id
    OBVIOUS
  <2>1. created.executed - e.id \in S
    OBVIOUS
  <2>2. x <= created.executed - e.id
    BY <2>1, <1>2
  <2> QED BY <2>2, <1>3 DEF LedgerOK, Delegation
<1> QED BY <1>4 DEF Newest

(* The loop of a node between two passes.                                  *)
LEMMA IdleType ==
  ASSUME NEW k \in Nat
  PROVE  Idle(k) \in LoopState
  BY DEF Idle, NoDelegation, LoopState, Delegation

(* A pass counts its read.                                                 *)
LEMMA ReadsType ==
  ASSUME NEW x \in LoopState
  PROVE  Reads(x) \in Nat
  BY DEF Reads, LoopState

(* The oldest expiry read is a time, and none that is left is older.       *)
LEMMA OldestIsLeast ==
  ASSUME LedgerOK, NEW C \in SUBSET Coupons
  PROVE  /\ OldestExpiry(C) \in Nat
         /\ \A c \in C : expires[c] > now => OldestExpiry(C) \in 1..expires[c]
<1> DEFINE saved == {expires[c] : c \in {k \in C : expires[k] > now}}
<1>1. saved \in SUBSET Nat /\ \A s \in saved : s > 0
  BY DEF LedgerOK
<1>2. CASE saved = {}
  BY <1>2 DEF OldestExpiry
<1>3. CASE saved # {}
  <2>1. Min(saved) \in saved /\ \A y \in saved : Min(saved) <= y
    <3> HIDE DEF saved
    <3> QED BY <1>1, <1>3, MinIsLeast
  <2>2. OldestExpiry(C) = Min(saved)
    BY <1>3 DEF OldestExpiry
  <2>3. Min(saved) \in Nat /\ Min(saved) > 0
    <3> HIDE DEF saved
    <3> QED BY <1>1, <2>1
  <2>4. ASSUME NEW c \in C, expires[c] > now PROVE Min(saved) <= expires[c]
    <3>1. expires[c] \in saved
      BY <2>4
    <3> QED BY <2>1, <3>1
  <2>5. \A c \in C : expires[c] \in Nat
    BY DEF LedgerOK
  <2> HIDE DEF saved
  <2> QED BY <2>2, <2>3, <2>4, <2>5
<1> QED BY <1>2, <1>3

----------------------------------------------------------------------------
(* Submissions.                                                            *)

(* What is submitted is part of what is left, the most urgent part of the  *)
(* coupons tried alone or, when there is none, of the chunks to come.      *)
LEMMA SubmissionIsUrgent ==
  ASSUME TypeInv, NEW n \in Nodes, NEW K \in Submissions(n)
  PROVE  /\ K \in SUBSET Coupons
         /\ \/ /\ K \subseteq loop[n].alone /\ Cardinality(K) = 1
               /\ \A c \in K, d \in loop[n].alone \ K : expires[c] <= expires[d]
            \/ /\ K \subseteq loop[n].todo /\ loop[n].alone = {}
               /\ \A c \in K, d \in loop[n].todo \ K : expires[c] <= expires[d]
<1>1. loop[n].alone \in SUBSET Coupons /\ loop[n].todo \in SUBSET Coupons
  BY DEF TypeInv, NodesOK, LoopState
<1>2. CASE loop[n].alone # {}
  <2>1. K \in Chunks(loop[n].alone, 1)
    BY <1>2 DEF Submissions
  <2>2. IsFiniteSet(loop[n].alone)
    BY <1>1, FS_Subset, ConstantsAssumption
  <2>3. Cardinality(loop[n].alone) \in Nat /\ Cardinality(loop[n].alone) # 0
    BY <2>2, <1>2, FS_EmptySet, FS_CardinalityType
  <2> QED BY <2>1, <2>3, <1>1 DEF Chunks
<1>3. CASE loop[n].alone = {}
  BY <1>1, <1>3 DEF Submissions, Chunks
<1> QED BY <1>2, <1>3

(* Every answer to a submission: coupons are assigned or left as they are, *)
(* and only the sweep's own sets of coupons change.                        *)
LEMMA SubmissionMoves ==
  ASSUME TypeInv, NEW n \in Nodes, NEW K \in SUBSET Coupons,
         Accepted(n, K) \/ Contended(n, K) \/ Rejected(n, K) \/ TimesOut(n, K)
  PROVE  /\ state' = state \/ state' = [c \in Coupons |-> IF c \in K THEN "assigned" ELSE state[c]]
         /\ loop' \in [Nodes -> LoopState]
         /\ \A m \in Nodes : /\ loop'[m].pc = loop[m].pc
                             /\ loop'[m].oldest = loop[m].oldest
                             /\ loop'[m].read = loop[m].read
                             /\ m # n => loop'[m] = loop[m]
<1> DEFINE Same(x) == /\ x \in LoopState
                      /\ x.pc = loop[n].pc /\ x.oldest = loop[n].oldest /\ x.read = loop[n].read
<1>1. loop \in [Nodes -> LoopState] /\ loop[n] \in LoopState
  BY DEF TypeInv, NodesOK
<1>2. \E x : Same(x) /\ loop' = [loop EXCEPT ![n] = x]
  <2>1. Same(After(loop[n], K)) /\ Same(Ended(loop[n]))
    BY <1>1 DEF After, Ended, LoopState
  <2>2. Same(Skipped(loop[n], K)) /\ Same(FannedOut(loop[n], K))
    BY <1>1 DEF Skipped, FannedOut, LoopState
  <2>3. CASE Accepted(n, K)
    BY <2>1, <2>3 DEF Accepted
  <2>4. CASE Contended(n, K)
    BY <2>1, <2>4 DEF Contended
  <2>5. CASE Rejected(n, K)
    <3>1. \/ loop' = [loop EXCEPT ![n] = Skipped(loop[n], K)]
          \/ loop' = [loop EXCEPT ![n] = FannedOut(loop[n], K)]
      BY <2>5 DEF Rejected
    <3> QED BY <2>2, <3>1
  <2>6. CASE TimesOut(n, K)
    BY <2>1, <2>6 DEF TimesOut
  <2> QED BY <2>3, <2>4, <2>5, <2>6
<1>3. state' = state \/ state' = [c \in Coupons |-> IF c \in K THEN "assigned" ELSE state[c]]
  BY DEF Accepted, Contended, Rejected, TimesOut, Assigned
<1>4. PICK x : Same(x) /\ loop' = [loop EXCEPT ![n] = x]
  BY <1>2
<1>5. loop' \in [Nodes -> LoopState]
  BY <1>1, <1>4
<1>6. \A m \in Nodes : IF m = n THEN loop'[m] = x ELSE loop'[m] = loop[m]
  BY <1>1, <1>4
<1> QED BY <1>3, <1>4, <1>5, <1>6

(* A submission of a node, answered or not.                                *)
LEMMA SubmitPicks ==
  ASSUME TypeInv, NEW n \in Nodes, Submit(n) \/ SubmitTimesOut(n)
  PROVE  /\ \E K \in Submissions(n) :
              Accepted(n, K) \/ Contended(n, K) \/ Rejected(n, K) \/ TimesOut(n, K)
         /\ UNCHANGED <<now, expires, live, votes, created, gauge, seen>>
  BY DEF Submit, SubmitTimesOut, SubmitFrame

----------------------------------------------------------------------------
(* The types hold.                                                         *)

(* The committee and the ledger start empty, the loops idle.               *)
LEMMA InitType == Init => TypeInv
<1> SUFFICES ASSUME Init PROVE TypeInv
  OBVIOUS
<1>1. Idle(ReadsPerSweep) \in LoopState
  BY IdleType, ConstantsAssumption
<1>2. LedgerOK
  BY DEF Init, LedgerOK
<1>3. NodesOK
  BY <1>1 DEF Init, NodesOK
<1> QED BY <1>2, <1>3 DEF TypeInv

(* Every step keeps the types.                                             *)
LEMMA TypeStep == TypeInv /\ [Next]_vars => TypeInv'
<1> SUFFICES ASSUME TypeInv, [Next]_vars PROVE TypeInv'
  OBVIOUS
<1>l. ASSUME UNCHANGED <<now, state, expires, live, votes, created>> PROVE LedgerOK'
  BY <1>l DEF TypeInv, LedgerOK
<1>n. ASSUME UNCHANGED <<loop, gauge, seen>> PROVE NodesOK'
  BY <1>n DEF TypeInv, NodesOK
<1>1. CASE Tick
  BY <1>1, <1>n DEF Tick, TypeInv, LedgerOK
<1>2. ASSUME NEW c \in Coupons, Earn(c) PROVE TypeInv'
  BY <1>2, <1>n, ConstantsAssumption DEF Earn, TypeInv, LedgerOK
<1>3. ASSUME NEW A \in SUBSET (Nodes \cup Others) \ {{}}, NEW k \in 0..MaxVotes,
             ProposeSetup(A, k)
      PROVE  TypeInv'
  BY <1>3, <1>n, ConstantsAssumption DEF ProposeSetup, TypeInv, LedgerOK, Vote
<1>4. ASSUME NEW v \in votes, ExecuteSetup(v) PROVE TypeInv'
  <2>1. v \in Vote /\ created.executed \in Nat
    BY DEF TypeInv, LedgerOK
  <2>2. [id |-> created.executed + 1, assigners |-> v.assigners] \in Delegation
    BY <2>1 DEF Vote, Delegation
  <2>3. created' \in [proposed : Nat, executed : Nat] /\ created'.executed = created.executed + 1
    BY <1>4 DEF ExecuteSetup, TypeInv, LedgerOK
  <2>4. live' \in SUBSET Delegation /\ votes' \in SUBSET Vote
    BY <1>4, <2>2 DEF ExecuteSetup, TypeInv, LedgerOK
  <2>5. \A d \in live' : d.id <= created'.executed
    BY <1>4, <2>1, <2>3 DEF ExecuteSetup, TypeInv, LedgerOK, Delegation
  <2>6. LedgerOK'
    BY <1>4, <2>3, <2>4, <2>5 DEF ExecuteSetup, TypeInv, LedgerOK
  <2> QED BY <1>4, <1>n, <2>6 DEF ExecuteSetup, TypeInv
<1>5. ASSUME NEW d \in live, ExecuteRevoke(d) PROVE TypeInv'
  BY <1>5, <1>n DEF ExecuteRevoke, TypeInv, LedgerOK
<1>6. CASE AssignedElsewhere
  BY <1>6, <1>n DEF AssignedElsewhere, TypeInv, LedgerOK, Unassigned
<1>7. ASSUME NEW n \in Nodes, Loop(n) \/ Faulty(n) PROVE TypeInv'
  <2>0. loop \in [Nodes -> LoopState] /\ loop[n] \in LoopState /\ loop[n].reads \in Nat
    BY DEF TypeInv, NodesOK, LoopState
  <2>e. Idle(Reads(loop[n])) \in LoopState
    BY <2>0, IdleType, ReadsType
  <2>1. CASE StartPass(n)
    <3>1. \A b \in BOOLEAN : [Idle(loop[n].reads) EXCEPT !.pc = "delegation", !.sweep = b] \in LoopState
      BY <2>0, IdleType DEF LoopState
    <3>2. NodesOK'
      BY <2>0, <2>1, <3>1 DEF StartPass, Pass, TypeInv, NodesOK
    <3> QED BY <2>1, <1>l, <3>2 DEF StartPass, ledger, TypeInv
  <2>2. CASE PruneUnserved(n)
    BY <2>2, <1>l DEF PruneUnserved, ledger, TypeInv, NodesOK
  <2>3. CASE ReadDelegation(n)
    <3>1. live # {} => Newest \in Delegation
      BY NewestIsLive DEF TypeInv, LedgerOK
    <3>2. live # {} =>
            [loop EXCEPT ![n].pc = "coupons", ![n].delegation = Newest] \in [Nodes -> LoopState]
      BY <2>0, <3>1 DEF LoopState
    <3>3. CASE live = {}
      BY <2>3, <2>0, <2>e, <3>3, <1>l DEF ReadDelegation, EndPass, ledger, TypeInv, NodesOK
    <3>4. CASE live # {}
      <4>1. loop' \in [Nodes -> LoopState] /\ UNCHANGED <<gauge, seen>>
        BY <2>3, <3>2, <3>4 DEF ReadDelegation
      <4> QED BY <2>3, <1>l, <4>1 DEF ReadDelegation, ledger, TypeInv, NodesOK
    <3> QED BY <3>3, <3>4
  <2>4. CASE ReadCoupons(n)
    <3>1. Unassigned \in SUBSET Coupons /\ Assignable(Unassigned) \in SUBSET Coupons
      BY DEF Unassigned, Assignable
    <3>2. OldestExpiry(Unassigned) \in Nat
      BY <3>1, OldestIsLeast DEF TypeInv
    <3>3. NodesOK'
      BY <2>0, <2>4, <3>1, <3>2 DEF ReadCoupons, TypeInv, NodesOK, LoopState
    <3> QED BY <2>4, <1>l, <3>3 DEF ReadCoupons, ledger, TypeInv
  <2>5. CASE Submit(n) \/ SubmitTimesOut(n)
    <3>1. PICK K \in Submissions(n) :
            Accepted(n, K) \/ Contended(n, K) \/ Rejected(n, K) \/ TimesOut(n, K)
      BY <2>5, SubmitPicks
    <3>2. K \in SUBSET Coupons
      BY SubmissionIsUrgent
    <3>3. /\ state' = state \/ state' = [c \in Coupons |-> IF c \in K THEN "assigned" ELSE state[c]]
          /\ loop' \in [Nodes -> LoopState]
      BY <3>1, <3>2, SubmissionMoves
    <3>4. UNCHANGED <<now, expires, live, votes, created, gauge, seen>>
      BY <2>5, SubmitPicks
    <3> QED BY <3>3, <3>4 DEF TypeInv, LedgerOK, NodesOK
  <2>6. CASE Report(n)
    <3>1. loop[n].oldest \in Nat /\ loop[n].read \in SUBSET Coupons
      BY <2>0 DEF LoopState
    <3>2. NodesOK'
      BY <2>0, <2>6, <2>e, <3>1 DEF Report, EndPass, TypeInv, NodesOK
    <3> QED BY <2>6, <1>l, <3>2 DEF Report, ledger, TypeInv
  <2>7. CASE PassFails(n)
    <3>1. NodesOK'
      BY <2>0, <2>7, <2>e DEF PassFails, EndPass, TypeInv, NodesOK
    <3> QED BY <2>7, <1>l, <3>1 DEF PassFails, ledger, TypeInv
  <2>8. CASE Restart(n)
    <3>1. Idle(ReadsPerSweep) \in LoopState
      BY IdleType, ConstantsAssumption
    <3>2. NodesOK'
      BY <2>0, <2>8, <3>1 DEF Restart, TypeInv, NodesOK
    <3> QED BY <2>8, <1>l, <3>2 DEF Restart, ledger, TypeInv
  <2>9. CASE Unserve(n)
    BY <2>9, <1>l, <1>n DEF Unserve, ledger, TypeInv
  <2> QED BY <1>7, <2>1, <2>2, <2>3, <2>4, <2>5, <2>6, <2>7, <2>8, <2>9 DEF Loop, Faulty
<1>8. CASE UNCHANGED vars
  BY <1>8, <1>l, <1>n DEF vars, TypeInv
<1> QED BY <1>1, <1>2, <1>3, <1>4, <1>5, <1>6, <1>7, <1>8 DEF Next, Committee

----------------------------------------------------------------------------
(* The countdown.                                                          *)

(* A time t stands for the coupons of C: no live one expires before it.    *)
Stands(t, C) == \A c \in C \cap Unassigned : expires[c] > now => t \in 1..expires[c]

(* What was read has been earned, so its expiry is settled; the oldest     *)
(* expiry of the read under way stands for it, and so does the countdown.  *)
AlarmInv ==
  \A n \in Nodes :
    /\ \A c \in seen[n] \cup loop[n].read : state[c] # "none"
    /\ Stands(loop[n].oldest, loop[n].read)
    /\ Stands(gauge[n], seen[n])

(* Nothing has been read at first.                                         *)
LEMMA InitAlarm == Init => AlarmInv
  BY DEF Init, AlarmInv, Idle, Stands

(* Every step keeps the countdown up.                                      *)
LEMMA AlarmStep == TypeInv /\ TypeInv' /\ AlarmInv /\ [Next]_vars => AlarmInv'
<1> SUFFICES ASSUME TypeInv, TypeInv', AlarmInv, [Next]_vars PROVE AlarmInv'
  OBVIOUS
<1> USE DEF TypeInv
<1>t. \A n \in Nodes : seen[n] \in SUBSET Coupons /\ loop[n].read \in SUBSET Coupons
  BY DEF NodesOK, LoopState
<1>u. ASSUME UNCHANGED <<gauge, seen>>, now <= now',
             \A n \in Nodes : loop'[n].oldest = loop[n].oldest /\ loop'[n].read = loop[n].read,
             \A c \in Coupons :
               /\ state[c] # "none" => state'[c] # "none" /\ expires'[c] = expires[c]
               /\ state[c] # "none" /\ state'[c] = "unassigned" => state[c] = "unassigned"
      PROVE  AlarmInv'
  <2> SUFFICES ASSUME NEW n \in Nodes
               PROVE  /\ \A c \in seen[n] \cup loop[n].read : state'[c] # "none"
                      /\ Stands(loop[n].oldest, loop[n].read)'
                      /\ Stands(gauge[n], seen[n])'
    BY <1>u DEF AlarmInv
  <2>1. Stands(loop[n].oldest, loop[n].read) /\ Stands(gauge[n], seen[n])
    BY DEF AlarmInv
  <2>2. \A c \in seen[n] \cup loop[n].read : state[c] # "none"
    BY DEF AlarmInv
  <2>3. \A t, C : C \in SUBSET Coupons /\ (\A c \in C : state[c] # "none") /\ Stands(t, C)
           => (\A c \in C : state'[c] # "none")
              /\ \A c \in C \cap Unassigned' : expires'[c] > now' => t \in 1..expires'[c]
    BY <1>u DEF Stands, Unassigned, LedgerOK
  <2> QED BY <2>1, <2>2, <2>3, <1>t, <1>u DEF Stands
<1>s. ASSUME UNCHANGED <<now, state, expires>>, NEW n \in Nodes,
             \A m \in Nodes \ {n} : /\ loop'[m] = loop[m] /\ gauge'[m] = gauge[m]
                                    /\ seen'[m] = seen[m],
             \A c \in seen'[n] \cup loop'[n].read : state[c] # "none",
             Stands(loop'[n].oldest, loop'[n].read), Stands(gauge'[n], seen'[n])
      PROVE  AlarmInv'
  BY <1>s DEF AlarmInv, Stands, Unassigned
<1>1. CASE Tick
  BY <1>1, <1>u DEF Tick, LedgerOK
<1>2. ASSUME NEW c \in Coupons, Earn(c) PROVE AlarmInv'
  BY <1>2, <1>u DEF Earn, LedgerOK
<1>3. ASSUME UNCHANGED <<now, state, expires, loop, gauge, seen>> PROVE AlarmInv'
  BY <1>3, <1>u DEF LedgerOK
<1>6. CASE AssignedElsewhere
  BY <1>6, <1>u DEF AssignedElsewhere, LedgerOK, Unassigned
<1>7. ASSUME NEW n \in Nodes, Loop(n) \/ Faulty(n) PROVE AlarmInv'
  <2>0. /\ loop \in [Nodes -> LoopState] /\ gauge \in [Nodes -> Nat]
        /\ seen \in [Nodes -> SUBSET Coupons]
    BY DEF NodesOK
  <2>i. \A k, x : x = Idle(k) => x.read = {} /\ x.oldest = 0
    BY DEF Idle
  <2>e. Stands(0, {}) /\ Stands(gauge[n], seen[n]) /\ Stands(loop[n].oldest, loop[n].read)
    BY DEF AlarmInv, Stands
  <2>k. \A c \in seen[n] \cup loop[n].read : state[c] # "none"
    BY DEF AlarmInv
  <2>1. CASE StartPass(n)
    <3>1. loop'[n].read = {} /\ loop'[n].oldest = 0 /\ \A m \in Nodes \ {n} : loop'[m] = loop[m]
      BY <2>0, <2>1 DEF StartPass, Pass, Idle
    <3> QED BY <2>1, <2>e, <2>k, <3>1, <1>s DEF StartPass, ledger
  <2>2. CASE PruneUnserved(n)
    <3>1. /\ loop' = loop /\ gauge'[n] = 0 /\ seen'[n] = {}
          /\ \A m \in Nodes \ {n} : gauge'[m] = gauge[m] /\ seen'[m] = seen[m]
      BY <2>0, <2>2 DEF PruneUnserved
    <3> QED BY <2>2, <2>e, <2>k, <3>1, <1>s DEF PruneUnserved, ledger
  <2>3. CASE ReadDelegation(n)
    <3>1. CASE live = {}
      <4>1. /\ loop'[n] = Idle(Reads(loop[n])) /\ gauge'[n] = 0 /\ seen'[n] = {}
            /\ \A m \in Nodes \ {n} : /\ loop'[m] = loop[m] /\ gauge'[m] = gauge[m]
                                      /\ seen'[m] = seen[m]
        BY <2>0, <2>3, <3>1 DEF ReadDelegation, EndPass
      <4>2. loop'[n].read = {} /\ loop'[n].oldest = 0
        BY <4>1, <2>i
      <4> QED BY <2>3, <2>e, <2>k, <4>1, <4>2, <1>s DEF ReadDelegation, ledger
    <3>2. CASE live # {}
      <4>1. /\ loop'[n].read = loop[n].read /\ loop'[n].oldest = loop[n].oldest
            /\ \A m \in Nodes \ {n} : loop'[m] = loop[m]
        BY <2>0, <2>3, <3>2 DEF ReadDelegation, LoopState
      <4> QED BY <2>3, <2>e, <2>k, <3>2, <4>1, <1>s DEF ReadDelegation, ledger
    <3> QED BY <3>1, <3>2
  <2>4. CASE ReadCoupons(n)
    <3>1. /\ loop'[n].read = Unassigned /\ loop'[n].oldest = OldestExpiry(Unassigned)
          /\ \A m \in Nodes \ {n} : loop'[m] = loop[m]
      BY <2>0, <2>4 DEF ReadCoupons, LoopState
    <3>2. Unassigned \in SUBSET Coupons /\ \A c \in Unassigned : state[c] # "none"
      BY DEF Unassigned
    <3>3. Stands(OldestExpiry(Unassigned), Unassigned)
      BY <3>2, OldestIsLeast DEF Stands
    <3> QED BY <2>4, <2>e, <2>k, <3>1, <3>2, <3>3, <1>s DEF ReadCoupons, ledger
  <2>5. CASE Submit(n) \/ SubmitTimesOut(n)
    <3>1. PICK K \in Submissions(n) :
            Accepted(n, K) \/ Contended(n, K) \/ Rejected(n, K) \/ TimesOut(n, K)
      BY <2>5, SubmitPicks
    <3>2. K \in SUBSET Coupons
      BY SubmissionIsUrgent
    <3>3. /\ state' = state \/ state' = [c \in Coupons |-> IF c \in K THEN "assigned" ELSE state[c]]
          /\ \A m \in Nodes : loop'[m].oldest = loop[m].oldest /\ loop'[m].read = loop[m].read
      BY <3>1, <3>2, SubmissionMoves
    <3>4. UNCHANGED <<now, expires, gauge, seen>>
      BY <2>5, SubmitPicks
    <3> QED BY <3>3, <3>4, <1>u DEF LedgerOK
  <2>6. CASE Report(n)
    <3>1. /\ loop'[n] = Idle(Reads(loop[n]))
          /\ gauge'[n] = loop[n].oldest /\ seen'[n] = loop[n].read
          /\ \A m \in Nodes \ {n} : /\ loop'[m] = loop[m] /\ gauge'[m] = gauge[m]
                                    /\ seen'[m] = seen[m]
      BY <2>0, <2>6 DEF Report, EndPass
    <3>2. loop'[n].read = {} /\ loop'[n].oldest = 0
      BY <3>1, <2>i
    <3> QED BY <2>6, <2>e, <2>k, <3>1, <3>2, <1>s DEF Report, ledger
  <2>7. CASE PassFails(n)
    <3>1. loop'[n] = Idle(Reads(loop[n])) /\ \A m \in Nodes \ {n} : loop'[m] = loop[m]
      BY <2>0, <2>7 DEF PassFails, EndPass
    <3>2. loop'[n].read = {} /\ loop'[n].oldest = 0
      BY <3>1, <2>i
    <3> QED BY <2>7, <2>e, <2>k, <3>1, <3>2, <1>s DEF PassFails, ledger
  <2>8. CASE Restart(n)
    <3>1. /\ loop'[n] = Idle(ReadsPerSweep) /\ gauge'[n] = 0 /\ seen'[n] = {}
          /\ \A m \in Nodes \ {n} : /\ loop'[m] = loop[m] /\ gauge'[m] = gauge[m]
                                    /\ seen'[m] = seen[m]
      BY <2>0, <2>8 DEF Restart
    <3>2. loop'[n].read = {} /\ loop'[n].oldest = 0
      BY <3>1, <2>i
    <3> QED BY <2>8, <2>e, <2>k, <3>1, <3>2, <1>s DEF Restart, ledger
  <2>9. CASE Unserve(n)
    BY <2>9, <1>3 DEF Unserve, ledger
  <2> QED BY <1>7, <2>1, <2>2, <2>3, <2>4, <2>5, <2>6, <2>7, <2>8, <2>9 DEF Loop, Faulty
<1>8. CASE Committee
  BY <1>8, <1>3 DEF Committee, ProposeSetup, ExecuteSetup, ExecuteRevoke
<1>9. CASE UNCHANGED vars
  BY <1>9, <1>3 DEF vars
<1> QED BY <1>1, <1>2, <1>6, <1>7, <1>8, <1>9 DEF Next

----------------------------------------------------------------------------
(* The order of a sweep.                                                   *)

(* What a pass x has still to do: of its batch every coupon is left to be  *)
(* submitted, was refused, or is assigned, and those tried alone are the   *)
(* most urgent of what is left.  Outside a drain there is no batch.        *)
Ordered(x) ==
  /\ x.pc # "drain" => x.batch = {} /\ x.todo = {} /\ x.alone = {} /\ x.refused = {}
  /\ x.todo \subseteq x.batch /\ x.alone \subseteq x.batch
  /\ \A c \in x.batch : /\ state[c] # "none"
                        /\ c \in x.todo \cup x.alone \cup x.refused \/ state[c] = "assigned"
  /\ \A c \in x.alone, d \in x.todo : expires[c] <= expires[d]

UrgentInv == \A n \in Nodes : Ordered(loop[n])

(* No pass has started at first.                                           *)
LEMMA InitUrgent == Init => UrgentInv
  BY DEF Init, UrgentInv, Ordered, Idle

(* Between two passes there is nothing left to do.                         *)
LEMMA IdleOrdered == \A k, x : x = Idle(k) => Ordered(x)
  BY DEF Idle, Ordered

(* An answered submission leaves the sweep's order as it was.              *)
LEMMA SubmissionOrdered ==
  ASSUME TypeInv, UrgentInv, NEW n \in Nodes, NEW K \in Submissions(n), At(n, "drain"),
         Accepted(n, K) \/ Contended(n, K) \/ Rejected(n, K) \/ TimesOut(n, K),
         expires' = expires
  PROVE  Ordered(loop[n])'
<1> DEFINE L == loop[n]
<1>1. loop \in [Nodes -> LoopState] /\ L \in LoopState /\ Ordered(L) /\ L.pc = "drain"
  BY DEF TypeInv, NodesOK, UrgentInv, At
<1>2. /\ K \in SUBSET Coupons
      /\ \/ /\ K \subseteq L.alone /\ Cardinality(K) = 1
         \/ /\ K \subseteq L.todo /\ L.alone = {}
            /\ \A c \in K, d \in L.todo \ K : expires[c] <= expires[d]
  BY SubmissionIsUrgent
<1>3. state' = state \/ state' = [c \in Coupons |-> IF c \in K THEN "assigned" ELSE state[c]]
  BY <1>2, SubmissionMoves
<1>4. \A c \in Coupons : /\ state[c] # "none" => state'[c] # "none"
                         /\ state[c] = "assigned" => state'[c] = "assigned"
  BY <1>3
<1>5. L.batch \subseteq Coupons
  BY <1>1 DEF LoopState
<1>6. CASE loop' = [loop EXCEPT ![n] = Ended(L)]
  <2>1. loop'[n] = Ended(L)
    BY <1>1, <1>6
  <2>2. /\ Ended(L).pc = L.pc /\ Ended(L).batch = {} /\ Ended(L).todo = {}
        /\ Ended(L).alone = {} /\ Ended(L).refused = {}
    BY <1>1 DEF Ended, LoopState
  <2> QED BY <2>1, <2>2 DEF Ordered
<1>7. CASE Accepted(n, K)
  <2>1. loop'[n] = After(L, K)
    BY <1>1, <1>7 DEF Accepted
  <2>2. /\ After(L, K).pc = L.pc /\ After(L, K).batch = L.batch /\ After(L, K).refused = L.refused
        /\ After(L, K).todo = L.todo \ K /\ After(L, K).alone = L.alone \ K
    BY <1>1 DEF After, LoopState
  <2>3. \A c \in K : state'[c] = "assigned"
    BY <1>2, <1>7 DEF Accepted, Assigned
  <2> QED BY <1>1, <1>4, <1>5, <2>1, <2>2, <2>3 DEF Ordered
<1>8. CASE Rejected(n, K) /\ Cardinality(K) = 1
  <2>1. loop'[n] = Skipped(L, K) /\ state' = state
    BY <1>1, <1>8 DEF Rejected
  <2>2. /\ Skipped(L, K).pc = L.pc /\ Skipped(L, K).batch = L.batch
        /\ Skipped(L, K).refused = L.refused \cup K
        /\ Skipped(L, K).todo = L.todo \ K /\ Skipped(L, K).alone = L.alone \ K
    BY <1>1 DEF Skipped, LoopState
  <2> QED BY <1>1, <2>1, <2>2 DEF Ordered
<1>9. CASE Rejected(n, K) /\ Cardinality(K) # 1
  <2>1. loop'[n] = FannedOut(L, K) /\ state' = state
    BY <1>1, <1>9 DEF Rejected
  <2>2. /\ FannedOut(L, K).pc = L.pc /\ FannedOut(L, K).batch = L.batch
        /\ FannedOut(L, K).refused = L.refused
        /\ FannedOut(L, K).todo = L.todo \ K /\ FannedOut(L, K).alone = K
    BY <1>1 DEF FannedOut, LoopState
  <2>3. K \subseteq L.todo /\ L.alone = {} /\ \A c \in K, d \in L.todo \ K : expires[c] <= expires[d]
    BY <1>2, <1>9
  <2> QED BY <1>1, <2>1, <2>2, <2>3 DEF Ordered
<1> QED BY <1>6, <1>7, <1>8, <1>9 DEF Contended, TimesOut

(* Every step keeps every sweep ordered.                                   *)
LEMMA UrgentStep == TypeInv /\ UrgentInv /\ [Next]_vars => UrgentInv'
<1> SUFFICES ASSUME TypeInv, UrgentInv, [Next]_vars PROVE UrgentInv'
  OBVIOUS
<1>0. loop \in [Nodes -> LoopState] /\ \A n \in Nodes : loop[n] \in LoopState
  BY DEF TypeInv, NodesOK
<1>u. ASSUME UNCHANGED loop,
             \A c \in Coupons : /\ state[c] # "none" => state'[c] # "none" /\ expires'[c] = expires[c]
                                /\ state[c] = "assigned" => state'[c] = "assigned"
      PROVE  UrgentInv'
  <2> SUFFICES ASSUME NEW n \in Nodes PROVE Ordered(loop[n])'
    BY DEF UrgentInv
  <2>1. Ordered(loop[n]) /\ loop'[n] = loop[n]
    BY <1>u DEF UrgentInv
  <2> QED BY <1>0, <1>u, <2>1 DEF Ordered, LoopState
<1>s. ASSUME UNCHANGED <<state, expires>>, NEW n \in Nodes,
             \A m \in Nodes \ {n} : loop'[m] = loop[m], Ordered(loop'[n])
      PROVE  UrgentInv'
  BY <1>s DEF UrgentInv, Ordered
<1>1. CASE Tick
  BY <1>1, <1>u DEF Tick
<1>2. ASSUME NEW c \in Coupons, Earn(c) PROVE UrgentInv'
  BY <1>2, <1>u DEF Earn, TypeInv, LedgerOK
<1>3. ASSUME UNCHANGED <<state, expires, loop>> PROVE UrgentInv'
  BY <1>3, <1>u
<1>6. CASE AssignedElsewhere
  BY <1>6, <1>u DEF AssignedElsewhere, TypeInv, LedgerOK
<1>7. ASSUME NEW n \in Nodes, Loop(n) \/ Faulty(n) PROVE UrgentInv'
  <2>0. loop[n] \in LoopState /\ Ordered(loop[n])
    BY <1>0 DEF UrgentInv
  <2>e. ASSUME UNCHANGED <<state, expires>>, NEW k, loop' = [loop EXCEPT ![n] = Idle(k)]
        PROVE  UrgentInv'
    <3>1. loop'[n] = Idle(k) /\ \A m \in Nodes \ {n} : loop'[m] = loop[m]
      BY <2>e, <1>0
    <3> QED BY <2>e, <3>1, IdleOrdered, <1>s
  <2>1. CASE StartPass(n)
    <3>1. /\ loop'[n].pc = "delegation" /\ loop'[n].batch = {} /\ loop'[n].todo = {}
          /\ loop'[n].alone = {} /\ loop'[n].refused = {}
          /\ \A m \in Nodes \ {n} : loop'[m] = loop[m]
      BY <1>0, <2>1 DEF StartPass, Pass, Idle
    <3>2. Ordered(loop'[n])
      BY <3>1 DEF Ordered
    <3> QED BY <2>1, <3>1, <3>2, <1>s DEF StartPass, ledger
  <2>2. CASE PruneUnserved(n)
    BY <2>2, <1>3 DEF PruneUnserved, ledger
  <2>3. CASE ReadDelegation(n)
    <3>1. CASE live = {}
      BY <2>3, <3>1, <2>e DEF ReadDelegation, EndPass, ledger
    <3>2. CASE live # {}
      <4>1. /\ loop'[n].pc = "coupons" /\ loop'[n].batch = loop[n].batch
            /\ loop'[n].todo = loop[n].todo /\ loop'[n].alone = loop[n].alone
            /\ loop'[n].refused = loop[n].refused
            /\ \A m \in Nodes \ {n} : loop'[m] = loop[m]
        BY <1>0, <2>3, <3>2 DEF ReadDelegation, LoopState
      <4>2. loop[n].pc # "drain"
        BY <2>3 DEF ReadDelegation, At
      <4>3. Ordered(loop'[n])
        BY <2>0, <4>1, <4>2 DEF Ordered
      <4> QED BY <2>3, <4>1, <4>3, <1>s DEF ReadDelegation, ledger
    <3> QED BY <3>1, <3>2
  <2>4. CASE ReadCoupons(n)
    <3> DEFINE B == IF Assigns(n) THEN Assignable(Unassigned) ELSE {}
    <3>1. /\ loop'[n].batch = B /\ loop'[n].todo = B /\ loop'[n].alone = loop[n].alone
          /\ loop'[n].pc = "drain" /\ loop'[n].refused = loop[n].refused
          /\ \A m \in Nodes \ {n} : loop'[m] = loop[m]
      BY <1>0, <2>4 DEF ReadCoupons, LoopState
    <3>2. loop[n].alone = {}
      BY <2>0, <2>4 DEF ReadCoupons, At, Ordered
    <3>3. \A c \in B : state[c] # "none"
      BY DEF Unassigned, Assignable
    <3>4. Ordered(loop'[n])
      <4> HIDE DEF B
      <4> QED BY <3>1, <3>2, <3>3 DEF Ordered
    <3> QED BY <2>4, <3>1, <3>4, <1>s DEF ReadCoupons, ledger
  <2>5. CASE Submit(n) \/ SubmitTimesOut(n)
    <3>1. PICK K \in Submissions(n) :
            Accepted(n, K) \/ Contended(n, K) \/ Rejected(n, K) \/ TimesOut(n, K)
      BY <2>5, SubmitPicks
    <3>2. K \in SUBSET Coupons /\ UNCHANGED expires /\ At(n, "drain")
      BY <2>5, SubmissionIsUrgent, SubmitPicks DEF Submit, SubmitTimesOut
    <3>3. /\ state' = state \/ state' = [c \in Coupons |-> IF c \in K THEN "assigned" ELSE state[c]]
          /\ \A m \in Nodes \ {n} : loop'[m] = loop[m]
      BY <3>1, <3>2, SubmissionMoves
    <3>4. Ordered(loop[n])'
      BY <3>1, <3>2, SubmissionOrdered
    <3>5. ASSUME NEW m \in Nodes \ {n} PROVE Ordered(loop[m])'
      <4>1. Ordered(loop[m]) /\ loop'[m] = loop[m] /\ loop[m] \in LoopState
        BY <1>0, <3>3 DEF UrgentInv
      <4> QED BY <4>1, <3>2, <3>3 DEF Ordered, LoopState
    <3> QED BY <3>4, <3>5 DEF UrgentInv
  <2>6. CASE Report(n)
    BY <2>6, <2>e DEF Report, EndPass, ledger
  <2>7. CASE PassFails(n)
    BY <2>7, <2>e DEF PassFails, EndPass, ledger
  <2>8. CASE Restart(n)
    BY <2>8, <2>e DEF Restart, ledger
  <2>9. CASE Unserve(n)
    BY <2>9, <1>3 DEF Unserve, ledger
  <2> QED BY <1>7, <2>1, <2>2, <2>3, <2>4, <2>5, <2>6, <2>7, <2>8, <2>9 DEF Loop, Faulty
<1>8. CASE Committee
  BY <1>8, <1>3 DEF Committee, ProposeSetup, ExecuteSetup, ExecuteRevoke
<1>9. CASE UNCHANGED vars
  BY <1>9, <1>3 DEF vars
<1> QED BY <1>1, <1>2, <1>6, <1>7, <1>8, <1>9 DEF Next

(* The most urgent coupons go first: of its batch a submission that is     *)
(* committed leaves out no coupon more urgent than one it assigns, unless  *)
(* that coupon was refused on its own.                                     *)
LEMMA SubmissionFirst ==
  ASSUME TypeInv, UrgentInv, NEW n \in Nodes, NEW K \in Submissions(n),
         Accepted(n, K) \/ Contended(n, K) \/ Rejected(n, K) \/ TimesOut(n, K),
         NEW d \in Coupons, state[d] = "unassigned", state'[d] = "assigned",
         NEW c \in loop[n].batch, expires[c] < expires[d]
  PROVE  state'[c] = "assigned" \/ c \in loop[n].refused
<1>1. /\ K \in SUBSET Coupons
      /\ \/ /\ K \subseteq loop[n].alone
            /\ \A a \in K, b \in loop[n].alone \ K : expires[a] <= expires[b]
         \/ /\ K \subseteq loop[n].todo /\ loop[n].alone = {}
            /\ \A a \in K, b \in loop[n].todo \ K : expires[a] <= expires[b]
  BY SubmissionIsUrgent
<1>2. state' = [k \in Coupons |-> IF k \in K THEN "assigned" ELSE state[k]]
  BY <1>1, SubmissionMoves
<1>3. d \in K
  BY <1>2
<1>4. /\ c \in loop[n].todo \cup loop[n].alone \cup loop[n].refused \/ state[c] = "assigned"
      /\ \A a \in loop[n].alone, b \in loop[n].todo : expires[a] <= expires[b]
  BY DEF UrgentInv, Ordered
<1>5. c \in Coupons /\ expires[c] \in Nat /\ expires[d] \in Nat /\ ~(expires[d] <= expires[c])
  BY DEF TypeInv, NodesOK, LoopState, LedgerOK
<1>6. CASE c \in K \/ state[c] = "assigned" \/ c \in loop[n].refused
  BY <1>2, <1>5, <1>6
<1>7. CASE c \in (loop[n].todo \cup loop[n].alone) \ K
  BY <1>1, <1>3, <1>4, <1>5, <1>7
<1> QED BY <1>4, <1>6, <1>7

(* Only the submission of a node changes both its loop and a coupon.       *)
LEMMA OnlySubmit ==
  ASSUME TypeInv, [Next]_vars, NEW n \in Nodes, loop'[n] # loop[n], state' # state
  PROVE  Submit(n) \/ SubmitTimesOut(n)
<1>1. PICK m \in Nodes : Loop(m) \/ Faulty(m)
  BY DEF Next, Tick, Committee, ProposeSetup, ExecuteSetup, ExecuteRevoke, AssignedElsewhere,
         Earn, vars
<1>2. Submit(m) \/ SubmitTimesOut(m)
  BY <1>1 DEF Loop, Faulty, StartPass, PruneUnserved, ReadDelegation, ReadCoupons, Report,
              PassFails, Restart, Unserve, ledger
<1>3. PICK K \in Submissions(m) :
        Accepted(m, K) \/ Contended(m, K) \/ Rejected(m, K) \/ TimesOut(m, K)
  BY <1>2, SubmitPicks
<1>4. \A k \in Nodes : k # m => loop'[k] = loop[k]
  BY <1>3, SubmissionIsUrgent, SubmissionMoves
<1> QED BY <1>2, <1>4

----------------------------------------------------------------------------
(* For every set of nodes and coupons and every bound, a node that has     *)
(* published a countdown for a coupon keeps one no later than its expiry   *)
(* until the coupon is assigned or expired: no failed pass, no assignment  *)
(* elsewhere and no lost credential can silence the alarm.                 *)
THEOREM AlarmSafety == Spec => []AlarmStands
<1>1. Init => TypeInv /\ AlarmInv
  BY InitType, InitAlarm
<1>2. TypeInv /\ AlarmInv /\ [Next]_vars => (TypeInv /\ AlarmInv)'
  BY TypeStep, AlarmStep
<1>3. AlarmInv => AlarmStands
  BY DEF AlarmInv, AlarmStands, Stands
<1> QED BY <1>1, <1>2, <1>3, PTL DEF Spec

(* For every chunk size and every failure, a sweep assigns a coupon only   *)
(* after every more urgent one of its batch was assigned or refused on its *)
(* own.                                                                    *)
THEOREM UrgentSafety == Spec => UrgentFirst
<1>1. Init => TypeInv /\ UrgentInv
  BY InitType, InitUrgent
<1>2. TypeInv /\ UrgentInv /\ [Next]_vars => (TypeInv /\ UrgentInv)'
  BY TypeStep, UrgentStep
<1> DEFINE First == \A n \in Nodes, d \in Coupons :
              (loop'[n] # loop[n] /\ state[d] = "unassigned" /\ state'[d] = "assigned")
                => \A c \in loop[n].batch : expires[c] < expires[d]
                      => state'[c] = "assigned" \/ c \in loop[n].refused
<1>3. TypeInv /\ UrgentInv /\ [Next]_vars => [First]_vars
  <2> SUFFICES ASSUME TypeInv, UrgentInv, [Next]_vars, NEW n \in Nodes, NEW d \in Coupons,
                      loop'[n] # loop[n], state[d] = "unassigned", state'[d] = "assigned",
                      NEW c \in loop[n].batch, expires[c] < expires[d]
               PROVE  state'[c] = "assigned" \/ c \in loop[n].refused
    OBVIOUS
  <2>1. Submit(n) \/ SubmitTimesOut(n)
    BY OnlySubmit
  <2>2. PICK K \in Submissions(n) :
          Accepted(n, K) \/ Contended(n, K) \/ Rejected(n, K) \/ TimesOut(n, K)
    BY <2>1, SubmitPicks
  <2> QED BY <2>2, SubmissionFirst
<1>4. UrgentFirst <=> [][First]_vars
  BY DEF UrgentFirst
<1> HIDE DEF First
<1> QED BY <1>1, <1>2, <1>3, <1>4, PTL DEF Spec

----------------------------------------------------------------------------
(* The runs of a node and the loops of its peers (module RunLifecycle).    *)

TaskState == Alive \cup {"none", "ending", "aborted"}
Instance ==
  [task : TaskState, http : {"idle", "inprogress", "completed", "failed", "cancelled"},
   handle : BOOLEAN]
RequestSteps ==
  {"idle", "register", "persist", "spawn", "take", "mark", "abort", "stop", "flip",
   "broadcast", "recheck", "insert", "handle"}
HandledRequest ==
  [op : {"idle", "start", "cancel", "cancel_row", "retry"}, pc : RequestSteps,
   run : Runs \cup {"none"}, gen : {0} \cup Gens]
PeerRun ==
  [card : BOOLEAN, accepting : BOOLEAN, row : RowStatus, dismissed : BOOLEAN, loops : Nat,
   cancels : Nat, retries : Nat, overlap : {"none", "seen"}, final : {"none", "lost"}]

LifecycleTypes ==
  /\ row \in [Runs -> RowStatus] /\ reg \in [Runs -> {0} \cup Gens]
  /\ inst \in [Runs -> [Gens -> Instance]]
  /\ req \in [Requests -> HandledRequest]
  /\ \A q \in Requests :
       /\ req[q].op # "idle" => req[q].run \in Runs
       /\ req[q].op = "cancel" \/ req[q].pc = "handle" => req[q].gen \in Gens
  /\ up \in BOOLEAN

PeerTypes ==
  /\ peer \in [Peers -> [Runs -> PeerRun]]
  /\ net \subseteq [type : {"Invite", "Cancel", "Retry"}, run : Runs, to : Peers]
  /\ notices \subseteq [type : {"Decline", "Abandon"}, from : Peers, run : Runs]

Starting(q, r) == req[q].op = "start" /\ req[q].run = r
Asks(q, r) == req[q].op # "idle" /\ req[q].run = r

(* A task is registered, its run is recorded; a node that is down has none.*)
TaskInv ==
  /\ \A r \in Runs, g \in Gens :
       /\ Task(r, g) # "none" => reg[r] = g /\ row[r] # "none"
       /\ Task(r, g) = "none" => inst[r][g] = NoInst
  /\ ~up => /\ \A r \in Runs, g \in Gens : inst[r][g] = NoInst
            /\ \A q \in Requests : req[q] = NoReq

(* A start is the only request for its run, which has no task yet and is   *)
(* recorded just before it has one.                                        *)
StartInv ==
  /\ \A q, o \in Requests : \A r \in Runs : Starting(q, r) /\ Asks(o, r) => q = o
  /\ \A q \in Requests, r \in Runs : Starting(q, r) =>
       /\ \A g \in Gens : Task(r, g) = "none"
       /\ req[q].pc \in {"register", "persist"} => row[r] = "none"
       /\ req[q].pc = "spawn" => row[r] = "inprogress"
       /\ req[q].pc \in {"persist", "spawn"} => reg[r] = req[q].gen /\ req[q].gen \in Gens
       /\ req[q].pc \in {"register", "persist", "spawn"}
  /\ \A q \in Requests, r \in Runs : Asks(q, r) /\ ~Starting(q, r) => row[r] # "none"

RunInv == LifecycleTypes /\ TaskInv /\ StartInv

(* A run is invited to once, by its first task: until then no peer knows   *)
(* of it.                                                                  *)
Uninvited(r) ==
  \/ row[r] = "none" \/ \E q \in Requests : Starting(q, r)
  \/ \E g \in Gens : Task(r, g) = "invite"
Kept == \A r \in Runs : Uninvited(r)' => Uninvited(r)

(* What most steps of a node keep: the tasks that there are, and the runs  *)
(* that are recorded.                                                      *)
SameDriven ==
  \A r \in Runs, g \in Gens : inst'[r][g].task = "none" <=> inst[r][g].task = "none"
TasksKept ==
  /\ inst' \in [Runs -> [Gens -> Instance]]
  /\ \A r \in Runs, g \in Gens :
       /\ inst'[r][g].task = "none" <=> inst[r][g].task = "none"
       /\ inst'[r][g].task = "none" => inst'[r][g] = inst[r][g]
       /\ inst'[r][g].task = "invite" => inst[r][g].task = "invite"
RowsKept ==
  /\ row' \in [Runs -> RowStatus]
  /\ \A r \in Runs :
       /\ row'[r] = "none" <=> row[r] = "none"
       /\ \A o \in Requests : Starting(o, r) => row'[r] = row[r]

(* A peer's record of a run it has not heard of, and of one it has: a card *)
(* comes before the row, and unless two retries met, a row that failed has *)
(* no loop left and no more than one loop is there or about to be.         *)
Untouched(s) == ~s.card /\ ~s.accepting /\ s.row = "none" /\ s.loops = 0
PeerRunOK(s) ==
  /\ s.card => ~s.accepting
  /\ s.card \/ s.accepting => s.row = "none"
  /\ s.row = "none" => s.loops = 0 /\ s.retries = 0 /\ s.cancels = 0
  /\ s.overlap = "none" => s.loops + s.retries <= 1 /\ (s.row = "failed" => s.loops = 0)
InviteInv ==
  /\ \A r \in Runs : Uninvited(r) =>
       /\ \A p \in Peers : Untouched(peer[p][r])
       /\ \A m \in net : m.run = r => m.type # "Invite"
  /\ \A m \in net : m.type = "Invite" => Untouched(peer[m.to][m.run])
  /\ \A p \in Peers, r \in Runs : PeerRunOK(peer[p][r])
LoopInv == PeerTypes /\ InviteInv

(* A generation is a positive number, and there is a first one.            *)
LEMMA GensNumbers == Gens \subseteq Nat /\ 1 \in Gens /\ 0 \notin Gens
<1>1. Cardinality(Requests) \in Nat
  BY SetsAssumption, FS_CardinalityType
<1> QED
  BY <1>1 DEF Gens

LEMMA InitRun == LifecycleInit => RunInv
  BY GensNumbers DEF LifecycleInit, RunInv, LifecycleTypes, TaskInv, StartInv, Starting, Asks, Task, NoInst, NoReq,
     TaskState, Instance, HandledRequest, RequestSteps, Alive, RowStatus

LEMMA InitLoop == LifecycleInit => LoopInv
  BY DEF LifecycleInit, LoopInv, PeerTypes, InviteInv, NoPeer, PeerRun, Untouched, PeerRunOK, RowStatus

USE DEF Task, ReqAt, Starting, Asks, node, wire, NoInst, NoReq

(* A request moves on, ends or is opened.                                  *)
LEMMA GotoFacts ==
  ASSUME LifecycleTypes, NEW q \in Requests, NEW x \in RequestSteps, Goto(q, x)
  PROVE  /\ req' \in [Requests -> HandledRequest]
         /\ \A o \in Requests :
              /\ o # q => req'[o] = req[o]
              /\ req'[o].op = req[o].op /\ req'[o].run = req[o].run /\ req'[o].gen = req[o].gen
         /\ req'[q].pc = x
<1>1. req[q] \in HandledRequest
  BY DEF LifecycleTypes
<1>2. [req[q] EXCEPT !.pc = x] \in HandledRequest
  BY <1>1 DEF HandledRequest
<1>3. req' = [req EXCEPT ![q] = [req[q] EXCEPT !.pc = x]]
  BY DEF Goto
<1>4. /\ [req[q] EXCEPT !.pc = x].pc = x /\ [req[q] EXCEPT !.pc = x].op = req[q].op
      /\ [req[q] EXCEPT !.pc = x].run = req[q].run /\ [req[q] EXCEPT !.pc = x].gen = req[q].gen
  BY <1>1 DEF HandledRequest
<1> HIDE DEF HandledRequest
<1> QED BY <1>2, <1>3, <1>4 DEF LifecycleTypes
LEMMA ReplyFacts ==
  ASSUME LifecycleTypes, NEW q \in Requests, Reply(q)
  PROVE  /\ req' \in [Requests -> HandledRequest]
         /\ \A o \in Requests : o # q => req'[o] = req[o]
         /\ req'[q] = NoReq
  BY DEF LifecycleTypes, Reply, HandledRequest, RequestSteps
LEMMA OpenFacts ==
  ASSUME LifecycleTypes, NEW q \in Requests, NEW r \in Runs, NEW h \in {0} \cup Gens,
         NEW x \in RequestSteps, NEW o \in {"start", "cancel", "cancel_row", "retry"},
         Open(q, o, x, r, h)
  PROVE  /\ req' \in [Requests -> HandledRequest]
         /\ \A s \in Requests : s # q => req'[s] = req[s]
         /\ req'[q].op = o /\ req'[q].pc = x /\ req'[q].run = r /\ req'[q].gen = h
  BY DEF LifecycleTypes, Open, HandledRequest

(* An instance is replaced.                                                *)
LEMMA InstFacts ==
  ASSUME LifecycleTypes, NEW r \in Runs, NEW g \in Gens, NEW i \in Instance,
         inst' = [inst EXCEPT ![r][g] = i]
  PROVE  /\ inst' \in [Runs -> [Gens -> Instance]]
         /\ inst'[r][g] = i
         /\ \A s \in Runs, h \in Gens : s # r \/ h # g => inst'[s][h] = inst[s][h]
  BY DEF LifecycleTypes
LEMMA TaskFacts ==
  ASSUME LifecycleTypes, NEW r \in Runs, NEW g \in Gens, NEW t \in TaskState, SetTask(r, g, t)
  PROVE  /\ inst' \in [Runs -> [Gens -> Instance]]
         /\ inst'[r][g].task = t
         /\ \A s \in Runs, h \in Gens : s # r \/ h # g => inst'[s][h] = inst[s][h]
<1>1. inst[r][g] \in Instance
  BY DEF LifecycleTypes
<1>2. [inst[r][g] EXCEPT !.task = t] \in Instance /\ [inst[r][g] EXCEPT !.task = t].task = t
  BY <1>1 DEF Instance
<1>3. inst' = [inst EXCEPT ![r][g] = [inst[r][g] EXCEPT !.task = t]]
  BY DEF SetTask
<1> HIDE DEF Instance
<1> QED BY <1>2, <1>3, InstFacts
LEMMA HandleFacts ==
  ASSUME LifecycleTypes, NEW r \in Runs, NEW g \in Gens, NEW b \in BOOLEAN,
         inst' = [inst EXCEPT ![r][g].handle = b]
  PROVE  /\ inst' \in [Runs -> [Gens -> Instance]]
         /\ inst'[r][g] = [task |-> inst[r][g].task, http |-> inst[r][g].http, handle |-> b]
         /\ \A s \in Runs, h \in Gens : s # r \/ h # g => inst'[s][h] = inst[s][h]
<1>1. inst[r][g] \in Instance
  BY DEF LifecycleTypes
<1> DEFINE i == [task |-> inst[r][g].task, http |-> inst[r][g].http, handle |-> b]
<1>2. i \in Instance
  BY <1>1 DEF Instance
<1>3. [inst[r][g] EXCEPT !.handle = b] = i
  BY <1>1 DEF Instance
<1>4. inst' = [inst EXCEPT ![r][g] = i]
  BY <1>3
<1> HIDE DEF Instance, i
<1>5. inst'[r] = [inst[r] EXCEPT ![g] = i]
  BY <1>4 DEF LifecycleTypes
<1>6. \A s \in Runs : s # r => inst'[s] = inst[s]
  BY <1>4 DEF LifecycleTypes
<1>7. \A s \in Runs : inst[s] \in [Gens -> Instance]
  BY DEF LifecycleTypes
<1>8. inst'[r] \in [Gens -> Instance] /\ inst'[r][g] = i /\ \A h \in Gens \ {g} : inst'[r][h] = inst[r][h]
  BY <1>2, <1>5, <1>7
<1>9. inst' = [s \in Runs |-> inst'[s]]
  BY <1>4 DEF LifecycleTypes
<1>10. inst' \in [Runs -> [Gens -> Instance]]
  BY <1>6, <1>7, <1>8, <1>9
<1> QED BY <1>6, <1>8, <1>10 DEF i
LEMMA EndFacts ==
  ASSUME LifecycleTypes, NEW r \in Runs, NEW g \in Gens, NEW t \in TaskState,
         NEW h \in {"completed", "failed"}, EndTask(r, g, t, h)
  PROVE  /\ inst' \in [Runs -> [Gens -> Instance]]
         /\ inst'[r][g].task = t
         /\ \A s \in Runs, k \in Gens : s # r \/ k # g => inst'[s][k] = inst[s][k]
<1>1. inst[r][g] \in Instance
  BY DEF LifecycleTypes
<1> DEFINE i == [task |-> t, http |-> h, handle |-> inst[r][g].handle]
<1>2. i \in Instance /\ i.task = t
  BY <1>1 DEF Instance
<1>3. inst' = [inst EXCEPT ![r][g] = i]
  BY DEF EndTask
<1> HIDE DEF Instance, i
<1> QED BY <1>2, <1>3, InstFacts
(* A request that moves on or ends keeps its run.                          *)
LEMMA StepFacts ==
  ASSUME LifecycleTypes, NEW q \in Requests, NEW x \in RequestSteps \ {"handle"},
         Goto(q, x) \/ Reply(q)
  PROVE  /\ req' \in [Requests -> HandledRequest]
         /\ \A o \in Requests :
              /\ req'[o].op # "idle" => req'[o].run \in Runs
              /\ req'[o].op = "cancel" \/ req'[o].pc = "handle" => req'[o].gen \in Gens
         /\ \A o \in Requests : o # q => req'[o] = req[o]
         /\ req'[q].op = "idle" \/ (req'[q].op = req[q].op /\ req'[q].run = req[q].run)
<1>1. CASE Goto(q, x)
  <2>1. /\ req' \in [Requests -> HandledRequest]
        /\ \A o \in Requests :
             /\ o # q => req'[o] = req[o]
             /\ req'[o].op = req[o].op /\ req'[o].run = req[o].run /\ req'[o].gen = req[o].gen
        /\ req'[q].pc = x
    BY <1>1, GotoFacts
  <2> QED BY <2>1 DEF LifecycleTypes
<1>2. CASE Reply(q)
  <2>1. /\ req' \in [Requests -> HandledRequest]
        /\ \A o \in Requests : o # q => req'[o] = req[o]
        /\ req'[q] = NoReq
    BY <1>2, ReplyFacts
  <2> QED BY <2>1 DEF LifecycleTypes
<1> QED BY <1>1, <1>2

(* A step that leaves the registry, starts no task and opens no request.   *)
LEMMA KeepRun ==
  ASSUME RunInv, LifecycleTypes', up, UNCHANGED <<up, reg>>, TasksKept, RowsKept,
         \A q \in Requests :
           \/ req'[q] = req[q] \/ req'[q].op = "idle"
           \/ req[q].op # "start" /\ req'[q].op = req[q].op /\ req'[q].run = req[q].run
  PROVE  RunInv' /\ Kept /\ SameDriven
<1>0. /\ \A r \in Runs, g \in Gens :
           /\ inst'[r][g].task = "none" <=> inst[r][g].task = "none"
           /\ inst'[r][g].task = "none" => inst'[r][g] = inst[r][g]
           /\ inst'[r][g].task = "invite" => inst[r][g].task = "invite"
      /\ \A r \in Runs :
           /\ row'[r] = "none" <=> row[r] = "none"
           /\ \A o \in Requests : Starting(o, r) => row'[r] = row[r]
  BY DEF TasksKept, RowsKept
<1>1. TaskInv'
  BY <1>0 DEF RunInv, TaskInv
<1>2. \A q \in Requests, r \in Runs : Starting(q, r)' => req'[q] = req[q] /\ Starting(q, r)
  OBVIOUS
<1>3. \A q \in Requests, r \in Runs : Asks(q, r)' => Asks(q, r)
  OBVIOUS
<1>4. \A q, o \in Requests : \A r \in Runs : (Starting(q, r) /\ Asks(o, r) => q = o)'
  BY <1>2, <1>3 DEF RunInv, StartInv
<1>5. ASSUME NEW q \in Requests, NEW r \in Runs, Starting(q, r)'
      PROVE  /\ \A g \in Gens : Task(r, g)' = "none"
             /\ req'[q].pc \in {"register", "persist"} => row'[r] = "none"
             /\ req'[q].pc = "spawn" => row'[r] = "inprogress"
             /\ req'[q].pc \in {"persist", "spawn"} => reg'[r] = req'[q].gen /\ req'[q].gen \in Gens
             /\ req'[q].pc \in {"register", "persist", "spawn"}
  BY <1>0, <1>2, <1>5 DEF RunInv, StartInv
<1>6. ASSUME NEW q \in Requests, NEW r \in Runs, Asks(q, r)', ~Starting(q, r)' PROVE row'[r] # "none"
  BY <1>0, <1>3, <1>6 DEF RunInv, StartInv
<1>7. StartInv'
  BY <1>4, <1>5, <1>6 DEF StartInv
<1>8. Kept
  BY <1>0, <1>2 DEF Kept, Uninvited
<1> QED BY <1>0, <1>1, <1>7, <1>8 DEF RunInv, SameDriven

(* A request is opened.                                                    *)
LEMMA OpenRun ==
  ASSUME RunInv, up, UNCHANGED <<row, reg, inst, up>>, NEW q \in Requests, NEW r \in Runs,
         NEW h \in {0} \cup Gens, NEW x \in RequestSteps,
         NEW o \in {"start", "cancel", "cancel_row", "retry"},
         Open(q, o, x, r, h), o = "cancel" \/ x = "handle" => h \in Gens,
         o # "start" => row[r] # "none" /\ \A p \in Requests : ~Starting(p, r),
         o = "start" => /\ row[r] = "none" /\ x = "register"
                        /\ \A p \in Requests : ~Asks(p, r)
  PROVE  RunInv' /\ Kept /\ SameDriven
<1>1. /\ req' \in [Requests -> HandledRequest]
      /\ \A s \in Requests : s # q => req'[s] = req[s]
      /\ req'[q].op = o /\ req'[q].pc = x /\ req'[q].run = r /\ req'[q].gen = h
  BY OpenFacts DEF RunInv
<1>2. LifecycleTypes'
  BY <1>1 DEF RunInv, LifecycleTypes
<1>3. TaskInv'
  BY <1>1 DEF RunInv, TaskInv
<1>4. StartInv'
  BY <1>1 DEF RunInv, TaskInv, StartInv
<1>5. Kept
  BY <1>1 DEF Kept, Uninvited
<1> QED BY <1>2, <1>3, <1>4, <1>5 DEF RunInv, SameDriven

----------------------------------------------------------------------------
(* The requests.                                                           *)

(* A request moves on or ends, and no run is recorded or forgotten.        *)
LEMMA KeepStep ==
  ASSUME RunInv, up, NEW q \in Requests, req[q].op # "start", NEW x \in RequestSteps \ {"handle"},
         Goto(q, x) \/ Reply(q), UNCHANGED <<reg, up>>, TasksKept, RowsKept
  PROVE  RunInv' /\ Kept /\ SameDriven
<1>1. /\ req' \in [Requests -> HandledRequest]
      /\ \A o \in Requests :
           /\ req'[o].op # "idle" => req'[o].run \in Runs
           /\ req'[o].op = "cancel" \/ req'[o].pc = "handle" => req'[o].gen \in Gens
      /\ \A o \in Requests : o # q => req'[o] = req[o]
      /\ req'[q].op = "idle" \/ (req'[q].op = req[q].op /\ req'[q].run = req[q].run)
  BY StepFacts DEF RunInv
<1>2. LifecycleTypes'
  BY <1>1 DEF RunInv, LifecycleTypes, TasksKept, RowsKept
<1> QED BY <1>1, <1>2, KeepRun

(* The steps of a task.                                                    *)
LEMMA KeepTask ==
  ASSUME RunInv, up, UNCHANGED <<req, reg, up>>, TasksKept, RowsKept
  PROVE  RunInv' /\ Kept /\ SameDriven
<1>1. LifecycleTypes'
  BY DEF RunInv, LifecycleTypes, TasksKept, RowsKept
<1> QED BY <1>1, KeepRun

(* What keeps the rows and the tasks.                                      *)
LEMMA SameRows == ASSUME RunInv, UNCHANGED row PROVE RowsKept
  BY DEF RunInv, LifecycleTypes, RowsKept
LEMMA SameTasks == ASSUME RunInv, UNCHANGED inst PROVE TasksKept
  BY DEF RunInv, LifecycleTypes, TasksKept
LEMMA FinishRows ==
  ASSUME RunInv, NEW r \in Runs, NEW o \in Terminal, Finish(r, o),
         \A q \in Requests : ~Starting(q, r)
  PROVE  RowsKept
  BY DEF RunInv, LifecycleTypes, Finish, Terminal, RowStatus, RowsKept
LEMMA HandleTasks ==
  ASSUME RunInv, NEW r \in Runs, NEW g \in Gens, NEW b \in BOOLEAN,
         inst' = [inst EXCEPT ![r][g].handle = b], b => Task(r, g) # "none"
  PROVE  TasksKept
<1>1. /\ inst' \in [Runs -> [Gens -> Instance]]
      /\ inst'[r][g] = [task |-> inst[r][g].task, http |-> inst[r][g].http, handle |-> b]
      /\ \A s \in Runs, h \in Gens : s # r \/ h # g => inst'[s][h] = inst[s][h]
  BY HandleFacts DEF RunInv
<1>2. ASSUME Task(r, g) = "none" PROVE inst'[r][g] = inst[r][g]
  <2>1. inst[r][g] = NoInst
    BY <1>2 DEF RunInv, TaskInv
  <2>2. b = FALSE /\ NoInst = [task |-> "none", http |-> "idle", handle |-> FALSE]
    BY <1>2
  <2>3. inst[r][g].task = "none" /\ inst[r][g].http = "idle"
    BY <2>1
  <2>4. inst'[r][g] = [task |-> "none", http |-> "idle", handle |-> FALSE]
    BY <1>1, <2>2, <2>3
  <2> QED BY <2>1, <2>2, <2>4
<1> QED BY <1>1, <1>2 DEF TasksKept
LEMMA EndTasks ==
  ASSUME RunInv, NEW r \in Runs, NEW g \in Gens, NEW t \in TaskState \ {"none", "invite"},
         NEW h \in {"completed", "failed"}, EndTask(r, g, t, h), Task(r, g) # "none"
  PROVE  TasksKept
<1>1. /\ inst' \in [Runs -> [Gens -> Instance]]
      /\ inst'[r][g].task = t
      /\ \A s \in Runs, k \in Gens : s # r \/ k # g => inst'[s][k] = inst[s][k]
  BY EndFacts DEF RunInv
<1> QED BY <1>1 DEF TasksKept
LEMMA SetTasks ==
  ASSUME RunInv, NEW r \in Runs, NEW g \in Gens, NEW t \in TaskState \ {"none", "invite"},
         SetTask(r, g, t), Task(r, g) # "none"
  PROVE  TasksKept
<1>1. /\ inst' \in [Runs -> [Gens -> Instance]]
      /\ inst'[r][g].task = t
      /\ \A s \in Runs, k \in Gens : s # r \/ k # g => inst'[s][k] = inst[s][k]
  BY TaskFacts DEF RunInv
<1> QED BY <1>1 DEF TasksKept
LEMMA AbortTasks ==
  ASSUME RunInv, NEW r \in Runs, NEW g \in Gens, NEW status,
         status = "cancelled" \/ status = inst[r][g].http,
         inst' = [inst EXCEPT ![r][g] = Aborted(inst[r][g], status)],
         Task(r, g) = "none" => status = inst[r][g].http
  PROVE  TasksKept
<1> DEFINE i == Aborted(inst[r][g], status)
<1>1. inst[r][g] \in Instance
  BY DEF RunInv, LifecycleTypes
<1>2. i \in Instance
  BY <1>1 DEF Instance, Aborted, TaskState
<1>3. Task(r, g) = "none" => i = inst[r][g]
  BY <1>1 DEF Aborted, Alive, RunInv, TaskInv
<1>4. i.task = "none" <=> Task(r, g) = "none"
  BY DEF Aborted, Alive
<1>5. i.task # "invite"
  BY DEF Aborted, Alive
<1>6. inst' = [inst EXCEPT ![r][g] = i] /\ inst \in [Runs -> [Gens -> Instance]]
  BY DEF RunInv, LifecycleTypes
<1> HIDE DEF i
<1>7. /\ inst' \in [Runs -> [Gens -> Instance]]
      /\ inst'[r][g] = i
      /\ \A s \in Runs, h \in Gens : s # r \/ h # g => inst'[s][h] = inst[s][h]
  BY <1>2, <1>6
<1> QED BY <1>3, <1>4, <1>5, <1>7 DEF TasksKept

(* No start is handled for the run of another request, or of a task.       *)
LEMMA NoStart ==
  ASSUME RunInv
  PROVE  /\ \A q \in Requests : req[q].op \notin {"idle", "start"} =>
              req[q].run \in Runs /\ \A o \in Requests : ~Starting(o, req[q].run)
         /\ \A r \in Runs, g \in Gens : Task(r, g) # "none" =>
              row[r] # "none" /\ \A o \in Requests : ~Starting(o, r)
  BY DEF RunInv, LifecycleTypes, TaskInv, StartInv

LEMMA RunCancelTake ==
  ASSUME RunInv, NEW q \in Requests, CancelTake(q)
  PROVE  RunInv' /\ Kept /\ SameDriven
<1> DEFINE r == req[q].run  g == req[q].gen
<1>1. /\ r \in Runs /\ g \in Gens /\ req[q].op # "start" /\ up
      /\ UNCHANGED <<row, reg, up>> /\ "mark" \in RequestSteps \ {"handle"}
  BY DEF CancelTake, RunInv, LifecycleTypes, RequestSteps
<1>2. RowsKept
  BY <1>1, SameRows
<1>3. CASE inst[r][g].handle
  <2>1. inst' = [inst EXCEPT ![r][g].handle = FALSE] /\ Goto(q, "mark")
    BY <1>3 DEF CancelTake
  <2>2. TasksKept
    BY <1>1, <2>1, HandleTasks
  <2> QED BY <1>1, <1>2, <2>1, <2>2, KeepStep
<1>4. CASE ~inst[r][g].handle
  <2>1. Reply(q) /\ UNCHANGED inst
    BY <1>4 DEF CancelTake
  <2> QED BY <1>1, <1>2, <2>1, SameTasks, KeepStep
<1> QED BY <1>3, <1>4
LEMMA RunCancelMark ==
  ASSUME RunInv, NEW q \in Requests, CancelMark(q)
  PROVE  RunInv' /\ Kept /\ SameDriven
<1> DEFINE r == req[q].run  g == req[q].gen  x == IF row[r] = "inprogress" THEN "abort" ELSE "stop"
<1>1. /\ r \in Runs /\ g \in Gens /\ req[q].op = "cancel" /\ up
      /\ UNCHANGED <<reg, up>> /\ x \in RequestSteps \ {"handle"}
  BY DEF CancelMark, RunInv, LifecycleTypes, RequestSteps
<1>2. \A o \in Requests : ~Starting(o, r)
  BY <1>1, NoStart
<1>3. CASE Finish(r, "cancelled") /\ Goto(q, x) /\ UNCHANGED inst
  <2>1. RowsKept
    BY <1>1, <1>2, <1>3, FinishRows DEF Terminal
  <2> HIDE DEF x
  <2> QED BY <1>1, <1>3, <2>1, SameTasks, KeepStep
<1>4. CASE /\ inst' = [inst EXCEPT ![r][g].handle = Task(r, g) # "none"]
           /\ Reply(q) /\ UNCHANGED row
  <2>1. TasksKept
    BY <1>1, <1>4, HandleTasks
  <2> HIDE DEF x
  <2> QED BY <1>1, <1>4, <2>1, SameRows, KeepStep
<1> QED BY <1>3, <1>4 DEF CancelMark
LEMMA RunCancelAbort ==
  ASSUME RunInv, NEW q \in Requests, CancelAbort(q)
  PROVE  RunInv' /\ Kept /\ SameDriven
<1> DEFINE r == req[q].run  g == req[q].gen
<1>1. /\ r \in Runs /\ g \in Gens /\ req[q].op = "cancel" /\ up
      /\ UNCHANGED <<row, reg, up>> /\ "idle" \in RequestSteps \ {"handle"} /\ Reply(q)
  BY DEF CancelAbort, RunInv, LifecycleTypes, RequestSteps
<1>2. \/ UNCHANGED inst
      \/ inst' = [inst EXCEPT ![r][g] = Aborted(inst[r][g], "cancelled")] /\ Task(r, g) # "none"
      \/ inst' = [inst EXCEPT ![r][g] = Aborted(inst[r][g], inst[r][g].http)]
  <2>1. CASE req[q].pc = "abort"
    <3>1. inst' = [inst EXCEPT ![r][g] =
                     IF inst[r][g].task = "none" THEN inst[r][g] ELSE Aborted(inst[r][g], "cancelled")]
      BY <2>1 DEF CancelAbort
    <3>2. CASE inst[r][g].task = "none"
      <4>1. inst' = [inst EXCEPT ![r][g] = inst[r][g]]
        BY <3>1, <3>2
      <4>2. inst' = inst
        BY <1>1, <4>1 DEF RunInv, LifecycleTypes
      <4> QED BY <4>2
    <3> QED BY <3>1, <3>2
  <2>2. CASE req[q].pc # "abort"
    BY <2>2 DEF CancelAbort
  <2> QED BY <2>1, <2>2
<1>3. TasksKept
  BY <1>1, <1>2, AbortTasks, SameTasks
<1> QED BY <1>1, <1>3, SameRows, KeepStep
LEMMA RunCancelPersistedMark ==
  ASSUME RunInv, NEW q \in Requests, CancelPersistedMark(q)
  PROVE  RunInv' /\ Kept /\ SameDriven
<1>1. /\ req[q].op = "cancel_row" /\ up /\ UNCHANGED <<inst, reg, up>> /\ Reply(q)
      /\ "idle" \in RequestSteps \ {"handle"}
  BY DEF CancelPersistedMark, RequestSteps
<1>2. RowsKept
  BY <1>1, NoStart, FinishRows, SameRows DEF CancelPersistedMark, Terminal
<1> QED BY <1>1, <1>2, SameTasks, KeepStep
LEMMA RunRetryFlip ==
  ASSUME RunInv, NEW q \in Requests, RetryFlip(q)
  PROVE  RunInv' /\ Kept /\ SameDriven
<1>1. /\ req[q].op = "retry" /\ up /\ UNCHANGED <<inst, reg, up>>
      /\ Goto(q, "broadcast") \/ Reply(q)
      /\ "broadcast" \in RequestSteps \ {"handle"}
  BY DEF RetryFlip, RequestSteps
<1>2. /\ req[q].run \in Runs /\ \A o \in Requests : ~Starting(o, req[q].run)
      /\ row[req[q].run] # "none"
  BY <1>1, NoStart DEF RunInv, StartInv
<1>3. RowsKept
  BY <1>2, SameRows DEF RetryFlip, RowsKept, RowStatus, RunInv, LifecycleTypes
<1> QED BY <1>1, <1>3, SameTasks, KeepStep
LEMMA RunRetryBroadcast ==
  ASSUME RunInv, NEW q \in Requests, RetryBroadcast(q)
  PROVE  RunInv' /\ Kept /\ SameDriven
<1>1. /\ req[q].op = "retry" /\ up /\ UNCHANGED <<row, inst, reg, up>>
      /\ Goto(q, "recheck") \/ Reply(q)
      /\ "recheck" \in RequestSteps \ {"handle"}
  BY DEF RetryBroadcast, RequestSteps
<1> QED BY <1>1, SameRows, SameTasks, KeepStep
LEMMA RunRetryRecheck ==
  ASSUME RunInv, NEW q \in Requests, RetryRecheck(q)
  PROVE  RunInv' /\ Kept /\ SameDriven
<1>1. /\ req[q].op = "retry" /\ up /\ UNCHANGED <<row, inst, reg, up>>
      /\ Goto(q, "insert") \/ Reply(q)
      /\ "insert" \in RequestSteps \ {"handle"}
  BY DEF RetryRecheck, RequestSteps
<1> QED BY <1>1, SameRows, SameTasks, KeepStep
LEMMA RunRetryHandle ==
  ASSUME RunInv, NEW q \in Requests, RetryHandle(q)
  PROVE  RunInv' /\ Kept /\ SameDriven
<1> DEFINE r == req[q].run  g == req[q].gen
<1>1. /\ req[q].op = "retry" /\ up /\ UNCHANGED <<row, reg, up>> /\ Reply(q)
      /\ r \in Runs /\ g \in Gens /\ "idle" \in RequestSteps \ {"handle"}
  BY DEF RetryHandle, RequestSteps, RunInv, LifecycleTypes
<1>2. inst' = [inst EXCEPT ![r][g].handle = Task(r, g) # "none"]
  BY DEF RetryHandle
<1>3. TasksKept
  BY <1>1, <1>2, HandleTasks
<1> QED BY <1>1, <1>3, SameRows, KeepStep

(* Requests that are opened.                                               *)
LEMMA RunOpens ==
  ASSUME RunInv, NEW q \in Requests, NEW r \in Runs, RequestOpens(q, r)
  PROVE  RunInv' /\ Kept /\ SameDriven
<1>1. /\ up /\ UNCHANGED <<row, inst, reg, up>>
      /\ {"register", "take", "mark", "flip"} \subseteq RequestSteps \ {"handle"}
  BY DEF RequestOpens, StartCheck, CancelLookup, CancelPersisted, RetryRead, NextSlot, RequestSteps
<1>2. row[r] \notin {"none", "inprogress"} => \A p \in Requests : ~Starting(p, r)
  BY DEF RunInv, StartInv
<1>3. CASE StartCheck(q, r)
  <2>1. row[r] = "none" /\ Open(q, "start", "register", r, 0) /\ \A p \in Requests : ~Asks(p, r)
    BY <1>3 DEF StartCheck
  <2> QED BY <1>1, <2>1, OpenRun
<1>4. CASE CancelLookup(q, r)
  <2>1. Open(q, "cancel", "take", r, reg[r]) /\ reg[r] \in Gens /\ Task(r, reg[r]) # "none"
    BY <1>4 DEF CancelLookup, RunInv, LifecycleTypes, TaskInv
  <2>2. row[r] # "none" /\ \A p \in Requests : ~Starting(p, r)
    BY <2>1, NoStart
  <2> QED BY <1>1, <2>1, <2>2, OpenRun
<1>5. CASE CancelPersisted(q, r)
  <2>1. Open(q, "cancel_row", "mark", r, 0) /\ row[r] = "inprogress" /\ reg[r] = 0
    BY <1>5 DEF CancelPersisted
  <2>2. \A p \in Requests : ~Starting(p, r)
    BY <2>1, GensNumbers DEF RunInv, StartInv
  <2> QED BY <1>1, <2>1, <2>2, OpenRun
<1>6. CASE RetryRead(q, r)
  <2>1. Open(q, "retry", "flip", r, 0) /\ row[r] = "failed"
    BY <1>6 DEF RetryRead
  <2> QED BY <1>1, <1>2, <2>1, OpenRun
<1> QED BY <1>3, <1>4, <1>5, <1>6 DEF RequestOpens

----------------------------------------------------------------------------
(* The tasks.                                                              *)
LEMMA RunSendInvites ==
  ASSUME RunInv, NEW r \in Runs, NEW g \in Gens, SendInvites(r, g)
  PROVE  RunInv' /\ Kept /\ SameDriven /\ Task(r, g)' # "invite"
<1>1. up /\ UNCHANGED <<row, reg, up, req>> /\ Task(r, g) = "invite"
      /\ (SetTask(r, g, "running") \/ EndTask(r, g, "err", "failed"))
  BY DEF SendInvites
<1>2. {"running", "err"} \subseteq TaskState \ {"none", "invite"}
  BY DEF TaskState, Alive
<1>3. TasksKept /\ inst'[r][g].task # "invite"
  BY <1>1, <1>2, SetTasks, EndTasks, TaskFacts, EndFacts DEF RunInv
<1> QED BY <1>1, <1>3, SameRows, KeepTask
LEMMA RunReachEnd ==
  ASSUME RunInv, NEW r \in Runs, NEW g \in Gens, ReachEnd(r, g)
  PROVE  RunInv' /\ Kept /\ SameDriven
<1>1. /\ up /\ UNCHANGED <<row, reg, up, req>> /\ Task(r, g) # "none"
      /\ SetTask(r, g, "complete") /\ "complete" \in TaskState \ {"none", "invite"}
  BY DEF ReachEnd, TaskState, Alive
<1>2. TasksKept
  BY <1>1, SetTasks
<1> QED BY <1>1, <1>2, SameRows, KeepTask
LEMMA RunReturn ==
  ASSUME RunInv, NEW r \in Runs, NEW g \in Gens, Return(r, g) \/ Strand(r, g)
  PROVE  RunInv' /\ Kept /\ SameDriven
<1>1. /\ up /\ UNCHANGED <<row, reg, up, req>> /\ Task(r, g) # "none"
      /\ EndTask(r, g, "ok", "completed") \/ EndTask(r, g, "err", "failed")
      /\ {"ok", "err"} \subseteq TaskState \ {"none", "invite"}
  BY DEF Return, Strand, TaskState, Alive
<1>2. TasksKept
  BY <1>1, EndTasks
<1> QED BY <1>1, <1>2, SameRows, KeepTask
LEMMA RunRecord ==
  ASSUME RunInv, NEW r \in Runs, NEW g \in Gens, Record(r, g)
  PROVE  RunInv' /\ Kept /\ SameDriven
<1>1. /\ up /\ UNCHANGED <<reg, up, req>> /\ Task(r, g) # "none"
      /\ SetTask(r, g, "ending") /\ "ending" \in TaskState \ {"none", "invite"}
  BY DEF Record, TaskState, Alive
<1>2. TasksKept
  BY <1>1, SetTasks
<1>3. \A o \in Requests : ~Starting(o, r)
  BY <1>1, NoStart
<1>4. Finish(r, "completed") \/ Finish(r, "failed") \/ UNCHANGED row
  BY DEF Record
<1>5. RowsKept
  BY <1>3, <1>4, FinishRows, SameRows DEF Terminal
<1> QED BY <1>1, <1>2, <1>5, KeepTask
LEMMA RunNotice ==
  ASSUME RunInv, PeerTypes, NEW n \in notices, HandleNotice(n)
  PROVE  RunInv' /\ Kept /\ SameDriven
<1>1. /\ n.run \in Runs /\ up /\ UNCHANGED <<reg, up, req, inst>>
      /\ reg[n.run] # 0 /\ Task(n.run, reg[n.run]) # "none"
  BY DEF HandleNotice, Active, PeerTypes
<1>2. \A o \in Requests : ~Starting(o, n.run)
  BY <1>1, NoStart DEF RunInv, LifecycleTypes
<1>3. Finish(n.run, "failed") \/ UNCHANGED row
  BY DEF HandleNotice
<1>4. RowsKept
  BY <1>1, <1>2, <1>3, FinishRows, SameRows DEF Terminal
<1> QED BY <1>1, <1>4, SameTasks, KeepTask
LEMMA RunGuardDrop ==
  ASSUME RunInv, NEW r \in Runs, NEW g \in Gens, GuardDrop(r, g)
  PROVE  RunInv' /\ Kept
<1>1. /\ up /\ UNCHANGED <<row, up, req>> /\ Task(r, g) \in {"ending", "aborted"}
      /\ inst' = [inst EXCEPT ![r][g] = NoInst] /\ reg' = [reg EXCEPT ![r] = 0]
  BY DEF GuardDrop
<1>2. NoInst \in Instance
  BY DEF Instance, TaskState
<1>3. /\ inst' \in [Runs -> [Gens -> Instance]]
      /\ inst'[r][g] = NoInst
      /\ \A s \in Runs, h \in Gens : s # r \/ h # g => inst'[s][h] = inst[s][h]
  BY <1>1, <1>2, InstFacts DEF RunInv
<1>4. /\ \A o \in Requests : ~Starting(o, r) 
      /\ \A h \in Gens : h # g => inst[r][h].task = "none"
  BY <1>1, NoStart DEF RunInv, TaskInv
<1>5. reg' \in [Runs -> {0} \cup Gens] /\ reg'[r] = 0 /\ \A s \in Runs : s # r => reg'[s] = reg[s]
  BY <1>1 DEF RunInv, LifecycleTypes
<1>6. LifecycleTypes'
  BY <1>1, <1>3, <1>5 DEF RunInv, LifecycleTypes
<1>7. TaskInv'
  BY <1>1, <1>3, <1>4, <1>5 DEF RunInv, TaskInv
<1>8. StartInv'
  BY <1>1, <1>3, <1>4, <1>5 DEF RunInv, StartInv
<1>9. Kept
  BY <1>1, <1>3 DEF Kept, Uninvited
<1> QED BY <1>6, <1>7, <1>8, <1>9 DEF RunInv

(* A start registers its run, records it and starts its task.              *)
LEMMA RunStartRegister ==
  ASSUME RunInv, NEW q \in Requests, StartRegister(q)
  PROVE  RunInv' /\ Kept /\ SameDriven
<1> DEFINE r == req[q].run
<1>1. /\ up /\ UNCHANGED <<row, up, inst>> /\ r \in Runs /\ Starting(q, r) /\ req[q].pc = "register"
      /\ {"idle", "persist"} \subseteq RequestSteps \ {"handle"}
  BY DEF StartRegister, RunInv, LifecycleTypes, RequestSteps
<1>2. CASE UNCHANGED reg /\ Reply(q)
  <2>1. /\ req' \in [Requests -> HandledRequest]
        /\ \A o \in Requests :
             /\ req'[o].op # "idle" => req'[o].run \in Runs
             /\ req'[o].op = "cancel" \/ req'[o].pc = "handle" => req'[o].gen \in Gens
    BY <1>1, <1>2, StepFacts DEF RunInv
  <2>2. req'[q] = NoReq /\ \A o \in Requests : o # q => req'[o] = req[o]
    BY <1>2, ReplyFacts DEF RunInv
  <2>3. LifecycleTypes'
    BY <1>1, <1>2, <2>1 DEF RunInv, LifecycleTypes
  <2> QED BY <1>1, <1>2, <2>2, <2>3, SameRows, SameTasks, KeepRun
<1>3. CASE reg[r] = 0
  <2>1. PICK g \in FreeGens(r) : reg' = [reg EXCEPT ![r] = g] /\ Open(q, "start", "persist", r, g)
    BY <1>3 DEF StartRegister
  <2>2. g \in Gens
    BY DEF FreeGens, Unheld
  <2>3. /\ req' \in [Requests -> HandledRequest]
        /\ \A s \in Requests : s # q => req'[s] = req[s]
        /\ req'[q].op = "start" /\ req'[q].pc = "persist" /\ req'[q].run = r /\ req'[q].gen = g
    BY <1>1, <2>1, <2>2, OpenFacts DEF RunInv
  <2>4. reg' \in [Runs -> {0} \cup Gens] /\ reg'[r] = g /\ \A s \in Runs : s # r => reg'[s] = reg[s]
    BY <1>1, <2>1, <2>2 DEF RunInv, LifecycleTypes
  <2>5. \A h \in Gens : Task(r, h) = "none"
    BY <1>1 DEF RunInv, StartInv
  <2> HIDE DEF r
  <2>6. LifecycleTypes'
    BY <1>1, <2>2, <2>3, <2>4 DEF RunInv, LifecycleTypes
  <2>7. TaskInv'
    BY <1>1, <2>3, <2>4, <2>5 DEF RunInv, TaskInv
  <2>8. \A p \in Requests, s \in Runs : /\ Starting(p, s)' <=> Starting(p, s)
                                        /\ Asks(p, s)' <=> Asks(p, s)
    BY <1>1, <2>3
  <2>9. StartInv'
    BY <1>1, <2>2, <2>3, <2>4, <2>8 DEF RunInv, StartInv
  <2>10. Kept
    BY <1>1, <2>8 DEF Kept, Uninvited
  <2> QED BY <1>1, <2>6, <2>7, <2>9, <2>10 DEF RunInv, SameDriven
<1> QED BY <1>2, <1>3 DEF StartRegister
LEMMA RunStartPersist ==
  ASSUME RunInv, NEW q \in Requests, StartPersist(q)
  PROVE  RunInv' /\ Kept /\ SameDriven
<1> DEFINE r == req[q].run
<1>1. /\ up /\ UNCHANGED <<up, inst>> /\ r \in Runs /\ Starting(q, r) /\ req[q].pc = "persist"
      /\ {"idle", "spawn"} \subseteq RequestSteps \ {"handle"}
  BY DEF StartPersist, RunInv, LifecycleTypes, RequestSteps
<1>2. /\ \A h \in Gens : Task(r, h) = "none"
      /\ row[r] = "none" /\ reg[r] = req[q].gen /\ req[q].gen \in Gens
      /\ \A o \in Requests : o # q => ~Asks(o, r)
  BY <1>1 DEF RunInv, StartInv
<1>3. CASE row' = [row EXCEPT ![r] = "inprogress"] /\ Goto(q, "spawn") /\ UNCHANGED reg
  <2>1. /\ req' \in [Requests -> HandledRequest]
        /\ \A o \in Requests :
             /\ o # q => req'[o] = req[o]
             /\ req'[o].op = req[o].op /\ req'[o].run = req[o].run /\ req'[o].gen = req[o].gen
        /\ req'[q].pc = "spawn"
    BY <1>1, <1>3, GotoFacts DEF RunInv
  <2>2. /\ row' \in [Runs -> RowStatus] /\ row'[r] = "inprogress"
        /\ \A s \in Runs : s # r => row'[s] = row[s]
    BY <1>1, <1>3 DEF RunInv, LifecycleTypes, RowStatus
  <2> HIDE DEF r
  <2>3. LifecycleTypes'
    BY <1>1, <1>3, <2>1, <2>2 DEF RunInv, LifecycleTypes
  <2>4. TaskInv'
    BY <1>1, <1>3, <2>1, <2>2 DEF RunInv, TaskInv
  <2>5. \A p \in Requests, s \in Runs : /\ Starting(p, s)' <=> Starting(p, s)
                                        /\ Asks(p, s)' <=> Asks(p, s)
    BY <2>1
  <2>6. StartInv'
    BY <1>1, <1>2, <1>3, <2>1, <2>2, <2>5 DEF RunInv, StartInv
  <2>7. Kept
    BY <1>1, <2>2, <2>5 DEF Kept, Uninvited
  <2> QED BY <1>1, <2>3, <2>4, <2>6, <2>7 DEF RunInv, SameDriven
<1>4. CASE reg' = [reg EXCEPT ![r] = 0] /\ Reply(q) /\ UNCHANGED row
  <2>1. /\ req' \in [Requests -> HandledRequest]
        /\ \A o \in Requests :
             /\ req'[o].op # "idle" => req'[o].run \in Runs
             /\ req'[o].op = "cancel" \/ req'[o].pc = "handle" => req'[o].gen \in Gens
    BY <1>1, <1>4, StepFacts DEF RunInv
  <2>2. req'[q] = NoReq /\ \A o \in Requests : o # q => req'[o] = req[o]
    BY <1>4, ReplyFacts DEF RunInv
  <2>3. reg' \in [Runs -> {0} \cup Gens] /\ reg'[r] = 0 /\ \A s \in Runs : s # r => reg'[s] = reg[s]
    BY <1>1, <1>4 DEF RunInv, LifecycleTypes
  <2> HIDE DEF r
  <2>4. LifecycleTypes'
    BY <1>1, <1>4, <2>1, <2>3 DEF RunInv, LifecycleTypes
  <2>5. TaskInv'
    BY <1>1, <1>2, <1>4, <2>3 DEF RunInv, TaskInv
  <2>6. \A p \in Requests, s \in Runs :
          /\ Starting(p, s)' => Starting(p, s) /\ p # q /\ s # r
          /\ Asks(p, s)' => Asks(p, s) /\ p # q
    BY <1>2, <2>2
  <2>7. StartInv'
    BY <1>1, <1>4, <2>2, <2>3, <2>6 DEF RunInv, StartInv
  <2>8. Kept
    BY <1>1, <1>4, <2>6 DEF Kept, Uninvited
  <2> QED BY <1>1, <2>4, <2>5, <2>7, <2>8 DEF RunInv, SameDriven
<1> QED BY <1>3, <1>4 DEF StartPersist
LEMMA RunStartSpawn ==
  ASSUME RunInv, NEW q \in Requests, StartSpawn(q)
  PROVE  RunInv' /\ Kept
<1> DEFINE r == req[q].run  g == req[q].gen
           i == [task |-> "invite", http |-> "inprogress", handle |-> TRUE]
<1>1. /\ up /\ UNCHANGED <<row, up, reg>> /\ r \in Runs /\ Starting(q, r) /\ req[q].pc = "spawn"
      /\ "idle" \in RequestSteps \ {"handle"} /\ Reply(q)
      /\ inst' = [inst EXCEPT ![r][g] = i]
  BY DEF StartSpawn, RunInv, LifecycleTypes, RequestSteps
<1>2. /\ row[r] = "inprogress" /\ reg[r] = g /\ g \in Gens
      /\ \A o \in Requests : o # q => ~Asks(o, r)
  BY <1>1 DEF RunInv, StartInv
<1>3. i \in Instance /\ i.task = "invite"
  BY DEF Instance, TaskState, Alive
<1> HIDE DEF i
<1>4. /\ inst' \in [Runs -> [Gens -> Instance]]
      /\ inst'[r][g] = i
      /\ \A s \in Runs, h \in Gens : s # r \/ h # g => inst'[s][h] = inst[s][h]
  BY <1>1, <1>2, <1>3, InstFacts DEF RunInv
<1>5. /\ req' \in [Requests -> HandledRequest]
      /\ \A o \in Requests :
           /\ req'[o].op # "idle" => req'[o].run \in Runs
           /\ req'[o].op = "cancel" \/ req'[o].pc = "handle" => req'[o].gen \in Gens
  BY <1>1, StepFacts DEF RunInv
<1>6. req'[q] = NoReq /\ \A o \in Requests : o # q => req'[o] = req[o]
  BY <1>1, ReplyFacts DEF RunInv
<1> HIDE DEF r, g
<1>7. LifecycleTypes'
  BY <1>1, <1>4, <1>5 DEF RunInv, LifecycleTypes
<1>8. TaskInv'
  BY <1>1, <1>2, <1>3, <1>4 DEF RunInv, TaskInv
<1>9. \A p \in Requests, s \in Runs :
        /\ Starting(p, s)' => Starting(p, s) /\ p # q /\ s # r
        /\ Asks(p, s)' => Asks(p, s) /\ p # q
  BY <1>2, <1>6
<1>10. StartInv'
  BY <1>1, <1>4, <1>6, <1>9 DEF RunInv, StartInv
<1>11. Kept
  BY <1>1, <1>4, <1>9 DEF Kept, Uninvited
<1> QED BY <1>7, <1>8, <1>10, <1>11 DEF RunInv
LEMMA RunRetryRespawn ==
  ASSUME RunInv, NEW q \in Requests, RetryRespawn(q)
  PROVE  RunInv' /\ Kept
<1> DEFINE r == req[q].run
           i == [task |-> "running", http |-> "inprogress", handle |-> FALSE]
<1>1. /\ up /\ UNCHANGED <<row, up>> /\ r \in Runs /\ req[q].op = "retry"
      /\ {"idle", "handle"} \subseteq RequestSteps
  BY DEF RetryRespawn, RunInv, LifecycleTypes, RequestSteps
<1>2. CASE UNCHANGED <<reg, inst>> /\ Reply(q)
  <2> "idle" \in RequestSteps \ {"handle"}
    BY <1>1
  <2> QED BY <1>1, <1>2, SameRows, SameTasks, KeepStep
<1>3. CASE reg[r] = 0
  <2>1. PICK g \in FreeGens(r) : /\ reg' = [reg EXCEPT ![r] = g] /\ Open(q, "retry", "handle", r, g)
                                 /\ inst' = [inst EXCEPT ![r][g] = i]
    BY <1>3 DEF RetryRespawn
  <2>2. g \in Gens
    BY DEF FreeGens, Unheld
  <2>3. /\ req' \in [Requests -> HandledRequest]
        /\ \A s \in Requests : s # q => req'[s] = req[s]
        /\ req'[q].op = "retry" /\ req'[q].pc = "handle" /\ req'[q].run = r /\ req'[q].gen = g
    BY <1>1, <2>1, <2>2, OpenFacts DEF RunInv
  <2>4. reg' \in [Runs -> {0} \cup Gens] /\ reg'[r] = g /\ \A s \in Runs : s # r => reg'[s] = reg[s]
    BY <1>1, <2>1, <2>2 DEF RunInv, LifecycleTypes
  <2>5. \A h \in Gens : Task(r, h) = "none"
    BY <1>1, <1>3, GensNumbers DEF RunInv, TaskInv
  <2>6. i \in Instance /\ i.task = "running"
    BY DEF Instance, TaskState, Alive
  <2> HIDE DEF i
  <2>7. /\ inst' \in [Runs -> [Gens -> Instance]]
        /\ inst'[r][g] = i
        /\ \A s \in Runs, h \in Gens : s # r \/ h # g => inst'[s][h] = inst[s][h]
    <3>1. inst' = [inst EXCEPT ![r][g] = i] /\ inst \in [Runs -> [Gens -> Instance]]
      BY <2>1 DEF RunInv, LifecycleTypes
    <3> HIDE DEF r
    <3> QED BY <1>1, <2>2, <2>6, <3>1
  <2>8. row[r] # "none" /\ \A o \in Requests : ~Starting(o, r)
    BY <1>1, NoStart DEF RunInv, StartInv
  <2>9. LifecycleTypes'
    BY <1>1, <2>2, <2>3, <2>4, <2>7 DEF RunInv, LifecycleTypes
  <2>10. TaskInv'
    BY <1>1, <2>2, <2>4, <2>5, <2>6, <2>7, <2>8 DEF RunInv, TaskInv
  <2>11. \A p \in Requests, s \in Runs : /\ Starting(p, s)' <=> Starting(p, s)
                                         /\ Asks(p, s)' <=> Asks(p, s)
    BY <1>1, <2>3
  <2>12. \A p \in Requests, s \in Runs : Starting(p, s) => s # r /\ p # q
    BY <1>1, <2>8
  <2> HIDE DEF r
  <2>13. StartInv'
    <3>1. \A p, o \in Requests : \A s \in Runs : (Starting(p, s) /\ Asks(o, s) => p = o)'
      BY <2>11 DEF RunInv, StartInv
    <3>2. ASSUME NEW p \in Requests, NEW s \in Runs, Starting(p, s)'
          PROVE  /\ \A h \in Gens : Task(s, h)' = "none"
                 /\ req'[p].pc \in {"register", "persist"} => row'[s] = "none"
                 /\ req'[p].pc = "spawn" => row'[s] = "inprogress"
                 /\ req'[p].pc \in {"persist", "spawn"} => reg'[s] = req'[p].gen /\ req'[p].gen \in Gens
                 /\ req'[p].pc \in {"register", "persist", "spawn"}
      <4>1. Starting(p, s) /\ s # r /\ req'[p] = req[p] /\ reg'[s] = reg[s] /\ row'[s] = row[s]
            /\ \A h \in Gens : inst'[s][h] = inst[s][h]
        BY <1>1, <2>3, <2>4, <2>7, <2>11, <2>12, <3>2
      <4> QED BY <4>1 DEF RunInv, StartInv
    <3>3. ASSUME NEW p \in Requests, NEW s \in Runs, Asks(p, s)', ~Starting(p, s)'
          PROVE  row'[s] # "none"
      BY <1>1, <2>11, <3>3 DEF RunInv, StartInv
    <3> QED BY <3>1, <3>2, <3>3 DEF StartInv
  <2>14. Kept
    BY <1>1, <2>6, <2>7, <2>11 DEF Kept, Uninvited
  <2> QED BY <2>9, <2>10, <2>13, <2>14 DEF RunInv
<1> QED BY <1>2, <1>3 DEF RetryRespawn

(* Restarts, and the steps of the peers.                                   *)
LEMMA RunRestart ==
  ASSUME RunInv, Crash \/ Boot
  PROVE  RunInv' /\ Kept
<1>1. CASE Crash
  <2>1. /\ ~up' /\ UNCHANGED row /\ reg' = [r \in Runs |-> 0]
        /\ inst' = [r \in Runs |-> [g \in Gens |-> NoInst]] /\ req' = [q \in Requests |-> NoReq]
        /\ up' \in BOOLEAN
    BY <1>1 DEF Crash
  <2>2. NoInst \in Instance /\ NoReq \in HandledRequest
    BY DEF Instance, TaskState, HandledRequest, RequestSteps
  <2>3. LifecycleTypes'
    BY <2>1, <2>2 DEF RunInv, LifecycleTypes
  <2>4. TaskInv' /\ StartInv'
    BY <2>1 DEF TaskInv, StartInv
  <2>5. Kept
    BY <2>1 DEF Kept, Uninvited
  <2> QED BY <2>3, <2>4, <2>5 DEF RunInv
<1>2. CASE Boot
  <2> DEFINE i == [task |-> "running", http |-> "inprogress", handle |-> TRUE]
  <2>1. /\ ~up /\ up' = TRUE /\ UNCHANGED <<row, req>>
        /\ reg' = [r \in Runs |-> IF row[r] = "inprogress" THEN 1 ELSE 0]
        /\ inst' = [r \in Runs |-> [g \in Gens |->
              IF row[r] = "inprogress" /\ g = 1 THEN i ELSE NoInst]]
    BY <1>2 DEF Boot
  <2>2. NoInst \in Instance /\ i \in Instance /\ i.task = "running"
    BY DEF Instance, TaskState, Alive
  <2>3. \A q \in Requests : req[q] = NoReq
    BY <2>1 DEF RunInv, TaskInv
  <2> HIDE DEF i
  <2>4. LifecycleTypes'
    BY <2>1, <2>2, GensNumbers DEF RunInv, LifecycleTypes
  <2>5. TaskInv'
    BY <2>1, <2>2, GensNumbers DEF TaskInv
  <2>6. StartInv'
    BY <2>1, <2>3 DEF StartInv
  <2>7. Kept
    BY <2>1, <2>2 DEF Kept, Uninvited
  <2> QED BY <2>4, <2>5, <2>6, <2>7 DEF RunInv
<1> QED BY <1>1, <1>2
LEMMA RunStutter ==
  ASSUME RunInv, UNCHANGED <<row, reg, inst, req, up>>
  PROVE  RunInv' /\ Kept /\ SameDriven
  BY DEF RunInv, LifecycleTypes, TaskInv, StartInv, SameDriven, Kept, Uninvited

(* What the node records of its runs is consistent.                        *)
LEMMA RunNext == RunInv /\ PeerTypes /\ [LifecycleNext]_lifecycleVars => RunInv' /\ Kept
<1> SUFFICES ASSUME RunInv, PeerTypes, [LifecycleNext]_lifecycleVars PROVE RunInv' /\ Kept
  OBVIOUS
<1>1. CASE UNCHANGED lifecycleVars
  BY <1>1, RunStutter DEF lifecycleVars
<1>2. ASSUME NEW q \in Requests, RequestStep(q) PROVE RunInv' /\ Kept
  BY <1>2, RunStartRegister, RunStartPersist, RunStartSpawn, RunCancelTake, RunCancelMark,
     RunCancelAbort, RunCancelPersistedMark, RunRetryFlip, RunRetryBroadcast, RunRetryRecheck,
     RunRetryRespawn, RunRetryHandle DEF RequestStep
<1>3. ASSUME NEW r \in Runs, NEW g \in Gens, TaskStep(r, g) PROVE RunInv' /\ Kept
  BY <1>3, RunSendInvites, RunReachEnd, RunReturn, RunRecord, RunGuardDrop DEF TaskStep
<1>4. ASSUME NEW p \in Peers, NEW r \in Runs, PeerStep(p, r) PROVE RunInv' /\ Kept
  <2>1. UNCHANGED <<row, reg, inst, req, up>>
    BY <1>4 DEF PeerStep, Accept, AcceptFinish, Decline, PeerDismiss, PeerCancelWrite,
       PeerRetryWrite, LoopDone, LoopGivesUp, LoopFails
  <2> QED BY <2>1, RunStutter
<1>5. ASSUME NEW p \in Peers, PeerRestart(p) PROVE RunInv' /\ Kept
  BY <1>5, RunStutter DEF PeerRestart
<1>6. ASSUME NEW m \in net, DeliverInvite(m) \/ DeliverCancel(m) \/ DeliverRetry(m) \/ Lose(m)
      PROVE  RunInv' /\ Kept
  <2>1. UNCHANGED <<row, reg, inst, req, up>>
    BY <1>6 DEF DeliverInvite, DeliverCancel, DeliverRetry, Lose, Deliver
  <2> QED BY <2>1, RunStutter
<1>7. ASSUME NEW n \in notices, DropNotice(n) PROVE RunInv' /\ Kept
  BY <1>7, RunStutter DEF DropNotice
<1> QED
  BY <1>1, <1>2, <1>3, <1>4, <1>5, <1>6, <1>7, RunOpens, RunNotice, RunRestart DEF LifecycleNext

----------------------------------------------------------------------------
(* The peers.                                                              *)

(* What an edit of a peer's record leaves in it.                           *)
LEMMA PeerEdits ==
  ASSUME NEW s \in PeerRun, NEW b \in BOOLEAN
  PROVE  /\ LET t == [s EXCEPT !.card = b] IN
              /\ t \in PeerRun /\ t.card = b
              /\ t.accepting = s.accepting /\ t.row = s.row /\ t.loops = s.loops
              /\ t.cancels = s.cancels /\ t.retries = s.retries /\ t.overlap = s.overlap
         /\ LET t == [s EXCEPT !.dismissed = b] IN
              /\ t \in PeerRun /\ t.card = s.card
              /\ t.accepting = s.accepting /\ t.row = s.row /\ t.loops = s.loops
              /\ t.cancels = s.cancels /\ t.retries = s.retries /\ t.overlap = s.overlap
  BY DEF PeerRun
LEMMA PeerEditHandlers ==
  ASSUME NEW s \in PeerRun, NEW b \in BOOLEAN, NEW k \in Nat
  PROVE  LET t == [s EXCEPT !.card = b, !.cancels = k] IN
           /\ t \in PeerRun /\ t.card = b /\ t.cancels = k
           /\ t.accepting = s.accepting /\ t.row = s.row /\ t.loops = s.loops
           /\ t.retries = s.retries /\ t.overlap = s.overlap
  BY DEF PeerRun
LEMMA PeerEditCardAccepting ==
  ASSUME NEW s \in PeerRun, NEW b \in BOOLEAN, NEW c \in BOOLEAN
  PROVE  LET t == [s EXCEPT !.card = b, !.accepting = c] IN
              /\ t \in PeerRun /\ t.card = b /\ t.accepting = c
              /\ t.row = s.row /\ t.loops = s.loops
              /\ t.cancels = s.cancels /\ t.retries = s.retries /\ t.overlap = s.overlap
  BY DEF PeerRun
LEMMA PeerEditAcceptingCard ==
  ASSUME NEW s \in PeerRun, NEW b \in BOOLEAN, NEW c \in BOOLEAN
  PROVE  LET t == [s EXCEPT !.accepting = c, !.card = b] IN
              /\ t \in PeerRun /\ t.card = b /\ t.accepting = c
              /\ t.row = s.row /\ t.loops = s.loops
              /\ t.cancels = s.cancels /\ t.retries = s.retries /\ t.overlap = s.overlap
  BY DEF PeerRun
LEMMA PeerSettled ==
  ASSUME NEW s \in PeerRun
  PROVE  /\ Settled(s) \in PeerRun
         /\ Settled(s).card = s.card /\ Settled(s).accepting = s.accepting
         /\ Settled(s).row = s.row /\ Settled(s).loops = s.loops
         /\ Settled(s).cancels = s.cancels /\ Settled(s).retries = s.retries
         /\ Settled(s).overlap = "none" =>
              s.overlap = "none" \/ (s.loops = 0 /\ s.retries = 0)
<1> DEFINE v == IF s.loops = 0 /\ s.retries = 0 THEN "none" ELSE s.overlap
           t == [s EXCEPT !.overlap = v]
<1>1. v \in {"none", "seen"}
  BY DEF PeerRun
<1>2. /\ t \in PeerRun /\ t.card = s.card /\ t.accepting = s.accepting
      /\ t.row = s.row /\ t.loops = s.loops
      /\ t.cancels = s.cancels /\ t.retries = s.retries /\ t.overlap = v
  <2> HIDE DEF v
  <2> QED BY <1>1, Zenon DEF PeerRun
<1>3. Settled(s) = t
  BY DEF Settled
<1> HIDE DEF t
<1> QED BY <1>2, <1>3

(* A message that is no invitation, or is gone.                            *)
LEMMA LoopKeep ==
  ASSUME LoopInv, Kept, UNCHANGED peer, notices' \subseteq notices,
         net' \subseteq net \cup [type : {"Cancel", "Retry"}, run : Runs, to : Peers]
  PROVE  LoopInv'
<1>1. PeerTypes'
  BY DEF LoopInv, PeerTypes
<1>2. \A m \in net' : m.type = "Invite" => m \in net
  OBVIOUS
<1>3. InviteInv'
  BY <1>2 DEF LoopInv, InviteInv, Kept
<1> QED BY <1>1, <1>3 DEF LoopInv
LEMMA LoopPeer ==
  ASSUME LoopInv, Kept, NEW p \in Peers, NEW r \in Runs, NEW s \in PeerRun,
         peer' = [peer EXCEPT ![p][r] = s], net' \subseteq net,
         PeerRunOK(s), Untouched(peer[p][r]) => Untouched(s),
         notices' \subseteq [type : {"Decline", "Abandon"}, from : Peers, run : Runs]
  PROVE  LoopInv'
<1>1. /\ peer' \in [Peers -> [Runs -> PeerRun]] /\ peer'[p][r] = s
      /\ \A o \in Peers, t \in Runs : o # p \/ t # r => peer'[o][t] = peer[o][t]
  BY DEF LoopInv, PeerTypes
<1>2. PeerTypes'
  BY <1>1 DEF LoopInv, PeerTypes
<1>3. \A o \in Peers, t \in Runs : /\ Untouched(peer[o][t]) => Untouched(peer'[o][t])
                                   /\ PeerRunOK(peer'[o][t])
  BY <1>1 DEF LoopInv, InviteInv
<1>4. \A m \in net : m.to \in Peers /\ m.run \in Runs
  BY DEF LoopInv, PeerTypes
<1> HIDE DEF Untouched, PeerRunOK
<1>5. InviteInv'
  BY <1>3, <1>4 DEF LoopInv, InviteInv, Kept
<1> QED BY <1>2, <1>5 DEF LoopInv

(* The messages of the coordinator.                                        *)
LEMMA LoopSendInvites ==
  ASSUME RunInv, RunInv', LoopInv, Kept, NEW r \in Runs, NEW g \in Gens, SendInvites(r, g),
         Task(r, g)' # "invite"
  PROVE  LoopInv'
<1>1. PICK P \in SUBSET Peers : net' = net \cup ToPeers("Invite", r, P)
  BY DEF SendInvites
<1>2. UNCHANGED <<peer, notices, row, req, reg>> /\ Task(r, g) = "invite"
  BY DEF SendInvites
<1>3. row[r] # "none" /\ \A o \in Requests : ~Starting(o, r)
  BY <1>2, NoStart
<1>4. \A h \in Gens : h # g => Task(r, h)' = "none"
  BY <1>2 DEF RunInv, TaskInv
<1>5. ~Uninvited(r)' /\ Uninvited(r)
  BY <1>2, <1>3, <1>4 DEF Uninvited
<1>6. \A m \in net' : m \in net \/ (m.run = r /\ m.to \in Peers /\ m.type = "Invite")
  BY <1>1 DEF ToPeers
<1>7. PeerTypes'
  BY <1>1, <1>2 DEF LoopInv, PeerTypes, ToPeers
<1>8. InviteInv'
  BY <1>2, <1>5, <1>6 DEF LoopInv, InviteInv, Kept
<1> QED BY <1>7, <1>8 DEF LoopInv
LEMMA LoopMessages ==
  ASSUME RunInv, LoopInv, Kept, NEW q \in Requests,
         CancelAbort(q) \/ RetryBroadcast(q) \/ (\E r \in Runs : CancelPersisted(q, r))
  PROVE  LoopInv'
<1>1. UNCHANGED <<peer, notices>>
  BY DEF CancelAbort, RetryBroadcast, CancelPersisted
<1>2. req[q].op # "idle" => req[q].run \in Runs
  BY DEF RunInv, LifecycleTypes
<1>3. net' \subseteq net \cup [type : {"Cancel", "Retry"}, run : Runs, to : Peers]
  BY <1>2 DEF CancelAbort, RetryBroadcast, CancelPersisted, ToPeers
<1> QED BY <1>1, <1>3, LoopKeep
LEMMA LoopNotice ==
  ASSUME LoopInv, Kept, NEW n \in notices, HandleNotice(n)
  PROVE  LoopInv'
<1>1. UNCHANGED peer /\ notices' \subseteq notices /\ n.run \in Runs
  BY DEF HandleNotice, LoopInv, PeerTypes
<1>2. net' \subseteq net \cup [type : {"Cancel", "Retry"}, run : Runs, to : Peers]
  BY <1>1 DEF HandleNotice, ToPeers
<1> QED BY <1>1, <1>2, LoopKeep

(* What a peer does with a message.                                        *)
LEMMA LoopInvite ==
  ASSUME LoopInv, Kept, NEW m \in net, DeliverInvite(m), UNCHANGED <<row, inst, req>>
  PROVE  LoopInv'
<1> DEFINE o == peer[m.to][m.run]
           s == [o EXCEPT !.card = TRUE]
<1>1. m.to \in Peers /\ m.run \in Runs /\ m.type = "Invite" /\ peer[m.to][m.run] \in PeerRun
  BY DEF LoopInv, PeerTypes, DeliverInvite
<1>2. Untouched(peer[m.to][m.run]) /\ ~Uninvited(m.run)
  BY <1>1 DEF LoopInv, InviteInv
<1>3. s \in PeerRun /\ PeerRunOK(s)
  <2>1. o \in PeerRun /\ Untouched(o) /\ PeerRunOK(o)
    BY <1>1, <1>2 DEF LoopInv, InviteInv
  <2> HIDE DEF o
  <2>2. /\ s \in PeerRun /\ s.accepting = o.accepting /\ s.row = o.row /\ s.loops = o.loops
        /\ s.cancels = o.cancels /\ s.retries = o.retries /\ s.overlap = o.overlap
    BY <2>1, PeerEdits
  <2> QED BY <2>1, <2>2 DEF PeerRunOK, Untouched
<1>4. net' = net \ {m} /\ peer' = [peer EXCEPT ![m.to][m.run] = s] /\ UNCHANGED notices
  BY DEF DeliverInvite, Deliver
<1> HIDE DEF s
<1>5. /\ peer' \in [Peers -> [Runs -> PeerRun]] /\ peer'[m.to][m.run] = s
      /\ \A p \in Peers, t \in Runs : p # m.to \/ t # m.run => peer'[p][t] = peer[p][t]
  BY <1>1, <1>3, <1>4 DEF LoopInv, PeerTypes
<1>6. PeerTypes'
  BY <1>4, <1>5 DEF LoopInv, PeerTypes
<1>7. \A n \in net' : /\ n \in net /\ n.to \in Peers /\ n.run \in Runs
                      /\ n.type = "Invite" => n.to # m.to \/ n.run # m.run
  BY <1>1, <1>4 DEF LoopInv, PeerTypes
<1>8. \A t \in Runs : Uninvited(t)' => Uninvited(t) /\ t # m.run
  BY <1>2 DEF Kept
<1> HIDE DEF Untouched, PeerRunOK
<1>9. InviteInv'
  BY <1>1, <1>3, <1>5, <1>7, <1>8 DEF LoopInv, InviteInv
<1> QED BY <1>6, <1>9 DEF LoopInv
LEMMA LoopCancel ==
  ASSUME LoopInv, Kept, NEW m \in net, DeliverCancel(m)
  PROVE  LoopInv'
<1> DEFINE o == peer[m.to][m.run]
           k == IF o.row = "inprogress" THEN o.cancels + 1 ELSE o.cancels
           s == [o EXCEPT !.card = FALSE, !.cancels = k]
<1>1. m.to \in Peers /\ m.run \in Runs /\ o \in PeerRun /\ PeerRunOK(o)
  BY DEF LoopInv, PeerTypes, InviteInv
<1>2. k \in Nat /\ (o.row = "none" => k = o.cancels)
  BY <1>1 DEF PeerRun
<1>3. /\ s \in PeerRun /\ ~s.card /\ s.row = o.row /\ s.accepting = o.accepting
      /\ s.loops = o.loops /\ s.cancels = k /\ s.retries = o.retries /\ s.overlap = o.overlap
  <2> HIDE DEF o, k
  <2> QED BY <1>1, <1>2, PeerEditHandlers
<1>4. peer' = [peer EXCEPT ![m.to][m.run] = s] /\ net' \subseteq net /\ UNCHANGED notices
  BY DEF DeliverCancel, Deliver
<1> HIDE DEF k, s
<1>5. PeerRunOK(s) /\ (Untouched(o) => Untouched(s))
  BY <1>1, <1>2, <1>3 DEF PeerRunOK, Untouched
<1>6. notices' \subseteq [type : {"Decline", "Abandon"}, from : Peers, run : Runs]
  BY <1>4 DEF LoopInv, PeerTypes
<1> QED BY <1>1, <1>3, <1>4, <1>5, <1>6, LoopPeer
LEMMA LoopRetry ==
  ASSUME LoopInv, Kept, NEW m \in net, DeliverRetry(m)
  PROVE  LoopInv'
<1> DEFINE o == peer[m.to][m.run]
           n == o.retries + 1
           v == IF o.retries > 0 THEN "seen" ELSE o.overlap
           t == [o EXCEPT !.retries = n, !.overlap = v]
           s == IF o.row = "failed" /\ ~o.dismissed THEN t ELSE o
<1>1. m.to \in Peers /\ m.run \in Runs /\ o \in PeerRun /\ PeerRunOK(o)
  BY DEF LoopInv, PeerTypes, InviteInv
<1>2. n \in Nat /\ v \in {"none", "seen"} /\ o.retries \in Nat /\ o.loops \in Nat
  BY <1>1 DEF PeerRun
<1>3. /\ t \in PeerRun /\ t.card = o.card /\ t.row = o.row /\ t.accepting = o.accepting
      /\ t.loops = o.loops /\ t.cancels = o.cancels /\ t.retries = n /\ t.overlap = v
  <2> HIDE DEF o, n, v
  <2> QED BY <1>1, <1>2, Zenon DEF PeerRun
<1>4. peer' = [peer EXCEPT ![m.to][m.run] = s] /\ net' \subseteq net /\ UNCHANGED notices
  BY DEF DeliverRetry, Deliver, WillRevive
<1> HIDE DEF t
<1>5. CASE o.row = "failed" /\ ~o.dismissed
  <2>1. v = "none" => o.retries = 0 /\ o.overlap = "none"
    BY <1>2
  <2>2. PeerRunOK(t)
    BY <1>1, <1>2, <1>3, <1>5, <2>1 DEF PeerRunOK
  <2> QED BY <1>3, <1>5, <2>2, <1>1, <1>4, LoopPeer DEF LoopInv, PeerTypes, Untouched
<1>6. CASE ~(o.row = "failed" /\ ~o.dismissed)
  BY <1>1, <1>4, <1>6, LoopPeer DEF LoopInv, PeerTypes
<1> QED BY <1>5, <1>6

(* The operator and the loops of a peer.                                   *)
LEMMA LoopPeerStep ==
  ASSUME LoopInv, Kept, NEW p \in Peers, NEW r \in Runs, PeerStep(p, r)
  PROVE  LoopInv'
<1> DEFINE o == peer[p][r]
<1>1. o \in PeerRun /\ PeerRunOK(o) /\ UNCHANGED net
  BY DEF LoopInv, PeerTypes, InviteInv, PeerStep, Accept, AcceptFinish, Decline, PeerDismiss,
     PeerCancelWrite,
     PeerRetryWrite, LoopDone, LoopGivesUp, LoopFails
<1>2. notices' \subseteq [type : {"Decline", "Abandon"}, from : Peers, run : Runs]
  BY DEF LoopInv, PeerTypes, Notice, PeerStep, Accept, AcceptFinish, Decline, PeerDismiss, PeerCancelWrite,
     PeerRetryWrite, LoopDone, LoopGivesUp, LoopFails
<1>3. SUFFICES \E s \in PeerRun : /\ peer' = [peer EXCEPT ![p][r] = s]
                                  /\ PeerRunOK(s) /\ (Untouched(o) => Untouched(s))
  BY <1>1, <1>2, LoopPeer
<1>4. CASE Accept(p, r)
  <2> DEFINE s == [o EXCEPT !.card = FALSE, !.accepting = TRUE]
  <2>1. peer' = [peer EXCEPT ![p][r] = s] /\ o.card
    BY <1>4 DEF Accept, SetPeer
  <2>2. /\ s \in PeerRun /\ ~s.card /\ s.accepting /\ s.row = o.row /\ s.loops = o.loops
        /\ s.cancels = o.cancels /\ s.retries = o.retries /\ s.overlap = o.overlap
    <3> HIDE DEF o
    <3> QED BY <1>1, PeerEditCardAccepting
  <2> HIDE DEF s
  <2>3. PeerRunOK(s) /\ (Untouched(o) => Untouched(s))
    BY <1>1, <2>1, <2>2 DEF PeerRunOK, Untouched
  <2> QED BY <2>1, <2>2, <2>3
<1>5. CASE AcceptFinish(p, r)
  <2>1. o.accepting
    BY <1>5 DEF AcceptFinish
  <2>2. o.row = "none" /\ ~o.card /\ o.loops = 0 /\ o.retries = 0 /\ o.cancels = 0
    BY <1>1, <2>1 DEF PeerRunOK
  <2>3. CASE SetPeer(p, r, AfterAccept(o))
    <3> DEFINE k == o.loops + 1  b == FALSE  x == "inprogress"
               s == [o EXCEPT !.accepting = b, !.row = x, !.dismissed = b, !.loops = k]
    <3>1. peer' = [peer EXCEPT ![p][r] = s]
      BY <2>2, <2>3 DEF SetPeer, AfterAccept
    <3>2. k = 1 /\ k \in Nat /\ b \in BOOLEAN /\ x \in RowStatus
      BY <2>2 DEF RowStatus
    <3> HIDE DEF k
    <3>3. /\ s \in PeerRun /\ s.accepting = b /\ s.row = x /\ s.loops = k /\ s.card = o.card
          /\ s.cancels = o.cancels /\ s.retries = o.retries /\ s.overlap = o.overlap
      <4>1. o \in PeerRun
        BY <1>1
      <4> HIDE DEF o, b, x
      <4> QED BY <3>2, <4>1, Zenon DEF PeerRun
    <3> HIDE DEF s
    <3>4. PeerRunOK(s) /\ ~Untouched(o)
      BY <2>1, <2>2, <3>2, <3>3 DEF PeerRunOK, Untouched
    <3> QED BY <3>1, <3>3, <3>4
  <2>4. CASE SetPeer(p, r, [o EXCEPT !.accepting = FALSE, !.card = TRUE])
    <3> DEFINE s == [o EXCEPT !.accepting = FALSE, !.card = TRUE]
    <3>1. peer' = [peer EXCEPT ![p][r] = s]
      BY <2>4 DEF SetPeer
    <3>2. /\ s \in PeerRun /\ s.card /\ ~s.accepting /\ s.row = o.row /\ s.loops = o.loops
          /\ s.cancels = o.cancels /\ s.retries = o.retries /\ s.overlap = o.overlap
      <4> HIDE DEF o
      <4> QED BY <1>1, PeerEditAcceptingCard
    <3> HIDE DEF s
    <3>3. PeerRunOK(s) /\ ~Untouched(o)
      BY <2>1, <2>2, <3>2 DEF PeerRunOK, Untouched
    <3> QED BY <3>1, <3>2, <3>3
  <2> QED BY <1>5, <2>3, <2>4 DEF AcceptFinish
<1>6. CASE Decline(p, r)
  <2> DEFINE s == [o EXCEPT !.card = FALSE]
  <2>1. peer' = [peer EXCEPT ![p][r] = s] /\ o.card
    BY <1>6 DEF Decline, SetPeer
  <2>2. /\ s \in PeerRun /\ ~s.card /\ s.accepting = o.accepting /\ s.row = o.row
        /\ s.loops = o.loops /\ s.cancels = o.cancels /\ s.retries = o.retries /\ s.overlap = o.overlap
    <3> HIDE DEF o
    <3> QED BY <1>1, PeerEdits
  <2> HIDE DEF s
  <2>3. PeerRunOK(s) /\ ~Untouched(o)
    BY <1>1, <2>1, <2>2 DEF PeerRunOK, Untouched
  <2> QED BY <2>1, <2>2, <2>3
<1>7. CASE PeerDismiss(p, r)
  <2> DEFINE s == [o EXCEPT !.dismissed = TRUE]
  <2>1. peer' = [peer EXCEPT ![p][r] = s]
    BY <1>7 DEF PeerDismiss, SetPeer
  <2>2. /\ s \in PeerRun /\ s.card = o.card /\ s.accepting = o.accepting /\ s.row = o.row
        /\ s.loops = o.loops /\ s.cancels = o.cancels /\ s.retries = o.retries /\ s.overlap = o.overlap
    <3> HIDE DEF o
    <3> QED BY <1>1, PeerEdits
  <2> HIDE DEF s
  <2>3. PeerRunOK(s) /\ (Untouched(o) => Untouched(s))
    BY <1>1, <2>2 DEF PeerRunOK, Untouched
  <2> QED BY <2>1, <2>2, <2>3
<1>8. ASSUME NEW x \in {"completed", "failed"}, LoopEnds(p, r, x)
      PROVE  \E s \in PeerRun : /\ peer' = [peer EXCEPT ![p][r] = s]
                                /\ PeerRunOK(s) /\ (Untouched(o) => Untouched(s))
  <2> DEFINE k == o.loops - 1
             a == [o EXCEPT !.loops = k, !.row = x, !.final = "none"]
             b == [o EXCEPT !.loops = k, !.final = "lost"]
  <2>0. o.loops > 0
    BY <1>8 DEF LoopEnds
  <2>1. k \in Nat /\ x \in RowStatus /\ o.row # "none" /\ ~o.card /\ ~o.accepting
    BY <1>1, <2>0 DEF PeerRunOK, PeerRun, RowStatus, Terminal
  <2>2. o.overlap = "none" => k = 0 /\ o.retries = 0
    BY <1>1, <2>0 DEF PeerRunOK, PeerRun
  <2>3. ASSUME NEW u \in PeerRun, u.card = o.card, u.accepting = o.accepting, u.loops = k,
               u.retries = o.retries, u.overlap = o.overlap, u.row \in {x, o.row},
               peer' = [peer EXCEPT ![p][r] = Settled(u)]
        PROVE  \E s \in PeerRun : /\ peer' = [peer EXCEPT ![p][r] = s]
                                  /\ PeerRunOK(s) /\ (Untouched(o) => Untouched(s))
    <3> DEFINE s == Settled(u)
    <3>1. /\ s \in PeerRun /\ s.card = u.card /\ s.accepting = u.accepting
          /\ s.row = u.row /\ s.loops = u.loops /\ s.retries = u.retries
          /\ s.overlap = "none" => u.overlap = "none" \/ (u.loops = 0 /\ u.retries = 0)
      BY <2>3, PeerSettled
    <3> HIDE DEF s, k
    <3>2. s.row # "none" /\ ~s.card /\ ~s.accepting
      BY <2>1, <2>3, <3>1
    <3>3. s.overlap = "none" => s.loops = 0 /\ s.retries = 0
      BY <2>2, <2>3, <3>1
    <3>4. PeerRunOK(s) /\ ~Untouched(o)
      BY <2>1, <3>2, <3>3 DEF PeerRunOK, Untouched
    <3> QED BY <2>3, <3>1, <3>4 DEF s
  <2>4. /\ a \in PeerRun /\ a.card = o.card /\ a.accepting = o.accepting /\ a.row = x
        /\ a.loops = k /\ a.retries = o.retries /\ a.overlap = o.overlap
    <3>1. "none" \in {"none", "lost"}
      OBVIOUS
    <3> HIDE DEF o, k
    <3> QED BY <1>1, <2>1, <3>1, Zenon DEF PeerRun
  <2>5. /\ b \in PeerRun /\ b.card = o.card /\ b.accepting = o.accepting /\ b.row = o.row
        /\ b.loops = k /\ b.retries = o.retries /\ b.overlap = o.overlap
    <3>1. "lost" \in {"none", "lost"}
      OBVIOUS
    <3> HIDE DEF o, k
    <3> QED BY <1>1, <2>1, <3>1, Zenon DEF PeerRun
  <2>6. \/ peer' = [peer EXCEPT ![p][r] = Settled(a)]
        \/ peer' = [peer EXCEPT ![p][r] = Settled(b)]
    BY <1>8 DEF LoopEnds, SetPeer
  <2> HIDE DEF a, b, k
  <2> QED BY <2>3, <2>4, <2>5, <2>6
<1>9. LoopDone(p, r) => LoopEnds(p, r, "completed")
  BY DEF LoopDone
<1>10. LoopGivesUp(p, r) \/ LoopFails(p, r) => LoopEnds(p, r, "failed")
  BY DEF LoopGivesUp, LoopFails
<1>11. CASE PeerCancelWrite(p, r)
  <2> DEFINE k == o.cancels - 1
             a == [o EXCEPT !.cancels = k, !.row = "cancelled"]
             b == [o EXCEPT !.cancels = k]
  <2>1. o.cancels > 0 /\ (peer' = [peer EXCEPT ![p][r] = a] \/ peer' = [peer EXCEPT ![p][r] = b])
    BY <1>11 DEF PeerCancelWrite, SetPeer
  <2>2. /\ k \in Nat /\ "cancelled" \in RowStatus /\ o.row # "none"
        /\ ~o.card /\ ~o.accepting
    BY <1>1, <2>1 DEF PeerRunOK, PeerRun, RowStatus, Terminal
  <2>3. /\ a \in PeerRun /\ a.card = o.card /\ a.accepting = o.accepting /\ a.row = "cancelled"
        /\ a.loops = o.loops /\ a.retries = o.retries /\ a.overlap = o.overlap
        /\ b \in PeerRun /\ b.card = o.card /\ b.accepting = o.accepting /\ b.row = o.row
        /\ b.loops = o.loops /\ b.retries = o.retries /\ b.overlap = o.overlap
    <3> HIDE DEF o, k
    <3> QED BY <1>1, <2>2, Zenon DEF PeerRun
  <2> HIDE DEF a, b, k
  <2>4. PeerRunOK(a) /\ PeerRunOK(b) /\ ~Untouched(o)
    BY <1>1, <2>2, <2>3 DEF PeerRunOK, Untouched
  <2> QED BY <2>1, <2>3, <2>4
<1>12. CASE PeerRetryWrite(p, r)
  <2> DEFINE n == o.retries - 1  k == o.loops + 1
             a == [o EXCEPT !.retries = n, !.row = "inprogress", !.loops = k, !.final = "none"]
             b == [o EXCEPT !.retries = n]
  <2>1. /\ o.retries > 0
        /\ peer' = [peer EXCEPT ![p][r] = a] \/ peer' = [peer EXCEPT ![p][r] = Settled(b)]
    BY <1>12 DEF PeerRetryWrite, SetPeer
  <2>2. /\ n \in Nat /\ k \in Nat /\ "inprogress" \in RowStatus /\ o.row # "none"
        /\ ~o.card /\ ~o.accepting /\ o.loops \in Nat /\ o.retries \in Nat
        /\ n + k = o.retries + o.loops /\ n + o.loops <= o.retries + o.loops
    BY <1>1, <2>1 DEF PeerRunOK, PeerRun, RowStatus, Terminal
  <2>3. /\ a \in PeerRun /\ a.card = o.card /\ a.accepting = o.accepting /\ a.row = "inprogress"
        /\ a.loops = k /\ a.retries = n /\ a.overlap = o.overlap
        /\ b \in PeerRun /\ b.card = o.card /\ b.accepting = o.accepting /\ b.row = o.row
        /\ b.loops = o.loops /\ b.retries = n /\ b.overlap = o.overlap
    <3>1. "none" \in {"none", "lost"}
      OBVIOUS
    <3> HIDE DEF o, k, n
    <3> QED BY <1>1, <2>2, <3>1, Zenon DEF PeerRun
  <2> DEFINE s == Settled(b)
  <2>4. /\ s \in PeerRun /\ s.card = b.card /\ s.accepting = b.accepting
        /\ s.row = b.row /\ s.loops = b.loops /\ s.retries = b.retries
        /\ s.overlap = "none" => b.overlap = "none" \/ (b.loops = 0 /\ b.retries = 0)
    <3> HIDE DEF b
    <3> QED BY <2>3, PeerSettled
  <2>5. peer' = [peer EXCEPT ![p][r] = a] \/ peer' = [peer EXCEPT ![p][r] = s]
    BY <2>1
  <2> HIDE DEF a, b, s, k, n
  <2>6. PeerRunOK(a)
    <3>1. ~a.card /\ ~a.accepting /\ a.row # "none" /\ a.row # "failed"
      BY <2>2, <2>3
    <3>2. a.overlap = "none" => a.loops + a.retries <= 1
      BY <1>1, <2>2, <2>3 DEF PeerRunOK
    <3> QED BY <3>1, <3>2 DEF PeerRunOK
  <2>7. PeerRunOK(s)
    <3>1. s.overlap = "none" => s.loops + s.retries <= 1 /\ (s.row = "failed" => s.loops = 0)
      BY <1>1, <2>2, <2>3, <2>4 DEF PeerRunOK
    <3>2. ~s.card /\ ~s.accepting /\ s.row # "none"
      BY <2>2, <2>3, <2>4
    <3> QED BY <3>1, <3>2 DEF PeerRunOK
  <2> QED BY <2>2, <2>3, <2>4, <2>5, <2>6, <2>7 DEF Untouched
<1> QED BY <1>4, <1>5, <1>6, <1>7, <1>8, <1>9, <1>10, <1>11, <1>12 DEF PeerStep
LEMMA LoopRestart ==
  ASSUME LoopInv, Kept, NEW p \in Peers, PeerRestart(p)
  PROVE  LoopInv'
<1> DEFINE k(r) == IF peer[p][r].row = "inprogress" THEN 1 ELSE 0
           s(r) == [peer[p][r] EXCEPT !.accepting = FALSE, !.cancels = 0, !.retries = 0,
                              !.overlap = "none", !.final = "none", !.loops = k(r)]
<1>1. ASSUME NEW r \in Runs
      PROVE  s(r) \in PeerRun /\ PeerRunOK(s(r)) /\ (Untouched(peer[p][r]) => Untouched(s(r)))
  <2> DEFINE o == peer[p][r]  n == k(r)
             t == [o EXCEPT !.accepting = FALSE, !.cancels = 0, !.retries = 0,
                            !.overlap = "none", !.final = "none", !.loops = n]
  <2>1. o \in PeerRun /\ PeerRunOK(o)
    BY DEF LoopInv, PeerTypes, InviteInv
  <2>2. n \in Nat /\ n <= 1 /\ (o.row # "inprogress" => n = 0)
    OBVIOUS
  <2>3. o \in PeerRun /\ n \in Nat
    BY <2>1, <2>2
  <2>4. /\ t \in PeerRun /\ t.loops = n /\ ~t.accepting /\ t.row = o.row /\ t.card = o.card
        /\ t.cancels = 0 /\ t.retries = 0
    <3>1. 0 \in Nat
      OBVIOUS
    <3> HIDE DEF o, n
    <3> QED BY <2>3, <3>1, Zenon DEF PeerRun
  <2>5. t = s(r)
    OBVIOUS
  <2> HIDE DEF t, s, n, k
  <2>6. PeerRunOK(t) /\ (Untouched(o) => Untouched(t))
    BY <2>1, <2>2, <2>4 DEF PeerRunOK, Untouched
  <2> QED BY <2>4, <2>5, <2>6
<1>2. /\ peer' = [peer EXCEPT ![p] = [r \in Runs |-> s(r)]]
      /\ notices' \subseteq notices /\ net' = net
  BY DEF PeerRestart
<1> HIDE DEF s
<1>3. /\ peer' \in [Peers -> [Runs -> PeerRun]]
      /\ \A o \in Peers, t \in Runs : peer'[o][t] = IF o = p THEN s(t) ELSE peer[o][t]
  BY <1>1, <1>2 DEF LoopInv, PeerTypes
<1>4. PeerTypes'
  BY <1>2, <1>3 DEF LoopInv, PeerTypes
<1>5. \A o \in Peers, t \in Runs : /\ Untouched(peer[o][t]) => Untouched(peer'[o][t])
                                   /\ PeerRunOK(peer'[o][t])
  <2> HIDE DEF Untouched, PeerRunOK
  <2> QED BY <1>1, <1>3 DEF LoopInv, InviteInv
<1>6. \A m \in net : m.to \in Peers /\ m.run \in Runs
  BY DEF LoopInv, PeerTypes
<1> HIDE DEF Untouched, PeerRunOK
<1>7. InviteInv'
  BY <1>2, <1>5, <1>6 DEF LoopInv, InviteInv, Kept
<1> QED BY <1>4, <1>7 DEF LoopInv

(* A peer's loops.                                                         *)
LEMMA LoopNext ==
  ASSUME RunInv, RunInv', Kept, LoopInv, [LifecycleNext]_lifecycleVars
  PROVE  LoopInv'
<1>1. CASE UNCHANGED <<peer, net, notices>>
  BY <1>1, LoopKeep
<1>2. ASSUME NEW q \in Requests, RequestStep(q) PROVE LoopInv'
  <2>1. CASE CancelAbort(q) \/ RetryBroadcast(q)
    BY <2>1, LoopMessages
  <2>2. CASE ~(CancelAbort(q) \/ RetryBroadcast(q))
    <3>1. UNCHANGED <<peer, net, notices>>
      BY <1>2, <2>2 DEF RequestStep, StartRegister, StartPersist, StartSpawn, CancelTake, CancelMark,
         CancelPersistedMark, RetryFlip, RetryRecheck, RetryRespawn, RetryHandle
    <3> QED BY <1>1, <3>1
  <2> QED BY <2>1, <2>2
<1>3. ASSUME NEW q \in Requests, NEW r \in Runs, RequestOpens(q, r) PROVE LoopInv'
  <2>1. CASE CancelPersisted(q, r)
    BY <2>1, LoopMessages
  <2>2. CASE ~CancelPersisted(q, r)
    <3>1. UNCHANGED <<peer, net, notices>>
      BY <1>3, <2>2 DEF RequestOpens, StartCheck, CancelLookup, RetryRead
    <3> QED BY <1>1, <3>1
  <2> QED BY <2>1, <2>2
<1>4. ASSUME NEW r \in Runs, NEW g \in Gens, TaskStep(r, g) PROVE LoopInv'
  <2>1. CASE SendInvites(r, g)
    BY <2>1, LoopSendInvites, RunSendInvites
  <2>2. CASE ~SendInvites(r, g)
    <3>1. UNCHANGED <<peer, net, notices>>
      BY <1>4, <2>2 DEF TaskStep, ReachEnd, Return, Record, GuardDrop, Strand
    <3> QED BY <1>1, <3>1
  <2> QED BY <2>1, <2>2
<1>5. ASSUME NEW m \in net, DeliverInvite(m) PROVE LoopInv'
  BY <1>5, LoopInvite DEF DeliverInvite, Deliver
<1>6. ASSUME NEW m \in net, Lose(m) PROVE LoopInv'
  BY <1>6, LoopKeep DEF Lose
<1>7. ASSUME NEW n \in notices, DropNotice(n) PROVE LoopInv'
  BY <1>7, LoopKeep DEF DropNotice
<1>8. Crash \/ Boot => UNCHANGED <<peer, net, notices>>
  BY DEF Crash, Boot
<1>9. UNCHANGED lifecycleVars => UNCHANGED <<peer, net, notices>>
  BY DEF lifecycleVars
<1> QED
  BY <1>1, <1>2, <1>3, <1>4, <1>5, <1>6, <1>7, <1>8, <1>9, LoopPeerStep, LoopRestart, LoopCancel,
     LoopRetry, LoopNotice DEF LifecycleNext

(* A peer drives a run with one loop at a time, whatever the operators do, *)
(* however many of the messages, notices and writes are lost, and whenever *)
(* its handlers write what they decided earlier, as long as no two         *)
(* RetryWorkflows found the run failed before either had revived it.       *)
THEOREM LoopSafety == LifecycleSpec => []OneLoopPerRun
<1>1. LifecycleInit => RunInv /\ LoopInv
  BY InitRun, InitLoop
<1>2. RunInv /\ LoopInv /\ [LifecycleNext]_lifecycleVars => RunInv' /\ LoopInv'
  BY RunNext, LoopNext DEF LoopInv
<1>3. LoopInv => OneLoopPerRun
  BY DEF LoopInv, PeerTypes, PeerRun, InviteInv, PeerRunOK, OneLoopPerRun
<1> QED BY <1>1, <1>2, <1>3, PTL DEF LifecycleSpec

----------------------------------------------------------------------------
(* What the node promises of its runs (module RunOutcome).                 *)

Drivers == [r \in Runs |-> Cardinality({g \in Gens : Task(r, g) # "none"})]

Retrying == {r \in Runs : \E q \in Requests : req[q].op = "retry" /\ req[q].run = r}

LEMMA SameDrivers == ASSUME SameDriven PROVE Drivers' = Drivers
<1>1. \A r \in Runs : {g \in Gens : Task(r, g)' # "none"} = {g \in Gens : Task(r, g) # "none"}
  BY DEF SameDriven
<1> QED BY <1>1 DEF Drivers

(* No retry is opened and none ends, or the retry of one request ends.     *)
RetriesKept ==
  \A q \in Requests :
    /\ req'[q].op = "retry" <=> req[q].op = "retry"
    /\ req[q].op = "retry" => req'[q].run = req[q].run
LEMMA SameRetrying == ASSUME RetriesKept PROVE Retrying' = Retrying
  BY DEF RetriesKept, Retrying
LEMMA StepRetries ==
  ASSUME LifecycleTypes, NEW q \in Requests, NEW x \in RequestSteps,
         Goto(q, x) \/ (Reply(q) /\ req[q].op # "retry")
  PROVE  Retrying' = Retrying
<1>1. CASE Goto(q, x)
  <2>1. \A o \in Requests : req'[o].op = req[o].op /\ req'[o].run = req[o].run
    BY <1>1, GotoFacts
  <2> QED BY <2>1, SameRetrying DEF RetriesKept
<1>2. CASE Reply(q) /\ req[q].op # "retry"
  <2>1. req'[q].op = "idle" /\ \A o \in Requests : o # q => req'[o] = req[o]
    BY <1>2, ReplyFacts
  <2>2. RetriesKept
    BY <1>2, <2>1 DEF RetriesKept
  <2> QED BY <2>2, SameRetrying
<1> QED BY <1>1, <1>2
LEMMA DoneRetrying ==
  ASSUME LifecycleTypes, NEW q \in Requests, Reply(q), req[q].op = "retry"
  PROVE  Retrying' = Retrying \/ Retrying' = Retrying \ {req[q].run}
<1>1. req'[q].op = "idle" /\ \A o \in Requests : o # q => req'[o] = req[o]
  BY ReplyFacts
<1>2. Retrying' = {r \in Runs : \E o \in Requests : req'[o].op = "retry" /\ req'[o].run = r}
  BY DEF Retrying
<1>3. \A r \in Runs : r \in Retrying' => r \in Retrying
  BY <1>1, <1>2 DEF Retrying
<1>4. \A r \in Runs : r \in Retrying /\ r # req[q].run => r \in Retrying'
  BY <1>1, <1>2 DEF Retrying
<1>5. Retrying \subseteq Runs /\ Retrying' \subseteq Runs
  BY <1>2 DEF Retrying
<1> QED BY <1>3, <1>4, <1>5

(* A row that keeps its status, or a run that ends.                        *)
RowEnds ==
  \/ UNCHANGED row
  \/ \E r \in Runs, o \in Terminal : row[r] = "inprogress" /\ row' = [row EXCEPT ![r] = o]
LEMMA OutcomeEnds ==
  ASSUME SameDriven, RowEnds, UNCHANGED Retrying
  PROVE  Outcome!Next \/ UNCHANGED <<row, Drivers, Retrying>>
<1>1. Drivers' = Drivers
  BY SameDrivers
<1>2. ASSUME NEW r \in Runs, NEW o \in Terminal, row[r] = "inprogress", row' = [row EXCEPT ![r] = o]
      PROVE  Outcome!Next
  <2>1. Outcome!End(r, o)
    BY <1>1, <1>2 DEF Outcome!End, Drivers, Retrying
  <2> QED BY <2>1 DEF Outcome!Next, Outcome!Outcomes, Terminal
<1> QED BY <1>1, <1>2 DEF RowEnds

(* A retry that ends.                                                      *)
LEMMA OutcomeDone ==
  ASSUME RunInv, SameDriven, UNCHANGED row, NEW q \in Requests, Reply(q), req[q].op = "retry"
  PROVE  Outcome!Next \/ UNCHANGED <<row, Drivers, Retrying>>
<1>1. Drivers' = Drivers
  BY SameDrivers
<1>2. LifecycleTypes /\ req[q].run \in Runs
  BY DEF RunInv, LifecycleTypes
<1>3. Retrying' = Retrying \/ Retrying' = Retrying \ {req[q].run}
  BY <1>2, DoneRetrying
<1>4. ASSUME NEW r \in Runs, Retrying' = Retrying \ {r} PROVE Outcome!Next
  <2>1. Outcome!Done(r)
    BY <1>1, <1>4 DEF Outcome!Done, Drivers, Retrying
  <2> QED BY <2>1 DEF Outcome!Next
<1> QED BY <1>1, <1>2, <1>3, <1>4
LEMMA OutcomeBegin ==
  ASSUME RunInv, SameDriven, NEW q \in Requests, StartPersist(q)
  PROVE  Outcome!Next \/ UNCHANGED <<row, Drivers, Retrying>>
<1> DEFINE r == req[q].run
<1>1. Drivers' = Drivers
  BY SameDrivers
<1>2. r \in Runs /\ row[r] = "none" /\ LifecycleTypes /\ "spawn" \in RequestSteps
  BY DEF StartPersist, RunInv, LifecycleTypes, StartInv, RequestSteps
<1>3. Goto(q, "spawn") \/ (Reply(q) /\ req[q].op # "retry")
  BY DEF StartPersist
<1>4. Retrying' = Retrying
  BY <1>2, <1>3, StepRetries
<1>5. CASE row' = [row EXCEPT ![r] = "inprogress"]
  <2>1. Outcome!Begin(r)
    BY <1>1, <1>2, <1>4, <1>5 DEF Outcome!Begin, Drivers, Retrying
  <2> QED BY <1>2, <2>1 DEF Outcome!Next
<1> QED BY <1>1, <1>4, <1>5 DEF StartPersist
LEMMA OutcomeRetry ==
  ASSUME RunInv, SameDriven, NEW q \in Requests, RetryFlip(q)
  PROVE  Outcome!Next \/ UNCHANGED <<row, Drivers, Retrying>>
<1> DEFINE r == req[q].run
<1>1. Drivers' = Drivers
  BY SameDrivers
<1>2. /\ r \in Runs /\ req[q].op = "retry" /\ LifecycleTypes /\ "broadcast" \in RequestSteps
      /\ r \in Retrying
  BY DEF RetryFlip, RunInv, LifecycleTypes, RequestSteps, Retrying
<1>3. CASE row' = [row EXCEPT ![r] = "inprogress"] /\ Goto(q, "broadcast")
  <2>1. Retrying' = Retrying
    BY <1>2, <1>3, StepRetries
  <2>2. Outcome!Retry(r)
    BY <1>1, <1>2, <1>3, <2>1 DEF Outcome!Retry, Drivers, Retrying
  <2> QED BY <1>2, <2>2 DEF Outcome!Next
<1>4. CASE UNCHANGED row /\ Reply(q)
  BY <1>2, <1>4, OutcomeDone
<1> QED BY <1>3, <1>4 DEF RetryFlip
LEMMA OutcomeAsk ==
  ASSUME RunInv, SameDriven, NEW q \in Requests, NEW r \in Runs, RetryRead(q, r)
  PROVE  Outcome!Next
<1>1. Drivers' = Drivers /\ UNCHANGED row /\ row[r] = "failed" /\ req[q].op = "idle"
  BY SameDrivers DEF RetryRead, NextSlot
<1>2. Open(q, "retry", "flip", r, 0) /\ LifecycleTypes /\ "flip" \in RequestSteps
  BY DEF RetryRead, RunInv, RequestSteps
<1>3. /\ req'[q].op = "retry" /\ req'[q].run = r
      /\ \A o \in Requests : o # q => req'[o] = req[o]
  BY <1>2, OpenFacts
<1>4. Retrying' = {s \in Runs : \E o \in Requests : req'[o].op = "retry" /\ req'[o].run = s}
  BY DEF Retrying
<1>5. Retrying' = Retrying \cup {r}
  BY <1>1, <1>3, <1>4 DEF Retrying
<1>6. Outcome!Ask(r)
  BY <1>1, <1>5 DEF Outcome!Ask, Drivers, Retrying
<1> QED BY <1>6 DEF Outcome!Next

(* A run without a task gets one.                                          *)
LEMMA OutcomeDrive ==
  ASSUME RunInv, NEW r \in Runs, NEW g \in Gens, NEW i, UNCHANGED row,
         UNCHANGED Retrying, row[r] = "inprogress" \/ r \in Retrying,
         \A h \in Gens : Task(r, h) = "none", i.task # "none",
         inst' = [inst EXCEPT ![r][g] = i]
  PROVE  Outcome!Next
<1>1. /\ inst'[r][g] = i
      /\ \A s \in Runs, h \in Gens : s # r \/ h # g => inst'[s][h] = inst[s][h]
  BY DEF RunInv, LifecycleTypes
<1>2. \A h \in Gens : inst'[r][h].task # "none" <=> h = g
  BY <1>1
<1>3. Cardinality({h \in Gens : Task(r, h)' # "none"}) = 1
  <2>1. {h \in Gens : Task(r, h)' # "none"} = {g}
    BY <1>2
  <2> QED BY <2>1, FS_Singleton
<1>4. Drivers[r] = 0
  <2>1. {h \in Gens : Task(r, h) # "none"} = {}
    OBVIOUS
  <2> QED BY <2>1, FS_EmptySet DEF Drivers
<1>5. \A s \in Runs : s # r => {h \in Gens : Task(s, h)' # "none"} = {h \in Gens : Task(s, h) # "none"}
  BY <1>1
<1>6. Drivers' = [Drivers EXCEPT ![r] = 1]
  BY <1>3, <1>5 DEF Drivers
<1>7. Outcome!Drive(r)
  BY <1>4, <1>6 DEF Outcome!Drive, Drivers, Retrying
<1> QED BY <1>7 DEF Outcome!Next
LEMMA OutcomeStartSpawn ==
  ASSUME RunInv, NEW q \in Requests, StartSpawn(q)
  PROVE  Outcome!Next
<1> DEFINE r == req[q].run  g == req[q].gen
           i == [task |-> "invite", http |-> "inprogress", handle |-> TRUE]
<1>1. /\ r \in Runs /\ Starting(q, r) /\ req[q].pc = "spawn" /\ UNCHANGED row
      /\ LifecycleTypes /\ Reply(q) /\ "idle" \in RequestSteps
  BY DEF StartSpawn, RunInv, LifecycleTypes, RequestSteps
<1>0. Retrying' = Retrying
  BY <1>1, StepRetries
<1>2. row[r] = "inprogress" /\ g \in Gens /\ \A h \in Gens : Task(r, h) = "none"
  BY <1>1 DEF RunInv, StartInv
<1>3. inst' = [inst EXCEPT ![r][g] = i] /\ i.task # "none"
  BY DEF StartSpawn
<1> HIDE DEF r, g, i
<1> QED BY <1>0, <1>1, <1>2, <1>3, OutcomeDrive
LEMMA OutcomeRespawn ==
  ASSUME RunInv, NEW q \in Requests, RetryRespawn(q)
  PROVE  Outcome!Next \/ UNCHANGED <<row, Drivers, Retrying>>
<1> DEFINE r == req[q].run
           i == [task |-> "running", http |-> "inprogress", handle |-> FALSE]
<1>1. /\ r \in Runs /\ req[q].op = "retry" /\ UNCHANGED row /\ r \in Retrying
      /\ LifecycleTypes /\ "handle" \in RequestSteps
  BY DEF RetryRespawn, RunInv, LifecycleTypes, RequestSteps, Retrying
<1>2. CASE UNCHANGED inst /\ Reply(q)
  <2>1. SameDriven
    BY <1>2 DEF SameDriven
  <2> QED BY <1>1, <1>2, <2>1, OutcomeDone
<1>3. CASE reg[r] = 0
  <2>1. PICK g \in FreeGens(r) : /\ inst' = [inst EXCEPT ![r][g] = i]
                                 /\ Open(q, "retry", "handle", r, g)
    BY <1>3 DEF RetryRespawn
  <2>2. g \in Gens /\ \A h \in Gens : Task(r, h) = "none"
    BY <1>1, <1>3, GensNumbers DEF FreeGens, Unheld, RunInv, TaskInv
  <2>3. i.task # "none" /\ inst' = [inst EXCEPT ![r][g] = i]
    BY <2>1
  <2>4. Open(q, "retry", "handle", r, g)
    BY <2>1
  <2>5. r = req[q].run
    OBVIOUS
  <2> HIDE DEF r, i
  <2>6. /\ req'[q].op = "retry" /\ req'[q].run = r
        /\ \A o \in Requests : o # q => req'[o] = req[o]
    BY <1>1, <2>2, <2>4, OpenFacts
  <2>7. Retrying' = Retrying
    BY <1>1, <2>5, <2>6, SameRetrying DEF RetriesKept
  <2> QED BY <1>1, <2>2, <2>3, <2>7, OutcomeDrive
<1> QED BY <1>2, <1>3 DEF RetryRespawn

(* A task ends, the node stops, the node comes back.                       *)
LEMMA OutcomeGuardDrop ==
  ASSUME RunInv, NEW r \in Runs, NEW g \in Gens, GuardDrop(r, g)
  PROVE  Outcome!Next
<1>1. UNCHANGED row /\ Task(r, g) # "none" /\ inst' = [inst EXCEPT ![r][g] = NoInst]
  BY DEF GuardDrop
<1>2. \A h \in Gens : h # g => Task(r, h) = "none"
  BY <1>1 DEF RunInv, TaskInv
<1>3. /\ inst'[r][g].task = "none"
      /\ \A s \in Runs, h \in Gens : s # r \/ h # g => inst'[s][h] = inst[s][h]
  BY <1>1 DEF RunInv, LifecycleTypes
<1>4. Cardinality({h \in Gens : Task(r, h)' # "none"}) = 0
  <2>1. {h \in Gens : Task(r, h)' # "none"} = {}
    BY <1>2, <1>3
  <2> QED BY <2>1, FS_EmptySet
<1>5. \A s \in Runs : s # r => {h \in Gens : Task(s, h)' # "none"} = {h \in Gens : Task(s, h) # "none"}
  BY <1>3
<1>6. Drivers' = [Drivers EXCEPT ![r] = 0]
  BY <1>4, <1>5 DEF Drivers
<1>7. UNCHANGED req
  BY DEF GuardDrop
<1>8. Outcome!Leave(r)
  BY <1>1, <1>6, <1>7 DEF Outcome!Leave, Drivers, Retrying
<1> QED BY <1>8 DEF Outcome!Next
LEMMA OutcomeCrash ==
  ASSUME Crash
  PROVE  Outcome!Next
<1>1. UNCHANGED row /\ \A r \in Runs, g \in Gens : inst'[r][g].task = "none"
  BY DEF Crash
<1>2. \A r \in Runs : Cardinality({h \in Gens : Task(r, h)' # "none"}) = 0
  <2>1. \A r \in Runs : {h \in Gens : Task(r, h)' # "none"} = {}
    BY <1>1
  <2> QED BY <2>1, FS_EmptySet
<1>3. Drivers' = [s \in Runs |-> 0]
  BY <1>2 DEF Drivers
<1>4. Retrying' = {}
  BY DEF Retrying, Crash
<1>5. Outcome!Die
  BY <1>1, <1>3, <1>4 DEF Outcome!Die, Drivers, Retrying
<1> QED BY <1>5 DEF Outcome!Next
LEMMA OutcomeBoot ==
  ASSUME RunInv, Boot
  PROVE  Outcome!Next
<1>1. UNCHANGED row /\ \A r \in Runs, g \in Gens :
        inst'[r][g].task # "none" <=> row[r] = "inprogress" /\ g = 1
  BY DEF Boot
<1>2. \A r \in Runs : Cardinality({h \in Gens : Task(r, h)' # "none"})
                        = IF row[r] = "inprogress" THEN 1 ELSE 0
  <2>1. \A r \in Runs : {h \in Gens : Task(r, h)' # "none"} = IF row[r] = "inprogress" THEN {1} ELSE {}
    BY <1>1, GensNumbers
  <2> QED BY <2>1, FS_EmptySet, FS_Singleton
<1>3. \A r \in Runs : Drivers[r] = 0
  <2>1. \A r \in Runs : {h \in Gens : Task(r, h) # "none"} = {}
    BY DEF Boot, RunInv, TaskInv
  <2> QED BY <2>1, FS_EmptySet DEF Drivers
<1>4. Drivers' = [r \in Runs |-> IF row[r] = "inprogress" THEN 1 ELSE 0]
  BY <1>2 DEF Drivers
<1>5. UNCHANGED req
  BY DEF Boot
<1>6. Outcome!Resume
  BY <1>1, <1>3, <1>4, <1>5 DEF Outcome!Resume, Drivers, Retrying
<1> QED BY <1>6 DEF Outcome!Next

(* Steps of the requests, the tasks and the notices that may end a run.    *)
LEMMA FinishEnds ==
  ASSUME NEW r \in Runs, NEW o \in Terminal, Finish(r, o) PROVE RowEnds
  BY DEF Finish, RowEnds
LEMMA CancelEnds ==
  ASSUME RunInv, NEW q \in Requests,
         CancelTake(q) \/ CancelMark(q) \/ CancelAbort(q) \/ CancelPersistedMark(q)
  PROVE  RowEnds /\ UNCHANGED Retrying
<1>1. /\ LifecycleTypes /\ req[q].run \in Runs /\ "cancelled" \in Terminal /\ req[q].op # "retry"
      /\ {"idle", "mark", "abort", "stop"} \subseteq RequestSteps
  BY DEF RunInv, LifecycleTypes, RequestSteps, Terminal, CancelTake, CancelMark, CancelAbort,
     CancelPersistedMark
<1>2. \E x \in {"idle", "mark", "abort", "stop"} : Goto(q, x) \/ Reply(q)
  BY DEF CancelTake, CancelMark, CancelAbort, CancelPersistedMark
<1>3. Retrying' = Retrying
  BY <1>1, <1>2, StepRetries
<1>4. UNCHANGED row \/ Finish(req[q].run, "cancelled")
  BY DEF CancelTake, CancelMark, CancelAbort, CancelPersistedMark
<1> QED BY <1>1, <1>3, <1>4, FinishEnds DEF RowEnds
LEMMA TaskEnds ==
  ASSUME NEW r \in Runs, NEW g \in Gens, TaskStep(r, g)
  PROVE  RowEnds /\ UNCHANGED Retrying
<1>1. UNCHANGED req
  BY DEF TaskStep, SendInvites, ReachEnd, Return, Record, GuardDrop, Strand
<1>2. {"completed", "failed"} \subseteq Terminal
  BY DEF Terminal
<1>3. UNCHANGED row \/ Finish(r, "completed") \/ Finish(r, "failed")
  BY DEF TaskStep, SendInvites, ReachEnd, Return, Record, GuardDrop, Strand
<1> QED BY <1>1, <1>2, <1>3, FinishEnds DEF RowEnds, Retrying
LEMMA NoticeEnds ==
  ASSUME PeerTypes, NEW n \in notices, HandleNotice(n)
  PROVE  RowEnds /\ UNCHANGED Retrying
<1>1. n.run \in Runs /\ "failed" \in Terminal /\ UNCHANGED req
  BY DEF PeerTypes, Terminal, HandleNotice
<1>2. Finish(n.run, "failed") \/ UNCHANGED row
  BY DEF HandleNotice
<1> QED BY <1>1, <1>2, FinishEnds DEF RowEnds, Retrying

(* Requests that are opened or move on, and no run ends.                   *)
LEMMA OpensKeep ==
  ASSUME RunInv, NEW q \in Requests, NEW r \in Runs,
         StartCheck(q, r) \/ CancelLookup(q, r) \/ CancelPersisted(q, r)
  PROVE  UNCHANGED <<row, Retrying>>
<1>1. /\ LifecycleTypes /\ UNCHANGED row /\ req[q].op = "idle"
      /\ {"register", "take", "mark"} \subseteq RequestSteps /\ reg[r] \in {0} \cup Gens
  BY DEF RunInv, LifecycleTypes, RequestSteps, StartCheck, CancelLookup, CancelPersisted, NextSlot
<1>2. \/ Open(q, "start", "register", r, 0) \/ Open(q, "cancel", "take", r, reg[r])
      \/ Open(q, "cancel_row", "mark", r, 0)
  BY DEF StartCheck, CancelLookup, CancelPersisted
<1>3. req'[q].op \in {"start", "cancel", "cancel_row"} /\ \A s \in Requests : s # q => req'[s] = req[s]
  BY <1>1, <1>2, OpenFacts
<1> QED BY <1>1, <1>3, SameRetrying DEF RetriesKept
LEMMA RegisterKeeps ==
  ASSUME RunInv, NEW q \in Requests, StartRegister(q)
  PROVE  UNCHANGED <<row, Retrying>>
<1>1. /\ LifecycleTypes /\ UNCHANGED row /\ req[q].op = "start" /\ req[q].run \in Runs
      /\ {"idle", "persist"} \subseteq RequestSteps
  BY DEF RunInv, LifecycleTypes, RequestSteps, StartRegister
<1>2. CASE Reply(q)
  BY <1>1, <1>2, StepRetries
<1>3. CASE \E g \in FreeGens(req[q].run) : Open(q, "start", "persist", req[q].run, g)
  <2>1. PICK g \in FreeGens(req[q].run) : Open(q, "start", "persist", req[q].run, g)
    BY <1>3
  <2>2. g \in Gens
    BY DEF FreeGens, Unheld
  <2>3. req'[q].op = "start" /\ \A s \in Requests : s # q => req'[s] = req[s]
    BY <1>1, <2>1, <2>2, OpenFacts
  <2> QED BY <1>1, <2>3, SameRetrying DEF RetriesKept
<1> QED BY <1>2, <1>3 DEF StartRegister
LEMMA RetryMoves ==
  ASSUME RunInv, SameDriven, NEW q \in Requests,
         RetryBroadcast(q) \/ RetryRecheck(q) \/ RetryHandle(q)
  PROVE  Outcome!Next \/ UNCHANGED <<row, Drivers, Retrying>>
<1>1. /\ LifecycleTypes /\ UNCHANGED row /\ req[q].op = "retry"
      /\ {"recheck", "insert"} \subseteq RequestSteps
  BY DEF RunInv, RequestSteps, RetryBroadcast, RetryRecheck, RetryHandle
<1>2. Reply(q) \/ Goto(q, "recheck") \/ Goto(q, "insert")
  BY DEF RetryBroadcast, RetryRecheck, RetryHandle
<1>3. CASE Reply(q)
  BY <1>1, <1>3, OutcomeDone
<1>4. CASE Goto(q, "recheck") \/ Goto(q, "insert")
  <2>1. Retrying' = Retrying
    BY <1>1, <1>4, StepRetries
  <2> QED BY <1>1, <2>1, OutcomeEnds DEF RowEnds
<1> QED BY <1>2, <1>3, <1>4

(* Other steps leave the node alone.                                       *)
LEMMA OtherSteps ==
  ASSUME [LifecycleNext]_lifecycleVars,
         \A q \in Requests : ~RequestStep(q) /\ \A r \in Runs : ~RequestOpens(q, r),
         \A r \in Runs, g \in Gens : ~TaskStep(r, g),
         \A n \in notices : ~HandleNotice(n), ~Crash, ~Boot
  PROVE  UNCHANGED <<row, reg, inst, req, up>>
<1>1. ASSUME NEW p \in Peers, NEW r \in Runs, PeerStep(p, r)
      PROVE  UNCHANGED <<row, reg, inst, req, up>>
  BY <1>1 DEF PeerStep, Accept, AcceptFinish, Decline, PeerDismiss, PeerCancelWrite,
     PeerRetryWrite, LoopDone, LoopGivesUp, LoopFails
<1>2. ASSUME NEW p \in Peers, PeerRestart(p) PROVE UNCHANGED <<row, reg, inst, req, up>>
  BY <1>2 DEF PeerRestart
<1>3. ASSUME NEW m \in net, DeliverInvite(m) \/ DeliverCancel(m) \/ DeliverRetry(m) \/ Lose(m)
      PROVE  UNCHANGED <<row, reg, inst, req, up>>
  BY <1>3 DEF DeliverInvite, DeliverCancel, DeliverRetry, Deliver, Lose
<1>4. ASSUME NEW n \in notices, DropNotice(n) PROVE UNCHANGED <<row, reg, inst, req, up>>
  BY <1>4 DEF DropNotice
<1>5. UNCHANGED lifecycleVars => UNCHANGED <<row, reg, inst, req, up>>
  BY DEF lifecycleVars
<1> QED BY <1>1, <1>2, <1>3, <1>4, <1>5 DEF LifecycleNext

(* Every step is one of RunOutcome, or leaves what it speaks of alone.     *)
LEMMA OutcomeNext ==
  ASSUME RunInv, PeerTypes, [LifecycleNext]_lifecycleVars
  PROVE  Outcome!Next \/ UNCHANGED <<row, Drivers, Retrying>>
<1>1. ASSUME NEW q \in Requests, RequestStep(q)
      PROVE  Outcome!Next \/ UNCHANGED <<row, Drivers, Retrying>>
  <2>1. CASE StartRegister(q)
    <3>1. SameDriven /\ UNCHANGED <<row, Retrying>>
      BY <2>1, RunStartRegister, RegisterKeeps
    <3> QED BY <3>1, OutcomeEnds DEF RowEnds
  <2>2. CASE StartPersist(q)
    BY <2>2, RunStartPersist, OutcomeBegin
  <2>3. CASE StartSpawn(q)
    BY <2>3, OutcomeStartSpawn
  <2>4. CASE RetryFlip(q)
    BY <2>4, RunRetryFlip, OutcomeRetry
  <2>5. CASE RetryRespawn(q)
    BY <2>5, OutcomeRespawn
  <2>6. CASE RetryBroadcast(q) \/ RetryRecheck(q) \/ RetryHandle(q)
    <3>1. SameDriven
      BY <2>6, RunRetryBroadcast, RunRetryRecheck, RunRetryHandle
    <3> QED BY <2>6, <3>1, RetryMoves
  <2>7. CASE CancelTake(q) \/ CancelMark(q) \/ CancelAbort(q) \/ CancelPersistedMark(q)
    <3>1. SameDriven
      BY <2>7, RunCancelTake, RunCancelMark, RunCancelAbort, RunCancelPersistedMark
    <3> QED BY <2>7, <3>1, CancelEnds, OutcomeEnds
  <2> QED BY <1>1, <2>1, <2>2, <2>3, <2>4, <2>5, <2>6, <2>7 DEF RequestStep
<1>2. ASSUME NEW q \in Requests, NEW r \in Runs, RequestOpens(q, r)
      PROVE  Outcome!Next \/ UNCHANGED <<row, Drivers, Retrying>>
  <2>1. SameDriven
    BY <1>2, RunOpens
  <2>2. CASE RetryRead(q, r)
    BY <2>1, <2>2, OutcomeAsk
  <2>3. CASE StartCheck(q, r) \/ CancelLookup(q, r) \/ CancelPersisted(q, r)
    BY <2>1, <2>3, OpensKeep, OutcomeEnds DEF RowEnds
  <2> QED BY <1>2, <2>2, <2>3 DEF RequestOpens
<1>3. ASSUME NEW r \in Runs, NEW g \in Gens, TaskStep(r, g)
      PROVE  Outcome!Next \/ UNCHANGED <<row, Drivers, Retrying>>
  <2>1. CASE GuardDrop(r, g)
    BY <2>1, OutcomeGuardDrop
  <2>2. CASE ~GuardDrop(r, g)
    <3>1. SameDriven
      BY <1>3, <2>2, RunSendInvites, RunReachEnd, RunReturn, RunRecord DEF TaskStep
    <3> QED BY <1>3, <3>1, TaskEnds, OutcomeEnds
  <2> QED BY <2>1, <2>2
<1>4. ASSUME NEW n \in notices, HandleNotice(n)
      PROVE  Outcome!Next \/ UNCHANGED <<row, Drivers, Retrying>>
  BY <1>4, RunNotice, NoticeEnds, OutcomeEnds
<1>5. ASSUME UNCHANGED <<row, inst, req>> PROVE UNCHANGED <<row, Drivers, Retrying>>
  BY <1>5 DEF Drivers, Retrying
<1> QED BY <1>1, <1>2, <1>3, <1>4, <1>5, OutcomeCrash, OutcomeBoot, OtherSteps
LEMMA OutcomeInit == LifecycleInit => Outcome!Init
<1> SUFFICES ASSUME LifecycleInit PROVE Outcome!Init
  OBVIOUS
<1>1. \A r \in Runs : {g \in Gens : Task(r, g) # "none"} = {}
  BY DEF LifecycleInit
<1>2. Drivers = [r \in Runs |-> 0]
  BY <1>1, FS_EmptySet DEF Drivers
<1>3. Retrying = {}
  BY DEF Retrying, LifecycleInit
<1> QED BY <1>2, <1>3 DEF Outcome!Init, LifecycleInit, Drivers, Retrying

(* The runs of a node keep the promise of RunOutcome, however starts,      *)
(* cancels, retries, notices, faults and restarts interleave.              *)
THEOREM OutcomeImplemented == LifecycleSpec => OutcomeSpec
<1>1. LifecycleInit => RunInv /\ LoopInv
  BY InitRun, InitLoop
<1>2. RunInv /\ LoopInv /\ [LifecycleNext]_lifecycleVars => RunInv' /\ LoopInv'
  BY RunNext, LoopNext DEF LoopInv
<1>3. LifecycleInit => Outcome!Init
  BY OutcomeInit
<1>4. RunInv /\ LoopInv /\ [LifecycleNext]_lifecycleVars
        => [Outcome!Next]_<<row, Drivers, Retrying>>
  BY OutcomeNext DEF LoopInv
<1> QED
  BY <1>1, <1>2, <1>3, <1>4, PTL DEF LifecycleSpec, OutcomeSpec, Outcome!Spec, Drivers, Retrying
==============================================================================
