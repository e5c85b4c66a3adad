---------------------------- MODULE RewardSweep ----------------------------
(***************************************************************************)
(* The reward automation of one decentralized party: every node runs a     *)
(* loop that reads the party's CouponReassignmentDelegation and its        *)
(* unassigned reward coupons and assigns them in chunks, each chunk one    *)
(* ledger transaction, while other nodes do the same, coupons expire, the  *)
(* committee replaces the delegation and calls fail.  Nodes are followed   *)
(* step by step; of Others only what they do to the ledger is: they assign *)
(* coupons at any time.                                                    *)
(*                                                                         *)
(* A sweep's work is a set: its order is the order of the expiry times,    *)
(* and coupons that expire together may come in either order.              *)
(***************************************************************************)
EXTENDS Integers, FiniteSets, FiniteSetsExt

CONSTANTS
    Nodes,          \* the nodes with credentials for the party
    Others,         \* nodes like them, of which only the ledger is modelled
    Coupons,        \* the coupons it earns
    Bad,            \* those of them the ledger refuses to assign
    Terms,          \* how long a coupon may live
    ChunkSize,      \* chunk_size: coupons in one Delegation_Assign
    Margin,         \* reward_min_expiry_margin_secs
    ReadsPerSweep,  \* expiry reads between two sweeps
    MaxVotes,       \* bound on the delegations proposed
    MaxFaults,      \* bound on failed calls, restarts and lost credentials
    MaxTime         \* bound on the time modelled

ASSUME ConstantsAssumption ==
    /\ Bad \subseteq Coupons /\ IsFiniteSet(Coupons)
    /\ Terms \subseteq Nat \ {0} /\ ChunkSize \in Nat \ {0}
    /\ {Margin, ReadsPerSweep, MaxVotes, MaxFaults, MaxTime} \subseteq Nat

VARIABLES
    now,        \* ledger time
    state,      \* each coupon: "none", "unassigned" or "assigned"
    expires,    \* each coupon's expiresAt
    live,       \* the active CouponReassignmentDelegations
    votes,      \* SetupCouponReassignmentDelegation proposals being voted on
    created,    \* how many were proposed and executed
    served,     \* the nodes that still hold credentials for the party
    loop,       \* each node's pass over the party
    gauge,      \* the oldest expiry each node publishes, 0 for no series
    seen,       \* history: what the read behind that series returned
    faults      \* faults so far

ledger == <<now, state, expires, live, votes, created>>
vars == <<now, state, expires, live, votes, created, served, loop, gauge, seen, faults>>

NoDelegation == [id |-> 0, assigners |-> {}]
Idle(reads) == [pc |-> "idle", sweep |-> FALSE, reads |-> reads, delegation |-> NoDelegation,
                oldest |-> 0, read |-> {}, batch |-> {}, todo |-> {}, alone |-> {},
                refused |-> {}]

Init ==
    /\ now = 0 /\ state = [c \in Coupons |-> "none"] /\ expires = [c \in Coupons |-> 0]
    /\ live = {} /\ votes = {} /\ created = [proposed |-> 0, executed |-> 0]
    /\ served = Nodes
    /\ loop = [n \in Nodes |-> Idle(ReadsPerSweep)]
    /\ gauge = [n \in Nodes |-> 0] /\ seen = [n \in Nodes |-> {}]
    /\ faults = 0

Unassigned == {c \in Coupons : state[c] = "unassigned"}
At(n, pc) == loop[n].pc = pc
Fault == faults < MaxFaults /\ faults' = faults + 1

----------------------------------------------------------------------------
(* The ledger.                                                             *)

Tick ==
    /\ now < MaxTime /\ now' = now + 1
    /\ UNCHANGED <<state, expires, live, votes, created, served, loop, gauge, seen, faults>>

Earn(c) ==
    /\ state[c] = "none" /\ state' = [state EXCEPT ![c] = "unassigned"]
    /\ \E t \in Terms : expires' = [expires EXCEPT ![c] = now + t]
    /\ UNCHANGED <<now, live, votes, created, served, loop, gauge, seen, faults>>

(* The propose-time guard: a second delegation must name the one it        *)
(* replaces.                                                               *)
ProposeSetup(assigners, prior) ==
    /\ created.proposed < MaxVotes
    /\ IF live = {} THEN prior = 0 ELSE prior \in {d.id : d \in live}
    /\ created' = [created EXCEPT !.proposed = @ + 1]
    /\ votes' = votes \cup {[assigners |-> assigners, prior |-> prior]}
    /\ UNCHANGED <<now, state, expires, live, served, loop, gauge, seen, faults>>

(* executeImpl of the voted proposal: the prior delegation is revoked and  *)
(* the new one created in one transaction.                                 *)
ExecuteSetup(v) ==
    /\ v.prior # 0 => v.prior \in {d.id : d \in live}
    /\ created' = [created EXCEPT !.executed = @ + 1]
    /\ votes' = votes \ {v}
    /\ live' = {d \in live : d.id # v.prior}
                 \cup {[id |-> created.executed + 1, assigners |-> v.assigners]}
    /\ UNCHANGED <<now, state, expires, served, loop, gauge, seen, faults>>

ExecuteRevoke(d) ==
    /\ live' = live \ {d}
    /\ UNCHANGED <<now, state, expires, votes, created, served, loop, gauge, seen, faults>>

(* Another node's Delegation_Assign, coupon by coupon.                     *)
AssignedElsewhere ==
    /\ \E d \in live : d.assigners \cap Others # {}
    /\ \E c \in Unassigned \ Bad : expires[c] > now /\ state' = [state EXCEPT ![c] = "assigned"]
    /\ UNCHANGED <<now, expires, live, votes, created, served, loop, gauge, seen, faults>>

----------------------------------------------------------------------------
(* run_reward_automation_loop and run_once_for_party                       *)

Pass(n, sweep) ==
    loop' = [loop EXCEPT ![n] = [Idle(@.reads) EXCEPT !.pc = "delegation", !.sweep = sweep]]

(* due_pass: a sweep when its interval is over, else a read.               *)
StartPass(n) ==
    /\ At(n, "idle") /\ n \in served
    /\ \/ Pass(n, TRUE)
       \/ loop[n].reads < ReadsPerSweep /\ Pass(n, FALSE)
    /\ UNCHANGED <<ledger, served, gauge, seen, faults>>

(* prune_unserved *)
PruneUnserved(n) ==
    /\ At(n, "idle") /\ n \notin served /\ gauge[n] # 0
    /\ gauge' = [gauge EXCEPT ![n] = 0] /\ seen' = [seen EXCEPT ![n] = {}]
    /\ UNCHANGED <<ledger, served, loop, faults>>

Reads(x) == IF x.sweep THEN 0 ELSE x.reads + 1
EndPass(n) == loop' = [loop EXCEPT ![n] = Idle(Reads(@))]

(* newest_delegation_for *)
Newest == CHOOSE d \in live : \A e \in live : e.id <= d.id

(* Without a delegation the automation is off: SweepOutcome::Empty.        *)
ReadDelegation(n) ==
    /\ At(n, "delegation")
    /\ IF live = {}
       THEN /\ EndPass(n)
            /\ gauge' = [gauge EXCEPT ![n] = 0] /\ seen' = [seen EXCEPT ![n] = {}]
       ELSE /\ loop' = [loop EXCEPT ![n].pc = "coupons", ![n].delegation = Newest]
            /\ UNCHANGED <<gauge, seen>>
    /\ UNCHANGED <<ledger, served, faults>>

(* oldest_expiry, over the coupons that have not expired.                  *)
OldestExpiry(C) ==
    LET saved == {expires[c] : c \in {k \in C : expires[k] > now}} IN
    IF saved = {} THEN 0 ELSE Min(saved)

(* select_assignable *)
Assignable(C) == {c \in C : expires[c] - now >= Margin}

(* role_for: only a sweep of a named assigner assigns.                     *)
Assigns(n) == loop[n].sweep /\ n \in loop[n].delegation.assigners

ReadCoupons(n) ==
    /\ At(n, "coupons")
    /\ LET batch == IF Assigns(n) THEN Assignable(Unassigned) ELSE {} IN
       loop' = [loop EXCEPT ![n] = [@ EXCEPT !.pc = "drain", !.read = Unassigned,
                   !.oldest = OldestExpiry(Unassigned), !.batch = batch, !.todo = batch]]
    /\ UNCHANGED <<ledger, served, gauge, seen, faults>>

(* Mutant: a failed pass drops the series.                                 *)
PassFailsDropping(n) ==
    /\ loop[n].pc \in {"delegation", "coupons"} /\ Fault
    /\ EndPass(n) /\ gauge' = [gauge EXCEPT ![n] = 0]
    /\ UNCHANGED <<ledger, served, seen>>

(* No token, no auth entry, or a read that fails: nothing is asserted, and *)
(* the countdown goes on.                                                  *)
PassFails(n) ==
    /\ loop[n].pc \in {"delegation", "coupons"} /\ Fault
    /\ EndPass(n)
    /\ UNCHANGED <<ledger, served, gauge, seen>>

----------------------------------------------------------------------------
(* drain_assignable and Delegation_Assign                                  *)

(* Somebody else has assigned one of them, or the delegation was replaced. *)
Stale(n, K) == K \cap Unassigned # K \/ loop[n].delegation \notin live
Refusable(K) == \E c \in K : c \in Bad \/ expires[c] <= now

Assigned(K) == state' = [c \in Coupons |-> IF c \in K THEN "assigned" ELSE state[c]]

(* Mutant: the coupons are taken as they come.                             *)
UnorderedChunks(C, size) ==
    {K \in SUBSET C : Cardinality(K) = IF Cardinality(C) < size THEN Cardinality(C) ELSE size}

(* The chunk of the most urgent coupons of a set.                          *)
Chunks(C, size) ==
    {K \in SUBSET C : /\ Cardinality(K) = IF Cardinality(C) < size THEN Cardinality(C) ELSE size
                      /\ \A c \in K, d \in C \ K : expires[c] <= expires[d]}

(* What is submitted next: a coupon of a rejected chunk, else a chunk.     *)
Submissions(n) ==
    IF loop[n].alone # {} THEN Chunks(loop[n].alone, 1)
    ELSE IF loop[n].todo # {} THEN Chunks(loop[n].todo, ChunkSize) ELSE {}

SubmitFrame == UNCHANGED <<now, expires, live, votes, created, served, gauge, seen>>
After(x, K) == [x EXCEPT !.todo = @ \ K, !.alone = @ \ K]
Skipped(x, K) == [x EXCEPT !.todo = @ \ K, !.alone = @ \ K, !.refused = @ \cup K]
FannedOut(x, K) == [x EXCEPT !.todo = @ \ K, !.alone = K]
Ended(x) == [x EXCEPT !.todo = {}, !.alone = {}, !.batch = {}, !.refused = {}]

Accepted(n, K) ==
    /\ ~Stale(n, K) /\ ~Refusable(K)
    /\ Assigned(K) /\ loop' = [loop EXCEPT ![n] = After(@, K)]
    /\ UNCHANGED faults

(* A transient error ends the sweep.                                       *)
Contended(n, K) ==
    /\ Stale(n, K)
    /\ loop' = [loop EXCEPT ![n] = Ended(@)]
    /\ UNCHANGED <<state, faults>>

(* Mutant: a rejected chunk ends the sweep too.                            *)
RejectedEnds(n, K) ==
    /\ Refusable(K)
    /\ loop' = [loop EXCEPT ![n] = Ended(@)]
    /\ UNCHANGED <<state, faults>>

(* A rejected chunk is submitted coupon by coupon, a coupon rejected on    *)
(* its own is left for the next sweep.                                     *)
Rejected(n, K) ==
    /\ Refusable(K)
    /\ loop' = [loop EXCEPT ![n] =
          IF Cardinality(K) = 1 THEN Skipped(@, K) ELSE FannedOut(@, K)]
    /\ UNCHANGED <<state, faults>>

(* The answer times out, whether or not the transaction was committed.     *)
TimesOut(n, K) ==
    /\ Fault
    /\ (~Stale(n, K) /\ ~Refusable(K) /\ Assigned(K)) \/ UNCHANGED state
    /\ loop' = [loop EXCEPT ![n] = Ended(@)]

Submit(n) ==
    /\ At(n, "drain")
    /\ \E K \in Submissions(n) : Accepted(n, K) \/ Contended(n, K) \/ Rejected(n, K)
    /\ SubmitFrame

SubmitTimesOut(n) ==
    /\ At(n, "drain") /\ \E K \in Submissions(n) : TimesOut(n, K)
    /\ SubmitFrame

(* apply_sweep_outcome with what the read before the drain found.          *)
Report(n) ==
    /\ At(n, "drain") /\ Submissions(n) = {}
    /\ gauge' = [gauge EXCEPT ![n] = loop[n].oldest]
    /\ seen' = [seen EXCEPT ![n] = loop[n].read]
    /\ EndPass(n)
    /\ UNCHANGED <<ledger, served, faults>>

----------------------------------------------------------------------------
(* A restart sweeps at once and has no series yet.                         *)
Restart(n) ==
    /\ Fault
    /\ loop' = [loop EXCEPT ![n] = Idle(ReadsPerSweep)]
    /\ gauge' = [gauge EXCEPT ![n] = 0] /\ seen' = [seen EXCEPT ![n] = {}]
    /\ UNCHANGED <<ledger, served>>

(* The operator removes the party's credentials from the node.             *)
Unserve(n) ==
    /\ Fault /\ n \in served /\ served' = served \ {n}
    /\ UNCHANGED <<ledger, loop, gauge, seen>>

Loop(n) ==
    StartPass(n) \/ PruneUnserved(n) \/ ReadDelegation(n) \/ ReadCoupons(n) \/ Submit(n) \/ Report(n)

Faulty(n) == PassFails(n) \/ SubmitTimesOut(n) \/ Restart(n) \/ Unserve(n)

Committee ==
    \/ \E A \in SUBSET (Nodes \cup Others) \ {{}}, prior \in 0..MaxVotes : ProposeSetup(A, prior)
    \/ \E v \in votes : ExecuteSetup(v)
    \/ \E d \in live : ExecuteRevoke(d)

Next ==
    \/ Tick \/ Committee \/ AssignedElsewhere
    \/ \E c \in Coupons : Earn(c)
    \/ \E n \in Nodes : Loop(n) \/ Faulty(n)

(* The loop of every node goes on.                                         *)
Spec == Init /\ [][Next]_vars /\ \A n \in Nodes : WF_vars(Loop(n))

----------------------------------------------------------------------------
(* Some node that the automation acts on is an assigner.                   *)
Enabled == live # {} /\ Newest.assigners \cap served # {}

(* "Every healthy coupon still gets paid": a coupon the ledger accepts is  *)
(* assigned, unless it comes too close to its expiry or the automation is  *)
(* switched off, however many bad coupons there are, whoever else assigns, *)
(* whatever fails on the way.                                              *)
HealthyPaid ==
    \A c \in Coupons \ Bad :
        (c \in Unassigned /\ Enabled)
            ~> (state[c] = "assigned" \/ expires[c] - now < Margin \/ ~Enabled)

(* "Under any partial failure the coupons closest to expiry are assigned   *)
(* first": a sweep assigns a coupon only after every more urgent one of    *)
(* its batch was assigned or refused on its own.                           *)
UrgentFirst ==
    [][ \A n \in Nodes, d \in Coupons :
          (loop'[n] # loop[n] /\ state[d] = "unassigned" /\ state'[d] = "assigned")
            => \A c \in loop[n].batch : expires[c] < expires[d]
                  => state'[c] = "assigned" \/ c \in loop[n].refused ]_vars

(* "A coupon nobody can read still expires": once a node has read a coupon *)
(* it publishes a countdown no later than its expiry until the coupon is   *)
(* assigned or expired, through any failure of later passes.               *)
AlarmStands ==
    \A n \in Nodes : \A c \in seen[n] \cap Unassigned :
        expires[c] > now => gauge[n] \in 1..expires[c]
=============================================================================
