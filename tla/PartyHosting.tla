---------------------------- MODULE PartyHosting ----------------------------
(***************************************************************************)
(* Which participants host an external party, and how that changes: the    *)
(* onboarding its wallet drives across the hosts, added hosts and their    *)
(* import, the confirmation threshold, the key a local party adopts, and a *)
(* host that leaves on its own.  Nothing but Canton coordinates the nodes: *)
(* every write carries the serial after the one its node has read, Canton  *)
(* collects the signatures of a write and takes at most one write for each *)
(* serial.                                                                 *)
(*                                                                         *)
(* A node reads the synchronizer's state late, so it may build, validate   *)
(* and sign against a mapping that another write has replaced.             *)
(***************************************************************************)
EXTENDS Naturals, Sequences, FiniteSets

CONSTANTS
    Nodes,          \* the participants
    NoNode,         \* the owner of a namespace that only the wallet can sign for
    Owners,         \* the owners the party's namespace may have
    MaxSerial,      \* bound on the writes taken
    MaxWrites       \* bound on the writes that wait to be taken

ASSUME NodesAssumption == IsFiniteSet(Nodes) /\ NoNode \notin Nodes
ASSUME OwnersAssumption == Owners \subseteq Nodes \cup {NoNode}
ASSUME BoundsAssumption == {MaxSerial, MaxWrites} \subseteq Nat

VARIABLES
    owner,      \* the node whose key is the party's namespace, or NoNode
    log,        \* the authorized mappings; the serial of log[i] is i
    view,       \* the serial each node reads
    txs,        \* the writes Canton has, with the signatures collected
    acs,        \* the nodes that hold the party's contracts
    clearing    \* the nodes whose marker Canton was asked to clear

vars == <<owner, log, view, txs, acs, clearing>>

(* PartyToParticipant: its hosts, those still marked as onboarding, those  *)
(* at Submission (the others are at Confirmation), and whether the party   *)
(* has a signing key.                                                      *)
Mapping == {m \in [hosts : SUBSET Nodes, marked : SUBSET Nodes, submit : SUBSET Nodes,
                   threshold : Nat, keys : BOOLEAN] : m.marked \cup m.submit \subseteq m.hosts}

Tx == [serial : Nat, mapping : Mapping, by : SUBSET Nodes, party : BOOLEAN]

(* A local party before it adopts a key. *)
LocalMapping(n) ==
    [hosts |-> {n}, marked |-> {}, submit |-> {n}, threshold |-> 1, keys |-> FALSE]

Init ==
    /\ owner \in Owners
    /\ log = IF owner = NoNode THEN <<>> ELSE <<LocalMapping(owner)>>
    /\ view = [n \in Nodes |-> Len(log)]
    /\ acs = {owner} \cap Nodes
    /\ txs = {} /\ clearing = {}

Current == log[Len(log)]

(* The mapping a node reads, once it reads one. *)
Reads(n) == log[view[n]]

(* can_act: unmarked, at Confirmation or Submission. *)
Acting(m) == m.hosts \ m.marked

(* active_host_count *)
Confirming(m) == Acting(m) \ m.submit

----------------------------------------------------------------------------
(* Canton.  Signatures on equal writes accumulate; a write is dropped once *)
(* its serial is taken.                                                    *)

Submit(m, serial, by, party) ==
    LET same == {t \in txs : t.serial = serial /\ t.mapping = m}
        merged == [serial |-> serial, mapping |-> m,
                   by |-> by \cup UNION {t.by : t \in same},
                   party |-> party \/ \E t \in same : t.party]
    IN  /\ same = {} => Cardinality(txs) < MaxWrites
        /\ txs' = IF serial > Len(log) THEN (txs \ same) \cup {merged} ELSE txs

(* The signatures a mapping needs after `old`. *)
Authorized(old, t) ==
    LET added == t.mapping.hosts \ old.hosts
        gone == old.hosts \ t.mapping.hosts
    IN  \/ t.party /\ added \subseteq t.by
        \/ /\ added = {} /\ \E n \in gone : gone = {n} /\ n \in t.by
           /\ t.mapping.threshold = old.threshold

(* Canton takes no Submission host once more than one must confirm. *)
WellFormed(m) == m.threshold > 1 => m.submit = {}

NoHosts == [hosts |-> {}, marked |-> {}, submit |-> {}, threshold |-> 0, keys |-> FALSE]
Before(serial) == IF serial = 1 THEN NoHosts ELSE log[serial - 1]

(* What a new head leaves of the imports: a host that is gone holds no     *)
(* current contracts and has nothing left to clear, and the hosts a party  *)
(* starts with have them all.                                              *)
Settle(m, serial) ==
    /\ acs' = IF serial = 1 THEN m.hosts ELSE acs \cap m.hosts
    /\ clearing' = clearing \cap m.marked

Take(t) ==
    /\ Len(log) < MaxSerial
    /\ t \in txs /\ t.serial = Len(log) + 1
    /\ Authorized(Before(t.serial), t) /\ WellFormed(t.mapping)
    /\ log' = Append(log, t.mapping)
    /\ txs' = {u \in txs : u.serial > t.serial}
    /\ Settle(t.mapping, t.serial)
    /\ UNCHANGED <<owner, view>>

Observe(n) ==
    /\ view[n] < Len(log)
    /\ view' = [view EXCEPT ![n] = @ + 1]
    /\ UNCHANGED <<owner, log, txs, acs, clearing>>

(* ClearPartyOnboardingFlag: Canton writes the mapping with the host's own *)
(* marker removed, when its safe time has come.                            *)
ClearMarker(n) ==
    /\ Len(log) < MaxSerial
    /\ n \in clearing /\ n \in Current.marked
    /\ LET m == [Current EXCEPT !.marked = @ \ {n}]
       IN  /\ log' = Append(log, m)
           /\ Settle(m, Len(log) + 1)
    /\ txs' = {u \in txs : u.serial > Len(log) + 1}
    /\ UNCHANGED <<owner, view>>

----------------------------------------------------------------------------
(* Onboarding: the wallet signs one mapping and sends it to every host.    *)

(* validate_onboarding_topology *)
ValidOnboarding(n, m) ==
    /\ m.submit = {} /\ m.marked = {} /\ m.keys
    /\ n \in m.hosts
    /\ m.threshold >= 1 /\ m.threshold < Cardinality(m.hosts)

(* allocate_party *)
AllocateParty(n, m) ==
    /\ owner = NoNode /\ MaxSerial > 0
    /\ ValidOnboarding(n, m)
    /\ Submit(m, 1, {n}, TRUE)
    /\ UNCHANGED <<owner, log, view, acs, clearing>>

----------------------------------------------------------------------------
(* Added hosts.                                                            *)

(* Mutant: the new hosts are live before their import.                     *)
AddHostsUnmarked(m, new, submission) ==
    [m EXCEPT !.hosts = @ \cup new,
              !.submit = IF submission THEN @ \cup new ELSE @]

AddHostsMapping(m, new, submission) ==
    [m EXCEPT !.hosts = @ \cup new,
              !.marked = @ \cup new,
              !.submit = IF submission THEN @ \cup new ELSE @]

CanAdd(m, new, submission) ==
    /\ new # {} /\ new \cap m.hosts = {}
    /\ submission => m.threshold = 1

(* authorize_add_hosts: the namespace's owner signs for the party, a new   *)
(* host for itself.                                                        *)
AuthorizeAddHosts(n, new, submission) ==
    /\ view[n] \in 1 .. MaxSerial - 1
    /\ n = owner \/ n \in new
    /\ CanAdd(Reads(n), new, submission)
    /\ Submit(AddHostsMapping(Reads(n), new, submission), view[n] + 1, {n}, n = owner)
    /\ UNCHANGED <<owner, log, view, acs, clearing>>

(* validate_add_hosts_topology, against the node's own read.               *)
ValidAddHosts(n, cur, m) ==
    LET added == m.hosts \ cur.hosts IN
    /\ m.threshold = cur.threshold /\ m.keys = cur.keys
    /\ \A h \in cur.hosts \cap m.hosts :
        (h \in m.marked <=> h \in cur.marked) /\ (h \in m.submit <=> h \in cur.submit)
    /\ added # {} /\ added \subseteq m.marked
    /\ \A h \in added : h \in m.submit => m.threshold = 1
    /\ cur.hosts \subseteq m.hosts
    /\ Cardinality(Acting(m)) >= m.threshold
    /\ n \in m.hosts

(* submit_add_hosts: the bundle is whatever the party's key has signed.    *)
SubmitAddHosts(n, m) ==
    /\ owner = NoNode
    /\ view[n] \in 1 .. MaxSerial - 1
    /\ ValidAddHosts(n, Reads(n), m)
    /\ Submit(m, view[n] + 1, {n}, TRUE)
    /\ UNCHANGED <<owner, log, view, acs, clearing>>

(* tenant_acs_import: block 1 checks that the node is marked; the import   *)
(* lands, and the marker's clearance is asked for, or that call fails.     *)
Import(n, asked) ==
    /\ view[n] > 0 /\ n \in Reads(n).marked
    /\ n \in Current.marked
    /\ acs' = acs \cup {n}
    /\ clearing' = IF asked THEN clearing \cup {n} ELSE clearing
    /\ UNCHANGED <<owner, log, view, txs>>

----------------------------------------------------------------------------
(* The threshold and the adopted key.                                      *)

(* Mutant: a host at any permission, marked or not, counts.                *)
AnyHostCounts(m, threshold) ==
    threshold >= 1 /\ threshold <= Cardinality(m.hosts) /\ threshold # m.threshold

(* validate_threshold and threshold_mapping *)
ValidThreshold(m, threshold) ==
    threshold >= 1 /\ threshold <= Cardinality(Confirming(m)) /\ threshold # m.threshold

(* authorize_threshold by the owner, or submit_threshold of a mapping the  *)
(* wallet signed, at any node.                                             *)
ChangeThreshold(n, threshold) ==
    /\ owner \in {n, NoNode}
    /\ view[n] \in 1 .. MaxSerial - 1
    /\ ValidThreshold(Reads(n), threshold)
    /\ Submit([Reads(n) EXCEPT !.threshold = threshold], view[n] + 1, {n} \cap {owner}, TRUE)
    /\ UNCHANGED <<owner, log, view, acs, clearing>>

(* submit_adoption: the owner's node and the adopted key sign together.    *)
Adopt(n) ==
    /\ n = owner
    /\ view[n] \in 1 .. MaxSerial - 1
    /\ ~Reads(n).keys /\ n \in Reads(n).hosts
    /\ Submit([Reads(n) EXCEPT !.submit = @ \ {n}, !.keys = TRUE], view[n] + 1, {n}, TRUE)
    /\ UNCHANGED <<owner, log, view, acs, clearing>>

----------------------------------------------------------------------------
(* A host that leaves on its own.                                          *)

(* leave_mapping refuses the last host, and a departure the remaining      *)
(* hosts cannot meet the threshold after.                                  *)
CanLeave(m, n) ==
    n \in m.hosts /\ m.hosts # {n} /\ Cardinality(Acting(m) \ {n}) >= m.threshold

LeaveMapping(m, n) ==
    [m EXCEPT !.hosts = @ \ {n}, !.marked = @ \ {n}, !.submit = @ \ {n}]

(* The serial a departure is written at: the pinned one, plus one.         *)
LeaveSerial(n) == view[n] + 1

(* leave_topology *)
Leave(n) ==
    /\ view[n] \in 1 .. MaxSerial - 1
    /\ CanLeave(Reads(n), n)
    /\ Submit(LeaveMapping(Reads(n), n), LeaveSerial(n), {n}, n = owner)
    /\ UNCHANGED <<owner, log, view, acs, clearing>>

----------------------------------------------------------------------------
(* The mappings a wallet may sign: anything over the same nodes.           *)
Bundles == {[hosts |-> h, marked |-> k, submit |-> s, threshold |-> t, keys |-> TRUE] :
                h \in SUBSET Nodes, k \in SUBSET Nodes, s \in SUBSET Nodes,
                t \in 1 .. Cardinality(Nodes)} \cap Mapping

Next ==
    \/ \E t \in txs : Take(t)
    \/ \E n \in Nodes :
        \/ Observe(n) \/ ClearMarker(n) \/ Adopt(n) \/ Leave(n)
        \/ \E m \in Bundles : AllocateParty(n, m) \/ SubmitAddHosts(n, m)
        \/ \E new \in SUBSET Nodes, b \in BOOLEAN : AuthorizeAddHosts(n, new, b)
        \/ \E asked \in BOOLEAN : Import(n, asked)
        \/ \E t \in 1 .. Cardinality(Nodes) : ChangeThreshold(n, t)

Spec == Init /\ [][Next]_vars

----------------------------------------------------------------------------
TypeOK ==
    /\ owner \in Owners
    /\ log \in Seq(Mapping)
    /\ view \in [Nodes -> Nat] /\ \A n \in Nodes : view[n] <= Len(log)
    /\ txs \subseteq Tx
    /\ acs \subseteq Nodes /\ clearing \subseteq Nodes

(* The party can always transact: the hosts that can act for it reach its  *)
(* threshold, whichever hosts left, joined or changed the threshold at the *)
(* same time (leave_mapping, validate_threshold, validate_add_hosts_       *)
(* topology and the serial pin).                                           *)
CanTransact == Len(log) > 0 => Cardinality(Acting(Current)) >= Current.threshold

(* No host acts for the party without the party's contracts: it went live  *)
(* with the party, or its import landed before its marker was cleared.     *)
ActingHoldsContracts == Len(log) > 0 => Acting(Current) \subseteq acs

(* A serial makes one kind of change: it adds marked hosts, removes one    *)
(* host, moves the threshold, clears one marker, or gives the party its    *)
(* key; hosts are never evicted under cover of another change.             *)
OneChange(old, new) ==
    LET Same(fields) == \A f \in fields : old[f] = new[f]
    IN  \/ /\ Same({"threshold", "keys"})
           /\ old.hosts \subseteq new.hosts
           /\ new.marked = old.marked \cup (new.hosts \ old.hosts)
           /\ new.submit \cap old.hosts = old.submit
        \/ Same({"threshold", "keys"}) /\ \E n \in old.hosts : new = LeaveMapping(old, n)
        \/ Same({"hosts", "marked", "submit", "keys"})
        \/ Same({"hosts", "submit", "threshold", "keys"}) /\ new.marked \subseteq old.marked
        \/ Same({"hosts", "marked", "threshold"}) /\ ~old.keys /\ new.keys

OneKindOfChange == \A i \in 2 .. Len(log) : OneChange(log[i - 1], log[i])
=============================================================================
