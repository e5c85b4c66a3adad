------------------------- MODULE ExternalParty_proofs -------------------------
(* Proofs, for any set of nodes and any owner, that an external party can  *)
(* always transact, that only hosts with its contracts act for it, and     *)
(* that every serial makes one kind of change; and of a node that leaves,  *)
(* that it cleans up first, keeps the party held until it is gone, and     *)
(* records a departure only when there was one.                            *)
(*                                                                         *)
(* Every node builds on what it read, which may be old.  What saves the    *)
(* party is the serial: a write that still counts is for the serial after  *)
(* the head, so the node that built it had read the head.                  *)
EXTENDS PartyHosting, Unhost, FiniteSetTheorems, TLAPS

(* The writes a node builds on a mapping it reads.                         *)
Adds(old, new) ==
  /\ new.threshold = old.threshold /\ new.keys = old.keys
  /\ old.hosts \subseteq new.hosts
  /\ new.marked = old.marked \cup (new.hosts \ old.hosts)
  /\ new.submit \cap old.hosts = old.submit
MovesThreshold(old, new) ==
  \E t \in 1 .. Cardinality(Confirming(old)) : new = [old EXCEPT !.threshold = t]
Adopts(old, new) ==
  ~old.keys /\ \E n \in Nodes : new = [old EXCEPT !.submit = @ \ {n}, !.keys = TRUE]
Leaves(old, new) ==
  \E n \in old.hosts : CanLeave(old, n) /\ new = LeaveMapping(old, n)

Builds(old, new) ==
  \/ Adds(old, new) \/ MovesThreshold(old, new) \/ Adopts(old, new) \/ Leaves(old, new)

(* The mapping a party starts with.                                        *)
Starts(m) == m.marked = {} /\ m.threshold < Cardinality(m.hosts)

(* A write that Canton still has is for the next serial, and built on the  *)
(* head.                                                                   *)
WriteOK(t) ==
  /\ t.serial = Len(log) + 1
  /\ Len(log) = 0 => Starts(t.mapping)
  /\ Len(log) > 0 => Builds(Current, t.mapping)
WritesOK == \A t \in txs : WriteOK(t)

(* A marker is cleared only where the import has landed.                   *)
ClearsImported == clearing \subseteq acs /\ (clearing # {} => Len(log) > 0)

IInv ==
  /\ TypeOK /\ WritesOK /\ ClearsImported
  /\ CanTransact /\ ActingHoldsContracts /\ OneKindOfChange

----------------------------------------------------------------------------
(* Mappings.                                                               *)

LEMMA MappingFields ==
  ASSUME NEW m \in Mapping
  PROVE  /\ m.hosts \subseteq Nodes /\ m.marked \subseteq m.hosts /\ m.submit \subseteq m.hosts
         /\ m.threshold \in Nat /\ m.keys \in BOOLEAN
         /\ m = [hosts |-> m.hosts, marked |-> m.marked, submit |-> m.submit,
                 threshold |-> m.threshold, keys |-> m.keys]
  BY DEF Mapping

(* The hosts that act, and those that confirm, can be counted.             *)
LEMMA Countable ==
  ASSUME NEW m \in Mapping
  PROVE  /\ IsFiniteSet(m.hosts) /\ IsFiniteSet(Acting(m)) /\ IsFiniteSet(Confirming(m))
         /\ Cardinality(Acting(m)) \in Nat /\ Cardinality(Confirming(m)) \in Nat
         /\ Cardinality(Confirming(m)) <= Cardinality(Acting(m))
<1>1. m.hosts \subseteq Nodes /\ IsFiniteSet(Nodes)
  BY MappingFields, NodesAssumption
<1>2. Acting(m) \subseteq Nodes /\ Confirming(m) \subseteq Acting(m)
  BY <1>1 DEF Acting, Confirming
<1>3. IsFiniteSet(m.hosts) /\ IsFiniteSet(Acting(m))
  BY <1>1, <1>2, FS_Subset
<1>4. /\ IsFiniteSet(Confirming(m)) /\ Cardinality(Confirming(m)) <= Cardinality(Acting(m))
  BY <1>2, <1>3, FS_Subset
<1> QED
  BY <1>3, <1>4, FS_CardinalityType

(* A mapping the hosts of which reach its threshold.                       *)
Enough(m) == Cardinality(Acting(m)) >= m.threshold

(* Whatever a node may build leaves enough hosts to act, and adds none.    *)
LEMMA BuildsSafely ==
  ASSUME NEW old \in Mapping, NEW new \in Mapping, Enough(old), Builds(old, new)
  PROVE  Enough(new) /\ Acting(new) \subseteq Acting(old)
<1>0. /\ old.threshold \in Nat /\ old.marked \subseteq old.hosts
      /\ new.threshold \in Nat /\ new.marked \subseteq new.hosts
      /\ Cardinality(Acting(old)) \in Nat
      /\ Cardinality(Confirming(old)) \in Nat
      /\ Cardinality(Confirming(old)) <= Cardinality(Acting(old))
  BY MappingFields, Countable
<1>1. CASE Adds(old, new)
  <2>1. Acting(new) = Acting(old)
    BY <1>0, <1>1 DEF Adds, Acting
  <2> QED
    BY <1>0, <1>1, <2>1 DEF Adds, Enough
<1>2. CASE MovesThreshold(old, new)
  <2>1. PICK t \in 1 .. Cardinality(Confirming(old)) : new = [old EXCEPT !.threshold = t]
    BY <1>2 DEF MovesThreshold
  <2>2. Acting(new) = Acting(old) /\ new.threshold = t
    BY <2>1, MappingFields DEF Acting, Mapping
  <2> QED
    BY <1>0, <2>1, <2>2 DEF Enough
<1>3. CASE Adopts(old, new)
  <2>1. Acting(new) = Acting(old) /\ new.threshold = old.threshold
    BY <1>3, MappingFields DEF Adopts, Acting
  <2> QED
    BY <1>0, <2>1 DEF Enough
<1>4. CASE Leaves(old, new)
  <2>1. PICK n \in old.hosts : CanLeave(old, n) /\ new = LeaveMapping(old, n)
    BY <1>4 DEF Leaves
  <2>2. Acting(new) = Acting(old) \ {n} /\ new.threshold = old.threshold
    BY <2>1, MappingFields DEF LeaveMapping, Acting
  <2> QED
    BY <1>0, <2>1, <2>2 DEF CanLeave, Enough
<1> QED
  BY <1>1, <1>2, <1>3, <1>4 DEF Builds

LEMMA BuildsOneChange ==
  ASSUME NEW old \in Mapping, NEW new \in Mapping, Builds(old, new)
  PROVE  OneChange(old, new)
<1>1. CASE Adds(old, new)
  BY <1>1 DEF Adds, OneChange
<1>2. CASE MovesThreshold(old, new)
  BY <1>2, MappingFields DEF MovesThreshold, OneChange
<1>3. CASE Adopts(old, new)
  BY <1>3, MappingFields DEF Adopts, OneChange
<1>4. CASE Leaves(old, new)
  <2>1. PICK n \in old.hosts : new = LeaveMapping(old, n)
    BY <1>4 DEF Leaves
  <2>2. new.threshold = old.threshold /\ new.keys = old.keys
    BY <2>1, MappingFields DEF LeaveMapping
  <2> QED
    BY <2>1, <2>2 DEF OneChange
<1> QED
  BY <1>1, <1>2, <1>3, <1>4 DEF Builds

----------------------------------------------------------------------------
(* The head.                                                               *)

LEMMA HeadIsMapping ==
  ASSUME TypeOK, Len(log) > 0
  PROVE  Current \in Mapping /\ Len(log) \in Nat
  BY DEF TypeOK, Current

(* A node that reads the head, or an older mapping.                        *)
LEMMA ReadsMapping ==
  ASSUME TypeOK, NEW n \in Nodes, view[n] \in 1 .. MaxSerial - 1
  PROVE  /\ Reads(n) \in Mapping /\ view[n] \in Nat /\ Len(log) \in Nat /\ Len(log) > 0
         /\ view[n] + 1 > Len(log) => view[n] = Len(log) /\ Reads(n) = Current
<1>1. view[n] \in Nat /\ view[n] >= 1 /\ view[n] <= Len(log) /\ Len(log) \in Nat
  BY BoundsAssumption DEF TypeOK
<1>2. Reads(n) \in Mapping
  BY <1>1 DEF TypeOK, Reads
<1> QED
  BY <1>1, <1>2 DEF Reads, Current

(* Nothing that the invariant speaks of changes.                           *)
LEMMA Stays ==
  ASSUME IInv, UNCHANGED <<owner, log, txs>>, TypeOK', acs \subseteq acs', ClearsImported'
  PROVE  IInv'
<1>1. WritesOK'
  BY DEF IInv, WritesOK, WriteOK, Current
<1>2. CanTransact' /\ ActingHoldsContracts' /\ OneKindOfChange'
  BY DEF IInv, CanTransact, ActingHoldsContracts, OneKindOfChange, Current
<1> QED
  BY <1>1, <1>2 DEF IInv

(* A write given to Canton.                                                *)
LEMMA Submits ==
  ASSUME IInv, NEW m \in Mapping, NEW serial \in Nat, NEW by \in SUBSET Nodes,
         NEW party \in BOOLEAN,
         Submit(m, serial, by, party), UNCHANGED <<owner, log, view, acs, clearing>>,
         serial > Len(log) =>
           /\ serial = Len(log) + 1
           /\ Len(log) = 0 => Starts(m)
           /\ Len(log) > 0 => Builds(Current, m)
  PROVE  IInv'
<1> DEFINE same == {t \in txs : t.serial = serial /\ t.mapping = m}
           merged == [serial |-> serial, mapping |-> m,
                      by |-> by \cup UNION {t.by : t \in same},
                      party |-> party \/ \E t \in same : t.party]
<1>1. txs' = IF serial > Len(log) THEN (txs \ same) \cup {merged} ELSE txs
  BY DEF Submit
<1>2. merged \in Tx /\ merged.serial = serial /\ merged.mapping = m
  <2>1. \A t \in same : t.by \subseteq Nodes
    BY DEF IInv, TypeOK, Tx
  <2>2. by \cup UNION {t.by : t \in same} \subseteq Nodes
    BY <2>1
  <2>3. (party \/ \E t \in same : t.party) \in BOOLEAN
    OBVIOUS
  <2> QED
    BY <2>2, <2>3 DEF Tx
<1> HIDE DEF merged, same
<1>3. \A t \in txs' : t \in txs \/ (t = merged /\ serial > Len(log))
  BY <1>1
<1>4. TypeOK'
  BY <1>2, <1>3 DEF IInv, TypeOK
<1>5. WritesOK'
  <2>1. ASSUME NEW t \in txs' PROVE WriteOK(t)
    <3>1. CASE t \in txs
      BY <3>1 DEF IInv, WritesOK
    <3>2. CASE t = merged /\ serial > Len(log)
      BY <3>2, <1>2 DEF WriteOK
    <3> QED
      BY <3>1, <3>2, <1>3
  <2> QED
    BY <2>1 DEF WritesOK, WriteOK, Current
<1>6. CanTransact' /\ ActingHoldsContracts' /\ OneKindOfChange' /\ ClearsImported'
  BY DEF IInv, CanTransact, ActingHoldsContracts, OneKindOfChange, Current, ClearsImported
<1> QED
  BY <1>4, <1>5, <1>6 DEF IInv

(* A new head: no write is left, since none was for a later serial.        *)
LEMMA NewHead ==
  ASSUME IInv, NEW m \in Mapping, log' = Append(log, m), Settle(m, Len(log) + 1),
         txs' = {u \in txs : u.serial > Len(log) + 1}, UNCHANGED <<owner, view>>,
         Enough(m),
         Len(log) > 0 => OneChange(Current, m) /\ Acting(m) \subseteq acs
  PROVE  IInv'
<1>1. /\ Len(log) \in Nat /\ log \in Seq(Mapping)
      /\ Len(log') = Len(log) + 1 /\ log' \in Seq(Mapping)
      /\ log'[Len(log')] = m
      /\ \A i \in 1 .. Len(log) : log'[i] = log[i]
  BY DEF IInv, TypeOK
<1>2. txs' = {}
  BY <1>1 DEF IInv, WritesOK, WriteOK
<1>3. m.hosts \subseteq Nodes /\ m.marked \subseteq m.hosts
  BY MappingFields
<1>4. acs' \subseteq Nodes /\ clearing' \subseteq acs' /\ Acting(m) \subseteq acs'
  <2>1. CASE Len(log) = 0
    BY <1>3, <2>1 DEF Settle, Acting
  <2>2. CASE Len(log) > 0
    BY <1>1, <1>3, <2>2 DEF Settle, Acting, IInv, TypeOK, ClearsImported
  <2> QED
    BY <1>1, <2>1, <2>2
<1>5. TypeOK'
  BY <1>1, <1>2, <1>4 DEF IInv, TypeOK
<1>6. WritesOK' /\ ClearsImported'
  BY <1>1, <1>2, <1>4 DEF WritesOK, ClearsImported
<1>7. CanTransact' /\ ActingHoldsContracts'
  BY <1>1, <1>4 DEF CanTransact, ActingHoldsContracts, Current, Enough
<1>8. OneKindOfChange'
  <2> SUFFICES ASSUME NEW i \in 2 .. Len(log') PROVE OneChange(log'[i - 1], log'[i])
    BY DEF OneKindOfChange
  <2>1. CASE i <= Len(log)
    <3>1. i - 1 \in 1 .. Len(log) /\ i \in 1 .. Len(log) /\ i \in 2 .. Len(log)
      BY <1>1, <2>1
    <3>2. log'[i - 1] = log[i - 1] /\ log'[i] = log[i]
      BY <1>1, <3>1
    <3> QED
      BY <3>1, <3>2 DEF IInv, OneKindOfChange
  <2>2. CASE i = Len(log) + 1
    <3>1. Len(log) > 0 /\ log'[i - 1] = Current /\ log'[i] = m
      BY <1>1, <2>2 DEF Current
    <3> QED
      BY <3>1
  <2> QED
    BY <1>1, <2>1, <2>2
<1> QED
  BY <1>5, <1>6, <1>7, <1>8 DEF IInv

----------------------------------------------------------------------------
(* Canton's steps.                                                         *)

LEMMA TakeKeeps ==
  ASSUME IInv, NEW t \in txs, Take(t) PROVE IInv'
<1>1. t.mapping \in Mapping /\ t.serial = Len(log) + 1 /\ WriteOK(t)
  BY DEF IInv, TypeOK, Tx, WritesOK, Take
<1>2. Len(log) \in Nat
  BY DEF IInv, TypeOK
<1>3. CASE Len(log) = 0
  <2>1. Acting(t.mapping) = t.mapping.hosts /\ t.mapping.threshold < Cardinality(t.mapping.hosts)
    BY <1>1, <1>3 DEF WriteOK, Starts, Acting
  <2>2. Enough(t.mapping)
    BY <1>1, <2>1, MappingFields, Countable DEF Enough
  <2> QED
    BY <1>1, <1>3, <2>2, NewHead DEF Take
<1>4. CASE Len(log) > 0
  <2>1. Current \in Mapping /\ Enough(Current) /\ Builds(Current, t.mapping)
        /\ Acting(Current) \subseteq acs
    BY <1>1, <1>4, HeadIsMapping DEF IInv, CanTransact, ActingHoldsContracts, Enough, WriteOK
  <2>2. Enough(t.mapping) /\ Acting(t.mapping) \subseteq acs /\ OneChange(Current, t.mapping)
    BY <1>1, <2>1, BuildsSafely, BuildsOneChange
  <2> QED
    BY <1>1, <2>2, NewHead DEF Take
<1> QED
  BY <1>2, <1>3, <1>4

LEMMA ClearMarkerKeeps ==
  ASSUME IInv, NEW n \in Nodes, ClearMarker(n) PROVE IInv'
<1> DEFINE m == [Current EXCEPT !.marked = @ \ {n}]
<1>1. n \in acs /\ Len(log) > 0
  BY DEF IInv, ClearsImported, ClearMarker
<1>2. Current \in Mapping /\ Enough(Current) /\ Acting(Current) \subseteq acs
  BY <1>1, HeadIsMapping DEF IInv, CanTransact, ActingHoldsContracts, Enough
<1>3. m \in Mapping /\ OneChange(Current, m)
  BY <1>2, MappingFields DEF Mapping, OneChange
<1>4. /\ Acting(m) = Acting(Current) \cup {n} /\ m.threshold = Current.threshold
  BY <1>2, MappingFields DEF Acting, ClearMarker
<1>5. Enough(m)
  <2>1. /\ IsFiniteSet(Acting(m)) /\ Cardinality(Acting(m)) \in Nat
        /\ Cardinality(Acting(Current)) \in Nat /\ Current.threshold \in Nat
    BY <1>2, <1>3, Countable, MappingFields
  <2>2. Cardinality(Acting(Current)) <= Cardinality(Acting(m))
    BY <1>4, <2>1, FS_Subset
  <2> QED
    BY <1>2, <1>4, <2>1, <2>2 DEF Enough
<1>6. /\ log' = Append(log, m) /\ Settle(m, Len(log) + 1)
      /\ txs' = {u \in txs : u.serial > Len(log) + 1} /\ UNCHANGED <<owner, view>>
  BY DEF ClearMarker
<1> QED
  BY <1>1, <1>2, <1>3, <1>4, <1>5, <1>6, NewHead

LEMMA ObserveKeeps ==
  ASSUME IInv, NEW n \in Nodes, Observe(n) PROVE IInv'
<1>1. TypeOK'
  BY DEF IInv, TypeOK, Observe
<1>2. ClearsImported'
  BY DEF IInv, ClearsImported, Observe
<1> QED
  BY <1>1, <1>2, Stays DEF Observe

----------------------------------------------------------------------------
(* The nodes' steps.                                                       *)

LEMMA ImportKeeps ==
  ASSUME IInv, NEW n \in Nodes, NEW asked \in BOOLEAN, Import(n, asked) PROVE IInv'
<1>1. Len(log) > 0
  BY DEF IInv, TypeOK, Import
<1>2. TypeOK' /\ acs \subseteq acs' /\ ClearsImported'
  BY <1>1 DEF IInv, TypeOK, ClearsImported, Import
<1> QED
  BY <1>2, Stays DEF Import

(* A write built on what the node reads counts only when it read the head. *)
LEMMA ReadThenSubmits ==
  ASSUME IInv, NEW n \in Nodes, view[n] \in 1 .. MaxSerial - 1,
         NEW m \in Mapping, Builds(Reads(n), m),
         NEW by \in SUBSET Nodes, NEW party \in BOOLEAN,
         Submit(m, view[n] + 1, by, party), UNCHANGED <<owner, log, view, acs, clearing>>
  PROVE  IInv'
<1>1. /\ view[n] \in Nat /\ Len(log) \in Nat /\ Len(log) > 0
      /\ view[n] + 1 > Len(log) => view[n] = Len(log) /\ Reads(n) = Current
  BY ReadsMapping DEF IInv
<1>2. view[n] + 1 \in Nat
  BY <1>1
<1>3. view[n] + 1 > Len(log) => view[n] + 1 = Len(log) + 1 /\ Builds(Current, m)
  BY <1>1
<1> HIDE DEF IInv
<1> QED
  BY <1>1, <1>2, <1>3, Submits

LEMMA AllocatePartyKeeps ==
  ASSUME IInv, NEW n \in Nodes, NEW m \in Mapping, AllocateParty(n, m) PROVE IInv'
<1>1. Starts(m)
  BY DEF AllocateParty, ValidOnboarding, Starts
<1>2. Len(log) \in Nat
  BY DEF IInv, TypeOK
<1>3. 1 > Len(log) => 1 = Len(log) + 1 /\ ~(Len(log) > 0)
  BY <1>2
<1>4. 1 \in Nat /\ {n} \in SUBSET Nodes /\ TRUE \in BOOLEAN
  OBVIOUS
<1>5. Submit(m, 1, {n}, TRUE) /\ UNCHANGED <<owner, log, view, acs, clearing>>
  BY DEF AllocateParty
<1> QED
  BY <1>1, <1>3, <1>4, <1>5, Submits

LEMMA AddHostsBuilds ==
  ASSUME NEW m \in Mapping, NEW new \in SUBSET Nodes, NEW b \in BOOLEAN, CanAdd(m, new, b)
  PROVE  AddHostsMapping(m, new, b) \in Mapping /\ Builds(m, AddHostsMapping(m, new, b))
<1> DEFINE w == AddHostsMapping(m, new, b)
<1>1. new \cap m.hosts = {}
  BY DEF CanAdd
<1>2. /\ w.hosts = m.hosts \cup new /\ w.marked = m.marked \cup new
      /\ w.submit \in {m.submit, m.submit \cup new}
      /\ w.threshold = m.threshold /\ w.keys = m.keys
  BY DEF Mapping, AddHostsMapping
<1>3. w \in [hosts : SUBSET Nodes, marked : SUBSET Nodes, submit : SUBSET Nodes,
             threshold : Nat, keys : BOOLEAN]
  <2>1. CASE b
    BY <2>1 DEF Mapping, AddHostsMapping
  <2>2. CASE ~b
    BY <2>2 DEF Mapping, AddHostsMapping
  <2> QED
    BY <2>1, <2>2
<1> HIDE DEF w
<1>4. w \in Mapping
  BY <1>2, <1>3, MappingFields DEF Mapping
<1>5. Adds(m, w)
  BY <1>1, <1>2, MappingFields DEF Adds
<1> QED
  BY <1>4, <1>5 DEF Builds, w

LEMMA AuthorizeAddHostsKeeps ==
  ASSUME IInv, NEW n \in Nodes, NEW new \in SUBSET Nodes, NEW b \in BOOLEAN,
         AuthorizeAddHosts(n, new, b)
  PROVE  IInv'
<1>1. Reads(n) \in Mapping
  BY ReadsMapping DEF IInv, AuthorizeAddHosts
<1>2. /\ AddHostsMapping(Reads(n), new, b) \in Mapping
      /\ Builds(Reads(n), AddHostsMapping(Reads(n), new, b))
  BY <1>1, AddHostsBuilds DEF AuthorizeAddHosts
<1>3. {n} \in SUBSET Nodes /\ (n = owner) \in BOOLEAN
  OBVIOUS
<1> QED
  BY <1>2, <1>3, ReadThenSubmits DEF AuthorizeAddHosts

LEMMA SubmitAddHostsKeeps ==
  ASSUME IInv, NEW n \in Nodes, NEW m \in Mapping, SubmitAddHosts(n, m)
  PROVE  IInv'
<1>1. Reads(n) \in Mapping /\ ValidAddHosts(n, Reads(n), m)
  BY ReadsMapping DEF IInv, SubmitAddHosts
<1>2. Adds(Reads(n), m)
  BY <1>1, MappingFields DEF ValidAddHosts, Adds
<1>3. Builds(Reads(n), m) /\ {n} \in SUBSET Nodes
  BY <1>2 DEF Builds
<1> QED
  BY <1>3, ReadThenSubmits DEF SubmitAddHosts

LEMMA ChangeThresholdKeeps ==
  ASSUME IInv, NEW n \in Nodes, NEW t \in 1 .. Cardinality(Nodes), ChangeThreshold(n, t)
  PROVE  IInv'
<1> DEFINE m == [Reads(n) EXCEPT !.threshold = t]
<1>1. Reads(n) \in Mapping /\ ValidThreshold(Reads(n), t)
  BY ReadsMapping DEF IInv, ChangeThreshold
<1>2. Cardinality(Nodes) \in Nat /\ Cardinality(Confirming(Reads(n))) \in Nat
  BY <1>1, Countable, NodesAssumption, FS_CardinalityType
<1>3. m \in Mapping
  BY <1>1, <1>2, MappingFields DEF Mapping
<1>4. Builds(Reads(n), m)
  BY <1>1, <1>2 DEF Builds, MovesThreshold, ValidThreshold
<1>5. {n} \cap {owner} \in SUBSET Nodes
  OBVIOUS
<1> QED
  BY <1>3, <1>4, <1>5, ReadThenSubmits DEF ChangeThreshold

LEMMA AdoptKeeps ==
  ASSUME IInv, NEW n \in Nodes, Adopt(n) PROVE IInv'
<1> DEFINE m == [Reads(n) EXCEPT !.submit = @ \ {n}, !.keys = TRUE]
<1>1. Reads(n) \in Mapping /\ ~Reads(n).keys
  BY ReadsMapping DEF IInv, Adopt
<1>2. m \in Mapping
  BY <1>1, MappingFields DEF Mapping
<1>3. Builds(Reads(n), m) /\ {n} \in SUBSET Nodes
  BY <1>1 DEF Builds, Adopts
<1> QED
  BY <1>2, <1>3, ReadThenSubmits DEF Adopt

LEMMA LeaveKeeps ==
  ASSUME IInv, NEW n \in Nodes, Leave(n) PROVE IInv'
<1> DEFINE m == LeaveMapping(Reads(n), n)
<1>1. Reads(n) \in Mapping /\ CanLeave(Reads(n), n)
  BY ReadsMapping DEF IInv, Leave
<1>2. m \in Mapping
  BY <1>1, MappingFields DEF Mapping, LeaveMapping
<1>3. Builds(Reads(n), m) /\ {n} \in SUBSET Nodes /\ (n = owner) \in BOOLEAN
  BY <1>1 DEF Builds, Leaves, CanLeave
<1>4. Submit(m, view[n] + 1, {n}, n = owner)
  BY DEF Leave, LeaveSerial
<1> QED
  BY <1>2, <1>3, <1>4, ReadThenSubmits DEF Leave

----------------------------------------------------------------------------
(* The invariant.                                                          *)

LEMMA InitHolds == Init => IInv
<1> SUFFICES ASSUME Init PROVE IInv
  OBVIOUS
<1>1. CASE owner = NoNode
  <2>1. log = <<>> /\ Len(log) = 0 /\ acs = {} /\ txs = {} /\ clearing = {}
    BY <1>1, NodesAssumption DEF Init
  <2> QED
    BY <2>1 DEF Init, IInv, TypeOK, WritesOK, ClearsImported, CanTransact,
                ActingHoldsContracts, OneKindOfChange
<1>2. CASE owner # NoNode
  <2>1. owner \in Nodes
    BY <1>2, OwnersAssumption DEF Init
  <2>2. LocalMapping(owner) \in Mapping
    BY <2>1 DEF LocalMapping, Mapping
  <2>3. /\ log = <<LocalMapping(owner)>> /\ Len(log) = 1 /\ Current = LocalMapping(owner)
        /\ acs = {owner} /\ txs = {} /\ clearing = {} /\ log \in Seq(Mapping)
    BY <1>2, <2>1, <2>2 DEF Init, Current
  <2>4. Acting(Current) = {owner} /\ Current.threshold = 1
    BY <2>3 DEF LocalMapping, Acting
  <2>5. Cardinality(Acting(Current)) = 1
    BY <2>4, FS_Singleton
  <2> QED
    BY <2>1, <2>3, <2>4, <2>5 DEF Init, IInv, TypeOK, WritesOK, ClearsImported, CanTransact,
                                  ActingHoldsContracts, OneKindOfChange
<1> QED
  BY <1>1, <1>2

LEMMA NextKeeps == IInv /\ [Next]_vars => IInv'
<1> SUFFICES ASSUME IInv, [Next]_vars PROVE IInv'
  OBVIOUS
<1>1. ASSUME NEW t \in txs, Take(t) PROVE IInv'
  BY <1>1, TakeKeeps
<1>2. ASSUME NEW n \in Nodes,
             Observe(n) \/ ClearMarker(n) \/ Adopt(n) \/ Leave(n) \/ \E a \in BOOLEAN : Import(n, a)
      PROVE  IInv'
  BY <1>2, ObserveKeeps, ClearMarkerKeeps, AdoptKeeps, LeaveKeeps, ImportKeeps
<1>3. ASSUME NEW n \in Nodes, NEW m \in Bundles, AllocateParty(n, m) \/ SubmitAddHosts(n, m)
      PROVE  IInv'
  <2>1. m \in Mapping
    BY DEF Bundles
  <2> QED
    BY <1>3, <2>1, AllocatePartyKeeps, SubmitAddHostsKeeps
<1>4. ASSUME NEW n \in Nodes, NEW new \in SUBSET Nodes, NEW b \in BOOLEAN,
             AuthorizeAddHosts(n, new, b)
      PROVE  IInv'
  BY <1>4, AuthorizeAddHostsKeeps
<1>5. ASSUME NEW n \in Nodes, NEW t \in 1 .. Cardinality(Nodes), ChangeThreshold(n, t)
      PROVE  IInv'
  BY <1>5, ChangeThresholdKeeps
<1>6. CASE UNCHANGED vars
  <2>1. TypeOK' /\ ClearsImported'
    BY <1>6 DEF IInv, TypeOK, ClearsImported, vars
  <2> QED
    BY <1>6, <2>1, Stays DEF vars
<1> QED
  BY <1>1, <1>2, <1>3, <1>4, <1>5, <1>6 DEF Next

LEMMA Inductive == Spec => []IInv
  BY InitHolds, NextKeeps, PTL DEF Spec

(* Whatever the nodes leave, add, adopt or change at the same time, and    *)
(* however old what they read, the hosts that act reach the threshold.     *)
THEOREM HostingSafety == Spec => []CanTransact
<1>1. IInv => CanTransact
  BY DEF IInv
<1> QED
  BY <1>1, Inductive, PTL

(* A host acts for the party only once it holds the party's contracts.     *)
THEOREM ActingSafety == Spec => []ActingHoldsContracts
<1>1. IInv => ActingHoldsContracts
  BY DEF IInv
<1> QED
  BY <1>1, Inductive, PTL

(* Two consecutive serials differ by one kind of change.                   *)
THEOREM ChangesSafety == Spec => []OneKindOfChange
<1>1. IInv => OneKindOfChange
  BY DEF IInv
<1> QED
  BY <1>1, Inductive, PTL

----------------------------------------------------------------------------
(* A node that leaves (module Unhost): any number of attempts, one after   *)
(* the other or at once.  One has the hold, and a removal that Canton      *)
(* still has was asked for by whoever has it, or is exposed.               *)

HoldSteps == {"read", "scan", "archive", "leave", "stop", "poll", "unknown", "watch"}
AuditRow ==
  [status : {"in_progress", "completed", "failed"},
   step : {"preconditions", "splice_cleanup", "topology", "done"},
   cleanup : BOOLEAN, before : Nat, after : Nat]
Attempt ==
  [pc : HoldSteps \cup {"inserted", "ended"}, base : Nat,
   found : SUBSET Contracts, since : SUBSET Contracts]
Removal == [serial : Nat, cleanup : BOOLEAN]
UnhostTypes ==
  /\ held \in BOOLEAN /\ relaying \in BOOLEAN /\ exposed \in BOOLEAN
  /\ head.serial \in Nat /\ head.hosted \in BOOLEAN
  /\ writes \subseteq Removal
  /\ rows \in Seq(AuditRow) /\ task \in Seq(Attempt) /\ Len(task) = Len(rows)
  /\ contracts \subseteq Contracts /\ missed \subseteq Contracts
  /\ cleanedAt \in Nat /\ goneAt \subseteq Nat

(* An attempt has the hold exactly when the party is held, and then no     *)
(* copy of its contracts runs.                                             *)
Holder == {i \in Ids : task[i].pc \in HoldSteps}
HoldInv ==
  /\ ~(held /\ relaying)
  /\ held <=> Holder # {}
  /\ \A i, j \in Holder : i = j

(* A removal that Canton still has is for the next serial.  Unless it was  *)
(* exposed, the attempt that asked for it waits for it with the hold.      *)
WriteInv ==
  /\ \A w \in writes : w.serial = head.serial + 1
  /\ writes # {} => head.hosted
  /\ writes # {} /\ ~exposed =>
       \E i \in Holder : task[i].pc \in {"poll", "unknown", "watch"} /\ task[i].base = head.serial

(* What the row r of an attempt and its task t stand for, of a party at a  *)
(* serial, with the serial of the last cleanup and the live contracts: a   *)
(* row that is past its cleanup, by its own or by one it resumes, has one  *)
(* at the serial it read or after.                                         *)
AttemptOK(r, t, serial, cleaned, live) ==
  /\ r.before <= serial
  /\ t.pc \in {"inserted", "read"} => r.step = "preconditions" /\ r.status # "completed"
  /\ t.pc \in {"scan", "archive", "leave", "poll", "unknown", "watch"} => r.before = t.base
  /\ r.cleanup /\ (r.step = "topology" \/ t.pc = "leave") => cleaned >= r.before
  /\ t.pc \in {"scan", "archive"} => cleaned <= r.before
  /\ t.pc = "archive" => live \subseteq t.found \cup t.since
AttemptInv == \A i \in Ids : AttemptOK(rows[i], task[i], head.serial, cleanedAt, contracts)
CleanInv == cleanedAt <= head.serial /\ contracts \subseteq missed /\ CleanedBeforeLeaving
GoneInv == (~head.hosted => head.serial \in goneAt) /\ CompletedMeansGone
UnhostInv == UnhostTypes /\ HoldInv /\ WriteInv /\ AttemptInv /\ CleanInv /\ GoneInv

USE DEF Ids

(* An element of a sequence is replaced.                                   *)
LEMMA SetAt ==
  ASSUME NEW S, NEW s \in Seq(S), NEW i \in 1 .. Len(s), NEW x \in S, NEW t, t = [s EXCEPT ![i] = x]
  PROVE  /\ t \in Seq(S) /\ Len(t) = Len(s) /\ t[i] = x
         /\ \A j \in 1 .. Len(s) : j # i => t[j] = s[j]
  OBVIOUS

(* A function on an initial segment is a sequence.                         *)
LEMMA SeqOf ==
  ASSUME NEW S, NEW n \in Nat, NEW f \in [1 .. n -> S]
  PROVE  f \in Seq(S) /\ Len(f) = n
  OBVIOUS

(* The types of one attempt.                                               *)
LEMMA AttemptTypes ==
  ASSUME UnhostTypes, NEW i \in Ids
  PROVE  rows[i] \in AuditRow /\ task[i] \in Attempt
  BY DEF UnhostTypes

(* The fields of a row.                                                    *)
LEMMA RowFields ==
  ASSUME NEW r \in AuditRow
  PROVE  r.before \in Nat /\ r.after \in Nat /\ r.cleanup \in BOOLEAN
  BY DEF AuditRow

(* A contract is made while an attempt runs.                               *)
LEMMA TaskSince ==
  ASSUME NEW t \in Attempt, NEW c \in Contracts, NEW u, u = [t EXCEPT !.since = @ \cup {c}]
  PROVE  /\ u \in Attempt /\ u.pc = t.pc /\ u.base = t.base
         /\ u.found = t.found /\ u.since = t.since \cup {c}
  BY DEF Attempt

(* No attempt has begun.                                                   *)
LEMMA InitUnhost == UnhostInit => UnhostInv
<1>. SUFFICES ASSUME UnhostInit PROVE UnhostInv
  OBVIOUS
<1>. USE DEF UnhostInit, HoldInit
<1>1. head.serial = 1 /\ head.hosted = TRUE
  OBVIOUS
<1>2. UnhostTypes
  <2>1. rows \in Seq(AuditRow) /\ task \in Seq(Attempt) /\ Len(task) = Len(rows)
    OBVIOUS
  <2>2. writes \subseteq Removal /\ contracts \subseteq Contracts /\ missed \subseteq Contracts
        /\ cleanedAt \in Nat /\ goneAt \subseteq Nat
    OBVIOUS
  <2>3. held \in BOOLEAN /\ relaying \in BOOLEAN /\ exposed \in BOOLEAN /\ head.hosted \in BOOLEAN
    BY <1>1, Zenon
  <2>. QED
    BY <1>1, <2>1, <2>2, <2>3 DEF UnhostTypes
<1>3. HoldInv /\ WriteInv /\ AttemptInv
  BY DEF HoldInv, Holder, WriteInv, AttemptInv
<1>4. CleanInv /\ GoneInv
  BY <1>1 DEF CleanInv, GoneInv, CompletedMeansGone, CleanedBeforeLeaving
<1>. QED
  BY <1>2, <1>3, <1>4 DEF UnhostInv

(* A new head settles every removal, whosever it is.                       *)
LEMMA MovesUnhost ==
  ASSUME UnhostInv, NEW hosted \in BOOLEAN, NEW leavable \in BOOLEAN, Moves(hosted, leavable)
  PROVE  UnhostInv'
<1>. USE DEF UnhostInv, UnhostTypes, Moves
<1>1. writes' = {}
  BY DEF WriteInv, Removal
<1>h. head'.serial = head.serial + 1 /\ head'.hosted = hosted
  OBVIOUS
<1>g. goneAt' \subseteq Nat
  <2>1. CASE hosted   BY <2>1
  <2>2. CASE ~hosted
    <3>1. goneAt' = goneAt \cup {head.serial + 1}
      BY <2>2
    <3>2. head.serial + 1 \in Nat
      OBVIOUS
    <3>. QED
      BY ONLY <3>1, <3>2, goneAt \subseteq Nat, Zenon
  <2>. QED            BY <2>1, <2>2
<1>2. UnhostTypes'
  BY <1>1, <1>h, <1>g
<1>3. HoldInv'
  BY DEF HoldInv, Holder
<1>4. WriteInv'
  BY <1>1 DEF WriteInv
<1>r. \A i \in Ids : rows[i].before \in Nat
  BY AttemptTypes, RowFields
<1>5. AttemptInv'
  BY <1>h, <1>r DEF AttemptInv, AttemptOK
<1>6. CleanInv'
  BY <1>1 DEF CleanInv, CleanedBeforeLeaving
<1>7. GoneInv'
  BY DEF GoneInv, CompletedMeansGone
<1>. QED
  BY <1>2, <1>3, <1>4, <1>5, <1>6, <1>7

(* Copies start only while the party is not held.                          *)
LEMMA RelayUnhost == ASSUME UnhostInv, Relay PROVE UnhostInv'
<1>. USE DEF UnhostInv, UnhostTypes, Relay, OpenRelay, CloseRelay, history
<1>1. HoldInv'
  BY DEF HoldInv, Holder
<1>2. WriteInv'
  BY DEF WriteInv, Holder
<1>3. AttemptInv'
  BY DEF AttemptInv
<1>4. CleanInv' /\ GoneInv'
  BY DEF CleanInv, CleanedBeforeLeaving, GoneInv, CompletedMeansGone
<1>. QED
  BY <1>1, <1>2, <1>3, <1>4

(* The validator makes a contract.                                         *)
LEMMA MakeUnhost == ASSUME UnhostInv, NEW c \in Contracts, MakeContract(c) PROVE UnhostInv'
<1>. USE DEF UnhostInv, UnhostTypes, MakeContract
<1>t. \A i \in Ids : task[i] \in Attempt /\ [task[i] EXCEPT !.since = @ \cup {c}] \in Attempt
  BY AttemptTypes, TaskSince
<1>f. task' \in [1 .. Len(task) -> Attempt]
  BY <1>t
<1>0. /\ task' \in Seq(Attempt) /\ Len(task') = Len(task)
      /\ \A i \in Ids : task'[i] = [task[i] EXCEPT !.since = @ \cup {c}]
  BY <1>f, SeqOf
<1>a. \A i \in Ids : task'[i].pc = task[i].pc /\ task'[i].base = task[i].base
          /\ task'[i].found = task[i].found /\ task'[i].since = task[i].since \cup {c}
  <2>. TAKE i \in Ids
  <2>1. task[i] \in Attempt /\ task'[i] = [task[i] EXCEPT !.since = @ \cup {c}]
    BY <1>0, <1>t
  <2>. QED
    BY ONLY <2>1, c \in Contracts, TaskSince
<1>b. UnhostTypes'
  BY <1>0
<1>1. HoldInv'
  BY <1>0, <1>a DEF HoldInv, Holder
<1>2. WriteInv'
  BY <1>0, <1>a DEF WriteInv, Holder
<1>3. AttemptInv'
  <2>. SUFFICES ASSUME NEW i \in Ids
                PROVE  AttemptOK(rows[i], task'[i], head.serial, cleanedAt, contracts')
    BY DEF AttemptInv
  <2>1. AttemptOK(rows[i], task[i], head.serial, cleanedAt, contracts)
    BY DEF AttemptInv
  <2>. QED
    BY <2>1, <1>a DEF AttemptOK
<1>4. CleanInv' /\ GoneInv'
  BY DEF CleanInv, CleanedBeforeLeaving, GoneInv, CompletedMeansGone
<1>. QED
  BY <1>b, <1>1, <1>2, <1>3, <1>4

(* A contract expires.                                                     *)
LEMMA ExpiresUnhost == ASSUME UnhostInv, NEW c \in Contracts, Expires(c) PROVE UnhostInv'
<1>. USE DEF UnhostInv, UnhostTypes, Expires, history
<1>1. HoldInv'
  BY DEF HoldInv, Holder
<1>2. WriteInv'
  BY DEF WriteInv, Holder
<1>3. AttemptInv'
  BY DEF AttemptInv, AttemptOK
<1>4. CleanInv' /\ GoneInv'
  BY DEF CleanInv, CleanedBeforeLeaving, GoneInv, CompletedMeansGone
<1>. QED
  BY <1>1, <1>2, <1>3, <1>4

(* A restart ends every attempt and exposes what it asked for.             *)
LEMMA CrashUnhost == ASSUME UnhostInv, Crash PROVE UnhostInv'
<1>. USE DEF UnhostInv, UnhostTypes, Crash, ProcessEnds
<1>0. /\ task' \in Seq(Attempt) /\ Len(task') = Len(task)
      /\ \A i \in Ids : task'[i].pc = "ended"
  BY DEF Attempt, Ended
<1>1. HoldInv'
  BY <1>0 DEF HoldInv, Holder, HoldSteps
<1>2. WriteInv'
  BY <1>0 DEF WriteInv, Holder
<1>3. AttemptInv'
  BY <1>0 DEF AttemptInv, AttemptOK
<1>4. CleanInv' /\ GoneInv'
  BY DEF CleanInv, CleanedBeforeLeaving, GoneInv, CompletedMeansGone
<1>. QED
  BY <1>0, <1>1, <1>2, <1>3, <1>4

(* insert_attempt: the new attempt does not have the hold.                 *)
LEMMA InsertUnhost ==
  ASSUME UnhostInv, NEW cleanup \in BOOLEAN, NEW base \in Nat, Insert(cleanup, base)
  PROVE  UnhostInv'
<1>. USE DEF UnhostInv, UnhostTypes, Insert, world, history
<1> DEFINE n == Len(rows) + 1
<1>r. NewRow(cleanup) \in AuditRow /\ [Ended EXCEPT !.pc = "inserted", !.base = base] \in Attempt
  BY DEF NewRow, AuditRow, Ended, Attempt
<1>0. /\ rows' \in Seq(AuditRow) /\ task' \in Seq(Attempt)
      /\ Len(rows') = n /\ Len(task') = n
      /\ rows'[n] = NewRow(cleanup) /\ task'[n] = [Ended EXCEPT !.pc = "inserted", !.base = base]
      /\ \A i \in 1 .. Len(rows) : rows'[i] = rows[i] /\ task'[i] = task[i]
  BY <1>r
<1>n. /\ task'[n].pc = "inserted" /\ rows'[n].status = "in_progress"
      /\ rows'[n].step = "preconditions" /\ rows'[n].before = 0
  BY <1>0 DEF NewRow, Ended
<1>h. Holder' = Holder
  BY <1>0, <1>n DEF Holder, HoldSteps
<1>1. HoldInv'
  BY <1>0, <1>h DEF HoldInv, Holder
<1>2. WriteInv'
  BY <1>0, <1>h DEF WriteInv, Holder
<1>3. AttemptInv'
  BY <1>0, <1>n DEF AttemptInv, AttemptOK
<1>4. CleanInv' /\ GoneInv'
  BY <1>0, <1>n DEF CleanInv, CleanedBeforeLeaving, GoneInv, CompletedMeansGone
<1>. QED
  BY <1>0, <1>1, <1>2, <1>3, <1>4

(* close_open_attempts keeps what a row says of its attempt, and completes *)
(* no row of a node that is still listed.                                  *)
LEMMA SettledRow ==
  ASSUME NEW r \in AuditRow
  PROVE  /\ Settled(r) \in AuditRow 
         /\ Settled(r).before = r.before /\ Settled(r).cleanup = r.cleanup
         /\ Settled(r).step \in {r.step, "done"}
         /\ r.step = "preconditions" => Settled(r).step = "preconditions"
         /\ r.step = "preconditions" /\ r.status # "completed" => Settled(r).status # "completed"
         /\ Settled(r).status = "completed" => r.status = "completed" \/ ~head.hosted
  BY DEF Settled, AuditRow

(* An attempt goes on to t with its row in order; other rows may be        *)
(* settled.                                                                *)
StepsTo(i, t) ==
  /\ task' = [task EXCEPT ![i] = t]
  /\ rows' \in Seq(AuditRow) /\ Len(rows') = Len(rows)
  /\ \A j \in Ids \ {i} : rows'[j] = rows[j] \/ rows'[j] = Settled(rows[j])
  /\ head' = head /\ cleanedAt' = cleanedAt /\ goneAt' = goneAt /\ contracts' \subseteq contracts
  /\ AttemptOK(rows'[i], t, head.serial, cleanedAt, contracts')
  /\ rows'[i].status = "completed" => \E s \in goneAt : s >= rows'[i].before

(* A step of one attempt leaves the others in order.                       *)
LEMMA AttemptStep ==
  ASSUME UnhostInv, NEW i \in Ids, NEW t \in Attempt, StepsTo(i, t)
  PROVE  /\ task' \in Seq(Attempt) /\ Len(task') = Len(rows')
         /\ task'[i] = t /\ \A j \in Ids : j # i => task'[j] = task[j]
         /\ AttemptInv' /\ GoneInv'
<1>. USE DEF UnhostInv, UnhostTypes, StepsTo
<1>1. /\ task' \in Seq(Attempt) /\ Len(task') = Len(rows')
      /\ task'[i] = t /\ \A j \in Ids : j # i => task'[j] = task[j]
  BY SetAt
<1>2. ASSUME NEW j \in Ids, j # i
      PROVE  /\ AttemptOK(rows'[j], task'[j], head.serial, cleanedAt, contracts')
             /\ rows'[j].status = "completed" => \E s \in goneAt : s >= rows'[j].before
  <2>1. /\ rows[j] \in AuditRow /\ AttemptOK(rows[j], task[j], head.serial, cleanedAt, contracts)
        /\ rows[j].status = "completed" => \E s \in goneAt : s >= rows[j].before
    BY AttemptTypes DEF AttemptInv, GoneInv, CompletedMeansGone
  <2>2. AttemptOK(rows[j], task[j], head.serial, cleanedAt, contracts')
    BY <2>1 DEF AttemptOK
  <2>3. CASE rows'[j] = rows[j]
    BY <1>1, <1>2, <2>1, <2>2, <2>3
  <2>4. CASE rows'[j] = Settled(rows[j])
    <3>1. AttemptOK(rows'[j], task'[j], head.serial, cleanedAt, contracts')
      BY <1>1, <1>2, <2>1, <2>2, <2>4, SettledRow DEF AttemptOK
    <3>2. CASE ~head.hosted
      <4>1. head.serial \in goneAt /\ rows'[j].before <= head.serial
        BY <2>1, <2>4, <3>2, SettledRow DEF GoneInv, AttemptOK
      <4>. QED
        BY <3>1, <4>1, <2>1, <2>4, SettledRow, RowFields
    <3>3. CASE head.hosted
      BY <3>1, <3>3, <2>1, <2>4, SettledRow
    <3>. QED
      BY <3>2, <3>3
  <2>. QED
    BY <1>2, <2>3, <2>4
<1>3. AttemptInv'
  BY <1>1, <1>2 DEF AttemptInv
<1>4. GoneInv'
  BY <1>1, <1>2 DEF GoneInv, CompletedMeansGone
<1>. QED
  BY <1>1, <1>3, <1>4

(* finish, which may fail, changes the status of one row.                  *)
LEMMA FinishRow ==
  ASSUME UnhostTypes, NEW i \in Ids, NEW status \in {"in_progress", "completed", "failed"},
         NEW after \in Nat, Finish(i, status, after)
  PROVE  /\ rows' \in Seq(AuditRow) /\ Len(rows') = Len(rows)
         /\ \A j \in Ids : j # i => rows'[j] = rows[j]
         /\ rows'[i].before = rows[i].before /\ rows'[i].step = rows[i].step
         /\ rows'[i].cleanup = rows[i].cleanup /\ rows'[i].status \in {rows[i].status, status}
<1> DEFINE r == [rows[i] EXCEPT !.status = status, !.after = IF after = 0 THEN @ ELSE after]
<1>1. rows[i] \in AuditRow
  BY AttemptTypes
<1>2. r \in AuditRow /\ r.before = rows[i].before /\ r.step = rows[i].step
      /\ r.cleanup = rows[i].cleanup /\ r.status = status
  BY <1>1 DEF AuditRow
<1>3. CASE rows' = rows
  BY <1>3 DEF UnhostTypes
<1>4. CASE rows' # rows
  <2>1. rows' = [rows EXCEPT ![i] = r]
    BY <1>4 DEF Finish
  <2>. HIDE DEF r
  <2>. QED
    BY <2>1, <1>2, SetAt DEF UnhostTypes
<1>. QED
  BY <1>3, <1>4

(* A task ends.                                                            *)
LEMMA EndsTask ==
  ASSUME NEW i \in Ids, Ends(i) PROVE task' = [task EXCEPT ![i] = Ended] /\ Ended \in Attempt
  BY DEF Ends, Ended, Attempt

(* A task goes on to another step.                                         *)
LEMMA GotoTask ==
  ASSUME UnhostTypes, NEW i \in Ids, NEW pc \in HoldSteps, Goto(i, pc)
  PROVE  \E t \in Attempt :
        /\ task' = [task EXCEPT ![i] = t] /\ t.pc = pc /\ t.base = task[i].base
        /\ t.found = task[i].found /\ t.since = task[i].since
<1>1. task[i] \in Attempt
  BY AttemptTypes
<1>2. [task[i] EXCEPT !.pc = pc] \in Attempt
  BY <1>1 DEF Attempt
<1>3. task' = [task EXCEPT ![i] = [task[i] EXCEPT !.pc = pc]]
  BY DEF Goto
<1>. QED
  BY <1>1, <1>2, <1>3 DEF Attempt

(* A step within the hold.                                                 *)
LEMMA HolderKept ==
  ASSUME UnhostTypes, NEW i \in Ids, Len(rows') = Len(rows),
         \A j \in Ids : j # i => task'[j] = task[j],
         task[i].pc \in HoldSteps, task'[i].pc \in HoldSteps
  PROVE  Holder' = Holder /\ i \in Holder
  BY DEF Holder

(* A step that gives the hold up.                                          *)
LEMMA HolderGone ==
  ASSUME UnhostTypes, HoldInv, NEW i \in Ids, Len(rows') = Len(rows),
         \A j \in Ids : j # i => task'[j] = task[j],
         task[i].pc \in HoldSteps, task'[i].pc \notin HoldSteps
  PROVE  Holder' = {} /\ Holder = {i}
  BY DEF Holder, HoldInv

(* Whoever has the hold is the one that waits for an unexposed removal.    *)
LEMMA WriteHolder ==
  ASSUME UnhostTypes, HoldInv, WriteInv, NEW i \in Ids, task[i].pc \in HoldSteps,
         writes # {}, ~exposed
  PROVE  task[i].pc \in {"poll", "unknown", "watch"} /\ task[i].base = head.serial
  BY DEF Holder, HoldInv, WriteInv

(* An attempt that is refused never had the hold.                          *)
LEMMA RefusedUnhost == ASSUME UnhostInv, NEW i \in Ids, Refused(i) PROVE UnhostInv'
<1>. USE DEF UnhostInv, Refused, world, history
<1>1. task' = [task EXCEPT ![i] = Ended] /\ Ended \in Attempt
  BY EndsTask
<1>2. /\ rows' \in Seq(AuditRow) /\ Len(rows') = Len(rows)
      /\ \A j \in Ids : j # i => rows'[j] = rows[j]
      /\ rows'[i].before = rows[i].before /\ rows'[i].step = rows[i].step
      /\ rows'[i].cleanup = rows[i].cleanup /\ rows'[i].status \in {rows[i].status, "failed"}
  BY FinishRow
<1>3. AttemptOK(rows[i], task[i], head.serial, cleanedAt, contracts)
  BY DEF AttemptInv
<1>4. AttemptOK(rows'[i], Ended, head.serial, cleanedAt, contracts') /\ rows'[i].status # "completed"
  BY <1>2, <1>3 DEF AttemptOK, Ended
<1>5. /\ task' \in Seq(Attempt) /\ Len(task') = Len(rows') /\ task'[i] = Ended
      /\ \A j \in Ids : j # i => task'[j] = task[j]
      /\ AttemptInv' /\ GoneInv'
  BY <1>1, <1>2, <1>4, AttemptStep DEF StepsTo
<1>6. Holder' = Holder
  BY <1>2, <1>5 DEF Holder, HoldSteps, Ended
<1>7. UnhostTypes'
  BY <1>2, <1>5 DEF UnhostTypes
<1>8. HoldInv'
  BY <1>6 DEF HoldInv
<1>9. WriteInv'
  BY <1>2, <1>5, <1>6 DEF WriteInv, Holder, Ended
<1>10. CleanInv'
  BY DEF CleanInv, CleanedBeforeLeaving
<1>. QED
  BY <1>5, <1>7, <1>8, <1>9, <1>10

(* The hold is granted when nobody has it.                                 *)
LEMMA AdmittedUnhost == ASSUME UnhostInv, NEW i \in Ids, Admitted(i) PROVE UnhostInv'
<1>. USE DEF UnhostInv, Admitted, TakeHold, world, history
<1>1. PICK t \in Attempt : /\ task' = [task EXCEPT ![i] = t] /\ t.pc = "read" /\ t.base = task[i].base
  BY GotoTask DEF HoldSteps
<1>2. rows \in Seq(AuditRow)
  BY DEF UnhostTypes
<1>3. /\ AttemptOK(rows[i], task[i], head.serial, cleanedAt, contracts)
      /\ rows[i].status = "completed" => \E s \in goneAt : s >= rows[i].before
  BY DEF AttemptInv, GoneInv, CompletedMeansGone
<1>4. AttemptOK(rows'[i], t, head.serial, cleanedAt, contracts')
  BY <1>1, <1>3 DEF AttemptOK
<1>5. /\ task' \in Seq(Attempt) /\ Len(task') = Len(rows') /\ task'[i] = t
      /\ \A j \in Ids : j # i => task'[j] = task[j]
      /\ AttemptInv' /\ GoneInv'
  BY <1>1, <1>2, <1>3, <1>4, AttemptStep DEF StepsTo
<1>6. Holder = {} /\ Holder' = {i}
  BY <1>1, <1>5 DEF HoldInv, Holder, HoldSteps
<1>7. UnhostTypes'
  BY <1>5 DEF UnhostTypes
<1>8. HoldInv'
  BY <1>6 DEF HoldInv
<1>9. WriteInv'
  BY <1>6 DEF WriteInv
<1>10. CleanInv'
  BY DEF CleanInv, CleanedBeforeLeaving
<1>. QED
  BY <1>5, <1>7, <1>8, <1>9, <1>10

(* What a step within the hold has to show.                                *)
LEMMA HoldKept ==
  ASSUME UnhostInv, NEW i \in Ids, NEW t \in Attempt, StepsTo(i, t),
         task[i].pc \in HoldSteps, t.pc \in HoldSteps,
         UNCHANGED <<held, relaying, writes, missed, exposed>>,
         task[i].pc \in {"poll", "unknown", "watch"} =>
            t.pc \in {"poll", "unknown", "watch"} /\ t.base = task[i].base
  PROVE  UnhostInv'
<1>. USE DEF UnhostInv
<1>1. /\ task' \in Seq(Attempt) /\ Len(task') = Len(rows') /\ task'[i] = t
      /\ \A j \in Ids : j # i => task'[j] = task[j]
      /\ AttemptInv' /\ GoneInv'
  BY AttemptStep
<1>2. Holder' = Holder /\ i \in Holder
  BY <1>1, HolderKept DEF StepsTo
<1>3. UnhostTypes'
  BY <1>1 DEF UnhostTypes, StepsTo
<1>4. HoldInv'
  BY <1>2 DEF HoldInv
<1>5. WriteInv'
  BY <1>1, <1>2, WriteHolder DEF WriteInv, StepsTo
<1>6. CleanInv'
  BY DEF CleanInv, CleanedBeforeLeaving, StepsTo
<1>. QED
  BY <1>1, <1>3, <1>4, <1>5, <1>6

(* What a step that gives the hold up has to show: no removal is left that *)
(* is not exposed.                                                         *)
LEMMA HoldDropped ==
  ASSUME UnhostInv, NEW i \in Ids, StepsTo(i, Ended), task[i].pc \in HoldSteps, DropHold,
         UNCHANGED <<writes, missed>>, exposed' \in BOOLEAN, writes # {} => exposed'
  PROVE  UnhostInv'
<1>. USE DEF UnhostInv, DropHold
<1>0. Ended \in Attempt
  BY DEF Ended, Attempt
<1>1. /\ task' \in Seq(Attempt) /\ Len(task') = Len(rows') /\ task'[i] = Ended
      /\ \A j \in Ids : j # i => task'[j] = task[j]
      /\ AttemptInv' /\ GoneInv'
  BY <1>0, AttemptStep
<1>2. Holder' = {}
  BY <1>1, HolderGone DEF StepsTo, HoldSteps, Ended
<1>3. UnhostTypes'
  BY <1>1 DEF UnhostTypes, StepsTo
<1>4. HoldInv'
  BY <1>2 DEF HoldInv
<1>5. WriteInv'
  BY DEF WriteInv, StepsTo
<1>6. CleanInv'
  BY DEF CleanInv, CleanedBeforeLeaving, StepsTo
<1>. QED
  BY <1>1, <1>3, <1>4, <1>5, <1>6

(* What an attempt relies on.                                              *)
LEMMA AttemptFacts ==
  ASSUME UnhostInv, NEW i \in Ids
  PROVE  /\ rows[i] \in AuditRow /\ task[i] \in Attempt
         /\ rows \in Seq(AuditRow) /\ contracts \subseteq Contracts
         /\ AttemptOK(rows[i], task[i], head.serial, cleanedAt, contracts)
         /\ rows[i].status = "completed" => \E s \in goneAt : s >= rows[i].before
  BY AttemptTypes DEF UnhostInv, UnhostTypes, AttemptInv, GoneInv, CompletedMeansGone

(* A failed attempt either asked for nothing or saw the head move past it. *)
LEMMA FailsUnhost == ASSUME UnhostInv, NEW i \in Ids, Fails(i) PROVE UnhostInv'
<1>. USE DEF Fails, world, history
<1>1. task' = [task EXCEPT ![i] = Ended]
  BY EndsTask
<1>2. /\ rows' \in Seq(AuditRow) /\ Len(rows') = Len(rows)
      /\ \A j \in Ids : j # i => rows'[j] = rows[j]
      /\ rows'[i].before = rows[i].before /\ rows'[i].step = rows[i].step
      /\ rows'[i].cleanup = rows[i].cleanup /\ rows'[i].status \in {rows[i].status, "failed"}
  BY FinishRow DEF UnhostInv
<1>3. /\ AttemptOK(rows'[i], Ended, head.serial, cleanedAt, contracts')
      /\ rows'[i].status = "completed" => \E s \in goneAt : s >= rows'[i].before
  BY <1>2, AttemptFacts DEF AttemptOK, Ended
<1>4. StepsTo(i, Ended)
  BY <1>1, <1>2, <1>3 DEF StepsTo
<1>5. task[i].pc \in HoldSteps
  BY DEF HoldSteps
<1>6. exposed' \in BOOLEAN /\ (writes # {} => exposed')
  BY <1>5, WriteHolder DEF UnhostInv, UnhostTypes
<1>. QED
  BY <1>4, <1>5, <1>6, HoldDropped

(* A watcher that gives up exposes its removal.                            *)
LEMMA WatchGivesUpUnhost == ASSUME UnhostInv, NEW i \in Ids, WatchGivesUp(i) PROVE UnhostInv'
<1>. USE DEF WatchGivesUp
<1>1. task' = [task EXCEPT ![i] = Ended]
  BY EndsTask
<1>2. AttemptOK(rows'[i], Ended, head.serial, cleanedAt, contracts')
  BY AttemptFacts DEF AttemptOK, Ended
<1>3. StepsTo(i, Ended)
  BY <1>1, <1>2, AttemptFacts DEF StepsTo
<1>4. task[i].pc \in HoldSteps
  BY DEF HoldSteps
<1>. QED
  BY <1>3, <1>4, HoldDropped

(* find_splice_contracts.                                                  *)
LEMMA ScanUnhost == ASSUME UnhostInv, NEW i \in Ids, Scan(i) PROVE UnhostInv'
<1>. USE DEF Scan, world, history
<1> DEFINE t == [task[i] EXCEPT !.pc = "archive", !.found = contracts, !.since = {}]
<1>1. /\ t \in Attempt /\ t.pc = "archive" /\ t.base = task[i].base
      /\ t.found = contracts /\ t.since = {}
  BY AttemptFacts DEF Attempt, HoldSteps
<1>2. task' = [task EXCEPT ![i] = t]
  OBVIOUS
<1>. HIDE DEF t
<1>3. AttemptOK(rows'[i], t, head.serial, cleanedAt, contracts')
  BY <1>1, AttemptFacts DEF AttemptOK
<1>4. StepsTo(i, t)
  BY <1>2, <1>3, AttemptFacts DEF StepsTo
<1>. QED
  BY <1>1, <1>4, HoldKept DEF HoldSteps

(* One contract is archived.                                               *)
LEMMA ArchiveUnhost ==
  ASSUME UnhostInv, NEW i \in Ids, NEW c \in Contracts, Archive(i, c)
  PROVE  UnhostInv'
<1>. USE DEF Archive, history
<1> DEFINE t == [task[i] EXCEPT !.found = @ \ {c}]
<1>1. /\ t \in Attempt /\ t.pc = "archive" /\ t.base = task[i].base
      /\ t.found = task[i].found \ {c} /\ t.since = task[i].since
  BY AttemptFacts DEF Attempt
<1>2. task' = [task EXCEPT ![i] = t]
  OBVIOUS
<1>. HIDE DEF t
<1>3. AttemptOK(rows'[i], t, head.serial, cleanedAt, contracts')
  BY <1>1, AttemptFacts DEF AttemptOK
<1>4. StepsTo(i, t)
  BY <1>2, <1>3, AttemptFacts DEF StepsTo
<1>. QED
  BY <1>1, <1>4, HoldKept DEF HoldSteps

(* The hold moves to the watcher.                                          *)
LEMMA PendingUnhost == ASSUME UnhostInv, NEW i \in Ids, Pending(i) PROVE UnhostInv'
<1>. USE DEF Pending, world, history
<1>1. PICK t \in Attempt : /\ task' = [task EXCEPT ![i] = t] /\ t.pc = "watch" /\ t.base = task[i].base
  BY GotoTask DEF HoldSteps, UnhostInv
<1>b. task[i].base + 1 \in Nat
  BY AttemptFacts DEF Attempt
<1>2. /\ rows' \in Seq(AuditRow) /\ Len(rows') = Len(rows)
      /\ \A j \in Ids : j # i => rows'[j] = rows[j]
      /\ rows'[i].before = rows[i].before /\ rows'[i].step = rows[i].step
      /\ rows'[i].cleanup = rows[i].cleanup /\ rows'[i].status \in {rows[i].status, "in_progress"}
  BY <1>b, FinishRow DEF UnhostInv
<1>3. /\ AttemptOK(rows'[i], t, head.serial, cleanedAt, contracts')
      /\ rows'[i].status = "completed" => \E s \in goneAt : s >= rows'[i].before
  BY <1>1, <1>2, AttemptFacts DEF AttemptOK
<1>4. StepsTo(i, t)
  BY <1>1, <1>2, <1>3 DEF StepsTo
<1>. QED
  BY <1>1, <1>4, HoldKept DEF HoldSteps

(* leave_topology: the removal is for the serial the cleanup was at.       *)
LEMMA LeaveUnhost == ASSUME UnhostInv, NEW i \in Ids, LeaveTopology(i) PROVE UnhostInv'
<1>. USE DEF LeaveTopology, history
<1> DEFINE w == [serial |-> task[i].base + 1, cleanup |-> rows[i].cleanup]
<1>1. PICK t \in Attempt :
      /\ task' = [task EXCEPT ![i] = t] /\ t.base = task[i].base
      /\ t.pc \in {"poll", "unknown", "stop"}
      /\ t.pc = "stop" => writes' = writes
  <2>1. CASE Goto(i, "poll")     BY <2>1, GotoTask DEF HoldSteps, UnhostInv
  <2>2. CASE Goto(i, "unknown")  BY <2>2, GotoTask DEF HoldSteps, UnhostInv
  <2>3. CASE Goto(i, "stop") /\ writes' = writes
                                 BY <2>3, GotoTask DEF HoldSteps, UnhostInv
  <2>. QED
    BY <2>1, <2>2, <2>3
<1>2. AttemptOK(rows'[i], t, head.serial, cleanedAt, contracts')
  BY <1>1, AttemptFacts DEF AttemptOK
<1>3. StepsTo(i, t)
  BY <1>1, <1>2, AttemptFacts DEF StepsTo
<1>4. /\ task' \in Seq(Attempt) /\ Len(task') = Len(rows') /\ task'[i] = t
      /\ \A j \in Ids : j # i => task'[j] = task[j]
      /\ AttemptInv' /\ GoneInv'
  BY <1>3, AttemptStep
<1>5. Holder' = Holder /\ i \in Holder
  BY <1>1, <1>4, HolderKept DEF HoldSteps, UnhostInv
<1>6. writes' \subseteq writes \cup {w} /\ w \in Removal /\ w.serial = head.serial + 1
      /\ (w.cleanup => rows[i].cleanup)
  BY AttemptFacts DEF Removal, Attempt, AuditRow
<1>7. UnhostTypes'
  BY <1>4, <1>6 DEF UnhostInv, UnhostTypes
<1>8. HoldInv'
  BY <1>5 DEF UnhostInv, HoldInv
<1>9. WriteInv'
  <2>1. ASSUME writes' # {}, ~exposed
        PROVE  t.pc \in {"poll", "unknown"}
    BY <1>1, <2>1, WriteHolder DEF UnhostInv, HoldSteps
  <2>. QED
    BY <1>1, <1>4, <1>5, <1>6, <2>1 DEF UnhostInv, WriteInv
<1>10. CleanInv'
  <2>1. w.cleanup => cleanedAt >= w.serial - 1
    BY <1>6, AttemptFacts DEF AttemptOK, UnhostInv, UnhostTypes, Attempt, AuditRow
  <2>. QED
    BY <1>6, <2>1 DEF UnhostInv, CleanInv, CleanedBeforeLeaving
<1>. QED
  BY <1>4, <1>7, <1>8, <1>9, <1>10 DEF UnhostInv

(* The rows after the read of an attempt.                                  *)
LEMMA SettledRows ==
  ASSUME UnhostInv, NEW i \in Ids
  PROVE  /\ SettledBy(i) \in Seq(AuditRow) /\ Len(SettledBy(i)) = Len(rows)
         /\ \A j \in Ids \ {i} : SettledBy(i)[j] = Settled(rows[j])
         /\ SettledBy(i)[i].before = head.serial /\ SettledBy(i)[i].step = rows[i].step
         /\ SettledBy(i)[i].cleanup = rows[i].cleanup /\ SettledBy(i)[i].status = rows[i].status
<1> DEFINE r == [rows[i] EXCEPT !.before = head.serial]
<1>1. /\ r \in AuditRow /\ r.before = head.serial /\ r.step = rows[i].step
      /\ r.cleanup = rows[i].cleanup /\ r.status = rows[i].status
  BY AttemptFacts DEF AuditRow, UnhostInv, UnhostTypes
<1>2. \A j \in Ids : Settled(rows[j]) \in AuditRow
  BY AttemptFacts, SettledRow
<1>3. SettledBy(i) = [j \in Ids |-> IF j = i THEN r ELSE Settled(rows[j])]
  BY DEF SettledBy
<1>. HIDE DEF r
<1>4. SettledBy(i) \in [1 .. Len(rows) -> AuditRow]
  BY <1>1, <1>2, <1>3
<1>5. Len(rows) \in Nat
  BY DEF UnhostInv, UnhostTypes
<1>6. SettledBy(i) \in Seq(AuditRow) /\ Len(SettledBy(i)) = Len(rows)
  BY <1>4, <1>5, SeqOf
<1>. QED
  BY <1>1, <1>3, <1>6

(* The read that still lists the node: an attempt skips the cleanup only   *)
(* if the latest one with work was cleaned at this very serial.            *)
LEMMA ReadsHostedUnhost == ASSUME UnhostInv, NEW i \in Ids, ReadsHosted(i) PROVE UnhostInv'
<1>. USE DEF ReadsHosted, world, history
<1>0. /\ head.serial \in Nat /\ cleanedAt \in Nat /\ cleanedAt <= head.serial
      /\ rows[i].step = "preconditions" /\ rows[i].status # "completed"
  BY AttemptFacts DEF UnhostInv, UnhostTypes, CleanInv, AttemptOK
<1> DEFINE cleans == rows[i].cleanup /\ ~Resumes
<1> DEFINE goes == head.serial = task[i].base /\ head.leavable
<1>1. CASE rows' = SettledBy(i) /\ Goto(i, "stop")
  <2>1. PICK t \in Attempt : task' = [task EXCEPT ![i] = t] /\ t.pc = "stop" /\ t.base = task[i].base
    BY <1>1, GotoTask DEF HoldSteps, UnhostInv
  <2>2. AttemptOK(rows'[i], t, head.serial, cleanedAt, contracts') /\ rows'[i].status # "completed"
    BY <1>0, <1>1, <2>1, SettledRows DEF AttemptOK
  <2>3. StepsTo(i, t)
    BY <1>1, <2>1, <2>2, SettledRows DEF StepsTo
  <2>. QED
    BY <2>1, <2>3, HoldKept DEF HoldSteps
<1>2. CASE /\ goes
           /\ rows' = [SettledBy(i) EXCEPT ![i].step = IF cleans THEN "splice_cleanup" ELSE "topology"]
           /\ Goto(i, IF cleans THEN "scan" ELSE "leave")
  <2> DEFINE step == IF cleans THEN "splice_cleanup" ELSE "topology"
  <2> DEFINE q == SettledBy(i)
  <2> DEFINE r == [q[i] EXCEPT !.step = step]
  <2>0. q \in Seq(AuditRow) /\ Len(q) = Len(rows) /\ q[i] \in AuditRow
    BY SettledRows
  <2>1. /\ r \in AuditRow /\ r.before = head.serial /\ r.step = step
        /\ r.cleanup = rows[i].cleanup /\ r.status # "completed"
    BY <1>0, <2>0, SettledRows DEF AuditRow
  <2>2. rows' = [q EXCEPT ![i] = r]
    BY <1>2
  <2>3. /\ rows' \in Seq(AuditRow) /\ Len(rows') = Len(rows) /\ rows'[i] = r
        /\ \A j \in Ids : j # i => rows'[j] = Settled(rows[j])
    <3>. HIDE DEF q, r
    <3>1. /\ rows' \in Seq(AuditRow) /\ Len(rows') = Len(rows) /\ rows'[i] = r
          /\ \A j \in Ids : j # i => rows'[j] = q[j]
      BY <2>0, <2>1, <2>2, SetAt
    <3>. QED
      BY <3>1, SettledRows DEF q
  <2>4. ~cleans /\ rows[i].cleanup => cleanedAt >= head.serial
    <3>1. ASSUME Resumes PROVE cleanedAt >= head.serial
      <4>1. PICK j \in Ids :
              rows[j].cleanup /\ rows[j].step = "topology" /\ rows[j].before = head.serial
        BY <3>1 DEF Resumes
      <4>. QED
        BY <4>1, AttemptFacts DEF AttemptOK
    <3>. QED
      BY <3>1
  <2>5. PICK t \in Attempt :
        /\ task' = [task EXCEPT ![i] = t] /\ t.base = task[i].base
        /\ t.pc = IF cleans THEN "scan" ELSE "leave"
    <3>1. (IF cleans THEN "scan" ELSE "leave") \in HoldSteps
      BY DEF HoldSteps
    <3>. QED
      BY <1>2, <3>1, GotoTask DEF UnhostInv
  <2>. HIDE DEF r, q
  <2>6. AttemptOK(rows'[i], t, head.serial, cleanedAt, contracts') /\ rows'[i].status # "completed"
    <3>1. /\ rows'[i].before = head.serial /\ t.base = head.serial
          /\ rows'[i].cleanup = rows[i].cleanup /\ rows'[i].status # "completed"
      BY <1>2, <2>1, <2>3, <2>5
    <3>2. CASE cleans
      <4>1. rows'[i].step = "splice_cleanup" /\ t.pc = "scan"
        BY <2>1, <2>3, <2>5, <3>2
      <4>. QED
        BY ONLY <1>0, <3>1, <4>1 DEF AttemptOK
    <3>3. CASE ~cleans
      <4>1. rows'[i].step = "topology" /\ t.pc = "leave"
        BY <2>1, <2>3, <2>5, <3>3
      <4>2. rows'[i].cleanup => cleanedAt >= head.serial
        BY <2>4, <3>1, <3>3
      <4>. QED
        BY ONLY <1>0, <3>1, <4>1, <4>2 DEF AttemptOK
    <3>. QED
      BY <3>2, <3>3
  <2>7. StepsTo(i, t)
    BY <2>3, <2>5, <2>6 DEF StepsTo
  <2>. QED
    BY <2>5, <2>7, HoldKept DEF HoldSteps
<1>. QED
  BY <1>1, <1>2

(* A read that no longer lists the node: nothing waits to take effect.     *)
LEMMA CompletesUnhost == ASSUME UnhostInv, NEW i \in Ids, Completes(i) PROVE UnhostInv'
<1>. USE DEF Completes, world, history
<1> DEFINE q == IF task[i].pc = "read" THEN SettledBy(i) ELSE rows
<1>0. /\ q \in Seq(AuditRow) /\ Len(q) = Len(rows) /\ q[i] \in AuditRow
      /\ \A j \in Ids \ {i} : q[j] = rows[j] \/ q[j] = Settled(rows[j])
      /\ q[i].before <= head.serial /\ q[i].cleanup = rows[i].cleanup /\ q[i].step = rows[i].step
      /\ (task[i].pc # "read" => q[i].before = rows[i].before)
      /\ (task[i].pc = "read" => rows[i].step = "preconditions")
  <2>1. CASE task[i].pc = "read"
    BY <2>1, SettledRows, AttemptFacts DEF AttemptOK, UnhostInv, UnhostTypes
  <2>2. CASE task[i].pc # "read"
    BY <2>2, AttemptFacts DEF AttemptOK, UnhostInv, UnhostTypes
  <2>. QED
    BY <2>1, <2>2
<1>h. head.serial \in goneAt /\ head.serial \in Nat /\ cleanedAt \in Nat
  BY DEF UnhostInv, GoneInv, UnhostTypes
<1>q. rows' \in Completions(q, i)
  OBVIOUS
<1>. HIDE DEF q
<1>1. /\ rows' \in Seq(AuditRow) /\ Len(rows') = Len(rows)
      /\ \A j \in Ids : j # i => rows'[j] = q[j]
      /\ rows'[i].before = q[i].before /\ rows'[i].cleanup = q[i].cleanup
      /\ rows'[i].step \in {q[i].step, "done"}
  <2> DEFINE r1 == [q[i] EXCEPT !.step = "done"]
             r2 == [q[i] EXCEPT !.status = "completed", !.after = head.serial]
             r3 == [q[i] EXCEPT !.step = "done", !.status = "completed", !.after = head.serial]
  <2>1. \A r \in {r1, r2, r3} : /\ r \in AuditRow /\ r.before = q[i].before /\ r.cleanup = q[i].cleanup
                                /\ r.step \in {q[i].step, "done"}
    BY <1>0, <1>h DEF AuditRow
  <2>2. rows' = q \/ \E r \in {r1, r2, r3} : rows' = [q EXCEPT ![i] = r]
    <3>1. /\ [q EXCEPT ![i].step = "done"] = [q EXCEPT ![i] = r1]
          /\ [q EXCEPT ![i].status = "completed", ![i].after = head.serial] = [q EXCEPT ![i] = r2]
          /\ [q EXCEPT ![i].step = "done", ![i].status = "completed", ![i].after = head.serial]
                = [q EXCEPT ![i] = r3]
      BY <1>0
    <3>. QED
      BY <1>q, <3>1 DEF Completions
  <2>. HIDE DEF r1, r2, r3
  <2>3. CASE rows' = q
    BY <2>3, <1>0
  <2>4. ASSUME NEW r \in {r1, r2, r3}, rows' = [q EXCEPT ![i] = r]
        PROVE  <1>1!1 /\ <1>1!2 /\ <1>1!3 /\ <1>1!4
    BY <2>4, <2>1, <1>0, SetAt
  <2>. QED
    BY <2>2, <2>3, <2>4
<1>2. task' = [task EXCEPT ![i] = Ended]
  BY EndsTask
<1>3. AttemptOK(rows'[i], Ended, head.serial, cleanedAt, contracts')
  BY <1>0, <1>1, AttemptFacts DEF AttemptOK, Ended
<1>4. StepsTo(i, Ended)
  BY <1>0, <1>1, <1>2, <1>3, <1>h DEF StepsTo
<1>5. task[i].pc \in HoldSteps
  BY DEF HoldSteps
<1>6. writes = {} /\ exposed' \in BOOLEAN
  BY DEF UnhostInv, WriteInv, UnhostTypes
<1>. QED
  BY <1>4, <1>5, <1>6, HoldDropped

(* The cleanup is done: what is left was made after its scan.              *)
LEMMA CleanedUnhost == ASSUME UnhostInv, NEW i \in Ids, Cleaned(i) PROVE UnhostInv'
<1>. USE DEF Cleaned
<1>0. /\ head.serial \in Nat /\ cleanedAt \in Nat /\ rows[i].before \in Nat
      /\ cleanedAt <= rows[i].before /\ rows[i].before <= head.serial /\ rows[i].before = task[i].base
  BY AttemptFacts, RowFields DEF UnhostInv, UnhostTypes, AttemptOK
<1>1. PICK t \in Attempt : /\ task' = [task EXCEPT ![i] = t] /\ t.pc = "leave" /\ t.base = task[i].base
  BY GotoTask DEF HoldSteps, UnhostInv
<1> DEFINE r == [rows[i] EXCEPT !.step = "topology"]
<1>2. /\ r \in AuditRow /\ r.before = rows[i].before /\ r.step = "topology"
      /\ r.cleanup = rows[i].cleanup /\ r.status = rows[i].status
  BY AttemptFacts DEF AuditRow
<1>3. rows' = [rows EXCEPT ![i] = r]
  OBVIOUS
<1>. HIDE DEF r
<1>4. /\ rows' \in Seq(AuditRow) /\ Len(rows') = Len(rows) /\ rows'[i] = r
      /\ \A j \in Ids : j # i => rows'[j] = rows[j]
  <2>1. rows \in Seq(AuditRow)
    BY DEF UnhostInv, UnhostTypes
  <2>. QED
    BY ONLY <2>1, <1>2, <1>3, i \in Ids, SetAt
<1>5. /\ task' \in Seq(Attempt) /\ Len(task') = Len(task) /\ task'[i] = t
      /\ \A j \in Ids : j # i => task'[j] = task[j]
  BY <1>1, SetAt DEF UnhostInv, UnhostTypes
<1>6. Holder' = Holder /\ i \in Holder
  BY <1>1, <1>4, <1>5, HolderKept DEF HoldSteps, UnhostInv
<1>7. UnhostTypes'
  BY <1>0, <1>4, <1>5, AttemptFacts DEF UnhostInv, UnhostTypes, Attempt
<1>8. HoldInv'
  BY <1>6 DEF UnhostInv, HoldInv
<1>9. WriteInv'
  BY <1>6, WriteHolder DEF UnhostInv, WriteInv, Holder
<1>10. AttemptInv'
  <2>1. AttemptOK(r, t, head.serial, cleanedAt', contracts)
    BY <1>0, <1>1, <1>2, AttemptFacts DEF AttemptOK
  <2>2. ASSUME NEW j \in Ids, j # i
        PROVE  AttemptOK(rows[j], task[j], head.serial, cleanedAt', contracts)
    <3>1. task[j].pc \notin HoldSteps
      BY <1>6, <2>2 DEF UnhostInv, HoldInv, Holder
    <3>. QED
      BY <1>0, <2>2, <3>1, AttemptFacts, RowFields DEF AttemptOK, HoldSteps
  <2>. QED
    BY <1>4, <1>5, <2>1, <2>2 DEF AttemptInv
<1>11. CleanInv'
  <2>1. contracts \subseteq missed'
    BY AttemptFacts DEF AttemptOK
  <2>2. ASSUME NEW w \in writes, w.cleanup PROVE cleanedAt' >= w.serial - 1
    <3>1. w.serial \in Nat /\ cleanedAt >= w.serial - 1
      BY <2>2 DEF UnhostInv, CleanInv, CleanedBeforeLeaving, UnhostTypes, Removal
    <3>. QED
      BY <1>0, <3>1
  <2>. QED
    BY <1>0, <2>1, <2>2 DEF CleanInv, CleanedBeforeLeaving
<1>12. GoneInv'
  BY <1>2, <1>4 DEF UnhostInv, GoneInv, CompletedMeansGone
<1>. QED
  BY <1>7, <1>8, <1>9, <1>10, <1>11, <1>12 DEF UnhostInv

(* Every step keeps the invariant.                                         *)
LEMMA UnhostKept == UnhostInv /\ [UnhostNext]_unhostVars => UnhostInv'
<1>. SUFFICES ASSUME UnhostInv, [UnhostNext]_unhostVars PROVE UnhostInv'
  OBVIOUS
<1>1. ASSUME NEW w \in writes, TakesEffect(w) PROVE UnhostInv'
  BY <1>1, MovesUnhost DEF TakesEffect
<1>2. CASE OtherWrite
  BY <1>2, MovesUnhost DEF OtherWrite
<1>3. CASE Relay
  BY <1>3, RelayUnhost
<1>4. CASE Crash
  BY <1>4, CrashUnhost
<1>5. ASSUME NEW c \in Contracts, MakeContract(c) \/ Expires(c) PROVE UnhostInv'
  BY <1>5, MakeUnhost, ExpiresUnhost
<1>6. ASSUME NEW cleanup \in BOOLEAN, NEW base \in 1 .. MaxChanges, Insert(cleanup, base)
      PROVE  UnhostInv'
  BY <1>6, InsertUnhost
<1>7. ASSUME NEW i \in Ids, TaskStep(i) PROVE UnhostInv'
  BY <1>7, RefusedUnhost, AdmittedUnhost, FailsUnhost, ReadsHostedUnhost, ScanUnhost, ArchiveUnhost,
     CleanedUnhost, LeaveUnhost, PendingUnhost, CompletesUnhost, WatchGivesUpUnhost DEF TaskStep
<1>8. CASE UNCHANGED unhostVars
  <2>. USE <1>8 DEF unhostVars, history, UnhostInv
  <2>1. UnhostTypes' /\ HoldInv' /\ WriteInv'
    BY DEF UnhostTypes, HoldInv, WriteInv, Holder
  <2>2. AttemptInv' /\ CleanInv' /\ GoneInv'
    BY DEF AttemptInv, CleanInv, GoneInv, CleanedBeforeLeaving, CompletedMeansGone
  <2>. QED
    BY <2>1, <2>2
<1>. QED
  BY <1>1, <1>2, <1>3, <1>4, <1>5, <1>6, <1>7, <1>8 DEF UnhostNext

(* The invariant holds.                                                    *)
LEMMA UnhostInductive == UnhostSpec => []UnhostInv
  BY InitUnhost, UnhostKept, PTL DEF UnhostSpec

(* For any contracts and any number of attempts, crashes and writes: while *)
(* a removal may still take effect the party is held and no copy of it     *)
(* runs, unless the watcher gave up or the process stopped (unhost, whose  *)
(* hold moves to watch_departure).                                         *)
THEOREM HeldSafety == UnhostSpec => []HeldUntilGone
<1>1. UnhostInv => HeldUntilGone
  BY DEF UnhostInv, HoldInv, WriteInv, HeldUntilGone
<1>. QED
  BY <1>1, UnhostInductive, PTL

(* The node asks to leave with a cleanup only after one has archived every *)
(* contract it found, at the serial it leaves from, also when the attempt  *)
(* resumes an earlier one (resumes, splice_cleanup, leave_topology).       *)
THEOREM CleanupSafety == UnhostSpec => []CleanedBeforeLeaving
<1>1. UnhostInv => CleanedBeforeLeaving
  BY DEF UnhostInv, CleanInv
<1>. QED
  BY <1>1, UnhostInductive, PTL

(* A row says completed only if the mapping dropped the node at or after   *)
(* the serial its attempt read (finish, close_open_attempts,               *)
(* watch_departure).                                                       *)
THEOREM CompletionSafety == UnhostSpec => []CompletedMeansGone
<1>1. UnhostInv => CompletedMeansGone
  BY DEF UnhostInv, GoneInv
<1>. QED
  BY <1>1, UnhostInductive, PTL
=============================================================================
