---------------------- MODULE DecentralizedParty_proofs ----------------------
(* Proofs about a decentralized party.  On the ledger, for every committee,*)
(* threshold, timeout and set of self-actions: the governance contracts    *)
(* keep their invariants and nothing is executed without a quorum.  On the *)
(* synchronizer, for every mesh, party, set of runs and coordinators: no   *)
(* run undoes what another landed, no head moves before a peer accepted    *)
(* the change, the party's keys remain those of its hosts, and no mapping  *)
(* its peers accepted puts the threshold out of reach.                     *)
EXTENDS GovernanceRules, PartyTopology, FiniteSetTheorems, TLAPS

----------------------------------------------------------------------------
(* The governance contracts.                                               *)

(* The inductive invariant: the conjunction of the four is inductive.      *)
IInv == TypeOK /\ RulesWellFormed /\ ProposersNotMembers /\ ExecutedOnce

(* The initial rules contract and the empty ledger satisfy IInv.           *)
LEMMA InitIInv == Init => IInv
  BY InitAssumption, BoundsAssumption
     DEF Init, IInv, TypeOK, RulesWellFormed, Ensure, ProposersNotMembers,
         ExecutedOnce, Rules, ProposalState

(* Whatever self-action is dispatched, the replaced rules are well formed  *)
(* and keep members and additional proposers apart; an executed proposal   *)
(* is left alone.                                                          *)
LEMMA DispatchIInv ==
  ASSUME IInv, NEW a \in GovernanceSelfAction, Dispatch(a)
  PROVE  /\ rules' \in Rules /\ Ensure(rules')
         /\ rules'.members \cap rules'.additionalProposers = {}
         /\ proposals' \in [Proposal -> ProposalState]
         /\ \A p \in Proposal : proposals[p].status = "executed" =>
                                   proposals'[p] = proposals[p]
<1> DEFINE Fine == /\ rules' \in Rules /\ Ensure(rules')
                   /\ rules'.members \cap rules'.additionalProposers = {}
<1>a. /\ rules \in Rules /\ Ensure(rules)
      /\ rules.members \cap rules.additionalProposers = {}
      /\ proposals \in [Proposal -> ProposalState]
  BY DEF IInv, TypeOK, RulesWellFormed, ProposersNotMembers
<1>1. ASSUME NEW m \in Party, NEW t \in Int, AddMemberAndSetThreshold(m, t)
      PROVE  Fine
  BY <1>1, <1>a DEF AddMemberAndSetThreshold, ReplaceRules, Rules
<1>2. ASSUME NEW m \in Party, NEW t \in Int, RemoveMemberAndSetThreshold(m, t)
      PROVE  Fine
  BY <1>2, <1>a DEF RemoveMemberAndSetThreshold, ReplaceRules, Rules
<1>3. ASSUME NEW t \in Int, SetThreshold(t) PROVE Fine
  BY <1>3, <1>a DEF SetThreshold, ReplaceRules, Rules
<1>4. ASSUME NEW t \in Int, SetActionConfirmationTimeout(t) PROVE Fine
  BY <1>4, <1>a DEF SetActionConfirmationTimeout, ReplaceRules, Rules
<1>5. ASSUME NEW p \in Party, AddAdditionalProposer(p) PROVE Fine
  BY <1>5, <1>a DEF AddAdditionalProposer, ReplaceRules, Rules
<1>6. ASSUME NEW p \in Party, RemoveAdditionalProposer(p) PROVE Fine
  BY <1>6, <1>a DEF RemoveAdditionalProposer, ReplaceRules, Rules
<1>7. ASSUME NEW o \in SUBSET Party, SetDisclosureObservers(o) PROVE Fine
  BY <1>7, <1>a DEF SetDisclosureObservers, ReplaceRules, Rules
<1>8. CASE a.type # "CancelAction"
  <2>1. Fine
    BY <1>1, <1>2, <1>3, <1>4, <1>5, <1>6, <1>7, <1>8
       DEF Dispatch, GovernanceSelfAction
  <2>2. UNCHANGED proposals
    BY <1>8 DEF Dispatch
  <2> QED
    BY <2>1, <2>2, <1>a
<1>9. CASE a.type = "CancelAction"
  <2>1. CancelAction(a.proposal) /\ UNCHANGED rules /\ a.proposal \in Proposal
    BY <1>9 DEF Dispatch, GovernanceSelfAction
  <2> QED
    BY <2>1, <1>a DEF CancelAction, ProposalState
<1> QED
  BY <1>8, <1>9

(* Every transaction preserves IInv.                                       *)
LEMMA NextIInv == IInv /\ [Next]_vars => IInv'
<1> SUFFICES ASSUME IInv, [Next]_vars PROVE IInv'
  OBVIOUS
<1>0. /\ TypeOK
      /\ RulesWellFormed /\ ProposersNotMembers /\ ExecutedOnce
  BY DEF IInv
<1>k. ASSUME UNCHANGED rules PROVE RulesWellFormed' /\ ProposersNotMembers'
  BY <1>0, <1>k DEF RulesWellFormed, ProposersNotMembers, Ensure
<1>e. ASSUME UNCHANGED <<proposals, results>> PROVE ExecutedOnce'
  BY <1>0, <1>e DEF ExecutedOnce
<1>1. ASSUME NEW q \in Party, NEW a \in SelfActions,
             ConfirmGovernanceAction(q, a)
      PROVE  IInv'
  <2>1. TypeOK'
    <3>1. PICK cid \in Cid : selfConfs' = selfConfs \cup
             {[cid |-> cid, confirmer |-> q, action |-> a,
               expiresAt |-> now + rules.timeout]}
      BY <1>1 DEF ConfirmGovernanceAction
    <3>2. now + rules.timeout \in Int /\ a \in GovernanceSelfAction
      BY <1>0, SelfActionsAssumption DEF TypeOK, Rules
    <3>3. selfConfs' \subseteq SelfConfirmation
      BY <1>0, <3>1, <3>2 DEF TypeOK, SelfConfirmation
    <3> QED
      BY <1>0, <1>1, <3>3 DEF TypeOK, ConfirmGovernanceAction
  <2> QED
    BY <2>1, <1>1, <1>k, <1>e DEF ConfirmGovernanceAction, IInv
<1>2. ASSUME NEW q \in Party, NEW a \in SelfActions,
             NEW S \in SUBSET selfConfs, ExecuteGovernanceAction(q, a, S)
      PROVE  IInv'
  <2>1. a \in GovernanceSelfAction /\ Dispatch(a)
    BY <1>2, SelfActionsAssumption DEF ExecuteGovernanceAction
  <2>2. TypeOK' /\ RulesWellFormed' /\ ProposersNotMembers'
    BY <2>1, <1>0, <1>2, DispatchIInv
       DEF ExecuteGovernanceAction, TypeOK, RulesWellFormed, Ensure,
           ProposersNotMembers
  <2>3. ExecutedOnce'
    BY <2>1, <1>0, <1>2, DispatchIInv
       DEF ExecuteGovernanceAction, TypeOK, ExecutedOnce, ExecutionResult
  <2> QED
    BY <2>2, <2>3 DEF IInv
<1>3. ASSUME NEW q \in Party, NEW c \in selfConfs,
             ExpireGovernanceSelfConfirmation(q, c)
      PROVE  IInv'
  BY <1>3, <1>0, <1>k, <1>e
     DEF ExpireGovernanceSelfConfirmation, IInv, TypeOK
<1>4. ASSUME NEW c \in selfConfs, CancelSelfConfirmation(c) PROVE IInv'
  BY <1>4, <1>0, <1>k, <1>e DEF CancelSelfConfirmation, IInv, TypeOK
<1>5. ASSUME NEW p \in Proposal, Propose(p) \/ ProposerCancel(p) PROVE IInv'
  <2>1. TypeOK'
    BY <1>5, <1>0 DEF Propose, ProposerCancel, TypeOK, ProposalState
  <2>2. ExecutedOnce'
    BY <1>5, <1>0
       DEF Propose, ProposerCancel, ExecutedOnce, TypeOK, ProposalState,
           ExecutionResult
  <2> QED
    BY <2>1, <2>2, <1>5, <1>k DEF Propose, ProposerCancel, IInv
<1>6. ASSUME NEW q \in Party, NEW p \in Proposal, ConfirmAction(q, p)
      PROVE  IInv'
  <2>1. PICK cid \in Cid : confs' = confs \cup
             {[cid |-> cid, confirmer |-> q, proposal |-> p,
               expiresAt |-> now + rules.timeout]}
    BY <1>6 DEF ConfirmAction
  <2>2. now + rules.timeout \in Int
    BY <1>0 DEF TypeOK, Rules
  <2>3. TypeOK'
    BY <1>0, <1>6, <2>1, <2>2 DEF TypeOK, ConfirmAction, Confirmation
  <2> QED
    BY <2>3, <1>6, <1>k, <1>e DEF ConfirmAction, IInv
<1>7. ASSUME NEW q \in Party, NEW p \in Proposal, NEW S \in SUBSET confs,
             ExecuteConfirmedAction(q, p, S)
      PROVE  IInv'
  <2> DEFINE res == [proposal |-> p, executor |-> q,
                     confirmers |-> {c.confirmer : c \in S},
                     executedAt |-> now]
  <2>1. {c.confirmer : c \in S} \in SUBSET Party
    BY <1>0 DEF TypeOK, Confirmation
  <2>2. res \in ExecutionResult
    BY <2>1, <1>0 DEF TypeOK, ExecutionResult
  <2>3. TypeOK'
    BY <2>2, <1>0, <1>7
       DEF TypeOK, ExecuteConfirmedAction, ExecuteProposal, ProposalState
  <2>4. ExecutedOnce'
    <3>1. results' = results \cup {res}
      BY <1>7 DEF ExecuteConfirmedAction
    <3>2. /\ proposals[p].status = "live" /\ proposals[p].here
          /\ proposals' = [proposals EXCEPT ![p].status = "executed"]
      BY <1>7 DEF ExecuteConfirmedAction, ExecuteProposal
    <3>3. /\ proposals'[p].status = "executed" /\ proposals'[p].here
          /\ \A o \in Proposal \ {p} : proposals'[o] = proposals[o]
      BY <3>2, <1>0 DEF TypeOK, ProposalState
    <3>4. \A r \in results : r.proposal \in Proposal \ {p}
      BY <3>2, <1>0 DEF TypeOK, ExecutedOnce, ExecutionResult
    <3>5. res.proposal = p
      OBVIOUS
    <3> HIDE DEF res
    <3> QED
      BY <3>1, <3>3, <3>4, <3>5, <1>0 DEF ExecutedOnce
  <2> QED
    BY <2>3, <2>4, <1>7, <1>k DEF ExecuteConfirmedAction, IInv
<1>8. ASSUME NEW q \in Party, NEW c \in confs, ExpireConfirmation(q, c)
      PROVE  IInv'
  BY <1>8, <1>0, <1>k, <1>e DEF ExpireConfirmation, IInv, TypeOK
<1>9. ASSUME NEW c \in confs, CancelConfirmation(c) PROVE IInv'
  BY <1>9, <1>0, <1>k, <1>e DEF CancelConfirmation, IInv, TypeOK
<1>10. CASE Tick
  BY <1>10, <1>0, <1>k, <1>e DEF Tick, IInv, TypeOK
<1>11. CASE UNCHANGED vars
  BY <1>11, <1>0, <1>k, <1>e DEF vars, IInv, TypeOK
<1> QED
  BY <1>1, <1>2, <1>3, <1>4, <1>5, <1>6, <1>7, <1>8, <1>9, <1>10, <1>11
     DEF Next

(* The governance contracts keep their types, their rules stay well formed *)
(* (never a threshold the members cannot reach), no party is member and    *)
(* additional proposer at once, and no proposal is executed twice or after *)
(* its cancellation.                                                       *)
THEOREM GovernanceSafety ==
  Spec => [](TypeOK /\ RulesWellFormed /\ ProposersNotMembers /\ ExecutedOnce)
<1>1. Init => IInv
  BY InitIInv
<1>2. IInv /\ [Next]_vars => IInv'
  BY NextIInv
<1> QED
  BY <1>1, <1>2, PTL DEF Spec, IInv

(* Whatever self-actions the members confirm, in whatever order they run,  *)
(* no party ever both proposes and votes (GovernanceRules's checks of each *)
(* change of members and proposers).                                       *)
THEOREM SeparationSafety == Spec => []ProposersNotMembers
  BY GovernanceSafety, PTL

----------------------------------------------------------------------------
(* If the confirmations in V come from distinct parties then they have as  *)
(* many confirmers as there are confirmations.                             *)
LEMMA ConfirmersOfUnique ==
  ASSUME NEW V, UniqueConfirmers(V),
         {c.confirmer : c \in V} \subseteq Party
  PROVE  Cardinality({c.confirmer : c \in V}) = Cardinality(V)
<1> DEFINE C == {c.confirmer : c \in V}
           f == [c \in V |-> c.confirmer]
<1>1. f \in Injection(V, C)
  BY DEF Injection, IsInjective, UniqueConfirmers
<1>2. f \in Surjection(V, C)
  BY DEF Surjection
<1>3. IsFiniteSet(C)
  BY PartyAssumption, FS_Subset
<1> HIDE DEF f, C
<1>4. Cardinality(V) = Cardinality(C)
  BY <1>1, <1>2, <1>3, FS_Injection
<1> QED
  BY <1>4 DEF C

(* The current rules are replaced only by a transaction that consumes a    *)
(* quorum of the current members' valid confirmations of one self-action.  *)
THEOREM QuorumForRulesChange == Spec => RulesChangeNeedsQuorum
<1> DEFINE Backed ==
      rules' # rules => \E a \in SelfActions :
          Quorum({c \in selfConfs \ selfConfs' : c.action = a})
<1>1. IInv /\ [Next]_vars => [Backed]_vars
  <2> SUFFICES ASSUME IInv, Next, rules' # rules
               PROVE  \E a \in SelfActions :
                         Quorum({c \in selfConfs \ selfConfs' : c.action = a})
    OBVIOUS
  <2>1. PICK q \in Party, a \in SelfActions, S \in SUBSET selfConfs :
            ExecuteGovernanceAction(q, a, S)
    BY DEF Next, ConfirmGovernanceAction, ExpireGovernanceSelfConfirmation,
           CancelSelfConfirmation, Propose, ProposerCancel, ConfirmAction,
           ExecuteConfirmedAction, ExpireConfirmation, CancelConfirmation, Tick
  <2>2. {c \in selfConfs \ selfConfs' : c.action = a} = S
    BY <2>1 DEF ExecuteGovernanceAction
  <2>3. {c \in S : c.confirmer \in rules.members /\ now < c.expiresAt}
            = MemberVotes(S)
    BY <2>1 DEF ExecuteGovernanceAction, MemberVotes, Consumable
  <2>4. Cardinality({c.confirmer : c \in MemberVotes(S)})
            = Cardinality(MemberVotes(S))
    <3>1. {c.confirmer : c \in MemberVotes(S)} \subseteq Party
      BY DEF IInv, TypeOK, Rules, MemberVotes
    <3> QED
      BY <3>1, <2>1, ConfirmersOfUnique DEF ExecuteGovernanceAction
  <2>5. Quorum(S)
    BY <2>1, <2>3, <2>4 DEF Quorum, ExecuteGovernanceAction
  <2> QED
    BY <2>2, <2>5
<1>2. Spec => []IInv
  BY InitIInv, NextIInv, PTL DEF Spec
<1> QED
  BY <1>1, <1>2, PTL DEF Spec, RulesChangeNeedsQuorum

(* An execution result is created only by a transaction that consumes a    *)
(* quorum of the current members' valid confirmations of its proposal.     *)
THEOREM QuorumForExecution == Spec => ExecutionNeedsQuorum
<1> DEFINE Backed ==
      \A r \in results' \ results :
          /\ Quorum({c \in confs \ confs' : c.proposal = r.proposal})
          /\ r.confirmers \subseteq rules.members
<1>1. IInv /\ [Next]_vars => [Backed]_vars
  <2> SUFFICES ASSUME IInv, Next, NEW r \in results' \ results
               PROVE  /\ Quorum({c \in confs \ confs' : c.proposal = r.proposal})
                      /\ r.confirmers \subseteq rules.members
    OBVIOUS
  <2>1. PICK q \in Party, p \in Proposal, S \in SUBSET confs :
            ExecuteConfirmedAction(q, p, S)
    BY DEF Next, ConfirmGovernanceAction, ExpireGovernanceSelfConfirmation,
           CancelSelfConfirmation, Propose, ProposerCancel, ConfirmAction,
           ExecuteGovernanceAction, ExpireConfirmation, CancelConfirmation, Tick
  <2>2. r.proposal = p /\ r.confirmers = {c.confirmer : c \in S}
    BY <2>1 DEF ExecuteConfirmedAction
  <2>3. {c \in confs \ confs' : c.proposal = p} = S
    BY <2>1 DEF ExecuteConfirmedAction
  <2>4. {c \in S : c.confirmer \in rules.members /\ now < c.expiresAt} = S
    BY <2>1 DEF ExecuteConfirmedAction, Consumable
  <2>5. {c.confirmer : c \in S} \subseteq rules.members
    BY <2>1 DEF ExecuteConfirmedAction
  <2>6. Cardinality({c.confirmer : c \in S}) = Cardinality(S)
    <3>1. {c.confirmer : c \in S} \subseteq Party
      BY <2>5 DEF IInv, TypeOK, Rules
    <3> QED
      BY <3>1, <2>1, ConfirmersOfUnique DEF ExecuteConfirmedAction
  <2>7. Quorum(S)
    BY <2>1, <2>4, <2>6 DEF Quorum, ExecuteConfirmedAction
  <2> QED
    BY <2>2, <2>3, <2>5, <2>7
<1>2. Spec => []IInv
  BY InitIInv, NextIInv, PTL DEF Spec
<1> QED
  BY <1>1, <1>2, PTL DEF Spec, ExecutionNeedsQuorum

----------------------------------------------------------------------------
(* The topology: what a head, a cached party and a run are.                *)
DnsHead == [owners : SUBSET Nodes, threshold : Nat, serial : Nat]
P2pHead ==
  [hosts : SUBSET Nodes, marked : SUBSET Nodes, threshold : Nat, keys : SUBSET Nodes,
   keyThreshold : Nat, serial : Nat]
CachedParty == [hosts : SUBSET Nodes, threshold : Nat, confirmation : Nat]
PartyRun ==
  [kind : {"none", "Kick", "AddParty", "ChangeThreshold"}, coord : Nodes \cup {"none"},
   target : Nodes \cup {"none"}, thr : Nat, conf : Nat, members : SUBSET Nodes, quorum : Nat,
   rehost : BOOLEAN, pc : Steps \cup {"idle", "failed", "over"}, at : Steps \cup {"idle"},
   readDns : DnsHead, readP2p : P2pHead, dnsTx : DnsHead, p2pTx : P2pHead,
   sigs : SUBSET Nodes, answered : SUBSET Nodes, retries : Nat]

PartyTypes ==
  /\ dns \in DnsHead /\ dns.serial >= 1 /\ p2p \in P2pHead /\ p2p.serial >= 1
  /\ cache \in [Coordinators -> CachedParty] /\ run \in [Runs -> PartyRun]

(* The steps before its peers are asked and those at which a run holds     *)
(* proposals, and the step a run is at or failed at.                       *)
Early == {"export", "create", "build", "authorize_dns", "authorize_p2p"}
Proposed == {"authorize_dns", "authorize_p2p", "sign", "dns", "confirm_dns", "p2p", "confirm_p2p"}
Submitted == {"dns", "confirm_dns", "p2p", "confirm_p2p"}
Clearing == {"author", "clear", "confirm_clear"}
Stage(x) == IF x.pc = "failed" THEN x.at ELSE x.pc

(* A head a run has read is older than the head in force or is that head,  *)
(* and its proposals are pinned to what it read, but for a clear.          *)
Pinned(x) ==
  /\ x.readDns.serial <= dns.serial /\ (x.readDns.serial = dns.serial => x.readDns = dns)
  /\ x.readP2p.serial <= p2p.serial /\ (x.readP2p.serial = p2p.serial => x.readP2p = p2p)
  /\ Stage(x) \in Proposed => x.dnsTx.serial \in {x.readDns.serial, x.readDns.serial + 1}
  /\ Stage(x) \in Proposed => x.p2pTx.serial = x.readP2p.serial + 1

(* A peer has answered before anything is submitted; what the coordinator  *)
(* publishes before that falls short of the threshold it read, or of the   *)
(* signature of the new member.                                            *)
Consented(x) ==
  /\ x.pc \notin {"idle", "over"} =>
       /\ x.quorum >= 1 /\ x.coord \in Nodes
       /\ x.kind = "AddParty" => x.target \in Nodes \ {x.coord}
       /\ x.kind # "none"
  /\ x.pc \in Submitted \/ Stage(x) \in Clearing \ {"author"} => x.answered # {}
  /\ x.pc \in {"authorize_dns", "authorize_p2p"} => x.sigs = {x.coord}
  /\ x.pc = "authorize_dns" => x.readDns.threshold >= 2
  /\ x.pc = "authorize_p2p" =>
       \/ x.readDns.threshold >= 2
       \/ x.kind = "AddParty" /\ x.target \in x.p2pTx.hosts \ x.readP2p.hosts

(* A proposal gives every host of the party its key; so does one that      *)
(* clears the marker of a new member, on whatever head it lands.           *)
Keyed(x) ==
  Stage(x) \in Proposed \cup Clearing => x.p2pTx.keys = x.p2pTx.hosts /\ x.p2pTx.hosts # {}

(* Those who sign a proposal are its hosts, once a peer has checked it,    *)
(* and no host gets a marker but the new member.                           *)
Hosted(x) ==
  /\ x.pc \notin {"idle", "over"} => x.coord \in x.members
  /\ Stage(x) \in Early => x.answered = {}
  /\ Stage(x) \in Proposed => x.sigs \subseteq x.members
  /\ Stage(x) \in Proposed /\ x.answered # {} =>
       /\ x.p2pTx.hosts = x.members
       /\ x.p2pTx.marked = IF x.kind = "AddParty" THEN {x.target} ELSE {}
  /\ Stage(x) \in Proposed /\ x.kind = "AddParty" =>
       x.target \notin x.readP2p.hosts /\ x.p2pTx.hosts = x.readP2p.hosts \cup {x.target}
  /\ Stage(x) \in Clearing =>
       /\ x.p2pTx.marked \subseteq x.readP2p.marked /\ x.p2pTx.hosts = x.readP2p.hosts
       /\ x.target \in Nodes

RunFine(x) == Pinned(x) /\ Consented(x) /\ Keyed(x) /\ Hosted(x)
PartyInv ==
  /\ PartyTypes /\ p2p.hosts # {} /\ KeysFollowHosts /\ (p2p.marked # {} => p2p.keys # {})
  /\ \A r \in Runs : RunFine(run[r])

(* A head is replaced by the proposal of a run that was built on it, which *)
(* a peer has accepted and which keeps the quorum in reach, or by a clear  *)
(* that Canton numbered after the head had moved.                          *)
Lands ==
  /\ dns' # dns => \E r \in Runs :
       run'[r].dnsTx = dns' /\ run'[r].readDns = dns /\ run'[r].answered # {}
  /\ p2p' # p2p => \E r \in Runs :
       /\ run'[r].p2pTx = p2p' /\ (run'[r].readP2p = p2p \/ Renumbered(run'[r]))
       /\ run'[r].answered # {} \/ dns.threshold < run[r].readDns.threshold
  /\ /\ p2p' # p2p /\ ~solo' /\ ~\E r \in Runs : Renumbered(run'[r]) /\ run'[r].p2pTx = p2p'
     /\ dns.threshold <= Cardinality(dns.owners \cap Active(p2p))
     => dns.threshold <= Cardinality(dns.owners \cap Active(p2p'))

----------------------------------------------------------------------------
(* How a step of one run affects what is known of all.                     *)
LEMMA SetRun ==
  ASSUME PartyTypes, NEW r \in Runs, NEW y \in PartyRun, Set(r, y)
  PROVE  /\ run' \in [Runs -> PartyRun] /\ run'[r] = y
         /\ \A s \in Runs : s # r => run'[s] = run[s]
  BY DEF PartyTypes, Set

(* The heads stay as they are.                                             *)
LEMMA KeepParty ==
  ASSUME PartyInv, NEW r \in Runs, NEW y \in PartyRun, Set(r, y), RunFine(y),
         UNCHANGED <<dns, p2p>>, cache' \in [Coordinators -> CachedParty], KeysFollowHosts'
  PROVE  PartyInv'
<1>1. /\ run' \in [Runs -> PartyRun] /\ run'[r] = y
      /\ \A s \in Runs : s # r => run'[s] = run[s]
  BY SetRun DEF PartyInv
<1>2. ASSUME NEW s \in Runs PROVE RunFine(run[s])'
  <2>1. RunFine(run'[s])
    BY <1>1 DEF PartyInv
  <2> QED BY <2>1 DEF RunFine, Pinned, Consented, Keyed, Hosted, Stage, Proposed, Submitted,
                      Clearing, Early
<1>3. PartyTypes'
  BY <1>1 DEF PartyInv, PartyTypes
<1> QED BY <1>2, <1>3 DEF PartyInv

(* A head moves on by one.                                                 *)
LEMMA MoveParty ==
  ASSUME PartyInv, NEW r \in Runs, NEW y \in PartyRun, Set(r, y), RunFine(y), UNCHANGED cache,
         dns' \in DnsHead, p2p' \in P2pHead, p2p'.hosts # {}, KeysFollowHosts',
         p2p'.marked # {} => p2p'.keys # {},
         dns' = dns \/ dns'.serial = dns.serial + 1,
         p2p' = p2p \/ p2p'.serial = p2p.serial + 1
  PROVE  PartyInv'
<1>1. /\ run' \in [Runs -> PartyRun] /\ run'[r] = y
      /\ \A s \in Runs : s # r => run'[s] = run[s]
  BY SetRun DEF PartyInv
<1>2. ASSUME NEW s \in Runs PROVE RunFine(run[s])'
  <2> DEFINE x == run'[s]
  <2>1. RunFine(x) /\ x \in PartyRun
    BY <1>1 DEF PartyInv
  <2>2. /\ x.readDns.serial \in Nat /\ x.readP2p.serial \in Nat
        /\ dns.serial \in Nat /\ p2p.serial \in Nat
    BY <2>1 DEF PartyRun, DnsHead, P2pHead, PartyInv, PartyTypes
  <2>3. /\ x.readDns.serial <= dns.serial /\ (x.readDns.serial = dns.serial => x.readDns = dns)
        /\ x.readP2p.serial <= p2p.serial /\ (x.readP2p.serial = p2p.serial => x.readP2p = p2p)
    BY <2>1 DEF RunFine, Pinned
  <2>4. /\ x.readDns.serial <= dns'.serial /\ (x.readDns.serial = dns'.serial => x.readDns = dns')
        /\ x.readP2p.serial <= p2p'.serial /\ (x.readP2p.serial = p2p'.serial => x.readP2p = p2p')
    BY <2>2, <2>3
  <2> HIDE DEF x
  <2>5. Pinned(run[s])'
    BY <2>1, <2>4 DEF RunFine, Pinned, Stage, Proposed, Clearing, x
  <2>6. Consented(run[s])' /\ Keyed(run[s])' /\ Hosted(run[s])'
    BY <2>1 DEF RunFine, Consented, Keyed, Hosted, Stage, Proposed, Submitted, Clearing, Early, x
  <2> QED BY <2>5, <2>6 DEF RunFine
<1>3. PartyTypes'
  <2>1. dns'.serial >= 1 /\ p2p'.serial >= 1
    BY DEF PartyInv, PartyTypes, DnsHead, P2pHead
  <2> QED BY <1>1, <2>1 DEF PartyInv, PartyTypes
<1> QED BY <1>2, <1>3 DEF PartyInv

(* What a run is before it starts.                                         *)
LEMMA NoRunFacts ==
  /\ NoRun \in PartyRun /\ NoRun.pc = "idle" /\ NoRun.readDns = NoDns /\ NoRun.readP2p = NoP2p
  /\ NoRun.answered = {}
  /\ NoDns \in DnsHead /\ NoP2p \in P2pHead /\ NoDns.serial = 0 /\ NoP2p.serial = 0
<1>1. NoDns \in DnsHead /\ NoP2p \in P2pHead /\ NoDns.serial = 0 /\ NoP2p.serial = 0
  BY DEF NoDns, NoP2p, DnsHead, P2pHead
<1>2. /\ NoRun.pc = "idle" /\ NoRun.readDns = NoDns /\ NoRun.readP2p = NoP2p
      /\ NoRun.answered = {}
  BY DEF NoRun
<1>3. NoRun \in PartyRun
  BY <1>1 DEF NoRun, PartyRun
<1> QED BY <1>1, <1>2, <1>3
(* A run that is over holds nothing.                                       *)
LEMMA OverFine == ASSUME PartyTypes PROVE Over \in PartyRun /\ RunFine(Over)
<1> DEFINE x == NoRun  y == [x EXCEPT !.pc = "over"]
<1>1. x \in PartyRun /\ "over" \in Steps \cup {"idle", "failed", "over"}
  BY NoRunFacts
<1>2. y \in PartyRun /\ y.pc = "over" /\ y.readDns = x.readDns /\ y.readP2p = x.readP2p
  <2> HIDE DEF x
  <2> QED BY <1>1, Zenon DEF PartyRun
<1>3. Over = y
  BY DEF Over
<1> HIDE DEF y
<1>4. y.readDns.serial = 0 /\ y.readP2p.serial = 0 /\ dns.serial \in Nat /\ p2p.serial \in Nat
  BY <1>2, NoRunFacts DEF PartyTypes, DnsHead, P2pHead
<1>5. Pinned(y)
  BY <1>2, <1>4 DEF Pinned, Stage, Proposed, Clearing, PartyTypes
<1>6. Consented(y) /\ Keyed(y) /\ Hosted(y)
  BY <1>2 DEF Consented, Keyed, Hosted, Stage, Proposed, Submitted, Clearing, Early
<1> QED BY <1>2, <1>3, <1>5, <1>6 DEF RunFine
(* A run that fails keeps what it holds, for the step it failed at.        *)
LEMMA FailsFine ==
  ASSUME PartyInv, NEW r \in Runs, InFlight(r), NEW w \in Steps, FailsAt(r, w),
         w \in Proposed => run[r].pc \in Proposed, w \in Clearing => run[r].pc = w,
         w \in Early => run[r].pc \in Early
  PROVE  \E y \in PartyRun : Set(r, y) /\ RunFine(y)
<1> DEFINE x == run[r]  v == "failed"  y == [x EXCEPT !.pc = v, !.at = w]
<1>1. CASE Set(r, Over)
  BY <1>1, OverFine DEF PartyInv
<1>2. CASE Set(r, y)
  <2>1. x \in PartyRun /\ RunFine(x) /\ x.pc \notin {"idle", "failed", "over"}
    BY DEF PartyInv, PartyTypes, InFlight
  <2>2. v \in Steps \cup {"idle", "failed", "over"} /\ x \in PartyRun
    BY <2>1
  <2>3. /\ y \in PartyRun /\ y.pc = v /\ y.at = w
        /\ y.kind = x.kind /\ y.coord = x.coord /\ y.target = x.target /\ y.quorum = x.quorum
        /\ y.readDns = x.readDns /\ y.readP2p = x.readP2p /\ y.dnsTx = x.dnsTx
        /\ y.p2pTx = x.p2pTx /\ y.sigs = x.sigs /\ y.answered = x.answered /\ y.members = x.members
    <3> HIDE DEF x, v
    <3> QED BY <2>2, Zenon DEF PartyRun
  <2> HIDE DEF y
  <2>4. Stage(x) = x.pc /\ Stage(y) = w
    BY <2>1, <2>3 DEF Stage
  <2>5. w \in Proposed \cup Clearing => x.pc \in Proposed \cup Clearing
    OBVIOUS
  <2> HIDE DEF x
  <2>6. Pinned(y)
    BY <2>1, <2>3, <2>4, <2>5 DEF RunFine, Pinned, x
  <2>7. Consented(y)
    BY <2>1, <2>3, <2>4 DEF RunFine, Consented, Submitted, x
  <2>8. Keyed(y)
    BY <2>1, <2>3, <2>4 DEF RunFine, Keyed, x
  <2>9. Hosted(y)
    BY <2>1, <2>3, <2>4 DEF RunFine, Hosted, x
  <2> QED BY <1>2, <2>3, <2>6, <2>7, <2>8, <2>9 DEF RunFine
<1> QED BY <1>1, <1>2 DEF FailsAt

(* A run that goes on to another step.                                     *)
LEMMA GotoFine ==
  ASSUME PartyInv, NEW r \in Runs, InFlight(r), NEW v \in Steps, Goto(r, v), v # "authorize_dns",
         v \in Proposed => run[r].pc \in Proposed, v \in Clearing => run[r].pc \in Clearing \ {"author"},
         v \in Submitted => run[r].answered # {}, v \in Early => run[r].pc \in Early,
         v = "authorize_p2p" => run[r].pc = "authorize_dns"
  PROVE  \E y \in PartyRun :
           /\ Set(r, y) /\ RunFine(y) /\ y.dnsTx = run[r].dnsTx /\ y.p2pTx = run[r].p2pTx
           /\ y.readDns = run[r].readDns /\ y.readP2p = run[r].readP2p
           /\ y.answered = run[r].answered
<1> DEFINE x == run[r]  y == [x EXCEPT !.pc = v]
<1>1. x \in PartyRun /\ RunFine(x) /\ x.pc \notin {"idle", "failed", "over"}
  BY DEF PartyInv, PartyTypes, InFlight
<1>2. x \in PartyRun /\ v \in Steps \cup {"idle", "failed", "over"}
  BY <1>1
<1>3. /\ y \in PartyRun /\ y.pc = v
      /\ y.kind = x.kind /\ y.coord = x.coord /\ y.target = x.target /\ y.quorum = x.quorum
      /\ y.readDns = x.readDns /\ y.readP2p = x.readP2p /\ y.dnsTx = x.dnsTx
      /\ y.p2pTx = x.p2pTx /\ y.sigs = x.sigs /\ y.answered = x.answered /\ y.members = x.members
  <2> HIDE DEF x
  <2> QED BY <1>2, Zenon DEF PartyRun
<1>4. Set(r, y)
  BY DEF Goto
<1> HIDE DEF y
<1>5. v # "failed"
  BY DEF Steps
<1>6. Stage(x) = x.pc /\ Stage(y) = v
  BY <1>1, <1>3, <1>5 DEF Stage
<1>7. v \in Proposed \cup Clearing => x.pc \in Proposed \cup Clearing
  OBVIOUS
<1>8. Pinned(y)
  <2> HIDE DEF x
  <2> QED BY <1>1, <1>3, <1>6, <1>7 DEF RunFine, Pinned, x
<1>9. Consented(y)
  BY <1>1, <1>3, <1>6 DEF RunFine, Consented
<1>10. Keyed(y)
  BY <1>1, <1>3, <1>6 DEF RunFine, Keyed
<1>11. Hosted(y)
  BY <1>1, <1>3, <1>6 DEF RunFine, Hosted
<1> QED BY <1>3, <1>4, <1>8, <1>9, <1>10, <1>11 DEF RunFine

(* What takes effect was built on the head it replaces.                    *)
LEMMA DnsLands ==
  ASSUME PartyInv, NEW r \in Runs, run[r].pc \in Proposed, NEW S,
         PublishDns(run[r].dnsTx, S)
  PROVE  /\ dns' \in DnsHead
         /\ \/ dns' = dns
            \/ /\ dns' = run[r].dnsTx /\ dns'.serial = dns.serial + 1 /\ run[r].readDns = dns
               /\ Cardinality(S \cap dns.owners) >= dns.threshold
<1> DEFINE x == run[r]
<1>1. x \in PartyRun /\ Pinned(x) /\ Stage(x) \in Proposed /\ dns \in DnsHead
  BY DEF PartyInv, PartyTypes, RunFine, Stage, Proposed
<1>2. /\ x.readDns.serial <= dns.serial /\ (x.readDns.serial = dns.serial => x.readDns = dns)
      /\ x.dnsTx.serial \in {x.readDns.serial, x.readDns.serial + 1}
  BY <1>1 DEF Pinned
<1>3. x.readDns.serial \in Nat /\ dns.serial \in Nat /\ x.dnsTx \in DnsHead
  BY <1>1 DEF PartyRun, DnsHead
<1>4. CASE DnsEffective(x.dnsTx, S)
  <2>1. /\ dns' = x.dnsTx /\ x.dnsTx.serial = dns.serial + 1
        /\ Cardinality(S \cap dns.owners) >= dns.threshold
    BY <1>4 DEF PublishDns, DnsEffective
  <2> QED BY <1>2, <1>3, <2>1
<1>5. CASE ~DnsEffective(x.dnsTx, S)
  BY <1>1, <1>5 DEF PublishDns
<1> QED BY <1>4, <1>5
(* The same of a mapping, whose keys are those of its hosts, unless it is  *)
(* a clear and the head has moved.                                         *)
LEMMA P2pLands ==
  ASSUME PartyInv, NEW x \in PartyRun, RunFine(x), x.pc \in Proposed \cup Clearing, NEW S,
         PublishP2p(x.p2pTx, S), UNCHANGED legacy
  PROVE  /\ p2p' \in P2pHead /\ p2p'.hosts # {} /\ KeysFollowHosts'
         /\ p2p'.marked # {} => p2p'.keys # {}
         /\ \/ p2p' = p2p
            \/ /\ p2p' = x.p2pTx /\ p2p'.serial = p2p.serial + 1 /\ P2pEffective(x.p2pTx, S)
               /\ x.readP2p = p2p \/ (x.pc \in Clearing /\ x.p2pTx.serial # x.readP2p.serial + 1)
<1>1. /\ Pinned(x) /\ Keyed(x) /\ Stage(x) = x.pc /\ p2p \in P2pHead
      /\ p2p.hosts # {} /\ KeysFollowHosts /\ (p2p.marked # {} => p2p.keys # {})
  BY DEF PartyInv, PartyTypes, RunFine, Stage, Proposed, Clearing
<1>2. /\ x.readP2p.serial <= p2p.serial /\ (x.readP2p.serial = p2p.serial => x.readP2p = p2p)
      /\ x.pc \in Proposed => x.p2pTx.serial = x.readP2p.serial + 1
  BY <1>1 DEF Pinned
<1>3. x.readP2p.serial \in Nat /\ p2p.serial \in Nat /\ x.p2pTx \in P2pHead
  BY <1>1 DEF PartyRun, P2pHead
<1>4. CASE P2pEffective(x.p2pTx, S)
  <2>1. p2p' = x.p2pTx /\ x.p2pTx.serial = p2p.serial + 1
    BY <1>4 DEF PublishP2p, P2pEffective
  <2>2. x.readP2p = p2p \/ (x.pc \in Clearing /\ x.p2pTx.serial # x.readP2p.serial + 1)
    BY <1>2, <1>3, <2>1
  <2>3. p2p'.hosts # {} /\ KeysFollowHosts' /\ p2p'.keys # {}
    BY <1>1, <2>1 DEF Keyed, KeysFollowHosts
  <2> QED BY <1>3, <1>4, <2>1, <2>2, <2>3
<1>5. CASE ~P2pEffective(x.p2pTx, S)
  <2>1. p2p' = p2p
    BY <1>5 DEF PublishP2p
  <2> QED BY <1>1, <2>1 DEF KeysFollowHosts
<1> QED BY <1>4, <1>5

----------------------------------------------------------------------------
(* The steps that publish.                                                 *)
LEMMA QuorumGrows ==
  ASSUME PartyInv, p2p' \in P2pHead, NEW S, S \subseteq Active(p2p'),
         dns.threshold <= Cardinality(dns.owners \cap S)
  PROVE  dns.threshold <= Cardinality(dns.owners \cap Active(p2p'))
<1>1. IsFiniteSet(Nodes) /\ dns.owners \cap Active(p2p') \subseteq Nodes
  BY MembersAssumption DEF P2pHead, Active
<1>2. IsFiniteSet(dns.owners \cap Active(p2p'))
  BY <1>1, FS_Subset
<1>3. /\ Cardinality(dns.owners \cap S) \in Nat /\ Cardinality(dns.owners \cap Active(p2p')) \in Nat
      /\ Cardinality(dns.owners \cap S) <= Cardinality(dns.owners \cap Active(p2p'))
  <2>1. dns.owners \cap S \subseteq dns.owners \cap Active(p2p')
    OBVIOUS
  <2>2. IsFiniteSet(dns.owners \cap S)
    BY <1>2, <2>1, FS_Subset
  <2> QED BY <1>2, <2>1, <2>2, FS_Subset, FS_CardinalityType
<1>4. dns.threshold \in Nat
  BY DEF PartyInv, PartyTypes, DnsHead
<1> QED BY <1>3, <1>4
(* A step that fails publishes nothing.                                    *)
LEMMA StayFails ==
  ASSUME PartyInv, NEW r \in Runs, Fails(r), InFlight(r), UNCHANGED <<dns, p2p, legacy, cache>>
  PROVE  PartyInv' /\ Lands
<1>1. run[r].pc \in Steps /\ FailsAt(r, run[r].pc)
  BY DEF Fails, InFlight, PartyInv, PartyTypes, PartyRun
<1>2. PICK y \in PartyRun : Set(r, y) /\ RunFine(y)
  BY <1>1, FailsFine
<1>3. KeysFollowHosts' /\ cache' \in [Coordinators -> CachedParty]
  BY DEF PartyInv, PartyTypes, KeysFollowHosts
<1> QED BY <1>2, <1>3, KeepParty DEF Lands
(* Neither does one that only goes on to the next step.                    *)
LEMMA StayGoto ==
  ASSUME PartyInv, NEW r \in Runs, InFlight(r), NEW v \in Steps, Goto(r, v), v # "authorize_dns",
         v \in Proposed => run[r].pc \in Proposed, v \in Clearing => run[r].pc \in Clearing \ {"author"},
         v \in Submitted => run[r].answered # {}, v \in Early => run[r].pc \in Early,
         v = "authorize_p2p" => run[r].pc = "authorize_dns",
         UNCHANGED <<dns, p2p, legacy>>, cache' \in [Coordinators -> CachedParty]
  PROVE  PartyInv' /\ Lands
<1>1. PICK y \in PartyRun : Set(r, y) /\ RunFine(y)
  BY GotoFine
<1>2. KeysFollowHosts'
  BY DEF PartyInv, KeysFollowHosts
<1> QED BY <1>1, <1>2, KeepParty DEF Lands

(* A run's edits that publish nothing.                                     *)
LEMMA StaySet ==
  ASSUME PartyInv, NEW r \in Runs, NEW y \in PartyRun, Set(r, y), RunFine(y),
         UNCHANGED <<dns, p2p, legacy, cache>>
  PROVE  PartyInv' /\ Lands
<1>1. KeysFollowHosts' /\ cache' \in [Coordinators -> CachedParty]
  BY DEF PartyInv, PartyTypes, KeysFollowHosts
<1> QED BY <1>1, KeepParty DEF Lands

(* One signature is no quorum of two.                                      *)
LEMMA OneSigner == ASSUME NEW c, NEW O PROVE Cardinality({c} \cap O) \in {0, 1}
<1>1. {c} \cap O = {c} \/ {c} \cap O = {}
  OBVIOUS
<1> QED BY <1>1, FS_EmptySet, FS_Singleton

(* The coordinator's signature is no quorum of the namespace it read.      *)
LEMMA PartyAuthorizeDns ==
  ASSUME PartyInv, NEW r \in Runs, AuthorizeDns(r)
  PROVE  PartyInv' /\ Lands
<1> DEFINE x == run[r]
<1>1. /\ x.pc = "authorize_dns" /\ InFlight(r) /\ x.pc \in Proposed /\ UNCHANGED <<p2p, legacy, cache>>
      /\ "authorize_p2p" \in Steps /\ "authorize_p2p" \notin Clearing \cup Submitted
      /\ x.pc \in Early
  BY DEF AuthorizeDns, At, InFlight, Proposed, Steps, Clearing, Submitted, Early
<1>2. x.sigs = {x.coord} /\ x.readDns.threshold >= 2 /\ x \in PartyRun
  BY <1>1 DEF PartyInv, PartyTypes, RunFine, Consented
<1>3. CASE PublishDns(x.dnsTx, x.sigs) /\ Goto(r, "authorize_p2p")
  <2>1. dns' = dns
    <3>1. \/ dns' = dns
          \/ x.readDns = dns /\ Cardinality(x.sigs \cap dns.owners) >= dns.threshold
      BY <1>1, <1>3, DnsLands
    <3>2. Cardinality(x.sigs \cap dns.owners) \in {0, 1}
      BY <1>2, OneSigner
    <3> QED BY <1>2, <3>1, <3>2 DEF PartyRun, DnsHead
  <2>2. cache' \in [Coordinators -> CachedParty]
    BY <1>1 DEF PartyInv, PartyTypes
  <2> QED BY <1>1, <1>3, <2>1, <2>2, StayGoto
<1>4. CASE Fails(r) /\ UNCHANGED dns
  BY <1>1, <1>4, StayFails
<1> QED BY <1>3, <1>4 DEF AuthorizeDns
(* Nor of the mapping's, unless the threshold was lowered since.           *)
LEMMA PartyAuthorizeP2p ==
  ASSUME PartyInv, NEW r \in Runs, AuthorizeP2p(r)
  PROVE  PartyInv' /\ Lands
<1> DEFINE x == run[r]
<1>1. /\ x.pc = "authorize_p2p" /\ InFlight(r) /\ x.pc \in Proposed /\ UNCHANGED <<dns, legacy, cache>>
      /\ "sign" \in Steps /\ "sign" \notin Clearing \cup Submitted \cup Early
      /\ solo' = (solo \/ p2p' # p2p)
  BY DEF AuthorizeP2p, At, InFlight, Proposed, Steps, Clearing, Submitted, Early
<1>2. /\ x.sigs = {x.coord} /\ x \in PartyRun
      /\ x.readDns.threshold >= 2 \/ (x.target # x.coord /\ x.target \in x.p2pTx.hosts \ x.readP2p.hosts)
  BY <1>1 DEF PartyInv, PartyTypes, RunFine, Consented
<1>3. CASE PublishP2p(x.p2pTx, x.sigs) /\ Goto(r, "sign")
  <2>1. /\ p2p' \in P2pHead /\ p2p'.hosts # {} /\ KeysFollowHosts'
        /\ p2p'.marked # {} => p2p'.keys # {}
        /\ \/ p2p' = p2p
           \/ /\ p2p' = x.p2pTx /\ p2p'.serial = p2p.serial + 1 /\ x.readP2p = p2p
              /\ P2pEffective(x.p2pTx, x.sigs)
    <3>1. x \in PartyRun /\ RunFine(x) /\ x.pc \notin Clearing
      BY <1>1 DEF PartyInv, PartyTypes, Clearing
    <3> QED BY <1>1, <1>3, <3>1, P2pLands
  <2>2. PICK y \in PartyRun :
           /\ Set(r, y) /\ RunFine(y) /\ y.p2pTx = x.p2pTx
           /\ y.readDns = x.readDns /\ y.readP2p = x.readP2p
    BY <1>1, <1>3, GotoFine
  <2>3. PartyInv'
    BY <1>1, <2>1, <2>2, MoveParty DEF PartyInv, PartyTypes
  <2>4. run'[r] = y
    BY <2>2, SetRun DEF PartyInv
  <2>5. ASSUME P2pEffective(x.p2pTx, x.sigs), x.readP2p = p2p PROVE dns.threshold < x.readDns.threshold
    <3>1. Cardinality(x.sigs \cap dns.owners) \in {0, 1}
      BY <1>2, OneSigner
    <3>2. x.readDns.threshold >= 2 /\ Cardinality(x.sigs \cap dns.owners) >= dns.threshold
      BY <1>2, <2>5 DEF P2pEffective
    <3> QED BY <1>2, <3>1, <3>2 DEF PartyRun, DnsHead, PartyInv, PartyTypes
  <2>6. Lands
    BY <1>1, <2>1, <2>2, <2>4, <2>5 DEF Lands
  <2> QED BY <2>3, <2>6
<1>4. CASE Fails(r) /\ UNCHANGED p2p
  BY <1>1, <1>4, StayFails
<1> QED BY <1>3, <1>4 DEF AuthorizeP2p
(* The DNS lands on the head it was built on, or is late.                  *)
LEMMA PartySubmitDns ==
  ASSUME PartyInv, NEW r \in Runs, SubmitDns(r)
  PROVE  PartyInv' /\ Lands
<1> DEFINE x == run[r]
<1>1. /\ x.pc = "dns" /\ InFlight(r) /\ x.pc \in Proposed /\ UNCHANGED <<p2p, legacy, cache>>
      /\ "confirm_dns" \in Steps /\ "confirm_dns" \notin Clearing \cup Early
  BY DEF SubmitDns, At, InFlight, Proposed, Steps, Clearing, Early
<1>2. x.answered # {}
  BY <1>1 DEF PartyInv, RunFine, Consented, Submitted
<1>3. CASE PublishDns(x.dnsTx, x.sigs) /\ Goto(r, "confirm_dns")
  <2>1. /\ dns' \in DnsHead
        /\ \/ dns' = dns
           \/ dns' = x.dnsTx /\ dns'.serial = dns.serial + 1 /\ x.readDns = dns
    BY <1>1, <1>3, DnsLands
  <2>2. PICK y \in PartyRun :
           /\ Set(r, y) /\ RunFine(y) /\ y.dnsTx = x.dnsTx
           /\ y.readDns = x.readDns /\ y.answered = x.answered
    BY <1>1, <1>2, <1>3, GotoFine
  <2>3. /\ p2p' \in P2pHead /\ p2p'.hosts # {} /\ KeysFollowHosts'
        /\ p2p'.marked # {} => p2p'.keys # {}
    BY <1>1 DEF PartyInv, PartyTypes, KeysFollowHosts
  <2>4. PartyInv'
    BY <1>1, <2>1, <2>2, <2>3, MoveParty
  <2>5. run'[r] = y
    BY <2>2, SetRun DEF PartyInv
  <2>6. Lands
    BY <1>1, <1>2, <2>1, <2>2, <2>5 DEF Lands
  <2> QED BY <2>4, <2>6
<1>4. CASE Fails(r) /\ UNCHANGED dns
  BY <1>1, <1>4, StayFails
<1> QED BY <1>3, <1>4 DEF SubmitDns
(* So does the P2P; its signers host the party.                            *)
LEMMA PartySubmitP2p ==
  ASSUME PartyInv, NEW r \in Runs, SubmitP2p(r)
  PROVE  PartyInv' /\ Lands
<1> DEFINE x == run[r]
<1>1. /\ x.pc = "p2p" /\ InFlight(r) /\ x.pc \in Proposed /\ UNCHANGED <<dns, legacy, cache>>
      /\ "confirm_p2p" \in Steps /\ "confirm_p2p" \notin Clearing \cup Early
  BY DEF SubmitP2p, At, InFlight, Proposed, Steps, Clearing, Early
<1>2. x.answered # {}
  BY <1>1 DEF PartyInv, RunFine, Consented, Submitted
<1>3. CASE Goto(r, "confirm_p2p") /\ UNCHANGED p2p
  <2>1. cache' \in [Coordinators -> CachedParty]
    BY <1>1 DEF PartyInv, PartyTypes
  <2> QED BY <1>1, <1>2, <1>3, <2>1, StayGoto
<1>4. CASE PublishP2p(x.p2pTx, x.sigs) /\ Goto(r, "confirm_p2p")
  <2>1. /\ p2p' \in P2pHead /\ p2p'.hosts # {} /\ KeysFollowHosts'
        /\ p2p'.marked # {} => p2p'.keys # {}
        /\ \/ p2p' = p2p
           \/ /\ p2p' = x.p2pTx /\ p2p'.serial = p2p.serial + 1 /\ x.readP2p = p2p
              /\ P2pEffective(x.p2pTx, x.sigs)
    <3>1. x \in PartyRun /\ RunFine(x) /\ x.pc \notin Clearing
      BY <1>1 DEF PartyInv, PartyTypes, Clearing
    <3> QED BY <1>1, <1>4, <3>1, P2pLands
  <2>2. PICK y \in PartyRun :
           /\ Set(r, y) /\ RunFine(y) /\ y.p2pTx = x.p2pTx
           /\ y.readP2p = x.readP2p /\ y.answered = x.answered
    BY <1>1, <1>2, <1>4, GotoFine
  <2>3. PartyInv'
    BY <1>1, <2>1, <2>2, MoveParty DEF PartyInv, PartyTypes
  <2>4. run'[r] = y
    BY <2>2, SetRun DEF PartyInv
  <2>5. ASSUME p2p' # p2p, dns.threshold <= Cardinality(dns.owners \cap Active(p2p))
        PROVE  dns.threshold <= Cardinality(dns.owners \cap Active(p2p'))
    <3>1. p2p' = x.p2pTx /\ x.readP2p = p2p /\ P2pEffective(x.p2pTx, x.sigs)
      BY <2>1, <2>5
    <3>2. /\ x.sigs \subseteq x.members /\ x.p2pTx.hosts = x.members
          /\ x.p2pTx.marked = IF x.kind = "AddParty" THEN {x.target} ELSE {}
          /\ x.kind = "AddParty" =>
               x.target \notin x.readP2p.hosts /\ x.p2pTx.hosts = x.readP2p.hosts \cup {x.target}
      BY <1>1, <1>2 DEF PartyInv, RunFine, Hosted, Stage
    <3>3. CASE x.kind = "AddParty"
      <4>1. Active(p2p) \subseteq Active(p2p')
        BY <3>1, <3>2, <3>3 DEF Active
      <4> QED BY <2>1, <2>5, <4>1, QuorumGrows
    <3>4. CASE x.kind # "AddParty"
      <4>1. x.sigs \subseteq Active(p2p')
        BY <3>1, <3>2, <3>4 DEF Active
      <4>2. dns.threshold <= Cardinality(dns.owners \cap x.sigs)
        <5>1. /\ Cardinality(x.sigs \cap dns.owners) >= dns.threshold
              /\ x.sigs \cap dns.owners = dns.owners \cap x.sigs
          BY <3>1 DEF P2pEffective
        <5>2. IsFiniteSet(x.sigs \cap dns.owners)
          BY MembersAssumption, FS_Subset DEF PartyInv, PartyTypes, DnsHead
        <5> QED BY <5>1, <5>2, FS_CardinalityType DEF PartyInv, PartyTypes, DnsHead
      <4> QED BY <2>1, <4>1, <4>2, QuorumGrows
    <3> QED BY <3>3, <3>4
  <2>6. Lands
    BY <1>1, <1>2, <2>1, <2>2, <2>4, <2>5 DEF Lands
  <2> QED BY <2>3, <2>6
<1>5. CASE Fails(r) /\ UNCHANGED p2p
  BY <1>1, <1>5, StayFails
<1> QED BY <1>3, <1>4, <1>5 DEF SubmitP2p
(* A run publishes a clear, built on the head or numbered after it moved.  *)
LEMMA ClearLands ==
  ASSUME PartyInv, NEW r \in Runs, NEW y \in PartyRun, Set(r, y), RunFine(y), NEW S,
         y.pc \in {"clear", "confirm_clear"}, PublishP2p(y.p2pTx, S),
         UNCHANGED <<dns, legacy, cache>>
  PROVE  PartyInv' /\ Lands
<1>1. y.pc \in Clearing /\ Stage(y) = y.pc /\ y.pc # "author"
  BY DEF Clearing, Stage
<1>2. /\ p2p' \in P2pHead /\ p2p'.hosts # {} /\ KeysFollowHosts'
      /\ p2p'.marked # {} => p2p'.keys # {}
      /\ \/ p2p' = p2p
         \/ /\ p2p' = y.p2pTx /\ p2p'.serial = p2p.serial + 1
            /\ y.readP2p = p2p \/ y.p2pTx.serial # y.readP2p.serial + 1
  BY <1>1, P2pLands
<1>3. PartyInv'
  BY <1>2, MoveParty DEF PartyInv, PartyTypes
<1>4. run'[r] = y
  BY SetRun DEF PartyInv
<1>5. /\ y.answered # {} /\ y.p2pTx.marked \subseteq y.readP2p.marked
      /\ y.p2pTx.hosts = y.readP2p.hosts
  BY <1>1 DEF RunFine, Consented, Hosted
<1>6. CASE p2p' = p2p
  BY <1>3, <1>6 DEF Lands
<1>7. CASE p2p' = y.p2pTx /\ y.readP2p = p2p
  <2>1. Active(p2p) \subseteq Active(p2p')
    BY <1>5, <1>7 DEF Active
  <2>2. dns.threshold <= Cardinality(dns.owners \cap Active(p2p))
          => dns.threshold <= Cardinality(dns.owners \cap Active(p2p'))
    BY <1>2, <2>1, QuorumGrows
  <2> QED BY <1>3, <1>4, <1>5, <1>7, <2>2 DEF Lands
<1>8. CASE p2p' = y.p2pTx /\ y.p2pTx.serial # y.readP2p.serial + 1
  <2>1. Renumbered(run'[r])
    BY <1>4, <1>8 DEF Renumbered
  <2> QED BY <1>3, <1>4, <1>5, <1>8, <2>1 DEF Lands
<1> QED BY <1>2, <1>6, <1>7, <1>8
(* The coordinator publishes it with the signatures it collected.          *)
LEMMA PartySubmitClear ==
  ASSUME PartyInv, NEW r \in Runs, SubmitClear(r)
  PROVE  PartyInv' /\ Lands
<1> DEFINE x == run[r]  v == "confirm_clear"  S == x.sigs \cup {x.coord}  y == [x EXCEPT !.pc = v]
<1>1. /\ x.pc = "clear" /\ UNCHANGED <<dns, legacy, cache>>
      /\ PublishP2p(x.p2pTx, S) /\ Set(r, y)
  BY DEF SubmitClear, At, Goto
<1>2. x \in PartyRun /\ RunFine(x) /\ v \in Steps \cup {"idle", "failed", "over"}
  BY DEF PartyInv, PartyTypes, Steps
<1>3. /\ y \in PartyRun /\ y.pc = v
      /\ y.kind = x.kind /\ y.coord = x.coord /\ y.target = x.target /\ y.quorum = x.quorum
      /\ y.readDns = x.readDns /\ y.readP2p = x.readP2p /\ y.dnsTx = x.dnsTx
      /\ y.p2pTx = x.p2pTx /\ y.sigs = x.sigs /\ y.answered = x.answered /\ y.members = x.members
  <2> HIDE DEF x, v
  <2> QED BY <1>2, Zenon DEF PartyRun
<1> HIDE DEF y, S
<1>4. /\ Stage(x) = "clear" /\ Stage(y) = "confirm_clear"
      /\ {"clear", "confirm_clear"} \cap (Proposed \cup Submitted \cup Early) = {}
      /\ {"clear", "confirm_clear"} \subseteq Clearing \ {"author"}
  BY <1>1, <1>3 DEF Stage, Proposed, Submitted, Early, Clearing
<1>5. Pinned(y)
  BY <1>2, <1>3, <1>4 DEF RunFine, Pinned
<1>6. Consented(y)
  BY <1>1, <1>2, <1>3, <1>4 DEF RunFine, Consented
<1>7. Keyed(y)
  BY <1>2, <1>3, <1>4 DEF RunFine, Keyed
<1>8. Hosted(y)
  BY <1>1, <1>2, <1>3, <1>4 DEF RunFine, Hosted
<1> QED BY <1>1, <1>3, <1>5, <1>6, <1>7, <1>8, ClearLands DEF RunFine
(* The new member builds it on the head it sees.                           *)
LEMMA PartyReadClear ==
  ASSUME PartyInv, NEW r \in Runs, ReadClear(r)
  PROVE  PartyInv' /\ Lands
<1> DEFINE x == run[r]  v == "author"
           tx == [p2p EXCEPT !.marked = @ \ {x.target}, !.serial = 0]
           y == [x EXCEPT !.pc = v, !.readP2p = p2p, !.p2pTx = tx]
<1>1. x.pc = "import" /\ InFlight(r) /\ UNCHANGED <<dns, p2p, legacy, cache>>
  BY DEF ReadClear, At, InFlight
<1>2. /\ x \in PartyRun /\ RunFine(x) /\ p2p \in P2pHead /\ p2p.hosts # {} /\ KeysFollowHosts
      /\ p2p.marked # {} => p2p.keys # {}
  BY DEF PartyInv, PartyTypes
<1>3. CASE x.target \in p2p.marked /\ Set(r, y)
  <2>1. /\ tx \in P2pHead /\ tx.hosts = p2p.hosts /\ tx.keys = p2p.keys
        /\ tx.marked \subseteq p2p.marked
    <3> DEFINE m == p2p.marked \ {x.target}  n == 0
    <3>1. p2p \in P2pHead /\ m \in SUBSET Nodes /\ n \in Nat
      BY <1>2 DEF P2pHead
    <3>2. tx = [p2p EXCEPT !.marked = m, !.serial = n]
      OBVIOUS
    <3> HIDE DEF m, n, tx
    <3>3. tx \in P2pHead /\ tx.hosts = p2p.hosts /\ tx.keys = p2p.keys /\ tx.marked = m
      BY <3>1, <3>2, Zenon DEF P2pHead
    <3> QED BY <3>3 DEF m, n
  <2> HIDE DEF tx
  <2>2. x \in PartyRun /\ v \in Steps \cup {"idle", "failed", "over"} /\ p2p \in P2pHead
    BY <1>2 DEF Steps
  <2>3. /\ y \in PartyRun /\ y.pc = v /\ y.readP2p = p2p /\ y.p2pTx = tx
        /\ y.kind = x.kind /\ y.coord = x.coord /\ y.target = x.target /\ y.quorum = x.quorum
        /\ y.readDns = x.readDns /\ y.members = x.members
    <3> HIDE DEF x, v
    <3> QED BY <2>1, <2>2, Zenon DEF PartyRun
  <2> HIDE DEF y
  <2>4. Stage(y) = "author" /\ "author" \notin Proposed \cup Submitted \cup Early
    BY <2>3 DEF Stage, Proposed, Submitted, Early
  <2>5. Pinned(y)
    <3>1. p2p.serial \in Nat
      BY <1>2 DEF P2pHead
    <3> QED BY <1>2, <2>3, <2>4, <3>1 DEF Pinned, RunFine
  <2>6. Consented(y)
    BY <1>1, <1>2, <2>3, <2>4 DEF RunFine, Consented
  <2>7. Keyed(y)
    BY <1>2, <1>3, <2>1, <2>3 DEF Keyed, KeysFollowHosts
  <2>8. Hosted(y)
    <3>1. x.target \in Nodes
      BY <1>2, <1>3 DEF P2pHead
    <3> QED BY <1>1, <1>2, <2>1, <2>3, <2>4, <3>1 DEF RunFine, Hosted
  <2> QED BY <1>1, <1>3, <2>3, <2>5, <2>6, <2>7, <2>8, StaySet DEF RunFine
<1>4. CASE Goto(r, "retire")
  <2>1. "retire" \in Steps /\ "retire" \notin Proposed \cup Clearing \cup Submitted \cup Early
    BY DEF Steps, Proposed, Clearing, Submitted, Early
  <2>2. cache' \in [Coordinators -> CachedParty]
    BY <1>1 DEF PartyInv, PartyTypes
  <2> QED BY <1>1, <1>4, <2>1, <2>2, StayGoto
<1> QED BY <1>3, <1>4 DEF ReadClear
(* Canton numbers it when it is authorized.                                *)
LEMMA PartyAuthorizeClear ==
  ASSUME PartyInv, NEW r \in Runs, AuthorizeClear(r)
  PROVE  PartyInv' /\ Lands
<1> DEFINE x == run[r]  v == "clear"  S == {x.target}  n == p2p.serial + 1
           tx == [x.p2pTx EXCEPT !.serial = n]
           y == [x EXCEPT !.pc = v, !.p2pTx = tx, !.sigs = S, !.answered = S]
<1>1. /\ x.pc = "author" /\ UNCHANGED <<dns, legacy, cache>>
      /\ PublishP2p(tx, S) /\ Set(r, y)
  BY DEF AuthorizeClear, At
<1>2. /\ x \in PartyRun /\ RunFine(x) /\ x.p2pTx \in P2pHead /\ n \in Nat
      /\ S \in SUBSET Nodes /\ S # {}
  <2>1. x \in PartyRun /\ RunFine(x) /\ x.p2pTx \in P2pHead /\ n \in Nat
    BY DEF PartyInv, PartyTypes, P2pHead, PartyRun
  <2>2. x.target \in Nodes
    BY <1>1, <2>1 DEF RunFine, Hosted, Stage, Clearing
  <2> QED BY <2>1, <2>2
<1>3. /\ tx \in P2pHead /\ tx.hosts = x.p2pTx.hosts /\ tx.keys = x.p2pTx.keys
      /\ tx.marked = x.p2pTx.marked
  <2> DEFINE t == x.p2pTx
  <2>1. t \in P2pHead /\ n \in Nat
    BY <1>2
  <2> HIDE DEF t, n
  <2>2. [t EXCEPT !.serial = n] \in P2pHead
    BY <2>1, Zenon DEF P2pHead
  <2>3. /\ [t EXCEPT !.serial = n].hosts = t.hosts /\ [t EXCEPT !.serial = n].keys = t.keys
        /\ [t EXCEPT !.serial = n].marked = t.marked
    BY <2>1, Zenon DEF P2pHead
  <2> QED BY <2>2, <2>3 DEF t
<1> HIDE DEF tx
<1>4. x \in PartyRun /\ v \in Steps \cup {"idle", "failed", "over"}
  BY <1>2 DEF Steps
<1>5. /\ y \in PartyRun /\ y.pc = v /\ y.p2pTx = tx /\ y.answered = S
      /\ y.kind = x.kind /\ y.coord = x.coord /\ y.target = x.target /\ y.quorum = x.quorum
      /\ y.readDns = x.readDns /\ y.readP2p = x.readP2p /\ y.members = x.members
  <2> HIDE DEF x, v, S
  <2> QED BY <1>2, <1>3, <1>4, Zenon DEF PartyRun
<1> HIDE DEF y
<1>6. /\ Stage(x) = "author" /\ Stage(y) = "clear"
      /\ {"author", "clear"} \cap (Proposed \cup Submitted \cup Early) = {}
      /\ {"author", "clear"} \subseteq Clearing
  BY <1>1, <1>5 DEF Stage, Proposed, Submitted, Early, Clearing
<1>7. Pinned(y)
  BY <1>2, <1>5, <1>6 DEF RunFine, Pinned
<1>8. Consented(y)
  BY <1>1, <1>2, <1>5, <1>6 DEF RunFine, Consented
<1>9. Keyed(y)
  BY <1>2, <1>3, <1>5, <1>6 DEF RunFine, Keyed
<1>10. Hosted(y)
  BY <1>1, <1>2, <1>3, <1>5, <1>6 DEF RunFine, Hosted
<1> QED BY <1>1, <1>5, <1>7, <1>8, <1>9, <1>10, ClearLands DEF RunFine

----------------------------------------------------------------------------
(* The steps that leave the heads as they are.                             *)
LEMMA PartyConfirms ==
  ASSUME PartyInv, NEW r \in Runs, ConfirmDns(r) \/ ConfirmP2p(r) \/ ConfirmClear(r)
  PROVE  PartyInv' /\ Lands
<1> DEFINE x == run[r]
<1>1. /\ "p2p" \in Steps /\ "import" \in Steps /\ "retire" \in Steps
      /\ {"p2p", "import", "retire"} \cap (Clearing \cup Early) = {}
      /\ {"import", "retire"} \cap (Proposed \cup Submitted) = {}
  BY DEF Steps, Proposed, Clearing, Submitted, Early
<1>2. cache \in [Coordinators -> CachedParty] /\ x \in PartyRun
  BY DEF PartyInv, PartyTypes
<1>3. CASE ConfirmDns(r)
  <2>1. /\ x.pc = "confirm_dns" /\ InFlight(r) /\ x.pc \in Proposed /\ Goto(r, "p2p")
        /\ UNCHANGED <<dns, p2p, legacy, cache>>
    BY <1>3 DEF ConfirmDns, At, InFlight, Proposed
  <2>2. x.answered # {}
    BY <2>1 DEF PartyInv, RunFine, Consented, Submitted
  <2>3. cache' \in [Coordinators -> CachedParty]
    BY <1>2, <2>1
  <2> QED BY <1>1, <2>1, <2>2, <2>3, StayGoto
<1>4. CASE ConfirmP2p(r)
  <2>1. /\ x.pc = "confirm_p2p" /\ InFlight(r) /\ UNCHANGED <<dns, p2p, legacy>>
        /\ Goto(r, "import") \/ Goto(r, "retire")
    BY <1>4 DEF ConfirmP2p, At, InFlight
  <2>2. cache' \in [Coordinators -> CachedParty]
    <3>1. \/ cache' = cache
          \/ cache' = [cache EXCEPT ![x.coord].hosts = @ \ {x.target}]
      BY <1>4 DEF ConfirmP2p
    <3>2. ASSUME NEW c, NEW t, cache' = [cache EXCEPT ![c].hosts = @ \ {t}]
          PROVE  cache' \in [Coordinators -> CachedParty]
      BY <1>2, <3>2 DEF CachedParty
    <3> QED BY <1>2, <3>1, <3>2
  <2> QED BY <1>1, <2>1, <2>2, StayGoto
<1>5. CASE ConfirmClear(r)
  <2>1. /\ x.pc = "confirm_clear" /\ InFlight(r) /\ UNCHANGED <<dns, p2p, legacy, cache>>
        /\ Goto(r, "retire")
    BY <1>5 DEF ConfirmClear, At, InFlight
  <2>2. cache' \in [Coordinators -> CachedParty]
    BY <1>2, <2>1
  <2> QED BY <1>1, <2>1, <2>2, StayGoto
<1> QED BY <1>3, <1>4, <1>5
(* A run completes, is dismissed or fails.                                 *)
LEMMA PartyEnds ==
  ASSUME PartyInv, NEW r \in Runs, Complete(r) \/ Dismiss(r) \/ Fail(r)
  PROVE  PartyInv' /\ Lands
<1>1. UNCHANGED <<dns, p2p, legacy, cache>>
  BY DEF Complete, Dismiss, Fail
<1>2. CASE Set(r, Over)
  <2>1. Over \in PartyRun /\ RunFine(Over)
    BY OverFine DEF PartyInv
  <2>2. KeysFollowHosts' /\ cache' \in [Coordinators -> CachedParty]
    BY <1>1 DEF PartyInv, PartyTypes, KeysFollowHosts
  <2> QED BY <1>1, <1>2, <2>1, <2>2, KeepParty DEF Lands
<1>3. CASE Fail(r)
  BY <1>1, <1>3, StayFails DEF Fail
<1> QED BY <1>2, <1>3 DEF Complete, Dismiss

(* The legacy keys go, or the cache is refreshed: no run moves.            *)
LEMMA PartyAround ==
  ASSUME PartyInv,
         \/ \E r \in Runs, n \in Nodes : RetireLegacyKeys(r, n)
         \/ \E c \in Coordinators : Refresh(c)
         \/ UNCHANGED topologyVars
  PROVE  PartyInv' /\ Lands
<1>1. UNCHANGED <<dns, p2p, run>>
  BY DEF RetireLegacyKeys, Refresh, topologyVars
<1>2. KeysFollowHosts'
  <2>1. legacy' = legacy \/ p2p.keys # {}
    BY DEF RetireLegacyKeys, Refresh, topologyVars
  <2> QED BY <1>1, <2>1 DEF KeysFollowHosts, PartyInv
<1>3. cache' \in [Coordinators -> CachedParty]
  <2>1. CASE UNCHANGED cache
    BY <2>1 DEF PartyInv, PartyTypes
  <2>2. CASE \E c \in Coordinators : Refresh(c)
    <3>1. [hosts |-> p2p.hosts, threshold |-> dns.threshold, confirmation |-> p2p.threshold]
            \in CachedParty
      BY DEF PartyInv, PartyTypes, DnsHead, P2pHead, CachedParty
    <3> QED BY <2>2, <3>1 DEF PartyInv, PartyTypes, Refresh
  <2> QED BY <2>1, <2>2 DEF RetireLegacyKeys, topologyVars
<1>4. PartyTypes' /\ p2p'.hosts # {} /\ (p2p'.marked # {} => p2p'.keys # {})
  BY <1>1, <1>3 DEF PartyInv, PartyTypes
<1>5. ASSUME NEW s \in Runs PROVE RunFine(run[s])'
  BY <1>1 DEF PartyInv, RunFine, Pinned, Consented, Keyed, Hosted, Stage, Proposed, Submitted,
              Clearing, Early
<1> QED BY <1>1, <1>2, <1>4, <1>5 DEF PartyInv, Lands

(* A run reads the namespace.                                              *)
LEMMA PartyReads ==
  ASSUME PartyInv, NEW r \in Runs, ExportState(r) \/ ReadNamespace(r)
  PROVE  PartyInv' /\ Lands
<1> DEFINE x == run[r]  y(v) == [x EXCEPT !.pc = v, !.readDns = dns]
<1>1. x.pc \in {"export", "create"} /\ InFlight(r) /\ UNCHANGED <<dns, p2p, legacy, cache>>
  BY DEF ExportState, ReadNamespace, At, InFlight
<1>2. x \in PartyRun /\ RunFine(x) /\ dns \in DnsHead
  BY DEF PartyInv, PartyTypes
<1>3. CASE Fails(r)
  BY <1>1, <1>3, StayFails
<1>4. ASSUME NEW v \in {"create", "build"}, Set(r, y(v)) PROVE PartyInv' /\ Lands
  <2> DEFINE z == y(v)
  <2>1. x \in PartyRun /\ v \in Steps \cup {"idle", "failed", "over"} /\ dns \in DnsHead
    BY <1>2 DEF Steps
  <2>2. /\ z \in PartyRun /\ z.pc = v /\ z.readDns = dns
        /\ z.kind = x.kind /\ z.coord = x.coord /\ z.target = x.target /\ z.quorum = x.quorum
        /\ z.readP2p = x.readP2p /\ z.answered = x.answered /\ z.members = x.members
    <3> HIDE DEF x
    <3> QED BY <2>1, Zenon DEF PartyRun
  <2>3. Set(r, z)
    BY <1>4
  <2> HIDE DEF z
  <2>4. Stage(z) \notin Proposed \cup Clearing /\ z.pc \notin Submitted
    BY <1>4, <2>2 DEF Stage, Proposed, Clearing, Submitted
  <2>5. Pinned(z)
    BY <1>2, <2>2, <2>4 DEF RunFine, Pinned, DnsHead
  <2>6. Consented(z)
    BY <1>1, <1>2, <2>2, <2>4 DEF RunFine, Consented
  <2>7. Keyed(z) /\ Hosted(z)
    BY <1>1, <1>2, <2>2, <2>4 DEF RunFine, Keyed, Hosted, Stage, Early
  <2> QED BY <1>1, <2>2, <2>3, <2>5, <2>6, <2>7, StaySet DEF RunFine
<1> QED BY <1>3, <1>4 DEF ExportState, ReadNamespace

(* A peer signs what it has checked.                                       *)
LEMMA PartySigns ==
  ASSUME PartyInv, NEW r \in Runs, NEW n \in Nodes, SignProposals(r, n) \/ SignClear(r, n)
  PROVE  PartyInv' /\ Lands
<1> DEFINE x == run[r]  S == x.sigs \cup {n}  A == x.answered \cup {n}
           y == [x EXCEPT !.sigs = S, !.answered = A]
<1>1. x.pc \in {"sign", "clear"} /\ UNCHANGED <<dns, p2p, legacy, cache>> /\ Set(r, y)
  BY DEF SignProposals, SignClear, At
<1>2. x \in PartyRun /\ RunFine(x)
  BY DEF PartyInv, PartyTypes
<1>3. x \in PartyRun /\ S \in SUBSET Nodes /\ A \in SUBSET Nodes /\ A # {}
  BY <1>2 DEF PartyRun
<1>4. /\ y \in PartyRun /\ y.answered = A /\ y.sigs = S /\ y.members = x.members
      /\ y.kind = x.kind /\ y.coord = x.coord /\ y.target = x.target /\ y.quorum = x.quorum
      /\ y.pc = x.pc /\ y.at = x.at /\ y.readDns = x.readDns /\ y.readP2p = x.readP2p
      /\ y.dnsTx = x.dnsTx /\ y.p2pTx = x.p2pTx
  <2> HIDE DEF x, S, A
  <2> QED BY <1>3, Zenon DEF PartyRun
<1> HIDE DEF y
<1>5. Stage(y) = Stage(x)
  BY <1>4 DEF Stage
<1> HIDE DEF x
<1>6. Pinned(y)
  BY <1>2, <1>4, <1>5 DEF RunFine, Pinned
<1>7. Consented(y)
  BY <1>1, <1>2, <1>3, <1>4, <1>5 DEF RunFine, Consented
<1>8. Keyed(y)
  BY <1>2, <1>4, <1>5 DEF RunFine, Keyed
<1>9. Hosted(y)
  <2>1. n \in x.members
    BY DEF SignProposals, SignClear, Invitees, x
  <2>2. x.pc = "sign" => /\ x.p2pTx.hosts = x.members
                         /\ x.p2pTx.marked = IF x.kind = "AddParty" THEN {x.target} ELSE {}
    BY DEF SignProposals, SignClear, CheckPartyProposals, P2pAsInvited, MarkersAsInvited, At, x
  <2>3. Stage(x) = x.pc /\ x.pc \notin Early /\ (x.pc \in Proposed => x.pc = "sign")
    BY <1>1 DEF Stage, Early, Proposed
  <2> QED BY <1>2, <1>3, <1>4, <1>5, <2>1, <2>2, <2>3 DEF RunFine, Hosted, S, A
<1> QED BY <1>1, <1>4, <1>6, <1>7, <1>8, <1>9, StaySet DEF RunFine

(* The signatures are enough to submit.                                    *)
LEMMA PartySubmitProposals ==
  ASSUME PartyInv, NEW r \in Runs, SubmitProposals(r)
  PROVE  PartyInv' /\ Lands
<1> DEFINE x == run[r]
<1>1. /\ x.pc = "sign" /\ InFlight(r) /\ x.pc \in Proposed /\ UNCHANGED <<dns, p2p, legacy, cache>>
      /\ Cardinality(x.answered) >= x.quorum
      /\ Goto(r, "p2p") \/ Goto(r, "dns") \/ FailsAt(r, "dns")
  BY DEF SubmitProposals, At, InFlight, Proposed
<1>2. {"p2p", "dns"} \subseteq Steps /\ {"p2p", "dns"} \cap (Clearing \cup Early) = {}
  BY DEF Steps, Clearing, Early
<1>3. x.answered # {}
  <2>1. x.quorum >= 1 /\ x.quorum \in Nat
    BY <1>1 DEF PartyInv, PartyTypes, PartyRun, RunFine, Consented
  <2> QED BY <1>1, <2>1, FS_EmptySet
<1>4. CASE Goto(r, "p2p") \/ Goto(r, "dns")
  <2>1. cache' \in [Coordinators -> CachedParty]
    BY <1>1 DEF PartyInv, PartyTypes
  <2> QED BY <1>1, <1>2, <1>3, <1>4, <2>1, StayGoto
<1>5. CASE FailsAt(r, "dns")
  <2>1. PICK y \in PartyRun : Set(r, y) /\ RunFine(y)
    BY <1>1, <1>2, <1>5, FailsFine
  <2> QED BY <1>1, <2>1, StaySet
<1> QED BY <1>1, <1>4, <1>5

(* A retry resumes with what the run holds.                                *)
LEMMA PartyRetry ==
  ASSUME PartyInv, NEW r \in Runs, Retry(r)
  PROVE  PartyInv' /\ Lands
<1> DEFINE x == run[r]  k == x.retries + 1  w == "idle"
           v == CASE x.at \in {"build", "authorize_dns", "authorize_p2p"} -> "create"
                  [] x.at \in {"dns", "confirm_dns", "p2p", "confirm_p2p"} -> "sign"
                  [] x.at = "author" -> "import"
                  [] x.at = "confirm_clear" -> "clear"
                  [] OTHER -> x.at
           S == IF x.at \in {"sign", "clear"} THEN x.sigs \cap {x.coord, x.target} ELSE x.sigs
           y == [x EXCEPT !.retries = k, !.at = w, !.pc = v, !.sigs = S]
<1>1. x.pc = "failed" /\ UNCHANGED <<dns, p2p, legacy, cache>> /\ Set(r, y)
  BY DEF Retry, At
<1>2. x \in PartyRun /\ RunFine(x) /\ x.at \in Steps \cup {"idle"}
  BY DEF PartyInv, PartyTypes, PartyRun
<1>3. /\ v \in Steps \cup {"idle"}
      /\ v \in Proposed => x.at \in Proposed
      /\ v \in Clearing => x.at \in Clearing \ {"author"}
      /\ v \in Early => x.at \in Early
      /\ v \notin Submitted \cup {"authorize_dns", "authorize_p2p", "over"}
  BY <1>2 DEF Steps, Proposed, Clearing, Submitted, Early
<1>4. v # "failed"
  BY <1>3 DEF Steps
<1>5. /\ x \in PartyRun /\ k \in Nat /\ w \in Steps \cup {"idle"} /\ S \in SUBSET Nodes
      /\ v \in Steps \cup {"idle", "failed", "over"}
  BY <1>2, <1>3 DEF PartyRun
<1> HIDE DEF v
<1>6. /\ y \in PartyRun /\ y.pc = v /\ y.sigs = S /\ y.members = x.members
      /\ y.kind = x.kind /\ y.coord = x.coord /\ y.target = x.target /\ y.quorum = x.quorum
      /\ y.readDns = x.readDns /\ y.readP2p = x.readP2p
      /\ y.dnsTx = x.dnsTx /\ y.p2pTx = x.p2pTx /\ y.answered = x.answered
  <2> HIDE DEF x, k, w, S
  <2> QED BY <1>5, Zenon DEF PartyRun
<1> HIDE DEF y
<1>7. Stage(x) = x.at /\ Stage(y) = v
  BY <1>1, <1>4, <1>6 DEF Stage
<1> HIDE DEF x
<1>8. v \in Proposed \cup Clearing => x.at \in Proposed \cup Clearing
  BY <1>3
<1>9. Pinned(y)
  BY <1>2, <1>3, <1>6, <1>7, <1>8 DEF RunFine, Pinned
<1>10. Consented(y)
  BY <1>1, <1>2, <1>3, <1>6, <1>7 DEF RunFine, Consented
<1>11. Keyed(y)
  BY <1>2, <1>3, <1>6, <1>7 DEF RunFine, Keyed
<1>12. Hosted(y)
  <2>1. S \subseteq x.sigs
    OBVIOUS
  <2> QED BY <1>1, <1>2, <1>3, <1>6, <1>7, <2>1 DEF RunFine, Hosted
<1> QED BY <1>1, <1>6, <1>9, <1>10, <1>11, <1>12, StaySet DEF RunFine

----------------------------------------------------------------------------
(* What a run proposes.                                                    *)
LEMMA DnsProposal ==
  ASSUME NEW x \in PartyRun, x.kind = "AddParty" => x.target \in Nodes
  PROVE  /\ NewDns(x) \in DnsHead
         /\ NewDns(x).serial \in {x.readDns.serial, x.readDns.serial + 1}
<1>1. /\ x.readDns \in DnsHead /\ x.thr \in Nat /\ x.readDns.owners \in SUBSET Nodes
      /\ x.readDns.serial \in Nat
  BY DEF PartyRun, DnsHead
<1>2. CASE Rehost(x)
  BY <1>1, <1>2 DEF NewDns
<1>3. CASE ~Rehost(x)
  <2> DEFINE o == CASE x.kind = "Kick" -> x.readDns.owners \ {x.target}
                    [] x.kind = "AddParty" -> x.readDns.owners \cup {x.target}
                    [] OTHER -> x.readDns.owners
  <2>1. o \in SUBSET Nodes
    BY <1>1
  <2>2. NewDns(x) = [owners |-> o, threshold |-> x.thr, serial |-> x.readDns.serial + 1]
    BY <1>3 DEF NewDns
  <2> HIDE DEF o
  <2> QED BY <1>1, <2>1, <2>2 DEF DnsHead
<1> QED BY <1>2, <1>3
(* Every host of the proposed mapping has its key in it.                   *)
LEMMA P2pProposal ==
  ASSUME PartyInv, NEW x \in PartyRun, x.kind = "AddParty" => x.target \in Nodes, x.kind # "none"
  PROVE  /\ NewP2p(x) \in P2pHead /\ NewP2p(x).serial = p2p.serial + 1
         /\ x.kind = "AddParty" => NewP2p(x).hosts = p2p.hosts \cup {x.target}
         /\ Buildable(x) => NewP2p(x).keys = NewP2p(x).hosts /\ NewP2p(x).hosts # {}
<1> DEFINE hosts == CASE x.kind = "Kick" -> p2p.hosts \ {x.target}
                      [] x.kind = "AddParty" -> p2p.hosts \cup {x.target}
                      [] OTHER -> p2p.hosts
           added == IF x.kind = "AddParty" THEN {x.target} ELSE {}
           q == NewP2p(x)
<1>1. /\ p2p \in P2pHead /\ p2p.hosts \in SUBSET Nodes /\ p2p.hosts # {} /\ KeysFollowHosts
      /\ p2p.marked \in SUBSET Nodes /\ p2p.keys \in SUBSET Nodes /\ p2p.serial \in Nat
      /\ x.thr \in Nat /\ x.conf \in Nat /\ x.kind \in {"Kick", "AddParty", "ChangeThreshold"}
  BY DEF PartyInv, PartyTypes, P2pHead, PartyRun
<1>2. /\ hosts \in SUBSET Nodes /\ added \subseteq hosts
      /\ x.kind = "AddParty" => hosts = p2p.hosts \cup {x.target}
      /\ x.kind = "ChangeThreshold" => hosts = p2p.hosts /\ added = {}
  BY <1>1
<1>3. q = [hosts |-> hosts, marked |-> (p2p.marked \cap hosts) \cup added, threshold |-> x.conf,
           keys |-> KeysOf(hosts) \cup added, keyThreshold |-> x.thr, serial |-> p2p.serial + 1]
  BY DEF NewP2p
<1> HIDE DEF hosts, added
<1>4. KeysOf(hosts) \subseteq hosts
  BY DEF KeysOf
<1>5. /\ q.hosts = hosts /\ q.keys = KeysOf(hosts) \cup added /\ q.serial = p2p.serial + 1
      /\ q \in P2pHead
  BY <1>1, <1>2, <1>3, <1>4 DEF P2pHead
<1> HIDE DEF q
<1>6. ASSUME Cardinality(q.keys) = Cardinality(q.hosts) PROVE q.keys = q.hosts
  <2>1. IsFiniteSet(q.hosts)
    BY <1>2, <1>5, MembersAssumption, FS_Subset
  <2> QED BY <1>2, <1>4, <1>5, <1>6, <2>1, FS_Subset
<1>7. ASSUME Buildable(x) PROVE q.keys = q.hosts /\ q.hosts # {}
  <2>1. CASE x.kind # "ChangeThreshold"
    <3>1. q.hosts # {} /\ Cardinality(q.keys) = Cardinality(q.hosts)
      BY <1>7, <2>1 DEF Buildable, q
    <3> QED BY <1>6, <3>1
  <2>2. CASE x.kind = "ChangeThreshold"
    <3>1. Cardinality(p2p.keys) < Cardinality(p2p.hosts) => Cardinality(q.keys) = Cardinality(q.hosts)
      BY <1>7, <2>2 DEF Buildable, q
    <3>2. q.hosts # {}
      BY <1>1, <1>2, <1>5, <2>2
    <3>3. CASE Cardinality(p2p.keys) < Cardinality(p2p.hosts)
      BY <1>6, <3>1, <3>2, <3>3
    <3>4. CASE ~(Cardinality(p2p.keys) < Cardinality(p2p.hosts))
      <4>1. IsFiniteSet(p2p.hosts)
        BY <1>1, MembersAssumption, FS_Subset
      <4>2. Cardinality(p2p.hosts) \in Nat /\ Cardinality(p2p.hosts) # 0
        BY <1>1, <4>1, FS_CardinalityType, FS_EmptySet
      <4>3. p2p.keys # {}
        BY <3>4, <4>2, FS_EmptySet
      <4>4. p2p.keys = p2p.hosts
        BY <1>1, <4>3 DEF KeysFollowHosts
      <4> QED BY <1>2, <1>5, <2>2, <3>2, <3>4, <4>4 DEF KeysOf
    <3> QED BY <3>3, <3>4
  <2> QED BY <2>1, <2>2
<1> QED BY <1>2, <1>5, <1>7 DEF q

(* The proposals are built on the heads read.                              *)
LEMMA PartyBuildProposals ==
  ASSUME PartyInv, NEW r \in Runs, BuildProposals(r)
  PROVE  PartyInv' /\ Lands
<1> DEFINE x == run[r]  S == {x.coord}  b == Rehost(x)  d == NewDns(x)  q == NewP2p(x)
           y(v) == [x EXCEPT !.pc = v, !.readP2p = p2p, !.rehost = b, !.dnsTx = d, !.p2pTx = q,
                             !.sigs = S]
<1>1. x.pc = "build" /\ InFlight(r) /\ UNCHANGED <<dns, p2p, legacy, cache>>
  BY DEF BuildProposals, At, InFlight
<1>2. x \in PartyRun /\ RunFine(x) /\ p2p \in P2pHead /\ p2p.serial \in Nat
  BY DEF PartyInv, PartyTypes, P2pHead
<1>3. x.coord \in Nodes /\ x.kind # "none" /\ (x.kind = "AddParty" => x.target \in Nodes)
  BY <1>1, <1>2 DEF RunFine, Consented
<1>4. /\ d \in DnsHead /\ d.serial \in {x.readDns.serial, x.readDns.serial + 1}
      /\ q \in P2pHead /\ q.serial = p2p.serial + 1
      /\ x.kind = "AddParty" => q.hosts = p2p.hosts \cup {x.target}
      /\ Buildable(x) => q.keys = q.hosts /\ q.hosts # {}
  BY <1>2, <1>3, DnsProposal, P2pProposal
<1>5. CASE Fails(r)
  BY <1>1, <1>5, StayFails
<1>6. ASSUME NEW v \in {"authorize_dns", "authorize_p2p", "sign"}, Set(r, y(v)), Buildable(x),
             v = "authorize_dns" => x.readDns.threshold >= 2,
             v = "authorize_p2p" => x.readDns.threshold >= 2 \/ x.kind = "AddParty"
      PROVE  PartyInv' /\ Lands
  <2> DEFINE z == y(v)
  <2>1. /\ x \in PartyRun /\ v \in Steps \cup {"idle", "failed", "over"} /\ p2p \in P2pHead
        /\ b \in BOOLEAN /\ d \in DnsHead /\ q \in P2pHead /\ S \in SUBSET Nodes
    BY <1>2, <1>3, <1>4 DEF Steps, Rehost
  <2>2. /\ z \in PartyRun /\ z.pc = v /\ z.readP2p = p2p /\ z.dnsTx = d /\ z.p2pTx = q /\ z.sigs = S
        /\ z.kind = x.kind /\ z.coord = x.coord /\ z.target = x.target /\ z.quorum = x.quorum
        /\ z.readDns = x.readDns /\ z.members = x.members /\ z.answered = x.answered
    <3> HIDE DEF x, S, b, d, q
    <3> QED BY <2>1, Zenon DEF PartyRun
  <2>3. Set(r, z)
    BY <1>6
  <2> HIDE DEF z, d, q
  <2>4. /\ Stage(z) = v /\ v \in Proposed /\ v \notin Clearing \cup Submitted
        /\ Stage(x) \in Early
    BY <1>1, <1>6, <2>2 DEF Stage, Proposed, Clearing, Submitted, Early
  <2>5. Pinned(z)
    BY <1>2, <1>4, <2>2, <2>4 DEF RunFine, Pinned
  <2>6. x.kind = "AddParty" => x.target \notin p2p.hosts
    BY <1>6 DEF Buildable
  <2>7. Consented(z)
    BY <1>1, <1>2, <1>4, <1>6, <2>2, <2>4, <2>6 DEF RunFine, Consented
  <2>8. Keyed(z)
    BY <1>4, <1>6, <2>2, <2>4 DEF Keyed
  <2>9. Hosted(z)
    <3>1. x.coord \in x.members /\ x.answered = {}
      BY <1>1, <1>2, <2>4 DEF RunFine, Hosted
    <3> QED BY <1>4, <2>2, <2>4, <2>6, <3>1 DEF Hosted
  <2> QED BY <1>1, <2>2, <2>3, <2>5, <2>7, <2>8, <2>9, StaySet DEF RunFine
<1>7. CASE ~Fails(r)
  <2>1. PICK route \in Routes(x) :
          /\ Buildable(x)
          /\ CASE route = "refuse" -> Fails(r)
               [] route = "synchronizer" /\ ~Rehost(x) -> Set(r, y("authorize_dns"))
               [] route = "synchronizer" \/ x.kind = "AddParty" -> Set(r, y("authorize_p2p"))
               [] OTHER -> Set(r, y("sign"))
    BY <1>7, Zenon DEF BuildProposals
  <2>2. route = "synchronizer" => x.readDns.threshold >= 2
    BY DEF Routes
  <2> HIDE DEF y, x
  <2>3. \/ route = "synchronizer" /\ Set(r, y("authorize_dns"))
        \/ (route = "synchronizer" \/ x.kind = "AddParty") /\ Set(r, y("authorize_p2p"))
        \/ Set(r, y("sign"))
    BY <1>7, <2>1
  <2> QED BY <1>6, <2>1, <2>2, <2>3
<1> QED BY <1>5, <1>7

----------------------------------------------------------------------------
(* A run starts with at least one peer to ask.                             *)
LEMMA SomePeer ==
  ASSUME PartyInv, NEW c \in Coordinators, NEW k, NEW P \in SUBSET Nodes, P # {}
  PROVE  PeerQuorum(k, c, P) \in Nat /\ PeerQuorum(k, c, P) >= 1
<1>1. IsFiniteSet(P)
  BY MembersAssumption, FS_Subset
<1>2. Cardinality(P) \in Nat /\ Cardinality(P) >= 1
  BY <1>1, FS_CardinalityType, FS_EmptySet
<1>3. cache[c].threshold \in Nat
  BY DEF PartyInv, PartyTypes, CachedParty
<1> QED BY <1>2, <1>3 DEF PeerQuorum, Min2
(* carried_confirmation_threshold returns a threshold.                     *)
LEMMA CarriedNat ==
  ASSUME NEW a \in Nat, NEW b \in Nat, NEW h \in Nat, NEW p \in Nat
  PROVE  Carried(a, b, h, p) \in Nat
  BY DEF Carried, Min2
(* A run that starts holds nothing yet.                                    *)
LEMMA BeginFine ==
  ASSUME PartyInv, NEW r \in Runs, NEW x \in PartyRun, Begin(r, x),
         x.quorum >= 1, x.coord \in Nodes, x.kind # "none", x.pc = "idle",
         x.kind = "AddParty" => x.target \in Nodes \ {x.coord},
         x.readDns = NoDns, x.readP2p = NoP2p, x.coord \in x.members, x.answered = {}
  PROVE  PartyInv' /\ Lands
<1> DEFINE v == "export"  y == [x EXCEPT !.pc = v]
<1>1. Set(r, y) /\ UNCHANGED <<dns, p2p, legacy, cache>>
  BY DEF Begin
<1>2. v \in Steps \cup {"idle", "failed", "over"}
  BY DEF Steps
<1>3. /\ y \in PartyRun /\ y.pc = v
      /\ y.kind = x.kind /\ y.coord = x.coord /\ y.target = x.target /\ y.quorum = x.quorum
      /\ y.readDns = x.readDns /\ y.readP2p = x.readP2p
      /\ y.members = x.members /\ y.answered = x.answered
  <2> HIDE DEF v
  <2> QED BY <1>2, Zenon DEF PartyRun
<1> HIDE DEF y
<1>4. Stage(y) \notin Proposed \cup Clearing /\ y.pc \notin Submitted
  BY <1>3 DEF Stage, Proposed, Clearing, Submitted
<1>5. Pinned(y)
  <2>1. dns.serial >= 1 /\ p2p.serial >= 1 /\ dns.serial \in Nat /\ p2p.serial \in Nat
    BY DEF PartyInv, PartyTypes, DnsHead, P2pHead
  <2> QED BY <1>3, <1>4, <2>1, NoRunFacts DEF Pinned
<1>6. Consented(y)
  BY <1>3, <1>4 DEF Consented
<1>7. Keyed(y) /\ Hosted(y)
  BY <1>3, <1>4 DEF Keyed, Hosted
<1> QED BY <1>1, <1>3, <1>5, <1>6, <1>7, StaySet DEF RunFine
(* A kick, an addition and a change of thresholds start.                   *)
LEMMA PartyStart ==
  ASSUME PartyInv, NEW r \in Runs, Start(r)
  PROVE  PartyInv' /\ Lands
<1>1. PICK c \in Coordinators, n \in Asked :
        \/ \E t \in Nodes : StartKick(r, c, t, n) \/ StartAddParty(r, c, t, n)
        \/ \E f \in Asked : StartChangeThreshold(r, c, n, f)
  BY DEF Start
<1> DEFINE e == NoRun  h == cache[c].hosts
<1>2. /\ c \in Nodes /\ n \in Nat /\ h \in SUBSET Nodes
      /\ cache[c].threshold \in Nat /\ cache[c].confirmation \in Nat
  BY MembersAssumption, ThresholdsAssumption DEF PartyInv, PartyTypes, CachedParty
<1>3. \A P \in SUBSET Nodes : IsFiniteSet(P) /\ Cardinality(P) \in Nat
  BY MembersAssumption, FS_Subset, FS_CardinalityType
<1>4. /\ e \in PartyRun /\ e.pc = "idle" /\ e.readDns = NoDns /\ e.readP2p = NoP2p
      /\ e.answered = {}
  BY NoRunFacts
<1>5. ASSUME NEW t \in Nodes, StartKick(r, c, t, n) PROVE PartyInv' /\ Lands
  <2> DEFINE m == (h \cup {c}) \ {t}  k == "Kick"
             f == Carried(cache[c].threshold, cache[c].confirmation, Cardinality(m), n)
             q == PeerQuorum(k, c, m \ {c})
             x == [e EXCEPT !.kind = k, !.coord = c, !.target = t, !.thr = n, !.members = m,
                            !.conf = f, !.quorum = q]
  <2>1. t # c /\ t \in h /\ Cardinality(h \ {c}) >= 2 /\ Begin(r, x) /\ c \in m
    BY <1>5 DEF StartKick
  <2>2. m \in SUBSET Nodes /\ f \in Nat
    BY <1>2, <1>3, CarriedNat
  <2>3. m \ {c} # {}
    <3>1. IsFiniteSet(h \ {c}) /\ Cardinality(h \ {c}) \in Nat
      BY <1>2, <1>3
    <3>2. h \ {c} # {t}
      BY <2>1, <3>1, FS_Singleton
    <3> QED BY <2>1, <3>2
  <2>4. q \in Nat /\ q >= 1
    BY <1>2, <2>3, SomePeer
  <2>5. k \in {"Kick", "AddParty", "ChangeThreshold"} /\ e \in PartyRun
    BY <1>4
  <2>6. /\ x \in PartyRun /\ x.kind = k /\ x.coord = c /\ x.target = t /\ x.quorum = q
        /\ x.pc = e.pc /\ x.readDns = e.readDns /\ x.readP2p = e.readP2p
        /\ x.members = m /\ x.answered = e.answered
    <3> HIDE DEF e, k, m, f, q
    <3> QED BY <1>2, <2>2, <2>4, <2>5, Zenon DEF PartyRun
  <2> HIDE DEF x, q
  <2> QED BY <1>2, <1>4, <2>1, <2>4, <2>6, BeginFine
<1>6. ASSUME NEW t \in Nodes, StartAddParty(r, c, t, n) PROVE PartyInv' /\ Lands
  <2> DEFINE m == h \cup {t}  k == "AddParty"
             f == Carried(cache[c].threshold, cache[c].confirmation, Cardinality(h) + 1, n)
             q == PeerQuorum(k, c, m \ {c})
             x == [e EXCEPT !.kind = k, !.coord = c, !.target = t, !.thr = n, !.members = m,
                            !.conf = f, !.quorum = q]
  <2>1. t # c /\ Begin(r, x) /\ c \in m
    BY <1>6 DEF StartAddParty
  <2>2. m \in SUBSET Nodes /\ f \in Nat
    <3>1. Cardinality(h) + 1 \in Nat
      BY <1>2, <1>3
    <3> QED BY <1>2, <3>1, CarriedNat
  <2>3. q \in Nat /\ q >= 1
    BY <1>2, <2>1, SomePeer
  <2>4. k \in {"Kick", "AddParty", "ChangeThreshold"} /\ e \in PartyRun
    BY <1>4
  <2>5. /\ x \in PartyRun /\ x.kind = k /\ x.coord = c /\ x.target = t /\ x.quorum = q
        /\ x.pc = e.pc /\ x.readDns = e.readDns /\ x.readP2p = e.readP2p
        /\ x.members = m /\ x.answered = e.answered
    <3> HIDE DEF e, k, m, f, q
    <3> QED BY <1>2, <2>2, <2>3, <2>4, Zenon DEF PartyRun
  <2> HIDE DEF x, q
  <2> QED BY <1>2, <1>4, <2>1, <2>3, <2>5, BeginFine
<1>7. ASSUME NEW f \in Asked, StartChangeThreshold(r, c, n, f) PROVE PartyInv' /\ Lands
  <2> DEFINE k == "ChangeThreshold"  q == PeerQuorum(k, c, h \ {c})
             x == [e EXCEPT !.kind = k, !.coord = c, !.thr = n, !.conf = f, !.members = h,
                            !.quorum = q]
  <2>1. c \in h /\ Cardinality(h) >= 2 /\ Begin(r, x) /\ f \in Nat
    BY <1>7, ThresholdsAssumption DEF StartChangeThreshold
  <2>2. h \ {c} # {}
    <3>1. h # {c}
      BY <1>2, <1>3, <2>1, FS_Singleton
    <3> QED BY <2>1, <3>1
  <2>3. q \in Nat /\ q >= 1
    BY <1>2, <2>2, SomePeer
  <2>4. k \in {"Kick", "AddParty", "ChangeThreshold"} /\ e \in PartyRun
    BY <1>4
  <2>5. /\ x \in PartyRun /\ x.kind = k /\ x.coord = c /\ x.quorum = q
        /\ x.pc = e.pc /\ x.readDns = e.readDns /\ x.readP2p = e.readP2p
        /\ x.members = h /\ x.answered = e.answered
    <3> HIDE DEF e, k, h, q
    <3> QED BY <1>2, <2>1, <2>3, <2>4, Zenon DEF PartyRun
  <2> HIDE DEF x, q
  <2> QED BY <1>2, <1>4, <2>1, <2>3, <2>5, BeginFine
<1> QED BY <1>1, <1>5, <1>6, <1>7

----------------------------------------------------------------------------
(* The party as first created.                                             *)
LEMMA PartyInit == TopologyInit => PartyInv
<1> SUFFICES ASSUME TopologyInit PROVE PartyInv
  OBVIOUS
<1>1. /\ Members \subseteq Nodes /\ IsFiniteSet(Members) /\ Members # {}
      /\ NamespaceThreshold \in Nat /\ ConfirmationThreshold \in Nat
  <2>1. Members \subseteq Nodes /\ IsFiniteSet(Members)
    BY MembersAssumption, FS_Subset
  <2>2. /\ NamespaceThreshold \in 1..Cardinality(Members)
        /\ ConfirmationThreshold \in 1..Cardinality(Members)
    BY ThresholdsAssumption
  <2>3. Cardinality(Members) \in Nat
    BY <2>1, FS_CardinalityType
  <2> QED BY <2>1, <2>2, <2>3, FS_EmptySet
<1>2. /\ dns \in DnsHead /\ dns.serial = 1 /\ p2p \in P2pHead /\ p2p.serial = 1
      /\ p2p.hosts = Members /\ p2p.marked = {}
  BY <1>1 DEF TopologyInit, DnsHead, P2pHead
<1>3. KeysFollowHosts
  BY <1>1, MembersAssumption DEF TopologyInit, KeysFollowHosts
<1>4. cache \in [Coordinators -> CachedParty]
  BY <1>1 DEF TopologyInit, CachedParty
<1>5. run \in [Runs -> PartyRun] /\ \A r \in Runs : run[r] = NoRun
  BY NoRunFacts DEF TopologyInit
<1>6. RunFine(NoRun)
  <2>1. Stage(NoRun) \notin Proposed \cup Clearing \cup Early /\ NoRun.pc \notin Submitted
    BY NoRunFacts DEF Stage, Proposed, Clearing, Submitted, Early
  <2>2. Pinned(NoRun)
    BY <1>2, <2>1, NoRunFacts DEF Pinned
  <2>3. Consented(NoRun) /\ Keyed(NoRun) /\ Hosted(NoRun)
    BY <2>1, NoRunFacts DEF Consented, Keyed, Hosted
  <2> QED BY <2>2, <2>3 DEF RunFine
<1> QED BY <1>1, <1>2, <1>3, <1>4, <1>5, <1>6 DEF PartyInv, PartyTypes
(* Every step keeps the invariant, and a head only lands as it should.     *)
LEMMA PartyNext == PartyInv /\ [TopologyNext]_topologyVars => PartyInv' /\ Lands
<1> SUFFICES ASSUME PartyInv, [TopologyNext]_topologyVars PROVE PartyInv' /\ Lands
  OBVIOUS
<1>1. ASSUME NEW r \in Runs, Step(r) PROVE PartyInv' /\ Lands
  <2>1. CASE Start(r) \/ ExportState(r) \/ ReadNamespace(r) \/ BuildProposals(r)
    BY <2>1, PartyStart, PartyReads, PartyBuildProposals
  <2>2. CASE AuthorizeDns(r) \/ AuthorizeP2p(r) \/ SubmitProposals(r) \/ SubmitDns(r) \/ SubmitP2p(r)
    BY <2>2, PartyAuthorizeDns, PartyAuthorizeP2p, PartySubmitProposals, PartySubmitDns, PartySubmitP2p
  <2>3. CASE ConfirmDns(r) \/ ConfirmP2p(r) \/ ConfirmClear(r)
           \/ ReadClear(r) \/ AuthorizeClear(r) \/ SubmitClear(r)
    BY <2>3, PartyConfirms, PartyReadClear, PartyAuthorizeClear, PartySubmitClear
  <2>4. CASE Complete(r) \/ Fail(r) \/ Dismiss(r) \/ Retry(r)
    BY <2>4, PartyEnds, PartyRetry
  <2>5. CASE \E n \in Nodes : SignProposals(r, n) \/ SignClear(r, n) \/ RetireLegacyKeys(r, n)
    BY <2>5, PartySigns, PartyAround
  <2> QED BY <1>1, <2>1, <2>2, <2>3, <2>4, <2>5 DEF Step
<1> QED BY <1>1, PartyAround DEF TopologyNext
(* The inductive invariant holds throughout.                               *)
LEMMA PartyInvariant == TopologySpec => []PartyInv
  BY PartyInit, PartyNext, PTL DEF TopologySpec

(* The keys that sign for the party are those of its hosts after any       *)
(* sequence of kicks, additions and changes of its thresholds.             *)
THEOREM KeysSafety == TopologySpec => []KeysFollowHosts
<1>1. PartyInv => KeysFollowHosts
  BY DEF PartyInv
<1> QED BY <1>1, PartyInvariant, PTL

(* No run overwrites what another landed since it read the head, but for a *)
(* clear that Canton numbered after the head had moved.                    *)
THEOREM UpdateSafety == TopologySpec => NoLostUpdate
<1>1. Lands =>
        /\ dns' # dns => \E r \in Runs : run'[r].dnsTx = dns' /\ run'[r].readDns = dns
        /\ p2p' # p2p => \E r \in Runs : 
               run'[r].p2pTx = p2p' /\ (run'[r].readP2p = p2p \/ Renumbered(run'[r]))
  BY DEF Lands
<1> QED BY <1>1, PartyInvariant, PartyNext, PTL DEF TopologySpec, NoLostUpdate

(* No head changes before a peer accepted the change.                      *)
THEOREM ConsentSafety == TopologySpec => PeerConsents
<1>1. Lands =>
        /\ dns' # dns => \E r \in Runs : run'[r].dnsTx = dns' /\ run'[r].answered # {}
        /\ p2p' # p2p => \E r \in Runs : /\ run'[r].p2pTx = p2p'
                                         /\ \/ run'[r].answered # {}
                                            \/ dns.threshold < run[r].readDns.threshold
  BY DEF Lands
<1> QED BY <1>1, PartyInvariant, PartyNext, PTL DEF TopologySpec, PeerConsents

(* A mapping that the peers accepted leaves the namespace's threshold in   *)
(* reach of the owners that host the party; a renumbered clear need not.   *)
THEOREM QuorumSafety == TopologySpec => QuorumKept
<1>1. Lands =>
        (/\ p2p' # p2p /\ ~solo' /\ ~\E r \in Runs : Renumbered(run'[r]) /\ run'[r].p2pTx = p2p'
         /\ dns.threshold <= Cardinality(dns.owners \cap Active(p2p))
         => dns.threshold <= Cardinality(dns.owners \cap Active(p2p')))
  BY DEF Lands
<1> QED BY <1>1, PartyInvariant, PartyNext, PTL DEF TopologySpec, QuorumKept
=============================================================================
