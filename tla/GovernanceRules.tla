-------------------------- MODULE GovernanceRules --------------------------
(***************************************************************************)
(* The on-ledger governance contracts of package governance-core:          *)
(* template GovernanceRules (Rules.daml), its two kinds of confirmation    *)
(* (GovernanceSelfConfirmation, GovernanceConfirmation), the               *)
(* GovernableAction interface (Action.daml) and the audit record           *)
(* GovernanceExecutionResult.                                              *)
(*                                                                         *)
(* One action is one ledger transaction: Daml commits every consequence of *)
(* an exercised choice or none of them, so each `require` of a choice and  *)
(* of the choices it exercises in turn is a conjunct of the guard.         *)
(*                                                                         *)
(* Replacing the rules archives their contract id; a submission naming an  *)
(* archived id is rejected, so every choice below is exercised on the      *)
(* current rules.  Contract ids of archived confirmations are reused,      *)
(* which is sound because no contract keeps the id of a confirmation.      *)
(***************************************************************************)
EXTENDS Integers, FiniteSets

CONSTANTS
    Party,          \* parties that may appear as member, proposer or observer
    Proposal,       \* contract ids of GovernableAction proposals
    Cid,            \* contract ids of confirmations: bounds how many are live
    SelfActions,    \* the GovernanceSelfAction values that are put to a vote
    InitMembers, InitThreshold, InitTimeout, InitProposers,
                    \* the fields of the rules contract as first created
    MinTimeout,     \* `seconds 10`, the least action confirmation timeout
    MaxTime         \* bound on ledger time

(* The values of the closed enum GovernanceSelfAction.                     *)
GovernanceSelfAction ==
    [type : {"AddMemberAndSetThreshold", "RemoveMemberAndSetThreshold"},
     member : Party, newThreshold : Int]
    \cup [type : {"SetThreshold"}, newThreshold : Int]
    \cup [type : {"SetTimeout"}, newTimeout : Int]
    \cup [type : {"AddAdditionalProposer", "RemoveAdditionalProposer"},
          additionalProposer : Party]
    \cup [type : {"SetDisclosureObservers"}, observers : SUBSET Party]
    \cup [type : {"CancelAction"}, proposal : Proposal]

(* The template's ensure clause: no contract is created that violates it.  *)
Ensure(r) ==
    /\ r.members # {}
    /\ r.threshold >= 1
    /\ r.threshold <= Cardinality(r.members)
    /\ r.timeout >= MinTimeout

ASSUME PartyAssumption == IsFiniteSet(Party)
ASSUME SelfActionsAssumption == SelfActions \subseteq GovernanceSelfAction
ASSUME BoundsAssumption == MinTimeout \in Nat \ {0} /\ MaxTime \in Nat
ASSUME InitAssumption ==
    /\ InitMembers \subseteq Party /\ InitMembers # {}
    /\ InitProposers \subseteq Party /\ InitProposers \cap InitMembers = {}
    /\ InitThreshold \in 1 .. Cardinality(InitMembers)
    /\ InitTimeout \in Nat /\ InitTimeout >= MinTimeout

VARIABLES
    rules,      \* the live GovernanceRules contract
    proposals,  \* per proposal id: status, proposer, and whether it names us
    confs,      \* live GovernanceConfirmation contracts
    selfConfs,  \* live GovernanceSelfConfirmation contracts
    results,    \* GovernanceExecutionResult contracts
    now         \* ledger time

vars == <<rules, proposals, confs, selfConfs, results, now>>

Rules == [members : SUBSET Party, threshold : Int, timeout : Int,
          additionalProposers : SUBSET Party,
          disclosureObservers : SUBSET Party]

ProposalState ==
    [status : {"none", "live", "executed", "cancelled"},
     proposer : Party, here : BOOLEAN]

Confirmation == [cid : Cid, confirmer : Party, proposal : Proposal,
                 expiresAt : Int]
SelfConfirmation == [cid : Cid, confirmer : Party,
                     action : GovernanceSelfAction, expiresAt : Int]

ExecutionResult == [proposal : Proposal, executor : Party,
                    confirmers : SUBSET Party, executedAt : Int]

----------------------------------------------------------------------------
Init ==
    /\ rules = [members |-> InitMembers, threshold |-> InitThreshold,
                timeout |-> InitTimeout, additionalProposers |-> InitProposers,
                disclosureObservers |-> {}]
    /\ proposals \in [Proposal -> {s \in ProposalState : s.status = "none"}]
    /\ confs = {} /\ selfConfs = {} /\ results = {}
    /\ now = 0

(* Mutant: a confirmation still counts at the instant it expires.          *)
ConsumableAtExpiry(c) == now <= c.expiresAt

(* A confirmation can be consumed strictly before, and expired strictly    *)
(* after, its expiry.                                                      *)
Consumable(c) == now < c.expiresAt
Expired(c) == now > c.expiresAt

LiveCids == {c.cid : c \in confs} \cup {c.cid : c \in selfConfs}

validateThresholdForMemberCount(count, t) == t >= 1 /\ t <= count

(* No two confirmations of V come from one confirmer.                      *)
UniqueConfirmers(V) == \A c, d \in V : c.confirmer = d.confirmer => c = d

(* members \cup additionalProposers, the parties whose proposals count.    *)
MayPropose(p) == p \in rules.members \/ p \in rules.additionalProposers

----------------------------------------------------------------------------
(* The self-management choices: each archives the rules and creates their  *)
(* replacement.                                                            *)

ReplaceRules(r) == Ensure(r) /\ rules' = r

(* Mutant: an additional proposer may become a member too.                 *)
AddAnyMember(member, newThreshold) ==
    LET newMembers == rules.members \cup {member} IN
    /\ member \notin rules.members
    /\ validateThresholdForMemberCount(Cardinality(newMembers), newThreshold)
    /\ ReplaceRules([rules EXCEPT !.members = newMembers,
                                  !.threshold = newThreshold])

AddMemberAndSetThreshold(member, newThreshold) ==
    LET newMembers == rules.members \cup {member} IN
    /\ member \notin rules.members
    /\ member \notin rules.additionalProposers
    /\ validateThresholdForMemberCount(Cardinality(newMembers), newThreshold)
    /\ ReplaceRules([rules EXCEPT !.members = newMembers,
                                  !.threshold = newThreshold])

RemoveMemberAndSetThreshold(member, newThreshold) ==
    LET newMembers == rules.members \ {member} IN
    /\ member \in rules.members
    /\ newMembers # {}
    /\ validateThresholdForMemberCount(Cardinality(newMembers), newThreshold)
    /\ ReplaceRules([rules EXCEPT !.members = newMembers,
                                  !.threshold = newThreshold])

SetThreshold(newThreshold) ==
    /\ validateThresholdForMemberCount(Cardinality(rules.members), newThreshold)
    /\ ReplaceRules([rules EXCEPT !.threshold = newThreshold])

SetActionConfirmationTimeout(newTimeout) ==
    /\ newTimeout >= MinTimeout
    /\ ReplaceRules([rules EXCEPT !.timeout = newTimeout])

AddAdditionalProposer(p) ==
    /\ p \notin rules.additionalProposers
    /\ p \notin rules.members
    /\ ReplaceRules([rules EXCEPT !.additionalProposers = @ \cup {p}])

RemoveAdditionalProposer(p) ==
    /\ p \in rules.additionalProposers
    /\ ReplaceRules([rules EXCEPT !.additionalProposers = @ \ {p}])

SetDisclosureObservers(observers) ==
    ReplaceRules([rules EXCEPT !.disclosureObservers = observers])

(* GovernableAction_Cancel by the governance party.                        *)
CancelAction(p) ==
    /\ proposals[p].status = "live"
    /\ proposals[p].here
    /\ proposals' = [proposals EXCEPT ![p].status = "cancelled"]

(* The case of ExecuteGovernanceAction: one disjunct per self-action.      *)
Dispatch(a) ==
    \/ /\ \/ /\ a.type = "AddMemberAndSetThreshold"
             /\ AddMemberAndSetThreshold(a.member, a.newThreshold)
          \/ /\ a.type = "RemoveMemberAndSetThreshold"
             /\ RemoveMemberAndSetThreshold(a.member, a.newThreshold)
          \/ /\ a.type = "SetThreshold"
             /\ SetThreshold(a.newThreshold)
          \/ /\ a.type = "SetTimeout"
             /\ SetActionConfirmationTimeout(a.newTimeout)
          \/ /\ a.type = "AddAdditionalProposer"
             /\ AddAdditionalProposer(a.additionalProposer)
          \/ /\ a.type = "RemoveAdditionalProposer"
             /\ RemoveAdditionalProposer(a.additionalProposer)
          \/ /\ a.type = "SetDisclosureObservers"
             /\ SetDisclosureObservers(a.observers)
       /\ UNCHANGED proposals
    \/ /\ a.type = "CancelAction"
       /\ CancelAction(a.proposal)
       /\ UNCHANGED rules

----------------------------------------------------------------------------
(* Self-management: confirm, execute, expire, cancel.                      *)

ConfirmGovernanceAction(confirmer, action) ==
    /\ MayPropose(confirmer)
    /\ \E cid \in Cid \ LiveCids :
         selfConfs' = selfConfs \cup
             {[cid |-> cid, confirmer |-> confirmer, action |-> action,
               expiresAt |-> now + rules.timeout]}
    /\ UNCHANGED <<rules, proposals, confs, results, now>>

(* Mutant: additional proposers' confirmations count as votes.             *)
AllVotes(S) == S

(* The votes ExecuteGovernanceAction counts among the confirmations listed *)
(* in the choice: additional proposers' are consumed but not counted.      *)
MemberVotes(S) == {c \in S : c.confirmer \in rules.members}

ExecuteGovernanceAction(executor, action, S) ==
    /\ executor \in rules.members
    /\ \A c \in S : Consumable(c)
    /\ \A c \in S : c.action = action
    /\ UniqueConfirmers(MemberVotes(S))
    /\ Cardinality(MemberVotes(S)) >= rules.threshold
    /\ Dispatch(action)
    /\ selfConfs' = selfConfs \ S
    /\ UNCHANGED <<confs, results, now>>

ExpireGovernanceSelfConfirmation(member, c) ==
    /\ member \in rules.members
    /\ Expired(c)
    /\ selfConfs' = selfConfs \ {c}
    /\ UNCHANGED <<rules, proposals, confs, results, now>>

(* GovernanceSelfConfirmation_Cancel, by the confirmer, at any time.       *)
CancelSelfConfirmation(c) ==
    /\ selfConfs' = selfConfs \ {c}
    /\ UNCHANGED <<rules, proposals, confs, results, now>>

----------------------------------------------------------------------------
(* Domain actions through the GovernableAction interface.                  *)

(* Any party can create a proposal contract: its proposer alone signs it,  *)
(* and the contract may name another governance party.                     *)
Propose(p) ==
    /\ proposals[p].status = "none"
    /\ proposals' = [proposals EXCEPT ![p].status = "live"]
    /\ UNCHANGED <<rules, confs, selfConfs, results, now>>

ProposerCancel(p) ==
    /\ proposals[p].status = "live"
    /\ proposals' = [proposals EXCEPT ![p].status = "cancelled"]
    /\ UNCHANGED <<rules, confs, selfConfs, results, now>>

ConfirmAction(confirmer, p) ==
    /\ confirmer \in rules.members
    /\ proposals[p].status = "live"
    /\ proposals[p].here
    /\ MayPropose(proposals[p].proposer)
    /\ \E cid \in Cid \ LiveCids :
         confs' = confs \cup
             {[cid |-> cid, confirmer |-> confirmer, proposal |-> p,
               expiresAt |-> now + rules.timeout]}
    /\ UNCHANGED <<rules, proposals, selfConfs, results, now>>

(* Mutant: the execute choice does not consume the proposal.               *)
ExecuteKeeping(p) ==
    proposals[p].status = "live" /\ proposals[p].here /\ UNCHANGED proposals

(* GovernableAction_Execute archives the proposal; what executeImpl does   *)
(* lies outside the governance contracts.                                  *)
ExecuteProposal(p) ==
    /\ proposals[p].status = "live"
    /\ proposals[p].here
    /\ proposals' = [proposals EXCEPT ![p].status = "executed"]

ExecuteConfirmedAction(executor, p, S) ==
    /\ executor \in rules.members
    /\ \A c \in S : Consumable(c)
    /\ \A c \in S : c.proposal = p
    /\ \A c \in S : c.confirmer \in rules.members
    /\ UniqueConfirmers(S)
    /\ Cardinality(S) >= rules.threshold
    /\ ExecuteProposal(p)
    /\ confs' = confs \ S
    /\ results' = results \cup
           {[proposal |-> p, executor |-> executor,
             confirmers |-> {c.confirmer : c \in S}, executedAt |-> now]}
    /\ UNCHANGED <<rules, selfConfs, now>>

ExpireConfirmation(member, c) ==
    /\ member \in rules.members
    /\ Expired(c)
    /\ confs' = confs \ {c}
    /\ UNCHANGED <<rules, proposals, selfConfs, results, now>>

(* GovernanceConfirmation_Cancel, by the confirmer, at any time.           *)
CancelConfirmation(c) ==
    /\ confs' = confs \ {c}
    /\ UNCHANGED <<rules, proposals, selfConfs, results, now>>

Tick ==
    /\ now < MaxTime
    /\ now' = now + 1
    /\ UNCHANGED <<rules, proposals, confs, selfConfs, results>>

Next ==
    \/ \E q \in Party, a \in SelfActions : ConfirmGovernanceAction(q, a)
    \/ \E q \in Party, a \in SelfActions, S \in SUBSET selfConfs :
           ExecuteGovernanceAction(q, a, S)
    \/ \E q \in Party, c \in selfConfs : ExpireGovernanceSelfConfirmation(q, c)
    \/ \E c \in selfConfs : CancelSelfConfirmation(c)
    \/ \E p \in Proposal : Propose(p) \/ ProposerCancel(p)
    \/ \E q \in Party, p \in Proposal : ConfirmAction(q, p)
    \/ \E q \in Party, p \in Proposal, S \in SUBSET confs :
           ExecuteConfirmedAction(q, p, S)
    \/ \E q \in Party, c \in confs : ExpireConfirmation(q, c)
    \/ \E c \in confs : CancelConfirmation(c)
    \/ Tick

Spec == Init /\ [][Next]_vars

----------------------------------------------------------------------------
(* Every contract field has its type.                                      *)
TypeOK ==
    /\ rules \in Rules
    /\ proposals \in [Proposal -> ProposalState]
    /\ confs \subseteq Confirmation
    /\ selfConfs \subseteq SelfConfirmation
    /\ results \subseteq ExecutionResult
    /\ now \in Nat

(* The live rules can always be acted on: there is a member, and there are *)
(* enough members to reach the threshold.  (Ensure re-checks what          *)
(* validateThresholdForMemberCount and the other requires establish.)      *)
RulesWellFormed == Ensure(rules)

(* No party is both a member and an additional proposer.  The ensure       *)
(* clause does not say so: it rests on AddMemberAndSetThreshold and        *)
(* AddAdditionalProposer each checking the other's set.                    *)
ProposersNotMembers == rules.members \cap rules.additionalProposers = {}

(* A proposal is executed at most once, never after it was cancelled, and  *)
(* only if it names this governance, whatever confirmations outlive it     *)
(* (Rules.daml, note on cancellation: "ExecuteConfirmedAction fails on     *)
(* them").                                                                 *)
ExecutedOnce ==
    /\ \A r, s \in results : r.proposal = s.proposal => r = s
    /\ \A r \in results : /\ proposals[r.proposal].status = "executed"
                          /\ proposals[r.proposal].here

(* The members that voted among the confirmations in S: at least a         *)
(* threshold of current members, each with a confirmation of its own that  *)
(* is still valid.                                                         *)
Quorum(S) ==
    Cardinality({c.confirmer : c \in {d \in S : /\ d.confirmer \in rules.members
                                               /\ now < d.expiresAt}})
        >= rules.threshold

(* The rules change only by consuming, in the same transaction, a quorum   *)
(* of the current members' unexpired confirmations of one self-action,     *)
(* however membership, threshold and timeout moved since they were cast.   *)
RulesChangeNeedsQuorum ==
    [][rules' # rules =>
          \E a \in SelfActions :
              Quorum({c \in selfConfs \ selfConfs' : c.action = a})]_vars

(* An execution result is recorded only by consuming a quorum of the       *)
(* current members' unexpired confirmations of that very proposal, and it  *)
(* names only current members as confirmers.                               *)
ExecutionNeedsQuorum ==
    [][\A r \in results' \ results :
          /\ Quorum({c \in confs \ confs' : c.proposal = r.proposal})
          /\ r.confirmers \subseteq rules.members]_vars
=============================================================================
