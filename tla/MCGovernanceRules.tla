--------------------------- MODULE MCGovernanceRules ---------------------------
(* The TLC instance of GovernanceRules.                                    *)
EXTENDS GovernanceRules, TLC

CONSTANTS a, b, c, p1

(* A committee that rotates its members, moves its threshold and timeout,  *)
(* grants and revokes the right to propose, resets its observers, and may  *)
(* cancel the proposal it votes on.                                        *)
Actions ==
    {[type |-> "AddMemberAndSetThreshold", member |-> c, newThreshold |-> 2],
     [type |-> "RemoveMemberAndSetThreshold", member |-> b, newThreshold |-> 1],
     [type |-> "SetThreshold", newThreshold |-> 2],
     [type |-> "SetTimeout", newTimeout |-> 2],
     [type |-> "AddAdditionalProposer", additionalProposer |-> c],
     [type |-> "RemoveAdditionalProposer", additionalProposer |-> c],
     [type |-> "SetDisclosureObservers", observers |-> {}],
     [type |-> "CancelAction", proposal |-> p1]}

CidSymmetry == Permutations(Cid)
=============================================================================
