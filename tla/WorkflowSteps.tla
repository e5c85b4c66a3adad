--------------------------- MODULE WorkflowSteps ---------------------------
(***************************************************************************)
(* The step lists of the multi-party workflows: what each implementation   *)
(* of trait WorkflowStep answers for each step, and what the matching arm  *)
(* of the coordinator's loop does there.  A step is                        *)
(*                                                                         *)
(*   gate   "connect":  is_waiting_for_peers, left when a quorum connected *)
(*          "complete": requires_peers, left when a quorum answered        *)
(*          "coord":    left by the coordinator's own loop                 *)
(*          "done":     next() is None                                     *)
(*   cmd    to_command is Some: polling peers are sent a command           *)
(*   reply  how a peer answers that command: an upload, a bare status      *)
(*          update, or not at all                                          *)
(*   own    whether the loop's arm does a member's work of its own; at a   *)
(*          coord step, whether it first makes sure that the work of the   *)
(*          step it takes from is done                                     *)
(*   takes  the gate whose uploads the arm saves and uses (0: none)        *)
(*   gives  the gate whose command payload the arm publishes (0: none)     *)
(***************************************************************************)
EXTENDS Naturals, Sequences

Gates == {"connect", "complete", "coord", "done"}
Replies == {"upload", "status", "none"}
StepRecord == [name : STRING, gate : Gates, cmd : BOOLEAN, reply : Replies,
               own : BOOLEAN, takes : Nat, gives : Nat]

WaitingForPeers ==
    [name |-> "WaitingForPeers", gate |-> "connect", cmd |-> FALSE,
     reply |-> "none", own |-> FALSE, takes |-> 0, gives |-> 0]
Complete ==
    [name |-> "Complete", gate |-> "done", cmd |-> TRUE,
     reply |-> "none", own |-> FALSE, takes |-> 0, gives |-> 0]
Gate(name, reply, own) ==
    [name |-> name, gate |-> "complete", cmd |-> TRUE, reply |-> reply,
     own |-> own, takes |-> 0, gives |-> 0]
Coord(name, takes, gives) ==
    [name |-> name, gate |-> "coord", cmd |-> FALSE, reply |-> "none",
     own |-> FALSE, takes |-> takes, gives |-> gives]

(* The coordinator waits for no one here, but peers have a command.        *)
RetireLegacyKeys ==
    [Coord("RetireLegacyKeys", 0, 0) EXCEPT !.cmd = TRUE, !.reply = "status"]

KickSteps ==
    << WaitingForPeers, Coord("ExportState", 0, 0),
       Coord("CreateProposals", 0, 4), Gate("SignProposals", "upload", FALSE),
       Coord("SubmitKick", 4, 0), RetireLegacyKeys, Complete >>

ChangeThresholdSteps ==
    << WaitingForPeers, Coord("ExportState", 0, 0),
       Coord("CreateProposals", 0, 4), Gate("SignProposals", "upload", FALSE),
       Coord("Submit", 4, 0), RetireLegacyKeys, Complete >>

ContractsSteps ==
    << WaitingForPeers, Coord("PrepareSubmissions", 0, 3),
       Gate("SignSubmissions", "upload", TRUE),
       Coord("ExecuteSubmissions", 3, 0), Complete >>

(* CreateProposals begins with ensure_coordinator_keys.                    *)
OnboardingSteps ==
    << WaitingForPeers, Gate("GenerateKeys", "upload", TRUE),
       [Coord("CreateProposals", 2, 4) EXCEPT !.own = TRUE],
       Gate("SignDns", "upload", FALSE), Coord("SubmitDns", 4, 6),
       Gate("SignP2p", "upload", FALSE), Coord("SubmitFinal", 6, 0), Complete >>

(* The coordinator uploads its own DARs last, in the Complete arm.         *)
DarsSteps ==
    << WaitingForPeers, Gate("UploadDars", "status", FALSE),
       [Complete EXCEPT !.own = TRUE] >>

StepsOf ==
    [Kick |-> KickSteps, ChangeThreshold |-> ChangeThresholdSteps,
     Contracts |-> ContractsSteps, Onboarding |-> OnboardingSteps,
     Dars |-> DarsSteps]

(* The gate whose payload the loop sets before its first iteration: the    *)
(* onboarding config and the DAR files.                                    *)
InitialPayloadOf ==
    [Kick |-> 0, ChangeThreshold |-> 0, Contracts |-> 0, Onboarding |-> 2,
     Dars |-> 2]

(* Kinds that need every peer whatever the party's threshold is.           *)
RequiresAllOf ==
    [Kick |-> FALSE, ChangeThreshold |-> TRUE, Contracts |-> FALSE,
     Onboarding |-> TRUE, Dars |-> TRUE]
=============================================================================
