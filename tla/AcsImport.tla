----------------------------- MODULE AcsImport -----------------------------
(***************************************************************************)
(* The replication of a party's active contracts onto the new member of an *)
(* add-party run.  The new member leaves the synchronizer before its       *)
(* signature can let the party be authorized onto it, pulls the export     *)
(* block by block from the coordinator straight into Canton's import, and  *)
(* comes back once the import has landed or was given up.                  *)
(*                                                                         *)
(* The source serves a forward-only stream of `size` blocks of data and a  *)
(* trailer, and keeps the last block for a replay.  Requests time out and  *)
(* may still be handled later, both nodes stop and start again, and Canton *)
(* may refuse a call, drop an import or break off an export.               *)
(***************************************************************************)
EXTENDS Naturals, Sequences, FiniteSets

CONSTANTS
    Sizes,          \* the sizes, in blocks, the party's contracts may have
    BlockTries,     \* acs_block_fetch_attempts, with the client's own retries
    FirstTries,     \* RESTART_FIRST_BLOCK_ATTEMPTS
    MaxAttempts,    \* acs_import_attempts_in_window
    MaxTimeouts,    \* bound on the requests that time out
    MaxCrashes,     \* bound on the new member's restarts
    MaxResumes,     \* bound on the coordinator's restarts and the run's retries
    MaxBreaks,      \* bound on the exports that break off
    CantonFails     \* may a participant refuse a call, drop an import, restart?

ASSUME SizesAssumption == Sizes \subseteq Nat
ASSUME TriesAssumption == {BlockTries, FirstTries, MaxAttempts} \subseteq Nat \ {0}
ASSUME BoundsAssumption == {MaxTimeouts, MaxCrashes, MaxResumes, MaxBreaks} \subseteq Nat
ASSUME SwitchAssumption == CantonFails \in BOOLEAN

VARIABLES
    size,       \* blocks of the party's contracts
    coord,      \* the coordinator's step: "sign", "submit", "export", "sync", "down"
    session,    \* the open export: the blocks it has served, those its stream
                \* yields; id 0 is none
    opened,     \* the exports opened so far
    broken,     \* history: the exports whose stream failed
    late,       \* blocks asked for by requests whose sender timed out
    pc,         \* the new member's loop
    pull,       \* the pull in progress: block, tries, attempt, result
    blk,        \* the block in hand
    fed,        \* the exports of the blocks fed to the open import
    anyFed,     \* any_fed
    marked,     \* the in-flight marker
    quarantined,
    connected, manual, hosted,      \* the participant
    acs,        \* what it was given of the contracts: "none", "partial", or
                \* "imported" once it was told that this is all
    gaveUp,     \* history: was a transfer given up?
    unrecorded, \* history: could a quarantine not be written?
    budget      \* what is left of the bounds

source == <<size, coord, session, opened, broken>>
pulling == <<pull, blk, fed, anyFed>>
disk == <<marked, quarantined, unrecorded>>
participant == <<connected, manual, hosted>>
vars == <<size, coord, session, opened, broken, late, pc, pull, blk, fed, anyFed, marked,
          quarantined, unrecorded, connected, manual, hosted, acs, gaveUp, budget>>

NoSession == [id |-> 0, served |-> 0, yields |-> 0]
NoBlock == [end |-> FALSE, id |-> 0, total |-> 0]
FirstPull == [seq |-> 1, tries |-> 1, attempt |-> 1, ok |-> FALSE]

Init ==
    /\ size \in Sizes /\ coord = "sign"
    /\ session = NoSession /\ opened = 0 /\ broken = {} /\ late = {}
    /\ pc = "poll" /\ pull = FirstPull /\ blk = NoBlock /\ fed = <<>> /\ anyFed = FALSE
    /\ marked = FALSE /\ quarantined = FALSE /\ unrecorded = FALSE
    /\ connected = TRUE /\ manual = FALSE /\ hosted = FALSE
    /\ acs = "none" /\ gaveUp = FALSE
    /\ budget = [timeouts |-> MaxTimeouts, crashes |-> MaxCrashes, resumes |-> MaxResumes]

----------------------------------------------------------------------------
(* The source.                                                             *)

(* ExportSession.block: block n, or, after the last one, the trailer over  *)
(* what the stream has yielded.                                            *)
Block(s, n) ==
    [end |-> n > s.yields, id |-> s.id, total |-> IF n > s.yields THEN s.yields ELSE 0]

Refuse(s) == [ok |-> FALSE, session |-> s, block |-> NoBlock, broken |-> broken]
Answer(s, n) ==
    [ok |-> TRUE, session |-> [s EXCEPT !.served = n], block |-> Block(s, n), broken |-> broken]

(* The stream fails while the next block is read from it.  The session     *)
(* stays, and its stream is at its end: what had arrived of the block, if  *)
(* anything, is the last that is served.                                   *)
Breaks(n) ==
    IF Cardinality(broken) < MaxBreaks /\ session.id \notin broken \cup {0}
       /\ n = session.served + 1 /\ n <= session.yields + 1
    THEN {[Refuse([session EXCEPT !.yields = y]) EXCEPT !.broken = @ \cup {session.id}] :
              y \in {session.served, n} \cap 0..session.yields}
    ELSE {}

(* next_acs_block and ExportSession.block *)
NextBlock(n) ==
    IF n <= 1 /\ session.served > 1 THEN {Refuse(NoSession)}
    ELSE IF session.id # 0 /\ n \in {session.served, session.served + 1}
         THEN {Answer(session, n)} \cup Breaks(n) ELSE {Refuse(session)}

OpenSession ==
    /\ session' = [id |-> opened + 1, served |-> 0, yields |-> size]
    /\ opened' = opened + 1
    /\ UNCHANGED broken

SourceOnly == UNCHANGED <<size, late, pc, pulling, disk, connected, manual, acs, gaveUp, budget>>

(* SubmitProposals: the mapping takes effect, then the export is opened.   *)
Authorize ==
    /\ coord = "submit"
    /\ hosted' = TRUE /\ coord' = "export"
    /\ UNCHANGED <<session, opened, broken>> /\ SourceOnly

OpenExport ==
    /\ coord = "export" /\ OpenSession /\ coord' = "sync"
    /\ UNCHANGED hosted /\ SourceOnly

(* SyncAcs: a discarded or lost export is opened again.                    *)
ReopenExport ==
    /\ coord = "sync" /\ session.id = 0 /\ OpenSession
    /\ UNCHANGED <<coord, hosted>> /\ SourceOnly

(* open_export_session fails, and the run with it.                         *)
ExportFails ==
    /\ CantonFails /\ (coord = "export" \/ (coord = "sync" /\ session.id = 0))
    /\ coord' = "down" /\ session' = NoSession
    /\ UNCHANGED <<opened, broken, hosted>> /\ SourceOnly

(* The coordinator restarts: the stream does not outlive its process.      *)
RestartSource ==
    /\ coord \in {"sync", "down"} /\ hosted /\ budget.resumes > 0
    /\ coord' = "sync" /\ session' = NoSession
    /\ budget' = [budget EXCEPT !.resumes = @ - 1]
    /\ UNCHANGED <<size, opened, broken, late, pc, pulling, disk, participant, acs, gaveUp>>

(* A request whose sender gave up on it is handled.                        *)
HandleLate(n) ==
    /\ n \in late /\ late' = late \ {n}
    /\ \E reply \in NextBlock(n) : session' = reply.session /\ broken' = reply.broken
    /\ UNCHANGED <<size, coord, opened, pc, pulling, disk, participant, acs, gaveUp, budget>>

----------------------------------------------------------------------------
(* The new member: SignAddParty and open_import_window.                    *)

Goto(l) == pc' = l
Kept == UNCHANGED <<late, budget>>

SignProposals ==
    /\ pc = "poll" /\ coord = "sign"
    /\ Goto("manual")
    /\ UNCHANGED <<source, pulling, disk, participant, acs, gaveUp>> /\ Kept

(* Mutant: a participant that restarts comes back into the window.         *)
SetNothing ==
    /\ pc = "manual" /\ Goto("mark")
    /\ UNCHANGED <<source, pulling, disk, participant, acs, gaveUp>> /\ Kept

SetManual ==
    /\ pc = "manual" /\ manual' = TRUE /\ Goto("mark")
    /\ UNCHANGED <<source, pulling, disk, connected, hosted, acs, gaveUp>> /\ Kept

MarkWindow ==
    /\ pc = "mark" /\ marked' = TRUE /\ Goto("leave")
    /\ UNCHANGED <<source, pulling, quarantined, unrecorded, participant, acs, gaveUp>> /\ Kept

LeaveSynchronizer ==
    /\ pc = "leave" /\ connected' = FALSE /\ Goto("send")
    /\ UNCHANGED <<source, pulling, disk, manual, hosted, acs, gaveUp>> /\ Kept

(* A step of the window that fails is tried again from the command.        *)
OpenWindowFails ==
    /\ CantonFails /\ pc \in {"manual", "leave"} /\ Goto("poll")
    /\ UNCHANGED <<source, pulling, disk, participant, acs, gaveUp>> /\ Kept

SendSignatures ==
    /\ pc = "send" /\ Goto("poll")
    /\ \/ coord' = "submit" /\ UNCHANGED budget
       \/ /\ budget.timeouts > 0 /\ budget' = [budget EXCEPT !.timeouts = @ - 1]
          /\ UNCHANGED coord
    /\ UNCHANGED <<size, session, opened, broken, late, pulling, disk, participant, acs, gaveUp>>

----------------------------------------------------------------------------
(* import_party_acs: up to the disconnect every failure ends the peer.     *)

Step == UNCHANGED <<source, disk, participant, acs, gaveUp>> /\ Kept

BeginImport ==
    /\ pc = "poll" /\ coord = "sync"
    /\ IF quarantined THEN Goto("failed") /\ UNCHANGED pulling
       ELSE /\ Goto("first") /\ pull' = FirstPull /\ fed' = <<>> /\ anyFed' = FALSE
            /\ blk' = NoBlock
    /\ Step

PollGivesUp ==
    /\ pc = "poll" /\ coord = "down" /\ Goto("failed")
    /\ UNCHANGED pulling /\ Step

(* Where the loop goes with the answer to its request for a block.         *)
After == [first |-> "preflight", again |-> "stream", fetch |-> "feed"]
Tries == [first |-> BlockTries, again |-> FirstTries, fetch |-> BlockTries]
Exhausted == [first |-> "failed", again |-> "giveup", fetch |-> "broke"]

Asking == pc \in DOMAIN After
Asked == IF pc = "fetch" THEN pull.seq ELSE 1

(* Mutant: a refused block is asked for until it comes.                    *)
AskForEver(l) == pc' = l /\ UNCHANGED pull

(* The request failed: again, or the pull is over.                         *)
AskAgain(l) ==
    IF pull.tries < Tries[l] THEN pull' = [pull EXCEPT !.tries = @ + 1] /\ UNCHANGED pc
    ELSE Goto(Exhausted[l]) /\ UNCHANGED pull

(* The block arrives.  A trailer over nothing, which says that the party   *)
(* has no contracts, ends the import before anything is disconnected.      *)
Receive ==
    /\ Asking /\ coord = "sync"
    /\ \E reply \in NextBlock(Asked) :
        LET empty == pc = "first" /\ reply.block.end IN
        /\ reply.ok
        /\ session' = reply.session /\ blk' = reply.block /\ broken' = reply.broken
        /\ pull' = [pull EXCEPT !.tries = 1, !.ok = empty]
        /\ IF empty THEN Goto("close") /\ acs' = "imported"
           ELSE Goto(After[pc]) /\ UNCHANGED acs
    /\ UNCHANGED <<size, coord, opened, fed, anyFed, disk, participant, gaveUp>> /\ Kept

(* The source refuses, or its stream fails, which ends the first request   *)
(* of a step at once.                                                      *)
Refused ==
    /\ Asking
    /\ \E reply \in NextBlock(Asked) :
        /\ coord # "sync" \/ ~reply.ok
        /\ session' = reply.session /\ broken' = reply.broken
    /\ IF pc = "first" THEN Goto("failed") /\ UNCHANGED pull ELSE AskAgain(pc)
    /\ UNCHANGED <<size, coord, opened, blk, fed, anyFed, disk, participant, acs, gaveUp>> /\ Kept

(* No answer in time; the request may be handled yet.                      *)
TimesOut ==
    /\ Asking /\ budget.timeouts > 0
    /\ budget' = [budget EXCEPT !.timeouts = @ - 1]
    /\ late' = late \cup {Asked}
    /\ AskAgain(pc)
    /\ UNCHANGED <<source, blk, fed, anyFed, disk, participant, acs, gaveUp>>

(* Packages and connection are checked, the marker is there already, and   *)
(* the synchronizers still connected are left.                             *)
Preflight ==
    /\ pc = "preflight" /\ connected' = FALSE /\ Goto("stream")
    /\ UNCHANGED <<source, pulling, disk, manual, hosted, acs, gaveUp>> /\ Kept

PreflightFails ==
    /\ CantonFails /\ pc = "preflight" /\ Goto("failed")
    /\ UNCHANGED pulling /\ Step

----------------------------------------------------------------------------
(* run_import, the attempts, and the end of the window.                    *)

OpenStream ==
    /\ pc = "stream" /\ fed' = <<>> /\ pull' = [pull EXCEPT !.seq = 1] /\ Goto("feed")
    /\ UNCHANGED <<blk, anyFed>> /\ Step

(* The admin channel cannot be opened: fatal, with nothing fed.            *)
OpenStreamFails ==
    /\ CantonFails /\ pc = "stream" /\ Goto("giveup")
    /\ UNCHANGED pulling /\ Step

Feed ==
    /\ pc = "feed" /\ ~connected
    /\ IF blk.end THEN Goto("end") /\ UNCHANGED <<pull, fed, anyFed, acs>>
       ELSE /\ fed' = Append(fed, blk.id) /\ anyFed' = TRUE
            /\ acs' = IF acs = "none" THEN "partial" ELSE acs
            /\ pull' = [pull EXCEPT !.seq = @ + 1] /\ Goto("fetch")
    /\ UNCHANGED <<blk, source, disk, participant, gaveUp>> /\ Kept

(* Canton imports nothing while it is connected; what was sent counts.     *)
FeedConnected ==
    /\ pc = "feed" /\ connected
    /\ anyFed' = (anyFed \/ ~blk.end) /\ Goto("giveup")
    /\ UNCHANGED <<pull, blk, fed>> /\ Step

(* The trailer's length and hash, which cover what its export served.      *)
Matches == fed = [i \in 1..blk.total |-> blk.id]

(* Mutant: what was fed is not compared with the trailer.                  *)
CloseUnverified ==
    /\ pc = "end" /\ acs' = "imported" /\ Goto("close") /\ pull' = [pull EXCEPT !.ok = TRUE]
    /\ UNCHANGED <<blk, fed, anyFed, source, disk, participant, gaveUp>> /\ Kept

CloseStream ==
    /\ pc = "end"
    /\ IF Matches
       THEN acs' = "imported" /\ Goto("close") /\ pull' = [pull EXCEPT !.ok = TRUE]
       ELSE Goto("giveup") /\ UNCHANGED <<acs, pull>>
    /\ UNCHANGED <<blk, fed, anyFed, source, disk, participant, gaveUp>> /\ Kept

(* import_rpc_error: "not now" is worth another attempt, a verdict on the  *)
(* content is not.                                                         *)
ImportRefused ==
    /\ CantonFails /\ pc \in {"fetch", "end"}
    /\ Goto("broke") \/ Goto("giveup")
    /\ UNCHANGED pulling /\ Step

TransferBroke ==
    /\ pc = "broke"
    /\ IF pull.attempt < MaxAttempts
       THEN Goto("again") /\ pull' = [FirstPull EXCEPT !.attempt = pull.attempt + 1]
       ELSE Goto("giveup") /\ UNCHANGED pull
    /\ UNCHANGED <<blk, fed, anyFed>> /\ Step

(* Mutant: only what the last attempt fed counts.                          *)
GiveUpOnLast ==
    /\ pc = "giveup" /\ quarantined' = (quarantined \/ fed # <<>>)
    /\ gaveUp' = TRUE /\ Goto("close")
    /\ UNCHANGED <<pulling, source, marked, unrecorded, participant, acs>> /\ Kept

(* give_up_transfer: a quarantine that cannot be written is only reported, *)
(* and the window is closed all the same.                                  *)
GiveUp ==
    /\ pc = "giveup" /\ gaveUp' = TRUE /\ Goto("close")
    /\ \/ quarantined' = (quarantined \/ anyFed) /\ UNCHANGED unrecorded
       \/ anyFed /\ unrecorded' = TRUE /\ UNCHANGED quarantined
    /\ UNCHANGED <<pulling, source, marked, participant, acs>> /\ Kept

(* close_import_window: manual connection goes off first.                  *)
ManualOff ==
    /\ pc = "close" /\ Goto("back")
    /\ manual' = FALSE \/ (CantonFails /\ manual' = manual)
    /\ UNCHANGED <<source, pulling, disk, connected, hosted, acs, gaveUp>> /\ Kept

(* A reconnect skips a synchronizer that is on manual connection.          *)
Reconnect ==
    /\ pc = "back"
    /\ \/ ~manual /\ connected' = TRUE /\ Goto(IF pull.ok THEN "done" ELSE "failed")
       \/ (manual \/ CantonFails) /\ Goto("failed") /\ UNCHANGED connected
    /\ UNCHANGED <<source, pulling, disk, manual, hosted, acs, gaveUp>> /\ Kept

----------------------------------------------------------------------------
(* Restarts, and the operator's retry of a failed run.                     *)

(* An import in progress breaks; a synchronizer on manual connection stays *)
(* disconnected, any other is connected again.                             *)
ParticipantRestarts ==
    /\ CantonFails
    /\ connected' = ~manual
    /\ pc' = IF pc \in {"feed", "fetch", "end"} THEN "broke" ELSE pc
    /\ UNCHANGED <<source, pulling, disk, manual, hosted, acs, gaveUp>> /\ Kept

(* The new member's DecMan stops, and its peer loop is fired again.        *)
Crash ==
    /\ pc \notin {"poll", "done", "failed"} /\ budget.crashes > 0
    /\ budget' = [budget EXCEPT !.crashes = @ - 1]
    /\ Goto("poll") /\ pull' = FirstPull /\ blk' = NoBlock /\ fed' = <<>> /\ anyFed' = FALSE
    /\ UNCHANGED <<source, late, disk, participant, acs, gaveUp>>

RetryRun ==
    /\ pc = "failed" /\ hosted /\ budget.resumes > 0
    /\ budget' = [budget EXCEPT !.resumes = @ - 1]
    /\ Goto("poll") /\ coord' = "sync" /\ session' = NoSession
    /\ UNCHANGED <<size, opened, broken, late, pulling, disk, participant, acs, gaveUp>>

Source == Authorize \/ OpenExport \/ ReopenExport

Window == SignProposals \/ SetManual \/ MarkWindow \/ LeaveSynchronizer \/ SendSignatures

Import ==
    \/ BeginImport \/ PollGivesUp \/ Receive \/ Refused \/ Preflight
    \/ OpenStream \/ Feed \/ FeedConnected \/ CloseStream \/ TransferBroke \/ GiveUp
    \/ ManualOff \/ Reconnect

Failure ==
    \/ ExportFails \/ OpenWindowFails \/ TimesOut \/ PreflightFails \/ OpenStreamFails
    \/ ImportRefused \/ ParticipantRestarts \/ RestartSource \/ Crash

Next ==
    \/ Source \/ Window \/ Import \/ Failure \/ RetryRun
    \/ \E n \in late : HandleLate(n)

(* The coordinator's loop and the new member's go on as long as they run.  *)
Spec == Init /\ [][Next]_vars /\ WF_vars(Source) /\ WF_vars(Window \/ Import)

----------------------------------------------------------------------------
(* Every variable is in its domain.                                        *)
TypeOK ==
    /\ size \in Sizes /\ coord \in {"sign", "submit", "export", "sync", "down"}
    /\ session \in [id : 0..opened, served : 0..size + 2, yields : 0..size]
    /\ broken \subseteq 1..opened /\ late \subseteq 1..size + 1
    /\ pc \in {"poll", "manual", "mark", "leave", "send", "preflight", "stream", "feed",
               "end", "broke", "giveup", "close", "back", "done", "failed"} \cup DOMAIN After
    /\ pull \in [seq : 1..size + 1, tries : Nat, attempt : 1..MaxAttempts,
                ok : BOOLEAN]
    /\ Len(fed) <= size
    /\ acs \in {"none", "partial", "imported"}
    /\ {anyFed, marked, quarantined, unrecorded, connected, manual, hosted, gaveUp} \subseteq BOOLEAN

(* "Nothing is stored, so this is the only evidence that what arrived is   *)
(* what was exported": an import that is reported complete fed Canton all  *)
(* that one export served, though late requests and restarts of the source *)
(* move the stream under the pull; and that is the whole of the party's    *)
(* contracts unless the stream of this export failed, which the source     *)
(* takes for its end.                                                      *)
ImportedIsOneExport ==
    pull.ok => \E x \in 1..opened :
        /\ \A i \in DOMAIN fed : fed[i] = x
        /\ Len(fed) = size \/ x \in broken

(* From the moment the mapping is effective the new member must not        *)
(* journal the party's traffic until the ACS import has landed or was      *)
(* given up, whichever process restarts in between.                        *)
OffWhileHostingWithoutAcs ==
    hosted /\ connected => acs = "imported" \/ gaveUp

(* A peer's run that ended with its participant back on the synchronizer   *)
(* and part of a snapshot in it has the participant quarantined for the    *)
(* party, whichever attempt fed it, as long as DecMan lived to count and   *)
(* its database took the record.                                           *)
PartialIsQuarantined ==
    pc = "failed" /\ connected /\ acs = "partial"
    /\ budget.crashes = MaxCrashes /\ ~unrecorded => quarantined

(* A transfer that began comes to an end, and the peer's run with it.      *)
ImportEnds == pc = "first" ~> pc \in {"done", "failed"}

(* "A participant found still disconnected is not reconnected, the import  *)
(* simply continues inside the window it is already in": a run in which no *)
(* request is lost and Canton does its part imports the contracts, also    *)
(* when the new member's DecMan restarts in its window.                    *)
ImportCompletes == <>(pc = "done")
=============================================================================
