--------------------------- MODULE AcsImport_proofs ---------------------------
(* Proofs, for every size of the export, every number of tries, attempts,  *)
(* timeouts, restarts and retries, that the new member is off while it     *)
(* hosts the party without its contracts, that an import reported complete *)
(* is all that one export served, and that what a failed transfer left in  *)
(* the participant is quarantined.                                         *)
EXTENDS AcsImport, Integers, TLAPS

(* The import has landed, or the transfer was given up.                    *)
Landed == acs = "imported" \/ gaveUp

(* The participant is on manual connection and off the synchronizer before *)
(* the signatures leave, and comes back only at the end of a transfer that *)
(* has landed.                                                             *)
WindowInv ==
  /\ manual \in BOOLEAN /\ connected \in BOOLEAN
  /\ pc \in {"close", "back"} => Landed
  /\ pc \in {"mark", "leave", "send"} => manual \/ Landed
  /\ pc = "send" => ~connected \/ Landed
  /\ coord # "sign" => (manual /\ ~connected) \/ Landed
  /\ hosted => coord # "sign"

(* The window is closed and nothing is signed at first.                    *)
LEMMA InitWindow == Init => WindowInv
  BY DEF Init, WindowInv

(* A pull that is over fails, is given up or is broken.                    *)
LEMMA AskMoves ==
  ASSUME Asking, AskAgain(pc)
  PROVE  pc' = pc \/ pc' \in {"failed", "giveup", "broke"}
  BY DEF Asking, After, AskAgain, Exhausted, Goto

(* Every step keeps the window shut until the transfer has landed.         *)
LEMMA WindowStep == WindowInv /\ [Next]_vars => WindowInv'
<1> SUFFICES ASSUME WindowInv, [Next]_vars PROVE WindowInv'
  OBVIOUS
<1>u. ASSUME UNCHANGED <<pc, coord, manual, connected, acs, gaveUp, hosted>> PROVE WindowInv'
  BY <1>u DEF WindowInv, Landed
<1>1. CASE Authorize
  BY <1>1 DEF Authorize, SourceOnly, pulling, disk, WindowInv, Landed
<1>2. CASE OpenExport
  BY <1>2
     DEF OpenExport, SourceOnly, OpenSession, pulling, disk, WindowInv, Landed
<1>3. CASE ReopenExport
  BY <1>3
     DEF ReopenExport, SourceOnly, OpenSession, pulling, disk, WindowInv,
     Landed
<1>4. CASE SignProposals
  BY <1>4
     DEF SignProposals, Kept, Goto, source, pulling, disk, participant,
     WindowInv, Landed
<1>5. CASE SetManual
  BY <1>5 DEF SetManual, Kept, Goto, source, pulling, disk, WindowInv, Landed
<1>6. CASE MarkWindow
  BY <1>6
     DEF MarkWindow, Kept, Goto, source, pulling, participant, WindowInv,
     Landed
<1>7. CASE LeaveSynchronizer
  BY <1>7
     DEF LeaveSynchronizer, Kept, Goto, source, pulling, disk, WindowInv,
     Landed
<1>8. CASE SendSignatures
  BY <1>8
     DEF SendSignatures, Goto, pulling, disk, participant, WindowInv, Landed
<1>9. CASE BeginImport
  BY <1>9
     DEF BeginImport, Step, Goto, Kept, source, pulling, disk, participant,
     WindowInv, Landed
<1>10. CASE PollGivesUp
  BY <1>10
     DEF PollGivesUp, Step, Goto, Kept, source, pulling, disk, participant,
     WindowInv, Landed
<1>11. CASE Receive
  BY <1>11
     DEF Receive, Kept, Goto, After, Asking, disk, participant, WindowInv,
     Landed
<1>12. CASE Refused
  <2>1. pc' = pc \/ pc' \in {"failed", "giveup", "broke"}
    BY <1>12, AskMoves DEF Refused, Goto
  <2>2. Asking => pc \in {"first", "again", "fetch"}
    BY DEF Asking, After
  <2> QED
    BY <1>12, <2>1, <2>2 DEF Refused, Kept, source, disk, participant, WindowInv, Landed
<1>13. CASE Preflight
  BY <1>13 DEF Preflight, Kept, Goto, source, pulling, disk, WindowInv, Landed
<1>14. CASE OpenStream
  BY <1>14
     DEF OpenStream, Step, Goto, Kept, source, disk, participant, WindowInv,
     Landed
<1>15. CASE Feed
  BY <1>15 DEF Feed, Kept, Goto, source, disk, participant, WindowInv, Landed
<1>16. CASE FeedConnected
  BY <1>16
     DEF FeedConnected, Step, Goto, Kept, source, disk, participant,
     WindowInv, Landed
<1>17. CASE CloseStream
  BY <1>17
     DEF CloseStream, Kept, Goto, source, disk, participant, WindowInv, Landed
<1>18. CASE TransferBroke
  BY <1>18
     DEF TransferBroke, Step, Goto, Kept, source, disk, participant,
     WindowInv, Landed
<1>19. CASE GiveUp
  BY <1>19
     DEF GiveUp, Kept, Goto, source, pulling, participant, WindowInv, Landed
<1>20. CASE ManualOff
  BY <1>20 DEF ManualOff, Kept, Goto, source, pulling, disk, WindowInv, Landed
<1>21. CASE Reconnect
  BY <1>21 DEF Reconnect, Kept, Goto, source, pulling, disk, WindowInv, Landed
<1>22. CASE ExportFails
  BY <1>22 DEF ExportFails, SourceOnly, pulling, disk, WindowInv, Landed
<1>23. CASE OpenWindowFails
  BY <1>23
     DEF OpenWindowFails, Kept, Goto, source, pulling, disk, participant,
     WindowInv, Landed
<1>24. CASE TimesOut
  <2>1. pc' = pc \/ pc' \in {"failed", "giveup", "broke"}
    BY <1>24, AskMoves DEF TimesOut, Goto
  <2>2. Asking => pc \in {"first", "again", "fetch"}
    BY DEF Asking, After
  <2> QED
    BY <1>24, <2>1, <2>2 DEF TimesOut, Kept, source, disk, participant, WindowInv, Landed
<1>25. CASE PreflightFails
  BY <1>25
     DEF PreflightFails, Step, Goto, Kept, source, pulling, disk, participant,
     WindowInv, Landed
<1>26. CASE OpenStreamFails
  BY <1>26
     DEF OpenStreamFails, Step, Goto, Kept, source, pulling, disk,
     participant, WindowInv, Landed
<1>27. CASE ImportRefused
  BY <1>27
     DEF ImportRefused, Step, Goto, Kept, source, pulling, disk, participant,
     WindowInv, Landed
<1>28. CASE ParticipantRestarts
  BY <1>28
     DEF ParticipantRestarts, Kept, source, pulling, disk, WindowInv, Landed
<1>29. CASE RestartSource
  BY <1>29 DEF RestartSource, pulling, disk, participant, WindowInv, Landed
<1>30. CASE Crash
  BY <1>30 DEF Crash, Goto, source, disk, participant, WindowInv, Landed
<1>31. CASE RetryRun
  BY <1>31 DEF RetryRun, Goto, pulling, disk, participant, WindowInv, Landed
<1>32. ASSUME NEW n \in late, HandleLate(n) PROVE WindowInv'
  BY <1>32 DEF HandleLate, pulling, disk, participant, WindowInv, Landed
<1>33. CASE UNCHANGED vars
  BY <1>33, <1>u DEF vars
<1> QED
  BY <1>1, <1>2, <1>3, <1>4, <1>5, <1>6, <1>7, <1>8, <1>9, <1>10, <1>11,
     <1>12, <1>13, <1>14, <1>15, <1>16, <1>17, <1>18, <1>19, <1>20, <1>21,
     <1>22, <1>23, <1>24, <1>25, <1>26, <1>27, <1>28, <1>29, <1>30, <1>31,
     <1>32, <1>33
     DEF Next, Source, Window, Import, Failure

(* From the moment the mapping may be effective the new member is off the  *)
(* synchronizer until the import has landed or was given up: whichever     *)
(* process restarts, however often.                                        *)
THEOREM OffSafety == Spec => []OffWhileHostingWithoutAcs
<1>1. WindowInv => OffWhileHostingWithoutAcs
  BY DEF WindowInv, Landed, OffWhileHostingWithoutAcs
<1> QED
  BY <1>1, InitWindow, WindowStep, PTL DEF Spec

----------------------------------------------------------------------------
Pull == [seq : Nat, tries : Nat, attempt : Nat, ok : BOOLEAN]
Sessions == [id : Nat, served : Nat, yields : Nat]

(* The session of an export whose stream has not failed yields all of it,  *)
(* and so does the trailer of such an export.                              *)
SessionOK(s) == s \in Sessions /\ s.id <= opened /\ (s.id \notin broken \cup {0} => s.yields = size)
BlockOK(b) ==
  b.id \in 1..opened /\ b.total \in Nat /\ (b.end /\ b.id \notin broken => b.total = size)

(* What the import has been fed is what one export has served.             *)
OneExport ==
  \E x \in 1..opened : (\A i \in DOMAIN fed : fed[i] = x) /\ (Len(fed) = size \/ x \in broken)

(* A block in hand comes from an export that was opened, a first request   *)
(* has fed nothing, and a pull that is complete is over.                   *)
PullInv ==
  /\ opened \in Nat /\ size \in Nat /\ broken \subseteq 1..opened
  /\ SessionOK(session)
  /\ pull \in Pull
  /\ pc = "first" => fed = <<>>
  /\ pc \in {"preflight", "stream", "feed", "end"} => BlockOK(blk)
  /\ pc = "end" => blk.end
  /\ pull.ok => pc \in {"poll", "manual", "mark", "leave", "send", "close", "back", "done",
                         "failed"}
  /\ pull.ok => OneExport

(* A new pull is not complete.                                             *)
LEMMA FirstPullIs == FirstPull \in Pull /\ FirstPull.ok = FALSE
  BY DEF FirstPull, Pull

(* Counting does not complete it.                                          *)
LEMMA PullCounts ==
  ASSUME NEW q \in Pull, NEW n \in Nat
  PROVE  /\ [q EXCEPT !.seq = n] \in Pull /\ [q EXCEPT !.tries = n] \in Pull
         /\ [FirstPull EXCEPT !.attempt = n] \in Pull
         /\ q.seq + 1 \in Nat /\ q.tries + 1 \in Nat /\ q.attempt + 1 \in Nat
<1>1. [q EXCEPT !.seq = n] \in Pull
  BY DEF Pull
<1>2. [q EXCEPT !.tries = n] \in Pull
  BY DEF Pull
<1>3. [FirstPull EXCEPT !.attempt = n] \in Pull
  BY DEF Pull, FirstPull
<1>4. q.seq + 1 \in Nat /\ q.tries + 1 \in Nat /\ q.attempt + 1 \in Nat
  BY DEF Pull
<1> QED
  BY <1>1, <1>2, <1>3, <1>4

(* Its result stays what it was.                                           *)
LEMMA PullCountsOk ==
  ASSUME NEW q \in Pull, NEW n \in Nat
  PROVE  /\ [q EXCEPT !.seq = n].ok = q.ok /\ [q EXCEPT !.tries = n].ok = q.ok
         /\ [FirstPull EXCEPT !.attempt = n].ok = FALSE
  BY DEF Pull, FirstPull

(* A result is what is written.                                            *)
LEMMA PullResult ==
  ASSUME NEW q \in Pull, NEW b \in BOOLEAN
  PROVE  /\ [q EXCEPT !.ok = b] \in Pull /\ [q EXCEPT !.ok = b].ok = b
         /\ [q EXCEPT !.tries = 1, !.ok = b] \in Pull
         /\ [q EXCEPT !.tries = 1, !.ok = b].ok = b
  BY DEF Pull

(* The parts of a block and of a reply.                                    *)
LEMMA BlockIs ==
  ASSUME NEW s, NEW n
  PROVE  /\ Block(s, n).id = s.id
         /\ n > s.yields => Block(s, n).end /\ Block(s, n).total = s.yields
         /\ ~(n > s.yields) => ~Block(s, n).end /\ Block(s, n).total = 0
         /\ Answer(s, n).ok = TRUE /\ Answer(s, n).block = Block(s, n)
         /\ Refuse(s).ok = FALSE
<1>1. n > s.yields => Block(s, n).end /\ Block(s, n).total = s.yields
  BY DEF Block
<1>2. ~(n > s.yields) => ~Block(s, n).end /\ Block(s, n).total = 0
  BY DEF Block
<1>3. Answer(s, n).ok = TRUE /\ Answer(s, n).block = Block(s, n) /\ Refuse(s).ok = FALSE
  BY DEF Answer, Refuse
<1>4. Block(s, n).id = s.id
  BY DEF Block
<1> QED
  BY <1>1, <1>2, <1>3, <1>4

(* A reply leaves the session as it should be, and a block that is served  *)
(* is of it.                                                               *)
LEMMA NextBlockIs ==
  ASSUME PullInv, NEW n, NEW reply \in NextBlock(n)
  PROVE  /\ reply.broken \subseteq 1..opened /\ broken \subseteq reply.broken
         /\ reply.session \in Sessions /\ reply.session.id <= opened
         /\ reply.session.id \notin reply.broken \cup {0} => reply.session.yields = size
         /\ reply.ok => reply.broken = broken /\ BlockOK(reply.block)
<1>0. /\ session \in Sessions /\ session.id \in Nat /\ session.served \in Nat /\ opened \in Nat
      /\ session.yields \in Nat /\ session.id <= opened /\ broken \subseteq 1..opened
      /\ session.id \notin broken \cup {0} => session.yields = size
  BY DEF PullInv, Sessions, SessionOK
<1>1. CASE reply = Refuse(NoSession)
  BY <1>0, <1>1 DEF Refuse, NoSession, Sessions
<1>2. CASE reply = Refuse(session)
  BY <1>0, <1>2 DEF Refuse
<1>3. CASE reply = Answer(session, n) /\ session.id # 0 /\ n \in Nat
  <2>1. reply.session = [session EXCEPT !.served = n] /\ reply.broken = broken
    BY <1>3 DEF Answer
  <2>2. reply.block = Block(session, n)
    BY <1>3 DEF Answer
  <2>3. /\ [session EXCEPT !.served = n] \in Sessions
        /\ [session EXCEPT !.served = n].id = session.id
        /\ [session EXCEPT !.served = n].yields = session.yields
    BY <1>0, <1>3 DEF Sessions
  <2>4. BlockOK(reply.block)
    <3>1. CASE n > session.yields
      <4>1. /\ reply.block.id = session.id /\ reply.block.total = session.yields
        BY <2>2, <3>1, BlockIs
      <4> QED
        BY <1>0, <1>3, <4>1 DEF BlockOK
    <3>2. CASE ~(n > session.yields)
      <4>1. reply.block.id = session.id /\ ~reply.block.end /\ reply.block.total = 0
        BY <2>2, <3>2, BlockIs
      <4> QED
        BY <1>0, <1>3, <4>1 DEF BlockOK
    <3> QED
      BY <3>1, <3>2
  <2> QED
    BY <1>0, <1>3, <2>1, <2>3, <2>4
<1>4. CASE reply \in Breaks(n)
  <2>1. PICK y \in 0..session.yields :
           /\ reply = [Refuse([session EXCEPT !.yields = y]) EXCEPT !.broken = @ \cup {session.id}]
           /\ session.id # 0
    BY <1>4 DEF Breaks
  <2>2. /\ [session EXCEPT !.yields = y] \in Sessions
        /\ [session EXCEPT !.yields = y].id = session.id
    BY <1>0, <2>1 DEF Sessions
  <2>3. /\ reply.session = [session EXCEPT !.yields = y] /\ reply.ok = FALSE
        /\ reply.broken = broken \cup {session.id}
    BY <2>1 DEF Refuse
  <2>4. session.id \in 1..opened
    BY <1>0, <2>1
  <2>5. reply.broken \subseteq 1..opened /\ broken \subseteq reply.broken
    BY <1>0, <2>3, <2>4
  <2>6. reply.session.id = session.id /\ session.id \in reply.broken
    BY <2>2, <2>3
  <2> QED
    BY <1>0, <2>2, <2>3, <2>5, <2>6
<1> QED
  BY <1>0, <1>1, <1>2, <1>3, <1>4 DEF NextBlock

(* An export that breaks takes nothing back.                               *)
LEMMA BrokenGrows ==
  ASSUME PullInv, UNCHANGED <<size, opened>>, broken \subseteq broken'
  PROVE  /\ UNCHANGED blk /\ BlockOK(blk) => BlockOK(blk)'
         /\ UNCHANGED fed /\ OneExport => OneExport'
  BY DEF BlockOK, OneExport

(* Another try of a request leaves the pull's result.                      *)
LEMMA AskKeeps ==
  ASSUME PullInv, Asking, AskAgain(pc)
  PROVE  pull' \in Pull /\ pull'.ok = FALSE
<1>1. pull \in Pull /\ pull.ok = FALSE
  BY DEF PullInv, Asking, After, Pull
<1>2. CASE pull' = pull
  BY <1>1, <1>2
<1>3. CASE pull' = [pull EXCEPT !.tries = @ + 1]
  BY <1>1, <1>3, PullCounts, PullCountsOk
<1> QED
  BY <1>2, <1>3 DEF AskAgain

(* No export is open and nothing is pulled at first.                       *)
LEMMA InitPull == Init => PullInv
  BY SizesAssumption, FirstPullIs DEF Init, PullInv, NoSession, Sessions, SessionOK

(* No step reports an import complete that is not.                         *)
LEMMA PullStep == PullInv /\ [Next]_vars => PullInv'
<1> SUFFICES ASSUME PullInv, [Next]_vars PROVE PullInv'
  OBVIOUS
<1>u. ASSUME UNCHANGED <<size, opened, broken, session, pull, pc, fed, blk>> PROVE PullInv'
  BY <1>u DEF PullInv, OneExport, SessionOK, BlockOK
<1>1. CASE Authorize
  BY <1>1 DEF Authorize, SourceOnly, pulling, disk, PullInv, OneExport, SessionOK, BlockOK
<1>2. CASE OpenExport
  <2>1. opened' = opened + 1 /\ opened' \in Nat
    BY <1>2 DEF OpenExport, OpenSession, PullInv
  <2>2. session' \in Sessions /\ session'.id = opened' /\ session'.yields = size /\ UNCHANGED broken
    BY <1>2, <2>1 DEF OpenExport, OpenSession, Sessions, PullInv
  <2>3. UNCHANGED <<size, pc, pull, blk, fed>>
    BY <1>2 DEF OpenExport, SourceOnly, pulling
  <2>4. \A x \in 1..opened : x \in 1..opened'
    BY <2>1 DEF PullInv
  <2>5. OneExport => OneExport'
    BY <2>2, <2>3, <2>4 DEF OneExport
  <2> QED
    BY <2>1, <2>2, <2>3, <2>4, <2>5 DEF PullInv, SessionOK, BlockOK
<1>3. CASE ReopenExport
  <2>1. opened' = opened + 1 /\ opened' \in Nat
    BY <1>3 DEF ReopenExport, OpenSession, PullInv
  <2>2. session' \in Sessions /\ session'.id = opened' /\ session'.yields = size /\ UNCHANGED broken
    BY <1>3, <2>1 DEF ReopenExport, OpenSession, Sessions, PullInv
  <2>3. UNCHANGED <<size, pc, pull, blk, fed>>
    BY <1>3 DEF ReopenExport, SourceOnly, pulling
  <2>4. \A x \in 1..opened : x \in 1..opened'
    BY <2>1 DEF PullInv
  <2>5. OneExport => OneExport'
    BY <2>2, <2>3, <2>4 DEF OneExport
  <2> QED
    BY <2>1, <2>2, <2>3, <2>4, <2>5 DEF PullInv, SessionOK, BlockOK
<1>4. CASE SignProposals
  BY <1>4
     DEF SignProposals, Kept, Goto, source, pulling, disk, participant,
     PullInv, OneExport, SessionOK, BlockOK
<1>5. CASE SetManual
  BY <1>5 DEF SetManual, Kept, Goto, source, pulling, disk, PullInv, OneExport, SessionOK, BlockOK
<1>6. CASE MarkWindow
  BY <1>6
     DEF MarkWindow, Kept, Goto, source, pulling, participant, PullInv,
     OneExport, SessionOK, BlockOK
<1>7. CASE LeaveSynchronizer
  BY <1>7
     DEF LeaveSynchronizer, Kept, Goto, source, pulling, disk, PullInv,
     OneExport, SessionOK, BlockOK
<1>8. CASE SendSignatures
  BY <1>8
     DEF SendSignatures, Goto, pulling, disk, participant, PullInv, OneExport, SessionOK, BlockOK
<1>9. CASE BeginImport
  <2>1. CASE quarantined
    BY <1>9, <2>1 DEF BeginImport, Step, source, Goto, pulling, PullInv, OneExport, SessionOK, BlockOK
  <2>2. CASE ~quarantined
    <3>1. pull' \in Pull /\ ~pull'.ok
      BY <1>9, <2>2, FirstPullIs DEF BeginImport
    <3>2. UNCHANGED <<size, opened, session>> /\ fed' = <<>> /\ pc' = "first"
      BY <1>9, <2>2 DEF BeginImport, Step, source, Goto
    <3>3. UNCHANGED broken
      BY <1>9 DEF BeginImport, Step, source
    <3> QED
      BY <3>1, <3>2, <3>3 DEF PullInv, SessionOK
  <2> QED
    BY <2>1, <2>2
<1>10. CASE PollGivesUp
  BY <1>10
     DEF PollGivesUp, Step, Goto, Kept, source, pulling, disk, participant,
     PullInv, OneExport, SessionOK, BlockOK
<1>11. CASE Receive
  <2>1. UNCHANGED <<size, opened, fed>> /\ Asking
    BY <1>11 DEF Receive
  <2>0. PICK reply \in NextBlock(Asked) :
          LET empty == pc = "first" /\ reply.block.end IN
          /\ reply.ok
          /\ session' = reply.session /\ blk' = reply.block /\ broken' = reply.broken
          /\ pull' = [pull EXCEPT !.tries = 1, !.ok = empty]
          /\ IF empty THEN Goto("close") /\ acs' = "imported"
             ELSE Goto(After[pc]) /\ UNCHANGED acs
    BY <1>11 DEF Receive
  <2> DEFINE b == pc = "first" /\ reply.block.end
  <2>2. /\ broken' = broken /\ broken \subseteq 1..opened
        /\ SessionOK(session)' /\ BlockOK(blk)'
    <3>1. /\ reply.session \in Sessions /\ reply.session.id <= opened
          /\ reply.session.id \notin reply.broken \cup {0} => reply.session.yields = size
          /\ reply.broken = broken /\ BlockOK(reply.block)
      BY <2>0, NextBlockIs
    <3> QED
      BY <2>0, <2>1, <3>1 DEF SessionOK, BlockOK, PullInv
  <2>3. pull' = [pull EXCEPT !.tries = 1, !.ok = b] /\ pull \in Pull /\ b \in BOOLEAN
    BY <2>0 DEF PullInv
  <2>4. /\ b => pc' = "close"
        /\ ~b => pc' \in {"preflight", "stream", "feed"}
    BY <2>0, <2>1 DEF Asking, After, Goto
  <2>5. b => OneExport'
    <3>1. ASSUME b PROVE fed' = <<>>
      BY <2>1, <3>1 DEF PullInv
    <3>2. ASSUME b PROVE blk'.id \in broken \/ size = 0
      <4>1. Asked = 1
        BY <3>2 DEF Asked
      <4>2. \A r \in Breaks(1) : r.ok = FALSE
        BY DEF Breaks, Refuse
      <4>3. reply = Answer(session, 1) /\ session.id # 0
        BY <2>0, <4>1, <4>2, BlockIs DEF NextBlock
      <4>4. blk' = Block(session, 1) /\ blk'.end
        BY <2>0, <3>2, <4>3, BlockIs
      <4>5. session \in Sessions /\ (session.id \notin broken \cup {0} => session.yields = size)
        BY DEF PullInv, SessionOK
      <4>6. session.yields = 0
        <5>1. 1 > session.yields
          BY <4>4, BlockIs
        <5> QED
          BY <4>5, <5>1 DEF Sessions
      <4> QED
        BY <4>3, <4>4, <4>5, <4>6, BlockIs
    <3> QED
      BY <2>1, <2>2, <3>1, <3>2 DEF OneExport, BlockOK
  <2> HIDE DEF b
  <2>6. pull' \in Pull /\ pull'.ok = b
    BY <2>3, PullResult
  <2>7. CASE b
    BY <2>1, <2>2, <2>4, <2>5, <2>6, <2>7 DEF PullInv
  <2>8. CASE ~b
    BY <2>1, <2>2, <2>4, <2>6, <2>8 DEF PullInv
  <2> QED
    BY <2>7, <2>8
<1>12. CASE Refused
  <2>1. Asking /\ UNCHANGED <<size, opened, blk, fed>>
    BY <1>12 DEF Refused
  <2>2. broken' \subseteq 1..opened /\ broken \subseteq broken' /\ SessionOK(session)'
    BY <1>12, <2>1, NextBlockIs DEF Refused, SessionOK
  <2>3. /\ pull' \in Pull /\ ~pull'.ok
        /\ pc' = pc \/ pc' \in {"failed", "giveup", "broke"}
    <3>1. CASE pc' = "failed" /\ UNCHANGED pull
      BY <2>1, <3>1 DEF Asking, After, PullInv
    <3>2. CASE AskAgain(pc)
      BY <2>1, <3>2, AskMoves, AskKeeps
    <3> QED
      BY <1>12, <3>1, <3>2 DEF Refused, Goto
  <2>4. pc \in {"first", "again", "fetch"}
    BY <2>1 DEF Asking, After
  <2> QED
    BY <2>1, <2>2, <2>3, <2>4 DEF PullInv
<1>13. CASE Preflight
  BY <1>13
     DEF Preflight, Kept, Goto, source, pulling, disk, PullInv, OneExport, SessionOK, BlockOK
<1>14. CASE OpenStream
  <2>1. pull' \in Pull /\ pull'.ok = pull.ok
    BY <1>14, PullCounts, PullCountsOk DEF OpenStream, PullInv
  <2>2. UNCHANGED <<size, opened, broken, session, blk>> /\ pc = "stream" /\ pc' = "feed"
    BY <1>14 DEF OpenStream, Step, source, Goto
  <2> QED
    BY <2>1, <2>2 DEF PullInv, SessionOK, BlockOK
<1>15. CASE Feed
  <2>1. CASE blk.end
    BY <1>15, <2>1 DEF Feed, source, Goto, PullInv, SessionOK, BlockOK
  <2>2. CASE ~blk.end
    <3>0. pull' = [pull EXCEPT !.seq = pull.seq + 1] /\ pull \in Pull /\ pull.seq + 1 \in Nat
      BY <1>15, <2>2 DEF Feed, PullInv, Pull
    <3>1. pull' \in Pull /\ pull'.ok = pull.ok
      BY <3>0, PullCounts, PullCountsOk
    <3>2. UNCHANGED <<size, opened, broken, session>> /\ pc = "feed" /\ pc' = "fetch"
      BY <1>15, <2>2 DEF Feed, source, Goto
    <3> QED
      BY <3>1, <3>2 DEF PullInv, SessionOK
  <2> QED
    BY <2>1, <2>2
<1>16. CASE FeedConnected
  BY <1>16
     DEF FeedConnected, Step, Goto, Kept, source, disk, participant, PullInv,
     OneExport, SessionOK, BlockOK
<1>17. CASE CloseStream
  <2>1. UNCHANGED <<size, opened, broken, session, blk, fed>> /\ pc = "end"
    BY <1>17 DEF CloseStream, source
  <2>2. CASE Matches
    <3>1. pull' = [pull EXCEPT !.ok = TRUE] /\ pc' = "close"
      BY <1>17, <2>2 DEF CloseStream, Goto
    <3>2. pull' \in Pull
      BY <3>1, PullResult DEF PullInv
    <3>3. OneExport'
      <4>1. BlockOK(blk) /\ blk.end
        BY <2>1 DEF PullInv
      <4>2. /\ DOMAIN fed = 1..blk.total /\ Len(fed) = blk.total
            /\ \A i \in DOMAIN fed : fed[i] = blk.id
        BY <2>2, <4>1 DEF Matches, BlockOK
      <4> QED
        BY <2>1, <4>1, <4>2 DEF OneExport, BlockOK
    <3> QED
      BY <2>1, <3>1, <3>2, <3>3 DEF PullInv, SessionOK
  <2>3. CASE ~Matches
    BY <1>17, <2>1, <2>3 DEF CloseStream, Goto, PullInv, SessionOK
  <2> QED
    BY <2>2, <2>3
<1>18. CASE TransferBroke
  <2>1. UNCHANGED <<size, opened, broken, session, fed>> /\ pc = "broke" /\ pc' \in {"again", "giveup"}
    BY <1>18 DEF TransferBroke, Step, source, Goto
  <2>2. pull' \in Pull /\ (pull' = pull \/ pull'.ok = FALSE)
    <3>1. CASE UNCHANGED pull
      BY <3>1 DEF PullInv
    <3>2. CASE pull' = [FirstPull EXCEPT !.attempt = pull.attempt + 1]
      BY <3>2, PullCounts, PullCountsOk DEF PullInv
    <3> QED
      BY <1>18, <3>1, <3>2 DEF TransferBroke
  <2> QED
    BY <2>1, <2>2 DEF PullInv, OneExport, SessionOK
<1>19. CASE GiveUp
  BY <1>19
     DEF GiveUp, Kept, Goto, source, pulling, participant, PullInv, OneExport, SessionOK, BlockOK
<1>20. CASE ManualOff
  BY <1>20
     DEF ManualOff, Kept, Goto, source, pulling, disk, PullInv, OneExport, SessionOK, BlockOK
<1>21. CASE Reconnect
  BY <1>21
     DEF Reconnect, Kept, Goto, source, pulling, disk, PullInv, OneExport, SessionOK, BlockOK
<1>22. CASE ExportFails
  <2>1. session' \in Sessions /\ session'.id = 0
    BY <1>22 DEF ExportFails, NoSession, Sessions
  <2>2. UNCHANGED <<size, opened, broken, pull, blk, fed>>
    BY <1>22 DEF ExportFails, SourceOnly, pulling
  <2>3. pc' = pc \/ pc' = "poll"
    BY <1>22 DEF ExportFails, SourceOnly, Goto
  <2> QED
    BY <2>1, <2>2, <2>3 DEF PullInv, OneExport, SessionOK, BlockOK
<1>23. CASE OpenWindowFails
  BY <1>23
     DEF OpenWindowFails, Kept, Goto, source, pulling, disk, participant,
     PullInv, OneExport, SessionOK, BlockOK
<1>24. CASE TimesOut
  <2>1. Asking /\ UNCHANGED <<size, opened, broken, blk, fed>>
    BY <1>24 DEF TimesOut, source
  <2>2. SessionOK(session)'
    BY <1>24, <2>1 DEF TimesOut, source, PullInv, SessionOK
  <2>3. /\ pull' \in Pull /\ ~pull'.ok
        /\ pc' = pc \/ pc' \in {"failed", "giveup", "broke"}
    BY <1>24, <2>1, AskMoves, AskKeeps DEF TimesOut
  <2>4. pc \in {"first", "again", "fetch"}
    BY <2>1 DEF Asking, After
  <2> QED
    BY <2>1, <2>2, <2>3, <2>4 DEF PullInv
<1>25. CASE PreflightFails
  BY <1>25
     DEF PreflightFails, Step, Goto, Kept, source, pulling, disk, participant,
     PullInv, OneExport, SessionOK, BlockOK
<1>26. CASE OpenStreamFails
  BY <1>26
     DEF OpenStreamFails, Step, Goto, Kept, source, pulling, disk,
     participant, PullInv, OneExport, SessionOK, BlockOK
<1>27. CASE ImportRefused
  BY <1>27
     DEF ImportRefused, Step, Goto, Kept, source, pulling, disk, participant,
     PullInv, OneExport, SessionOK, BlockOK
<1>28. CASE ParticipantRestarts
  BY <1>28
     DEF ParticipantRestarts, Kept, source, pulling, disk, PullInv, OneExport, SessionOK, BlockOK
<1>29. CASE RestartSource
  <2>1. session' \in Sessions /\ session'.id = 0
    BY <1>29 DEF RestartSource, NoSession, Sessions
  <2>2. UNCHANGED <<size, opened, broken, pull, blk, fed>>
    BY <1>29 DEF RestartSource, SourceOnly, pulling
  <2>3. pc' = pc \/ pc' = "poll"
    BY <1>29 DEF RestartSource, SourceOnly, Goto
  <2> QED
    BY <2>1, <2>2, <2>3 DEF PullInv, OneExport, SessionOK, BlockOK
<1>30. CASE Crash
  <2>1. pull' \in Pull /\ ~pull'.ok
    BY <1>30, FirstPullIs DEF Crash
  <2>2. UNCHANGED <<size, opened, broken, session>> /\ fed' = <<>> /\ pc' = "poll"
    BY <1>30 DEF Crash, Step, source, Goto
  <2> QED
    BY <2>1, <2>2 DEF PullInv, SessionOK
<1>31. CASE RetryRun
  <2>1. session' \in Sessions /\ session'.id = 0
    BY <1>31 DEF RetryRun, NoSession, Sessions
  <2>2. UNCHANGED <<size, opened, broken, pull, blk, fed>>
    BY <1>31 DEF RetryRun, SourceOnly, pulling
  <2>3. pc' = pc \/ pc' = "poll"
    BY <1>31 DEF RetryRun, SourceOnly, Goto
  <2> QED
    BY <2>1, <2>2, <2>3 DEF PullInv, OneExport, SessionOK, BlockOK
<1>32. ASSUME NEW n \in late, HandleLate(n) PROVE PullInv'
  <2>1. UNCHANGED <<size, opened, pc, pull, blk, fed>>
    BY <1>32 DEF HandleLate, pulling
  <2>2. broken' \subseteq 1..opened /\ broken \subseteq broken' /\ SessionOK(session)'
    BY <1>32, <2>1, NextBlockIs DEF HandleLate, SessionOK
  <2> QED
    BY <2>1, <2>2, BrokenGrows DEF PullInv
<1>33. CASE UNCHANGED vars
  BY <1>33, <1>u DEF vars
<1> QED
  BY <1>1, <1>2, <1>3, <1>4, <1>5, <1>6, <1>7, <1>8, <1>9, <1>10, <1>11,
     <1>12, <1>13, <1>14, <1>15, <1>16, <1>17, <1>18, <1>19, <1>20, <1>21,
     <1>22, <1>23, <1>24, <1>25, <1>26, <1>27, <1>28, <1>29, <1>30, <1>31,
     <1>32, <1>33
     DEF Next, Source, Window, Import, Failure

(* An import reported complete fed all that one export served, though late *)
(* requests and restarts of the source move the stream under the pull, and *)
(* that is the whole of it unless the stream of this export failed.        *)
THEOREM ImportSafety == Spec => []ImportedIsOneExport
<1>1. PullInv => ImportedIsOneExport
  BY DEF PullInv, OneExport, ImportedIsOneExport
<1> QED
  BY <1>1, InitPull, PullStep, PTL DEF Spec

----------------------------------------------------------------------------
Budget == [timeouts : Int, crashes : Int, resumes : Int]

(* Where a transfer that has fed something is still under way.             *)
Transfer == {"feed", "fetch", "end", "broke", "again", "stream", "giveup"}

(* As long as DecMan has not stopped and has recorded what it had to, part *)
(* of a snapshot in the participant is one the transfer under way has      *)
(* counted (any_fed), or the participant is quarantined.                   *)
CountedInv ==
  /\ budget \in Budget /\ budget.crashes <= MaxCrashes
  /\ budget.crashes = MaxCrashes /\ ~unrecorded /\ acs = "partial" =>
        quarantined \/ (anyFed /\ pc \in Transfer)

(* Nothing is fed at first.                                                *)
LEMMA InitCounted == Init => CountedInv
  BY BoundsAssumption DEF Init, CountedInv, Budget

(* A budget that is drawn on.                                              *)
LEMMA BudgetDrawn ==
  ASSUME NEW b \in Budget
  PROVE  /\ [b EXCEPT !.timeouts = @ - 1] \in Budget
         /\ [b EXCEPT !.timeouts = @ - 1].crashes = b.crashes
         /\ [b EXCEPT !.resumes = @ - 1] \in Budget
         /\ [b EXCEPT !.resumes = @ - 1].crashes = b.crashes
         /\ [b EXCEPT !.crashes = @ - 1] \in Budget
         /\ [b EXCEPT !.crashes = @ - 1].crashes = b.crashes - 1
  BY DEF Budget

(* Every step that ends a transfer counts what it fed.                     *)
LEMMA CountedStep == CountedInv /\ [Next]_vars => CountedInv'
<1> SUFFICES ASSUME CountedInv, [Next]_vars PROVE CountedInv'
  OBVIOUS
<1>d. /\ [budget EXCEPT !.timeouts = @ - 1] \in Budget
      /\ [budget EXCEPT !.timeouts = @ - 1].crashes = budget.crashes
      /\ [budget EXCEPT !.resumes = @ - 1] \in Budget
      /\ [budget EXCEPT !.resumes = @ - 1].crashes = budget.crashes
      /\ [budget EXCEPT !.crashes = @ - 1] \in Budget
      /\ [budget EXCEPT !.crashes = @ - 1].crashes = budget.crashes - 1
  BY BudgetDrawn DEF CountedInv
<1>1. CASE Authorize
  BY <1>1 DEF Authorize, SourceOnly, pulling, disk, CountedInv, Transfer
<1>2. CASE OpenExport
  BY <1>2 DEF OpenExport, SourceOnly, pulling, disk, CountedInv, Transfer
<1>3. CASE ReopenExport
  BY <1>3 DEF ReopenExport, SourceOnly, pulling, disk, CountedInv, Transfer
<1>4. CASE SignProposals
  BY <1>4 DEF SignProposals, Kept, Goto, pulling, disk, CountedInv, Transfer
<1>5. CASE SetManual
  BY <1>5 DEF SetManual, Kept, Goto, pulling, disk, CountedInv, Transfer
<1>6. CASE MarkWindow
  BY <1>6 DEF MarkWindow, Kept, Goto, pulling, CountedInv, Transfer
<1>7. CASE LeaveSynchronizer
  BY <1>7 DEF LeaveSynchronizer, Kept, Goto, pulling, disk, CountedInv, Transfer
<1>8. CASE OpenWindowFails
  BY <1>8 DEF OpenWindowFails, Kept, Goto, pulling, disk, CountedInv, Transfer
<1>9. CASE BeginImport
  BY <1>9 DEF BeginImport, Step, Kept, Goto, pulling, disk, CountedInv, Transfer
<1>10. CASE PollGivesUp
  BY <1>10 DEF PollGivesUp, Step, Kept, Goto, pulling, disk, CountedInv, Transfer
<1>11. CASE Preflight
  BY <1>11 DEF Preflight, Kept, Goto, pulling, disk, CountedInv, Transfer
<1>12. CASE OpenStream
  BY <1>12 DEF OpenStream, Step, Kept, Goto, disk, CountedInv, Transfer
<1>13. CASE Feed
  BY <1>13 DEF Feed, Kept, Goto, disk, CountedInv, Transfer
<1>14. CASE FeedConnected
  BY <1>14 DEF FeedConnected, Step, Kept, Goto, disk, CountedInv, Transfer
<1>15. CASE CloseStream
  BY <1>15 DEF CloseStream, Kept, Goto, disk, CountedInv, Transfer
<1>16. CASE TransferBroke
  BY <1>16 DEF TransferBroke, Step, Kept, Goto, disk, CountedInv, Transfer
<1>17. CASE GiveUp
  BY <1>17 DEF GiveUp, Kept, Goto, pulling, CountedInv, Transfer
<1>18. CASE ManualOff
  BY <1>18 DEF ManualOff, Kept, Goto, pulling, disk, CountedInv, Transfer
<1>19. CASE Reconnect
  BY <1>19 DEF Reconnect, Kept, Goto, pulling, disk, CountedInv, Transfer
<1>20. CASE ExportFails
  BY <1>20 DEF ExportFails, SourceOnly, pulling, disk, CountedInv, Transfer
<1>21. CASE PreflightFails
  BY <1>21 DEF PreflightFails, Step, Kept, Goto, pulling, disk, CountedInv, Transfer
<1>22. CASE OpenStreamFails
  BY <1>22 DEF OpenStreamFails, Step, Kept, Goto, pulling, disk, CountedInv, Transfer
<1>23. CASE ImportRefused
  BY <1>23 DEF ImportRefused, Step, Kept, Goto, pulling, disk, CountedInv, Transfer
<1>24. CASE ParticipantRestarts
  BY <1>24 DEF ParticipantRestarts, Kept, pulling, disk, CountedInv, Transfer
<1>25. CASE SendSignatures
  BY <1>25, <1>d DEF SendSignatures, Goto, pulling, disk, CountedInv, Transfer
<1>26. CASE Receive
  BY <1>26 DEF Receive, Kept, Goto, Asking, After, disk, CountedInv, Transfer
<1>27. CASE Refused
  <2>1. /\ pc = "first" => pc' \in {"first", "failed"}
        /\ pc # "first" => pc' \in Transfer /\ pc \in Transfer
    BY <1>27 DEF Refused, Asking, After, AskAgain, Exhausted, Goto, Transfer
  <2> QED
    BY <1>27, <2>1 DEF Refused, Kept, disk, CountedInv, Transfer
<1>28. CASE TimesOut
  <2>1. /\ pc = "first" => pc' \in {"first", "failed"}
        /\ pc # "first" => pc' \in Transfer /\ pc \in Transfer
    BY <1>28 DEF TimesOut, Asking, After, AskAgain, Exhausted, Goto, Transfer
  <2> QED
    BY <1>28, <1>d, <2>1 DEF TimesOut, disk, CountedInv, Transfer
<1>29. CASE RestartSource
  BY <1>29, <1>d DEF RestartSource, pulling, disk, CountedInv
<1>30. CASE Crash
  <2>1. budget' \in Budget /\ budget'.crashes = budget.crashes - 1 /\ budget.crashes \in Int
    BY <1>30, <1>d DEF Crash, CountedInv, Budget
  <2>2. MaxCrashes \in Nat
    BY BoundsAssumption
  <2> QED
    BY <2>1, <2>2 DEF CountedInv
<1>31. CASE RetryRun
  BY <1>31, <1>d DEF RetryRun, Goto, pulling, disk, CountedInv, Transfer
<1>32. ASSUME NEW n \in late, HandleLate(n) PROVE CountedInv'
  BY <1>32 DEF HandleLate, pulling, disk, CountedInv
<1>33. CASE UNCHANGED vars
  BY <1>33 DEF vars, CountedInv
<1> QED
  BY <1>1, <1>2, <1>3, <1>4, <1>5, <1>6, <1>7, <1>8, <1>9, <1>10, <1>11,
     <1>12, <1>13, <1>14, <1>15, <1>16, <1>17, <1>18, <1>19, <1>20, <1>21,
     <1>22, <1>23, <1>24, <1>25, <1>26, <1>27, <1>28, <1>29, <1>30, <1>31,
     <1>32, <1>33
     DEF Next, Source, Window, Import, Failure

(* For any sizes, tries and failures, a run that failed with part of a     *)
(* snapshot in the participant has quarantined it, as long as DecMan lived *)
(* to count (any_fed outlives the attempt that fed it) and its database    *)
(* took the record.                                                        *)
THEOREM QuarantineSafety == Spec => []PartialIsQuarantined
<1>1. CountedInv => PartialIsQuarantined
  BY DEF CountedInv, Transfer, PartialIsQuarantined
<1> QED
  BY <1>1, InitCounted, CountedStep, PTL DEF Spec
=============================================================================
