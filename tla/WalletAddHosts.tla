---------------------------- MODULE WalletAddHosts ----------------------------
(***************************************************************************)
(* add_hosts of the wallet library: a wallet adds joining hosts to a party *)
(* and carries the party's contracts to each of them.  Every host prepares *)
(* the write and all must agree before the wallet signs; the joining hosts *)
(* submit it; then, host by host, the wallet asks one source for a block   *)
(* and hands it to the joining host, and waits for the marker to clear.    *)
(* The same add may be driven twice at once (a second device, a run        *)
(* started again), a call may take effect although its answer is lost, and *)
(* the hosts drop copies that go quiet, and the stream of an export may    *)
(* fail.                                                                   *)
(*                                                                         *)
(* A call takes effect at one point on the host.  RelaySessions has the    *)
(* calls of one host in detail, PartyHosting the topology.                 *)
(***************************************************************************)
EXTENDS Naturals, Sequences, FiniteSets

CONSTANTS
    Wallets,    \* the runs of add_hosts
    Sources,    \* the hosts that hold the party
    Joiners,    \* the hosts to add
    Liars,      \* the hosts that may prepare something else
    Nothing,    \* no source yet, no host, no export
    Sizes,      \* the blocks of data the party's contracts may make
    MaxExports, \* bound on the exports opened
    MaxPolls    \* the polls within MARKER_CLEAR_TIMEOUT

Hosts == Sources \cup Joiners

ASSUME HostsAssumption ==
    /\ IsFiniteSet(Hosts) /\ Sources \cap Joiners = {}
    /\ Sources # {} /\ Joiners # {} /\ Liars \subseteq Hosts
ASSUME BoundsAssumption == Sizes \subseteq Nat /\ {MaxExports, MaxPolls} \subseteq Nat
ASSUME NothingAssumption == Nothing # <<>>

VARIABLES
    wallet,     \* the state of each run
    serial,     \* the party's serial, less the pinned one
    other,      \* was the serial after the pin taken by another write?
    signed,     \* the joining hosts that submitted the write
    marked,     \* the joining hosts with an onboarding marker
    clearing,   \* those whose marker Canton was asked to clear
    size,       \* the blocks of the party's contracts; the next one ends an export
    opened,     \* the exports opened
    broken,     \* history: the exports whose stream failed
    export,     \* for a source and a joining host: the open export, the blocks it
                \* has served and those its stream yields
    fed,        \* for a joining host: the exports whose blocks its open import took
    holds,      \* for a joining host: the exports whose blocks its last complete import took
    quarantined \* the joining hosts that may hold part of a copy

topology == <<serial, other, signed, marked, clearing>>
imports == <<fed, holds, quarantined>>
exports == <<size, opened, broken, export>>
copies == <<exports, imports>>
vars == <<wallet, topology, copies>>

NoExport == [id |-> 0, served |-> 0, yields |-> 0]
NoBlock == [seq |-> 0, of |-> 0, end |-> FALSE, total |-> 0]
Closed == Nothing

Init ==
    /\ wallet = [w \in Wallets |-> [pc |-> "prepare", todo |-> Hosts, answers |-> {},
                    tried |-> {}, errors |-> {}, joiner |-> Nothing, source |-> Nothing, seq |-> 1,
                    block |-> NoBlock, polls |-> 0, replicated |-> TRUE]]
    /\ serial = 0 /\ other = FALSE /\ signed = {} /\ marked = {} /\ clearing = {}
    /\ size \in Sizes /\ opened = 0 /\ broken = {}
    /\ export = [s \in Sources |-> [j \in Joiners |-> NoExport]]
    /\ fed = [j \in Joiners |-> Closed] /\ holds = [j \in Joiners |-> Nothing]
    /\ quarantined = {}

At(w, pc) == wallet[w].pc = pc
Set(w, r) == wallet' = [wallet EXCEPT ![w] = r]

----------------------------------------------------------------------------
(* Preparing, agreeing and signing.                                        *)

(* prepare_add_hosts refuses a serial other than the pinned one. *)
Honest == [txs |-> "add", hash |-> "add"]
Answers(h) ==
    IF h \in Liars THEN [txs : {"add", "else"}, hash : {"add", "else"}]
    ELSE IF serial = 0 THEN {Honest} ELSE {}

Prepare(w, h) ==
    /\ At(w, "prepare") /\ h \in wallet[w].todo
    /\ \/ \E a \in Answers(h) :
            Set(w, [wallet[w] EXCEPT !.todo = @ \ {h}, !.answers = @ \cup {a},
                        !.pc = IF wallet[w].todo = {h} THEN "sign" ELSE "prepare"])
       \/ Set(w, [wallet[w] EXCEPT !.pc = "failed"])
    /\ UNCHANGED <<topology, copies>>

(* Mutant: the transactions are compared, the hashes are not.              *)
SameTransactions(answers) == \A a, b \in answers : a.txs = b.txs

Agree(answers) == \A a, b \in answers : a = b

Sign(w) ==
    /\ At(w, "sign")
    /\ Set(w, IF Agree(wallet[w].answers)
              THEN [wallet[w] EXCEPT !.pc = "execute", !.todo = Joiners]
              ELSE [wallet[w] EXCEPT !.pc = "failed"])
    /\ UNCHANGED <<topology, copies>>

----------------------------------------------------------------------------
(* submit_add_hosts: a repetition of what already landed is no conflict.   *)

Reports(w, j, error) ==
    LET errors == wallet[w].errors \cup (IF error THEN {j} ELSE {})
        last == wallet[w].todo = {j}
    IN  Set(w, [wallet[w] EXCEPT
                !.errors = errors,
                !.todo = IF last THEN Joiners \ errors ELSE @ \ {j},
                !.replicated = @ /\ ~error,
                !.pc = IF last THEN "next" ELSE "execute"])

Execute(w, j) ==
    /\ At(w, "execute") /\ j \in wallet[w].todo
    /\ \/ /\ serial = 0 /\ Honest \in wallet[w].answers
          /\ signed' = signed \cup {j}
          /\ \E lost \in BOOLEAN : Reports(w, j, lost)
       \/ serial = 1 /\ ~other /\ Reports(w, j, FALSE) /\ UNCHANGED signed
       \/ Reports(w, j, TRUE) /\ UNCHANGED signed
    /\ UNCHANGED <<serial, other, marked, clearing, copies>>

(* Canton takes the write once every joining host has signed, unless       *)
(* another write was first.                                                *)
Authorize ==
    /\ serial = 0 /\ signed = Joiners
    /\ serial' = 1 /\ marked' = Joiners
    /\ UNCHANGED <<wallet, other, signed, clearing, copies>>

OtherWrite ==
    /\ serial = 0 /\ serial' = 1 /\ other' = TRUE
    /\ UNCHANGED <<wallet, signed, marked, clearing, copies>>

ClearMarker(j) ==
    /\ j \in clearing /\ clearing' = clearing \ {j}
    /\ marked' = marked \ {j} /\ serial' = serial + 1
    /\ UNCHANGED <<wallet, other, signed, copies>>

----------------------------------------------------------------------------
(* The copy to one joining host after the other.                           *)

(* The hosts that are still to be copied to, and nothing more to do.       *)
NextJoiner(w) ==
    /\ At(w, "next")
    /\ \/ /\ wallet[w].todo = {} /\ Set(w, [wallet[w] EXCEPT !.pc = "done"])
       \/ \E j \in wallet[w].todo :
            Set(w, [wallet[w] EXCEPT !.pc = "ask", !.todo = @ \ {j}, !.joiner = j,
                        !.seq = 1, !.source = Nothing, !.tried = {}, !.polls = 0])
    /\ UNCHANGED <<topology, copies>>

Leaves(w, ok) == Set(w, [wallet[w] EXCEPT !.pc = "next", !.replicated = @ /\ ok])

(* The export a block is read from: block 1 opens a fresh one, which needs *)
(* the joining host's activation.                                          *)
MayServe(s, j, seq) ==
    \/ seq = 1 /\ serial > 0 /\ ~other /\ opened < MaxExports
    \/ /\ seq > 1 /\ export[s][j] # NoExport
       /\ seq \in {export[s][j].served, export[s][j].served + 1}

Reading(s, j, seq) ==
    IF seq = 1 THEN [id |-> opened + 1, served |-> 0, yields |-> size] ELSE export[s][j]

Keep(s, j, seq, x) ==
    /\ opened' = IF seq = 1 THEN opened + 1 ELSE opened
    /\ export' = [export EXCEPT ![s][j] = x]
    /\ UNCHANGED size

(* ExportSession.block: a block, or the trailer over what the stream has   *)
(* yielded.                                                                *)
Block(x, seq) ==
    [seq |-> seq, of |-> x.id, end |-> seq > x.yields,
     total |-> IF seq > x.yields THEN x.yields ELSE 0]

(* serve_block: the last block served is repeated, and the end of an       *)
(* export closes it.                                                       *)
Serve(s, j, seq) ==
    LET x == Reading(s, j, seq) IN
    /\ MayServe(s, j, seq)
    /\ Keep(s, j, seq, IF seq > x.yields THEN NoExport ELSE [x EXCEPT !.served = seq])
    /\ UNCHANGED broken

(* The stream fails while the next block is read from it.  Its export      *)
(* stays open, and the stream is at its end: what had arrived of the       *)
(* block, if anything, is the last that is served.                         *)
StreamFails(s, j, seq) ==
    LET x == Reading(s, j, seq) IN
    /\ MayServe(s, j, seq) /\ seq = x.served + 1 /\ x.id \notin broken
    /\ \E y \in {x.served, seq} \cap 0 .. x.yields : Keep(s, j, seq, [x EXCEPT !.yields = y])
    /\ broken' = broken \cup {x.id}

(* The sources a wallet may ask: any until one has answered, then that one. *)
MayAsk(w, s) == wallet[w].source \in {Nothing, s}

AskBlock(w, s) ==
    LET j == wallet[w].joiner
        seq == wallet[w].seq
    IN  /\ At(w, "ask") /\ MayAsk(w, s) /\ s \notin wallet[w].tried
        /\ Serve(s, j, seq)
        /\ Set(w, [wallet[w] EXCEPT !.pc = "give", !.source = s,
                       !.block = Block(Reading(s, j, seq), seq)])
        /\ UNCHANGED <<topology, imports>>

(* A source or its stream fails, or its answer is lost.  While no source   *)
(* has answered the next one is asked.                                     *)
SourceFails(w, s) ==
    LET tried == wallet[w].tried \cup {s} IN
    /\ At(w, "ask") /\ MayAsk(w, s) /\ s \notin wallet[w].tried
    /\ IF wallet[w].source = Nothing /\ tried # Sources
       THEN Set(w, [wallet[w] EXCEPT !.tried = tried])
       ELSE Leaves(w, FALSE)
    /\ \/ UNCHANGED copies
       \/ Serve(s, wallet[w].joiner, wallet[w].seq) /\ UNCHANGED imports
       \/ StreamFails(s, wallet[w].joiner, wallet[w].seq) /\ UNCHANGED imports
    /\ UNCHANGED topology

(* accept_block: block 1 starts the import of a marked host again, another *)
(* must be the next one.                                                   *)
Takes(j, b) ==
    IF b.seq = 1 THEN j \in marked ELSE fed[j] # Closed /\ Len(fed[j]) + 1 = b.seq

(* An open import that ends before its time leaves its host quarantined,   *)
(* unless none of it was fed yet or the quarantine could not be written    *)
(* (give_up_transfer).                                                     *)
Broken(j) == IF fed[j] = Closed THEN {{}} ELSE {{}, {j}}

(* Block 1 ends an import that is open.  import_party_acs refuses a        *)
(* quarantined host after the block was taken.                             *)
FirstBlock(j, b) ==
    /\ \E q \in Broken(j) : quarantined' = quarantined \cup q
    /\ fed' = [fed EXCEPT ![j] = IF j \in quarantined' THEN Closed ELSE <<b.of>>]
    /\ UNCHANGED <<holds, clearing>>

(* A first block that is a trailer: the party has no contracts.            *)
EmptyImport(j) ==
    /\ \E q \in Broken(j) : quarantined' = quarantined \cup q
    /\ j \notin quarantined'
    /\ holds' = [holds EXCEPT ![j] = <<>>]
    /\ fed' = [fed EXCEPT ![j] = Closed]
    /\ clearing' = clearing \cup ({j} \cap marked)

NextBlock(j, b) ==
    /\ fed' = [fed EXCEPT ![j] = Append(@, b.of)]
    /\ UNCHANGED <<holds, clearing, quarantined>>

(* Mutant: the import is not compared with what the source exported.       *)
AnyTrailer(j, b) == TRUE

(* The trailer's length and digest are those of the blocks that were fed.  *)
Matches(j, b) == Len(fed[j]) = b.total /\ \A i \in 1 .. b.total : fed[j][i] = b.of

LastBlock(j, b) ==
    /\ Matches(j, b)
    /\ holds' = [holds EXCEPT ![j] = fed[j]]
    /\ fed' = [fed EXCEPT ![j] = Closed]
    /\ clearing' = clearing \cup ({j} \cap marked)
    /\ UNCHANGED quarantined

Import(j, b) ==
    /\ Takes(j, b)
    /\ IF b.seq = 1 THEN (IF b.end THEN EmptyImport(j) ELSE FirstBlock(j, b))
       ELSE IF b.end THEN LastBlock(j, b) ELSE NextBlock(j, b)

(* An import fails, is told by its trailer that it took something else, or *)
(* is dropped because it went quiet.                                       *)
Breaks(j) ==
    /\ fed[j] # Closed /\ fed' = [fed EXCEPT ![j] = Closed]
    /\ \E q \in Broken(j) : quarantined' = quarantined \cup q
    /\ UNCHANGED <<holds, clearing>>

(* The import is complete: its marker is cleared, or is waited for. *)
AfterImport(w) ==
    [wallet[w] EXCEPT !.pc = IF wallet[w].joiner \in marked THEN "poll" ELSE "next"]

GiveBlock(w) ==
    LET j == wallet[w].joiner
        b == wallet[w].block
    IN  /\ At(w, "give") /\ Import(j, b)
        /\ Set(w, IF b.end THEN AfterImport(w)
                  ELSE [wallet[w] EXCEPT !.pc = "ask", !.seq = @ + 1])
        /\ UNCHANGED <<serial, other, signed, marked, exports>>

(* tenant_acs_import fails: the block is refused, breaks the import, or is *)
(* taken and the answer lost.                                              *)
GiveFails(w) ==
    LET j == wallet[w].joiner
        b == wallet[w].block
    IN  /\ At(w, "give") /\ Leaves(w, FALSE)
        /\ \/ UNCHANGED <<imports, clearing>>
           \/ Takes(j, b) /\ Breaks(j)
           \/ Import(j, b)
        /\ UNCHANGED <<serial, other, signed, marked, exports>>

MayPoll(w) == wallet[w].polls < MaxPolls

(* wait_for_marker_clear *)
Poll(w) ==
    /\ At(w, "poll")
    /\ \/ wallet[w].joiner \notin marked /\ Leaves(w, TRUE)
       \/ MayPoll(w) /\ Set(w, [wallet[w] EXCEPT !.polls = (@ + 1) % (MaxPolls + 1)])
       \/ ~MayPoll(w) /\ Leaves(w, FALSE)
    /\ UNCHANGED <<topology, copies>>

(* The hosts drop a copy that went quiet. *)
ReapExport(s, j) ==
    /\ export[s][j] # NoExport
    /\ export' = [export EXCEPT ![s][j] = NoExport]
    /\ UNCHANGED <<wallet, topology, size, opened, broken, imports>>

ReapImport(j) ==
    /\ Breaks(j)
    /\ UNCHANGED <<wallet, serial, other, signed, marked, exports>>

WalletStep(w) ==
    \/ \E h \in Hosts : Prepare(w, h)
    \/ Sign(w)
    \/ \E j \in Joiners : Execute(w, j)
    \/ NextJoiner(w) \/ GiveBlock(w) \/ GiveFails(w) \/ Poll(w)
    \/ \E s \in Sources : AskBlock(w, s) \/ SourceFails(w, s)

Next ==
    \/ \E w \in Wallets : WalletStep(w)
    \/ Authorize \/ OtherWrite
    \/ \E j \in Joiners : ClearMarker(j) \/ ReapImport(j) \/ \E s \in Sources : ReapExport(s, j)

Spec == Init /\ [][Next]_vars

----------------------------------------------------------------------------
Ended(w) == wallet[w].pc \in {"done", "failed"}

(* One host that prepares what was asked for is enough: no signature goes  *)
(* out over anything else (add_hosts, the agreement of the hosts).         *)
SignsTheAdd ==
    \A w \in Wallets : At(w, "execute") /\ Liars # Hosts => wallet[w].answers = {Honest}

(* A wallet that reports `replicated` has left every joining host with the *)
(* blocks of one export, in order and to the end of what its stream        *)
(* yielded, which is all of the party's contracts unless that stream has   *)
(* failed, and without its marker, however many wallets restarted, fed or  *)
(* lost the copy at the same time (add_hosts, serve_block, accept_block    *)
(* and the trailer's check).                                               *)
ReplicatedMeansLive ==
    \A w \in Wallets : At(w, "done") /\ wallet[w].replicated =>
        \A j \in Joiners :
            /\ j \notin marked /\ serial > 0 /\ ~other
            /\ holds[j] # Nothing
            /\ \E e \in 1 .. opened :
                /\ \A i \in DOMAIN holds[j] : holds[j][i] = e
                /\ Len(holds[j]) = size \/ e \in broken

(* A report without `replicated`, of joining hosts that are all hosted and *)
(* marked, means that one of them holds none of the party's contracts      *)
(* (AddedHosts).                                                           *)
NotReplicatedMeansEmpty ==
    \A w \in Wallets : At(w, "done") /\ ~wallet[w].replicated /\ marked = Joiners =>
        \E j \in Joiners : holds[j] = Nothing

(* A copy that broke is restarted from block 1: a joining host that has    *)
(* yet to get the contracts takes one (tenant_acs_import).                 *)
BrokenCopyRestarts == \A j \in Joiners : holds[j] = Nothing => j \notin quarantined
=============================================================================
