------------------------ MODULE WalletAddHosts_proofs ------------------------
(* Proofs, for any number of wallets and hosts, of any size of export and  *)
(* whichever hosts prepare something else, that a wallet signs only the    *)
(* add that was asked for and that a host it reports as replicated holds   *)
(* one whole export.                                                       *)
EXTENDS WalletAddHosts, TLAPS

Answer == [txs : {"add", "else"}, hash : {"add", "else"}]
Exported == [id : Nat, served : Nat, yields : Nat]
Blocks == [seq : Nat, of : Nat, end : BOOLEAN, total : Nat]
WalletState ==
  [pc : {"prepare", "sign", "execute", "next", "ask", "give", "poll", "done", "failed"},
   todo : SUBSET Hosts, answers : SUBSET Answer, tried : SUBSET Sources,
   errors : SUBSET Joiners, joiner : Joiners \cup {Nothing}, source : Sources \cup {Nothing},
   seq : Nat, block : Blocks, polls : Nat, replicated : BOOLEAN]

(* The add was written, and no other write was first.                      *)
Settled == serial > 0 /\ ~other

(* A block is of an export that was opened, and a trailer is over all of   *)
(* the party's sz blocks unless the stream of its export has failed.       *)
BlockOK(b, op, bk, sz) ==
  b.of \in 1 .. op /\ (b.end => b.total < b.seq /\ (b.of \in bk \/ b.total = sz))

(* What a run v of add_hosts may rely on, of a party that is settled or    *)
(* not, with markers mk and exports 1 to op of which bk have failed:       *)
(* before it signs, an honest host that has answered left its answer; once *)
(* it copies, a host that is neither to come nor in turn has lost its      *)
(* marker.                                                                 *)
WalletOK(v, settled, mk, op, bk, sz) ==
  /\ v.pc \in {"prepare", "sign"} => \A h \in Hosts \ Liars : h \in v.todo \/ Honest \in v.answers
  /\ v.pc = "sign" => v.todo = {}
  /\ v.pc \in {"prepare", "sign", "execute"} /\ v.replicated => v.errors = {}
  /\ v.pc = "execute" /\ Liars # Hosts => v.answers = {Honest}
  /\ v.pc \in {"execute", "next", "ask", "give", "poll"} => v.todo \subseteq Joiners
  /\ v.pc \in {"ask", "give", "poll"} => v.joiner \in Joiners
  /\ v.pc = "give" => BlockOK(v.block, op, bk, sz)
  /\ v.pc = "poll" => settled
  /\ v.pc = "done" => v.todo = {}
  /\ v.pc \in {"next", "ask", "give", "poll", "done"} /\ v.replicated =>
        \A j \in Joiners :
          \/ j \in v.todo
          \/ v.pc \in {"ask", "give", "poll"} /\ j = v.joiner
          \/ settled /\ j \notin mk

WalletsOK ==
  /\ wallet \in [Wallets -> WalletState]
  /\ \A w \in Wallets : WalletOK(wallet[w], Settled, marked, opened, broken, size)

TopologyOK ==
  /\ serial \in Nat /\ other \in BOOLEAN
  /\ marked \subseteq Joiners /\ clearing \subseteq Joiners
  /\ serial = 0 => ~other

ExportsOK ==
  /\ opened \in Nat /\ size \in Nat
  /\ export \in [Sources -> [Joiners -> Exported]]
  /\ \A s \in Sources, j \in Joiners : export[s][j] # NoExport =>
        /\ export[s][j].id \in 1 .. opened
        /\ export[s][j].id \in broken \/ export[s][j].yields = size

(* The blocks of one export, and all of them unless it has failed.         *)
Whole(h, op, bk, sz) ==
  \E e \in 1 .. op : (\A i \in DOMAIN h : h[i] = e) /\ (Len(h) = sz \/ e \in bk)

(* What a joining host holds is one whole export, it takes blocks only     *)
(* once it is settled, and it loses its marker only when it holds one.     *)
ImportsOK ==
  /\ fed \in [Joiners -> Seq(Nat) \cup {Closed}]
  /\ DOMAIN holds = Joiners /\ holds = [j \in Joiners |-> holds[j]]
  /\ \A j \in Joiners :
      /\ j \in marked \/ fed[j] # Closed \/ holds[j] # Nothing => Settled
      /\ Settled /\ j \notin marked => holds[j] # Nothing
      /\ j \in clearing => holds[j] # Nothing
      /\ holds[j] # Nothing => Whole(holds[j], opened, broken, size)

IInv == WalletsOK /\ TopologyOK /\ ExportsOK /\ ImportsOK

----------------------------------------------------------------------------
(* The runs.                                                               *)

(* What no step undoes.                                                    *)
Onward ==
  /\ Settled => Settled' /\ marked' \subseteq marked
  /\ opened <= opened' /\ opened \in Nat /\ opened' \in Nat
  /\ broken \subseteq broken' /\ size' = size

(* A run that waits keeps what it relies on.                               *)
LEMMA WalletStays ==
  ASSUME NEW v, Onward, WalletOK(v, Settled, marked, opened, broken, size)
  PROVE  WalletOK(v, Settled', marked', opened', broken', size')
  BY DEF Onward, WalletOK, BlockOK

(* A step of one run, or of none.                                          *)
LEMMA WalletMoves ==
  ASSUME WalletsOK, Onward, NEW w \in Wallets, NEW c \in WalletState,
         WalletOK(c, Settled', marked', opened', broken', size'), Set(w, c)
  PROVE  WalletsOK'
<1>1. wallet' \in [Wallets -> WalletState] /\ wallet'[w] = c
      /\ \A q \in Wallets : q # w => wallet'[q] = wallet[q]
  BY DEF WalletsOK, Set
<1>2. ASSUME NEW q \in Wallets PROVE WalletOK(wallet'[q], Settled', marked', opened', broken', size')
  <2>1. CASE q = w
    BY <1>1, <2>1
  <2>2. CASE q # w
    <3>1. wallet'[q] = wallet[q] /\ WalletOK(wallet[q], Settled, marked, opened, broken, size)
      BY <1>1, <2>2 DEF WalletsOK
    <3>2. WalletOK(wallet[q], Settled', marked', opened', broken', size')
      BY <3>1, WalletStays
    <3> QED BY <3>1, <3>2
  <2> QED BY <2>1, <2>2
<1> QED
  BY <1>1, <1>2 DEF WalletsOK

(* A step of none.                                                         *)
LEMMA WalletsStay ==
  ASSUME WalletsOK, Onward, UNCHANGED wallet
  PROVE  WalletsOK'
<1>1. ASSUME NEW q \in Wallets PROVE WalletOK(wallet[q], Settled', marked', opened', broken', size')
  BY WalletStays DEF WalletsOK
<1> QED
  BY <1>1 DEF WalletsOK

(* Nothing but a run's own state changes.                                  *)
LEMMA Still ==
  ASSUME IInv, UNCHANGED <<topology, copies>>
  PROVE  Onward /\ TopologyOK' /\ ExportsOK' /\ ImportsOK' /\ Settled' = Settled
  BY DEF IInv, topology, copies, exports, imports, Onward, TopologyOK, ExportsOK, ImportsOK, Settled

----------------------------------------------------------------------------
(* Preparing, signing and submitting.                                      *)

(* An answer is one of the four, and an honest host's is the honest one.   *)
LEMMA AnswersOK ==
  ASSUME NEW h \in Hosts, NEW a \in Answers(h)
  PROVE  a \in Answer /\ (h \notin Liars => a = Honest)
  BY DEF Answers, Answer, Honest

(* One host has prepared, or the run has failed.                           *)
LEMMA PrepareStep ==
  ASSUME IInv, NEW w \in Wallets, NEW h \in Hosts, Prepare(w, h)
  PROVE  IInv'
<1> DEFINE v == wallet[w]
<1>0. v \in WalletState /\ WalletOK(v, Settled, marked, opened, broken, size) /\ v.pc = "prepare" /\ h \in v.todo
  BY DEF IInv, WalletsOK, Prepare, At
<1>1. Onward /\ TopologyOK' /\ ExportsOK' /\ ImportsOK' /\ Settled' = Settled
      /\ marked' = marked /\ opened' = opened /\ broken' = broken /\ size' = size
  BY Still DEF Prepare, topology, copies, exports
<1>2. ASSUME NEW a \in Answers(h),
             Set(w, [v EXCEPT !.todo = @ \ {h}, !.answers = @ \cup {a},
                       !.pc = IF v.todo = {h} THEN "sign" ELSE "prepare"])
      PROVE  WalletsOK'
  <2> DEFINE c == [v EXCEPT !.todo = @ \ {h}, !.answers = @ \cup {a},
                       !.pc = IF v.todo = {h} THEN "sign" ELSE "prepare"]
  <2>1. a \in Answer /\ (h \notin Liars => a = Honest)
    BY AnswersOK, <1>2
  <2>2. c \in WalletState
    BY <1>0, <2>1 DEF WalletState
  <2>3. /\ c.todo = v.todo \ {h} /\ c.answers = v.answers \cup {a}
        /\ c.pc = (IF v.todo = {h} THEN "sign" ELSE "prepare")
        /\ c.replicated = v.replicated /\ c.errors = v.errors
    BY <1>0 DEF WalletState
  <2> HIDE DEF c
  <2>4. WalletOK(c, Settled', marked', opened', broken', size')
    BY <1>0, <2>1, <2>3 DEF WalletOK
  <2> QED BY <1>1, <1>2, <2>2, <2>4, WalletMoves DEF c, IInv
<1>3. ASSUME Set(w, [v EXCEPT !.pc = "failed"]) PROVE WalletsOK'
  <2> DEFINE c == [v EXCEPT !.pc = "failed"]
  <2>1. c \in WalletState /\ c.pc = "failed"
    BY <1>0 DEF WalletState
  <2> HIDE DEF c
  <2>2. WalletOK(c, Settled', marked', opened', broken', size')
    BY <2>1 DEF WalletOK
  <2> QED BY <1>1, <1>3, <2>1, <2>2, WalletMoves DEF c, IInv
<1> QED
  BY <1>1, <1>2, <1>3 DEF Prepare, IInv

(* All have prepared: what they agree on is what an honest host prepared.  *)
LEMMA SignStep ==
  ASSUME IInv, NEW w \in Wallets, Sign(w)
  PROVE  IInv'
<1> DEFINE v == wallet[w]
<1>0. v \in WalletState /\ WalletOK(v, Settled, marked, opened, broken, size) /\ v.pc = "sign"
  BY DEF IInv, WalletsOK, Sign, At
<1>1. Onward /\ TopologyOK' /\ ExportsOK' /\ ImportsOK'
  BY Still DEF Sign
<1>2. CASE Agree(v.answers)
  <2> DEFINE c == [v EXCEPT !.pc = "execute", !.todo = Joiners]
  <2>1. c \in WalletState /\ c.pc = "execute" /\ c.answers = v.answers
        /\ c.replicated = v.replicated /\ c.errors = v.errors /\ c.todo = Joiners
    BY <1>0 DEF WalletState, Hosts
  <2>2. Liars # Hosts => v.answers = {Honest}
    BY <1>0, <1>2, HostsAssumption DEF WalletOK, Agree
  <2>3. v.replicated => v.errors = {}
    BY <1>0 DEF WalletOK
  <2> HIDE DEF c
  <2>4. WalletOK(c, Settled', marked', opened', broken', size')
    BY <2>1, <2>2, <2>3 DEF WalletOK
  <2> QED BY <1>1, <1>2, <2>1, <2>4, WalletMoves DEF Sign, c, IInv
<1>3. CASE ~Agree(v.answers)
  <2> DEFINE c == [v EXCEPT !.pc = "failed"]
  <2>1. c \in WalletState /\ c.pc = "failed"
    BY <1>0 DEF WalletState
  <2> HIDE DEF c
  <2>2. WalletOK(c, Settled', marked', opened', broken', size')
    BY <2>1 DEF WalletOK
  <2> QED BY <1>1, <1>3, <2>1, <2>2, WalletMoves DEF Sign, c, IInv
<1> QED
  BY <1>2, <1>3

(* A joining host submitted the write, or not.                             *)
LEMMA ExecuteStep ==
  ASSUME IInv, NEW w \in Wallets, NEW j \in Joiners, Execute(w, j)
  PROVE  IInv'
<1> DEFINE v == wallet[w]
<1>0. v \in WalletState /\ WalletOK(v, Settled, marked, opened, broken, size) /\ v.pc = "execute"
  BY DEF IInv, WalletsOK, Execute, At
<1>1. UNCHANGED <<serial, other, marked, clearing, copies>>
  BY DEF Execute
<1>2. Onward /\ TopologyOK' /\ ExportsOK' /\ ImportsOK'
  BY <1>1 DEF IInv, copies, exports, imports, Onward, TopologyOK, ExportsOK, ImportsOK, Settled
<1>3. ASSUME NEW error \in BOOLEAN, Reports(w, j, error) PROVE WalletsOK'
  <2> DEFINE errors == v.errors \cup (IF error THEN {j} ELSE {})
             last == v.todo = {j}
             todo == IF last THEN Joiners \ errors ELSE v.todo \ {j}
             ok == v.replicated /\ ~error
             c == [v EXCEPT !.errors = errors, !.todo = todo, !.replicated = ok,
                       !.pc = IF last THEN "next" ELSE "execute"]
  <2>1. errors \in SUBSET Joiners /\ todo \in SUBSET Joiners /\ ok \in BOOLEAN
    BY <1>0 DEF WalletState, WalletOK
  <2>2. Set(w, c)
    BY <1>3 DEF Reports
  <2>3. ok => errors = {} /\ v.replicated
    BY <1>0 DEF WalletOK
  <2>4. last /\ ok => todo = Joiners
    BY <2>3
  <2>5. Liars # Hosts => v.answers = {Honest}
    BY <1>0 DEF WalletOK
  <2> HIDE DEF errors, todo, ok, last
  <2>6. c \in WalletState
    BY <1>0, <2>1 DEF WalletState, Hosts
  <2>7. /\ c.errors = errors /\ c.todo = todo /\ c.replicated = ok /\ c.answers = v.answers
        /\ c.pc = (IF last THEN "next" ELSE "execute")
    BY <1>0 DEF WalletState
  <2> HIDE DEF c
  <2>8. WalletOK(c, Settled', marked', opened', broken', size')
    BY <2>1, <2>3, <2>4, <2>5, <2>7 DEF WalletOK
  <2> QED BY <1>2, <2>2, <2>6, <2>8, WalletMoves DEF IInv
<1> QED
  BY <1>2, <1>3 DEF Execute, IInv

----------------------------------------------------------------------------
(* The copies.                                                             *)

(* The next host's turn, or none is left.                                  *)
LEMMA NextJoinerStep ==
  ASSUME IInv, NEW w \in Wallets, NextJoiner(w)
  PROVE  IInv'
<1> DEFINE v == wallet[w]
<1>0. v \in WalletState /\ WalletOK(v, Settled, marked, opened, broken, size) /\ v.pc = "next"
  BY DEF IInv, WalletsOK, NextJoiner, At
<1>1. Onward /\ TopologyOK' /\ ExportsOK' /\ ImportsOK' /\ Settled' = Settled
      /\ marked' = marked /\ opened' = opened /\ broken' = broken /\ size' = size
  BY Still DEF NextJoiner, topology, copies, exports
<1>2. ASSUME v.todo = {}, Set(w, [v EXCEPT !.pc = "done"]) PROVE WalletsOK'
  <2> DEFINE c == [v EXCEPT !.pc = "done"]
  <2>1. c \in WalletState /\ c.pc = "done" /\ c.todo = v.todo /\ c.replicated = v.replicated
    BY <1>0 DEF WalletState
  <2> HIDE DEF c
  <2>2. WalletOK(c, Settled', marked', opened', broken', size')
    BY <1>0, <1>1, <1>2, <2>1 DEF WalletOK
  <2> QED BY <1>1, <1>2, <2>1, <2>2, WalletMoves DEF c, IInv
<1>3. ASSUME NEW j \in v.todo, j \in Joiners,
             Set(w, [v EXCEPT !.pc = "ask", !.todo = @ \ {j}, !.joiner = j,
                       !.seq = 1, !.source = Nothing, !.tried = {}, !.polls = 0])
      PROVE  WalletsOK'
  <2> DEFINE c == [v EXCEPT !.pc = "ask", !.todo = @ \ {j}, !.joiner = j,
                       !.seq = 1, !.source = Nothing, !.tried = {}, !.polls = 0]
  <2>1. c \in WalletState
    BY <1>0, <1>3 DEF WalletState
  <2>2. c.pc = "ask" /\ c.todo = v.todo \ {j} /\ c.joiner = j /\ c.replicated = v.replicated
    BY <1>0 DEF WalletState
  <2> HIDE DEF c
  <2>3. WalletOK(c, Settled', marked', opened', broken', size')
    BY <1>0, <1>1, <1>3, <2>2 DEF WalletOK
  <2> QED BY <1>1, <1>3, <2>1, <2>3, WalletMoves DEF c, IInv
<1> QED
  BY <1>0, <1>1, <1>2, <1>3 DEF NextJoiner, IInv, WalletOK

(* A run goes on to the next host: whether this one counts.                *)
LEMMA LeavesStep ==
  ASSUME WalletsOK, Onward, NEW w \in Wallets, NEW ok \in BOOLEAN, Leaves(w, ok),
         wallet[w].pc \in {"ask", "give", "poll"},
         ok => Settled' /\ wallet[w].joiner \notin marked'
  PROVE  WalletsOK'
<1> DEFINE v == wallet[w]
           r == v.replicated /\ ok
           c == [v EXCEPT !.pc = "next", !.replicated = r]
<1>0. v \in WalletState /\ WalletOK(v, Settled', marked', opened', broken', size')
  BY WalletStays DEF WalletsOK
<1>1. r \in BOOLEAN /\ (r => v.replicated /\ Settled' /\ v.joiner \notin marked')
  BY <1>0 DEF WalletState
<1>2. Set(w, c)
  BY DEF Leaves
<1> HIDE DEF r
<1>3. c \in WalletState
  BY <1>0, <1>1 DEF WalletState
<1>4. c.pc = "next" /\ c.replicated = r /\ c.todo = v.todo
  BY <1>0 DEF WalletState
<1> HIDE DEF c
<1>5. WalletOK(c, Settled', marked', opened', broken', size')
  BY <1>0, <1>1, <1>4 DEF WalletOK
<1> QED
  BY <1>2, <1>3, <1>5, WalletMoves

(* A source serves a block of the export it has open, or fails to.         *)
LEMMA ServeStep ==
  ASSUME ExportsOK, NEW s \in Sources, NEW j \in Joiners, NEW seq \in Nat,
         Serve(s, j, seq) \/ StreamFails(s, j, seq)
  PROVE  /\ ExportsOK' /\ opened <= opened' /\ broken \subseteq broken' /\ size' = size
         /\ Block(Reading(s, j, seq), seq) \in Blocks
         /\ BlockOK(Block(Reading(s, j, seq), seq), opened', broken', size')
<1> DEFINE x == Reading(s, j, seq)
<1>0. opened \in Nat /\ size \in Nat /\ NoExport \in Exported /\ export[s][j] \in Exported
  BY DEF ExportsOK, NoExport, Exported
<1>1. /\ opened' = (IF seq = 1 THEN opened + 1 ELSE opened) /\ size' = size /\ MayServe(s, j, seq)
      /\ broken \subseteq broken'
  BY DEF Serve, StreamFails, Keep
<1>2. opened' \in Nat /\ opened <= opened'
  BY <1>0, <1>1
<1>3. x \in Exported /\ x.id \in 1 .. opened' /\ (x.id \in broken \/ x.yields = size)
  <2>1. CASE seq = 1
    <3>1. x = [id |-> opened + 1, served |-> 0, yields |-> size]
      BY <2>1 DEF Reading
    <3>2. opened + 1 \in 1 .. opened' /\ opened + 1 \in Nat
      BY <1>0, <1>1, <2>1
    <3> QED BY <1>0, <3>1, <3>2 DEF Exported
  <2>2. CASE seq # 1
    <3>1. x = export[s][j] /\ x # NoExport /\ opened' = opened
      BY <1>1, <2>2 DEF Reading, MayServe
    <3> QED BY <1>0, <3>1 DEF ExportsOK
  <2> QED BY <2>1, <2>2
<1> HIDE DEF x
<1>4. PICK z \in Exported :
        /\ export' = [export EXCEPT ![s][j] = z]
        /\ z = NoExport \/ (z.id = x.id /\ (z.yields = x.yields \/ x.id \in broken'))
  <2>1. CASE Serve(s, j, seq)
    <3> DEFINE y == [x EXCEPT !.served = seq]
    <3>1. y \in Exported /\ y.id = x.id /\ y.yields = x.yields
      BY <1>3 DEF Exported
    <3>2. export' = [export EXCEPT ![s][j] = IF seq > x.yields THEN NoExport ELSE y]
      BY <2>1 DEF Serve, Keep, x
    <3> HIDE DEF y
    <3> QED BY <1>0, <3>1, <3>2
  <2>2. CASE StreamFails(s, j, seq)
    <3>1. PICK n \in {x.served, seq} \cap 0 .. x.yields :
             export' = [export EXCEPT ![s][j] = [x EXCEPT !.yields = n]]
      BY <2>2 DEF StreamFails, Keep, x
    <3>2. x.id \in broken'
      BY <2>2 DEF StreamFails, x
    <3>3. n \in Nat
      BY <1>3, <3>1 DEF Exported
    <3>4. [x EXCEPT !.yields = n] \in Exported /\ [x EXCEPT !.yields = n].id = x.id
      BY <1>3, <3>3 DEF Exported
    <3> QED BY <3>1, <3>2, <3>4
  <2> QED BY <2>1, <2>2
<1>5. export' \in [Sources -> [Joiners -> Exported]]
  BY <1>4 DEF ExportsOK
<1>6. ASSUME NEW t \in Sources, NEW k \in Joiners, export'[t][k] # NoExport
      PROVE  /\ export'[t][k].id \in 1 .. opened'
             /\ export'[t][k].id \in broken' \/ export'[t][k].yields = size
  <2>1. CASE t = s /\ k = j
    <3>1. export'[t][k] = z
      BY <1>4, <2>1 DEF ExportsOK
    <3> QED BY <1>1, <1>3, <1>4, <1>6, <3>1
  <2>2. CASE ~(t = s /\ k = j)
    <3>1. export'[t][k] = export[t][k]
      BY <1>4, <2>2 DEF ExportsOK
    <3>2. export[t][k].id \in 1 .. opened /\ (export[t][k].id \in broken \/ export[t][k].yields = size)
      BY <3>1, <1>6 DEF ExportsOK
    <3> QED BY <1>0, <1>1, <1>2, <3>1, <3>2
  <2> QED BY <2>1, <2>2
<1>7. Block(x, seq) \in Blocks /\ BlockOK(Block(x, seq), opened', broken', size')
  <2>0. x.yields \in Nat /\ x.id \in Nat
    BY <1>3 DEF Exported
  <2>1. CASE seq > x.yields
    <3>1. Block(x, seq) = [seq |-> seq, of |-> x.id, end |-> TRUE, total |-> x.yields]
      BY <2>1 DEF Block
    <3> QED BY <1>1, <1>3, <2>0, <2>1, <3>1 DEF Blocks, BlockOK
  <2>2. CASE ~(seq > x.yields)
    <3>1. Block(x, seq).of = x.id /\ ~Block(x, seq).end
      BY <2>2 DEF Block
    <3>2. Block(x, seq) \in Blocks
      BY <2>0, <2>2 DEF Block, Blocks
    <3> QED BY <1>3, <3>1, <3>2 DEF BlockOK
  <2> QED BY <2>1, <2>2
<1> QED
  BY <1>0, <1>1, <1>2, <1>5, <1>6, <1>7 DEF ExportsOK, x

(* The hosts' imports rely on the topology, and on exports that only grow. *)
LEMMA ImportsStay ==
  ASSUME ImportsOK, UNCHANGED <<serial, other, marked, clearing, imports, size>>,
         opened \in Nat, opened' \in Nat, opened <= opened', broken \subseteq broken'
  PROVE  ImportsOK'
<1>1. Settled' = Settled
  BY DEF Settled
<1>2. ASSUME NEW j \in Joiners, holds[j] # Nothing
      PROVE  Whole(holds[j], opened', broken', size)
  <2>1. Whole(holds[j], opened, broken, size)
    BY <1>2 DEF ImportsOK
  <2> QED BY <2>1 DEF Whole
<1> QED
  BY <1>1, <1>2 DEF ImportsOK, imports

(* A source has answered.                                                  *)
LEMMA AskBlockStep ==
  ASSUME IInv, NEW w \in Wallets, NEW s \in Sources, AskBlock(w, s)
  PROVE  IInv'
<1> DEFINE v == wallet[w]
           b == Block(Reading(s, v.joiner, v.seq), v.seq)
           c == [v EXCEPT !.pc = "give", !.source = s, !.block = b]
<1>0. /\ v \in WalletState /\ WalletOK(v, Settled, marked, opened, broken, size) /\ v.pc = "ask"
      /\ v.joiner \in Joiners /\ v.seq \in Nat
  BY DEF IInv, WalletsOK, AskBlock, At, WalletOK, WalletState
<1>1. /\ ExportsOK' /\ opened <= opened' /\ broken \subseteq broken' /\ size' = size
      /\ b \in Blocks /\ BlockOK(b, opened', broken', size')
  BY <1>0, ServeStep DEF AskBlock, IInv
<1>2. opened \in Nat /\ opened' \in Nat
  BY <1>1 DEF IInv, ExportsOK
<1>3. UNCHANGED <<serial, other, marked, clearing, imports>>
  BY DEF AskBlock, topology
<1>4. Onward /\ TopologyOK' /\ ImportsOK' /\ Settled' = Settled
  BY <1>1, <1>2, <1>3, ImportsStay DEF IInv, Onward, TopologyOK, Settled
<1>6. Set(w, c)
  BY DEF AskBlock
<1> HIDE DEF b
<1>7. c \in WalletState
  BY <1>0, <1>1 DEF WalletState
<1>8. /\ c.pc = "give" /\ c.block = b /\ c.joiner = v.joiner /\ c.todo = v.todo
      /\ c.replicated = v.replicated
  BY <1>0 DEF WalletState
<1> HIDE DEF c
<1>9. WalletOK(c, Settled', marked', opened', broken', size')
  BY <1>0, <1>1, <1>3, <1>4, <1>8 DEF WalletOK
<1> QED
  BY <1>1, <1>4, <1>6, <1>7, <1>9, WalletMoves DEF IInv

(* A source has failed, or its answer is lost.                             *)
LEMMA SourceFailsStep ==
  ASSUME IInv, NEW w \in Wallets, NEW s \in Sources, SourceFails(w, s)
  PROVE  IInv'
<1> DEFINE v == wallet[w]
           tried == v.tried \cup {s}
<1>0. /\ v \in WalletState /\ WalletOK(v, Settled, marked, opened, broken, size) /\ v.pc = "ask"
      /\ v.joiner \in Joiners /\ v.seq \in Nat
  BY DEF IInv, WalletsOK, SourceFails, At, WalletOK, WalletState
<1>1. /\ ExportsOK' /\ opened <= opened' /\ broken \subseteq broken' /\ size' = size
      /\ UNCHANGED imports
  <2>1. CASE UNCHANGED copies
    BY <2>1 DEF copies, exports, IInv, ExportsOK
  <2>2. CASE /\ Serve(s, v.joiner, v.seq) \/ StreamFails(s, v.joiner, v.seq)
             /\ UNCHANGED imports
    BY <1>0, <2>2, ServeStep DEF IInv
  <2> QED BY <2>1, <2>2 DEF SourceFails
<1>2. opened \in Nat /\ opened' \in Nat
  BY <1>1 DEF IInv, ExportsOK
<1>3. UNCHANGED <<serial, other, marked, clearing, imports>>
  BY <1>1 DEF SourceFails, topology
<1>4. Onward /\ TopologyOK' /\ ImportsOK' /\ Settled' = Settled
  BY <1>1, <1>2, <1>3, ImportsStay DEF IInv, Onward, TopologyOK, Settled
<1>5. CASE Set(w, [v EXCEPT !.tried = tried])
  <2> DEFINE c == [v EXCEPT !.tried = tried]
  <2>1. c \in WalletState
    BY <1>0 DEF WalletState
  <2>2. /\ c.pc = v.pc /\ c.joiner = v.joiner /\ c.todo = v.todo
        /\ c.replicated = v.replicated
    BY <1>0 DEF WalletState
  <2> HIDE DEF c
  <2>3. WalletOK(c, Settled', marked', opened', broken', size')
    BY <1>0, <1>3, <1>4, <2>2 DEF WalletOK
  <2> QED BY <1>1, <1>4, <1>5, <2>1, <2>3, WalletMoves DEF IInv, c
<1>6. CASE Leaves(w, FALSE)
  BY <1>0, <1>1, <1>4, <1>6, LeavesStep DEF IInv
<1> QED
  BY <1>5, <1>6 DEF SourceFails

(* A complete import: what the host holds is whole.                        *)
LEMMA Imported ==
  ASSUME IInv, NEW j \in Joiners, NEW h, h # Nothing, Whole(h, opened, broken, size), Settled,
         UNCHANGED <<serial, other, marked, opened, broken, size>>,
         fed' = [fed EXCEPT ![j] = Closed], holds' = [holds EXCEPT ![j] = h],
         clearing' = clearing \cup ({j} \cap marked)
  PROVE  ImportsOK' /\ TopologyOK'
<1>1. Settled' = Settled
  BY DEF Settled
<1>2. fed' \in [Joiners -> Seq(Nat) \cup {Closed}]
  BY DEF IInv, ImportsOK
<1>3. /\ DOMAIN holds' = Joiners /\ holds' = [k \in Joiners |-> holds'[k]]
      /\ holds'[j] = h /\ \A k \in Joiners : k # j => holds'[k] = holds[k]
  BY DEF IInv, ImportsOK
<1>4. ASSUME NEW k \in Joiners
      PROVE  /\ Settled /\ k \notin marked => holds'[k] # Nothing
             /\ k \in clearing' => holds'[k] # Nothing
             /\ holds'[k] # Nothing => Whole(holds'[k], opened, broken, size)
  <2>1. CASE k = j
    BY <1>3, <2>1
  <2>2. CASE k # j
    BY <1>3, <2>2 DEF IInv, ImportsOK
  <2> QED BY <2>1, <2>2
<1>5. clearing' \subseteq Joiners
  BY DEF IInv, TopologyOK
<1> QED
  BY <1>1, <1>2, <1>3, <1>4, <1>5 DEF IInv, ImportsOK, TopologyOK

(* A joining host takes a block: the last one leaves it with one export.   *)
LEMMA ImportStep ==
  ASSUME IInv, NEW j \in Joiners, NEW b \in Blocks, BlockOK(b, opened, broken, size),
         Import(j, b), UNCHANGED <<serial, other, marked, opened, broken, size>>
  PROVE  ImportsOK' /\ TopologyOK' /\ Settled' = Settled /\ Settled
<1>0. /\ fed \in [Joiners -> Seq(Nat) \cup {Closed}]
      /\ b.seq \in Nat /\ b.of \in Nat /\ b.of \in 1 .. opened /\ opened \in Nat /\ size \in Nat
      /\ b.total \in Nat
  BY DEF IInv, ImportsOK, ExportsOK, Blocks, BlockOK
<1>1. Settled' = Settled
  BY DEF Settled
<1>2. Settled
  <2>1. CASE b.seq = 1
    BY <2>1 DEF Import, Takes, IInv, ImportsOK
  <2>2. CASE b.seq # 1
    BY <2>2 DEF Import, Takes, IInv, ImportsOK
  <2> QED BY <2>1, <2>2
<1>3. CASE b.seq = 1 /\ FirstBlock(j, b)
  <2>1. fed' \in [Joiners -> Seq(Nat) \cup {Closed}]
    BY <1>0, <1>3 DEF FirstBlock
  <2>2. UNCHANGED <<holds, clearing>>
    BY <1>3 DEF FirstBlock
  <2> QED BY <1>1, <1>2, <2>1, <2>2 DEF IInv, ImportsOK, TopologyOK
<1>4. CASE b.seq # 1 /\ NextBlock(j, b)
  <2>0. fed[j] \in Seq(Nat)
    BY <1>0, <1>4 DEF Import, Takes
  <2>1. Append(fed[j], b.of) \in Seq(Nat)
    BY <1>0, <2>0
  <2>2. fed' \in [Joiners -> Seq(Nat) \cup {Closed}]
    BY <1>0, <1>4, <2>1 DEF NextBlock
  <2>3. UNCHANGED <<holds, clearing>>
    BY <1>4 DEF NextBlock
  <2> QED BY <1>1, <1>2, <2>2, <2>3 DEF IInv, ImportsOK, TopologyOK
<1>5. CASE b.seq # 1 /\ b.end /\ LastBlock(j, b)
  <2>0. fed[j] \in Seq(Nat) /\ fed[j] # Closed
    BY <1>0, <1>5 DEF Import, Takes
  <2>1. Len(fed[j]) = b.total /\ \A i \in 1 .. b.total : fed[j][i] = b.of
    BY <1>5 DEF LastBlock, Matches
  <2>2. DOMAIN fed[j] = 1 .. b.total
    BY <2>0, <2>1
  <2>3. b.total = size \/ b.of \in broken
    BY <1>5 DEF BlockOK
  <2>4. Whole(fed[j], opened, broken, size)
    BY <1>0, <2>1, <2>2, <2>3 DEF Whole
  <2>5. fed' = [fed EXCEPT ![j] = Closed] /\ holds' = [holds EXCEPT ![j] = fed[j]]
        /\ clearing' = clearing \cup ({j} \cap marked)
    BY <1>5 DEF LastBlock
  <2> QED BY <1>1, <1>2, <2>0, <2>4, <2>5, Imported DEF Closed
<1>6. CASE b.seq = 1 /\ b.end /\ EmptyImport(j)
  <2>1. b.total = 0 /\ (b.total = size \/ b.of \in broken)
    BY <1>0, <1>6 DEF BlockOK
  <2>2. Whole(<<>>, opened, broken, size)
    BY <1>0, <2>1 DEF Whole
  <2>3. fed' = [fed EXCEPT ![j] = Closed] /\ holds' = [holds EXCEPT ![j] = <<>>]
        /\ clearing' = clearing \cup ({j} \cap marked)
    BY <1>6 DEF EmptyImport
  <2> QED BY <1>1, <1>2, <2>2, <2>3, Imported, NothingAssumption
<1> QED
  BY <1>2, <1>3, <1>4, <1>5, <1>6 DEF Import

(* An import that breaks leaves what the host held.                        *)
LEMMA BreaksStep ==
  ASSUME IInv, NEW j \in Joiners, Breaks(j),
         UNCHANGED <<serial, other, marked, opened, broken, size>>
  PROVE  ImportsOK' /\ TopologyOK'
<1>1. fed' \in [Joiners -> Seq(Nat) \cup {Closed}] /\ UNCHANGED <<holds, clearing>>
  BY DEF Breaks, IInv, ImportsOK
<1>2. \A k \in Joiners : fed'[k] # Closed => fed[k] # Closed
  BY DEF Breaks, IInv, ImportsOK
<1>3. Settled' = Settled
  BY DEF Settled
<1> QED
  BY <1>1, <1>2, <1>3 DEF IInv, ImportsOK, TopologyOK

(* The joining host has taken a block, and answered.                       *)
LEMMA GiveBlockStep ==
  ASSUME IInv, NEW w \in Wallets, GiveBlock(w)
  PROVE  IInv'
<1> DEFINE v == wallet[w]
           b == v.block
<1>0. /\ v \in WalletState /\ WalletOK(v, Settled, marked, opened, broken, size) /\ v.pc = "give"
      /\ v.joiner \in Joiners /\ b \in Blocks /\ BlockOK(b, opened, broken, size)
  BY DEF IInv, WalletsOK, GiveBlock, At, WalletOK, WalletState
<1>1. Import(v.joiner, b) /\ UNCHANGED <<serial, other, signed, marked, exports>>
  BY DEF GiveBlock
<1>2. ImportsOK' /\ TopologyOK' /\ Settled' = Settled /\ Settled
  BY <1>0, <1>1, ImportStep DEF exports
<1>3. ExportsOK' /\ Onward
  BY <1>1, <1>2 DEF IInv, ExportsOK, Onward, exports
<1>5. CASE ~b.end /\ Set(w, [v EXCEPT !.pc = "ask", !.seq = @ + 1])
  <2> DEFINE c == [v EXCEPT !.pc = "ask", !.seq = @ + 1]
  <2>0. v.seq + 1 \in Nat
    BY <1>0 DEF WalletState
  <2>1. c \in WalletState
    BY <1>0, <2>0 DEF WalletState
  <2>2. /\ c.pc = "ask" /\ c.joiner = v.joiner /\ c.todo = v.todo
        /\ c.replicated = v.replicated
    BY <1>0 DEF WalletState
  <2> HIDE DEF c
  <2>3. WalletOK(c, Settled', marked', opened', broken', size')
    BY <1>0, <1>1, <1>2, <2>2 DEF WalletOK
  <2> QED BY <1>2, <1>3, <1>5, <2>1, <2>3, WalletMoves DEF IInv, c
<1>6. CASE b.end /\ Set(w, AfterImport(w))
  <2> DEFINE c == AfterImport(w)
  <2>1. c \in WalletState
    BY <1>0 DEF WalletState, AfterImport
  <2>2. /\ c.pc = (IF v.joiner \in marked THEN "poll" ELSE "next") /\ c.joiner = v.joiner
        /\ c.todo = v.todo /\ c.replicated = v.replicated
    BY <1>0 DEF WalletState, AfterImport
  <2> HIDE DEF c
  <2>3. WalletOK(c, Settled', marked', opened', broken', size')
    BY <1>0, <1>1, <1>2, <2>2 DEF WalletOK
  <2> QED BY <1>2, <1>3, <1>6, <2>1, <2>3, WalletMoves DEF IInv, c
<1> QED
  BY <1>5, <1>6 DEF GiveBlock

(* The call that gave it has failed, whatever became of the block.         *)
LEMMA GiveFailsStep ==
  ASSUME IInv, NEW w \in Wallets, GiveFails(w)
  PROVE  IInv'
<1> DEFINE v == wallet[w]
           b == v.block
<1>0. /\ v \in WalletState /\ WalletOK(v, Settled, marked, opened, broken, size) /\ v.pc = "give"
      /\ v.joiner \in Joiners /\ b \in Blocks /\ BlockOK(b, opened, broken, size)
  BY DEF IInv, WalletsOK, GiveFails, At, WalletOK, WalletState
<1>1. Leaves(w, FALSE) /\ UNCHANGED <<serial, other, signed, marked, exports>>
  BY DEF GiveFails
<1>2. ImportsOK' /\ TopologyOK'
  <2>1. CASE UNCHANGED <<imports, clearing>>
    BY <1>1, <2>1, ImportsStay DEF IInv, ExportsOK, TopologyOK, exports
  <2>2. CASE Breaks(v.joiner)
    BY <1>0, <1>1, <2>2, BreaksStep DEF exports
  <2>3. CASE Import(v.joiner, b)
    BY <1>0, <1>1, <2>3, ImportStep DEF exports
  <2> QED BY <2>1, <2>2, <2>3 DEF GiveFails
<1>3. ExportsOK' /\ Onward
  BY <1>1 DEF IInv, ExportsOK, Onward, Settled, exports
<1> QED
  BY <1>0, <1>1, <1>2, <1>3, LeavesStep DEF IInv

(* The marker is gone, is waited for, or is given up.                      *)
LEMMA PollStep ==
  ASSUME IInv, NEW w \in Wallets, Poll(w)
  PROVE  IInv'
<1> DEFINE v == wallet[w]
<1>0. /\ v \in WalletState /\ WalletOK(v, Settled, marked, opened, broken, size) /\ v.pc = "poll" /\ Settled
  BY DEF IInv, WalletsOK, Poll, At, WalletOK
<1>1. Onward /\ TopologyOK' /\ ExportsOK' /\ ImportsOK' /\ Settled' = Settled
      /\ marked' = marked /\ opened' = opened /\ broken' = broken /\ size' = size
  BY Still DEF Poll, topology, copies, exports
<1>2. CASE v.joiner \notin marked /\ Leaves(w, TRUE)
  BY <1>0, <1>1, <1>2, LeavesStep DEF IInv
<1>3. CASE Leaves(w, FALSE)
  BY <1>0, <1>1, <1>3, LeavesStep DEF IInv
<1>4. CASE Set(w, [v EXCEPT !.polls = (@ + 1) % (MaxPolls + 1)])
  <2> DEFINE n == (v.polls + 1) % (MaxPolls + 1)
             c == [v EXCEPT !.polls = n]
  <2>1. n \in Nat
    BY <1>0, BoundsAssumption DEF WalletState
  <2>2. Set(w, c)
    BY <1>4
  <2> HIDE DEF n
  <2>3. c \in WalletState
    BY <1>0, <2>1 DEF WalletState
  <2>4. /\ c.pc = v.pc /\ c.joiner = v.joiner /\ c.todo = v.todo
        /\ c.replicated = v.replicated
    BY <1>0 DEF WalletState
  <2> HIDE DEF c
  <2>5. WalletOK(c, Settled', marked', opened', broken', size')
    BY <1>0, <1>1, <2>4 DEF WalletOK
  <2> QED BY <1>1, <2>2, <2>3, <2>5, WalletMoves DEF IInv
<1> QED
  BY <1>2, <1>3, <1>4 DEF Poll

----------------------------------------------------------------------------
(* Canton and the reapers.                                                 *)

(* Canton takes the add, another write, or the clearing of a marker.       *)
LEMMA TopologySteps ==
  ASSUME IInv, Authorize \/ OtherWrite \/ \E j \in Joiners : ClearMarker(j)
  PROVE  IInv'
<1>0. UNCHANGED <<wallet, copies>> /\ ExportsOK'
  BY DEF Authorize, OtherWrite, ClearMarker, IInv, ExportsOK, copies, exports
<1>1. CASE Authorize
  <2>1. serial' = 1 /\ marked' = Joiners /\ other' = FALSE /\ clearing' = clearing /\ ~Settled /\ Settled'
    BY <1>1 DEF Authorize, IInv, TopologyOK, Settled
  <2>a. Onward
    BY <1>0, <2>1 DEF IInv, Onward, ExportsOK, copies, exports
  <2>b. serial' \in Nat /\ serial' # 0 /\ marked' \subseteq Joiners /\ clearing' \subseteq Joiners
    BY <2>1 DEF IInv, TopologyOK
  <2>c. other' \in BOOLEAN
    BY <2>1
  <2>2. TopologyOK' /\ Onward
    BY <2>a, <2>b, <2>c DEF TopologyOK
  <2>3. ImportsOK'
    BY <1>0, <2>1 DEF IInv, ImportsOK, copies, exports, imports
  <2> QED BY <1>0, <2>2, <2>3, WalletsStay DEF IInv
<1>2. CASE OtherWrite
  <2>1. /\ serial' = 1 /\ other' = TRUE /\ marked' = marked /\ clearing' = clearing
        /\ ~Settled /\ ~Settled'
    BY <1>2 DEF OtherWrite, IInv, TopologyOK, Settled
  <2>a. Onward
    BY <1>0, <2>1 DEF IInv, Onward, ExportsOK, copies, exports
  <2>b. serial' \in Nat /\ serial' # 0 /\ marked' \subseteq Joiners /\ clearing' \subseteq Joiners
    BY <2>1 DEF IInv, TopologyOK
  <2>c. other' \in BOOLEAN
    BY <2>1
  <2>2. TopologyOK' /\ Onward
    BY <2>a, <2>b, <2>c DEF TopologyOK
  <2>3. ImportsOK'
    BY <1>0, <2>1 DEF IInv, ImportsOK, copies, exports, imports
  <2> QED BY <1>0, <2>2, <2>3, WalletsStay DEF IInv
<1>3. ASSUME NEW j \in Joiners, ClearMarker(j) PROVE IInv'
  <2>1. /\ serial' = serial + 1 /\ other' = other /\ marked' = marked \ {j}
        /\ clearing' = clearing \ {j} /\ holds[j] # Nothing
    BY <1>3 DEF ClearMarker, IInv, ImportsOK
  <2>2. Settled /\ Settled'
    BY <2>1 DEF IInv, ImportsOK, TopologyOK, Settled
  <2>3. TopologyOK' /\ Onward
    BY <1>0, <2>1, <2>2 DEF TopologyOK, IInv, Onward, ExportsOK, copies, exports
  <2>4. ImportsOK'
    BY <1>0, <2>1, <2>2 DEF IInv, ImportsOK, copies, exports, imports
  <2> QED BY <1>0, <2>3, <2>4, WalletsStay DEF IInv
<1> QED
  BY <1>1, <1>2, <1>3

(* The hosts drop copies.                                                  *)
LEMMA ReapSteps ==
  ASSUME IInv, NEW j \in Joiners, ReapImport(j) \/ \E s \in Sources : ReapExport(s, j)
  PROVE  IInv'
<1>0. UNCHANGED <<wallet, serial, other, marked, opened, broken, size>> /\ Onward
  BY DEF ReapImport, ReapExport, IInv, ExportsOK, Onward, Settled, topology, exports
<1>1. CASE ReapImport(j)
  <2>1. ImportsOK' /\ TopologyOK'
    BY <1>0, <1>1, BreaksStep DEF ReapImport
  <2>2. ExportsOK'
    BY <1>1 DEF ReapImport, IInv, ExportsOK, exports
  <2> QED BY <1>0, <2>1, <2>2, WalletsStay DEF IInv
<1>2. ASSUME NEW s \in Sources, ReapExport(s, j) PROVE IInv'
  <2>1. ImportsOK' /\ TopologyOK'
    BY <1>0, <1>2, ImportsStay DEF ReapExport, IInv, ExportsOK, TopologyOK, topology
  <2>2. NoExport \in Exported /\ export' = [export EXCEPT ![s][j] = NoExport]
    BY <1>2 DEF ReapExport, NoExport, Exported
  <2>3. export' \in [Sources -> [Joiners -> Exported]]
    BY <2>2 DEF IInv, ExportsOK
  <2>4. \A t \in Sources, k \in Joiners : export'[t][k] \in {NoExport, export[t][k]}
    BY <2>2 DEF IInv, ExportsOK
  <2>5. ExportsOK'
    BY <1>0, <2>3, <2>4 DEF IInv, ExportsOK
  <2> QED BY <1>0, <2>1, <2>5, WalletsStay DEF IInv
<1> QED
  BY <1>1, <1>2

----------------------------------------------------------------------------
(* The invariant holds initially.                                          *)
LEMMA InitIInv == Init => IInv
<1> SUFFICES ASSUME Init PROVE IInv
  OBVIOUS
<1> DEFINE v == [pc |-> "prepare", todo |-> Hosts, answers |-> {}, tried |-> {}, errors |-> {},
                 joiner |-> Nothing, source |-> Nothing, seq |-> 1, block |-> NoBlock,
                 polls |-> 0, replicated |-> TRUE]
<1>1. v \in WalletState
  BY DEF WalletState, NoBlock, Blocks
<1>2. v.pc = "prepare" /\ v.todo = Hosts /\ v.errors = {}
  OBVIOUS
<1>3. wallet = [w \in Wallets |-> v]
  BY DEF Init
<1> HIDE DEF v
<1>4. WalletsOK
  BY <1>1, <1>2, <1>3 DEF WalletsOK, WalletOK
<1>5. TopologyOK
  BY DEF Init, TopologyOK
<1>6. ExportsOK
  BY BoundsAssumption DEF Init, ExportsOK, NoExport, Exported
<1>7. ImportsOK
  BY DEF Init, ImportsOK, Settled, Closed
<1> QED
  BY <1>4, <1>5, <1>6, <1>7 DEF IInv

(* Every step keeps it.                                                    *)
LEMMA NextIInv == IInv /\ [Next]_vars => IInv'
<1> SUFFICES ASSUME IInv, [Next]_vars PROVE IInv'
  OBVIOUS
<1>1. ASSUME NEW w \in Wallets, WalletStep(w) PROVE IInv'
  BY <1>1, PrepareStep, SignStep, ExecuteStep, NextJoinerStep, AskBlockStep, SourceFailsStep,
     GiveBlockStep, GiveFailsStep, PollStep DEF WalletStep
<1>2. CASE Authorize \/ OtherWrite \/ \E j \in Joiners : ClearMarker(j)
  BY <1>2, TopologySteps
<1>3. ASSUME NEW j \in Joiners, ReapImport(j) \/ \E s \in Sources : ReapExport(s, j) PROVE IInv'
  BY <1>3, ReapSteps
<1>4. CASE UNCHANGED vars
  <2>1. Onward /\ TopologyOK' /\ ExportsOK' /\ ImportsOK' /\ UNCHANGED wallet
    BY <1>4, Still DEF vars
  <2> QED BY <2>1, WalletsStay DEF IInv
<1> QED
  BY <1>1, <1>2, <1>3, <1>4 DEF Next

(* With one host that prepares what was asked for, no signature goes out   *)
(* over anything else (add_hosts, the agreement of the hosts).             *)
THEOREM SignsSafety == Spec => []SignsTheAdd
<1>1. IInv => SignsTheAdd
  BY DEF IInv, WalletsOK, WalletOK, SignsTheAdd, At
<1> QED
  BY InitIInv, NextIInv, <1>1, PTL DEF Spec

(* However many wallets carry the same copy, restart, break and lose it, a *)
(* joining host of a run reported as replicated holds one export, whole    *)
(* unless its stream failed, and has lost its marker (add_hosts,           *)
(* accept_block, run_import).                                              *)
THEOREM ReplicationSafety == Spec => []ReplicatedMeansLive
<1>1. IInv => ReplicatedMeansLive
  <2> SUFFICES ASSUME IInv, NEW w \in Wallets, At(w, "done"), wallet[w].replicated, NEW j \in Joiners
               PROVE  /\ j \notin marked /\ serial > 0 /\ ~other
                      /\ holds[j] # Nothing
                      /\ \E e \in 1 .. opened :
                          /\ \A i \in DOMAIN holds[j] : holds[j][i] = e
                          /\ Len(holds[j]) = size \/ e \in broken
    BY DEF ReplicatedMeansLive
  <2>1. Settled /\ j \notin marked
    BY DEF IInv, WalletsOK, WalletOK, At
  <2>2. holds[j] # Nothing
    BY <2>1 DEF IInv, ImportsOK
  <2> QED BY <2>1, <2>2 DEF IInv, ImportsOK, Settled, Whole
<1> QED
  BY InitIInv, NextIInv, <1>1, PTL DEF Spec
=============================================================================
