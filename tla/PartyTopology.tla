---------------------------- MODULE PartyTopology ----------------------------
(***************************************************************************)
(* How kick, add-party and change-threshold runs change a decentralized    *)
(* party: its namespace definition (DNS) and its participant mapping (P2P) *)
(* on the synchronizer, each with a serial; proposals built on a head that *)
(* may move, pinned to its serial, but for the one that clears a marker;   *)
(* the peers' checks before they sign; and the submission of the DNS and   *)
(* then of the P2P, step by step, by several coordinators at a time.       *)
(*                                                                         *)
(* A node stands for its participant, its namespace key and its Daml key,  *)
(* so owners, hosts and keys are sets of nodes.  A peer's check reads the  *)
(* two heads in one step: a head that moves between the reads has left the *)
(* serial the peer signs.                                                  *)
(***************************************************************************)
EXTENDS Integers, FiniteSets

CONSTANTS
    Nodes,            \* the configured mesh
    Members,          \* the party's members at first
    Departed,         \* members of the past, with keys in a legacy mapping
    Legacy,           \* the party keeps its keys in a PartyToKeyMapping
    NamespaceThreshold, ConfirmationThreshold,
                      \* its two thresholds at first
    Coordinators,     \* the nodes that start runs
    Runs,             \* slots for runs, one run each
    Kinds,            \* the kinds of runs started
    Asked,            \* the thresholds the requests may ask for
    ReplayMayFail,    \* a temporary store may fail to rebuild the heads
    MaxRetries        \* bound on the retries of each run

ASSUME MembersAssumption ==
    /\ Members \subseteq Nodes /\ Coordinators \subseteq Nodes
    /\ IsFiniteSet(Nodes) /\ IsFiniteSet(Departed) /\ Members \cap Departed = {}
ASSUME ThresholdsAssumption ==
    /\ Asked \subseteq Nat
    /\ {NamespaceThreshold, ConfirmationThreshold} \subseteq 1..Cardinality(Members)
ASSUME SwitchesAssumption ==
    Legacy \in BOOLEAN /\ ReplayMayFail \in BOOLEAN /\ MaxRetries \in Nat

VARIABLES
    dns,      \* DecentralizedNamespaceDefinition in force
    p2p,      \* PartyToParticipant in force
    legacy,   \* keys of the PartyToKeyMapping, {} when removed
    removal,  \* who signed the removal of the PartyToKeyMapping
    cache,    \* each coordinator's dec_parties rows of the party
    run,      \* the runs
    solo      \* history: a P2P took effect on its coordinator's signature alone

topologyVars == <<dns, p2p, legacy, removal, cache, run, solo>>

NoDns == [owners |-> {}, threshold |-> 0, serial |-> 0]
NoP2p == [hosts |-> {}, marked |-> {}, threshold |-> 0, keys |-> {},
          keyThreshold |-> 0, serial |-> 0]
NoRun == [kind |-> "none", coord |-> "none", target |-> "none", thr |-> 0, conf |-> 0,
          members |-> {}, quorum |-> 0, rehost |-> FALSE, pc |-> "idle", at |-> "idle",
          readDns |-> NoDns, readP2p |-> NoP2p, dnsTx |-> NoDns, p2pTx |-> NoP2p,
          sigs |-> {}, answered |-> {}, retries |-> 0]

TopologyInit ==
    /\ dns = [owners |-> Members, threshold |-> NamespaceThreshold, serial |-> 1]
    /\ p2p = [hosts |-> Members, marked |-> {}, threshold |-> ConfirmationThreshold,
              keys |-> IF Legacy THEN {} ELSE Members,
              keyThreshold |-> IF Legacy THEN 0 ELSE NamespaceThreshold, serial |-> 1]
    /\ legacy = IF Legacy THEN Members \cup Departed ELSE {}
    /\ removal = {}
    /\ cache = [c \in Coordinators |->
                   [hosts |-> Members, threshold |-> NamespaceThreshold,
                    confirmation |-> ConfirmationThreshold]]
    /\ run = [r \in Runs |-> NoRun]
    /\ solo = FALSE

Min2(x, y) == IF x <= y THEN x ELSE y
InFlight(r) == run[r].pc \notin {"idle", "failed", "over"}
Invitees(r) == run[r].members \ {run[r].coord}
At(r, pc) == run[r].pc = pc
Set(r, f) == run' = [run EXCEPT ![r] = f]
Goto(r, pc) == Set(r, [run[r] EXCEPT !.pc = pc])

Over == [NoRun EXCEPT !.pc = "over"]

(* A step that errors fails the run, which keeps its artefacts and can be  *)
(* retried at that step; past the bound on retries it counts as dismissed. *)
FailsAt(r, pc) ==
    Set(r, IF run[r].retries < MaxRetries
           THEN [run[r] EXCEPT !.pc = "failed", !.at = pc] ELSE Over)
Fails(r) == FailsAt(r, run[r].pc)

----------------------------------------------------------------------------
(* thresholds.rs                                                           *)

(* carried_confirmation_threshold, with the new namespace threshold for    *)
(* None.                                                                   *)
Carried(namespace, confirmation, hosts, planned) ==
    IF confirmation = namespace THEN planned ELSE Min2(confirmation, hosts)

(* ensure_carried_from *)
EnsureCarried(namespace, confirmation, hosts, x) ==
    Carried(namespace, confirmation, hosts, x.thr) = x.conf

----------------------------------------------------------------------------
(* start_kick, start_add_party, start_change_threshold: checks against the *)
(* cached party.  find_inprogress_run_for_party knows this node's runs.    *)

MayStart(r, kind, c) ==
    /\ kind \in Kinds /\ run[r] = NoRun
    /\ \A s \in Runs : run[s].coord = c => ~InFlight(s)

Begin(r, x) ==
    /\ Set(r, [x EXCEPT !.pc = "export"])
    /\ UNCHANGED <<dns, p2p, legacy, removal, cache, solo>>

(* resolve_peer_threshold: a kick of a party with inline keys needs a      *)
(* quorum by the cached threshold, every other run all its peers.          *)
PeerQuorum(kind, c, peers) ==
    IF kind = "Kick" /\ p2p.keys # {}
    THEN LET m == cache[c].threshold - 1 IN
         IF m < 1 THEN 1 ELSE Min2(m, Cardinality(peers))
    ELSE Cardinality(peers)

StartKick(r, c, t, thr) ==
    LET members == (cache[c].hosts \cup {c}) \ {t}
        n == Cardinality(members) IN
    /\ MayStart(r, "Kick", c)
    /\ t # c /\ t \in cache[c].hosts
    /\ Cardinality(cache[c].hosts \ {c}) >= 2
    /\ thr \in 1..n
    /\ Begin(r, [NoRun EXCEPT
          !.kind = "Kick", !.coord = c, !.target = t, !.thr = thr, !.members = members,
          !.conf = Carried(cache[c].threshold, cache[c].confirmation, n, thr),
          !.quorum = PeerQuorum("Kick", c, members \ {c})])

StartAddParty(r, c, t, thr) ==
    LET n == Cardinality(cache[c].hosts) IN
    /\ MayStart(r, "AddParty", c)
    /\ t # c /\ t \notin cache[c].hosts /\ c \in cache[c].hosts
    /\ thr \in 1..n
    /\ Begin(r, [NoRun EXCEPT
          !.kind = "AddParty", !.coord = c, !.target = t, !.thr = thr,
          !.members = cache[c].hosts \cup {t},
          !.conf = Carried(cache[c].threshold, cache[c].confirmation, n + 1, thr),
          !.quorum = PeerQuorum("AddParty", c, (cache[c].hosts \cup {t}) \ {c})])

StartChangeThreshold(r, c, thr, conf) ==
    LET n == Cardinality(cache[c].hosts) IN
    /\ MayStart(r, "ChangeThreshold", c)
    /\ c \in cache[c].hosts /\ n >= 2
    /\ thr \in 1..n /\ conf \in 1..n
    /\ Begin(r, [NoRun EXCEPT
          !.kind = "ChangeThreshold", !.coord = c, !.thr = thr, !.conf = conf,
          !.members = cache[c].hosts,
          !.quorum = PeerQuorum("ChangeThreshold", c, cache[c].hosts \ {c})])

----------------------------------------------------------------------------
(* Canton: a transaction takes effect at the serial after the head's, once *)
(* the namespace's threshold of owners, and whoever it adds, signed it.    *)

DnsEffective(tx, sigs) ==
    /\ tx.serial = dns.serial + 1
    /\ Cardinality(sigs \cap dns.owners) >= dns.threshold
    /\ tx.owners \ dns.owners \subseteq sigs

P2pEffective(tx, sigs) ==
    /\ tx.serial = p2p.serial + 1
    /\ Cardinality(sigs \cap dns.owners) >= dns.threshold
    /\ (tx.hosts \ p2p.hosts) \cup (tx.keys \ p2p.keys) \subseteq sigs
    /\ (p2p.marked \ tx.marked) \cap tx.hosts \subseteq sigs

PublishDns(tx, sigs) == dns' = IF DnsEffective(tx, sigs) THEN tx ELSE dns
PublishP2p(tx, sigs) == p2p' = IF P2pEffective(tx, sigs) THEN tx ELSE p2p

----------------------------------------------------------------------------
(* ExportState *)

Exportable(r) ==
    CASE run[r].kind = "Kick" ->
            /\ Cardinality(dns.owners) >= 2
            /\ run[r].target \in p2p.hosts /\ run[r].target \in dns.owners
      [] run[r].kind = "AddParty" ->
            run[r].target \notin p2p.hosts /\ run[r].thr \in 1..Cardinality(dns.owners)
      [] OTHER -> run[r].thr \in 1..Cardinality(dns.owners)

ExportState(r) ==
    /\ At(r, "export")
    /\ IF Exportable(r) THEN Set(r, [run[r] EXCEPT !.pc = "create", !.readDns = dns])
       ELSE Fails(r)
    /\ UNCHANGED <<dns, p2p, legacy, removal, cache, solo>>

----------------------------------------------------------------------------
(* CreateProposals *)

(* fetch_party_head reads the DNS first; ensure_namespace_is.              *)
ReadNamespace(r) ==
    /\ At(r, "create")
    /\ IF dns.owners = run[r].readDns.owners /\ dns.threshold = run[r].readDns.threshold
       THEN Set(r, [run[r] EXCEPT !.pc = "build", !.readDns = dns])
       ELSE Fails(r)
    /\ UNCHANGED <<dns, p2p, legacy, removal, cache, solo>>

(* adopt_legacy_signing_keys: a party with fewer inline keys than members  *)
(* takes its members' keys over from the legacy mapping.                   *)
KeysOf(members) ==
    IF Cardinality(p2p.keys) < Cardinality(p2p.hosts)
    THEN (p2p.keys \cup legacy) \cap members ELSE p2p.keys \cap members

Rehost(x) == x.kind = "AddParty" /\ x.target \in x.readDns.owners

NewDns(x) ==
    IF Rehost(x) THEN x.readDns
    ELSE [owners |-> CASE x.kind = "Kick" -> x.readDns.owners \ {x.target}
                       [] x.kind = "AddParty" -> x.readDns.owners \cup {x.target}
                       [] OTHER -> x.readDns.owners,
          threshold |-> x.thr, serial |-> x.readDns.serial + 1]

(* Mutant: a kick drops the first key it finds.                            *)
NewP2pDroppingAKey(x) ==
    LET hosts == CASE x.kind = "Kick" -> p2p.hosts \ {x.target}
                   [] x.kind = "AddParty" -> p2p.hosts \cup {x.target}
                   [] OTHER -> p2p.hosts
        added == IF x.kind = "AddParty" THEN {x.target} ELSE {}
        keys == KeysOf(p2p.hosts) IN
    [hosts |-> hosts, marked |-> (p2p.marked \cap hosts) \cup added,
     threshold |-> x.conf,
     keys |-> (IF x.kind = "Kick" THEN keys \ {CHOOSE k \in keys : TRUE} ELSE keys) \cup added,
     keyThreshold |-> x.thr, serial |-> p2p.serial + 1]

NewP2p(x) ==
    LET hosts == CASE x.kind = "Kick" -> p2p.hosts \ {x.target}
                   [] x.kind = "AddParty" -> p2p.hosts \cup {x.target}
                   [] OTHER -> p2p.hosts
        added == IF x.kind = "AddParty" THEN {x.target} ELSE {} IN
    [hosts |-> hosts, marked |-> (p2p.marked \cap hosts) \cup added,
     threshold |-> x.conf, keys |-> KeysOf(hosts) \cup added,
     keyThreshold |-> x.thr, serial |-> p2p.serial + 1]

Buildable(x) ==
    LET new == NewP2p(x) IN
    CASE x.kind = "ChangeThreshold" ->
            /\ x.conf \in 1..Cardinality(p2p.hosts)
            /\ x.thr # x.readDns.threshold \/ x.conf # p2p.threshold
            /\ Cardinality(p2p.keys) < Cardinality(p2p.hosts) =>
                   Cardinality(new.keys) = Cardinality(new.hosts)
      [] OTHER ->
            /\ NewDns(x).owners # {} /\ new.hosts # {}
            /\ EnsureCarried(x.readDns.threshold, p2p.threshold, Cardinality(new.hosts), x)
            /\ Cardinality(new.keys) = Cardinality(new.hosts)
            /\ Rehost(x) => x.thr = x.readDns.threshold
            /\ x.kind = "AddParty" => x.target \notin p2p.hosts

(* Mutant: a party whose history does not replay is signed for on the      *)
(* synchronizer whatever its threshold.                                    *)
AlwaysFallBack(x) == {"store", "synchronizer"}

(* signing_route: how the proposals may be signed.                         *)
Routes(x) ==
    {"store"} \cup
    (IF ~ReplayMayFail THEN {}
     ELSE IF x.readDns.threshold >= 2 THEN {"synchronizer"} ELSE {"refuse"})

(* The P2P is read and the proposals are built and signed.  A fallback     *)
(* publishes both as it signs them, an add-party its P2P in any case.      *)
BuildProposals(r) ==
    /\ At(r, "build")
    /\ LET x == run[r]
           built(pc) == [x EXCEPT !.pc = pc, !.readP2p = p2p, !.rehost = Rehost(x),
                                  !.dnsTx = NewDns(x), !.p2pTx = NewP2p(x), !.sigs = {x.coord}] IN
       \/ ~Buildable(x) /\ Fails(r)
       \/ \E route \in Routes(x) :
            /\ Buildable(x)
            /\ CASE route = "refuse" -> Fails(r)
                 [] route = "synchronizer" /\ ~Rehost(x) -> Set(r, built("authorize_dns"))
                 [] route = "synchronizer" \/ x.kind = "AddParty" -> Set(r, built("authorize_p2p"))
                 [] OTHER -> Set(r, built("sign"))
    /\ UNCHANGED <<dns, p2p, legacy, removal, cache, solo>>

(* sign_on_synchronizer: Canton refuses a serial that is not the next.     *)
AuthorizeDns(r) ==
    /\ At(r, "authorize_dns")
    /\ IF run[r].dnsTx.serial = dns.serial + 1
       THEN PublishDns(run[r].dnsTx, run[r].sigs) /\ Goto(r, "authorize_p2p")
       ELSE Fails(r) /\ UNCHANGED dns
    /\ UNCHANGED <<p2p, legacy, removal, cache, solo>>

AuthorizeP2p(r) ==
    /\ At(r, "authorize_p2p")
    /\ IF run[r].p2pTx.serial = p2p.serial + 1
       THEN PublishP2p(run[r].p2pTx, run[r].sigs) /\ Goto(r, "sign")
       ELSE Fails(r) /\ UNCHANGED p2p
    /\ solo' = (solo \/ p2p' # p2p)
    /\ UNCHANGED <<dns, legacy, removal, cache>>

----------------------------------------------------------------------------
(* A peer's checks (validation.rs) against the invitation it accepted.     *)

Sane(threshold, n, expected) == threshold \in 1..n /\ threshold = expected

(* check_p2p_membership and check_p2p_thresholds *)
P2pAsInvited(x, tx, n) ==
    /\ tx.hosts = x.members /\ n \in tx.hosts
    /\ x.kind = "Kick" => x.target \notin tx.hosts
    /\ x.kind = "AddParty" => x.target \in tx.hosts
    /\ Sane(tx.threshold, Cardinality(x.members), x.conf)
    /\ Sane(tx.keyThreshold, Cardinality(x.members), x.thr)
    /\ Cardinality(tx.keys) = Cardinality(x.members)

(* check_onboarding_markers *)
MarkersAsInvited(x, tx) == tx.marked = IF x.kind = "AddParty" THEN {x.target} ELSE {}

(* already_applied, or the next serial and check_set_delta.                *)
SetDelta(x, current, proposed, n, adopted) ==
    LET added == proposed \ current
        removed == current \ proposed IN
    /\ Cardinality(added) <= IF x.kind = "AddParty" THEN 1 ELSE 0
    /\ adopted \/ Cardinality(removed) = IF x.kind = "Kick" THEN 1 ELSE 0
    /\ x.kind = "AddParty" /\ n = x.target => added \subseteq {n} /\ n \in proposed

CheckPartyProposals(x, n) ==
    /\ Cardinality(x.dnsTx.owners) = Cardinality(x.members)
    /\ Sane(x.dnsTx.threshold, Cardinality(x.dnsTx.owners), x.thr)
    /\ n \in x.dnsTx.owners
    /\ P2pAsInvited(x, x.p2pTx, n) /\ MarkersAsInvited(x, x.p2pTx)
    /\ n \in x.p2pTx.keys
    /\ \/ x.dnsTx = dns
       \/ x.dnsTx.serial = dns.serial + 1 /\ SetDelta(x, dns.owners, x.dnsTx.owners, n, FALSE)
    /\ \/ x.p2pTx = p2p
       \/ /\ x.p2pTx.serial = p2p.serial + 1
          /\ IF Cardinality(p2p.keys) >= Cardinality(p2p.hosts)
             THEN SetDelta(x, p2p.keys, x.p2pTx.keys, n, FALSE)
             ELSE SetDelta(x, p2p.keys \cup legacy, x.p2pTx.keys, n, TRUE)

(* Mutant: a peer signs what it is sent.                                   *)
SignUnchecked(r, n) ==
    /\ At(r, "sign") /\ n \in Invitees(r) \ run[r].answered
    /\ Set(r, [run[r] EXCEPT !.sigs = @ \cup {n}, !.answered = @ \cup {n}])
    /\ UNCHANGED <<dns, p2p, legacy, removal, cache, solo>>

SignProposals(r, n) ==
    /\ At(r, "sign") /\ n \in Invitees(r) \ run[r].answered
    /\ CheckPartyProposals(run[r], n)
    /\ Set(r, [run[r] EXCEPT !.sigs = @ \cup {n}, !.answered = @ \cup {n}])
    /\ UNCHANGED <<dns, p2p, legacy, removal, cache, solo>>

----------------------------------------------------------------------------
(* Submit *)

(* proposal_standing *)
Standing(tx, head) ==
    IF tx = head THEN "InForce" ELSE IF tx.serial = head.serial + 1 THEN "Next" ELSE "Moved"

(* Mutant: the proposals are pinned to the serials of the moment.          *)
SubmitRepinned(r) ==
    /\ At(r, "sign") /\ Cardinality(run[r].answered) >= run[r].quorum
    /\ LET x == run[r] IN
       Set(r, [x EXCEPT !.dnsTx.serial = dns.serial + 1, !.p2pTx.serial = p2p.serial + 1,
                        !.pc = IF x.rehost THEN "p2p" ELSE "dns"])
    /\ UNCHANGED <<dns, p2p, legacy, removal, cache, solo>>

(* aggregate_dns_p2p_signatures, check_added_signing_keys_signed and, but  *)
(* for a re-host, the standing of both proposals.                          *)
SubmitProposals(r) ==
    /\ At(r, "sign") /\ Cardinality(run[r].answered) >= run[r].quorum
    /\ LET x == run[r] IN
       IF x.p2pTx.keys \ p2p.keys \subseteq x.sigs
          /\ (~x.rehost => "Moved" \notin {Standing(x.dnsTx, dns), Standing(x.p2pTx, p2p)})
       THEN Goto(r, IF x.rehost THEN "p2p" ELSE "dns")
       ELSE FailsAt(r, "dns")
    /\ UNCHANGED <<dns, p2p, legacy, removal, cache, solo>>

(* add_transactions of the DNS unless it is in force.  Canton refuses a    *)
(* transaction it sees to be late, or drops it when it is sequenced late.  *)
SubmitDns(r) ==
    /\ At(r, "dns")
    /\ LET x == run[r] IN
       \/ PublishDns(x.dnsTx, x.sigs) /\ Goto(r, "confirm_dns")
       \/ x.dnsTx.serial <= dns.serial /\ x.dnsTx # dns /\ Fails(r) /\ UNCHANGED dns
    /\ UNCHANGED <<p2p, legacy, removal, cache, solo>>

(* Each kind looks for what it changed.                                    *)
DnsConfirmed(x) ==
    CASE x.kind = "Kick" -> dns.owners = x.dnsTx.owners /\ dns.threshold = x.dnsTx.threshold
                            /\ dns.serial >= x.dnsTx.serial
      [] x.kind = "AddParty" -> x.dnsTx.owners \subseteq dns.owners
      [] OTHER -> dns.threshold = x.dnsTx.threshold

ConfirmDns(r) ==
    /\ At(r, "confirm_dns") /\ DnsConfirmed(run[r])
    /\ Goto(r, "p2p")
    /\ UNCHANGED <<dns, p2p, legacy, removal, cache, solo>>

(* submit_p2p: the standing is checked again right before.                 *)
SubmitP2p(r) ==
    /\ At(r, "p2p")
    /\ LET x == run[r] IN
       CASE Standing(x.p2pTx, p2p) = "InForce" -> Goto(r, "confirm_p2p") /\ UNCHANGED p2p
         [] Standing(x.p2pTx, p2p) = "Next" ->
                PublishP2p(x.p2pTx, x.sigs) /\ Goto(r, "confirm_p2p")
         [] OTHER -> Fails(r) /\ UNCHANGED p2p
    /\ UNCHANGED <<dns, legacy, removal, cache, solo>>

P2pConfirmed(x) ==
    CASE x.kind = "Kick" -> [p2p EXCEPT !.serial = 0] = [x.p2pTx EXCEPT !.serial = 0]
                            /\ p2p.serial >= x.p2pTx.serial
      [] x.kind = "AddParty" -> x.target \in p2p.hosts
      [] OTHER -> p2p.threshold = x.conf /\ p2p.keyThreshold = x.thr

(* A kick prunes the kicked member from the cache (prune_cached_membership *)
(* does not fail the run); an add-party goes on to the import.             *)
ConfirmP2p(r) ==
    /\ At(r, "confirm_p2p") /\ P2pConfirmed(run[r])
    /\ Goto(r, IF run[r].kind = "AddParty" THEN "import" ELSE "retire")
    /\ \/ /\ run[r].kind = "Kick"
          /\ cache' = [cache EXCEPT ![run[r].coord].hosts = @ \ {run[r].target}]
       \/ UNCHANGED cache
    /\ UNCHANGED <<dns, p2p, legacy, removal, solo>>

----------------------------------------------------------------------------
(* Clearing the onboarding marker, after the import of the contracts.      *)

(* create_clear_proposal: the new member builds the proposal on the head   *)
(* it sees, for Canton to number, or reports the marker gone, which the    *)
(* coordinator verifies.                                                   *)
ReadClear(r) ==
    /\ At(r, "import")
    /\ LET x == run[r] IN
       IF x.target \in p2p.marked
       THEN Set(r, [x EXCEPT !.pc = "author", !.readP2p = p2p,
                       !.p2pTx = [p2p EXCEPT !.marked = @ \ {x.target}, !.serial = 0]])
       ELSE Goto(r, "retire")
    /\ UNCHANGED <<dns, p2p, legacy, removal, cache, solo>>

(* It authorizes the proposal with the serial 0, which stands for the one  *)
(* after the head's, whatever the head is by now.                          *)
AuthorizeClear(r) ==
    /\ At(r, "author")
    /\ LET x == run[r]
           tx == [x.p2pTx EXCEPT !.serial = p2p.serial + 1] IN
       /\ PublishP2p(tx, {x.target})
       /\ Set(r, [x EXCEPT !.pc = "clear", !.p2pTx = tx,
                           !.sigs = {x.target}, !.answered = {x.target}])
    /\ UNCHANGED <<dns, legacy, removal, cache, solo>>

(* check_clear_onboarding *)
SignClear(r, n) ==
    /\ At(r, "clear") /\ n \in Invitees(r) \ run[r].answered
    /\ P2pAsInvited(run[r], run[r].p2pTx, n) /\ run[r].p2pTx.marked = {}
    /\ Set(r, [run[r] EXCEPT !.sigs = @ \cup {n}, !.answered = @ \cup {n}])
    /\ UNCHANGED <<dns, p2p, legacy, removal, cache, solo>>

SubmitClear(r) ==
    /\ At(r, "clear") /\ run[r].answered = Invitees(r)
    /\ PublishP2p(run[r].p2pTx, run[r].sigs \cup {run[r].coord})
    /\ Goto(r, "confirm_clear")
    /\ UNCHANGED <<dns, legacy, removal, cache, solo>>

ConfirmClear(r) ==
    /\ At(r, "confirm_clear") /\ run[r].target \notin p2p.marked
    /\ Goto(r, "retire")
    /\ UNCHANGED <<dns, p2p, legacy, removal, cache, solo>>

----------------------------------------------------------------------------
(* RetireLegacyKeys: the coordinator and the peers sign the removal of the *)
(* legacy mapping once the inline keys are usable.                         *)
RetireLegacyKeys(r, n) ==
    /\ At(r, "retire") /\ n \in run[r].members \ removal /\ legacy # {}
    /\ p2p.keys # {} /\ p2p.keyThreshold \in 1..Cardinality(p2p.keys)
    /\ IF Cardinality((removal \cup {n}) \cap dns.owners) >= dns.threshold
       THEN legacy' = {} /\ removal' = {}
       ELSE removal' = removal \cup {n} /\ UNCHANGED legacy
    /\ UNCHANGED <<dns, p2p, cache, run, solo>>

Complete(r) ==
    /\ At(r, "retire") /\ legacy = {}
    /\ Set(r, Over)
    /\ UNCHANGED <<dns, p2p, legacy, removal, cache, solo>>

----------------------------------------------------------------------------

(* A step may fail for reasons of its own: a lost connection, a poll that  *)
(* ends, a peer that refuses.                                              *)
Fail(r) ==
    /\ InFlight(r) /\ Fails(r)
    /\ UNCHANGED <<dns, p2p, legacy, removal, cache, solo>>

(* A retry resumes at the step that failed with the artefacts stored so    *)
(* far; signatures not yet stored are lost, those who sent them are not    *)
(* asked again.  Nothing looks for another run of the party.               *)
Retry(r) ==
    /\ At(r, "failed")
    /\ LET x == run[r] IN
       Set(r, [x EXCEPT
           !.retries = @ + 1, !.at = "idle",
           !.pc = CASE x.at \in {"build", "authorize_dns", "authorize_p2p"} -> "create"
                    [] x.at \in {"dns", "confirm_dns", "p2p", "confirm_p2p"} -> "sign"
                    [] x.at = "author" -> "import"
                    [] x.at = "confirm_clear" -> "clear"
                    [] OTHER -> x.at,
           !.sigs = IF x.at \in {"sign", "clear"} THEN @ \cap {x.coord, x.target} ELSE @])
    /\ UNCHANGED <<dns, p2p, legacy, removal, cache, solo>>

(* Dismissed or cancelled: the artefacts are gone.                         *)
Dismiss(r) ==
    /\ InFlight(r) \/ At(r, "failed")
    /\ Set(r, Over)
    /\ UNCHANGED <<dns, p2p, legacy, removal, cache, solo>>

(* The periodic refresh of the dec_parties cache.                          *)
Refresh(c) ==
    /\ cache' = [cache EXCEPT ![c] = [hosts |-> p2p.hosts, threshold |-> dns.threshold,
                                      confirmation |-> p2p.threshold]]
    /\ UNCHANGED <<dns, p2p, legacy, removal, run, solo>>

Thresholds == 1..Cardinality(Nodes)

Start(r) ==
    \E c \in Coordinators, thr \in Asked :
        \/ \E t \in Nodes : StartKick(r, c, t, thr) \/ StartAddParty(r, c, t, thr)
        \/ \E conf \in Asked : StartChangeThreshold(r, c, thr, conf)

Step(r) ==
    \/ Start(r)
    \/ ExportState(r) \/ ReadNamespace(r) \/ BuildProposals(r)
    \/ AuthorizeDns(r) \/ AuthorizeP2p(r)
    \/ SubmitProposals(r) \/ SubmitDns(r) \/ ConfirmDns(r)
    \/ SubmitP2p(r) \/ ConfirmP2p(r)
    \/ ReadClear(r) \/ AuthorizeClear(r) \/ SubmitClear(r) \/ ConfirmClear(r)
    \/ Complete(r) \/ Fail(r) \/ Retry(r) \/ Dismiss(r)
    \/ \E n \in Nodes : SignProposals(r, n) \/ SignClear(r, n) \/ RetireLegacyKeys(r, n)

TopologyNext == (\E r \in Runs : Step(r)) \/ \E c \in Coordinators : Refresh(c)

TopologySpec == TopologyInit /\ [][TopologyNext]_topologyVars

----------------------------------------------------------------------------
Steps == {"export", "create", "build", "authorize_dns", "authorize_p2p", "sign", "dns",
          "confirm_dns", "p2p", "confirm_p2p", "import", "author", "clear", "confirm_clear",
          "retire"}

(* The heads, the legacy mapping and the runs are well formed.             *)
TopologyTypeOK ==
    /\ dns.owners \subseteq Nodes /\ dns.threshold \in Thresholds /\ dns.serial \in Nat
    /\ p2p.hosts \subseteq Nodes /\ p2p.keys \subseteq Nodes /\ p2p.marked \subseteq p2p.hosts
    /\ p2p.threshold \in Thresholds /\ p2p.keyThreshold \in {0} \cup Thresholds
    /\ p2p.serial \in Nat
    /\ legacy \subseteq Nodes \cup Departed /\ removal \subseteq Nodes
    /\ \A r \in Runs : /\ run[r].sigs \subseteq Nodes /\ run[r].members \subseteq Nodes
                      /\ run[r].pc \in Steps \cup {"idle", "failed", "over"}
                      /\ run[r].at \in Steps \cup {"idle"}

(* A clearing proposal that Canton numbered after the head had moved on    *)
(* from the one it was built on.                                           *)
Renumbered(x) == x.pc \in {"clear", "confirm_clear"} /\ x.p2pTx.serial # x.readP2p.serial + 1

(* Every change of a head replaces exactly the state its run was built on  *)
(* and its peers checked: no run undoes what another landed meanwhile.     *)
(* The proposal that clears a marker is the exception, if the head moved   *)
(* between its reading and its authorization.                              *)
NoLostUpdate ==
    [][ /\ dns' # dns => \E r \in Runs : run'[r].dnsTx = dns' /\ run'[r].readDns = dns
        /\ p2p' # p2p => \E r \in Runs :
               run'[r].p2pTx = p2p' /\ (run'[r].readP2p = p2p \/ Renumbered(run'[r])) ]_topologyVars

(* No head changes before a peer accepted the change, at any threshold,    *)
(* unless another run lowered the threshold between this run's reading it  *)
(* and its signing against the synchronizer.                               *)
PeerConsents ==
    [][ /\ dns' # dns => \E r \in Runs : run'[r].dnsTx = dns' /\ run'[r].answered # {}
        /\ p2p' # p2p => \E r \in Runs : /\ run'[r].p2pTx = p2p'
                                         /\ \/ run'[r].answered # {}
                                            \/ dns.threshold < run[r].readDns.threshold ]_topologyVars

Active(mapping) == mapping.hosts \ mapping.marked

(* The party can reach its thresholds with the members that can act:       *)
(* owners that host it and no longer import its contracts.  A P2P that     *)
(* took effect on its coordinator's signature alone voids this.            *)
QuorumReachable ==
    ~solo => /\ dns.threshold <= Cardinality(dns.owners \cap Active(p2p))
             /\ p2p.threshold <= Cardinality(Active(p2p))

(* A P2P that its peers accepted never puts the namespace's threshold out  *)
(* of the reach of those members: Canton takes it with the signatures of   *)
(* as many owners, and check_p2p_membership lets only its hosts sign.  A   *)
(* renumbered clearing proposal, which its coordinator signs unchecked, is *)
(* left out.                                                               *)
QuorumKept ==
    [][ /\ p2p' # p2p /\ ~solo' /\ ~\E r \in Runs : Renumbered(run'[r]) /\ run'[r].p2pTx = p2p'
        /\ dns.threshold <= Cardinality(dns.owners \cap Active(p2p))
        => dns.threshold <= Cardinality(dns.owners \cap Active(p2p')) ]_topologyVars

(* The keys that sign for the party are those of its hosts, wherever they  *)
(* are kept, and the legacy mapping goes only after they are inline.       *)
KeysFollowHosts ==
    IF p2p.keys # {} THEN p2p.keys = p2p.hosts ELSE p2p.hosts = legacy \ Departed

(* submit_kick stops a P2P that Canton would refuse before the DNS goes    *)
(* out: a run whose DNS came in force holds the signatures that the        *)
(* namespace now asks of its P2P.                                          *)
NoHalfChange ==
    \A r \in Runs : At(r, "confirm_dns") /\ run[r].dnsTx = dns
                      => Cardinality(run[r].sigs \cap dns.owners) >= dns.threshold
=============================================================================
