------------------------------ MODULE Discovery ------------------------------
(***************************************************************************)
(* Address discovery on the bus: the dom's task (dom/discover.rs), the     *)
(* address table it commits to (dom/mod.rs, AddrTable32) and the same task *)
(* on every sub (sub/discover.rs).                                         *)
(*                                                                         *)
(* A task runs without interruption from one await to the next, so each    *)
(* action is what happens between two awaits.  Messages of the dom reach   *)
(* the queue of a sub's discovery port when they are sent; an answer of a  *)
(* sub is on its way (ack) for the random delay the sub sleeps before it   *)
(* sends.  A random number the dom draws is modelled as one that no message *)
(* still around carries, and the checksum over it as comparing it; a sub   *)
(* draws once while it has no address, so its random number is the sub.    *)
(*                                                                         *)
(* The clock is not modelled: a wait may end at any time.  That is what    *)
(* receive_timeout_micros does, which looks at the clock before it looks   *)
(* at the queue, and an answer does come late with nothing lost: a sub     *)
(* sleeps for up to the whole wait of the dom, from a later moment on.     *)
(* Three history variables record what the properties refer to: waits that *)
(* ended too early, and releases.                                          *)
(***************************************************************************)
EXTENDS Naturals, Sequences, FiniteSets

CONSTANTS Subs,       \* the devices that look for an address
          Addrs,      \* addresses of the table (1..32 in the code)
          NoAddr,     \* INVALID_OWN_ADDR
          TaskDepth,  \* TASK_QUEUE_DEPTH, 4 in the code
          MaxRnd,     \* bound: the dom's random numbers are 0..MaxRnd
          MaxLate,    \* bound: waits of the dom that end too early
          Lossy       \* may messages get lost and allocations fail?

ASSUME TaskDepthAssumption == TaskDepth \in Nat \ {0}
ASSUME MaxRndAssumption    == MaxRnd \in Nat
ASSUME SetsAssumption      == NoAddr \notin Addrs /\ IsFiniteSet(Addrs) /\ IsFiniteSet(Subs)
ASSUME MaxLateAssumption   == MaxLate \in Nat
ASSUME LossyAssumption     == Lossy \in BOOLEAN

VARIABLES
  (* the dom *)
  active,   \* AddrTable32::active
  phase,    \* where poll_inner is waiting
  rnd,      \* the last random number drawn (dom_random)
  offers,   \* avail_addrs of this round
  resps,    \* resps of broadcast_initial
  pass,     \* which of the two calls of ping_readies is running
  todo,     \* addresses ping_readies has still to ping
  cur,      \* the address it is pinging (ready), or NoAddr
  got,      \* an answer to this ping was seen
  results,  \* results of ping_readies
  dq,       \* the dom's discovery port: messages not yet received
  lossy,    \* have they begun to?
  (* history *)
  late,     \* waits of the dom that ended with something still on its way
  gaveup,   \* a sub's wait ended with a round still running
  released, \* addresses that DomRelease took out of the table
  (* the subs *)
  st,       \* where obtain_addr is on each sub
  own,      \* the address in each sub's Dispatch
  ack,      \* the answer each sub is about to send, as a set of at most one
  oks,      \* success_ct of each sub
  sq        \* each sub's discovery port: messages not yet received

roundVars == <<rnd, offers, resps, pass, todo, cur, got, results>>
domVars   == <<active, phase, roundVars, dq>>
subVars   == <<st, own, ack, oks, sq>>
history   == <<lossy, late, gaveup, released>>
vars      == <<domVars, subVars, history>>

Initials  == [type : {"initial"}, rnd : 0 .. MaxRnd, offers : SUBSET Addrs]
AckAcks   == [type : {"ackack"}, addr : Addrs, to : Subs]
Pings     == [type : {"ping"}, addr : Addrs, rnd : 0 .. MaxRnd]
Answers   == [type : {"ack", "pingack"}, addr : Addrs, from : Subs, rnd : 0 .. MaxRnd]

(* A sub is "off" until its device is powered, at any time.                *)
(* A sub that is "done" returned its address; one that has "failed" left   *)
(* obtain_addr_inner without success.  Both keep the address, and          *)
(* obtain_addr then never looks at its port again.                         *)
SubStates == {"off", "search", "ackwait", "pingwait", "done", "failed"}
Listening == {"search", "ackwait", "pingwait"}

TypeOK ==
  /\ active \subseteq Addrs
  /\ phase \in {"idle", "collect", "ping", "panic"}
  /\ rnd \in 0 .. MaxRnd
  /\ offers \subseteq Addrs
  /\ resps \subseteq Answers
  /\ pass \in {1, 2}
  /\ todo \subseteq Addrs
  /\ cur \in Addrs \cup {NoAddr}
  /\ got \in BOOLEAN
  /\ results \subseteq Addrs
  /\ lossy \in BOOLEAN
  /\ late \in 0 .. MaxLate
  /\ gaveup \in BOOLEAN
  /\ released \subseteq Addrs
  /\ dq \in Seq(Answers) /\ Len(dq) <= TaskDepth
  /\ st \in [Subs -> SubStates]
  /\ own \in [Subs -> Addrs \cup {NoAddr}]
  /\ ack \in [Subs -> SUBSET Answers]
  /\ oks \in [Subs -> 0 .. 2]
  /\ sq \in [Subs -> Seq(Initials \cup AckAcks \cup Pings)]

Init ==
  /\ active = {} /\ phase = "idle" /\ rnd = 0 /\ offers = {} /\ resps = {}
  /\ pass = 1 /\ todo = {} /\ cur = NoAddr /\ got = FALSE /\ results = {}
  /\ dq = << >>
  /\ lossy = FALSE /\ late = 0 /\ gaveup = FALSE /\ released = {}
  /\ st = [s \in Subs |-> "off"]
  /\ own = [s \in Subs |-> NoAddr]
  /\ ack = [s \in Subs |-> {}]
  /\ oks = [s \in Subs |-> 0]
  /\ sq = [s \in Subs |-> << >>]

-----------------------------------------------------------------------------
(* Delivery of the dom's messages msg[s], one set of at most one message   *)
(* for each sub: the sub's Dispatch has already compared the destination   *)
(* with own.  A message that finds the port's queue full is dropped.       *)
Deliver(msg) ==
  \E heard \in IF lossy THEN SUBSET Subs ELSE {Subs} :
    sq' = [s \in Subs |->
             IF s \in heard /\ st[s] \in Listening /\ Len(sq[s]) < TaskDepth
               THEN sq[s] \o (IF msg[s] = {} THEN << >> ELSE <<CHOOSE m \in msg[s] : TRUE>>)
               ELSE sq[s]]

(* A wait of the dom ends by the clock alone, whether or not something is  *)
(* still on its way.                                                       *)
AllHeard == dq = << >> /\ \A s \in Subs : ack[s] = {} /\ sq[s] = << >>

WaitEnds == \/ AllHeard /\ UNCHANGED late
            \/ ~AllHeard /\ late < MaxLate /\ late' = late + 1

(* A random number that no message still around carries. *)
Carried == {dq[n].rnd : n \in 1 .. Len(dq)}
           \cup {m.rnd : m \in UNION {ack[s] : s \in Subs}}
           \cup UNION {{sq[s][n].rnd : n \in {k \in 1 .. Len(sq[s]) : sq[s][k].type # "ackack"}} :
                         s \in Subs}

Fresh(r) == /\ r \in (0 .. MaxRnd) \ Carried
            /\ \A q \in (0 .. MaxRnd) \ Carried : r <= q

-----------------------------------------------------------------------------
(* poll_inner up to the first receive of broadcast_initial: the addresses  *)
(* that are not active are offered to everybody.  With no address left it  *)
(* returns an error and waits for the next poll.                           *)

(* Mutant of get_available_addrs: the table is not looked at. *)
all_addrs == Addrs

get_available_addrs == Addrs \ active

DomBroadcast ==
  /\ phase = "idle"
  /\ get_available_addrs # {}
  /\ phase' = "collect"
  /\ \E r \in 0 .. MaxRnd : Fresh(r) /\ rnd' = r
  /\ offers' = get_available_addrs
  /\ resps' = {}
  /\ Deliver([s \in Subs |-> {[type |-> "initial", rnd |-> rnd', offers |-> offers']}])
  /\ UNCHANGED <<history, active, pass, todo, cur, got, results, dq, st, own, ack, oks>>

DomCollect ==
  /\ phase = "collect"
  /\ dq # << >>
  /\ resps' = resps \cup {Head(dq)}
  /\ dq' = Tail(dq)
  /\ UNCHANGED <<history, active, phase, rnd, offers, pass, todo, cur, got, results, subVars>>

(* The responses that check out: right message, right random number (the   *)
(* checksum), an address that was offered.                                 *)
Valid == {m \in resps : m.type = "ack" /\ m.rnd = rnd /\ m.addr \in offers}

Dupes == {a \in Addrs : \E m, n \in Valid : m # n /\ m.addr = a /\ n.addr = a}

Accepted == {m.addr : m \in Valid} \ Dupes

AckAckFor(sent, s) ==
  {[type |-> "ackack", addr |-> m.addr, to |-> m.from] :
     m \in {n \in Valid : n.addr \in sent /\ n.addr = own[s]}}

(* End of the collection: acknowledge every accepted response.  The loop   *)
(* that sends has no await in it, so what does not fit the port's queue at *)
(* once (or finds no page) ends the whole round with an error, after the   *)
(* messages before it went out.                                            *)
DomAckAck ==
  /\ phase = "collect"
  /\ WaitEnds
  /\ IF Accepted = {}
       THEN phase' = "idle" /\ UNCHANGED <<rnd, pass, todo, results, sq>>
       ELSE \E sent \in SUBSET Accepted :
              /\ Cardinality(sent) <= TaskDepth
              /\ \/ sent = Accepted
                 \/ Cardinality(sent) = TaskDepth
                 \/ lossy
              /\ Deliver([s \in Subs |-> AckAckFor(sent, s)])
              /\ IF sent = Accepted
                   THEN /\ phase' = "ping"
                        /\ \E r \in 0 .. MaxRnd : Fresh(r) /\ rnd' = r
                        /\ pass' = 1 /\ todo' = Accepted /\ results' = {}
                   ELSE phase' = "idle" /\ UNCHANGED <<rnd, pass, todo, results>>
  /\ resps' = {}
  /\ UNCHANGED <<lossy, gaveup, released, active, offers, cur, got, dq, st, own, ack, oks>>

(* Mutant of DomPing: the answer to the ping before still counts. *)
DomPingStale ==
  /\ phase = "ping" /\ cur = NoAddr
  /\ \E a \in todo :
       /\ cur' = a
       /\ todo' = todo \ {a}
       /\ Deliver([s \in Subs |->
                     {m \in {[type |-> "ping", addr |-> a, rnd |-> rnd]} : own[s] = a}])
  /\ UNCHANGED <<history, active, phase, rnd, offers, resps, pass, got, results, dq, st, own, ack, oks>>

(* ping_readies: ask the next address whether it is there. *)
DomPing ==
  /\ phase = "ping" /\ cur = NoAddr
  /\ \E a \in todo :
       /\ cur' = a
       /\ todo' = todo \ {a}
       /\ Deliver([s \in Subs |->
                     {m \in {[type |-> "ping", addr |-> a, rnd |-> rnd]} : own[s] = a}])
  /\ got' = FALSE
  /\ UNCHANGED <<history, active, phase, rnd, offers, resps, pass, results, dq, st, own, ack, oks>>

(* No page for the ping: ping_readies and with it the round fail. *)
DomPingFails ==
  /\ lossy
  /\ phase = "ping" /\ cur = NoAddr /\ todo # {}
  /\ phase' = "idle" /\ todo' = {}
  /\ UNCHANGED <<history, active, rnd, offers, resps, pass, cur, got, results, dq, subVars>>

(* An answer counts when its checksum is right, whoever it comes from.  A  *)
(* second one means that two devices have the address: go on to the next   *)
(* address without this one.                                               *)
validate_ping_ack(m) == m.type = "pingack" /\ m.rnd = rnd

DomPingHear ==
  /\ phase = "ping" /\ cur # NoAddr
  /\ dq # << >>
  /\ dq' = Tail(dq)
  /\ LET ok == validate_ping_ack(Head(dq))
     IN  /\ got' = (got \/ ok)
         /\ cur' = IF got /\ ok THEN NoAddr ELSE cur
  /\ UNCHANGED <<history, active, phase, rnd, offers, resps, pass, todo, results, subVars>>

(* Mutant of DomPingEnd: the wait for an answer has no end. *)
DomPingEndPatient ==
  /\ phase = "ping" /\ cur # NoAddr
  /\ got
  /\ cur' = NoAddr
  /\ results' = results \cup {cur}
  /\ UNCHANGED <<history, active, phase, rnd, offers, resps, pass, todo, got, dq, subVars>>

DomPingEnd ==
  /\ phase = "ping" /\ cur # NoAddr
  /\ WaitEnds
  /\ cur' = NoAddr
  /\ results' = IF got THEN results \cup {cur} ELSE results
  /\ UNCHANGED <<lossy, gaveup, released, active, phase, rnd, offers, resps, pass, todo, got, dq, subVars>>

(* Mutant of DomSecondPass: the addresses are committed after each pass. *)
DomSecondPassCommits ==
  /\ phase = "ping" /\ cur = NoAddr /\ todo = {} /\ pass = 1
  /\ IF results = {}
       THEN phase' = "idle" /\ UNCHANGED <<rnd, pass, todo, results>>
       ELSE /\ \E r \in 0 .. MaxRnd : Fresh(r) /\ rnd' = r
            /\ pass' = 2
            /\ todo' = results /\ results' = {}
            /\ UNCHANGED phase
  /\ active' = active \cup results
  /\ UNCHANGED <<history, offers, resps, cur, got, dq, subVars>>

(* Who answered the first pass is pinged again ... *)
DomSecondPass ==
  /\ phase = "ping" /\ cur = NoAddr /\ todo = {} /\ pass = 1
  /\ IF results = {}
       THEN phase' = "idle" /\ UNCHANGED <<rnd, pass, todo, results>>
       ELSE /\ \E r \in 0 .. MaxRnd : Fresh(r) /\ rnd' = r
            /\ pass' = 2
            /\ todo' = results /\ results' = {}
            /\ UNCHANGED phase
  /\ UNCHANGED <<history, active, offers, resps, cur, got, dq, subVars>>

(* Mutant of DomCommit: every address reserved for the round is committed. *)
DomCommitOffers ==
  /\ phase = "ping" /\ cur = NoAddr /\ todo = {} /\ pass = 2
  /\ active' = active \cup offers
  /\ phase' = IF results \cap active = {} THEN "idle" ELSE "panic"
  /\ UNCHANGED <<history, roundVars, dq, subVars>>

(* ... and who answers the second gets the address.  commit_reserved_addr  *)
(* refuses an address that is active, and the unwrap panics.               *)
DomCommit ==
  /\ phase = "ping" /\ cur = NoAddr /\ todo = {} /\ pass = 2
  /\ active' = active \cup results
  /\ phase' = IF results \cap active = {} THEN "idle" ELSE "panic"
  /\ UNCHANGED <<history, roundVars, dq, subVars>>

(* release_active_addr, called by the dom's Token task for a silent sub. *)
DomRelease ==
  /\ \E a \in active : active' = active \ {a} /\ released' = released \cup {a}
  /\ UNCHANGED <<lossy, late, gaveup, phase, roundVars, dq, subVars>>

-----------------------------------------------------------------------------
(* The device of a sub is powered and starts to search. *)
Boot(s) ==
  /\ st[s] = "off"
  /\ st' = [st EXCEPT ![s] = "search"]
  /\ UNCHANGED <<history, domVars, own, ack, oks, sq>>

Receive(s) == /\ ack[s] = {}
              /\ sq[s] # << >>

(* generate_discover_ack: choose one of the offers, take it as the own     *)
(* address, and answer after a random delay.                               *)
SubChoose(s) ==
  /\ st[s] = "search" /\ Receive(s)
  /\ LET m == Head(sq[s])
     IN  \E a \in m.offers :
           /\ own' = [own EXCEPT ![s] = a]
           /\ ack' = [ack EXCEPT ![s] =
                        {[type |-> "ack", addr |-> a, from |-> s, rnd |-> m.rnd]}]
  /\ st' = [st EXCEPT ![s] = "ackwait"]
  /\ sq' = [sq EXCEPT ![s] = Tail(@)]
  /\ UNCHANGED <<history, domVars, oks>>

(* Wait for the acknowledgement that names our address and our random      *)
(* number; any other message is ignored.                                   *)
validate_discover_ack_ack(m, s) == m.type = "ackack" /\ m.addr = own[s] /\ m.to = s

SubAckAck(s) ==
  /\ st[s] = "ackwait" /\ Receive(s)
  /\ st' = [st EXCEPT ![s] = IF validate_discover_ack_ack(Head(sq[s]), s)
                               THEN "pingwait" ELSE @]
  /\ sq' = [sq EXCEPT ![s] = Tail(@)]
  /\ UNCHANGED <<history, domVars, own, ack, oks>>

(* Wait for a ping; any other message ends the attempt. *)
generate_ping_ack(m, s) ==
  IF m.type = "ping"
    THEN {[type |-> "pingack", addr |-> own[s], from |-> s, rnd |-> m.rnd]}
    ELSE {}

SubPinged(s) ==
  /\ st[s] = "pingwait" /\ Receive(s)
  /\ ack' = [ack EXCEPT ![s] = generate_ping_ack(Head(sq[s]), s)]
  /\ IF ack'[s] = {}
       THEN /\ st' = [st EXCEPT ![s] = "failed"]
            /\ sq' = [sq EXCEPT ![s] = << >>]
       ELSE /\ sq' = [sq EXCEPT ![s] = Tail(@)]
            /\ UNCHANGED st
  /\ UNCHANGED <<history, domVars, own, oks>>

(* The second answer to a ping is the end of a successful attempt. *)
EnoughAtOnce(ct)  == ct >= 1    \* mutant of Enough
EnoughTooLate(ct) == ct >= 3    \* mutant of Enough
Enough(ct)        == ct >= 2

(* Mutant of SubSend: the queue takes any number of messages. *)
SubSendUnbounded(s) ==
  /\ ack[s] # {}
  /\ ack' = [ack EXCEPT ![s] = {}]
  /\ dq' = dq \o <<CHOOSE m \in ack[s] : TRUE>>
  /\ oks' = [oks EXCEPT ![s] = IF st[s] = "pingwait" THEN @ + 1 ELSE @]
  /\ IF Enough(oks'[s])
       THEN /\ st' = [st EXCEPT ![s] = "done"]
            /\ sq' = [sq EXCEPT ![s] = << >>]
       ELSE UNCHANGED <<st, sq>>
  /\ UNCHANGED <<history, active, phase, roundVars, own>>

(* The delay is over: the answer goes out. *)
SubSend(s) ==
  /\ ack[s] # {}
  /\ ack' = [ack EXCEPT ![s] = {}]
  /\ \/ Len(dq) < TaskDepth /\ dq' = dq \o <<CHOOSE m \in ack[s] : TRUE>>
     \/ (lossy \/ Len(dq) = TaskDepth) /\ UNCHANGED dq
  /\ oks' = [oks EXCEPT ![s] = IF st[s] = "pingwait" THEN @ + 1 ELSE @]
  /\ IF Enough(oks'[s])
       THEN /\ st' = [st EXCEPT ![s] = "done"]
            /\ sq' = [sq EXCEPT ![s] = << >>]
       ELSE UNCHANGED <<st, sq>>
  /\ UNCHANGED <<history, active, phase, roundVars, own>>

(* No page or no room for the answer: obtain_addr returns an error. *)
SubSendFails(s) ==
  /\ lossy
  /\ ack[s] # {}
  /\ ack' = [ack EXCEPT ![s] = {}]
  /\ st' = [st EXCEPT ![s] = "failed"]
  /\ sq' = [sq EXCEPT ![s] = << >>]
  /\ UNCHANGED <<history, domVars, own, oks>>

(* The wait for an acknowledgement or for a ping runs out.  (The wait for  *)
(* the first broadcast does too, and starts again.)                        *)
SubTimeout(s) ==
  /\ st[s] \in {"ackwait", "pingwait"}
  /\ ack[s] = {}
  /\ gaveup' = (gaveup \/ phase # "idle" \/ sq[s] # << >>)
  /\ st' = [st EXCEPT ![s] = "failed"]
  /\ sq' = [sq EXCEPT ![s] = << >>]
  /\ UNCHANGED <<lossy, late, released, domVars, own, ack, oks>>

-----------------------------------------------------------------------------
(* From some moment on any message may be lost and any allocation fail. *)
FaultsBegin ==
  /\ Lossy /\ ~lossy
  /\ lossy' = TRUE
  /\ UNCHANGED <<domVars, subVars, late, gaveup, released>>

DomStep == \/ DomBroadcast \/ DomCollect \/ DomAckAck
           \/ DomPing \/ DomPingFails \/ DomPingHear \/ DomPingEnd
           \/ DomSecondPass \/ DomCommit

SubStep(s) == \/ SubChoose(s) \/ SubAckAck(s) \/ SubPinged(s)
              \/ SubSend(s) \/ SubSendFails(s)

Next == DomStep \/ DomRelease \/ FaultsBegin \/ \E s \in Subs : Boot(s) \/ SubStep(s) \/ SubTimeout(s)

Spec == Init /\ [][Next]_vars

(* Both sides are polled in an endless loop (main of the anachro-dom and   *)
(* anachro-sub programs), and every wait ends.                             *)
Fairness == /\ WF_vars(DomStep)
            /\ \A s \in Subs : WF_vars(SubStep(s)) /\ WF_vars(SubTimeout(s))

FairSpec == Spec /\ Fairness

-----------------------------------------------------------------------------
(* The unwrap on commit_reserved_addr never panics (dom/discover.rs:136):  *)
(* between the look at the table and the commit, two passes of pings       *)
(* later, nobody else activates an offered address.                        *)
NoCommitPanic == phase # "panic"

(* An address in the table is the address of some device, whatever was     *)
(* lost, late or released on the way.                                      *)
CommittedHeld == \A a \in active : \E s \in Subs : own[s] = a

(* Every address in the table has cost two answers to a ping, one for each *)
(* pass, and no answer paid for two: neither one that came late or twice,  *)
(* nor one that counted for another address than its sender's, which can   *)
(* happen, for ping_readies does not look at the source                    *)
(* (dom/discover.rs:179).                                                  *)
AnswersGiven == Cardinality({s \in Subs : oks[s] >= 1}) + Cardinality({s \in Subs : oks[s] = 2})

TwoAnswersEach == 2 * Cardinality(active) <= AnswersGiven

(* Until something is lost or comes too late for a wait of the dom, two    *)
(* devices that were acknowledged have different addresses, unless the one *)
(* they share was released in between.                                     *)
UniqueAddress ==
  ~lossy /\ late = 0 => \A s, t \in Subs :
    /\ st[s] \in {"pingwait", "done"} /\ st[t] \in {"pingwait", "done"}
    /\ own[s] = own[t] /\ own[s] \notin released
    => s = t

(* Until then the dom and the subs agree between rounds: the active        *)
(* addresses, but for those released since, are those of the subs that     *)
(* succeeded.  Subs that gave up in the middle of a round do not disturb   *)
(* this.                                                                   *)
Agreement ==
  ~lossy /\ late = 0 /\ phase = "idle" =>
    active \ released = {own[s] : s \in {t \in Subs : st[t] = "done"}} \ released

(* A round ends: no message of any sub, and none missing, makes the dom    *)
(* wait for ever.                                                          *)
RoundEnds == phase # "idle" ~> phase = "idle"

(* If nothing is ever lost, the search of a sub ends, as long as there are *)
(* addresses left: with an address of its own, unless two subs chose the   *)
(* same one or a wait of the dom or of a sub ended too early; only then    *)
(* may it fail.                                                            *)
Clash == \E s, t \in Subs : s # t /\ own[s] = own[t] /\ own[s] # NoAddr

AllServed ==
  \/ <>lossy
  \/ \A s \in Subs :
       st[s] = "search" ~> \/ st[s] = "done" \/ active = Addrs
                           \/ st[s] = "failed" /\ (Clash \/ late > 0 \/ gaveup)

(* What a comment of the sub says of the address it takes                  *)
(* (sub/discover.rs:95, "Set our own addr to the provisionally chosen      *)
(* one"): a sub whose attempt failed does not stay with it for ever.       *)
Provisional ==
  \A s \in Subs : st[s] = "failed" ~> st[s] \in {"search", "done"}
=============================================================================
