-------------------------- MODULE AgreementProofs --------------------------
(***************************************************************************)
(* Discovery until something is lost, or comes too late for a wait of the  *)
(* dom: for any devices and addresses, and queues with room for two        *)
(* messages, no two devices get the same address unless it was released in *)
(* between, and between rounds the table has the addresses of the devices  *)
(* that succeeded, but for those released.  A device may stop waiting at   *)
(* any time, in the middle of a round too.                                 *)
(*                                                                         *)
(* Two things carry this across rounds.  A device that was acknowledged    *)
(* and then never pinged would still be waiting for a ping in the next     *)
(* round, in which its address is offered again: the new offer is in its   *)
(* queue before anybody can be acknowledged, and ends its attempt.  And a  *)
(* ping is answered before the next one goes out, so that the dom's list   *)
(* and the count of answers of each device move together.                  *)
(***************************************************************************)
EXTENDS DiscoveryProofs

(* The acknowledgement that a sub waits for is in its queue. *)
Takes(s) == [type |-> "ackack", addr |-> own[s], to |-> s] \in Msgs(sq[s])

(* A sub that was acknowledged and has not failed. *)
Going(s)  == st[s] = "pingwait" \/ (st[s] = "ackwait" /\ Takes(s))
Chosen(s) == Going(s) \/ st[s] = "done"

(* Two subs are acknowledged for the same address only when the first has  *)
(* succeeded and its address has been released since.                      *)
OneEach ==
  \A s, t \in Subs : /\ Chosen(s) /\ Chosen(t) /\ own[s] = own[t]
                     /\ (Going(s) /\ Going(t)) \/ own[s] \notin released
                     => s = t

(* The dom's messages of a round reach a sub in their order: at most one   *)
(* acknowledgement, first, and at most one ping, last.  A sub that waits   *)
(* for pings has no acknowledgement before them.                           *)
Line(q) == \A n \in 1 .. Len(q) : /\ q[n] \in AckAcks => n = 1
                                  /\ q[n] \in Pings => n = Len(q)

InLine(s) == Line(sq[s]) /\ (st[s] = "pingwait" => Msgs(sq[s]) \cap AckAcks = {})

(* What a sub is about to send is what its state says.                     *)
Replies(s) ==
  \A m \in ack[s] : \/ m.type = "ack" /\ st[s] = "ackwait"
                    \/ m.type = "pingack" /\ st[s] = "pingwait"

(* Between rounds and between pings at most an acknowledgement is still to *)
(* be received.                                                            *)
Still(s) == ack[s] = {} /\ Len(sq[s]) <= 1 /\ Msgs(sq[s]) \subseteq AckAcks
Rest     == dq = << >> /\ \A s \in Subs : Still(s)

(* The ping under way has been answered. *)
Heard == got \/ dq # << >>

(* The addresses a successful sub may have: in the table, released from    *)
(* it, or about to be committed.                                           *)
Taken ==
  released \cup active
  \cup (IF phase = "ping" /\ pass = 2 THEN results \cup (IF Heard THEN Cur ELSE {}) ELSE {})

Succeeded  == \A s \in Subs : st[s] = "done" => own[s] \in Taken /\ oks[s] = 2
HasDone(a) == \E s \in Subs : own[s] = a /\ st[s] = "done"
Listed     == \A a \in active : HasDone(a)

OfferLast(q) == q # << >> /\ q[Len(q)] \in Initials

(* While the dom collects: a sub left from an earlier round has the new    *)
(* offer before it, and who answered the offer has nothing else, or has    *)
(* given up.                                                               *)
Collecting ==
  /\ \A s \in Subs : Msgs(sq[s]) \cap Pings = {}
  /\ \A s \in Subs : Going(s) => OfferLast(sq[s])
  /\ \A m \in resps \cup Msgs(dq) \cup UNION {ack[s] : s \in Subs} :
       /\ m.type = "ack" /\ st[m.from] \in {"ackwait", "failed"}
       /\ Msgs(sq[m.from]) \subseteq Initials

(* The ping of an address is with the sub s that was acknowledged for it,  *)
(* or its answer is with s ...                                             *)
AskedNow(s) == Msgs(sq[s]) \cap Pings # {}

Turn(s) ==
  /\ oks[s] = pass - 1 /\ ~Heard
  /\ \A t \in Subs : t # s => ack[t] = {}
  /\ \A m \in ack[s] : validate_ping_ack(m)
  /\ AskedNow(s) <=> ack[s] = {}

(* ... or nobody is asked any more: the answer was sent, or the sub has    *)
(* given up.                                                               *)
Answered ==
  /\ \A s \in Subs : ack[s] = {}
  /\ \A s \in Subs : Going(s) /\ own[s] = cur => Heard /\ oks[s] = pass /\ ~AskedNow(s)
  /\ Heard /\ pass = 2 => HasDone(cur)
  /\ \A m \in Msgs(dq) : validate_ping_ack(m)
  /\ dq = << >> \/ (Len(dq) = 1 /\ ~got)

Pinging ==
  /\ todo \cap results = {} /\ cur \notin todo \cup results
  /\ pass = 2 => \A a \in results : HasDone(a)
  /\ \A s \in Subs : Going(s) /\ own[s] \in todo => oks[s] = pass - 1
  /\ \A s \in Subs : Going(s) /\ own[s] \in results => oks[s] = pass
  /\ \A s \in Subs : Msgs(sq[s]) \cap Initials = {}
  /\ \A s \in Subs : \A m \in Msgs(sq[s]) \cap Pings : m.rnd = rnd /\ own[s] = cur
  /\ cur = NoAddr => Rest
  /\ cur # NoAddr => Answered \/ \E s \in Subs : Going(s) /\ own[s] = cur /\ Turn(s)

LInv ==
  /\ OneEach
  /\ \A s \in Subs : InLine(s) /\ Replies(s)
  /\ Listed
  /\ Succeeded
  /\ phase = "idle" => Rest
  /\ phase = "collect" => Collecting
  /\ phase = "ping" => Pinging

Lossless == ~lossy /\ late = 0 => LInv

-----------------------------------------------------------------------------
(* Queues. *)
LEMMA Kinds ==
  /\ Initials \cap AckAcks = {} /\ Initials \cap Pings = {} /\ AckAcks \cap Pings = {}
  /\ \A m \in ToSubs : /\ m.type = "ping" <=> m \in Pings
                       /\ m.type = "ackack" <=> m \in AckAcks
BY DEF ToSubs, Initials, AckAcks, Pings

LEMMA LineEmpty == Line(<< >>)
<1>1. Len(<< >>) = 0 /\ 1 .. 0 = {}
  BY SMT
<1> QED
  BY <1>1 DEF Line

LEMMA LineAppended ==
  ASSUME NEW q \in Seq(ToSubs), Line(q), Msgs(q) \cap Pings = {},
         NEW m \in ToSubs, m \in AckAcks => q = << >>
  PROVE  Line(q \o <<m>>)
<1> DEFINE r == q \o <<m>>
<1>1. /\ Len(r) = Len(q) + 1 /\ r[Len(q) + 1] = m
      /\ \A n \in 1 .. Len(q) : r[n] = q[n]
  BY Appended
<1>2. Len(q) \in Nat /\ (q = << >> => Len(q) = 0)
  BY EmptySeq
<1> HIDE DEF r
<1>3. ASSUME NEW n \in 1 .. Len(r)
      PROVE  (r[n] \in AckAcks => n = 1) /\ (r[n] \in Pings => n = Len(r))
  <2>1. CASE n \in 1 .. Len(q)
    BY <1>1, <2>1 DEF Line, Msgs
  <2>2. CASE n = Len(q) + 1
    BY <1>1, <1>2, <2>2
  <2> QED
    BY <1>1, <1>2, <2>1, <2>2
<1> QED
  BY <1>3 DEF Line, r

LEMMA LineReceived ==
  ASSUME NEW q \in Seq(ToSubs), q # << >>, Line(q)
  PROVE  /\ Line(Tail(q))
         /\ Msgs(Tail(q)) \cap AckAcks = {}
         /\ Head(q) \in Pings => Msgs(Tail(q)) = {}
         /\ \A m \in Msgs(q) : m = Head(q) \/ m \in Msgs(Tail(q))
<1>1. /\ Head(q) = q[1] /\ Len(q) \in Nat /\ Len(Tail(q)) = Len(q) - 1
      /\ \A n \in 1 .. Len(Tail(q)) : Tail(q)[n] = q[n + 1] /\ n + 1 \in 1 .. Len(q)
  BY Received
<1>2. PICK k \in Nat : Len(q) = k + 1 /\ Len(Tail(q)) = k
  <2>1. Len(q) \in Nat /\ Len(q) # 0 /\ Len(Tail(q)) = Len(q) - 1
    BY <1>1, EmptySeq
  <2>2. Len(q) - 1 \in Nat /\ Len(q) = (Len(q) - 1) + 1
    BY <2>1
  <2> QED
    BY <2>1, <2>2
<1>3. ASSUME NEW n \in 1 .. Len(Tail(q))
      PROVE  /\ Tail(q)[n] \notin AckAcks
             /\ Tail(q)[n] \in Pings => n = Len(Tail(q))
  <2>1. Tail(q)[n] = q[n + 1] /\ n + 1 \in 1 .. Len(q)
    BY <1>1
  <2>2. n + 1 # 1 /\ (n + 1 = Len(q) => n = Len(Tail(q)))
    <3>1. n \in 1 .. k
      BY <1>2
    <3>2. n + 1 # 1 /\ (n + 1 = k + 1 => n = k)
      BY <3>1
    <3> QED
      BY <1>2, <3>2
  <2> QED
    BY <2>1, <2>2 DEF Line
<1>4. Head(q) \in Pings => Msgs(Tail(q)) = {}
  <2>1. ASSUME Head(q) \in Pings PROVE 1 = Len(q)
    <3>1. 1 \in 1 .. Len(q)
      BY <1>2
    <3> QED
      BY <1>1, <2>1, <3>1 DEF Line
  <2>2. 1 = k + 1 => 1 .. k = {}
    OBVIOUS
  <2> QED
    BY <1>2, <2>1, <2>2 DEF Msgs
<1>5. ASSUME NEW m \in Msgs(q)
      PROVE  m = Head(q) \/ m \in Msgs(Tail(q))
  <2>1. PICK n \in 1 .. Len(q) : m = q[n]
    BY DEF Msgs
  <2>2. CASE n = 1
    BY <1>1, <2>1, <2>2
  <2>3. CASE n # 1
    <3>1. n - 1 \in 1 .. Len(Tail(q)) /\ (n - 1) + 1 = n
      BY <1>2, <2>3
    <3>2. Tail(q)[n - 1] = m
      BY <1>1, <2>1, <3>1
    <3> QED
      BY <3>1, <3>2 DEF Msgs
  <2> QED
    BY <2>2, <2>3
<1> QED
  BY <1>3, <1>4, <1>5 DEF Line, Msgs

LEMMA OfferStaysLast ==
  ASSUME NEW q \in Seq(ToSubs), OfferLast(q), Head(q) \notin Initials
  PROVE  OfferLast(Tail(q))
<1>1. /\ q # << >> /\ q[Len(q)] \in Initials
  BY DEF OfferLast
<1>2. /\ Head(q) = q[1] /\ Len(q) \in Nat /\ Len(Tail(q)) = Len(q) - 1
      /\ \A n \in 1 .. Len(Tail(q)) : Tail(q)[n] = q[n + 1] /\ n + 1 \in 1 .. Len(q)
  BY <1>1, Received
<1>3. Len(q) \in Nat /\ Len(q) # 1 /\ Len(q) # 0
  BY <1>1, <1>2, EmptySeq
<1>4. PICK k \in Nat : k > 0 /\ Len(q) = k + 1 /\ Len(Tail(q)) = k
  <2>1. \A j \in Nat : j # 0 /\ j # 1 => j - 1 \in Nat /\ j - 1 > 0 /\ j = (j - 1) + 1
    OBVIOUS
  <2> QED
    BY <1>2, <1>3, <2>1
<1>5. Tail(q) # << >>
  <2>1. k # 0
    BY <1>4
  <2>2. Len(<< >>) = 0
    BY EmptySeq
  <2> QED
    BY <1>4, <2>1, <2>2
<1>6. k \in 1 .. k
  BY <1>4
<1> QED
  BY <1>1, <1>2, <1>4, <1>5, <1>6 DEF OfferLast

(* With nothing lost, a sub that listens and has room gets every message.  *)
LEMMA AllDelivered ==
  ASSUME IInv, ~lossy, NEW msg, Deliver(msg), \A s \in Subs : msg[s] \subseteq ToSubs
  PROVE  /\ sq' \in [Subs -> Seq(ToSubs)]
         /\ \A s \in Subs :
              \/ sq'[s] = sq[s] /\ (\/ st[s] \notin Listening \/ ~(Len(sq[s]) < TaskDepth)
                                    \/ msg[s] = {})
              \/ st[s] \in Listening /\ \E m \in msg[s] : sq'[s] = sq[s] \o <<m>>
<1>1. sq' = [s \in Subs |->
               IF s \in Subs /\ st[s] \in Listening /\ Len(sq[s]) < TaskDepth
                 THEN sq[s] \o (IF msg[s] = {} THEN << >> ELSE <<CHOOSE m \in msg[s] : TRUE>>)
                 ELSE sq[s]]
  BY DEF Deliver
<1>2. \A s \in Subs : msg[s] # {} => (CHOOSE m \in msg[s] : TRUE) \in msg[s]
  OBVIOUS
<1>3. \A s \in Subs : sq[s] \o << >> = sq[s]
  BY ConcatEmptySeq DEF IInv, TypeOK
<1>4. sq' \in [Subs -> Seq(ToSubs)]
  BY Delivered DEF IInv
<1> QED
  BY <1>1, <1>2, <1>3, <1>4

(* ... and between rounds and pings every sub has room.                    *)
LEMMA OneDelivered ==
  ASSUME IInv, ~lossy, TaskDepth >= 2, NEW msg, Deliver(msg),
         \A s \in Subs : msg[s] \subseteq ToSubs, \A s \in Subs : Len(sq[s]) <= 1
  PROVE  /\ sq' \in [Subs -> Seq(ToSubs)]
         /\ \A s \in Subs :
              IF st[s] \in Listening /\ msg[s] # {}
                THEN \E m \in msg[s] : /\ sq'[s] = sq[s] \o <<m>>
                                       /\ Len(sq'[s]) = Len(sq[s]) + 1
                                       /\ sq'[s][Len(sq[s]) + 1] = m
                                       /\ Msgs(sq'[s]) = Msgs(sq[s]) \cup {m}
                ELSE sq'[s] = sq[s]
<1>1. /\ sq' \in [Subs -> Seq(ToSubs)]
      /\ \A s \in Subs :
           \/ sq'[s] = sq[s] /\ (\/ st[s] \notin Listening \/ ~(Len(sq[s]) < TaskDepth)
                                 \/ msg[s] = {})
           \/ st[s] \in Listening /\ \E m \in msg[s] : sq'[s] = sq[s] \o <<m>>
  BY AllDelivered
<1>2. ASSUME NEW s \in Subs PROVE Len(sq[s]) < TaskDepth
  <2>1. sq[s] \in Seq(ToSubs)
    BY SubFacts
  <2>2. Len(sq[s]) \in Nat /\ Len(sq[s]) <= 1
    BY <2>1, LenProperties
  <2>3. \A k \in Nat : k <= 1 => k < TaskDepth
    BY TaskDepthAssumption
  <2> QED
    BY <2>2, <2>3
<1>3. ASSUME NEW s \in Subs, NEW m \in ToSubs
      PROVE  sq'[s] = sq[s] \o <<m>> => /\ Len(sq'[s]) = Len(sq[s]) + 1
                                        /\ sq'[s][Len(sq[s]) + 1] = m
                                        /\ Msgs(sq'[s]) = Msgs(sq[s]) \cup {m}
  <2>1. sq[s] \in Seq(ToSubs)
    BY SubFacts
  <2> QED
    BY <2>1, Appended
<1>4. ASSUME NEW s \in Subs, st[s] \in Listening, msg[s] # {}
      PROVE  \E m \in msg[s] : /\ sq'[s] = sq[s] \o <<m>>
                              /\ Len(sq'[s]) = Len(sq[s]) + 1
                              /\ sq'[s][Len(sq[s]) + 1] = m
                              /\ Msgs(sq'[s]) = Msgs(sq[s]) \cup {m}
  <2>1. PICK m \in msg[s] : sq'[s] = sq[s] \o <<m>>
    BY <1>1, <1>2, <1>4
  <2>2. m \in ToSubs
    OBVIOUS
  <2>3. /\ Len(sq'[s]) = Len(sq[s]) + 1 /\ sq'[s][Len(sq[s]) + 1] = m
        /\ Msgs(sq'[s]) = Msgs(sq[s]) \cup {m}
    BY <1>3, <2>1, <2>2
  <2> QED
    BY <2>1, <2>3
<1>5. \A s \in Subs : st[s] \notin Listening \/ msg[s] = {} => sq'[s] = sq[s]
  BY <1>1
<1> QED
  BY <1>1, <1>4, <1>5

LEMMA InitLInv == Init => LInv
<1> SUFFICES ASSUME Init PROVE LInv
  OBVIOUS
<1>1. Msgs(<< >>) = {} /\ Len(<< >>) = 0
  BY InQueue, EmptySeq
<1>2. \A s \in Subs : st[s] = "off" /\ sq[s] = << >> /\ ack[s] = {} /\ ~Chosen(s)
  BY DEF Init, Chosen, Going
<1>3. OneEach /\ \A s \in Subs : InLine(s) /\ Replies(s)
  BY <1>1, <1>2, LineEmpty DEF OneEach, InLine, Replies
<1>4. Rest
  BY <1>1, <1>2 DEF Rest, Still, Init
<1>5. active = {} /\ phase = "idle"
  BY DEF Init
<1> QED
  BY <1>2, <1>3, <1>4, <1>5 DEF LInv, Listed, Succeeded

(* A step of the dom that sends nothing. *)
LEMMA SubsStay ==
  ASSUME LInv, UNCHANGED <<st, own, ack, oks, sq>>, released \subseteq released'
  PROVE  /\ OneEach' /\ \A s \in Subs : InLine(s)' /\ Replies(s)'
         /\ \A s \in Subs : /\ Chosen(s)' <=> Chosen(s)
                            /\ Going(s)' <=> Going(s)
                            /\ Still(s)' <=> Still(s)
         /\ \A s \in Subs : AskedNow(s)' <=> AskedNow(s)
         /\ \A a : HasDone(a)' <=> HasDone(a)
<1>1. \A s \in Subs : /\ Chosen(s)' <=> Chosen(s)
                      /\ Going(s)' <=> Going(s)
                      /\ Still(s)' <=> Still(s)
                      /\ AskedNow(s)' <=> AskedNow(s)
                      /\ InLine(s)' <=> InLine(s)
                      /\ Replies(s)' <=> Replies(s)
  BY DEF Chosen, Going, Takes, Still, AskedNow, InLine, Replies
<1>2. OneEach'
  BY <1>1 DEF LInv, OneEach
<1>3. \A a : HasDone(a)' <=> HasDone(a)
  BY DEF HasDone
<1> QED
  BY <1>1, <1>2, <1>3 DEF LInv

(* What the table has and what it has lost still accounts for everybody.   *)
LEMMA SucceededStays ==
  ASSUME LInv, UNCHANGED <<st, own, oks>>, Taken \subseteq Taken'
  PROVE  Succeeded'
BY DEF LInv, Succeeded

(* A release, and a step that changes nothing. *)
LEMMA TableStays ==
  ASSUME LInv, active' \subseteq active, released \subseteq released',
         active \subseteq active' \cup released',
         UNCHANGED <<phase, rnd, offers, resps, pass, todo, cur, got, results, dq,
                     st, own, ack, oks, sq>>
  PROVE  LInv'
<1>1. Rest' <=> Rest
  BY DEF Rest, Still
<1>2. Collecting => Collecting'
  BY SubsStay DEF Collecting
<1>3. (Heard' <=> Heard) /\ Cur' = Cur
  BY DEF Heard, Cur
<1>4. \A s \in Subs : Turn(s) => Turn(s)'
  BY <1>3, SubsStay DEF Turn, validate_ping_ack
<1>5. Answered => Answered'
  BY <1>3, SubsStay DEF Answered, validate_ping_ack
<1>6. Pinging => Pinging'
  <2> SUFFICES ASSUME Pinging PROVE Pinging'
    OBVIOUS
  <2>1. cur' # NoAddr => Answered' \/ \E s \in Subs : Going(s)' /\ own'[s] = cur' /\ Turn(s)'
    BY <1>4, <1>5, SubsStay DEF Pinging
  <2>2. /\ pass' = 2 => \A a \in results' : HasDone(a)'
        /\ \A s \in Subs : Going(s)' /\ own'[s] \in todo' => oks'[s] = pass' - 1
        /\ \A s \in Subs : Going(s)' /\ own'[s] \in results' => oks'[s] = pass'
    BY SubsStay DEF Pinging
  <2> QED
    BY <1>1, <2>1, <2>2 DEF Pinging
<1>7. Succeeded'
  <2>1. Taken \subseteq Taken'
    BY <1>3 DEF Taken
  <2> QED
    BY <2>1, SucceededStays
<1>8. Listed'
  BY SubsStay DEF LInv, Listed
<1> QED
  BY <1>1, <1>2, <1>6, <1>7, <1>8, SubsStay DEF LInv

(* The offer reaches every sub left from an earlier round.                 *)
LEMMA BroadcastLInv ==
  ASSUME IInv, LInv, ~lossy, DomBroadcast, TaskDepth >= 2
  PROVE  LInv'
<1>1. PICK r \in 0 .. MaxRnd : rnd' = r
  BY DEF DomBroadcast
<1>2. /\ phase = "idle" /\ phase' = "collect"
      /\ offers' = Addrs \ active /\ resps' = {}
      /\ UNCHANGED <<lossy, released, active, pass, todo, cur, got, results, dq, st, own, ack, oks>>
  BY DEF DomBroadcast, get_available_addrs, history
<1> DEFINE m == [type |-> "initial", rnd |-> r, offers |-> Addrs \ active]
<1>3. m \in Initials /\ m \in ToSubs
  BY DEF Initials, ToSubs
<1> DEFINE msg == [s \in Subs |-> {m}]
<1>4. Deliver(msg)
  BY <1>1, <1>2 DEF DomBroadcast
<1>5. \A s \in Subs : msg[s] = {m}
  OBVIOUS
<1> HIDE DEF m, msg
<1>6. Rest
  BY <1>2 DEF LInv
<1>7. \A s \in Subs :
        IF st[s] \in Listening
          THEN /\ sq'[s] = sq[s] \o <<m>>
               /\ Len(sq'[s]) = Len(sq[s]) + 1 /\ sq'[s][Len(sq[s]) + 1] = m
               /\ Msgs(sq'[s]) = Msgs(sq[s]) \cup {m}
          ELSE sq'[s] = sq[s]
  <2>1. /\ \A s \in Subs : msg[s] \subseteq ToSubs /\ msg[s] # {}
        /\ \A s \in Subs : Len(sq[s]) <= 1
    BY <1>3, <1>5, <1>6 DEF Rest, Still
  <2>2. \A s \in Subs :
          IF st[s] \in Listening /\ msg[s] # {}
            THEN \E n \in msg[s] : /\ sq'[s] = sq[s] \o <<n>>
                                   /\ Len(sq'[s]) = Len(sq[s]) + 1
                                   /\ sq'[s][Len(sq[s]) + 1] = n
                                   /\ Msgs(sq'[s]) = Msgs(sq[s]) \cup {n}
            ELSE sq'[s] = sq[s]
    BY <1>4, <2>1, OneDelivered
  <2> QED
    BY <1>5, <2>1, <2>2
<1>8. m \notin AckAcks /\ m \notin Pings
  BY <1>3, Kinds
<1>9. \A s \in Subs : /\ Chosen(s)' <=> Chosen(s)
                      /\ Going(s)' <=> Going(s)
  <2>1. \A s \in Subs : Takes(s)' <=> Takes(s)
    <3>1. \A s \in Subs : [type |-> "ackack", addr |-> own[s], to |-> s] # m
      BY <1>3 DEF Initials
    <3> QED
      BY <1>2, <1>7, <3>1 DEF Takes
  <2> QED
    BY <1>2, <2>1 DEF Chosen, Going
<1>10. OneEach'
  BY <1>2, <1>9 DEF LInv, OneEach
<1>11. ASSUME NEW s \in Subs PROVE InLine(s)' /\ Replies(s)'
  <2>1. Msgs(sq[s]) \cap Pings = {} /\ sq[s] \in Seq(ToSubs) /\ Line(sq[s])
    BY <1>6, Kinds, SubFacts DEF Rest, Still, LInv, InLine
  <2>2. Line(sq[s] \o <<m>>)
    BY <1>3, <1>8, <2>1, LineAppended
  <2>3. Line(sq'[s])
    BY <1>7, <2>1, <2>2
  <2>4. st'[s] = "pingwait" => Msgs(sq'[s]) \cap AckAcks = {}
    BY <1>2, <1>7, <1>8 DEF LInv, InLine
  <2> QED
    BY <1>2, <2>3, <2>4 DEF LInv, InLine, Replies
<1>12. Collecting'
  <2>1. \A s \in Subs : Msgs(sq'[s]) \cap Pings = {}
    BY <1>6, <1>7, <1>8, Kinds DEF Rest, Still
  <2>2. ASSUME NEW s \in Subs, Going(s)' PROVE OfferLast(sq'[s])
    <3>1. st[s] \in Listening
      BY <1>9, <2>2 DEF Going, Listening
    <3>2. Len(sq[s]) \in Nat /\ Len(sq'[s]) = Len(sq[s]) + 1 /\ sq'[s][Len(sq[s]) + 1] = m
      BY <1>7, <3>1, SubFacts, LenProperties
    <3>3. sq'[s] # << >>
      <4>1. Len(sq'[s]) # 0
        BY <3>2
      <4> QED
        BY <4>1, EmptySeq
    <3> QED
      BY <1>3, <3>2, <3>3 DEF OfferLast
  <2>3. resps' \cup Msgs(dq') \cup UNION {ack'[s] : s \in Subs} = {}
    <3>1. Msgs(<< >>) = {}
      BY InQueue, EmptySeq
    <3> QED
      BY <1>2, <1>6, <3>1 DEF Rest, Still
  <2> QED
    BY <2>1, <2>2, <2>3 DEF Collecting
<1>13. Listed' /\ Succeeded'
  BY <1>2 DEF LInv, Listed, HasDone, Succeeded, Taken
<1> QED
  BY <1>2, <1>10, <1>11, <1>12, <1>13 DEF LInv

LEMMA CollectLInv ==
  ASSUME IInv, LInv, DomCollect
  PROVE  LInv'
<1>1. /\ phase = "collect" /\ phase' = "collect" /\ dq # << >>
      /\ resps' = resps \cup {Head(dq)} /\ dq' = Tail(dq)
      /\ UNCHANGED <<lossy, released, active, pass, todo, cur, got, results, st, own, ack, oks, sq>>
  BY DEF DomCollect, subVars, history
<1>2. Head(dq) \in Msgs(dq) /\ Msgs(Tail(dq)) \subseteq Msgs(dq)
  BY <1>1, Received DEF IInv, TypeOK
<1>3. Collecting'
  <2>1. resps' \cup Msgs(dq') \cup UNION {ack'[s] : s \in Subs}
          \subseteq resps \cup Msgs(dq) \cup UNION {ack[s] : s \in Subs}
    BY <1>1, <1>2
  <2>2. \A s \in Subs : Going(s)' => OfferLast(sq'[s])
    BY <1>1, SubsStay DEF LInv, Collecting
  <2> QED
    BY <1>1, <2>1, <2>2 DEF LInv, Collecting
<1>4. Listed' /\ Succeeded'
  BY <1>1 DEF LInv, Listed, HasDone, Succeeded, Taken
<1> QED
  BY <1>1, <1>3, <1>4, SubsStay DEF LInv

(* A sub is acknowledged when its answer was the only one with its address *)
(* that arrived; and a sub that has the address from an earlier round was  *)
(* taken out of the table.                                                 *)
LEMMA ValidFacts ==
  ASSUME IInv, LInv, phase = "collect"
  PROVE  /\ \A m \in Valid : /\ m.from \in Subs /\ m.addr \in Addrs
                             /\ own[m.from] = m.addr
         /\ \A m, n \in Valid : m.addr = n.addr /\ m.addr \in Accepted => m = n
         /\ \A s \in Subs : st[s] = "done" /\ own[s] \in Accepted => own[s] \in released
<1>1. \A m \in Valid : m \in resps /\ m \in Answers
  BY DEF Valid, IInv, TypeOK
<1>2. \A m \in Valid : /\ m.from \in Subs /\ m.addr \in Addrs
                       /\ own[m.from] = m.addr
  BY <1>1 DEF Answers, IInv, Signed
<1>3. \A m, n \in Valid : m.addr = n.addr /\ m.addr \in Accepted => m = n
  BY <1>2 DEF Accepted, Dupes
<1>4. \A s \in Subs : st[s] = "done" => own[s] \in active \cup released
  BY DEF LInv, Succeeded, Taken
<1>5. Accepted \cap active = {}
  BY AcceptedOffered DEF IInv, Offered
<1> QED
  BY <1>2, <1>3, <1>4, <1>5

LEMMA AckAckLInv ==
  ASSUME IInv, LInv, ~lossy, late' = 0, DomAckAck, TaskDepth >= 2
  PROVE  LInv'
<1>1. /\ phase = "collect" /\ AllHeard
      /\ UNCHANGED <<lossy, released, active, offers, cur, got, dq, st, own, ack, oks>>
  <2>1. late \in Nat /\ late + 1 # 0
    BY DEF IInv, TypeOK
  <2> QED
    BY <2>1 DEF DomAckAck, WaitEnds
<1>2. /\ Msgs(<< >>) = {} /\ Len(<< >>) = 0 /\ dq = << >>
      /\ \A s \in Subs : ack[s] = {} /\ sq[s] = << >>
  BY <1>1, InQueue, EmptySeq DEF AllHeard
<1>3. \A s \in Subs : ~Going(s)
  BY <1>1, <1>2 DEF LInv, Collecting, OfferLast
<1>4. phase' # "ping" \/ pass' # 2 => Listed' /\ Succeeded'
  BY <1>1 DEF LInv, Listed, HasDone, Succeeded, Taken
<1>5. CASE UNCHANGED sq /\ phase' = "idle"
  <2>1. Rest'
    BY <1>1, <1>2, <1>5 DEF Rest, Still
  <2> QED
    BY <1>1, <1>4, <1>5, <2>1, SubsStay DEF LInv
<1>6. ASSUME NEW sent \in SUBSET Accepted, Deliver([s \in Subs |-> AckAckFor(sent, s)]),
             \/ phase' = "idle"
             \/ phase' = "ping" /\ sent = Accepted /\ todo' = Accepted /\ results' = {} /\ pass' = 1
      PROVE  LInv'
  <2> DEFINE msg == [s \in Subs |-> AckAckFor(sent, s)]
  <2>1. /\ \A s \in Subs : msg[s] = AckAckFor(sent, s)
        /\ \A s \in Subs : msg[s] \subseteq ToSubs
        /\ \A s \in Subs : Len(sq[s]) <= 1
    BY <1>2, AckAckType DEF ToSubs
  <2>2. Deliver(msg)
    BY <1>6
  <2> HIDE DEF msg
  <2>3. ASSUME NEW s \in Subs
        PROVE  \/ sq'[s] = << >> /\ (st[s] \notin Listening \/ AckAckFor(sent, s) = {})
               \/ \E m \in AckAckFor(sent, s) : /\ Line(sq'[s]) /\ Len(sq'[s]) = 1
                                                /\ Msgs(sq'[s]) = {m}
    <3>1. IF st[s] \in Listening /\ msg[s] # {}
            THEN \E m \in msg[s] : /\ sq'[s] = sq[s] \o <<m>>
                                   /\ Len(sq'[s]) = Len(sq[s]) + 1
                                   /\ sq'[s][Len(sq[s]) + 1] = m
                                   /\ Msgs(sq'[s]) = Msgs(sq[s]) \cup {m}
            ELSE sq'[s] = sq[s]
      BY <2>1, <2>2, OneDelivered
    <3>2. CASE st[s] \in Listening /\ msg[s] # {}
      <4>1. PICK m \in msg[s] : /\ sq'[s] = sq[s] \o <<m>>
                                /\ Len(sq'[s]) = Len(sq[s]) + 1
                                /\ Msgs(sq'[s]) = Msgs(sq[s]) \cup {m}
        BY <3>1, <3>2
      <4>2. sq[s] = << >> /\ Msgs(sq[s]) = {} /\ Len(sq[s]) = 0 /\ sq[s] \in Seq(ToSubs)
        BY <1>2, SubFacts
      <4>3. m \in ToSubs /\ Line(sq[s])
        BY <2>1, <4>2, LineEmpty
      <4>4. Line(sq[s] \o <<m>>)
        BY <4>2, <4>3, LineAppended
      <4>5. Len(sq'[s]) = 1 /\ Msgs(sq'[s]) = {m} /\ Line(sq'[s])
        BY <4>1, <4>2, <4>4
      <4> QED
        BY <2>1, <4>5
    <3>3. CASE ~(st[s] \in Listening /\ msg[s] # {})
      BY <1>2, <2>1, <3>1, <3>3
    <3> QED
      BY <3>2, <3>3
  <2>4. ASSUME NEW s \in Subs
        PROVE  Len(sq'[s]) <= 1 /\ Msgs(sq'[s]) \subseteq AckAcks /\ Line(sq'[s])
    <3>1. AckAckFor(sent, s) \subseteq AckAcks
      BY AckAckType
    <3>2. CASE sq'[s] = << >>
      <4>1. Line(sq'[s]) /\ Msgs(sq'[s]) = {}
        BY <1>2, <3>2, LineEmpty
      <4>2. Len(sq'[s]) = 0
        BY <1>2, <3>2
      <4> QED
        BY <4>1, <4>2
    <3>3. CASE \E m \in AckAckFor(sent, s) : /\ Line(sq'[s]) /\ Len(sq'[s]) = 1
                                              /\ Msgs(sq'[s]) = {m}
      BY <3>1, <3>3
    <3> QED
      BY <2>3, <3>2, <3>3
  <2>5. ASSUME NEW s \in Subs, Going(s)'
        PROVE  /\ st[s] = "ackwait"
               /\ \E n \in Valid : n.from = s /\ n.addr = own[s] /\ own[s] \in Accepted
    <3>1. st[s] = "ackwait" /\ Takes(s)'
      BY <1>1, <1>3, <2>5 DEF Going
    <3>2. [type |-> "ackack", addr |-> own[s], to |-> s] \in AckAckFor(sent, s)
      BY <1>1, <1>2, <2>3, <3>1 DEF Takes
    <3> QED
      BY <3>1, <3>2 DEF AckAckFor
  <2>6. OneEach'
    <3> SUFFICES ASSUME NEW s \in Subs, NEW t \in Subs, Chosen(s)', Chosen(t)', own[s] = own[t],
                        (Going(s)' /\ Going(t)') \/ own[s] \notin released
                 PROVE  s = t
      BY <1>1 DEF OneEach
    <3>1. CASE Going(s)' /\ Going(t)'
      BY <1>1, <2>5, <3>1, ValidFacts
    <3>2. CASE Going(s)' /\ ~Going(t)'
      BY <1>1, <2>5, <3>2, ValidFacts DEF Chosen
    <3>3. CASE ~Going(s)' /\ Going(t)'
      BY <1>1, <2>5, <3>3, ValidFacts DEF Chosen
    <3>4. CASE ~Going(s)' /\ ~Going(t)'
      BY <1>1, <3>4 DEF LInv, OneEach, Chosen
    <3> QED
      BY <3>1, <3>2, <3>3, <3>4
  <2>7. \A s \in Subs : InLine(s)' /\ Replies(s)'
    BY <1>1, <1>2, <1>3, <2>4 DEF InLine, Replies, Going
  <2>8. Rest'
    BY <1>1, <1>2, <2>4 DEF Rest, Still
  <2>9. ASSUME phase' = "ping" PROVE Pinging'
    <3>1. sent = Accepted /\ todo' = Accepted /\ results' = {} /\ pass' = 1
      BY <1>6, <2>9
    <3>2. cur' = NoAddr /\ NoAddr \notin Accepted
      BY <1>1, AcceptedOffered, SetsAssumption DEF IInv, Offered
    <3>3. \A s \in Subs : Going(s)' => oks[s] = 0
      BY <2>5 DEF IInv, Counted
    <3>4. \A s \in Subs : Msgs(sq'[s]) \cap Initials = {} /\ Msgs(sq'[s]) \cap Pings = {}
      BY <2>4, Kinds
    <3>5. \A s \in Subs : own'[s] = own[s] /\ oks'[s] = oks[s]
      BY <1>1
    <3>6. pass' - 1 = 0 /\ pass' # 2
      BY <3>1
    <3> QED
      BY <2>8, <3>1, <3>2, <3>3, <3>4, <3>5, <3>6 DEF Pinging
  <2>10. Listed' /\ Succeeded' /\ phase' # "collect"
    BY <1>4, <1>6
  <2> QED
    BY <1>6, <2>6, <2>7, <2>8, <2>9, <2>10 DEF LInv
<1>7. CASE Accepted = {}
  BY <1>5, <1>7 DEF DomAckAck
<1>8. CASE Accepted # {}
  BY <1>6, <1>8 DEF DomAckAck
<1> QED
  BY <1>7, <1>8

(* The sub that has the address is asked, and with it any other that took  *)
(* it and was not acknowledged.                                            *)
LEMMA PingLInv ==
  ASSUME IInv, LInv, ~lossy, DomPing, TaskDepth >= 2
  PROVE  LInv'
<1>1. PICK a \in todo :
        /\ cur' = a /\ todo' = todo \ {a}
        /\ Deliver([s \in Subs |->
                      {m \in {[type |-> "ping", addr |-> a, rnd |-> rnd]} : own[s] = a}])
  BY DEF DomPing
<1>2. /\ phase = "ping" /\ phase' = "ping" /\ cur = NoAddr /\ got' = FALSE
      /\ UNCHANGED <<lossy, released, active, phase, rnd, offers, resps, pass, results, dq,
                     st, own, ack, oks>>
  BY DEF DomPing, history
<1>3. a \in Addrs /\ a # NoAddr /\ rnd \in 0 .. MaxRnd /\ pass \in {1, 2}
  BY SetsAssumption DEF IInv, TypeOK
<1>4. Pinging /\ Rest
  BY <1>2 DEF LInv, Pinging
<1> DEFINE p == [type |-> "ping", addr |-> a, rnd |-> rnd]
           msg == [s \in Subs |-> {m \in {p} : own[s] = a}]
<1>5. p \in Pings /\ p \in ToSubs /\ p.rnd = rnd
  BY <1>3 DEF ToSubs, Pings
<1>6. /\ \A s \in Subs : msg[s] \subseteq ToSubs
      /\ \A s \in Subs : msg[s] = IF own[s] = a THEN {p} ELSE {}
  BY <1>5
<1>7. Deliver(msg)
  BY <1>1
<1> HIDE DEF p, msg
<1>8. p \notin AckAcks /\ p \notin Initials
  BY <1>5, Kinds
<1>9. \A s \in Subs :
        \/ sq'[s] = sq[s] /\ (st[s] \notin Listening \/ own[s] # a)
        \/ own[s] = a /\ sq'[s] = sq[s] \o <<p>> /\ Msgs(sq'[s]) = Msgs(sq[s]) \cup {p}
  <2>1. \A s \in Subs : Len(sq[s]) <= 1
    BY <1>4 DEF Rest, Still
  <2>2. \A s \in Subs :
          IF st[s] \in Listening /\ msg[s] # {}
            THEN \E m \in msg[s] : /\ sq'[s] = sq[s] \o <<m>>
                                   /\ Len(sq'[s]) = Len(sq[s]) + 1
                                   /\ sq'[s][Len(sq[s]) + 1] = m
                                   /\ Msgs(sq'[s]) = Msgs(sq[s]) \cup {m}
            ELSE sq'[s] = sq[s]
    BY <1>6, <1>7, <2>1, OneDelivered
  <2> QED
    BY <1>6, <2>2
<1>10. \A s \in Subs : /\ Chosen(s)' <=> Chosen(s)
                       /\ Going(s)' <=> Going(s)
  <2>1. \A s \in Subs : [type |-> "ackack", addr |-> own[s], to |-> s] # p
    BY <1>5 DEF Pings
  <2>2. \A s \in Subs : Takes(s)' <=> Takes(s)
    BY <1>2, <1>9, <2>1 DEF Takes
  <2> QED
    BY <1>2, <2>2 DEF Chosen, Going
<1>11. OneEach'
  BY <1>2, <1>10 DEF LInv, OneEach
<1>12. ASSUME NEW s \in Subs PROVE InLine(s)' /\ Replies(s)'
  <2>1. Msgs(sq[s]) \cap Pings = {} /\ sq[s] \in Seq(ToSubs) /\ Line(sq[s])
    BY <1>4, Kinds, SubFacts DEF Rest, Still, LInv, InLine
  <2>2. Line(sq[s] \o <<p>>)
    BY <1>5, <1>8, <2>1, LineAppended
  <2>3. Line(sq'[s])
    BY <1>9, <2>1, <2>2
  <2>4. st'[s] = "pingwait" => Msgs(sq'[s]) \cap AckAcks = {}
    BY <1>2, <1>8, <1>9 DEF LInv, InLine
  <2> QED
    BY <1>2, <2>3, <2>4 DEF LInv, InLine, Replies
<1>13. ~Heard' /\ Msgs(dq') = {} /\ dq' = << >> /\ \A t \in Subs : ack'[t] = {}
  <2>1. Msgs(<< >>) = {}
    BY InQueue, EmptySeq
  <2> QED
    BY <1>2, <1>4, <2>1 DEF Rest, Still, Heard
<1>14. Answered' \/ \E s \in Subs : Going(s)' /\ own'[s] = cur' /\ Turn(s)'
  <2>1. ASSUME NEW s \in Subs, Going(s), own[s] = a PROVE Turn(s)'
    <3>1. oks[s] = pass - 1
      BY <1>1, <1>4, <2>1 DEF Pinging
    <3>2. st[s] \in Listening
      BY <2>1 DEF Going, Listening
    <3>3. AskedNow(s)'
      BY <1>5, <1>9, <2>1, <3>2 DEF AskedNow
    <3> QED
      BY <1>2, <1>13, <3>1, <3>3 DEF Turn
  <2>2. CASE \E s \in Subs : Going(s) /\ own[s] = a
    BY <1>1, <1>2, <1>10, <2>1, <2>2
  <2>3. CASE ~\E s \in Subs : Going(s) /\ own[s] = a
    BY <1>1, <1>2, <1>10, <1>13, <2>3 DEF Answered
  <2> QED
    BY <2>2, <2>3
<1>15. \A t \in Subs : Msgs(sq'[t]) \cap Initials = {}
  <2>1. \A t \in Subs : Msgs(sq[t]) \cap Initials = {}
    BY <1>4 DEF Pinging
  <2>2. \A t \in Subs : Msgs(sq'[t]) \subseteq Msgs(sq[t]) \cup {p}
    BY <1>9
  <2> QED
    BY <1>8, <2>1, <2>2
<1>16. ASSUME NEW t \in Subs, NEW m \in Msgs(sq'[t]) \cap Pings
       PROVE  m.rnd = rnd' /\ own'[t] = cur'
  <2>1. Msgs(sq[t]) \cap Pings = {}
    BY <1>4, Kinds DEF Rest, Still
  <2>2. m = p /\ own[t] = a
    BY <1>9, <1>16, <2>1
  <2> QED
    BY <1>1, <1>2, <1>5, <2>2
<1>17. Pinging'
  <2>1. /\ todo' \cap results' = {} /\ cur' \notin todo' \cup results'
        /\ todo' \subseteq todo /\ results' = results /\ pass' = pass
    BY <1>1, <1>2, <1>4 DEF Pinging
  <2>2. pass' = 2 => \A b \in results' : HasDone(b)'
    BY <1>2, <1>4 DEF Pinging, HasDone
  <2>3. /\ \A t \in Subs : Going(t)' /\ own'[t] \in todo' => oks'[t] = pass' - 1
        /\ \A t \in Subs : Going(t)' /\ own'[t] \in results' => oks'[t] = pass'
    BY <1>2, <1>4, <1>10, <2>1 DEF Pinging
  <2>4. cur' # NoAddr
    BY <1>1, <1>3
  <2> QED
    BY <1>14, <1>15, <1>16, <2>1, <2>2, <2>3, <2>4 DEF Pinging
<1>18. Listed' /\ Succeeded'
  <2>1. Taken \subseteq Taken'
    BY <1>2 DEF Taken, Cur
  <2> QED
    BY <1>2, <2>1, SucceededStays DEF LInv, Listed, HasDone
<1> QED
  BY <1>2, <1>11, <1>12, <1>17, <1>18 DEF LInv

(* While an address is pinged, its wait ends with one answer heard: the    *)
(* one of the sub that was acknowledged for it.                            *)
LEMMA HearLInv ==
  ASSUME IInv, LInv, DomPingHear
  PROVE  LInv'
<1>1. /\ phase = "ping" /\ cur # NoAddr /\ dq # << >> /\ dq' = Tail(dq)
      /\ got' = (got \/ validate_ping_ack(Head(dq)))
      /\ cur' = IF got /\ validate_ping_ack(Head(dq)) THEN NoAddr ELSE cur
      /\ UNCHANGED <<lossy, released, active, phase, rnd, offers, resps, pass, todo, results,
                     st, own, ack, oks, sq>>
  BY DEF DomPingHear, subVars, history
<1>2. Pinging /\ Answered
  BY <1>1 DEF LInv, Pinging, Turn, Heard
<1>3. Len(dq) = 1 /\ ~got
  BY <1>1, <1>2 DEF Answered
<1>4. /\ Head(dq) \in Msgs(dq) /\ Tail(dq) \in Seq(Answers) /\ Len(Tail(dq)) = Len(dq) - 1
  BY <1>1, Received DEF IInv, TypeOK
<1>5. validate_ping_ack(Head(dq))
  BY <1>2, <1>4 DEF Answered
<1>6. dq' = << >> /\ Msgs(dq') = {}
  <2>1. Len(Tail(dq)) = 0
    BY <1>3, <1>4
  <2>2. Tail(dq) = << >>
    BY <1>4, <2>1, EmptySeq
  <2>3. Msgs(<< >>) = {}
    BY InQueue, EmptySeq
  <2> QED
    BY <1>1, <2>2, <2>3
<1>7. got' /\ cur' = cur /\ Heard /\ Heard'
  BY <1>1, <1>3, <1>5 DEF Heard
<1>8. Answered'
  BY <1>1, <1>2, <1>6, <1>7, SubsStay DEF Answered
<1>9. Pinging'
  <2>1. /\ pass' = 2 => \A a \in results' : HasDone(a)'
        /\ \A s \in Subs : Going(s)' /\ own'[s] \in todo' => oks'[s] = pass' - 1
        /\ \A s \in Subs : Going(s)' /\ own'[s] \in results' => oks'[s] = pass'
    BY <1>1, <1>2, SubsStay DEF Pinging
  <2> QED
    BY <1>1, <1>2, <1>7, <1>8, <2>1 DEF Pinging
<1>10. Listed' /\ Succeeded'
  <2>1. Taken \subseteq Taken'
    BY <1>1, <1>7 DEF Taken, Cur
  <2> QED
    BY <1>1, <2>1, SucceededStays DEF LInv, Listed, HasDone
<1> QED
  BY <1>1, <1>9, <1>10, SubsStay DEF LInv

LEMMA PingEndLInv ==
  ASSUME IInv, LInv, DomPingEnd, late' = 0
  PROVE  LInv'
<1>1. /\ phase = "ping" /\ cur # NoAddr /\ AllHeard /\ cur' = NoAddr
      /\ results' = IF got THEN results \cup {cur} ELSE results
      /\ UNCHANGED <<lossy, released, active, phase, rnd, pass, todo, got, dq,
                     st, own, ack, oks, sq>>
  <2>1. late \in Nat /\ late + 1 # 0
    BY DEF IInv, TypeOK
  <2> QED
    BY <2>1 DEF DomPingEnd, WaitEnds, subVars
<1>2. /\ Msgs(<< >>) = {} /\ Len(<< >>) = 0 /\ dq = << >>
      /\ \A t \in Subs : ack[t] = {} /\ sq[t] = << >>
  BY <1>1, InQueue, EmptySeq DEF AllHeard
<1>3. Pinging /\ Answered /\ (Heard <=> got)
  BY <1>1, <1>2 DEF LInv, Pinging, Turn, AskedNow, Heard
<1>4. Rest'
  BY <1>1, <1>2 DEF Rest, Still
<1>5. /\ OneEach' /\ \A t \in Subs : InLine(t)' /\ Replies(t)'
      /\ \A t \in Subs : Going(t)' <=> Going(t)
      /\ \A a : HasDone(a)' <=> HasDone(a)
  BY <1>1, SubsStay
<1>6. Pinging'
  <2>1. cur \in Addrs /\ NoAddr \notin todo \cup results \cup {cur}
    BY <1>1, SetsAssumption DEF IInv, TypeOK
  <2>2. /\ todo' \cap results' = {} /\ cur' \notin todo' \cup results'
    BY <1>1, <1>3, <2>1 DEF Pinging
  <2>3. pass' = 2 => \A b \in results' : HasDone(b)'
    BY <1>1, <1>3, <1>5 DEF Pinging, Answered
  <2>4. \A t \in Subs : Going(t)' /\ own'[t] \in todo' => oks'[t] = pass' - 1
    BY <1>1, <1>3, <1>5 DEF Pinging
  <2>5. \A t \in Subs : Going(t)' /\ own'[t] \in results' => oks'[t] = pass'
    BY <1>1, <1>3, <1>5 DEF Pinging, Answered
  <2>6. \A t \in Subs : Msgs(sq'[t]) = {}
    BY <1>1, <1>2
  <2> QED
    BY <1>1, <1>4, <2>2, <2>3, <2>4, <2>5, <2>6 DEF Pinging
<1>7. Listed' /\ Succeeded'
  <2>1. Taken \subseteq Taken'
    BY <1>1, <1>3 DEF Taken, Cur
  <2> QED
    BY <1>1, <2>1, SucceededStays DEF LInv, Listed, HasDone
<1> QED
  BY <1>1, <1>5, <1>6, <1>7 DEF LInv

LEMMA SecondPassLInv ==
  ASSUME IInv, LInv, DomSecondPass
  PROVE  LInv'
<1>1. /\ phase = "ping" /\ cur = NoAddr /\ todo = {} /\ pass = 1
      /\ UNCHANGED <<lossy, released, active, cur, got, dq, st, own, ack, oks, sq>>
  BY DEF DomSecondPass, subVars, history
<1>2. \/ phase' = "idle"
      \/ phase' = "ping" /\ pass' = 2 /\ todo' = results /\ results' = {}
  BY <1>1 DEF DomSecondPass
<1>3. Pinging /\ Rest /\ Rest' /\ \A s \in Subs : Going(s)' <=> Going(s)
  BY <1>1, SubsStay DEF LInv, Pinging, Rest
<1>4. Listed' /\ Succeeded'
  <2>1. Taken \subseteq Taken'
    BY <1>1 DEF Taken
  <2> QED
    BY <1>1, <2>1, SucceededStays DEF LInv, Listed, HasDone
<1>5. ASSUME phase' = "ping" PROVE Pinging'
  <2>1. pass' - 1 = 1
    BY <1>2, <1>5
  <2>2. \A s \in Subs : Msgs(sq[s]) \cap Pings = {}
    BY <1>3, Kinds DEF Rest, Still
  <2> QED
    BY <1>1, <1>2, <1>3, <1>5, <2>1, <2>2 DEF Pinging
<1> QED
  BY <1>1, <1>2, <1>3, <1>4, <1>5, SubsStay DEF LInv

LEMMA CommitLInv ==
  ASSUME IInv, LInv, DomCommit
  PROVE  LInv'
<1>1. /\ phase = "ping" /\ cur = NoAddr /\ todo = {} /\ pass = 2
      /\ active' = active \cup results
      /\ phase' = IF results \cap active = {} THEN "idle" ELSE "panic"
      /\ UNCHANGED <<lossy, released, roundVars, dq, st, own, ack, oks, sq>>
  BY DEF DomCommit, subVars, history
<1>2. phase' = "idle"
  BY <1>1 DEF IInv, Offered
<1>3. Pinging /\ Rest /\ Rest'
  BY <1>1, SubsStay DEF LInv, Pinging, Rest
<1>4. Listed'
  BY <1>1, <1>3, SubsStay DEF LInv, Listed, Pinging
<1>5. Succeeded'
  <2>1. Taken \subseteq Taken'
    BY <1>1 DEF Taken, Cur
  <2> QED
    BY <1>1, <2>1, SucceededStays
<1> QED
  BY <1>1, <1>2, <1>3, <1>4, <1>5, SubsStay DEF LInv

-----------------------------------------------------------------------------
(* The steps of one sub. *)
LEMMA OtherSub ==
  ASSUME NEW t \in Subs, sq'[t] = sq[t], ack'[t] = ack[t], st'[t] = st[t], own'[t] = own[t]
  PROVE  /\ Chosen(t)' <=> Chosen(t)
         /\ Going(t)' <=> Going(t)
         /\ InLine(t)' <=> InLine(t)
         /\ Replies(t)' <=> Replies(t)
         /\ Still(t)' <=> Still(t)
         /\ AskedNow(t)' <=> AskedNow(t)
BY DEF Chosen, Going, Takes, InLine, Replies, Still, AskedNow

LEMMA NoneNew ==
  ASSUME LInv, released' = released,
         \A t \in Subs : /\ Chosen(t)' => Chosen(t) /\ own'[t] = own[t]
                         /\ Going(t)' => Going(t)
  PROVE  OneEach'
BY DEF LInv, OneEach

(* A step of a sub that was not done and is not then leaves the table's    *)
(* part as it was.                                                         *)
LEMMA NoneDone ==
  ASSUME LInv, NEW s \in Subs, st[s] # "done", st'[s] # "done",
         \A t \in Subs : t # s => st'[t] = st[t] /\ own'[t] = own[t] /\ oks'[t] = oks[t],
         UNCHANGED <<released, active, phase, pass, results, cur, got, dq>>
  PROVE  /\ Listed' /\ Succeeded'
         /\ \A a : HasDone(a) => HasDone(a)'
<1>1. Taken' = Taken
  BY DEF Taken, Heard, Cur
<1>2. \A a : HasDone(a) => HasDone(a)'
  BY DEF HasDone
<1>3. Succeeded'
  BY <1>1 DEF LInv, Succeeded
<1> QED
  BY <1>2, <1>3 DEF LInv, Listed

LEMMA BootLInv ==
  ASSUME IInv, LInv, NEW s \in Subs, Boot(s)
  PROVE  LInv'
<1>1. /\ st[s] = "off" /\ st' = [st EXCEPT ![s] = "search"]
      /\ UNCHANGED <<lossy, released, active, phase, rnd, offers, resps, pass, todo, cur, got,
                     results, dq, own, ack, oks, sq>>
  BY DEF Boot, domVars, roundVars, history
<1>2. ack[s] = {}
  BY <1>1 DEF IInv, Assigned
<1>3. st'[s] = "search" /\ \A t \in Subs : t # s => st'[t] = st[t]
  BY <1>1 DEF IInv, TypeOK
<1>4. ASSUME NEW t \in Subs
      PROVE  /\ Chosen(t)' <=> Chosen(t)
             /\ Going(t)' <=> Going(t)
             /\ InLine(t)' /\ Replies(t)'
             /\ Still(t)' <=> Still(t)
             /\ AskedNow(t)' <=> AskedNow(t)
  <2>1. CASE t = s
    BY <1>1, <1>2, <1>3, <2>1 DEF Chosen, Going, LInv, InLine, Replies, Still, AskedNow
  <2>2. CASE t # s
    BY <1>1, <1>3, <2>2, OtherSub DEF LInv
  <2> QED
    BY <2>1, <2>2
<1>5. OneEach'
  BY <1>1, <1>4, NoneNew
<1>6. Listed' /\ Succeeded' /\ \A a : HasDone(a) => HasDone(a)'
  BY <1>1, <1>3, NoneDone
<1>7. Rest' <=> Rest
  BY <1>1, <1>4 DEF Rest
<1>8. Collecting => Collecting'
  <2> SUFFICES ASSUME Collecting PROVE Collecting'
    OBVIOUS
  <2>1. \A t \in Subs : Going(t)' => OfferLast(sq'[t])
    BY <1>1, <1>4 DEF Collecting
  <2>2. ASSUME NEW m \in resps \cup Msgs(dq) \cup UNION {ack[t] : t \in Subs}
        PROVE  /\ m.type = "ack" /\ st'[m.from] \in {"ackwait", "failed"}
               /\ Msgs(sq[m.from]) \subseteq Initials
    <3>1. /\ m.type = "ack" /\ st[m.from] \in {"ackwait", "failed"}
          /\ Msgs(sq[m.from]) \subseteq Initials
      BY DEF Collecting
    <3>2. m.from # s
      BY <1>1, <3>1
    <3>3. st'[m.from] = st[m.from]
      BY <1>1, <3>2 DEF IInv, TypeOK
    <3> QED
      BY <3>1, <3>3
  <2> QED
    BY <1>1, <2>1, <2>2 DEF Collecting
<1>9. Pinging => Pinging'
  <2> SUFFICES ASSUME Pinging PROVE Pinging'
    OBVIOUS
  <2>1. Heard' <=> Heard
    BY <1>1 DEF Heard
  <2>2. \A t \in Subs : Turn(t) => Turn(t)'
    BY <1>1, <1>4, <2>1 DEF Turn, validate_ping_ack
  <2>3. Answered => Answered'
    BY <1>1, <1>4, <1>6, <2>1 DEF Answered, validate_ping_ack
  <2>4. /\ pass' = 2 => \A a \in results' : HasDone(a)'
        /\ cur' # NoAddr => Answered' \/ \E t \in Subs : Going(t)' /\ own'[t] = cur' /\ Turn(t)'
    BY <1>1, <1>4, <1>6, <2>2, <2>3 DEF Pinging
  <2> QED
    BY <1>1, <1>4, <1>7, <2>4 DEF Pinging
<1> QED
  BY <1>1, <1>4, <1>5, <1>6, <1>7, <1>8, <1>9 DEF LInv

(* A sub stops waiting, at any time: because its time is over, or because  *)
(* it heard what it did not wait for.                                      *)
LEMMA GivesUp ==
  ASSUME IInv, LInv, NEW s \in Subs, st[s] \in {"ackwait", "pingwait"}, ack[s] = {},
         st' = [st EXCEPT ![s] = "failed"], sq' = [sq EXCEPT ![s] = << >>],
         UNCHANGED <<released, active, phase, rnd, offers, resps, pass, todo, cur, got, results,
                     dq, own, ack, oks>>
  PROVE  LInv'
<1>1. /\ st'[s] = "failed" /\ sq'[s] = << >> /\ ack'[s] = {}
      /\ \A t \in Subs : t # s => /\ st'[t] = st[t] /\ sq'[t] = sq[t]
                                  /\ ack'[t] = ack[t] /\ own'[t] = own[t]
  BY DEF IInv, TypeOK
<1>2. Msgs(<< >>) = {} /\ Len(<< >>) = 0
  BY InQueue, EmptySeq
<1>3. ~Chosen(s)' /\ ~Going(s)' /\ ~AskedNow(s)'
  BY <1>1, <1>2 DEF Chosen, Going, AskedNow
<1>4. ASSUME NEW t \in Subs
      PROVE  /\ Chosen(t)' => Chosen(t)
             /\ Going(t)' => Going(t) /\ t # s
             /\ InLine(t)' /\ Replies(t)'
             /\ Still(t) => Still(t)'
             /\ Msgs(sq'[t]) \subseteq Msgs(sq[t])
  <2>1. CASE t = s
    BY <1>1, <1>2, <1>3, <2>1, LineEmpty DEF InLine, Replies, Still
  <2>2. CASE t # s
    BY <1>1, <2>2, OtherSub DEF LInv
  <2> QED
    BY <2>1, <2>2
<1>5. OneEach'
  BY <1>4, NoneNew
<1>6. Listed' /\ Succeeded' /\ \A a : HasDone(a) => HasDone(a)'
  BY <1>1, NoneDone
<1>7. Rest => Rest'
  BY <1>4 DEF Rest
<1>8. Collecting => Collecting'
  <2> SUFFICES ASSUME Collecting PROVE Collecting'
    OBVIOUS
  <2>1. \A t \in Subs : Going(t)' => OfferLast(sq'[t])
    BY <1>1, <1>4 DEF Collecting
  <2>2. ASSUME NEW m \in resps \cup Msgs(dq) \cup UNION {ack[t] : t \in Subs}
        PROVE  /\ m.type = "ack" /\ st'[m.from] \in {"ackwait", "failed"}
               /\ Msgs(sq'[m.from]) \subseteq Initials
    <3>1. /\ m.type = "ack" /\ st[m.from] \in {"ackwait", "failed"}
          /\ Msgs(sq[m.from]) \subseteq Initials
      BY DEF Collecting
    <3>2. m.from \in Subs
      <4>1. Msgs(dq) \subseteq Answers /\ \A t \in Subs : ack[t] \subseteq Answers
        BY InQueue DEF IInv, TypeOK
      <4> QED
        BY <4>1 DEF IInv, TypeOK, Answers
    <3> QED
      BY <1>1, <1>2, <3>1, <3>2
  <2> QED
    BY <1>4, <2>1, <2>2 DEF Collecting
<1>9. Pinging => Pinging'
  <2> SUFFICES ASSUME Pinging PROVE Pinging'
    OBVIOUS
  <2>1. Heard' <=> Heard
    BY DEF Heard
  <2>2. \A t \in Subs : AskedNow(t)' => AskedNow(t)
    BY <1>4 DEF AskedNow
  <2>3. Answered => Answered'
    BY <1>4, <1>6, <2>1, <2>2 DEF Answered, validate_ping_ack
  <2>4. ASSUME NEW u \in Subs, Going(u), own[u] = cur, Turn(u)
        PROVE  Answered' \/ (Going(u)' /\ own'[u] = cur' /\ Turn(u)')
    <3>1. CASE u = s
      <4>1. \A t \in Subs : Going(t) /\ own[t] = cur => t = s
        BY <2>4, <3>1 DEF LInv, OneEach, Chosen
      <4>2. \A t \in Subs : ~(Going(t)' /\ own'[t] = cur')
        BY <1>4, <4>1
      <4>3. Msgs(dq) = {} /\ dq = << >>
        BY <1>2, <2>4 DEF Turn, Heard
      <4> QED
        BY <2>1, <2>4, <3>1, <4>2, <4>3 DEF Answered, Turn
    <3>2. CASE u # s
      <4>1. (Going(u)' <=> Going(u)) /\ (AskedNow(u)' <=> AskedNow(u))
        BY <1>1, <3>2, OtherSub
      <4> QED
        BY <2>1, <2>4, <4>1 DEF Turn, validate_ping_ack
    <3> QED
      BY <3>1, <3>2
  <2>5. cur' # NoAddr => Answered' \/ \E t \in Subs : Going(t)' /\ own'[t] = cur' /\ Turn(t)'
    BY <2>3, <2>4 DEF Pinging
  <2>6. /\ pass' = 2 => \A a \in results' : HasDone(a)'
        /\ \A t \in Subs : Going(t)' /\ own'[t] \in todo' => oks'[t] = pass' - 1
        /\ \A t \in Subs : Going(t)' /\ own'[t] \in results' => oks'[t] = pass'
    BY <1>4, <1>6 DEF Pinging
  <2>7. /\ \A t \in Subs : Msgs(sq'[t]) \cap Initials = {}
        /\ \A t \in Subs : \A m \in Msgs(sq'[t]) \cap Pings : m.rnd = rnd' /\ own'[t] = cur'
    BY <1>4 DEF Pinging
  <2> QED
    BY <1>7, <2>5, <2>6, <2>7 DEF Pinging
<1> QED
  BY <1>4, <1>5, <1>6, <1>7, <1>8, <1>9 DEF LInv

LEMMA TimeoutLInv ==
  ASSUME IInv, LInv, NEW s \in Subs, SubTimeout(s)
  PROVE  LInv'
<1>1. /\ st[s] \in {"ackwait", "pingwait"} /\ ack[s] = {}
      /\ st' = [st EXCEPT ![s] = "failed"] /\ sq' = [sq EXCEPT ![s] = << >>]
      /\ UNCHANGED <<released, active, phase, rnd, offers, resps, pass, todo, cur, got, results,
                     dq, own, ack, oks>>
  BY DEF SubTimeout, domVars, roundVars
<1> QED
  BY <1>1, GivesUp

(* Offers are only found while the dom collects. *)
LEMMA ChooseLInv ==
  ASSUME IInv, LInv, NEW s \in Subs, SubChoose(s)
  PROVE  LInv'
<1>1. /\ st[s] = "search" /\ own[s] = NoAddr /\ ack[s] = {} /\ sq[s] # << >>
      /\ Msgs(sq[s]) \subseteq Initials /\ sq[s] \in Seq(ToSubs)
      /\ Head(sq[s]) \in Msgs(sq[s]) /\ Msgs(Tail(sq[s])) \subseteq Msgs(sq[s])
  BY SubFacts DEF SubChoose, Receive, IInv, Assigned
<1>2. PICK a \in Head(sq[s]).offers :
        /\ own' = [own EXCEPT ![s] = a]
        /\ ack' = [ack EXCEPT ![s] = {[type |-> "ack", addr |-> a, from |-> s,
                                       rnd |-> Head(sq[s]).rnd]}]
  BY DEF SubChoose
<1>3. /\ st' = [st EXCEPT ![s] = "ackwait"] /\ sq' = [sq EXCEPT ![s] = Tail(sq[s])]
      /\ UNCHANGED <<lossy, released, active, phase, rnd, offers, resps, pass, todo, cur, got,
                     results, dq, oks>>
  BY DEF SubChoose, domVars, roundVars, history
<1> DEFINE m == [type |-> "ack", addr |-> a, from |-> s, rnd |-> Head(sq[s]).rnd]
<1>4. /\ st'[s] = "ackwait" /\ sq'[s] = Tail(sq[s]) /\ ack'[s] = {m}
      /\ m.type = "ack" /\ m.from = s
      /\ \A t \in Subs : t # s => /\ st'[t] = st[t] /\ sq'[t] = sq[t]
                                  /\ ack'[t] = ack[t] /\ own'[t] = own[t]
  BY <1>2, <1>3 DEF IInv, TypeOK
<1> HIDE DEF m
<1>5. phase = "collect"
  <2>1. phase # "idle"
    BY <1>1, Kinds DEF LInv, Rest, Still
  <2>2. phase # "ping"
    BY <1>1 DEF LInv, Pinging
  <2> QED
    BY <2>1, <2>2 DEF IInv, TypeOK, Offered
<1>6. Msgs(sq'[s]) \subseteq Initials /\ ~Going(s)' /\ ~Chosen(s)'
  <2>1. Msgs(sq'[s]) \subseteq Initials
    BY <1>1, <1>4
  <2>2. ~Takes(s)'
    BY <2>1 DEF Takes, Initials
  <2> QED
    BY <1>4, <2>1, <2>2 DEF Chosen, Going
<1>7. OneEach'
  BY <1>3, <1>4, <1>6, OtherSub, NoneNew
<1>8. ASSUME NEW t \in Subs PROVE InLine(t)' /\ Replies(t)'
  <2>1. CASE t = s
    <3>1. Line(Tail(sq[s]))
      BY <1>1, LineReceived DEF LInv, InLine
    <3> QED
      BY <1>4, <2>1, <3>1 DEF InLine, Replies
  <2>2. CASE t # s
    BY <1>4, <2>2, OtherSub DEF LInv
  <2> QED
    BY <2>1, <2>2
<1>9. Collecting'
  <2>1. Collecting
    BY <1>5 DEF LInv
  <2>2. \A t \in Subs : Msgs(sq'[t]) \subseteq Msgs(sq[t])
    BY <1>1, <1>4
  <2>3. \A t \in Subs : Msgs(sq'[t]) \cap Pings = {}
    BY <2>1, <2>2 DEF Collecting
  <2>4. \A t \in Subs : Going(t)' => OfferLast(sq'[t])
    BY <1>4, <1>6, <2>1, OtherSub DEF Collecting
  <2>5. ASSUME NEW n \in resps' \cup Msgs(dq') \cup UNION {ack'[t] : t \in Subs}
        PROVE  /\ n.type = "ack" /\ st'[n.from] \in {"ackwait", "failed"}
               /\ Msgs(sq'[n.from]) \subseteq Initials
    <3>1. CASE n = m
      BY <1>4, <1>6, <3>1
    <3>2. CASE n # m
      <4>1. n \in resps \cup Msgs(dq) \cup UNION {ack[t] : t \in Subs}
        BY <1>3, <1>4, <3>2
      <4>2. n.from \in Subs
        <5>1. Msgs(dq) \subseteq Answers /\ \A t \in Subs : ack[t] \subseteq Answers
          BY InQueue DEF IInv, TypeOK
        <5> QED
          BY <4>1, <5>1 DEF IInv, TypeOK, Answers
      <4>3. /\ n.type = "ack" /\ st[n.from] \in {"ackwait", "failed"}
            /\ Msgs(sq[n.from]) \subseteq Initials
        BY <2>1, <4>1 DEF Collecting
      <4> QED
        BY <1>1, <1>4, <4>2, <4>3
    <3> QED
      BY <3>1, <3>2
  <2> QED
    BY <2>3, <2>4, <2>5 DEF Collecting
<1>10. Listed' /\ Succeeded'
  BY <1>1, <1>3, <1>4, NoneDone
<1> QED
  BY <1>3, <1>5, <1>7, <1>8, <1>9, <1>10 DEF LInv

(* A sub takes up the acknowledgement that is meant for it, or passes over *)
(* a message that is not.                                                  *)
LEMMA AckAckHeardLInv ==
  ASSUME IInv, LInv, NEW s \in Subs, SubAckAck(s)
  PROVE  LInv'
<1> DEFINE h == Head(sq[s])
           q == Tail(sq[s])
<1>1. /\ st[s] = "ackwait" /\ ack[s] = {} /\ sq[s] # << >>
      /\ sq' = [sq EXCEPT ![s] = q]
      /\ st' = [st EXCEPT ![s] = IF validate_discover_ack_ack(h, s) THEN "pingwait" ELSE st[s]]
      /\ UNCHANGED <<lossy, released, active, phase, rnd, offers, resps, pass, todo, cur, got,
                     results, dq, own, ack, oks>>
  BY DEF SubAckAck, Receive, domVars, roundVars, history
<1>2. /\ sq[s] \in Seq(ToSubs) /\ h \in ToSubs /\ h \in Msgs(sq[s])
      /\ q \in Seq(ToSubs) /\ Msgs(q) \subseteq Msgs(sq[s])
  BY <1>1, SubFacts
<1>3. /\ Line(q) /\ Msgs(q) \cap AckAcks = {}
      /\ \A m \in Msgs(sq[s]) : m = h \/ m \in Msgs(q)
  BY <1>1, <1>2, LineReceived DEF LInv, InLine
<1>4. Len(q) <= Len(sq[s])
  <2>1. Len(sq[s]) \in Nat /\ Len(q) = Len(sq[s]) - 1
    BY <1>1, <1>2, Received
  <2>2. \A k \in Nat : k - 1 <= k
    OBVIOUS
  <2> QED
    BY <2>1, <2>2
<1>5. OfferLast(sq[s]) /\ h \notin Initials => OfferLast(q)
  BY <1>2, OfferStaysLast
<1> HIDE DEF h, q
<1>6. /\ sq'[s] = q /\ ack'[s] = {} /\ own'[s] = own[s]
      /\ st'[s] = IF validate_discover_ack_ack(h, s) THEN "pingwait" ELSE "ackwait"
      /\ \A t \in Subs : t # s => /\ st'[t] = st[t] /\ sq'[t] = sq[t]
                                  /\ ack'[t] = ack[t] /\ own'[t] = own[t]
  BY <1>1 DEF IInv, TypeOK
<1>7. /\ validate_discover_ack_ack(h, s) <=> Takes(s)
      /\ validate_discover_ack_ack(h, s) => h \in AckAcks
      /\ ~Takes(s)'
  <2>1. validate_discover_ack_ack(h, s) => h \in AckAcks
    BY <1>2, Kinds DEF validate_discover_ack_ack
  <2>2. [type |-> "ackack", addr |-> own[s], to |-> s] \in AckAcks
    BY <1>1 DEF IInv, Assigned, AckAcks
  <2>3. ~Takes(s)'
    BY <1>3, <1>6, <2>2 DEF Takes
  <2>4. validate_discover_ack_ack(h, s) => h = [type |-> "ackack", addr |-> own[s], to |-> s]
    BY <2>1 DEF validate_discover_ack_ack, AckAcks
  <2>5. Takes(s) => h = [type |-> "ackack", addr |-> own[s], to |-> s]
    BY <1>3, <2>2 DEF Takes
  <2>6. h = [type |-> "ackack", addr |-> own[s], to |-> s] => validate_discover_ack_ack(h, s)
    BY DEF validate_discover_ack_ack
  <2> QED
    BY <1>2, <2>1, <2>3, <2>4, <2>5, <2>6 DEF Takes
<1>8. ASSUME NEW t \in Subs
      PROVE  /\ Chosen(t)' <=> Chosen(t)
             /\ Going(t)' <=> Going(t)
             /\ InLine(t)' /\ Replies(t)'
             /\ Still(t) => Still(t)'
             /\ Msgs(sq'[t]) \subseteq Msgs(sq[t])
  <2>1. CASE t = s
    <3>1. (Chosen(s)' <=> Chosen(s)) /\ (Going(s)' <=> Going(s))
      BY <1>1, <1>6, <1>7 DEF Chosen, Going
    <3>2. InLine(s)' /\ Replies(s)'
      BY <1>3, <1>6 DEF InLine, Replies
    <3>3. Still(s) => Still(s)'
      <4>1. Len(q) \in Nat /\ Len(sq[s]) \in Nat
        BY <1>2, LenProperties DEF q
      <4>2. Len(sq[s]) <= 1 => Len(q) <= 1
        BY <1>4, <4>1
      <4> QED
        BY <1>2, <1>6, <4>2 DEF Still
    <3> QED
      BY <1>2, <1>6, <2>1, <3>1, <3>2, <3>3
  <2>2. CASE t # s
    BY <1>6, <2>2, OtherSub DEF LInv
  <2> QED
    BY <2>1, <2>2
<1>9. OneEach'
  BY <1>1, <1>8, NoneNew
<1>10. Rest => Rest'
  BY <1>1, <1>8 DEF Rest
<1>11. Listed' /\ Succeeded' /\ \A a : HasDone(a) => HasDone(a)'
  BY <1>1, <1>6, NoneDone
<1>12. Collecting => Collecting'
  <2> SUFFICES ASSUME Collecting PROVE Collecting'
    OBVIOUS
  <2>1. ASSUME NEW t \in Subs, Going(t)' PROVE OfferLast(sq'[t])
    <3>1. OfferLast(sq[t])
      BY <1>8, <2>1 DEF Collecting
    <3>2. t = s => h \in AckAcks
      BY <1>1, <1>7, <1>8, <2>1 DEF Going
    <3> QED
      BY <1>5, <1>6, <3>1, <3>2, Kinds
  <2>2. ASSUME NEW m \in resps \cup Msgs(dq) \cup UNION {ack[t] : t \in Subs}
        PROVE  /\ m.type = "ack" /\ st'[m.from] \in {"ackwait", "failed"}
               /\ Msgs(sq'[m.from]) \subseteq Initials
    <3>1. /\ m.type = "ack" /\ st[m.from] \in {"ackwait", "failed"}
          /\ Msgs(sq[m.from]) \subseteq Initials
      BY DEF Collecting
    <3>2. m.from \in Subs
      <4>1. Msgs(dq) \subseteq Answers /\ \A t \in Subs : ack[t] \subseteq Answers
        BY InQueue DEF IInv, TypeOK
      <4> QED
        BY <4>1 DEF IInv, TypeOK, Answers
    <3>3. m.from = s => st'[s] = "ackwait"
      BY <1>2, <1>6, <1>7, <3>1, Kinds
    <3> QED
      BY <1>6, <1>8, <3>1, <3>2, <3>3
  <2> QED
    BY <1>1, <1>8, <2>1, <2>2 DEF Collecting
<1>13. Pinging => Pinging'
  <2> SUFFICES ASSUME Pinging PROVE Pinging'
    OBVIOUS
  <2>1. ASSUME NEW u \in Subs, Going(u) PROVE AskedNow(u)' <=> AskedNow(u)
    <3>1. CASE u = s
      <4>1. h \in AckAcks
        BY <1>1, <1>7, <2>1, <3>1 DEF Going
      <4> QED
        BY <1>3, <1>6, <1>8, <3>1, <4>1, Kinds DEF AskedNow
    <3>2. CASE u # s
      BY <1>6, <3>2 DEF AskedNow
    <3> QED
      BY <3>1, <3>2
  <2>2. Heard' <=> Heard
    BY <1>1 DEF Heard
  <2>3. \A u \in Subs : Going(u) /\ Turn(u) => Turn(u)'
    BY <1>1, <2>1, <2>2 DEF Turn, validate_ping_ack
  <2>4. Answered => Answered'
    BY <1>1, <1>8, <1>11, <2>1, <2>2 DEF Answered, validate_ping_ack
  <2>5. cur' # NoAddr => Answered' \/ \E u \in Subs : Going(u)' /\ own'[u] = cur' /\ Turn(u)'
    BY <1>1, <1>8, <2>3, <2>4 DEF Pinging
  <2>6. /\ pass' = 2 => \A a \in results' : HasDone(a)'
        /\ \A t \in Subs : Going(t)' /\ own'[t] \in todo' => oks'[t] = pass' - 1
        /\ \A t \in Subs : Going(t)' /\ own'[t] \in results' => oks'[t] = pass'
    BY <1>1, <1>8, <1>11 DEF Pinging
  <2>7. /\ \A t \in Subs : Msgs(sq'[t]) \cap Initials = {}
        /\ \A t \in Subs : \A m \in Msgs(sq'[t]) \cap Pings : m.rnd = rnd' /\ own'[t] = cur'
    BY <1>1, <1>8 DEF Pinging
  <2> QED
    BY <1>1, <1>10, <2>5, <2>6, <2>7 DEF Pinging
<1> QED
  BY <1>1, <1>8, <1>9, <1>10, <1>11, <1>12, <1>13 DEF LInv

(* Any message but a ping ends the attempt: while the dom collects that is *)
(* the offer.                                                              *)
LEMMA PingedLInv ==
  ASSUME IInv, LInv, NEW s \in Subs, SubPinged(s)
  PROVE  LInv'
<1> DEFINE h == Head(sq[s])
           q == Tail(sq[s])
<1>1. /\ st[s] = "pingwait" /\ ack[s] = {} /\ sq[s] # << >>
      /\ ack' = [ack EXCEPT ![s] = generate_ping_ack(h, s)]
      /\ UNCHANGED <<lossy, released, active, phase, rnd, offers, resps, pass, todo, cur, got,
                     results, dq, own, oks>>
  BY DEF SubPinged, Receive, domVars, roundVars, history
<1>2. /\ sq[s] \in Seq(ToSubs) /\ h \in ToSubs /\ h \in Msgs(sq[s])
      /\ q \in Seq(ToSubs) /\ Msgs(q) \subseteq Msgs(sq[s])
  BY <1>1, SubFacts
<1>3. /\ Line(q) /\ h \notin AckAcks /\ (h \in Pings => Msgs(q) = {})
  BY <1>1, <1>2, LineReceived DEF LInv, InLine
<1>4. ack'[s] = generate_ping_ack(h, s)
  BY <1>1 DEF IInv, TypeOK
<1>5. IF ack'[s] = {} THEN /\ st' = [st EXCEPT ![s] = "failed"] /\ sq' = [sq EXCEPT ![s] = << >>]
                      ELSE sq' = [sq EXCEPT ![s] = q] /\ st' = st
  BY DEF SubPinged
<1> HIDE DEF h, q
<1>6. /\ \A t \in Subs : t # s => /\ st'[t] = st[t] /\ sq'[t] = sq[t]
                                  /\ ack'[t] = ack[t] /\ own'[t] = own[t]
      /\ IF ack'[s] = {} THEN st'[s] = "failed" /\ sq'[s] = << >>
                         ELSE st'[s] = "pingwait" /\ sq'[s] = q
  BY <1>1, <1>5 DEF IInv, TypeOK
<1>7. ~Rest
  BY <1>1, <1>2, <1>3 DEF Rest, Still
<1>8. CASE phase = "collect"
  <2>1. ack'[s] = {}
    <3>1. h \notin Pings
      BY <1>2, <1>8 DEF LInv, Collecting
    <3> QED
      BY <1>2, <1>4, <3>1, Kinds DEF generate_ping_ack
  <2>2. ack' = ack
    BY <1>1, <2>1 DEF IInv, TypeOK
  <2> QED
    BY <1>1, <1>5, <2>1, <2>2, GivesUp
<1>9. CASE phase = "ping"
  <2>1. Pinging /\ cur # NoAddr
    BY <1>7, <1>9 DEF LInv, Pinging
  <2>2. h \in Pings /\ h.rnd = rnd /\ own[s] = cur /\ AskedNow(s) /\ Going(s)
    <3>1. h \in Pings
      BY <1>2, <1>3, <2>1 DEF ToSubs, Pinging
    <3> QED
      BY <1>1, <1>2, <2>1, <3>1 DEF Pinging, AskedNow, Going
  <2>3. Turn(s)
    <3>1. ~Answered
      BY <2>2 DEF Answered
    <3>2. PICK u \in Subs : Going(u) /\ own[u] = cur /\ Turn(u)
      BY <2>1, <3>1 DEF Pinging
    <3>3. u = s
      BY <2>2, <3>2 DEF Chosen, LInv, OneEach
    <3> QED
      BY <3>2, <3>3
  <2>4. /\ ack'[s] = {[type |-> "pingack", addr |-> own[s], from |-> s, rnd |-> rnd]}
        /\ st'[s] = "pingwait" /\ sq'[s] = q /\ Msgs(q) = {}
    <3>1. h.type = "ping"
      BY <1>2, <2>2, Kinds
    <3>2. ack'[s] = {[type |-> "pingack", addr |-> own[s], from |-> s, rnd |-> rnd]}
      BY <1>4, <2>2, <3>1 DEF generate_ping_ack
    <3> QED
      BY <1>3, <1>6, <2>2, <3>2
  <2>5. Turn(s)'
    <3>1. ~Heard'
      BY <1>1, <2>3 DEF Turn, Heard
    <3>2. ~AskedNow(s)'
      BY <2>4 DEF AskedNow
    <3>3. \A m \in ack'[s] : validate_ping_ack(m)'
      BY <1>1, <2>4 DEF validate_ping_ack
    <3>4. \A t \in Subs : t # s => ack'[t] = {}
      BY <1>6, <2>3 DEF Turn
    <3>5. oks'[s] = pass' - 1 /\ ack'[s] # {}
      BY <1>1, <2>3, <2>4 DEF Turn
    <3> QED
      BY <3>1, <3>2, <3>3, <3>4, <3>5 DEF Turn
  <2>6. ASSUME NEW t \in Subs
        PROVE  /\ Chosen(t)' <=> Chosen(t)
               /\ Going(t)' <=> Going(t)
               /\ InLine(t)' /\ Replies(t)'
               /\ Msgs(sq'[t]) \subseteq Msgs(sq[t])
    <3>1. CASE t = s
      BY <1>1, <1>3, <2>2, <2>4, <3>1 DEF Chosen, Going, InLine, Replies
    <3>2. CASE t # s
      BY <1>6, <3>2, OtherSub DEF LInv
    <3> QED
      BY <3>1, <3>2
  <2>7. OneEach'
    BY <1>1, <2>6, NoneNew
  <2>8. Listed' /\ Succeeded' /\ \A a : HasDone(a) => HasDone(a)'
    BY <1>1, <1>6, <2>4, NoneDone
  <2>9. Pinging'
    <3>1. /\ \A t \in Subs : Msgs(sq'[t]) \cap Initials = {}
          /\ \A t \in Subs : \A m \in Msgs(sq'[t]) \cap Pings : m.rnd = rnd' /\ own'[t] = cur'
      BY <1>1, <2>1, <2>6 DEF Pinging
    <3>2. \E t \in Subs : Going(t)' /\ own'[t] = cur' /\ Turn(t)'
      BY <1>1, <2>2, <2>5, <2>6
    <3>3. /\ pass' = 2 => \A a \in results' : HasDone(a)'
          /\ \A t \in Subs : Going(t)' /\ own'[t] \in todo' => oks'[t] = pass' - 1
          /\ \A t \in Subs : Going(t)' /\ own'[t] \in results' => oks'[t] = pass'
      BY <1>1, <2>1, <2>6, <2>8 DEF Pinging
    <3> QED
      BY <1>1, <2>1, <3>1, <3>2, <3>3 DEF Pinging
  <2> QED
    BY <1>1, <1>9, <2>6, <2>7, <2>8, <2>9 DEF LInv
<1> QED
  BY <1>7, <1>8, <1>9 DEF LInv, IInv, TypeOK, Offered

(* An answer to an offer goes out while the dom collects, an answer to a   *)
(* ping while it waits for just this one: it finds the dom's queue empty.  *)
LEMMA SendLInv ==
  ASSUME IInv, LInv, ~lossy, NEW s \in Subs, SubSend(s)
  PROVE  LInv'
<1> DEFINE m == CHOOSE n \in ack[s] : TRUE
<1>1. /\ ack[s] # {} /\ ack' = [ack EXCEPT ![s] = {}]
      /\ \/ Len(dq) < TaskDepth /\ dq' = dq \o <<m>>
         \/ Len(dq) = TaskDepth /\ dq' = dq
      /\ oks' = [oks EXCEPT ![s] = IF st[s] = "pingwait" THEN oks[s] + 1 ELSE oks[s]]
      /\ IF Enough(oks'[s])
           THEN /\ st' = [st EXCEPT ![s] = "done"]
                /\ sq' = [sq EXCEPT ![s] = << >>]
           ELSE UNCHANGED <<st, sq>>
      /\ UNCHANGED <<lossy, released, active, phase, rnd, offers, resps, pass, todo, cur, got,
                     results, own>>
  BY DEF SubSend, roundVars, history
<1>2. /\ m \in ack[s] /\ m \in Answers /\ m.from = s
      /\ dq \in Seq(Answers) /\ Len(dq) \in Nat
  BY <1>1, SubFacts, LenProperties DEF IInv, Signed, TypeOK
<1> HIDE DEF m
<1>3. /\ ack'[s] = {}
      /\ oks'[s] = IF st[s] = "pingwait" THEN oks[s] + 1 ELSE oks[s]
      /\ \A t \in Subs : t # s => /\ st'[t] = st[t] /\ sq'[t] = sq[t] /\ oks'[t] = oks[t]
                                  /\ ack'[t] = ack[t] /\ own'[t] = own[t]
      /\ IF Enough(oks'[s]) THEN st'[s] = "done" /\ sq'[s] = << >>
                            ELSE st'[s] = st[s] /\ sq'[s] = sq[s]
  BY <1>1 DEF IInv, TypeOK
<1>4. Msgs(dq \o <<m>>) = Msgs(dq) \cup {m} /\ Len(dq \o <<m>>) = Len(dq) + 1
  BY <1>2, Appended
<1>5. ~Rest
  BY <1>1 DEF Rest, Still
<1>6. CASE phase = "collect"
  <2>1. Collecting
    BY <1>6 DEF LInv
  <2>2. st[s] = "ackwait" /\ m.type = "ack"
    BY <1>2, <2>1 DEF Collecting, LInv, Replies
  <2>3. oks[s] = 0 /\ oks'[s] = 0 /\ ~Enough(0)
    BY <1>3, <2>2 DEF IInv, Counted, Enough
  <2>4. UNCHANGED <<st, sq, own>> /\ oks'[s] = oks[s]
    BY <1>1, <2>3
  <2>5. ASSUME NEW t \in Subs
        PROVE  /\ Chosen(t)' <=> Chosen(t)
               /\ Going(t)' <=> Going(t)
               /\ InLine(t)' /\ Replies(t)'
    <3>1. ack'[t] \subseteq ack[t]
      BY <1>3
    <3> QED
      BY <2>4, <3>1 DEF LInv, Chosen, Going, Takes, InLine, Replies
  <2>6. OneEach'
    BY <1>1, <2>4, <2>5, NoneNew
  <2>7. Collecting'
    <3>1. resps' \cup Msgs(dq') \cup UNION {ack'[t] : t \in Subs}
            \subseteq resps \cup Msgs(dq) \cup UNION {ack[t] : t \in Subs}
      <4>1. Msgs(dq') \subseteq Msgs(dq) \cup ack[s]
        BY <1>1, <1>2, <1>4
      <4>2. \A t \in Subs : ack'[t] \subseteq ack[t]
        BY <1>3
      <4> QED
        BY <1>1, <4>1, <4>2
    <3>2. \A t \in Subs : Going(t)' => OfferLast(sq'[t])
      BY <2>1, <2>4, <2>5 DEF Collecting
    <3> QED
      BY <2>1, <2>4, <3>1, <3>2 DEF Collecting
  <2>8. Listed' /\ Succeeded'
    <3>1. Taken \subseteq Taken'
      BY <1>1, <1>6 DEF Taken
    <3>2. \A t \in Subs : st[t] = "done" => oks'[t] = oks[t]
      BY <1>3, <2>2
    <3> QED
      BY <1>1, <2>4, <3>1, <3>2 DEF LInv, Listed, HasDone, Succeeded
  <2> QED
    BY <1>1, <1>6, <2>5, <2>6, <2>7, <2>8 DEF LInv
<1>7. CASE phase = "ping"
  <2>1. Pinging /\ cur # NoAddr
    BY <1>5, <1>7 DEF LInv, Pinging
  <2>2. Going(s) /\ own[s] = cur /\ Turn(s)
    <3>1. ~Answered
      BY <1>1 DEF Answered
    <3>2. PICK u \in Subs : Going(u) /\ own[u] = cur /\ Turn(u)
      BY <2>1, <3>1 DEF Pinging
    <3>3. u = s
      BY <1>1, <3>2 DEF Turn
    <3> QED
      BY <3>2, <3>3
  <2>3. /\ ~AskedNow(s) /\ dq = << >> /\ ~got /\ oks[s] = pass - 1
        /\ validate_ping_ack(m) /\ \A t \in Subs : ack'[t] = {}
    BY <1>1, <1>2, <1>3, <2>2 DEF Turn, Heard
  <2>4. st[s] = "pingwait"
    BY <1>2, <2>3 DEF LInv, Replies, validate_ping_ack
  <2>5. pass \in {1, 2} /\ oks'[s] = pass
    BY <1>3, <2>3, <2>4 DEF IInv, TypeOK
  <2>6. Msgs(dq) = {} /\ Len(dq) = 0 /\ dq' = dq \o <<m>>
    <3>1. Msgs(<< >>) = {} /\ Len(<< >>) = 0
      BY SubFacts, EmptySeq
    <3>2. Len(dq) # TaskDepth
      BY <2>3, <3>1, TaskDepthAssumption
    <3> QED
      BY <1>1, <2>3, <3>1, <3>2
  <2>7. Msgs(dq') = {m} /\ Len(dq') = 1
    BY <1>4, <2>6
  <2>8. dq' # << >>
    BY <2>7, EmptySeq
  <2>9. IF pass = 2 THEN st'[s] = "done" ELSE st'[s] = "pingwait"
    BY <1>3, <2>4, <2>5 DEF Enough
  <2>10. sq'[s] = << >> \/ sq'[s] = sq[s]
    BY <1>3
  <2>11. Msgs(sq'[s]) \subseteq Msgs(sq[s]) /\ Line(sq'[s])
    BY <2>10, SubFacts, LineEmpty DEF LInv, InLine
  <2>12. ASSUME NEW t \in Subs
         PROVE  /\ Chosen(t)' => Chosen(t)
                /\ Going(t)' => Going(t)
                /\ InLine(t)' /\ Replies(t)'
                /\ Msgs(sq'[t]) \subseteq Msgs(sq[t])
    <3>1. CASE t = s
      BY <1>3, <2>2, <2>4, <2>9, <2>11, <3>1 DEF LInv, Chosen, InLine, Replies
    <3>2. CASE t # s
      BY <1>3, <3>2, OtherSub DEF LInv
    <3> QED
      BY <3>1, <3>2
  <2>13. OneEach'
    BY <1>1, <2>12, NoneNew
  <2>14. \A a : HasDone(a) => HasDone(a)'
    BY <1>1, <1>3, <2>4 DEF HasDone
  <2>15. Answered'
    <3>1. \A n \in Msgs(dq') : validate_ping_ack(n)'
      BY <1>1, <2>3, <2>7 DEF validate_ping_ack
    <3>2. ~AskedNow(s)'
      BY <2>3, <2>11 DEF AskedNow
    <3>3. \A t \in Subs : Going(t) /\ own[t] = cur => t = s
      BY <2>2 DEF LInv, OneEach, Chosen
    <3>4. pass = 2 => HasDone(cur)'
      BY <1>1, <2>2, <2>9 DEF HasDone
    <3>5. Heard' /\ ~got'
      BY <1>1, <2>3, <2>8 DEF Heard
    <3> QED
      BY <1>1, <2>3, <2>5, <2>7, <2>12, <3>1, <3>2, <3>3, <3>4, <3>5 DEF Answered
  <2>16. Pinging'
    <3>1. /\ \A t \in Subs : Msgs(sq'[t]) \cap Initials = {}
          /\ \A t \in Subs : \A n \in Msgs(sq'[t]) \cap Pings : n.rnd = rnd' /\ own'[t] = cur'
      BY <1>1, <2>1, <2>12 DEF Pinging
    <3>2. \A t \in Subs : own[t] \in todo \cup results => oks'[t] = oks[t]
      BY <1>3, <2>1, <2>2 DEF Pinging
    <3>3. /\ pass' = 2 => \A a \in results' : HasDone(a)'
          /\ \A t \in Subs : Going(t)' /\ own'[t] \in todo' => oks'[t] = pass' - 1
          /\ \A t \in Subs : Going(t)' /\ own'[t] \in results' => oks'[t] = pass'
      BY <1>1, <2>1, <2>12, <2>14, <3>2 DEF Pinging
    <3> QED
      BY <1>1, <2>1, <2>15, <3>1, <3>3 DEF Pinging
  <2>17. Listed'
    BY <1>1, <2>14 DEF LInv, Listed
  <2>18. Succeeded'
    <3>1. Taken \subseteq Taken'
      BY <1>1, <2>3 DEF Taken, Heard, Cur
    <3>2. pass = 2 => own'[s] \in Taken'
      BY <1>1, <1>7, <2>1, <2>2, <2>8 DEF Taken, Heard, Cur
    <3> QED
      BY <1>1, <1>3, <2>5, <2>9, <3>1, <3>2 DEF LInv, Succeeded
  <2> QED
    BY <1>1, <1>7, <2>12, <2>13, <2>16, <2>17, <2>18 DEF LInv
<1> QED
  BY <1>5, <1>6, <1>7 DEF LInv, IInv, TypeOK, Offered

-----------------------------------------------------------------------------
LEMMA StepLossless ==
  ASSUME IInv, Lossless, [Next]_vars, TaskDepth >= 2
  PROVE  Lossless'
<1> SUFFICES ASSUME ~lossy', late' = 0
             PROVE  LInv'
  BY DEF Lossless
<1>1. ~lossy /\ LInv
  <2>1. lossy => lossy'
    BY DEF Next, vars, history, DomStep, DomBroadcast, DomCollect, DomAckAck, DomPing,
           DomPingFails, DomPingHear, DomPingEnd, DomSecondPass, DomCommit, DomRelease,
           FaultsBegin, Boot, SubStep, SubChoose, SubAckAck, SubPinged, SubSend, SubSendFails,
           SubTimeout
  <2>2. late' = late \/ late' = late + 1
    BY DEF Next, vars, history, WaitEnds, DomStep, DomBroadcast, DomCollect, DomAckAck, DomPing,
           DomPingFails, DomPingHear, DomPingEnd, DomSecondPass, DomCommit, DomRelease,
           FaultsBegin, Boot, SubStep, SubChoose, SubAckAck, SubPinged, SubSend, SubSendFails,
           SubTimeout
  <2>3. late \in Nat
    BY DEF IInv, TypeOK
  <2>4. late = 0
    BY <2>2, <2>3
  <2> QED
    BY <2>1, <2>4 DEF Lossless
<1>2. CASE DomStep
  BY <1>1, <1>2, BroadcastLInv, CollectLInv, AckAckLInv, PingLInv, HearLInv, PingEndLInv,
     SecondPassLInv, CommitLInv DEF DomStep, DomPingFails
<1>3. CASE DomRelease
  <2>1. /\ active' \subseteq active /\ released \subseteq released'
        /\ active \subseteq active' \cup released'
        /\ UNCHANGED <<phase, rnd, offers, resps, pass, todo, cur, got, results, dq,
                       st, own, ack, oks, sq>>
    BY <1>3 DEF DomRelease, roundVars, subVars
  <2> QED
    BY <1>1, <2>1, TableStays
<1>4. CASE FaultsBegin
  BY <1>4 DEF FaultsBegin
<1>5. CASE \E s \in Subs : Boot(s) \/ SubStep(s) \/ SubTimeout(s)
  BY <1>1, <1>5, BootLInv, ChooseLInv, AckAckHeardLInv, PingedLInv, SendLInv, TimeoutLInv
     DEF SubStep, SubSendFails
<1>6. CASE UNCHANGED vars
  BY <1>1, <1>6, TableStays DEF vars, domVars, roundVars, subVars, history
<1> QED
  BY <1>2, <1>3, <1>4, <1>5, <1>6 DEF Next

LEMMA LosslessAlways ==
  ASSUME TaskDepth >= 2
  PROVE  Spec => []Lossless
<1>1. Init => Lossless
  BY InitLInv DEF Lossless
<1>2. IInv /\ Lossless /\ [Next]_vars => Lossless'
  BY StepLossless
<1> QED
  BY <1>1, <1>2, Invariance, PTL DEF Spec

(* Until something is lost or comes too late for a wait of the dom, no two *)
(* devices that were acknowledged have the same address, in no round and   *)
(* not across rounds, unless it was released in between.                   *)
THEOREM AddressesAreUnique ==
  ASSUME TaskDepth >= 2
  PROVE  Spec => []UniqueAddress
<1>1. Lossless => UniqueAddress
  BY DEF Lossless, LInv, OneEach, Chosen, Going, UniqueAddress
<1> QED
  BY <1>1, LosslessAlways, PTL

(* Until then the active addresses are, between rounds and but for those   *)
(* released, those of the devices that succeeded, no more and no less,     *)
(* whichever devices gave up on the way.                                   *)
THEOREM TableAgrees ==
  ASSUME TaskDepth >= 2
  PROVE  Spec => []Agreement
<1>1. Lossless => Agreement
  BY DEF Lossless, LInv, Listed, HasDone, Succeeded, Taken, Agreement
<1> QED
  BY <1>1, LosslessAlways, PTL
=============================================================================
