-------------------------- MODULE DiscoveryProofs --------------------------
(***************************************************************************)
(* Discovery, for any devices, addresses and depth of the queues, whatever *)
(* is lost, late or released: the commit never panics, an address in the   *)
(* table is one that some device has, and it has cost two answers.         *)
(*                                                                         *)
(* The first two rest on a device never giving up the address it took: a   *)
(* message it signed with it stays true for ever.                          *)
(***************************************************************************)
EXTENDS Discovery, FiniteSetTheorems, SequenceTheorems, TLAPS

Msgs(q) == {q[n] : n \in 1 .. Len(q)}

ToSubs == Initials \cup AckAcks \cup Pings

(* A sub has an address from its first answer on, and until then only      *)
(* offers reach it.                                                        *)
Assigned ==
  \A s \in Subs :
    IF st[s] \in {"off", "search"}
      THEN own[s] = NoAddr /\ ack[s] = {} /\ oks[s] = 0 /\ Msgs(sq[s]) \subseteq Initials
      ELSE own[s] \in Addrs

Counted == \A s \in Subs : /\ st[s] = "ackwait" => oks[s] = 0
                           /\ st[s] = "pingwait" => oks[s] <= 1

(* An answer bears the address of its sender. *)
Signed == /\ \A s \in Subs : \A m \in ack[s] : m.from = s /\ m.addr = own[s]
          /\ \A m \in resps \cup Msgs(dq) : own[m.from] = m.addr

Cur == {cur} \ {NoAddr}

Held(A) == \A a \in A : \E s \in Subs : own[s] = a

AllHeld == Held(active \cup todo \cup results \cup Cur)

(* What is pinged in a round was offered in it, and nothing offered is     *)
(* active.                                                                 *)
Offered == /\ phase \in {"collect", "ping"} => offers \cap active = {}
           /\ phase = "ping" => todo \cup results \cup Cur \subseteq offers
           /\ phase # "ping" => cur = NoAddr
           /\ phase # "panic"

(* The history variables, which move by themselves. *)
HistoryOK == /\ lossy \in BOOLEAN /\ late \in 0 .. MaxLate
             /\ gaveup \in BOOLEAN /\ released \subseteq Addrs

IInv == TypeOK /\ Assigned /\ Counted /\ Signed /\ AllHeld /\ Offered

LEMMA HistoryTyped == IInv /\ [Next]_vars => HistoryOK'
<1> SUFFICES ASSUME IInv, [Next]_vars PROVE HistoryOK'
  OBVIOUS
<1> USE DEF HistoryOK, history
<1>1. HistoryOK /\ active \subseteq Addrs
  BY DEF IInv, TypeOK
<1>2. WaitEnds => late' \in 0 .. MaxLate
  <2>1. late \in 0 .. MaxLate /\ MaxLate \in Nat
    BY <1>1, MaxLateAssumption
  <2>2. late < MaxLate => late + 1 \in 0 .. MaxLate
    BY <2>1
  <2> QED
    BY <2>1, <2>2 DEF WaitEnds
<1>3. CASE DomStep
  BY <1>1, <1>2, <1>3 DEF DomStep, DomBroadcast, DomCollect, DomAckAck, DomPing, DomPingFails,
     DomPingHear, DomPingEnd, DomSecondPass, DomCommit
<1>4. CASE DomRelease \/ FaultsBegin
  BY <1>1, <1>4 DEF DomRelease, FaultsBegin
<1>5. ASSUME NEW s \in Subs, Boot(s) \/ SubStep(s) \/ SubTimeout(s)
      PROVE  HistoryOK'
  BY <1>1, <1>5 DEF Boot, SubStep, SubTimeout, SubChoose, SubAckAck, SubPinged, SubSend,
     SubSendFails
<1>6. CASE UNCHANGED vars
  BY <1>1, <1>6 DEF vars
<1> QED
  BY <1>3, <1>4, <1>5, <1>6 DEF Next

-----------------------------------------------------------------------------
(* Queues. *)
LEMMA Appended ==
  ASSUME NEW E, NEW q \in Seq(E), NEW e \in E
  PROVE  /\ q \o <<e>> \in Seq(E)
         /\ Len(q \o <<e>>) = Len(q) + 1
         /\ \A n \in 1 .. Len(q) : (q \o <<e>>)[n] = q[n]
         /\ (q \o <<e>>)[Len(q) + 1] = e
         /\ Msgs(q \o <<e>>) = Msgs(q) \cup {e}
<1> DEFINE r == Append(q, e)
<1>1. r = q \o <<e>>
  BY AppendIsConcat
<1>2. /\ r \in Seq(E) /\ Len(r) = Len(q) + 1
      /\ \A n \in 1 .. Len(q) : r[n] = q[n]
      /\ r[Len(q) + 1] = e
  BY AppendProperties
<1> HIDE DEF r
<1>3. Len(q) \in Nat
  BY LenProperties
<1>4. Msgs(r) = Msgs(q) \cup {e}
  <2>1. \A n \in 1 .. Len(q) + 1 : n \in 1 .. Len(q) \/ n = Len(q) + 1
    BY <1>3
  <2>2. \A n \in 1 .. Len(q) : n \in 1 .. Len(q) + 1
    BY <1>3
  <2>3. Len(q) + 1 \in 1 .. Len(q) + 1
    BY <1>3
  <2> QED
    BY <1>2, <2>1, <2>2, <2>3 DEF Msgs
<1> QED
  BY <1>1, <1>2, <1>4

LEMMA Received ==
  ASSUME NEW E, NEW q \in Seq(E), q # << >>
  PROVE  /\ Head(q) \in E /\ Head(q) \in Msgs(q) /\ Head(q) = q[1]
         /\ Tail(q) \in Seq(E) /\ Len(q) \in Nat /\ Len(Tail(q)) = Len(q) - 1
         /\ \A n \in 1 .. Len(Tail(q)) : Tail(q)[n] = q[n + 1] /\ n + 1 \in 1 .. Len(q)
         /\ Msgs(Tail(q)) \subseteq Msgs(q)
<1>1. /\ Head(q) \in E /\ Tail(q) \in Seq(E) /\ Len(Tail(q)) = Len(q) - 1
      /\ \A n \in 1 .. Len(Tail(q)) : Tail(q)[n] = q[n + 1]
  BY HeadTailProperties
<1>2. Len(q) \in Nat /\ Len(q) # 0
  BY EmptySeq
<1>3. Head(q) = q[1]
  OBVIOUS
<1>4. \A n \in 1 .. Len(Tail(q)) : n + 1 \in 1 .. Len(q)
  BY <1>1, <1>2
<1>5. 1 \in 1 .. Len(q)
  BY <1>2
<1> QED
  BY <1>1, <1>2, <1>3, <1>4, <1>5 DEF Msgs

LEMMA InQueue ==
  ASSUME NEW E, NEW q \in Seq(E)
  PROVE  Msgs(q) \subseteq E /\ (q = << >> => Msgs(q) = {})
<1>1. Msgs(q) \subseteq E
  BY ElementOfSeq DEF Msgs
<1>2. q = << >> => Msgs(q) = {}
  <2>1. Len(<< >>) = 0
    BY EmptySeq
  <2>2. 1 .. 0 = {}
    OBVIOUS
  <2> QED
    BY <2>1, <2>2 DEF Msgs
<1> QED
  BY <1>1, <1>2

(* A message reaches the queue of a sub or not. *)
LEMMA Delivered ==
  ASSUME TypeOK, NEW msg, Deliver(msg), \A s \in Subs : msg[s] \subseteq ToSubs
  PROVE  /\ sq' \in [Subs -> Seq(ToSubs)]
         /\ \A s \in Subs :
              \/ sq'[s] = sq[s]
              \/ /\ st[s] \in Listening
                 /\ \E m \in msg[s] : /\ sq'[s] = sq[s] \o <<m>>
                                      /\ Msgs(sq'[s]) = Msgs(sq[s]) \cup {m}
<1>1. PICK heard \in SUBSET Subs :
        sq' = [s \in Subs |->
                 IF s \in heard /\ st[s] \in Listening /\ Len(sq[s]) < TaskDepth
                   THEN sq[s] \o (IF msg[s] = {} THEN << >> ELSE <<CHOOSE m \in msg[s] : TRUE>>)
                   ELSE sq[s]]
  BY DEF Deliver
<1>2. ASSUME NEW s \in Subs
      PROVE  \/ sq'[s] = sq[s]
             \/ /\ st[s] \in Listening
                /\ \E m \in msg[s] : sq'[s] = sq[s] \o <<m>>
  <2>1. sq[s] \in Seq(ToSubs)
    BY DEF TypeOK, ToSubs
  <2>2. sq[s] \o << >> = sq[s]
    BY <2>1, ConcatEmptySeq
  <2>3. msg[s] # {} => (CHOOSE m \in msg[s] : TRUE) \in msg[s]
    OBVIOUS
  <2> QED
    BY <1>1, <2>2, <2>3
<1>3. ASSUME NEW s \in Subs
      PROVE  /\ sq'[s] \in Seq(ToSubs)
             /\ \A m \in msg[s] : sq'[s] = sq[s] \o <<m>> => Msgs(sq'[s]) = Msgs(sq[s]) \cup {m}
  <2>1. sq[s] \in Seq(ToSubs)
    BY DEF TypeOK, ToSubs
  <2>2. \A m \in ToSubs : /\ sq[s] \o <<m>> \in Seq(ToSubs)
                          /\ Msgs(sq[s] \o <<m>>) = Msgs(sq[s]) \cup {m}
    BY <2>1, Appended
  <2> QED
    BY <1>2, <2>1, <2>2
<1>4. sq' = [s \in Subs |-> sq'[s]]
  BY <1>1
<1> QED
  BY <1>2, <1>3, <1>4
-----------------------------------------------------------------------------
LEMMA InitIInv == Init => IInv
<1> SUFFICES ASSUME Init PROVE IInv
  OBVIOUS
<1> USE DEF Init
<1>1. << >> \in Seq(Answers) /\ Len(<< >>) = 0 /\ << >> \in Seq(ToSubs) /\ Msgs(<< >>) = {}
  BY EmptySeq, InQueue
<1>2. TypeOK
  <2>1. dq \in Seq(Answers) /\ Len(dq) <= TaskDepth
    BY <1>1, TaskDepthAssumption
  <2>2. rnd \in 0 .. MaxRnd /\ oks \in [Subs -> 0 .. 2] /\ late \in 0 .. MaxLate
    BY MaxRndAssumption, MaxLateAssumption
  <2>3. sq \in [Subs -> Seq(Initials \cup AckAcks \cup Pings)]
    BY <1>1 DEF ToSubs
  <2>4. st \in [Subs -> SubStates] /\ own \in [Subs -> Addrs \cup {NoAddr}]
        /\ ack \in [Subs -> SUBSET Answers]
    BY DEF SubStates
  <2> QED
    BY <2>1, <2>2, <2>3, <2>4 DEF TypeOK
<1>3. Assigned /\ Counted
  BY <1>1 DEF Assigned, Counted
<1>4. Signed
  BY <1>1 DEF Signed
<1>5. AllHeld /\ Offered
  BY DEF AllHeld, Held, Cur, Offered
<1> QED
  BY <1>2, <1>3, <1>4, <1>5 DEF IInv

(* What the dom does leaves the subs' part of the invariant as it was,     *)
(* whatever it sends them: offers, or messages to an address.              *)
LEMMA DomSends ==
  ASSUME IInv, NEW msg, Deliver(msg), UNCHANGED <<st, own, ack, oks>>,
         \A s \in Subs : msg[s] \subseteq ToSubs,
         \A s \in Subs : own[s] = NoAddr => msg[s] \subseteq Initials
  PROVE  /\ sq' \in [Subs -> Seq(ToSubs)]
         /\ Assigned' /\ Counted'
<1>1. /\ sq' \in [Subs -> Seq(ToSubs)]
      /\ \A s \in Subs :
           \/ sq'[s] = sq[s]
           \/ \E m \in msg[s] : Msgs(sq'[s]) = Msgs(sq[s]) \cup {m}
  BY Delivered DEF IInv
<1>2. ASSUME NEW s \in Subs, st[s] \in {"off", "search"}
      PROVE  Msgs(sq'[s]) \subseteq Initials
  <2>1. own[s] = NoAddr /\ Msgs(sq[s]) \subseteq Initials
    BY <1>2 DEF IInv, Assigned
  <2>2. msg[s] \subseteq Initials
    BY <2>1
  <2> QED
    BY <1>1, <2>1, <2>2
<1>3. Assigned'
  BY <1>2 DEF IInv, Assigned
<1>4. Counted'
  BY DEF IInv, Counted
<1> QED
  BY <1>1, <1>3, <1>4

LEMMA SubsSame ==
  ASSUME IInv, UNCHANGED subVars
  PROVE  /\ Assigned' /\ Counted'
         /\ sq' \in [Subs -> Seq(ToSubs)]
BY DEF IInv, Assigned, Counted, subVars, TypeOK, HistoryOK, ToSubs

(* The conjuncts about both sides, when the dom moves. *)
LEMMA SignedDom ==
  ASSUME IInv, UNCHANGED <<own, ack>>, resps' \cup Msgs(dq') \subseteq resps \cup Msgs(dq)
  PROVE  Signed'
BY DEF IInv, Signed

LEMMA HeldDom ==
  ASSUME IInv, UNCHANGED own, NEW A, A \subseteq active \cup todo \cup results \cup Cur \cup Accepted
  PROVE  Held(A)'
<1>1. \A m \in Valid : m.from \in Subs /\ own[m.from] = m.addr
  BY DEF Valid, IInv, Signed, TypeOK, HistoryOK, Answers
<1>2. Held(Accepted)
  BY <1>1 DEF Accepted, Held
<1> QED
  BY <1>2 DEF IInv, AllHeld, Held

LEMMA AcceptedOffered == Accepted \subseteq offers /\ (TypeOK => Accepted \subseteq Addrs)
BY DEF Accepted, Valid, TypeOK, HistoryOK

LEMMA DomBroadcastIInv ==
  ASSUME IInv, HistoryOK', DomBroadcast
  PROVE  IInv'
<1>1. PICK r \in 0 .. MaxRnd : rnd' = r
  BY DEF history, DomBroadcast
<1>2. /\ phase = "idle" /\ phase' = "collect"
      /\ offers' = Addrs \ active /\ resps' = {}
      /\ UNCHANGED <<lossy, active, pass, todo, cur, got, results, dq, st, own, ack, oks>>
  BY DEF history, DomBroadcast, get_available_addrs
<1> DEFINE m == [type |-> "initial", rnd |-> r, offers |-> Addrs \ active]
<1>3. m \in Initials
  BY DEF Initials
<1> DEFINE msg == [s \in Subs |-> {m}]
<1>4. Deliver(msg)
  BY <1>1, <1>2 DEF history, DomBroadcast
<1>5. \A s \in Subs : msg[s] \subseteq ToSubs /\ msg[s] \subseteq Initials
  BY <1>3 DEF ToSubs
<1> HIDE DEF m, msg
<1>6. sq' \in [Subs -> Seq(ToSubs)] /\ Assigned' /\ Counted'
  BY <1>2, <1>4, <1>5, DomSends
<1>7. TypeOK'
  BY <1>1, <1>2, <1>6 DEF IInv, TypeOK, HistoryOK, ToSubs
<1>8. Signed'
  BY <1>2, SignedDom
<1>9. AllHeld' /\ Offered'
  BY <1>2 DEF IInv, AllHeld, Held, Cur, Offered
<1> QED
  BY <1>6, <1>7, <1>8, <1>9 DEF IInv

LEMMA DomCollectIInv ==
  ASSUME IInv, HistoryOK', DomCollect
  PROVE  IInv'
<1>1. /\ phase = "collect" /\ dq # << >>
      /\ resps' = resps \cup {Head(dq)} /\ dq' = Tail(dq)
      /\ UNCHANGED <<lossy, active, phase, rnd, offers, pass, todo, cur, got, results, subVars>>
  BY DEF history, DomCollect
<1>2. /\ Head(dq) \in Answers /\ Head(dq) \in Msgs(dq)
      /\ Tail(dq) \in Seq(Answers) /\ Len(dq) \in Nat /\ Len(Tail(dq)) = Len(dq) - 1
      /\ Msgs(Tail(dq)) \subseteq Msgs(dq)
  BY <1>1, Received DEF IInv, TypeOK, HistoryOK
<1>3. Len(Tail(dq)) <= TaskDepth
  BY <1>2, TaskDepthAssumption DEF IInv, TypeOK, HistoryOK
<1>4. TypeOK'
  BY <1>1, <1>2, <1>3 DEF IInv, TypeOK, HistoryOK, subVars
<1>5. Assigned' /\ Counted' /\ Signed'
  BY <1>1, <1>2, SubsSame, SignedDom DEF subVars
<1>6. AllHeld' /\ Offered'
  BY <1>1 DEF IInv, AllHeld, Held, Cur, Offered, subVars
<1> QED
  BY <1>4, <1>5, <1>6 DEF IInv

LEMMA AckAckType ==
  ASSUME IInv, NEW sent \in SUBSET Accepted, NEW s \in Subs
  PROVE  /\ AckAckFor(sent, s) \subseteq AckAcks
         /\ own[s] = NoAddr => AckAckFor(sent, s) = {}
<1>1. \A m \in Valid : m.addr \in Addrs /\ m.from \in Subs
  BY DEF Valid, IInv, TypeOK, HistoryOK, Answers
<1> QED
  BY <1>1, SetsAssumption DEF AckAckFor, AckAcks

LEMMA DomAckAckIInv ==
  ASSUME IInv, HistoryOK', DomAckAck
  PROVE  IInv'
<1>1. /\ phase = "collect" /\ resps' = {}
      /\ UNCHANGED <<lossy, active, offers, cur, got, dq, st, own, ack, oks>>
  BY DEF history, DomAckAck
<1>2. /\ rnd' \in 0 .. MaxRnd /\ phase' \in {"idle", "ping"} /\ pass' \in {1, 2}
      /\ \/ UNCHANGED <<todo, results>> /\ phase' = "idle"
         \/ todo' = Accepted /\ results' = {}
      /\ \/ UNCHANGED sq
         \/ \E sent \in SUBSET Accepted : Deliver([s \in Subs |-> AckAckFor(sent, s)])
  <2>1. rnd \in 0 .. MaxRnd /\ pass \in {1, 2}
    BY DEF IInv, TypeOK, HistoryOK
  <2>2. CASE Accepted = {}
    BY <2>1, <2>2 DEF history, DomAckAck
  <2>3. CASE Accepted # {}
    BY <2>1, <2>3 DEF history, DomAckAck
  <2> QED
    BY <2>2, <2>3
<1>3. sq' \in [Subs -> Seq(ToSubs)] /\ Assigned' /\ Counted'
  <2>1. CASE UNCHANGED sq
    BY <1>1, <2>1, SubsSame DEF subVars
  <2>2. ASSUME NEW sent \in SUBSET Accepted, Deliver([s \in Subs |-> AckAckFor(sent, s)])
        PROVE  sq' \in [Subs -> Seq(ToSubs)] /\ Assigned' /\ Counted'
    <3> DEFINE msg == [s \in Subs |-> AckAckFor(sent, s)]
    <3>1. \A s \in Subs : /\ msg[s] \subseteq ToSubs
                          /\ own[s] = NoAddr => msg[s] \subseteq Initials
      BY AckAckType DEF ToSubs
    <3>2. Deliver(msg)
      BY <2>2
    <3> HIDE DEF msg
    <3> QED
      BY <1>1, <3>1, <3>2, DomSends
  <2> QED
    BY <1>2, <2>1, <2>2
<1>4. TypeOK'
  BY <1>1, <1>2, <1>3, AcceptedOffered DEF IInv, TypeOK, HistoryOK, ToSubs
<1>5. Signed'
  BY <1>1, SignedDom
<1>6. AllHeld'
  <2>1. active' \cup todo' \cup results' \cup Cur' \subseteq
          active \cup todo \cup results \cup Cur \cup Accepted
    BY <1>1, <1>2 DEF Cur
  <2> QED
    BY <1>1, <2>1, HeldDom DEF AllHeld, Held
<1>7. Offered'
  BY <1>1, <1>2, AcceptedOffered DEF IInv, Offered, Cur
<1> QED
  BY <1>3, <1>4, <1>5, <1>6, <1>7 DEF IInv

LEMMA DomPingIInv ==
  ASSUME IInv, HistoryOK', DomPing
  PROVE  IInv'
<1>1. PICK a \in todo :
        /\ cur' = a /\ todo' = todo \ {a}
        /\ Deliver([s \in Subs |->
                      {m \in {[type |-> "ping", addr |-> a, rnd |-> rnd]} : own[s] = a}])
  BY DEF history, DomPing
<1>2. /\ phase = "ping" /\ got' = FALSE
      /\ UNCHANGED <<lossy, active, phase, rnd, offers, resps, pass, results, dq,
                     st, own, ack, oks>>
  BY DEF history, DomPing
<1>3. a \in Addrs /\ a # NoAddr /\ rnd \in 0 .. MaxRnd
  BY SetsAssumption DEF IInv, TypeOK, HistoryOK
<1> DEFINE msg == [s \in Subs |->
                     {m \in {[type |-> "ping", addr |-> a, rnd |-> rnd]} : own[s] = a}]
<1>4. \A s \in Subs : /\ msg[s] \subseteq ToSubs
                      /\ own[s] = NoAddr => msg[s] \subseteq Initials
  BY <1>3 DEF ToSubs, Pings
<1>5. Deliver(msg)
  BY <1>1
<1> HIDE DEF msg
<1>6. sq' \in [Subs -> Seq(ToSubs)] /\ Assigned' /\ Counted'
  BY <1>2, <1>4, <1>5, DomSends
<1>7. TypeOK'
  BY <1>1, <1>2, <1>3, <1>6 DEF IInv, TypeOK, HistoryOK, ToSubs
<1>8. Signed'
  BY <1>2, SignedDom
<1>9. AllHeld' /\ Offered'
  BY <1>1, <1>2 DEF IInv, AllHeld, Held, Cur, Offered
<1> QED
  BY <1>6, <1>7, <1>8, <1>9 DEF IInv

LEMMA DomPingHearIInv ==
  ASSUME IInv, HistoryOK', DomPingHear
  PROVE  IInv'
<1>1. /\ phase = "ping" /\ dq # << >> /\ dq' = Tail(dq)
      /\ got' \in BOOLEAN /\ cur' \in {cur, NoAddr}
      /\ UNCHANGED <<lossy, active, phase, rnd, offers, resps, pass, todo, results, subVars>>
  <2>1. got \in BOOLEAN
    BY DEF IInv, TypeOK, HistoryOK
  <2> QED
    BY <2>1 DEF history, DomPingHear, validate_ping_ack
<1>2. /\ Tail(dq) \in Seq(Answers) /\ Len(dq) \in Nat /\ Len(Tail(dq)) = Len(dq) - 1
      /\ Msgs(Tail(dq)) \subseteq Msgs(dq)
  BY <1>1, Received DEF IInv, TypeOK, HistoryOK
<1>3. Len(Tail(dq)) <= TaskDepth
  BY <1>2, TaskDepthAssumption DEF IInv, TypeOK, HistoryOK
<1>4. TypeOK'
  BY <1>1, <1>2, <1>3 DEF IInv, TypeOK, HistoryOK, subVars
<1>5. Assigned' /\ Counted' /\ Signed'
  BY <1>1, <1>2, SubsSame, SignedDom DEF subVars
<1>6. AllHeld' /\ Offered'
  BY <1>1 DEF IInv, AllHeld, Held, Cur, Offered, subVars
<1> QED
  BY <1>4, <1>5, <1>6 DEF IInv

(* The steps of the dom that send and receive nothing. *)
LEMMA DomQuietIInv ==
  ASSUME IInv, HistoryOK', DomPingFails \/ DomPingEnd \/ DomSecondPass \/ DomCommit \/ DomRelease
  PROVE  IInv'
<1>1. UNCHANGED <<lossy, offers, resps, got, dq, subVars>>
  BY DEF history, DomPingFails, DomPingEnd, DomSecondPass, DomCommit, DomRelease, roundVars
<1>2. Assigned' /\ Counted' /\ Signed'
  BY <1>1, SubsSame, SignedDom DEF subVars
<1>3. /\ active' \cup todo' \cup results' \cup Cur' \subseteq
           active \cup todo \cup results \cup Cur \cup Accepted
      /\ rnd' \in 0 .. MaxRnd /\ pass' \in {1, 2}
      /\ cur' \in {cur, NoAddr}
  <2>1. rnd \in 0 .. MaxRnd /\ pass \in {1, 2}
    BY DEF IInv, TypeOK, HistoryOK
  <2> QED
    BY <2>1 DEF history, DomPingFails, DomPingEnd, DomSecondPass, DomCommit, DomRelease, roundVars, Cur
<1>4. AllHeld'
  BY <1>1, <1>3, HeldDom DEF AllHeld, Held, subVars
<1>5. Offered' /\ active' \subseteq Addrs /\ phase' \in {"idle", "collect", "ping"}
  <2>1. active \subseteq Addrs /\ results \subseteq Addrs /\ phase \in {"idle", "collect", "ping"}
    BY DEF IInv, TypeOK, HistoryOK, Offered
  <2>2. CASE DomPingFails \/ DomPingEnd \/ DomSecondPass
    BY <2>1, <2>2, <1>1 DEF history, DomPingFails, DomPingEnd, DomSecondPass, IInv, Offered, Cur
  <2>3. CASE DomCommit
    BY <2>1, <2>3 DEF DomCommit, IInv, Offered, Cur, roundVars
  <2>4. CASE DomRelease
    BY <2>1, <2>4 DEF DomRelease, IInv, Offered, Cur, roundVars
  <2> QED
    BY <2>2, <2>3, <2>4
<1>6. TypeOK'
  <2>1. todo' \subseteq Addrs /\ results' \subseteq Addrs /\ cur' \in Addrs \cup {NoAddr}
    BY <1>3, AcceptedOffered DEF IInv, TypeOK, HistoryOK, DomPingFails, DomPingEnd, DomSecondPass, DomCommit,
                DomRelease, roundVars
  <2> QED
    BY <1>1, <1>3, <1>5, <2>1 DEF IInv, TypeOK, HistoryOK, subVars
<1> QED
  BY <1>2, <1>4, <1>5, <1>6 DEF IInv
-----------------------------------------------------------------------------
(* The steps of one sub. *)
LEMMA SubFacts ==
  ASSUME IInv, NEW s \in Subs
  PROVE  /\ sq[s] \in Seq(ToSubs) /\ st[s] \in SubStates /\ ack[s] \subseteq Answers
         /\ own[s] \in Addrs \cup {NoAddr} /\ oks[s] \in 0 .. 2
         /\ << >> \in Seq(ToSubs) /\ Msgs(<< >>) = {}
         /\ sq[s] # << >> => /\ Head(sq[s]) \in ToSubs /\ Head(sq[s]) \in Msgs(sq[s])
                             /\ Tail(sq[s]) \in Seq(ToSubs)
                             /\ Msgs(Tail(sq[s])) \subseteq Msgs(sq[s])
<1>1. sq[s] \in Seq(ToSubs)
  BY DEF IInv, TypeOK, HistoryOK, ToSubs
<1> QED
  BY <1>1, Received, EmptySeq, InQueue DEF IInv, TypeOK, HistoryOK

(* One sub that has an address, and keeps it, moves.  The dom's queue may  *)
(* get its answer. *)
LEMMA SubMoves ==
  ASSUME IInv, HistoryOK', NEW s \in Subs,
         NEW state \in SubStates \ {"off", "search"}, NEW answers \in SUBSET Answers,
         NEW count \in 0 .. 2, NEW q \in Seq(ToSubs),
         st[s] \notin {"off", "search"},
         st' = [st EXCEPT ![s] = state], ack' = [ack EXCEPT ![s] = answers],
         oks' = [oks EXCEPT ![s] = count], sq' = [sq EXCEPT ![s] = q],
         state = "ackwait" => count = 0, state = "pingwait" => count <= 1,
         \A m \in answers : m.from = s /\ m.addr = own[s],
         dq' \in Seq(Answers), Len(dq') <= TaskDepth,
         Msgs(dq') \subseteq Msgs(dq) \cup ack[s],
         UNCHANGED <<lossy, active, phase, roundVars, own>>
  PROVE  IInv'
<1>1. TypeOK'
  BY DEF IInv, TypeOK, HistoryOK, ToSubs, roundVars
<1>2. Assigned' /\ Counted'
  BY DEF IInv, Assigned, Counted, TypeOK, HistoryOK
<1>3. Signed'
  <2>1. \A t \in Subs : \A m \in ack'[t] : m.from = t /\ m.addr = own[t]
    BY DEF IInv, Signed, TypeOK, HistoryOK
  <2>2. \A m \in resps \cup Msgs(dq') : own[m.from] = m.addr
    BY DEF IInv, Signed
  <2> QED
    BY <2>1, <2>2 DEF Signed, roundVars
<1>4. AllHeld' /\ Offered'
  BY DEF IInv, AllHeld, Held, Cur, Offered, roundVars
<1> QED
  BY <1>1, <1>2, <1>3, <1>4 DEF IInv

LEMMA BootIInv ==
  ASSUME IInv, HistoryOK', NEW s \in Subs, Boot(s)
  PROVE  IInv'
<1>1. /\ st[s] = "off" /\ st' = [st EXCEPT ![s] = "search"]
      /\ UNCHANGED <<lossy, domVars, own, ack, oks, sq>>
  BY DEF history, Boot
<1>2. TypeOK'
  BY <1>1 DEF IInv, TypeOK, HistoryOK, domVars, roundVars, SubStates
<1>3. Assigned' /\ Counted' /\ Signed'
  BY <1>1 DEF IInv, TypeOK, HistoryOK, Assigned, Counted, Signed, domVars, roundVars
<1>4. AllHeld' /\ Offered'
  BY <1>1 DEF IInv, AllHeld, Held, Cur, Offered, domVars, roundVars
<1> QED
  BY <1>2, <1>3, <1>4 DEF IInv

LEMMA SubChooseIInv ==
  ASSUME IInv, HistoryOK', NEW s \in Subs, SubChoose(s)
  PROVE  IInv'
<1>1. /\ st[s] = "search" /\ sq[s] # << >> /\ own[s] = NoAddr /\ oks[s] = 0
      /\ Head(sq[s]) \in Initials /\ Tail(sq[s]) \in Seq(ToSubs)
  <2>1. st[s] = "search" /\ sq[s] # << >>
    BY DEF history, SubChoose, Receive
  <2>2. Msgs(sq[s]) \subseteq Initials /\ own[s] = NoAddr /\ oks[s] = 0
    BY <2>1 DEF IInv, Assigned
  <2> QED
    BY <2>1, <2>2, SubFacts
<1>2. PICK a \in Head(sq[s]).offers :
        /\ own' = [own EXCEPT ![s] = a]
        /\ ack' = [ack EXCEPT ![s] = {[type |-> "ack", addr |-> a, from |-> s,
                                       rnd |-> Head(sq[s]).rnd]}]
  BY DEF history, SubChoose
<1> DEFINE m == [type |-> "ack", addr |-> a, from |-> s, rnd |-> Head(sq[s]).rnd]
<1>3. /\ st' = [st EXCEPT ![s] = "ackwait"] /\ sq' = [sq EXCEPT ![s] = Tail(sq[s])]
      /\ UNCHANGED <<lossy, domVars, oks>>
  BY DEF history, SubChoose
<1>4. a \in Addrs /\ Head(sq[s]).rnd \in 0 .. MaxRnd
  BY <1>1 DEF Initials
<1>5. m \in Answers /\ m.from = s /\ m.addr = a
  BY <1>4 DEF Answers
<1> HIDE DEF m
<1>6. TypeOK'
  BY <1>1, <1>2, <1>3, <1>4, <1>5 DEF IInv, TypeOK, HistoryOK, domVars, roundVars, SubStates, ToSubs, m
<1>7. Assigned' /\ Counted'
  BY <1>1, <1>2, <1>3, <1>4, SetsAssumption DEF IInv, TypeOK, HistoryOK, Assigned, Counted
<1>8. Signed'
  <2>0. resps \cup Msgs(dq) \subseteq Answers
    BY InQueue DEF IInv, TypeOK, HistoryOK
  <2>1. \A n \in resps \cup Msgs(dq) : n.from \in Subs /\ n.addr \in Addrs /\ own[n.from] = n.addr
    BY <2>0 DEF IInv, Signed, Answers
  <2>2. \A n \in resps \cup Msgs(dq) : n.from # s
    BY <2>1, <1>1, SetsAssumption
  <2>3. \A n \in resps \cup Msgs(dq) : own'[n.from] = n.addr
    BY <2>1, <2>2, <1>2
  <2>4. \A t \in Subs : \A n \in ack'[t] : n.from = t /\ n.addr = own'[t]
    <3>1. ack'[s] = {m} /\ own'[s] = a
      BY <1>2 DEF IInv, TypeOK, HistoryOK, m
    <3>2. \A t \in Subs : t # s => ack'[t] = ack[t] /\ own'[t] = own[t]
      BY <1>2 DEF IInv, TypeOK, HistoryOK
    <3> QED
      BY <3>1, <3>2, <1>5 DEF IInv, Signed
  <2> QED
    BY <2>3, <2>4, <1>3 DEF Signed, domVars, roundVars
<1>9. AllHeld' /\ Offered'
  <2>1. \A b \in active \cup todo \cup results \cup Cur : b # NoAddr
    BY SetsAssumption DEF IInv, TypeOK, HistoryOK, Cur
  <2>2. \A t \in Subs : own[t] # NoAddr => own'[t] = own[t]
    BY <1>1, <1>2 DEF IInv, TypeOK, HistoryOK
  <2>3. Held(active \cup todo \cup results \cup Cur)'
    BY <1>3, <2>1, <2>2 DEF IInv, AllHeld, Held, domVars, roundVars, Cur
  <2> QED
    BY <1>3, <2>3 DEF IInv, AllHeld, Offered, Cur, domVars, roundVars
<1> QED
  BY <1>6, <1>7, <1>8, <1>9 DEF IInv

LEMMA SubListensIInv ==
  ASSUME IInv, HistoryOK', NEW s \in Subs, SubAckAck(s) \/ SubPinged(s)
  PROVE  IInv'
<1>1. /\ st[s] \in {"ackwait", "pingwait"} /\ sq[s] # << >> /\ ack[s] = {}
      /\ UNCHANGED <<lossy, domVars, own, oks>>
  BY DEF history, SubAckAck, SubPinged, Receive
<1>2. /\ Head(sq[s]) \in ToSubs /\ Tail(sq[s]) \in Seq(ToSubs) /\ << >> \in Seq(ToSubs)
      /\ oks[s] \in 0 .. 2 /\ own[s] \in Addrs
  BY <1>1, SubFacts DEF IInv, Assigned
<1>3. /\ dq' \in Seq(Answers) /\ Len(dq') <= TaskDepth /\ Msgs(dq') \subseteq Msgs(dq) \cup ack[s]
      /\ UNCHANGED <<lossy, active, phase, roundVars, own>>
      /\ oks' = [oks EXCEPT ![s] = oks[s]]
  BY <1>1 DEF IInv, TypeOK, HistoryOK, domVars
<1>4. (st[s] = "ackwait" => oks[s] = 0) /\ (st[s] = "pingwait" => oks[s] <= 1)
  BY DEF IInv, Counted
<1>5. CASE SubAckAck(s)
  <2>1. st[s] = "ackwait" /\ oks[s] = 0 /\ oks[s] <= 1
    BY <1>4, <1>5 DEF history, SubAckAck
  <2>2. PICK state \in {"ackwait", "pingwait"} : st' = [st EXCEPT ![s] = state]
    BY <1>5, <2>1 DEF history, SubAckAck
  <2>3. ack' = [ack EXCEPT ![s] = ack[s]] /\ sq' = [sq EXCEPT ![s] = Tail(sq[s])]
    BY <1>5 DEF history, SubAckAck, IInv, TypeOK, HistoryOK
  <2>4. state \in SubStates \ {"off", "search"} /\ ack[s] \in SUBSET Answers
        /\ \A m \in ack[s] : m.from = s /\ m.addr = own[s]
    BY <1>1 DEF SubStates
  <2> QED
    BY <1>1, <1>2, <1>3, <2>1, <2>2, <2>3, <2>4, SubMoves
<1>6. CASE SubPinged(s)
  <2> DEFINE answers == generate_ping_ack(Head(sq[s]), s)
  <2>1. st[s] = "pingwait" /\ oks[s] <= 1 /\ ack' = [ack EXCEPT ![s] = answers]
    BY <1>4, <1>6 DEF history, SubPinged
  <2>2. answers \in SUBSET Answers /\ \A m \in answers : m.from = s /\ m.addr = own[s]
    BY <1>2 DEF generate_ping_ack, ToSubs, Pings, Initials, AckAcks, Answers
  <2>3. PICK state \in {"failed", "pingwait"}, q \in Seq(ToSubs) :
          st' = [st EXCEPT ![s] = state] /\ sq' = [sq EXCEPT ![s] = q]
    <3>1. \/ st' = [st EXCEPT ![s] = "failed"] /\ sq' = [sq EXCEPT ![s] = << >>]
          \/ st' = [st EXCEPT ![s] = "pingwait"] /\ sq' = [sq EXCEPT ![s] = Tail(sq[s])]
      BY <1>6, <2>1 DEF history, SubPinged, IInv, TypeOK, HistoryOK
    <3> QED
      BY <1>2, <3>1
  <2> HIDE DEF answers
  <2>4. state \in SubStates \ {"off", "search"} /\ state # "ackwait"
    BY DEF SubStates
  <2> QED
    BY <1>1, <1>2, <1>3, <2>1, <2>2, <2>3, <2>4, SubMoves
<1> QED
  BY <1>5, <1>6

LEMMA SubSendIInv ==
  ASSUME IInv, HistoryOK', NEW s \in Subs, SubSend(s)
  PROVE  IInv'
<1> DEFINE m == CHOOSE n \in ack[s] : TRUE
           count == IF st[s] = "pingwait" THEN oks[s] + 1 ELSE oks[s]
<1>1. /\ ack[s] # {} /\ ack' = [ack EXCEPT ![s] = {}]
      /\ \/ Len(dq) < TaskDepth /\ dq' = dq \o <<m>>
         \/ UNCHANGED dq
      /\ oks' = [oks EXCEPT ![s] = count]
      /\ UNCHANGED <<lossy, active, phase, roundVars, own>>
  BY DEF history, SubSend
<1>2. m \in ack[s] /\ m \in Answers
  BY <1>1, SubFacts
<1> HIDE DEF m
<1>3. /\ st[s] \in SubStates \ {"off", "search"} /\ sq[s] \in Seq(ToSubs)
      /\ << >> \in Seq(ToSubs)
  BY <1>1, SubFacts DEF IInv, Assigned
<1>4. oks[s] \in 0 .. 2 /\ (st[s] = "ackwait" => oks[s] = 0) /\ (st[s] = "pingwait" => oks[s] <= 1)
  BY SubFacts DEF IInv, Counted
<1>5. count \in 0 .. 2 /\ (st[s] = "ackwait" => count = 0)
  BY <1>4
<1>6. dq' \in Seq(Answers) /\ Len(dq') <= TaskDepth /\ Msgs(dq') \subseteq Msgs(dq) \cup ack[s]
  <2>1. dq \in Seq(Answers) /\ Len(dq) <= TaskDepth /\ Len(dq) \in Nat
    BY LenProperties DEF IInv, TypeOK, HistoryOK
  <2>2. dq \o <<m>> \in Seq(Answers) /\ Len(dq \o <<m>>) = Len(dq) + 1
        /\ Msgs(dq \o <<m>>) = Msgs(dq) \cup {m}
    BY <1>2, <2>1, Appended
  <2>3. Len(dq) < TaskDepth => Len(dq) + 1 <= TaskDepth
    BY <2>1, TaskDepthAssumption
  <2> QED
    BY <1>1, <1>2, <2>1, <2>2, <2>3
<1>7. {} \in SUBSET Answers /\ \A n \in {} : n.from = s /\ n.addr = own[s]
  OBVIOUS
<1>8. oks'[s] = count
  BY <1>1 DEF IInv, TypeOK, HistoryOK
<1> HIDE DEF count
<1>9. CASE Enough(count)
  <2>1. st' = [st EXCEPT ![s] = "done"] /\ sq' = [sq EXCEPT ![s] = << >>]
    BY <1>8, <1>9 DEF history, SubSend
  <2>2. "done" \in SubStates \ {"off", "search"}
    BY DEF SubStates
  <2> QED
    BY <1>1, <1>3, <1>5, <1>6, <1>7, <2>1, <2>2, SubMoves
<1>10. CASE ~Enough(count)
  <2>1. st' = [st EXCEPT ![s] = st[s]] /\ sq' = [sq EXCEPT ![s] = sq[s]]
    BY <1>8, <1>10 DEF history, SubSend, IInv, TypeOK, HistoryOK
  <2>2. count <= 1
    BY <1>5, <1>10 DEF Enough
  <2> QED
    BY <1>1, <1>3, <1>5, <1>6, <1>7, <2>1, <2>2, SubMoves
<1> QED
  BY <1>9, <1>10

LEMMA SubFailsIInv ==
  ASSUME IInv, HistoryOK', NEW s \in Subs, SubSendFails(s) \/ SubTimeout(s)
  PROVE  IInv'
<1>1. /\ ack' = [ack EXCEPT ![s] = {}]
      /\ st' = [st EXCEPT ![s] = "failed"] /\ sq' = [sq EXCEPT ![s] = << >>]
      /\ UNCHANGED <<lossy, domVars, own, oks>>
  BY DEF history, SubSendFails, SubTimeout, IInv, TypeOK, HistoryOK
<1>2. st[s] \notin {"off", "search"}
  BY DEF history, SubSendFails, SubTimeout, IInv, Assigned
<1>3. /\ dq' \in Seq(Answers) /\ Len(dq') <= TaskDepth /\ Msgs(dq') \subseteq Msgs(dq) \cup ack[s]
      /\ UNCHANGED <<lossy, active, phase, roundVars, own>>
  BY <1>1, SubFacts DEF IInv, TypeOK, HistoryOK, domVars
<1>4. PICK state \in SubStates \ {"off", "search"}, none \in SUBSET Answers,
           count \in 0 .. 2, q \in Seq(ToSubs) :
        /\ st' = [st EXCEPT ![s] = state] /\ ack' = [ack EXCEPT ![s] = none]
        /\ oks' = [oks EXCEPT ![s] = count] /\ sq' = [sq EXCEPT ![s] = q]
        /\ state # "ackwait" /\ state # "pingwait" /\ none = {}
  <2>1. "failed" \in SubStates \ {"off", "search"} /\ {} \in SUBSET Answers
    BY DEF SubStates
  <2>2. oks' = [oks EXCEPT ![s] = oks[s]] /\ oks[s] \in 0 .. 2 /\ << >> \in Seq(ToSubs)
    BY <1>1, SubFacts DEF IInv, TypeOK, HistoryOK
  <2> QED
    BY <1>1, <2>1, <2>2
<1> QED
  BY <1>2, <1>3, <1>4, SubMoves

LEMMA SameIInv == IInv /\ UNCHANGED <<domVars, subVars>> /\ HistoryOK' => IInv'
BY DEF IInv, TypeOK, HistoryOK, HistoryOK, Assigned, Counted, Signed, AllHeld, Held, Cur, Offered,
       domVars, roundVars, subVars

LEMMA StepIInv == IInv /\ [Next]_vars => IInv'
<1> SUFFICES ASSUME IInv, [Next]_vars PROVE IInv'
  OBVIOUS
<1>0. HistoryOK'
  BY HistoryTyped
<1>1. CASE DomStep
  BY <1>0, <1>1, DomBroadcastIInv, DomCollectIInv, DomAckAckIInv, DomPingIInv, DomPingHearIInv,
     DomQuietIInv DEF DomStep
<1>2. CASE DomRelease
  BY <1>0, <1>2, DomQuietIInv
<1>3. CASE FaultsBegin
  BY <1>0, <1>3, SameIInv DEF FaultsBegin
<1>4. CASE \E s \in Subs : Boot(s) \/ SubStep(s) \/ SubTimeout(s)
  BY <1>0, <1>4, BootIInv, SubChooseIInv, SubListensIInv, SubSendIInv, SubFailsIInv DEF SubStep
<1>5. CASE UNCHANGED vars
  BY <1>0, <1>5, SameIInv DEF vars
<1> QED
  BY <1>1, <1>2, <1>3, <1>4, <1>5 DEF Next

(* An address once taken is never given up, so what a message says of its  *)
(* sender stays true, and so does what the table says.                     *)
THEOREM Invariance == Spec => []IInv
BY InitIInv, StepIInv, PTL DEF Spec

(* Queues, answers and the round keep their types and bounds; a sub never  *)
(* counts more than two answers (sub/discover.rs:155-192).                 *)
THEOREM TypeCorrect == Spec => []TypeOK
BY Invariance, PTL DEF IInv

(* The unwrap on commit_reserved_addr never panics.                        *)
THEOREM NeverPanics == Spec => []NoCommitPanic
<1>1. IInv => NoCommitPanic
  BY DEF IInv, Offered, NoCommitPanic
<1> QED
  BY <1>1, Invariance, PTL

(* An address in the table is the address of some device.                  *)
THEOREM TableIsHeld == Spec => []CommittedHeld
<1>1. IInv => CommittedHeld
  BY DEF IInv, AllHeld, Held, CommittedHeld
<1> QED
  BY <1>1, Invariance, PTL

-----------------------------------------------------------------------------
(***************************************************************************)
(* What the table has cost.  The pings of a pass carry the same random     *)
(* number for all addresses, and nobody looks at the source of an answer:  *)
(* one may be credited to another address than its sender's.  But it is    *)
(* taken out of the queue when it is counted, and no answer to an earlier  *)
(* pass has the random number of this one.                                 *)
(***************************************************************************)
(* The places of a queue with a message of C. *)
Places(q, C) == {n \in 1 .. Len(q) : q[n] \in C}

(* The answers that count in this pass, and where they wait for the dom.   *)
Now     == {m \in Answers : validate_ping_ack(m)}
Pending == Places(dq, Now)

One(b) == IF b THEN 1 ELSE 0

(* An address of the round has cost what its pass has heard for it so far, *)
(* and in the second pass also an answer to the first.                     *)
ThisPass  == Cardinality(results) + One(cur # NoAddr /\ got) + Cardinality(Pending)
FirstPass == IF pass = 2 THEN Cardinality(todo) + Cardinality(results) + One(cur # NoAddr) ELSE 0

Cost == 2 * Cardinality(active) + (IF phase = "ping" THEN ThisPass + FirstPass ELSE 0)

(* A sub that is about to answer a ping is one that counts its answers.    *)
Replying == \A s \in Subs : \A m \in ack[s] : m.type = "pingack" => st[s] = "pingwait"

CInv == Replying /\ Cost <= AnswersGiven

LEMMA AppendedPlaces ==
  ASSUME NEW E, NEW q \in Seq(E), NEW e \in E, NEW C
  PROVE  Places(q \o <<e>>, C) = IF e \in C THEN Places(q, C) \cup {Len(q) + 1}
                                            ELSE Places(q, C)
<1> DEFINE r == q \o <<e>>
<1>1. /\ Len(r) = Len(q) + 1 /\ r[Len(q) + 1] = e
      /\ \A n \in 1 .. Len(q) : r[n] = q[n]
  BY Appended
<1> HIDE DEF r
<1>2. Len(q) \in Nat
  BY LenProperties
<1>3. /\ \A n \in 1 .. Len(q) + 1 : n \in 1 .. Len(q) \/ n = Len(q) + 1
      /\ \A n \in 1 .. Len(q) : n \in 1 .. Len(q) + 1
      /\ Len(q) + 1 \in 1 .. Len(q) + 1
  BY <1>2
<1>4. Places(r, C) = IF e \in C THEN Places(q, C) \cup {Len(q) + 1} ELSE Places(q, C)
  BY <1>1, <1>3 DEF Places
<1> QED
  BY <1>4 DEF r

LEMMA PlacesFinite ==
  ASSUME NEW E, NEW q \in Seq(E), NEW C
  PROVE  IsFiniteSet(Places(q, C)) /\ Cardinality(Places(q, C)) \in Nat
<1>1. Len(q) \in Nat
  BY LenProperties
<1>2. IsFiniteSet(1 .. Len(q))
  BY <1>1, FS_Interval
<1>3. Places(q, C) \in SUBSET (1 .. Len(q))
  BY DEF Places
<1> QED
  BY <1>2, <1>3, FS_Subset, FS_CardinalityType

(* The message received was one of them, if it is of the kind. *)
LEMMA ReceivedPlaces ==
  ASSUME NEW E, NEW q \in Seq(E), q # << >>, NEW C
  PROVE  Cardinality(Places(Tail(q), C)) + One(Head(q) \in C) <= Cardinality(Places(q, C))
<1> DEFINE old == Places(q, C)
           new == Places(Tail(q), C)
           rest == IF Head(q) \in C THEN old \ {1} ELSE old
           f == [n \in new |-> n + 1]
<1>1. /\ Head(q) = q[1] /\ Len(q) \in Nat /\ Len(Tail(q)) = Len(q) - 1
      /\ \A n \in 1 .. Len(Tail(q)) : Tail(q)[n] = q[n + 1] /\ n + 1 \in 1 .. Len(q)
      /\ Tail(q) \in Seq(E)
  BY Received
<1>2. \A n \in new : n \in Nat /\ n # 0 /\ n + 1 \in old /\ n + 1 # 1
  BY <1>1 DEF Places
<1>3. Head(q) \in C => 1 \in old
  <2>1. Len(q) # 0
    BY EmptySeq
  <2>2. 1 \in 1 .. Len(q)
    BY <1>1, <2>1
  <2> QED
    BY <1>1, <2>2 DEF Places
<1>4. IsFiniteSet(old) /\ Cardinality(old) \in Nat /\ Cardinality(new) \in Nat
  BY <1>1, PlacesFinite
<1>5. IsFiniteSet(rest) /\ Cardinality(rest) = Cardinality(old) - One(Head(q) \in C)
  <2>1. /\ IsFiniteSet(old \ {1})
        /\ 1 \in old => Cardinality(old \ {1}) = Cardinality(old) - 1
    BY <1>4, FS_RemoveElement
  <2>2. CASE Head(q) \in C
    BY <1>3, <2>1, <2>2 DEF One
  <2>3. CASE Head(q) \notin C
    BY <1>4, <2>3 DEF One
  <2> QED
    BY <2>2, <2>3
<1>6. f \in Injection(new, rest)
  <2>1. \A n \in new : n + 1 \in rest
    BY <1>2
  <2>2. \A n, k \in new : n + 1 = k + 1 => n = k
    BY <1>2
  <2>3. f \in [new -> rest]
    BY <2>1
  <2> QED
    BY <2>2, <2>3 DEF Injection, IsInjective
<1>7. Cardinality(new) <= Cardinality(rest)
  BY <1>5, <1>6, FS_Injection
<1>8. One(Head(q) \in C) \in Nat
  BY DEF One
<1> HIDE DEF old, new, rest
<1>9. Cardinality(new) + One(Head(q) \in C) <= Cardinality(old)
  BY <1>4, <1>5, <1>7, <1>8
<1> QED
  BY <1>9 DEF old, new

LEMMA SubsetSize ==
  ASSUME NEW S, S \subseteq Addrs \/ S \subseteq Subs
  PROVE  IsFiniteSet(S) /\ Cardinality(S) \in Nat
<1>1. IsFiniteSet(S)
  BY SetsAssumption, FS_Subset
<1> QED
  BY <1>1, FS_CardinalityType

(* The sizes the cost is made of. *)
LEMMA Sizes ==
  ASSUME TypeOK
  PROVE  /\ IsFiniteSet(active) /\ IsFiniteSet(todo) /\ IsFiniteSet(results)
         /\ Cardinality(active) \in Nat /\ Cardinality(todo) \in Nat
         /\ Cardinality(results) \in Nat /\ Cardinality(Pending) \in Nat
         /\ AnswersGiven \in Nat
<1>1. dq \in Seq(Answers) /\ active \subseteq Addrs /\ todo \subseteq Addrs /\ results \subseteq Addrs
  BY DEF TypeOK
<1>2. /\ Cardinality({s \in Subs : oks[s] >= 1}) \in Nat
      /\ Cardinality({s \in Subs : oks[s] = 2}) \in Nat
  <2>1. {s \in Subs : oks[s] >= 1} \subseteq Subs /\ {s \in Subs : oks[s] = 2} \subseteq Subs
    OBVIOUS
  <2> QED
    BY <2>1, SubsetSize
<1> QED
  BY <1>1, <1>2, SubsetSize, PlacesFinite DEF Pending, AnswersGiven

(* A random number nobody carries is not that of any answer under way. *)
LEMMA FreshPending ==
  ASSUME NEW r, Fresh(r), rnd' = r, dq' = dq
  PROVE  Cardinality(Pending') = 0
<1>1. \A n \in 1 .. Len(dq) : dq[n].rnd # r
  BY DEF Fresh, Carried
<1>2. Pending' = {}
  BY <1>1 DEF Pending, Places, Now, validate_ping_ack
<1> QED
  BY <1>2, FS_EmptySet

(* A step of the dom gives no answers. *)
LEMMA DomGives ==
  ASSUME CInv, UNCHANGED <<st, oks, ack>>, Cost' <= Cost, Cost \in Nat, Cost' \in Nat, TypeOK
  PROVE  CInv'
<1>1. AnswersGiven' = AnswersGiven /\ AnswersGiven \in Nat
  BY Sizes DEF AnswersGiven
<1>2. Replying'
  BY DEF CInv, Replying
<1> QED
  BY <1>1, <1>2 DEF CInv

LEMMA CostNat ==
  ASSUME TypeOK
  PROVE  Cost \in Nat
<1>1. One(cur # NoAddr /\ got) \in Nat /\ One(cur # NoAddr) \in Nat
  BY DEF One
<1> DEFINE a == Cardinality(active)
           t == Cardinality(todo)
           r == Cardinality(results)
           p == Cardinality(Pending)
<1>2. a \in Nat /\ t \in Nat /\ r \in Nat /\ p \in Nat
  BY Sizes
<1>3. /\ ThisPass = r + One(cur # NoAddr /\ got) + p
      /\ FirstPass = IF pass = 2 THEN t + r + One(cur # NoAddr) ELSE 0
      /\ Cost = 2 * a + (IF phase = "ping" THEN ThisPass + FirstPass ELSE 0)
  BY DEF ThisPass, FirstPass, Cost
<1> HIDE DEF a, t, r, p
<1>4. ThisPass \in Nat /\ FirstPass \in Nat
  BY <1>1, <1>2, <1>3
<1> QED
  BY <1>2, <1>3, <1>4

(* The dom between rounds and while it collects: only the table counts. *)
LEMMA QuietCost ==
  ASSUME TypeOK, TypeOK', CInv, UNCHANGED <<st, oks, ack>>, phase # "ping", phase' # "ping",
         active' \subseteq active
  PROVE  CInv'
<1>1. Cost = 2 * Cardinality(active) + 0 /\ Cost' = 2 * Cardinality(active') + 0
  BY DEF Cost
<1>2. IsFiniteSet(active) /\ Cardinality(active) \in Nat /\ Cardinality(active') \in Nat
  BY Sizes, SubsetSize DEF TypeOK
<1>3. Cardinality(active') <= Cardinality(active)
  BY <1>2, FS_Subset
<1>4. Cost' <= Cost /\ Cost \in Nat /\ Cost' \in Nat
  BY <1>1, <1>2, <1>3
<1> QED
  BY <1>4, DomGives

LEMMA AckAckCost ==
  ASSUME IInv, TypeOK', CInv, DomAckAck
  PROVE  CInv'
<1>1. /\ phase = "collect" /\ UNCHANGED <<active, dq, cur, got, st, own, ack, oks>>
      /\ phase' \in {"idle", "ping"}
      /\ phase' = "ping" => /\ pass' = 1 /\ results' = {}
                            /\ \E r \in 0 .. MaxRnd : Fresh(r) /\ rnd' = r
  BY DEF DomAckAck
<1>2. CASE phase' = "idle"
  BY <1>1, <1>2, QuietCost DEF IInv
<1>3. CASE phase' = "ping"
  <2>1. Cardinality(Pending') = 0
    BY <1>1, <1>3, FreshPending
  <2>2. Cardinality(results') = 0 /\ One(cur' # NoAddr /\ got') = 0
    BY <1>1, <1>3, FS_EmptySet DEF IInv, Offered, One
  <2>3. Cost = 2 * Cardinality(active) /\ Cardinality(active) \in Nat
    BY <1>1, Sizes DEF IInv, Cost
  <2>4. ThisPass' = 0 /\ FirstPass' = 0
    BY <1>1, <1>3, <2>1, <2>2 DEF ThisPass, FirstPass
  <2>5. Cost' = 2 * Cardinality(active) + 0
    BY <1>1, <1>3, <2>4 DEF Cost
  <2> QED
    BY <1>1, <2>3, <2>5, DomGives DEF IInv
<1> QED
  BY <1>1, <1>2, <1>3

LEMMA PingCost ==
  ASSUME IInv, TypeOK', CInv, DomPing
  PROVE  CInv'
<1>1. PICK a \in todo : cur' = a /\ todo' = todo \ {a}
  BY DEF DomPing
<1>2. /\ phase = "ping" /\ cur = NoAddr /\ got' = FALSE
      /\ UNCHANGED <<active, phase, rnd, pass, results, dq, st, oks, ack>>
  BY DEF DomPing
<1>3. Pending' = Pending
  BY <1>2 DEF Pending, Places, Now, validate_ping_ack
<1>4. /\ One(cur # NoAddr /\ got) = 0 /\ One(cur' # NoAddr /\ got') = 0
      /\ One(cur # NoAddr) = 0 /\ One(cur' # NoAddr) \in {0, 1}
  BY <1>2 DEF One
<1>5. Cardinality(todo') = Cardinality(todo) - 1
  BY <1>1, Sizes, FS_RemoveElement DEF IInv
<1>6. ThisPass' = ThisPass
  BY <1>2, <1>3, <1>4 DEF ThisPass
<1>7. FirstPass' <= FirstPass /\ FirstPass \in Nat /\ FirstPass' \in Nat /\ ThisPass \in Nat
  <2>1. Cardinality(todo) \in Nat /\ Cardinality(todo') \in Nat /\ Cardinality(results) \in Nat
        /\ Cardinality(Pending) \in Nat
    BY Sizes, SubsetSize DEF IInv, TypeOK
  <2>2. FirstPass = IF pass = 2 THEN Cardinality(todo) + Cardinality(results) + 0 ELSE 0
    BY <1>4 DEF FirstPass
  <2>3. FirstPass' = IF pass = 2 THEN Cardinality(todo') + Cardinality(results) + One(cur' # NoAddr)
                                 ELSE 0
    BY <1>2 DEF FirstPass
  <2>4. ThisPass = Cardinality(results) + 0 + Cardinality(Pending)
    BY <1>4 DEF ThisPass
  <2> QED
    BY <1>4, <1>5, <2>1, <2>2, <2>3, <2>4
<1>8. Cost = 2 * Cardinality(active) + (ThisPass + FirstPass)
      /\ Cost' = 2 * Cardinality(active) + (ThisPass + FirstPass') /\ Cardinality(active) \in Nat
  BY <1>2, <1>6, Sizes DEF IInv, Cost
<1>9. Cost' <= Cost /\ Cost \in Nat /\ Cost' \in Nat
  BY <1>7, <1>8
<1> QED
  BY <1>2, <1>9, DomGives DEF IInv

LEMMA HearCost ==
  ASSUME IInv, TypeOK', CInv, DomPingHear
  PROVE  CInv'
<1> DEFINE ok == validate_ping_ack(Head(dq))
<1>1. /\ phase = "ping" /\ cur # NoAddr /\ dq # << >> /\ dq' = Tail(dq)
      /\ got' = (got \/ ok) /\ cur' = IF got /\ ok THEN NoAddr ELSE cur
      /\ UNCHANGED <<active, phase, rnd, pass, todo, results, st, oks, ack>>
  BY DEF DomPingHear, subVars
<1>2. Head(dq) \in Answers /\ dq \in Seq(Answers)
  BY <1>1, Received DEF IInv, TypeOK
<1>3. Now' = Now /\ (Head(dq) \in Now <=> ok)
  BY <1>1, <1>2 DEF Now, validate_ping_ack
<1>4. Cardinality(Pending') + One(Head(dq) \in Now) <= Cardinality(Pending)
  <2>1. Pending' = Places(Tail(dq), Now)
    BY <1>1, <1>3 DEF Pending
  <2> QED
    BY <1>1, <1>2, <2>1, ReceivedPlaces DEF Pending
<1>5. One(cur' # NoAddr /\ got') <= One(cur # NoAddr /\ got) + One(Head(dq) \in Now)
      /\ One(cur' # NoAddr) <= One(cur # NoAddr)
      /\ One(cur' # NoAddr /\ got') \in {0, 1} /\ One(cur # NoAddr /\ got) \in {0, 1}
      /\ One(cur' # NoAddr) \in {0, 1} /\ One(cur # NoAddr) \in {0, 1}
      /\ One(Head(dq) \in Now) \in {0, 1}
  <2>1. One(cur # NoAddr) = 1
    BY <1>1 DEF One
  <2>2. (got' /\ ~got => One(Head(dq) \in Now) = 1)
    BY <1>1, <1>3 DEF One
  <2>3. got /\ cur # NoAddr => One(cur # NoAddr /\ got) = 1
    BY DEF One
  <2>4. ~got' => One(cur' # NoAddr /\ got') = 0
    BY DEF One
  <2>5. \A x, y, z \in {0, 1} : y = 1 \/ z = 1 \/ x = 0 => x <= y + z
    OBVIOUS
  <2>6. \A x, y \in {0, 1} : y = 1 => x <= y
    OBVIOUS
  <2>7. One(cur # NoAddr /\ got) = 1 \/ One(Head(dq) \in Now) = 1 \/ One(cur' # NoAddr /\ got') = 0
    BY <1>1, <2>2, <2>3, <2>4
  <2>8. /\ One(cur' # NoAddr /\ got') \in {0, 1} /\ One(cur # NoAddr /\ got) \in {0, 1}
        /\ One(cur' # NoAddr) \in {0, 1} /\ One(cur # NoAddr) \in {0, 1}
        /\ One(Head(dq) \in Now) \in {0, 1}
    BY DEF One
  <2>9. One(cur' # NoAddr /\ got') <= One(cur # NoAddr /\ got) + One(Head(dq) \in Now)
    BY <2>5, <2>7, <2>8
  <2>10. One(cur' # NoAddr) <= One(cur # NoAddr)
    BY <2>1, <2>6, <2>8
  <2> QED
    BY <2>8, <2>9, <2>10
<1>6. /\ Cardinality(todo) \in Nat /\ Cardinality(results) \in Nat /\ Cardinality(active) \in Nat
      /\ Cardinality(Pending) \in Nat
  BY Sizes DEF IInv
<1>7. Cardinality(Pending') \in Nat
  <2>1. dq' \in Seq(Answers)
    BY DEF TypeOK
  <2> QED
    BY <1>3, <2>1, PlacesFinite DEF Pending
<1>8. ThisPass' <= ThisPass /\ ThisPass \in Nat /\ ThisPass' \in Nat
  <2>1. /\ ThisPass = Cardinality(results) + One(cur # NoAddr /\ got) + Cardinality(Pending)
        /\ ThisPass' = Cardinality(results) + One(cur' # NoAddr /\ got') + Cardinality(Pending')
    BY <1>1 DEF ThisPass
  <2> QED
    BY <1>4, <1>5, <1>6, <1>7, <2>1
<1>9. FirstPass' <= FirstPass /\ FirstPass \in Nat /\ FirstPass' \in Nat
  <2>1. /\ FirstPass = IF pass = 2 THEN Cardinality(todo) + Cardinality(results) + One(cur # NoAddr)
                                   ELSE 0
        /\ FirstPass' = IF pass = 2 THEN Cardinality(todo) + Cardinality(results) + One(cur' # NoAddr)
                                    ELSE 0
    BY <1>1 DEF FirstPass
  <2> QED
    BY <1>5, <1>6, <2>1
<1>10. /\ Cost = 2 * Cardinality(active) + (ThisPass + FirstPass)
       /\ Cost' = 2 * Cardinality(active) + (ThisPass' + FirstPass')
  BY <1>1 DEF Cost
<1>11. Cost' <= Cost /\ Cost \in Nat /\ Cost' \in Nat
  BY <1>6, <1>8, <1>9, <1>10
<1> QED
  BY <1>1, <1>11, DomGives DEF IInv

LEMMA PingEndCost ==
  ASSUME IInv, TypeOK', CInv, DomPingEnd
  PROVE  CInv'
<1>1. /\ phase = "ping" /\ cur # NoAddr /\ cur' = NoAddr
      /\ results' = IF got THEN results \cup {cur} ELSE results
      /\ UNCHANGED <<active, phase, rnd, pass, todo, got, dq, st, oks, ack>>
  BY DEF DomPingEnd, subVars
<1>2. Pending' = Pending
  BY <1>1 DEF Pending, Places, Now, validate_ping_ack
<1>3. /\ One(cur # NoAddr /\ got) = One(got) /\ One(cur' # NoAddr /\ got') = 0
      /\ One(cur # NoAddr) = 1 /\ One(cur' # NoAddr) = 0 /\ One(got) \in {0, 1}
  BY <1>1 DEF One
<1>4. Cardinality(results') <= Cardinality(results) + One(got)
  <2>1. CASE got
    <3>1. Cardinality(results \cup {cur}) =
            IF cur \in results THEN Cardinality(results) ELSE Cardinality(results) + 1
      BY Sizes, FS_AddElement DEF IInv
    <3>2. Cardinality(results) \in Nat
      BY Sizes DEF IInv
    <3> QED
      BY <1>1, <2>1, <3>1, <3>2 DEF One
  <2>2. CASE ~got
    <3>1. Cardinality(results) \in Nat
      BY Sizes DEF IInv
    <3> QED
      BY <1>1, <2>2, <3>1 DEF One
  <2> QED
    BY <2>1, <2>2
<1>5. /\ Cardinality(todo) \in Nat /\ Cardinality(results) \in Nat /\ Cardinality(active) \in Nat
      /\ Cardinality(Pending) \in Nat /\ Cardinality(results') \in Nat
  BY Sizes, SubsetSize DEF IInv, TypeOK
<1>6. /\ ThisPass = Cardinality(results) + One(got) + Cardinality(Pending)
      /\ ThisPass' = Cardinality(results') + 0 + Cardinality(Pending)
  BY <1>2, <1>3 DEF ThisPass
<1>7. /\ FirstPass = IF pass = 2 THEN Cardinality(todo) + Cardinality(results) + 1 ELSE 0
      /\ FirstPass' = IF pass = 2 THEN Cardinality(todo) + Cardinality(results') + 0 ELSE 0
  BY <1>1, <1>3 DEF FirstPass
<1>8. /\ Cost = 2 * Cardinality(active) + (ThisPass + FirstPass)
      /\ Cost' = 2 * Cardinality(active) + (ThisPass' + FirstPass')
  BY <1>1 DEF Cost
<1>9. Cost' <= Cost /\ Cost \in Nat /\ Cost' \in Nat
  BY <1>3, <1>4, <1>5, <1>6, <1>7, <1>8
<1> QED
  BY <1>1, <1>9, DomGives DEF IInv

(* The first pass becomes the past one: its answers stay paid.             *)
LEMMA SecondPassCost ==
  ASSUME IInv, TypeOK', CInv, DomSecondPass
  PROVE  CInv'
<1>1. /\ phase = "ping" /\ cur = NoAddr /\ pass = 1 /\ cur' = cur
      /\ UNCHANGED <<active, dq, st, oks, ack>>
      /\ \/ phase' = "idle"
         \/ /\ phase' = "ping" /\ pass' = 2 /\ todo' = results /\ results' = {}
            /\ \E r \in 0 .. MaxRnd : Fresh(r) /\ rnd' = r
  BY DEF DomSecondPass, subVars
<1>2. /\ Cardinality(results) \in Nat /\ Cardinality(active) \in Nat /\ Cardinality(Pending) \in Nat
  BY Sizes DEF IInv
<1>3. Cost = 2 * Cardinality(active) + (Cardinality(results) + 0 + Cardinality(Pending) + 0)
  BY <1>1 DEF Cost, ThisPass, FirstPass, One
<1>4. CASE phase' = "idle"
  <2>1. Cost' = 2 * Cardinality(active) + 0
    BY <1>1, <1>4 DEF Cost
  <2>2. Cost' <= Cost /\ Cost \in Nat /\ Cost' \in Nat
    BY <1>2, <1>3, <2>1
  <2> QED
    BY <1>1, <2>2, DomGives DEF IInv
<1>5. CASE phase' # "idle"
  <2>1. Cardinality(Pending') = 0 /\ Cardinality(results') = 0 /\ todo' = results
    BY <1>1, <1>5, FreshPending, FS_EmptySet
  <2>2. Cost' = 2 * Cardinality(active) + (0 + 0 + 0 + (Cardinality(results) + 0 + 0))
    BY <1>1, <1>5, <2>1 DEF Cost, ThisPass, FirstPass, One
  <2>3. Cost' <= Cost /\ Cost \in Nat /\ Cost' \in Nat
    BY <1>2, <1>3, <2>2
  <2> QED
    BY <1>1, <2>3, DomGives DEF IInv
<1> QED
  BY <1>4, <1>5

LEMMA CommitCost ==
  ASSUME IInv, TypeOK', CInv, DomCommit
  PROVE  CInv'
<1>1. /\ phase = "ping" /\ cur = NoAddr /\ pass = 2 /\ todo = {} /\ phase' # "ping"
      /\ active' = active \cup results /\ UNCHANGED <<st, oks, ack>>
  BY DEF DomCommit, subVars
<1>2. /\ Cardinality(results) \in Nat /\ Cardinality(active) \in Nat /\ Cardinality(Pending) \in Nat
      /\ IsFiniteSet(active) /\ IsFiniteSet(results) /\ Cardinality(active') \in Nat
  BY Sizes, SubsetSize DEF IInv, TypeOK
<1>3. Cardinality(active') <= Cardinality(active) + Cardinality(results)
  <2>1. Cardinality(active \cap results) \in Nat
    <3>1. active \cap results \subseteq Addrs
      BY DEF IInv, TypeOK
    <3> QED
      BY <3>1, SubsetSize
  <2>2. Cardinality(active \cup results) =
          Cardinality(active) + Cardinality(results) - Cardinality(active \cap results)
    BY <1>2, FS_Union
  <2> QED
    BY <1>1, <1>2, <2>1, <2>2
<1>4. /\ Cost = 2 * Cardinality(active) + (Cardinality(results) + 0 + Cardinality(Pending)
                                           + (Cardinality(todo) + Cardinality(results) + 0))
      /\ Cardinality(todo) = 0 /\ Cost' = 2 * Cardinality(active') + 0
  BY <1>1, FS_EmptySet DEF Cost, ThisPass, FirstPass, One
<1>5. Cost' <= Cost /\ Cost \in Nat /\ Cost' \in Nat
  BY <1>2, <1>3, <1>4
<1> QED
  BY <1>1, <1>5, DomGives DEF IInv

(* A round that fails for want of a page, and a release. *)
LEMMA DropCost ==
  ASSUME IInv, TypeOK', CInv, DomPingFails \/ DomRelease
  PROVE  CInv'
<1>1. UNCHANGED <<st, oks, ack>> /\ active' \subseteq active
  BY DEF DomPingFails, DomRelease, subVars
<1>2. /\ Cost \in Nat /\ IsFiniteSet(active) /\ Cardinality(active) \in Nat
      /\ Cardinality(active') \in Nat
  BY CostNat, Sizes, SubsetSize DEF IInv, TypeOK
<1>3. Cardinality(active') <= Cardinality(active)
  BY <1>1, <1>2, FS_Subset
<1>4. CASE phase' # "ping"
  <2>1. Cost' = 2 * Cardinality(active') + 0
    BY <1>4 DEF Cost
  <2>2. Cost >= 2 * Cardinality(active)
    <3>1. ThisPass + FirstPass \in Nat
      <4>1. /\ Cardinality(todo) \in Nat /\ Cardinality(results) \in Nat /\ Cardinality(Pending) \in Nat
            /\ One(cur # NoAddr /\ got) \in Nat /\ One(cur # NoAddr) \in Nat
        BY Sizes DEF IInv, One
      <4> QED
        BY <4>1 DEF ThisPass, FirstPass
    <3> QED
      BY <1>2, <3>1 DEF Cost
  <2>3. Cost' <= Cost /\ Cost' \in Nat
    BY <1>2, <1>3, <2>1, <2>2
  <2> QED
    BY <1>1, <1>2, <2>3, DomGives DEF IInv
<1>5. CASE phase' = "ping"
  <2>1. UNCHANGED <<phase, roundVars, dq>>
    BY <1>5 DEF DomPingFails, DomRelease
  <2>2. Pending' = Pending
    BY <2>1 DEF Pending, Places, Now, validate_ping_ack, roundVars
  <2>3. ThisPass' = ThisPass /\ FirstPass' = FirstPass
    BY <2>1, <2>2 DEF ThisPass, FirstPass, roundVars
  <2>4. ThisPass + FirstPass \in Nat
    <3>1. /\ Cardinality(todo) \in Nat /\ Cardinality(results) \in Nat /\ Cardinality(Pending) \in Nat
          /\ One(cur # NoAddr /\ got) \in Nat /\ One(cur # NoAddr) \in Nat
      BY Sizes DEF IInv, One
    <3> QED
      BY <3>1 DEF ThisPass, FirstPass
  <2>5. /\ Cost = 2 * Cardinality(active) + (ThisPass + FirstPass)
        /\ Cost' = 2 * Cardinality(active') + (ThisPass + FirstPass)
    BY <1>5, <2>1, <2>3 DEF Cost
  <2>6. Cost' <= Cost /\ Cost' \in Nat
    BY <1>2, <1>3, <2>4, <2>5
  <2> QED
    BY <1>1, <1>2, <2>6, DomGives DEF IInv
<1> QED
  BY <1>4, <1>5

(* An answer is counted by its sub when it is sent. *)
LEMMA OneMoreGiven ==
  ASSUME TypeOK, NEW s \in Subs, oks[s] <= 1, oks' = [oks EXCEPT ![s] = oks[s] + 1]
  PROVE  AnswersGiven' = AnswersGiven + 1
<1> DEFINE one == {t \in Subs : oks[t] >= 1}
           two == {t \in Subs : oks[t] = 2}
<1>1. /\ IsFiniteSet(one) /\ IsFiniteSet(two)
      /\ Cardinality(one) \in Nat /\ Cardinality(two) \in Nat
  <2>1. one \subseteq Subs /\ two \subseteq Subs
    OBVIOUS
  <2> QED
    BY <2>1, SubsetSize
<1>2. oks \in [Subs -> 0 .. 2] /\ oks[s] \in {0, 1}
  BY DEF TypeOK
<1>3. /\ AnswersGiven = Cardinality(one) + Cardinality(two)
      /\ AnswersGiven' = Cardinality(one') + Cardinality(two')
  BY DEF AnswersGiven
<1>4. CASE oks[s] = 0
  <2>1. one' = one \cup {s} /\ s \notin one /\ two' = two
    BY <1>2, <1>4
  <2>2. Cardinality(one') = Cardinality(one) + 1
    BY <1>1, <2>1, FS_AddElement
  <2>3. AnswersGiven' = (Cardinality(one) + 1) + Cardinality(two)
    BY <1>3, <2>1, <2>2
  <2> HIDE DEF one, two
  <2> QED
    BY <1>1, <1>3, <2>3
<1>5. CASE oks[s] = 1
  <2>1. two' = two \cup {s} /\ s \notin two /\ one' = one
    BY <1>2, <1>5
  <2>2. Cardinality(two') = Cardinality(two) + 1
    BY <1>1, <2>1, FS_AddElement
  <2>3. AnswersGiven' = Cardinality(one) + (Cardinality(two) + 1)
    BY <1>3, <2>1, <2>2
  <2> HIDE DEF one, two
  <2> QED
    BY <1>1, <1>3, <2>3
<1> QED
  BY <1>2, <1>4, <1>5

LEMMA SendCost ==
  ASSUME IInv, TypeOK', CInv, NEW s \in Subs, SubSend(s)
  PROVE  CInv'
<1> DEFINE m == CHOOSE n \in ack[s] : TRUE
<1>1. /\ ack[s] # {} /\ ack' = [ack EXCEPT ![s] = {}]
      /\ dq' = dq \o <<m>> \/ dq' = dq
      /\ oks' = [oks EXCEPT ![s] = IF st[s] = "pingwait" THEN oks[s] + 1 ELSE oks[s]]
      /\ \A t \in Subs : t # s => st'[t] = st[t]
      /\ UNCHANGED <<active, phase, roundVars>>
  BY DEF SubSend, IInv, TypeOK
<1>2. m \in ack[s] /\ m \in Answers /\ dq \in Seq(Answers)
  BY <1>1, SubFacts DEF IInv, TypeOK
<1> HIDE DEF m
<1>3. Now' = Now /\ UNCHANGED <<pass, todo, cur, got, results, phase, active>>
  BY <1>1 DEF Now, validate_ping_ack, roundVars
<1>4. Cardinality(Pending') <= Cardinality(Pending) + One(m \in Now)
  <2>1. Places(dq \o <<m>>, Now) = IF m \in Now THEN Pending \cup {Len(dq) + 1} ELSE Pending
    BY <1>2, AppendedPlaces DEF Pending
  <2>2. IsFiniteSet(Pending) /\ Cardinality(Pending) \in Nat
    BY <1>2, PlacesFinite DEF Pending
  <2>3. /\ IsFiniteSet(Pending \cup {Len(dq) + 1})
        /\ Cardinality(Pending \cup {Len(dq) + 1}) \in {Cardinality(Pending), Cardinality(Pending) + 1}
    BY <2>2, FS_AddElement
  <2>4. Pending' = Places(dq', Now)
    BY <1>3 DEF Pending
  <2>5. CASE dq' = dq
    <3>1. Pending' = Pending
      BY <2>4, <2>5 DEF Pending
    <3>2. One(m \in Now) \in Nat
      BY DEF One
    <3> QED
      BY <2>2, <3>1, <3>2
  <2>6. CASE dq' = dq \o <<m>>
    <3>1. CASE m \in Now
      <4>1. Pending' = Pending \cup {Len(dq) + 1} /\ One(m \in Now) = 1
        BY <2>1, <2>4, <2>6, <3>1 DEF One
      <4> QED
        BY <2>2, <2>3, <4>1
    <3>2. CASE m \notin Now
      <4>1. Pending' = Pending /\ One(m \in Now) = 0
        BY <2>1, <2>4, <2>6, <3>2 DEF One
      <4> QED
        BY <2>2, <4>1
    <3> QED
      BY <3>1, <3>2
  <2> QED
    BY <1>1, <2>5, <2>6
<1>5. Cost' <= Cost + One(m \in Now) /\ Cost \in Nat /\ Cost' \in Nat
  <2>1. /\ Cardinality(todo) \in Nat /\ Cardinality(results) \in Nat /\ Cardinality(active) \in Nat
        /\ Cardinality(Pending) \in Nat /\ Cardinality(Pending') \in Nat
        /\ One(cur # NoAddr /\ got) \in Nat /\ One(cur # NoAddr) \in Nat /\ One(m \in Now) \in Nat
    <3>1. dq' \in Seq(Answers)
      BY DEF TypeOK
    <3> QED
      BY <1>3, <3>1, Sizes, PlacesFinite DEF IInv, One, Pending
  <2>2. /\ ThisPass = Cardinality(results) + One(cur # NoAddr /\ got) + Cardinality(Pending)
        /\ ThisPass' = Cardinality(results) + One(cur # NoAddr /\ got) + Cardinality(Pending')
        /\ FirstPass' = FirstPass
    BY <1>3 DEF ThisPass, FirstPass
  <2>3. FirstPass \in Nat
    BY <2>1 DEF FirstPass
  <2>4. /\ Cost = 2 * Cardinality(active) + (IF phase = "ping" THEN ThisPass + FirstPass ELSE 0)
        /\ Cost' = 2 * Cardinality(active) + (IF phase = "ping" THEN ThisPass' + FirstPass ELSE 0)
    BY <1>3, <2>2 DEF Cost
  <2>5. CASE phase = "ping"
    BY <1>4, <2>1, <2>2, <2>3, <2>4, <2>5
  <2>6. CASE phase # "ping"
    BY <2>1, <2>4, <2>6
  <2> QED
    BY <2>5, <2>6
<1>6. Replying'
  <2>1. \A t \in Subs : ack'[t] = (IF t = s THEN {} ELSE ack[t])
    BY <1>1 DEF IInv, TypeOK
  <2> QED
    BY <1>1, <2>1 DEF CInv, Replying
<1>7. AnswersGiven \in Nat /\ Cost <= AnswersGiven
  BY Sizes DEF IInv, CInv
<1>8. CASE st[s] = "pingwait"
  <2>1. oks[s] <= 1 /\ oks' = [oks EXCEPT ![s] = oks[s] + 1]
    BY <1>1, <1>8 DEF IInv, Counted
  <2>2. AnswersGiven' = AnswersGiven + 1
    BY <2>1, OneMoreGiven DEF IInv
  <2>3. One(m \in Now) \in {0, 1}
    BY DEF One
  <2>4. Cost' <= AnswersGiven'
    BY <1>5, <1>7, <2>2, <2>3
  <2> QED
    BY <1>6, <2>4 DEF CInv
<1>9. CASE st[s] # "pingwait"
  <2>1. m \notin Now
    BY <1>2, <1>9 DEF CInv, Replying, Now, validate_ping_ack
  <2>2. One(m \in Now) = 0
    BY <2>1 DEF One
  <2>3. oks' = oks
    BY <1>1, <1>9 DEF IInv, TypeOK
  <2>4. AnswersGiven' = AnswersGiven
    BY <2>3 DEF AnswersGiven
  <2>5. Cost' <= AnswersGiven'
    BY <1>5, <1>7, <2>2, <2>4
  <2> QED
    BY <1>6, <2>5 DEF CInv
<1> QED
  BY <1>8, <1>9

(* The other steps of a sub neither send nor count. *)
LEMMA SubCost ==
  ASSUME IInv, CInv, NEW s \in Subs,
         \/ Boot(s) \/ SubChoose(s) \/ SubAckAck(s) \/ SubPinged(s)
         \/ SubSendFails(s) \/ SubTimeout(s)
  PROVE  CInv'
<1>1. /\ UNCHANGED <<domVars, oks>>
      /\ \A t \in Subs : t # s => st'[t] = st[t] /\ ack'[t] = ack[t]
  BY DEF Boot, SubChoose, SubAckAck, SubPinged, SubSendFails, SubTimeout, IInv, TypeOK
<1>2. \A m \in ack'[s] : m.type = "pingack" => st'[s] = "pingwait"
  <2>1. CASE Boot(s)
    BY <2>1 DEF Boot, IInv, Assigned
  <2>2. CASE SubChoose(s)
    <3>1. \E a : ack' = [ack EXCEPT ![s] = {[type |-> "ack", addr |-> a, from |-> s,
                                             rnd |-> Head(sq[s]).rnd]}]
      BY <2>2 DEF SubChoose
    <3> QED
      BY <3>1 DEF IInv, TypeOK
  <2>3. CASE SubAckAck(s)
    BY <2>3 DEF SubAckAck, Receive
  <2>4. CASE SubPinged(s)
    BY <2>4 DEF SubPinged
  <2>5. CASE SubSendFails(s) \/ SubTimeout(s)
    BY <2>5 DEF SubSendFails, SubTimeout, IInv, TypeOK
  <2> QED
    BY <2>1, <2>2, <2>3, <2>4, <2>5
<1>3. Replying'
  BY <1>1, <1>2 DEF CInv, Replying
<1>4. Cost' = Cost /\ AnswersGiven' = AnswersGiven
  BY <1>1 DEF Cost, ThisPass, FirstPass, Pending, Places, Now, validate_ping_ack, AnswersGiven,
     domVars, roundVars
<1> QED
  BY <1>3, <1>4 DEF CInv

LEMMA InitCInv == Init => CInv
<1> SUFFICES ASSUME Init PROVE CInv
  OBVIOUS
<1>1. Cardinality({}) = 0
  BY FS_EmptySet
<1>2. Replying
  BY DEF Init, Replying
<1>3. Cost = 0
  BY <1>1 DEF Init, Cost
<1>4. AnswersGiven \in Nat
  BY InitIInv, Sizes DEF IInv
<1> QED
  BY <1>2, <1>3, <1>4 DEF CInv

LEMMA StepCInv == IInv /\ CInv /\ [Next]_vars => CInv'
<1> SUFFICES ASSUME IInv, CInv, [Next]_vars PROVE CInv'
  OBVIOUS
<1>1. TypeOK'
  BY StepIInv DEF IInv
<1>2. CASE DomBroadcast \/ DomCollect
  <2>1. /\ UNCHANGED <<st, oks, ack>> /\ phase # "ping" /\ phase' # "ping" /\ active' = active
    BY <1>2 DEF DomBroadcast, DomCollect, subVars
  <2> QED
    BY <1>1, <2>1, QuietCost DEF IInv
<1>3. CASE DomAckAck
  BY <1>1, <1>3, AckAckCost
<1>4. CASE DomPing
  BY <1>1, <1>4, PingCost
<1>5. CASE DomPingHear
  BY <1>1, <1>5, HearCost
<1>6. CASE DomPingEnd
  BY <1>1, <1>6, PingEndCost
<1>7. CASE DomSecondPass
  BY <1>1, <1>7, SecondPassCost
<1>8. CASE DomCommit
  BY <1>1, <1>8, CommitCost
<1>9. CASE DomPingFails \/ DomRelease
  BY <1>1, <1>9, DropCost
<1>10. CASE \E s \in Subs : SubSend(s)
  BY <1>1, <1>10, SendCost
<1>11. CASE \E s \in Subs : Boot(s) \/ SubStep(s) \/ SubTimeout(s)
  BY <1>10, <1>11, SubCost DEF SubStep
<1>12. CASE FaultsBegin \/ UNCHANGED vars
  <2>1. UNCHANGED <<domVars, subVars>>
    BY <1>12 DEF FaultsBegin, vars
  <2>2. Pending' = Pending
    BY <2>1 DEF Pending, Places, Now, validate_ping_ack, domVars, roundVars
  <2>3. Cost' = Cost
    BY <2>1, <2>2 DEF Cost, ThisPass, FirstPass, domVars, roundVars
  <2>4. AnswersGiven' = AnswersGiven /\ (Replying => Replying')
    BY <2>1 DEF AnswersGiven, Replying, subVars
  <2> QED
    BY <2>3, <2>4 DEF CInv
<1> QED
  BY <1>2, <1>3, <1>4, <1>5, <1>6, <1>7, <1>8, <1>9, <1>11, <1>12 DEF Next, DomStep

(* Every address in the table has cost two answers, and no answer was      *)
(* counted for two (dom/discover.rs:179-190), whatever is lost, late or    *)
(* released, for any devices and addresses.                                *)
THEOREM AnswersPaid == Spec => []TwoAnswersEach
<1>1. IInv /\ CInv => TwoAnswersEach
  <2> SUFFICES ASSUME IInv, CInv PROVE TwoAnswersEach
    OBVIOUS
  <2>1. /\ Cardinality(todo) \in Nat /\ Cardinality(results) \in Nat /\ Cardinality(active) \in Nat
        /\ Cardinality(Pending) \in Nat /\ AnswersGiven \in Nat
        /\ One(cur # NoAddr /\ got) \in Nat /\ One(cur # NoAddr) \in Nat
    BY Sizes DEF IInv, One
  <2>2. ThisPass + FirstPass \in Nat
    BY <2>1 DEF ThisPass, FirstPass
  <2>3. 2 * Cardinality(active) <= Cost /\ Cost \in Nat
    BY <2>1, <2>2 DEF Cost
  <2> QED
    BY <2>1, <2>3 DEF CInv, TwoAnswersEach
<1> QED
  BY <1>1, InitCInv, StepCInv, Invariance, PTL DEF Spec
=============================================================================
