---------------------------- MODULE TokenProofs ----------------------------
(***************************************************************************)
(* Proofs about Token, for any number of devices and any lengths of grant, *)
(* message, silence and sleep.  That two addresses never talk at once      *)
(* rests on the driver of the dom: while a sub has a grant to read, talks  *)
(* or has a release to hand over, the hold of the message that granted it  *)
(* is not over, and what a sub still sends after that is heard, or known   *)
(* not to be.                                                              *)
(***************************************************************************)
EXTENDS Token, SequenceTheorems, TLAPS

(* The address in question is not among those still to be queried. *)
Queried == pc = "wait" => cur \in Addrs /\ cur \notin todo

(* Who takes part has an address; who does not has nothing on its way. *)
Addressed == \A s \in Subs :
               IF Up(s) THEN own[s] \in Addrs
               ELSE inq[s] = << >> /\ kept[s] = << >> /\ ~OnAir(s)

(* The hold outlasts every talk by what a grant leaves of its time. *)
Held == \A s \in Subs : st[s] \in {"talk", "hand"} => hold + Talk + Nap >= Grant + tleft[s]

(* A grant that was not read yet has only just been sent, to a sub that    *)
(* had nothing to send.                                                    *)
JustSent == \A s \in Subs : inq[s] # << >> =>
              hold = Grant /\ st[s] = "listen" /\ Len(inq[s]) = 1 /\ ~OnAir(s)

(* Who is not heard is sending, and has no grant. *)
NotHeard == \A s \in unheard : OnAir(s) /\ st[s] # "talk"

HasGrant(s) == inq[s] # << >> \/ st[s] = "talk" \/ OnAir(s)

OneAddress == \A s, t \in Subs \ unheard : HasGrant(s) /\ HasGrant(t) => own[s] = own[t]

Inv == TypeOK /\ Queried /\ Addressed /\ Held /\ JustSent /\ NotHeard /\ OneAddress

-----------------------------------------------------------------------------
(* What the assumptions say of the times.                                  *)
LEMMA Times ==
  /\ Grant \in Nat /\ Grant > 0 /\ Talk \in Nat /\ Nap \in Nat /\ Talk + Nap < Grant
  /\ Frame \in Nat /\ Frame > 0
  /\ RoundGap \in Nat /\ Silence \in Nat /\ TaskDepth \in Nat
  /\ MaxLoad \in Nat /\ MaxFaults \in Nat /\ 0 \in 0 .. Rnds - 1
<1>1. (Grant * 7) \div 8 \in Nat
  BY TimesAssumption
<1>. QED
  BY <1>1, TimesAssumption DEF Talk

LEMMA InitInv == Init => Inv
<1>1. Init => TypeOK
  BY Times, SMTT(30) DEF Init, TypeOK, NoEntry
<1>2. Init => Queried /\ Addressed /\ Held /\ JustSent /\ NotHeard /\ OneAddress
  BY DEF Init, Queried, Addressed, Held, JustSent, NotHeard, OneAddress, HasGrant, OnAir, Up
<1>. QED
  BY <1>1, <1>2 DEF Inv

-----------------------------------------------------------------------------
(* Every step preserves the invariant.  The dom's task touches neither the *)
(* hold nor a sub; one lemma for what does not, one for what does.         *)
LEMMA DomTaskInv == ASSUME Inv, DomTask \/ \E a \in Addrs : DomGrantFails(a)
                    PROVE  Inv'
<1>1. UNCHANGED <<hold, own, st, inq, tok, tleft, empty, auth, busy, load, kept, unheard>>
  BY DEF DomTask, DomRound, DomGrant, DomHear, DomTimeout, DomRoundEnd, DomPauseEnd,
         DomGrantFails, subVars, talkVars, ioVars
<1>2. Addressed' /\ Held' /\ JustSent' /\ NotHeard' /\ OneAddress'
  BY <1>1 DEF Inv, Addressed, Held, JustSent, NotHeard, OneAddress, HasGrant, OnAir, Up
<1>. DEFINE DomTypes == /\ active \subseteq Addrs
                        /\ pc \in {"round", "next", "wait", "pause"}
                        /\ todo \subseteq active
                        /\ cur \in Addrs \cup {NoAddr} /\ rnd \in 0 .. Rnds - 1
                        /\ left \in 0 .. Grant + RoundGap + 1
                        /\ silent \in [Addrs -> 0 .. NoEntry]
                        /\ inbox \in Seq([src : Addrs, rnd : 0 .. Rnds - 1])
                        /\ Len(inbox) <= TaskDepth
                        /\ grants \in Seq([to : Addrs, rnd : 0 .. Rnds - 1])
                        /\ faults \in 0 .. MaxFaults
                        /\ Queried
<1>3. DomTypes
  BY DEF Inv, TypeOK
<1>. SUFFICES DomTypes'
  BY <1>1, <1>2 DEF Inv, TypeOK
<1>. USE DEF Queried, NoEntry, tableVars
<1>4. CASE DomRound
  BY <1>3, <1>4, Times DEF DomRound
<1>5. ASSUME NEW a \in Addrs, DomGrant(a) PROVE DomTypes'
  <2>1. rnd' \in 0 .. Rnds - 1
    BY <1>5 DEF DomGrant
  <2>2. left' \in 0 .. Grant + RoundGap + 1 /\ pc' = "wait" /\ cur' = a /\ todo' = todo \ {a}
    BY <1>5, Times DEF DomGrant
  <2>3. grants' \in Seq([to : Addrs, rnd : 0 .. Rnds - 1])
    BY <1>3, <1>5, <2>1 DEF DomGrant
  <2>4. silent' \in [Addrs -> 0 .. Silence + 1]
    <3>1. 0 \in 0 .. Silence + 1
      BY Times
    <3>. QED
      BY <1>3, <1>5, <3>1 DEF DomGrant, Noted
  <2>. QED
    BY <1>3, <1>5, <2>1, <2>2, <2>3, <2>4 DEF DomGrant
<1>6. CASE DomHear
  <2>1. /\ Tail(inbox) \in Seq([src : Addrs, rnd : 0 .. Rnds - 1])
        /\ Len(Tail(inbox)) = Len(inbox) - 1 /\ Len(inbox) \in Nat
    BY <1>3, <1>6, HeadTailProperties, LenProperties DEF DomHear
  <2>2. inbox' \in Seq([src : Addrs, rnd : 0 .. Rnds - 1]) /\ Len(inbox') <= TaskDepth
    BY <1>3, <1>6, <2>1, Times DEF DomHear
  <2>3. /\ left' \in 0 .. Grant + RoundGap + 1 /\ rnd' \in 0 .. Rnds - 1
        /\ (pc' = "next" /\ cur' = NoAddr) \/ (pc' = "wait" /\ cur' = cur)
    BY <1>3, <1>6, Times, SMTT(30) DEF DomHear, Good
  <2>4. silent' \in [Addrs -> 0 .. Silence + 1]
    <3>1. 0 \in 0 .. Silence + 1
      BY Times
    <3>2. silent' = silent \/ silent' = [silent EXCEPT ![cur] = 0]
      BY <1>6 DEF DomHear
    <3>. QED
      BY <1>3, <3>1, <3>2
  <2>. QED
    BY <1>3, <1>6, <2>2, <2>3, <2>4 DEF DomHear
<1>7. CASE DomTimeout
  <2>1. active' \subseteq Addrs /\ todo' \subseteq active'
    BY <1>3, <1>7 DEF DomTimeout
  <2>2. silent' \in [Addrs -> 0 .. Silence + 1]
    <3>1. Silence + 1 \in 0 .. Silence + 1
      BY Times
    <3>2. silent' = silent \/ silent' = [silent EXCEPT ![cur] = Silence + 1]
      BY <1>7 DEF DomTimeout
    <3>. QED
      BY <1>3, <3>1, <3>2
  <2>. QED
    BY <1>3, <1>7, <2>1, <2>2, Times DEF DomTimeout
<1>8. CASE DomRoundEnd
  BY <1>3, <1>8, Times DEF DomRoundEnd
<1>9. CASE DomPauseEnd
  BY <1>3, <1>9 DEF DomPauseEnd
<1>10. ASSUME NEW a \in Addrs, DomGrantFails(a) PROVE DomTypes'
  <2>1. silent' \in [Addrs -> 0 .. Silence + 1]
    <3>1. 0 \in 0 .. Silence + 1
      BY Times
    <3>. QED
      BY <1>3, <1>10, <3>1 DEF DomGrantFails, Noted
  <2>. QED
    BY <1>3, <1>10, <2>1, Times DEF DomGrantFails, Fault
<1>. QED
  BY <1>4, <1>5, <1>6, <1>7, <1>8, <1>9, <1>10 DEF DomTask

(* When the hold is over nobody has a grant to read, talks or has a        *)
(* release to hand over.                                                   *)
LEMMA HoldOver == ASSUME Inv, hold = 0
                  PROVE  \A s \in Subs : inq[s] = << >> /\ st[s] \notin {"talk", "hand"}
<1>. TAKE s \in Subs
<1>1. inq[s] = << >>
  BY Times DEF Inv, JustSent
<1>2. tleft[s] \in Nat
  BY Times DEF Inv, TypeOK
<1>3. st[s] \notin {"talk", "hand"}
  BY <1>2, Times DEF Inv, Held
<1>. QED
  BY <1>1, <1>3

(* Who gets nothing new shares its address with the others as before.      *)
LEMMA NoNewGrant ==
  ASSUME Inv,
         \A t \in Subs : HasGrant(t)' /\ t \notin unheard' =>
                         HasGrant(t) /\ t \notin unheard /\ own'[t] = own[t]
  PROVE  OneAddress'
BY DEF Inv, OneAddress

LEMMA FaultType == ASSUME Inv, Fault \/ UNCHANGED faults PROVE faults' \in 0 .. MaxFaults
BY Times DEF Inv, TypeOK, Fault

LEMMA DomIoSendInv == ASSUME Inv, DomIoSend PROVE Inv'
<1>1. \A s \in Subs : inq[s] = << >> /\ st[s] \notin {"talk", "hand"}
  BY HoldOver DEF DomIoSend
<1>2. Head(grants) \in [to : Addrs, rnd : 0 .. Rnds - 1]
      /\ Tail(grants) \in Seq([to : Addrs, rnd : 0 .. Rnds - 1])
  BY HeadTailProperties DEF Inv, TypeOK, DomIoSend
<1>. DEFINE m == Head(grants).rnd
<1>3. m \in 0 .. Rnds - 1 /\ Append(<< >>, m) = << m >> /\ << m >> \in Seq(0 .. Rnds - 1)
  BY <1>2
<1>4. /\ inq' \in [Subs -> Seq(0 .. Rnds - 1)]
      /\ \A s \in Subs : inq'[s] # << >> => Hears(s, Head(grants).to) /\ inq'[s] = << m >>
  <2>1. CASE UNCHANGED inq
    BY <2>1, <1>1 DEF Inv, TypeOK
  <2>2. CASE Reaches(Head(grants))
    <3>1. ASSUME NEW s \in Subs
          PROVE  inq'[s] = << >> \/ (Hears(s, Head(grants).to) /\ inq'[s] = << m >>)
      <4>1. inq[s] = << >>
        BY <1>1
      <4>2. inq'[s] = IF Hears(s, Head(grants).to) /\ Len(inq[s]) < TaskDepth
                        THEN Append(inq[s], m) ELSE inq[s]
        BY <2>2 DEF Reaches
      <4>. HIDE DEF m
      <4>3. CASE Hears(s, Head(grants).to) /\ Len(inq[s]) < TaskDepth
        BY <4>1, <4>2, <4>3, <1>3
      <4>4. CASE ~(Hears(s, Head(grants).to) /\ Len(inq[s]) < TaskDepth)
        BY <4>1, <4>2, <4>4
      <4>. QED
        BY <4>3, <4>4
    <3>2. << >> \in Seq(0 .. Rnds - 1)
      OBVIOUS
    <3>3. DOMAIN inq' = Subs /\ inq' = [s \in Subs |-> inq'[s]]
      BY <2>2 DEF Reaches
    <3>. HIDE DEF m
    <3>. QED
      BY <3>1, <3>2, <3>3, <1>3
  <2>. QED
    BY <2>1, <2>2 DEF DomIoSend
<1>. HIDE DEF m
<1>5. /\ UNCHANGED <<active, silent, pc, todo, cur, rnd, left, inbox, own, st>>
      /\ UNCHANGED <<tok, tleft, empty, auth, busy, load, kept>>
      /\ hold' = Grant /\ unheard' = unheard \cup {s \in Subs : OnAir(s)}
  BY DEF DomIoSend, SendsOver, tableVars, taskVars, talkVars, ioVars
<1>6. TypeOK'
  <2>1. Fault \/ UNCHANGED faults
    BY DEF DomIoSend, Heeds
  <2>2. hold' \in 0 .. Grant /\ faults' \in 0 .. MaxFaults
    BY <1>5, <2>1, FaultType, Times
  <2>. QED
    BY <1>2, <1>4, <1>5, <2>2 DEF Inv, TypeOK, DomIoSend, NoEntry
<1>7. Queried' /\ Held' /\ NotHeard'
  BY <1>1, <1>5 DEF Inv, TypeOK, Queried, Held, NotHeard, OnAir
<1>8. Addressed'
  BY <1>4, <1>5 DEF Inv, Addressed, Hears, Up, OnAir
<1>9. JustSent'
  <2>1. Len(<< m >>) = 1
    OBVIOUS
  <2>. QED
    BY <1>1, <1>4, <1>5, <2>1 DEF JustSent, Hears, Up, OnAir
<1>10. OneAddress'
  BY <1>1, <1>4, <1>5 DEF OneAddress, HasGrant, Hears, OnAir
<1>. QED
  BY <1>6, <1>7, <1>8, <1>9, <1>10 DEF Inv

LEMMA OtherSendsInv == ASSUME Inv, OtherSends PROVE Inv'
<1>1. \A s \in Subs : inq[s] = << >> /\ st[s] \notin {"talk", "hand"}
  BY HoldOver DEF OtherSends
<1>2. /\ UNCHANGED <<active, silent, pc, todo, cur, rnd, left, inbox, grants, own, st, inq>>
      /\ UNCHANGED <<tok, tleft, empty, auth, busy, load, kept>>
      /\ hold' = Grant /\ unheard' = unheard \cup {s \in Subs : OnAir(s)}
      /\ faults' \in 0 .. MaxFaults
  BY FaultType DEF OtherSends, SendsOver, tableVars, taskVars, talkVars, ioVars, subVars
<1>3. TypeOK'
  BY <1>2, Times DEF Inv, TypeOK, NoEntry
<1>4. Queried' /\ Addressed' /\ Held' /\ JustSent' /\ NotHeard' /\ OneAddress'
  BY <1>1, <1>2 DEF Inv, TypeOK, Queried, Addressed, Held, JustSent, NotHeard, OneAddress,
                    HasGrant, OnAir, Up
<1>. QED
  BY <1>3, <1>4 DEF Inv

-----------------------------------------------------------------------------
LEMMA JoinInv == ASSUME Inv, NEW s \in Subs, NEW a \in Addrs, Join(s, a) PROVE Inv'
<1>1. /\ UNCHANGED <<silent, pc, todo, cur, rnd, left, inbox, grants, hold, inq, tok, tleft, empty>>
      /\ UNCHANGED <<auth, busy, load, kept, unheard, faults>>
      /\ st[s] = "off" /\ active' = active \cup {a}
      /\ own' = [own EXCEPT ![s] = a] /\ st' = [st EXCEPT ![s] = "listen"]
  BY DEF Join, taskVars, talkVars, ioVars
<1>2. TypeOK'
  BY <1>1 DEF Inv, TypeOK, NoEntry
<1>3. inq[s] = << >> /\ ~OnAir(s)
  BY <1>1 DEF Inv, Addressed, Up
<1>4. Queried' /\ Addressed' /\ Held' /\ JustSent' /\ NotHeard'
  BY <1>1, <1>3 DEF Inv, TypeOK, Queried, Addressed, Held, JustSent, NotHeard, OnAir, Up
<1>5. ASSUME NEW t \in Subs, HasGrant(t)', t \notin unheard'
      PROVE  HasGrant(t) /\ t \notin unheard /\ own'[t] = own[t]
  BY <1>1, <1>3, <1>5 DEF Inv, TypeOK, HasGrant, OnAir
<1>6. OneAddress'
  BY <1>5, NoNewGrant
<1>. QED
  BY <1>2, <1>4, <1>6 DEF Inv

LEMMA DieInv == ASSUME Inv, NEW s \in Subs, Die(s) PROVE Inv'
<1>1. TypeOK'
  <2>1. << >> \in Seq(0 .. Rnds - 1) /\ 0 \in 0 .. Talk + Nap /\ 0 \in 0 .. MaxLoad
        /\ 0 \in 0 .. Frame
    BY Times
  <2>. QED
    BY <2>1, Times DEF Die, Inv, TypeOK, domVars, tableVars, taskVars, NoEntry
<1>2. /\ Up(s) /\ UNCHANGED <<pc, todo, cur, hold>> /\ unheard' = unheard \ {s}
      /\ inq'[s] = << >> /\ kept'[s] = << >> /\ ~OnAir(s)' /\ st'[s] = "dead"
      /\ \A t \in Subs \ {s} :
           /\ own'[t] = own[t] /\ st'[t] = st[t] /\ inq'[t] = inq[t] /\ kept'[t] = kept[t]
           /\ tleft'[t] = tleft[t] /\ busy'[t] = busy[t] /\ auth'[t] = auth[t]
  BY DEF Die, OnAir, Inv, TypeOK, domVars, taskVars
<1>3. Queried' /\ Addressed' /\ Held' /\ JustSent' /\ NotHeard'
  <2>1. \A t \in Subs \ {s} : (Up(t)' <=> Up(t)) /\ (OnAir(t)' <=> OnAir(t))
    BY <1>2 DEF OnAir, Up
  <2>2. ~Up(s)'
    BY <1>2 DEF Up
  <2>3. Queried' /\ Addressed'
    BY <1>2, <2>1, <2>2 DEF Inv, Queried, Addressed
  <2>4. Held' /\ JustSent'
    BY <1>2, <2>1 DEF Inv, Held, JustSent
  <2>5. NotHeard'
    BY <1>2, <2>1 DEF Inv, TypeOK, NotHeard
  <2>. QED
    BY <2>3, <2>4, <2>5
<1>4. \A t \in Subs : HasGrant(t)' /\ t \notin unheard' =>
                      HasGrant(t) /\ t \notin unheard /\ own'[t] = own[t]
  BY <1>2 DEF HasGrant, OnAir
<1>5. OneAddress'
  BY <1>4, NoNewGrant
<1>. QED
  BY <1>1, <1>3, <1>5 DEF Inv

LEMMA QueueInv == ASSUME Inv, NEW s \in Subs, Queue(s) PROVE Inv'
<1>1. load[s] + 1 \in 0 .. MaxLoad
  BY Times DEF Queue, Inv, TypeOK
<1>2. load' \in [Subs -> 0 .. MaxLoad]
  BY <1>1 DEF Queue, Inv, TypeOK
<1>3. /\ UNCHANGED <<active, silent, pc, todo, cur, rnd, left, inbox, grants, hold>>
      /\ UNCHANGED <<own, st, inq, tok, tleft, empty, auth, busy, kept, unheard, faults>>
  BY DEF Queue, domVars, tableVars, taskVars, talkVars
<1>4. TypeOK'
  BY <1>2, <1>3 DEF Inv, TypeOK, NoEntry
<1>. QED
  BY <1>3, <1>4 DEF Inv, Queried, Addressed, Held, JustSent, NotHeard, OneAddress, HasGrant,
                    OnAir, Up

-----------------------------------------------------------------------------
LEMMA SubHearInv == ASSUME Inv, NEW s \in Subs, SubHear(s) PROVE Inv'
<1>1. /\ Head(inq[s]) \in 0 .. Rnds - 1
      /\ Tail(inq[s]) \in Seq(0 .. Rnds - 1) /\ Len(Tail(inq[s])) = Len(inq[s]) - 1
  BY HeadTailProperties DEF Inv, TypeOK, SubHear
<1>2. Tail(inq[s]) = << >> /\ hold = Grant /\ ~OnAir(s) /\ s \notin unheard
  <2>1. Len(inq[s]) = 1 /\ hold = Grant /\ ~OnAir(s)
    BY DEF Inv, JustSent, SubHear
  <2>. DEFINE q == Tail(inq[s])
  <2>2. q \in Seq(0 .. Rnds - 1) /\ Len(q) = 0
    BY <1>1, <2>1
  <2>. HIDE DEF q
  <2>3. q = << >>
    BY <2>2, EmptySeq
  <2>. QED
    BY <2>1, <2>3 DEF q, Inv, NotHeard
<1>3. /\ UNCHANGED <<active, silent, pc, todo, cur, rnd, left, inbox, grants, hold>>
      /\ UNCHANGED <<own, busy, load, kept, unheard, faults>>
      /\ st' = [st EXCEPT ![s] = "talk"] /\ auth' = [auth EXCEPT ![s] = TRUE]
      /\ inq' = [inq EXCEPT ![s] = << >>] /\ st[s] = "listen" /\ inq[s] # << >>
      /\ tleft' = [tleft EXCEPT ![s] = Talk + Nap]
  BY <1>2 DEF SubHear, TalkTime, domVars, tableVars, taskVars
<1>4. TypeOK'
  <2>1. /\ inq' \in [Subs -> Seq(0 .. Rnds - 1)] /\ tok' \in [Subs -> 0 .. Rnds - 1]
        /\ auth' \in [Subs -> BOOLEAN] /\ empty' \in [Subs -> BOOLEAN]
        /\ st' \in [Subs -> {"off", "listen", "talk", "hand", "dead"}]
    BY <1>1, <1>3 DEF Inv, TypeOK, SubHear
  <2>2. tleft' \in [Subs -> 0 .. Talk + Nap]
    <3>1. Talk + Nap \in 0 .. Talk + Nap
      BY Times
    <3>. QED
      BY <1>3, <3>1 DEF Inv, TypeOK
  <2>. QED
    BY <1>3, <2>1, <2>2 DEF Inv, TypeOK, NoEntry
<1>5. Queried' /\ Addressed'
  BY <1>3 DEF Inv, TypeOK, Queried, Addressed, Up, OnAir
<1>6. Held'
  <2>1. hold' = Grant /\ tleft'[s] = Talk + Nap
        /\ \A t \in Subs : t # s => tleft'[t] = tleft[t] /\ st'[t] = st[t] /\ hold' = hold
    BY <1>2, <1>3 DEF Inv, TypeOK
  <2>. QED
    BY <2>1, Times DEF Inv, Held
<1>7. JustSent' /\ NotHeard'
  BY <1>2, <1>3 DEF Inv, TypeOK, JustSent, NotHeard, OnAir
<1>8. OneAddress'
  <2>1. \A t \in Subs : HasGrant(t)' => HasGrant(t)
    BY <1>3 DEF Inv, TypeOK, HasGrant, OnAir
  <2>. QED
    BY <1>3, <2>1 DEF Inv, OneAddress
<1>. QED
  BY <1>4, <1>5, <1>6, <1>7, <1>8 DEF Inv

LEMMA SubAuthInv == ASSUME Inv, NEW s \in Subs, SubAuth(s) PROVE Inv'
<1>1. /\ UNCHANGED <<active, silent, pc, todo, cur, rnd, left, inbox, grants, hold>>
      /\ UNCHANGED <<own, st, inq, tok, tleft, empty, busy, load, kept, unheard, faults>>
      /\ auth' = [auth EXCEPT ![s] = TRUE] /\ st[s] = "talk"
  BY DEF SubAuth, domVars, tableVars, taskVars, talkVars
<1>2. TypeOK'
  BY <1>1 DEF Inv, TypeOK, NoEntry
<1>3. Queried' /\ Addressed' /\ Held' /\ JustSent' /\ NotHeard'
  BY <1>1 DEF Inv, TypeOK, Queried, Addressed, Held, JustSent, NotHeard, OnAir, Up
<1>4. OneAddress'
  <2>1. \A t \in Subs : HasGrant(t)' => HasGrant(t)
    BY <1>1 DEF Inv, TypeOK, HasGrant, OnAir
  <2>. QED
    BY <1>1, <2>1 DEF Inv, OneAddress
<1>. QED
  BY <1>2, <1>3, <1>4 DEF Inv

LEMMA SubReleaseInv == ASSUME Inv, NEW s \in Subs, SubRelease(s) PROVE Inv'
<1>1. /\ UNCHANGED <<active, silent, pc, todo, cur, rnd, left, inbox, grants, hold>>
      /\ UNCHANGED <<own, inq, busy, load, kept, unheard>>
      /\ st[s] = "talk" /\ tleft' = [tleft EXCEPT ![s] = 0] /\ empty' = [empty EXCEPT ![s] = FALSE]
      /\ st' = [st EXCEPT ![s] = "hand"] \/ st' = [st EXCEPT ![s] = "listen"]
      /\ auth' = [auth EXCEPT ![s] = TRUE] \/ auth' = auth
      /\ tok' = [tok EXCEPT ![s] = 0] \/ tok' = tok
      /\ faults' \in 0 .. MaxFaults
  BY FaultType DEF SubRelease, domVars, tableVars, taskVars
<1>2. TypeOK'
  <2>1. 0 \in 0 .. Talk + Nap
    BY Times
  <2>2. /\ tleft \in [Subs -> 0 .. Talk + Nap] /\ tok \in [Subs -> 0 .. Rnds - 1]
        /\ empty \in [Subs -> BOOLEAN] /\ auth \in [Subs -> BOOLEAN]
        /\ st \in [Subs -> {"off", "listen", "talk", "hand", "dead"}]
    BY DEF Inv, TypeOK
  <2>3. tleft' \in [Subs -> 0 .. Talk + Nap] /\ tok' \in [Subs -> 0 .. Rnds - 1]
    BY <1>1, <2>1, <2>2, Times
  <2>4. empty' \in [Subs -> BOOLEAN] /\ auth' \in [Subs -> BOOLEAN]
    BY <1>1, <2>2
  <2>5. st' \in [Subs -> {"off", "listen", "talk", "hand", "dead"}]
    BY <1>1, <2>2
  <2>. QED
    BY <1>1, <2>3, <2>4, <2>5 DEF Inv, TypeOK, NoEntry
<1>3. Queried' /\ Addressed' /\ JustSent' /\ NotHeard'
  <2>1. /\ Up(s) /\ Up(s)' /\ inq[s] = << >> /\ s \notin unheard
        /\ \A t \in Subs \ {s} : st'[t] = st[t] /\ auth'[t] = auth[t]
    BY <1>1 DEF Inv, TypeOK, JustSent, NotHeard, Up
  <2>2. \A t \in Subs \ {s} : (Up(t)' <=> Up(t)) /\ (OnAir(t)' <=> OnAir(t))
    BY <1>1, <2>1 DEF OnAir, Up
  <2>3. Queried' /\ Addressed'
    BY <1>1, <2>1, <2>2 DEF Inv, Queried, Addressed
  <2>4. JustSent'
    BY <1>1, <2>1, <2>2 DEF Inv, JustSent
  <2>5. NotHeard'
    BY <1>1, <2>1, <2>2 DEF Inv, TypeOK, NotHeard
  <2>. QED
    BY <2>3, <2>4, <2>5
<1>4. Held'
  <2>1. /\ tleft[s] \in Nat /\ tleft'[s] = 0 /\ hold' = hold /\ hold \in Nat
        /\ \A t \in Subs : t # s => tleft'[t] = tleft[t] /\ st'[t] = st[t]
    BY <1>1, Times, SMTT(30) DEF Inv, TypeOK
  <2>. QED
    BY <1>1, <2>1, Times DEF Inv, Held
<1>5. OneAddress'
  <2>1. \A t \in Subs : HasGrant(t)' => HasGrant(t)
    BY <1>1 DEF Inv, TypeOK, HasGrant, OnAir
  <2>. QED
    BY <1>1, <2>1 DEF Inv, OneAddress
<1>. QED
  BY <1>2, <1>3, <1>4, <1>5 DEF Inv

LEMMA SubHandOverInv == ASSUME Inv, NEW s \in Subs, SubHandOver(s) PROVE Inv'
<1>1. /\ UNCHANGED <<active, silent, pc, todo, cur, rnd, left, inbox, grants, hold>>
      /\ UNCHANGED <<own, inq, tleft, empty, auth, busy, load, unheard, faults>>
      /\ st[s] = "hand" /\ st' = [st EXCEPT ![s] = "listen"] /\ tok' = [tok EXCEPT ![s] = 0]
      /\ kept' = [kept EXCEPT ![s] = Append(kept[s], tok[s])]
  BY DEF SubHandOver, domVars, tableVars, taskVars
<1>2. TypeOK'
  <2>1. kept' \in [Subs -> Seq(0 .. Rnds - 1)] /\ tok' \in [Subs -> 0 .. Rnds - 1]
        /\ st' \in [Subs -> {"off", "listen", "talk", "hand", "dead"}]
    BY <1>1, Times DEF Inv, TypeOK
  <2>. QED
    BY <1>1, <2>1 DEF Inv, TypeOK, NoEntry
<1>3. Queried' /\ Addressed' /\ Held' /\ JustSent' /\ NotHeard'
  BY <1>1 DEF Inv, TypeOK, Queried, Addressed, Held, JustSent, NotHeard, OnAir, Up
<1>4. OneAddress'
  <2>1. \A t \in Subs : HasGrant(t)' => HasGrant(t)
    BY <1>1 DEF Inv, TypeOK, HasGrant, OnAir
  <2>. QED
    BY <1>1, <2>1, NoNewGrant
<1>. QED
  BY <1>2, <1>3, <1>4 DEF Inv

-----------------------------------------------------------------------------
LEMMA SubIoSendInv == ASSUME Inv, NEW s \in Subs, SubIoSend(s) PROVE Inv'
<1>. PICK n \in 1 .. Frame : busy' = [busy EXCEPT ![s] = n]
  BY DEF SubIoSend
<1>1. /\ UNCHANGED <<active, silent, pc, todo, cur, rnd, left, inbox, grants, hold>>
      /\ UNCHANGED <<own, st, inq, tok, tleft, empty, kept, unheard>>
      /\ auth[s] /\ auth' = [auth EXCEPT ![s] = FALSE]
      /\ load[s] > 0 /\ load' = [load EXCEPT ![s] = load[s] - 1]
      /\ faults' \in 0 .. MaxFaults
  BY FaultType DEF SubIoSend, MayGo, Overtakes, domVars, tableVars, taskVars, talkVars
<1>2. n > 0 /\ n \in 0 .. Frame
  BY Times
<1>3. TypeOK'
  <2>1. load' \in [Subs -> 0 .. MaxLoad]
    <3>1. load[s] \in 0 .. MaxLoad /\ load[s] > 0
      BY <1>1 DEF Inv, TypeOK
    <3>2. load[s] - 1 \in 0 .. MaxLoad
      BY <3>1, Times
    <3>. QED
      BY <1>1, <3>2 DEF Inv, TypeOK
  <2>2. auth' \in [Subs -> BOOLEAN] /\ busy' \in [Subs -> 0 .. Frame]
    BY <1>1, <1>2 DEF Inv, TypeOK
  <2>. QED
    BY <1>1, <2>1, <2>2 DEF Inv, TypeOK, NoEntry
<1>4. Queried' /\ Addressed' /\ Held' /\ JustSent' /\ NotHeard'
  BY <1>1, <1>2 DEF Inv, TypeOK, Queried, Addressed, Held, JustSent, NotHeard, OnAir, Up
<1>5. OneAddress'
  <2>1. \A t \in Subs : HasGrant(t)' => HasGrant(t)
    BY <1>1 DEF Inv, TypeOK, HasGrant, OnAir
  <2>. QED
    BY <1>1, <2>1 DEF Inv, OneAddress
<1>. QED
  BY <1>3, <1>4, <1>5 DEF Inv

LEMMA SubIoEmptyInv == ASSUME Inv, NEW s \in Subs, SubIoEmpty(s) PROVE Inv'
<1>1. /\ UNCHANGED <<active, silent, pc, todo, cur, rnd, left, inbox, grants, hold>>
      /\ UNCHANGED <<own, st, inq, tok, tleft, busy, load, kept>>
      /\ auth[s] /\ busy[s] = 0 /\ auth' = [auth EXCEPT ![s] = FALSE]
      /\ empty' = [empty EXCEPT ![s] = (st[s] = "talk")] /\ unheard' = unheard \ {s}
      /\ faults' \in 0 .. MaxFaults
  BY FaultType DEF SubIoEmpty, MayGo, Overtakes, domVars, tableVars, taskVars
<1>2. TypeOK'
  BY <1>1 DEF Inv, TypeOK, NoEntry
<1>3. Queried' /\ Addressed' /\ Held' /\ JustSent' /\ NotHeard'
  BY <1>1 DEF Inv, TypeOK, Queried, Addressed, Held, JustSent, NotHeard, OnAir, Up
<1>4. OneAddress'
  <2>1. JustSent /\ NotHeard /\ OnAir(s)
    BY <1>1 DEF Inv, OnAir
  <2>2. ASSUME NEW t \in Subs, HasGrant(t)', t \notin unheard'
        PROVE  HasGrant(t) /\ t \notin unheard /\ own'[t] = own[t]
    <3>1. CASE t = s
      <4>1. ~OnAir(s)' /\ inq[s] = << >> /\ inq' = inq /\ st' = st
        BY <1>1, <2>1 DEF Inv, TypeOK, OnAir, JustSent
      <4>. QED
        BY <1>1, <2>1, <2>2, <3>1, <4>1 DEF HasGrant, NotHeard
    <3>2. CASE t # s
      BY <1>1, <2>2, <3>2 DEF Inv, TypeOK, HasGrant, OnAir
    <3>. QED
      BY <3>1, <3>2
  <2>. QED
    BY <2>2, NoNewGrant
<1>. QED
  BY <1>2, <1>3, <1>4 DEF Inv

LEMMA SubIoReleaseInv == ASSUME Inv, NEW s \in Subs, SubIoRelease(s) PROVE Inv'
<1>. DEFINE Msgs == [src : Addrs, rnd : 0 .. Rnds - 1]
            m    == [src |-> own[s], rnd |-> Head(kept[s])]
<1>1. /\ UNCHANGED <<active, silent, pc, todo, cur, rnd, left, grants, hold>>
      /\ UNCHANGED <<own, st, inq, tok, tleft, empty, busy, load>>
      /\ auth[s] /\ busy[s] = 0 /\ kept[s] # << >> /\ auth' = [auth EXCEPT ![s] = FALSE]
      /\ kept' = [kept EXCEPT ![s] = Tail(kept[s])] /\ unheard' = unheard \ {s}
      /\ (Len(inbox) < TaskDepth /\ inbox' = Append(inbox, m)) \/ UNCHANGED inbox
      /\ faults' \in 0 .. MaxFaults
  BY FaultType DEF SubIoRelease, MayGo, Overtakes, tableVars, taskVars, talkVars
<1>2. /\ Head(kept[s]) \in 0 .. Rnds - 1 /\ Tail(kept[s]) \in Seq(0 .. Rnds - 1)
      /\ Up(s) /\ own[s] \in Addrs
  BY <1>1, HeadTailProperties DEF Inv, TypeOK, Addressed
<1>3. m \in Msgs
  BY <1>2
<1>4. inbox' \in Seq(Msgs) /\ Len(inbox') <= TaskDepth
  <2>1. inbox \in Seq(Msgs) /\ Len(inbox) <= TaskDepth
    BY DEF Inv, TypeOK
  <2>2. CASE Len(inbox) < TaskDepth /\ inbox' = Append(inbox, m)
    <3>. HIDE DEF m, Msgs
    <3>1. Append(inbox, m) \in Seq(Msgs) /\ Len(Append(inbox, m)) = Len(inbox) + 1
      BY <1>3, <2>1, AppendProperties
    <3>. QED
      BY <2>1, <2>2, <3>1, Times, LenProperties
  <2>3. CASE UNCHANGED inbox
    BY <2>1, <2>3
  <2>. QED
    BY <1>1, <2>2, <2>3
<1>5. TypeOK'
  <2>1. kept' \in [Subs -> Seq(0 .. Rnds - 1)] /\ auth' \in [Subs -> BOOLEAN]
    BY <1>1, <1>2 DEF Inv, TypeOK
  <2>. QED
    BY <1>1, <1>4, <2>1 DEF Inv, TypeOK, NoEntry
<1>6. Queried' /\ Held' /\ JustSent' /\ NotHeard'
  BY <1>1 DEF Inv, TypeOK, Queried, Held, JustSent, NotHeard, OnAir
<1>7. Addressed'
  BY <1>1, <1>2 DEF Inv, TypeOK, Addressed, Up, OnAir
<1>8. OneAddress'
  <2>1. JustSent /\ NotHeard /\ OnAir(s)
    BY <1>1 DEF Inv, OnAir
  <2>2. ASSUME NEW t \in Subs, HasGrant(t)', t \notin unheard'
        PROVE  HasGrant(t) /\ t \notin unheard /\ own'[t] = own[t]
    <3>1. CASE t = s
      <4>1. ~OnAir(s)' /\ inq[s] = << >> /\ inq' = inq /\ st' = st
        BY <1>1, <2>1 DEF Inv, TypeOK, OnAir, JustSent
      <4>. QED
        BY <1>1, <2>1, <2>2, <3>1, <4>1 DEF HasGrant, NotHeard
    <3>2. CASE t # s
      BY <1>1, <2>2, <3>2 DEF Inv, TypeOK, HasGrant, OnAir
    <3>. QED
      BY <3>1, <3>2
  <2>. QED
    BY <2>2, NoNewGrant
<1>. QED
  BY <1>5, <1>6, <1>7, <1>8 DEF Inv

-----------------------------------------------------------------------------
LEMMA TickInv == ASSUME Inv, Tick PROVE Inv'
<1>1. \A s \in Subs : /\ inq[s] = << >> /\ st[s] # "hand"
                      /\ (st[s] = "talk" => tleft[s] > 0)
  BY DEF Tick, SubDue, Inv, TypeOK, JustSent
<1>2. /\ UNCHANGED <<active, pc, todo, cur, rnd, inbox, grants, own, st, inq, tok, empty>>
      /\ UNCHANGED <<auth, load, kept, faults>>
      /\ left' = Less(left) /\ hold' = Less(hold)
      /\ tleft' = [s \in Subs |-> Less(tleft[s])]
      /\ silent' = [a \in Addrs |-> Later(silent[a])]
      /\ busy' = [s \in Subs |-> Less(busy[s])]
      /\ unheard' = {s \in unheard : busy'[s] > 0 \/ auth[s]}
  BY DEF Tick
<1>3. TypeOK'
  <2>1. left' \in 0 .. Grant + RoundGap + 1 /\ hold' \in 0 .. Grant
    BY <1>2, Times DEF Less, Inv, TypeOK
  <2>2. tleft' \in [Subs -> 0 .. Talk + Nap] /\ busy' \in [Subs -> 0 .. Frame]
    BY <1>2, Times, SMTT(30) DEF Less, Inv, TypeOK
  <2>3. silent' \in [Addrs -> 0 .. Silence + 1]
    BY <1>2, Times DEF Later, Inv, TypeOK, NoEntry
  <2>. QED
    BY <1>2, <2>1, <2>2, <2>3 DEF Inv, TypeOK, NoEntry
<1>4. Held'
  BY <1>1, <1>2, Times, SMTT(30) DEF Less, Inv, TypeOK, Held
<1>5. \A s \in Subs : OnAir(s)' => OnAir(s)
  BY <1>2 DEF OnAir, Less, Inv, TypeOK
<1>6. Queried' /\ Addressed' /\ JustSent'
  BY <1>1, <1>2, <1>5 DEF Inv, Queried, Addressed, JustSent, Up
<1>7. NotHeard'
  BY <1>2 DEF Inv, NotHeard, OnAir
<1>8. OneAddress'
  <2>1. \A s \in Subs : HasGrant(s)' /\ s \notin unheard' => HasGrant(s) /\ s \notin unheard
    BY <1>1, <1>2, <1>5 DEF HasGrant, Inv, NotHeard, OnAir
  <2>. QED
    BY <1>2, <2>1 DEF Inv, OneAddress
<1>. QED
  BY <1>3, <1>4, <1>6, <1>7, <1>8 DEF Inv

LEMMA NextInv == ASSUME Inv, [Next]_vars PROVE Inv'
<1>1. CASE UNCHANGED vars
  BY <1>1 DEF vars, domVars, tableVars, taskVars, subVars, talkVars, ioVars, Inv, TypeOK, Queried,
              Addressed, Held, JustSent, NotHeard, OneAddress, HasGrant, OnAir, Up
<1>2. CASE Next
  BY <1>2, DomTaskInv, DomIoSendInv, OtherSendsInv, JoinInv, DieInv, QueueInv, SubHearInv,
     SubAuthInv, SubReleaseInv, SubHandOverInv, SubIoSendInv, SubIoReleaseInv, SubIoEmptyInv,
     TickInv DEF Next, SubTask, SubIo
<1>. QED
  BY <1>1, <1>2

-----------------------------------------------------------------------------
(* The inductive invariant holds in every reachable state.                 *)
THEOREM Invariance == Spec => []Inv
BY InitInv, NextInv, PTL DEF Spec

(* Type correctness of the dom's task, its driver and the subs.            *)
THEOREM TypeCorrect == Spec => []TypeOK
<1>1. Inv => TypeOK
  BY DEF Inv
<1>. QED
  BY <1>1, Invariance, PTL

(* Two addresses never talk at once, and no sub authorizes its driver when *)
(* the dom's may send, however long messages take and however late the     *)
(* dom's task is with its waits, but for a sub that the dom does not hear. *)
THEOREM NeverTwoTalkers == Spec => []OneTalker
<1>1. ASSUME Inv PROVE OneTalker
  <2>1. ASSUME NEW s \in Subs, st[s] = "talk" PROVE hold > 0 /\ s \notin unheard
    <3>1. hold \in Nat /\ tleft[s] \in Nat /\ hold + Talk + Nap >= Grant + tleft[s]
      BY <1>1, <2>1, Times DEF Inv, TypeOK, Held
    <3>. QED
      BY <1>1, <2>1, <3>1, Times DEF Inv, NotHeard
  <2>2. ASSUME NEW s \in Subs, NEW t \in Subs, Talking(s), Talking(t)
        PROVE  own[s] = own[t] \/ {s, t} \cap unheard # {}
    BY <1>1, <2>2 DEF Inv, OneAddress, HasGrant, Talking
  <2>. QED
    BY <2>1, <2>2 DEF OneTalker
<1>. QED
  BY <1>1, Invariance, PTL

-----------------------------------------------------------------------------
(* The answer.  As long as the grant the dom waits for is still queued, it *)
(* is the last one there and nothing else carries its number.              *)
GrantMsgs == [to : Addrs, rnd : 0 .. Rnds - 1]

LastGrant == /\ grants[Len(grants)].rnd = rnd
             /\ \A k \in 1 .. Len(grants) - 1 : grants[k].rnd # rnd

NotInbox == \A k \in 1 .. Len(inbox) : inbox[k].rnd # rnd

Holds(s) == st[s] \in {"talk", "hand"}

NotWithSub(s) == /\ \A k \in 1 .. Len(inq[s]) : inq[s][k] # rnd
                 /\ Holds(s) => tok[s] # rnd
                 /\ \A k \in 1 .. Len(kept[s]) : kept[s][k] # rnd

Unsent == pc = "wait" /\ grants # << >> =>
            LastGrant /\ NotInbox /\ \A s \in Subs : NotWithSub(s)

LEMMA GrantUnsent ==
  ASSUME Inv, NEW a \in Addrs, DomGrant(a)
  PROVE  Unsent'
<1>1. /\ grants \in Seq(GrantMsgs) /\ Len(grants) \in Nat
      /\ rnd' \notin InUse /\ UNCHANGED <<inbox, inq, st, tok, kept>>
  BY DEF Inv, TypeOK, DomGrant, GrantMsgs, subVars, talkVars, ioVars
<1> DEFINE g == [to |-> a, rnd |-> rnd']
<1>2. g \in GrantMsgs /\ g.rnd = rnd' /\ grants' = Append(grants, g)
  BY DEF Inv, TypeOK, DomGrant, GrantMsgs
<1> HIDE DEF g
<1>3. /\ Len(grants') = Len(grants) + 1 /\ grants'[Len(grants) + 1] = g
      /\ \A k \in 1 .. Len(grants) : grants'[k] = grants[k]
  BY <1>1, <1>2, AppendProperties
<1>4. ASSUME NEW k \in 1 .. Len(grants) PROVE grants[k].rnd # rnd'
  BY <1>1 DEF InUse
<1>5. LastGrant'
  <2>1. \A k \in 1 .. Len(grants') - 1 : k \in 1 .. Len(grants)
    BY <1>1, <1>3
  <2>2. QED
    BY <1>2, <1>3, <1>4, <2>1 DEF LastGrant
<1>6. NotInbox'
  <2>1. ASSUME NEW k \in 1 .. Len(inbox) PROVE inbox[k].rnd # rnd'
    <3>1. k \in DOMAIN inbox
      BY DEF Inv, TypeOK
    <3>2. QED
      BY <1>1, <3>1 DEF InUse
  <2>2. QED
    BY <1>1, <2>1 DEF NotInbox
<1>7. ASSUME NEW s \in Subs PROVE NotWithSub(s)'
  <2>1. \A n \in Carries(s) : n # rnd'
    <3>1. Carries(s) \subseteq InUse
      BY Zenon DEF InUse
    <3>2. QED
      BY <1>1, <3>1
  <2>2. ASSUME NEW k \in 1 .. Len(inq[s]) PROVE inq[s][k] # rnd'
    <3>1. k \in DOMAIN inq[s]
      BY DEF Inv, TypeOK
    <3>2. QED
      BY <2>1, <3>1 DEF Carries
  <2>3. ASSUME NEW k \in 1 .. Len(kept[s]) PROVE kept[s][k] # rnd'
    <3>1. k \in DOMAIN kept[s]
      BY DEF Inv, TypeOK
    <3>2. QED
      BY <2>1, <3>1 DEF Carries
  <2>4. Holds(s) => tok[s] # rnd'
    BY <2>1 DEF Carries, Holds
  <2>5. QED
    BY <1>1, <2>2, <2>3, <2>4 DEF NotWithSub, Holds
<1>8. QED
  BY <1>5, <1>6, <1>7 DEF Unsent

LEMMA HearUnsent ==
  ASSUME Inv, Unsent, DomHear
  PROVE  /\ Unsent'
         /\ pc' = "next" => grants = << >>
<1>1. /\ inbox # << >> /\ inbox' = Tail(inbox) /\ pc = "wait"
      /\ UNCHANGED <<grants, inq, st, tok, kept>>
      /\ pc' = "next" \/ (pc' = "wait" /\ rnd' = rnd)
  BY DEF DomHear, subVars, talkVars, ioVars
<1>2. /\ Len(inbox) \in Nat \ {0} /\ Head(inbox) = inbox[1]
      /\ Len(Tail(inbox)) = Len(inbox) - 1
      /\ \A k \in 1 .. Len(Tail(inbox)) : Tail(inbox)[k] = inbox[k + 1]
  BY <1>1, HeadTailProperties DEF Inv, TypeOK
<1>3. rnd' = rnd /\ NotInbox => NotInbox'
  <2>1. \A k \in 1 .. Len(inbox') : k + 1 \in 1 .. Len(inbox) /\ inbox'[k] = inbox[k + 1]
    BY <1>1, <1>2
  <2>2. QED
    BY <1>1, <2>1 DEF NotInbox
<1>4. Unsent'
  BY <1>1, <1>3 DEF Unsent, LastGrant, NotWithSub, Holds
<1>5. ASSUME pc' = "next", grants # << >> PROVE FALSE
  <2>1. Head(inbox).rnd = rnd
    BY <1>1, <1>5 DEF DomHear, Good
  <2>2. 1 \in 1 .. Len(inbox)
    BY <1>2
  <2>3. inbox[1].rnd # rnd
    BY <1>1, <1>5, <2>2 DEF Unsent, NotInbox
  <2>4. QED
    BY <1>2, <2>1, <2>3
<1>6. QED
  BY <1>4, <1>5

LEMMA SentUnsent ==
  ASSUME Inv, Unsent, DomIoSend
  PROVE  Unsent'
<1>1. /\ grants # << >> /\ grants' = Tail(grants) /\ grants \in Seq(GrantMsgs)
      /\ UNCHANGED <<pc, rnd, inbox, st, tok, kept>>
      /\ inq \in [Subs -> Seq(0 .. Rnds - 1)]
  BY DEF DomIoSend, taskVars, talkVars, ioVars, Inv, TypeOK, GrantMsgs
<1>2. /\ Len(grants) \in Nat \ {0} /\ Head(grants) = grants[1]
      /\ Len(Tail(grants)) = Len(grants) - 1
      /\ \A k \in 1 .. Len(Tail(grants)) : Tail(grants)[k] = grants[k + 1]
      /\ grants[1].rnd \in 0 .. Rnds - 1
  <2>1. grants[1] \in GrantMsgs
    BY <1>1
  <2>2. QED
    BY <1>1, <2>1, HeadTailProperties DEF GrantMsgs
<1> SUFFICES ASSUME pc = "wait", Tail(grants) # << >>
             PROVE  (LastGrant /\ NotInbox /\ \A s \in Subs : NotWithSub(s))'
  BY <1>1 DEF Unsent
<1>3. LastGrant /\ NotInbox /\ \A s \in Subs : NotWithSub(s)
  BY <1>1 DEF Unsent
<1>4. Len(grants) >= 2
  <2>1. Tail(grants) \in Seq(GrantMsgs)
    BY <1>1, HeadTailProperties
  <2>2. Len(Tail(grants)) # 0
    BY <2>1, EmptySeq
  <2>3. QED
    BY <1>2, <2>2
<1>5. grants[1].rnd # rnd
  BY <1>2, <1>3, <1>4 DEF LastGrant
<1>6. LastGrant'
  <2>1. Len(grants') = Len(grants) - 1 /\ Len(grants') \in 1 .. Len(grants')
    BY <1>1, <1>2, <1>4
  <2>2. grants'[Len(grants')] = grants[Len(grants)]
    <3>1. grants'[Len(grants')] = grants[Len(grants') + 1] /\ Len(grants') + 1 = Len(grants)
      BY <1>1, <1>2, <2>1
    <3>2. QED
      BY <3>1
  <2>3. \A k \in 1 .. Len(grants') - 1 :
          grants'[k] = grants[k + 1] /\ k + 1 \in 1 .. Len(grants) - 1
    BY <1>1, <1>2, <2>1
  <2>4. QED
    BY <1>1, <1>3, <2>2, <2>3 DEF LastGrant
<1>7. NotInbox'
  BY <1>1, <1>3 DEF NotInbox
<1>8. ASSUME NEW s \in Subs PROVE NotWithSub(s)'
  <2> DEFINE m == Head(grants).rnd
  <2>1. m # rnd /\ m \in 0 .. Rnds - 1
    BY <1>2, <1>5
  <2>2. inq'[s] = inq[s] \/ inq'[s] = Append(inq[s], m)
    BY <1>1 DEF DomIoSend, Reaches
  <2> HIDE DEF m
  <2>3. inq[s] \in Seq(0 .. Rnds - 1) /\ \A k \in 1 .. Len(inq[s]) : inq[s][k] # rnd
    BY <1>1, <1>3 DEF NotWithSub
  <2>4. \A k \in 1 .. Len(inq'[s]) : inq'[s][k] # rnd
    <3>1. CASE inq'[s] = inq[s]
      BY <2>3, <3>1
    <3>2. CASE inq'[s] = Append(inq[s], m)
      <4>1. /\ Len(inq'[s]) = Len(inq[s]) + 1 /\ Len(inq[s]) \in Nat
            /\ inq'[s][Len(inq[s]) + 1] = m
            /\ \A k \in 1 .. Len(inq[s]) : inq'[s][k] = inq[s][k]
        BY <2>1, <2>3, <3>2, AppendProperties
      <4>2. \A k \in 1 .. Len(inq'[s]) : k \in 1 .. Len(inq[s]) \/ k = Len(inq[s]) + 1
        BY <4>1
      <4>3. QED
        BY <2>1, <2>3, <4>1, <4>2
    <3>3. QED
      BY <2>2, <3>1, <3>2
  <2>5. QED
    BY <1>1, <1>3, <2>4 DEF NotWithSub, Holds
<1>9. QED
  BY <1>6, <1>7, <1>8

LEMMA SubHearUnsent ==
  ASSUME Inv, Unsent, NEW s \in Subs, SubHear(s)
  PROVE  Unsent'
<1>1. /\ UNCHANGED <<pc, rnd, inbox, grants, kept>>
      /\ inq[s] # << >> /\ inq[s] \in Seq(0 .. Rnds - 1)
      /\ inq'[s] = Tail(inq[s]) /\ tok'[s] = Head(inq[s])
      /\ \A t \in Subs : t # s => inq'[t] = inq[t] /\ st'[t] = st[t] /\ tok'[t] = tok[t]
  BY DEF SubHear, domVars, taskVars, Inv, TypeOK
<1>2. /\ Len(inq[s]) \in Nat \ {0} /\ Head(inq[s]) = inq[s][1]
      /\ Len(Tail(inq[s])) = Len(inq[s]) - 1
      /\ \A k \in 1 .. Len(Tail(inq[s])) : Tail(inq[s])[k] = inq[s][k + 1]
  BY <1>1, HeadTailProperties
<1>3. NotWithSub(s) => NotWithSub(s)'
  <2>1. 1 \in 1 .. Len(inq[s])
    BY <1>2
  <2>2. \A k \in 1 .. Len(inq'[s]) : k + 1 \in 1 .. Len(inq[s]) /\ inq'[s][k] = inq[s][k + 1]
    BY <1>1, <1>2
  <2>3. QED
    BY <1>1, <1>2, <2>1, <2>2 DEF NotWithSub
<1>4. \A t \in Subs : NotWithSub(t) => NotWithSub(t)'
  BY <1>1, <1>3 DEF NotWithSub, Holds
<1>5. QED
  BY <1>1, <1>4 DEF Unsent, LastGrant, NotInbox

LEMMA HandOverUnsent ==
  ASSUME Inv, Unsent, NEW s \in Subs, SubHandOver(s)
  PROVE  Unsent'
<1>1. /\ UNCHANGED <<pc, rnd, inbox, grants, inq>>
      /\ Holds(s) /\ ~Holds(s)'
      /\ tok[s] \in 0 .. Rnds - 1 /\ kept[s] \in Seq(0 .. Rnds - 1)
      /\ kept'[s] = Append(kept[s], tok[s])
      /\ \A t \in Subs : t # s => kept'[t] = kept[t] /\ st'[t] = st[t] /\ tok'[t] = tok[t]
  BY DEF SubHandOver, Holds, domVars, taskVars, Inv, TypeOK
<1>2. /\ Len(kept'[s]) = Len(kept[s]) + 1 /\ Len(kept[s]) \in Nat
      /\ kept'[s][Len(kept[s]) + 1] = tok[s]
      /\ \A k \in 1 .. Len(kept[s]) : kept'[s][k] = kept[s][k]
  BY <1>1, AppendProperties
<1>3. \A k \in 1 .. Len(kept'[s]) : k \in 1 .. Len(kept[s]) \/ k = Len(kept[s]) + 1
  BY <1>2
<1>4. NotWithSub(s) => NotWithSub(s)'
  BY <1>1, <1>2, <1>3 DEF NotWithSub
<1>5. \A t \in Subs : NotWithSub(t) => NotWithSub(t)'
  BY <1>1, <1>4 DEF NotWithSub, Holds
<1>6. QED
  BY <1>1, <1>5 DEF Unsent, LastGrant, NotInbox

LEMMA IoReleaseUnsent ==
  ASSUME Inv, Unsent, NEW s \in Subs, SubIoRelease(s)
  PROVE  Unsent'
<1>1. /\ UNCHANGED <<pc, rnd, grants, inq, st, tok>>
      /\ inbox \in Seq([src : Addrs, rnd : 0 .. Rnds - 1])
      /\ kept[s] # << >> /\ kept[s] \in Seq(0 .. Rnds - 1) /\ kept'[s] = Tail(kept[s])
      /\ \A t \in Subs : t # s => kept'[t] = kept[t]
  BY DEF SubIoRelease, taskVars, talkVars, Inv, TypeOK
<1>2. /\ Len(kept[s]) \in Nat \ {0} /\ Head(kept[s]) = kept[s][1]
      /\ Len(Tail(kept[s])) = Len(kept[s]) - 1
      /\ \A k \in 1 .. Len(Tail(kept[s])) : Tail(kept[s])[k] = kept[s][k + 1]
      /\ Head(kept[s]) \in 0 .. Rnds - 1
  <2> DEFINE S == 0 .. Rnds - 1
             q == kept[s]
  <2>1. q \in Seq(S) /\ q # << >>
    BY <1>1
  <2> HIDE DEF S, q
  <2>2. /\ Len(q) \in Nat \ {0} /\ Head(q) = q[1] /\ Len(Tail(q)) = Len(q) - 1
        /\ \A k \in 1 .. Len(Tail(q)) : Tail(q)[k] = q[k + 1]
        /\ Head(q) \in S
    BY <2>1, HeadTailProperties
  <2>3. QED
    BY <2>2 DEF S, q
<1> DEFINE m == [src |-> own[s], rnd |-> Head(kept[s])]
<1>3. inbox' = inbox \/ inbox' = Append(inbox, m)
  BY DEF SubIoRelease
<1>4. m \in [src : Addrs, rnd : 0 .. Rnds - 1] /\ m.rnd = Head(kept[s])
  <2>1. own[s] \in Addrs
    BY <1>1 DEF Inv, Addressed
  <2>2. QED
    BY <1>2, <2>1
<1> HIDE DEF m
<1>5. NotWithSub(s) => Head(kept[s]) # rnd
  <2>1. 1 \in 1 .. Len(kept[s])
    BY <1>2
  <2>2. QED
    BY <1>2, <2>1 DEF NotWithSub
<1>6. Head(kept[s]) # rnd /\ NotInbox => NotInbox'
  <2>1. CASE inbox' = inbox
    BY <1>1, <2>1 DEF NotInbox
  <2>2. CASE inbox' = Append(inbox, m)
    <3>1. /\ Len(inbox') = Len(inbox) + 1 /\ Len(inbox) \in Nat
          /\ inbox'[Len(inbox) + 1] = m
          /\ \A k \in 1 .. Len(inbox) : inbox'[k] = inbox[k]
      BY <1>1, <1>4, <2>2, AppendProperties
    <3>2. \A k \in 1 .. Len(inbox') : k \in 1 .. Len(inbox) \/ k = Len(inbox) + 1
      BY <3>1
    <3>3. QED
      BY <1>1, <1>4, <3>1, <3>2 DEF NotInbox
  <2>3. QED
    BY <1>3, <2>1, <2>2
<1>7. NotWithSub(s) => NotWithSub(s)'
  <2>1. \A k \in 1 .. Len(kept'[s]) : k + 1 \in 1 .. Len(kept[s]) /\ kept'[s][k] = kept[s][k + 1]
    BY <1>1, <1>2
  <2>2. QED
    BY <1>1, <2>1 DEF NotWithSub, Holds
<1>8. \A t \in Subs : NotWithSub(t) => NotWithSub(t)'
  BY <1>1, <1>7 DEF NotWithSub, Holds
<1>9. QED
  BY <1>1, <1>5, <1>6, <1>8 DEF Unsent, LastGrant

(* Every other step of a sub leaves what it carries, or drops it. *)
LEMMA CarriesLess ==
  ASSUME Inv, Unsent, UNCHANGED <<pc, rnd, inbox, grants>>,
         \A t \in Subs : /\ inq'[t] = inq[t] \/ inq'[t] = << >>
                         /\ kept'[t] = kept[t] \/ kept'[t] = << >>
                         /\ Holds(t)' => Holds(t) /\ tok'[t] = tok[t]
  PROVE  Unsent'
<1>1. 1 .. Len(<< >>) = {}
  OBVIOUS
<1>2. \A t \in Subs : NotWithSub(t) => NotWithSub(t)'
  BY <1>1 DEF NotWithSub
<1>3. QED
  BY <1>2 DEF Unsent, LastGrant, NotInbox

LEMMA UnsentStep ==
  ASSUME Inv, Unsent, [Next]_vars
  PROVE  Unsent'
<1>1. CASE DomRound \/ DomTimeout \/ DomRoundEnd \/ DomPauseEnd \/ \E a \in Addrs : DomGrantFails(a)
  <2>1. pc' # "wait"
    BY <1>1 DEF DomRound, DomTimeout, DomRoundEnd, DomPauseEnd, DomGrantFails
  <2>2. QED
    BY <2>1 DEF Unsent
<1>2. CASE \E s \in Subs : Die(s) \/ (\E a \in Addrs : Join(s, a)) \/ SubAuth(s) \/ SubRelease(s)
  <2>1. CASE \E s \in Subs : Die(s)
    BY <2>1, CarriesLess, SMTT(30) DEF Die, Holds, domVars, taskVars, Inv, TypeOK
  <2>2. CASE \E s \in Subs, a \in Addrs : Join(s, a)
    BY <2>2, CarriesLess DEF Join, Holds, taskVars, talkVars, ioVars, Inv, TypeOK
  <2>3. CASE \E s \in Subs : SubAuth(s) \/ SubRelease(s)
    BY <2>3, CarriesLess, SMTT(30) DEF SubAuth, SubRelease, Holds, domVars, taskVars, talkVars,
                                       Inv, TypeOK
  <2>4. QED
    BY <1>2, <2>1, <2>2, <2>3
<1>3. CASE \/ OtherSends \/ Tick \/ UNCHANGED vars
           \/ \E s \in Subs : Queue(s) \/ SubIoSend(s) \/ SubIoEmpty(s)
  <2>1. UNCHANGED <<pc, rnd, inbox, grants, inq, st, tok, kept>>
    BY <1>3 DEF OtherSends, Tick, vars, Queue, SubIoSend, SubIoEmpty, domVars, taskVars,
                subVars, talkVars, ioVars
  <2>2. QED
    BY <2>1, CarriesLess DEF Holds
<1>4. QED
  BY <1>1, <1>2, <1>3, GrantUnsent, HearUnsent, SentUnsent, SubHearUnsent, HandOverUnsent,
     IoReleaseUnsent DEF Next, DomTask, SubTask, SubIo

LEMMA AnswerStep ==
  ASSUME Inv, Unsent, [Next]_vars, pc = "wait", pc' = "next", left > 0
  PROVE  grants = << >>
<1>1. CASE DomHear
  BY <1>1, HearUnsent
<1>2. CASE ~DomHear
  <2>1. pc' = pc \/ pc # "wait" \/ left = 0
    BY <1>2 DEF Next, DomTask, SubTask, SubIo, DomRound, DomTimeout, DomRoundEnd, DomPauseEnd,
       DomGrant, DomGrantFails, DomIoSend, OtherSends, Tick, Join, Die, Queue, SubHear, SubAuth,
       SubRelease, SubHandOver, SubIoSend, SubIoRelease, SubIoEmpty, vars, domVars, taskVars
  <2>2. left # 0
    BY Times DEF Inv, TypeOK
  <2>3. QED
    BY <2>1, <2>2
<1>3. QED
  BY <1>1, <1>2

(* The dom ends a wait early only for a release of the grant it waits for: *)
(* no release of an earlier grant is taken for the answer to one that is   *)
(* still in the driver, as long as random numbers in use differ            *)
(* (dom/token.rs:100-125), for any number of devices, losses and lengths   *)
(* of the queues.                                                          *)
THEOREM AnswersAreForTheGrant == Spec => AnsweredWhenSent
<1>1. Init => Unsent
  BY DEF Init, Unsent
<1>2. Inv /\ Unsent /\ [Next]_vars => Unsent'
  BY UnsentStep
<1>3. Inv /\ Unsent /\ [Next]_vars =>
        [pc = "wait" /\ pc' = "next" /\ left > 0 => grants = << >>]_vars
  BY AnswerStep
<1>4. QED
  BY <1>1, <1>2, <1>3, Invariance, PTL DEF Spec, AnsweredWhenSent
=============================================================================
