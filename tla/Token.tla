------------------------------- MODULE Token -------------------------------
(***************************************************************************)
(* Who may talk: the dom's token task (anachro-485/src/dom/token.rs), the  *)
(* token task of every sub (sub/token.rs), and what the drivers            *)
(* (uarte-485/src/lib.rs) do to the time at which a message goes out.      *)
(*                                                                         *)
(* The dom grants the bus to one active address after the other and waits  *)
(* for the release.  The wait counts from when the grant is queued; the    *)
(* driver sends it only when the wait that came with the message before it *)
(* (response_wait_ticks, receive_for) is over, heard or not.               *)
(*                                                                         *)
(* A sub authorizes its driver for 7/8 of the grant.  The driver sends one *)
(* message for an authorization, and one that it gets while it sends it    *)
(* uses when that message is over: it may still send when the task is done *)
(* and even when the hold of the grant is over.                            *)
(*                                                                         *)
(* Time is a number of ticks, and passes (Tick) when nobody has anything   *)
(* left to do: main loops, grants and releases take no time of this scale, *)
(* a message of an application one tick or more.  Discovery is represented *)
(* by its result (Join) and by its messages (OtherSends).                  *)
(***************************************************************************)
EXTENDS Naturals, Sequences

CONSTANTS Subs, Addrs, NoAddr,
          Grant,      \* max_time_us, the dom's wait and the driver's, 50 ms
          Nap,        \* a sub's sleep after an authorization, 2.1 ms
          Frame,      \* the longest message of an application, 5 ms
          RoundGap,   \* the sleep between two rounds, 10 ms
          Silence,    \* after which an address is released, 5 s
          TaskDepth,  \* messages in a port's queue
          Rnds,       \* bound: random numbers of grants; one is not drawn again
              \* while anything still carries it
          Chatty,     \* bound: devices whose applications send
          MaxLoad,    \* bound: messages waiting in a sub's driver
          MaxFaults   \* bound: messages lost or not heard, failed sends, other
                      \* messages of the dom, releases that miss their turn

(* Address 32, which AddrTable32 has, is outside of ping_table: the dom    *)
(* panics on it (dom/token.rs:77).                                         *)
ASSUME AddrsAssumption == Addrs \subseteq 1 .. 31 /\ NoAddr \notin Addrs

Talk == (Grant * 7) \div 8

(* A sub's task is done before the grant is: 43.75 ms and 2.1 ms of 50 ms. *)
(* Nothing is assumed of how long a message takes.                         *)
ASSUME TimesAssumption ==
  /\ {Grant, Nap, Frame, RoundGap, Silence, TaskDepth, MaxLoad, MaxFaults} \subseteq Nat
  /\ Talk + Nap < Grant /\ Frame > 0
  /\ Rnds \in Nat \ {0, 1} /\ Chatty \subseteq Subs

VARIABLES
  active,   \* AddrTable32
  pc,       \* where the dom's task is
  todo,     \* active_addrs, not yet queried in this round
  cur, rnd, \* the address queried and the random number of its grant
  left,     \* ticks to the end of the dom's wait or sleep
  silent,   \* ping_table: ticks since the last answer, or NoEntry
  inbox,    \* the dom's token port
  grants,   \* the grants waiting in the dom's driver
  hold,     \* ticks for which the dom's driver has to receive (receive_for)
  own, st,  \* each sub's address and its task: off, listens, talks (authorizes),
            \* has handed its release to the port, is dead
  inq,      \* its token port
  tok,      \* the random number of its grant
  tleft,    \* ticks left of its grant
  empty,    \* io_empty_auth
  auth,     \* io_send_auth
  busy,     \* ticks its driver still needs for the message it sends
  load,     \* messages of its applications waiting in its driver
  kept,     \* releases waiting in its driver, before those (to_io_hi_prio)
  unheard,  \* subs the dom's driver sent over, not having heard them (not in the
            \* code)
  faults

tableVars == <<active, silent>>
taskVars  == <<pc, todo, cur, rnd, left>>
domVars   == <<tableVars, taskVars, inbox, grants, hold>>
talkVars  == <<tok, tleft, empty>>
ioVars    == <<auth, busy, load, kept>>
subVars   == <<own, st, inq, talkVars, ioVars>>
vars      == <<domVars, subVars, unheard, faults>>

NoEntry == Silence + 1

TypeOK ==
  /\ active \subseteq Addrs
  /\ pc \in {"round", "next", "wait", "pause"}
  /\ todo \subseteq active
  /\ cur \in Addrs \cup {NoAddr} /\ rnd \in 0 .. Rnds - 1
  /\ left \in 0 .. Grant + RoundGap + 1
  /\ silent \in [Addrs -> 0 .. NoEntry]
  /\ inbox \in Seq([src : Addrs, rnd : 0 .. Rnds - 1]) /\ Len(inbox) <= TaskDepth
  /\ grants \in Seq([to : Addrs, rnd : 0 .. Rnds - 1])
  /\ hold \in 0 .. Grant
  /\ own \in [Subs -> Addrs \cup {NoAddr}]
  /\ st \in [Subs -> {"off", "listen", "talk", "hand", "dead"}]
  /\ inq \in [Subs -> Seq(0 .. Rnds - 1)]
  /\ tok \in [Subs -> 0 .. Rnds - 1] /\ tleft \in [Subs -> 0 .. Talk + Nap]
  /\ empty \in [Subs -> BOOLEAN] /\ auth \in [Subs -> BOOLEAN]
  /\ busy \in [Subs -> 0 .. Frame] /\ load \in [Subs -> 0 .. MaxLoad]
  /\ kept \in [Subs -> Seq(0 .. Rnds - 1)]
  /\ unheard \subseteq Subs
  /\ faults \in 0 .. MaxFaults

Fault == faults < MaxFaults /\ faults' = faults + 1

-----------------------------------------------------------------------------
(* The dom's task *)

(* Mutant: a round is one address. *)
DomRoundFirst ==
  /\ pc = "round"
  /\ todo' = {a \in active : \A b \in active : a <= b}
  /\ IF active = {} THEN pc' = "pause" /\ left' = RoundGap
                    ELSE pc' = "next" /\ UNCHANGED left
  /\ UNCHANGED <<tableVars, cur, rnd, inbox, grants, hold, subVars, unheard, faults>>

(* No address: sleep 100 ms.  A sleep is RoundGap in both cases.           *)
DomRound ==
  /\ pc = "round"
  /\ todo' = active
  /\ IF active = {} THEN pc' = "pause" /\ left' = RoundGap
                    ELSE pc' = "next" /\ UNCHANGED left
  /\ UNCHANGED <<tableVars, cur, rnd, inbox, grants, hold, subVars, unheard, faults>>

(* Mutant of Noted: the time is set at every query. *)
NotedAlways(a) == [silent EXCEPT ![a] = 0]

(* An address gets its entry when it is first queried. *)
Noted(a) == IF silent[a] = NoEntry THEN [silent EXCEPT ![a] = 0] ELSE silent

Carries(s) == {inq[s][k] : k \in DOMAIN inq[s]} \cup {kept[s][k] : k \in DOMAIN kept[s]}
              \cup (IF st[s] \in {"talk", "hand"} THEN {tok[s]} ELSE {})

(* The random numbers that grants, and releases, on their way still carry. *)
InUse == {grants[k].rnd : k \in DOMAIN grants} \cup {inbox[k].rnd : k \in DOMAIN inbox}
         \cup UNION {Carries(s) : s \in Subs}

(* The grant is queued, with Grant for the driver to receive after it.  An *)
(* answer in the tick in which the wait ends still counts.                 *)
DomGrant(a) ==
  /\ pc = "next"
  /\ a \in todo /\ \A b \in todo : a <= b
  /\ todo' = todo \ {a}
  /\ silent' = Noted(a)
  /\ cur' = a
  /\ rnd' \in (0 .. Rnds - 1) \ InUse /\ \A n \in 0 .. rnd' - 1 : n \in InUse
  /\ grants' = Append(grants, [to |-> a, rnd |-> rnd'])
  /\ pc' = "wait" /\ left' = Grant + 1
  /\ UNCHANGED <<active, inbox, hold, subVars, unheard, faults>>

(* No page or no room: the round ends, and the next begins at once.        *)
DomGrantFails(a) ==
  /\ pc = "next"
  /\ a \in todo /\ \A b \in todo : a <= b
  /\ Fault
  /\ silent' = Noted(a)
  /\ pc' = "round"
  /\ UNCHANGED <<active, todo, cur, rnd, left, inbox, grants, hold, subVars, unheard>>

GoodSource(m) == m.src = cur    \* mutant of Good
Good(m) == m.src = cur /\ m.rnd = rnd

DomHear ==
  /\ pc = "wait" /\ left > 0
  /\ inbox # << >>
  /\ inbox' = Tail(inbox)
  /\ IF Good(Head(inbox))
       THEN /\ pc' = "next" /\ left' = 0 /\ cur' = NoAddr /\ rnd' = 0
            /\ silent' = [silent EXCEPT ![cur] = 0]
       ELSE UNCHANGED <<pc, left, cur, rnd, silent>>
  /\ UNCHANGED <<active, todo, grants, hold, subVars, unheard, faults>>

DomTimeout ==
  /\ pc = "wait" /\ left = 0
  /\ pc' = "next" /\ cur' = NoAddr /\ rnd' = 0
  /\ IF silent[cur] >= Silence
       THEN /\ active' = active \ {cur}
            /\ silent' = [silent EXCEPT ![cur] = NoEntry]
       ELSE UNCHANGED tableVars
  /\ UNCHANGED <<todo, left, inbox, grants, hold, subVars, unheard, faults>>

DomRoundEnd ==
  /\ pc = "next" /\ todo = {}
  /\ pc' = "pause" /\ left' = RoundGap
  /\ UNCHANGED <<tableVars, todo, cur, rnd, inbox, grants, hold, subVars, unheard, faults>>

DomPauseEnd ==
  /\ pc = "pause" /\ left = 0
  /\ pc' = "round"
  /\ UNCHANGED <<tableVars, todo, cur, rnd, left, inbox, grants, hold, subVars, unheard, faults>>

-----------------------------------------------------------------------------
(* The dom's driver *)

Up(s) == st[s] \in {"listen", "talk", "hand"}

(* A driver that is authorized while it sends goes on at once. *)
OnAir(s) == busy[s] > 0 \/ auth[s]

Quiet == \A s \in Subs : ~OnAir(s)

Hears(s, a) == Up(s) /\ own[s] = a /\ ~OnAir(s)

Reaches(g) ==
  inq' = [s \in Subs |-> IF Hears(s, g.to) /\ Len(inq[s]) < TaskDepth
                            THEN Append(inq[s], g.rnd) ELSE inq[s]]

(* Over the hold or not, the driver receives a message that it hears to    *)
(* its end, and 100 us more.  It may not hear it: it had no page when the  *)
(* message began, or its page is full just then.                           *)
Heeds == IF Quiet THEN UNCHANGED faults ELSE Fault

SendsOver == unheard' = unheard \cup {s \in Subs : OnAir(s)}

DomIoSend ==
  /\ grants # << >> /\ hold = 0
  /\ grants' = Tail(grants)
  /\ hold' = Grant
  /\ SendsOver
  /\ \/ Heeds /\ Reaches(Head(grants))
     \/ Fault /\ UNCHANGED inq
  /\ UNCHANGED <<tableVars, taskVars, inbox, own, st, talkVars, ioVars>>

(* A message of the discovery was first. *)
OtherSends ==
  /\ hold = 0
  /\ SendsOver /\ Fault
  /\ hold' = Grant
  /\ UNCHANGED <<tableVars, taskVars, inbox, grants, subVars>>

-----------------------------------------------------------------------------
(* A sub's task *)

(* Discovery commits an address that is not active.  Another device, given *)
(* up by the dom, may still be using it.                                   *)
Join(s, a) ==
  /\ st[s] = "off"
  /\ a \notin active
  /\ active' = active \cup {a}
  /\ own' = [own EXCEPT ![s] = a]
  /\ st' = [st EXCEPT ![s] = "listen"]
  /\ UNCHANGED <<silent, taskVars, inbox, grants, hold, inq, talkVars, ioVars, unheard, faults>>

(* Power lost, or ten seconds without a grant ("Too quiet!").              *)
Die(s) ==
  /\ Up(s)
  /\ st' = [st EXCEPT ![s] = "dead"]
  /\ own' = [own EXCEPT ![s] = NoAddr]
  /\ inq' = [inq EXCEPT ![s] = << >>] /\ kept' = [kept EXCEPT ![s] = << >>]
  /\ tok' = [tok EXCEPT ![s] = 0] /\ tleft' = [tleft EXCEPT ![s] = 0]
  /\ busy' = [busy EXCEPT ![s] = 0] /\ load' = [load EXCEPT ![s] = 0]
  /\ auth' = [auth EXCEPT ![s] = FALSE] /\ empty' = [empty EXCEPT ![s] = FALSE]
  /\ unheard' = unheard \ {s}
  /\ UNCHANGED <<domVars, faults>>

Queue(s) ==
  /\ s \in Chatty /\ Up(s)
  /\ load[s] < MaxLoad
  /\ load' = [load EXCEPT ![s] = @ + 1]
  /\ UNCHANGED <<domVars, own, st, inq, talkVars, auth, busy, kept, unheard, faults>>

(* Mutant of TalkTime: the sub talks for all of its grant. *)
TalkTimeWhole == Grant + Nap

TalkTime == Talk + Nap

SubHear(s) ==
  /\ st[s] = "listen" /\ inq[s] # << >>
  /\ inq' = [inq EXCEPT ![s] = Tail(@)]
  /\ tok' = [tok EXCEPT ![s] = Head(inq[s])]
  /\ tleft' = [tleft EXCEPT ![s] = TalkTime]
  /\ empty' = [empty EXCEPT ![s] = FALSE]
  /\ auth' = [auth EXCEPT ![s] = TRUE]
  /\ st' = [st EXCEPT ![s] = "talk"]
  /\ UNCHANGED <<domVars, own, busy, load, kept, unheard, faults>>

(* The loop authorizes the driver again and again, until it finds that the *)
(* driver had nothing to send or its time is over.                         *)
SubAuth(s) ==
  /\ st[s] = "talk" /\ ~auth[s] /\ ~empty[s] /\ tleft[s] >= Nap
  /\ auth' = [auth EXCEPT ![s] = TRUE]
  /\ UNCHANGED <<domVars, own, st, inq, talkVars, busy, load, kept, unheard, faults>>

(* The end of the loop.  The release is put into the port and the driver   *)
(* authorized, or there is no page or no room for it.                      *)
SubRelease(s) ==
  /\ st[s] = "talk"
  /\ empty[s] \/ tleft[s] <= Nap
  /\ tleft' = [tleft EXCEPT ![s] = 0]
  /\ empty' = [empty EXCEPT ![s] = FALSE]
  /\ \/ /\ st' = [st EXCEPT ![s] = "hand"]
        /\ auth' = [auth EXCEPT ![s] = TRUE]
        /\ UNCHANGED <<tok, faults>>
     \/ /\ st' = [st EXCEPT ![s] = "listen"]
        /\ tok' = [tok EXCEPT ![s] = 0]
        /\ Fault /\ UNCHANGED auth
  /\ UNCHANGED <<domVars, own, inq, busy, load, kept, unheard>>

(* process_messages hands it on to the driver.                             *)
SubHandOver(s) ==
  /\ st[s] = "hand"
  /\ st' = [st EXCEPT ![s] = "listen"]
  /\ kept' = [kept EXCEPT ![s] = Append(@, tok[s])]
  /\ tok' = [tok EXCEPT ![s] = 0]
  /\ UNCHANGED <<domVars, own, inq, tleft, empty, auth, busy, load, unheard, faults>>

-----------------------------------------------------------------------------
(* A sub's driver *)
MayGo(s) == auth[s] /\ busy[s] = 0

(* The driver uses the authorization of a release that process_messages    *)
(* has not handed on yet: the release waits for the next one.              *)
Overtakes(s) == IF st[s] = "hand" THEN Fault ELSE UNCHANGED faults

SubIoSend(s) ==
  /\ MayGo(s) /\ kept[s] = << >> /\ load[s] > 0
  /\ Overtakes(s)
  /\ auth' = [auth EXCEPT ![s] = FALSE]
  /\ load' = [load EXCEPT ![s] = @ - 1]
  /\ \E n \in 1 .. Frame : busy' = [busy EXCEPT ![s] = n]
  /\ UNCHANGED <<domVars, own, st, inq, talkVars, kept, unheard>>

(* Mutant of SubIoRelease: the dom's port takes any number of releases. *)
SubIoReleaseAnyhow(s) ==
  /\ MayGo(s) /\ kept[s] # << >>
  /\ auth' = [auth EXCEPT ![s] = FALSE]
  /\ kept' = [kept EXCEPT ![s] = Tail(@)]
  /\ unheard' = unheard \ {s}
  /\ Overtakes(s) /\ inbox' = Append(inbox, [src |-> own[s], rnd |-> Head(kept[s])])
  /\ UNCHANGED <<tableVars, taskVars, grants, hold, own, st, inq, talkVars, busy, load>>

(* A release is lost, or the dom's port is full; one that the dom sends    *)
(* over may be lost as well.                                               *)
SubIoRelease(s) ==
  /\ MayGo(s) /\ kept[s] # << >>
  /\ auth' = [auth EXCEPT ![s] = FALSE]
  /\ kept' = [kept EXCEPT ![s] = Tail(@)]
  /\ unheard' = unheard \ {s}
  /\ \/ /\ Len(inbox) < TaskDepth
        /\ inbox' = Append(inbox, [src |-> own[s], rnd |-> Head(kept[s])])
        /\ Overtakes(s)
     \/ Len(inbox) < TaskDepth /\ Fault /\ UNCHANGED inbox
     \/ /\ Len(inbox) = TaskDepth \/ s \in unheard
        /\ Overtakes(s) /\ UNCHANGED inbox
  /\ UNCHANGED <<tableVars, taskVars, grants, hold, own, st, inq, talkVars, busy, load>>

(* Nothing to send: the authorization is used up.  A mark made when the    *)
(* loop is over is cleared before the next (clear_empty).                  *)
SubIoEmpty(s) ==
  /\ MayGo(s) /\ kept[s] = << >> /\ load[s] = 0
  /\ Overtakes(s)
  /\ auth' = [auth EXCEPT ![s] = FALSE]
  /\ empty' = [empty EXCEPT ![s] = (st[s] = "talk")]
  /\ unheard' = unheard \ {s}
  /\ UNCHANGED <<domVars, own, st, inq, tok, tleft, busy, load, kept>>

-----------------------------------------------------------------------------
DomDue == \/ pc \in {"round", "next"}
          \/ pc = "wait" /\ (left = 0 \/ inbox # << >>)
          \/ pc = "pause" /\ left = 0
          \/ grants # << >> /\ hold = 0 /\ Quiet

SubDue(s) == \/ MayGo(s)
             \/ st[s] = "listen" /\ inq[s] # << >>
             \/ st[s] = "talk" /\ (empty[s] \/ tleft[s] = 0 \/ (~auth[s] /\ tleft[s] > Nap))
             \/ st[s] = "hand"

Less(n)  == IF n = 0 THEN 0 ELSE n - 1
Later(n) == IF n < Silence THEN n + 1 ELSE n

Tick ==
  /\ ~DomDue /\ \A s \in Subs : ~SubDue(s)
  /\ left' = Less(left) /\ hold' = Less(hold)
  /\ tleft' = [s \in Subs |-> Less(tleft[s])]
  /\ silent' = [a \in Addrs |-> Later(silent[a])]
  /\ busy' = [s \in Subs |-> Less(busy[s])]
  /\ unheard' = {s \in unheard : busy'[s] > 0 \/ auth[s]}
  /\ UNCHANGED <<active, pc, todo, cur, rnd, inbox, grants, own, st, inq, tok, empty, auth, load,
                 kept, faults>>

Init ==
  /\ active = {} /\ silent = [a \in Addrs |-> NoEntry]
  /\ pc = "round" /\ todo = {} /\ cur = NoAddr /\ rnd = 0 /\ left = 0
  /\ inbox = << >> /\ grants = << >> /\ hold = 0
  /\ own = [s \in Subs |-> NoAddr] /\ st = [s \in Subs |-> "off"]
  /\ inq = [s \in Subs |-> << >>]
  /\ tok = [s \in Subs |-> 0] /\ tleft = [s \in Subs |-> 0]
  /\ empty = [s \in Subs |-> FALSE] /\ auth = [s \in Subs |-> FALSE]
  /\ busy = [s \in Subs |-> 0] /\ load = [s \in Subs |-> 0]
  /\ kept = [s \in Subs |-> << >>]
  /\ unheard = {} /\ faults = 0

DomTask == \/ DomRound \/ DomHear \/ DomTimeout \/ DomRoundEnd \/ DomPauseEnd
           \/ \E a \in Addrs : DomGrant(a)

SubTask(s) == SubHear(s) \/ SubAuth(s) \/ SubRelease(s) \/ SubHandOver(s)

SubIo(s) == SubIoSend(s) \/ SubIoRelease(s) \/ SubIoEmpty(s)

Next ==
  \/ DomTask \/ DomIoSend \/ OtherSends
  \/ \E a \in Addrs : DomGrantFails(a)
  \/ \E s \in Subs : SubTask(s) \/ SubIo(s) \/ Die(s) \/ Queue(s) \/ \E a \in Addrs : Join(s, a)
  \/ Tick

Spec == Init /\ [][Next]_vars

(* main polls every task for ever, the drivers' timers go off, and time    *)
(* passes; nobody has to join, die, fail or queue a message.  As time does *)
(* not pass while somebody has something to do, it is enough that some     *)
(* step of these is taken.                                                 *)
Progress == DomTask \/ DomIoSend \/ Tick \/ \E s \in Subs : SubTask(s) \/ SubIo(s)

Fairness == WF_vars(Progress)

FairSpec == Spec /\ Fairness

-----------------------------------------------------------------------------
(* Properties                                                              *)

(* The task of a sub authorizes sends only while the grant holds back the  *)
(* dom's driver (receive_for, uarte-485/src/lib.rs:615), although the dom's *)
(* task may have given up on it.  What its driver still sends afterwards,  *)
(* possibly beyond the hold, meets nobody with another address on the bus, *)
(* unless the dom does not hear it when it sends the next grant.           *)
Talking(s) == st[s] = "talk" \/ OnAir(s)

OneTalker ==
  \A s, t \in Subs :
    /\ st[s] = "talk" => hold > 0 /\ s \notin unheard
    /\ Talking(s) /\ Talking(t) => own[s] = own[t] \/ {s, t} \cap unheard # {}

(* The dom goes on before the end of a wait only when the grant was sent:  *)
(* a late release of an earlier grant is not taken for the answer to one   *)
(* that still waits in the driver (dom/token.rs:118-121).                  *)
AnsweredWhenSent ==
  [][pc = "wait" /\ pc' = "next" /\ left > 0 => grants = << >>]_vars

(* An address of which all devices are gone leaves the table.              *)
Alive(a) == \E s \in Subs : Up(s) /\ own[s] = a

DeadReleased == \A a \in Addrs : a \in active /\ ~Alive(a) ~> a \notin active

(* A device in the table keeps getting the bus, whatever was lost and      *)
(* whoever else died.                                                      *)
Granted ==
  \A s \in Subs :
    st[s] = "listen" /\ own[s] \in active ~>
      st[s] \in {"talk", "dead"} \/ own[s] \notin active

(* What a comment of the dom says (dom/token.rs:127-128, "We *may* have    *)
(* gotten a message this time, but let's check if our device is at         *)
(* timeout"): an address is released when its device has been silent.  One *)
(* that is alive answers every grant, if nothing is lost.                  *)
LiveKept ==
  [][faults = 0 /\ (\A s \in Subs : st[s] # "dead") => active \subseteq active']_vars
=============================================================================
