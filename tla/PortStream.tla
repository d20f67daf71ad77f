----------------------------- MODULE PortStream -----------------------------
(***************************************************************************)
(* What Dispatch promises a task that sends: the messages a port accepted  *)
(* go out on the bus once each and in the order they were sent, whatever   *)
(* queue they wait in on the way.  A message too large to be framed is     *)
(* dropped, a port of the bus management may lose messages, and a flush    *)
(* that was asked for takes what the driver has queued.                    *)
(***************************************************************************)
EXTENDS Naturals, Sequences, SequencesExt

CONSTANTS Ports,    \* the ports that send
          Lossy,    \* those whose messages may be lost
          Msgs,     \* messages
          Oversize  \* messages that do not fit a page when framed

VARIABLES waiting,  \* messages of each port on their way out, oldest first
          line,     \* the message on the bus, as a sequence of at most one
          asked     \* was a flush asked for?

vars == <<waiting, line, asked>>

Init == waiting = [p \in Ports |-> << >>] /\ line = << >> /\ asked = FALSE

Send(p) == /\ \E m \in Msgs : waiting' = [waiting EXCEPT ![p] = Append(@, m)]
           /\ UNCHANGED <<line, asked>>

Lose(p) == /\ \E n \in 1 .. Len(waiting[p]) :
                /\ p \in Lossy \/ waiting[p][n] \in Oversize
                /\ waiting' = [waiting EXCEPT ![p] = RemoveAt(@, n)]
           /\ UNCHANGED <<line, asked>>

Ask == asked' = TRUE /\ UNCHANGED <<waiting, line>>

(* The driver looks at the flush first, then the bus is taken or, at the   *)
(* end of a message, given up.                                             *)
FlushIfAsked(left) ==
  /\ DOMAIN left = Ports
  /\ \A p \in Ports : IF asked THEN IsSuffix(left[p], waiting[p]) ELSE left[p] = waiting[p]

Take(p) == /\ line = << >> /\ ~asked
           /\ waiting[p] # << >>
           /\ line' = <<[slot |-> p, val |-> Head(waiting[p])]>>
           /\ waiting' = [waiting EXCEPT ![p] = Tail(@)]
           /\ UNCHANGED asked

Pause == /\ FlushIfAsked(waiting')
         /\ line' \in {line, << >>}
         /\ asked' = FALSE

Next == Ask \/ Pause \/ \E p \in Ports : Send(p) \/ Lose(p) \/ Take(p)

Spec == Init /\ [][Next]_vars
=============================================================================
