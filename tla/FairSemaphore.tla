---------------------------- MODULE FairSemaphore ----------------------------
(***************************************************************************)
(* What the browser pool promises to POST /render (browser-pool.ts:98-101, *)
(* "Saturation waits rather than failing"): no more calls are inside than  *)
(* there are permits; a call queues only when no permit is spare, and then *)
(* nobody enters before it does, unless it gives up.  A permit may be      *)
(* lost; it is never found again, and no other is lost with it.            *)
(***************************************************************************)
EXTENDS Naturals, FiniteSets, Sequences, SequencesExt

CONSTANTS
    Calls,
    Permits     \* how many calls may be inside at once

VARIABLES
    inside,     \* the calls that have a permit
    line,       \* the calls that wait for one, oldest first
    lost        \* permits that are gone for good

vars == <<inside, line, lost>>

Spare == Cardinality(inside) + lost < Permits

Outside(c) == c \notin inside /\ \A i \in 1..Len(line) : line[i] # c

Init ==
    /\ inside = {}
    /\ line = <<>>
    /\ lost = 0

Enter(c) ==
    /\ Outside(c) /\ Spare
    /\ line = <<>>
    /\ inside' = inside \cup {c}
    /\ UNCHANGED <<line, lost>>

Join(c) ==
    /\ Outside(c) /\ ~Spare
    /\ line' = Append(line, c)
    /\ UNCHANGED <<inside, lost>>

GiveUp(c) ==
    /\ \E i \in 1..Len(line) : line[i] = c /\ line' = RemoveAt(line, i)
    /\ UNCHANGED <<inside, lost>>

\* The permit goes back, or straight to the head of the line.
Leave(c) ==
    /\ c \in inside
    /\ \/ /\ line = <<>>
          /\ inside' = inside \ {c}
          /\ line' = line
       \/ /\ line # <<>>
          /\ inside' = (inside \ {c}) \cup {Head(line)}
          /\ line' = Tail(line)
    /\ UNCHANGED lost

LosePermit(c) ==
    /\ c \in inside
    /\ inside' = inside \ {c}
    /\ lost' = lost + 1
    /\ UNCHANGED line

Next == \E c \in Calls : Enter(c) \/ Join(c) \/ GiveUp(c) \/ Leave(c) \/ LosePermit(c)

Spec == Init /\ [][Next]_vars

=============================================================================
