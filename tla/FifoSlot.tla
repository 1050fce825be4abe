------------------------------ MODULE FifoSlot ------------------------------
(***************************************************************************)
(* What the relay's admission gate promises its callers: one holder of the *)
(* single physical slot, a bounded line of waiting requests that is served *)
(* strictly first come first served, and a way out of the line for those   *)
(* (and only those) whose client has gone.  Locks, tickets, notifications  *)
(* and polling do not appear here; AdmissionGate implements this module.   *)
(***************************************************************************)
EXTENDS Naturals, Sequences

CONSTANTS
    Threads,      \* the request handler threads
    Capacity,     \* how many requests may wait
    Nobody        \* the holder of a free slot

VARIABLES
    holder,       \* the thread that holds the slot, or Nobody
    line,         \* the waiting threads, oldest first
    gone          \* gone[t]: the client of t's request has disconnected

vars == <<holder, line, gone>>

InLine(t) == \E i \in DOMAIN line : line[i] = t

Init ==
    /\ holder = Nobody
    /\ line = <<>>
    /\ gone = [t \in Threads |-> FALSE]

\* A request finds the slot free and nobody waiting: it takes the slot.
Take(t) ==
    /\ holder = Nobody
    /\ line = <<>>
    /\ holder' = t
    /\ UNCHANGED <<line, gone>>

\* Otherwise it joins the end of the line, if there is room.
Join(t) ==
    /\ holder # t
    /\ ~InLine(t)
    /\ holder # Nobody \/ line # <<>>
    /\ Len(line) < Capacity
    /\ line' = Append(line, t)
    /\ UNCHANGED <<holder, gone>>

\* Only the head of the line gets the slot when it is free, and not once its
\* client has gone.
Serve ==
    /\ holder = Nobody
    /\ line # <<>>
    /\ ~gone[Head(line)]
    /\ holder' = Head(line)
    /\ line' = Tail(line)
    /\ UNCHANGED gone

\* The sequence s without its element at i.
Without(s, i) == [j \in 1..Len(s) - 1 |-> IF j < i THEN s[j] ELSE s[j + 1]]

\* A waiting request whose client has gone leaves; the others keep their order.
Leave(t) ==
    /\ gone[t]
    /\ \E i \in DOMAIN line : line[i] = t /\ line' = Without(line, i)
    /\ gone' = [gone EXCEPT ![t] = FALSE]
    /\ UNCHANGED holder

\* The holder is done, whatever the way it ended.
Finish(t) ==
    /\ holder = t
    /\ holder' = Nobody
    /\ gone' = [gone EXCEPT ![t] = FALSE]
    /\ UNCHANGED line

\* A request that is neither served nor waiting is turned away.
TurnAway(t) ==
    /\ holder # t
    /\ ~InLine(t)
    /\ gone' = [gone EXCEPT ![t] = FALSE]
    /\ UNCHANGED <<holder, line>>

Disconnect(t) ==
    /\ gone' = [gone EXCEPT ![t] = TRUE]
    /\ UNCHANGED <<holder, line>>

Next ==
    \/ Serve
    \/ \E t \in Threads :
          \/ Take(t)
          \/ Join(t)
          \/ Leave(t)
          \/ Finish(t)
          \/ TurnAway(t)
          \/ Disconnect(t)

Spec == Init /\ [][Next]_vars

\* The head of the line takes the free slot, or makes way.
Advance ==
    \/ Serve
    \/ holder = Nobody /\ line # <<>> /\ Leave(Head(line))

\* The slot is handed on whenever it is free.
LiveSpec == Spec /\ WF_vars(Advance)
=============================================================================
