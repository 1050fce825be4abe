--------------------------- MODULE AdmissionGate ---------------------------
(***************************************************************************)
(* RequestAdmissionGate (src/runtime/local_brain_runtime.py): one active   *)
(* request plus a bounded FIFO queue of tickets, guarded by one condition  *)
(* variable.  A region that holds the condition's lock is one action; the  *)
(* lock is given up only inside Condition.wait, so a waiting thread is     *)
(* either "parked" (blocked in wait) or "awake" (notified or timed out,    *)
(* and about to re-run the loop body once it owns the lock again).         *)
(*                                                                         *)
(* An operator marked "Fault" is a plausible slip in the definition that   *)
(* follows it; the mutation runs put it in that definition's place.        *)
(***************************************************************************)
EXTENDS Integers, Sequences

CONSTANTS
    Threads,      \* the request handler threads of the HTTP server
    Capacity,     \* waiting_capacity
    MaxTickets,   \* bound on the tickets handed out
    Nobody        \* stands for the holder of a free slot

ASSUME CapacityAssumption == Capacity \in Nat
ASSUME MaxTicketsAssumption == MaxTickets \in Nat
ASSUME NobodyAssumption == Nobody \notin Threads

VARIABLES
    active,          \* self._active
    queue,           \* self._queue, the waiting tickets
    ticketCounter,   \* self._ticket_counter
    ticket,          \* the local variable ticket of each thread's acquire
    pc,              \* where each thread is in acquire
    gone             \* what cancelled() answers: the client has disconnected

vars == <<active, queue, ticketCounter, ticket, pc, gone>>

NoTicket == -1

Waiting(t) == pc[t] \in {"parked", "awake"}

Init ==
    /\ active = FALSE
    /\ queue = <<>>
    /\ ticketCounter = 0
    /\ ticket = [t \in Threads |-> NoTicket]
    /\ pc = [t \in Threads |-> "outside"]
    /\ gone = [t \in Threads |-> FALSE]

-----------------------------------------------------------------------------
(* The pieces of acquire. *)

\* Fault: the fast path overtakes the requests that wait.
SlotLooksFree == ~active

SlotIsFree == ~active /\ queue = <<>>

\* Fault: one waiting request too many.
QueueIsOverfull == Len(queue) > Capacity

QueueIsFull == Len(queue) >= Capacity

\* Fault: a lost notify_all.
NotifyNone == pc

\* notify_all: whoever is blocked in wait competes for the lock again.
NotifyAll == [t \in Threads |-> IF pc[t] = "parked" THEN "awake" ELSE pc[t]]

\* deque.remove(ticket)
RemoveTicket(q, k) ==
    LET i == CHOOSE n \in DOMAIN q : q[n] = k
    IN  [n \in 1..(Len(q) - 1) |-> IF n < i THEN q[n] ELSE q[n + 1]]

\* Fault: the head of the queue does not wait for the slot to be released.
OldestTicket(q, k) == q # <<>> /\ q[1] = k

MyTurn(q, k) == ~active /\ q # <<>> /\ q[1] = k

\* Fault: a cancelled waiter leaves without telling the others.
SlipsAway(t, q, k) ==
    /\ gone[t]
    /\ queue' = RemoveTicket(q, k)
    /\ pc' = [NotifyNone EXCEPT ![t] = "outside"]
    /\ ticket' = [ticket EXCEPT ![t] = NoTicket]
    /\ gone' = [gone EXCEPT ![t] = FALSE]
    /\ UNCHANGED active

(* The three ways one pass of the loop body ends, for queue q and t's ticket k. *)

\* RequestCancelledBeforeExecution; the connection is closed.
Cancelled(t, q, k) ==
    /\ gone[t]
    /\ queue' = RemoveTicket(q, k)
    /\ pc' = [NotifyAll EXCEPT ![t] = "outside"]
    /\ ticket' = [ticket EXCEPT ![t] = NoTicket]
    /\ gone' = [gone EXCEPT ![t] = FALSE]
    /\ UNCHANGED active

Admitted(t, q, k) ==
    /\ ~gone[t]
    /\ MyTurn(q, k)
    /\ queue' = Tail(q)
    /\ active' = TRUE
    /\ pc' = [pc EXCEPT ![t] = "active"]
    /\ ticket' = [ticket EXCEPT ![t] = NoTicket]
    /\ UNCHANGED gone

Parked(t, q, k) ==
    /\ ~gone[t]
    /\ ~MyTurn(q, k)
    /\ queue' = q
    /\ pc' = [pc EXCEPT ![t] = "parked"]
    /\ ticket' = [ticket EXCEPT ![t] = k]
    /\ UNCHANGED <<active, gone>>

LoopPass(t, q, k) ==
    \/ Cancelled(t, q, k)
    \/ Admitted(t, q, k)
    \/ Parked(t, q, k)

-----------------------------------------------------------------------------
(* The actions: one per locked region, and the environment's. *)

EnterFast(t) ==
    /\ pc[t] = "outside"
    /\ SlotIsFree
    /\ active' = TRUE
    /\ pc' = [pc EXCEPT ![t] = "active"]
    /\ UNCHANGED <<queue, ticketCounter, ticket, gone>>

\* QueueFullError: the request is answered and its connection closed.
Refuse(t) ==
    /\ pc[t] = "outside"
    /\ ~SlotIsFree
    /\ QueueIsFull
    /\ gone' = [gone EXCEPT ![t] = FALSE]
    /\ UNCHANGED <<active, queue, ticketCounter, ticket, pc>>

\* Fault: newcomers go to the wrong end of the queue.
EnqueueInFront(t) ==
    /\ pc[t] = "outside"
    /\ ~SlotIsFree
    /\ ~QueueIsFull
    /\ ticketCounter < MaxTickets
    /\ ticketCounter' = ticketCounter + 1
    /\ LoopPass(t, <<ticketCounter>> \o queue, ticketCounter)

\* A ticket is drawn and the loop body runs once before the first wait.
Enqueue(t) ==
    /\ pc[t] = "outside"
    /\ ~SlotIsFree
    /\ ~QueueIsFull
    /\ ticketCounter < MaxTickets
    /\ ticketCounter' = ticketCounter + 1
    /\ LoopPass(t, Append(queue, ticketCounter), ticketCounter)

\* wait returned: the loop body runs again under the lock.
Recheck(t) ==
    /\ pc[t] = "awake"
    /\ LoopPass(t, queue, ticket[t])
    /\ UNCHANGED ticketCounter

\* Fault: wait without an interval.
WaitForever(t) == FALSE

\* wait(ADMISSION_WAIT_INTERVAL_SECONDS) ends without a notification.
WaitTimeout(t) ==
    /\ pc[t] = "parked"
    /\ pc' = [pc EXCEPT ![t] = "awake"]
    /\ UNCHANGED <<active, queue, ticketCounter, ticket, gone>>

\* Fault: the slot is freed but nobody is told.
ReleaseQuietly(t) ==
    /\ pc[t] = "active"
    /\ active' = FALSE
    /\ pc' = [NotifyNone EXCEPT ![t] = "outside"]
    /\ gone' = [gone EXCEPT ![t] = FALSE]
    /\ UNCHANGED <<queue, ticketCounter, ticket>>

\* The finally block: reached on every way out of the guarded region.
Release(t) ==
    /\ pc[t] = "active"
    /\ active' = FALSE
    /\ pc' = [NotifyAll EXCEPT ![t] = "outside"]
    /\ gone' = [gone EXCEPT ![t] = FALSE]
    /\ UNCHANGED <<queue, ticketCounter, ticket>>

\* The client closes its connection, at any moment.
Disconnect(t) ==
    /\ ~gone[t]
    /\ gone' = [gone EXCEPT ![t] = TRUE]
    /\ UNCHANGED <<active, queue, ticketCounter, ticket, pc>>

Next ==
    \E t \in Threads :
        \/ EnterFast(t)
        \/ Refuse(t)
        \/ Enqueue(t)
        \/ Recheck(t)
        \/ WaitTimeout(t)
        \/ Release(t)
        \/ Disconnect(t)

Spec == Init /\ [][Next]_vars

-----------------------------------------------------------------------------
(* Fairness. *)

\* A thread that may run eventually gets the condition's lock.
LockFairness == \A t \in Threads : WF_vars(Recheck(t))

\* A timed wait ends.
PollFairness == \A t \in Threads : WF_vars(WaitTimeout(t))

\* The active request ends: every call of its handler to the server has a timeout,
\* and its client sends and reads its part (the client's socket has none).
ReleaseFairness == \A t \in Threads : WF_vars(Release(t))

\* Only the lock is fair: each liveness property says what else it needs.
FairSpec == Spec /\ LockFairness

-----------------------------------------------------------------------------
(* Properties. *)

\* The gate's variables have their types, and the queue (a deque without maxlen)
\* never outgrows waiting_capacity.
TypeOK ==
    /\ active \in BOOLEAN
    /\ queue \in Seq(Nat)
    /\ Len(queue) <= Capacity
    /\ ticketCounter \in 0..MaxTickets
    /\ ticket \in [Threads -> Nat \cup {NoTicket}]
    /\ pc \in [Threads -> {"outside", "parked", "awake", "active"}]
    /\ gone \in [Threads -> BOOLEAN]

\* At most one request uses the physical server, and the flag the other threads
\* consult says so exactly: it is neither left set after the last request nor
\* cleared under a running one.
MutualExclusion ==
    /\ \A t, u \in Threads : pc[t] = "active" /\ pc[u] = "active" => t = u
    /\ active <=> \E t \in Threads : pc[t] = "active"

\* Whenever the slot is free and requests wait, the oldest of them is already on
\* its way to it: no interleaving of releases, cancellations and timeouts leaves
\* it blocked in wait with nothing but the polling interval to rescue it.
NoLostWakeup ==
    ~active /\ queue # <<>> =>
        \E t \in Threads : pc[t] = "awake" /\ ticket[t] = queue[1]

\* A request becomes active only ahead of those that arrived after it: a newcomer
\* never overtakes a waiting request, whichever thread wins the lock.
FirstComeFirstServed ==
    [][\A t, u \in Threads :
          pc[t] # "active" /\ pc'[t] = "active" /\ u # t /\ Waiting(u) =>
              Waiting(t) /\ ticket[t] < ticket[u]]_vars

\* With requests that end, every waiting request is served or leaves, even if no
\* timed wait ever times out and clients that disconnect are never polled for.
EveryWaiterLeaves ==
    ReleaseFairness => \A t \in Threads : Waiting(t) ~> ~Waiting(t)

\* A waiting request whose client is gone leaves the queue even while the active
\* request never ends; this is what the polling interval is for.
GoneWaiterLeaves ==
    PollFairness => \A t \in Threads : Waiting(t) /\ gone[t] ~> ~Waiting(t)

(* The gate implements the first-come-first-served slot. *)
OwnerOf(k) == CHOOSE t \in Threads : Waiting(t) /\ ticket[t] = k

SlotHolder == IF active THEN CHOOSE t \in Threads : pc[t] = "active" ELSE Nobody
SlotLine == [i \in 1..Len(queue) |-> OwnerOf(queue[i])]

Slot == INSTANCE FifoSlot WITH holder <- SlotHolder, line <- SlotLine

\* Seen through its tickets, the gate is a slot with a bounded waiting line served
\* in order, in which cancellation removes exactly the cancelled request; and a
\* free slot is handed on with no need for a timed wait to end.
ImplementsFifoSlot == Slot!LiveSpec
=============================================================================
