------------------------ MODULE AdmissionGateProofs ------------------------
(***************************************************************************)
(* Safety of the admission gate for any number of threads, any capacity    *)
(* and any number of tickets.                                              *)
(***************************************************************************)
EXTENDS AdmissionGate, TLAPS

Increasing(q) == \A i, j \in 1..Len(q) : i < j => q[i] < q[j]

\* The queue and the waiting threads' tickets are the same set of numbers, and
\* the queue lists them in the order in which they were drawn.
QueueInv ==
    /\ Increasing(queue)
    /\ \A i \in 1..Len(queue) : queue[i] < ticketCounter
    /\ \A t \in Threads : Waiting(t) => \E i \in 1..Len(queue) : queue[i] = ticket[t]
    /\ \A i \in 1..Len(queue) : \E t \in Threads : Waiting(t) /\ ticket[t] = queue[i]
    /\ \A t, u \in Threads :
          Waiting(t) /\ Waiting(u) /\ ticket[t] = ticket[u] => t = u

IInv == TypeOK /\ MutualExclusion /\ NoLostWakeup /\ QueueInv

\* What a pass of the loop body may assume of the queue q it sees and of its own
\* ticket k: like IInv, but t itself counts neither as parked nor as awake.
LoopPre(t, q, k) ==
    /\ q \in Seq(Nat)
    /\ Len(q) <= Capacity
    /\ Increasing(q)
    /\ k \in Nat
    /\ \E i \in 1..Len(q) : q[i] = k
    /\ \A i \in 1..Len(q) : q[i] < ticketCounter'
    /\ \A u \in Threads \ {t} :
          Waiting(u) => ticket[u] # k /\ \E i \in 1..Len(q) : q[i] = ticket[u]
    /\ \A i \in 1..Len(q) :
          q[i] = k \/ \E u \in Threads \ {t} : Waiting(u) /\ ticket[u] = q[i]
    /\ ~active => q[1] = k \/ \E u \in Threads \ {t} : pc[u] = "awake" /\ ticket[u] = q[1]

-----------------------------------------------------------------------------
\* deque.remove(ticket) takes out the ticket and nothing else, and keeps the order.
LEMMA RemoveTicketKeepsTheRest ==
    ASSUME NEW q \in Seq(Nat), NEW k, Increasing(q),
           \E i \in 1..Len(q) : q[i] = k
    PROVE  LET r == RemoveTicket(q, k)
           IN  /\ r \in Seq(Nat)
               /\ Len(r) = Len(q) - 1
               /\ Increasing(r)
               /\ \A j \in 1..Len(r) : r[j] # k /\ \E n \in 1..Len(q) : q[n] = r[j]
               /\ \A n \in 1..Len(q) : q[n] # k => \E j \in 1..Len(r) : r[j] = q[n]
<1> DEFINE i == CHOOSE n \in DOMAIN q : q[n] = k
           r == RemoveTicket(q, k)
<1>1. i \in 1..Len(q) /\ q[i] = k
  <2>1. DOMAIN q = 1..Len(q)
    OBVIOUS
  <2>2. \E n \in DOMAIN q : q[n] = k
    BY <2>1
  <2> QED BY <2>1, <2>2
<1>2. Len(q) \in Nat /\ Len(q) - 1 \in Nat
  BY <1>1
<1>3. r = [n \in 1..(Len(q) - 1) |-> IF n < i THEN q[n] ELSE q[n + 1]]
  BY DEF RemoveTicket
<1> HIDE DEF i, r
<1>4. r \in Seq(Nat) /\ Len(r) = Len(q) - 1
  <2>1. \A n \in 1..(Len(q) - 1) : (IF n < i THEN q[n] ELSE q[n + 1]) \in Nat
    BY <1>1, <1>2
  <2>2. r \in [1..(Len(q) - 1) -> Nat]
    BY <1>3, <2>1
  <2> QED BY <1>2, <2>2
<1>5. Increasing(r)
  BY <1>1, <1>2, <1>3, <1>4 DEF Increasing
<1>6. \A j \in 1..Len(r) : r[j] # k /\ \E n \in 1..Len(q) : q[n] = r[j]
  <2> SUFFICES ASSUME NEW j \in 1..Len(r)
               PROVE  r[j] # k /\ \E n \in 1..Len(q) : q[n] = r[j]
    OBVIOUS
  <2>1. CASE j < i
    <3>1. r[j] = q[j] /\ j \in 1..Len(q) /\ q[j] < q[i]
      BY <1>1, <1>2, <1>3, <1>4, <2>1 DEF Increasing
    <3> QED BY <1>1, <3>1
  <2>2. CASE ~(j < i)
    <3>1. r[j] = q[j + 1] /\ j + 1 \in 1..Len(q) /\ q[i] < q[j + 1]
      BY <1>1, <1>2, <1>3, <1>4, <2>2 DEF Increasing
    <3> QED BY <1>1, <3>1
  <2> QED BY <2>1, <2>2
<1>7. \A n \in 1..Len(q) : q[n] # k => \E j \in 1..Len(r) : r[j] = q[n]
  <2> SUFFICES ASSUME NEW n \in 1..Len(q), q[n] # k
               PROVE  \E j \in 1..Len(r) : r[j] = q[n]
    OBVIOUS
  <2>1. CASE n < i
    <3>1. n \in 1..Len(r) /\ r[n] = q[n]
      BY <1>1, <1>2, <1>3, <1>4, <2>1
    <3> QED BY <3>1
  <2>2. CASE n > i
    <3>1. n - 1 \in 1..Len(r) /\ r[n - 1] = q[n]
      BY <1>1, <1>2, <1>3, <1>4, <2>2
    <3> QED BY <3>1
  <2> QED BY <1>1, <2>1, <2>2
<1> QED BY <1>4, <1>5, <1>6, <1>7 DEF r

-----------------------------------------------------------------------------
(* The three ends of a pass of the loop body re-establish the invariant. *)

LEMMA CancelledKeepsInv ==
    ASSUME IInv, NEW t \in Threads, NEW q, NEW k, LoopPre(t, q, k),
           pc[t] # "active", ticketCounter' \in 0..MaxTickets,
           Cancelled(t, q, k)
    PROVE  IInv'
<1> DEFINE r == RemoveTicket(q, k)
<1>1. /\ r \in Seq(Nat)
      /\ Len(r) = Len(q) - 1
      /\ Increasing(r)
      /\ \A j \in 1..Len(r) : r[j] # k /\ \E n \in 1..Len(q) : q[n] = r[j]
      /\ \A n \in 1..Len(q) : q[n] # k => \E j \in 1..Len(r) : r[j] = q[n]
  <2>1. q \in Seq(Nat) /\ Increasing(q) /\ \E i \in 1..Len(q) : q[i] = k
    BY DEF LoopPre
  <2> QED BY <2>1, RemoveTicketKeepsTheRest
<1>2. queue' = r
  BY DEF Cancelled
<1> HIDE DEF r
<1>3. /\ pc' \in [Threads -> {"outside", "parked", "awake", "active"}]
      /\ pc'[t] = "outside"
      /\ \A u \in Threads \ {t} :
            /\ Waiting(u) => pc'[u] = "awake"
            /\ ~Waiting(u) => pc'[u] = pc[u]
            /\ ticket'[u] = ticket[u]
  BY DEF IInv, TypeOK, Cancelled, NotifyAll, Waiting
<1>4. \A u \in Threads : Waiting(u)' <=> u # t /\ Waiting(u)
  BY <1>3 DEF Waiting
<1>5. TypeOK'
  <2>1. Len(q) \in Nat /\ Len(q) <= Capacity /\ Len(queue') <= Capacity
    BY <1>1, <1>2, CapacityAssumption DEF LoopPre
  <2> QED BY <1>1, <1>2, <1>3, <2>1 DEF IInv, TypeOK, Cancelled, NoTicket
<1>6. MutualExclusion'
  <2>1. \A u \in Threads : pc'[u] = "active" <=> pc[u] = "active"
    BY <1>3 DEF Waiting
  <2> QED BY <2>1 DEF IInv, MutualExclusion, Cancelled
<1>7. \A i \in 1..Len(queue') :
         \E u \in Threads \ {t} : Waiting(u) /\ ticket[u] = queue'[i]
  <2> SUFFICES ASSUME NEW i \in 1..Len(queue')
               PROVE  \E u \in Threads \ {t} : Waiting(u) /\ ticket[u] = queue'[i]
    OBVIOUS
  <2>1. PICK n \in 1..Len(q) : q[n] = queue'[i] /\ q[n] # k
    BY <1>1, <1>2
  <2> QED BY <2>1 DEF LoopPre
<1>8. NoLostWakeup'
  <2> SUFFICES ASSUME queue' # <<>>
               PROVE  \E u \in Threads : pc'[u] = "awake" /\ ticket'[u] = queue'[1]
    BY DEF NoLostWakeup
  <2>1. 1 \in 1..Len(queue')
    BY <1>1, <1>2
  <2> QED BY <1>3, <1>7, <2>1
<1>9. QueueInv'
  <2>1. Increasing(queue')
    BY <1>1, <1>2
  <2>2. \A i \in 1..Len(queue') : queue'[i] < ticketCounter'
    BY <1>1, <1>2 DEF LoopPre
  <2>3. \A u \in Threads :
           Waiting(u)' => \E i \in 1..Len(queue') : queue'[i] = ticket'[u]
    <3> SUFFICES ASSUME NEW u \in Threads, Waiting(u)'
                 PROVE  \E i \in 1..Len(queue') : queue'[i] = ticket'[u]
      OBVIOUS
    <3>1. u # t /\ Waiting(u) /\ ticket'[u] = ticket[u]
      BY <1>3, <1>4
    <3>2. PICK n \in 1..Len(q) : q[n] = ticket[u] /\ q[n] # k
      BY <3>1 DEF LoopPre
    <3> QED BY <1>1, <1>2, <3>1, <3>2
  <2>4. \A i \in 1..Len(queue') : \E u \in Threads : Waiting(u)' /\ ticket'[u] = queue'[i]
    BY <1>3, <1>4, <1>7
  <2>5. \A u, v \in Threads :
           Waiting(u)' /\ Waiting(v)' /\ ticket'[u] = ticket'[v] => u = v
    BY <1>3, <1>4 DEF IInv, QueueInv
  <2> QED BY <2>1, <2>2, <2>3, <2>4, <2>5 DEF QueueInv, Increasing
<1> QED BY <1>5, <1>6, <1>8, <1>9 DEF IInv

LEMMA AdmittedKeepsInv ==
    ASSUME IInv, NEW t \in Threads, NEW q, NEW k, LoopPre(t, q, k),
           pc[t] # "active", ticketCounter' \in 0..MaxTickets,
           Admitted(t, q, k)
    PROVE  IInv'
<1>1. /\ q \in Seq(Nat) /\ q # <<>> /\ q[1] = k /\ ~active
      /\ queue' = Tail(q) /\ active' = TRUE /\ gone' = gone
      /\ ticket' = [ticket EXCEPT ![t] = NoTicket]
      /\ pc' = [pc EXCEPT ![t] = "active"]
  BY DEF Admitted, MyTurn, LoopPre
<1>2. /\ Len(q) \in Nat /\ Len(q) >= 1
      /\ queue' \in Seq(Nat) /\ Len(queue') = Len(q) - 1
      /\ \A i \in 1..Len(queue') : i + 1 \in 1..Len(q) /\ queue'[i] = q[i + 1]
  BY <1>1
<1>3. \A u \in Threads : Waiting(u)' <=> u # t /\ Waiting(u)
  BY <1>1 DEF Waiting, IInv, TypeOK
<1>4. \A u \in Threads \ {t} : pc'[u] = pc[u] /\ ticket'[u] = ticket[u]
  BY <1>1 DEF IInv, TypeOK
<1>5. TypeOK'
  <2>1. Len(queue') <= Capacity
    BY <1>2, CapacityAssumption DEF LoopPre
  <2> QED BY <1>1, <1>2, <2>1 DEF IInv, TypeOK, NoTicket
<1>6. MutualExclusion'
  <2>1. pc'[t] = "active"
    BY <1>1 DEF IInv, TypeOK
  <2>2. \A u \in Threads : pc[u] # "active"
    BY <1>1 DEF IInv, MutualExclusion
  <2> QED BY <1>1, <1>4, <2>1, <2>2 DEF MutualExclusion
<1>7. NoLostWakeup'
  BY <1>1 DEF NoLostWakeup
<1>8. QueueInv'
  <2>1. Increasing(queue')
    <3> SUFFICES ASSUME NEW i \in 1..Len(queue'), NEW j \in 1..Len(queue'), i < j
                 PROVE  queue'[i] < queue'[j]
      BY DEF Increasing
    <3>1. i + 1 \in 1..Len(q) /\ j + 1 \in 1..Len(q) /\ i + 1 < j + 1
      BY <1>2
    <3>2. q[i + 1] < q[j + 1]
      BY <3>1 DEF LoopPre, Increasing
    <3> QED BY <1>2, <3>2
  <2>2. \A i \in 1..Len(queue') : queue'[i] < ticketCounter' /\ queue'[i] # k
    <3> SUFFICES ASSUME NEW i \in 1..Len(queue')
                 PROVE  queue'[i] < ticketCounter' /\ queue'[i] # k
      OBVIOUS
    <3>1. i + 1 \in 1..Len(q) /\ 1 \in 1..Len(q) /\ 1 < i + 1 /\ queue'[i] = q[i + 1]
      BY <1>2
    <3>2. q[1] < q[i + 1] /\ q[1] \in Nat /\ q[i + 1] \in Nat
      BY <1>1, <3>1 DEF LoopPre, Increasing
    <3> QED BY <1>1, <3>1, <3>2 DEF LoopPre
  <2>3. \A u \in Threads :
           Waiting(u)' => \E i \in 1..Len(queue') : queue'[i] = ticket'[u]
    <3> SUFFICES ASSUME NEW u \in Threads, Waiting(u)'
                 PROVE  \E i \in 1..Len(queue') : queue'[i] = ticket'[u]
      OBVIOUS
    <3>1. u # t /\ ticket'[u] = ticket[u] /\ ticket[u] # k
      BY <1>3, <1>4 DEF LoopPre
    <3>2. PICK i \in 1..Len(q) : q[i] = ticket[u]
      BY <1>3, <3>1 DEF LoopPre
    <3>3. i # 1
      BY <1>1, <3>1, <3>2
    <3>4. i - 1 \in 1..Len(queue') /\ queue'[i - 1] = q[i]
      <4>1. i - 1 \in 1..Len(queue')
        BY <1>2, <3>2, <3>3
      <4> QED BY <1>2, <4>1
    <3> QED BY <3>1, <3>2, <3>4
  <2>4. \A i \in 1..Len(queue') : \E u \in Threads : Waiting(u)' /\ ticket'[u] = queue'[i]
    <3> SUFFICES ASSUME NEW i \in 1..Len(queue')
                 PROVE  \E u \in Threads : Waiting(u)' /\ ticket'[u] = queue'[i]
      OBVIOUS
    <3>1. i + 1 \in 1..Len(q) /\ q[i + 1] = queue'[i] /\ q[i + 1] # k
      BY <1>2, <2>2
    <3>2. PICK u \in Threads \ {t} : Waiting(u) /\ ticket[u] = q[i + 1]
      BY <3>1 DEF LoopPre
    <3> QED BY <1>3, <1>4, <3>1, <3>2
  <2>5. \A u, v \in Threads :
           Waiting(u)' /\ Waiting(v)' /\ ticket'[u] = ticket'[v] => u = v
    BY <1>3, <1>4 DEF IInv, QueueInv
  <2> QED BY <2>1, <2>2, <2>3, <2>4, <2>5 DEF QueueInv, Increasing
<1> QED BY <1>5, <1>6, <1>7, <1>8 DEF IInv

LEMMA ParkedKeepsInv ==
    ASSUME IInv, NEW t \in Threads, NEW q, NEW k, LoopPre(t, q, k),
           pc[t] # "active", ticketCounter' \in 0..MaxTickets,
           Parked(t, q, k)
    PROVE  IInv'
<1>1. /\ queue' = q /\ active' = active /\ gone' = gone
      /\ ticket' = [ticket EXCEPT ![t] = k]
      /\ pc' = [pc EXCEPT ![t] = "parked"]
      /\ ~MyTurn(q, k)
  BY DEF Parked
<1>2. /\ q \in Seq(Nat) /\ k \in Nat /\ Len(q) \in Nat
      /\ \E i \in 1..Len(q) : q[i] = k
      /\ q # <<>>
  BY DEF LoopPre
<1>3. /\ pc'[t] = "parked" /\ ticket'[t] = k
      /\ \A u \in Threads \ {t} : pc'[u] = pc[u] /\ ticket'[u] = ticket[u]
  BY <1>1 DEF IInv, TypeOK
<1>4. Waiting(t)' /\ \A u \in Threads \ {t} : Waiting(u)' <=> Waiting(u)
  BY <1>3 DEF Waiting
<1>5. TypeOK'
  BY <1>1, <1>2 DEF IInv, TypeOK, LoopPre
<1>6. MutualExclusion'
  BY <1>1, <1>3 DEF IInv, MutualExclusion
<1>7. NoLostWakeup'
  <2> SUFFICES ASSUME ~active
               PROVE  \E u \in Threads : pc'[u] = "awake" /\ ticket'[u] = queue'[1]
    BY <1>1 DEF NoLostWakeup
  <2>1. q[1] # k
    BY <1>1, <1>2 DEF MyTurn
  <2>2. PICK u \in Threads \ {t} : pc[u] = "awake" /\ ticket[u] = q[1]
    BY <2>1 DEF LoopPre
  <2> QED BY <1>1, <1>3, <2>2
<1>8. QueueInv'
  <2>1. Increasing(queue') /\ \A i \in 1..Len(queue') : queue'[i] < ticketCounter'
    BY <1>1 DEF LoopPre
  <2>2. \A u \in Threads :
           Waiting(u)' => \E i \in 1..Len(queue') : queue'[i] = ticket'[u]
    BY <1>1, <1>2, <1>3, <1>4 DEF LoopPre
  <2>3. \A i \in 1..Len(queue') : \E u \in Threads : Waiting(u)' /\ ticket'[u] = queue'[i]
    BY <1>1, <1>3, <1>4 DEF LoopPre
  <2>4. \A u, v \in Threads :
           Waiting(u)' /\ Waiting(v)' /\ ticket'[u] = ticket'[v] => u = v
    <3> SUFFICES ASSUME NEW u \in Threads, NEW v \in Threads, Waiting(u)', Waiting(v)',
                        ticket'[u] = ticket'[v], u # v
                 PROVE  FALSE
      OBVIOUS
    <3>1. CASE u = t
      BY <1>3, <1>4, <3>1 DEF LoopPre
    <3>2. CASE v = t
      BY <1>3, <1>4, <3>2 DEF LoopPre
    <3>3. CASE u # t /\ v # t
      BY <1>3, <1>4, <3>3 DEF IInv, QueueInv
    <3> QED BY <3>1, <3>2, <3>3
  <2> QED BY <2>1, <2>2, <2>3, <2>4 DEF QueueInv, Increasing
<1> QED BY <1>5, <1>6, <1>7, <1>8 DEF IInv

LEMMA LoopPassKeepsInv ==
    ASSUME IInv, NEW t \in Threads, NEW q, NEW k, LoopPre(t, q, k),
           pc[t] # "active", ticketCounter' \in 0..MaxTickets,
           LoopPass(t, q, k)
    PROVE  IInv'
BY CancelledKeepsInv, AdmittedKeepsInv, ParkedKeepsInv DEF LoopPass

-----------------------------------------------------------------------------
(* The invariant holds initially and every action keeps it. *)

LEMMA InitInv == Init => IInv
<1> SUFFICES ASSUME Init PROVE IInv
  OBVIOUS
<1>1. TypeOK
  <2>1. <<>> \in Seq(Nat) /\ Len(<<>>) = 0 /\ 0 <= Capacity /\ 0 \in 0..MaxTickets
    BY CapacityAssumption, MaxTicketsAssumption
  <2> QED BY <2>1 DEF Init, TypeOK, NoTicket
<1>2. \A t \in Threads : pc[t] = "outside"
  BY DEF Init
<1>3. MutualExclusion /\ NoLostWakeup
  BY <1>2 DEF Init, MutualExclusion, NoLostWakeup
<1>4. QueueInv
  <2>1. \A i \in 1..Len(queue) : FALSE
    BY DEF Init
  <2> QED BY <1>2, <2>1 DEF QueueInv, Increasing, Waiting
<1> QED BY <1>1, <1>3, <1>4 DEF IInv

LEMMA EnqueueKeepsInv ==
    ASSUME IInv, NEW t \in Threads, Enqueue(t)
    PROVE  IInv'
<1> DEFINE q == Append(queue, ticketCounter)
           k == ticketCounter
<1>1. /\ pc[t] = "outside"
      /\ ~SlotIsFree
      /\ ~QueueIsFull
      /\ ticketCounter' = k + 1
      /\ ticketCounter' \in 0..MaxTickets
      /\ LoopPass(t, q, k)
  BY MaxTicketsAssumption DEF Enqueue, IInv, TypeOK
<1>2. /\ queue \in Seq(Nat) /\ Len(queue) \in Nat /\ k \in Nat
      /\ q \in Seq(Nat) /\ Len(q) = Len(queue) + 1 /\ Len(q) <= Capacity
      /\ \A i \in 1..Len(queue) : q[i] = queue[i]
      /\ q[Len(queue) + 1] = k
  BY <1>1, CapacityAssumption DEF IInv, TypeOK, QueueIsFull
<1>3. \A i \in 1..Len(q) : i \in 1..Len(queue) \/ i = Len(queue) + 1
  BY <1>2
<1>4. \A i \in 1..Len(queue) : queue[i] \in Nat /\ queue[i] < k
  BY <1>2 DEF IInv, QueueInv
<1> HIDE DEF q, k
<1>5. Increasing(q)
  <2> SUFFICES ASSUME NEW i \in 1..Len(q), NEW j \in 1..Len(q), i < j
               PROVE  q[i] < q[j]
    BY DEF Increasing
  <2>1. i \in 1..Len(queue)
    BY <1>2, <1>3
  <2>2. CASE j \in 1..Len(queue)
    BY <1>2, <2>1, <2>2 DEF IInv, QueueInv, Increasing
  <2>3. CASE j = Len(queue) + 1
    BY <1>2, <1>4, <2>1, <2>3
  <2> QED BY <1>3, <2>2, <2>3
<1>6. \E i \in 1..Len(q) : q[i] = k
  BY <1>2
<1>7. \A i \in 1..Len(q) : q[i] < ticketCounter'
  <2> SUFFICES ASSUME NEW i \in 1..Len(q)
               PROVE  q[i] < k + 1
    BY <1>1
  <2>1. CASE i \in 1..Len(queue)
    BY <1>2, <1>4, <2>1
  <2>2. CASE i = Len(queue) + 1
    BY <1>2, <2>2
  <2> QED BY <1>3, <2>1, <2>2
<1>8. \A u \in Threads \ {t} :
         Waiting(u) => ticket[u] # k /\ \E i \in 1..Len(q) : q[i] = ticket[u]
  <2> SUFFICES ASSUME NEW u \in Threads \ {t}, Waiting(u)
               PROVE  ticket[u] # k /\ \E i \in 1..Len(q) : q[i] = ticket[u]
    OBVIOUS
  <2>1. PICK i \in 1..Len(queue) : queue[i] = ticket[u]
    BY DEF IInv, QueueInv
  <2>2. i \in 1..Len(q) /\ q[i] = ticket[u]
    BY <1>2, <2>1
  <2> QED BY <1>2, <1>4, <2>1, <2>2
<1>9. \A i \in 1..Len(queue) :
         \E u \in Threads \ {t} : Waiting(u) /\ ticket[u] = queue[i]
  BY <1>1 DEF IInv, QueueInv, Waiting
<1>10. \A i \in 1..Len(q) :
          q[i] = k \/ \E u \in Threads \ {t} : Waiting(u) /\ ticket[u] = q[i]
  BY <1>2, <1>3, <1>9
<1>11. ~active => \E u \in Threads \ {t} : pc[u] = "awake" /\ ticket[u] = q[1]
  <2> SUFFICES ASSUME ~active
               PROVE  \E u \in Threads \ {t} : pc[u] = "awake" /\ ticket[u] = q[1]
    OBVIOUS
  <2>1. queue # <<>>
    BY <1>1 DEF SlotIsFree
  <2>2. q[1] = queue[1]
    BY <1>2, <2>1
  <2>3. PICK u \in Threads : pc[u] = "awake" /\ ticket[u] = queue[1]
    BY <2>1 DEF IInv, NoLostWakeup
  <2> QED BY <1>1, <2>2, <2>3
<1>12. LoopPre(t, q, k)
  BY <1>2, <1>5, <1>6, <1>7, <1>8, <1>10, <1>11 DEF LoopPre
<1> QED BY <1>1, <1>12, LoopPassKeepsInv DEF q, k

LEMMA RecheckKeepsInv ==
    ASSUME IInv, NEW t \in Threads, Recheck(t)
    PROVE  IInv'
<1>1. pc[t] = "awake" /\ LoopPass(t, queue, ticket[t]) /\ ticketCounter' = ticketCounter
  BY DEF Recheck
<1>2. Waiting(t)
  BY <1>1 DEF Waiting
<1>3. ticketCounter' \in 0..MaxTickets
  BY <1>1 DEF IInv, TypeOK
<1>4. PICK i \in 1..Len(queue) : queue[i] = ticket[t]
  BY <1>2 DEF IInv, QueueInv
<1>5. queue \in Seq(Nat) /\ Len(queue) <= Capacity /\ ticket[t] \in Nat
  BY <1>4 DEF IInv, TypeOK
<1>6. \A n \in 1..Len(queue) : queue[n] < ticketCounter'
  BY <1>1 DEF IInv, QueueInv
<1>7. \A u \in Threads \ {t} :
         Waiting(u) => ticket[u] # ticket[t] /\ \E n \in 1..Len(queue) : queue[n] = ticket[u]
  BY <1>2 DEF IInv, QueueInv
<1>8. \A n \in 1..Len(queue) :
         queue[n] = ticket[t] \/ \E u \in Threads \ {t} : Waiting(u) /\ ticket[u] = queue[n]
  BY DEF IInv, QueueInv
<1>9. ~active =>
         queue[1] = ticket[t] \/ \E u \in Threads \ {t} : pc[u] = "awake" /\ ticket[u] = queue[1]
  <2>1. queue # <<>>
    BY <1>4, <1>5
  <2> QED BY <2>1 DEF IInv, NoLostWakeup
<1>10. LoopPre(t, queue, ticket[t])
  BY <1>4, <1>5, <1>6, <1>7, <1>8, <1>9 DEF LoopPre, IInv, QueueInv
<1> QED BY <1>1, <1>3, <1>10, LoopPassKeepsInv

LEMMA EnterFastKeepsInv ==
    ASSUME IInv, NEW t \in Threads, EnterFast(t)
    PROVE  IInv'
<1>1. /\ pc[t] = "outside" /\ ~active /\ queue = <<>> /\ active' = TRUE
      /\ pc' = [pc EXCEPT ![t] = "active"]
      /\ UNCHANGED <<queue, ticketCounter, ticket, gone>>
  BY DEF EnterFast, SlotIsFree
<1>2. pc'[t] = "active" /\ \A u \in Threads \ {t} : pc'[u] = pc[u]
  BY <1>1 DEF IInv, TypeOK
<1>3. TypeOK'
  BY <1>1 DEF IInv, TypeOK
<1>4. MutualExclusion'
  BY <1>1, <1>2 DEF IInv, MutualExclusion
<1>5. NoLostWakeup'
  BY <1>1 DEF NoLostWakeup
<1>6. \A u \in Threads : ~Waiting(u)'
  BY <1>1, <1>2 DEF IInv, QueueInv, Waiting
<1>7. QueueInv'
  BY <1>1, <1>6 DEF QueueInv, Increasing
<1> QED BY <1>3, <1>4, <1>5, <1>7 DEF IInv

LEMMA WaitTimeoutKeepsInv ==
    ASSUME IInv, NEW t \in Threads, WaitTimeout(t)
    PROVE  IInv'
<1>1. /\ pc[t] = "parked" /\ pc' = [pc EXCEPT ![t] = "awake"]
      /\ UNCHANGED <<active, queue, ticketCounter, ticket, gone>>
  BY DEF WaitTimeout
<1>2. pc'[t] = "awake" /\ \A u \in Threads \ {t} : pc'[u] = pc[u]
  BY <1>1 DEF IInv, TypeOK
<1>3. \A u \in Threads : Waiting(u)' <=> Waiting(u)
  BY <1>1, <1>2 DEF Waiting
<1>4. TypeOK'
  BY <1>1 DEF IInv, TypeOK
<1>5. MutualExclusion'
  BY <1>1, <1>2 DEF IInv, MutualExclusion
<1>6. NoLostWakeup'
  BY <1>1, <1>2 DEF IInv, NoLostWakeup
<1>7. QueueInv'
  BY <1>1, <1>3 DEF IInv, QueueInv
<1> QED BY <1>4, <1>5, <1>6, <1>7 DEF IInv

LEMMA ReleaseKeepsInv ==
    ASSUME IInv, NEW t \in Threads, Release(t)
    PROVE  IInv'
<1>1. /\ pc[t] = "active" /\ active' = FALSE
      /\ pc' = [NotifyAll EXCEPT ![t] = "outside"]
      /\ gone' = [gone EXCEPT ![t] = FALSE]
      /\ UNCHANGED <<queue, ticketCounter, ticket>>
  BY DEF Release
<1>2. /\ pc' \in [Threads -> {"outside", "parked", "awake", "active"}]
      /\ pc'[t] = "outside"
      /\ \A u \in Threads \ {t} :
            pc'[u] = IF Waiting(u) THEN "awake" ELSE pc[u]
  BY <1>1 DEF IInv, TypeOK, NotifyAll, Waiting
<1>3. \A u \in Threads : Waiting(u)' <=> Waiting(u)
  BY <1>1, <1>2 DEF Waiting
<1>4. TypeOK'
  BY <1>1, <1>2 DEF IInv, TypeOK
<1>5. MutualExclusion'
  BY <1>1, <1>2 DEF IInv, MutualExclusion
<1>6. NoLostWakeup'
  <2> SUFFICES ASSUME queue # <<>>
               PROVE  \E u \in Threads : pc'[u] = "awake" /\ ticket'[u] = queue'[1]
    BY <1>1 DEF NoLostWakeup
  <2>1. 1 \in 1..Len(queue)
    BY DEF IInv, TypeOK
  <2>2. PICK u \in Threads : Waiting(u) /\ ticket[u] = queue[1]
    BY <2>1 DEF IInv, QueueInv
  <2> QED BY <1>1, <1>2, <2>2 DEF Waiting
<1>7. QueueInv'
  BY <1>1, <1>3 DEF IInv, QueueInv
<1> QED BY <1>4, <1>5, <1>6, <1>7 DEF IInv

LEMMA ConnectionsKeepInv ==
    ASSUME IInv, NEW t \in Threads, Refuse(t) \/ Disconnect(t)
    PROVE  IInv'
<1>1. /\ gone' \in [Threads -> BOOLEAN]
      /\ UNCHANGED <<active, queue, ticketCounter, ticket, pc>>
  BY DEF Refuse, Disconnect, IInv, TypeOK
<1> QED BY <1>1 DEF IInv, TypeOK, MutualExclusion, NoLostWakeup, QueueInv, Waiting

LEMMA NextKeepsInv == IInv /\ [Next]_vars => IInv'
<1> SUFFICES ASSUME IInv, [Next]_vars PROVE IInv'
  OBVIOUS
<1>1. CASE UNCHANGED vars
  BY <1>1 DEF vars, IInv, TypeOK, MutualExclusion, NoLostWakeup, QueueInv, Waiting
<1>2. CASE Next
  <2> SUFFICES ASSUME NEW t \in Threads,
                      \/ EnterFast(t) \/ Refuse(t) \/ Enqueue(t) \/ Recheck(t)
                      \/ WaitTimeout(t) \/ Release(t) \/ Disconnect(t)
               PROVE  IInv'
    BY <1>2 DEF Next
  <2> QED BY EnterFastKeepsInv, EnqueueKeepsInv, RecheckKeepsInv, WaitTimeoutKeepsInv,
             ReleaseKeepsInv, ConnectionsKeepInv
<1> QED BY <1>1, <1>2

LEMMA Inductive == Spec => []IInv
<1> QED BY InitInv, NextKeepsInv, PTL DEF Spec

-----------------------------------------------------------------------------
\* Type correctness, with the queue bounded by the configured capacity.
THEOREM TypeCorrect == Spec => []TypeOK
<1>1. IInv => TypeOK
  BY DEF IInv
<1> QED BY <1>1, Inductive, PTL

\* One request at a time uses the physical server, whatever the interleaving.
THEOREM OneActiveRequest == Spec => []MutualExclusion
<1>1. IInv => MutualExclusion
  BY DEF IInv
<1> QED BY <1>1, Inductive, PTL

\* A free slot never coexists with a blocked oldest waiter.
THEOREM FreeSlotIsNoticed == Spec => []NoLostWakeup
<1>1. IInv => NoLostWakeup
  BY DEF IInv
<1> QED BY <1>1, Inductive, PTL

\* Nobody overtakes: the gate is FIFO whichever thread gets the lock first.
THEOREM NobodyOvertakes == Spec => FirstComeFirstServed
<1> DEFINE Fifo ==
      \A t, u \in Threads :
          pc[t] # "active" /\ pc'[t] = "active" /\ u # t /\ Waiting(u) =>
              Waiting(t) /\ ticket[t] < ticket[u]
<1>1. IInv /\ [Next]_vars => [Fifo]_vars
  <2> SUFFICES ASSUME IInv, Next,
                      NEW t \in Threads, NEW u \in Threads,
                      pc[t] # "active", pc'[t] = "active", u # t, Waiting(u)
               PROVE  Waiting(t) /\ ticket[t] < ticket[u]
    OBVIOUS
  <2>1. PICK n \in 1..Len(queue) : queue[n] = ticket[u]
    BY DEF IInv, QueueInv
  <2>2. queue # <<>>
    BY <2>1 DEF IInv, TypeOK
  <2>3. PICK w \in Threads :
           \/ EnterFast(w) \/ Refuse(w) \/ Enqueue(w) \/ Recheck(w)
           \/ WaitTimeout(w) \/ Release(w) \/ Disconnect(w)
    BY DEF Next
  <2>4. ~EnterFast(w)
    BY <2>2 DEF EnterFast, SlotIsFree
  <2>5. ~(Refuse(w) \/ WaitTimeout(w) \/ Release(w) \/ Disconnect(w))
    BY DEF Refuse, WaitTimeout, Release, Disconnect, NotifyAll, IInv, TypeOK
  <2>6. ~Enqueue(w)
    <3> SUFFICES ASSUME Enqueue(w) PROVE FALSE
      OBVIOUS
    <3>0. \A q, k : ~Cancelled(w, q, k) /\ ~Parked(w, q, k)
      <4> SUFFICES ASSUME NEW q, NEW k PROVE ~Cancelled(w, q, k) /\ ~Parked(w, q, k)
        OBVIOUS
      <4>1. ~Cancelled(w, q, k)
        <5> SUFFICES ASSUME pc' = [NotifyAll EXCEPT ![w] = "outside"] PROVE FALSE
          BY DEF Cancelled
        <5>1. pc'[t] = IF t = w THEN "outside" ELSE NotifyAll[t]
          BY DEF NotifyAll
        <5>2. NotifyAll[t] # "active"
          BY DEF NotifyAll
        <5> QED BY <5>1, <5>2
      <4>2. ~Parked(w, q, k)
        BY DEF Parked, IInv, TypeOK
      <4> QED BY <4>1, <4>2
    <3> DEFINE q == Append(queue, ticketCounter)
    <3>1. ~SlotIsFree /\ LoopPass(w, q, ticketCounter)
      BY DEF Enqueue
    <3>2. ~Cancelled(w, q, ticketCounter) /\ ~Parked(w, q, ticketCounter)
      BY <3>0
    <3>3. ~active /\ q[1] = ticketCounter
      BY <3>1, <3>2 DEF LoopPass, Admitted, MyTurn
    <3>4. 1 \in 1..Len(queue) /\ q[1] = queue[1] /\ queue[1] \in Nat
      BY <2>2 DEF IInv, TypeOK
    <3>5. queue[1] < ticketCounter
      BY <3>4 DEF IInv, QueueInv
    <3> QED BY <3>3, <3>4, <3>5
  <2>7. Recheck(w)
    BY <2>3, <2>4, <2>5, <2>6
  <2>8. Admitted(w, queue, ticket[w])
    BY <2>7 DEF Recheck, LoopPass, Cancelled, Parked, NotifyAll, IInv, TypeOK
  <2>9. w = t /\ queue[1] = ticket[t]
    BY <2>8 DEF Admitted, MyTurn, IInv, TypeOK
  <2>10. Waiting(t)
    BY <2>7, <2>9 DEF Recheck, Waiting
  <2>11. n # 1
    BY <2>1, <2>9, <2>10 DEF IInv, QueueInv
  <2>12. queue[1] < queue[n]
    <3>1. 1 \in 1..Len(queue) /\ 1 < n
      BY <2>1, <2>11 DEF IInv, TypeOK
    <3> QED BY <2>1, <3>1 DEF IInv, QueueInv, Increasing
  <2> QED BY <2>1, <2>9, <2>10, <2>12
<1>2. [][Fifo]_vars => FirstComeFirstServed
  BY DEF FirstComeFirstServed
<1> HIDE DEF Fifo
<1> QED BY <1>1, <1>2, Inductive, PTL DEF Spec
=============================================================================
