--------------------------- MODULE GateRefinement ---------------------------
(***************************************************************************)
(* The admission gate implements the first-come-first-served slot: every   *)
(* step of acquire, of the timed wait and of the finally block is a step   *)
(* of FifoSlot or changes nothing it can see.                              *)
(***************************************************************************)
EXTENDS AdmissionGateProofs

\* The slot's holder is the thread that is active, if one is.
HolderIsActive ==
    /\ \A t \in Threads : SlotHolder = t <=> pc[t] = "active"
    /\ SlotHolder = Nobody <=> ~active

\* l lists the threads whose tickets are in the queue, in the queue's order.
ListsOwners(l) ==
    /\ Len(l) = Len(queue)
    /\ \A i \in 1..Len(queue) : Waiting(l[i]) /\ ticket[l[i]] = queue[i]

\* The slot's line does, and it is the only sequence that does.
LineListsOwners ==
    /\ SlotLine \in Seq(Threads)
    /\ ListsOwners(SlotLine)
    /\ \A l \in Seq(Threads) : ListsOwners(l) => SlotLine = l
    /\ \A t \in Threads : Slot!InLine(t) <=> Waiting(t)

-----------------------------------------------------------------------------

LEMMA HolderMapped == IInv => HolderIsActive
<1> SUFFICES ASSUME IInv PROVE HolderIsActive
  OBVIOUS
<1>1. CASE active
  <2>1. PICK t \in Threads : pc[t] = "active"
    BY <1>1 DEF IInv, MutualExclusion
  <2>2. SlotHolder \in Threads /\ pc[SlotHolder] = "active"
    BY <1>1, <2>1 DEF SlotHolder
  <2> QED BY <1>1, <2>2, NobodyAssumption DEF HolderIsActive, IInv, MutualExclusion
<1>2. CASE ~active
  BY <1>2, NobodyAssumption DEF HolderIsActive, SlotHolder, IInv, MutualExclusion
<1> QED BY <1>1, <1>2

LEMMA LineMapped == IInv => LineListsOwners
<1> SUFFICES ASSUME IInv PROVE LineListsOwners
  OBVIOUS
<1>1. queue \in Seq(Nat) /\ Len(queue) \in Nat
  BY DEF IInv, TypeOK
<1>2. ASSUME NEW i \in 1..Len(queue)
      PROVE  /\ OwnerOf(queue[i]) \in Threads
             /\ Waiting(OwnerOf(queue[i])) /\ ticket[OwnerOf(queue[i])] = queue[i]
  <2>1. PICK t \in Threads : Waiting(t) /\ ticket[t] = queue[i]
    BY DEF IInv, QueueInv
  <2> QED BY <2>1 DEF OwnerOf
<1>3. /\ SlotLine \in Seq(Threads) /\ Len(SlotLine) = Len(queue)
      /\ \A i \in 1..Len(queue) : SlotLine[i] = OwnerOf(queue[i])
  BY <1>1, <1>2 DEF SlotLine
<1>4. ListsOwners(SlotLine)
  BY <1>2, <1>3 DEF ListsOwners
<1>5. ASSUME NEW l \in Seq(Threads), ListsOwners(l) PROVE SlotLine = l
  <2>1. Len(l) = Len(SlotLine)
    BY <1>3, <1>5 DEF ListsOwners
  <2>2. ASSUME NEW i \in 1..Len(queue) PROVE SlotLine[i] = l[i]
    <3>1. /\ SlotLine[i] \in Threads /\ Waiting(SlotLine[i]) /\ ticket[SlotLine[i]] = queue[i]
      BY <1>2, <1>3
    <3>2. l[i] \in Threads /\ Waiting(l[i]) /\ ticket[l[i]] = queue[i]
      BY <1>5 DEF ListsOwners
    <3> QED BY <3>1, <3>2 DEF IInv, QueueInv
  <2> QED BY <1>1, <1>3, <2>1, <2>2
<1>6. ASSUME NEW t \in Threads PROVE Slot!InLine(t) <=> Waiting(t)
  <2>1. DOMAIN SlotLine = 1..Len(queue)
    BY <1>3
  <2>2. ASSUME Slot!InLine(t) PROVE Waiting(t)
    <3>1. PICK i \in 1..Len(queue) : SlotLine[i] = t
      BY <2>1, <2>2 DEF Slot!InLine
    <3> QED BY <1>4, <3>1 DEF ListsOwners
  <2>3. ASSUME Waiting(t) PROVE Slot!InLine(t)
    <3>1. PICK i \in 1..Len(queue) : queue[i] = ticket[t]
      BY <2>3 DEF IInv, QueueInv
    <3>2. SlotLine[i] = t
      BY <1>2, <1>3, <2>3, <3>1 DEF IInv, QueueInv
    <3> QED BY <2>1, <3>1, <3>2 DEF Slot!InLine
  <2> QED BY <2>2, <2>3
<1> QED BY <1>3, <1>4, <1>5, <1>6 DEF LineListsOwners

-----------------------------------------------------------------------------
(* What a step leaves alone. *)

\* The mapping, before and after a step.
Mapped ==
    /\ IInv /\ HolderIsActive /\ LineListsOwners
    /\ IInv' /\ HolderIsActive' /\ LineListsOwners'

LEMMA SameHolder ==
    ASSUME Mapped, active' = active,
           \A u \in Threads : pc'[u] = "active" <=> pc[u] = "active"
    PROVE  SlotHolder' = SlotHolder
<1>1. CASE active
  <2>1. PICK t \in Threads : pc[t] = "active"
    BY <1>1 DEF Mapped, IInv, MutualExclusion
  <2> QED BY <2>1 DEF Mapped, HolderIsActive
<1>2. CASE ~active
  BY <1>2 DEF Mapped, HolderIsActive
<1> QED BY <1>1, <1>2

LEMMA SameLine ==
    ASSUME Mapped, queue' = queue,
           \A u \in Threads : Waiting(u) => Waiting(u)' /\ ticket'[u] = ticket[u]
    PROVE  SlotLine' = SlotLine
<1>1. PICK l \in Seq(Threads) : l = SlotLine
  BY DEF Mapped, LineListsOwners
<1>2. ListsOwners(l)
  BY <1>1 DEF Mapped, LineListsOwners
<1>3. \A i \in 1..Len(queue) : l[i] \in Threads
  BY <1>2 DEF ListsOwners
<1>4. ListsOwners(l)'
  BY <1>2, <1>3 DEF ListsOwners
<1> QED BY <1>1, <1>4 DEF Mapped, LineListsOwners

-----------------------------------------------------------------------------
(* Step by step. *)

\* notify_all touches neither who waits nor who is active.
LEMMA NotifiedStill ==
    ASSUME IInv, NEW t \in Threads, pc' = [NotifyAll EXCEPT ![t] = "outside"]
    PROVE  /\ pc'[t] = "outside" /\ ~Waiting(t)'
           /\ \A u \in Threads \ {t} :
                 /\ Waiting(u)' <=> Waiting(u)
                 /\ pc'[u] = "active" <=> pc[u] = "active"
<1>1. /\ pc'[t] = "outside"
      /\ \A u \in Threads \ {t} : pc'[u] = IF pc[u] = "parked" THEN "awake" ELSE pc[u]
  BY DEF NotifyAll
<1> QED BY <1>1 DEF Waiting

LEMMA EnterFastTakes ==
    ASSUME Mapped, NEW t \in Threads, EnterFast(t)
    PROVE  Slot!Take(t)
<1>1. /\ pc[t] = "outside" /\ ~active /\ queue = <<>> /\ active' = TRUE
      /\ pc' = [pc EXCEPT ![t] = "active"]
      /\ queue' = queue /\ ticket' = ticket /\ gone' = gone
  BY DEF EnterFast, SlotIsFree
<1>2. SlotHolder = Nobody /\ SlotLine = <<>>
  <2>1. SlotLine \in Seq(Threads) /\ Len(SlotLine) = 0
    BY <1>1 DEF Mapped, LineListsOwners, ListsOwners
  <2> QED BY <1>1, <2>1 DEF Mapped, HolderIsActive
<1>3. pc'[t] = "active" /\ \A u \in Threads \ {t} : pc'[u] = pc[u]
  BY <1>1 DEF Mapped, IInv, TypeOK
<1>4. SlotHolder' = t
  BY <1>3 DEF Mapped, HolderIsActive
<1>5. SlotLine' = SlotLine
  BY <1>1, <1>3, SameLine DEF Waiting
<1> QED BY <1>1, <1>2, <1>4, <1>5 DEF Slot!Take

LEMMA RefuseTurnsAway ==
    ASSUME Mapped, NEW t \in Threads, Refuse(t)
    PROVE  Slot!TurnAway(t)
<1>1. /\ pc[t] = "outside" /\ gone' = [gone EXCEPT ![t] = FALSE]
      /\ active' = active /\ queue' = queue /\ ticket' = ticket /\ pc' = pc
  BY DEF Refuse
<1>2. SlotHolder' = SlotHolder
  BY <1>1, SameHolder
<1>3. SlotLine' = SlotLine
  BY <1>1, SameLine DEF Waiting
<1>4. SlotHolder # t /\ ~Slot!InLine(t)
  BY <1>1 DEF Mapped, HolderIsActive, LineListsOwners, Waiting
<1> QED BY <1>1, <1>2, <1>3, <1>4 DEF Slot!TurnAway

LEMMA EnqueueJoins ==
    ASSUME Mapped, NEW t \in Threads, Enqueue(t)
    PROVE  Slot!Join(t) \/ Slot!TurnAway(t)
<1> DEFINE q == Append(queue, ticketCounter)
<1>1. /\ pc[t] = "outside" /\ (active \/ queue # <<>>) /\ Len(queue) < Capacity
      /\ LoopPass(t, q, ticketCounter)
  BY CapacityAssumption DEF Enqueue, SlotIsFree, QueueIsFull, Mapped, IInv, TypeOK
<1>2. /\ queue \in Seq(Nat) /\ Len(queue) \in Nat /\ ticketCounter \in Nat
      /\ q \in Seq(Nat) /\ Len(q) = Len(queue) + 1
      /\ \A i \in 1..Len(queue) : q[i] = queue[i] /\ queue[i] < ticketCounter
      /\ q[Len(queue) + 1] = ticketCounter
  BY DEF Mapped, IInv, TypeOK, QueueInv
<1> HIDE DEF q
<1>3. SlotHolder # t /\ ~Slot!InLine(t)
  BY <1>1 DEF Mapped, HolderIsActive, LineListsOwners, Waiting
<1>4. ~Admitted(t, q, ticketCounter)
  <2> SUFFICES ASSUME Admitted(t, q, ticketCounter) PROVE FALSE
    OBVIOUS
  <2>1. ~active /\ q[1] = ticketCounter /\ queue # <<>>
    BY <1>1 DEF Admitted, MyTurn
  <2>2. 1 \in 1..Len(queue)
    BY <1>2, <2>1
  <2> QED BY <1>2, <2>1, <2>2
<1>5. CASE Cancelled(t, q, ticketCounter)
  <2>1. /\ queue' = RemoveTicket(q, ticketCounter)
        /\ pc' = [NotifyAll EXCEPT ![t] = "outside"]
        /\ ticket' = [ticket EXCEPT ![t] = NoTicket]
        /\ gone' = [gone EXCEPT ![t] = FALSE] /\ active' = active
    BY <1>5 DEF Cancelled
  <2>2. queue' = queue
    <3> DEFINE n == CHOOSE n \in DOMAIN q : q[n] = ticketCounter
    <3>1. n = Len(queue) + 1
      <4>1. DOMAIN q = 1..(Len(queue) + 1)
        BY <1>2
      <4>2. \A m \in DOMAIN q : q[m] = ticketCounter <=> m = Len(queue) + 1
        BY <1>2, <4>1
      <4>3. Len(queue) + 1 \in DOMAIN q
        BY <1>2, <4>1
      <4> QED BY <4>2, <4>3
    <3>2. RemoveTicket(q, ticketCounter)
             = [m \in 1..(Len(q) - 1) |-> IF m < n THEN q[m] ELSE q[m + 1]]
      BY DEF RemoveTicket
    <3> HIDE DEF n
    <3>3. Len(q) - 1 = Len(queue)
      BY <1>2
    <3>4. RemoveTicket(q, ticketCounter) = [m \in 1..Len(queue) |-> queue[m]]
      BY <1>2, <3>1, <3>2, <3>3
    <3>5. queue = [m \in 1..Len(queue) |-> queue[m]]
      BY <1>2
    <3> QED BY <2>1, <3>4, <3>5
  <2>3. \A u \in Threads : Waiting(u) => u # t /\ Waiting(u)' /\ ticket'[u] = ticket[u]
    BY <1>1, <2>1, NotifiedStill DEF Mapped, IInv, TypeOK, Waiting
  <2>4. SlotLine' = SlotLine
    BY <2>2, <2>3, SameLine
  <2>5. \A u \in Threads : pc'[u] = "active" <=> pc[u] = "active"
    BY <1>1, <2>1, NotifiedStill DEF Mapped
  <2>6. SlotHolder' = SlotHolder
    BY <2>1, <2>5, SameHolder
  <2> QED BY <1>3, <2>1, <2>4, <2>6 DEF Slot!TurnAway
<1>6. CASE Parked(t, q, ticketCounter)
  <2>1. /\ queue' = q /\ pc' = [pc EXCEPT ![t] = "parked"]
        /\ ticket' = [ticket EXCEPT ![t] = ticketCounter]
        /\ active' = active /\ gone' = gone
    BY <1>6 DEF Parked
  <2>2. /\ pc'[t] = "parked" /\ ticket'[t] = ticketCounter
        /\ \A u \in Threads \ {t} : pc'[u] = pc[u] /\ ticket'[u] = ticket[u]
    BY <2>1 DEF Mapped, IInv, TypeOK
  <2>3. SlotHolder' = SlotHolder
    BY <1>1, <2>1, <2>2, SameHolder
  <2>4. PICK l \in Seq(Threads) : l = SlotLine
    BY DEF Mapped, LineListsOwners
  <2>5. Len(l) = Len(queue) /\ \A i \in 1..Len(queue) : Waiting(l[i]) /\ ticket[l[i]] = queue[i]
    BY <2>4 DEF Mapped, LineListsOwners, ListsOwners
  <2>6. PICK m : m = Append(l, t)
    OBVIOUS
  <2>7. /\ m \in Seq(Threads) /\ Len(m) = Len(queue) + 1 /\ m[Len(queue) + 1] = t
        /\ \A i \in 1..Len(queue) : m[i] = l[i] /\ l[i] \in Threads \ {t}
    <3>1. ASSUME NEW i \in 1..Len(queue) PROVE l[i] \in Threads \ {t}
      <4>1. l[i] \in Threads
        BY <1>2, <2>5
      <4>2. l[i] # t
        BY <1>1, <2>5 DEF Waiting
      <4> QED BY <4>1, <4>2
    <3>2. /\ m \in Seq(Threads) /\ Len(m) = Len(queue) + 1 /\ m[Len(queue) + 1] = t
          /\ \A i \in 1..Len(queue) : m[i] = l[i]
      <4>1. Len(l) = Len(queue) /\ Len(l) \in Nat
        BY <1>2, <2>5
      <4> QED BY <2>6, <4>1
    <3> QED BY <3>1, <3>2
  <2>8. ListsOwners(m)'
    <3> SUFFICES ASSUME NEW i \in 1..Len(queue')
                 PROVE  Waiting(m[i])' /\ ticket'[m[i]] = queue'[i]
      BY <1>2, <2>1, <2>7 DEF ListsOwners
    <3>1. CASE i \in 1..Len(queue)
      <4>1. m[i] = l[i] /\ l[i] \in Threads \ {t} /\ queue'[i] = queue[i]
        BY <1>2, <2>1, <2>7, <3>1
      <4>2. Waiting(l[i]) /\ ticket[l[i]] = queue[i]
        BY <2>5, <3>1
      <4>3. pc'[l[i]] = pc[l[i]] /\ ticket'[l[i]] = ticket[l[i]]
        BY <2>2, <4>1
      <4> QED BY <4>1, <4>2, <4>3 DEF Waiting
    <3>2. CASE i = Len(queue) + 1
      BY <1>2, <2>1, <2>2, <2>7, <3>2 DEF Waiting
    <3> QED BY <1>2, <2>1, <3>1, <3>2
  <2>9. SlotLine' = Append(SlotLine, t)
    BY <2>4, <2>6, <2>7, <2>8 DEF Mapped, LineListsOwners
  <2>10. (SlotHolder # Nobody \/ SlotLine # <<>>) /\ Len(SlotLine) < Capacity
    BY <1>1, <1>2, <2>4, <2>5 DEF Mapped, HolderIsActive
  <2> QED BY <1>3, <2>1, <2>3, <2>9, <2>10 DEF Slot!Join
<1> QED BY <1>1, <1>4, <1>5, <1>6 DEF LoopPass

\* Where t's ticket is in the queue, t is in the line, and only there.
LEMMA PlaceInLine ==
    ASSUME Mapped, NEW t \in Threads, Waiting(t), NEW l \in Seq(Threads), ListsOwners(l)
    PROVE  \E n \in 1..Len(queue) :
               /\ queue[n] = ticket[t] /\ l[n] = t
               /\ \A i \in 1..Len(queue) : queue[i] = ticket[t] => i = n
               /\ \A i \in 1..Len(queue) : i # n => l[i] \in Threads \ {t}
<1>1. PICK n \in 1..Len(queue) : queue[n] = ticket[t]
  BY DEF Mapped, IInv, QueueInv
<1>2. queue \in Seq(Nat) /\ Len(queue) \in Nat
  BY DEF Mapped, IInv, TypeOK
<1>3. \A i \in 1..Len(queue) : l[i] \in Threads /\ Waiting(l[i]) /\ ticket[l[i]] = queue[i]
  BY DEF ListsOwners
<1>4. l[n] = t
  BY <1>1, <1>3 DEF Mapped, IInv, QueueInv
<1>5. ASSUME NEW i \in 1..Len(queue), queue[i] = ticket[t] PROVE i = n
  <2>1. i \in Nat /\ n \in Nat /\ ~(i < n) /\ ~(n < i)
    BY <1>1, <1>2, <1>5 DEF Mapped, IInv, QueueInv, Increasing
  <2> QED BY <2>1
<1> QED BY <1>1, <1>3, <1>4, <1>5

LEMMA CancelledLeaves ==
    ASSUME Mapped, NEW t \in Threads, pc[t] = "awake", Cancelled(t, queue, ticket[t])
    PROVE  Slot!Leave(t)
<1>1. /\ gone[t] /\ queue' = RemoveTicket(queue, ticket[t])
      /\ pc' = [NotifyAll EXCEPT ![t] = "outside"]
      /\ ticket' = [ticket EXCEPT ![t] = NoTicket]
      /\ gone' = [gone EXCEPT ![t] = FALSE] /\ active' = active
  BY DEF Cancelled
<1>2. PICK l \in Seq(Threads) : l = SlotLine
  BY DEF Mapped, LineListsOwners
<1>3. ListsOwners(l) /\ Len(l) = Len(queue)
  BY <1>2 DEF Mapped, LineListsOwners, ListsOwners
<1>4. PICK n \in 1..Len(queue) :
         /\ queue[n] = ticket[t] /\ l[n] = t
         /\ \A i \in 1..Len(queue) : queue[i] = ticket[t] => i = n
         /\ \A i \in 1..Len(queue) : i # n => l[i] \in Threads \ {t}
  BY <1>3, PlaceInLine DEF Waiting
<1>5. queue \in Seq(Nat) /\ Len(queue) \in Nat /\ Len(queue) - 1 \in Nat /\ n \in Nat
  BY <1>4 DEF Mapped, IInv, TypeOK
<1>6. queue' = [i \in 1..(Len(queue) - 1) |-> IF i < n THEN queue[i] ELSE queue[i + 1]]
  <2>1. DOMAIN queue = 1..Len(queue)
    BY <1>5
  <2>2. (CHOOSE i \in DOMAIN queue : queue[i] = ticket[t]) = n
    BY <1>4, <2>1
  <2> QED BY <1>1, <2>2 DEF RemoveTicket
<1>7. Len(queue') = Len(queue) - 1
  BY <1>5, <1>6 DEF Mapped, IInv, TypeOK
<1>8. PICK m : m = Slot!Without(l, n)
  OBVIOUS
<1>9. /\ m \in Seq(Threads) /\ Len(m) = Len(queue) - 1
      /\ \A i \in 1..Len(queue) - 1 : m[i] = IF i < n THEN l[i] ELSE l[i + 1]
  <2>1. m = [i \in 1..Len(queue) - 1 |-> IF i < n THEN l[i] ELSE l[i + 1]]
    BY <1>3, <1>8 DEF Slot!Without
  <2>2. \A i \in 1..Len(queue) - 1 : (IF i < n THEN l[i] ELSE l[i + 1]) \in Threads
    BY <1>3, <1>5
  <2> QED BY <1>5, <2>1, <2>2
<1>10. \A i \in 1..Len(queue) - 1 :
          \E j \in 1..Len(queue) : j # n /\ m[i] = l[j] /\ queue'[i] = queue[j]
  <2> SUFFICES ASSUME NEW i \in 1..Len(queue) - 1
               PROVE  \E j \in 1..Len(queue) : j # n /\ m[i] = l[j] /\ queue'[i] = queue[j]
    OBVIOUS
  <2>1. CASE i < n
    <3>1. i \in 1..Len(queue) /\ i # n
      BY <1>5, <2>1
    <3> QED BY <1>6, <1>9, <2>1, <3>1
  <2>2. CASE ~(i < n)
    <3>1. i + 1 \in 1..Len(queue) /\ i + 1 # n
      BY <1>5, <2>2
    <3> QED BY <1>6, <1>9, <2>2, <3>1
  <2> QED BY <2>1, <2>2
<1>11. \A u \in Threads \ {t} : Waiting(u) => Waiting(u)' /\ ticket'[u] = ticket[u]
  BY <1>1, NotifiedStill DEF Mapped, IInv, TypeOK
<1>12. ListsOwners(m)'
  <2> SUFFICES ASSUME NEW i \in 1..Len(queue) - 1
               PROVE  Waiting(m[i])' /\ ticket'[m[i]] = queue'[i]
    BY <1>7, <1>9 DEF ListsOwners
  <2>1. PICK j \in 1..Len(queue) : j # n /\ m[i] = l[j] /\ queue'[i] = queue[j]
    BY <1>10
  <2>2. l[j] \in Threads \ {t} /\ Waiting(l[j]) /\ ticket[l[j]] = queue[j]
    BY <1>3, <1>4, <2>1 DEF ListsOwners
  <2> QED BY <1>11, <2>1, <2>2 DEF Waiting
<1>13. SlotLine' = Slot!Without(SlotLine, n)
  BY <1>2, <1>8, <1>9, <1>12 DEF Mapped, LineListsOwners
<1>14. n \in DOMAIN SlotLine /\ SlotLine[n] = t
  BY <1>2, <1>3, <1>4
<1>15. SlotHolder' = SlotHolder
  <2>1. \A u \in Threads : pc'[u] = "active" <=> pc[u] = "active"
    BY <1>1, NotifiedStill DEF Mapped
  <2> QED BY <1>1, <2>1, SameHolder
<1> QED BY <1>1, <1>13, <1>14, <1>15 DEF Slot!Leave

LEMMA AdmittedServes ==
    ASSUME Mapped, NEW t \in Threads, pc[t] = "awake", Admitted(t, queue, ticket[t])
    PROVE  Slot!Serve
<1>1. /\ ~gone[t] /\ ~active /\ queue # <<>> /\ queue[1] = ticket[t]
      /\ queue' = Tail(queue) /\ active' = TRUE
      /\ pc' = [pc EXCEPT ![t] = "active"]
      /\ ticket' = [ticket EXCEPT ![t] = NoTicket] /\ gone' = gone
  BY DEF Admitted, MyTurn
<1>2. PICK l \in Seq(Threads) : l = SlotLine
  BY DEF Mapped, LineListsOwners
<1>3. ListsOwners(l) /\ Len(l) = Len(queue)
  BY <1>2 DEF Mapped, LineListsOwners, ListsOwners
<1>4. PICK n \in 1..Len(queue) :
         /\ queue[n] = ticket[t] /\ l[n] = t
         /\ \A i \in 1..Len(queue) : queue[i] = ticket[t] => i = n
         /\ \A i \in 1..Len(queue) : i # n => l[i] \in Threads \ {t}
  BY <1>3, PlaceInLine DEF Waiting
<1>5. queue \in Seq(Nat) /\ Len(queue) \in Nat /\ 1 \in 1..Len(queue)
  BY <1>1 DEF Mapped, IInv, TypeOK
<1>6. n = 1
  BY <1>1, <1>4, <1>5
<1>7. l # <<>> /\ Head(l) = t
  BY <1>3, <1>4, <1>5, <1>6
<1>8. PICK m : m = Tail(l)
  OBVIOUS
<1>9. /\ m \in Seq(Threads) /\ Len(m) = Len(queue) - 1 /\ Len(queue') = Len(queue) - 1
      /\ \A i \in 1..Len(queue) - 1 : m[i] = l[i + 1] /\ queue'[i] = queue[i + 1]
  BY <1>1, <1>3, <1>5, <1>7, <1>8
<1>10. /\ pc'[t] = "active"
       /\ \A u \in Threads \ {t} : pc'[u] = pc[u] /\ ticket'[u] = ticket[u]
  BY <1>1 DEF Mapped, IInv, TypeOK
<1>11. ListsOwners(m)'
  <2> SUFFICES ASSUME NEW i \in 1..Len(queue) - 1
               PROVE  Waiting(m[i])' /\ ticket'[m[i]] = queue'[i]
    BY <1>9 DEF ListsOwners
  <2>1. i + 1 \in 1..Len(queue) /\ i + 1 # n
    BY <1>5, <1>6
  <2>2. l[i + 1] \in Threads \ {t} /\ Waiting(l[i + 1]) /\ ticket[l[i + 1]] = queue[i + 1]
    BY <1>3, <1>4, <2>1 DEF ListsOwners
  <2> QED BY <1>9, <1>10, <2>2 DEF Waiting
<1>12. SlotLine' = Tail(SlotLine)
  BY <1>2, <1>8, <1>9, <1>11 DEF Mapped, LineListsOwners
<1>13. SlotHolder = Nobody /\ SlotHolder' = t
  BY <1>1, <1>10 DEF Mapped, HolderIsActive
<1> QED BY <1>1, <1>2, <1>7, <1>12, <1>13 DEF Slot!Serve

LEMMA ParkedStutters ==
    ASSUME Mapped, NEW t \in Threads, pc[t] = "awake", Parked(t, queue, ticket[t])
    PROVE  UNCHANGED Slot!vars
<1>1. /\ queue' = queue /\ active' = active /\ gone' = gone
      /\ pc' = [pc EXCEPT ![t] = "parked"]
      /\ ticket' = [ticket EXCEPT ![t] = ticket[t]]
  BY DEF Parked
<1>2. /\ pc'[t] = "parked" /\ ticket'[t] = ticket[t]
      /\ \A u \in Threads \ {t} : pc'[u] = pc[u] /\ ticket'[u] = ticket[u]
  BY <1>1 DEF Mapped, IInv, TypeOK
<1>3. SlotHolder' = SlotHolder
  BY <1>1, <1>2, SameHolder
<1>4. SlotLine' = SlotLine
  BY <1>1, <1>2, SameLine DEF Waiting
<1> QED BY <1>1, <1>3, <1>4 DEF Slot!vars

LEMMA WaitTimeoutStutters ==
    ASSUME Mapped, NEW t \in Threads, WaitTimeout(t)
    PROVE  UNCHANGED Slot!vars
<1>1. /\ pc[t] = "parked" /\ pc' = [pc EXCEPT ![t] = "awake"]
      /\ queue' = queue /\ active' = active /\ gone' = gone /\ ticket' = ticket
  BY DEF WaitTimeout
<1>2. pc'[t] = "awake" /\ \A u \in Threads \ {t} : pc'[u] = pc[u]
  BY <1>1 DEF Mapped, IInv, TypeOK
<1>3. SlotHolder' = SlotHolder
  BY <1>1, <1>2, SameHolder
<1>4. SlotLine' = SlotLine
  BY <1>1, <1>2, SameLine DEF Waiting
<1> QED BY <1>1, <1>3, <1>4 DEF Slot!vars

LEMMA ReleaseFinishes ==
    ASSUME Mapped, NEW t \in Threads, Release(t)
    PROVE  Slot!Finish(t)
<1>1. /\ pc[t] = "active" /\ active' = FALSE
      /\ pc' = [NotifyAll EXCEPT ![t] = "outside"]
      /\ gone' = [gone EXCEPT ![t] = FALSE]
      /\ queue' = queue /\ ticket' = ticket
  BY DEF Release
<1>2. SlotHolder = t /\ SlotHolder' = Nobody
  BY <1>1 DEF Mapped, HolderIsActive
<1>3. \A u \in Threads : Waiting(u) => u # t /\ Waiting(u)'
  BY <1>1, NotifiedStill DEF Mapped, Waiting
<1>4. SlotLine' = SlotLine
  BY <1>1, <1>3, SameLine
<1> QED BY <1>1, <1>2, <1>4 DEF Slot!Finish

LEMMA DisconnectDisconnects ==
    ASSUME Mapped, NEW t \in Threads, Disconnect(t)
    PROVE  Slot!Disconnect(t)
<1>1. /\ gone' = [gone EXCEPT ![t] = TRUE]
      /\ active' = active /\ queue' = queue /\ ticket' = ticket /\ pc' = pc
  BY DEF Disconnect
<1>2. SlotHolder' = SlotHolder
  BY <1>1, SameHolder
<1>3. SlotLine' = SlotLine
  BY <1>1, SameLine DEF Waiting
<1> QED BY <1>1, <1>2, <1>3 DEF Slot!Disconnect

-----------------------------------------------------------------------------

LEMMA InitMapped == Init => Slot!Init
<1> SUFFICES ASSUME Init PROVE Slot!Init
  OBVIOUS
<1>1. SlotHolder = Nobody
  BY DEF Init, SlotHolder
<1>2. SlotLine = <<>>
  BY DEF Init, SlotLine
<1> QED BY <1>1, <1>2 DEF Init, Slot!Init

LEMMA StepMapped == Mapped /\ [Next]_vars => [Slot!Next]_(Slot!vars)
<1> SUFFICES ASSUME Mapped, [Next]_vars PROVE [Slot!Next]_(Slot!vars)
  OBVIOUS
<1>1. CASE UNCHANGED vars
  <2>1. active' = active /\ queue' = queue /\ ticket' = ticket /\ pc' = pc /\ gone' = gone
    BY <1>1 DEF vars
  <2>2. SlotHolder' = SlotHolder
    BY <2>1, SameHolder
  <2>3. SlotLine' = SlotLine
    BY <2>1, SameLine DEF Waiting
  <2> QED BY <2>1, <2>2, <2>3 DEF Slot!vars
<1>2. CASE Next
  <2>1. PICK t \in Threads :
           \/ EnterFast(t) \/ Refuse(t) \/ Enqueue(t) \/ Recheck(t)
           \/ WaitTimeout(t) \/ Release(t) \/ Disconnect(t)
    BY <1>2 DEF Next
  <2>2. CASE EnterFast(t) \/ Refuse(t) \/ Enqueue(t) \/ Release(t) \/ Disconnect(t)
    BY <2>2, EnterFastTakes, RefuseTurnsAway, EnqueueJoins, ReleaseFinishes,
       DisconnectDisconnects DEF Slot!Next
  <2>3. CASE Recheck(t)
    BY <2>3, CancelledLeaves, AdmittedServes, ParkedStutters DEF Recheck, LoopPass, Slot!Next
  <2>4. CASE WaitTimeout(t)
    BY <2>4, WaitTimeoutStutters
  <2> QED BY <2>1, <2>2, <2>3, <2>4
<1> QED BY <1>1, <1>2

\* The gate (acquire with its queue of tickets, the timed wait and the finally block)
\* does nothing the first-come-first-served slot would not do: its initial state and
\* every step map to the slot's.  The hand-over of a free slot is left to the runs.
THEOREM GateIsASlot == Spec => Slot!Spec
<1>1. IInv => HolderIsActive
  BY HolderMapped
<1>2. IInv => LineListsOwners
  BY LineMapped
<1>3. IInv /\ HolderIsActive /\ LineListsOwners /\ IInv' /\ HolderIsActive' /\ LineListsOwners'
        /\ [Next]_vars => [Slot!Next]_(Slot!vars)
  BY StepMapped DEF Mapped
<1>4. Init => Slot!Init
  BY InitMapped
<1> QED BY <1>1, <1>2, <1>3, <1>4, Inductive, PTL DEF Spec, Slot!Spec
=============================================================================
