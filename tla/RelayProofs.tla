---------------------------- MODULE RelayProofs ----------------------------
(***************************************************************************)
(* Safety of the relay's request life cycle, for any number of handler     *)
(* threads and any capacity of the waiting line.                           *)
(***************************************************************************)
EXTENDS Relay, TLAPS

\* No thread waits twice.
Distinct == \A i, j \in 1..Len(line) : line[i] = line[j] => i = j

\* The slot, the line, and where the handlers are.
SlotInv ==
    /\ holder \in Threads \cup {Nobody}
    /\ line \in Seq(Threads) /\ Len(line) <= Capacity
    /\ gone \in [Threads -> BOOLEAN]
    /\ stage \in [Threads -> Stages]
    /\ Distinct
    /\ SlotFollowsHandler

\* The stages in which nothing has been sent to the server or to the client yet.
Unsent == {"upload", "admit", "waiting", "probe", "admitted", "prepare", "send"}

\* What has been sent is bounded by how far the request has come.
SentInv ==
    /\ asked \in [Threads -> {0, 1}]
    /\ heads \in [Threads -> {0, 1}]
    /\ \A t \in Threads :
          /\ stage[t] \in Unsent => asked[t] = 0 /\ heads[t] = 0
          /\ stage[t] = "await" => heads[t] = 0

KindInv == kind \in [Threads -> Kinds]

IInv == SlotInv /\ SentInv /\ KindInv

-----------------------------------------------------------------------------
(* The waiting line. *)

LEMMA WithoutKeepsTheRest ==
    ASSUME NEW s \in Seq(Threads), NEW i \in 1..Len(s),
           \A j, k \in 1..Len(s) : s[j] = s[k] => j = k
    PROVE  LET r == Gate!Without(s, i)
           IN  /\ r \in Seq(Threads)
               /\ Len(r) = Len(s) - 1
               /\ \A j, k \in 1..Len(r) : r[j] = r[k] => j = k
               /\ \A j \in 1..Len(r) : r[j] # s[i] /\ \E k \in 1..Len(s) : r[j] = s[k]
               /\ \A k \in 1..Len(s) : k # i => \E j \in 1..Len(r) : r[j] = s[k]
<1> DEFINE r == Gate!Without(s, i)
<1>1. Len(s) \in Nat /\ Len(s) - 1 \in Nat /\ i \in Nat
  OBVIOUS
<1>2. r = [j \in 1..Len(s) - 1 |-> IF j < i THEN s[j] ELSE s[j + 1]]
  BY DEF Gate!Without
<1>3. \A j \in 1..Len(s) - 1 : j \in 1..Len(s) /\ j + 1 \in 1..Len(s)
  BY <1>1
<1>4. \A j \in 1..Len(s) - 1 : r[j] = IF j < i THEN s[j] ELSE s[j + 1]
  BY <1>2
<1>5. r \in Seq(Threads) /\ Len(r) = Len(s) - 1
  <2>1. \A j \in 1..Len(s) - 1 : (IF j < i THEN s[j] ELSE s[j + 1]) \in Threads
    BY <1>3
  <2> QED BY <1>1, <1>2, <2>1
<1> HIDE DEF r
<1>6. \A j \in 1..Len(s) - 1 :
          \E k \in 1..Len(s) : r[j] = s[k] /\ k # i /\ k = IF j < i THEN j ELSE j + 1
  BY <1>1, <1>3, <1>4
<1>7. \A j, k \in 1..Len(r) : r[j] = r[k] => j = k
  BY <1>1, <1>5, <1>6
<1>8. \A j \in 1..Len(r) : r[j] # s[i] /\ \E k \in 1..Len(s) : r[j] = s[k]
  BY <1>5, <1>6
<1>9. ASSUME NEW k \in 1..Len(s), k # i PROVE \E j \in 1..Len(r) : r[j] = s[k]
  <2>1. CASE k < i
    <3>1. k \in 1..Len(s) - 1
      BY <2>1, <1>1
    <3> QED BY <2>1, <3>1, <1>4, <1>5
  <2>2. CASE i < k
    <3>1. k - 1 \in 1..Len(s) - 1 /\ ~(k - 1 < i) /\ (k - 1) + 1 = k
      BY <2>2, <1>1
    <3>2. r[k - 1] = s[k]
      BY <3>1, <1>4
    <3> QED BY <3>1, <3>2, <1>5
  <2> QED BY <2>1, <2>2, <1>9
<1> QED BY <1>5, <1>7, <1>8, <1>9 DEF r

-----------------------------------------------------------------------------
(* What each way of moving on does to the slot. *)

\* A handler moves on inside the slot or outside it, or ends outside it.
LEMMA SlotStays ==
    ASSUME SlotInv, NEW t \in Threads, NEW s \in Stages,
           MovesTo(t, s), UNCHANGED <<holder, line>>, gone' \in [Threads -> BOOLEAN],
           stage[t] \in Inside <=> s \in Inside, stage[t] # "waiting", s # "waiting"
    PROVE  SlotInv'
  BY DEF SlotInv, Distinct, SlotFollowsHandler, MovesTo, Gate!InLine

\* It gives the slot back.
LEMMA SlotGivenBack ==
    ASSUME SlotInv, NEW t \in Threads, MovesTo(t, "idle"), Gate!Finish(t)
    PROVE  SlotInv'
<1>1. Nobody \notin Threads
  BY RelayNobodyAssumption
<1> QED
  BY <1>1 DEF SlotInv, Distinct, SlotFollowsHandler, MovesTo, Gate!Finish, Gate!InLine,
     Stages, Inside

LEMMA SlotTaken ==
    ASSUME SlotInv, NEW t \in Threads, stage[t] = "admit",
           MovesTo(t, "admitted"), Gate!Take(t)
    PROVE  SlotInv'
<1>1. Nobody \notin Threads
  BY RelayNobodyAssumption
<1> QED
  BY <1>1 DEF SlotInv, Distinct, SlotFollowsHandler, MovesTo, Gate!Take, Gate!InLine,
     Stages, Inside

LEMMA LineJoined ==
    ASSUME SlotInv, NEW t \in Threads, stage[t] = "admit",
           MovesTo(t, "waiting"), Gate!Join(t)
    PROVE  SlotInv'
<1>1. /\ line' \in Seq(Threads) /\ Len(line') = Len(line) + 1 /\ Len(line) \in Nat
      /\ \A i \in 1..Len(line) : line'[i] = line[i]
      /\ line'[Len(line) + 1] = t
      /\ Len(line') <= Capacity
  BY RelayCapacityAssumption DEF SlotInv, Gate!Join
<1>2. ~Gate!InLine(t) /\ \A i \in 1..Len(line) : line[i] # t
  BY DEF Gate!Join, Gate!InLine, SlotInv
<1>3. Distinct'
  BY <1>1, <1>2 DEF SlotInv, Distinct
<1>4. \A u \in Threads : Gate!InLine(u)' <=> u = t \/ Gate!InLine(u)
  <2>1. DOMAIN line = 1..Len(line) /\ DOMAIN line' = 1..(Len(line) + 1)
    BY <1>1 DEF SlotInv
  <2> QED BY <1>1, <2>1 DEF Gate!InLine
<1>5. SlotFollowsHandler'
  BY <1>4 DEF SlotInv, SlotFollowsHandler, MovesTo, Gate!Join, Inside
<1> QED BY <1>1, <1>3, <1>5 DEF SlotInv, MovesTo, Gate!Join, Stages

LEMMA HeadServed ==
    ASSUME SlotInv, Gate!Serve, MovesTo(Head(line), "admitted")
    PROVE  SlotInv' /\ Head(line) \in Threads /\ stage[Head(line)] = "waiting"
<1> DEFINE h == Head(line)
<1>1. /\ line # <<>> /\ Len(line) \in Nat /\ 1 \in 1..Len(line) /\ h = line[1]
      /\ h \in Threads /\ Nobody \notin Threads
  BY RelayNobodyAssumption DEF SlotInv, Gate!Serve
<1>2. /\ line' \in Seq(Threads) /\ Len(line') = Len(line) - 1
      /\ \A i \in 1..Len(line) - 1 : line'[i] = line[i + 1]
  BY <1>1 DEF SlotInv, Gate!Serve
<1>3. stage[h] = "waiting"
  BY <1>1 DEF SlotInv, SlotFollowsHandler, Gate!InLine
<1>4. Distinct' /\ \A i \in 1..Len(line') : line'[i] # h
  BY <1>1, <1>2 DEF SlotInv, Distinct
<1>5. \A u \in Threads : Gate!InLine(u)' <=> u # h /\ Gate!InLine(u)
  <2>1. DOMAIN line = 1..Len(line) /\ DOMAIN line' = 1..(Len(line) - 1)
    BY <1>2 DEF SlotInv
  <2>2. \A u \in Threads : Gate!InLine(u)' => u # h /\ Gate!InLine(u)
    BY <1>1, <1>2, <1>4, <2>1 DEF Gate!InLine
  <2>3. ASSUME NEW u \in Threads, u # h, Gate!InLine(u) PROVE Gate!InLine(u)'
    <3>1. PICK i \in 1..Len(line) : line[i] = u
      BY <2>1, <2>3 DEF Gate!InLine
    <3>2. i - 1 \in 1..Len(line) - 1 /\ (i - 1) + 1 = i
      BY <1>1, <2>3, <3>1
    <3> QED BY <1>2, <2>1, <3>1, <3>2 DEF Gate!InLine
  <2> QED BY <2>2, <2>3
<1>6. SlotFollowsHandler'
  BY <1>1, <1>3, <1>5 DEF SlotInv, SlotFollowsHandler, MovesTo, Gate!Serve, Inside
<1>7. Len(line') <= Capacity
  BY <1>1, <1>2, RelayCapacityAssumption DEF SlotInv
<1> QED
  BY <1>1, <1>2, <1>3, <1>4, <1>6, <1>7 DEF SlotInv, MovesTo, Gate!Serve, Stages, Inside

LEMMA LineLeft ==
    ASSUME SlotInv, NEW t \in Threads, MovesTo(t, "idle"), Gate!Leave(t)
    PROVE  SlotInv' /\ stage[t] = "waiting"
<1>1. PICK i \in 1..Len(line) : line[i] = t /\ line' = Gate!Without(line, i)
  BY DEF SlotInv, Gate!Leave
<1>2. stage[t] = "waiting" /\ holder # t
  BY <1>1 DEF SlotInv, SlotFollowsHandler, Gate!InLine, Inside
<1>3. /\ line' \in Seq(Threads) /\ Len(line') = Len(line) - 1 /\ Distinct'
      /\ \A j \in 1..Len(line') : line'[j] # t /\ \E k \in 1..Len(line) : line'[j] = line[k]
      /\ \A k \in 1..Len(line) : k # i => \E j \in 1..Len(line') : line'[j] = line[k]
  <2> DEFINE r == Gate!Without(line, i)
  <2>1. line \in Seq(Threads) /\ \A j, k \in 1..Len(line) : line[j] = line[k] => j = k
    BY DEF SlotInv, Distinct
  <2>2. /\ r \in Seq(Threads)
        /\ Len(r) = Len(line) - 1
        /\ \A j, k \in 1..Len(r) : r[j] = r[k] => j = k
        /\ \A j \in 1..Len(r) : r[j] # line[i] /\ \E k \in 1..Len(line) : r[j] = line[k]
        /\ \A k \in 1..Len(line) : k # i => \E j \in 1..Len(r) : r[j] = line[k]
    BY <2>1, WithoutKeepsTheRest
  <2>3. line' = r /\ line[i] = t
    BY <1>1
  <2> HIDE DEF r
  <2> QED BY <2>2, <2>3 DEF Distinct
<1>4. \A u \in Threads : Gate!InLine(u)' <=> u # t /\ Gate!InLine(u)
  <2>1. DOMAIN line = 1..Len(line) /\ DOMAIN line' = 1..Len(line')
    BY <1>3 DEF SlotInv
  <2>2. ASSUME NEW u \in Threads, Gate!InLine(u)' PROVE u # t /\ Gate!InLine(u)
    <3>1. PICK j \in 1..Len(line') : line'[j] = u
      BY <2>1, <2>2 DEF Gate!InLine
    <3> QED BY <1>3, <2>1, <3>1 DEF Gate!InLine
  <2>3. ASSUME NEW u \in Threads, u # t, Gate!InLine(u) PROVE Gate!InLine(u)'
    <3>1. PICK k \in 1..Len(line) : line[k] = u
      BY <2>1, <2>3 DEF Gate!InLine
    <3>2. PICK j \in 1..Len(line') : line'[j] = u
      BY <1>1, <1>3, <2>3, <3>1
    <3> QED BY <2>1, <3>2 DEF Gate!InLine
  <2> QED BY <2>2, <2>3
<1>5. SlotFollowsHandler'
  BY <1>2, <1>4 DEF SlotInv, SlotFollowsHandler, MovesTo, Gate!Leave, Inside
<1>6. Len(line') <= Capacity
  BY <1>3, RelayCapacityAssumption DEF SlotInv
<1> QED BY <1>2, <1>3, <1>5, <1>6 DEF SlotInv, MovesTo, Gate!Leave, Stages

-----------------------------------------------------------------------------
(* What each way of moving on sends. *)

\* Nothing: it comes from a stage before sending or goes to one after it.
LEMMA NothingSent ==
    ASSUME SlotInv, SentInv, NEW t \in Threads, NEW s \in Stages, MovesTo(t, s),
           UNCHANGED <<asked, heads>>,
           stage[t] \in Unsent \/ s \notin Unsent \cup {"await"}
    PROVE  SentInv'
  BY DEF SlotInv, SentInv, MovesTo, Unsent

\* A response head, the first one.
LEMMA FirstHeadSent ==
    ASSUME SlotInv, SentInv, NEW t \in Threads, NEW s \in {"idle", "relay"}, MovesTo(t, s),
           HeadSent(t), UNCHANGED asked, stage[t] \in Unsent \cup {"await"}
    PROVE  SentInv'
<1>1. heads[t] = 0 /\ heads' \in [Threads -> {0, 1}]
  BY DEF SlotInv, SentInv, HeadSent
<1>2. \A u \in Threads : u # t => heads'[u] = heads[u] /\ stage'[u] = stage[u]
  BY DEF SlotInv, SentInv, HeadSent, MovesTo
<1>3. stage'[t] = s
  BY DEF SlotInv, MovesTo
<1> QED BY <1>1, <1>2, <1>3 DEF SentInv, Unsent

\* A request that ends without the slot.
LEMMA EndsOutsideKeeps ==
    ASSUME SlotInv, NEW t \in Threads, EndsOutside(t), stage[t] # "waiting", stage[t] \notin Inside
    PROVE  SlotInv'
<1>1. gone' \in [Threads -> BOOLEAN] /\ UNCHANGED <<holder, line>> /\ MovesTo(t, "idle")
  BY DEF SlotInv, EndsOutside, Gate!TurnAway
<1> QED BY <1>1, SlotStays DEF Stages, Inside

-----------------------------------------------------------------------------
(* The invariant is inductive. *)

LEMMA InvInitially == Init => IInv
<1> SUFFICES ASSUME Init PROVE IInv
  OBVIOUS
<1>1. SlotInv
  <2>1. line = <<>> /\ line \in Seq(Threads) /\ Len(line) = 0 /\ DOMAIN line = 1..0
    BY DEF Init, Gate!Init
  <2>2. SlotFollowsHandler
    BY <2>1, RelayNobodyAssumption
       DEF Init, Gate!Init, SlotFollowsHandler, Gate!InLine, Inside
  <2> QED
    BY <2>1, <2>2, RelayCapacityAssumption DEF Init, Gate!Init, SlotInv, Distinct, Stages
<1> QED BY <1>1 DEF Init, IInv, SentInv, KindInv

\* A step of one handler, or of its client.
LEMMA ThreadStep ==
    ASSUME IInv, NEW t \in Threads,
           \/ \E k \in Kinds : Arrive(t, k)
           \/ UploadDone(t) \/ UploadFails(t)
           \/ BodyRead(t) \/ BodyCutShort(t)
           \/ Cancelled(t)
           \/ HandlerStep(t)
           \/ Disconnect(t)
    PROVE  IInv'
<1> USE DEF IInv
<1>0. gone \in [Threads -> BOOLEAN] /\ stage[t] \in Stages
  BY DEF SlotInv
<1>1. ASSUME NEW k \in Kinds, Arrive(t, k) PROVE IInv'
  <2>1. PICK s \in {"probe", "upload", "admit"} : MovesTo(t, s)
    BY <1>1 DEF Arrive, ReadsBodyFirst
  <2>2. SlotInv'
    BY <1>0, <1>1, <2>1, SlotStays DEF Arrive, gateVars, Stages, Inside
  <2>3. SentInv'
    BY <1>1, <2>1 DEF Arrive, SlotInv, SentInv, MovesTo, Unsent
  <2>4. KindInv'
    BY <1>1 DEF Arrive, KindInv
  <2> QED BY <2>2, <2>3, <2>4
<1>2. ASSUME UploadDone(t) PROVE IInv'
  <2>1. SlotInv'
    BY <1>0, <1>2, SlotStays DEF UploadDone, gateVars, Stages, Inside
  <2>2. SentInv'
    BY <1>2, NothingSent DEF UploadDone, Stages, Unsent
  <2> QED BY <1>2, <2>1, <2>2 DEF UploadDone, KindInv
<1>3. ASSUME UploadFails(t) PROVE IInv'
  <2>1. SlotInv'
    BY <1>3, EndsOutsideKeeps DEF UploadFails, Inside
  <2>2. SentInv'
    BY <1>3, FirstHeadSent DEF UploadFails, EndsOutside, Unsent
  <2> QED BY <1>3, <2>1, <2>2 DEF UploadFails, KindInv
<1>4. ASSUME BodyRead(t) PROVE IInv'
  <2>1. SlotInv'
    BY <1>0, <1>4, SlotStays DEF BodyRead, gateVars, Stages, Inside
  <2>2. SentInv'
    BY <1>4, NothingSent DEF BodyRead, Stages, Inside, Unsent
  <2> QED BY <1>4, <2>1, <2>2 DEF BodyRead, KindInv
<1>5. ASSUME BodyCutShort(t) PROVE IInv'
  <2>1. SlotInv'
    BY <1>5, SlotGivenBack DEF BodyCutShort, Returns
  <2>2. SentInv'
    BY <1>5, FirstHeadSent DEF BodyCutShort, Returns, Unsent
  <2> QED BY <1>5, <2>1, <2>2 DEF BodyCutShort, KindInv
<1>6. ASSUME Cancelled(t) PROVE IInv'
  <2>1. SlotInv' /\ stage[t] = "waiting"
    BY <1>6, LineLeft DEF Cancelled
  <2>2. SentInv'
    BY <1>6, <2>1, NothingSent DEF Cancelled, Stages, Unsent
  <2> QED BY <1>6, <2>1, <2>2 DEF Cancelled, KindInv
<1>7. ASSUME HandlerStep(t) PROVE IInv'
  <2>1. CASE Monitor(t)
    <3>1. SlotInv'
      BY <2>1, EndsOutsideKeeps DEF Monitor, Inside
    <3>2. CASE HeadSent(t)
      BY <2>1, <3>1, <3>2, FirstHeadSent DEF Monitor, EndsOutside, KindInv, Unsent
    <3>3. CASE UNCHANGED heads
      BY <2>1, <3>1, <3>3, NothingSent DEF Monitor, EndsOutside, KindInv, Stages, Unsent
    <3> QED BY <2>1, <3>2, <3>3 DEF Monitor
  <2>2. CASE TakeSlot(t)
    <3>1. SlotInv'
      BY <2>2, SlotTaken DEF TakeSlot
    <3>2. SentInv'
      BY <2>2, NothingSent DEF TakeSlot, Stages, Inside, Unsent
    <3> QED BY <2>2, <3>1, <3>2 DEF TakeSlot, KindInv
  <2>3. CASE JoinLine(t)
    <3>1. SlotInv'
      BY <2>3, LineJoined DEF JoinLine
    <3>2. SentInv'
      BY <2>3, NothingSent DEF JoinLine, Stages, Unsent
    <3> QED BY <2>3, <3>1, <3>2 DEF JoinLine, KindInv
  <2>4. CASE QueueFull(t)
    <3>1. SlotInv'
      BY <2>4, EndsOutsideKeeps DEF QueueFull, Inside
    <3>2. SentInv'
      BY <2>4, FirstHeadSent DEF QueueFull, EndsOutside, Unsent
    <3> QED BY <2>4, <3>1, <3>2 DEF QueueFull, KindInv
  <2>5. CASE Rejected(t) \/ PrepareRefused(t) \/ UpstreamFails(t)
    <3>1. /\ stage[t] \in Unsent \cup {"await"} /\ HeadSent(t) /\ Returns(t)
          /\ UNCHANGED <<kind, asked>>
      BY <2>5 DEF Rejected, PrepareRefused, UpstreamFails, Unsent
    <3>2. SlotInv'
      BY <3>1, SlotGivenBack DEF Returns
    <3>3. SentInv'
      BY <3>1, FirstHeadSent DEF Returns
    <3> QED BY <3>1, <3>2, <3>3 DEF KindInv
  <2>6. CASE Normalized(t)
    <3>1. PICK s \in {"prepare", "send"} : MovesTo(t, s)
      BY <2>6 DEF Normalized
    <3>2. SlotInv'
      BY <1>0, <2>6, <3>1, SlotStays DEF Normalized, gateVars, Stages, Inside
    <3>3. SentInv'
      BY <2>6, <3>1, NothingSent DEF Normalized, Stages, Inside, Unsent
    <3> QED BY <2>6, <3>2, <3>3 DEF Normalized, KindInv
  <2>7. CASE Prepared(t)
    <3>1. SlotInv'
      BY <1>0, <2>7, SlotStays DEF Prepared, gateVars, Stages, Inside
    <3>2. SentInv'
      BY <2>7, NothingSent DEF Prepared, Stages, Inside, Unsent
    <3> QED BY <2>7, <3>1, <3>2 DEF Prepared, KindInv
  <2>8. CASE PrepareRaises(t) \/ AnsweredInVain(t) \/ RelayEnds(t) \/ RelayBreaks(t)
    <3>1. MovesTo(t, "idle") /\ Gate!Finish(t) /\ UNCHANGED <<kind, asked, heads>>
      BY <2>8 DEF PrepareRaises, AnsweredInVain, RelayEnds, RelayBreaks, Raises, Returns
    <3>2. SlotInv'
      BY <3>1, SlotGivenBack
    <3>3. SentInv'
      BY <3>1, NothingSent DEF Stages, Unsent
    <3> QED BY <3>1, <3>2, <3>3 DEF KindInv
  <2>9. CASE Send(t)
    <3>1. SlotInv'
      BY <1>0, <2>9, SlotStays DEF Send, gateVars, Stages, Inside
    <3>2. SentInv'
      BY <2>9 DEF Send, SlotInv, SentInv, MovesTo, Unsent
    <3> QED BY <2>9, <3>1, <3>2 DEF Send, KindInv
  <2>10. CASE Answered(t)
    <3>1. SlotInv'
      BY <1>0, <2>10, SlotStays DEF Answered, gateVars, Stages, Inside
    <3>2. SentInv'
      BY <2>10, FirstHeadSent DEF Answered
    <3> QED BY <2>10, <3>1, <3>2 DEF Answered, KindInv
  <2>11. CASE NoBody(t)
    <3>1. SlotInv'
      BY <1>0, <2>11, SlotStays DEF NoBody, gateVars, Stages, Inside
    <3>2. SentInv'
      BY <2>11, NothingSent DEF NoBody, Stages, Inside, Unsent
    <3> QED BY <2>11, <3>1, <3>2 DEF NoBody, KindInv
  <2> QED
    BY <1>7, <2>1, <2>2, <2>3, <2>4, <2>5, <2>6, <2>7, <2>8, <2>9, <2>10, <2>11
       DEF HandlerStep
<1>8. ASSUME Disconnect(t) PROVE IInv'
  <2>1. gone' \in [Threads -> BOOLEAN] /\ UNCHANGED <<holder, line, stage, asked, heads, kind>>
    BY <1>0, <1>8 DEF Disconnect, Gate!Disconnect
  <2> QED
    BY <2>1 DEF SlotInv, Distinct, SlotFollowsHandler, Gate!InLine, SentInv, KindInv
<1> QED BY <1>1, <1>2, <1>3, <1>4, <1>5, <1>6, <1>7, <1>8

LEMMA InvStep == IInv /\ [Next]_vars => IInv'
<1> SUFFICES ASSUME IInv, [Next]_vars PROVE IInv'
  OBVIOUS
<1>1. CASE Served
  <2>1. SlotInv' /\ Head(line) \in Threads /\ stage[Head(line)] = "waiting"
    BY <1>1, HeadServed DEF Served, IInv
  <2>2. SentInv'
    BY <1>1, <2>1, NothingSent DEF Served, IInv, Stages, Inside, Unsent
  <2> QED BY <1>1, <2>1, <2>2 DEF Served, IInv, KindInv
<1>2. CASE \E t \in Threads :
              \/ \E k \in Kinds : Arrive(t, k)
              \/ UploadDone(t) \/ UploadFails(t)
              \/ BodyRead(t) \/ BodyCutShort(t)
              \/ Cancelled(t)
              \/ HandlerStep(t)
              \/ Disconnect(t)
  BY <1>2, ThreadStep
<1>3. CASE UNCHANGED vars
  BY <1>3 DEF vars, gateVars, IInv, SlotInv, Distinct, SlotFollowsHandler, Gate!InLine,
     SentInv, KindInv
<1> QED BY <1>1, <1>2, <1>3 DEF Next

THEOREM InvAlways == Spec => []IInv
<1>1. Init => IInv
  BY InvInitially
<1>2. IInv /\ [Next]_vars => IInv'
  BY InvStep
<1> QED BY <1>1, <1>2, PTL DEF Spec

-----------------------------------------------------------------------------
(* What the runs check, for every number of threads and every capacity. *)

\* The slot, its line and the counters keep their types, and no more than Capacity
\* requests ever wait (AdmissionGate.acquire and _forward).
THEOREM TypeCorrect == Spec => []TypeOK
<1>1. IInv => TypeOK
  BY DEF IInv, SlotInv, SentInv, KindInv, TypeOK
<1> QED BY <1>1, InvAlways, PTL

\* The slot belongs to a handler exactly while it is between admission and its last
\* byte, whatever way acquire's block is left.
THEOREM SlotHeld == Spec => []SlotFollowsHandler
<1>1. IInv => SlotFollowsHandler
  BY DEF IInv, SlotInv
<1> QED BY <1>1, InvAlways, PTL

\* No request of _forward reaches llama-server twice and no client gets two response
\* heads, whatever fails after the first.
THEOREM SentOnce == Spec => []AtMostOnce
<1>1. ASSUME IInv, NEW t \in Threads PROVE heads[t] <= 1 /\ asked[t] <= 1
  <2>1. heads[t] \in {0, 1} /\ asked[t] \in {0, 1}
    BY <1>1 DEF IInv, SentInv
  <2> QED BY <2>1
<1>2. IInv => AtMostOnce
  BY <1>1 DEF AtMostOnce
<1> QED BY <1>2, InvAlways, PTL
=============================================================================
