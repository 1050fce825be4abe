---------------------------- MODULE HistoryProofs ---------------------------
(***************************************************************************)
(* For every set of answers, turns, tool results and ids, and every bound  *)
(* on the length of a conversation: the types of History, that tool        *)
(* results bear the names of their calls, that answers come back as they   *)
(* were signed and that nothing of them is lost; and, where the two        *)
(* converters agree, that what is sent keeps its beginning.                *)
(*                                                                         *)
(* The invariants are HistoryInv and PrefixInv, below.  Where a fact about *)
(* every position of a sequence would be proved by induction, it is proved *)
(* here by looking at the least counterexample (LeastNumber).              *)
(***************************************************************************)
EXTENDS History, FiniteSetTheorems, SequenceTheorems, WellFoundedInduction, TLAPS

\* A set of naturals that is not empty has a least element.
LEMMA LeastNumber ==
    ASSUME NEW T, T \subseteq Nat, T # {}
    PROVE  \E x \in T : \A y \in T : x <= y
<1>1. PICK x \in T : \A y \in T : ~(<<y, x>> \in OpToRel(<, Nat))
  BY NatLessThanWellFounded, WFMin, Zenon
<1>2. ASSUME NEW y \in T PROVE x <= y
  <2>1. ~(<<y, x>> \in OpToRel(<, Nat))
    BY <1>1, Zenon
  <2>2. ~(y < x)
    BY <2>1, Zenon DEF OpToRel
  <2> QED BY <2>2
<1> QED BY <1>2

\* And a greatest one, if it is bounded.
LEMMA GreatestNumber ==
    ASSUME NEW n \in Nat, NEW T, T \subseteq 1..n, T # {}
    PROVE  \E x \in T : \A y \in T : y <= x
<1> DEFINE Bounds == {b \in Nat : \A y \in T : y <= b}
<1>1. n \in Bounds
  OBVIOUS
<1>2. PICK b \in Bounds : \A c \in Bounds : b <= c
  BY <1>1, LeastNumber
<1>3. b \in T
  <2> SUFFICES ASSUME b \notin T PROVE FALSE
    OBVIOUS
  <2>1. PICK y \in T : TRUE
    OBVIOUS
  <2>2. b >= 1 /\ b - 1 \in Nat
    BY <2>1
  <2>3. b - 1 \in Bounds
    BY <2>2
  <2> QED BY <2>2, <2>3, <1>2
<1> QED BY <1>2, <1>3

-----------------------------------------------------------------------------
(* Picked. *)

Rank(i, where) == Cardinality({j \in where : j <= i})

\* The positions of a sequence are finitely many.
LEMMA PositionsAreFinite ==
    ASSUME NEW n \in Nat, NEW where, where \subseteq 1..n
    PROVE  /\ IsFiniteSet(where) /\ Cardinality(where) \in Nat /\ Cardinality(where) <= n
           /\ where = 1..n => Cardinality(where) = n
<1>1. IsFiniteSet(1..n) /\ Cardinality(1..n) = n
  BY FS_Interval
<1>2. IsFiniteSet(where) /\ Cardinality(where) <= n
  BY <1>1, FS_Subset
<1> QED BY <1>1, <1>2, FS_CardinalityType

\* Some position has each rank.
LEMMA EveryRankIsTaken ==
    ASSUME NEW n \in Nat, NEW where, where \subseteq 1..n, NEW k \in 1..Cardinality(where)
    PROVE  \E i \in where : Rank(i, where) = k
<1> DEFINE Bad == {m \in Nat : \E w : w \subseteq 1..m /\ \E l \in 1..Cardinality(w) :
                                  ~\E i \in w : Rank(i, w) = l}
<1> SUFFICES ASSUME Bad # {} PROVE FALSE
  OBVIOUS
<1>1. PICK m \in Bad : \A x \in Bad : m <= x
  BY LeastNumber
<1>0. PICK w : w \subseteq 1..m /\ \E l \in 1..Cardinality(w) : ~\E i \in w : Rank(i, w) = l
  BY <1>1
<1>2. PICK l \in 1..Cardinality(w) : ~\E i \in w : Rank(i, w) = l
  BY <1>0
<1>3. m \in Nat /\ IsFiniteSet(w) /\ Cardinality(w) \in Nat
  BY <1>1, <1>0, PositionsAreFinite
<1>4. m # 0
  <2> SUFFICES ASSUME m = 0 PROVE FALSE
    OBVIOUS
  <2>1. w = {}
    BY <1>0
  <2> QED BY <2>1, <1>2, <1>3, FS_EmptySet
<1>5. m - 1 \in Nat /\ m - 1 \notin Bad
  <2>1. m - 1 \in Nat /\ ~(m <= m - 1)
    BY <1>3, <1>4
  <2> QED BY <2>1, <1>1
<1>6. CASE m \notin w
  <2>1. w \subseteq 1..m - 1
    BY <1>0, <1>3, <1>6
  <2> QED BY <2>1, <1>2, <1>5
<1>7. CASE m \in w
  <2> DEFINE v == w \ {m}
  <2>1. v \subseteq 1..m - 1
    BY <1>0, <1>3
  <2>2. Cardinality(v) = Cardinality(w) - 1
    BY <1>3, <1>7, FS_RemoveElement
  <2>3. CASE l = Cardinality(w)
    <3>1. \A j \in w : j <= m
      BY <1>0, <1>3
    <3>2. {j \in w : j <= m} = w
      BY <3>1
    <3> QED BY <3>2, <2>3, <1>2, <1>7 DEF Rank
  <2>4. CASE l # Cardinality(w)
    <3>1. l \in 1..Cardinality(v)
      BY <1>2, <1>3, <2>2, <2>4
    <3>2. PICK i \in v : Rank(i, v) = l
      BY <1>5, <2>1, <3>1
    <3>3. {j \in w : j <= i} = {j \in v : j <= i}
      BY <1>0, <1>3, <2>1, <3>2
    <3> QED BY <1>2, <3>2, <3>3 DEF Rank
  <2> QED BY <2>3, <2>4
<1> QED BY <1>6, <1>7

\* A later position has a higher rank.
LEMMA RankGrows ==
    ASSUME NEW n \in Nat, NEW where, where \subseteq 1..n, NEW i \in 1..n, NEW j \in where, i < j
    PROVE  Rank(i, where) < Rank(j, where)
<1> DEFINE low == {x \in where : x <= i}
           high == {x \in where : x <= j}
<1>0. j \in Nat /\ i \in Nat /\ where \subseteq Nat
  OBVIOUS
<1>1. low \subseteq high /\ j \in high /\ j \notin low
  <2>1. \A x \in where : x <= i => x <= j
    BY <1>0
  <2>2. j <= j /\ ~(j <= i)
    BY <1>0
  <2> QED BY <2>1, <2>2
<1>2. IsFiniteSet(high) /\ Cardinality(high) \in Nat /\ Cardinality(low) \in Nat
  BY PositionsAreFinite
<1>3. Cardinality(low) <= Cardinality(high) /\ (Cardinality(low) = Cardinality(high) => low = high)
  BY <1>1, <1>2, FS_Subset
<1> QED BY <1>1, <1>2, <1>3 DEF Rank

\* What is picked stands at one of the positions.
StandsThere(seq, where) ==
    \A k \in 1..Cardinality(where) : \E i \in where : Picked(seq, where)[k] = seq[i]

\* There are as many as there are positions, and each stands at one of them.
LEMMA PickedElements ==
    ASSUME NEW n \in Nat, NEW seq, NEW where, where \subseteq 1..n
    PROVE  /\ DOMAIN Picked(seq, where) = 1..Cardinality(where)
           /\ Cardinality(where) \in Nat
           /\ StandsThere(seq, where)
<1>1. ASSUME NEW k \in 1..Cardinality(where)
      PROVE  \E i \in where : Picked(seq, where)[k] = seq[i]
  <2>0. \E i \in where : Rank(i, where) = k
    BY EveryRankIsTaken
  <2>1. \E i \in where : Cardinality({j \in where : j <= i}) = k
    BY <2>0 DEF Rank
  <2> DEFINE p == CHOOSE i \in where : Cardinality({j \in where : j <= i}) = k
  <2>2. p \in where
    BY <2>1
  <2>3. Picked(seq, where)[k] = seq[p]
    BY DEF Picked
  <2> QED BY <2>2, <2>3
<1>2. StandsThere(seq, where)
  BY <1>1 DEF StandsThere
<1>3. DOMAIN Picked(seq, where) = 1..Cardinality(where)
  BY DEF Picked
<1> QED BY <1>2, <1>3, PositionsAreFinite

\* Picking every position changes nothing.
LEMMA PickedAll ==
    ASSUME NEW n \in Nat, NEW seq, seq = [i \in 1..n |-> seq[i]]
    PROVE  Picked(seq, 1..n) = seq
<1>1. Cardinality(1..n) = n
  BY FS_Interval
<1>2. ASSUME NEW k \in 1..n PROVE Picked(seq, 1..n)[k] = seq[k]
  <2>1. ASSUME NEW i \in 1..n PROVE Cardinality({j \in 1..n : j <= i}) = i
    <3>1. {j \in 1..n : j <= i} = 1..i
      OBVIOUS
    <3>2. Cardinality(1..i) = i
      BY FS_Interval
    <3> QED BY <3>1, <3>2
  <2>2. (CHOOSE i \in 1..n : Cardinality({j \in 1..n : j <= i}) = k) = k
    BY <2>1
  <2> QED BY <1>1, <2>2 DEF Picked
<1>3. Picked(seq, 1..n) = [k \in 1..n |-> Picked(seq, 1..n)[k]]
  BY <1>1 DEF Picked
<1> QED BY <1>2, <1>3

-----------------------------------------------------------------------------
\* RemoveAt leaves out one element and keeps the order of the others.
LEMMA Removed ==
    ASSUME NEW S, NEW s \in Seq(S), NEW i \in 1..Len(s)
    PROVE  /\ RemoveAt(s, i) \in Seq(S)
           /\ Len(RemoveAt(s, i)) = Len(s) - 1
           /\ \A k \in 1..Len(s) - 1 : RemoveAt(s, i)[k] = IF k < i THEN s[k] ELSE s[k + 1]
<1> DEFINE front == SubSeq(s, 1, i - 1)
           back == SubSeq(s, i + 1, Len(s))
<1>1. Len(s) \in Nat /\ \A k \in 1..Len(s) : s[k] \in S
  BY LenProperties, ElementOfSeq
<1>2. /\ front \in Seq(S) /\ Len(front) = i - 1
      /\ \A k \in 1..i - 1 : front[k] = s[k]
  <2>1. \A k \in 1..i - 1 : s[k] \in S
    BY <1>1
  <2>2. /\ front \in Seq(S)
        /\ Len(front) = IF 1 <= i - 1 THEN i - 1 - 1 + 1 ELSE 0
        /\ \A k \in 1..i - 1 - 1 + 1 : front[k] = s[1 + k - 1]
    BY <2>1, <1>1, SubSeqProperties
  <2> QED BY <2>2, <1>1
<1>3. /\ back \in Seq(S) /\ Len(back) = Len(s) - i
      /\ \A k \in 1..Len(s) - i : back[k] = s[i + k]
  <2>1. \A k \in i + 1..Len(s) : s[k] \in S
    BY <1>1
  <2>2. /\ back \in Seq(S)
        /\ Len(back) = IF i + 1 <= Len(s) THEN Len(s) - (i + 1) + 1 ELSE 0
        /\ \A k \in 1..Len(s) - (i + 1) + 1 : back[k] = s[i + 1 + k - 1]
    BY <2>1, <1>1, SubSeqProperties
  <2> QED BY <2>2, <1>1
<1>4. RemoveAt(s, i) = front \o back
  BY DEF RemoveAt
<1> HIDE DEF front, back
<1>5. /\ front \o back \in Seq(S)
      /\ Len(front \o back) = Len(front) + Len(back)
      /\ \A k \in 1..Len(front) + Len(back) :
            (front \o back)[k] = IF k <= Len(front) THEN front[k] ELSE back[k - Len(front)]
  BY <1>2, <1>3, ConcatProperties
<1>6. Len(front) + Len(back) = Len(s) - 1
  BY <1>1, <1>2, <1>3
<1>7. ASSUME NEW k \in 1..Len(s) - 1
      PROVE  RemoveAt(s, i)[k] = IF k < i THEN s[k] ELSE s[k + 1]
  <2>1. RemoveAt(s, i)[k] = IF k <= i - 1 THEN front[k] ELSE back[k - (i - 1)]
    BY <1>2, <1>4, <1>5, <1>6
  <2>2. CASE k < i
    <3>1. k \in 1..i - 1
      BY <2>2, <1>1
    <3> QED BY <3>1, <2>1, <2>2, <1>2
  <2>3. CASE ~(k < i)
    <3>1. k - (i - 1) \in 1..Len(s) - i /\ i + (k - (i - 1)) = k + 1 /\ ~(k <= i - 1)
      BY <2>3, <1>1
    <3> QED BY <3>1, <2>1, <2>3, <1>3
  <2> QED BY <2>2, <2>3
<1> QED BY <1>4, <1>5, <1>6, <1>7

-----------------------------------------------------------------------------
(* Blocks. *)

AnswerBlock(b) ==
    /\ b = Block(b.type, b.text, b.id, b.name, b.sig, b.inner)
    /\ b.type \in DOMAIN HarnessType
    /\ b.type = "toolCall" => b.name \in ToolNames

\* The harness's names and the native ones are translated back and forth.
LEMMA TypesTranslate ==
    /\ DOMAIN HarnessType = {"text", "thinking", "toolCall"}
    /\ DOMAIN NativeType = {"text", "reasoning", "tool-call"}
    /\ \A n \in DOMAIN HarnessType :
          HarnessType[n] \in DOMAIN NativeType /\ NativeType[HarnessType[n]] = n
<1>1. /\ DOMAIN HarnessType = {"text", "thinking", "toolCall"}
      /\ HarnessType["text"] = "text" /\ HarnessType["thinking"] = "reasoning"
      /\ HarnessType["toolCall"] = "tool-call"
  BY DEF HarnessType
<1>2. DOMAIN NativeType = {"text", "reasoning", "tool-call"}
  BY DEF NativeType
<1>3. ASSUME NEW n \in DOMAIN HarnessType
      PROVE  HarnessType[n] \in DOMAIN NativeType /\ NativeType[HarnessType[n]] = n
  <2>1. HarnessType[n] \in {"text", "reasoning", "tool-call"}
    BY <1>1
  <2>2. NativeType[HarnessType[n]] =
          CHOOSE k \in DOMAIN HarnessType : HarnessType[k] = HarnessType[n]
    BY <2>1 DEF NativeType
  <2>3. \A k \in DOMAIN HarnessType : HarnessType[k] = HarnessType[n] <=> k = n
    BY <1>1
  <2> QED BY <2>1, <2>2, <2>3, <1>2
<1> QED BY <1>1, <1>2, <1>3

\* What the harness keeps of a block and what is made of that again.
LEMMA BlockComesBack ==
    ASSUME NEW b, AnswerBlock(b), NEW sig
    PROVE  /\ Recorded(b).type \in DOMAIN NativeType
           /\ Recorded(b).type = HarnessType[b.type]
           /\ Recorded(b).sig = ""
           /\ Native(Recorded(b), sig).sig = sig
           /\ Native(Recorded(b), sig).type = b.type
           /\ Native(Recorded(b), sig).name = b.name
           /\ Native(Recorded(b), b.sig) = b
           /\ Recorded(Native(Recorded(b), sig)) = Recorded(b)
<1> DEFINE h == HarnessType[b.type]
           r == Recorded(b)
           n == Native(r, sig)
<1>1. h \in DOMAIN NativeType /\ NativeType[h] = b.type
  BY TypesTranslate DEF AnswerBlock
<1>2. r = Block(h, b.text, b.id, b.name, "", b.inner)
  BY DEF Recorded
<1> HIDE DEF h, r
<1>3. /\ r.type = h /\ r.text = b.text /\ r.id = b.id /\ r.name = b.name /\ r.sig = ""
      /\ r.inner = b.inner
  BY <1>2 DEF Block
<1>4. ASSUME NEW s PROVE Native(r, s) = Block(b.type, b.text, b.id, b.name, s, b.inner)
  BY <1>1, <1>3 DEF Native
<1>5. Native(r, b.sig) = b
  BY <1>4 DEF AnswerBlock
<1>6. n = Block(b.type, b.text, b.id, b.name, sig, b.inner)
  BY <1>4
<1> HIDE DEF n
<1>7. /\ n.type = b.type /\ n.text = b.text /\ n.id = b.id /\ n.name = b.name /\ n.sig = sig
      /\ n.inner = b.inner
  BY <1>6 DEF Block
<1>8. Recorded(n) = r
  BY <1>2, <1>7 DEF Recorded, h
<1> QED BY <1>1, <1>3, <1>5, <1>7, <1>8 DEF h, r, n

\* A rewritten block is a block, and its record is the rewritten record.
LEMMA RewrittenBlock ==
    ASSUME NEW b, AnswerBlock(b), NEW text
    PROVE  LET v == [b EXCEPT !.text = text]
           IN  AnswerBlock(v) /\ v.sig = b.sig /\ [Recorded(b) EXCEPT !.text = text] = Recorded(v)
<1> DEFINE v == [b EXCEPT !.text = text]
<1>1. b = Block(b.type, b.text, b.id, b.name, b.sig, b.inner)
  BY DEF AnswerBlock
<1>2. v = Block(b.type, text, b.id, b.name, b.sig, b.inner)
  BY <1>1 DEF Block
<1> HIDE DEF v
<1>3. /\ v.type = b.type /\ v.text = text /\ v.id = b.id /\ v.name = b.name /\ v.sig = b.sig
      /\ v.inner = b.inner
  BY <1>2 DEF Block
<1>4. AnswerBlock(v)
  BY <1>2, <1>3 DEF AnswerBlock
<1>5. [Recorded(b) EXCEPT !.text = text] = Block(HarnessType[b.type], text, b.id, b.name, "", b.inner)
  <2> DEFINE r == Recorded(b)  h == HarnessType[b.type]
  <2>1. r = Block(h, b.text, b.id, b.name, "", b.inner)
    BY DEF Recorded
  <2> HIDE DEF r, h
  <2>2. /\ r.type = h /\ r.text = b.text /\ r.id = b.id /\ r.name = b.name /\ r.sig = ""
        /\ r.inner = b.inner
    BY <2>1 DEF Block
  <2>3. r = Block(r.type, r.text, r.id, r.name, r.sig, r.inner)
    BY <2>1, <2>2
  <2>4. [r EXCEPT !.text = text] = Block(r.type, text, r.id, r.name, r.sig, r.inner)
    BY <2>3 DEF Block
  <2> QED BY <2>2, <2>4 DEF r, h
<1>6. Recorded(v) = Block(HarnessType[b.type], text, b.id, b.name, "", b.inner)
  BY <1>3 DEF Recorded
<1> QED BY <1>3, <1>4, <1>5, <1>6 DEF v

-----------------------------------------------------------------------------
(* What the harness does to an answer. *)

\* This block of an answer or what was made of it is in the record, under this signature.
IsRecorded(record, sig, origin) ==
    \E j \in DOMAIN origin.content : \E v \in Versions(origin.content[j]) :
        AnswerBlock(v) /\ record = Recorded(v) /\ sig = v.sig

\* Content is a sequence, and each block in it that pi-ai knows was in the answer.
HoldsAnswer(m) ==
    /\ m.content \in Seq(Range(m.content))
    /\ \A k \in DOMAIN m.content : m.content[k].type \in DOMAIN NativeType =>
          \E sig : IsRecorded(m.content[k], sig, m.origin)

\* Replay metadata that fits is that of the blocks it stands beside.
FittingIsOwn(m) ==
    Usable(m) => \A k \in DOMAIN m.content :
        IsRecorded(m.content[k], m.replay.blocks[k].sig, m.origin)

\* An answer as it is kept.
LEMMA KeptAnswer ==
    ASSUME NEW a \in Answers
    PROVE  LET m == Kept(a)  n == Len(a.content)
           IN  /\ n \in Nat /\ DOMAIN a.content = 1..n /\ a.content = [i \in 1..n |-> a.content[i]]
               /\ \A i \in 1..n : AnswerBlock(a.content[i])
               /\ m.role = "assistant" /\ m.origin = a
               /\ m.content = [i \in 1..n |-> Recorded(a.content[i])]
               /\ DOMAIN m = {"role", "content", "replay", "origin"}
               /\ DOMAIN m.replay = {"valid", "source", "stop", "blocks"}
               /\ m.replay.valid = TRUE /\ m.replay.source = "own" /\ m.replay.stop = a.stop
               /\ m.replay.blocks = [i \in 1..n |-> [type |-> HarnessType[a.content[i].type],
                                                     sig |-> a.content[i].sig]]
<1> DEFINE n == Len(a.content)
<1>1. a.content \in Seq(Range(a.content))
  BY AnswersAssumption
<1>2. n \in Nat /\ DOMAIN a.content = 1..n /\ a.content = [i \in 1..n |-> a.content[i]]
  BY <1>1, LenProperties
<1>3. ASSUME NEW i \in 1..n PROVE AnswerBlock(a.content[i])
  <2>1. a.content[i] \in Range(a.content)
    BY <1>2 DEF Range
  <2> QED BY <2>1, AnswersAssumption DEF AnswerBlock
<1> HIDE DEF n
<1>4. /\ Kept(a).role = "assistant" /\ Kept(a).origin = a
      /\ Kept(a).content = [i \in DOMAIN a.content |-> Recorded(a.content[i])]
      /\ Kept(a).replay = ToPiReplayState(a)
      /\ DOMAIN Kept(a) = {"role", "content", "replay", "origin"}
  BY DEF Kept, Message
<1>5. /\ ToPiReplayState(a).valid = TRUE /\ ToPiReplayState(a).source = "own"
      /\ ToPiReplayState(a).stop = a.stop
      /\ DOMAIN ToPiReplayState(a) = {"valid", "source", "stop", "blocks"}
      /\ ToPiReplayState(a).blocks = [i \in DOMAIN a.content |->
            [type |-> HarnessType[a.content[i].type], sig |-> a.content[i].sig]]
  BY DEF ToPiReplayState
<1> QED BY <1>2, <1>3, <1>4, <1>5 DEF n

\* A list that is built element by element is a sequence.
LEMMA ListIsSequence ==
    ASSUME NEW n \in Nat, NEW f, f = [i \in 1..n |-> f[i]]
    PROVE  f \in Seq(Range(f)) /\ Len(f) = n /\ DOMAIN f = 1..n
<1>1. f \in [1..n -> Range(f)]
  BY DEF Range
<1> QED BY <1>1

\* Whatever the harness does to an answer.
LEMMA EditedAnswer ==
    ASSUME NEW a \in Answers,
           NEW m \in Edited(Kept(a))
    PROVE  m.origin = a /\ HoldsAnswer(m) /\ FittingIsOwn(m)
<1> DEFINE k == Kept(a)  n == Len(a.content)
<1>1. /\ n \in Nat /\ DOMAIN a.content = 1..n
      /\ \A i \in 1..n : AnswerBlock(a.content[i])
      /\ k.origin = a
      /\ k.content = [i \in 1..n |-> Recorded(a.content[i])]
      /\ DOMAIN k = {"role", "content", "replay", "origin"}
      /\ DOMAIN k.replay = {"valid", "source", "stop", "blocks"}
      /\ k.replay.valid = TRUE /\ k.replay.source = "own"
      /\ k.replay.blocks = [i \in 1..n |-> [type |-> HarnessType[a.content[i].type],
                                            sig |-> a.content[i].sig]]
  BY KeptAnswer
<1> HIDE DEF k, n
<1>2. /\ k.content \in Seq(Range(k.content)) /\ Len(k.content) = n /\ DOMAIN k.content = 1..n
  BY <1>1, ListIsSequence
<1>3. /\ k.replay.blocks \in Seq(Range(k.replay.blocks)) /\ Len(k.replay.blocks) = n
      /\ \A i \in 1..n : k.replay.blocks[i].sig = a.content[i].sig
  <2> DEFINE r == k.replay.blocks
  <2>1. r = [i \in 1..n |-> r[i]] /\ \A i \in 1..n : r[i].sig = a.content[i].sig
    BY <1>1
  <2> HIDE DEF r
  <2>2. r \in Seq(Range(r)) /\ Len(r) = n
    BY <1>1, <2>1, ListIsSequence
  <2> QED BY <2>1, <2>2 DEF r
<1>4. \A i \in 1..n : k.content[i] = Recorded(a.content[i])
  BY <1>1
<1>15. ASSUME NEW l \in 1..n PROVE IsRecorded(Recorded(a.content[l]), a.content[l].sig, a)
  BY <1>1 DEF IsRecorded, Versions
<1>14. ASSUME m.origin = a, m.content \in Seq(Range(m.content)),
              \A j \in DOMAIN m.content : m.content[j].type \in DOMAIN NativeType =>
                  \E l \in 1..n : m.content[j] = Recorded(a.content[l])
       PROVE  HoldsAnswer(m)
  <2>1. ASSUME NEW j \in DOMAIN m.content, m.content[j].type \in DOMAIN NativeType
        PROVE  \E sig : IsRecorded(m.content[j], sig, m.origin)
    <3>1. PICK l \in 1..n : m.content[j] = Recorded(a.content[l])
      BY <1>14, <2>1
    <3>2. IsRecorded(m.content[j], a.content[l].sig, m.origin)
      BY <1>14, <1>15, <3>1
    <3> QED BY <3>2
  <2> QED BY <1>14, <2>1 DEF HoldsAnswer
<1>6. CASE m.content = k.content /\ m.origin = a /\ ~Usable(m)
  BY <1>2, <1>4, <1>6, <1>14 DEF FittingIsOwn
<1>5. CASE m = k
  <2>1. HoldsAnswer(m)
    BY <1>1, <1>2, <1>4, <1>5, <1>14
  <2>2. ASSUME NEW j \in DOMAIN m.content
        PROVE  IsRecorded(m.content[j], m.replay.blocks[j].sig, m.origin)
    BY <1>1, <1>2, <1>3, <1>4, <1>5, <1>15
  <2> QED BY <1>1, <1>5, <2>1, <2>2 DEF FittingIsOwn
<1>7. CASE m = WrittenElsewhere(k)
  <2>1. m = [k EXCEPT !.replay = [k.replay EXCEPT !.valid = FALSE]]
    BY <1>1, <1>7 DEF WrittenElsewhere
  <2>2. m.content = k.content /\ m.origin = a /\ m.replay.valid = FALSE
    BY <1>1, <2>1
  <2> QED BY <2>2, <1>6 DEF Usable
<1>8. CASE m = Reascribed(k)
  <2>1. m = [k EXCEPT !.replay = [k.replay EXCEPT !.source = "other"]]
    BY <1>1, <1>8 DEF Reascribed
  <2>2. m.content = k.content /\ m.origin = a /\ m.replay.source = "other"
    BY <1>1, <2>1
  <2> QED BY <2>2, <1>6 DEF Usable
<1>9. CASE m = Unreplayable(k)
  <2>1. m.content = k.content /\ m.origin = a /\ m.replay.valid = FALSE
    BY <1>1, <1>9 DEF Unreplayable, NoReplay
  <2> QED BY <2>1, <1>6 DEF Usable
<1> DEFINE note == Block("note", <<>>, "", "", "", <<>>)
<1>10. CASE m = Extended(k)
  <2>1. /\ m.content = Append(k.content, note) /\ m.origin = a /\ m.replay = k.replay
    BY <1>1, <1>10 DEF Extended
  <2> DEFINE S == Range(k.content) \cup {note}
  <2>0. Range(k.content) \subseteq S /\ note \in S
    OBVIOUS
  <2> HIDE DEF S, note
  <2>2. k.content \in Seq(S)
    BY <1>2, <2>0, SeqMonotonic
  <2>3. /\ m.content \in Seq(S) /\ Len(m.content) = n + 1
        /\ \A i \in 1..n : m.content[i] = k.content[i]
        /\ m.content[n + 1] = note
    BY <2>0, <2>1, <2>2, <1>2, AppendProperties
  <2>4. m.content \in Seq(Range(m.content)) /\ DOMAIN m.content = 1..n + 1
    BY <2>3, SeqOfRange, LenProperties
  <2>5. note.type \notin DOMAIN NativeType
    BY TypesTranslate DEF Block, note
  <2>6. ASSUME NEW j \in 1..n + 1, m.content[j].type \in DOMAIN NativeType
        PROVE  \E l \in 1..n : m.content[j] = Recorded(a.content[l])
    <3>1. j # n + 1
      BY <2>3, <2>5, <2>6
    <3>2. j \in 1..n
      BY <3>1, <1>1
    <3> QED BY <3>2, <2>3, <1>4
  <2>8. HoldsAnswer(m)
    BY <2>1, <2>4, <2>6, <1>14
  <2>7. ~Usable(m)
    <3>1. Len(m.replay.blocks) # Len(m.content)
      BY <2>1, <2>3, <1>1, <1>3
    <3> QED BY <3>1 DEF Usable
  <2> QED BY <2>1, <2>7, <2>8 DEF FittingIsOwn
<1>11. ASSUME NEW i \in 1..n, m.content = RemoveAt(k.content, i), m.origin = a
       PROVE  /\ HoldsAnswer(m) /\ Len(m.content) = n - 1 /\ DOMAIN m.content = 1..n - 1
              /\ \A j \in 1..n - 1 : m.content[j] = IF j < i THEN k.content[j]
                                                    ELSE k.content[j + 1]
  <2>1. /\ m.content \in Seq(Range(k.content)) /\ Len(m.content) = n - 1
        /\ \A j \in 1..n - 1 : m.content[j] = IF j < i THEN k.content[j] ELSE k.content[j + 1]
    BY <1>2, <1>11, Removed
  <2>2. m.content \in Seq(Range(m.content)) /\ DOMAIN m.content = 1..n - 1
    BY <2>1, SeqOfRange, LenProperties
  <2>3. ASSUME NEW j \in 1..n - 1 PROVE j \in 1..n /\ j + 1 \in 1..n
    BY <1>1
  <2>4. \A j \in 1..n - 1 : \E l \in 1..n : m.content[j] = Recorded(a.content[l])
    BY <2>1, <2>3, <1>4
  <2>5. HoldsAnswer(m)
    BY <2>2, <2>4, <1>11, <1>14
  <2> QED BY <2>1, <2>2, <2>5
<1>12. ASSUME NEW i \in 1..n, m = Dropped(k, i)
       PROVE  m.origin = a /\ HoldsAnswer(m) /\ FittingIsOwn(m)
  <2>1. m.content = RemoveAt(k.content, i) /\ m.origin = a /\ m.replay = k.replay
    BY <1>1, <1>12 DEF Dropped
  <2>2. HoldsAnswer(m) /\ Len(m.content) = n - 1
    BY <2>1, <1>11
  <2>3. ~Usable(m)
    BY <2>1, <2>2, <1>1, <1>3 DEF Usable
  <2> QED BY <2>1, <2>2, <2>3 DEF FittingIsOwn
<1>13. ASSUME NEW i \in 1..n, m = Pruned(k, i)
       PROVE  m.origin = a /\ HoldsAnswer(m) /\ FittingIsOwn(m)
  <2>1. m = [k EXCEPT !.content = RemoveAt(k.content, i),
                      !.replay = [k.replay EXCEPT !.blocks = RemoveAt(k.replay.blocks, i)]]
    BY <1>1, <1>13 DEF Pruned
  <2>2. /\ m.content = RemoveAt(k.content, i) /\ m.origin = a
        /\ m.replay.blocks = RemoveAt(k.replay.blocks, i)
    BY <1>1, <2>1
  <2>3. /\ HoldsAnswer(m) /\ DOMAIN m.content = 1..n - 1
        /\ \A j \in 1..n - 1 : m.content[j] = IF j < i THEN k.content[j] ELSE k.content[j + 1]
    BY <2>2, <1>11
  <2>4. \A j \in 1..n - 1 :
          m.replay.blocks[j] = IF j < i THEN k.replay.blocks[j] ELSE k.replay.blocks[j + 1]
    <3> DEFINE r == k.replay.blocks
    <3>1. r \in Seq(Range(r)) /\ Len(r) = n
      BY <1>3
    <3> HIDE DEF r
    <3>2. \A j \in 1..n - 1 : RemoveAt(r, i)[j] = IF j < i THEN r[j] ELSE r[j + 1]
      BY <3>1, Removed
    <3> QED BY <3>2, <2>2 DEF r
  <2>5. ASSUME NEW j \in 1..n - 1
        PROVE  \E l \in 1..n : /\ m.content[j] = Recorded(a.content[l])
                               /\ m.replay.blocks[j].sig = a.content[l].sig
    <3>1. j \in 1..n /\ j + 1 \in 1..n
      BY <1>1
    <3>2. CASE j < i
      BY <3>1, <3>2, <2>3, <2>4, <1>3, <1>4
    <3>3. CASE ~(j < i)
      BY <3>1, <3>3, <2>3, <2>4, <1>3, <1>4
    <3> QED BY <3>2, <3>3
  <2>6. FittingIsOwn(m)
    <3>1. DOMAIN m.content = 1..n - 1 /\ m.origin.content = a.content
      BY <2>2, <2>3
    <3>2. ASSUME NEW j \in DOMAIN m.content
          PROVE  IsRecorded(m.content[j], m.replay.blocks[j].sig, m.origin)
      <4>1. PICK l \in 1..n : /\ m.content[j] = Recorded(a.content[l])
                              /\ m.replay.blocks[j].sig = a.content[l].sig
        BY <3>1, <2>5
      <4> QED BY <4>1, <2>2, <1>15
    <3> QED BY <3>2 DEF FittingIsOwn
  <2> QED BY <2>2, <2>3, <2>6
<1>16. ASSUME NEW i \in 1..n, NEW text \in Rewritings, m = Rewritten(k, i, text)
       PROVE  m.origin = a /\ HoldsAnswer(m) /\ FittingIsOwn(m)
  <2> DEFINE v == [a.content[i] EXCEPT !.text = text]
  <2>1. /\ m.origin = a /\ m.replay = k.replay
        /\ m.content = [k.content EXCEPT ![i] = [k.content[i] EXCEPT !.text = text]]
    BY <1>1, <1>16 DEF Rewritten
  <2>2. AnswerBlock(v) /\ v.sig = a.content[i].sig /\ v \in Versions(a.content[i])
        /\ [Recorded(a.content[i]) EXCEPT !.text = text] = Recorded(v)
    BY <1>1, RewrittenBlock DEF Versions
  <2> HIDE DEF v
  <2>3. /\ DOMAIN m.content = 1..n /\ m.content = [j \in 1..n |-> m.content[j]]
        /\ m.content[i] = Recorded(v)
        /\ \A j \in 1..n : j # i => m.content[j] = Recorded(a.content[j])
    BY <1>2, <1>4, <2>1, <2>2
  <2>4. m.content \in Seq(Range(m.content))
    BY <1>1, <2>3, ListIsSequence
  <2>5. ASSUME NEW j \in 1..n PROVE IsRecorded(m.content[j], k.replay.blocks[j].sig, m.origin)
    <3>1. CASE j = i
      <4>1. IsRecorded(Recorded(v), v.sig, a)
        BY <1>1, <2>2 DEF IsRecorded
      <4> QED BY <3>1, <4>1, <1>3, <2>1, <2>2, <2>3
    <3>2. CASE j # i
      BY <3>2, <1>3, <1>15, <2>1, <2>3
    <3> QED BY <3>1, <3>2
  <2> QED BY <2>1, <2>3, <2>4, <2>5 DEF HoldsAnswer, FittingIsOwn
<1>17. \/ m = k \/ m = Extended(k) \/ m = WrittenElsewhere(k) \/ m = Reascribed(k)
       \/ m = Unreplayable(k)
       \/ \E i \in 1..n : m = Pruned(k, i) \/ m = Dropped(k, i)
       \/ \E i \in 1..n, text \in Rewritings : m = Rewritten(k, i, text)
  BY <1>2 DEF Edited, k
<1> QED
  BY <1>1, <1>5, <1>7, <1>8, <1>9, <1>10, <1>12, <1>13, <1>16, <1>17

\* Every assistant message of the harness.
LEMMA AssistantMessage ==
    ASSUME NEW m \in HarnessMessages, m.role = "assistant"
    PROVE  /\ HoldsAnswer(m) /\ FittingIsOwn(m)
           /\ m = Kept(m.origin) => m.origin \in Answers
<1>1. CASE m \in AssistantMessages
  <2>1. PICK a \in Answers : m \in Edited(Kept(a))
    BY <1>1, Zenon DEF AssistantMessages
  <2>2. m.origin = a /\ HoldsAnswer(m) /\ FittingIsOwn(m)
    BY <2>1, EditedAnswer
  <2> QED BY <2>2
<1>2. CASE m = Message("assistant", <<Image("drawn")>>, NoReplay, NoAnswer)
  <2>1. m.content = <<Image("drawn")>> /\ m.replay.valid = FALSE /\ m.origin = NoAnswer
    BY <1>2 DEF Message, NoReplay
  <2>2. m.content \in Seq(Range(m.content)) /\ DOMAIN m.content = {1}
    BY <2>1 DEF Range
  <2>3. m.content[1].type = "image"
    <3>1. m.content[1] = Image("drawn")
      BY <2>1
    <3>2. Image("drawn").type = "image"
      BY DEF Image, Block
    <3> QED BY <3>1, <3>2
  <2>4. HoldsAnswer(m)
    BY <2>2, <2>3, TypesTranslate DEF HoldsAnswer
  <2>5. FittingIsOwn(m)
    BY <2>1 DEF FittingIsOwn, Usable
  <2>6. m # Kept(NoAnswer)
    <3>1. Kept(NoAnswer).content = [i \in DOMAIN NoAnswer.content |-> Recorded(NoAnswer.content[i])]
      BY DEF Kept, Message
    <3>2. DOMAIN NoAnswer.content = {}
      BY DEF NoAnswer
    <3>3. DOMAIN Kept(NoAnswer).content = {}
      BY <3>1, <3>2
    <3> QED BY <3>3, <2>2
  <2> QED BY <2>1, <2>4, <2>5, <2>6
<1>3. m \in AssistantMessages \/ m = Message("assistant", <<Image("drawn")>>, NoReplay, NoAnswer)
  <2>1. ASSUME NEW t, m = Message("user", t, NoReplay, NoAnswer)
        PROVE  FALSE
    BY <2>1 DEF Message
  <2>2. ASSUME m = Message("system", <<Text(<<"rules">>)>>, NoReplay, NoAnswer)
        PROVE  FALSE
    BY <2>2 DEF Message
  <2> QED BY <2>1, <2>2, Zenon DEF HarnessMessages
<1> QED BY <1>1, <1>2, <1>3

\* What becomes of it in the context.
LEMMA ConvertedAnswer ==
    ASSUME NEW m \in HarnessMessages, m.role = "assistant"
    PROVE  /\ ToPiAssistant(m).role = "assistant"
           /\ \E n \in Nat : DOMAIN ToPiAssistant(m).content = 1..n
           /\ \A k \in DOMAIN ToPiAssistant(m).content :
                 ToPiAssistant(m).content[k].type = "toolCall" =>
                     ToPiAssistant(m).content[k].name \in ToolNames
           /\ ComesBack(ToPiAssistant(m), m)
           /\ Survives(ToPiAssistant(m), m)
<1> DEFINE a == ToPiAssistant(m)
           n == Len(m.content)
           known == {i \in DOMAIN m.content : m.content[i].type \in DOMAIN NativeType}
           left == OfType(m.content, DOMAIN NativeType)
<1>1. /\ HoldsAnswer(m) /\ FittingIsOwn(m) /\ (m = Kept(m.origin) => m.origin \in Answers)
  BY AssistantMessage
<1>2. /\ n \in Nat /\ DOMAIN m.content = 1..n /\ m.content = [i \in 1..n |-> m.content[i]]
  BY <1>1, LenProperties DEF HoldsAnswer
<1>3. left = Picked(m.content, known)
  BY DEF OfType
<1> HIDE DEF n
<1>4. CASE Usable(m)
  <2>1. /\ a.role = "assistant" /\ a.stop = m.replay.stop
        /\ a.content = [i \in 1..n |-> Native(m.content[i], m.replay.blocks[i].sig)]
    BY <1>2, <1>4 DEF ToPiAssistant, ReplayedAssistant, PiMessage
  <2> HIDE DEF a, known, left
  <2>2. ASSUME NEW k \in 1..n
        PROVE  /\ m.content[k].type \in DOMAIN NativeType
               /\ \E j \in DOMAIN m.origin.content :
                     a.content[k] \in Versions(m.origin.content[j])
               /\ Recorded(a.content[k]) = m.content[k]
               /\ a.content[k].type = "toolCall" => a.content[k].name \in ToolNames
    <3>1. PICK j \in DOMAIN m.origin.content : \E v \in Versions(m.origin.content[j]) :
              AnswerBlock(v) /\ m.content[k] = Recorded(v) /\ m.replay.blocks[k].sig = v.sig
      BY <1>1, <1>2, <1>4 DEF FittingIsOwn, IsRecorded
    <3>5. PICK v \in Versions(m.origin.content[j]) :
              AnswerBlock(v) /\ m.content[k] = Recorded(v) /\ m.replay.blocks[k].sig = v.sig
      BY <3>1
    <3>2. a.content[k] = Native(Recorded(v), v.sig)
      BY <2>1, <3>5
    <3>3. a.content[k] = v
      BY <3>5, <3>2, BlockComesBack
    <3>4. Recorded(v).type \in DOMAIN NativeType
      BY <3>5, BlockComesBack
    <3> QED BY <3>5, <3>3, <3>4 DEF AnswerBlock
  <2>3. known = 1..n
    BY <1>2, <2>2 DEF known
  <2>4. left = m.content
    BY <1>2, <1>3, <2>3, PickedAll
  <2>5. Survives(a, m)
    <3>1. DOMAIN a.content = 1..n
      BY <2>1
    <3>2. [i \in DOMAIN a.content |-> Recorded(a.content[i])] = [i \in 1..n |-> m.content[i]]
      BY <2>2, <3>1
    <3> QED BY <1>2, <2>4, <3>2 DEF Survives, left
  <2>6. ComesBack(a, m)
    <3>1. ASSUME m = Kept(m.origin)
          PROVE  a.content = m.origin.content /\ a.stop = m.origin.stop
      <4> DEFINE o == m.origin  p == Len(o.content)
      <4>1. /\ o \in Answers /\ m = Kept(o)
        BY <1>1, <3>1
      <4>2. /\ p \in Nat /\ o.content = [i \in 1..p |-> o.content[i]]
            /\ \A i \in 1..p : AnswerBlock(o.content[i])
            /\ Kept(o).content = [i \in 1..p |-> Recorded(o.content[i])]
            /\ Kept(o).replay.stop = o.stop
            /\ Kept(o).replay.blocks = [i \in 1..p |-> [type |-> HarnessType[o.content[i].type],
                                                        sig |-> o.content[i].sig]]
        BY <4>1, KeptAnswer
      <4> HIDE DEF o, p
      <4>3. 1..n = 1..p
        BY <1>2, <4>1, <4>2
      <4>4. ASSUME NEW i \in 1..p
            PROVE  Native(m.content[i], m.replay.blocks[i].sig) = o.content[i]
        <5>1. m.content[i] = Recorded(o.content[i]) /\ m.replay.blocks[i].sig = o.content[i].sig
          BY <4>1, <4>2
        <5> QED BY <5>1, <4>2, BlockComesBack
      <4>5. a.content = [i \in 1..p |-> o.content[i]]
        BY <2>1, <4>3, <4>4
      <4> QED BY <2>1, <4>1, <4>2, <4>5 DEF o
    <3> QED BY <2>1, <2>2, <3>1 DEF ComesBack
  <2> QED BY <1>2, <2>1, <2>2, <2>5, <2>6 DEF a
<1>5. CASE ~Usable(m)
  <2>1. /\ a.role = "assistant"
        /\ a.content = [i \in DOMAIN left |-> Native(left[i], "")]
    BY <1>5 DEF ToPiAssistant, ForeignAssistant, ForeignContent, PiMessage
  <2>2. known \subseteq 1..n
    BY <1>2
  <2> HIDE DEF a, known, left
  <2>3. /\ DOMAIN left = 1..Cardinality(known) /\ Cardinality(known) \in Nat
        /\ \A k \in DOMAIN left : \E i \in known : left[k] = m.content[i]
        /\ left = [k \in DOMAIN left |-> left[k]]
    <3> DEFINE pick == Picked(m.content, known)
    <3>1. pick = [k \in DOMAIN pick |-> pick[k]]
      BY DEF Picked
    <3>2. DOMAIN pick = 1..Cardinality(known) /\ Cardinality(known) \in Nat
      BY <1>2, <2>2, PickedElements
    <3>3. StandsThere(m.content, known)
      BY <1>2, <2>2, PickedElements
    <3>4. \A k \in DOMAIN pick : \E i \in known : pick[k] = m.content[i]
      BY <3>2, <3>3 DEF StandsThere
    <3> HIDE DEF pick
    <3>5. left = pick
      BY <1>3 DEF pick
    <3> QED BY <3>1, <3>2, <3>4, <3>5
  <2>4. ASSUME NEW k \in DOMAIN left
        PROVE  /\ Recorded(a.content[k]) = left[k] /\ a.content[k].sig = ""
               /\ a.content[k].type = "toolCall" => a.content[k].name \in ToolNames
    <3>1. PICK i \in known : left[k] = m.content[i]
      BY <2>3
    <3>2. i \in DOMAIN m.content /\ m.content[i].type \in DOMAIN NativeType
      BY <3>1 DEF known
    <3>3. PICK b : AnswerBlock(b) /\ m.content[i] = Recorded(b)
      BY <1>1, <3>2 DEF HoldsAnswer, IsRecorded
    <3>4. a.content[k] = Native(Recorded(b), "") /\ left[k] = Recorded(b) /\ AnswerBlock(b)
      BY <2>1, <3>1, <3>3
    <3>5. /\ Native(Recorded(b), "").sig = "" /\ Native(Recorded(b), "").type = b.type
          /\ Native(Recorded(b), "").name = b.name
          /\ Recorded(Native(Recorded(b), "")) = Recorded(b)
      BY <3>4, BlockComesBack
    <3>6. b.type = "toolCall" => b.name \in ToolNames
      BY <3>4 DEF AnswerBlock
    <3> QED BY <3>4, <3>5, <3>6
  <2>5. Survives(a, m)
    <3>1. DOMAIN a.content = DOMAIN left
      BY <2>1
    <3>2. [k \in DOMAIN a.content |-> Recorded(a.content[k])] = [k \in DOMAIN left |-> left[k]]
      BY <2>4, <3>1
    <3> QED BY <2>3, <3>2 DEF Survives, left
  <2>6. ComesBack(a, m)
    <3>1. m # Kept(m.origin)
      <4> SUFFICES ASSUME m = Kept(m.origin) PROVE FALSE
        OBVIOUS
      <4> DEFINE o == m.origin  p == Len(o.content)
      <4>1. /\ o \in Answers /\ m = Kept(o)
        BY <1>1
      <4>2. /\ p \in Nat
            /\ \A i \in 1..p : AnswerBlock(o.content[i])
            /\ Kept(o).content = [i \in 1..p |-> Recorded(o.content[i])]
            /\ Kept(o).replay.valid = TRUE /\ Kept(o).replay.source = "own"
            /\ Kept(o).replay.blocks = [i \in 1..p |-> [type |-> HarnessType[o.content[i].type],
                                                        sig |-> o.content[i].sig]]
        BY <4>1, KeptAnswer
      <4> HIDE DEF o, p
      <4>3. DOMAIN m.content = 1..p
        BY <4>1, <4>2
      <4>4. ASSUME NEW i \in 1..p PROVE m.replay.blocks[i].type = m.content[i].type
        <5>1. /\ m.content[i] = Recorded(o.content[i])
              /\ m.replay.blocks[i].type = HarnessType[o.content[i].type]
          BY <4>1, <4>2
        <5>2. Recorded(o.content[i]).type = HarnessType[o.content[i].type]
          BY <4>2, BlockComesBack
        <5> QED BY <5>1, <5>2
      <4>5. Len(m.content) = p /\ Len(m.replay.blocks) = p
        BY <4>1, <4>2
      <4> QED BY <4>1, <4>2, <4>3, <4>4, <4>5, <1>5 DEF Usable
    <3> QED BY <2>1, <2>4, <3>1 DEF ComesBack
  <2> QED BY <2>1, <2>3, <2>4, <2>5, <2>6 DEF a
<1> QED BY <1>4, <1>5

-----------------------------------------------------------------------------
(* The lists a context is built from. *)

\* Two lists one after the other.
LEMMA Joined ==
    ASSUME NEW s, s \in Seq(Range(s)), NEW t, t \in Seq(Range(t))
    PROVE  /\ s \o t \in Seq(Range(s \o t))
           /\ Len(s) \in Nat /\ Len(t) \in Nat /\ Len(s \o t) = Len(s) + Len(t)
           /\ DOMAIN s = 1..Len(s) /\ DOMAIN t = 1..Len(t)
           /\ DOMAIN (s \o t) = 1..Len(s) + Len(t)
           /\ \A i \in 1..Len(s) : (s \o t)[i] = s[i]
           /\ \A i \in 1..Len(t) : (s \o t)[Len(s) + i] = t[i]
           /\ \A i \in Len(s) + 1..Len(s) + Len(t) :
                 i - Len(s) \in 1..Len(t) /\ (s \o t)[i] = t[i - Len(s)]
<1> DEFINE S == Range(s) \cup Range(t)
<1>1. s \in Seq(S) /\ t \in Seq(S)
  <2>1. Range(s) \subseteq S /\ Range(t) \subseteq S
    OBVIOUS
  <2> QED BY <2>1, SeqMonotonic
<1> HIDE DEF S
<1>2. Len(s) \in Nat /\ Len(t) \in Nat /\ DOMAIN s = 1..Len(s) /\ DOMAIN t = 1..Len(t)
  BY <1>1, LenProperties
<1>3. /\ s \o t \in Seq(S)
      /\ Len(s \o t) = Len(s) + Len(t)
      /\ \A i \in 1..Len(s) + Len(t) :
            (s \o t)[i] = IF i <= Len(s) THEN s[i] ELSE t[i - Len(s)]
  BY <1>1, ConcatProperties
<1>4. s \o t \in Seq(Range(s \o t)) /\ DOMAIN (s \o t) = 1..Len(s) + Len(t)
  BY <1>3, SeqOfRange, LenProperties
<1>5. ASSUME NEW i \in 1..Len(s) PROVE (s \o t)[i] = s[i]
  <2>1. i \in 1..Len(s) + Len(t) /\ i <= Len(s)
    BY <1>2
  <2> QED BY <2>1, <1>3
<1>6. ASSUME NEW i \in Len(s) + 1..Len(s) + Len(t)
      PROVE  i - Len(s) \in 1..Len(t) /\ (s \o t)[i] = t[i - Len(s)]
  <2>1. i \in 1..Len(s) + Len(t) /\ ~(i <= Len(s)) /\ i - Len(s) \in 1..Len(t)
    BY <1>2
  <2> QED BY <2>1, <1>3
<1>7. ASSUME NEW i \in 1..Len(t) PROVE (s \o t)[Len(s) + i] = t[i]
  <2>1. Len(s) + i \in Len(s) + 1..Len(s) + Len(t) /\ Len(s) + i - Len(s) = i
    BY <1>2
  <2> QED BY <2>1, <1>6
<1> QED BY <1>2, <1>3, <1>4, <1>5, <1>6, <1>7

-----------------------------------------------------------------------------
(* How many answers come before a message. *)

\* A number, whatever comes before.
LEMMA AnswersAreCounted ==
    ASSUME NEW seq, NEW i \in Nat
    PROVE  AnswersIn(seq, i) \in Nat
<1> DEFINE found == {j \in 1..i : seq[j].role = "assistant"}
<1>1. found \subseteq 1..i
  OBVIOUS
<1> HIDE DEF found
<1>2. Cardinality(found) \in Nat
  BY <1>1, PositionsAreFinite
<1> QED BY <1>2 DEF AnswersIn, found

\* Only what comes before counts.
LEMMA SameAnswers ==
    ASSUME NEW s, NEW t, NEW i \in Nat, \A j \in 1..i : s[j] = t[j]
    PROVE  AnswersIn(s, i) = AnswersIn(t, i)
<1>1. {j \in 1..i : s[j].role = "assistant"} = {j \in 1..i : t[j].role = "assistant"}
  OBVIOUS
<1> QED BY <1>1 DEF AnswersIn

\* None come before the first message.
LEMMA NoAnswersYet ==
    ASSUME NEW seq PROVE AnswersIn(seq, 0) = 0
<1>1. {j \in 1..0 : seq[j].role = "assistant"} = {}
  OBVIOUS
<1> QED BY <1>1, FS_EmptySet DEF AnswersIn

\* What is not an answer does not count.
LEMMA OthersDoNotCount ==
    ASSUME NEW seq, NEW i \in Nat, NEW j \in Nat, i <= j,
           \A k \in i + 1..j : seq[k].role # "assistant"
    PROVE  AnswersIn(seq, i) = AnswersIn(seq, j)
<1>1. {k \in 1..i : seq[k].role = "assistant"} = {k \in 1..j : seq[k].role = "assistant"}
  OBVIOUS
<1> QED BY <1>1 DEF AnswersIn

\* An answer does.
LEMMA AnAnswerCounts ==
    ASSUME NEW seq, NEW i \in Nat, seq[i + 1].role = "assistant"
    PROVE  AnswersIn(seq, i + 1) = AnswersIn(seq, i) + 1
<1> DEFINE low == {k \in 1..i : seq[k].role = "assistant"}
           high == {k \in 1..i + 1 : seq[k].role = "assistant"}
<1>1. high = low \cup {i + 1} /\ i + 1 \notin low /\ low \subseteq 1..i
  OBVIOUS
<1> HIDE DEF low, high
<1>2. IsFiniteSet(low)
  BY <1>1, PositionsAreFinite
<1>3. Cardinality(high) = Cardinality(low) + 1
  BY <1>1, <1>2, FS_AddElement
<1> QED BY <1>3 DEF AnswersIn, low, high

\* The count never falls, and an answer makes it larger.
LEMMA AnswersGrow ==
    ASSUME NEW seq, NEW i \in Nat, NEW j \in Nat, i <= j
    PROVE  /\ AnswersIn(seq, i) <= AnswersIn(seq, j)
           /\ i < j /\ seq[j].role = "assistant" => AnswersIn(seq, i) < AnswersIn(seq, j)
<1> DEFINE low == {k \in 1..i : seq[k].role = "assistant"}
           high == {k \in 1..j : seq[k].role = "assistant"}
<1>1. low \subseteq high /\ high \subseteq 1..j /\ low \subseteq 1..i
  OBVIOUS
<1>2. i < j /\ seq[j].role = "assistant" => j \in high /\ j \notin low
  OBVIOUS
<1> HIDE DEF low, high
<1>3. IsFiniteSet(high) /\ Cardinality(high) \in Nat /\ Cardinality(low) \in Nat
  BY <1>1, PositionsAreFinite
<1>4. Cardinality(low) <= Cardinality(high) /\ (Cardinality(low) = Cardinality(high) => low = high)
  BY <1>1, <1>3, FS_Subset
<1>5. i < j /\ seq[j].role = "assistant" => Cardinality(low) < Cardinality(high)
  BY <1>2, <1>3, <1>4
<1> QED BY <1>4, <1>5 DEF AnswersIn, low, high

-----------------------------------------------------------------------------
(* The calls before a message. *)

\* A call is a block of an answer.
LEMMA CallIn ==
    ASSUME NEW s, NEW i, NEW id, NEW c
    PROVE  c \in CallsIn(s, i, id) <=>
               \E j \in 1..i : \E k \in DOMAIN s[j].content :
                   /\ c = <<j, k>>
                   /\ s[j].role = "assistant" /\ s[j].content[k].type = "toolCall"
                   /\ s[j].content[k].id = id
<1>1. ASSUME NEW j, NEW k PROVE <<j, k>>[1] = j /\ <<j, k>>[2] = k
  OBVIOUS
<1>2. ASSUME NEW j \in 1..i, NEW k \in DOMAIN s[j].content
      PROVE  <<j, k>> \in UNION {{l} \X (DOMAIN s[l].content) : l \in 1..i}
  OBVIOUS
<1>3. ASSUME c \in UNION {{l} \X (DOMAIN s[l].content) : l \in 1..i}
      PROVE  \E j \in 1..i : \E k \in DOMAIN s[j].content : c = <<j, k>>
  BY <1>3
<1> QED BY <1>1, <1>2, <1>3 DEF CallsIn

\* Only what comes before counts.
LEMMA SameCalls ==
    ASSUME NEW s, NEW t, NEW i \in Nat, \A j \in 1..i : s[j] = t[j], NEW id
    PROVE  CallsIn(s, i, id) = CallsIn(t, i, id)
<1>1. ASSUME NEW c PROVE c \in CallsIn(s, i, id) <=> c \in CallsIn(t, i, id)
  BY CallIn
<1> QED BY <1>1

\* What is not an answer holds no call.
LEMMA OthersDoNotCall ==
    ASSUME NEW s, NEW i \in Nat, NEW j \in Nat, i <= j,
           \A k \in i + 1..j : s[k].role # "assistant", NEW id
    PROVE  CallsIn(s, j, id) = CallsIn(s, i, id)
<1>1. ASSUME NEW l \in 1..j, s[l].role = "assistant" PROVE l \in 1..i
  BY <1>1
<1>2. ASSUME NEW l \in 1..i PROVE l \in 1..j
  OBVIOUS
<1>3. ASSUME NEW c PROVE c \in CallsIn(s, j, id) <=> c \in CallsIn(s, i, id)
  BY <1>1, <1>2, CallIn
<1> QED BY <1>3

\* So the names stay what they were, whatever comes that is not an answer.
LEMMA NamesStay ==
    ASSUME NEW s, NEW t, NEW i \in Nat, NEW j \in Nat, i <= j, \A k \in 1..i : s[k] = t[k],
           \A k \in i + 1..j : t[k].role # "assistant",
           NEW id, NEW name, NamedIn(s, i, id, name)
    PROVE  NamedIn(t, j, id, name)
<1>1. CallsIn(t, j, id) = CallsIn(s, i, id)
  <2>1. CallsIn(s, i, id) = CallsIn(t, i, id)
    <3>1. \A k \in 1..i : s[k] = t[k]
      OBVIOUS
    <3> QED BY ONLY i \in Nat, <3>1, SameCalls
  <2>2. CallsIn(t, j, id) = CallsIn(t, i, id)
    BY OthersDoNotCall
  <2> QED BY <2>1, <2>2
<1>2. ASSUME NEW c \in CallsIn(s, i, id)
      PROVE  s[c[1]] = t[c[1]]
  <2>1. PICK l \in 1..i : \E k \in DOMAIN s[l].content : c = <<l, k>>
    BY CallIn
  <2> QED BY <2>1
<1> QED BY <1>1, <1>2 DEF NamedIn

-----------------------------------------------------------------------------
(* What the messages of the harness become. *)

\* A user message is what was said or returned.
LEMMA UserMessage ==
    ASSUME NEW m \in HarnessMessages, m.role = "user"
    PROVE  m.content \in Turns
<1>1. ASSUME m \in AssistantMessages PROVE m.role = "assistant"
  <2>1. PICK a \in Answers : m \in Edited(Kept(a))
    BY <1>1, Zenon DEF AssistantMessages
  <2> DEFINE k == Kept(a)
  <2>2. k.role = "assistant" /\ DOMAIN k = {"role", "content", "replay", "origin"}
    BY KeptAnswer
  <2> HIDE DEF k
  <2>3. /\ Extended(k).role = "assistant" /\ WrittenElsewhere(k).role = "assistant"
        /\ Reascribed(k).role = "assistant" /\ Unreplayable(k).role = "assistant"
    BY <2>2 DEF Extended, WrittenElsewhere, Reascribed, Unreplayable
  <2>4. \A i : /\ Pruned(k, i).role = "assistant" /\ Dropped(k, i).role = "assistant"
               /\ \A text : Rewritten(k, i, text).role = "assistant"
    BY <2>2 DEF Pruned, Dropped, Rewritten
  <2>5. \/ m = k \/ m = Extended(k) \/ m = WrittenElsewhere(k) \/ m = Reascribed(k)
        \/ m = Unreplayable(k)
        \/ \E i : m = Pruned(k, i) \/ m = Dropped(k, i)
        \/ \E i, text : m = Rewritten(k, i, text)
    BY <2>1 DEF Edited, k
  <2> QED BY <2>2, <2>3, <2>4, <2>5
<1>2. ASSUME m = Message("assistant", <<Image("drawn")>>, NoReplay, NoAnswer)
      PROVE  m.role = "assistant"
  BY <1>2 DEF Message
<1>3. ASSUME m = Message("system", <<Text(<<"rules">>)>>, NoReplay, NoAnswer)
      PROVE  m.role = "system"
  BY <1>3 DEF Message
<1>4. \E t \in Turns : m = Message("user", t, NoReplay, NoAnswer)
  BY <1>1, <1>2, <1>3, Zenon DEF HarnessMessages
<1> QED BY <1>4 DEF Message

\* It becomes the user's words, if any, and a message for each result.
TurnOf(u, names) ==
    /\ u \in Seq(Range(u))
    /\ \A i \in DOMAIN u :
          /\ u[i].role # "assistant"
          /\ u[i].role = "toolResult" => u[i].id \in CallIds /\ u[i].name = names[u[i].id]

LEMMA ConvertedUser ==
    ASSUME NEW m \in HarnessMessages, m.role = "user", NEW images, NEW names
    PROVE  TurnOf(UserTurn(m, images, names), names)
<1> DEFINE n == Len(m.content)
           where == {i \in DOMAIN m.content : m.content[i].type \in {"tool-result"}}
           results == OfType(m.content, {"tool-result"})
           said == Said(m, images)
           s == IF said # <<>> \/ results = <<>>
                THEN <<PiMessage("user", said, "", "", "")>> ELSE <<>>
           t == [i \in DOMAIN results |->
                    PiMessage("toolResult", Output(results[i], images), results[i].id,
                              names[results[i].id], "")]
<1>1. m.content \in Turns
  BY UserMessage
<1>2. m.content \in Seq(Range(m.content))
  BY <1>1, ResultsAssumption
<1>3. n \in Nat /\ DOMAIN m.content = 1..n
  BY <1>2, LenProperties
<1>4. where \subseteq 1..n
  BY <1>3
<1>5. results = Picked(m.content, where)
  BY DEF OfType
<1>6. UserTurn(m, images, names) = s \o t
  BY DEF UserTurn
<1>7. s \in Seq(Range(s)) /\ \A i \in DOMAIN s : s[i].role = "user"
  <2> DEFINE x == PiMessage("user", said, "", "", "")
  <2>1. x.role = "user"
    BY DEF PiMessage
  <2>2. s = <<x>> \/ s = <<>>
    OBVIOUS
  <2> HIDE DEF x, s
  <2>3. CASE s = <<x>>
    BY <2>1, <2>3 DEF Range
  <2>4. CASE s = <<>>
    BY <2>4
  <2> QED BY <2>2, <2>3, <2>4
<1> HIDE DEF n, where, s, said
<1>8. /\ DOMAIN results = 1..Cardinality(where) /\ Cardinality(where) \in Nat
      /\ \A k \in DOMAIN results : results[k].id \in CallIds
  <2>1. /\ DOMAIN Picked(m.content, where) = 1..Cardinality(where) /\ Cardinality(where) \in Nat
    BY <1>3, <1>4, PickedElements
  <2>2. StandsThere(m.content, where)
    BY <1>3, <1>4, PickedElements
  <2>3. ASSUME NEW i \in where PROVE m.content[i].id \in CallIds
    <3>1. m.content[i] \in Range(m.content) /\ m.content[i].type = "tool-result"
      BY <2>3 DEF where, Range
    <3> QED BY <1>1, <3>1, ResultsAssumption
  <2>4. ASSUME NEW k \in 1..Cardinality(where) PROVE Picked(m.content, where)[k].id \in CallIds
    <3>1. PICK i \in where : Picked(m.content, where)[k] = m.content[i]
      BY <2>2 DEF StandsThere
    <3> QED BY <3>1, <2>3
  <2> QED BY <1>5, <2>1, <2>4
<1> HIDE DEF results
<1>9. ASSUME NEW i \in DOMAIN t
      PROVE  t[i].role = "toolResult" /\ t[i].id \in CallIds /\ t[i].name = names[t[i].id]
  <2>1. i \in DOMAIN results
    OBVIOUS
  <2>2. /\ t[i].role = "toolResult" /\ t[i].id = results[i].id
        /\ t[i].name = names[results[i].id]
    BY <2>1 DEF PiMessage
  <2> QED BY <2>1, <2>2, <1>8
<1>10. t \in Seq(Range(t))
  <2>1. t = [i \in 1..Cardinality(where) |-> t[i]]
    BY <1>8
  <2> HIDE DEF t
  <2> QED BY <1>8, <2>1, ListIsSequence
<1> HIDE DEF t
<1>11. /\ s \o t \in Seq(Range(s \o t))
       /\ Len(s) \in Nat /\ Len(t) \in Nat
       /\ DOMAIN s = 1..Len(s) /\ DOMAIN t = 1..Len(t)
       /\ DOMAIN (s \o t) = 1..Len(s) + Len(t)
       /\ \A i \in 1..Len(s) : (s \o t)[i] = s[i]
       /\ \A i \in Len(s) + 1..Len(s) + Len(t) :
             i - Len(s) \in 1..Len(t) /\ (s \o t)[i] = t[i - Len(s)]
  BY <1>7, <1>10, Joined
<1>12. ASSUME NEW i \in DOMAIN (s \o t)
       PROVE  \/ (s \o t)[i].role = "user"
              \/ /\ (s \o t)[i].role = "toolResult" /\ (s \o t)[i].id \in CallIds
                 /\ (s \o t)[i].name = names[(s \o t)[i].id]
  <2>1. i \in 1..Len(s) \/ i \in Len(s) + 1..Len(s) + Len(t)
    BY <1>11
  <2>2. CASE i \in 1..Len(s)
    BY <2>2, <1>7, <1>11
  <2>3. CASE i \in Len(s) + 1..Len(s) + Len(t)
    <3>1. i - Len(s) \in DOMAIN t /\ (s \o t)[i] = t[i - Len(s)]
      BY <2>3, <1>11
    <3> QED BY <3>1, <1>9
  <2> QED BY <2>1, <2>2, <2>3
<1> QED BY <1>6, <1>11, <1>12 DEF TurnOf

-----------------------------------------------------------------------------
(* What holds of a context. *)

\* The remembered names are those the whole context gives.
Follow(c, names) == \A id \in CallIds : NamedIn(c, Len(c), id, names[id])

\* The property of results, of any context.
Named(c) ==
    \A i \in DOMAIN c : c[i].role = "toolResult" => NamedIn(c, i - 1, c[i].id, c[i].name)

\* Every answer was made from the harness message it is paired with.
Made(c, h) ==
    \A i \in DOMAIN c, j \in DOMAIN h :
        /\ c[i].role = "assistant" /\ h[j].role = "assistant"
        /\ AnswersIn(c, i) = AnswersIn(h, j)
        => c[i] = ToPiAssistant(h[j])

-----------------------------------------------------------------------------
(* A context that grows. *)

\* By messages that are no answers.
LEMMA TurnIsAdded ==
    ASSUME NEW c, c \in Seq(Range(c)), NEW names, NEW u, TurnOf(u, names),
           Follow(c, names), Named(c)
    PROVE  /\ c \o u \in Seq(Range(c \o u)) /\ Follow(c \o u, names) /\ Named(c \o u)
           /\ AnswersIn(c \o u, Len(c \o u)) = AnswersIn(c, Len(c))
           /\ \A h : Made(c, h) => Made(c \o u, h)
<1> DEFINE d == c \o u
<1>1. /\ u \in Seq(Range(u))
      /\ \A i \in DOMAIN u :
            /\ u[i].role # "assistant"
            /\ u[i].role = "toolResult" => u[i].id \in CallIds /\ u[i].name = names[u[i].id]
  BY DEF TurnOf
<1>2. /\ d \in Seq(Range(d))
      /\ Len(c) \in Nat /\ Len(u) \in Nat /\ Len(d) = Len(c) + Len(u)
      /\ DOMAIN c = 1..Len(c) /\ DOMAIN u = 1..Len(u) /\ DOMAIN d = 1..Len(c) + Len(u)
      /\ \A i \in 1..Len(c) : d[i] = c[i]
      /\ \A i \in Len(c) + 1..Len(c) + Len(u) :
            i - Len(c) \in 1..Len(u) /\ d[i] = u[i - Len(c)]
  BY <1>1, Joined
<1> HIDE DEF d
<1>3. ASSUME NEW i \in Len(c) + 1..Len(d)
      PROVE  /\ d[i].role # "assistant"
             /\ d[i].role = "toolResult" => d[i].id \in CallIds /\ d[i].name = names[d[i].id]
  <2>1. i - Len(c) \in DOMAIN u /\ d[i] = u[i - Len(c)]
    BY <1>2
  <2> QED BY <1>1, <2>1
<1>4. ASSUME NEW j \in Nat, Len(c) <= j, j <= Len(d), NEW id \in CallIds
      PROVE  NamedIn(d, j, id, names[id])
  <2>1. NamedIn(c, Len(c), id, names[id])
    BY DEF Follow
  <2>2. \A k \in Len(c) + 1..j : d[k].role # "assistant"
    BY <1>2, <1>3, <1>4
  <2> QED BY <1>2, <1>4, <2>1, <2>2, NamesStay
<1>5. Follow(d, names)
  <2>1. Len(d) \in Nat /\ Len(c) <= Len(d)
    BY <1>2
  <2> QED BY <2>1, <1>4 DEF Follow
<1>6. Named(d)
  <2> SUFFICES ASSUME NEW i \in DOMAIN d, d[i].role = "toolResult"
               PROVE  NamedIn(d, i - 1, d[i].id, d[i].name)
    BY DEF Named
  <2>1. CASE i \in 1..Len(c)
    <3>1. d[i] = c[i] /\ NamedIn(c, i - 1, c[i].id, c[i].name)
      BY <1>2, <2>1 DEF Named
    <3>2. /\ i - 1 \in Nat /\ i - 1 <= i - 1 /\ \A k \in 1..i - 1 : c[k] = d[k]
          /\ \A k \in i - 1 + 1..i - 1 : d[k].role # "assistant"
      BY <1>2, <2>1
    <3> QED BY <3>1, <3>2, NamesStay
  <2>2. CASE i \in Len(c) + 1..Len(d)
    <3>1. i - 1 \in Nat /\ Len(c) <= i - 1 /\ i - 1 <= Len(d)
      BY <1>2, <2>2
    <3>2. d[i].id \in CallIds /\ d[i].name = names[d[i].id]
      BY <1>3, <2>2
    <3> QED BY <1>4, <3>1, <3>2
  <2> QED BY <1>2, <2>1, <2>2
<1>7. AnswersIn(d, Len(d)) = AnswersIn(c, Len(c))
  <2>1. AnswersIn(c, Len(c)) = AnswersIn(d, Len(c))
    BY <1>2, SameAnswers
  <2>2. AnswersIn(d, Len(c)) = AnswersIn(d, Len(d))
    <3>1. Len(c) \in Nat /\ Len(d) \in Nat /\ Len(c) <= Len(d)
      BY <1>2
    <3> QED BY <3>1, <1>3, OthersDoNotCount
  <2> QED BY <2>1, <2>2
<1>8. ASSUME NEW h, Made(c, h) PROVE Made(d, h)
  <2> SUFFICES ASSUME NEW i \in DOMAIN d, NEW j \in DOMAIN h,
                      d[i].role = "assistant", h[j].role = "assistant",
                      AnswersIn(d, i) = AnswersIn(h, j)
               PROVE  d[i] = ToPiAssistant(h[j])
    BY DEF Made
  <2>1. i \in 1..Len(c)
    BY <1>2, <1>3
  <2>2. i \in Nat /\ i \in DOMAIN c /\ d[i] = c[i] /\ \A k \in 1..i : c[k] = d[k]
    BY <1>2, <2>1
  <2>3. AnswersIn(c, i) = AnswersIn(d, i)
    BY <2>2, SameAnswers
  <2> QED BY <1>8, <2>2, <2>3 DEF Made
<1> QED BY <1>2, <1>5, <1>6, <1>7, <1>8 DEF d

\* By an answer.
LEMMA AnswerIsAdded ==
    ASSUME NEW c, c \in Seq(Range(c)), NEW a, a.role = "assistant",
           NEW n \in Nat, DOMAIN a.content = 1..n,
           NEW names, Follow(c, names), Named(c)
    PROVE  /\ c \o <<a>> \in Seq(Range(c \o <<a>>))
           /\ Follow(c \o <<a>>, NamesAfter(a, names)) /\ Named(c \o <<a>>)
           /\ Len(c) \in Nat /\ Len(c \o <<a>>) = Len(c) + 1
           /\ DOMAIN c = 1..Len(c) /\ DOMAIN (c \o <<a>>) = 1..Len(c) + 1
           /\ \A i \in 1..Len(c) : (c \o <<a>>)[i] = c[i]
           /\ (c \o <<a>>)[Len(c) + 1] = a
<1> DEFINE u == <<a>>
           d == c \o u
           l == Len(c)
<1>1. /\ d \in Seq(Range(d))
      /\ l \in Nat /\ Len(d) = l + 1 /\ DOMAIN c = 1..l /\ DOMAIN d = 1..l + 1
      /\ \A i \in 1..l : d[i] = c[i]
      /\ d[l + 1] = a
  <2>1. u \in Seq(Range(u)) /\ Len(u) = 1 /\ u[1] = a
    BY DEF Range
  <2> HIDE DEF u
  <2>2. /\ d \in Seq(Range(d))
        /\ l \in Nat /\ Len(d) = l + Len(u)
        /\ DOMAIN c = 1..l /\ DOMAIN d = 1..l + Len(u)
    BY <2>1, Joined
  <2>3. \A i \in 1..l : d[i] = c[i]
    BY <2>1, Joined
  <2>4. \A i \in l + 1..l + Len(u) : d[i] = u[i - l]
    BY <2>1, Joined
  <2>5. l + 1 \in l + 1..l + Len(u) /\ l + 1 - l = 1
    BY <2>1, <2>2
  <2> QED BY <2>1, <2>2, <2>3, <2>4, <2>5
<1> HIDE DEF d, l, u
<1>2. Named(d)
  <2> SUFFICES ASSUME NEW i \in DOMAIN d, d[i].role = "toolResult"
               PROVE  NamedIn(d, i - 1, d[i].id, d[i].name)
    BY DEF Named
  <2>1. i \in 1..l
    BY <1>1
  <2>2. d[i] = c[i] /\ NamedIn(c, i - 1, c[i].id, c[i].name)
    BY <1>1, <2>1 DEF Named
  <2>3. /\ i - 1 \in Nat /\ i - 1 <= i - 1 /\ \A k \in 1..i - 1 : c[k] = d[k]
        /\ \A k \in i - 1 + 1..i - 1 : d[k].role # "assistant"
    BY <1>1, <2>1
  <2> DEFINE before == i - 1  id == c[i].id  name == c[i].name
  <2>4. NamedIn(c, before, id, name) /\ before \in Nat /\ before <= before
        /\ (\A k \in 1..before : c[k] = d[k])
        /\ \A k \in before + 1..before : d[k].role # "assistant"
    BY <2>2, <2>3
  <2> HIDE DEF before, id, name
  <2>5. NamedIn(d, before, id, name)
    BY <2>4, NamesStay
  <2> QED BY <2>2, <2>5 DEF before, id, name
<1>3. ASSUME NEW id \in CallIds
      PROVE  NamedIn(d, l + 1, id, NamesAfter(a, names)[id])
  <2> DEFINE called == {i \in DOMAIN a.content : a.content[i].type = "toolCall"
                                                 /\ a.content[i].id = id}
  <2>1. NamesAfter(a, names)[id] =
            IF called = {} THEN names[id]
            ELSE a.content[CHOOSE i \in called : \A j \in called : j <= i].name
    BY DEF NamesAfter
  <2>2. called \subseteq 1..n
    OBVIOUS
  <2>3. ASSUME NEW k \in DOMAIN a.content
        PROVE  k \in called <=> a.content[k].type = "toolCall" /\ a.content[k].id = id
    OBVIOUS
  <2> HIDE DEF called
  <2>4. ASSUME NEW x, x \in CallsIn(d, l + 1, id)
        PROVE  \/ x \in CallsIn(c, l, id)
               \/ \E k \in called : x = <<l + 1, k>>
    <3>1. PICK j \in 1..l + 1 : \E k \in DOMAIN d[j].content :
              /\ x = <<j, k>>
              /\ d[j].role = "assistant" /\ d[j].content[k].type = "toolCall"
              /\ d[j].content[k].id = id
      BY <2>4, CallIn
    <3>2. PICK k \in DOMAIN d[j].content :
              /\ x = <<j, k>>
              /\ d[j].role = "assistant" /\ d[j].content[k].type = "toolCall"
              /\ d[j].content[k].id = id
      BY <3>1
    <3>3. CASE j = l + 1
      BY <1>1, <2>3, <3>2, <3>3
    <3>4. CASE j \in 1..l
      <4>1. d[j] = c[j]
        BY <1>1, <3>4
      <4> QED BY <4>1, <3>2, <3>4, CallIn
    <3> QED BY <1>1, <3>3, <3>4
  <2>5. ASSUME NEW x \in CallsIn(c, l, id) PROVE x[1] \in 1..l
    <3>1. PICK j \in 1..l : \E k \in DOMAIN c[j].content : x = <<j, k>>
      BY CallIn
    <3> QED BY <3>1
  <2>6. CASE called = {}
    <3>1. CallsIn(d, l + 1, id) = CallsIn(c, l, id)
      <4>1. ASSUME NEW x \in CallsIn(c, l, id) PROVE x \in CallsIn(d, l + 1, id)
        <5>1. PICK j \in 1..l : \E k \in DOMAIN c[j].content :
                  /\ x = <<j, k>>
                  /\ c[j].role = "assistant" /\ c[j].content[k].type = "toolCall"
                  /\ c[j].content[k].id = id
          BY CallIn
        <5>2. d[j] = c[j] /\ j \in 1..l + 1
          BY <1>1
        <5> QED BY <5>1, <5>2, CallIn
      <4> QED BY <4>1, <2>4, <2>6
    <3>2. NamedIn(c, l, id, names[id])
      BY DEF Follow, l
    <3>3. ASSUME NEW x \in CallsIn(c, l, id) PROVE d[x[1]] = c[x[1]]
      BY <1>1, <2>5
    <3> QED BY <3>1, <3>2, <3>3, <2>1, <2>6 DEF NamedIn
  <2>7. CASE called # {}
    <3> DEFINE k == CHOOSE i \in called : \A j \in called : j <= i
    <3>1. \E i \in called : \A j \in called : j <= i
      BY <2>2, <2>7, GreatestNumber
    <3>2. k \in called /\ \A j \in called : j <= k
      BY <3>1
    <3>3. NamesAfter(a, names)[id] = a.content[k].name
      BY <2>1, <2>7
    <3> HIDE DEF k
    <3> DEFINE x == <<l + 1, k>>
    <3>4. x \in CallsIn(d, l + 1, id)
      <4>1. l + 1 \in 1..l + 1 /\ k \in DOMAIN d[l + 1].content
        BY <1>1, <2>2, <3>2
      <4>2. /\ d[l + 1].role = "assistant" /\ d[l + 1].content[k].type = "toolCall"
            /\ d[l + 1].content[k].id = id
        BY <1>1, <2>2, <2>3, <3>2
      <4> QED BY <4>1, <4>2, CallIn
    <3>5. x[1] = l + 1 /\ x[2] = k
      OBVIOUS
    <3> HIDE DEF x
    <3>6. ASSUME NEW y \in CallsIn(d, l + 1, id) PROVE Later(x, y)
      <4>1. CASE y \in CallsIn(c, l, id)
        BY <4>1, <1>1, <2>5, <3>5 DEF Later
      <4>2. CASE \E j \in called : y = <<l + 1, j>>
        BY <4>2, <3>2, <3>5 DEF Later
      <4> QED BY <4>1, <4>2, <2>4
    <3>7. NamesAfter(a, names)[id] = d[x[1]].content[x[2]].name
      BY <1>1, <3>3, <3>5
    <3> QED BY <3>4, <3>6, <3>7 DEF NamedIn
  <2> QED BY <2>6, <2>7
<1>4. Follow(d, NamesAfter(a, names))
  BY <1>1, <1>3 DEF Follow
<1> QED BY <1>1, <1>2, <1>4 DEF d, l, u

-----------------------------------------------------------------------------
(* The pairing of answers. *)

\* What the harness adds is not paired before it is converted.
LEMMA SayingPairsNothing ==
    ASSUME NEW c, c \in Seq(Range(c)), NEW h \in Seq(HarnessMessages), NEW m \in HarnessMessages,
           NEW k \in 0..Len(h), AnswersIn(c, Len(c)) = AnswersIn(h, k), Made(c, h)
    PROVE  /\ AnswersIn(c, Len(c)) = AnswersIn(Append(h, m), k)
           /\ Made(c, Append(h, m))
<1> DEFINE g == Append(h, m)
<1>1. /\ Len(h) \in Nat /\ DOMAIN h = 1..Len(h)
      /\ g \in Seq(HarnessMessages) /\ Len(g) = Len(h) + 1 /\ DOMAIN g = 1..Len(h) + 1
      /\ \A i \in 1..Len(h) : g[i] = h[i]
  BY LenProperties, AppendProperties
<1>2. Len(c) \in Nat /\ DOMAIN c = 1..Len(c)
  BY LenProperties
<1> HIDE DEF g
<1>3. ASSUME NEW i \in 0..Len(h) PROVE AnswersIn(h, i) = AnswersIn(g, i)
  <2>1. i \in Nat /\ \A j \in 1..i : h[j] = g[j]
    BY <1>1
  <2> QED BY <2>1, SameAnswers
<1>4. AnswersIn(c, Len(c)) = AnswersIn(g, k)
  BY <1>3
<1>5. Made(c, g)
  <2> SUFFICES ASSUME NEW i \in DOMAIN c, NEW j \in DOMAIN g,
                      c[i].role = "assistant", g[j].role = "assistant",
                      AnswersIn(c, i) = AnswersIn(g, j)
               PROVE  c[i] = ToPiAssistant(g[j])
    BY DEF Made
  <2>1. CASE j \in 1..Len(h)
    <3>1. j \in DOMAIN h /\ g[j] = h[j] /\ j \in 0..Len(h)
      BY <1>1, <2>1
    <3>2. AnswersIn(h, j) = AnswersIn(g, j)
      BY <1>3, <3>1
    <3> QED BY <3>1, <3>2 DEF Made
  <2>2. CASE j = Len(h) + 1
    <3>1. i \in Nat /\ i <= Len(c) /\ k \in Nat /\ k <= j /\ k < j /\ j \in Nat
      BY <1>1, <1>2, <2>2
    <3>2. AnswersIn(c, i) <= AnswersIn(c, Len(c))
      BY <1>2, <3>1, AnswersGrow
    <3>3. AnswersIn(g, k) < AnswersIn(g, j)
      BY <3>1, AnswersGrow
    <3>4. /\ AnswersIn(c, i) \in Nat /\ AnswersIn(c, Len(c)) \in Nat
          /\ AnswersIn(g, k) \in Nat /\ AnswersIn(g, j) \in Nat
      BY <1>2, <3>1, AnswersAreCounted
    <3> QED BY <1>4, <3>2, <3>3, <3>4
  <2> QED BY <1>1, <2>1, <2>2
<1> QED BY <1>4, <1>5 DEF g

\* An answer that is converted is paired with the message it was made from.
LEMMA AnswerIsPaired ==
    ASSUME NEW c, c \in Seq(Range(c)), NEW h \in Seq(HarnessMessages),
           NEW k \in 1..Len(h), h[k].role = "assistant",
           NEW d, d \in Seq(Range(d)), Len(d) = Len(c) + 1,
           \A i \in 1..Len(c) : d[i] = c[i],
           d[Len(c) + 1] = ToPiAssistant(h[k]), ToPiAssistant(h[k]).role = "assistant",
           AnswersIn(c, Len(c)) = AnswersIn(h, k - 1), Made(c, h)
    PROVE  AnswersIn(d, Len(d)) = AnswersIn(h, k) /\ Made(d, h)
<1> DEFINE l == Len(c)
<1>1. /\ l \in Nat /\ DOMAIN c = 1..l /\ DOMAIN d = 1..l + 1
      /\ Len(h) \in Nat /\ DOMAIN h = 1..Len(h) /\ k \in Nat /\ k - 1 \in Nat /\ k - 1 + 1 = k
  BY LenProperties
<1> HIDE DEF l
<1>2. ASSUME NEW i \in 0..l PROVE AnswersIn(c, i) = AnswersIn(d, i)
  <2>1. i \in Nat /\ \A j \in 1..i : c[j] = d[j]
    BY <1>1 DEF l
  <2> QED BY <2>1, SameAnswers
<1>3. AnswersIn(d, l + 1) = AnswersIn(d, l) + 1
  <2>1. d[l + 1].role = "assistant"
    BY DEF l
  <2> QED BY <1>1, <2>1, AnAnswerCounts
<1>4. AnswersIn(h, k) = AnswersIn(h, k - 1) + 1
  <2> DEFINE j == k - 1
  <2>1. j \in Nat /\ h[j + 1].role = "assistant" /\ j + 1 = k
    BY <1>1
  <2> HIDE DEF j
  <2>2. AnswersIn(h, j + 1) = AnswersIn(h, j) + 1
    BY <2>1, AnAnswerCounts
  <2> QED BY <2>1, <2>2 DEF j
<1>5. AnswersIn(d, l + 1) = AnswersIn(h, k)
  <2>1. AnswersIn(c, l) = AnswersIn(d, l)
    BY <1>1, <1>2
  <2> QED BY <2>1, <1>3, <1>4 DEF l
<1>6. Made(d, h)
  <2> SUFFICES ASSUME NEW i \in DOMAIN d, NEW j \in DOMAIN h,
                      d[i].role = "assistant", h[j].role = "assistant",
                      AnswersIn(d, i) = AnswersIn(h, j)
               PROVE  d[i] = ToPiAssistant(h[j])
    BY DEF Made
  <2>1. CASE i \in 1..l
    <3>1. i \in DOMAIN c /\ d[i] = c[i] /\ i \in 0..l
      BY <1>1, <2>1 DEF l
    <3>2. AnswersIn(c, i) = AnswersIn(d, i)
      BY <1>2, <3>1
    <3> QED BY <3>1, <3>2 DEF Made
  <2>2. CASE i = l + 1
    <3>1. AnswersIn(h, j) = AnswersIn(h, k)
      BY <1>5, <2>2
    <3>2. j \in Nat /\ AnswersIn(h, j) \in Nat /\ AnswersIn(h, k) \in Nat
      BY <1>1, AnswersAreCounted
    <3>3. ~(j < k)
      <4>1. j < k => AnswersIn(h, j) < AnswersIn(h, k)
        BY <1>1, <3>2, AnswersGrow
      <4> QED BY <4>1, <3>1, <3>2
    <3>4. ~(k < j)
      <4>1. k < j => AnswersIn(h, k) < AnswersIn(h, j)
        BY <1>1, <3>2, AnswersGrow
      <4> QED BY <4>1, <3>1, <3>2
    <3>5. j = k
      BY <1>1, <3>2, <3>3, <3>4
    <3> QED BY <2>2, <3>5 DEF l
  <2> QED BY <1>1, <2>1, <2>2
<1> QED BY <1>5, <1>6 DEF l

-----------------------------------------------------------------------------
(* The invariant. *)

\* The context agrees with what the loop remembers and with the part of the history it
\* has been through.
HistoryInv ==
    /\ TypeOK
    /\ next <= Len(history) + 1
    /\ messages \in Seq(Range(messages))
    /\ Follow(messages, toolNames)
    /\ Named(messages)
    /\ AnswersIn(messages, Len(messages)) = AnswersIn(history, next - 1)
    /\ Made(messages, history)

\* A context with nothing in it.
LEMMA EmptyContext ==
    /\ <<>> \in Seq(Range(<<>>)) /\ Len(<<>>) = 0
    /\ Follow(<<>>, NoNames) /\ Named(<<>>) /\ \A h : Made(<<>>, h)
<1>1. ASSUME NEW id \in CallIds PROVE NamedIn(<<>>, 0, id, NoNames[id])
  <2>1. ASSUME NEW x PROVE x \notin CallsIn(<<>>, 0, id)
    BY CallIn
  <2> QED BY <2>1 DEF NamedIn, NoNames
<1>2. Len(<<>>) = 0 /\ DOMAIN <<>> = {}
  OBVIOUS
<1> QED BY <1>1, <1>2 DEF Follow, Named, Made

\* The initial state satisfies it.
LEMMA InvStart == Init => HistoryInv
<1> SUFFICES ASSUME Init PROVE HistoryInv
  OBVIOUS
<1>1. TypeOK
  <2>1. history \in Seq(HarnessMessages) /\ Len(history) = 0
    BY DEF Init
  <2>2. toolNames \in [CallIds -> ToolNames \cup {"unknown"}]
    BY DEF Init, NoNames
  <2>3. Len(history) <= MaxMessages /\ next \in 1..MaxMessages + 1
    BY <2>1, MaxMessagesAssumption DEF Init
  <2> QED BY <2>1, <2>2, <2>3 DEF Init, TypeOK
<1>2. AnswersIn(messages, Len(messages)) = AnswersIn(history, next - 1)
  BY EmptyContext DEF Init
<1> QED BY <1>1, <1>2, EmptyContext DEF HistoryInv, Init

-----------------------------------------------------------------------------
(* Every step keeps it. *)

\* What is said between two calls is not paired with anything yet.
LEMMA SayKeeps ==
    ASSUME HistoryInv, NEW m \in HarnessMessages, Say(m)
    PROVE  HistoryInv'
<1>1. /\ history' = Append(history, m) /\ Len(history) < MaxMessages
      /\ UNCHANGED <<stage, withImages, next, toolNames, messages, sent>>
  BY DEF Say
<1>2. /\ history \in Seq(HarnessMessages) /\ next \in 1..MaxMessages + 1
      /\ next <= Len(history) + 1
  BY DEF HistoryInv, TypeOK
<1>3. Len(history) \in Nat /\ history' \in Seq(HarnessMessages) /\ Len(history') = Len(history) + 1
  BY <1>1, <1>2, LenProperties, AppendProperties
<1>4. TypeOK'
  BY <1>1, <1>3, MaxMessagesAssumption DEF HistoryInv, TypeOK
<1>5. next - 1 \in 0..Len(history)
  BY <1>2, <1>3, MaxMessagesAssumption
<1>6. /\ AnswersIn(messages, Len(messages)) = AnswersIn(Append(history, m), next - 1)
      /\ Made(messages, Append(history, m))
  BY <1>2, <1>5, SayingPairsNothing DEF HistoryInv
<1>7. next' <= Len(history') + 1
  BY <1>1, <1>2, <1>3, MaxMessagesAssumption
<1> QED BY <1>1, <1>4, <1>6, <1>7 DEF HistoryInv

\* A call starts from nothing: no context, no names and no message behind it.
LEMMA CallKeeps ==
    ASSUME HistoryInv, Call
    PROVE  HistoryInv'
<1>1. /\ history' = history /\ next' = 1 /\ messages' = <<>> /\ toolNames' = NoNames
      /\ withImages' \in BOOLEAN /\ stage' \in {"preparing", "converting"}
  BY DEF Call, ContainsImage
<1>2. TypeOK'
  <2>1. toolNames' \in [CallIds -> ToolNames \cup {"unknown"}]
    BY <1>1 DEF NoNames
  <2>2. next' \in 1..MaxMessages + 1
    BY <1>1, MaxMessagesAssumption
  <2> QED BY <1>1, <2>1, <2>2 DEF HistoryInv, TypeOK
<1>3. next' <= Len(history') + 1
  <2>1. Len(history) \in Nat
    BY LenProperties DEF HistoryInv, TypeOK
  <2> QED BY <1>1, <2>1
<1>4. AnswersIn(messages', Len(messages')) = AnswersIn(history', next' - 1)
  <2>1. AnswersIn(<<>>, 0) = 0 /\ AnswersIn(history, 0) = 0
    BY NoAnswersYet
  <2> QED BY <1>1, <2>1, EmptyContext
<1> QED BY <1>1, <1>2, <1>3, <1>4, EmptyContext DEF HistoryInv

\* The message that is converted next, in the two steps that add no answer.
LEMMA TurnKeeps ==
    ASSUME HistoryInv, NEW role \in {"user", "system"}, NEW u, TurnOf(u, toolNames),
           Converts(role, u), UNCHANGED toolNames
    PROVE  HistoryInv'
<1>1. /\ messages' = messages \o u /\ next' = next + 1 /\ history[next].role # "assistant"
      /\ next <= Len(history)
      /\ UNCHANGED <<history, stage, withImages, sent, toolNames>>
  BY DEF Converts
<1>2. /\ history \in Seq(HarnessMessages) /\ next \in 1..MaxMessages + 1
      /\ Len(history) <= MaxMessages
  BY DEF HistoryInv, TypeOK
<1>3. Len(history) \in Nat
  BY <1>2, LenProperties
<1>4. TypeOK' /\ next' <= Len(history') + 1
  <2>1. next' \in 1..MaxMessages + 1 /\ next' <= Len(history') + 1
    BY <1>1, <1>2, <1>3, MaxMessagesAssumption
  <2> QED BY <1>1, <2>1 DEF HistoryInv, TypeOK
<1>5. /\ messages \o u \in Seq(Range(messages \o u)) /\ Follow(messages \o u, toolNames)
      /\ Named(messages \o u)
      /\ AnswersIn(messages \o u, Len(messages \o u)) = AnswersIn(messages, Len(messages))
      /\ Made(messages \o u, history)
  BY TurnIsAdded DEF HistoryInv
<1>6. AnswersIn(history, next - 1) = AnswersIn(history, next)
  <2>1. /\ next - 1 \in Nat /\ next \in Nat /\ next - 1 <= next
        /\ \A k \in next - 1 + 1..next : history[k].role # "assistant"
    BY <1>1, <1>2, MaxMessagesAssumption
  <2> QED BY <2>1, OthersDoNotCount
<1>7. AnswersIn(messages', Len(messages')) = AnswersIn(history', next' - 1)
  <2>1. next' - 1 = next
    BY <1>1, <1>2, MaxMessagesAssumption
  <2> QED BY <1>1, <1>5, <1>6, <2>1 DEF HistoryInv
<1> QED BY <1>1, <1>4, <1>5, <1>7 DEF HistoryInv

\* A system message becomes one user message.
LEMMA ConvertSystemKeeps ==
    ASSUME HistoryInv, ConvertSystem
    PROVE  HistoryInv'
<1> DEFINE x == PiMessage("user", FlattenText(history[next].content), "", "", "")
           u == <<x>>
<1>1. x.role = "user"
  BY DEF PiMessage
<1>2. Converts("system", u) /\ UNCHANGED toolNames
  BY DEF ConvertSystem
<1> HIDE DEF x
<1>3. u \in Seq(Range(u)) /\ DOMAIN u = {1} /\ u[1] = x
  BY DEF Range
<1>4. TurnOf(u, toolNames)
  BY <1>1, <1>3 DEF TurnOf
<1> QED BY <1>2, <1>4, TurnKeeps

\* A user message becomes its turn, which takes its names from toolNames.
LEMMA ConvertUserKeeps ==
    ASSUME HistoryInv, ConvertUser
    PROVE  HistoryInv'
<1>1. Converts("user", UserTurn(history[next], withImages, toolNames)) /\ UNCHANGED toolNames
  BY DEF ConvertUser
<1>2. history[next] \in HarnessMessages /\ history[next].role = "user"
  <2>1. history \in Seq(HarnessMessages) /\ next \in 1..Len(history)
    BY <1>1, MaxMessagesAssumption, LenProperties DEF HistoryInv, TypeOK, Converts
  <2> QED BY <1>1, <2>1, ElementOfSeq DEF Converts
<1>3. TurnOf(UserTurn(history[next], withImages, toolNames), toolNames)
  BY <1>2, ConvertedUser
<1> QED BY <1>1, <1>3, TurnKeeps

\* An assistant message is the only one that brings calls and is paired.
LEMMA ConvertAssistantKeeps ==
    ASSUME HistoryInv, ConvertAssistant
    PROVE  HistoryInv'
<1> DEFINE a == ToPiAssistant(history[next])
           d == messages \o <<a>>
<1>1. /\ messages' = d /\ next' = next + 1 /\ history[next].role = "assistant"
      /\ next <= Len(history) /\ toolNames' = NamesAfter(a, toolNames)
      /\ UNCHANGED <<history, stage, withImages, sent>>
  BY DEF ConvertAssistant, Converts
<1>2. /\ history \in Seq(HarnessMessages) /\ Len(history) \in Nat /\ next \in 1..Len(history)
      /\ Len(history) <= MaxMessages /\ history[next] \in HarnessMessages
  <2>1. history \in Seq(HarnessMessages) /\ Len(history) \in Nat /\ next \in 1..Len(history)
    BY <1>1, MaxMessagesAssumption, LenProperties DEF HistoryInv, TypeOK
  <2> QED BY <2>1, ElementOfSeq DEF HistoryInv, TypeOK
<1>3. /\ a.role = "assistant"
      /\ \E n \in Nat : DOMAIN a.content = 1..n
      /\ \A k \in DOMAIN a.content :
            a.content[k].type = "toolCall" => a.content[k].name \in ToolNames
  BY <1>1, <1>2, ConvertedAnswer
<1> HIDE DEF a
<1>4. PICK n \in Nat : DOMAIN a.content = 1..n
  BY <1>3
<1>5. NamesAfter(a, toolNames) \in [CallIds -> ToolNames \cup {"unknown"}]
  <2> SUFFICES ASSUME NEW id \in CallIds
               PROVE  NamesAfter(a, toolNames)[id] \in ToolNames \cup {"unknown"}
    BY DEF NamesAfter
  <2> DEFINE called == {i \in DOMAIN a.content : a.content[i].type = "toolCall"
                                                 /\ a.content[i].id = id}
             last == CHOOSE i \in called : \A j \in called : j <= i
  <2>1. NamesAfter(a, toolNames)[id] = IF called = {} THEN toolNames[id] ELSE a.content[last].name
    BY DEF NamesAfter
  <2>2. called \subseteq 1..n
    BY <1>4
  <2>3. called # {} => last \in called
    <3>1. called # {} => \E i \in called : \A j \in called : j <= i
      BY <2>2, GreatestNumber
    <3> QED BY <3>1
  <2>4. called # {} => a.content[last].name \in ToolNames
    BY <2>3, <1>3
  <2>5. toolNames[id] \in ToolNames \cup {"unknown"}
    BY DEF HistoryInv, TypeOK
  <2> QED BY <2>1, <2>4, <2>5
<1>6. TypeOK' /\ next' <= Len(history') + 1
  <2>1. next' \in 1..MaxMessages + 1 /\ next' <= Len(history') + 1
    BY <1>1, <1>2, MaxMessagesAssumption
  <2> QED BY <1>1, <1>5, <2>1 DEF HistoryInv, TypeOK
<1>7. /\ d \in Seq(Range(d)) /\ Follow(d, NamesAfter(a, toolNames)) /\ Named(d)
      /\ Len(d) = Len(messages) + 1
      /\ \A i \in 1..Len(messages) : d[i] = messages[i]
      /\ d[Len(messages) + 1] = a
  BY <1>3, <1>4, AnswerIsAdded DEF HistoryInv
<1> HIDE DEF d
<1>8. AnswersIn(d, Len(d)) = AnswersIn(history, next) /\ Made(d, history)
  <2>1. /\ messages \in Seq(Range(messages)) /\ Made(messages, history)
        /\ AnswersIn(messages, Len(messages)) = AnswersIn(history, next - 1)
    BY DEF HistoryInv
  <2>2. d[Len(messages) + 1] = ToPiAssistant(history[next])
        /\ ToPiAssistant(history[next]).role = "assistant"
    BY <1>3, <1>7 DEF a
  <2> QED BY <1>1, <1>2, <1>7, <2>1, <2>2, AnswerIsPaired
<1>9. AnswersIn(messages', Len(messages')) = AnswersIn(history', next' - 1)
  <2>1. next' - 1 = next
    BY <1>1, <1>2
  <2> QED BY <1>1, <1>8, <2>1
<1> QED BY <1>1, <1>6, <1>7, <1>8, <1>9 DEF HistoryInv

\* So does every step; the others touch neither the context nor the loop.
LEMMA InvStays == HistoryInv /\ [Next]_vars => HistoryInv'
<1> SUFFICES ASSUME HistoryInv, [Next]_vars PROVE HistoryInv'
  OBVIOUS
<1>1. ASSUME NEW m \in HarnessMessages, Say(m) PROVE HistoryInv'
  BY <1>1, SayKeeps
<1>2. CASE Call
  BY <1>2, CallKeeps
<1>3. CASE Refuse \/ ImagesReady \/ Send
  <2>1. /\ stage' \in {"resting", "preparing", "converting", "refused"}
        /\ UNCHANGED <<history, withImages, next, toolNames, messages>>
    BY <1>3 DEF Refuse, ImagesReady, Send
  <2>2. TypeOK'
    BY <2>1 DEF HistoryInv, TypeOK
  <2> QED BY <2>1, <2>2 DEF HistoryInv
<1>4. CASE ConvertSystem
  BY <1>4, ConvertSystemKeeps
<1>5. CASE ConvertAssistant
  BY <1>5, ConvertAssistantKeeps
<1>6. CASE ConvertUser
  BY <1>6, ConvertUserKeeps
<1>7. CASE UNCHANGED vars
  <2>1. TypeOK'
    BY <1>7 DEF HistoryInv, TypeOK, vars
  <2> QED BY <1>7, <2>1 DEF HistoryInv, vars
<1> QED BY <1>1, <1>2, <1>3, <1>4, <1>5, <1>6, <1>7 DEF Next

\* It is an invariant.
LEMMA Invariance == Spec => []HistoryInv
BY InvStart, InvStays, PTL DEF Spec

-----------------------------------------------------------------------------
(* The properties. *)

\* The types, for every instance: the loop stays inside the history and remembers a name
\* or "unknown" for every id (toolNames of textOnlyContext and
\* toPiContextWithImages).
THEOREM TypeCorrect == Spec => []TypeOK
<1>1. HistoryInv => TypeOK
  BY DEF HistoryInv
<1> QED BY <1>1, Invariance, PTL

\* A tool result bears the name of the last call with its id in the context before it,
\* and of no call of an earlier request: toolNames is refilled by every conversion, from
\* the converted blocks, replayed or degraded.
THEOREM NamesCarryOver == Spec => []ResultsAreNamed
<1>1. HistoryInv => ResultsAreNamed
  BY DEF HistoryInv, Named, ResultsAreNamed
<1> QED BY <1>1, Invariance, PTL

\* What a pair is.
LEMMA PairIsMade ==
    ASSUME HistoryInv, NEW p \in Pairs
    PROVE  /\ messages[p[1]] = ToPiAssistant(history[p[2]])
           /\ history[p[2]] \in HarnessMessages /\ history[p[2]].role = "assistant"
<1>1. /\ p[1] \in DOMAIN messages /\ p[2] \in DOMAIN history
      /\ messages[p[1]].role = "assistant" /\ history[p[2]].role = "assistant"
      /\ AnswersIn(messages, p[1]) = AnswersIn(history, p[2])
  BY DEF Pairs
<1>2. messages[p[1]] = ToPiAssistant(history[p[2]])
  BY <1>1 DEF HistoryInv, Made
<1>3. history[p[2]] \in HarnessMessages
  BY <1>1, LenProperties, ElementOfSeq DEF HistoryInv, TypeOK
<1> QED BY <1>1, <1>2, <1>3

\* An answer kept as it was comes back as the model gave it, and whatever became of the
\* metadata a signature stands only beside what was signed (toPiAssistant,
\* replayedAssistant and readReplayState).
THEOREM SignaturesComeBack == Spec => []AnswersComeBack
<1>1. ASSUME HistoryInv, NEW p \in Pairs PROVE ComesBack(messages[p[1]], history[p[2]])
  BY <1>1, PairIsMade, ConvertedAnswer
<1>2. HistoryInv => AnswersComeBack
  BY <1>1 DEF AnswersComeBack
<1> QED BY <1>2, Invariance, PTL

\* Every answer the loop has been through is in the context, with all its text, reasoning
\* and calls in their order, also when its metadata is rejected.
THEOREM AnswersSurvive == Spec => []NothingIsLost
<1>1. ASSUME HistoryInv, NEW p \in Pairs PROVE Survives(messages[p[1]], history[p[2]])
  BY <1>1, PairIsMade, ConvertedAnswer
<1>2. HistoryInv => AnswersIn(messages, Len(messages)) = AnswersIn(history, next - 1)
  BY DEF HistoryInv
<1>3. HistoryInv => NothingIsLost
  BY <1>1, <1>2 DEF NothingIsLost
<1> QED BY <1>3, Invariance, PTL

-----------------------------------------------------------------------------
(* What one call sends and the next. *)

\* What the conversion of a message adds to the context, and what is remembered after it.
Added(m, images, names) ==
    IF m.role = "user" THEN UserTurn(m, images, names)
    ELSE IF m.role = "assistant" THEN <<ToPiAssistant(m)>>
    ELSE <<PiMessage("user", FlattenText(m.content), "", "", "")>>
Known(m, names) ==
    IF m.role = "assistant" THEN NamesAfter(ToPiAssistant(m), names) ELSE names

\* s is the beginning of t.
Begins(s, t) == Len(s) <= Len(t) /\ \A i \in 1..Len(s) : s[i] = t[i]

\* run[i] is the context and the names after the first i messages of h; every context on
\* the way is the beginning of the last.
Run(run, h, k, images) ==
    /\ run[0] = <<<<>>, NoNames>>
    /\ \A i \in 1..k :
          run[i] = <<run[i - 1][1] \o Added(h[i], images, run[i - 1][2]),
                     Known(h[i], run[i - 1][2])>>
    /\ \A i \in 0..k : Begins(run[i][1], run[k][1])

\* This context and these names are what the first k messages of h lead to.
Reached(h, k, images, context, names) ==
    \E run : Run(run, h, k, images) /\ run[k] = <<context, names>>

\* The run before the first message.
LEMMA RunStarts ==
    ASSUME NEW h, NEW images
    PROVE  Reached(h, 0, images, <<>>, NoNames)
<1> DEFINE r == [i \in 0..0 |-> <<<<>>, NoNames>>]
<1>1. r[0] = <<<<>>, NoNames>> /\ r[0][1] = <<>>
  OBVIOUS
<1> HIDE DEF r
<1>2. Begins(<<>>, <<>>)
  BY DEF Begins
<1>3. \A i \in 0..0 : i = 0
  OBVIOUS
<1>4. Run(r, h, 0, images)
  BY <1>1, <1>2, <1>3 DEF Run
<1> QED BY <1>1, <1>4 DEF Reached

\* One more message.
LEMMA RunGoesOn ==
    ASSUME NEW h, NEW k \in Nat, NEW images, NEW c, NEW names,
           Reached(h, k, images, c, names), c \in Seq(Range(c)),
           NEW a, a = Added(h[k + 1], images, names), a \in Seq(Range(a))
    PROVE  Reached(h, k + 1, images, c \o a, Known(h[k + 1], names))
<1>0. PICK f : Run(f, h, k, images) /\ f[k] = <<c, names>>
  BY DEF Reached
<1> DEFINE last == <<c \o a, Known(h[k + 1], names)>>
           r == [i \in 0..k + 1 |-> IF i <= k THEN f[i] ELSE last]
<1>1. last[1] = c \o a /\ f[k][1] = c /\ f[k][2] = names
  BY <1>0
<1> HIDE DEF last
<1>2. r[k + 1] = last /\ \A i \in 0..k : r[i] = f[i]
  OBVIOUS
<1> HIDE DEF r
<1>3. Len(c) <= Len(c \o a) /\ (\A i \in 1..Len(c) : (c \o a)[i] = c[i]) /\ Len(c) \in Nat
      /\ Len(c \o a) \in Nat
  BY Joined
<1>4. ASSUME NEW i \in 1..k + 1
      PROVE  r[i] = <<r[i - 1][1] \o Added(h[i], images, r[i - 1][2]), Known(h[i], r[i - 1][2])>>
  <2>1. CASE i = k + 1
    <3>1. r[i - 1] = f[k]
      BY <1>2, <2>1
    <3>2. r[i] = last
      BY <1>2, <2>1
    <3> QED BY <1>1, <2>1, <3>1, <3>2 DEF last
  <2>2. CASE i # k + 1
    <3>1. i \in 1..k /\ i - 1 \in 0..k /\ i \in 0..k
      BY <2>2
    <3>2. r[i] = f[i] /\ r[i - 1] = f[i - 1]
      BY <1>2, <3>1
    <3>3. f[i] = <<f[i - 1][1] \o Added(h[i], images, f[i - 1][2]), Known(h[i], f[i - 1][2])>>
      BY <1>0, <3>1 DEF Run
    <3> QED BY <3>2, <3>3
  <2> QED BY <2>1, <2>2
<1>5. ASSUME NEW i \in 0..k + 1 PROVE Begins(r[i][1], r[k + 1][1])
  <2>1. CASE i = k + 1
    <3>1. r[i][1] = c \o a /\ r[k + 1][1] = c \o a
      BY <1>1, <1>2, <2>1
    <3> QED BY <1>3, <3>1 DEF Begins
  <2>2. CASE i # k + 1
    <3>1. i \in 0..k
      BY <2>2
    <3>2. r[i][1] = f[i][1] /\ r[k + 1][1] = c \o a
      BY <1>1, <1>2, <3>1
    <3>3. Begins(f[i][1], c)
      BY <1>0, <1>1, <3>1 DEF Run
    <3> DEFINE s == f[i][1]
    <3>4. Len(s) <= Len(c) /\ \A j \in 1..Len(s) : s[j] = c[j]
      BY <3>3 DEF Begins
    <3> HIDE DEF s
    <3>5. Begins(s, c \o a)
      BY <1>3, <3>4 DEF Begins
    <3> QED BY <3>2, <3>5 DEF s
  <2> QED BY <2>1, <2>2
<1>6. r[0] = <<<<>>, NoNames>>
  BY <1>0, <1>2 DEF Run
<1>7. Run(r, h, k + 1, images)
  BY <1>4, <1>5, <1>6 DEF Run
<1> QED BY <1>2, <1>7 DEF last, Reached

\* The messages after the last one it has been through do not matter.
LEMMA RunKeeps ==
    ASSUME NEW f, NEW h, NEW g, NEW k \in Nat, NEW images, Run(f, h, k, images),
           \A i \in 1..k : g[i] = h[i]
    PROVE  Run(f, g, k, images)
BY DEF Run

\* A message adds the same whichever of two converters takes it.
AddTheSame(m, v, w) == \A names : Added(m, v, names) = Added(m, w, names)

\* Conversions that add the same go the same way, as far as both go.
LEMMA RunsAgree ==
    ASSUME NEW f, NEW h, NEW k \in Nat, NEW v, NEW w, Run(f, h, k, v),
           NEW e, NEW n \in Nat, k <= n, Run(e, h, n, w),
           \A i \in 1..k : AddTheSame(h[i], v, w)
    PROVE  f[k] = e[k]
<1> DEFINE Bad == {i \in 0..k : f[i] # e[i]}
<1> SUFFICES ASSUME Bad # {} PROVE FALSE
  BY DEF Bad
<1>1. Bad \subseteq Nat
  OBVIOUS
<1>2. PICK x \in Bad : \A y \in Bad : x <= y
  BY <1>1, LeastNumber
<1>3. x \in 0..k /\ f[x] # e[x]
  BY <1>2
<1>4. f[0] = e[0]
  BY DEF Run
<1>5. x \in 1..k /\ x \in 1..n /\ x - 1 \in 0..k /\ ~(x <= x - 1)
  BY <1>3, <1>4
<1>6. f[x - 1] = e[x - 1]
  BY <1>2, <1>5
<1> DEFINE p == f[x - 1]
<1>7. f[x] = <<p[1] \o Added(h[x], v, p[2]), Known(h[x], p[2])>>
  BY <1>5 DEF Run
<1>8. e[x] = <<p[1] \o Added(h[x], w, p[2]), Known(h[x], p[2])>>
  BY <1>5, <1>6 DEF Run
<1>9. Added(h[x], v, p[2]) = Added(h[x], w, p[2])
  BY <1>5 DEF AddTheSame
<1> HIDE DEF p, Bad
<1> QED BY <1>3, <1>7, <1>8, <1>9

\* What holds no image adds the same by either converter.
LEMMA ConvertersAddTheSame ==
    ASSUME ConvertersAgree, NEW m \in HarnessMessages, ~HasImage(m.content)
    PROVE  AddTheSame(m, TRUE, FALSE)
<1> SUFFICES ASSUME NEW names PROVE Added(m, TRUE, names) = Added(m, FALSE, names)
  BY DEF AddTheSame
<1>1. CASE m.role # "user"
  BY <1>1 DEF Added
<1>2. CASE m.role = "user"
  <2> DEFINE where == {i \in DOMAIN m.content : m.content[i].type \in {"tool-result"}}
             results == OfType(m.content, {"tool-result"})
             n == Len(m.content)
  <2>1. m.content \in Turns
    BY <1>2, UserMessage
  <2>2. n \in Nat /\ DOMAIN m.content = 1..n
    BY <2>1, ResultsAssumption, LenProperties
  <2>3. Said(m, TRUE) = Said(m, FALSE)
    BY <2>1 DEF ConvertersAgree, Said
  <2>4. results = Picked(m.content, where)
    BY DEF OfType
  <2>5. where \subseteq 1..n
    BY <2>2
  <2>6. ASSUME NEW i \in where
        PROVE  Output(m.content[i], TRUE) = Output(m.content[i], FALSE)
    <3>1. /\ m.content[i].type = "tool-result" /\ m.content[i] \in Range(m.content)
          /\ i \in DOMAIN m.content
      BY DEF Range
    <3>2. m.content[i] \in Results
      BY <2>1, <3>1, ResultsAssumption
    <3>3. ~ShowsImage[m.content[i]]
      BY <3>1 DEF HasImage
    <3>4. ResultContent[m.content[i]] = AsBlocks(ToolResultText[m.content[i]])
      BY <3>2, <3>3 DEF ConvertersAgree
    <3> QED BY <3>4 DEF Output
  <2> HIDE DEF where, n
  <2>7. /\ DOMAIN Picked(m.content, where) = 1..Cardinality(where)
        /\ StandsThere(m.content, where)
    BY <2>2, <2>5, PickedElements
  <2>8. ASSUME NEW k \in DOMAIN results
        PROVE  Output(results[k], TRUE) = Output(results[k], FALSE)
    <3>1. PICK i \in where : Picked(m.content, where)[k] = m.content[i]
      BY <2>4, <2>7 DEF StandsThere
    <3> QED BY <2>4, <2>6, <3>1
  <2>9. UserTurn(m, TRUE, names) = UserTurn(m, FALSE, names)
    <3> DEFINE t(w) == [i \in DOMAIN results |->
                  PiMessage("toolResult", Output(results[i], w), results[i].id,
                            names[results[i].id], "")]
               s(w) == IF Said(m, w) # <<>> \/ results = <<>>
                       THEN <<PiMessage("user", Said(m, w), "", "", "")>> ELSE <<>>
    <3>1. t(TRUE) = t(FALSE)
      BY <2>8
    <3>2. s(TRUE) = s(FALSE)
      BY <2>3
    <3>3. UserTurn(m, TRUE, names) = s(TRUE) \o t(TRUE)
      BY DEF UserTurn
    <3>4. UserTurn(m, FALSE, names) = s(FALSE) \o t(FALSE)
      BY DEF UserTurn
    <3> HIDE DEF s, t
    <3> QED BY <3>1, <3>2, <3>3, <3>4
  <2> QED BY <1>2, <2>9 DEF Added
<1> QED BY <1>1, <1>2

\* While a call is converted its converter is the one the history asks for, and the
\* context is what a run over the messages behind the loop has made.
Converting ==
    /\ stage \in {"preparing", "converting"} => withImages = ContainsImage
    /\ Reached(history, next - 1, withImages, messages, toolNames)

\* What was sent is what a run over the beginning of the history has made, by the
\* converter that beginning asks for.
SentIsMade ==
    \E k \in 0..Len(history) : \E images, run :
        /\ Run(run, history, k, images) /\ run[k][1] = sent
        /\ images = \E i \in 1..k : HasImage(history[i].content)

PrefixInv == HistoryInv /\ Converting /\ SentIsMade

\* What was sent is still the beginning of what is sent next.
LEMMA SentGrows ==
    ASSUME ConvertersAgree, PrefixInv, Send
    PROVE  IsPrefix(sent, sent') /\ Converting' /\ SentIsMade'
<1> DEFINE n == Len(history)
<1>1. /\ next > n /\ sent' = messages /\ stage = "converting" /\ history' = history
  BY DEF Send
<1>2. /\ history \in Seq(HarnessMessages) /\ n \in Nat /\ next = n + 1 /\ next - 1 = n
      /\ DOMAIN history = 1..n
      /\ withImages \in BOOLEAN
  <2>1. history \in Seq(HarnessMessages) /\ next \in 1..MaxMessages + 1 /\ next <= n + 1
        /\ withImages \in BOOLEAN
    BY DEF PrefixInv, HistoryInv, TypeOK
  <2>2. n \in Nat /\ DOMAIN history = 1..n
    BY <2>1, LenProperties
  <2> QED BY <1>1, <2>1, <2>2, MaxMessagesAssumption
<1>3. withImages = \E i \in 1..n : HasImage(history[i].content)
  BY <1>1, <1>2 DEF PrefixInv, Converting, ContainsImage
<1> HIDE DEF n
<1>4. PICK e : Run(e, history, n, withImages) /\ e[n] = <<messages, toolNames>>
  BY <1>2 DEF PrefixInv, Converting, Reached
<1>5. PICK k \in 0..n : \E v, f :
          /\ Run(f, history, k, v) /\ f[k][1] = sent
          /\ v = \E i \in 1..k : HasImage(history[i].content)
  BY DEF PrefixInv, SentIsMade, n
<1>0. PICK v, f :
          /\ Run(f, history, k, v) /\ f[k][1] = sent
          /\ v = \E i \in 1..k : HasImage(history[i].content)
  BY <1>5
<1>6. k \in Nat /\ k <= n /\ 1..k \subseteq 1..n
  BY <1>2, <1>5
<1>7. ASSUME NEW i \in 1..k
      PROVE  AddTheSame(history[i], v, withImages)
  <2>1. CASE v = withImages
    BY <2>1 DEF AddTheSame
  <2>2. CASE v # withImages
    <3>1. v = FALSE /\ withImages = TRUE
      BY <1>2, <1>3, <1>0, <1>6, <2>2
    <3>2. ~HasImage(history[i].content)
      BY <1>0, <3>1
    <3>3. history[i] \in HarnessMessages
      BY <1>2, <1>6, ElementOfSeq DEF n
    <3> QED BY <3>1, <3>2, <3>3, ConvertersAddTheSame DEF AddTheSame
  <2> QED BY <2>1, <2>2
<1>8. f[k] = e[k]
  <2>1. Run(f, history, k, v) /\ Run(e, history, n, withImages)
    BY <1>4, <1>0
  <2>2. k \in Nat /\ n \in Nat /\ k <= n
    BY <1>2, <1>6
  <2>3. \A i \in 1..k : AddTheSame(history[i], v, withImages)
    BY <1>7
  <2> QED BY ONLY <2>1, <2>2, <2>3, RunsAgree
<1>9. Begins(sent, messages)
  <2>1. e[k][1] = sent /\ e[n][1] = messages /\ k \in 0..n
    BY <1>4, <1>0, <1>8
  <2> QED BY <1>4, <2>1 DEF Run
<1>10. IsPrefix(sent, messages)
  <2>1. messages \in Seq(Range(messages))
    BY DEF PrefixInv, HistoryInv
  <2>2. Len(sent) <= Len(messages) /\ \A i \in 1..Len(sent) : sent[i] = messages[i]
    BY <1>9 DEF Begins
  <2>3. SubSeq(sent, 1, Len(sent)) = SubSeq(messages, 1, Len(sent))
    BY <2>1, <2>2
  <2> QED BY <2>2, <2>3 DEF IsPrefix
<1>11. SentIsMade'
  <2>1. n \in 0..n /\ e[n][1] = messages
    BY <1>2, <1>4
  <2> QED BY <1>1, <1>2, <1>3, <1>4, <2>1 DEF SentIsMade, n
<1>12. Converting'
  BY DEF Send, PrefixInv, Converting
<1> QED BY <1>1, <1>10, <1>11, <1>12

\* The initial state.
LEMMA PrefixStart == Init => Converting /\ SentIsMade
<1> SUFFICES ASSUME Init PROVE Converting /\ SentIsMade
  OBVIOUS
<1>1. /\ history = <<>> /\ next - 1 = 0 /\ messages = <<>> /\ toolNames = NoNames /\ sent = <<>>
      /\ stage = "resting"
  BY DEF Init
<1>2. Reached(history, 0, withImages, <<>>, NoNames)
  BY RunStarts
<1>3. Converting
  BY <1>1, <1>2 DEF Converting
<1>4. PICK f : Run(f, history, 0, FALSE) /\ f[0] = <<<<>>, NoNames>>
  BY RunStarts DEF Reached
<1>5. 0 \in 0..Len(history) /\ f[0][1] = sent
  BY <1>1, <1>4
<1>6. FALSE = \E i \in 1..0 : HasImage(history[i].content)
  OBVIOUS
<1>7. SentIsMade
  BY <1>4, <1>5, <1>6 DEF SentIsMade
<1> QED BY <1>3, <1>7

\* What is said extends the history behind both runs.
LEMMA SayLeavesRuns ==
    ASSUME PrefixInv, NEW m \in HarnessMessages, Say(m)
    PROVE  Converting' /\ SentIsMade'
<1>1. /\ history' = Append(history, m) /\ stage \in {"resting", "refused"}
      /\ UNCHANGED <<stage, withImages, next, toolNames, messages, sent>>
  BY DEF Say
<1>2. /\ history \in Seq(HarnessMessages) /\ Len(history) \in Nat /\ next - 1 \in 0..Len(history)
  <2>1. history \in Seq(HarnessMessages) /\ next \in 1..MaxMessages + 1 /\ next <= Len(history) + 1
    BY DEF PrefixInv, HistoryInv, TypeOK
  <2>2. Len(history) \in Nat
    BY <2>1, LenProperties
  <2> QED BY <2>1, <2>2, MaxMessagesAssumption
<1>3. Len(history') = Len(history) + 1 /\ \A i \in 1..Len(history) : history'[i] = history[i]
  BY <1>1, <1>2, AppendProperties
<1>4. Converting'
  <2>1. PICK run : /\ Run(run, history, next - 1, withImages)
                   /\ run[next - 1] = <<messages, toolNames>>
    BY DEF PrefixInv, Converting, Reached
  <2>2. next - 1 \in Nat /\ \A i \in 1..next - 1 : history'[i] = history[i]
    BY <1>2, <1>3
  <2>3. Run(run, history', next - 1, withImages)
    BY <2>1, <2>2, RunKeeps
  <2>4. stage' \notin {"preparing", "converting"}
    BY <1>1
  <2> QED BY <1>1, <2>1, <2>3, <2>4 DEF Converting, Reached
<1>5. SentIsMade'
  <2>1. PICK k \in 0..Len(history) : \E v, f :
            /\ Run(f, history, k, v) /\ f[k][1] = sent
            /\ v = \E i \in 1..k : HasImage(history[i].content)
    BY DEF PrefixInv, SentIsMade
  <2>2. PICK v, f :
            /\ Run(f, history, k, v) /\ f[k][1] = sent
            /\ v = \E i \in 1..k : HasImage(history[i].content)
    BY <2>1
  <2>3. k \in Nat /\ k \in 0..Len(history') /\ \A i \in 1..k : history'[i] = history[i]
    BY <1>2, <1>3, <2>1
  <2>4. Run(f, history', k, v)
    BY <2>2, <2>3, RunKeeps
  <2>5. v = \E i \in 1..k : HasImage(history'[i].content)
    BY <2>2, <2>3
  <2>6. f[k][1] = sent'
    BY <1>1, <2>2
  <2> QED BY <2>3, <2>4, <2>5, <2>6 DEF SentIsMade
<1> QED BY <1>4, <1>5

\* Steps that touch neither the history nor what was sent.
LEMMA SentStays ==
    ASSUME SentIsMade, history' = history, sent' = sent
    PROVE  SentIsMade'
BY DEF SentIsMade

\* A message is converted.
LEMMA ConvertsGoesOn ==
    ASSUME PrefixInv, NEW role, NEW a, Converts(role, a),
           a = Added(history[next], withImages, toolNames), a \in Seq(Range(a)),
           toolNames' = Known(history[next], toolNames)
    PROVE  Converting' /\ SentIsMade'
<1>1. /\ stage = "converting" /\ messages' = messages \o a /\ next' = next + 1
      /\ UNCHANGED <<history, stage, withImages, sent>>
  BY DEF Converts
<1>2. next - 1 \in Nat /\ next - 1 + 1 = next /\ next' - 1 = next
  BY <1>1, MaxMessagesAssumption DEF PrefixInv, HistoryInv, TypeOK
<1>3. /\ messages \in Seq(Range(messages))
      /\ Reached(history, next - 1, withImages, messages, toolNames)
  BY DEF PrefixInv, HistoryInv, Converting
<1>4. Reached(history, next, withImages, messages', toolNames')
  <2> DEFINE k == next - 1
  <2>1. k \in Nat /\ a = Added(history[k + 1], withImages, toolNames)
    BY <1>2
  <2>2. Reached(history, k, withImages, messages, toolNames)
    BY <1>3
  <2> HIDE DEF k
  <2>3. Reached(history, k + 1, withImages, messages \o a, Known(history[k + 1], toolNames))
    BY <1>3, <2>1, <2>2, RunGoesOn
  <2>4. k + 1 = next
    BY <1>2 DEF k
  <2> QED BY <1>1, <2>3, <2>4
<1>5. ContainsImage' = ContainsImage
  BY <1>1 DEF ContainsImage
<1>6. Converting'
  BY <1>1, <1>2, <1>4, <1>5 DEF Converting, PrefixInv
<1> QED BY <1>1, <1>6, SentStays DEF PrefixInv

\* Every step of the loop is one.
LEMMA ConversionGoesOn ==
    ASSUME PrefixInv, ConvertSystem \/ ConvertAssistant \/ ConvertUser
    PROVE  Converting' /\ SentIsMade'
<1> DEFINE m == history[next]
<1>1. ASSUME NEW x PROVE <<x>> \in Seq(Range(<<x>>))
  BY DEF Range
<1>2. CASE ConvertSystem
  <2> DEFINE a == <<PiMessage("user", FlattenText(m.content), "", "", "")>>
  <2>1. Converts("system", a) /\ toolNames' = toolNames /\ m.role = "system"
    BY <1>2 DEF ConvertSystem, Converts
  <2>2. a = Added(m, withImages, toolNames) /\ toolNames = Known(m, toolNames)
    BY <2>1 DEF Added, Known
  <2>3. a \in Seq(Range(a))
    BY <1>1
  <2> HIDE DEF a
  <2> QED BY <2>1, <2>2, <2>3, ConvertsGoesOn
<1>3. CASE ConvertAssistant
  <2> DEFINE a == <<ToPiAssistant(m)>>
  <2>1. Converts("assistant", a) /\ toolNames' = NamesAfter(ToPiAssistant(m), toolNames)
        /\ m.role = "assistant"
    BY <1>3 DEF ConvertAssistant, Converts
  <2>2. a = Added(m, withImages, toolNames) /\ toolNames' = Known(m, toolNames)
    BY <2>1 DEF Added, Known
  <2>3. a \in Seq(Range(a))
    BY <1>1
  <2> HIDE DEF a
  <2> QED BY <2>1, <2>2, <2>3, ConvertsGoesOn
<1>4. CASE ConvertUser
  <2> DEFINE a == UserTurn(m, withImages, toolNames)
  <2>1. Converts("user", a) /\ toolNames' = toolNames /\ m.role = "user" /\ next <= Len(history)
    BY <1>4 DEF ConvertUser, Converts
  <2>2. a = Added(m, withImages, toolNames) /\ toolNames = Known(m, toolNames)
    BY <2>1 DEF Added, Known
  <2>3. m \in HarnessMessages
    <3>1. history \in Seq(HarnessMessages) /\ next \in 1..Len(history)
      BY <2>1, MaxMessagesAssumption, LenProperties DEF PrefixInv, HistoryInv, TypeOK
    <3> QED BY <3>1, ElementOfSeq
  <2>4. a \in Seq(Range(a))
    BY <2>1, <2>3, ConvertedUser DEF TurnOf
  <2> HIDE DEF a
  <2> QED BY <2>1, <2>2, <2>4, ConvertsGoesOn
<1> QED BY <1>2, <1>3, <1>4

\* The invariant is kept, and the property holds of the step.
LEMMA PrefixStep ==
    ASSUME ConvertersAgree, PrefixInv, [Next]_vars
    PROVE  /\ Converting' /\ SentIsMade'
           /\ sent' # sent => IsPrefix(sent, sent')
<1>1. ASSUME NEW m \in HarnessMessages, Say(m)
      PROVE  Converting' /\ SentIsMade' /\ sent' = sent
  BY <1>1, SayLeavesRuns DEF Say
<1>2. CASE Call
  <2>1. /\ history' = history /\ sent' = sent /\ next' - 1 = 0 /\ messages' = <<>>
        /\ toolNames' = NoNames /\ withImages' = ContainsImage
    BY <1>2 DEF Call
  <2>2. ContainsImage' = ContainsImage
    BY <2>1 DEF ContainsImage
  <2>3. Reached(history, 0, ContainsImage, <<>>, NoNames)
    BY RunStarts
  <2>4. Converting'
    BY <2>1, <2>2, <2>3 DEF Converting
  <2> QED BY <2>1, <2>4, SentStays DEF PrefixInv
<1>3. CASE Refuse \/ ImagesReady
  <2>1. UNCHANGED <<history, withImages, next, toolNames, messages, sent>>
        /\ stage = "preparing"
    BY <1>3 DEF Refuse, ImagesReady
  <2>2. ContainsImage' = ContainsImage
    BY <2>1 DEF ContainsImage
  <2>3. Converting'
    BY <2>1, <2>2 DEF Converting, PrefixInv
  <2> QED BY <2>1, <2>3, SentStays DEF PrefixInv
<1>4. CASE ConvertSystem \/ ConvertAssistant \/ ConvertUser
  <2>1. sent' = sent
    BY <1>4 DEF ConvertSystem, ConvertAssistant, ConvertUser, Converts
  <2> QED BY <1>4, <2>1, ConversionGoesOn
<1>5. CASE Send
  BY <1>5, SentGrows
<1>6. CASE UNCHANGED vars
  <2>1. UNCHANGED <<history, stage, withImages, next, toolNames, messages, sent>>
    BY <1>6 DEF vars
  <2>2. ContainsImage' = ContainsImage
    BY <2>1 DEF ContainsImage
  <2>3. Converting'
    BY <2>1, <2>2 DEF Converting, PrefixInv
  <2> QED BY <2>1, <2>3, SentStays DEF PrefixInv
<1> QED BY <1>1, <1>2, <1>3, <1>4, <1>5, <1>6 DEF Next

\* While a conversation only grows, what a model has been sent stays the beginning of
\* what it is sent next, also when the first image changes the converter
\* (streamWithSnapshot, textOnlyContext and toPiContextWithImages), provided the two
\* converters make the same of what holds no image.
THEOREM PrefixStays ==
    ASSUME ConvertersAgree
    PROVE  Spec => PrefixIsStable
<1>1. Init => PrefixInv
  BY InvStart, PrefixStart DEF PrefixInv
<1>2. PrefixInv /\ [Next]_vars => PrefixInv'
  BY InvStays, PrefixStep DEF PrefixInv
<1>3. PrefixInv /\ [Next]_vars => [sent' # sent => IsPrefix(sent, sent')]_vars
  BY PrefixStep
<1> QED BY <1>1, <1>2, <1>3, PTL DEF Spec, PrefixIsStable
=============================================================================
