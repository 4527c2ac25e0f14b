--------------------------- MODULE FramingProofs ---------------------------
(***************************************************************************)
(* What a deframer does to the bytes of one read, byte by byte.            *)
(***************************************************************************)
EXTENDS Framing, DataLemmas

\* The states of a deframer whose bytes are in B.
Deframers(B) == [buffer : Seq(B), frames : Seq(Seq(B))]

\* Deframing the read in is feeding its bytes one by one, through deframers of B.
FedByByte(B, buffer, in) ==
  \E t \in [0 .. Len(in) -> Deframers(B)] :
    /\ t[0] = [buffer |-> buffer, frames |-> << >>]
    /\ \A k \in 1 .. Len(in) : t[k] = Feed(t[k - 1], in[k])
    /\ Deframe(buffer, in) = t[Len(in)]

LEMMA FeedType ==
  ASSUME NEW B, NEW d \in Deframers(B), NEW c, Delimits(c) \/ c \in B
  PROVE  Feed(d, c) \in Deframers(B)
<1>1. d.buffer \in Seq(B) /\ d.frames \in Seq(Seq(B)) /\ DOMAIN d = {"buffer", "frames"}
  BY DEF Deframers
<1>2. CASE Delimits(c) /\ d.buffer = << >>
  BY <1>2 DEF Feed, End
<1>3. CASE Delimits(c) /\ d.buffer # << >>
  <2>1. Append(d.frames, d.buffer) \in Seq(Seq(B)) /\ << >> \in Seq(B)
    BY <1>1
  <2> QED BY <1>3, <2>1 DEF Feed, End, Deframers
<1>4. CASE ~Delimits(c)
  <2>1. Store(d.buffer, c) \in Seq(B)
    BY <1>1, <1>4 DEF Store
  <2>2. Feed(d, c) = [d EXCEPT !.buffer = Store(d.buffer, c)]
    BY <1>4 DEF Feed
  <2> QED BY <2>1, <2>2 DEF Deframers
<1> QED BY <1>2, <1>3, <1>4

\* Deframing is always that: the fold of the module visits the bytes in their order.
LEMMA DeframeTrace ==
  ASSUME NEW B, NEW buffer \in Seq(B), NEW S, NEW in \in Seq(S),
         \A c \in S : Delimits(c) \/ c \in B
  PROVE  FedByByte(B, buffer, in)
<1> DEFINE n == Len(in)
           D == Deframers(B)
           base == [buffer |-> buffer, frames |-> << >>]
           Iter(f) == [s \in SUBSET DOMAIN in |->
                         IF s = {} THEN base ELSE Feed(f[s \ {Max(s)}], in[Max(s)])]
           step == [k \in 1 .. n |-> [d \in D |-> Feed(d, in[k])]]
           iter == CHOOSE f : f = Iter(f)
<1>0. n \in Nat /\ DOMAIN in = 1 .. n
  OBVIOUS
<1>a. base \in D
  BY DEF Deframers
<1>b. step \in [1 .. n -> [D -> D]]
  <2>1. ASSUME NEW k \in 1 .. n, NEW d \in D PROVE Feed(d, in[k]) \in D
    <3>1. in[k] \in S
      OBVIOUS
    <3> QED BY <3>1, FeedType
  <2> HIDE DEF n, D
  <2> QED BY <2>1
<1> HIDE DEF D, base
<1>1. ASSUME NEW s \in SUBSET (1 .. n), s # {} PROVE Max(s) \in 1 .. n
  BY <1>0, <1>1, MaxIn
<1>2. iter = Iter(iter)
  <2>1. PICK f \in [SUBSET (1 .. n) -> D] : Folds(f, n, base, step)
    <3> HIDE DEF n, step
    <3> QED BY <1>0, <1>a, <1>b, FoldExists
  <2>2. ASSUME NEW s \in SUBSET (1 .. n), s # {}
        PROVE  step[Max(s)][f[s \ {Max(s)}]] = Feed(f[s \ {Max(s)}], in[Max(s)])
    BY <1>1, <2>2
  <2>3. f = Iter(f)
    <3> HIDE DEF step
    <3> QED BY <2>1, <2>2, <1>0 DEF Folds, FoldsAt
  <2> QED BY <2>3
<1>3. Deframe(buffer, in) = iter[DOMAIN in]
  BY DEF Deframe, FoldLeft, MapThenFoldSet, base
<1>4. PICK t \in [0 .. n -> D] : Trace(t, n, base, step) /\ t[n] = iter[1 .. n]
  <2>1. iter[{}] = base
    BY <1>2
  <2>2. ASSUME NEW s \in SUBSET (1 .. n), s # {}, iter[s \ {Max(s)}] \in D
        PROVE  iter[s] = step[Max(s)][iter[s \ {Max(s)}]]
    <3>1. iter[s] = Feed(iter[s \ {Max(s)}], in[Max(s)])
      <4> HIDE DEF iter
      <4> QED BY <1>0, <1>2, <2>2
    <3> HIDE DEF iter
    <3> QED BY <1>1, <2>2, <3>1
  <2>3. FoldsWithin(iter, n, D, base, step)
    <3> HIDE DEF iter, n, step
    <3> QED BY <2>1, <2>2 DEF FoldsWithin
  <2> HIDE DEF iter, n, step
  <2>4. EndsTrace(iter[1 .. n], n, D, base, step)
    BY <1>0, <1>a, <1>b, <2>3, FoldTrace
  <2> QED BY <2>4 DEF EndsTrace
<1>5. /\ t[0] = base
      /\ \A k \in 1 .. n : t[k] = Feed(t[k - 1], in[k])
  <2>1. ASSUME NEW k \in 1 .. n PROVE step[k][t[k - 1]] = Feed(t[k - 1], in[k])
    <3>1. k - 1 \in 0 .. n
      BY <1>0
    <3> QED BY <3>1
  <2> HIDE DEF step
  <2> QED BY <1>4, <2>1 DEF Trace
<1>6. Deframe(buffer, in) = t[n]
  BY <1>0, <1>3, <1>4
<1> QED BY <1>4, <1>5, <1>6 DEF D, base, FedByByte
=============================================================================
