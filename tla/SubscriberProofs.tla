-------------------------- MODULE SubscriberProofs --------------------------
(* The safety of a session between a Subscriber, or any other client, and the *)
(* loop of Subscribe, for any channels, calls, capacity and bounds.           *)
EXTENDS Subscriber, FunctionTheorems, FiniteSetTheorems, SequenceTheorems, TLAPS

-----------------------------------------------------------------------------
\* Sequences.

Once(seq, ch) == \E i \in DOMAIN seq : /\ seq[i] = ch
                                       /\ \A j \in DOMAIN seq : seq[j] = ch => j = i

Increasing(seq) == \A i, j \in DOMAIN seq : i < j => seq[i] < seq[j]

\* AtPlaces takes each of the places once.
LEMMA AtPlacesOnce ==
    ASSUME NEW S, NEW seq \in Seq(S), NEW I \in SUBSET DOMAIN seq
    PROVE  /\ AtPlaces(seq, I) \in Seq(S)
           /\ IsFiniteSet(I) /\ Len(AtPlaces(seq, I)) = Cardinality(I)
           /\ \E place \in [DOMAIN AtPlaces(seq, I) -> I] :
                 /\ \A n \in DOMAIN place : AtPlaces(seq, I)[n] = seq[place[n]]
                 /\ IsInjective(place)
                 /\ \A i \in I : \E n \in DOMAIN place : place[n] = i
<1> DEFINE Upto(i) == {j \in I : j <= i}
           rank == [i \in I |-> Cardinality(Upto(i))]
           card == Cardinality(I)
           place == [n \in 1..card |-> CHOOSE i \in I : Cardinality(Upto(i)) = n]
<1>1. IsFiniteSet(I) /\ card \in Nat
  <2>1. IsFiniteSet(1..Len(seq))
    BY FS_Interval
  <2>2. I \subseteq 1..Len(seq)
    OBVIOUS
  <2> QED BY <2>1, <2>2, FS_Subset, FS_CardinalityType
<1>2. \A i \in I : /\ IsFiniteSet(Upto(i))
                   /\ Cardinality(Upto(i)) \in 1..card
  <2> SUFFICES ASSUME NEW i \in I
               PROVE  /\ IsFiniteSet(Upto(i))
                      /\ Cardinality(Upto(i)) \in 1..card
    OBVIOUS
  <2>1. IsFiniteSet(Upto(i)) /\ Cardinality(Upto(i)) <= card
    BY <1>1, FS_Subset
  <2>2. Cardinality(Upto(i)) # 0
    <3>1. i \in Upto(i)
      OBVIOUS
    <3> QED BY <2>1, <3>1, FS_EmptySet
  <2>3. Cardinality(Upto(i)) \in Nat
    BY <2>1, FS_CardinalityType
  <2> QED BY <1>1, <2>1, <2>2, <2>3
<1>3. \A i, k \in I : rank[i] = rank[k] => i = k
  <2>1. ASSUME NEW i \in I, NEW k \in I, i < k
        PROVE  rank[i] # rank[k]
    <3>1. Upto(i) \subseteq Upto(k) /\ k \in Upto(k) /\ k \notin Upto(i)
      BY <2>1
    <3>2. IsFiniteSet(Upto(k))
      BY <1>2
    <3>3. Cardinality(Upto(i)) # Cardinality(Upto(k))
      BY <3>1, <3>2, FS_Subset
    <3> QED BY <3>3
  <2> HIDE DEF rank
  <2>2. ASSUME NEW i \in I, NEW k \in I, rank[i] = rank[k]
        PROVE  i = k
    <3>1. i \in Nat /\ k \in Nat
      OBVIOUS
    <3> QED BY <2>1, <2>2, <3>1
  <2> QED BY <2>2
<1>4. \A n \in 1..card : \E i \in I : rank[i] = n
  <2>1. IsFiniteSet(1..card) /\ Cardinality(1..card) = card
    BY <1>1, FS_Interval
  <2>2. rank \in [I -> 1..card]
    BY <1>2
  <2> HIDE DEF rank
  <2>3. rank \in Injection(I, 1..card)
    BY <1>3, <2>2 DEF Injection, IsInjective
  <2>4. rank \in Surjection(I, 1..card)
    BY <2>1, <2>3, FS_Injection
  <2> QED BY <2>4 DEF Surjection
<1>5. ASSUME NEW n \in 1..card
      PROVE  /\ place[n] \in I /\ rank[place[n]] = n
             /\ AtPlaces(seq, I)[n] = seq[place[n]]
  <2>1. \E i \in I : Cardinality(Upto(i)) = n
    BY <1>4
  <2>2. place[n] \in I /\ Cardinality(Upto(place[n])) = n
    BY <2>1
  <2> QED BY <2>2 DEF AtPlaces
<1>6. DOMAIN AtPlaces(seq, I) = 1..card
  BY DEF AtPlaces
<1>7. place \in [1..card -> I]
  BY <1>5
<1>8. AtPlaces(seq, I) \in [1..card -> S]
  <2>1. AtPlaces(seq, I) = [n \in 1..card |-> AtPlaces(seq, I)[n]]
    BY <1>6 DEF AtPlaces
  <2>2. \A i \in I : seq[i] \in S
    OBVIOUS
  <2> HIDE DEF place
  <2> QED BY <1>5, <2>1, <2>2
<1>9. \A i \in I : rank[i] \in 1..card /\ place[rank[i]] = i
  <2>1. \A i \in I : rank[i] \in 1..card
    BY <1>2
  <2> HIDE DEF rank, place
  <2> QED BY <1>3, <1>5, <2>1
<1> HIDE DEF rank, place, card
<1>10. IsInjective(place) /\ \A i \in I : \E n \in DOMAIN place : place[n] = i
  BY <1>5, <1>7, <1>9 DEF IsInjective
<1>11. AtPlaces(seq, I) \in Seq(S) /\ Len(AtPlaces(seq, I)) = card
  BY <1>1, <1>8
<1> QED BY <1>1, <1>5, <1>6, <1>7, <1>10, <1>11 DEF card

\* retain drops every entry of the channel and keeps the others
\* (client.rs:493-500).
LEMMA RetainDrops ==
    ASSUME NEW chans \in Seq(Channels), NEW ch
    PROVE  /\ Retain(chans, ch) \in Seq(Channels)
           /\ ToSet(Retain(chans, ch)) = ToSet(chans) \ {ch}
           /\ \A d : d # ch /\ Once(chans, d) => Once(Retain(chans, ch), d)
           /\ Once(chans, ch) => Len(Retain(chans, ch)) = Len(chans) - 1
<1> DEFINE I == {i \in DOMAIN chans : chans[i] # ch}
           kept == AtPlaces(chans, I)
<1>1. I \in SUBSET DOMAIN chans
  OBVIOUS
<1> HIDE DEF I
<1>2. PICK place \in [DOMAIN kept -> I] :
         /\ \A n \in DOMAIN place : kept[n] = chans[place[n]]
         /\ IsInjective(place)
         /\ \A i \in I : \E n \in DOMAIN place : place[n] = i
  BY <1>1, AtPlacesOnce
<1>3. kept \in Seq(Channels) /\ IsFiniteSet(I) /\ Len(kept) = Cardinality(I)
  BY <1>1, AtPlacesOnce
<1>4. Retain(chans, ch) = kept
  BY DEF Retain, I
<1> HIDE DEF kept
<1>5. ToSet(kept) = ToSet(chans) \ {ch}
  <2>1. ASSUME NEW d \in ToSet(kept) PROVE d \in ToSet(chans) \ {ch}
    <3>1. PICK n \in DOMAIN kept : kept[n] = d
      BY <2>1 DEF ToSet
    <3> QED BY <1>2, <3>1 DEF I, ToSet
  <2>2. ASSUME NEW d \in ToSet(chans), d # ch PROVE d \in ToSet(kept)
    <3>1. PICK i \in I : chans[i] = d
      BY <2>2 DEF ToSet, I
    <3> QED BY <1>2, <3>1 DEF ToSet
  <2> QED BY <2>1, <2>2
<1>6. ASSUME NEW d, d # ch, Once(chans, d) PROVE Once(kept, d)
  <2>1. PICK i \in DOMAIN chans :
           chans[i] = d /\ \A j \in DOMAIN chans : chans[j] = d => j = i
    BY <1>6 DEF Once
  <2>2. i \in I
    BY <1>6, <2>1 DEF I
  <2>3. PICK n \in DOMAIN kept : place[n] = i
    BY <1>2, <2>2
  <2>4. kept[n] = d
    BY <1>2, <2>1, <2>3
  <2>5. ASSUME NEW m \in DOMAIN kept, kept[m] = d PROVE m = n
    <3>1. place[m] = i
      BY <1>1, <1>2, <2>1, <2>5
    <3> QED BY <1>2, <2>3, <3>1 DEF IsInjective
  <2> QED BY <2>4, <2>5 DEF Once
<1>7. ASSUME Once(chans, ch) PROVE Len(kept) = Len(chans) - 1
  <2>1. PICK i \in DOMAIN chans :
           chans[i] = ch /\ \A j \in DOMAIN chans : chans[j] = ch => j = i
    BY <1>7 DEF Once
  <2>2. I = (1..Len(chans)) \ {i}
    BY <2>1 DEF I
  <2>3. IsFiniteSet(1..Len(chans)) /\ Cardinality(1..Len(chans)) = Len(chans)
    BY FS_Interval
  <2>4. i \in 1..Len(chans) /\ Len(chans) \in Nat
    OBVIOUS
  <2>5. Cardinality((1..Len(chans)) \ {i}) = Cardinality(1..Len(chans)) - 1
    BY <2>3, <2>4, FS_RemoveElement, Zenon
  <2> QED BY <1>3, <2>2, <2>3, <2>5
<1> QED BY <1>3, <1>4, <1>5, <1>6, <1>7

\* Counting to one, as FailsOnlyFor does.
LEMMA CountedOnce ==
    ASSUME NEW chans \in Seq(Channels), NEW ch
    PROVE  Cardinality({i \in DOMAIN chans : chans[i] = ch}) = 1 <=> Once(chans, ch)
<1> DEFINE I == {i \in DOMAIN chans : chans[i] = ch}
<1>1. IsFiniteSet(I)
  <2>1. IsFiniteSet(1..Len(chans)) /\ I \subseteq 1..Len(chans)
    BY FS_Interval
  <2> QED BY <2>1, FS_Subset
<1>2. Cardinality(I) = 1 <=> \E i : I = {i}
  BY <1>1, FS_Singleton
<1>3. ASSUME NEW i, I = {i} PROVE Once(chans, ch)
  BY <1>3 DEF Once
<1>4. ASSUME Once(chans, ch) PROVE \E i : I = {i}
  <2>1. PICK i \in DOMAIN chans :
           chans[i] = ch /\ \A j \in DOMAIN chans : chans[j] = ch => j = i
    BY <1>4 DEF Once
  <2>2. I = {i}
    BY <2>1
  <2> QED BY <2>2
<1> QED BY <1>2, <1>3, <1>4

\* Taking the first element of an increasing sequence, and adding a last one.
LEMMA IncreasingTail ==
    ASSUME NEW seq \in Seq(Nat), seq # <<>>, Increasing(seq)
    PROVE  /\ Tail(seq) \in Seq(Nat) /\ Increasing(Tail(seq))
           /\ Head(seq) = seq[1] /\ 1 \in DOMAIN seq
           /\ DOMAIN Tail(seq) = 1..Len(seq) - 1
           /\ \A k \in DOMAIN Tail(seq) :
                 /\ k + 1 \in DOMAIN seq /\ Tail(seq)[k] = seq[k + 1]
                 /\ Head(seq) < Tail(seq)[k]
<1>1. /\ Tail(seq) \in Seq(Nat) /\ DOMAIN Tail(seq) = 1..Len(seq) - 1
      /\ Head(seq) = seq[1] /\ 1 \in DOMAIN seq
      /\ \A k \in 1..Len(seq) - 1 :
            k + 1 \in DOMAIN seq /\ Tail(seq)[k] = seq[k + 1] /\ 1 < k + 1
  OBVIOUS
<1>2. \A k \in 1..Len(seq) - 1 : Head(seq) < Tail(seq)[k]
  BY <1>1 DEF Increasing
<1>3. Increasing(Tail(seq))
  <2> SUFFICES ASSUME NEW i \in 1..Len(seq) - 1, NEW j \in 1..Len(seq) - 1, i < j
               PROVE  Tail(seq)[i] < Tail(seq)[j]
    BY <1>1 DEF Increasing
  <2>1. i + 1 < j + 1
    OBVIOUS
  <2> QED BY <1>1, <2>1 DEF Increasing
<1> QED BY <1>1, <1>2, <1>3

LEMMA IncreasingAppend ==
    ASSUME NEW seq \in Seq(Nat), NEW v \in Nat, Increasing(seq),
           \A k \in DOMAIN seq : seq[k] < v
    PROVE  /\ Append(seq, v) \in Seq(Nat) /\ Increasing(Append(seq, v))
           /\ DOMAIN Append(seq, v) = 1..Len(seq) + 1
           /\ Append(seq, v)[Len(seq) + 1] = v
           /\ \A k \in 1..Len(seq) : Append(seq, v)[k] = seq[k]
<1>1. /\ Append(seq, v) \in Seq(Nat)
      /\ DOMAIN Append(seq, v) = 1..Len(seq) + 1
      /\ Append(seq, v)[Len(seq) + 1] = v
      /\ \A k \in 1..Len(seq) : k \in DOMAIN seq /\ Append(seq, v)[k] = seq[k]
  OBVIOUS
<1>2. Increasing(Append(seq, v))
  <2> SUFFICES ASSUME NEW i \in 1..Len(seq) + 1, NEW j \in 1..Len(seq) + 1, i < j
               PROVE  Append(seq, v)[i] < Append(seq, v)[j]
    BY <1>1 DEF Increasing
  <2>1. i \in 1..Len(seq)
    OBVIOUS
  <2>2. CASE j = Len(seq) + 1
    BY <1>1, <2>1, <2>2
  <2>3. CASE j \in 1..Len(seq)
    BY <1>1, <2>1, <2>3 DEF Increasing
  <2> QED BY <2>2, <2>3
<1> QED BY <1>1, <1>2

-----------------------------------------------------------------------------
\* Frames.

\* The next frame of a channel decides whether the client is subscribed to it.
LEMMA NextFrameDecides ==
    ASSUME NEW seq \in Seq(Frame), NEW n \in 0..Len(seq) - 1, NEW ch
    PROVE  SubscribedAt(seq, n + 1, ch) <=>
              \/ seq[n + 1].kind = "subscribe" /\ seq[n + 1].chan = ch
              \/ /\ SubscribedAt(seq, n, ch)
                 /\ ~(seq[n + 1].kind = "unsubscribe" /\ seq[n + 1].chan = ch)
<1>1. n \in Nat /\ n + 1 \in 1..n + 1 /\ \A j \in n+1+1..n+1 : FALSE
  OBVIOUS
<1>2. ASSUME SubscribedAt(seq, n + 1, ch),
             ~(seq[n + 1].kind = "subscribe" /\ seq[n + 1].chan = ch)
      PROVE  /\ SubscribedAt(seq, n, ch)
             /\ ~(seq[n + 1].kind = "unsubscribe" /\ seq[n + 1].chan = ch)
  <2>1. PICK i \in 1..n + 1 :
           /\ seq[i].kind = "subscribe" /\ seq[i].chan = ch
           /\ \A j \in i+1..n+1 :
                 ~(seq[j].kind = "unsubscribe" /\ seq[j].chan = ch)
    BY <1>2 DEF SubscribedAt
  <2>2. i \in 1..n /\ n + 1 \in i+1..n+1 /\ \A j \in i+1..n : j \in i+1..n+1
    BY <1>1, <1>2, <2>1
  <2> QED BY <2>1, <2>2 DEF SubscribedAt
<1>3. ASSUME seq[n + 1].kind = "subscribe", seq[n + 1].chan = ch
      PROVE  SubscribedAt(seq, n + 1, ch)
  BY <1>1, <1>3 DEF SubscribedAt
<1>4. ASSUME SubscribedAt(seq, n, ch),
             ~(seq[n + 1].kind = "unsubscribe" /\ seq[n + 1].chan = ch)
      PROVE  SubscribedAt(seq, n + 1, ch)
  <2>1. PICK i \in 1..n :
           /\ seq[i].kind = "subscribe" /\ seq[i].chan = ch
           /\ \A j \in i+1..n :
                 ~(seq[j].kind = "unsubscribe" /\ seq[j].chan = ch)
    BY <1>4 DEF SubscribedAt
  <2>2. i \in 1..n + 1 /\ \A j \in i+1..n+1 : j = n + 1 \/ j \in i+1..n
    OBVIOUS
  <2> QED BY <1>4, <2>1, <2>2 DEF SubscribedAt
<1> QED BY <1>2, <1>3, <1>4

\* A frame more: what was true of the earlier ones stays so, and the new one
\* decides for its channel.
LEMMA AppendFrame ==
    ASSUME NEW seq \in Seq(Frame), NEW f \in Frame
    PROVE  /\ Append(seq, f) \in Seq(Frame)
           /\ Len(Append(seq, f)) = Len(seq) + 1
           /\ Append(seq, f)[Len(seq) + 1] = f
           /\ \A i \in 1..Len(seq) : Append(seq, f)[i] = seq[i]
           /\ \A n \in 0..Len(seq) : \A ch :
                 SubscribedAt(Append(seq, f), n, ch) <=> SubscribedAt(seq, n, ch)
           /\ \A ch : SubscribedAt(Append(seq, f), Len(seq) + 1, ch) <=>
                         \/ f.kind = "subscribe" /\ f.chan = ch
                         \/ /\ SubscribedAt(seq, Len(seq), ch)
                            /\ ~(f.kind = "unsubscribe" /\ f.chan = ch)
<1> DEFINE long == Append(seq, f)
<1>1. /\ long \in Seq(Frame)
      /\ Len(long) = Len(seq) + 1 /\ long[Len(seq) + 1] = f
      /\ \A i \in 1..Len(seq) : long[i] = seq[i]
      /\ Len(seq) \in Nat
  OBVIOUS
<1> HIDE DEF long
<1>2. ASSUME NEW n \in 0..Len(seq), NEW ch
      PROVE  SubscribedAt(long, n, ch) <=> SubscribedAt(seq, n, ch)
  <2>1. \A i \in 1..n : i \in 1..Len(seq) /\ \A j \in i+1..n : j \in 1..Len(seq)
    BY <1>1
  <2> QED BY <1>1, <2>1 DEF SubscribedAt
<1>3. ASSUME NEW ch
      PROVE  SubscribedAt(long, Len(seq) + 1, ch) <=>
                \/ f.kind = "subscribe" /\ f.chan = ch
                \/ /\ SubscribedAt(seq, Len(seq), ch)
                   /\ ~(f.kind = "unsubscribe" /\ f.chan = ch)
  <2>1. Len(seq) \in 0..Len(long) - 1 /\ Len(seq) \in 0..Len(seq)
    BY <1>1
  <2>2. SubscribedAt(long, Len(seq) + 1, ch) <=>
              \/ f.kind = "subscribe" /\ f.chan = ch
              \/ /\ SubscribedAt(long, Len(seq), ch)
                 /\ ~(f.kind = "unsubscribe" /\ f.chan = ch)
    BY <1>1, <2>1, NextFrameDecides
  <2> QED BY <1>2, <2>1, <2>2
<1> QED BY <1>1, <1>2, <1>3 DEF long

\* Messages end no subscription and begin none.
LEMMA MessagesDecideNothing ==
    ASSUME NEW seq \in Seq(Frame), NEW n \in 0..Len(seq),
           \A i \in n + 1..Len(seq) : IsMessage(seq[i]), NEW ch
    PROVE  SubscribedAt(seq, n, ch) <=> SubscribedAt(seq, Len(seq), ch)
<1>1. n \in Nat /\ Len(seq) \in Nat /\ n <= Len(seq)
  OBVIOUS
<1>2. ASSUME SubscribedAt(seq, n, ch) PROVE SubscribedAt(seq, Len(seq), ch)
  <2>1. PICK i \in 1..n :
           /\ seq[i].kind = "subscribe" /\ seq[i].chan = ch
           /\ \A j \in i+1..n :
                 ~(seq[j].kind = "unsubscribe" /\ seq[j].chan = ch)
    BY <1>2 DEF SubscribedAt
  <2>2. /\ i \in 1..Len(seq)
        /\ \A j \in i+1..Len(seq) : j \in n+1..Len(seq) \/ j \in i+1..n
    BY <1>1
  <2> QED BY <2>1, <2>2 DEF SubscribedAt, IsMessage
<1>3. ASSUME SubscribedAt(seq, Len(seq), ch) PROVE SubscribedAt(seq, n, ch)
  <2>1. PICK i \in 1..Len(seq) :
           /\ seq[i].kind = "subscribe" /\ seq[i].chan = ch
           /\ \A j \in i+1..Len(seq) :
                 ~(seq[j].kind = "unsubscribe" /\ seq[j].chan = ch)
    BY <1>3 DEF SubscribedAt
  <2>2. i \notin n+1..Len(seq)
    BY <2>1 DEF IsMessage
  <2>3. i \in 1..n /\ \A j \in i+1..n : j \in i+1..Len(seq)
    BY <1>1, <2>2
  <2> QED BY <2>1, <2>3 DEF SubscribedAt
<1> QED BY <1>2, <1>3

\* What a frame needs to keep the written frames right.
LEMMA AppendKeepsRight ==
    ASSUME NEW seq \in Seq(Frame), NEW f \in Frame,
           WithinSubscriptions(seq), EachOnceInOrder(seq),
           IsMessage(f) =>
              /\ SubscribedAt(seq, Len(seq), f.chan)
              /\ \A i \in 1..Len(seq) :
                    IsMessage(seq[i]) /\ seq[i].chan = f.chan => seq[i].val < f.val
    PROVE  WithinSubscriptions(Append(seq, f)) /\ EachOnceInOrder(Append(seq, f))
<1> DEFINE long == Append(seq, f)
<1>1. /\ Len(long) = Len(seq) + 1 /\ long[Len(seq) + 1] = f
      /\ \A i \in 1..Len(seq) : long[i] = seq[i]
      /\ \A n \in 0..Len(seq) : \A ch :
            SubscribedAt(long, n, ch) <=> SubscribedAt(seq, n, ch)
  BY AppendFrame
<1>2. Len(seq) \in Nat
  OBVIOUS
<1> HIDE DEF long
<1>3. ASSUME NEW i \in 1..Len(long), IsMessage(long[i])
      PROVE  SubscribedAt(long, i - 1, long[i].chan)
  <2>1. CASE i \in 1..Len(seq)
    <3>1. SubscribedAt(seq, i - 1, seq[i].chan)
      BY <1>1, <1>3, <2>1 DEF WithinSubscriptions
    <3>2. i - 1 \in 0..Len(seq)
      BY <2>1
    <3> QED BY <1>1, <2>1, <3>1, <3>2
  <2>2. CASE i = Len(seq) + 1
    <3>1. i - 1 = Len(seq) /\ Len(seq) \in 0..Len(seq)
      BY <1>2, <2>2
    <3>2. SubscribedAt(seq, Len(seq), long[i].chan)
      BY <1>1, <1>3, <2>2
    <3> QED BY <1>1, <3>1, <3>2
  <2> QED BY <1>1, <1>2, <2>1, <2>2
<1>4. ASSUME NEW i \in 1..Len(long), NEW j \in 1..Len(long), i < j,
             IsMessage(long[i]), IsMessage(long[j]), long[i].chan = long[j].chan
      PROVE  long[i].val < long[j].val
  <2>1. i \in 1..Len(seq)
    BY <1>1, <1>2, <1>4
  <2>2. CASE j \in 1..Len(seq)
    BY <1>1, <1>4, <2>1, <2>2 DEF EachOnceInOrder
  <2>3. CASE j = Len(seq) + 1
    BY <1>1, <1>4, <2>1, <2>3
  <2> QED BY <1>1, <1>2, <2>2, <2>3
<1>5. WithinSubscriptions(long)
  BY <1>3 DEF WithinSubscriptions
<1>6. EachOnceInOrder(long)
  BY <1>4 DEF EachOnceInOrder
<1> QED BY <1>5, <1>6 DEF long

-----------------------------------------------------------------------------
\* The loop.

\* The loop has a receiver for a channel exactly when the client takes itself
\* for subscribed to it.
KeysAgree ==
    IF pc = "done" THEN Keys = {}
    ELSE \A ch \in Channels : ch \in Keys <=> SubscribedAt(out, Len(out), ch)

\* What is pending for a channel is in the order in which it was published,
\* after all that was written of the channel.
PendingOrdered ==
    \A ch \in Keys :
        /\ Increasing(subs[ch])
        /\ \A k \in DOMAIN subs[ch] : subs[ch][k] <= published
        /\ \A i \in DOMAIN out, k \in DOMAIN subs[ch] :
              IsMessage(out[i]) /\ out[i].chan = ch => out[i].val < subs[ch][k]

WrittenPublished ==
    \A i \in DOMAIN out : IsMessage(out[i]) => out[i].val <= published

FramesRight == MessagesWithinSubscriptions /\ MessagesOnceInOrder

\* The inductive invariant of the loop.
LoopIInv == TypeOK /\ KeysAgree /\ PendingOrdered /\ WrittenPublished /\ FramesRight

\* Whatever the client and others do to it.
LoopStep == \/ LoopActs
            \/ \E ch \in Channels : Publish(ch)
            \/ \E cmd \in Command : ClientSends(cmd)
            \/ ClientCloses \/ Trigger
            \/ UNCHANGED vars

\* Setting the entry of one channel.
LEMMA SetStream ==
    ASSUME TypeOK, NEW ch \in Channels, NEW stream \in Seq(Nat) \cup {NoStream},
           subs' = [subs EXCEPT ![ch] = stream]
    PROVE  /\ subs' \in [Channels -> Seq(Nat) \cup {NoStream}]
           /\ Keys' = IF stream = NoStream THEN Keys \ {ch} ELSE Keys \cup {ch}
           /\ IsFiniteSet(Keys') /\ Cardinality(Keys') \in Nat
           /\ subs'[ch] = stream
           /\ \A d \in Channels : d # ch => subs'[d] = subs[d]
<1>1. subs \in [Channels -> Seq(Nat) \cup {NoStream}] /\ IsFiniteSet(Keys)
  BY DEF TypeOK
<1>2. /\ subs' \in [Channels -> Seq(Nat) \cup {NoStream}]
      /\ subs'[ch] = stream
      /\ \A d \in Channels : d # ch => subs'[d] = subs[d]
  BY <1>1
<1>3. Keys' = IF stream = NoStream THEN Keys \ {ch} ELSE Keys \cup {ch}
  BY <1>2 DEF Keys
<1>4. IsFiniteSet(Keys \ {ch}) /\ IsFiniteSet(Keys \cup {ch})
  BY <1>1, FS_AddElement, FS_RemoveElement
<1>5. IsFiniteSet(Keys')
  BY <1>3, <1>4
<1> QED BY <1>2, <1>3, <1>5, FS_CardinalityType

LEMMA KeysInChannels == Keys \subseteq Channels
  BY DEF Keys

\* The four ways in which a step may change what the frames depend on.

\* Writing a frame, with the entry of its channel.
LEMMA WriteKeeps ==
    ASSUME LoopIInv, pc # "done",
           NEW f \in Frame, NEW label \in {"channels", "select", "unsubscribe"},
           Write(f, label), UNCHANGED published,
           IsMessage(f) =>
              /\ f.chan \in Keys /\ subs[f.chan] # <<>>
              /\ f.val = Head(subs[f.chan])
              /\ subs' = [subs EXCEPT ![f.chan] = Tail(@)],
           f.kind = "subscribe" =>
              f.chan \in Channels /\ subs' = [subs EXCEPT ![f.chan] = <<>>],
           f.kind = "unsubscribe" =>
              f.chan \in Channels /\ subs' = [subs EXCEPT ![f.chan] = NoStream],
           f.kind = "error" => UNCHANGED subs
    PROVE  /\ subs' \in [Channels -> Seq(Nat) \cup {NoStream}] /\ IsFiniteSet(Keys')
           /\ out' \in Seq(Frame)
           /\ KeysAgree' /\ PendingOrdered' /\ WrittenPublished' /\ FramesRight'
<1>1. /\ subs \in [Channels -> Seq(Nat) \cup {NoStream}]
      /\ out \in Seq(Frame) /\ published \in Nat /\ TypeOK
      /\ \A ch \in Channels : ch \in Keys <=> SubscribedAt(out, Len(out), ch)
      /\ PendingOrdered /\ WrittenPublished
      /\ WithinSubscriptions(out) /\ EachOnceInOrder(out)
  BY DEF LoopIInv, TypeOK, KeysAgree, FramesRight, MessagesWithinSubscriptions,
         MessagesOnceInOrder
<1>2. out' = Append(out, f) /\ pc' = "writing" /\ published' = published
  BY DEF Write
<1>3. /\ out' \in Seq(Frame) /\ Len(out') = Len(out) + 1
      /\ out'[Len(out) + 1] = f
      /\ \A i \in 1..Len(out) : out'[i] = out[i]
      /\ \A ch : SubscribedAt(out', Len(out'), ch) <=>
                    \/ f.kind = "subscribe" /\ f.chan = ch
                    \/ /\ SubscribedAt(out, Len(out), ch)
                       /\ ~(f.kind = "unsubscribe" /\ f.chan = ch)
  BY <1>1, <1>2, AppendFrame
<1>4. Len(out) \in Nat /\ DOMAIN out = 1..Len(out) /\ DOMAIN out' = 1..Len(out) + 1
  BY <1>1, <1>3
<1>5. f.kind \in {"subscribe", "unsubscribe", "message", "error"}
  BY DEF Frame
<1>6. ASSUME IsMessage(f)
      PROVE  /\ f.chan \in Channels /\ subs[f.chan] \in Seq(Nat)
             /\ subs[f.chan] # <<>> /\ Increasing(subs[f.chan])
             /\ Tail(subs[f.chan]) \in Seq(Nat)
             /\ subs' = [subs EXCEPT ![f.chan] = Tail(subs[f.chan])]
             /\ f.val = subs[f.chan][1] /\ 1 \in DOMAIN subs[f.chan]
  <2>1. f.chan \in Channels /\ subs[f.chan] \in Seq(Nat)
    BY <1>1, <1>6 DEF Keys
  <2>2. Increasing(subs[f.chan])
    BY <1>1, <1>6 DEF PendingOrdered
  <2> QED BY <1>6, <2>1, <2>2, IncreasingTail
\* every case sets the entry of the channel to a stream, or keeps all
<1>7. /\ subs' \in [Channels -> Seq(Nat) \cup {NoStream}] /\ IsFiniteSet(Keys')
      /\ Keys' = IF f.kind = "subscribe" THEN Keys \cup {f.chan}
                 ELSE IF f.kind = "unsubscribe" THEN Keys \ {f.chan} ELSE Keys
      /\ \A ch \in Channels :
            ch # f.chan \/ f.kind = "error" => subs'[ch] = subs[ch]
      /\ f.kind = "subscribe" => subs'[f.chan] = <<>>
      /\ IsMessage(f) => subs'[f.chan] = Tail(subs[f.chan])
  <2>1. <<>> \in Seq(Nat) /\ <<>> # NoStream /\ NoStream \notin Seq(Nat)
    <3>1. <<>> \in Seq(Nat)
      OBVIOUS
    <3> QED BY <3>1, SubscribeAssumption
  <2>2. CASE IsMessage(f)
    <3> DEFINE stream == Tail(subs[f.chan])
    <3>1. /\ stream # NoStream /\ stream \in Seq(Nat) \cup {NoStream}
          /\ subs' = [subs EXCEPT ![f.chan] = stream]
      BY <1>6, <2>1, <2>2
    <3> HIDE DEF stream
    <3>2. f.chan \in Keys /\ f.kind = "message"
      BY <2>2 DEF IsMessage
    <3>3. /\ subs' \in [Channels -> Seq(Nat) \cup {NoStream}] /\ IsFiniteSet(Keys')
          /\ Keys' = Keys \cup {f.chan}
          /\ subs'[f.chan] = stream
          /\ \A d \in Channels : d # f.chan => subs'[d] = subs[d]
      BY <1>1, <1>6, <2>2, <3>1, SetStream
    <3> QED BY <3>2, <3>3 DEF stream
  <2>3. CASE f.kind = "subscribe"
    <3>1. /\ subs' \in [Channels -> Seq(Nat) \cup {NoStream}] /\ IsFiniteSet(Keys')
          /\ Keys' = Keys \cup {f.chan}
          /\ subs'[f.chan] = <<>>
          /\ \A d \in Channels : d # f.chan => subs'[d] = subs[d]
      BY <1>1, <2>1, <2>3, SetStream
    <3> QED BY <2>3, <3>1 DEF IsMessage
  <2>4. CASE f.kind = "unsubscribe"
    <3>1. /\ subs' \in [Channels -> Seq(Nat) \cup {NoStream}] /\ IsFiniteSet(Keys')
          /\ Keys' = Keys \ {f.chan}
          /\ \A d \in Channels : d # f.chan => subs'[d] = subs[d]
      BY <1>1, <2>4, SetStream
    <3> QED BY <2>4, <3>1 DEF IsMessage
  <2>5. CASE f.kind = "error"
    <3>1. subs' = subs /\ Keys' = Keys
      BY <2>5 DEF Keys
    <3>2. IsFiniteSet(Keys)
      BY <1>1 DEF TypeOK
    <3> QED BY <1>1, <2>5, <3>1, <3>2 DEF IsMessage
  <2> QED BY <1>5, <2>2, <2>3, <2>4, <2>5 DEF IsMessage
<1>8. KeysAgree'
  <2>1. \A ch \in Channels : ch \in Keys' <=> SubscribedAt(out', Len(out'), ch)
    BY <1>1, <1>3, <1>7
  <2> QED BY <1>2, <2>1 DEF KeysAgree
<1>9. PendingOrdered'
  <2> SUFFICES ASSUME NEW ch \in Keys'
               PROVE  /\ Increasing(subs'[ch])
                      /\ \A k \in DOMAIN subs'[ch] : subs'[ch][k] <= published
                      /\ \A i \in DOMAIN out', k \in DOMAIN subs'[ch] :
                            IsMessage(out'[i]) /\ out'[i].chan = ch =>
                               out'[i].val < subs'[ch][k]
    BY <1>2 DEF PendingOrdered
  <2>1. ch \in Channels
    BY DEF Keys
  <2>2. CASE ch # f.chan \/ f.kind = "error"
    <3>1. ch \in Keys /\ subs'[ch] = subs[ch]
      BY <1>5, <1>7, <2>1, <2>2
    <3>2. /\ Increasing(subs[ch])
          /\ \A k \in DOMAIN subs[ch] : subs[ch][k] <= published
          /\ \A i \in DOMAIN out, k \in DOMAIN subs[ch] :
                IsMessage(out[i]) /\ out[i].chan = ch => out[i].val < subs[ch][k]
      BY <1>1, <3>1 DEF PendingOrdered
    <3>3. ASSUME NEW i \in DOMAIN out', NEW k \in DOMAIN subs[ch],
                 IsMessage(out'[i]), out'[i].chan = ch
          PROVE  out'[i].val < subs[ch][k]
      <4>1. i \in 1..Len(out)
        BY <1>3, <1>4, <2>2, <3>3 DEF IsMessage
      <4> QED BY <1>3, <1>4, <3>2, <3>3, <4>1
    <3> QED BY <3>1, <3>2, <3>3
  <2>3. CASE ch = f.chan /\ f.kind = "subscribe"
    BY <1>7, <2>3 DEF Increasing
  <2>4. CASE ch = f.chan /\ f.kind = "unsubscribe"
    BY <1>7, <2>4
  <2>5. CASE ch = f.chan /\ IsMessage(f)
    <3>1. /\ subs'[ch] = Tail(subs[ch]) /\ Increasing(Tail(subs[ch]))
          /\ \A k \in DOMAIN Tail(subs[ch]) :
                /\ k + 1 \in DOMAIN subs[ch]
                /\ Tail(subs[ch])[k] = subs[ch][k + 1]
                /\ f.val < Tail(subs[ch])[k]
      BY <1>6, <1>7, <2>5, IncreasingTail
    <3>2. /\ \A k \in DOMAIN subs[ch] : subs[ch][k] <= published
          /\ \A i \in DOMAIN out, k \in DOMAIN subs[ch] :
                IsMessage(out[i]) /\ out[i].chan = ch => out[i].val < subs[ch][k]
      BY <1>1, <2>5 DEF PendingOrdered
    <3>3. ASSUME NEW i \in DOMAIN out', NEW k \in DOMAIN Tail(subs[ch]),
                 IsMessage(out'[i]), out'[i].chan = ch
          PROVE  out'[i].val < Tail(subs[ch])[k]
      <4>1. CASE i \in 1..Len(out)
        BY <1>3, <1>4, <3>1, <3>2, <3>3, <4>1
      <4>2. CASE i = Len(out) + 1
        BY <1>3, <3>1, <4>2
      <4> QED BY <1>4, <4>1, <4>2
    <3> QED BY <3>1, <3>2, <3>3
  <2> QED BY <1>5, <2>2, <2>3, <2>4, <2>5 DEF IsMessage
<1>10. WrittenPublished'
  <2>1. ASSUME NEW i \in DOMAIN out', IsMessage(out'[i])
        PROVE  out'[i].val <= published
    <3>1. CASE i \in 1..Len(out)
      BY <1>1, <1>3, <1>4, <2>1, <3>1 DEF WrittenPublished
    <3>2. CASE i = Len(out) + 1
      BY <1>1, <1>3, <1>6, <2>1, <3>2 DEF PendingOrdered
    <3> QED BY <1>4, <3>1, <3>2
  <2> QED BY <1>2, <2>1 DEF WrittenPublished
<1>11. FramesRight'
  <2>1. ASSUME IsMessage(f)
        PROVE  /\ SubscribedAt(out, Len(out), f.chan)
               /\ \A i \in 1..Len(out) :
                     IsMessage(out[i]) /\ out[i].chan = f.chan => out[i].val < f.val
    BY <1>1, <1>4, <1>6, <2>1 DEF PendingOrdered
  <2>2. WithinSubscriptions(out') /\ EachOnceInOrder(out')
    BY <1>1, <1>2, <2>1, AppendKeepsRight
  <2> QED BY <2>2 DEF FramesRight, MessagesWithinSubscriptions, MessagesOnceInOrder
<1> QED BY <1>3, <1>7, <1>8, <1>9, <1>10, <1>11

\* Leaving apply.
LEMMA LeaveKeeps ==
    ASSUME LoopIInv, Leave
    PROVE  /\ subs' \in [Channels -> Seq(Nat) \cup {NoStream}] /\ IsFiniteSet(Keys')
           /\ KeysAgree' /\ PendingOrdered' /\ WrittenPublished' /\ FramesRight'
<1>1. /\ pc' = "done" /\ subs' = [ch \in Channels |-> NoStream]
      /\ out' = out /\ published' = published
  BY DEF Leave
<1>2. Keys' = {}
  BY <1>1 DEF Keys
<1>3. KeysAgree' /\ PendingOrdered' /\ IsFiniteSet(Keys')
  BY <1>1, <1>2, FS_EmptySet DEF KeysAgree, PendingOrdered
<1>4. WrittenPublished' /\ FramesRight'
  BY <1>1 DEF LoopIInv, WrittenPublished, FramesRight, MessagesWithinSubscriptions,
             MessagesOnceInOrder
<1> QED BY <1>1, <1>3, <1>4

\* A step that is about neither frames nor streams.
LEMMA OtherKeeps ==
    ASSUME LoopIInv, UNCHANGED <<subs, out, published>>,
           pc = "done" <=> pc' = "done"
    PROVE  /\ subs' \in [Channels -> Seq(Nat) \cup {NoStream}] /\ IsFiniteSet(Keys')
           /\ KeysAgree' /\ PendingOrdered' /\ WrittenPublished' /\ FramesRight'
<1>1. Keys' = Keys
  BY DEF Keys
<1>2. KeysAgree'
  BY <1>1 DEF LoopIInv, KeysAgree
<1>3. PendingOrdered'
  BY <1>1 DEF LoopIInv, PendingOrdered
<1>4. WrittenPublished' /\ FramesRight'
  BY DEF LoopIInv, WrittenPublished, FramesRight, MessagesWithinSubscriptions,
         MessagesOnceInOrder
<1>5. subs' \in [Channels -> Seq(Nat) \cup {NoStream}] /\ IsFiniteSet(Keys')
  BY <1>1 DEF LoopIInv, TypeOK
<1> QED BY <1>2, <1>3, <1>4, <1>5

\* What others publish, also to a receiver that lags (subscribe.rs:132-134).
LEMMA PublishKeeps ==
    ASSUME LoopIInv, NEW ch \in Channels, Publish(ch)
    PROVE  /\ subs' \in [Channels -> Seq(Nat) \cup {NoStream}] /\ IsFiniteSet(Keys')
           /\ Keys' = Keys /\ published' \in Nat
           /\ KeysAgree' /\ PendingOrdered' /\ WrittenPublished' /\ FramesRight'
<1>1. /\ subs \in [Channels -> Seq(Nat) \cup {NoStream}] /\ IsFiniteSet(Keys)
      /\ out \in Seq(Frame) /\ published \in Nat /\ TypeOK
      /\ PendingOrdered /\ WrittenPublished
  BY DEF LoopIInv, TypeOK
<1>2. /\ published' = published + 1 /\ pc' = pc /\ out' = out
      /\ subs' = IF subs[ch] = NoStream THEN subs
                 ELSE [subs EXCEPT ![ch] =
                          Append(IF Len(@) = Capacity THEN Tail(@) ELSE @,
                                 published')]
  BY DEF Publish
<1>3. published' \in Nat /\ published < published' /\ published <= published'
  BY <1>1, <1>2
<1>4. \A i \in DOMAIN out : out[i].val \in Nat
  <2>1. \A i \in DOMAIN out : out[i] \in Frame
    BY <1>1
  <2> QED BY <2>1 DEF Frame
<1>5. WrittenPublished' /\ FramesRight'
  <2>1. WrittenPublished'
    BY <1>1, <1>2, <1>3, <1>4 DEF WrittenPublished
  <2>2. FramesRight'
    BY <1>2 DEF LoopIInv, FramesRight, MessagesWithinSubscriptions,
                MessagesOnceInOrder
  <2> QED BY <2>1, <2>2
<1>6. ASSUME NEW d \in Keys
      PROVE  /\ subs[d] \in Seq(Nat) /\ Increasing(subs[d])
             /\ \A k \in DOMAIN subs[d] : subs[d][k] <= published
             /\ \A i \in DOMAIN out, k \in DOMAIN subs[d] :
                   IsMessage(out[i]) /\ out[i].chan = d => out[i].val < subs[d][k]
             /\ \A k \in DOMAIN subs[d] : subs[d][k] \in Nat
  <2>1. subs[d] \in Seq(Nat)
    BY <1>1 DEF Keys
  <2>2. \A k \in DOMAIN subs[d] : subs[d][k] \in Nat
    BY <2>1
  <2> QED BY <1>1, <2>1, <2>2 DEF PendingOrdered
<1>7. ASSUME NEW d \in Keys, subs'[d] = subs[d]
      PROVE  /\ Increasing(subs'[d])
             /\ \A k \in DOMAIN subs'[d] : subs'[d][k] <= published'
             /\ \A i \in DOMAIN out, k \in DOMAIN subs'[d] :
                   IsMessage(out[i]) /\ out[i].chan = d => out[i].val < subs'[d][k]
  <2>1. \A k \in DOMAIN subs[d] : subs[d][k] <= published'
    BY <1>1, <1>3, <1>6
  <2> QED BY <1>6, <1>7, <2>1
<1>8. CASE subs[ch] = NoStream
  <2>1. subs' = subs /\ Keys' = Keys
    BY <1>2, <1>8 DEF Keys
  <2>2. PendingOrdered'
    BY <1>2, <1>7, <2>1 DEF PendingOrdered
  <2>3. KeysAgree'
    BY <1>2, <2>1 DEF LoopIInv, KeysAgree
  <2> QED BY <1>1, <1>3, <1>5, <2>1, <2>2, <2>3
<1>9. CASE subs[ch] # NoStream
  <2> DEFINE kept == IF Len(subs[ch]) = Capacity THEN Tail(subs[ch]) ELSE subs[ch]
             stream == Append(kept, published')
  <2>1. ch \in Keys
    BY <1>9 DEF Keys
  <2>2. /\ kept \in Seq(Nat) /\ Increasing(kept)
        /\ \A k \in DOMAIN kept : kept[k] <= published
        /\ \A i \in DOMAIN out, k \in DOMAIN kept :
              IsMessage(out[i]) /\ out[i].chan = ch => out[i].val < kept[k]
    <3>1. CASE Len(subs[ch]) = Capacity
      <4>1. subs[ch] # <<>>
        BY <3>1, SubscribeAssumption
      <4>2. /\ kept = Tail(subs[ch]) /\ kept \in Seq(Nat) /\ Increasing(kept)
            /\ \A k \in DOMAIN kept :
                  k + 1 \in DOMAIN subs[ch] /\ kept[k] = subs[ch][k + 1]
        BY <1>6, <2>1, <3>1, <4>1, IncreasingTail
      <4> HIDE DEF kept
      <4> QED BY <1>6, <2>1, <4>2
    <3>2. CASE Len(subs[ch]) # Capacity
      BY <1>6, <2>1, <3>2
    <3> QED BY <3>1, <3>2
  <2>3. subs' = [subs EXCEPT ![ch] = stream]
    BY <1>1, <1>2, <1>9
  <2> HIDE DEF kept
  <2>4. \A k \in DOMAIN kept : kept[k] < published'
    <3>1. \A k \in DOMAIN kept : kept[k] \in Nat
      BY <2>2
    <3> QED BY <1>1, <1>2, <2>2, <3>1
  <2>5. /\ stream \in Seq(Nat) /\ Increasing(stream)
        /\ DOMAIN stream = 1..Len(kept) + 1
        /\ stream[Len(kept) + 1] = published'
        /\ \A k \in 1..Len(kept) : stream[k] = kept[k]
        /\ Len(kept) \in Nat /\ DOMAIN kept = 1..Len(kept)
    BY <1>3, <2>2, <2>4, IncreasingAppend
  <2> HIDE DEF stream
  <2>6. stream # NoStream
    BY <2>5, SubscribeAssumption
  <2>7. /\ subs' \in [Channels -> Seq(Nat) \cup {NoStream}]
        /\ Keys' = Keys /\ IsFiniteSet(Keys')
        /\ subs'[ch] = stream
        /\ \A d \in Channels : d # ch => subs'[d] = subs[d]
    <3>1. /\ subs' \in [Channels -> Seq(Nat) \cup {NoStream}]
          /\ Keys' = Keys \cup {ch} /\ IsFiniteSet(Keys')
          /\ subs'[ch] = stream
          /\ \A d \in Channels : d # ch => subs'[d] = subs[d]
      BY <1>1, <2>3, <2>5, <2>6, SetStream
    <3> QED BY <2>1, <3>1
  <2>8. \A k \in DOMAIN stream : stream[k] <= published'
    BY <1>3, <2>4, <2>5, <2>2
  <2>9. ASSUME NEW i \in DOMAIN out, NEW k \in DOMAIN stream,
               IsMessage(out[i]), out[i].chan = ch
        PROVE  out[i].val < stream[k]
    <3>1. CASE k \in 1..Len(kept)
      BY <2>2, <2>5, <2>9, <3>1
    <3>2. CASE k = Len(kept) + 1
      BY <1>1, <1>3, <1>4, <2>5, <2>9, <3>2 DEF WrittenPublished
    <3> QED BY <2>5, <3>1, <3>2
  <2>10. PendingOrdered'
    <3> SUFFICES ASSUME NEW d \in Keys
                 PROVE  /\ Increasing(subs'[d])
                        /\ \A k \in DOMAIN subs'[d] : subs'[d][k] <= published'
                        /\ \A i \in DOMAIN out, k \in DOMAIN subs'[d] :
                              IsMessage(out[i]) /\ out[i].chan = d =>
                                 out[i].val < subs'[d][k]
      BY <1>2, <2>7 DEF PendingOrdered
    <3>1. CASE d = ch
      BY <2>5, <2>7, <2>8, <2>9, <3>1
    <3>2. CASE d # ch
      BY <1>7, <2>7, <3>2, KeysInChannels
    <3> QED BY <3>1, <3>2
  <2>11. KeysAgree'
    BY <1>2, <2>7 DEF LoopIInv, KeysAgree
  <2> QED BY <1>3, <1>5, <2>7, <2>10, <2>11
<1> QED BY <1>8, <1>9

-----------------------------------------------------------------------------
\* The steps.

LEMMA SubscribeToChannelLoop == LoopIInv /\ SubscribeToChannel => LoopIInv'
<1> SUFFICES ASSUME LoopIInv, SubscribeToChannel PROVE LoopIInv'
  OBVIOUS
<1> DEFINE f == SubscribeFrame(Head(todo), Cardinality(Keys'))
<1>1. /\ pc = "channels" /\ todo # <<>> /\ todo' = Tail(todo)
      /\ subs' = [subs EXCEPT ![Head(todo)] = <<>>]
      /\ Write(f, "channels")
      /\ out' = Append(out, f) /\ pc' = "writing" /\ back' = "channels"
      /\ UNCHANGED <<published, triggered, inbox, sent, closed>>
  BY DEF SubscribeToChannel, Write, client
<1>2. TypeOK
  BY DEF LoopIInv
<1>3. Head(todo) \in Channels /\ Tail(todo) \in Seq(Channels)
  BY <1>1, <1>2 DEF TypeOK
<1>4. Cardinality(Keys') \in Nat
  <2>1. <<>> \in Seq(Nat) \cup {NoStream}
    OBVIOUS
  <2> QED BY <1>1, <1>2, <1>3, <2>1, SetStream
<1>5. f \in Frame /\ f.kind = "subscribe" /\ f.chan = Head(todo)
  BY <1>3, <1>4 DEF SubscribeFrame, Frame
<1> HIDE DEF f
<1>6. /\ subs' \in [Channels -> Seq(Nat) \cup {NoStream}] /\ IsFiniteSet(Keys')
      /\ out' \in Seq(Frame)
      /\ KeysAgree' /\ PendingOrdered' /\ WrittenPublished' /\ FramesRight'
  BY <1>1, <1>3, <1>5, WriteKeeps DEF IsMessage
<1>7. TypeOK'
  BY <1>1, <1>2, <1>3, <1>6 DEF TypeOK
<1> QED BY <1>6, <1>7 DEF LoopIInv

LEMMA SelectMessageLoop ==
    ASSUME LoopIInv, NEW ch \in Channels, SelectMessage(ch)
    PROVE  LoopIInv'
<1> DEFINE f == MessageFrame(ch, Head(subs[ch]))
<1>1. /\ pc = "select" /\ subs[ch] # NoStream /\ subs[ch] # <<>>
      /\ subs' = [subs EXCEPT ![ch] = Tail(@)]
      /\ Write(f, "select")
      /\ out' = Append(out, f) /\ pc' = "writing" /\ back' = "select"
      /\ UNCHANGED <<todo, published, triggered, inbox, sent, closed>>
  BY DEF SelectMessage, Write, client
<1>2. TypeOK
  BY DEF LoopIInv
<1>3. ch \in Keys /\ subs[ch] \in Seq(Nat) /\ Head(subs[ch]) \in Nat
  BY <1>1, <1>2 DEF TypeOK, Keys
<1>4. f \in Frame /\ f.kind = "message" /\ f.chan = ch /\ f.val = Head(subs[ch])
  BY <1>3 DEF MessageFrame, Frame
<1> HIDE DEF f
<1>5. /\ subs' \in [Channels -> Seq(Nat) \cup {NoStream}] /\ IsFiniteSet(Keys')
      /\ out' \in Seq(Frame)
      /\ KeysAgree' /\ PendingOrdered' /\ WrittenPublished' /\ FramesRight'
  BY <1>1, <1>3, <1>4, WriteKeeps
<1>6. TypeOK'
  BY <1>1, <1>2, <1>5 DEF TypeOK
<1> QED BY <1>5, <1>6 DEF LoopIInv

LEMMA UnsubscribeFromChannelLoop == LoopIInv /\ UnsubscribeFromChannel => LoopIInv'
<1> SUFFICES ASSUME LoopIInv, UnsubscribeFromChannel PROVE LoopIInv'
  OBVIOUS
<1> DEFINE f == UnsubscribeFrame(Head(todo), Cardinality(Keys'))
<1>1. /\ pc = "unsubscribe" /\ todo # <<>> /\ todo' = Tail(todo)
      /\ subs' = [subs EXCEPT ![Head(todo)] = NoStream]
      /\ Write(f, "unsubscribe")
      /\ out' = Append(out, f) /\ pc' = "writing" /\ back' = "unsubscribe"
      /\ UNCHANGED <<published, triggered, inbox, sent, closed>>
  BY DEF UnsubscribeFromChannel, Write, client
<1>2. TypeOK
  BY DEF LoopIInv
<1>3. Head(todo) \in Channels /\ Tail(todo) \in Seq(Channels)
  BY <1>1, <1>2 DEF TypeOK
<1>4. Cardinality(Keys') \in Nat
  BY <1>1, <1>2, <1>3, SetStream
<1>5. f \in Frame /\ f.kind = "unsubscribe" /\ f.chan = Head(todo)
  BY <1>3, <1>4 DEF UnsubscribeFrame, Frame
<1> HIDE DEF f
<1>6. /\ subs' \in [Channels -> Seq(Nat) \cup {NoStream}] /\ IsFiniteSet(Keys')
      /\ out' \in Seq(Frame)
      /\ KeysAgree' /\ PendingOrdered' /\ WrittenPublished' /\ FramesRight'
  BY <1>1, <1>3, <1>5, WriteKeeps DEF IsMessage
<1>7. TypeOK'
  BY <1>1, <1>2, <1>3, <1>6 DEF TypeOK
<1> QED BY <1>6, <1>7 DEF LoopIInv

\* keys() in any order names the channels of the map (subscribe.rs:223-227).
LEMMA OrdersTyped ==
    ASSUME TypeOK, NEW order \in Orders(Keys)
    PROVE  /\ order \in Seq(Channels) /\ Len(order) = Cardinality(Keys)
           /\ DOMAIN order = 1..Cardinality(Keys)
           /\ \A i \in DOMAIN order : order[i] \in Keys
           /\ IsInjective(order)
<1>1. Cardinality(Keys) \in Nat
  BY FS_CardinalityType DEF TypeOK
<1>2. order \in [1..Cardinality(Keys) -> Keys]
  BY DEF Orders
<1>3. order \in Seq(Channels) /\ Len(order) = Cardinality(Keys)
  BY <1>1, <1>2, KeysInChannels
<1>4. IsInjective(order)
  BY <1>2 DEF Orders, IsInjective
<1> QED BY <1>2, <1>3, <1>4

LEMMA HandleCommandLoop == LoopIInv /\ HandleCommand => LoopIInv'
<1> SUFFICES ASSUME LoopIInv, HandleCommand PROVE LoopIInv'
  OBVIOUS
<1>1. TypeOK
  BY DEF LoopIInv
<1>2. /\ pc = "select" /\ inbox # <<>> /\ inbox' = Tail(inbox)
      /\ UNCHANGED <<sent, closed, published, triggered>>
  BY DEF HandleCommand, HandleSubscribe, HandleUnsubscribe, HandleUnknown,
         HandleMalformed, TakesCommand, Leave
<1>3. inbox' \in Seq(Command) /\ Head(inbox) \in Command
  BY <1>1, <1>2 DEF TypeOK
<1>4. Head(inbox).chans \in Seq(Channels)
  BY <1>3 DEF Command
<1>5. CASE HandleSubscribe
  <2>1. /\ todo' = Head(inbox).chans /\ pc' = "channels"
        /\ UNCHANGED <<back, subs, out>>
    BY <1>5 DEF HandleSubscribe
  <2>2. /\ subs' \in [Channels -> Seq(Nat) \cup {NoStream}] /\ IsFiniteSet(Keys')
        /\ KeysAgree' /\ PendingOrdered' /\ WrittenPublished' /\ FramesRight'
    BY <1>2, <2>1, OtherKeeps
  <2>3. TypeOK'
    BY <1>1, <1>2, <1>3, <1>4, <2>1, <2>2 DEF TypeOK
  <2> QED BY <2>2, <2>3 DEF LoopIInv
<1>6. CASE HandleUnsubscribe
  <2>1. /\ todo' \in Orders(Keys) \/ todo' = Head(inbox).chans
        /\ pc' = "unsubscribe"
        /\ UNCHANGED <<back, subs, out>>
    BY <1>6 DEF HandleUnsubscribe
  <2>2. todo' \in Seq(Channels)
    BY <1>1, <1>4, <2>1, OrdersTyped
  <2>3. /\ subs' \in [Channels -> Seq(Nat) \cup {NoStream}] /\ IsFiniteSet(Keys')
        /\ KeysAgree' /\ PendingOrdered' /\ WrittenPublished' /\ FramesRight'
    BY <1>2, <2>1, OtherKeeps
  <2>4. TypeOK'
    BY <1>1, <1>2, <1>3, <2>1, <2>2, <2>3 DEF TypeOK
  <2> QED BY <2>3, <2>4 DEF LoopIInv
<1>7. CASE HandleUnknown
  <2>1. /\ Write(ErrorFrame, "channels") /\ out' = Append(out, ErrorFrame)
        /\ pc' = "writing" /\ back' = "channels"
        /\ UNCHANGED <<todo, subs>>
    BY <1>7 DEF HandleUnknown, Write
  <2>2. ErrorFrame \in Frame /\ ErrorFrame.kind = "error"
    BY DEF ErrorFrame, Frame
  <2>3. /\ subs' \in [Channels -> Seq(Nat) \cup {NoStream}] /\ IsFiniteSet(Keys')
        /\ out' \in Seq(Frame)
        /\ KeysAgree' /\ PendingOrdered' /\ WrittenPublished' /\ FramesRight'
    BY <1>2, <2>1, <2>2, WriteKeeps DEF IsMessage
  <2>4. TypeOK'
    BY <1>1, <1>2, <1>3, <2>1, <2>3 DEF TypeOK
  <2> QED BY <2>3, <2>4 DEF LoopIInv
<1>8. CASE HandleMalformed
  <2>1. Leave /\ pc' = "done" /\ UNCHANGED <<back, todo, out>>
    BY <1>8 DEF HandleMalformed, Leave
  <2>2. /\ subs' \in [Channels -> Seq(Nat) \cup {NoStream}] /\ IsFiniteSet(Keys')
        /\ KeysAgree' /\ PendingOrdered' /\ WrittenPublished' /\ FramesRight'
    BY <2>1, LeaveKeeps
  <2>3. TypeOK'
    BY <1>1, <1>2, <1>3, <2>1, <2>2 DEF TypeOK
  <2> QED BY <2>2, <2>3 DEF LoopIInv
<1> QED BY <1>5, <1>6, <1>7, <1>8 DEF HandleCommand

\* The loop ends other than for a command.
LEMMA EndLoop ==
    LoopIInv /\ (Disconnected \/ ShutdownReceived \/ WriteFails) => LoopIInv'
<1> SUFFICES ASSUME LoopIInv, Disconnected \/ ShutdownReceived \/ WriteFails
             PROVE  LoopIInv'
  OBVIOUS
<1>1. /\ Leave /\ pc' = "done"
      /\ UNCHANGED <<back, todo, out, published, triggered, inbox, sent, closed>>
  BY DEF Disconnected, ShutdownReceived, WriteFails, Leave, client
<1>2. /\ subs' \in [Channels -> Seq(Nat) \cup {NoStream}] /\ IsFiniteSet(Keys')
      /\ KeysAgree' /\ PendingOrdered' /\ WrittenPublished' /\ FramesRight'
  BY <1>1, LeaveKeeps
<1>3. TypeOK'
  BY <1>1, <1>2 DEF LoopIInv, TypeOK
<1> QED BY <1>2, <1>3 DEF LoopIInv

\* The loop goes on.
LEMMA GoOnLoop ==
    LoopIInv /\ (EnterSelect \/ UnsubscribeDone \/ WriteCompletes) => LoopIInv'
<1> SUFFICES ASSUME LoopIInv, EnterSelect \/ UnsubscribeDone \/ WriteCompletes
             PROVE  LoopIInv'
  OBVIOUS
<1>1. /\ pc \in {"channels", "unsubscribe", "writing"}
      /\ pc' \in {"channels", "select", "unsubscribe"}
      /\ UNCHANGED <<back, todo, subs, out, published, triggered,
                     inbox, sent, closed>>
  BY DEF LoopIInv, TypeOK, EnterSelect, UnsubscribeDone, WriteCompletes, client
<1>2. /\ subs' \in [Channels -> Seq(Nat) \cup {NoStream}] /\ IsFiniteSet(Keys')
      /\ KeysAgree' /\ PendingOrdered' /\ WrittenPublished' /\ FramesRight'
  BY <1>1, OtherKeeps
<1>3. TypeOK'
  BY <1>1, <1>2 DEF LoopIInv, TypeOK
<1> QED BY <1>2, <1>3 DEF LoopIInv

\* What the client and others do.
LEMMA OthersLoop ==
    ASSUME LoopIInv,
           \/ \E ch \in Channels : Publish(ch)
           \/ \E cmd \in Command : ClientSends(cmd)
           \/ ClientCloses \/ Trigger \/ UNCHANGED vars
    PROVE  LoopIInv'
<1>1. TypeOK
  BY DEF LoopIInv
<1>2. ASSUME NEW ch \in Channels, Publish(ch) PROVE LoopIInv'
  <2>1. UNCHANGED <<pc, back, todo, out, triggered, inbox, sent, closed>>
    BY <1>2 DEF Publish, client
  <2>2. /\ subs' \in [Channels -> Seq(Nat) \cup {NoStream}] /\ IsFiniteSet(Keys')
        /\ published' \in Nat
        /\ KeysAgree' /\ PendingOrdered' /\ WrittenPublished' /\ FramesRight'
    BY <1>2, PublishKeeps
  <2>3. TypeOK'
    BY <1>1, <2>1, <2>2 DEF TypeOK
  <2> QED BY <2>2, <2>3 DEF LoopIInv
<1>3. ASSUME UNCHANGED <<pc, back, todo, subs, out, published>>,
             inbox' \in Seq(Command), sent' \in Nat,
             closed' \in BOOLEAN, triggered' \in BOOLEAN
      PROVE  LoopIInv'
  <2>1. /\ subs' \in [Channels -> Seq(Nat) \cup {NoStream}] /\ IsFiniteSet(Keys')
        /\ KeysAgree' /\ PendingOrdered' /\ WrittenPublished' /\ FramesRight'
    BY <1>3, OtherKeeps
  <2>2. TypeOK'
    BY <1>1, <1>3, <2>1 DEF TypeOK
  <2> QED BY <2>1, <2>2 DEF LoopIInv
<1>4. ASSUME NEW cmd \in Command, ClientSends(cmd) PROVE LoopIInv'
  <2>1. inbox' \in Seq(Command) /\ sent' \in Nat
    BY <1>1, <1>4 DEF ClientSends, TypeOK
  <2>2. closed' \in BOOLEAN /\ triggered' \in BOOLEAN
    BY <1>1, <1>4, Zenon DEF ClientSends, TypeOK
  <2> QED BY <1>3, <1>4, <2>1, <2>2 DEF ClientSends
<1>5. CASE ClientCloses
  <2>1. inbox' \in Seq(Command) /\ sent' \in Nat
    BY <1>1, <1>5 DEF ClientCloses, TypeOK
  <2>2. closed' \in BOOLEAN /\ triggered' \in BOOLEAN
    BY <1>1, <1>5, Zenon DEF ClientCloses, TypeOK
  <2> QED BY <1>3, <1>5, <2>1, <2>2 DEF ClientCloses
<1>6. CASE Trigger
  <2>1. inbox' \in Seq(Command) /\ sent' \in Nat
    BY <1>1, <1>6 DEF Trigger, client, TypeOK
  <2>2. closed' \in BOOLEAN /\ triggered' \in BOOLEAN
    BY <1>1, <1>6, Zenon DEF Trigger, client, TypeOK
  <2> QED BY <1>3, <1>6, <2>1, <2>2 DEF Trigger
<1>7. CASE UNCHANGED vars
  <2>1. inbox' \in Seq(Command) /\ sent' \in Nat
    BY <1>1, <1>7 DEF vars, client, TypeOK
  <2>2. closed' \in BOOLEAN /\ triggered' \in BOOLEAN
    BY <1>1, <1>7, Zenon DEF vars, client, TypeOK
  <2> QED BY <1>3, <1>7, <2>1, <2>2 DEF vars
<1> QED BY <1>2, <1>4, <1>5, <1>6, <1>7

\* The invariant of the loop under every client.
LEMMA LoopStepIInv == LoopIInv /\ LoopStep => LoopIInv'
  BY SubscribeToChannelLoop, SelectMessageLoop, UnsubscribeFromChannelLoop,
     HandleCommandLoop, EndLoop, GoOnLoop, OthersLoop
     DEF LoopStep, LoopActs

LEMMA InitLoopIInv == Init => LoopIInv
<1> SUFFICES ASSUME Init PROVE LoopIInv
  OBVIOUS
<1> USE DEF Init
<1>1. Keys = {}
  BY DEF Keys
<1>2. TypeOK
  <2>1. todo \in Seq(Channels) /\ IsFiniteSet(Keys)
    BY <1>1, SubscribeAssumption, FS_EmptySet
  <2>2. inbox \in Seq(Command) /\ out \in Seq(Frame)
    OBVIOUS
  <2>3. subs \in [Channels -> Seq(Nat) \cup {NoStream}]
    OBVIOUS
  <2> QED BY <2>1, <2>2, <2>3 DEF TypeOK
<1>3. KeysAgree
  BY <1>1 DEF KeysAgree, SubscribedAt
<1>4. PendingOrdered /\ WrittenPublished
  BY <1>1 DEF PendingOrdered, WrittenPublished
<1>5. FramesRight
  BY DEF FramesRight, MessagesWithinSubscriptions, MessagesOnceInOrder,
         WithinSubscriptions, EachOnceInOrder
<1> QED BY <1>2, <1>3, <1>4, <1>5 DEF LoopIInv

LEMMA NextLoop == [Next]_vars => LoopStep
  BY SubscribeAssumption DEF Next, LoopStep, LoopActs

\* With a client that sends what it likes, the loop writes a message only
\* between the confirmation of a subscription and that of its end, each once
\* and in the order of publication.
THEOREM AnyClient ==
    Spec => [](TypeOK /\ MessagesWithinSubscriptions /\ MessagesOnceInOrder)
<1>1. Init => LoopIInv
  BY InitLoopIInv
<1>2. LoopIInv /\ [Next]_vars => LoopIInv'
  BY NextLoop, LoopStepIInv
<1>3. LoopIInv => TypeOK /\ MessagesWithinSubscriptions /\ MessagesOnceInOrder
  BY DEF LoopIInv, FramesRight
<1> QED BY <1>1, <1>2, <1>3, PTL DEF Spec

-----------------------------------------------------------------------------
\* The session of a Subscriber: what is true of it without the order of its
\* commands and confirmations.

CallRecord == [method : {"subscribe", "unsubscribe", "next_message"},
               asked : Seq(Channels), before : Seq(Channels), left : Nat,
               pc : {"waiting", "returned", "failed"}]

SessionTypes == /\ user \in {"Subscriber", "any"}
                /\ call \in CallRecord
                /\ list \in Seq(Channels)
                /\ read \in 0..Len(out)
                /\ astray \in BOOLEAN

\* How the fields of the call go together.
CallInv ==
    /\ call.method = "subscribe" => call.left <= Len(call.asked)
    /\ call.method = "next_message" => call.pc = "failed"
    /\ call.pc = "returned" => call.left = 0

\* How many channels of the subscribe under way are confirmed.
SoFar == IF call.method = "subscribe" /\ call.pc = "waiting"
         THEN Len(call.asked) - call.left ELSE 0

Listed(ch) == ch \in ToSet(list) \/ \E i \in 1..SoFar : call.asked[i] = ch

\* ListAgrees, by the entries, before a call fails.
ListHolds ==
    user = "Subscriber" /\ call.pc # "failed" =>
        \A ch \in Channels : Listed(ch) <=> SubscribedAt(out, read, ch)

\* An unsubscribe of channels that the list holds once each.
Legal ==
    call.method = "unsubscribe" =>
        LET asked == IF call.asked = <<>> THEN call.before ELSE call.asked
        IN  \A i \in DOMAIN asked :
               Once(asked, asked[i]) /\ Once(call.before, asked[i])

\* FailsOnlyFor, by Legal, of the first call that fails.
FailureExplained ==
    call.pc = "failed" /\ Legal =>
        (read > 0 /\ IsMessage(out[read])) \/ pc = "done" \/ closed

BaseIInv == LoopIInv /\ SessionTypes /\ CallInv /\ ListHolds

LEMMA CallFields ==
    ASSUME SessionTypes
    PROVE  /\ call.method \in {"subscribe", "unsubscribe", "next_message"}
           /\ call.asked \in Seq(Channels) /\ call.before \in Seq(Channels)
           /\ call.left \in Nat /\ call.pc \in {"waiting", "returned", "failed"}
           /\ Len(call.asked) \in Nat /\ list \in Seq(Channels)
           /\ read \in 0..Len(out) /\ read \in Nat /\ Len(out) \in Nat
<1>1. Len(out) \in Nat \/ read \notin 0..Len(out)
  OBVIOUS
<1> QED BY DEF SessionTypes, CallRecord

LEMMA ListHoldsMeans ==
    ASSUME SessionTypes, CallInv PROVE ListHolds \/ astray <=> ListAgrees
<1> DEFINE confirmed == IF call.method = "subscribe" /\ call.pc = "waiting"
                        THEN SubSeq(call.asked, 1, Len(call.asked) - call.left)
                        ELSE <<>>
<1>1. /\ SoFar \in 0..Len(call.asked)
      /\ SoFar = 0 \/ SoFar = Len(call.asked) - call.left
  BY CallFields DEF SoFar, CallInv
<1>2. /\ confirmed \in Seq(Channels) /\ Len(confirmed) = SoFar
      /\ \A i \in 1..SoFar : confirmed[i] = call.asked[i]
  <2>1. CASE call.method = "subscribe" /\ call.pc = "waiting"
    BY <1>1, <2>1, CallFields DEF SoFar
  <2>2. CASE ~(call.method = "subscribe" /\ call.pc = "waiting")
    BY <2>2 DEF SoFar
  <2> QED BY <2>1, <2>2
<1> HIDE DEF confirmed
<1>3. ASSUME NEW ch PROVE ch \in ToSet(list \o confirmed) <=> Listed(ch)
  <2>1. /\ list \in Seq(Channels)
        /\ DOMAIN (list \o confirmed) = 1..Len(list) + SoFar
        /\ \A i \in 1..Len(list) : (list \o confirmed)[i] = list[i]
        /\ \A i \in 1..SoFar : (list \o confirmed)[Len(list) + i] = confirmed[i]
    <3>1. /\ list \in Seq(Channels) /\ Len(list) \in Nat
          /\ confirmed \in Seq(Channels) /\ Len(confirmed) = SoFar
          /\ DOMAIN list = 1..Len(list)
      BY <1>2, CallFields
    <3>2. /\ list \o confirmed \in Seq(Channels)
          /\ Len(list \o confirmed) = Len(list) + SoFar
          /\ \A i \in 1..Len(list) + SoFar : (list \o confirmed)[i] =
                IF i <= Len(list) THEN list[i] ELSE confirmed[i - Len(list)]
      BY <3>1, ConcatProperties
    <3>3. \A i \in 1..SoFar : /\ Len(list) + i \in 1..Len(list) + SoFar
                             /\ ~(Len(list) + i <= Len(list))
                             /\ Len(list) + i - Len(list) = i
      BY <1>1, <3>1
    <3>4. \A i \in 1..Len(list) : i \in 1..Len(list) + SoFar /\ i <= Len(list)
      BY <1>1, <3>1
    <3> QED BY <3>1, <3>2, <3>3, <3>4
  <2>2. ASSUME ch \in ToSet(list \o confirmed) PROVE Listed(ch)
    <3>1. PICK i \in 1..Len(list) + SoFar : (list \o confirmed)[i] = ch
      BY <2>1, <2>2 DEF ToSet
    <3>2. CASE i \in 1..Len(list)
      BY <2>1, <3>1, <3>2 DEF Listed, ToSet
    <3>3. CASE i \notin 1..Len(list)
      <4>1. i - Len(list) \in 1..SoFar /\ i = Len(list) + (i - Len(list))
        BY <1>1, <2>1, <3>3
      <4> QED BY <1>2, <2>1, <3>1, <4>1 DEF Listed
    <3> QED BY <3>2, <3>3
  <2>3. ASSUME Listed(ch) PROVE ch \in ToSet(list \o confirmed)
    <3>1. CASE ch \in ToSet(list)
      <4>1. PICK i \in DOMAIN list : list[i] = ch
        BY <3>1 DEF ToSet
      <4>2. i \in 1..Len(list) /\ i \in 1..Len(list) + SoFar
        BY <1>1, <2>1
      <4> QED BY <2>1, <4>1, <4>2 DEF ToSet
    <3>2. CASE \E i \in 1..SoFar : call.asked[i] = ch
      <4>1. PICK i \in 1..SoFar : call.asked[i] = ch
        BY <3>2
      <4>2. Len(list) + i \in 1..Len(list) + SoFar
        BY <1>1, <2>1
      <4> QED BY <1>2, <2>1, <4>1, <4>2 DEF ToSet
    <3> QED BY <2>3, <3>1, <3>2 DEF Listed
  <2> QED BY <2>2, <2>3
<1>4. ListAgrees <=> (call.pc # "failed" /\ ~astray =>
         \A ch \in Channels : user = "Subscriber" =>
            (ch \in ToSet(list \o confirmed) <=> SubscribedAt(out, read, ch)))
  BY DEF ListAgrees, confirmed
<1> QED BY <1>3, <1>4 DEF ListHolds

LEMMA FailureExplainedMeans ==
    ASSUME SessionTypes PROVE FailureExplained \/ astray <=> FailsOnlyFor
<1> DEFINE asked == IF call.asked = <<>> THEN call.before ELSE call.asked
           once(seq, ch) == Cardinality({i \in DOMAIN seq : seq[i] = ch}) = 1
           legal == call.method = "unsubscribe" =>
                       \A ch \in ToSet(asked) :
                          once(asked, ch) /\ once(call.before, ch)
<1>1. asked \in Seq(Channels) /\ call.before \in Seq(Channels)
  BY CallFields
<1>2. Legal <=> (call.method = "unsubscribe" =>
         \A i \in DOMAIN asked :
            Once(asked, asked[i]) /\ Once(call.before, asked[i]))
  BY DEF Legal
<1> HIDE DEF asked
<1>3. \A ch : /\ once(asked, ch) <=> Once(asked, ch)
              /\ once(call.before, ch) <=> Once(call.before, ch)
  BY <1>1, CountedOnce
<1> HIDE DEF once
<1>4. legal <=> Legal
  BY <1>2, <1>3 DEF ToSet
<1>5. FailsOnlyFor <=> (call.pc = "failed" /\ legal =>
         (read > 0 /\ IsMessage(out[read])) \/ pc = "done" \/ closed \/ astray)
  BY DEF FailsOnlyFor, once, asked
<1> QED BY <1>4, <1>5 DEF FailureExplained

\* A step of the loop, of the publishers or of another client leaves the call
\* as it is and the frames that were read.
LEMMA LoopAppends ==
    ASSUME LoopIInv, LoopStep
    PROVE  /\ out' = out \/ \E f \in Frame : out' = Append(out, f)
           /\ pc = "done" => pc' = "done"
           /\ closed => closed'
<1>1. ASSUME NEW f, NEW label, Write(f, label), LoopIInv'
      PROVE  \E g \in Frame : out' = Append(out, g)
  <2>1. out' = Append(out, f) /\ out \in Seq(Frame) /\ out' \in Seq(Frame)
    BY <1>1 DEF Write, LoopIInv, TypeOK
  <2>2. Len(out') = Len(out) + 1 /\ out'[Len(out) + 1] = f /\ Len(out) \in Nat
    BY <2>1
  <2>3. out'[Len(out) + 1] \in Frame
    BY <2>1, <2>2
  <2> QED BY <2>1, <2>2, <2>3
<1>2. LoopIInv'
  BY LoopStepIInv
<1>3. out' = out \/ \E f \in Frame : out' = Append(out, f)
  <2>1. CASE SubscribeToChannel \/ UnsubscribeFromChannel \/ HandleUnknown
             \/ \E ch \in Channels : SelectMessage(ch)
    BY <1>1, <1>2, <2>1
       DEF SubscribeToChannel, UnsubscribeFromChannel, HandleUnknown, SelectMessage
  <2>2. CASE \/ EnterSelect
             \/ HandleSubscribe \/ HandleUnsubscribe \/ HandleMalformed
             \/ UnsubscribeDone \/ Disconnected \/ ShutdownReceived
             \/ WriteCompletes \/ WriteFails
             \/ \E ch \in Channels : Publish(ch)
             \/ \E cmd \in Command : ClientSends(cmd)
             \/ ClientCloses \/ Trigger \/ UNCHANGED vars
    BY <2>2 DEF EnterSelect, HandleSubscribe, HandleUnsubscribe, HandleMalformed,
                UnsubscribeDone, Disconnected, ShutdownReceived, WriteCompletes,
                WriteFails, Publish, ClientSends, ClientCloses, Trigger, vars, Leave
  <2> QED BY <2>1, <2>2 DEF LoopStep, LoopActs, HandleCommand
<1>4. pc = "done" => pc' = "done"
  BY DEF LoopStep, LoopActs, HandleCommand, SubscribeToChannel,
         UnsubscribeFromChannel, HandleUnknown, SelectMessage, TakesCommand,
         EnterSelect, HandleSubscribe, HandleUnsubscribe, HandleMalformed,
         UnsubscribeDone, Disconnected, ShutdownReceived, WriteCompletes,
         WriteFails, Publish, ClientSends, ClientCloses, Trigger, vars
<1>5. closed => closed'
  <2>1. CASE ClientCloses
    BY <2>1, Zenon DEF ClientCloses
  <2>2. CASE ~ClientCloses
    <3>1. closed' = closed
      BY <2>2 DEF LoopStep, LoopActs, HandleCommand, SubscribeToChannel,
         UnsubscribeFromChannel, HandleUnknown, SelectMessage,
         EnterSelect, HandleSubscribe, HandleUnsubscribe, HandleMalformed,
         UnsubscribeDone, Disconnected, ShutdownReceived, WriteCompletes,
         WriteFails, Publish, ClientSends, Trigger, vars, client
    <3> QED BY <3>1, Zenon
  <2> QED BY <2>1, <2>2
<1> QED BY <1>3, <1>4, <1>5

LEMMA LoopStepBase ==
    ASSUME BaseIInv, LoopStep, UNCHANGED <<user, callVars>>
    PROVE  /\ BaseIInv'
           /\ FailureExplained => FailureExplained'
<1>1. /\ LoopIInv /\ SessionTypes /\ CallInv /\ ListHolds
      /\ out \in Seq(Frame) /\ read \in 0..Len(out)
  BY DEF BaseIInv, SessionTypes, LoopIInv, TypeOK
<1>2. /\ user' = user /\ call' = call /\ list' = list /\ read' = read
      /\ astray' = astray
  BY DEF callVars
<1>3. /\ out' = out \/ \E f \in Frame : out' = Append(out, f)
      /\ pc = "done" => pc' = "done"
      /\ closed => closed'
  BY <1>1, LoopAppends
<1>4. /\ read \in 0..Len(out') /\ (read > 0 => out'[read] = out[read])
      /\ \A ch : SubscribedAt(out', read, ch) <=> SubscribedAt(out, read, ch)
  <2>1. CASE out' = out
    BY <1>1, <2>1
  <2>2. ASSUME NEW f \in Frame, out' = Append(out, f)
        PROVE  /\ read \in 0..Len(out') /\ (read > 0 => out'[read] = out[read])
               /\ \A ch :
                     SubscribedAt(out', read, ch) <=> SubscribedAt(out, read, ch)
    <3>1. /\ Len(out') = Len(out) + 1
          /\ \A i \in 1..Len(out) : out'[i] = out[i]
          /\ \A n \in 0..Len(out) : \A ch :
                SubscribedAt(out', n, ch) <=> SubscribedAt(out, n, ch)
      BY <1>1, <2>2, AppendFrame
    <3>2. read \in 0..Len(out) + 1 /\ (read > 0 => read \in 1..Len(out))
      BY <1>1
    <3> QED BY <1>1, <3>1, <3>2
  <2> QED BY <1>3, <2>1, <2>2
<1>5. SessionTypes' /\ CallInv'
  BY <1>1, <1>2, <1>4 DEF SessionTypes, CallInv
<1>6. ListHolds'
  <2>1. SoFar' = SoFar
    BY <1>2 DEF SoFar
  <2>2. \A ch : Listed(ch)' <=> Listed(ch)
    BY <1>2, <2>1 DEF Listed
  <2> QED BY <1>1, <1>2, <1>4, <2>2 DEF ListHolds
<1>7. FailureExplained => FailureExplained'
  <2>1. Legal' <=> Legal
    BY <1>2 DEF Legal
  <2> QED BY <1>2, <1>3, <1>4, <2>1 DEF FailureExplained
<1>8. LoopIInv'
  BY <1>1, LoopStepIInv
<1> QED BY <1>5, <1>6, <1>7, <1>8 DEF BaseIInv

\* Reading a frame.
LEMMA ReadFrame ==
    ASSUME BaseIInv, Available
    PROVE  /\ read + 1 \in 1..Len(out) /\ NextFrame \in Frame
           /\ read + 1 \in 0..Len(out) /\ read + 1 > 0
           /\ \A ch : SubscribedAt(out, read + 1, ch) <=>
                         \/ NextFrame.kind = "subscribe" /\ NextFrame.chan = ch
                         \/ /\ SubscribedAt(out, read, ch)
                            /\ ~(NextFrame.kind = "unsubscribe" /\ NextFrame.chan = ch)
<1>1. /\ out \in Seq(Frame) /\ Len(out) \in Nat
      /\ read \in 0..Len(out) /\ read < Len(out)
  BY DEF BaseIInv, LoopIInv, TypeOK, SessionTypes, Available
<1>2. read \in 0..Len(out) - 1 /\ read + 1 \in 1..Len(out)
  BY <1>1
<1>3. NextFrame \in Frame
  BY <1>1, <1>2 DEF NextFrame
<1>4. \A ch : SubscribedAt(out, read + 1, ch) <=>
                 \/ NextFrame.kind = "subscribe" /\ NextFrame.chan = ch
                 \/ /\ SubscribedAt(out, read, ch)
                    /\ ~(NextFrame.kind = "unsubscribe" /\ NextFrame.chan = ch)
  BY <1>1, <1>2, NextFrameDecides DEF NextFrame
<1> QED BY <1>1, <1>2, <1>3, <1>4

\* A call that starts, after one that did not fail.
LEMMA StartBase ==
    ASSUME BaseIInv, ~astray', NEW chans \in Calls,
           StartSubscribe(chans) \/ StartUnsubscribe(chans)
    PROVE  /\ BaseIInv' /\ FailureExplained'
           /\ call' \in CallRecord /\ call'.pc = "waiting" /\ call'.before = list
           /\ call'.asked = chans
<1>1. PICK cmd \in Command : ClientSends(cmd)
  <2>1. chans \in Seq(Channels)
    BY SubscriberAssumption
  <2>2. ASSUME NEW kind \in {"malformed", "subscribe", "unsubscribe"}
        PROVE  [kind |-> kind, chans |-> chans] \in Command
    BY <2>1 DEF Command
  <2>3. CASE StartSubscribe(chans)
    BY <2>2, <2>3 DEF StartSubscribe
  <2>4. CASE StartUnsubscribe(chans)
    BY <2>2, <2>4 DEF StartUnsubscribe
  <2> QED BY <2>3, <2>4
<1>2. LoopIInv'
  BY <1>1, LoopStepIInv DEF BaseIInv, LoopStep
<1>3. /\ user' = user /\ list' = list /\ read' = read /\ out' = out
      /\ call.pc = "returned" /\ astray' \in BOOLEAN
  <2>1. /\ user' = user /\ list' = list /\ read' = read /\ out' = out
        /\ CallsAgain
    BY DEF StartSubscribe, StartUnsubscribe, ClientSends
  <2>2. astray' = (astray \/ call.pc = "failed")
    BY <2>1 DEF CallsAgain
  <2>3. astray' \in BOOLEAN
    BY <2>2, Zenon
  <2>4. call.pc # "failed"
    BY <2>2, Zenon
  <2> QED BY <2>1, <2>3, <2>4, CallFields DEF CallsAgain, Rests, BaseIInv
<1>4. chans \in Seq(Channels) /\ Len(chans) \in Nat
  BY SubscriberAssumption
<1>5. SessionTypes
  BY DEF BaseIInv
<1>6. \/ call' = Call("subscribe", chans, list, Len(chans))
      \/ call' = Call("unsubscribe", chans, list, Leaving(chans))
  BY DEF StartSubscribe, StartUnsubscribe
<1>7. Leaving(chans) \in Nat
  BY <1>4, <1>5, CallFields DEF Leaving
<1>8. /\ call' \in CallRecord
      /\ call'.method \in {"subscribe", "unsubscribe"}
      /\ call'.asked = chans /\ call'.before = list /\ call'.pc = "waiting"
      /\ call'.method = "subscribe" => call'.left = Len(chans)
  BY <1>4, <1>5, <1>6, <1>7, CallFields DEF Call, CallRecord
<1>9. SessionTypes'
  BY <1>3, <1>5, <1>8 DEF SessionTypes
<1>10. CallInv'
  BY <1>4, <1>8 DEF CallInv
<1>11. ListHolds'
  <2>1. SoFar = 0 /\ SoFar' = 0
    BY <1>3, <1>4, <1>8 DEF SoFar
  <2>2. \A ch : Listed(ch) <=> Listed(ch)'
    BY <1>3, <2>1 DEF Listed
  <2> QED BY <1>3, <2>2 DEF BaseIInv, ListHolds
<1>12. FailureExplained'
  BY <1>8 DEF FailureExplained
<1> QED BY <1>2, <1>8, <1>9, <1>10, <1>11, <1>12 DEF BaseIInv

\* A response that is the one the call expects.
LEMMA ConfirmedBase == BaseIInv /\ Confirmed => BaseIInv'
<1> SUFFICES ASSUME BaseIInv, Confirmed PROVE BaseIInv'
  OBVIOUS
<1> DEFINE kept == IF call.method = "subscribe" THEN list
                   ELSE Retain(list, NextFrame.chan)
           removed == Len(list) - Len(kept)
<1>1. /\ user = "Subscriber" /\ call.pc = "waiting" /\ call.left > 0
      /\ Available /\ Confirms(NextFrame)
      /\ list' = kept
      /\ call' = IF call.method = "unsubscribe" /\ removed # 1
                 THEN [call EXCEPT !.pc = "failed"]
                 ELSE [call EXCEPT !.left = @ - 1]
      /\ read' = read + 1 /\ UNCHANGED vars /\ user' = user
      /\ astray' = astray
  BY DEF Confirmed, Waits
<1>2. LoopIInv'
  BY <1>1, LoopStepIInv DEF BaseIInv, LoopStep
<1>3. SessionTypes /\ CallInv /\ ListHolds /\ out' = out
  BY <1>1 DEF BaseIInv, vars
<1>4. kept \in Seq(Channels)
  BY <1>3, CallFields, RetainDrops
<1>5. ToSet(kept) = IF call.method = "subscribe" THEN ToSet(list)
                    ELSE ToSet(list) \ {NextFrame.chan}
  BY <1>3, CallFields, RetainDrops
<1> HIDE DEF kept, removed
<1>6. /\ call' \in CallRecord
      /\ call'.method = call.method /\ call'.asked = call.asked
      /\ call'.pc # "failed" => call'.left = call.left - 1 /\ call'.pc = "waiting"
      /\ call'.pc \in {"waiting", "failed"}
      /\ call.method = "subscribe" =>
            call'.left = call.left - 1 /\ call'.pc = "waiting"
  <2>1. call.left - 1 \in Nat /\ call \in CallRecord
    BY <1>1, <1>3, CallFields DEF SessionTypes
  <2>2. CASE call.method = "unsubscribe" /\ removed # 1
    <3>1. call' = [call EXCEPT !.pc = "failed"]
      BY <1>1, <2>2
    <3> QED BY <2>1, <2>2, <3>1 DEF CallRecord
  <2>3. CASE ~(call.method = "unsubscribe" /\ removed # 1)
    <3>1. call' = [call EXCEPT !.left = call.left - 1]
      BY <1>1, <2>3
    <3> QED BY <1>1, <2>1, <3>1 DEF CallRecord
  <2> QED BY <2>2, <2>3
<1>7. SessionTypes'
  BY <1>1, <1>3, <1>4, <1>6, ReadFrame DEF SessionTypes
<1>8. CallInv'
  BY <1>1, <1>3, <1>6, CallFields DEF CallInv
<1>9. ListHolds'
  <2> SUFFICES ASSUME call'.pc # "failed", NEW ch \in Channels
               PROVE  Listed(ch)' <=> SubscribedAt(out, read + 1, ch)
    BY <1>1, <1>3 DEF ListHolds
  <2>1. Listed(ch) <=> SubscribedAt(out, read, ch)
    BY <1>1, <1>3 DEF ListHolds
  <2>2. SubscribedAt(out, read + 1, ch) <=>
           \/ NextFrame.kind = "subscribe" /\ NextFrame.chan = ch
           \/ /\ SubscribedAt(out, read, ch)
              /\ ~(NextFrame.kind = "unsubscribe" /\ NextFrame.chan = ch)
    BY <1>1, ReadFrame
  <2>3. CASE call.method = "subscribe"
    <3>1. /\ SoFar' = SoFar + 1 /\ SoFar \in Nat
          /\ SoFar + 1 = Len(call.asked) - call.left + 1
      BY <1>1, <1>3, <1>6, <2>3, CallFields DEF SoFar, CallInv
    <3>2. NextFrame.kind = "subscribe" /\ NextFrame.chan = call.asked[SoFar + 1]
      BY <1>1, <2>3, <3>1 DEF Confirms
    <3>3. Listed(ch)' <=> Listed(ch) \/ call.asked[SoFar + 1] = ch
      <4>1. \A i : i \in 1..SoFar + 1 <=> i \in 1..SoFar \/ i = SoFar + 1
        BY <3>1
      <4>2. ToSet(list') = ToSet(list) /\ call'.asked = call.asked
        BY <1>1, <1>5, <1>6, <2>3
      <4> QED BY <3>1, <4>1, <4>2 DEF Listed
    <3> QED BY <2>1, <2>2, <3>2, <3>3
  <2>4. CASE call.method # "subscribe"
    <3>1. call.method = "unsubscribe"
      BY <1>1, <1>3, <2>4, CallFields DEF CallInv
    <3>2. SoFar = 0 /\ SoFar' = 0
      BY <1>6, <2>4 DEF SoFar
    <3>3. NextFrame.kind = "unsubscribe"
      BY <1>1, <3>1 DEF Confirms
    <3>4. Listed(ch)' <=> Listed(ch) /\ NextFrame.chan # ch
      BY <1>1, <1>5, <2>4, <3>2 DEF Listed
    <3> QED BY <2>1, <2>2, <3>3, <3>4
  <2> QED BY <2>3, <2>4
<1> QED BY <1>2, <1>7, <1>8, <1>9 DEF BaseIInv

\* The last response has come.
LEMMA ReturnBase ==
    BaseIInv /\ Return => BaseIInv' /\ FailureExplained' /\ call'.pc = "returned"
<1> SUFFICES ASSUME BaseIInv, Return
             PROVE  BaseIInv' /\ FailureExplained' /\ call'.pc = "returned"
  OBVIOUS
<1>1. /\ user = "Subscriber" /\ call.pc = "waiting" /\ call.left = 0
      /\ call' = [call EXCEPT !.pc = "returned"]
      /\ list' = IF call.method = "subscribe" THEN list \o call.asked ELSE list
      /\ read' = read /\ UNCHANGED vars /\ user' = user /\ astray' = astray
  BY DEF Return
<1>2. LoopIInv'
  BY <1>1, LoopStepIInv DEF BaseIInv, LoopStep
<1>3. SessionTypes /\ CallInv /\ ListHolds /\ out' = out
  BY <1>1 DEF BaseIInv, vars
<1>4. /\ call' \in CallRecord
      /\ call'.method = call.method /\ call'.asked = call.asked
      /\ call'.left = 0 /\ call'.pc = "returned"
  BY <1>1, <1>3, CallFields DEF CallRecord, SessionTypes
<1>5. /\ list \in Seq(Channels) /\ call.asked \in Seq(Channels)
      /\ Len(list) \in Nat /\ Len(call.asked) \in Nat
  BY <1>3, CallFields
<1>6. /\ list \o call.asked \in Seq(Channels)
      /\ Len(list \o call.asked) = Len(list) + Len(call.asked)
      /\ \A i \in 1..Len(list) + Len(call.asked) : (list \o call.asked)[i] =
            IF i <= Len(list) THEN list[i] ELSE call.asked[i - Len(list)]
  BY <1>5, ConcatProperties
<1>7. SessionTypes'
  BY <1>1, <1>3, <1>4, <1>5, <1>6 DEF SessionTypes
<1>8. CallInv'
  BY <1>3, <1>4, <1>5, <1>1 DEF CallInv
<1>9. ListHolds'
  <2> SUFFICES ASSUME NEW ch \in Channels
               PROVE  Listed(ch)' <=> Listed(ch)
    BY <1>1, <1>3 DEF ListHolds
  <2>1. SoFar' = 0
    BY <1>4 DEF SoFar
  <2>2. CASE call.method = "subscribe"
    <3>1. SoFar = Len(call.asked)
      BY <1>1, <1>5, <2>2 DEF SoFar
    <3>2. list' = list \o call.asked
      BY <1>1, <2>2
    <3>3. ASSUME Listed(ch) PROVE ch \in ToSet(list \o call.asked)
      <4>1. CASE ch \in ToSet(list)
        <5>1. PICK i \in 1..Len(list) : list[i] = ch
          BY <1>5, <4>1 DEF ToSet
        <5>2. i \in 1..Len(list) + Len(call.asked) /\ i <= Len(list)
          BY <1>5
        <5>3. (list \o call.asked)[i] = ch /\ i \in DOMAIN (list \o call.asked)
          BY <1>6, <5>1, <5>2
        <5> QED BY <5>3 DEF ToSet
      <4>2. CASE \E i \in 1..SoFar : call.asked[i] = ch
        <5>1. PICK i \in 1..Len(call.asked) : call.asked[i] = ch
          BY <3>1, <4>2
        <5>2. /\ Len(list) + i \in 1..Len(list) + Len(call.asked)
              /\ ~(Len(list) + i <= Len(list)) /\ Len(list) + i - Len(list) = i
          BY <1>5
        <5>3. /\ (list \o call.asked)[Len(list) + i] = ch
              /\ Len(list) + i \in DOMAIN (list \o call.asked)
          BY <1>6, <5>1, <5>2
        <5> QED BY <5>3 DEF ToSet
      <4> QED BY <3>3, <4>1, <4>2 DEF Listed
    <3>4. ASSUME ch \in ToSet(list \o call.asked) PROVE Listed(ch)
      <4>1. PICK i \in 1..Len(list) + Len(call.asked) : (list \o call.asked)[i] = ch
        BY <1>6, <3>4 DEF ToSet
      <4>2. CASE i <= Len(list)
        <5>1. i \in DOMAIN list /\ list[i] = ch
          BY <1>5, <1>6, <4>1, <4>2
        <5> QED BY <5>1 DEF Listed, ToSet
      <4>3. CASE ~(i <= Len(list))
        <5>1. i - Len(list) \in 1..SoFar /\ call.asked[i - Len(list)] = ch
          BY <1>5, <1>6, <3>1, <4>1, <4>3
        <5> QED BY <5>1 DEF Listed
      <4> QED BY <4>2, <4>3
    <3> QED BY <2>1, <3>2, <3>3, <3>4 DEF Listed
  <2>3. CASE call.method # "subscribe"
    <3>1. SoFar = 0 /\ list' = list
      BY <1>1, <2>3 DEF SoFar
    <3> QED BY <2>1, <3>1 DEF Listed
  <2> QED BY <2>2, <2>3
<1>10. FailureExplained'
  BY <1>4 DEF FailureExplained
<1> QED BY <1>2, <1>4, <1>7, <1>8, <1>9, <1>10 DEF BaseIInv

\* A call that fails.
LEMMA FailBase ==
    ASSUME BaseIInv, Unexpected \/ Reset \/ Drop
    PROVE  BaseIInv' /\ call' = [call EXCEPT !.pc = "failed"] /\ call'.pc = "failed"
<1>1. /\ call' = [call EXCEPT !.pc = "failed"]
      /\ user' = user /\ list' = list /\ out' = out /\ astray' = astray
      /\ read' = read \/ (read' = read + 1 /\ Available)
  <2>1. CASE Unexpected
    BY <2>1 DEF Unexpected, vars
  <2>2. CASE Reset
    <3>1. read' = read
      BY <2>2 DEF Reset
    <3> QED BY <2>2, <3>1, Zenon DEF Reset, vars
  <2>3. CASE Drop
    <3>1. read' = read
      BY <2>3 DEF Drop
    <3> QED BY <2>3, <3>1, Zenon DEF Drop, ClientCloses
  <2> QED BY <2>1, <2>2, <2>3
<1>2. UNCHANGED vars \/ ClientCloses
  BY DEF Unexpected, Reset, Drop
<1>3. LoopIInv'
  BY <1>2, LoopStepIInv DEF BaseIInv, LoopStep
<1>4. SessionTypes /\ CallInv
  BY DEF BaseIInv
<1>5. /\ call' \in CallRecord /\ call'.pc = "failed"
      /\ call'.method = call.method /\ call'.asked = call.asked
      /\ call'.left = call.left
  BY <1>1, <1>4 DEF CallRecord, SessionTypes
<1>6. SessionTypes'
  BY <1>1, <1>4, <1>5, ReadFrame DEF SessionTypes
<1>7. CallInv' /\ ListHolds'
  BY <1>4, <1>5 DEF CallInv, ListHolds
<1> QED BY <1>1, <1>3, <1>5, <1>6, <1>7 DEF BaseIInv

\* The message that a resting Subscriber reads.
LEMMA NextMessageBase ==
    BaseIInv /\ NextMessage /\ ~astray' =>
        BaseIInv' /\ (call'.pc = "failed" <=> ~IsMessage(NextFrame))
<1> SUFFICES ASSUME BaseIInv, NextMessage, ~astray'
             PROVE  BaseIInv' /\ (call'.pc = "failed" <=> ~IsMessage(NextFrame))
  OBVIOUS
<1>1. /\ user = "Subscriber" /\ call.pc = "returned" /\ Available
      /\ read' = read + 1
      /\ call' = IF IsMessage(NextFrame) THEN call
                 ELSE [call EXCEPT !.method = "next_message", !.pc = "failed"]
      /\ UNCHANGED vars /\ user' = user /\ list' = list
      /\ astray' \in BOOLEAN
  <2>1. astray' = (astray \/ call.pc = "failed")
    BY DEF NextMessage, CallsAgain
  <2>2. astray' \in BOOLEAN
    BY <2>1, Zenon
  <2>3. call.pc # "failed"
    BY <2>1, Zenon
  <2> QED BY <2>2, <2>3, CallFields DEF NextMessage, CallsAgain, Rests, BaseIInv
<1>2. LoopIInv'
  BY <1>1, LoopStepIInv DEF BaseIInv, LoopStep
<1>3. SessionTypes /\ CallInv /\ ListHolds /\ out' = out
  BY <1>1 DEF BaseIInv, vars
<1>4. CASE IsMessage(NextFrame)
  <2>1. call' = call
    BY <1>1, <1>4
  <2>2. SessionTypes' /\ CallInv'
    BY <1>1, <1>3, <2>1, ReadFrame DEF SessionTypes, CallInv
  <2>3. \A ch : Listed(ch)' <=> Listed(ch)
    BY <1>1, <2>1 DEF Listed, SoFar
  <2>4. \A ch : SubscribedAt(out, read + 1, ch) <=> SubscribedAt(out, read, ch)
    BY <1>1, <1>4, ReadFrame DEF IsMessage
  <2>5. ListHolds'
    BY <1>1, <1>3, <2>1, <2>3, <2>4 DEF ListHolds
  <2> QED BY <1>1, <1>2, <1>4, <2>1, <2>2, <2>5 DEF BaseIInv
<1>5. CASE ~IsMessage(NextFrame)
  <2>1. /\ call' \in CallRecord /\ call'.pc = "failed"
        /\ call'.method = "next_message"
    BY <1>1, <1>3, <1>5 DEF CallRecord, SessionTypes
  <2>2. SessionTypes'
    BY <1>1, <1>3, <2>1, ReadFrame DEF SessionTypes
  <2>3. CallInv' /\ ListHolds'
    BY <2>1 DEF CallInv, ListHolds
  <2> QED BY <1>2, <1>5, <2>1, <2>2, <2>3 DEF BaseIInv
<1> QED BY <1>4, <1>5

-----------------------------------------------------------------------------
\* Why a call gets the responses it expects: the commands of the Subscriber and
\* the confirmations of the loop stay in step.

Attached == user = "Subscriber" /\ call.pc # "failed" /\ ~closed /\ pc # "done"

\* Where the loop goes on, after the write under way.
Phase == IF pc = "writing" THEN back ELSE pc
PhaseOf(method) == IF method = "subscribe" THEN "channels" ELSE "unsubscribe"

\* The call may still wait for the confirmations of the channels rest.
Expected(rest) ==
    /\ Len(rest) <= call.left
    /\ call.method = "subscribe" =>
          /\ Len(rest) = call.left
          /\ \A n \in DOMAIN rest :
                rest[n] = call.asked[Len(call.asked) - call.left + n]
    /\ call.method = "unsubscribe" /\ Legal =>
          IsInjective(rest) /\ \A n \in DOMAIN rest : Once(list, rest[n])

\* Those that are written and not read are the frames at the places p; the other
\* frames that are not read are messages.
Unread(rest, p) ==
    /\ Increasing(p)
    /\ Len(p) <= Len(rest)
    /\ \A n \in DOMAIN p :
          /\ p[n] \in read + 1..Len(out)
          /\ out[p[n]].kind = call.method /\ out[p[n]].chan = rest[n]
    /\ \A i \in read + 1..Len(out) :
          IsMessage(out[i]) \/ \E n \in DOMAIN p : p[n] = i

\* The loop has the others still to do.
Undone(rest, p) ==
    /\ Len(todo) = Len(rest) - Len(p)
    /\ \A n \in DOMAIN todo : todo[n] = rest[Len(p) + n]
    /\ todo # <<>> => Phase = PhaseOf(call.method)

\* An UNSUBSCRIBE from everything, of a client that is subscribed to nothing.
NoOp(cmd) == cmd.kind = "unsubscribe" /\ cmd.chans = <<>>

\* The loop has taken the command of the call, or the call needed none.
Taken(rest, p) ==
    /\ Expected(rest) /\ Unread(rest, p) /\ Undone(rest, p)
    /\ \A i \in DOMAIN inbox : NoOp(inbox[i])
    /\ inbox # <<>> => rest = <<>> /\ Keys = {}

\* The command of the call under way, as it was sent.
Active(cmd) ==
    /\ call.pc = "waiting" /\ call.left > 0
    /\ cmd.kind = call.method /\ cmd.chans = call.asked
    /\ list = call.before
    /\ call.left = Leaving(call.asked)

Quiet == todo = <<>> /\ Unread(<<>>, <<>>)

\* Next in the inbox, but for commands that do nothing, is the command of the
\* call, or one that will end the session.
Waiting(k) ==
    /\ Quiet
    /\ \A i \in 1..k - 1 : NoOp(inbox[i])
    /\ k > 1 => Keys = {}
    /\ inbox[k].kind = "malformed" \/ (k = Len(inbox) /\ Active(inbox[k]))

AlignInv ==
    Attached => \/ \E rest \in Seq(Channels), p \in Seq(Nat) : Taken(rest, p)
                \/ \E k \in DOMAIN inbox : Waiting(k)

LEMMA BaseFacts ==
    ASSUME BaseIInv
    PROVE  /\ out \in Seq(Frame) /\ Len(out) \in Nat /\ DOMAIN out = 1..Len(out)
           /\ read \in Nat /\ read <= Len(out)
           /\ todo \in Seq(Channels) /\ inbox \in Seq(Command)
           /\ list \in Seq(Channels)
           /\ call.method \in {"subscribe", "unsubscribe", "next_message"}
           /\ call.asked \in Seq(Channels) /\ call.before \in Seq(Channels)
           /\ call.left \in Nat /\ call.pc \in {"waiting", "returned", "failed"}
           /\ Len(call.asked) \in Nat
           /\ IsFiniteSet(Keys) /\ TypeOK /\ SessionTypes /\ CallInv
           /\ back \in {"channels", "select", "unsubscribe"}
<1>1. TypeOK /\ SessionTypes /\ CallInv
  BY DEF BaseIInv, LoopIInv
<1>2. out \in Seq(Frame) /\ read \in 0..Len(out)
  BY <1>1 DEF TypeOK, SessionTypes
<1> QED BY <1>1, <1>2, CallFields DEF TypeOK

\* Nothing but messages is left to read.
LEMMA QuietMessages ==
    ASSUME BaseIInv, Unread(<<>>, <<>>)
    PROVE  \A i \in read + 1..Len(out) : IsMessage(out[i])
  BY DEF Unread

\* The list and the loop agree when nothing but messages is on the way.
LEMMA QuietKeys ==
    ASSUME BaseIInv, Attached, Unread(<<>>, <<>>), SoFar = 0
    PROVE  /\ Keys = ToSet(list)
           /\ Cardinality(Keys) <= Len(list) /\ Cardinality(Keys) \in Nat
<1>1. \A i \in read + 1..Len(out) : IsMessage(out[i])
  BY QuietMessages
<1>2. \A ch : SubscribedAt(out, read, ch) <=> SubscribedAt(out, Len(out), ch)
  <2>1. read \in 0..Len(out)
    BY BaseFacts
  <2> QED BY <1>1, <2>1, BaseFacts, MessagesDecideNothing
<1>3. \A ch \in Channels : ch \in Keys <=> SubscribedAt(out, Len(out), ch)
  BY DEF BaseIInv, LoopIInv, KeysAgree, Attached
<1>4. \A ch \in Channels : ch \in ToSet(list) <=> SubscribedAt(out, read, ch)
  BY DEF BaseIInv, ListHolds, Listed, Attached
<1>5. ToSet(list) \subseteq Channels
  BY BaseFacts DEF ToSet
<1>6. Keys = ToSet(list)
  BY <1>2, <1>3, <1>4, <1>5, KeysInChannels
<1>7. Cardinality(ToSet(list)) <= Len(list)
  <2> DEFINE at == [i \in DOMAIN list |-> list[i]]
  <2>1. at \in Surjection(DOMAIN list, ToSet(list))
    BY DEF Surjection, ToSet
  <2>2. IsFiniteSet(DOMAIN list) /\ Cardinality(DOMAIN list) = Len(list)
    <3>1. DOMAIN list = 1..Len(list) /\ Len(list) \in Nat
      BY BaseFacts
    <3> QED BY <3>1, FS_Interval
  <2> HIDE DEF at
  <2> QED BY <2>1, <2>2, FS_Surjection
<1> QED BY <1>6, <1>7, BaseFacts, FS_CardinalityType

\* A call that waits for nothing leaves nothing but messages on the way.
LEMMA NothingExpected ==
    ASSUME BaseIInv, NEW rest \in Seq(Channels), NEW p \in Seq(Nat),
           Taken(rest, p), call.left = 0 \/ rest = <<>>
    PROVE  rest = <<>> /\ p = <<>> /\ todo = <<>> /\ Unread(<<>>, <<>>)
<1>1. Len(rest) = 0
  BY DEF Taken, Expected
<1>2. rest = <<>>
  BY <1>1
<1>3. Len(p) = 0 /\ Len(todo) = 0
  BY <1>1, BaseFacts DEF Taken, Unread, Undone
<1>4. p = <<>> /\ todo = <<>>
  BY <1>3, BaseFacts
<1> QED BY <1>2, <1>4 DEF Taken

-----------------------------------------------------------------------------
\* The loop keeps in step with the calls.

\* A message more to read.
LEMMA UnreadGrows ==
    ASSUME BaseIInv, UNCHANGED callVars,
           out' = out \/ \E f \in Frame : IsMessage(f) /\ out' = Append(out, f),
           NEW rest \in Seq(Channels), NEW p \in Seq(Nat), Unread(rest, p)
    PROVE  Unread(rest, p)'
<1>1. call' = call /\ read' = read
  BY DEF callVars
<1>2. /\ \A i \in 1..Len(out) : out'[i] = out[i]
      /\ \A i \in read + 1..Len(out') :
            i \in read + 1..Len(out) \/ IsMessage(out'[i])
      /\ Len(out') \in Nat /\ Len(out) <= Len(out')
  <2>1. CASE out' = out
    BY <2>1, BaseFacts
  <2>2. ASSUME NEW f \in Frame, IsMessage(f), out' = Append(out, f)
        PROVE  /\ \A i \in 1..Len(out) : out'[i] = out[i]
               /\ \A i \in read + 1..Len(out') :
                     i \in read + 1..Len(out) \/ IsMessage(out'[i])
               /\ Len(out') \in Nat /\ Len(out) <= Len(out')
    <3>1. out \in Seq(Frame) /\ Len(out) \in Nat /\ read \in Nat
      BY BaseFacts
    <3>2. /\ Len(out') = Len(out) + 1 /\ out'[Len(out) + 1] = f
          /\ \A i \in 1..Len(out) : out'[i] = out[i]
      BY <2>2, <3>1, AppendFrame
    <3> QED BY <2>2, <3>1, <3>2
  <2> QED BY <2>1, <2>2
<1>3. ASSUME NEW n \in DOMAIN p
      PROVE  /\ p[n] \in read + 1..Len(out')
             /\ out'[p[n]].kind = call.method /\ out'[p[n]].chan = rest[n]
  <2>1. p[n] \in read + 1..Len(out)
    BY DEF Unread
  <2>2. p[n] \in 1..Len(out) /\ p[n] \in read + 1..Len(out')
    BY <1>2, <2>1, BaseFacts
  <2>3. out[p[n]].kind = call.method /\ out[p[n]].chan = rest[n]
    BY DEF Unread
  <2>4. out'[p[n]] = out[p[n]]
    BY <1>2, <2>2
  <2> QED BY <2>2, <2>3, <2>4
<1>4. ASSUME NEW i \in read + 1..Len(out')
      PROVE  IsMessage(out'[i]) \/ \E n \in DOMAIN p : p[n] = i
  <2>1. CASE i \in read + 1..Len(out)
    <3>1. i \in 1..Len(out)
      BY <2>1, BaseFacts
    <3> QED BY <1>2, <2>1, <3>1 DEF Unread
  <2> QED BY <1>2, <2>1
<1> QED BY <1>1, <1>3, <1>4 DEF Unread

\* A step that takes no command and confirms nothing.
LEMMA GoesOnAlign ==
    ASSUME BaseIInv, AlignInv, Attached' => Attached,
           UNCHANGED <<user, callVars, todo, inbox>>,
           out' = out \/ \E f \in Frame : IsMessage(f) /\ out' = Append(out, f),
           Keys = {} => Keys' = {},
           todo # <<>> => Phase' = Phase
    PROVE  AlignInv'
<1> SUFFICES ASSUME Attached'
             PROVE  \/ \E rest \in Seq(Channels), p \in Seq(Nat) : Taken(rest, p)'
                    \/ \E k \in DOMAIN inbox' : Waiting(k)'
  BY DEF AlignInv
<1>1. call' = call /\ list' = list /\ todo' = todo /\ inbox' = inbox
  BY DEF callVars
<1>2. ASSUME NEW rest \in Seq(Channels), NEW p \in Seq(Nat), Taken(rest, p)
      PROVE  Taken(rest, p)'
  <2>1. Unread(rest, p)'
    BY <1>2, UnreadGrows DEF Taken
  <2>2. Expected(rest)'
    BY <1>1, <1>2 DEF Taken, Expected, Legal
  <2>3. Undone(rest, p)'
    BY <1>1, <1>2 DEF Taken, Undone
  <2> QED BY <1>1, <1>2, <2>1, <2>2, <2>3 DEF Taken
<1>3. ASSUME NEW k \in DOMAIN inbox, Waiting(k)
      PROVE  Waiting(k)'
  <2>1. Unread(<<>>, <<>>)'
    <3>1. <<>> \in Seq(Channels) /\ <<>> \in Seq(Nat)
      OBVIOUS
    <3> QED BY <1>3, <3>1, UnreadGrows DEF Waiting, Quiet
  <2>2. \A cmd : Active(cmd)' <=> Active(cmd)
    BY <1>1 DEF Active, Leaving
  <2>3. Active(inbox[k])' <=> Active(inbox[k])
    BY <1>1 DEF Active, Leaving
  <2> QED BY <1>1, <1>3, <2>1, <2>3 DEF Waiting, Quiet, NoOp
<1> QED BY <1>1, <1>2, <1>3 DEF AlignInv

\* The confirmation of the next channel.
LEMMA ConfirmationAlign ==
    ASSUME BaseIInv, UNCHANGED <<user, callVars, inbox>>,
           NEW rest \in Seq(Channels), NEW p \in Seq(Nat), Taken(rest, p),
           NEW f \in Frame, NEW label, label # "writing", Phase = label,
           Write(f, label),
           todo # <<>>, todo' = Tail(todo),
           f.kind = call.method, f.chan = Head(todo)
    PROVE  \E q \in Seq(Nat) : Taken(rest, q)'
<1>1. /\ call' = call /\ list' = list /\ read' = read /\ inbox' = inbox
      /\ out' = Append(out, f) /\ pc' = "writing" /\ back' = label
  BY DEF callVars, Write
<1>2. /\ Len(out') = Len(out) + 1 /\ out'[Len(out) + 1] = f
      /\ \A i \in 1..Len(out) : out'[i] = out[i]
      /\ Len(out) \in Nat /\ read \in Nat /\ read <= Len(out)
  BY <1>1, BaseFacts, AppendFrame
<1>3. /\ Len(todo) = Len(rest) - Len(p) /\ Len(todo) \in Nat /\ Len(todo) > 0
      /\ Len(rest) \in Nat /\ Len(p) \in Nat
      /\ Head(todo) = rest[Len(p) + 1]
      /\ Len(todo') = Len(todo) - 1
      /\ \A n \in DOMAIN todo' :
            n \in Nat /\ n + 1 \in DOMAIN todo /\ todo'[n] = todo[n + 1]
      /\ \A n \in DOMAIN todo : todo[n] = rest[Len(p) + n]
  <2>1. todo \in Seq(Channels)
    BY BaseFacts
  <2>2. /\ Len(todo) \in Nat /\ Len(todo) > 0 /\ Head(todo) = todo[1]
        /\ 1 \in DOMAIN todo
    BY <2>1
  <2>3. /\ Len(todo') = Len(todo) - 1
        /\ \A n \in DOMAIN todo' :
              n \in Nat /\ n + 1 \in DOMAIN todo /\ todo'[n] = todo[n + 1]
    BY <2>1
  <2>4. /\ Len(todo) = Len(rest) - Len(p)
        /\ \A n \in DOMAIN todo : todo[n] = rest[Len(p) + n]
    BY DEF Taken, Undone
  <2>5. Len(rest) \in Nat /\ Len(p) \in Nat
    OBVIOUS
  <2> QED BY <2>2, <2>3, <2>4, <2>5
<1>4. PICK q \in Seq(Nat) : q = Append(p, Len(out) + 1)
  <2>1. Len(out) + 1 \in Nat
    BY <1>2
  <2>2. Append(p, Len(out) + 1) \in Seq(Nat)
    BY <2>1, AppendProperties
  <2> QED BY <2>2
<1>5. /\ Increasing(q) /\ Len(q) = Len(p) + 1 /\ DOMAIN q = 1..Len(p) + 1
      /\ q[Len(p) + 1] = Len(out) + 1
      /\ \A n \in 1..Len(p) : q[n] = p[n]
  <2>1. \A n \in DOMAIN p : p[n] < Len(out) + 1
    BY BaseFacts DEF Taken, Unread
  <2> QED BY <1>4, <2>1, BaseFacts, IncreasingAppend DEF Taken, Unread
<1>6. Unread(rest, q)'
  <2>1. ASSUME NEW n \in DOMAIN q
        PROVE  /\ q[n] \in read + 1..Len(out')
               /\ out'[q[n]].kind = call.method /\ out'[q[n]].chan = rest[n]
    <3>1. CASE n \in 1..Len(p)
      <4>1. /\ p[n] \in read + 1..Len(out)
            /\ out[p[n]].kind = call.method /\ out[p[n]].chan = rest[n]
        BY <1>3, <3>1 DEF Taken, Unread
      <4>2. p[n] \in 1..Len(out) /\ p[n] \in read + 1..Len(out')
        BY <1>2, <4>1
      <4> QED BY <1>2, <1>5, <3>1, <4>1, <4>2
    <3>2. CASE n = Len(p) + 1
      <4>1. Len(out) + 1 \in read + 1..Len(out')
        BY <1>2, BaseFacts
      <4> QED BY <1>2, <1>3, <1>5, <3>2, <4>1
    <3> QED BY <1>3, <1>5, <3>1, <3>2
  <2>2. ASSUME NEW i \in read + 1..Len(out')
        PROVE  IsMessage(out'[i]) \/ \E n \in DOMAIN q : q[n] = i
    <3>1. CASE i \in read + 1..Len(out)
      <4>1. IsMessage(out[i]) \/ \E n \in DOMAIN p : p[n] = i
        BY <3>1 DEF Taken, Unread
      <4>2. out'[i] = out[i]
        BY <1>2, <3>1, BaseFacts
      <4>3. \A n \in DOMAIN p : n \in 1..Len(p) /\ n \in DOMAIN q
        BY <1>3, <1>5
      <4> QED BY <1>5, <4>1, <4>2, <4>3
    <3>2. CASE i = Len(out) + 1
      <4>1. Len(p) + 1 \in DOMAIN q
        BY <1>3, <1>5
      <4> QED BY <1>5, <3>2, <4>1
    <3> QED BY <1>2, <3>1, <3>2, BaseFacts
  <2>3. Len(q) <= Len(rest)
    BY <1>3, <1>5
  <2> QED BY <1>1, <1>5, <2>1, <2>2, <2>3 DEF Unread
<1>7. Undone(rest, q)'
  <2>1. Len(todo') = Len(rest) - Len(q)
    BY <1>3, <1>5
  <2>2. ASSUME NEW n \in DOMAIN todo' PROVE todo'[n] = rest[Len(q) + n]
    <3>1. n \in Nat /\ todo[n + 1] = rest[Len(p) + (n + 1)]
      BY <1>3
    <3>2. Len(p) + (n + 1) = Len(q) + n
      BY <1>3, <1>5, <3>1
    <3> QED BY <1>3, <3>1, <3>2
  <2>3. Phase' = PhaseOf(call.method)
    BY <1>1 DEF Taken, Undone, Phase
  <2> QED BY <1>1, <2>1, <2>2, <2>3 DEF Undone, PhaseOf
<1>8. Expected(rest)'
  BY <1>1 DEF Taken, Expected, Legal
<1>9. inbox' = <<>>
  BY <1>1, <1>3 DEF Taken
<1>10. Taken(rest, q)'
  BY <1>6, <1>7, <1>8, <1>9 DEF Taken
<1> QED BY <1>10

\* What the loop may find next in its inbox.
LEMMA NextCommand ==
    ASSUME BaseIInv, AlignInv, Attached, inbox # <<>>
    PROVE  \/ /\ NoOp(Head(inbox)) /\ Keys = {}
              /\ Taken(<<>>, <<>>) \/ \E k \in DOMAIN inbox : k > 1 /\ Waiting(k)
           \/ Head(inbox).kind = "malformed"
           \/ Quiet /\ Len(inbox) = 1 /\ Active(Head(inbox))
<1>1. Head(inbox) = inbox[1] /\ 1 \in DOMAIN inbox /\ DOMAIN inbox = 1..Len(inbox)
  <2>1. inbox \in Seq(Command)
    BY BaseFacts
  <2> QED BY <2>1
<1>2. ASSUME NEW rest \in Seq(Channels), NEW p \in Seq(Nat), Taken(rest, p)
      PROVE  NoOp(Head(inbox)) /\ Keys = {} /\ Taken(<<>>, <<>>)
  <2>1. NoOp(Head(inbox)) /\ Keys = {} /\ rest = <<>>
    BY <1>1, <1>2 DEF Taken
  <2>2. p = <<>>
    BY <1>2, <2>1, NothingExpected
  <2> QED BY <1>2, <2>1, <2>2
<1>3. ASSUME NEW k \in DOMAIN inbox, Waiting(k), k > 1
      PROVE  NoOp(Head(inbox)) /\ Keys = {}
  <2>1. 1 \in 1..k - 1
    BY <1>1, <1>3
  <2> QED BY <1>1, <1>3, <2>1 DEF Waiting
<1>4. ASSUME Waiting(1)
      PROVE  \/ Head(inbox).kind = "malformed"
             \/ Quiet /\ Len(inbox) = 1 /\ Active(Head(inbox))
  BY <1>1, <1>4 DEF Waiting
<1>5. \A k \in DOMAIN inbox : k > 1 \/ k = 1
  BY <1>1
<1> QED BY <1>2, <1>3, <1>4, <1>5 DEF AlignInv

\* The loop takes the command of the call.
LEMMA TakesAlign ==
    ASSUME BaseIInv, Quiet, Len(inbox) = 1, inbox' = Tail(inbox),
           UNCHANGED <<callVars, out>>,
           NEW rest \in Seq(Channels), todo' = rest, Expected(rest),
           pc' = PhaseOf(call.method)
    PROVE  Taken(rest, <<>>)'
<1>1. call' = call /\ list' = list /\ read' = read /\ out' = out
  BY DEF callVars
<1>2. inbox' = <<>>
  <2>1. inbox \in Seq(Command)
    BY BaseFacts
  <2>2. Tail(inbox) \in Seq(Command) /\ Len(Tail(inbox)) = 0
    BY <2>1
  <2> QED BY <2>2
<1>3. Expected(rest)'
  BY <1>1 DEF Expected, Legal
<1>4. Unread(rest, <<>>)'
  BY <1>1 DEF Quiet, Unread, Increasing
<1>5. Phase' = PhaseOf(call'.method)
  BY <1>1 DEF Phase, PhaseOf
<1>6. Undone(rest, <<>>)'
  BY <1>5 DEF Undone
<1> QED BY <1>2, <1>3, <1>4, <1>6 DEF Taken

LEMMA HandleSubscribeAlign ==
    ASSUME BaseIInv, AlignInv, Attached, HandleSubscribe, UNCHANGED callVars
    PROVE  \E rest \in Seq(Channels), p \in Seq(Nat) : Taken(rest, p)'
<1>1. /\ pc = "select" /\ inbox # <<>> /\ Head(inbox).kind = "subscribe"
      /\ inbox' = Tail(inbox) /\ todo' = Head(inbox).chans /\ pc' = "channels"
      /\ out' = out
  BY DEF HandleSubscribe, TakesCommand
<1>2. Quiet /\ Len(inbox) = 1 /\ Active(Head(inbox))
  BY <1>1, NextCommand DEF NoOp
<1>3. /\ call.method = "subscribe" /\ todo' = call.asked
      /\ call.left = Leaving(call.asked) /\ call.left > 0
      /\ call.left <= Len(call.asked)
  BY <1>1, <1>2, BaseFacts DEF Active, CallInv
<1>4. PICK rest \in Seq(Channels) : rest = call.asked
  BY BaseFacts
<1>5. call.left = Len(call.asked)
  BY <1>3, BaseFacts DEF Leaving
<1>6. Expected(rest)
  <2>1. Len(rest) \in Nat
    OBVIOUS
  <2>2. \A n \in DOMAIN rest : rest[n] = call.asked[Len(call.asked) - call.left + n]
    BY <1>4, <1>5, <2>1
  <2> QED BY <1>3, <1>4, <1>5, <2>1, <2>2 DEF Expected
<1>7. Taken(rest, <<>>)'
  BY <1>1, <1>2, <1>3, <1>4, <1>6, TakesAlign DEF PhaseOf
<1>8. <<>> \in Seq(Nat)
  OBVIOUS
<1> QED BY <1>7, <1>8

LEMMA OnceInjective ==
    ASSUME NEW seq \in Seq(Channels), \A i \in DOMAIN seq : Once(seq, seq[i])
    PROVE  IsInjective(seq)
<1> SUFFICES ASSUME NEW i \in DOMAIN seq, NEW j \in DOMAIN seq, seq[i] = seq[j]
             PROVE  i = j
  BY DEF IsInjective
<1>1. PICK k \in DOMAIN seq :
         seq[k] = seq[i] /\ \A m \in DOMAIN seq : seq[m] = seq[i] => m = k
  BY DEF Once
<1> QED BY <1>1

LEMMA HandleUnsubscribeAlign ==
    ASSUME BaseIInv, AlignInv, Attached, HandleUnsubscribe, UNCHANGED callVars
    PROVE  \/ \E rest \in Seq(Channels), p \in Seq(Nat) : Taken(rest, p)'
           \/ \E k \in DOMAIN inbox' : Waiting(k)'
<1>1. /\ pc = "select" /\ inbox # <<>> /\ Head(inbox).kind = "unsubscribe"
      /\ inbox' = Tail(inbox) /\ pc' = "unsubscribe"
      /\ IF Head(inbox).chans = <<>> THEN todo' \in Orders(Keys)
                                     ELSE todo' = Head(inbox).chans
      /\ out' = out /\ subs' = subs
  BY DEF HandleUnsubscribe, TakesCommand
<1>2. call' = call /\ list' = list /\ read' = read /\ Keys' = Keys
  BY <1>1 DEF callVars, Keys
<1>3. /\ inbox' \in Seq(Command) /\ DOMAIN inbox' = 1..Len(inbox) - 1
      /\ Len(inbox') = Len(inbox) - 1 /\ Len(inbox) \in Nat /\ Len(inbox) > 0
      /\ \A i \in DOMAIN inbox' : i + 1 \in DOMAIN inbox /\ inbox'[i] = inbox[i + 1]
      /\ DOMAIN inbox = 1..Len(inbox)
  <2>1. inbox \in Seq(Command)
    BY BaseFacts
  <2> QED BY <1>1, <2>1
<1>4. <<>> \in Seq(Nat) /\ <<>> \in Seq(Channels)
  OBVIOUS
<1>5. CASE NoOp(Head(inbox)) /\ Keys = {}
  <2>1. todo' = <<>>
    <3>1. todo' \in Orders(Keys)
      BY <1>1, <1>5 DEF NoOp
    <3>2. todo' \in Seq(Channels) /\ Len(todo') = Cardinality(Keys)
      BY <3>1, BaseFacts, OrdersTyped
    <3>3. Cardinality(Keys) = 0
      BY <1>5, FS_EmptySet
    <3> QED BY <3>2, <3>3
  <2>2. ASSUME Taken(<<>>, <<>>) PROVE Taken(<<>>, <<>>)'
    <3>1. Expected(<<>>)' /\ Unread(<<>>, <<>>)'
      BY <1>1, <1>2, <2>2 DEF Taken, Expected, Unread, Legal
    <3>2. Undone(<<>>, <<>>)'
      BY <2>1 DEF Undone
    <3> QED BY <1>2, <1>3, <1>5, <2>2, <3>1, <3>2 DEF Taken, NoOp
  <2>3. ASSUME NEW k \in DOMAIN inbox, k > 1, Waiting(k)
        PROVE  \E j \in DOMAIN inbox' : Waiting(j)'
    <3>1. PICK j \in DOMAIN inbox' : j + 1 = k
      <4>1. k - 1 \in DOMAIN inbox' /\ k - 1 + 1 = k
        BY <1>3, <2>3
      <4> QED BY <4>1
    <3>2. inbox'[j] = inbox[k] /\ (k = Len(inbox) => j = Len(inbox'))
      BY <1>3, <3>1
    <3>3. Quiet'
      BY <1>1, <1>2, <2>1, <2>3 DEF Waiting, Quiet, Unread
    <3>4. \A i \in 1..j - 1 : NoOp(inbox'[i])
      <4>1. \A i \in 1..j - 1 : i \in DOMAIN inbox' /\ i + 1 \in 1..k - 1
        BY <1>3, <3>1
      <4> QED BY <1>3, <2>3, <4>1 DEF Waiting
    <3>5. Active(inbox[k]) => Active(inbox[j])'
      BY <1>2, <3>2 DEF Active, Leaving
    <3>6. Waiting(j)'
      BY <1>2, <1>5, <2>3, <3>2, <3>3, <3>4, <3>5 DEF Waiting, NoOp
    <3> QED BY <3>6
  <2>4. \/ Taken(<<>>, <<>>)
        \/ \E k \in DOMAIN inbox : k > 1 /\ Waiting(k)
        \/ Quiet /\ Len(inbox) = 1 /\ Active(Head(inbox))
    BY <1>1, NextCommand
  <2>5. CASE Quiet /\ Len(inbox) = 1 /\ Active(Head(inbox))
    <3>1. <<>> = todo' /\ Expected(<<>>) /\ call.method = "unsubscribe"
      <4>1. call.method = "unsubscribe" /\ call.left \in Nat
        BY <1>1, <2>5, BaseFacts DEF Active
      <4> QED BY <2>1, <4>1 DEF Expected, IsInjective
    <3>2. Taken(<<>>, <<>>)'
      BY <1>1, <1>4, <2>5, <3>1, TakesAlign DEF PhaseOf
    <3> QED BY <1>4, <3>2
  <2> QED BY <1>4, <2>2, <2>3, <2>4, <2>5
<1>6. CASE Quiet /\ Len(inbox) = 1 /\ Active(Head(inbox))
  <2>1. /\ call.method = "unsubscribe" /\ Head(inbox).chans = call.asked
        /\ call.left = Leaving(call.asked) /\ list = call.before
    BY <1>1, <1>6 DEF Active
  <2>2. \E rest \in Seq(Channels) : rest = todo' /\ Expected(rest)
    <3>1. CASE call.asked # <<>>
      <4>1. todo' = call.asked /\ call.left = Len(call.asked)
        BY <1>1, <2>1, <3>1 DEF Leaving
      <4>2. PICK rest \in Seq(Channels) : rest = call.asked
        BY BaseFacts
      <4>3. Legal => IsInjective(rest) /\ \A n \in DOMAIN rest : Once(list, rest[n])
        BY <2>1, <3>1, <4>2, OnceInjective DEF Legal
      <4>4. Len(rest) <= call.left
        BY <4>1, <4>2, BaseFacts
      <4> QED BY <2>1, <4>1, <4>2, <4>3, <4>4 DEF Expected
    <3>2. CASE call.asked = <<>>
      <4>1. todo' \in Orders(Keys) /\ call.left = Len(list)
        BY <1>1, <2>1, <3>2 DEF Leaving
      <4>2. PICK rest \in Seq(Channels) : rest = todo'
        BY <4>1, BaseFacts, OrdersTyped
      <4>3. /\ Len(rest) = Cardinality(Keys) /\ IsInjective(rest)
            /\ \A i \in DOMAIN rest : rest[i] \in Keys
        BY <4>1, <4>2, BaseFacts, OrdersTyped
      <4>4. SoFar = 0
        BY <2>1 DEF SoFar
      <4>5. Keys = ToSet(list) /\ Cardinality(Keys) <= Len(list)
        BY <1>6, <4>4, QuietKeys DEF Quiet
      <4>6. Legal => \A n \in DOMAIN rest : Once(list, rest[n])
        <5>1. Legal => \A i \in DOMAIN list : Once(list, list[i])
          BY <2>1, <3>2 DEF Legal
        <5>2. \A n \in DOMAIN rest : \E i \in DOMAIN list : rest[n] = list[i]
          BY <4>3, <4>5 DEF ToSet
        <5> QED BY <5>1, <5>2
      <4>7. Expected(rest)
        BY <2>1, <4>1, <4>3, <4>5, <4>6 DEF Expected
      <4> QED BY <4>2, <4>7
    <3> QED BY <3>1, <3>2
  <2>3. PICK rest \in Seq(Channels) : rest = todo' /\ Expected(rest)
    BY <2>2
  <2>4. Taken(rest, <<>>)'
    BY <1>1, <1>6, <2>1, <2>3, TakesAlign DEF PhaseOf
  <2> QED BY <1>4, <2>4
<1> QED BY <1>1, <1>5, <1>6, NextCommand

\* A step of the loop or of the publishers.
LEMMA LoopAlign ==
    ASSUME BaseIInv, AlignInv, UNCHANGED <<user, callVars>>,
           LoopActs \/ OthersAct \/ UNCHANGED vars
    PROVE  AlignInv'
<1>1. LoopIInv /\ LoopStep
  BY DEF BaseIInv, LoopStep, OthersAct
<1>2. Attached' => Attached
  <2>1. pc = "done" => pc' = "done"
    BY <1>1, LoopAppends
  <2>2. closed => closed'
    BY <1>1, LoopAppends
  <2>3. user' = user /\ call' = call
    BY DEF callVars
  <2> QED BY <2>1, <2>2, <2>3, Zenon DEF Attached
<1>3. CASE SubscribeToChannel \/ UnsubscribeFromChannel
  <2> SUFFICES ASSUME Attached'
               PROVE  \E rest \in Seq(Channels), p \in Seq(Nat) : Taken(rest, p)'
    BY DEF AlignInv
  <2>1. todo # <<>> /\ todo' = Tail(todo) /\ inbox' = inbox
    BY <1>3 DEF SubscribeToChannel, UnsubscribeFromChannel, client
  <2>2. PICK rest \in Seq(Channels), p \in Seq(Nat) : Taken(rest, p)
    BY <1>2, <2>1 DEF AlignInv, Waiting, Quiet
  <2>3. Phase = PhaseOf(call.method)
    BY <2>1, <2>2 DEF Taken, Undone
  <2>4. call.method \in {"subscribe", "unsubscribe"}
    BY <1>2, BaseFacts DEF CallInv, Attached
  <2>5. Head(todo) \in Channels
    BY <2>1, BaseFacts
  <2>6. CASE SubscribeToChannel
    <3> DEFINE f == SubscribeFrame(Head(todo), Cardinality(Keys'))
    <3>1. pc = "channels" /\ Write(f, "channels")
      BY <2>6 DEF SubscribeToChannel
    <3>2. Phase = "channels" /\ call.method = "subscribe"
      BY <2>3, <2>4, <3>1 DEF Phase, PhaseOf
    <3>3. f \in Frame /\ f.kind = "subscribe" /\ f.chan = Head(todo)
      <4>1. IsFiniteSet(Keys')
        BY <1>1, LoopStepIInv DEF LoopIInv, TypeOK
      <4>2. Cardinality(Keys') \in Nat
        BY <4>1, FS_CardinalityType
      <4> QED BY <2>5, <4>2 DEF SubscribeFrame, Frame
    <3> HIDE DEF f
    <3>4. \E q \in Seq(Nat) : Taken(rest, q)'
      BY <2>1, <2>2, <3>1, <3>2, <3>3, ConfirmationAlign
    <3> QED BY <3>4
  <2>7. CASE UnsubscribeFromChannel
    <3> DEFINE f == UnsubscribeFrame(Head(todo), Cardinality(Keys'))
    <3>1. pc = "unsubscribe" /\ Write(f, "unsubscribe")
      BY <2>7 DEF UnsubscribeFromChannel
    <3>2. Phase = "unsubscribe" /\ call.method = "unsubscribe"
      BY <2>3, <2>4, <3>1 DEF Phase, PhaseOf
    <3>3. f \in Frame /\ f.kind = "unsubscribe" /\ f.chan = Head(todo)
      <4>1. IsFiniteSet(Keys')
        BY <1>1, LoopStepIInv DEF LoopIInv, TypeOK
      <4>2. Cardinality(Keys') \in Nat
        BY <4>1, FS_CardinalityType
      <4> QED BY <2>5, <4>2 DEF UnsubscribeFrame, Frame
    <3> HIDE DEF f
    <3>4. \E q \in Seq(Nat) : Taken(rest, q)'
      BY <2>1, <2>2, <3>1, <3>2, <3>3, ConfirmationAlign
    <3> QED BY <3>4
  <2> QED BY <1>3, <2>6, <2>7
<1>4. CASE EnterSelect \/ UnsubscribeDone \/ WriteCompletes
  <2>1. /\ UNCHANGED <<todo, inbox, out, subs>>
        /\ todo # <<>> => pc = "writing" /\ pc' = back /\ back' = back
    BY <1>4 DEF EnterSelect, UnsubscribeDone, WriteCompletes, client
  <2>2. Keys' = Keys
    BY <2>1 DEF Keys
  <2>3. todo # <<>> => Phase' = Phase
    BY <2>1, BaseFacts DEF Phase
  <2> QED BY <1>2, <2>1, <2>2, <2>3, GoesOnAlign
<1>5. ASSUME NEW ch \in Channels, SelectMessage(ch) PROVE AlignInv'
  <2> DEFINE f == MessageFrame(ch, Head(subs[ch]))
  <2>1. /\ pc = "select" /\ subs[ch] # NoStream /\ subs[ch] # <<>>
        /\ out' = Append(out, f) /\ pc' = "writing" /\ back' = "select"
        /\ UNCHANGED <<todo, inbox>>
    BY <1>5 DEF SelectMessage, Write, client
  <2>2. f \in Frame /\ IsMessage(f)
    <3>1. subs[ch] \in Seq(Nat)
      BY <2>1, BaseFacts DEF TypeOK
    <3>2. Head(subs[ch]) \in Nat
      BY <2>1, <3>1
    <3> QED BY <3>2 DEF MessageFrame, Frame, IsMessage
  <2> HIDE DEF f
  <2>3. Keys # {}
    BY <2>1 DEF Keys
  <2>4. Phase' = Phase
    BY <2>1 DEF Phase
  <2> QED BY <1>2, <2>1, <2>2, <2>3, <2>4, GoesOnAlign
<1>6. CASE HandleSubscribe
  BY <1>2, <1>6, HandleSubscribeAlign DEF AlignInv
<1>7. CASE HandleUnsubscribe
  BY <1>2, <1>7, HandleUnsubscribeAlign DEF AlignInv
<1>8. CASE HandleUnknown
  <2>1. inbox # <<>> /\ Head(inbox).kind = "other"
    BY <1>8 DEF HandleUnknown, TakesCommand
  <2>2. ~Attached
    <3>1. call.method # "other"
      BY BaseFacts
    <3> QED BY <2>1, <3>1, NextCommand DEF NoOp, Active
  <2> QED BY <1>2, <2>2 DEF AlignInv
<1>9. CASE HandleMalformed \/ Disconnected \/ ShutdownReceived \/ WriteFails
  <2>1. pc' = "done"
    BY <1>9 DEF HandleMalformed, Disconnected, ShutdownReceived, WriteFails, Leave
  <2> QED BY <2>1 DEF AlignInv, Attached
<1>10. ASSUME NEW ch \in Channels, Publish(ch) PROVE AlignInv'
  <2>1. UNCHANGED <<todo, inbox, out, pc, back>>
    BY <1>10 DEF Publish, client
  <2>2. Keys' = Keys
    BY <1>1, <1>10, PublishKeeps
  <2>3. Phase' = Phase
    BY <2>1 DEF Phase
  <2> QED BY <1>2, <2>1, <2>2, <2>3, GoesOnAlign
<1>11. CASE Trigger \/ UNCHANGED vars
  <2>1. UNCHANGED <<todo, inbox, out, pc, back, subs>>
    BY <1>11 DEF Trigger, vars, client
  <2>2. Keys' = Keys /\ Phase' = Phase
    BY <2>1 DEF Keys, Phase
  <2> QED BY <1>2, <2>1, <2>2, GoesOnAlign
<1> QED BY <1>3, <1>4, <1>5, <1>6, <1>7, <1>8, <1>9, <1>10, <1>11
        DEF LoopActs, OthersAct, HandleCommand

-----------------------------------------------------------------------------
\* The calls keep in step with the loop.

\* A call that starts sends its command.
LEMMA StartAlign ==
    ASSUME BaseIInv, AlignInv, ~astray', NEW chans \in Calls,
           StartSubscribe(chans) \/ StartUnsubscribe(chans)
    PROVE  AlignInv'
<1>1. PICK cmd \in Command :
         /\ ClientSends(cmd)
         /\ cmd.chans = chans
         /\ \/ /\ StartSubscribe(chans)
               /\ call' = Call("subscribe", chans, list, Len(chans))
               /\ cmd.kind = IF chans = <<>> THEN "malformed" ELSE "subscribe"
            \/ /\ StartUnsubscribe(chans)
               /\ call' = Call("unsubscribe", chans, list, Leaving(chans))
               /\ cmd.kind = "unsubscribe"
  <2>1. chans \in Seq(Channels)
    BY SubscriberAssumption
  <2>2. ASSUME NEW kind \in {"malformed", "subscribe", "unsubscribe"}
        PROVE  [kind |-> kind, chans |-> chans] \in Command
    BY <2>1 DEF Command
  <2>3. CASE StartSubscribe(chans)
    BY <2>2, <2>3 DEF StartSubscribe
  <2>4. CASE StartUnsubscribe(chans)
    BY <2>2, <2>4 DEF StartUnsubscribe
  <2> QED BY <2>3, <2>4
<1>2. /\ user = "Subscriber" /\ call.pc = "returned" /\ ~closed
      /\ list' = list /\ read' = read /\ inbox' = Append(inbox, cmd)
      /\ UNCHANGED <<pc, back, todo, subs, out>>
  <2>1. /\ CallsAgain
        /\ list' = list /\ read' = read /\ inbox' = Append(inbox, cmd)
        /\ UNCHANGED <<pc, back, todo, subs, out>>
    BY <1>1 DEF StartSubscribe, StartUnsubscribe, ClientSends
  <2> QED BY <2>1, BaseFacts DEF CallsAgain, Rests
<1> SUFFICES ASSUME Attached'
             PROVE  \/ \E rest \in Seq(Channels), p \in Seq(Nat) : Taken(rest, p)'
                    \/ \E k \in DOMAIN inbox' : Waiting(k)'
  BY DEF AlignInv
<1>3. Attached /\ call.left = 0 /\ SoFar = 0
  BY <1>2, BaseFacts DEF Attached, CallInv, SoFar
<1>4. Keys' = Keys
  BY <1>2 DEF Keys
<1>5. /\ DOMAIN inbox' = 1..Len(inbox) + 1 /\ Len(inbox') = Len(inbox) + 1
      /\ inbox'[Len(inbox) + 1] = cmd /\ Len(inbox) \in Nat
      /\ DOMAIN inbox = 1..Len(inbox)
      /\ \A i \in 1..Len(inbox) : inbox'[i] = inbox[i]
  <2>1. inbox \in Seq(Command)
    BY BaseFacts
  <2> QED BY <1>2, <2>1
<1>6. ASSUME Quiet PROVE Quiet'
  BY <1>2, <1>6 DEF Quiet, Unread
<1>7. ASSUME NEW k \in DOMAIN inbox, Waiting(k)
      PROVE  k \in DOMAIN inbox' /\ Waiting(k)'
  <2>1. inbox[k].kind = "malformed"
    BY <1>2, <1>7 DEF Waiting, Active
  <2>2. k \in DOMAIN inbox' /\ \A i \in 1..k - 1 : i \in 1..Len(inbox)
    BY <1>5
  <2>3. \A i \in 1..k - 1 : NoOp(inbox'[i])
    BY <1>5, <1>7, <2>2 DEF Waiting
  <2>4. Waiting(k)'
    BY <1>4, <1>5, <1>6, <1>7, <2>1, <2>3 DEF Waiting, NoOp
  <2> QED BY <2>2, <2>4
<1>8. ASSUME NEW rest \in Seq(Channels), NEW p \in Seq(Nat), Taken(rest, p)
      PROVE  \/ Taken(<<>>, <<>>)'
             \/ \E k \in DOMAIN inbox' : Waiting(k)'
  <2>1. rest = <<>> /\ p = <<>> /\ todo = <<>> /\ Unread(<<>>, <<>>)
    BY <1>3, <1>8, NothingExpected
  <2>2. Quiet /\ Quiet'
    BY <1>6, <2>1 DEF Quiet
  <2>3. /\ \A i \in DOMAIN inbox : NoOp(inbox[i])
        /\ inbox # <<>> => Keys = {}
    BY <1>8 DEF Taken
  <2>4. PICK k \in DOMAIN inbox' : k = Len(inbox) + 1
    BY <1>5
  <2>5. CASE cmd.kind = "malformed" \/ Active(cmd)'
    <3>1. inbox'[k].kind = "malformed" \/ (k = Len(inbox') /\ Active(inbox[k])')
      BY <1>5, <2>4, <2>5 DEF Active
    <3>2. \A i \in 1..k - 1 : NoOp(inbox'[i])
      BY <1>5, <2>3, <2>4
    <3>3. k > 1 => Keys' = {}
      <4>1. k > 1 => inbox # <<>>
        BY <1>5, <2>4
      <4> QED BY <1>4, <2>3, <4>1
    <3>4. Waiting(k)'
      BY <2>2, <3>1, <3>2, <3>3 DEF Waiting, NoOp
    <3> QED BY <3>4
  <2>6. CASE ~(cmd.kind = "malformed" \/ Active(cmd)')
    <3>1. chans \in Seq(Channels) /\ Len(chans) \in Nat
      BY SubscriberAssumption
    <3>2. /\ StartUnsubscribe(chans) /\ cmd.kind = "unsubscribe"
          /\ call' = Call("unsubscribe", chans, list, Leaving(chans))
          /\ Leaving(chans) = 0
      <4>1. ASSUME cmd.kind = "subscribe",
                   call' = Call("subscribe", chans, list, Len(chans)),
                   chans # <<>>
            PROVE  Active(cmd)'
        <5>1. Len(chans) > 0
          BY <3>1, <4>1
        <5> QED BY <1>1, <1>2, <3>1, <4>1, <5>1 DEF Active, Call, Leaving
      <4>2. ASSUME cmd.kind = "unsubscribe",
                   call' = Call("unsubscribe", chans, list, Leaving(chans)),
                   Leaving(chans) # 0
            PROVE  Active(cmd)'
        <5>1. Leaving(chans) \in Nat
          BY <3>1, BaseFacts DEF Leaving
        <5>2. /\ call'.left > 0 /\ call'.left = Leaving(chans)
              /\ call'.asked = chans /\ call'.before = list
              /\ call'.pc = "waiting" /\ call'.method = "unsubscribe"
          BY <4>2, <5>1 DEF Call
        <5> QED BY <1>1, <1>2, <4>2, <5>2 DEF Active, Leaving
      <4> QED BY <1>1, <2>6, <4>1, <4>2
    <3>3. chans = <<>> /\ list = <<>>
      BY <3>1, <3>2, BaseFacts DEF Leaving
    <3>4. Keys = {}
      <4>1. Keys = ToSet(list)
        BY <1>3, <2>1, QuietKeys
      <4> QED BY <3>3, <4>1 DEF ToSet
    <3>5. \A i \in DOMAIN inbox' : NoOp(inbox'[i])
      BY <1>1, <1>5, <2>3, <3>2, <3>3 DEF NoOp
    <3>6. Expected(<<>>)'
      <4>1. call'.method = "unsubscribe" /\ call'.left = 0
        BY <3>2 DEF Call
      <4> QED BY <4>1 DEF Expected, IsInjective
    <3>7. Undone(<<>>, <<>>)' /\ Unread(<<>>, <<>>)'
      BY <2>2 DEF Quiet, Undone
    <3>8. Taken(<<>>, <<>>)'
      BY <1>4, <3>4, <3>5, <3>6, <3>7 DEF Taken, NoOp
    <3> QED BY <3>8
  <2> QED BY <2>5, <2>6
<1>9. <<>> \in Seq(Nat) /\ <<>> \in Seq(Channels)
  OBVIOUS
<1> QED BY <1>3, <1>7, <1>8, <1>9 DEF AlignInv

\* The next frame, if it is not a message, is the confirmation that the call
\* waits for.
LEMMA NextConfirmation ==
    ASSUME BaseIInv, AlignInv, Attached, Available, ~IsMessage(NextFrame)
    PROVE  \E rest \in Seq(Channels), p \in Seq(Nat) :
              /\ Taken(rest, p)
              /\ Len(p) > 0 /\ p[1] = read + 1
              /\ Len(rest) > 0 /\ call.left > 0
              /\ NextFrame.kind = call.method /\ NextFrame.chan = rest[1]
<1>1. read + 1 \in read + 1..Len(out)
  BY BaseFacts DEF Available
<1>2. ~Unread(<<>>, <<>>)
  BY <1>1, QuietMessages DEF NextFrame
<1>3. PICK rest \in Seq(Channels), p \in Seq(Nat) : Taken(rest, p)
  BY <1>2 DEF AlignInv, Waiting, Quiet
<1>4. PICK n \in DOMAIN p : p[n] = read + 1
  BY <1>1, <1>3 DEF Taken, Unread, NextFrame
<1>5. n = 1
  <2>1. n \in 1..Len(p) /\ 1 \in DOMAIN p
    OBVIOUS
  <2>2. CASE n > 1
    <3>1. p[1] < p[n] /\ p[1] \in read + 1..Len(out)
      BY <1>3, <2>1, <2>2 DEF Taken, Unread, Increasing
    <3> QED BY <1>4, <3>1, BaseFacts
  <2> QED BY <2>1, <2>2
<1>6. Len(p) > 0
  BY <1>5
<1>7. Len(rest) > 0
  BY <1>3, <1>6 DEF Taken, Unread
<1>8. call.left > 0
  BY <1>3, <1>7, BaseFacts DEF Taken, Expected
<1>9. NextFrame.kind = call.method /\ NextFrame.chan = rest[1]
  BY <1>3, <1>4, <1>5 DEF Taken, Unread, NextFrame
<1> QED BY <1>3, <1>4, <1>5, <1>6, <1>7, <1>8, <1>9

\* The call reads the confirmation.
LEMMA ConfirmedAlign ==
    ASSUME BaseIInv, AlignInv, Confirmed
    PROVE  AlignInv' /\ FailureExplained'
<1> DEFINE kept == IF call.method = "subscribe" THEN list
                   ELSE Retain(list, NextFrame.chan)
           removed == Len(list) - Len(kept)
<1>1. /\ user = "Subscriber" /\ call.pc = "waiting" /\ call.left > 0
      /\ Available /\ Confirms(NextFrame)
      /\ list' = kept
      /\ call' = IF call.method = "unsubscribe" /\ removed # 1
                 THEN [call EXCEPT !.pc = "failed"]
                 ELSE [call EXCEPT !.left = @ - 1]
      /\ read' = read + 1 /\ UNCHANGED vars
  BY DEF Confirmed, Waits
<1>2. call.method \in {"subscribe", "unsubscribe"} /\ ~IsMessage(NextFrame)
  <2>1. call.method \in {"subscribe", "unsubscribe"}
    BY <1>1, BaseFacts DEF CallInv
  <2> QED BY <1>1, <2>1 DEF Confirms, IsMessage
<1>3. call \in CallRecord
  BY BaseFacts DEF SessionTypes
<1>4. /\ call'.method = call.method /\ call'.asked = call.asked
      /\ call'.before = call.before
  BY <1>1, <1>3 DEF CallRecord
<1>5. Legal' <=> Legal
  BY <1>4 DEF Legal
<1>6. ASSUME Attached, Legal, call.method = "unsubscribe"
      PROVE  removed = 1
  <2>1. PICK rest \in Seq(Channels), p \in Seq(Nat) :
           Taken(rest, p) /\ Len(rest) > 0 /\ NextFrame.chan = rest[1]
    BY <1>1, <1>2, <1>6, NextConfirmation
  <2>2. 1 \in DOMAIN rest
    BY <2>1
  <2>3. Once(list, NextFrame.chan)
    BY <1>6, <2>1, <2>2 DEF Taken, Expected
  <2>4. Len(Retain(list, NextFrame.chan)) = Len(list) - 1 /\ Len(list) \in Nat
    BY <2>3, BaseFacts, RetainDrops
  <2> QED BY <1>6, <2>4
<1>7. UNCHANGED <<pc, back, todo, subs, inbox, closed, out>>
  BY <1>1 DEF vars, client
<1>8. FailureExplained'
  <2> SUFFICES ASSUME call'.pc = "failed", Legal'
               PROVE  pc = "done" \/ closed
    BY <1>7 DEF FailureExplained
  <2>1. call.method = "unsubscribe" /\ removed # 1
    BY <1>1, <1>3 DEF CallRecord
  <2>2. ~Attached
    BY <1>5, <1>6, <2>1
  <2> QED BY <1>1, <2>2 DEF Attached
<1>9. AlignInv'
  <2> SUFFICES ASSUME Attached'
               PROVE  \E rest \in Seq(Channels), p \in Seq(Nat) : Taken(rest, p)'
    BY DEF AlignInv
  <2>1. Attached
    <3>1. ~closed' /\ pc' # "done"
      BY DEF Attached
    <3> QED BY <1>1, <1>7, <3>1 DEF Attached
  <2>2. ~(call.method = "unsubscribe" /\ removed # 1)
    BY <1>1, <1>3 DEF Attached, CallRecord
  <2>3. call' = [call EXCEPT !.left = call.left - 1]
    BY <1>1, <2>2
  <2>4. call'.left = call.left - 1 /\ call.left \in Nat
    BY <1>3, <2>3 DEF CallRecord
  <2> HIDE DEF removed
  <2>5. PICK rest \in Seq(Channels), p \in Seq(Nat) :
           /\ Taken(rest, p)
           /\ Len(p) > 0 /\ p[1] = read + 1
           /\ Len(rest) > 0
           /\ NextFrame.kind = call.method /\ NextFrame.chan = rest[1]
    BY <1>1, <1>2, <2>1, NextConfirmation
  <2>6. PICK left \in Seq(Channels) : left = Tail(rest)
    <3>1. Tail(rest) \in Seq(Channels)
      BY <2>5
    <3> QED BY <3>1
  <2>7. PICK q \in Seq(Nat) : q = Tail(p)
    <3>1. Tail(p) \in Seq(Nat)
      BY <2>5
    <3> QED BY <3>1
  <2>8. /\ Len(left) = Len(rest) - 1 /\ Len(left) \in Nat /\ Len(rest) \in Nat
        /\ DOMAIN left = 1..Len(rest) - 1 /\ DOMAIN rest = 1..Len(rest)
        /\ \A n \in DOMAIN left :
              n \in Nat /\ n + 1 \in DOMAIN rest /\ left[n] = rest[n + 1]
    BY <2>5, <2>6
  <2>9. /\ Len(q) = Len(p) - 1 /\ Len(q) \in Nat /\ Len(p) \in Nat
        /\ DOMAIN q = 1..Len(p) - 1 /\ DOMAIN p = 1..Len(p) /\ Increasing(q)
        /\ \A n \in DOMAIN q :
              /\ n \in Nat /\ n + 1 \in DOMAIN p /\ q[n] = p[n + 1]
              /\ p[1] < q[n]
    <3>1. p # <<>> /\ Increasing(p)
      BY <2>5 DEF Taken, Unread
    <3>2. /\ Len(q) = Len(p) - 1 /\ Len(q) \in Nat /\ Len(p) \in Nat
          /\ DOMAIN p = 1..Len(p)
      BY <2>5, <2>7
    <3>3. \A n \in 1..Len(p) - 1 : n \in Nat
      OBVIOUS
    <3> QED BY <2>7, <3>1, <3>2, <3>3, IncreasingTail
  <2>10. Expected(left)'
    <3>1. Len(left) <= call'.left
      BY <2>4, <2>5, <2>8 DEF Taken, Expected
    <3>2. ASSUME call.method = "subscribe"
          PROVE  /\ Len(left) = call'.left
                 /\ \A n \in DOMAIN left :
                       left[n] = call.asked[Len(call.asked) - call'.left + n]
      <4>1. Len(left) = call'.left
        BY <2>4, <2>5, <2>8, <3>2 DEF Taken, Expected
      <4>2. ASSUME NEW n \in DOMAIN left
            PROVE  left[n] = call.asked[Len(call.asked) - call'.left + n]
        <5>1. rest[n + 1] = call.asked[Len(call.asked) - call.left + (n + 1)]
          BY <2>5, <2>8, <3>2 DEF Taken, Expected
        <5>2. Len(call.asked) - call.left + (n + 1) =
                 Len(call.asked) - call'.left + n
          <6>1. Len(call.asked) \in Nat
            BY BaseFacts
          <6>2. n \in Nat
            BY <2>8
          <6>3. \A k, l \in Nat : k - l + (n + 1) = k - (l - 1) + n
            BY <6>2
          <6> QED BY <2>4, <6>1, <6>3
        <5> QED BY <2>8, <5>1, <5>2
      <4> QED BY <4>1, <4>2
    <3>3. ASSUME call.method = "unsubscribe", Legal
          PROVE  IsInjective(left) /\ \A n \in DOMAIN left : Once(list', left[n])
      <4>1. IsInjective(rest) /\ \A n \in DOMAIN rest : Once(list, rest[n])
        BY <2>5, <3>3 DEF Taken, Expected
      <4>2. IsInjective(left)
        <5>1. \A i, j \in DOMAIN left : i + 1 = j + 1 => i = j
          BY <2>8
        <5> QED BY <2>8, <4>1, <5>1 DEF IsInjective
      <4>3. ASSUME NEW n \in DOMAIN left PROVE Once(list', left[n])
        <5>1. left[n] # rest[1] /\ Once(list, left[n])
          <6>1. n + 1 \in DOMAIN rest /\ 1 \in DOMAIN rest /\ n + 1 # 1
            BY <2>5, <2>8
          <6> QED BY <2>8, <4>1, <6>1 DEF IsInjective
        <5>2. list' = Retain(list, rest[1])
          BY <1>1, <2>5, <3>3
        <5> QED BY <5>1, <5>2, BaseFacts, RetainDrops
      <4> QED BY <4>2, <4>3
    <3> QED BY <1>4, <1>5, <3>1, <3>2, <3>3 DEF Expected
  <2>11. Unread(left, q)'
    <3>1. Len(q) <= Len(left)
      BY <2>5, <2>8, <2>9 DEF Taken, Unread
    <3>2. ASSUME NEW n \in DOMAIN q
          PROVE  /\ q[n] \in read' + 1..Len(out)
                 /\ out[q[n]].kind = call.method /\ out[q[n]].chan = left[n]
      <4>1. /\ n + 1 \in DOMAIN p /\ q[n] = p[n + 1]
            /\ p[n + 1] \in read + 1..Len(out)
            /\ out[p[n + 1]].kind = call.method /\ out[p[n + 1]].chan = rest[n + 1]
        BY <2>5, <2>9 DEF Taken, Unread
      <4>2. q[n] \in read' + 1..Len(out)
        <5>1. read \in Nat /\ Len(out) \in Nat
          BY BaseFacts
        <5>2. p[1] < q[n]
          BY <2>9
        <5> QED BY <1>1, <2>5, <4>1, <5>1, <5>2
      <4>3. n \in DOMAIN left
        BY <2>8, <2>9, <3>1
      <4> QED BY <2>8, <4>1, <4>2, <4>3
    <3>3. ASSUME NEW i \in read' + 1..Len(out), ~IsMessage(out[i])
          PROVE  \E n \in DOMAIN q : q[n] = i
      <4>1. i \in read + 1..Len(out) /\ i # read + 1
        BY <1>1, BaseFacts
      <4>2. PICK m \in DOMAIN p : p[m] = i
        BY <2>5, <3>3, <4>1 DEF Taken, Unread
      <4>3. m # 1
        BY <2>5, <4>1, <4>2
      <4>4. m - 1 \in DOMAIN q /\ m - 1 + 1 = m
        BY <2>9, <4>3
      <4>5. q[m - 1] = i
        BY <2>9, <4>2, <4>4
      <4> QED BY <4>4, <4>5
    <3> QED BY <1>4, <1>7, <2>9, <3>1, <3>2, <3>3 DEF Unread
  <2>12. Undone(left, q)'
    <3>1. /\ Len(todo) = Len(rest) - Len(p)
          /\ \A n \in DOMAIN todo : todo[n] = rest[Len(p) + n]
          /\ todo # <<>> => Phase = PhaseOf(call.method)
      BY <2>5 DEF Taken, Undone
    <3>2. Len(todo) = Len(left) - Len(q)
      BY <2>8, <2>9, <3>1
    <3>3. ASSUME NEW n \in DOMAIN todo PROVE todo[n] = left[Len(q) + n]
      <4>1. n \in 1..Len(todo) /\ Len(todo) \in Nat
        BY BaseFacts
      <4>2. Len(q) + n \in DOMAIN left /\ (Len(q) + n) + 1 = Len(p) + n
        <5>1. /\ Len(left) \in Nat /\ DOMAIN left = 1..Len(left)
              /\ Len(q) \in Nat /\ Len(q) = Len(p) - 1 /\ Len(p) \in Nat
          BY <2>8, <2>9
        <5>2. n \in Nat /\ 1 <= n /\ n <= Len(left) - Len(q)
          BY <3>2, <4>1
        <5>3. \A k, l, m \in Nat :
                 l = m - 1 /\ 1 <= n /\ n <= k - l =>
                    l + n \in 1..k /\ (l + n) + 1 = m + n
          BY <5>2
        <5> QED BY <5>1, <5>2, <5>3
      <4> QED BY <2>8, <3>1, <4>2
    <3>4. Phase' = Phase
      BY <1>7 DEF Phase
    <3> QED BY <1>4, <1>7, <3>1, <3>2, <3>3, <3>4 DEF Undone, PhaseOf
  <2>13. inbox = <<>>
    BY <2>5 DEF Taken
  <2>14. Taken(left, q)'
    BY <1>7, <2>10, <2>11, <2>12, <2>13 DEF Taken
  <2> QED BY <2>14
<1> QED BY <1>8, <1>9

\* The call reads what it does not expect, or fails otherwise.
LEMMA FailAlign ==
    ASSUME BaseIInv, AlignInv, Unexpected \/ Reset \/ Drop
    PROVE  AlignInv' /\ FailureExplained'
<1>1. AlignInv'
  BY FailBase DEF AlignInv, Attached
<1>2. CASE Unexpected
  <2>1. /\ call.pc = "waiting" /\ call.left > 0 /\ user = "Subscriber"
        /\ Available /\ ~Confirms(NextFrame)
        /\ read' = read + 1 /\ UNCHANGED vars
    BY <1>2 DEF Unexpected, Waits
  <2>2. out' = out /\ pc' = pc /\ closed' = closed
    BY <2>1 DEF vars, client
  <2>3. ASSUME Attached PROVE IsMessage(NextFrame)
    <3> SUFFICES ASSUME ~IsMessage(NextFrame) PROVE FALSE
      OBVIOUS
    <3>1. PICK rest \in Seq(Channels), p \in Seq(Nat) :
             /\ Taken(rest, p) /\ Len(rest) > 0
             /\ NextFrame.kind = call.method /\ NextFrame.chan = rest[1]
      BY <2>1, <2>3, NextConfirmation
    <3>2. 1 \in DOMAIN rest
      BY <3>1
    <3>3. call.method = "subscribe" =>
             rest[1] = call.asked[Len(call.asked) - call.left + 1]
      BY <3>1, <3>2 DEF Taken, Expected
    <3> QED BY <2>1, <3>1, <3>3 DEF Confirms
  <2>4. read' > 0 /\ out'[read'] = NextFrame
    BY <2>1, <2>2, BaseFacts DEF NextFrame
  <2>5. Attached \/ pc = "done" \/ closed
    BY <2>1 DEF Attached
  <2>6. IsMessage(NextFrame) => read' > 0 /\ IsMessage(out'[read'])
    BY <2>4
  <2> QED BY <1>1, <2>2, <2>3, <2>5, <2>6, Zenon DEF FailureExplained
<1>3. CASE Reset
  <2>1. pc' = "done"
    BY <1>3 DEF Reset, vars
  <2> QED BY <1>1, <2>1 DEF FailureExplained
<1>4. CASE Drop
  <2>1. closed'
    BY <1>4, Zenon DEF Drop, ClientCloses
  <2> QED BY <1>1, <2>1, Zenon DEF FailureExplained
<1> QED BY <1>2, <1>3, <1>4

\* The call returns, or the Subscriber reads a message between two calls.
LEMMA ReturnAlign ==
    ASSUME BaseIInv, AlignInv, Return
    PROVE  AlignInv'
<1>1. /\ call.pc = "waiting" /\ call.left = 0 /\ user = "Subscriber"
      /\ call' = [call EXCEPT !.pc = "returned"]
      /\ read' = read /\ UNCHANGED vars
  BY DEF Return
<1>2. UNCHANGED <<pc, back, todo, subs, inbox, closed, out>>
  BY <1>1 DEF vars, client
<1>3. call'.method = call.method /\ call'.left = 0
  BY <1>1, BaseFacts DEF SessionTypes, CallRecord
<1> SUFFICES ASSUME Attached'
             PROVE  \/ \E rest \in Seq(Channels), p \in Seq(Nat) : Taken(rest, p)'
                    \/ \E k \in DOMAIN inbox : Waiting(k)'
  BY <1>2 DEF AlignInv
<1>4. Attached
  <2>1. ~closed' /\ pc' # "done"
    BY DEF Attached
  <2> QED BY <1>1, <1>2, <2>1 DEF Attached
<1>5. Keys' = Keys
  BY <1>2 DEF Keys
<1>6. ASSUME Quiet PROVE Quiet'
  BY <1>1, <1>2, <1>6 DEF Quiet, Unread
<1>7. ASSUME NEW rest \in Seq(Channels), NEW p \in Seq(Nat), Taken(rest, p)
      PROVE  Taken(<<>>, <<>>)'
  <2>1. rest = <<>> /\ todo = <<>> /\ Unread(<<>>, <<>>)
    BY <1>1, <1>7, NothingExpected
  <2>2. Quiet'
    BY <1>6, <2>1 DEF Quiet
  <2>3. Unread(<<>>, <<>>)' /\ Undone(<<>>, <<>>)'
    BY <2>2 DEF Quiet, Undone
  <2>4. Expected(<<>>)'
    BY <1>3 DEF Expected, IsInjective
  <2> QED BY <1>2, <1>5, <1>7, <2>1, <2>3, <2>4 DEF Taken
<1>8. ASSUME NEW k \in DOMAIN inbox, Waiting(k) PROVE Waiting(k)'
  <2>1. inbox[k].kind = "malformed"
    BY <1>1, <1>8, BaseFacts DEF Waiting, Active
  <2> QED BY <1>2, <1>5, <1>6, <1>8, <2>1 DEF Waiting
<1>9. <<>> \in Seq(Nat) /\ <<>> \in Seq(Channels)
  OBVIOUS
<1> QED BY <1>4, <1>7, <1>8, <1>9 DEF AlignInv

LEMMA NextMessageAlign ==
    ASSUME BaseIInv, AlignInv, NextMessage, ~astray'
    PROVE  AlignInv' /\ FailureExplained'
<1>1. /\ user = "Subscriber" /\ call.pc = "returned" /\ Available
      /\ read' = read + 1
      /\ call' = IF IsMessage(NextFrame) THEN call
                 ELSE [call EXCEPT !.method = "next_message", !.pc = "failed"]
      /\ UNCHANGED vars /\ list' = list
  BY BaseFacts DEF NextMessage, CallsAgain, Rests
<1>2. UNCHANGED <<pc, back, todo, subs, inbox, closed, out>> /\ Keys' = Keys
  BY <1>1 DEF vars, client, Keys
<1>3. call.left = 0
  BY <1>1, BaseFacts DEF CallInv
<1>4. ASSUME Attached PROVE IsMessage(NextFrame)
  BY <1>1, <1>3, <1>4, NextConfirmation
<1>5. CASE ~IsMessage(NextFrame)
  <2>1. call'.pc = "failed" /\ ~Attached
    BY <1>4, <1>5, NextMessageBase
  <2>2. pc' = "done" \/ closed'
    BY <1>1, <1>2, <2>1 DEF Attached
  <2> QED BY <2>1, <2>2 DEF AlignInv, Attached, FailureExplained
<1>6. CASE IsMessage(NextFrame)
  <2>1. call' = call
    BY <1>1, <1>6
  <2>2. FailureExplained'
    BY <1>1, <2>1 DEF FailureExplained
  <2>3. ASSUME NEW rest, NEW p \in Seq(Nat), Len(p) = 0, Unread(rest, p)
        PROVE  Unread(rest, p)'
    <3>1. \A i \in read' + 1..Len(out) : i \in read + 1..Len(out)
      BY <1>1, BaseFacts
    <3>2. DOMAIN p = {}
      BY <2>3
    <3> QED BY <1>1, <1>2, <2>1, <2>3, <3>1, <3>2 DEF Unread
  <2>4. ASSUME Quiet PROVE Quiet'
    <3>1. <<>> \in Seq(Nat) /\ Len(<<>>) = 0
      OBVIOUS
    <3> QED BY <1>2, <2>3, <2>4, <3>1 DEF Quiet
  <2> SUFFICES ASSUME Attached'
               PROVE  \/ \E rest \in Seq(Channels), p \in Seq(Nat) : Taken(rest, p)'
                      \/ \E k \in DOMAIN inbox : Waiting(k)'
    BY <1>2, <2>2 DEF AlignInv
  <2>5. Attached
    <3>1. ~closed' /\ pc' # "done"
      BY DEF Attached
    <3> QED BY <1>1, <1>2, <3>1 DEF Attached
  <2>6. ASSUME NEW rest \in Seq(Channels), NEW p \in Seq(Nat), Taken(rest, p)
        PROVE  Taken(rest, p)'
    <3>1. p = <<>> /\ todo = <<>>
      BY <1>3, <2>6, NothingExpected
    <3>2. Unread(rest, p)'
      BY <2>3, <2>6, <3>1 DEF Taken
    <3>3. Expected(rest)' /\ Undone(rest, p)'
      BY <1>1, <1>2, <2>1, <2>6, <3>1 DEF Taken, Expected, Undone, Legal
    <3> QED BY <1>2, <2>6, <3>2, <3>3 DEF Taken
  <2>7. ASSUME NEW k \in DOMAIN inbox, Waiting(k) PROVE Waiting(k)'
    <3>1. inbox[k].kind = "malformed"
      BY <1>1, <2>7 DEF Waiting, Active
    <3> QED BY <1>2, <2>4, <2>7, <3>1 DEF Waiting
  <2> QED BY <2>5, <2>6, <2>7 DEF AlignInv
<1> QED BY <1>5, <1>6

-----------------------------------------------------------------------------
\* The theorems.

\* Until a call after a failed one is made, calls and loop are in step.
InStep == BaseIInv /\ AlignInv /\ FailureExplained

\* The inductive invariant of a session.
IInv == LoopIInv /\ SessionTypes /\ (~astray => InStep)

\* What every step keeps, also of a Subscriber that called after a failed call.
LEMMA StepTypes ==
    ASSUME LoopIInv, SessionTypes, [NextSession]_sessionVars
    PROVE  LoopIInv' /\ SessionTypes' /\ (astray => astray')
<1>1. ASSUME UNCHANGED <<user, callVars>>, LoopStep
      PROVE  LoopIInv' /\ SessionTypes' /\ (astray => astray')
  <2>1. out \in Seq(Frame) /\ read \in 0..Len(out)
    BY DEF LoopIInv, TypeOK, SessionTypes
  <2>2. out' = out \/ \E f \in Frame : out' = Append(out, f)
    BY <1>1, LoopAppends
  <2>3. read \in 0..Len(out')
    <3>1. ASSUME NEW f \in Frame, out' = Append(out, f)
          PROVE  Len(out') = Len(out) + 1 /\ Len(out) \in Nat
      BY <2>1, <3>1
    <3> QED BY <2>1, <2>2, <3>1
  <2>4. LoopIInv'
    BY <1>1, LoopStepIInv
  <2> QED BY <1>1, <2>3, <2>4 DEF callVars, SessionTypes
<1>2. ASSUME NEW chans \in Calls, StartSubscribe(chans) \/ StartUnsubscribe(chans)
      PROVE  LoopIInv' /\ SessionTypes' /\ (astray => astray')
  <2>1. chans \in Seq(Channels) /\ Len(chans) \in Nat
    BY SubscriberAssumption
  <2>2. \E cmd \in Command : ClientSends(cmd)
    <3>1. ASSUME NEW kind \in {"malformed", "subscribe", "unsubscribe"}
          PROVE  [kind |-> kind, chans |-> chans] \in Command
      BY <2>1 DEF Command
    <3> QED BY <1>2, <3>1 DEF StartSubscribe, StartUnsubscribe
  <2>3. LoopIInv' /\ out' = out
    BY <2>2, LoopStepIInv DEF LoopStep, ClientSends
  <2>4. Leaving(chans) \in Nat
    BY <2>1, CallFields DEF Leaving
  <2>5. call' \in CallRecord
    <3>1. \/ call' = Call("subscribe", chans, list, Len(chans))
          \/ call' = Call("unsubscribe", chans, list, Leaving(chans))
      BY <1>2 DEF StartSubscribe, StartUnsubscribe
    <3> QED BY <2>1, <2>4, <3>1, CallFields DEF Call, CallRecord
  <2>6. /\ user' = user /\ list' = list /\ read' = read
        /\ astray' = (astray \/ call.pc = "failed")
    BY <1>2 DEF StartSubscribe, StartUnsubscribe, CallsAgain
  <2>7. astray' \in BOOLEAN /\ (astray => astray')
    BY <2>6, Zenon
  <2> QED BY <2>3, <2>5, <2>6, <2>7 DEF SessionTypes
<1>3. CASE Confirmed \/ Unexpected \/ Reset \/ Return \/ NextMessage \/ Drop
  <2>1. LoopIInv' /\ out' = out
    <3>1. UNCHANGED vars \/ ClientCloses
      BY <1>3 DEF Confirmed, Unexpected, Reset, Return, NextMessage, Drop
    <3> QED BY <3>1, LoopStepIInv, Zenon DEF LoopStep, ClientCloses, vars
  <2>2. /\ user' = user
        /\ astray' = astray \/ astray' = (astray \/ call.pc = "failed")
        /\ read' = read \/ (read' = read + 1 /\ Available)
    BY <1>3 DEF Confirmed, Unexpected, Reset, Return, NextMessage, Drop,
                CallsAgain
  <2>3. list' \in Seq(Channels)
    <3>1. \A ch : Retain(list, ch) \in Seq(Channels)
      BY CallFields, RetainDrops
    <3>2. list \o call.asked \in Seq(Channels)
      BY CallFields, ConcatProperties
    <3> QED BY <1>3, <3>1, <3>2, CallFields
            DEF Confirmed, Unexpected, Reset, Return, NextMessage, Drop
  <2>4. call' \in CallRecord
    <3>1. call \in CallRecord /\ (Waits => call.left - 1 \in Nat)
      BY CallFields DEF Waits, SessionTypes
    <3>2. \/ call' = call
          \/ call' = [call EXCEPT !.pc = "failed"]
          \/ call' = [call EXCEPT !.pc = "returned"]
          \/ call' = [call EXCEPT !.left = call.left - 1] /\ Waits
          \/ call' = [call EXCEPT !.method = "next_message", !.pc = "failed"]
      BY <1>3 DEF Confirmed, Unexpected, Reset, Return, NextMessage, Drop
    <3> QED BY <3>1, <3>2 DEF CallRecord
  <2>5. read' \in 0..Len(out)
    BY <2>2, CallFields DEF Available
  <2>6. astray \in BOOLEAN
    BY DEF SessionTypes
  <2>7. astray' \in BOOLEAN /\ (astray => astray')
    <3>1. CASE astray' = astray
      BY <2>6, <3>1, Zenon
    <3>2. CASE astray' = (astray \/ call.pc = "failed")
      BY <3>2, Zenon
    <3> QED BY <2>2, <3>1, <3>2
  <2> QED BY <2>1, <2>2, <2>3, <2>4, <2>5, <2>7 DEF SessionTypes
<1>4. CASE AnyUserActs
  <2>1. LoopStep /\ UNCHANGED <<user, callVars>>
    BY <1>4, SubscribeAssumption DEF AnyUserActs, LoopStep
  <2> QED BY <1>1, <2>1
<1>5. CASE (LoopActs \/ OthersAct \/ UNCHANGED vars) /\ UNCHANGED <<user, callVars>>
  <2>1. LoopStep
    BY <1>5 DEF OthersAct, LoopStep
  <2> QED BY <1>1, <1>5, <2>1
<1> QED BY <1>2, <1>3, <1>4, <1>5
        DEF NextSession, SubscriberActs, Method, sessionVars

LEMMA InitIInv == InitSession => IInv
<1> SUFFICES ASSUME InitSession PROVE IInv
  OBVIOUS
<1>1. /\ Init /\ user \in {"Subscriber", "any"}
      /\ call = Call("subscribe", Initial, <<>>, Len(Initial))
      /\ list = <<>> /\ read = 0 /\ astray = FALSE
  BY DEF InitSession
<1>2. /\ out = <<>> /\ inbox = <<>> /\ todo = Initial /\ pc = "channels"
      /\ Initial \in Seq(Channels) /\ Len(Initial) \in Nat
  BY <1>1, SubscribeAssumption DEF Init
<1>3. /\ call.method = "subscribe" /\ call.asked = Initial /\ call.pc = "waiting"
      /\ call.left = Len(Initial) /\ call.before = <<>>
  BY <1>1 DEF Call
<1>4. LoopIInv
  BY <1>1, InitLoopIInv
<1>5. SessionTypes
  <2>1. call \in CallRecord
    BY <1>1, <1>2 DEF Call, CallRecord
  <2>2. astray \in BOOLEAN
    BY <1>1, Zenon
  <2> QED BY <1>1, <1>2, <2>1, <2>2 DEF SessionTypes
<1>6. CallInv
  BY <1>2, <1>3 DEF CallInv
<1>7. ListHolds
  <2>1. SoFar = 0
    BY <1>2, <1>3 DEF SoFar
  <2>2. \A ch : ~Listed(ch) /\ ~SubscribedAt(out, 0, ch)
    BY <1>1, <2>1 DEF Listed, ToSet, SubscribedAt
  <2> QED BY <1>1, <2>2 DEF ListHolds
<1>8. PICK rest \in Seq(Channels) : rest = Initial
  BY <1>2
<1>9. Taken(rest, <<>>)
  <2>1. Expected(rest)
    <3>1. \A n \in DOMAIN rest :
             rest[n] = call.asked[Len(call.asked) - call.left + n]
      BY <1>2, <1>3, <1>8
    <3> QED BY <1>2, <1>3, <1>8, <3>1 DEF Expected
  <2>2. Unread(rest, <<>>)
    BY <1>1, <1>2 DEF Unread, Increasing
  <2>3. Undone(rest, <<>>)
    BY <1>2, <1>3, <1>8 DEF Undone, Phase, PhaseOf
  <2> QED BY <1>2, <2>1, <2>2, <2>3 DEF Taken
<1>10. <<>> \in Seq(Nat)
  OBVIOUS
<1>11. AlignInv
  BY <1>9, <1>10 DEF AlignInv
<1>12. FailureExplained
  BY <1>3 DEF FailureExplained
<1> QED BY <1>4, <1>5, <1>6, <1>7, <1>11, <1>12 DEF IInv, InStep, BaseIInv

LEMMA NextIInv == IInv /\ [NextSession]_sessionVars => IInv'
<1> SUFFICES ASSUME IInv, [NextSession]_sessionVars, ~astray' PROVE InStep'
  BY StepTypes DEF IInv
<1>1. BaseIInv /\ AlignInv /\ FailureExplained
  BY StepTypes DEF IInv, InStep
<1>2. ASSUME NEW chans \in Calls, StartSubscribe(chans) \/ StartUnsubscribe(chans)
      PROVE  InStep'
  BY <1>1, <1>2, StartBase, StartAlign DEF InStep
<1>3. CASE Confirmed
  BY <1>1, <1>3, ConfirmedBase, ConfirmedAlign DEF InStep
<1>4. CASE Unexpected \/ Reset \/ Drop
  BY <1>1, <1>4, FailBase, FailAlign DEF InStep
<1>5. CASE Return
  BY <1>1, <1>5, ReturnBase, ReturnAlign DEF InStep
<1>6. CASE NextMessage
  BY <1>1, <1>6, NextMessageBase, NextMessageAlign DEF InStep
<1>7. CASE AnyUserActs
  <2>1. LoopStep
    BY <1>7, SubscribeAssumption DEF AnyUserActs, LoopStep
  <2>2. user = "any" /\ UNCHANGED <<user, callVars>>
    BY <1>7 DEF AnyUserActs
  <2>3. BaseIInv' /\ FailureExplained'
    BY <1>1, <2>1, <2>2, LoopStepBase
  <2>4. AlignInv'
    BY <2>2 DEF AlignInv, Attached
  <2> QED BY <2>3, <2>4 DEF InStep
<1>8. CASE (LoopActs \/ OthersAct \/ UNCHANGED vars) /\ UNCHANGED <<user, callVars>>
  <2>1. LoopStep
    BY <1>8 DEF OthersAct, LoopStep
  <2>2. BaseIInv' /\ FailureExplained'
    BY <1>1, <1>8, <2>1, LoopStepBase
  <2>3. AlignInv'
    BY <1>1, <1>8, LoopAlign
  <2> QED BY <2>2, <2>3 DEF InStep
<1>9. CASE UNCHANGED sessionVars
  BY <1>8, <1>9 DEF sessionVars
<1> QED BY <1>2, <1>3, <1>4, <1>5, <1>6, <1>7, <1>8, <1>9
        DEF NextSession, SubscriberActs, Method

\* The inductive invariant is one.
THEOREM SessionInvariance == SpecSession => []IInv
  BY InitIInv, NextIInv, PTL DEF SpecSession

\* The state of a session stays within its types.
THEOREM TypeCorrect == SpecSession => []TypeOKSession
<1>1. IInv => TypeOKSession
  BY DEF IInv, LoopIInv, SessionTypes, CallRecord, TypeOKSession
<1> QED BY <1>1, SessionInvariance, PTL

\* Whatever a client sends, it reads messages only between the confirmations of
\* a subscription and of its end (subscribe.rs:190-196, 233-238).
THEOREM MessagesOfSubscriptions == SpecSession => []MessagesWithinSubscriptions
<1>1. IInv => MessagesWithinSubscriptions
  BY DEF IInv, LoopIInv, FramesRight
<1> QED BY <1>1, SessionInvariance, PTL

\* It reads none twice and none after a later one of its channel, also when it
\* lags behind or subscribes again (subscribe.rs:132-134, 176-191).
THEOREM MessagesInOrder == SpecSession => []MessagesOnceInOrder
<1>1. IInv => MessagesOnceInOrder
  BY DEF IInv, LoopIInv, FramesRight
<1> QED BY <1>1, SessionInvariance, PTL

\* Until a call fails, subscribed_channels is what the frames read say, for every
\* calls of any number of channels and whatever others publish meanwhile
\* (client.rs:349-505).
THEOREM ListCorrect == SpecSession => []ListAgrees
<1>1. ASSUME IInv PROVE ListAgrees
  <2>1. SessionTypes
    BY <1>1 DEF IInv
  <2>2. CASE astray
    BY <2>2 DEF ListAgrees
  <2>3. CASE ~astray
    <3>1. CallInv /\ ListHolds
      BY <1>1, <2>3 DEF IInv, InStep, BaseIInv
    <3> QED BY <2>1, <3>1, ListHoldsMeans
  <2> QED BY <2>2, <2>3
<1> QED BY <1>1, SessionInvariance, PTL

\* Between one Subscriber and the loop, the first call that fails does so because
\* a message or the end of the connection came between it and its responses, or
\* because it leaves what the list does not hold just once; any later failure
\* has that first one as a reason too (client.rs:349-369, 474-503).
THEOREM FailuresExplained == SpecSession => []FailsOnlyFor
<1>1. IInv => FailsOnlyFor
  BY FailureExplainedMeans DEF IInv, InStep
<1> QED BY <1>1, SessionInvariance, PTL
=============================================================================
