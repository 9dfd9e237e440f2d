------------------------- MODULE CppSubscribeProofs -------------------------
(* The safety of the C++ subscribe loop for any channels, commands and bounds: *)
(* the frames a client reads agree with its confirmations, and a waiting loop  *)
(* is watched.                                                                 *)
EXTENDS CppSubscribe, FunctionTheorems, FiniteSetTheorems, SequenceTheorems, TLAPS

\* What AtPlaces keeps are elements of the sequence at the places asked for
\* (command.cpp:371-377).
LEMMA AtPlacesElements ==
    ASSUME NEW S, NEW seq \in Seq(S), NEW I \in SUBSET DOMAIN seq
    PROVE  /\ AtPlaces(seq, I) \in Seq(S)
           /\ \A n \in DOMAIN AtPlaces(seq, I) :
                 \E i \in I : AtPlaces(seq, I)[n] = seq[i]
<1> DEFINE Upto(i) == {j \in I : j <= i}
           rank == [i \in I |-> Cardinality(Upto(i))]
           card == Cardinality(I)
<1>1. IsFiniteSet(I) /\ card \in Nat
  <2>1. IsFiniteSet(1..Len(seq))
    BY FS_Interval
  <2>2. I \subseteq 1..Len(seq)
    OBVIOUS
  <2> QED BY <2>1, <2>2, FS_Subset, FS_CardinalityType
<1>2. \A i \in I : /\ IsFiniteSet(Upto(i))
                   /\ Cardinality(Upto(i)) \in 1..card
  <2> SUFFICES ASSUME NEW i \in I
               PROVE  /\ IsFiniteSet(Upto(i))
                      /\ Cardinality(Upto(i)) \in 1..card
    OBVIOUS
  <2>1. IsFiniteSet(Upto(i)) /\ Cardinality(Upto(i)) <= card
    BY <1>1, FS_Subset
  <2>2. Cardinality(Upto(i)) # 0
    <3>1. i \in Upto(i)
      OBVIOUS
    <3> QED BY <2>1, <3>1, FS_EmptySet
  <2>3. Cardinality(Upto(i)) \in Nat
    BY <2>1, FS_CardinalityType
  <2> QED BY <1>1, <2>1, <2>2, <2>3
<1>3. rank \in Injection(I, 1..card)
  <2>1. ASSUME NEW i \in I, NEW k \in I, i < k
        PROVE  rank[i] # rank[k]
    <3>1. Upto(i) \subseteq Upto(k) /\ k \in Upto(k) /\ k \notin Upto(i)
      BY <2>1
    <3>2. IsFiniteSet(Upto(k))
      BY <1>2
    <3>3. Cardinality(Upto(i)) # Cardinality(Upto(k))
      BY <3>1, <3>2, FS_Subset
    <3> QED BY <3>3
  <2>2. rank \in [I -> 1..card]
    BY <1>2
  <2> HIDE DEF rank
  <2>3. ASSUME NEW i \in I, NEW k \in I, rank[i] = rank[k]
        PROVE  i = k
    <3>1. i \in Nat /\ k \in Nat
      OBVIOUS
    <3> QED BY <2>1, <2>3, <3>1
  <2> QED BY <2>2, <2>3 DEF Injection, IsInjective
<1>4. rank \in Surjection(I, 1..card)
  <2>1. IsFiniteSet(1..card) /\ Cardinality(1..card) = card
    BY <1>1, FS_Interval
  <2> HIDE DEF rank
  <2> QED BY <1>3, <2>1, FS_Injection
<1>5. \A n \in 1..card : \E i \in I : Cardinality(Upto(i)) = n
  BY <1>4 DEF Surjection
<1>6. \A n \in 1..card : \E i \in I : AtPlaces(seq, I)[n] = seq[i]
  <2>1. ASSUME NEW n \in 1..card
        PROVE  /\ (CHOOSE i \in I : Cardinality(Upto(i)) = n) \in I
               /\ AtPlaces(seq, I)[n] =
                     seq[CHOOSE i \in I : Cardinality(Upto(i)) = n]
    BY <1>5 DEF AtPlaces
  <2> QED BY <2>1
<1>7. AtPlaces(seq, I) \in [1..card -> S]
  <2>1. \A i \in I : seq[i] \in S
    OBVIOUS
  <2>2. DOMAIN AtPlaces(seq, I) = 1..card
    BY DEF AtPlaces
  <2>3. AtPlaces(seq, I) = [n \in 1..card |-> AtPlaces(seq, I)[n]]
    BY <2>2 DEF AtPlaces
  <2> QED BY <1>6, <2>1, <2>3
<1> HIDE DEF card
<1> QED BY <1>1, <1>6, <1>7

-----------------------------------------------------------------------------
\* A subscription lasts until the confirmation of its unsubscription.
LEMMA StaysSubscribed ==
    ASSUME NEW seq \in Seq(Frame), NEW f \in Frame, NEW ch,
           SubscribedAt(seq, Len(seq), ch),
           ~(f.kind = "unsubscribe" /\ f.chan = ch)
    PROVE  SubscribedAt(Append(seq, f), Len(Append(seq, f)), ch)
<1> DEFINE long == Append(seq, f)
<1>1. /\ Len(long) = Len(seq) + 1 /\ long[Len(seq) + 1] = f
      /\ \A i \in 1..Len(seq) : long[i] = seq[i]
  OBVIOUS
<1>2. PICK i \in 1..Len(seq) :
         /\ seq[i].kind = "subscribe" /\ seq[i].chan = ch
         /\ \A j \in i+1..Len(seq) :
               ~(seq[j].kind = "unsubscribe" /\ seq[j].chan = ch)
  BY DEF SubscribedAt
<1> HIDE DEF long
<1>3. \A j \in i+1..Len(long) :
         ~(long[j].kind = "unsubscribe" /\ long[j].chan = ch)
  <2> SUFFICES ASSUME NEW j \in i+1..Len(long)
               PROVE  ~(long[j].kind = "unsubscribe" /\ long[j].chan = ch)
    OBVIOUS
  <2>1. j = Len(seq) + 1 \/ j \in i+1..Len(seq)
    BY <1>1
  <2> QED BY <1>1, <1>2, <2>1
<1>4. i \in 1..Len(long) /\ long[i].kind = "subscribe" /\ long[i].chan = ch
  BY <1>1, <1>2
<1>5. SubscribedAt(long, Len(long), ch)
  BY <1>3, <1>4 DEF SubscribedAt
<1> QED BY <1>5 DEF long

\* A confirmation subscribes.
LEMMA ConfirmationSubscribes ==
    ASSUME NEW seq \in Seq(Frame), NEW f \in Frame, f.kind = "subscribe"
    PROVE  SubscribedAt(Append(seq, f), Len(Append(seq, f)), f.chan)
<1>1. Len(Append(seq, f)) = Len(seq) + 1 /\ Append(seq, f)[Len(seq) + 1] = f
  OBVIOUS
<1> QED BY <1>1 DEF SubscribedAt

\* A frame keeps what has been written within the subscriptions if, a message,
\* it belongs to one.
LEMMA StaysWithin ==
    ASSUME NEW seq \in Seq(Frame), NEW f \in Frame,
           WithinSubscriptions(seq),
           IsMessage(f) => SubscribedAt(seq, Len(seq), f.chan)
    PROVE  WithinSubscriptions(Append(seq, f))
<1> DEFINE long == Append(seq, f)
<1>1. /\ Len(long) = Len(seq) + 1 /\ long[Len(seq) + 1] = f
      /\ \A i \in 1..Len(seq) : long[i] = seq[i]
  OBVIOUS
<1> HIDE DEF long
<1>2. \A n \in 0..Len(seq) : \A ch : SubscribedAt(seq, n, ch) => SubscribedAt(long, n, ch)
  BY <1>1 DEF SubscribedAt
<1>3. ASSUME NEW i \in 1..Len(long), IsMessage(long[i])
      PROVE  SubscribedAt(long, i - 1, long[i].chan)
  <2>1. CASE i \in 1..Len(seq)
    <3>1. SubscribedAt(seq, i - 1, seq[i].chan)
      BY <1>1, <1>3, <2>1 DEF WithinSubscriptions
    <3>2. i - 1 \in 0..Len(seq)
      BY <2>1
    <3> QED BY <1>1, <1>2, <2>1, <3>1, <3>2
  <2>2. CASE i = Len(seq) + 1
    <3>1. i - 1 = Len(seq) /\ Len(seq) \in 0..Len(seq)
      BY <2>2
    <3>2. SubscribedAt(seq, Len(seq), long[i].chan)
      BY <1>1, <1>3, <2>2
    <3> QED BY <1>2, <3>1, <3>2
  <2> QED BY <1>1, <2>1, <2>2
<1> QED BY <1>3 DEF WithinSubscriptions, long

-----------------------------------------------------------------------------
\* Every subscription has been confirmed, and not the end of it.
OnlyConfirmed ==
    \A i \in DOMAIN subs : SubscribedAt(out, Len(out), subs[i].chan)

\* The watcher is woken by the signal only.
WatcherTold == watcher \in {"ready", "done"} => triggered

FramesIInv == OnlyConfirmed /\ MessagesWithinSubscriptions
WakeIInv == WatcherTold /\ SocketAndShutdownWatched

\* The inductive invariant.
IInv == StateOK /\ FramesIInv /\ WakeIInv

LEMMA InitIInv == Init => IInv
<1> SUFFICES ASSUME Init PROVE IInv
  OBVIOUS
<1> USE DEF Init
<1>1. StateOK
  <2>1. todo \in Seq(Channels)
    BY CppSubscribeAssumption
  <2>2. /\ subs \in Seq(Subscription) /\ out \in Seq(Frame)
        /\ inbox \in Seq(Command) /\ buf \in Seq(Command)
    OBVIOUS
  <2> QED BY <2>1, <2>2 DEF StateOK
<1>2. FramesIInv
  BY DEF FramesIInv, OnlyConfirmed, MessagesWithinSubscriptions,
         WithinSubscriptions
<1>3. WakeIInv
  BY DEF WakeIInv, WatcherTold, SocketAndShutdownWatched
<1> QED BY <1>1, <1>2, <1>3 DEF IInv

\* A step that writes a frame keeps the frames right if what it leaves in the
\* list of subscriptions was there, and is not what the frame ends, or is what
\* it confirms.
LEMMA WriteKeepsFrames ==
    ASSUME StateOK, FramesIInv, NEW f \in Frame, NEW label, Write(f, label),
           IsMessage(f) => \E i \in DOMAIN subs : subs[i].chan = f.chan,
           \A n \in DOMAIN subs' :
              \/ f.kind = "subscribe" /\ subs'[n].chan = f.chan
              \/ /\ ~(f.kind = "unsubscribe" /\ subs'[n].chan = f.chan)
                 /\ \E i \in DOMAIN subs : subs[i].chan = subs'[n].chan
    PROVE  FramesIInv'
<1>1. out \in Seq(Frame) /\ out' = Append(out, f)
  BY DEF StateOK, Write
<1>2. WithinSubscriptions(out')
  BY <1>1, StaysWithin DEF FramesIInv, OnlyConfirmed, MessagesWithinSubscriptions
<1>3. \A n \in DOMAIN subs' : SubscribedAt(out', Len(out'), subs'[n].chan)
  BY <1>1, StaysSubscribed, ConfirmationSubscribes DEF FramesIInv, OnlyConfirmed
<1> QED BY <1>2, <1>3 DEF FramesIInv, OnlyConfirmed, MessagesWithinSubscriptions

-----------------------------------------------------------------------------
\* The steps that write.

LEMMA SubscribeNextIInv ==
    ASSUME IInv, NEW label \in {"initial", "subscribe"}, SubscribeNext(label)
    PROVE  IInv'
<1> DEFINE sub == [chan |-> Head(todo), pending |-> <<>>]
           frame == SubscribeFrame(Head(todo), Len(subs'))
<1>1. /\ todo # <<>> /\ todo' = Tail(todo)
      /\ subs' = Append(subs, sub)
      /\ Write(frame, label)
      /\ out' = Append(out, frame) /\ pc' = "writing" /\ back' = label
      /\ UNCHANGED <<at, buf, published, client, wake, signal>>
  BY DEF SubscribeNext, Write
<1>2. StateOK
  BY DEF IInv
<1>3. /\ Head(todo) \in Channels /\ Tail(todo) \in Seq(Channels)
      /\ subs' \in Seq(Subscription)
  <2>1. subs \in Seq(Subscription) /\ todo \in Seq(Channels)
    BY <1>2 DEF StateOK
  <2>2. Head(todo) \in Channels /\ Tail(todo) \in Seq(Channels)
    BY <1>1, <2>1
  <2>3. sub \in Subscription
    BY <2>2 DEF Subscription
  <2> HIDE DEF sub
  <2> QED BY <1>1, <2>1, <2>2, <2>3
<1>4. frame \in Frame
  BY <1>3 DEF SubscribeFrame, Frame
<1>5. StateOK'
  BY <1>1, <1>2, <1>3, <1>4 DEF StateOK, client, wake, signal
<1>6. FramesIInv'
  <2>1. \A n \in DOMAIN subs' :
           subs'[n].chan = frame.chan \/ \E i \in DOMAIN subs : subs[i] = subs'[n]
    BY <1>1, <1>2 DEF StateOK, SubscribeFrame
  <2>2. frame.kind = "subscribe" /\ ~IsMessage(frame)
    BY DEF SubscribeFrame, IsMessage
  <2> HIDE DEF frame
  <2> QED BY <1>1, <1>2, <1>4, <2>1, <2>2, WriteKeepsFrames DEF IInv
<1>7. WakeIInv'
  BY <1>1 DEF IInv, WakeIInv, WatcherTold, SocketAndShutdownWatched, signal
<1> QED BY <1>5, <1>6, <1>7 DEF IInv

LEMMA DrainNextIInv == IInv /\ DrainNext => IInv'
<1> SUFFICES ASSUME IInv, DrainNext PROVE IInv'
  OBVIOUS
<1>1. PICK i \in at..Len(subs) :
         /\ subs[i].pending # <<>>
         /\ at' = i
         /\ subs' = [subs EXCEPT ![i].pending = Tail(@)]
         /\ Write(MessageFrame(subs[i].chan, Head(subs[i].pending)), "drain")
  BY DEF DrainNext
<1> DEFINE frame == MessageFrame(subs[i].chan, Head(subs[i].pending))
<1>2. StateOK
  BY DEF IInv
<1>3. /\ pc' = "writing" /\ back' = "drain" /\ out' = Append(out, frame)
      /\ UNCHANGED <<todo, buf, published, client, wake, signal>>
  BY <1>1 DEF DrainNext, Write
<1>4. i \in DOMAIN subs /\ i \in Nat \ {0}
  BY <1>2 DEF StateOK
<1>5. /\ subs[i].chan \in Channels
      /\ Head(subs[i].pending) \in Nat /\ Tail(subs[i].pending) \in Seq(Nat)
      /\ [subs[i] EXCEPT !.pending = Tail(@)] \in Subscription
  <2>1. subs[i] \in Subscription
    BY <1>2, <1>4 DEF StateOK
  <2>2. subs[i].chan \in Channels /\ subs[i].pending \in Seq(Nat)
    BY <2>1 DEF Subscription
  <2>3. Head(subs[i].pending) \in Nat /\ Tail(subs[i].pending) \in Seq(Nat)
    BY <1>1, <2>2
  <2> QED BY <2>1, <2>2, <2>3 DEF Subscription
<1>6. subs' \in Seq(Subscription)
  <2>1. subs \in Seq(Subscription)
    BY <1>2 DEF StateOK
  <2>2. subs' = [subs EXCEPT ![i] = [subs[i] EXCEPT !.pending = Tail(@)]]
    BY <1>1
  <2> QED BY <1>4, <1>5, <2>1, <2>2
<1>7. frame \in Frame
  BY <1>5 DEF MessageFrame, Frame
<1>8. StateOK'
  BY <1>1, <1>2, <1>3, <1>4, <1>6, <1>7 DEF StateOK, client, wake, signal
<1>9. FramesIInv'
  <2>1. \A n \in DOMAIN subs' : n \in DOMAIN subs /\ subs'[n].chan = subs[n].chan
    BY <1>1, <1>2, <1>4 DEF StateOK
  <2>2. frame.kind = "message" /\ frame.chan = subs[i].chan
    BY DEF MessageFrame
  <2> HIDE DEF frame
  <2> QED BY <1>1, <1>2, <1>4, <1>7, <2>1, <2>2, WriteKeepsFrames
          DEF IInv, frame
<1>10. WakeIInv'
  BY <1>3 DEF IInv, WakeIInv, WatcherTold, SocketAndShutdownWatched, signal
<1> QED BY <1>8, <1>9, <1>10 DEF IInv

LEMMA UnsubscribeNextIInv == IInv /\ UnsubscribeNext => IInv'
<1> SUFFICES ASSUME IInv, UnsubscribeNext PROVE IInv'
  OBVIOUS
<1> DEFINE frame == UnsubscribeFrame(Head(todo), Len(subs'))
           kept == {i \in DOMAIN subs : subs[i].chan # Head(todo)}
<1>1. /\ todo # <<>> /\ todo' = Tail(todo)
      /\ subs' = AtPlaces(subs, kept)
      /\ Write(frame, "unsubscribe")
      /\ out' = Append(out, frame) /\ pc' = "writing" /\ back' = "unsubscribe"
      /\ UNCHANGED <<at, buf, published, client, wake, signal>>
  BY DEF UnsubscribeNext, Write, Without
<1>2. StateOK
  BY DEF IInv
<1>3. subs \in Seq(Subscription) /\ kept \in SUBSET DOMAIN subs
  BY <1>2 DEF StateOK
<1>4. Head(todo) \in Channels /\ Tail(todo) \in Seq(Channels)
  BY <1>1, <1>2 DEF StateOK
<1>5. subs' \in Seq(Subscription) /\ \A n \in DOMAIN subs' : \E i \in kept : subs'[n] = subs[i]
  <2> HIDE DEF kept
  <2> QED BY <1>1, <1>3, AtPlacesElements
<1>6. frame \in Frame
  BY <1>4, <1>5 DEF UnsubscribeFrame, Frame
<1>7. StateOK'
  BY <1>1, <1>2, <1>4, <1>5, <1>6 DEF StateOK, client, wake, signal
<1>8. FramesIInv'
  <2>1. frame.kind = "unsubscribe" /\ frame.chan = Head(todo) /\ ~IsMessage(frame)
    BY DEF UnsubscribeFrame, IsMessage
  <2>2. \A n \in DOMAIN subs' :
           /\ subs'[n].chan # frame.chan
           /\ \E i \in DOMAIN subs : subs[i].chan = subs'[n].chan
    BY <1>5, <2>1
  <2> HIDE DEF frame
  <2> QED BY <1>1, <1>2, <1>6, <2>1, <2>2, WriteKeepsFrames DEF IInv
<1>9. WakeIInv'
  BY <1>1 DEF IInv, WakeIInv, WatcherTold, SocketAndShutdownWatched, signal
<1> QED BY <1>7, <1>8, <1>9 DEF IInv

LEMMA RejectCommandIInv == IInv /\ RejectCommand => IInv'
<1> SUFFICES ASSUME IInv, RejectCommand PROVE IInv'
  OBVIOUS
<1>1. /\ buf # <<>> /\ buf' = Tail(buf)
      /\ Write(ErrorFrame, "parse")
      /\ out' = Append(out, ErrorFrame) /\ pc' = "writing" /\ back' = "parse"
      /\ UNCHANGED <<todo, at, subs, published, client, wake, signal>>
  BY DEF RejectCommand, Write
<1>2. StateOK
  BY DEF IInv
<1>3. ErrorFrame \in Frame /\ ErrorFrame.kind = "error"
  BY DEF ErrorFrame, Frame
<1>4. StateOK'
  BY <1>1, <1>2, <1>3 DEF StateOK, client, wake, signal
<1>5. FramesIInv'
  BY <1>1, <1>2, <1>3, WriteKeepsFrames DEF IInv, IsMessage
<1>6. WakeIInv'
  BY <1>1 DEF IInv, WakeIInv, WatcherTold, SocketAndShutdownWatched, signal
<1> QED BY <1>4, <1>5, <1>6 DEF IInv

-----------------------------------------------------------------------------
\* The steps that do not.

\* Publishing adds to what is pending.
LEMMA PublishIInv ==
    ASSUME IInv, NEW ch \in Channels, Publish(ch)
    PROVE  IInv'
<1>1. StateOK
  BY DEF IInv
<1>2. /\ published' = published + 1
      /\ UNCHANGED <<pc, back, todo, at, buf, out, client, armed, callbacks,
                     signal>>
      /\ woken' = woken \/ woken' = (woken \/ pc = "waiting")
  BY DEF Publish, Cancel
<1>3. /\ subs' \in Seq(Subscription)
      /\ \A i \in DOMAIN subs' : i \in DOMAIN subs /\ subs'[i].chan = subs[i].chan
  <2>1. CASE pc = "done"
    BY <1>1, <2>1 DEF Publish, StateOK
  <2>2. CASE pc # "done"
    <3>1. subs' = [i \in 1..Len(subs) |->
                     IF subs[i].chan = ch
                     THEN [subs[i] EXCEPT !.pending = Append(@, published')]
                     ELSE subs[i]]
      BY <2>2 DEF Publish
    <3>2. subs \in Seq(Subscription) /\ published' \in Nat
      BY <1>1, <1>2 DEF StateOK
    <3>3. ASSUME NEW sub \in Subscription
          PROVE  /\ [sub EXCEPT !.pending = Append(@, published')] \in Subscription
                 /\ [sub EXCEPT !.pending = Append(@, published')].chan = sub.chan
      <4>1. sub.pending \in Seq(Nat)
        BY DEF Subscription
      <4>2. Append(sub.pending, published') \in Seq(Nat)
        BY <3>2, <4>1
      <4> QED BY <4>2 DEF Subscription
    <3>4. ASSUME NEW i \in 1..Len(subs)
          PROVE  subs'[i] \in Subscription /\ subs'[i].chan = subs[i].chan
      <4>1. subs[i] \in Subscription
        BY <3>2
      <4>2. \/ subs'[i] = subs[i]
            \/ subs'[i] = [subs[i] EXCEPT !.pending = Append(@, published')]
        BY <3>1
      <4> QED BY <3>3, <4>1, <4>2
    <3> QED BY <3>1, <3>2, <3>4
  <2> QED BY <2>1, <2>2
<1>4. StateOK'
  BY <1>1, <1>2, <1>3 DEF StateOK, client, signal
<1>5. FramesIInv'
  BY <1>2, <1>3 DEF IInv, FramesIInv, OnlyConfirmed, MessagesWithinSubscriptions
<1>6. WakeIInv'
  BY <1>1, <1>2 DEF IInv, WakeIInv, WatcherTold, SocketAndShutdownWatched, signal, StateOK
<1> QED BY <1>4, <1>5, <1>6 DEF IInv

\* What leaves the frames and the subscriptions alone.
LEMMA FramesUntouched == FramesIInv /\ UNCHANGED <<out, subs>> => FramesIInv'
  BY DEF FramesIInv, OnlyConfirmed, MessagesWithinSubscriptions

\* Commands come and are taken.
LEMMA CommandsIInv ==
    IInv /\ (ReadAvailable \/ ApplySubscribe \/ ApplyUnsubscribe \/ SkipCommand
             \/ \E cmd \in Commands : ClientSends(cmd)) => IInv'
<1> SUFFICES ASSUME IInv,
                    ReadAvailable \/ ApplySubscribe \/ ApplyUnsubscribe
                    \/ SkipCommand \/ \E cmd \in Commands : ClientSends(cmd)
             PROVE  IInv'
  OBVIOUS
<1>1. StateOK
  BY DEF IInv
<1>2. FramesIInv'
  BY FramesUntouched
     DEF IInv, ReadAvailable, ApplySubscribe, ApplyUnsubscribe, SkipCommand, ClientSends
<1>3. WakeIInv'
  BY DEF IInv, WakeIInv, WatcherTold, SocketAndShutdownWatched, ReadAvailable,
         ApplySubscribe, ApplyUnsubscribe, SkipCommand, ClientSends, wake, signal
<1>4. StateOK'
  <2>1. CASE ReadAvailable
    <3>1. inbox \in Seq(Command) /\ buf \in Seq(Command)
      BY <1>1 DEF StateOK
    <3>2. buf \o inbox \in Seq(Command) /\ <<>> \in Seq(Command)
      BY <3>1
    <3>3. buf' \in Seq(Command) /\ inbox' \in Seq(Command)
      BY <2>1, <3>1, <3>2 DEF ReadAvailable
    <3> QED BY <1>1, <2>1, <3>3 DEF ReadAvailable, StateOK, wake, signal
  <2> DEFINE Taken == buf # <<>> => /\ Head(buf).chans \in Seq(Channels)
                                   /\ Tail(buf) \in Seq(Command)
  <2>6. Taken
    <3>1. buf # <<>> => Head(buf) \in Command /\ Tail(buf) \in Seq(Command)
      BY <1>1 DEF StateOK
    <3> QED BY <3>1 DEF Command
  <2>2. CASE ApplySubscribe
    BY <1>1, <2>2, <2>6 DEF ApplySubscribe, StateOK, client, wake, signal
  <2>3. CASE ApplyUnsubscribe
    <3>1. [i \in 1..Len(subs) |-> subs[i].chan] \in Seq(Channels)
      <4>1. subs \in Seq(Subscription)
        BY <1>1 DEF StateOK
      <4>2. \A i \in 1..Len(subs) : subs[i] \in Subscription
        BY <4>1
      <4>3. \A i \in 1..Len(subs) : subs[i].chan \in Channels
        BY <4>2 DEF Subscription
      <4> QED BY <4>1, <4>3
    <3>2. todo' \in Seq(Channels) /\ buf' \in Seq(Command)
      BY <2>3, <2>6, <3>1 DEF ApplyUnsubscribe
    <3> QED BY <1>1, <2>3, <3>2 DEF ApplyUnsubscribe, StateOK, client, wake, signal
  <2>4. CASE SkipCommand
    BY <1>1, <2>4 DEF SkipCommand, StateOK, client, wake, signal
  <2>5. CASE \E cmd \in Commands : ClientSends(cmd)
    BY <1>1, <2>5, CppSubscribeAssumption
       DEF ClientSends, StateOK, wake, signal, CppSubscribeAssumption
  <2> QED BY <2>1, <2>2, <2>3, <2>4, <2>5
<1> QED BY <1>2, <1>3, <1>4 DEF IInv

\* The loop goes on, waits and is woken.
LEMMA LoopIInv ==
    ASSUME IInv,
           \/ SubscribeDone("initial", "loop")
           \/ SubscribeDone("subscribe", "parse")
           \/ SubscribeDone("unsubscribe", "parse")
           \/ Loop \/ ParseFails \/ Wait \/ Resume
           \/ WriteCompletes \/ WriteFails
    PROVE  IInv'
<1>1. StateOK /\ WakeIInv
  BY DEF IInv
<1>2. FramesIInv'
  BY FramesUntouched
     DEF IInv, SubscribeDone, Loop, ParseFails, Wait, Resume, WriteCompletes,
         WriteFails
<1> USE DEF client, wake, signal, StateOK
<1>3. CASE SubscribeDone("initial", "loop") \/ SubscribeDone("subscribe", "parse")
           \/ SubscribeDone("unsubscribe", "parse")
  <2>1. StateOK'
    BY <1>1, <1>3 DEF SubscribeDone
  <2>2. WakeIInv'
    BY <1>1, <1>3 DEF SubscribeDone, WakeIInv, WatcherTold, SocketAndShutdownWatched
  <2> QED BY <1>2, <2>1, <2>2 DEF IInv
<1>4. CASE Loop \/ ParseFails
  <2>1. StateOK'
    BY <1>1, <1>4 DEF Loop, ParseFails
  <2>2. WakeIInv'
    BY <1>1, <1>4
       DEF Loop, ParseFails, WakeIInv, WatcherTold, SocketAndShutdownWatched
  <2> QED BY <1>2, <2>1, <2>2 DEF IInv
<1>5. CASE Wait
  <2>1. StateOK'
    BY <1>1, <1>5 DEF Wait
  <2>2. WakeIInv'
    BY <1>1, <1>5 DEF Wait, WakeIInv, WatcherTold, SocketAndShutdownWatched
  <2> QED BY <1>2, <2>1, <2>2 DEF IInv
<1>6. CASE Resume
  <2>1. StateOK'
    BY <1>1, <1>6 DEF Resume
  <2>2. WakeIInv'
    BY <1>1, <1>6 DEF Resume, WakeIInv, WatcherTold, SocketAndShutdownWatched
  <2> QED BY <1>2, <2>1, <2>2 DEF IInv
<1>7. CASE WriteCompletes \/ WriteFails
  <2>1. StateOK'
    <3>1. todo' \in Seq(Channels)
      <4>1. todo \in Seq(Channels) /\ <<>> \in Seq(Channels)
        BY <1>1
      <4>2. todo' = todo \/ todo' = <<>>
        BY <1>7 DEF WriteCompletes, WriteFails
      <4> QED BY <4>1, <4>2
    <3>2. pc' \in {"loop", "initial", "drain", "parse", "subscribe",
                  "unsubscribe", "done"}
      BY <1>1, <1>7 DEF WriteCompletes, WriteFails
    <3> QED BY <1>1, <1>7, <3>1, <3>2 DEF WriteCompletes, WriteFails
  <2>2. WakeIInv'
    BY <1>1, <1>7
       DEF WriteCompletes, WriteFails, WakeIInv, WatcherTold, SocketAndShutdownWatched
  <2> QED BY <1>2, <2>1, <2>2 DEF IInv
<1> QED BY <1>3, <1>4, <1>5, <1>6, <1>7

\* What runs while the loop is suspended.
LEMMA CallbacksIInv ==
    ASSUME IInv,
           \/ ReadReady \/ ReadCallback
           \/ Trigger \/ WatcherStarts \/ WatcherWakes
           \/ ClientCloses \/ UNCHANGED vars
    PROVE  IInv'
<1>1. StateOK /\ WakeIInv
  BY DEF IInv
<1>2. FramesIInv'
  BY FramesUntouched
     DEF IInv, ReadReady, ReadCallback, Trigger, WatcherStarts, WatcherWakes,
         ClientCloses, vars
<1> USE DEF Cancel, client, wake, signal, StateOK
<1>3. CASE ReadReady \/ ReadCallback
  <2>1. StateOK'
    BY <1>1, <1>3 DEF ReadReady, ReadCallback
  <2>2. WakeIInv'
    <3>1. CASE ReadReady
      BY <1>1, <3>1 DEF ReadReady, WakeIInv, WatcherTold, SocketAndShutdownWatched
    <3>2. CASE ReadCallback
      BY <1>1, <3>2, Zenon
         DEF ReadCallback, WakeIInv, WatcherTold, SocketAndShutdownWatched
    <3> QED BY <1>3, <3>1, <3>2
  <2> QED BY <1>2, <2>1, <2>2 DEF IInv
<1>4. CASE Trigger
  <2>1. StateOK'
    BY <1>1, <1>4 DEF Trigger
  <2>2. WakeIInv'
    BY <1>1, <1>4 DEF Trigger, WakeIInv, WatcherTold, SocketAndShutdownWatched
  <2> QED BY <1>2, <2>1, <2>2 DEF IInv
<1>5. CASE WatcherStarts \/ WatcherWakes
  <2>1. StateOK'
    BY <1>1, <1>5 DEF WatcherStarts, WatcherWakes
  <2>2. WakeIInv'
    <3>1. CASE WatcherStarts
      <4>1. CASE triggered
        BY <1>1, <3>1, <4>1, Zenon
           DEF WatcherStarts, WakeIInv, WatcherTold, SocketAndShutdownWatched
      <4>2. CASE ~triggered
        BY <1>1, <3>1, <4>2
           DEF WatcherStarts, WakeIInv, WatcherTold, SocketAndShutdownWatched
      <4> QED BY <4>1, <4>2
    <3>2. CASE WatcherWakes
      BY <1>1, <3>2, Zenon
         DEF WatcherWakes, WakeIInv, WatcherTold, SocketAndShutdownWatched
    <3> QED BY <1>5, <3>1, <3>2
  <2> QED BY <1>2, <2>1, <2>2 DEF IInv
<1>6. CASE ClientCloses \/ UNCHANGED vars
  <2>1. StateOK'
    BY <1>1, <1>6 DEF ClientCloses, vars
  <2>2. WakeIInv'
    BY <1>1, <1>6
       DEF ClientCloses, vars, WakeIInv, WatcherTold, SocketAndShutdownWatched
  <2> QED BY <1>2, <2>1, <2>2 DEF IInv
<1> QED BY <1>3, <1>4, <1>5, <1>6

\* The flags are truth values.
LEMMA FlagsStay == FlagsOK /\ [Next]_vars => FlagsOK'
<1> SUFFICES ASSUME FlagsOK, [Next]_vars PROVE FlagsOK'
  OBVIOUS
<1> USE DEF FlagsOK, client, wake, signal, Cancel
<1>1. CASE Server
  BY <1>1
     DEF Server, SubscribeNext, SubscribeDone, Loop, DrainNext, ReadAvailable,
         ApplySubscribe, ApplyUnsubscribe, UnsubscribeNext, RejectCommand,
         SkipCommand, ParseFails, Wait, Resume, WriteCompletes, WriteFails
<1>2. CASE \E ch \in Channels : Publish(ch)
  BY <1>2, Zenon DEF Publish
<1>3. CASE ReadReady \/ ReadCallback
  BY <1>3, Zenon DEF ReadReady, ReadCallback
<1>4. CASE Trigger \/ WatcherStarts \/ WatcherWakes
  BY <1>4, Zenon DEF Trigger, WatcherStarts, WatcherWakes
<1>5. CASE \E cmd \in Commands : ClientSends(cmd)
  BY <1>5, Zenon DEF ClientSends
<1>6. CASE ClientCloses \/ UNCHANGED vars
  BY <1>6, Zenon DEF ClientCloses, vars
<1> QED BY <1>1, <1>2, <1>3, <1>4, <1>5, <1>6 DEF Next

\* Each step keeps the invariant.
LEMMA NextIInv == IInv /\ [Next]_vars => IInv'
  BY SubscribeNextIInv, DrainNextIInv, UnsubscribeNextIInv, RejectCommandIInv,
     PublishIInv, CommandsIInv, LoopIInv, CallbacksIInv
     DEF Next, Server

-----------------------------------------------------------------------------
\* Every reachable state satisfies the inductive invariant.
THEOREM Invariance == Spec => []IInv
  BY InitIInv, NextIInv, PTL DEF Spec

\* Type correctness of the session.
THEOREM TypeCorrect == Spec => []TypeOK
<1>1. Init => FlagsOK
  BY DEF Init, FlagsOK
<1>2. FlagsOK /\ [Next]_vars => FlagsOK'
  BY FlagsStay
<1> QED BY <1>1, <1>2, Invariance, PTL DEF Spec, IInv, TypeOK

\* A client of the translated server reads no message outside a subscription
\* it was told of (command.cpp:340-395).
THEOREM NoStrayMessages == Spec => []MessagesWithinSubscriptions
  BY Invariance, PTL DEF IInv, FramesIInv

\* The loop never waits with nobody watching the socket or the shutdown
\* (command.cpp:313-326, 406-426).
THEOREM AlwaysWatched == Spec => []SocketAndShutdownWatched
  BY Invariance, PTL DEF IInv, WakeIInv
=============================================================================
