----------------------------- MODULE SfuRelayProofs -----------------------------
(* Theorems about SfuRelay, for any number of peers, texts and losses. *)
EXTENDS SfuRelay, SequenceTheorems, TLAPS

(* The managers' maps and queues start empty. *)
LEMMA InitIInv == Init => IInv
BY ConstantsAssumption
   DEF Init, IInv, TypeOK, ShownInOrder, TextsInOrder, Increasing, OwedIsKept

(* The texts of a queue have ranks. *)
LEMMA Ranked ==
  ASSUME NEW q \in Seq(Text)
  PROVE  \A i \in DOMAIN q : q[i] \in Text /\ q[i].rank \in Nat
<1>1. \A i \in DOMAIN q : q[i] \in Text
  OBVIOUS
<1> QED BY <1>1 DEF Text

(* What a text that is queued behind the others does to a queue. *)
LEMMA Queued ==
  ASSUME NEW q \in Seq(Text), NEW m \in Text, Increasing(q),
         \A i \in DOMAIN q : q[i].rank < m.rank
  PROVE  /\ Append(q, m) \in Seq(Text)
         /\ Increasing(Append(q, m))
         /\ \A i \in DOMAIN Append(q, m) :
              \/ Append(q, m)[i] = m
              \/ i \in DOMAIN q /\ Append(q, m)[i] = q[i]
<1>1. /\ Append(q, m) \in Seq(Text)
      /\ Len(Append(q, m)) = Len(q) + 1
      /\ Append(q, m)[Len(q) + 1] = m
      /\ \A i \in 1 .. Len(q) : Append(q, m)[i] = q[i]
  BY AppendProperties
<1>2. /\ DOMAIN q = 1 .. Len(q) /\ Len(q) \in Nat
      /\ DOMAIN Append(q, m) = 1 .. Len(q) + 1
  BY <1>1
<1>3. \A i \in DOMAIN Append(q, m) :
        \/ Append(q, m)[i] = m /\ i = Len(q) + 1
        \/ i \in DOMAIN q /\ Append(q, m)[i] = q[i]
  BY <1>1, <1>2
<1>4. Increasing(Append(q, m))
  BY <1>1, <1>2, <1>3 DEF Increasing
<1> QED BY <1>1, <1>3, <1>4

(* What was in it is where it was, and the new text is the last. *)
LEMMA AppendKeepsText ==
  ASSUME NEW q \in Seq(Text), NEW m \in Text
  PROVE  /\ \A i \in DOMAIN q : i \in DOMAIN Append(q, m) /\ Append(q, m)[i] = q[i]
         /\ Len(q) + 1 \in DOMAIN Append(q, m) /\ Append(q, m)[Len(q) + 1] = m
<1>1. /\ Append(q, m)[Len(q) + 1] = m /\ DOMAIN Append(q, m) = 1 .. Len(q) + 1
      /\ \A i \in 1 .. Len(q) : Append(q, m)[i] = q[i]
      /\ DOMAIN q = 1 .. Len(q) /\ Len(q) \in Nat
  BY AppendProperties, LenProperties
<1> QED BY <1>1

(* What taking the first text does to a queue. *)
LEMMA Taken ==
  ASSUME NEW q \in Seq(Text), q # <<>>, Increasing(q)
  PROVE  /\ Head(q) \in Text /\ Head(q) = q[1] /\ 1 \in DOMAIN q
         /\ Tail(q) \in Seq(Text) /\ Increasing(Tail(q))
         /\ \A i \in DOMAIN Tail(q) : /\ i + 1 \in DOMAIN q /\ Tail(q)[i] = q[i + 1]
                                     /\ q[1].rank < Tail(q)[i].rank
<1>1. /\ Head(q) \in Text /\ Head(q) = q[1] /\ Tail(q) \in Seq(Text)
      /\ Len(q) \in Nat \ {0} /\ Len(Tail(q)) = Len(q) - 1
      /\ \A i \in 1 .. Len(Tail(q)) : Tail(q)[i] = q[i + 1]
  BY HeadTailProperties
<1>2. /\ DOMAIN q = 1 .. Len(q) /\ DOMAIN Tail(q) = 1 .. Len(q) - 1
  BY <1>1
<1>3. \A i \in DOMAIN Tail(q) : /\ i + 1 \in DOMAIN q /\ 1 \in DOMAIN q /\ 1 < i + 1
                              /\ Tail(q)[i] = q[i + 1]
  BY <1>1, <1>2
<1>4. \A i, j \in DOMAIN Tail(q) : i < j => i + 1 < j + 1
  BY <1>2
<1>5. Increasing(Tail(q)) /\ \A i \in DOMAIN Tail(q) : q[1].rank < Tail(q)[i].rank
  BY <1>3, <1>4 DEF Increasing
<1> QED BY <1>1, <1>2, <1>3, <1>5

(* All others are still in it. *)
LEMMA TailKeepsText ==
  ASSUME NEW q \in Seq(Text), q # <<>>, NEW i \in 1 .. Len(q), i # 1
  PROVE  i - 1 \in DOMAIN Tail(q) /\ Tail(q)[i - 1] = q[i]
<1>1. /\ Tail(q) \in Seq(Text) /\ Len(q) \in Nat /\ Len(Tail(q)) = Len(q) - 1
      /\ \A j \in 1 .. Len(Tail(q)) : Tail(q)[j] = q[j + 1]
  BY HeadTailProperties, LenProperties
<1>2. DOMAIN Tail(q) = 1 .. Len(q) - 1
  BY <1>1, LenProperties
<1>3. i - 1 \in 1 .. Len(q) - 1 /\ (i - 1) + 1 = i
  BY <1>1
<1> QED BY <1>1, <1>2, <1>3

(* Steps that touch neither what is shown nor what waits keep the order. *)
LEMMA OrderKept ==
  ASSUME ShownInOrder, TextsInOrder, UNCHANGED <<texts, said, shown>>
  PROVE  ShownInOrder' /\ TextsInOrder'
BY DEF ShownInOrder, TextsInOrder, Increasing

(* So do they keep what is owed, unless they open or close a channel.       *)
LEMMA OwedKept ==
  ASSUME OwedIsKept, UNCHANGED <<texts, owed, shown, channel>>, listeners \subseteq listeners'
  PROVE  OwedIsKept'
BY DEF OwedIsKept, Waits, IsShown

(* A text gets the highest rank so far and goes behind what waits. *)
LEMMA SayKeeps ==
  ASSUME IInv, NEW p \in Peer, Say(p)
  PROVE  IInv'
<1> USE ConstantsAssumption
<1> DEFINE m == [from |-> p, rank |-> said + 1]
<1>a. /\ said \in Nat /\ said' = said + 1 /\ said < MaxSaid /\ MaxSaid \in Nat
      /\ texts \in [Peer -> Seq(Text)] /\ shown \in [Peer -> Seq(Text)]
      /\ shown' = shown
  BY DEF IInv, TypeOK, Say
<1>b. m \in Text /\ m.rank = said + 1
  BY <1>a DEF Text
<1>0. /\ said \in Nat /\ said' = said + 1 /\ said < MaxSaid /\ MaxSaid \in Nat
      /\ texts \in [Peer -> Seq(Text)] /\ shown \in [Peer -> Seq(Text)]
      /\ shown' = shown /\ m \in Text /\ m.rank = said + 1
  BY <1>a, <1>b
<1>1. ASSUME NEW q \in Peer
      PROVE  /\ texts'[q] \in Seq(Text) /\ Increasing(texts'[q])
             /\ \A i \in DOMAIN texts'[q] :
                  \/ texts'[q][i] = m
                  \/ i \in DOMAIN texts[q] /\ texts'[q][i] = texts[q][i]
  <2>1. /\ texts[q] \in Seq(Text) /\ Increasing(texts[q])
        /\ \A i \in DOMAIN texts[q] : texts[q][i].rank <= said /\ texts[q][i] \in Text
    BY <1>0 DEF IInv, TextsInOrder
  <2>2. \A i \in DOMAIN texts[q] : texts[q][i].rank < m.rank
    BY <1>0, <2>1 DEF Text
  <2>3. CASE q \in listeners
    <3>1. texts'[q] = Append(texts[q], m)
      BY <2>3 DEF Say
    <3> QED BY <1>0, <2>1, <2>2, <3>1, Queued
  <2>4. CASE q \notin listeners
    <3>1. texts'[q] = texts[q]
      BY <2>4 DEF Say
    <3> QED BY <2>1, <3>1
  <2> QED BY <2>3, <2>4
<1>2. owed' \subseteq Peer \X (1 .. MaxSaid)
  <2>1. owed \subseteq Peer \X (1 .. MaxSaid)
    BY DEF IInv, TypeOK
  <2>2. said + 1 \in 1 .. MaxSaid
    BY <1>0
  <2> QED BY <2>1, <2>2 DEF Say
<1>3. texts' \in [Peer -> Seq(Text)]
  <2>1. texts' = [q \in Peer |-> texts'[q]]
    BY DEF Say
  <2> QED BY <1>1, <2>1
<1>4. said' \in 0 .. MaxSaid
  BY <1>0
<1>5. TypeOK'
  BY <1>0, <1>2, <1>3, <1>4 DEF IInv, TypeOK, Say, rtcp
<1>6. ASSUME NEW q \in Peer
      PROVE  \A i \in DOMAIN shown[q] : shown[q][i].rank \in Nat /\ shown[q][i].rank <= said
  <2>1. shown[q] \in Seq(Text)
    BY <1>0
  <2> QED BY <2>1, Ranked DEF IInv, TextsInOrder
<1>7. ASSUME NEW q \in Peer, NEW j \in DOMAIN texts'[q]
      PROVE  /\ texts'[q][j].rank <= said + 1
             /\ \A i \in DOMAIN shown[q] : shown[q][i].rank < texts'[q][j].rank
  <2>1. CASE texts'[q][j] = m
    BY <1>0, <1>6, <2>1
  <2>2. CASE j \in DOMAIN texts[q] /\ texts'[q][j] = texts[q][j]
    <3>1. texts[q] \in Seq(Text)
      BY <1>0
    <3>2. texts[q][j].rank \in Nat
      BY <2>2, <3>1, Ranked
    <3> QED BY <1>0, <2>2, <3>2 DEF IInv, TextsInOrder
  <2> QED BY <1>1, <2>1, <2>2
<1>8. TextsInOrder'
  BY <1>0, <1>1, <1>6, <1>7 DEF TextsInOrder
<1>9. ShownInOrder'
  BY <1>0 DEF IInv, ShownInOrder
<1>10. ASSUME NEW q \in Peer, NEW k \in 1 .. MaxSaid, Waits(q, k) PROVE Waits(q, k)'
  <2>1. PICK i \in DOMAIN texts[q] : texts[q][i].rank = k /\ texts[q][i].from # q
    BY <1>10 DEF Waits
  <2>2. i \in DOMAIN texts'[q] /\ texts'[q][i] = texts[q][i]
    <3>1. texts[q] \in Seq(Text)
      BY <1>0
    <3>2. texts'[q] = Append(texts[q], m) \/ texts'[q] = texts[q]
      BY DEF Say
    <3>3. m \in Text
      BY <1>0
    <3> DEFINE t == texts[q]
    <3> HIDE DEF m, t
    <3>4. i \in DOMAIN t /\ t \in Seq(Text)
      BY <2>1, <3>1 DEF t
    <3>5. i \in DOMAIN Append(t, m) /\ Append(t, m)[i] = t[i]
      BY <3>3, <3>4, AppendKeepsText
    <3> QED BY <2>1, <3>2, <3>5 DEF t
  <2> QED BY <2>1, <2>2 DEF Waits
<1>11. ASSUME NEW q \in Peer \ {p}, NEW k \in 1 .. MaxSaid, k = said + 1, channel[q] = "open"
       PROVE  Waits(q, k)'
  <2>1. q \in listeners /\ texts[q] \in Seq(Text)
    BY <1>0, <1>11 DEF IInv, OwedIsKept
  <2>2. texts'[q] = Append(texts[q], m)
    BY <2>1 DEF Say
  <2>3. Len(texts[q]) + 1 \in DOMAIN texts'[q] /\ texts'[q][Len(texts[q]) + 1] = m
    <3>1. m \in Text
      BY <1>0
    <3> DEFINE t == texts[q]
    <3> HIDE DEF m, t
    <3>2. t \in Seq(Text)
      BY <2>1 DEF t
    <3>3. Len(t) + 1 \in DOMAIN Append(t, m) /\ Append(t, m)[Len(t) + 1] = m
      BY <3>1, <3>2, AppendKeepsText
    <3> QED BY <2>2, <3>3 DEF t
  <2>4. m.rank = k /\ m.from # q
    BY <1>11
  <2> HIDE DEF m
  <2>5. \E i \in DOMAIN texts'[q] : texts'[q][i] = m
    BY <2>3
  <2> QED BY <2>4, <2>5 DEF Waits
<1>12. OwedIsKept'
  <2>1. /\ UNCHANGED <<channel, listeners, shown>>
        /\ owed' = owed \cup {<<q, said + 1>> : q \in {r \in Peer \ {p} : channel[r] = "open"}}
    BY DEF Say
  <2>2. \A q \in Peer, k \in 1 .. MaxSaid : IsShown(q, k)' <=> IsShown(q, k)
    BY <2>1 DEF IsShown
  <2>3. ASSUME NEW q \in Peer, NEW k \in 1 .. MaxSaid, <<q, k>> \in owed'
        PROVE  \/ channel[q] = "closed"
               \/ channel[q] = "open" /\ (Waits(q, k)' \/ IsShown(q, k)')
    <3>1. CASE <<q, k>> \in owed
      BY <1>10, <2>2, <3>1 DEF IInv, OwedIsKept
    <3>2. CASE k = said + 1 /\ q # p /\ channel[q] = "open"
      BY <1>11, <3>2
    <3> QED BY <2>1, <2>3, <3>1, <3>2
  <2> QED BY <2>1, <2>3 DEF IInv, OwedIsKept
<1> QED BY <1>5, <1>8, <1>9, <1>12 DEF IInv

(* A text is shown after those before it, unless it is the peer's own. *)
LEMMA PassOnKeeps ==
  ASSUME IInv, NEW p \in Peer, PassOn(p)
  PROVE  IInv'
<1> DEFINE m == Head(texts[p])
<1>1. /\ texts \in [Peer -> Seq(Text)] /\ shown \in [Peer -> Seq(Text)]
      /\ texts[p] \in Seq(Text) /\ texts[p] # <<>> /\ Increasing(texts[p])
      /\ shown[p] \in Seq(Text) /\ Increasing(shown[p])
      /\ said \in Nat /\ said' = said
  BY DEF IInv, TypeOK, PassOn, TextsInOrder, ShownInOrder
<1>2. /\ m \in Text /\ m = texts[p][1] /\ 1 \in DOMAIN texts[p]
      /\ Tail(texts[p]) \in Seq(Text) /\ Increasing(Tail(texts[p]))
      /\ \A i \in DOMAIN Tail(texts[p]) :
           /\ i + 1 \in DOMAIN texts[p] /\ Tail(texts[p])[i] = texts[p][i + 1]
           /\ m.rank < Tail(texts[p])[i].rank
  BY <1>1, Taken
<1>3. /\ m.rank <= said /\ \A i \in DOMAIN shown[p] : shown[p][i].rank < m.rank
  BY <1>1, <1>2 DEF IInv, TextsInOrder
<1>4. texts'[p] = Tail(texts[p]) /\ \A q \in Peer \ {p} : texts'[q] = texts[q] /\ shown'[q] = shown[q]
  BY <1>1 DEF PassOn
<1>5. \/ shown'[p] = shown[p]
      \/ shown'[p] = Append(shown[p], m) /\ m.from # p
  BY <1>1 DEF PassOn
<1>6. /\ shown'[p] \in Seq(Text) /\ Increasing(shown'[p])
      /\ \A i \in DOMAIN shown'[p] :
           \/ shown'[p][i] = m /\ m.from # p
           \/ i \in DOMAIN shown[p] /\ shown'[p][i] = shown[p][i]
  <2>1. CASE shown'[p] = shown[p]
    BY <1>1, <2>1
  <2>2. CASE shown'[p] = Append(shown[p], m) /\ m.from # p
    BY <1>1, <1>2, <1>3, <2>2, Queued
  <2> QED BY <1>5, <2>1, <2>2
<1>7. TypeOK'
  <2>1. texts' \in [Peer -> Seq(Text)]
    BY <1>1, <1>2 DEF PassOn
  <2>2. shown' = [shown EXCEPT ![p] = shown'[p]]
    BY <1>1 DEF PassOn
  <2>3. shown' \in [Peer -> Seq(Text)]
    BY <1>1, <1>6, <2>2
  <2> QED BY <2>1, <2>3 DEF IInv, TypeOK, PassOn, rtcp
<1>8. ShownInOrder'
  BY <1>4, <1>6 DEF IInv, ShownInOrder
<1>9. ASSUME NEW j \in DOMAIN texts'[p]
      PROVE  /\ texts'[p][j].rank <= said
             /\ \A i \in DOMAIN shown'[p] : shown'[p][i].rank < texts'[p][j].rank
  <2>1. j + 1 \in DOMAIN texts[p] /\ texts'[p][j] = texts[p][j + 1] /\ m.rank < texts'[p][j].rank
    BY <1>2, <1>4
  <2> QED BY <1>6, <2>1 DEF IInv, TextsInOrder
<1>10. \A i \in DOMAIN shown'[p] : shown'[p][i].rank <= said
  BY <1>3, <1>6 DEF IInv, TextsInOrder
<1>11. TextsInOrder'
  BY <1>1, <1>2, <1>4, <1>9, <1>10 DEF IInv, TextsInOrder
<1>12. OwedIsKept'
  <2>1. UNCHANGED <<channel, owed, listeners>>
    BY DEF PassOn
  <2>2. ASSUME NEW q \in Peer, NEW k \in 1 .. MaxSaid, channel[q] = "open",
               Waits(q, k) \/ IsShown(q, k)
        PROVE  Waits(q, k)' \/ IsShown(q, k)'
    <3>1. CASE q # p
      BY <1>4, <2>2, <3>1 DEF Waits, IsShown
    <3>2. CASE q = p /\ IsShown(p, k)
      <4>1. PICK i \in DOMAIN shown[p] : shown[p][i].rank = k
        BY <3>2 DEF IsShown
      <4>2. i \in DOMAIN shown'[p] /\ shown'[p][i] = shown[p][i]
        BY <1>1, <1>2, <1>5, <4>1, AppendKeepsText
      <4> QED BY <3>2, <4>1, <4>2 DEF IsShown
    <3>3. CASE q = p /\ Waits(p, k)
      <4>1. PICK i \in DOMAIN texts[p] : texts[p][i].rank = k /\ texts[p][i].from # p
        BY <3>3 DEF Waits
      <4>2. i \in 1 .. Len(texts[p]) /\ Len(texts[p]) \in Nat
        BY <1>1, <4>1
      <4>3. CASE i = 1
        <5>1. shown'[p] = Append(shown[p], m)
          BY <1>1, <1>2, <2>2, <3>3, <4>1, <4>3 DEF PassOn
        <5>2. \E l \in DOMAIN shown'[p] : shown'[p][l] = m
          <6> DEFINE s == shown[p]
          <6>1. m \in Text /\ s \in Seq(Text) /\ shown'[p] = Append(s, m)
            BY <1>1, <1>2, <5>1
          <6> HIDE DEF m, s
          <6>2. Len(s) + 1 \in DOMAIN Append(s, m) /\ Append(s, m)[Len(s) + 1] = m
            BY <6>1, AppendKeepsText
          <6> QED BY <6>1, <6>2
        <5> QED BY <1>2, <3>3, <4>1, <4>3, <5>2 DEF IsShown
      <4>4. CASE i # 1
        <5>1. i - 1 \in DOMAIN Tail(texts[p]) /\ Tail(texts[p])[i - 1] = texts[p][i]
          BY <1>1, <4>2, <4>4, TailKeepsText
        <5> QED BY <1>4, <3>3, <4>1, <5>1 DEF Waits
      <4> QED BY <4>3, <4>4
    <3> QED BY <2>2, <3>1, <3>2, <3>3
  <2> QED BY <2>1, <2>2 DEF IInv, OwedIsKept
<1> QED BY <1>7, <1>8, <1>11, <1>12 DEF IInv

(* Every step keeps the inductive invariant. *)
LEMMA NextIInv == IInv /\ [Next]_vars => IInv'
<1> SUFFICES ASSUME IInv, [Next]_vars PROVE IInv'
  OBVIOUS
<1> USE ConstantsAssumption DEF IInv, data, rtcp
<1>1. ASSUME NEW p \in Peer, AddPeer(p) PROVE IInv'
  BY <1>1, OrderKept, OwedKept DEF AddPeer, TypeOK
<1>2. ASSUME NEW p \in Peer, RemovePeer(p) PROVE IInv'
  BY <1>2, OrderKept, OwedKept DEF RemovePeer, TypeOK
<1>3. ASSUME NEW p \in Peer, Open(p) PROVE IInv'
  <2>1. OwedIsKept'
    <3>1. /\ UNCHANGED <<listeners, texts, owed, shown>> /\ p \in listeners
          /\ \A q \in Peer \ {p} : channel'[q] = channel[q]
          /\ channel[p] = "new" /\ channel'[p] = "open"
      BY <1>3 DEF Open, TypeOK, OwedIsKept
    <3>2. \A q \in Peer, k \in 1 .. MaxSaid :
            (Waits(q, k)' <=> Waits(q, k)) /\ (IsShown(q, k)' <=> IsShown(q, k))
      BY <3>1 DEF Waits, IsShown
    <3> QED BY <3>1, <3>2 DEF OwedIsKept
  <2> QED BY <1>3, <2>1, OrderKept DEF Open, TypeOK
<1>4. ASSUME NEW p \in Peer, Close(p) PROVE IInv'
  <2>1. OwedIsKept'
    <3>1. /\ UNCHANGED <<listeners, texts, owed, shown>> /\ p \in listeners
          /\ \A q \in Peer \ {p} : channel'[q] = channel[q]
          /\ channel'[p] = "closed"
      BY <1>4 DEF Close, TypeOK, OwedIsKept
    <3>2. \A q \in Peer, k \in 1 .. MaxSaid :
            (Waits(q, k)' <=> Waits(q, k)) /\ (IsShown(q, k)' <=> IsShown(q, k))
      BY <3>1 DEF Waits, IsShown
    <3> QED BY <3>1, <3>2 DEF OwedIsKept
  <2> QED BY <1>4, <2>1, OrderKept DEF Close, TypeOK
<1>5. ASSUME NEW p \in Peer, VideoTrack(p) PROVE IInv'
  BY <1>5, OrderKept, OwedKept DEF VideoTrack, TypeOK
<1>6. ASSUME NEW p \in Peer, ObserveSsrc(p) PROVE IInv'
  BY <1>6, OrderKept, OwedKept DEF ObserveSsrc, TypeOK
<1>7. ASSUME NEW p \in Peer, Loss(p) PROVE IInv'
  <2>1. plis' \in [Peer -> Nat] /\ lost' \in Nat
    <3>1. plis \in [Peer -> Nat] /\ lost \in Nat
      BY DEF TypeOK
    <3>2. CASE p \in publishers
      <4>1. plis' = [plis EXCEPT ![p] = @ + 1] /\ lost' = lost
        BY <1>7, <3>2 DEF Loss
      <4>2. plis[p] + 1 \in Nat
        BY <3>1
      <4> QED BY <3>1, <4>1, <4>2
    <3>3. CASE p \notin publishers
      <4>1. plis' = plis /\ lost' = lost + 1
        BY <1>7, <3>3 DEF Loss
      <4> QED BY <3>1, <4>1
    <3> QED BY <3>2, <3>3
  <2>2. losses' \in 0 .. MaxLosses
    BY <1>7 DEF Loss, TypeOK
  <2> QED BY <1>7, <2>1, <2>2, OrderKept, OwedKept DEF Loss, TypeOK
<1>8. ASSUME NEW p \in Peer, Forward(p) PROVE IInv'
  BY <1>8, OrderKept, OwedKept DEF Forward, TypeOK
<1>9. CASE UNCHANGED vars
  BY <1>9, OrderKept, OwedKept DEF vars, TypeOK
<1> QED BY <1>1, <1>2, <1>3, <1>4, <1>5, <1>6, <1>7, <1>8, <1>9, SayKeeps, PassOnKeeps
        DEF Next, ManagerStep, DataStep, RtcpStep

(* The inductive invariant of the relay. *)
THEOREM Invariance == Spec => []IInv
BY InitIInv, NextIInv, PTL DEF Spec

(* Every peer is shown texts in the order in which they came in, none twice *)
(* and none of its own.                                                     *)
THEOREM Ordered == Spec => []ShownInOrder
BY Invariance, PTL DEF IInv

(* No text that is owed to a peer is lost on the way to its data channel,   *)
(* also when its connection was Disconnected: it waits or has been shown.   *)
THEOREM NothingOwedIsLost == Spec => []OwedIsKept
BY Invariance, PTL DEF IInv
================================================================================
