------------------------------- MODULE SfuProofs -------------------------------
(***************************************************************************)
(* Proofs about Sfu: types, and that it implements Forwarding, for any      *)
(* number of peers, kinds of tracks and lost connections.                   *)
(***************************************************************************)
EXTENDS Sfu, SequenceTheorems, TLAPS

Inboxes == inbox \in [Peer -> Seq({"Prepare", "Answer", "Start"})]

(* A queue that loses its head has a Start less only if that was one. *)
LEMMA TailStarts ==
  ASSUME NEW s \in Peer, Inboxes, inbox[s] # <<>>, inbox'[s] = Tail(inbox[s])
  PROVE  /\ Starts(s)' => Starts(s)
         /\ Head(inbox[s]) = "Start" => Starts(s)
         /\ Head(inbox[s]) # "Start" => (Starts(s)' <=> Starts(s))
<1> DEFINE q == inbox[s]
<1>1. q \in Seq({"Prepare", "Answer", "Start"}) /\ q # <<>>
  BY DEF Inboxes
<1> HIDE DEF q
<1>2. /\ Len(q) \in Nat \ {0} /\ DOMAIN q = 1 .. Len(q)
      /\ Head(q) = q[1]
      /\ Len(Tail(q)) = Len(q) - 1 /\ DOMAIN Tail(q) = 1 .. Len(q) - 1
      /\ \A i \in 1 .. Len(q) - 1 : Tail(q)[i] = q[i + 1]
  BY <1>1, HeadTailProperties, LenProperties
<1>3. (\E i \in DOMAIN Tail(q) : Tail(q)[i] = "Start")
        => (\E i \in DOMAIN q : q[i] = "Start")
  <2> SUFFICES ASSUME NEW i \in DOMAIN Tail(q), Tail(q)[i] = "Start"
               PROVE  \E j \in DOMAIN q : q[j] = "Start"
    OBVIOUS
  <2>1. i + 1 \in DOMAIN q /\ q[i + 1] = "Start"
    BY <1>2
  <2> QED BY <2>1
<1>4. Head(q) # "Start" /\ (\E i \in DOMAIN q : q[i] = "Start")
        => (\E i \in DOMAIN Tail(q) : Tail(q)[i] = "Start")
  <2> SUFFICES ASSUME Head(q) # "Start", NEW i \in DOMAIN q, q[i] = "Start"
               PROVE  \E j \in DOMAIN Tail(q) : Tail(q)[j] = "Start"
    OBVIOUS
  <2>1. i # 1
    BY <1>2
  <2>2. i - 1 \in 1 .. Len(q) - 1 /\ (i - 1) + 1 = i
    BY <1>2, <2>1
  <2>3. i - 1 \in DOMAIN Tail(q) /\ Tail(q)[i - 1] = "Start"
    BY <1>2, <2>2
  <2> QED BY <2>3
<1>5. Head(q) = "Start" => \E i \in DOMAIN q : q[i] = "Start"
  <2>1. 1 \in DOMAIN q
    BY <1>2
  <2> QED BY <1>2, <2>1
<1>6. /\ Starts(s) <=> \E i \in DOMAIN q : q[i] = "Start"
      /\ Starts(s)' <=> \E i \in DOMAIN Tail(q) : Tail(q)[i] = "Start"
      /\ inbox[s] = q
  BY DEF Starts, q
<1> QED BY <1>3, <1>4, <1>5, <1>6

(* A message that is queued adds a Start only if it is one. *)
LEMMA AppendStarts ==
  ASSUME NEW s \in Peer, Inboxes, NEW msg \in {"Prepare", "Answer", "Start"},
         inbox'[s] = Append(inbox[s], msg)
  PROVE  Starts(s)' <=> Starts(s) \/ msg = "Start"
<1> DEFINE q == inbox[s]
<1>1. q \in Seq({"Prepare", "Answer", "Start"})
  BY DEF Inboxes
<1> HIDE DEF q
<1>2. /\ Len(q) \in Nat /\ DOMAIN q = 1 .. Len(q)
      /\ Len(Append(q, msg)) = Len(q) + 1
      /\ DOMAIN Append(q, msg) = 1 .. Len(q) + 1
      /\ \A i \in 1 .. Len(q) : Append(q, msg)[i] = q[i]
      /\ Append(q, msg)[Len(q) + 1] = msg
  BY <1>1, AppendProperties, LenProperties
<1>3. (\E i \in DOMAIN Append(q, msg) : Append(q, msg)[i] = "Start")
        <=> (\E i \in DOMAIN q : q[i] = "Start") \/ msg = "Start"
  <2>1. ASSUME NEW i \in DOMAIN Append(q, msg), Append(q, msg)[i] = "Start", msg # "Start"
        PROVE  i \in DOMAIN q /\ q[i] = "Start"
    <3>1. i \in 1 .. Len(q)
      BY <1>2, <2>1
    <3> QED BY <1>2, <2>1, <3>1
  <2>2. ASSUME NEW i \in DOMAIN q, q[i] = "Start"
        PROVE  i \in DOMAIN Append(q, msg) /\ Append(q, msg)[i] = "Start"
    BY <1>2, <2>2
  <2>3. msg = "Start" => Len(q) + 1 \in DOMAIN Append(q, msg)
    BY <1>2
  <2> QED BY <1>2, <2>1, <2>2, <2>3
<1>4. /\ Starts(s) <=> \E i \in DOMAIN q : q[i] = "Start"
      /\ Starts(s)' <=> \E i \in DOMAIN Append(q, msg) : Append(q, msg)[i] = "Start"
  BY DEF Starts, q
<1> QED BY <1>3, <1>4

(* send_to_subscribers makes a Start due to exactly those it is sent to. *)
LEMMA AnnounceStarts ==
  ASSUME Inboxes, NEW subs \in SUBSET Peer, Announce(subs), session' = session
  PROVE  \A s \in Peer : Due(s)' <=> Due(s) \/ s \in subs
<1> SUFFICES ASSUME NEW s \in Peer PROVE Due(s)' <=> Due(s) \/ s \in subs
  OBVIOUS
<1>1. CASE s \in subs /\ session[s] # "failed"
  <2>1. inbox'[s] = Append(inbox[s], "Start")
    BY <1>1 DEF Announce
  <2> QED BY <1>1, <2>1, AppendStarts DEF Due
<1>2. CASE s \notin subs \/ session[s] = "failed"
  <2>1. inbox'[s] = inbox[s]
    BY <1>2 DEF Announce
  <2>2. Starts(s)' <=> Starts(s)
    BY <2>1 DEF Starts
  <2> QED BY <1>2, <2>2 DEF Due
<1> QED BY <1>1, <1>2

(* Taking a message takes an Answer from those that are queued only if it   *)
(* is one.                                                                  *)
LEMMA TailAnswers ==
  ASSUME NEW s \in Peer, Inboxes, inbox[s] # <<>>, inbox'[s] = Tail(inbox[s]),
         \A i, j \in Answers(s) : i = j
  PROVE  /\ \A i, j \in Answers(s)' : i = j
         /\ Head(inbox[s]) = "Answer" => Answers(s) # {} /\ Answers(s)' = {}
         /\ Head(inbox[s]) # "Answer" => (Answers(s)' # {} <=> Answers(s) # {})
<1> DEFINE q == inbox[s]
<1>1. q \in Seq({"Prepare", "Answer", "Start"}) /\ q # <<>>
  BY DEF Inboxes
<1>2. /\ Answers(s) = {i \in DOMAIN q : q[i] = "Answer"}
      /\ Answers(s)' = {i \in DOMAIN Tail(q) : Tail(q)[i] = "Answer"}
  BY DEF Answers
<1> HIDE DEF q
<1>3. /\ Len(q) \in Nat \ {0} /\ DOMAIN q = 1 .. Len(q)
      /\ Head(q) = q[1]
      /\ Len(Tail(q)) = Len(q) - 1 /\ DOMAIN Tail(q) = 1 .. Len(q) - 1
      /\ \A i \in 1 .. Len(q) - 1 : Tail(q)[i] = q[i + 1]
  BY <1>1, HeadTailProperties, LenProperties
<1>4. \A i \in Answers(s)' : i + 1 \in Answers(s) /\ i \in Nat \ {0}
  BY <1>2, <1>3
<1>5. \A i \in Answers(s) : i # 1 => i - 1 \in Answers(s)'
  <2> SUFFICES ASSUME NEW i \in Answers(s), i # 1 PROVE i - 1 \in Answers(s)'
    OBVIOUS
  <2>1. i - 1 \in 1 .. Len(q) - 1 /\ (i - 1) + 1 = i /\ q[i] = "Answer"
    BY <1>2, <1>3
  <2> QED BY <1>2, <1>3, <2>1
<1>6. Head(q) = "Answer" <=> 1 \in Answers(s)
  BY <1>2, <1>3
<1>7. \A i, j \in Answers(s)' : i = j
  <2> SUFFICES ASSUME NEW i \in Answers(s)', NEW j \in Answers(s)' PROVE i = j
    OBVIOUS
  <2>1. i + 1 = j + 1 /\ i \in Nat /\ j \in Nat
    BY <1>4
  <2> QED BY <2>1
<1>8. 1 \in Answers(s) => Answers(s)' = {}
  <2> SUFFICES ASSUME 1 \in Answers(s), NEW i \in Answers(s)' PROVE FALSE
    OBVIOUS
  <2>1. i + 1 = 1 /\ i \in Nat \ {0}
    BY <1>4
  <2> QED BY <2>1
<1> QED BY <1>4, <1>5, <1>6, <1>7, <1>8 DEF q

(* Queueing a message adds one only if it is one. *)
LEMMA AppendAnswers ==
  ASSUME NEW s \in Peer, Inboxes, NEW msg \in {"Prepare", "Answer", "Start"},
         inbox'[s] = Append(inbox[s], msg)
  PROVE  /\ msg # "Answer" => Answers(s)' = Answers(s)
         /\ msg = "Answer" /\ Answers(s) = {} =>
              Answers(s)' # {} /\ \A i, j \in Answers(s)' : i = j
<1> DEFINE q == inbox[s]
<1>1. q \in Seq({"Prepare", "Answer", "Start"})
  BY DEF Inboxes
<1>2. /\ Answers(s) = {i \in DOMAIN q : q[i] = "Answer"}
      /\ Answers(s)' = {i \in DOMAIN Append(q, msg) : Append(q, msg)[i] = "Answer"}
  BY DEF Answers
<1> HIDE DEF q
<1>3. /\ Len(q) \in Nat /\ DOMAIN q = 1 .. Len(q)
      /\ DOMAIN Append(q, msg) = 1 .. Len(q) + 1
      /\ \A i \in 1 .. Len(q) : Append(q, msg)[i] = q[i]
      /\ Append(q, msg)[Len(q) + 1] = msg
  BY <1>1, AppendProperties, LenProperties
<1>4. \A i \in 1 .. Len(q) + 1 : i \in 1 .. Len(q) \/ i = Len(q) + 1
  BY <1>3
<1>5. \A i : i \in Answers(s)' <=> i \in Answers(s) \/ (i = Len(q) + 1 /\ msg = "Answer")
  <2>1. ASSUME NEW i \in Answers(s)'
        PROVE  i \in Answers(s) \/ (i = Len(q) + 1 /\ msg = "Answer")
    BY <1>2, <1>3, <1>4
  <2>2. ASSUME NEW i \in Answers(s) PROVE i \in Answers(s)'
    BY <1>2, <1>3
  <2>3. msg = "Answer" => Len(q) + 1 \in Answers(s)'
    BY <1>2, <1>3
  <2> QED BY <2>1, <2>2, <2>3
<1>6. msg # "Answer" => Answers(s)' = Answers(s)
  <2> DEFINE A == Answers(s)
             B == Answers(s)'
  <2>1. msg # "Answer" => \A i : i \in B <=> i \in A
    BY <1>5
  <2> HIDE DEF A, B
  <2>2. msg # "Answer" => B = A
    BY <2>1
  <2> QED BY <2>2 DEF A, B
<1>7. msg = "Answer" => Len(q) + 1 \in Answers(s)'
  BY <1>5
<1>8. msg = "Answer" /\ Answers(s) = {} => \A i, j \in Answers(s)' : i = j
  BY <1>5
<1> QED BY <1>6, <1>7, <1>8

(* send_to_subscribers queues no Answer. *)
LEMMA AnnounceAnswers ==
  ASSUME Inboxes, NEW subs, Announce(subs)
  PROVE  \A s \in Peer : Answers(s)' = Answers(s)
<1> SUFFICES ASSUME NEW s \in Peer PROVE Answers(s)' = Answers(s)
  OBVIOUS
<1>1. inbox'[s] = Append(inbox[s], "Start") \/ inbox'[s] = inbox[s]
  BY DEF Announce
<1> QED BY <1>1, AppendAnswers DEF Answers

--------------------------------------------------------------------------------
(* Nothing is connected, queued or published at the start. *)
LEMMA InitIInv == Init => IInv
<1> SUFFICES ASSUME Init PROVE IInv
  OBVIOUS
<1>1. TypeOK
  BY ConstantsAssumption DEF Init, TypeOK, NoOffer
<1>2. ConnectedAreRunning
  BY DEF Init, ConnectedAreRunning
<1>3. OfferInv
  BY DEF Init, OfferInv, AnswersMatch, Answers, OnlyRunningNegotiate, FiredIsOffered, NoOffer
<1> QED BY <1>1, <1>2, <1>3 DEF IInv

(* What send_to_subscribers does keeps the types. *)
LEMMA AnnounceTypes ==
  ASSUME TypeOK, NEW subs \in SUBSET Peer, Announce(subs)
  PROVE  /\ inbox' \in [Peer -> Seq({"Prepare", "Answer", "Start"})]
         /\ told' \subseteq Peer
<1>1. \A q \in Seq({"Prepare", "Answer", "Start"}) :
        Append(q, "Start") \in Seq({"Prepare", "Answer", "Start"})
  OBVIOUS
<1> QED BY <1>1 DEF TypeOK, Announce

(* So does taking a message. *)
LEMMA MessageTypes ==
  ASSUME TypeOK, NEW p \in Peer, NEW msg, Message(p, msg)
  PROVE  inbox' \in [Peer -> Seq({"Prepare", "Answer", "Start"})]
<1>1. \A q \in Seq({"Prepare", "Answer", "Start"}) :
        q # <<>> => Tail(q) \in Seq({"Prepare", "Answer", "Start"})
  BY HeadTailProperties
<1> QED BY <1>1 DEF TypeOK, Message

(* So do creating an offer and setting it. *)
LEMMA OfferTypes ==
  ASSUME TypeOK, NEW p \in Peer, NEW who \in {"main", "task"}
  PROVE  /\ CreateOffer(p, who) =>
              fresh' \in [Peer -> [by : {"nobody", "main", "task"}, tracks : SUBSET Track]]
         /\ ApplyOffer(p, who) =>
              /\ fresh' \in [Peer -> [by : {"nobody", "main", "task"}, tracks : SUBSET Track]]
              /\ signaling' \in [Peer -> {"stable", "offered", "answered"}]
              /\ offered' \in [Peer -> SUBSET Track]
<1>1. CreateOffer(p, who) =>
        fresh' \in [Peer -> [by : {"nobody", "main", "task"}, tracks : SUBSET Track]]
  BY DEF TypeOK, CreateOffer
<1>2. ASSUME ApplyOffer(p, who)
      PROVE  /\ fresh' \in [Peer -> [by : {"nobody", "main", "task"}, tracks : SUBSET Track]]
             /\ signaling' \in [Peer -> {"stable", "offered", "answered"}]
             /\ offered' \in [Peer -> SUBSET Track]
  <2>1. fresh' \in [Peer -> [by : {"nobody", "main", "task"}, tracks : SUBSET Track]]
    BY <1>2 DEF TypeOK, ApplyOffer, NoOffer
  <2>2. fresh[p].tracks \in SUBSET Track
    BY DEF TypeOK
  <2>3. /\ signaling' \in [Peer -> {"stable", "offered", "answered"}]
        /\ offered' \in [Peer -> SUBSET Track]
    BY <1>2, <2>2 DEF TypeOK, ApplyOffer
  <2> QED BY <2>1, <2>3
<1> QED BY <1>1, <1>2

(* Every step keeps the types. *)
LEMMA NextTypeOK == TypeOK /\ [Next]_vars => TypeOK'
<1> SUFFICES ASSUME TypeOK, [Next]_vars PROVE TypeOK'
  OBVIOUS
<1> USE ConstantsAssumption DEF manager, loop, offers, world
<1>1. ASSUME NEW p \in Peer, AddPeer(p) \/ SetUp(p) PROVE TypeOK'
  BY <1>1 DEF TypeOK, AddPeer, SetUp
<1>2. ASSUME NEW p \in Peer, SetUpFails(p) PROVE TypeOK'
  <2>1. <<>> \in Seq({"Prepare", "Answer", "Start"})
    OBVIOUS
  <2> QED BY <1>2, <2>1 DEF TypeOK, SetUpFails
<1>3. ASSUME NEW p \in Publisher, NEW k \in Kind, Collect(p, k) PROVE TypeOK'
  <2>1. /\ media' \in [Publisher -> [Kind -> {"none", "arriving", "collected"}]]
        /\ tracks' \in [Publisher -> SUBSET Kind]
    BY <1>3 DEF TypeOK, Collect
  <2>2. /\ announced' \subseteq Peer
        /\ inbox' \in [Peer -> Seq({"Prepare", "Answer", "Start"})]
        /\ told' \subseteq Peer
    <3>1. CASE Announce(subscribers)
      BY <1>3, <3>1, AnnounceTypes DEF TypeOK, Collect
    <3>2. CASE UNCHANGED <<announced, inbox, told>>
      BY <3>2 DEF TypeOK
    <3> QED BY <1>3, <3>1, <3>2 DEF Collect
  <2> QED BY <1>3, <2>1, <2>2 DEF TypeOK, Collect
<1>4. ASSUME NEW p \in Peer, HandlePrepare(p) \/ HandleAnswer(p) \/ StartSnapshot(p)
      PROVE  TypeOK'
  <2>1. inbox' \in [Peer -> Seq({"Prepare", "Answer", "Start"})]
    BY <1>4, MessageTypes DEF HandlePrepare, HandleAnswer, StartSnapshot
  <2>2. CASE HandlePrepare(p)
    BY <2>1, <2>2 DEF TypeOK, HandlePrepare
  <2>3. CASE HandleAnswer(p)
    BY <2>1, <2>3 DEF TypeOK, HandleAnswer
  <2>4. CASE StartSnapshot(p)
    <3>1. PublisherTracks(p) \subseteq Track
      BY DEF PublisherTracks
    <3> QED BY <2>1, <2>4, <3>1 DEF TypeOK, StartSnapshot
  <2> QED BY <1>4, <2>2, <2>3, <2>4
<1>5. ASSUME NEW p \in Peer, NEW t \in Track, StartRemove(p, t) PROVE TypeOK'
  BY <1>5 DEF TypeOK, StartRemove
<1>6. ASSUME NEW p \in Peer, NEW t \in Track, StartAdd(p, t) PROVE TypeOK'
  BY <1>6 DEF TypeOK, StartAdd
<1>7. ASSUME NEW p \in Peer, StartRemoved(p) \/ StartAdded(p) PROVE TypeOK'
  BY <1>7 DEF TypeOK, StartRemoved, StartAdded
<1>8. ASSUME NEW p \in Peer, MainCreate(p) \/ MainApply(p) PROVE TypeOK'
  BY <1>8, OfferTypes DEF TypeOK, MainCreate, MainApply
<1>9. ASSUME NEW p \in Peer, TaskCreate(p) \/ TaskApply(p) PROVE TypeOK'
  <2>1. CASE TaskCreate(p)
    <3>1. asked' \in [Peer -> Nat]
      BY <2>1 DEF TypeOK, TaskCreate
    <3> QED BY <2>1, <3>1, OfferTypes DEF TypeOK, TaskCreate
  <2>2. CASE TaskApply(p)
    BY <2>2, OfferTypes DEF TypeOK, TaskApply
  <2> QED BY <1>9, <2>1, <2>2
<1>10. ASSUME NEW p \in Peer, NegotiationNeeded(p) PROVE TypeOK'
  <2>1. asked' \in [Peer -> Nat]
    BY <1>10 DEF TypeOK, NegotiationNeeded
  <2> QED BY <1>10, <2>1 DEF TypeOK, NegotiationNeeded
<1>11. ASSUME NEW p \in Publisher, NEW k \in Kind, OnTrack(p, k) PROVE TypeOK'
  BY <1>11 DEF TypeOK, OnTrack
<1>12. ASSUME NEW p \in Peer, LinkUp(p) PROVE TypeOK'
  BY <1>12 DEF TypeOK, LinkUp
<1>13. ASSUME NEW p \in Peer, LinkDown(p) PROVE TypeOK'
  <2>1. drops' \in 0 .. MaxDrops
    BY <1>13 DEF TypeOK, LinkDown
  <2>2. /\ inbox' \in [Peer -> Seq({"Prepare", "Answer", "Start"})]
        /\ told' \subseteq Peer
    BY <1>13, AnnounceTypes DEF TypeOK, LinkDown
  <2> QED BY <1>13, <2>1, <2>2 DEF TypeOK, LinkDown
<1>14. ASSUME NEW p \in Peer, ClientPrepare(p) \/ ClientAnswer(p) PROVE TypeOK'
  <2>1. \A q \in Seq({"Prepare", "Answer", "Start"}), msg \in {"Prepare", "Answer", "Start"} :
          Append(q, msg) \in Seq({"Prepare", "Answer", "Start"})
    OBVIOUS
  <2>2. \E msg \in {"Prepare", "Answer", "Start"} :
          inbox' = [inbox EXCEPT ![p] = Append(@, msg)]
    BY <1>14 DEF ClientPrepare, ClientAnswer
  <2>3. inbox' \in [Peer -> Seq({"Prepare", "Answer", "Start"})]
    BY <2>1, <2>2 DEF TypeOK
  <2> QED BY <1>14, <2>3 DEF TypeOK, ClientPrepare, ClientAnswer
<1>15. ASSUME NEW p \in Peer, ClientGone(p) PROVE TypeOK'
  BY <1>15 DEF TypeOK, ClientGone
<1>16. CASE UNCHANGED vars
  BY <1>16 DEF TypeOK, vars
<1> QED BY <1>1, <1>2, <1>3, <1>4, <1>5, <1>6, <1>7, <1>8, <1>9, <1>10, <1>11, <1>12,
           <1>13, <1>14, <1>15, <1>16
        DEF Next, ServerStep, CollectorStep, MainStep, ConnectionStep, ClientStep

(* A track or a link is only ever had by a session whose loop runs, and no  *)
(* running session stops being one.                                         *)
LEMMA NextConnectedAreRunning == IInv /\ [Next]_vars => ConnectedAreRunning'
<1> SUFFICES ASSUME IInv, [Next]_vars PROVE ConnectedAreRunning'
  OBVIOUS
<1> USE ConstantsAssumption DEF manager, loop, offers, world, ConnectedAreRunning, IInv
<1>1. ASSUME UNCHANGED <<media, link>>,
             \A p \in Peer : session[p] \in {"running", "prepared"}
                               => session'[p] \in {"running", "prepared"}
      PROVE  ConnectedAreRunning'
  BY <1>1
<1>2. ASSUME NEW p \in Peer,
             \/ AddPeer(p) \/ SetUp(p) \/ SetUpFails(p) \/ ClientPrepare(p)
      PROVE  ConnectedAreRunning'
  <2>1. UNCHANGED <<media, link>>
    BY <1>2 DEF AddPeer, SetUp, SetUpFails, ClientPrepare
  <2>2. \A q \in Peer : session[q] \in {"running", "prepared"}
                          => session'[q] \in {"running", "prepared"}
    BY <1>2 DEF TypeOK, AddPeer, SetUp, SetUpFails, ClientPrepare
  <2> QED BY <2>1, <2>2, <1>1
<1>3. ASSUME NEW p \in Publisher, NEW k \in Kind, Collect(p, k)
      PROVE  ConnectedAreRunning'
  BY <1>3 DEF TypeOK, Collect
<1>4. ASSUME NEW p \in Peer, HandleAnswer(p) PROVE ConnectedAreRunning'
  BY <1>4 DEF TypeOK, HandleAnswer, Message
<1>5. ASSUME NEW p \in Peer,
             \/ HandlePrepare(p) \/ StartSnapshot(p) \/ StartRemoved(p) \/ StartAdded(p)
             \/ \E t \in Track : StartRemove(p, t) \/ StartAdd(p, t)
             \/ MainCreate(p) \/ MainApply(p) \/ TaskCreate(p) \/ TaskApply(p)
             \/ NegotiationNeeded(p) \/ ClientAnswer(p) \/ ClientGone(p)
      PROVE  ConnectedAreRunning'
  <2>1. UNCHANGED <<media, link, session>>
    BY <1>5 DEF HandlePrepare, StartSnapshot, StartRemove, StartRemoved, StartAdded, StartAdd, MainCreate,
        MainApply, TaskCreate, TaskApply, NegotiationNeeded, ClientAnswer, ClientGone
  <2> QED BY <2>1, <1>1
<1>6. ASSUME NEW p \in Publisher, NEW k \in Kind, OnTrack(p, k) PROVE ConnectedAreRunning'
  BY <1>6 DEF TypeOK, OnTrack
<1>7. ASSUME NEW p \in Peer, LinkUp(p) \/ LinkDown(p) PROVE ConnectedAreRunning'
  BY <1>7 DEF TypeOK, LinkUp, LinkDown
<1>8. CASE UNCHANGED vars
  BY <1>8, <1>1 DEF vars
<1> QED BY <1>2, <1>3, <1>4, <1>5, <1>6, <1>7, <1>8
        DEF Next, ServerStep, CollectorStep, MainStep, ConnectionStep, ClientStep

(* Steps that have nothing to do with offers. *)
LEMMA OffersUntouched ==
  ASSUME IInv, UNCHANGED <<step, senders, signaling, agreed, fresh, fired, asked>>,
         \A p \in Peer : Answers(p)' = Answers(p),
         \A p \in Peer : session[p] \in {"running", "prepared"}
                           => session'[p] \in {"running", "prepared"}
  PROVE  OfferInv'
<1>1. \A p \in Peer : OfferToCome(p)' <=> OfferToCome(p)
  BY DEF OfferToCome
<1>2. AnswersMatch'
  BY DEF IInv, OfferInv, AnswersMatch
<1>3. OnlyRunningNegotiate'
  BY DEF IInv, OfferInv, OnlyRunningNegotiate
<1>4. FiredIsOffered'
  BY <1>1 DEF IInv, OfferInv, FiredIsOffered
<1> QED BY <1>2, <1>3, <1>4 DEF OfferInv

(* Steps of one running peer: what has to be seen to is that peer. *)
LEMMA OffersOfOne ==
  ASSUME IInv, NEW p \in Peer, session[p] \in {"running", "prepared"}, session' = session,
         \A q \in Peer \ {p} :
           /\ step'[q] = step[q] /\ senders'[q] = senders[q] /\ signaling'[q] = signaling[q]
           /\ agreed'[q] = agreed[q] /\ fresh'[q] = fresh[q] /\ fired'[q] = fired[q]
           /\ asked'[q] = asked[q] /\ inbox'[q] = inbox[q],
         Answers(p)' # {} <=> signaling'[p] = "answered",
         \A i, j \in Answers(p)' : i = j,
         fired'[p] /\ signaling'[p] = "stable" => OfferToCome(p)',
         fresh'[p].by = "main" => step'[p] = "apply"
  PROVE  OfferInv'
<1>1. \A q \in Peer \ {p} : Answers(q)' = Answers(q) /\ (OfferToCome(q)' <=> OfferToCome(q))
  BY DEF Answers, OfferToCome
<1>2. AnswersMatch'
  <2>1. \A q \in Peer \ {p} : Answers(q)' = Answers(q) /\ signaling'[q] = signaling[q]
    BY <1>1
  <2> QED BY <2>1 DEF IInv, OfferInv, AnswersMatch
<1>3. OnlyRunningNegotiate'
  BY DEF IInv, OfferInv, OnlyRunningNegotiate
<1>4. FiredIsOffered'
  <2>1. \A q \in Peer \ {p} : /\ OfferToCome(q)' <=> OfferToCome(q)
                              /\ fired'[q] = fired[q] /\ signaling'[q] = signaling[q]
                              /\ fresh'[q] = fresh[q] /\ step'[q] = step[q]
    BY <1>1
  <2> QED BY <2>1 DEF IInv, OfferInv, FiredIsOffered
<1> QED BY <1>2, <1>3, <1>4 DEF OfferInv

(* Answers answer offers, and an offer replaces another only to come in its *)
(* place.                                                                   *)
LEMMA NextOfferInv == IInv /\ [Next]_vars => OfferInv'
<1> SUFFICES ASSUME IInv, [Next]_vars PROVE OfferInv'
  OBVIOUS
<1>0. /\ TypeOK /\ Inboxes /\ AnswersMatch /\ OnlyRunningNegotiate /\ FiredIsOffered
      /\ Publisher \subseteq Peer
  BY ConstantsAssumption DEF IInv, OfferInv, TypeOK, Inboxes
<1> USE DEF offers, loop, manager, world
<1>1. ASSUME NEW p \in Peer, AddPeer(p) \/ SetUp(p) \/ ClientGone(p) PROVE OfferInv'
  <2>1. UNCHANGED <<inbox, step, senders, signaling, agreed, fresh, fired, asked>>
    BY <1>1 DEF AddPeer, SetUp, ClientGone
  <2>2. \A q \in Peer : session[q] \in {"running", "prepared"}
                          => session'[q] \in {"running", "prepared"}
    BY <1>0, <1>1 DEF TypeOK, AddPeer, SetUp, ClientGone
  <2> QED BY <2>1, <2>2, OffersUntouched DEF Answers
<1>2. ASSUME NEW p \in Peer, SetUpFails(p) PROVE OfferInv'
  <2>1. UNCHANGED <<step, senders, signaling, agreed, fresh, fired, asked>>
    BY <1>2 DEF SetUpFails
  <2>2. \A q \in Peer : session[q] \in {"running", "prepared"}
                          => session'[q] \in {"running", "prepared"}
    BY <1>0, <1>2 DEF TypeOK, SetUpFails
  <2>3. Answers(p) = {}
    BY <1>0, <1>2 DEF SetUpFails, OnlyRunningNegotiate, AnswersMatch
  <2>4. Answers(p)' = {}
    BY <1>0, <1>2 DEF SetUpFails, Answers, Inboxes
  <2>5. \A q \in Peer \ {p} : Answers(q)' = Answers(q)
    BY <1>0, <1>2 DEF SetUpFails, Answers, Inboxes
  <2> QED BY <2>1, <2>2, <2>3, <2>4, <2>5, OffersUntouched
<1>3. ASSUME NEW p \in Publisher, NEW k \in Kind, Collect(p, k) PROVE OfferInv'
  <2>1. UNCHANGED <<session, step, senders, signaling, agreed, fresh, fired, asked>>
    BY <1>3 DEF Collect
  <2>2. Announce(subscribers) \/ inbox' = inbox
    BY <1>3 DEF Collect
  <2>3. \A q \in Peer : Answers(q)' = Answers(q)
    BY <1>0, <2>2, AnnounceAnswers DEF Answers
  <2> QED BY <2>1, <2>3, OffersUntouched
<1>4. ASSUME NEW p \in Peer, LinkDown(p) \/ LinkUp(p) PROVE OfferInv'
  <2>1. UNCHANGED <<session, step, senders, signaling, agreed, fresh, fired, asked>>
    BY <1>4 DEF LinkDown, LinkUp
  <2>2. Announce(subscribers') \/ inbox' = inbox
    BY <1>4 DEF LinkDown, LinkUp
  <2>3. \A q \in Peer : Answers(q)' = Answers(q)
    <3> DEFINE subs == subscribers'
    <3>1. Announce(subs) \/ inbox' = inbox
      BY <2>2
    <3> HIDE DEF subs
    <3> QED BY <1>0, <3>1, AnnounceAnswers DEF Answers
  <2> QED BY <2>1, <2>3, OffersUntouched
<1>5. ASSUME NEW p \in Publisher, NEW k \in Kind, OnTrack(p, k) PROVE OfferInv'
  BY <1>5, OffersUntouched DEF OnTrack, Answers
<1>6. ASSUME NEW p \in Peer, ClientPrepare(p) PROVE OfferInv'
  <2>1. UNCHANGED <<step, senders, signaling, agreed, fresh, fired, asked>>
    BY <1>6 DEF ClientPrepare
  <2>2. \A q \in Peer : session[q] \in {"running", "prepared"}
                          => session'[q] \in {"running", "prepared"}
    BY <1>0, <1>6 DEF TypeOK, ClientPrepare
  <2>3. \A q \in Peer : inbox'[q] = inbox[q] \/ inbox'[q] = Append(inbox[q], "Prepare")
    BY <1>0, <1>6 DEF ClientPrepare, Inboxes
  <2>4. \A q \in Peer : Answers(q)' = Answers(q)
    BY <1>0, <2>3, AppendAnswers DEF Answers
  <2> QED BY <2>1, <2>2, <2>4, OffersUntouched
<1>7. ASSUME NEW p \in Peer, NEW msg, Message(p, msg),
             UNCHANGED <<session, senders, signaling, fresh, asked>>,
             msg # "Answer", agreed' = agreed, fired' = fired,
             \E st \in {"idle", "remove", "add", "create", "apply"} :
               step' = [step EXCEPT ![p] = st]
      PROVE  OfferInv'
  <2>1. /\ session[p] \in {"running", "prepared"} /\ step[p] = "idle"
        /\ inbox[p] # <<>> /\ Head(inbox[p]) # "Answer" /\ inbox'[p] = Tail(inbox[p])
        /\ \A q \in Peer \ {p} : inbox'[q] = inbox[q] /\ step'[q] = step[q]
    BY <1>0, <1>7 DEF Message, Inboxes, TypeOK
  <2>2. \A i, j \in Answers(p) : i = j
    BY <1>0 DEF AnswersMatch
  <2>3. /\ \A i, j \in Answers(p)' : i = j
        /\ Answers(p)' # {} <=> signaling'[p] = "answered"
    BY <1>0, <1>7, <2>1, <2>2, TailAnswers DEF AnswersMatch
  <2>4. fresh[p].by # "main"
    BY <1>0, <2>1 DEF FiredIsOffered
  <2>5. fired'[p] /\ signaling'[p] = "stable" => OfferToCome(p)'
    BY <1>0, <1>7, <2>4 DEF FiredIsOffered, OfferToCome
  <2> QED BY <1>7, <2>1, <2>3, <2>4, <2>5, OffersOfOne
<1>8. ASSUME NEW p \in Peer, HandlePrepare(p) PROVE OfferInv'
  BY <1>7, <1>8 DEF HandlePrepare
<1>9. ASSUME NEW p \in Peer, StartSnapshot(p) PROVE OfferInv'
  BY <1>7, <1>9 DEF StartSnapshot
<1>10. ASSUME NEW p \in Peer, HandleAnswer(p) PROVE OfferInv'
  <2>1. /\ session[p] \in {"running", "prepared"} /\ session' = session
        /\ inbox[p] # <<>> /\ Head(inbox[p]) = "Answer" /\ inbox'[p] = Tail(inbox[p])
        /\ step' = step /\ senders' = senders /\ fresh' = fresh /\ asked' = asked
        /\ signaling'[p] = "stable" /\ ~fired'[p]
    BY <1>0, <1>10 DEF HandleAnswer, Message, Inboxes, TypeOK
  <2>2. \A q \in Peer \ {p} : /\ inbox'[q] = inbox[q] /\ signaling'[q] = signaling[q]
                              /\ agreed'[q] = agreed[q] /\ fired'[q] = fired[q]
    BY <1>0, <1>10 DEF HandleAnswer, Message, Inboxes, TypeOK
  <2>3. \A i, j \in Answers(p) : i = j
    BY <1>0 DEF AnswersMatch
  <2>4. Answers(p)' = {}
    BY <1>0, <2>1, <2>3, TailAnswers
  <2>5. fresh'[p].by = "main" => step'[p] = "apply"
    BY <1>0, <2>1 DEF FiredIsOffered
  <2> QED BY <2>1, <2>2, <2>4, <2>5, OffersOfOne
<1>11. ASSUME NEW p \in Peer, ClientAnswer(p) PROVE OfferInv'
  <2>1. /\ signaling[p] = "offered" /\ inbox'[p] = Append(inbox[p], "Answer")
        /\ UNCHANGED <<session, step, senders, agreed, fresh, fired, asked>>
        /\ signaling'[p] = "answered"
    BY <1>0, <1>11 DEF ClientAnswer, Inboxes, TypeOK
  <2>2. \A q \in Peer \ {p} : inbox'[q] = inbox[q] /\ signaling'[q] = signaling[q]
    BY <1>0, <1>11 DEF ClientAnswer, Inboxes, TypeOK
  <2>3. session[p] \in {"running", "prepared"} /\ Answers(p) = {}
    BY <1>0, <2>1 DEF OnlyRunningNegotiate, AnswersMatch
  <2>4. Answers(p)' # {} /\ \A i, j \in Answers(p)' : i = j
    BY <1>0, <2>1, <2>3, AppendAnswers
  <2>5. fresh'[p].by = "main" => step'[p] = "apply"
    BY <1>0, <2>1 DEF FiredIsOffered
  <2> QED BY <2>1, <2>2, <2>3, <2>4, <2>5, OffersOfOne
<1>12. ASSUME NEW p \in Peer, session[p] \in {"running", "prepared"},
              UNCHANGED <<session, inbox, agreed>>,
              \A q \in Peer \ {p} :
                /\ step'[q] = step[q] /\ senders'[q] = senders[q]
                /\ signaling'[q] = signaling[q] /\ fresh'[q] = fresh[q]
                /\ fired'[q] = fired[q] /\ asked'[q] = asked[q],
              signaling'[p] = "answered" <=> signaling[p] = "answered",
              fired'[p] /\ signaling'[p] = "stable" => OfferToCome(p)',
              fresh'[p].by = "main" => step'[p] = "apply"
       PROVE  OfferInv'
  <2>1. Answers(p)' = Answers(p)
    BY <1>12 DEF Answers
  <2>2. /\ Answers(p)' # {} <=> signaling'[p] = "answered"
        /\ \A i, j \in Answers(p)' : i = j
    BY <1>0, <1>12, <2>1 DEF AnswersMatch
  <2> QED BY <1>12, <2>2, OffersOfOne
<1>13. ASSUME NEW p \in Peer,
              \/ StartRemoved(p) \/ StartAdded(p)
              \/ \E t \in Track : StartRemove(p, t) \/ StartAdd(p, t)
       PROVE  OfferInv'
  <2>1. /\ UNCHANGED <<session, inbox, agreed, signaling, fresh, fired, asked>>
        /\ step[p] \in {"remove", "add"}
        /\ \A q \in Peer \ {p} : step'[q] = step[q] /\ senders'[q] = senders[q]
    BY <1>0, <1>13 DEF StartRemove, StartRemoved, StartAdded, StartAdd, TypeOK
  <2>2. session[p] \in {"running", "prepared"} /\ fresh[p].by # "main"
    BY <1>0, <2>1 DEF OnlyRunningNegotiate, FiredIsOffered
  <2>3. fired'[p] /\ signaling'[p] = "stable" => OfferToCome(p)'
    BY <1>0, <2>1, <2>2 DEF FiredIsOffered, OfferToCome
  <2> QED BY <1>12, <2>1, <2>2, <2>3
<1>14. ASSUME NEW p \in Peer, MainCreate(p) PROVE OfferInv'
  <2>1. /\ UNCHANGED <<session, inbox, agreed, senders, signaling, fired, asked>>
        /\ step[p] = "create" /\ step'[p] = "apply" /\ fresh'[p].by = "main"
        /\ \A q \in Peer \ {p} : step'[q] = step[q] /\ fresh'[q] = fresh[q]
    BY <1>0, <1>14 DEF MainCreate, CreateOffer, TypeOK
  <2>2. session[p] \in {"running", "prepared"}
    BY <1>0, <2>1 DEF OnlyRunningNegotiate
  <2> QED BY <1>12, <2>1, <2>2 DEF OfferToCome
<1>15. ASSUME NEW p \in Peer, TaskCreate(p) PROVE OfferInv'
  <2>1. /\ UNCHANGED <<session, inbox, agreed, step, senders, signaling, fired>>
        /\ asked[p] > 0 /\ fresh'[p].by = "task"
        /\ \A q \in Peer \ {p} : fresh'[q] = fresh[q] /\ asked'[q] = asked[q]
    BY <1>0, <1>15 DEF TaskCreate, CreateOffer, TypeOK
  <2>2. session[p] \in {"running", "prepared"}
    BY <1>0, <2>1 DEF OnlyRunningNegotiate
  <2> QED BY <1>12, <2>1, <2>2 DEF OfferToCome
<1>16. ASSUME NEW p \in Peer, NEW who \in {"main", "task"}, ApplyOffer(p, who)
       PROVE  /\ \A q \in Peer \ {p} : fresh'[q] = fresh[q] /\ signaling'[q] = signaling[q]
              /\ fresh'[p] = IF fresh[p].by = who THEN NoOffer ELSE fresh[p]
              /\ signaling'[p] = IF fresh[p].by = who /\ signaling[p] = "stable"
                                 THEN "offered" ELSE signaling[p]
  BY <1>0, <1>16 DEF ApplyOffer, TypeOK
<1>17. ASSUME NEW p \in Peer, MainApply(p) PROVE OfferInv'
  <2>1. /\ UNCHANGED <<session, inbox, agreed, senders, fired, asked>>
        /\ step[p] = "apply" /\ ApplyOffer(p, "main")
        /\ \A q \in Peer \ {p} : step'[q] = step[q]
    BY <1>0, <1>17 DEF MainApply, TypeOK
  <2>2. session[p] \in {"running", "prepared"}
    BY <1>0, <2>1 DEF OnlyRunningNegotiate
  <2>3. fresh'[p].by # "main" /\ (signaling'[p] = "answered" <=> signaling[p] = "answered")
    BY <1>16, <2>1 DEF NoOffer
  <2>4. fired'[p] /\ signaling'[p] = "stable" => OfferToCome(p)'
    BY <1>0, <1>16, <2>1 DEF FiredIsOffered, OfferToCome
  <2>5. \A q \in Peer \ {p} : fresh'[q] = fresh[q] /\ signaling'[q] = signaling[q]
    BY <1>16, <2>1
  <2> QED BY <1>12, <2>1, <2>2, <2>3, <2>4, <2>5
<1>18. ASSUME NEW p \in Peer, TaskApply(p) PROVE OfferInv'
  <2>1. /\ UNCHANGED <<session, inbox, agreed, step, senders, fired, asked>>
        /\ fresh[p].by = "task" /\ ApplyOffer(p, "task")
    BY <1>18 DEF TaskApply
  <2>2. session[p] \in {"running", "prepared"}
    BY <1>0, <2>1 DEF OnlyRunningNegotiate
  <2>3. /\ fresh'[p].by # "main" /\ signaling'[p] # "stable"
        /\ signaling'[p] = "answered" <=> signaling[p] = "answered"
    BY <1>0, <1>16, <2>1 DEF NoOffer, TypeOK
  <2>4. \A q \in Peer \ {p} : fresh'[q] = fresh[q] /\ signaling'[q] = signaling[q]
    BY <1>16, <2>1
  <2> QED BY <1>12, <2>1, <2>2, <2>3, <2>4
<1>19. ASSUME NEW p \in Peer, NegotiationNeeded(p) PROVE OfferInv'
  <2>1. /\ UNCHANGED <<session, inbox, agreed, step, senders, signaling, fresh>>
        /\ session[p] \in {"running", "prepared"} /\ asked'[p] > 0
        /\ \A q \in Peer \ {p} : fired'[q] = fired[q] /\ asked'[q] = asked[q]
    BY <1>0, <1>19 DEF NegotiationNeeded, TypeOK
  <2>2. fresh'[p].by = "main" => step'[p] = "apply"
    BY <1>0, <2>1 DEF FiredIsOffered
  <2> QED BY <1>12, <2>1, <2>2 DEF OfferToCome
<1>20. CASE UNCHANGED vars
  BY <1>20, OffersUntouched DEF vars, Answers
<1> QED BY <1>0, <1>1, <1>2, <1>3, <1>4, <1>5, <1>6, <1>8, <1>9, <1>10, <1>11, <1>13, <1>14,
           <1>15, <1>17, <1>18, <1>19, <1>20
        DEF Next, ServerStep, CollectorStep, MainStep, ConnectionStep, ClientStep

(* The inductive invariant of the unit. *)
THEOREM Invariance == Spec => []IInv
<1>1. IInv /\ [Next]_vars => IInv'
  BY NextTypeOK, NextConnectedAreRunning, NextOfferInv DEF IInv
<1> QED BY InitIInv, <1>1, PTL DEF Spec

(* Although offers refuse each other, no connection whose senders are not   *)
(* those agreed on comes to rest: something is always still to be done.     *)
THEOREM NeverAtRest == Spec => []DisagreementIsPending
<1>1. IInv => DisagreementIsPending
  <2> SUFFICES ASSUME IInv, NEW p \in Peer, senders[p] # agreed[p],
                      signaling[p] # "offered", Answers(p) = {}
               PROVE  \/ session[p] \in {"running", "prepared"} /\ ~fired[p]
                                                      /\ signaling[p] = "stable"
                      \/ OfferToCome(p)
    BY DEF DisagreementIsPending
  <2>1. signaling[p] = "stable"
    BY DEF IInv, TypeOK, OfferInv, AnswersMatch
  <2>2. session[p] \in {"running", "prepared"}
    BY DEF IInv, OfferInv, OnlyRunningNegotiate
  <2>3. fired[p] => OfferToCome(p)
    BY <2>1 DEF IInv, OfferInv, FiredIsOffered
  <2> QED BY <2>1, <2>2, <2>3
<1> QED BY <1>1, Invariance, PTL

--------------------------------------------------------------------------------
(* A step of the unit is a step of Forwarding or leaves its state alone.    *)
LEMMA StaysPut ==
  ASSUME UNCHANGED <<subscribers, tracks, snapshot, senders, told, Came>>,
         \A s \in Peer : (Due(s)' <=> Due(s)) /\ Handling(s)' = Handling(s)
  PROVE  UNCHANGED Promise!vars
<1>1. [s \in Peer |-> Due(s)]' = [s \in Peer |-> Due(s)]
  <2>1. \A s \in Peer : Due(s) \in BOOLEAN /\ Due(s)' \in BOOLEAN
    BY DEF Due, Starts
  <2> QED BY <2>1
<1>2. [s \in Peer |-> Handling(s)]' = [s \in Peer |-> Handling(s)]
  OBVIOUS
<1> QED BY <1>1, <1>2 DEF Promise!vars, Promise!handling

(* Where messages other than Starts are queued or taken, nothing is due     *)
(* that was not.                                                            *)
LEMMA OtherMessages ==
  ASSUME TypeOK, NEW p \in Peer,
         \/ ClientPrepare(p) \/ ClientAnswer(p) \/ HandlePrepare(p) \/ HandleAnswer(p)
  PROVE  \A s \in Peer : Due(s)' <=> Due(s)
<1> SUFFICES ASSUME NEW s \in Peer PROVE Due(s)' <=> Due(s)
  OBVIOUS
<1>1. session'[s] = "failed" <=> session[s] = "failed"
  BY DEF TypeOK, ClientPrepare, ClientAnswer, HandlePrepare, HandleAnswer
<1>2. CASE s # p
  <2>1. inbox'[s] = inbox[s]
    BY <1>2 DEF TypeOK, ClientPrepare, ClientAnswer, HandlePrepare, HandleAnswer, Message
  <2> QED BY <1>1, <2>1 DEF Due, Starts
<1>3. CASE s = p /\ (ClientPrepare(p) \/ ClientAnswer(p))
  <2>1. PICK msg \in {"Prepare", "Answer"} : inbox'[s] = Append(inbox[s], msg)
    BY <1>3 DEF TypeOK, ClientPrepare, ClientAnswer
  <2>2. Starts(s)' <=> Starts(s) \/ msg = "Start"
    BY <2>1, AppendStarts DEF TypeOK, Inboxes
  <2> QED BY <1>1, <2>1, <2>2 DEF Due
<1>4. CASE s = p /\ (HandlePrepare(p) \/ HandleAnswer(p))
  <2>1. inbox[s] # <<>> /\ inbox'[s] = Tail(inbox[s]) /\ Head(inbox[s]) # "Start"
    BY <1>4 DEF TypeOK, HandlePrepare, HandleAnswer, Message
  <2>2. Starts(s)' <=> Starts(s)
    BY <2>1, TailStarts DEF TypeOK, Inboxes
  <2> QED BY <1>1, <2>2 DEF Due
<1> QED BY <1>2, <1>3, <1>4

(* Every step of the unit keeps what Forwarding promises. *)
LEMMA NextImplements == IInv /\ [Next]_vars => [Promise!Next]_(Promise!vars)
<1> SUFFICES ASSUME IInv, [Next]_vars PROVE [Promise!Next]_(Promise!vars)
  OBVIOUS
<1> DEFINE due == [s \in Peer |-> Due(s)]
           steps == [s \in Peer |-> Handling(s)]
<1> USE ConstantsAssumption DEF manager, loop, offers, world, IInv
<1>a. \A s \in Peer : Due(s) \in BOOLEAN /\ Due(s)' \in BOOLEAN
  BY DEF Due, Starts
<1>1. ASSUME NEW p \in Peer, AddPeer(p) PROVE Promise!Join(p)
  <2>1. /\ p \notin Came /\ Came' = Came \cup {p}
    BY <1>1 DEF TypeOK, AddPeer, Came
  <2>2. \A s \in Peer : (Due(s)' <=> Due(s)) /\ Handling(s)' = Handling(s)
    BY <1>1 DEF TypeOK, AddPeer, Due, Starts, Handling
  <2>3. due' = due /\ steps' = steps
    BY <2>2, <1>a
  <2> QED BY <1>1, <2>1, <2>3 DEF AddPeer, Promise!Join, Promise!handling
<1>2. ASSUME NEW p \in Peer, SetUpFails(p) PROVE Promise!Nudge(p)
  <2>1. p \in Came /\ Came' = Came
    BY <1>2 DEF TypeOK, SetUpFails, Came
  <2>2. \A s \in Peer : /\ Due(s)' <=> Due(s) \/ s = p
                        /\ Handling(s)' = Handling(s)
    BY <1>2 DEF TypeOK, SetUpFails, Due, Starts, Handling
  <2>3. due' = [due EXCEPT ![p] = TRUE] /\ steps' = steps
    BY <2>2, <1>a
  <2> QED BY <1>2, <2>1, <2>3 DEF SetUpFails, Promise!Nudge, Promise!handling
<1>3. ASSUME NEW p \in Publisher, NEW k \in Kind, Collect(p, k)
      PROVE  Promise!Publish(p, k)
  <2>1. p \in Came /\ Came' = Came
    BY <1>3 DEF Collect, ConnectedAreRunning, Came
  <2>2. steps' = steps
    BY <1>3 DEF Collect, Handling
  <2>3. CASE HasBoth(tracks'[p])
    <3>1. Announce(subscribers)
      BY <1>3, <2>3 DEF Collect
    <3>2. \A s \in Peer : Due(s)' <=> Due(s) \/ s \in subscribers
      BY <1>3, <3>1, AnnounceStarts DEF TypeOK, Inboxes, Collect
    <3>3. due' = [s \in Peer |-> due[s] \/ s \in subscribers]
      BY <3>2, <1>a
    <3> QED BY <1>3, <2>1, <2>2, <2>3, <3>1, <3>3
            DEF Collect, Announce, HasBoth, Promise!Publish, Promise!HasBoth,
                Promise!Announce, Promise!handling
  <2>4. CASE ~HasBoth(tracks'[p])
    <3>1. \A s \in Peer : Due(s)' <=> Due(s)
      BY <1>3, <2>4 DEF Collect, Due, Starts
    <3>2. due' = due
      BY <3>1, <1>a
    <3> QED BY <1>3, <2>1, <2>2, <2>4, <3>2
            DEF Collect, HasBoth, Promise!Publish, Promise!HasBoth, Promise!handling
  <2> QED BY <2>3, <2>4
<1>4. ASSUME NEW p \in Peer, LinkDown(p) PROVE Promise!Leave(p)
  <2>1. p \in Came /\ Came' = Came
    BY <1>4 DEF LinkDown, ConnectedAreRunning, Came
  <2>2. \A s \in Peer : Due(s)' <=> Due(s) \/ s \in subscribers'
    BY <1>4, AnnounceStarts DEF TypeOK, Inboxes, LinkDown
  <2>3. due' = [s \in Peer |-> due[s] \/ s \in subscribers'] /\ steps' = steps
    BY <1>4, <2>2, <1>a DEF LinkDown, Handling
  <2> QED BY <1>4, <2>1, <2>3
          DEF LinkDown, Announce, Promise!Leave, Promise!Announce, Promise!handling
<1>5. ASSUME NEW p \in Peer, StartSnapshot(p) PROVE Promise!Snapshot(p)
  <2>1. /\ inbox[p] # <<>> /\ Head(inbox[p]) = "Start"
        /\ inbox' = [inbox EXCEPT ![p] = Tail(@)]
        /\ step[p] = "idle" /\ session' = session
    BY <1>5 DEF StartSnapshot, Message
  <2>2. inbox'[p] = Tail(inbox[p]) /\ Inboxes
    BY <2>1 DEF TypeOK, Inboxes
  <2>3. Due(p)
    BY <2>1, <2>2, TailStarts DEF Due
  <2>4. \A s \in Peer \ {p} : Due(s)' <=> Due(s)
    BY <2>1 DEF Due, Starts, TypeOK
  <2>5. due' = [due EXCEPT ![p] = Due(p)'] /\ Due(p)' \in BOOLEAN /\ due[p]
    BY <2>3, <2>4, <1>a
  <2>6. /\ steps[p] = "idle"
        /\ steps' = [steps EXCEPT ![p] = "remove"]
    BY <1>5, <2>1 DEF TypeOK, StartSnapshot, Handling
  <2>7. Came' = Came
    BY <2>1 DEF Came
  <2> QED BY <1>5, <2>5, <2>6, <2>7
          DEF StartSnapshot, PublisherTracks, Track, Promise!Snapshot,
              Promise!PublisherTracks, Promise!Track
<1>6. ASSUME NEW p \in Peer,
             \/ StartRemoved(p) \/ StartAdded(p)
             \/ \E t \in Track : StartRemove(p, t) \/ StartAdd(p, t)
      PROVE  Promise!Handle(p)
  <2>1. UNCHANGED <<inbox, session, manager, told>>
    BY <1>6 DEF StartRemove, StartRemoved, StartAdded, StartAdd
  <2>2. due' = due /\ Came' = Came
    BY <2>1 DEF Due, Starts, Came
  <2>3. CASE StartRemoved(p)
    <3>1. steps[p] = "remove"
      BY <2>3 DEF StartRemoved, Handling
    <3>2. steps' = [steps EXCEPT ![p] = IF snapshot[p] = {} THEN "idle" ELSE "add"]
      BY <2>3 DEF TypeOK, StartRemoved, Handling
    <3>3. Promise!Removed(p)
      BY <2>1, <2>2, <2>3, <3>1, <3>2 DEF StartRemoved, Promise!Removed
    <3> QED BY <3>3 DEF Promise!Handle
  <2>4. CASE StartAdded(p)
    <3>1. steps[p] = "add" /\ steps' = [steps EXCEPT ![p] = "idle"]
      BY <2>4 DEF TypeOK, StartAdded, Handling
    <3>2. Promise!Added(p)
      BY <2>1, <2>2, <2>4, <3>1 DEF StartAdded, Promise!Added
    <3> QED BY <3>2 DEF Promise!Handle
  <2>5. ASSUME NEW t \in Track, StartAdd(p, t) PROVE Promise!Handle(p)
    <3>1. steps[p] = "add" /\ steps' = steps
      BY <2>5 DEF TypeOK, StartAdd, Handling
    <3>2. Promise!Add(p, t)
      BY <2>1, <2>2, <2>5, <3>1 DEF StartAdd, Promise!Add
    <3> QED BY <3>2 DEF Promise!Handle, Promise!Track, Track
  <2>6. ASSUME NEW t \in Track, StartRemove(p, t) PROVE Promise!Handle(p)
    <3>1. steps[p] = "remove" /\ steps' = steps
      BY <2>6 DEF TypeOK, StartRemove, Handling
    <3>2. Promise!Remove(p, t)
      BY <2>1, <2>2, <2>6, <3>1 DEF StartRemove, Promise!Remove
    <3> QED BY <3>2 DEF Promise!Handle, Promise!Track, Track
  <2> QED BY <1>6, <2>3, <2>4, <2>5, <2>6
<1>7. ASSUME NEW p \in Peer,
             \/ ClientPrepare(p) \/ ClientAnswer(p) \/ HandlePrepare(p) \/ HandleAnswer(p)
      PROVE  UNCHANGED Promise!vars
  <2>1. UNCHANGED <<subscribers, tracks, snapshot, senders, told>>
    BY <1>7 DEF ClientPrepare, ClientAnswer, HandlePrepare, HandleAnswer
  <2>2. Came' = Came
    BY <1>7 DEF TypeOK, Came, ClientPrepare, ClientAnswer, HandlePrepare, HandleAnswer
  <2>3. \A s \in Peer : Handling(s)' = Handling(s)
    BY <1>7 DEF TypeOK, Handling, ClientPrepare, ClientAnswer, HandlePrepare, HandleAnswer,
        Message
  <2> QED BY <1>7, <2>1, <2>2, <2>3, OtherMessages, StaysPut
<1>8. ASSUME NEW p \in Peer,
             \/ SetUp(p) \/ MainCreate(p) \/ MainApply(p) \/ TaskCreate(p) \/ TaskApply(p)
             \/ NegotiationNeeded(p) \/ LinkUp(p) \/ ClientGone(p)
             \/ p \in Publisher /\ \E k \in Kind : OnTrack(p, k)
      PROVE  UNCHANGED Promise!vars
  <2>1. UNCHANGED <<subscribers, tracks, snapshot, senders, told, inbox>>
    BY <1>8 DEF SetUp, MainCreate, MainApply, TaskCreate, TaskApply, NegotiationNeeded,
        LinkUp, ClientGone, OnTrack
  <2>2. Came' = Came /\ \A s \in Peer : session'[s] = "failed" <=> session[s] = "failed"
    BY <1>8 DEF TypeOK, Came, SetUp, MainCreate, MainApply, TaskCreate, TaskApply,
        NegotiationNeeded, LinkUp, ClientGone, OnTrack
  <2>3. \A s \in Peer : Handling(s)' = Handling(s)
    BY <1>8 DEF TypeOK, Handling, SetUp, MainCreate, MainApply, TaskCreate, TaskApply,
        NegotiationNeeded, LinkUp, ClientGone, OnTrack
  <2>4. \A s \in Peer : Due(s)' <=> Due(s)
    BY <2>1, <2>2 DEF Due, Starts
  <2> QED BY <2>1, <2>2, <2>3, <2>4, StaysPut
<1>9. CASE UNCHANGED vars
  <2>1. Came' = Came /\ \A s \in Peer : Handling(s)' = Handling(s)
    BY <1>9 DEF vars, Came, Handling
  <2>2. \A s \in Peer : Due(s)' <=> Due(s)
    BY <1>9 DEF vars, Due, Starts
  <2> QED BY <1>9, <2>1, <2>2, StaysPut DEF vars
<1> QED BY <1>1, <1>2, <1>3, <1>4, <1>5, <1>6, <1>7, <1>8, <1>9
        DEF Next, ServerStep, CollectorStep, MainStep, ConnectionStep, ClientStep,
            Promise!Next, Promise!Manage, Promise!Handle

(* At the start nobody has come, and nothing is due. *)
LEMMA InitImplements == Init => Promise!Init
<1> SUFFICES ASSUME Init PROVE Promise!Init
  OBVIOUS
<1>1. Came = {}
  BY DEF Init, Came
<1>2. \A s \in Peer : (Due(s) <=> FALSE) /\ Due(s) \in BOOLEAN /\ Handling(s) = "idle"
  BY DEF Init, Due, Starts, Handling
<1>3. [s \in Peer |-> Due(s)] = [s \in Peer |-> FALSE]
  BY <1>2
<1> QED BY <1>1, <1>2, <1>3 DEF Init, Promise!Init

(* Messages, connections and offers implement Forwarding.                   *)
THEOREM KeepsPromise == Spec => ImplementsForwarding
BY Invariance, InitImplements, NextImplements, PTL
   DEF Spec, ImplementsForwarding, Promise!Spec

(* What is proved of Forwarding, of the same state as Promise.               *)
Abstract == INSTANCE ForwardingProofs WITH
  came <- Came,
  due  <- [s \in Peer |-> Due(s)],
  step <- [s \in Peer |-> Handling(s)]

(* No subscriber of the forwarding unit is left without a sender for a      *)
(* complete publisher's track, or with one for a track that was removed.    *)
THEOREM InSync == Spec => []SendersKept
<1> USE DEF Promise!vars, Abstract!vars, Promise!handling, Abstract!handling
<1>1. Promise!Init => Abstract!Init
  BY DEF Promise!Init, Abstract!Init
<1>2. [Promise!Next]_(Promise!vars) => [Abstract!Next]_(Abstract!vars)
  BY DEF Promise!Next, Abstract!Next, Promise!Manage, Abstract!Manage, Promise!Handle,
         Abstract!Handle, Promise!Join, Abstract!Join, Promise!Leave, Abstract!Leave,
         Promise!Nudge, Abstract!Nudge, Promise!Publish, Abstract!Publish, Promise!Snapshot,
         Abstract!Snapshot, Promise!Remove, Abstract!Remove, Promise!Removed, Abstract!Removed,
         Promise!Add, Abstract!Add,
         Promise!Added, Abstract!Added, Promise!Announce, Abstract!Announce, Promise!Track,
         Abstract!Track, Promise!PublisherTracks, Abstract!PublisherTracks, Promise!HasBoth,
         Abstract!HasBoth
<1>3. Abstract!SendersInSync => SendersKept
  BY DEF SendersKept, Promise!SendersInSync, Abstract!SendersInSync, Promise!OthersTracks,
         Abstract!OthersTracks, Promise!CompleteTracks, Abstract!CompleteTracks,
         Promise!HasBoth, Abstract!HasBoth
<1> QED BY <1>1, <1>2, <1>3, KeepsPromise, Abstract!InSync, PTL
       DEF ImplementsForwarding, Promise!Spec, Abstract!Spec
================================================================================
