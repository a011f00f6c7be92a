-------------------------------- MODULE SfuRelay --------------------------------
(***************************************************************************)
(* What the selective forwarding unit passes on between peers besides media *)
(* (webrtc-simple-mpmc/sfu): the text messages of the data channels, and    *)
(* the picture loss indications (PLI) by which a receiver asks a publisher  *)
(* for a whole picture.  Both go through unbounded channels that are found  *)
(* in the PeerManager, under its mutex.  The text of a message is left out: *)
(* messages are told apart by the order in which they arrive.               *)
(***************************************************************************)
EXTENDS Naturals, Sequences

CONSTANTS
  Peer,
  Publisher,   \* the peers whose clients publish a video
  MaxSaid,     \* bound: messages ever sent by clients
  MaxLosses    \* bound: PLIs ever sent by receivers

ASSUME ConstantsAssumption == /\ Publisher \subseteq Peer
                              /\ {MaxSaid, MaxLosses} \subseteq Nat

VARIABLES
  publishers,  \* PeerManager.to_publishers
  listeners,   \* PeerManager.data_to_subscribers, from which nobody is removed
  channel,     \* each peer's data channel: new, open or closed
  texts,       \* rx_data of each peer: messages to pass on
  said,        \* how many messages clients have sent
  owed,        \* history: whose channels were open when each was sent
  shown,       \* history: what each peer's data channel was given
  media,       \* each peer's video: none, spawned (its ssrc on its way), known
  losses,      \* how many PLIs receivers have sent
  plis,        \* rx_main_to_publisher of each peer: PLIs to pass on
  lost         \* history: PLIs found nobody to be passed on to

data == <<listeners, channel, texts, said, owed, shown>>
rtcp == <<media, losses, plis, lost>>
vars == <<publishers, data, rtcp>>

Text == [from : Peer, rank : Nat \ {0}]

TypeOK ==
  /\ publishers \subseteq listeners /\ listeners \subseteq Peer
  /\ channel \in [Peer -> {"new", "open", "closed"}]
  /\ texts \in [Peer -> Seq(Text)]
  /\ said \in 0 .. MaxSaid
  /\ owed \subseteq Peer \X (1 .. MaxSaid)
  /\ shown \in [Peer -> Seq(Text)]
  /\ media \in [Peer -> {"none", "spawned", "known"}]
  /\ losses \in 0 .. MaxLosses
  /\ plis \in [Peer -> Nat]
  /\ lost \in Nat

Init ==
  /\ publishers = {} /\ listeners = {}
  /\ channel = [p \in Peer |-> "new"]
  /\ texts = [p \in Peer |-> <<>>]
  /\ said = 0
  /\ owed = {}
  /\ shown = [p \in Peer |-> <<>>]
  /\ media = [p \in Peer |-> "none"]
  /\ losses = 0
  /\ plis = [p \in Peer |-> 0]
  /\ lost = 0

--------------------------------------------------------------------------------
(* add_peer. *)
AddPeer(p) ==
  /\ p \notin listeners
  /\ publishers' = publishers \cup {p}
  /\ listeners' = listeners \cup {p}
  /\ UNCHANGED <<channel, texts, said, owed, shown, rtcp>>

(* Names ending in _wrong are plausible mistakes, each in the definition    *)
(* that follows it: every property is shown to fail under one of them.      *)
RemovePeer_wrong(p) ==      \* whoever has gone is shown no texts either
  /\ p \in publishers
  /\ publishers' = publishers \ {p}
  /\ listeners' = listeners \ {p}
  /\ UNCHANGED <<channel, texts, said, owed, shown, rtcp>>

(* remove_peer, of a peer whose connection is Disconnected: its entry in    *)
(* data_to_subscribers stays.                                               *)
RemovePeer(p) ==
  /\ p \in publishers
  /\ publishers' = publishers \ {p}
  /\ UNCHANGED <<data, rtcp>>

--------------------------------------------------------------------------------
(* Data channels. *)

Open(p) ==
  /\ p \in listeners
  /\ channel[p] = "new"
  /\ channel' = [channel EXCEPT ![p] = "open"]
  /\ UNCHANGED <<publishers, listeners, texts, said, owed, shown, rtcp>>

Close(p) ==
  /\ channel[p] = "open"
  /\ channel' = [channel EXCEPT ![p] = "closed"]
  /\ UNCHANGED <<publishers, listeners, texts, said, owed, shown, rtcp>>

Say_wrong(p) ==      \* only to whoever could publish now
  /\ channel[p] = "open"
  /\ said < MaxSaid
  /\ said' = said + 1
  /\ owed' = owed \cup {<<q, said + 1>> : q \in {r \in Peer \ {p} : channel[r] = "open"}}
  /\ texts' = [q \in Peer |-> IF q \in publishers
                              THEN Append(texts[q], [from |-> p, rank |-> said + 1])
                              ELSE texts[q]]
  /\ UNCHANGED <<publishers, listeners, channel, shown, rtcp>>

(* on_message and send_data_to_subscribers: to everyone, the sender too.    *)
Say(p) ==
  /\ channel[p] = "open"
  /\ said < MaxSaid
  /\ said' = said + 1
  /\ owed' = owed \cup {<<q, said + 1>> : q \in {r \in Peer \ {p} : channel[r] = "open"}}
  /\ texts' = [q \in Peer |-> IF q \in listeners
                              THEN Append(texts[q], [from |-> p, rank |-> said + 1])
                              ELSE texts[q]]
  /\ UNCHANGED <<publishers, listeners, channel, shown, rtcp>>

PassOn_wrong(p) ==      \* the sender's own copy is passed on as well
  /\ channel[p] # "new"
  /\ texts[p] # <<>>
  /\ texts' = [texts EXCEPT ![p] = Tail(@)]
  /\ shown' = [shown EXCEPT ![p] = IF channel[p] = "closed" THEN @
                                   ELSE Append(@, Head(texts[p]))]
  /\ UNCHANGED <<publishers, listeners, channel, said, owed, rtcp>>

(* The loop of on_data_channel_open.  It skips one's own messages, and a    *)
(* message that cannot be sent is lost.                                     *)
PassOn(p) ==
  /\ channel[p] # "new"
  /\ texts[p] # <<>>
  /\ texts' = [texts EXCEPT ![p] = Tail(@)]
  /\ shown' = [shown EXCEPT ![p] = IF channel[p] = "closed" \/ Head(texts[p]).from = p
                                   THEN @ ELSE Append(@, Head(texts[p]))]
  /\ UNCHANGED <<publishers, listeners, channel, said, owed, rtcp>>

--------------------------------------------------------------------------------
(* Picture loss indications. *)

(* on_track of a video spawns a task that sends its ssrc. *)
VideoTrack(p) ==
  /\ p \in listeners
  /\ media[p] = "none"
  /\ media' = [media EXCEPT ![p] = "spawned"]
  /\ UNCHANGED <<publishers, data, losses, plis, lost>>

(* The observer waits for it first. *)
ObserveSsrc(p) ==
  /\ media[p] = "spawned"
  /\ media' = [media EXCEPT ![p] = "known"]
  /\ UNCHANGED <<publishers, data, losses, plis, lost>>

(* A reader of RTCP packets, for a sender of one of p's tracks.             *)
Loss(p) ==
  /\ media[p] # "none"
  /\ losses < MaxLosses
  /\ losses' = losses + 1
  /\ IF p \in publishers
     THEN plis' = [plis EXCEPT ![p] = @ + 1] /\ UNCHANGED lost
     ELSE lost' = lost + 1 /\ UNCHANGED plis
  /\ UNCHANGED <<publishers, data, media>>

Forward_wrong(p) ==      \* an if where there is a while: the observer ends
  /\ media[p] = "known"
  /\ plis[p] > 0
  /\ plis' = [plis EXCEPT ![p] = @ - 1]
  /\ media' = [media EXCEPT ![p] = "ended"]
  /\ UNCHANGED <<publishers, data, losses, lost>>

(* write_rtcp to the publisher.  What was queued before the peer was        *)
(* removed is still written.                                                *)
Forward(p) ==
  /\ media[p] = "known"
  /\ plis[p] > 0
  /\ plis' = [plis EXCEPT ![p] = @ - 1]
  /\ UNCHANGED <<publishers, data, media, losses, lost>>

--------------------------------------------------------------------------------
ManagerStep(p) == AddPeer(p) \/ RemovePeer(p)

DataStep(p) == Open(p) \/ Close(p) \/ Say(p) \/ PassOn(p)

RtcpStep(p) == (p \in Publisher /\ VideoTrack(p)) \/ ObserveSsrc(p) \/ Loss(p) \/ Forward(p)

Next == \E p \in Peer : ManagerStep(p) \/ DataStep(p) \/ RtcpStep(p)

Spec == Init /\ [][Next]_vars

(* The three loops that pass something on run while they can. *)
Fairness == \A p \in Peer : /\ WF_vars(PassOn(p))
                            /\ WF_vars(ObserveSsrc(p))
                            /\ WF_vars(Forward(p))

FairSpec == Spec /\ Fairness

--------------------------------------------------------------------------------
(* PROPERTIES *)

Increasing(items) == \A i, j \in DOMAIN items : i < j => items[i].rank < items[j].rank

(* All peers are shown texts in the order in which they came in, never one  *)
(* twice, and nobody is shown one of their own.                             *)
ShownInOrder ==
  \A p \in Peer : /\ Increasing(shown[p])
                  /\ \A i \in DOMAIN shown[p] : shown[p][i].from # p

(* A text is shown to everyone else whose data channel is open and stays    *)
(* so, also after their connection was once Disconnected.                   *)
SaidIsShown ==
  \A q \in Peer, k \in 1 .. MaxSaid :
    <<q, k>> \in owed
      ~> channel[q] = "closed" \/ \E i \in DOMAIN shown[q] : shown[q][i].rank = k

(* Every PLI that found its publisher is written to it. *)
LossIsForwarded == \A p \in Peer : plis[p] > 0 ~> plis[p] = 0

(* What waits to be shown came in order too, after all that was shown.      *)
TextsInOrder ==
  \A p \in Peer :
    /\ Increasing(texts[p])
    /\ \A j \in DOMAIN texts[p] :
         /\ texts[p][j].rank <= said
         /\ \A i \in DOMAIN shown[p] : shown[p][i].rank < texts[p][j].rank
    /\ \A i \in DOMAIN shown[p] : shown[p][i].rank <= said

(* Nothing is lost on the way: a text that is owed to a peer has been shown *)
(* to it or still waits for it, unless its data channel has been closed.    *)
(* This rests on data_to_subscribers keeping whoever has an open channel.   *)
Waits(q, k) == \E i \in DOMAIN texts[q] : texts[q][i].rank = k /\ texts[q][i].from # q

IsShown(q, k) == \E i \in DOMAIN shown[q] : shown[q][i].rank = k

OwedIsKept ==
  /\ \A q \in Peer : channel[q] = "open" => q \in listeners
  /\ \A q \in Peer, k \in 1 .. MaxSaid : <<q, k>> \in owed =>
       \/ channel[q] = "closed"
       \/ channel[q] = "open" /\ (Waits(q, k) \/ IsShown(q, k))

(* The inductive invariant. *)
IInv == TypeOK /\ ShownInOrder /\ TextsInOrder /\ OwedIsKept
================================================================================
