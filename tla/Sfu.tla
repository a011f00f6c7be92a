---------------------------------- MODULE Sfu ----------------------------------
(***************************************************************************)
(* The selective forwarding unit, webrtc-simple-mpmc/sfu: the tracks of the *)
(* peers in the PeerManager (behind one mutex), and what each peer's tasks   *)
(* do about them: the collector of its own tracks, the main event loop that *)
(* gives its connection a sender for every track of the others, and the     *)
(* offers by which the connection and its client agree on those senders.    *)
(*                                                                         *)
(* A track is known by its publisher and its kind: every remote track gets  *)
(* one local track with a fresh id.  Candidates, descriptions and packets   *)
(* are left out; a description is the set of tracks it offers.  The peer    *)
(* connection (webrtc-rs) and the browser's client are modelled from how    *)
(* they are used; add_track and remove_track are taken to succeed.          *)
(***************************************************************************)
EXTENDS Naturals, Sequences, FiniteSets

CONSTANTS
  Peer,        \* websocket sessions; each gets a fresh Uuid, so none is reused
  Publisher,   \* the peers whose clients publish tracks
  Kind,        \* kinds of tracks a client publishes, one track of each
  MaxDrops,    \* bound: how often connections are lost
  MaxGone      \* bound: how many clients leave

ASSUME ConstantsAssumption == /\ Publisher \subseteq Peer
                              /\ {MaxDrops, MaxGone} \subseteq Nat

VARIABLES
  subscribers, \* PeerManager.to_subscribers: who is told to Start
  tracks,      \* PeerManager.tracks: the kinds each peer has a track of
  session,     \* how far handle_peer_delegate of each peer is
  media,       \* each remote track: none, arriving at the collector, collected
  announced,   \* peers whose collector has left its loop
  inbox,       \* the channel of each peer's main event loop
  step,        \* where each main event loop is
  snapshot,    \* what its handling of a Start found under the lock, while it lasts
  senders,     \* the tracks each peer connection has a sender for
  signaling,   \* stable, offered to the client, or answered by it
  offered,     \* the tracks in the offer the client has not answered
  agreed,      \* the tracks in the last offer that was answered
  fresh,       \* the offer created last, and by whom; older ones are refused
  fired,       \* negotiation-needed has fired since signaling became stable
  asked,       \* tasks spawned by it that have not created their offer
  link,        \* new, down or up: the transport below the connection
  gone,        \* peers whose client has left
  drops,       \* how many connections have been lost
  told         \* history: peers that have been sent a Start

manager == <<subscribers, tracks>>
loop    == <<step, snapshot>>
offers  == <<signaling, offered, agreed, fresh, fired, asked>>
world   == <<link, gone, drops>>
vars    == <<manager, session, media, announced, inbox, loop, senders, offers,
             world, told>>

Track == Publisher \X Kind

NoOffer == [by |-> "nobody", tracks |-> {}]

TypeOK ==
  /\ subscribers \subseteq Peer
  /\ tracks \in [Publisher -> SUBSET Kind]
  /\ session \in [Peer -> {"absent", "registered", "failed", "running", "prepared"}]
  /\ media \in [Publisher -> [Kind -> {"none", "arriving", "collected"}]]
  /\ announced \subseteq Peer
  /\ inbox \in [Peer -> Seq({"Prepare", "Answer", "Start"})]
  /\ step \in [Peer -> {"idle", "remove", "add", "create", "apply"}]
  /\ snapshot \in [Peer -> SUBSET Track]
  /\ senders \in [Peer -> SUBSET Track]
  /\ signaling \in [Peer -> {"stable", "offered", "answered"}]
  /\ offered \in [Peer -> SUBSET Track]
  /\ agreed \in [Peer -> SUBSET Track]
  /\ fresh \in [Peer -> [by : {"nobody", "main", "task"}, tracks : SUBSET Track]]
  /\ fired \in [Peer -> BOOLEAN]
  /\ asked \in [Peer -> Nat]
  /\ link \in [Peer -> {"new", "down", "up"}]
  /\ gone \subseteq Peer
  /\ drops \in 0 .. MaxDrops
  /\ told \subseteq Peer

Init ==
  /\ subscribers = {}
  /\ tracks = [p \in Publisher |-> {}]
  /\ session = [p \in Peer |-> "absent"]
  /\ media = [p \in Publisher |-> [k \in Kind |-> "none"]]
  /\ announced = {}
  /\ inbox = [p \in Peer |-> <<>>]
  /\ step = [p \in Peer |-> "idle"]
  /\ snapshot = [p \in Peer |-> {}]
  /\ senders = [p \in Peer |-> {}]
  /\ signaling = [p \in Peer |-> "stable"]
  /\ offered = [p \in Peer |-> {}]
  /\ agreed = [p \in Peer |-> {}]
  /\ fresh = [p \in Peer |-> NoOffer]
  /\ fired = [p \in Peer |-> FALSE]
  /\ asked = [p \in Peer |-> 0]
  /\ link = [p \in Peer |-> "new"]
  /\ gone = {}
  /\ drops = 0
  /\ told = {}

--------------------------------------------------------------------------------
(* PeerManager.  Each of these runs under the mutex. *)

(* has_both_audio_and_video asks for two tracks. *)
HasBoth(kinds) == \E a, b \in kinds : a # b /\ kinds = {a, b}

(* Names ending in _wrong are plausible mistakes, each in the definition    *)
(* that follows it: every property is shown to fail under one of them.      *)
PublisherTracks_wrong(s) ==      \* one's own tracks are not skipped
  {t \in Track : t[2] \in tracks[t[1]]}

(* publisher_tracks_info: whatever the others have, complete or not. *)
PublisherTracks(s) == {t \in Track : t[1] # s /\ t[2] \in tracks[t[1]]}

(* send_to_subscribers.  A peer whose setup failed has dropped its receiver. *)
Announce(subs) ==
  /\ inbox' = [q \in Peer |-> IF q \in subs /\ session[q] # "failed"
                              THEN Append(inbox[q], "Start") ELSE inbox[q]]
  /\ told' = told \cup subs

--------------------------------------------------------------------------------
(* handle_peer_delegate. *)

(* add_peer comes first: Starts queue up while the connection is set up. *)
AddPeer(p) ==
  /\ session[p] = "absent"
  /\ session' = [session EXCEPT ![p] = "registered"]
  /\ subscribers' = subscribers \cup {p}
  /\ UNCHANGED <<tracks, media, announced, inbox, loop, senders, offers, world, told>>

SetUp(p) ==
  /\ session[p] = "registered"
  /\ session' = [session EXCEPT ![p] = "running"]
  /\ UNCHANGED <<manager, media, announced, inbox, loop, senders, offers, world, told>>

(* A ? on the way to the main event loop; the peer stays registered. *)
SetUpFails(p) ==
  /\ session[p] = "registered"
  /\ session' = [session EXCEPT ![p] = "failed"]
  /\ inbox' = [inbox EXCEPT ![p] = <<>>]
  /\ UNCHANGED <<manager, media, announced, loop, senders, offers, world, told>>

Collect_wrong(p, k) ==      \* whether both are there is asked too early
  /\ media[p][k] = "arriving"
  /\ p \notin announced
  /\ media' = [media EXCEPT ![p][k] = "collected"]
  /\ tracks' = [tracks EXCEPT ![p] = @ \cup {k}]
  /\ IF HasBoth(tracks[p])
     THEN announced' = announced \cup {p} /\ Announce(subscribers)
     ELSE UNCHANGED <<announced, inbox, told>>
  /\ UNCHANGED <<subscribers, session, loop, senders, offers, world>>

(* The collector of the peer's own tracks; the tasks that send them to it   *)
(* come in any order.  A peer that has been removed gets a new entry.       *)
Collect(p, k) ==
  /\ media[p][k] = "arriving"
  /\ p \notin announced
  /\ media' = [media EXCEPT ![p][k] = "collected"]
  /\ tracks' = [tracks EXCEPT ![p] = @ \cup {k}]
  /\ IF HasBoth(tracks'[p])
     THEN announced' = announced \cup {p} /\ Announce(subscribers)
     ELSE UNCHANGED <<announced, inbox, told>>
  /\ UNCHANGED <<subscribers, session, loop, senders, offers, world>>

--------------------------------------------------------------------------------
(* The main event loop: one message after the other. *)

Message_wrong(p, msg) ==      \* the loop runs before the rest is set up
  /\ step[p] = "idle"
  /\ inbox[p] # <<>>
  /\ Head(inbox[p]) = msg
  /\ inbox' = [inbox EXCEPT ![p] = Tail(@)]

Message(p, msg) ==
  /\ session[p] \in {"running", "prepared"}
  /\ step[p] = "idle"
  /\ inbox[p] # <<>>
  /\ Head(inbox[p]) = msg
  /\ inbox' = [inbox EXCEPT ![p] = Tail(@)]

HandlePrepare(p) ==
  /\ Message(p, "Prepare")
  /\ step' = [step EXCEPT ![p] = "create"]
  /\ UNCHANGED <<manager, session, media, announced, snapshot, senders, offers, world, told>>

HandleAnswer(p) ==
  /\ Message(p, "Answer")
  /\ signaling' = [signaling EXCEPT ![p] = "stable"]
  /\ agreed' = [agreed EXCEPT ![p] = offered[p]]
  /\ offered' = [offered EXCEPT ![p] = {}]
  /\ fired' = [fired EXCEPT ![p] = FALSE]
  /\ link' = [link EXCEPT ![p] = IF @ = "new" THEN "down" ELSE @]
  /\ UNCHANGED <<manager, session, media, announced, loop, senders, fresh, asked,
                 gone, drops, told>>

(* handle_start_message: the tracks of the others under the lock, ... *)
StartSnapshot(p) ==
  /\ Message(p, "Start")
  /\ snapshot' = [snapshot EXCEPT ![p] = PublisherTracks(p)]
  /\ step' = [step EXCEPT ![p] = "remove"]
  /\ UNCHANGED <<manager, session, media, announced, senders, offers, world, told>>

(* ... then, without it, the senders of tracks that are no more are removed *)
(* one by one; when no track is left there is no offer, ...                 *)
StartRemove(p, t) ==
  /\ step[p] = "remove"
  /\ t \in senders[p] \ snapshot[p]
  /\ senders' = [senders EXCEPT ![p] = @ \ {t}]
  /\ UNCHANGED <<manager, session, media, announced, inbox, loop, offers, world, told>>

StartRemoved(p) ==
  /\ step[p] = "remove"
  /\ senders[p] \subseteq snapshot[p]
  /\ step' = [step EXCEPT ![p] = IF snapshot[p] = {} THEN "idle" ELSE "add"]
  /\ UNCHANGED <<manager, session, media, announced, inbox, snapshot, senders, offers, world, told>>

(* ... and those of new tracks are added one by one, ... *)
StartAdd(p, t) ==
  /\ step[p] = "add"
  /\ t \in snapshot[p] \ senders[p]
  /\ senders' = [senders EXCEPT ![p] = @ \cup {t}]
  /\ UNCHANGED <<manager, session, media, announced, inbox, loop, offers, world, told>>

(* ... and the whole is offered. *)
StartAdded(p) ==
  /\ step[p] = "add"
  /\ snapshot[p] \subseteq senders[p]
  /\ step' = [step EXCEPT ![p] = "create"]
  /\ snapshot' = [snapshot EXCEPT ![p] = {}]
  /\ UNCHANGED <<manager, session, media, announced, inbox, senders, offers, world, told>>

--------------------------------------------------------------------------------
(* do_offer, by the main event loop or by a task that negotiation-needed    *)
(* spawned.  set_local_description refuses an offer that is not the last    *)
(* one created, and any offer while another waits for its answer; do_offer  *)
(* then ends with an error.                                                 *)

CreateOffer(p, who) ==
  fresh' = [fresh EXCEPT ![p] = [by |-> who, tracks |-> senders[p]]]

ApplyOffer_wrong(p, who) ==      \* an offer that is refused takes the other with it
  LET mine == fresh[p].by = who
  IN  /\ fresh' = [fresh EXCEPT ![p] = NoOffer]
      /\ IF mine /\ signaling[p] = "stable"
         THEN /\ signaling' = [signaling EXCEPT ![p] = "offered"]
              /\ offered' = [offered EXCEPT ![p] = fresh[p].tracks]
         ELSE UNCHANGED <<signaling, offered>>

ApplyOffer(p, who) ==
  LET mine == fresh[p].by = who
  IN  /\ fresh' = [fresh EXCEPT ![p] = IF mine THEN NoOffer ELSE @]
      /\ IF mine /\ signaling[p] = "stable"
         THEN /\ signaling' = [signaling EXCEPT ![p] = "offered"]
              /\ offered' = [offered EXCEPT ![p] = fresh[p].tracks]
         ELSE UNCHANGED <<signaling, offered>>

MainCreate(p) ==
  /\ step[p] = "create"
  /\ CreateOffer(p, "main")
  /\ step' = [step EXCEPT ![p] = "apply"]
  /\ UNCHANGED <<manager, session, media, announced, inbox, snapshot, senders, signaling,
                 offered, agreed, fired, asked, world, told>>

MainApply(p) ==
  /\ step[p] = "apply"
  /\ ApplyOffer(p, "main")
  /\ step' = [step EXCEPT ![p] = "idle"]
  /\ UNCHANGED <<manager, session, media, announced, inbox, snapshot, senders, agreed,
                 fired, asked, world, told>>

TaskCreate(p) ==
  /\ asked[p] > 0
  /\ asked' = [asked EXCEPT ![p] = @ - 1]
  /\ CreateOffer(p, "task")
  /\ UNCHANGED <<manager, session, media, announced, inbox, loop, senders, signaling,
                 offered, agreed, fired, world, told>>

TaskApply(p) ==
  /\ fresh[p].by = "task"
  /\ ApplyOffer(p, "task")
  /\ UNCHANGED <<manager, session, media, announced, inbox, loop, senders, agreed,
                 fired, asked, world, told>>

--------------------------------------------------------------------------------
(* The peer connection's events. *)

NegotiationNeeded_wrong(p) ==      \* the event is left unhandled
  /\ session[p] \in {"running", "prepared"}
  /\ signaling[p] = "stable"
  /\ ~fired[p]
  /\ senders[p] # agreed[p]
  /\ fired' = [fired EXCEPT ![p] = TRUE]
  /\ UNCHANGED <<manager, session, media, announced, inbox, loop, senders, signaling,
                 offered, agreed, fresh, asked, world, told>>

(* The library fires it when signaling is stable and the senders are not    *)
(* those agreed on; on_negotiation_needed spawns a do_offer.                *)
NegotiationNeeded(p) ==
  /\ session[p] \in {"running", "prepared"}
  /\ signaling[p] = "stable"
  /\ ~fired[p]
  /\ senders[p] # agreed[p]
  /\ fired' = [fired EXCEPT ![p] = TRUE]
  /\ asked' = [asked EXCEPT ![p] = @ + 1]
  /\ UNCHANGED <<manager, session, media, announced, inbox, loop, senders, signaling,
                 offered, agreed, fresh, world, told>>

(* on_track. *)
OnTrack(p, k) ==
  /\ link[p] = "up" /\ p \notin gone
  /\ media[p][k] = "none"
  /\ media' = [media EXCEPT ![p][k] = "arriving"]
  /\ UNCHANGED <<manager, session, announced, inbox, loop, senders, offers, world, told>>

LinkUp(p) ==
  /\ link[p] = "down" /\ p \notin gone
  /\ link' = [link EXCEPT ![p] = "up"]
  /\ UNCHANGED <<manager, session, media, announced, inbox, loop, senders, offers, gone,
                 drops, told>>

LinkDown_wrong(p) ==      \* nobody is told
  /\ link[p] = "up"
  /\ drops < MaxDrops
  /\ drops' = drops + 1
  /\ link' = [link EXCEPT ![p] = "down"]
  /\ tracks' = [q \in Publisher |-> IF q = p THEN {} ELSE tracks[q]]
  /\ subscribers' = subscribers \ {p}
  /\ UNCHANGED <<session, media, announced, inbox, loop, senders, offers, gone, told>>

(* Disconnected: remove_peer and send_to_subscribers under one lock. *)
LinkDown(p) ==
  /\ link[p] = "up"
  /\ drops < MaxDrops
  /\ drops' = drops + 1
  /\ link' = [link EXCEPT ![p] = "down"]
  /\ tracks' = [q \in Publisher |-> IF q = p THEN {} ELSE tracks[q]]
  /\ subscribers' = subscribers \ {p}
  /\ Announce(subscribers')
  /\ UNCHANGED <<session, media, announced, loop, senders, offers, gone>>

--------------------------------------------------------------------------------
(* The client, App.vue. *)

ClientPrepare(p) ==
  /\ session[p] = "running" /\ p \notin gone
  /\ session' = [session EXCEPT ![p] = "prepared"]
  /\ inbox' = [inbox EXCEPT ![p] = Append(@, "Prepare")]
  /\ UNCHANGED <<manager, media, announced, loop, senders, offers, world, told>>

ClientAnswer(p) ==
  /\ signaling[p] = "offered" /\ p \notin gone
  /\ signaling' = [signaling EXCEPT ![p] = "answered"]
  /\ inbox' = [inbox EXCEPT ![p] = Append(@, "Answer")]
  /\ UNCHANGED <<manager, session, media, announced, loop, senders, offered, agreed,
                 fresh, fired, asked, world, told>>

(* The websocket is closed: the session's reader ends, nothing is removed. *)
ClientGone(p) ==
  /\ session[p] \in {"running", "prepared"} /\ p \notin gone
  /\ Cardinality(gone) < MaxGone
  /\ gone' = gone \cup {p}
  /\ UNCHANGED <<manager, session, media, announced, inbox, loop, senders, offers, link,
                 drops, told>>

--------------------------------------------------------------------------------
MainStep(p) ==
  \/ HandlePrepare(p) \/ HandleAnswer(p)
  \/ StartSnapshot(p) \/ \E t \in Track : StartRemove(p, t) \/ StartAdd(p, t)
  \/ StartRemoved(p) \/ StartAdded(p)
  \/ MainCreate(p) \/ MainApply(p)

CollectorStep(p) == p \in Publisher /\ \E k \in Kind : Collect(p, k)

ServerStep(p) ==
  \/ AddPeer(p) \/ SetUp(p) \/ SetUpFails(p) \/ CollectorStep(p) \/ MainStep(p)
  \/ TaskCreate(p) \/ TaskApply(p)

ConnectionStep(p) == \/ NegotiationNeeded(p) \/ LinkUp(p) \/ LinkDown(p)
                     \/ p \in Publisher /\ \E k \in Kind : OnTrack(p, k)

ClientStep(p) == ClientPrepare(p) \/ ClientAnswer(p) \/ ClientGone(p)

Next == \E p \in Peer : ServerStep(p) \/ ConnectionStep(p) \/ ClientStep(p)

Spec == Init /\ [][Next]_vars

(* Every task goes on when it can, and so do the connection's operations    *)
(* and the client that is still there.  Nothing makes links come up or      *)
(* tracks arrive.                                                           *)
Fairness ==
  \A p \in Peer :
    /\ WF_vars(SetUp(p) \/ SetUpFails(p))
    /\ WF_vars(CollectorStep(p))
    /\ WF_vars(MainStep(p))
    /\ WF_vars(TaskCreate(p))
    /\ WF_vars(TaskApply(p))
    /\ WF_vars(NegotiationNeeded(p))
    /\ WF_vars(ClientPrepare(p))
    /\ WF_vars(ClientAnswer(p))

FairSpec == Spec /\ Fairness

--------------------------------------------------------------------------------
(* PROPERTIES *)

Starts(s) == \E i \in DOMAIN inbox[s] : inbox[s][i] = "Start"

Came        == {p \in Peer : session[p] # "absent"}
Due(s)      == Starts(s) \/ session[s] = "failed"
Handling(s) == IF step[s] \in {"remove", "add"} THEN step[s] ELSE "idle"

(* The messages and connections implement Forwarding, and so keep the       *)
(* senders in sync.  A Start is due for ever to a peer whose setup failed.  *)
Promise == INSTANCE Forwarding WITH
  came <- Came,
  due  <- [s \in Peer |-> Due(s)],
  step <- [s \in Peer |-> Handling(s)]

ImplementsForwarding == Promise!Spec

(* So, when no Start is left to handle, every subscriber has the senders it *)
(* should: of all tracks of complete publishers, of none that was removed.  *)
SendersKept == Promise!SendersInSync

(* Offers by the main loop and by tasks refuse each other, and a Start that *)
(* finds no publisher makes none: whoever's client stays nevertheless comes *)
(* to agree on the senders it has.                                          *)
AgreementCatchesUp ==
  \A s \in Peer : <>(s \in gone) \/ []<>(agreed[s] = senders[s])

(* The offers that refuse each other are never all refused: a connection    *)
(* whose senders are not those agreed on is never left alone.  The client   *)
(* is to answer, its answer is to be handled, negotiation-needed is to      *)
(* fire, or an offer is to be made or set that nothing made since replaces. *)
Answers(p) == {i \in DOMAIN inbox[p] : inbox[p][i] = "Answer"}

OfferToCome(p) == \/ asked[p] > 0
                  \/ fresh[p].by = "task"
                  \/ fresh[p].by = "main" /\ step[p] = "apply"

DisagreementIsPending ==
  \A p \in Peer : senders[p] # agreed[p] =>
    \/ signaling[p] = "offered"
    \/ Answers(p) # {}
    \/ session[p] \in {"running", "prepared"} /\ signaling[p] = "stable" /\ ~fired[p]
    \/ OfferToCome(p)

(* What somebody publishes reaches everybody who is told to Start, unless   *)
(* one of the two is lost.                                                  *)
PublishedIsSeen ==
  \A p \in Publisher, s \in Peer : p # s =>
    (HasBoth(tracks[p]) /\ s \in told \cap subscribers)
      ~> \/ {p} \X tracks[p] \subseteq agreed[s]
         \/ s \in gone \/ s \notin subscribers \/ session[s] = "failed"

(* README: "Each producer(publisher) can broadcast its video/audio to       *)
(* multiple consumers(subscribers)."  Said of two peers that are there,     *)
(* connected, have both published and stay so.                              *)
Publishing(p) == /\ link[p] = "up" /\ p \notin gone
                 /\ \A k \in Kind : media[p][k] = "collected"

ConnectedIsSeen ==
  \A p, s \in Publisher : p # s =>
    (Publishing(p) /\ Publishing(s))
      ~> {p} \X Kind \subseteq agreed[s] \/ ~Publishing(p) \/ ~Publishing(s)

(* Only a session whose main event loop runs is ever connected or has       *)
(* tracks, so nothing is published for a peer that is not registered.       *)
ConnectedAreRunning ==
  /\ \A p \in Peer : link[p] # "new" => session[p] \in {"running", "prepared"}
  /\ \A p \in Publisher, k \in Kind :
       media[p][k] # "none" => session[p] \in {"running", "prepared"}

(* An answer is handled for the offer that waits for it, the only one.      *)
AnswersMatch ==
  \A p \in Peer : /\ Answers(p) # {} <=> signaling[p] = "answered"
                  /\ \A i, j \in Answers(p) : i = j

OnlyRunningNegotiate ==
  \A p \in Peer : session[p] \notin {"running", "prepared"} =>
    /\ step[p] = "idle" /\ signaling[p] = "stable"
    /\ ~fired[p] /\ asked[p] = 0 /\ fresh[p].by = "nobody"
    /\ senders[p] = {} /\ agreed[p] = {}

FiredIsOffered ==
  \A p \in Peer : /\ fired[p] /\ signaling[p] = "stable" => OfferToCome(p)
                  /\ fresh[p].by = "main" => step[p] = "apply"

OfferInv == AnswersMatch /\ OnlyRunningNegotiate /\ FiredIsOffered

(* The inductive invariant. *)
IInv == TypeOK /\ ConnectedAreRunning /\ OfferInv
================================================================================
