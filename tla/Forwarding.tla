------------------------------- MODULE Forwarding -------------------------------
(***************************************************************************)
(* Which tracks every subscriber of the selective forwarding unit has a     *)
(* sender for (webrtc-simple-mpmc/sfu), without the connections, messages    *)
(* and offers: the PeerManager, and each subscriber's handling of a Start,   *)
(* which works from a snapshot while tracks come and go.  Queued Starts are  *)
(* one flag: further ones may be queued when one is taken.                  *)
(***************************************************************************)
CONSTANTS
  Peer,
  Publisher,   \* the peers whose clients publish tracks
  Kind         \* kinds of tracks

VARIABLES
  came,        \* peers that have been added
  subscribers, \* PeerManager.to_subscribers
  tracks,      \* PeerManager.tracks: the kinds each peer has a track of
  due,         \* whether a Start is queued
  step,        \* where the handling of a Start is
  snapshot,    \* the tracks it found under the lock, while it lasts
  senders,     \* the tracks each peer's connection has a sender for
  told         \* history: peers that have been sent a Start

handling == <<step, snapshot, senders>>
vars     == <<came, subscribers, tracks, due, handling, told>>

Track == Publisher \X Kind

TypeOK ==
  /\ subscribers \subseteq came /\ came \subseteq Peer /\ told \subseteq came
  /\ tracks \in [Publisher -> SUBSET Kind]
  /\ due \in [Peer -> BOOLEAN]
  /\ step \in [Peer -> {"idle", "remove", "add"}]
  /\ snapshot \in [Peer -> SUBSET Track]
  /\ senders \in [Peer -> SUBSET Track]

Init ==
  /\ came = {} /\ subscribers = {} /\ told = {}
  /\ tracks = [p \in Publisher |-> {}]
  /\ due = [s \in Peer |-> FALSE]
  /\ step = [s \in Peer |-> "idle"]
  /\ snapshot = [s \in Peer |-> {}]
  /\ senders = [s \in Peer |-> {}]

--------------------------------------------------------------------------------
(* has_both_audio_and_video asks for two tracks. *)
HasBoth(kinds) == \E a, b \in kinds : a # b /\ kinds = {a, b}

(* publisher_tracks_info: whatever the others have, complete or not. *)
PublisherTracks(s) == {t \in Track : t[1] # s /\ t[2] \in tracks[t[1]]}

(* send_to_subscribers. *)
Announce(subs) ==
  /\ due' = [s \in Peer |-> due[s] \/ s \in subs]
  /\ told' = told \cup subs

Join(p) ==
  /\ p \notin came
  /\ came' = came \cup {p}
  /\ subscribers' = subscribers \cup {p}
  /\ UNCHANGED <<tracks, due, handling, told>>

(* A track arrives at its publisher's collector. *)
Publish(p, k) ==
  /\ p \in came
  /\ tracks' = [tracks EXCEPT ![p] = @ \cup {k}]
  /\ IF HasBoth(tracks'[p]) THEN Announce(subscribers) ELSE UNCHANGED <<due, told>>
  /\ UNCHANGED <<came, subscribers, handling>>

(* Disconnected: remove_peer and send_to_subscribers under one lock. *)
Leave(p) ==
  /\ p \in came
  /\ subscribers' = subscribers \ {p}
  /\ tracks' = [q \in Publisher |-> IF q = p THEN {} ELSE tracks[q]]
  /\ Announce(subscribers')
  /\ UNCHANGED <<came, handling>>

(* A Start of the client's own. *)
Nudge(s) ==
  /\ s \in came
  /\ due' = [due EXCEPT ![s] = TRUE]
  /\ UNCHANGED <<came, subscribers, tracks, handling, told>>

--------------------------------------------------------------------------------
(* handle_start_message: the tracks of the others under the lock, ... *)
Snapshot(s) ==
  /\ step[s] = "idle" /\ due[s]
  /\ \E more \in BOOLEAN : due' = [due EXCEPT ![s] = more]
  /\ snapshot' = [snapshot EXCEPT ![s] = PublisherTracks(s)]
  /\ step' = [step EXCEPT ![s] = "remove"]
  /\ UNCHANGED <<came, subscribers, tracks, senders, told>>

(* ... then, without it, the senders of tracks that are no more are removed *)
(* one by one, ...                                                          *)
Remove(s, t) ==
  /\ step[s] = "remove"
  /\ t \in senders[s] \ snapshot[s]
  /\ senders' = [senders EXCEPT ![s] = @ \ {t}]
  /\ UNCHANGED <<came, subscribers, tracks, due, step, snapshot, told>>

Removed(s) ==
  /\ step[s] = "remove"
  /\ senders[s] \subseteq snapshot[s]
  /\ step' = [step EXCEPT ![s] = IF snapshot[s] = {} THEN "idle" ELSE "add"]
  /\ UNCHANGED <<came, subscribers, tracks, due, snapshot, senders, told>>

(* ... and new ones are added. *)
Add(s, t) ==
  /\ step[s] = "add"
  /\ t \in snapshot[s] \ senders[s]
  /\ senders' = [senders EXCEPT ![s] = @ \cup {t}]
  /\ UNCHANGED <<came, subscribers, tracks, due, step, snapshot, told>>

Added(s) ==
  /\ step[s] = "add"
  /\ snapshot[s] \subseteq senders[s]
  /\ step' = [step EXCEPT ![s] = "idle"]
  /\ snapshot' = [snapshot EXCEPT ![s] = {}]
  /\ UNCHANGED <<came, subscribers, tracks, due, senders, told>>

--------------------------------------------------------------------------------
Manage(p) == Join(p) \/ Leave(p) \/ Nudge(p)

Handle(s) == \/ Snapshot(s) \/ Removed(s) \/ Added(s)
             \/ \E t \in Track : Remove(s, t) \/ Add(s, t)

Next == \/ \E p \in Peer : Manage(p) \/ Handle(p)
        \/ \E p \in Publisher, k \in Kind : Publish(p, k)

Spec == Init /\ [][Next]_vars

--------------------------------------------------------------------------------
(* PROPERTIES *)

(* What the other peers publish, and the part of it whose publishers have   *)
(* both tracks.                                                             *)
OthersTracks(s)   == UNION {{p} \X tracks[p] : p \in Publisher \ {s}}
CompleteTracks(s) == {t \in OthersTracks(s) : HasBoth(tracks[t[1]])}

(* However Starts, tracks and disconnections overlap with the handling of   *)
(* earlier Starts from an old snapshot: a subscriber that has been told to  *)
(* Start and has none to handle has a sender for every track of every       *)
(* complete publisher, and no subscriber with none to handle has one for a  *)
(* track that was removed, or for its own.                                  *)
SendersInSync ==
  \A s \in subscribers : step[s] = "idle" /\ ~due[s] =>
    /\ senders[s] \subseteq OthersTracks(s)
    /\ s \in told => CompleteTracks(s) \subseteq senders[s]

(* What the handling of a Start may still be without, or have too much of,  *)
(* unless another Start is queued.                                          *)
Expected(s) == IF step[s] = "idle" THEN senders[s] ELSE snapshot[s]

ChangesAreDue ==
  \A s \in subscribers : ~due[s] =>
    /\ Expected(s) \subseteq OthersTracks(s)
    /\ s \in told => CompleteTracks(s) \subseteq Expected(s)

AddsToSnapshot == \A s \in Peer : step[s] = "add" => senders[s] \subseteq snapshot[s]

NothingBefore == \A s \in Peer \ came : step[s] = "idle" /\ ~due[s] /\ senders[s] = {}

(* The inductive invariant behind SendersInSync. *)
IInv == TypeOK /\ ChangesAreDue /\ AddsToSnapshot /\ NothingBefore
================================================================================
