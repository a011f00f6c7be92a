---------------------------- MODULE ForwardingProofs ----------------------------
(***************************************************************************)
(* Proofs about Forwarding, for any number of peers and kinds of tracks.    *)
(***************************************************************************)
EXTENDS Forwarding, TLAPS

(* publisher_tracks_info finds what the others publish. *)
LEMMA TracksFound ==
  ASSUME TypeOK, NEW s \in Peer
  PROVE  PublisherTracks(s) = OthersTracks(s)
<1>1. \A t : t \in PublisherTracks(s) <=> t \in OthersTracks(s)
  BY DEF TypeOK, PublisherTracks, OthersTracks, Track
<1> QED BY <1>1

(* The manager starts without peers, and no sender is missing. *)
LEMMA InitIInv == Init => IInv
BY DEF Init, IInv, TypeOK, ChangesAreDue, AddsToSnapshot, NothingBefore

(* Every step keeps the types. *)
LEMMA NextTypeOK == TypeOK /\ [Next]_vars => TypeOK'
<1> SUFFICES ASSUME TypeOK, [Next]_vars PROVE TypeOK'
  OBVIOUS
<1> USE DEF TypeOK
<1>1. ASSUME NEW p \in Peer, Join(p) PROVE TypeOK'
  BY <1>1 DEF Join, handling
<1>2. ASSUME NEW p \in Peer, Leave(p) PROVE TypeOK'
  BY <1>2 DEF Leave, Announce, handling
<1>3. ASSUME NEW p \in Peer, Nudge(p) PROVE TypeOK'
  BY <1>3 DEF Nudge, handling
<1>4. ASSUME NEW p \in Publisher, NEW k \in Kind, Publish(p, k) PROVE TypeOK'
  <2>1. tracks' \in [Publisher -> SUBSET Kind]
    BY <1>4 DEF Publish
  <2>2. CASE HasBoth(tracks'[p])
    BY <1>4, <2>1, <2>2 DEF Publish, Announce, handling
  <2>3. CASE ~HasBoth(tracks'[p])
    BY <1>4, <2>1, <2>3 DEF Publish, handling
  <2> QED BY <2>2, <2>3
<1>5. ASSUME NEW s \in Peer, Snapshot(s) PROVE TypeOK'
  BY <1>5 DEF Snapshot, PublisherTracks
<1>6. ASSUME NEW s \in Peer, NEW t \in Track, Remove(s, t) PROVE TypeOK'
  BY <1>6 DEF Remove
<1>7. ASSUME NEW s \in Peer, Removed(s) \/ Added(s) PROVE TypeOK'
  BY <1>7 DEF Removed, Added
<1>8. ASSUME NEW s \in Peer, NEW t \in Track, Add(s, t) PROVE TypeOK'
  BY <1>8 DEF Add
<1>9. CASE UNCHANGED vars
  BY <1>9 DEF vars, handling
<1> QED BY <1>1, <1>2, <1>3, <1>4, <1>5, <1>6, <1>7, <1>8, <1>9 DEF Next, Manage, Handle

(* What others publish changes for nobody else, and only with a Start due   *)
(* to every subscriber if it makes a publisher complete or takes one away.  *)
LEMMA PublishKeeps ==
  ASSUME IInv, NEW p \in Publisher, NEW k \in Kind, Publish(p, k)
  PROVE  ChangesAreDue'
<1> USE DEF IInv, TypeOK
<1>1. /\ tracks' = [tracks EXCEPT ![p] = @ \cup {k}]
      /\ UNCHANGED <<subscribers, step, snapshot, senders>>
  BY DEF Publish, handling
<1>2. ASSUME NEW s \in subscribers, ~due'[s]
      PROVE  /\ Expected(s)' \subseteq OthersTracks(s)'
             /\ s \in told' => CompleteTracks(s)' \subseteq Expected(s)'
  <2>1. ~HasBoth(tracks'[p]) /\ due' = due /\ told' = told
    <3>1. ASSUME HasBoth(tracks'[p]) PROVE FALSE
      BY <1>2, <3>1 DEF Publish, Announce
    <3> QED BY <3>1 DEF Publish
  <2>2. Expected(s)' = Expected(s)
    BY <1>1 DEF Expected
  <2>3. OthersTracks(s) \subseteq OthersTracks(s)'
    BY <1>1 DEF OthersTracks
  <2>4. CompleteTracks(s)' \subseteq CompleteTracks(s)
    <3> SUFFICES ASSUME NEW t \in CompleteTracks(s)' PROVE t \in CompleteTracks(s)
      OBVIOUS
    <3>1. PICK q \in Publisher \ {s} : t \in {q} \X tracks'[q]
      BY DEF CompleteTracks, OthersTracks
    <3>2. t[1] = q /\ HasBoth(tracks'[q])
      BY <3>1 DEF CompleteTracks
    <3>3. q # p /\ tracks'[q] = tracks[q]
      BY <1>1, <2>1, <3>2
    <3> QED BY <3>1, <3>2, <3>3 DEF CompleteTracks, OthersTracks
  <2> QED BY <1>2, <2>1, <2>2, <2>3, <2>4 DEF ChangesAreDue
<1> QED BY <1>1, <1>2 DEF ChangesAreDue

(* Every step keeps what is expected of the senders, up to a due Start. *)
LEMMA NextChangesAreDue == IInv /\ [Next]_vars => ChangesAreDue'
<1> SUFFICES ASSUME IInv, [Next]_vars PROVE ChangesAreDue'
  OBVIOUS
<1> USE DEF IInv, TypeOK
<1>1. ASSUME NEW p \in Peer, Join(p) PROVE ChangesAreDue'
  <2>1. UNCHANGED <<tracks, due, step, snapshot, senders, told>> /\ p \notin told
        /\ subscribers' = subscribers \cup {p}
    BY <1>1 DEF Join, handling
  <2>2. Expected(p) = {}
    BY <1>1 DEF Join, NothingBefore, Expected
  <2>3. \A s \in Peer : /\ Expected(s)' = Expected(s)
                        /\ OthersTracks(s)' = OthersTracks(s)
                        /\ CompleteTracks(s)' = CompleteTracks(s)
    BY <2>1 DEF Expected, OthersTracks, CompleteTracks
  <2> QED BY <2>1, <2>2, <2>3 DEF ChangesAreDue
<1>2. ASSUME NEW p \in Peer, Leave(p) PROVE ChangesAreDue'
  BY <1>2 DEF Leave, Announce, ChangesAreDue
<1>3. ASSUME NEW p \in Peer, Nudge(p) PROVE ChangesAreDue'
  <2>1. UNCHANGED <<subscribers, tracks, step, snapshot, senders, told>>
        /\ \A s \in Peer : ~due'[s] => ~due[s]
    BY <1>3 DEF Nudge, handling
  <2>2. \A s \in Peer : /\ Expected(s)' = Expected(s)
                        /\ OthersTracks(s)' = OthersTracks(s)
                        /\ CompleteTracks(s)' = CompleteTracks(s)
    BY <2>1 DEF Expected, OthersTracks, CompleteTracks
  <2> QED BY <2>1, <2>2 DEF ChangesAreDue
<1>4. ASSUME NEW p \in Publisher, NEW k \in Kind, Publish(p, k) PROVE ChangesAreDue'
  BY <1>4, PublishKeeps
<1>5. ASSUME NEW p \in Peer, Handle(p) PROVE ChangesAreDue'
  <2>1. UNCHANGED <<subscribers, tracks, told>>
    BY <1>5 DEF Handle, Snapshot, Remove, Removed, Add, Added
  <2>2. \A s \in Peer : /\ OthersTracks(s)' = OthersTracks(s)
                        /\ CompleteTracks(s)' = CompleteTracks(s)
    BY <2>1 DEF OthersTracks, CompleteTracks
  <2>3. \A s \in Peer \ {p} : Expected(s)' = Expected(s) /\ due'[s] = due[s]
    BY <1>5 DEF Handle, Snapshot, Remove, Removed, Add, Added, Expected
  <2>4. CASE Snapshot(p)
    <3>1. Expected(p)' = OthersTracks(p)
      BY <2>4, TracksFound DEF Snapshot, Expected
    <3>2. CompleteTracks(p) \subseteq OthersTracks(p)
      BY DEF CompleteTracks
    <3> QED BY <2>1, <2>2, <2>3, <3>1, <3>2 DEF ChangesAreDue
  <2>5. ASSUME NEW t \in Track, Remove(p, t) PROVE ChangesAreDue'
    <3>1. Expected(p)' = Expected(p) /\ due' = due
      BY <2>5 DEF Remove, Expected
    <3> QED BY <2>1, <2>2, <2>3, <3>1 DEF ChangesAreDue
  <2>6. CASE Removed(p) \/ Added(p)
    <3>1. Expected(p)' = Expected(p) /\ due' = due
      BY <2>6 DEF Removed, Added, Expected, AddsToSnapshot
    <3> QED BY <2>1, <2>2, <2>3, <3>1 DEF ChangesAreDue
  <2>7. ASSUME NEW t \in Track, Add(p, t) PROVE ChangesAreDue'
    <3>1. Expected(p)' = Expected(p) /\ due' = due
      BY <2>7 DEF Add, Expected
    <3> QED BY <2>1, <2>2, <2>3, <3>1 DEF ChangesAreDue
  <2> QED BY <1>5, <2>4, <2>5, <2>6, <2>7 DEF Handle
<1>6. CASE UNCHANGED vars
  BY <1>6 DEF vars, handling, ChangesAreDue, Expected, OthersTracks, CompleteTracks
<1> QED BY <1>1, <1>2, <1>3, <1>4, <1>5, <1>6 DEF Next, Manage

(* Every step keeps the inductive invariant. *)
LEMMA NextIInv == IInv /\ [Next]_vars => IInv'
<1> SUFFICES ASSUME IInv, [Next]_vars PROVE IInv'
  OBVIOUS
<1>1. TypeOK'
  BY NextTypeOK DEF IInv
<1>2. ChangesAreDue'
  BY NextChangesAreDue
<1>3. AddsToSnapshot'
  <2> USE DEF IInv, TypeOK, AddsToSnapshot
  <2>1. ASSUME NEW p \in Peer, Manage(p) PROVE AddsToSnapshot'
    BY <2>1 DEF Manage, Join, Leave, Nudge, handling
  <2>2. ASSUME NEW p \in Peer, Handle(p) PROVE AddsToSnapshot'
    BY <2>2 DEF Handle, Snapshot, Remove, Removed, Add, Added
  <2>3. ASSUME NEW p \in Publisher, NEW k \in Kind, Publish(p, k) PROVE AddsToSnapshot'
    BY <2>3 DEF Publish, handling
  <2>4. CASE UNCHANGED vars
    BY <2>4 DEF vars, handling
  <2> QED BY <2>1, <2>2, <2>3, <2>4 DEF Next
<1>4. NothingBefore'
  <2> USE DEF IInv, TypeOK, NothingBefore
  <2>1. ASSUME NEW p \in Peer, Manage(p) PROVE NothingBefore'
    BY <2>1 DEF Manage, Join, Leave, Announce, Nudge, handling
  <2>2. ASSUME NEW p \in Peer, Handle(p) PROVE NothingBefore'
    <3>1. p \in came
      BY <2>2 DEF Handle, Snapshot, Remove, Removed, Add, Added
    <3> QED BY <2>2, <3>1 DEF Handle, Snapshot, Remove, Removed, Add, Added
  <2>3. ASSUME NEW p \in Publisher, NEW k \in Kind, Publish(p, k) PROVE NothingBefore'
    BY <2>3 DEF Publish, Announce, handling
  <2>4. CASE UNCHANGED vars
    BY <2>4 DEF vars, handling
  <2> QED BY <2>1, <2>2, <2>3, <2>4 DEF Next
<1> QED BY <1>1, <1>2, <1>3, <1>4 DEF IInv

--------------------------------------------------------------------------------
(* The inductive invariant of the forwarding unit. *)
THEOREM Invariance == Spec => []IInv
BY InitIInv, NextIInv, PTL DEF Spec

(* A subscriber that was told to Start and has none left to handle has      *)
(* senders for what the complete publishers publish and for nothing that    *)
(* was removed, whatever came and went while it worked from old snapshots.  *)
THEOREM InSync == Spec => []SendersInSync
<1>1. IInv => SendersInSync
  BY DEF IInv, TypeOK, ChangesAreDue, SendersInSync, Expected
<1> QED BY Invariance, <1>1, PTL
================================================================================
