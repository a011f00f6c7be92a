------------------------------- MODULE ChatServer -------------------------------
(***************************************************************************)
(* The chat servers: chat/src/chat_core.rs (the rooms, behind one mutex)    *)
(* and the per-connection tasks of bin/chat_tcp.rs and bin/chat_ws.rs,      *)
(* which differ only in how they cut what the peer sends into frames.       *)
(*                                                                         *)
(* What a peer sends is a stream of units, the lines of the README's        *)
(* sessions: a room's name (it starts with '@'), a text, or bytes that are  *)
(* no text.  A websocket frame is one unit (MaxRead = 1); a TCP read        *)
(* returns any number of them (MaxRead > 1), and the server takes whatever  *)
(* one read returned for one frame.                                         *)
(***************************************************************************)
EXTENDS Naturals, SequencesExt

CONSTANTS
  Conn,        \* connections; a new one gets a fresh Uuid, so none is reused
  Room,        \* units that start with '@'
  Text,        \* other units
  Illegal,     \* a unit that is no UTF-8, or a frame that is no text
  MaxRead,     \* bound: units one read may return
  MaxTyped,    \* bound: units ever typed
  None         \* no room

VARIABLES
  clients,     \* ChatRooms.clients: who has a sender
  rooms,       \* ChatRooms.rooms: the room of each connection
  members,     \* ChatRooms.members: the connections of each room, in order
  task,        \* where the task of each connection is
  queue,       \* the unbounded channel of each connection
  unsent,      \* what the task of each connection is writing: one item or none
  peer,        \* how the other end of each connection behaves
  stream,      \* what each peer has sent and the server has not read
  typed,       \* how much has been typed
  said,        \* how many messages have been said in rooms
  shown        \* history: what has been written to each peer

hub      == <<clients, rooms, members>>
network  == <<peer, stream, typed>>
vars     == <<hub, task, queue, unsent, network, said, shown>>

Unit == Room \cup Text \cup {Illegal}

(* What one read may return. *)
Chunk == UNION {[1 .. n -> Unit] : n \in 1 .. MaxRead}

(* parse_frame: one frame, by its first character. *)
IsIllegal(chunk) == \E i \in DOMAIN chunk : chunk[i] = Illegal
IsEnter(chunk)   == ~IsIllegal(chunk) /\ Head(chunk) \in Room
IsMessage(chunk) == ~IsIllegal(chunk) /\ Head(chunk) \in Text

Name == {chunk \in Chunk : IsEnter(chunk)}

ASSUME ConstantsAssumption ==
  /\ MaxRead \in Nat \ {0}
  /\ MaxTyped \in Nat
  /\ Room \cap Text = {} /\ Illegal \notin Room \cup Text
  /\ None \notin Name

(* What a task is writing has left its channel, but is still to be shown.   *)
Pending == [c \in Conn |-> unsent[c] \o queue[c]]

Promise == INSTANCE RoomChat WITH online <- clients, room <- rooms, inbox <- Pending

TypeOK ==
  /\ clients \subseteq Conn
  /\ rooms \in [Conn -> Name \cup {None}]
  /\ members \in [Name -> Seq(Conn)]
  /\ task \in [Conn -> {"absent", "new", "select", "write", "ended"}]
  /\ queue \in [Conn -> Seq(Promise!Item)]
  /\ unsent \in [Conn -> Seq(Promise!Item)]
  /\ peer \in [Conn -> {"absent", "reading", "stalled", "closed"}]
  /\ stream \in [Conn -> Seq(Unit)]
  /\ typed \in 0 .. MaxTyped
  /\ said \in Nat
  /\ shown \in [Conn -> Seq(Promise!Item)]

Init ==
  /\ clients = {}
  /\ rooms = [c \in Conn |-> None]
  /\ members = [r \in Name |-> <<>>]
  /\ task = [c \in Conn |-> "absent"]
  /\ queue = [c \in Conn |-> <<>>]
  /\ unsent = [c \in Conn |-> <<>>]
  /\ peer = [c \in Conn |-> "absent"]
  /\ stream = [c \in Conn |-> <<>>]
  /\ typed = 0
  /\ said = 0
  /\ shown = [c \in Conn |-> <<>>]

--------------------------------------------------------------------------------
(* The peers. *)

(* A connection is accepted and its task spawned. *)
Connect(c) ==
  /\ task[c] = "absent"
  /\ peer' = [peer EXCEPT ![c] = "reading"]
  /\ task' = [task EXCEPT ![c] = "new"]
  /\ UNCHANGED <<hub, queue, unsent, stream, typed, said, shown>>

Type(c, unit) ==
  /\ peer[c] \in {"reading", "stalled"}
  /\ typed < MaxTyped
  /\ typed' = typed + 1
  /\ stream' = [stream EXCEPT ![c] = Append(@, unit)]
  /\ UNCHANGED <<hub, task, queue, unsent, peer, said, shown>>

(* The peer stops reading what it is sent, reads again, or goes for good. *)
Behave(c) ==
  /\ \/ peer[c] = "reading" /\ peer' = [peer EXCEPT ![c] = "stalled"]
     \/ peer[c] = "stalled" /\ peer' = [peer EXCEPT ![c] = "reading"]
     \/ peer[c] \in {"reading", "stalled"} /\ peer' = [peer EXCEPT ![c] = "closed"]
  /\ UNCHANGED <<hub, task, queue, unsent, stream, typed, said, shown>>

--------------------------------------------------------------------------------
(* chat_core.rs.  Every operation runs under the mutex, in one step. *)

AppendClient(c) == /\ clients' = clients \cup {c}
                   /\ UNCHANGED <<rooms, members>>

(* Names ending in _wrong are plausible mistakes, each in the definition    *)
(* that follows it: every property is shown to fail under one of them.      *)
DestroyClient_wrong(c) ==      \* the room keeps its member
  /\ clients' = clients \ {c}
  /\ rooms' = [rooms EXCEPT ![c] = None]
  /\ UNCHANGED members

DestroyClient(c) ==
  /\ clients' = clients \ {c}
  /\ rooms' = [rooms EXCEPT ![c] = None]
  /\ members' = IF rooms[c] = None THEN members
                ELSE [members EXCEPT ![rooms[c]] = RemoveFirst(@, c)]

MoveMember_wrong(c, r) ==      \* whoever is in the room already is not moved
  LET arrived == [members EXCEPT ![r] = Append(@, c)]
  IN  IF rooms[c] \in {None, r} THEN arrived
      ELSE [arrived EXCEPT ![rooms[c]] = RemoveFirst(@, c)]

(* The new room first; the room before may be the same one. *)
MoveMember(c, r) ==
  LET arrived == [members EXCEPT ![r] = Append(@, c)]
  IN  IF rooms[c] = None THEN arrived
      ELSE [arrived EXCEPT ![rooms[c]] = RemoveFirst(@, c)]

Enter(c, r) ==
  /\ c \in clients
  /\ members' = MoveMember(c, r)
  /\ rooms' = [rooms EXCEPT ![c] = r]
  /\ queue' = [queue EXCEPT ![c] = Append(@, Promise!Entered(r))]
  /\ UNCHANGED <<clients, said>>

Copies_wrong(c, d) ==      \* an echo to whoever speaks
  IF d \notin clients THEN 0
  ELSE Cardinality({i \in DOMAIN members[rooms[c]] : members[rooms[c]][i] = d})

(* How often the loop over the members of c's room comes upon d. *)
Copies(c, d) ==
  IF d = c \/ d \notin clients THEN 0
  ELSE Cardinality({i \in DOMAIN members[rooms[c]] : members[rooms[c]][i] = d})

Say(c) ==
  /\ c \in clients
  /\ rooms[c] # None
  /\ said' = said + 1
  /\ queue' = [d \in Conn |->
                 queue[d] \o [i \in 1 .. Copies(c, d) |-> Promise!Said(rooms[c], said + 1)]]
  /\ UNCHANGED hub

Refuse_wrong(c) ==      \* the room of somebody without one is the empty name
  /\ c \in clients
  /\ rooms[c] = None
  /\ rooms' = [rooms EXCEPT ![c] = <<>>]
  /\ UNCHANGED <<clients, members, queue, said>>

Refuse(c) ==
  /\ c \in clients
  /\ rooms[c] = None
  /\ queue' = [queue EXCEPT ![c] = Append(@, Promise!NoRoom)]
  /\ UNCHANGED <<hub, said>>

--------------------------------------------------------------------------------
(* The task of a connection. *)

Register(c) ==
  /\ task[c] = "new"
  /\ AppendClient(c)
  /\ task' = [task EXCEPT ![c] = "select"]
  /\ UNCHANGED <<queue, unsent, network, said, shown>>

(* The task leaves its loop; its receiver is dropped with what is queued. *)
End(c) ==
  /\ task' = [task EXCEPT ![c] = "ended"]
  /\ queue' = [queue EXCEPT ![c] = <<>>]
  /\ unsent' = [unsent EXCEPT ![c] = <<>>]
  /\ UNCHANGED <<peer, typed, said, shown>>

(* read returns the next units of the stream, for one frame. *)
Received(c, chunk) ==
  /\ task[c] = "select"
  /\ IsPrefix(chunk, stream[c])
  /\ stream' = [stream EXCEPT ![c] = SubSeq(@, Len(chunk) + 1, Len(@))]

ReadLegal(c, chunk) ==
  /\ Received(c, chunk)
  /\ \/ IsEnter(chunk) /\ Enter(c, chunk)
     \/ IsMessage(chunk) /\ (Say(c) \/ Refuse(c))
  /\ UNCHANGED <<task, unsent, peer, typed, shown>>

(* handle_message fails: its own destroy_client has removed the client. *)
ReadIllegal(c, chunk) ==
  /\ Received(c, chunk)
  /\ IsIllegal(chunk) \/ c \notin clients
  /\ DestroyClient(c)
  /\ End(c)

ReadEnd_wrong(c) ==      \* reading no bytes is not taken for the end
  /\ task[c] = "select"
  /\ peer[c] = "closed"
  /\ UNCHANGED vars

(* read returns no bytes or an error. *)
ReadEnd(c) ==
  /\ task[c] = "select"
  /\ peer[c] = "closed"
  /\ DestroyClient(c)
  /\ End(c)
  /\ UNCHANGED stream

Recv_wrong(c) ==      \* what has piled up is drained for the sake of its first
  /\ task[c] = "select"
  /\ queue[c] # <<>>
  /\ queue' = [queue EXCEPT ![c] = <<>>]
  /\ unsent' = [unsent EXCEPT ![c] = <<Head(queue[c])>>]
  /\ task' = [task EXCEPT ![c] = "write"]
  /\ UNCHANGED <<hub, network, said, shown>>

Recv(c) ==
  /\ task[c] = "select"
  /\ queue[c] # <<>>
  /\ queue' = [queue EXCEPT ![c] = Tail(@)]
  /\ unsent' = [unsent EXCEPT ![c] = <<Head(queue[c])>>]
  /\ task' = [task EXCEPT ![c] = "write"]
  /\ UNCHANGED <<hub, network, said, shown>>

(* write_all has handed everything over, be it to a peer that reads, or to  *)
(* the buffers of one that does not.                                        *)
Written(c) ==
  /\ task[c] = "write"
  /\ shown' = [shown EXCEPT ![c] = @ \o unsent[c]]
  /\ unsent' = [unsent EXCEPT ![c] = <<>>]
  /\ task' = [task EXCEPT ![c] = "select"]
  /\ UNCHANGED <<hub, queue, network, said>>

WriteFails_wrong(c) ==      \* the client is left to the next message it is sent
  /\ task[c] = "write"
  /\ peer[c] = "closed"
  /\ UNCHANGED <<hub, stream>>
  /\ End(c)

WriteFails(c) ==
  /\ task[c] = "write"
  /\ peer[c] = "closed"
  /\ DestroyClient(c)
  /\ End(c)
  /\ UNCHANGED stream

--------------------------------------------------------------------------------
ReadFrame(c) == \E chunk \in Chunk : ReadLegal(c, chunk) \/ ReadIllegal(c, chunk)

PeerStep(c) == Connect(c) \/ Behave(c) \/ \E unit \in Unit : Type(c, unit)

TaskStep(c) == \/ Register(c) \/ ReadFrame(c) \/ ReadEnd(c)
               \/ Recv(c) \/ Written(c) \/ WriteFails(c)

Next == \E c \in Conn : PeerStep(c) \/ TaskStep(c)

Spec == Init /\ [][Next]_vars

(* A task that can go on does.  select! tries its branches in random order, *)
(* so neither starves the other.  A write to a peer that reads, or that is  *)
(* gone, comes to an end; one to a peer that does not read may block.       *)
Fairness ==
  \A c \in Conn :
    /\ WF_vars(Register(c))
    /\ SF_vars(ReadFrame(c))
    /\ SF_vars(ReadEnd(c))
    /\ SF_vars(Recv(c))
    /\ WF_vars(peer[c] # "stalled" /\ (Written(c) \/ WriteFails(c)))

FairSpec == Spec /\ Fairness

--------------------------------------------------------------------------------
(* PROPERTIES *)

(* clients, rooms and members, three maps that every operation updates one  *)
(* after the other, agree: a connection is listed exactly once by the room  *)
(* it is in, also when it enters that room again, and by no other.          *)
MembershipConsistent ==
  /\ \A r \in Name : /\ IsInjective(members[r])
                     /\ \A c \in Conn : c \in Range(members[r]) <=> rooms[c] = r
  /\ \A c \in Conn : rooms[c] # None => c \in clients

(* chat_tcp.rs:56 and chat_ws.rs:72: "The client has already been destroyed *)
(* in handle_message."  However a task ends, by then no map knows its       *)
(* client; and while it runs, its client is known, so that handle_message   *)
(* never meets an id without a client.                                      *)
KnownWhileRunning == \A c \in Conn : c \in clients <=> task[c] \in {"select", "write"}

InOrder(items) ==
  \A i, j \in DOMAIN items :
    (i < j /\ items[i].kind = "said" /\ items[j].kind = "said") => items[i].rank < items[j].rank

(* What each peer has been shown, and what is on its way to it. *)
OnTheWay(c) == shown[c] \o unsent[c] \o queue[c]

(* Everybody is shown messages in the one order in which they were said,    *)
(* and none of them twice.                                                  *)
ShownInOrder == \A c \in Conn : InOrder(OnTheWay(c))

(* The maps, channels and tasks implement the rooms of RoomChat: nothing    *)
(* that was queued is lost on the way to a peer but by the end of its task. *)
ImplementsRoomChat == Promise!Spec

(* A connection whose peer has gone is forgotten, even if its task is       *)
(* writing to it when it goes.                                              *)
GoneIsForgotten == \A c \in Conn : peer[c] = "closed" ~> [](c \notin clients)

(* What is queued for a peer that goes on reading is shown to it, whoever   *)
(* else stalls or leaves.                                                   *)
QueuedIsShown ==
  \A c \in Conn : \A k \in 1 .. MaxTyped :
    (\E i \in DOMAIN queue[c] : queue[c][i].rank = k)
      ~> \/ peer[c] # "reading" \/ task[c] = "ended"
         \/ \E i \in DOMAIN shown[c] : shown[c][i].rank = k

(* The README's session: the line that starts with '@' names the room, and  *)
(* the lines after it are messages.                                         *)
RoomIsALine == \A c \in Conn : rooms[c] # None => Len(rooms[c]) = 1

(* The inductive invariant behind the safety properties. *)
IInv == TypeOK /\ MembershipConsistent /\ KnownWhileRunning

(* A task that writes has taken one item, and no other task has any.        *)
Taken(c) == IF task[c] = "write" THEN Len(unsent[c]) = 1 ELSE unsent[c] = <<>>

(* What keeps the order besides: nothing on its way has a rank that is yet  *)
(* to be given out.                                                         *)
OrderInv ==
  /\ ShownInOrder
  /\ \A c \in Conn : /\ \A i \in DOMAIN OnTheWay(c) : OnTheWay(c)[i].rank <= said
                     /\ Taken(c)
================================================================================
