-------------------------------- MODULE RoomChat --------------------------------
(***************************************************************************)
(* What the chat servers promise, whatever the transport: everybody who is  *)
(* online is in at most one room and has an inbox.  What somebody says in a *)
(* room is put once into the inbox of everybody else who is in that room,   *)
(* and whoever stays online is shown its inbox one by one, in order and     *)
(* whole: only who leaves misses what it had not been shown.                *)
(***************************************************************************)
EXTENDS Naturals, Sequences

CONSTANTS Conn,       \* the connections
          Name,       \* the rooms' names
          None        \* no room

VARIABLES online,     \* the connections the server knows
          room,       \* the room each connection is in
          inbox,      \* what each connection is still to be shown
          shown,      \* what it has been shown
          said        \* how many messages have been said in rooms

vars == <<online, room, inbox, shown, said>>

Entered(r) == [kind |-> "entered", room |-> r, rank |-> 0]
NoRoom     == [kind |-> "noroom", room |-> None, rank |-> 0]
Said(r, k) == [kind |-> "said", room |-> r, rank |-> k]

Item == [kind : {"entered"}, room : Name, rank : {0}] \cup {NoRoom}
          \cup [kind : {"said"}, room : Name, rank : Nat \ {0}]

Init == /\ online = {}
        /\ room = [c \in Conn |-> None]
        /\ inbox = [c \in Conn |-> <<>>]
        /\ shown = [c \in Conn |-> <<>>]
        /\ said = 0

Come(c) == /\ c \notin online
           /\ online' = online \cup {c}
           /\ UNCHANGED <<room, inbox, shown, said>>

Enter(c, r) == /\ c \in online
               /\ room' = [room EXCEPT ![c] = r]
               /\ inbox' = [inbox EXCEPT ![c] = Append(@, Entered(r))]
               /\ UNCHANGED <<online, shown, said>>

Others(c) == {d \in online \ {c} : room[d] = room[c]}

Say(c) == /\ c \in online
          /\ room[c] # None
          /\ said' = said + 1
          /\ inbox' = [d \in Conn |-> IF d \in Others(c)
                                      THEN Append(inbox[d], Said(room[c], said + 1))
                                      ELSE inbox[d]]
          /\ UNCHANGED <<online, room, shown>>

Refuse(c) == /\ c \in online
             /\ room[c] = None
             /\ inbox' = [inbox EXCEPT ![c] = Append(@, NoRoom)]
             /\ UNCHANGED <<online, room, shown, said>>

Take(c) == /\ c \in online
           /\ inbox[c] # <<>>
           /\ inbox' = [inbox EXCEPT ![c] = Tail(@)]
           /\ shown' = [shown EXCEPT ![c] = Append(@, Head(inbox[c]))]
           /\ UNCHANGED <<online, room, said>>

Leave(c) == /\ c \in online
            /\ online' = online \ {c}
            /\ room' = [room EXCEPT ![c] = None]
            /\ inbox' = [inbox EXCEPT ![c] = <<>>]
            /\ UNCHANGED <<shown, said>>

Next == \E c \in Conn : \/ Come(c) \/ Say(c) \/ Refuse(c) \/ Take(c) \/ Leave(c)
                        \/ \E r \in Name : Enter(c, r)

Spec == Init /\ [][Next]_vars
================================================================================
