-------------------------------- MODULE RoomBook --------------------------------
(***************************************************************************)
(* What auth promises.  A room is created for who shows a token of a key    *)
(* that was published while the request was under way; a member enters a    *)
(* room that is there, by its secret.  Both take effect at once and at most *)
(* once.  Answers 400, 401 and 404 tell that nothing has happened and       *)
(* nothing will; after an error, or for who hung up, it may have, or still  *)
(* may.  A secret is told apart by the request it was drawn for.            *)
(***************************************************************************)
EXTENDS Naturals

CONSTANTS
  Request,   \* numbers: requests in the order in which they are made
  Key,       \* of the authority, by which tokens are signed
  None

ASSUME RequestAssumption == Request \subseteq Nat \ {0} /\ None \notin Key

VARIABLES
  rooms,     \* the secret of each room, by room_id
  members,   \* who has entered where: [by, room]
  keys,      \* the keys that the authority publishes
  seen,      \* history: the keys published since each request was made
  request, reply, answer

tables == <<rooms, members>>
authority == <<keys, seen>>
clients == <<request, reply, answer>>
book == <<tables, authority, clients>>

Ok(i) == [code |-> 200, room |-> i]
BadInput == [code |-> 400, room |-> 0]
Unauthorized == [code |-> 401, room |-> 0]
NotFound == [code |-> 404, room |-> 0]
Failed == [code |-> 500, room |-> 0]
Nobody == [code |-> 0, room |-> 0]   \* the client has hung up

Refusals == {BadInput, Unauthorized, NotFound}

(* A token is known by its key: None is no token, or one that is not sound. *)
ToRoom(token, name) == [op |-> "room", name |-> name, token |-> token, room |-> 0, secret |-> 0]

ToMember(room, secret, name) ==
  [op |-> "member", name |-> name, token |-> None, room |-> room, secret |-> secret]

Requests == [op : {"room", "member"}, name : {"good", "bad"},
             token : Key \cup {None}, room : Nat, secret : Nat]

Answers == [code : {0, 200, 400, 401, 404, 500}, room : Nat]

ASSUME NoneAssumption == None \notin Requests /\ None \notin Answers

Reply(r, a) == reply' = [reply EXCEPT ![r] = a]

Knows(q) == q.room \in DOMAIN rooms /\ rooms[q.room] = q.secret

Init ==
  /\ DOMAIN rooms \subseteq Nat /\ \A i \in DOMAIN rooms : rooms[i] = 0
  /\ members = {}
  /\ keys \subseteq Key
  /\ seen = [r \in Request |-> {}]
  /\ request = [r \in Request |-> None]
  /\ reply = [r \in Request |-> None]
  /\ answer = [r \in Request |-> None]

--------------------------------------------------------------------------------
Ask(r, q) ==
  /\ request[r] = None
  /\ \A p \in Request : p < r => request[p] # None
  /\ request' = [request EXCEPT ![r] = q]
  /\ seen' = [seen EXCEPT ![r] = keys]
  /\ UNCHANGED <<tables, keys, reply, answer>>

Answer(r) ==
  /\ reply[r] # None
  /\ answer[r] = None
  /\ answer' = [answer EXCEPT ![r] = reply[r]]
  /\ UNCHANGED <<tables, authority, request, reply>>

GiveUp(r, a) ==
  /\ request[r] # None
  /\ answer[r] = None
  /\ answer' = [answer EXCEPT ![r] = a]
  /\ UNCHANGED <<tables, authority, request, reply>>

(* The authority changes its keys. *)
Publish(ks) ==
  /\ keys' = ks
  /\ seen' = [r \in Request |-> IF request[r] = None THEN {} ELSE seen[r] \cup ks]
  /\ UNCHANGED <<tables, clients>>

(* Rooms are removed by hand, and their members with them (ON DELETE CASCADE). *)
RemoveRoom(i) ==
  /\ i \in DOMAIN rooms
  /\ rooms' = [j \in DOMAIN rooms \ {i} |-> rooms[j]]
  /\ members' = {m \in members : m.room # i}
  /\ UNCHANGED <<authority, clients>>

--------------------------------------------------------------------------------
Open(r, op) ==
  /\ request[r] # None
  /\ request[r].op = op /\ request[r].name = "good"
  /\ reply[r] = None

Create(r) ==
  /\ Open(r, "room")
  /\ request[r].token \in seen[r]
  /\ \E i \in DOMAIN rooms' \ DOMAIN rooms :
       /\ i \in Nat
       /\ rooms' = [j \in DOMAIN rooms \cup {i} |-> IF j = i THEN r ELSE rooms[j]]
       /\ Reply(r, Ok(i))
  /\ UNCHANGED <<members, authority, request, answer>>

Enter(r) ==
  /\ Open(r, "member")
  /\ Knows(request[r])
  /\ members' = members \cup {[by |-> r, room |-> request[r].room]}
  /\ Reply(r, Ok(request[r].room))
  /\ UNCHANGED <<rooms, authority, request, answer>>

Refuse(r) ==
  /\ request[r] # None
  /\ reply[r] = None
  /\ \E a \in Refusals : Reply(r, a)
  /\ UNCHANGED <<tables, authority, request, answer>>

Next ==
  \/ \E ks \in SUBSET Key : Publish(ks)
  \/ \E i \in DOMAIN rooms : RemoveRoom(i)
  \/ \E r \in Request :
       \/ request'[r] \in Requests /\ Ask(r, request'[r])
       \/ Answer(r) \/ GiveUp(r, Failed) \/ GiveUp(r, Nobody)
       \/ Create(r) \/ Enter(r) \/ Refuse(r)

Spec == Init /\ [][Next]_book

--------------------------------------------------------------------------------
(* So whoever is in a room has entered it by its secret and was answered    *)
(* that very room, and every room of this run is that of one request, with  *)
(* a token of a key published meanwhile.  A request that was refused has    *)
(* left nothing behind, and no answer says anything else than its reply.    *)
EffectsByRight ==
  /\ \A m \in members : /\ request[m.by].op = "member" /\ request[m.by].name = "good"
                        /\ request[m.by].room = m.room /\ Knows(request[m.by])
                        /\ reply[m.by] = Ok(m.room)
  /\ \A i \in DOMAIN rooms : rooms[i] # 0 =>
       LET r == rooms[i]
       IN  /\ request[r].op = "room" /\ request[r].name = "good"
           /\ request[r].token \in seen[r]
           /\ reply[r] = Ok(i)
  /\ \A r \in Request : answer[r] \in {None, Failed, Nobody, reply[r]}

(* What it rests on: who has asked nothing is answered nothing. *)
BookInv ==
  /\ EffectsByRight
  /\ {DOMAIN request, DOMAIN seen, DOMAIN reply, DOMAIN answer} = {Request}
  /\ \A i \in DOMAIN rooms : i \in Nat /\ rooms[i] \in {0} \cup Request
  /\ \A m \in members : m.by \in Request
  /\ \A r \in Request : request[r] = None => reply[r] = None
================================================================================
