---------------------------------- MODULE Auth ----------------------------------
(***************************************************************************)
(* auth: POST /room behind a JSON Web Token, and POST /member by a room's   *)
(* secret, in a PostgreSQL database (modelled from how it is used, at its   *)
(* default isolation).  A request's steps are what it does between two      *)
(* awaits.  Once a statement is on its way it is the database's, which may  *)
(* carry it out although the request has failed or its client has hung up;  *)
(* a transaction that is dropped is rolled back, and locks its room till    *)
(* then.                                                                    *)
(***************************************************************************)
EXTENDS RoomBook, FiniteSets

CONSTANTS
  MaxOpen,      \* bound: the largest pool
  MaxStored,    \* bound: the rooms that earlier runs of the program have created
  MaxChanges,   \* bound: how often keys change
  MaxRemovals   \* bound: how many rooms are removed

ASSUME BoundsAssumption ==
  /\ {MaxOpen, MaxStored, MaxChanges, MaxRemovals} \subseteq Nat /\ MaxOpen > 0

VARIABLES
  max_open,  \* the pool's, 20 in the code: here any up to MaxOpen
  jwks,      \* the keys each request has fetched
  stage,     \* how far each request has come
  room_ids,  \* the last id that the sequence of rooms has given
  changes, removals

Stage == {"asked",
          "fetched",    \* its keys have been fetched
          "handled",    \* its token and name are right, if need be
          "sent",       \* its first statement is on its way
          "found",      \* it has locked its room
          "entered",    \* it has inserted its member, but not committed
          "over",       \* the database is done with it
          "refused"}    \* without the database's reply

locals == <<max_open, jwks, stage, room_ids, changes, removals>>
vars == <<book, locals>>

AuthInit ==
  /\ \E ids \in SUBSET (1 .. MaxStored) : rooms = [i \in ids |-> 0]
  /\ keys \in SUBSET Key
  /\ Init
  /\ max_open \in 1 .. MaxOpen
  /\ jwks = [r \in Request |-> {}]
  /\ stage = [r \in Request |-> "asked"]
  /\ room_ids = MaxStored
  /\ changes = 0 /\ removals = 0

Goto(r, s) == stage' = [stage EXCEPT ![r] = s]

At(r, op, s) == request[r] # None /\ request[r].op = op /\ stage[r] = s

(* A request that somebody waits for. *)
Waits(r) == request[r] # None /\ reply[r] = None /\ answer[r] = None

Refused(r, a, s) ==
  /\ Reply(r, a)
  /\ Goto(r, s)
  /\ UNCHANGED <<tables, authority, request, answer, max_open, jwks, room_ids, changes, removals>>

Moved(r, s) ==
  /\ Goto(r, s)
  /\ UNCHANGED <<book, max_open, jwks, room_ids, changes, removals>>

--------------------------------------------------------------------------------
(* validator *)

FetchJwks(r) ==
  /\ At(r, "room", "asked") /\ Waits(r)
  /\ jwks' = [jwks EXCEPT ![r] = keys]
  /\ Goto(r, "fetched")
  /\ UNCHANGED <<book, max_open, room_ids, changes, removals>>

FetchFails(r) ==
  /\ At(r, "room", "asked") /\ Waits(r)
  /\ Refused(r, Unauthorized, "refused")

(* Names ending in _wrong are plausible mistakes, each in the definition    *)
(* that follows it: every property is shown to fail under one of them.      *)
ValidateToken_wrong(r) ==      \* any key that was ever fetched will do
  /\ At(r, "room", "fetched") /\ Waits(r)
  /\ \/ /\ request[r].token \in UNION {jwks[q] : q \in Request}
        /\ Moved(r, "handled")
     \/ Refused(r, Unauthorized, "refused")

(* A token may also have expired meanwhile. *)
ValidateToken(r) ==
  /\ At(r, "room", "fetched") /\ Waits(r)
  /\ \/ /\ request[r].token \in jwks[r]
        /\ Moved(r, "handled")
     \/ Refused(r, Unauthorized, "refused")

(* check_length, of a room's name once its token is validated. *)
CheckLength(r) ==
  /\ Waits(r)
  /\ (At(r, "room", "handled") \/ At(r, "member", "asked"))
  /\ request[r].name = "bad"
  /\ Refused(r, BadInput, "refused")

(* db_pool.get().  A pool that is used up is waited for; a connection is    *)
(* kept until the handler returns, or is dropped.                           *)
Connected ==
  {r \in Request : stage[r] \in {"sent", "found", "entered", "over"} /\ answer[r] = None}

Connect(r) ==
  /\ Waits(r)
  /\ (At(r, "room", "handled") \/ At(r, "member", "asked"))
  /\ request[r].name = "good"
  /\ Cardinality(Connected) < max_open
  /\ Moved(r, "sent")

--------------------------------------------------------------------------------
(* Statements *)

InsertRoom(r) ==
  /\ At(r, "room", "sent")
  /\ room_ids' = room_ids + 1
  /\ rooms' = [i \in DOMAIN rooms \cup {room_ids'} |-> IF i = room_ids' THEN r ELSE rooms[i]]
  /\ Reply(r, Ok(room_ids'))
  /\ Goto(r, "over")
  /\ UNCHANGED <<members, authority, request, answer, max_open, jwks, changes, removals>>

Locks_wrong(i) == {r \in Request : stage[r] = "entered" /\ request[r].room = i}

(* Transactions that have found the room FOR UPDATE, and not ended. *)
Locks(i) == {r \in Request : stage[r] \in {"found", "entered"} /\ request[r].room = i}

SelectRoom_wrong(r) ==      \* any secret opens the room
  /\ At(r, "member", "sent")
  /\ Locks(request[r].room) = {}
  /\ IF request[r].room \in DOMAIN rooms
     THEN Moved(r, "found") ELSE Refused(r, NotFound, "over")

(* Only a row that is found is waited for. *)
SelectRoom(r) ==
  /\ At(r, "member", "sent")
  /\ IF Knows(request[r])
     THEN Locks(request[r].room) = {} /\ Moved(r, "found")
     ELSE Refused(r, NotFound, "over")

(* Whatever goes wrong with the SELECT, before or after it has found the    *)
(* room, the room is said not to exist, and its lock is given back.         *)
SelectFails(r) ==
  /\ (At(r, "member", "sent") \/ At(r, "member", "found")) /\ Waits(r)
  /\ Refused(r, NotFound, "refused")

InsertMember_wrong(r) ==      \* forgets to commit
  /\ At(r, "member", "found") /\ Waits(r)
  /\ Refused(r, Ok(request[r].room), "over")

(* Its room must be there (REFERENCES). *)
InsertMember(r) ==
  /\ At(r, "member", "found") /\ Waits(r)
  /\ IF request[r].room \in DOMAIN rooms
     THEN Moved(r, "entered")
     ELSE GiveUp(r, Failed) /\ UNCHANGED locals

Commit(r) ==
  /\ At(r, "member", "entered")
  /\ members' = members \cup {[by |-> r, room |-> request[r].room]}
  /\ Reply(r, Ok(request[r].room))
  /\ Goto(r, "over")
  /\ UNCHANGED <<rooms, authority, request, answer, max_open, jwks, room_ids, changes, removals>>

Discard_wrong(r) ==      \* a transaction that was begun for nobody stays open
  /\ answer[r] # None /\ stage[r] \notin {"over", "refused", "found", "entered"}
  /\ Moved(r, "over")

(* What nobody waits for may never arrive, or fail; a transaction that is   *)
(* dropped is rolled back.                                                  *)
Discard(r) ==
  /\ answer[r] # None /\ stage[r] \notin {"over", "refused"}
  /\ Moved(r, "over")

--------------------------------------------------------------------------------
(* At any await but that of the SELECT, an error is a server error. *)
Fail(r) ==
  /\ \/ stage[r] \in {"handled", "found", "entered"}
     \/ stage[r] = "over" /\ reply[r] # NotFound
     \/ At(r, "member", "asked") \/ At(r, "room", "sent")
  /\ GiveUp(r, Failed)
  /\ UNCHANGED locals

ClientStep(r) ==
  /\ UNCHANGED locals
  /\ \/ \E token \in Key \cup {None}, name \in {"good", "bad"} : Ask(r, ToRoom(token, name))
     \/ Ask(r, ToMember(0, 0, "bad"))
     \/ \E i \in {0} \cup DOMAIN rooms, s \in {0} \cup {rooms[j] : j \in DOMAIN rooms} :
          Ask(r, ToMember(i, s, "good"))
     \/ GiveUp(r, Nobody)

TaskStep(r) ==
  \/ ValidateToken(r) \/ CheckLength(r) \/ Connect(r)
  \/ Answer(r) /\ UNCHANGED locals

DatabaseStep(r) ==
  InsertRoom(r) \/ SelectRoom(r) \/ InsertMember(r) \/ Commit(r) \/ Discard(r)

KeysChange ==
  /\ changes < MaxChanges
  /\ changes' = changes + 1
  /\ \E ks \in SUBSET Key : Publish(ks)
  /\ UNCHANGED <<max_open, jwks, stage, room_ids, removals>>

RoomGoes ==
  /\ removals < MaxRemovals
  /\ removals' = removals + 1
  /\ \E i \in DOMAIN rooms : Locks(i) = {} /\ RemoveRoom(i)
  /\ UNCHANGED <<max_open, jwks, stage, room_ids, changes>>

AuthNext ==
  \/ KeysChange \/ RoomGoes
  \/ \E r \in Request : \/ ClientStep(r) \/ TaskStep(r) \/ DatabaseStep(r)
                        \/ FetchJwks(r) \/ FetchFails(r) \/ SelectFails(r) \/ Fail(r)

AuthSpec == AuthInit /\ [][AuthNext]_vars

(* Tasks go on while they can, and so does the database.  Nothing makes the *)
(* authority answer: a fetch has no timeout.                                *)
AuthFairSpec == AuthSpec /\ \A r \in Request : WF_vars(TaskStep(r) \/ DatabaseStep(r))

--------------------------------------------------------------------------------
(* PROPERTIES *)

(* Rooms are created by tokens of keys published since the request was made *)
(* and entered by their secrets; every request does so once at most, none   *)
(* that was refused does, and whom the answer says has.                     *)
ImplementsRoomBook == Spec

(* A room that was found stays, with its secret, until the member is in it: *)
(* nobody fails to enter for a room that is removed at the last moment.     *)
FoundRoomStays ==
  \A r \in Request : stage[r] \in {"found", "entered"} => Knows(request[r])

(* An authority that says nothing holds up the rooms it is asked about, but *)
(* no member, and no connection of the pool.                                *)
MembersAreAnswered ==
  \A r \in Request :
    (request[r] # None /\ (request[r].op = "member" \/ stage[r] # "asked")) ~> answer[r] # None

TypeOK ==
  /\ DOMAIN rooms \subseteq 0 .. room_ids /\ \A i \in DOMAIN rooms : rooms[i] \in {0} \cup Request
  /\ \A m \in members : m.by \in Request /\ m.room \in DOMAIN rooms
  /\ keys \subseteq Key /\ seen \in [Request -> SUBSET Key] /\ jwks \in [Request -> SUBSET Key]
  /\ DOMAIN request = Request /\ \A r \in Request : request[r] # None => request[r] \in Requests
  /\ DOMAIN reply = Request /\ DOMAIN answer = Request
  /\ stage \in [Request -> Stage]
  /\ {room_ids, max_open, changes, removals} \subseteq Nat

(* What a request has come to, it has come to by its token and its name. *)
StagesAgree ==
  \A r \in Request :
    /\ request[r] = None => (stage[r] = "asked" /\ reply[r] = None /\ answer[r] = None)
    /\ stage[r] \notin {"over", "refused"} => reply[r] = None
    /\ stage[r] \in {"found", "entered"} => request[r].op = "member"
    /\ stage[r] \in {"sent", "found", "entered"} => request[r].name = "good"
    /\ IF request[r] = None THEN seen[r] = {} ELSE keys \subseteq seen[r]
    /\ jwks[r] \subseteq seen[r]
    /\ (At(r, "room", "handled") \/ At(r, "room", "sent")) => request[r].token \in seen[r]

(* The inductive invariant. *)
IInv == TypeOK /\ StagesAgree /\ FoundRoomStays
================================================================================
