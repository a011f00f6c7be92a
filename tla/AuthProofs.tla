------------------------------- MODULE AuthProofs -------------------------------
(* Theorems about Auth, for any number of requests, keys and connections. *)
EXTENDS Auth, TLAPS

(* What nothing but a step of the database or of the hand that removes      *)
(* rooms changes.                                                           *)
LEMMA Untouched ==
  ASSUME IInv, UNCHANGED vars
  PROVE  IInv'
BY DEF IInv, TypeOK, StagesAgree, FoundRoomStays, At, Knows, vars, book, tables, authority,
       clients, locals

LEMMA InitIInv == AuthInit => IInv
<1> SUFFICES ASSUME AuthInit PROVE IInv
  OBVIOUS
<1>1. PICK ids \in SUBSET (1 .. MaxStored) : rooms = [i \in ids |-> 0]
  BY DEF AuthInit
<1>2. DOMAIN rooms \subseteq 0 .. room_ids /\ \A i \in DOMAIN rooms : rooms[i] = 0
  BY <1>1, BoundsAssumption DEF AuthInit
<1>3. TypeOK
  BY <1>2, BoundsAssumption DEF AuthInit, Init, TypeOK, Stage
<1>4. StagesAgree /\ FoundRoomStays
  BY DEF AuthInit, Init, StagesAgree, FoundRoomStays, At
<1> QED BY <1>3, <1>4 DEF IInv

--------------------------------------------------------------------------------
(* A request that goes on, where it may, and nothing else. *)
LEMMA MovedKeeps ==
  ASSUME IInv, NEW r \in Request, NEW s \in Stage, Moved(r, s),
         request[r] # None, s # "over" => reply[r] = None,
         s \in {"sent", "found", "entered"} => request[r].name = "good",
         s \in {"found", "entered"} => request[r].op = "member" /\ Knows(request[r]),
         (request[r].op = "room" /\ s \in {"handled", "sent"}) => request[r].token \in seen[r]
  PROVE  IInv'
<1> USE DEF Moved, Goto, IInv, book, tables, authority, clients
<1>1. /\ stage' \in [Request -> Stage]
      /\ stage'[r] = s /\ \A q \in Request \ {r} : stage'[q] = stage[q]
  BY DEF TypeOK
<1>2. TypeOK'
  BY <1>1 DEF TypeOK
<1>3. StagesAgree'
  BY <1>1 DEF StagesAgree, At
<1>4. FoundRoomStays'
  BY <1>1 DEF FoundRoomStays, Knows
<1> QED BY <1>2, <1>3, <1>4

(* A request that is over, and has changed no room that was there. *)
LEMMA OverKeeps ==
  ASSUME IInv, NEW r \in Request, NEW a, NEW s \in {"over", "refused"}, request[r] # None,
         Reply(r, a), Goto(r, s), room_ids' \in Nat, DOMAIN rooms' \subseteq 0 .. room_ids',
         \A i \in DOMAIN rooms' : rooms'[i] \in {0} \cup Request,
         \A i \in DOMAIN rooms : i \in DOMAIN rooms' /\ rooms'[i] = rooms[i],
         \A m \in members' : m.by \in Request /\ m.room \in DOMAIN rooms',
         UNCHANGED <<authority, request, answer, max_open, jwks, changes, removals>>
  PROVE  IInv'
<1> USE DEF Reply, Goto, IInv, authority
<1>1. /\ stage' \in [Request -> Stage]
      /\ stage'[r] = s /\ \A q \in Request \ {r} : stage'[q] = stage[q]
  BY DEF TypeOK, Stage
<1>2. /\ DOMAIN reply' = Request
      /\ \A q \in Request \ {r} : reply'[q] = reply[q]
  BY DEF TypeOK
<1>3. TypeOK'
  BY <1>1, <1>2 DEF TypeOK
<1>4. StagesAgree'
  BY <1>1, <1>2 DEF StagesAgree, At
<1>5. FoundRoomStays'
  BY <1>1 DEF FoundRoomStays, Knows
<1> QED BY <1>3, <1>4, <1>5

LEMMA RefusedKeeps ==
  ASSUME IInv, NEW r \in Request, NEW a, NEW s \in {"over", "refused"}, request[r] # None, Refused(r, a, s)
  PROVE  IInv'
<1>1. /\ Reply(r, a) /\ Goto(r, s)
      /\ UNCHANGED <<tables, authority, request, answer, max_open, jwks, room_ids,
                     changes, removals>>
  BY DEF Refused
<1>2. /\ room_ids' \in Nat /\ DOMAIN rooms' \subseteq 0 .. room_ids'
      /\ \A i \in DOMAIN rooms' : rooms'[i] \in {0} \cup Request
      /\ \A i \in DOMAIN rooms : i \in DOMAIN rooms' /\ rooms'[i] = rooms[i]
      /\ \A m \in members' : m.by \in Request /\ m.room \in DOMAIN rooms'
  BY <1>1 DEF IInv, TypeOK, tables
<1> QED BY <1>1, <1>2, OverKeeps

LEMMA AnsweredKeeps ==
  ASSUME IInv, NEW r \in Request, request[r] # None, UNCHANGED <<tables, authority, request, reply>>,
         UNCHANGED locals, NEW a, answer' = [answer EXCEPT ![r] = a]
  PROVE  IInv'
<1> USE DEF IInv, tables, authority, locals
<1>1. DOMAIN answer' = Request /\ \A q \in Request \ {r} : answer'[q] = answer[q]
  BY DEF TypeOK
<1>2. TypeOK'
  BY <1>1 DEF TypeOK
<1>3. StagesAgree'
  BY <1>1 DEF StagesAgree, At
<1>4. FoundRoomStays'
  BY DEF FoundRoomStays, Knows
<1> QED BY <1>2, <1>3, <1>4

LEMMA AskKeeps ==
  ASSUME IInv, NEW r \in Request, NEW q \in Requests, Ask(r, q), UNCHANGED locals
  PROVE  IInv'
<1> USE DEF Ask, IInv, tables, locals
<1>1. /\ DOMAIN request' = Request /\ request'[r] = q
      /\ \A p \in Request \ {r} : request'[p] = request[p]
  BY DEF TypeOK
<1>2. /\ seen' \in [Request -> SUBSET Key] /\ seen'[r] = keys
      /\ \A p \in Request \ {r} : seen'[p] = seen[p]
  BY DEF TypeOK
<1>3. stage[r] = "asked" /\ seen[r] = {} /\ jwks[r] = {} /\ reply[r] = None /\ q # None
  <2>1. /\ stage[r] = "asked" /\ reply[r] = None
        /\ seen[r] = {} /\ jwks[r] \subseteq seen[r]
    BY DEF StagesAgree
  <2>2. jwks[r] = {}
    BY <2>1
  <2>3. q # None
    BY NoneAssumption
  <2> QED BY <2>1, <2>2, <2>3
<1>4. TypeOK'
  BY <1>1, <1>2 DEF TypeOK
<1>5. StagesAgree'
  <2>1. \A p \in Request \ {r} : StagesAgree!(p)'
    BY <1>1, <1>2 DEF StagesAgree, At
  <2>2. StagesAgree!(r)'
    BY <1>1, <1>2, <1>3 DEF At
  <2> QED BY <2>1, <2>2 DEF StagesAgree
<1>6. FoundRoomStays'
  BY <1>1, <1>3 DEF FoundRoomStays, Knows
<1> QED BY <1>4, <1>5, <1>6

(* Keys come and go: what a request has fetched was published meanwhile. *)
LEMMA KeysChangeKeeps ==
  ASSUME IInv, KeysChange
  PROVE  IInv'
<1> PICK ks \in SUBSET Key : Publish(ks)
  BY DEF KeysChange
<1> USE DEF KeysChange, Publish, IInv, tables, clients
<1>1. \A r \in Request : seen'[r] = IF request[r] = None THEN {} ELSE seen[r] \cup ks
  OBVIOUS
<1>2. TypeOK'
  <2>1. seen' \in [Request -> SUBSET Key]
    BY DEF TypeOK
  <2>2. changes' \in Nat
    BY DEF TypeOK
  <2> QED BY <2>1, <2>2 DEF TypeOK
<1>3. StagesAgree'
  BY <1>1 DEF StagesAgree, At
<1>4. FoundRoomStays'
  BY DEF FoundRoomStays, Knows
<1> QED BY <1>2, <1>3, <1>4

(* Nobody removes a room that is locked. *)
LEMMA RoomGoesKeeps ==
  ASSUME IInv, RoomGoes
  PROVE  IInv'
<1> PICK i \in DOMAIN rooms : Locks(i) = {} /\ RemoveRoom(i)
  BY DEF RoomGoes
<1> USE DEF RoomGoes, RemoveRoom, IInv, authority, clients
<1>1. /\ DOMAIN rooms' = DOMAIN rooms \ {i}
      /\ \A j \in DOMAIN rooms \ {i} : rooms'[j] = rooms[j]
  OBVIOUS
<1>2. TypeOK'
  <2>1. removals' \in Nat
    BY DEF TypeOK
  <2>2. \A m \in members' : m.by \in Request /\ m.room \in DOMAIN rooms'
    BY <1>1 DEF TypeOK
  <2> QED BY <1>1, <2>1, <2>2 DEF TypeOK
<1>3. StagesAgree'
  BY DEF StagesAgree, At
<1>4. FoundRoomStays'
  BY <1>1 DEF FoundRoomStays, Knows, Locks
<1> QED BY <1>2, <1>3, <1>4

LEMMA InsertRoomKeeps ==
  ASSUME IInv, NEW r \in Request, InsertRoom(r)
  PROVE  IInv'
<1>1. /\ room_ids' \in Nat /\ room_ids' = room_ids + 1 /\ room_ids \in Nat
      /\ DOMAIN rooms' = DOMAIN rooms \cup {room_ids'}
      /\ room_ids' \notin DOMAIN rooms
  BY DEF InsertRoom, IInv, TypeOK
<1>2. \A i \in DOMAIN rooms : i \in DOMAIN rooms' /\ rooms'[i] = rooms[i]
  BY <1>1 DEF InsertRoom
<1>3. \A i \in DOMAIN rooms' : rooms'[i] \in {0} \cup Request
  BY <1>1 DEF InsertRoom, IInv, TypeOK
<1>4. DOMAIN rooms' \subseteq 0 .. room_ids'
  BY <1>1 DEF IInv, TypeOK
<1>5. \A m \in members' : m.by \in Request /\ m.room \in DOMAIN rooms'
  BY <1>1 DEF InsertRoom, IInv, TypeOK
<1>6. /\ request[r] # None /\ Reply(r, Ok(room_ids')) /\ Goto(r, "over")
      /\ UNCHANGED <<authority, request, answer, max_open, jwks, changes, removals>>
  BY DEF InsertRoom, At
<1> QED BY <1>1, <1>2, <1>3, <1>4, <1>5, <1>6, OverKeeps

LEMMA CommitKeeps ==
  ASSUME IInv, NEW r \in Request, Commit(r)
  PROVE  IInv'
<1>1. request[r].room \in DOMAIN rooms
  BY DEF Commit, At, IInv, FoundRoomStays, Knows
<1>2. \A m \in members' : m.by \in Request /\ m.room \in DOMAIN rooms'
  BY <1>1 DEF Commit, IInv, TypeOK
<1>3. /\ request[r] # None /\ Reply(r, Ok(request[r].room)) /\ Goto(r, "over")
      /\ UNCHANGED <<rooms, room_ids>>
      /\ UNCHANGED <<authority, request, answer, max_open, jwks, changes, removals>>
  BY DEF Commit, At
<1>4. /\ room_ids' \in Nat /\ DOMAIN rooms' \subseteq 0 .. room_ids'
      /\ \A i \in DOMAIN rooms' : rooms'[i] \in {0} \cup Request
      /\ \A i \in DOMAIN rooms : i \in DOMAIN rooms' /\ rooms'[i] = rooms[i]
  BY <1>3 DEF IInv, TypeOK
<1> QED BY <1>2, <1>3, <1>4, OverKeeps

--------------------------------------------------------------------------------
LEMMA ClientStepKeeps ==
  ASSUME IInv, NEW r \in Request, ClientStep(r)
  PROVE  IInv'
<1>1. ASSUME NEW token \in Key \cup {None}, NEW name \in {"good", "bad"},
             Ask(r, ToRoom(token, name))
      PROVE  IInv'
  <2>1. ToRoom(token, name) \in Requests
    BY DEF ToRoom, Requests
  <2> QED BY <1>1, <2>1, AskKeeps DEF ClientStep
<1>2. CASE Ask(r, ToMember(0, 0, "bad"))
  <2>1. ToMember(0, 0, "bad") \in Requests
    BY DEF ToMember, Requests
  <2> QED BY <1>2, <2>1, AskKeeps DEF ClientStep
<1>3. ASSUME NEW i \in {0} \cup DOMAIN rooms, NEW s \in {0} \cup {rooms[j] : j \in DOMAIN rooms},
             Ask(r, ToMember(i, s, "good"))
      PROVE  IInv'
  <2>1. i \in Nat /\ s \in Nat
    BY RequestAssumption DEF IInv, TypeOK
  <2>2. ToMember(i, s, "good") \in Requests
    BY <2>1 DEF ToMember, Requests
  <2> QED BY <1>3, <2>2, AskKeeps DEF ClientStep
<1>4. CASE GiveUp(r, Nobody)
  BY <1>4, AnsweredKeeps DEF GiveUp, ClientStep
<1> QED BY <1>1, <1>2, <1>3, <1>4 DEF ClientStep

LEMMA TaskStepKeeps ==
  ASSUME IInv, NEW r \in Request, TaskStep(r) \/ FetchJwks(r) \/ FetchFails(r) \/ Fail(r)
  PROVE  IInv'
<1>1. CASE ValidateToken(r)
  <2>1. CASE Refused(r, Unauthorized, "refused")
    BY <1>1, <2>1, RefusedKeeps DEF ValidateToken, At
  <2>2. CASE request[r].token \in jwks[r] /\ Moved(r, "handled")
    <3>1. request[r].token \in seen[r] /\ request[r] # None /\ reply[r] = None
      BY <1>1, <2>2 DEF ValidateToken, At, Waits, IInv, StagesAgree
    <3> QED BY <2>2, <3>1, MovedKeeps DEF Stage
  <2> QED BY <1>1, <2>1, <2>2 DEF ValidateToken
<1>2. CASE CheckLength(r)
  BY <1>2, RefusedKeeps DEF CheckLength, Waits
<1>3. CASE Connect(r)
  <2>1. request[r] # None /\ reply[r] = None /\ request[r].name = "good" /\ Moved(r, "sent")
    BY <1>3 DEF Connect, Waits
  <2>2. request[r].op = "room" => request[r].token \in seen[r]
    BY <1>3 DEF Connect, At, IInv, StagesAgree
  <2> QED BY <2>1, <2>2, MovedKeeps DEF Stage
<1>4. CASE Answer(r) /\ UNCHANGED locals
  <2>1. request[r] # None
    BY <1>4 DEF Answer, IInv, StagesAgree
  <2> QED BY <1>4, <2>1, AnsweredKeeps DEF Answer
<1>5. CASE FetchJwks(r)
  <2> USE DEF FetchJwks, Goto, IInv, book, tables, authority, clients
  <2>1. /\ stage' \in [Request -> Stage]
        /\ stage'[r] = "fetched" /\ \A q \in Request \ {r} : stage'[q] = stage[q]
    BY <1>5 DEF TypeOK, Stage
  <2>2. /\ jwks' \in [Request -> SUBSET Key]
        /\ jwks'[r] = keys /\ \A q \in Request \ {r} : jwks'[q] = jwks[q]
    BY <1>5 DEF TypeOK
  <2>3. request[r] # None /\ reply[r] = None /\ keys \subseteq seen[r]
    BY <1>5 DEF At, Waits, StagesAgree
  <2>4. TypeOK'
    BY <1>5, <2>1, <2>2 DEF TypeOK
  <2>5. StagesAgree'
    BY <1>5, <2>1, <2>2, <2>3 DEF StagesAgree, At
  <2>6. FoundRoomStays'
    BY <1>5, <2>1 DEF FoundRoomStays, Knows
  <2> QED BY <2>4, <2>5, <2>6
<1>6. CASE FetchFails(r)
  BY <1>6, RefusedKeeps DEF FetchFails, At
<1>7. CASE Fail(r)
  BY <1>7, AnsweredKeeps DEF Fail, GiveUp
<1> QED BY <1>1, <1>2, <1>3, <1>4, <1>5, <1>6, <1>7 DEF TaskStep

LEMMA DatabaseStepKeeps ==
  ASSUME IInv, NEW r \in Request, DatabaseStep(r) \/ SelectFails(r)
  PROVE  IInv'
<1>1. CASE SelectRoom(r)
  <2>1. request[r] # None /\ reply[r] = None /\ request[r].op = "member"
        /\ request[r].name = "good"
    BY <1>1 DEF SelectRoom, At, IInv, StagesAgree
  <2>2. CASE Knows(request[r])
    BY <1>1, <2>1, <2>2, MovedKeeps DEF SelectRoom, Stage
  <2>3. CASE ~Knows(request[r])
    BY <1>1, <2>1, <2>3, RefusedKeeps DEF SelectRoom
  <2> QED BY <2>2, <2>3
<1>2. CASE InsertMember(r)
  <2>1. /\ request[r] # None /\ reply[r] = None /\ request[r].op = "member"
        /\ request[r].name = "good" /\ Knows(request[r])
    BY <1>2 DEF InsertMember, At, IInv, StagesAgree, FoundRoomStays
  <2>2. Moved(r, "entered")
    BY <1>2, <2>1 DEF InsertMember, Knows
  <2> QED BY <2>1, <2>2, MovedKeeps DEF Stage
<1>3. CASE Discard(r)
  <2>1. request[r] # None /\ Moved(r, "over")
    BY <1>3 DEF Discard, IInv, StagesAgree
  <2> QED BY <2>1, MovedKeeps DEF Stage
<1>4. CASE SelectFails(r)
  BY <1>4, RefusedKeeps DEF SelectFails, At
<1> QED BY <1>1, <1>2, <1>3, <1>4, InsertRoomKeeps, CommitKeeps DEF DatabaseStep

(* The inductive invariant. *)
THEOREM Invariance == AuthSpec => []IInv
<1>1. IInv /\ [AuthNext]_vars => IInv'
  BY Untouched, KeysChangeKeeps, RoomGoesKeeps, ClientStepKeeps, TaskStepKeeps, DatabaseStepKeeps
     DEF AuthNext
<1> QED BY <1>1, InitIInv, PTL DEF AuthSpec

(* A room that a member has found stays until the member is in it. *)
THEOREM FoundStays == AuthSpec => []FoundRoomStays
<1>1. IInv => FoundRoomStays
  BY DEF IInv
<1> QED BY <1>1, Invariance, PTL

--------------------------------------------------------------------------------
(* Every step of auth is one that RoomBook promises, or changes nothing of  *)
(* what RoomBook speaks of.                                                 *)
LEMMA StepRefines ==
  ASSUME IInv, NEW r \in Request,
         \/ ClientStep(r) \/ TaskStep(r) \/ DatabaseStep(r)
         \/ FetchJwks(r) \/ FetchFails(r) \/ SelectFails(r) \/ Fail(r)
  PROVE  Next \/ UNCHANGED book
<1> USE DEF IInv
<1>1. ASSUME NEW a \in Refusals, NEW s, Refused(r, a, s), request[r] # None, reply[r] = None
      PROVE  Next
  <2>1. Refuse(r)
    BY <1>1 DEF Refused, Refuse, tables, authority
  <2> QED BY <2>1 DEF Next
<1>2. \A s : Moved(r, s) => UNCHANGED book
  BY DEF Moved, book
<1>3. CASE ClientStep(r)
  <2>1. \A q \in Requests : Ask(r, q) => Next
    <3> TAKE q \in Requests
    <3> HAVE Ask(r, q)
    <3>1. request'[r] = q
      BY DEF Ask, TypeOK
    <3> QED BY <3>1 DEF Next
  <2>2. \A token \in Key \cup {None}, name \in {"good", "bad"} : ToRoom(token, name) \in Requests
    BY DEF ToRoom, Requests
  <2>3. \A i \in Nat, s \in Nat, name \in {"good", "bad"} : ToMember(i, s, name) \in Requests
    BY DEF ToMember, Requests
  <2>4. \A i \in {0} \cup DOMAIN rooms, s \in {0} \cup {rooms[j] : j \in DOMAIN rooms} :
          i \in Nat /\ s \in Nat
    BY RequestAssumption DEF TypeOK
  <2>5. GiveUp(r, Nobody) => Next
    BY DEF Next
  <2>6. CASE Ask(r, ToMember(0, 0, "bad"))
    BY <2>1, <2>3, <2>6
  <2> QED BY <1>3, <2>1, <2>2, <2>3, <2>4, <2>5, <2>6 DEF ClientStep
<1>4. CASE TaskStep(r)
  <2>1. CASE ValidateToken(r)
    BY <1>1, <1>2, <2>1 DEF ValidateToken, At, Waits, Refusals
  <2>2. CASE CheckLength(r)
    BY <1>1, <2>2 DEF CheckLength, Waits, Refusals
  <2>3. CASE Connect(r)
    BY <1>2, <2>3 DEF Connect
  <2>4. CASE Answer(r)
    BY <2>4 DEF Next
  <2> QED BY <1>4, <2>1, <2>2, <2>3, <2>4 DEF TaskStep
<1>5. CASE FetchJwks(r)
  BY <1>5 DEF FetchJwks
<1>6. CASE FetchFails(r) \/ SelectFails(r)
  BY <1>1, <1>6 DEF FetchFails, SelectFails, At, Waits, Refusals
<1>7. CASE Fail(r)
  BY <1>7 DEF Fail, Next
<1>8. CASE InsertRoom(r)
  <2>1. Create(r)
    <3>1. Open(r, "room") /\ request[r].token \in seen[r]
      BY <1>8 DEF InsertRoom, At, Open, StagesAgree
    <3>2. room_ids' \in Nat /\ room_ids' \notin DOMAIN rooms
          /\ room_ids' \in DOMAIN rooms'
      BY <1>8 DEF InsertRoom, TypeOK
    <3>3. /\ rooms' = [j \in DOMAIN rooms \cup {room_ids'} |-> IF j = room_ids' THEN r ELSE rooms[j]]
          /\ Reply(r, Ok(room_ids'))
          /\ UNCHANGED <<members, authority, request, answer>>
      BY <1>8 DEF InsertRoom
    <3> QED BY <3>1, <3>2, <3>3 DEF Create
  <2> QED BY <2>1 DEF Next
<1>9. CASE SelectRoom(r)
  <2>1. request[r] # None /\ reply[r] = None
    BY <1>9 DEF SelectRoom, At, StagesAgree
  <2> QED BY <1>1, <1>2, <1>9, <2>1 DEF SelectRoom, Refusals
<1>10. CASE InsertMember(r)
  <2>1. GiveUp(r, Failed) => Next
    BY DEF Next
  <2> QED BY <1>2, <1>10, <2>1 DEF InsertMember
<1>11. CASE Commit(r)
  <2>1. Open(r, "member") /\ Knows(request[r])
    BY <1>11 DEF Commit, At, Open, StagesAgree, FoundRoomStays
  <2>2. Enter(r)
    BY <1>11, <2>1 DEF Commit, Enter
  <2> QED BY <2>2 DEF Next
<1>12. CASE Discard(r)
  BY <1>2, <1>12 DEF Discard
<1> QED BY <1>3, <1>4, <1>5, <1>6, <1>7, <1>8, <1>9, <1>10, <1>11, <1>12 DEF DatabaseStep

(* auth keeps the promise of RoomBook. *)
THEOREM KeepsPromise == AuthSpec => ImplementsRoomBook
<1>1. AuthInit => Init
  BY DEF AuthInit
<1>2. IInv /\ [AuthNext]_vars => [Next]_book
  <2> SUFFICES ASSUME IInv, [AuthNext]_vars PROVE Next \/ UNCHANGED book
    OBVIOUS
  <2>1. CASE KeysChange
    BY <2>1 DEF KeysChange, Next
  <2>2. CASE RoomGoes
    BY <2>2 DEF RoomGoes, Next
  <2>3. CASE UNCHANGED vars
    BY <2>3 DEF vars
  <2> QED BY <2>1, <2>2, <2>3, StepRefines DEF AuthNext
<1> QED BY <1>1, <1>2, Invariance, PTL DEF AuthSpec, ImplementsRoomBook, Spec
--------------------------------------------------------------------------------
(* What a step must leave alone of the requests that were made. *)
LEMMA BookKept ==
  ASSUME BookInv, UNCHANGED <<tables, reply>>,
         {DOMAIN request', DOMAIN seen', DOMAIN answer'} = {Request},
         \A r \in Request : request[r] # None => request'[r] = request[r] /\ seen[r] \subseteq seen'[r],
         \A r \in Request : answer'[r] \in {answer[r], Failed, Nobody, reply[r]},
         \A r \in Request : request'[r] = None => request[r] = None
  PROVE  BookInv'
<1> USE DEF BookInv, tables
<1>1. \A r \in Request : reply[r] # None =>
        request'[r] = request[r] /\ seen[r] \subseteq seen'[r]
  OBVIOUS
<1>2. \A i \in Nat : Ok(i) # None
  BY NoneAssumption DEF Ok, Answers
<1>3. EffectsByRight'
  <2>1. ASSUME NEW m \in members'
        PROVE  /\ request'[m.by].op = "member" /\ request'[m.by].name = "good"
               /\ request'[m.by].room = m.room /\ Knows(request[m.by])'
               /\ reply'[m.by] = Ok(m.room)
    <3>1. /\ request[m.by].op = "member" /\ request[m.by].name = "good"
          /\ request[m.by].room = m.room /\ Knows(request[m.by])
          /\ reply[m.by] = Ok(m.room) /\ m.by \in Request
      BY <2>1 DEF EffectsByRight
    <3>2. m.room \in Nat
      BY <3>1 DEF Knows
    <3>3. request'[m.by] = request[m.by]
      BY <1>1, <1>2, <3>1, <3>2
    <3> QED BY <3>1, <3>3 DEF Knows
  <2>2. ASSUME NEW i \in DOMAIN rooms', rooms'[i] # 0
        PROVE  /\ request'[rooms'[i]].op = "room" /\ request'[rooms'[i]].name = "good"
               /\ request'[rooms'[i]].token \in seen'[rooms'[i]]
               /\ reply'[rooms'[i]] = Ok(i)
    <3>1. /\ request[rooms[i]].op = "room" /\ request[rooms[i]].name = "good"
          /\ request[rooms[i]].token \in seen[rooms[i]]
          /\ reply[rooms[i]] = Ok(i) /\ i \in Nat /\ rooms[i] \in Request
      BY <2>2 DEF EffectsByRight
    <3> QED BY <1>1, <1>2, <3>1
  <2>3. \A r \in Request : answer'[r] \in {None, Failed, Nobody, reply'[r]}
    BY DEF EffectsByRight
  <2> QED BY <2>1, <2>2, <2>3 DEF EffectsByRight
<1> QED BY <1>3

(* A request that is replied to: rooms and members stay as they were but    *)
(* for what it has done.                                                    *)
LEMMA BookReplied ==
  ASSUME BookInv, NEW r \in Request, NEW a, Reply(r, a), request[r] # None, reply[r] = None,
         UNCHANGED <<authority, request, answer>>,
         \A i \in DOMAIN rooms : i \in DOMAIN rooms' /\ rooms'[i] = rooms[i],
         \A i \in DOMAIN rooms' \ DOMAIN rooms :
           /\ i \in Nat /\ rooms'[i] = r /\ a = Ok(i)
           /\ request[r].op = "room" /\ request[r].name = "good" /\ request[r].token \in seen[r],
         \A m \in members' \ members :
           /\ m.by = r /\ a = Ok(m.room) /\ request[r].room = m.room /\ Knows(request[r])
           /\ request[r].op = "member" /\ request[r].name = "good"
  PROVE  BookInv'
<1> USE DEF BookInv, authority
<1>1. /\ DOMAIN reply' = Request /\ reply'[r] = a
      /\ \A q \in Request \ {r} : reply'[q] = reply[q]
  BY DEF Reply
<1>2. \A i \in Nat : Ok(i) # None
  BY NoneAssumption DEF Ok, Answers
<1>3. \A q : Knows(q) => Knows(q)'
  BY DEF Knows
<1>4. \A q : Knows(q) => q.room \in Nat
  BY DEF Knows
<1>5. ASSUME NEW m \in members'
      PROVE  /\ m.by \in Request
             /\ request'[m.by].op = "member" /\ request'[m.by].name = "good"
             /\ request'[m.by].room = m.room /\ Knows(request[m.by])'
             /\ reply'[m.by] = Ok(m.room)
  <2>1. CASE m \notin members
    BY <1>1, <1>3, <2>1
  <2>2. CASE m \in members
    <3>1. /\ request[m.by].op = "member" /\ request[m.by].name = "good"
          /\ request[m.by].room = m.room /\ Knows(request[m.by])
          /\ reply[m.by] = Ok(m.room) /\ m.by \in Request
      BY <2>2 DEF EffectsByRight
    <3>2. m.by # r
      BY <1>2, <1>4, <3>1
    <3>3. request' = request
      OBVIOUS
    <3> QED BY <1>1, <1>3, <3>1, <3>2, <3>3
  <2> QED BY <2>1, <2>2
<1>6. ASSUME NEW i \in DOMAIN rooms', rooms'[i] # 0
      PROVE  /\ request'[rooms'[i]].op = "room" /\ request'[rooms'[i]].name = "good"
             /\ request'[rooms'[i]].token \in seen'[rooms'[i]]
             /\ reply'[rooms'[i]] = Ok(i)
  <2>1. CASE i \notin DOMAIN rooms
    BY <1>1, <2>1
  <2>2. CASE i \in DOMAIN rooms
    <3>1. /\ request[rooms[i]].op = "room" /\ request[rooms[i]].name = "good"
          /\ request[rooms[i]].token \in seen[rooms[i]]
          /\ reply[rooms[i]] = Ok(i) /\ i \in Nat /\ rooms[i] \in Request /\ rooms'[i] = rooms[i]
      BY <1>6, <2>2 DEF EffectsByRight
    <3>2. rooms[i] # r
      BY <1>2, <3>1
    <3> QED BY <1>1, <3>1, <3>2
  <2> QED BY <2>1, <2>2
<1>7. \A q \in Request : answer'[q] \in {None, Failed, Nobody, reply'[q]}
  BY <1>1 DEF EffectsByRight
<1>8. EffectsByRight'
  BY <1>5, <1>6, <1>7 DEF EffectsByRight
<1>9. \A i \in DOMAIN rooms' : i \in Nat /\ rooms'[i] \in {0} \cup Request
  OBVIOUS
<1>10. \A q \in Request : request'[q] = None => reply'[q] = None
  BY <1>1
<1> QED BY <1>1, <1>5, <1>8, <1>9, <1>10

LEMMA BookRemoved ==
  ASSUME BookInv, NEW i \in DOMAIN rooms, RemoveRoom(i)
  PROVE  BookInv'
<1> USE DEF BookInv, RemoveRoom, authority, clients
<1>1. /\ DOMAIN rooms' = DOMAIN rooms \ {i}
      /\ \A j \in DOMAIN rooms \ {i} : rooms'[j] = rooms[j]
  OBVIOUS
<1>2. \A q : Knows(q) /\ q.room # i => Knows(q)'
  BY <1>1 DEF Knows
<1>3. EffectsByRight'
  BY <1>1, <1>2 DEF EffectsByRight
<1> QED BY <1>1, <1>3

(* The book keeps the right of everything that is in it. *)
LEMMA BookInvariance == Spec => []BookInv
<1>1. Init => BookInv
  BY DEF Init, BookInv, EffectsByRight
<1>2. BookInv /\ [Next]_book => BookInv'
  <2> SUFFICES ASSUME BookInv, [Next]_book PROVE BookInv'
    OBVIOUS
  <2> USE DEF BookInv
  <2>1. ASSUME NEW ks \in SUBSET Key, Publish(ks) PROVE BookInv'
    <3>1. UNCHANGED <<tables, reply>> /\ UNCHANGED <<request, answer>>
      BY <2>1 DEF Publish, clients
    <3>2. /\ DOMAIN seen' = Request
          /\ \A r \in Request : request[r] # None => seen[r] \subseteq seen'[r]
      BY <2>1 DEF Publish
    <3> QED BY <3>1, <3>2, BookKept
  <2>2. ASSUME NEW i \in DOMAIN rooms, RemoveRoom(i) PROVE BookInv'
    BY <2>2, BookRemoved
  <2>3. ASSUME NEW r \in Request, request'[r] \in Requests, Ask(r, request'[r]) PROVE BookInv'
    <3>1. UNCHANGED <<tables, reply, answer>>
      BY <2>3 DEF Ask
    <3>2. /\ DOMAIN request' = Request /\ DOMAIN seen' = Request
          /\ \A q \in Request \ {r} : request'[q] = request[q] /\ seen'[q] = seen[q]
          /\ request[r] = None
      BY <2>3 DEF Ask
    <3> QED BY <3>1, <3>2, BookKept
  <2>4. ASSUME NEW r \in Request, Answer(r) \/ GiveUp(r, Failed) \/ GiveUp(r, Nobody)
        PROVE  BookInv'
    <3>1. UNCHANGED <<tables, reply>> /\ UNCHANGED <<request, seen>>
      BY <2>4 DEF Answer, GiveUp, authority
    <3>2. /\ DOMAIN answer' = Request
          /\ \A q \in Request : answer'[q] \in {answer[q], Failed, Nobody, reply[q]}
      BY <2>4 DEF Answer, GiveUp
    <3> QED BY <3>1, <3>2, BookKept
  <2>5. ASSUME NEW r \in Request, Create(r) PROVE BookInv'
    <3>1. PICK i \in DOMAIN rooms' \ DOMAIN rooms :
            /\ i \in Nat
            /\ rooms' = [j \in DOMAIN rooms \cup {i} |-> IF j = i THEN r ELSE rooms[j]]
            /\ Reply(r, Ok(i))
      BY <2>5 DEF Create
    <3>2. /\ \A j \in DOMAIN rooms : j \in DOMAIN rooms' /\ rooms'[j] = rooms[j]
          /\ \A j \in DOMAIN rooms' \ DOMAIN rooms : j = i /\ rooms'[j] = r
      BY <3>1
    <3> QED BY <2>5, <3>1, <3>2, BookReplied DEF Create, Open
  <2>6. ASSUME NEW r \in Request, Enter(r) PROVE BookInv'
    BY <2>6, BookReplied DEF Enter, Open
  <2>7. ASSUME NEW r \in Request, Refuse(r) PROVE BookInv'
    BY <2>7, BookReplied DEF Refuse, tables
  <2>8. CASE UNCHANGED book
    BY <2>8, BookKept DEF book, authority, clients
  <2> QED BY <2>1, <2>2, <2>3, <2>4, <2>5, <2>6, <2>7, <2>8 DEF Next
<1> QED BY <1>1, <1>2, PTL DEF Spec

(* And so does auth, since it keeps the book's promise: nothing is created  *)
(* or entered but by right, and what a client is told has happened.         *)
THEOREM NothingButByRight == AuthSpec => []EffectsByRight
<1>1. BookInv => EffectsByRight
  BY DEF BookInv
<1> QED BY <1>1, KeepsPromise, BookInvariance, PTL DEF ImplementsRoomBook
================================================================================
