------------------------------- MODULE CrudProofs -------------------------------
(* Theorems about Crud, for any number of requests, ids and connections. *)
EXTENDS Crud, TLAPS

(* Tables stay tables. *)
LEMMA WithIsTable ==
  ASSUME NEW f, IsTable(f), NEW i \in Nat, NEW b \in Body
  PROVE  IsTable(With(f, i, b)) /\ DOMAIN With(f, i, b) = DOMAIN f \cup {i}
BY DEF IsTable, With

LEMMA WithoutIsTable ==
  ASSUME NEW f, IsTable(f), NEW i
  PROVE  IsTable(Without(f, i)) /\ DOMAIN Without(f, i) = DOMAIN f \ {i}
BY DEF IsTable, Without

(* What is not there need not be taken away. *)
LEMMA WithoutNothing ==
  ASSUME NEW f, IsTable(f), NEW i, i \notin DOMAIN f
  PROVE  Without(f, i) = f
BY DEF IsTable, Without

LEMMA OneIsTable ==
  ASSUME NEW i \in Nat, NEW b \in Body
  PROVE  IsTable(One(i, b))
BY DEF IsTable, One

(* What the store replies: a code and a table. *)
IsReply(a) == a.code \in {200, 404} /\ IsTable(a.employees)

LEMMA OkIsReply ==
  ASSUME NEW f, IsTable(f)
  PROVE  IsReply(Ok(f))
BY DEF IsReply, Ok

LEMMA NotFoundIsReply == IsReply(NotFound)
<1>1. DOMAIN << >> = {}
  OBVIOUS
<1>2. IsTable(<< >>)
  BY <1>1 DEF IsTable
<1> QED BY <1>2 DEF IsReply, NotFound

LEMMA FoundIsReply ==
  ASSUME NEW f, IsTable(f), NEW i
  PROVE  IsReply(FoundOr404(f, i))
<1>1. CASE i \in DOMAIN f
  <2>1. i \in Nat /\ f[i] \in Body
    BY <1>1 DEF IsTable
  <2> QED BY <1>1, <2>1, OneIsTable, OkIsReply DEF FoundOr404
<1>2. CASE i \notin DOMAIN f
  BY <1>2, NotFoundIsReply DEF FoundOr404
<1> QED BY <1>1, <1>2

(* What a request asks for has the types of its operation. *)
LEMMA Typed ==
  ASSUME RequestsOK, NEW r \in Request, request[r] # None
  PROVE  /\ request[r].op \in {"get", "put", "delete"} => request[r].id \in Id /\ request[r].id \in Nat
         /\ request[r].op \in {"post", "put"} => request[r].body \in Body
<1>1. request[r] \in Routed
  BY DEF RequestsOK
<1> QED BY <1>1, ConstantsAssumption DEF Routed

LEMMA RouteIsRouted ==
  ASSUME NEW m \in {"GET", "POST", "PUT", "DELETE"},
         NEW id \in Id \cup {None}, NEW body \in Body \cup {None}
  PROVE  Route(m, id, body) \in Routed
BY DEF Route, Routed, Op

--------------------------------------------------------------------------------
(* A step that replies to one request, and changes the store or not, keeps  *)
(* what is known of requests.                                               *)
LEMMA Replied ==
  ASSUME RequestsOK, NEW r \in Request, request[r] # None, reply[r] = None,
         NEW a, IsReply(a), Reply(r, a), UNCHANGED <<request, answer>>,
         used' \subseteq Nat, IsTable(employees'), DOMAIN employees' \subseteq used'
  PROVE  RequestsOK'
<1>1. /\ DOMAIN reply' = Request
      /\ reply'[r] = a
      /\ \A q \in Request \ {r} : reply'[q] = reply[q]
  BY DEF RequestsOK, Reply
<1>2. \A q \in Request : answer'[q] \in {None, Failed, Nobody, reply'[q]}
  BY <1>1 DEF RequestsOK
<1>3. IsTable(employees)' /\ \A q \in Request : reply'[q] # None => IsTable(reply'[q].employees)
  BY <1>1 DEF RequestsOK, IsReply, IsTable
<1> QED BY <1>1, <1>2, <1>3 DEF RequestsOK, IsReply, IsTable

(* A step that answers one client keeps it, too. *)
LEMMA Answered ==
  ASSUME RequestsOK, NEW r \in Request, request[r] # None,
         NEW a \in {Failed, Nobody, reply[r]}, answer' = [answer EXCEPT ![r] = a],
         UNCHANGED <<store, request, reply>>
  PROVE  RequestsOK'
BY DEF RequestsOK, IsTable, store

LEMMA Untouched ==
  ASSUME RequestsOK, UNCHANGED shared
  PROVE  RequestsOK'
BY DEF RequestsOK, IsTable, shared, store, clients

--------------------------------------------------------------------------------
LEMMA InitStepInv == Init => StepInv
<1> SUFFICES ASSUME Init PROVE StepInv
  OBVIOUS
<1>1. IsTable(employees) /\ id_counter \in Nat /\ {sequence, max_open} \subseteq Nat
      /\ program \in {"simple", "with_postgres"}
      /\ (program = "simple" => DOMAIN employees \subseteq 0 .. id_counter)
      /\ (program = "with_postgres" => DOMAIN employees \subseteq 0 .. sequence)
  <2>1. CASE program = "simple" /\ SimpleInit /\ sequence = 0 /\ max_open = 0
    BY <2>1 DEF SimpleInit, IsTable
  <2>2. CASE program = "with_postgres" /\ PgInit /\ id_counter = 0
    <3>1. PICK ids \in SUBSET (1 .. MaxStored) : employees \in [ids -> Body]
      BY <2>2 DEF PgInit
    <3> QED BY <2>2, <3>1, PostgresAssumption DEF PgInit, IsTable
  <2> QED BY <2>1, <2>2 DEF Init
<1>2. RequestsInit /\ SimpleRequestsInit /\ PgRequestsInit
  BY DEF Init
<1>3. RequestsOK
  BY <1>1, <1>2 DEF RequestsInit, RequestsOK, IsTable
<1>4. TypeOK
  BY <1>1, <1>2, <1>3 DEF TypeOK, SimpleOK, SimpleRequestsInit, PgRequestsInit, Stage
<1>5. /\ used = DOMAIN employees /\ db = {}
      /\ \A r \in Request : stage[r] = "waiting" /\ reply[r] = None /\ new_id[r] = None
  BY <1>2 DEF RequestsInit, SimpleRequestsInit, PgRequestsInit
<1> QED BY <1>1, <1>4, <1>5 DEF StepInv, IdsAreFresh, StagesAgree, MapIsHeld, FoundStays, Locks

(* A client's step moves nothing at the database. *)
LEMMA ClientKeeps ==
  ASSUME StepInv, NEW r \in Request, Client(r)
  PROVE  StepInv'
<1> USE DEF StepInv
<1>1. RequestsOK /\ UNCHANGED <<store, program, simple, pg>>
  BY DEF TypeOK, Client, ClientStep, Ask, Reject, Answer, HangUp
<1>2. ASSUME NEW m \in {"GET", "POST", "PUT", "DELETE"},
             NEW id \in Id \cup {None}, NEW body \in Body \cup {None}, Ask(r, m, id, body)
      PROVE  StepInv'
  <2>2. \A q \in Request : request[q] # None => request'[q] = request[q]
    BY <1>1, <1>2 DEF Ask, RequestsOK
  <2>3. UNCHANGED <<employees, used, reply, answer>>
    BY <1>2 DEF Ask, store
  <2>4. request' \in [Request -> Routed \cup {None}]
    BY <1>1, <1>2, RouteIsRouted DEF Ask, RequestsOK
  <2>1. RequestsOK'
    BY <1>1, <2>2, <2>3, <2>4 DEF RequestsOK, IsTable
  <2>5. StagesAgree' /\ FoundStays'
    BY <1>1, <2>2, <2>3, RouteIsRouted DEF StagesAgree, FoundStays, pg, simple, Locks, RequestsOK
  <2>6. MapIsHeld'
    BY <1>1, <2>2, <2>3 DEF MapIsHeld, simple, TypeOK, SimpleOK
  <2> QED BY <1>1, <2>1, <2>3, <2>5, <2>6 DEF TypeOK, SimpleOK, IdsAreFresh, pg, simple
<1>3. CASE Reject(r) \/ Answer(r) \/ HangUp(r)
  <2>1. RequestsOK'
    <3>1. CASE Reject(r)
      BY <1>1, <3>1, Answered DEF Reject
    <3>2. CASE Answer(r)
      <4>1. request[r] # None
        BY <1>1, <3>2 DEF Answer, RequestsOK
      <4> QED BY <1>1, <3>2, <4>1, Answered DEF Answer
    <3>3. CASE HangUp(r)
      BY <1>1, <3>3, Answered DEF HangUp
    <3> QED BY <1>3, <3>1, <3>2, <3>3
  <2>2. UNCHANGED <<employees, used, request, reply>>
    BY <1>3 DEF Reject, Answer, HangUp, store
  <2> QED BY <1>1, <2>1, <2>2 DEF TypeOK, SimpleOK, IdsAreFresh, StagesAgree, MapIsHeld, FoundStays, pg, simple, Locks
<1> QED BY <1>2, <1>3 DEF Client, ClientStep

(* In memory, nothing waits at a database. *)
LEMMA SimpleRest ==
  ASSUME StepInv, NEW r \in Request, Simple(r),
         RequestsOK', used' \subseteq 0 .. id_counter', SimpleOK', MapIsHeld'
  PROVE  StepInv'
<1>1. program = "simple" /\ UNCHANGED <<program, max_open, sequence, stage, number>>
  BY DEF Simple, pg
<1>2. \A q \in Request : stage[q] = "waiting" /\ stage'[q] = "waiting"
  BY <1>1 DEF StepInv, StagesAgree
<1>3. TypeOK' /\ IdsAreFresh'
  BY <1>1, <1>2 DEF StepInv, TypeOK, IdsAreFresh
<1> QED BY <1>1, <1>2, <1>3 DEF StepInv, StagesAgree, FoundStays, Locks

(* A handler that returns leaves the map to the others. *)
LEMMA Returned ==
  ASSUME StepInv, NEW r \in Request, Simple(r), r \in db,
         NEW a, IsReply(a), Return(r, a), id_counter' = id_counter,
         used' \subseteq 0 .. id_counter, IsTable(employees'), DOMAIN employees' \subseteq used'
  PROVE  StepInv'
<1>1. RequestsOK /\ SimpleOK /\ request[r] # None /\ reply[r] = None /\ \A q \in db : q = r
  BY DEF StepInv, TypeOK, MapIsHeld
<1>2. used' \subseteq Nat
  BY <1>1 DEF SimpleOK
<1>3. RequestsOK'
  BY <1>1, <1>2, Replied DEF Return
<1>4. db' = {} /\ SimpleOK' /\ \A q \in Request : new_id'[q] = None
  BY <1>1 DEF Return, SimpleOK, StepInv, MapIsHeld
<1>5. MapIsHeld'
  BY <1>4 DEF MapIsHeld
<1> QED BY <1>3, <1>4, <1>5, SimpleRest

LEMMA SimpleKeeps ==
  ASSUME StepInv, NEW r \in Request, Simple(r)
  PROVE  StepInv'
<1>1. RequestsOK /\ SimpleOK /\ used \subseteq 0 .. id_counter /\ id_counter \in Nat
  BY DEF StepInv, TypeOK, SimpleOK, IdsAreFresh, Simple
<1>2. IsTable(employees) /\ DOMAIN employees \subseteq used /\ used \subseteq Nat
  BY <1>1 DEF RequestsOK
<1>3. /\ r \in db => request[r] # None /\ reply[r] = None
      /\ \A q \in Request : r \in db /\ q # r => new_id[q] = None
  BY DEF StepInv, MapIsHeld
<1>4. ASSUME NEW a, IsReply(a), Return(r, a), r \in db, UNCHANGED <<store, id_counter>>
      PROVE  StepInv'
  <2>1. IsTable(employees') /\ DOMAIN employees' \subseteq used' /\ used' \subseteq 0 .. id_counter
    BY <1>1, <1>2, <1>4 DEF store, IsTable
  <2> QED BY <1>4, <2>1, Returned
<1>5. ASSUME UNCHANGED shared, SimpleOK', id_counter' \in {id_counter, id_counter + 1}, MapIsHeld'
      PROVE  StepInv'
  <2>1. RequestsOK' /\ used' = used
    BY <1>1, <1>5, Untouched DEF shared, store
  <2>2. used' \subseteq 0 .. id_counter'
    BY <1>1, <1>5, <2>1
  <2> QED BY <1>5, <2>1, <2>2, SimpleRest
<1>6. CASE LockDb(r)
  <2>1. db = {} /\ db' = {r} /\ UNCHANGED <<shared, id_counter, new_id>> /\ request[r] # None /\ reply[r] = None
    BY <1>6 DEF LockDb, Handles
  <2>2. \A q \in Request : new_id'[q] = None
    BY <2>1 DEF StepInv, MapIsHeld
  <2>3. MapIsHeld' /\ SimpleOK'
    BY <1>1, <2>1, <2>2 DEF MapIsHeld, SimpleOK, shared, clients
  <2> QED BY <1>5, <2>1, <2>3
<1>7. CASE GetEmployee(r)
  BY <1>2, <1>4, <1>7, FoundIsReply DEF GetEmployee, Runs
<1>8. CASE GetAllEmployees(r)
  BY <1>2, <1>4, <1>8, OkIsReply DEF GetAllEmployees, Runs
<1>9. CASE Generate(r)
  <2>1. /\ r \in db /\ request[r].op = "post" /\ UNCHANGED <<shared, db>>
        /\ id_counter' = id_counter + 1 /\ new_id' = [new_id EXCEPT ![r] = id_counter + 1]
    BY <1>9 DEF Generate, Runs
  <2>2. new_id'[r] = id_counter + 1 /\ \A q \in Request \ {r} : new_id'[q] = None
    BY <1>1, <1>3, <2>1 DEF SimpleOK
  <2>3. id_counter + 1 \in (0 .. id_counter') \ used
    BY <1>1, <2>1
  <2>4. UNCHANGED <<request, reply, employees, used>>
    BY <2>1 DEF shared, store, clients
  <2>5. MapIsHeld'
    BY <2>1, <2>2, <2>3, <2>4 DEF MapIsHeld, StepInv
  <2>6. SimpleOK'
    BY <1>1, <2>1 DEF SimpleOK
  <2> QED BY <1>5, <2>1, <2>5, <2>6
<1>10. CASE Find(r)
  <2>1. r \in db /\ request[r].op = "put" /\ UNCHANGED id_counter
    BY <1>10 DEF Find, Runs
  <2>2. CASE request[r].id \notin DOMAIN employees
    BY <1>4, <1>10, <2>1, <2>2, NotFoundIsReply DEF Find
  <2>3. CASE request[r].id \in DOMAIN employees
    <3>1. new_id' = [new_id EXCEPT ![r] = request[r].id] /\ UNCHANGED <<shared, db>>
      BY <1>10, <2>3 DEF Find
    <3>2. request[r].id \in Nat
      BY <1>1, <1>3, <2>1, Typed
    <3>3. new_id'[r] = request[r].id /\ \A q \in Request \ {r} : new_id'[q] = None
      BY <1>1, <1>3, <2>1, <3>1 DEF SimpleOK
    <3>4. UNCHANGED <<request, reply, employees, used>>
      BY <3>1 DEF shared, store, clients
    <3>5. MapIsHeld'
      BY <2>1, <2>3, <3>1, <3>3, <3>4 DEF MapIsHeld, StepInv
    <3>6. SimpleOK'
      BY <1>1, <2>1, <3>1, <3>2 DEF SimpleOK
    <3> QED BY <1>5, <2>1, <3>1, <3>5, <3>6
  <2> QED BY <2>2, <2>3
<1>11. CASE InsertEmployee(r)
  <2> DEFINE i == new_id[r]
             b == request[r].body
  <2>1. /\ r \in db /\ UNCHANGED id_counter /\ Return(r, Ok(One(i, b)))
        /\ employees' = With(employees, i, b) /\ used' = used \cup {i}
    BY <1>11 DEF InsertEmployee
  <2>2. /\ request[r].op \in {"post", "put"}
        /\ i \in 0 .. id_counter \/ i \in DOMAIN employees
    BY <1>11 DEF InsertEmployee, StepInv, MapIsHeld
  <2>3. b \in Body /\ i \in Nat /\ i \in 0 .. id_counter
    <3>1. b \in Body
      BY <1>1, <1>3, <2>1, <2>2, Typed
    <3>2. i \in 0 .. id_counter
      BY <1>1, <1>2, <2>2
    <3> QED BY <1>1, <3>1, <3>2
  <2>4. IsReply(Ok(One(i, b)))
    BY <2>3, OneIsTable, OkIsReply
  <2> HIDE DEF i, b
  <2>5. IsTable(With(employees, i, b)) /\ DOMAIN With(employees, i, b) = DOMAIN employees \cup {i}
    BY <1>2, <2>3, WithIsTable
  <2>6. IsTable(employees') /\ DOMAIN employees' \subseteq used' /\ used' \subseteq 0 .. id_counter
    BY <1>1, <1>2, <2>1, <2>3, <2>5
  <2> QED BY <2>1, <2>4, <2>6, Returned
<1>12. CASE DeleteEmployee(r)
  <2>1. IsReply(FoundOr404(employees, request[r].id))
    BY <1>2, FoundIsReply
  <2>2. /\ r \in db /\ employees' = Without(employees, request[r].id) /\ UNCHANGED <<used, id_counter>>
        /\ Return(r, FoundOr404(employees, request[r].id))
    BY <1>12 DEF DeleteEmployee, Runs
  <2>3. IsTable(employees') /\ DOMAIN employees' \subseteq used'
    BY <1>2, <2>2, WithoutIsTable
  <2> QED BY <1>1, <2>1, <2>2, <2>3, Returned
<1> QED BY <1>6, <1>7, <1>8, <1>9, <1>10, <1>11, <1>12 DEF Simple, SimpleStep

--------------------------------------------------------------------------------
(* What a request's move from one stage to another leaves to be shown. *)
LEMMA PgMoves ==
  ASSUME StepInv, program = "with_postgres", UNCHANGED <<program, simple, max_open, request>>,
         NEW r \in Request, request[r] # None, NEW s \in Stage, Goto(r, s),
         RequestsOK', sequence' \in Nat, number' \in [Request -> Nat],
         \A q \in Request \ {r} : reply'[q] = reply[q],
         s # "over" => reply'[r] = None,
         s \in {"found", "updated"} => request[r].op = "put"
  PROVE  /\ stage'[r] = s /\ \A q \in Request \ {r} : stage'[q] = stage[q]
         /\ TypeOK' /\ StagesAgree' /\ MapIsHeld'
<1>1. /\ stage' \in [Request -> Stage]
      /\ stage'[r] = s /\ \A q \in Request \ {r} : stage'[q] = stage[q]
  BY DEF StepInv, TypeOK, Goto
<1>2. TypeOK'
  BY <1>1 DEF StepInv, TypeOK, SimpleOK, simple
<1>3. StagesAgree'
  BY <1>1 DEF StepInv, StagesAgree, Locks, simple
<1>4. db = {} /\ db' = {} /\ new_id' = new_id
  BY DEF StepInv, StagesAgree, simple
<1>5. MapIsHeld'
  BY <1>4 DEF StepInv, MapIsHeld
<1> QED BY <1>1, <1>2, <1>3, <1>5

(* A move that gives no id, and takes no row that is locked, keeps the rest. *)
LEMMA PgKeepsIds ==
  ASSUME StepInv, program = "with_postgres", UNCHANGED <<program, simple, sequence, number, used, request>>,
         NEW r \in Request, NEW s \in Stage \ {"numbered"},
         stage'[r] = s /\ \A q \in Request \ {r} : stage'[q] = stage[q],
         s \in {"found", "updated"} => request[r].id \in DOMAIN employees',
         \A q \in Request \ {r} : Locks(q) => request[q].id \in DOMAIN employees'
  PROVE  IdsAreFresh' /\ FoundStays'
<1>1. IdsAreFresh'
  BY DEF StepInv, IdsAreFresh, simple
<1>2. FoundStays'
  BY DEF FoundStays, Locks
<1> QED BY <1>1, <1>2

(* A read, or whatever changes no table, is such a move. *)
LEMMA PgReads ==
  ASSUME StepInv, program = "with_postgres", UNCHANGED <<program, simple, max_open, sequence, number, request>>,
         NEW r \in Request, request[r] # None, NEW s \in Stage \ {"numbered"}, Goto(r, s),
         RequestsOK', UNCHANGED store,
         \A q \in Request \ {r} : reply'[q] = reply[q],
         s # "over" => reply'[r] = None,
         s \in {"found", "updated"} => request[r].op = "put" /\ request[r].id \in DOMAIN employees
  PROVE  StepInv'
<1>1. /\ stage'[r] = s /\ \A q \in Request \ {r} : stage'[q] = stage[q]
      /\ TypeOK' /\ StagesAgree' /\ MapIsHeld'
  BY PgMoves DEF StepInv, TypeOK
<1>2. \A q \in Request : Locks(q) => request[q].id \in DOMAIN employees
  BY DEF StepInv, FoundStays, Locks
<1>3. IdsAreFresh' /\ FoundStays'
  BY <1>1, <1>2, PgKeepsIds DEF store
<1> QED BY <1>1, <1>3 DEF StepInv

LEMMA PgKeeps ==
  ASSUME StepInv, NEW r \in Request, Postgres(r)
  PROVE  StepInv'
<1>1. /\ program = "with_postgres" /\ UNCHANGED <<program, simple>>
      /\ RequestsOK
      /\ sequence \in Nat /\ number \in [Request -> Nat]
      /\ IsTable(employees) /\ DOMAIN employees \subseteq used /\ used \subseteq 0 .. sequence
  BY DEF StepInv, TypeOK, RequestsOK, IdsAreFresh, Postgres
<1>2. \A q \in Request : Locks(q) => request[q].id \in DOMAIN employees
  BY DEF StepInv, FoundStays, Locks
<1>3. \A q \in Request : stage[q] # "over" => reply[q] = None
  BY <1>1 DEF StepInv, StagesAgree
<1>4. \A a : Reply(r, a) => \A q \in Request \ {r} : reply'[q] = reply[q]
  BY <1>1 DEF Reply, RequestsOK
<1>5. Stage = {"waiting", "sent", "numbered", "found", "updated", "over"}
  BY DEF Stage
<1>6. CASE Connect(r)
  <2>1. RequestsOK'
    BY <1>1, <1>6, Untouched DEF Connect
  <2> QED BY <1>1, <1>3, <1>5, <1>6, <2>1, PgReads DEF Connect, shared, clients
<1>7. CASE Fail(r)
  <2>1. RequestsOK'
    BY <1>1, <1>7, Answered DEF Fail
  <2> QED BY <1>1, <1>7, <2>1 DEF Fail, store, pg, simple, StepInv, TypeOK, SimpleOK, IdsAreFresh, StagesAgree, MapIsHeld, FoundStays, Locks
<1>8. ASSUME NEW a, IsReply(a), Reply(r, a), request[r] # None, stage[r] # "over", Goto(r, "over"),
             UNCHANGED <<store, request, answer, max_open, sequence, number>>
      PROVE  StepInv'
  <2>1. RequestsOK'
    BY <1>1, <1>3, <1>8, Replied DEF store, IsTable, RequestsOK
  <2> QED BY <1>1, <1>4, <1>5, <1>8, <2>1, PgReads
<1>9. CASE FindById(r)
  BY <1>1, <1>8, <1>9, FoundIsReply DEF FindById, Executes
<1>10. CASE FindAll(r)
  BY <1>1, <1>8, <1>10, OkIsReply DEF FindAll, Executes
<1>11. CASE NextVal(r)
  <2>1. RequestsOK' /\ UNCHANGED <<employees, used, request, reply>>
    BY <1>1, <1>11, Untouched DEF NextVal, shared, store, clients
  <2>2. /\ request[r] # None /\ stage[r] = "sent" /\ Goto(r, "numbered") /\ max_open' = max_open
        /\ sequence' = sequence + 1 /\ number' = [number EXCEPT ![r] = sequence + 1]
    BY <1>11 DEF NextVal, Executes
  <2>3. sequence' \in Nat /\ number' \in [Request -> Nat]
    BY <1>1, <2>2
  <2>4. /\ stage'[r] = "numbered" /\ \A q \in Request \ {r} : stage'[q] = stage[q]
        /\ TypeOK' /\ StagesAgree' /\ MapIsHeld'
    BY <1>1, <1>3, <1>5, <2>1, <2>2, <2>3, PgMoves
  <2>5. number'[r] = sequence + 1 /\ \A q \in Request \ {r} : number'[q] = number[q]
    BY <1>1, <2>2
  <2>6. \A q \in Request : stage[q] = "numbered" => number[q] \in (0 .. sequence) \ used
    BY DEF StepInv, IdsAreFresh
  <2>7. IdsAreFresh'
    BY <1>1, <2>1, <2>2, <2>4, <2>5, <2>6 DEF StepInv, IdsAreFresh
  <2>8. FoundStays'
    BY <2>1, <2>4 DEF StepInv, FoundStays
  <2> QED BY <2>4, <2>7, <2>8 DEF StepInv
<1>12. CASE Insert(r)
  <2>1. /\ request[r] # None /\ stage[r] = "numbered" /\ Goto(r, "over") /\ request[r].op = "post"
        /\ UNCHANGED <<request, answer, max_open, sequence, number>>
        /\ used' = used \cup {number[r]}
        /\ employees' = With(employees, number[r], request[r].body)
        /\ Reply(r, Ok(One(number[r], request[r].body)))
    BY <1>12 DEF Insert, Executes
  <2>2. number[r] \in 0 .. sequence /\ number[r] \in Nat /\ request[r].body \in Body
    <3>1. number[r] \in 0 .. sequence
      BY <2>1 DEF StepInv, IdsAreFresh
    <3>2. request[r].body \in Body
      BY <1>1, <2>1, Typed
    <3> QED BY <1>1, <3>1, <3>2
  <2>3. IsTable(employees') /\ DOMAIN employees' = DOMAIN employees \cup {number[r]}
    BY <1>1, <2>1, <2>2, WithIsTable
  <2>4. RequestsOK'
    <3>1. IsReply(Ok(One(number[r], request[r].body)))
      BY <2>2, OneIsTable, OkIsReply
    <3>2. used' \subseteq Nat /\ DOMAIN employees' \subseteq used'
      <4>1. used \subseteq Nat
        BY <1>1 DEF RequestsOK
      <4>2. used' = used \cup {number[r]}
        BY <2>1
      <4> QED BY <1>1, <2>2, <2>3, <4>1, <4>2
    <3> QED BY <1>1, <1>3, <2>1, <2>3, <3>1, <3>2, Replied
  <2>5. /\ stage'[r] = "over" /\ \A q \in Request \ {r} : stage'[q] = stage[q]
        /\ TypeOK' /\ StagesAgree' /\ MapIsHeld'
    BY <1>1, <1>4, <1>5, <2>1, <2>4, PgMoves
  <2>6. IdsAreFresh'
    BY <1>1, <2>1, <2>2, <2>5 DEF StepInv, IdsAreFresh
  <2>7. FoundStays'
    BY <2>1, <2>3, <2>5 DEF StepInv, FoundStays
  <2> QED BY <2>5, <2>6, <2>7 DEF StepInv
<1>13. CASE DeleteById(r)
  <2>1. /\ request[r] # None /\ stage[r] = "sent" /\ Goto(r, "over") /\ request[r].op = "delete"
        /\ UNCHANGED <<request, answer, used, max_open, sequence, number>>
        /\ employees' = Without(employees, request[r].id)
        /\ Reply(r, FoundOr404(employees, request[r].id))
    BY <1>13 DEF DeleteById, Executes
  <2>2. IsTable(employees') /\ DOMAIN employees' = DOMAIN employees \ {request[r].id}
    BY <1>1, <2>1, WithoutIsTable
  <2>3. RequestsOK'
    BY <1>1, <1>3, <2>1, <2>2, FoundIsReply, Replied DEF RequestsOK
  <2>4. /\ stage'[r] = "over" /\ \A q \in Request \ {r} : stage'[q] = stage[q]
        /\ TypeOK' /\ StagesAgree' /\ MapIsHeld'
    BY <1>1, <1>4, <1>5, <2>1, <2>3, PgMoves
  <2>5. \A q \in Request \ {r} : Locks(q) => request[q].id \in DOMAIN employees'
    BY <1>2, <1>13, <2>2 DEF DeleteById, Locked
  <2>6. IdsAreFresh' /\ FoundStays'
    BY <1>1, <1>5, <2>1, <2>4, <2>5, PgKeepsIds
  <2> QED BY <2>4, <2>6 DEF StepInv
<1>14. CASE SelectForUpdate(r)
  <2>1. CASE request[r].id \in DOMAIN employees
    <3>1. UNCHANGED shared
      BY <1>14, <2>1 DEF SelectForUpdate, shared, clients, store
    <3>2. RequestsOK'
      BY <1>1, <3>1, Untouched
    <3> QED BY <1>1, <1>3, <1>5, <1>14, <2>1, <3>1, <3>2, PgReads DEF SelectForUpdate, Executes, shared, clients
  <2>2. CASE request[r].id \notin DOMAIN employees
    BY <1>8, <1>14, <2>2, NotFoundIsReply DEF SelectForUpdate, Executes
  <2> QED BY <2>1, <2>2
<1>15. CASE Update(r)
  <2>1. request[r].id \in DOMAIN employees
    BY <1>2, <1>15 DEF Update, Executes, Locks
  <2>2. UNCHANGED shared
    BY <1>15, <2>1 DEF Update, shared, clients, store
  <2>3. RequestsOK'
    BY <1>1, <2>2, Untouched
  <2> QED BY <1>1, <1>3, <1>5, <1>15, <2>1, <2>2, <2>3, PgReads DEF Update, Executes, shared, clients
<1>16. CASE Commit(r)
  <2>1. /\ request[r] # None /\ stage[r] = "updated" /\ Goto(r, "over") /\ request[r].op = "put"
        /\ UNCHANGED <<request, answer, used, max_open, sequence, number>>
        /\ employees' = With(employees, request[r].id, request[r].body)
        /\ Reply(r, Ok(One(request[r].id, request[r].body)))
    BY <1>16 DEF Commit, Executes
  <2>2. request[r].id \in Nat /\ request[r].id \in DOMAIN employees /\ request[r].body \in Body
    BY <1>1, <1>2, <2>1, Typed DEF Locks
  <2>3. IsTable(employees') /\ DOMAIN employees' = DOMAIN employees
    <3>1. /\ IsTable(With(employees, request[r].id, request[r].body))
          /\ DOMAIN With(employees, request[r].id, request[r].body)
               = DOMAIN employees \cup {request[r].id}
      BY <1>1, <2>2, WithIsTable
    <3> QED BY <2>1, <2>2, <3>1
  <2>4. RequestsOK'
    <3>1. IsReply(Ok(One(request[r].id, request[r].body)))
      BY <2>2, OneIsTable, OkIsReply
    <3> QED BY <1>1, <1>3, <2>1, <2>3, <3>1, Replied DEF RequestsOK
  <2>5. /\ stage'[r] = "over" /\ \A q \in Request \ {r} : stage'[q] = stage[q]
        /\ TypeOK' /\ StagesAgree' /\ MapIsHeld'
    BY <1>1, <1>4, <1>5, <2>1, <2>4, PgMoves
  <2>6. IdsAreFresh' /\ FoundStays'
    BY <1>1, <1>2, <1>5, <2>1, <2>3, <2>5, PgKeepsIds
  <2> QED BY <2>5, <2>6 DEF StepInv
<1>17. CASE Discard(r)
  <2>1. RequestsOK'
    BY <1>1, <1>17, Untouched DEF Discard
  <2>2. request[r] # None
    <3>1. answer[r] # None
      BY <1>17, AnswersAssumption DEF Discard
    <3> QED BY <1>1, <3>1 DEF RequestsOK
  <2> QED BY <1>1, <1>5, <1>17, <2>1, <2>2, PgReads DEF Discard, shared, clients
<1> QED BY <1>6, <1>7, <1>9, <1>10, <1>11, <1>12, <1>13, <1>14, <1>15, <1>16, <1>17
        DEF Postgres, PgStep, DatabaseStep

(* Every step keeps the inductive invariant. *)
LEMMA NextStepInv == StepInv /\ [Next]_vars => StepInv'
<1>1. StepInv /\ UNCHANGED vars => StepInv'
  <2> SUFFICES ASSUME StepInv, UNCHANGED vars PROVE StepInv'
    OBVIOUS
  <2>1. RequestsOK'
    BY Untouched DEF vars, StepInv, TypeOK
  <2> QED BY <2>1 DEF vars, shared, store, clients, simple, pg, StepInv, TypeOK, SimpleOK, IdsAreFresh,
                      StagesAgree, MapIsHeld, FoundStays, Locks
<1> QED BY <1>1, ClientKeeps, SimpleKeeps, PgKeeps DEF Next

(* The inductive invariant of both programs. *)
LEMMA StepInvariance == Spec => []StepInv
BY InitStepInv, NextStepInv, PTL DEF Spec

(* The row that an update has found is there until its transaction ends, so *)
(* that the UPDATE always has a row to return.                              *)
THEOREM FoundRowStays == Spec => []FoundStays
BY StepInvariance, PTL DEF StepInv

--------------------------------------------------------------------------------
(* A step of either program brings back no employee. *)
LEMMA NoneComesBack ==
  ASSUME StepInv, [Next]_vars, NEW i \in used, i \notin DOMAIN employees
  PROVE  i \notin DOMAIN employees'
<1>1. IsTable(employees) /\ used \subseteq Nat
  BY DEF StepInv, TypeOK, RequestsOK
<1>2. CASE UNCHANGED employees
  BY <1>2
<1>3. ASSUME NEW j, employees' = Without(employees, j)
      PROVE  i \notin DOMAIN employees'
  BY <1>1, <1>3, WithoutIsTable
<1>4. ASSUME NEW j \in Nat, NEW b \in Body, employees' = With(employees, j, b),
             j \in DOMAIN employees \/ j \notin used
      PROVE  i \notin DOMAIN employees'
  <2>1. DOMAIN With(employees, j, b) = DOMAIN employees \cup {j}
    BY <1>1, WithIsTable
  <2> QED BY <1>4, <2>1
<1>5. ASSUME NEW r \in Request, Client(r)
      PROVE  UNCHANGED employees
  BY <1>5 DEF Client, ClientStep, Ask, Reject, Answer, HangUp, store
<1>6. ASSUME NEW r \in Request, Simple(r)
      PROVE  i \notin DOMAIN employees'
  <2>1. CASE LockDb(r) \/ GetEmployee(r) \/ GetAllEmployees(r) \/ Generate(r) \/ Find(r)
    BY <1>2, <2>1 DEF LockDb, GetEmployee, GetAllEmployees, Generate, Find, shared, store
  <2>2. CASE InsertEmployee(r)
    <3>1. /\ employees' = With(employees, new_id[r], request[r].body)
          /\ request[r] # None /\ request[r].op \in {"post", "put"}
          /\ new_id[r] \in DOMAIN employees \/ new_id[r] \notin used
          /\ new_id[r] \in Nat
      BY <2>2 DEF InsertEmployee, StepInv, MapIsHeld, TypeOK, SimpleOK
    <3>2. request[r].body \in Body
      BY <3>1, Typed DEF StepInv, TypeOK
    <3> QED BY <1>4, <3>1, <3>2
  <2>3. CASE DeleteEmployee(r)
    BY <1>3, <2>3 DEF DeleteEmployee
  <2> QED BY <1>6, <2>1, <2>2, <2>3 DEF Simple, SimpleStep
<1>7. ASSUME NEW r \in Request, Postgres(r)
      PROVE  i \notin DOMAIN employees'
  <2>1. RequestsOK
    BY DEF StepInv, TypeOK
  <2>2. CASE Connect(r) \/ Fail(r) \/ FindById(r) \/ FindAll(r) \/ NextVal(r)
             \/ SelectForUpdate(r) \/ Update(r) \/ Discard(r)
    BY <1>2, <2>2 DEF Connect, Fail, FindById, FindAll, NextVal, SelectForUpdate, Update, Discard,
                      shared, store
  <2>3. CASE Insert(r)
    <3>1. /\ request[r].body \in Body
          /\ number[r] \in Nat /\ number[r] \notin used
          /\ employees' = With(employees, number[r], request[r].body)
      BY <2>1, <2>3, Typed DEF Insert, Executes, StepInv, TypeOK, IdsAreFresh
    <3> QED BY <1>4, <3>1
  <2>4. CASE DeleteById(r)
    BY <1>3, <2>4 DEF DeleteById
  <2>5. CASE Commit(r)
    <3>1. /\ request[r].body \in Body /\ request[r].id \in Nat
          /\ request[r].id \in DOMAIN employees
          /\ employees' = With(employees, request[r].id, request[r].body)
      BY <2>1, <2>5, Typed DEF Commit, Executes, StepInv, FoundStays
    <3> QED BY <1>4, <3>1
  <2> QED BY <1>7, <2>2, <2>3, <2>4, <2>5 DEF Postgres, PgStep, DatabaseStep
<1>8. CASE UNCHANGED vars
  BY <1>2, <1>8 DEF vars, shared, store
<1> QED BY <1>2, <1>5, <1>6, <1>7, <1>8 DEF Next

(* No id is given twice, and no deleted employee comes back. *)
THEOREM NeverBack == Spec => DeletedStaysDeleted
<1>1. StepInv /\ [Next]_vars => [\A i \in used : i \notin DOMAIN employees => i \notin DOMAIN employees']_vars
  BY NoneComesBack
<1> QED BY <1>1, StepInvariance, PTL DEF Spec, DeletedStaysDeleted

--------------------------------------------------------------------------------
LEMMA InitRefines == Init => Store!Init
<1> SUFFICES ASSUME Init PROVE Store!Init
  OBVIOUS
<1>1. IsTable(employees) /\ RequestsInit
  BY InitStepInv DEF StepInv, TypeOK, RequestsOK, Init
<1> QED BY <1>1 DEF Store!Init, Store!RequestsInit, Store!IsTable, RequestsInit, IsTable

(* What a client does is the same in the promise. *)
LEMMA ClientRefines ==
  ASSUME NEW r \in Request, Client(r)
  PROVE  Store!ClientStep(r)
BY DEF Client, ClientStep, Ask, Reject, Answer, HangUp, Route, Failed, Nobody, store,
       Store!ClientStep, Store!Ask, Store!Reject, Store!Answer, Store!HangUp, Store!Route,
       Store!Failed, Store!Nobody, Store!store

(* In memory, a request takes effect when its handler returns; the map has *)
(* been its own since it has looked for the row, or generated the id.       *)
LEMMA SimpleRefines ==
  ASSUME StepInv, NEW r \in Request, Simple(r)
  PROVE  Store!Next \/ UNCHANGED shared
<1> USE DEF Return, Reply, Ok, NotFound, FoundOr404, One, With, Without, store,
            Store!Open, Store!Reply, Store!Ok, Store!NotFound, Store!FoundOr404, Store!One,
            Store!With, Store!Without, Store!store
<1>1. r \in db => request[r] # None /\ reply[r] = None
  BY DEF StepInv, MapIsHeld
<1>2. CASE LockDb(r) \/ Generate(r)
  BY <1>2 DEF LockDb, Generate
<1>3. CASE GetEmployee(r)
  <2>1. Store!Get(r)
    BY <1>1, <1>3 DEF GetEmployee, Runs, Store!Get
  <2> QED BY <2>1 DEF Store!Next
<1>4. CASE GetAllEmployees(r)
  <2>1. Store!List(r)
    BY <1>1, <1>4 DEF GetAllEmployees, Runs, Store!List
  <2> QED BY <2>1 DEF Store!Next
<1>5. CASE Find(r)
  <2>1. CASE request[r].id \in DOMAIN employees
    BY <1>5, <2>1 DEF Find
  <2>2. CASE request[r].id \notin DOMAIN employees
    <3>1. Store!Put(r)
      BY <1>1, <1>5, <2>2 DEF Find, Runs, Store!Put
    <3> QED BY <3>1 DEF Store!Next
  <2> QED BY <2>1, <2>2
<1>6. CASE InsertEmployee(r)
  <2>1. CASE request[r].op = "post"
    <3>1. new_id[r] \in Nat /\ new_id[r] \in used' \ used
      BY <1>6, <2>1 DEF InsertEmployee, StepInv, MapIsHeld, TypeOK, SimpleOK
    <3>2. Store!Post(r)
      BY <1>1, <1>6, <2>1, <3>1 DEF InsertEmployee, Store!Post
    <3> QED BY <3>2 DEF Store!Next
  <2>2. CASE request[r].op = "put"
    <3>1. new_id[r] = request[r].id /\ request[r].id \in DOMAIN employees
      BY <1>6, <2>2 DEF InsertEmployee, StepInv, MapIsHeld
    <3>2. UNCHANGED used
      BY <1>6, <3>1 DEF InsertEmployee, StepInv, TypeOK, RequestsOK
    <3>3. Store!Put(r)
      BY <1>1, <1>6, <2>2, <3>1, <3>2 DEF InsertEmployee, Store!Put
    <3> QED BY <3>3 DEF Store!Next
  <2> QED BY <1>6, <2>1, <2>2 DEF InsertEmployee, StepInv, MapIsHeld
<1>7. CASE DeleteEmployee(r)
  <2>1. Store!Delete(r)
    BY <1>1, <1>7 DEF DeleteEmployee, Runs, Store!Delete
  <2> QED BY <2>1 DEF Store!Next
<1> QED BY <1>2, <1>3, <1>4, <1>5, <1>6, <1>7 DEF Simple, SimpleStep

(* At the database, an update takes effect when it is committed, or when it *)
(* finds no row; everything else when its one statement is carried out.     *)
LEMMA PostgresRefines ==
  ASSUME StepInv, NEW r \in Request, Postgres(r)
  PROVE  Store!Next \/ UNCHANGED shared
<1> USE DEF Executes, Reply, Ok, NotFound, FoundOr404, One, With, Without, store,
            Store!Open, Store!Reply, Store!Ok, Store!NotFound, Store!FoundOr404, Store!One,
            Store!With, Store!Without, Store!store
<1>1. \A q \in Request : stage[q] # "over" => reply[q] = None
  BY DEF Postgres, StepInv, StagesAgree
<1>2. \A q \in Request : Locks(q) => request[q].id \in DOMAIN employees
  BY DEF StepInv, FoundStays, Locks
<1>3. CASE Connect(r) \/ NextVal(r) \/ Discard(r)
  BY <1>3 DEF Connect, NextVal, Discard
<1>4. CASE Fail(r)
  <2>1. Store!Fail(r)
    BY <1>4 DEF Fail, Failed, Store!Fail, Store!Failed
  <2> QED BY <2>1 DEF Store!Next
<1>5. CASE FindById(r)
  <2>1. Store!Get(r)
    BY <1>1, <1>5 DEF FindById, Store!Get
  <2> QED BY <2>1 DEF Store!Next
<1>6. CASE FindAll(r)
  <2>1. Store!List(r)
    BY <1>1, <1>6 DEF FindAll, Store!List
  <2> QED BY <2>1 DEF Store!Next
<1>7. CASE Insert(r)
  <2>1. number[r] \in Nat /\ number[r] \in used' \ used
    BY <1>7 DEF Insert, StepInv, TypeOK, IdsAreFresh
  <2>2. Store!Post(r)
    BY <1>1, <1>7, <2>1 DEF Insert, Store!Post
  <2> QED BY <2>2 DEF Store!Next
<1>8. CASE DeleteById(r)
  <2>1. Store!Delete(r)
    BY <1>1, <1>8 DEF DeleteById, Store!Delete
  <2> QED BY <2>1 DEF Store!Next
<1>9. CASE SelectForUpdate(r)
  <2>1. CASE request[r].id \in DOMAIN employees
    BY <1>9, <2>1 DEF SelectForUpdate, shared, clients
  <2>2. CASE request[r].id \notin DOMAIN employees
    <3>1. Store!Put(r)
      BY <1>1, <1>9, <2>2 DEF SelectForUpdate, Store!Put
    <3> QED BY <3>1 DEF Store!Next
  <2> QED BY <2>1, <2>2
<1>10. CASE Update(r)
  BY <1>2, <1>10 DEF Update, Locks, shared, clients
<1>11. CASE Commit(r)
  <2>1. request[r].id \in DOMAIN employees
    BY <1>2, <1>11 DEF Commit, Locks
  <2>2. Store!Put(r)
    BY <1>1, <1>11, <2>1 DEF Commit, Store!Put
  <2> QED BY <2>2 DEF Store!Next
<1> QED BY <1>3, <1>4, <1>5, <1>6, <1>7, <1>8, <1>9, <1>10, <1>11
        DEF Postgres, PgStep, DatabaseStep

(* Every step is one that is promised. *)
LEMMA NextRefines ==
  ASSUME StepInv, [Next]_vars
  PROVE  Store!Next \/ UNCHANGED shared
<1>1. ASSUME NEW r \in Request, Client(r) PROVE Store!Next
  BY <1>1, ClientRefines DEF Store!Next
<1> QED BY <1>1, SimpleRefines, PostgresRefines DEF Next, vars

(* Both programs keep the promise of EmployeeStore. *)
THEOREM KeepsPromise == Spec => ImplementsEmployeeStore
<1>1. StepInv /\ [Next]_vars => [Store!Next]_(Store!shared)
  BY NextRefines DEF shared, store, clients, Store!shared, Store!store, Store!clients
<1> QED BY <1>1, InitRefines, StepInvariance, PTL DEF Spec, ImplementsEmployeeStore, Store!Spec

--------------------------------------------------------------------------------
(* What follows from the promise, and so is true of both programs.          *)

(* What a reply shows, by what is replied. *)
LEMMA Rows ==
  ASSUME NEW f, NEW i
  PROVE  /\ Ok(f).code = 200 /\ Ok(f).employees = f
         /\ NotFound.code = 404 /\ DOMAIN NotFound.employees = {}
         /\ FoundOr404(f, i).code \in {200, 404}
         /\ DOMAIN FoundOr404(f, i).employees = DOMAIN f \cap {i}
         /\ \A j \in DOMAIN FoundOr404(f, i).employees : FoundOr404(f, i).employees[j] = f[j]
<1>1. DOMAIN << >> = {}
  OBVIOUS
<1> QED BY <1>1 DEF Ok, NotFound, FoundOr404, One

(* One reply, and what it says of the store. *)
LEMMA OneReply ==
  ASSUME RequestsOK, NEW r \in Request, request[r] # None, reply[r] = None,
         NEW a, Reply(r, a), a.code \in {200, 404},
         request[r].op \in {"get", "list"} => UNCHANGED employees,
         request[r].op \in {"post", "put"} =>
            \A i \in DOMAIN a.employees : SameRow(a.employees, employees', i),
         request[r].op \notin {"post", "put"} =>
            \A i \in DOMAIN a.employees : SameRow(a.employees, employees, i),
         \A i \in (DOMAIN employees \cup DOMAIN employees') \ DOMAIN a.employees :
            SameRow(employees, employees', i)
  PROVE  OneEffect
<1>1. reply'[r] = a /\ \A q \in Request \ {r} : reply'[q] = reply[q]
  BY DEF RequestsOK, Reply
<1> QED BY <1>1 DEF OneEffect

LEMMA PromisedOneEffect ==
  ASSUME RequestsOK, Store!Next \/ UNCHANGED shared
  PROVE  OneEffect
<1> USE DEF Store!Open, Store!Reply, Store!Ok, Store!NotFound, Store!FoundOr404, Store!One,
            Store!With, Store!Without, Store!store
<1>1. CASE UNCHANGED <<employees, reply>>
  BY <1>1 DEF OneEffect
<1>2. ASSUME NEW r \in Request, Store!ClientStep(r) \/ Store!Fail(r)
      PROVE  UNCHANGED <<employees, reply>>
  BY <1>2 DEF Store!ClientStep, Store!Ask, Store!Reject, Store!Answer, Store!HangUp, Store!Fail
<1>3. ASSUME NEW r \in Request, Store!Get(r)
      PROVE  OneEffect
  <2>1. /\ request[r] # None /\ reply[r] = None /\ request[r].op = "get" /\ UNCHANGED employees
        /\ Reply(r, FoundOr404(employees, request[r].id))
    BY <1>3 DEF Store!Get, Reply, FoundOr404, Ok, One, NotFound
  <2>2. \A i \in DOMAIN FoundOr404(employees, request[r].id).employees :
           SameRow(FoundOr404(employees, request[r].id).employees, employees, i)
    BY Rows DEF SameRow
  <2>3. \A i \in DOMAIN employees : SameRow(employees, employees', i)
    BY <2>1 DEF SameRow
  <2>4. FoundOr404(employees, request[r].id).code \in {200, 404}
    BY Rows
  <2> QED BY <2>1, <2>2, <2>3, <2>4, OneReply
<1>4. ASSUME NEW r \in Request, Store!List(r)
      PROVE  OneEffect
  <2>1. /\ request[r] # None /\ reply[r] = None /\ request[r].op = "list" /\ UNCHANGED employees
        /\ Reply(r, Ok(employees))
    BY <1>4 DEF Store!List, Reply, Ok
  <2>2. \A i \in DOMAIN Ok(employees).employees : SameRow(Ok(employees).employees, employees, i)
    BY Rows DEF SameRow
  <2>3. \A i \in DOMAIN employees : SameRow(employees, employees', i)
    BY <2>1 DEF SameRow
  <2>4. Ok(employees).code \in {200, 404}
    BY DEF Ok
  <2> QED BY <2>1, <2>2, <2>3, <2>4, OneReply
<1>5. ASSUME NEW r \in Request, NEW i, NEW b, request[r] # None, reply[r] = None,
             request[r].op \in {"post", "put"},
             employees' = With(employees, i, b), Reply(r, Ok(One(i, b)))
      PROVE  OneEffect
  <2>1. DOMAIN One(i, b) = {i} /\ SameRow(One(i, b), employees', i)
    BY <1>5 DEF One, With, SameRow
  <2>2. \A j \in (DOMAIN employees \cup DOMAIN employees') \ {i} : SameRow(employees, employees', j)
    BY <1>5 DEF With, SameRow
  <2>3. Ok(One(i, b)).code = 200 /\ Ok(One(i, b)).employees = One(i, b)
    BY Rows
  <2> HIDE DEF Store!Ok, Store!One
  <2> QED BY <1>5, <2>1, <2>2, <2>3, OneReply
<1>6. ASSUME NEW r \in Request, Store!Post(r)
      PROVE  OneEffect
  <2>1. PICK i : employees' = With(employees, i, request[r].body) /\ Reply(r, Ok(One(i, request[r].body)))
    BY <1>6 DEF Store!Post, With, Reply, Ok, One
  <2> QED BY <1>5, <1>6, <2>1 DEF Store!Post
<1>7. ASSUME NEW r \in Request, Store!Put(r)
      PROVE  OneEffect
  <2>1. request[r] # None /\ reply[r] = None /\ request[r].op = "put"
    BY <1>7 DEF Store!Put
  <2>2. CASE request[r].id \in DOMAIN employees
    <3>1. /\ employees' = With(employees, request[r].id, request[r].body)
          /\ Reply(r, Ok(One(request[r].id, request[r].body)))
      BY <1>7, <2>2 DEF Store!Put, With, Reply, Ok, One
    <3> QED BY <1>5, <2>1, <3>1
  <2>3. CASE request[r].id \notin DOMAIN employees
    <3>1. Reply(r, NotFound) /\ UNCHANGED employees
      BY <1>7, <2>3 DEF Store!Put, Reply, NotFound
    <3>2. \A i \in DOMAIN employees : SameRow(employees, employees', i)
      BY <3>1 DEF SameRow
    <3> QED BY <2>1, <3>1, <3>2, Rows, OneReply
  <2> QED BY <2>2, <2>3
<1>8. ASSUME NEW r \in Request, Store!Delete(r)
      PROVE  OneEffect
  <2> DEFINE d == request[r].id
             a == FoundOr404(employees, d)
  <2>1. /\ request[r] # None /\ reply[r] = None /\ request[r].op = "delete"
        /\ Reply(r, a) /\ employees' = Without(employees, d)
    BY <1>8 DEF Store!Delete, Reply, FoundOr404, Ok, One, NotFound, Without
  <2>2. /\ a.code \in {200, 404} /\ DOMAIN a.employees = DOMAIN employees \cap {d}
        /\ \A i \in DOMAIN a.employees : SameRow(a.employees, employees, i)
    BY Rows DEF SameRow
  <2> HIDE DEF a
  <2>3. \A i \in (DOMAIN employees \cup DOMAIN employees') \ DOMAIN a.employees :
           SameRow(employees, employees', i)
    BY <2>1, <2>2 DEF Without, SameRow
  <2> QED BY <2>1, <2>2, <2>3, OneReply
<1> QED BY <1>1, <1>2, <1>3, <1>4, <1>6, <1>7, <1>8 DEF Store!Next, shared, store, clients

(* A request takes effect once, with its reply, and touches no other row    *)
(* than the one its client is told of; readers are told what is stored.     *)
THEOREM OneEffectEach == Spec => EffectsOnce
<1>1. StepInv /\ [Next]_vars => [OneEffect]_vars
  BY NextRefines, PromisedOneEffect DEF StepInv, TypeOK
<1> QED BY <1>1, StepInvariance, PTL DEF Spec, EffectsOnce

(* An id that one POST is told is in use, and no later one is told it.      *)
LEMMA PostedStayApart ==
  ASSUME RequestsOK, PostedApart, Store!Next \/ UNCHANGED shared
  PROVE  PostedApart'
<1> USE DEF Posted
<1>1. ASSUME used \subseteq used', UNCHANGED request,
             \A r \in Request : reply'[r] # reply[r] => request[r] # None /\ request[r].op # "post"
      PROVE  PostedApart'
  <2>1. Posted' = Posted /\ \A r \in Posted : reply'[r] = reply[r]
    BY <1>1 DEF RequestsOK
  <2> QED BY <1>1, <2>1 DEF PostedApart
<1>2. CASE UNCHANGED shared
  BY <1>1, <1>2 DEF shared, store, clients
<1>3. ASSUME NEW r \in Request, Store!ClientStep(r)
      PROVE  PostedApart'
  <2>1. UNCHANGED <<used, reply>> /\ \A q \in Request : request[q] # None => request'[q] = request[q]
    BY <1>3 DEF Store!ClientStep, Store!Ask, Store!Reject, Store!Answer, Store!HangUp, Store!store, RequestsOK
  <2>2. Posted' = Posted
    BY <2>1 DEF RequestsOK
  <2> QED BY <2>1, <2>2 DEF PostedApart
<1>4. ASSUME NEW r \in Request, Store!Get(r) \/ Store!List(r) \/ Store!Put(r) \/ Store!Delete(r) \/ Store!Fail(r)
      PROVE  PostedApart'
  <2>1. UNCHANGED <<used, request>>
    BY <1>4 DEF Store!Get, Store!List, Store!Put, Store!Delete, Store!Fail, Store!store
  <2>2. \A q \in Request : reply'[q] # reply[q] => request[q] # None /\ request[q].op # "post"
    BY <1>4 DEF Store!Get, Store!List, Store!Put, Store!Delete, Store!Fail, Store!Open, Store!Reply, RequestsOK
  <2> QED BY <1>1, <2>1, <2>2
<1>5. ASSUME NEW r \in Request, Store!Post(r)
      PROVE  PostedApart'
  <2>1. PICK i \in used' \ used : used' = used \cup {i} /\ Reply(r, Ok(One(i, request[r].body)))
    BY <1>5 DEF Store!Post, Store!Reply, Store!Ok, Store!One, Reply, Ok, One
  <2>2. request[r].op = "post" /\ UNCHANGED request /\ r \notin Posted
    BY <1>5 DEF Store!Post, Store!Open
  <2>3. DOMAIN reply'[r].employees = {i} /\ \A q \in Request \ {r} : reply'[q] = reply[q]
    BY <2>1 DEF RequestsOK, Reply, Ok, One
  <2>4. Posted' \subseteq Posted \cup {r}
    BY <2>2, <2>3
  <2>5. \A q \in Posted : DOMAIN reply[q].employees \subseteq used
    BY DEF PostedApart
  <2>6. ASSUME NEW q \in Posted
        PROVE  \E j \in used' : /\ DOMAIN reply'[q].employees = {j}
                                /\ \A p \in Posted' \ {q} : j \notin DOMAIN reply'[p].employees
    <3>1. PICK j \in used : /\ DOMAIN reply[q].employees = {j}
                            /\ \A p \in Posted \ {q} : j \notin DOMAIN reply[p].employees
      BY DEF PostedApart
    <3> QED BY <2>1, <2>2, <2>3, <2>4, <3>1
  <2>7. \A p \in Posted' \ {r} : i \notin DOMAIN reply'[p].employees
    BY <2>1, <2>3, <2>4, <2>5
  <2> QED BY <2>1, <2>3, <2>4, <2>6, <2>7 DEF PostedApart
<1> QED BY <1>2, <1>3, <1>4, <1>5 DEF Store!Next

(* The inductive invariant of both programs, with what clients are told of  *)
(* new employees.                                                           *)
THEOREM Invariance == Spec => []IInv
<1>1. Init => PostedApart
  BY DEF Init, RequestsInit, PostedApart, Posted
<1>2. StepInv /\ PostedApart /\ [Next]_vars => PostedApart'
  BY NextRefines, PostedStayApart DEF StepInv, TypeOK
<1>3. StepInv /\ PostedApart => IInv
  BY DEF IInv
<1> QED BY <1>1, <1>2, <1>3, StepInvariance, PTL DEF Spec

(* No two clients that add an employee are told the same id. *)
THEOREM OwnIds == Spec => []PostedApart
<1>1. IInv => PostedApart
  BY DEF IInv
<1> QED BY <1>1, Invariance, PTL
================================================================================
