------------------------------ MODULE PostgresCrud ------------------------------
(***************************************************************************)
(* crud/src/bin/with_postgres.rs: employees in a table.  A request takes a  *)
(* connection out of a pool and sends one statement, or, to update, a       *)
(* transaction of two.  Once a statement is on its way it is the database's *)
(* (here modelled from how it is used, at its default isolation): it may be *)
(* carried out although the request has failed or its client has hung up.   *)
(* A transaction that is dropped is rolled back; until then it keeps its    *)
(* row locked.                                                              *)
(***************************************************************************)
EXTENDS CrudRequests, FiniteSets

CONSTANTS
  MaxOpen,   \* bound: the largest pool
  MaxStored  \* bound: the ids that earlier runs of the program have used

ASSUME PostgresAssumption == MaxOpen \in Nat \ {0} /\ MaxStored \in Nat

VARIABLES
  max_open,  \* the pool's, 20 in the code: here any up to MaxOpen
  sequence,  \* the last id the table's bigserial has given
  stage,     \* how far each request has come at the database
  number     \* the id the database has given to each INSERT

Stage == {"waiting",    \* for a connection
          "sent",       \* its first statement is on its way
          "numbered",   \* its INSERT has an id, but its row is not committed
          "found",      \* it has locked the row of its id
          "updated",    \* it has updated that row, but not committed
          "over"}

pg == <<max_open, sequence, stage, number>>

PgInit ==
  /\ \E ids \in SUBSET (1 .. MaxStored) : employees \in [ids -> Body]
  /\ sequence = MaxStored
  /\ max_open \in 1 .. MaxOpen

PgRequestsInit ==
  /\ stage = [r \in Request |-> "waiting"]
  /\ number = [r \in Request |-> 0]

Goto(r, s) == stage' = [stage EXCEPT ![r] = s]

(* Requests that have a connection out of the pool. *)
Connected == {r \in Request : stage[r] # "waiting" /\ answer[r] = None}

Locks_wrong(r) == stage[r] = "updated"      \* the SELECT is not FOR UPDATE

(* FOR UPDATE locks the row it finds until the transaction ends. *)
Locks(r) == stage[r] \in {"found", "updated"}

Locked(r) == \E q \in Request \ {r} : Locks(q) /\ request[q].id = request[r].id

--------------------------------------------------------------------------------
(* db_pool.get().  A pool that is used up is waited for. *)
Connect(r) ==
  /\ request[r] # None /\ request[r].op # "rejected"
  /\ stage[r] = "waiting" /\ answer[r] = None
  /\ Cardinality(Connected) < max_open
  /\ Goto(r, "sent")
  /\ UNCHANGED <<shared, max_open, sequence, number>>

(* What a request gets that sees an error at any await: no connection in    *)
(* time, one that breaks, a statement the database refuses.                 *)
Fail(r) ==
  /\ request[r] # None
  /\ answer[r] = None
  /\ answer' = [answer EXCEPT ![r] = Failed]
  /\ UNCHANGED <<store, request, reply, pg>>

Executes(r, op, s) == request[r] # None /\ request[r].op = op /\ stage[r] = s

FindById(r) ==
  /\ Executes(r, "get", "sent")
  /\ Reply(r, FoundOr404(employees, request[r].id))
  /\ Goto(r, "over")
  /\ UNCHANGED <<store, request, answer, max_open, sequence, number>>

FindAll(r) ==
  /\ Executes(r, "list", "sent")
  /\ Reply(r, Ok(employees))
  /\ Goto(r, "over")
  /\ UNCHANGED <<store, request, answer, max_open, sequence, number>>

NextVal_wrong(r) ==      \* the new id is read, and not counted until it is used
  /\ Executes(r, "post", "sent")
  /\ number' = [number EXCEPT ![r] = sequence + 1]
  /\ Goto(r, "numbered")
  /\ UNCHANGED <<shared, max_open, sequence>>

(* An INSERT takes its id first, which it does not give back. *)
NextVal(r) ==
  /\ Executes(r, "post", "sent")
  /\ sequence' = sequence + 1
  /\ number' = [number EXCEPT ![r] = sequence']
  /\ Goto(r, "numbered")
  /\ UNCHANGED <<shared, max_open>>

Insert(r) ==
  /\ Executes(r, "post", "numbered")
  /\ employees' = With(employees, number[r], request[r].body)
  /\ used' = used \cup {number[r]}
  /\ Reply(r, Ok(One(number[r], request[r].body)))
  /\ Goto(r, "over")
  /\ UNCHANGED <<request, answer, max_open, sequence, number>>

DeleteById(r) ==
  /\ Executes(r, "delete", "sent")
  /\ ~Locked(r)
  /\ Reply(r, FoundOr404(employees, request[r].id))
  /\ employees' = Without(employees, request[r].id)
  /\ Goto(r, "over")
  /\ UNCHANGED <<used, request, answer, max_open, sequence, number>>

--------------------------------------------------------------------------------
(* update. *)

SelectForUpdate(r) ==
  /\ Executes(r, "put", "sent")
  /\ ~Locked(r)
  /\ IF request[r].id \in DOMAIN employees
     THEN Goto(r, "found") /\ UNCHANGED reply
     ELSE Goto(r, "over") /\ Reply(r, NotFound)
  /\ UNCHANGED <<store, request, answer, max_open, sequence, number>>

(* Without a row to return, the request fails and its transaction is dropped. *)
Update(r) ==
  /\ Executes(r, "put", "found")
  /\ answer[r] = None
  /\ IF request[r].id \in DOMAIN employees
     THEN Goto(r, "updated") /\ UNCHANGED answer
     ELSE Goto(r, "over") /\ answer' = [answer EXCEPT ![r] = Failed]
  /\ UNCHANGED <<store, request, reply, max_open, sequence, number>>

Commit_wrong(r) ==      \* the row is returned, but nothing is committed
  /\ Executes(r, "put", "updated")
  /\ Reply(r, Ok(One(request[r].id, request[r].body)))
  /\ Goto(r, "over")
  /\ UNCHANGED <<store, request, answer, max_open, sequence, number>>

Commit(r) ==
  /\ Executes(r, "put", "updated")
  /\ employees' = With(employees, request[r].id, request[r].body)
  /\ Reply(r, Ok(One(request[r].id, request[r].body)))
  /\ Goto(r, "over")
  /\ UNCHANGED <<used, request, answer, max_open, sequence, number>>

Discard_wrong(r) ==      \* what was begun for nobody is not rolled back
  /\ stage[r] \notin {"over", "found", "updated"} /\ answer[r] \in {Failed, Nobody}
  /\ Goto(r, "over")
  /\ UNCHANGED <<shared, max_open, sequence, number>>

(* A statement that nobody waits for may never arrive, or fail; a dropped   *)
(* transaction is rolled back.                                              *)
Discard(r) ==
  /\ stage[r] # "over" /\ answer[r] \in {Failed, Nobody}
  /\ Goto(r, "over")
  /\ UNCHANGED <<shared, max_open, sequence, number>>

--------------------------------------------------------------------------------
DatabaseStep(r) ==
  \/ FindById(r) \/ FindAll(r) \/ NextVal(r) \/ Insert(r) \/ DeleteById(r)
  \/ SelectForUpdate(r) \/ Update(r) \/ Commit(r) \/ Discard(r)

PgStep(r) == Connect(r) \/ Fail(r) \/ DatabaseStep(r)
================================================================================
